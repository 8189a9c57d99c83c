------------------------- MODULE ApiCollections_proofs -------------------------
(***************************************************************************)
(* Theorems about Access and ApiCollections for every number of requests,  *)
(* portal threads, keys, entries and collections.                          *)
(*                                                                         *)
(* The key lists: what a thread of the portal read stays true enough.  The *)
(* family of a key never changes, and what an owner opened or an           *)
(* administrator approved is never taken back, so that a setting or a list *)
(* carried from an old key to its replacement is covered by either.        *)
(*                                                                         *)
(* A request: what it was admitted on was in order at some moment since it *)
(* began, because no key becomes valid again and every change of standing  *)
(* is seen by whoever is under way.                                        *)
(*                                                                         *)
(* The money: a row is credited when it leaves "processing", which it does *)
(* once, and by the prompt it names, which was made for it.                *)
(***************************************************************************)
EXTENDS ApiCollections, TLAPS

Statuses == {"pending", "active", "rejected", "deleted"}
Work == [at : {"idle", "create", "list", "rotate", "retire", "replace", "read", "copy", "switch"},
         key : Nat, live : BOOLEAN, limited : BOOLEAN, address : Addresses \cup {0},
         new : Nat, todo : SUBSET (Addresses \X Statuses)]
Admission == /\ standing \in Standing /\ keys \in Seq(Key) /\ entries \in Seq(Entry)
             /\ clerk \in [Clerks -> Work]

Older == {"rotate", "retire", "replace"}
ClerkOK(t) ==
  LET q == clerk[t] IN
  /\ q.at \in Older \cup {"list", "read", "copy", "switch"} => q.key \in 1..Len(keys)
  /\ q.at = "list" \/ (q.at = "create" /\ q.limited) => q.address \in Addresses
  /\ q.at \in Older /\ ~q.limited => Family(q.key) \in opened
  /\ q.at \in {"read", "copy"} => q.new \in 1..Len(keys) /\ Family(q.new) = Family(q.key)
  /\ q.at = "copy" => \A row \in q.todo : row[2] = "active" => <<Family(q.key), row[1]>> \in approved
KeyOK(k) == keys[k].active /\ ~keys[k].limited => keys[k].family \in opened
EntryOK(e) == /\ entries[e].key \in 0..Len(keys)
              /\ entries[e].status = "active" => <<Family(entries[e].key), entries[e].address>> \in approved

ListInv == /\ Admission
           /\ \A t \in Clerks : ClerkOK(t)
           /\ \A k \in 1..Len(keys) : KeyOK(k)
           /\ \A e \in 1..Len(entries) : EntryOK(e)

\* Keys and their families stay; what is opened or approved stays so.
Grows == /\ Len(keys) <= Len(keys') /\ \A k \in 1..Len(keys) : keys'[k].family = keys[k].family
         /\ opened \subseteq opened' /\ approved \subseteq approved'
-----------------------------------------------------------------------------
(***************************************************************************)
(* The lists of the keys.                                                  *)
(***************************************************************************)
LEMMA FamilyStays ==
  ASSUME Admission, Admission', Grows, NEW k \in 0..Len(keys)
  PROVE  Family(k)' = Family(k) /\ k \in 0..Len(keys')
<1>1. Len(keys) \in Nat /\ Len(keys') \in Nat
  BY DEF Admission
<1>2. k = 0 \/ k \in 1..Len(keys)
  BY <1>1
<1> QED BY <1>1, <1>2 DEF Grows, Family

LEMMA ClerkStays ==
  ASSUME Admission, Admission', Grows, NEW t \in Clerks, ClerkOK(t), clerk'[t] = clerk[t]
  PROVE  ClerkOK(t)'
<1>1. Len(keys) \in Nat /\ Len(keys') \in Nat /\ Len(keys) <= Len(keys')
  BY DEF Admission, Grows
<1>2. \A k \in 1..Len(keys) : k \in 1..Len(keys') /\ Family(k) = keys[k].family
                                /\ keys'[k].family = keys[k].family /\ k # 0
  BY <1>1 DEF Grows, Family
<1> QED BY <1>2 DEF ClerkOK, Grows, Older, Family

\* What a step must show of what it changes.
LEMMA ListStep ==
  ASSUME ListInv, Admission', Grows,
         \A t \in Clerks : clerk'[t] = clerk[t] \/ ClerkOK(t)',
         \A k \in 1..Len(keys') :
           \/ /\ k \in 1..Len(keys) /\ keys'[k].limited = keys[k].limited
              /\ keys'[k].active => keys[k].active
           \/ KeyOK(k)',
         \A e \in 1..Len(entries') :
           \/ /\ e \in 1..Len(entries) /\ entries'[e].key = entries[e].key
              /\ entries'[e].address = entries[e].address
              /\ entries'[e].status = "active" => entries[e].status = "active"
           \/ EntryOK(e)'
  PROVE  ListInv'
<1>1. Admission
  BY DEF ListInv
<1>2. ASSUME NEW t \in Clerks PROVE ClerkOK(t)'
  BY <1>1, ClerkStays DEF ListInv
<1>3. ASSUME NEW k \in 1..Len(keys') PROVE KeyOK(k)'
  <2>1. CASE /\ k \in 1..Len(keys) /\ keys'[k].limited = keys[k].limited
             /\ keys'[k].active => keys[k].active
    BY <2>1 DEF ListInv, KeyOK, Grows
  <2> QED BY <2>1
<1>4. ASSUME NEW e \in 1..Len(entries') PROVE EntryOK(e)'
  <2>1. CASE /\ e \in 1..Len(entries) /\ entries'[e].key = entries[e].key
             /\ entries'[e].address = entries[e].address
             /\ entries'[e].status = "active" => entries[e].status = "active"
    <3>1. EntryOK(e)
      BY <2>1 DEF ListInv
    <3>2. \A k \in 0..Len(keys) : Family(k)' = Family(k) /\ k \in 0..Len(keys')
      BY <1>1, FamilyStays
    <3> QED BY <2>1, <3>1, <3>2 DEF EntryOK, Grows, Family
  <2> QED BY <2>1
<1> QED BY <1>2, <1>3, <1>4 DEF ListInv

LEMMA UpdateSeq ==
  ASSUME NEW T, NEW s \in Seq(T), NEW i \in 1..Len(s), NEW x \in T, NEW u, u = [s EXCEPT ![i] = x]
  PROVE  /\ u \in Seq(T) /\ Len(u) = Len(s) /\ u[i] = x
         /\ \A j \in 1..Len(s) : j # i => u[j] = s[j]
<1> QED OBVIOUS

LEMMA AppendSeq ==
  ASSUME NEW T, NEW s \in Seq(T), NEW x \in T, NEW u, u = Append(s, x)
  PROVE  /\ u \in Seq(T) /\ Len(u) = Len(s) + 1 /\ u[Len(s) + 1] = x
         /\ \A j \in 1..Len(s) : u[j] = s[j]
         /\ \A j \in 1..Len(u) : j \in 1..Len(s) \/ j = Len(s) + 1
<1> QED OBVIOUS

KeysStay == keys' = keys /\ opened' = opened
EntriesStay == entries' = entries /\ approved' = approved

\* A thread moves, and neither keys nor entries change.
LEMMA OnlyServes ==
  ASSUME ListInv, NEW t \in Clerks, NEW q \in Work, Serve(t, q), standing' = standing,
         KeysStay, EntriesStay, ClerkOK(t)'
  PROVE  ListInv'
<1>1. clerk' \in [Clerks -> Work] /\ \A u \in Clerks \ {t} : clerk'[u] = clerk[u]
  BY DEF ListInv, Admission, Serve
<1>2. Admission' /\ Grows
  BY <1>1 DEF ListInv, Admission, KeysStay, EntriesStay, Grows
<1> QED BY <1>1, <1>2, ListStep DEF KeysStay, EntriesStay

\* ... or one key or one entry changes, or is added.
LEMMA KeyMoves ==
  ASSUME ListInv, clerk' \in [Clerks -> Work], \A u \in Clerks : clerk'[u] = clerk[u] \/ ClerkOK(u)',
         standing' = standing, EntriesStay, opened \subseteq opened',
         NEW k, NEW x \in Key,
         \/ k \in 1..Len(keys) /\ keys' = [keys EXCEPT ![k] = x] /\ x.family = keys[k].family
         \/ k = Len(keys) + 1 /\ keys' = Append(keys, x),
         \/ k \in 1..Len(keys) /\ x.limited = keys[k].limited /\ (x.active => keys[k].active)
         \/ KeyOK(k)'
  PROVE  ListInv'
<1>1. keys \in Seq(Key) /\ Len(keys) \in Nat
  BY DEF ListInv, Admission
<1>2. /\ keys' \in Seq(Key) /\ Len(keys) <= Len(keys') /\ keys'[k] = x
      /\ \A j \in 1..Len(keys) : keys'[j].family = keys[j].family
      /\ \A j \in 1..Len(keys') : j # k => j \in 1..Len(keys) /\ keys'[j] = keys[j]
  <2>1. CASE k \in 1..Len(keys) /\ keys' = [keys EXCEPT ![k] = x] /\ x.family = keys[k].family
    BY <1>1, <2>1, UpdateSeq
  <2>2. CASE k = Len(keys) + 1 /\ keys' = Append(keys, x)
    BY <1>1, <2>2, AppendSeq
  <2> QED BY <2>1, <2>2
<1>3. Admission' /\ Grows
  BY <1>2 DEF ListInv, Admission, EntriesStay, Grows
<1>4. \A j \in 1..Len(keys') :
        \/ /\ j \in 1..Len(keys) /\ keys'[j].limited = keys[j].limited
           /\ keys'[j].active => keys[j].active
        \/ KeyOK(j)'
  BY <1>2
<1> QED BY <1>3, <1>4, ListStep DEF EntriesStay

LEMMA EntryMoves ==
  ASSUME ListInv, clerk' \in [Clerks -> Work], \A u \in Clerks : clerk'[u] = clerk[u] \/ ClerkOK(u)',
         standing' = standing, KeysStay, approved \subseteq approved',
         NEW e, NEW x \in Entry,
         \/ e \in 1..Len(entries) /\ entries' = [entries EXCEPT ![e] = x]
         \/ e = Len(entries) + 1 /\ entries' = Append(entries, x),
         \/ /\ e \in 1..Len(entries) /\ x.key = entries[e].key /\ x.address = entries[e].address
            /\ x.status = "active" => entries[e].status = "active"
         \/ EntryOK(e)'
  PROVE  ListInv'
<1>1. entries \in Seq(Entry) /\ Len(entries) \in Nat
  BY DEF ListInv, Admission
<1>2. /\ entries' \in Seq(Entry) /\ entries'[e] = x
      /\ \A j \in 1..Len(entries') : j # e => j \in 1..Len(entries) /\ entries'[j] = entries[j]
  <2>1. CASE e \in 1..Len(entries) /\ entries' = [entries EXCEPT ![e] = x]
    BY <1>1, <2>1, UpdateSeq
  <2>2. CASE e = Len(entries) + 1 /\ entries' = Append(entries, x)
    BY <1>1, <2>2, AppendSeq
  <2> QED BY <2>1, <2>2
<1>3. Admission' /\ Grows
  BY <1>2 DEF ListInv, Admission, KeysStay, Grows
<1>4. \A j \in 1..Len(entries') :
        \/ /\ j \in 1..Len(entries) /\ entries'[j].key = entries[j].key
           /\ entries'[j].address = entries[j].address
           /\ entries'[j].status = "active" => entries[j].status = "active"
        \/ EntryOK(j)'
  BY <1>2
<1> QED BY <1>3, <1>4, ListStep DEF KeysStay

LEMMA StandingMoves ==
  ASSUME ListInv, NEW s \in Standing, SetStanding(s)
  PROVE  ListInv'
<1>1. /\ standing' = s /\ keys' = keys /\ entries' = entries /\ clerk' = clerk
      /\ opened' = opened /\ approved' = approved
  BY DEF SetStanding
<1>2. Admission' /\ Grows
  BY <1>1 DEF ListInv, Admission, Grows
<1> QED BY <1>1, <1>2, ListStep

LEMMA AdministerOK == ASSUME ListInv, Administer PROVE ListInv'
<1>1. /\ standing \in Standing /\ keys \in Seq(Key) /\ entries \in Seq(Entry)
      /\ clerk \in [Clerks -> Work]
  BY DEF ListInv, Admission
<1>2. CASE SuspendApiAccess \/ ReinstateApiAccess \/ \E s \in {"active", "suspended"} : UpdateMerchantStatus(s)
  <2>1. \E s \in Standing : SetStanding(s)
    <3>1. /\ [standing EXCEPT !.suspended = TRUE] \in Standing
          /\ [standing EXCEPT !.suspended = FALSE] \in Standing
          /\ \A s \in {"active", "suspended"} : [standing EXCEPT !.status = s] \in Standing
      BY <1>1 DEF Standing
    <3> QED BY <1>2, <3>1 DEF SuspendApiAccess, ReinstateApiAccess, UpdateMerchantStatus
  <2> QED BY <2>1, StandingMoves
<1>3. ASSUME NEW k \in DOMAIN keys, RevokeKey(k) PROVE ListInv'
  <2>1. k \in 1..Len(keys) /\ keys[k] \in Key
    BY <1>1, <1>3
  <2>2. PICK x \in Key : x = [keys[k] EXCEPT !.active = FALSE]
    BY <2>1 DEF Key
  <2>3. x.limited = keys[k].limited /\ x.family = keys[k].family /\ ~x.active
    BY <2>1, <2>2 DEF Key
  <2>4. keys' = [keys EXCEPT ![k] = x] /\ clerk' = clerk /\ standing' = standing /\ EntriesStay /\ opened' = opened
    BY <1>1, <1>3, <2>1, <2>2 DEF RevokeKey, EntriesStay
  <2> QED BY <1>1, <2>1, <2>3, <2>4, KeyMoves
<1>4. ASSUME NEW e \in DOMAIN entries, NEW s \in {"active", "rejected"}, ReviewEntry(e, s) PROVE ListInv'
  <2>1. e \in 1..Len(entries) /\ entries[e] \in Entry
    BY <1>1, <1>4
  <2>2. PICK x \in Entry : x = [entries[e] EXCEPT !.status = s]
    BY <2>1 DEF Entry
  <2>3. x.key = entries[e].key /\ x.address = entries[e].address /\ x.status = s
    BY <2>1, <2>2 DEF Entry
  <2>4. entries' = [entries EXCEPT ![e] = x] /\ clerk' = clerk /\ standing' = standing /\ KeysStay
    BY <1>1, <1>4, <2>1, <2>2 DEF ReviewEntry, KeysStay
  <2>5. approved \subseteq approved' /\ (s = "active" => <<Family(x.key), x.address>> \in approved')
    BY <1>4, <2>3 DEF ReviewEntry
  <2>6. entries'[e] = x
    BY <1>1, <2>1, <2>4
  <2>7. EntryOK(e)'
    BY <2>1, <2>3, <2>4, <2>5, <2>6 DEF EntryOK, ListInv, KeysStay, Family
  <2> QED BY <1>1, <2>1, <2>4, <2>5, <2>7, EntryMoves
<1> QED BY <1>2, <1>3, <1>4 DEF Administer

\* A thread that ends, or has read only the key.
LEMMA NoWorkOK == NoWork \in Work /\ NoWork.at = "idle"
<1> QED BY DEF NoWork, Work

\* A thread takes a place; what it carries is what it carried or what it just read.
LEMMA ServedOK ==
  ASSUME ListInv, NEW t \in Clerks, NEW q \in Work, Serve(t, q)
  PROVE  /\ clerk' \in [Clerks -> Work] /\ clerk'[t] = q
         /\ \A u \in Clerks \ {t} : clerk'[u] = clerk[u]
         /\ q.at = "idle" \/ (q.at = "create" /\ (q.limited => q.address \in Addresses)) => ClerkOK(t)'
<1>1. /\ clerk' \in [Clerks -> Work] /\ clerk'[t] = q
      /\ \A u \in Clerks \ {t} : clerk'[u] = clerk[u]
  BY DEF ListInv, Admission, Serve
<1>2. q.at = "idle" \/ (q.at = "create" /\ (q.limited => q.address \in Addresses)) => ClerkOK(t)'
  BY <1>1 DEF ClerkOK, Older
<1> QED BY <1>1, <1>2

LEMMA RestsOK ==
  ASSUME ListInv, NEW t \in Clerks, Serve(t, NoWork)
  PROVE  ClerkOK(t)' /\ clerk' \in [Clerks -> Work] /\ \A u \in Clerks : clerk'[u] = clerk[u] \/ ClerkOK(u)'
<1> PICK q \in Work : q = NoWork /\ q.at = "idle"
  BY NoWorkOK
<1>1. Serve(t, q)
  OBVIOUS
<1>2. /\ clerk' \in [Clerks -> Work] /\ \A u \in Clerks \ {t} : clerk'[u] = clerk[u]
      /\ ClerkOK(t)'
  BY <1>1, ServedOK
<1> QED BY <1>2

LEMMA CreateOK ==
  ASSUME ListInv, NEW t \in Clerks, NEW live \in BOOLEAN, NEW limited \in BOOLEAN, NEW a \in Addresses,
         CreateApiKey(t, live, limited, a)
  PROVE  ListInv'
<1> DEFINE q == [NoWork EXCEPT !.at = "create", !.live = live, !.limited = limited,
                   !.address = IF limited THEN a ELSE 0]
<1>1. q \in Work /\ q.at = "create" /\ (q.limited => q.address \in Addresses)
  BY NoWorkOK DEF Work
<1>2. Serve(t, q) /\ standing' = standing /\ KeysStay /\ EntriesStay
  BY DEF CreateApiKey, LetIn, KeysStay, EntriesStay
<1> HIDE DEF q
<1> QED BY <1>1, <1>2, ServedOK, OnlyServes

LEMMA InsertKeyOK == ASSUME ListInv, NEW t \in Clerks, InsertKey(t) PROVE ListInv'
<1> PICK k \in Nat : k = Len(keys) + 1
  BY DEF ListInv, Admission
<1> DEFINE c == clerk[t]
           x == [live |-> c.live, active |-> TRUE, limited |-> c.limited, family |-> k]
<1>1. c \in Work /\ keys \in Seq(Key) /\ Len(keys) \in Nat
  BY DEF ListInv, Admission
<1>2. x \in Key /\ x.limited = c.limited /\ x.family = k
  BY <1>1 DEF Key, Work
<1>3. keys' = Append(keys, x) /\ standing' = standing /\ EntriesStay
  BY DEF InsertKey, NewKey, EntriesStay
<1>4. \E q \in Work : /\ Serve(t, q) /\ q.at \in {"idle", "list"}
                     /\ (q.at = "list" => q.key = k /\ q.address \in Addresses)
  <2>1. CASE c.limited
    <3>1. c.address \in Addresses
      BY <2>1 DEF ListInv, ClerkOK, InsertKey
    <3>2. PICK q \in Work : q = [c EXCEPT !.at = "list", !.key = k]
      BY <1>1 DEF Work
    <3>3. Serve(t, [To(t, "list") EXCEPT !.key = k])
      BY <2>1 DEF InsertKey
    <3>4. [To(t, "list") EXCEPT !.key = k] = q /\ q.at = "list" /\ q.key = k /\ q.address = c.address
      BY <1>1, <3>2 DEF To, Work
    <3> QED BY <3>3, <3>4, <3>1
  <2>2. CASE ~c.limited
    BY <2>2, NoWorkOK DEF InsertKey
  <2> QED BY <2>1, <2>2
<1>5. PICK q \in Work : /\ Serve(t, q) /\ q.at \in {"idle", "list"}
                       /\ (q.at = "list" => q.key = k /\ q.address \in Addresses)
  BY <1>4
<1>6. opened \subseteq opened' /\ (~c.limited => k \in opened')
  BY DEF InsertKey
<1> HIDE DEF c, x
<1>7. /\ keys' \in Seq(Key) /\ Len(keys') = k /\ keys'[k] = x
      /\ \A j \in 1..Len(keys) : keys'[j] = keys[j]
  BY <1>1, <1>2, <1>3, AppendSeq
<1>8. clerk' \in [Clerks -> Work] /\ clerk'[t] = q /\ \A u \in Clerks \ {t} : clerk'[u] = clerk[u]
  BY <1>5, ServedOK
<1>9. ClerkOK(t)'
  BY <1>1, <1>5, <1>7, <1>8 DEF ClerkOK, Older
<1>10. KeyOK(k)'
  BY <1>2, <1>6, <1>7 DEF KeyOK
<1>11. \A u \in Clerks : clerk'[u] = clerk[u] \/ ClerkOK(u)'
  BY <1>8, <1>9
<1> QED BY <1>2, <1>3, <1>6, <1>8, <1>10, <1>11, KeyMoves


\* An entry is added by a thread that then rests, or by none.
LEMMA AddEntry ==
  ASSUME ListInv, clerk' \in [Clerks -> Work], \A u \in Clerks : clerk'[u] = clerk[u] \/ ClerkOK(u)',
         standing' = standing, KeysStay, approved' = approved,
         NEW x \in Entry, entries' = Append(entries, x),
         x.key \in 0..Len(keys), x.status = "active" => <<Family(x.key), x.address>> \in approved
  PROVE  ListInv'
<1>1. entries \in Seq(Entry) /\ Len(entries) \in Nat
  BY DEF ListInv, Admission
<1> PICK e \in Nat : e = Len(entries) + 1
  BY <1>1
<1>2. entries'[e] = x
  BY <1>1, AppendSeq
<1>3. EntryOK(e)'
  BY <1>2 DEF EntryOK, KeysStay, Family
<1> QED BY <1>1, <1>3, EntryMoves

LEMMA InsertEntriesOK == ASSUME ListInv, NEW t \in Clerks, InsertEntries(t) PROVE ListInv'
<1> DEFINE x == Pending(clerk[t].key, clerk[t].address)
<1>1. clerk[t] \in Work /\ Len(keys) \in Nat
  BY DEF ListInv, Admission
<1>2. clerk[t].at = "list" /\ clerk[t].key \in 1..Len(keys) /\ clerk[t].address \in Addresses
  BY DEF InsertEntries, ListInv, ClerkOK
<1>3. x \in Entry /\ x.key \in 0..Len(keys) /\ x.status = "pending"
  BY <1>1, <1>2 DEF Pending, Entry
<1>4. /\ entries' = Append(entries, x) /\ standing' = standing /\ KeysStay /\ approved' = approved
      /\ Serve(t, NoWork)
  BY DEF InsertEntries, KeysStay
<1> HIDE DEF x
<1>5. clerk' \in [Clerks -> Work] /\ \A u \in Clerks : clerk'[u] = clerk[u] \/ ClerkOK(u)'
  BY <1>4, RestsOK
<1> QED BY <1>3, <1>4, <1>5, AddEntry

LEMMA RotateOK == ASSUME ListInv, NEW t \in Clerks, NEW k \in DOMAIN keys, RotateApiKey(t, k) PROVE ListInv'
<1>1. k \in 1..Len(keys) /\ keys[k] \in Key /\ keys[k].active
  BY DEF ListInv, Admission, RotateApiKey
<1> DEFINE l == keys[k].limited
<1>2. l \in BOOLEAN /\ k \in Nat /\ k # 0
  BY <1>1 DEF Key
<1>3. ~l => Family(k) \in opened
  BY <1>1, <1>2 DEF ListInv, KeyOK, Family
<1>4. Serve(t, [NoWork EXCEPT !.at = "rotate", !.key = k, !.limited = l])
  BY DEF RotateApiKey
<1>5. standing' = standing /\ KeysStay /\ EntriesStay /\ keys' = keys
  BY DEF RotateApiKey, KeysStay, EntriesStay
<1> HIDE DEF l
<1>6. PICK q \in Work : q = [NoWork EXCEPT !.at = "rotate", !.key = k, !.limited = l]
  BY <1>2, NoWorkOK DEF Work
<1>7. q.at = "rotate" /\ q.key = k /\ q.limited = l
  BY <1>6, NoWorkOK DEF Work
<1>8. clerk'[t] = q
  BY <1>4, <1>6, ServedOK
<1>9. ClerkOK(t)'
  BY <1>1, <1>3, <1>5, <1>7, <1>8 DEF ClerkOK, Older, KeysStay, Family
<1> QED BY <1>4, <1>5, <1>6, <1>9, OnlyServes

\* The thread goes on with what it carries.
LEMMA GoesOn ==
  ASSUME ListInv, NEW t \in Clerks, NEW p \in {"retire", "replace"}, clerk[t].at \in Older, Serve(t, To(t, p))
  PROVE  /\ To(t, p) \in Work /\ clerk' \in [Clerks -> Work]
         /\ clerk'[t].at = p /\ clerk'[t].key = clerk[t].key /\ clerk'[t].limited = clerk[t].limited
         /\ \A u \in Clerks \ {t} : clerk'[u] = clerk[u]
<1>1. clerk[t] \in Work
  BY DEF ListInv, Admission
<1>2. PICK q \in Work : q = [clerk[t] EXCEPT !.at = p]
  BY <1>1 DEF Work
<1>3. q.at = p /\ q.key = clerk[t].key /\ q.limited = clerk[t].limited
  BY <1>1, <1>2 DEF Work
<1>4. q = To(t, p) /\ Serve(t, q)
  BY <1>2 DEF To
<1> QED BY <1>3, <1>4, ServedOK

LEMMA CheckRotationOK == ASSUME ListInv, NEW t \in Clerks, CheckRotation(t) PROVE ListInv'
<1>1. standing' = standing /\ KeysStay /\ EntriesStay /\ clerk[t].at = "rotate"
  BY DEF CheckRotation, KeysStay, EntriesStay
<1>2. CASE Serve(t, NoWork)
  BY <1>1, <1>2, NoWorkOK, RestsOK, OnlyServes
<1>3. CASE Serve(t, To(t, "retire"))
  <2>1. /\ To(t, "retire") \in Work /\ clerk'[t].at = "retire"
        /\ clerk'[t].key = clerk[t].key /\ clerk'[t].limited = clerk[t].limited
    BY <1>1, <1>3, GoesOn DEF Older
  <2>2. ClerkOK(t)'
    BY <1>1, <2>1 DEF ListInv, ClerkOK, Older, KeysStay, Family
  <2> QED BY <1>1, <1>3, <2>1, <2>2, OnlyServes
<1> QED BY <1>2, <1>3 DEF CheckRotation

LEMMA RetireOK == ASSUME ListInv, NEW t \in Clerks, RetireKey(t) PROVE ListInv'
<1> DEFINE k == clerk[t].key
<1>1. /\ standing' = standing /\ EntriesStay /\ opened' = opened /\ clerk[t].at = "retire"
      /\ Serve(t, To(t, "replace")) /\ keys' = [keys EXCEPT ![k].active = FALSE]
  BY DEF RetireKey, EntriesStay
<1>2. k \in 1..Len(keys) /\ keys \in Seq(Key) /\ ClerkOK(t)
  BY <1>1 DEF ListInv, ClerkOK, Older, Admission
<1> HIDE DEF k
<1>3. keys[k] \in Key
  BY <1>2
<1>4. PICK x \in Key : x = [keys[k] EXCEPT !.active = FALSE]
  BY <1>3 DEF Key
<1>5. x.limited = keys[k].limited /\ x.family = keys[k].family /\ ~x.active
  BY <1>3, <1>4 DEF Key
<1>6. keys' = [keys EXCEPT ![k] = x]
  BY <1>1, <1>2, <1>4
<1>7. /\ Len(keys') = Len(keys) /\ \A j \in 1..Len(keys) : keys'[j].family = keys[j].family
  BY <1>2, <1>5, <1>6, UpdateSeq
<1>8. /\ clerk' \in [Clerks -> Work] /\ clerk'[t].at = "replace"
      /\ clerk'[t].key = clerk[t].key /\ clerk'[t].limited = clerk[t].limited
      /\ \A u \in Clerks \ {t} : clerk'[u] = clerk[u]
  BY <1>1, GoesOn DEF Older
<1>9. ClerkOK(t)'
  BY <1>1, <1>2, <1>7, <1>8 DEF ClerkOK, Older, Family
<1>10. \A u \in Clerks : clerk'[u] = clerk[u] \/ ClerkOK(u)'
  BY <1>8, <1>9
<1> QED BY <1>1, <1>2, <1>5, <1>6, <1>8, <1>10, KeyMoves

LEMMA ReplaceOK == ASSUME ListInv, NEW t \in Clerks, ReplaceKey(t) PROVE ListInv'
<1> PICK n \in Nat : n = Len(keys) + 1
  BY DEF ListInv, Admission
<1> DEFINE c == clerk[t]
           k == c.key
           f == Family(k)
           x == [live |-> keys[k].live, active |-> TRUE, limited |-> c.limited, family |-> f]
<1>1. c \in Work /\ keys \in Seq(Key) /\ Len(keys) \in Nat /\ c.at = "replace"
  BY DEF ListInv, Admission, ReplaceKey
<1>2. k \in 1..Len(keys) /\ (~c.limited => f \in opened)
  BY <1>1 DEF ListInv, ClerkOK, Older
<1>3. keys[k] \in Key /\ f = keys[k].family
  BY <1>1, <1>2 DEF Family
<1>4. x \in Key /\ x.limited = c.limited /\ x.family = f
  BY <1>1, <1>3 DEF Key, Work
<1>5. keys' = Append(keys, x) /\ standing' = standing /\ EntriesStay /\ opened' = opened
  BY DEF ReplaceKey, Replacement, NewKey, EntriesStay
<1>6. \E q \in Work : Serve(t, q) /\ q.at \in {"idle", "read"} /\ (q.at = "read" => q.key = k /\ q.new = n)
  <2>1. CASE c.limited
    <3>1. PICK q \in Work : q = [c EXCEPT !.at = "read", !.new = n]
      BY <1>1 DEF Work
    <3>2. Serve(t, [To(t, "read") EXCEPT !.new = n])
      BY <2>1 DEF ReplaceKey
    <3>3. [To(t, "read") EXCEPT !.new = n] = q /\ q.at = "read" /\ q.new = n /\ q.key = k
      BY <1>1, <3>1 DEF To, Work
    <3> QED BY <3>2, <3>3
  <2>2. CASE ~c.limited
    BY <2>2, NoWorkOK DEF ReplaceKey
  <2> QED BY <2>1, <2>2
<1>7. PICK q \in Work : Serve(t, q) /\ q.at \in {"idle", "read"} /\ (q.at = "read" => q.key = k /\ q.new = n)
  BY <1>6
<1> HIDE DEF c, k, f, x
<1>8. /\ keys' \in Seq(Key) /\ Len(keys') = n /\ keys'[n] = x
      /\ \A j \in 1..Len(keys) : keys'[j] = keys[j]
  BY <1>1, <1>4, <1>5, AppendSeq
<1>9. clerk' \in [Clerks -> Work] /\ clerk'[t] = q /\ \A u \in Clerks \ {t} : clerk'[u] = clerk[u]
  BY <1>7, ServedOK
<1>10. ClerkOK(t)'
  <2>1. k # 0 /\ n # 0 /\ k \in 1..Len(keys') /\ n \in 1..Len(keys') /\ keys'[k].family = keys'[n].family
    BY <1>1, <1>2, <1>3, <1>4, <1>8
  <2> QED BY <1>7, <1>9, <2>1 DEF ClerkOK, Older, Family
<1>11. KeyOK(n)'
  BY <1>2, <1>4, <1>5, <1>8 DEF KeyOK
<1>12. \A u \in Clerks : clerk'[u] = clerk[u] \/ ClerkOK(u)'
  BY <1>9, <1>10
<1> QED BY <1>4, <1>5, <1>9, <1>11, <1>12, KeyMoves

LEMMA ReadEntriesOK == ASSUME ListInv, NEW t \in Clerks, ReadEntries(t) PROVE ListInv'
<1> DEFINE c == clerk[t]
           rows == {<<entries[e].address, entries[e].status>> : e \in InForce(c.key)}
<1>1. c \in Work /\ c.at = "read" /\ entries \in Seq(Entry)
  BY DEF ListInv, Admission, ReadEntries
<1>2. /\ c.key \in 1..Len(keys) /\ c.new \in 1..Len(keys) /\ Family(c.new) = Family(c.key)
  BY <1>1 DEF ListInv, ClerkOK
<1>3. \A e \in InForce(c.key) : e \in 1..Len(entries) /\ entries[e] \in Entry /\ entries[e].key = c.key
  BY <1>1 DEF InForce
<1>4. rows \in SUBSET (Addresses \X Statuses)
  BY <1>3 DEF Entry, Statuses
<1>5. \A row \in rows : row[2] = "active" => <<Family(c.key), row[1]>> \in approved
  BY <1>3 DEF ListInv, EntryOK
<1>6. standing' = standing /\ KeysStay /\ EntriesStay
  BY DEF ReadEntries, KeysStay, EntriesStay
<1>7. Serve(t, IF rows = {} THEN NoWork ELSE [To(t, "copy") EXCEPT !.todo = rows])
  BY DEF ReadEntries
<1> HIDE DEF rows
<1>8. CASE rows = {}
  BY <1>6, <1>7, <1>8, NoWorkOK, RestsOK, OnlyServes
<1>9. CASE rows # {}
  <2>1. PICK q \in Work : q = [c EXCEPT !.at = "copy", !.todo = rows]
    BY <1>1, <1>4 DEF Work
  <2>2. q.at = "copy" /\ q.todo = rows /\ q.key = c.key /\ q.new = c.new
    BY <1>1, <2>1 DEF Work
  <2>3. [To(t, "copy") EXCEPT !.todo = rows] = q
    BY <1>1, <2>1 DEF To, Work
  <2>4. Serve(t, q) /\ clerk'[t] = q
    BY <1>7, <1>9, <2>3, ServedOK
  <2>5. ClerkOK(t)'
    BY <1>2, <1>5, <1>6, <2>2, <2>4 DEF ClerkOK, Older, KeysStay, EntriesStay, Family
  <2> QED BY <1>6, <2>4, <2>5, OnlyServes
<1> QED BY <1>8, <1>9

LEMMA CopyOK == ASSUME ListInv, NEW t \in Clerks, CopyEntry(t) PROVE ListInv'
<1> DEFINE c == clerk[t]
<1>1. c \in Work /\ c.at = "copy" /\ Len(keys) \in Nat
  BY DEF ListInv, Admission, CopyEntry
<1>2. /\ c.key \in 1..Len(keys) /\ c.new \in 1..Len(keys) /\ Family(c.new) = Family(c.key)
      /\ \A row \in c.todo : row[2] = "active" => <<Family(c.key), row[1]>> \in approved
  BY <1>1 DEF ListInv, ClerkOK
<1>3. PICK row \in c.todo :
        /\ entries' = Append(entries, [key |-> c.new, address |-> row[1], status |-> row[2]])
        /\ Serve(t, IF c.todo = {row} THEN NoWork ELSE [c EXCEPT !.todo = @ \ {row}])
  BY DEF CopyEntry
<1>4. standing' = standing /\ KeysStay /\ approved' = approved
  BY DEF CopyEntry, KeysStay
<1> DEFINE x == [key |-> c.new, address |-> row[1], status |-> row[2]]
<1>5. row[1] \in Addresses /\ row[2] \in Statuses
  BY <1>1, <1>3 DEF Work
<1>6. /\ x \in Entry /\ x.key \in 0..Len(keys)
      /\ x.status = "active" => <<Family(x.key), x.address>> \in approved
  BY <1>1, <1>2, <1>3, <1>5 DEF Entry, Statuses
<1>7. clerk' \in [Clerks -> Work] /\ \A u \in Clerks : clerk'[u] = clerk[u] \/ ClerkOK(u)'
  <2>1. CASE c.todo = {row}
    BY <1>3, <2>1, RestsOK
  <2>2. CASE c.todo # {row}
    <3>1. PICK q \in Work : q = [c EXCEPT !.todo = @ \ {row}]
      BY <1>1 DEF Work
    <3>2. q.at = "copy" /\ q.todo = c.todo \ {row} /\ q.key = c.key /\ q.new = c.new
      BY <1>1, <3>1 DEF Work
    <3>3. Serve(t, q)
      BY <1>3, <2>2, <3>1
    <3>4. clerk' \in [Clerks -> Work] /\ clerk'[t] = q /\ \A u \in Clerks \ {t} : clerk'[u] = clerk[u]
      BY <3>3, ServedOK
    <3> HIDE DEF c
    <3>5. ClerkOK(t)'
      BY <1>2, <1>4, <3>2, <3>4 DEF ClerkOK, Older, KeysStay, Family
    <3> QED BY <3>4, <3>5
  <2> QED BY <2>1, <2>2
<1>8. entries' = Append(entries, x)
  BY <1>3
<1> HIDE DEF x
<1> QED BY <1>4, <1>6, <1>7, <1>8, AddEntry

LEMMA RevokeOK == ASSUME ListInv, NEW t \in Clerks, NEW k \in DOMAIN keys, RevokeMyApiKey(t, k) PROVE ListInv'
<1>1. k \in 1..Len(keys) /\ keys[k] \in Key /\ keys \in Seq(Key) /\ clerk \in [Clerks -> Work]
  BY DEF ListInv, Admission
<1>2. PICK x \in Key : x = [keys[k] EXCEPT !.active = FALSE]
  BY <1>1 DEF Key
<1>3. x.limited = keys[k].limited /\ x.family = keys[k].family /\ ~x.active
  BY <1>1, <1>2 DEF Key
<1>4. keys' = [keys EXCEPT ![k] = x] /\ clerk' = clerk /\ standing' = standing /\ EntriesStay /\ opened' = opened
  BY <1>1, <1>2 DEF RevokeMyApiKey, EntriesStay
<1> QED BY <1>1, <1>3, <1>4, KeyMoves

LEMMA SwitchOK ==
  ASSUME ListInv, NEW t \in Clerks, NEW k \in DOMAIN keys, NEW on \in BOOLEAN, SwitchList(t, k, on)
  PROVE  ListInv'
<1>1. k \in 1..Len(keys) /\ k \in Nat
  BY DEF ListInv, Admission
<1>2. Serve(t, [NoWork EXCEPT !.at = "switch", !.key = k, !.limited = on])
  BY DEF SwitchList
<1>3. standing' = standing /\ KeysStay /\ EntriesStay /\ keys' = keys
  BY DEF SwitchList, KeysStay, EntriesStay
<1>4. PICK q \in Work : q = [NoWork EXCEPT !.at = "switch", !.key = k, !.limited = on]
  BY <1>1, NoWorkOK DEF Work
<1>5. q.at = "switch" /\ q.key = k
  BY <1>4, NoWorkOK DEF Work
<1>6. clerk'[t] = q
  BY <1>2, <1>4, ServedOK
<1>7. ClerkOK(t)'
  BY <1>1, <1>3, <1>5, <1>6 DEF ClerkOK, Older
<1> QED BY <1>2, <1>3, <1>4, <1>7, OnlyServes

LEMMA WriteSwitchOK == ASSUME ListInv, NEW t \in Clerks, WriteSwitch(t) PROVE ListInv'
<1> DEFINE c == clerk[t]
           k == c.key
           l == c.limited
<1>1. c \in Work /\ c.at = "switch" /\ keys \in Seq(Key)
  BY DEF ListInv, Admission, WriteSwitch
<1>2. k \in 1..Len(keys) /\ l \in BOOLEAN
  BY <1>1 DEF ListInv, ClerkOK, Work
<1>3. /\ keys' = [keys EXCEPT ![k].limited = l] /\ standing' = standing /\ EntriesStay
      /\ Serve(t, NoWork)
      /\ opened' = IF l THEN opened ELSE opened \cup {Family(k)}
  BY DEF WriteSwitch, EntriesStay
<1> PICK i \in 1..Len(keys) : i = k
  BY <1>2
<1> HIDE DEF k, l, c
<1>4. keys[i] \in Key /\ Family(i) = keys[i].family
  BY <1>1 DEF Family
<1>5. PICK x \in Key : x = [keys[i] EXCEPT !.limited = l]
  BY <1>2, <1>4 DEF Key
<1>6. x.limited = l /\ x.family = keys[i].family
  BY <1>4, <1>5 DEF Key
<1>7. keys' = [keys EXCEPT ![i] = x]
  BY <1>1, <1>3, <1>5
<1>8. keys'[i] = x
  BY <1>1, <1>7, UpdateSeq
<1>9. KeyOK(i)' /\ opened \subseteq opened'
  BY <1>3, <1>4, <1>6, <1>8 DEF KeyOK
<1>10. clerk' \in [Clerks -> Work] /\ \A u \in Clerks : clerk'[u] = clerk[u] \/ ClerkOK(u)'
  BY <1>3, RestsOK
<1> QED BY <1>3, <1>6, <1>7, <1>9, <1>10, KeyMoves

LEMMA CreateEntryOK ==
  ASSUME ListInv, NEW t \in Clerks, NEW k \in {0} \cup DOMAIN keys, NEW a \in Addresses, CreateEntry(t, k, a)
  PROVE  ListInv'
<1>1. k \in 0..Len(keys) /\ k \in Nat /\ clerk \in [Clerks -> Work]
  BY DEF ListInv, Admission
<1>2. Pending(k, a) \in Entry /\ Pending(k, a).key = k /\ Pending(k, a).status = "pending"
  BY <1>1 DEF Pending, Entry
<1>3. /\ entries' = Append(entries, Pending(k, a)) /\ clerk' = clerk /\ standing' = standing
      /\ KeysStay /\ approved' = approved
  BY DEF CreateEntry, KeysStay
<1> QED BY <1>1, <1>2, <1>3, AddEntry

LEMMA DeleteEntryOK ==
  ASSUME ListInv, NEW t \in Clerks, NEW e \in DOMAIN entries, DeleteEntry(t, e)
  PROVE  ListInv'
<1>1. e \in 1..Len(entries) /\ entries[e] \in Entry /\ clerk \in [Clerks -> Work] /\ entries \in Seq(Entry)
  BY DEF ListInv, Admission
<1>2. PICK x \in Entry : x = [entries[e] EXCEPT !.status = "deleted"]
  BY <1>1 DEF Entry
<1>3. x.key = entries[e].key /\ x.address = entries[e].address /\ x.status = "deleted"
  BY <1>1, <1>2 DEF Entry
<1>4. /\ entries' = [entries EXCEPT ![e] = x] /\ clerk' = clerk /\ standing' = standing
      /\ KeysStay /\ approved' = approved
  BY <1>1, <1>2 DEF DeleteEntry, KeysStay
<1> QED BY <1>1, <1>3, <1>4, EntryMoves

LEMMA PortalOK == ASSUME ListInv, NEW t \in Clerks, Portal(t) PROVE ListInv'
<1> QED BY CreateOK, InsertKeyOK, InsertEntriesOK, RotateOK, RevokeOK, CheckRotationOK, RetireOK, ReplaceOK,
           ReadEntriesOK, CopyOK, SwitchOK, WriteSwitchOK, CreateEntryOK, DeleteEntryOK DEF Portal

\* Nothing else touches the lists.
LEMMA ListsUnchanged == ASSUME ListInv, UNCHANGED admission PROVE ListInv'
<1>1. /\ standing' = standing /\ keys' = keys /\ entries' = entries /\ clerk' = clerk
      /\ opened' = opened /\ approved' = approved
  BY DEF admission
<1>2. Admission' /\ Grows
  BY <1>1 DEF ListInv, Admission, Grows
<1> QED BY <1>1, <1>2, ListStep

LEMMA ListInit == ASSUME AccessInit PROVE ListInv
<1>1. PICK s \in Starts : keys = s.keys /\ entries = s.entries
  BY DEF AccessInit
<1>2. keys \in Seq(Key) /\ entries \in Seq(Entry) /\ \A e \in DOMAIN entries : entries[e].key \in 0..Len(keys)
  BY <1>1, StartsAssumption
<1>3. \A t \in Clerks : clerk[t] = NoWork
  BY DEF AccessInit
<1>4. Admission
  BY <1>2, NoWorkOK DEF Admission, AccessInit, Standing
<1>5. \A t \in Clerks : ClerkOK(t)
  BY <1>3, NoWorkOK DEF ClerkOK, Older
<1>6. \A k \in 1..Len(keys) : KeyOK(k)
  BY <1>2 DEF KeyOK, AccessInit
<1>7. \A e \in 1..Len(entries) : EntryOK(e)
  BY <1>2 DEF EntryOK, AccessInit
<1> QED BY <1>4, <1>5, <1>6, <1>7 DEF ListInv
-----------------------------------------------------------------------------
(***************************************************************************)
(* The requests under way.                                                 *)
(***************************************************************************)
Doing == {"asking", "asked", "checking"}
Checked == {"address", "admitted"} \cup Doing
CallOf == [at : {"idle", "key", "standing"} \cup Checked, op : Operations \cup {"none"},
           key : Nat, address : Addresses \cup {0}, limited : BOOLEAN, coll : Nat, prompt : Nat,
           keyed : BOOLEAN, stood : BOOLEAN, ran : BOOLEAN]

\* What was in order when it was looked at, was so since the request began.
CallOK(r) ==
  LET c == caller[r] IN
  /\ c.key \in 0..Len(keys)
  /\ c.at \in {"key", "standing", "address"} => c.key # 0
  /\ c.at # "idle" => (Stands(standing) => c.stood) /\ (Runs(standing) => c.ran)
  /\ c.at = "key" /\ keys[c.key].active => c.keyed
  /\ c.at \in {"standing"} \cup Checked /\ c.key # 0 => c.keyed
  /\ c.at \in Checked /\ c.key # 0 => c.stood
  /\ c.at \in Doing => c.ran
Calls == caller \in [Callers -> CallOf] /\ \A r \in Callers : CallOK(r)

\* No key comes back to life.
KeysDie == Len(keys) <= Len(keys') /\ \A k \in 1..Len(keys) : keys'[k].active => keys[k].active

LEMMA NoCallOK == NoCall \in CallOf /\ NoCall.at = "idle" /\ NoCall.coll = 0 /\ NoCall.key = 0
<1> QED BY DEF NoCall, CallOf

LEMMA CallsStay ==
  ASSUME Admission, Admission', Calls, KeysDie, standing' = standing, caller' = caller
  PROVE  Calls'
<1>1. Len(keys) \in Nat /\ Len(keys') \in Nat
  BY DEF Admission
<1>2. ASSUME NEW r \in Callers PROVE CallOK(r)'
  <2>1. CallOK(r)
    BY DEF Calls
  <2>2. caller[r].key = 0 \/ caller[r].key \in 1..Len(keys)
    BY <1>1, <2>1 DEF CallOK
  <2> QED BY <1>1, <2>1, <2>2 DEF CallOK, KeysDie
<1> QED BY <1>2 DEF Calls

LEMMA OneCall ==
  ASSUME Calls, NEW r \in Callers, NEW x \in CallOf, Go(r, x), keys' = keys, standing' = standing,
         CallOK(r)'
  PROVE  Calls'
<1>1. caller' \in [Callers -> CallOf] /\ \A s \in Callers \ {r} : caller'[s] = caller[s]
  BY DEF Calls, Go
<1>2. \A s \in Callers \ {r} : CallOK(s)'
  BY <1>1 DEF Calls, CallOK
<1> QED BY <1>1, <1>2 DEF Calls

LEMMA RefusedOK ==
  ASSUME Calls, Admission, NEW r \in Callers, Refused(r), keys' = keys, standing' = standing
  PROVE  Calls' /\ caller'[r] = NoCall
<1> PICK x \in CallOf : x = NoCall /\ x.at = "idle" /\ x.key = 0
  BY NoCallOK
<1>1. Go(r, x)
  BY DEF Refused
<1>2. caller'[r] = x
  BY <1>1 DEF Calls, Go
<1>3. CallOK(r)'
  BY <1>2 DEF CallOK, Checked, Doing, Admission
<1> QED BY <1>1, <1>2, <1>3, OneCall

LEMMA StandingCalls ==
  ASSUME Calls, NEW s \in Standing, SetStanding(s)
  PROVE  /\ Calls'
         /\ \A r \in Callers : /\ caller'[r].at = caller[r].at /\ caller'[r].coll = caller[r].coll
                               /\ caller'[r].prompt = caller[r].prompt
<1>1. standing' = s /\ keys' = keys
  BY DEF SetStanding
<1> DEFINE st(r) == caller[r].stood \/ Stands(s)
           ra(r) == caller[r].ran \/ Runs(s)
<1>2. ASSUME NEW r \in Callers
      PROVE  /\ caller'[r] \in CallOf /\ CallOK(r)'
             /\ caller'[r].at = caller[r].at /\ caller'[r].coll = caller[r].coll
             /\ caller'[r].prompt = caller[r].prompt
  <2>1. caller[r] \in CallOf /\ CallOK(r)
    BY DEF Calls
  <2>2. CASE caller[r].at = "idle"
    <3>1. caller'[r] = caller[r]
      BY <2>2 DEF SetStanding
    <3> QED BY <1>1, <2>1, <2>2, <3>1 DEF CallOK, Checked, Doing
  <2>3. CASE caller[r].at # "idle"
    <3>1. st(r) \in BOOLEAN /\ ra(r) \in BOOLEAN
      BY <2>1 DEF CallOf, Stands, Runs
    <3>2. caller'[r] = [caller[r] EXCEPT !.stood = st(r), !.ran = ra(r)]
      BY <2>3 DEF SetStanding
    <3>3. /\ (caller[r].stood => st(r)) /\ (Stands(s) => st(r))
          /\ (caller[r].ran => ra(r)) /\ (Runs(s) => ra(r))
      OBVIOUS
    <3> HIDE DEF st, ra
    <3>4. caller'[r] \in CallOf
      BY <2>1, <3>1, <3>2 DEF CallOf
    <3>5. /\ caller'[r].at = caller[r].at /\ caller'[r].key = caller[r].key
          /\ caller'[r].keyed = caller[r].keyed /\ caller'[r].coll = caller[r].coll
          /\ caller'[r].prompt = caller[r].prompt
          /\ caller'[r].stood = st(r) /\ caller'[r].ran = ra(r)
      BY <2>1, <3>2 DEF CallOf
    <3>6. CallOK(r)'
      BY <1>1, <2>1, <3>3, <3>5 DEF CallOK
    <3> QED BY <3>4, <3>5, <3>6
  <2> QED BY <2>2, <2>3
<1>3. caller' \in [Callers -> CallOf]
  <2>1. DOMAIN caller' = Callers /\ caller' = [r \in Callers |-> caller'[r]]
    BY DEF SetStanding
  <2> QED BY <1>2, <2>1
<1> QED BY <1>2, <1>3 DEF Calls

\* The checks take a request from place to place, and never to the loop.
LEMMA CheckCalls ==
  ASSUME Calls, Admission, NEW r \in Callers, Check(r)
  PROVE  /\ Calls'
         /\ \A s \in Callers : s # r => caller'[s] = caller[s]
         /\ caller'[r].at \notin Doing /\ caller'[r].coll \in {0, caller[r].coll}
<1>1. caller \in [Callers -> CallOf] /\ caller[r] \in CallOf /\ CallOK(r)
  BY DEF Calls
<1>2. keys' = keys /\ standing' = standing
  BY DEF Check, LookUpKey, ReadStanding, CheckAddress, RateLimited, admission
<1>3. CASE Refused(r)
  <2>1. Calls' /\ caller'[r] = NoCall
    BY <1>2, <1>3, RefusedOK
  <2>2. \A s \in Callers : s # r => caller'[s] = caller[s]
    BY <1>1, <1>3 DEF Refused, Go
  <2> QED BY <2>1, <2>2, NoCallOK DEF Doing
<1>4. ASSUME NEW x \in CallOf, Go(r, x), x.at \in {"standing", "address", "admitted"},
             x.key = caller[r].key, x.coll = caller[r].coll, x.keyed = caller[r].keyed,
             x.stood = caller[r].stood, x.ran = caller[r].ran,
             caller[r].at \in {"key", "standing", "address"}, caller[r].keyed,
             x.at # "standing" => caller[r].stood
      PROVE  /\ Calls' /\ \A s \in Callers : s # r => caller'[s] = caller[s]
             /\ caller'[r].at \notin Doing /\ caller'[r].coll \in {0, caller[r].coll}
  <2>1. caller'[r] = x /\ \A s \in Callers : s # r => caller'[s] = caller[s]
    BY <1>1, <1>4 DEF Go
  <2>2. CallOK(r)'
    BY <1>1, <1>2, <1>4, <2>1 DEF CallOK, Checked, Doing
  <2> QED BY <1>2, <1>4, <2>1, <2>2, OneCall DEF Doing
<1>5. CASE LookUpKey(r) /\ ~Refused(r)
  <2> DEFINE l == keys[caller[r].key].live /\ keys[caller[r].key].limited
  <2>1. caller[r].at = "key" /\ keys[caller[r].key].active
    BY <1>5 DEF LookUpKey
  <2>2. caller[r].keyed /\ l \in BOOLEAN
    <3>1. caller[r].key \in 1..Len(keys)
      BY <1>1, <2>1 DEF CallOK, Admission
    <3>2. keys[caller[r].key] \in Key
      BY <3>1 DEF Admission
    <3> QED BY <1>1, <2>1, <3>2 DEF CallOK, Key
  <2>3. Go(r, [On(r, "standing") EXCEPT !.limited = l])
    BY <1>5, <2>1 DEF LookUpKey
  <2> HIDE DEF l
  <2>4. PICK x \in CallOf : x = [caller[r] EXCEPT !.at = "standing", !.limited = l]
    BY <1>1, <2>2 DEF CallOf
  <2>5. /\ x.at = "standing" /\ x.key = caller[r].key /\ x.coll = caller[r].coll /\ x.keyed = caller[r].keyed
        /\ x.stood = caller[r].stood /\ x.ran = caller[r].ran
    BY <1>1, <2>4 DEF CallOf
  <2>6. [On(r, "standing") EXCEPT !.limited = l] = x
    BY <1>1, <2>4 DEF On, CallOf
  <2> QED BY <1>4, <2>1, <2>2, <2>3, <2>5, <2>6
<1>6. CASE (ReadStanding(r) \/ CheckAddress(r)) /\ ~Refused(r)
  <2>1. PICK p \in {"address", "admitted"} : Go(r, On(r, p))
    BY <1>6 DEF ReadStanding, CheckAddress
  <2>2. caller[r].at \in {"standing", "address"} /\ (caller[r].at = "standing" => Stands(standing))
    BY <1>6 DEF ReadStanding, CheckAddress, MayCall, Stands, Runs
  <2>3. PICK x \in CallOf : x = [caller[r] EXCEPT !.at = p]
    BY <1>1 DEF CallOf, Checked
  <2>4. /\ x.at = p /\ x.key = caller[r].key /\ x.coll = caller[r].coll /\ x.keyed = caller[r].keyed
        /\ x.stood = caller[r].stood /\ x.ran = caller[r].ran
    BY <1>1, <2>3 DEF CallOf
  <2>5. caller[r].keyed /\ caller[r].stood
    BY <1>1, <2>2 DEF CallOK, Checked
  <2>6. On(r, p) = x
    BY <2>3 DEF On
  <2> QED BY <1>4, <2>1, <2>2, <2>4, <2>5, <2>6
<1> QED BY <1>3, <1>5, <1>6 DEF Check, RateLimited

\* Elsewhere in Access the requests stay as they are, and keys only die.
LEMMA EditorsCalls ==
  ASSUME ListInv,
         \/ \E k \in DOMAIN keys : RevokeKey(k)
         \/ \E e \in DOMAIN entries, s \in {"active", "rejected"} : ReviewEntry(e, s)
         \/ \E t \in Clerks : Portal(t)
  PROVE  caller' = caller /\ standing' = standing /\ KeysDie
<1>1. keys \in Seq(Key) /\ Admission
  BY DEF ListInv, Admission
<1>2. caller' = caller /\ standing' = standing
  BY DEF RevokeKey, ReviewEntry, Portal, CreateApiKey, InsertKey, InsertEntries, RotateApiKey, RevokeMyApiKey,
         CheckRotation, RetireKey, ReplaceKey, ReadEntries, CopyEntry, SwitchList, WriteSwitch, CreateEntry,
         DeleteEntry
<1>3. ASSUME NEW k \in 1..Len(keys), keys' = [keys EXCEPT ![k].active = FALSE] PROVE KeysDie
  BY <1>1, <1>3 DEF KeysDie
<1>4. ASSUME NEW k \in 1..Len(keys), NEW l, keys' = [keys EXCEPT ![k].limited = l] PROVE KeysDie
  <2>1. keys[k] \in Key
    BY <1>1
  <2> QED BY <1>1, <1>4, <2>1 DEF KeysDie, Key
<1>5. ASSUME NEW x, keys' = Append(keys, x) PROVE KeysDie
  BY <1>1, <1>5 DEF KeysDie
<1>6. keys' = keys => KeysDie
  BY <1>1 DEF KeysDie
<1>7. ASSUME NEW t \in Clerks, Portal(t) PROVE KeysDie
  <2>1. CASE RetireKey(t) \/ WriteSwitch(t)
    <3>1. clerk[t].key \in 1..Len(keys)
      BY <2>1 DEF ListInv, ClerkOK, Older, RetireKey, WriteSwitch
    <3> QED BY <1>3, <1>4, <2>1, <3>1 DEF RetireKey, WriteSwitch
  <2>2. CASE \E k \in DOMAIN keys : RevokeMyApiKey(t, k)
    <3>1. PICK k \in DOMAIN keys : RevokeMyApiKey(t, k)
      BY <2>2
    <3>2. k \in 1..Len(keys) /\ keys' = [keys EXCEPT ![k].active = FALSE]
      BY <1>1, <3>1 DEF RevokeMyApiKey
    <3> QED BY <1>3, <3>2
  <2>3. CASE InsertKey(t) \/ ReplaceKey(t)
    BY <1>5, <2>3 DEF InsertKey, ReplaceKey, Replacement, NewKey
  <2> QED BY <1>6, <1>7, <2>1, <2>2, <2>3
          DEF Portal, CreateApiKey, InsertEntries, RotateApiKey, CheckRotation, ReadEntries, CopyEntry,
              SwitchList, CreateEntry, DeleteEntry
<1>8. CASE \E k \in DOMAIN keys : RevokeKey(k)
  <2>1. PICK k \in DOMAIN keys : RevokeKey(k)
    BY <1>8
  <2>2. k \in 1..Len(keys) /\ keys' = [keys EXCEPT ![k].active = FALSE]
    BY <1>1, <2>1 DEF RevokeKey
  <2> QED BY <1>2, <1>3, <2>2
<1>9. CASE \E e \in DOMAIN entries, s \in {"active", "rejected"} : ReviewEntry(e, s)
  BY <1>6, <1>9 DEF ReviewEntry
<1> QED BY <1>2, <1>7, <1>8, <1>9

\* A request on the loop moves on.
LEMMA LoopCalls ==
  ASSUME Calls, NEW r \in Callers, NEW x \in CallOf, Go(r, x), keys' = keys, standing' = standing,
         caller[r].at \in {"admitted"} \cup Doing, x.at \in Doing,
         x.key = caller[r].key, x.keyed = caller[r].keyed, x.stood = caller[r].stood, x.ran = caller[r].ran,
         caller[r].at = "admitted" => caller[r].ran
  PROVE  Calls' /\ caller'[r] = x
<1>1. CallOK(r) /\ caller \in [Callers -> CallOf]
  BY DEF Calls
<1>2. caller'[r] = x
  BY <1>1 DEF Go
<1>3. CallOK(r)'
  BY <1>1, <1>2 DEF CallOK, Checked, Doing
<1> QED BY <1>2, <1>3, OneCall

\* A request arrives, at the door or, without a key, on the loop.
LEMMA ArrivesCalls ==
  ASSUME Calls, Admission, NEW r \in Callers, NEW op \in Operations, NEW k \in {0} \cup DOMAIN keys,
         NEW a \in Addresses, Arrives(r, op, k, a)
  PROVE  /\ Calls' /\ \A s \in Callers \ {r} : caller'[s] = caller[s]
         /\ caller'[r].at \notin Doing /\ caller'[r].coll = 0
<1> DEFINE p == IF k = 0 THEN "admitted" ELSE "key"
           kd == IF k = 0 THEN FALSE ELSE keys[k].active
           st == Stands(standing)
           ra == Runs(standing)
<1>1. keys' = keys /\ standing' = standing
  BY DEF Arrives, admission
<1>2. k \in 0..Len(keys) /\ k \in Nat /\ (k # 0 => k \in 1..Len(keys))
  BY DEF Admission
<1>3. kd \in BOOLEAN /\ st \in BOOLEAN /\ ra \in BOOLEAN
  <2>1. k # 0 => keys[k] \in Key
    BY <1>2 DEF Admission
  <2> QED BY <2>1 DEF Key, Stands, Runs, Admission, Standing
<1>4. Go(r, [NoCall EXCEPT !.at = p, !.op = op, !.key = k, !.address = a, !.keyed = kd, !.stood = st, !.ran = ra])
  BY DEF Arrives
<1>5. /\ p \in {"admitted", "key"} /\ (p = "admitted" <=> k = 0) /\ (k # 0 => (kd <=> keys[k].active))
      /\ (st <=> Stands(standing)) /\ (ra <=> Runs(standing))
  BY DEF p, kd, st, ra
<1> HIDE DEF p, kd, st, ra
<1>6. PICK x \in CallOf : x = [NoCall EXCEPT !.at = p, !.op = op, !.key = k, !.address = a, !.keyed = kd, !.stood = st, !.ran = ra]
  BY <1>2, <1>3, <1>5, NoCallOK DEF CallOf, Checked
<1>7. x.at = p /\ x.key = k /\ x.keyed = kd /\ x.stood = st /\ x.ran = ra /\ x.coll = 0
  BY <1>6, NoCallOK DEF CallOf
<1>8. caller'[r] = x /\ \A s \in Callers \ {r} : caller'[s] = caller[s]
  BY <1>4, <1>6 DEF Calls, Go
<1>9. CallOK(r)'
  BY <1>1, <1>2, <1>5, <1>7, <1>8 DEF CallOK, Checked, Doing
<1> QED BY <1>1, <1>4, <1>5, <1>6, <1>7, <1>8, <1>9, OneCall DEF Doing

\* The process stops.
LEMMA StopCalls ==
  ASSUME Calls, Admission, Stop
  PROVE  Calls' /\ \A r \in Callers : caller'[r] = caller[r] \/ caller'[r] = NoCall
<1>1. keys' = keys /\ standing' = standing
  BY DEF Stop, admission
<1>2. \A r \in Callers : caller'[r] = caller[r] \/ caller'[r] = NoCall
  BY DEF Stop
<1>3. caller' = [r \in Callers |-> IF caller[r].coll = 0 THEN caller[r] ELSE NoCall]
  BY DEF Stop
<1>4. caller' \in [Callers -> CallOf]
  BY <1>3, NoCallOK DEF Calls
<1>5. ASSUME NEW r \in Callers PROVE CallOK(r)'
  <2>1. CASE caller'[r] = caller[r]
    BY <1>1, <2>1 DEF Calls, CallOK
  <2>2. CASE caller'[r] = NoCall
    BY <2>2, NoCallOK DEF CallOK, Checked, Doing, Admission
  <2> QED BY <1>2, <2>1, <2>2
<1> QED BY <1>2, <1>4, <1>5 DEF Calls
-----------------------------------------------------------------------------
(***************************************************************************)
(* The money.                                                              *)
(***************************************************************************)
\* What a row names and what it was credited for.
CollOK(c) ==
  /\ colls[c].credits <= 1 /\ (colls[c].status = "processing" => colls[c].credits = 0)
  /\ colls[c].ref # 0 => colls[c].ref \in 1..Len(prompts) /\ prompts[colls[c].ref].coll = c
  /\ colls[c].credits = 1 => colls[c].ref # 0 /\ prompts[colls[c].ref].state = "paid"

\* A request on the loop works on a row of its own.
AskOK(r) ==
  LET c == caller[r] IN
  /\ c.coll \in 0..Len(colls)
  /\ c.at \in Doing => c.coll # 0
  /\ c.at \in {"asking", "asked"} => colls[c.coll].ref = 0
  /\ c.at \in {"asked", "checking"} => c.prompt \in 1..Len(prompts) /\ prompts[c.prompt].coll = c.coll
  /\ c.at = "checking" => colls[c.coll].ref = c.prompt
Apart == \A r, s \in Callers : caller[r].coll # 0 /\ caller[r].coll = caller[s].coll => r = s

Money == /\ colls \in Seq(Collection) /\ prompts \in Seq(Prompt)
         /\ \A c \in 1..Len(colls) : CollOK(c)
         /\ \A r \in Callers : AskOK(r)
         /\ Apart
IInv == ListInv /\ Calls /\ Money

\* Prompts are for one row for good, and paid for good.
PromptsGrow ==
  /\ prompts' \in Seq(Prompt) /\ Len(prompts) <= Len(prompts')
  /\ \A p \in 1..Len(prompts) : /\ prompts'[p].coll = prompts[p].coll
                                /\ prompts[p].state = "paid" => prompts'[p].state = "paid"
\* A request leaves its row, or keeps to it.
Keeps(r) ==
  /\ caller'[r].coll \in {0, caller[r].coll}
  /\ \/ caller'[r].at \notin Doing
     \/ /\ caller'[r].at = caller[r].at /\ caller'[r].coll = caller[r].coll
        /\ caller'[r].prompt = caller[r].prompt
RowsGrow ==
  /\ colls' \in Seq(Collection) /\ Len(colls) <= Len(colls')
  /\ \A c \in 1..Len(colls) : colls'[c].ref = colls[c].ref

LEMMA CollStays ==
  ASSUME Money, PromptsGrow, NEW c \in 1..Len(colls), colls'[c] = colls[c]
  PROVE  CollOK(c)'
<1>1. CollOK(c) /\ Len(prompts) \in Nat /\ Len(prompts') \in Nat
  BY DEF Money, PromptsGrow
<1> QED BY <1>1 DEF CollOK, PromptsGrow

LEMMA AskStays ==
  ASSUME Money, PromptsGrow, NEW r \in Callers, Keeps(r), colls' \in Seq(Collection), Len(colls) <= Len(colls'),
         caller[r].coll # 0 => colls'[caller[r].coll].ref = colls[caller[r].coll].ref
  PROVE  AskOK(r)'
<1>1. AskOK(r)
  BY DEF Money
<1>2. Len(colls) \in Nat /\ Len(colls') \in Nat /\ Len(prompts) \in Nat /\ Len(prompts') \in Nat
  BY DEF Money, PromptsGrow
<1>3. CASE caller'[r].at \notin Doing
  BY <1>1, <1>2, <1>3 DEF AskOK, Keeps, Doing
<1>4. CASE caller'[r].at \in Doing
  <2>1. /\ caller'[r].at = caller[r].at /\ caller'[r].coll = caller[r].coll
        /\ caller'[r].prompt = caller[r].prompt
    BY <1>4 DEF Keeps
  <2>2. caller[r].at \in Doing /\ caller[r].coll # 0 /\ caller[r].coll \in 1..Len(colls)
    BY <1>1, <1>2, <1>4, <2>1 DEF AskOK
  <2> QED BY <1>1, <1>2, <2>1, <2>2 DEF AskOK, PromptsGrow
<1> QED BY <1>3, <1>4

LEMMA ApartStays ==
  ASSUME Apart, \A r \in Callers : caller'[r].coll \in {0, caller[r].coll}
  PROVE  Apart'
<1> QED BY DEF Apart

\* A step in which no request takes a row.
LEMMA MoneyStep ==
  ASSUME Money, PromptsGrow, RowsGrow, \A r \in Callers : Keeps(r),
         \A c \in 1..Len(colls') : CollOK(c)' \/ (c \in 1..Len(colls) /\ colls'[c] = colls[c])
  PROVE  Money'
<1>1. \A c \in 1..Len(colls') : CollOK(c)'
  BY CollStays
<1>2. ASSUME NEW r \in Callers PROVE AskOK(r)'
  <2>1. AskOK(r) /\ Len(colls) \in Nat
    BY DEF Money
  <2>2. caller[r].coll # 0 => colls'[caller[r].coll].ref = colls[caller[r].coll].ref
    BY <2>1 DEF AskOK, RowsGrow
  <2> QED BY <2>2, AskStays DEF RowsGrow
<1>3. Apart'
  BY ApartStays DEF Money, Keeps
<1> QED BY <1>1, <1>2, <1>3 DEF Money, PromptsGrow, RowsGrow

LEMMA RowsStay == ASSUME Money, colls' = colls PROVE RowsGrow
<1> QED BY DEF Money, RowsGrow
LEMMA PromptsStay == ASSUME Money, prompts' = prompts PROVE PromptsGrow
<1> QED BY DEF Money, PromptsGrow
LEMMA MoneyStays ==
  ASSUME Money, colls' = colls, prompts' = prompts, \A r \in Callers : Keeps(r)
  PROVE  Money'
<1>1. RowsGrow /\ PromptsGrow
  BY RowsStay, PromptsStay
<1> QED BY <1>1, MoneyStep

\* What one request does leaves the others where they are.
LEMMA Leaves ==
  ASSUME Calls, NEW r \in Callers, Refused(r)
  PROVE  \A s \in Callers : Keeps(s)
<1>1. caller \in [Callers -> CallOf]
  BY DEF Calls
<1>2. caller'[r] = NoCall /\ \A s \in Callers \ {r} : caller'[s] = caller[s]
  BY <1>1 DEF Refused, Go
<1>3. Keeps(r)
  BY <1>2, NoCallOK DEF Keeps, Doing
<1>4. \A s \in Callers \ {r} : Keeps(s)
  BY <1>2 DEF Keeps
<1> QED BY <1>3, <1>4

\* An outcome is written on an open row, a success only for a paid prompt of its own.
LEMMA ResolveOK ==
  ASSUME Money, PromptsGrow, NEW c \in 1..Len(colls), Open(c), NEW status \in {"successful", "failed"},
         Resolve(c, status),
         status = "successful" => colls[c].ref # 0 /\ prompts[colls[c].ref].state = "paid"
  PROVE  /\ RowsGrow
         /\ \A d \in 1..Len(colls') : CollOK(d)' \/ (d \in 1..Len(colls) /\ colls'[d] = colls[d])
<1>1. colls \in Seq(Collection) /\ colls[c] \in Collection /\ CollOK(c)
  BY DEF Money
<1>2. colls[c].credits = 0
  BY <1>1 DEF CollOK, Open
<1> DEFINE cr == IF colls[c].booked /\ status = "successful" THEN colls[c].credits + 1 ELSE colls[c].credits
           te == IF colls[c].booked THEN Told(status) ELSE colls[c].told
<1>3. cr \in {0, 1} /\ (cr = 1 => status = "successful")
  BY <1>2
<1>4. te \in {"none", "collection.success", "collection.failed", "collection.pending_review"}
  <2>1. Told(status) \in {"none", "collection.success", "collection.failed", "collection.pending_review"}
    BY DEF Told
  <2> QED BY <1>1, <2>1 DEF Collection
<1>5. colls[c] \in Collection /\ cr \in Nat /\ status \in {"processing", "successful", "failed", "pending_review", "reversed"}
  BY <1>1, <1>3
<1>6. Resolved(c, status) = [colls[c] EXCEPT !.status = status, !.credits = cr, !.told = te]
  BY DEF Resolved
<1> HIDE DEF cr, te
<1>7. PICK x \in Collection : x = [colls[c] EXCEPT !.status = status, !.credits = cr, !.told = te]
  BY <1>5, <1>4 DEF Collection
<1>8. x.credits = cr /\ x.status = status /\ x.ref = colls[c].ref
  BY <1>1, <1>7 DEF Collection
<1>9. colls' = [colls EXCEPT ![c] = x]
  BY <1>6, <1>7 DEF Resolve
<1>10. /\ colls' \in Seq(Collection) /\ Len(colls') = Len(colls) /\ colls'[c] = x
      /\ \A d \in 1..Len(colls) : d # c => colls'[d] = colls[d]
  BY <1>1, <1>9, UpdateSeq
<1>11. CollOK(c)'
  <2>1. Len(prompts) \in Nat /\ Len(prompts') \in Nat
    BY DEF Money, PromptsGrow
  <2> QED BY <1>1, <1>2, <1>3, <1>8, <1>10, <2>1 DEF CollOK, PromptsGrow
<1>12. RowsGrow
  BY <1>1, <1>8, <1>10 DEF RowsGrow
<1> QED BY <1>10, <1>11, <1>12

\* A new row.
LEMMA NewRow ==
  ASSUME Money, NEW x \in Collection, x.credits = 0, x.ref = 0, colls' = Append(colls, x),
         NEW n \in Nat, n = Len(colls) + 1
  PROVE  /\ RowsGrow /\ Len(colls') = n /\ colls'[n] = x /\ CollOK(n)'
         /\ \A d \in 1..Len(colls') : CollOK(d)' \/ (d \in 1..Len(colls) /\ colls'[d] = colls[d])
<1>1. colls \in Seq(Collection) /\ Len(colls) \in Nat
  BY DEF Money
<1>2. /\ colls' \in Seq(Collection) /\ Len(colls') = n /\ colls'[n] = x
      /\ \A d \in 1..Len(colls) : colls'[d] = colls[d]
  BY <1>1, AppendSeq
<1>3. CollOK(n)'
  BY <1>2 DEF CollOK
<1>4. RowsGrow
  BY <1>1, <1>2 DEF RowsGrow
<1> QED BY <1>1, <1>2, <1>3, <1>4
-----------------------------------------------------------------------------
(***************************************************************************)
(* The steps.                                                              *)
(***************************************************************************)
Safe == Calls' /\ Money'

LEMMA BeginOK ==
  ASSUME IInv, NEW r \in Callers, NEW op \in Operations, NEW k \in {0} \cup DOMAIN keys, NEW a \in Addresses,
         Begin(r, op, k, a)
  PROVE  IInv'
<1>1. Admission /\ Calls /\ Money /\ ListInv
  BY DEF IInv, ListInv
<1>2. Arrives(r, op, k, a) /\ UNCHANGED api /\ UNCHANGED admission
  BY DEF Begin, Arrives
<1>3. /\ Calls' /\ \A s \in Callers \ {r} : caller'[s] = caller[s]
      /\ caller'[r].at \notin Doing /\ caller'[r].coll = 0
  BY <1>1, <1>2, ArrivesCalls
<1>4. \A s \in Callers : Keeps(s)
  BY <1>3 DEF Keeps
<1>5. Money'
  BY <1>1, <1>2, <1>4, MoneyStays DEF api
<1> QED BY <1>1, <1>2, <1>3, <1>5, ListsUnchanged DEF IInv

\* A request that ends without a row being written.
LEMMA EndsOK ==
  ASSUME IInv, NEW r \in Callers, Refused(r), UNCHANGED admission, colls' = colls, prompts' = prompts
  PROVE  IInv'
<1>1. Admission /\ Calls /\ Money /\ ListInv /\ keys' = keys /\ standing' = standing
  BY DEF IInv, ListInv, admission
<1>2. Calls'
  BY <1>1, RefusedOK
<1>3. Money'
  BY <1>1, Leaves, MoneyStays
<1> QED BY <1>1, <1>2, <1>3, ListsUnchanged DEF IInv

LEMMA RowOK ==
  ASSUME NEW op \in Operations, NEW s \in {"processing", "successful", "failed", "pending_review", "reversed"},
         NEW t \in {"none", "collection.success", "collection.failed", "collection.pending_review"}
  PROVE  Row(op, s, t) \in Collection /\ Row(op, s, t).credits = 0 /\ Row(op, s, t).ref = 0
<1> QED BY DEF Row, Collection

LEMMA SimulateOK ==
  ASSUME IInv, NEW r \in Callers, NEW s \in {"successful", "failed", "pending_review", "reversed"}, Simulate(r, s)
  PROVE  IInv'
<1>1. Admission /\ Calls /\ Money /\ ListInv /\ keys' = keys /\ standing' = standing /\ UNCHANGED admission
  BY DEF IInv, ListInv, admission, Simulate
<1>2. Refused(r) /\ prompts' = prompts
  BY DEF Simulate, Ends
<1>3. Calls'
  BY <1>1, <1>2, RefusedOK
<1>4. PICK x \in Collection : x = Row("sandbox", s, Told(s)) /\ x.credits = 0 /\ x.ref = 0
  <2>1. Told(s) \in {"none", "collection.success", "collection.failed", "collection.pending_review"}
    BY DEF Told
  <2> QED BY <2>1, RowOK DEF Operations
<1>5. colls' = Append(colls, x)
  BY <1>4 DEF Simulate
<1>6. PICK n \in Nat : n = Len(colls) + 1
  BY <1>1 DEF Money
<1>7. Money'
  BY <1>1, <1>2, <1>4, <1>5, <1>6, NewRow, PromptsStay, Leaves, MoneyStep
<1> QED BY <1>1, <1>3, <1>7, ListsUnchanged DEF IInv

\* A request on the loop goes on with a row of its own.
LEMMA InitiateOK == ASSUME IInv, NEW r \in Callers, Initiate(r) PROVE IInv'
<1>1. Admission /\ Calls /\ Money /\ ListInv /\ keys' = keys /\ standing' = standing /\ UNCHANGED admission
  BY DEF IInv, ListInv, admission, Initiate
<1>2. PICK op \in {"push", "qr", "pay"} :
        /\ Claims(r, op)
        /\ IF Runs(standing) /\ (op = "pay" => link = "ACTIVE")
           THEN /\ colls' = Append(colls, Row(op, "processing", "none"))
                /\ idem' = [idem EXCEPT ![op] = "in_progress"]
                /\ Go(r, [On(r, "asking") EXCEPT !.coll = Len(colls) + 1])
           ELSE Refused(r) /\ UNCHANGED <<colls, idem>>
  BY DEF Initiate
<1>3. CASE ~(Runs(standing) /\ (op = "pay" => link = "ACTIVE"))
  <2>1. Refused(r) /\ colls' = colls /\ prompts' = prompts
    BY <1>2, <1>3 DEF Initiate
  <2> QED BY <1>1, <2>1, EndsOK
<1>4. CASE Runs(standing) /\ (op = "pay" => link = "ACTIVE")
  <2>1. PICK n \in Nat : n = Len(colls) + 1 /\ n # 0
    BY <1>1 DEF Money
  <2>2. PICK x \in Collection : x = Row(op, "processing", "none") /\ x.credits = 0 /\ x.ref = 0
    BY RowOK DEF Operations
  <2>3. colls' = Append(colls, x) /\ prompts' = prompts /\ Go(r, [On(r, "asking") EXCEPT !.coll = n])
    BY <1>2, <1>4, <2>1, <2>2 DEF Initiate
  <2>4. /\ RowsGrow /\ Len(colls') = n /\ colls'[n] = x /\ CollOK(n)'
        /\ \A d \in 1..Len(colls') : CollOK(d)' \/ (d \in 1..Len(colls) /\ colls'[d] = colls[d])
    BY <1>1, <2>1, <2>2, <2>3, NewRow
  <2>5. caller[r] \in CallOf /\ CallOK(r) /\ caller[r].at = "admitted"
    BY <1>1, <1>2 DEF Calls, Claims
  <2>6. PICK q \in CallOf : q = [caller[r] EXCEPT !.at = "asking", !.coll = n]
    BY <2>5 DEF CallOf, Checked, Doing
  <2>7. /\ q.at = "asking" /\ q.coll = n /\ q.key = caller[r].key /\ q.keyed = caller[r].keyed
        /\ q.stood = caller[r].stood /\ q.ran = caller[r].ran
    BY <2>5, <2>6 DEF CallOf
  <2>8. Go(r, q) /\ caller[r].ran
    <3>1. [On(r, "asking") EXCEPT !.coll = n] = q
      BY <2>5, <2>6 DEF On, CallOf
    <3> QED BY <1>4, <2>3, <2>5, <3>1 DEF CallOK
  <2>9. Calls' /\ caller'[r] = q
    BY <1>1, <2>5, <2>7, <2>8, LoopCalls DEF Doing
  <2>10. \A s \in Callers : s # r => caller'[s] = caller[s]
    BY <1>1, <2>8 DEF Calls, Go
  <2>11. PromptsGrow
    BY <1>1, <2>3, PromptsStay
  <2>12. \A c \in 1..Len(colls') : CollOK(c)'
    BY <1>1, <2>4, <2>11, CollStays
  <2>13. ASSUME NEW s \in Callers PROVE AskOK(s)'
    <3>1. CASE s = r
      BY <2>1, <2>2, <2>4, <2>7, <2>9, <3>1 DEF AskOK, Doing
    <3>2. CASE s # r
      <4>1. Keeps(s)
        BY <2>10, <3>2 DEF Keeps
      <4>2. AskOK(s) /\ Len(colls) \in Nat
        BY <1>1 DEF Money
      <4>3. caller[s].coll # 0 => colls'[caller[s].coll].ref = colls[caller[s].coll].ref
        BY <2>4, <4>2 DEF AskOK, RowsGrow
      <4> QED BY <1>1, <2>4, <2>11, <4>1, <4>3, AskStays DEF RowsGrow
    <3> QED BY <3>1, <3>2
  <2>14. Apart'
    <3>1. \A s \in Callers : s # r => caller'[s].coll \in 0..Len(colls)
      BY <1>1, <2>10 DEF Money, AskOK
    <3>2. \A s \in Callers : s # r => caller'[s].coll # n
      BY <1>1, <2>1, <3>1 DEF Money
    <3>3. caller'[r].coll = n
      BY <2>7, <2>9
    <3> QED BY <1>1, <2>10, <3>2, <3>3 DEF Apart, Money
  <2>15. Money'
    BY <2>4, <2>11, <2>12, <2>13, <2>14 DEF Money, RowsGrow, PromptsGrow
  <2> QED BY <1>1, <2>9, <2>15, ListsUnchanged DEF IInv
<1> QED BY <1>3, <1>4

\* A prompt is made for the row of the request that asks.
LEMMA AskActionOK == ASSUME IInv, NEW r \in Callers, Ask(r) PROVE IInv'
<1>1. Admission /\ Calls /\ Money /\ ListInv /\ keys' = keys /\ standing' = standing /\ UNCHANGED admission
  BY DEF IInv, ListInv, admission, Ask
<1>2. caller[r] \in CallOf /\ CallOK(r) /\ AskOK(r) /\ caller[r].at = "asking" /\ colls' = colls
  BY <1>1 DEF Calls, Money, Ask
<1>3. PICK n \in Nat : n = Len(prompts) + 1
  BY <1>1 DEF Money
<1>4. PICK p \in Prompt : p = [coll |-> caller[r].coll, state |-> "asked", acked |-> FALSE]
                            /\ p.coll = caller[r].coll
  <2>1. caller[r].coll \in Nat
    BY <1>2 DEF CallOf
  <2>2. [coll |-> caller[r].coll, state |-> "asked", acked |-> FALSE] \in Prompt
    BY <2>1 DEF Prompt
  <2> QED BY <2>2
<1>5. prompts' = Append(prompts, p) /\ Go(r, [On(r, "asked") EXCEPT !.prompt = n])
  BY <1>3, <1>4 DEF Ask
<1>6. /\ prompts' \in Seq(Prompt) /\ Len(prompts') = n /\ prompts'[n] = p
      /\ \A j \in 1..Len(prompts) : prompts'[j] = prompts[j]
  BY <1>1, <1>3, <1>5, AppendSeq DEF Money
<1>7. PromptsGrow
  BY <1>1, <1>3, <1>6 DEF PromptsGrow, Money
<1>8. PICK q \in CallOf : q = [caller[r] EXCEPT !.at = "asked", !.prompt = n]
  BY <1>2 DEF CallOf, Checked, Doing
<1>9. /\ q.at = "asked" /\ q.coll = caller[r].coll /\ q.prompt = n /\ q.key = caller[r].key
      /\ q.keyed = caller[r].keyed /\ q.stood = caller[r].stood /\ q.ran = caller[r].ran
  BY <1>2, <1>8 DEF CallOf
<1>10. Go(r, q)
  <2>1. [On(r, "asked") EXCEPT !.prompt = n] = q
    BY <1>2, <1>8 DEF On, CallOf
  <2> QED BY <1>5, <2>1
<1>11. Calls' /\ caller'[r] = q
  BY <1>1, <1>2, <1>9, <1>10, LoopCalls DEF Doing
<1>12. \A s \in Callers : s # r => caller'[s] = caller[s]
  BY <1>1, <1>10 DEF Calls, Go
<1>13. \A c \in 1..Len(colls') : CollOK(c)'
  BY <1>1, <1>2, <1>7, CollStays
<1>14. ASSUME NEW s \in Callers PROVE AskOK(s)'
  <2>1. CASE s = r
    BY <1>2, <1>3, <1>4, <1>6, <1>9, <1>11, <2>1 DEF AskOK, Doing
  <2>2. CASE s # r
    <3>1. Keeps(s)
      BY <1>12, <2>2 DEF Keeps
    <3> QED BY <1>1, <1>2, <1>7, <3>1, AskStays DEF Money
  <2> QED BY <2>1, <2>2
<1>15. Apart'
  <2>1. \A s \in Callers : caller'[s].coll = caller[s].coll
    BY <1>9, <1>11, <1>12
  <2> QED BY <1>1, <2>1 DEF Apart, Money
<1>16. Money'
  BY <1>1, <1>2, <1>7, <1>13, <1>14, <1>15 DEF Money, PromptsGrow
<1> QED BY <1>1, <1>11, <1>16, ListsUnchanged DEF IInv

\* The reference is that of the prompt made for the row.
LEMMA ReplyOK == ASSUME IInv, NEW r \in Callers, Reply(r) PROVE IInv'
<1>1. Admission /\ Calls /\ Money /\ ListInv /\ keys' = keys /\ standing' = standing /\ UNCHANGED admission
  BY DEF IInv, ListInv, admission, Reply
<1>2. caller[r] \in CallOf /\ CallOK(r) /\ AskOK(r) /\ caller[r].at = "asked" /\ prompts' = prompts
  BY <1>1 DEF Calls, Money, Reply
<1> PICK k \in Nat, p \in Nat : k = caller[r].coll /\ p = caller[r].prompt
  BY <1>2 DEF CallOf
<1>3. /\ k # 0 /\ k \in 1..Len(colls) /\ colls[k].ref = 0
      /\ p \in 1..Len(prompts) /\ p \in Nat /\ p # 0 /\ prompts[p].coll = k
  <2>1. Len(colls) \in Nat /\ Len(prompts) \in Nat
    BY <1>1 DEF Money
  <2> QED BY <1>2, <2>1 DEF AskOK, Doing
<1>4. PICK booked \in BOOLEAN :
        /\ colls' = [colls EXCEPT ![k].ref = p, ![k].booked = booked]
        /\ IF ~booked THEN Ends(r, "none")
           ELSE IF caller[r].op = "pay" THEN Go(r, On(r, "checking")) /\ UNCHANGED idem
           ELSE Ends(r, "completed")
  BY DEF Reply
<1>5. colls \in Seq(Collection) /\ colls[k] \in Collection /\ CollOK(k)
  BY <1>1, <1>3 DEF Money
<1>6. PICK x \in Collection : x = [colls[k] EXCEPT !.ref = p, !.booked = booked]
  BY <1>3, <1>5 DEF Collection
<1>7. x.ref = p /\ x.credits = colls[k].credits /\ x.status = colls[k].status
  BY <1>5, <1>6 DEF Collection
<1>8. colls' = [colls EXCEPT ![k] = x]
  BY <1>3, <1>4, <1>5, <1>6
<1>9. /\ colls' \in Seq(Collection) /\ Len(colls') = Len(colls) /\ colls'[k] = x
      /\ \A d \in 1..Len(colls) : d # k => colls'[d] = colls[d]
  BY <1>3, <1>5, <1>8, UpdateSeq
<1>10. CollOK(k)'
  BY <1>2, <1>3, <1>5, <1>7, <1>9 DEF CollOK
<1>11. PromptsGrow
  BY <1>1, <1>2, PromptsStay
<1>12. \A c \in 1..Len(colls') : CollOK(c)'
  BY <1>1, <1>9, <1>10, <1>11, CollStays
<1>13. ASSUME NEW s \in Callers, s # r, Keeps(s) PROVE AskOK(s)'
  <2>1. caller[s].coll # k
    BY <1>1, <1>3, <1>13 DEF Money, Apart
  <2>2. AskOK(s) /\ Len(colls) \in Nat
    BY <1>1 DEF Money
  <2>3. caller[s].coll # 0 => colls'[caller[s].coll].ref = colls[caller[s].coll].ref
    BY <1>9, <2>1, <2>2 DEF AskOK
  <2> QED BY <1>1, <1>9, <1>11, <1>13, <2>2, <2>3, AskStays
<1>14. CASE Refused(r)
  <2>1. Calls' /\ caller'[r] = NoCall
    BY <1>1, <1>14, RefusedOK
  <2>2. \A s \in Callers : Keeps(s)
    BY <1>1, <1>14, Leaves
  <2>3. AskOK(r)'
    BY <1>1, <1>9, <2>1, NoCallOK DEF AskOK, Doing, Money
  <2>4. Apart'
    BY <1>1, <2>2, ApartStays DEF Keeps, Money
  <2>5. Money'
    BY <1>9, <1>11, <1>12, <1>13, <2>2, <2>3, <2>4 DEF Money, PromptsGrow
  <2> QED BY <1>1, <2>1, <2>5, ListsUnchanged DEF IInv
<1>15. CASE Go(r, On(r, "checking"))
  <2>1. PICK q \in CallOf : q = [caller[r] EXCEPT !.at = "checking"]
    BY <1>2 DEF CallOf, Checked, Doing
  <2>2. /\ q.at = "checking" /\ q.coll = k /\ q.prompt = p /\ q.key = caller[r].key
        /\ q.keyed = caller[r].keyed /\ q.stood = caller[r].stood /\ q.ran = caller[r].ran
    BY <1>2, <2>1 DEF CallOf
  <2>3. Go(r, q)
    BY <1>15, <2>1 DEF On
  <2>4. Calls' /\ caller'[r] = q
    BY <1>1, <1>2, <2>2, <2>3, LoopCalls DEF Doing
  <2>5. \A s \in Callers : s # r => caller'[s] = caller[s]
    BY <1>1, <2>3 DEF Calls, Go
  <2>6. \A s \in Callers : s # r => Keeps(s)
    BY <2>5 DEF Keeps
  <2>7. AskOK(r)'
    BY <1>2, <1>3, <1>7, <1>9, <2>2, <2>4 DEF AskOK, Doing
  <2>8. Apart'
    <3>1. \A s \in Callers : caller'[s].coll = caller[s].coll
      BY <2>2, <2>4, <2>5
    <3> QED BY <1>1, <3>1 DEF Apart, Money
  <2>9. Money'
    BY <1>9, <1>11, <1>12, <1>13, <2>6, <2>7, <2>8 DEF Money, PromptsGrow
  <2> QED BY <1>1, <2>4, <2>9, ListsUnchanged DEF IInv
<1> QED BY <1>4, <1>14, <1>15 DEF Ends

\* The status check writes the outcome of the prompt the row names.
LEMMA CheckStatusOK == ASSUME IInv, NEW r \in Callers, CheckStatus(r) PROVE IInv'
<1>1. Admission /\ Calls /\ Money /\ ListInv /\ keys' = keys /\ standing' = standing /\ UNCHANGED admission
  BY DEF IInv, ListInv, admission, CheckStatus
<1>2. Refused(r) /\ prompts' = prompts /\ caller[r].at = "checking" /\ AskOK(r)
  BY <1>1 DEF CheckStatus, Ends, Money
<1>3. CASE colls' = colls
  BY <1>1, <1>2, <1>3, EndsOK
<1>4. CASE colls' # colls
  <2> DEFINE k == caller[r].coll
             p == caller[r].prompt
  <2>1. Open(k) /\ Resolve(k, Outcome(p)) /\ prompts[p].state # "asked"
    BY <1>4 DEF CheckStatus
  <2>2. k \in 1..Len(colls) /\ p # 0 /\ colls[k].ref = p
    <3>1. Len(colls) \in Nat /\ Len(prompts) \in Nat
      BY <1>1 DEF Money
    <3> QED BY <1>2, <3>1 DEF AskOK, Doing
  <2>3. Outcome(p) \in {"successful", "failed"} /\ (Outcome(p) = "successful" => prompts[p].state = "paid")
    BY DEF Outcome
  <2>4. PromptsGrow
    BY <1>1, <1>2, PromptsStay
  <2> HIDE DEF k, p
  <2>5. /\ RowsGrow
        /\ \A d \in 1..Len(colls') : CollOK(d)' \/ (d \in 1..Len(colls) /\ colls'[d] = colls[d])
    BY <1>1, <2>1, <2>2, <2>3, <2>4, ResolveOK
  <2>6. Calls' /\ \A s \in Callers : Keeps(s)
    BY <1>1, <1>2, RefusedOK, Leaves
  <2>7. Money'
    BY <1>1, <2>4, <2>5, <2>6, MoneyStep
  <2> QED BY <1>1, <2>6, <2>7, ListsUnchanged DEF IInv
<1> QED BY <1>3, <1>4

\* A prompt changes, but neither its row nor that it was paid.
LEMMA OnePrompt ==
  ASSUME Money, NEW p \in 1..Len(prompts), NEW x \in Prompt, prompts' = [prompts EXCEPT ![p] = x],
         x.coll = prompts[p].coll, prompts[p].state = "paid" => x.state = "paid"
  PROVE  PromptsGrow
<1>1. prompts \in Seq(Prompt)
  BY DEF Money
<1>2. /\ prompts' \in Seq(Prompt) /\ Len(prompts') = Len(prompts) /\ prompts'[p] = x
      /\ \A j \in 1..Len(prompts) : j # p => prompts'[j] = prompts[j]
  BY <1>1, UpdateSeq
<1> QED BY <1>1, <1>2 DEF PromptsGrow

LEMMA DecideOK ==
  ASSUME IInv, NEW p \in DOMAIN prompts, NEW s \in {"paid", "declined"}, Decide(p, s)
  PROVE  IInv'
<1>1. Admission /\ Calls /\ Money /\ ListInv /\ caller' = caller /\ colls' = colls /\ UNCHANGED admission
  BY DEF IInv, ListInv, Decide
<1>2. p \in 1..Len(prompts) /\ prompts[p] \in Prompt /\ prompts[p].state = "asked"
  BY <1>1 DEF Money, Decide
<1>3. PICK x \in Prompt : x = [prompts[p] EXCEPT !.state = s]
  BY <1>2 DEF Prompt
<1>4. x.coll = prompts[p].coll
  BY <1>2, <1>3 DEF Prompt
<1>5. prompts' = [prompts EXCEPT ![p] = x]
  BY <1>2, <1>3 DEF Decide
<1>6. PromptsGrow /\ RowsGrow
  BY <1>1, <1>2, <1>4, <1>5, OnePrompt, RowsStay
<1>7. \A r \in Callers : Keeps(r)
  BY <1>1 DEF Keeps
<1>8. Money'
  BY <1>1, <1>6, <1>7, MoneyStep
<1>9. Calls'
  BY <1>1 DEF admission, Calls, CallOK
<1> QED BY <1>1, <1>8, <1>9, ListsUnchanged DEF IInv

\* The callback resolves a row that names its prompt.
LEMMA DeliverOK ==
  ASSUME IInv, NEW p \in DOMAIN prompts, NEW signed \in BOOLEAN, Deliver(p, signed)
  PROVE  IInv'
<1>1. Admission /\ Calls /\ Money /\ ListInv /\ caller' = caller /\ UNCHANGED admission
  BY DEF IInv, ListInv, Deliver
<1>2. p \in 1..Len(prompts) /\ prompts[p] \in Prompt /\ p # 0
  BY <1>1 DEF Money
<1>3. PromptsGrow
  <2>1. CASE prompts' = prompts
    BY <1>1, <2>1, PromptsStay
  <2>2. ASSUME NEW a \in BOOLEAN, prompts' = [prompts EXCEPT ![p].acked = a] PROVE PromptsGrow
    <3>1. PICK x \in Prompt : x = [prompts[p] EXCEPT !.acked = a]
      BY <1>2 DEF Prompt
    <3>2. x.coll = prompts[p].coll /\ x.state = prompts[p].state
      BY <1>2, <3>1 DEF Prompt
    <3>3. prompts' = [prompts EXCEPT ![p] = x]
      BY <1>2, <2>2, <3>1
    <3> QED BY <1>1, <1>2, <3>2, <3>3, OnePrompt
  <2>3. \/ prompts' = prompts \/ \E a \in BOOLEAN : prompts' = [prompts EXCEPT ![p].acked = a]
    <3> DEFINE raises == \E c \in Matches(p) : ~colls[c].booked
    <3>1. \E a \in BOOLEAN : a = ~raises
      BY Zenon
    <3>2. \/ prompts' = [prompts EXCEPT ![p].acked = TRUE]
          \/ prompts' = prompts
          \/ prompts' = [prompts EXCEPT ![p].acked = ~raises]
      BY DEF Deliver
    <3> HIDE DEF raises
    <3> QED BY <3>1, <3>2, Zenon
  <2> QED BY <2>1, <2>2, <2>3
<1>4. /\ RowsGrow
      /\ \A d \in 1..Len(colls') : CollOK(d)' \/ (d \in 1..Len(colls) /\ colls'[d] = colls[d])
  <2>1. CASE colls' = colls
    BY <1>1, <2>1, RowsStay
  <2>2. CASE colls' # colls
    <3>1. PICK c \in Matches(p) : Resolve(c, Outcome(p))
      BY <2>2 DEF Deliver
    <3>2. c \in 1..Len(colls) /\ Open(c) /\ colls[c].ref = p
      BY <1>1, <3>1 DEF Matches, Money
    <3>3. Outcome(p) \in {"successful", "failed"} /\ (Outcome(p) = "successful" => prompts[p].state = "paid")
      BY DEF Outcome
    <3> QED BY <1>1, <1>2, <1>3, <3>1, <3>2, <3>3, ResolveOK
  <2> QED BY <2>1, <2>2
<1>5. \A r \in Callers : Keeps(r)
  BY <1>1 DEF Keeps
<1>6. Money'
  BY <1>1, <1>3, <1>4, <1>5, MoneyStep
<1>7. Calls'
  BY <1>1 DEF admission, Calls, CallOK
<1> QED BY <1>1, <1>6, <1>7, ListsUnchanged DEF IInv

LEMMA ExpireOK == ASSUME IInv, NEW c \in DOMAIN colls, Expire(c) PROVE IInv'
<1>1. Admission /\ Calls /\ Money /\ ListInv /\ caller' = caller /\ prompts' = prompts /\ UNCHANGED admission
  BY DEF IInv, ListInv, Expire
<1>2. c \in 1..Len(colls) /\ Open(c) /\ Resolve(c, "failed")
  BY <1>1 DEF Money, Expire
<1>3. PromptsGrow
  BY <1>1, PromptsStay
<1>4. /\ RowsGrow
      /\ \A d \in 1..Len(colls') : CollOK(d)' \/ (d \in 1..Len(colls) /\ colls'[d] = colls[d])
  BY <1>1, <1>2, <1>3, ResolveOK
<1>5. \A r \in Callers : Keeps(r)
  BY <1>1 DEF Keeps
<1>6. Money'
  BY <1>1, <1>3, <1>4, <1>5, MoneyStep
<1>7. Calls'
  BY <1>1 DEF admission, Calls, CallOK
<1> QED BY <1>1, <1>6, <1>7, ListsUnchanged DEF IInv

LEMMA StopOK == ASSUME IInv, Stop PROVE IInv'
<1>1. Admission /\ Calls /\ Money /\ ListInv /\ colls' = colls /\ prompts' = prompts /\ UNCHANGED admission
  BY DEF IInv, ListInv, Stop, api
<1>2. Calls' /\ \A r \in Callers : caller'[r] = caller[r] \/ caller'[r] = NoCall
  BY <1>1, StopCalls
<1>3. \A r \in Callers : Keeps(r)
  BY <1>2, NoCallOK DEF Keeps, Doing
<1>4. Money'
  BY <1>1, <1>3, MoneyStays
<1> QED BY <1>1, <1>2, <1>4, ListsUnchanged DEF IInv

LEMMA AccessOK == ASSUME IInv, AccessNext, UNCHANGED api PROVE IInv'
<1>1. Admission /\ Calls /\ Money /\ ListInv /\ colls' = colls /\ prompts' = prompts
  BY DEF IInv, ListInv, api
<1>2. ASSUME NEW s \in Standing, SetStanding(s) PROVE IInv'
  <2>1. /\ Calls'
        /\ \A r \in Callers : /\ caller'[r].at = caller[r].at /\ caller'[r].coll = caller[r].coll
                              /\ caller'[r].prompt = caller[r].prompt
    BY <1>1, <1>2, StandingCalls
  <2>2. Money'
    BY <1>1, <2>1, MoneyStays DEF Keeps
  <2>3. ListInv'
    BY <1>1, <1>2, StandingMoves
  <2> QED BY <2>1, <2>2, <2>3 DEF IInv
<1>3. CASE SuspendApiAccess \/ ReinstateApiAccess \/ \E s \in {"active", "suspended"} : UpdateMerchantStatus(s)
  <2>1. \E s \in Standing : SetStanding(s)
    <3>1. standing \in Standing
      BY <1>1 DEF Admission
    <3>2. /\ [standing EXCEPT !.suspended = TRUE] \in Standing /\ [standing EXCEPT !.suspended = FALSE] \in Standing
          /\ \A s \in {"active", "suspended"} : [standing EXCEPT !.status = s] \in Standing
      BY <3>1 DEF Standing
    <3> QED BY <1>3, <3>2 DEF SuspendApiAccess, ReinstateApiAccess, UpdateMerchantStatus
  <2> QED BY <1>2, <2>1
<1>4. CASE \/ \E k \in DOMAIN keys : RevokeKey(k)
           \/ \E e \in DOMAIN entries, s \in {"active", "rejected"} : ReviewEntry(e, s)
           \/ \E t \in Clerks : Portal(t)
  <2>1. caller' = caller /\ standing' = standing /\ KeysDie
    BY <1>1, <1>4, EditorsCalls
  <2>2. ListInv'
    BY <1>1, <1>4, AdministerOK, PortalOK DEF Administer
  <2>3. Calls'
    BY <1>1, <2>1, <2>2, CallsStay DEF ListInv
  <2>4. Money'
    BY <1>1, <2>1, MoneyStays DEF Keeps
  <2> QED BY <2>2, <2>3, <2>4 DEF IInv
<1>5. ASSUME NEW r \in Callers, Check(r) PROVE IInv'
  <2>1. /\ Calls'
        /\ \A s \in Callers : s # r => caller'[s] = caller[s]
        /\ caller'[r].at \notin Doing /\ caller'[r].coll \in {0, caller[r].coll}
    BY <1>1, <1>5, CheckCalls
  <2>2. \A s \in Callers : Keeps(s)
    BY <2>1 DEF Keeps
  <2>3. Money'
    BY <1>1, <2>2, MoneyStays
  <2>4. UNCHANGED admission
    BY <1>5 DEF Check, LookUpKey, ReadStanding, CheckAddress, RateLimited
  <2> QED BY <1>1, <2>1, <2>3, <2>4, ListsUnchanged DEF IInv
<1> QED BY <1>3, <1>4, <1>5 DEF AccessNext, Administer
-----------------------------------------------------------------------------
LEMMA InvInit == Init => IInv
<1> SUFFICES ASSUME Init PROVE IInv
  OBVIOUS
<1>1. ListInv
  BY ListInit DEF Init
<1>2. \A r \in Callers : caller[r] = NoCall
  BY DEF Init, AccessInit
<1>3. Calls
  <2>1. caller \in [Callers -> CallOf]
    BY NoCallOK DEF Init, AccessInit, Calls
  <2>2. Len(keys) \in Nat
    BY <1>1 DEF ListInv, Admission
  <2>3. \A r \in Callers : CallOK(r)
    BY <1>2, <2>2, NoCallOK DEF CallOK, Checked, Doing
  <2> QED BY <2>1, <2>3 DEF Calls
<1>4. Money
  <2>1. colls = <<>> /\ prompts = <<>> /\ Len(colls) = 0
    BY DEF Init
  <2>2. \A r \in Callers : AskOK(r)
    BY <1>2, <2>1, NoCallOK DEF AskOK, Doing
  <2>3. Apart
    BY <1>2, NoCallOK DEF Apart
  <2> QED BY <2>1, <2>2, <2>3 DEF Money
<1> QED BY <1>1, <1>3, <1>4 DEF IInv

LEMMA InvNext == IInv /\ [Next]_vars => IInv'
<1> SUFFICES ASSUME IInv, [Next]_vars PROVE IInv'
  OBVIOUS
<1>1. CASE UNCHANGED vars
  <2>1. UNCHANGED admission /\ caller' = caller /\ colls' = colls /\ prompts' = prompts
    BY <1>1 DEF vars, api
  <2>2. Money'
    BY <2>1, MoneyStays DEF IInv, Keeps
  <2>3. Calls'
    BY <2>1 DEF IInv, admission, Calls, CallOK
  <2> QED BY <2>1, <2>2, <2>3, ListsUnchanged DEF IInv
<1>2. ASSUME NEW r \in Callers, Replay(r) \/ Fails(r) PROVE IInv'
  BY <1>2, EndsOK DEF Replay, Fails, Ends, api
<1>3. ASSUME NEW r \in Callers, Handle(r) PROVE IInv'
  BY <1>2, <1>3, InitiateOK, AskActionOK, ReplyOK, CheckStatusOK, SimulateOK DEF Handle
<1> QED BY <1>1, <1>3, AccessOK, BeginOK, DecideOK, DeliverOK, ExpireOK, StopOK DEF Next

LEMMA Inductive == Spec => []IInv
<1> QED BY InvInit, InvNext, PTL DEF Spec
-----------------------------------------------------------------------------
\* However the statements of rotations, switches, revocations and reviews fall
\* between one another, an unrestricted key descends from one whose owner chose so,
\* and an address in force was approved for the key or one it replaces
\* (merchant_portal.py rotate_my_api_key, admin.py _review_ip_allowlist_entry).
THEOREM ListsHold == Spec => []RestrictionHolds
<1>1. IInv => RestrictionHolds
  <2> SUFFICES ASSUME IInv PROVE RestrictionHolds
    OBVIOUS
  <2>1. keys \in Seq(Key) /\ entries \in Seq(Entry)
    BY DEF IInv, ListInv, Admission
  <2>2. DOMAIN keys = 1..Len(keys) /\ DOMAIN entries = 1..Len(entries)
    BY <2>1
  <2> QED BY <2>2 DEF IInv, ListInv, KeyOK, EntryOK, RestrictionHolds
<1> QED BY <1>1, Inductive, PTL

\* A request that reaches the provider, the sandbox or the loop was let in on a key,
\* an API access and an account that were in order at some moment since it began
\* (auth/dependencies.py verify_api_key, require_approved_merchant).
THEOREM AdmittedInOrder == Spec => []StandingWhenAccepted
<1>1. IInv => StandingWhenAccepted
  BY DEF IInv, Calls, CallOK, Checked, Doing, StandingWhenAccepted
<1> QED BY <1>1, Inductive, PTL

\* A collection is credited at most once, for a prompt that was made for it and paid,
\* whatever callback, status check, expiry or retry comes in between
\* (services/collections.py resolve_collection, resolve_collection_from_callback).
THEOREM CollectionsCreditedOnce == Spec => []CreditedOnce
<1>1. IInv => CreditedOnce
  <2> SUFFICES ASSUME IInv PROVE CreditedOnce
    OBVIOUS
  <2>1. DOMAIN colls = 1..Len(colls)
    BY DEF IInv, Money
  <2> QED BY <2>1 DEF IInv, Money, CollOK, CreditedOnce
<1> QED BY <1>1, Inductive, PTL
=============================================================================
