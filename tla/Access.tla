-------------------------------- MODULE Access --------------------------------
(***************************************************************************)
(* Who may call the API of one merchant: its standing (routers/merchants.py *)
(* and admin.py), its API keys and their address lists (merchant_portal.py, *)
(* admin.py), and the checks of a request (auth/dependencies.py,            *)
(* ip_allowlist.py, rate_limit.py).                                        *)
(*                                                                         *)
(* The checks and the portal's routes run in threads: a step is one         *)
(* statement, and anything may happen between two of them.                  *)
(***************************************************************************)
EXTENDS Integers, Sequences, FiniteSets

CONSTANTS
  Callers,    \* slots for requests to the API
  Clerks,     \* threads in which the portal serves the merchant's developers
  Addresses,  \* addresses a request can come from
  Starts      \* situations to begin with, each with its budget of requests

VARIABLES
  standing,  \* Standing          the merchants row
  keys,      \* Seq(Key)          api_keys
  entries,   \* Seq(Entry)        api_ip_allowlist
  clerk,     \* [Clerks -> Clerk]
  caller,    \* [Callers -> Caller]
  opened,    \* families of keys whose owner once chose to go without a list
  approved,  \* <<family, address>> an administrator once approved
  left       \* budget: requests still to come, by sort

admission == <<standing, keys, entries, clerk, opened, approved>>

Standing == [status : {"pending", "active", "suspended"}, suspended : BOOLEAN]
\* family: the first key of a chain of rotations.
Key == [live : BOOLEAN, active : BOOLEAN, limited : BOOLEAN, family : Nat]
\* key 0: the entry holds for every key of the merchant.
Entry == [key : Nat, address : Addresses,
          status : {"pending", "active", "rejected", "deleted"}]

\* The tables a situation begins with.
ASSUME StartsAssumption ==
  \A s \in Starts : /\ s.keys \in Seq(Key) /\ s.entries \in Seq(Entry)
                    /\ \A e \in DOMAIN s.entries : s.entries[e].key \in 0..Len(s.keys)

\* What a thread of the portal serves and what it has read; todo: the address and
\* the status of the entries to copy.
NoWork == [at |-> "idle", key |-> 0, live |-> FALSE, limited |-> FALSE,
           address |-> 0, new |-> 0, todo |-> {}]

\* A request: its operation, key (0: a session or a customer), address, what it
\* read of the key, the rows it is about; keyed, stood, ran: the key, the API
\* access and the account were in order at some moment since it began.
NoCall == [at |-> "idle", op |-> "none", key |-> 0, address |-> 0, limited |-> FALSE,
           coll |-> 0, prompt |-> 0, keyed |-> FALSE, stood |-> FALSE, ran |-> FALSE]

Spend(k) == left[k] > 0 /\ left' = [left EXCEPT ![k] = @ - 1]
Family(k) == IF k = 0 THEN 0 ELSE keys[k].family
-----------------------------------------------------------------------------
(***************************************************************************)
(* Administrators.                                                         *)
(***************************************************************************)
Runs(s) == s.status = "active"
Stands(s) == Runs(s) /\ ~s.suspended

\* A new standing, and what it lets the requests under way say of themselves.
SetStanding(s) ==
  /\ standing' = s
  /\ caller' = [r \in Callers |-> IF caller[r].at = "idle" THEN caller[r] ELSE
                  [caller[r] EXCEPT !.stood = @ \/ Stands(s), !.ran = @ \/ Runs(s)]]
  /\ UNCHANGED <<keys, entries, clerk, opened, approved>>

SuspendApiAccess == Spend("admin") /\ SetStanding([standing EXCEPT !.suspended = TRUE])
ReinstateApiAccess == Spend("admin") /\ SetStanding([standing EXCEPT !.suspended = FALSE])
UpdateMerchantStatus(s) == Spend("admin") /\ SetStanding([standing EXCEPT !.status = s])

\* revoke_admin_api_key
RevokeKey(k) ==
  /\ Spend("admin")
  /\ keys' = [keys EXCEPT ![k].active = FALSE]
  /\ UNCHANGED <<standing, entries, clerk, caller, opened, approved>>

\* An entry that was deleted is not found.
ReviewEntry(e, s) ==
  /\ Spend("admin") /\ entries[e].status # "deleted"
  /\ entries' = [entries EXCEPT ![e].status = s]
  /\ approved' = IF s = "active" THEN approved \cup {<<Family(entries[e].key), entries[e].address>>}
                 ELSE approved
  /\ UNCHANGED <<standing, keys, clerk, caller, opened>>
-----------------------------------------------------------------------------
(***************************************************************************)
(* The merchant's portal.                                                  *)
(***************************************************************************)
Serve(t, q) == clerk' = [clerk EXCEPT ![t] = q]
To(t, p) == [clerk[t] EXCEPT !.at = p]

\* get_own_merchant: the account is not blocked.
LetIn(t) == clerk[t] = NoWork /\ standing.status # "suspended" /\ Spend("portal")

\* check_production_api_access (the pricing rule assumed), check_sandbox_api_access
MayHold(live) == ~standing.suspended /\ (live => Runs(standing))

NewKey(live, limited, family) ==
  Append(keys, [live |-> live, active |-> TRUE, limited |-> limited, family |-> family])

Pending(k, a) == [key |-> k, address |-> a, status |-> "pending"]

CreateApiKey(t, live, limited, a) ==
  /\ LetIn(t) /\ Runs(standing) /\ MayHold(live)
  /\ Serve(t, [NoWork EXCEPT !.at = "create", !.live = live, !.limited = limited,
                !.address = IF limited THEN a ELSE 0])
  /\ UNCHANGED <<standing, keys, entries, caller, opened, approved>>

InsertKey(t) ==
  /\ clerk[t].at = "create"
  /\ LET q == clerk[t]
         k == Len(keys) + 1
     IN /\ keys' = NewKey(q.live, q.limited, k)
        /\ opened' = IF q.limited THEN opened ELSE opened \cup {k}
        /\ Serve(t, IF q.limited THEN [To(t, "list") EXCEPT !.key = k] ELSE NoWork)
  /\ UNCHANGED <<standing, entries, caller, approved, left>>

\* _insert_ip_allowlist_entries
InsertEntries(t) ==
  /\ clerk[t].at = "list"
  /\ entries' = Append(entries, Pending(clerk[t].key, clerk[t].address))
  /\ Serve(t, NoWork)
  /\ UNCHANGED <<standing, keys, caller, opened, approved, left>>

\* rotate_my_api_key reads the key, then the merchant; it revokes, inserts the new
\* key with the settings it read, and copies the entries it finds.
RotateApiKey(t, k) ==
  /\ LetIn(t) /\ keys[k].active
  /\ Serve(t, [NoWork EXCEPT !.at = "rotate", !.key = k, !.limited = keys[k].limited])
  /\ UNCHANGED <<standing, keys, entries, caller, opened, approved>>

CheckRotation(t) ==
  /\ clerk[t].at = "rotate"
  /\ Serve(t, IF MayHold(keys[clerk[t].key].live) THEN To(t, "retire") ELSE NoWork)
  /\ UNCHANGED <<standing, keys, entries, caller, opened, approved, left>>

RetireKey(t) ==
  /\ clerk[t].at = "retire"
  /\ keys' = [keys EXCEPT ![clerk[t].key].active = FALSE]
  /\ Serve(t, To(t, "replace"))
  /\ UNCHANGED <<standing, entries, caller, opened, approved, left>>

\* Mutant: the new key is made with the column's default.
ReplacementOpen(q) == NewKey(keys[q.key].live, FALSE, Family(q.key))
Replacement(q) == NewKey(keys[q.key].live, q.limited, Family(q.key))

InForce(k) == {e \in DOMAIN entries : entries[e].key = k /\ entries[e].status \notin {"rejected", "deleted"}}

ReplaceKey(t) ==
  /\ clerk[t].at = "replace"
  /\ keys' = Replacement(clerk[t])
  /\ Serve(t, IF ~clerk[t].limited THEN NoWork
              ELSE [To(t, "read") EXCEPT !.new = Len(keys) + 1])
  /\ UNCHANGED <<standing, entries, caller, opened, approved, left>>

ReadEntries(t) ==
  /\ clerk[t].at = "read"
  /\ LET rows == {<<entries[e].address, entries[e].status>> : e \in InForce(clerk[t].key)}
     IN Serve(t, IF rows = {} THEN NoWork ELSE [To(t, "copy") EXCEPT !.todo = rows])
  /\ UNCHANGED <<standing, keys, entries, caller, opened, approved, left>>

CopyEntry(t) ==
  /\ clerk[t].at = "copy"
  /\ \E row \in clerk[t].todo :
       /\ entries' = Append(entries, [key |-> clerk[t].new, address |-> row[1], status |-> row[2]])
       /\ Serve(t, IF clerk[t].todo = {row} THEN NoWork ELSE [clerk[t] EXCEPT !.todo = @ \ {row}])
  /\ UNCHANGED <<standing, keys, caller, opened, approved, left>>

\* revoke_my_api_key
RevokeMyApiKey(t, k) ==
  /\ LetIn(t)
  /\ keys' = [keys EXCEPT ![k].active = FALSE]
  /\ UNCHANGED <<standing, entries, clerk, caller, opened, approved>>

\* update_my_api_key_ip_whitelist: a list is switched on only if it has an entry.
SwitchList(t, k, on) ==
  /\ LetIn(t) /\ (on => InForce(k) # {})
  /\ Serve(t, [NoWork EXCEPT !.at = "switch", !.key = k, !.limited = on])
  /\ UNCHANGED <<standing, keys, entries, caller, opened, approved>>

WriteSwitch(t) ==
  /\ clerk[t].at = "switch"
  /\ keys' = [keys EXCEPT ![clerk[t].key].limited = clerk[t].limited]
  /\ opened' = IF clerk[t].limited THEN opened ELSE opened \cup {Family(clerk[t].key)}
  /\ Serve(t, NoWork)
  /\ UNCHANGED <<standing, entries, caller, approved, left>>

\* create_my_ip_allowlist_entry, delete_my_ip_allowlist_entry
CreateEntry(t, k, a) ==
  /\ LetIn(t)
  /\ entries' = Append(entries, Pending(k, a))
  /\ UNCHANGED <<standing, keys, clerk, caller, opened, approved>>

DeleteEntry(t, e) ==
  /\ LetIn(t) /\ entries[e].status # "deleted"
  /\ entries' = [entries EXCEPT ![e].status = "deleted"]
  /\ UNCHANGED <<standing, keys, clerk, caller, opened, approved>>
-----------------------------------------------------------------------------
(***************************************************************************)
(* A request with a key.  Any of the keys ever made may be presented.      *)
(***************************************************************************)
Go(r, q) == caller' = [caller EXCEPT ![r] = q]
Refused(r) == Go(r, NoCall)
On(r, p) == [caller[r] EXCEPT !.at = p]

\* _coalesce_api_key, get_authenticated_caller
Arrives(r, op, k, a) ==
  /\ caller[r] = NoCall /\ Spend("calls")
  /\ Go(r, [NoCall EXCEPT !.at = IF k = 0 THEN "admitted" ELSE "key", !.op = op, !.key = k,
              !.address = a, !.keyed = IF k = 0 THEN FALSE ELSE keys[k].active,
              !.stood = Stands(standing), !.ran = Runs(standing)])
  /\ UNCHANGED admission

LookUpKey(r) ==
  /\ caller[r].at = "key"
  /\ LET k == keys[caller[r].key] IN
     IF k.active THEN Go(r, [On(r, "standing") EXCEPT !.limited = k.live /\ k.limited])
     ELSE Refused(r)
  /\ UNCHANGED <<admission, left>>

\* Mutant: only the account's status is looked at.
MayCallActive(s) == s.status = "active"
MayCall(s) == s.status = "active" /\ ~s.suspended

ReadStanding(r) ==
  /\ caller[r].at = "standing"
  /\ IF ~MayCall(standing) THEN Refused(r)
     ELSE Go(r, On(r, IF caller[r].limited THEN "address" ELSE "admitted"))
  /\ UNCHANGED <<admission, left>>

\* is_ip_allowed: the entries of this key and those of every key.
Listed(k, a) == \E e \in DOMAIN entries :
  entries[e].key \in {0, k} /\ entries[e].address = a /\ entries[e].status = "active"

CheckAddress(r) ==
  /\ caller[r].at = "address"
  /\ IF Listed(caller[r].key, caller[r].address) THEN Go(r, On(r, "admitted")) ELSE Refused(r)
  /\ UNCHANGED <<admission, left>>

\* enforce_rate_limit and rate_limit: any request may be one too many.
RateLimited(r) ==
  /\ caller[r].at = "admitted" /\ caller[r].key # 0
  /\ Refused(r)
  /\ UNCHANGED <<admission, left>>

AccessInit ==
  /\ \E s \in Starts : keys = s.keys /\ entries = s.entries /\ left = s.left
  /\ standing = [status |-> "active", suspended |-> FALSE]
  /\ clerk = [t \in Clerks |-> NoWork]
  /\ caller = [r \in Callers |-> NoCall]
  /\ opened = {keys[k].family : k \in {j \in DOMAIN keys : ~keys[j].limited}}
  /\ approved = {<<Family(entries[e].key), entries[e].address>> :
                   e \in {j \in DOMAIN entries : entries[j].status = "active"}}

Administer ==
  \/ SuspendApiAccess \/ ReinstateApiAccess
  \/ \E s \in {"active", "suspended"} : UpdateMerchantStatus(s)
  \/ \E k \in DOMAIN keys : RevokeKey(k)
  \/ \E e \in DOMAIN entries, s \in {"active", "rejected"} : ReviewEntry(e, s)

Portal(t) ==
  \/ \E live, limited \in BOOLEAN, a \in Addresses : CreateApiKey(t, live, limited, a)
  \/ InsertKey(t) \/ InsertEntries(t)
  \/ \E k \in DOMAIN keys : RotateApiKey(t, k) \/ RevokeMyApiKey(t, k)
  \/ CheckRotation(t) \/ RetireKey(t) \/ ReplaceKey(t) \/ ReadEntries(t) \/ CopyEntry(t)
  \/ \E k \in DOMAIN keys, on \in BOOLEAN : SwitchList(t, k, on)
  \/ WriteSwitch(t)
  \/ \E k \in {0} \cup DOMAIN keys, a \in Addresses : CreateEntry(t, k, a)
  \/ \E e \in DOMAIN entries : DeleteEntry(t, e)

Check(r) == LookUpKey(r) \/ ReadStanding(r) \/ CheckAddress(r) \/ RateLimited(r)

AccessNext == Administer \/ (\E t \in Clerks : Portal(t)) \/ (\E r \in Callers : Check(r))
-----------------------------------------------------------------------------
\* A key that can be used without a list descends from one whose owner chose so,
\* and every address in force was approved by an administrator for the key or for
\* one it replaces, however rotations, switches and reviews fall between the
\* statements of one another (rotate_my_api_key, _review_ip_allowlist_entry).
RestrictionHolds ==
  /\ \A k \in DOMAIN keys : keys[k].active /\ ~keys[k].limited => keys[k].family \in opened
  /\ \A e \in DOMAIN entries : entries[e].status = "active"
                                 => <<Family(entries[e].key), entries[e].address>> \in approved
=============================================================================
