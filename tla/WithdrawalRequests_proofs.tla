---------------------- MODULE WithdrawalRequests_proofs ----------------------
(***************************************************************************)
(* Theorems about WithdrawalRequests for every number of requests, keys,   *)
(* rows, codes and policies.                                               *)
(*                                                                         *)
(* A policy change under way was confirmed, if it needs to be, against the *)
(* policy of the version it names: this outlives every other change,       *)
(* because each makes a new version, and the change then fails.            *)
(*                                                                         *)
(* A request between its claim and the end of its handler owns its         *)
(* Idempotency-Key: nobody else is there with that key, the key's row says *)
(* "in_progress", and no row made under the key is live but its own.  A    *)
(* free key has no live row, so whoever claims it finds none.              *)
(*                                                                         *)
(* A row was accepted only if it fitted the limits together with all rows  *)
(* stamped before it.  Those only become fewer, so the newest accepted row *)
(* bounds the sum of all of them.                                          *)
(***************************************************************************)
EXTENDS WithdrawalRequests, FiniteSetTheorems, TLAPS

KeyNames == Endpoints \X Keys
Sums == Amounts \cup {0}

RowOf == [key : KeyNames, amount : Sums, at : Nat, recent : BOOLEAN,
          status : {"pending", "paying", "failed", "rejected"},
          auto : BOOLEAN, decided : BOOLEAN]
ChallengeOf == [key : Keys, amount : Sums, code : Nat, attempts : Nat,
                used : BOOLEAN, locked : BOOLEAN, expired : BOOLEAN]
KeyOf == [status : {"free", "in_progress", "completed"}, hash : Sums, row : Nat]
Request == [at : Places, ch : Nat, seen : Nat, right : BOOLEAN, key : KeyNames \cup {<<>>},
            amount : Sums, stamp : Nat, row : Nat, wish : Policies \cup {Off}, ver : Nat,
            sure : BOOLEAN]

Shape ==
  /\ rows \in Seq(RowOf) /\ challenges \in Seq(ChallengeOf)
  /\ keys \in [KeyNames -> KeyOf] /\ clock \in Nat /\ policy.version \in Nat
  /\ req \in [Slots -> Request]

\* Where a handler owns its key: before its row, and from its row on.
Early == {"gates", "insert", "release"}
Late == {"finalize", "pay", "audit", "complete"}
Owning == Early \cup Late

\* What the locals of a request name exists.
RequestOK(q) ==
  /\ q.at \in {"issue", "claim"} \cup Owning => q.key \in KeyNames
  /\ q.at \in {"mark", "rotate"} => q.ch \in 1..Len(challenges)
  /\ q.at \in Late => q.row \in 1..Len(rows) /\ rows[q.row].key = q.key
RequestsOK == \A s \in Slots : RequestOK(req[s])

\* A change for the version in force was confirmed if it widens it.
ChangeOK(q) ==
  q.at = "save" => /\ q.ver \in 0..policy.version
                   /\ q.ver = policy.version /\ Widens(policy, q.wish) => q.sure
ChangesOK == \A s \in Slots : ChangeOK(req[s])

TypeInv == Shape /\ RequestsOK /\ ChangesOK

\* A request keeps its key and its row, or gives them up.
Owned(q, r) ==
  /\ r.at \in Owning => q.at \in Owning /\ r.key = q.key
  /\ r.at \in Late => q.at \in Late /\ r.row = q.row

OwnersClaimed == \A s \in Slots : req[s].at \in Owning => keys[req[s].key].status = "in_progress"
OwnersDiffer == \A s, t \in Slots :
  req[s].at \in Owning /\ req[t].at \in Owning /\ req[s].key = req[t].key => s = t
FreeKeysUnused == \A i \in 1..Len(rows) : Live(i) => keys[rows[i].key].status # "free"
NoRowYet == \A s \in Slots : req[s].at \in Early =>
  \A i \in 1..Len(rows) : rows[i].key = req[s].key => ~Live(i)
OwnRowOnly == \A s \in Slots : req[s].at \in Late =>
  \A i \in 1..Len(rows) : rows[i].key = req[s].key /\ Live(i) => i = req[s].row
OneLiveRow == \A i, j \in 1..Len(rows) :
  rows[i].key = rows[j].key /\ Live(i) /\ Live(j) => i = j

KeyInv == /\ OwnersClaimed /\ OwnersDiffer /\ FreeKeysUnused
          /\ NoRowYet /\ OwnRowOnly /\ OneLiveRow
-----------------------------------------------------------------------------
\* One request moves; the tables grow or change in place.
LEMMA Moves ==
  ASSUME Shape, RequestsOK, ChangesOK,
         NEW s \in Slots, NEW x \in Request, req' = [req EXCEPT ![s] = x],
         rows' \in Seq(RowOf), challenges' \in Seq(ChallengeOf), keys' \in [KeyNames -> KeyOf],
         clock' \in Nat, policy' = policy,
         Len(challenges) <= Len(challenges'),
         \A i \in 1..Len(rows) : i \in 1..Len(rows') /\ rows'[i].key = rows[i].key,
         RequestOK(x)', x.at # "save"
  PROVE  TypeInv'
<1>1. req' \in [Slots -> Request] /\ req'[s] = x /\ \A t \in Slots \ {s} : req'[t] = req[t]
  BY DEF Shape
<1>2. Shape'
  BY <1>1 DEF Shape
<1>3. Len(challenges) \in Nat /\ Len(challenges') \in Nat
  BY DEF Shape
<1>4. RequestsOK'
  <2> SUFFICES ASSUME NEW t \in Slots \ {s} PROVE RequestOK(req[t])'
    BY <1>1 DEF RequestsOK
  <2>1. RequestOK(req[t]) /\ req'[t] = req[t]
    BY <1>1 DEF RequestsOK
  <2> QED BY <1>3, <2>1 DEF RequestOK
<1>5. ChangesOK'
  BY <1>1 DEF ChangesOK, ChangeOK
<1> QED BY <1>2, <1>4, <1>5 DEF TypeInv
-----------------------------------------------------------------------------
\* Rows keep their keys; a row becomes live only for the request that owns it, and
\* a request that falls back to before its row leaves a dead one.
LEMMA KeysStay ==
  ASSUME Shape, RequestsOK, KeyInv, keys' = keys, Len(rows') = Len(rows),
         \A i \in 1..Len(rows) : rows'[i].key = rows[i].key,
         \A t \in Slots : Owned(req[t], req'[t]),
         \A i \in 1..Len(rows) : Live(i)' => Live(i) \/ \E t \in Slots : req'[t].at \in Late /\ i = req[t].row,
         \A i \in 1..Len(rows), t \in Slots :
           req'[t].at \in Early /\ req[t].at \in Late /\ i = req[t].row => ~Live(i)'
  PROVE  KeyInv'
<1>1. OwnersClaimed' /\ OwnersDiffer'
  BY DEF KeyInv, OwnersClaimed, OwnersDiffer, Owned
<1> DEFINE Wakes(i, t) == req'[t].at \in Late /\ i = req[t].row
<1>2. \A i \in 1..Len(rows), t \in Slots :
        Wakes(i, t) => /\ req[t].at \in Late /\ req[t].at \in Owning
                       /\ rows[i].key = req[t].key /\ req'[t].row = i /\ req'[t].key = req[t].key
  BY DEF Owned, RequestsOK, RequestOK, Owning
<1>3. FreeKeysUnused'
  BY <1>2 DEF KeyInv, OwnersClaimed, FreeKeysUnused
<1>4. NoRowYet'
  <2> SUFFICES ASSUME NEW s \in Slots, req'[s].at \in Early, NEW i \in 1..Len(rows),
                      rows[i].key = req'[s].key, Live(i)'
               PROVE  FALSE
    BY DEF NoRowYet
  <2>1. req[s].at \in Owning /\ rows[i].key = req[s].key /\ req'[s].at \notin Late
    BY DEF Owned, Owning, Early, Late
  <2>2. CASE Live(i)
    <3>1. req[s].at \in Late
      BY <2>1, <2>2 DEF KeyInv, NoRowYet, Owning
    <3>2. i = req[s].row
      BY <2>1, <2>2, <3>1 DEF KeyInv, OwnRowOnly
    <3> QED BY <3>1, <3>2
  <2>3. CASE \E t \in Slots : Wakes(i, t)
    <3>1. PICK t \in Slots : Wakes(i, t)
      BY <2>3
    <3>2. s = t
      BY <1>2, <2>1, <3>1 DEF KeyInv, OwnersDiffer
    <3> QED BY <2>1, <3>1, <3>2
  <2> QED BY <2>2, <2>3
<1>5. OwnRowOnly'
  <2> SUFFICES ASSUME NEW s \in Slots, req'[s].at \in Late, NEW i \in 1..Len(rows),
                      rows[i].key = req'[s].key, Live(i)'
               PROVE  i = req'[s].row
    BY DEF OwnRowOnly
  <2>1. /\ req[s].at \in Owning /\ req[s].at \in Late
        /\ rows[i].key = req[s].key /\ req'[s].row = req[s].row
    BY DEF Owned, Owning
  <2>2. CASE Live(i)
    BY <2>1, <2>2 DEF KeyInv, OwnRowOnly
  <2>3. CASE \E t \in Slots : Wakes(i, t)
    <3>1. PICK t \in Slots : Wakes(i, t)
      BY <2>3
    <3>2. s = t
      BY <1>2, <2>1, <3>1 DEF KeyInv, OwnersDiffer
    <3> QED BY <2>1, <3>1, <3>2
  <2> QED BY <2>2, <2>3
<1>6. OneLiveRow'
  <2> SUFFICES ASSUME NEW i \in 1..Len(rows), NEW j \in 1..Len(rows), rows[i].key = rows[j].key,
                      Live(i)', Live(j)'
               PROVE  i = j
    BY DEF OneLiveRow
  <2>1. CASE \E t \in Slots : Wakes(i, t)
    BY <1>2, <1>5, <2>1 DEF OwnRowOnly
  <2>2. CASE \E t \in Slots : Wakes(j, t)
    BY <1>2, <1>5, <2>2 DEF OwnRowOnly
  <2>3. CASE Live(i) /\ Live(j)
    BY <2>3 DEF KeyInv, OneLiveRow
  <2> QED BY <2>1, <2>2, <2>3
<1> QED BY <1>1, <1>3, <1>4, <1>5, <1>6 DEF KeyInv
-----------------------------------------------------------------------------
(***************************************************************************)
(* Steps that change neither rows nor keys.                                *)
(***************************************************************************)
\* The handler's own statements do not fail after its row is made.
HandlersFinish == Faults \cap {"error", "audit"} = {}

\* What a step must keep.
Kept == TypeInv' /\ (HandlersFinish /\ KeyInv => KeyInv')

LEMMA QuietMove ==
  ASSUME TypeInv, NEW s \in Slots, NEW x \in Request, req' = [req EXCEPT ![s] = x],
         rows' = rows, keys' = keys, policy' = policy, clock' \in Nat,
         challenges' \in Seq(ChallengeOf), Len(challenges) <= Len(challenges'),
         RequestOK(x)', x.at # "save", Owned(req[s], x),
         ~(x.at \in Early /\ req[s].at \in Late)
  PROVE  Kept
<1>1. rows \in Seq(RowOf) /\ keys \in [KeyNames -> KeyOf]
  BY DEF TypeInv, Shape
<1>2. TypeInv'
  BY <1>1, Moves DEF TypeInv
<1>3. \A t \in Slots : req'[t] = IF t = s THEN x ELSE req[t]
  BY DEF TypeInv, Shape
<1>4. \A t \in Slots : Owned(req[t], req'[t]) /\ ~(req'[t].at \in Early /\ req[t].at \in Late)
  <2>1. \A t \in Slots \ {s} : Owned(req[t], req[t]) /\ ~(req[t].at \in Early /\ req[t].at \in Late)
    BY DEF Owned, Early, Late
  <2> QED BY <1>3, <2>1
<1>5. \A i \in 1..Len(rows) : Live(i)' => Live(i)
  BY DEF Live
<1>6. ASSUME KeyInv PROVE KeyInv'
  <2>1. \A i \in 1..Len(rows), t \in Slots :
           req'[t].at \in Early /\ req[t].at \in Late /\ i = req[t].row => ~Live(i)'
    BY <1>4
  <2> QED BY <1>4, <1>5, <1>6, <2>1, KeysStay DEF TypeInv
<1> QED BY <1>2, <1>6 DEF Kept

LEMMA NoWorkOK ==
  /\ NoWork \in Request /\ RequestOK(NoWork) /\ NoWork.at = "idle"
  /\ "idle" \notin Owning \cup {"save", "issue", "claim", "mark", "rotate"}
<1>1. Off \in Policies \cup {Off} /\ 0 \in Sums /\ <<>> \in KeyNames \cup {<<>>}
  BY DEF Sums
<1>2. NoWork \in Request /\ NoWork.at = "idle"
  BY <1>1 DEF NoWork, Request, Places
<1>3. "idle" \notin Owning \cup {"save", "issue", "claim", "mark", "rotate"}
  BY DEF Owning, Early, Late
<1> QED BY <1>2, <1>3 DEF RequestOK, Owning

Untouched == rows' = rows /\ keys' = keys /\ policy' = policy /\ clock' = clock

\* The request ends up where it owns no key, with nothing but challenges changed.
LEMMA QuietOutside ==
  ASSUME TypeInv, NEW s \in Slots, NEW x \in Request, req' = [req EXCEPT ![s] = x], Untouched,
         challenges' \in Seq(ChallengeOf), Len(challenges) <= Len(challenges'),
         RequestOK(x)', x.at \notin Owning \cup {"save"}
  PROVE  Kept
<1>1. rows' = rows /\ keys' = keys /\ policy' = policy /\ clock' \in Nat
  BY DEF Untouched, TypeInv, Shape
<1>2. Owned(req[s], x) /\ ~(x.at \in Early /\ req[s].at \in Late) /\ x.at # "save"
  BY DEF Owned, Owning
<1> QED BY <1>1, <1>2, QuietMove

LEMMA SupersedeStep ==
  ASSUME TypeInv, NEW s \in Slots, SupersedeActive(s)
  PROVE  Kept
<1>1. PICK k \in Keys, a \in Amounts :
        req' = [req EXCEPT ![s] = [NoWork EXCEPT !.at = "issue", !.key = <<"portal", k>>, !.amount = a]]
  BY DEF SupersedeActive
<1> DEFINE name == <<"portal", k>>  p == "issue"
           x == [NoWork EXCEPT !.at = p, !.key = name, !.amount = a]
<1>2. name \in KeyNames /\ a \in Sums /\ p \in Places
  BY DEF KeyNames, Endpoints, Sums, Places
<1>3. p \notin Owning /\ p # "save" /\ p \notin {"mark", "rotate"}
  BY DEF Owning, Early, Late
<1> HIDE DEF name, p
<1>4. x \in Request /\ x.at = p /\ x.key = name
  BY <1>2, NoWorkOK DEF Request
<1>5. req' = [req EXCEPT ![s] = x]
  BY <1>1 DEF name, p
<1> HIDE DEF x
<1>6. challenges' \in Seq(ChallengeOf) /\ Len(challenges') = Len(challenges)
  <2> DEFINE l(c) == challenges[c].locked \/ ~challenges[c].used
             y(c) == [challenges[c] EXCEPT !.locked = l(c)]
  <2>1. challenges' = [c \in DOMAIN challenges |-> y(c)]
    BY DEF SupersedeActive
  <2>2. \A c \in DOMAIN challenges : challenges[c] \in ChallengeOf /\ l(c) \in BOOLEAN
    BY DEF TypeInv, Shape
  <2> HIDE DEF l
  <2>3. \A c \in DOMAIN challenges : y(c) \in ChallengeOf
    BY <2>2 DEF ChallengeOf
  <2> HIDE DEF y
  <2> QED BY <2>1, <2>3 DEF TypeInv, Shape
<1>7. Untouched
  BY DEF SupersedeActive, Untouched
<1>8. RequestOK(x)' /\ x.at \notin Owning \cup {"save"}
  BY <1>2, <1>3, <1>4 DEF RequestOK, Owning
<1>9. Len(challenges) <= Len(challenges')
  BY <1>6 DEF TypeInv, Shape
<1> QED BY <1>4, <1>5, <1>6, <1>7, <1>8, <1>9, QuietOutside


LEMMA CreateChallengeStep ==
  ASSUME TypeInv, NEW s \in Slots, CreateChallenge(s)
  PROVE  Kept
<1> DEFINE new == [key |-> req[s].key[2], amount |-> req[s].amount, code |-> 1, attempts |-> 0,
                   used |-> FALSE, locked |-> FALSE, expired |-> FALSE]
<1>1. /\ challenges' = Append(challenges, new) /\ req' = [req EXCEPT ![s] = NoWork]
      /\ Untouched /\ At(s, "issue")
  BY DEF CreateChallenge, Done, Untouched
<1>2. req[s] \in Request /\ req[s].key \in KeyNames
  BY <1>1 DEF TypeInv, Shape, RequestsOK, RequestOK, At
<1>3. new \in ChallengeOf
  <2>1. req[s].key[2] \in Keys /\ req[s].amount \in Sums
    BY <1>2 DEF KeyNames, Request
  <2> QED BY <2>1 DEF ChallengeOf
<1> HIDE DEF new
<1>4. challenges' \in Seq(ChallengeOf) /\ Len(challenges) <= Len(challenges')
  BY <1>1, <1>3 DEF TypeInv, Shape
<1>5. RequestOK(NoWork)' /\ NoWork.at \notin Owning \cup {"save"} /\ NoWork \in Request
  BY NoWorkOK DEF RequestOK, Owning
<1> QED BY <1>1, <1>4, <1>5, QuietOutside

LEMMA ResendStep ==
  ASSUME TypeInv, NEW s \in Slots, Resend(s)
  PROVE  Kept
<1>1. PICK c \in DOMAIN challenges : req' = [req EXCEPT ![s] = [NoWork EXCEPT !.at = "rotate", !.ch = c]]
  BY DEF Resend
<1> DEFINE p == "rotate"  x == [NoWork EXCEPT !.at = p, !.ch = c]
<1>2. Untouched /\ challenges' = challenges /\ challenges' \in Seq(ChallengeOf) /\ challenges \in Seq(ChallengeOf)
      /\ c \in 1..Len(challenges) /\ c \in Nat /\ Len(challenges) <= Len(challenges')
  BY DEF Resend, tables, Untouched, TypeInv, Shape
<1>3. p \in Places /\ p \notin Owning \cup {"save", "issue", "claim"}
  BY DEF Owning, Early, Late, Places
<1> HIDE DEF p
<1>4. x \in Request /\ x.at = p /\ x.ch = c
  BY <1>2, <1>3, NoWorkOK DEF Request
<1>5. req' = [req EXCEPT ![s] = x]
  BY <1>1 DEF p
<1> HIDE DEF x
<1>6. RequestOK(x)' /\ x.at \notin Owning \cup {"save"}
  BY <1>2, <1>3, <1>4 DEF RequestOK, Owning
<1> QED BY <1>2, <1>4, <1>5, <1>6, QuietOutside

LEMMA RotateOtpStep ==
  ASSUME TypeInv, NEW s \in Slots, RotateOtp(s)
  PROVE  Kept
<1> DEFINE c == req[s].ch  n == challenges[c].code + 1  zero == 0  no == FALSE
           y == [challenges[c] EXCEPT !.code = n, !.attempts = zero, !.expired = no]
<1>1. /\ req' = [req EXCEPT ![s] = NoWork] /\ Untouched /\ At(s, "rotate")
      /\ challenges' = [challenges EXCEPT ![c].code = n, ![c].attempts = zero, ![c].expired = no]
  BY DEF RotateOtp, Done, Untouched
<1>2. c \in 1..Len(challenges) /\ challenges \in Seq(ChallengeOf)
  BY <1>1 DEF TypeInv, Shape, RequestsOK, RequestOK, At
<1>3. challenges[c] \in ChallengeOf
  BY <1>2
<1>4. n \in Nat /\ zero \in Nat /\ no \in BOOLEAN
  BY <1>3 DEF ChallengeOf
<1> HIDE DEF n, zero, no, c
<1>5. y \in ChallengeOf
  BY <1>3, <1>4 DEF ChallengeOf
<1>6. challenges' = [challenges EXCEPT ![c] = y]
  BY <1>1, <1>2
<1> HIDE DEF y
<1>7. challenges' \in Seq(ChallengeOf) /\ Len(challenges) <= Len(challenges')
  BY <1>2, <1>5, <1>6
<1>8. RequestOK(NoWork)' /\ NoWork.at \notin Owning \cup {"save"} /\ NoWork \in Request
  BY NoWorkOK DEF RequestOK, Owning
<1> QED BY <1>1, <1>7, <1>8, QuietOutside

LEMMA VerifyStep ==
  ASSUME TypeInv, NEW s \in Slots, Verify(s)
  PROVE  Kept
<1>1. PICK c \in DOMAIN challenges, right \in BOOLEAN :
        req' = [req EXCEPT ![s] = [NoWork EXCEPT !.at = "mark", !.ch = c,
                                     !.seen = challenges[c].attempts + 1, !.right = right]]
  BY DEF Verify
<1> DEFINE p == "mark"  n == challenges[c].attempts + 1
<1>2. Untouched /\ challenges' = challenges /\ challenges' \in Seq(ChallengeOf) /\ challenges \in Seq(ChallengeOf)
      /\ c \in 1..Len(challenges) /\ c \in Nat /\ Len(challenges) <= Len(challenges')
  BY DEF Verify, tables, Untouched, TypeInv, Shape
<1>3. p \in Places /\ p \notin Owning \cup {"save", "issue", "claim"}
  BY DEF Owning, Early, Late, Places
<1>4. n \in Nat
  <2>1. challenges[c] \in ChallengeOf
    BY <1>2
  <2> QED BY <2>1 DEF ChallengeOf
<1>5. PICK m \in Nat : m = n
  BY <1>4
<1> DEFINE x == [NoWork EXCEPT !.at = p, !.ch = c, !.seen = m, !.right = right]
<1>6. req' = [req EXCEPT ![s] = x]
  BY <1>1, <1>5
<1> HIDE DEF p, n
<1>7. x \in Request /\ x.at = p /\ x.ch = c
  BY <1>2, <1>3, NoWorkOK DEF Request
<1> HIDE DEF x
<1>8. RequestOK(x)' /\ x.at \notin Owning \cup {"save"}
  BY <1>2, <1>3, <1>7 DEF RequestOK, Owning
<1> QED BY <1>2, <1>6, <1>7, <1>8, QuietOutside

\* A claim is prepared, by a code or by an API client.
LEMMA ClaimAsked ==
  ASSUME TypeInv, NEW s \in Slots, NEW name \in KeyNames, NEW a \in Sums,
         req' = [req EXCEPT ![s] = [NoWork EXCEPT !.at = "claim", !.key = name, !.amount = a]],
         Untouched, challenges' \in Seq(ChallengeOf), Len(challenges) <= Len(challenges')
  PROVE  Kept
<1> DEFINE p == "claim"  x == [NoWork EXCEPT !.at = p, !.key = name, !.amount = a]
<1>1. p \in Places /\ p \notin Owning \cup {"save", "mark", "rotate"}
  BY DEF Owning, Early, Late, Places
<1> HIDE DEF p
<1>2. x \in Request /\ x.at = p /\ x.key = name
  BY <1>1, NoWorkOK DEF Request
<1>3. req' = [req EXCEPT ![s] = x]
  BY DEF p
<1> HIDE DEF x
<1>4. RequestOK(x)' /\ x.at \notin Owning \cup {"save"}
  BY <1>1, <1>2 DEF RequestOK, Owning
<1> QED BY <1>2, <1>3, <1>4, QuietOutside

LEMMA DirectStep ==
  ASSUME TypeInv, NEW s \in Slots, Direct(s)
  PROVE  Kept
<1>1. PICK k \in Keys, a \in Amounts :
        req' = [req EXCEPT ![s] = [NoWork EXCEPT !.at = "claim", !.key = <<"api", k>>, !.amount = a]]
  BY DEF Direct
<1>2. <<"api", k>> \in KeyNames /\ a \in Sums
  BY DEF KeyNames, Endpoints, Sums
<1>3. Untouched /\ challenges' \in Seq(ChallengeOf) /\ Len(challenges) <= Len(challenges')
  BY DEF Direct, tables, Untouched, TypeInv, Shape
<1> QED BY <1>1, <1>2, <1>3, ClaimAsked

LEMMA VerifyOtpStep ==
  ASSUME TypeInv, NEW s \in Slots, VerifyOtp(s)
  PROVE  Kept
<1> DEFINE c == req[s].ch  n == req[s].seen
<1>1. Untouched /\ At(s, "mark")
  BY DEF VerifyOtp, Untouched
<1>2. c \in 1..Len(challenges) /\ challenges \in Seq(ChallengeOf) /\ n \in Nat
  <2>1. req[s] \in Request
    BY DEF TypeInv, Shape
  <2> QED BY <1>1, <2>1 DEF TypeInv, Shape, RequestsOK, RequestOK, At, Request
<1>3. challenges[c] \in ChallengeOf
  BY <1>2
<1>4. challenges[c].key \in Keys /\ challenges[c].amount \in Sums
  BY <1>3 DEF ChallengeOf
<1>5. CASE /\ challenges' = [challenges EXCEPT ![c].attempts = n, ![c].used = TRUE]
           /\ req' = [req EXCEPT ![s] = [NoWork EXCEPT !.at = "claim",
                        !.key = <<"portal", challenges[c].key>>, !.amount = challenges[c].amount]]
  <2> DEFINE yes == TRUE  y == [challenges[c] EXCEPT !.attempts = n, !.used = yes]
             name == <<"portal", challenges[c].key>>
  <2>1. name \in KeyNames /\ yes \in BOOLEAN
    BY <1>4 DEF KeyNames, Endpoints
  <2>2. challenges' = [challenges EXCEPT ![c].attempts = n, ![c].used = yes]
    BY <1>5
  <2>3. req' = [req EXCEPT ![s] = [NoWork EXCEPT !.at = "claim", !.key = name, !.amount = challenges[c].amount]]
    BY <1>5
  <2> HIDE DEF yes, n, c, name
  <2>4. y \in ChallengeOf
    BY <1>2, <1>3, <2>1 DEF ChallengeOf
  <2>5. challenges' = [challenges EXCEPT ![c] = y]
    BY <1>2, <2>2
  <2> HIDE DEF y
  <2>6. challenges' \in Seq(ChallengeOf) /\ Len(challenges) <= Len(challenges')
    BY <1>2, <2>4, <2>5
  <2> QED BY <1>1, <1>4, <2>1, <2>3, <2>6, ClaimAsked
<1>6. CASE /\ challenges' = [challenges EXCEPT ![c].attempts = n,
                                              ![c].locked = @ \/ n >= MaxAttempts]
           /\ Done(s)
  <2> DEFINE l == challenges[c].locked \/ n >= MaxAttempts
             y == [challenges[c] EXCEPT !.attempts = n, !.locked = l]
  <2>1. l \in BOOLEAN
    OBVIOUS
  <2>2. challenges' = [challenges EXCEPT ![c].attempts = n, ![c].locked = l]
    BY <1>6
  <2> HIDE DEF l, n, c
  <2>3. y \in ChallengeOf
    BY <1>2, <1>3, <2>1 DEF ChallengeOf
  <2>4. challenges' = [challenges EXCEPT ![c] = y]
    BY <1>2, <2>2
  <2> HIDE DEF y
  <2>5. challenges' \in Seq(ChallengeOf) /\ Len(challenges) <= Len(challenges')
    BY <1>2, <2>3, <2>4
  <2>6. RequestOK(NoWork)' /\ NoWork.at \notin Owning \cup {"save"} /\ NoWork \in Request
    BY NoWorkOK DEF RequestOK, Owning
  <2>7. req' = [req EXCEPT ![s] = NoWork]
    BY <1>6 DEF Done
  <2> QED BY <1>1, <2>5, <2>6, <2>7, QuietOutside
<1> QED BY <1>5, <1>6 DEF VerifyOtp
-----------------------------------------------------------------------------
(***************************************************************************)
(* Claiming and giving up a key.                                           *)
(***************************************************************************)
LEMMA MovedRequest ==
  ASSUME Shape, NEW s \in Slots, NEW p \in Places
  PROVE  LET x == [req[s] EXCEPT !.at = p] IN
         x \in Request /\ x.at = p /\ x.key = req[s].key /\ x.row = req[s].row /\ x.ch = req[s].ch
<1>1. req[s] \in Request
  BY DEF Shape
<1> QED BY <1>1 DEF Request

LEMMA ClaimKeyStep ==
  ASSUME TypeInv, NEW s \in Slots, ClaimKey(s)
  PROVE  Kept
<1> DEFINE k == req[s].key
<1>1. /\ At(s, "claim") /\ rows' = rows /\ challenges' = challenges /\ policy' = policy /\ clock' = clock
      /\ rows \in Seq(RowOf) /\ challenges \in Seq(ChallengeOf) /\ clock \in Nat
      /\ keys \in [KeyNames -> KeyOf] /\ req \in [Slots -> Request]
  BY DEF ClaimKey, TypeInv, Shape
<1>2. k \in KeyNames /\ req[s] \in Request
  BY <1>1 DEF TypeInv, RequestsOK, RequestOK, At
<1>3. CASE Done(s) /\ keys' = keys
  <2>1. RequestOK(NoWork)' /\ NoWork.at \notin Owning \cup {"save"} /\ NoWork \in Request
    BY NoWorkOK DEF RequestOK, Owning
  <2>2. Untouched /\ challenges' \in Seq(ChallengeOf) /\ Len(challenges) <= Len(challenges')
    BY <1>1, <1>3 DEF Untouched
  <2>3. req' = [req EXCEPT ![s] = NoWork]
    BY <1>3 DEF Done
  <2> QED BY <2>1, <2>2, <2>3, QuietOutside
<1> DEFINE v == [Free EXCEPT !.status = "in_progress", !.hash = req[s].amount]
           p == "gates"
<1>4. CASE keys[k].status = "free" /\ keys' = [keys EXCEPT ![k] = v] /\ To(s, p)
  <2>1. v \in KeyOf /\ v.status = "in_progress"
    BY <1>2 DEF Free, KeyOf, Request, Sums
  <2>2. p \in Places /\ p \in Early /\ p \notin Late /\ p \notin {"mark", "rotate", "save"}
    BY DEF Places, Early, Late
  <2>3. PICK x \in Request : x = [req[s] EXCEPT !.at = p] /\ x.at = p /\ x.key = k
    BY <1>1, <1>2, <2>2, MovedRequest DEF TypeInv
  <2>4. req' = [req EXCEPT ![s] = x]
    BY <1>1, <1>4, <2>3 DEF To
  <2> HIDE DEF v, p
  <2>5. TypeInv'
    <3>1. keys' \in [KeyNames -> KeyOf]
      BY <1>1, <1>2, <1>4, <2>1
    <3>2. RequestOK(x)' /\ x.at # "save"
      BY <1>2, <2>2, <2>3 DEF RequestOK, Owning
    <3>3. \A i \in 1..Len(rows) : i \in 1..Len(rows') /\ rows'[i].key = rows[i].key
      BY <1>1
    <3>4. Len(challenges) <= Len(challenges')
      BY <1>1
    <3> QED BY <1>1, <2>4, <3>1, <3>2, <3>3, <3>4, Moves DEF TypeInv
  <2>6. ASSUME KeyInv PROVE KeyInv'
    <3>1. /\ req'[s] = x /\ \A t \in Slots \ {s} : req'[t] = req[t]
          /\ keys'[k] = v /\ \A m \in KeyNames \ {k} : keys'[m] = keys[m]
      BY <1>1, <1>2, <1>4, <2>4
    <3>2. \A t \in Slots \ {s} : req[t].at \in Owning => req[t].key \in KeyNames \ {k}
      BY <1>4, <2>6 DEF KeyInv, OwnersClaimed, TypeInv, RequestsOK, RequestOK
    <3>0. x.key = k /\ x.at \in Early /\ x.at \notin Late
      BY <2>2, <2>3
    <3> HIDE DEF k
    <3>3. OwnersClaimed'
      BY <2>1, <2>6, <3>0, <3>1, <3>2 DEF KeyInv, OwnersClaimed
    <3>4. OwnersDiffer'
      BY <2>6, <3>0, <3>1, <3>2 DEF KeyInv, OwnersDiffer
    <3>5. FreeKeysUnused'
      <4>1. \A i \in 1..Len(rows) : rows[i].key \in KeyNames
        <5>1. \A i \in 1..Len(rows) : rows[i] \in RowOf
          BY <1>1
        <5> QED BY <5>1 DEF RowOf
      <4> QED BY <1>1, <2>1, <2>6, <3>1, <4>1 DEF KeyInv, FreeKeysUnused, Live
    <3>6. \A i \in 1..Len(rows) : rows[i].key = k => ~Live(i)
      BY <1>4, <2>6 DEF KeyInv, FreeKeysUnused
    <3>7. NoRowYet'
      BY <1>1, <2>6, <3>0, <3>1, <3>6 DEF KeyInv, NoRowYet, Live
    <3>8. OwnRowOnly'
      BY <1>1, <2>6, <3>0, <3>1 DEF KeyInv, OwnRowOnly, Live
    <3>9. OneLiveRow'
      BY <1>1, <2>6 DEF KeyInv, OneLiveRow, Live
    <3> QED BY <3>3, <3>4, <3>5, <3>7, <3>8, <3>9 DEF KeyInv
  <2> QED BY <2>5, <2>6 DEF Kept
<1> QED BY <1>3, <1>4 DEF ClaimKey

\* The handler ends: its key is free again, or completed.
LEMMA KeyGivenUp ==
  ASSUME TypeInv, NEW s \in Slots, NEW v \in KeyOf,
         req[s].at \in Owning, v.status = "free" => req[s].at \in Early,
         keys' = [keys EXCEPT ![req[s].key] = v], req' = [req EXCEPT ![s] = NoWork],
         rows' = rows, challenges' = challenges, policy' = policy, clock' = clock
  PROVE  Kept
<1> DEFINE k == req[s].key
<1>1. /\ rows \in Seq(RowOf) /\ challenges \in Seq(ChallengeOf) /\ clock \in Nat
      /\ keys \in [KeyNames -> KeyOf] /\ req \in [Slots -> Request] /\ k \in KeyNames
  BY DEF TypeInv, Shape, RequestsOK, RequestOK
<1>2. NoWork \in Request /\ RequestOK(NoWork)' /\ NoWork.at \notin Owning \cup {"save"}
  BY NoWorkOK DEF RequestOK, Owning
<1>3. TypeInv'
  <2>1. keys' \in [KeyNames -> KeyOf]
    BY <1>1
  <2>2. \A i \in 1..Len(rows) : i \in 1..Len(rows') /\ rows'[i].key = rows[i].key
    BY <1>1
  <2>3. Len(challenges) <= Len(challenges') /\ NoWork.at # "save"
    BY <1>1, <1>2
  <2> QED BY <1>1, <1>2, <2>1, <2>2, <2>3, Moves DEF TypeInv
<1>4. ASSUME KeyInv PROVE KeyInv'
  <2>1. /\ req'[s] = NoWork /\ \A t \in Slots \ {s} : req'[t] = req[t]
        /\ keys'[k] = v /\ \A m \in KeyNames \ {k} : keys'[m] = keys[m]
    BY <1>1
  <2>2. \A t \in Slots : req'[t].at \in Owning => req'[t] = req[t] /\ req[t].key \in KeyNames \ {k}
    BY <1>2, <1>4, <2>1 DEF KeyInv, OwnersDiffer, TypeInv, RequestsOK, RequestOK
  <2> HIDE DEF k
  <2>3. OwnersClaimed' /\ OwnersDiffer'
    BY <1>4, <2>1, <2>2 DEF KeyInv, OwnersClaimed, OwnersDiffer
  <2>4. FreeKeysUnused'
    <3> SUFFICES ASSUME NEW i \in 1..Len(rows), Live(i) PROVE keys'[rows[i].key].status # "free"
      BY DEF FreeKeysUnused, Live
    <3>1. rows[i].key \in KeyNames
      <4>1. rows[i] \in RowOf
        BY <1>1
      <4> QED BY <4>1 DEF RowOf
    <3>2. keys[rows[i].key].status # "free"
      BY <1>4 DEF KeyInv, FreeKeysUnused
    <3>3. CASE rows[i].key = k
      BY <1>4, <2>1, <3>3 DEF KeyInv, NoRowYet, k
    <3> QED BY <2>1, <3>1, <3>2, <3>3
  <2>5. NoRowYet' /\ OwnRowOnly'
    BY <1>4, <2>2 DEF KeyInv, NoRowYet, OwnRowOnly, Owning, Live
  <2>6. OneLiveRow'
    BY <1>4 DEF KeyInv, OneLiveRow, Live
  <2> QED BY <2>3, <2>4, <2>5, <2>6 DEF KeyInv
<1> QED BY <1>3, <1>4 DEF Kept

LEMMA ReleaseKeyStep ==
  ASSUME TypeInv, NEW s \in Slots, ReleaseKey(s)
  PROVE  Kept
<1>1. Free \in KeyOf /\ "release" \in Owning /\ "release" \in Early
  BY DEF Free, KeyOf, Sums, Owning, Early
<1>2. /\ req[s].at = "release" /\ keys' = [keys EXCEPT ![req[s].key] = Free]
      /\ req' = [req EXCEPT ![s] = NoWork]
      /\ rows' = rows /\ challenges' = challenges /\ policy' = policy /\ clock' = clock
  BY DEF ReleaseKey, At, Done
<1> QED BY <1>1, <1>2, KeyGivenUp

LEMMA CompleteKeyStep ==
  ASSUME TypeInv, NEW s \in Slots, CompleteKey(s)
  PROVE  Kept
<1> DEFINE k == req[s].key  n == req[s].row  done == "completed"
           v == [keys[k] EXCEPT !.status = done, !.row = n]
<1>1. /\ req[s].at = "complete" /\ keys' = [keys EXCEPT ![k].status = done, ![k].row = n]
      /\ req' = [req EXCEPT ![s] = NoWork]
      /\ rows' = rows /\ challenges' = challenges /\ policy' = policy /\ clock' = clock
  BY DEF CompleteKey, At, Done
<1>2. "complete" \in Owning /\ done # "free"
  BY DEF Owning, Late
<1>3. k \in KeyNames /\ keys \in [KeyNames -> KeyOf] /\ n \in Nat
  <2>1. req[s] \in Request
    BY DEF TypeInv, Shape
  <2>2. n \in Nat
    BY <2>1 DEF Request
  <2> QED BY <1>1, <1>2, <2>2 DEF TypeInv, Shape, RequestsOK, RequestOK
<1>4. keys[k] \in KeyOf /\ done \in {"free", "in_progress", "completed"}
  BY <1>3
<1> HIDE DEF n, done, k
<1>5. v \in KeyOf /\ v.status = done
  BY <1>3, <1>4 DEF KeyOf
<1>6. keys' = [keys EXCEPT ![k] = v]
  BY <1>1, <1>3
<1> HIDE DEF v
<1> QED BY <1>1, <1>2, <1>5, <1>6, KeyGivenUp DEF k
-----------------------------------------------------------------------------
(***************************************************************************)
(* The handler between claim and end.                                      *)
(***************************************************************************)
\* The request moves on with what it has; its row may change, but not its key.
LEMMA HandlerMove ==
  ASSUME TypeInv, NEW s \in Slots, NEW x \in Request, req' = [req EXCEPT ![s] = x],
         req[s].at \in Owning, x.at \in Owning, x.key = req[s].key, x.row = req[s].row,
         x.at \in Late => req[s].at \in Late,
         keys' = keys, challenges' = challenges, policy' = policy, clock' \in Nat,
         rows' \in Seq(RowOf), Len(rows') = Len(rows),
         \A i \in 1..Len(rows) : rows'[i].key = rows[i].key,
         \A i \in 1..Len(rows) : Live(i)' => Live(i) \/ (x.at \in Late /\ i = req[s].row),
         \A i \in 1..Len(rows) :
           HandlersFinish /\ x.at \in Early /\ req[s].at \in Late /\ i = req[s].row => ~Live(i)'
  PROVE  Kept
<1>1. /\ challenges \in Seq(ChallengeOf) /\ keys \in [KeyNames -> KeyOf] /\ req \in [Slots -> Request]
  BY DEF TypeInv, Shape
<1>2. req'[s] = x /\ \A t \in Slots \ {s} : req'[t] = req[t]
  BY <1>1
<1>3. x.at \notin {"save", "mark", "rotate", "issue", "claim"}
  BY DEF Owning, Early, Late
<1>4. TypeInv'
  <2>1. \A i \in 1..Len(rows) : i \in 1..Len(rows') /\ rows'[i].key = rows[i].key
    OBVIOUS
  <2>2. RequestOK(x)' /\ x.at # "save"
    BY <1>3 DEF TypeInv, RequestsOK, RequestOK, Owning
  <2>3. keys' \in [KeyNames -> KeyOf] /\ challenges' \in Seq(ChallengeOf)
        /\ Len(challenges) <= Len(challenges')
    BY <1>1
  <2> QED BY <2>1, <2>2, <2>3, Moves DEF TypeInv
<1>5. ASSUME HandlersFinish, KeyInv PROVE KeyInv'
  <2>1. \A t \in Slots : Owned(req[t], req'[t])
    BY <1>2 DEF Owned
  <2>2. \A i \in 1..Len(rows) : Live(i)' => Live(i) \/ \E t \in Slots : req'[t].at \in Late /\ i = req[t].row
    BY <1>2
  <2>3. \A t \in Slots : req'[t].at \in Early /\ req[t].at \in Late => t = s
    BY <1>2 DEF Early, Late
  <2>4. \A i \in 1..Len(rows), t \in Slots :
          req'[t].at \in Early /\ req[t].at \in Late /\ i = req[t].row => ~Live(i)'
    BY <1>2, <1>5, <2>3
  <2> QED BY <1>5, <2>1, <2>2, <2>4, KeysStay DEF TypeInv
<1> QED BY <1>4, <1>5 DEF Kept

LEMMA GatesStep ==
  ASSUME TypeInv, NEW s \in Slots, Gates(s)
  PROVE  Kept
<1>1. /\ req[s].at = "gates" /\ rows' = rows /\ challenges' = challenges /\ keys' = keys
      /\ policy' = policy
      /\ rows \in Seq(RowOf) /\ clock \in Nat /\ req \in [Slots -> Request]
  BY DEF Gates, At, tables, TypeInv, Shape
<1>2. /\ {"gates", "insert", "release"} \subseteq Owning /\ {"insert", "release"} \subseteq Places
      /\ {"gates", "insert", "release"} \cap Late = {}
  BY DEF Owning, Early, Late, Places
<1>3. \A i \in 1..Len(rows) : rows'[i].key = rows[i].key /\ (Live(i)' => Live(i))
  BY <1>1 DEF Live
<1>4. rows' \in Seq(RowOf) /\ Len(rows') = Len(rows)
  BY <1>1
<1>5. ASSUME NEW x \in Request, req' = [req EXCEPT ![s] = x], x.at \in {"insert", "release"},
             x.key = req[s].key, x.row = req[s].row, clock' \in Nat
      PROVE  Kept
  <2>1. x.at \in Owning /\ x.at \notin Late /\ req[s].at \in Owning /\ req[s].at \notin Late
    BY <1>1, <1>2, <1>5
  <2> QED BY <1>1, <1>3, <1>4, <1>5, <2>1, HandlerMove
<1>6. CASE clock' = clock + 1 /\ req' = [req EXCEPT ![s].at = "insert", ![s].stamp = clock + 1]
  <2> DEFINE p == "insert"  n == clock + 1
  <2>1. p \in Places /\ n \in Nat /\ p \in {"insert", "release"} /\ clock' \in Nat
    BY <1>1, <1>2, <1>6
  <2>2. req' = [req EXCEPT ![s].at = p, ![s].stamp = n]
    BY <1>6
  <2> HIDE DEF p, n
  <2>3. req[s] \in Request
    BY <1>1
  <2>4. PICK x \in Request : x = [req[s] EXCEPT !.at = p, !.stamp = n]
    BY <2>1, <2>3 DEF Request
  <2>5. x.at = p /\ x.key = req[s].key /\ x.row = req[s].row
    BY <2>3, <2>4 DEF Request
  <2>6. req' = [req EXCEPT ![s] = x]
    BY <1>1, <2>2, <2>4
  <2> QED BY <1>5, <2>1, <2>5, <2>6
<1>7. CASE To(s, "release") /\ clock' = clock
  <2> DEFINE p == "release"
  <2>1. p \in Places /\ p \in {"insert", "release"} /\ clock' \in Nat
    BY <1>1, <1>2, <1>7
  <2>2. req' = [req EXCEPT ![s].at = p]
    BY <1>7 DEF To
  <2> HIDE DEF p
  <2>3. PICK x \in Request : /\ x = [req[s] EXCEPT !.at = p]
                             /\ x.at = p /\ x.key = req[s].key /\ x.row = req[s].row
    BY <2>1, MovedRequest DEF TypeInv
  <2>4. req' = [req EXCEPT ![s] = x]
    BY <1>1, <2>2, <2>3
  <2> QED BY <1>5, <2>1, <2>3, <2>4
<1> QED BY <1>6, <1>7 DEF Gates

\* One row is edited.
LEMMA RowEdit ==
  ASSUME rows \in Seq(RowOf), NEW i \in 1..Len(rows), NEW y \in RowOf, y.key = rows[i].key,
         rows' = [rows EXCEPT ![i] = y]
  PROVE  /\ rows' \in Seq(RowOf) /\ Len(rows') = Len(rows)
         /\ \A j \in 1..Len(rows) : rows'[j].key = rows[j].key
         /\ \A j \in 1..Len(rows) : j # i => (Live(j)' <=> Live(j))
         /\ \A j \in 1..Len(rows) : j = i => (Live(j)' <=> y.status \notin {"rejected", "failed"})
<1>1. rows' \in Seq(RowOf) /\ Len(rows') = Len(rows)
      /\ rows'[i] = y /\ \A j \in 1..Len(rows) : j # i => rows'[j] = rows[j]
  OBVIOUS
<1> QED BY <1>1 DEF Live

LEMMA FinalizeStep ==
  ASSUME TypeInv, NEW s \in Slots, FinalizeWithdrawalLimits(s)
  PROVE  Kept
<1> DEFINE i == req[s].row
<1>0. PICK o \in {Outcome(i)} \cup ({"error"} \cap Faults) :
        /\ rows' = [rows EXCEPT ![i].decided = o # "error", ![i].auto = o = "auto",
                                ![i].status = IF o = "rejected" THEN "rejected" ELSE @]
        /\ To(s, CASE o = "auto" -> "pay" [] o = "manual" -> "audit" [] OTHER -> "release")
  BY DEF FinalizeWithdrawalLimits
<1> DEFINE d == o # "error"  au == o = "auto"
           st == IF o = "rejected" THEN "rejected" ELSE rows[i].status
           p == CASE o = "auto" -> "pay" [] o = "manual" -> "audit" [] OTHER -> "release"
           y == [rows[i] EXCEPT !.decided = d, !.auto = au, !.status = st]
<1>1. /\ req[s].at = "finalize" /\ challenges' = challenges /\ keys' = keys
      /\ policy' = policy /\ clock' = clock
      /\ rows \in Seq(RowOf) /\ clock \in Nat /\ req \in [Slots -> Request]
  BY DEF FinalizeWithdrawalLimits, At, TypeInv, Shape
<1>2. /\ {"finalize", "pay", "audit", "release"} \subseteq Owning
      /\ {"pay", "audit", "release"} \subseteq Places
      /\ {"finalize", "pay", "audit"} \subseteq Late /\ "release" \notin Late
      /\ "pay" \notin Early /\ "audit" \notin Early
  BY DEF Owning, Early, Late, Places
<1>3. p \in {"pay", "audit", "release"} /\ (p = "release" => o \notin {"auto", "manual"})
  OBVIOUS
<1>4. i \in 1..Len(rows) /\ rows[i] \in RowOf
  BY <1>1, <1>2 DEF TypeInv, RequestsOK, RequestOK
<1>5. d \in BOOLEAN /\ au \in BOOLEAN
  OBVIOUS
<1>6. st \in {"pending", "paying", "failed", "rejected"}
      /\ (st \notin {"rejected", "failed"} => rows[i].status \notin {"rejected", "failed"})
  BY <1>4 DEF RowOf
<1>7. HandlersFinish => o \in {"auto", "manual", "rejected"}
  BY DEF HandlersFinish, Outcome
<1>8. o = "rejected" => st = "rejected"
  OBVIOUS
<1>9. To(s, p) /\ rows' = [rows EXCEPT ![i].decided = d, ![i].auto = au, ![i].status = st]
  BY <1>0
<1> HIDE DEF d, au, st, p
<1>10. y \in RowOf /\ y.key = rows[i].key /\ y.status = st
  BY <1>4, <1>5, <1>6 DEF RowOf
<1>11. rows' = [rows EXCEPT ![i] = y]
  BY <1>1, <1>4, <1>9
<1> HIDE DEF y
<1> HIDE DEF i
<1>12. /\ rows' \in Seq(RowOf) /\ Len(rows') = Len(rows)
       /\ \A j \in 1..Len(rows) : rows'[j].key = rows[j].key
       /\ \A j \in 1..Len(rows) : j # i => (Live(j)' <=> Live(j))
       /\ \A j \in 1..Len(rows) : j = i => (Live(j)' <=> y.status \notin {"rejected", "failed"})
  BY <1>1, <1>4, <1>10, <1>11, RowEdit
<1>13. PICK x \in Request : /\ x = [req[s] EXCEPT !.at = p]
                            /\ x.at = p /\ x.key = req[s].key /\ x.row = req[s].row
  <2>1. p \in Places
    BY <1>2, <1>3
  <2> QED BY <2>1, MovedRequest DEF TypeInv
<1>14. req' = [req EXCEPT ![s] = x]
  BY <1>1, <1>9, <1>13 DEF To
<1>15. \A j \in 1..Len(rows) : Live(j)' => Live(j)
  BY <1>6, <1>10, <1>12 DEF Live
<1>16. ASSUME NEW j \in 1..Len(rows), HandlersFinish, x.at \in Early, j = req[s].row PROVE ~Live(j)'
  <2>1. o = "rejected"
    BY <1>2, <1>3, <1>7, <1>13, <1>16
  <2> QED BY <1>8, <1>10, <1>12, <1>16, <2>1 DEF i
<1>17. x.at \in Owning /\ req[s].at \in Owning /\ req[s].at \in Late
  BY <1>1, <1>2, <1>3, <1>13
<1> QED BY <1>1, <1>12, <1>13, <1>14, <1>15, <1>16, <1>17, HandlerMove

LEMMA AutoPayStep ==
  ASSUME TypeInv, NEW s \in Slots, AutoPay(s)
  PROVE  Kept
<1> DEFINE i == req[s].row
<1>1. /\ req[s].at = "pay" /\ challenges' = challenges /\ keys' = keys
      /\ policy' = policy /\ clock' = clock
      /\ rows \in Seq(RowOf) /\ clock \in Nat /\ req \in [Slots -> Request]
  BY DEF AutoPay, At, TypeInv, Shape
<1> DEFINE p == "audit"
<1>2. /\ req[s].at \in Owning /\ p \in Owning /\ p \in Places /\ p \notin Early /\ p \in Late
      /\ req[s].at \in Late
  BY <1>1 DEF Owning, Early, Late, Places
<1>3. i \in 1..Len(rows) /\ rows[i] \in RowOf
  BY <1>1, <1>2 DEF TypeInv, RequestsOK, RequestOK
<1>4. req' = [req EXCEPT ![s].at = p]
  BY DEF AutoPay, To
<1> HIDE DEF p
<1> HIDE DEF i
<1>5. PICK y \in RowOf : y.key = rows[i].key /\ rows' = [rows EXCEPT ![i] = y]
  <2>1. CASE rows' = [rows EXCEPT ![i].auto = FALSE]
    <3> DEFINE no == FALSE  y == [rows[i] EXCEPT !.auto = no]
    <3>1. no \in BOOLEAN /\ rows' = [rows EXCEPT ![i].auto = no]
      BY <2>1
    <3> HIDE DEF no
    <3>2. y \in RowOf /\ y.key = rows[i].key
      BY <1>3, <3>1 DEF RowOf
    <3>3. rows' = [rows EXCEPT ![i] = y]
      BY <1>1, <1>3, <3>1
    <3> QED BY <3>2, <3>3
  <2>2. ASSUME NEW st \in {"paying", "failed"}, rows' = [rows EXCEPT ![i].status = st]
        PROVE  \E y \in RowOf : y.key = rows[i].key /\ rows' = [rows EXCEPT ![i] = y]
    <3> DEFINE y == [rows[i] EXCEPT !.status = st]
    <3>1. st \in {"pending", "paying", "failed", "rejected"}
      OBVIOUS
    <3>2. y \in RowOf /\ y.key = rows[i].key
      BY <1>3, <3>1 DEF RowOf
    <3>3. rows' = [rows EXCEPT ![i] = y]
      BY <1>1, <1>3, <2>2
    <3> QED BY <3>2, <3>3
  <2> QED BY <2>1, <2>2 DEF AutoPay, i
<1>6. /\ rows' \in Seq(RowOf) /\ Len(rows') = Len(rows)
      /\ \A j \in 1..Len(rows) : rows'[j].key = rows[j].key
      /\ \A j \in 1..Len(rows) : j # i => (Live(j)' <=> Live(j))
  BY <1>1, <1>3, <1>5, RowEdit
<1>7. PICK x \in Request : /\ x = [req[s] EXCEPT !.at = p]
                           /\ x.at = p /\ x.key = req[s].key /\ x.row = req[s].row
  BY <1>2, MovedRequest DEF TypeInv
<1>8. req' = [req EXCEPT ![s] = x]
  BY <1>1, <1>4, <1>7
<1>9. x.at \in Owning /\ x.at \notin Early /\ x.at \in Late
  BY <1>2, <1>7
<1>10. \A j \in 1..Len(rows) : Live(j)' => Live(j) \/ (x.at \in Late /\ j = req[s].row)
  BY <1>6, <1>9 DEF i
<1>11. clock' \in Nat
  BY <1>1
<1> QED BY <1>1, <1>2, <1>6, <1>7, <1>8, <1>9, <1>10, <1>11, HandlerMove

LEMMA WriteAuditStep ==
  ASSUME TypeInv, NEW s \in Slots, WriteAudit(s)
  PROVE  Kept
<1>1. /\ req[s].at = "audit" /\ rows' = rows /\ challenges' = challenges /\ keys' = keys
      /\ policy' = policy /\ clock' = clock
      /\ rows \in Seq(RowOf) /\ clock \in Nat /\ req \in [Slots -> Request]
  BY DEF WriteAudit, At, tables, TypeInv, Shape
<1>2. PICK p \in {"complete", "release"} : To(s, p) /\ (HandlersFinish => p = "complete")
  <2>1. PICK ok \in {TRUE} \cup {f # "audit" : f \in Faults} : To(s, IF ok THEN "complete" ELSE "release")
    BY DEF WriteAudit
  <2>2. HandlersFinish => ok
    BY DEF HandlersFinish
  <2>3. CASE ok
    BY <2>1, <2>3
  <2>4. CASE ~ok
    BY <2>1, <2>2, <2>4
  <2> QED BY <2>3, <2>4
<1>3. /\ p \in Owning /\ p \in Places /\ req[s].at \in Owning /\ req[s].at \in Late
      /\ (HandlersFinish => p \notin Early)
  BY <1>1, <1>2 DEF Owning, Early, Late, Places
<1>4. PICK x \in Request : /\ x = [req[s] EXCEPT !.at = p]
                           /\ x.at = p /\ x.key = req[s].key /\ x.row = req[s].row
  BY <1>3, MovedRequest DEF TypeInv
<1>5. req' = [req EXCEPT ![s] = x]
  BY <1>1, <1>2, <1>4 DEF To
<1>6. \A j \in 1..Len(rows) : rows'[j].key = rows[j].key /\ (Live(j)' => Live(j))
  BY <1>1 DEF Live
<1>7. rows' \in Seq(RowOf) /\ Len(rows') = Len(rows) /\ clock' \in Nat
  BY <1>1
<1>8. x.at \in Owning /\ (HandlersFinish => x.at \notin Early)
  BY <1>3, <1>4
<1> QED BY <1>1, <1>3, <1>4, <1>5, <1>6, <1>7, <1>8, HandlerMove

\* The row of a request is the only live one of its key.
LEMMA InsertRowStep ==
  ASSUME TypeInv, NEW s \in Slots, InsertRow(s)
  PROVE  Kept
<1> DEFINE k == req[s].key  n == Len(rows)  p == "finalize"
           new == [key |-> req[s].key, amount |-> req[s].amount, at |-> req[s].stamp,
                   recent |-> TRUE, status |-> "pending", auto |-> FALSE, decided |-> FALSE]
<1>1. /\ req[s].at = "insert" /\ challenges' = challenges /\ keys' = keys
      /\ policy' = policy /\ clock' = clock /\ rows' = Append(rows, new)
      /\ req' = [req EXCEPT ![s].at = p, ![s].row = n + 1]
      /\ rows \in Seq(RowOf) /\ challenges \in Seq(ChallengeOf) /\ clock \in Nat
      /\ keys \in [KeyNames -> KeyOf] /\ req \in [Slots -> Request]
  BY DEF InsertRow, At, TypeInv, Shape
<1>2. /\ req[s].at \in Owning /\ req[s].at \in Early /\ p \in Places /\ p \in Owning
      /\ p \notin Early /\ p \in Late /\ p \notin {"mark", "rotate", "save"}
  BY <1>1 DEF Owning, Early, Late, Places
<1>3. req[s] \in Request /\ k \in KeyNames
  BY <1>1, <1>2 DEF TypeInv, RequestsOK, RequestOK
<1>4. new \in RowOf /\ new.key = k
  BY <1>3 DEF RowOf, Request
<1>5. n \in Nat /\ n + 1 \in Nat
  BY <1>1
<1> HIDE DEF p, new
<1>6. /\ rows' \in Seq(RowOf) /\ Len(rows') = n + 1 /\ rows'[n + 1] = new
      /\ \A i \in 1..n : rows'[i] = rows[i]
  BY <1>1, <1>4
<1> HIDE DEF n
<1>7. PICK x \in Request : x = [req[s] EXCEPT !.at = p, !.row = n + 1]
  BY <1>2, <1>3, <1>5 DEF Request
<1>8. x.at = p /\ x.key = k /\ x.row = n + 1
  BY <1>3, <1>7 DEF Request
<1>9. req' = [req EXCEPT ![s] = x]
  BY <1>1, <1>7
<1>10. TypeInv'
  <2>1. RequestOK(x)' /\ x.at # "save"
    BY <1>2, <1>3, <1>4, <1>5, <1>6, <1>8 DEF RequestOK
  <2>2. \A i \in 1..Len(rows) : i \in 1..Len(rows') /\ rows'[i].key = rows[i].key
    BY <1>5, <1>6 DEF n
  <2>3. challenges' \in Seq(ChallengeOf) /\ Len(challenges) <= Len(challenges')
        /\ keys' \in [KeyNames -> KeyOf] /\ clock' \in Nat
    BY <1>1
  <2> QED BY <1>1, <1>6, <1>9, <2>1, <2>2, <2>3, Moves DEF TypeInv
<1>11. ASSUME KeyInv PROVE KeyInv'
  <2>1. req'[s] = x /\ \A t \in Slots \ {s} : req'[t] = req[t]
    BY <1>1, <1>9
  <2>2. \A t \in Slots \ {s} : req[t].at \in Owning => req[t].key # k
    BY <1>2, <1>11 DEF KeyInv, OwnersDiffer
  <2>3. \A i \in 1..n : rows[i].key = k => ~Live(i)
    BY <1>2, <1>11 DEF KeyInv, NoRowYet, n
  <2>4. \A i \in 1..n + 1 : i \in 1..n \/ i = n + 1
    BY <1>5
  <2>5. \A i \in 1..n : rows'[i].key = rows[i].key /\ (Live(i)' <=> Live(i))
    BY <1>6 DEF Live
  <2>6. rows'[n + 1].key = k /\ keys[k].status = "in_progress"
    BY <1>2, <1>4, <1>6, <1>11 DEF KeyInv, OwnersClaimed
  <2>7. Len(rows') = n + 1 /\ Len(rows) = n
    BY <1>6 DEF n
  <2> HIDE DEF k
  <2>8. OwnersClaimed'
    BY <1>1, <1>8, <1>11, <2>1, <2>6 DEF KeyInv, OwnersClaimed
  <2>9. OwnersDiffer'
    BY <1>8, <2>1, <2>2, <1>11 DEF KeyInv, OwnersDiffer
  <2>10. FreeKeysUnused'
    BY <1>1, <1>11, <2>4, <2>5, <2>6, <2>7 DEF KeyInv, FreeKeysUnused
  <2>11. NoRowYet'
    BY <1>2, <1>8, <1>11, <2>1, <2>2, <2>4, <2>5, <2>6, <2>7 DEF KeyInv, NoRowYet, Owning
  <2>12. OwnRowOnly'
    BY <1>8, <1>11, <2>1, <2>2, <2>3, <2>4, <2>5, <2>6, <2>7 DEF KeyInv, OwnRowOnly, Owning
  <2>13. OneLiveRow'
    BY <1>11, <2>3, <2>4, <2>5, <2>6, <2>7 DEF KeyInv, OneLiveRow
  <2> QED BY <2>8, <2>9, <2>10, <2>11, <2>12, <2>13 DEF KeyInv
<1> QED BY <1>10, <1>11 DEF Kept
-----------------------------------------------------------------------------
(***************************************************************************)
(* The policy, and what happens around the requests.                       *)
(***************************************************************************)
\* The requests change, but none that owns a key; rows may die, codes may lapse.
LEMMA KeysUntouched ==
  ASSUME TypeInv, keys' = keys, rows' \in Seq(RowOf), Len(rows') = Len(rows),
         \A i \in 1..Len(rows) : rows'[i].key = rows[i].key /\ (Live(i)' => Live(i)),
         \A t \in Slots : req'[t] = req[t] \/ req'[t].at \notin Owning
  PROVE  HandlersFinish /\ KeyInv => KeyInv'
<1> SUFFICES ASSUME KeyInv PROVE KeyInv'
  OBVIOUS
<1>1. \A t \in Slots : Owned(req[t], req'[t])
  BY DEF Owned, Owning
<1>2. \A t \in Slots : ~(req'[t].at \in Early /\ req[t].at \in Late)
  BY DEF Owning, Early, Late
<1> QED BY <1>1, <1>2, KeysStay DEF TypeInv

LEMMA EditPolicyStep ==
  ASSUME TypeInv, NEW s \in Slots, EditPolicy(s)
  PROVE  Kept
<1>1. PICK q \in Policies, v \in 0..policy.version, sure \in BOOLEAN :
        /\ Widens(policy, q) => sure
        /\ req' = [req EXCEPT ![s] = [NoWork EXCEPT !.at = "save", !.wish = q, !.ver = v, !.sure = sure]]
  BY DEF EditPolicy
<1>2. /\ rows' = rows /\ keys' = keys /\ challenges' = challenges /\ policy' = policy
      /\ clock' = clock /\ policy.version \in Nat /\ req \in [Slots -> Request] /\ rows \in Seq(RowOf)
  BY DEF EditPolicy, tables, TypeInv, Shape
<1> DEFINE p == "save"
           x == [NoWork EXCEPT !.at = p, !.wish = q, !.ver = v, !.sure = sure]
<1>3. p \in Places /\ p \notin Owning \cup {"issue", "claim", "mark", "rotate"} /\ v \in Nat
  BY <1>2 DEF Places, Owning, Early, Late
<1>4. req' = [req EXCEPT ![s] = x]
  BY <1>1
<1> HIDE DEF p
<1>5. x \in Request
  BY <1>3, NoWorkOK DEF Request
<1>6. x.at = p /\ x.wish = q /\ x.ver = v /\ x.sure = sure
  BY NoWorkOK DEF Request
<1> HIDE DEF x
<1>7. req' \in [Slots -> Request] /\ req'[s] = x /\ \A t \in Slots \ {s} : req'[t] = req[t]
  BY <1>2, <1>4, <1>5
<1>8. Shape'
  BY <1>2, <1>7 DEF TypeInv, Shape
<1>9. RequestsOK'
  <2>1. RequestOK(x)
    BY <1>3, <1>6 DEF RequestOK, Owning
  <2> QED BY <1>2, <1>7, <2>1 DEF TypeInv, RequestsOK, RequestOK
<1>10. ChangesOK'
  <2>1. ChangeOK(x)
    BY <1>1, <1>6 DEF ChangeOK
  <2> QED BY <1>2, <1>7, <2>1 DEF TypeInv, ChangesOK, ChangeOK
<1>11. HandlersFinish /\ KeyInv => KeyInv'
  <2>1. \A i \in 1..Len(rows) : rows'[i].key = rows[i].key /\ (Live(i)' => Live(i))
    BY <1>2 DEF Live
  <2>2. \A t \in Slots : req'[t] = req[t] \/ req'[t].at \notin Owning
    BY <1>3, <1>6, <1>7
  <2> QED BY <1>2, <2>1, <2>2, KeysUntouched
<1> QED BY <1>8, <1>9, <1>10, <1>11 DEF Kept, TypeInv

LEMMA UpdatePolicyStep ==
  ASSUME TypeInv, NEW s \in Slots, UpdatePolicy(s)
  PROVE  Kept
<1>1. /\ rows' = rows /\ keys' = keys /\ challenges' = challenges /\ clock' = clock
      /\ policy.version \in Nat /\ req \in [Slots -> Request] /\ rows \in Seq(RowOf)
      /\ req' = [req EXCEPT ![s] = NoWork]
  BY DEF UpdatePolicy, Done, TypeInv, Shape
<1>2. policy' = policy \/ policy'.version = policy.version + 1
  BY DEF UpdatePolicy
<1>3. req' \in [Slots -> Request] /\ req'[s] = NoWork /\ \A t \in Slots \ {s} : req'[t] = req[t]
  BY <1>1, NoWorkOK
<1>4. Shape'
  BY <1>1, <1>2, <1>3 DEF TypeInv, Shape
<1>5. RequestsOK'
  BY <1>1, <1>3, NoWorkOK DEF TypeInv, RequestsOK, RequestOK
<1>6. ChangesOK'
  <2> SUFFICES ASSUME NEW t \in Slots \ {s} PROVE ChangeOK(req[t])'
    BY <1>3, NoWorkOK DEF ChangesOK, ChangeOK
  <2>1. ChangeOK(req[t]) /\ req'[t] = req[t]
    BY <1>3 DEF TypeInv, ChangesOK
  <2>2. CASE policy' = policy
    BY <2>1, <2>2 DEF ChangeOK
  <2>3. CASE policy'.version = policy.version + 1
    BY <1>1, <2>1, <2>3 DEF ChangeOK
  <2> QED BY <1>2, <2>2, <2>3
<1>7. HandlersFinish /\ KeyInv => KeyInv'
  <2>1. \A i \in 1..Len(rows) : rows'[i].key = rows[i].key /\ (Live(i)' => Live(i))
    BY <1>1 DEF Live
  <2>2. \A t \in Slots : req'[t] = req[t] \/ req'[t].at \notin Owning
    BY <1>3, NoWorkOK
  <2> QED BY <1>1, <2>1, <2>2, KeysUntouched
<1> QED BY <1>4, <1>5, <1>6, <1>7 DEF Kept, TypeInv
\* What happens around the requests changes a row or a code in place.
LEMMA AroundMove ==
  ASSUME TypeInv, req' = req, keys' = keys, policy' = policy, clock' = clock,
         rows' \in Seq(RowOf), Len(rows') = Len(rows),
         \A j \in 1..Len(rows) : rows'[j].key = rows[j].key /\ (Live(j)' => Live(j)),
         challenges' \in Seq(ChallengeOf), Len(challenges') = Len(challenges)
  PROVE  Kept
<1>1. Shape'
  BY DEF TypeInv, Shape
<1>2. RequestsOK'
  <2> SUFFICES ASSUME NEW s \in Slots PROVE RequestOK(req[s])'
    BY DEF RequestsOK
  <2>1. RequestOK(req[s])
    BY DEF TypeInv, RequestsOK
  <2> QED BY <2>1 DEF RequestOK
<1>3. ChangesOK'
  BY DEF TypeInv, ChangesOK, ChangeOK
<1>4. \A t \in Slots : req'[t] = req[t]
  OBVIOUS
<1>5. HandlersFinish /\ KeyInv => KeyInv'
  BY <1>4, KeysUntouched
<1> QED BY <1>1, <1>2, <1>3, <1>5 DEF Kept, TypeInv

LEMMA AroundRow ==
  ASSUME TypeInv, req' = req, keys' = keys, policy' = policy, clock' = clock,
         challenges' = challenges,
         NEW i \in 1..Len(rows), NEW y \in RowOf, y.key = rows[i].key,
         y.status \notin {"rejected", "failed"} => Live(i), rows' = [rows EXCEPT ![i] = y]
  PROVE  Kept
<1>1. rows \in Seq(RowOf) /\ challenges' \in Seq(ChallengeOf) /\ Len(challenges') = Len(challenges)
  BY DEF TypeInv, Shape
<1>2. /\ rows' \in Seq(RowOf) /\ Len(rows') = Len(rows)
      /\ \A j \in 1..Len(rows) : rows'[j].key = rows[j].key
      /\ \A j \in 1..Len(rows) : j # i => (Live(j)' <=> Live(j))
      /\ \A j \in 1..Len(rows) : j = i => (Live(j)' <=> y.status \notin {"rejected", "failed"})
  BY <1>1, RowEdit
<1>3. \A j \in 1..Len(rows) : rows'[j].key = rows[j].key /\ (Live(j)' => Live(j))
  BY <1>2
<1> QED BY <1>1, <1>2, <1>3, AroundMove

LEMMA AroundStep ==
  ASSUME TypeInv, Around
  PROVE  Kept
<1>1. /\ rows \in Seq(RowOf) /\ challenges \in Seq(ChallengeOf)
      /\ DOMAIN rows = 1..Len(rows) /\ DOMAIN challenges = 1..Len(challenges)
  BY DEF TypeInv, Shape
<1>2. CASE Standing
  <2>1. /\ req' = req /\ keys' = keys /\ policy' = policy /\ clock' = clock
        /\ rows' = rows /\ challenges' = challenges
    BY <1>2 DEF Standing, tables
  <2>2. \A j \in 1..Len(rows) : rows'[j].key = rows[j].key /\ (Live(j)' => Live(j))
    BY <2>1 DEF Live
  <2>3. /\ rows' \in Seq(RowOf) /\ Len(rows') = Len(rows)
        /\ challenges' \in Seq(ChallengeOf) /\ Len(challenges') = Len(challenges)
    BY <1>1, <2>1
  <2> QED BY <2>1, <2>2, <2>3, AroundMove
<1>3. ASSUME NEW i \in 1..Len(rows), NEW st \in {"paying", "rejected"},
             rows[i].status = "pending", rows' = [rows EXCEPT ![i].status = st],
             req' = req, keys' = keys, policy' = policy, clock' = clock, challenges' = challenges
      PROVE  Kept
  <2> DEFINE y == [rows[i] EXCEPT !.status = st]
  <2>1. rows[i] \in RowOf /\ st \in {"pending", "paying", "failed", "rejected"}
    BY <1>1
  <2>2. y \in RowOf /\ y.key = rows[i].key
    BY <2>1 DEF RowOf
  <2>3. rows' = [rows EXCEPT ![i] = y]
    BY <1>1, <1>3
  <2>4. Live(i)
    BY <1>3 DEF Live
  <2> HIDE DEF y
  <2> QED BY <1>3, <2>2, <2>3, <2>4, AroundRow
<1>4. ASSUME NEW i \in 1..Len(rows), LeaveDay(i) PROVE Kept
  <2> DEFINE no == FALSE  y == [rows[i] EXCEPT !.recent = no]
  <2>1. /\ rows' = [rows EXCEPT ![i].recent = no] /\ no \in BOOLEAN /\ rows[i] \in RowOf
        /\ req' = req /\ keys' = keys /\ policy' = policy /\ clock' = clock
        /\ challenges' = challenges
    BY <1>1, <1>4 DEF LeaveDay
  <2> HIDE DEF no
  <2>2. y \in RowOf /\ y.key = rows[i].key /\ y.status = rows[i].status
    BY <2>1 DEF RowOf
  <2>3. rows' = [rows EXCEPT ![i] = y]
    BY <1>1, <2>1
  <2> HIDE DEF y
  <2>4. y.status \notin {"rejected", "failed"} => Live(i)
    BY <2>2 DEF Live
  <2> QED BY <2>1, <2>2, <2>3, <2>4, AroundRow
<1>5. ASSUME NEW c \in 1..Len(challenges), ExpireCode(c) PROVE Kept
  <2> DEFINE yes == TRUE  y == [challenges[c] EXCEPT !.expired = yes]
  <2>1. /\ challenges' = [challenges EXCEPT ![c].expired = yes] /\ yes \in BOOLEAN
        /\ challenges[c] \in ChallengeOf
        /\ req' = req /\ keys' = keys /\ policy' = policy /\ clock' = clock /\ rows' = rows
    BY <1>1, <1>5 DEF ExpireCode
  <2> HIDE DEF yes
  <2>2. y \in ChallengeOf
    BY <2>1 DEF ChallengeOf
  <2>3. challenges' = [challenges EXCEPT ![c] = y]
    BY <1>1, <2>1
  <2> HIDE DEF y
  <2>4. challenges' \in Seq(ChallengeOf) /\ Len(challenges') = Len(challenges)
    BY <1>1, <2>2, <2>3
  <2>5. \A j \in 1..Len(rows) : rows'[j].key = rows[j].key /\ (Live(j)' => Live(j))
    BY <2>1 DEF Live
  <2>6. rows' \in Seq(RowOf) /\ Len(rows') = Len(rows)
    BY <1>1, <2>1
  <2> QED BY <2>1, <2>4, <2>5, <2>6, AroundMove
<1>6. ASSUME NEW i \in 1..Len(rows), Approve(i) PROVE Kept
  BY <1>3, <1>6 DEF Approve
<1>7. ASSUME NEW i \in 1..Len(rows), Reject(i) PROVE Kept
  BY <1>3, <1>7 DEF Reject
<1> QED BY <1>1, <1>2, <1>4, <1>5, <1>6, <1>7 DEF Around
-----------------------------------------------------------------------------
(***************************************************************************)
(* The limits.  A row that was accepted fitted, when it was, under the     *)
(* limit together with every live row before it.  What comes before a row  *)
(* only shrinks afterwards: a row never comes alive again, and a row       *)
(* inserted later comes later, if the clocks agree.  So the newest         *)
(* accepted row bounds them all.                                           *)
(***************************************************************************)
\* The shillings of a table's rows in a set.
UnitsIn(r, S) == UNION {{i} \X (1..r[i].amount) : i \in S}
Sum(r, S) == Cardinality(UnitsIn(r, S))

\* Of a table: the live rows of the last day before one, and which of them count
\* against automation.
LiveIn(r, i) == r[i].status \notin {"rejected", "failed"}
EarlierIn(r, j) == {i \in 1..Len(r) : /\ r[i].recent /\ LiveIn(r, i)
                                      /\ r[i].at < r[j].at \/ (r[i].at = r[j].at /\ i < j)}
AutoIn(r, j) == {i \in EarlierIn(r, j) : r[i].auto \/ ~r[i].decided}
FitsDay(r, j) == Sum(r, EarlierIn(r, j)) + r[j].amount <= DailyLimit
FitsCeiling(r, j) == Sum(r, AutoIn(r, j)) + r[j].amount <= HardRolling

InOrder(r) == \A i, j \in 1..Len(r) : i < j => r[i].at <= r[j].at
DayOK(r) == \A j \in 1..Len(r) : r[j].decided /\ LiveIn(r, j) => FitsDay(r, j)
CeilingOK(r) == \A j \in 1..Len(r) :
  r[j].decided /\ r[j].auto /\ LiveIn(r, j) => FitsCeiling(r, j)
TableOK(r) == InOrder(r) /\ DayOK(r) /\ CeilingOK(r)

Turn == {"finalize", "pay"}
Busy == Turn \cup {"insert"}

StampsInOrder ==
  /\ \A i \in 1..Len(rows) : rows[i].at <= clock
  /\ \A s \in Slots : req[s].at = "insert" =>
       req[s].stamp <= clock /\ \A i \in 1..Len(rows) : rows[i].at <= req[s].stamp

\* A row to be decided is pending, one to be paid is accepted as well; one request
\* at a time has its turn at it.
TurnsOK == \A s \in Slots : req[s].at \in Turn =>
  /\ rows[req[s].row].status = "pending"
  /\ rows[req[s].row].decided <=> req[s].at = "pay"
  /\ req[s].at = "pay" => rows[req[s].row].auto
TurnsApart == \A s, t \in Slots :
  req[s].at \in Turn /\ req[t].at \in Turn /\ req[s].row = req[t].row => s = t

LimitInv == /\ TableOK(rows) /\ StampsInOrder /\ TurnsOK /\ TurnsApart
            /\ policy.rolling \in Nat

\* Every reading of the clock agrees with the order of the insertions.
ClocksAgree == "stamp" \notin Faults
-----------------------------------------------------------------------------
LEMMA AmountsNatural ==
  ASSUME NEW r \in Seq(RowOf), NEW i \in 1..Len(r)
  PROVE  r[i].amount \in Nat
<1>1. r[i] \in RowOf /\ Sums \subseteq Nat
  BY LimitsAssumption DEF Sums
<1> QED BY <1>1 DEF RowOf

LEMMA UnitsFinite ==
  ASSUME NEW r \in Seq(RowOf), NEW S \in SUBSET (1..Len(r))
  PROVE  IsFiniteSet(UnitsIn(r, S)) /\ Sum(r, S) \in Nat
<1> DEFINE row(i) == {i} \X (1..r[i].amount)
           F == {row(i) : i \in S}
           f == [i \in S |-> row(i)]
<1>1. IsFiniteSet(S)
  <2>1. IsFiniteSet(1..Len(r))
    BY FS_Interval
  <2> QED BY <2>1, FS_Subset
<1>2. \A i \in S : IsFiniteSet(row(i))
  <2> SUFFICES ASSUME NEW i \in S PROVE IsFiniteSet(row(i))
    OBVIOUS
  <2>1. PICK n \in Nat : n = r[i].amount
    BY AmountsNatural
  <2>2. IsFiniteSet({i})
    BY FS_Singleton
  <2>3. IsFiniteSet(1..n)
    BY FS_Interval
  <2>4. IsFiniteSet({i} \X (1..n))
    BY <2>2, <2>3, FS_Product
  <2> QED BY <2>1, <2>4
<1>3. UnitsIn(r, S) = UNION F
  BY DEF UnitsIn
<1> HIDE DEF row
<1>4. f \in Surjection(S, F)
  BY DEF Surjection
<1>5. IsFiniteSet(F)
  BY <1>1, <1>4, FS_Surjection
<1>6. IsFiniteSet(UNION F)
  BY <1>2, <1>5, FS_UNION
<1> QED BY <1>3, <1>6, FS_CardinalityType DEF Sum

\* Fewer rows of the same amounts are worth no more.
LEMMA SumShrinks ==
  ASSUME NEW r \in Seq(RowOf), NEW q \in Seq(RowOf),
         NEW S \in SUBSET (1..Len(q)), NEW T \in SUBSET (1..Len(r)), S \subseteq T,
         \A i \in S : q[i].amount = r[i].amount
  PROVE  Sum(q, S) <= Sum(r, T)
<1>1. UnitsIn(q, S) \subseteq UnitsIn(r, T)
  BY DEF UnitsIn
<1>2. IsFiniteSet(UnitsIn(r, T))
  BY UnitsFinite
<1> QED BY <1>1, <1>2, FS_Subset DEF Sum

LEMMA SumAdds ==
  ASSUME NEW r \in Seq(RowOf), NEW S \in SUBSET (1..Len(r)), NEW j \in (1..Len(r)) \ S
  PROVE  Sum(r, S \cup {j}) = Sum(r, S) + r[j].amount
<1>1. PICK n \in Nat : n = r[j].amount
  BY AmountsNatural
<1> DEFINE U == UnitsIn(r, S)  V == {j} \X (1..n)
<1>2. UnitsIn(r, S \cup {j}) = U \cup V /\ U \cap V = {}
  <2>1. {{i} \X (1..r[i].amount) : i \in S \cup {j}} = {{i} \X (1..r[i].amount) : i \in S} \cup {V}
    BY <1>1
  <2>2. UnitsIn(r, S \cup {j}) = U \cup V
    BY <2>1 DEF UnitsIn
  <2>3. \A u \in U : u[1] \in S
    BY DEF UnitsIn
  <2>4. \A u \in V : u[1] = j
    OBVIOUS
  <2> QED BY <2>2, <2>3, <2>4
<1>3. IsFiniteSet(U) /\ Cardinality(U) \in Nat
  BY UnitsFinite DEF Sum
<1>4. IsFiniteSet(V) /\ Cardinality(V) = n
  <2>1. IsFiniteSet({j}) /\ Cardinality({j}) = 1
    BY FS_Singleton
  <2>2. IsFiniteSet(1..n) /\ Cardinality(1..n) = n
    BY FS_Interval
  <2>3. IsFiniteSet(V) /\ Cardinality(V) = Cardinality({j}) * Cardinality(1..n)
    BY <2>1, <2>2, FS_Product
  <2> HIDE DEF V
  <2> QED BY <2>1, <2>2, <2>3
<1> HIDE DEF U, V
<1>5. Cardinality(U \cup V) = Cardinality(U) + Cardinality(V) - Cardinality(U \cap V)
  BY <1>3, <1>4, FS_Union
<1>6. Cardinality(U \cap V) = 0
  BY <1>2, FS_EmptySet
<1>7. Sum(r, S \cup {j}) = Cardinality(U \cup V) /\ Sum(r, S) = Cardinality(U)
  BY <1>2 DEF Sum, U
<1> QED BY <1>1, <1>3, <1>4, <1>5, <1>6, <1>7

LEMMA NothingSums == \A r : Sum(r, {}) = 0
<1>1. \A r : UnitsIn(r, {}) = {}
  BY DEF UnitsIn
<1> QED BY <1>1, FS_EmptySet DEF Sum
-----------------------------------------------------------------------------
\* How a row may change: it dies or ages, and it is accepted where it fits.
GoesOn(r, q, i) ==
  /\ q[i].amount = r[i].amount /\ q[i].at = r[i].at
  /\ q[i].recent => r[i].recent
  /\ LiveIn(q, i) => LiveIn(r, i)
  /\ q[i].auto \/ ~q[i].decided => r[i].auto \/ ~r[i].decided
  /\ q[i].decided /\ LiveIn(q, i) => r[i].decided \/ FitsDay(r, i)
  /\ q[i].decided /\ q[i].auto /\ LiveIn(q, i) => (r[i].decided /\ r[i].auto) \/ FitsCeiling(r, i)

\* A table whose rows change so stays within the limits, also when a row that comes
\* last is added.
LEMMA TableGoesOn ==
  ASSUME NEW r \in Seq(RowOf), NEW q \in Seq(RowOf), TableOK(r),
         Len(q) \in {Len(r), Len(r) + 1}, \A i \in 1..Len(r) : GoesOn(r, q, i),
         \A n \in 1..Len(q) : n \notin 1..Len(r) =>
           ~q[n].decided /\ \A i \in 1..Len(r) : r[i].at <= q[n].at
  PROVE  TableOK(q)
<1>1. Len(r) \in Nat /\ \A i \in 1..Len(r) : i \in 1..Len(q) /\ r[i].at \in Nat
  <2>1. \A i \in 1..Len(r) : r[i] \in RowOf
    OBVIOUS
  <2> QED BY <2>1 DEF RowOf
<1>2. \A n \in 1..Len(q) : n \notin 1..Len(r) => n = Len(r) + 1 /\ q[n].at \in Nat
  <2>1. \A n \in 1..Len(q) : q[n] \in RowOf
    OBVIOUS
  <2> QED BY <1>1, <2>1 DEF RowOf
<1>3. InOrder(q)
  <2> SUFFICES ASSUME NEW i \in 1..Len(q), NEW j \in 1..Len(q), i < j PROVE q[i].at <= q[j].at
    BY DEF InOrder
  <2>1. i \in 1..Len(r)
    BY <1>1, <1>2
  <2>2. q[i].at = r[i].at
    BY <2>1 DEF GoesOn
  <2>3. CASE j \in 1..Len(r)
    BY <2>1, <2>3 DEF GoesOn, TableOK, InOrder
  <2>4. CASE j \notin 1..Len(r)
    BY <2>1, <2>2, <2>4
  <2> QED BY <2>3, <2>4
<1>4. ASSUME NEW j \in 1..Len(r) PROVE EarlierIn(q, j) \subseteq EarlierIn(r, j)
  <2> SUFFICES ASSUME NEW i \in EarlierIn(q, j) PROVE i \in EarlierIn(r, j)
    OBVIOUS
  <2>1. i \in 1..Len(q) /\ q[i].recent /\ LiveIn(q, i)
        /\ (q[i].at < q[j].at \/ (q[i].at = q[j].at /\ i < j))
    BY DEF EarlierIn
  <2>2. q[j].at = r[j].at /\ r[j].at \in Nat
    BY <1>1 DEF GoesOn
  <2>3. i \in 1..Len(r)
    <3> SUFFICES ASSUME i \notin 1..Len(r) PROVE FALSE
      OBVIOUS
    <3>1. i = Len(r) + 1 /\ q[i].at \in Nat /\ r[j].at <= q[i].at
      BY <1>2, <2>1
    <3> QED BY <1>1, <2>1, <2>2, <3>1
  <2> QED BY <2>1, <2>2, <2>3 DEF EarlierIn, GoesOn
<1>5. ASSUME NEW j \in 1..Len(r) PROVE AutoIn(q, j) \subseteq AutoIn(r, j)
  <2>1. \A i \in EarlierIn(q, j) : i \in 1..Len(r) /\ i \in EarlierIn(r, j)
    BY <1>4 DEF EarlierIn
  <2> QED BY <2>1 DEF AutoIn, GoesOn
<1>6. ASSUME NEW j \in 1..Len(r), NEW S \in SUBSET (1..Len(q)), NEW T \in SUBSET (1..Len(r)),
             S \subseteq T, NEW lim \in Nat, Sum(r, T) + r[j].amount <= lim
      PROVE  Sum(q, S) + q[j].amount <= lim
  <2>1. \A i \in S : q[i].amount = r[i].amount
    BY <1>6 DEF GoesOn
  <2>2. Sum(q, S) <= Sum(r, T)
    BY <1>6, <2>1, SumShrinks
  <2>3. Sum(q, S) \in Nat /\ Sum(r, T) \in Nat
    BY UnitsFinite
  <2>4. r[j].amount \in Nat /\ q[j].amount = r[j].amount
    BY AmountsNatural DEF GoesOn
  <2> QED BY <1>6, <2>2, <2>3, <2>4
<1>7. DailyLimit \in Nat /\ HardRolling \in Nat
  BY LimitsAssumption
<1>8. DayOK(q)
  <2> SUFFICES ASSUME NEW j \in 1..Len(q), q[j].decided, LiveIn(q, j) PROVE FitsDay(q, j)
    BY DEF DayOK
  <2>1. j \in 1..Len(r)
    OBVIOUS
  <2>2. FitsDay(r, j)
    BY <2>1 DEF GoesOn, TableOK, DayOK
  <2>3. EarlierIn(q, j) \subseteq 1..Len(q) /\ EarlierIn(r, j) \subseteq 1..Len(r)
    BY DEF EarlierIn
  <2> QED BY <1>4, <1>6, <1>7, <2>1, <2>2, <2>3 DEF FitsDay
<1>9. CeilingOK(q)
  <2> SUFFICES ASSUME NEW j \in 1..Len(q), q[j].decided, q[j].auto, LiveIn(q, j)
               PROVE  FitsCeiling(q, j)
    BY DEF CeilingOK
  <2>1. j \in 1..Len(r)
    OBVIOUS
  <2>2. FitsCeiling(r, j)
    BY <2>1 DEF GoesOn, TableOK, CeilingOK
  <2>3. AutoIn(q, j) \subseteq 1..Len(q) /\ AutoIn(r, j) \subseteq 1..Len(r)
    BY DEF EarlierIn, AutoIn
  <2> QED BY <1>5, <1>6, <1>7, <2>1, <2>2, <2>3 DEF FitsCeiling
<1> QED BY <1>3, <1>8, <1>9 DEF TableOK

LEMMA LeastOf ==
  ASSUME NEW S \in SUBSET Nat, S # {}
  PROVE  \E n \in S : \A m \in S : n <= m
<1>1. PICK x \in S : \A y \in S : ~(<<y, x>> \in OpToRel(<, Nat))
  BY NatLessThanWellFounded, WFMin, Zenon
<1>2. \A y \in S : ~(y < x)
  BY <1>1 DEF OpToRel
<1> QED BY <1>2

\* The newest accepted row bounds the accepted ones; so it does among those that
\* automation accepted.
LEMMA NewestBounds ==
  ASSUME NEW r \in Seq(RowOf), NEW S \in SUBSET (1..Len(r)), NEW lim \in Nat,
         \A j \in S : Sum(r, {i \in S : i < j}) + r[j].amount <= lim
  PROVE  Sum(r, S) <= lim
<1>1. CASE S = {}
  BY <1>1, NothingSums
<1>2. CASE S # {}
  <2> DEFINE U == {n \in Nat : \A i \in S : i <= n}
  <2>0. Len(r) \in Nat /\ \A i \in S : i \in Nat /\ 1 <= i /\ i <= Len(r)
    OBVIOUS
  <2>1. Len(r) \in U
    BY <2>0
  <2>2. PICK n \in U : \A m \in U : n <= m
    BY <2>1, LeastOf
  <2>3. n \in S
    <3> SUFFICES ASSUME n \notin S PROVE FALSE
      OBVIOUS
    <3>1. n \in Nat /\ \A i \in S : i \in Nat /\ 1 <= i /\ i <= n /\ i # n
      BY <2>0
    <3>0. PICK k \in S : TRUE
      BY <1>2
    <3>2. n - 1 \in Nat /\ \A i \in S : i <= n - 1
      BY <3>0, <3>1
    <3>3. n - 1 \in U /\ ~(n <= n - 1)
      BY <3>1, <3>2
    <3> QED BY <2>2, <3>3
  <2>4. S = {i \in S : i < n} \cup {n}
    <3>1. n \in Nat /\ \A i \in S : i <= n
      OBVIOUS
    <3>2. \A i \in S : i < n \/ i = n
      BY <2>0, <3>1
    <3> QED BY <2>3, <3>2
  <2>5. Sum(r, S) = Sum(r, {i \in S : i < n}) + r[n].amount
    <3> DEFINE T == {i \in S : i < n}
    <3>1. T \in SUBSET (1..Len(r)) /\ n \in (1..Len(r)) \ T
      <4>1. n \in 1..Len(r) /\ ~(n < n)
        BY <2>0, <2>3
      <4> QED BY <4>1
    <3>2. S = T \cup {n}
      BY <2>4
    <3> HIDE DEF T
    <3>3. Sum(r, T \cup {n}) = Sum(r, T) + r[n].amount
      BY <3>1, SumAdds
    <3> QED BY <3>2, <3>3 DEF T
  <2> QED BY <2>3, <2>5
<1> QED BY <1>1, <1>2

-----------------------------------------------------------------------------
\* No row changes, and nobody comes to where rows are made and decided.
LEMMA LimitQuiet ==
  ASSUME TypeInv, LimitInv, rows' = rows, clock' = clock, policy'.rolling \in Nat,
         \A t \in Slots : req'[t] = req[t] \/ req'[t].at \notin Busy
  PROVE  LimitInv'
<1>1. TableOK(rows)'
  BY DEF LimitInv
<1>2. StampsInOrder'
  BY DEF LimitInv, StampsInOrder, Busy
<1>3. TurnsOK' /\ TurnsApart'
  BY DEF LimitInv, TurnsOK, TurnsApart, Busy
<1> QED BY <1>1, <1>2, <1>3 DEF LimitInv

\* One row changes.  Whoever has his turn at another keeps it; his own turn goes on
\* only to the payment of an accepted row.
LEMMA LimitEdit ==
  ASSUME TypeInv, TypeInv', LimitInv, NEW i \in 1..Len(rows), NEW y \in RowOf,
         rows' = [rows EXCEPT ![i] = y], clock' = clock, policy' = policy,
         GoesOn(rows, rows', i),
         \A t \in Slots :
           \/ req'[t].at \notin Busy
           \/ /\ req'[t] = req[t]
              /\ req[t].at \in Turn /\ req[t].row = i =>
                   /\ y.status = rows[i].status /\ y.decided = rows[i].decided
                   /\ y.auto = rows[i].auto
           \/ /\ req'[t].at = "pay" /\ req[t].at \in Turn /\ req'[t].row = req[t].row
              /\ req[t].row = i /\ y.status = "pending" /\ y.decided /\ y.auto
  PROVE  LimitInv'
<1>1. /\ rows \in Seq(RowOf) /\ rows' \in Seq(RowOf) /\ Len(rows') = Len(rows)
      /\ rows'[i] = y /\ \A j \in 1..Len(rows) : j # i => rows'[j] = rows[j]
  BY DEF TypeInv, Shape
<1>2. ASSUME NEW j \in 1..Len(rows), j # i PROVE GoesOn(rows, rows', j)
  <2>1. rows'[j] = rows[j]
    BY <1>1, <1>2
  <2> QED BY <2>1 DEF GoesOn, LiveIn
<1>3. \A j \in 1..Len(rows) : GoesOn(rows, rows', j)
  BY <1>2
<1>4. TableOK(rows')
  <2>1. TableOK(rows) /\ Len(rows') \in {Len(rows), Len(rows) + 1}
        /\ \A j \in 1..Len(rows') : j \in 1..Len(rows)
    BY <1>1 DEF LimitInv
  <2> QED BY <1>1, <1>3, <2>1, TableGoesOn
<1>5. \A j \in 1..Len(rows) : rows'[j].at = rows[j].at
  BY <1>3 DEF GoesOn
<1>6. StampsInOrder'
  BY <1>1, <1>5 DEF LimitInv, StampsInOrder, Busy
<1>7. \A t \in Slots : req'[t].at \in Turn =>
        req[t].at \in Turn /\ req'[t].row = req[t].row /\ req[t].row \in 1..Len(rows)
  BY DEF Turn, Busy, Late, TypeInv, RequestsOK, RequestOK
<1>8. TurnsApart'
  BY <1>7 DEF LimitInv, TurnsApart
<1>9. TurnsOK'
  <2> SUFFICES ASSUME NEW t \in Slots, req'[t].at \in Turn
               PROVE  /\ rows'[req'[t].row].status = "pending"
                      /\ rows'[req'[t].row].decided <=> req'[t].at = "pay"
                      /\ req'[t].at = "pay" => rows'[req'[t].row].auto
    BY DEF TurnsOK
  <2>1. req[t].at \in Turn /\ req'[t].row = req[t].row /\ req[t].row \in 1..Len(rows)
    BY <1>7
  <2>2. CASE req'[t].at = "pay" /\ req[t].row = i /\ y.status = "pending" /\ y.decided /\ y.auto
    BY <1>1, <2>1, <2>2
  <2>3. CASE /\ req'[t] = req[t]
             /\ req[t].at \in Turn /\ req[t].row = i =>
                   /\ y.status = rows[i].status /\ y.decided = rows[i].decided
                   /\ y.auto = rows[i].auto
    <3>1. /\ rows'[req[t].row].status = rows[req[t].row].status
          /\ rows'[req[t].row].decided = rows[req[t].row].decided
          /\ rows'[req[t].row].auto = rows[req[t].row].auto
      BY <1>1, <2>1, <2>3
    <3> QED BY <2>1, <2>3, <3>1 DEF LimitInv, TurnsOK
  <2> QED BY <2>2, <2>3 DEF Busy
<1>10. policy'.rolling \in Nat
  BY DEF LimitInv
<1> QED BY <1>4, <1>6, <1>8, <1>9, <1>10 DEF LimitInv

LEMMA QuietLimits ==
  ASSUME TypeInv, LimitInv, NEW s \in Slots,
         \/ SupersedeActive(s) \/ CreateChallenge(s) \/ Resend(s) \/ RotateOtp(s) \/ Verify(s)
         \/ VerifyOtp(s) \/ Direct(s) \/ EditPolicy(s) \/ UpdatePolicy(s)
         \/ ClaimKey(s) \/ ReleaseKey(s) \/ CompleteKey(s) \/ WriteAudit(s)
  PROVE  LimitInv'
<1>1. rows' = rows /\ clock' = clock /\ req \in [Slots -> Request]
  BY DEF TypeInv, Shape, tables, SupersedeActive, CreateChallenge, Resend, RotateOtp, Verify,
         VerifyOtp, Direct, EditPolicy, UpdatePolicy, ClaimKey, ReleaseKey, CompleteKey, WriteAudit
<1>2. policy'.rolling \in Nat
  <2>1. req[s].wish.rolling \in Nat
    <3>1. req[s].wish \in Policies \cup {Off}
      BY <1>1 DEF Request
    <3> QED BY <3>1, LimitsAssumption DEF Off
  <2>2. UpdatePolicy(s) => policy' = policy \/ policy'.rolling = req[s].wish.rolling
    BY DEF UpdatePolicy
  <2>3. policy' = policy \/ UpdatePolicy(s)
    BY DEF tables, SupersedeActive, CreateChallenge, Resend, RotateOtp, Verify,
           VerifyOtp, Direct, EditPolicy, ClaimKey, ReleaseKey, CompleteKey, WriteAudit
  <2> QED BY <2>1, <2>2, <2>3 DEF LimitInv
<1>3. \A p \in {"idle", "issue", "rotate", "mark", "claim", "gates", "complete", "release", "save"} :
        p \notin Busy
  BY DEF Busy, Turn
<1>4. req'[s].at \notin Busy /\ \A t \in Slots \ {s} : req'[t] = req[t]
  <2>1. ASSUME NEW x, req' = [req EXCEPT ![s] = x], x.at \notin Busy PROVE req'[s].at \notin Busy /\ \A t \in Slots \ {s} : req'[t] = req[t]
    BY <1>1, <2>1
  <2>2. CASE Done(s)
    BY <1>3, <2>1, <2>2, NoWorkOK DEF Done
  <2>3. ASSUME NEW p, To(s, p), p \notin Busy PROVE req'[s].at \notin Busy /\ \A t \in Slots \ {s} : req'[t] = req[t]
    BY <1>1, <2>3 DEF To, Request
  <2>4. CASE SupersedeActive(s)
    <3>1. PICK k \in Keys, a \in Amounts : req' = [req EXCEPT ![s] =
            [NoWork EXCEPT !.at = "issue", !.key = <<"portal", k>>, !.amount = a]]
      BY <2>4 DEF SupersedeActive
    <3> QED BY <1>1, <1>3, <3>1 DEF NoWork
  <2>5. CASE Resend(s)
    <3>1. PICK c \in DOMAIN challenges :
            req' = [req EXCEPT ![s] = [NoWork EXCEPT !.at = "rotate", !.ch = c]]
      BY <2>5 DEF Resend
    <3> QED BY <1>1, <1>3, <3>1 DEF NoWork
  <2>6. CASE Verify(s)
    <3>1. PICK c \in DOMAIN challenges, right \in BOOLEAN :
            req' = [req EXCEPT ![s] = [NoWork EXCEPT !.at = "mark", !.ch = c,
                                         !.seen = challenges[c].attempts + 1, !.right = right]]
      BY <2>6 DEF Verify
    <3> QED BY <1>1, <1>3, <3>1 DEF NoWork
  <2>7. CASE VerifyOtp(s)
    <3>1. CASE req' = [req EXCEPT ![s] = [NoWork EXCEPT !.at = "claim",
                 !.key = <<"portal", challenges[req[s].ch].key>>,
                 !.amount = challenges[req[s].ch].amount]]
      BY <1>1, <1>3, <3>1 DEF NoWork
    <3> QED BY <2>2, <2>7, <3>1 DEF VerifyOtp
  <2>8. CASE Direct(s)
    <3>1. PICK k \in Keys, a \in Amounts : req' = [req EXCEPT ![s] =
            [NoWork EXCEPT !.at = "claim", !.key = <<"api", k>>, !.amount = a]]
      BY <2>8 DEF Direct
    <3> QED BY <1>1, <1>3, <3>1 DEF NoWork
  <2>9. CASE EditPolicy(s)
    <3>1. PICK q \in Policies, v \in 0..policy.version, sure \in BOOLEAN : req' = [req EXCEPT ![s] =
            [NoWork EXCEPT !.at = "save", !.wish = q, !.ver = v, !.sure = sure]]
      BY <2>9 DEF EditPolicy
    <3> QED BY <1>1, <1>3, <3>1 DEF NoWork
  <2>10. CASE ClaimKey(s)
    BY <1>3, <2>2, <2>3, <2>10 DEF ClaimKey
  <2>11. CASE WriteAudit(s)
    BY <1>3, <2>3, <2>11 DEF WriteAudit
  <2>12. CASE CreateChallenge(s) \/ RotateOtp(s) \/ UpdatePolicy(s) \/ ReleaseKey(s) \/ CompleteKey(s)
    BY <2>2, <2>12 DEF CreateChallenge, RotateOtp, UpdatePolicy, ReleaseKey, CompleteKey
  <2> QED BY <2>4, <2>5, <2>6, <2>7, <2>8, <2>9, <2>10, <2>11, <2>12
<1>5. \A t \in Slots : req'[t] = req[t] \/ req'[t].at \notin Busy
  BY <1>4
<1> QED BY <1>1, <1>2, <1>5, LimitQuiet

LEMMA GatesLimits ==
  ASSUME TypeInv, LimitInv, NEW s \in Slots, Gates(s)
  PROVE  LimitInv'
<1>1. rows' = rows /\ policy' = policy /\ req \in [Slots -> Request] /\ clock \in Nat /\ req[s] \in Request
  BY DEF TypeInv, Shape, tables, Gates
<1>2. CASE clock' = clock + 1 /\ req' = [req EXCEPT ![s].at = "insert", ![s].stamp = clock + 1]
  <2>1. /\ req'[s].at = "insert" /\ req'[s].stamp = clock + 1
        /\ \A t \in Slots \ {s} : req'[t] = req[t]
    BY <1>1, <1>2 DEF Request
  <2>2. TableOK(rows)'
    BY <1>1 DEF LimitInv
  <2>3. \A i \in 1..Len(rows) : rows[i].at \in Nat
    <3>1. \A i \in 1..Len(rows) : rows[i] \in RowOf
      BY DEF TypeInv, Shape
    <3> QED BY <3>1 DEF RowOf
  <2>4. \A t \in Slots : req[t].stamp \in Nat
    <3>1. \A t \in Slots : req[t] \in Request
      BY <1>1
    <3> QED BY <3>1 DEF Request
  <2>5. StampsInOrder'
    BY <1>1, <1>2, <2>1, <2>3, <2>4 DEF LimitInv, StampsInOrder
  <2>6. TurnsOK' /\ TurnsApart'
    BY <1>1, <2>1 DEF LimitInv, TurnsOK, TurnsApart, Turn
  <2> QED BY <1>1, <2>2, <2>5, <2>6 DEF LimitInv
<1>3. CASE To(s, "release") /\ clock' = clock
  <2>1. req'[s].at = "release" /\ \A t \in Slots \ {s} : req'[t] = req[t]
    BY <1>1, <1>3 DEF To, Request
  <2>2. \A t \in Slots : req'[t] = req[t] \/ req'[t].at \notin Busy
    BY <2>1 DEF Busy, Turn
  <2>3. policy'.rolling \in Nat
    BY <1>1 DEF LimitInv
  <2> QED BY <1>1, <1>3, <2>2, <2>3, LimitQuiet
<1> QED BY <1>2, <1>3 DEF Gates

\* The sums of the code are those of the table.
LEMMA CodeSums ==
  ASSUME Shape, NEW j \in 1..Len(rows)
  PROVE  /\ Total(Earlier(j)) = Sum(rows, EarlierIn(rows, j)) /\ Total(Earlier(j)) \in Nat
         /\ AutoToday(j) = Sum(rows, AutoIn(rows, j)) /\ AutoToday(j) \in Nat
<1>1. rows \in Seq(RowOf) /\ DOMAIN rows = 1..Len(rows)
  BY DEF Shape
<1>2. Earlier(j) = EarlierIn(rows, j)
  BY <1>1 DEF Earlier, EarlierIn, Today, Before, Live, LiveIn
<1>3. \A S : Total(S) = Sum(rows, S)
  BY DEF Total, Units, Sum, UnitsIn
<1>4. EarlierIn(rows, j) \in SUBSET (1..Len(rows)) /\ AutoIn(rows, j) \in SUBSET (1..Len(rows))
  BY DEF EarlierIn, AutoIn
<1>5. Sum(rows, EarlierIn(rows, j)) \in Nat /\ Sum(rows, AutoIn(rows, j)) \in Nat
  BY <1>1, <1>4, UnitsFinite
<1>6. AutoToday(j) = Sum(rows, AutoIn(rows, j))
  BY <1>2, <1>3 DEF AutoToday, AutoIn
<1> QED BY <1>2, <1>3, <1>5, <1>6

LEMMA InsertLimits ==
  ASSUME TypeInv, TypeInv', LimitInv, ClocksAgree, NEW s \in Slots, InsertRow(s)
  PROVE  LimitInv'
<1> DEFINE n == Len(rows)  p == "finalize"
           new == [key |-> req[s].key, amount |-> req[s].amount, at |-> req[s].stamp,
                   recent |-> TRUE, status |-> "pending", auto |-> FALSE, decided |-> FALSE]
<1>1. /\ req[s].at = "insert" /\ policy' = policy /\ clock' = clock /\ rows' = Append(rows, new)
      /\ \A q \in Slots : req[q].at = "insert" => req[s].stamp <= req[q].stamp
      /\ req' = [req EXCEPT ![s].at = p, ![s].row = n + 1]
      /\ rows \in Seq(RowOf) /\ rows' \in Seq(RowOf) /\ req \in [Slots -> Request]
  BY DEF InsertRow, At, TypeInv, Shape, ClocksAgree
<1>2. /\ n \in Nat /\ Len(rows') = n + 1 /\ rows'[n + 1] = new
      /\ \A i \in 1..n : rows'[i] = rows[i]
      /\ \A i \in 1..Len(rows') : i \in 1..n \/ i = n + 1
  BY <1>1
<1>3. /\ new.at = req[s].stamp /\ new.status = "pending" /\ new.decided = FALSE
  OBVIOUS
<1>4. req'[s].at = p /\ req'[s].row = n + 1 /\ \A t \in Slots \ {s} : req'[t] = req[t]
  BY <1>1 DEF Request
<1>5. p \in Turn /\ p # "insert" /\ p # "pay" /\ "insert" \notin Turn
  BY DEF Turn
<1> HIDE DEF new, p
<1>6. \A i \in 1..n : rows[i].at <= req[s].stamp /\ rows[i].at <= clock /\ req[s].stamp <= clock
  BY <1>1 DEF LimitInv, StampsInOrder
<1>7. req[s].stamp <= clock
  BY <1>1 DEF LimitInv, StampsInOrder
<1>8. TableOK(rows')
  <2>1. \A i \in 1..Len(rows) : GoesOn(rows, rows', i)
    <3> SUFFICES ASSUME NEW i \in 1..Len(rows) PROVE GoesOn(rows, rows', i)
      OBVIOUS
    <3>1. rows'[i] = rows[i]
      BY <1>2
    <3> QED BY <3>1 DEF GoesOn, LiveIn
  <2>2. \A m \in 1..Len(rows') : m \notin 1..Len(rows) =>
          ~rows'[m].decided /\ \A i \in 1..Len(rows) : rows[i].at <= rows'[m].at
    BY <1>2, <1>3, <1>6
  <2>3. Len(rows') \in {Len(rows), Len(rows) + 1} /\ TableOK(rows)
    BY <1>2 DEF LimitInv
  <2> QED BY <1>1, <2>1, <2>2, <2>3, TableGoesOn
<1>9. StampsInOrder'
  <2>1. \A i \in 1..Len(rows') : rows'[i].at <= clock
    BY <1>2, <1>3, <1>6, <1>7
  <2>2. ASSUME NEW t \in Slots, req'[t].at = "insert"
        PROVE  req'[t].stamp <= clock /\ \A i \in 1..Len(rows') : rows'[i].at <= req'[t].stamp
    <3>1. t # s /\ req'[t] = req[t] /\ req[s].stamp <= req[t].stamp
      BY <1>1, <1>4, <1>5, <2>2
    <3>2. req[t].stamp <= clock /\ \A i \in 1..n : rows[i].at <= req[t].stamp
      BY <2>2, <3>1 DEF LimitInv, StampsInOrder
    <3> QED BY <1>2, <1>3, <3>1, <3>2
  <2> QED BY <1>1, <2>1, <2>2 DEF StampsInOrder
<1>10. \A t \in Slots \ {s} : req[t].at \in Turn => req[t].row \in 1..n
  BY DEF Turn, Late, TypeInv, RequestsOK, RequestOK
<1>11. TurnsOK'
  <2> SUFFICES ASSUME NEW t \in Slots, req'[t].at \in Turn
               PROVE  /\ rows'[req'[t].row].status = "pending"
                      /\ rows'[req'[t].row].decided <=> req'[t].at = "pay"
                      /\ req'[t].at = "pay" => rows'[req'[t].row].auto
    BY DEF TurnsOK
  <2>1. CASE t = s
    BY <1>2, <1>3, <1>4, <1>5, <2>1
  <2>2. CASE t # s
    <3>1. req'[t] = req[t] /\ req[t].at \in Turn /\ rows'[req[t].row] = rows[req[t].row]
      BY <1>2, <1>4, <1>10, <2>2
    <3> QED BY <3>1 DEF LimitInv, TurnsOK
  <2> QED BY <2>1, <2>2
<1>12. TurnsApart'
  <2>1. n + 1 \notin 1..n
    BY <1>2
  <2> QED BY <1>4, <1>10, <2>1 DEF LimitInv, TurnsApart
<1> QED BY <1>1, <1>8, <1>9, <1>11, <1>12 DEF LimitInv

LEMMA FinalizeLimits ==
  ASSUME TypeInv, TypeInv', LimitInv, NEW s \in Slots, FinalizeWithdrawalLimits(s)
  PROVE  LimitInv'
<1> DEFINE i == req[s].row
<1>0. PICK o \in {Outcome(i)} \cup ({"error"} \cap Faults) :
        /\ rows' = [rows EXCEPT ![i].decided = o # "error", ![i].auto = o = "auto",
                                ![i].status = IF o = "rejected" THEN "rejected" ELSE @]
        /\ To(s, CASE o = "auto" -> "pay" [] o = "manual" -> "audit" [] OTHER -> "release")
  BY DEF FinalizeWithdrawalLimits
<1> DEFINE d == o # "error"  au == o = "auto"
           st == IF o = "rejected" THEN "rejected" ELSE rows[i].status
           p == CASE o = "auto" -> "pay" [] o = "manual" -> "audit" [] OTHER -> "release"
           y == [rows[i] EXCEPT !.decided = d, !.auto = au, !.status = st]
<1>1. /\ req[s].at = "finalize" /\ policy' = policy /\ clock' = clock
      /\ rows \in Seq(RowOf) /\ req \in [Slots -> Request]
  BY DEF FinalizeWithdrawalLimits, At, TypeInv, Shape
<1>2. req[s].at \in Turn /\ req[s].at # "pay" /\ req[s].at \in Late
  BY <1>1 DEF Turn, Late
<1>3. i \in 1..Len(rows) /\ rows[i] \in RowOf
  BY <1>1, <1>2 DEF TypeInv, RequestsOK, RequestOK
<1>4. rows[i].status = "pending" /\ rows[i].decided = FALSE
  BY <1>2, <1>3 DEF LimitInv, TurnsOK, RowOf
<1>5. st \in {"pending", "rejected"} /\ (st = "pending" <=> o # "rejected")
  BY <1>4
<1>6. p = "pay" \/ p \notin Busy
  BY DEF Busy, Turn
<1>7. p = "pay" => o = "auto" /\ au /\ d
  OBVIOUS
<1>8. au => o = "auto"
  OBVIOUS
<1>9. d => o # "error"
  OBVIOUS
<1>10. rows' = [rows EXCEPT ![i].decided = d, ![i].auto = au, ![i].status = st] /\ To(s, p)
  BY <1>0
<1>11. d \in BOOLEAN /\ au \in BOOLEAN
  OBVIOUS
<1> HIDE DEF d, au, st, p
<1>12. /\ y \in RowOf /\ y.status = st /\ y.decided = d /\ y.auto = au
       /\ y.amount = rows[i].amount /\ y.at = rows[i].at /\ y.recent = rows[i].recent
  BY <1>3, <1>5, <1>11 DEF RowOf
<1>13. rows' = [rows EXCEPT ![i] = y]
  BY <1>1, <1>3, <1>10
<1> HIDE DEF y
<1>14. rows'[i] = y
  BY <1>1, <1>3, <1>13
<1>15. /\ Total(Earlier(i)) = Sum(rows, EarlierIn(rows, i)) /\ Total(Earlier(i)) \in Nat
       /\ AutoToday(i) = Sum(rows, AutoIn(rows, i)) /\ AutoToday(i) \in Nat
  BY <1>3, CodeSums DEF TypeInv
<1>16. rows[i].amount \in Nat
  BY <1>1, <1>3, AmountsNatural
<1>17. o # "rejected" /\ o # "error" => FitsDay(rows, i)
  <2> SUFFICES ASSUME o # "rejected", o # "error" PROVE FitsDay(rows, i)
    OBVIOUS
  <2>1. ~OverDaily(i)
    BY DEF Outcome
  <2> QED BY <1>15, <1>16, <2>1, LimitsAssumption DEF OverDaily, FitsDay
<1>18. o = "auto" => FitsCeiling(rows, i)
  <2> SUFFICES ASSUME o = "auto" PROVE FitsCeiling(rows, i)
    OBVIOUS
  <2>1. Eligible(i)
    BY DEF Outcome
  <2>2. AutoToday(i) + rows[i].amount <= MinOf(HardRolling, policy.rolling)
    BY <2>1 DEF Eligible, Effective
  <2>3. HardRolling \in Nat /\ policy.rolling \in Nat
    BY LimitsAssumption DEF LimitInv
  <2> QED BY <1>15, <1>16, <2>2, <2>3 DEF MinOf, FitsCeiling
<1> HIDE DEF i
<1>19. GoesOn(rows, rows', i)
  BY <1>4, <1>5, <1>8, <1>9, <1>12, <1>14, <1>17, <1>18 DEF GoesOn, LiveIn
<1>20. req'[s].at = p /\ req'[s].row = i /\ \A t \in Slots \ {s} : req'[t] = req[t]
  BY <1>1, <1>10 DEF To, Request, i
<1>21. \A t \in Slots \ {s} : req[t].at \in Turn => req[t].row # i
  BY <1>2 DEF LimitInv, TurnsApart, i
<1>22. req'[s].at \notin Busy
       \/ /\ req'[s].at = "pay" /\ req[s].at \in Turn /\ req'[s].row = req[s].row
          /\ req[s].row = i /\ y.status = "pending" /\ y.decided /\ y.auto
  BY <1>2, <1>5, <1>6, <1>7, <1>12, <1>20 DEF i
<1>23. \A t \in Slots :
           \/ req'[t].at \notin Busy
           \/ /\ req'[t] = req[t]
              /\ req[t].at \in Turn /\ req[t].row = i =>
                   /\ y.status = rows[i].status /\ y.decided = rows[i].decided
                   /\ y.auto = rows[i].auto
           \/ /\ req'[t].at = "pay" /\ req[t].at \in Turn /\ req'[t].row = req[t].row
              /\ req[t].row = i /\ y.status = "pending" /\ y.decided /\ y.auto
  BY <1>20, <1>21, <1>22
<1> QED BY <1>1, <1>3, <1>12, <1>13, <1>19, <1>23, LimitEdit

LEMMA AutoPayLimits ==
  ASSUME TypeInv, TypeInv', LimitInv, NEW s \in Slots, AutoPay(s)
  PROVE  LimitInv'
<1> DEFINE i == req[s].row  p == "audit"
<1>1. /\ req[s].at = "pay" /\ policy' = policy /\ clock' = clock
      /\ rows \in Seq(RowOf) /\ req \in [Slots -> Request]
      /\ req' = [req EXCEPT ![s].at = p]
  BY DEF AutoPay, At, To, TypeInv, Shape
<1>2. req[s].at \in Turn /\ req[s].at \in Late /\ p \notin Busy
  BY <1>1 DEF Turn, Late, Busy
<1>3. i \in 1..Len(rows) /\ rows[i] \in RowOf
  BY <1>1, <1>2 DEF TypeInv, RequestsOK, RequestOK
<1>4. rows[i].status = "pending" /\ rows[i].decided
  BY <1>1, <1>2 DEF LimitInv, TurnsOK
<1> HIDE DEF p
<1> HIDE DEF i
<1>5. PICK y \in RowOf :
        /\ rows' = [rows EXCEPT ![i] = y]
        /\ y.amount = rows[i].amount /\ y.at = rows[i].at /\ y.recent = rows[i].recent
        /\ y.decided /\ (y.auto => rows[i].auto)
  <2>1. CASE rows' = [rows EXCEPT ![i].auto = FALSE]
    <3> DEFINE no == FALSE  y == [rows[i] EXCEPT !.auto = no]
    <3>1. no \in BOOLEAN /\ rows' = [rows EXCEPT ![i].auto = no] /\ ~no
      BY <2>1
    <3> HIDE DEF no
    <3>2. /\ y \in RowOf /\ y.amount = rows[i].amount /\ y.at = rows[i].at
          /\ y.recent = rows[i].recent /\ y.decided = rows[i].decided /\ y.auto = no
      BY <1>3, <3>1 DEF RowOf
    <3>3. rows' = [rows EXCEPT ![i] = y]
      BY <1>1, <1>3, <3>1
    <3> HIDE DEF y
    <3> QED BY <1>4, <3>1, <3>2, <3>3
  <2>2. ASSUME NEW st \in {"paying", "failed"}, rows' = [rows EXCEPT ![i].status = st]
        PROVE  \E y \in RowOf : /\ rows' = [rows EXCEPT ![i] = y]
                                /\ y.amount = rows[i].amount /\ y.at = rows[i].at
                                /\ y.recent = rows[i].recent
                                /\ y.decided /\ (y.auto => rows[i].auto)
    <3> DEFINE y == [rows[i] EXCEPT !.status = st]
    <3>1. st \in {"pending", "paying", "failed", "rejected"}
      OBVIOUS
    <3>2. /\ y \in RowOf /\ y.amount = rows[i].amount /\ y.at = rows[i].at
          /\ y.recent = rows[i].recent /\ y.decided = rows[i].decided /\ y.auto = rows[i].auto
      BY <1>3, <3>1 DEF RowOf
    <3>3. rows' = [rows EXCEPT ![i] = y]
      BY <1>1, <1>3, <2>2
    <3> HIDE DEF y
    <3> QED BY <1>4, <3>2, <3>3
  <2> QED BY <2>1, <2>2 DEF AutoPay, i
<1>6. rows'[i] = y
  BY <1>1, <1>3, <1>5
<1>7. GoesOn(rows, rows', i)
  BY <1>4, <1>5, <1>6 DEF GoesOn, LiveIn
<1>8. req'[s].at = p /\ \A t \in Slots \ {s} : req'[t] = req[t]
  BY <1>1 DEF Request
<1>9. \A t \in Slots \ {s} : req[t].at \in Turn => req[t].row # i
  BY <1>2 DEF LimitInv, TurnsApart, i
<1>10. \A t \in Slots :
           \/ req'[t].at \notin Busy
           \/ /\ req'[t] = req[t]
              /\ req[t].at \in Turn /\ req[t].row = i =>
                   /\ y.status = rows[i].status /\ y.decided = rows[i].decided
                   /\ y.auto = rows[i].auto
           \/ /\ req'[t].at = "pay" /\ req[t].at \in Turn /\ req'[t].row = req[t].row
              /\ req[t].row = i /\ y.status = "pending" /\ y.decided /\ y.auto
  BY <1>2, <1>8, <1>9
<1> QED BY <1>1, <1>3, <1>5, <1>7, <1>10, LimitEdit

LEMMA AroundLimits ==
  ASSUME TypeInv, TypeInv', LimitInv, Around
  PROVE  LimitInv'
<1>1. /\ req' = req /\ policy' = policy /\ clock' = clock
      /\ rows \in Seq(RowOf) /\ DOMAIN rows = 1..Len(rows)
  BY DEF Around, Standing, Approve, Reject, LeaveDay, ExpireCode, tables, TypeInv, Shape
<1>2. ASSUME rows' = rows PROVE LimitInv'
  BY <1>1, <1>2, LimitQuiet DEF LimitInv
<1>3. ASSUME NEW i \in 1..Len(rows), NEW st \in {"paying", "rejected"},
             rows[i].status = "pending", rows[i].decided, ~rows[i].auto,
             rows' = [rows EXCEPT ![i].status = st]
      PROVE  LimitInv'
  <2> DEFINE y == [rows[i] EXCEPT !.status = st]
  <2>1. rows[i] \in RowOf /\ st \in {"pending", "paying", "failed", "rejected"}
    BY <1>1
  <2>2. /\ y \in RowOf /\ y.amount = rows[i].amount /\ y.at = rows[i].at
        /\ y.recent = rows[i].recent /\ y.decided = rows[i].decided /\ y.auto = rows[i].auto
    BY <2>1 DEF RowOf
  <2>3. rows' = [rows EXCEPT ![i] = y] /\ rows'[i] = y
    BY <1>1, <1>3
  <2> HIDE DEF y
  <2>4. GoesOn(rows, rows', i)
    BY <1>3, <2>2, <2>3 DEF GoesOn, LiveIn
  <2>5. \A t \in Slots : req[t].at \in Turn => req[t].row # i
    BY <1>3 DEF LimitInv, TurnsOK, Turn
  <2> QED BY <1>1, <2>2, <2>3, <2>4, <2>5, LimitEdit
<1>4. ASSUME NEW i \in 1..Len(rows), LeaveDay(i) PROVE LimitInv'
  <2> DEFINE no == FALSE  y == [rows[i] EXCEPT !.recent = no]
  <2>1. rows' = [rows EXCEPT ![i].recent = no] /\ no \in BOOLEAN /\ rows[i] \in RowOf /\ ~no
    BY <1>1, <1>4 DEF LeaveDay
  <2> HIDE DEF no
  <2>2. /\ y \in RowOf /\ y.amount = rows[i].amount /\ y.at = rows[i].at /\ y.recent = no
        /\ y.decided = rows[i].decided /\ y.auto = rows[i].auto /\ y.status = rows[i].status
    BY <2>1 DEF RowOf
  <2>3. rows' = [rows EXCEPT ![i] = y] /\ rows'[i] = y
    BY <1>1, <2>1
  <2> HIDE DEF y
  <2>4. GoesOn(rows, rows', i)
    BY <1>4, <2>1, <2>2, <2>3 DEF GoesOn, LiveIn, LeaveDay
  <2> QED BY <1>1, <2>2, <2>3, <2>4, LimitEdit
<1>5. CASE Standing
  BY <1>2, <1>5 DEF Standing, tables
<1>6. ASSUME NEW c, ExpireCode(c) PROVE LimitInv'
  BY <1>2, <1>6 DEF ExpireCode
<1>7. ASSUME NEW i \in 1..Len(rows), Approve(i) PROVE LimitInv'
  BY <1>3, <1>7 DEF Approve
<1>8. ASSUME NEW i \in 1..Len(rows), Reject(i) PROVE LimitInv'
  BY <1>3, <1>8 DEF Reject
<1> QED BY <1>1, <1>4, <1>5, <1>6, <1>7, <1>8 DEF Around
-----------------------------------------------------------------------------
(***************************************************************************)
(* The invariants and what they are for.                                   *)
(***************************************************************************)
LEMMA InitOK == Init => TypeInv /\ KeyInv
<1> SUFFICES ASSUME Init PROVE TypeInv /\ KeyInv
  OBVIOUS
<1>1. rows = <<>> /\ challenges = <<>> /\ clock = 0 /\ policy.version = 0 /\ Len(rows) = 0
  BY DEF Init
<1>2. keys \in [KeyNames -> KeyOf]
  BY DEF Init, KeyNames, KeyOf, Free, Sums
<1>3. req \in [Slots -> Request] /\ \A s \in Slots : req[s] = NoWork
  BY NoWorkOK DEF Init
<1>4. Shape
  BY <1>1, <1>2, <1>3 DEF Shape
<1>5. RequestsOK /\ ChangesOK
  BY <1>3, NoWorkOK DEF RequestsOK, ChangesOK, ChangeOK
<1>6. \A s \in Slots : req[s].at \notin Owning /\ req[s].at \notin Early /\ req[s].at \notin Late
  BY <1>3, NoWorkOK DEF Owning
<1>7. KeyInv
  BY <1>1, <1>6 DEF KeyInv, OwnersClaimed, OwnersDiffer, FreeKeysUnused, NoRowYet, OwnRowOnly,
                    OneLiveRow
<1> QED BY <1>4, <1>5, <1>7 DEF TypeInv

LEMMA NextOK == TypeInv /\ [Next]_vars => Kept
<1> SUFFICES ASSUME TypeInv, [Next]_vars PROVE Kept
  OBVIOUS
<1>1. CASE UNCHANGED vars
  <2>1. /\ req' = req /\ keys' = keys /\ policy' = policy /\ clock' = clock
        /\ rows' = rows /\ challenges' = challenges
        /\ rows \in Seq(RowOf) /\ challenges \in Seq(ChallengeOf)
    BY <1>1 DEF vars, TypeInv, Shape
  <2>2. \A j \in 1..Len(rows) : rows'[j].key = rows[j].key /\ (Live(j)' => Live(j))
    BY <2>1 DEF Live
  <2> QED BY <2>1, <2>2, AroundMove
<1>2. CASE Around
  BY <1>2, AroundStep
<1>3. ASSUME NEW s \in Slots, Handler(s) PROVE Kept
  <2>1. CASE ClaimKey(s)
    BY <2>1, ClaimKeyStep
  <2>2. CASE Gates(s)
    BY <2>2, GatesStep
  <2>3. CASE InsertRow(s)
    BY <2>3, InsertRowStep
  <2>4. CASE FinalizeWithdrawalLimits(s)
    BY <2>4, FinalizeStep
  <2>5. CASE AutoPay(s)
    BY <2>5, AutoPayStep
  <2>6. CASE WriteAudit(s)
    BY <2>6, WriteAuditStep
  <2>7. CASE ReleaseKey(s)
    BY <2>7, ReleaseKeyStep
  <2>8. CASE CompleteKey(s)
    BY <2>8, CompleteKeyStep
  <2> QED BY <1>3, <2>1, <2>2, <2>3, <2>4, <2>5, <2>6, <2>7, <2>8 DEF Handler
<1>4. ASSUME NEW s \in Slots, Serve(s) PROVE Kept
  <2>1. CASE SupersedeActive(s)
    BY <2>1, SupersedeStep
  <2>2. CASE CreateChallenge(s)
    BY <2>2, CreateChallengeStep
  <2>3. CASE Resend(s)
    BY <2>3, ResendStep
  <2>4. CASE RotateOtp(s)
    BY <2>4, RotateOtpStep
  <2>5. CASE Verify(s)
    BY <2>5, VerifyStep
  <2>6. CASE VerifyOtp(s)
    BY <2>6, VerifyOtpStep
  <2>7. CASE Direct(s)
    BY <2>7, DirectStep
  <2>8. CASE EditPolicy(s)
    BY <2>8, EditPolicyStep
  <2>9. CASE UpdatePolicy(s)
    BY <2>9, UpdatePolicyStep
  <2> QED BY <1>4, <2>1, <2>2, <2>3, <2>4, <2>5, <2>6, <2>7, <2>8, <2>9 DEF Serve
<1> QED BY <1>1, <1>2, <1>3, <1>4 DEF Next

LEMMA LimitsStart == Init => LimitInv
<1> SUFFICES ASSUME Init PROVE LimitInv
  OBVIOUS
<1>1. rows = <<>> /\ Len(rows) = 0 /\ \A s \in Slots : req[s] = NoWork
  BY DEF Init
<1>2. TableOK(rows)
  BY <1>1 DEF TableOK, InOrder, DayOK, CeilingOK
<1>3. \A s \in Slots : req[s].at \notin Busy
  <2>1. "idle" \notin Busy
    BY DEF Busy, Turn
  <2> QED BY <1>1, <2>1, NoWorkOK
<1>4. StampsInOrder /\ TurnsOK /\ TurnsApart
  BY <1>1, <1>3 DEF StampsInOrder, TurnsOK, TurnsApart, Busy
<1>5. policy.rolling \in Nat
  BY LimitsAssumption DEF Init
<1> QED BY <1>2, <1>4, <1>5 DEF LimitInv

LEMMA LimitsStay == ClocksAgree /\ TypeInv /\ LimitInv /\ [Next]_vars => LimitInv'
<1> SUFFICES ASSUME ClocksAgree, TypeInv, LimitInv, [Next]_vars PROVE LimitInv'
  OBVIOUS
<1>1. TypeInv'
  BY NextOK DEF Kept
<1>2. CASE UNCHANGED vars
  BY <1>2, LimitQuiet DEF vars, LimitInv
<1>3. CASE Around
  BY <1>1, <1>3, AroundLimits
<1>4. ASSUME NEW s \in Slots, Handler(s) \/ Serve(s) PROVE LimitInv'
  <2>1. CASE Gates(s)
    BY <2>1, GatesLimits
  <2>2. CASE InsertRow(s)
    BY <1>1, <2>2, InsertLimits
  <2>3. CASE FinalizeWithdrawalLimits(s)
    BY <1>1, <2>3, FinalizeLimits
  <2>4. CASE AutoPay(s)
    BY <1>1, <2>4, AutoPayLimits
  <2> QED BY <1>4, <2>1, <2>2, <2>3, <2>4, QuietLimits DEF Handler, Serve
<1> QED BY <1>2, <1>3, <1>4 DEF Next

\* What a set of accepted rows is worth, if each of them fits with those before it.
LEMMA AcceptedFit ==
  ASSUME NEW r \in Seq(RowOf), InOrder(r), NEW lim \in Nat, NEW S \in SUBSET (1..Len(r)),
         NEW T, T \in [S -> SUBSET (1..Len(r))],
         \A j \in S : {i \in S : i < j} \subseteq T[j] /\ Sum(r, T[j]) + r[j].amount <= lim
  PROVE  Sum(r, S) <= lim
<1>1. ASSUME NEW j \in S PROVE Sum(r, {i \in S : i < j}) + r[j].amount <= lim
  <2>1. Sum(r, {i \in S : i < j}) <= Sum(r, T[j])
    BY SumShrinks
  <2>2. Sum(r, {i \in S : i < j}) \in Nat /\ Sum(r, T[j]) \in Nat /\ r[j].amount \in Nat
    BY UnitsFinite, AmountsNatural
  <2> QED BY <2>1, <2>2
<1> QED BY <1>1, NewestBounds

LEMMA LimitsFollow == TypeInv /\ LimitInv => DailyLimitHolds /\ AutoWithinCeiling
<1> SUFFICES ASSUME TypeInv, LimitInv PROVE DailyLimitHolds /\ AutoWithinCeiling
  OBVIOUS
<1>1. rows \in Seq(RowOf) /\ DOMAIN rows = 1..Len(rows) /\ TableOK(rows) /\ InOrder(rows)
      /\ DailyLimit \in Nat /\ HardRolling \in Nat
  BY LimitsAssumption DEF TypeInv, Shape, LimitInv, TableOK
<1>2. \A S : Total(S) = Sum(rows, S)
  BY DEF Total, Units, Sum, UnitsIn
<1>3. \A i \in Accepted : i \in 1..Len(rows) /\ rows[i].recent /\ LiveIn(rows, i) /\ rows[i].decided
  BY <1>1 DEF Accepted, Today, Live, LiveIn
<1>4. \A i \in 1..Len(rows) : rows[i].at \in Nat
  <2>1. \A i \in 1..Len(rows) : rows[i] \in RowOf
    BY <1>1
  <2> QED BY <2>1 DEF RowOf
<1>5. ASSUME NEW i \in Accepted, NEW j \in Accepted, i < j PROVE i \in EarlierIn(rows, j)
  <2>1. rows[i].at <= rows[j].at
    BY <1>1, <1>3, <1>5 DEF InOrder
  <2> QED BY <1>3, <1>4, <1>5, <2>1 DEF EarlierIn
<1>6. \A j \in 1..Len(rows) : /\ EarlierIn(rows, j) \subseteq 1..Len(rows)
                              /\ AutoIn(rows, j) \subseteq 1..Len(rows)
  BY DEF EarlierIn, AutoIn
<1>7. DailyLimitHolds
  <2> DEFINE S == Accepted  T == [j \in S |-> EarlierIn(rows, j)]
  <2>1. S \in SUBSET (1..Len(rows)) /\ T \in [S -> SUBSET (1..Len(rows))]
    BY <1>3, <1>6
  <2>2. ASSUME NEW j \in S
        PROVE  {i \in S : i < j} \subseteq T[j] /\ Sum(rows, T[j]) + rows[j].amount <= DailyLimit
    BY <1>1, <1>3, <1>5 DEF TableOK, DayOK, FitsDay
  <2> HIDE DEF S, T
  <2>3. Sum(rows, S) <= DailyLimit
    BY <1>1, <2>1, <2>2, AcceptedFit
  <2> QED BY <1>2, <2>3 DEF DailyLimitHolds, S
<1>8. AutoWithinCeiling
  <2> DEFINE S == {i \in Accepted : rows[i].auto}  T == [j \in S |-> AutoIn(rows, j)]
  <2>1. S \in SUBSET (1..Len(rows)) /\ T \in [S -> SUBSET (1..Len(rows))]
    BY <1>3, <1>6
  <2>2. ASSUME NEW j \in S
        PROVE  {i \in S : i < j} \subseteq T[j] /\ Sum(rows, T[j]) + rows[j].amount <= HardRolling
    <3>1. T[j] = AutoIn(rows, j) /\ j \in Accepted /\ rows[j].auto
      OBVIOUS
    <3>2. FitsCeiling(rows, j)
      BY <1>1, <1>3, <3>1 DEF TableOK, CeilingOK
    <3> QED BY <1>5, <3>1, <3>2 DEF FitsCeiling, AutoIn
  <2> HIDE DEF T
  <2>3. Sum(rows, S) <= HardRolling
    <3> HIDE DEF S
    <3> QED BY <1>1, <2>1, <2>2, AcceptedFit
  <2> QED BY <1>2, <2>3 DEF AutoWithinCeiling
<1> QED BY <1>7, <1>8

\* Type correctness: every table keeps its columns' types, what a request refers
\* to exists, and a pending policy change for the version in force was confirmed
\* if it widens it (services/disbursements.py, withdrawal_policy.py).
THEOREM TypeOfRequests == Spec => []TypeInv
<1>1. Init => TypeInv
  BY InitOK
<1>2. TypeInv /\ [Next]_vars => TypeInv'
  BY NextOK DEF Kept
<1> QED BY <1>1, <1>2, PTL DEF Spec

\* Every change of the automation policy that lets more money out than the policy
\* it replaced was confirmed, however many administrators edit at once: PUT
\* /policy compares with the policy it reads, and the database function with the
\* version under its lock.
THEOREM WideningIsConfirmed == Spec => WideningConfirmed
<1> DEFINE Confirmed == policy' # policy /\ Widens(policy, policy')
                          => \E s \in Slots : At(s, "save") /\ req[s].sure /\ req'[s] = NoWork
<1>1. TypeInv /\ [Next]_vars => [Confirmed]_vars
  <2> SUFFICES ASSUME TypeInv, Next, policy' # policy, Widens(policy, policy')
               PROVE  \E s \in Slots : At(s, "save") /\ req[s].sure /\ req'[s] = NoWork
    OBVIOUS
  <2>1. PICK s \in Slots : UpdatePolicy(s)
    BY DEF Next, Around, Handler, Serve, tables, Standing, Approve, Reject, LeaveDay, ExpireCode,
           ClaimKey, Gates, InsertRow, FinalizeWithdrawalLimits, AutoPay, WriteAudit, ReleaseKey,
           CompleteKey, SupersedeActive, CreateChallenge, Resend, RotateOtp, Verify, VerifyOtp,
           Direct, EditPolicy
  <2>2. /\ At(s, "save") /\ Current(req[s].ver) /\ req' = [req EXCEPT ![s] = NoWork]
        /\ policy' = [on |-> req[s].wish.on, max |-> req[s].wish.max,
                      rolling |-> req[s].wish.rolling, version |-> policy.version + 1]
    BY <2>1 DEF UpdatePolicy, Done
  <2>3. Widens(policy, req[s].wish)
    BY <2>2 DEF Widens
  <2>4. req[s].sure
    BY <2>2, <2>3 DEF TypeInv, ChangesOK, ChangeOK, At, Current
  <2>5. req'[s] = NoWork
    BY <2>2 DEF TypeInv, Shape
  <2> QED BY <2>2, <2>4, <2>5
<1> QED BY <1>1, TypeOfRequests, PTL DEF Spec, WideningConfirmed

\* run_idempotent's promise: of the rows made under one Idempotency-Key at most one
\* can still move money, whatever interleaves with the request - provided no
\* statement of the handler fails once its row is made: where one does, the key is
\* released with the row in place, and the retry withdraws again.
THEOREM OneWithdrawal == ASSUME HandlersFinish PROVE Spec => []OneWithdrawalPerKey
<1>1. Init => TypeInv /\ KeyInv
  BY InitOK
<1>2. TypeInv /\ KeyInv /\ [Next]_vars => (TypeInv /\ KeyInv)'
  BY NextOK DEF Kept
<1>3. TypeInv /\ KeyInv => OneWithdrawalPerKey
  <2> SUFFICES ASSUME TypeInv, KeyInv, NEW i \in DOMAIN rows, NEW j \in DOMAIN rows,
                      i # j, rows[i].key = rows[j].key
               PROVE  ~Live(i) \/ ~Live(j)
    BY DEF OneWithdrawalPerKey
  <2>1. i \in 1..Len(rows) /\ j \in 1..Len(rows)
    BY DEF TypeInv, Shape
  <2> QED BY <2>1 DEF KeyInv, OneLiveRow
<1> QED BY <1>1, <1>2, <1>3, PTL DEF Spec

\* The invariant behind the limits: each row accepted fitted, together with all rows
\* stamped before it that still count, the limits in force.
THEOREM LimitInvariant == ASSUME ClocksAgree PROVE Spec => [](TypeInv /\ LimitInv)
<1>1. Init => TypeInv /\ LimitInv
  BY InitOK, LimitsStart
<1>2. TypeInv /\ LimitInv /\ [Next]_vars => (TypeInv /\ LimitInv)'
  BY NextOK, LimitsStay DEF Kept
<1> QED BY <1>1, <1>2, PTL DEF Spec

\* finalize_withdrawal_limits keeps its first promise, whatever interleaves and
\* whatever policies are saved: what was accepted in the last 24 hours stays within
\* the daily limit - provided the replicas' clocks agree with the order of their
\* insertions (initiated_at is read before the row is inserted, and orders the
\* withdrawals).
THEOREM DayIsLimited == ASSUME ClocksAgree PROVE Spec => []DailyLimitHolds
<1>1. TypeInv /\ LimitInv => DailyLimitHolds
  BY LimitsFollow
<1> QED BY <1>1, LimitInvariant, PTL

\* And its second: what automation accepted of it stays within the deployment's
\* ceiling, although several requests are judged at once and administrators save
\* policies meanwhile.
THEOREM AutomationIsLimited == ASSUME ClocksAgree PROVE Spec => []AutoWithinCeiling
<1>1. TypeInv /\ LimitInv => AutoWithinCeiling
  BY LimitsFollow
<1> QED BY <1>1, LimitInvariant, PTL
=============================================================================
