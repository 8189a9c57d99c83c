------------------------- MODULE Withdrawals_proofs -------------------------
(***************************************************************************)
(* Theorems about Withdrawals that hold for every number of withdrawals,   *)
(* requests, replicas, starts and crashes, whatever Selcom answers.        *)
(*                                                                         *)
(* The inductive invariant IInv says, beside the types, that what a        *)
(* request carries across an await still names something: a transaction    *)
(* row and a payout attempt that exist, and for a request about to record  *)
(* SUCCESS, a payment that Selcom made.  Other requests may overwrite the  *)
(* withdrawal row meanwhile; they cannot undo a payment or delete a row,   *)
(* which is why these facts survive every interleaving.                    *)
(***************************************************************************)
EXTENDS Withdrawals, TLAPS, WellFoundedInduction, FiniteSetTheorems

\* Selcom made a payment for w, even if it came back.
WasPaid(w) == \E n \in DOMAIN payout[w] : payout[w][n] \in {"paid", "bounced"}

HoldsTxn == {"post", "mark", "pay", "paying", "settle", "unwind"}

\* What the locals of request q refer to exists.
RequestOK(q) ==
  /\ q.at # "idle" => q.w \in Withdrawals /\ q.ref \in 0..Len(payout[q.w])
  /\ q.at \in HoldsTxn => q.txn \in 1..Len(txns[q.w])
  /\ q.at = "paying" => q.attempt \in 1..Len(payout[q.w])
  /\ q.at \in {"asking", "querying"} => q.ref # 0
  /\ q.at = "settle" => WasPaid(q.w)

RequestsOK == \A r \in Requests : RequestOK(req[r])

\* A provider reference names an attempt that was sent.
RefsExist == \A w \in Withdrawals : ref[w] \in 0..Len(payout[w])

IInv == TypeOK /\ RequestsOK /\ RefsExist /\ SuccessWasPaid
-----------------------------------------------------------------------------
(***************************************************************************)
(* The newest row that is not reversed.                                    *)
(***************************************************************************)
\* A nonempty set of positions has a last one.
LEMMA LastPosition ==
  ASSUME NEW n \in Nat, NEW S \in SUBSET (1..n), S # {}
  PROVE  \E i \in S : \A j \in S : j <= i
<1> DEFINE R == {ss \in Nat \X Nat : ss[1] < ss[2]}
           T == {k \in Nat : n - k \in S}
<1>1. IsWellFoundedOn(R, Nat)
  BY NatLessThanWellFounded DEF OpToRel
<1>2. \A j \in S : j \in 1..n /\ n - j \in T /\ n - (n - j) = j
  <2> SUFFICES ASSUME NEW j \in S PROVE j \in 1..n /\ n - j \in T /\ n - (n - j) = j
    OBVIOUS
  <2>1. j \in 1..n
    OBVIOUS
  <2>2. n - j \in Nat /\ n - (n - j) = j
    BY <2>1
  <2> QED BY <2>1, <2>2
<1>3. PICK x \in T : \A y \in T : ~ (<<y, x>> \in R)
  <2>1. T \subseteq Nat /\ T # {}
    BY <1>2
  <2> HIDE DEF R, T
  <2> QED BY <1>1, <2>1, WFMin
<1>4. \A y \in T : x <= y
  <2> SUFFICES ASSUME NEW y \in T PROVE x <= y
    OBVIOUS
  <2>1. x \in Nat /\ y \in Nat
    OBVIOUS
  <2>2. y < x => <<y, x>> \in R
    BY <2>1
  <2> QED BY <1>3, <2>1, <2>2
<1>5. n - x \in S /\ x \in Nat
  OBVIOUS
<1>6. \A j \in S : j <= n - x
  BY <1>2, <1>4, <1>5
<1> QED BY <1>5, <1>6

\* _find_transaction_for_disbursement returns a row of the withdrawal or none.
LEMMA LiveTxnExists ==
  ASSUME TypeOK, NEW w \in Withdrawals, LiveTxn(w) # 0
  PROVE  LiveTxn(w) \in 1..Len(txns[w])
<1>1. txns[w] \in Seq(Txn) /\ Len(txns[w]) \in Nat
  BY DEF TypeOK
<1>2. Unreversed(w) \subseteq 1..Len(txns[w]) /\ Unreversed(w) # {}
  BY <1>1 DEF Unreversed, LiveTxn
<1>3. \E i \in Unreversed(w) : \A j \in Unreversed(w) : j <= i
  BY <1>1, <1>2, LastPosition
<1>4. LiveTxn(w) \in Unreversed(w)
  BY <1>2, <1>3 DEF LiveTxn
<1> QED BY <1>2, <1>4
-----------------------------------------------------------------------------
(***************************************************************************)
(* The tables only grow: no handler deletes a transaction row, and Selcom  *)
(* never forgets an attempt or a payment.                                  *)
(***************************************************************************)
Grows == \A w \in Withdrawals :
  /\ Len(txns[w]) <= Len(txns'[w])
  /\ Len(payout[w]) <= Len(payout'[w])
  /\ WasPaid(w) => WasPaid(w)'

\* What a request refers to stays there while the tables grow.
LEMMA RequestStaysOK ==
  ASSUME TypeOK, TypeOK', Grows, NEW q \in Request, RequestOK(q)
  PROVE  RequestOK(q)'
<1>1. CASE q.at = "idle"
  BY <1>1 DEF RequestOK, HoldsTxn
<1>2. CASE q.at # "idle"
  <2>1. q.w \in Withdrawals
    BY <1>2 DEF RequestOK
  <2>2. /\ Len(txns[q.w]) \in Nat /\ Len(payout[q.w]) \in Nat
        /\ Len(txns'[q.w]) \in Nat /\ Len(payout'[q.w]) \in Nat
    BY <2>1 DEF TypeOK
  <2>3. /\ Len(txns[q.w]) <= Len(txns'[q.w])
        /\ Len(payout[q.w]) <= Len(payout'[q.w])
        /\ WasPaid(q.w) => WasPaid(q.w)'
    BY <2>1 DEF Grows
  <2>4. q.ref \in Nat /\ q.txn \in Nat /\ q.attempt \in Nat
    BY DEF Request
  <2> QED BY <2>1, <2>2, <2>3, <2>4 DEF RequestOK, HoldsTxn
<1> QED BY <1>1, <1>2

\* A step of request r that keeps the types, lets the tables grow, leaves r in
\* order and records SUCCESS only for what was paid keeps the invariant.
LEMMA StepKeepsIInv ==
  ASSUME IInv, TypeOK', Grows, NEW r \in Requests,
         \A u \in Requests \ {r} : req'[u] = req[u],
         RequestOK(req[r])', RefsExist',
         \A w \in Withdrawals :
           status'[w] = "SUCCESS" => status[w] = "SUCCESS" \/ WasPaid(w)'
  PROVE  IInv'
<1>1. RequestsOK'
  <2> SUFFICES ASSUME NEW u \in Requests PROVE RequestOK(req[u])'
    BY DEF RequestsOK
  <2>1. CASE u = r
    BY <2>1
  <2>2. CASE u # r
    <3>1. req'[u] = req[u] /\ req[u] \in Request /\ RequestOK(req[u])
      BY <2>2 DEF IInv, TypeOK, RequestsOK
    <3>2. PICK q \in Request : q = req[u]
      BY <3>1
    <3>3. RequestOK(q)
      BY <3>1, <3>2
    <3>4. RequestOK(q)'
      BY <3>3, RequestStaysOK DEF IInv
    <3> QED BY <3>1, <3>2, <3>4 DEF RequestOK, WasPaid
  <2> QED BY <2>1, <2>2
<1>2. SuccessWasPaid'
  BY DEF IInv, SuccessWasPaid, Grows, WasPaid
<1> QED BY <1>1, <1>2 DEF IInv

\* Most steps are steps of a handler, which calls nobody and leaves Selcom's
\* record alone: the rows it writes are in order ...
RowsOK ==
  /\ status' \in [Withdrawals -> Statuses] /\ txns' \in [Withdrawals -> Seq(Txn)]
  /\ ref' \in [Withdrawals -> Nat] /\ wallet' \in Nat /\ starts' \in Nat
  /\ UNCHANGED <<cleared, payout, aborts>>
  /\ \A w \in Withdrawals :
       /\ Len(txns[w]) <= Len(txns'[w])
       /\ ref'[w] \in 0..Len(payout[w])
       /\ status'[w] = "SUCCESS" => status[w] = "SUCCESS" \/ WasPaid(w)

\* ... and so is q, what the request has become.
Becomes(r, q, who) ==
  /\ Step(r, q, who) \/ (req' = [req EXCEPT ![r] = q] /\ UNCHANGED loop)
  /\ q \in Request /\ who \in {r, NoRequest}
  /\ q.at # "idle" => q.w \in Withdrawals /\ q.ref \in 0..Len(payout[q.w])
  /\ q.at \in HoldsTxn => q.txn \in 1..Len(txns'[q.w])
  /\ q.at # "paying"
  /\ q.at \in {"asking", "querying"} => q.ref # 0
  /\ q.at = "settle" => WasPaid(q.w)

LEMMA HandlerStep ==
  ASSUME IInv, NEW r \in Requests, NEW q, NEW who, RowsOK, Becomes(r, q, who)
  PROVE  IInv'
<1>1. /\ req' = [req EXCEPT ![r] = q]
      /\ loop' = loop \/ loop' = [loop EXCEPT ![ReplicaOf[r]] = who]
  BY DEF Step, Becomes
<1>2. /\ req' \in [Requests -> Request]
      /\ loop' \in [Replicas -> Requests \cup {NoRequest}]
      /\ req'[r] = q /\ \A u \in Requests \ {r} : req'[u] = req[u]
  BY <1>1 DEF IInv, TypeOK, Becomes
<1>3. TypeOK'
  BY <1>2 DEF IInv, TypeOK, RowsOK
<1>4. \A w \in Withdrawals : Len(payout'[w]) \in Nat /\ (WasPaid(w)' <=> WasPaid(w))
  BY <1>3 DEF TypeOK, WasPaid, RowsOK
<1>5. Grows
  BY <1>3, <1>4 DEF Grows, TypeOK, RowsOK
<1>6. RequestOK(req[r])'
  BY <1>2, <1>4 DEF RequestOK, HoldsTxn, WasPaid, Becomes, RowsOK
<1>7. RefsExist'
  BY DEF RefsExist, RowsOK
<1>8. \A w \in Withdrawals :
        status'[w] = "SUCCESS" => status[w] = "SUCCESS" \/ WasPaid(w)'
  BY <1>4 DEF RowsOK
<1> QED BY <1>2, <1>3, <1>5, <1>6, <1>7, <1>8, StepKeepsIInv

\* The request has ended.
LEMMA Ended ==
  ASSUME NEW r \in Requests, Done(r)
  PROVE  Becomes(r, NoWork, NoRequest)
BY DEF Done, Await, Becomes, NoWork, Request, Statuses, HoldsTxn
-----------------------------------------------------------------------------
(***************************************************************************)
(* What the helpers of the specification do to the types.                  *)
(***************************************************************************)
LEMMA WorkFacts ==
  ASSUME NEW op \in OpNames, NEW w \in Withdrawals, NEW p \in Places
  PROVE  LET q == Work(op, w, p) IN
         q \in Request /\ q.at = p /\ q.op = op /\ q.w = w /\ q.ref = 0 /\ q.txn = 0
BY DEF Work, NoWork, Request, Statuses

LEMMA ToFacts ==
  ASSUME TypeOK, NEW r \in Requests, NEW p \in Places
  PROVE  LET q == To(r, p) IN
         /\ q \in Request /\ q.at = p /\ q.w = req[r].w /\ q.ref = req[r].ref
         /\ q.txn = req[r].txn /\ q.attempt = req[r].attempt
BY DEF To, TypeOK, Request

\* A request that is somewhere: its row and what it refers to.
LEMMA AtFacts ==
  ASSUME IInv, NEW r \in Requests, req[r].at # "idle"
  PROVE  LET w == req[r].w IN
         /\ req[r] \in Request /\ w \in Withdrawals /\ req[r].ref \in 0..Len(payout[w])
         /\ Price[w] \in Nat /\ txns[w] \in Seq(Txn) /\ payout[w] \in Seq(Payout)
         /\ Len(txns[w]) \in Nat /\ Len(payout[w]) \in Nat
         /\ req[r].at \in HoldsTxn => req[r].txn \in 1..Len(txns[w])
BY WithdrawalsAssumption DEF IInv, TypeOK, RequestsOK, RequestOK

LEMMA StatusSet ==
  ASSUME TypeOK, NEW w \in Withdrawals, NEW s \in Statuses, SetStatus(w, s)
  PROVE  /\ status' \in [Withdrawals -> Statuses]
         /\ \A v \in Withdrawals : status'[v] = IF v = w THEN s ELSE status[v]
BY DEF TypeOK, SetStatus

LEMMA RefSet ==
  ASSUME IInv, NEW w \in Withdrawals, NEW n \in 0..Len(payout[w]), SetRef(w, n)
  PROVE  /\ ref' \in [Withdrawals -> Nat]
         /\ \A v \in Withdrawals : ref'[v] \in 0..Len(payout[v])
BY DEF IInv, TypeOK, RefsExist, SetRef

LEMMA RefKept ==
  ASSUME IInv, UNCHANGED ref
  PROVE  /\ ref' \in [Withdrawals -> Nat]
         /\ \A v \in Withdrawals : ref'[v] \in 0..Len(payout[v])
BY DEF IInv, TypeOK, RefsExist

LEMMA TxnsKept ==
  ASSUME TypeOK, UNCHANGED txns
  PROVE  /\ txns' \in [Withdrawals -> Seq(Txn)]
         /\ \A v \in Withdrawals : Len(txns'[v]) = Len(txns[v]) /\ Len(txns[v]) \in Nat
BY DEF TypeOK

\* One row of one withdrawal is replaced.
LEMMA TxnReplaced ==
  ASSUME TypeOK, NEW w \in Withdrawals, NEW i \in 1..Len(txns[w]), NEW t \in Txn,
         txns' = [txns EXCEPT ![w] = [txns[w] EXCEPT ![i] = t]]
  PROVE  /\ txns' \in [Withdrawals -> Seq(Txn)]
         /\ \A v \in Withdrawals : Len(txns'[v]) = Len(txns[v]) /\ Len(txns[v]) \in Nat
<1>1. txns[w] \in Seq(Txn)
  BY DEF TypeOK
<1>2. [txns[w] EXCEPT ![i] = t] \in Seq(Txn) /\ Len([txns[w] EXCEPT ![i] = t]) = Len(txns[w])
  BY <1>1
<1> QED BY <1>2 DEF TypeOK

LEMMA TxnSet ==
  ASSUME TypeOK, NEW w \in Withdrawals, NEW i \in 1..Len(txns[w]),
         NEW s \in {"processing", "failed", "successful", "reversed"}, SetTxn(w, i, s)
  PROVE  /\ txns' \in [Withdrawals -> Seq(Txn)]
         /\ \A v \in Withdrawals : Len(txns'[v]) = Len(txns[v]) /\ Len(txns[v]) \in Nat
<1>1. txns[w][i] \in Txn
  BY DEF TypeOK
<1>2. [txns[w][i] EXCEPT !.status = s] \in Txn
  BY <1>1 DEF Txn
<1>3. txns' = [txns EXCEPT ![w] = [txns[w] EXCEPT ![i] = [txns[w][i] EXCEPT !.status = s]]]
  BY DEF SetTxn
<1> QED BY <1>2, <1>3, TxnReplaced

LEMMA Credited ==
  ASSUME TypeOK, NEW w \in Withdrawals, NEW i \in 1..Len(txns[w]), CreditBack(w, i)
  PROVE  /\ txns' \in [Withdrawals -> Seq(Txn)] /\ wallet' \in Nat
         /\ \A v \in Withdrawals : Len(txns'[v]) = Len(txns[v]) /\ Len(txns[v]) \in Nat
<1>1. txns[w][i] \in Txn /\ Price[w] \in Nat /\ wallet \in Nat
  BY WithdrawalsAssumption DEF TypeOK
<1>2. [txns[w][i] EXCEPT !.credits = @ + 1] \in Txn
  BY <1>1 DEF Txn
<1>3. txns' = [txns EXCEPT ![w] = [txns[w] EXCEPT ![i] = [txns[w][i] EXCEPT !.credits = @ + 1]]]
  BY DEF CreditBack
<1>4. wallet' \in Nat
  BY <1>1 DEF CreditBack
<1> QED BY <1>2, <1>3, <1>4, TxnReplaced
-----------------------------------------------------------------------------
(***************************************************************************)
(* One lemma per action.                                                   *)
(***************************************************************************)

LEMMA SubmitKeepsIInv ==
  ASSUME IInv, NEW r \in Requests, NEW w \in Withdrawals, Submit(r, w)
  PROVE  IInv'
<1> DEFINE q == Work("submit", w, "finalize")
<1>1. TypeOK
  BY DEF IInv
<1>2. q \in Request /\ q.at = "finalize" /\ q.w = w /\ q.ref = 0
  BY WorkFacts DEF OpNames, Places
<1>3. /\ Step(r, q, r) /\ SetStatus(w, "PENDING_ADMIN_APPROVAL")
      /\ UNCHANGED <<ref, txns, wallet, cleared, payout, starts, aborts>>
  BY DEF Submit, Keep, env
<1>4. /\ status' \in [Withdrawals -> Statuses]
      /\ \A v \in Withdrawals : status'[v] = "SUCCESS" => status[v] = "SUCCESS"
  BY <1>1, <1>3, StatusSet DEF Statuses
<1>5. Len(payout[w]) \in Nat
  BY <1>1 DEF TypeOK
<1> HIDE DEF q
<1>6. RowsOK
  BY <1>1, <1>3, <1>4, RefKept, TxnsKept DEF RowsOK, TypeOK
<1>7. Becomes(r, q, r)
  BY <1>2, <1>3, <1>5 DEF Becomes, HoldsTxn
<1> QED BY <1>6, <1>7, HandlerStep

LEMMA FinalizeKeepsIInv ==
  ASSUME IInv, NEW r \in Requests, NEW outcome, Finalize(r, outcome)
  PROVE  IInv'
<1> DEFINE w == req[r].w  q == To(r, "reserve")
<1>1. TypeOK /\ req[r].at = "finalize"
  BY DEF IInv, Finalize, GoesOn
<1>2. w \in Withdrawals /\ req[r].ref \in 0..Len(payout[w])
  BY <1>1, AtFacts
<1>3. UNCHANGED <<ref, txns, wallet, cleared, payout, aborts>>
  BY DEF Finalize
<1>4. CASE SetStatus(w, "REJECTED") /\ Done(r) /\ UNCHANGED starts
  <2>1. /\ status' \in [Withdrawals -> Statuses]
        /\ \A v \in Withdrawals : status'[v] = "SUCCESS" => status[v] = "SUCCESS"
    BY <1>1, <1>2, <1>4, StatusSet DEF Statuses
  <2>2. RowsOK
    BY <1>1, <1>3, <1>4, <2>1, RefKept, TxnsKept DEF RowsOK, TypeOK
  <2> QED BY <1>4, <2>2, Ended, HandlerStep
<1>5. CASE Done(r) /\ UNCHANGED <<status, starts>>
  <2>1. RowsOK
    BY <1>1, <1>3, <1>5, RefKept, TxnsKept DEF RowsOK, TypeOK
  <2> QED BY <1>5, <2>1, Ended, HandlerStep
<1>6. CASE Keep(r, q) /\ starts' = starts + 1 /\ UNCHANGED status
  <2>1. RowsOK
    BY <1>1, <1>3, <1>6, RefKept, TxnsKept DEF RowsOK, TypeOK
  <2>2. q \in Request /\ q.at = "reserve" /\ q.w = w /\ q.ref = req[r].ref
    BY <1>1, ToFacts DEF Places
  <2> HIDE DEF q, w
  <2>3. Becomes(r, q, r)
    BY <1>2, <1>6, <2>2 DEF Becomes, HoldsTxn, Keep
  <2> QED BY <2>1, <2>3, HandlerStep
<1> QED BY <1>4, <1>5, <1>6 DEF Finalize

LEMMA ApproveKeepsIInv ==
  ASSUME IInv, NEW r \in Requests, NEW w \in Withdrawals, Approve(r, w)
  PROVE  IInv'
<1> DEFINE q == Work("approve", w, "reserve")
<1>1. TypeOK
  BY DEF IInv
<1>2. q \in Request /\ q.at = "reserve" /\ q.w = w /\ q.ref = 0
  BY WorkFacts DEF OpNames, Places
<1>3. /\ Step(r, q, r) /\ starts' = starts + 1
      /\ UNCHANGED <<status, ref, txns, wallet, cleared, payout, aborts>>
  BY DEF Approve, Keep, rows
<1>4. Len(payout[w]) \in Nat
  BY <1>1 DEF TypeOK
<1> HIDE DEF q
<1>5. RowsOK
  BY <1>1, <1>3, RefKept, TxnsKept DEF RowsOK, TypeOK
<1>6. Becomes(r, q, r)
  BY <1>2, <1>3, <1>4 DEF Becomes, HoldsTxn
<1> QED BY <1>5, <1>6, HandlerStep

LEMMA OpenTxnKeepsIInv ==
  ASSUME IInv, NEW r \in Requests, OpenTxn(r)
  PROVE  IInv'
<1> DEFINE w == req[r].w
           t == [status |-> "processing", debits |-> 0, credits |-> 0]
           q == [req[r] EXCEPT !.at = "post", !.txn = Len(txns[w]) + 1]
<1>1. TypeOK /\ req[r].at = "reserve"
  BY DEF IInv, OpenTxn, GoesOn
<1>2. /\ w \in Withdrawals /\ req[r] \in Request /\ req[r].ref \in 0..Len(payout[w])
      /\ txns[w] \in Seq(Txn) /\ Len(txns[w]) \in Nat
  BY <1>1, AtFacts
<1>3. /\ Step(r, q, r) /\ txns' = [txns EXCEPT ![w] = Append(txns[w], t)]
      /\ UNCHANGED <<status, ref, wallet, cleared, payout, starts, aborts>>
  BY DEF OpenTxn, Keep, env
<1>4. /\ Append(txns[w], t) \in Seq(Txn)
      /\ Len(Append(txns[w], t)) = Len(txns[w]) + 1
  BY <1>2 DEF Txn
<1>5. /\ txns' \in [Withdrawals -> Seq(Txn)] /\ Len(txns'[w]) = Len(txns[w]) + 1
      /\ \A v \in Withdrawals : Len(txns[v]) <= Len(txns'[v])
  BY <1>1, <1>2, <1>3, <1>4 DEF TypeOK
<1>6. /\ q \in Request /\ q.at = "post" /\ q.w = w /\ q.ref = req[r].ref
      /\ q.txn = Len(txns[w]) + 1
  <2>1. PICK x \in Request, n \in Nat : x = req[r] /\ x.w = w /\ n = Len(txns[w]) + 1
    BY <1>2
  <2>2. "post" \in Places
    BY DEF Places
  <2>3. q = [x EXCEPT !.at = "post", !.txn = n]
    BY <2>1
  <2> HIDE DEF q, w
  <2> QED BY <2>1, <2>2, <2>3 DEF Request
<1> HIDE DEF q, w, t
<1>7. RowsOK
  BY <1>1, <1>3, <1>5, RefKept DEF RowsOK, TypeOK
<1>8. Becomes(r, q, r)
  BY <1>2, <1>3, <1>5, <1>6 DEF Becomes, HoldsTxn
<1> QED BY <1>7, <1>8, HandlerStep

LEMMA PostReservationKeepsIInv ==
  ASSUME IInv, NEW r \in Requests, PostReservation(r)
  PROVE  IInv'
<1> DEFINE w == req[r].w  i == req[r].txn  q == To(r, "mark")
           t == [txns[w][i] EXCEPT !.debits = @ + 1]
<1>1. TypeOK /\ req[r].at = "post" /\ Price[w] <= wallet
  BY DEF IInv, PostReservation, GoesOn
<1>2. /\ w \in Withdrawals /\ req[r].ref \in 0..Len(payout[w]) /\ Price[w] \in Nat
      /\ txns[w] \in Seq(Txn) /\ i \in 1..Len(txns[w])
  BY <1>1, AtFacts DEF HoldsTxn
<1>3. /\ Step(r, q, r) /\ wallet' = wallet - Price[w]
      /\ txns' = [txns EXCEPT ![w] = [txns[w] EXCEPT ![i] = t]]
      /\ UNCHANGED <<status, ref, cleared, payout, starts, aborts>>
  BY DEF PostReservation, Keep, env
<1>4. txns[w][i] \in Txn
  BY <1>2
<1>5. t \in Txn
  BY <1>4 DEF Txn
<1> HIDE DEF t
<1>6. /\ txns' \in [Withdrawals -> Seq(Txn)]
      /\ \A v \in Withdrawals : Len(txns'[v]) = Len(txns[v]) /\ Len(txns[v]) \in Nat
  BY <1>1, <1>2, <1>3, <1>5, TxnReplaced
<1>7. q \in Request /\ q.at = "mark" /\ q.w = w /\ q.ref = req[r].ref /\ q.txn = i
  BY <1>1, ToFacts DEF Places
<1>8. wallet' \in Nat
  BY <1>1, <1>2, <1>3 DEF TypeOK
<1> HIDE DEF q, w, i
<1>9. RowsOK
  BY <1>1, <1>3, <1>6, <1>8, RefKept DEF RowsOK, TypeOK
<1>10. Becomes(r, q, r)
  BY <1>2, <1>3, <1>6, <1>7 DEF Becomes, HoldsTxn
<1> QED BY <1>9, <1>10, HandlerStep

LEMMA RefuseDebitKeepsIInv ==
  ASSUME IInv, NEW r \in Requests, RefuseDebit(r)
  PROVE  IInv'
<1> DEFINE w == req[r].w  i == req[r].txn  q == To(r, "refuse")
<1>1. TypeOK /\ req[r].at = "post"
  BY DEF IInv, RefuseDebit, GoesOn
<1>2. /\ w \in Withdrawals /\ req[r].ref \in 0..Len(payout[w])
      /\ i \in 1..Len(txns[w])
  BY <1>1, AtFacts DEF HoldsTxn
<1>3. /\ Step(r, q, r) /\ SetTxn(w, i, "failed")
      /\ UNCHANGED <<status, ref, wallet, cleared, payout, starts, aborts>>
  BY DEF RefuseDebit, Keep, env
<1>4. /\ txns' \in [Withdrawals -> Seq(Txn)]
      /\ \A v \in Withdrawals : Len(txns'[v]) = Len(txns[v]) /\ Len(txns[v]) \in Nat
  BY <1>1, <1>2, <1>3, TxnSet
<1>5. q \in Request /\ q.at = "refuse" /\ q.w = w /\ q.ref = req[r].ref
  BY <1>1, ToFacts DEF Places
<1> HIDE DEF q, w, i
<1>6. RowsOK
  BY <1>1, <1>3, <1>4, RefKept DEF RowsOK, TypeOK
<1>7. Becomes(r, q, r)
  BY <1>2, <1>3, <1>4, <1>5 DEF Becomes, HoldsTxn
<1> QED BY <1>6, <1>7, HandlerStep

LEMMA RefuseReservationKeepsIInv ==
  ASSUME IInv, NEW r \in Requests, RefuseReservation(r)
  PROVE  IInv'
<1> DEFINE w == req[r].w
<1>1. TypeOK /\ req[r].at = "refuse"
  BY DEF IInv, RefuseReservation, GoesOn
<1>2. w \in Withdrawals
  BY <1>1, AtFacts
<1>3. /\ Done(r) /\ SetStatus(w, "FAILED")
      /\ UNCHANGED <<ref, txns, wallet, cleared, payout, starts, aborts>>
  BY DEF RefuseReservation, env
<1>4. /\ status' \in [Withdrawals -> Statuses]
      /\ \A v \in Withdrawals : status'[v] = "SUCCESS" => status[v] = "SUCCESS"
  BY <1>1, <1>2, <1>3, StatusSet DEF Statuses
<1>5. RowsOK
  BY <1>1, <1>3, <1>4, RefKept, TxnsKept DEF RowsOK, TypeOK
<1>6. Becomes(r, NoWork, NoRequest)
  BY <1>3, Ended
<1> QED BY <1>5, <1>6, HandlerStep

LEMMA MarkProcessingKeepsIInv ==
  ASSUME IInv, NEW r \in Requests, MarkProcessing(r)
  PROVE  IInv'
<1> DEFINE w == req[r].w  q == To(r, "pay")
<1>1. TypeOK /\ req[r].at = "mark"
  BY DEF IInv, MarkProcessing, GoesOn
<1>2. /\ w \in Withdrawals /\ req[r].ref \in 0..Len(payout[w])
      /\ req[r].txn \in 1..Len(txns[w])
  BY <1>1, AtFacts DEF HoldsTxn
<1>3. /\ Step(r, q, r) /\ SetStatus(w, "PROCESSING")
      /\ UNCHANGED <<ref, txns, wallet, cleared, payout, starts, aborts>>
  BY DEF MarkProcessing, Keep, env
<1>4. /\ status' \in [Withdrawals -> Statuses]
      /\ \A v \in Withdrawals : status'[v] = "SUCCESS" => status[v] = "SUCCESS"
  BY <1>1, <1>2, <1>3, StatusSet DEF Statuses
<1>5. q \in Request /\ q.at = "pay" /\ q.w = w /\ q.ref = req[r].ref /\ q.txn = req[r].txn
  BY <1>1, ToFacts DEF Places
<1> HIDE DEF q, w
<1>6. RowsOK
  BY <1>1, <1>3, <1>4, RefKept, TxnsKept DEF RowsOK, TypeOK
<1>7. Becomes(r, q, r)
  BY <1>2, <1>3, <1>5 DEF Becomes, HoldsTxn
<1> QED BY <1>6, <1>7, HandlerStep

LEMMA BadRecipientKeepsIInv ==
  ASSUME IInv, NEW r \in Requests, BadRecipient(r)
  PROVE  IInv'
<1> DEFINE w == req[r].w
<1>1. TypeOK /\ req[r].at = "pay"
  BY DEF IInv, BadRecipient, GoesOn
<1>2. w \in Withdrawals
  BY <1>1, AtFacts
<1>3. /\ Done(r) /\ SetStatus(w, "NEEDS_ADMIN_ATTENTION")
      /\ UNCHANGED <<ref, txns, wallet, cleared, payout, starts, aborts>>
  BY DEF BadRecipient, env
<1>4. /\ status' \in [Withdrawals -> Statuses]
      /\ \A v \in Withdrawals : status'[v] = "SUCCESS" => status[v] = "SUCCESS"
  BY <1>1, <1>2, <1>3, StatusSet DEF Statuses
<1>5. RowsOK
  BY <1>1, <1>3, <1>4, RefKept, TxnsKept DEF RowsOK, TypeOK
<1>6. Becomes(r, NoWork, NoRequest)
  BY <1>3, Ended
<1> QED BY <1>5, <1>6, HandlerStep

\* An attempt joins Selcom's record; what was paid stays paid.
LEMMA SendPayoutKeepsIInv ==
  ASSUME IInv, NEW r \in Requests, SendPayout(r)
  PROVE  IInv'
<1> DEFINE w == req[r].w
           q == [req[r] EXCEPT !.at = "paying", !.attempt = Len(payout[w]) + 1]
<1>1. TypeOK /\ req[r].at = "pay"
  BY DEF IInv, SendPayout, GoesOn
<1>2. /\ w \in Withdrawals /\ req[r] \in Request /\ req[r].ref \in 0..Len(payout[w])
      /\ payout[w] \in Seq(Payout) /\ Len(payout[w]) \in Nat
      /\ req[r].txn \in 1..Len(txns[w])
  BY <1>1, AtFacts DEF HoldsTxn
<1>3. /\ req' = [req EXCEPT ![r] = q] /\ loop' = [loop EXCEPT ![ReplicaOf[r]] = NoRequest]
      /\ payout' = [payout EXCEPT ![w] = Append(payout[w], "sent")]
      /\ UNCHANGED <<status, ref, txns, wallet, cleared, starts, aborts>>
  BY DEF SendPayout, Await, Step, rows
<1>4. /\ Append(payout[w], "sent") \in Seq(Payout)
      /\ Len(Append(payout[w], "sent")) = Len(payout[w]) + 1
      /\ \A n \in 1..Len(payout[w]) : Append(payout[w], "sent")[n] = payout[w][n]
  BY <1>2 DEF Payout
<1>5. /\ payout' \in [Withdrawals -> Seq(Payout)] /\ Len(payout'[w]) = Len(payout[w]) + 1
      /\ \A v \in Withdrawals : /\ Len(payout[v]) <= Len(payout'[v])
                                /\ \A n \in 1..Len(payout[v]) : payout'[v][n] = payout[v][n]
  BY <1>1, <1>2, <1>3, <1>4 DEF TypeOK
<1>6. /\ q \in Request /\ q.at = "paying" /\ q.w = w /\ q.ref = req[r].ref
      /\ q.txn = req[r].txn /\ q.attempt = Len(payout[w]) + 1
  <2>1. PICK x \in Request, n \in Nat : x = req[r] /\ x.w = w /\ n = Len(payout[w]) + 1
    BY <1>2
  <2>2. "paying" \in Places
    BY DEF Places, Awaits
  <2>3. q = [x EXCEPT !.at = "paying", !.attempt = n]
    BY <2>1
  <2> HIDE DEF q, w
  <2> QED BY <2>1, <2>2, <2>3 DEF Request
<1> HIDE DEF q
<1>7. req'[r] = q /\ \A u \in Requests \ {r} : req'[u] = req[u]
  BY <1>1, <1>3 DEF TypeOK
<1>8. TypeOK'
  BY <1>1, <1>3, <1>5, <1>6 DEF TypeOK
<1>9. Grows
  <2> SUFFICES ASSUME NEW v \in Withdrawals
               PROVE  /\ Len(txns[v]) <= Len(txns'[v]) /\ Len(payout[v]) <= Len(payout'[v])
                      /\ WasPaid(v) => WasPaid(v)'
    BY DEF Grows
  <2>1. /\ DOMAIN payout[v] = 1..Len(payout[v]) /\ DOMAIN payout'[v] = 1..Len(payout'[v])
        /\ Len(payout[v]) \in Nat /\ Len(payout'[v]) \in Nat /\ Len(txns[v]) \in Nat
    BY <1>1, <1>8 DEF TypeOK
  <2> QED BY <1>3, <1>5, <2>1 DEF WasPaid
<1>10. RequestOK(req[r])'
  BY <1>2, <1>3, <1>5, <1>6, <1>7 DEF RequestOK, HoldsTxn
<1>11. RefsExist'
  <2>1. \A v \in Withdrawals : Len(payout[v]) \in Nat /\ Len(payout'[v]) \in Nat
    BY <1>1, <1>8 DEF TypeOK
  <2> QED BY <1>3, <1>5, <2>1 DEF IInv, RefsExist
<1> QED BY <1>3, <1>7, <1>8, <1>9, <1>10, <1>11, StepKeepsIInv

LEMMA PayAnswerKeepsIInv ==
  ASSUME IInv, NEW r \in Requests, NEW a, PayAnswer(r, a)
  PROVE  IInv'
<1> DEFINE w == req[r].w  n == req[r].attempt  i == req[r].txn
<1>1. TypeOK /\ req[r].at = "paying" /\ UNCHANGED <<cleared, payout, starts, aborts>>
  BY DEF IInv, PayAnswer, Resumes, env
<1>2. /\ w \in Withdrawals /\ req[r] \in Request /\ i \in 1..Len(txns[w])
      /\ Len(payout[w]) \in Nat /\ payout[w] \in Seq(Payout)
  BY <1>1, AtFacts DEF HoldsTxn
<1>3. n \in 1..Len(payout[w]) /\ n \in 0..Len(payout[w])
  BY <1>1, <1>2 DEF IInv, RequestsOK, RequestOK
<1>4. CASE SetRef(w, n) /\ Done(r) /\ UNCHANGED <<status, txns, wallet>>
  <2>1. RowsOK
    BY <1>1, <1>2, <1>3, <1>4, RefSet, TxnsKept DEF RowsOK, TypeOK
  <2> QED BY <1>4, <2>1, Ended, HandlerStep
<1>5. CASE /\ SetStatus(w, "NEEDS_RECONCILIATION") /\ SetRef(w, n) /\ Done(r)
           /\ UNCHANGED <<txns, wallet>>
  <2>1. /\ status' \in [Withdrawals -> Statuses]
        /\ \A v \in Withdrawals : status'[v] = "SUCCESS" => status[v] = "SUCCESS"
    BY <1>1, <1>2, <1>5, StatusSet DEF Statuses
  <2>2. RowsOK
    BY <1>1, <1>2, <1>3, <1>5, <2>1, RefSet, TxnsKept DEF RowsOK, TypeOK
  <2> QED BY <1>5, <2>2, Ended, HandlerStep
<1>6. CASE /\ SetStatus(w, "BLOCKED_IP_WHITELIST") /\ Done(r)
           /\ UNCHANGED <<ref, txns, wallet>>
  <2>1. /\ status' \in [Withdrawals -> Statuses]
        /\ \A v \in Withdrawals : status'[v] = "SUCCESS" => status[v] = "SUCCESS"
    BY <1>1, <1>2, <1>6, StatusSet DEF Statuses
  <2>2. RowsOK
    BY <1>1, <1>6, <2>1, RefKept, TxnsKept DEF RowsOK, TypeOK
  <2> QED BY <1>6, <2>2, Ended, HandlerStep
<1>7. CASE /\ a = "successful" /\ SetTxn(w, i, "successful")
           /\ Keep(r, [req[r] EXCEPT !.at = "settle", !.ref = n])
           /\ UNCHANGED <<status, ref, wallet>>
  <2> DEFINE q == [req[r] EXCEPT !.at = "settle", !.ref = n]
  <2>1. PICK x \in Request, m \in Nat : x = req[r] /\ x.w = w /\ x.txn = i /\ m = n
    BY <1>2, <1>3
  <2>2. q = [x EXCEPT !.at = "settle", !.ref = m] /\ "settle" \in Places
    BY <2>1 DEF Places
  <2>3. WasPaid(w)
    <3>1. payout[w][n] = "paid"
      BY <1>7 DEF PayAnswer, TruthfulPay
    <3>2. n \in DOMAIN payout[w]
      BY <1>2, <1>3
    <3> QED BY <3>1, <3>2 DEF WasPaid
  <2>4. /\ txns' \in [Withdrawals -> Seq(Txn)]
        /\ \A v \in Withdrawals : Len(txns'[v]) = Len(txns[v]) /\ Len(txns[v]) \in Nat
    BY <1>1, <1>2, <1>7, TxnSet
  <2> HIDE DEF q, w, n, i
  <2>5. q \in Request /\ q.at = "settle" /\ q.w = w /\ q.ref = n /\ q.txn = i
    BY <2>1, <2>2 DEF Request
  <2>6. RowsOK
    BY <1>1, <1>7, <2>4, RefKept DEF RowsOK, TypeOK
  <2>7. Step(r, q, r)
    BY <1>7 DEF Keep, q
  <2>8. Becomes(r, q, r)
    BY <1>2, <1>3, <2>3, <2>4, <2>5, <2>7 DEF Becomes, HoldsTxn
  <2> QED BY <2>6, <2>8, HandlerStep
<1>8. CASE /\ CreditBack(w, i) /\ UNCHANGED <<status, ref>>
           /\ \E k \in {0, n} : Keep(r, [req[r] EXCEPT !.at = "unwind", !.ref = k])
  <2>1. PICK x \in Request, m \in 0..Len(payout[w]) :
          /\ x = req[r] /\ x.w = w /\ x.txn = i
          /\ Keep(r, [req[r] EXCEPT !.at = "unwind", !.ref = m])
    <3>1. PICK k \in {0, n} : Keep(r, [req[r] EXCEPT !.at = "unwind", !.ref = k])
      BY <1>8
    <3>2. k \in 0..Len(payout[w])
      BY <1>2, <1>3
    <3> HIDE DEF n
    <3> QED BY <1>2, <3>1, <3>2
  <2> DEFINE q == [x EXCEPT !.at = "unwind", !.ref = m]
  <2>2. Step(r, q, r) /\ "unwind" \in Places /\ m \in Nat
    BY <2>1 DEF Places, Keep
  <2>3. /\ txns' \in [Withdrawals -> Seq(Txn)] /\ wallet' \in Nat
        /\ \A v \in Withdrawals : Len(txns'[v]) = Len(txns[v]) /\ Len(txns[v]) \in Nat
    BY <1>1, <1>2, <1>8, Credited
  <2>4. q \in Request /\ q.at = "unwind" /\ q.w = w /\ q.ref = m /\ q.txn = i
    <3> HIDE DEF w, i
    <3> QED BY <2>1, <2>2 DEF Request
  <2> HIDE DEF q, w, n, i
  <2>5. RowsOK
    BY <1>1, <1>8, <2>3, RefKept DEF RowsOK, TypeOK
  <2>6. Becomes(r, q, r)
    BY <1>2, <2>2, <2>3, <2>4 DEF Becomes, HoldsTxn
  <2> QED BY <2>5, <2>6, HandlerStep
<1>9. \/ SetRef(w, n) /\ Done(r) /\ UNCHANGED <<status, txns, wallet>>
      \/ /\ SetStatus(w, "NEEDS_RECONCILIATION") /\ SetRef(w, n) /\ Done(r)
         /\ UNCHANGED <<txns, wallet>>
      \/ /\ SetStatus(w, "BLOCKED_IP_WHITELIST") /\ Done(r)
         /\ UNCHANGED <<ref, txns, wallet>>
      \/ /\ a = "successful" /\ SetTxn(w, i, "successful")
         /\ Keep(r, [req[r] EXCEPT !.at = "settle", !.ref = n])
         /\ UNCHANGED <<status, ref, wallet>>
      \/ /\ CreditBack(w, i) /\ UNCHANGED <<status, ref>>
         /\ \E k \in {0, n} : Keep(r, [req[r] EXCEPT !.at = "unwind", !.ref = k])
  BY DEF PayAnswer
<1> QED BY <1>4, <1>5, <1>6, <1>7, <1>8, <1>9

\* The only step that records SUCCESS; the request got here with a payment.
LEMMA SettleKeepsIInv ==
  ASSUME IInv, NEW r \in Requests, Settle(r)
  PROVE  IInv'
<1> DEFINE w == req[r].w
<1>1. TypeOK /\ req[r].at = "settle"
  BY DEF IInv, Settle, GoesOn
<1>2. w \in Withdrawals /\ req[r].ref \in 0..Len(payout[w]) /\ WasPaid(w)
  BY <1>1, AtFacts DEF IInv, RequestsOK, RequestOK
<1>3. /\ Done(r) /\ SetStatus(w, "SUCCESS") /\ (UNCHANGED ref \/ SetRef(w, req[r].ref))
      /\ UNCHANGED <<txns, wallet, cleared, payout, starts, aborts>>
  BY DEF Settle, env
<1>4. /\ status' \in [Withdrawals -> Statuses]
      /\ \A v \in Withdrawals : status'[v] = "SUCCESS" => status[v] = "SUCCESS" \/ WasPaid(v)
  BY <1>1, <1>2, <1>3, StatusSet DEF Statuses
<1>5. /\ ref' \in [Withdrawals -> Nat]
      /\ \A v \in Withdrawals : ref'[v] \in 0..Len(payout[v])
  BY <1>2, <1>3, RefKept, RefSet
<1>6. RowsOK
  BY <1>1, <1>3, <1>4, <1>5, TxnsKept DEF RowsOK, TypeOK
<1>7. Becomes(r, NoWork, NoRequest)
  BY <1>3, Ended
<1> QED BY <1>6, <1>7, HandlerStep

LEMMA CloseTxnKeepsIInv ==
  ASSUME IInv, NEW r \in Requests, CloseTxn(r)
  PROVE  IInv'
<1> DEFINE w == req[r].w  i == req[r].txn
<1>1. TypeOK /\ req[r].at = "unwind"
  BY DEF IInv, CloseTxn, GoesOn
<1>2. w \in Withdrawals /\ req[r].ref \in 0..Len(payout[w]) /\ i \in 1..Len(txns[w])
  BY <1>1, AtFacts DEF HoldsTxn
<1>3. PICK p \in {"reverse", "fail"} : Keep(r, To(r, p))
  BY DEF CloseTxn
<1> DEFINE q == To(r, p)
<1>4. /\ Step(r, q, r) /\ SetTxn(w, i, "reversed")
      /\ UNCHANGED <<status, ref, wallet, cleared, payout, starts, aborts>>
  BY <1>3 DEF CloseTxn, Keep, env
<1>5. /\ txns' \in [Withdrawals -> Seq(Txn)]
      /\ \A v \in Withdrawals : Len(txns'[v]) = Len(txns[v]) /\ Len(txns[v]) \in Nat
  BY <1>1, <1>2, <1>4, TxnSet
<1>6. q \in Request /\ q.at \in {"reverse", "fail"} /\ q.w = w /\ q.ref = req[r].ref
  BY <1>1, ToFacts DEF Places
<1> HIDE DEF q, w, i
<1>7. RowsOK
  BY <1>1, <1>4, <1>5, RefKept DEF RowsOK, TypeOK
<1>8. Becomes(r, q, r)
  BY <1>2, <1>4, <1>6 DEF Becomes, HoldsTxn
<1> QED BY <1>7, <1>8, HandlerStep

LEMMA FailKeepsIInv ==
  ASSUME IInv, NEW r \in Requests, Fail(r)
  PROVE  IInv'
<1> DEFINE w == req[r].w
<1>1. TypeOK /\ req[r].at = "fail"
  BY DEF IInv, Fail, GoesOn
<1>2. w \in Withdrawals /\ req[r].ref \in 0..Len(payout[w])
  BY <1>1, AtFacts
<1>3. /\ Done(r) /\ SetStatus(w, "FAILED") /\ SetRef(w, req[r].ref)
      /\ UNCHANGED <<txns, wallet, cleared, payout, starts, aborts>>
  BY DEF Fail, env
<1>4. /\ status' \in [Withdrawals -> Statuses]
      /\ \A v \in Withdrawals : status'[v] = "SUCCESS" => status[v] = "SUCCESS"
  BY <1>1, <1>2, <1>3, StatusSet DEF Statuses
<1>5. RowsOK
  BY <1>1, <1>2, <1>3, <1>4, RefSet, TxnsKept DEF RowsOK, TypeOK
<1>6. Becomes(r, NoWork, NoRequest)
  BY <1>3, Ended
<1> QED BY <1>5, <1>6, HandlerStep

LEMMA ReverseKeepsIInv ==
  ASSUME IInv, NEW r \in Requests, Reverse(r)
  PROVE  IInv'
<1> DEFINE w == req[r].w
<1>1. TypeOK /\ req[r].at = "reverse"
  BY DEF IInv, Reverse, GoesOn
<1>2. w \in Withdrawals
  BY <1>1, AtFacts
<1>3. /\ Done(r) /\ SetStatus(w, "REVERSED")
      /\ UNCHANGED <<ref, txns, wallet, cleared, payout, starts, aborts>>
  BY DEF Reverse, env
<1>4. /\ status' \in [Withdrawals -> Statuses]
      /\ \A v \in Withdrawals : status'[v] = "SUCCESS" => status[v] = "SUCCESS"
  BY <1>1, <1>2, <1>3, StatusSet DEF Statuses
<1>5. RowsOK
  BY <1>1, <1>3, <1>4, RefKept, TxnsKept DEF RowsOK, TypeOK
<1>6. Becomes(r, NoWork, NoRequest)
  BY <1>3, Ended
<1> QED BY <1>5, <1>6, HandlerStep

\* Past the guard of a retry.
LEMMA ReattemptKeepsIInv ==
  ASSUME IInv, NEW r \in Requests, NEW w \in Withdrawals, NEW seen \in Statuses,
         Reattempt(r, w, seen), starts' \in Nat,
         UNCHANGED <<rows, cleared, payout, aborts>>
  PROVE  IInv'
<1> DEFINE q == [Work("retry", w, "reserve") EXCEPT !.seen = seen]
<1>1. TypeOK /\ UNCHANGED <<status, ref, txns, wallet>>
  BY DEF IInv, rows
<1>2. RowsOK
  BY <1>1, RefKept, TxnsKept DEF RowsOK, TypeOK
<1>3. /\ q \in Request /\ q.at = "reserve" /\ q.w = w /\ q.ref = 0
      /\ Len(payout[w]) \in Nat
  <2>1. Len(payout[w]) \in Nat
    BY <1>1 DEF TypeOK
  <2> QED BY <2>1 DEF Work, NoWork, Request, Places, OpNames
<1>4. CASE Done(r)
  BY <1>2, <1>4, Ended, HandlerStep
<1>5. CASE Keep(r, q)
  <2> HIDE DEF q
  <2>1. Becomes(r, q, r)
    BY <1>3, <1>5 DEF Becomes, HoldsTxn, Keep
  <2> QED BY <1>2, <2>1, HandlerStep
<1>6. CASE LiveTxn(w) # 0 /\ Keep(r, [q EXCEPT !.at = "mark", !.txn = LiveTxn(w)])
  <2>1. LiveTxn(w) \in 1..Len(txns[w]) /\ Len(txns[w]) \in Nat
    BY <1>1, <1>6, LiveTxnExists DEF TypeOK
  <2>2. PICK x \in Request, i \in Nat : x = q /\ i = LiveTxn(w)
    BY <1>3, <2>1
  <2> DEFINE z == [x EXCEPT !.at = "mark", !.txn = i]
  <2> HIDE DEF q
  <2>3. "mark" \in Places
    BY DEF Places
  <2>4. z \in Request /\ z.at = "mark" /\ z.w = w /\ z.ref = 0 /\ z.txn = LiveTxn(w)
    BY <1>3, <2>2, <2>3 DEF Request
  <2>5. Step(r, z, r)
    BY <1>6, <2>2 DEF Keep
  <2> HIDE DEF z
  <2>6. Becomes(r, z, r)
    BY <1>1, <1>3, <2>1, <2>4, <2>5 DEF Becomes, HoldsTxn
  <2> QED BY <1>2, <2>6, HandlerStep
<1> QED BY <1>4, <1>5, <1>6 DEF Reattempt

LEMMA RetryKeepsIInv ==
  ASSUME IInv, NEW r \in Requests, NEW w \in Withdrawals, Retry(r, w)
  PROVE  IInv'
<1> DEFINE q == [Work("retry", w, "asking") EXCEPT !.seen = status[w], !.ref = ref[w]]
<1>1. /\ TypeOK /\ starts' \in Nat /\ status[w] \in Statuses
      /\ ref[w] \in 0..Len(payout[w]) /\ ref[w] \in Nat
  BY DEF IInv, Retry, TypeOK, RefsExist
<1>2. UNCHANGED <<rows, cleared, payout, aborts>>
  BY DEF Retry
<1>3. CASE Reattempt(r, w, status[w])
  BY <1>1, <1>2, <1>3, ReattemptKeepsIInv
<1>4. CASE ref[w] # 0 /\ Await(r, q)
  <2>1. /\ q \in Request /\ q.at = "asking" /\ q.w = w /\ q.ref = ref[w]
    BY <1>1 DEF Work, NoWork, Request, Places, Awaits, OpNames
  <2> HIDE DEF q
  <2>2. RowsOK
    BY <1>1, <1>2, RefKept, TxnsKept DEF RowsOK, TypeOK, rows
  <2>3. Becomes(r, q, NoRequest)
    BY <1>1, <1>4, <2>1 DEF Becomes, HoldsTxn, Await
  <2> QED BY <2>2, <2>3, HandlerStep
<1> QED BY <1>3, <1>4 DEF Retry

LEMMA RetryAnswerKeepsIInv ==
  ASSUME IInv, NEW r \in Requests, NEW a, RetryAnswer(r, a)
  PROVE  IInv'
<1>1. /\ TypeOK /\ req[r].at = "asking" /\ UNCHANGED <<rows, cleared, payout, starts, aborts>>
  BY DEF IInv, RetryAnswer, Resumes, env
<1>2. req[r].w \in Withdrawals /\ req[r].seen \in Statuses /\ starts' \in Nat
  BY <1>1, AtFacts DEF Request, TypeOK
<1>3. CASE Reattempt(r, req[r].w, req[r].seen)
  BY <1>1, <1>2, <1>3, ReattemptKeepsIInv
<1>4. CASE Done(r)
  <2>1. RowsOK
    BY <1>1, RefKept, TxnsKept DEF RowsOK, TypeOK, rows
  <2> QED BY <1>4, <2>1, Ended, HandlerStep
<1> QED BY <1>3, <1>4 DEF RetryAnswer

LEMMA RefreshKeepsIInv ==
  ASSUME IInv, NEW r \in Requests, NEW w \in Withdrawals, Refresh(r, w)
  PROVE  IInv'
<1> DEFINE q == [Work("refresh", w, "querying") EXCEPT !.ref = ref[w]]
<1>1. /\ TypeOK /\ ref[w] \in 0..Len(payout[w]) /\ ref[w] \in Nat /\ ref[w] # 0
      /\ UNCHANGED <<status, ref, txns, wallet, cleared, payout, starts, aborts>>
  BY DEF IInv, Refresh, TypeOK, RefsExist, rows, env
<1>2. q \in Request /\ q.at = "querying" /\ q.w = w /\ q.ref = ref[w]
  BY <1>1 DEF Work, NoWork, Request, Statuses, Places, Awaits, OpNames
<1>3. Step(r, q, NoRequest)
  BY DEF Refresh, Await
<1> HIDE DEF q
<1>4. RowsOK
  BY <1>1, RefKept, TxnsKept DEF RowsOK, TypeOK
<1>5. Becomes(r, q, NoRequest)
  BY <1>1, <1>2, <1>3 DEF Becomes, HoldsTxn
<1> QED BY <1>4, <1>5, HandlerStep

\* _resolve_processing_disbursement, on an answer that is true.
LEMMA ResolveKeepsIInv ==
  ASSUME IInv, NEW r \in Requests, NEW q \in Request, NEW answer, Resolve(r, q, answer),
         q.w \in Withdrawals, q.ref \in 0..Len(payout[q.w]),
         answer = "successful" => WasPaid(q.w),
         UNCHANGED <<status, ref, env>>
  PROVE  IInv'
<1> DEFINE i == LiveTxn(q.w)
<1>1. TypeOK /\ UNCHANGED <<cleared, payout, starts, aborts>>
  BY DEF IInv, env
<1>2. i # 0 => i \in 1..Len(txns[q.w])
  BY <1>1, LiveTxnExists
<1> HIDE DEF i
<1>3. CASE Done(r) /\ UNCHANGED <<txns, wallet>>
  <2>1. RowsOK
    BY <1>1, <1>3, RefKept, TxnsKept DEF RowsOK, TypeOK
  <2> QED BY <1>3, <2>1, Ended, HandlerStep
<1>4. ASSUME NEW p \in {"settle", "unwind"}, i # 0, p = "settle" => answer = "successful",
             Keep(r, [q EXCEPT !.at = p, !.txn = i]),
             (SetTxn(q.w, i, "successful") /\ UNCHANGED wallet) \/ CreditBack(q.w, i)
      PROVE  IInv'
  <2> DEFINE z == [q EXCEPT !.at = p, !.txn = i]
  <2>1. /\ txns' \in [Withdrawals -> Seq(Txn)] /\ wallet' \in Nat
        /\ \A v \in Withdrawals : Len(txns'[v]) = Len(txns[v]) /\ Len(txns[v]) \in Nat
    <3>1. CASE SetTxn(q.w, i, "successful") /\ UNCHANGED wallet
      <4>1. wallet' \in Nat
        BY <1>1, <3>1 DEF TypeOK
      <4> QED BY <1>1, <1>2, <1>4, <3>1, <4>1, TxnSet
    <3>2. CASE CreditBack(q.w, i)
      BY <1>1, <1>2, <1>4, <3>2, Credited
    <3> QED BY <1>4, <3>1, <3>2
  <2>2. p \in Places /\ i \in Nat
    BY <1>2, <1>4 DEF Places
  <2>3. z \in Request /\ z.at = p /\ z.w = q.w /\ z.ref = q.ref /\ z.txn = i
    BY <2>2 DEF Request
  <2>4. Step(r, z, r)
    BY <1>4 DEF Keep
  <2> HIDE DEF z
  <2>5. RowsOK
    BY <1>1, <2>1, RefKept DEF RowsOK, TypeOK
  <2>6. Becomes(r, z, r)
    BY <1>2, <1>4, <2>1, <2>3, <2>4 DEF Becomes, HoldsTxn
  <2> QED BY <2>5, <2>6, HandlerStep
<1> QED BY <1>3, <1>4 DEF Resolve, i

LEMMA RefreshAnswerKeepsIInv ==
  ASSUME IInv, NEW r \in Requests, NEW a, RefreshAnswer(r, a)
  PROVE  IInv'
<1> DEFINE w == req[r].w
<1>1. /\ TypeOK /\ req[r].at = "querying" /\ UNCHANGED <<ref, env>>
      /\ UNCHANGED <<cleared, payout, starts, aborts>>
  BY DEF IInv, RefreshAnswer, Resumes, env
<1>2. /\ w \in Withdrawals /\ req[r] \in Request /\ payout[w] \in Seq(Payout)
      /\ Len(payout[w]) \in Nat /\ req[r].ref \in 1..Len(payout[w])
  BY <1>1, AtFacts DEF IInv, RequestsOK, RequestOK
<1>3. CASE Done(r) /\ UNCHANGED <<status, txns, wallet>>
  <2>1. RowsOK
    BY <1>1, <1>3, RefKept, TxnsKept DEF RowsOK, TypeOK
  <2> QED BY <1>3, <2>1, Ended, HandlerStep
<1>4. CASE SetStatus(w, "NEEDS_RECONCILIATION") /\ Done(r) /\ UNCHANGED <<txns, wallet>>
  <2>1. /\ status' \in [Withdrawals -> Statuses]
        /\ \A v \in Withdrawals : status'[v] = "SUCCESS" => status[v] = "SUCCESS"
    BY <1>1, <1>2, <1>4, StatusSet DEF Statuses
  <2>2. RowsOK
    BY <1>1, <1>4, <2>1, RefKept, TxnsKept DEF RowsOK, TypeOK
  <2> QED BY <1>4, <2>2, Ended, HandlerStep
<1>5. CASE Resolve(r, req[r], Parsed(a)) /\ UNCHANGED status
  <2>1. Parsed(a) = "successful" => WasPaid(w)
    BY <1>2 DEF RefreshAnswer, Answered, TruthfulQuery, Parsed, WasPaid
  <2> QED BY <1>1, <1>2, <1>5, <2>1, ResolveKeepsIInv
<1> QED BY <1>3, <1>4, <1>5 DEF RefreshAnswer

LEMMA CallbackKeepsIInv ==
  ASSUME IInv, NEW r \in Requests, NEW w \in Withdrawals, NEW n \in DOMAIN payout[w],
         Callback(r, w, n)
  PROVE  IInv'
<1> DEFINE q == [Work("callback", w, "querying") EXCEPT !.ref = n]
           answer == IF payout[w][n] = "declined" THEN "failed" ELSE "successful"
<1>1. /\ payout[w] \in Seq(Payout) /\ Len(payout[w]) \in Nat
      /\ n \in 1..Len(payout[w]) /\ n \in Nat
      /\ payout[w][n] \in Payout /\ payout[w][n] # "sent"
  BY DEF IInv, TypeOK, Callback
<1>2. q \in Request /\ q.w = w /\ q.ref = n
  BY <1>1 DEF Work, NoWork, Request, Statuses, Places, Awaits, OpNames
<1>3. answer = "successful" => WasPaid(w)
  BY <1>1 DEF WasPaid, Payout
<1>4. Resolve(r, q, answer) /\ UNCHANGED <<status, ref, env>>
  BY DEF Callback
<1> HIDE DEF q, answer
<1> QED BY <1>1, <1>2, <1>3, <1>4, ResolveKeepsIInv

LEMMA BounceCallbackKeepsIInv ==
  ASSUME IInv, NEW r \in Requests, NEW w \in Withdrawals, BounceCallback(r, w)
  PROVE  IInv'
<1> DEFINE q == Work("bounce", w, "querying")
<1>1. q \in Request /\ q.w = w /\ q.ref = 0
  BY WorkFacts DEF Places, Awaits, OpNames
<1>2. Len(payout[w]) \in Nat
  BY DEF IInv, TypeOK
<1>3. Resolve(r, q, "failed") /\ UNCHANGED <<status, ref, env>>
  BY DEF BounceCallback
<1> HIDE DEF q
<1> QED BY <1>1, <1>2, <1>3, ResolveKeepsIInv

\* The thread-pool routes.
LEMMA ThreadReadKeepsIInv ==
  ASSUME IInv, NEW r \in Requests, NEW op \in OpNames, NEW p \in {"rejecting", "requesting"},
         NEW from, ThreadRead(r, op, p, from)
  PROVE  IInv'
<1>1. PICK w \in Withdrawals : req' = [req EXCEPT ![r] = Work(op, w, p)]
  BY DEF ThreadRead
<1> DEFINE q == Work(op, w, p)
<1>2. /\ TypeOK /\ Len(payout[w]) \in Nat
      /\ UNCHANGED <<status, ref, txns, wallet, cleared, payout, starts, aborts, loop>>
  BY DEF IInv, ThreadRead, rows, env, TypeOK
<1>3. q \in Request /\ q.at = p /\ q.w = w /\ q.ref = 0
  BY WorkFacts DEF Places
<1> HIDE DEF q
<1>4. RowsOK
  BY <1>2, RefKept, TxnsKept DEF RowsOK, TypeOK
<1>5. req' = [req EXCEPT ![r] = q]
  BY <1>1 DEF q
<1>6. Becomes(r, q, r)
  BY <1>2, <1>3, <1>5 DEF Becomes, HoldsTxn
<1> QED BY <1>4, <1>6, HandlerStep

LEMMA ThreadWriteKeepsIInv ==
  ASSUME IInv, NEW r \in Requests, NEW p \in {"rejecting", "requesting"},
         NEW s \in {"REJECTED", "INFO_REQUESTED"}, ThreadWrite(r, p, s)
  PROVE  IInv'
<1> DEFINE w == req[r].w
<1>1. TypeOK /\ req[r].at = p
  BY DEF IInv, ThreadWrite
<1>2. w \in Withdrawals
  BY <1>1, AtFacts
<1>3. /\ req' = [req EXCEPT ![r] = NoWork] /\ SetStatus(w, s)
      /\ UNCHANGED <<ref, txns, wallet, cleared, payout, starts, aborts, loop>>
  BY DEF ThreadWrite, env
<1>4. /\ status' \in [Withdrawals -> Statuses]
      /\ \A v \in Withdrawals : status'[v] = "SUCCESS" => status[v] = "SUCCESS"
  BY <1>1, <1>2, <1>3, StatusSet DEF Statuses
<1>5. RowsOK
  BY <1>1, <1>3, <1>4, RefKept, TxnsKept DEF RowsOK, TypeOK
<1>6. Becomes(r, NoWork, r)
  BY <1>3 DEF Becomes, NoWork, Request, Statuses, HoldsTxn
<1> QED BY <1>5, <1>6, HandlerStep

\* The environment changes no request, so that every request counts as the one
\* that did not move.
LEMMA EnvironmentKeepsIInv ==
  ASSUME IInv, UNCHANGED <<status, ref, txns, wallet, starts, req, loop>>,
         payout' \in [Withdrawals -> Seq(Payout)], cleared' \in BOOLEAN, aborts' \in Nat,
         \A w \in Withdrawals : /\ Len(payout'[w]) = Len(payout[w])
                                /\ WasPaid(w) => WasPaid(w)'
  PROVE  IInv'
<1>1. TypeOK'
  BY DEF IInv, TypeOK
<1>2. Grows
  BY <1>1 DEF IInv, TypeOK, Grows
<1>3. RequestsOK'
  <2> SUFFICES ASSUME NEW r \in Requests PROVE RequestOK(req[r])'
    BY DEF RequestsOK
  <2>1. PICK q \in Request : q = req[r] /\ q = req'[r] /\ RequestOK(q)
    BY DEF IInv, TypeOK, RequestsOK
  <2>2. RequestOK(q)'
    BY <1>1, <1>2, <2>1, RequestStaysOK DEF IInv
  <2> QED BY <2>1, <2>2 DEF RequestOK, WasPaid
<1>4. RefsExist' /\ SuccessWasPaid'
  BY DEF IInv, RefsExist, SuccessWasPaid, WasPaid
<1> QED BY <1>1, <1>3, <1>4 DEF IInv

LEMMA SelcomKeepsIInv ==
  ASSUME IInv, NEW w \in Withdrawals, NEW n \in DOMAIN payout[w],
         NEW outcome \in {"paid", "declined", "bounced"},
         outcome = "declined" => payout[w][n] = "sent",
         payout' = [payout EXCEPT ![w][n] = outcome],
         UNCHANGED <<rows, cleared, starts, aborts, req, loop>>
  PROVE  IInv'
<1>1. /\ TypeOK /\ payout[w] \in Seq(Payout) /\ n \in 1..Len(payout[w])
      /\ cleared' \in BOOLEAN /\ aborts' \in Nat
      /\ UNCHANGED <<status, ref, txns, wallet, starts, req, loop>>
  BY DEF IInv, TypeOK, rows
<1> DEFINE new == [payout[w] EXCEPT ![n] = outcome]
<1>2. /\ new \in Seq(Payout) /\ Len(new) = Len(payout[w]) /\ DOMAIN new = DOMAIN payout[w]
      /\ \A k \in DOMAIN payout[w] : new[k] = IF k = n THEN outcome ELSE payout[w][k]
  BY <1>1 DEF Payout
<1>3. payout' = [payout EXCEPT ![w] = new]
  OBVIOUS
<1> HIDE DEF new
<1>4. payout' \in [Withdrawals -> Seq(Payout)] /\ payout'[w] = new
  BY <1>1, <1>2, <1>3 DEF TypeOK
<1>5. ASSUME NEW v \in Withdrawals
      PROVE  Len(payout'[v]) = Len(payout[v]) /\ (WasPaid(v) => WasPaid(v)')
  <2>1. CASE v # w
    BY <1>1, <1>3, <2>1 DEF TypeOK, WasPaid
  <2>2. CASE v = w
    BY <1>2, <1>4, <2>2 DEF WasPaid
  <2> QED BY <2>1, <2>2
<1> QED BY <1>1, <1>4, <1>5, EnvironmentKeepsIInv

LEMMA StandingChangesKeepsIInv ==
  ASSUME IInv, StandingChanges
  PROVE  IInv'
<1>1. /\ UNCHANGED <<status, ref, txns, wallet, payout, starts, aborts, req, loop>>
      /\ TypeOK /\ cleared' \in BOOLEAN
  BY DEF StandingChanges, rows, IInv, TypeOK
<1>2. payout' \in [Withdrawals -> Seq(Payout)] /\ aborts' \in Nat
  BY <1>1 DEF TypeOK
<1>3. \A w \in Withdrawals : Len(payout'[w]) = Len(payout[w]) /\ (WasPaid(w) => WasPaid(w)')
  BY <1>1 DEF WasPaid
<1> QED BY <1>1, <1>2, <1>3, EnvironmentKeepsIInv

LEMMA AbortKeepsIInv ==
  ASSUME IInv, NEW r \in Requests, Abort(r)
  PROVE  IInv'
<1>1. /\ TypeOK /\ req' = [req EXCEPT ![r] = NoWork] /\ aborts' = aborts + 1
      /\ loop' = [p \in Replicas |-> IF loop[p] = r THEN NoRequest ELSE loop[p]]
      /\ UNCHANGED <<status, ref, txns, wallet, cleared, payout, starts>>
  BY DEF IInv, Abort, rows
<1>2. /\ req' \in [Requests -> Request] /\ req'[r] = NoWork
      /\ \A u \in Requests \ {r} : req'[u] = req[u]
  <2>1. NoWork \in Request
    BY DEF NoWork, Request, Statuses
  <2> QED BY <1>1, <2>1 DEF TypeOK
<1>3. TypeOK'
  BY <1>1, <1>2 DEF TypeOK
<1>4. Grows
  BY <1>1, <1>3 DEF Grows, WasPaid, TypeOK
<1>5. RequestOK(req[r])'
  BY <1>2 DEF RequestOK, NoWork, HoldsTxn
<1>6. RefsExist' /\ \A w \in Withdrawals : status'[w] = "SUCCESS" => status[w] = "SUCCESS"
  BY <1>1 DEF IInv, RefsExist
<1> QED BY <1>2, <1>3, <1>4, <1>5, <1>6, StepKeepsIInv
-----------------------------------------------------------------------------
(***************************************************************************)
(* The invariant and the theorems.                                         *)
(***************************************************************************)
LEMMA InitIInv == Init => IInv
<1> SUFFICES ASSUME Init PROVE IInv
  OBVIOUS
<1>1. TypeOK
  BY WithdrawalsAssumption DEF Init, TypeOK, Statuses, NoWork, Request
<1>2. RequestsOK /\ RefsExist /\ SuccessWasPaid
  BY DEF Init, RequestsOK, RequestOK, NoWork, HoldsTxn, RefsExist, SuccessWasPaid
<1> QED BY <1>1, <1>2 DEF IInv

LEMMA NextKeepsIInv == IInv /\ [Next]_vars => IInv'
<1> SUFFICES ASSUME IInv, [Next]_vars PROVE IInv'
  OBVIOUS
<1>1. CASE UNCHANGED vars
  BY <1>1 DEF vars, rows, env, IInv, TypeOK, RequestsOK, RequestOK, RefsExist,
              SuccessWasPaid, WasPaid
<1>2. ASSUME NEW r \in Requests, LocalStep(r) PROVE IInv'
  <2>1. ReadToReject(r) \/ Reject(r) \/ ReadToAsk(r) \/ RequestInfo(r) => IInv'
    BY ThreadReadKeepsIInv, ThreadWriteKeepsIInv
       DEF ReadToReject, Reject, ReadToAsk, RequestInfo, OpNames
  <2> QED BY <1>2, <2>1, FinalizeKeepsIInv, OpenTxnKeepsIInv, PostReservationKeepsIInv,
             MarkProcessingKeepsIInv, RefuseDebitKeepsIInv, RefuseReservationKeepsIInv,
             BadRecipientKeepsIInv, SendPayoutKeepsIInv, SettleKeepsIInv,
             CloseTxnKeepsIInv, FailKeepsIInv, ReverseKeepsIInv DEF LocalStep
<1>3. ASSUME NEW r \in Requests, AnswerStep(r) PROVE IInv'
  BY <1>3, PayAnswerKeepsIInv, RetryAnswerKeepsIInv, RefreshAnswerKeepsIInv DEF AnswerStep
<1>4. ASSUME NEW r \in Requests, ReadToReject(r) \/ ReadToAsk(r) PROVE IInv'
  BY <1>4, ThreadReadKeepsIInv DEF ReadToReject, ReadToAsk, OpNames
<1>5. ASSUME NEW r \in Requests, NEW w \in Withdrawals, Arrival(r, w) PROVE IInv'
  BY <1>5, SubmitKeepsIInv, ApproveKeepsIInv, RetryKeepsIInv, RefreshKeepsIInv,
     CallbackKeepsIInv, BounceCallbackKeepsIInv DEF Arrival
<1>6. ASSUME NEW w \in Withdrawals, Selcom(w) PROVE IInv'
  <2>1. PICK n \in DOMAIN payout[w] :
          Decide(w, n, "paid") \/ Decide(w, n, "declined") \/ ComesBack(w, n)
    BY <1>6 DEF Selcom
  <2> QED BY <2>1, SelcomKeepsIInv DEF Decide, ComesBack
<1> QED BY <1>1, <1>2, <1>3, <1>4, <1>5, <1>6, AbortKeepsIInv, StandingChangesKeepsIInv
        DEF Next

\* The invariant holds in every reachable state: a request never carries a
\* reference, a transaction row or a payment that does not exist.
THEOREM WithdrawalsInvariant == Spec => []IInv
BY InitIInv, NextKeepsIInv, PTL DEF Spec

\* The types hold of every execution: among them, the wallet that reservations
\* are debited from never goes below zero, and no row ever takes a status that
\* the enumeration lacks.
THEOREM WithdrawalsTypes == Spec => []TypeOK
<1>1. IInv => TypeOK
  BY DEF IInv
<1> QED BY <1>1, WithdrawalsInvariant, PTL

\* Whatever is lost, late, unreadable or interleaved, and however many replicas
\* and crashes there are, a withdrawal recorded as SUCCESS was paid by Selcom, as
\* long as what Selcom does say of an attempt is true (TruthfulPay, TruthfulQuery).
THEOREM WithdrawalsSuccessWasPaid == Spec => []SuccessWasPaid
<1>1. IInv => SuccessWasPaid
  BY DEF IInv
<1> QED BY <1>1, WithdrawalsInvariant, PTL
-----------------------------------------------------------------------------
(***************************************************************************)
(* Where the money of a withdrawal is, for every number of withdrawals,    *)
(* requests, starts and crashes: nothing is debited, given back or paid    *)
(* twice, and the lifecycle implements Custody.                            *)
(*                                                                         *)
(* No lock, version or condition of a WHERE clause protects the rows.      *)
(* What does is the event loop: a handler runs from one await to the next  *)
(* without another between, and while it awaits Selcom the status keeps    *)
(* the others out.  The inductive invariant MoneyInv therefore says of     *)
(* every place of every handler which of five phases (Dead, Opened, Held,  *)
(* Flying, Unwound) its withdrawal is in (Fits), of a withdrawal nobody    *)
(* pays or settles what its status says about the phase (Rests), and that  *)
(* two requests are at work on one withdrawal only to resolve the same     *)
(* attempt (Apart).  Retries make a list of rows and of attempts; all but  *)
(* the newest are closed.                                                  *)
(*                                                                         *)
(* It holds under Conditions, which the code does not enforce by itself;   *)
(* each is needed:                                                         *)
(*   OneProcess    two replicas pass the same status check                 *)
(*   DiesWaiting   a stop between the debit and the status debits again    *)
(*                 (CrashAfterReservation.cfg), between the credit and the *)
(*                 row's closing credits again                             *)
(*   RetriesApart  two retries pass the same status check; a sweep that    *)
(*                 ends during a retry's await gives back what it uses     *)
(* Whatever Selcom answers, and if it does not answer, the debit stands    *)
(* once, is given back once and covers the payout under way.  What the     *)
(* recipient has, and so NeverPaidTwice, Custody and SettledStays, needs   *)
(* also:                                                                   *)
(*   Understood    a call that timed out, or a body that is not            *)
(*                 understood, is taken for a failure; NeverPaidTwice      *)
(*                 holds without it where nobody retries                   *)
(* For SettledStays besides:                                               *)
(*   NobodyReviews a rejection in its thread writes over any status        *)
(*                 (RejectDuringApproval.cfg)                              *)
(*   QueriesDecide a late ambiguous answer does, too                       *)
(***************************************************************************)
-----------------------------------------------------------------------------
(***************************************************************************)
(* The conditions.                                                         *)
(***************************************************************************)
\* One API process, which dies only where it awaits Selcom.
OneProcess  == \A r, s \in Requests : ReplicaOf[r] = ReplicaOf[s]
DiesWaiting == CrashPoints \subseteq Awaits

\* Every call to Selcom is answered, and the answer is understood: then a payout
\* taken for failed has failed.
Understood == {"timeout", "unreadable"} \cap (PayAnswers \cup QueryAnswers) = {}

\* Nobody retries; or one operator does, and no sweep and no callback runs.
NoRetry == \A r \in Requests : "retry" \notin Ops[r]
OneRetrier == \A r, s \in Requests : "retry" \in Ops[r] /\ "retry" \in Ops[s] => r = s
NothingLate == \A r \in Requests : {"refresh", "callback"} \cap Ops[r] = {}
RetriesApart == NoRetry \/ (OneRetrier /\ NothingLate)

Conditions == OneProcess /\ DiesWaiting /\ RetriesApart
-----------------------------------------------------------------------------
(***************************************************************************)
(* Where the money of a withdrawal is, by its transaction rows T and its   *)
(* payout attempts P: only the newest of either matters.                   *)
(***************************************************************************)
Gone == {"declined", "bounced"}
DeadRow(t) == \/ t.status = "failed" /\ t.debits = 0 /\ t.credits = 0
              \/ t.status = "reversed" /\ t.debits = 1 /\ t.credits = 1
Newest(T, debits, credits) ==
  /\ T # <<>> /\ T[Len(T)].status \in {"processing", "successful"}
  /\ T[Len(T)].debits = debits /\ T[Len(T)].credits = credits
  /\ \A i \in 1..Len(T) : i # Len(T) => DeadRow(T[i])
AllGone(P) == Understood => \A n \in 1..Len(P) : P[n] \in Gone
OldGone(P) == Understood => \A n \in 1..Len(P) : n # Len(P) => P[n] \in Gone

\* Nothing is reserved; a row is open; it holds the debit; the debit is held and
\* Selcom has an attempt; the debit was given back.
Dead(T, P)    == (\A i \in 1..Len(T) : DeadRow(T[i])) /\ AllGone(P)
Opened(T, P)  == Newest(T, 0, 0) /\ AllGone(P)
Held(T, P)    == Newest(T, 1, 0) /\ AllGone(P)
Flying(T, P)  == Newest(T, 1, 0) /\ OldGone(P)
Unwound(T, P) == Newest(T, 1, 1) /\ AllGone(P)

\* Without retries a withdrawal has one row and one attempt, and what was sent
\* was reserved first.
Single(T, P) ==
  /\ Len(T) <= 1 /\ Len(P) <= 1
  /\ P # <<>> => \A i \in 1..Len(T) : T[i].status # "failed"
-----------------------------------------------------------------------------
(***************************************************************************)
(* The invariant.                                                          *)
(***************************************************************************)
Starting  == {"finalize", "reserve", "post", "refuse", "mark", "pay"}
Closing   == {"settle", "unwind", "fail", "reverse"}
OnTheLoop == Starting \cup Closing
Threads   == {"rejecting", "requesting"}

Starters  == {"submit", "approve", "retry"}
Resolvers == {"refresh", "callback", "bounce"}

Unapproved == {"none", "PENDING_ADMIN_APPROVAL"}
Reviewed   == {"REJECTED", "INFO_REQUESTED"}

\* A request at work on the event loop, and one that pays or settles.
Active(q) == q.at \notin Threads \cup {"idle"}
Owner(q)  == q.at \in OnTheLoop \cup {"paying"}

\* Which operation can be where.
Routed(q) ==
  /\ q.at \in Starting \cup {"paying"} => q.op \in Starters
  /\ q.at = "finalize" => q.op = "submit"
  /\ q.at = "asking" => q.op = "retry"
  /\ q.at = "querying" => q.op = "refresh"
  /\ q.at = "fail" => q.op # "bounce"
  /\ q.at \in Closing => q.op \in Starters \cup Resolvers
  /\ q.at \in {"rejecting", "requesting"} => q.op \in {"reject", "info"}

\* A request at work on a withdrawal of status s, reference n, rows T, attempts P.
Fits(q, s, n, T, P) ==
  /\ q.at = "finalize" => s \in {"PENDING_ADMIN_APPROVAL"} \cup Reviewed
  /\ q.at \in {"reserve", "post", "refuse", "mark"} =>
       s \in {"PENDING_ADMIN_APPROVAL"} \cup Reviewed \cup Retryable
  /\ q.at \in {"pay", "paying"} => s \in {"PROCESSING"} \cup Reviewed
  /\ q.at = "asking" => s \in Retryable \cup Reviewed
  /\ q.at \in Closing \cup {"querying"} => s \notin Unapproved
  /\ q.at \in Closing => s # "REVERSED"
  /\ q.at \in Threads => s # "none"
  /\ q.at \in {"finalize", "reserve", "refuse", "fail", "reverse"} => Dead(T, P)
  /\ q.at = "post" => Opened(T, P)
  /\ q.at \in {"mark", "pay"} => Held(T, P)
  /\ q.at \in {"paying", "settle"} => Flying(T, P)
  /\ q.at = "unwind" => Unwound(T, P)
  /\ q.at \in {"post", "mark", "pay", "paying", "unwind"} => q.txn = Len(T)
  /\ q.at = "paying" => q.attempt = Len(P)
  /\ q.at = "asking" => /\ q.seen \in Retryable
                        /\ q.seen \in NeedsReservation => Dead(T, P)
                        /\ q.seen \in AlreadyReserved => Held(T, P)
  /\ q.at = "settle" /\ q.op \notin {"refresh", "callback"} => q.ref = Len(P)
  /\ q.at \in Closing \cup {"querying"} /\ q.op \in {"refresh", "callback"} =>
       q.ref = Len(P) /\ n = Len(P)
  /\ NoRetry /\ q.at \in Starting => P = <<>>
  /\ NoRetry /\ q.at \in {"finalize", "reserve"} => T = <<>>
  /\ NoRetry /\ q.at \in Starting \cup {"paying"} => n = 0

\* A withdrawal nobody pays or settles.
Rests(s, n, T, P) ==
  /\ s \in Unapproved \cup NeedsReservation \cup {"REVERSED"} => Dead(T, P)
  /\ s \in AlreadyReserved => Held(T, P)
  /\ s = "SUCCESS" => Flying(T, P) /\ n = Len(P)
  /\ Dead(T, P) \/ Flying(T, P)
  /\ NoRetry /\ s \in Unapproved => T = <<>>

\* Any withdrawal.
Sound(s, n, T, P) ==
  NoRetry => Single(T, P) /\ (s \in Unapproved => P = <<>> /\ n = 0)

WorkOK(r) ==
  /\ Routed(req[r])
  /\ req[r].at # "idle" =>
       /\ req[r].op \in Ops[r]
       /\ Fits(req[r], status[req[r].w], ref[req[r].w], txns[req[r].w], payout[req[r].w])
  /\ req[r].at \in OnTheLoop => OnLoop(r)

RowOK(w) ==
  /\ Sound(status[w], ref[w], txns[w], payout[w])
  /\ (\A r \in Requests : req[r].w = w => ~ Owner(req[r])) =>
       Rests(status[w], ref[w], txns[w], payout[w])

\* Two requests work on one withdrawal only to resolve what is in flight.
Apart == \A r, s \in Requests :
  r # s /\ Active(req[r]) /\ Active(req[s]) /\ req[r].w = req[s].w =>
    req[r].op \in Resolvers

MoneyInv == /\ \A r \in Requests : WorkOK(r)
            /\ \A w \in Withdrawals : RowOK(w)
            /\ Apart
-----------------------------------------------------------------------------
(***************************************************************************)
(* What the writes of the handlers do to a withdrawal's money.             *)
(***************************************************************************)
Fresh == [status |-> "processing", debits |-> 0, credits |-> 0]

\* A row is opened where nothing is reserved.
LEMMA DeadOpens ==
  ASSUME NEW T \in Seq(Txn), NEW P \in Seq(Payout), Dead(T, P)
  PROVE  Opened(Append(T, Fresh), P)
<1> DEFINE U == Append(T, Fresh)
<1>1. /\ Len(T) \in Nat /\ Len(U) = Len(T) + 1 /\ U[Len(U)] = Fresh
      /\ \A i \in 1..Len(T) : U[i] = T[i]
  BY DEF Fresh, Txn
<1>2. U # <<>>
  BY <1>1
<1>3. \A i \in 1..Len(U) : i # Len(U) => i \in 1..Len(T)
  BY <1>1
<1> HIDE DEF U
<1> QED BY <1>1, <1>2, <1>3 DEF Dead, Opened, Newest, Fresh

\* One field of the newest row changes; the older rows stay what they are.
LEMMA NewestReplaced ==
  ASSUME NEW T \in Seq(Txn), T # <<>>, NEW t
  PROVE  LET U == [T EXCEPT ![Len(T)] = t] IN
         /\ U # <<>> /\ Len(U) = Len(T) /\ Len(T) \in Nat /\ U[Len(T)] = t
         /\ Len(T) \in 1..Len(T) /\ T[Len(T)] \in Txn
         /\ \A i \in 1..Len(T) : i # Len(T) => U[i] = T[i]
OBVIOUS

\* The debit is posted, or refused.
LEMMA OpenedPosts ==
  ASSUME NEW T \in Seq(Txn), NEW P \in Seq(Payout), Opened(T, P)
  PROVE  /\ Held([T EXCEPT ![Len(T)].debits = @ + 1], P)
         /\ Dead([T EXCEPT ![Len(T)].status = "failed"], P)
<1> DEFINE k == Len(T)
           t == [T[k] EXCEPT !.debits = @ + 1]
           u == [T[k] EXCEPT !.status = "failed"]
<1>1. T # <<>>
  BY DEF Opened, Newest
<1>2. /\ t.status = T[k].status /\ t.debits = T[k].debits + 1 /\ t.credits = T[k].credits
      /\ u.status = "failed" /\ u.debits = T[k].debits /\ u.credits = T[k].credits
  BY <1>1, NewestReplaced DEF Txn
<1> HIDE DEF t, u
<1>3. Held([T EXCEPT ![k] = t], P)
  BY <1>1, <1>2, NewestReplaced DEF Opened, Held, Newest
<1>4. Dead([T EXCEPT ![k] = u], P)
  BY <1>1, <1>2, NewestReplaced DEF Opened, Dead, Newest, DeadRow
<1> QED BY <1>3, <1>4 DEF t, u

\* The payout is called.
LEMMA HeldIsSent ==
  ASSUME NEW T \in Seq(Txn), NEW P \in Seq(Payout), Held(T, P)
  PROVE  Flying(T, Append(P, "sent"))
<1> DEFINE Q == Append(P, "sent")
<1>1. Len(P) \in Nat /\ Len(Q) = Len(P) + 1 /\ \A n \in 1..Len(P) : Q[n] = P[n]
  BY DEF Payout
<1>2. \A n \in 1..Len(Q) : n # Len(Q) => n \in 1..Len(P)
  BY <1>1
<1> HIDE DEF Q
<1> QED BY <1>1, <1>2 DEF Held, Flying, AllGone, OldGone

\* The row is marked paid, or its debit is given back.
LEMMA FlyingLands ==
  ASSUME NEW T \in Seq(Txn), NEW P \in Seq(Payout), Flying(T, P)
  PROVE  /\ Flying([T EXCEPT ![Len(T)].status = "successful"], P)
         /\ AllGone(P) => Unwound([T EXCEPT ![Len(T)].credits = @ + 1], P)
<1> DEFINE k == Len(T)
           t == [T[k] EXCEPT !.status = "successful"]
           u == [T[k] EXCEPT !.credits = @ + 1]
<1>1. T # <<>>
  BY DEF Flying, Newest
<1>2. /\ t.status = "successful" /\ t.debits = T[k].debits /\ t.credits = T[k].credits
      /\ u.status = T[k].status /\ u.debits = T[k].debits /\ u.credits = T[k].credits + 1
  BY <1>1, NewestReplaced DEF Txn
<1> HIDE DEF t, u
<1>3. Flying([T EXCEPT ![k] = t], P)
  BY <1>1, <1>2, NewestReplaced DEF Flying, Newest
<1>4. AllGone(P) => Unwound([T EXCEPT ![k] = u], P)
  BY <1>1, <1>2, NewestReplaced DEF Flying, Unwound, Newest
<1> QED BY <1>3, <1>4 DEF t, u

\* The row is closed after the credit.
LEMMA UnwoundCloses ==
  ASSUME NEW T \in Seq(Txn), NEW P \in Seq(Payout), Unwound(T, P)
  PROVE  Dead([T EXCEPT ![Len(T)].status = "reversed"], P)
<1> DEFINE k == Len(T)
           t == [T[k] EXCEPT !.status = "reversed"]
<1>1. T # <<>>
  BY DEF Unwound, Newest
<1>2. t.status = "reversed" /\ t.debits = T[k].debits /\ t.credits = T[k].credits
  BY <1>1, NewestReplaced DEF Txn
<1> HIDE DEF t
<1>3. Dead([T EXCEPT ![k] = t], P)
  BY <1>1, <1>2, NewestReplaced DEF Unwound, Dead, Newest, DeadRow
<1> QED BY <1>3 DEF t

\* What is held may be in flight; what is in flight is held still when the newest
\* attempt is gone too.
LEMMA HeldFlies ==
  ASSUME NEW T \in Seq(Txn), NEW P \in Seq(Payout)
  PROVE  /\ Held(T, P) => Flying(T, P)
         /\ Flying(T, P) /\ (Understood => P[Len(P)] \in Gone) => Held(T, P) /\ AllGone(P)
BY DEF Held, Flying, AllGone, OldGone

LEMMA DeadOrFlying ==
  ASSUME NEW T \in Seq(Txn), NEW P, Flying(T, P)
  PROVE  ~ Dead(T, P)
<1>1. Len(T) \in 1..Len(T)
  BY DEF Flying, Newest
<1> QED BY <1>1 DEF Flying, Dead, Newest, DeadRow

\* Selcom changes its mind about an attempt only while it is in flight.
LEMMA PayoutChanges ==
  ASSUME NEW T \in Seq(Txn), NEW P \in Seq(Payout), NEW n \in 1..Len(P), P[n] \notin Gone,
         NEW outcome
  PROVE  LET Q == [P EXCEPT ![n] = outcome] IN
         /\ Understood => ~ Dead(T, P) /\ ~ Opened(T, P) /\ ~ Held(T, P) /\ ~ Unwound(T, P)
         /\ Understood /\ Flying(T, P) => n = Len(P)
         /\ Dead(T, P) => Dead(T, Q)
         /\ Opened(T, P) => Opened(T, Q)
         /\ Held(T, P) => Held(T, Q)
         /\ Unwound(T, P) => Unwound(T, Q)
         /\ Flying(T, P) => Flying(T, Q)
         /\ Len(Q) = Len(P) /\ (Q = <<>> <=> P = <<>>)
<1> DEFINE Q == [P EXCEPT ![n] = outcome]
<1>1. /\ Len(P) \in Nat /\ Len(Q) = Len(P) /\ (Q = <<>> <=> P = <<>>)
      /\ \A i \in 1..Len(P) : i # n => Q[i] = P[i]
  OBVIOUS
<1>2. Understood => ~ AllGone(P)
  BY DEF AllGone
<1>3. /\ Understood /\ OldGone(P) => n = Len(P)
      /\ OldGone(P) => OldGone(Q)
  <2> HIDE DEF Q
  <2> QED BY <1>1 DEF OldGone
<1>4. AllGone(P) => AllGone(Q)
  BY <1>2 DEF AllGone
<1> HIDE DEF Q
<1>5. /\ Understood => ~ Dead(T, P) /\ ~ Opened(T, P) /\ ~ Held(T, P) /\ ~ Unwound(T, P)
      /\ Understood /\ Flying(T, P) => n = Len(P)
  BY <1>2, <1>3 DEF Dead, Opened, Held, Unwound, Flying
<1>6. /\ Dead(T, P) => Dead(T, Q)
      /\ Opened(T, P) => Opened(T, Q)
      /\ Held(T, P) => Held(T, Q)
      /\ Unwound(T, P) => Unwound(T, Q)
      /\ Flying(T, P) => Flying(T, Q)
  BY <1>3, <1>4 DEF Dead, Opened, Held, Unwound, Flying
<1> QED BY <1>1, <1>5, <1>6 DEF Q

\* _find_transaction_for_disbursement finds the row that holds the money; and none
\* when all of them were reversed.
LEMMA LiveTxnIsNewest ==
  ASSUME TypeOK, NEW w \in Withdrawals, NEW debits, NEW credits,
         Newest(txns[w], debits, credits)
  PROVE  LiveTxn(w) = Len(txns[w])
<1> DEFINE k == Len(txns[w])
<1>1. txns[w] \in Seq(Txn) /\ k \in 1..k /\ DOMAIN txns[w] = 1..k /\ k \in Nat
  BY DEF TypeOK, Newest
<1>2. k \in Unreversed(w) /\ \A j \in Unreversed(w) : j <= k /\ j \in Nat
  BY <1>1 DEF Unreversed, Newest
<1> HIDE DEF k
<1>3. \A i \in Unreversed(w) : (\A j \in Unreversed(w) : j <= i) => i = k
  BY <1>1, <1>2
<1> QED BY <1>2, <1>3 DEF LiveTxn, k

LEMMA NoLiveTxn ==
  ASSUME TypeOK, NEW w \in Withdrawals, Dead(txns[w], payout[w]),
         \A i \in 1..Len(txns[w]) : txns[w][i].status # "failed"
  PROVE  LiveTxn(w) = 0
<1>1. DOMAIN txns[w] = 1..Len(txns[w])
  BY DEF TypeOK
<1>2. Unreversed(w) = {}
  BY <1>1 DEF Unreversed, Dead, DeadRow
<1> QED BY <1>2 DEF LiveTxn
-----------------------------------------------------------------------------
(***************************************************************************)
(* A step of one request changes one withdrawal, and beside it only        *)
(* requests that resolve the same attempt can be at work there.            *)
(***************************************************************************)
OnlyRow(w) == \A v \in Withdrawals \ {w} :
  status'[v] = status[v] /\ ref'[v] = ref[v] /\ txns'[v] = txns[v] /\ payout'[v] = payout[v]

Alone(r, w) == \A u \in Requests \ {r} : Active(req[u]) => req[u].w # w

Resolving(r, w) ==
  /\ \A u \in Requests \ {r} : Active(req[u]) /\ req[u].w = w => req[u].op \in Resolvers
  /\ Active(req'[r]) => req'[r].op \in Resolvers
  /\ payout'[w] = payout[w] /\ ref'[w] \in {ref[w], Len(payout[w])}
  /\ status'[w] \notin Unapproved

\* Nobody else is on the loop while r is, or while it is free.
LEMMA OffTheLoop ==
  ASSUME OneProcess, MoneyInv, NEW r \in Requests, LoopFree(r) \/ OnLoop(r),
         NEW u \in Requests \ {r}
  PROVE  req[u].at \notin OnTheLoop
BY WithdrawalsAssumption DEF OneProcess, MoneyInv, WorkOK, LoopFree, OnLoop

\* A request that waits for an answer about the attempt that r resolves: what it
\* asked about is still the newest attempt, and still what the row refers to.
LEMMA QueryStillFits ==
  ASSUME NEW q, q.at = "querying", q.op = "refresh", NEW s, NEW n, NEW T, NEW P,
         Fits(q, s, n, T, P), NEW s2, s2 \notin Unapproved,
         NEW n2, n2 \in {n, Len(P)}, NEW T2
  PROVE  Fits(q, s2, n2, T2, P)
BY DEF Fits, Starting, Closing, Threads

LEMMA ThreadFits ==
  ASSUME NEW q, q.at \in Threads, NEW s, s # "none", NEW n, NEW T, NEW P
  PROVE  Fits(q, s, n, T, P)
BY DEF Fits, Starting, Closing, Threads

LEMMA RequestStep ==
  ASSUME OneProcess, IInv, IInv', MoneyInv, NEW r \in Requests, NEW w \in Withdrawals,
         LoopFree(r) \/ OnLoop(r), \A u \in Requests \ {r} : req'[u] = req[u],
         OnlyRow(w), status'[w] # "none", Alone(r, w) \/ Resolving(r, w),
         Routed(req'[r]),
         req'[r].at # "idle" =>
           /\ req'[r].op \in Ops[r] /\ req'[r].w = w
           /\ Fits(req'[r], status'[w], ref'[w], txns'[w], payout'[w]),
         req'[r].at \in OnTheLoop => OnLoop(r)',
         Sound(status'[w], ref'[w], txns'[w], payout'[w]),
         ~ Owner(req'[r]) => Rests(status'[w], ref'[w], txns'[w], payout'[w]),
         Owner(req[r]) => req[r].w = w
  PROVE  MoneyInv'
<1>1. ASSUME NEW u \in Requests \ {r}, req[u].at # "idle", req[u].w = w
      PROVE  Fits(req[u], status'[w], ref'[w], txns'[w], payout'[w]) /\ ~ Owner(req[u])
  <2>1. CASE req[u].at \in Threads
    BY <2>1, ThreadFits DEF Threads, Owner, OnTheLoop, Starting, Closing
  <2>2. CASE req[u].at \notin Threads
    <3>1. Active(req[u])
      BY <1>1, <2>2 DEF Active
    <3>2. Resolving(r, w) /\ req[u].op \in Resolvers
      BY <1>1, <3>1 DEF Alone, Resolving
    <3>3. /\ req[u].at \notin OnTheLoop /\ req[u] \in Request /\ Routed(req[u])
          /\ Fits(req[u], status[w], ref[w], txns[w], payout[w])
      BY <1>1, OffTheLoop DEF MoneyInv, WorkOK, IInv, TypeOK
    <3>4. req[u].at = "querying" /\ req[u].op = "refresh"
      BY <1>1, <2>2, <3>2, <3>3
         DEF Routed, Request, Places, Awaits, OnTheLoop, Starting, Closing, Threads,
             Resolvers, Starters
    <3>5. Fits(req[u], status'[w], ref'[w], txns'[w], payout[w])
      <4>1. status'[w] \notin Unapproved /\ ref'[w] \in {ref[w], Len(payout[w])}
        BY <3>2 DEF Resolving
      <4> QED BY <3>3, <3>4, <4>1, QueryStillFits
    <3> QED BY <3>2, <3>4, <3>5 DEF Resolving, Owner, OnTheLoop, Starting, Closing
  <2> QED BY <2>1, <2>2
<1>2. ASSUME NEW u \in Requests PROVE WorkOK(u)'
  <2>1. CASE u = r
    BY <2>1 DEF WorkOK
  <2>2. CASE u # r
    <3>1. req'[u] = req[u] /\ WorkOK(u) /\ req[u].at \notin OnTheLoop
      BY <2>2, OffTheLoop DEF MoneyInv
    <3>2. ASSUME req[u].at # "idle", req[u].w # w
          PROVE  Fits(req[u], status'[req[u].w], ref'[req[u].w], txns'[req[u].w],
                      payout'[req[u].w])
      <4>1. req[u].w \in Withdrawals
        BY <3>2, AtFacts
      <4> QED BY <3>1, <3>2, <4>1 DEF WorkOK, OnlyRow
    <3> QED BY <1>1, <2>2, <3>1, <3>2 DEF WorkOK
  <2> QED BY <2>1, <2>2
<1>3. ASSUME NEW v \in Withdrawals PROVE RowOK(v)'
  <2>1. CASE v = w
    <3>1. Owner(req'[r]) => req'[r].w = w
      BY DEF Owner, OnTheLoop, Starting, Closing
    <3> QED BY <2>1, <3>1 DEF RowOK
  <2>2. CASE v # w
    <3>1. /\ status'[v] = status[v] /\ ref'[v] = ref[v] /\ txns'[v] = txns[v]
          /\ payout'[v] = payout[v] /\ RowOK(v)
      BY <2>2 DEF OnlyRow, MoneyInv
    <3>2. ASSUME \A u \in Requests : req'[u].w = v => ~ Owner(req'[u])
          PROVE  \A u \in Requests : req[u].w = v => ~ Owner(req[u])
      BY <2>2, <3>2
    <3> QED BY <3>1, <3>2 DEF RowOK
  <2> QED BY <2>1, <2>2
<1>4. Apart'
  <2> SUFFICES ASSUME NEW u \in Requests, NEW v \in Requests, u # v,
                      Active(req'[u]), Active(req'[v]), req'[u].w = req'[v].w
               PROVE  req'[u].op \in Resolvers
    BY DEF Apart
  <2>1. CASE u # r /\ v # r
    BY <2>1 DEF MoneyInv, Apart
  <2>2. CASE u = r \/ v = r
    <3>1. PICK x \in Requests \ {r} : x \in {u, v}
      BY <2>2
    <3>2. Active(req[x]) /\ req[x].w = w /\ Active(req'[r])
      BY <2>2, <3>1 DEF Active
    <3>3. Resolving(r, w)
      BY <3>2 DEF Alone
    <3> QED BY <2>2, <3>1, <3>2, <3>3 DEF Resolving
  <2> QED BY <2>1, <2>2
<1> QED BY <1>2, <1>3, <1>4 DEF MoneyInv

\* What holds of a request at work and of its withdrawal.
LEMMA AtWork ==
  ASSUME IInv, MoneyInv, NEW r \in Requests, Active(req[r])
  PROVE  LET w == req[r].w IN
         /\ w \in Withdrawals /\ req[r].at # "idle" /\ req[r].op \in Ops[r] /\ Routed(req[r])
         /\ Fits(req[r], status[w], ref[w], txns[w], payout[w])
         /\ Sound(status[w], ref[w], txns[w], payout[w])
         /\ req[r].op \notin Resolvers => Alone(r, w)
         /\ txns[w] \in Seq(Txn) /\ payout[w] \in Seq(Payout) /\ status[w] \in Statuses
         /\ Len(txns[w]) \in Nat /\ Len(payout[w]) \in Nat
         /\ req[r] \in Request /\ TypeOK
<1>1. req[r].at # "idle"
  BY DEF Active
<1>2. req[r].w \in Withdrawals /\ TypeOK /\ WorkOK(r) /\ RowOK(req[r].w)
  BY <1>1, AtFacts DEF IInv, MoneyInv
<1>3. req[r].op \notin Resolvers => Alone(r, req[r].w)
  BY DEF MoneyInv, Apart, Alone
<1>4. /\ txns[req[r].w] \in Seq(Txn) /\ payout[req[r].w] \in Seq(Payout)
      /\ status[req[r].w] \in Statuses /\ req[r] \in Request
  BY <1>2 DEF TypeOK
<1> QED BY <1>1, <1>2, <1>3, <1>4 DEF WorkOK, RowOK

\* Who else can be at work on the withdrawal of a request that goes on.
LEMMA Company ==
  ASSUME IInv, MoneyInv, NEW r \in Requests, NEW w \in Withdrawals, w = req[r].w,
         Active(req[r]), Active(req'[r]) => req'[r].op = req[r].op,
         req[r].op \in Resolvers =>
           /\ status'[w] \notin Unapproved /\ ref'[w] \in {ref[w], Len(payout[w])}
           /\ payout'[w] = payout[w]
  PROVE  Alone(r, w) \/ Resolving(r, w)
<1>1. CASE req[r].op \notin Resolvers
  BY <1>1, AtWork
<1>2. CASE req[r].op \in Resolvers
  BY <1>2 DEF MoneyInv, Apart, Resolving
<1> QED BY <1>1, <1>2

LEMMA KeepStep ==
  ASSUME OneProcess, IInv, IInv', MoneyInv, NEW r \in Requests, NEW w \in Withdrawals,
         LoopFree(r) \/ OnLoop(r), OnlyRow(w), status'[w] # "none",
         Alone(r, w) \/ Resolving(r, w), Owner(req[r]) => req[r].w = w,
         NEW q, Keep(r, q), Routed(q), q.w = w, q.op \in Ops[r], Owner(q),
         Fits(q, status'[w], ref'[w], txns'[w], payout'[w]),
         Sound(status'[w], ref'[w], txns'[w], payout'[w])
  PROVE  MoneyInv'
<1>1. /\ req'[r] = q /\ \A u \in Requests \ {r} : req'[u] = req[u]
      /\ loop'[ReplicaOf[r]] = r
  BY WithdrawalsAssumption DEF Keep, Step, IInv, TypeOK
<1> QED BY <1>1, RequestStep DEF OnLoop

LEMMA DoneStep ==
  ASSUME OneProcess, IInv, IInv', MoneyInv, NEW r \in Requests, NEW w \in Withdrawals,
         LoopFree(r) \/ OnLoop(r), OnlyRow(w), status'[w] # "none",
         Alone(r, w) \/ Resolving(r, w), Owner(req[r]) => req[r].w = w, Done(r),
         Rests(status'[w], ref'[w], txns'[w], payout'[w]),
         Sound(status'[w], ref'[w], txns'[w], payout'[w])
  PROVE  MoneyInv'
<1>1. /\ req'[r] = NoWork /\ \A u \in Requests \ {r} : req'[u] = req[u]
  BY DEF Done, Await, Step, IInv, TypeOK
<1>2. NoWork.at = "idle"
  BY DEF NoWork
<1>3. Routed(NoWork)
  BY <1>2 DEF Routed, Starting, Closing
<1> QED BY <1>1, <1>2, <1>3, RequestStep DEF OnTheLoop, Starting, Closing

\* Done(r) leaves nothing behind.
LEMMA DoneIdle ==
  ASSUME IInv, NEW r \in Requests, Done(r)
  PROVE  ~ Active(req'[r])
BY DEF Done, Await, Step, IInv, TypeOK, Active, NoWork

\* One step further, r works for the same operation on the same withdrawal.
LEMMA KeepsWork ==
  ASSUME IInv, NEW r \in Requests, NEW q, Step(r, q, r), q.op = req[r].op
  PROVE  req'[r].op = req[r].op
BY DEF Step, IInv, TypeOK
-----------------------------------------------------------------------------
(***************************************************************************)
(* Decision, reservation, payout.                                          *)
(***************************************************************************)
LEMMA FinalizeKeepsMoney ==
  ASSUME OneProcess, IInv, IInv', MoneyInv, NEW r \in Requests, NEW outcome,
         Finalize(r, outcome)
  PROVE  MoneyInv'
<1> DEFINE w == req[r].w  s == status[w]  n == ref[w]  T == txns[w]  P == payout[w]
<1>1. req[r].at = "finalize" /\ OnLoop(r) /\ Active(req[r])
  BY DEF Finalize, GoesOn, Active, Threads
<1>2. /\ w \in Withdrawals /\ req[r].op \in Ops[r] /\ req[r].op = "submit" /\ Alone(r, w)
      /\ Fits(req[r], s, n, T, P) /\ Sound(s, n, T, P) /\ req[r] \in Request /\ TypeOK
  BY <1>1, AtWork DEF Routed, Resolvers
<1>3. /\ Dead(T, P) /\ s \in {"PENDING_ADMIN_APPROVAL"} \cup Reviewed
      /\ NoRetry => T = <<>> /\ P = <<>> /\ n = 0
  BY <1>1, <1>2 DEF Fits, Starting
<1>4. UNCHANGED <<ref, txns, payout>>
  BY DEF Finalize
<1>5. CASE SetStatus(w, "REJECTED") /\ Done(r)
  <2>1. status'[w] = "REJECTED" /\ OnlyRow(w)
    BY <1>2, <1>4, <1>5 DEF SetStatus, TypeOK, OnlyRow
  <2>2. Rests("REJECTED", n, T, P) /\ Sound("REJECTED", n, T, P)
    BY <1>2, <1>3 DEF Rests, Sound, Unapproved, NeedsReservation, AlreadyReserved
  <2> QED BY <1>1, <1>2, <1>4, <1>5, <2>1, <2>2, DoneStep
<1>6. CASE Done(r) /\ UNCHANGED status
  <2>1. Rests(s, n, T, P) /\ OnlyRow(w) /\ s # "none"
    BY <1>3, <1>4, <1>6
       DEF Rests, Unapproved, NeedsReservation, AlreadyReserved, Reviewed, OnlyRow
  <2> QED BY <1>1, <1>2, <1>4, <1>6, <2>1, DoneStep
<1>7. CASE Keep(r, To(r, "reserve")) /\ UNCHANGED status
  <2> DEFINE q == To(r, "reserve")
  <2>1. q.at = "reserve" /\ q.w = w /\ q.op = req[r].op
    BY <1>2 DEF To, Request
  <2>2. Keep(r, q)
    BY <1>7
  <2> HIDE DEF q
  <2>3. Fits(q, s, n, T, P)
    BY <1>3, <2>1 DEF Fits, Starting, Closing, Threads
  <2>4. Routed(q) /\ Owner(q)
    BY <1>2, <2>1 DEF Routed, Starting, Closing, Starters, Owner, OnTheLoop
  <2>5. OnlyRow(w) /\ s # "none"
    BY <1>3, <1>4, <1>7 DEF OnlyRow, Reviewed
  <2> QED BY <1>1, <1>2, <1>4, <1>7, <2>1, <2>2, <2>3, <2>4, <2>5, KeepStep
<1> QED BY <1>5, <1>6, <1>7 DEF Finalize

\* One row of one withdrawal is written: the newest.
LEMMA NewestSet ==
  ASSUME TypeOK, NEW w \in Withdrawals, NEW i, i = Len(txns[w]), NEW s, SetTxn(w, i, s)
  PROVE  /\ txns'[w] = [txns[w] EXCEPT ![Len(txns[w])].status = s]
         /\ \A v \in Withdrawals \ {w} : txns'[v] = txns[v]
BY DEF SetTxn, TypeOK

LEMMA NewestCredited ==
  ASSUME TypeOK, NEW w \in Withdrawals, NEW i, i = Len(txns[w]), CreditBack(w, i)
  PROVE  /\ txns'[w] = [txns[w] EXCEPT ![Len(txns[w])].credits = @ + 1]
         /\ \A v \in Withdrawals \ {w} : txns'[v] = txns[v]
BY DEF CreditBack, TypeOK

\* A write to the newest row keeps one row one row.
LEMMA SingleKept ==
  ASSUME NEW T \in Seq(Txn), NEW P \in Seq(Payout), T # <<>>,
         NEW s \in {"processing", "successful", "reversed"}
  PROVE  /\ Single(T, P) => Single([T EXCEPT ![Len(T)].status = s], P)
         /\ Single(T, P) => Single([T EXCEPT ![Len(T)].credits = @ + 1], P)
         /\ Single(T, P) => Single([T EXCEPT ![Len(T)].debits = @ + 1], P)
BY DEF Single, Txn

LEMMA OpenTxnKeepsMoney ==
  ASSUME OneProcess, IInv, IInv', MoneyInv, NEW r \in Requests, OpenTxn(r)
  PROVE  MoneyInv'
<1> DEFINE w == req[r].w  s == status[w]  n == ref[w]  T == txns[w]  P == payout[w]
           q == [req[r] EXCEPT !.at = "post", !.txn = Len(T) + 1]
           U == Append(T, Fresh)
<1>1. req[r].at = "reserve" /\ OnLoop(r) /\ Active(req[r])
  BY DEF OpenTxn, GoesOn, Active, Threads
<1>2. /\ w \in Withdrawals /\ req[r].op \in Ops[r] /\ Routed(req[r])
      /\ Fits(req[r], s, n, T, P) /\ Sound(s, n, T, P) /\ req[r] \in Request /\ TypeOK
      /\ T \in Seq(Txn) /\ P \in Seq(Payout) /\ Len(T) \in Nat
  BY <1>1, AtWork
<1>3. /\ req[r].op \in Starters /\ Alone(r, w)
  BY <1>1, <1>2, AtWork DEF Routed, Resolvers, Starters, Starting
<1>4. /\ Dead(T, P) /\ s \in {"PENDING_ADMIN_APPROVAL"} \cup Reviewed \cup Retryable
      /\ NoRetry => T = <<>> /\ P = <<>> /\ n = 0
  BY <1>1, <1>2 DEF Fits, Starting
<1>5. UNCHANGED <<status, ref, payout>> /\ Keep(r, q) /\ txns' = [txns EXCEPT ![w] = U]
  BY DEF OpenTxn, Fresh, env
<1>6. q.at = "post" /\ q.w = w /\ q.op = req[r].op /\ q.txn = Len(T) + 1
  BY <1>2 DEF Request
<1>7. /\ Opened(U, P) /\ Len(U) = Len(T) + 1
  BY <1>2, <1>4, DeadOpens DEF Fresh, Txn
<1>8. /\ txns'[w] = U /\ OnlyRow(w) /\ s # "none"
  BY <1>2, <1>4, <1>5 DEF TypeOK, OnlyRow, Reviewed, Retryable, NeedsReservation, AlreadyReserved
<1> HIDE DEF q, U
<1>9. Fits(q, s, n, U, P)
  BY <1>4, <1>6, <1>7 DEF Fits, Starting, Closing, Threads
<1>10. Routed(q) /\ Owner(q)
  BY <1>3, <1>6 DEF Routed, Starting, Closing, Owner, OnTheLoop
<1>11. Sound(s, n, U, P)
  <2>1. NoRetry => Single(U, P) /\ P = <<>> /\ n = 0
    <3>1. NoRetry => Len(U) <= 1 /\ Len(P) <= 1
      BY <1>4, <1>7
    <3> QED BY <1>4, <3>1 DEF Single
  <2> QED BY <2>1 DEF Sound
<1> QED BY <1>1, <1>2, <1>3, <1>5, <1>6, <1>8, <1>9, <1>10, <1>11, KeepStep

\* The reservation: posted or refused.
LEMMA ReservationKeepsMoney ==
  ASSUME OneProcess, IInv, IInv', MoneyInv, NEW r \in Requests,
         PostReservation(r) \/ RefuseDebit(r)
  PROVE  MoneyInv'
<1> DEFINE w == req[r].w  s == status[w]  n == ref[w]  T == txns[w]  P == payout[w]
<1>1. req[r].at = "post" /\ OnLoop(r) /\ Active(req[r])
  BY DEF PostReservation, RefuseDebit, GoesOn, Active, Threads
<1>2. /\ w \in Withdrawals /\ req[r].op \in Ops[r] /\ Routed(req[r])
      /\ Fits(req[r], s, n, T, P) /\ Sound(s, n, T, P) /\ req[r] \in Request /\ TypeOK
      /\ T \in Seq(Txn) /\ P \in Seq(Payout) /\ Len(T) \in Nat
  BY <1>1, AtWork
<1>3. /\ req[r].op \in Starters /\ Alone(r, w)
  BY <1>1, <1>2, AtWork DEF Routed, Resolvers, Starters, Starting
<1>4. /\ Opened(T, P) /\ s \in {"PENDING_ADMIN_APPROVAL"} \cup Reviewed \cup Retryable
      /\ NoRetry => P = <<>> /\ n = 0
      /\ req[r].txn = Len(T)
  BY <1>1, <1>2 DEF Fits, Starting
<1>5. UNCHANGED <<status, ref, payout>> /\ s # "none" /\ T # <<>>
  BY <1>4 DEF PostReservation, RefuseDebit, env, Reviewed, Retryable, NeedsReservation,
              AlreadyReserved, Opened, Newest
<1>6. CASE PostReservation(r)
  <2> DEFINE q == To(r, "mark")  U == [T EXCEPT ![Len(T)].debits = @ + 1]
  <2>1. q.at = "mark" /\ q.w = w /\ q.op = req[r].op /\ q.txn = Len(T)
    BY <1>2, <1>4 DEF To, Request
  <2>2. Keep(r, q) /\ txns'[w] = U /\ OnlyRow(w)
    BY <1>2, <1>4, <1>5, <1>6 DEF PostReservation, TypeOK, OnlyRow
  <2>3. Held(U, P) /\ Len(U) = Len(T)
    <3>1. Len(U) = Len(T)
      BY <1>2
    <3>2. Held(U, P)
      BY <1>2, <1>4, OpenedPosts
    <3> QED BY <3>1, <3>2
  <2>4. NoRetry => Single(U, P)
    BY <1>2, <1>5, SingleKept DEF Sound
  <2> HIDE DEF q, U
  <2>5. Fits(q, s, n, U, P)
    BY <1>4, <2>1, <2>3 DEF Fits, Starting, Closing, Threads
  <2>6. Routed(q) /\ Owner(q)
    BY <1>3, <2>1 DEF Routed, Starting, Closing, Owner, OnTheLoop
  <2>7. Sound(s, n, U, P)
    BY <1>4, <2>4 DEF Sound
  <2> QED BY <1>1, <1>2, <1>3, <1>5, <2>1, <2>2, <2>5, <2>6, <2>7, KeepStep
<1>7. CASE RefuseDebit(r)
  <2> DEFINE q == To(r, "refuse")  U == [T EXCEPT ![Len(T)].status = "failed"]
  <2>1. q.at = "refuse" /\ q.w = w /\ q.op = req[r].op
    BY <1>2, <1>4 DEF To, Request
  <2>2. Keep(r, q) /\ txns'[w] = U /\ OnlyRow(w)
    BY <1>2, <1>4, <1>5, <1>7, NewestSet DEF RefuseDebit, OnlyRow
  <2>3. Dead(U, P) /\ Len(U) = Len(T)
    <3>1. Len(U) = Len(T)
      BY <1>2
    <3>2. Dead(U, P)
      BY <1>2, <1>4, OpenedPosts
    <3> QED BY <3>1, <3>2
  <2>4. NoRetry => Single(U, P)
    BY <1>2, <1>4, <2>3 DEF Sound, Single
  <2> HIDE DEF q, U
  <2>5. Fits(q, s, n, U, P)
    BY <1>4, <2>1, <2>3 DEF Fits, Starting, Closing, Threads
  <2>6. Routed(q) /\ Owner(q)
    BY <1>3, <2>1 DEF Routed, Starting, Closing, Owner, OnTheLoop
  <2>7. Sound(s, n, U, P)
    BY <1>4, <2>4 DEF Sound
  <2> QED BY <1>1, <1>2, <1>3, <1>5, <2>1, <2>2, <2>5, <2>6, <2>7, KeepStep
<1> QED BY <1>6, <1>7

LEMMA RefuseReservationKeepsMoney ==
  ASSUME OneProcess, IInv, IInv', MoneyInv, NEW r \in Requests, RefuseReservation(r)
  PROVE  MoneyInv'
<1> DEFINE w == req[r].w  s == status[w]  n == ref[w]  T == txns[w]  P == payout[w]
<1>1. req[r].at = "refuse" /\ OnLoop(r) /\ Active(req[r]) /\ Done(r)
  BY DEF RefuseReservation, GoesOn, Active, Threads
<1>2. /\ w \in Withdrawals /\ Routed(req[r]) /\ Fits(req[r], s, n, T, P) /\ Sound(s, n, T, P)
      /\ TypeOK
  BY <1>1, AtWork
<1>3. Alone(r, w)
  BY <1>1, <1>2, AtWork DEF Routed, Resolvers, Starters, Starting
<1>4. /\ status'[w] = "FAILED" /\ OnlyRow(w) /\ UNCHANGED <<ref, txns, payout>>
  BY <1>2 DEF RefuseReservation, SetStatus, env, OnlyRow, TypeOK
<1>5. Dead(T, P)
  BY <1>1, <1>2 DEF Fits
<1>6. Rests("FAILED", n, T, P) /\ Sound("FAILED", n, T, P)
  BY <1>2, <1>5 DEF Rests, Sound, Unapproved, AlreadyReserved
<1> QED BY <1>1, <1>2, <1>3, <1>4, <1>6, DoneStep

LEMMA MarkProcessingKeepsMoney ==
  ASSUME OneProcess, IInv, IInv', MoneyInv, NEW r \in Requests, MarkProcessing(r)
  PROVE  MoneyInv'
<1> DEFINE w == req[r].w  s == status[w]  n == ref[w]  T == txns[w]  P == payout[w]
           q == To(r, "pay")
<1>1. req[r].at = "mark" /\ OnLoop(r) /\ Active(req[r]) /\ Keep(r, q)
  BY DEF MarkProcessing, GoesOn, Active, Threads
<1>2. /\ w \in Withdrawals /\ Routed(req[r]) /\ Fits(req[r], s, n, T, P) /\ Sound(s, n, T, P)
      /\ TypeOK /\ req[r] \in Request /\ req[r].op \in Ops[r]
  BY <1>1, AtWork
<1>3. req[r].op \in Starters /\ Alone(r, w)
  BY <1>1, <1>2, AtWork DEF Routed, Resolvers, Starters, Starting
<1>4. /\ status'[w] = "PROCESSING" /\ OnlyRow(w) /\ UNCHANGED <<ref, txns, payout>>
  BY <1>2 DEF MarkProcessing, SetStatus, env, OnlyRow, TypeOK
<1>5. q.at = "pay" /\ q.w = w /\ q.op = req[r].op /\ q.txn = req[r].txn
  BY <1>2 DEF To, Request
<1>6. Held(T, P) /\ req[r].txn = Len(T) /\ (NoRetry => P = <<>> /\ n = 0)
  BY <1>1, <1>2 DEF Fits, Starting
<1> HIDE DEF q
<1>7. Fits(q, "PROCESSING", n, T, P)
  BY <1>5, <1>6 DEF Fits, Starting, Closing, Threads
<1>8. Routed(q) /\ Owner(q) /\ Sound("PROCESSING", n, T, P)
  BY <1>2, <1>3, <1>5 DEF Routed, Starting, Closing, Owner, OnTheLoop, Sound, Unapproved
<1> QED BY <1>1, <1>2, <1>3, <1>4, <1>5, <1>7, <1>8, KeepStep

LEMMA BadRecipientKeepsMoney ==
  ASSUME OneProcess, IInv, IInv', MoneyInv, NEW r \in Requests, BadRecipient(r)
  PROVE  MoneyInv'
<1> DEFINE w == req[r].w  s == status[w]  n == ref[w]  T == txns[w]  P == payout[w]
<1>1. req[r].at = "pay" /\ OnLoop(r) /\ Active(req[r]) /\ Done(r)
  BY DEF BadRecipient, GoesOn, Active, Threads
<1>2. /\ w \in Withdrawals /\ Routed(req[r]) /\ Fits(req[r], s, n, T, P) /\ Sound(s, n, T, P)
      /\ TypeOK /\ T \in Seq(Txn) /\ P \in Seq(Payout)
  BY <1>1, AtWork
<1>3. Alone(r, w)
  BY <1>1, <1>2, AtWork DEF Routed, Resolvers, Starters, Starting
<1>4. /\ status'[w] = "NEEDS_ADMIN_ATTENTION" /\ OnlyRow(w) /\ UNCHANGED <<ref, txns, payout>>
  BY <1>2 DEF BadRecipient, SetStatus, env, OnlyRow, TypeOK
<1>5. Held(T, P) /\ Flying(T, P)
  BY <1>1, <1>2, HeldFlies DEF Fits
<1>6. Rests("NEEDS_ADMIN_ATTENTION", n, T, P) /\ Sound("NEEDS_ADMIN_ATTENTION", n, T, P)
  BY <1>2, <1>5 DEF Rests, Sound, Unapproved, NeedsReservation
<1> QED BY <1>1, <1>2, <1>3, <1>4, <1>6, DoneStep

LEMMA SendPayoutKeepsMoney ==
  ASSUME OneProcess, IInv, IInv', MoneyInv, NEW r \in Requests, SendPayout(r)
  PROVE  MoneyInv'
<1> DEFINE w == req[r].w  s == status[w]  n == ref[w]  T == txns[w]  P == payout[w]
           q == [req[r] EXCEPT !.at = "paying", !.attempt = Len(P) + 1]
           Q == Append(P, "sent")
<1>1. req[r].at = "pay" /\ OnLoop(r) /\ Active(req[r]) /\ Await(r, q)
  BY DEF SendPayout, GoesOn, Active, Threads
<1>2. /\ w \in Withdrawals /\ Routed(req[r]) /\ Fits(req[r], s, n, T, P) /\ Sound(s, n, T, P)
      /\ TypeOK /\ req[r] \in Request /\ req[r].op \in Ops[r]
      /\ T \in Seq(Txn) /\ P \in Seq(Payout) /\ Len(P) \in Nat
  BY <1>1, AtWork
<1>3. req[r].op \in Starters /\ Alone(r, w)
  BY <1>1, <1>2, AtWork DEF Routed, Resolvers, Starters, Starting
<1>4. payout'[w] = Q /\ OnlyRow(w) /\ UNCHANGED <<status, ref, txns>>
  BY <1>2 DEF SendPayout, rows, OnlyRow, TypeOK
<1>5. q.at = "paying" /\ q.w = w /\ q.op = req[r].op /\ q.txn = req[r].txn
      /\ q.attempt = Len(P) + 1
  BY <1>2 DEF Request
<1>6. /\ Held(T, P) /\ req[r].txn = Len(T) /\ s \in {"PROCESSING"} \cup Reviewed
      /\ NoRetry => P = <<>> /\ n = 0
  BY <1>1, <1>2 DEF Fits, Starting
<1>7. Flying(T, Q) /\ Len(Q) = Len(P) + 1
  BY <1>2, <1>6, HeldIsSent DEF Payout
<1>8. req'[r] = q /\ \A u \in Requests \ {r} : req'[u] = req[u]
  BY <1>1, <1>2 DEF Await, Step, TypeOK
<1>9. NoRetry => Single(T, Q)
  <2>1. Newest(T, 1, 0)
    BY <1>6 DEF Held
  <2>2. NoRetry => Len(T) <= 1 /\ Len(Q) <= 1
    BY <1>2, <1>6, <1>7 DEF Sound, Single
  <2>3. NoRetry => \A i \in 1..Len(T) : i = Len(T)
    BY <1>2, <2>2
  <2> QED BY <2>1, <2>2, <2>3 DEF Single, Newest
<1> HIDE DEF q, Q
<1>10. Fits(q, s, n, T, Q)
  BY <1>5, <1>6, <1>7 DEF Fits, Starting, Closing, Threads
<1>11. Routed(q) /\ Owner(q) /\ s # "none" /\ q.at \notin OnTheLoop
  BY <1>3, <1>5, <1>6 DEF Routed, Starting, Closing, Owner, OnTheLoop, Reviewed
<1>12. Sound(s, n, T, Q)
  BY <1>6, <1>9 DEF Sound, Unapproved, Reviewed
<1> QED BY <1>1, <1>2, <1>3, <1>4, <1>5, <1>8, <1>10, <1>11, <1>12, RequestStep

\* What holds of a payout call that was answered.
LEMMA PaidFor ==
  ASSUME IInv, MoneyInv, NEW r \in Requests, req[r].at = "paying"
  PROVE  LET w == req[r].w IN
         /\ Active(req[r]) /\ req[r].op \in Starters /\ Alone(r, w) /\ Flying(txns[w], payout[w])
         /\ req[r].txn = Len(txns[w]) /\ req[r].attempt = Len(payout[w])
         /\ payout[w] # <<>> /\ txns[w] # <<>>
         /\ status[w] \in {"PROCESSING"} \cup Reviewed
<1>1. Active(req[r])
  BY DEF Active, Threads
<1>2. /\ Routed(req[r]) /\ payout[req[r].w] \in Seq(Payout)
      /\ Fits(req[r], status[req[r].w], ref[req[r].w], txns[req[r].w], payout[req[r].w])
  BY <1>1, AtWork
<1>3. req[r].op \in Starters /\ Alone(r, req[r].w)
  BY <1>1, <1>2, AtWork DEF Routed, Resolvers, Starters
<1>4. req[r].attempt \in 1..Len(payout[req[r].w])
  BY DEF IInv, RequestsOK, RequestOK
<1>5. payout[req[r].w] # <<>>
  BY <1>2, <1>4
<1> QED BY <1>1, <1>2, <1>3, <1>5 DEF Fits, Flying, Newest

LEMMA PayAnswerKeepsMoney ==
  ASSUME OneProcess, IInv, IInv', MoneyInv, NEW r \in Requests, NEW a, PayAnswer(r, a)
  PROVE  MoneyInv'
<1> DEFINE w == req[r].w  s == status[w]  n == ref[w]  T == txns[w]  P == payout[w]
           m == req[r].attempt  i == req[r].txn
<1>1. /\ req[r].at = "paying" /\ LoopFree(r) /\ UNCHANGED payout
      /\ a \in PayAnswers /\ TruthfulPay(P[m], a)
  BY DEF PayAnswer, Resumes, env
<1>2. /\ Active(req[r]) /\ req[r].op \in Starters /\ Alone(r, w) /\ Flying(T, P)
      /\ i = Len(T) /\ m = Len(P) /\ P # <<>> /\ T # <<>>
      /\ s \in {"PROCESSING"} \cup Reviewed
  BY <1>1, PaidFor
<1>3. /\ w \in Withdrawals /\ Sound(s, n, T, P) /\ TypeOK /\ req[r] \in Request
      /\ req[r].op \in Ops[r] /\ T \in Seq(Txn) /\ P \in Seq(Payout)
  BY <1>2, AtWork
<1>4. s \notin Unapproved \cup {"none", "REVERSED"} /\ Fits(req[r], s, n, T, P)
  BY <1>2, AtWork DEF Unapproved, Reviewed
<1>5. a \in {"failed", "unreadable", "declined", "timeout", "whitelist"} =>
        Held(T, P) /\ AllGone(P)
  BY <1>1, <1>2, <1>3, HeldFlies DEF TruthfulPay, Gone, Understood
<1>6. CASE SetRef(w, m) /\ Done(r) /\ UNCHANGED <<status, txns>>
  <2>1. ref'[w] = Len(P) /\ OnlyRow(w)
    BY <1>1, <1>2, <1>3, <1>6 DEF SetRef, OnlyRow, TypeOK
  <2>2. Rests(s, Len(P), T, P) /\ Sound(s, Len(P), T, P)
    BY <1>2, <1>3, <1>4 DEF Rests, Sound, Unapproved, NeedsReservation, AlreadyReserved, Reviewed
  <2> QED BY <1>1, <1>2, <1>3, <1>4, <1>6, <2>1, <2>2, DoneStep
<1>7. CASE SetStatus(w, "NEEDS_RECONCILIATION") /\ SetRef(w, m) /\ Done(r) /\ UNCHANGED txns
  <2>1. status'[w] = "NEEDS_RECONCILIATION" /\ ref'[w] = Len(P) /\ OnlyRow(w)
    BY <1>1, <1>2, <1>3, <1>7 DEF SetRef, SetStatus, OnlyRow, TypeOK
  <2>2. /\ Rests("NEEDS_RECONCILIATION", Len(P), T, P)
        /\ Sound("NEEDS_RECONCILIATION", Len(P), T, P)
    BY <1>2, <1>3 DEF Rests, Sound, Unapproved, NeedsReservation, AlreadyReserved
  <2> QED BY <1>1, <1>2, <1>3, <1>7, <2>1, <2>2, DoneStep
<1>8. CASE a = "whitelist" /\ SetStatus(w, "BLOCKED_IP_WHITELIST") /\ Done(r)
           /\ UNCHANGED <<ref, txns>>
  <2>1. status'[w] = "BLOCKED_IP_WHITELIST" /\ OnlyRow(w)
    BY <1>1, <1>3, <1>8 DEF SetStatus, OnlyRow, TypeOK
  <2>2. /\ Rests("BLOCKED_IP_WHITELIST", n, T, P)
        /\ Sound("BLOCKED_IP_WHITELIST", n, T, P)
    BY <1>2, <1>3, <1>5, <1>8 DEF Rests, Sound, Unapproved, NeedsReservation
  <2> QED BY <1>1, <1>2, <1>3, <1>8, <2>1, <2>2, DoneStep
<1>9. CASE SetTxn(w, i, "successful") /\ UNCHANGED <<status, ref>>
           /\ Keep(r, [req[r] EXCEPT !.at = "settle", !.ref = m])
  <2> DEFINE q == [req[r] EXCEPT !.at = "settle", !.ref = m]
             U == [T EXCEPT ![Len(T)].status = "successful"]
  <2>1. q.at = "settle" /\ q.w = w /\ q.op = req[r].op /\ q.ref = Len(P)
    BY <1>2, <1>3 DEF Request
  <2>2. Keep(r, q) /\ txns'[w] = U /\ OnlyRow(w)
    BY <1>1, <1>2, <1>3, <1>9, NewestSet DEF OnlyRow
  <2>3. Flying(U, P)
    BY <1>2, <1>3, FlyingLands
  <2>4. NoRetry => Single(U, P)
    BY <1>2, <1>3, SingleKept DEF Sound
  <2> HIDE DEF q, U
  <2>5. Fits(q, s, n, U, P)
    BY <1>2, <1>4, <2>1, <2>3 DEF Fits, Starting, Closing, Threads, Starters
  <2>6. Routed(q) /\ Owner(q)
    BY <1>2, <2>1 DEF Routed, Starting, Closing, Owner, OnTheLoop
  <2>7. Sound(s, n, U, P)
    BY <1>4, <2>4 DEF Sound
  <2> QED BY <1>1, <1>2, <1>3, <1>4, <1>9, <2>1, <2>2, <2>5, <2>6, <2>7, KeepStep
<1>10. CASE /\ a \in {"failed", "unreadable", "declined", "timeout"}
            /\ CreditBack(w, i) /\ UNCHANGED <<status, ref>>
            /\ \E k \in {0, m} : Keep(r, [req[r] EXCEPT !.at = "unwind", !.ref = k])
  <2>1. PICK k \in {0, m} : Keep(r, [req[r] EXCEPT !.at = "unwind", !.ref = k])
    BY <1>10
  <2> DEFINE q == [req[r] EXCEPT !.at = "unwind", !.ref = k]
             U == [T EXCEPT ![Len(T)].credits = @ + 1]
  <2>2. q.at = "unwind" /\ q.w = w /\ q.op = req[r].op /\ q.txn = Len(T)
    BY <1>2, <1>3 DEF Request
  <2>3. Keep(r, q) /\ txns'[w] = U /\ OnlyRow(w) /\ Len(U) = Len(T)
    <3>1. Len(U) = Len(T)
      BY <1>3
    <3>2. txns'[w] = U /\ \A v \in Withdrawals \ {w} : txns'[v] = txns[v]
      BY <1>2, <1>3, <1>10, NewestCredited
    <3> QED BY <1>1, <1>10, <2>1, <3>1, <3>2 DEF OnlyRow
  <2>4. Unwound(U, P)
    BY <1>2, <1>3, <1>5, <1>10, FlyingLands
  <2>5. NoRetry => Single(U, P)
    BY <1>2, <1>3, SingleKept DEF Sound
  <2> HIDE DEF q, U
  <2>6. Fits(q, s, n, U, P)
    BY <1>2, <1>4, <2>2, <2>3, <2>4 DEF Fits, Starting, Closing, Threads, Starters
  <2>7. Routed(q) /\ Owner(q)
    BY <1>2, <2>2 DEF Routed, Starting, Closing, Owner, OnTheLoop
  <2>8. Sound(s, n, U, P)
    BY <1>4, <2>5 DEF Sound
  <2> QED BY <1>1, <1>2, <1>3, <1>4, <1>10, <2>2, <2>3, <2>6, <2>7, <2>8, KeepStep
<1> QED BY <1>6, <1>7, <1>8, <1>9, <1>10 DEF PayAnswer

LEMMA SettleKeepsMoney ==
  ASSUME OneProcess, IInv, IInv', MoneyInv, NEW r \in Requests, Settle(r)
  PROVE  MoneyInv'
<1> DEFINE w == req[r].w  s == status[w]  n == ref[w]  T == txns[w]  P == payout[w]
<1>1. req[r].at = "settle" /\ OnLoop(r) /\ Active(req[r]) /\ Done(r)
  BY DEF Settle, GoesOn, Active, Threads
<1>2. /\ w \in Withdrawals /\ Fits(req[r], s, n, T, P) /\ Sound(s, n, T, P) /\ TypeOK
  BY <1>1, AtWork
<1>3. /\ Flying(T, P)
      /\ IF req[r].op \in {"refresh", "callback"} THEN n = Len(P) ELSE req[r].ref = Len(P)
  BY <1>1, <1>2 DEF Fits, Closing
<1>4. /\ status'[w] = "SUCCESS" /\ ref'[w] = Len(P) /\ OnlyRow(w)
      /\ UNCHANGED <<txns, payout>>
  BY <1>2, <1>3 DEF Settle, SetStatus, SetRef, env, OnlyRow, TypeOK
<1>5. Alone(r, w) \/ Resolving(r, w)
  BY <1>1, <1>2, <1>4, DoneIdle, Company DEF Unapproved
<1>6. Rests("SUCCESS", Len(P), T, P) /\ Sound("SUCCESS", Len(P), T, P)
  BY <1>2, <1>3 DEF Rests, Sound, Unapproved, NeedsReservation, AlreadyReserved
<1> QED BY <1>1, <1>2, <1>4, <1>5, <1>6, DoneStep

LEMMA CloseTxnKeepsMoney ==
  ASSUME OneProcess, IInv, IInv', MoneyInv, NEW r \in Requests, CloseTxn(r)
  PROVE  MoneyInv'
<1> DEFINE w == req[r].w  s == status[w]  n == ref[w]  T == txns[w]  P == payout[w]
           q == To(r, IF req[r].op = "bounce" THEN "reverse" ELSE "fail")
           U == [T EXCEPT ![Len(T)].status = "reversed"]
<1>1. req[r].at = "unwind" /\ OnLoop(r) /\ Active(req[r]) /\ Keep(r, q)
  BY DEF CloseTxn, GoesOn, Active, Threads
<1>2. /\ w \in Withdrawals /\ Fits(req[r], s, n, T, P) /\ Sound(s, n, T, P) /\ TypeOK
      /\ req[r] \in Request /\ req[r].op \in Ops[r] /\ Routed(req[r])
      /\ T \in Seq(Txn) /\ P \in Seq(Payout)
  BY <1>1, AtWork
<1>3. /\ Unwound(T, P) /\ req[r].txn = Len(T) /\ s \notin Unapproved \cup {"REVERSED"}
      /\ req[r].op \in {"refresh", "callback"} => req[r].ref = Len(P) /\ n = Len(P)
  BY <1>1, <1>2 DEF Fits, Closing
<1>4. T # <<>> /\ s # "none" /\ UNCHANGED <<status, ref, payout>>
  BY <1>3 DEF Unwound, Newest, Unapproved, CloseTxn, env
<1>5. txns'[w] = U /\ OnlyRow(w)
  <2>1. SetTxn(w, req[r].txn, "reversed")
    BY DEF CloseTxn
  <2>2. txns'[w] = U /\ \A v \in Withdrawals \ {w} : txns'[v] = txns[v]
    BY <1>2, <1>3, <2>1, NewestSet
  <2> QED BY <1>4, <2>2 DEF OnlyRow
<1>6. /\ q.at = (IF req[r].op = "bounce" THEN "reverse" ELSE "fail") /\ q.w = w
      /\ q.op = req[r].op /\ q.ref = req[r].ref
  BY <1>2 DEF To, Request
<1>7. Dead(U, P) /\ (NoRetry => Single(U, P))
  <2>1. Dead(U, P)
    BY <1>2, <1>3, UnwoundCloses
  <2>2. NoRetry => Single(U, P)
    BY <1>2, <1>4, SingleKept DEF Sound
  <2> QED BY <2>1, <2>2
<1> HIDE DEF q, U
<1>8. Alone(r, w) \/ Resolving(r, w)
  BY <1>1, <1>2, <1>3, <1>4, <1>6, KeepsWork, Company DEF Keep
<1>9. Fits(q, s, n, U, P)
  BY <1>3, <1>6, <1>7 DEF Fits, Starting, Closing, Threads
<1>10. Routed(q) /\ Owner(q)
  BY <1>1, <1>2, <1>6 DEF Routed, Starting, Closing, Owner, OnTheLoop
<1>11. Sound(s, n, U, P)
  BY <1>3, <1>7 DEF Sound
<1> QED BY <1>1, <1>2, <1>4, <1>5, <1>6, <1>8, <1>9, <1>10, <1>11, KeepStep

\* The withdrawal row is closed.
LEMMA ClosingKeepsMoney ==
  ASSUME OneProcess, IInv, IInv', MoneyInv, NEW r \in Requests, Fail(r) \/ Reverse(r)
  PROVE  MoneyInv'
<1> DEFINE w == req[r].w  s == status[w]  n == ref[w]  T == txns[w]  P == payout[w]
<1>1. req[r].at \in {"fail", "reverse"} /\ OnLoop(r) /\ Active(req[r]) /\ Done(r)
  BY DEF Fail, Reverse, GoesOn, Active, Threads
<1>2. /\ w \in Withdrawals /\ Fits(req[r], s, n, T, P) /\ Sound(s, n, T, P) /\ TypeOK
      /\ Routed(req[r])
  BY <1>1, AtWork
<1>3. /\ Dead(T, P)
      /\ req[r].op \in {"refresh", "callback"} => req[r].ref = Len(P)
  BY <1>1, <1>2 DEF Fits, Closing
<1>4. PICK s2 \in {"FAILED", "REVERSED"} : status'[w] = s2
  BY <1>2 DEF Fail, Reverse, SetStatus, TypeOK
<1>5. OnlyRow(w) /\ UNCHANGED <<txns, payout>>
  BY <1>2 DEF Fail, Reverse, SetStatus, SetRef, env, OnlyRow, TypeOK
<1>6. req[r].op \in Resolvers => ref'[w] \in {n, Len(P)}
  BY <1>2, <1>3 DEF Fail, Reverse, GoesOn, SetRef, TypeOK, Routed, Resolvers
<1>7. Alone(r, w) \/ Resolving(r, w)
  BY <1>1, <1>2, <1>4, <1>5, <1>6, DoneIdle, Company DEF Unapproved
<1>8. Rests(s2, ref'[w], T, P) /\ Sound(s2, ref'[w], T, P)
  BY <1>2, <1>3 DEF Rests, Sound, Unapproved, NeedsReservation, AlreadyReserved
<1> QED BY <1>1, <1>2, <1>4, <1>5, <1>7, <1>8, DoneStep
-----------------------------------------------------------------------------
(***************************************************************************)
(* Arrivals, and answers about what is in flight.                          *)
(***************************************************************************)
\* While the loop is free, whoever is at work awaits Selcom.
LEMMA Waiting ==
  ASSUME OneProcess, IInv, MoneyInv, NEW r \in Requests, LoopFree(r),
         NEW u \in Requests, Active(req[u])
  PROVE  LET w == req[u].w IN
         /\ req[u].at \in Awaits /\ Routed(req[u]) /\ req[u].op \in Ops[u]
         /\ Fits(req[u], status[w], ref[w], txns[w], payout[w])
<1>1. ~ OnLoop(r)
  BY WithdrawalsAssumption DEF LoopFree, OnLoop
<1>2. req[u].at \notin OnTheLoop
  BY <1>1, OffTheLoop DEF MoneyInv, WorkOK
<1> QED BY <1>2, AtWork DEF Active, Request, Places, OnTheLoop, Starting, Closing, Threads, Awaits

\* A withdrawal nobody is paying rests then,
LEMMA Resting ==
  ASSUME OneProcess, IInv, MoneyInv, NEW r \in Requests, LoopFree(r), NEW w \in Withdrawals,
         \A u \in Requests : req[u].w = w => req[u].at # "paying"
  PROVE  Rests(status[w], ref[w], txns[w], payout[w])
<1>1. ASSUME NEW u \in Requests, req[u].w = w PROVE ~ Owner(req[u])
  <2>1. CASE Active(req[u])
    BY <1>1, <2>1, Waiting DEF Owner, OnTheLoop, Starting, Closing, Awaits
  <2>2. CASE ~ Active(req[u])
    BY <2>2 DEF Active, Owner, OnTheLoop, Starting, Closing, Threads
  <2> QED BY <2>1, <2>2
<1> QED BY <1>1 DEF MoneyInv, RowOK

\* and before it is approved nobody awaits anything about it;
LEMMA NobodyYet ==
  ASSUME OneProcess, IInv, MoneyInv, NEW r \in Requests, LoopFree(r), req[r].at = "idle",
         NEW w \in Withdrawals, status[w] \in Unapproved
  PROVE  Alone(r, w) /\ Rests(status[w], ref[w], txns[w], payout[w])
<1>1. ASSUME NEW u \in Requests, Active(req[u]) PROVE req[u].w # w
  BY <1>1, Waiting
     DEF Fits, Awaits, Unapproved, Reviewed, Retryable, NeedsReservation, AlreadyReserved, Closing
<1>2. \A u \in Requests : req[u].w = w => req[u].at # "paying"
  BY <1>1 DEF Active, Threads
<1> QED BY <1>1, <1>2, Resting DEF Alone

\* who does not pay and does not retry only asks.
LEMMA OnlyResolvers ==
  ASSUME OneProcess, IInv, MoneyInv, NEW r \in Requests, LoopFree(r), NEW w \in Withdrawals,
         \A u \in Requests \ {r} : req[u].w = w => req[u].at \notin {"paying", "asking"}
  PROVE  \A u \in Requests \ {r} : Active(req[u]) /\ req[u].w = w => req[u].op \in Resolvers
BY Waiting DEF Routed, Awaits, Resolvers

LEMMA SubmitKeepsMoney ==
  ASSUME OneProcess, IInv, IInv', MoneyInv, NEW r \in Requests, NEW w \in Withdrawals,
         Submit(r, w)
  PROVE  MoneyInv'
<1> DEFINE s == status[w]  n == ref[w]  T == txns[w]  P == payout[w]
           q == Work("submit", w, "finalize")
<1>1. /\ req[r].at = "idle" /\ "submit" \in Ops[r] /\ LoopFree(r) /\ s = "none"
      /\ SetStatus(w, "PENDING_ADMIN_APPROVAL") /\ Keep(r, q) /\ UNCHANGED <<ref, txns, payout>>
  BY DEF Submit, Dispatch, NoWork, env
<1>2. Alone(r, w) /\ Rests(s, n, T, P) /\ Sound(s, n, T, P) /\ TypeOK
  BY <1>1, NobodyYet DEF Unapproved, MoneyInv, RowOK, IInv
<1>3. Dead(T, P) /\ (NoRetry => T = <<>> /\ P = <<>> /\ n = 0 /\ Single(T, P))
  BY <1>1, <1>2 DEF Rests, Sound, Unapproved
<1>4. q.at = "finalize" /\ q.w = w /\ q.op = "submit"
  BY WorkFacts DEF Places, OpNames
<1>5. status'[w] = "PENDING_ADMIN_APPROVAL" /\ OnlyRow(w)
  BY <1>1, <1>2 DEF SetStatus, TypeOK, OnlyRow
<1> HIDE DEF q
<1>6. Fits(q, "PENDING_ADMIN_APPROVAL", n, T, P) /\ Sound("PENDING_ADMIN_APPROVAL", n, T, P)
  BY <1>3, <1>4 DEF Fits, Sound, Starting, Closing, Threads
<1>7. Routed(q) /\ Owner(q) /\ ~ Owner(req[r])
  BY <1>1, <1>4 DEF Routed, Starting, Closing, Starters, Owner, OnTheLoop
<1> QED BY <1>1, <1>2, <1>4, <1>5, <1>6, <1>7, KeepStep

LEMMA ApproveKeepsMoney ==
  ASSUME OneProcess, IInv, IInv', MoneyInv, NEW r \in Requests, NEW w \in Withdrawals,
         Approve(r, w)
  PROVE  MoneyInv'
<1> DEFINE s == status[w]  n == ref[w]  T == txns[w]  P == payout[w]
           q == Work("approve", w, "reserve")
<1>1. /\ req[r].at = "idle" /\ "approve" \in Ops[r] /\ LoopFree(r)
      /\ s = "PENDING_ADMIN_APPROVAL" /\ Keep(r, q) /\ UNCHANGED <<status, ref, txns, payout>>
  BY DEF Approve, Dispatch, NoWork, rows
<1>2. Alone(r, w) /\ Rests(s, n, T, P) /\ Sound(s, n, T, P) /\ OnlyRow(w)
  BY <1>1, NobodyYet DEF Unapproved, MoneyInv, RowOK, OnlyRow
<1>3. Dead(T, P) /\ (NoRetry => T = <<>> /\ P = <<>> /\ n = 0)
  BY <1>1, <1>2 DEF Rests, Sound, Unapproved
<1>4. q.at = "reserve" /\ q.w = w /\ q.op = "approve"
  BY WorkFacts DEF Places, OpNames
<1> HIDE DEF q
<1>5. Fits(q, s, n, T, P)
  BY <1>1, <1>3, <1>4 DEF Fits, Starting, Closing, Threads
<1>6. Routed(q) /\ Owner(q) /\ ~ Owner(req[r]) /\ s # "none"
  BY <1>1, <1>4 DEF Routed, Starting, Closing, Starters, Owner, OnTheLoop
<1> QED BY <1>1, <1>2, <1>4, <1>5, <1>6, KeepStep

\* Past the guard of a retry: the money is where the status seen says it is.
LEMMA ReattemptKeepsMoney ==
  ASSUME OneProcess, IInv, IInv', MoneyInv, NEW r \in Requests, NEW w \in Withdrawals,
         LoopFree(r), Alone(r, w), ~ Owner(req[r]), "retry" \in Ops[r],
         status[w] \in Retryable \cup Reviewed,
         Rests(status[w], ref[w], txns[w], payout[w]),
         NEW seen, seen \in NeedsReservation => Dead(txns[w], payout[w]),
         seen \in AlreadyReserved => Held(txns[w], payout[w]),
         Reattempt(r, w, seen), UNCHANGED <<status, ref, txns, payout>>
  PROVE  MoneyInv'
<1> DEFINE s == status[w]  n == ref[w]  T == txns[w]  P == payout[w]
           q == [Work("retry", w, "reserve") EXCEPT !.seen = seen]
<1>1. /\ ~ NoRetry /\ Sound(s, n, T, P) /\ OnlyRow(w) /\ TypeOK
      /\ s # "none"
  BY DEF NoRetry, MoneyInv, RowOK, OnlyRow, IInv, Retryable, NeedsReservation, AlreadyReserved,
         Reviewed
<1>2. q.at = "reserve" /\ q.w = w /\ q.op = "retry"
  BY DEF Work, NoWork
<1>3. CASE Done(r)
  BY <1>1, <1>3, DoneStep
<1>4. CASE seen \in NeedsReservation /\ Keep(r, q)
  <2> HIDE DEF q
  <2>1. Fits(q, s, n, T, P) /\ Routed(q) /\ Owner(q)
    BY <1>1, <1>2, <1>4
       DEF Fits, Routed, Starting, Closing, Threads, Starters, Owner, OnTheLoop
  <2> QED BY <1>1, <1>2, <1>4, <2>1, KeepStep
<1>5. CASE seen \in AlreadyReserved /\ Keep(r, [q EXCEPT !.at = "mark", !.txn = LiveTxn(w)])
  <2> DEFINE z == [q EXCEPT !.at = "mark", !.txn = LiveTxn(w)]
  <2>1. z.at = "mark" /\ z.w = w /\ z.op = "retry" /\ z.txn = LiveTxn(w) /\ Keep(r, z)
    BY <1>5 DEF Work, NoWork
  <2> HIDE DEF z, q
  <2>2. Held(T, P) /\ LiveTxn(w) = Len(T)
    BY <1>1, <1>5, LiveTxnIsNewest DEF Held
  <2>3. Fits(z, s, n, T, P) /\ Routed(z) /\ Owner(z)
    BY <1>1, <2>1, <2>2
       DEF Fits, Routed, Starting, Closing, Threads, Starters, Owner, OnTheLoop
  <2> QED BY <1>1, <2>1, <2>3, KeepStep
<1> QED BY <1>3, <1>4, <1>5 DEF Reattempt

LEMMA RetryKeepsMoney ==
  ASSUME OneProcess, RetriesApart, IInv, IInv', MoneyInv, NEW r \in Requests,
         NEW w \in Withdrawals, Retry(r, w)
  PROVE  MoneyInv'
<1> DEFINE s == status[w]  n == ref[w]  T == txns[w]  P == payout[w]
           q == [Work("retry", w, "asking") EXCEPT !.seen = s, !.ref = n]
<1>1. /\ req[r].at = "idle" /\ "retry" \in Ops[r] /\ LoopFree(r)
      /\ s \in Retryable /\ UNCHANGED <<status, ref, txns, payout>>
  BY DEF Retry, Dispatch, NoWork, rows
<1>2. ~ NoRetry /\ OneRetrier /\ NothingLate
  BY <1>1 DEF NoRetry, RetriesApart
<1>3. ASSUME NEW u \in Requests \ {r}, Active(req[u]) PROVE req[u].w # w
  <2>1. /\ req[u].at \in Awaits /\ Routed(req[u]) /\ req[u].op \in Ops[u]
        /\ Fits(req[u], status[req[u].w], ref[req[u].w], txns[req[u].w], payout[req[u].w])
    BY <1>1, <1>3, Waiting
  <2>2. req[u].at # "asking" /\ req[u].at # "querying"
    BY <1>1, <1>2, <2>1 DEF Routed, OneRetrier, NothingLate
  <2>3. req[u].at = "paying"
    BY <2>1, <2>2 DEF Awaits
  <2>4. status[req[u].w] \in {"PROCESSING"} \cup Reviewed
    BY <2>1, <2>3 DEF Fits
  <2> QED BY <1>1, <2>4 DEF Reviewed, Retryable, NeedsReservation, AlreadyReserved
<1>4. Alone(r, w) /\ Rests(s, n, T, P) /\ Sound(s, n, T, P) /\ ~ Owner(req[r]) /\ OnlyRow(w)
  <2>1. \A u \in Requests : req[u].w = w => req[u].at # "paying"
    BY <1>1, <1>3 DEF Active, Threads
  <2>2. Rests(s, n, T, P)
    BY <1>1, <2>1, Resting
  <2> QED BY <1>1, <1>3, <2>2
          DEF Alone, MoneyInv, RowOK, Owner, OnTheLoop, Starting, Closing, OnlyRow
<1>5. /\ s \in NeedsReservation => Dead(T, P)
      /\ s \in AlreadyReserved => Held(T, P)
  BY <1>4 DEF Rests
<1>6. CASE Reattempt(r, w, s)
  BY <1>1, <1>4, <1>5, <1>6, ReattemptKeepsMoney
<1>7. CASE Await(r, q)
  <2>1. /\ q.at = "asking" /\ q.w = w /\ q.op = "retry" /\ q.seen = s
    BY DEF Work, NoWork
  <2>2. req'[r] = q /\ \A u \in Requests \ {r} : req'[u] = req[u]
    BY <1>7 DEF Await, Step, IInv, TypeOK
  <2> HIDE DEF q
  <2>3. Fits(q, s, n, T, P) /\ Routed(q) /\ q.at \notin OnTheLoop
    BY <1>1, <1>5, <2>1 DEF Fits, Routed, Starting, Closing, Threads, OnTheLoop
  <2>4. s # "none"
    BY <1>1 DEF Retryable, NeedsReservation, AlreadyReserved
  <2> QED BY <1>1, <1>4, <2>1, <2>2, <2>3, <2>4, RequestStep
<1> QED BY <1>6, <1>7 DEF Retry

LEMMA RetryAnswerKeepsMoney ==
  ASSUME OneProcess, IInv, IInv', MoneyInv, NEW r \in Requests, NEW a, RetryAnswer(r, a)
  PROVE  MoneyInv'
<1> DEFINE w == req[r].w  s == status[w]  n == ref[w]  T == txns[w]  P == payout[w]
<1>1. req[r].at = "asking" /\ LoopFree(r) /\ Active(req[r]) /\ UNCHANGED <<status, ref, txns, payout>>
  BY DEF RetryAnswer, Resumes, Active, Threads, rows, env
<1>2. /\ w \in Withdrawals /\ Fits(req[r], s, n, T, P) /\ Sound(s, n, T, P)
      /\ req[r].op \in Ops[r] /\ Routed(req[r])
  BY <1>1, AtWork
<1>3. req[r].op = "retry" /\ Alone(r, w)
  BY <1>1, <1>2, AtWork DEF Routed, Resolvers
<1>4. /\ s \in Retryable \cup Reviewed
      /\ req[r].seen \in NeedsReservation => Dead(T, P)
      /\ req[r].seen \in AlreadyReserved => Held(T, P)
  BY <1>1, <1>2 DEF Fits
<1>5. Rests(s, n, T, P) /\ ~ Owner(req[r]) /\ OnlyRow(w) /\ s # "none"
  <2>1. \A u \in Requests : req[u].w = w => req[u].at # "paying"
    BY <1>1, <1>3 DEF Alone, Active, Threads
  <2>2. Rests(s, n, T, P)
    BY <1>1, <1>2, <2>1, Resting
  <2> QED BY <1>1, <1>4, <2>2
          DEF Owner, OnTheLoop, Starting, Closing, OnlyRow, Retryable, NeedsReservation,
              AlreadyReserved, Reviewed
<1>6. CASE Reattempt(r, w, req[r].seen)
  BY <1>1, <1>2, <1>3, <1>4, <1>5, <1>6, ReattemptKeepsMoney
<1>7. CASE Done(r)
  BY <1>1, <1>2, <1>3, <1>5, <1>7, DoneStep
<1> QED BY <1>6, <1>7 DEF RetryAnswer

\* Who refreshes or is called back runs where nobody retries.
LEMMA NobodyRetries ==
  ASSUME RetriesApart, NEW r \in Requests, {"refresh", "callback"} \cap Ops[r] # {}
  PROVE  NoRetry
BY DEF RetriesApart, NothingLate

\* Then an attempt the row refers to is the newest, and nobody is paying.
LEMMA RefersToNewest ==
  ASSUME OneProcess, NoRetry, IInv, MoneyInv, NEW r \in Requests, LoopFree(r),
         NEW w \in Withdrawals, ref[w] # 0
  PROVE  /\ ref[w] = Len(payout[w]) /\ payout[w] # <<>>
         /\ \A u \in Requests : req[u].w = w => req[u].at \notin {"paying", "asking"}
<1>1. ref[w] \in 0..Len(payout[w]) /\ payout[w] \in Seq(Payout) /\ Len(payout[w]) \in Nat
  BY DEF IInv, RefsExist, TypeOK
<1>2. Len(payout[w]) <= 1
  BY DEF MoneyInv, RowOK, Sound, Single
<1>3. ASSUME NEW u \in Requests, req[u].w = w PROVE req[u].at \notin {"paying", "asking"}
  <2>1. req[u].at = "paying" => FALSE
    BY <1>3, Waiting DEF Active, Threads, Fits
  <2>2. req[u].at = "asking" => FALSE
    BY Waiting DEF Active, Threads, Routed, NoRetry
  <2> QED BY <2>1, <2>2
<1>4. ref[w] = Len(payout[w]) /\ payout[w] # <<>>
  BY <1>1, <1>2
<1> QED BY <1>3, <1>4

\* And a row that is found then is the one that holds the money.
LEMMA LiveIsFlying ==
  ASSUME NoRetry, IInv, MoneyInv, NEW w \in Withdrawals, payout[w] # <<>>, LiveTxn(w) # 0,
         Dead(txns[w], payout[w]) \/ Flying(txns[w], payout[w])
  PROVE  Flying(txns[w], payout[w])
BY NoLiveTxn DEF MoneyInv, RowOK, Sound, Single, IInv

LEMMA RefreshKeepsMoney ==
  ASSUME OneProcess, RetriesApart, IInv, IInv', MoneyInv, NEW r \in Requests,
         NEW w \in Withdrawals, Refresh(r, w)
  PROVE  MoneyInv'
<1> DEFINE s == status[w]  n == ref[w]  T == txns[w]  P == payout[w]
           q == [Work("refresh", w, "querying") EXCEPT !.ref = n]
<1>1. /\ req[r].at = "idle" /\ "refresh" \in Ops[r] /\ LoopFree(r) /\ s \in Refreshable
      /\ n # 0 /\ Await(r, q) /\ UNCHANGED <<status, ref, txns, payout>>
  BY DEF Refresh, Dispatch, NoWork, rows, env
<1>2. NoRetry
  BY <1>1, NobodyRetries
<1>3. /\ n = Len(P)
      /\ \A u \in Requests : req[u].w = w => req[u].at \notin {"paying", "asking"}
  BY <1>1, <1>2, RefersToNewest
<1>4. Rests(s, n, T, P) /\ Sound(s, n, T, P) /\ s \notin Unapproved /\ s # "none" /\ OnlyRow(w)
  BY <1>1, <1>3, Resting DEF MoneyInv, RowOK, Unapproved, Refreshable, OnlyRow
<1>5. /\ q.at = "querying" /\ q.w = w /\ q.op = "refresh" /\ q.ref = Len(P)
  BY <1>3 DEF Work, NoWork
<1>6. req'[r] = q /\ \A u \in Requests \ {r} : req'[u] = req[u]
  BY <1>1 DEF Await, Step, IInv, TypeOK
<1> HIDE DEF q
<1>7. Resolving(r, w)
  <2>1. \A u \in Requests \ {r} : Active(req[u]) /\ req[u].w = w => req[u].op \in Resolvers
    BY <1>1, <1>3, OnlyResolvers
  <2> QED BY <1>1, <1>4, <1>5, <1>6, <2>1 DEF Resolving, Resolvers
<1>8. Fits(q, s, n, T, P)
  BY <1>3, <1>4, <1>5 DEF Fits, Starting, Closing, Threads
<1>9. Routed(q) /\ q.at \notin OnTheLoop /\ ~ Owner(req[r])
  BY <1>1, <1>5 DEF Routed, Starting, Closing, OnTheLoop, Owner
<1> QED BY <1>1, <1>4, <1>5, <1>6, <1>7, <1>8, <1>9, RequestStep

\* _resolve_processing_disbursement, on an answer that is true of the newest
\* attempt, where nobody is paying.
LEMMA ResolveKeepsMoney ==
  ASSUME OneProcess, IInv, IInv', MoneyInv, NEW r \in Requests, NEW w \in Withdrawals,
         LoopFree(r), ~ Owner(req[r]), NEW q \in Request, q.w = w, q.op \in Resolvers,
         q.op \in Ops[r],
         \A u \in Requests \ {r} : Active(req[u]) /\ req[u].w = w => req[u].op \in Resolvers,
         status[w] \notin Unapproved, Rests(status[w], ref[w], txns[w], payout[w]),
         q.op \in {"refresh", "callback"} => q.ref = Len(payout[w]) /\ ref[w] = Len(payout[w]),
         NEW answer, answer = "successful" => q.op \in {"refresh", "callback"},
         LiveTxn(w) # 0 => Flying(txns[w], payout[w]),
         Understood /\ LiveTxn(w) # 0 /\ answer = "failed" =>
           payout[w][Len(payout[w])] \in Gone,
         Resolve(r, q, answer), UNCHANGED <<status, ref, payout>>
  PROVE  MoneyInv'
<1> DEFINE s == status[w]  n == ref[w]  T == txns[w]  P == payout[w]
           i == LiveTxn(w)
<1>1. /\ Sound(s, n, T, P) /\ TypeOK /\ T \in Seq(Txn) /\ P \in Seq(Payout) /\ s # "none"
  BY DEF MoneyInv, RowOK, IInv, TypeOK, Unapproved
<1>2. i # 0 => Flying(T, P) /\ i = Len(T) /\ T # <<>> /\ s # "REVERSED"
  BY <1>1, LiveTxnIsNewest, DeadOrFlying DEF Flying, Newest, Rests
<1> HIDE DEF i
<1>3. CASE Done(r) /\ UNCHANGED <<txns, wallet>>
  <2>1. Resolving(r, w) /\ OnlyRow(w)
    BY <1>3, DoneIdle DEF Resolving, OnlyRow
  <2> QED BY <1>1, <1>3, <2>1, DoneStep
<1>4. CASE i # 0 /\ answer = "successful" /\ SetTxn(w, i, "successful")
           /\ Keep(r, [q EXCEPT !.at = "settle", !.txn = i])
  <2> DEFINE z == [q EXCEPT !.at = "settle", !.txn = i]
             U == [T EXCEPT ![Len(T)].status = "successful"]
  <2>1. z.at = "settle" /\ z.w = w /\ z.op = q.op /\ z.ref = q.ref
    BY DEF Request
  <2>2. txns'[w] = U /\ OnlyRow(w)
    <3>1. txns'[w] = U /\ \A v \in Withdrawals \ {w} : txns'[v] = txns[v]
      BY <1>1, <1>2, <1>4, NewestSet
    <3> QED BY <3>1 DEF OnlyRow
  <2>3. Keep(r, z) /\ Flying(U, P) /\ (NoRetry => Single(U, P))
    <3>1. Keep(r, z)
      BY <1>4
    <3>2. Flying(U, P)
      BY <1>1, <1>2, <1>4, FlyingLands
    <3>3. NoRetry => Single(U, P)
      BY <1>1, <1>2, <1>4, SingleKept DEF Sound
    <3> QED BY <3>1, <3>2, <3>3
  <2> HIDE DEF z, U
  <2>4. Fits(z, s, n, U, P)
    BY <1>2, <1>4, <2>1, <2>3 DEF Fits, Starting, Closing, Threads
  <2>5. Routed(z) /\ Owner(z)
    BY <2>1 DEF Routed, Starting, Closing, Owner, OnTheLoop
  <2>6. Sound(s, n, U, P)
    BY <2>3 DEF Sound
  <2>7. Resolving(r, w)
    <3>1. req'[r] = z
      BY <1>1, <2>3 DEF Keep, Step, TypeOK
    <3> QED BY <2>1, <3>1 DEF Resolving
  <2> QED BY <1>1, <2>1, <2>2, <2>3, <2>4, <2>5, <2>6, <2>7, KeepStep
<1>5. CASE i # 0 /\ answer = "failed" /\ CreditBack(w, i)
           /\ Keep(r, [q EXCEPT !.at = "unwind", !.txn = i])
  <2> DEFINE z == [q EXCEPT !.at = "unwind", !.txn = i]
             U == [T EXCEPT ![Len(T)].credits = @ + 1]
  <2>1. z.at = "unwind" /\ z.w = w /\ z.op = q.op /\ z.ref = q.ref /\ z.txn = Len(T)
    BY <1>2, <1>5 DEF Request
  <2>2. txns'[w] = U /\ OnlyRow(w) /\ Len(U) = Len(T)
    <3>1. Len(U) = Len(T)
      BY <1>1
    <3>2. txns'[w] = U /\ \A v \in Withdrawals \ {w} : txns'[v] = txns[v]
      BY <1>1, <1>2, <1>5, NewestCredited
    <3> QED BY <3>1, <3>2 DEF OnlyRow
  <2>3. Keep(r, z) /\ Unwound(U, P) /\ (NoRetry => Single(U, P))
    <3>1. Keep(r, z)
      BY <1>5
    <3>2. AllGone(P)
      BY <1>1, <1>2, <1>5, HeldFlies DEF i
    <3>3. Unwound(U, P)
      BY <1>1, <1>2, <1>5, <3>2, FlyingLands
    <3>4. NoRetry => Single(U, P)
      BY <1>1, <1>2, <1>5, SingleKept DEF Sound
    <3> QED BY <3>1, <3>3, <3>4
  <2> HIDE DEF z, U
  <2>4. Fits(z, s, n, U, P)
    BY <1>2, <1>5, <2>1, <2>2, <2>3 DEF Fits, Starting, Closing, Threads
  <2>5. Routed(z) /\ Owner(z)
    BY <2>1 DEF Routed, Starting, Closing, Owner, OnTheLoop
  <2>6. Sound(s, n, U, P)
    BY <2>3 DEF Sound
  <2>7. Resolving(r, w)
    <3>1. req'[r] = z
      BY <1>1, <2>3 DEF Keep, Step, TypeOK
    <3> QED BY <2>1, <3>1 DEF Resolving
  <2> QED BY <1>1, <2>1, <2>2, <2>3, <2>4, <2>5, <2>6, <2>7, KeepStep
<1> QED BY <1>3, <1>4, <1>5 DEF Resolve, i

LEMMA RefreshAnswerKeepsMoney ==
  ASSUME OneProcess, RetriesApart, IInv, IInv', MoneyInv, NEW r \in Requests,
         NEW a, RefreshAnswer(r, a)
  PROVE  MoneyInv'
<1> DEFINE w == req[r].w  s == status[w]  n == ref[w]  T == txns[w]  P == payout[w]
<1>1. /\ req[r].at = "querying" /\ LoopFree(r) /\ Active(req[r]) /\ UNCHANGED <<ref, payout>>
      /\ Answered(r, a)
  BY DEF RefreshAnswer, Resumes, Active, Threads, env
<1>2. /\ w \in Withdrawals /\ Fits(req[r], s, n, T, P) /\ Sound(s, n, T, P)
      /\ req[r].op \in Ops[r] /\ Routed(req[r]) /\ req[r] \in Request /\ TypeOK
      /\ T \in Seq(Txn) /\ P \in Seq(Payout)
  BY <1>1, AtWork
<1>3. /\ req[r].op = "refresh" /\ req[r].op \in Resolvers /\ req[r].ref = Len(P)
      /\ n = Len(P) /\ s \notin Unapproved
  BY <1>1, <1>2 DEF Routed, Resolvers, Fits, Closing
<1>4. \A u \in Requests \ {r} : Active(req[u]) /\ req[u].w = w => req[u].op \in Resolvers
  BY <1>1 DEF MoneyInv, Apart
<1>5. NoRetry
  BY <1>2, <1>3, NobodyRetries
<1>6. req[r].ref # 0 /\ P # <<>>
  <2>1. req[r].ref # 0
    BY <1>1 DEF IInv, RequestsOK, RequestOK
  <2> QED BY <1>2, <1>3, <2>1
<1>7. Rests(s, n, T, P) /\ ~ Owner(req[r])
  <2>1. \A u \in Requests : req[u].w = w => req[u].at \notin {"paying", "asking"}
    BY <1>1, <1>2, <1>3, <1>5, <1>6, RefersToNewest
  <2> QED BY <1>1, <1>2, <2>1, Resting DEF Owner, OnTheLoop, Starting, Closing
<1>8. CASE Done(r) /\ UNCHANGED <<status, txns, wallet>>
  <2>1. Resolving(r, w) /\ OnlyRow(w) /\ s # "none"
    BY <1>1, <1>3, <1>4, <1>8, DoneIdle DEF Resolving, OnlyRow, Unapproved
  <2> QED BY <1>1, <1>2, <1>7, <1>8, <2>1, DoneStep
<1>9. CASE SetStatus(w, "NEEDS_RECONCILIATION") /\ Done(r) /\ UNCHANGED <<txns, wallet>>
  <2>1. status'[w] = "NEEDS_RECONCILIATION" /\ OnlyRow(w)
    BY <1>1, <1>2, <1>9 DEF SetStatus, TypeOK, OnlyRow
  <2>2. Resolving(r, w)
    BY <1>1, <1>4, <1>9, <2>1, DoneIdle DEF Resolving, Unapproved
  <2>3. /\ Rests("NEEDS_RECONCILIATION", n, T, P)
        /\ Sound("NEEDS_RECONCILIATION", n, T, P)
    BY <1>2, <1>7 DEF Rests, Sound, Unapproved, NeedsReservation, AlreadyReserved
  <2> QED BY <1>1, <1>2, <1>7, <1>9, <2>1, <2>2, <2>3, DoneStep
<1>10. CASE Resolve(r, req[r], Parsed(a)) /\ UNCHANGED status
  <2>1. LiveTxn(w) # 0 => Flying(T, P)
    BY <1>2, <1>5, <1>6, <1>7, LiveIsFlying DEF Rests
  <2>2. Understood /\ Parsed(a) = "failed" => P[Len(P)] \in Gone
    BY <1>1, <1>3 DEF Answered, TruthfulQuery, Parsed, Understood, Gone
  <2> QED BY <1>1, <1>2, <1>3, <1>4, <1>7, <1>10, <2>1, <2>2, ResolveKeepsMoney
<1> QED BY <1>8, <1>9, <1>10 DEF RefreshAnswer

LEMMA CallbackKeepsMoney ==
  ASSUME OneProcess, RetriesApart, IInv, IInv', MoneyInv, NEW r \in Requests,
         NEW w \in Withdrawals, NEW k \in DOMAIN payout[w], Callback(r, w, k)
  PROVE  MoneyInv'
<1> DEFINE s == status[w]  n == ref[w]  T == txns[w]  P == payout[w]
           q == [Work("callback", w, "querying") EXCEPT !.ref = k]
           answer == IF P[k] = "declined" THEN "failed" ELSE "successful"
<1>1. /\ req[r].at = "idle" /\ "callback" \in Ops[r] /\ LoopFree(r) /\ s = "PROCESSING"
      /\ n = k /\ Resolve(r, q, answer) /\ UNCHANGED <<status, ref, payout>>
  BY DEF Callback, Dispatch, NoWork, env
<1>2. NoRetry
  BY <1>1, NobodyRetries
<1>3. k \in 1..Len(P) /\ P \in Seq(Payout) /\ n # 0
  BY <1>1 DEF IInv, TypeOK
<1>4. /\ n = Len(P) /\ P # <<>>
      /\ \A u \in Requests : req[u].w = w => req[u].at \notin {"paying", "asking"}
  BY <1>1, <1>2, <1>3, RefersToNewest
<1>5. Rests(s, n, T, P) /\ s \notin Unapproved /\ ~ Owner(req[r])
  BY <1>1, <1>4, Resting DEF Unapproved, Owner, OnTheLoop, Starting, Closing
<1>6. q \in Request /\ q.w = w /\ q.op = "callback" /\ q.ref = Len(P)
  <2>1. PICK m \in Nat : m = k
    BY <1>3
  <2>2. q = [Work("callback", w, "querying") EXCEPT !.ref = m]
    BY <2>1
  <2> QED BY <1>1, <1>4, <2>1, <2>2 DEF Work, NoWork, Request, Statuses, Places, Awaits, OpNames
<1>7. \A u \in Requests \ {r} : Active(req[u]) /\ req[u].w = w => req[u].op \in Resolvers
  BY <1>1, <1>4, OnlyResolvers
<1>8. LiveTxn(w) # 0 => Flying(T, P)
  BY <1>2, <1>4, <1>5, LiveIsFlying DEF Rests
<1>9. answer = "failed" => P[Len(P)] \in Gone
  BY <1>1, <1>4 DEF Gone
<1> HIDE DEF q, answer
<1> QED BY <1>1, <1>4, <1>5, <1>6, <1>7, <1>8, <1>9, ResolveKeepsMoney DEF Resolvers

LEMMA BounceCallbackKeepsMoney ==
  ASSUME OneProcess, IInv, IInv', MoneyInv, NEW r \in Requests, NEW w \in Withdrawals,
         BounceCallback(r, w)
  PROVE  MoneyInv'
<1> DEFINE s == status[w]  n == ref[w]  T == txns[w]  P == payout[w]
           q == Work("bounce", w, "querying")
<1>1. /\ req[r].at = "idle" /\ "bounce" \in Ops[r] /\ LoopFree(r) /\ s = "SUCCESS"
      /\ P[n] = "bounced" /\ Resolve(r, q, "failed") /\ UNCHANGED <<status, ref, payout>>
  BY DEF BounceCallback, Dispatch, NoWork, env
<1>2. \A u \in Requests : req[u].w = w => req[u].at \notin {"paying", "asking"}
  <2> SUFFICES ASSUME NEW u \in Requests, req[u].w = w
               PROVE  req[u].at \notin {"paying", "asking"}
    OBVIOUS
  <2>1. Active(req[u]) => Fits(req[u], s, n, T, P)
    BY <1>1, Waiting
  <2> QED BY <1>1, <2>1
          DEF Active, Threads, Fits, Reviewed, Retryable, NeedsReservation, AlreadyReserved
<1>3. Rests(s, n, T, P) /\ s \notin Unapproved /\ ~ Owner(req[r])
  BY <1>1, <1>2, Resting DEF Unapproved, Owner, OnTheLoop, Starting, Closing
<1>4. Flying(T, P) /\ P[Len(P)] \in Gone
  BY <1>1, <1>3 DEF Rests, Gone
<1>5. q \in Request /\ q.w = w /\ q.op = "bounce"
  BY WorkFacts DEF OpNames, Places, Awaits
<1>6. \A u \in Requests \ {r} : Active(req[u]) /\ req[u].w = w => req[u].op \in Resolvers
  BY <1>1, <1>2, OnlyResolvers
<1> HIDE DEF q
<1> QED BY <1>1, <1>3, <1>4, <1>5, <1>6, ResolveKeepsMoney DEF Resolvers
-----------------------------------------------------------------------------
(***************************************************************************)
(* The thread pool, Selcom, crashes.                                       *)
(***************************************************************************)
\* A review that overtakes a request leaves the money where it was.
LEMMA ReviewFits ==
  ASSUME NEW q, NEW s, NEW n, NEW T, NEW P, NEW s2 \in {s} \cup Reviewed
  PROVE  /\ Fits(q, s, n, T, P) => Fits(q, s2, n, T, P)
         /\ Rests(s, n, T, P) => Rests(s2, n, T, P)
         /\ Sound(s, n, T, P) => Sound(s2, n, T, P)
<1>1. Fits(q, s, n, T, P) => Fits(q, s2, n, T, P)
  BY DEF Fits, Reviewed, Unapproved
<1>2. Rests(s, n, T, P) => Rests(s2, n, T, P)
  BY DEF Rests, Reviewed, Unapproved, NeedsReservation, AlreadyReserved
<1>3. Sound(s, n, T, P) => Sound(s2, n, T, P)
  BY DEF Sound, Reviewed, Unapproved
<1> QED BY <1>1, <1>2, <1>3

\* A step beside the loop: r does not pay or settle afterwards, and what it leaves
\* is at rest.
LEMMA QuietStep ==
  ASSUME IInv, MoneyInv, NEW r \in Requests, UNCHANGED <<ref, txns, payout>>,
         \A u \in Requests \ {r} : req'[u] = req[u] /\ (OnLoop(u) => OnLoop(u)'),
         \A w \in Withdrawals : status'[w] \in {status[w]} \cup Reviewed,
         ~ Active(req'[r]), Routed(req'[r]),
         req'[r].at # "idle" => req'[r].op \in Ops[r] /\ status'[req'[r].w] # "none",
         Owner(req[r]) => /\ req[r].w \in Withdrawals
                          /\ Rests(status[req[r].w], ref[req[r].w], txns[req[r].w],
                                   payout[req[r].w])
  PROVE  MoneyInv'
<1>1. req'[r].at \in Threads \cup {"idle"} /\ ~ Owner(req'[r]) /\ req'[r].at \notin OnTheLoop
  BY DEF Active, Owner, OnTheLoop, Starting, Closing, Threads
<1>2. ASSUME NEW u \in Requests PROVE WorkOK(u)'
  <2>1. CASE u = r
    BY <1>1, <2>1, ThreadFits DEF WorkOK
  <2>2. CASE u # r
    <3>1. req'[u] = req[u] /\ WorkOK(u) /\ (OnLoop(u) => OnLoop(u)')
      BY <2>2 DEF MoneyInv
    <3>2. ASSUME req[u].at # "idle"
          PROVE  Fits(req[u], status'[req[u].w], ref[req[u].w], txns[req[u].w],
                      payout[req[u].w])
      <4>1. status'[req[u].w] \in {status[req[u].w]} \cup Reviewed
        BY <3>2, AtFacts
      <4> QED BY <3>1, <3>2, <4>1, ReviewFits DEF WorkOK
    <3> QED BY <3>1, <3>2 DEF WorkOK
  <2> QED BY <2>1, <2>2
<1>3. ASSUME NEW w \in Withdrawals PROVE RowOK(w)'
  <2>1. RowOK(w) /\ status'[w] \in {status[w]} \cup Reviewed
    BY DEF MoneyInv
  <2>2. Sound(status'[w], ref[w], txns[w], payout[w])
    BY <2>1, ReviewFits DEF RowOK
  <2>3. ASSUME \A u \in Requests : req'[u].w = w => ~ Owner(req'[u])
        PROVE  Rests(status'[w], ref[w], txns[w], payout[w])
    <3>1. Rests(status[w], ref[w], txns[w], payout[w])
      <4>1. CASE Owner(req[r]) /\ req[r].w = w
        BY <4>1
      <4>2. CASE ~ (Owner(req[r]) /\ req[r].w = w)
        <5>1. \A u \in Requests : req[u].w = w => ~ Owner(req[u])
          BY <2>3, <4>2
        <5> QED BY <2>1, <5>1 DEF RowOK
      <4> QED BY <4>1, <4>2
    <3> QED BY <2>1, <3>1, ReviewFits
  <2> QED BY <2>2, <2>3 DEF RowOK
<1>4. Apart'
  BY DEF Apart, MoneyInv
<1> QED BY <1>2, <1>3, <1>4 DEF MoneyInv

LEMMA ThreadReadKeepsMoney ==
  ASSUME IInv, MoneyInv, NEW r \in Requests, ReadToReject(r) \/ ReadToAsk(r)
  PROVE  MoneyInv'
<1>1. PICK op \in {"reject", "info"}, p \in Threads, w \in Withdrawals :
        /\ op \in Ops[r] /\ req[r] = NoWork /\ status[w] # "none"
        /\ req' = [req EXCEPT ![r] = Work(op, w, p)]
  BY DEF ReadToReject, ReadToAsk, ThreadRead, Threads, AwaitingAdmin
<1>2. UNCHANGED <<status, ref, txns, payout, loop>> /\ TypeOK
  BY DEF ReadToReject, ReadToAsk, ThreadRead, rows, env, IInv
<1>3. /\ req'[r].at = p /\ req'[r].op = op /\ req'[r].w = w
      /\ \A u \in Requests \ {r} : req'[u] = req[u]
  <2>1. Work(op, w, p).at = p /\ Work(op, w, p).op = op /\ Work(op, w, p).w = w
    BY DEF Work, NoWork
  <2> QED BY <1>1, <1>2, <2>1 DEF TypeOK
<1>4. Routed(req'[r]) /\ ~ Active(req'[r])
  BY <1>3 DEF Routed, Active, Threads, Starting, Closing
<1>5. ~ Owner(req[r])
  BY <1>1 DEF NoWork, Owner, OnTheLoop, Starting, Closing
<1>6. \A u \in Requests \ {r} : req'[u] = req[u] /\ (OnLoop(u) => OnLoop(u)')
  BY <1>2, <1>3 DEF OnLoop
<1> QED BY <1>1, <1>2, <1>3, <1>4, <1>5, <1>6, QuietStep

LEMMA ThreadWriteKeepsMoney ==
  ASSUME IInv, MoneyInv, NEW r \in Requests, Reject(r) \/ RequestInfo(r)
  PROVE  MoneyInv'
<1>1. /\ req[r].at \in Threads /\ req' = [req EXCEPT ![r] = NoWork]
      /\ UNCHANGED <<ref, txns, payout, loop>> /\ TypeOK
      /\ \E s \in Reviewed : SetStatus(req[r].w, s)
  BY DEF Reject, RequestInfo, ThreadWrite, env, IInv, Threads, Reviewed
<1>2. \A w \in Withdrawals : status'[w] \in {status[w]} \cup Reviewed
  BY <1>1 DEF SetStatus, TypeOK
<1>3. /\ req'[r].at = "idle" /\ \A u \in Requests \ {r} : req'[u] = req[u]
  BY <1>1 DEF TypeOK, NoWork
<1>4. Routed(req'[r]) /\ ~ Active(req'[r])
  BY <1>3 DEF Routed, Active, Starting, Closing
<1>5. ~ Owner(req[r])
  BY <1>1 DEF Owner, OnTheLoop, Starting, Closing, Threads
<1>6. \A u \in Requests \ {r} : req'[u] = req[u] /\ (OnLoop(u) => OnLoop(u)')
  BY <1>1, <1>3 DEF OnLoop
<1> QED BY <1>1, <1>2, <1>3, <1>4, <1>5, <1>6, QuietStep

\* A request that dies awaiting its payout leaves the attempt in flight.
LEMMA AbortKeepsMoney ==
  ASSUME DiesWaiting, IInv, MoneyInv, NEW r \in Requests, Abort(r)
  PROVE  MoneyInv'
<1>1. /\ req[r].at \in Awaits /\ req' = [req EXCEPT ![r] = NoWork]
      /\ loop' = [p \in Replicas |-> IF loop[p] = r THEN NoRequest ELSE loop[p]]
      /\ UNCHANGED <<status, ref, txns, payout>> /\ TypeOK
  BY DEF Abort, DiesWaiting, rows, IInv
<1>2. /\ req'[r].at = "idle" /\ \A u \in Requests \ {r} : req'[u] = req[u]
  BY <1>1 DEF TypeOK, NoWork
<1>3. Routed(req'[r]) /\ ~ Active(req'[r])
  BY <1>2 DEF Routed, Active, Starting, Closing
<1>4. ASSUME NEW u \in Requests \ {r}, OnLoop(u) PROVE OnLoop(u)'
  BY <1>1, <1>4, WithdrawalsAssumption DEF OnLoop
<1>5. ASSUME Owner(req[r])
      PROVE  /\ req[r].w \in Withdrawals
             /\ Rests(status[req[r].w], ref[req[r].w], txns[req[r].w], payout[req[r].w])
  <2>1. req[r].at = "paying"
    BY <1>1, <1>5 DEF Owner, OnTheLoop, Starting, Closing, Awaits
  <2>2. req[r].w \in Withdrawals
    BY <2>1, AtFacts
  <2>3. /\ Flying(txns[req[r].w], payout[req[r].w])
        /\ status[req[r].w] \in {"PROCESSING"} \cup Reviewed
    BY <2>1, PaidFor
  <2> QED BY <2>2, <2>3
          DEF Rests, Reviewed, Unapproved, NeedsReservation, AlreadyReserved
<1> QED BY <1>1, <1>2, <1>3, <1>4, <1>5, QuietStep

\* Selcom decides an attempt, or the payment comes back.
LEMMA LaterFits ==
  ASSUME NEW q, NEW s, NEW m, NEW T \in Seq(Txn), NEW P \in Seq(Payout),
         NEW k \in 1..Len(P), P[k] \notin Gone, NEW outcome
  PROVE  LET Q == [P EXCEPT ![k] = outcome] IN
         /\ Fits(q, s, m, T, P) => Fits(q, s, m, T, Q)
         /\ Rests(s, m, T, P) => Rests(s, m, T, Q)
         /\ Sound(s, m, T, P) => Sound(s, m, T, Q)
<1> DEFINE Q == [P EXCEPT ![k] = outcome]
<1>1. /\ Dead(T, P) => Dead(T, Q)
      /\ Opened(T, P) => Opened(T, Q)
      /\ Held(T, P) => Held(T, Q)
      /\ Unwound(T, P) => Unwound(T, Q)
      /\ Flying(T, P) => Flying(T, Q)
      /\ Len(Q) = Len(P) /\ (Q = <<>> <=> P = <<>>)
  BY PayoutChanges, Zenon
<1> HIDE DEF Q
<1>2. Fits(q, s, m, T, P) => Fits(q, s, m, T, Q)
  BY <1>1 DEF Fits
<1>3. Rests(s, m, T, P) => Rests(s, m, T, Q)
  BY <1>1 DEF Rests
<1>4. Sound(s, m, T, P) => Sound(s, m, T, Q)
  BY <1>1 DEF Sound, Single
<1> QED BY <1>2, <1>3, <1>4 DEF Q

LEMMA SelcomKeepsMoney ==
  ASSUME IInv, MoneyInv, NEW w \in Withdrawals, NEW k \in DOMAIN payout[w],
         payout[w][k] \notin Gone, NEW outcome,
         payout' = [payout EXCEPT ![w][k] = outcome],
         UNCHANGED <<status, ref, txns, req, loop>>
  PROVE  MoneyInv'
<1> DEFINE Q == [payout[w] EXCEPT ![k] = outcome]
<1>1. /\ TypeOK /\ k \in 1..Len(payout[w]) /\ payout[w] \in Seq(Payout)
      /\ txns[w] \in Seq(Txn)
  BY DEF IInv, TypeOK
<1>2. payout'[w] = Q /\ \A v \in Withdrawals \ {w} : payout'[v] = payout[v]
  BY <1>1 DEF TypeOK
<1>3. ASSUME NEW v \in Withdrawals, NEW q
      PROVE  /\ Fits(q, status[v], ref[v], txns[v], payout[v]) =>
                  Fits(q, status[v], ref[v], txns[v], payout'[v])
             /\ Rests(status[v], ref[v], txns[v], payout[v]) =>
                  Rests(status[v], ref[v], txns[v], payout'[v])
             /\ Sound(status[v], ref[v], txns[v], payout[v]) =>
                  Sound(status[v], ref[v], txns[v], payout'[v])
  <2>1. CASE v = w
    <3> DEFINE s == status[w]  m == ref[w]  T == txns[w]  P == payout[w]
    <3>1. /\ Fits(q, s, m, T, P) => Fits(q, s, m, T, Q)
          /\ Rests(s, m, T, P) => Rests(s, m, T, Q)
          /\ Sound(s, m, T, P) => Sound(s, m, T, Q)
      BY <1>1, LaterFits, Zenon
    <3> QED BY <1>2, <2>1, <3>1
  <2>2. CASE v # w
    BY <1>2, <2>2
  <2> QED BY <2>1, <2>2
<1>4. ASSUME NEW u \in Requests PROVE WorkOK(u)'
  <2>1. WorkOK(u) /\ (req[u].at # "idle" => req[u].w \in Withdrawals)
    BY AtFacts DEF MoneyInv
  <2> QED BY <1>3, <2>1 DEF WorkOK, OnLoop
<1>5. ASSUME NEW v \in Withdrawals PROVE RowOK(v)'
  BY <1>3 DEF MoneyInv, RowOK
<1>6. Apart'
  BY DEF Apart, MoneyInv
<1> QED BY <1>4, <1>5, <1>6 DEF MoneyInv

LEMMA StandingKeepsMoney ==
  ASSUME MoneyInv, UNCHANGED <<status, ref, txns, payout, req, loop>>
  PROVE  MoneyInv'
BY DEF MoneyInv, WorkOK, RowOK, Apart, OnLoop
-----------------------------------------------------------------------------
(***************************************************************************)
(* The invariant and the theorems.                                         *)
(***************************************************************************)
LEMMA InitMoney == Init => MoneyInv
<1> SUFFICES ASSUME Init PROVE MoneyInv
  OBVIOUS
<1>1. ASSUME NEW r \in Requests PROVE req[r].at = "idle"
  BY DEF Init, NoWork
<1>2. \A r \in Requests : WorkOK(r)
  BY <1>1 DEF WorkOK, Routed, Starting, Closing, OnTheLoop
<1>3. Apart
  BY <1>1 DEF Apart, Active
<1>4. ASSUME NEW w \in Withdrawals PROVE RowOK(w)
  <2>1. /\ status[w] = "none" /\ ref[w] = 0 /\ txns[w] = <<>> /\ payout[w] = <<>>
    BY DEF Init
  <2>2. Dead(<<>>, <<>>) /\ Single(<<>>, <<>>)
    BY DEF Dead, AllGone, Single
  <2> QED BY <2>1, <2>2 DEF RowOK, Sound, Rests, Unapproved, AlreadyReserved
<1> QED BY <1>2, <1>3, <1>4 DEF MoneyInv

LEMMA NextKeepsMoney ==
  ASSUME Conditions, IInv, IInv', MoneyInv, [Next]_vars
  PROVE  MoneyInv'
<1> USE DEF Conditions
<1>1. CASE UNCHANGED vars
  BY <1>1, StandingKeepsMoney DEF vars, rows, env
<1>2. ASSUME NEW r \in Requests, LocalStep(r) PROVE MoneyInv'
  BY <1>2, FinalizeKeepsMoney, OpenTxnKeepsMoney, ReservationKeepsMoney,
     MarkProcessingKeepsMoney, RefuseReservationKeepsMoney, BadRecipientKeepsMoney,
     SendPayoutKeepsMoney, SettleKeepsMoney, CloseTxnKeepsMoney, ClosingKeepsMoney,
     ThreadWriteKeepsMoney DEF LocalStep
<1>3. ASSUME NEW r \in Requests, AnswerStep(r) PROVE MoneyInv'
  BY <1>3, PayAnswerKeepsMoney, RetryAnswerKeepsMoney, RefreshAnswerKeepsMoney DEF AnswerStep
<1>4. ASSUME NEW r \in Requests, NEW w \in Withdrawals, Arrival(r, w) PROVE MoneyInv'
  BY <1>4, SubmitKeepsMoney, ApproveKeepsMoney, RetryKeepsMoney, RefreshKeepsMoney,
     CallbackKeepsMoney, BounceCallbackKeepsMoney DEF Arrival
<1>5. ASSUME NEW w \in Withdrawals, Selcom(w) PROVE MoneyInv'
  <2>1. PICK k \in DOMAIN payout[w] :
          Decide(w, k, "paid") \/ Decide(w, k, "declined") \/ ComesBack(w, k)
    BY <1>5 DEF Selcom
  <2> QED BY <2>1, SelcomKeepsMoney DEF Decide, ComesBack, Gone, rows
<1>6. StandingChanges => MoneyInv'
  BY StandingKeepsMoney DEF StandingChanges, rows
<1> QED BY <1>1, <1>2, <1>3, <1>4, <1>5, <1>6, AbortKeepsMoney, ThreadReadKeepsMoney DEF Next

\* The money is where the places, the statuses, the rows and the attempts say, in
\* every reachable state, whatever Selcom answers.
THEOREM MoneyInvariant ==
  ASSUME Conditions
  PROVE  Spec => [](IInv /\ MoneyInv)
<1>1. Init => IInv /\ MoneyInv
  BY InitIInv, InitMoney
<1>2. IInv /\ MoneyInv /\ [Next]_vars => (IInv /\ MoneyInv)'
  BY NextKeepsIInv, NextKeepsMoney
<1> QED BY <1>1, <1>2, PTL DEF Spec
-----------------------------------------------------------------------------
(***************************************************************************)
(* What the invariant says of the money.                                   *)
(***************************************************************************)
\* In every state the money of a withdrawal is in one of five conditions.
LEMMA Phases ==
  ASSUME IInv, MoneyInv, NEW w \in Withdrawals
  PROVE  LET T == txns[w]  P == payout[w] IN
         Dead(T, P) \/ Opened(T, P) \/ Flying(T, P) \/ Unwound(T, P)
<1>1. CASE \A r \in Requests : req[r].w = w => ~ Owner(req[r])
  BY <1>1 DEF MoneyInv, RowOK, Rests
<1>2. ASSUME NEW r \in Requests, req[r].w = w, Owner(req[r])
      PROVE  LET T == txns[w]  P == payout[w] IN
             Dead(T, P) \/ Opened(T, P) \/ Flying(T, P) \/ Unwound(T, P)
  <2>1. Active(req[r])
    BY <1>2 DEF Owner, Active, OnTheLoop, Starting, Closing, Threads
  <2>2. /\ Fits(req[r], status[w], ref[w], txns[w], payout[w])
        /\ txns[w] \in Seq(Txn) /\ payout[w] \in Seq(Payout)
    BY <1>2, <2>1, AtWork
  <2> QED BY <1>2, <2>2, HeldFlies DEF Fits, Owner, OnTheLoop, Starting, Closing
<1> QED BY <1>1, <1>2

\* The newest row holds the debit, or none does; the newest attempt is paid, or
\* none is.
LEMMA OnlyTheNewest ==
  ASSUME IInv, MoneyInv, NEW w \in Withdrawals
  PROVE  LET T == txns[w]  P == payout[w] IN
         /\ \A i \in DOMAIN T : T[i].credits <= T[i].debits /\ T[i].debits <= 1
         /\ Flying(T, P) => Outstanding(w) = {Len(T)}
         /\ ~ Flying(T, P) => Outstanding(w) = {}
         /\ Understood \/ NoRetry => Paid(w) \subseteq {Len(P)}
<1> DEFINE T == txns[w]  P == payout[w]
<1>1. /\ T \in Seq(Txn) /\ P \in Seq(Payout) /\ DOMAIN T = 1..Len(T) /\ DOMAIN P = 1..Len(P)
      /\ Len(T) \in Nat
  BY DEF IInv, TypeOK
<1>2. \A i \in DOMAIN T : T[i].debits \in Nat /\ T[i].credits \in Nat
  <2>1. \A i \in DOMAIN T : T[i] \in Txn
    BY <1>1
  <2> QED BY <2>1 DEF Txn
<1>5. NoRetry => Paid(w) \subseteq {Len(P)}
  <2>1. NoRetry => Len(P) <= 1
    BY DEF MoneyInv, RowOK, Sound, Single
  <2> QED BY <1>1, <2>1 DEF Paid
<1>3. CASE Flying(T, P)
  <2>1. Len(T) \in 1..Len(T) /\ T[Len(T)].debits = 1 /\ T[Len(T)].credits = 0
    BY <1>1, <1>3 DEF Flying, Newest
  <2>2. \A i \in 1..Len(T) : i # Len(T) => DeadRow(T[i])
    BY <1>3 DEF Flying, Newest
  <2>3. \A i \in DOMAIN T : T[i].credits <= T[i].debits /\ T[i].debits <= 1
    BY <1>1, <2>1, <2>2 DEF DeadRow
  <2>4. Outstanding(w) = {Len(T)}
    BY <1>1, <2>1, <2>2 DEF Outstanding, DeadRow
  <2>5. Understood => Paid(w) \subseteq {Len(P)}
    BY <1>1, <1>3 DEF Paid, Flying, OldGone, Gone
  <2> QED BY <1>3, <1>5, <2>3, <2>4, <2>5
<1>4. CASE Dead(T, P) \/ Opened(T, P) \/ Unwound(T, P)
  <2>1. \A i \in 1..Len(T) : \/ DeadRow(T[i])
                             \/ T[i].debits = 0 /\ T[i].credits = 0
                             \/ T[i].debits = 1 /\ T[i].credits = 1
    BY <1>4 DEF Dead, Opened, Unwound, Newest
  <2>2. \A i \in DOMAIN T : T[i].credits = T[i].debits /\ T[i].debits <= 1
    BY <1>1, <2>1 DEF DeadRow
  <2>3. AllGone(P)
    BY <1>4 DEF Dead, Opened, Unwound
  <2>4. Outstanding(w) = {} /\ (Understood => Paid(w) = {})
    <3>1. Outstanding(w) = {}
      BY <1>2, <2>2 DEF Outstanding
    <3>2. Understood => Paid(w) = {}
      BY <1>1, <2>3 DEF Paid, AllGone, Gone
    <3> QED BY <3>1, <3>2
  <2>5. ~ Flying(T, P)
    <3>1. Flying(T, P) => Len(T) \in 1..Len(T) /\ T[Len(T)].debits = 1 /\ T[Len(T)].credits = 0
      BY <1>1 DEF Flying, Newest
    <3> QED BY <1>1, <2>2, <3>1
  <2>6. \A i \in DOMAIN T : T[i].credits <= T[i].debits /\ T[i].debits <= 1
    BY <1>2, <2>2
  <2> QED BY <1>5, <2>4, <2>5, <2>6
<1> QED BY <1>3, <1>4, Phases

LEMMA AtMostOne ==
  ASSUME NEW S, NEW x, S \subseteq {x}
  PROVE  Cardinality(S) <= 1
<1>1. S = {} \/ S = {x}
  OBVIOUS
<1>2. Cardinality({}) = 0 /\ Cardinality({x}) = 1
  BY FS_EmptySet, FS_Singleton
<1> QED BY <1>1, <1>2

LEMMA MoneyIsSafe ==
  ASSUME IInv, MoneyInv
  PROVE  /\ ReversedAtMostOnce /\ ReservedAtMostOnce /\ PayoutInFlightIsHeld
         /\ Understood \/ NoRetry => NeverPaidTwice
<1>1. ReversedAtMostOnce
  BY OnlyTheNewest DEF ReversedAtMostOnce
<1>2. ASSUME NEW w \in Withdrawals
      PROVE  /\ Cardinality(Outstanding(w)) <= 1
             /\ Understood \/ NoRetry => Cardinality(Paid(w)) <= 1
  <2>1. /\ Outstanding(w) \subseteq {Len(txns[w])}
        /\ Understood \/ NoRetry => Paid(w) \subseteq {Len(payout[w])}
    BY OnlyTheNewest
  <2> QED BY <2>1, AtMostOne
<1>3. ASSUME NEW r \in Requests, req[r].at \in {"pay", "paying"}
      PROVE  req[r].txn \in Outstanding(req[r].w)
  <2> DEFINE w == req[r].w
  <2>1. Active(req[r])
    BY <1>3 DEF Active, Threads
  <2>2. /\ w \in Withdrawals /\ Fits(req[r], status[w], ref[w], txns[w], payout[w])
        /\ txns[w] \in Seq(Txn) /\ payout[w] \in Seq(Payout)
    BY <2>1, AtWork
  <2>3. Flying(txns[w], payout[w]) /\ req[r].txn = Len(txns[w])
    BY <1>3, <2>2, HeldFlies DEF Fits
  <2> QED BY <2>2, <2>3, OnlyTheNewest
<1> QED BY <1>1, <1>2, <1>3 DEF ReservedAtMostOnce, NeverPaidTwice, PayoutInFlightIsHeld

\* No debit is given back twice: of the callbacks, the sweep, the refresh button
\* and the payout's own answer, a timeout or an unreadable body included, only one
\* closes a transaction row.
THEOREM DebitsGivenBackOnce ==
  ASSUME Conditions
  PROVE  Spec => []ReversedAtMostOnce
<1>1. IInv /\ MoneyInv => ReversedAtMostOnce
  BY MoneyIsSafe
<1> QED BY <1>1, MoneyInvariant, PTL

\* However many administrators approve and operators retry, and whatever Selcom
\* answers, never two debits of one withdrawal stand at a time.
THEOREM DebitedOnce ==
  ASSUME Conditions
  PROVE  Spec => []ReservedAtMostOnce
<1>1. IInv /\ MoneyInv => ReservedAtMostOnce
  BY MoneyIsSafe
<1> QED BY <1>1, MoneyInvariant, PTL

\* However often a withdrawal is retried, Selcom never makes two payments of it
\* that both stand; and where nobody retries, not even after a payout that timed
\* out or whose answer was not understood.
THEOREM RetriesPayOnce ==
  ASSUME Conditions, Understood \/ NoRetry
  PROVE  Spec => []NeverPaidTwice
<1>1. IInv /\ MoneyInv => NeverPaidTwice
  BY MoneyIsSafe
<1> QED BY <1>1, MoneyInvariant, PTL

\* While a payout is with Selcom its own transaction holds the debit: no refresh,
\* callback or retry gave it back meanwhile.
THEOREM PayoutsAreHeld ==
  ASSUME Conditions
  PROVE  Spec => []PayoutInFlightIsHeld
<1>1. IInv /\ MoneyInv => PayoutInFlightIsHeld
  BY MoneyIsSafe
<1> QED BY <1>1, MoneyInvariant, PTL
-----------------------------------------------------------------------------
(***************************************************************************)
(* The lifecycle implements Custody: where the money is, by the rows and   *)
(* the attempts.                                                           *)
(***************************************************************************)
OutstandingIn(T) == {i \in DOMAIN T : T[i].debits > T[i].credits}
PaidIn(P) == {n \in DOMAIN P : P[n] = "paid"}
PlaceOf(O, D) ==
  CASE O = {} /\ D = {}                           -> "wallet"
    [] Cardinality(O) = 1 /\ D = {}               -> "held"
    [] Cardinality(O) = 1 /\ Cardinality(D) = 1   -> "recipient"
    [] OTHER                                      -> "lost"
PlaceIn(T, P) == PlaceOf(OutstandingIn(T), PaidIn(P))

LEMMA Placed ==
  ASSUME NEW w \in Withdrawals
  PROVE  /\ Whereabouts(w) = PlaceIn(txns[w], payout[w])
         /\ Whereabouts(w)' = PlaceIn(txns'[w], payout'[w])
BY DEF Whereabouts, Outstanding, Paid, PlaceIn, PlaceOf, OutstandingIn, PaidIn

LEMMA PlaceOfFew ==
  ASSUME NEW x, NEW y
  PROVE  /\ PlaceOf({}, {}) = "wallet"
         /\ PlaceOf({x}, {}) = "held"
         /\ PlaceOf({x}, {y}) = "recipient"
<1> DEFINE O == {x}  D == {y}
<1>1. Cardinality(O) = 1 /\ Cardinality(D) = 1 /\ O # {} /\ D # {}
      /\ Cardinality({}) = 0
  BY FS_Singleton, FS_EmptySet
<1> HIDE DEF O, D
<1>2. PlaceOf({}, {}) = "wallet"
  BY <1>1 DEF PlaceOf
<1>3. PlaceOf(O, {}) = "held"
  BY <1>1 DEF PlaceOf
<1>4. PlaceOf(O, D) = "recipient"
  BY <1>1 DEF PlaceOf
<1> QED BY <1>2, <1>3, <1>4 DEF O, D

\* Rows whose credits balance their debits hold nothing.
Balanced(T) == \A i \in 1..Len(T) : T[i].debits = T[i].credits

LEMMA RestsBalanced ==
  ASSUME NEW T \in Seq(Txn), NEW P \in Seq(Payout),
         Dead(T, P) \/ Opened(T, P) \/ Unwound(T, P), Understood
  PROVE  Balanced(T) /\ PaidIn(P) = {} /\ PlaceIn(T, P) = "wallet"
<1>1. Balanced(T)
  BY DEF Balanced, Dead, Opened, Unwound, Newest, DeadRow
<1>2. PaidIn(P) = {}
  BY DEF PaidIn, Dead, Opened, Unwound, AllGone, Gone
<1>3. OutstandingIn(T) = {}
  <2>1. \A i \in 1..Len(T) : T[i] \in Txn
    OBVIOUS
  <2>2. \A i \in 1..Len(T) : ~ (T[i].debits > T[i].credits)
    BY <1>1, <2>1 DEF Balanced, Txn
  <2> QED BY <2>2 DEF OutstandingIn
<1> QED BY <1>1, <1>2, <1>3, PlaceOfFew DEF PlaceIn

LEMMA FlyingPlaced ==
  ASSUME NEW T \in Seq(Txn), NEW P \in Seq(Payout), Flying(T, P), Understood
  PROVE  /\ PlaceIn(T, P) = "recipient" <=> P # <<>> /\ P[Len(P)] = "paid"
         /\ PlaceIn(T, P) = "held" <=> P = <<>> \/ P[Len(P)] # "paid"
<1>1. Len(T) \in 1..Len(T) /\ T[Len(T)].debits = 1 /\ T[Len(T)].credits = 0
  BY DEF Flying, Newest
<1>2. OutstandingIn(T) = {Len(T)}
  BY <1>1 DEF OutstandingIn, Flying, Newest, DeadRow
<1>3. CASE P # <<>> /\ P[Len(P)] = "paid"
  <2>1. Len(P) \in 1..Len(P) /\ PaidIn(P) = {Len(P)}
    BY <1>3 DEF PaidIn, Flying, OldGone, Gone
  <2>2. PlaceIn(T, P) = PlaceOf({Len(T)}, {Len(P)})
    BY <1>2, <2>1, Zenon DEF PlaceIn
  <2>3. PlaceIn(T, P) = "recipient"
    BY <2>2, PlaceOfFew, Zenon
  <2> QED BY <1>3, <2>3
<1>4. CASE P = <<>> \/ P[Len(P)] # "paid"
  <2>1. PaidIn(P) = {}
    BY <1>4 DEF PaidIn, Flying, OldGone, Gone
  <2>2. PlaceIn(T, P) = "held"
    BY <1>2, <2>1, PlaceOfFew DEF PlaceIn
  <2> QED BY <1>4, <2>2
<1> QED BY <1>3, <1>4

LEMMA HeldPlaced ==
  ASSUME NEW T \in Seq(Txn), NEW P \in Seq(Payout), Held(T, P), Understood
  PROVE  PlaceIn(T, P) = "held"
<1>1. P = <<>> \/ P[Len(P)] # "paid"
  BY DEF Held, AllGone, Gone
<1> QED BY <1>1, HeldFlies, FlyingPlaced

\* Writes that move no money: a row's status, a row opened, an attempt sent.
LEMMA StatusSamePlace ==
  ASSUME NEW T \in Seq(Txn), NEW U, NEW P, NEW i \in 1..Len(T), NEW s,
         U = [T EXCEPT ![i].status = s]
  PROVE  PlaceIn(U, P) = PlaceIn(T, P)
<1>1. DOMAIN U = DOMAIN T /\ \A j \in DOMAIN T : T[j] \in Txn
  OBVIOUS
<1>2. \A j \in DOMAIN T : U[j].debits = T[j].debits /\ U[j].credits = T[j].credits
  BY <1>1 DEF Txn
<1>3. OutstandingIn(U) = OutstandingIn(T)
  BY <1>1, <1>2 DEF OutstandingIn
<1> QED BY <1>3 DEF PlaceIn

LEMMA SamePlace ==
  ASSUME NEW T \in Seq(Txn), NEW P \in Seq(Payout)
  PROVE  /\ PlaceIn(Append(T, Fresh), P) = PlaceIn(T, P)
         /\ PlaceIn(T, Append(P, "sent")) = PlaceIn(T, P)
<1>1. PlaceIn(Append(T, Fresh), P) = PlaceIn(T, P)
  <2> DEFINE U == Append(T, Fresh)
  <2>1. /\ Len(T) \in Nat /\ DOMAIN T = 1..Len(T) /\ DOMAIN U = 1..(Len(T) + 1)
        /\ U[Len(T) + 1] = Fresh /\ \A j \in 1..Len(T) : U[j] = T[j]
    BY DEF Fresh, Txn
  <2> HIDE DEF U
  <2>2. OutstandingIn(U) = OutstandingIn(T)
    BY <2>1 DEF OutstandingIn, Fresh
  <2> QED BY <2>2 DEF PlaceIn, U
<1>2. PlaceIn(T, Append(P, "sent")) = PlaceIn(T, P)
  <2> DEFINE Q == Append(P, "sent")
  <2>1. /\ Len(P) \in Nat /\ DOMAIN P = 1..Len(P) /\ DOMAIN Q = 1..(Len(P) + 1)
        /\ Q[Len(P) + 1] = "sent" /\ \A j \in 1..Len(P) : Q[j] = P[j]
    BY DEF Payout
  <2> HIDE DEF Q
  <2>2. PaidIn(Q) = PaidIn(P)
    BY <2>1 DEF PaidIn
  <2> QED BY <2>2 DEF PlaceIn, Q
<1> QED BY <1>1, <1>2

LEMMA TxnCredited ==
  ASSUME NEW x \in Txn
  PROVE  [x EXCEPT !.credits = @ + 1] \in Txn
BY DEF Txn

\* A credit that balances the rows was given against the only one that held.
LEMMA CreditedPlace ==
  ASSUME Understood, NEW T \in Seq(Txn), NEW P \in Seq(Payout), NEW i \in 1..Len(T),
         Unwound([T EXCEPT ![i].credits = @ + 1], P)
  PROVE  PlaceIn(T, P) = "held" /\ PlaceIn([T EXCEPT ![i].credits = @ + 1], P) = "wallet"
<1> DEFINE t == [T[i] EXCEPT !.credits = @ + 1]
           U == [T EXCEPT ![i] = t]
<1>1. DOMAIN T = 1..Len(T) /\ \A j \in 1..Len(T) : T[j] \in Txn
  OBVIOUS
<1>2. /\ t \in Txn /\ t.debits = T[i].debits /\ t.credits = T[i].credits + 1
      /\ T[i].credits \in Nat
  <2>1. T[i] \in Txn
    BY <1>1
  <2>2. T[i].credits \in Nat /\ t.debits = T[i].debits /\ t.credits = T[i].credits + 1
    BY <2>1 DEF Txn
  <2>3. t \in Txn
    BY <2>1, TxnCredited, Zenon
  <2> QED BY <2>2, <2>3
<1>3. /\ U \in Seq(Txn) /\ Len(U) = Len(T) /\ U[i] = t
      /\ \A j \in 1..Len(T) : j # i => U[j] = T[j]
  BY <1>1, <1>2
<1> HIDE DEF t
<1>4. Unwound(U, P)
  BY DEF t
<1> HIDE DEF U
<1>5. Balanced(U) /\ PaidIn(P) = {} /\ PlaceIn(U, P) = "wallet"
  BY <1>3, <1>4, RestsBalanced
<1>6. T[i].debits = T[i].credits + 1
  BY <1>2, <1>3, <1>5 DEF Balanced
<1>7. \A j \in 1..Len(T) : j # i => T[j].debits = T[j].credits /\ T[j].credits \in Nat
  <2>1. \A j \in 1..Len(T) : T[j].credits \in Nat
    BY <1>1 DEF Txn
  <2> QED BY <1>3, <1>5, <2>1 DEF Balanced
<1>8. OutstandingIn(T) = {i}
  BY <1>1, <1>2, <1>6, <1>7 DEF OutstandingIn
<1> QED BY <1>5, <1>8, PlaceOfFew DEF PlaceIn, U, t
-----------------------------------------------------------------------------
(***************************************************************************)
(* Every step is a step of Custody or leaves the money where it is.        *)
(***************************************************************************)
LEMMA Stutters ==
  ASSUME UNCHANGED wallet,
         \A v \in Withdrawals : PlaceIn(txns'[v], payout'[v]) = PlaceIn(txns[v], payout[v])
  PROVE  UNCHANGED C!vars
BY Placed DEF C!vars

\* The money of one withdrawal moves.
LEMMA OneMoves ==
  ASSUME NEW w \in Withdrawals,
         \A v \in Withdrawals \ {w} : txns'[v] = txns[v] /\ payout'[v] = payout[v]
  PROVE  C!Move(w, PlaceIn(txns[w], payout[w]), PlaceIn(txns'[w], payout'[w]))
<1>1. \A v \in Withdrawals \ {w} : Whereabouts(v)' = Whereabouts(v)
  BY Placed
<1>2. /\ Whereabouts(w) = PlaceIn(txns[w], payout[w])
      /\ Whereabouts(w)' = PlaceIn(txns'[w], payout'[w])
  BY Placed
<1> QED BY <1>1, <1>2 DEF C!Move

LEMMA SetTxnStutters ==
  ASSUME TypeOK, NEW w \in Withdrawals, NEW i \in 1..Len(txns[w]), NEW s,
         SetTxn(w, i, s), UNCHANGED <<wallet, payout>>
  PROVE  UNCHANGED C!vars
<1> DEFINE T == txns[w]  U == txns'[w]  P == payout[w]
<1>1. /\ T \in Seq(Txn) /\ U = [T EXCEPT ![i].status = s] /\ i \in 1..Len(T)
      /\ \A v \in Withdrawals \ {w} : txns'[v] = txns[v]
  BY DEF TypeOK, SetTxn
<1>2. PlaceIn(U, P) = PlaceIn(T, P)
  <2> HIDE DEF T, U, P
  <2> QED BY <1>1, StatusSamePlace
<1> QED BY <1>1, <1>2, Stutters

\* A handler that gave the debit back and goes on to close the row.
LEMMA CreditBackReleases ==
  ASSUME Understood, TypeOK, MoneyInv', NEW r \in Requests, NEW w \in Withdrawals,
         NEW i \in 1..Len(txns[w]), CreditBack(w, i), UNCHANGED payout,
         req'[r].at = "unwind", req'[r].w = w
  PROVE  C!Next
<1>1. /\ txns[w] \in Seq(Txn) /\ payout[w] \in Seq(Payout)
      /\ txns'[w] = [txns[w] EXCEPT ![i].credits = @ + 1]
      /\ \A v \in Withdrawals \ {w} : txns'[v] = txns[v]
      /\ wallet' = wallet + Price[w]
  BY DEF TypeOK, CreditBack
<1>2. Unwound(txns'[w], payout[w])
  BY DEF MoneyInv, WorkOK, Fits
<1>3. PlaceIn(txns[w], payout[w]) = "held" /\ PlaceIn(txns'[w], payout'[w]) = "wallet"
  <2>1. Unwound([txns[w] EXCEPT ![i].credits = @ + 1], payout[w])
    BY <1>1, <1>2
  <2>2. /\ PlaceIn(txns[w], payout[w]) = "held"
        /\ PlaceIn([txns[w] EXCEPT ![i].credits = @ + 1], payout[w]) = "wallet"
    BY <1>1, <2>1, CreditedPlace
  <2> QED BY <1>1, <2>2
<1>4. C!Release(w)
  BY <1>1, <1>3, OneMoves DEF C!Release
<1> QED BY <1>4 DEF C!Next

LEMMA ResolveMoves ==
  ASSUME Understood, TypeOK, MoneyInv', NEW r \in Requests, NEW q \in Request, NEW answer,
         q.w \in Withdrawals, Resolve(r, q, answer), UNCHANGED payout
  PROVE  [C!Next]_(C!vars)
<1> DEFINE w == q.w  i == LiveTxn(w)
<1>1. CASE i = 0
  <2>1. UNCHANGED <<txns, wallet>>
    BY <1>1 DEF Resolve
  <2> QED BY <2>1, Stutters
<1>2. CASE i # 0
  <2>1. i \in 1..Len(txns[w])
    BY <1>2, LiveTxnExists
  <2>2. CASE SetTxn(w, i, "successful") /\ UNCHANGED wallet
    BY <2>1, <2>2, SetTxnStutters
  <2>3. CASE CreditBack(w, i) /\ Keep(r, [q EXCEPT !.at = "unwind", !.txn = i])
    <3>1. req'[r].at = "unwind" /\ req'[r].w = w
      <4>1. req'[r] = [q EXCEPT !.at = "unwind", !.txn = i]
        BY <2>3 DEF Keep, Step, TypeOK
      <4> QED BY <4>1 DEF Request
    <3> QED BY <2>1, <2>3, <3>1, CreditBackReleases
  <2> QED BY <1>2, <2>2, <2>3 DEF Resolve
<1> QED BY <1>1, <1>2

LEMMA OpenTxnStutters ==
  ASSUME IInv, NEW r \in Requests, OpenTxn(r)
  PROVE  UNCHANGED C!vars
<1> DEFINE w == req[r].w
<1>1. w \in Withdrawals /\ TypeOK
  BY AtFacts DEF OpenTxn, GoesOn, IInv
<1>2. /\ txns[w] \in Seq(Txn) /\ payout[w] \in Seq(Payout)
      /\ txns'[w] = Append(txns[w], Fresh) /\ UNCHANGED <<payout, wallet>>
      /\ \A v \in Withdrawals \ {w} : txns'[v] = txns[v]
  BY <1>1 DEF TypeOK, OpenTxn, env, Fresh
<1>3. PlaceIn(Append(txns[w], Fresh), payout[w]) = PlaceIn(txns[w], payout[w])
  BY <1>2, SamePlace
<1> QED BY <1>2, <1>3, Stutters

LEMMA SendPayoutStutters ==
  ASSUME IInv, NEW r \in Requests, SendPayout(r)
  PROVE  UNCHANGED C!vars
<1> DEFINE w == req[r].w
<1>1. w \in Withdrawals /\ TypeOK
  BY AtFacts DEF SendPayout, GoesOn, IInv
<1>2. /\ txns[w] \in Seq(Txn) /\ payout[w] \in Seq(Payout)
      /\ payout'[w] = Append(payout[w], "sent") /\ UNCHANGED <<txns, wallet>>
      /\ \A v \in Withdrawals \ {w} : payout'[v] = payout[v]
  BY <1>1 DEF TypeOK, SendPayout, rows
<1>3. PlaceIn(txns[w], Append(payout[w], "sent")) = PlaceIn(txns[w], payout[w])
  BY <1>2, SamePlace
<1> QED BY <1>2, <1>3, Stutters

LEMMA ReservationMoves ==
  ASSUME Understood, IInv, MoneyInv, NEW r \in Requests, PostReservation(r)
  PROVE  C!Next
<1> DEFINE w == req[r].w  T == txns[w]  P == payout[w]
<1>1. req[r].at = "post" /\ Active(req[r])
  BY DEF PostReservation, GoesOn, Active, Threads
<1>2. /\ w \in Withdrawals /\ Fits(req[r], status[w], ref[w], T, P) /\ TypeOK
      /\ T \in Seq(Txn) /\ P \in Seq(Payout)
  BY <1>1, AtWork
<1>3. Opened(T, P) /\ req[r].txn = Len(T)
  BY <1>1, <1>2 DEF Fits
<1>4. /\ Price[w] <= wallet /\ wallet' = wallet - Price[w] /\ payout' = payout
      /\ txns'[w] = [T EXCEPT ![Len(T)].debits = @ + 1]
      /\ \A v \in Withdrawals \ {w} : txns'[v] = txns[v]
  BY <1>2, <1>3 DEF PostReservation, TypeOK, env
<1>5. Held(txns'[w], P)
  <2>1. Held([T EXCEPT ![Len(T)].debits = @ + 1], P)
    BY <1>2, <1>3, OpenedPosts
  <2> QED BY <1>4, <2>1
<1>6. txns'[w] \in Seq(Txn)
  <2>1. T # <<>>
    BY <1>3 DEF Opened, Newest
  <2>2. Len(T) \in 1..Len(T) /\ T[Len(T)] \in Txn
    BY <1>2, <2>1
  <2>3. [T[Len(T)] EXCEPT !.debits = @ + 1] \in Txn
    BY <2>2 DEF Txn
  <2> QED BY <1>2, <1>4, <2>2, <2>3
<1>7. PlaceIn(T, P) = "wallet" /\ PlaceIn(txns'[w], payout'[w]) = "held"
  <2>1. PlaceIn(T, P) = "wallet"
    BY <1>2, <1>3, RestsBalanced
  <2>2. PlaceIn(txns'[w], P) = "held"
    BY <1>2, <1>5, <1>6, HeldPlaced
  <2> QED BY <1>4, <2>1, <2>2
<1>8. C!Reserve(w)
  BY <1>2, <1>4, <1>7, OneMoves DEF C!Reserve
<1> QED BY <1>2, <1>8 DEF C!Next

LEMMA PayAnswerMoves ==
  ASSUME Understood, IInv, MoneyInv, MoneyInv', NEW r \in Requests, NEW a, PayAnswer(r, a)
  PROVE  [C!Next]_(C!vars)
<1> DEFINE w == req[r].w  i == req[r].txn
<1>1. req[r].at = "paying" /\ UNCHANGED payout
  BY DEF PayAnswer, Resumes, env
<1>2. w \in Withdrawals /\ TypeOK /\ req[r] \in Request /\ i \in 1..Len(txns[w])
  BY <1>1, AtFacts DEF IInv, HoldsTxn
<1>3. CASE UNCHANGED <<txns, wallet>>
  BY <1>1, <1>3, Stutters
<1>4. CASE SetTxn(w, i, "successful") /\ UNCHANGED wallet
  BY <1>1, <1>2, <1>4, SetTxnStutters
<1>5. ASSUME CreditBack(w, i), NEW n, Keep(r, [req[r] EXCEPT !.at = "unwind", !.ref = n])
      PROVE  C!Next
  <2>1. req'[r].at = "unwind" /\ req'[r].w = w
    <3>1. req'[r] = [req[r] EXCEPT !.at = "unwind", !.ref = n]
      BY <1>2, <1>5 DEF Keep, Step, TypeOK
    <3> QED BY <1>2, <3>1 DEF Request
  <2> QED BY <1>1, <1>2, <1>5, <2>1, CreditBackReleases
<1> QED BY <1>3, <1>4, <1>5 DEF PayAnswer

\* Selcom pays an attempt, declines it, or sees the payment come back.
LEMMA SelcomMoves ==
  ASSUME Understood, IInv, MoneyInv, NEW w \in Withdrawals, NEW k \in DOMAIN payout[w],
         Decide(w, k, "paid") \/ Decide(w, k, "declined") \/ ComesBack(w, k)
  PROVE  C!Next \/ UNCHANGED C!vars
<1> DEFINE T == txns[w]  P == payout[w]
<1>1. /\ T \in Seq(Txn) /\ P \in Seq(Payout) /\ TypeOK /\ k \in 1..Len(P)
      /\ UNCHANGED <<txns, wallet>> /\ P[k] \notin Gone
  BY DEF IInv, TypeOK, Decide, ComesBack, rows, Gone
<1>2. PICK outcome \in Payout :
        /\ payout' = [payout EXCEPT ![w][k] = outcome]
        /\ \/ P[k] = "sent" /\ outcome = "paid"
           \/ P[k] = "sent" /\ outcome = "declined"
           \/ P[k] = "paid" /\ outcome = "bounced"
  BY DEF Decide, ComesBack, Payout
<1> DEFINE Q == [P EXCEPT ![k] = outcome]
<1>3. /\ payout'[w] = Q /\ \A v \in Withdrawals \ {w} : payout'[v] = payout[v]
      /\ Q \in Seq(Payout) /\ Q # <<>> /\ P # <<>> /\ Q[k] = outcome /\ Len(Q) = Len(P)
  BY <1>1, <1>2 DEF TypeOK
<1>4. Flying(T, P) /\ k = Len(P) /\ Flying(T, Q)
  <2>1. /\ Understood => ~ Dead(T, P) /\ ~ Opened(T, P) /\ ~ Unwound(T, P)
        /\ Understood /\ Flying(T, P) => k = Len(P)
        /\ Flying(T, P) => Flying(T, Q)
    BY <1>1, PayoutChanges, Zenon
  <2> QED BY <2>1, Phases
<1> HIDE DEF Q
<1>5. /\ PlaceIn(T, P) = IF P[k] = "paid" THEN "recipient" ELSE "held"
      /\ PlaceIn(T, Q) = IF outcome = "paid" THEN "recipient" ELSE "held"
  BY <1>1, <1>3, <1>4, FlyingPlaced
<1>6. C!Move(w, PlaceIn(T, P), PlaceIn(T, Q))
  BY <1>1, <1>3, OneMoves
<1>7. CASE P[k] = "sent" /\ outcome = "paid"
  <2>1. C!Pay(w)
    BY <1>1, <1>5, <1>6, <1>7 DEF C!Pay
  <2> QED BY <2>1 DEF C!Next
<1>8. CASE P[k] = "paid" /\ outcome = "bounced"
  <2>1. C!Return(w)
    BY <1>1, <1>5, <1>6, <1>8 DEF C!Return
  <2> QED BY <2>1 DEF C!Next
<1>9. CASE P[k] = "sent" /\ outcome = "declined"
  BY <1>1, <1>3, <1>5, <1>9, Stutters
<1> QED BY <1>2, <1>7, <1>8, <1>9

LEMMA NextMoves ==
  ASSUME Understood, IInv, IInv', MoneyInv, MoneyInv', [Next]_vars
  PROVE  [C!Next]_(C!vars)
<1>1. CASE UNCHANGED <<txns, payout, wallet>>
  BY <1>1, Stutters
<1>2. ASSUME NEW r \in Requests, LocalStep(r) PROVE [C!Next]_(C!vars)
  <2>1. CASE \E outcome \in {"rejected", "manual", "auto"} : Finalize(r, outcome)
    BY <1>1, <2>1 DEF Finalize
  <2>2. CASE OpenTxn(r)
    BY <2>2, OpenTxnStutters
  <2>3. CASE PostReservation(r)
    BY <2>3, ReservationMoves
  <2>4. CASE RefuseDebit(r)
    <3>1. /\ req[r].w \in Withdrawals /\ req[r].txn \in 1..Len(txns[req[r].w]) /\ TypeOK
      BY <2>4, AtFacts DEF RefuseDebit, GoesOn, HoldsTxn, IInv
    <3> QED BY <2>4, <3>1, SetTxnStutters DEF RefuseDebit, env
  <2>5. CASE CloseTxn(r)
    <3>1. /\ req[r].w \in Withdrawals /\ req[r].txn \in 1..Len(txns[req[r].w]) /\ TypeOK
      BY <2>5, AtFacts DEF CloseTxn, GoesOn, HoldsTxn, IInv
    <3> QED BY <2>5, <3>1, SetTxnStutters DEF CloseTxn, env
  <2>6. CASE SendPayout(r)
    BY <2>6, SendPayoutStutters
  <2>7. CASE MarkProcessing(r) \/ RefuseReservation(r) \/ BadRecipient(r) \/ Settle(r)
             \/ Fail(r) \/ Reverse(r) \/ Reject(r) \/ RequestInfo(r)
    BY <1>1, <2>7 DEF MarkProcessing, RefuseReservation, BadRecipient, Settle, Fail, Reverse,
                      Reject, RequestInfo, ThreadWrite, env
  <2> QED BY <1>2, <2>1, <2>2, <2>3, <2>4, <2>5, <2>6, <2>7 DEF LocalStep
<1>3. ASSUME NEW r \in Requests, AnswerStep(r) PROVE [C!Next]_(C!vars)
  <2>1. ASSUME NEW a, PayAnswer(r, a) PROVE [C!Next]_(C!vars)
    BY <2>1, PayAnswerMoves
  <2>2. ASSUME NEW a, RetryAnswer(r, a) PROVE [C!Next]_(C!vars)
    BY <1>1, <2>2 DEF RetryAnswer, rows, env
  <2>3. ASSUME NEW a, RefreshAnswer(r, a) PROVE [C!Next]_(C!vars)
    <3>1. CASE UNCHANGED <<txns, wallet>>
      BY <1>1, <2>3, <3>1 DEF RefreshAnswer, env
    <3>2. CASE Resolve(r, req[r], Parsed(a))
      <4>1. req[r] \in Request /\ req[r].w \in Withdrawals /\ TypeOK /\ UNCHANGED payout
        BY <2>3, AtFacts DEF RefreshAnswer, Resumes, env, IInv
      <4> QED BY <3>2, <4>1, ResolveMoves
    <3> QED BY <2>3, <3>1, <3>2 DEF RefreshAnswer
  <2> QED BY <1>3, <2>1, <2>2, <2>3 DEF AnswerStep
<1>4. ASSUME NEW r \in Requests, NEW w \in Withdrawals, Arrival(r, w)
      PROVE  [C!Next]_(C!vars)
  <2>1. CASE Submit(r, w) \/ Approve(r, w) \/ Retry(r, w) \/ Refresh(r, w)
    BY <1>1, <2>1 DEF Submit, Approve, Retry, Refresh, rows, env
  <2>2. ASSUME NEW n, Callback(r, w, n) PROVE [C!Next]_(C!vars)
    <3> DEFINE q == [Work("callback", w, "querying") EXCEPT !.ref = n]
               answer == IF payout[w][n] = "declined" THEN "failed" ELSE "successful"
    <3>1. Resolve(r, q, answer) /\ UNCHANGED payout /\ n \in Nat /\ TypeOK
      BY <2>2 DEF Callback, env, IInv, TypeOK
    <3>2. q \in Request /\ q.w = w
      BY <3>1, WorkFacts DEF OpNames, Places, Awaits, Request
    <3> HIDE DEF q, answer
    <3> QED BY <3>1, <3>2, ResolveMoves
  <2>3. CASE BounceCallback(r, w)
    <3> DEFINE q == Work("bounce", w, "querying")
    <3>1. Resolve(r, q, "failed") /\ UNCHANGED payout /\ TypeOK
      BY <2>3 DEF BounceCallback, env, IInv
    <3>2. q \in Request /\ q.w = w
      BY WorkFacts DEF OpNames, Places, Awaits
    <3> HIDE DEF q
    <3> QED BY <3>1, <3>2, ResolveMoves
  <2> QED BY <1>4, <2>1, <2>2, <2>3 DEF Arrival
<1>5. ASSUME NEW w \in Withdrawals, Selcom(w) PROVE [C!Next]_(C!vars)
  BY <1>5, SelcomMoves DEF Selcom
<1>6. CASE \/ UNCHANGED vars \/ StandingChanges
           \/ \E r \in Requests : Abort(r) \/ ReadToReject(r) \/ ReadToAsk(r)
  BY <1>1, <1>6 DEF vars, rows, env, StandingChanges, Abort, ReadToReject, ReadToAsk, ThreadRead
<1> QED BY <1>2, <1>3, <1>4, <1>5, <1>6 DEF Next

\* However the handlers, the retries, the ledger and Selcom interleave, the money
\* of every withdrawal is in exactly one place: the wallet, held for the payout,
\* or with the recipient, and the wallet changes by its price when it moves.
THEOREM LifecycleImplementsCustody ==
  ASSUME Conditions, Understood
  PROVE  Spec => ImplementsCustody
<1>1. Init => C!Init
  <2> SUFFICES ASSUME Init PROVE C!Init
    OBVIOUS
  <2>1. ASSUME NEW w \in Withdrawals PROVE Whereabouts(w) = "wallet"
    <3>1. txns[w] = <<>> /\ payout[w] = <<>>
      BY DEF Init
    <3>2. Dead(<<>>, <<>>)
      BY DEF Dead, AllGone
    <3>3. <<>> \in Seq(Txn) /\ <<>> \in Seq(Payout)
      OBVIOUS
    <3> QED BY <3>1, <3>2, <3>3, Placed, RestsBalanced
  <2> QED BY <2>1 DEF Init, C!Init
<1>2. (IInv /\ MoneyInv) /\ (IInv /\ MoneyInv)' /\ [Next]_vars => [C!Next]_(C!vars)
  BY NextMoves
<1> QED BY <1>1, <1>2, MoneyInvariant, PTL DEF Spec, ImplementsCustody, C!Spec
-----------------------------------------------------------------------------
(***************************************************************************)
(* What is settled stays settled.                                          *)
(***************************************************************************)
\* Nobody rejects or asks for more, and no query is answered ambiguously.
NobodyReviews == \A r \in Requests : {"reject", "info"} \cap Ops[r] = {}
QueriesDecide == "ambiguous" \notin QueryAnswers

StaysSettled(w) ==
  /\ status[w] = "SUCCESS" /\ status'[w] # "SUCCESS" => Paid(w) = {}
  /\ status[w] = "REVERSED" => status'[w] = "REVERSED"

\* A request that writes a status writes that of its own withdrawal.
LEMMA WritesItsOwn ==
  ASSUME NEW w \in Withdrawals, NEW v \in Withdrawals, NEW s, SetStatus(v, s),
         v = w => StaysSettled(w), TypeOK
  PROVE  StaysSettled(w)
BY DEF SetStatus, StaysSettled, TypeOK

LEMMA StartingStaysSettled ==
  ASSUME IInv, MoneyInv, NEW r \in Requests, NEW w \in Withdrawals,
         req[r].at \in {"finalize", "refuse", "mark", "pay", "paying"}, NEW s,
         SetStatus(req[r].w, s)
  PROVE  StaysSettled(w)
<1>1. Active(req[r])
  BY DEF Active, Threads
<1>2. /\ req[r].w \in Withdrawals /\ TypeOK
      /\ Fits(req[r], status[req[r].w], ref[req[r].w], txns[req[r].w], payout[req[r].w])
  BY <1>1, AtWork
<1>3. status[req[r].w] \notin {"SUCCESS", "REVERSED"}
  BY <1>2 DEF Fits, Reviewed, Retryable, NeedsReservation, AlreadyReserved
<1>4. req[r].w = w => StaysSettled(w)
  BY <1>3 DEF StaysSettled
<1> QED BY <1>2, <1>4, WritesItsOwn

LEMMA ClosingStaysSettled ==
  ASSUME Understood, IInv, MoneyInv, NEW r \in Requests, NEW w \in Withdrawals,
         Settle(r) \/ Fail(r) \/ Reverse(r)
  PROVE  StaysSettled(w)
<1>1. Active(req[r]) /\ req[r].at \in {"settle", "fail", "reverse"}
  BY DEF Settle, Fail, Reverse, GoesOn, Active, Threads
<1> DEFINE v == req[r].w
<1>2. /\ v \in Withdrawals /\ TypeOK /\ txns[v] \in Seq(Txn) /\ payout[v] \in Seq(Payout)
      /\ Fits(req[r], status[v], ref[v], txns[v], payout[v])
  BY <1>1, AtWork
<1>3. status[v] # "REVERSED"
  BY <1>1, <1>2 DEF Fits, Closing
<1>4. CASE Settle(r)
  BY <1>2, <1>3, <1>4 DEF Settle, SetStatus, StaysSettled, TypeOK
<1>5. CASE Fail(r) \/ Reverse(r)
  <2>1. Dead(txns[v], payout[v])
    BY <1>1, <1>2, <1>5 DEF Fits, Fail, Reverse, GoesOn
  <2>2. Paid(v) = {}
    BY <1>2, <2>1, RestsBalanced DEF Paid, PaidIn
  <2>3. v = w => StaysSettled(w)
    BY <1>3, <2>2 DEF StaysSettled
  <2> QED BY <1>2, <1>5, <2>3, WritesItsOwn DEF Fail, Reverse
<1> QED BY <1>4, <1>5

LEMMA NextStaysSettled ==
  ASSUME Understood, NobodyReviews, QueriesDecide, IInv, MoneyInv, [Next]_vars, NEW w \in Withdrawals
  PROVE  StaysSettled(w)
<1>1. CASE UNCHANGED status
  BY <1>1 DEF StaysSettled
<1>2. ASSUME NEW r \in Requests, LocalStep(r) PROVE StaysSettled(w)
  <2>1. CASE \E outcome \in {"rejected", "manual", "auto"} : Finalize(r, outcome)
    BY <1>1, <2>1, StartingStaysSettled DEF Finalize, GoesOn
  <2>2. CASE RefuseReservation(r) \/ MarkProcessing(r) \/ BadRecipient(r)
    BY <2>2, StartingStaysSettled DEF RefuseReservation, MarkProcessing, BadRecipient, GoesOn
  <2>3. CASE Settle(r) \/ Fail(r) \/ Reverse(r)
    BY <2>3, ClosingStaysSettled
  <2>4. ~ Reject(r) /\ ~ RequestInfo(r)
    <3>1. req[r].at \notin Threads
      BY DEF NobodyReviews, MoneyInv, WorkOK, Routed, Threads
    <3> QED BY <3>1 DEF Reject, RequestInfo, ThreadWrite, Threads
  <2>5. CASE \/ OpenTxn(r) \/ PostReservation(r) \/ RefuseDebit(r) \/ SendPayout(r)
             \/ CloseTxn(r)
    BY <1>1, <2>5 DEF OpenTxn, PostReservation, RefuseDebit, SendPayout, CloseTxn, rows
  <2> QED BY <1>2, <2>1, <2>2, <2>3, <2>4, <2>5 DEF LocalStep
<1>3. ASSUME NEW r \in Requests, AnswerStep(r) PROVE StaysSettled(w)
  <2>1. ASSUME NEW a, PayAnswer(r, a) PROVE StaysSettled(w)
    <3>1. UNCHANGED status \/ \E s \in Statuses : SetStatus(req[r].w, s)
      BY <2>1 DEF PayAnswer, Statuses
    <3>2. req[r].at = "paying"
      BY <2>1 DEF PayAnswer, Resumes
    <3> QED BY <1>1, <3>1, <3>2, StartingStaysSettled
  <2>2. ASSUME NEW a, RefreshAnswer(r, a) PROVE UNCHANGED status
    BY <2>2 DEF QueriesDecide, RefreshAnswer, Answered, Parsed
  <2> QED BY <1>1, <1>3, <2>1, <2>2 DEF AnswerStep, RetryAnswer, rows
<1>4. ASSUME NEW r \in Requests, NEW v \in Withdrawals, Arrival(r, v) PROVE StaysSettled(w)
  <2>1. CASE Submit(r, v)
    <3>1. v = w => StaysSettled(w)
      BY <2>1 DEF Submit, StaysSettled
    <3> QED BY <2>1, <3>1, WritesItsOwn DEF Submit, IInv
  <2> QED BY <1>1, <1>4, <2>1
          DEF Arrival, Approve, Retry, Refresh, Callback, BounceCallback, rows
<1>5. CASE \/ UNCHANGED vars \/ StandingChanges \/ \E v \in Withdrawals : Selcom(v)
           \/ \E r \in Requests : Abort(r) \/ ReadToReject(r) \/ ReadToAsk(r)
  BY <1>1, <1>5 DEF vars, rows, StandingChanges, Abort, ReadToReject, ReadToAsk, ThreadRead,
                    Selcom, Decide, ComesBack
<1> QED BY <1>2, <1>3, <1>4, <1>5 DEF Next

\* A success is withdrawn only when no payment stands, and a reversal is final,
\* whatever the order in which the payout's answer, the sweep, the button and the
\* callbacks close the withdrawal.
THEOREM SettledStays ==
  ASSUME Conditions, Understood, NobodyReviews, QueriesDecide
  PROVE  Spec => SettledStaysSettled
<1>1. IInv /\ MoneyInv /\ [Next]_vars => \A w \in Withdrawals : StaysSettled(w)
  BY NextStaysSettled
<1>2. IInv /\ MoneyInv /\ [Next]_vars =>
        [\A w \in Withdrawals :
           /\ status[w] = "SUCCESS" /\ status'[w] # "SUCCESS" => Paid(w) = {}
           /\ status[w] = "REVERSED" => status'[w] = "REVERSED"]_vars
  BY <1>1 DEF StaysSettled
<1> QED BY <1>2, MoneyInvariant, PTL DEF Spec, SettledStaysSettled
=============================================================================
