------------------------- MODULE Collections_proofs -------------------------
(***************************************************************************)
(* The books of every collection, for every number of collections,         *)
(* requests, orders and answers.                                           *)
(*                                                                         *)
(* TInv, without conditions: the answer a handler acts on was true of the  *)
(* order when Selcom gave it, and what Selcom records only grows, so       *)
(* nothing is credited that was not paid.  Books: a handler between two    *)
(* writes finds its collection as its place says (Fits), a collection      *)
(* nobody is writing about is as its status says (Rests), and on the event *)
(* loop one handler at a time is between two writes.  Counted: collections *)
(* and pushes under way stay within the bound, so the refinement speaks of *)
(* them all.                                                               *)
(*                                                                         *)
(* Books holds under Conditions, which the code does not enforce by        *)
(* itself; each is needed:                                                 *)
(*   OneProcess    two replicas both find the collection processing        *)
(*   DiesWaiting   a stop after the status leaves a successful collection  *)
(*                 that is never credited                                  *)
(*   OneReviewer   two clearances in two threads credit a held collection  *)
(*                 twice                                                   *)
(*   OneRecoverer, RecoveredApart                                          *)
(*                 the recovery writes `processing` over a collection that *)
(*                 another recovery, or a late callback, has credited by   *)
(*                 then, and it is credited again                          *)
(***************************************************************************)
EXTENDS Collections, TLAPS, FiniteSetTheorems
-----------------------------------------------------------------------------
(***************************************************************************)
(* What Selcom's record T of the orders says of order o, 0 for none; it    *)
(* only ever comes to say more.                                            *)
(***************************************************************************)
WasPaid(T, o) == o = 0 \/ T[o] \in {"paid", "returned"}
Refused(T, o) == o # 0 /\ T[o] \in {"cancelled", "returned"}

\* A collection, by its row x: only a held one has no order.
RowOK(x, T) ==
  /\ x.order \in 0..Len(T)
  /\ x.status = "pending_review" => x.order = 0
  /\ x.order = 0 => x.status \in {"pending_review", "successful"} /\ ~ x.expired
  /\ x.credits > 0 => WasPaid(T, x.order)

Pushing == {"ordering", "pushing"}
Crediting == {"mark", "marktxn", "credit", "link"}
Reversing == {"debit", "closetxn", "reverse"}

\* A request, with the collections C and Selcom's record T: what it is about
\* exists, and the answer it acts on was true of the order.
RequestOK(q, C, T) ==
  /\ q.at = "idle" => q = NoWork
  /\ q.at \in Pushing => q.op \in {"push", "linkpush"} /\ q.ans = "none" /\ q.c = 0
  /\ q.at = "pushing" => q.order \in 1..Len(T)
  /\ q.at \notin {"idle"} \cup Pushing =>
       /\ q.c \in 1..Len(C) /\ q.order = C[q.c].order
       /\ q.op = "review" <=> q.order = 0
       /\ q.op = "review" => q.at \in Crediting /\ q.ans = "successful"
  /\ q.ans = "successful" => WasPaid(T, q.order)
  /\ q.ans = "failed" => Refused(T, q.order)
  /\ q.at \in {"mark", "marktxn"} => q.ans \in {"successful", "failed", "expired"}
  /\ q.at = "credit" => q.ans = "successful"
  /\ q.at \in Reversing => q.ans = "failed"
  /\ q.at = "rechecked" /\ q.ans = "successful" => q.order \in KnownIds

TInv ==
  /\ TypeOK /\ Len(truth) = Len(order)
  /\ \A c \in 1..Len(coll) : RowOK(coll[c], truth)
  /\ \A r \in Requests :
       /\ RequestOK(req[r], coll, truth)
       /\ req[r].at # "idle" => req[r].op \in Ops[r]
-----------------------------------------------------------------------------
(***************************************************************************)
(* The conditions.                                                         *)
(***************************************************************************)
\* One API process, which dies only where it awaits Selcom.
OneProcess  == \A r, s \in Requests : ReplicaOf[r] = ReplicaOf[s]
DiesWaiting == CrashPoints \subseteq Awaits

\* One review at a time, one recovery task, and no order is recovered both by the
\* task and by a callback.
OneReviewer  == \A r, s \in Requests : "review" \in Ops[r] /\ "review" \in Ops[s] => r = s
OneRecoverer == \A r, s \in Requests : "recheck" \in Ops[r] /\ "recheck" \in Ops[s] => r = s
RecoveredApart == KnownIds \cap CalledBack = {}

Conditions == OneProcess /\ DiesWaiting /\ OneReviewer /\ OneRecoverer /\ RecoveredApart
-----------------------------------------------------------------------------
(***************************************************************************)
(* The books of a collection x.                                            *)
(***************************************************************************)
Unposted(x) == x.credits = 0 /\ x.debits = 0
Posted(x)   == x.credits = 1 /\ x.debits = 0 /\ x.txn = "successful"
Undone(x)   == x.credits = 1 /\ \/ x.debits = 1 /\ x.txn = "reversed"
                                \/ x.debits = 0 /\ x.txn = "successful"
Reopenable(x) == x.status = "failed" /\ x.expired /\ x.txn = "failed" /\ Unposted(x)

\* Nobody is between two writes about it.
Rests(x) ==
  /\ x.status = "processing" => Unposted(x) /\ x.txn \in {"processing", "failed"}
  /\ x.status = "failed" => Unposted(x) /\ (x.expired => x.txn = "failed")
  /\ x.status = "pending_review" => Unposted(x) /\ x.txn = "processing"
  /\ x.status = "successful" => Posted(x)
  /\ x.status = "reversed" => Undone(x)

\* Request q is at work on it, or waits to reopen it.
Fits(q, x) ==
  /\ q.at = "opentxn" => x.status = "processing" /\ Unposted(x)
  /\ q.at = "mark" => /\ x.status = IF q.op = "review" THEN "pending_review" ELSE "processing"
                      /\ Unposted(x) /\ x.txn \in {"processing", "failed"}
  /\ q.at = "marktxn" => /\ x.status = IF q.ans = "successful" THEN "successful" ELSE "failed"
                         /\ Unposted(x)
  /\ q.at = "credit" => x.status = "successful" /\ x.txn = "successful" /\ Unposted(x)
  /\ q.at \in {"link", "close", "debit"} => x.status = "successful" /\ Posted(x)
  /\ q.at = "closetxn" => x.status = "successful" /\ x.credits = 1 /\ x.debits = 1
  /\ q.at = "reverse" => x.status = "successful" /\ Undone(x)
  /\ q.at = "unlink" => x.status = "reversed" /\ Undone(x)
  /\ q.at = "reopen" => Reopenable(x) /\ q.order \in CalledBack
  /\ q.at = "reopentxn" => x.status = "processing" /\ Unposted(x) /\ x.txn = "failed"
  /\ q.at \in {"rechecking", "rechecked"} =>
       q.op = "recheck" /\ (q.order \in KnownIds => Reopenable(x))

Handling(q) == q.at \notin Awaits \cup {"idle"}

Books ==
  /\ \A r \in Requests :
       /\ req[r].at \notin {"idle"} \cup Pushing => Fits(req[r], coll[req[r].c])
       /\ Handling(req[r]) /\ ~ InThread(r) => loop[ReplicaOf[r]] = r
  /\ \A c \in 1..Len(coll) :
       (\A r \in Requests : Handling(req[r]) => req[r].c # c) => Rests(coll[c])

\* The pushes under way will each make at most one collection.
Starting == {r \in Requests : req[r].at \in Pushing}
Counted ==
  /\ IsFiniteSet(Starting) /\ pushes <= MaxPushes
  /\ Len(coll) + Cardinality(Starting) <= Held + pushes
-----------------------------------------------------------------------------
(***************************************************************************)
(* Types and truth.                                                        *)
(***************************************************************************)
\* Selcom's record grows, and what it said of an order stays true.
Forward(T, U) ==
  /\ Len(T) <= Len(U)
  /\ \A o \in 1..Len(T) :
       /\ T[o] \in {"paid", "returned"} => U[o] \in {"paid", "returned"}
       /\ T[o] \in {"cancelled", "returned"} => U[o] \in {"cancelled", "returned"}

LEMMA StaysTrue ==
  ASSUME NEW T \in Seq(Truth), NEW U \in Seq(Truth), Forward(T, U), NEW o \in 0..Len(T)
  PROVE  /\ WasPaid(T, o) => WasPaid(U, o)
         /\ Refused(T, o) => Refused(U, o)
         /\ o \in 0..Len(U)
<1>1. Len(T) \in Nat /\ Len(U) \in Nat /\ (o # 0 => o \in 1..Len(T))
  OBVIOUS
<1> QED BY <1>1 DEF Forward, WasPaid, Refused

\* A request stays in order while the tables grow.
LEMMA RequestStaysOK ==
  ASSUME NEW q, NEW C \in Seq(Collection), NEW D \in Seq(Collection),
         NEW T \in Seq(Truth), NEW U \in Seq(Truth), RequestOK(q, C, T),
         Forward(T, U), Len(C) <= Len(D),
         \A c \in 1..Len(C) : D[c].order = C[c].order /\ C[c].order \in 0..Len(T)
  PROVE  RequestOK(q, D, U)
<1>1. Len(C) \in Nat /\ Len(D) \in Nat /\ Len(T) \in Nat /\ Len(U) \in Nat /\ Len(T) <= Len(U)
  BY DEF Forward
<1>2. CASE q.at \in {"idle"} \cup Pushing
  <2>1. q.ans = "none"
    BY <1>2 DEF RequestOK, NoWork
  <2> QED BY <1>1, <1>2, <2>1 DEF RequestOK, Pushing
<1>3. CASE q.at \notin {"idle"} \cup Pushing
  <2>1. q.c \in 1..Len(C) /\ q.order = C[q.c].order /\ q.order \in 0..Len(T)
    BY <1>3 DEF RequestOK
  <2>2. /\ WasPaid(T, q.order) => WasPaid(U, q.order)
        /\ Refused(T, q.order) => Refused(U, q.order)
    BY <2>1, StaysTrue
  <2>3. q.c \in 1..Len(D) /\ q.order = D[q.c].order
    BY <1>1, <2>1
  <2> QED BY <1>3, <2>1, <2>2, <2>3 DEF RequestOK, Pushing
<1> QED BY <1>2, <1>3

LEMMA RowStaysOK ==
  ASSUME NEW x, NEW T \in Seq(Truth), NEW U \in Seq(Truth), Forward(T, U), RowOK(x, T)
  PROVE  RowOK(x, U)
<1>1. x.order \in 0..Len(T)
  BY DEF RowOK
<1>2. x.order \in 0..Len(U) /\ (WasPaid(T, x.order) => WasPaid(U, x.order))
  BY <1>1, StaysTrue
<1> QED BY <1>2 DEF RowOK

\* A step of request r.
LEMMA TStep ==
  ASSUME TInv, TypeOK', Len(truth') = Len(order'), NEW r \in Requests,
         \A u \in Requests \ {r} : req'[u] = req[u],
         Len(coll) <= Len(coll'), \A c \in 1..Len(coll) : coll'[c].order = coll[c].order,
         Forward(truth, truth'), \A c \in 1..Len(coll') : RowOK(coll'[c], truth'),
         RequestOK(req'[r], coll', truth'), req'[r].at # "idle" => req'[r].op \in Ops[r]
  PROVE  TInv'
<1>1. /\ coll \in Seq(Collection) /\ coll' \in Seq(Collection)
      /\ truth \in Seq(Truth) /\ truth' \in Seq(Truth)
      /\ \A c \in 1..Len(coll) : coll[c].order \in 0..Len(truth)
  BY DEF TInv, TypeOK, RowOK
<1>2. ASSUME NEW u \in Requests \ {r}
      PROVE  /\ RequestOK(req'[u], coll', truth')
             /\ req'[u].at # "idle" => req'[u].op \in Ops[u]
  <2>1. RequestOK(req[u], coll, truth) /\ (req[u].at # "idle" => req[u].op \in Ops[u])
    BY DEF TInv
  <2>2. RequestOK(req[u], coll', truth')
    BY <1>1, <2>1, RequestStaysOK
  <2> QED BY <2>1, <2>2
<1> QED BY <1>2 DEF TInv

LEMMA SameTruth ==
  ASSUME TypeOK, UNCHANGED truth
  PROVE  Forward(truth, truth')
BY DEF TypeOK, Forward

\* The request becomes q; the rows that were there may change.
LEMMA RowStep ==
  ASSUME TInv, NEW r \in Requests, NEW q \in Request, NEW who \in {r, NoRequest},
         Step(r, q, who), coll' \in Seq(Collection), Len(coll') = Len(coll),
         \A c \in 1..Len(coll) : RowOK(coll'[c], truth) /\ coll'[c].order = coll[c].order,
         UNCHANGED truth, order' \in Seq(Order), Len(order') = Len(order),
         link' \in {"ACTIVE", "PAID"}, wallet' \in Nat, heard' \subseteq 1..Len(coll),
         pushes' \in Nat, aborts' \in Nat,
         RequestOK(q, coll, truth), q.at # "idle" => q.op \in Ops[r]
  PROVE  TInv'
<1>1. /\ req' \in [Requests -> Request] /\ req'[r] = q
      /\ \A u \in Requests \ {r} : req'[u] = req[u]
      /\ loop' \in [Replicas -> Requests \cup {NoRequest}]
  BY DEF TInv, TypeOK, Step
<1>2. TypeOK'
  BY <1>1 DEF TInv, TypeOK
<1>3. Forward(truth, truth') /\ Len(truth') = Len(order')
  BY SameTruth DEF TInv
<1>4. \A c \in 1..Len(coll) : coll[c].order \in 0..Len(truth)
  BY DEF TInv, RowOK
<1>5. Len(coll) \in Nat /\ coll \in Seq(Collection) /\ truth \in Seq(Truth) /\ truth' \in Seq(Truth)
  BY DEF TInv, TypeOK
<1>6. RequestOK(q, coll', truth')
  BY <1>3, <1>4, <1>5, RequestStaysOK
<1> QED BY <1>1, <1>2, <1>3, <1>5, <1>6, TStep

\* No row changes.
LEMMA QuietStep ==
  ASSUME TInv, NEW r \in Requests, NEW q \in Request, NEW who \in {r, NoRequest},
         Step(r, q, who), UNCHANGED <<coll, truth>>,
         order' \in Seq(Order), Len(order') = Len(order),
         link' \in {"ACTIVE", "PAID"}, wallet' \in Nat, heard' \subseteq 1..Len(coll),
         pushes' \in Nat, aborts' \in Nat,
         RequestOK(q, coll, truth), q.at # "idle" => q.op \in Ops[r]
  PROVE  TInv'
<1>1. \A c \in 1..Len(coll) : RowOK(coll'[c], truth) /\ coll'[c].order = coll[c].order
  BY DEF TInv
<1>2. coll' \in Seq(Collection) /\ Len(coll') = Len(coll)
  BY DEF TInv, TypeOK
<1> QED BY <1>1, <1>2, RowStep

\* Row c becomes x.
LEMMA WriteStep ==
  ASSUME TInv, NEW r \in Requests, NEW q \in Request, NEW who \in {r, NoRequest},
         NEW c \in 1..Len(coll), NEW x \in Collection, coll' = [coll EXCEPT ![c] = x],
         x.order = coll[c].order, RowOK(x, truth),
         Step(r, q, who), UNCHANGED <<truth, order, link, heard, pushes, aborts>>,
         wallet' \in Nat,
         RequestOK(q, coll, truth), q.at # "idle" => q.op \in Ops[r]
  PROVE  TInv'
<1>1. /\ coll' \in Seq(Collection) /\ Len(coll') = Len(coll)
      /\ coll'[c] = x /\ \A d \in 1..Len(coll) : d # c => coll'[d] = coll[d]
  BY DEF TInv, TypeOK
<1>2. \A d \in 1..Len(coll) : RowOK(coll'[d], truth) /\ coll'[d].order = coll[d].order
  BY <1>1 DEF TInv
<1>3. /\ order' \in Seq(Order) /\ Len(order') = Len(order) /\ link' \in {"ACTIVE", "PAID"}
      /\ heard' \subseteq 1..Len(coll) /\ pushes' \in Nat /\ aborts' \in Nat
  BY DEF TInv, TypeOK
<1> QED BY <1>1, <1>2, <1>3, RowStep

LEMMA Idles ==
  ASSUME NEW C, NEW T
  PROVE  /\ NoWork \in Request /\ NoWork.at = "idle"
         /\ RequestOK(NoWork, C, T)
BY DEF NoWork, Request, RequestOK, Pushing, Reversing

LEMMA AtWork ==
  ASSUME TInv, NEW r \in Requests, req[r].at \notin {"idle"} \cup Pushing
  PROVE  LET c == req[r].c IN
         /\ TypeOK /\ req[r] \in Request /\ req[r].op \in Ops[r]
         /\ RequestOK(req[r], coll, truth)
         /\ c \in 1..Len(coll) /\ coll[c] \in Collection /\ RowOK(coll[c], truth)
         /\ req[r].order = coll[c].order
BY DEF TInv, TypeOK, RequestOK

LEMMA ToFacts ==
  ASSUME TypeOK, NEW r \in Requests, NEW p \in Places
  PROVE  LET q == To(r, p) IN
         /\ q \in Request /\ q.at = p /\ q.op = req[r].op /\ q.c = req[r].c
         /\ q.order = req[r].order /\ q.ans = req[r].ans
BY DEF To, TypeOK, Request

LEMMA AboutFacts ==
  ASSUME TypeOK, NEW op \in OpNames, NEW c \in 1..Len(coll), NEW p \in Places
  PROVE  LET q == About(op, c, p) IN
         /\ q \in Request /\ q.at = p /\ q.op = op /\ q.c = c
         /\ q.order = coll[c].order /\ q.ans = "none"
<1>1. coll[c] \in Collection /\ c \in Nat
  BY DEF TypeOK
<1>2. coll[c].order \in Nat
  BY <1>1 DEF Collection
<1> QED BY <1>1, <1>2 DEF About, NoWork, Request
-----------------------------------------------------------------------------
(***************************************************************************)
(* Each action keeps types and truth.                                      *)
(***************************************************************************)
LEMMA Unmoved ==
  ASSUME TypeOK, UNCHANGED <<order, link, wallet, heard, pushes, aborts>>
  PROVE  /\ order' \in Seq(Order) /\ Len(order') = Len(order) /\ link' \in {"ACTIVE", "PAID"}
         /\ wallet' \in Nat /\ heard' \subseteq 1..Len(coll) /\ pushes' \in Nat /\ aborts' \in Nat
BY DEF TypeOK

LEMMA PushKeepsT ==
  ASSUME TInv, NEW r \in Requests, Push(r) \/ LinkPush(r)
  PROVE  TInv'
<1>1. TypeOK /\ truth \in Seq(Truth) /\ order \in Seq(Order) /\ Len(order) = Len(truth)
  BY DEF TInv, TypeOK
<1>2. /\ UNCHANGED <<coll, truth, order, link, wallet, heard, aborts>> /\ pushes' = pushes + 1
      /\ \E q \in Request : Await(r, q) /\ q.at \in Pushing /\ q.op \in {"push", "linkpush"}
           /\ q.op \in Ops[r] /\ q.c = 0 /\ q.ans = "none"
           /\ (q.at = "pushing" => q.order \in 1..Len(truth))
  <2>1. CASE Push(r)
    <3> DEFINE q == [NoWork EXCEPT !.at = "ordering", !.op = "push"]
    <3>1. /\ q \in Request /\ q.at = "ordering" /\ q.op = "push" /\ q.c = 0 /\ q.ans = "none"
      BY DEF NoWork, Request, Places, Awaits, OpNames
    <3>2. Await(r, q) /\ "push" \in Ops[r]
      BY <2>1 DEF Push, Dispatch
    <3> HIDE DEF q
    <3> QED BY <2>1, <3>1, <3>2 DEF Push, rows, Pushing
  <2>2. CASE LinkPush(r)
    <3> DEFINE q0 == [NoWork EXCEPT !.op = "linkpush", !.linked = TRUE]
               q1 == [q0 EXCEPT !.at = "ordering"]
               q2(o) == [q0 EXCEPT !.at = "pushing", !.order = o]
    <3>1. /\ q1 \in Request /\ q1.at = "ordering" /\ q1.op = "linkpush" /\ q1.c = 0
          /\ q1.ans = "none"
      BY DEF NoWork, Request, Places, Awaits, OpNames
    <3>2. ASSUME NEW o \in 1..Len(order)
          PROVE  /\ q2(o) \in Request /\ q2(o).at = "pushing" /\ q2(o).op = "linkpush"
                 /\ q2(o).c = 0 /\ q2(o).ans = "none" /\ q2(o).order = o
      <4>1. o \in Nat
        BY <1>1
      <4> QED BY <4>1 DEF NoWork, Request, Places, Awaits, OpNames
    <3>3. /\ Await(r, q1) \/ \E o \in OpenOrders : Await(r, q2(o))
          /\ "linkpush" \in Ops[r]
      BY <2>2 DEF LinkPush, Dispatch
    <3>4. OpenOrders \subseteq 1..Len(order)
      BY <1>1 DEF OpenOrders
    <3> HIDE DEF q1, q2
    <3>5. \E q \in Request : Await(r, q) /\ q.at \in Pushing /\ q.op \in {"push", "linkpush"}
           /\ q.op \in Ops[r] /\ q.c = 0 /\ q.ans = "none"
           /\ (q.at = "pushing" => q.order \in 1..Len(truth))
      <4>1. CASE Await(r, q1)
        BY <3>1, <3>3, <4>1 DEF Pushing
      <4>2. CASE \E o \in OpenOrders : Await(r, q2(o))
        <5>1. PICK o \in 1..Len(order) : Await(r, q2(o))
          BY <3>4, <4>2
        <5> QED BY <1>1, <3>2, <3>3, <5>1 DEF Pushing
      <4> QED BY <3>3, <4>1, <4>2
    <3> QED BY <2>2, <3>5 DEF LinkPush, rows
  <2> QED BY <2>1, <2>2
<1>3. PICK q \in Request : Await(r, q) /\ q.at \in Pushing /\ q.op \in {"push", "linkpush"}
           /\ q.op \in Ops[r] /\ q.c = 0 /\ q.ans = "none"
           /\ (q.at = "pushing" => q.order \in 1..Len(truth))
  BY <1>2
<1>4. RequestOK(q, coll, truth)
  BY <1>3 DEF RequestOK, Pushing, Reversing
<1>5. pushes' \in Nat
  BY <1>1, <1>2 DEF TypeOK
<1>6. /\ order' \in Seq(Order) /\ Len(order') = Len(order) /\ link' \in {"ACTIVE", "PAID"}
      /\ wallet' \in Nat /\ heard' \subseteq 1..Len(coll) /\ aborts' \in Nat
  BY <1>1, <1>2 DEF TypeOK
<1> QED BY <1>2, <1>3, <1>4, <1>5, <1>6, QuietStep DEF Await

LEMMA NewRowFacts ==
  ASSUME NEW s \in {"processing", "failed"}, NEW q \in Request, NEW n \in Nat \ {0},
         NEW T, n \in 1..Len(T)
  PROVE  LET x == NewRow(s, q, n) IN
         /\ x \in Collection /\ x.order = n /\ x.status = s /\ ~ x.expired /\ x.credits = 0
         /\ x.debits = 0 /\ x.txn = "none" /\ RowOK(x, T)
<1> DEFINE x == NewRow(s, q, n)
<1>1. q.linked \in BOOLEAN
  BY DEF Request
<1>2. /\ x.order = n /\ x.status = s /\ ~ x.expired /\ x.credits = 0 /\ x.debits = 0
      /\ x.txn = "none"
  BY DEF NewRow
<1>3. x \in Collection
  BY <1>1 DEF NewRow, Collection
<1>4. RowOK(x, T)
  <2> HIDE DEF x
  <2> QED BY <1>2 DEF RowOK
<1> QED BY <1>2, <1>3, <1>4

\* A row is added at the end.
LEMMA Appended ==
  ASSUME NEW S, NEW s \in Seq(S), NEW x \in S
  PROVE  LET u == Append(s, x) IN
         /\ u \in Seq(S) /\ Len(u) = Len(s) + 1 /\ Len(s) \in Nat
         /\ u[Len(s) + 1] = x /\ \A i \in 1..Len(s) : u[i] = s[i]
OBVIOUS

LEMMA OrderAnswerKeepsT ==
  ASSUME TInv, NEW r \in Requests, NEW s, OrderAnswer(r, s)
  PROVE  TInv'
<1> DEFINE n == Len(order) + 1
           o == [status |-> s, linked |-> req[r].linked]
           t == IF s = "created" THEN "unpaid" ELSE "none"
<1>1. /\ TypeOK /\ req[r] \in Request /\ req[r].at = "ordering" /\ s \in {"created", "failed"}
      /\ RequestOK(req[r], coll, truth) /\ req[r].op \in Ops[r] /\ n \in Nat \ {0}
      /\ coll \in Seq(Collection) /\ truth \in Seq(Truth) /\ order \in Seq(Order)
      /\ Len(order) = Len(truth) /\ NoRequest \notin Requests
  BY CollectionsAssumption DEF TInv, TypeOK, OrderAnswer, Resumes
<1>2. o \in Order /\ t \in Truth
  BY <1>1 DEF Order, Request, Truth
<1>3. order' = Append(order, o) /\ truth' = Append(truth, t)
  BY <1>1 DEF OrderAnswer
<1>4. /\ order' \in Seq(Order) /\ truth' \in Seq(Truth) /\ Len(order') = n /\ Len(truth') = n
      /\ \A i \in 1..Len(truth) : truth'[i] = truth[i]
      /\ truth'[n] = t
  <2> HIDE DEF o, t
  <2> QED BY <1>1, <1>2, <1>3, Appended
<1>5. Forward(truth, truth')
  BY <1>1, <1>4 DEF Forward
<1>6. UNCHANGED <<link, wallet, heard, pushes, aborts>>
  BY DEF OrderAnswer
<1>7. \A c \in 1..Len(coll) : RowOK(coll[c], truth')
  BY <1>1, <1>4, <1>5, RowStaysOK DEF TInv
<1> HIDE DEF o, t
<1>8. CASE s = "created"
  <2> DEFINE q == [req[r] EXCEPT !.at = "pushing", !.order = n]
  <2>1. /\ q \in Request /\ q.at = "pushing" /\ q.order = n /\ q.op = req[r].op
        /\ q.c = req[r].c /\ q.ans = req[r].ans
    BY <1>1 DEF Request, Places, Awaits
  <2>2. Step(r, q, NoRequest) /\ UNCHANGED coll
    BY <1>8 DEF OrderAnswer, Await
  <2> HIDE DEF q
  <2>3. /\ req'[r] = q /\ \A u \in Requests \ {r} : req'[u] = req[u]
        /\ req' \in [Requests -> Request] /\ loop' \in [Replicas -> Requests \cup {NoRequest}]
    BY <1>1, <2>1, <2>2 DEF Step, TypeOK
  <2>4. TypeOK'
    BY <1>1, <1>4, <1>6, <2>2, <2>3 DEF TypeOK
  <2>5. RequestOK(q, coll, truth')
    BY <1>1, <1>4, <2>1 DEF RequestOK, Pushing, Reversing
  <2> QED BY <1>1, <1>4, <1>5, <1>7, <2>1, <2>2, <2>3, <2>4, <2>5, TStep
<1>9. CASE s = "failed"
  <2> DEFINE x == NewRow("failed", req[r], n)
  <2>1. x \in Collection /\ RowOK(x, truth')
    BY <1>1, <1>4, NewRowFacts
  <2>2. Step(r, NoWork, NoRequest) /\ coll' = Append(coll, x)
    BY <1>9 DEF OrderAnswer, Await, Done
  <2> HIDE DEF x
  <2>3. /\ coll' \in Seq(Collection) /\ Len(coll') = Len(coll) + 1 /\ Len(coll) \in Nat
        /\ coll'[Len(coll) + 1] = x /\ \A c \in 1..Len(coll) : coll'[c] = coll[c]
    BY <1>1, <2>1, <2>2, Appended
  <2>4. /\ req'[r] = NoWork /\ \A u \in Requests \ {r} : req'[u] = req[u]
        /\ req' \in [Requests -> Request] /\ loop' \in [Replicas -> Requests \cup {NoRequest}]
    BY <1>1, <2>2, Idles DEF Step, TypeOK
  <2>5. heard \subseteq 1..Len(coll')
    BY <1>1, <2>3 DEF TypeOK
  <2>6. TypeOK'
    BY <1>1, <1>4, <1>6, <2>3, <2>4, <2>5 DEF TypeOK
  <2>7. \A c \in 1..Len(coll') : RowOK(coll'[c], truth')
    BY <1>7, <2>1, <2>3
  <2>8. RequestOK(NoWork, coll', truth') /\ NoWork.at = "idle"
    BY Idles
  <2> QED BY <1>4, <1>5, <2>3, <2>4, <2>6, <2>7, <2>8, TStep
<1> QED BY <1>1, <1>8, <1>9

LEMMA PushAnswerKeepsT ==
  ASSUME TInv, NEW r \in Requests, NEW s, PushAnswer(r, s)
  PROVE  TInv'
<1> DEFINE x == NewRow(s, req[r], req[r].order)
           q == [req[r] EXCEPT !.at = "opentxn", !.c = Len(coll) + 1]
<1>1. /\ TypeOK /\ req[r] \in Request /\ req[r].at = "pushing" /\ s \in {"processing", "failed"}
      /\ RequestOK(req[r], coll, truth) /\ req[r].op \in Ops[r]
      /\ coll \in Seq(Collection) /\ Len(coll) \in Nat /\ truth \in Seq(Truth)
  BY DEF TInv, TypeOK, PushAnswer, Resumes
<1>2. /\ req[r].order \in 1..Len(truth) /\ req[r].order \in Nat \ {0}
      /\ req[r].op \in {"push", "linkpush"} /\ req[r].ans = "none"
  BY <1>1 DEF RequestOK, Pushing
<1>3. x \in Collection /\ x.order = req[r].order /\ RowOK(x, truth)
  BY <1>1, <1>2, NewRowFacts
<1>4. /\ coll' = Append(coll, x) /\ UNCHANGED <<order, link, wallet, heard, truth, pushes, aborts>>
      /\ Step(r, NoWork, NoRequest) \/ Step(r, q, r)
  BY DEF PushAnswer, env, Done, Await, Keep
<1>5. /\ q \in Request /\ q.at = "opentxn" /\ q.op = req[r].op /\ q.c = Len(coll) + 1
      /\ q.order = req[r].order /\ q.ans = "none"
  <2>1. Len(coll) + 1 \in Nat /\ "opentxn" \in Places
    BY <1>1 DEF Places
  <2>2. q \in Request
    BY <1>1, <2>1 DEF Request
  <2> QED BY <1>1, <1>2, <2>2 DEF Request
<1> HIDE DEF x, q
<1>6. /\ coll' \in Seq(Collection) /\ Len(coll') = Len(coll) + 1
      /\ coll'[Len(coll) + 1] = x /\ \A c \in 1..Len(coll) : coll'[c] = coll[c]
  BY <1>1, <1>3, <1>4, Appended
<1>7. /\ req'[r] \in {NoWork, q} /\ \A u \in Requests \ {r} : req'[u] = req[u]
      /\ req' \in [Requests -> Request] /\ loop' \in [Replicas -> Requests \cup {NoRequest}]
  BY <1>1, <1>4, <1>5, Idles DEF Step, TypeOK
<1>8. heard \subseteq 1..Len(coll')
  BY <1>1, <1>6 DEF TypeOK
<1>9. TypeOK'
  BY <1>1, <1>4, <1>6, <1>7, <1>8 DEF TypeOK
<1>10. \A c \in 1..Len(coll') : RowOK(coll'[c], truth')
  BY <1>1, <1>3, <1>4, <1>6 DEF TInv
<1>11. RequestOK(q, coll', truth)
  BY <1>1, <1>2, <1>3, <1>5, <1>6 DEF RequestOK, Pushing, Reversing, Crediting
<1>12. /\ RequestOK(req'[r], coll', truth')
       /\ req'[r].at # "idle" => req'[r].op \in Ops[r]
  BY <1>1, <1>4, <1>5, <1>7, <1>11, Idles
<1>13. Forward(truth, truth') /\ Len(truth') = Len(order')
  BY <1>1, <1>4, SameTruth DEF TInv
<1> QED BY <1>1, <1>6, <1>7, <1>9, <1>10, <1>12, <1>13, TStep

\* A request goes on with its collection.
LEMMA StaysAtWork ==
  ASSUME TInv, NEW r \in Requests, req[r].at \notin {"idle"} \cup Pushing,
         NEW q \in Request, q.at \notin {"idle"} \cup Pushing,
         q.op = req[r].op, q.c = req[r].c, q.order = req[r].order,
         q.op = "review" => q.at \in Crediting /\ q.ans = "successful",
         q.ans = "successful" => WasPaid(truth, q.order),
         q.ans = "failed" => Refused(truth, q.order),
         q.at \in {"mark", "marktxn"} => q.ans \in {"successful", "failed", "expired"},
         q.at = "credit" => q.ans = "successful",
         q.at \in Reversing => q.ans = "failed",
         q.at = "rechecked" /\ q.ans = "successful" => q.order \in KnownIds
  PROVE  RequestOK(q, coll, truth) /\ q.op \in Ops[r]
<1>1. RequestOK(req[r], coll, truth) /\ req[r].op \in Ops[r]
  BY DEF TInv
<1>2. /\ q.c \in 1..Len(coll) /\ q.order = coll[q.c].order
      /\ q.op = "review" <=> q.order = 0
  BY <1>1 DEF RequestOK
<1> QED BY <1>1, <1>2 DEF RequestOK, Pushing

\* A request takes up a collection.
LEMMA TakesUp ==
  ASSUME TInv, NEW r \in Requests, NEW op \in {"refresh", "sweep", "expire", "recheck", "callback"},
         op \in Ops[r], NEW c \in 1..Len(coll), coll[c].order # 0,
         NEW p \in {"querying", "rechecking", "reopen"}
  PROVE  LET q == About(op, c, p) IN
         q \in Request /\ RequestOK(q, coll, truth) /\ (q.at # "idle" => q.op \in Ops[r])
<1> DEFINE q == About(op, c, p)
<1>1. TypeOK /\ op \in OpNames /\ p \in Places
  BY DEF TInv, OpNames, Places, Awaits
<1>2. /\ q \in Request /\ q.at = p /\ q.op = op /\ q.c = c
      /\ q.order = coll[c].order /\ q.ans = "none"
  BY <1>1, AboutFacts
<1> HIDE DEF q
<1>3. RequestOK(q, coll, truth)
  BY <1>2 DEF RequestOK, Pushing, Reversing
<1>4. q.at # "idle" => q.op \in Ops[r]
  BY <1>2
<1> QED BY <1>2, <1>3, <1>4 DEF q

\* Only the request moves.
LEMMA MoveKeepsT ==
  ASSUME TInv, NEW r \in Requests, NEW q \in Request, NEW who \in {r, NoRequest},
         Step(r, q, who), UNCHANGED <<coll, order, link, wallet, heard, truth, pushes, aborts>>,
         RequestOK(q, coll, truth), q.at # "idle" => q.op \in Ops[r]
  PROVE  TInv'
<1>1. /\ order' \in Seq(Order) /\ Len(order') = Len(order) /\ link' \in {"ACTIVE", "PAID"}
      /\ wallet' \in Nat /\ heard' \subseteq 1..Len(coll) /\ pushes' \in Nat /\ aborts' \in Nat
  BY Unmoved DEF TInv
<1> QED BY <1>1, QuietStep

LEMMA OpenTxnKeepsT ==
  ASSUME TInv, NEW r \in Requests, OpenTxn(r)
  PROVE  TInv'
<1> DEFINE c == req[r].c
           x == [coll[c] EXCEPT !.txn = "processing"]
<1>1. req[r].at = "opentxn" /\ req[r].at \notin {"idle"} \cup Pushing
  BY DEF OpenTxn, GoesOn, Pushing
<1>2. TypeOK /\ c \in 1..Len(coll) /\ coll[c] \in Collection /\ RowOK(coll[c], truth)
  BY <1>1, AtWork
<1>3. x \in Collection /\ x.order = coll[c].order /\ RowOK(x, truth)
  BY <1>2 DEF Collection, RowOK
<1>4. coll' = [coll EXCEPT ![c] = x]
  BY DEF OpenTxn, SetTxn
<1>5. Step(r, NoWork, NoRequest) /\ UNCHANGED <<order, link, wallet, heard, truth, pushes, aborts>>
  BY DEF OpenTxn, Done, Await, env
<1>6. wallet' \in Nat
  BY <1>2, <1>5 DEF TypeOK
<1> HIDE DEF c, x
<1> QED BY <1>2, <1>3, <1>4, <1>5, <1>6, Idles, WriteStep

LEMMA AskKeepsT ==
  ASSUME TInv, NEW r \in Requests, NEW op \in OpNames, NEW c \in 1..Len(coll), Ask(r, op, c)
  PROVE  TInv'
<1> DEFINE q == About(op, c, "querying")
<1>1. op \in {"refresh", "sweep", "expire"} /\ op \in Ops[r] /\ coll[c].order # 0
  BY DEF Ask, Dispatch
<1>2. q \in Request /\ RequestOK(q, coll, truth) /\ (q.at # "idle" => q.op \in Ops[r])
  BY <1>1, TakesUp
<1>3. /\ Step(r, q, NoRequest)
      /\ UNCHANGED <<coll, order, link, wallet, heard, truth, pushes, aborts>>
  BY DEF Ask, Await, rows, env
<1> HIDE DEF q
<1> QED BY <1>2, <1>3, MoveKeepsT

LEMMA RecheckKeepsT ==
  ASSUME TInv, NEW r \in Requests, NEW c \in 1..Len(coll), Recheck(r, c)
  PROVE  TInv'
<1> DEFINE q == About("recheck", c, "rechecking")
<1>1. RowOK(coll[c], truth)
  BY DEF TInv
<1>2. "recheck" \in Ops[r] /\ coll[c].order # 0
  BY <1>1 DEF Recheck, Dispatch, Abandoned, RowOK
<1>3. q \in Request /\ RequestOK(q, coll, truth) /\ (q.at # "idle" => q.op \in Ops[r])
  BY <1>2, TakesUp
<1>4. /\ Step(r, q, NoRequest)
      /\ UNCHANGED <<coll, order, link, wallet, heard, truth, pushes, aborts>>
  BY DEF Recheck, Await, rows, env
<1> HIDE DEF q
<1> QED BY <1>3, <1>4, MoveKeepsT

LEMMA ReplyKeepsT ==
  ASSUME TInv, NEW r \in Requests, NEW a \in AllAnswers, Reply(r, a)
  PROVE  TInv'
<1> DEFINE p == IF req[r].at = "querying" THEN "replied" ELSE "rechecked"
           q == [req[r] EXCEPT !.at = p, !.ans = a]
<1>1. /\ req[r].at \in {"querying", "rechecking"} /\ req[r].at \notin {"idle"} \cup Pushing
      /\ req[r].at \notin Crediting
  BY DEF Reply, Pushing, Crediting
<1>2. /\ TypeOK /\ req[r] \in Request /\ RequestOK(req[r], coll, truth)
      /\ req[r].c \in 1..Len(coll) /\ RowOK(coll[req[r].c], truth)
      /\ req[r].order = coll[req[r].c].order
  BY <1>1, AtWork
<1>3. req[r].op # "review" /\ req[r].order # 0
  BY <1>1, <1>2 DEF RequestOK
<1>4. /\ req' = [req EXCEPT ![r] = q]
      /\ UNCHANGED <<coll, order, link, wallet, heard, truth, pushes, aborts, loop>>
  BY DEF Reply, rows, env
<1>5. /\ q \in Request /\ q.at = p /\ q.op = req[r].op /\ q.c = req[r].c
      /\ q.order = req[r].order /\ q.ans = a
  BY <1>2 DEF Request, Places, Awaits
<1>6. /\ a = "successful" => WasPaid(truth, req[r].order)
      /\ a = "failed" => Refused(truth, req[r].order)
  BY <1>3 DEF Reply, Truthful, WasPaid, Refused
<1>7. p = "rechecked" /\ a = "successful" => req[r].order \in KnownIds
  BY DEF Reply
<1>8. p \in {"replied", "rechecked"}
  OBVIOUS
<1> HIDE DEF p, q
<1>9. RequestOK(q, coll, truth) /\ q.op \in Ops[r]
  BY <1>1, <1>3, <1>5, <1>6, <1>7, <1>8, StaysAtWork DEF Pushing, Reversing
<1>10. req'[r] = q /\ \A u \in Requests \ {r} : req'[u] = req[u]
  BY <1>2, <1>4 DEF TypeOK
<1>11. TypeOK'
  BY <1>2, <1>4, <1>5 DEF TypeOK
<1>12. /\ Forward(truth, truth') /\ Len(truth') = Len(order') /\ Len(coll) <= Len(coll')
       /\ \A c \in 1..Len(coll) : coll'[c].order = coll[c].order
       /\ \A c \in 1..Len(coll') : RowOK(coll'[c], truth')
  <2>1. Len(coll) \in Nat
    BY <1>2 DEF TypeOK
  <2> QED BY <1>2, <1>4, <2>1, SameTruth DEF TInv
<1>13. RequestOK(req'[r], coll', truth')
  BY <1>4, <1>9, <1>10
<1> QED BY <1>9, <1>10, <1>11, <1>12, <1>13, TStep

LEMMA CompleteKeepsT ==
  ASSUME TInv, NEW r \in Requests, Complete(r)
  PROVE  TInv'
<1>1. /\ req[r].at = "replied" /\ req[r].at \notin {"idle"} \cup Pushing
      /\ req[r].at \notin Crediting
  BY DEF Complete, Resumes, Pushing, Crediting
<1>2. TypeOK /\ req[r] \in Request /\ RequestOK(req[r], coll, truth)
  BY <1>1, AtWork
<1>3. /\ req[r].op # "review"
      /\ req[r].ans = "successful" => WasPaid(truth, req[r].order)
      /\ req[r].ans = "failed" => Refused(truth, req[r].order)
  BY <1>1, <1>2 DEF RequestOK
<1>4. UNCHANGED <<coll, order, link, wallet, heard, truth, pushes, aborts>>
  BY DEF Complete, rows, env
<1>5. CASE Settles(req[r]) /\ Keep(r, To(r, "mark"))
  <2> DEFINE q == To(r, "mark")
  <2>1. /\ q \in Request /\ q.at = "mark" /\ q.op = req[r].op /\ q.c = req[r].c
        /\ q.order = req[r].order /\ q.ans = req[r].ans
    BY <1>2, ToFacts DEF Places
  <2>2. Step(r, q, r) /\ req[r].ans \in {"successful", "failed"}
    BY <1>5 DEF Keep, Settles
  <2> HIDE DEF q
  <2>3. RequestOK(q, coll, truth) /\ q.op \in Ops[r]
    BY <1>1, <1>3, <2>1, <2>2, StaysAtWork DEF Pushing, Reversing
  <2> QED BY <1>4, <2>1, <2>2, <2>3, MoveKeepsT
<1>6. CASE Reverses(req[r]) /\ Keep(r, To(r, "debit"))
  <2> DEFINE q == To(r, "debit")
  <2>1. /\ q \in Request /\ q.at = "debit" /\ q.op = req[r].op /\ q.c = req[r].c
        /\ q.order = req[r].order /\ q.ans = req[r].ans
    BY <1>2, ToFacts DEF Places
  <2>2. Step(r, q, r) /\ req[r].ans = "failed"
    BY <1>6 DEF Keep, Reverses
  <2> HIDE DEF q
  <2>3. RequestOK(q, coll, truth) /\ q.op \in Ops[r]
    BY <1>1, <1>3, <2>1, <2>2, StaysAtWork DEF Pushing, Reversing
  <2> QED BY <1>4, <2>1, <2>2, <2>3, MoveKeepsT
<1>7. CASE GivesUp(req[r]) /\ Keep(r, [To(r, "mark") EXCEPT !.ans = "expired"])
  <2> DEFINE q == [To(r, "mark") EXCEPT !.ans = "expired"]
  <2>1. /\ q \in Request /\ q.at = "mark" /\ q.op = req[r].op /\ q.c = req[r].c
        /\ q.order = req[r].order /\ q.ans = "expired"
    BY <1>2, ToFacts DEF Places, Request
  <2>2. Step(r, q, r)
    BY <1>7 DEF Keep
  <2> HIDE DEF q
  <2>3. RequestOK(q, coll, truth) /\ q.op \in Ops[r]
    BY <1>1, <1>3, <2>1, <2>2, StaysAtWork DEF Pushing, Reversing
  <2> QED BY <1>4, <2>1, <2>2, <2>3, MoveKeepsT
<1>8. CASE Done(r)
  BY <1>4, <1>8, Idles, MoveKeepsT DEF Done, Await
<1> QED BY <1>5, <1>6, <1>7, <1>8 DEF Complete

LEMMA RecheckAnswerKeepsT ==
  ASSUME TInv, NEW r \in Requests, RecheckAnswer(r)
  PROVE  TInv'
<1>1. /\ req[r].at = "rechecked" /\ req[r].at \notin {"idle"} \cup Pushing
      /\ req[r].at \notin Crediting
  BY DEF RecheckAnswer, Resumes, Pushing, Crediting
<1>2. /\ TypeOK /\ req[r] \in Request /\ RequestOK(req[r], coll, truth)
      /\ req[r].c \in 1..Len(coll) /\ coll[req[r].c] \in Collection
      /\ RowOK(coll[req[r].c], truth) /\ req[r].order = coll[req[r].c].order
  BY <1>1, AtWork
<1>3. req[r].op # "review" /\ coll[req[r].c].order # 0 /\ wallet \in Nat
  BY <1>1, <1>2 DEF RequestOK, TypeOK
<1>4. UNCHANGED <<order, link, wallet, heard, truth, pushes, aborts>>
  BY DEF RecheckAnswer, env
<1>5. CASE req[r].ans = "successful"
  <2> DEFINE c == req[r].c
             q == [req[r] EXCEPT !.at = "querying", !.ans = "none"]
             x == [coll[c] EXCEPT !.status = "processing"]
  <2>1. /\ q \in Request /\ q.at = "querying" /\ q.op = req[r].op /\ q.c = req[r].c
        /\ q.order = req[r].order /\ q.ans = "none"
    BY <1>2 DEF Request, Places, Awaits
  <2>2. x \in Collection /\ x.order = coll[c].order /\ RowOK(x, truth)
    BY <1>2, <1>3 DEF Collection, RowOK
  <2>3. Step(r, q, NoRequest) /\ coll' = [coll EXCEPT ![c] = x]
    BY <1>5 DEF RecheckAnswer, Await, SetStatus
  <2>4. c \in 1..Len(coll)
    BY <1>2
  <2> HIDE DEF q, x, c
  <2>5. RequestOK(q, coll, truth) /\ q.op \in Ops[r]
    BY <1>1, <1>3, <2>1, StaysAtWork DEF Pushing, Reversing
  <2> QED BY <1>3, <1>4, <2>1, <2>2, <2>3, <2>4, <2>5, WriteStep
<1>6. CASE req[r].ans # "successful"
  BY <1>4, <1>6, Idles, MoveKeepsT DEF RecheckAnswer, Done, Await
<1> QED BY <1>5, <1>6

LEMMA MarkKeepsT ==
  ASSUME TInv, NEW r \in Requests, Mark(r)
  PROVE  TInv'
<1> DEFINE c == req[r].c
           a == req[r].ans
           x == [coll[c] EXCEPT !.status = IF a = "successful" THEN "successful" ELSE "failed",
                                !.expired = IF a = "successful" THEN @ ELSE a = "expired"]
           q == To(r, "marktxn")
<1>1. req[r].at = "mark" /\ req[r].at \notin {"idle"} \cup Pushing
  BY DEF Mark, GoesOn, Pushing
<1>2. /\ TypeOK /\ req[r] \in Request /\ RequestOK(req[r], coll, truth)
      /\ c \in 1..Len(coll) /\ coll[c] \in Collection /\ RowOK(coll[c], truth)
      /\ req[r].order = coll[c].order
  BY <1>1, AtWork
<1>3. /\ coll[c].order = 0 => a = "successful"
      /\ a = "successful" => WasPaid(truth, req[r].order)
      /\ a = "failed" => Refused(truth, req[r].order)
      /\ a \in {"successful", "failed", "expired"}
  BY <1>1, <1>2 DEF RequestOK
<1>4. x \in Collection /\ x.order = coll[c].order
  BY <1>2 DEF Collection
<1>5. RowOK(x, truth)
  BY <1>2, <1>3 DEF Collection, RowOK
<1>6. /\ q \in Request /\ q.at = "marktxn" /\ q.op = req[r].op /\ q.c = req[r].c
      /\ q.order = req[r].order /\ q.ans = req[r].ans
  BY <1>2, ToFacts DEF Places
<1>7. coll' = [coll EXCEPT ![c] = x] /\ (Step(r, q, r) \/ Step(r, NoWork, NoRequest))
  BY DEF Mark, Keep, Done, Await
<1>8. UNCHANGED <<truth, order, link, wallet, heard, pushes, aborts>> /\ wallet' \in Nat
  BY <1>2 DEF Mark, env, TypeOK
<1> HIDE DEF x, q
<1>9. q.op = "review" => q.at \in Crediting /\ q.ans = "successful"
  BY <1>1, <1>2, <1>6 DEF RequestOK, Crediting
<1>10. RequestOK(q, coll, truth) /\ q.op \in Ops[r]
  BY <1>1, <1>3, <1>6, <1>9, StaysAtWork DEF Pushing, Reversing
<1> HIDE DEF c, a
<1>11. CASE Step(r, q, r)
  BY <1>2, <1>4, <1>5, <1>6, <1>7, <1>8, <1>10, <1>11, WriteStep
<1>12. CASE Step(r, NoWork, NoRequest)
  BY <1>2, <1>4, <1>5, <1>7, <1>8, <1>12, Idles, WriteStep
<1> QED BY <1>7, <1>11, <1>12

LEMMA MarkTxnKeepsT ==
  ASSUME TInv, NEW r \in Requests, MarkTxn(r)
  PROVE  TInv'
<1> DEFINE c == req[r].c
           a == req[r].ans
           x == [coll[c] EXCEPT !.txn = IF a = "successful" THEN "successful" ELSE "failed"]
           q == To(r, "credit")
<1>1. req[r].at = "marktxn" /\ req[r].at \notin {"idle"} \cup Pushing
  BY DEF MarkTxn, GoesOn, Pushing
<1>2. /\ TypeOK /\ req[r] \in Request /\ RequestOK(req[r], coll, truth)
      /\ c \in 1..Len(coll) /\ coll[c] \in Collection /\ RowOK(coll[c], truth)
      /\ req[r].order = coll[c].order
  BY <1>1, AtWork
<1>3. /\ a = "successful" => WasPaid(truth, req[r].order)
      /\ req[r].op = "review" => a = "successful"
  BY <1>1, <1>2 DEF RequestOK
<1>4. x \in Collection /\ x.order = coll[c].order /\ RowOK(x, truth)
  BY <1>2 DEF Collection, RowOK
<1>5. /\ q \in Request /\ q.at = "credit" /\ q.op = req[r].op /\ q.c = req[r].c
      /\ q.order = req[r].order /\ q.ans = req[r].ans
  BY <1>2, ToFacts DEF Places
<1>6. /\ coll' = [coll EXCEPT ![c] = x]
      /\ (a = "successful" /\ Step(r, q, r)) \/ Step(r, NoWork, NoRequest)
  BY DEF MarkTxn, Keep, Done, Await, SetTxn
<1>7. UNCHANGED <<truth, order, link, wallet, heard, pushes, aborts>> /\ wallet' \in Nat
  BY <1>2 DEF MarkTxn, env, TypeOK
<1> HIDE DEF x, q
<1>8. CASE a = "successful" /\ Step(r, q, r)
  <2>1. RequestOK(q, coll, truth) /\ q.op \in Ops[r]
    BY <1>1, <1>3, <1>5, <1>8, StaysAtWork DEF Pushing, Reversing, Crediting
  <2> HIDE DEF c, a
  <2> QED BY <1>2, <1>4, <1>5, <1>6, <1>7, <1>8, <2>1, WriteStep
<1>9. CASE Step(r, NoWork, NoRequest)
  <2> HIDE DEF c, a
  <2> QED BY <1>2, <1>4, <1>6, <1>7, <1>9, Idles, WriteStep
<1> QED BY <1>6, <1>8, <1>9

LEMMA CreditKeepsT ==
  ASSUME TInv, NEW r \in Requests, Credit(r)
  PROVE  TInv'
<1> DEFINE c == req[r].c
           x == [coll[c] EXCEPT !.credits = @ + 1]
           q == To(r, "link")
<1>1. req[r].at = "credit" /\ req[r].at \notin {"idle"} \cup Pushing
  BY DEF Credit, GoesOn, Pushing
<1>2. /\ TypeOK /\ req[r] \in Request /\ RequestOK(req[r], coll, truth)
      /\ c \in 1..Len(coll) /\ coll[c] \in Collection /\ RowOK(coll[c], truth)
      /\ req[r].order = coll[c].order
  BY <1>1, AtWork
<1>3. req[r].ans = "successful" /\ WasPaid(truth, req[r].order)
  BY <1>1, <1>2 DEF RequestOK
<1>4. x \in Collection /\ x.order = coll[c].order /\ RowOK(x, truth)
  BY <1>2, <1>3 DEF Collection, RowOK
<1>5. /\ q \in Request /\ q.at = "link" /\ q.op = req[r].op /\ q.c = req[r].c
      /\ q.order = req[r].order /\ q.ans = req[r].ans
  BY <1>2, ToFacts DEF Places
<1>6. coll' = [coll EXCEPT ![c] = x] /\ Step(r, q, r)
  BY DEF Credit, Keep
<1>7. UNCHANGED <<truth, order, link, heard, pushes, aborts>> /\ wallet' \in Nat
  BY <1>2 DEF Credit, env, TypeOK
<1> HIDE DEF x, q
<1>8. RequestOK(q, coll, truth) /\ q.op \in Ops[r]
  BY <1>1, <1>3, <1>5, StaysAtWork DEF Pushing, Reversing, Crediting
<1> HIDE DEF c
<1> QED BY <1>2, <1>4, <1>5, <1>6, <1>7, <1>8, WriteStep

LEMMA Completed ==
  ASSUME NEW s \in Seq(Order), NEW n
  PROVE  LET u == [s EXCEPT ![n].status = "completed"] IN u \in Seq(Order) /\ Len(u) = Len(s)
<1> DEFINE o == [s[n] EXCEPT !.status = "completed"]
           u == [s EXCEPT ![n] = o]
<1>1. CASE n \in 1..Len(s)
  <2>1. s[n] \in Order
    BY <1>1
  <2>2. o \in Order
    BY <2>1 DEF Order
  <2> HIDE DEF o
  <2>3. u \in Seq(Order) /\ Len(u) = Len(s)
    BY <1>1, <2>2
  <2> QED BY <2>3 DEF o
<1>2. CASE n \notin 1..Len(s)
  <2> HIDE DEF o
  <2>1. u = s
    BY <1>2
  <2> QED BY <2>1 DEF o
<1> QED BY <1>1, <1>2

LEMMA LinkAndCloseKeepT ==
  ASSUME TInv, NEW r \in Requests, MarkLinkPaid(r) \/ CloseOrder(r) \/ ReopenLink(r)
  PROVE  TInv'
<1> DEFINE q == To(r, "close")
<1>1. /\ req[r].at \in {"link", "close", "unlink"} /\ req[r].at \notin {"idle"} \cup Pushing
  BY DEF MarkLinkPaid, CloseOrder, ReopenLink, GoesOn, Pushing
<1>2. /\ TypeOK /\ req[r] \in Request /\ RequestOK(req[r], coll, truth)
      /\ req[r].order = coll[req[r].c].order
  BY <1>1, AtWork
<1>3. /\ order' \in Seq(Order) /\ Len(order') = Len(order) /\ link' \in {"ACTIVE", "PAID"}
      /\ wallet' \in Nat /\ heard' \subseteq 1..Len(coll) /\ pushes' \in Nat /\ aborts' \in Nat
      /\ UNCHANGED <<coll, truth>>
  <2>1. order' \in Seq(Order) /\ Len(order') = Len(order)
    <3>1. CASE CloseOrder(r)
      <4>1. order' = [order EXCEPT ![req[r].order].status = "completed"]
        BY <3>1 DEF CloseOrder
      <4>2. order \in Seq(Order)
        BY <1>2 DEF TypeOK
      <4> QED BY <4>1, <4>2, Completed
    <3>2. CASE UNCHANGED order
      BY <1>2, <3>2 DEF TypeOK
    <3> QED BY <3>1, <3>2 DEF MarkLinkPaid, ReopenLink
  <2> QED BY <1>2, <2>1 DEF TypeOK, MarkLinkPaid, CloseOrder, ReopenLink, env
<1>4. /\ q \in Request /\ q.at = "close" /\ q.op = req[r].op /\ q.c = req[r].c
      /\ q.order = req[r].order /\ q.ans = req[r].ans
  BY <1>2, ToFacts DEF Places
<1>5. Step(r, NoWork, NoRequest) \/ (Step(r, q, r) /\ req[r].op # "review")
  BY DEF MarkLinkPaid, CloseOrder, ReopenLink, Done, Await, Keep
<1> HIDE DEF q
<1>6. CASE Step(r, NoWork, NoRequest)
  BY <1>3, <1>6, Idles, QuietStep
<1>7. CASE Step(r, q, r) /\ req[r].op # "review"
  <2>1. /\ req[r].ans = "successful" => WasPaid(truth, req[r].order)
        /\ req[r].ans = "failed" => Refused(truth, req[r].order)
    BY <1>2 DEF RequestOK
  <2>2. RequestOK(q, coll, truth) /\ q.op \in Ops[r]
    BY <1>1, <1>4, <1>7, <2>1, StaysAtWork DEF Pushing, Reversing
  <2> QED BY <1>3, <1>4, <1>7, <2>2, QuietStep
<1> QED BY <1>5, <1>6, <1>7

LEMMA ReviewKeepsT ==
  ASSUME TInv, NEW r \in Requests, NEW c \in 1..Len(coll), Review(r, c)
  PROVE  TInv'
<1> DEFINE q == [About("review", c, "mark") EXCEPT !.ans = "successful"]
<1>1. TypeOK /\ RowOK(coll[c], truth) /\ "review" \in Ops[r] /\ coll[c].order = 0
  BY DEF TInv, Review, Dispatch, RowOK
<1>2. /\ q \in Request /\ q.at = "mark" /\ q.op = "review" /\ q.c = c /\ q.order = 0
      /\ q.ans = "successful"
  <2> DEFINE p == About("review", c, "mark")
  <2>1. /\ p \in Request /\ p.at = "mark" /\ p.op = "review" /\ p.c = c
        /\ p.order = coll[c].order
    BY <1>1, AboutFacts DEF Places, OpNames
  <2> HIDE DEF p
  <2>2. q = [p EXCEPT !.ans = "successful"]
    BY DEF p
  <2> QED BY <1>1, <2>1, <2>2 DEF Request, AllAnswers
<1>3. /\ Step(r, q, r) /\ UNCHANGED <<coll, order, link, wallet, heard, truth, pushes, aborts>>
  BY DEF Review, Keep, rows, env
<1> HIDE DEF q
<1>4. RequestOK(q, coll, truth)
  BY <1>1, <1>2 DEF RequestOK, Pushing, Reversing, Crediting, WasPaid
<1> QED BY <1>1, <1>2, <1>3, <1>4, MoveKeepsT

LEMMA DebitKeepsT ==
  ASSUME TInv, NEW r \in Requests, Debit(r)
  PROVE  TInv'
<1> DEFINE c == req[r].c
           x == [coll[c] EXCEPT !.debits = @ + 1]
<1>1. req[r].at = "debit" /\ req[r].at \notin {"idle"} \cup Pushing
  BY DEF Debit, GoesOn, Pushing
<1>2. /\ TypeOK /\ req[r] \in Request /\ RequestOK(req[r], coll, truth)
      /\ c \in 1..Len(coll) /\ coll[c] \in Collection /\ RowOK(coll[c], truth)
      /\ req[r].order = coll[c].order /\ wallet \in Nat
  <2>1. TypeOK
    BY <1>1, AtWork
  <2> QED BY <1>1, <2>1, AtWork DEF TypeOK
<1>3. /\ req[r].ans = "failed" /\ Refused(truth, req[r].order) /\ req[r].op # "review"
  BY <1>1, <1>2 DEF RequestOK, Crediting, Reversing
<1>4. x \in Collection /\ x.order = coll[c].order /\ RowOK(x, truth)
  BY <1>2 DEF Collection, RowOK
<1>5. ASSUME NEW p \in {"closetxn", "reverse"}
      PROVE  LET q == To(r, p) IN
             q \in Request /\ RequestOK(q, coll, truth) /\ q.op \in Ops[r]
  <2> DEFINE q == To(r, p)
  <2>1. /\ q \in Request /\ q.at = p /\ q.op = req[r].op /\ q.c = req[r].c
        /\ q.order = req[r].order /\ q.ans = req[r].ans
    <3>1. p \in Places
      BY DEF Places
    <3> QED BY <1>2, <3>1, ToFacts
  <2> HIDE DEF q
  <2>2. RequestOK(q, coll, truth) /\ q.op \in Ops[r]
    BY <1>1, <1>3, <2>1, StaysAtWork DEF Pushing, Reversing
  <2> QED BY <2>1, <2>2 DEF q
<1>6. UNCHANGED <<truth, order, link, heard, pushes, aborts>>
  BY DEF Debit, env
<1>7. CASE wallet > 0 /\ coll' = [coll EXCEPT ![c] = x] /\ wallet' = wallet - 1
           /\ Keep(r, To(r, "closetxn"))
  <2> DEFINE q == To(r, "closetxn")
  <2>1. q \in Request /\ RequestOK(q, coll, truth) /\ q.op \in Ops[r]
    BY <1>5
  <2>2. Step(r, q, r) /\ coll' = [coll EXCEPT ![c] = x] /\ wallet' \in Nat
    BY <1>2, <1>7 DEF Keep
  <2> HIDE DEF x, q, c
  <2> QED BY <1>2, <1>4, <1>6, <2>1, <2>2, WriteStep
<1>8. CASE UNCHANGED <<coll, wallet>> /\ Keep(r, To(r, "reverse"))
  <2> DEFINE q == To(r, "reverse")
  <2>1. q \in Request /\ RequestOK(q, coll, truth) /\ q.op \in Ops[r]
    BY <1>5
  <2>2. Step(r, q, r)
    BY <1>8 DEF Keep
  <2> HIDE DEF q
  <2> QED BY <1>6, <1>8, <2>1, <2>2, MoveKeepsT
<1> QED BY <1>7, <1>8 DEF Debit

LEMMA CloseAndReverseKeepT ==
  ASSUME TInv, NEW r \in Requests, CloseTxn(r) \/ Reverse(r) \/ ReopenRow(r)
  PROVE  TInv'
<1> DEFINE c == req[r].c
<1>1. /\ req[r].at \in {"closetxn", "reverse", "reopen"}
      /\ req[r].at \notin {"idle"} \cup Pushing \cup Crediting
  BY DEF CloseTxn, Reverse, ReopenRow, GoesOn, Pushing, Crediting
<1>2. /\ TypeOK /\ req[r] \in Request /\ RequestOK(req[r], coll, truth)
      /\ c \in 1..Len(coll) /\ coll[c] \in Collection /\ RowOK(coll[c], truth)
      /\ req[r].order = coll[c].order
  BY <1>1, AtWork
<1>3. /\ req[r].op # "review" /\ coll[c].order # 0
      /\ req[r].ans = "successful" => WasPaid(truth, req[r].order)
      /\ req[r].ans = "failed" => Refused(truth, req[r].order)
      /\ req[r].at = "closetxn" => req[r].ans = "failed"
  BY <1>1, <1>2 DEF RequestOK, Reversing
<1>4. PICK p \in {"reverse", "unlink", "reopentxn"}, x \in Collection :
        /\ coll' = [coll EXCEPT ![c] = x] /\ x.order = coll[c].order /\ RowOK(x, truth)
        /\ Step(r, To(r, p), r) /\ (p = "reverse" => req[r].at = "closetxn")
  <2>1. CASE CloseTxn(r)
    <3> DEFINE x == [coll[c] EXCEPT !.txn = "reversed"]
    <3>1. x \in Collection /\ x.order = coll[c].order /\ RowOK(x, truth)
      BY <1>2 DEF Collection, RowOK
    <3>2. /\ coll' = [coll EXCEPT ![c] = x] /\ Step(r, To(r, "reverse"), r)
          /\ req[r].at = "closetxn"
      BY <2>1 DEF CloseTxn, SetTxn, Keep, GoesOn
    <3> HIDE DEF x
    <3> QED BY <3>1, <3>2
  <2>2. CASE Reverse(r)
    <3> DEFINE x == [coll[c] EXCEPT !.status = "reversed"]
    <3>1. x \in Collection /\ x.order = coll[c].order /\ RowOK(x, truth)
      BY <1>2, <1>3 DEF Collection, RowOK
    <3>2. coll' = [coll EXCEPT ![c] = x] /\ Step(r, To(r, "unlink"), r)
      BY <2>2 DEF Reverse, SetStatus, Keep
    <3> HIDE DEF x
    <3> QED BY <3>1, <3>2
  <2>3. CASE ReopenRow(r)
    <3> DEFINE x == [coll[c] EXCEPT !.status = "processing"]
    <3>1. x \in Collection /\ x.order = coll[c].order /\ RowOK(x, truth)
      BY <1>2, <1>3 DEF Collection, RowOK
    <3>2. coll' = [coll EXCEPT ![c] = x] /\ Step(r, To(r, "reopentxn"), r)
      BY <2>3 DEF ReopenRow, SetStatus, Keep
    <3> HIDE DEF x
    <3> QED BY <3>1, <3>2
  <2> QED BY <2>1, <2>2, <2>3
<1> DEFINE q == To(r, p)
<1>5. /\ q \in Request /\ q.at = p /\ q.op = req[r].op /\ q.c = req[r].c
      /\ q.order = req[r].order /\ q.ans = req[r].ans
  <2>1. p \in Places
    BY DEF Places
  <2> QED BY <1>2, <2>1, ToFacts
<1>6. Step(r, q, r)
  BY <1>4
<1>7. UNCHANGED <<truth, order, link, wallet, heard, pushes, aborts>> /\ wallet' \in Nat
  BY <1>2 DEF CloseTxn, Reverse, ReopenRow, env, TypeOK
<1> HIDE DEF q
<1>8. RequestOK(q, coll, truth) /\ q.op \in Ops[r]
  BY <1>1, <1>3, <1>4, <1>5, StaysAtWork DEF Pushing, Reversing
<1> HIDE DEF c
<1> QED BY <1>2, <1>4, <1>5, <1>6, <1>7, <1>8, WriteStep

LEMMA ReopenTxnKeepsT ==
  ASSUME TInv, NEW r \in Requests, ReopenTxn(r)
  PROVE  TInv'
<1> DEFINE c == req[r].c
           x == [coll[c] EXCEPT !.txn = IF @ = "none" THEN "none" ELSE "processing"]
           q == To(r, "querying")
<1>1. req[r].at = "reopentxn" /\ req[r].at \notin {"idle"} \cup Pushing \cup Crediting
  BY DEF ReopenTxn, GoesOn, Pushing, Crediting
<1>2. /\ TypeOK /\ req[r] \in Request /\ RequestOK(req[r], coll, truth)
      /\ c \in 1..Len(coll) /\ coll[c] \in Collection /\ RowOK(coll[c], truth)
      /\ req[r].order = coll[c].order
  BY <1>1, AtWork
<1>3. /\ req[r].op # "review"
      /\ req[r].ans = "successful" => WasPaid(truth, req[r].order)
      /\ req[r].ans = "failed" => Refused(truth, req[r].order)
  BY <1>1, <1>2 DEF RequestOK
<1>4. x \in Collection /\ x.order = coll[c].order /\ RowOK(x, truth)
  BY <1>2 DEF Collection, RowOK
<1>5. /\ q \in Request /\ q.at = "querying" /\ q.op = req[r].op /\ q.c = req[r].c
      /\ q.order = req[r].order /\ q.ans = req[r].ans
  BY <1>2, ToFacts DEF Places, Awaits
<1>6. coll' = [coll EXCEPT ![c] = x] /\ Step(r, q, NoRequest)
  BY DEF ReopenTxn, Await
<1>7. UNCHANGED <<truth, order, link, wallet, heard, pushes, aborts>> /\ wallet' \in Nat
  BY <1>2 DEF ReopenTxn, env, TypeOK
<1> HIDE DEF x, q
<1>8. RequestOK(q, coll, truth) /\ q.op \in Ops[r]
  BY <1>1, <1>3, <1>5, StaysAtWork DEF Pushing, Reversing
<1> HIDE DEF c
<1> QED BY <1>2, <1>4, <1>5, <1>6, <1>7, <1>8, WriteStep

LEMMA CallbackKeepsT ==
  ASSUME TInv, NEW r \in Requests, NEW c \in 1..Len(coll), Callback(r, c)
  PROVE  TInv'
<1>1. TypeOK /\ RowOK(coll[c], truth) /\ "callback" \in Ops[r]
  BY DEF TInv, Callback, Dispatch
<1>2. UNCHANGED <<coll, order, link, wallet, truth, pushes, aborts>> /\ heard' = heard \cup {c}
  BY DEF Callback, env
<1>3. /\ order' \in Seq(Order) /\ Len(order') = Len(order) /\ link' \in {"ACTIVE", "PAID"}
      /\ wallet' \in Nat /\ heard' \subseteq 1..Len(coll) /\ pushes' \in Nat /\ aborts' \in Nat
  BY <1>1, <1>2 DEF TypeOK
<1>4. ASSUME NEW p \in {"querying", "reopen"}, NEW who \in {r, NoRequest}, coll[c].order # 0,
             Step(r, About("callback", c, p), who)
      PROVE  TInv'
  <2> DEFINE q == About("callback", c, p)
  <2>1. q \in Request /\ RequestOK(q, coll, truth) /\ (q.at # "idle" => q.op \in Ops[r])
    BY <1>1, <1>4, TakesUp
  <2>2. Step(r, q, who)
    BY <1>4
  <2> HIDE DEF q
  <2> QED BY <1>2, <1>3, <2>1, <2>2, QuietStep
<1>5. CASE coll[c].status = "processing" /\ Await(r, About("callback", c, "querying"))
  BY <1>1, <1>4, <1>5 DEF Await, RowOK
<1>6. CASE LatePayment(c) /\ Keep(r, About("callback", c, "reopen"))
  BY <1>1, <1>4, <1>6 DEF Keep, RowOK, LatePayment, Abandoned
<1>7. CASE Done(r)
  BY <1>2, <1>3, <1>7, Idles, QuietStep DEF Done, Await
<1> QED BY <1>5, <1>6, <1>7 DEF Callback

LEMMA CustomerKeepsT ==
  ASSUME TInv, NEW o \in DOMAIN truth, Pay(o) \/ Cancel(o) \/ GiveBack(o)
  PROVE  TInv'
<1>1. /\ UNCHANGED <<coll, order, link, wallet, heard, pushes, aborts, req, loop>>
      /\ \E t \in Truth : /\ truth' = [truth EXCEPT ![o] = t]
                          /\ truth[o] \in {"paid", "returned"} => t \in {"paid", "returned"}
                          /\ truth[o] \in {"cancelled", "returned"} => t \in {"cancelled", "returned"}
  <2>1. {"paid", "cancelled", "returned"} \subseteq Truth
    BY DEF Truth
  <2> QED BY <2>1 DEF Pay, Cancel, GiveBack, Customer, rows
<1>2. PICK t \in Truth : /\ truth' = [truth EXCEPT ![o] = t]
                         /\ truth[o] \in {"paid", "returned"} => t \in {"paid", "returned"}
                         /\ truth[o] \in {"cancelled", "returned"} => t \in {"cancelled", "returned"}
  BY <1>1
<1>3. TypeOK /\ truth \in Seq(Truth) /\ coll \in Seq(Collection) /\ o \in 1..Len(truth)
  BY DEF TInv, TypeOK
<1>4. /\ truth' \in Seq(Truth) /\ Len(truth') = Len(truth) /\ truth'[o] = t
      /\ \A p \in 1..Len(truth) : p # o => truth'[p] = truth[p]
  BY <1>2, <1>3
<1>5. Forward(truth, truth')
  BY <1>2, <1>3, <1>4 DEF Forward
<1>6. TypeOK'
  BY <1>1, <1>3, <1>4 DEF TypeOK
<1>7. \A c \in 1..Len(coll) : RowOK(coll[c], truth') /\ coll[c].order \in 0..Len(truth)
  <2> TAKE c \in 1..Len(coll)
  <2>1. RowOK(coll[c], truth)
    BY DEF TInv
  <2> QED BY <1>3, <1>4, <1>5, <2>1, RowStaysOK DEF RowOK
<1>8. \A r \in Requests : RequestOK(req[r], coll, truth')
  <2> TAKE r \in Requests
  <2>1. RequestOK(req[r], coll, truth) /\ Len(coll) \in Nat
    BY <1>3 DEF TInv
  <2> QED BY <1>3, <1>4, <1>5, <1>7, <2>1, RequestStaysOK
<1> QED BY <1>1, <1>4, <1>6, <1>7, <1>8 DEF TInv

LEMMA AbortKeepsT ==
  ASSUME TInv, NEW r \in Requests, Abort(r)
  PROVE  TInv'
<1>1. /\ TypeOK /\ coll \in Seq(Collection) /\ Len(coll) \in Nat
  BY DEF TInv, TypeOK
<1>2. UNCHANGED <<coll, order, link, wallet, heard, truth, pushes>>
  BY DEF Abort, rows
<1>3. /\ req' = [req EXCEPT ![r] = NoWork] /\ aborts' = aborts + 1
      /\ loop' = [p \in Replicas |-> IF loop[p] = r THEN NoRequest ELSE loop[p]]
  BY DEF Abort
<1>4. /\ req' \in [Requests -> Request] /\ req'[r] = NoWork
      /\ \A u \in Requests \ {r} : req'[u] = req[u]
      /\ loop' \in [Replicas -> Requests \cup {NoRequest}] /\ aborts' \in Nat
  <2>1. NoWork \in Request /\ req \in [Requests -> Request] /\ aborts \in Nat
        /\ loop \in [Replicas -> Requests \cup {NoRequest}]
    BY <1>1, Idles DEF TypeOK
  <2> QED BY <1>3, <2>1
<1>5. TypeOK'
  BY <1>1, <1>2, <1>4 DEF TypeOK
<1>6. /\ Forward(truth, truth') /\ Len(truth') = Len(order')
      /\ \A c \in 1..Len(coll') : RowOK(coll'[c], truth')
  BY <1>1, <1>2, SameTruth DEF TInv
<1>7. RequestOK(req'[r], coll', truth') /\ req'[r].at = "idle"
  BY <1>4, Idles
<1> QED BY <1>1, <1>2, <1>4, <1>5, <1>6, <1>7, TStep

LEMMA SpendKeepsT ==
  ASSUME TInv, UNCHANGED <<coll, order, link, heard, truth, pushes, aborts, req, loop>>,
         Spend \/ UNCHANGED wallet
  PROVE  TInv'
<1>1. wallet' \in Nat
  BY DEF TInv, TypeOK, Spend
<1> QED BY <1>1 DEF TInv, TypeOK

LEMMA InitT == Init => TInv
<1> SUFFICES ASSUME Init PROVE TInv
  OBVIOUS
<1>1. /\ coll \in Seq(Collection) /\ Len(coll) = Held
      /\ \A c \in 1..Len(coll) : coll[c] = HeldRow
  <2>1. HeldRow \in Collection
    BY DEF HeldRow, Collection
  <2> QED BY <2>1, CollectionsAssumption DEF Init
<1>2. \A r \in Requests : req[r] = NoWork
  BY DEF Init
<1>3. TypeOK
  BY <1>1, Idles DEF TypeOK, Init
<1>4. Len(truth) = 0 /\ Len(order) = 0
  BY DEF Init
<1>5. \A c \in 1..Len(coll) : RowOK(coll[c], truth)
  BY <1>1, <1>4 DEF HeldRow, RowOK
<1> QED BY <1>2, <1>3, <1>4, <1>5, Idles DEF TInv

LEMMA NextT == TInv /\ [Next]_vars => TInv'
<1> SUFFICES ASSUME TInv, [Next]_vars PROVE TInv'
  OBVIOUS
<1>1. CASE UNCHANGED vars
  BY <1>1, SpendKeepsT DEF vars, rows, env
<1>2. CASE Spend
  BY <1>2, SpendKeepsT DEF Spend, env
<1>3. ASSUME NEW o \in DOMAIN truth, Pay(o) \/ Cancel(o) \/ GiveBack(o)
      PROVE  TInv'
  BY <1>3, CustomerKeepsT
<1>4. ASSUME NEW r \in Requests, Push(r) \/ LinkPush(r) \/ AnswerStep(r) \/ Abort(r)
      PROVE  TInv'
  BY <1>4, PushKeepsT, OrderAnswerKeepsT, PushAnswerKeepsT, CompleteKeepsT, RecheckAnswerKeepsT,
     AbortKeepsT DEF AnswerStep
<1>5. ASSUME NEW r \in Requests, LocalStep(r)
      PROVE  TInv'
  BY <1>5, OpenTxnKeepsT, MarkKeepsT, MarkTxnKeepsT, CreditKeepsT, LinkAndCloseKeepT, DebitKeepsT,
     CloseAndReverseKeepT, ReopenTxnKeepsT DEF LocalStep
<1>6. ASSUME NEW r \in Requests, NEW a \in AllAnswers, Reply(r, a)
      PROVE  TInv'
  BY <1>6, ReplyKeepsT
<1>7. ASSUME NEW r \in Requests, NEW c \in DOMAIN coll, Arrival(r, c)
      PROVE  TInv'
  <2>1. c \in 1..Len(coll)
    BY DEF TInv, TypeOK
  <2> QED BY <1>7, <2>1, AskKeepsT, RecheckKeepsT, CallbackKeepsT, ReviewKeepsT DEF Arrival
<1> QED BY <1>1, <1>2, <1>3, <1>4, <1>5, <1>6, <1>7 DEF Next

\* The rows keep their types, the wallet is never negative, and a request acts on
\* an answer only if Selcom gave it: nothing is credited that was not paid.
THEOREM CollectionsTypes == Spec => []TypeOK
<1>1. Spec => []TInv
  BY InitT, NextT, PTL DEF Spec
<1>2. TInv => TypeOK
  BY DEF TInv
<1> QED BY <1>1, <1>2, PTL
-----------------------------------------------------------------------------
(***************************************************************************)
(* The books.                                                              *)
(***************************************************************************)
HasLoop(r) == InThread(r) \/ LoopFree(r) \/ loop[ReplicaOf[r]] = r

\* Whoever is about to write to collection c has it for himself: all but a review
\* need the loop, and only the review is about collections without an order.
LEMMA Alone ==
  ASSUME Conditions, TInv, Books, NEW r \in Requests, HasLoop(r), NEW op \in Ops[r],
         NEW c \in 1..Len(coll), op = "review" <=> coll[c].order = 0,
         NEW u \in Requests \ {r}, Handling(req[u])
  PROVE  req[u].c # c
<1> SUFFICES ASSUME req[u].c = c PROVE FALSE
  OBVIOUS
<1>1. /\ RequestOK(req[u], coll, truth) /\ req[u].at \notin {"idle"} \cup Pushing
      /\ req[u].op \in Ops[u]
  BY DEF TInv, Handling, Awaits, Pushing
<1>2. req[u].op = "review" <=> op = "review"
  BY <1>1 DEF RequestOK
<1>3. op # "review"
  BY <1>1, <1>2 DEF Conditions, OneReviewer
<1>4. ~ InThread(r) /\ ~ InThread(u)
  BY <1>1, <1>2, <1>3 DEF InThread
<1>5. loop[ReplicaOf[u]] = u /\ ReplicaOf[u] = ReplicaOf[r]
  BY <1>4 DEF Books, Conditions, OneProcess
<1> QED BY <1>4, <1>5, CollectionsAssumption DEF HasLoop, LoopFree

\* The others keep the loop, if they have it.
LEMMA LoopKept ==
  ASSUME Conditions, TInv, Books, NEW r \in Requests, HasLoop(r), NEW q, NEW who,
         Step(r, q, who), Handling(q) /\ ~ InThread(r) => who = r,
         NEW u \in Requests
  PROVE  Handling(req'[u]) /\ ~ InThread(u) => loop'[ReplicaOf[u]] = u
<1> SUFFICES ASSUME Handling(req'[u]), ~ InThread(u) PROVE loop'[ReplicaOf[u]] = u
  OBVIOUS
<1>1. /\ req \in [Requests -> Request] /\ loop \in [Replicas -> Requests \cup {NoRequest}]
      /\ ReplicaOf[u] = ReplicaOf[r] /\ ReplicaOf[u] \in Replicas /\ u # NoRequest
  BY CollectionsAssumption DEF TInv, TypeOK, Conditions, OneProcess
<1>2. CASE u = r
  <2>1. req'[r] = q
    BY <1>1 DEF Step
  <2> QED BY <1>1, <1>2, <2>1 DEF Step
<1>3. CASE u # r
  <2>1. req'[u] = req[u]
    BY <1>1, <1>3 DEF Step
  <2>2. loop[ReplicaOf[u]] = u
    BY <2>1 DEF Books
  <2>3. InThread(r)
    BY <1>1, <1>3, <2>2 DEF HasLoop, LoopFree
  <2> QED BY <2>2, <2>3 DEF Step
<1> QED BY <1>2, <1>3

\* Who waits for an answer about a collection bears another's write to it, if he
\* did not find it abandoned.
LEMMA FitsAnother ==
  ASSUME NEW q, NEW x, NEW y, Fits(q, x), ~ Handling(q), q.at \notin {"idle"} \cup Pushing,
         q.op = "recheck" /\ q.order \in KnownIds /\ Reopenable(x) => Reopenable(y)
  PROVE  Fits(q, y)
<1>1. q.at \in {"querying", "replied", "rechecking", "rechecked"}
  BY DEF Handling, Awaits, Pushing
<1>2. CASE q.at \in {"querying", "replied"}
  BY <1>2 DEF Fits
<1>3. CASE q.at \in {"rechecking", "rechecked"}
  <2>1. q.op = "recheck" /\ (q.order \in KnownIds => Reopenable(y))
    BY <1>3 DEF Fits
  <2> QED BY <1>3, <2>1 DEF Fits
<1> QED BY <1>1, <1>2, <1>3

\* Request r writes x over row c and becomes q.
LEMMA BookWrite ==
  ASSUME Conditions, TInv, Books, NEW r \in Requests, HasLoop(r),
         req[r].at \notin {"idle"} \cup Pushing,
         NEW c \in 1..Len(coll), req[r].c = c, NEW x \in Collection, coll' = [coll EXCEPT ![c] = x],
         NEW q \in Request, NEW who, Step(r, q, who), Handling(q) /\ ~ InThread(r) => who = r,
         q.at \notin {"idle"} \cup Pushing => q.c = c /\ Fits(q, x),
         Handling(q) \/ Rests(x),
         \A u \in Requests \ {r} : req[u].op = "recheck" /\ req[u].order = coll[c].order
           /\ req[u].order \in KnownIds /\ Reopenable(coll[c]) => Reopenable(x)
  PROVE  Books'
<1>1. /\ coll \in Seq(Collection) /\ req \in [Requests -> Request]
      /\ Len(coll') = Len(coll) /\ coll'[c] = x
      /\ \A d \in 1..Len(coll) : d # c => coll'[d] = coll[d]
  BY DEF TInv, TypeOK
<1>2. req'[r] = q /\ \A u \in Requests \ {r} : req'[u] = req[u]
  BY <1>1 DEF Step
<1>3. ASSUME NEW u \in Requests \ {r}, Handling(req[u])
      PROVE  req[u].c # c
  <2>1. req[r].op \in Ops[r] /\ RequestOK(req[r], coll, truth)
    BY DEF TInv, Pushing
  <2>2. req[r].op = "review" <=> coll[c].order = 0
    BY <2>1 DEF RequestOK
  <2> QED BY <1>3, <2>1, <2>2, Alone
<1>4. ASSUME NEW u \in Requests, req'[u].at \notin {"idle"} \cup Pushing
      PROVE  Fits(req'[u], coll'[req'[u].c])
  <2>1. CASE u = r
    BY <1>1, <1>2, <1>4, <2>1
  <2>2. CASE u # r
    <3>1. req'[u] = req[u] /\ RequestOK(req[u], coll, truth) /\ Fits(req[u], coll[req[u].c])
      BY <1>2, <1>4, <2>2 DEF TInv, Books
    <3>2. req[u].c \in 1..Len(coll) /\ req[u].order = coll[req[u].c].order
      BY <1>4, <3>1 DEF RequestOK
    <3>3. CASE req[u].c # c
      BY <1>1, <3>1, <3>2, <3>3
    <3>4. CASE req[u].c = c
      <4>1. ~ Handling(req[u])
        BY <1>3, <2>2, <3>4
      <4>2. Fits(req[u], x)
        BY <1>4, <2>2, <3>1, <3>2, <3>4, <4>1, FitsAnother
      <4> QED BY <1>1, <3>1, <3>4, <4>2
    <3> QED BY <3>3, <3>4
  <2> QED BY <2>1, <2>2
<1>5. ASSUME NEW d \in 1..Len(coll'), \A u \in Requests : Handling(req'[u]) => req'[u].c # d
      PROVE  Rests(coll'[d])
  <2>1. CASE d = c
    <3>1. ~ Handling(q)
      <4>1. Handling(q) => q.at \notin {"idle"} \cup Pushing
        BY DEF Handling, Awaits, Pushing
      <4> QED BY <1>2, <1>5, <2>1, <4>1
    <3> QED BY <1>1, <2>1, <3>1
  <2>2. CASE d # c
    <3>1. \A u \in Requests : Handling(req[u]) => req[u].c # d
      BY <1>2, <1>5, <2>2
    <3>2. Rests(coll[d])
      BY <1>1, <3>1 DEF Books
    <3> QED BY <1>1, <2>2, <3>2
  <2> QED BY <2>1, <2>2
<1>6. \A u \in Requests : Handling(req'[u]) /\ ~ InThread(u) => loop'[ReplicaOf[u]] = u
  BY LoopKept
<1> QED BY <1>4, <1>5, <1>6 DEF Books

\* Request r becomes q, and no row changes.
LEMMA BookMove ==
  ASSUME Conditions, TInv, Books, NEW r \in Requests, UNCHANGED coll, NEW q \in Request,
         req' = [req EXCEPT ![r] = q],
         \A u \in Requests : Handling(req'[u]) /\ ~ InThread(u) => loop'[ReplicaOf[u]] = u,
         q.at \notin {"idle"} \cup Pushing => Fits(q, coll[q.c]),
         Handling(req[r]) => \/ Handling(q) /\ q.c = req[r].c
                             \/ Rests(coll[req[r].c])
  PROVE  Books'
<1>1. req \in [Requests -> Request] /\ req'[r] = q /\ \A u \in Requests \ {r} : req'[u] = req[u]
  BY DEF TInv, TypeOK
<1>2. ASSUME NEW u \in Requests, req'[u].at \notin {"idle"} \cup Pushing
      PROVE  Fits(req'[u], coll'[req'[u].c])
  BY <1>1, <1>2 DEF Books
<1>3. ASSUME NEW d \in 1..Len(coll'), \A u \in Requests : Handling(req'[u]) => req'[u].c # d
      PROVE  Rests(coll'[d])
  <2>1. CASE Handling(req[r]) /\ req[r].c = d
    BY <1>1, <1>3, <2>1
  <2>2. CASE ~ (Handling(req[r]) /\ req[r].c = d)
    <3>1. \A u \in Requests : Handling(req[u]) => req[u].c # d
      BY <1>1, <1>3, <2>2
    <3> QED BY <3>1 DEF Books
  <2> QED BY <2>1, <2>2
<1> QED BY <1>2, <1>3 DEF Books

\* A row x is added by a push, which goes on with it or ends.
LEMMA BookAppend ==
  ASSUME Conditions, TInv, Books, NEW r \in Requests, HasLoop(r), req[r].at \in Pushing,
         NEW x \in Collection, coll' = Append(coll, x), NEW q \in Request, NEW who, Step(r, q, who),
         Handling(q) /\ ~ InThread(r) => who = r,
         \/ q.at = "idle" /\ Rests(x)
         \/ q.at = "opentxn" /\ q.c = Len(coll) + 1 /\ Fits(q, x)
  PROVE  Books'
<1>1. /\ coll \in Seq(Collection) /\ req \in [Requests -> Request]
      /\ Len(coll') = Len(coll) + 1 /\ coll'[Len(coll) + 1] = x /\ Len(coll) \in Nat
      /\ \A d \in 1..Len(coll) : coll'[d] = coll[d]
  <2>1. coll \in Seq(Collection) /\ req \in [Requests -> Request]
    BY DEF TInv, TypeOK
  <2> QED BY <2>1, Appended
<1>2. req'[r] = q /\ \A u \in Requests \ {r} : req'[u] = req[u]
  BY <1>1 DEF Step
<1>3. ASSUME NEW u \in Requests, req'[u].at \notin {"idle"} \cup Pushing
      PROVE  Fits(req'[u], coll'[req'[u].c])
  <2>1. CASE u = r
    BY <1>1, <1>2, <1>3, <2>1
  <2>2. CASE u # r
    <3>1. req'[u] = req[u] /\ RequestOK(req[u], coll, truth) /\ Fits(req[u], coll[req[u].c])
      BY <1>2, <1>3, <2>2 DEF TInv, Books
    <3>2. req[u].c \in 1..Len(coll)
      BY <1>3, <3>1 DEF RequestOK
    <3> QED BY <1>1, <3>1, <3>2
  <2> QED BY <2>1, <2>2
<1>4. ASSUME NEW d \in 1..Len(coll'), \A u \in Requests : Handling(req'[u]) => req'[u].c # d
      PROVE  Rests(coll'[d])
  <2>1. CASE d = Len(coll) + 1
    <3>1. q.at = "opentxn" => Handling(q)
      BY DEF Handling, Awaits
    <3> QED BY <1>1, <1>2, <1>4, <2>1, <3>1
  <2>2. CASE d # Len(coll) + 1
    <3>1. ~ Handling(req[r]) /\ d \in 1..Len(coll)
      BY <1>1, <2>2 DEF Handling, Awaits, Pushing
    <3>2. \A u \in Requests : Handling(req[u]) => req[u].c # d
      BY <1>2, <1>4, <3>1
    <3>3. Rests(coll[d])
      BY <3>1, <3>2 DEF Books
    <3> QED BY <1>1, <3>1, <3>3
  <2> QED BY <2>1, <2>2
<1>5. \A u \in Requests : Handling(req'[u]) /\ ~ InThread(u) => loop'[ReplicaOf[u]] = u
  BY LoopKept
<1> QED BY <1>3, <1>4, <1>5 DEF Books
-----------------------------------------------------------------------------
(***************************************************************************)
(* Each action keeps the books.                                            *)
(***************************************************************************)
LEMMA StepMove ==
  ASSUME Conditions, TInv, Books, NEW r \in Requests, HasLoop(r), UNCHANGED coll,
         NEW q \in Request, NEW who, Step(r, q, who), Handling(q) /\ ~ InThread(r) => who = r,
         q.at \notin {"idle"} \cup Pushing => Fits(q, coll[q.c]),
         Handling(req[r]) => \/ Handling(q) /\ q.c = req[r].c
                             \/ Rests(coll[req[r].c])
  PROVE  Books'
<1>1. \A u \in Requests : Handling(req'[u]) /\ ~ InThread(u) => loop'[ReplicaOf[u]] = u
  BY LoopKept
<1> QED BY <1>1, BookMove DEF Step

\* What a request finds when it turns to a collection nobody can be working on.
LEMMA Resting ==
  ASSUME Conditions, TInv, Books, NEW r \in Requests, HasLoop(r), ~ Handling(req[r]),
         NEW op \in Ops[r], NEW c \in 1..Len(coll), op = "review" <=> coll[c].order = 0
  PROVE  Rests(coll[c])
<1>1. \A u \in Requests : Handling(req[u]) => req[u].c # c
  BY Alone
<1> QED BY <1>1 DEF Books

LEMMA AtHand ==
  ASSUME TInv, Books, NEW r \in Requests, req[r].at \notin {"idle"} \cup Pushing
  PROVE  LET c == req[r].c IN
         /\ TypeOK /\ req[r] \in Request /\ req[r].op \in Ops[r] /\ RequestOK(req[r], coll, truth)
         /\ c \in 1..Len(coll) /\ coll[c] \in Collection /\ RowOK(coll[c], truth)
         /\ req[r].order = coll[c].order
         /\ req[r].op = "review" <=> coll[c].order = 0
         /\ Fits(req[r], coll[c])
<1>1. RequestOK(req[r], coll, truth)
  BY DEF TInv
<1>2. req[r].op = "review" <=> coll[req[r].c].order = 0
  BY <1>1 DEF RequestOK
<1>3. Fits(req[r], coll[req[r].c])
  BY DEF Books
<1> QED BY <1>1, <1>2, <1>3, AtWork

LEMMA Idle == NoWork \in Request /\ NoWork.at = "idle" /\ ~ Handling(NoWork)
BY Idles DEF Handling

LEMMA PushAsks ==
  ASSUME TypeOK, NEW r \in Requests, Push(r) \/ LinkPush(r)
  PROVE  \E q \in Request : Step(r, q, NoRequest) /\ q.at \in Pushing
<1>1. CASE Push(r)
  <2> DEFINE q == [NoWork EXCEPT !.at = "ordering", !.op = "push"]
  <2>1. q \in Request /\ q.at = "ordering"
    BY DEF NoWork, Request, Places, Awaits, OpNames
  <2>2. Step(r, q, NoRequest)
    BY <1>1 DEF Push, Await
  <2> HIDE DEF q
  <2> QED BY <2>1, <2>2 DEF Pushing
<1>2. CASE LinkPush(r)
  <2> DEFINE q0 == [NoWork EXCEPT !.op = "linkpush", !.linked = TRUE]
             q1 == [q0 EXCEPT !.at = "ordering"]
             q2(o) == [q0 EXCEPT !.at = "pushing", !.order = o]
  <2>1. q1 \in Request /\ q1.at = "ordering"
    BY DEF NoWork, Request, Places, Awaits, OpNames
  <2>2. ASSUME NEW o \in Nat
        PROVE  q2(o) \in Request /\ q2(o).at = "pushing"
    BY DEF NoWork, Request, Places, Awaits, OpNames
  <2>3. Step(r, q1, NoRequest) \/ \E o \in OpenOrders : Step(r, q2(o), NoRequest)
    BY <1>2 DEF LinkPush, Await
  <2>4. OpenOrders \subseteq Nat
    BY DEF OpenOrders, TypeOK
  <2> HIDE DEF q1, q2
  <2>5. CASE Step(r, q1, NoRequest)
    BY <2>1, <2>5 DEF Pushing
  <2>6. CASE \E o \in OpenOrders : Step(r, q2(o), NoRequest)
    <3>1. PICK o \in Nat : Step(r, q2(o), NoRequest)
      BY <2>4, <2>6
    <3> QED BY <2>2, <3>1 DEF Pushing
  <2> QED BY <2>3, <2>5, <2>6
<1> QED BY <1>1, <1>2

LEMMA PushKeepsBooks ==
  ASSUME Conditions, TInv, Books, NEW r \in Requests, Push(r) \/ LinkPush(r)
  PROVE  Books'
<1>1. /\ TypeOK /\ HasLoop(r) /\ ~ Handling(req[r]) /\ UNCHANGED coll
  <2>1. HasLoop(r) /\ req[r] = NoWork
    BY DEF Push, LinkPush, Dispatch, HasLoop
  <2> QED BY <2>1, Idle DEF Push, LinkPush, rows, TInv
<1>2. \E q \in Request : Step(r, q, NoRequest) /\ q.at \in Pushing
  BY <1>1, PushAsks
<1>3. PICK q \in Request : Step(r, q, NoRequest) /\ q.at \in Pushing
  BY <1>2
<1>4. ~ Handling(q) /\ q.at \in {"idle"} \cup Pushing
  BY <1>3 DEF Handling, Pushing, Awaits
<1> QED BY <1>1, <1>3, <1>4, StepMove

LEMMA OrderAnswerKeepsBooks ==
  ASSUME Conditions, TInv, Books, NEW r \in Requests, NEW s, OrderAnswer(r, s)
  PROVE  Books'
<1>1. /\ TypeOK /\ req[r] \in Request /\ req[r].at = "ordering" /\ s \in {"created", "failed"}
      /\ HasLoop(r) /\ Len(order) + 1 \in Nat \ {0}
  BY DEF TInv, TypeOK, OrderAnswer, Resumes, HasLoop
<1>2. CASE s = "created"
  <2> DEFINE q == [req[r] EXCEPT !.at = "pushing", !.order = Len(order) + 1]
  <2>1. q \in Request /\ q.at = "pushing"
    BY <1>1 DEF Request, Places, Awaits
  <2>2. Step(r, q, NoRequest) /\ UNCHANGED coll
    BY <1>2 DEF OrderAnswer, Await
  <2> HIDE DEF q
  <2>3. ~ Handling(q) /\ ~ Handling(req[r]) /\ q.at \in {"idle"} \cup Pushing
    BY <1>1, <2>1 DEF Handling, Awaits, Pushing
  <2> QED BY <1>1, <2>1, <2>2, <2>3, StepMove
<1>3. CASE s = "failed"
  <2> DEFINE n == Len(order) + 1
             x == NewRow("failed", req[r], n)
  <2>1. Step(r, NoWork, NoRequest) /\ coll' = Append(coll, x)
    BY <1>3 DEF OrderAnswer, Await, Done
  <2>2. /\ x \in Collection /\ x.status = "failed" /\ ~ x.expired
        /\ x.credits = 0 /\ x.debits = 0
    BY <1>1 DEF NewRow, Collection, Request
  <2> HIDE DEF x
  <2>3. Rests(x)
    BY <2>2 DEF Rests, Unposted
  <2>4. req[r].at \in Pushing
    BY <1>1 DEF Pushing
  <2> QED BY <1>1, <2>1, <2>2, <2>3, <2>4, Idle, BookAppend
<1> QED BY <1>1, <1>2, <1>3

LEMMA PushAnswerKeepsBooks ==
  ASSUME Conditions, TInv, Books, NEW r \in Requests, NEW s, PushAnswer(r, s)
  PROVE  Books'
<1> DEFINE x == NewRow(s, req[r], req[r].order)
           q == [req[r] EXCEPT !.at = "opentxn", !.c = Len(coll) + 1]
<1>1. /\ TypeOK /\ req[r] \in Request /\ req[r].at = "pushing" /\ s \in {"processing", "failed"}
      /\ HasLoop(r) /\ Len(coll) + 1 \in Nat
  BY DEF TInv, TypeOK, PushAnswer, Resumes, HasLoop
<1>2. /\ x \in Collection /\ x.status = s /\ ~ x.expired /\ x.credits = 0 /\ x.debits = 0
  BY <1>1 DEF NewRow, Collection, Request
<1>3. q \in Request
  BY <1>1 DEF Request, Places
<1>4. q.at = "opentxn" /\ q.c = Len(coll) + 1
  BY <1>1 DEF Request
<1>5. /\ coll' = Append(coll, x)
      /\ \/ s = "failed" /\ Step(r, NoWork, NoRequest)
         \/ s = "processing" /\ Step(r, q, r)
  BY DEF PushAnswer, Done, Await, Keep
<1> HIDE DEF x, q
<1>6. req[r].at \in Pushing
  BY <1>1 DEF Pushing
<1>7. CASE s = "failed" /\ Step(r, NoWork, NoRequest)
  <2>1. Rests(x)
    BY <1>2, <1>7 DEF Rests, Unposted
  <2> QED BY <1>1, <1>2, <1>5, <1>6, <1>7, <2>1, Idle, BookAppend
<1>8. CASE s = "processing" /\ Step(r, q, r)
  <2>1. Fits(q, x)
    BY <1>2, <1>4, <1>8 DEF Fits, Unposted
  <2> QED BY <1>1, <1>2, <1>3, <1>4, <1>5, <1>6, <1>8, <2>1, BookAppend
<1> QED BY <1>5, <1>7, <1>8

LEMMA OpenTxnKeepsBooks ==
  ASSUME Conditions, TInv, Books, NEW r \in Requests, OpenTxn(r)
  PROVE  Books'
<1> DEFINE c == req[r].c
           x == [coll[c] EXCEPT !.txn = "processing"]
<1>1. req[r].at = "opentxn" /\ req[r].at \notin {"idle"} \cup Pushing /\ HasLoop(r)
  BY DEF OpenTxn, GoesOn, Pushing, HasLoop
<1>2. c \in 1..Len(coll) /\ coll[c] \in Collection /\ Fits(req[r], coll[c])
  BY <1>1, AtHand
<1>3. coll[c].status = "processing" /\ Unposted(coll[c])
  BY <1>1, <1>2 DEF Fits
<1>4. /\ x \in Collection /\ x.status = "processing" /\ x.txn = "processing" /\ Unposted(x)
  BY <1>2, <1>3 DEF Collection, Unposted
<1>5. coll' = [coll EXCEPT ![c] = x] /\ Step(r, NoWork, NoRequest)
  BY DEF OpenTxn, SetTxn, Done, Await
<1> HIDE DEF x
<1>6. Rests(x)
  BY <1>4 DEF Rests
<1>7. ~ Reopenable(coll[c])
  BY <1>3 DEF Reopenable
<1> HIDE DEF c
<1> QED BY <1>1, <1>2, <1>4, <1>5, <1>6, <1>7, Idle, BookWrite DEF c

LEMMA MarkKeepsBooks ==
  ASSUME Conditions, TInv, Books, NEW r \in Requests, Mark(r)
  PROVE  Books'
<1> DEFINE c == req[r].c
           a == req[r].ans
           x == [coll[c] EXCEPT !.status = IF a = "successful" THEN "successful" ELSE "failed",
                                !.expired = IF a = "successful" THEN @ ELSE a = "expired"]
           q == To(r, "marktxn")
<1>1. req[r].at = "mark" /\ req[r].at \notin {"idle"} \cup Pushing /\ HasLoop(r)
  BY DEF Mark, GoesOn, Pushing, HasLoop
<1>2. TypeOK /\ c \in 1..Len(coll) /\ coll[c] \in Collection /\ Fits(req[r], coll[c])
  BY <1>1, AtHand
<1>3. /\ coll[c].status # "failed" /\ Unposted(coll[c]) /\ coll[c].txn # "none"
  BY <1>1, <1>2 DEF Fits
<1>4. /\ x \in Collection /\ x.status = IF a = "successful" THEN "successful" ELSE "failed"
      /\ Unposted(x)
  BY <1>2, <1>3 DEF Collection, Unposted
<1>5. q \in Request /\ q.at = "marktxn" /\ q.c = c /\ q.ans = a
  BY <1>2, ToFacts DEF Places
<1>6. coll' = [coll EXCEPT ![c] = x] /\ Step(r, q, r)
  BY <1>3 DEF Mark, Keep
<1> HIDE DEF x, q
<1>7. Fits(q, x) /\ Handling(q)
  BY <1>4, <1>5 DEF Fits, Handling, Awaits
<1>8. ~ Reopenable(coll[c])
  BY <1>3 DEF Reopenable
<1> HIDE DEF a
<1> QED BY <1>1, <1>2, <1>4, <1>5, <1>6, <1>7, <1>8, BookWrite

LEMMA MarkTxnKeepsBooks ==
  ASSUME Conditions, TInv, Books, NEW r \in Requests, MarkTxn(r)
  PROVE  Books'
<1> DEFINE c == req[r].c
           a == req[r].ans
           x == [coll[c] EXCEPT !.txn = IF a = "successful" THEN "successful" ELSE "failed"]
           q == To(r, "credit")
<1>1. req[r].at = "marktxn" /\ req[r].at \notin {"idle"} \cup Pushing /\ HasLoop(r)
  BY DEF MarkTxn, GoesOn, Pushing, HasLoop
<1>2. TypeOK /\ c \in 1..Len(coll) /\ coll[c] \in Collection /\ Fits(req[r], coll[c])
  BY <1>1, AtHand
<1>3. /\ coll[c].status = IF a = "successful" THEN "successful" ELSE "failed"
      /\ Unposted(coll[c])
  BY <1>1, <1>2 DEF Fits
<1>4. /\ x \in Collection /\ x.status = coll[c].status /\ x.expired = coll[c].expired
      /\ x.txn = IF a = "successful" THEN "successful" ELSE "failed"
      /\ Unposted(x)
  BY <1>2, <1>3 DEF Collection, Unposted
<1>5. q \in Request /\ q.at = "credit" /\ q.c = c
  BY <1>2, ToFacts DEF Places
<1>6. /\ coll' = [coll EXCEPT ![c] = x]
      /\ \/ a = "successful" /\ Step(r, q, r)
         \/ a # "successful" /\ Step(r, NoWork, NoRequest)
  BY DEF MarkTxn, Keep, SetTxn, Done, Await
<1> HIDE DEF x, q
<1>7. CASE a = "successful" /\ Step(r, q, r)
  <2>1. Fits(q, x) /\ Handling(q)
    BY <1>3, <1>4, <1>5, <1>7 DEF Fits, Handling, Awaits
  <2>2. ~ Reopenable(coll[c])
    BY <1>3, <1>7 DEF Reopenable
  <2> HIDE DEF a
  <2> QED BY <1>1, <1>2, <1>4, <1>5, <1>6, <1>7, <2>1, <2>2, BookWrite
<1>8. CASE a # "successful" /\ Step(r, NoWork, NoRequest)
  <2>1. Rests(x) /\ (Reopenable(coll[c]) => Reopenable(x))
    BY <1>3, <1>4, <1>8 DEF Rests, Reopenable
  <2> HIDE DEF a
  <2> QED BY <1>1, <1>2, <1>4, <1>6, <1>8, <2>1, Idle, BookWrite
<1> QED BY <1>6, <1>7, <1>8

LEMMA CreditKeepsBooks ==
  ASSUME Conditions, TInv, Books, NEW r \in Requests, Credit(r)
  PROVE  Books'
<1> DEFINE c == req[r].c
           x == [coll[c] EXCEPT !.credits = @ + 1]
           q == To(r, "link")
<1>1. req[r].at = "credit" /\ req[r].at \notin {"idle"} \cup Pushing /\ HasLoop(r)
  BY DEF Credit, GoesOn, Pushing, HasLoop
<1>2. TypeOK /\ c \in 1..Len(coll) /\ coll[c] \in Collection /\ Fits(req[r], coll[c])
  BY <1>1, AtHand
<1>3. coll[c].status = "successful" /\ coll[c].txn = "successful" /\ Unposted(coll[c])
  BY <1>1, <1>2 DEF Fits
<1>4. x \in Collection /\ x.status = "successful" /\ Posted(x)
  BY <1>2, <1>3 DEF Collection, Unposted, Posted
<1>5. q \in Request /\ q.at = "link" /\ q.c = c
  BY <1>2, ToFacts DEF Places
<1>6. coll' = [coll EXCEPT ![c] = x] /\ Step(r, q, r)
  BY DEF Credit, Keep
<1> HIDE DEF x, q
<1>7. Fits(q, x) /\ Handling(q)
  BY <1>4, <1>5 DEF Fits, Handling, Awaits
<1>8. ~ Reopenable(coll[c])
  BY <1>3 DEF Reopenable
<1> QED BY <1>1, <1>2, <1>4, <1>5, <1>6, <1>7, <1>8, BookWrite

LEMMA LinkAndCloseKeepBooks ==
  ASSUME Conditions, TInv, Books, NEW r \in Requests, MarkLinkPaid(r) \/ CloseOrder(r) \/ ReopenLink(r)
  PROVE  Books'
<1> DEFINE c == req[r].c
           q == To(r, "close")
<1>1. /\ req[r].at \in {"link", "close", "unlink"} /\ req[r].at \notin {"idle"} \cup Pushing
      /\ HasLoop(r) /\ UNCHANGED coll
      /\ \/ Step(r, NoWork, NoRequest)
         \/ req[r].at = "link" /\ Step(r, q, r)
  BY DEF MarkLinkPaid, CloseOrder, ReopenLink, GoesOn, Pushing, HasLoop, Done, Await, Keep
<1>2. TypeOK /\ coll[c] \in Collection /\ Fits(req[r], coll[c])
  BY <1>1, AtHand
<1>3. \/ req[r].at \in {"link", "close"} /\ coll[c].status = "successful" /\ Posted(coll[c])
      \/ req[r].at = "unlink" /\ coll[c].status = "reversed" /\ Undone(coll[c])
  BY <1>1, <1>2 DEF Fits
<1>4. Rests(coll[c])
  BY <1>3 DEF Rests
<1>5. q \in Request /\ q.at = "close" /\ q.c = c
  BY <1>2, ToFacts DEF Places
<1> HIDE DEF q
<1>6. CASE Step(r, NoWork, NoRequest)
  BY <1>1, <1>4, <1>6, Idle, StepMove
<1>7. CASE req[r].at = "link" /\ Step(r, q, r)
  <2>1. Fits(q, coll[c]) /\ Handling(q)
    BY <1>3, <1>5, <1>7 DEF Fits, Handling, Awaits
  <2> QED BY <1>1, <1>5, <1>7, <2>1, StepMove
<1> QED BY <1>1, <1>6, <1>7

LEMMA DebitKeepsBooks ==
  ASSUME Conditions, TInv, Books, NEW r \in Requests, Debit(r)
  PROVE  Books'
<1> DEFINE c == req[r].c
           x == [coll[c] EXCEPT !.debits = @ + 1]
<1>1. req[r].at = "debit" /\ req[r].at \notin {"idle"} \cup Pushing /\ HasLoop(r)
  BY DEF Debit, GoesOn, Pushing, HasLoop
<1>2. TypeOK /\ c \in 1..Len(coll) /\ coll[c] \in Collection /\ Fits(req[r], coll[c])
  BY <1>1, AtHand
<1>3. coll[c].status = "successful" /\ Posted(coll[c])
  BY <1>1, <1>2 DEF Fits
<1>4. CASE coll' = [coll EXCEPT ![c] = x] /\ Keep(r, To(r, "closetxn"))
  <2> DEFINE q == To(r, "closetxn")
  <2>1. q \in Request /\ q.at = "closetxn" /\ q.c = c
    BY <1>2, ToFacts DEF Places
  <2>2. x \in Collection /\ x.status = "successful" /\ x.credits = 1 /\ x.debits = 1
    BY <1>2, <1>3 DEF Collection, Posted
  <2>3. Step(r, q, r) /\ coll' = [coll EXCEPT ![c] = x]
    BY <1>4 DEF Keep
  <2> HIDE DEF x, q
  <2>4. Fits(q, x) /\ Handling(q)
    BY <2>1, <2>2 DEF Fits, Handling, Awaits
  <2>5. ~ Reopenable(coll[c])
    BY <1>3 DEF Reopenable
  <2> QED BY <1>1, <1>2, <2>1, <2>2, <2>3, <2>4, <2>5, BookWrite
<1>5. CASE UNCHANGED coll /\ Keep(r, To(r, "reverse"))
  <2> DEFINE q == To(r, "reverse")
  <2>1. q \in Request /\ q.at = "reverse" /\ q.c = c
    BY <1>2, ToFacts DEF Places
  <2>2. Step(r, q, r)
    BY <1>5 DEF Keep
  <2> HIDE DEF q
  <2>3. Fits(q, coll[c]) /\ Handling(q)
    BY <1>3, <2>1 DEF Fits, Handling, Awaits, Posted, Undone
  <2> QED BY <1>1, <1>5, <2>1, <2>2, <2>3, StepMove
<1> QED BY <1>4, <1>5 DEF Debit

LEMMA CloseTxnKeepsBooks ==
  ASSUME Conditions, TInv, Books, NEW r \in Requests, CloseTxn(r)
  PROVE  Books'
<1> DEFINE c == req[r].c
           x == [coll[c] EXCEPT !.txn = "reversed"]
           q == To(r, "reverse")
<1>1. req[r].at = "closetxn" /\ req[r].at \notin {"idle"} \cup Pushing /\ HasLoop(r)
  BY DEF CloseTxn, GoesOn, Pushing, HasLoop
<1>2. TypeOK /\ c \in 1..Len(coll) /\ coll[c] \in Collection /\ Fits(req[r], coll[c])
  BY <1>1, AtHand
<1>3. coll[c].status = "successful" /\ coll[c].credits = 1 /\ coll[c].debits = 1
  BY <1>1, <1>2 DEF Fits
<1>4. x \in Collection /\ x.status = "successful" /\ Undone(x)
  BY <1>2, <1>3 DEF Collection, Undone
<1>5. q \in Request /\ q.at = "reverse" /\ q.c = c
  BY <1>2, ToFacts DEF Places
<1>6. coll' = [coll EXCEPT ![c] = x] /\ Step(r, q, r)
  BY DEF CloseTxn, SetTxn, Keep
<1> HIDE DEF x, q
<1>7. Fits(q, x) /\ Handling(q)
  BY <1>4, <1>5 DEF Fits, Handling, Awaits
<1>8. ~ Reopenable(coll[c])
  BY <1>3 DEF Reopenable
<1> QED BY <1>1, <1>2, <1>4, <1>5, <1>6, <1>7, <1>8, BookWrite

LEMMA ReverseKeepsBooks ==
  ASSUME Conditions, TInv, Books, NEW r \in Requests, Reverse(r)
  PROVE  Books'
<1> DEFINE c == req[r].c
           x == [coll[c] EXCEPT !.status = "reversed"]
           q == To(r, "unlink")
<1>1. req[r].at = "reverse" /\ req[r].at \notin {"idle"} \cup Pushing /\ HasLoop(r)
  BY DEF Reverse, GoesOn, Pushing, HasLoop
<1>2. TypeOK /\ c \in 1..Len(coll) /\ coll[c] \in Collection /\ Fits(req[r], coll[c])
  BY <1>1, AtHand
<1>3. coll[c].status = "successful" /\ Undone(coll[c])
  BY <1>1, <1>2 DEF Fits
<1>4. x \in Collection /\ x.status = "reversed" /\ Undone(x)
  BY <1>2, <1>3 DEF Collection, Undone
<1>5. q \in Request /\ q.at = "unlink" /\ q.c = c
  BY <1>2, ToFacts DEF Places
<1>6. coll' = [coll EXCEPT ![c] = x] /\ Step(r, q, r)
  BY DEF Reverse, SetStatus, Keep
<1> HIDE DEF x, q
<1>7. Fits(q, x) /\ Handling(q)
  BY <1>4, <1>5 DEF Fits, Handling, Awaits
<1>8. ~ Reopenable(coll[c])
  BY <1>3 DEF Reopenable
<1> QED BY <1>1, <1>2, <1>4, <1>5, <1>6, <1>7, <1>8, BookWrite

\* No recheck is under way for an order whose callbacks reach us and that is
\* found under our own id: there is none.
LEMMA ReopenRowKeepsBooks ==
  ASSUME Conditions, TInv, Books, NEW r \in Requests, ReopenRow(r)
  PROVE  Books'
<1> DEFINE c == req[r].c
           x == [coll[c] EXCEPT !.status = "processing"]
           q == To(r, "reopentxn")
<1>1. req[r].at = "reopen" /\ req[r].at \notin {"idle"} \cup Pushing /\ HasLoop(r)
  BY DEF ReopenRow, GoesOn, Pushing, HasLoop
<1>2. /\ TypeOK /\ c \in 1..Len(coll) /\ coll[c] \in Collection /\ Fits(req[r], coll[c])
      /\ req[r].order = coll[c].order
  BY <1>1, AtHand
<1>3. Reopenable(coll[c]) /\ coll[c].order \in CalledBack
  BY <1>1, <1>2 DEF Fits
<1>4. x \in Collection /\ x.status = "processing" /\ x.txn = "failed" /\ Unposted(x)
  BY <1>2, <1>3 DEF Collection, Reopenable, Unposted
<1>5. q \in Request /\ q.at = "reopentxn" /\ q.c = c
  BY <1>2, ToFacts DEF Places
<1>6. coll' = [coll EXCEPT ![c] = x] /\ Step(r, q, r)
  BY DEF ReopenRow, SetStatus, Keep
<1> HIDE DEF x, q
<1>7. Fits(q, x) /\ Handling(q)
  BY <1>4, <1>5 DEF Fits, Handling, Awaits
<1>8. coll[c].order \notin KnownIds
  BY <1>3 DEF Conditions, RecoveredApart
<1> QED BY <1>1, <1>2, <1>4, <1>5, <1>6, <1>7, <1>8, BookWrite

LEMMA ReopenTxnKeepsBooks ==
  ASSUME Conditions, TInv, Books, NEW r \in Requests, ReopenTxn(r)
  PROVE  Books'
<1> DEFINE c == req[r].c
           x == [coll[c] EXCEPT !.txn = IF @ = "none" THEN "none" ELSE "processing"]
           q == To(r, "querying")
<1>1. req[r].at = "reopentxn" /\ req[r].at \notin {"idle"} \cup Pushing /\ HasLoop(r)
  BY DEF ReopenTxn, GoesOn, Pushing, HasLoop
<1>2. TypeOK /\ c \in 1..Len(coll) /\ coll[c] \in Collection /\ Fits(req[r], coll[c])
  BY <1>1, AtHand
<1>3. coll[c].status = "processing" /\ Unposted(coll[c]) /\ coll[c].txn = "failed"
  BY <1>1, <1>2 DEF Fits
<1>4. x \in Collection /\ x.status = "processing" /\ x.txn = "processing" /\ Unposted(x)
  BY <1>2, <1>3 DEF Collection, Unposted
<1>5. q \in Request /\ q.at = "querying" /\ q.c = c
  BY <1>2, ToFacts DEF Places, Awaits
<1>6. coll' = [coll EXCEPT ![c] = x] /\ Step(r, q, NoRequest)
  BY DEF ReopenTxn, Await
<1> HIDE DEF x, q
<1>7. Fits(q, x) /\ Rests(x) /\ ~ Handling(q)
  BY <1>4, <1>5 DEF Fits, Rests, Handling, Awaits
<1>8. ~ Reopenable(coll[c])
  BY <1>3 DEF Reopenable
<1> QED BY <1>1, <1>2, <1>4, <1>5, <1>6, <1>7, <1>8, BookWrite

\* The recovery writes without a look at the status: it found the collection
\* abandoned, and nobody else can have reopened it during the question.
LEMMA RecheckAnswerKeepsBooks ==
  ASSUME Conditions, TInv, Books, NEW r \in Requests, RecheckAnswer(r)
  PROVE  Books'
<1> DEFINE c == req[r].c
           x == [coll[c] EXCEPT !.status = "processing"]
           q == [req[r] EXCEPT !.at = "querying", !.ans = "none"]
<1>1. /\ req[r].at = "rechecked" /\ req[r].at \notin {"idle"} \cup Pushing /\ HasLoop(r)
      /\ ~ Handling(req[r])
  BY DEF RecheckAnswer, Resumes, Pushing, HasLoop, Handling, Awaits
<1>2. /\ TypeOK /\ req[r] \in Request /\ RequestOK(req[r], coll, truth) /\ req[r].op \in Ops[r]
      /\ c \in 1..Len(coll) /\ coll[c] \in Collection /\ Fits(req[r], coll[c])
  BY <1>1, AtHand
<1>3. CASE req[r].ans = "successful"
  <2>1. req[r].op = "recheck" /\ Reopenable(coll[c])
    BY <1>1, <1>2, <1>3 DEF RequestOK, Fits
  <2>2. x \in Collection /\ x.status = "processing" /\ x.txn = "failed" /\ Unposted(x)
    BY <1>2, <2>1 DEF Collection, Reopenable, Unposted
  <2>3. q \in Request /\ q.at = "querying" /\ q.c = c
    BY <1>2 DEF Request, Places, Awaits
  <2>4. coll' = [coll EXCEPT ![c] = x] /\ Step(r, q, NoRequest)
    BY <1>3 DEF RecheckAnswer, SetStatus, Await
  <2> HIDE DEF x, q
  <2>5. Fits(q, x) /\ Rests(x) /\ ~ Handling(q)
    BY <2>2, <2>3 DEF Fits, Rests, Handling, Awaits
  <2>6. \A u \in Requests \ {r} : req[u].op # "recheck"
    <3> TAKE u \in Requests \ {r}
    <3>1. req[u].op = "recheck" => req[u].op \in Ops[u]
      BY DEF TInv, NoWork, RequestOK
    <3> QED BY <1>2, <2>1, <3>1 DEF Conditions, OneRecoverer
  <2> QED BY <1>1, <1>2, <2>2, <2>3, <2>4, <2>5, <2>6, BookWrite
<1>4. CASE req[r].ans # "successful"
  <2>1. UNCHANGED coll /\ Step(r, NoWork, NoRequest)
    BY <1>4 DEF RecheckAnswer, Done, Await
  <2> QED BY <1>1, <2>1, Idle, StepMove
<1> QED BY <1>3, <1>4

LEMMA CompleteKeepsBooks ==
  ASSUME Conditions, TInv, Books, NEW r \in Requests, Complete(r)
  PROVE  Books'
<1> DEFINE c == req[r].c
<1>1. /\ req[r].at = "replied" /\ req[r].at \notin {"idle"} \cup Pushing /\ HasLoop(r)
      /\ ~ Handling(req[r]) /\ UNCHANGED coll
  BY DEF Complete, Resumes, Pushing, HasLoop, Handling, Awaits, rows
<1>2. /\ TypeOK /\ req[r] \in Request /\ RequestOK(req[r], coll, truth) /\ req[r].op \in Ops[r]
      /\ c \in 1..Len(coll) /\ coll[c] \in Collection
      /\ req[r].op = "review" <=> coll[c].order = 0
  BY <1>1, AtHand
<1>3. req[r].op # "review" /\ Rests(coll[c])
  BY <1>1, <1>2, Resting DEF RequestOK, Crediting
<1>4. CASE /\ Settles(req[r]) \/ GivesUp(req[r])
           /\ \E q \in {To(r, "mark"), [To(r, "mark") EXCEPT !.ans = "expired"]} : Keep(r, q)
  <2>1. PICK q \in {To(r, "mark"), [To(r, "mark") EXCEPT !.ans = "expired"]} : Step(r, q, r)
    BY <1>4 DEF Keep
  <2>2. q \in Request /\ q.at = "mark" /\ q.c = c /\ q.op = req[r].op
    <3> DEFINE p == To(r, "mark")
    <3>1. p \in Request /\ p.at = "mark" /\ p.c = c /\ p.op = req[r].op
      BY <1>2, ToFacts DEF Places
    <3>2. q = p \/ q = [p EXCEPT !.ans = "expired"]
      BY <2>1
    <3> HIDE DEF p
    <3> QED BY <3>1, <3>2 DEF Request
  <2>3. coll[c].status = "processing"
    BY <1>4 DEF Settles, GivesUp, Resolvable
  <2>4. Fits(q, coll[c]) /\ Handling(q)
    BY <1>3, <2>2, <2>3 DEF Fits, Rests, Handling, Awaits
  <2> QED BY <1>1, <2>1, <2>2, <2>4, StepMove
<1>5. CASE Reverses(req[r]) /\ Keep(r, To(r, "debit"))
  <2> DEFINE q == To(r, "debit")
  <2>1. q \in Request /\ q.at = "debit" /\ q.c = c
    BY <1>2, ToFacts DEF Places
  <2>2. Step(r, q, r) /\ coll[c].status = "successful"
    BY <1>5 DEF Keep, Reverses, Reversible
  <2> HIDE DEF q
  <2>3. Fits(q, coll[c]) /\ Handling(q)
    BY <1>3, <2>1, <2>2 DEF Fits, Rests, Handling, Awaits
  <2> QED BY <1>1, <2>1, <2>2, <2>3, StepMove
<1>6. CASE Done(r)
  BY <1>1, <1>6, Idle, StepMove DEF Done, Await
<1> QED BY <1>4, <1>5, <1>6 DEF Complete

\* Requests that begin with a collection.
LEMMA ArrivalFacts ==
  ASSUME Conditions, TInv, Books, NEW r \in Requests, NEW op, Dispatch(r, op),
         NEW c \in 1..Len(coll), op = "review" <=> coll[c].order = 0
  PROVE  /\ TypeOK /\ HasLoop(r) /\ ~ Handling(req[r]) /\ Rests(coll[c])
         /\ RowOK(coll[c], truth)
<1>1. TypeOK /\ HasLoop(r) /\ ~ Handling(req[r]) /\ op \in Ops[r] /\ RowOK(coll[c], truth)
  BY Idle DEF Dispatch, HasLoop, TInv
<1> QED BY <1>1, Resting

LEMMA AskKeepsBooks ==
  ASSUME Conditions, TInv, Books, NEW r \in Requests, NEW op \in OpNames, NEW c \in 1..Len(coll),
         Ask(r, op, c) \/ Recheck(r, c)
  PROVE  Books'
<1> DEFINE q1 == About(op, c, "querying")
           q2 == About("recheck", c, "rechecking")
<1>1. CASE Ask(r, op, c)
  <2>1. /\ Dispatch(r, op) /\ op # "review" /\ coll[c].order # 0 /\ UNCHANGED coll
        /\ Step(r, q1, NoRequest)
    BY <1>1 DEF Ask, Await, rows
  <2>2. TypeOK /\ HasLoop(r) /\ ~ Handling(req[r])
    BY <2>1, ArrivalFacts
  <2>3. q1 \in Request /\ q1.at = "querying" /\ q1.c = c
    BY <2>2, AboutFacts DEF Places, Awaits
  <2> HIDE DEF q1
  <2>4. Fits(q1, coll[c]) /\ ~ Handling(q1)
    BY <2>3 DEF Fits, Handling, Awaits
  <2> QED BY <2>1, <2>2, <2>3, <2>4, StepMove
<1>2. CASE Recheck(r, c)
  <2>1. RowOK(coll[c], truth)
    BY DEF TInv
  <2>2. /\ Dispatch(r, "recheck") /\ coll[c].order # 0 /\ UNCHANGED coll
        /\ coll[c].status = "failed" /\ coll[c].expired /\ Step(r, q2, NoRequest)
    BY <1>2, <2>1 DEF Recheck, Await, rows, Abandoned, RowOK
  <2>3. TypeOK /\ HasLoop(r) /\ ~ Handling(req[r]) /\ Rests(coll[c])
    BY <2>2, ArrivalFacts
  <2>4. q2 \in Request /\ q2.at = "rechecking" /\ q2.c = c /\ q2.op = "recheck"
    BY <2>3, AboutFacts DEF Places, Awaits, OpNames
  <2> HIDE DEF q2
  <2>5. Fits(q2, coll[c]) /\ ~ Handling(q2)
    BY <2>2, <2>3, <2>4 DEF Fits, Handling, Awaits, Rests, Reopenable
  <2> QED BY <2>2, <2>3, <2>4, <2>5, StepMove
<1> QED BY <1>1, <1>2

LEMMA ReviewKeepsBooks ==
  ASSUME Conditions, TInv, Books, NEW r \in Requests, NEW c \in 1..Len(coll), Review(r, c)
  PROVE  Books'
<1> DEFINE p == About("review", c, "mark")
           q == [p EXCEPT !.ans = "successful"]
<1>1. RowOK(coll[c], truth)
  BY DEF TInv
<1>2. /\ Dispatch(r, "review") /\ coll[c].status = "pending_review" /\ coll[c].order = 0
      /\ UNCHANGED coll /\ Step(r, q, r)
  BY <1>1 DEF Review, Keep, rows, RowOK
<1>3. TypeOK /\ HasLoop(r) /\ ~ Handling(req[r]) /\ Rests(coll[c])
  BY <1>2, ArrivalFacts
<1>4. p \in Request /\ p.at = "mark" /\ p.c = c /\ p.op = "review"
  BY <1>3, AboutFacts DEF Places, OpNames
<1> HIDE DEF p
<1>5. q \in Request /\ q.at = "mark" /\ q.c = c /\ q.op = "review"
  BY <1>4 DEF Request, AllAnswers
<1> HIDE DEF q
<1>6. Fits(q, coll[c]) /\ Handling(q)
  BY <1>2, <1>3, <1>5 DEF Fits, Handling, Awaits, Rests
<1> QED BY <1>2, <1>3, <1>5, <1>6, StepMove

LEMMA CallbackKeepsBooks ==
  ASSUME Conditions, TInv, Books, NEW r \in Requests, NEW c \in 1..Len(coll), Callback(r, c)
  PROVE  Books'
<1> DEFINE q1 == About("callback", c, "querying")
           q2 == About("callback", c, "reopen")
<1>1. Dispatch(r, "callback") /\ UNCHANGED coll /\ RowOK(coll[c], truth) /\ TypeOK
  BY DEF Callback, TInv
<1>2. HasLoop(r) /\ ~ Handling(req[r])
  BY <1>1, Idle DEF Dispatch, HasLoop
<1>3. CASE Step(r, q1, NoRequest)
  <2>1. q1 \in Request /\ q1.at = "querying" /\ q1.c = c
    BY <1>1, AboutFacts DEF Places, Awaits, OpNames
  <2> HIDE DEF q1
  <2>2. Fits(q1, coll[c]) /\ ~ Handling(q1)
    BY <2>1 DEF Fits, Handling, Awaits
  <2> QED BY <1>1, <1>2, <1>3, <2>1, <2>2, StepMove
<1>4. CASE LatePayment(c) /\ Step(r, q2, r)
  <2>1. coll[c].status = "failed" /\ coll[c].expired /\ coll[c].order # 0
    BY <1>1, <1>4 DEF LatePayment, Abandoned, RowOK
  <2>2. Rests(coll[c])
    BY <1>1, <2>1, ArrivalFacts
  <2>3. /\ q2 \in Request /\ q2.at = "reopen" /\ q2.c = c /\ q2.order = coll[c].order
    BY <1>1, AboutFacts DEF Places, OpNames
  <2> HIDE DEF q2
  <2>4. coll[c].order \in CalledBack
    BY DEF Callback
  <2>5. Fits(q2, coll[c]) /\ Handling(q2)
    BY <2>1, <2>2, <2>3, <2>4 DEF Fits, Handling, Awaits, Rests, Reopenable
  <2> QED BY <1>1, <1>2, <1>4, <2>3, <2>5, StepMove
<1>5. CASE Done(r)
  BY <1>1, <1>2, <1>5, Idle, StepMove DEF Done, Await
<1> QED BY <1>3, <1>4, <1>5 DEF Callback, Await, Keep

LEMMA ReplyKeepsBooks ==
  ASSUME Conditions, TInv, Books, NEW r \in Requests, NEW a \in AllAnswers, Reply(r, a)
  PROVE  Books'
<1> DEFINE p == IF req[r].at = "querying" THEN "replied" ELSE "rechecked"
           q == [req[r] EXCEPT !.at = p, !.ans = a]
<1>1. /\ req[r].at \in {"querying", "rechecking"} /\ req[r].at \notin {"idle"} \cup Pushing
      /\ ~ Handling(req[r])
  BY DEF Reply, Pushing, Handling, Awaits
<1>2. /\ req[r] \in Request /\ Fits(req[r], coll[req[r].c]) /\ req \in [Requests -> Request]
  BY <1>1, AtHand DEF TInv, TypeOK
<1>3. req' = [req EXCEPT ![r] = q] /\ UNCHANGED <<coll, loop>>
  BY DEF Reply, rows
<1>4. /\ q \in Request /\ q.at = p /\ q.op = req[r].op /\ q.c = req[r].c
      /\ q.order = req[r].order
  BY <1>2 DEF Request, Places, Awaits
<1>5. p \in {"replied", "rechecked"} /\ (p = "rechecked" => req[r].at = "rechecking")
  BY <1>1
<1> HIDE DEF p, q
<1>6. Fits(q, coll[q.c]) /\ ~ Handling(q)
  <2>1. CASE p = "replied"
    BY <1>4, <2>1 DEF Fits, Handling, Awaits
  <2>2. CASE p = "rechecked"
    <3>1. req[r].op = "recheck" /\ (req[r].order \in KnownIds => Reopenable(coll[req[r].c]))
      BY <1>2, <1>5, <2>2 DEF Fits
    <3> QED BY <1>4, <2>2, <3>1 DEF Fits, Handling, Awaits
  <2> QED BY <1>5, <2>1, <2>2
<1>7. \A u \in Requests : Handling(req'[u]) /\ ~ InThread(u) => loop'[ReplicaOf[u]] = u
  BY <1>2, <1>3, <1>6 DEF Books
<1> QED BY <1>1, <1>3, <1>4, <1>6, <1>7, BookMove

LEMMA AbortKeepsBooks ==
  ASSUME Conditions, TInv, Books, NEW r \in Requests, Abort(r)
  PROVE  Books'
<1>1. /\ ~ Handling(req[r]) /\ req' = [req EXCEPT ![r] = NoWork] /\ UNCHANGED coll
      /\ loop' = [p \in Replicas |-> IF loop[p] = r THEN NoRequest ELSE loop[p]]
  BY DEF Abort, Conditions, DiesWaiting, Handling, rows
<1>2. \A u \in Requests : Handling(req'[u]) /\ ~ InThread(u) => loop'[ReplicaOf[u]] = u
  <2> SUFFICES ASSUME NEW u \in Requests, Handling(req'[u]), ~ InThread(u)
               PROVE  loop'[ReplicaOf[u]] = u
    OBVIOUS
  <2>1. u # r /\ req'[u] = req[u]
    BY <1>1, Idle DEF TInv, TypeOK
  <2>2. loop[ReplicaOf[u]] = u /\ ReplicaOf[u] \in Replicas
    BY <2>1, CollectionsAssumption DEF Books
  <2> QED BY <1>1, <2>1, <2>2
<1> QED BY <1>1, <1>2, Idle, BookMove

LEMMA InitBooks == Init => Books
<1> SUFFICES ASSUME Init PROVE Books
  OBVIOUS
<1>1. \A r \in Requests : req[r].at = "idle" /\ ~ Handling(req[r])
  BY Idle DEF Init
<1>2. \A c \in 1..Len(coll) : coll[c] = HeldRow
  BY CollectionsAssumption DEF Init
<1>3. Rests(HeldRow)
  BY DEF HeldRow, Rests, Unposted
<1> QED BY <1>1, <1>2, <1>3 DEF Books

LEMMA NextBooks == Conditions /\ TInv /\ Books /\ [Next]_vars => Books'
<1> SUFFICES ASSUME Conditions, TInv, Books, [Next]_vars PROVE Books'
  OBVIOUS
<1>1. CASE UNCHANGED <<coll, req, loop>>
  BY <1>1 DEF Books
<1>2. CASE UNCHANGED vars
  BY <1>1, <1>2 DEF vars, rows
<1>3. CASE Spend
  BY <1>1, <1>3 DEF Spend
<1>4. ASSUME NEW o \in DOMAIN truth, Pay(o) \/ Cancel(o) \/ GiveBack(o)
      PROVE  Books'
  BY <1>1, <1>4 DEF Pay, Cancel, GiveBack, Customer, rows
<1>5. ASSUME NEW r \in Requests, Push(r) \/ LinkPush(r) \/ AnswerStep(r) \/ Abort(r)
      PROVE  Books'
  BY <1>5, PushKeepsBooks, OrderAnswerKeepsBooks, PushAnswerKeepsBooks, CompleteKeepsBooks,
     RecheckAnswerKeepsBooks, AbortKeepsBooks DEF AnswerStep
<1>6. ASSUME NEW r \in Requests, LocalStep(r)
      PROVE  Books'
  BY <1>6, OpenTxnKeepsBooks, MarkKeepsBooks, MarkTxnKeepsBooks, CreditKeepsBooks,
     LinkAndCloseKeepBooks, DebitKeepsBooks, CloseTxnKeepsBooks, ReverseKeepsBooks,
     ReopenRowKeepsBooks, ReopenTxnKeepsBooks DEF LocalStep
<1>7. ASSUME NEW r \in Requests, NEW a \in AllAnswers, Reply(r, a)
      PROVE  Books'
  BY <1>7, ReplyKeepsBooks
<1>8. ASSUME NEW r \in Requests, NEW c \in DOMAIN coll, Arrival(r, c)
      PROVE  Books'
  <2>1. c \in 1..Len(coll) /\ "sweep" \in OpNames
    BY DEF TInv, TypeOK, OpNames
  <2> QED BY <1>8, <2>1, AskKeepsBooks, CallbackKeepsBooks, ReviewKeepsBooks DEF Arrival
<1> QED BY <1>2, <1>3, <1>4, <1>5, <1>6, <1>7, <1>8 DEF Next

LEMMA BooksMeanStatus == TInv /\ Books => BooksFollowStatus
<1> SUFFICES ASSUME TInv, Books, NEW c \in DOMAIN coll, ~ Busy(c)
             PROVE  LET x == coll[c] IN
                    CASE x.status = "successful" -> x.credits = 1 /\ x.debits = 0 /\ x.txn = "successful"
                      [] x.status = "reversed"   -> x.credits = 1 /\ \/ x.debits = 1 /\ x.txn = "reversed"
                                                                     \/ x.debits = 0 /\ x.txn = "successful"
                      [] OTHER                   -> x.credits = 0 /\ x.debits = 0
  BY DEF BooksFollowStatus
<1>1. c \in 1..Len(coll) /\ coll[c] \in Collection
  BY DEF TInv, TypeOK
<1>2. \A r \in Requests : Handling(req[r]) => req[r].c # c
  BY DEF Busy, Handling
<1>3. Rests(coll[c])
  BY <1>1, <1>2 DEF Books
<1>4. coll[c].status \in {"processing", "failed", "successful", "reversed", "pending_review"}
  BY <1>1 DEF Collection
<1>5. CASE coll[c].status = "successful"
  BY <1>3, <1>5 DEF Rests, Posted
<1>6. CASE coll[c].status = "reversed"
  BY <1>3, <1>6 DEF Rests, Undone
<1>7. CASE coll[c].status \in {"processing", "failed", "pending_review"}
  BY <1>3, <1>7 DEF Rests, Unposted
<1> QED BY <1>4, <1>5, <1>6, <1>7

\* Whenever no handler is between two writes about a collection, its status, its
\* transaction and its postings tell the same story, however pushes, buttons, the
\* sweep, the expiry, the recovery, callbacks and reviews interleave
\* (collections.py resolve_collection, reverse_successful_collection).
THEOREM BooksFollow == ASSUME Conditions PROVE Spec => []BooksFollowStatus
<1>1. Init => TInv /\ Books
  BY InitT, InitBooks
<1>2. TInv /\ Books /\ [Next]_vars => (TInv /\ Books)'
  BY NextT, NextBooks
<1>3. TInv /\ Books => BooksFollowStatus
  BY BooksMeanStatus
<1> QED BY <1>1, <1>2, <1>3, PTL DEF Spec
-----------------------------------------------------------------------------
(***************************************************************************)
(* No more collections than pushes.                                        *)
(***************************************************************************)
\* Every step of a request that is not about to push.
Middle(r) ==
  \/ LocalStep(r) \/ Complete(r) \/ RecheckAnswer(r)
  \/ \E a \in AllAnswers : Reply(r, a)
  \/ \E c \in DOMAIN coll : Arrival(r, c)

LEMMA MiddleFacts ==
  ASSUME TInv, NEW r \in Requests, Middle(r)
  PROVE  /\ req[r].at \notin Pushing /\ req'[r].at \notin Pushing
         /\ \A u \in Requests \ {r} : req'[u] = req[u]
         /\ Len(coll') = Len(coll) /\ UNCHANGED pushes
<1>1. /\ req \in [Requests -> Request] /\ req[r] \in Request /\ coll \in Seq(Collection)
  BY DEF TInv, TypeOK
<1>2. /\ NoWork.at \notin Pushing
      /\ \A p \in Places \ Pushing : To(r, p).at \notin Pushing
  BY <1>1, Idles DEF To, Request, Pushing
<1>3. ASSUME NEW q, NEW who, Step(r, q, who)
      PROVE  req'[r] = q /\ \A u \in Requests \ {r} : req'[u] = req[u]
  BY <1>1, <1>3 DEF Step
<1>4. Places \ Pushing = Places \ {"ordering", "pushing"}
  BY DEF Pushing
<1>5. CASE LocalStep(r)
  <2>1. req[r].at \notin Pushing
    BY <1>5 DEF LocalStep, OpenTxn, Mark, MarkTxn, Credit, MarkLinkPaid, CloseOrder, Debit, CloseTxn,
       Reverse, ReopenLink, ReopenRow, ReopenTxn, GoesOn, Pushing
  <2>2. \E q, who : Step(r, q, who) /\ (q = NoWork \/ \E p \in Places \ Pushing : q = To(r, p))
    <3>1. \E q \in {NoWork} \cup {To(r, p) : p \in {"marktxn", "credit", "link", "close", "closetxn",
                     "reverse", "unlink", "reopentxn", "querying"}} :
            \E who \in {r, NoRequest} : Step(r, q, who)
      BY <1>5 DEF LocalStep, OpenTxn, Mark, MarkTxn, Credit, MarkLinkPaid, CloseOrder, Debit, CloseTxn,
         Reverse, ReopenLink, ReopenRow, ReopenTxn, Done, Await, Keep
    <3>2. {"marktxn", "credit", "link", "close", "closetxn", "reverse", "unlink", "reopentxn",
           "querying"} \subseteq Places \ Pushing
      BY DEF Places, Awaits, Pushing
    <3> QED BY <3>1, <3>2
  <2>3. Len(coll') = Len(coll) /\ UNCHANGED pushes
    BY <1>1, <1>5 DEF LocalStep, OpenTxn, Mark, MarkTxn, Credit, MarkLinkPaid, CloseOrder, Debit,
       CloseTxn, Reverse, ReopenLink, ReopenRow, ReopenTxn, SetStatus, SetTxn, env
  <2> QED BY <1>2, <1>3, <2>1, <2>2, <2>3
<1>6. CASE Complete(r)
  <2>1. req[r].at \notin Pushing /\ UNCHANGED <<coll, pushes>>
    BY <1>6 DEF Complete, Resumes, Pushing, rows, env
  <2>2. [To(r, "mark") EXCEPT !.ans = "expired"].at \notin Pushing
    BY <1>1 DEF To, Request, Pushing
  <2>3. {"mark", "debit"} \subseteq Places \ Pushing
    BY DEF Places, Pushing
  <2>4. \E q, who : Step(r, q, who) /\ q.at \notin Pushing
    BY <1>2, <1>6, <2>2, <2>3 DEF Complete, Done, Await, Keep
  <2> QED BY <1>3, <2>1, <2>4
<1>7. CASE RecheckAnswer(r)
  <2>1. req[r].at \notin Pushing /\ Len(coll') = Len(coll) /\ UNCHANGED pushes
    BY <1>1, <1>7 DEF RecheckAnswer, Resumes, Pushing, SetStatus, env
  <2>2. [req[r] EXCEPT !.at = "querying", !.ans = "none"].at \notin Pushing
    BY <1>1 DEF Request, Pushing
  <2>3. \E q, who : Step(r, q, who) /\ q.at \notin Pushing
    BY <1>2, <1>7, <2>2 DEF RecheckAnswer, Done, Await
  <2> QED BY <1>3, <2>1, <2>3
<1>8. ASSUME NEW a \in AllAnswers, Reply(r, a)
      PROVE  /\ req[r].at \notin Pushing /\ req'[r].at \notin Pushing
             /\ \A u \in Requests \ {r} : req'[u] = req[u]
             /\ Len(coll') = Len(coll) /\ UNCHANGED pushes
  BY <1>1, <1>8 DEF Reply, Pushing, rows, env, Request
<1>9. ASSUME NEW c \in DOMAIN coll, Arrival(r, c)
      PROVE  /\ req[r].at \notin Pushing /\ req'[r].at \notin Pushing
             /\ \A u \in Requests \ {r} : req'[u] = req[u]
             /\ Len(coll') = Len(coll) /\ UNCHANGED pushes
  <2>1. req[r] = NoWork /\ UNCHANGED <<coll, pushes>>
    BY <1>9 DEF Arrival, Ask, Recheck, Callback, Review, Dispatch, rows, env
  <2>2. \A op \in OpNames, p \in {"querying", "rechecking", "reopen", "mark"} :
          /\ About(op, c, p).at \notin Pushing
          /\ [About(op, c, p) EXCEPT !.ans = "successful"].at \notin Pushing
    BY DEF About, NoWork, Pushing
  <2>3. {"recheck", "callback", "review"} \subseteq OpNames
    BY DEF OpNames
  <2>4. \E q, who : Step(r, q, who) /\ q.at \notin Pushing
    <3>1. CASE \E op \in OpNames : Ask(r, op, c)
      BY <2>2, <3>1 DEF Ask, Await
    <3>2. CASE Recheck(r, c)
      BY <2>2, <2>3, <3>2 DEF Recheck, Await
    <3>3. CASE Callback(r, c)
      BY <1>2, <2>2, <2>3, <3>3 DEF Callback, Await, Keep, Done
    <3>4. CASE Review(r, c)
      BY <2>2, <2>3, <3>4 DEF Review, Keep
    <3> QED BY <1>9, <3>1, <3>2, <3>3, <3>4 DEF Arrival
  <2> QED BY <1>2, <1>3, <2>1, <2>4
<1> QED BY <1>5, <1>6, <1>7, <1>8, <1>9 DEF Middle

LEMMA PushBegins ==
  ASSUME TInv, NEW r \in Requests, Push(r) \/ LinkPush(r)
  PROVE  /\ req[r].at = "idle" /\ req'[r].at \in Pushing
         /\ \A u \in Requests \ {r} : req'[u] = req[u]
         /\ pushes < MaxPushes /\ pushes' = pushes + 1 /\ UNCHANGED coll
<1>1. TypeOK /\ req \in [Requests -> Request] /\ req[r].at = "idle"
  <2>1. req[r] = NoWork
    BY DEF Push, LinkPush, Dispatch
  <2> QED BY <2>1, Idles DEF TInv, TypeOK
<1>2. \E q \in Request : Step(r, q, NoRequest) /\ q.at \in Pushing
  BY <1>1, PushAsks
<1>3. pushes < MaxPushes /\ pushes' = pushes + 1 /\ UNCHANGED coll
  BY DEF Push, LinkPush, rows
<1> QED BY <1>1, <1>2, <1>3 DEF Step

LEMMA OrderCounts ==
  ASSUME TInv, NEW r \in Requests, NEW s, OrderAnswer(r, s) \/ PushAnswer(r, s)
  PROVE  /\ req[r].at \in Pushing /\ UNCHANGED pushes
         /\ \A u \in Requests \ {r} : req'[u] = req[u]
         /\ \/ req'[r].at \in Pushing /\ UNCHANGED coll
            \/ req'[r].at \notin Pushing /\ Len(coll') = Len(coll) + 1
<1>1. req \in [Requests -> Request] /\ req[r] \in Request /\ coll \in Seq(Collection)
  BY DEF TInv, TypeOK
<1>2. req[r].at \in Pushing /\ UNCHANGED pushes
  BY DEF OrderAnswer, PushAnswer, Resumes, Pushing, env
<1>3. /\ NoWork.at \notin Pushing
      /\ [req[r] EXCEPT !.at = "pushing", !.order = Len(order) + 1].at \in Pushing
      /\ [req[r] EXCEPT !.at = "opentxn", !.c = Len(coll) + 1].at \notin Pushing
  BY <1>1 DEF NoWork, Request, Pushing
<1>4. \E q, who : /\ Step(r, q, who)
                  /\ \/ q.at \in Pushing /\ UNCHANGED coll
                     \/ q.at \notin Pushing /\ \E x : coll' = Append(coll, x)
  BY <1>3 DEF OrderAnswer, PushAnswer, Done, Await, Keep
<1>5. ASSUME NEW x, coll' = Append(coll, x) PROVE Len(coll') = Len(coll) + 1
  BY <1>1, <1>5
<1> QED BY <1>1, <1>2, <1>4, <1>5 DEF Step

LEMMA NextCounted == TInv /\ Counted /\ [Next]_vars => Counted'
<1> SUFFICES ASSUME TInv, Counted, [Next]_vars PROVE Counted'
  OBVIOUS
<1> DEFINE S == Starting
<1>1. /\ IsFiniteSet(S) /\ Cardinality(S) \in Nat /\ Len(coll) \in Nat /\ pushes \in Nat
      /\ Held \in Nat /\ MaxPushes \in Nat /\ req \in [Requests -> Request]
      /\ pushes <= MaxPushes /\ Len(coll) + Cardinality(S) <= Held + pushes
  BY FS_CardinalityType, CollectionsAssumption DEF Counted, TInv, TypeOK
<1>2. ASSUME UNCHANGED pushes, Len(coll') = Len(coll), Starting' = S PROVE Counted'
  BY <1>1, <1>2 DEF Counted
<1>3. CASE UNCHANGED <<coll, req, pushes>>
  BY <1>2, <1>3 DEF Starting
<1>4. CASE \/ UNCHANGED vars \/ Spend
           \/ \E o \in DOMAIN truth : Pay(o) \/ Cancel(o) \/ GiveBack(o)
  BY <1>3, <1>4 DEF vars, rows, env, Spend, Pay, Cancel, GiveBack, Customer
<1>5. ASSUME NEW r \in Requests, Middle(r) PROVE Counted'
  <2>1. /\ req[r].at \notin Pushing /\ req'[r].at \notin Pushing
        /\ \A u \in Requests \ {r} : req'[u] = req[u]
        /\ Len(coll') = Len(coll) /\ UNCHANGED pushes
    BY <1>5, MiddleFacts
  <2>2. Starting' = S
    BY <2>1 DEF Starting
  <2> QED BY <1>2, <2>1, <2>2
<1>6. ASSUME NEW r \in Requests, Push(r) \/ LinkPush(r) PROVE Counted'
  <2>1. /\ req[r].at = "idle" /\ req'[r].at \in Pushing
        /\ \A u \in Requests \ {r} : req'[u] = req[u]
        /\ pushes < MaxPushes /\ pushes' = pushes + 1 /\ UNCHANGED coll
    BY <1>6, PushBegins
  <2>2. Starting' = S \cup {r} /\ r \notin S
    BY <2>1 DEF Starting, Pushing
  <2>3. IsFiniteSet(Starting') /\ Cardinality(Starting') = Cardinality(S) + 1
    BY <1>1, <2>2, FS_AddElement
  <2> HIDE DEF S
  <2> QED BY <1>1, <2>1, <2>3 DEF Counted
<1>7. ASSUME NEW r \in Requests, NEW s, OrderAnswer(r, s) \/ PushAnswer(r, s) PROVE Counted'
  <2>1. /\ req[r].at \in Pushing /\ UNCHANGED pushes
        /\ \A u \in Requests \ {r} : req'[u] = req[u]
        /\ \/ req'[r].at \in Pushing /\ UNCHANGED coll
           \/ req'[r].at \notin Pushing /\ Len(coll') = Len(coll) + 1
    BY <1>7, OrderCounts
  <2>2. CASE req'[r].at \in Pushing /\ UNCHANGED coll
    <3>1. Starting' = S
      BY <2>1, <2>2 DEF Starting
    <3> QED BY <1>2, <2>1, <2>2, <3>1
  <2>3. CASE req'[r].at \notin Pushing /\ Len(coll') = Len(coll) + 1
    <3>1. Starting' = S \ {r} /\ r \in S
      BY <2>1, <2>3 DEF Starting
    <3>2. IsFiniteSet(Starting') /\ Cardinality(Starting') = Cardinality(S) - 1
      BY <1>1, <3>1, FS_RemoveElement
    <3> HIDE DEF S
    <3> QED BY <1>1, <2>1, <2>3, <3>2 DEF Counted
  <2> QED BY <2>1, <2>2, <2>3
<1>8. ASSUME NEW r \in Requests, Abort(r) PROVE Counted'
  <2>1. req' = [req EXCEPT ![r] = NoWork] /\ UNCHANGED <<coll, pushes>> /\ NoWork.at \notin Pushing
    BY <1>8, Idles DEF Abort, rows, Pushing
  <2>2. Starting' = S \ {r}
    BY <1>1, <2>1 DEF Starting
  <2>3. IsFiniteSet(Starting') /\ Cardinality(Starting') <= Cardinality(S)
        /\ Cardinality(Starting') \in Nat
    <3>1. CASE r \in S
      <4>1. IsFiniteSet(Starting') /\ Cardinality(Starting') = Cardinality(S) - 1
        BY <1>1, <2>2, <3>1, FS_RemoveElement
      <4>2. Cardinality(Starting') \in Nat
        BY <4>1, FS_CardinalityType
      <4> HIDE DEF S
      <4> QED BY <1>1, <4>1, <4>2
    <3>2. CASE r \notin S
      <4>1. Starting' = S
        BY <2>2, <3>2
      <4> HIDE DEF S
      <4> QED BY <1>1, <4>1
    <3> QED BY <3>1, <3>2
  <2> HIDE DEF S
  <2> QED BY <1>1, <2>1, <2>3 DEF Counted
<1> QED BY <1>4, <1>5, <1>6, <1>7, <1>8 DEF Next, AnswerStep, Middle

LEMMA InitCounted == Init => Counted
<1> SUFFICES ASSUME Init PROVE Counted
  OBVIOUS
<1>1. Starting = {} /\ Len(coll) = Held /\ pushes = 0
  BY Idles, CollectionsAssumption DEF Init, Starting, Pushing
<1> QED BY <1>1, FS_EmptySet, CollectionsAssumption DEF Counted
-----------------------------------------------------------------------------
(***************************************************************************)
(* Collections implements Receipts.                                        *)
(***************************************************************************)
Numbers == 1..(Held + MaxPushes)

\* The merchant owes what was given back and could not be debited.
Owing(c) == \/ coll[c].status = "reversed"
            \/ \E r \in Requests : req[r].c = c /\ req[r].at = "reverse"

PlaceOf(x, owing) ==
  CASE x.credits = 0                    -> "open"
    [] x.credits = 1 /\ x.debits = 1    -> "returned"
    [] x.credits = 1 /\ x.debits = 0    -> IF owing THEN "owed" ELSE "credited"
    [] OTHER                            -> "lost"

LEMMA Placed ==
  ASSUME NEW c
  PROVE  /\ c \in DOMAIN coll => Place(c) = PlaceOf(coll[c], Owing(c))
         /\ c \in DOMAIN coll' => Place(c)' = PlaceOf(coll'[c], Owing(c)')
         /\ c \notin DOMAIN coll => Place(c) = "open"
         /\ c \notin DOMAIN coll' => Place(c)' = "open"
<1>1. c \in DOMAIN coll => Place(c) = PlaceOf(coll[c], Owing(c))
  BY DEF Place, PlaceOf, Owing
<1>2. c \in DOMAIN coll' => Place(c)' = PlaceOf(coll'[c], Owing(c)')
  BY DEF Place, PlaceOf, Owing
<1>3. c \notin DOMAIN coll => Place(c) = "open"
  BY DEF Place
<1>4. c \notin DOMAIN coll' => Place(c)' = "open"
  BY DEF Place
<1> QED BY <1>1, <1>2, <1>3, <1>4

LEMMA PlaceOfFacts ==
  ASSUME NEW x, NEW owing \in BOOLEAN
  PROVE  /\ x.credits = 0 => PlaceOf(x, owing) = "open"
         /\ x.credits = 1 /\ x.debits = 1 => PlaceOf(x, owing) = "returned"
         /\ x.credits = 1 /\ x.debits = 0 =>
              PlaceOf(x, owing) = IF owing THEN "owed" ELSE "credited"
BY DEF PlaceOf

LEMMA PlaceStays ==
  ASSUME NEW c \in DOMAIN coll, c \in DOMAIN coll',
         coll'[c].credits = coll[c].credits, coll'[c].debits = coll[c].debits,
         \/ coll[c].credits = 0
         \/ coll[c].debits = 1 /\ coll[c].credits = 1
         \/ Owing(c)' <=> Owing(c)
  PROVE  Place(c)' = Place(c)
<1>1. Owing(c) \in BOOLEAN /\ Owing(c)' \in BOOLEAN
  BY DEF Owing
<1> DEFINE x == coll[c]  y == coll'[c]  p == Owing(c)  q == Owing(c)'
<1>2. Place(c) = PlaceOf(x, p) /\ Place(c)' = PlaceOf(y, q)
  BY Placed
<1>3. /\ p \in BOOLEAN /\ q \in BOOLEAN /\ y.credits = x.credits /\ y.debits = x.debits
      /\ x.credits = 0 \/ (x.debits = 1 /\ x.credits = 1) \/ (q <=> p)
  BY <1>1
<1> HIDE DEF x, y, p, q
<1>4. PlaceOf(x, p) = PlaceOf(y, q)
  <2>1. CASE x.credits = 0
    BY <1>3, <2>1, PlaceOfFacts
  <2>2. CASE x.debits = 1 /\ x.credits = 1
    BY <1>3, <2>2, PlaceOfFacts
  <2>3. CASE q <=> p
    <3>1. p = q
      BY <1>3, <2>3
    <3> QED BY <1>3, <3>1 DEF PlaceOf
  <2> QED BY <1>3, <2>1, <2>2, <2>3
<1> QED BY <1>2, <1>4

\* Rows are within the range of Receipts.
LEMMA InRange ==
  ASSUME TInv, Counted
  PROVE  1..Len(coll) \subseteq Numbers /\ Len(coll) \in Nat /\ DOMAIN coll = 1..Len(coll)
<1>1. Cardinality(Starting) \in Nat
  BY FS_CardinalityType DEF Counted
<1>2. Len(coll) \in Nat /\ pushes \in Nat /\ coll \in Seq(Collection)
  BY DEF TInv, TypeOK
<1> QED BY <1>1, <1>2, CollectionsAssumption DEF Counted, Numbers

\* What Selcom's record means for Receipts only grows.
Grown == /\ Len(coll) <= Len(coll') /\ Forward(truth, truth')
         /\ \A c \in 1..Len(coll) : coll'[c].order = coll[c].order

LEMMA LearnStep ==
  ASSUME TInv, Counted, TInv', Counted', Grown, UNCHANGED wallet,
         \A c \in 1..Len(coll) : Place(c)' = Place(c),
         \A c \in 1..Len(coll') : c > Len(coll) => coll'[c].credits = 0
  PROVE  R!Learn
<1>1. /\ Len(coll) \in Nat /\ DOMAIN coll = 1..Len(coll)
      /\ Len(coll') \in Nat /\ DOMAIN coll' = 1..Len(coll')
      /\ truth \in Seq(Truth) /\ truth' \in Seq(Truth)
  <2>1. Len(coll') \in Nat /\ DOMAIN coll' = 1..Len(coll') /\ truth' \in Seq(Truth)
    BY DEF TInv, TypeOK
  <2> QED BY <2>1, InRange DEF TInv, TypeOK
<1>2. ASSUME NEW c \in Numbers PROVE Place(c)' = Place(c)
  <2>0. c \in Nat
    BY CollectionsAssumption DEF Numbers
  <2>1. CASE c \in 1..Len(coll)
    BY <2>1
  <2>2. CASE c \notin 1..Len(coll) /\ c \in 1..Len(coll')
    <3>1. coll'[c].credits = 0 /\ Owing(c)' \in BOOLEAN
      BY <1>1, <2>0, <2>2 DEF Owing
    <3>2. Place(c)' = "open"
      BY <1>1, <2>2, <3>1, Placed, PlaceOfFacts
    <3> QED BY <1>1, <2>2, <3>2, Placed
  <2>3. CASE c \notin 1..Len(coll) /\ c \notin 1..Len(coll')
    BY <1>1, <2>3, Placed
  <2> QED BY <2>1, <2>2, <2>3
<1>3. ASSUME NEW c \in Numbers
      PROVE  /\ TruthIs(c, {"paid", "returned"}) => TruthIs(c, {"paid", "returned"})'
             /\ TruthIs(c, {"returned"}) => TruthIs(c, {"returned"})'
  <2>1. CASE c \in DOMAIN coll
    <3>1. coll[c].order \in 0..Len(truth) /\ coll'[c].order = coll[c].order /\ c \in DOMAIN coll'
      BY <1>1, <2>1 DEF TInv, RowOK, Grown
    <3>2. CASE coll[c].order = 0
      BY <3>1, <3>2 DEF TruthIs
    <3>3. CASE coll[c].order # 0
      <4> DEFINE o == coll[c].order
      <4>1. o \in 1..Len(truth)
        BY <1>1, <3>1, <3>3
      <4> HIDE DEF o
      <4>2. /\ truth[o] \in {"paid", "returned"} => truth'[o] \in {"paid", "returned"}
            /\ truth[o] \in {"cancelled", "returned"} => truth'[o] \in {"cancelled", "returned"}
        BY <4>1 DEF Grown, Forward
      <4>3. truth[o] = "returned" => truth'[o] = "returned"
        BY <4>2
      <4> QED BY <3>1, <3>3, <4>2, <4>3 DEF TruthIs, o
    <3> QED BY <3>2, <3>3
  <2>2. CASE c \notin DOMAIN coll
    BY <2>2 DEF TruthIs
  <2> QED BY <2>1, <2>2
<1>4. \A c \in Numbers : TruthIs(c, {"returned"})' => TruthIs(c, {"paid", "returned"})'
  BY DEF TruthIs
<1> QED BY <1>2, <1>3, <1>4 DEF R!Learn, Numbers

\* A request that handles c is alone with it, so only it can owe.
LEMMA OwesAlone ==
  ASSUME Conditions, TInv, Books, NEW r \in Requests, HasLoop(r),
         req[r].at \notin {"idle"} \cup Pushing
  PROVE  \A u \in Requests \ {r} : ~ (req[u].c = req[r].c /\ req[u].at = "reverse")
<1> SUFFICES ASSUME NEW u \in Requests \ {r}, req[u].at = "reverse"
             PROVE  req[u].c # req[r].c
  OBVIOUS
<1>1. /\ req[r].op \in Ops[r] /\ req[r].c \in 1..Len(coll)
      /\ req[r].op = "review" <=> coll[req[r].c].order = 0
  BY AtHand
<1>2. Handling(req[u])
  BY DEF Handling, Awaits
<1> QED BY <1>1, <1>2, Alone

\* Request r writes over row c, and moves no money.
LEMMA WriteLearns ==
  ASSUME Conditions, TInv, Books, Counted, TInv', Counted', NEW r \in Requests,
         NEW c \in 1..Len(coll), req[r].c = c, NEW x \in Collection,
         coll' = [coll EXCEPT ![c] = x], NEW q, NEW who, Step(r, q, who),
         q.c = c \/ q.at # "reverse", UNCHANGED <<truth, wallet>>,
         x.order = coll[c].order, x.credits = coll[c].credits, x.debits = coll[c].debits,
         \/ x.credits = 0
         \/ x.debits = 1 /\ x.credits = 1
         \/ Owing(c) /\ x.status = "reversed"
  PROVE  R!Learn
<1>1. /\ coll \in Seq(Collection) /\ req \in [Requests -> Request] /\ truth \in Seq(Truth)
      /\ Len(coll') = Len(coll) /\ coll'[c] = x /\ Len(coll) \in Nat
      /\ \A d \in 1..Len(coll) : d # c => coll'[d] = coll[d]
      /\ DOMAIN coll = 1..Len(coll) /\ DOMAIN coll' = 1..Len(coll)
  BY DEF TInv, TypeOK
<1>2. req'[r] = q /\ \A u \in Requests \ {r} : req'[u] = req[u]
  BY <1>1 DEF Step
<1>3. Grown
  <2>1. Forward(truth, truth')
    BY SameTruth DEF TInv
  <2> QED BY <1>1, <2>1 DEF Grown
<1>4. ASSUME NEW d \in 1..Len(coll) PROVE Place(d)' = Place(d)
  <2>1. CASE d = c
    <3>1. \/ coll[c].credits = 0
          \/ coll[c].debits = 1 /\ coll[c].credits = 1
          \/ Owing(c)' <=> Owing(c)
      BY <1>1 DEF Owing
    <3> QED BY <1>1, <2>1, <3>1, PlaceStays
  <2>2. CASE d # c
    <3>1. \A u \in Requests : req[u].c = d /\ req[u].at = "reverse"
                              <=> req'[u].c = d /\ req'[u].at = "reverse"
      BY <1>2, <2>2
    <3>2. coll'[d] = coll[d]
      BY <1>1, <2>2
    <3>3. Owing(d)' <=> Owing(d)
      BY <3>1, <3>2 DEF Owing
    <3> QED BY <1>1, <3>2, <3>3, PlaceStays
  <2> QED BY <2>1, <2>2
<1> QED BY <1>1, <1>3, <1>4, LearnStep

\* Nobody begins or ends to write a reversal off, and no row changes.
LEMMA QuietLearns ==
  ASSUME TInv, Counted, TInv', Counted', UNCHANGED <<coll, wallet>>, Forward(truth, truth'),
         \A u \in Requests : \/ req'[u] = req[u]
                             \/ req'[u].at # "reverse" /\ req[u].at # "reverse"
  PROVE  R!Learn
<1>1. Len(coll) \in Nat /\ DOMAIN coll = 1..Len(coll)
  BY InRange
<1>2. Grown
  BY <1>1 DEF Grown
<1>3. ASSUME NEW d \in 1..Len(coll) PROVE Place(d)' = Place(d)
  <2>1. \A u \in Requests : req[u].c = d /\ req[u].at = "reverse"
                            <=> req'[u].c = d /\ req'[u].at = "reverse"
    OBVIOUS
  <2>2. Owing(d)' <=> Owing(d)
    BY <2>1 DEF Owing
  <2> QED BY <1>1, <2>2, PlaceStays
<1> QED BY <1>1, <1>2, <1>3, LearnStep

PaidNow == {c \in 1..(Held + MaxPushes) : TruthIs(c, {"paid", "returned"})}
BackNow == {c \in 1..(Held + MaxPushes) : TruthIs(c, {"returned"})}

\* Request r moves the money of c, and of no other collection.
LEMMA MoveStep ==
  ASSUME TInv, Counted, NEW r \in Requests, NEW c \in 1..Len(coll), req[r].c = c,
         NEW x \in Collection, coll' = [coll EXCEPT ![c] = x], x.order = coll[c].order,
         NEW q, NEW who, Step(r, q, who), q.c = c, UNCHANGED truth,
         NEW from, NEW to, Place(c) = from, Place(c)' = to
  PROVE  /\ c \in Numbers /\ R!Move(c, from, to)
         /\ UNCHANGED <<PaidNow, BackNow>>
<1>1. /\ coll \in Seq(Collection) /\ req \in [Requests -> Request]
      /\ Len(coll') = Len(coll) /\ coll'[c] = x /\ Len(coll) \in Nat
      /\ \A d \in 1..Len(coll) : d # c => coll'[d] = coll[d]
      /\ DOMAIN coll = 1..Len(coll) /\ DOMAIN coll' = 1..Len(coll)
  BY DEF TInv, TypeOK
<1>2. req'[r] = q /\ \A u \in Requests \ {r} : req'[u] = req[u]
  BY <1>1 DEF Step
<1>3. ASSUME NEW d \in Numbers, d # c PROVE Place(d)' = Place(d)
  <2>1. CASE d \in 1..Len(coll)
    <3>1. \A u \in Requests : req[u].c = d /\ req[u].at = "reverse"
                              <=> req'[u].c = d /\ req'[u].at = "reverse"
      BY <1>2, <1>3
    <3>2. coll'[d] = coll[d]
      BY <1>1, <1>3, <2>1
    <3>3. Owing(d)' <=> Owing(d)
      BY <3>1, <3>2 DEF Owing
    <3> QED BY <1>1, <2>1, <3>2, <3>3, PlaceStays
  <2>2. CASE d \notin 1..Len(coll)
    BY <1>1, <2>2, Placed
  <2> QED BY <2>1, <2>2
<1>4. c \in Numbers
  BY InRange
<1>5. \A d : coll'[d].order = coll[d].order \/ d \notin DOMAIN coll
  BY <1>1
<1>6. UNCHANGED <<PaidNow, BackNow>>
  BY <1>1, <1>5 DEF PaidNow, BackNow, TruthIs
<1>7. R!Move(c, from, to)
  BY <1>3, <1>4 DEF R!Move, Numbers
<1> QED BY <1>4, <1>6, <1>7

LEMMA CreditCredits ==
  ASSUME Conditions, TInv, Books, Counted, NEW r \in Requests, Credit(r)
  PROVE  R!Next
<1>0. PICK c : c = req[r].c
  OBVIOUS
<1> DEFINE x == [coll[c] EXCEPT !.credits = @ + 1]
           q == To(r, "link")
<1>1. req[r].at = "credit" /\ req[r].at \notin {"idle"} \cup Pushing /\ HasLoop(r)
  BY <1>0 DEF Credit, GoesOn, Pushing, HasLoop
<1>2. /\ TypeOK /\ c \in 1..Len(coll) /\ coll[c] \in Collection /\ Fits(req[r], coll[c])
      /\ RequestOK(req[r], coll, truth) /\ req[r].order = coll[c].order
  BY <1>0, <1>1, AtHand
<1>3. coll[c].status = "successful" /\ Unposted(coll[c]) /\ WasPaid(truth, coll[c].order)
  BY <1>1, <1>2 DEF Fits, RequestOK
<1>4. /\ x \in Collection /\ x.status = "successful" /\ x.credits = 1 /\ x.debits = 0
      /\ x.order = coll[c].order
  BY <1>2, <1>3 DEF Collection, Unposted
<1>5. q.at = "link" /\ q.c = c
  BY <1>0, <1>2, ToFacts DEF Places
<1>6. /\ coll' = [coll EXCEPT ![c] = x] /\ Step(r, q, r) /\ UNCHANGED truth
      /\ wallet' = wallet + 1
  BY <1>0 DEF Credit, Keep, env
<1> HIDE DEF x, q
<1>7. /\ coll'[c] = x /\ c \in DOMAIN coll /\ c \in DOMAIN coll'
      /\ req'[r] = q /\ \A u \in Requests \ {r} : req'[u] = req[u]
  BY <1>0, <1>2, <1>6 DEF TypeOK, Step
<1>8. ~ Owing(c)'
  <2>1. \A u \in Requests \ {r} : ~ (req[u].c = c /\ req[u].at = "reverse")
    BY <1>0, <1>1, OwesAlone
  <2> QED BY <1>0, <1>4, <1>5, <1>7, <2>1 DEF Owing
<1> DEFINE p == Owing(c)  p1 == Owing(c)'
<1>9. Place(c) = PlaceOf(coll[c], p) /\ Place(c)' = PlaceOf(x, p1)
  BY <1>7, Placed
<1>10. p \in BOOLEAN /\ p1 = FALSE
  BY <1>0, <1>8 DEF Owing
<1> HIDE DEF p, p1
<1>11. Place(c) = "open" /\ Place(c)' = "credited"
  BY <1>3, <1>4, <1>9, <1>10, PlaceOfFacts DEF Unposted
<1>12. c \in PaidNow
  <2>1. TruthIs(c, {"paid", "returned"})
    BY <1>3, <1>7 DEF TruthIs, WasPaid
  <2> QED BY <1>2, <2>1, InRange DEF PaidNow, Numbers
<1>13. c \in Numbers /\ R!Move(c, "open", "credited") /\ UNCHANGED <<PaidNow, BackNow>>
  <2> QED BY <1>0, <1>2, <1>4, <1>5, <1>6, <1>11, MoveStep
<1>14. R!Credit(c)
  BY <1>0, <1>6, <1>12, <1>13 DEF R!Credit, PaidNow, BackNow
<1> QED BY <1>13, <1>14 DEF R!Next, Numbers

LEMMA DebitTakesBack ==
  ASSUME Conditions, TInv, Books, Counted, NEW r \in Requests, Debit(r)
  PROVE  R!Next
<1>0. PICK c : c = req[r].c
  OBVIOUS
<1>1. req[r].at = "debit" /\ req[r].at \notin {"idle"} \cup Pushing /\ HasLoop(r)
  BY <1>0 DEF Debit, GoesOn, Pushing, HasLoop
<1>2. /\ TypeOK /\ c \in 1..Len(coll) /\ coll[c] \in Collection /\ Fits(req[r], coll[c])
      /\ RequestOK(req[r], coll, truth) /\ req[r].order = coll[c].order
      /\ RowOK(coll[c], truth)
  BY <1>0, <1>1, AtHand
<1>3. /\ coll[c].status = "successful" /\ Posted(coll[c]) /\ Refused(truth, coll[c].order)
      /\ WasPaid(truth, coll[c].order)
  BY <1>1, <1>2 DEF Fits, RequestOK, Reversing, RowOK, Posted
<1>4. c \in BackNow
  <2>1. truth[coll[c].order] = "returned" /\ coll[c].order # 0
    BY <1>3 DEF Refused, WasPaid
  <2>2. TruthIs(c, {"returned"})
    BY <1>2, <2>1 DEF TruthIs, TypeOK
  <2> QED BY <1>2, <2>2, InRange DEF BackNow, Numbers
<1>5. Place(c) = "credited"
  <2>1. ~ Owing(c)
    BY <1>0, <1>1, <1>3, OwesAlone DEF Owing
  <2>2. c \in DOMAIN coll
    BY <1>2 DEF TypeOK
  <2> DEFINE p == Owing(c)
  <2>3. Place(c) = PlaceOf(coll[c], p) /\ p = FALSE
    BY <1>0, <2>1, <2>2, Placed DEF Owing
  <2> HIDE DEF p
  <2> QED BY <1>3, <2>3, PlaceOfFacts DEF Posted
<1>6. CASE /\ wallet > 0 /\ wallet' = wallet - 1
           /\ coll' = [coll EXCEPT ![c].debits = @ + 1] /\ Keep(r, To(r, "closetxn"))
  <2> DEFINE x == [coll[c] EXCEPT !.debits = @ + 1]
             q == To(r, "closetxn")
  <2>1. x \in Collection /\ x.credits = 1 /\ x.debits = 1 /\ x.order = coll[c].order
    BY <1>2, <1>3 DEF Collection, Posted
  <2>2. q.c = c
    BY <1>0, <1>2, ToFacts DEF Places
  <2>3. coll' = [coll EXCEPT ![c] = x] /\ Step(r, q, r) /\ UNCHANGED truth
    BY <1>0, <1>6 DEF Debit, Keep, env
  <2> HIDE DEF x, q
  <2>4. coll'[c] = x /\ c \in DOMAIN coll'
    BY <1>2, <2>3 DEF TypeOK
  <2> DEFINE p == Owing(c)'
  <2>5. Place(c)' = PlaceOf(x, p) /\ p \in BOOLEAN
    BY <1>0, <2>4, Placed DEF Owing
  <2> HIDE DEF p
  <2>6. Place(c)' = "returned"
    BY <2>1, <2>5, PlaceOfFacts
  <2>7. c \in Numbers /\ R!Move(c, "credited", "returned") /\ UNCHANGED <<PaidNow, BackNow>>
    <3> QED BY <1>0, <1>2, <1>5, <2>1, <2>2, <2>3, <2>6, MoveStep
  <2>8. R!ClawBack(c)
    BY <1>4, <1>6, <2>7 DEF R!ClawBack, PaidNow, BackNow
  <2> QED BY <2>7, <2>8 DEF R!Next, Numbers
<1>7. CASE wallet = 0 /\ UNCHANGED <<coll, wallet>> /\ Keep(r, To(r, "reverse"))
  <2> DEFINE x == coll[c]
             q == To(r, "reverse")
  <2>1. x \in Collection /\ x.credits = 1 /\ x.debits = 0 /\ x.order = coll[c].order
    BY <1>2, <1>3 DEF Posted
  <2>2. q.at = "reverse" /\ q.c = c
    BY <1>0, <1>2, ToFacts DEF Places
  <2>3. coll' = [coll EXCEPT ![c] = x] /\ Step(r, q, r) /\ UNCHANGED truth
    BY <1>0, <1>2, <1>7 DEF Debit, Keep, env, TypeOK
  <2> HIDE DEF q
  <2>4. coll'[c] = x /\ c \in DOMAIN coll' /\ req'[r] = q
    BY <1>0, <1>2, <1>7, <2>3 DEF TypeOK, Step
  <2>5. Owing(c)'
    BY <1>0, <2>2, <2>4 DEF Owing
  <2> HIDE DEF x
  <2> DEFINE p == Owing(c)'
  <2>6. Place(c)' = PlaceOf(x, p) /\ p = TRUE
    BY <1>0, <2>4, <2>5, Placed DEF Owing
  <2> HIDE DEF p
  <2>7. Place(c)' = "owed"
    BY <2>1, <2>6, PlaceOfFacts
  <2>8. c \in Numbers /\ R!Move(c, "credited", "owed") /\ UNCHANGED <<PaidNow, BackNow>>
    <3> QED BY <1>0, <1>2, <1>5, <2>1, <2>2, <2>3, <2>7, MoveStep
  <2>9. R!WriteOff(c)
    BY <1>4, <1>7, <2>8 DEF R!WriteOff, PaidNow, BackNow
  <2> QED BY <2>8, <2>9 DEF R!Next, Numbers
<1>8. coll[c].txn # "none"
  BY <1>3 DEF Posted
<1> QED BY <1>0, <1>6, <1>7, <1>8 DEF Debit

\* Steps of a request that changes no row and neither begins nor ends a reversal.
LEMMA QuietRequest ==
  ASSUME TInv, Counted, TInv', Counted', NEW r \in Requests, UNCHANGED <<coll, wallet>>,
         Forward(truth, truth'), \A u \in Requests \ {r} : req'[u] = req[u],
         req[r].at # "reverse", req'[r].at # "reverse"
  PROVE  R!Learn
<1>1. \A u \in Requests : \/ req'[u] = req[u]
                          \/ req'[u].at # "reverse" /\ req[u].at # "reverse"
  OBVIOUS
<1> QED BY <1>1, QuietLearns

LEMMA BecomesQuiet ==
  ASSUME TInv, Counted, TInv', Counted', NEW r \in Requests, UNCHANGED <<coll, wallet, truth>>,
         req[r].at # "reverse", NEW q, NEW who, Step(r, q, who), q.at # "reverse"
  PROVE  R!Learn
<1>1. req'[r] = q /\ \A u \in Requests \ {r} : req'[u] = req[u]
  BY DEF TInv, TypeOK, Step
<1>2. Forward(truth, truth')
  BY SameTruth DEF TInv
<1> QED BY <1>1, <1>2, QuietRequest

LEMMA QuietPush ==
  ASSUME TInv, Counted, TInv', Counted', NEW r \in Requests, Push(r) \/ LinkPush(r)
  PROVE  R!Learn
<1>1. /\ req[r].at = "idle" /\ req'[r].at \in Pushing
      /\ \A u \in Requests \ {r} : req'[u] = req[u]
  BY PushBegins
<1>2. UNCHANGED <<coll, wallet, truth>> /\ Forward(truth, truth')
  BY SameTruth DEF Push, LinkPush, rows, TInv
<1>3. req'[r].at # "reverse"
  BY <1>1 DEF Pushing
<1> QED BY <1>1, <1>2, <1>3, QuietRequest

LEMMA QuietEnds ==
  ASSUME TInv, Counted, TInv', Counted', NEW r \in Requests,
         MarkLinkPaid(r) \/ CloseOrder(r) \/ ReopenLink(r) \/ Complete(r)
  PROVE  R!Learn
<1>1. TypeOK /\ UNCHANGED <<coll, wallet, truth>> /\ req[r].at # "reverse" /\ req[r] \in Request
  BY DEF TInv, TypeOK, MarkLinkPaid, CloseOrder, ReopenLink, Complete, GoesOn, Resumes, rows, env
<1>2. /\ NoWork.at # "reverse" /\ [To(r, "mark") EXCEPT !.ans = "expired"].at # "reverse"
      /\ \A p \in {"close", "mark", "debit"} : To(r, p).at # "reverse"
  BY <1>1, Idles DEF To, Request
<1>3. \E q, who : Step(r, q, who) /\ q.at # "reverse"
  BY <1>2 DEF MarkLinkPaid, CloseOrder, ReopenLink, Complete, Done, Await, Keep
<1> QED BY <1>1, <1>3, BecomesQuiet

LEMMA QuietReply ==
  ASSUME TInv, Counted, TInv', Counted', NEW r \in Requests, NEW a \in AllAnswers, Reply(r, a)
  PROVE  R!Learn
<1>1. UNCHANGED <<coll, wallet, truth>> /\ Forward(truth, truth') /\ req[r].at # "reverse"
  BY SameTruth DEF Reply, rows, env, TInv
<1>2. /\ \A u \in Requests \ {r} : req'[u] = req[u]
      /\ req'[r].at # "reverse"
  <2>1. req \in [Requests -> Request] /\ req[r] \in Request
    BY DEF TInv, TypeOK
  <2> QED BY <2>1 DEF Reply, Request
<1> QED BY <1>1, <1>2, QuietRequest

LEMMA QuietArrival ==
  ASSUME TInv, Counted, TInv', Counted', NEW r \in Requests, NEW c \in DOMAIN coll, Arrival(r, c)
  PROVE  R!Learn
<1>1. /\ req[r] = NoWork /\ UNCHANGED <<coll, wallet, truth>>
  BY DEF Arrival, Ask, Recheck, Callback, Review, Dispatch, rows, env
<1>2. req[r].at # "reverse" /\ NoWork.at # "reverse"
  BY <1>1, Idles
<1>3. \A op \in OpNames, p \in {"querying", "rechecking", "reopen", "mark"} :
        /\ About(op, c, p).at # "reverse"
        /\ [About(op, c, p) EXCEPT !.ans = "successful"].at # "reverse"
  BY DEF About, NoWork
<1>4. {"recheck", "callback", "review"} \subseteq OpNames
  BY DEF OpNames
<1>5. \E q, who : Step(r, q, who) /\ q.at # "reverse"
  <2>1. CASE \E op \in OpNames : Ask(r, op, c)
    BY <1>3, <2>1 DEF Ask, Await
  <2>2. CASE Recheck(r, c)
    BY <1>3, <1>4, <2>2 DEF Recheck, Await
  <2>3. CASE Callback(r, c)
    BY <1>2, <1>3, <1>4, <2>3 DEF Callback, Await, Keep, Done
  <2>4. CASE Review(r, c)
    BY <1>3, <1>4, <2>4 DEF Review, Keep
  <2> QED BY <2>1, <2>2, <2>3, <2>4 DEF Arrival
<1> QED BY <1>1, <1>2, <1>5, BecomesQuiet

LEMMA QuietAbort ==
  ASSUME Conditions, TInv, Counted, TInv', Counted', NEW r \in Requests, Abort(r)
  PROVE  R!Learn
<1>1. UNCHANGED <<coll, wallet, truth>> /\ Forward(truth, truth') /\ req[r].at # "reverse"
  <2>1. req[r].at \in Awaits
    BY DEF Abort, Conditions, DiesWaiting
  <2> QED BY <2>1, SameTruth DEF Abort, rows, TInv, Awaits
<1>2. req'[r] = NoWork /\ \A u \in Requests \ {r} : req'[u] = req[u]
  BY DEF Abort, TInv, TypeOK
<1> QED BY <1>1, <1>2, Idles, QuietRequest

LEMMA CustomerLearns ==
  ASSUME TInv, Counted, TInv', Counted', NEW o \in DOMAIN truth,
         Pay(o) \/ Cancel(o) \/ GiveBack(o)
  PROVE  R!Learn
<1>1. UNCHANGED <<coll, wallet, req>>
  BY DEF Pay, Cancel, GiveBack, Customer, rows
<1>2. truth \in Seq(Truth) /\ o \in 1..Len(truth)
  BY DEF TInv, TypeOK
<1>3. PICK t : /\ truth' = [truth EXCEPT ![o] = t]
               /\ truth[o] \in {"paid", "returned"} => t \in {"paid", "returned"}
               /\ truth[o] \in {"cancelled", "returned"} => t \in {"cancelled", "returned"}
  BY DEF Pay, Cancel, GiveBack, Customer
<1>4. /\ Len(truth') = Len(truth) /\ truth'[o] = t
      /\ \A p \in 1..Len(truth) : p # o => truth'[p] = truth[p]
  BY <1>2, <1>3
<1>5. Forward(truth, truth')
  BY <1>2, <1>3, <1>4 DEF Forward
<1> QED BY <1>1, <1>5, QuietLearns

\* An answer to the push makes a new row, not yet credited.
LEMMA NewRowLearns ==
  ASSUME TInv, Counted, TInv', Counted', NEW r \in Requests, NEW x \in Collection, x.credits = 0,
         coll' = Append(coll, x), UNCHANGED wallet, Forward(truth, truth'),
         req[r].at \in Pushing, NEW q, NEW who, Step(r, q, who), q.at # "reverse"
  PROVE  R!Learn
<1>1. /\ coll \in Seq(Collection) /\ Len(coll) \in Nat /\ req \in [Requests -> Request]
      /\ Len(coll') = Len(coll) + 1 /\ coll'[Len(coll) + 1] = x
      /\ \A d \in 1..Len(coll) : coll'[d] = coll[d]
  <2>1. coll \in Seq(Collection) /\ req \in [Requests -> Request]
    BY DEF TInv, TypeOK
  <2> QED BY <2>1, Appended
<1>2. DOMAIN coll = 1..Len(coll) /\ DOMAIN coll' = 1..Len(coll')
  BY DEF TInv, TypeOK
<1>3. req'[r] = q /\ \A u \in Requests \ {r} : req'[u] = req[u]
  BY <1>1 DEF Step
<1>4. Grown
  BY <1>1 DEF Grown
<1>5. ASSUME NEW d \in 1..Len(coll) PROVE Place(d)' = Place(d)
  <2>1. coll'[d] = coll[d] /\ d \in DOMAIN coll /\ d \in DOMAIN coll'
    BY <1>1, <1>2
  <2>2. req[r].at # "reverse"
    BY DEF Pushing
  <2>3. \A u \in Requests : req[u].c = d /\ req[u].at = "reverse"
                            <=> req'[u].c = d /\ req'[u].at = "reverse"
    BY <1>3, <2>2
  <2>4. Owing(d)' <=> Owing(d)
    BY <2>1, <2>3 DEF Owing
  <2> QED BY <2>1, <2>4, PlaceStays
<1>6. \A d \in 1..Len(coll') : d > Len(coll) => coll'[d].credits = 0
  BY <1>1
<1> QED BY <1>4, <1>5, <1>6, LearnStep

LEMMA OrderAnswerLearns ==
  ASSUME TInv, Counted, TInv', Counted', NEW r \in Requests, NEW s, OrderAnswer(r, s)
  PROVE  R!Learn
<1> DEFINE x == NewRow("failed", req[r], Len(order) + 1)
           q == [req[r] EXCEPT !.at = "pushing", !.order = Len(order) + 1]
<1>1. /\ req[r] \in Request /\ req[r].at = "ordering" /\ req[r].at \in Pushing
      /\ truth \in Seq(Truth) /\ Len(order) + 1 \in Nat /\ UNCHANGED wallet
  BY DEF TInv, TypeOK, OrderAnswer, Resumes, Pushing
<1>2. Forward(truth, truth')
  <2>1. \E t \in Truth : truth' = Append(truth, t)
    BY DEF OrderAnswer, Truth
  <2>2. PICK t \in Truth : truth' = Append(truth, t)
    BY <2>1
  <2>3. Len(truth) \in Nat /\ Len(truth') = Len(truth) + 1
        /\ \A o \in 1..Len(truth) : truth'[o] = truth[o]
    BY <1>1, <2>2, Appended
  <2> QED BY <2>3 DEF Forward
<1>3. CASE s = "created"
  <2>1. q.at = "pushing"
    BY <1>1 DEF Request
  <2>2. UNCHANGED coll /\ Step(r, q, NoRequest)
    BY <1>3 DEF OrderAnswer, Await
  <2> HIDE DEF q
  <2>3. req'[r] = q /\ \A u \in Requests \ {r} : req'[u] = req[u]
    BY <2>2 DEF TInv, TypeOK, Step
  <2> QED BY <1>1, <1>2, <2>1, <2>2, <2>3, QuietRequest
<1>4. CASE s = "failed"
  <2>1. x \in Collection /\ x.credits = 0
    BY <1>1 DEF NewRow, Collection, Request
  <2>2. coll' = Append(coll, x) /\ Step(r, NoWork, NoRequest)
    BY <1>4 DEF OrderAnswer, Done, Await
  <2> HIDE DEF x
  <2> QED BY <1>1, <1>2, <2>1, <2>2, Idles, NewRowLearns
<1> QED BY <1>3, <1>4 DEF OrderAnswer

LEMMA PushAnswerLearns ==
  ASSUME TInv, Counted, TInv', Counted', NEW r \in Requests, NEW s, PushAnswer(r, s)
  PROVE  R!Learn
<1> DEFINE x == NewRow(s, req[r], req[r].order)
           q == [req[r] EXCEPT !.at = "opentxn", !.c = Len(coll) + 1]
<1>1. /\ req[r] \in Request /\ req[r].at \in Pushing /\ s \in {"processing", "failed"}
      /\ UNCHANGED wallet /\ Forward(truth, truth')
  <2>1. UNCHANGED <<wallet, truth>>
    BY DEF PushAnswer, env
  <2> QED BY <2>1, SameTruth DEF TInv, TypeOK, PushAnswer, Resumes, Pushing
<1>2. x \in Collection /\ x.credits = 0
  BY <1>1 DEF NewRow, Collection, Request
<1>3. q.at # "reverse" /\ NoWork.at # "reverse"
  BY <1>1, Idles DEF Request
<1>4. /\ coll' = Append(coll, x)
      /\ Step(r, NoWork, NoRequest) \/ Step(r, q, r)
  BY DEF PushAnswer, Done, Await, Keep
<1> HIDE DEF x, q
<1> QED BY <1>1, <1>2, <1>3, <1>4, NewRowLearns

\* Row c becomes s, e, t where it was.
Rewrites(c, s, e, t) ==
  coll' = [coll EXCEPT ![c] = [@ EXCEPT !.status = s, !.expired = e, !.txn = t]]

\* A request at work writes its own row, whose money stays where it is.
LEMMA WritesLearn ==
  ASSUME Conditions, TInv, Books, Counted, TInv', Counted', NEW r \in Requests,
         req[r].at \notin {"idle"} \cup Pushing,
         NEW s \in {"processing", "failed", "successful", "reversed"}, NEW e \in BOOLEAN,
         NEW t \in {"none", "processing", "failed", "successful", "reversed"},
         NEW c, req[r].c = c,
         Rewrites(c, s, e, t),
         NEW q, NEW who, Step(r, q, who), q.c = c \/ q.at # "reverse", UNCHANGED <<truth, wallet>>,
         \/ coll[c].credits = 0
         \/ coll[c].debits = 1 /\ coll[c].credits = 1
         \/ req[r].at = "reverse" /\ s = "reversed"
  PROVE  R!Learn
<1> DEFINE x == [coll[c] EXCEPT !.status = s, !.expired = e, !.txn = t]
<1>1. c \in 1..Len(coll) /\ coll[c] \in Collection
  BY AtHand
<1>2. /\ x \in Collection /\ x.order = coll[c].order /\ x.credits = coll[c].credits
      /\ x.debits = coll[c].debits /\ x.status = s
  BY <1>1 DEF Collection
<1>3. coll' = [coll EXCEPT ![c] = x]
  BY DEF Rewrites
<1> HIDE DEF x
<1>4. \/ x.credits = 0
      \/ x.debits = 1 /\ x.credits = 1
      \/ Owing(c) /\ x.status = "reversed"
  BY <1>2 DEF Owing
<1> QED BY <1>1, <1>2, <1>3, <1>4, WriteLearns

LEMMA WriteSplit ==
  ASSUME TypeOK, NEW c \in 1..Len(coll)
  PROVE  LET x == coll[c] IN
             /\ x.status \in {"processing", "failed", "successful", "reversed", "pending_review"}
             /\ x.expired \in BOOLEAN
             /\ x.txn \in {"none", "processing", "failed", "successful", "reversed"}
             /\ \A s : SetStatus(c, s) => Rewrites(c, s, x.expired, x.txn)
<1> DEFINE x == coll[c]
<1>1. x \in Collection /\ coll \in Seq(Collection)
  BY DEF TypeOK
<1>2. \A s : [x EXCEPT !.status = s] = [x EXCEPT !.status = s, !.expired = x.expired, !.txn = x.txn]
  BY <1>1 DEF Collection
<1>4. ASSUME NEW s, SetStatus(c, s)
      PROVE  Rewrites(c, s, x.expired, x.txn)
  BY <1>2, <1>4 DEF SetStatus, Rewrites
<1>6. /\ x.status \in {"processing", "failed", "successful", "reversed", "pending_review"}
      /\ x.expired \in BOOLEAN
      /\ x.txn \in {"none", "processing", "failed", "successful", "reversed"}
  BY <1>1 DEF Collection
<1> QED BY <1>4, <1>6

LEMMA TxnLearns ==
  ASSUME Conditions, TInv, Books, Counted, TInv', Counted', NEW r \in Requests,
         req[r].at \notin {"idle"} \cup Pushing, NEW c, req[r].c = c,
         NEW t \in {"processing", "failed", "successful", "reversed", "none"}, SetTxn(c, t),
         coll[c].status # "pending_review",
         NEW q, NEW who, Step(r, q, who), q.c = c \/ q.at # "reverse", UNCHANGED <<truth, wallet>>,
         \/ coll[c].credits = 0
         \/ coll[c].debits = 1 /\ coll[c].credits = 1
  PROVE  R!Learn
<1> DEFINE s == coll[c].status
           e == coll[c].expired
<1>1. TypeOK /\ c \in 1..Len(coll)
  BY AtHand
<1>2. s \in {"processing", "failed", "successful", "reversed"} /\ e \in BOOLEAN
  BY <1>1, WriteSplit
<1>3. [coll[c] EXCEPT !.txn = t] = [coll[c] EXCEPT !.status = s, !.expired = e, !.txn = t]
  <2>1. coll[c] \in Collection
    BY <1>1 DEF TypeOK
  <2> QED BY <2>1 DEF Collection
<1>4. Rewrites(c, s, e, t)
  BY <1>3 DEF SetTxn, Rewrites
<1>5. t \in {"none", "processing", "failed", "successful", "reversed"}
  OBVIOUS
<1> HIDE DEF s, e
<1> QED BY <1>2, <1>4, <1>5, WritesLearn

LEMMA OpeningLearns ==
  ASSUME Conditions, TInv, Books, Counted, TInv', Counted', NEW r \in Requests,
         OpenTxn(r) \/ ReopenRow(r) \/ ReopenTxn(r)
  PROVE  R!Learn
<1>0. PICK c : c = req[r].c
  OBVIOUS
<1>1. /\ req[r].at \notin {"idle"} \cup Pushing
      /\ req[r].at \in {"opentxn", "reopen", "reopentxn"} /\ UNCHANGED <<truth, wallet>>
  BY DEF OpenTxn, ReopenRow, ReopenTxn, GoesOn, Pushing, env
<1>2. /\ TypeOK /\ c \in 1..Len(coll) /\ coll[c] \in Collection /\ Fits(req[r], coll[c])
  BY <1>0, <1>1, AtHand
<1>3. coll[c].credits = 0 /\ (req[r].at # "reopen" => coll[c].status = "processing")
  BY <1>1, <1>2 DEF Fits, Unposted, Reopenable
<1>4. /\ NoWork.at # "reverse" /\ To(r, "reopentxn").at # "reverse" /\ To(r, "querying").at # "reverse"
  BY <1>2, Idles, ToFacts DEF Places, Awaits
<1>5. CASE OpenTxn(r)
  <2>1. SetTxn(c, "processing") /\ Step(r, NoWork, NoRequest) /\ coll[c].status = "processing"
    BY <1>0, <1>3, <1>5 DEF OpenTxn, GoesOn, Done, Await
  <2> QED BY <1>0, <1>1, <1>3, <1>4, <2>1, TxnLearns
<1>6. CASE ReopenRow(r)
  <2>1. SetStatus(c, "processing") /\ Step(r, To(r, "reopentxn"), r)
    BY <1>0, <1>6 DEF ReopenRow, Keep
  <2> QED BY <1>0, <1>1, <1>2, <1>3, <1>4, <2>1, WriteSplit, WritesLearn
<1>7. CASE ReopenTxn(r)
  <2> DEFINE t == IF coll[c].txn = "none" THEN "none" ELSE "processing"
  <2>1. SetTxn(c, t) /\ Step(r, To(r, "querying"), NoRequest) /\ coll[c].status = "processing"
    BY <1>0, <1>3, <1>7 DEF ReopenTxn, GoesOn, Await, SetTxn
  <2>2. t \in {"none", "processing", "failed", "successful", "reversed"}
    OBVIOUS
  <2> HIDE DEF t
  <2> QED BY <1>0, <1>1, <1>3, <1>4, <2>1, <2>2, TxnLearns
<1> QED BY <1>5, <1>6, <1>7

LEMMA MarksLearn ==
  ASSUME Conditions, TInv, Books, Counted, TInv', Counted', NEW r \in Requests,
         Mark(r) \/ MarkTxn(r)
  PROVE  R!Learn
<1>0. PICK c : c = req[r].c
  OBVIOUS
<1>1. /\ req[r].at \notin {"idle"} \cup Pushing
      /\ req[r].at \in {"mark", "marktxn"} /\ UNCHANGED <<truth, wallet>>
  BY DEF Mark, MarkTxn, GoesOn, Pushing, env
<1>2. /\ TypeOK /\ c \in 1..Len(coll) /\ coll[c] \in Collection /\ Fits(req[r], coll[c])
  BY <1>0, <1>1, AtHand
<1>3. coll[c].credits = 0 /\ (req[r].at = "marktxn" => coll[c].status \in {"successful", "failed"})
  BY <1>1, <1>2 DEF Fits, Unposted
<1>4. /\ NoWork.at # "reverse" /\ To(r, "marktxn").at # "reverse" /\ To(r, "credit").at # "reverse"
  BY <1>2, Idles, ToFacts DEF Places
<1>5. CASE Mark(r)
  <2> DEFINE s == IF req[r].ans = "successful" THEN "successful" ELSE "failed"
             e == IF req[r].ans = "successful" THEN coll[c].expired ELSE req[r].ans = "expired"
             t == coll[c].txn
  <2>1. /\ s \in {"processing", "failed", "successful", "reversed"} /\ e \in BOOLEAN
        /\ t \in {"none", "processing", "failed", "successful", "reversed"}
    BY <1>2 DEF Collection
  <2>2. Rewrites(c, s, e, t)
    <3>1. coll' = [coll EXCEPT ![c] = [@ EXCEPT !.status = s, !.expired = e]]
      BY <1>0, <1>2, <1>5 DEF Mark, TypeOK, Collection
    <3>2. [coll[c] EXCEPT !.status = s, !.expired = e] = [coll[c] EXCEPT !.status = s, !.expired = e, !.txn = t]
      BY <1>2 DEF Collection
    <3> QED BY <3>1, <3>2 DEF Rewrites
  <2>3. Step(r, NoWork, NoRequest) \/ Step(r, To(r, "marktxn"), r)
    BY <1>5 DEF Mark, Done, Await, Keep
  <2> HIDE DEF s, e, t
  <2> QED BY <1>0, <1>1, <1>3, <1>4, <2>1, <2>2, <2>3, WritesLearn
<1>6. CASE MarkTxn(r)
  <2>1. coll[c].status \in {"successful", "failed"}
    BY <1>3, <1>6 DEF MarkTxn, GoesOn
  <2>2. \E t \in {"successful", "failed"} : SetTxn(c, t)
    BY <1>0, <1>6 DEF MarkTxn
  <2>3. PICK t \in {"successful", "failed"} : SetTxn(c, t)
    BY <2>2
  <2>4. Step(r, NoWork, NoRequest) \/ Step(r, To(r, "credit"), r)
    BY <1>6 DEF MarkTxn, Done, Await, Keep
  <2> QED BY <1>0, <1>1, <1>3, <1>4, <2>1, <2>3, <2>4, TxnLearns
<1> QED BY <1>5, <1>6

\* The reversal is written after the debit, or where the merchant owes it already.
LEMMA ReversalLearns ==
  ASSUME Conditions, TInv, Books, Counted, TInv', Counted', NEW r \in Requests,
         CloseTxn(r) \/ Reverse(r)
  PROVE  R!Learn
<1>0. PICK c : c = req[r].c
  OBVIOUS
<1>1. /\ req[r].at \notin {"idle"} \cup Pushing
      /\ req[r].at \in {"closetxn", "reverse"} /\ UNCHANGED <<truth, wallet>>
  BY DEF CloseTxn, Reverse, GoesOn, Pushing, env
<1>2. /\ TypeOK /\ c \in 1..Len(coll) /\ coll[c] \in Collection /\ Fits(req[r], coll[c])
  BY <1>0, <1>1, AtHand
<1>3. CASE CloseTxn(r)
  <2>1. coll[c].status = "successful" /\ coll[c].credits = 1 /\ coll[c].debits = 1
    BY <1>2, <1>3 DEF Fits, CloseTxn, GoesOn
  <2>2. SetTxn(c, "reversed") /\ Step(r, To(r, "reverse"), r) /\ To(r, "reverse").c = c
    BY <1>0, <1>2, <1>3, ToFacts DEF CloseTxn, Keep, Places
  <2> QED BY <1>0, <1>1, <2>1, <2>2, TxnLearns
<1>4. CASE Reverse(r)
  <2>1. /\ SetStatus(c, "reversed") /\ Step(r, To(r, "unlink"), r) /\ To(r, "unlink").c = c
        /\ req[r].at = "reverse"
    BY <1>0, <1>2, <1>4, ToFacts DEF Reverse, GoesOn, Keep, Places
  <2> QED BY <1>0, <1>1, <1>2, <2>1, WriteSplit, WritesLearn
<1> QED BY <1>3, <1>4

LEMMA RecheckAnswerLearns ==
  ASSUME Conditions, TInv, Books, Counted, TInv', Counted', NEW r \in Requests, RecheckAnswer(r)
  PROVE  R!Learn
<1>0. PICK c : c = req[r].c
  OBVIOUS
<1> DEFINE q == [req[r] EXCEPT !.at = "querying", !.ans = "none"]
<1>1. /\ req[r].at \notin {"idle"} \cup Pushing /\ req[r].at = "rechecked"
      /\ UNCHANGED <<truth, wallet>>
  BY DEF RecheckAnswer, Resumes, Pushing, env
<1>2. /\ TypeOK /\ c \in 1..Len(coll) /\ coll[c] \in Collection /\ Fits(req[r], coll[c])
      /\ RequestOK(req[r], coll, truth)
  BY <1>0, <1>1, AtHand
<1>3. q.at # "reverse" /\ NoWork.at # "reverse"
  BY Idles DEF TInv, TypeOK, Request
<1>4. CASE req[r].ans = "successful"
  <2>1. coll[c].credits = 0
    BY <1>1, <1>2, <1>4 DEF RequestOK, Fits, Reopenable, Unposted
  <2>2. SetStatus(c, "processing") /\ Step(r, q, NoRequest)
    BY <1>0, <1>4 DEF RecheckAnswer, Await
  <2> HIDE DEF q
  <2> QED BY <1>0, <1>1, <1>2, <1>3, <2>1, <2>2, WriteSplit, WritesLearn
<1>5. CASE req[r].ans # "successful"
  <2>1. UNCHANGED coll /\ Step(r, NoWork, NoRequest)
    BY <1>5 DEF RecheckAnswer, Done, Await
  <2> QED BY <1>1, <1>3, <2>1, BecomesQuiet
<1> QED BY <1>4, <1>5
-----------------------------------------------------------------------------
LEMMA SpendWithdraws == ASSUME TInv, Spend PROVE R!Withdraw
<1>1. UNCHANGED <<coll, req, truth>> /\ wallet > 0 /\ wallet' = wallet - 1
  BY DEF Spend, env
<1>2. \A c : Place(c)' = Place(c)
  BY <1>1 DEF Place
<1> QED BY <1>1, <1>2 DEF R!Withdraw, TruthIs

LEMMA StepsImplement ==
  ASSUME Conditions, TInv, Books, Counted, TInv', Counted', Next
  PROVE  R!Next
<1>1. ASSUME NEW r \in Requests, LocalStep(r) PROVE R!Next
  BY <1>1, CreditCredits, DebitTakesBack, OpeningLearns, MarksLearn, ReversalLearns, QuietEnds
     DEF LocalStep, R!Next
<1>2. ASSUME NEW r \in Requests, AnswerStep(r) PROVE R!Learn
  BY <1>2, OrderAnswerLearns, PushAnswerLearns, RecheckAnswerLearns, QuietEnds DEF AnswerStep
<1>3. ASSUME NEW r \in Requests, Push(r) \/ LinkPush(r) \/ Abort(r) PROVE R!Learn
  BY <1>3, QuietPush, QuietAbort
<1>4. ASSUME NEW r \in Requests, NEW a \in AllAnswers, Reply(r, a) PROVE R!Learn
  BY <1>4, QuietReply
<1>5. ASSUME NEW r \in Requests, NEW c \in DOMAIN coll, Arrival(r, c) PROVE R!Learn
  BY <1>5, QuietArrival
<1>6. ASSUME NEW o \in DOMAIN truth, Pay(o) \/ Cancel(o) \/ GiveBack(o) PROVE R!Learn
  BY <1>6, CustomerLearns
<1>7. CASE Spend
  BY <1>7, SpendWithdraws DEF R!Next
<1>8. R!Learn => R!Next
  BY DEF R!Next
<1> QED BY <1>1, <1>2, <1>3, <1>4, <1>5, <1>6, <1>7, <1>8 DEF Next

\* However pushes, queries, expiries, recoveries, callbacks, reviews and reversals
\* interleave, every collection is credited once and only if the customer paid,
\* and taken back once if the payment came back, or owed when the wallet is empty.
THEOREM CollectionsImplementReceipts == ASSUME Conditions PROVE Spec => ImplementsReceipts
<1>1. Init => R!Init
  <2> SUFFICES ASSUME Init PROVE R!Init
    OBVIOUS
  <2>1. ASSUME NEW c \in 1..(Held + MaxPushes)
        PROVE  Place(c) = "open" /\ ~ TruthIs(c, {"returned"})
    <3>1. c \in DOMAIN coll => coll[c] = HeldRow
      BY DEF Init
    <3>2. HeldRow.credits = 0 /\ HeldRow.order = 0
      BY DEF HeldRow
    <3> QED BY <3>1, <3>2 DEF Place, TruthIs
  <2> QED BY <2>1 DEF R!Init, Init
<1>2. Init => TInv /\ Books /\ Counted
  BY InitT, InitBooks, InitCounted
<1> DEFINE Inv == TInv /\ Books /\ Counted
<1>3. Inv /\ [Next]_vars => Inv'
  BY NextT, NextBooks, NextCounted
<1>4. Inv /\ Inv' /\ [Next]_vars => [R!Next]_(R!vars)
  <2> SUFFICES ASSUME Inv, Inv', [Next]_vars PROVE [R!Next]_(R!vars)
    OBVIOUS
  <2>1. CASE Next
    BY <2>1, StepsImplement
  <2>2. CASE UNCHANGED vars
    BY <2>2 DEF vars, rows, env, R!vars, Place, TruthIs
  <2> QED BY <2>1, <2>2
<1> HIDE DEF Inv
<1>5. Init => Inv
  BY <1>2 DEF Inv
<1> QED BY <1>1, <1>3, <1>4, <1>5, PTL DEF Spec, ImplementsReceipts, R!Spec
=============================================================================
