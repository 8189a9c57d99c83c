----------------------------- MODULE Collections -----------------------------
(***************************************************************************)
(* The life of a collection paid through Selcom Checkout:                  *)
(* services/wallet_push.py and checkout_orders.py start it,                *)
(* checkout_reconciliation.py, collection_expiry.py and the webhook route  *)
(* learn what became of it, collections.py applies that to the collection, *)
(* its transaction, the ledger and the payment link.                       *)
(*                                                                         *)
(* As in Withdrawals, one step is one statement, an `async` handler keeps  *)
(* the event loop of its replica except while it awaits Selcom, and the    *)
(* review of a held collection (a `def` route) runs in a thread.  A ledger *)
(* posting is one step (module Ledger).  Every collection is one unit.     *)
(***************************************************************************)
EXTENDS Integers, Sequences, FiniteSets

CONSTANTS
  Held,        \* number of old collections held at pending_review
  MaxPushes,   \* bound: pushes started, hence new collections and orders
  Replicas,    \* API processes, one event loop each
  Requests,    \* slots for requests being served
  ReplicaOf,   \* [Requests -> Replicas]
  Ops,         \* [Requests -> SUBSET OpNames]  what a slot may serve
  Answers,     \* outcomes of the order-status query that can occur
  KnownIds,    \* orders that Selcom also finds under the id of our own row
  CalledBack,  \* orders whose callbacks reach us
  Faults,      \* subset of FaultNames that can occur
  CrashPoints, \* places where a request may die
  MaxAborts,   \* bound: requests that die
  NoRequest

OpNames == {"push", "linkpush", "refresh", "sweep", "expire", "recheck",
            "callback", "review"}

\* map_checkout_status_to_provider_status, for what Selcom can say.  "vague" is
\* an answer that settles nothing (COMPLETED without a matching result, 999, a
\* wrong amount); "error" a call that raises.
AllAnswers == {"successful", "failed", "processing", "vague", "error"}
FaultNames == {"order", "push", "spend", "cancel", "return", "stuck"}

\* Where a request can be; at the first six it awaits Selcom.
Awaits == {"ordering", "pushing", "querying", "replied", "rechecking", "rechecked"}
Places == Awaits \cup {"opentxn", "mark", "marktxn", "credit", "link", "close", "debit",
                       "closetxn", "reverse", "unlink", "reopen", "reopentxn"}

ASSUME CollectionsAssumption ==
  /\ Held \in Nat /\ MaxPushes \in Nat /\ MaxAborts \in Nat
  /\ ReplicaOf \in [Requests -> Replicas]
  /\ Ops \in [Requests -> SUBSET OpNames]
  /\ Answers \subseteq AllAnswers /\ Faults \subseteq FaultNames
  /\ CrashPoints \subseteq Places
  /\ NoRequest \notin Requests

VARIABLES
  coll,    \* Seq(Collection)  collections, each with its transaction and postings
  order,   \* Seq(Order)       checkout_orders
  link,    \* "ACTIVE" or "PAID"  status of the one payment link
  wallet,  \* Nat              the merchant's wallet account
  heard,   \* SUBSET Nat       collections whose callback event is stored
  truth,   \* Seq(Truth)       what really became of each order at Selcom
  req,     \* [Requests -> Request]
  loop,    \* [Replicas -> Requests \cup {NoRequest}]
  pushes,  \* Nat              pushes so far
  aborts   \* Nat              requests that died so far

rows == <<coll, order, link, wallet, heard>>
env  == <<truth, pushes, aborts>>
vars == <<rows, env, req, loop>>

\* status, whether the failure reason is our own "expired", the order (0 for
\* none), whether it is the link's, the transaction row, the ledger postings.
Collection ==
  [status : {"processing", "failed", "successful", "reversed", "pending_review"},
   expired : BOOLEAN, order : Nat, linked : BOOLEAN,
   txn : {"none", "processing", "failed", "successful", "reversed"},
   credits : Nat, debits : Nat]

Order == [status : {"created", "failed", "completed"}, linked : BOOLEAN]
Truth == {"none", "unpaid", "paid", "cancelled", "returned"}

\* A request: its place, its operation, the collection and the order it is
\* about, whether it pushes for the link, and the answer it acts on.
Request == [at : Places \cup {"idle"}, op : OpNames \cup {"none"}, c : Nat, order : Nat,
            linked : BOOLEAN, ans : AllAnswers \cup {"none", "expired"}]

NoWork == [at |-> "idle", op |-> "none", c |-> 0, order |-> 0,
           linked |-> FALSE, ans |-> "none"]
-----------------------------------------------------------------------------
(***************************************************************************)
(* The event loop.                                                         *)
(***************************************************************************)
InThread(r) == Ops[r] = {"review"}

LoopFree(r) == loop[ReplicaOf[r]] = NoRequest
Dispatch(r, op) == req[r] = NoWork /\ op \in Ops[r] /\ (InThread(r) \/ LoopFree(r))
GoesOn(r, p) == req[r].at = p /\ (InThread(r) \/ loop[ReplicaOf[r]] = r)
Resumes(r, p) == req[r].at = p /\ LoopFree(r)

Step(r, q, who) ==
  /\ req' = [req EXCEPT ![r] = q]
  /\ loop' = IF InThread(r) THEN loop ELSE [loop EXCEPT ![ReplicaOf[r]] = who]
Keep(r, q)  == Step(r, q, r)
Await(r, q) == Step(r, q, NoRequest)
Done(r) == Await(r, NoWork)

To(r, p) == [req[r] EXCEPT !.at = p]
About(op, c, p) == [NoWork EXCEPT !.at = p, !.op = op, !.c = c, !.order = coll[c].order]

SetStatus(c, s) == coll' = [coll EXCEPT ![c].status = s]
SetTxn(c, s)    == coll' = [coll EXCEPT ![c].txn = s]

NewRow(s, q, n) == [status |-> s, expired |-> FALSE, order |-> n, linked |-> q.linked,
                    txn |-> "none", credits |-> 0, debits |-> 0]
-----------------------------------------------------------------------------
(***************************************************************************)
(* Pushing: execute_wallet_push_collection and ..._for_payment_link.       *)
(***************************************************************************)
\* Without a payment link every push has a fresh order.
Push(r) ==
  /\ Dispatch(r, "push") /\ pushes < MaxPushes
  /\ pushes' = pushes + 1
  /\ Await(r, [NoWork EXCEPT !.at = "ordering", !.op = "push"])
  /\ UNCHANGED <<rows, truth, aborts>>

Live(c) == coll[c].status \in {"processing", "successful"}
OpenOrders == {o \in DOMAIN order : order[o].linked /\ order[o].status = "created"}

\* For a link: not while a collection of it lives; its newest open order is
\* used again.
LinkPush(r) ==
  /\ Dispatch(r, "linkpush") /\ pushes < MaxPushes
  /\ \A c \in DOMAIN coll : coll[c].linked => ~Live(c)
  /\ pushes' = pushes + 1
  /\ LET q == [NoWork EXCEPT !.op = "linkpush", !.linked = TRUE] IN
     \/ OpenOrders = {} /\ Await(r, [q EXCEPT !.at = "ordering"])
     \/ \E o \in OpenOrders :
          /\ \A p \in OpenOrders : p <= o
          /\ Await(r, [q EXCEPT !.at = "pushing", !.order = o])
  /\ UNCHANGED <<rows, truth, aborts>>

\* create_checkout_order_minimal stores the order, failed or not; a failed one
\* leaves a failed collection, a good one is pushed to the phone.
OrderAnswer(r, s) ==
  /\ Resumes(r, "ordering")
  /\ s = "created" \/ (s = "failed" /\ "order" \in Faults)
  /\ order' = Append(order, [status |-> s, linked |-> req[r].linked])
  /\ \/ /\ s = "created"
        /\ truth' = Append(truth, "unpaid")
        /\ Await(r, [req[r] EXCEPT !.at = "pushing", !.order = Len(order) + 1])
        /\ UNCHANGED coll
     \/ /\ s = "failed"
        /\ truth' = Append(truth, "none")
        /\ coll' = Append(coll, NewRow("failed", req[r], Len(order) + 1))
        /\ Done(r)
  /\ UNCHANGED <<link, wallet, heard, pushes, aborts>>

\* Anything but a clear refusal, a timeout included, leaves a processing row.
PushAnswer(r, s) ==
  /\ Resumes(r, "pushing")
  /\ s = "processing" \/ (s = "failed" /\ "push" \in Faults)
  /\ coll' = Append(coll, NewRow(s, req[r], req[r].order))
  /\ \/ s = "failed" /\ Done(r)
     \/ s = "processing" /\ Keep(r, [req[r] EXCEPT !.at = "opentxn", !.c = Len(coll) + 1])
  /\ UNCHANGED <<order, link, wallet, heard, env>>

OpenTxn(r) ==
  /\ GoesOn(r, "opentxn")
  /\ SetTxn(req[r].c, "processing")
  /\ Done(r)
  /\ UNCHANGED <<order, link, wallet, heard, env>>
-----------------------------------------------------------------------------
(***************************************************************************)
(* Asking Selcom.                                                          *)
(***************************************************************************)
\* The Refresh Status buttons ask about any collection with an order; the sweep
\* and the expiry about processing ones.
Ask(r, op, c) ==
  /\ Dispatch(r, op) /\ op \in {"refresh", "sweep", "expire"}
  /\ coll[c].order # 0 /\ (op # "refresh" => coll[c].status = "processing")
  /\ Await(r, About(op, c, "querying"))
  /\ UNCHANGED <<rows, env>>

\* Mutant of Abandoned: an expired collection is closed for good.
AbandonedNever(c) == FALSE

\* Expired by us, as opposed to refused by Selcom.  (Selcom's own EXPIRED gets
\* the same reason code; nothing is paid after it, so asking again changes nothing.)
Abandoned(c) == coll[c].status = "failed" /\ coll[c].expired

\* _recover_late_payments asks under the id of our own checkout_orders row.
Recheck(r, c) ==
  /\ Dispatch(r, "recheck") /\ Abandoned(c)
  /\ Await(r, About("recheck", c, "rechecking"))
  /\ UNCHANGED <<rows, env>>

\* What Selcom says of an order at the moment it answers.
Truthful(t, a) ==
  CASE a = "successful" -> t = "paid"
    [] a = "processing" -> t = "unpaid"
    [] a = "failed"     -> t \in {"cancelled", "returned"}
    [] OTHER            -> TRUE

\* The answer leaves Selcom; it waits for the loop and may be stale by then.
Reply(r, a) ==
  /\ req[r].at \in {"querying", "rechecking"}
  /\ a \in Answers /\ Truthful(truth[req[r].order], a)
  /\ \/ /\ req[r].at = "querying"
        /\ req' = [req EXCEPT ![r].at = "replied", ![r].ans = a]
     \/ /\ req[r].at = "rechecking"
        /\ req[r].order \in KnownIds \/ a = "error"
        /\ req' = [req EXCEPT ![r].at = "rechecked", ![r].ans = a]
  /\ UNCHANGED <<rows, env, loop>>

\* Mutant of Resolvable: the guard looks at what the collection once was.
ResolvableTwice(c) == coll[c].status \in {"processing", "successful"}

\* resolve_collection acts on processing collections only.
Resolvable(c) == coll[c].status = "processing"

\* Mutant of Reversible: a reversal is applied to a collection never credited.
ReversibleAny(c) == coll[c].status \in {"successful", "failed"}
Reversible(c) == coll[c].status = "successful"

\* Mutant of Expires: the sweep asks, and leaves an unpaid push as it is.
ExpiresNever(q) == FALSE

\* An old push that Selcom says nothing final about; one that cannot be asked
\* about at all is closed too, once the grace window has passed.
Expires(q) ==
  /\ q.op = "expire"
  /\ q.ans \in {"processing", "vague"} \/ (q.ans = "error" /\ "stuck" \in Faults)

\* What an answer means for the collection as it is now.
Settles(q)  == q.ans \in {"successful", "failed"} /\ Resolvable(q.c)
Reverses(q) == q.ans = "failed" /\ ~Resolvable(q.c) /\ Reversible(q.c)
GivesUp(q)  == Expires(q) /\ Resolvable(q.c)

\* complete_checkout_collection_once, up to the first write of resolve_collection
\* or reverse_successful_collection, and the expiry's own re-read.  The reads
\* have no await between them and are one step.
Complete(r) ==
  /\ Resumes(r, "replied")
  /\ \/ Settles(req[r]) /\ Keep(r, To(r, "mark"))
     \/ Reverses(req[r]) /\ Keep(r, To(r, "debit"))
     \/ GivesUp(req[r]) /\ Keep(r, [To(r, "mark") EXCEPT !.ans = "expired"])
     \/ /\ ~Settles(req[r]) /\ ~Reverses(req[r]) /\ ~GivesUp(req[r])
        /\ Done(r)
  /\ UNCHANGED <<rows, env>>

\* The recovery reopens without another look at the status, then refreshes.
RecheckAnswer(r) ==
  /\ Resumes(r, "rechecked")
  /\ \/ /\ req[r].ans = "successful"
        /\ SetStatus(req[r].c, "processing")
        /\ Await(r, [req[r] EXCEPT !.at = "querying", !.ans = "none"])
     \/ /\ req[r].ans # "successful" /\ Done(r)
        /\ UNCHANGED coll
  /\ UNCHANGED <<order, link, wallet, heard, env>>
-----------------------------------------------------------------------------
(***************************************************************************)
(* resolve_collection and finalize_pending_review_collection.              *)
(***************************************************************************)
\* The status first.  Without a transaction row the handler then raises.
Mark(r) ==
  /\ GoesOn(r, "mark")
  /\ LET c == req[r].c  a == req[r].ans IN
     /\ coll' = [coll EXCEPT
                  ![c].status = IF a = "successful" THEN "successful" ELSE "failed",
                  ![c].expired = IF a = "successful" THEN @ ELSE a = "expired"]
     /\ IF coll[c].txn = "none" THEN Done(r) ELSE Keep(r, To(r, "marktxn"))
  /\ UNCHANGED <<order, link, wallet, heard, env>>

MarkTxn(r) ==
  /\ GoesOn(r, "marktxn")
  /\ \/ /\ req[r].ans = "successful"
        /\ SetTxn(req[r].c, "successful") /\ Keep(r, To(r, "credit"))
     \/ /\ req[r].ans # "successful"
        /\ SetTxn(req[r].c, "failed") /\ Done(r)
  /\ UNCHANGED <<order, link, wallet, heard, env>>

\* post_collection_entries.
Credit(r) ==
  /\ GoesOn(r, "credit")
  /\ wallet' = wallet + 1
  /\ coll' = [coll EXCEPT ![req[r].c].credits = @ + 1]
  /\ Keep(r, To(r, "link"))
  /\ UNCHANGED <<order, link, heard, env>>

\* _apply_collection_success.
MarkLinkPaid(r) ==
  /\ GoesOn(r, "link")
  /\ link' = IF coll[req[r].c].linked THEN "PAID" ELSE link
  /\ IF req[r].op = "review" THEN Done(r) ELSE Keep(r, To(r, "close"))
  /\ UNCHANGED <<coll, order, wallet, heard, env>>

CloseOrder(r) ==
  /\ GoesOn(r, "close")
  /\ order' = [order EXCEPT ![req[r].order].status = "completed"]
  /\ Done(r)
  /\ UNCHANGED <<coll, link, wallet, heard, env>>

\* An admin clears the alert that held the collection.
Review(r, c) ==
  /\ Dispatch(r, "review") /\ coll[c].status = "pending_review"
  /\ Keep(r, [About("review", c, "mark") EXCEPT !.ans = "successful"])
  /\ UNCHANGED <<rows, env>>
-----------------------------------------------------------------------------
(***************************************************************************)
(* reverse_successful_collection.                                          *)
(***************************************************************************)
\* Mutant of Debit: the ledger is not asked whether the wallet can bear it.
DebitUnchecked(r) ==
  /\ GoesOn(r, "debit")
  /\ wallet' = wallet - 1
  /\ coll' = [coll EXCEPT ![req[r].c].debits = @ + 1]
  /\ Keep(r, To(r, "closetxn"))
  /\ UNCHANGED <<order, link, heard, env>>

\* The credit is taken back, or the wallet cannot bear it and the collection is
\* marked reversed all the same.
Debit(r) ==
  /\ GoesOn(r, "debit")
  /\ \/ /\ coll[req[r].c].txn # "none" /\ wallet > 0
        /\ wallet' = wallet - 1
        /\ coll' = [coll EXCEPT ![req[r].c].debits = @ + 1]
        /\ Keep(r, To(r, "closetxn"))
     \/ /\ coll[req[r].c].txn = "none" \/ wallet = 0
        /\ Keep(r, To(r, "reverse"))
        /\ UNCHANGED <<coll, wallet>>
  /\ UNCHANGED <<order, link, heard, env>>

CloseTxn(r) ==
  /\ GoesOn(r, "closetxn")
  /\ SetTxn(req[r].c, "reversed")
  /\ Keep(r, To(r, "reverse"))
  /\ UNCHANGED <<order, link, wallet, heard, env>>

Reverse(r) ==
  /\ GoesOn(r, "reverse")
  /\ SetStatus(req[r].c, "reversed")
  /\ Keep(r, To(r, "unlink"))
  /\ UNCHANGED <<order, link, wallet, heard, env>>

\* _apply_collection_reversal.
ReopenLink(r) ==
  /\ GoesOn(r, "unlink")
  /\ link' = IF coll[req[r].c].linked THEN "ACTIVE" ELSE link
  /\ Done(r)
  /\ UNCHANGED <<coll, order, wallet, heard, env>>
-----------------------------------------------------------------------------
(***************************************************************************)
(* selcom_checkout_webhook, an unsigned delivery used as a hint.  The      *)
(* event is stored under its transid before anything is done with it, and  *)
(* a second delivery for that transid is dropped.                          *)
(***************************************************************************)
\* The delivery says COMPLETED and it was we who gave up.
LatePayment(c) == Abandoned(c) /\ truth[coll[c].order] = "paid"

Callback(r, c) ==
  /\ Dispatch(r, "callback") /\ c \notin heard
  /\ coll[c].order \in CalledBack
  /\ heard' = heard \cup {c}
  /\ \/ /\ coll[c].status = "processing"
        /\ Await(r, About("callback", c, "querying"))
     \/ /\ LatePayment(c)
        /\ Keep(r, About("callback", c, "reopen"))
     \/ \* it says something else, or comes too late to matter
        /\ coll[c].status # "processing" /\ Done(r)
  /\ UNCHANGED <<coll, order, link, wallet, env>>

ReopenRow(r) ==
  /\ GoesOn(r, "reopen")
  /\ SetStatus(req[r].c, "processing")
  /\ Keep(r, To(r, "reopentxn"))
  /\ UNCHANGED <<order, link, wallet, heard, env>>

ReopenTxn(r) ==
  /\ GoesOn(r, "reopentxn")
  /\ coll' = [coll EXCEPT ![req[r].c].txn = IF @ = "none" THEN "none" ELSE "processing"]
  /\ Await(r, To(r, "querying"))
  /\ UNCHANGED <<order, link, wallet, heard, env>>
-----------------------------------------------------------------------------
(***************************************************************************)
(* The environment.                                                        *)
(***************************************************************************)
\* The customer pays or cancels; Selcom gives a payment back.
Customer(o, from, to, fault) ==
  /\ truth[o] = from /\ fault \in Faults \cup {"none"}
  /\ truth' = [truth EXCEPT ![o] = to]
  /\ UNCHANGED <<rows, pushes, aborts, req, loop>>

Pay(o)      == Customer(o, "unpaid", "paid", "none")
Cancel(o)   == Customer(o, "unpaid", "cancelled", "cancel")
GiveBack(o) == Customer(o, "paid", "returned", "return")

\* The merchant withdraws what it has.
Spend ==
  /\ "spend" \in Faults /\ wallet > 0
  /\ wallet' = wallet - 1
  /\ UNCHANGED <<coll, order, link, heard, env, req, loop>>

Abort(r) ==
  /\ req[r].at \in CrashPoints /\ aborts < MaxAborts
  /\ aborts' = aborts + 1
  /\ req' = [req EXCEPT ![r] = NoWork]
  /\ loop' = [p \in Replicas |-> IF loop[p] = r THEN NoRequest ELSE loop[p]]
  /\ UNCHANGED <<rows, truth, pushes>>
-----------------------------------------------------------------------------
HeldRow == [status |-> "pending_review", expired |-> FALSE, order |-> 0, linked |-> FALSE,
            txn |-> "processing", credits |-> 0, debits |-> 0]

Init ==
  /\ coll = [i \in 1..Held |-> HeldRow]
  /\ order = <<>> /\ truth = <<>>
  /\ link = "ACTIVE" /\ wallet = 0 /\ heard = {}
  /\ req = [r \in Requests |-> NoWork]
  /\ loop = [p \in Replicas |-> NoRequest]
  /\ pushes = 0 /\ aborts = 0

\* Steps of a request that wait for nothing but the loop.
LocalStep(r) ==
  \/ OpenTxn(r) \/ Mark(r) \/ MarkTxn(r) \/ Credit(r) \/ MarkLinkPaid(r) \/ CloseOrder(r)
  \/ Debit(r) \/ CloseTxn(r) \/ Reverse(r) \/ ReopenLink(r)
  \/ ReopenRow(r) \/ ReopenTxn(r)

\* Selcom answered, or the client gave up waiting.
AnswerStep(r) ==
  \/ OrderAnswer(r, "created") \/ OrderAnswer(r, "failed")
  \/ PushAnswer(r, "processing") \/ PushAnswer(r, "failed")
  \/ Complete(r) \/ RecheckAnswer(r)

Arrival(r, c) ==
  \/ \E op \in OpNames : Ask(r, op, c)
  \/ Recheck(r, c) \/ Callback(r, c) \/ Review(r, c)

Next ==
  \/ \E r \in Requests :
       \/ Push(r) \/ LinkPush(r)
       \/ LocalStep(r) \/ AnswerStep(r) \/ Abort(r)
       \/ \E a \in AllAnswers : Reply(r, a)
       \/ \E c \in DOMAIN coll : Arrival(r, c)
  \/ \E o \in DOMAIN truth : Pay(o) \/ Cancel(o) \/ GiveBack(o)
  \/ Spend

Spec == Init /\ [][Next]_vars

\* The slot of the scheduled task, which sweeps, expires and rechecks in turn.
Scheduler == {r \in Requests : Ops[r] = {"sweep", "expire", "recheck"}}
NewRows == (Held + 1)..(Held + MaxPushes)

Selected(r, op, c) ==
  c \in DOMAIN coll /\ IF op = "recheck" THEN Recheck(r, c) ELSE Ask(r, op, c)

\* Selcom's answer to a question of the task, other than an error.
Informs(r, op, c) ==
  req[r].op = op /\ req[r].c = c /\ \E a \in Answers \ {"error"} : Reply(r, a)

\* A request on the loop runs on, one whose await ended gets the loop in turn,
\* and every await ends.  The task comes round to each collection it selects,
\* and Selcom does not fail it for ever.
FairSpec ==
  /\ Spec
  /\ \A r \in Requests :
       WF_vars(LocalStep(r)) /\ SF_vars(AnswerStep(r))
         /\ WF_vars(\E a \in AllAnswers : Reply(r, a))
  /\ \A r \in Scheduler, c \in NewRows, op \in {"expire", "recheck"} :
       SF_vars(Selected(r, op, c)) /\ SF_vars(Informs(r, op, c))
-----------------------------------------------------------------------------
(***************************************************************************)
(* Properties.                                                             *)
(***************************************************************************)

\* Every variable has its type.
TypeOK ==
  /\ coll \in Seq(Collection) /\ order \in Seq(Order) /\ truth \in Seq(Truth)
  /\ link \in {"ACTIVE", "PAID"} /\ wallet \in Nat /\ heard \subseteq 1..Len(coll)
  /\ req \in [Requests -> Request]
  /\ loop \in [Replicas -> Requests \cup {NoRequest}]
  /\ pushes \in Nat /\ aborts \in Nat

Pending(c) == c \in DOMAIN coll /\ coll[c].status = "processing"
PaidFor(c) == c \in DOMAIN coll /\ truth[coll[c].order] = "paid"

\* A handler is between two writes about collection c.
Busy(c) == \E r \in Requests : req[r].c = c /\ req[r].at \notin Awaits

\* Whenever no handler is in the middle of it, a collection's status, its
\* transaction and its ledger postings tell the same story: only a successful
\* collection is credited, and a reversed one is debited again, or is owed
\* ("marked 'reversed' (so no UI anywhere keeps claiming success)").
BooksFollowStatus == \A c \in DOMAIN coll : ~Busy(c) =>
  LET x == coll[c] IN
  CASE x.status = "successful" -> x.credits = 1 /\ x.debits = 0 /\ x.txn = "successful"
    [] x.status = "reversed"   -> x.credits = 1 /\ \/ x.debits = 1 /\ x.txn = "reversed"
                                                   \/ x.debits = 0 /\ x.txn = "successful"
    [] OTHER                   -> x.credits = 0 /\ x.debits = 0

\* "Do not allow duplicate credits": a customer's payment of one order is
\* credited to one collection.
CreditedOncePerOrder == \A o \in DOMAIN order :
  Cardinality({c \in DOMAIN coll : coll[c].order = o /\ coll[c].credits > 0}) <= 1

\* An abandoned push gets "a terminal answer".
PushEnds == \A c \in NewRows : Pending(c) ~> ~Pending(c)

\* A payment made is credited, also when it is made after we gave up, provided
\* the recovery asks about an order that Selcom finds.
PaymentIsCredited == \A c \in NewRows :
  PaidFor(c) /\ coll[c].order \in KnownIds /\ (Pending(c) \/ coll[c].expired)
    ~> ~PaidFor(c) \/ coll[c].credits > 0

\* Where the money of collection c is (module Receipts).
Place(c) ==
  IF c \notin DOMAIN coll THEN "open" ELSE
  CASE coll[c].credits = 0                         -> "open"
    [] coll[c].credits = 1 /\ coll[c].debits = 1   -> "returned"
    [] coll[c].credits = 1 /\ coll[c].debits = 0   ->
         IF \/ coll[c].status = "reversed"
            \/ \E r \in Requests : req[r].c = c /\ req[r].at = "reverse"
         THEN "owed" ELSE "credited"
    [] OTHER                                       -> "lost"

TruthIs(c, ts) ==
  c \in DOMAIN coll /\ IF coll[c].order = 0 THEN "paid" \in ts ELSE truth[coll[c].order] \in ts

R == INSTANCE Receipts WITH
       Collections <- 1..(Held + MaxPushes),
       place <- [c \in 1..(Held + MaxPushes) |-> Place(c)],
       paid  <- {c \in 1..(Held + MaxPushes) : TruthIs(c, {"paid", "returned"})},
       back  <- {c \in 1..(Held + MaxPushes) : TruthIs(c, {"returned"})}

\* Pushes, polls, expiries, callbacks and reversals together implement Receipts.
ImplementsReceipts == R!Spec
=============================================================================
