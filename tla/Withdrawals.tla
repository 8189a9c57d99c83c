----------------------------- MODULE Withdrawals -----------------------------
(***************************************************************************)
(* The withdrawal lifecycle of services/disbursements.py: request, limits  *)
(* decision, approval, reservation, payout through Selcom, refresh, retry, *)
(* callbacks, rejection.                                                   *)
(*                                                                         *)
(* One step is one database statement (or one wallet posting: module       *)
(* Ledger shows that a posting is indivisible).  An `async` handler runs   *)
(* on the event loop of its replica and gives the loop up only where it    *)
(* awaits Selcom, so the handlers of one replica interleave at the awaits  *)
(* and those of two replicas at every statement.  The `def` routes (reject *)
(* and request-info) run in the thread pool and interleave with everything *)
(* at every statement.                                                     *)
(***************************************************************************)
EXTENDS Integers, Sequences, FiniteSets

CONSTANTS
  Withdrawals,   \* rows of the disbursements table, all of one merchant
  Price,         \* [Withdrawals -> Nat]  total_reserved_amount
  Opening,       \* the wallet balance at the start
  Replicas,      \* API processes, one event loop each
  Requests,      \* slots for requests being served
  ReplicaOf,     \* [Requests -> Replicas]
  Ops,           \* [Requests -> SUBSET OpNames]  what a slot may serve
  PayAnswers,    \* outcomes of POST /transaction/process that can occur
  QueryAnswers,  \* outcomes of the status query that can occur
  Faults,        \* subset of FaultNames that can occur
  MaxStarts,     \* bound: approvals and retries started
  CrashPoints,   \* places where a request may die
  MaxAborts,     \* bound: requests that die
  NoWithdrawal, NoRequest

OpNames == {"submit", "approve", "retry", "refresh", "callback", "bounce",
            "reject", "info"}

\* What _run_disbursement_provider() distinguishes.  "declined" is a non-2xx
\* answer, "timeout" a call that ended without one; both arrive as
\* SelcomAPIError.  "unreadable" is a 2xx body the parser does not recognise.
AllPayAnswers == {"successful", "failed", "processing", "ambiguous",
                  "declined", "whitelist", "timeout", "unreadable"}
AllQueryAnswers == {"successful", "failed", "processing", "ambiguous",
                    "error", "unreadable"}
FaultNames == {"phone", "standing", "bounce"}

\* Where a request can be; at the first three it awaits Selcom.
Awaits == {"paying", "asking", "querying"}
Places == Awaits \cup {"finalize", "reserve", "post", "refuse", "mark", "pay", "settle",
                      "unwind", "fail", "reverse", "rejecting", "requesting"}

ASSUME WithdrawalsAssumption ==
  /\ Price \in [Withdrawals -> Nat] /\ Opening \in Nat
  /\ ReplicaOf \in [Requests -> Replicas]
  /\ Ops \in [Requests -> SUBSET OpNames]
  /\ PayAnswers \subseteq AllPayAnswers /\ QueryAnswers \subseteq AllQueryAnswers
  /\ Faults \subseteq FaultNames
  /\ CrashPoints \subseteq Places
  /\ MaxStarts \in Nat /\ MaxAborts \in Nat
  /\ NoWithdrawal \notin Withdrawals /\ NoRequest \notin Requests

VARIABLES
  status,   \* [Withdrawals -> Statuses]    disbursements.status
  ref,      \* [Withdrawals -> Nat]         provider_reference: the attempt, 0 for null
  txns,     \* [Withdrawals -> Seq(Txn)]    its transactions rows, oldest first
  wallet,   \* Nat                          the merchant's wallet account
  cleared,  \* BOOLEAN  merchant verified and active, no open high-risk alert
  payout,   \* [Withdrawals -> Seq(Payout)] Selcom's own record of each attempt
  req,      \* [Requests -> Request]        the requests being served
  loop,     \* [Replicas -> Requests \cup {NoRequest}]  who runs on the event loop
  starts,   \* Nat                          approvals and retries so far
  aborts    \* Nat                          requests that died so far

rows == <<status, ref, txns, wallet>>
env  == <<cleared, payout, starts, aborts>>
vars == <<rows, env, req, loop>>

Statuses == {"none", "PENDING_ADMIN_APPROVAL", "INFO_REQUESTED", "PROCESSING",
             "SUCCESS", "FAILED", "REJECTED", "REVERSED", "NEEDS_RECONCILIATION",
             "BLOCKED_IP_WHITELIST", "NEEDS_ADMIN_ATTENTION"}

AwaitingAdmin == {"PENDING_ADMIN_APPROVAL", "INFO_REQUESTED"}
NeedsReservation == {"FAILED"}
\* Mutant of AlreadyReserved: a payout left in flight can be retried.
AlreadyReservedInFlight == {"BLOCKED_IP_WHITELIST", "NEEDS_ADMIN_ATTENTION", "PROCESSING"}
AlreadyReserved  == {"BLOCKED_IP_WHITELIST", "NEEDS_ADMIN_ATTENTION"}
Retryable == NeedsReservation \cup AlreadyReserved
Refreshable == {"PROCESSING", "NEEDS_RECONCILIATION"}

\* debits and credits count the wallet postings made against the transaction.
Txn == [status : {"processing", "failed", "successful", "reversed"},
        debits : Nat, credits : Nat]

\* What really happened to an attempt: "sent" until Selcom decides; "bounced"
\* when a payment made came back.
Payout == {"sent", "paid", "declined", "bounced"}

\* A request: its place in the handler and the locals it carries: the row, the
\* status it read (seen), the reference it will write or asked about (ref), the
\* transaction row it holds (txn, 0 for none) and its payout attempt.
Request == [at : Places \cup {"idle"}, op : OpNames \cup {"none"},
            w : Withdrawals \cup {NoWithdrawal}, seen : Statuses,
            ref : Nat, txn : Nat, attempt : Nat]

NoWork == [at |-> "idle", op |-> "none", w |-> NoWithdrawal,
           seen |-> "none", ref |-> 0, txn |-> 0, attempt |-> 0]
-----------------------------------------------------------------------------
(***************************************************************************)
(* The event loop.                                                         *)
(***************************************************************************)
LoopFree(r) == loop[ReplicaOf[r]] = NoRequest
OnLoop(r)   == loop[ReplicaOf[r]] = r

\* A new async request is dispatched.
Dispatch(r, op) == req[r] = NoWork /\ op \in Ops[r] /\ LoopFree(r)
\* A request goes on at place p, without having left the loop.
GoesOn(r, p) == req[r].at = p /\ OnLoop(r)
\* A request whose await completed gets the loop back.
Resumes(r, p) == req[r].at = p /\ LoopFree(r)

\* How a step ends: still on the loop, awaiting, or done.
Step(r, q, who) ==
  req' = [req EXCEPT ![r] = q] /\ loop' = [loop EXCEPT ![ReplicaOf[r]] = who]
Keep(r, q)  == Step(r, q, r)
Await(r, q) == Step(r, q, NoRequest)
Done(r) == Await(r, NoWork)

Work(op, w, p) == [NoWork EXCEPT !.at = p, !.op = op, !.w = w]
To(r, p) == [req[r] EXCEPT !.at = p]

SetStatus(w, s) == status' = [status EXCEPT ![w] = s]
SetRef(w, n) == ref' = [ref EXCEPT ![w] = n]
SetTxn(w, i, s) == txns' = [txns EXCEPT ![w][i].status = s]

\* _find_transaction_for_disbursement: the newest row that is not reversed.
Unreversed(w) == {i \in DOMAIN txns[w] : txns[w][i].status # "reversed"}
\* Mutant of LiveTxn: the newest row, reversed or not.
LiveTxnNewest(w) == Len(txns[w])
LiveTxn(w) == IF Unreversed(w) = {} THEN 0
              ELSE CHOOSE i \in Unreversed(w) : \A j \in Unreversed(w) : j <= i

\* Mutant of CreditBack: the fee, or all of it, is not given back.
CreditBackForgotten(w, i) ==
  txns' = [txns EXCEPT ![w][i].credits = @ + 1] /\ UNCHANGED wallet

\* reverse_disbursement_entries: the amount and the fee go back to the wallet.
CreditBack(w, i) ==
  /\ wallet' = wallet + Price[w]
  /\ txns' = [txns EXCEPT ![w][i].credits = @ + 1]
-----------------------------------------------------------------------------
(***************************************************************************)
(* Request, decision, approval, reservation.                               *)
(***************************************************************************)
\* execute_disbursement up to the insert.  A failed check raises and changes
\* nothing.
Submit(r, w) ==
  /\ Dispatch(r, "submit")
  /\ status[w] = "none" /\ cleared /\ Price[w] <= wallet
  /\ SetStatus(w, "PENDING_ADMIN_APPROVAL")
  /\ Keep(r, Work("submit", w, "finalize"))
  /\ UNCHANGED <<ref, txns, wallet, env>>

\* finalize_withdrawal_limits, whose outcome is free here: the limits are not
\* part of this module.  An automatic decision falls back to manual when a gate
\* has closed meanwhile.
Finalize(r, outcome) ==
  /\ GoesOn(r, "finalize")
  /\ \/ /\ outcome = "rejected"
        /\ SetStatus(req[r].w, "REJECTED") /\ Done(r)
        /\ UNCHANGED starts
     \/ /\ outcome = "manual" \/ (outcome = "auto" /\ ~cleared)
        /\ Done(r)
        /\ UNCHANGED <<status, starts>>
     \/ /\ outcome = "auto" /\ cleared /\ starts < MaxStarts
        /\ starts' = starts + 1 /\ Keep(r, To(r, "reserve"))
        /\ UNCHANGED status
  /\ UNCHANGED <<ref, txns, wallet, cleared, payout, aborts>>

Approve(r, w) ==
  /\ Dispatch(r, "approve")
  /\ status[w] = "PENDING_ADMIN_APPROVAL" /\ cleared
  /\ starts < MaxStarts /\ starts' = starts + 1
  /\ Keep(r, Work("approve", w, "reserve"))
  /\ UNCHANGED <<rows, cleared, payout, aborts>>

\* _reserve_funds_for_disbursement: open the transaction row ...
OpenTxn(r) ==
  /\ GoesOn(r, "reserve")
  /\ LET w == req[r].w IN
     /\ txns' = [txns EXCEPT ![w] =
                   Append(@, [status |-> "processing", debits |-> 0, credits |-> 0])]
     /\ Keep(r, [req[r] EXCEPT !.at = "post", !.txn = Len(txns[w]) + 1])
  /\ UNCHANGED <<status, ref, wallet, env>>

\* Mutant of PostReservation: no check of the balance.
PostReservationUnchecked(r) ==
  /\ GoesOn(r, "post")
  /\ wallet' = wallet - Price[req[r].w]
  /\ txns' = [txns EXCEPT ![req[r].w][req[r].txn].debits = @ + 1]
  /\ Keep(r, To(r, "mark"))
  /\ UNCHANGED <<status, ref, env>>

\* ... and debit the wallet,
PostReservation(r) ==
  /\ GoesOn(r, "post") /\ Price[req[r].w] <= wallet
  /\ wallet' = wallet - Price[req[r].w]
  /\ txns' = [txns EXCEPT ![req[r].w][req[r].txn].debits = @ + 1]
  /\ Keep(r, To(r, "mark"))
  /\ UNCHANGED <<status, ref, env>>

\* or, when it cannot bear the debit, mark the transaction and the row failed.
RefuseDebit(r) ==
  /\ GoesOn(r, "post") /\ Price[req[r].w] > wallet
  /\ SetTxn(req[r].w, req[r].txn, "failed")
  /\ Keep(r, To(r, "refuse"))
  /\ UNCHANGED <<status, ref, wallet, env>>

RefuseReservation(r) ==
  /\ GoesOn(r, "refuse")
  /\ SetStatus(req[r].w, "FAILED")
  /\ Done(r)
  /\ UNCHANGED <<ref, txns, wallet, env>>

MarkProcessing(r) ==
  /\ GoesOn(r, "mark")
  /\ SetStatus(req[r].w, "PROCESSING")
  /\ Keep(r, To(r, "pay"))
  /\ UNCHANGED <<ref, txns, wallet, env>>
-----------------------------------------------------------------------------
(***************************************************************************)
(* _run_disbursement_provider.                                             *)
(***************************************************************************)
\* The recipient's number no longer normalizes; the funds stay reserved.
BadRecipient(r) ==
  /\ GoesOn(r, "pay") /\ "phone" \in Faults
  /\ SetStatus(req[r].w, "NEEDS_ADMIN_ATTENTION")
  /\ Done(r)
  /\ UNCHANGED <<ref, txns, wallet, env>>

\* A fresh trans_id goes to Selcom.
SendPayout(r) ==
  /\ GoesOn(r, "pay")
  /\ LET w == req[r].w IN
     /\ payout' = [payout EXCEPT ![w] = Append(@, "sent")]
     /\ Await(r, [req[r] EXCEPT !.at = "paying", !.attempt = Len(payout[w]) + 1])
  /\ UNCHANGED <<rows, cleared, starts, aborts>>

\* Which answers are consistent with what Selcom did.
TruthfulPay(p, a) ==
  CASE a = "successful"                        -> p = "paid"
    [] a \in {"failed", "declined", "whitelist"} -> p = "declined"
    [] OTHER                                   -> TRUE

PayAnswer(r, a) ==
  /\ Resumes(r, "paying")
  /\ a \in PayAnswers /\ TruthfulPay(payout[req[r].w][req[r].attempt], a)
  /\ LET w == req[r].w  n == req[r].attempt  i == req[r].txn IN
     \/ /\ a = "processing"
        /\ SetRef(w, n) /\ Done(r)
        /\ UNCHANGED <<status, txns, wallet>>
     \/ /\ a = "ambiguous"
        /\ SetStatus(w, "NEEDS_RECONCILIATION") /\ SetRef(w, n) /\ Done(r)
        /\ UNCHANGED <<txns, wallet>>
     \/ /\ a = "whitelist"
        /\ SetStatus(w, "BLOCKED_IP_WHITELIST") /\ Done(r)
        /\ UNCHANGED <<ref, txns, wallet>>
     \/ /\ a = "successful"
        /\ SetTxn(w, i, "successful")
        /\ Keep(r, [req[r] EXCEPT !.at = "settle", !.ref = n])
        /\ UNCHANGED <<status, ref, wallet>>
     \/ \* _fail_and_reverse; an error records no reference
        /\ a \in {"failed", "unreadable", "declined", "timeout"}
        /\ CreditBack(w, i)
        /\ Keep(r, [req[r] EXCEPT !.at = "unwind",
                      !.ref = IF a \in {"declined", "timeout"} THEN 0 ELSE n])
        /\ UNCHANGED <<status, ref>>
  /\ UNCHANGED env

\* The payout's own path records the attempt it was paid by; a refresh or a
\* callback leaves provider_reference alone.
Settle(r) ==
  /\ GoesOn(r, "settle")
  /\ SetStatus(req[r].w, "SUCCESS")
  /\ IF req[r].op \in {"refresh", "callback"} THEN UNCHANGED ref
                                              ELSE SetRef(req[r].w, req[r].ref)
  /\ Done(r)
  /\ UNCHANGED <<txns, wallet, env>>

\* _fail_and_reverse and the reversal of a settled payout, after the posting:
\* the transaction row, then the withdrawal row.
CloseTxn(r) ==
  /\ GoesOn(r, "unwind")
  /\ SetTxn(req[r].w, req[r].txn, "reversed")
  /\ Keep(r, To(r, IF req[r].op = "bounce" THEN "reverse" ELSE "fail"))
  /\ UNCHANGED <<status, ref, wallet, env>>

Fail(r) ==
  /\ GoesOn(r, "fail")
  /\ SetStatus(req[r].w, "FAILED")
  /\ SetRef(req[r].w, req[r].ref)
  /\ Done(r)
  /\ UNCHANGED <<txns, wallet, env>>

Reverse(r) ==
  /\ GoesOn(r, "reverse")
  /\ SetStatus(req[r].w, "REVERSED")
  /\ Done(r)
  /\ UNCHANGED <<ref, txns, wallet, env>>
-----------------------------------------------------------------------------
(***************************************************************************)
(* retry_disbursement_payout.                                              *)
(***************************************************************************)
\* Mutant of Reattempt: the funds are taken to be held still, whatever happened.
ReattemptHeld(r, w, seen) ==
  \/ LiveTxn(w) = 0 /\ Done(r)
  \/ /\ LiveTxn(w) # 0
     /\ Keep(r, [Work("retry", w, "mark") EXCEPT !.seen = seen, !.txn = LiveTxn(w)])

\* Past the guard: reserve again, or find the funds that are still held.
Reattempt(r, w, seen) ==
  LET q == [Work("retry", w, "reserve") EXCEPT !.seen = seen] IN
  \/ seen \in NeedsReservation /\ Keep(r, q)
  \/ seen \in AlreadyReserved /\ LiveTxn(w) = 0 /\ Done(r)
  \/ /\ seen \in AlreadyReserved /\ LiveTxn(w) # 0
     /\ Keep(r, [q EXCEPT !.at = "mark", !.txn = LiveTxn(w)])

Retry(r, w) ==
  /\ Dispatch(r, "retry")
  /\ status[w] \in Retryable /\ cleared
  /\ starts < MaxStarts /\ starts' = starts + 1
  /\ \/ ref[w] = 0 /\ Reattempt(r, w, status[w])
     \/ /\ ref[w] # 0
        /\ Await(r, [Work("retry", w, "asking") EXCEPT
                       !.seen = status[w], !.ref = ref[w]])
  /\ UNCHANGED <<rows, cleared, payout, aborts>>

\* What a query can answer about attempt p; a body that is not recognised is
\* parsed as "failed".
TruthfulQuery(p, a) ==
  CASE a = "successful" -> p \in {"paid", "bounced"}
    [] a = "failed"     -> p \in {"declined", "bounced"}
    [] OTHER            -> TRUE

\* Mutant of Parsed: a settlement in progress is read as a success.
ParsedOptimistic(a) == IF a = "processing" THEN "successful" ELSE a
Parsed(a) == IF a = "unreadable" THEN "failed" ELSE a

Answered(r, a) == a \in QueryAnswers /\ TruthfulQuery(payout[req[r].w][req[r].ref], a)

\* _assert_provider_did_not_already_pay after its await: only "failed" passes.
RetryAnswer(r, a) ==
  /\ Resumes(r, "asking") /\ Answered(r, a)
  /\ \/ Parsed(a) = "failed" /\ Reattempt(r, req[r].w, req[r].seen)
     \/ Parsed(a) # "failed" /\ Done(r)
  /\ UNCHANGED <<rows, env>>
-----------------------------------------------------------------------------
(***************************************************************************)
(* refresh_disbursement_status (the admin's button and the sweep), and the *)
(* inbound callbacks.                                                      *)
(***************************************************************************)
\* Mutant of Refresh: a row that needs reconciliation is skipped.
RefreshProcessingOnly(r, w) ==
  /\ Dispatch(r, "refresh")
  /\ status[w] = "PROCESSING" /\ ref[w] # 0
  /\ Await(r, [Work("refresh", w, "querying") EXCEPT !.ref = ref[w]])
  /\ UNCHANGED <<rows, env>>

Refresh(r, w) ==
  /\ Dispatch(r, "refresh")
  /\ status[w] \in Refreshable /\ ref[w] # 0
  /\ Await(r, [Work("refresh", w, "querying") EXCEPT !.ref = ref[w]])
  /\ UNCHANGED <<rows, env>>

\* _resolve_processing_disbursement; without a transaction row it raises.
Resolve(r, q, answer) ==
  LET i == LiveTxn(q.w) IN
  \/ /\ i = 0 /\ Done(r)
     /\ UNCHANGED <<txns, wallet>>
  \/ /\ i # 0 /\ answer = "successful"
     /\ SetTxn(q.w, i, "successful") /\ Keep(r, [q EXCEPT !.at = "settle", !.txn = i])
     /\ UNCHANGED wallet
  \/ /\ i # 0 /\ answer = "failed"
     /\ CreditBack(q.w, i) /\ Keep(r, [q EXCEPT !.at = "unwind", !.txn = i])

RefreshAnswer(r, a) ==
  /\ Resumes(r, "querying") /\ Answered(r, a)
  /\ \/ /\ Parsed(a) \in {"processing", "error"} /\ Done(r)
        /\ UNCHANGED <<status, txns, wallet>>
     \/ /\ Parsed(a) = "ambiguous"
        /\ SetStatus(req[r].w, "NEEDS_RECONCILIATION") /\ Done(r)
        /\ UNCHANGED <<txns, wallet>>
     \/ /\ Parsed(a) \in {"successful", "failed"} /\ Resolve(r, req[r], Parsed(a))
        /\ UNCHANGED status
  /\ UNCHANGED <<ref, env>>

\* resolve_disbursement_from_callback: a delivery, late or repeated, about
\* attempt n finds the row only while it is PROCESSING under that reference.
Callback(r, w, n) ==
  /\ Dispatch(r, "callback")
  /\ n \in DOMAIN payout[w] /\ payout[w][n] # "sent"
  /\ status[w] = "PROCESSING" /\ ref[w] = n
  /\ Resolve(r, [Work("callback", w, "querying") EXCEPT !.ref = n],
             IF payout[w][n] = "declined" THEN "failed" ELSE "successful")
  /\ UNCHANGED <<status, ref, env>>

\* reverse_successful_disbursement_from_callback.
BounceCallback(r, w) ==
  /\ Dispatch(r, "bounce")
  /\ ref[w] \in DOMAIN payout[w] /\ payout[w][ref[w]] = "bounced"
  /\ status[w] = "SUCCESS"
  /\ Resolve(r, Work("bounce", w, "querying"), "failed")
  /\ UNCHANGED <<status, ref, env>>
-----------------------------------------------------------------------------
(***************************************************************************)
(* reject_disbursement and request_more_info: read, then write, in a       *)
(* thread.                                                                 *)
(***************************************************************************)
ThreadRead(r, op, p, from) ==
  /\ req[r] = NoWork /\ op \in Ops[r]
  /\ \E w \in Withdrawals :
       status[w] \in from /\ req' = [req EXCEPT ![r] = Work(op, w, p)]
  /\ UNCHANGED <<rows, env, loop>>

ThreadWrite(r, p, s) ==
  /\ req[r].at = p
  /\ SetStatus(req[r].w, s)
  /\ req' = [req EXCEPT ![r] = NoWork]
  /\ UNCHANGED <<ref, txns, wallet, env, loop>>

ReadToReject(r) == ThreadRead(r, "reject", "rejecting", AwaitingAdmin)
Reject(r)       == ThreadWrite(r, "rejecting", "REJECTED")
ReadToAsk(r)    == ThreadRead(r, "info", "requesting", {"PENDING_ADMIN_APPROVAL"})
RequestInfo(r)  == ThreadWrite(r, "requesting", "INFO_REQUESTED")
-----------------------------------------------------------------------------
(***************************************************************************)
(* The environment.                                                        *)
(***************************************************************************)
\* Selcom pays an attempt or declines it, in its own time.
Decide(w, n, outcome) ==
  /\ n \in DOMAIN payout[w] /\ payout[w][n] = "sent"
  /\ payout' = [payout EXCEPT ![w][n] = outcome]
  /\ UNCHANGED <<rows, cleared, starts, aborts, req, loop>>

\* A payment made comes back, e.g. from a closed account.
ComesBack(w, n) ==
  /\ "bounce" \in Faults
  /\ n \in DOMAIN payout[w] /\ payout[w][n] = "paid"
  /\ payout' = [payout EXCEPT ![w][n] = "bounced"]
  /\ UNCHANGED <<rows, cleared, starts, aborts, req, loop>>

\* The merchant is suspended or a fraud alert opens, or the reverse.
StandingChanges ==
  /\ "standing" \in Faults
  /\ cleared' = ~cleared
  /\ UNCHANGED <<rows, payout, starts, aborts, req, loop>>

\* A request dies where it is: the process stops, or a statement raises.
Abort(r) ==
  /\ req[r].at \in CrashPoints /\ aborts < MaxAborts
  /\ aborts' = aborts + 1
  /\ req' = [req EXCEPT ![r] = NoWork]
  /\ loop' = [p \in Replicas |-> IF loop[p] = r THEN NoRequest ELSE loop[p]]
  /\ UNCHANGED <<rows, cleared, payout, starts>>
-----------------------------------------------------------------------------
Init ==
  /\ status = [w \in Withdrawals |-> "none"]
  /\ ref = [w \in Withdrawals |-> 0]
  /\ txns = [w \in Withdrawals |-> <<>>]
  /\ wallet = Opening
  /\ cleared = TRUE
  /\ payout = [w \in Withdrawals |-> <<>>]
  /\ req = [r \in Requests |-> NoWork]
  /\ loop = [p \in Replicas |-> NoRequest]
  /\ starts = 0 /\ aborts = 0

\* Steps of a request that wait for nothing but the loop.
LocalStep(r) ==
  \/ \E outcome \in {"rejected", "manual", "auto"} : Finalize(r, outcome)
  \/ OpenTxn(r) \/ PostReservation(r) \/ MarkProcessing(r)
  \/ RefuseDebit(r) \/ RefuseReservation(r)
  \/ BadRecipient(r) \/ SendPayout(r)
  \/ Settle(r) \/ CloseTxn(r) \/ Fail(r) \/ Reverse(r)
  \/ Reject(r) \/ RequestInfo(r)

\* Selcom's answer, or the client's timeout, ends the await.
AnswerStep(r) ==
  \/ \E a \in AllPayAnswers : PayAnswer(r, a)
  \/ \E a \in AllQueryAnswers : RetryAnswer(r, a) \/ RefreshAnswer(r, a)

Arrival(r, w) ==
  \/ Submit(r, w) \/ Approve(r, w) \/ Retry(r, w) \/ Refresh(r, w)
  \/ \E n \in DOMAIN payout[w] : Callback(r, w, n)
  \/ BounceCallback(r, w)

Selcom(w) == \E n \in DOMAIN payout[w] :
  Decide(w, n, "paid") \/ Decide(w, n, "declined") \/ ComesBack(w, n)

Next ==
  \/ \E r \in Requests :
       \/ LocalStep(r) \/ AnswerStep(r) \/ Abort(r)
       \/ ReadToReject(r) \/ ReadToAsk(r)
       \/ \E w \in Withdrawals : Arrival(r, w)
  \/ \E w \in Withdrawals : Selcom(w)
  \/ StandingChanges

Spec == Init /\ [][Next]_vars

\* The periodic sweep (reconcile_pending_disbursements): a slot that does
\* nothing but refresh.  The admin's button is not on a timer.
Sweep == {r \in Requests : Ops[r] = {"refresh"}}

DefinitiveAnswer(r, w) ==
  req[r].w = w /\ \E a \in {"successful", "failed"} : RefreshAnswer(r, a)

\* A request on the loop runs on; one whose await completed is in the loop's
\* queue and gets its turn, as does the sweep's timer; Selcom decides each
\* attempt and does not answer the sweep vaguely for ever.
FairSpec ==
  /\ Spec
  /\ \A r \in Requests : WF_vars(LocalStep(r)) /\ SF_vars(AnswerStep(r))
  /\ \A r \in Sweep, w \in Withdrawals :
       SF_vars(Refresh(r, w)) /\ SF_vars(DefinitiveAnswer(r, w))
  /\ \A w \in Withdrawals, n \in 1..MaxStarts :
       WF_vars(Decide(w, n, "paid") \/ Decide(w, n, "declined"))
-----------------------------------------------------------------------------
(***************************************************************************)
(* Properties.                                                             *)
(***************************************************************************)

\* Every variable has its type.
TypeOK ==
  /\ status \in [Withdrawals -> Statuses]
  /\ ref \in [Withdrawals -> Nat]
  /\ txns \in [Withdrawals -> Seq(Txn)]
  /\ wallet \in Nat
  /\ cleared \in BOOLEAN
  /\ payout \in [Withdrawals -> Seq(Payout)]
  /\ req \in [Requests -> Request]
  /\ loop \in [Replicas -> Requests \cup {NoRequest}]
  /\ starts \in Nat /\ aborts \in Nat

\* Transactions of w whose debit has not been given back, attempts Selcom paid.
Outstanding(w) == {i \in DOMAIN txns[w] : txns[w][i].debits > txns[w][i].credits}
Paid(w) == {n \in DOMAIN payout[w] : payout[w][n] = "paid"}

\* A reservation is debited once and given back at most once, so that a failed
\* payout "nets to zero" (reverse_disbursement_entries): no pair of handlers
\* reverses the same transaction twice.
ReversedAtMostOnce == \A w \in Withdrawals : \A i \in DOMAIN txns[w] :
  txns[w][i].credits <= txns[w][i].debits /\ txns[w][i].debits <= 1

\* A withdrawal's balance is "reserved exactly once": never two debits of one
\* withdrawal at a time.
ReservedAtMostOnce == \A w \in Withdrawals : Cardinality(Outstanding(w)) <= 1

\* Retrying "cannot be used to pay a merchant twice".
NeverPaidTwice == \A w \in Withdrawals : Cardinality(Paid(w)) <= 1

\* _run_disbursement_provider "assumes the money is held": while a payout is
\* with Selcom its own transaction still holds the debit.
PayoutInFlightIsHeld == \A r \in Requests :
  req[r].at \in {"pay", "paying"} =>
    req[r].txn \in Outstanding(req[r].w)

\* SUCCESS is never recorded on the strength of a stale or misread answer: Selcom
\* did pay an attempt of that withdrawal.
SuccessWasPaid == \A w \in Withdrawals :
  status[w] = "SUCCESS" =>
    \E n \in DOMAIN payout[w] : payout[w][n] \in {"paid", "bounced"}

\* A rejected withdrawal "never reached reservation".
RejectedHoldsNothing == \A w \in Withdrawals :
  status[w] = "REJECTED" => Outstanding(w) = {} /\ Paid(w) = {}

\* SUCCESS is withdrawn only after the payment itself came back, and REVERSED
\* is final, however late the answers that other requests are still awaiting.
SettledStaysSettled == [][\A w \in Withdrawals :
  /\ status[w] = "SUCCESS" /\ status'[w] # "SUCCESS" => Paid(w) = {}
  /\ status[w] = "REVERSED" => status'[w] = "REVERSED"]_vars

\* An approved withdrawal does not stay PROCESSING or NEEDS_RECONCILIATION with
\* the money held: the payout call ends, or the sweep resolves it.
ResolvedInTheEnd == \A w \in Withdrawals :
  status[w] \in Refreshable ~> status[w] \notin Refreshable

\* The money of each withdrawal is in exactly one place (module Custody).
Whereabouts(w) ==
  CASE Outstanding(w) = {} /\ Paid(w) = {}                           -> "wallet"
    [] Cardinality(Outstanding(w)) = 1 /\ Paid(w) = {}               -> "held"
    [] Cardinality(Outstanding(w)) = 1 /\ Cardinality(Paid(w)) = 1   -> "recipient"
    [] OTHER                                                         -> "lost"

C == INSTANCE Custody WITH place <- [w \in Withdrawals |-> Whereabouts(w)]

\* The handlers, the ledger and Selcom together implement custody.
ImplementsCustody == C!Spec
=============================================================================
