------------------------------- MODULE Provider -------------------------------
(***************************************************************************)
(* The calls to Selcom: the throttle of services/selcom/outbound_guard.py, *)
(* the checkout client (services/selcom_checkout), the older client        *)
(* (services/selcom/live_client.py), the payout client                     *)
(* (services/selcom_business) and the recipient lookup.                    *)
(*                                                                         *)
(* All calls run on one event loop; a step is what a call does between two *)
(* awaits.  Times are ages and countdowns in ticks, so that the model      *)
(* needs no last moment.                                                   *)
(***************************************************************************)
EXTENDS Integers, Sequences

CONSTANTS
  Calls,
  Mixes,       \* set of [Calls -> Kinds]: which calls a behaviour is made of
  PerMinute,   \* selcom_outbound_max_per_minute
  Concurrent,  \* selcom_outbound_max_concurrent
  Threshold,   \* selcom_circuit_breaker_failure_threshold
  Cooldown,    \* selcom_circuit_breaker_cooldown_seconds, in ticks
  Window,      \* the minute of the rate limit, in ticks
  Poll         \* the longest sleep of a call waiting for its slot, in ticks

\* A call's policy: under the throttle or not; whether it moves money; the answers
\* after which it is sent once more; whether its errors stay inside the guard.
Policy(name, guarded, pulls, again, swallows) ==
  [name |-> name, guarded |-> guarded, pulls |-> pulls, again |-> again, swallows |-> swallows]

Gateway == {"gateway"}               \* 502, 503, 504
Lost == {"unreachable", "timeout"}   \* what raises

CreateOrderMinimal == Policy("order", TRUE, FALSE, Gateway, FALSE)
GetOrderStatus == Policy("status", TRUE, FALSE, Gateway, FALSE)

\* Mutant: a push is repeated like any other request.
ProcessWalletPaymentAgain == Policy("wallet", TRUE, TRUE, Gateway, FALSE)
ProcessWalletPayment == Policy("wallet", TRUE, TRUE, {}, FALSE)
SelcomPesaPayment == Policy("pesa", TRUE, TRUE, {}, FALSE)
LegacyPush == Policy("push", TRUE, TRUE, Lost, FALSE)
LegacyStatus == Policy("query", TRUE, FALSE, Lost, FALSE)
ResolveRecipientName == Policy("lookup", TRUE, FALSE, {}, TRUE)
ProcessTransaction == Policy("payout", FALSE, TRUE, {}, FALSE)
QueryTransaction == Policy("payout", FALSE, FALSE, {}, FALSE)

Kinds == {CreateOrderMinimal, GetOrderStatus, ProcessWalletPayment, SelcomPesaPayment,
          LegacyPush, LegacyStatus, ResolveRecipientName, ProcessTransaction, QueryTransaction}

ASSUME ConstantsAssumption ==
  /\ Mixes \subseteq [Calls -> Kinds]
  /\ PerMinute \in Nat /\ Window \in Nat
  /\ Concurrent \in Nat /\ Threshold \in Nat /\ Cooldown \in Nat

VARIABLES
  kind,     \* [Calls -> Kinds]
  call,     \* [Calls -> Call]
  recent,   \* Seq(age)   _recent: the slots granted, oldest first
  granted,  \* Seq(age)   the slots really granted in the last Window ticks
  guard     \* Guard

vars == <<kind, call, recent, granted, guard>>

\* tries: attempts begun; wake: ticks until the sleep of a waiting call ends;
\* effects: how often Selcom acted on a request of this call; told: its outcome.
Places == {"idle", "slot", "permit", "out", "pause", "ended"}
Outcomes == {"none", "successful", "processing", "ambiguous", "failed", "answer", "error"}
Call == [at : Places, tries : 0..2, wake : Nat, effects : Nat, told : Outcomes]

\* opened: ticks since the breaker opened, or Closed; queue: who waits for a permit.
Closed == -1
Guard == [free : 0..Concurrent, queue : Seq(Calls), failures : Nat, opened : Int]

At(c, p) == call[c].at = p
-----------------------------------------------------------------------------
(***************************************************************************)
(* The throttle.                                                           *)
(***************************************************************************)
\* _breaker_is_open: the cooldown over, the breaker is closed and forgets.
CooledDown(g) == IF g.opened >= Cooldown THEN [g EXCEPT !.failures = 0, !.opened = Closed] ELSE g
IsOpen(g) == g.opened # Closed

\* The slots, oldest first, without those at the front that are older than limit.
First(slots, limit) == CHOOSE i \in 1..Len(slots) + 1 :
  /\ i \in DOMAIN slots => slots[i] <= limit
  /\ \A j \in 1..i - 1 : slots[j] > limit
Since(slots, limit) == SubSeq(slots, First(slots, limit), Len(slots))

\* Mutant: a slot expires a tick early.
FreshEarly(slots) == Since(slots, Window - 1)
Fresh(slots) == Since(slots, Window)

Least(a, b) == IF a < b THEN a ELSE b

\* Semaphore.acquire: those who wait are served in turn.
Permit(c, g) == g.free > 0 /\ g.queue = <<>>
Acquired(c, g) == IF Permit(c, g) THEN [g EXCEPT !.free = @ - 1]
                                  ELSE [g EXCEPT !.queue = Append(@, c)]

\* _await_rate_slot, then the semaphore, from a guard g that was found closed.
AskSlot(c, g) ==
  LET slots == Fresh(recent)
      granting == Len(slots) < PerMinute
  IN /\ recent' = IF granting THEN Append(slots, 0) ELSE slots
     /\ granted' = IF granting THEN Append(granted, 0) ELSE granted
     /\ guard' = IF granting THEN Acquired(c, g) ELSE g
     /\ call' = [call EXCEPT
          ![c].at = IF ~granting THEN "slot" ELSE IF Permit(c, g) THEN "out" ELSE "permit",
          ![c].wake = IF granting THEN 0 ELSE Least(Window - Head(slots), Poll),
          ![c].tries = IF At(c, "slot") THEN @ ELSE @ + 1]

\* Mutant: the permit goes back, and nobody is told.
ReleasedSilently(g) == [g EXCEPT !.free = @ + 1]

\* Semaphore.release hands the permit to the first who waits.
Released(g) == IF g.queue = <<>> THEN [g EXCEPT !.free = @ + 1] ELSE [g EXCEPT !.queue = Tail(@)]

\* record_success, record_failure
Recorded(failed, g) ==
  IF ~failed THEN [g EXCEPT !.failures = 0]
  ELSE [g EXCEPT !.failures = Least(@ + 1, Threshold),
                 !.opened = IF g.failures + 1 >= Threshold /\ @ = Closed THEN 0 ELSE @]
-----------------------------------------------------------------------------
(***************************************************************************)
(* What Selcom answers, and what the callers are told.                     *)
(***************************************************************************)
\* Bodies of a 2xx answer in the documented form, and the answers that are none:
\* 502 to 504, any other status from 400, a refused connection, no answer in time,
\* a body that is not JSON.
Bodies == {[text |-> "SUCCESS", code |-> "000"], [text |-> "PENDING", code |-> "111"],
           [text |-> "INPROGRESS", code |-> "927"], [text |-> "AMBIGUOUS", code |-> "999"],
           [text |-> "FAIL", code |-> "other"]}
Faults == {[text |-> f, code |-> "none"] :
             f \in {"gateway", "status", "unreachable", "timeout", "garbled"}}

\* Whether Selcom acted: it is truthful where it is definite.
Acted(a) == CASE a.code \in {"000", "111", "927"} -> {TRUE}
              [] a.code = "other" \/ a.text = "unreachable" -> {FALSE}
              [] OTHER -> BOOLEAN

\* Mutant: 111 and 927, the normal answers, are forgotten.
WalletStatusShort(b) == IF b.code = "000" \/ b.text = "SUCCESS" THEN "successful"
                        ELSE IF b.code = "999" THEN "ambiguous" ELSE "failed"

\* _map_wallet_payment_status
WalletStatus(b) == CASE b.code = "000" \/ b.text = "SUCCESS" -> "successful"
                     [] b.code \in {"111", "927"} -> "processing"
                     [] b.code = "999" -> "ambiguous"
                     [] OTHER -> "failed"

\* _extract_status of the payout client: the text first, then the code.
PayoutStatus(b) == CASE b.text \in {"SUCCESS", "COMPLETED"} -> "successful"
                     [] b.text \in {"PENDING", "INPROGRESS", "ACCEPTED"} -> "processing"
                     [] b.text \in {"AMBIGUOUS", "UNKNOWN"} -> "ambiguous"
                     [] b.text = "FAIL" -> "failed"
                     [] OTHER -> WalletStatus(b)

\* extract_status of the older client.
LegacyTold(b) == CASE b.text \in {"SUCCESS", "COMPLETED"} -> "successful"
                   [] b.text = "PENDING" -> "processing"
                   [] OTHER -> "failed"

\* An accepted push of the older client is processing whatever its body says; a
\* lookup never raises: no name is an answer.
Read(k, a) == CASE k.name \in {"wallet", "pesa"} -> WalletStatus(a)
                [] k.name = "payout" -> PayoutStatus(a)
                [] k.name = "push" -> "processing"
                [] k.name = "query" -> LegacyTold(a)
                [] OTHER -> "answer"
Told(k, a) == IF k.swallows THEN "answer" ELSE IF a \in Faults THEN "error" ELSE Read(k, a)

\* Only what raises inside the guard counts.
Raises(k, a) == ~k.swallows /\ a.text \in Lost

Again(c, a) == call[c].tries < 2 /\ a.text \in kind[c].again
-----------------------------------------------------------------------------
(***************************************************************************)
(* The steps of a call.                                                    *)
(***************************************************************************)
\* Each attempt enters the guard anew; an open breaker ends the call.
Enter(c) ==
  /\ At(c, "idle") \/ (At(c, "pause") /\ call[c].wake = 0)
  /\ kind[c].guarded
  /\ UNCHANGED kind
  /\ LET g == CooledDown(guard)
     IN IF IsOpen(g)
        THEN /\ call' = [call EXCEPT ![c].at = "ended",
                                     ![c].told = IF kind[c].swallows THEN "answer" ELSE "error"]
             /\ guard' = g
             /\ UNCHANGED <<recent, granted>>
        ELSE AskSlot(c, g)

\* The payout client sends at once.
SendUnguarded(c) ==
  /\ At(c, "idle") /\ ~kind[c].guarded
  /\ call' = [call EXCEPT ![c].at = "out", ![c].tries = 1]
  /\ UNCHANGED <<kind, recent, granted, guard>>

\* The sleep of a call without a slot is over: it asks for one, not for the breaker.
PollSlot(c) == At(c, "slot") /\ call[c].wake = 0 /\ AskSlot(c, guard) /\ UNCHANGED kind

\* The end of an attempt: the guard is left, then the answer is read.
Answered(c, a, acted) ==
  [call EXCEPT
     ![c].at = IF Again(c, a) THEN "pause" ELSE "ended",
     ![c].wake = IF Again(c, a) THEN 1 ELSE 0,
     ![c].told = IF Again(c, a) THEN @ ELSE Told(kind[c], a),
     ![c].effects = IF acted /\ kind[c].pulls THEN @ + 1 ELSE @]

Answer(c) ==
  /\ At(c, "out")
  /\ \E a \in Bodies \cup Faults : \E acted \in Acted(a) :
       LET answered == Answered(c, a, acted)
       IN IF ~kind[c].guarded
          THEN call' = answered /\ UNCHANGED guard
          ELSE /\ guard' = Recorded(Raises(kind[c], a), Released(guard))
               /\ call' = IF guard'.queue = guard.queue THEN answered
                          ELSE [answered EXCEPT ![Head(guard.queue)].at = "out"]
  /\ UNCHANGED <<kind, recent, granted>>

Older(limit, age) == Least(age + 1, limit)
Tick ==
  /\ recent' = [i \in DOMAIN recent |-> Older(Window + 1, recent[i])]
  /\ granted' = Since([i \in DOMAIN granted |-> granted[i] + 1], Window)
  /\ guard' = [guard EXCEPT !.opened = IF @ = Closed THEN @ ELSE Older(Cooldown, @)]
  /\ call' = [c \in Calls |-> [call[c] EXCEPT !.wake = IF @ = 0 THEN 0 ELSE @ - 1]]
  /\ UNCHANGED kind

Init ==
  /\ kind \in Mixes
  /\ call = [c \in Calls |-> [at |-> "idle", tries |-> 0, wake |-> 0, effects |-> 0, told |-> "none"]]
  /\ recent = <<>> /\ granted = <<>>
  /\ guard = [free |-> Concurrent, queue |-> <<>>, failures |-> 0, opened |-> Closed]

GoesOn(c) == PollSlot(c) \/ Answer(c) \/ (At(c, "pause") /\ Enter(c))
Next == Tick \/ \E c \in Calls : Enter(c) \/ SendUnguarded(c) \/ PollSlot(c) \/ Answer(c)

\* Time passes, sleepers wake, and every request is answered or times out.
Fairness == WF_vars(Tick) /\ \A c \in Calls : WF_vars(GoesOn(c))
Spec == Init /\ [][Next]_vars /\ Fairness
-----------------------------------------------------------------------------
TypeOK ==
  /\ kind \in [Calls -> Kinds]
  /\ call \in [Calls -> Call]
  /\ recent \in Seq(0..Window + 1)
  /\ granted \in Seq(0..Window)
  /\ guard \in Guard

\* A call that moves money is acted on once by Selcom, whatever was answered,
\* lost or repeated (process_wallet_payment, process_transaction; the older
\* client's pushes are not so, see LegacyPushRetries.cfg).
PromptedOnce == \A c \in Calls : call[c].effects <= 1

\* In no stretch of a window's length are more slots granted than the limit,
\* retries and waiting calls included (_await_rate_slot).
RateHeld == Len(granted) <= PerMinute

\* A caller told that its push or payout failed may forget it: Selcom did not act.
FailedMeansUndone == \A c \in Calls : call[c].told = "failed" => call[c].effects = 0

\* Every call that has begun ends: no permit is lost, no waiting call forgotten.
CallEnds == \A c \in Calls : ~At(c, "idle") ~> At(c, "ended")

\* While the breaker is open no request goes out (outbound_guard.py:17-18). The
\* code checks it before the wait for a slot and a permit, and does not keep this.
QuietWhileOpen ==
  [][\A c \in Calls : kind[c].guarded /\ ~At(c, "out") /\ At(c, "out")'
                      => ~IsOpen(guard)]_vars
=============================================================================
