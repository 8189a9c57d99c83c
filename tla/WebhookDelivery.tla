---------------------------- MODULE WebhookDelivery ----------------------------
(***************************************************************************)
(* The queue of outbound merchant webhooks (services/webhooks.py,          *)
(* webhook_delivery.py) and the scheduler lease that keeps one replica at a *)
(* time sweeping it (services/scheduler_lease.py, the loops of main.py).   *)
(*                                                                         *)
(* Every replica runs the loop.  A sweep works in a thread of its own on   *)
(* rows it read at its start, and calls the merchant before it records the *)
(* answer; between any two of its statements the other replica moves.      *)
(***************************************************************************)
EXTENDS Integers, Sequences, FiniteSets, FiniteSetsExt

CONSTANTS
  Replicas, NoReplica,  \* processes of the API, and no process
  Merchants,
  Admins,       \* threads of administrators
  MaxAttempts,  \* _MAX_ATTEMPTS
  BatchSize,    \* _BATCH_SIZE
  ScanLimit,    \* _SCAN_LIMIT
  Starts,       \* set of Start: where a behaviour begins and how far it goes
  Faults        \* subset of FaultNames

ASSUME BatchAssumption == BatchSize \in Nat

\* "crash": a process is killed; "db": the answer cannot be recorded;
\* "shutdown": a process is asked to stop during a sweep; "overrun": a sweep
\* outlasts its lease; "key": the box key does not open a merchant's secret.
FaultNames == {"crash", "db", "shutdown", "overrun", "key"}

VARIABLES
  events,    \* Seq(Event)                 webhook_events, oldest first
  endpoint,  \* [Merchants -> BOOLEAN]     merchants.webhook_url is set
  secret,    \* [Merchants -> {"none", "set", "broken"}]
  lease,     \* [row, live : BOOLEAN, holder : Replicas \cup {NoReplica}]
  sweep,     \* [Replicas -> Sweep]
  resend,    \* [Admins -> Nat]            the event an administrator read to resend
  left       \* [events, edits, faults : Nat]  what may still happen

vars == <<events, endpoint, secret, lease, sweep, resend, left>>
config == <<endpoint, secret, resend>>

\* legacy: the merchants whose endpoint is older than the rule that it be signed;
\* events, edits, faults: bounds on what is enqueued, configured and goes wrong.
Start == [legacy : SUBSET Merchants, events : Nat, edits : Nat, faults : Nat]
MaxEvents == Max({s.events : s \in Starts})

\* accepted: how often the merchant's server answered with success; lost: how
\* many of those answers were never recorded.
Event == [m : Merchants, status : {"pending", "retrying", "delivered", "failed"},
          attempts : Nat, due : BOOLEAN, accepted : Nat, lost : Nat]

\* batch: the rows as they were read; answer: the one not recorded yet; down: the
\* process is shutting down, only the thread is left.
Answers == {"none", "ok", "bad"}
Idle == [at |-> "sleep", batch |-> <<>>, answer |-> "none", down |-> FALSE]

At(r, p) == sweep[r].at = p
To(r, p) == sweep' = [sweep EXCEPT ![r].at = p]
Sweeping(r) == r \in Replicas /\ sweep[r].at \in {"read", "post", "record"}
Spend(what) == left[what] > 0 /\ left' = [left EXCEPT ![what] = @ - 1]
Fault(f) == f \in Faults /\ Spend("faults")
-----------------------------------------------------------------------------
(***************************************************************************)
(* The lease.                                                              *)
(***************************************************************************)
\* Mutant: whoever asks gets the lease.
FreeAlways == lease.row

Free == lease.row /\ ~lease.live

\* _claim: one conditional update.
Claim(r) ==
  /\ sweep[r].at \in {"sleep", "reclaim"}
  /\ IF Free
     THEN /\ lease' = [lease EXCEPT !.holder = r, !.live = TRUE]
          /\ To(r, "read")
     ELSE /\ To(r, IF At(r, "sleep") THEN "probe" ELSE "sleep")
          /\ UNCHANGED lease
  /\ UNCHANGED <<events, config, left>>

\* Mutant: a missing row is taken for a lease somebody holds.
LeaseRowMissingNever(r) == At(r, "probe") /\ To(r, "sleep")
                           /\ UNCHANGED <<events, config, lease, left>>

\* Nothing was updated: held by another, or never created.
LeaseRowMissing(r) == /\ At(r, "probe")
                      /\ To(r, IF lease.row THEN "sleep" ELSE "seed")
                      /\ UNCHANGED <<events, config, lease, left>>

\* The primary key makes all but the first insert fail, which is fine.
Seed(r) ==
  /\ At(r, "seed")
  /\ lease' = IF lease.row THEN lease ELSE [lease EXCEPT !.row = TRUE]
  /\ To(r, "reclaim")
  /\ UNCHANGED <<events, config, left>>

Released(r) == IF lease.holder = r THEN [lease EXCEPT !.live = FALSE] ELSE lease
ReleaseLease(r) ==
  /\ At(r, "release")
  /\ lease' = Released(r)
  /\ sweep' = [sweep EXCEPT ![r] = Idle]
  /\ UNCHANGED <<events, config, left>>

\* Ten minutes pass: without the fault, longer than any sweep.
Expire ==
  /\ lease.live
  /\ Sweeping(lease.holder) => "overrun" \in Faults
  /\ lease' = [lease EXCEPT !.live = FALSE]
  /\ UNCHANGED <<events, config, sweep, left>>
-----------------------------------------------------------------------------
(***************************************************************************)
(* One sweep.                                                              *)
(***************************************************************************)
IsDue(e) == events[e].attempts < MaxAttempts /\ events[e].due

\* The scan window: the oldest rows not settled yet, due or not.
PendingEvents ==
  LET open == {e \in DOMAIN events : events[e].status \in {"pending", "retrying"}}
  IN  {e \in open : Cardinality({d \in open : d < e}) < ScanLimit}
DueEvents == {e \in PendingEvents : IsDue(e)}

\* Mutant: the oldest due events, whoever they belong to.
BatchFairlyOldest(due) == {e \in due : Cardinality({d \in due : d < e}) < BatchSize}

\* Merchants take turns: an event's round is the number of its merchant's own
\* events before it, and within a round the merchant who queued first goes first.
Round(e, due) == Cardinality({d \in due : events[d].m = events[e].m /\ d < e})
Queued(e, due) == Min({d \in due : events[d].m = events[e].m})
Sooner(d, e, due) == \/ Round(d, due) < Round(e, due)
                     \/ Round(d, due) = Round(e, due) /\ Queued(d, due) < Queued(e, due)
BatchFairly(due) == {e \in due : Cardinality({d \in due : Sooner(d, e, due)}) < BatchSize}

AfterSweep(r) == IF sweep[r].down THEN "gone" ELSE "release"

\* The batch in the order of its turns.
InTurn(due) ==
  LET taken == BatchFairly(due) IN
  {q \in [1..Cardinality(taken) -> taken] : \A j, k \in DOMAIN q : j < k => Sooner(q[j], q[k], due)}

\* deliver_pending_webhooks reads the queue once.
ReadQueue(r) ==
  /\ At(r, "read")
  /\ \E batch \in InTurn(DueEvents) :
       sweep' = [sweep EXCEPT
         ![r].batch = [k \in DOMAIN batch |-> [e |-> batch[k], attempts |-> events[batch[k]].attempts]],
         ![r].at = IF batch # <<>> THEN "post" ELSE AfterSweep(r)]
  /\ UNCHANGED <<events, config, lease, left>>

SecretFor(m) == secret[m]

\* deliver_event up to the answer.  Nothing is sent while the secret the merchant
\* configured cannot be read.
Post(r) ==
  LET e == sweep[r].batch[1].e IN
  /\ At(r, "post")
  /\ \E answer \in IF SecretFor(events[e].m) = "broken" THEN {"bad"} ELSE {"ok", "bad"} :
       /\ sweep' = [sweep EXCEPT ![r].at = "record", ![r].answer = answer]
       /\ events' = [events EXCEPT ![e].accepted = IF answer = "ok" THEN @ + 1 ELSE @]
  /\ UNCHANGED <<config, lease, left>>

\* The thread is through with the first row of its batch.
TakeNext(r) ==
  LET rest == Tail(sweep[r].batch) IN
  sweep' = [sweep EXCEPT ![r].batch = rest, ![r].answer = "none",
              ![r].at = IF rest # <<>> THEN "post" ELSE AfterSweep(r)]

\* ... and from the answer on, with the number of attempts that was read.
Record(r) ==
  LET e == sweep[r].batch[1].e
      n == sweep[r].batch[1].attempts + 1
  IN
  /\ At(r, "record")
  /\ \/ /\ events' = [events EXCEPT
             ![e].status = IF sweep[r].answer = "ok" THEN "delivered"
                           ELSE IF n >= MaxAttempts THEN "failed" ELSE "retrying",
             ![e].attempts = n, ![e].due = FALSE]
        /\ UNCHANGED left
     \/ /\ Fault("db")
        /\ events' = [events EXCEPT ![e].lost = IF sweep[r].answer = "ok" THEN @ + 1 ELSE @]
  /\ TakeNext(r)
  /\ UNCHANGED <<config, lease>>

\* The backoff of a row is over.
BackoffOver(e) ==
  /\ events[e].status = "retrying" /\ ~events[e].due
  /\ events' = [events EXCEPT ![e].due = TRUE]
  /\ UNCHANGED <<config, lease, sweep, left>>
-----------------------------------------------------------------------------
(***************************************************************************)
(* Around the queue.                                                       *)
(***************************************************************************)
\* A payment was made: the merchant is told, if there is an address.
EnqueueWebhookEvent(m) ==
  /\ endpoint[m] /\ Spend("events")
  /\ events' = Append(events, [m |-> m, status |-> "pending", attempts |-> 0, due |-> TRUE,
                               accepted |-> 0, lost |-> 0])
  /\ UNCHANGED <<config, lease, sweep>>

\* resend_merchant_webhook, in a thread: what was given up is queued once more.
ReadToResend(a, e) ==
  /\ resend[a] = 0 /\ events[e].status = "failed" /\ Spend("edits")
  /\ resend' = [resend EXCEPT ![a] = e]
  /\ UNCHANGED <<events, endpoint, secret, lease, sweep>>

Resend(a) ==
  /\ resend[a] # 0
  /\ events' = [events EXCEPT ![resend[a]].status = "retrying", ![resend[a]].attempts = 0,
                              ![resend[a]].due = TRUE]
  /\ resend' = [resend EXCEPT ![a] = 0]
  /\ UNCHANGED <<endpoint, secret, lease, sweep, left>>

\* PATCH /webhook-config: an address, a new secret, or both; no first address
\* without a secret.
UpdateWebhookConfig(m, url, regenerate) ==
  /\ Spend("edits")
  /\ url \/ regenerate
  /\ ~(url /\ ~endpoint[m] /\ secret[m] = "none" /\ ~regenerate)
  /\ endpoint' = [endpoint EXCEPT ![m] = @ \/ url]
  /\ secret' = [secret EXCEPT ![m] = IF regenerate THEN "set" ELSE @]
  /\ UNCHANGED <<events, lease, sweep, resend>>

\* The key the secrets are sealed with is replaced, and put back.
KeyChanges(m) ==
  /\ \/ secret[m] = "set" /\ Fault("key") /\ secret' = [secret EXCEPT ![m] = "broken"]
     \/ secret[m] = "broken" /\ UNCHANGED left /\ secret' = [secret EXCEPT ![m] = "set"]
  /\ UNCHANGED <<events, endpoint, lease, sweep, resend>>

\* A process is killed: its sweep ends where it is and its lease runs on.
Crash(r) ==
  /\ ~At(r, "gone") /\ Fault("crash")
  /\ sweep' = [sweep EXCEPT ![r] = [Idle EXCEPT !.at = "gone"]]
  /\ events' = IF At(r, "record") /\ sweep[r].answer = "ok"
               THEN [events EXCEPT ![sweep[r].batch[1].e].lost = @ + 1] ELSE events
  /\ UNCHANGED <<config, lease>>

\* lifespan cancels the loop where it waits: between two sweeps, or - a fault -
\* during one.  Then its finally clause hands the lease back, while the thread of
\* to_thread is not cancelled with it.
Shutdown(r) ==
  /\ sweep[r].at \in {"sleep"} \cup (IF "shutdown" \in Faults THEN {"read", "post", "record"} ELSE {})
  /\ ~sweep[r].down /\ Spend("faults")
  /\ sweep' = [sweep EXCEPT ![r].down = Sweeping(r), ![r].at = IF @ = "sleep" THEN "gone" ELSE @]
  /\ lease' = IF Sweeping(r) THEN Released(r) ELSE lease
  /\ UNCHANGED <<events, config>>

Boot(r) == /\ At(r, "gone") /\ sweep' = [sweep EXCEPT ![r] = Idle]
           /\ UNCHANGED <<events, config, lease, left>>
-----------------------------------------------------------------------------
Init ==
  /\ events = <<>>
  /\ \E s \in Starts :
       /\ endpoint = [m \in Merchants |-> m \in s.legacy]
       /\ left = [events |-> s.events, edits |-> s.edits, faults |-> s.faults]
  /\ secret = [m \in Merchants |-> "none"]
  /\ lease = [row |-> FALSE, live |-> FALSE, holder |-> NoReplica]
  /\ sweep = [r \in Replicas |-> Idle]
  /\ resend = [a \in Admins |-> 0]

Loop(r) == \/ Claim(r) \/ LeaseRowMissing(r) \/ Seed(r) \/ ReadQueue(r)
           \/ Post(r) \/ Record(r) \/ ReleaseLease(r) \/ Boot(r)

Next ==
  \/ \E r \in Replicas : Loop(r) \/ Crash(r) \/ Shutdown(r)
  \/ \E m \in Merchants : \/ EnqueueWebhookEvent(m) \/ KeyChanges(m)
                          \/ \E u, g \in BOOLEAN : UpdateWebhookConfig(m, u, g)
  \/ \E e \in DOMAIN events : BackoffOver(e) \/ \E a \in Admins : ReadToResend(a, e)
  \/ \E a \in Admins : Resend(a)
  \/ Expire

\* The timers fire, a killed process is started again, and time passes.
Spec == /\ Init /\ [][Next]_vars
        /\ \A r \in Replicas : WF_vars(Loop(r))
        /\ WF_vars(Expire)
        /\ \A e \in 1..MaxEvents : WF_vars(e \in DOMAIN events /\ BackoffOver(e))
-----------------------------------------------------------------------------
\* "A merchant receiving collection.success twice can activate a customer's
\* service twice": after an answer of success an event is sent again only if that
\* answer was never recorded.
AcceptedOnce == \A e \in DOMAIN events : events[e].accepted <= 1 + events[e].lost

\* "Interleaving gives every merchant with something waiting a slot in every
\* sweep": of the merchants within the scan window, if the batch has room for all.
Waiting == {events[e].m : e \in DueEvents}
EveryMerchantServed ==
  [][\A r \in Replicas : At(r, "read") /\ At(r, "post")' /\ Cardinality(Waiting) <= BatchSize
       => Waiting = {events[b.e].m : b \in Range(sweep'[r].batch)}]_vars

\* Every event is delivered or, after the last attempt, given up - also when the
\* lease's row does not exist yet and when a replica is killed with the lease.
EventSettles == \A e \in 1..MaxEvents :
  (e \in DOMAIN events) ~> (e \in DOMAIN events /\ events[e].status \in {"delivered", "failed"})
=============================================================================
