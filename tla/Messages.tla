------------------------------- MODULE Messages -------------------------------
(***************************************************************************)
(* Text messages and the daily email: the queue sms_messages and the sweep *)
(* that drains it (services/sms_messages.py, sms_dispatch.py,              *)
(* sms_provider.py), announcements (sms_campaigns.py), the provider's      *)
(* callbacks (routers/admin_sms.py) and daily_notification_summary.py.     *)
(*                                                                         *)
(* Two sweeps may overlap here, as they do when a lease is lost: what must *)
(* hold rests on the conditional updates, the unique rows and the          *)
(* idempotency key.                                                        *)
(***************************************************************************)
EXTENDS Integers, Sequences, SequencesExt, FiniteSets, FiniteSetsExt

CONSTANTS
  Workers,      \* replicas running the sweeps
  SuperAdmins,  \* working on announcements
  Owners,       \* merchants, who are reached by the phone of their owner
  Operators,    \* super_admin_sms_numbers: who is told of registrations and payouts
  Phone,        \* [Owners \cup Operators -> a number, or NoNumber]  some are shared
  NoNumber,     \* no usable number
  SmsAttempts,  \* MAX_ATTEMPTS
  MaxDrafts,    \* bound: announcements
  SmsStarts,    \* set of SmsStart: bounds of a behaviour
  SmsFaults     \* subset of SmsFaultNames

\* "crash": a worker is killed; "nosave": an outcome cannot be written; "noconfig":
\* a sweep finds no API key; "slow": a lock expires under a worker that is alive.
SmsFaultNames == {"crash", "nosave", "noconfig", "slow"}

VARIABLES
  msgs,       \* Seq(Message)   sms_messages, oldest first
  campaigns,  \* Seq(Campaign)  sms_campaigns
  worker,     \* [Workers -> Sweep]
  desk,       \* [SuperAdmins -> Desk]  a dispatch_campaign in progress
  summary,    \* [Owners -> Summary]  yesterday's row, and the emails sent
  spare       \* SmsStart  what may still happen

\* resolve_recipient; and resolve_recipients, which takes one merchant of each
\* number: the others are left out of an announcement, not of an alert.
Reachable == {m \in Owners : Phone[m] # NoNumber}
Numbers == {Phone[m] : m \in Reachable}
Recipients == {CHOOSE m \in Owners : Phone[m] = p : p \in Numbers}

smsVars == <<msgs, campaigns, worker, desk, summary, spare>>
rest == <<campaigns, desk, summary>>

SmsStart == [alerts : Nat, ops : Nat, drafts : Nat, edits : Nat, retries : Nat, limits : Nat,
          reports : Nat, days : Nat, faults : Nat]
MaxMessages == Max({s.alerts + s.ops + s.drafts * Cardinality(Reachable) : s \in SmsStarts})
Use(what) == spare[what] > 0 /\ spare' = [spare EXCEPT ![what] = @ - 1]
SmsFault(f) == f \in SmsFaults /\ Use("faults")

\* camp: its announcement, 0 for an alert; known: the provider's id is stored; cb:
\* a callback was applied; texts and took: how often the provider sent it, and
\* what it answered first; news: what it reported since, in that order; told: which
\* reports arrived.
Message == [camp : Nat, to : Owners \cup Operators, text : Nat,
            status : {"queued", "sending", "sent", "pending", "failed", "unknown", "skipped"},
            attempts : Nat, due : BOOLEAN, lock : BOOLEAN, known : BOOLEAN, cb : BOOLEAN,
            texts : Nat, took : {"none", "sent", "pending"},
            news : Seq({"pending", "sent", "failed"}), told : SUBSET Nat]
New(camp, m, text, status) ==
  [camp |-> camp, to |-> m, text |-> text, status |-> status, attempts |-> 0, due |-> TRUE,
   lock |-> FALSE, known |-> FALSE, cb |-> FALSE, texts |-> 0, took |-> "none",
   news |-> <<>>, told |-> {}]
Campaign == [status : {"draft", "sending", "sent", "deleted"}, text : Nat]

\* todo: the rows as they were read; purpose: which rows; result: not written yet.
Resting == [at |-> "sleep", purpose |-> "none", todo |-> {}, result |-> "none"]
Away == [at |-> "away", c |-> 0, text |-> 0, todo |-> {}]
\* asking: the sweeps between their look at the row and their insert.
NoMail == [row |-> "none", asking |-> 0, emails |-> 0]

\* The row a sweep is at: the oldest first.
Row(w) == CHOOSE r \in worker[w].todo : \A q \in worker[w].todo : r.i <= q.i
Is(w, p) == worker[w].at = p
MovesTo(w, p) == worker' = [worker EXCEPT ![w].at = p]
-----------------------------------------------------------------------------
(***************************************************************************)
(* What puts messages in the queue.                                        *)
(***************************************************************************)
\* An alert is one row per subject and recipient, by a unique index or its key; the
\* row of a recipient without a usable number says so.
InsertAlert(x) ==
  msgs' = IF \E i \in DOMAIN msgs : msgs[i].camp = 0 /\ msgs[i].to = x THEN msgs
          ELSE Append(msgs, New(0, x, 0, IF Phone[x] # NoNumber THEN "queued" ELSE "skipped"))

\* A welcome, or the confirmation of a payout.
EnqueueAlert(m) == Use("alerts") /\ InsertAlert(m) /\ UNCHANGED <<rest, worker>>

\* A registration, a withdrawal that waits for an operator or one that was paid
\* without: the turn of one of their numbers.
EnqueueAdminAlert(o) == Use("ops") /\ InsertAlert(o) /\ UNCHANGED <<rest, worker>>

\* create_draft, and duplicate_draft of any announcement.
CreateDraft ==
  /\ Use("drafts") /\ Len(campaigns) < MaxDrafts
  /\ \E text \in {1} \cup {campaigns[c].text : c \in DOMAIN campaigns} :
       campaigns' = Append(campaigns, [status |-> "draft", text |-> text])
  /\ UNCHANGED <<msgs, worker, desk, summary>>

\* update_draft and delete_draft: both conditional on the draft.
UpdateDraft(c) ==
  /\ campaigns[c].status = "draft" /\ Use("edits")
  /\ \E status \in {"draft", "deleted"} :
       campaigns' = [campaigns EXCEPT ![c].status = status, ![c].text = @ + 1]
  /\ UNCHANGED <<msgs, worker, desk, summary>>

\* dispatch_campaign reads the announcement ...
Send(a, c) ==
  /\ desk[a].at = "away" /\ campaigns[c].status = "draft"
  /\ desk' = [desk EXCEPT ![a] = [Away EXCEPT !.at = "claim", !.c = c, !.text = campaigns[c].text]]
  /\ UNCHANGED <<msgs, campaigns, worker, summary, spare>>

\* Mutant: the announcement is taken without asking whether it is still a draft.
ClaimCampaignAlways(a) ==
  /\ desk[a].at = "claim"
  /\ campaigns' = [campaigns EXCEPT ![desk[a].c].status = "sending"]
  /\ desk' = [desk EXCEPT ![a].at = "queue", ![a].todo = Recipients]
  /\ UNCHANGED <<msgs, worker, summary, spare>>

\* ... takes it, if it is still a draft, and resolves the recipients ...
ClaimCampaign(a) ==
  LET c == desk[a].c IN
  /\ desk[a].at = "claim"
  /\ IF campaigns[c].status = "draft"
     THEN /\ campaigns' = [campaigns EXCEPT ![c].status = "sending"]
          /\ desk' = [desk EXCEPT ![a].at = "queue", ![a].todo = Recipients]
     ELSE desk' = [desk EXCEPT ![a] = Away] /\ UNCHANGED campaigns
  /\ UNCHANGED <<msgs, worker, summary, spare>>

\* ... and queues one message after the other, with the text it read.
QueueRecipient(a) ==
  /\ desk[a].at = "queue" /\ desk[a].todo # {}
  /\ \E m \in desk[a].todo :
       /\ msgs' = Append(msgs, New(desk[a].c, m, desk[a].text, "queued"))
       /\ desk' = [desk EXCEPT ![a].todo = @ \ {m}]
  /\ UNCHANGED <<campaigns, worker, summary, spare>>

FinishCampaign(a) ==
  /\ desk[a].at = "queue" /\ desk[a].todo = {}
  /\ campaigns' = [campaigns EXCEPT ![desk[a].c].status = "sent"]
  /\ desk' = [desk EXCEPT ![a] = Away]
  /\ UNCHANGED <<msgs, worker, summary, spare>>
-----------------------------------------------------------------------------
(***************************************************************************)
(* The sweep.                                                              *)
(***************************************************************************)
\* Rows whose lock has expired go back to the queue.
ReleaseExpiredClaims(w) ==
  /\ Is(w, "sleep")
  /\ msgs' = [i \in DOMAIN msgs |-> IF msgs[i].status = "sending" /\ ~msgs[i].lock
                                    THEN [msgs[i] EXCEPT !.status = "queued"] ELSE msgs[i]]
  /\ MovesTo(w, "read")
  /\ UNCHANGED <<rest, spare>>

\* Mutant: a purpose is missing from the list.
DispatchOrderShort == <<"announcements">>

DispatchOrder == <<"alerts", "announcements">>
PurposeOf(i) == IF msgs[i].camp = 0 THEN "alerts" ELSE "announcements"
AfterPurpose(p) ==
  LET k == IF p \in Range(DispatchOrder) THEN CHOOSE k \in DOMAIN DispatchOrder : DispatchOrder[k] = p ELSE 0
  IN  IF k < Len(DispatchOrder) THEN DispatchOrder[k + 1] ELSE "none"

\* The queue is read once per purpose.
Claimable(w) ==
  LET p == AfterPurpose(worker[w].purpose)
      rows == {i \in DOMAIN msgs : /\ PurposeOf(i) = p
                                   /\ msgs[i].status \in {"queued", "failed"}
                                   /\ msgs[i].attempts < SmsAttempts /\ msgs[i].due}
  IN
  /\ Is(w, "read")
  /\ worker' = [worker EXCEPT ![w] =
       IF p = "none" THEN Resting
       ELSE [Resting EXCEPT !.at = IF rows = {} THEN "read" ELSE "claim", !.purpose = p,
               !.todo = {[i |-> k, status |-> msgs[k].status, attempts |-> msgs[k].attempts]
                         : k \in rows}]]
  /\ UNCHANGED <<msgs, rest, spare>>

DropRow(w) ==
  worker' = [worker EXCEPT ![w].todo = @ \ {Row(w)}, ![w].result = "none",
                           ![w].at = IF worker[w].todo = {Row(w)} THEN "read" ELSE "claim"]

\* Mutant: the row is taken as it is found.
StillAsReadIgnored(row) == row.i \in DOMAIN msgs

\* _claim: a conditional update on the status that was read.
StillAsRead(row) == msgs[row.i].status = row.status
ClaimMessage(w) ==
  LET i == Row(w).i IN
  /\ Is(w, "claim")
  /\ IF StillAsRead(Row(w))
     THEN /\ msgs' = [msgs EXCEPT ![i].status = "sending", ![i].lock = TRUE,
                                  ![i].attempts = Row(w).attempts + 1]
          /\ MovesTo(w, "send")
     ELSE DropRow(w) /\ UNCHANGED msgs
  /\ UNCHANGED <<rest, spare>>

\* The sweep ends early: our own rate limit, which puts the row back, or - a
\* fault - a missing configuration, which leaves it as it is.
StopSweep(w) ==
  /\ Is(w, "send")
  /\ \E configured \in {TRUE} \cup {f # "noconfig" : f \in SmsFaults} :
       IF configured
       THEN /\ msgs' = [msgs EXCEPT ![Row(w).i].status = "queued", ![Row(w).i].lock = FALSE,
                                    ![Row(w).i].attempts = Row(w).attempts]
            /\ Use("limits")
       ELSE Use("faults") /\ UNCHANGED msgs
  /\ worker' = [worker EXCEPT ![w] = Resting]
  /\ UNCHANGED rest

\* The provider, by what services/sms_provider.py expects of it: a key it has seen
\* is answered as before and sent no second time; a time-out says nothing.
SmsAnswers(took) ==
  IF took = "none" THEN {"sent", "pending", "failed", "config", "throttled", "unknown", "lost"}
                   ELSE {IF took = "sent" THEN "duplicate" ELSE "pending", "unknown"}
SendSms(w) ==
  LET i == Row(w).i IN
  /\ Is(w, "send")
  /\ \E answer \in SmsAnswers(msgs[i].took) :
       LET took == IF msgs[i].took # "none" THEN msgs[i].took
                   ELSE IF answer \in {"sent", "pending"} THEN answer
                   ELSE IF answer = "lost" THEN "sent" ELSE "none" IN
       /\ msgs' = [msgs EXCEPT ![i].took = took,
                               ![i].texts = IF took # msgs[i].took THEN @ + 1 ELSE @]
       /\ worker' = [worker EXCEPT ![w].at = "save",
                       ![w].result = IF answer = "lost" THEN "unknown" ELSE answer]
  /\ UNCHANGED <<rest, spare>>

\* _record, with the attempts that were read.
Outcome(result, n) ==
  CASE result \in {"sent", "duplicate"} -> [status |-> "sent", attempts |-> n, due |-> TRUE]
    [] result = "pending"   -> [status |-> "pending", attempts |-> n, due |-> TRUE]
    [] result = "config"    -> [status |-> "failed", attempts |-> SmsAttempts, due |-> FALSE]
    [] result = "throttled" -> [status |-> "queued", attempts |-> n - 1, due |-> FALSE]
    [] result = "unknown"   -> [status |-> IF n >= SmsAttempts THEN "unknown" ELSE "queued",
                                attempts |-> n, due |-> FALSE]
    [] result = "failed"    -> [status |-> "failed", attempts |-> n, due |-> FALSE]
RecordOutcome(w) ==
  LET i == Row(w).i
      out == Outcome(worker[w].result, Row(w).attempts + 1)
  IN
  /\ Is(w, "save")
  /\ \E saved \in {TRUE} \cup {f # "nosave" : f \in SmsFaults} :
       IF saved
       THEN /\ msgs' = [msgs EXCEPT
                 ![i].status = out.status, ![i].due = out.due, ![i].lock = FALSE,
                 ![i].attempts = IF worker[w].result \in {"config", "throttled"}
                                 THEN out.attempts ELSE @,
                 ![i].known = @ \/ worker[w].result \in {"sent", "duplicate", "pending"}]
            /\ UNCHANGED spare
       ELSE Use("faults") /\ UNCHANGED msgs
  /\ DropRow(w)
  /\ UNCHANGED rest

\* Time passes: a backoff is over; a lock expires, with nobody behind it unless
\* "slow".
RetryDue(i) ==
  /\ msgs[i].status \in {"queued", "failed"} /\ ~msgs[i].due /\ msgs[i].attempts < SmsAttempts
  /\ msgs' = [msgs EXCEPT ![i].due = TRUE]
  /\ UNCHANGED <<rest, worker, spare>>
LockExpires(i) ==
  /\ msgs[i].lock
  /\ \A w \in Workers : worker[w].at \in {"send", "save"} /\ Row(w).i = i => "slow" \in SmsFaults
  /\ msgs' = [msgs EXCEPT ![i].lock = FALSE]
  /\ UNCHANGED <<rest, worker, spare>>

KillSweep(w) ==
  /\ ~Is(w, "sleep") /\ SmsFault("crash")
  /\ worker' = [worker EXCEPT ![w] = Resting]
  /\ UNCHANGED <<msgs, rest>>
-----------------------------------------------------------------------------
(***************************************************************************)
(* After the sweep.                                                        *)
(***************************************************************************)
\* POST /messages/{id}/retry, conditional on the failure.
RetryMessage(i) ==
  /\ msgs[i].status = "failed" /\ Use("retries")
  /\ msgs' = [msgs EXCEPT ![i].status = "queued", ![i].attempts = 0, ![i].due = TRUE]
  /\ UNCHANGED <<rest, worker>>

\* The provider reports on what it took: perhaps "pending", then how it ended.
Report(i) ==
  /\ msgs[i].took # "none" /\ Use("reports")
  /\ \E what \in {"pending", "sent", "failed"} :
       /\ msgs[i].news # <<>> => Last(msgs[i].news) = "pending" /\ what # "pending"
       /\ msgs' = [msgs EXCEPT ![i].news = Append(@, what)]
  /\ UNCHANGED <<rest, worker>>

\* POST /callbacks/oasis: each report once, in any order.  It is applied if the
\* row can be found and nothing was applied before.
Callback(i) ==
  /\ \E k \in DOMAIN msgs[i].news \ msgs[i].told :
       msgs' = [msgs EXCEPT
         ![i].told = @ \cup {k},
         ![i].status = IF msgs[i].known /\ ~msgs[i].cb THEN msgs[i].news[k] ELSE @,
         ![i].cb = @ \/ msgs[i].known]
  /\ UNCHANGED <<rest, worker, spare>>
-----------------------------------------------------------------------------
(***************************************************************************)
(* The daily email.  Each merchant's turn in a sweep is three steps; what  *)
(* two sweeps share is the row of (merchant, day).                         *)
(***************************************************************************)
\* Not claimed yet, and the preference still stands; quiet days and merchants
\* without an address are claimed as skipped.
AlreadyClaimed(m) == summary[m].row # "none"
Consider(m) ==
  /\ Use("days") /\ ~AlreadyClaimed(m)
  /\ summary' = [summary EXCEPT ![m].asking = @ + 1]
  /\ UNCHANGED <<msgs, campaigns, worker, desk>>

\* Mutant: the row is written, not inserted.
ClaimDayTwice(m) ==
  /\ summary[m].asking > 0
  /\ summary' = [summary EXCEPT ![m].row = "sent", ![m].asking = @ - 1, ![m].emails = @ + 1]
  /\ UNCHANGED <<msgs, campaigns, worker, desk, spare>>

\* The insert is the claim; then the email goes out, or fails and is not retried.
ClaimDay(m) ==
  /\ summary[m].asking > 0
  /\ \E row \in {"skipped", "sent"}, sent \in {0, 1} :
       /\ row = "skipped" => sent = 0
       /\ summary' = [summary EXCEPT
            ![m].row = IF AlreadyClaimed(m) THEN @ ELSE row,
            ![m].asking = @ - 1,
            ![m].emails = IF AlreadyClaimed(m) THEN @ ELSE @ + sent]
  /\ UNCHANGED <<msgs, campaigns, worker, desk, spare>>
-----------------------------------------------------------------------------
SmsInit ==
  /\ msgs = <<>> /\ campaigns = <<>>
  /\ worker = [w \in Workers |-> Resting]
  /\ desk = [a \in SuperAdmins |-> Away]
  /\ summary = [m \in Owners |-> NoMail]
  /\ spare \in SmsStarts

Sweep(w) == \/ ReleaseExpiredClaims(w) \/ Claimable(w) \/ ClaimMessage(w)
            \/ SendSms(w) \/ RecordOutcome(w)
Dispatch(a) == ClaimCampaign(a) \/ QueueRecipient(a) \/ FinishCampaign(a)

SmsNext ==
  \/ \E w \in Workers : Sweep(w) \/ StopSweep(w) \/ KillSweep(w)
  \/ \E m \in Owners : EnqueueAlert(m) \/ Consider(m) \/ ClaimDay(m)
  \/ \E o \in Operators : EnqueueAdminAlert(o)
  \/ CreateDraft
  \/ \E c \in DOMAIN campaigns : UpdateDraft(c) \/ \E a \in SuperAdmins : Send(a, c)
  \/ \E a \in SuperAdmins : Dispatch(a)
  \/ \E i \in DOMAIN msgs : RetryDue(i) \/ LockExpires(i) \/ RetryMessage(i)
                            \/ Report(i) \/ Callback(i)

\* The sweeps run on a timer, and backoffs end.
SmsSpec == /\ SmsInit /\ [][SmsNext]_smsVars
           /\ \A w \in Workers : WF_smsVars(Sweep(w))
           /\ \A i \in 1..MaxMessages : WF_smsVars(i \in DOMAIN msgs /\ RetryDue(i))
-----------------------------------------------------------------------------
\* "the recipients are frozen exactly once": whoever clicks Send how often, and
\* whatever is retried, a number gets one text of an announcement, a merchant or an
\* operator one of an alert, a merchant one email a day, "sent once, guaranteed by
\* the database".
TextsOf(c, to) ==
  LET rows == {i \in DOMAIN msgs : msgs[i].camp = c /\ msgs[i].to \in to}
  IN  Cardinality(UNION {{i} \X (1..msgs[i].texts) : i \in rows})
ToldOnce ==
  /\ \A x \in Owners \cup Operators : TextsOf(0, {x}) <= 1
  /\ \A c \in 1..MaxDrafts, p \in Numbers : TextsOf(c, {m \in Owners : Phone[m] = p}) <= 1
  /\ \A m \in Owners : summary[m].emails <= 1

\* A message the provider has taken, or may have, does not go back to the queue
\* by itself: not by a second sweep, an expired lock or a late answer.
Taken(i) == msgs[i].status \in {"sent", "pending", "unknown"}
TakenIsFinal == [][\A i \in DOMAIN msgs : Taken(i) => msgs'[i].status \notin {"queued", "sending"}]_smsVars

\* "a purpose missing from here is a message that queues and is never sent": what
\* is queued and has attempts left is offered to the provider.
Waits(i) == i \in DOMAIN msgs /\ msgs[i].status = "queued" /\ msgs[i].attempts < SmsAttempts
QueuedIsDispatched == \A i \in 1..MaxMessages : Waits(i) ~> ~Waits(i)

\* update_draft: "\"save\" and \"send\" arriving close together is exactly how a
\* campaign gets edited mid-dispatch": what was sent is what the record shows.
SentAsWritten == \A i \in DOMAIN msgs :
  LET c == msgs[i].camp IN
  c # 0 /\ campaigns[c].status = "sent" => msgs[i].text = campaigns[c].text

\* "Move the message on, if we can find it and the event is newer": once every
\* report has arrived, the message shows the last one.
NewestReportShows == \A i \in DOMAIN msgs :
  msgs[i].cb /\ msgs[i].told = DOMAIN msgs[i].news /\ msgs[i].status \notin {"queued", "sending"}
    => msgs[i].status = Last(msgs[i].news)
=============================================================================
