-------------------------- MODULE WithdrawalRequests --------------------------
(***************************************************************************)
(* How a request becomes a row of `disbursements`, and whether the row is  *)
(* paid without a human: the emailed code (services/withdrawal_otp.py), the *)
(* Idempotency-Key (services/idempotency.py), the daily limit and the      *)
(* automation policy (services/disbursements.py, withdrawal_policy.py and  *)
(* the functions of migration 20261031040000).  What happens to a row      *)
(* after that is module Withdrawals.                                       *)
(*                                                                         *)
(* All requests are one merchant's.  Every slot is on a replica of its     *)
(* own, so any two requests interleave between statements; a database      *)
(* function is one step.                                                   *)
(***************************************************************************)
EXTENDS Integers, Sequences, FiniteSets

CONSTANTS
  Slots,         \* requests that can be in progress at once
  Mixes,         \* SUBSET [Slots -> SUBSET OpNames]: what the slots may serve
  Keys,          \* Idempotency-Key values that clients choose
  Amounts,       \* amounts of a withdrawal
  Wallet,        \* the merchant's balance at the start
  DailyLimit,    \* daily_withdrawal_limit_tzs
  Allowed,       \* deployment_automation_limits: the permission,
  HardMax,       \*   the ceiling per withdrawal
  HardRolling,   \*   and the ceiling per day
  Policies,      \* policies an administrator may save
  Stored,        \* the policy in force at the start
  MaxAttempts,   \* withdrawal_otp_max_attempts
  MaxRows, MaxCodes, MaxEdits,  \* bounds: rows, challenges, policy changes
  Faults         \* subset of FaultNames

\* Amounts and limits are whole, non-negative shillings.
ASSUME LimitsAssumption ==
  /\ Amounts \subseteq Nat /\ DailyLimit \in Nat /\ HardRolling \in Nat
  /\ \A q \in Policies \cup {Stored} : q.rolling \in Nat

OpNames == {"create", "verify", "resend", "direct", "policy"}
\* "stamp": the row's clock reading and its insertion are apart; "error": the
\* database function fails; "audit": the audit row fails.
FaultNames == {"stamp", "error", "audit"}

VARIABLES
  rows,       \* Seq(Row)        disbursements, in insertion order
  challenges, \* Seq(Challenge)  merchant_withdrawal_otp_challenges
  keys,       \* [Endpoints \X Keys -> Key]  idempotency_keys
  policy,     \* withdrawal_automation_policy
  clock,      \* Nat  initiated_at of the newest stamp
  blocked,    \* BOOLEAN  the merchant is suspended or has an open alert
  req,        \* [Slots -> Request]
  ops         \* the one of Mixes that holds; it never changes

vars == <<rows, challenges, keys, policy, clock, blocked, req, ops>>
tables == <<rows, challenges, keys, policy>>

Endpoints == {"portal", "api"}
Key == [status : {"free", "in_progress", "completed"}, hash : Amounts \cup {0}, row : Nat]
Free == [status |-> "free", hash |-> 0, row |-> 0]

Row == [key : Endpoints \X Keys, amount : Amounts, at : Nat, recent : BOOLEAN,
        status : {"pending", "paying", "failed", "rejected"},
        auto : BOOLEAN, decided : BOOLEAN]
Challenge == [key : Keys, amount : Amounts, code : Nat, attempts : Nat,
              used : BOOLEAN, locked : BOOLEAN, expired : BOOLEAN]

Places == {"idle", "issue", "check", "mark", "rotate", "claim", "gates", "insert",
           "finalize", "pay", "audit", "complete", "release", "save"}
Off == [on |-> FALSE, max |-> 0, rolling |-> 0]

\* ch: the challenge and seen: what was read of it; right: the code submitted
\* is its newest; key, amount, at, row: the withdrawal; wish, base, ver, sure: a
\* policy change, the policy it was compared with, the version it was made for
\* and its confirmation.
NoWork == [at |-> "idle", ch |-> 0, seen |-> 0, right |-> FALSE, key |-> <<>>, amount |-> 0,
           stamp |-> 0, row |-> 0, wish |-> Off, ver |-> 0, sure |-> FALSE]
-----------------------------------------------------------------------------
(***************************************************************************)
(* Sums over rows.                                                         *)
(***************************************************************************)
Live(i) == rows[i].status \notin {"rejected", "failed"}
Today == {i \in DOMAIN rows : rows[i].recent /\ Live(i)}
\* A sum is counted shilling by shilling.
Units(S) == UNION {{i} \X (1..rows[i].amount) : i \in S}
Total(S) == Cardinality(Units(S))

\* (initiated_at, id) < (v_row.initiated_at, v_row.id); ids are never equal.
Before(i, j) == rows[i].at < rows[j].at \/ (rows[i].at = rows[j].at /\ i < j)
Earlier(j) == {i \in Today : Before(i, j)}

\* calculate_withdrawal_fee: a withdrawal is free of charge.
Reserved(amount) == amount
Available == Wallet - Reserved(Total({i \in DOMAIN rows : rows[i].status = "paying"}))

MinOf(a, b) == IF a < b THEN a ELSE b
\* The deployment's ceilings and the stored policy in one answer.
Effective == [max |-> MinOf(HardMax, policy.max), rolling |-> MinOf(HardRolling, policy.rolling)]
Enabled == Allowed /\ policy.on /\ Effective.max > 0 /\ Effective.rolling > 0

To(s, p) == req' = [req EXCEPT ![s].at = p]
Done(s)  == req' = [req EXCEPT ![s] = NoWork]
Begins(s, op) == req[s] = NoWork /\ op \in ops[s]
At(s, p) == req[s].at = p
-----------------------------------------------------------------------------
(***************************************************************************)
(* The gates: preflight_withdrawal, and again execute_disbursement.        *)
(***************************************************************************)
StandingOk == ~blocked
WithinDaily(amount) == Total(Today) + amount <= DailyLimit
Preflight(amount) == StandingOk /\ WithinDaily(amount) /\ Reserved(amount) <= Available
-----------------------------------------------------------------------------
(***************************************************************************)
(* The emailed code.                                                       *)
(***************************************************************************)
Usable(c) == ~challenges[c].used /\ ~challenges[c].locked

\* POST /withdrawals: the gates; then every live challenge is superseded ...
SupersedeActive(s) ==
  /\ Begins(s, "create") /\ Len(challenges) < MaxCodes
  /\ \E k \in Keys, a \in Amounts :
       /\ Preflight(a)
       /\ req' = [req EXCEPT ![s] = [NoWork EXCEPT !.at = "issue", !.key = <<"portal", k>>,
                                                   !.amount = a]]
  /\ challenges' = [c \in DOMAIN challenges |->
                     [challenges[c] EXCEPT !.locked = @ \/ ~challenges[c].used]]
  /\ UNCHANGED <<rows, keys, policy, clock, blocked, ops>>

\* ... and the new one stored.  (If its email cannot be sent it stays usable.)
CreateChallenge(s) ==
  /\ At(s, "issue") /\ Len(challenges) < MaxCodes
  /\ challenges' = Append(challenges,
       [key |-> req[s].key[2], amount |-> req[s].amount, code |-> 1, attempts |-> 0,
        used |-> FALSE, locked |-> FALSE, expired |-> FALSE])
  /\ Done(s)
  /\ UNCHANGED <<rows, keys, policy, clock, blocked, ops>>

\* Resend: a fresh code on the same challenge, with attempts of its own.
Resend(s) ==
  /\ Begins(s, "resend")
  /\ \E c \in DOMAIN challenges :
       /\ Usable(c) /\ challenges[c].code < 2
       /\ req' = [req EXCEPT ![s] = [NoWork EXCEPT !.at = "rotate", !.ch = c]]
  /\ UNCHANGED <<tables, clock, blocked, ops>>

RotateOtp(s) ==
  /\ At(s, "rotate")
  /\ challenges' = [challenges EXCEPT ![req[s].ch].code = @ + 1, ![req[s].ch].attempts = 0,
                                      ![req[s].ch].expired = FALSE]
  /\ Done(s)
  /\ UNCHANGED <<rows, keys, policy, clock, blocked, ops>>

\* POST /withdrawals/{id}/verify reads the challenge; a used, locked or expired
\* one is refused like a wrong code.
Verify(s) ==
  /\ Begins(s, "verify")
  /\ \E c \in DOMAIN challenges, right \in BOOLEAN :
       /\ Usable(c) /\ ~challenges[c].expired
       /\ req' = [req EXCEPT ![s] = [NoWork EXCEPT !.at = "mark", !.ch = c,
                                       !.seen = challenges[c].attempts + 1, !.right = right]]
  /\ UNCHANGED <<tables, clock, blocked, ops>>

\* verify_otp writes what it made of the code, from the row it read before.
VerifyOtp(s) ==
  LET c == req[s].ch IN
  /\ At(s, "mark")
  /\ \/ /\ req[s].right
        /\ challenges' = [challenges EXCEPT ![c].attempts = req[s].seen, ![c].used = TRUE]
        /\ req' = [req EXCEPT ![s] = [NoWork EXCEPT !.at = "claim",
                     !.key = <<"portal", challenges[c].key>>, !.amount = challenges[c].amount]]
     \/ /\ ~req[s].right
        /\ challenges' = [challenges EXCEPT ![c].attempts = req[s].seen,
                                            ![c].locked = @ \/ req[s].seen >= MaxAttempts]
        /\ Done(s)
  /\ UNCHANGED <<rows, keys, policy, clock, blocked, ops>>
-----------------------------------------------------------------------------
(***************************************************************************)
(* The Idempotency-Key: run_idempotent around execute_disbursement.        *)
(***************************************************************************)
\* POST /v1/disbursements/{method} comes here directly.
Direct(s) ==
  /\ Begins(s, "direct")
  /\ \E k \in Keys, a \in Amounts :
       req' = [req EXCEPT ![s] = [NoWork EXCEPT !.at = "claim", !.key = <<"api", k>>,
                                                !.amount = a]]
  /\ UNCHANGED <<tables, clock, blocked, ops>>

\* Mutant: a key in progress with the same body is taken over.
ClaimKeyInProgress(s) ==
  LET k == req[s].key IN
  /\ At(s, "claim")
  /\ \/ /\ keys[k].status = "free" \/ (keys[k].status = "in_progress"
                                        /\ keys[k].hash = req[s].amount)
        /\ keys' = [keys EXCEPT ![k] = [Free EXCEPT !.status = "in_progress",
                                                    !.hash = req[s].amount]]
        /\ To(s, "gates")
     \/ /\ keys[k].status = "completed"
        /\ Done(s) /\ UNCHANGED keys
  /\ UNCHANGED <<rows, challenges, policy, clock, blocked, ops>>

\* The key's row is unique: whoever inserts it second is told "in progress",
\* like whoever finds it; a completed one is replayed, if the body is the same.
ClaimKey(s) ==
  LET k == req[s].key IN
  /\ At(s, "claim")
  /\ \/ /\ keys[k].status = "free"
        /\ keys' = [keys EXCEPT ![k] = [Free EXCEPT !.status = "in_progress",
                                                    !.hash = req[s].amount]]
        /\ To(s, "gates")
     \/ /\ keys[k].status # "free"
        /\ Done(s) /\ UNCHANGED keys
  /\ UNCHANGED <<rows, challenges, policy, clock, blocked, ops>>

\* Mutant: the row of a failed attempt is left behind.
ReleaseKeyForgotten(s) ==
  At(s, "release") /\ Done(s) /\ UNCHANGED <<tables, clock, blocked, ops>>

\* The handler raised: the key may be tried again.
ReleaseKey(s) ==
  /\ At(s, "release")
  /\ keys' = [keys EXCEPT ![req[s].key] = Free]
  /\ Done(s)
  /\ UNCHANGED <<rows, challenges, policy, clock, blocked, ops>>

CompleteKey(s) ==
  /\ At(s, "complete")
  /\ keys' = [keys EXCEPT ![req[s].key].status = "completed", ![req[s].key].row = req[s].row]
  /\ Done(s)
  /\ UNCHANGED <<rows, challenges, policy, clock, blocked, ops>>
-----------------------------------------------------------------------------
(***************************************************************************)
(* execute_disbursement.                                                   *)
(***************************************************************************)
\* Its own gates, and the clock reading that goes with the row.
Gates(s) ==
  /\ At(s, "gates")
  /\ IF Preflight(req[s].amount) /\ Len(rows) < MaxRows
     THEN /\ clock' = clock + 1
          /\ req' = [req EXCEPT ![s].at = "insert", ![s].stamp = clock + 1]
     ELSE To(s, "release") /\ UNCHANGED clock
  /\ UNCHANGED <<tables, blocked, ops>>

\* Without the fault the clocks agree with the order of the insertions.
InsertRow(s) ==
  /\ At(s, "insert")
  /\ "stamp" \in Faults \/ \A q \in Slots : At(q, "insert") => req[s].stamp <= req[q].stamp
  /\ rows' = Append(rows, [key |-> req[s].key, amount |-> req[s].amount,
                           at |-> req[s].stamp, recent |-> TRUE, status |-> "pending",
                           auto |-> FALSE, decided |-> FALSE])
  /\ req' = [req EXCEPT ![s].at = "finalize", ![s].row = Len(rows) + 1]
  /\ UNCHANGED <<challenges, keys, policy, clock, blocked, ops>>

\* Mutant: only what was approved counts.
OverDailyApproved(i) ==
  Total({j \in Earlier(i) : rows[j].status = "paying"}) + rows[i].amount > DailyLimit

\* finalize_withdrawal_limits, all under the policy row's share lock and the
\* merchant's advisory lock.
OverDaily(i) == Total(Earlier(i)) + rows[i].amount > DailyLimit
\* Mutant: a row not decided yet does not count.
AutoTodayDecided(i) == Total({j \in Earlier(i) : rows[j].auto})

\* Auto-approved earlier, or not decided yet.
AutoToday(i) == Total({j \in Earlier(i) : rows[j].auto \/ ~rows[j].decided})
Eligible(i) == /\ Enabled
               /\ rows[i].amount <= Effective.max
               /\ AutoToday(i) + rows[i].amount <= Effective.rolling

Outcome(i) == IF OverDaily(i) THEN "rejected" ELSE IF Eligible(i) THEN "auto" ELSE "manual"

FinalizeWithdrawalLimits(s) ==
  LET i == req[s].row IN
  /\ At(s, "finalize")
  /\ \E o \in {Outcome(i)} \cup ({"error"} \cap Faults) :
       /\ rows' = [rows EXCEPT ![i].decided = o # "error", ![i].auto = o = "auto",
                               ![i].status = IF o = "rejected" THEN "rejected" ELSE @]
       /\ To(s, CASE o = "auto" -> "pay" [] o = "manual" -> "audit" [] OTHER -> "release")
  /\ UNCHANGED <<challenges, keys, policy, clock, blocked, ops>>

\* Automatic: the standing once more, then the payout of module Withdrawals,
\* whose failures do not surface.
AutoPay(s) ==
  LET i == req[s].row IN
  /\ At(s, "pay")
  /\ \/ blocked /\ rows' = [rows EXCEPT ![i].auto = FALSE]
     \/ /\ ~blocked
        /\ \E st \in {"paying", "failed"} :
             /\ st = "paying" => Reserved(rows[i].amount) <= Available
             /\ rows' = [rows EXCEPT ![i].status = st]
  /\ To(s, "audit")
  /\ UNCHANGED <<challenges, keys, policy, clock, blocked, ops>>

\* The handler's own audit row; if it fails, the handler has failed.
WriteAudit(s) ==
  /\ At(s, "audit")
  /\ \E ok \in {TRUE} \cup {f # "audit" : f \in Faults} :
       To(s, IF ok THEN "complete" ELSE "release")
  /\ UNCHANGED <<tables, clock, blocked, ops>>
-----------------------------------------------------------------------------
(***************************************************************************)
(* The automation policy.                                                  *)
(***************************************************************************)
\* requires_confirmation: the change lets more money out without a human.
Widens(p, q) == q.on /\ (~p.on \/ q.max > p.max \/ q.rolling > p.rolling)

\* PUT /policy reads the policy and refuses an unconfirmed widening of it.  The
\* client names the version it edited.
EditPolicy(s) ==
  /\ Begins(s, "policy") /\ policy.version < MaxEdits
  /\ \E q \in Policies, v \in 0..policy.version, sure \in BOOLEAN :
       /\ Widens(policy, q) => sure
       /\ req' = [req EXCEPT ![s] = [NoWork EXCEPT !.at = "save", !.wish = q, !.ver = v,
                                                   !.sure = sure]]
  /\ UNCHANGED <<tables, clock, blocked, ops>>

\* Mutant: the version is not compared under the lock.
CurrentUnchecked(v) == v \in Nat

\* _validate_amounts: the limits of a policy in force are possible ones.
Valid(q) == q.on => 0 < q.max /\ q.max <= q.rolling /\ q.rolling <= DailyLimit

\* update_withdrawal_automation_policy, for update on the row.
Current(v) == v = policy.version
UpdatePolicy(s) ==
  /\ At(s, "save")
  /\ \/ /\ Valid(req[s].wish) /\ Current(req[s].ver)
        /\ policy' = [on |-> req[s].wish.on, max |-> req[s].wish.max,
                      rolling |-> req[s].wish.rolling, version |-> policy.version + 1]
     \/ ~(Valid(req[s].wish) /\ Current(req[s].ver)) /\ UNCHANGED policy
  /\ Done(s)
  /\ UNCHANGED <<rows, challenges, keys, clock, blocked, ops>>
-----------------------------------------------------------------------------
(***************************************************************************)
(* Around them.                                                            *)
(***************************************************************************)
\* Fraud monitoring and Super Admins open and clear what blocks withdrawals.
Standing == blocked' = ~blocked /\ UNCHANGED <<tables, clock, req, ops>>

\* A Super Admin decides a row that waits for one.  What happens if he does so
\* while the request is still paying it is a question for module Withdrawals.
Approve(i) == /\ rows[i].status = "pending" /\ rows[i].decided /\ ~rows[i].auto
              /\ StandingOk /\ Reserved(rows[i].amount) <= Available
              /\ rows' = [rows EXCEPT ![i].status = "paying"]
              /\ UNCHANGED <<challenges, keys, policy, clock, blocked, req, ops>>
Reject(i)  == /\ rows[i].status = "pending" /\ rows[i].decided /\ ~rows[i].auto
              /\ rows' = [rows EXCEPT ![i].status = "rejected"]
              /\ UNCHANGED <<challenges, keys, policy, clock, blocked, req, ops>>

\* Time passes: a code expires; the oldest row leaves the 24 hours.
ExpireCode(c) == /\ ~challenges[c].expired
                 /\ challenges' = [challenges EXCEPT ![c].expired = TRUE]
                 /\ UNCHANGED <<rows, keys, policy, clock, blocked, req, ops>>
LeaveDay(i) == /\ rows[i].recent /\ rows[i].decided
               /\ \A j \in DOMAIN rows : rows[j].recent => i = j \/ Before(i, j)
               /\ rows' = [rows EXCEPT ![i].recent = FALSE]
               /\ UNCHANGED <<challenges, keys, policy, clock, blocked, req, ops>>
-----------------------------------------------------------------------------
Init ==
  /\ rows = <<>> /\ challenges = <<>>
  /\ keys = [k \in Endpoints \X Keys |-> Free]
  /\ policy = [on |-> Stored.on, max |-> Stored.max, rolling |-> Stored.rolling, version |-> 0]
  /\ clock = 0 /\ blocked = FALSE
  /\ req = [s \in Slots |-> NoWork] /\ ops \in Mixes

Handler(s) ==
  \/ ClaimKey(s) \/ Gates(s) \/ InsertRow(s) \/ FinalizeWithdrawalLimits(s)
  \/ AutoPay(s) \/ WriteAudit(s) \/ ReleaseKey(s) \/ CompleteKey(s)

Serve(s) ==
  \/ SupersedeActive(s) \/ CreateChallenge(s) \/ Resend(s) \/ RotateOtp(s)
  \/ Verify(s) \/ VerifyOtp(s) \/ Direct(s) \/ EditPolicy(s) \/ UpdatePolicy(s)

Around ==
  \/ Standing
  \/ \E i \in DOMAIN rows : Approve(i) \/ Reject(i) \/ LeaveDay(i)
  \/ \E c \in DOMAIN challenges : ExpireCode(c)

Next == Around \/ \E s \in Slots : Handler(s) \/ Serve(s)

\* A request that was begun goes on: the process does not stop.
Spec == Init /\ [][Next]_vars /\ \A s \in Slots : WF_vars(Handler(s))
-----------------------------------------------------------------------------
\* "Run handler() at most once per (merchant_id, idempotency_key, endpoint)": of
\* the rows made under one key, at most one can still move money.
OneWithdrawalPerKey == \A i, j \in DOMAIN rows :
  i # j /\ rows[i].key = rows[j].key => ~Live(i) \/ ~Live(j)

Accepted == {i \in Today : rows[i].decided}

\* "two withdrawals submitted at the same instant can never both pass a limit
\* only one of them should have": what was accepted in the last 24 hours stays
\* within the daily limit.
DailyLimitHolds == Total(Accepted) <= DailyLimit

\* What automation let through in the last 24 hours stays within the deployment's
\* ceiling, whatever policies were saved meanwhile.
AutoWithinCeiling == Total({i \in Accepted : rows[i].auto}) <= HardRolling

\* Every change that lets more money out than the policy it replaced was
\* confirmed, also when two administrators edit at once.
WideningConfirmed == [][policy' # policy /\ Widens(policy, policy')
                          => \E s \in Slots : At(s, "save") /\ req[s].sure /\ req'[s] = NoWork]_vars

\* A key is not left in progress: it is completed, or free to be tried again.
KeyIsSettled == \A k \in Endpoints \X Keys :
  keys[k].status = "in_progress" ~> keys[k].status # "in_progress"
=============================================================================
