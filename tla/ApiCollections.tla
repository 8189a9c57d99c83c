---------------------------- MODULE ApiCollections ----------------------------
(***************************************************************************)
(* Collections asked for through the API (routers/collections.py,           *)
(* collections_api.py) and the page of a payment link, by way of the older  *)
(* provider: services/collections.py, sandbox_collections.py, the callback  *)
(* of routers/webhooks.py and the expiry of what nobody answers.            *)
(*                                                                         *)
(* Once admitted (Access) a request runs on the event loop, as the callback *)
(* and the expiry do: a step is what happens between two awaits.            *)
(***************************************************************************)
EXTENDS Access

CONSTANTS Faults \* subset of {"refused", "timeout", "transaction", "stop", "unsigned", "early"}

VARIABLES
  idem,    \* [Operations -> Claim]   idempotency_keys: one key for each operation
  colls,   \* Seq(Collection)         collections, with their transactions
  prompts, \* Seq(Prompt)             what the provider asked of customers
  events,  \* [prompt -> Stored]      selcom_webhook_events
  link     \* a payment link of the merchant

api == <<idem, colls, prompts, events, link>>
vars == <<admission, caller, left, api>>

\* A push or a QR by the older routes, wallet-push and its like in the sandbox, and
\* a customer's payment of a link.
Operations == {"push", "qr", "sandbox", "pay"}
Claim == {"none", "in_progress", "completed"}
\* ref: the prompt its provider_reference names, 0 for none; booked: it has a
\* transaction; credits: postings to the ledger; told: the last event enqueued.
Collection == [op : Operations, status : {"processing", "successful", "failed", "pending_review", "reversed"},
               ref : Nat, booked : BOOLEAN, credits : Nat,
               told : {"none", "collection.success", "collection.failed", "collection.pending_review"}]
\* stored: what became of the event of its outcome; acked: the provider's last
\* delivery of it was answered 2xx.
Prompt == [coll : Nat, state : {"asked", "paid", "declined"}, acked : BOOLEAN]
Stored == {"none", "received", "processed", "failed"}

ApiTypeOK ==
  /\ standing \in Standing /\ keys \in Seq(Key) /\ entries \in Seq(Entry)
  /\ idem \in [Operations -> Claim]
  /\ colls \in Seq(Collection) /\ prompts \in Seq(Prompt)
  /\ events \in [DOMAIN prompts -> Stored]
  /\ link \in {"ACTIVE", "PAID"}

\* What a request on the loop ends with: its key's claim, and an idle slot.
Ends(r, claim) ==
  /\ idem' = [idem EXCEPT ![caller[r].op] = claim]
  /\ Refused(r)

Row(op, status, told) ==
  [op |-> op, status |-> status, ref |-> 0, booked |-> FALSE, credits |-> 0, told |-> told]
-----------------------------------------------------------------------------
(***************************************************************************)
(* A request on the loop.                                                  *)
(***************************************************************************)
\* The newer routes give a sandbox key to the sandbox; a live key asks there through
\* the checkout (module Commerce).  The older ones take either, and a session.
ByKey(op, k) == k # 0 /\ op \in {"push", "qr"} \cup IF keys[k].live THEN {} ELSE {"sandbox"}
BySession(op, k) == k = 0 /\ op \in {"push", "qr"}
ByCustomer(op, k) == k = 0 /\ op = "pay"

Begin(r, op, k, a) ==
  /\ ByKey(op, k) \/ BySession(op, k) \/ ByCustomer(op, k)
  /\ Arrives(r, op, k, a)
  /\ UNCHANGED api

\* run_idempotent: a completed key is answered from its record, a claimed one
\* refused.
Replay(r) ==
  /\ caller[r].at = "admitted" /\ idem[caller[r].op] # "none"
  /\ Refused(r)
  /\ UNCHANGED <<admission, left, api>>

Claims(r, op) == caller[r].at = "admitted" /\ caller[r].op = op /\ idem[op] = "none"

\* execute_sandbox_collection: the row is made in its last status.
Told(status) == CASE status = "successful" -> "collection.success"
                  [] status = "failed" -> "collection.failed"
                  [] status = "pending_review" -> "collection.pending_review"
                  [] OTHER -> "none"

Simulate(r, status) ==
  /\ Claims(r, "sandbox")
  /\ status \in {"successful", "failed", "pending_review", "reversed"}
  /\ colls' = Append(colls, Row("sandbox", status, Told(status)))
  /\ Ends(r, "completed")
  /\ UNCHANGED <<admission, left, prompts, events, link>>

\* create_processing_collection: the account is looked at again; an error gives
\* the key back.
Initiate(r) ==
  /\ \E op \in {"push", "qr", "pay"} :
       /\ Claims(r, op)
       /\ IF Runs(standing) /\ (op = "pay" => link = "ACTIVE")
          THEN /\ colls' = Append(colls, Row(op, "processing", "none"))
               /\ idem' = [idem EXCEPT ![op] = "in_progress"]
               /\ Go(r, [On(r, "asking") EXCEPT !.coll = Len(colls) + 1])
          ELSE Refused(r) /\ UNCHANGED <<colls, idem>>
  /\ UNCHANGED <<admission, left, prompts, events, link>>

\* The provider acts on the request.
Ask(r) ==
  /\ caller[r].at = "asking"
  /\ prompts' = Append(prompts, [coll |-> caller[r].coll, state |-> "asked", acked |-> FALSE])
  /\ events' = Append(events, "none")
  /\ Go(r, [On(r, "asked") EXCEPT !.prompt = Len(prompts) + 1])
  /\ UNCHANGED <<admission, left, idem, colls, link>>

\* The reference is saved and the transaction inserted; an error in between gives
\* the key back and leaves the row as it is.
Reply(r) ==
  /\ caller[r].at = "asked"
  /\ \E booked \in {TRUE} \cup {"transaction" \notin Faults} :
       /\ colls' = [colls EXCEPT ![caller[r].coll].ref = caller[r].prompt,
                                 ![caller[r].coll].booked = booked]
       /\ IF ~booked THEN Ends(r, "none")
          ELSE IF caller[r].op = "pay" THEN Go(r, On(r, "checking")) /\ UNCHANGED idem
          ELSE Ends(r, "completed")
  /\ UNCHANGED <<admission, left, prompts, events, link>>

\* A call that fails, with or without the provider having acted.
Fails(r) ==
  /\ \/ caller[r].at = "asking" /\ {"refused", "timeout"} \cap Faults # {}
     \/ caller[r].at = "asked" /\ "timeout" \in Faults
     \/ caller[r].at = "checking" /\ {"refused", "timeout"} \cap Faults # {}
  /\ Ends(r, "none")
  /\ UNCHANGED <<admission, left, colls, prompts, events, link>>
-----------------------------------------------------------------------------
(***************************************************************************)
(* Outcomes.                                                               *)
(***************************************************************************)
\* Mutant: any row of this reference, whatever its status.
OpenAny(c) == TRUE
Open(c) == colls[c].status = "processing"

\* resolve_collection up to the first error: without a transaction the status is
\* written, and nothing after it.
Resolved(c, status) ==
  [colls[c] EXCEPT !.status = status,
                   !.credits = IF colls[c].booked /\ status = "successful" THEN @ + 1 ELSE @,
                   !.told = IF colls[c].booked THEN Told(status) ELSE @]

Resolve(c, status) ==
  /\ colls' = [colls EXCEPT ![c] = Resolved(c, status)]
  /\ link' = IF colls[c].op = "pay" /\ colls[c].booked /\ status = "successful" THEN "PAID" ELSE link

Outcome(p) == IF prompts[p].state = "paid" THEN "successful" ELSE "failed"

\* execute_collection asks at once what became of its prompt.
CheckStatus(r) ==
  /\ caller[r].at = "checking"
  /\ IF prompts[caller[r].prompt].state = "asked" \/ ~Open(caller[r].coll)
     THEN UNCHANGED <<colls, link>>
     ELSE Resolve(caller[r].coll, Outcome(caller[r].prompt))
  /\ Ends(r, "completed")
  /\ UNCHANGED <<admission, left, prompts, events>>

\* The customer answers; a prompt shown before the reply reached us, only if "early".
Decide(p, state) ==
  /\ prompts[p].state = "asked" /\ state \in {"paid", "declined"}
  /\ "early" \in Faults \/ \A r \in Callers : ~(caller[r].at = "asked" /\ caller[r].prompt = p)
  /\ prompts' = [prompts EXCEPT ![p].state = state]
  /\ UNCHANGED <<admission, caller, left, idem, colls, events, link>>

\* selcom_webhook: the event is stored first, and a stored one is a duplicate; the
\* row of the reference is sought among those still open, at most one of them.
Matches(p) == {c \in DOMAIN colls : colls[c].ref = p /\ Open(c)}

Deliver(p, signed) ==
  /\ prompts[p].state # "asked" /\ Spend("deliveries")
  /\ signed \in {TRUE} \cup {"unsigned" \notin Faults}
  /\ IF events[p] # "none"
     THEN /\ prompts' = [prompts EXCEPT ![p].acked = TRUE]
          /\ UNCHANGED <<colls, link, events>>
     ELSE IF ~signed
     THEN events' = [events EXCEPT ![p] = "failed"] /\ UNCHANGED <<prompts, colls, link>>
     ELSE LET raises == \E c \in Matches(p) : ~colls[c].booked IN
          /\ IF Matches(p) = {} THEN UNCHANGED <<colls, link>>
             ELSE \E c \in Matches(p) : Resolve(c, Outcome(p))
          /\ events' = [events EXCEPT ![p] = IF raises THEN "received" ELSE "processed"]
          /\ prompts' = [prompts EXCEPT ![p].acked = ~raises]
  /\ UNCHANGED <<admission, caller, idem>>

\* expire_stale_pushes, long after any request for the row has ended.
Expire(c) ==
  /\ Open(c) /\ \A r \in Callers : caller[r].coll # c
  /\ Spend("expiries")
  /\ Resolve(c, "failed")
  /\ UNCHANGED <<admission, caller, idem, prompts, events>>

\* The process ends: whatever was on the loop is gone, the claims stay.
Stop ==
  /\ "stop" \in Faults /\ Spend("stops")
  /\ caller' = [r \in Callers |-> IF caller[r].coll = 0 THEN caller[r] ELSE NoCall]
  /\ UNCHANGED <<admission, api>>

Init ==
  /\ AccessInit
  /\ idem = [op \in Operations |-> "none"]
  /\ colls = <<>> /\ prompts = <<>> /\ events = <<>> /\ link = "ACTIVE"

Handle(r) ==
  \/ Replay(r) \/ Initiate(r) \/ Ask(r) \/ Reply(r) \/ Fails(r) \/ CheckStatus(r)
  \/ \E s \in {"successful", "failed", "pending_review", "reversed"} : Simulate(r, s)

Next ==
  \/ AccessNext /\ UNCHANGED api
  \/ \E r \in Callers, op \in Operations, k \in {0} \cup DOMAIN keys, a \in Addresses : Begin(r, op, k, a)
  \/ \E r \in Callers : Handle(r)
  \/ \E p \in DOMAIN prompts : \/ \E s \in {"paid", "declined"} : Decide(p, s)
                               \/ \E signed \in BOOLEAN : Deliver(p, signed)
  \/ \E c \in DOMAIN colls : Expire(c)
  \/ Stop

Spec == Init /\ [][Next]_vars
-----------------------------------------------------------------------------
\* Whatever repeats or races, a callback, a status check, an expiry, a retry under
\* the key, a collection is credited once, for a prompt of its own that was paid,
\* and the sandbox never is (resolve_collection, resolve_collection_from_callback).
CreditedOnce ==
  \A c \in DOMAIN colls :
    /\ colls[c].credits <= 1
    /\ colls[c].credits = 1 => /\ colls[c].ref # 0
                               /\ prompts[colls[c].ref].coll = c
                               /\ prompts[colls[c].ref].state = "paid"

\* What is put to a customer or to the sandbox was asked by a request during which
\* the account was active at some moment and, for a key, the key was valid and the
\* merchant's API access stood: a withdrawal of either that is not undone holds
\* for every request that begins after it (verify_api_key, require_approved_merchant).
StandingWhenAccepted ==
  \A r \in Callers : caller[r].at \in {"admitted", "asking", "asked", "checking"} =>
    /\ caller[r].key # 0 => caller[r].keyed /\ caller[r].stood
    /\ caller[r].at # "admitted" => caller[r].ran

\* A collection is credited exactly when it reads successful, and what the merchant
\* was told last is what it reads. An error after the prompt breaks it.
StatusIsBooked ==
  \A c \in DOMAIN colls : colls[c].op # "sandbox" =>
    /\ colls[c].status = "successful" <=> colls[c].credits = 1
    /\ ~Open(c) => colls[c].told = Told(colls[c].status)

\* A paid prompt whose callback was acknowledged is credited (routers/webhooks.py).
\* A callback that finds no reference yet, or was refused at first, breaks it.
AcknowledgedIsCredited ==
  \A p \in DOMAIN prompts : prompts[p].acked /\ prompts[p].state = "paid"
                              => colls[prompts[p].coll].credits = 1

\* One key, one prompt (run_idempotent). A lost answer gives the key back.
OnePromptPerKey ==
  \A op \in {"push", "qr", "pay"} : Cardinality({p \in DOMAIN prompts : colls[prompts[p].coll].op = op}) <= 1

\* The sandbox never asks a customer (sandbox_collections.py). The older routes do
\* not look at the environment of the key.
SandboxAsksNobody == \A r \in Callers : caller[r].at = "asked" /\ caller[r].key # 0 => keys[caller[r].key].live
=============================================================================
