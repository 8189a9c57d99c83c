------------------------------- MODULE Ledger -------------------------------
(***************************************************************************)
(* services/ledger.py and the post_ledger_entries() Postgres function.     *)
(*                                                                         *)
(* A posting is a list of legs.  The function takes the legs in the order  *)
(* the Python caller listed them: lock the account row, compute the new    *)
(* balance, refuse the whole batch when a wallet would go negative, insert *)
(* the entry with its balance_before/after, go on to the next leg.  The    *)
(* debits = credits trigger runs at commit.  Several callers run it at the *)
(* same time: handlers of the event loop of each replica, and the `def`    *)
(* routes (refunds, cleared fraud reviews) in the thread pool.             *)
(*                                                                         *)
(* post_collection_entries() locks settlement before the wallet; the four  *)
(* other functions lock the wallet first.  Two postings of one merchant    *)
(* can therefore wait for each other, and Postgres aborts a victim.        *)
(***************************************************************************)
EXTENDS Integers, Sequences, FiniteSetsExt

CONSTANTS
  Merchants, Txns, TxnMerchant, TxnType, Net, Fee,   \* as in Books
  Sessions,    \* database sessions that may run the function concurrently
  NoSession,   \* "this row is not locked"
  Platform,    \* merchant_id null: an account of the platform itself
  MaxPosts     \* bound: committed postings of one kind per transaction

\* check (amount > 0) on ledger_entries: a leg of zero cannot be inserted, so a
\* transaction's net amount is positive and a fee leg exists only when Fee > 0.
ASSUME TxnAssumption ==
  /\ TxnMerchant \in [Txns -> Merchants]
  /\ TxnType \in [Txns -> {"collection", "disbursement", "refund"}]
  /\ Net \in [Txns -> Nat \ {0}]
  /\ Fee \in [Txns -> Nat]

ASSUME SessionAssumption == NoSession \notin Sessions
ASSUME PlatformAssumption == Platform \notin Merchants
ASSUME BoundAssumption == MaxPosts \in Nat

VARIABLES
  balance,  \* [Accounts -> Int]            ledger_accounts.balance
  entries,  \* [Accounts -> Seq(Entry)]     ledger_entries, in insertion order
  posted,   \* [Txns -> [PostingKinds -> Nat]]  batches that committed
  owner,    \* [Accounts -> Sessions \cup {NoSession}]  row lock of the account
  call,     \* [Sessions -> Call]           the batch a session is running
  leg,      \* [Sessions -> Nat]            legs of it already processed
  pend      \* [Sessions -> SUBSET Entry]   its rows, not yet committed

vars == <<balance, entries, posted, owner, call, leg, pend>>

Settlement == <<"settlement_clearing", Platform>>
Revenue    == <<"platform_revenue", Platform>>
Wallet(m)  == <<"merchant_wallet", m>>
Wallets    == {Wallet(m) : m \in Merchants}
Accounts   == Wallets \cup {Settlement, Revenue}

Directions == {"debit", "credit"}

B == INSTANCE Books WITH
       wallet     <- [m \in Merchants |-> balance[Wallet(m)]],
       settlement <- balance[Settlement],
       revenue    <- balance[Revenue]

NoCall == [txn |-> NoSession, kind |-> "none"]
Call   == [txn : Txns, kind : B!PostingKinds] \cup {NoCall}
Idle(s) == call[s] = NoCall

Entry == [txn : Txns, account : Accounts, direction : Directions,
          amount : Nat \ {0}, before : Int, after : Int]
-----------------------------------------------------------------------------
(***************************************************************************)
(* The legs of each posting function, in the order the caller lists them.  *)
(***************************************************************************)
Leg(a, d, n) == [account |-> a, direction |-> d, amount |-> n]

\* Mutant of WithFee: the fee leg is there even when the fee is 0.
WithFeeAlways(t, d, first, second) == <<first, second, Leg(Revenue, d, Fee[t])>>

\* A fee leg is added only when there is a fee.
WithFee(t, d, first, second) ==
  IF Fee[t] > 0 THEN <<first, second, Leg(Revenue, d, Fee[t])>> ELSE <<first, second>>

\* The only function that takes settlement before the wallet.
PostCollection(t) ==
  WithFee(t, "credit", Leg(Settlement, "debit", Net[t] + Fee[t]),
                       Leg(Wallet(TxnMerchant[t]), "credit", Net[t]))

PostDisbursement(t) ==
  WithFee(t, "credit", Leg(Wallet(TxnMerchant[t]), "debit", Net[t] + Fee[t]),
                       Leg(Settlement, "credit", Net[t]))

PostRefund(t) ==
  <<Leg(Wallet(TxnMerchant[t]), "debit", Net[t]), Leg(Settlement, "credit", Net[t])>>

\* Mutant of ReverseCollection: settlement gives back the net amount only.
ReverseCollectionNet(t) ==
  WithFee(t, "debit", Leg(Wallet(TxnMerchant[t]), "debit", Net[t]),
                      Leg(Settlement, "credit", Net[t]))

ReverseCollection(t) ==
  WithFee(t, "debit", Leg(Wallet(TxnMerchant[t]), "debit", Net[t]),
                      Leg(Settlement, "credit", Net[t] + Fee[t]))

ReverseDisbursement(t) ==
  WithFee(t, "debit", Leg(Wallet(TxnMerchant[t]), "credit", Net[t] + Fee[t]),
                      Leg(Settlement, "debit", Net[t]))

Legs(c) ==
  CASE TxnType[c.txn] = "collection" /\ c.kind = "post"      -> PostCollection(c.txn)
    [] TxnType[c.txn] = "collection" /\ c.kind = "reverse"   -> ReverseCollection(c.txn)
    [] TxnType[c.txn] = "disbursement" /\ c.kind = "post"    -> PostDisbursement(c.txn)
    [] TxnType[c.txn] = "disbursement" /\ c.kind = "reverse" -> ReverseDisbursement(c.txn)
    [] OTHER                                                 -> PostRefund(c.txn)

\* Mutant of Delta: fee revenue moves like an asset.
DeltaRevenueAsset(l) ==
  IF l.account \in {Settlement, Revenue}
  THEN IF l.direction = "debit" THEN l.amount ELSE -l.amount
  ELSE IF l.direction = "credit" THEN l.amount ELSE -l.amount

\* Asset accounts grow on debit; liability and revenue accounts on credit.
Delta(l) ==
  IF l.account = Settlement
  THEN IF l.direction = "debit" THEN l.amount ELSE -l.amount
  ELSE IF l.direction = "credit" THEN l.amount ELSE -l.amount
-----------------------------------------------------------------------------
(***************************************************************************)
(* The function.                                                           *)
(***************************************************************************)
NextLeg(s) == Legs(call[s])[leg[s] + 1]
HasNextLeg(s) == ~Idle(s) /\ leg[s] < Len(Legs(call[s]))

\* Mutant of LockFree: the account row is read without `for update`.
LockFreeUnlocked(s, a) == TRUE

\* `select ... for update` is granted when nobody else holds the row.
LockFree(s, a) == owner[a] \in {NoSession, s}

Unlock(s) == owner' = [a \in Accounts |-> IF owner[a] = s THEN NoSession ELSE owner[a]]

\* The session's transaction ends: its row locks are released.
EndCall(s) ==
  /\ Unlock(s)
  /\ call' = [call EXCEPT ![s] = NoCall]
  /\ leg' = [leg EXCEPT ![s] = 0]
  /\ pend' = [pend EXCEPT ![s] = {}]

\* A caller posts a transaction, or reverses one that was posted.
Begin(s, t, kind) ==
  /\ Idle(s)
  /\ B!Permitted(t, kind)
  /\ kind = "reverse" => posted[t]["post"] > 0
  /\ posted[t][kind] < MaxPosts
  /\ call' = [call EXCEPT ![s] = [txn |-> t, kind |-> kind]]
  /\ UNCHANGED <<balance, entries, posted, owner, leg, pend>>

\* Mutant of Overdraws: the balance is checked before the leg, not after it.
OverdrawsBefore(l) == l.account \in Wallets /\ balance[l.account] < 0

Overdraws(l) == l.account \in Wallets /\ balance[l.account] + Delta(l) < 0

\* The ledger_entries row of a leg, with the balance snapshots around it.
RowFor(s, l) ==
  [txn |-> call[s].txn, account |-> l.account, direction |-> l.direction,
   amount |-> l.amount, before |-> balance[l.account],
   after |-> balance[l.account] + Delta(l)]

\* One turn of the loop: lock the account, insert the entry with its snapshot.
TakeLeg(s) ==
  /\ HasNextLeg(s)
  /\ LockFree(s, NextLeg(s).account)
  /\ ~Overdraws(NextLeg(s))
  /\ LET l == NextLeg(s) IN
     /\ owner' = [owner EXCEPT ![l.account] = s]
     /\ pend' = [pend EXCEPT ![s] = @ \cup {RowFor(s, l)}]
  /\ leg' = [leg EXCEPT ![s] = @ + 1]
  /\ UNCHANGED <<balance, entries, posted, call>>

\* INSUFFICIENT_BALANCE: the exception rolls the whole batch back.
RefuseOverdraft(s) ==
  /\ HasNextLeg(s)
  /\ LockFree(s, NextLeg(s).account)
  /\ Overdraws(NextLeg(s))
  /\ EndCall(s)
  /\ UNCHANGED <<balance, entries, posted>>

SumOf(rows, d) == MapThenSumSet(LAMBDA e : e.amount, {e \in rows : e.direction = d})
DebitsEqualCredits(rows) == SumOf(rows, "debit") = SumOf(rows, "credit")

\* The legs are done; the deferred trigger passes; the rows become visible.
\* Entries already committed for the transaction are balanced among
\* themselves, so the trigger decides on the new ones.
Commit(s) ==
  /\ ~Idle(s) /\ ~HasNextLeg(s)
  /\ DebitsEqualCredits(pend[s])
  /\ LET row(a) == CHOOSE e \in pend[s] : e.account = a
         touched == {e.account : e \in pend[s]} IN
     /\ balance' = [a \in Accounts |-> IF a \in touched THEN row(a).after ELSE balance[a]]
     /\ entries' = [a \in Accounts |-> IF a \in touched THEN Append(entries[a], row(a))
                                                        ELSE entries[a]]
  /\ posted' = [posted EXCEPT ![call[s].txn][call[s].kind] = @ + 1]
  /\ EndCall(s)

\* Postgres: s waits for a row that t has locked.
WaitsFor(s, t) == HasNextLeg(s) /\ s # t /\ owner[NextLeg(s).account] = t

\* Mutant of OnCycle: nobody detects the deadlock.
OnCycleUndetected(s) == FALSE

OnCycle(s) == \E C \in SUBSET Sessions :
  /\ s \in C
  /\ \A t \in C : \E u \in C : WaitsFor(t, u)
  /\ \A u \in C : \E t \in C : WaitsFor(t, u)

\* Deadlock detection aborts one session of a cycle; _post_entries() re-raises.
AbortVictim(s) ==
  /\ OnCycle(s)
  /\ EndCall(s)
  /\ UNCHANGED <<balance, entries, posted>>

\* The connection or the process dies before commit: the server rolls back.
LoseConnection(s) ==
  /\ ~Idle(s)
  /\ EndCall(s)
  /\ UNCHANGED <<balance, entries, posted>>
-----------------------------------------------------------------------------
Init ==
  /\ balance = [a \in Accounts |-> 0]
  /\ entries = [a \in Accounts |-> <<>>]
  /\ posted = [t \in Txns |-> [k \in B!PostingKinds |-> 0]]
  /\ owner = [a \in Accounts |-> NoSession]
  /\ call = [s \in Sessions |-> NoCall]
  /\ leg = [s \in Sessions |-> 0]
  /\ pend = [s \in Sessions |-> {}]

Run(s) == TakeLeg(s) \/ RefuseOverdraft(s) \/ Commit(s)

Next == \E s \in Sessions :
  \/ \E t \in Txns, kind \in B!PostingKinds : Begin(s, t, kind)
  \/ Run(s)
  \/ AbortVictim(s)
  \/ LoseConnection(s)

Spec == Init /\ [][Next]_vars

\* A waiter is queued on the row lock and gets it in turn, hence strong
\* fairness of Run; deadlock_timeout fires, hence weak fairness of the abort.
FairSpec == Spec /\ \A s \in Sessions : SF_vars(Run(s)) /\ WF_vars(AbortVictim(s))
-----------------------------------------------------------------------------
(***************************************************************************)
(* Properties.                                                             *)
(***************************************************************************)

\* Every variable has its type.
TypeOK ==
  /\ balance \in [Accounts -> Int]
  /\ entries \in [Accounts -> Seq(Entry)]
  /\ posted \in [Txns -> [B!PostingKinds -> Nat]]
  /\ owner \in [Accounts -> Sessions \cup {NoSession}]
  /\ call \in [Sessions -> Call]
  /\ leg \in [Sessions -> Nat]
  /\ pend \in [Sessions -> SUBSET Entry]

\* No interleaving of postings, refusals and deadlock victims overdraws a
\* merchant's wallet (post_ledger_entries: INSUFFICIENT_BALANCE).
WalletNeverNegative == \A m \in Merchants : balance[Wallet(m)] >= 0

\* balance_before/after form one unbroken chain per account that ends at the
\* cached balance: ledger_accounts.balance "must reconcile to
\* sum(ledger_entries)".  A posting that read a balance another one was about
\* to change would break the chain.
SnapshotsChain == \A a \in Accounts :
  /\ \A i \in 1..Len(entries[a]) :
       /\ entries[a][i].before = IF i = 1 THEN 0 ELSE entries[a][i - 1].after
       /\ entries[a][i].after = entries[a][i].before + Delta(entries[a][i])
  /\ balance[a] = IF entries[a] = <<>> THEN 0 ELSE entries[a][Len(entries[a])].after

\* The row-locked, leg-by-leg function implements the indivisible posting that
\* its callers rely on.
ImplementsBooks == B!Spec

\* Every posting that starts ends, committed or refused: two postings that
\* lock settlement and the wallet in opposite orders do not hang forever.
PostingEnds == \A s \in Sessions : ~Idle(s) ~> Idle(s)
=============================================================================
