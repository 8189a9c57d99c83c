---------------------------- MODULE Booking_proofs ----------------------------
(***************************************************************************)
(* Theorems about where money is written: Ledger, then Commerce.            *)
(*                                                                         *)
(* Ledger, for any merchants, transactions, amounts and number of           *)
(* concurrent sessions: types, no overdrawn wallet, unbroken balance         *)
(* snapshots, and that the row-locked, leg-by-leg function implements the    *)
(* indivisible posting of Books.  The rows a session has inserted and not    *)
(* yet committed describe the balances as they are (RowsOfLegs,              *)
(* LegsHaveRows), because the session holds the lock of every account it     *)
(* has a row for (RowsLocked) and only the holder of a lock changes that     *)
(* balance.                                                                 *)
(*                                                                         *)
(* Commerce, for any requests, amounts and budgets: an invoice shows the     *)
(* sum of its successful collections whenever none is being booked, as long  *)
(* as no administrator clears a held collection in a thread meanwhile.  Who  *)
(* books is the handler that keeps the loop (Books), so what it read of the  *)
(* invoice still stands when it writes; and a collection is booked to the    *)
(* invoice its row names, because a link gets its invoice before anybody     *)
(* can pay it and an invoice leaves a link only for a link nobody has tried  *)
(* (Placed, Prepares, Separate).                                            *)
(***************************************************************************)
EXTENDS Ledger, Commerce, FiniteSetTheorems, WellFoundedInduction, TLAPS

Posting == [txn : Txns, kind : B!PostingKinds]
LegType == [account : Accounts, direction : Directions, amount : Nat \ {0}]

\* A session between two calls has no rows; one in a call has at most its legs.
Progress == \A s \in Sessions :
  IF Idle(s) THEN leg[s] = 0 /\ pend[s] = {}
             ELSE leg[s] <= Len(Legs(call[s])) /\ B!Permitted(call[s].txn, call[s].kind)

\* The uncommitted rows of a call are those of its first leg[s] legs, with the
\* balances as they are now.
RowsOfLegs == \A s \in Sessions : ~Idle(s) =>
  \A e \in pend[s] : \E i \in 1..leg[s] : e = RowFor(s, Legs(call[s])[i])
LegsHaveRows == \A s \in Sessions : ~Idle(s) =>
  \A i \in 1..leg[s] : RowFor(s, Legs(call[s])[i]) \in pend[s]

\* A session holds the lock of each account it has a row for, and none of its
\* rows overdraws a wallet.
RowsLocked == \A s \in Sessions : \A e \in pend[s] : owner[e.account] = s
RowsSolvent == \A s \in Sessions : \A e \in pend[s] : e.account \in Wallets => e.after >= 0

IInv == /\ TypeOK /\ Progress /\ RowsOfLegs /\ LegsHaveRows
        /\ RowsLocked /\ RowsSolvent /\ WalletNeverNegative /\ SnapshotsChain
-----------------------------------------------------------------------------
(***************************************************************************)
(* Lemmas about accounts and legs.                                         *)
(***************************************************************************)

\* The accounts of the platform and of a merchant are all different.
LEMMA AccountsDiffer ==
  /\ Settlement # Revenue
  /\ \A m \in Merchants : Wallet(m) # Settlement /\ Wallet(m) # Revenue
  /\ \A m, n \in Merchants : Wallet(m) = Wallet(n) => m = n
  /\ Settlement \in Accounts /\ Revenue \in Accounts
  /\ \A m \in Merchants : Wallet(m) \in Accounts /\ Wallet(m) \in Wallets
  /\ Settlement \notin Wallets /\ Revenue \notin Wallets
BY DEF Settlement, Revenue, Wallet, Wallets, Accounts

\* Adding the fee leg keeps the shape of a batch.
LEMMA WithFeeShape ==
  ASSUME NEW t \in Txns, NEW d \in Directions,
         NEW first \in LegType, NEW second \in LegType,
         first.account # second.account,
         first.account # Revenue, second.account # Revenue
  PROVE  LET L == WithFee(t, d, first, second) IN
         /\ L \in Seq(LegType) /\ Len(L) \in {2, 3}
         /\ \A i, j \in 1..Len(L) : L[i].account = L[j].account => i = j
<1> DEFINE r == Leg(Revenue, d, Fee[t])
<1>1. CASE Fee[t] > 0
  <2>1. r \in LegType /\ r.account = Revenue
    BY <1>1, AccountsDiffer, TxnAssumption DEF Leg, LegType
  <2>2. WithFee(t, d, first, second) = <<first, second, r>>
    BY <1>1 DEF WithFee
  <2> HIDE DEF r
  <2> QED BY <2>1, <2>2
<1>2. CASE ~(Fee[t] > 0)
  <2>1. WithFee(t, d, first, second) = <<first, second>>
    BY <1>2 DEF WithFee
  <2> QED BY <2>1
<1> QED BY <1>1, <1>2

\* Every batch has two or three legs, of positive amounts, on different accounts.
LEMMA LegsShape ==
  ASSUME NEW c \in Posting
  PROVE  /\ Legs(c) \in Seq(LegType)
         /\ Len(Legs(c)) \in {2, 3}
         /\ \A i, j \in 1..Len(Legs(c)) : Legs(c)[i].account = Legs(c)[j].account => i = j
<1> DEFINE t == c.txn  w == Wallet(TxnMerchant[t])
           Gross == Net[t] + Fee[t]
<1>1. /\ t \in Txns /\ Net[t] \in Nat \ {0} /\ Gross \in Nat \ {0}
      /\ TxnMerchant[t] \in Merchants
  BY TxnAssumption DEF Posting
<1>2. w \in Accounts /\ w # Settlement /\ w # Revenue /\ Settlement # Revenue
  BY <1>1, AccountsDiffer
<1>3. "debit" \in Directions /\ "credit" \in Directions
  BY DEF Directions
<1>4. \A d \in Directions, n \in Nat \ {0} :
        /\ Leg(w, d, n) \in LegType /\ Leg(w, d, n).account = w
        /\ Leg(Settlement, d, n) \in LegType /\ Leg(Settlement, d, n).account = Settlement
  BY <1>2, AccountsDiffer DEF Leg, LegType
<1>5. \/ Legs(c) = PostCollection(t) \/ Legs(c) = ReverseCollection(t)
      \/ Legs(c) = PostDisbursement(t) \/ Legs(c) = ReverseDisbursement(t)
      \/ Legs(c) = PostRefund(t)
  BY DEF Legs
<1>6. CASE Legs(c) = PostRefund(t)
  <2> DEFINE x == Leg(w, "debit", Net[t])  y == Leg(Settlement, "credit", Net[t])
  <2>1. Legs(c) = <<x, y>>
    BY <1>6 DEF PostRefund
  <2>2. x \in LegType /\ y \in LegType /\ x.account # y.account
    BY <1>1, <1>2, <1>3, <1>4
  <2> HIDE DEF x, y
  <2> QED BY <2>1, <2>2
<1>7. ASSUME Legs(c) # PostRefund(t)
      PROVE  \E d \in Directions, x, y \in LegType :
               /\ Legs(c) = WithFee(t, d, x, y)
               /\ x.account # y.account /\ x.account # Revenue /\ y.account # Revenue
  <2>1. CASE Legs(c) = PostCollection(t)
    <3> DEFINE x == Leg(Settlement, "debit", Gross)  y == Leg(w, "credit", Net[t])
    <3>1. Legs(c) = WithFee(t, "credit", x, y)
      BY <2>1 DEF PostCollection
    <3>2. x \in LegType /\ y \in LegType /\ x.account = Settlement /\ y.account = w
      BY <1>1, <1>3, <1>4
    <3> HIDE DEF x, y, w, t
    <3> QED BY <1>2, <1>3, <3>1, <3>2
  <2>2. CASE Legs(c) = ReverseCollection(t)
    <3> DEFINE x == Leg(w, "debit", Net[t])  y == Leg(Settlement, "credit", Gross)
    <3>1. Legs(c) = WithFee(t, "debit", x, y)
      BY <2>2 DEF ReverseCollection
    <3>2. x \in LegType /\ y \in LegType /\ x.account = w /\ y.account = Settlement
      BY <1>1, <1>3, <1>4
    <3> HIDE DEF x, y, w, t
    <3> QED BY <1>2, <1>3, <3>1, <3>2
  <2>3. CASE Legs(c) = PostDisbursement(t)
    <3> DEFINE x == Leg(w, "debit", Gross)  y == Leg(Settlement, "credit", Net[t])
    <3>1. Legs(c) = WithFee(t, "credit", x, y)
      BY <2>3 DEF PostDisbursement
    <3>2. x \in LegType /\ y \in LegType /\ x.account = w /\ y.account = Settlement
      BY <1>1, <1>3, <1>4
    <3> HIDE DEF x, y, w, t
    <3> QED BY <1>2, <1>3, <3>1, <3>2
  <2>4. CASE Legs(c) = ReverseDisbursement(t)
    <3> DEFINE x == Leg(w, "credit", Gross)  y == Leg(Settlement, "debit", Net[t])
    <3>1. Legs(c) = WithFee(t, "debit", x, y)
      BY <2>4 DEF ReverseDisbursement
    <3>2. x \in LegType /\ y \in LegType /\ x.account = w /\ y.account = Settlement
      BY <1>1, <1>3, <1>4
    <3> HIDE DEF x, y, w, t
    <3> QED BY <1>2, <1>3, <3>1, <3>2
  <2> QED BY <1>5, <1>7, <2>1, <2>2, <2>3, <2>4
<1> HIDE DEF w, t
<1>8. CASE Legs(c) # PostRefund(t)
  <2>1. PICK d \in Directions, x \in LegType, y \in LegType :
               /\ Legs(c) = WithFee(t, d, x, y)
               /\ x.account # y.account /\ x.account # Revenue /\ y.account # Revenue
    BY <1>7, <1>8
  <2> DEFINE L == WithFee(t, d, x, y)
  <2>2. /\ L \in Seq(LegType) /\ Len(L) \in {2, 3}
        /\ \A i, j \in 1..Len(L) : L[i].account = L[j].account => i = j
    BY <1>1, <2>1, WithFeeShape
  <2> HIDE DEF L
  <2>3. Legs(c) = L
    BY <2>1 DEF L
  <2> QED BY <2>2, <2>3
<1> QED BY <1>6, <1>8

\* The change a leg makes is an integer, and a row makes the change of its leg.
LEMMA DeltaOfRow ==
  /\ \A l \in LegType : Delta(l) \in Int
  /\ \A e \in Entry : Delta(e) \in Int
  /\ \A s \in Sessions, l \in LegType : Delta(RowFor(s, l)) = Delta(l)
BY DEF LegType, Entry, Delta, RowFor

\* What TypeOK and Progress say of a session in the middle of a call.
LEMMA InCall ==
  ASSUME TypeOK, Progress, NEW s \in Sessions, ~Idle(s)
  PROVE  /\ call[s] \in Posting /\ leg[s] \in Nat
         /\ leg[s] <= Len(Legs(call[s])) /\ Len(Legs(call[s])) \in {2, 3}
         /\ \A i \in 1..Len(Legs(call[s])) : Legs(call[s])[i] \in LegType
         /\ \A i, j \in 1..Len(Legs(call[s])) :
              Legs(call[s])[i].account = Legs(call[s])[j].account => i = j
<1>1. call[s] \in Posting
  BY DEF TypeOK, Call, Posting, Idle
<1>2. leg[s] \in Nat /\ leg[s] <= Len(Legs(call[s]))
  BY DEF TypeOK, Progress
<1> QED BY <1>1, <1>2, LegsShape

\* The row of a leg is a well-formed entry.
LEMMA RowForType ==
  ASSUME TypeOK, NEW s \in Sessions, call[s] \in Posting, NEW l \in LegType
  PROVE  RowFor(s, l) \in Entry
<1>1. balance[l.account] \in Int /\ Delta(l) \in Int
  BY DeltaOfRow DEF TypeOK, LegType
<1> QED BY <1>1 DEF RowFor, Entry, LegType, Posting
-----------------------------------------------------------------------------
(***************************************************************************)
(* The inductive invariant.                                                *)
(***************************************************************************)

\* It holds at the start.
LEMMA InitIInv == Init => IInv
<1> SUFFICES ASSUME Init PROVE IInv
  OBVIOUS
<1>1. TypeOK
  BY DEF Init, TypeOK, Call
<1>2. Progress /\ RowsOfLegs /\ LegsHaveRows /\ RowsLocked /\ RowsSolvent
  BY DEF Init, Progress, RowsOfLegs, LegsHaveRows, RowsLocked, RowsSolvent, Idle
<1>3. WalletNeverNegative
  BY AccountsDiffer DEF Init, WalletNeverNegative
<1>4. SnapshotsChain
  BY DEF Init, SnapshotsChain
<1> QED BY <1>1, <1>2, <1>3, <1>4 DEF IInv

\* A session that ends without committing disturbs nobody.
LEMMA EndCallKeepsIInv ==
  ASSUME IInv, NEW s \in Sessions, EndCall(s), UNCHANGED <<balance, entries, posted>>
  PROVE  IInv'
<1> USE DEF IInv
<1>1. TypeOK'
  BY DEF TypeOK, EndCall, Unlock, Call
<1>2. \A u \in Sessions : u # s => call'[u] = call[u] /\ leg'[u] = leg[u] /\ pend'[u] = pend[u]
  BY DEF EndCall, TypeOK
<1>3. call'[s] = NoCall /\ leg'[s] = 0 /\ pend'[s] = {}
  BY DEF EndCall, TypeOK
<1>4. Progress'
  BY <1>2, <1>3 DEF Progress, Idle
<1>5. \A u \in Sessions, l \in LegType : u # s => (RowFor(u, l))' = RowFor(u, l)
  BY <1>2 DEF RowFor, Delta
<1>6. RowsOfLegs' /\ LegsHaveRows'
  <2> SUFFICES ASSUME NEW u \in Sessions, ~(Idle(u))'
               PROVE  /\ \A e \in pend'[u] : \E i \in 1..leg'[u] : e = (RowFor(u, Legs(call[u])[i]))'
                      /\ \A i \in 1..leg'[u] : (RowFor(u, Legs(call[u])[i]))' \in pend'[u]
    BY DEF RowsOfLegs, LegsHaveRows
  <2>1. u # s /\ ~Idle(u)
    BY <1>2, <1>3 DEF Idle
  <2>2. \A i \in 1..leg[u] : Legs(call[u])[i] \in LegType
    BY <2>1, InCall
  <2>3. \A i \in 1..leg[u] : (RowFor(u, Legs(call[u])[i]))' = RowFor(u, Legs(call[u])[i])
    BY <1>2, <2>1 DEF RowFor, Delta
  <2> QED BY <1>2, <2>1, <2>3 DEF RowsOfLegs, LegsHaveRows
<1>7. RowsLocked'
  <2> SUFFICES ASSUME NEW u \in Sessions, NEW e \in pend'[u] PROVE owner'[e.account] = u
    BY DEF RowsLocked
  <2>1. u # s /\ e \in pend[u] /\ e.account \in Accounts
    BY <1>2, <1>3 DEF TypeOK, Entry
  <2> QED BY <2>1 DEF RowsLocked, EndCall, Unlock
<1>8. RowsSolvent'
  BY <1>2, <1>3 DEF RowsSolvent
<1>9. WalletNeverNegative' /\ SnapshotsChain'
  BY DEF WalletNeverNegative, SnapshotsChain, Delta
<1> QED BY <1>1, <1>4, <1>6, <1>7, <1>8, <1>9

\* A new call starts without rows.
LEMMA BeginKeepsIInv ==
  ASSUME IInv, NEW s \in Sessions, NEW t \in Txns, NEW kind \in B!PostingKinds,
         Begin(s, t, kind)
  PROVE  IInv'
<1> USE DEF IInv
<1> DEFINE c == [txn |-> t, kind |-> kind]
<1>1. c \in Posting /\ c.txn = t /\ c.kind = kind
  BY DEF Posting
<1>2. c # NoCall
  BY DEF NoCall, B!PostingKinds
<1>3. call'[s] = c /\ leg[s] = 0 /\ pend[s] = {}
  BY DEF Begin, TypeOK, Progress
<1>4. \A u \in Sessions : u # s => call'[u] = call[u]
  BY DEF Begin, TypeOK
<1>5. UNCHANGED <<balance, entries, posted, owner, leg, pend>>
  BY DEF Begin
<1>6. TypeOK'
  BY <1>1, <1>5 DEF TypeOK, Begin, Call
<1>7. Progress'
  <2>1. Len(Legs(c)) \in {2, 3} /\ B!Permitted(t, kind)
    BY <1>1, LegsShape DEF Begin
  <2> QED BY <1>1, <1>3, <1>4, <1>5, <2>1 DEF Progress, Idle
<1>8. RowsOfLegs' /\ LegsHaveRows'
  <2> SUFFICES ASSUME NEW u \in Sessions, ~(Idle(u))'
               PROVE  /\ \A e \in pend'[u] : \E i \in 1..leg'[u] : e = (RowFor(u, Legs(call[u])[i]))'
                      /\ \A i \in 1..leg'[u] : (RowFor(u, Legs(call[u])[i]))' \in pend'[u]
    BY DEF RowsOfLegs, LegsHaveRows
  <2>1. CASE u = s
    BY <1>3, <1>5, <2>1
  <2>2. CASE u # s
    BY <1>4, <1>5, <2>2 DEF RowsOfLegs, LegsHaveRows, RowFor, Delta, Idle
  <2> QED BY <2>1, <2>2
<1>9. RowsLocked' /\ RowsSolvent' /\ WalletNeverNegative' /\ SnapshotsChain'
  BY <1>5 DEF RowsLocked, RowsSolvent, WalletNeverNegative, SnapshotsChain, Delta
<1> QED BY <1>6, <1>7, <1>8, <1>9

\* A leg taken adds its row, and the lock that keeps the row current.
LEMMA TakeLegKeepsIInv ==
  ASSUME IInv, NEW s \in Sessions, TakeLeg(s)
  PROVE  IInv'
<1> USE DEF IInv
<1> DEFINE k == leg[s] + 1
           l == Legs(call[s])[k]
           row == RowFor(s, l)
<1>1. /\ ~Idle(s) /\ call[s] \in Posting /\ leg[s] \in Nat
      /\ k \in 1..Len(Legs(call[s])) /\ Len(Legs(call[s])) \in {2, 3}
      /\ \A i \in 1..leg[s] : i \in 1..Len(Legs(call[s])) /\ Legs(call[s])[i].account # l.account
  BY InCall DEF TakeLeg, HasNextLeg
<1>2. l \in LegType /\ l.account \in Accounts
  BY <1>1, InCall DEF LegType
<1>3. /\ owner[l.account] \in {NoSession, s}
      /\ l.account \in Wallets => balance[l.account] + Delta(l) >= 0
      /\ owner' = [owner EXCEPT ![l.account] = s]
      /\ pend' = [pend EXCEPT ![s] = @ \cup {row}]
      /\ leg' = [leg EXCEPT ![s] = k]
      /\ UNCHANGED <<balance, entries, posted, call>>
  BY <1>2, DeltaOfRow DEF TakeLeg, NextLeg, LockFree, Overdraws, TypeOK
<1>4. row \in Entry /\ row.account = l.account /\ row.after = balance[l.account] + Delta(l)
  BY <1>1, <1>2, RowForType DEF RowFor
<1> HIDE DEF l, row
<1>5. TypeOK'
  BY <1>1, <1>2, <1>3, <1>4 DEF TypeOK
<1>6. \A u \in Sessions, x \in LegType : (RowFor(u, x))' = RowFor(u, x)
  BY <1>3 DEF RowFor, Delta
<1>7. \A u \in Sessions : (Idle(u))' <=> Idle(u)
  BY <1>3 DEF Idle
<1>8. \A u \in Sessions : u # s => pend'[u] = pend[u] /\ leg'[u] = leg[u]
  BY <1>3 DEF TypeOK
<1>9. pend'[s] = pend[s] \cup {row} /\ leg'[s] = leg[s] + 1
  BY <1>3 DEF TypeOK
<1>10. Progress'
  BY <1>1, <1>3, <1>7, <1>8, <1>9 DEF Progress
<1>11. RowsOfLegs' /\ LegsHaveRows'
  <2> SUFFICES ASSUME NEW u \in Sessions, ~Idle(u)
               PROVE  /\ \A e \in pend'[u] : \E i \in 1..leg'[u] : e = (RowFor(u, Legs(call[u])[i]))'
                      /\ \A i \in 1..leg'[u] : (RowFor(u, Legs(call[u])[i]))' \in pend'[u]
    BY <1>7 DEF RowsOfLegs, LegsHaveRows
  <2>1. \A i \in 1..Len(Legs(call[u])) : (RowFor(u, Legs(call[u])[i]))' = RowFor(u, Legs(call[u])[i])
    BY <1>3 DEF RowFor, Delta
  <2>2. leg[u] \in Nat /\ leg[u] <= Len(Legs(call[u])) /\ Len(Legs(call[u])) \in Nat
    BY InCall
  <2>3. CASE u # s
    BY <1>8, <2>1, <2>2, <2>3 DEF RowsOfLegs, LegsHaveRows
  <2>4. CASE u = s
    <3>1. /\ \A e \in pend[s] : \E i \in 1..leg[s] : e = RowFor(s, Legs(call[s])[i])
          /\ \A i \in 1..leg[s] : RowFor(s, Legs(call[s])[i]) \in pend[s]
      BY <1>1 DEF RowsOfLegs, LegsHaveRows
    <3>2. row = RowFor(s, Legs(call[s])[leg[s] + 1])
      BY DEF row, l
    <3>3. \A i \in 1..(leg[s] + 1) : i \in 1..leg[s] \/ i = leg[s] + 1
      BY <1>1
    <3> QED BY <1>1, <1>9, <2>1, <2>4, <3>1, <3>2, <3>3
  <2> QED BY <2>3, <2>4
<1>12. RowsLocked'
  <2> SUFFICES ASSUME NEW u \in Sessions, NEW e \in pend'[u] PROVE owner'[e.account] = u
    BY DEF RowsLocked
  <2>1. e \in Entry /\ e.account \in Accounts
    BY <1>5 DEF TypeOK, Entry
  <2>2. CASE u = s
    BY <1>2, <1>3, <1>4, <1>9, <2>1, <2>2 DEF RowsLocked, TypeOK
  <2>3. CASE u # s
    <3>1. owner[e.account] = u /\ u # NoSession
      BY <1>8, <2>3, SessionAssumption DEF RowsLocked
    <3> QED BY <1>3, <2>1, <2>3, <3>1 DEF TypeOK
  <2> QED BY <2>2, <2>3
<1>13. RowsSolvent'
  <2> SUFFICES ASSUME NEW u \in Sessions, NEW e \in pend'[u], e.account \in Wallets
               PROVE  e.after >= 0
    BY DEF RowsSolvent
  <2>1. e \in pend[u] \/ e = row
    BY <1>8, <1>9
  <2> QED BY <1>3, <1>4, <2>1 DEF RowsSolvent
<1>14. WalletNeverNegative' /\ SnapshotsChain'
  BY <1>3 DEF WalletNeverNegative, SnapshotsChain, Delta
<1> QED BY <1>5, <1>10, <1>11, <1>12, <1>13, <1>14

\* What a commit writes, account by account: a touched account gets exactly one
\* row, which starts from its present balance; the others do not change.
LEMMA CommitWrites ==
  ASSUME IInv, NEW s \in Sessions, Commit(s), NEW a \in Accounts
  PROVE  \/ /\ \E e \in pend[s] : e.account = a
            /\ \E i \in 1..Len(Legs(call[s])) :
                 LET l == Legs(call[s])[i]  e == RowFor(s, l) IN
                 /\ l.account = a /\ e \in pend[s]
                 /\ balance'[a] = balance[a] + Delta(l)
                 /\ entries'[a] = Append(entries[a], e)
         \/ /\ \A e \in pend[s] : e.account # a
            /\ \A i \in 1..Len(Legs(call[s])) : Legs(call[s])[i].account # a
            /\ balance'[a] = balance[a] /\ entries'[a] = entries[a]
<1> USE DEF IInv
<1>1. /\ ~Idle(s) /\ call[s] \in Posting
      /\ leg[s] = Len(Legs(call[s])) /\ Len(Legs(call[s])) \in {2, 3}
  BY InCall DEF Commit, HasNextLeg
<1>2. /\ \A e \in pend[s] : \E i \in 1..Len(Legs(call[s])) : e = RowFor(s, Legs(call[s])[i])
      /\ \A i \in 1..Len(Legs(call[s])) : RowFor(s, Legs(call[s])[i]) \in pend[s]
  BY <1>1 DEF RowsOfLegs, LegsHaveRows
<1>3. /\ \A i \in 1..Len(Legs(call[s])) : Legs(call[s])[i] \in LegType
      /\ \A i, j \in 1..Len(Legs(call[s])) :
           Legs(call[s])[i].account = Legs(call[s])[j].account => i = j
  BY <1>1, InCall
<1>4. \A l \in LegType : /\ RowFor(s, l).account = l.account
                         /\ RowFor(s, l).after = balance[l.account] + Delta(l)
  BY DEF RowFor
<1>5. /\ balance'[a] = IF a \in {e.account : e \in pend[s]}
                       THEN (CHOOSE e \in pend[s] : e.account = a).after ELSE balance[a]
      /\ entries'[a] = IF a \in {e.account : e \in pend[s]}
                       THEN Append(entries[a], CHOOSE e \in pend[s] : e.account = a)
                       ELSE entries[a]
  BY DEF Commit
<1>6. CASE \E e \in pend[s] : e.account = a
  <2> DEFINE r == CHOOSE e \in pend[s] : e.account = a
  <2>1. r \in pend[s] /\ r.account = a
    BY <1>6
  <2>2. PICK i \in 1..Len(Legs(call[s])) : r = RowFor(s, Legs(call[s])[i])
    BY <1>2, <2>1
  <2>3. balance'[a] = r.after /\ entries'[a] = Append(entries[a], r)
    BY <1>5, <1>6
  <2> HIDE DEF r
  <2> QED BY <1>3, <1>4, <1>6, <2>1, <2>2, <2>3
<1>7. CASE \A e \in pend[s] : e.account # a
  <2>1. \A i \in 1..Len(Legs(call[s])) : Legs(call[s])[i].account # a
    BY <1>2, <1>3, <1>4, <1>7
  <2> QED BY <1>5, <1>7, <2>1
<1> QED BY <1>6, <1>7

\* The entries q of an account form an unbroken chain that ends at balance b.
Chain(q, b) ==
  /\ \A i \in 1..Len(q) :
       /\ q[i].before = IF i = 1 THEN 0 ELSE q[i - 1].after
       /\ q[i].after = q[i].before + Delta(q[i])
  /\ b = IF q = <<>> THEN 0 ELSE q[Len(q)].after

\* An entry that starts from the balance extends the chain.
LEMMA ChainExtends ==
  ASSUME NEW q \in Seq(Entry), NEW b, Chain(q, b),
         NEW e \in Entry, e.before = b, e.after = e.before + Delta(e)
  PROVE  Chain(Append(q, e), e.after)
<1> DEFINE p == Append(q, e)
<1>1. /\ p \in Seq(Entry) /\ Len(q) \in Nat /\ Len(p) = Len(q) + 1 /\ p # <<>>
      /\ p[Len(q) + 1] = e /\ \A i \in 1..Len(q) : p[i] = q[i]
  OBVIOUS
<1> HIDE DEF p
<1>2. ASSUME NEW i \in 1..Len(p)
      PROVE  /\ p[i].before = IF i = 1 THEN 0 ELSE p[i - 1].after
             /\ p[i].after = p[i].before + Delta(p[i])
  <2>1. CASE i = Len(q) + 1
    <3>1. CASE q = <<>>
      BY <1>1, <2>1, <3>1 DEF Chain
    <3>2. CASE q # <<>>
      <4>1. Len(q) \in 1..Len(q) /\ i # 1 /\ i - 1 = Len(q)
        BY <1>1, <2>1, <3>2
      <4> QED BY <1>1, <2>1, <3>2, <4>1 DEF Chain
    <3> QED BY <3>1, <3>2
  <2>2. CASE i \in 1..Len(q)
    <3>1. p[i] = q[i] /\ (i # 1 => p[i - 1] = q[i - 1])
      BY <1>1, <2>2
    <3> QED BY <2>2, <3>1 DEF Chain
  <2> QED BY <1>1, <2>1, <2>2
<1>3. p # <<>> /\ p[Len(p)].after = e.after
  BY <1>1
<1> QED BY <1>2, <1>3 DEF Chain, p

\* A commit publishes its rows; no other session's rows mention those accounts.
LEMMA CommitKeepsIInv ==
  ASSUME IInv, NEW s \in Sessions, Commit(s)
  PROVE  IInv'
<1> USE DEF IInv
<1>1. /\ ~Idle(s) /\ call[s] \in Posting
      /\ \A i \in 1..Len(Legs(call[s])) : Legs(call[s])[i] \in LegType
  BY InCall DEF Commit
<1>2. \A i \in 1..Len(Legs(call[s])) :
        /\ RowFor(s, Legs(call[s])[i]) \in Entry
        /\ Delta(Legs(call[s])[i]) \in Int
        /\ Delta(RowFor(s, Legs(call[s])[i])) = Delta(Legs(call[s])[i])
  BY <1>1, RowForType, DeltaOfRow
<1>3. \A u \in Sessions : u # s => call'[u] = call[u] /\ leg'[u] = leg[u] /\ pend'[u] = pend[u]
  BY DEF Commit, EndCall, TypeOK
<1>4. call'[s] = NoCall /\ leg'[s] = 0 /\ pend'[s] = {}
  BY DEF Commit, EndCall, TypeOK
<1>5. TypeOK'
  <2>1. balance' \in [Accounts -> Int]
    <3>1. \A a \in Accounts : balance'[a] \in Int
      BY <1>2, CommitWrites DEF TypeOK
    <3> QED BY <3>1 DEF Commit
  <2>2. entries' \in [Accounts -> Seq(Entry)]
    <3>1. ASSUME NEW a \in Accounts PROVE entries'[a] \in Seq(Entry)
      <4>1. \/ entries'[a] = entries[a]
            \/ \E e \in Entry : entries'[a] = Append(entries[a], e)
        BY <1>2, CommitWrites
      <4>2. entries[a] \in Seq(Entry)
        BY DEF TypeOK
      <4> QED BY <4>1, <4>2
    <3> QED BY <3>1 DEF Commit
  <2>3. posted' \in [Txns -> [B!PostingKinds -> Nat]]
    BY <1>1 DEF Commit, TypeOK, Posting
  <2>4. owner' \in [Accounts -> Sessions \cup {NoSession}]
    BY DEF Commit, EndCall, Unlock, TypeOK
  <2>5. call' \in [Sessions -> Call] /\ leg' \in [Sessions -> Nat] /\ pend' \in [Sessions -> SUBSET Entry]
    BY DEF Commit, EndCall, TypeOK, Call
  <2> QED BY <2>1, <2>2, <2>3, <2>4, <2>5 DEF TypeOK
<1>6. Progress'
  BY <1>3, <1>4 DEF Progress, Idle
<1>7. ASSUME NEW u \in Sessions, u # s, NEW e \in pend[u]
      PROVE  balance'[e.account] = balance[e.account] /\ owner'[e.account] = u
  <2>1. e.account \in Accounts /\ owner[e.account] = u
    BY DEF TypeOK, Entry, RowsLocked
  <2>2. \A f \in pend[s] : f.account # e.account
    BY <1>7, <2>1 DEF RowsLocked
  <2>3. balance'[e.account] = balance[e.account]
    BY <2>1, <2>2, CommitWrites
  <2>4. owner'[e.account] = owner[e.account]
    BY <1>7, <2>1 DEF Commit, EndCall, Unlock
  <2> QED BY <2>1, <2>3, <2>4
<1>8. RowsOfLegs' /\ LegsHaveRows'
  <2> SUFFICES ASSUME NEW u \in Sessions, ~(Idle(u))'
               PROVE  /\ \A e \in pend'[u] : \E i \in 1..leg'[u] : e = (RowFor(u, Legs(call[u])[i]))'
                      /\ \A i \in 1..leg'[u] : (RowFor(u, Legs(call[u])[i]))' \in pend'[u]
    BY DEF RowsOfLegs, LegsHaveRows
  <2>1. u # s /\ ~Idle(u)
    BY <1>3, <1>4 DEF Idle
  <2>2. \A i \in 1..leg[u] : /\ RowFor(u, Legs(call[u])[i]) \in pend[u]
                             /\ RowFor(u, Legs(call[u])[i]).account = Legs(call[u])[i].account
    BY <2>1 DEF LegsHaveRows, RowFor
  <2>3. \A i \in 1..leg[u] : balance'[Legs(call[u])[i].account] = balance[Legs(call[u])[i].account]
    BY <1>7, <2>1, <2>2
  <2>4. \A i \in 1..leg[u] : (RowFor(u, Legs(call[u])[i]))' = RowFor(u, Legs(call[u])[i])
    BY <1>3, <2>1, <2>3 DEF RowFor, Delta
  <2> QED BY <1>3, <2>1, <2>4 DEF RowsOfLegs, LegsHaveRows
<1>9. RowsLocked' /\ RowsSolvent'
  BY <1>3, <1>4, <1>7 DEF RowsLocked, RowsSolvent
<1>10. WalletNeverNegative'
  <2> SUFFICES ASSUME NEW m \in Merchants PROVE balance'[Wallet(m)] >= 0
    BY DEF WalletNeverNegative
  <2>1. Wallet(m) \in Accounts /\ Wallet(m) \in Wallets
    BY AccountsDiffer
  <2>2. CASE \E i \in 1..Len(Legs(call[s])) :
               LET l == Legs(call[s])[i]  e == RowFor(s, l) IN
               /\ l.account = Wallet(m) /\ e \in pend[s]
               /\ balance'[Wallet(m)] = balance[Wallet(m)] + Delta(l)
    BY <2>1, <2>2 DEF RowsSolvent, RowFor
  <2>3. CASE balance'[Wallet(m)] = balance[Wallet(m)]
    BY <2>3 DEF WalletNeverNegative
  <2> QED BY <2>1, <2>2, <2>3, CommitWrites
<1>11. SnapshotsChain'
  <2> SUFFICES ASSUME NEW a \in Accounts PROVE Chain(entries'[a], balance'[a])
    BY DEF SnapshotsChain, Delta, Chain
  <2>1. entries[a] \in Seq(Entry) /\ Chain(entries[a], balance[a])
    BY DEF SnapshotsChain, TypeOK, Chain
  <2>2. CASE balance'[a] = balance[a] /\ entries'[a] = entries[a]
    BY <2>1, <2>2
  <2>3. CASE \E i \in 1..Len(Legs(call[s])) :
               LET l == Legs(call[s])[i]  e == RowFor(s, l) IN
               /\ l.account = a /\ e \in pend[s]
               /\ balance'[a] = balance[a] + Delta(l)
               /\ entries'[a] = Append(entries[a], e)
    <3>1. PICK i \in 1..Len(Legs(call[s])) :
                 /\ Legs(call[s])[i].account = a
                 /\ balance'[a] = balance[a] + Delta(Legs(call[s])[i])
                 /\ entries'[a] = Append(entries[a], RowFor(s, Legs(call[s])[i]))
      BY <2>3
    <3> DEFINE e == RowFor(s, Legs(call[s])[i])
    <3>2. /\ e.before = balance[a] /\ e.after = balance'[a]
          /\ e.after = e.before + Delta(e) /\ e \in Entry
      BY <1>2, <3>1 DEF RowFor
    <3>3. entries'[a] = Append(entries[a], e)
      BY <3>1
    <3> HIDE DEF e
    <3> QED BY <2>1, <3>2, <3>3, ChainExtends
  <2> QED BY <2>2, <2>3, CommitWrites
<1> QED BY <1>5, <1>6, <1>8, <1>9, <1>10, <1>11

\* Every step preserves the invariant.
LEMMA NextKeepsIInv == IInv /\ [Next]_vars => IInv'
<1> SUFFICES ASSUME IInv, [Next]_vars PROVE IInv'
  OBVIOUS
<1>1. CASE UNCHANGED vars
  BY <1>1 DEF vars, IInv, TypeOK, Progress, RowsOfLegs, LegsHaveRows, RowsLocked, RowsSolvent,
              WalletNeverNegative, SnapshotsChain, Idle, RowFor, Delta
<1>2. ASSUME NEW s \in Sessions, NEW t \in Txns, NEW kind \in B!PostingKinds, Begin(s, t, kind)
      PROVE  IInv'
  BY <1>2, BeginKeepsIInv
<1>3. ASSUME NEW s \in Sessions, Run(s) PROVE IInv'
  BY <1>3, TakeLegKeepsIInv, EndCallKeepsIInv, CommitKeepsIInv DEF Run, RefuseOverdraft
<1>4. ASSUME NEW s \in Sessions, AbortVictim(s) \/ LoseConnection(s) PROVE IInv'
  BY <1>4, EndCallKeepsIInv DEF AbortVictim, LoseConnection
<1> QED BY <1>1, <1>2, <1>3, <1>4 DEF Next

\* The invariant holds in every behaviour of the ledger.
THEOREM LedgerInvariant == Spec => []IInv
BY InitIInv, NextKeepsIInv, PTL DEF Spec

\* Every variable keeps its type.
THEOREM LedgerTypes == Spec => []TypeOK
BY LedgerInvariant, PTL DEF IInv

\* Whatever postings run at the same time, no wallet account is overdrawn.
THEOREM LedgerSolvent == Spec => []WalletNeverNegative
BY LedgerInvariant, PTL DEF IInv

\* The balance snapshots of each account form one chain that ends at its balance.
THEOREM LedgerChained == Spec => []SnapshotsChain
BY LedgerInvariant, PTL DEF IInv
-----------------------------------------------------------------------------
(***************************************************************************)
(* Refinement: the ledger implements the indivisible postings of Books.    *)
(***************************************************************************)

\* What Books says one posting does to an account.
Effect(c, a) ==
  IF a = Settlement THEN B!SettlementEffect(c.txn, c.kind)
  ELSE IF a = Revenue THEN B!RevenueEffect(c.txn, c.kind)
  ELSE IF a = Wallet(TxnMerchant[c.txn]) THEN B!WalletEffect(c.txn, c.kind)
  ELSE 0

\* A leg of a batch makes exactly the change that Books asks of its account.
Agrees(c, l) == Delta(l) = Effect(c, l.account)

\* The legs of a batch are the effect of the posting, account by account.
LEMMA LegsAreEffect ==
  ASSUME NEW c \in Posting, B!Permitted(c.txn, c.kind), NEW a \in Accounts
  PROVE  /\ \A i \in 1..Len(Legs(c)) :
              Legs(c)[i].account = a => Delta(Legs(c)[i]) = Effect(c, a)
         /\ (\A i \in 1..Len(Legs(c)) : Legs(c)[i].account # a) => Effect(c, a) = 0
<1> DEFINE t == c.txn  w == Wallet(TxnMerchant[t])  Gross == Net[t] + Fee[t]
<1>1. /\ t \in Txns /\ c.kind \in {"post", "reverse"}
      /\ Net[t] \in Nat /\ Fee[t] \in Nat /\ Gross \in Nat
      /\ TxnType[t] \in {"collection", "disbursement", "refund"}
      /\ TxnMerchant[t] \in Merchants
  BY TxnAssumption DEF Posting, B!PostingKinds
<1>2. w # Settlement /\ w # Revenue /\ Settlement # Revenue
  BY <1>1, AccountsDiffer
<1>3. \A n \in Nat :
        /\ Leg(Settlement, "debit", n).account = Settlement
        /\ Leg(Settlement, "credit", n).account = Settlement
        /\ Delta(Leg(Settlement, "debit", n)) = n /\ Delta(Leg(Settlement, "credit", n)) = -n
        /\ Leg(w, "debit", n).account = w /\ Leg(w, "credit", n).account = w
        /\ Delta(Leg(w, "debit", n)) = -n /\ Delta(Leg(w, "credit", n)) = n
        /\ Leg(Revenue, "debit", n).account = Revenue
        /\ Leg(Revenue, "credit", n).account = Revenue
        /\ Delta(Leg(Revenue, "debit", n)) = -n /\ Delta(Leg(Revenue, "credit", n)) = n
  BY <1>2 DEF Leg, Delta
<1>4. /\ Effect(c, Settlement) = B!SettlementEffect(t, c.kind)
      /\ Effect(c, Revenue) = B!RevenueEffect(t, c.kind)
      /\ Effect(c, w) = B!WalletEffect(t, c.kind)
      /\ a \notin {Settlement, Revenue, w} => Effect(c, a) = 0
  BY <1>2 DEF Effect
<1>5. ASSUME NEW d \in {"debit", "credit"}, NEW x, NEW y,
             Legs(c) = WithFee(t, d, x, y), Agrees(c, x), Agrees(c, y),
             {x.account, y.account} = {Settlement, w},
             B!RevenueEffect(t, c.kind) = IF d = "credit" THEN Fee[t] ELSE -Fee[t]
      PROVE  /\ \A i \in 1..Len(Legs(c)) :
                  Legs(c)[i].account = a => Delta(Legs(c)[i]) = Effect(c, a)
             /\ (\A i \in 1..Len(Legs(c)) : Legs(c)[i].account # a) => Effect(c, a) = 0
  <2> DEFINE r == Leg(Revenue, d, Fee[t])
  <2>1. r.account = Revenue /\ Agrees(c, r)
    BY <1>1, <1>3, <1>4, <1>5 DEF Agrees
  <2>2. CASE Fee[t] > 0
    <3>1. Legs(c) = <<x, y, r>>
      BY <1>5, <2>2 DEF WithFee
    <3>2. Len(Legs(c)) = 3 /\ Legs(c)[1] = x /\ Legs(c)[2] = y /\ Legs(c)[3] = r
      BY <3>1
    <3> HIDE DEF r, w, t
    <3> QED BY <1>4, <1>5, <2>1, <3>2 DEF Agrees
  <2>3. CASE Fee[t] = 0
    <3>1. Legs(c) = <<x, y>>
      BY <1>1, <1>5, <2>3 DEF WithFee
    <3>2. Len(Legs(c)) = 2 /\ Legs(c)[1] = x /\ Legs(c)[2] = y
      BY <3>1
    <3>3. Effect(c, Revenue) = 0
      <4>1. B!RevenueEffect(t, c.kind) = 0
        BY <1>1, <2>3 DEF B!RevenueEffect, B!Sign
      <4> QED BY <1>4, <4>1
    <3> HIDE DEF r, w, t
    <3> QED BY <1>4, <1>5, <3>2, <3>3 DEF Agrees
  <2> QED BY <1>1, <2>2, <2>3
<1>6. CASE TxnType[t] = "collection" /\ c.kind = "post"
  <2> DEFINE x == Leg(Settlement, "debit", Gross)  y == Leg(w, "credit", Net[t])
  <2>1. Legs(c) = WithFee(t, "credit", x, y)
    BY <1>6 DEF Legs, PostCollection
  <2>2. Agrees(c, x) /\ Agrees(c, y) /\ {x.account, y.account} = {Settlement, w}
    BY <1>1, <1>3, <1>4, <1>6 DEF Agrees, B!SettlementEffect, B!WalletEffect, B!Sign
  <2>3. B!RevenueEffect(t, c.kind) = Fee[t]
    BY <1>1, <1>6 DEF B!RevenueEffect, B!Sign
  <2> QED BY <1>5, <2>1, <2>2, <2>3
<1>7. CASE TxnType[t] = "collection" /\ c.kind = "reverse"
  <2> DEFINE x == Leg(w, "debit", Net[t])  y == Leg(Settlement, "credit", Gross)
  <2>1. Legs(c) = WithFee(t, "debit", x, y)
    BY <1>7 DEF Legs, ReverseCollection
  <2>2. Agrees(c, x) /\ Agrees(c, y) /\ {x.account, y.account} = {Settlement, w}
    BY <1>1, <1>3, <1>4, <1>7 DEF Agrees, B!SettlementEffect, B!WalletEffect, B!Sign
  <2>3. B!RevenueEffect(t, c.kind) = -Fee[t]
    BY <1>1, <1>7 DEF B!RevenueEffect, B!Sign
  <2> QED BY <1>5, <2>1, <2>2, <2>3
<1>8. CASE TxnType[t] = "disbursement" /\ c.kind = "post"
  <2> DEFINE x == Leg(w, "debit", Gross)  y == Leg(Settlement, "credit", Net[t])
  <2>1. Legs(c) = WithFee(t, "credit", x, y)
    BY <1>8 DEF Legs, PostDisbursement
  <2>2. Agrees(c, x) /\ Agrees(c, y) /\ {x.account, y.account} = {Settlement, w}
    BY <1>1, <1>3, <1>4, <1>8 DEF Agrees, B!SettlementEffect, B!WalletEffect, B!Sign
  <2>3. B!RevenueEffect(t, c.kind) = Fee[t]
    BY <1>1, <1>8 DEF B!RevenueEffect, B!Sign
  <2> QED BY <1>5, <2>1, <2>2, <2>3
<1>9. CASE TxnType[t] = "disbursement" /\ c.kind = "reverse"
  <2> DEFINE x == Leg(w, "credit", Gross)  y == Leg(Settlement, "debit", Net[t])
  <2>1. Legs(c) = WithFee(t, "debit", x, y)
    BY <1>9 DEF Legs, ReverseDisbursement
  <2>2. Agrees(c, x) /\ Agrees(c, y) /\ {x.account, y.account} = {Settlement, w}
    BY <1>1, <1>3, <1>4, <1>9 DEF Agrees, B!SettlementEffect, B!WalletEffect, B!Sign
  <2>3. B!RevenueEffect(t, c.kind) = -Fee[t]
    BY <1>1, <1>9 DEF B!RevenueEffect, B!Sign
  <2> QED BY <1>5, <2>1, <2>2, <2>3
<1>10. CASE TxnType[t] = "refund"
  <2> DEFINE x == Leg(w, "debit", Net[t])  y == Leg(Settlement, "credit", Net[t])
  <2>1. c.kind = "post"
    BY <1>1, <1>10 DEF B!Permitted
  <2>2. Legs(c) = <<x, y>>
    BY <1>10 DEF Legs, PostRefund
  <2>3. Agrees(c, x) /\ Agrees(c, y) /\ x.account = w /\ y.account = Settlement
    BY <1>1, <1>3, <1>4, <1>10, <2>1 DEF Agrees, B!SettlementEffect, B!WalletEffect, B!Sign
  <2>4. Effect(c, Revenue) = 0
    BY <1>1, <1>4, <1>10, <2>1 DEF B!RevenueEffect, B!Sign
  <2>5. Len(Legs(c)) = 2 /\ Legs(c)[1] = x /\ Legs(c)[2] = y
    BY <2>2
  <2> HIDE DEF x, y, w, t
  <2> QED BY <1>4, <2>3, <2>4, <2>5 DEF Agrees
<1> QED BY <1>1, <1>6, <1>7, <1>8, <1>9, <1>10

\* A commit is one indivisible posting of Books.
LEMMA CommitIsPost ==
  ASSUME IInv, NEW s \in Sessions, Commit(s)
  PROVE  B!Next
<1> DEFINE c == call[s]  t == c.txn  m == TxnMerchant[t]
<1>1. c \in Posting /\ ~Idle(s) /\ B!Permitted(t, c.kind)
  BY InCall DEF IInv, Progress, Commit
<1>2. t \in Txns /\ c.kind \in B!PostingKinds /\ m \in Merchants
  BY <1>1, TxnAssumption DEF Posting
<1>3. \A a \in Accounts : balance[a] \in Int /\ balance'[a] \in Int
  BY NextKeepsIInv DEF IInv, TypeOK, Next, Run
<1>4. ASSUME NEW a \in Accounts PROVE balance'[a] = balance[a] + Effect(c, a)
  <2>1. \/ \E i \in 1..Len(Legs(c)) :
             Legs(c)[i].account = a /\ balance'[a] = balance[a] + Delta(Legs(c)[i])
        \/ (\A i \in 1..Len(Legs(c)) : Legs(c)[i].account # a) /\ balance'[a] = balance[a]
    BY CommitWrites
  <2> QED BY <1>1, <1>3, <2>1, LegsAreEffect
<1>5. /\ balance'[Settlement] = balance[Settlement] + B!SettlementEffect(t, c.kind)
      /\ balance'[Revenue] = balance[Revenue] + B!RevenueEffect(t, c.kind)
  BY <1>4, AccountsDiffer DEF Effect
<1>6. \A n \in Merchants :
        balance'[Wallet(n)] = balance[Wallet(n)]
                                + (IF n = m THEN B!WalletEffect(t, c.kind) ELSE 0)
  BY <1>2, <1>4, AccountsDiffer DEF Effect
<1>7. balance'[Wallet(m)] >= 0
  <2>1. WalletNeverNegative'
    BY NextKeepsIInv DEF IInv, Next, Run
  <2> QED BY <1>2, <2>1 DEF WalletNeverNegative
<1>8. posted' = [posted EXCEPT ![t][c.kind] = @ + 1]
  BY DEF Commit
<1> HIDE DEF c, t, m
<1>9. [n \in Merchants |-> balance'[Wallet(n)]]
        = [[n \in Merchants |-> balance[Wallet(n)]] EXCEPT ![m] = @ + B!WalletEffect(t, c.kind)]
  <2>1. ASSUME NEW n \in Merchants, n # m PROVE balance'[Wallet(n)] = balance[Wallet(n)]
    <3>1. balance[Wallet(n)] \in Int
      BY <1>3, AccountsDiffer
    <3> QED BY <1>6, <2>1, <3>1
  <2>2. balance'[Wallet(m)] = balance[Wallet(m)] + B!WalletEffect(t, c.kind)
    BY <1>2, <1>6
  <2> QED BY <1>2, <2>1, <2>2
<1>10. [n \in Merchants |-> balance[Wallet(n)]][m] + B!WalletEffect(t, c.kind) >= 0
  BY <1>2, <1>6, <1>7
<1>11. B!Post(t, c.kind)
  BY <1>1, <1>5, <1>8, <1>9, <1>10 DEF B!Post, m, t
<1> QED BY <1>2, <1>11 DEF B!Next

\* Every step of the ledger is a posting of Books or changes nothing there.
LEMMA StepIsPost == IInv /\ [Next]_vars => [B!Next]_(B!vars)
<1> SUFFICES ASSUME IInv, [Next]_vars, ~(\E s \in Sessions : Commit(s))
             PROVE  UNCHANGED B!vars
  BY CommitIsPost
<1>1. UNCHANGED <<balance, posted>>
  BY DEF Next, vars, Run, Begin, TakeLeg, RefuseOverdraft, AbortVictim, LoseConnection
<1> QED BY <1>1 DEF B!vars

\* The row-locked function, whatever the interleaving, implements the
\* indivisible posting its callers rely on.
THEOREM LedgerImplementsBooks == Spec => ImplementsBooks
<1>1. Init => B!Init
  BY AccountsDiffer DEF Init, B!Init
<1> QED BY <1>1, LedgerInvariant, StepIsPost, PTL DEF Spec, ImplementsBooks, B!Spec
-----------------------------------------------------------------------------
(***************************************************************************)
(* Commerce: rows, requests, and the books they keep.                       *)
(***************************************************************************)
Counters == {"links", "pages", "changes", "expiries", "invoices", "papers", "pays", "directs",
             "reviews", "returns"}
LinkOf == [amount : Nat, status : {"ACTIVE", "PAID", "CANCELLED", "EXPIRED"}, over : BOOLEAN]
InvoiceRow == [status : {"DRAFT", "SENT", "PARTIALLY_PAID", "PAID", "CANCELLED"},
               total : Nat, paid : Nat, link : Nat]
OrderOf == [link : Nat, amount : Nat, status : {"created", "failed", "completed"},
            truth : {"unpaid", "paid", "returned"}]
AttemptOf == [link : Nat, invoice : Nat, order : Nat, method : Methods, amount : Nat,
              status : {"processing", "failed", "pending_review"} \cup Settled]
Up == {"settle", "book", "write"}
Down == {"unsettle", "unbook", "unwrite"}
Paying == {"ordering", "pushing"}
\* Where only a thread can be.
Slow == {"lapse", "due", "insert", "attach"}
Places == Up \cup Down \cup Paying \cup
  {"idle", "lapse", "view", "cancel", "edit", "revise", "due", "void", "insert", "attach", "email",
   "sent", "asking", "clear", "close"}
Operations == {"", "view", "cancel", "edit", "revise", "send", "generate", "void"}
WorkOf == [at : Places, op : Operations, link : Nat, inv : Nat, order : Nat, coll : Nat,
           method : Methods \cup {""}, amount : Nat, total : Nat, paid : Nat]

Paper == /\ links \in Seq(LinkOf) /\ invoices \in Seq(InvoiceRow)
         /\ orders \in Seq(OrderOf) /\ colls \in Seq(AttemptOf)
Types == Paper /\ work \in [Requests -> WorkOf]

\* Nothing was held that an administrator could clear.
NoReviews == "reviews" \in DOMAIN left /\ left["reviews"] = 0

\* No invoice goes by the link.
Unbilled(l) == \A i \in 1..Len(invoices) : invoices[i].link = l => l = 0
\* A link that exists, that no invoice goes by and nobody tried to pay.
Unused(l) == /\ l \in 1..Len(links) /\ Unbilled(l)
             /\ \A c \in 1..Len(colls) : colls[c].link # l

\* What a request is about exists, and is as the request remembers it.
Prepares(r) == LET q == work[r] IN
  /\ q.at \in Slow => r \in Threads
  /\ q.at = "insert" \/ (q.at = "lapse" /\ q.op = "generate") => q.paid < q.total
  /\ q.at = "attach" => Unused(q.link)
  /\ q.at \in Paying => q.link <= Len(links) /\ q.inv <= Len(invoices)
  /\ q.at \in Paying => q.method \in Methods
  /\ q.at = "pushing" /\ q.inv = 0 => Unbilled(q.link)
Books(r) == LET q == work[r] IN
  /\ q.at # "clear"
  /\ q.at = "asking" => r \in Handlers /\ q.coll \in 1..Len(colls)
  /\ q.at \in Up \cup Down => r \in Handlers /\ busy = r /\ q.coll \in 1..Len(colls)
  /\ q.at \in Up => colls[q.coll].status = "successful"
  /\ q.at \in Down => colls[q.coll].status = "reversed"
  /\ q.at \in {"write", "unwrite"} =>
       /\ q.inv \in 1..Len(invoices) /\ q.inv = colls[q.coll].invoice
       /\ q.paid = invoices[q.inv].paid
\* A link that is being attached is nobody else's.
Apart(r, s) == work[r].at = "attach" /\ work[s].at \in Paying \cup {"attach"} /\ r # s
                 => work[r].link # work[s].link
Placed(c) == LET a == colls[c] IN
  /\ a.link <= Len(links)
  /\ a.status # "pending_review" => a.invoice <= Len(invoices)
  /\ a.invoice = 0 => Unbilled(a.link)
Linking == \A i \in 1..Len(invoices) : invoices[i].link <= Len(links)

Requested == \A r \in Requests : Prepares(r) /\ Books(r)
Separate == \A r, s \in Requests : Apart(r, s)
Rows == (\A c \in 1..Len(colls) : Placed(c)) /\ Linking

\* The books: what an invoice shows, and what it counts.
Worth(q, S) == UNION {{c} \X (1..q[c].amount) : c \in S}
Sum(q, S) == Cardinality(Worth(q, S))
Counted(i) == {c \in 1..Len(colls) : colls[c].status = "successful" /\ colls[c].invoice = i}
At(r, i, places) == work[r].at \in places /\ colls[work[r].coll].invoice = i
Balanced(i) == LET sum == Sum(colls, Counted(i)) IN
  /\ \A r \in Requests : At(r, i, Up) => invoices[i].paid + colls[work[r].coll].amount = sum
  /\ \A r \in Requests : At(r, i, Down) => invoices[i].paid = sum + colls[work[r].coll].amount
  /\ (\A r \in Requests : ~At(r, i, Up \cup Down)) => invoices[i].paid = sum
Balance == \A i \in 1..Len(invoices) : Balanced(i)

Sound == Types /\ NoReviews /\ Requested /\ Separate /\ Rows /\ Balance
-----------------------------------------------------------------------------
(***************************************************************************)
(* Steps.                                                                  *)
(***************************************************************************)
Turn(r) == r \in Handlers => busy \in {r, Nobody}
StepOf(r) == /\ Turn(r) /\ (r \notin Handlers => busy' = busy)
             /\ \A s \in Requests : s # r => work'[s] = work[s]
Booking(r) == work[r].at \in Up \cup Down

\* A row that is written: an attempt that is open or failed, whose link nobody is
\* still attaching.
NewRow(a) ==
  /\ a.status \in {"processing", "failed"}
  /\ a.link <= Len(links) /\ a.invoice <= Len(invoices)
  /\ a.invoice = 0 => Unbilled(a.link)
  /\ \A s \in Requests : work[s].at = "attach" => work[s].link # a.link

\* Rows are added, and what they are about is not rewritten.
Frame ==
  /\ Len(links') >= Len(links) /\ Len(invoices') >= Len(invoices) /\ Len(colls') >= Len(colls)
  /\ \A i \in 1..Len(invoices) : invoices'[i].link = invoices[i].link
  /\ \A i \in 1..Len(invoices') : i > Len(invoices) => invoices'[i].link = 0
  /\ \A c \in 1..Len(colls) :
       /\ colls'[c].link = colls[c].link /\ colls'[c].invoice = colls[c].invoice
       /\ colls'[c].amount = colls[c].amount
       /\ colls[c].status = "pending_review" => colls'[c].status = "pending_review"
  /\ \A c \in 1..Len(colls') : c > Len(colls) => NewRow(colls'[c])

\* What invoices show and what they count stays.
Calm ==
  /\ Len(invoices') >= Len(invoices) /\ Len(colls') >= Len(colls)
  /\ \A i \in 1..Len(invoices) : invoices'[i].paid = invoices[i].paid
  /\ \A i \in 1..Len(invoices') : i > Len(invoices) => invoices'[i].paid = 0
  /\ \A c \in 1..Len(colls) : colls'[c] = colls[c]
  /\ \A c \in 1..Len(colls') : c > Len(colls) => colls'[c].status \in {"processing", "failed"}

LEMMA Moved ==
  ASSUME Types, NEW r \in Requests, NEW q \in WorkOf, Turn(r), Keep(r, q) \/ Await(r, q)
  PROVE  StepOf(r) /\ work'[r] = q /\ work' \in [Requests -> WorkOf]
BY DEF Types, StepOf, Keep, Await

\* While a handler books a payment nobody else runs on the loop.
LEMMA Alone ==
  ASSUME Sound, NEW r \in Requests, StepOf(r), NEW s \in Requests, s # r, Booking(s)
  PROVE  r \notin Handlers /\ busy' = busy
<1>1. s \in Handlers /\ busy = s
  BY DEF Sound, Requested, Books, Booking
<1> QED BY <1>1, CommerceAssumption DEF StepOf, Turn, Requests

\* Tables are sequences of rows.
LEMMA Lengths ==
  ASSUME Paper
  PROVE  /\ Len(links) \in Nat /\ Len(invoices) \in Nat /\ Len(orders) \in Nat /\ Len(colls) \in Nat
         /\ \A l \in 1..Len(links) : links[l] \in LinkOf
         /\ \A i \in 1..Len(invoices) : invoices[i] \in InvoiceRow
         /\ \A o \in 1..Len(orders) : orders[o] \in OrderOf
         /\ \A c \in 1..Len(colls) : colls[c] \in AttemptOf
BY DEF Paper

LEMMA LengthsNext ==
  ASSUME Paper'
  PROVE  /\ Len(links') \in Nat /\ Len(invoices') \in Nat /\ Len(orders') \in Nat /\ Len(colls') \in Nat
         /\ \A l \in 1..Len(links') : links'[l] \in LinkOf
         /\ \A i \in 1..Len(invoices') : invoices'[i] \in InvoiceRow
         /\ \A o \in 1..Len(orders') : orders'[o] \in OrderOf
         /\ \A c \in 1..Len(colls') : colls'[c] \in AttemptOf
BY DEF Paper

LEMMA UnbilledKept ==
  ASSUME Paper, Paper', Frame, NEW l \in Nat, Unbilled(l)
  PROVE  Unbilled(l)'
<1>1. Len(invoices) \in Nat /\ Len(invoices') \in Nat
  BY Lengths, LengthsNext
<1>2. /\ \A i \in 1..Len(invoices) : invoices'[i].link = invoices[i].link
      /\ \A i \in 1..Len(invoices') : i > Len(invoices) => invoices'[i].link = 0
  BY DEF Frame
<1>3. \A i \in 1..Len(invoices) : invoices[i].link = l => l = 0
  BY DEF Unbilled
<1> SUFFICES ASSUME NEW i \in 1..Len(invoices'), invoices'[i].link = l PROVE l = 0
  BY DEF Unbilled
<1> QED BY <1>1, <1>2, <1>3

LEMMA RowsKept ==
  ASSUME Sound, Types', Frame
  PROVE  Rows'
<1>0. Paper /\ Paper' /\ Rows
  BY DEF Sound, Types
<1>len. /\ {Len(links), Len(links'), Len(invoices), Len(invoices'), Len(colls), Len(colls')} \subseteq Nat
        /\ Len(links') >= Len(links) /\ Len(invoices') >= Len(invoices) /\ Len(colls') >= Len(colls)
  BY <1>0, Lengths, LengthsNext DEF Frame
<1>1. ASSUME NEW c \in 1..Len(colls') PROVE Placed(c)'
  <2>0. colls'[c] \in AttemptOf
    BY <1>0, LengthsNext
  <2>1. CASE c \in 1..Len(colls)
    <3>1. Placed(c) /\ colls[c] \in AttemptOf
      BY <1>0, <2>1, Lengths DEF Rows
    <3>2. colls[c].invoice = 0 => Unbilled(colls[c].link)
      BY <3>1 DEF Placed
    <3>3. \A l \in Nat : Unbilled(l) => Unbilled(l)'
      BY <1>0, UnbilledKept
    <3>4. /\ colls'[c].link = colls[c].link /\ colls'[c].invoice = colls[c].invoice
          /\ colls[c].status = "pending_review" => colls'[c].status = "pending_review"
      BY <2>1 DEF Frame
    <3>5. colls'[c].invoice = 0 => Unbilled(colls[c].link)'
      BY <3>1, <3>2, <3>3, <3>4 DEF AttemptOf
    <3>6. colls'[c].link <= Len(links') /\ (colls'[c].status # "pending_review" => colls'[c].invoice <= Len(invoices'))
      BY <1>len, <3>1, <3>4 DEF Placed, AttemptOf
    <3> QED BY <3>4, <3>5, <3>6 DEF Placed, Unbilled
  <2>2. CASE c > Len(colls)
    <3>1. NewRow(colls'[c])
      BY <2>2 DEF Frame
    <3>2. colls'[c].link \in Nat /\ colls'[c].invoice \in Nat
      BY <2>0 DEF AttemptOf
    <3>3. colls'[c].invoice = 0 => \A i \in 1..Len(invoices') :
            invoices'[i].link = colls'[c].link => colls'[c].link = 0
      <4>1. /\ \A i \in 1..Len(invoices) : invoices'[i].link = invoices[i].link
            /\ \A i \in 1..Len(invoices') : i > Len(invoices) => invoices'[i].link = 0
        BY DEF Frame
      <4> QED BY <1>len, <3>1, <3>2, <4>1 DEF NewRow, Unbilled
    <3>4. colls'[c].link <= Len(links') /\ colls'[c].invoice <= Len(invoices')
      BY <1>len, <3>1, <3>2 DEF NewRow
    <3> QED BY <3>3, <3>4 DEF Placed, Unbilled
  <2> QED BY <1>len, <2>1, <2>2
<1>2. Linking'
  <2>1. \A i \in 1..Len(invoices) : invoices[i].link \in Nat /\ invoices[i].link <= Len(links)
    BY <1>0, Lengths DEF Rows, Linking, InvoiceRow
  <2>2. /\ \A i \in 1..Len(invoices) : invoices'[i].link = invoices[i].link
        /\ \A i \in 1..Len(invoices') : i > Len(invoices) => invoices'[i].link = 0
    BY DEF Frame
  <2> QED BY <1>len, <2>1, <2>2 DEF Linking
<1> QED BY <1>1, <1>2 DEF Rows

LEMMA PreparesKept ==
  ASSUME Sound, Types', Frame, NEW s \in Requests, work'[s] = work[s]
  PROVE  Prepares(s)'
<1>1. Prepares(s) /\ work[s] \in WorkOf /\ Paper /\ Paper'
  BY DEF Sound, Requested, Types
<1>2. work[s].link \in Nat /\ work[s].inv \in Nat
  BY <1>1 DEF WorkOf
<1>len. /\ {Len(links), Len(links'), Len(invoices), Len(invoices'), Len(colls), Len(colls')} \subseteq Nat
        /\ Len(links') >= Len(links) /\ Len(invoices') >= Len(invoices) /\ Len(colls') >= Len(colls)
  BY <1>1, Lengths, LengthsNext DEF Frame
<1>4. Unbilled(work[s].link) => Unbilled(work[s].link)'
  <2>1. \A l \in Nat : Unbilled(l) => Unbilled(l)'
    BY <1>1, UnbilledKept
  <2> QED BY <1>2, <2>1
<1>3. work[s].at = "attach" => Unused(work[s].link)'
  <2> SUFFICES ASSUME work[s].at = "attach" PROVE Unused(work[s].link)'
    OBVIOUS
  <2>1. work[s].link \in 1..Len(links) /\ Unbilled(work[s].link)
        /\ \A c \in 1..Len(colls) : colls[c].link # work[s].link
    BY <1>1 DEF Prepares, Unused
  <2>2. \A c \in 1..Len(colls') : colls'[c].link # work[s].link
    <3>1. /\ \A c \in 1..Len(colls) : colls'[c].link = colls[c].link
          /\ \A c \in 1..Len(colls') : c > Len(colls) => NewRow(colls'[c])
      BY DEF Frame
    <3>2. \A a : NewRow(a) => work[s].link # a.link
      BY DEF NewRow
    <3> QED BY <1>len, <2>1, <3>1, <3>2
  <2> QED BY <1>len, <1>4, <2>1, <2>2 DEF Unused, Unbilled
<1> QED BY <1>1, <1>2, <1>3, <1>4, <1>len DEF Prepares

LEMMA BooksKept ==
  ASSUME Sound, Types', Calm, NEW s \in Requests, work'[s] = work[s], Booking(s) => busy' = busy
  PROVE  Books(s)'
<1>1. Books(s) /\ work[s] \in WorkOf /\ Paper /\ Paper'
  BY DEF Sound, Requested, Types
<1>2. /\ {Len(invoices), Len(invoices'), Len(colls), Len(colls')} \subseteq Nat
      /\ Len(invoices') >= Len(invoices) /\ Len(colls') >= Len(colls)
      /\ \A i \in 1..Len(invoices) : invoices'[i].paid = invoices[i].paid
      /\ \A c \in 1..Len(colls) : colls'[c] = colls[c]
  BY <1>1, Lengths, LengthsNext DEF Calm
<1>3. work[s].coll \in Nat /\ work[s].inv \in Nat
  BY <1>1 DEF WorkOf
<1> QED BY <1>1, <1>2, <1>3 DEF Books, Booking, Up, Down

LEMMA BooksIdle ==
  ASSUME Sound, Types', Len(colls') >= Len(colls), NEW s \in Requests, work'[s] = work[s], ~Booking(s)
  PROVE  Books(s)'
<1>1. Books(s) /\ work[s] \in WorkOf /\ Paper /\ Paper'
  BY DEF Sound, Requested, Types
<1>2. {Len(colls), Len(colls')} \subseteq Nat /\ work[s].coll \in Nat
  BY <1>1, Lengths, LengthsNext DEF WorkOf
<1> QED BY <1>1, <1>2 DEF Books, Booking, Up, Down

LEMMA ApartKept ==
  ASSUME Sound, NEW r \in Requests, NEW s \in Requests, work'[r] = work[r], work'[s] = work[s]
  PROVE  Apart(r, s)'
BY DEF Sound, Separate, Apart
-----------------------------------------------------------------------------
(***************************************************************************)
(* Sums.                                                                   *)
(***************************************************************************)
LEMMA WorthFinite ==
  ASSUME NEW q \in Seq(AttemptOf), NEW S \in SUBSET (1..Len(q))
  PROVE  IsFiniteSet(Worth(q, S)) /\ Sum(q, S) \in Nat
<1> DEFINE row(c) == {c} \X (1..q[c].amount)
           F == {row(c) : c \in S}
           f == [c \in S |-> row(c)]
<1>1. IsFiniteSet(S)
  <2>1. Len(q) \in Nat
    OBVIOUS
  <2>2. IsFiniteSet(1..Len(q))
    BY <2>1, FS_Interval
  <2> QED BY <2>2, FS_Subset
<1>2. \A c \in S : IsFiniteSet(row(c))
  <2> SUFFICES ASSUME NEW c \in S PROVE IsFiniteSet(row(c))
    OBVIOUS
  <2>0. q[c] \in AttemptOf
    OBVIOUS
  <2>1. PICK n \in Nat : n = q[c].amount
    BY <2>0 DEF AttemptOf
  <2>2. IsFiniteSet({c})
    BY FS_Singleton
  <2>3. IsFiniteSet(1..n)
    BY FS_Interval
  <2>4. IsFiniteSet({c} \X (1..n))
    BY <2>2, <2>3, FS_Product
  <2> QED BY <2>1, <2>4
<1>3. Worth(q, S) = UNION F
  BY DEF Worth
<1> HIDE DEF row
<1>4. f \in Surjection(S, F)
  BY DEF Surjection
<1>5. IsFiniteSet(F)
  BY <1>1, <1>4, FS_Surjection
<1>6. IsFiniteSet(UNION F)
  BY <1>2, <1>5, FS_UNION
<1> QED BY <1>3, <1>6, FS_CardinalityType DEF Sum

\* The same attempts, of the same amounts.
LEMMA SumKept ==
  ASSUME NEW p, NEW q, NEW S, \A c \in S : p[c].amount = q[c].amount
  PROVE  Sum(p, S) = Sum(q, S)
<1>1. Worth(p, S) = Worth(q, S)
  BY DEF Worth
<1> QED BY <1>1 DEF Sum

LEMMA SumAdds ==
  ASSUME NEW q \in Seq(AttemptOf), NEW S \in SUBSET (1..Len(q)), NEW j \in (1..Len(q)) \ S
  PROVE  Sum(q, S \cup {j}) = Sum(q, S) + q[j].amount
<1>0. q[j] \in AttemptOf
  OBVIOUS
<1>1. PICK n \in Nat : n = q[j].amount
  BY <1>0 DEF AttemptOf
<1> DEFINE U == Worth(q, S)  V == {j} \X (1..n)
<1>2. Worth(q, S \cup {j}) = U \cup V /\ U \cap V = {}
  <2>1. {{c} \X (1..q[c].amount) : c \in S \cup {j}} = {{c} \X (1..q[c].amount) : c \in S} \cup {V}
    BY <1>1
  <2>2. Worth(q, S \cup {j}) = U \cup V
    BY <2>1 DEF Worth
  <2>3. \A u \in U : u[1] \in S
    BY DEF Worth
  <2>4. \A u \in V : u[1] = j
    OBVIOUS
  <2> QED BY <2>2, <2>3, <2>4
<1>3. IsFiniteSet(U) /\ Cardinality(U) \in Nat
  BY WorthFinite DEF Sum
<1>4. IsFiniteSet(V) /\ Cardinality(V) = n
  <2>1. IsFiniteSet({j}) /\ Cardinality({j}) = 1
    BY FS_Singleton
  <2>2. IsFiniteSet(1..n) /\ Cardinality(1..n) = n
    BY FS_Interval
  <2>3. IsFiniteSet(V) /\ Cardinality(V) = Cardinality({j}) * Cardinality(1..n)
    BY <2>1, <2>2, FS_Product
  <2> HIDE DEF V
  <2> QED BY <2>1, <2>2, <2>3
<1> HIDE DEF U, V
<1>5. Cardinality(U \cup V) = Cardinality(U) + Cardinality(V) - Cardinality(U \cap V)
  BY <1>3, <1>4, FS_Union
<1>6. Cardinality(U \cap V) = 0
  BY <1>2, FS_EmptySet
<1>7. Sum(q, S \cup {j}) = Cardinality(U \cup V) /\ Sum(q, S) = Cardinality(U)
  BY <1>2 DEF Sum, U
<1> QED BY <1>1, <1>3, <1>4, <1>5, <1>6, <1>7

LEMMA NothingSums == \A q : Sum(q, {}) = 0
<1>1. \A q : Worth(q, {}) = {}
  BY DEF Worth
<1> QED BY <1>1, FS_EmptySet DEF Sum

\* What is booked is of an invoice that exists.
LEMMA BookingOf ==
  ASSUME Sound, NEW r \in Requests, Booking(r)
  PROVE  /\ work[r].coll \in 1..Len(colls) /\ r \in Handlers /\ busy = r
         /\ colls[work[r].coll] \in AttemptOf /\ colls[work[r].coll].invoice <= Len(invoices)
<1>1. Books(r) /\ Paper /\ Rows
  BY DEF Sound, Requested, Types
<1>2. work[r].coll \in 1..Len(colls) /\ r \in Handlers /\ busy = r
      /\ colls[work[r].coll].status \in {"successful", "reversed"}
  BY <1>1 DEF Books, Booking
<1>3. colls[work[r].coll].invoice <= Len(invoices)
  BY <1>1, <1>2 DEF Rows, Placed
<1> QED BY <1>1, <1>2, <1>3, Lengths

LEMMA CountedIn ==
  ASSUME Types, NEW i
  PROVE  Counted(i) \in SUBSET (1..Len(colls)) /\ colls \in Seq(AttemptOf) /\ Sum(colls, Counted(i)) \in Nat
<1>1. Counted(i) \in SUBSET (1..Len(colls)) /\ colls \in Seq(AttemptOf)
  BY DEF Types, Paper, Counted
<1> QED BY <1>1, WorthFinite

\* A step that books nothing.
LEMMA BalanceKept ==
  ASSUME Sound, Types', Calm,
         \A r \in Requests : work'[r] = work[r] \/ (~Booking(r) /\ work'[r].at \notin Up \cup Down)
  PROVE  Balance'
<1>1. Paper /\ Paper' /\ Types /\ Rows
  BY DEF Sound, Types
<1>2. /\ {Len(invoices), Len(invoices'), Len(colls), Len(colls')} \subseteq Nat
      /\ Len(invoices') >= Len(invoices) /\ Len(colls') >= Len(colls)
  BY <1>1, Lengths, LengthsNext DEF Calm
<1>3. /\ \A i \in 1..Len(invoices) : invoices'[i].paid = invoices[i].paid
      /\ \A i \in 1..Len(invoices') : i > Len(invoices) => invoices'[i].paid = 0
      /\ \A c \in 1..Len(colls) : colls'[c] = colls[c]
      /\ \A c \in 1..Len(colls') : c > Len(colls) => colls'[c].status \in {"processing", "failed"}
  BY DEF Calm
<1> SUFFICES ASSUME NEW i \in 1..Len(invoices') PROVE Balanced(i)'
  BY DEF Balance
<1>4. Counted(i)' = Counted(i)
  BY <1>2, <1>3 DEF Counted
<1>5. Sum(colls', Counted(i)') = Sum(colls, Counted(i))
  <2>1. \A c \in Counted(i) : colls'[c].amount = colls[c].amount
    BY <1>3 DEF Counted
  <2> QED BY <1>4, <2>1, SumKept
<1>6. ASSUME NEW r \in Requests, work'[r].at \in Up \cup Down
      PROVE  work'[r] = work[r] /\ Booking(r) /\ colls'[work'[r].coll] = colls[work[r].coll]
             /\ colls[work[r].coll].invoice <= Len(invoices)
  BY <1>3, <1>6, BookingOf DEF Booking
<1>7. CASE i \in 1..Len(invoices)
  <2>1. Balanced(i) /\ invoices'[i].paid = invoices[i].paid
    BY <1>3, <1>7 DEF Sound, Balance
  <2>2. ASSUME NEW r \in Requests
        PROVE  /\ At(r, i, Up)' = At(r, i, Up) /\ At(r, i, Down)' = At(r, i, Down)
               /\ At(r, i, Up \cup Down)' = At(r, i, Up \cup Down)
               /\ At(r, i, Up \cup Down) => colls'[work'[r].coll] = colls[work[r].coll]
    <3>1. CASE work'[r].at \in Up \cup Down
      BY <1>6, <3>1 DEF At
    <3>2. CASE work'[r].at \notin Up \cup Down
      BY <3>2 DEF At, Booking
    <3> QED BY <3>1, <3>2
  <2>3. \A r \in Requests : At(r, i, Up) \/ At(r, i, Down) => At(r, i, Up \cup Down)
    BY DEF At
  <2> QED BY <1>5, <2>1, <2>2, <2>3 DEF Balanced
<1>8. CASE i > Len(invoices)
  <2>1. Counted(i) = {}
    <3>1. \A c \in 1..Len(colls) : colls[c].status = "successful" => colls[c].invoice <= Len(invoices)
      BY <1>1 DEF Rows, Placed
    <3>2. \A c \in 1..Len(colls) : colls[c].invoice \in Nat
      BY <1>1, Lengths DEF AttemptOf
    <3> QED BY <1>2, <1>8, <3>1, <3>2 DEF Counted
  <2>2. Sum(colls', Counted(i)') = 0
    BY <1>5, <2>1, NothingSums
  <2>3. \A r \in Requests : ~At(r, i, Up)' /\ ~At(r, i, Down)'
    <3> SUFFICES ASSUME NEW r \in Requests, At(r, i, Up)' \/ At(r, i, Down)' PROVE FALSE
      OBVIOUS
    <3>1. work'[r].at \in Up \cup Down /\ colls'[work'[r].coll].invoice = i
      BY DEF At
    <3>2. Booking(r) /\ colls[work[r].coll].invoice = i /\ i <= Len(invoices)
      BY <1>6, <3>1
    <3> QED BY <1>2, <1>8, <3>2
  <2>4. invoices'[i].paid = 0
    BY <1>3, <1>8
  <2> QED BY <2>2, <2>3, <2>4 DEF Balanced
<1> QED BY <1>2, <1>7, <1>8
-----------------------------------------------------------------------------
\* A request that has moved is where it should be.
Fine(r) == /\ Prepares(r)' /\ Books(r)'
           /\ \A s \in Requests : Apart(r, s)' /\ Apart(s, r)'
Quiet == {"idle", "lapse", "view", "cancel", "edit", "revise", "due", "void", "insert", "email", "sent", "close"}

LEMMA Arrives ==
  ASSUME NEW r \in Requests, work'[r].at \in Quiet, work'[r].at \in Slow => r \in Threads,
         work'[r].at = "insert" \/ (work'[r].at = "lapse" /\ work'[r].op = "generate")
           => work'[r].paid < work'[r].total
  PROVE  Fine(r) /\ work'[r].at \notin Up \cup Down
<1>1. work'[r].at \notin Up \cup Down \cup Paying \cup {"attach", "asking", "clear", "write", "unwrite"}
  BY DEF Quiet, Up, Down, Paying
<1>2. Prepares(r)'
  BY <1>1 DEF Prepares, Paying
<1>3. Books(r)'
  BY <1>1 DEF Books
<1>4. \A s \in Requests : Apart(r, s)' /\ Apart(s, r)'
  BY <1>1 DEF Apart
<1> QED BY <1>1, <1>2, <1>3, <1>4 DEF Fine

\* A step of one request that books nothing.
LEMMA QuietStep ==
  ASSUME Sound, Types', NoReviews', Frame, Calm,
         NEW r \in Requests, StepOf(r), ~Booking(r), Fine(r), work'[r].at \notin Up \cup Down
  PROVE  Sound'
<1>1. \A s \in Requests : s # r => work'[s] = work[s]
  BY DEF StepOf
<1>2. Rows'
  BY RowsKept
<1>3. ASSUME NEW s \in Requests, s # r PROVE Prepares(s)' /\ Books(s)'
  <2>1. Booking(s) => busy' = busy
    BY <1>3, Alone
  <2> QED BY <1>1, <1>3, <2>1, PreparesKept, BooksKept
<1>4. Requested'
  BY <1>3 DEF Requested, Fine
<1>5. Separate'
  <2>1. ASSUME NEW s \in Requests, NEW t \in Requests PROVE Apart(s, t)'
    <3>1. CASE s # r /\ t # r
      BY <1>1, <3>1, ApartKept
    <3> QED BY <3>1 DEF Fine
  <2> QED BY <2>1 DEF Separate
<1>6. Balance'
  BY <1>1, BalanceKept
<1> QED BY <1>2, <1>4, <1>5, <1>6 DEF Sound

\* A step of nobody.
LEMMA StillStep ==
  ASSUME Sound, Types', NoReviews', Frame, Calm, work' = work, busy' = busy
  PROVE  Sound'
<1>1. Rows'
  BY RowsKept
<1>2. Requested'
  BY PreparesKept, BooksKept DEF Requested
<1>3. Separate'
  BY ApartKept DEF Separate
<1>4. Balance'
  BY BalanceKept
<1> QED BY <1>1, <1>2, <1>3, <1>4 DEF Sound
-----------------------------------------------------------------------------
LEMMA MaxIn ==
  ASSUME NEW n \in Nat, NEW S \in SUBSET (1..n), S # {}
  PROVE  Max(S) \in S
<1> DEFINE T == {n - x : x \in S}
<1>1. T \in SUBSET Nat /\ T # {}
  <2>1. \A x \in S : n - x \in Nat
    OBVIOUS
  <2>2. PICK x \in S : TRUE
    OBVIOUS
  <2>3. n - x \in T
    OBVIOUS
  <2> QED BY <2>1, <2>3
<1>2. PICK y \in T : \A z \in T : ~(<<z, y>> \in OpToRel(<, Nat))
  BY <1>1, NatLessThanWellFounded, WFMin, Zenon
<1>3. \A z \in T : ~(z < y)
  BY <1>1, <1>2 DEF OpToRel
<1>4. PICK x \in S : y = n - x
  OBVIOUS
<1>5. \A z \in S : n - z \in T
  OBVIOUS
<1>6. \A z \in S : x >= z
  <2> SUFFICES ASSUME NEW z \in S PROVE x >= z
    OBVIOUS
  <2>1. ~(n - z < n - x)
    BY <1>3, <1>4, <1>5
  <2> QED BY <2>1
<1>7. \E z \in S : \A w \in S : z >= w
  BY <1>6
<1> QED BY <1>7, Zenon DEF Max

\* resolve_invoice_id_for_payment_link finds an invoice that goes by the link, if
\* there is one.
LEMMA InvoiceOfLink ==
  ASSUME Paper, NEW l \in Nat
  PROVE  InvoiceOf(l) \in 0..Len(invoices) /\ (InvoiceOf(l) = 0 <=> Unbilled(l))
<1> DEFINE S == {i \in DOMAIN invoices : invoices[i].link = l}
<1>1. Len(invoices) \in Nat /\ DOMAIN invoices = 1..Len(invoices)
  BY Lengths DEF Paper
<1>2. CASE S # {} /\ l # 0
  <2>1. Max(S) \in S
    BY <1>1, <1>2, MaxIn
  <2>2. InvoiceOf(l) = Max(S)
    BY <1>2 DEF InvoiceOf
  <2> QED BY <1>1, <1>2, <2>1, <2>2 DEF Unbilled
<1>3. CASE S = {} \/ l = 0
  BY <1>1, <1>3 DEF InvoiceOf, Unbilled
<1> QED BY <1>2, <1>3

\* A collection is booked to the invoice its row names.
LEMMA BookedToRow ==
  ASSUME Sound, NEW c \in 1..Len(colls)
  PROVE  BookedTo(c) = colls[c].invoice
<1>1. Placed(c) /\ colls[c] \in AttemptOf /\ Paper
  BY Lengths DEF Sound, Rows, Types
<1>2. colls[c].link \in Nat
  BY <1>1 DEF AttemptOf
<1> QED BY <1>1, <1>2, InvoiceOfLink DEF BookedTo, Placed
-----------------------------------------------------------------------------
LEMMA Spent ==
  ASSUME NoReviews, NEW k \in Counters \ {"reviews"}, Spend(k)
  PROVE  NoReviews'
BY DEF NoReviews, Spend

LEMMA Turns ==
  ASSUME NEW r \in Requests, Begins(r) \/ \E p \in Places : GoesOn(r, p) \/ Resumes(r, p)
  PROVE  Turn(r)
BY DEF Begins, GoesOn, Resumes, LoopFree, Turn

LEMMA SameTables ==
  ASSUME Types, UNCHANGED <<links, invoices, orders, colls>>
  PROVE  Paper' /\ Frame /\ Calm
<1>1. Paper'
  BY DEF Types, Paper
<1> QED BY <1>1, Lengths DEF Types, Frame, Calm

\* A link is added or changes, an order is added or changes.
LEMMA SameBooks ==
  ASSUME Types, UNCHANGED <<invoices, colls>>, links' \in Seq(LinkOf), orders' \in Seq(OrderOf),
         Len(links') >= Len(links)
  PROVE  Paper' /\ Frame /\ Calm
<1>1. Paper'
  BY DEF Types, Paper
<1> QED BY <1>1, Lengths DEF Types, Frame, Calm

LEMMA QuietMove ==
  ASSUME Sound, NoReviews', Paper', Frame, Calm,
         NEW r \in Requests, Turn(r), ~Booking(r),
         NEW q \in WorkOf, Keep(r, q) \/ Await(r, q), q.at \in Quiet, q.at \in Slow => r \in Threads,
         q.at = "insert" \/ (q.at = "lapse" /\ q.op = "generate") => q.paid < q.total
  PROVE  Sound'
<1>1. Types
  BY DEF Sound
<1>2. StepOf(r) /\ work'[r] = q /\ work' \in [Requests -> WorkOf]
  BY <1>1, Moved
<1>3. Types'
  BY <1>2 DEF Types
<1>4. Fine(r) /\ work'[r].at \notin Up \cup Down
  BY <1>2, Arrives
<1> QED BY <1>2, <1>3, <1>4, QuietStep

LEMMA IdleWork ==
  NoWork \in WorkOf /\ NoWork.at = "idle" /\ "idle" \in Quiet \ Slow
BY DEF NoWork, WorkOf, Places, Operations, Quiet, Slow

LEMMA NotBooking ==
  ASSUME NEW r \in Requests, work[r].at \in Quiet \cup Paying \cup {"attach", "asking", "clear"}
  PROVE  ~Booking(r)
BY DEF Quiet, Paying, Booking, Up, Down

LEMMA LinkAdded ==
  ASSUME Paper, NEW a \in Nat
  PROVE  /\ Append(links, NewLink(a)) \in Seq(LinkOf)
         /\ Len(Append(links, NewLink(a))) = Len(links) + 1
<1>1. NewLink(a) \in LinkOf
  BY DEF NewLink, LinkOf
<1> QED BY <1>1 DEF Paper

LEMMA LinkChanged ==
  ASSUME Paper, NEW l, NEW s \in {"ACTIVE", "PAID", "CANCELLED", "EXPIRED"}, NEW a \in Nat
  PROVE  /\ [links EXCEPT ![l].status = s] \in Seq(LinkOf)
         /\ [links EXCEPT ![l].amount = a] \in Seq(LinkOf)
         /\ [links EXCEPT ![l].over = TRUE] \in Seq(LinkOf)
         /\ Len([links EXCEPT ![l].status = s]) = Len(links)
         /\ Len([links EXCEPT ![l].amount = a]) = Len(links)
         /\ Len([links EXCEPT ![l].over = TRUE]) = Len(links)
<1>1. CASE l \in 1..Len(links)
  <2>1. /\ links[l] \in LinkOf /\ links \in Seq(LinkOf)
        /\ [links[l] EXCEPT !.status = s] \in LinkOf
        /\ [links[l] EXCEPT !.amount = a] \in LinkOf
        /\ [links[l] EXCEPT !.over = TRUE] \in LinkOf
    <3>1. links[l] \in LinkOf /\ links \in Seq(LinkOf)
      BY <1>1 DEF Paper
    <3>2. \A x \in LinkOf : /\ [x EXCEPT !.status = s] \in LinkOf /\ [x EXCEPT !.amount = a] \in LinkOf
                           /\ [x EXCEPT !.over = TRUE] \in LinkOf
      BY DEF LinkOf
    <3> QED BY <3>1, <3>2
  <2>2. \A x \in LinkOf : [links EXCEPT ![l] = x] \in Seq(LinkOf) /\ Len([links EXCEPT ![l] = x]) = Len(links)
    BY <1>1, <2>1
  <2> QED BY <2>1, <2>2
<1>2. CASE l \notin 1..Len(links)
  <2>1. links \in Seq(LinkOf) /\ DOMAIN links = 1..Len(links)
    BY DEF Paper
  <2>2. \A f : [links EXCEPT ![l] = f] = links
    BY <1>2, <2>1
  <2> QED BY <2>1, <2>2
<1> QED BY <1>1, <1>2

LEMMA LinkRequestKeeps ==
  ASSUME Sound, NEW r \in Requests, LinkRequest(r)
  PROVE  Sound'
<1>1. Types /\ Paper /\ NoReviews /\ Amounts \subseteq Nat
  BY DEF Sound, Types, Amounts
<1>2. CASE \E a \in Amounts : CreatePaymentLink(r, a) \/ CheckoutPayByLink(r, a)
  <2>1. PICK a \in Nat : Spend("links") /\ links' = Append(links, NewLink(a))
                         /\ UNCHANGED <<invoices, orders, colls, page, work, busy>>
    BY <1>1, <1>2 DEF CreatePaymentLink, CheckoutPayByLink
  <2>2. NoReviews'
    BY <1>1, <2>1, Spent DEF Counters
  <2>3. Paper' /\ Frame /\ Calm
    BY <1>1, <2>1, LinkAdded, Lengths, SameBooks DEF Paper
  <2> QED BY <1>1, <2>1, <2>2, <2>3, StillStep DEF Types
<1>3. CASE CreatePayByLink(r) \/ UpdatePayByLink(r)
  <2>1. Spend("pages") /\ UNCHANGED <<links, invoices, orders, colls, work, busy>>
    BY <1>3 DEF CreatePayByLink, UpdatePayByLink
  <2>2. NoReviews'
    BY <1>1, <2>1, Spent DEF Counters
  <2>3. Paper' /\ Frame /\ Calm
    BY <1>1, <2>1, SameTables
  <2> QED BY <1>1, <2>1, <2>2, <2>3, StillStep DEF Types
<1>4. CASE \E l \in DOMAIN links, op \in {"view", "cancel", "edit"} : ReadLink(r, op, l)
  <2>1. PICK l \in DOMAIN links, op \in {"view", "cancel", "edit"} : ReadLink(r, op, l)
    BY <1>4
  <2>2. NoReviews'
    BY <1>1, <2>1, Spent DEF Counters, ReadLink
  <2>3. Paper' /\ Frame /\ Calm
    BY <1>1, <2>1, SameTables DEF ReadLink, tables
  <2>4. l \in Nat
    BY <1>1 DEF Paper
  <2>5. Turn(r) /\ work[r].at = "idle" /\ ~Booking(r)
    <3>1. Begins(r)
      BY <2>1 DEF ReadLink
    <3>2. work[r].at = "idle"
      BY <3>1, IdleWork DEF Begins
    <3> QED BY <3>1, <3>2, Turns, NotBooking DEF Quiet
  <2>6. [NoWork EXCEPT !.at = "lapse", !.op = op, !.link = l] \in WorkOf
        /\ [NoWork EXCEPT !.at = op, !.link = l] \in WorkOf
    BY <2>4 DEF NoWork, WorkOf, Places, Operations
  <2>7. CASE Keep(r, [NoWork EXCEPT !.at = "lapse", !.op = op, !.link = l])
    BY <2>1, <2>2, <2>3, <2>5, <2>6, <2>7, QuietMove DEF Quiet, NoWork, ReadLink
  <2>8. CASE Keep(r, [NoWork EXCEPT !.at = op, !.link = l])
    BY <2>2, <2>3, <2>5, <2>6, <2>8, QuietMove DEF Quiet, Slow, NoWork
  <2> QED BY <2>1, <2>7, <2>8 DEF ReadLink
<1> QED BY <1>2, <1>3, <1>4 DEF LinkRequest
-----------------------------------------------------------------------------
LEMMA ToWork ==
  ASSUME Types, NEW r \in Requests, NEW p \in Places
  PROVE  /\ To(r, p) \in WorkOf /\ To(r, p).at = p /\ To(r, p).op = work[r].op
         /\ To(r, p).total = work[r].total /\ To(r, p).paid = work[r].paid
         /\ To(r, p).coll = work[r].coll /\ To(r, p).inv = work[r].inv /\ To(r, p).link = work[r].link
<1>1. work[r] \in WorkOf
  BY DEF Types
<1>2. \A q \in WorkOf : LET w == [q EXCEPT !.at = p] IN
        /\ w \in WorkOf /\ w.at = p /\ w.op = q.op /\ w.total = q.total /\ w.paid = q.paid
        /\ w.coll = q.coll /\ w.inv = q.inv /\ w.link = q.link
  BY DEF WorkOf
<1> QED BY <1>1, <1>2 DEF To

LEMMA InvoiceReplaced ==
  ASSUME Paper, NEW j \in Nat, NEW x \in InvoiceRow, j \in 1..Len(invoices) => invoices' = [invoices EXCEPT ![j] = x],
         j \notin 1..Len(invoices) => invoices' = invoices
  PROVE  /\ invoices' \in Seq(InvoiceRow) /\ Len(invoices') = Len(invoices)
         /\ \A i \in 1..Len(invoices) : invoices'[i] = IF i = j THEN x ELSE invoices[i]
BY DEF Paper

\* The status or the total of an invoice changes.
Retouched ==
  \E j \in Nat, s \in {"DRAFT", "SENT", "PARTIALLY_PAID", "PAID", "CANCELLED"}, a \in Nat :
    \/ invoices' = [invoices EXCEPT ![j].status = s] \/ invoices' = [invoices EXCEPT ![j].total = a]

LEMMA SameRows ==
  ASSUME Types, UNCHANGED <<links, orders, colls>>, Retouched
  PROVE  Paper' /\ Frame /\ Calm
<1>1. /\ invoices' \in Seq(InvoiceRow) /\ Len(invoices') = Len(invoices)
      /\ \A i \in 1..Len(invoices) : invoices'[i].paid = invoices[i].paid /\ invoices'[i].link = invoices[i].link
  <2>1. PICK j \in Nat, s \in {"DRAFT", "SENT", "PARTIALLY_PAID", "PAID", "CANCELLED"}, a \in Nat :
          \/ invoices' = [invoices EXCEPT ![j].status = s] \/ invoices' = [invoices EXCEPT ![j].total = a]
    BY DEF Retouched
  <2>2. Paper /\ DOMAIN invoices = 1..Len(invoices)
    BY DEF Types, Paper
  <2>3. CASE j \in 1..Len(invoices)
    <3>1. invoices[j] \in InvoiceRow
      BY <2>2, <2>3, Lengths
    <3>2. \A y \in InvoiceRow :
            /\ [y EXCEPT !.status = s] \in InvoiceRow /\ [y EXCEPT !.total = a] \in InvoiceRow
            /\ [y EXCEPT !.status = s].paid = y.paid /\ [y EXCEPT !.total = a].paid = y.paid
            /\ [y EXCEPT !.status = s].link = y.link /\ [y EXCEPT !.total = a].link = y.link
      BY DEF InvoiceRow
    <3>3. PICK x \in InvoiceRow : invoices' = [invoices EXCEPT ![j] = x] /\ x.paid = invoices[j].paid /\ x.link = invoices[j].link
      BY <2>1, <3>1, <3>2
    <3>4. /\ invoices' \in Seq(InvoiceRow) /\ Len(invoices') = Len(invoices)
          /\ \A i \in 1..Len(invoices) : invoices'[i] = IF i = j THEN x ELSE invoices[i]
      BY <2>2, <2>3, <3>3, InvoiceReplaced
    <3> QED BY <3>3, <3>4
  <2>4. CASE j \notin 1..Len(invoices)
    <3>1. invoices \in Seq(InvoiceRow) /\ DOMAIN invoices = 1..Len(invoices)
      BY <2>2 DEF Paper
    <3>2. \A f : [invoices EXCEPT ![j] = f] = invoices
      BY <2>4, <3>1
    <3>3. invoices' = invoices
      BY <2>1, <3>2
    <3> QED BY <2>2, <3>3 DEF Paper
  <2> QED BY <2>3, <2>4
<1>2. Paper'
  BY <1>1 DEF Types, Paper
<1> QED BY <1>1, <1>2, Lengths DEF Types, Frame, Calm

LEMMA InvoiceAdded ==
  ASSUME Types, NEW a \in Nat, UNCHANGED <<links, orders, colls>>,
         invoices' = Append(invoices, [status |-> "DRAFT", total |-> a, paid |-> 0, link |-> 0])
  PROVE  Paper' /\ Frame /\ Calm
<1> DEFINE x == [status |-> "DRAFT", total |-> a, paid |-> 0, link |-> 0]
<1>1. x \in InvoiceRow /\ x.paid = 0 /\ x.link = 0
  BY DEF InvoiceRow
<1> HIDE DEF x
<1>2. invoices \in Seq(InvoiceRow) /\ invoices' = Append(invoices, x)
  BY DEF x, Types, Paper
<1>3. /\ invoices' \in Seq(InvoiceRow) /\ Len(invoices') = Len(invoices) + 1
      /\ \A i \in 1..Len(invoices) : invoices'[i] = invoices[i]
      /\ invoices'[Len(invoices) + 1] = x
  BY <1>1, <1>2
<1>4. Paper'
  BY <1>3 DEF Types, Paper
<1>5. \A i \in 1..Len(invoices') : i > Len(invoices) => invoices'[i] = x
  BY <1>2, <1>3
<1> QED BY <1>1, <1>3, <1>4, <1>5, Lengths DEF Types, Frame, Calm

LEMMA InvoiceRequestKeeps ==
  ASSUME Sound, NEW t \in Requests, InvoiceRequest(t)
  PROVE  Sound'
<1>1. Types /\ Paper /\ NoReviews /\ Amounts \subseteq Nat
  BY DEF Sound, Types, Amounts
<1>2. CASE \E a \in Amounts : CreateInvoice(t, a)
  <2>1. PICK a \in Nat : CreateInvoice(t, a)
    BY <1>1, <1>2
  <2>2. NoReviews'
    BY <1>1, <2>1, Spent DEF Counters, CreateInvoice
  <2>3. Paper' /\ Frame /\ Calm
    BY <1>1, <2>1, InvoiceAdded DEF CreateInvoice
  <2> QED BY <1>1, <2>1, <2>2, <2>3, StillStep DEF Types, CreateInvoice
<1>3. CASE \E i \in DOMAIN invoices, op \in {"revise", "send", "generate", "void"} : ReadInvoice(t, op, i)
  <2>1. PICK i \in DOMAIN invoices, op \in {"revise", "send", "generate", "void"} : ReadInvoice(t, op, i)
    BY <1>3
  <2> DEFINE p == IF op \in {"send", "generate"} THEN "due" ELSE op
             q == [NoWork EXCEPT !.at = p, !.op = op, !.inv = i, !.link = invoices[i].link,
                     !.total = invoices[i].total, !.paid = invoices[i].paid]
  <2>2. NoReviews'
    BY <1>1, <2>1, Spent DEF Counters, ReadInvoice
  <2>3. Paper' /\ Frame /\ Calm
    BY <1>1, <2>1, SameTables DEF ReadInvoice, tables
  <2>4. i \in Nat /\ invoices[i] \in InvoiceRow
    BY <1>1 DEF Paper
  <2>5. Begins(t) /\ work[t].at = "idle"
    BY <2>1, IdleWork DEF ReadInvoice, Begins
  <2>6. Turn(t) /\ ~Booking(t)
    BY <2>5, Turns, NotBooking DEF Quiet
  <2>7. p \in {"due", "revise", "void"}
    OBVIOUS
  <2>8. invoices[i].link \in Nat /\ invoices[i].total \in Nat /\ invoices[i].paid \in Nat
    BY <2>4 DEF InvoiceRow
  <2>9. Keep(t, q)
    BY <2>1 DEF ReadInvoice
  <2>9a. t \in Threads
    BY <2>1 DEF ReadInvoice
  <2> HIDE DEF p
  <2>10. q \in WorkOf /\ q.at = p
    BY <2>4, <2>7, <2>8 DEF NoWork, WorkOf, Places, Operations
  <2> HIDE DEF q
  <2> QED BY <2>2, <2>3, <2>6, <2>7, <2>9, <2>9a, <2>10, QuietMove DEF Quiet
<1>4. ASSUME NEW c, Review(t, c) PROVE FALSE
  BY <1>1, <1>4 DEF Review, Spend, NoReviews
<1> QED BY <1>2, <1>3, <1>4 DEF InvoiceRequest

\* The statements of a thread, but for those that make and attach a link.
LEMMA StatementsKeep ==
  ASSUME Sound, NEW t \in Requests,
         \/ Expire(t) \/ CancelLink(t) \/ CancelInvoice(t) \/ ReuseLink(t) \/ MarkSent(t)
         \/ \E a \in Amounts : UpdateLink(t, a) \/ UpdateInvoice(t, a)
         \/ \E sent \in BOOLEAN : EmailInvoice(t, sent)
  PROVE  Sound'
<1>1. Types /\ Paper /\ NoReviews /\ Amounts \subseteq Nat /\ Prepares(t) /\ work[t] \in WorkOf
  BY DEF Sound, Types, Amounts, Requested
<1>2. NoReviews'
  BY <1>1 DEF NoReviews, Expire, CancelLink, CancelInvoice, ReuseLink, MarkSent, UpdateLink, UpdateInvoice, EmailInvoice
<1>3. work[t].at \in {"lapse", "cancel", "void", "due", "sent", "edit", "revise", "email"}
      /\ \E p \in Places : GoesOn(t, p)
  BY DEF Expire, CancelLink, CancelInvoice, ReuseLink, MarkSent, UpdateLink, UpdateInvoice, EmailInvoice, GoesOn, Places
<1>4. Turn(t) /\ ~Booking(t)
  BY <1>3, Turns, NotBooking DEF Quiet
<1>5. Paper' /\ Frame /\ Calm
  <2>1. CASE Expire(t) \/ CancelLink(t) \/ \E a \in Amounts : UpdateLink(t, a)
    <3>1. UNCHANGED <<invoices, orders, colls>>
      BY <2>1 DEF Expire, CancelLink, UpdateLink
    <3>2. links' \in Seq(LinkOf) /\ Len(links') = Len(links)
      <4>1. \A s \in {"ACTIVE", "PAID", "CANCELLED", "EXPIRED"} : LET v == [links EXCEPT ![work[t].link].status = s] IN
              v \in Seq(LinkOf) /\ Len(v) = Len(links)
        BY <1>1, LinkChanged
      <4>2. \A a \in Nat : LET v == [links EXCEPT ![work[t].link].amount = a] IN
              v \in Seq(LinkOf) /\ Len(v) = Len(links)
        BY <1>1, LinkChanged
      <4>3. CASE Expire(t) \/ CancelLink(t)
        BY <4>1, <4>3 DEF Expire, CancelLink
      <4>4. CASE \E a \in Amounts : UpdateLink(t, a)
        BY <1>1, <4>2, <4>4 DEF UpdateLink
      <4> QED BY <2>1, <4>3, <4>4
    <3> QED BY <1>1, <3>1, <3>2, SameBooks, Lengths DEF Paper
  <2>2. CASE CancelInvoice(t) \/ MarkSent(t) \/ \E a \in Amounts : UpdateInvoice(t, a)
    <3>1. UNCHANGED <<links, orders, colls>>
      BY <2>2 DEF CancelInvoice, MarkSent, UpdateInvoice
    <3>2. Retouched
      <4>1. work[t].inv \in Nat
        BY <1>1 DEF WorkOf
      <4>2. CASE CancelInvoice(t) \/ MarkSent(t)
        BY <4>1, <4>2 DEF CancelInvoice, MarkSent, Retouched
      <4>3. CASE \E a \in Amounts : UpdateInvoice(t, a)
        BY <1>1, <4>1, <4>3 DEF UpdateInvoice, Retouched
      <4> QED BY <2>2, <4>2, <4>3
    <3> QED BY <1>1, <3>1, <3>2, SameRows
  <2>3. CASE ReuseLink(t) \/ \E sent \in BOOLEAN : EmailInvoice(t, sent)
    BY <1>1, <2>3, SameTables DEF ReuseLink, EmailInvoice, tables
  <2> QED BY <2>1, <2>2, <2>3
<1>6. \/ Done(t)
      \/ \E p \in {"cancel", "email", "sent"} : Keep(t, To(t, p))
      \/ work[t].paid < work[t].total /\ Keep(t, To(t, "insert"))
      \/ work[t].paid < work[t].total /\ Keep(t, [To(t, "lapse") EXCEPT !.op = "generate"])
  <2>1. CASE Expire(t)
    BY <1>1, <2>1 DEF Expire, GoesOn, Prepares
  <2>2. CASE ReuseLink(t)
    <3>1. work[t].total \in Nat /\ work[t].paid \in Nat
      BY <1>1 DEF WorkOf
    <3> DEFINE stands == work[t].link # 0 /\ links[work[t].link].status = "ACTIVE"
    <3>2. CASE work[t].total <= work[t].paid
      BY <2>2, <3>1, <3>2 DEF ReuseLink
    <3>3. CASE work[t].total > work[t].paid /\ ~stands
      BY <2>2, <3>1, <3>3 DEF ReuseLink
    <3>4. CASE work[t].total > work[t].paid /\ stands
      <4>1. IF Lapsed(work[t].link) THEN Keep(t, [To(t, "lapse") EXCEPT !.op = "generate"]) ELSE Linked(t)
        BY <2>2, <3>1, <3>4 DEF ReuseLink
      <4> QED BY <3>1, <3>4, <4>1 DEF Linked
    <3> QED BY <3>1, <3>2, <3>3, <3>4
  <2>3. CASE \E sent \in BOOLEAN : EmailInvoice(t, sent)
    BY <2>3 DEF EmailInvoice
  <2> QED BY <2>1, <2>2, <2>3 DEF CancelLink, CancelInvoice, MarkSent, UpdateLink, UpdateInvoice
<1>6a. t \in Threads \/ (Done(t) \/ \E p \in {"cancel", "email", "sent"} : Keep(t, To(t, p)))
  <2>1. work[t].at \in {"lapse", "due"} => t \in Threads
    BY <1>1 DEF Prepares, Slow
  <2> QED BY <2>1, <1>6 DEF Expire, CancelLink, CancelInvoice, ReuseLink, MarkSent, UpdateLink, UpdateInvoice, EmailInvoice, GoesOn
<1>7. CASE Done(t)
  BY <1>2, <1>4, <1>5, <1>7, IdleWork, QuietMove DEF Done
<1>8. CASE \E p \in {"cancel", "email", "sent"} : Keep(t, To(t, p))
  <2>1. PICK p \in {"cancel", "email", "sent"} : Keep(t, To(t, p))
    BY <1>8
  <2>2. To(t, p) \in WorkOf /\ To(t, p).at = p
    BY <1>1, ToWork DEF Places
  <2> QED BY <1>2, <1>4, <1>5, <2>1, <2>2, QuietMove DEF Quiet, Slow
<1>9. CASE t \in Threads /\ work[t].paid < work[t].total /\ Keep(t, To(t, "insert"))
  <2>1. To(t, "insert") \in WorkOf /\ To(t, "insert").at = "insert" /\ To(t, "insert").paid < To(t, "insert").total
    BY <1>1, <1>9, ToWork DEF Places
  <2> QED BY <1>2, <1>4, <1>5, <1>9, <2>1, QuietMove DEF Quiet
<1>10. CASE t \in Threads /\ work[t].paid < work[t].total /\ Keep(t, [To(t, "lapse") EXCEPT !.op = "generate"])
  <2> DEFINE q == [To(t, "lapse") EXCEPT !.op = "generate"]
  <2>1. To(t, "lapse") \in WorkOf /\ To(t, "lapse").at = "lapse" /\ To(t, "lapse").paid < To(t, "lapse").total
    BY <1>1, <1>10, ToWork DEF Places
  <2>2. q \in WorkOf /\ q.at = "lapse" /\ q.paid < q.total
    BY <2>1 DEF WorkOf, Operations
  <2> HIDE DEF q
  <2>3. Keep(t, q)
    BY <1>10 DEF q
  <2> QED BY <1>2, <1>4, <1>5, <1>10, <2>2, <2>3, QuietMove DEF Quiet
<1> QED BY <1>6, <1>6a, <1>7, <1>8, <1>9, <1>10
-----------------------------------------------------------------------------
\* A link is made ...
LEMMA InsertKeeps ==
  ASSUME Sound, NEW t \in Requests, InsertLink(t)
  PROVE  Sound'
<1>1. Types /\ Paper /\ NoReviews /\ Prepares(t) /\ work[t] \in WorkOf /\ Rows
  BY DEF Sound, Types, Requested
<1> DEFINE n == Len(links) + 1
           a == work[t].total - work[t].paid
           q == [To(t, "attach") EXCEPT !.link = n]
<1>2. work[t].at = "insert" /\ links' = Append(links, NewLink(a)) /\ Keep(t, q) /\ UNCHANGED <<invoices, orders, colls, page, left>>
  BY DEF InsertLink, GoesOn
<1>3. a \in Nat
  <2>1. work[t].paid < work[t].total
    BY <1>1, <1>2 DEF Prepares
  <2>2. work[t].paid \in Nat /\ work[t].total \in Nat
    BY <1>1 DEF WorkOf
  <2> QED BY <2>1, <2>2
<1>4. Turn(t) /\ ~Booking(t)
  <2>1. GoesOn(t, "insert")
    BY DEF InsertLink
  <2> QED BY <1>2, <2>1, Turns, NotBooking DEF Quiet, Places
<1>5. links' \in Seq(LinkOf) /\ Len(links') = n /\ Len(links) \in Nat
  BY <1>1, <1>2, <1>3, LinkAdded, Lengths
<1>6. Paper' /\ Frame /\ Calm
  BY <1>1, <1>2, <1>5, SameBooks DEF Paper
<1>7. NoReviews'
  BY <1>1, <1>2 DEF NoReviews
<1>8. q \in WorkOf /\ q.at = "attach" /\ q.link = n
  <2>1. n \in Nat
    BY <1>5
  <2> HIDE DEF n
  <2>2. To(t, "attach") \in WorkOf /\ To(t, "attach").at = "attach"
    BY <1>1, ToWork DEF Places
  <2>3. \A w \in WorkOf : LET v == [w EXCEPT !.link = n] IN v \in WorkOf /\ v.at = w.at /\ v.link = n
    BY <2>1 DEF WorkOf
  <2> QED BY <2>2, <2>3
<1> HIDE DEF a, q
<1>9. StepOf(t) /\ work'[t] = q /\ work' \in [Requests -> WorkOf]
  BY <1>1, <1>2, <1>4, <1>8, Moved
<1>10. Types'
  BY <1>6, <1>9 DEF Types
<1>11. /\ n \in 1..Len(links') /\ n # 0
       /\ \A i \in 1..Len(invoices') : invoices'[i].link # n
       /\ \A c \in 1..Len(colls') : colls'[c].link # n
  <2>1. \A i \in 1..Len(invoices) : invoices[i].link \in Nat /\ invoices[i].link <= Len(links)
    BY <1>1, Lengths DEF Rows, Linking, InvoiceRow
  <2>2. \A c \in 1..Len(colls) : colls[c].link \in Nat /\ colls[c].link <= Len(links)
    BY <1>1, Lengths DEF Rows, Placed, AttemptOf
  <2> QED BY <1>2, <1>5, <2>1, <2>2
<1>11a. Unused(work[t].link)'
  BY <1>8, <1>9, <1>11 DEF Unused, Unbilled
<1>12. Prepares(t)' /\ Books(t)'
  <2>1. work'[t].at = "attach"
    BY <1>8, <1>9
  <2>2. Prepares(t)'
    BY <2>1, <1>1, <1>2, <1>11a DEF Prepares, Paying, Slow
  <2>3. Books(t)'
    BY <2>1 DEF Books, Up, Down
  <2> QED BY <2>2, <2>3
<1>13. ASSUME NEW s \in Requests PROVE Apart(t, s)' /\ Apart(s, t)'
  <2>1. CASE s = t
    BY <2>1 DEF Apart
  <2>2. CASE s # t
    <3>1. work'[s] = work[s] /\ work[s] \in WorkOf /\ Prepares(s)
      BY <1>1, <1>9, <2>2 DEF StepOf, Types, Sound, Requested
    <3>2. work[s].at \in Paying \cup {"attach"} => work[s].link # n
      <4>1. work[s].link \in Nat
        BY <3>1 DEF WorkOf
      <4>2. work[s].at \in Paying \cup {"attach"} => work[s].link <= Len(links)
        BY <1>5, <3>1 DEF Prepares, Unused
      <4> QED BY <1>5, <4>1, <4>2
    <3> QED BY <1>8, <1>9, <3>1, <3>2 DEF Apart
  <2> QED BY <2>1, <2>2
<1>14. Fine(t) /\ work'[t].at \notin Up \cup Down
  BY <1>8, <1>9, <1>12, <1>13 DEF Fine, Up, Down
<1> QED BY <1>4, <1>6, <1>7, <1>9, <1>10, <1>14, QuietStep

\* ... and then the invoice goes by it.
LEMMA AttachKeeps ==
  ASSUME Sound, NEW t \in Requests, AttachLink(t)
  PROVE  Sound'
<1>1. Types /\ Paper /\ NoReviews /\ Prepares(t) /\ work[t] \in WorkOf /\ Rows
  BY DEF Sound, Types, Requested
<1> DEFINE l == work[t].link  j == work[t].inv
<1>2. work[t].at = "attach" /\ invoices' = [invoices EXCEPT ![j].link = l] /\ UNCHANGED <<links, orders, colls, page, left>>
  BY DEF AttachLink, GoesOn
<1>3. Unused(l) /\ l \in Nat /\ j \in Nat
  BY <1>1, <1>2 DEF Prepares, WorkOf
<1>4. Turn(t) /\ ~Booking(t)
  <2>1. GoesOn(t, "attach")
    BY DEF AttachLink
  <2> QED BY <1>2, <2>1, Turns, NotBooking DEF Paying, Places
<1>5. \E q \in WorkOf : q.at \in {"email", "idle"} /\ (Keep(t, q) \/ Await(t, q))
  <2>1. To(t, "email") \in WorkOf /\ To(t, "email").at = "email"
    BY <1>1, ToWork DEF Places
  <2> QED BY <2>1, IdleWork DEF AttachLink, Linked, Done
<1>6. PICK q \in WorkOf : q.at \in {"email", "idle"} /\ (Keep(t, q) \/ Await(t, q))
  BY <1>5
<1>7. StepOf(t) /\ work'[t] = q /\ work' \in [Requests -> WorkOf]
  BY <1>1, <1>4, <1>6, Moved
<1> HIDE DEF l, j
<1>8. /\ invoices' \in Seq(InvoiceRow) /\ Len(invoices') = Len(invoices)
      /\ \A i \in 1..Len(invoices) : invoices'[i].paid = invoices[i].paid /\ invoices'[i].link \in {invoices[i].link, l}
  <2>1. invoices \in Seq(InvoiceRow) /\ DOMAIN invoices = 1..Len(invoices)
    BY <1>1 DEF Paper
  <2>2. CASE j \in 1..Len(invoices)
    <3>1. invoices[j] \in InvoiceRow
      BY <2>1, <2>2
    <3>2. \A y \in InvoiceRow : LET x == [y EXCEPT !.link = l] IN x \in InvoiceRow /\ x.paid = y.paid /\ x.link = l
      BY <1>3 DEF InvoiceRow
    <3>3. PICK x \in InvoiceRow : invoices' = [invoices EXCEPT ![j] = x] /\ x.paid = invoices[j].paid /\ x.link = l
      BY <1>2, <3>1, <3>2
    <3>4. /\ invoices' \in Seq(InvoiceRow) /\ Len(invoices') = Len(invoices)
          /\ \A i \in 1..Len(invoices) : invoices'[i] = IF i = j THEN x ELSE invoices[i]
      BY <1>1, <1>3, <2>2, <3>3, InvoiceReplaced
    <3> QED BY <3>3, <3>4
  <2>3. CASE j \notin 1..Len(invoices)
    <3>1. \A f : [invoices EXCEPT ![j] = f] = invoices
      BY <2>1, <2>3
    <3>2. invoices' = invoices
      BY <1>2, <3>1
    <3> QED BY <2>1, <3>2
  <2> QED BY <2>2, <2>3
<1>9. Types' /\ Calm /\ Len(invoices) \in Nat /\ Len(colls) \in Nat
  <2>1. Paper'
    BY <1>1, <1>2, <1>8 DEF Paper
  <2>2. Len(invoices) \in Nat /\ Len(colls) \in Nat
    BY <1>1, Lengths
  <2> QED BY <1>2, <1>7, <1>8, <2>1, <2>2 DEF Types, Calm
<1>10. NoReviews'
  BY <1>1, <1>2 DEF NoReviews
<1>11. ASSUME NEW k \in Nat, k # l, Unbilled(k)
       PROVE  \A i \in 1..Len(invoices') : invoices'[i].link = k => k = 0
  BY <1>2, <1>8, <1>11 DEF Unbilled
<1>12. Rows'
  <2>1. ASSUME NEW c \in 1..Len(colls) PROVE Placed(c)'
    <3>1. Placed(c) /\ colls[c].link # l /\ colls[c].link \in Nat
      BY <1>1, <1>3, Lengths DEF Rows, Unused, AttemptOf
    <3>2. Unbilled(colls[c].link) => \A i \in 1..Len(invoices') : invoices'[i].link = colls[c].link => colls[c].link = 0
      BY <1>11, <3>1
    <3> QED BY <1>2, <1>8, <3>1, <3>2 DEF Placed, Unbilled
  <2>2. Linking'
    BY <1>1, <1>2, <1>3, <1>8 DEF Rows, Linking, Unused
  <2> QED BY <1>2, <2>1, <2>2 DEF Rows
<1>13. Fine(t) /\ work'[t].at \notin Up \cup Down
  BY <1>6, <1>7, Arrives DEF Quiet, Slow
<1>14. ASSUME NEW s \in Requests, s # t PROVE Prepares(s)' /\ Books(s)'
  <2>1. Prepares(s) /\ Apart(t, s) /\ work'[s] = work[s] /\ work[s] \in WorkOf
    BY <1>1, <1>7, <1>14 DEF Sound, Requested, Separate, StepOf, Types
  <2>2. work[s].link \in Nat
    BY <2>1 DEF WorkOf
  <2>3. work[s].at \in Paying \cup {"attach"} => work[s].link # l
    BY <1>2, <1>14, <2>1 DEF Apart, l
  <2>4. Unbilled(work[s].link) /\ work[s].link # l
          => \A i \in 1..Len(invoices') : invoices'[i].link = work[s].link => work[s].link = 0
    BY <1>11, <2>2
  <2>5. work[s].at = "attach" => Unused(work[s].link)'
    BY <1>2, <2>1, <2>3, <2>4 DEF Prepares, Unused, Unbilled
  <2>6. Prepares(s)'
    BY <1>2, <1>8, <2>1, <2>3, <2>4, <2>5 DEF Prepares, Paying, Unbilled
  <2>7. Booking(s) => busy' = busy
    BY <1>7, <1>14, Alone
  <2>8. Books(s)'
    BY <1>9, <2>1, <2>7, BooksKept
  <2> QED BY <2>6, <2>8
<1>15. Requested'
  BY <1>13, <1>14 DEF Requested, Fine
<1>16. Separate'
  <2>1. ASSUME NEW r \in Requests, NEW s \in Requests PROVE Apart(r, s)'
    <3>1. CASE r # t /\ s # t
      BY <1>7, <3>1, ApartKept DEF StepOf
    <3> QED BY <1>13, <3>1 DEF Fine
  <2> QED BY <2>1 DEF Separate
<1>17. Balance'
  BY <1>4, <1>7, <1>9, <1>13, BalanceKept DEF StepOf
<1> QED BY <1>9, <1>10, <1>12, <1>15, <1>16, <1>17 DEF Sound
-----------------------------------------------------------------------------
(***************************************************************************)
(* Attempts.                                                               *)
(***************************************************************************)
\* What an attempt is about exists, and no thread is attaching its link.
Ready(q) ==
  /\ q \in WorkOf /\ q.link <= Len(links) /\ q.inv <= Len(invoices) /\ q.method \in Methods
  /\ \A s \in Requests : work[s].at = "attach" => work[s].link # q.link
Billed(q) == q.inv = 0 => Unbilled(q.link)

LEMMA RowWritten ==
  ASSUME Sound, NoReviews', NEW r \in Requests, Turn(r), ~Booking(r), NEW q, Ready(q), Billed(q), Done(r),
         NEW s \in {"processing", "failed"}, colls' = Append(colls, Row(q, s)),
         UNCHANGED <<links, invoices>>, orders' \in Seq(OrderOf)
  PROVE  Sound'
<1> DEFINE a == Row(q, s)
<1>1. Types /\ Paper
  BY DEF Sound, Types
<1>2. /\ a \in AttemptOf /\ a.status = s /\ a.link = q.link /\ a.invoice = q.inv
  BY DEF Ready, WorkOf, Row, AttemptOf
<1>3. NewRow(a)
  <2> HIDE DEF a
  <2> QED BY <1>2 DEF NewRow, Ready, Billed
<1>4. colls \in Seq(AttemptOf) /\ colls' = Append(colls, a)
  BY <1>1 DEF Paper
<1> HIDE DEF a
<1>5. /\ colls' \in Seq(AttemptOf) /\ Len(colls') = Len(colls) + 1 /\ Len(colls) \in Nat
      /\ \A c \in 1..Len(colls) : colls'[c] = colls[c]
      /\ \A c \in 1..Len(colls') : c > Len(colls) => colls'[c] = a
  BY <1>2, <1>4
<1>6. Paper'
  BY <1>1, <1>5 DEF Paper
<1>7. Frame
  BY <1>1, <1>3, <1>5, Lengths DEF Frame
<1>8. Calm
  BY <1>1, <1>2, <1>5, Lengths DEF Calm
<1> QED BY <1>6, <1>7, <1>8, IdleWork, QuietMove DEF Done

\* A request waits for Selcom before its row is written.
LEMMA Waits ==
  ASSUME Sound, NoReviews', Paper', Frame, Calm, NEW r \in Requests, Turn(r), ~Booking(r), NEW q, Ready(q),
         q.at \in Paying, q.at = "pushing" => Billed(q), Await(r, q), UNCHANGED <<links, invoices, colls>>
  PROVE  Sound'
<1>1. Types /\ q \in WorkOf
  BY DEF Sound, Ready
<1>2. StepOf(r) /\ work'[r] = q /\ work' \in [Requests -> WorkOf]
  BY <1>1, Moved
<1>3. Types'
  BY <1>2 DEF Types
<1>4. q.at \notin Up \cup Down \cup Slow \cup {"attach", "asking", "clear", "write", "unwrite", "insert", "lapse"}
  BY DEF Up, Down, Slow, Paying
<1>5. Prepares(r)'
  BY <1>2, <1>4 DEF Prepares, Ready, Billed, Unbilled
<1>6. Books(r)'
  BY <1>2, <1>4 DEF Books
<1>7. \A s \in Requests : Apart(r, s)' /\ Apart(s, r)'
  BY <1>2, <1>4 DEF Apart, Ready, StepOf
<1> QED BY <1>2, <1>3, <1>4, <1>5, <1>6, <1>7, QuietStep DEF Fine

LEMMA Presents ==
  ASSUME Sound, NoReviews', NEW r \in Requests, Turn(r), ~Booking(r), NEW q, Ready(q), Billed(q), Present(r, q),
         UNCHANGED <<links, invoices>>, orders' \in Seq(OrderOf)
  PROVE  Sound'
<1>1. CASE q.method \in Pushed
  <2> DEFINE p == [q EXCEPT !.at = "pushing"]
  <2>1. Await(r, p) /\ colls' = colls
    BY <1>1 DEF Present
  <2>2. p \in WorkOf /\ p.at = "pushing" /\ p.link = q.link /\ p.inv = q.inv /\ p.method = q.method
    BY DEF Ready, WorkOf, Places, Paying
  <2> HIDE DEF p
  <2>3. Ready(p) /\ Billed(p)
    BY <2>2 DEF Ready, Billed
  <2>4. Paper' /\ Frame /\ Calm
    BY <2>1, SameBooks, Lengths DEF Sound, Types, Paper
  <2> QED BY <2>1, <2>2, <2>3, <2>4, Waits DEF Paying
<1>2. CASE q.method \notin Pushed
  BY <1>2, RowWritten DEF Present
<1> QED BY <1>1, <1>2

LEMMA BeginsIdle ==
  ASSUME NEW r \in Requests, Begins(r)
  PROVE  Turn(r) /\ ~Booking(r) /\ work[r].at = "idle"
<1>1. work[r].at = "idle"
  BY IdleWork DEF Begins
<1> QED BY <1>1, Turns, NotBooking DEF Quiet

LEMMA LatestOrder ==
  ASSUME Paper, NEW l, OpenOrders(l) # {}
  PROVE  Max(OpenOrders(l)) \in Nat
<1>1. OpenOrders(l) \in SUBSET (1..Len(orders)) /\ Len(orders) \in Nat
  BY DEF OpenOrders, Paper
<1>2. Max(OpenOrders(l)) \in OpenOrders(l)
  BY <1>1, MaxIn
<1> QED BY <1>1, <1>2

\* A page is asked to take payment of a link.
LEMMA PayKeeps ==
  ASSUME Sound, NEW r \in Requests, NEW l \in DOMAIN links, NEW m \in Methods, NEW others, Pay(r, l, m, others)
  PROVE  Sound'
<1>1. Types /\ Paper /\ NoReviews /\ l \in 1..Len(links) /\ Len(links) \in Nat /\ links[l] \in LinkOf
  BY Lengths DEF Sound, Types, Paper
<1>2. NoReviews'
  BY <1>1, Spent DEF Pay, Counters
<1>3. Turn(r) /\ ~Booking(r)
  BY BeginsIdle DEF Pay
<1> DEFINE q == [NoWork EXCEPT !.link = l, !.method = m, !.amount = links[l].amount]
<1>4. CASE links[l].over
  <2>1. links' = [links EXCEPT ![l].status = "EXPIRED"] /\ UNCHANGED <<colls, work, busy, invoices, orders>>
    BY <1>4 DEF Pay
  <2>2. links' \in Seq(LinkOf) /\ Len(links') = Len(links)
    BY <1>1, <2>1, LinkChanged
  <2>3. Paper' /\ Frame /\ Calm
    BY <1>1, <2>1, <2>2, SameBooks DEF Paper
  <2> QED BY <1>1, <1>2, <2>1, <2>3, StillStep DEF Types
<1>5. /\ q \in WorkOf /\ q.link = l /\ q.inv = 0 /\ q.method = m
      /\ \A n \in Nat, i \in Nat : LET p == [q EXCEPT !.order = n, !.inv = i] IN
           p \in WorkOf /\ p.link = l /\ p.inv = i /\ p.method = m
      /\ LET p == [q EXCEPT !.at = "ordering"] IN
           p \in WorkOf /\ p.link = l /\ p.inv = 0 /\ p.method = m /\ p.at = "ordering"
  <2>1. links[l].amount \in Nat /\ l \in Nat
    BY <1>1 DEF LinkOf
  <2>2. \A a \in Nat : LET w == [NoWork EXCEPT !.link = l, !.method = m, !.amount = a] IN
          w \in WorkOf /\ w.link = l /\ w.inv = 0 /\ w.method = m
    BY <2>1 DEF NoWork, WorkOf, Places, Operations
  <2>3. q \in WorkOf /\ q.link = l /\ q.inv = 0 /\ q.method = m
    BY <2>1, <2>2
  <2> HIDE DEF q
  <2>4. \A n \in Nat, i \in Nat : LET p == [q EXCEPT !.order = n, !.inv = i] IN
          p \in WorkOf /\ p.link = l /\ p.inv = i /\ p.method = m
    BY <2>3 DEF WorkOf
  <2>5. LET p == [q EXCEPT !.at = "ordering"] IN
          p \in WorkOf /\ p.link = l /\ p.inv = 0 /\ p.method = m /\ p.at = "ordering"
    BY <2>3 DEF WorkOf, Places, Paying
  <2> QED BY <2>3, <2>4, <2>5
<1>6. \A s \in Requests : work[s].at = "attach" => work[s].link # l
  <2>1. \A s \in Requests : work[s].at = "attach" => s \in Threads
    BY DEF Sound, Requested, Prepares, Slow
  <2> QED BY <2>1 DEF Pay, Shown
<1>7. CASE ~links[l].over /\ OpenOrders(l) = {}
  <2> DEFINE p == [q EXCEPT !.at = "ordering"]
  <2>1. Await(r, p) /\ UNCHANGED <<links, invoices, orders, colls>>
    BY <1>7 DEF Pay
  <2>2. Paper' /\ Frame /\ Calm
    BY <1>1, <2>1, SameTables
  <2>3. p \in WorkOf /\ p.link = l /\ p.inv = 0 /\ p.method = m /\ p.at = "ordering"
    BY <1>5
  <2> HIDE DEF p, q
  <2>4. Ready(p)
    BY <1>1, <1>6, <2>3, Lengths DEF Ready
  <2> QED BY <1>2, <1>3, <2>1, <2>2, <2>3, <2>4, Waits DEF Paying
<1>8. CASE ~links[l].over /\ OpenOrders(l) # {}
  <2> DEFINE p == [q EXCEPT !.order = Max(OpenOrders(l)), !.inv = InvoiceOf(l)]
  <2>1. Present(r, p) /\ UNCHANGED <<links, invoices, orders>>
    BY <1>8 DEF Pay
  <2>2. Max(OpenOrders(l)) \in Nat
    BY <1>1, <1>8, LatestOrder
  <2>3. InvoiceOf(l) \in 0..Len(invoices) /\ (InvoiceOf(l) = 0 <=> Unbilled(l)) /\ Len(invoices) \in Nat
    <3>1. l \in Nat /\ Len(invoices) \in Nat
      BY <1>1, Lengths
    <3> QED BY <1>1, <3>1, InvoiceOfLink
  <2>3a. InvoiceOf(l) \in Nat
    BY <2>3
  <2>4. p \in WorkOf /\ p.link = l /\ p.inv = InvoiceOf(l) /\ p.method = m
    BY <1>5, <2>2, <2>3a
  <2> HIDE DEF p, q
  <2>5. Ready(p) /\ Billed(p)
    BY <1>1, <1>6, <2>3, <2>4 DEF Ready, Billed
  <2> QED BY <1>1, <1>2, <1>3, <2>1, <2>5, Presents DEF Paper
<1> QED BY <1>4, <1>7, <1>8

LEMMA DirectKeeps ==
  ASSUME Sound, NEW r \in Requests, NEW m \in Methods, NEW i \in {0} \cup DOMAIN invoices, NEW a \in Amounts,
         Direct(r, m, i, a)
  PROVE  Sound'
<1>1. Types /\ Paper /\ NoReviews /\ i \in 0..Len(invoices) /\ Len(invoices) \in Nat /\ a \in Nat
  BY DEF Sound, Types, Paper, Amounts
<1>2. NoReviews'
  BY <1>1, Spent DEF Direct, Counters
<1>3. Turn(r) /\ ~Booking(r)
  BY BeginsIdle DEF Direct
<1> DEFINE q == [NoWork EXCEPT !.at = "ordering", !.inv = i, !.method = m, !.amount = a]
<1>4. Await(r, q) /\ UNCHANGED <<links, invoices, orders, colls>>
  BY DEF Direct, tables
<1>5. q \in WorkOf /\ q.at = "ordering" /\ q.link = 0 /\ q.inv = i /\ q.method = m
  <2>1. i \in Nat
    BY <1>1
  <2>2. \A j \in Nat, b \in Nat : LET w == [NoWork EXCEPT !.at = "ordering", !.inv = j, !.method = m, !.amount = b] IN
          w \in WorkOf /\ w.at = "ordering" /\ w.link = 0 /\ w.inv = j /\ w.method = m
    BY DEF NoWork, WorkOf, Places, Operations, Paying
  <2> QED BY <1>1, <2>1, <2>2
<1> HIDE DEF q
<1>6. Paper' /\ Frame /\ Calm
  BY <1>1, <1>4, SameTables
<1>7. \A s \in Requests : work[s].at = "attach" => work[s].link # 0
  BY DEF Sound, Requested, Prepares, Unused
<1>8. Ready(q)
  BY <1>1, <1>5, <1>7, Lengths DEF Ready
<1> QED BY <1>2, <1>3, <1>4, <1>5, <1>6, <1>8, Waits DEF Paying

LEMMA PayRequestKeeps ==
  ASSUME Sound, NEW r \in Requests, PayRequest(r)
  PROVE  Sound'
<1>1. CASE \E l \in DOMAIN links :
             WalletPush(r, l) \/ SelcomPesaPush(r, l) \/ DynamicQr(r, l) \/ HostedCheckout(r, l)
  BY <1>1, PayKeeps DEF WalletPush, SelcomPesaPush, DynamicQr, HostedCheckout, Methods, Pushed
<1>2. CASE \E i \in {0} \cup DOMAIN invoices, a \in Amounts :
             \/ DirectWalletPush(r, i, a) \/ DirectSelcomPesa(r, i, a)
             \/ DirectQr(r, i, a) \/ DirectHosted(r, i, a)
  BY <1>2, DirectKeeps DEF DirectWalletPush, DirectSelcomPesa, DirectQr, DirectHosted, Methods, Pushed
<1> QED BY <1>1, <1>2 DEF PayRequest

\* Selcom answers an order ...
LEMMA OrderAnswerKeeps ==
  ASSUME Sound, NEW r \in Requests, NEW s \in {"created", "failed"}, OrderAnswer(r, s)
  PROVE  Sound'
<1>1. Types /\ Paper /\ NoReviews /\ Prepares(r) /\ work[r] \in WorkOf
  BY DEF Sound, Types, Requested
<1>2. Resumes(r, "ordering") /\ UNCHANGED <<links, invoices, left>>
  BY DEF OrderAnswer
<1>3. NoReviews'
  BY <1>1, <1>2 DEF NoReviews
<1>4. Turn(r) /\ ~Booking(r) /\ work[r].at = "ordering"
  BY <1>2, Turns, NotBooking DEF Resumes, Paying, Places
<1>5. orders' \in Seq(OrderOf) /\ Len(orders) \in Nat
  <2> DEFINE x == [link |-> work[r].link, amount |-> work[r].amount, status |-> s, truth |-> "unpaid"]
  <2>1. x \in OrderOf
    BY <1>1 DEF WorkOf, OrderOf
  <2>2. orders' = Append(orders, x)
    BY DEF OrderAnswer
  <2> HIDE DEF x
  <2> QED BY <1>1, <2>1, <2>2, Lengths DEF Paper
<1> DEFINE i == IF work[r].link = 0 THEN work[r].inv ELSE InvoiceOf(work[r].link)
           q == [work[r] EXCEPT !.order = Len(orders) + 1,
                   !.inv = IF work[r].link = 0 THEN @ ELSE InvoiceOf(work[r].link)]
<1>6. i \in Nat /\ i <= Len(invoices) /\ (i = 0 => Unbilled(work[r].link)) /\ work[r].link <= Len(links) /\ work[r].method \in Methods
  <2>1. work[r].link \in Nat /\ work[r].inv \in Nat /\ Len(invoices) \in Nat
    BY <1>1, Lengths DEF WorkOf
  <2>2. work[r].link <= Len(links) /\ work[r].inv <= Len(invoices) /\ work[r].method \in Methods
    BY <1>1, <1>4 DEF Prepares, Paying
  <2>3. CASE work[r].link = 0
    BY <2>1, <2>2, <2>3 DEF Unbilled
  <2>4. CASE work[r].link # 0
    <3>1. InvoiceOf(work[r].link) \in 0..Len(invoices) /\ (InvoiceOf(work[r].link) = 0 <=> Unbilled(work[r].link))
      BY <1>1, <2>1, InvoiceOfLink
    <3> QED BY <2>1, <2>2, <2>4, <3>1
  <2> QED BY <2>3, <2>4
<1>7. q \in WorkOf /\ q.link = work[r].link /\ q.inv = i /\ q.method = work[r].method
  <2>1. Len(orders) + 1 \in Nat
    BY <1>5
  <2>3. q = [work[r] EXCEPT !.order = Len(orders) + 1, !.inv = i]
    BY <1>1 DEF WorkOf
  <2> HIDE DEF i, q
  <2>4. LET v == [work[r] EXCEPT !.order = Len(orders) + 1, !.inv = i] IN
          v \in WorkOf /\ v.link = work[r].link /\ v.inv = i /\ v.method = work[r].method
    <3>1. PICK n \in Nat : n = Len(orders) + 1
      BY <2>1
    <3>2. PICK w \in WorkOf, j \in Nat : w = work[r] /\ j = i
      BY <1>1, <1>6
    <3>3. LET v == [w EXCEPT !.order = n, !.inv = j] IN
            v \in WorkOf /\ v.link = w.link /\ v.inv = j /\ v.method = w.method
      BY DEF WorkOf
    <3> QED BY <3>1, <3>2, <3>3
  <2> QED BY <2>3, <2>4
<1>8. \/ Present(r, q)
      \/ colls' = Append(colls, Row(q, "failed")) /\ Done(r)
  BY DEF OrderAnswer
<1>9. \A t \in Requests : work[t].at = "attach" => work[t].link # work[r].link
  BY <1>4 DEF Sound, Separate, Apart, Paying
<1> HIDE DEF i, q
<1>10. Ready(q) /\ Billed(q)
  BY <1>6, <1>7, <1>9 DEF Ready, Billed
<1> QED BY <1>2, <1>3, <1>4, <1>5, <1>8, <1>10, Presents, RowWritten

\* ... and a push.
LEMMA PushAnswerKeeps ==
  ASSUME Sound, NEW r \in Requests, NEW s \in {"processing", "failed"}, PushAnswer(r, s)
  PROVE  Sound'
<1>1. Types /\ Paper /\ NoReviews /\ Prepares(r) /\ work[r] \in WorkOf
  BY DEF Sound, Types, Requested
<1>2. Resumes(r, "pushing") /\ UNCHANGED <<links, invoices, orders, left>> /\ Done(r) /\ colls' = Append(colls, Row(work[r], s))
  BY DEF PushAnswer
<1>3. NoReviews'
  BY <1>1, <1>2 DEF NoReviews
<1>4. Turn(r) /\ ~Booking(r) /\ work[r].at = "pushing"
  BY <1>2, Turns, NotBooking DEF Resumes, Paying, Places
<1>5. \A t \in Requests : work[t].at = "attach" => work[t].link # work[r].link
  BY <1>4 DEF Sound, Separate, Apart, Paying
<1>6. Ready(work[r]) /\ Billed(work[r])
  BY <1>1, <1>4, <1>5 DEF Ready, Billed, Prepares, Paying
<1> QED BY <1>1, <1>2, <1>3, <1>4, <1>6, RowWritten DEF Paper

\* A collection is asked about.
LEMMA AskKeeps ==
  ASSUME Sound, NEW r \in Requests, NEW c \in DOMAIN colls, Ask(r, c)
  PROVE  Sound'
<1>1. Types /\ Paper /\ NoReviews /\ c \in 1..Len(colls) /\ c \in Nat /\ colls[c] \in AttemptOf
  BY DEF Sound, Types, Paper
<1> DEFINE q == [NoWork EXCEPT !.at = "asking", !.coll = c, !.link = colls[c].link]
<1>2. Await(r, q) /\ UNCHANGED <<links, invoices, orders, colls, left>> /\ r \in Handlers
  BY DEF Ask, tables
<1>3. Turn(r) /\ ~Booking(r)
  BY BeginsIdle DEF Ask
<1>4. q \in WorkOf /\ q.at = "asking" /\ q.coll = c
  <2>1. colls[c].link \in Nat
    BY <1>1 DEF AttemptOf
  <2>2. \A l \in Nat : LET w == [NoWork EXCEPT !.at = "asking", !.coll = c, !.link = l] IN
          w \in WorkOf /\ w.at = "asking" /\ w.coll = c
    BY <1>1 DEF NoWork, WorkOf, Places, Operations
  <2> QED BY <2>1, <2>2
<1> HIDE DEF q
<1>5. StepOf(r) /\ work'[r] = q /\ work' \in [Requests -> WorkOf]
  BY <1>1, <1>2, <1>3, <1>4, Moved
<1>6. Paper' /\ Frame /\ Calm
  BY <1>1, <1>2, SameTables
<1>7. Types' /\ NoReviews'
  BY <1>1, <1>2, <1>5, <1>6 DEF Types, NoReviews
<1>8. Prepares(r)' /\ Books(r)'
  <2>1. work'[r].at = "asking" /\ work'[r].coll \in 1..Len(colls')
    BY <1>1, <1>2, <1>4, <1>5
  <2> QED BY <1>2, <2>1 DEF Prepares, Books, Slow, Paying, Up, Down
<1>9. \A s \in Requests : Apart(r, s)' /\ Apart(s, r)'
  BY <1>4, <1>5 DEF Apart, Paying
<1> QED BY <1>3, <1>4, <1>5, <1>6, <1>7, <1>8, <1>9, QuietStep DEF Fine, Up, Down
-----------------------------------------------------------------------------
(***************************************************************************)
(* Settlement: one handler books at a time, and its step is its own.        *)
(***************************************************************************)
LEMMA BookStep ==
  ASSUME Sound, Types', NoReviews', Frame, NEW r \in Requests, StepOf(r),
         \A s \in Requests : s # r => ~Booking(s), Fine(r), Balance'
  PROVE  Sound'
<1>1. \A s \in Requests : s # r => work'[s] = work[s]
  BY DEF StepOf
<1>2. Rows'
  BY RowsKept
<1>3. ASSUME NEW s \in Requests, s # r PROVE Prepares(s)' /\ Books(s)'
  <2>1. Len(colls') >= Len(colls)
    BY DEF Frame
  <2> QED BY <1>1, <1>3, <2>1, PreparesKept, BooksIdle
<1>4. Requested'
  BY <1>3 DEF Requested, Fine
<1>5. Separate'
  <2>1. ASSUME NEW s \in Requests, NEW t \in Requests PROVE Apart(s, t)'
    <3>1. CASE s # r /\ t # r
      BY <1>1, <3>1, ApartKept
    <3> QED BY <3>1 DEF Fine
  <2> QED BY <2>1 DEF Separate
<1> QED BY <1>2, <1>4, <1>5 DEF Sound

\* Who books is alone.
LEMMA OneBooks ==
  ASSUME Sound, NEW r \in Requests, Booking(r) \/ busy = Nobody
  PROVE  \A s \in Requests : s # r => ~Booking(s)
<1>1. \A s \in Requests : Booking(s) => busy = s
  BY BookingOf
<1> QED BY <1>1, CommerceAssumption

\* The books, when only r may be at one.
LEMMA BalanceOfOne ==
  ASSUME NEW r \in Requests, StepOf(r), \A s \in Requests : s # r => ~Booking(s),
         \A i \in 1..Len(invoices') : LET sum == Sum(colls', Counted(i)') IN
           /\ At(r, i, Up)' => invoices'[i].paid + colls'[work'[r].coll].amount = sum
           /\ At(r, i, Down)' => invoices'[i].paid = sum + colls'[work'[r].coll].amount
           /\ ~At(r, i, Up \cup Down)' => invoices'[i].paid = sum
  PROVE  Balance'
<1> SUFFICES ASSUME NEW i \in 1..Len(invoices') PROVE Balanced(i)'
  BY DEF Balance
<1>1. \A s \in Requests : s # r => work'[s].at \notin Up \cup Down
  BY DEF StepOf, Booking
<1>2. \A s \in Requests : s # r => ~At(s, i, Up)' /\ ~At(s, i, Down)' /\ ~At(s, i, Up \cup Down)'
  BY <1>1 DEF At
<1>3. Sum(colls', Counted(i)') = Sum(colls, Counted(i))'
  BY DEF Sum, Worth
<1> QED BY <1>2, <1>3 DEF Balanced

\* A booking that moves on, the books untouched.
LEMMA BooksOn ==
  ASSUME Sound, NEW r \in Requests, Booking(r), NEW q \in WorkOf, Keep(r, q) \/ Await(r, q), NoReviews',
         Paper', Frame, Calm, UNCHANGED <<invoices, colls>>,
         \/ /\ q.coll = work[r].coll /\ (q.at \in Up <=> work[r].at \in Up) /\ (q.at \in Down <=> work[r].at \in Down)
            /\ q.at \in Up \cup Down /\ Keep(r, q)
            /\ q.at \in {"write", "unwrite"} =>
                 q.inv \in 1..Len(invoices) /\ q.inv = colls[q.coll].invoice /\ q.paid = invoices[q.inv].paid
         \/ q.at \in Quiet \ Slow /\ q.at # "insert" /\ q.at # "lapse" /\ colls[work[r].coll].invoice = 0
  PROVE  Sound'
<1>1. Types /\ Paper
  BY DEF Sound, Types
<1>2. r \in Handlers /\ busy = r /\ work[r].coll \in 1..Len(colls)
  BY BookingOf
<1>3. StepOf(r) /\ work'[r] = q /\ work' \in [Requests -> WorkOf]
  <2>1. Turn(r)
    BY <1>2 DEF Turn
  <2> QED BY <1>1, <2>1, Moved
<1>4. Types'
  BY <1>3 DEF Types
<1>5. Fine(r)
  <2>1. CASE q.at \in Quiet
    <3>1. q.at \notin Up \cup Down
      BY <2>1 DEF Quiet, Up, Down
    <3> QED BY <1>3, <2>1, <3>1, Arrives
  <2>2. CASE q.at \notin Quiet
    <3>1. q.at \in Up \cup Down /\ Keep(r, q) /\ q.coll = work[r].coll
          /\ (q.at \in Up <=> work[r].at \in Up) /\ (q.at \in Down <=> work[r].at \in Down)
          /\ (q.at \in {"write", "unwrite"} =>
                 q.inv \in 1..Len(invoices) /\ q.inv = colls[q.coll].invoice /\ q.paid = invoices[q.inv].paid)
      BY <2>2
    <3>2. q.at \notin Slow \cup Paying \cup {"attach", "asking", "clear", "insert", "lapse"}
      BY <3>1 DEF Up, Down, Slow, Paying
    <3>3. busy' = r
      BY <1>2, <3>1 DEF Keep
    <3>4. Books(r)
      BY DEF Sound, Requested
    <3>5. Books(r)'
      BY <1>2, <1>3, <3>1, <3>2, <3>3, <3>4 DEF Books
    <3>6. Prepares(r)'
      BY <1>3, <3>2 DEF Prepares, Paying
    <3>7. \A s \in Requests : Apart(r, s)' /\ Apart(s, r)'
      BY <1>3, <3>2 DEF Apart
    <3> QED BY <3>5, <3>6, <3>7 DEF Fine
  <2> QED BY <2>1, <2>2
<1>6. \A s \in Requests : s # r => ~Booking(s)
  BY OneBooks
<1>7. Balance'
  <2> SUFFICES ASSUME NEW i \in 1..Len(invoices')
               PROVE  LET sum == Sum(colls', Counted(i)') IN
                      /\ At(r, i, Up)' => invoices'[i].paid + colls'[work'[r].coll].amount = sum
                      /\ At(r, i, Down)' => invoices'[i].paid = sum + colls'[work'[r].coll].amount
                      /\ ~At(r, i, Up \cup Down)' => invoices'[i].paid = sum
    BY <1>3, <1>6, BalanceOfOne
  <2>1. Balanced(i) /\ i # 0
    BY <1>1, Lengths DEF Sound, Balance
  <2>2. Counted(i)' = Counted(i) /\ colls' = colls /\ invoices' = invoices
    BY DEF Counted
  <2>3. \A s \in Requests : s # r => ~At(s, i, Up) /\ ~At(s, i, Down) /\ ~At(s, i, Up \cup Down)
    BY <1>6 DEF At, Booking
  <2>4. Up \cap Down = {} /\ (At(r, i, Up \cup Down) <=> At(r, i, Up) \/ At(r, i, Down))
    BY DEF At, Up, Down
  <2>5. CASE q.at \in Up \cup Down /\ q.coll = work[r].coll
             /\ (q.at \in Up <=> work[r].at \in Up) /\ (q.at \in Down <=> work[r].at \in Down)
    <3>1. /\ At(r, i, Up)' <=> At(r, i, Up)
          /\ At(r, i, Down)' <=> At(r, i, Down)
          /\ At(r, i, Up \cup Down)' <=> At(r, i, Up \cup Down)
          /\ work'[r].coll = work[r].coll
      BY <1>3, <2>2, <2>5 DEF At
    <3> QED BY <2>1, <2>2, <2>3, <2>4, <3>1 DEF Balanced
  <2>6. CASE q.at \in Quiet /\ colls[work[r].coll].invoice = 0
    <3>1. ~At(r, i, Up) /\ ~At(r, i, Down)
      BY <2>1, <2>6 DEF At
    <3>2. ~At(r, i, Up)' /\ ~At(r, i, Down)'
      BY <1>3, <2>6 DEF At, Quiet, Up, Down
    <3> QED BY <2>1, <2>2, <2>3, <2>4, <3>1, <3>2 DEF Balanced
  <2> QED BY <2>5, <2>6
<1> QED BY <1>3, <1>4, <1>5, <1>6, <1>7, BookStep

LEMMA SettleLinkKeeps ==
  ASSUME Sound, NEW r \in Requests, SettleLink(r) \/ ReopenLink(r)
  PROVE  Sound'
<1>1. Types /\ Paper /\ NoReviews
  BY DEF Sound, Types
<1>2. UNCHANGED <<invoices, orders, colls, left>>
  BY DEF SettleLink, ReopenLink
<1>3. links' \in Seq(LinkOf) /\ Len(links') = Len(links)
  <2>1. \A s \in {"ACTIVE", "PAID", "CANCELLED", "EXPIRED"} : LET v == [links EXCEPT ![work[r].link].status = s] IN
          v \in Seq(LinkOf) /\ Len(v) = Len(links)
    BY <1>1, LinkChanged
  <2> QED BY <1>1, <2>1 DEF SettleLink, ReopenLink, Paper
<1>4. Paper' /\ Frame /\ Calm /\ NoReviews'
  <2>1. orders' \in Seq(OrderOf) /\ Len(links') >= Len(links)
    BY <1>1, <1>2, <1>3, Lengths DEF Paper
  <2> QED BY <1>1, <1>2, <1>3, <2>1, SameBooks DEF NoReviews
<1>5. \/ work[r].at = "settle" /\ Keep(r, To(r, "book"))
      \/ work[r].at = "unsettle" /\ Keep(r, To(r, "unbook"))
  BY DEF SettleLink, ReopenLink, GoesOn
<1>6. \A p \in {"book", "unbook"} : To(r, p) \in WorkOf /\ To(r, p).at = p /\ To(r, p).coll = work[r].coll
  BY <1>1, ToWork DEF Places, Up, Down
<1>7. Booking(r)
  BY <1>5 DEF Booking, Up, Down
<1>8. \E q \in WorkOf : /\ Keep(r, q) /\ q.coll = work[r].coll /\ q.at \in {"book", "unbook"}
                        /\ (q.at \in Up <=> work[r].at \in Up) /\ (q.at \in Down <=> work[r].at \in Down)
  <2>1. CASE work[r].at = "settle" /\ Keep(r, To(r, "book"))
    BY <1>6, <2>1 DEF Up, Down
  <2>2. CASE work[r].at = "unsettle" /\ Keep(r, To(r, "unbook"))
    BY <1>6, <2>2 DEF Up, Down
  <2> QED BY <1>5, <2>1, <2>2
<1>9. PICK q \in WorkOf : /\ Keep(r, q) /\ q.coll = work[r].coll /\ q.at \in {"book", "unbook"}
                          /\ (q.at \in Up <=> work[r].at \in Up) /\ (q.at \in Down <=> work[r].at \in Down)
  BY <1>8
<1>10. q.at \in Up \cup Down /\ q.at \notin {"write", "unwrite"}
  BY <1>9 DEF Up, Down
<1> QED BY <1>2, <1>4, <1>7, <1>9, <1>10, BooksOn

LEMMA ReadBookedKeeps ==
  ASSUME Sound, NEW r \in Requests, ReadBooked(r)
  PROVE  Sound'
<1>1. Types /\ Paper /\ NoReviews
  BY DEF Sound, Types
<1>2. UNCHANGED <<links, invoices, orders, colls, left>> /\ work[r].at \in {"book", "unbook"}
  BY DEF ReadBooked, GoesOn, tables
<1>3. Paper' /\ Frame /\ Calm /\ NoReviews'
  BY <1>1, <1>2, SameTables DEF NoReviews
<1>4. Booking(r)
  BY <1>2 DEF Booking, Up, Down
<1> DEFINE i == colls[work[r].coll].invoice
           next == IF work[r].at = "book" THEN "write" ELSE "unwrite"
           q == [To(r, next) EXCEPT !.inv = i, !.total = invoices[i].total, !.paid = invoices[i].paid]
<1>5. BookedTo(work[r].coll) = i /\ i \in Nat /\ i <= Len(invoices) /\ Len(invoices) \in Nat
  BY <1>1, <1>4, BookingOf, BookedToRow, Lengths DEF AttemptOf
<1>6. IF i # 0 THEN Keep(r, q)
      ELSE IF work[r].at = "book" THEN Keep(r, To(r, "close")) ELSE Done(r)
  BY <1>5 DEF ReadBooked
<1>7. next \in Up \cup Down /\ next \in Places /\ (next \in Up <=> work[r].at \in Up) /\ (next \in Down <=> work[r].at \in Down)
  BY <1>2 DEF Up, Down, Places
<1>8. CASE i # 0
  <2> HIDE DEF i, next
  <2>1. invoices[i] \in InvoiceRow /\ i \in 1..Len(invoices)
    BY <1>1, <1>5, <1>8, Lengths
  <2>2. PICK w \in WorkOf, t \in Nat, p \in Nat : w = To(r, next) /\ t = invoices[i].total /\ p = invoices[i].paid
          /\ w.at = next /\ w.coll = work[r].coll
    BY <1>1, <1>7, <2>1, ToWork DEF InvoiceRow
  <2>3. LET v == [w EXCEPT !.inv = i, !.total = t, !.paid = p] IN
          v \in WorkOf /\ v.at = w.at /\ v.coll = w.coll /\ v.inv = i /\ v.paid = p
    BY <1>5 DEF WorkOf
  <2>4. q \in WorkOf /\ q.at = next /\ q.coll = work[r].coll /\ q.inv = i /\ q.paid = invoices[i].paid
    BY <2>2, <2>3
  <2>5. q.inv \in 1..Len(invoices) /\ q.inv = colls[q.coll].invoice /\ q.paid = invoices[q.inv].paid
    BY <2>1, <2>4 DEF i
  <2>6. Keep(r, q)
    BY <1>6, <1>8
  <2> HIDE DEF q
  <2> QED BY <1>2, <1>3, <1>4, <1>7, <2>4, <2>5, <2>6, BooksOn
<1>9. CASE i = 0
  <2>1. To(r, "close") \in WorkOf /\ To(r, "close").at = "close"
    BY <1>1, ToWork DEF Places
  <2>2. \E w \in WorkOf : w.at \in {"close", "idle"} /\ (Keep(r, w) \/ Await(r, w))
    BY <1>6, <1>9, <2>1, IdleWork DEF Done
  <2>3. PICK w \in WorkOf : w.at \in {"close", "idle"} /\ (Keep(r, w) \/ Await(r, w))
    BY <2>2
  <2>4. w.at \in Quiet \ Slow /\ w.at # "insert" /\ w.at # "lapse"
    BY <2>3 DEF Quiet, Slow
  <2> QED BY <1>2, <1>3, <1>4, <1>9, <2>3, <2>4, BooksOn
<1> QED BY <1>8, <1>9

\* An invoice that shows what it counts again.
LEMMA Shows ==
  ASSUME Sound, NEW r \in Requests, work[r].at \in {"write", "unwrite"}, NEW p \in Nat,
         NEW s \in {"DRAFT", "SENT", "PARTIALLY_PAID", "PAID", "CANCELLED"},
         invoices' = [invoices EXCEPT ![work[r].inv].paid = p, ![work[r].inv].status = s],
         p = Sum(colls, Counted(work[r].inv)), UNCHANGED <<links, orders, colls, left>>,
         NEW q \in WorkOf, q.at \in {"close", "idle"}, Keep(r, q) \/ Await(r, q)
  PROVE  Sound'
<1> DEFINE j == work[r].inv
<1>1. Types /\ Paper /\ NoReviews /\ Booking(r) /\ Books(r)
  BY DEF Sound, Types, Requested, Booking, Up, Down
<1>2. j \in 1..Len(invoices) /\ j = colls[work[r].coll].invoice /\ r \in Handlers /\ busy = r
  BY <1>1 DEF Books, Up, Down
<1>3. /\ invoices' \in Seq(InvoiceRow) /\ Len(invoices') = Len(invoices) /\ Len(invoices) \in Nat
      /\ invoices'[j].paid = p
      /\ \A i \in 1..Len(invoices) : invoices'[i].link = invoices[i].link
      /\ \A i \in 1..Len(invoices) : i # j => invoices'[i] = invoices[i]
  <2>1. invoices[j] \in InvoiceRow
    BY <1>1, <1>2, Lengths
  <2>2. \A y \in InvoiceRow : LET x == [y EXCEPT !.paid = p, !.status = s] IN
          x \in InvoiceRow /\ x.paid = p /\ x.link = y.link
    BY DEF InvoiceRow
  <2>3. PICK x \in InvoiceRow : x.paid = p /\ x.link = invoices[j].link /\ invoices' = [invoices EXCEPT ![j] = x]
    BY <2>1, <2>2
  <2>4. j \in Nat
    BY <1>2
  <2> HIDE DEF j
  <2>5. /\ invoices' \in Seq(InvoiceRow) /\ Len(invoices') = Len(invoices)
        /\ \A i \in 1..Len(invoices) : invoices'[i] = IF i = j THEN x ELSE invoices[i]
    BY <1>1, <1>2, <2>3, <2>4, InvoiceReplaced
  <2> QED BY <1>1, <1>2, <2>3, <2>5, Lengths
<1>4. StepOf(r) /\ work'[r] = q /\ work' \in [Requests -> WorkOf]
  <2>1. Turn(r)
    BY <1>2 DEF Turn
  <2> QED BY <1>1, <2>1, Moved
<1>5. Paper' /\ Types' /\ NoReviews'
  BY <1>1, <1>3, <1>4 DEF Types, Paper, NoReviews
<1>6. Frame
  BY <1>1, <1>3, Lengths DEF Frame
<1>7. \A t \in Requests : t # r => ~Booking(t)
  BY <1>1, OneBooks
<1>8. Fine(r) /\ work'[r].at \notin Up \cup Down
  BY <1>4, Arrives DEF Quiet, Slow
<1>9. Balance'
  <2> SUFFICES ASSUME NEW i \in 1..Len(invoices') PROVE invoices'[i].paid = Sum(colls', Counted(i)')
    <3>1. ASSUME NEW k \in 1..Len(invoices') PROVE ~At(r, k, Up)' /\ ~At(r, k, Down)'
      BY <1>8 DEF At
    <3> QED BY <1>4, <1>7, <3>1, BalanceOfOne
  <2>1. Counted(i)' = Counted(i) /\ colls' = colls
    BY DEF Counted
  <2>2. CASE i = j
    BY <1>3, <2>1, <2>2
  <2>3. CASE i # j
    <3>1. Balanced(i) /\ invoices'[i] = invoices[i]
      BY <1>3, <2>3 DEF Sound, Balance
    <3>2. \A t \in Requests : ~At(t, i, Up \cup Down)
      BY <1>2, <1>7, <2>3 DEF At, Booking
    <3> QED BY <2>1, <3>1, <3>2 DEF Balanced
  <2> QED BY <2>2, <2>3
<1> QED BY <1>4, <1>5, <1>6, <1>7, <1>8, <1>9, BookStep

LEMMA NotBelowZero ==
  ASSUME NEW x \in Nat
  PROVE  Max({0, x}) = x
<1>1. \A y \in {0, x} : (\A z \in {0, x} : y >= z) <=> y = x
  OBVIOUS
<1> QED BY <1>1 DEF Max

LEMMA ApplyPaymentKeeps ==
  ASSUME Sound, NEW r \in Requests, ApplyPayment(r) \/ ReversePayment(r)
  PROVE  Sound'
<1> DEFINE j == work[r].inv  c == work[r].coll
<1>1. Types /\ Paper /\ Books(r) /\ work[r].at \in {"write", "unwrite"}
  BY DEF Sound, Types, Requested, ApplyPayment, ReversePayment, GoesOn
<1>2. /\ j \in 1..Len(invoices) /\ j = colls[c].invoice /\ work[r].paid = invoices[j].paid
      /\ c \in 1..Len(colls) /\ r \in Handlers
  BY <1>1 DEF Books, Up, Down
<1>3. colls[c].amount \in Nat /\ invoices[j].paid \in Nat /\ Sum(colls, Counted(j)) \in Nat
  BY <1>1, <1>2, Lengths, CountedIn DEF AttemptOf, InvoiceRow
<1>4. Balanced(j)
  BY <1>2 DEF Sound, Balance
<1>5. UNCHANGED <<links, orders, colls, left>>
  BY DEF ApplyPayment, ReversePayment
<1>6. CASE ApplyPayment(r)
  <2> DEFINE p == work[r].paid + colls[c].amount
             s == IF p >= work[r].total THEN "PAID" ELSE "PARTIALLY_PAID"
  <2>1. /\ invoices' = [invoices EXCEPT ![j].paid = p, ![j].status = s] /\ Keep(r, To(r, "close"))
        /\ work[r].at = "write"
    BY <1>6 DEF ApplyPayment, GoesOn
  <2>2. p = Sum(colls, Counted(j))
    BY <1>2, <1>4, <2>1 DEF Balanced, At, Up
  <2>3. To(r, "close") \in WorkOf /\ To(r, "close").at = "close"
    BY <1>1, ToWork DEF Places
  <2>4. s \in {"DRAFT", "SENT", "PARTIALLY_PAID", "PAID", "CANCELLED"} /\ p \in Nat
    BY <1>3, <2>2
  <2> HIDE DEF p, s
  <2> QED BY <1>1, <1>5, <2>1, <2>2, <2>3, <2>4, Shows
<1>7. CASE ReversePayment(r)
  <2> DEFINE p == Max({0, work[r].paid - colls[c].amount})
             s == CASE p = 0 -> "SENT" [] p >= work[r].total /\ p > 0 -> "PAID" [] OTHER -> "PARTIALLY_PAID"
  <2>1. /\ invoices' = [invoices EXCEPT ![j].paid = p, ![j].status = s] /\ Done(r)
        /\ work[r].at = "unwrite"
    BY <1>7 DEF ReversePayment, GoesOn
  <2>2. p = Sum(colls, Counted(j))
    <3>1. work[r].paid = Sum(colls, Counted(j)) + colls[c].amount
      BY <1>2, <1>4, <2>1 DEF Balanced, At, Down
    <3>2. PICK x \in Nat : x = Sum(colls, Counted(j))
      BY <1>3
    <3>3. work[r].paid - colls[c].amount = x
      BY <1>3, <3>1, <3>2
    <3> QED BY <3>2, <3>3, NotBelowZero
  <2>3. p \in Nat
    BY <1>3, <2>2
  <2> HIDE DEF p
  <2>4. s \in {"DRAFT", "SENT", "PARTIALLY_PAID", "PAID", "CANCELLED"}
    OBVIOUS
  <2> HIDE DEF s
  <2> QED BY <1>1, <1>5, <2>1, <2>2, <2>3, <2>4, IdleWork, Shows DEF Done
<1> QED BY <1>6, <1>7

\* What became of an order is read, and the collection resolved.
LEMMA CompleteKeeps ==
  ASSUME Sound, NEW r \in Requests, Complete(r)
  PROVE  Sound'
<1> DEFINE c == work[r].coll
<1>1. /\ Types /\ Paper /\ NoReviews /\ work[r].at = "asking" /\ busy = Nobody
      /\ UNCHANGED <<links, invoices, orders, left>>
  BY DEF Sound, Types, Complete, Resumes, LoopFree
<1>2. Turn(r) /\ ~Booking(r)
  <2>1. Resumes(r, "asking")
    BY DEF Complete
  <2> QED BY <1>1, <2>1, Turns, NotBooking DEF Places
<1>3. NoReviews'
  BY <1>1 DEF NoReviews
<1>4. r \in Handlers /\ c \in 1..Len(colls) /\ Len(colls) \in Nat /\ Len(invoices) \in Nat
  BY <1>1, Lengths DEF Sound, Requested, Books
<1>5. colls[c] \in AttemptOf /\ colls \in Seq(AttemptOf)
  BY <1>1, <1>4, Lengths DEF Paper
<1>6. \A s \in Requests : ~Booking(s)
  BY <1>1, <1>2, OneBooks
<1>7. \A i \in 1..Len(invoices) : invoices[i].paid = Sum(colls, Counted(i))
  BY <1>6 DEF Sound, Balance, Balanced, At, Booking
<1>8. \/ Done(r) /\ colls' = colls
      \/ /\ colls[c].status = "processing" /\ colls' = [colls EXCEPT ![c].status = "successful"]
         /\ Keep(r, To(r, "settle"))
      \/ /\ colls[c].status = "successful" /\ colls' = [colls EXCEPT ![c].status = "reversed"]
         /\ Keep(r, To(r, "unsettle"))
      \/ /\ colls[c].status = "processing" /\ colls' = [colls EXCEPT ![c].status = "failed"] /\ Done(r)
  <2> DEFINE pays == Truth(c) = "paid" /\ colls[c].status = "processing"
             returns == Truth(c) = "returned" /\ colls[c].status = "successful"
             fails == Truth(c) = "returned" /\ colls[c].status = "processing"
  <2>1. IF ~AmountAgrees(c) \/ ~(pays \/ returns \/ fails) THEN Done(r) /\ UNCHANGED colls
        ELSE /\ colls' = [colls EXCEPT ![c].status = CASE pays    -> "successful"
                                                       [] returns -> "reversed"
                                                       [] fails   -> "failed"]
             /\ CASE pays    -> Keep(r, To(r, "settle"))
                  [] returns -> Keep(r, To(r, "unsettle"))
                  [] fails   -> Done(r)
    BY DEF Complete
  <2>2. CASE pays
    BY <2>1, <2>2
  <2>3. CASE returns
    BY <2>1, <2>3
  <2>4. CASE fails
    BY <2>1, <2>4
  <2> QED BY <2>1, <2>2, <2>3, <2>4
<1>9. CASE Done(r) /\ colls' = colls
  <2>1. Paper' /\ Frame /\ Calm
    BY <1>1, <1>9, SameTables
  <2> QED BY <1>2, <1>3, <1>9, <2>1, IdleWork, QuietMove DEF Done
<1>10. ASSUME NEW s \in {"failed"} \cup Settled, NEW q \in WorkOf, colls[c].status \in {"processing", "successful"},
              colls' = [colls EXCEPT ![c].status = s], Keep(r, q) \/ Await(r, q),
              q.at \in {"idle", "settle", "unsettle"},
              q.at # "idle" => Keep(r, q) /\ q.coll = c,
              q.at = "settle" <=> s = "successful", q.at = "unsettle" <=> s = "reversed",
              s \in {"successful", "failed"} => colls[c].status = "processing",
              s = "reversed" => colls[c].status = "successful"
       PROVE  Sound'
  <2>1. /\ colls' \in Seq(AttemptOf) /\ Len(colls') = Len(colls) /\ colls'[c].status = s
        /\ \A d \in 1..Len(colls) : d # c => colls'[d] = colls[d]
        /\ \A d \in 1..Len(colls) : /\ colls'[d].link = colls[d].link /\ colls'[d].invoice = colls[d].invoice
                                    /\ colls'[d].amount = colls[d].amount
    <3>1. \A y \in AttemptOf : LET x == [y EXCEPT !.status = s] IN
            /\ x \in AttemptOf /\ x.status = s /\ x.link = y.link /\ x.invoice = y.invoice /\ x.amount = y.amount
      BY DEF AttemptOf
    <3>2. PICK x \in AttemptOf : /\ colls' = [colls EXCEPT ![c] = x] /\ x.status = s /\ x.link = colls[c].link
                                 /\ x.invoice = colls[c].invoice /\ x.amount = colls[c].amount
      BY <1>5, <1>10, <3>1
    <3> QED BY <1>4, <1>5, <3>2
  <2>2. StepOf(r) /\ work'[r] = q /\ work' \in [Requests -> WorkOf]
    BY <1>1, <1>2, <1>10, Moved
  <2>3. Types'
    BY <1>1, <2>1, <2>2 DEF Types, Paper
  <2>4. Frame
    BY <1>1, <1>4, <1>10, <2>1, Lengths DEF Frame
  <2>5. Prepares(r)'
    BY <1>10, <2>2 DEF Prepares, Slow, Paying
  <2>6. Books(r)'
    <3>1. CASE q.at = "idle"
      BY <2>2, <3>1 DEF Books, Up, Down
    <3>2. CASE q.at # "idle"
      <4>1. busy' = r /\ work'[r].coll = c /\ colls'[c].status = s /\ c \in 1..Len(colls')
        BY <1>4, <1>10, <2>1, <2>2, <3>2 DEF Keep
      <4> QED BY <1>4, <1>10, <2>2, <3>2, <4>1 DEF Books, Up, Down
    <3> QED BY <3>1, <3>2
  <2>7. \A t \in Requests : Apart(r, t)' /\ Apart(t, r)'
    BY <1>10, <2>2 DEF Apart, Paying
  <2>8. Balance'
    <3> DEFINE k == colls[c].invoice
    <3> SUFFICES ASSUME NEW i \in 1..Len(invoices')
                 PROVE  LET sum == Sum(colls', Counted(i)') IN
                        /\ At(r, i, Up)' => invoices'[i].paid + colls'[work'[r].coll].amount = sum
                        /\ At(r, i, Down)' => invoices'[i].paid = sum + colls'[work'[r].coll].amount
                        /\ ~At(r, i, Up \cup Down)' => invoices'[i].paid = sum
      BY <1>6, <2>2, BalanceOfOne
    <3>0. /\ \A S \in SUBSET (1..Len(colls)) : Sum(colls', S) = Sum(colls, S)
          /\ Counted(i) \in SUBSET (1..Len(colls)) /\ Sum(colls, Counted(i)) \in Nat
          /\ Counted(i)' \in SUBSET (1..Len(colls))
          /\ invoices'[i].paid = Sum(colls, Counted(i))
      <4>1. \A S \in SUBSET (1..Len(colls)) : Sum(colls', S) = Sum(colls, S)
        BY <2>1, SumKept
      <4>2. Counted(i)' \in SUBSET (1..Len(colls))
        BY <2>1 DEF Counted
      <4>3. invoices'[i].paid = Sum(colls, Counted(i))
        BY <1>1, <1>7
      <4> QED BY <1>1, <4>1, <4>2, <4>3, CountedIn
    <3>1. CASE i # k
      <4>1. Counted(i)' = Counted(i)
        BY <2>1, <3>1 DEF Counted
      <4>2. ~At(r, i, Up)' /\ ~At(r, i, Down)'
        BY <1>4, <1>10, <2>1, <2>2, <3>1 DEF At, Up, Down
      <4> QED BY <3>0, <4>1, <4>2
    <3>2. CASE i = k /\ s = "failed"
      <4>1. Counted(i)' = Counted(i)
        BY <1>10, <2>1, <3>2 DEF Counted
      <4>2. ~At(r, i, Up)' /\ ~At(r, i, Down)'
        BY <1>10, <2>2, <3>2 DEF At, Up, Down
      <4> QED BY <3>0, <4>1, <4>2
    <3>3. CASE i = k /\ s = "successful"
      <4>1. c \notin Counted(i) /\ Counted(i)' = Counted(i) \cup {c}
        BY <1>4, <1>10, <2>1, <3>3 DEF Counted
      <4>2. Sum(colls, Counted(i) \cup {c}) = Sum(colls, Counted(i)) + colls[c].amount
        BY <1>4, <1>5, <3>0, <4>1, SumAdds
      <4>3. At(r, i, Up)' /\ ~At(r, i, Down)' /\ At(r, i, Up \cup Down)' /\ work'[r].coll = c
        BY <1>4, <1>10, <2>1, <2>2, <3>3 DEF At, Up, Down
      <4> QED BY <1>4, <2>1, <3>0, <4>1, <4>2, <4>3
    <3>4. CASE i = k /\ s = "reversed"
      <4>1. c \in Counted(i) /\ c \notin Counted(i)' /\ Counted(i) = Counted(i)' \cup {c}
        BY <1>4, <1>10, <2>1, <3>4 DEF Counted
      <4>2. Sum(colls, Counted(i)' \cup {c}) = Sum(colls, Counted(i)') + colls[c].amount
        BY <1>4, <1>5, <3>0, <4>1, SumAdds
      <4>3. ~At(r, i, Up)' /\ At(r, i, Down)' /\ At(r, i, Up \cup Down)' /\ work'[r].coll = c
        BY <1>4, <1>10, <2>1, <2>2, <3>4 DEF At, Up, Down
      <4> QED BY <1>4, <2>1, <3>0, <4>1, <4>2, <4>3
    <3> QED BY <1>10, <3>1, <3>2, <3>3, <3>4 DEF Settled
  <2> QED BY <1>3, <1>6, <2>2, <2>3, <2>4, <2>5, <2>6, <2>7, <2>8, BookStep DEF Fine
<1>11. \A p \in {"settle", "unsettle"} : To(r, p) \in WorkOf /\ To(r, p).at = p /\ To(r, p).coll = c
  BY <1>1, ToWork DEF Places, Up, Down
<1>12. CASE colls[c].status = "processing" /\ colls' = [colls EXCEPT ![c].status = "successful"] /\ Keep(r, To(r, "settle"))
  BY <1>10, <1>11, <1>12 DEF Settled
<1>13. CASE colls[c].status = "successful" /\ colls' = [colls EXCEPT ![c].status = "reversed"] /\ Keep(r, To(r, "unsettle"))
  BY <1>10, <1>11, <1>13 DEF Settled
<1>14. CASE colls[c].status = "processing" /\ colls' = [colls EXCEPT ![c].status = "failed"] /\ Done(r)
  <2>1. PICK q \in WorkOf : Await(r, q) /\ q.at = "idle"
    BY <1>14, IdleWork DEF Done
  <2> QED BY <1>10, <1>14, <2>1 DEF Settled
<1> QED BY <1>8, <1>9, <1>12, <1>13, <1>14
-----------------------------------------------------------------------------
LEMMA OrderChanged ==
  ASSUME Paper, NEW o, NEW s \in {"created", "failed", "completed"}, NEW t \in {"unpaid", "paid", "returned"}
  PROVE  [orders EXCEPT ![o].status = s] \in Seq(OrderOf) /\ [orders EXCEPT ![o].truth = t] \in Seq(OrderOf)
<1>1. orders \in Seq(OrderOf) /\ DOMAIN orders = 1..Len(orders)
  BY DEF Paper
<1>2. CASE o \in 1..Len(orders)
  <2>1. \A x \in OrderOf : [x EXCEPT !.status = s] \in OrderOf /\ [x EXCEPT !.truth = t] \in OrderOf
    BY DEF OrderOf
  <2>2. orders[o] \in OrderOf
    BY <1>1, <1>2
  <2>3. [orders[o] EXCEPT !.status = s] \in OrderOf /\ [orders[o] EXCEPT !.truth = t] \in OrderOf
    BY <2>1, <2>2
  <2>4. \A x \in OrderOf : [orders EXCEPT ![o] = x] \in Seq(OrderOf)
    BY <1>1, <1>2
  <2> QED BY <2>3, <2>4
<1>3. CASE o \notin 1..Len(orders)
  <2>1. \A f : [orders EXCEPT ![o] = f] = orders
    BY <1>1, <1>3
  <2> QED BY <1>1, <2>1
<1> QED BY <1>2, <1>3

LEMMA CloseOrderKeeps ==
  ASSUME Sound, NEW r \in Requests, CloseOrder(r)
  PROVE  Sound'
<1>1. Types /\ Paper /\ NoReviews /\ work[r].at = "close" /\ Done(r) /\ UNCHANGED <<links, invoices, colls, left>>
  BY DEF Sound, Types, CloseOrder, GoesOn
<1>2. orders' \in Seq(OrderOf)
  BY <1>1, OrderChanged DEF CloseOrder, Paper
<1>3. Paper' /\ Frame /\ Calm /\ NoReviews'
  BY <1>1, <1>2, SameBooks, Lengths DEF Paper, NoReviews
<1>4. Turn(r) /\ ~Booking(r)
  <2>1. GoesOn(r, "close")
    BY DEF CloseOrder
  <2> QED BY <1>1, <2>1, Turns, NotBooking DEF Quiet, Places
<1> QED BY <1>1, <1>3, <1>4, IdleWork, QuietMove DEF Done

\* What nobody here does: a link grows old, a customer pays, Selcom gives back.
LEMMA OutsideKeeps ==
  ASSUME Sound,
         \/ \E l \in DOMAIN links : PassExpiry(l)
         \/ \E o \in DOMAIN orders : CustomerPays(o) \/ GiveBack(o)
  PROVE  Sound'
<1>1. Types /\ Paper /\ NoReviews
  BY DEF Sound, Types
<1>2. UNCHANGED <<invoices, colls, work, busy>>
  BY DEF PassExpiry, CustomerPays, GiveBack
<1>3. NoReviews'
  BY <1>1, Spent DEF PassExpiry, CustomerPays, GiveBack, NoReviews, Counters
<1>4. links' \in Seq(LinkOf) /\ Len(links') = Len(links)
  BY <1>1, LinkChanged DEF PassExpiry, CustomerPays, GiveBack, Paper
<1>5. orders' \in Seq(OrderOf)
  <2>1. \A o : [orders EXCEPT ![o].truth = "paid"] \in Seq(OrderOf)
    BY <1>1, OrderChanged
  <2>2. \A o : [orders EXCEPT ![o].truth = "returned"] \in Seq(OrderOf)
    BY <1>1, OrderChanged
  <2>3. \/ orders' = orders \/ \E o : orders' = [orders EXCEPT ![o].truth = "paid"]
        \/ \E o : orders' = [orders EXCEPT ![o].truth = "returned"]
    BY DEF PassExpiry, CustomerPays, GiveBack
  <2> QED BY <1>1, <2>1, <2>2, <2>3 DEF Paper
<1>6. Paper' /\ Frame /\ Calm
  BY <1>1, <1>2, <1>4, <1>5, SameBooks, Lengths
<1> QED BY <1>1, <1>2, <1>3, <1>6, StillStep DEF Types

LEMMA StatementKeeps ==
  ASSUME Sound, NEW r \in Requests, Statement(r)
  PROVE  Sound'
<1>1. ~Clear(r)
  BY DEF Clear, GoesOn, Sound, Requested, Books
<1> QED BY <1>1, StatementsKeep, InsertKeeps, AttachKeeps, SettleLinkKeeps, ReadBookedKeeps,
           ApplyPaymentKeeps, CloseOrderKeeps DEF Statement

LEMMA NextKeeps ==
  ASSUME Sound, CommerceNext
  PROVE  Sound'
<1>1. ASSUME NEW r \in Requests, Answered(r) PROVE Sound'
  BY <1>1, OrderAnswerKeeps, PushAnswerKeeps, CompleteKeeps DEF Answered
<1> QED BY <1>1, LinkRequestKeeps, InvoiceRequestKeeps, PayRequestKeeps, StatementKeeps, AskKeeps,
           OutsideKeeps DEF CommerceNext

LEMMA IdleKeeps ==
  ASSUME Sound, UNCHANGED commerceVars
  PROVE  Sound'
<1>1. Types /\ NoReviews
  BY DEF Sound
<1>2. Paper' /\ Frame /\ Calm
  BY <1>1, SameTables DEF commerceVars, tables
<1> QED BY <1>1, <1>2, StillStep DEF Types, NoReviews, commerceVars
-----------------------------------------------------------------------------
LEMMA Opens ==
  ASSUME CommerceInit, \A s \in Starts : "reviews" \in DOMAIN s /\ s["reviews"] = 0
  PROVE  Sound
<1>1. Types
  <2>1. links \in Seq(LinkOf)
    <3>1. NewLink(1) \in LinkOf
      BY DEF NewLink, LinkOf
    <3> QED BY <3>1 DEF CommerceInit
  <2>2. invoices \in Seq(InvoiceRow)
    <3>1. Owed \in InvoiceRow
      BY CommerceAssumption DEF Owed, InvoiceRow
    <3> QED BY <3>1 DEF CommerceInit
  <2>3. colls \in Seq(AttemptOf)
    <3>1. HeldFor(1) \in AttemptOf
      BY DEF HeldFor, AttemptOf, Methods, Pushed
    <3> QED BY <3>1 DEF CommerceInit
  <2>4. orders \in Seq(OrderOf)
    BY DEF CommerceInit
  <2>5. work \in [Requests -> WorkOf]
    BY IdleWork DEF CommerceInit
  <2> QED BY <2>1, <2>2, <2>3, <2>4, <2>5 DEF Types, Paper
<1>2. NoReviews
  BY DEF CommerceInit, NoReviews
<1>3. \A r \in Requests : work[r].at = "idle"
  BY IdleWork DEF CommerceInit
<1>4. Requested
  BY <1>3 DEF Requested, Prepares, Books, Up, Down, Paying, Slow
<1>5. Separate
  BY <1>3 DEF Separate, Apart
<1>6. /\ \A c \in 1..Len(colls) : colls[c] = HeldFor(1)
      /\ \A i \in 1..Len(invoices) : invoices[i] = Owed
      /\ Len(links) \in Nat /\ Len(invoices) \in Nat
  BY DEF CommerceInit
<1>7. Rows
  BY <1>6 DEF Rows, Placed, Linking, Unbilled, HeldFor, Owed
<1>8. Balance
  <2>1. \A i : Counted(i) = {}
    BY <1>6 DEF Counted, HeldFor
  <2>2. \A i : Sum(colls, Counted(i)) = 0
    BY <2>1, NothingSums
  <2>3. \A r \in Requests, i \in 1..Len(invoices) : ~At(r, i, Up) /\ ~At(r, i, Down)
    BY <1>3 DEF At, Up, Down
  <2> QED BY <1>6, <2>2, <2>3 DEF Balance, Balanced, Owed
<1> QED BY <1>1, <1>2, <1>4, <1>5, <1>7, <1>8 DEF Sound

LEMMA BooksAgree ==
  ASSUME Sound
  PROVE  InvoiceBooksPayments
<1>1. Types /\ Paper
  BY DEF Sound, Types
<1> SUFFICES ASSUME NEW i \in DOMAIN invoices, ~Settling(i)
             PROVE  invoices[i].paid = Cardinality(Shillings(PaymentsOf(i)))
  BY DEF InvoiceBooksPayments
<1>2. i \in 1..Len(invoices) /\ DOMAIN colls = 1..Len(colls)
  BY <1>1 DEF Paper
<1>3. PaymentsOf(i) = Counted(i)
  BY <1>2, BookedToRow DEF PaymentsOf, Counted
<1>4. Shillings(PaymentsOf(i)) = Worth(colls, Counted(i))
  BY <1>3 DEF Shillings, Worth
<1>5. \A r \in Requests : ~At(r, i, Up \cup Down)
  <2> SUFFICES ASSUME NEW r \in Requests, At(r, i, Up \cup Down) PROVE Settling(i)
    OBVIOUS
  <2>1. Booking(r) /\ colls[work[r].coll].invoice = i
    BY DEF At, Booking
  <2>2. BookedTo(work[r].coll) = i
    BY <2>1, BookingOf, BookedToRow
  <2> QED BY <2>1, <2>2 DEF Settling, Booking, Up, Down
<1> QED BY <1>2, <1>4, <1>5 DEF Sound, Balance, Balanced, Sum

\* No administrator clears a held collection while the rest goes on.
NothingCleared == \A s \in Starts : "reviews" \in DOMAIN s /\ s["reviews"] = 0

\* An invoice counts its payments: whenever none is being booked, what
\* _apply_payment_to_invoice and its reversal left in amount_paid is the sum of the
\* invoice's successful collections, however requests, payments, returns and edits
\* interleave.
THEOREM InvoiceCounts ==
  ASSUME NothingCleared
  PROVE  CommerceSpec => []InvoiceBooksPayments
<1>1. CommerceInit => Sound
  BY Opens DEF NothingCleared
<1>2. Sound /\ [CommerceNext]_commerceVars => Sound'
  BY NextKeeps, IdleKeeps
<1>3. Sound => InvoiceBooksPayments
  BY BooksAgree
<1> QED BY <1>1, <1>2, <1>3, PTL DEF CommerceSpec
=============================================================================
