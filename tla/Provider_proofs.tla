---------------------------- MODULE Provider_proofs ----------------------------
(***************************************************************************)
(* Theorems about Provider for every number of calls of every kind, every  *)
(* rate, every number of permits and every answer of Selcom.               *)
(*                                                                         *)
(* The invariant says what a call may still count on while it is under     *)
(* way: until its last answer it was told nothing, and only the older      *)
(* client's push can have been acted on.  A call does not leave its place  *)
(* because of another call, except that a returned permit moves the first  *)
(* of the queue; so the invariant also says that exactly the calls at      *)
(* "permit" can be in the queue, each once.                                *)
(*                                                                         *)
(* The throttle remembers the slots it granted in the window, in order,    *)
(* after slots that are over; so the window of its memory is the window    *)
(* of the grants.                                                          *)
(***************************************************************************)
EXTENDS Provider, TLAPS, WellFoundedInduction

\* A call; what it sleeps is of no interest.
CallOf(W) == [at : Places, tries : Int, wake : W, effects : Nat, told : Outcomes]
GuardOf == [free : Int, queue : Seq(Calls), failures : Int, opened : Int]

Shape ==
  /\ kind \in Mixes
  /\ \E W : call \in [Calls -> CallOf(W)]
  /\ guard \in GuardOf

\* Each call that waits for a permit does so once.
QueueOK ==
  /\ \A i \in 1..Len(guard.queue) : At(guard.queue[i], "permit")
  /\ \A i, j \in 1..Len(guard.queue) : guard.queue[i] = guard.queue[j] => i = j

\* What a call of kind k may be.
CallOK(k, r) ==
  /\ r.at # "ended" => r.told = "none"
  /\ ~k.pulls => r.effects = 0
  /\ k.name # "push" => r.effects <= 1
  /\ k.name # "push" /\ r.at # "ended" => r.effects = 0
  /\ r.told = "failed" => r.effects = 0

CallsOK == \A c \in Calls : CallOK(kind[c], call[c])

IInv == Shape /\ QueueOK /\ CallsOK
-----------------------------------------------------------------------------
(***************************************************************************)
(* The policies and the answers.                                           *)
(***************************************************************************)
\* Of the calls that move money only the older client's push is sent again.
LEMMA Pulling ==
  ASSUME NEW k \in Kinds, k.pulls, k.name # "push"
  PROVE  k.again = {}
  BY DEF Kinds, CreateOrderMinimal, GetOrderStatus, ProcessWalletPayment, SelcomPesaPayment,
         LegacyPush, LegacyStatus, ResolveRecipientName, ProcessTransaction, QueryTransaction,
         Policy, Gateway, Lost
LEMMA PullingKind ==
  ASSUME NEW k \in Kinds, k.pulls
  PROVE  ~k.swallows /\ k.name \in {"wallet", "pesa", "push", "payout"}
  BY DEF Kinds, CreateOrderMinimal, GetOrderStatus, ProcessWalletPayment, SelcomPesaPayment,
         LegacyPush, LegacyStatus, ResolveRecipientName, ProcessTransaction, QueryTransaction,
         Policy, Gateway, Lost

\* Whatever the body, one of the outcomes is read from it.
LEMMA ToldType ==
  ASSUME NEW k \in Kinds, NEW a \in Bodies \cup Faults
  PROVE  Told(k, a) \in Outcomes
<1>1. WalletStatus(a) \in Outcomes
  BY DEF WalletStatus, Outcomes
<1>2. PayoutStatus(a) \in Outcomes
  BY <1>1 DEF PayoutStatus, Outcomes
<1>3. LegacyTold(a) \in Outcomes
  BY DEF LegacyTold, Outcomes
<1>4. {"answer", "error", "processing"} \subseteq Outcomes
  BY DEF Outcomes
<1> QED BY <1>1, <1>2, <1>3, <1>4 DEF Told, Read

\* A payment call that reads "failed" read it from a body on which Selcom did not act.
LEMMA ToldFailed ==
  ASSUME NEW k \in Kinds, k.pulls, NEW a \in Bodies \cup Faults, Told(k, a) = "failed",
         NEW acted \in Acted(a)
  PROVE  ~acted /\ k.name # "push"
<1>1. ~k.swallows /\ k.name \in {"wallet", "pesa", "push", "payout"}
  BY PullingKind
<1>2. a \notin Faults
  BY <1>1 DEF Told
<1>3. a \in Bodies
  BY <1>2
<1>4. a.code = "other"
  BY <1>1, <1>2, <1>3 DEF Told, Read, WalletStatus, PayoutStatus, Bodies
<1>5. k.name # "push"
  BY <1>1, <1>2 DEF Told, Read
<1> QED BY <1>4, <1>5 DEF Acted
-----------------------------------------------------------------------------
(***************************************************************************)
(* The guard.                                                              *)
(***************************************************************************)
\* What the breaker does leaves the queue alone.
LEMMA BreakerStep ==
  ASSUME NEW g \in GuardOf
  PROVE  CooledDown(g) \in GuardOf /\ CooledDown(g).queue = g.queue
<1>1. CASE g.opened >= Cooldown
  <2> DEFINE o == Closed  n == 0
  <2>1. o \in Int /\ n \in Int
    BY DEF Closed
  <2>2. CooledDown(g) = [g EXCEPT !.failures = n, !.opened = o]
    BY <1>1 DEF CooledDown
  <2> HIDE DEF n, o
  <2> QED BY <2>1, <2>2 DEF GuardOf
<1>2. CASE ~(g.opened >= Cooldown)
  BY <1>2 DEF CooledDown
<1> QED BY <1>1, <1>2

LEMMA RecordStep ==
  ASSUME NEW g \in GuardOf, NEW failed \in BOOLEAN
  PROVE  Recorded(failed, g) \in GuardOf /\ Recorded(failed, g).queue = g.queue
<1>1. CASE ~failed
  <2>1. Recorded(failed, g) = [g EXCEPT !.failures = 0]
    BY <1>1 DEF Recorded
  <2> QED BY <2>1 DEF GuardOf
<1>2. CASE failed
  <2> DEFINE n == Least(g.failures + 1, Threshold)
             o == IF g.failures + 1 >= Threshold /\ g.opened = Closed THEN 0 ELSE g.opened
  <2>1. n \in Int /\ o \in Int
    BY ConstantsAssumption DEF Least, GuardOf
  <2>2. Recorded(failed, g) = [g EXCEPT !.failures = n, !.opened = o]
    BY <1>2, Zenon DEF Recorded
  <2> HIDE DEF n, o
  <2> QED BY <2>1, <2>2 DEF GuardOf
<1> QED BY <1>1, <1>2

\* Who asks for a permit has it at once or is the last of the queue.
LEMMA AcquireStep ==
  ASSUME NEW g \in GuardOf, NEW c \in Calls
  PROVE  /\ Acquired(c, g) \in GuardOf
         /\ Permit(c, g) => Acquired(c, g).queue = g.queue
         /\ ~Permit(c, g) => Acquired(c, g).queue = Append(g.queue, c)
<1>1. CASE Permit(c, g)
  <2>1. Acquired(c, g) = [g EXCEPT !.free = g.free - 1]
    BY <1>1 DEF Acquired
  <2> QED BY <1>1, <2>1 DEF GuardOf
<1>2. CASE ~Permit(c, g)
  <2>1. Acquired(c, g) = [g EXCEPT !.queue = Append(g.queue, c)]
    BY <1>2 DEF Acquired
  <2>2. Append(g.queue, c) \in Seq(Calls)
    BY DEF GuardOf
  <2>3. Acquired(c, g) \in GuardOf
    BY <2>1, <2>2 DEF GuardOf
  <2>4. Acquired(c, g).queue = Append(g.queue, c)
    BY <2>1 DEF GuardOf
  <2> QED BY <1>2, <2>3, <2>4
<1> QED BY <1>1, <1>2

LEMMA ReleaseStep ==
  ASSUME NEW g \in GuardOf
  PROVE  /\ Released(g) \in GuardOf
         /\ g.queue = <<>> => Released(g).queue = g.queue
         /\ g.queue # <<>> => Released(g).queue = Tail(g.queue)
<1>1. CASE g.queue = <<>>
  BY <1>1 DEF GuardOf, Released
<1>2. CASE g.queue # <<>>
  <2>1. Tail(g.queue) \in Seq(Calls)
    BY <1>2 DEF GuardOf
  <2> QED BY <1>2, <2>1 DEF GuardOf, Released
<1> QED BY <1>1, <1>2
-----------------------------------------------------------------------------
(***************************************************************************)
(* The steps of a call.                                                    *)
(***************************************************************************)
\* A call that goes on without an answer is told nothing.
LEMMA CallMoves ==
  ASSUME NEW W, call \in [Calls -> CallOf(W)], CallsOK, UNCHANGED kind,
         NEW c \in Calls, ~At(c, "ended"), NEW a \in Places \ {"ended"}, NEW w, NEW n \in Int,
         call' = [call EXCEPT ![c].at = a, ![c].wake = w, ![c].tries = n]
  PROVE  /\ call' \in [Calls -> CallOf(W \cup {w})]
         /\ call'[c].at = a /\ \A d \in Calls \ {c} : call'[d] = call[d]
         /\ CallsOK'
<1>1. a \in Places /\ w \in W \cup {w}
  OBVIOUS
<1>2. call \in [Calls -> CallOf(W \cup {w})]
  BY DEF CallOf
<1>3. call' \in [Calls -> CallOf(W \cup {w})]
  BY <1>1, <1>2 DEF CallOf
<1>4. /\ call'[c].at = a /\ call'[c].told = call[c].told /\ call'[c].effects = call[c].effects
      /\ \A d \in Calls \ {c} : call'[d] = call[d]
  BY <1>2 DEF CallOf
<1>5. CallsOK'
  BY <1>4 DEF CallsOK, CallOK, At
<1> QED BY <1>3, <1>4, <1>5

\* Whoever joins the queue is its last; the others keep their places.
LEMMA JoinQueue ==
  ASSUME NEW q \in Seq(Calls), NEW c \in Calls, ~At(c, "permit"),
         \A i \in 1..Len(q) : At(q[i], "permit"),
         \A i, j \in 1..Len(q) : q[i] = q[j] => i = j
  PROVE  /\ \A i \in 1..Len(Append(q, c)) : i # Len(q) + 1 => i \in 1..Len(q)
                                            /\ Append(q, c)[i] = q[i]
         /\ Append(q, c)[Len(q) + 1] = c
         /\ \A i, j \in 1..Len(Append(q, c)) : Append(q, c)[i] = Append(q, c)[j] => i = j
<1>1. /\ Len(Append(q, c)) = Len(q) + 1 /\ Len(q) \in Nat
      /\ \A i \in 1..Len(q) : Append(q, c)[i] = q[i]
      /\ Append(q, c)[Len(q) + 1] = c
  OBVIOUS
<1>2. \A i \in 1..Len(q) + 1 : i # Len(q) + 1 => i \in 1..Len(q)
  BY <1>1
<1>3. \A i \in 1..Len(q) : q[i] # c
  OBVIOUS
<1> QED BY <1>1, <1>2, <1>3

LEMMA AskSlotStep ==
  ASSUME NEW W, call \in [Calls -> CallOf(W)], QueueOK, CallsOK, UNCHANGED kind,
         NEW g \in GuardOf, g.queue = guard.queue,
         NEW c \in Calls, ~At(c, "ended"), ~At(c, "permit"), AskSlot(c, g)
  PROVE  (\E V : call' \in [Calls -> CallOf(V)]) /\ guard' \in GuardOf /\ QueueOK' /\ CallsOK'
<1> DEFINE slots == Fresh(recent)
           granting == Len(slots) < PerMinute
           a == IF ~granting THEN "slot" ELSE IF Permit(c, g) THEN "out" ELSE "permit"
           w == IF granting THEN 0 ELSE Least(Window - Head(slots), Poll)
           n == IF At(c, "slot") THEN call[c].tries ELSE call[c].tries + 1
<1>1. call' = [call EXCEPT ![c].at = a, ![c].wake = w, ![c].tries = n]
  BY DEF AskSlot
<1>2. guard' = IF granting THEN Acquired(c, g) ELSE g
  BY DEF AskSlot
<1>3. a \in Places \ {"ended"} /\ (a = "permit" <=> granting /\ ~Permit(c, g))
  BY DEF Places
<1>4. n \in Int
  BY DEF CallOf
<1> HIDE DEF a, w, n, granting
<1>5. /\ call' \in [Calls -> CallOf(W \cup {w})]
      /\ call'[c].at = a /\ \A d \in Calls \ {c} : call'[d] = call[d]
      /\ CallsOK'
  BY <1>1, <1>3, <1>4, CallMoves
<1>6. guard' \in GuardOf
  BY <1>2, AcquireStep
<1>7. QueueOK'
  <2>1. g.queue \in Seq(Calls)
    BY DEF GuardOf
  <2>2. CASE granting /\ ~Permit(c, g)
    <3> DEFINE q == guard.queue
    <3>1. guard'.queue = Append(q, c)
      BY <1>2, <2>2, AcquireStep
    <3>2. /\ \A i \in 1..Len(Append(q, c)) : i # Len(q) + 1 => i \in 1..Len(q)
                                            /\ Append(q, c)[i] = q[i]
          /\ Append(q, c)[Len(q) + 1] = c
          /\ \A i, j \in 1..Len(Append(q, c)) : Append(q, c)[i] = Append(q, c)[j] => i = j
      BY <2>1, JoinQueue DEF QueueOK
    <3>3. \A i \in 1..Len(q) : q[i] \in Calls \ {c} /\ call[q[i]].at = "permit"
      BY <2>1 DEF QueueOK, At
    <3>4. call'[c].at = "permit"
      BY <1>3, <1>5, <2>2
    <3> HIDE DEF q
    <3> QED BY <1>5, <3>1, <3>2, <3>3, <3>4 DEF QueueOK, At
  <2>3. CASE ~(granting /\ ~Permit(c, g))
    <3>1. guard'.queue = guard.queue
      BY <1>2, <2>3, AcquireStep
    <3>2. \A i \in 1..Len(guard.queue) : guard.queue[i] \in Calls \ {c}
      BY <2>1 DEF QueueOK
    <3> QED BY <1>5, <3>1, <3>2 DEF QueueOK, At
  <2> QED BY <2>2, <2>3
<1> QED BY <1>5, <1>6, <1>7

\* The last answer decides what a call is told; after any other it is tried again.
LEMMA AnswerStep ==
  ASSUME IInv, kind \in [Calls -> Kinds], NEW c \in Calls, Answer(c)
  PROVE  IInv'
<1> DEFINE k == kind[c]  r == call[c]
<1> DEFINE Leaves(a, acted) ==
        IF ~k.guarded
        THEN call' = Answered(c, a, acted) /\ UNCHANGED guard
        ELSE /\ guard' = Recorded(Raises(k, a), Released(guard))
             /\ call' = IF guard'.queue = guard.queue THEN Answered(c, a, acted)
                        ELSE [Answered(c, a, acted) EXCEPT ![Head(guard.queue)].at = "out"]
<1>1. PICK a \in Bodies \cup Faults : \E acted \in Acted(a) : Leaves(a, acted)
  BY DEF Answer
<1>2. PICK acted \in Acted(a) : Leaves(a, acted)
  BY <1>1
<1>3. PICK W : call \in [Calls -> CallOf(W)]
  BY DEF IInv, Shape
<1> DEFINE again == Again(c, a)
           p == IF again THEN "pause" ELSE "ended"
           w == IF again THEN 1 ELSE 0
           t == IF again THEN r.told ELSE Told(k, a)
           e == IF acted /\ k.pulls THEN r.effects + 1 ELSE r.effects
           x == [r EXCEPT !.at = p, !.wake = w, !.told = t, !.effects = e]
           V == W \cup {w}
           f == [call EXCEPT ![c] = x]
<1>4. Answered(c, a, acted) = [call EXCEPT ![c].at = p, ![c].wake = w, ![c].told = t, ![c].effects = e]
  BY DEF Answered
<1>5. again \in BOOLEAN /\ (again => k.again # {})
  BY DEF Again
<1>6. UNCHANGED kind /\ At(c, "out")
  BY DEF Answer
<1> HIDE DEF again, w, t, e
<1>7. x \in CallOf(V) /\ CallOK(k, x) /\ x.at = p
  <2>1. k \in Kinds /\ r \in CallOf(W) /\ r.at = "out" /\ CallOK(k, r)
    BY <1>3, <1>6 DEF IInv, CallsOK, At
  <2>2. r.told = "none" /\ r.told \in Outcomes
    BY <2>1 DEF CallOK, CallOf
  <2>3. p \in {"pause", "ended"} /\ (p = "pause" => again)
    OBVIOUS
  <2>4. t = IF again THEN r.told ELSE Told(k, a)
    BY DEF t
  <2>5. t \in Outcomes /\ (p = "pause" => t = "none")
    BY <2>1, <2>2, <2>3, <2>4, ToldType
  <2>6. p = "pause" => (k.name # "push" => ~k.pulls)
    BY <1>5, <2>1, <2>3, Pulling
  <2>7. e \in {r.effects, r.effects + 1} /\ (~(acted /\ k.pulls) => e = r.effects)
    BY DEF e
  <2>8. t = "failed" /\ k.pulls => ~acted /\ k.name # "push"
    <3>1. t = "failed" => Told(k, a) = "failed"
      BY <2>2, <2>4
    <3> QED BY <2>1, <3>1, ToldFailed
  <2>9. x = [r EXCEPT !.at = p, !.wake = w, !.told = t, !.effects = e]
    OBVIOUS
  <2>10. (~k.pulls => e = r.effects) /\ (t = "failed" => e = r.effects /\ (k.name # "push" \/ ~k.pulls))
    BY <2>7, <2>8
  <2> HIDE DEF k, r, p, x
  <2>11. r \in CallOf(V) /\ w \in V /\ p \in Places
    BY <2>1, <2>3 DEF CallOf, Places
  <2>12. r.effects \in Nat
    BY <2>1 DEF CallOf
  <2>13. e \in Nat
    BY <2>7, <2>12
  <2> HIDE DEF V
  <2>14. x \in CallOf(V)
    BY <2>5, <2>9, <2>11, <2>13 DEF CallOf
  <2>15. x.at = p /\ x.told = t /\ x.effects = e
    BY <2>9, <2>11 DEF CallOf
  <2>16. CallOK(k, x)
    BY <2>1, <2>3, <2>5, <2>6, <2>7, <2>10, <2>12, <2>15 DEF CallOK
  <2> QED BY <2>14, <2>15, <2>16
<1>8. p \notin {"permit", "out"}
  OBVIOUS
<1> HIDE DEF p
<1>9. Answered(c, a, acted) = f
  BY <1>3, <1>4 DEF CallOf
<1> HIDE DEF k, r, x
<1>10. f \in [Calls -> CallOf(V)]
  <2>1. CallOf(W) \subseteq CallOf(V)
    BY DEF CallOf
  <2> QED BY <1>3, <1>7, <2>1
<1>11. f[c] = x /\ \A d \in Calls \ {c} : f[d] = call[d]
  BY <1>3
<1>12. \A d \in Calls : CallOK(kind[d], f[d])
  BY <1>7, <1>11 DEF IInv, CallsOK, k
<1> DEFINE q == guard.queue
<1>13. guard \in GuardOf /\ q \in Seq(Calls)
  BY DEF IInv, Shape, GuardOf
<1>14. \A i \in 1..Len(q) : q[i] \in Calls \ {c} /\ f[q[i]].at = "permit"
  BY <1>6, <1>11, <1>13 DEF IInv, QueueOK, At
<1>15. \A i, j \in 1..Len(q) : q[i] = q[j] => i = j
  BY DEF IInv, QueueOK
<1> HIDE DEF f, q
<1>16. CASE call' = f /\ guard' \in GuardOf /\ guard'.queue = q
  <2>1. Shape'
    BY <1>6, <1>10, <1>16 DEF IInv, Shape
  <2>2. QueueOK'
    BY <1>14, <1>15, <1>16 DEF QueueOK, At
  <2>3. CallsOK'
    BY <1>6, <1>12, <1>16 DEF CallsOK
  <2> QED BY <2>1, <2>2, <2>3 DEF IInv
<1>17. CASE /\ q # <<>> /\ guard' \in GuardOf /\ guard'.queue = Tail(q)
            /\ call' = [f EXCEPT ![Head(q)].at = "out"]
  <2> DEFINE h == q[1]
  <2>1. /\ 1 \in 1..Len(q) /\ h = Head(q) /\ h \in Calls \ {c} /\ f[h].at = "permit"
        /\ Len(Tail(q)) = Len(q) - 1 /\ Len(q) \in Nat
        /\ \A i \in 1..Len(Tail(q)) : Tail(q)[i] = q[i + 1] /\ i + 1 \in 1..Len(q)
    BY <1>13, <1>14, <1>17
  <2> HIDE DEF h
  <2>2. call' \in [Calls -> CallOf(V)]
    BY <1>10, <1>17, <2>1 DEF CallOf, Places
  <2>3. /\ call'[h].at = "out" /\ call'[h].told = f[h].told /\ call'[h].effects = f[h].effects
        /\ \A d \in Calls \ {h} : call'[d] = f[d]
    BY <1>10, <1>17, <2>1 DEF CallOf
  <2>4. \A i \in 1..Len(Tail(q)) : Tail(q)[i] \in Calls \ {h} /\ call'[Tail(q)[i]].at = "permit"
    <3> SUFFICES ASSUME NEW i \in 1..Len(Tail(q)) PROVE Tail(q)[i] \in Calls \ {h} /\ call'[Tail(q)[i]].at = "permit"
      OBVIOUS
    <3>1. Tail(q)[i] = q[i + 1] /\ i + 1 \in 1..Len(q) /\ i + 1 # 1
      BY <2>1
    <3>2. q[i + 1] # h
      BY <1>15, <2>1, <3>1 DEF h
    <3> QED BY <1>14, <2>3, <3>1, <3>2
  <2>5. \A i, j \in 1..Len(Tail(q)) : Tail(q)[i] = Tail(q)[j] => i = j
    <3> SUFFICES ASSUME NEW i \in 1..Len(Tail(q)), NEW j \in 1..Len(Tail(q)), Tail(q)[i] = Tail(q)[j]
                 PROVE  i = j
      OBVIOUS
    <3>1. q[i + 1] = q[j + 1] /\ i + 1 \in 1..Len(q) /\ j + 1 \in 1..Len(q)
      BY <2>1
    <3>2. i + 1 = j + 1
      BY <1>15, <3>1
    <3> QED BY <3>2
  <2>6. Shape'
    BY <1>6, <1>17, <2>2 DEF IInv, Shape
  <2>7. QueueOK'
    BY <1>17, <2>4, <2>5 DEF QueueOK, At
  <2>8. CallsOK'
    BY <1>6, <1>12, <2>1, <2>3 DEF CallsOK, CallOK
  <2> QED BY <2>6, <2>7, <2>8 DEF IInv
<1>18. CASE ~k.guarded
  BY <1>2, <1>9, <1>13, <1>16, <1>18 DEF k, q
<1>19. CASE k.guarded
  <2>1. Raises(k, a) \in BOOLEAN
    BY DEF Raises
  <2>2. Released(guard) \in GuardOf
    BY <1>13, ReleaseStep
  <2>3. guard' = Recorded(Raises(k, a), Released(guard))
    BY <1>2, <1>19 DEF k
  <2>4. guard' \in GuardOf /\ guard'.queue = Released(guard).queue
    BY <2>1, <2>2, <2>3, RecordStep
  <2>5. CASE guard'.queue = q
    BY <1>2, <1>9, <1>16, <1>19, <2>4, <2>5 DEF k, q
  <2>6. CASE guard'.queue # q
    <3>1. q # <<>> /\ guard'.queue = Tail(q)
      BY <1>13, <2>4, <2>6, ReleaseStep DEF q
    <3>2. call' = [f EXCEPT ![Head(q)].at = "out"]
      BY <1>2, <1>9, <1>19, <2>6 DEF k, q
    <3> QED BY <1>17, <2>4, <3>1, <3>2
  <2> QED BY <2>5, <2>6
<1> QED BY <1>18, <1>19

\* An attempt begins, or is refused by the open breaker.
LEMMA EnterStep ==
  ASSUME IInv, NEW c \in Calls, Enter(c)
  PROVE  IInv'
<1> DEFINE g == CooledDown(guard)
<1>1. UNCHANGED kind /\ ~At(c, "ended") /\ ~At(c, "permit")
  BY DEF Enter, At
<1>2. PICK W : call \in [Calls -> CallOf(W)]
  BY DEF IInv, Shape
<1>3. g \in GuardOf /\ g.queue = guard.queue
  BY BreakerStep DEF IInv, Shape
<1>4. CASE ~IsOpen(g)
  <2>1. AskSlot(c, g)
    BY <1>4 DEF Enter
  <2>2. (\E V : call' \in [Calls -> CallOf(V)]) /\ guard' \in GuardOf /\ QueueOK' /\ CallsOK'
    <3> HIDE DEF g
    <3> QED BY <1>1, <1>2, <1>3, <2>1, AskSlotStep DEF IInv
  <2> QED BY <1>1, <2>2 DEF IInv, Shape
<1>5. CASE IsOpen(g)
  <2> DEFINE t == IF kind[c].swallows THEN "answer" ELSE "error"
  <2>1. call' = [call EXCEPT ![c].at = "ended", ![c].told = t] /\ guard' = g
    BY <1>5 DEF Enter
  <2>2. t \in Outcomes /\ t # "failed" /\ "ended" \in Places
    BY DEF Outcomes, Places
  <2> HIDE DEF t, g
  <2>3. call' \in [Calls -> CallOf(W)]
    BY <1>2, <2>1, <2>2 DEF CallOf
  <2>4. /\ call'[c].at = "ended" /\ call'[c].told = t /\ call'[c].effects = call[c].effects
        /\ call[c].effects \in Nat /\ \A d \in Calls \ {c} : call'[d] = call[d]
    BY <1>2, <2>1 DEF CallOf
  <2>5. Shape'
    BY <1>1, <1>3, <2>1, <2>3 DEF IInv, Shape
  <2>6. CallsOK'
    BY <1>1, <2>2, <2>4 DEF IInv, CallsOK, CallOK
  <2>7. QueueOK'
    <3>1. guard'.queue = guard.queue
      BY <1>3, <2>1
    <3>2. \A i \in 1..Len(guard.queue) : guard.queue[i] \in Calls \ {c}
      BY <1>1 DEF IInv, QueueOK, Shape, GuardOf
    <3> QED BY <2>4, <3>1, <3>2 DEF IInv, QueueOK, At
  <2> QED BY <2>5, <2>6, <2>7 DEF IInv
<1> QED BY <1>4, <1>5

LEMMA SendUnguardedStep ==
  ASSUME IInv, NEW c \in Calls, SendUnguarded(c)
  PROVE  IInv'
<1>1. PICK W : call \in [Calls -> CallOf(W)]
  BY DEF IInv, Shape
<1> DEFINE p == "out"  n == 1
<1>2. /\ kind' = kind /\ guard' = guard /\ At(c, "idle")
      /\ call' = [call EXCEPT ![c].at = p, ![c].tries = n] /\ p \in Places /\ n \in Int /\ p # "ended"
  BY DEF SendUnguarded, Places
<1> HIDE DEF p, n
<1>3. call' \in [Calls -> CallOf(W)]
  BY <1>1, <1>2 DEF CallOf
<1>4. /\ call'[c].at = p /\ call'[c].told = call[c].told /\ call'[c].effects = call[c].effects
      /\ \A d \in Calls \ {c} : call'[d] = call[d]
  BY <1>1, <1>2 DEF CallOf
<1>5. CallsOK'
  BY <1>2, <1>4 DEF IInv, CallsOK, CallOK, At
<1>6. QueueOK'
  <2>1. \A i \in 1..Len(guard.queue) : guard.queue[i] \in Calls \ {c}
    BY <1>2 DEF IInv, QueueOK, Shape, GuardOf, At
  <2>2. \A i \in 1..Len(guard.queue) : call'[guard.queue[i]].at = "permit"
    BY <1>4, <2>1 DEF IInv, QueueOK, At
  <2>3. \A i, j \in 1..Len(guard.queue) : guard.queue[i] = guard.queue[j] => i = j
    BY DEF IInv, QueueOK
  <2>4. guard' = guard
    BY <1>2
  <2> QED BY <2>2, <2>3, <2>4 DEF QueueOK, At
<1> QED BY <1>2, <1>3, <1>5, <1>6 DEF IInv, Shape

LEMMA PollSlotStep ==
  ASSUME IInv, NEW c \in Calls, PollSlot(c)
  PROVE  IInv'
<1>1. UNCHANGED kind /\ ~At(c, "ended") /\ ~At(c, "permit") /\ AskSlot(c, guard)
  BY DEF PollSlot, At
<1>2. PICK W : call \in [Calls -> CallOf(W)]
  BY DEF IInv, Shape
<1>3. guard \in GuardOf
  BY DEF IInv, Shape
<1>4. (\E V : call' \in [Calls -> CallOf(V)]) /\ guard' \in GuardOf /\ QueueOK' /\ CallsOK'
  BY <1>1, <1>2, <1>3, AskSlotStep DEF IInv
<1> QED BY <1>1, <1>4 DEF IInv, Shape

LEMMA TickStep ==
  ASSUME IInv, Tick
  PROVE  IInv'
<1>1. PICK W : call \in [Calls -> CallOf(W)]
  BY DEF IInv, Shape
<1> DEFINE z(c) == IF call[c].wake = 0 THEN 0 ELSE call[c].wake - 1
           V == {z(c) : c \in Calls}
<1>2. UNCHANGED kind /\ call' = [c \in Calls |-> [call[c] EXCEPT !.wake = z(c)]]
  BY DEF Tick
<1>3. \A c \in Calls : z(c) \in V
  OBVIOUS
<1> HIDE DEF z, V
<1>4. call' \in [Calls -> CallOf(V)]
  BY <1>1, <1>2, <1>3 DEF CallOf
<1>5. \A c \in Calls : /\ call'[c].at = call[c].at /\ call'[c].told = call[c].told
                       /\ call'[c].effects = call[c].effects
  BY <1>1, <1>2 DEF CallOf
<1>6. guard' \in GuardOf /\ guard'.queue = guard.queue
  <2> DEFINE o == IF guard.opened = Closed THEN guard.opened ELSE Older(Cooldown, guard.opened)
  <2>1. guard \in GuardOf
    BY DEF IInv, Shape
  <2>2. o \in Int
    BY <2>1, ConstantsAssumption DEF GuardOf, Older, Least
  <2>3. guard' = [guard EXCEPT !.opened = o]
    BY DEF Tick
  <2> HIDE DEF o
  <2> QED BY <2>1, <2>2, <2>3 DEF GuardOf
<1>7. CallsOK'
  BY <1>2, <1>5 DEF IInv, CallsOK, CallOK
<1>8. QueueOK'
  <2>1. \A i \in 1..Len(guard.queue) : guard.queue[i] \in Calls
    BY DEF IInv, Shape, GuardOf
  <2> QED BY <1>5, <1>6, <2>1 DEF IInv, QueueOK, At
<1> QED BY <1>2, <1>4, <1>6, <1>7, <1>8 DEF IInv, Shape
-----------------------------------------------------------------------------
LEMMA KindsOfCalls ==
  IInv => kind \in [Calls -> Kinds]
BY ConstantsAssumption DEF IInv, Shape

LEMMA InitOK ==
  Init => IInv
<1> SUFFICES ASSUME Init PROVE IInv
  OBVIOUS
<1>1. call \in [Calls -> CallOf({0})]
  BY DEF Init, CallOf, Places, Outcomes
<1>2. guard \in GuardOf /\ guard.queue = <<>>
  BY ConstantsAssumption DEF Init, GuardOf, Closed
<1>3. Shape
  BY <1>1, <1>2 DEF Shape, Init
<1>4. QueueOK
  BY <1>2 DEF QueueOK
<1>5. \A c \in Calls : call[c].at = "idle" /\ call[c].told = "none" /\ call[c].effects = 0
  BY DEF Init
<1>6. CallsOK
  <2> SUFFICES ASSUME NEW c \in Calls PROVE CallOK(kind[c], call[c])
    BY DEF CallsOK
  <2>1. call[c].effects = 0 /\ call[c].effects <= 1 /\ call[c].told = "none" /\ call[c].at = "idle"
    BY <1>5
  <2> QED BY <2>1, Zenon DEF CallOK
<1> QED BY <1>3, <1>4, <1>6 DEF IInv

LEMMA NextOK ==
  IInv /\ [Next]_vars => IInv'
<1> SUFFICES ASSUME IInv, [Next]_vars PROVE IInv'
  OBVIOUS
<1>1. CASE Tick
  BY <1>1, TickStep
<1>2. ASSUME NEW c \in Calls, Enter(c) PROVE IInv'
  BY <1>2, EnterStep
<1>3. ASSUME NEW c \in Calls, SendUnguarded(c) PROVE IInv'
  BY <1>3, SendUnguardedStep
<1>4. ASSUME NEW c \in Calls, PollSlot(c) PROVE IInv'
  BY <1>4, PollSlotStep
<1>5. ASSUME NEW c \in Calls, Answer(c) PROVE IInv'
  BY <1>5, KindsOfCalls, AnswerStep
<1>6. CASE UNCHANGED vars
  BY <1>6 DEF vars, IInv, Shape, QueueOK, CallsOK, CallOK, At
<1> QED BY <1>1, <1>2, <1>3, <1>4, <1>5, <1>6 DEF Next

LEMMA Invariant ==
  Spec => []IInv
BY InitOK, NextOK, PTL DEF Spec

\* Whatever is answered, lost or sent again, a caller who was told that a push or a
\* payout failed can forget it, the older client's pushes included
\* (process_wallet_payment, process_transaction, trigger_wallet_push).
THEOREM FailureIsFinal ==
  Spec => []FailedMeansUndone
<1>1. IInv => FailedMeansUndone
  BY DEF IInv, CallsOK, CallOK, FailedMeansUndone
<1> QED BY <1>1, Invariant, PTL

\* Without the older client's push, whose errors are answered by another push,
\* Selcom acts on no call twice, in any number and mix of calls.
THEOREM MoneyMovesOnce ==
  ASSUME \A m \in Mixes : \A c \in Calls : m[c].name # "push"
  PROVE  Spec => []PromptedOnce
<1>1. IInv => PromptedOnce
  BY DEF IInv, Shape, CallsOK, CallOK, PromptedOnce
<1> QED BY <1>1, Invariant, PTL
-----------------------------------------------------------------------------
(***************************************************************************)
(* The rate.  What the throttle remembers ends with the slots really       *)
(* granted in the last window, in the order they were granted, and before  *)
(* them only slots that are over: so to drop what is over from the front,  *)
(* as it does, leaves exactly the slots that count.                        *)
(***************************************************************************)
\* g: the slots that count; r: what is remembered.
Remembers(r, g) ==
  /\ r \in Seq(Int) /\ g \in Seq(Int) /\ Len(g) <= Len(r)
  /\ \A i \in 1..Len(g) : r[Len(r) - Len(g) + i] = g[i] /\ g[i] \in 0..Window
  /\ \A i, j \in 1..Len(g) : i <= j => g[j] <= g[i]
  /\ \A j \in 1..Len(r) - Len(g) : r[j] > Window
RateInv == Remembers(recent, granted) /\ RateHeld

FirstAt(s, limit, k) ==
  /\ k \in DOMAIN s => s[k] <= limit
  /\ \A j \in 1..k - 1 : s[j] > limit

LEMMA FirstIsOne ==
  ASSUME NEW s \in Seq(Int), NEW limit \in Int
  PROVE  /\ \E k \in 1..Len(s) + 1 : FirstAt(s, limit, k)
         /\ \A k \in 1..Len(s) + 1 : FirstAt(s, limit, k) => First(s, limit) = k
<1>1. Len(s) \in Nat /\ DOMAIN s = 1..Len(s)
  OBVIOUS
<1>2. \E k \in 1..Len(s) + 1 : FirstAt(s, limit, k)
  <2> DEFINE S == {i \in 1..Len(s) + 1 : i \in DOMAIN s => s[i] <= limit}
  <2>1. Len(s) + 1 \in S /\ S \subseteq Nat
    BY <1>1
  <2>2. PICK k \in S : \A y \in S : ~(<<y, k>> \in OpToRel(<, Nat))
    BY <2>1, NatLessThanWellFounded, WFMin, Zenon
  <2>3. \A y \in S : ~(y < k)
    BY <2>1, <2>2 DEF OpToRel
  <2>4. \A j \in 1..k - 1 : j \notin S /\ j \in 1..Len(s) + 1 /\ j \in DOMAIN s
    BY <1>1, <2>3
  <2>5. \A j \in 1..k - 1 : s[j] > limit
    BY <1>1, <2>4
  <2> QED BY <2>5 DEF FirstAt
<1>3. ASSUME NEW k \in 1..Len(s) + 1, FirstAt(s, limit, k), NEW m \in 1..Len(s) + 1, FirstAt(s, limit, m)
      PROVE  k = m
  <2>1. ~(k < m)
    <3> SUFFICES ASSUME k < m PROVE FALSE
      OBVIOUS
    <3>1. k \in 1..m - 1 /\ k \in DOMAIN s
      BY <1>1
    <3> QED BY <1>1, <1>3, <3>1 DEF FirstAt
  <2>2. ~(m < k)
    <3> SUFFICES ASSUME m < k PROVE FALSE
      OBVIOUS
    <3>1. m \in 1..k - 1 /\ m \in DOMAIN s
      BY <1>1
    <3> QED BY <1>1, <1>3, <3>1 DEF FirstAt
  <2> QED BY <1>1, <2>1, <2>2
<1>4. ASSUME NEW k \in 1..Len(s) + 1, FirstAt(s, limit, k) PROVE First(s, limit) = k
  <2>1. First(s, limit) = CHOOSE i \in 1..Len(s) + 1 : FirstAt(s, limit, i)
    BY DEF First, FirstAt
  <2>2. PICK m : m = First(s, limit)
    OBVIOUS
  <2>3. m \in 1..Len(s) + 1 /\ FirstAt(s, limit, m)
    BY <1>2, <2>1, <2>2
  <2> QED BY <1>3, <1>4, <2>2, <2>3
<1> QED BY <1>2, <1>4

\* From a place on.
LEMMA Suffix ==
  ASSUME NEW s \in Seq(Int), NEW limit \in Int, NEW k \in 1..Len(s) + 1, FirstAt(s, limit, k)
  PROVE  /\ Since(s, limit) \in Seq(Int) /\ Len(Since(s, limit)) = Len(s) - k + 1
         /\ \A i \in 1..Len(s) - k + 1 : Since(s, limit)[i] = s[k + i - 1]
<1>1. Since(s, limit) = SubSeq(s, k, Len(s))
  BY FirstIsOne DEF Since
<1>2. Len(s) \in Nat
  OBVIOUS
<1> QED BY <1>1, <1>2

LEMMA FreshIsGranted ==
  ASSUME NEW r, NEW g, Remembers(r, g)
  PROVE  Fresh(r) = g
<1>1. r \in Seq(Int) /\ g \in Seq(Int) /\ Len(r) \in Nat /\ Len(g) \in Nat /\ Window \in Nat
  BY ConstantsAssumption DEF Remembers
<1>2. PICK k : k = Len(r) - Len(g) + 1
  OBVIOUS
<1>3. k \in 1..Len(r) + 1 /\ Len(r) - k + 1 = Len(g)
  <2>1. Len(g) <= Len(r)
    BY DEF Remembers
  <2> QED BY <1>1, <1>2, <2>1
<1>4. \A i \in 1..Len(g) : r[k + i - 1] = g[i] /\ g[i] <= Window
  BY <1>1, <1>2 DEF Remembers
<1>5. k \in DOMAIN r => r[k] <= Window
  <2> SUFFICES ASSUME k \in DOMAIN r PROVE r[k] <= Window
    OBVIOUS
  <2>1. 1 \in 1..Len(g) /\ k + 1 - 1 = k
    BY <1>1, <1>2, <1>3
  <2> QED BY <1>4, <2>1
<1>6. \A j \in 1..k - 1 : r[j] > Window
  BY <1>1, <1>2 DEF Remembers
<1>7. FirstAt(r, Window, k)
  BY <1>5, <1>6 DEF FirstAt
<1>8. /\ Since(r, Window) \in Seq(Int) /\ Len(Since(r, Window)) = Len(r) - k + 1
      /\ \A i \in 1..Len(r) - k + 1 : Since(r, Window)[i] = r[k + i - 1]
  <2>1. r \in Seq(Int) /\ Window \in Int
    BY <1>1
  <2> QED BY <1>3, <1>7, <2>1, Suffix
<1>9. PICK f : f = Since(r, Window)
  OBVIOUS
<1>10. f \in Seq(Int) /\ Len(f) = Len(g) /\ \A i \in 1..Len(g) : f[i] = g[i]
  BY <1>3, <1>4, <1>8, <1>9
<1>11. f = g
  BY <1>1, <1>10
<1> QED BY <1>9, <1>11 DEF Fresh

LEMMA RateBegins ==
  Init => RateInv
<1> SUFFICES ASSUME Init PROVE RateInv
  OBVIOUS
<1>1. recent = <<>> /\ granted = <<>>
  BY DEF Init
<1> QED BY <1>1, ConstantsAssumption DEF RateInv, Remembers, RateHeld

LEMMA AskSlotRate ==
  ASSUME RateInv, NEW c, NEW g, AskSlot(c, g)
  PROVE  RateInv'
<1>1. Fresh(recent) = granted
  BY FreshIsGranted DEF RateInv
<1>2. /\ recent' = IF Len(granted) < PerMinute THEN Append(granted, 0) ELSE granted
      /\ granted' = IF Len(granted) < PerMinute THEN Append(granted, 0) ELSE granted
  BY <1>1 DEF AskSlot
<1>3. /\ granted \in Seq(Int) /\ Len(granted) \in Nat /\ Len(granted) <= PerMinute
      /\ PerMinute \in Nat /\ Window \in Nat
      /\ \A i \in 1..Len(granted) : granted[i] \in 0..Window
      /\ \A i, j \in 1..Len(granted) : i <= j => granted[j] <= granted[i]
  BY ConstantsAssumption DEF RateInv, Remembers, RateHeld
<1>4. PICK n \in Nat : n = Len(granted)
  BY <1>3
<1>5. PICK s : s = granted'
  OBVIOUS
<1>6. /\ s \in Seq(Int) /\ Len(s) <= PerMinute /\ Len(s) \in Nat
      /\ \A i \in 1..Len(s) : s[i] \in 0..Window
      /\ \A i, j \in 1..Len(s) : i <= j => s[j] <= s[i]
  <2>1. CASE n < PerMinute
    <3>1. s = Append(granted, 0)
      BY <1>2, <1>4, <1>5, <2>1
    <3>2. /\ s \in Seq(Int) /\ Len(s) = n + 1 /\ s[n + 1] = 0
          /\ \A i \in 1..n : s[i] = granted[i]
          /\ \A i \in 1..n + 1 : i \in 1..n \/ i = n + 1
      BY <1>3, <1>4, <3>1
    <3>3. \A i \in 1..n + 1 : s[i] \in 0..Window
      BY <1>3, <1>4, <3>2
    <3>4. ASSUME NEW i \in 1..n + 1, NEW j \in 1..n + 1, i <= j PROVE s[j] <= s[i]
      <4>1. CASE j = n + 1
        <5>1. s[j] = 0 /\ s[i] \in 0..Window
          BY <3>2, <3>3, <4>1
        <5> QED BY <1>3, <5>1
      <4>2. CASE j \in 1..n
        <5>1. i \in 1..n
          BY <1>4, <3>4, <4>2
        <5> QED BY <1>3, <1>4, <3>2, <3>4, <4>2, <5>1
      <4> QED BY <3>2, <4>1, <4>2
    <3> QED BY <1>3, <1>4, <2>1, <3>2, <3>3, <3>4
  <2>2. CASE ~(n < PerMinute)
    <3>1. s = granted
      BY <1>2, <1>4, <1>5, <2>2
    <3> QED BY <1>3, <3>1
  <2> QED BY <2>1, <2>2
<1>7. Remembers(s, s)
  BY <1>6 DEF Remembers
<1>8. recent' = s
  BY <1>2, <1>5
<1> QED BY <1>5, <1>6, <1>7, <1>8 DEF RateInv, RateHeld

\* A tick: everybody is older, and who was granted too long ago counts no more.
LEMMA Ages ==
  ASSUME NEW r, NEW g, Remembers(r, g)
  PROVE  LET a == [i \in DOMAIN g |-> g[i] + 1]
             b == [i \in DOMAIN r |-> Older(Window + 1, r[i])]
         IN  Remembers(b, Since(a, Window)) /\ Len(Since(a, Window)) <= Len(g)
<1> DEFINE a == [i \in DOMAIN g |-> g[i] + 1]
           b == [i \in DOMAIN r |-> Older(Window + 1, r[i])]
<1>1. r \in Seq(Int) /\ g \in Seq(Int) /\ Len(r) \in Nat /\ Len(g) \in Nat /\ Window \in Nat
  BY ConstantsAssumption DEF Remembers
<1>2. PICK n, d : n = Len(g) /\ d = Len(r) - Len(g)
  OBVIOUS
<1>3. n \in Nat /\ d \in Nat /\ Len(r) = d + n
  <2>1. Len(g) <= Len(r)
    BY DEF Remembers
  <2> QED BY <1>1, <1>2, <2>1
<1>4. /\ a \in Seq(Int) /\ Len(a) = n /\ DOMAIN a = 1..n
      /\ \A i \in 1..n : a[i] = g[i] + 1
  BY <1>1, <1>2, <1>3
<1>5. /\ b \in Seq(Int) /\ Len(b) = d + n
      /\ \A i \in 1..d + n : b[i] = IF r[i] + 1 < Window + 1 THEN r[i] + 1 ELSE Window + 1
  BY <1>1, <1>2, <1>3 DEF Older, Least
<1> HIDE DEF a, b
<1>6. /\ \A i \in 1..n : r[d + i] = g[i] /\ g[i] \in 0..Window
      /\ \A i, j \in 1..n : i <= j => g[j] <= g[i]
      /\ \A j \in 1..d : r[j] > Window
  <2>1. \A i \in 1..n : d + i = Len(r) - Len(g) + i
    BY <1>1, <1>2, <1>3
  <2> QED BY <1>2, <2>1 DEF Remembers
<1>7. PICK k \in 1..n + 1 : FirstAt(a, Window, k)
  <2>1. a \in Seq(Int) /\ Window \in Int
    BY <1>1, <1>4
  <2> QED BY <1>4, <2>1, FirstIsOne
<1>8. PICK s : s = Since(a, Window)
  OBVIOUS
<1>9. PICK m : m = n - k + 1
  OBVIOUS
<1>10. m \in Nat /\ m <= n
  BY <1>7, <1>9, <1>3
<1>11. /\ s \in Seq(Int) /\ Len(s) = m
      /\ \A i \in 1..m : s[i] = a[k + i - 1]
  <2>1. a \in Seq(Int) /\ Window \in Int /\ k \in 1..Len(a) + 1
    BY <1>1, <1>4, <1>7
  <2>2. /\ Since(a, Window) \in Seq(Int) /\ Len(Since(a, Window)) = Len(a) - k + 1
        /\ \A i \in 1..Len(a) - k + 1 : Since(a, Window)[i] = a[k + i - 1]
    BY <1>7, <2>1, Suffix
  <2> QED BY <1>4, <1>8, <1>9, <2>2
<1>12. m <= n /\ \A i \in 1..m : k + i - 1 \in 1..n /\ k <= k + i - 1
  BY <1>7, <1>9, <1>3, <1>10
<1>13. \A i \in 1..m : s[i] = g[k + i - 1] + 1
  BY <1>4, <1>11, <1>12
<1>14. \A i \in 1..m : s[i] \in 0..Window
  <2> SUFFICES ASSUME NEW i \in 1..m PROVE s[i] \in 0..Window
    OBVIOUS
  <2>1. k \in 1..n /\ a[k] <= Window
    BY <1>4, <1>7, <1>9, <1>12 DEF FirstAt
  <2>2. g[k] + 1 <= Window
    BY <1>4, <2>1
  <2>3. g[k + i - 1] <= g[k] /\ g[k + i - 1] \in Nat /\ g[k] \in Nat
    BY <1>6, <1>12, <2>1
  <2> QED BY <1>1, <1>13, <2>2, <2>3
<1>15. \A i, j \in 1..m : i <= j => s[j] <= s[i]
  <2> SUFFICES ASSUME NEW i \in 1..m, NEW j \in 1..m, i <= j PROVE s[j] <= s[i]
    OBVIOUS
  <2>1. PICK p, q : p = k + i - 1 /\ q = k + j - 1
    OBVIOUS
  <2>2. p \in 1..n /\ q \in 1..n /\ p <= q
    BY <1>7, <1>12, <1>10, <2>1
  <2>3. g[q] <= g[p] /\ g[q] \in Nat /\ g[p] \in Nat
    BY <1>6, <2>2
  <2> QED BY <1>13, <2>1, <2>3
<1>16. \A i \in 1..m : b[(d + n) - m + i] = s[i]
  <2> SUFFICES ASSUME NEW i \in 1..m PROVE b[(d + n) - m + i] = s[i]
    OBVIOUS
  <2>1. PICK p : p = k + i - 1 /\ p \in 1..n
    BY <1>12
  <2>2. (d + n) - m + i = d + p /\ d + p \in 1..d + n
    BY <1>7, <1>9, <1>3, <1>10, <2>1
  <2>3. r[d + p] = g[p] /\ s[i] = g[p] + 1 /\ g[p] \in Nat /\ s[i] <= Window
    BY <1>6, <1>13, <1>14, <2>1
  <2>4. b[d + p] = IF r[d + p] + 1 < Window + 1 THEN r[d + p] + 1 ELSE Window + 1
    BY <1>5, <2>2
  <2> QED BY <1>1, <2>2, <2>3, <2>4
<1>17. \A j \in 1..(d + n) - m : b[j] > Window
  <2> SUFFICES ASSUME NEW j \in 1..(d + n) - m PROVE b[j] > Window
    OBVIOUS
  <2>1. j \in 1..d + n /\ r[j] \in Int
    BY <1>1, <1>2, <1>3, <1>10
  <2>2. b[j] = IF r[j] + 1 < Window + 1 THEN r[j] + 1 ELSE Window + 1
    BY <1>5, <2>1
  <2>3. CASE j <= d
    <3>1. r[j] > Window
      BY <1>6, <1>3, <2>1, <2>3
    <3> QED BY <1>1, <2>1, <2>2, <3>1
  <2>4. CASE j > d
    <3>1. PICK p : p = j - d
      OBVIOUS
    <3>2. p \in 1..n /\ p \in 1..k - 1 /\ j = d + p
      BY <1>7, <1>9, <1>3, <1>10, <2>1, <2>4, <3>1
    <3>3. a[p] > Window /\ a[p] = g[p] + 1 /\ r[j] = g[p] /\ g[p] \in Nat
      BY <1>4, <1>6, <1>7, <3>2 DEF FirstAt
    <3> QED BY <1>1, <2>2, <3>3
  <2> QED BY <1>3, <2>1, <2>3, <2>4
<1>18. Remembers(b, s)
  <2>1. Len(b) - Len(s) = d + n - m /\ Len(s) <= Len(b)
    BY <1>5, <1>11, <1>3, <1>10
  <2> QED BY <1>5, <1>11, <1>14, <1>15, <1>16, <1>17, <2>1 DEF Remembers
<1> QED BY <1>2, <1>8, <1>11, <1>18, <1>10 DEF a, b

LEMMA RateStep ==
  RateInv /\ [Next]_vars => RateInv'
<1> SUFFICES ASSUME RateInv, [Next]_vars PROVE RateInv'
  OBVIOUS
<1>1. CASE Tick
  <2>1. PICK r, g : r = recent /\ g = granted /\ Remembers(r, g) /\ Len(g) <= PerMinute
    BY DEF RateInv, RateHeld
  <2>2. PICK a, b : a = [i \in DOMAIN g |-> g[i] + 1] /\ b = [i \in DOMAIN r |-> Older(Window + 1, r[i])]
    OBVIOUS
  <2>3. Remembers(b, Since(a, Window)) /\ Len(Since(a, Window)) <= Len(g)
    BY <2>1, <2>2, Ages
  <2>4. recent' = b /\ granted' = Since(a, Window)
    BY <1>1, <2>1, <2>2 DEF Tick
  <2>5. Len(Since(a, Window)) \in Nat /\ Len(g) \in Nat
    BY <2>1, <2>3 DEF Remembers
  <2>6. Len(Since(a, Window)) <= PerMinute
    BY <2>1, <2>3, <2>5, ConstantsAssumption
  <2> QED BY <2>3, <2>4, <2>6 DEF RateInv, RateHeld
<1>2. ASSUME recent' = recent, granted' = granted PROVE RateInv'
  BY <1>2 DEF RateInv, RateHeld, Remembers
<1>3. ASSUME NEW c \in Calls, Enter(c) PROVE RateInv'
  <2>1. \/ recent' = recent /\ granted' = granted
        \/ \E g : AskSlot(c, g)
    BY <1>3 DEF Enter
  <2> QED BY <1>2, <2>1, AskSlotRate
<1>4. ASSUME NEW c \in Calls, PollSlot(c) PROVE RateInv'
  BY <1>4, AskSlotRate DEF PollSlot
<1>5. ASSUME NEW c \in Calls, SendUnguarded(c) \/ Answer(c) PROVE RateInv'
  BY <1>2, <1>5 DEF SendUnguarded, Answer
<1>6. CASE UNCHANGED vars
  BY <1>2, <1>6 DEF vars
<1> QED BY <1>1, <1>3, <1>4, <1>5, <1>6 DEF Next

\* In no stretch of time as long as the window does the throttle let more requests
\* out than its limit, whatever waits, is retried or gives up meanwhile
\* (_await_rate_slot).
THEOREM RateIsHeld ==
  Spec => []RateHeld
<1>1. RateInv => RateHeld
  BY DEF RateInv
<1> QED BY <1>1, RateBegins, RateStep, PTL DEF Spec
=============================================================================
