---------------------------- MODULE Delivery_proofs ----------------------------
(***************************************************************************)
(* What reaches people and servers outside: webhooks, texts, daily emails. *)
(* First, WebhookDelivery for every number of replicas, merchants and      *)
(* events, every batch size and every scan window; then Messages.          *)
(*                                                                         *)
(* A merchant is called before the answer is recorded, and a row is read a *)
(* whole batch before it is sent.  That nothing is sent twice rests on the *)
(* lease: a replica that sweeps holds it, so that there is one sweep, and   *)
(* what that sweep has read and not yet sent is still open, since nobody    *)
(* else settles a row - an administrator's resend only touches what was     *)
(* given up.                                                               *)
(***************************************************************************)
EXTENDS WebhookDelivery, Messages, FiniteSetTheorems, WellFoundedInduction, TLAPS

Open == {"pending", "retrying"}
EventOf == [m : Merchants, status : Open \cup {"delivered", "failed"},
            attempts : Int, due : BOOLEAN, accepted : Nat, lost : Nat]
LeaseOf == [row : BOOLEAN, live : BOOLEAN, holder : Replicas \cup {NoReplica}]
Places == {"sleep", "probe", "seed", "reclaim", "read", "post", "record", "release", "gone"}
Batched == [e : Nat, attempts : Int]
SweepOf == [at : Places, batch : Seq(Batched), answer : Answers, down : BOOLEAN]

Shape ==
  /\ events \in Seq(EventOf) /\ lease \in LeaseOf
  /\ sweep \in [Replicas -> SweepOf] /\ resend \in [Admins -> Nat]

\* What a sweep has still to send, and what an administrator puts back, exists.
Exists(q) == q # <<>> /\ \A k \in 1..Len(q) : q[k].e \in 1..Len(events)
Types == /\ Shape
         /\ \A r \in Replicas : sweep[r].at \in {"post", "record"} => Exists(sweep[r].batch)
         /\ \A a \in Admins : resend[a] \in 0..Len(events)

\* A sweep holds the lease, and no process that sweeps is shutting down.
Holds(r) == sweep[r].at \in {"read", "post", "record"} => lease.live /\ lease.holder = r
LeaseHeld == \A r \in Replicas : Holds(r)

\* What a sweep has still to send is open, and is there once.
Pending(r) ==
  LET q == sweep[r].batch IN
  sweep[r].at \in {"post", "record"} =>
    /\ \A k \in 1..Len(q) : events[q[k].e].status \in Open
    /\ \A j, k \in 1..Len(q) : q[j].e = q[k].e => j = k
BatchesOpen == \A r \in Replicas : Pending(r)

\* What an administrator is about to put back is still given up.
ResendsGivenUp == \A a \in Admins : resend[a] # 0 => events[resend[a]].status = "failed"

\* An answer of success that is not recorded yet.
InFlight(e) == \E r \in Replicas : /\ sweep[r].at = "record" /\ sweep[r].answer = "ok"
                                   /\ sweep[r].batch[1].e = e
Counted(e) == /\ events[e].accepted <= 1 + events[e].lost
              /\ events[e].status # "delivered" /\ ~InFlight(e) => events[e].accepted <= events[e].lost
AnswersCounted == \A e \in 1..Len(events) : Counted(e)

IInv == Types /\ LeaseHeld /\ BatchesOpen /\ ResendsGivenUp /\ AnswersCounted

\* A sweep ends before its lease, and is not cut short with the lease handed back.
LeaseOutlives == Faults \cap {"overrun", "shutdown"} = {}
\* One administrator works on the queue.
OneAdmin == \A a, b \in Admins : a = b
-----------------------------------------------------------------------------
(***************************************************************************)
(* What the functions on the queue return.                                 *)
(***************************************************************************)
LEMMA LeastElement ==
  ASSUME NEW S \in SUBSET Nat, S # {}
  PROVE  Min(S) \in S /\ \A y \in S : Min(S) <= y
<1>1. PICK x \in S : \A y \in S : ~(<<y, x>> \in OpToRel(<, Nat))
  BY NatLessThanWellFounded, WFMin, Zenon
<1>2. \A y \in S : ~(y < x)
  BY <1>1 DEF OpToRel
<1>3. \E z \in S : \A y \in S : z =< y
  BY <1>2
<1> QED BY <1>3, Zenon DEF Min

\* The due events are a finite set of places in the queue, and open.
LEMMA DueOpen ==
  ASSUME Shape
  PROVE  /\ DueEvents \subseteq 1..Len(events) /\ IsFiniteSet(DueEvents)
         /\ \A e \in DueEvents : events[e].status \in Open
<1>1. DueEvents \subseteq {e \in 1..Len(events) : events[e].status \in Open}
  BY DEF DueEvents, PendingEvents, Shape, Open
<1>2. IsFiniteSet(1..Len(events))
  BY FS_Interval DEF Shape
<1> QED BY <1>1, <1>2, FS_Subset

\* A merchant's turn is named by the first of its due events.
LEMMA Turns ==
  ASSUME Shape, NEW e \in DueEvents
  PROVE  /\ Round(e, DueEvents) \in Nat
         /\ Queued(e, DueEvents) \in DueEvents
         /\ events[Queued(e, DueEvents)].m = events[e].m
         /\ \A d \in DueEvents : events[d].m = events[e].m => Queued(e, DueEvents) <= d
<1> DEFINE due == DueEvents
           Earlier == {d \in due : events[d].m = events[e].m /\ d < e}
           Own == {d \in due : events[d].m = events[e].m}
<1>1. due \subseteq Nat /\ IsFiniteSet(due)
  BY DueOpen DEF Shape
<1>2. IsFiniteSet(Earlier)
  BY <1>1, FS_Subset
<1>3. Round(e, due) \in Nat
  BY <1>2, FS_CardinalityType DEF Round
<1>4. Own \in SUBSET Nat /\ e \in Own
  BY <1>1
<1>5. Min(Own) \in Own /\ \A y \in Own : Min(Own) <= y
  BY <1>4, LeastElement
<1>6. Queued(e, due) = Min(Own)
  BY DEF Queued
<1> QED BY <1>3, <1>5, <1>6

LEMMA SoonerIsStrict ==
  ASSUME Shape, NEW e \in DueEvents
  PROVE  ~Sooner(e, e, DueEvents)
<1>1. Round(e, DueEvents) \in Nat /\ Queued(e, DueEvents) \in Nat
  BY Turns, DueOpen DEF Shape
<1> QED BY <1>1 DEF Sooner

\* A batch takes due events, each once, as many as there are places.
LEMMA InTurnTakes ==
  ASSUME Shape, NEW q \in InTurn(DueEvents)
  PROVE  /\ BatchFairly(DueEvents) \subseteq DueEvents /\ IsFiniteSet(BatchFairly(DueEvents))
         /\ Cardinality(BatchFairly(DueEvents)) \in Nat
         /\ q \in [1..Cardinality(BatchFairly(DueEvents)) -> BatchFairly(DueEvents)]
         /\ \A j, k \in 1..Cardinality(BatchFairly(DueEvents)) : q[j] = q[k] => j = k
<1> DEFINE due == DueEvents
           taken == BatchFairly(due)
           n == Cardinality(taken)
<1>1. taken \subseteq due
  BY DEF BatchFairly
<1>2. IsFiniteSet(taken)
  BY <1>1, DueOpen, FS_Subset
<1>3. n \in Nat
  BY <1>2, FS_CardinalityType
<1>4. q \in [1..n -> taken] /\ \A j, k \in DOMAIN q : j < k => Sooner(q[j], q[k], due)
  BY DEF InTurn
<1> HIDE DEF taken, n
<1>5. ASSUME NEW j \in 1..n, NEW k \in 1..n, j < k PROVE q[j] # q[k]
  <2>1. Sooner(q[j], q[k], due) /\ q[j] \in DueEvents
    BY <1>1, <1>4, <1>5
  <2> QED BY <2>1, SoonerIsStrict
<1>6. \A j, k \in 1..n : q[j] = q[k] => j = k
  BY <1>3, <1>5
<1> QED BY <1>1, <1>2, <1>3, <1>4, <1>6 DEF taken, n

\* ... as a sequence.
LEMMA InTurnOK ==
  ASSUME Shape, NEW q \in InTurn(DueEvents)
  PROVE  /\ q \in Seq(1..Len(events))
         /\ \A k \in 1..Len(q) : events[q[k]].status \in Open
         /\ \A j, k \in 1..Len(q) : q[j] = q[k] => j = k
<1> DEFINE taken == BatchFairly(DueEvents)
           n == Cardinality(taken)
<1>1. /\ taken \subseteq DueEvents /\ n \in Nat /\ q \in [1..n -> taken]
      /\ \A j, k \in 1..n : q[j] = q[k] => j = k
  BY InTurnTakes
<1> HIDE DEF taken, n
<1>2. q \in Seq(taken) /\ Len(q) = n
  BY <1>1
<1>3. q \in Seq(1..Len(events))
  BY <1>1, <1>2, DueOpen
<1>4. \A k \in 1..Len(q) : q[k] \in DueEvents
  BY <1>1, <1>2
<1> QED BY <1>1, <1>2, <1>3, <1>4, DueOpen
-----------------------------------------------------------------------------
(***************************************************************************)
(* The types.                                                              *)
(***************************************************************************)
\* One replica moves, and the rows keep their places.
LEMMA Moves ==
  ASSUME Types, NEW r \in Replicas, NEW x \in SweepOf, sweep' = [sweep EXCEPT ![r] = x],
         events' \in Seq(EventOf), Len(events') = Len(events), resend' = resend,
         lease' \in LeaseOf, x.at \in {"post", "record"} => Exists(x.batch)
  PROVE  Types'
<1>1. sweep' \in [Replicas -> SweepOf] /\ sweep'[r] = x /\ \A q \in Replicas \ {r} : sweep'[q] = sweep[q]
  BY DEF Types, Shape
<1>2. Shape'
  BY <1>1 DEF Types, Shape
<1>3. \A q \in Replicas : sweep'[q].at \in {"post", "record"} => Exists(sweep'[q].batch)
  BY <1>1 DEF Types
<1>4. \A q \in Replicas : sweep'[q].at \in {"post", "record"} => Exists(sweep[q].batch)'
  BY <1>3 DEF Exists
<1> QED BY <1>2, <1>4 DEF Types

\* Only the queue, its rows or the resends change.
LEMMA QueueMoves ==
  ASSUME Types, sweep' = sweep, lease' \in LeaseOf, events' \in Seq(EventOf),
         Len(events) <= Len(events'), resend' \in [Admins -> Nat],
         \A a \in Admins : resend'[a] \in 0..Len(events')
  PROVE  Types'
<1>1. Shape'
  BY DEF Types, Shape
<1>2. Len(events) \in Nat /\ Len(events') \in Nat
  BY DEF Types, Shape
<1>3. \A r \in Replicas : sweep'[r].at \in {"post", "record"} => Exists(sweep[r].batch)'
  BY <1>2 DEF Types, Exists
<1> QED BY <1>1, <1>3 DEF Types

\* One row changes.
LEMMA RowChanges ==
  ASSUME Types, NEW e \in 1..Len(events), NEW x \in EventOf, events' = [events EXCEPT ![e] = x]
  PROVE  /\ events' \in Seq(EventOf) /\ Len(events') = Len(events) /\ events'[e] = x
         /\ \A d \in 1..Len(events) \ {e} : events'[d] = events[d]
<1> QED BY DEF Types, Shape

LEMMA TypesClaim == ASSUME Types, NEW r \in Replicas, Claim(r) PROVE Types'
<1>1. sweep[r] \in SweepOf /\ lease \in LeaseOf /\ sweep \in [Replicas -> SweepOf]
  BY DEF Types, Shape
<1>2. resend' = resend /\ events' = events /\ events \in Seq(EventOf)
  BY DEF Claim, config, Types, Shape
<1>3. lease' \in LeaseOf
  BY <1>1 DEF Claim, LeaseOf
<1>4. PICK p \in {"read", "probe", "sleep"} : To(r, p)
  BY DEF Claim
<1>5. PICK x \in SweepOf : x = [sweep[r] EXCEPT !.at = p]
  BY <1>1 DEF SweepOf, Places
<1>6. x.at = p /\ sweep' = [sweep EXCEPT ![r] = x]
  BY <1>1, <1>4, <1>5 DEF To, SweepOf
<1> QED BY <1>2, <1>3, <1>6, Moves

\* Where the lease is asked for, handed back, or a process starts.
LEMMA BesideMoves ==
  ASSUME Types, NEW r \in Replicas,
         LeaseRowMissing(r) \/ Seed(r) \/ ReleaseLease(r) \/ Boot(r)
  PROVE  /\ sweep[r].at \in {"probe", "seed", "release", "gone"}
         /\ \E x \in SweepOf : x.at \in {"sleep", "seed", "reclaim"} /\ sweep' = [sweep EXCEPT ![r] = x]
         /\ resend' = resend /\ events' = events /\ lease' \in LeaseOf
         /\ lease'.holder = lease.holder /\ (lease.holder # r => lease'.live = lease.live)
<1>1. sweep[r] \in SweepOf /\ lease \in LeaseOf /\ sweep \in [Replicas -> SweepOf]
  BY DEF Types, Shape
<1>2. resend' = resend /\ events' = events /\ sweep[r].at \in {"probe", "seed", "release", "gone"}
  BY DEF LeaseRowMissing, Seed, ReleaseLease, Boot, At, config
<1>3. \E x \in SweepOf : x.at \in {"sleep", "seed", "reclaim"} /\ sweep' = [sweep EXCEPT ![r] = x]
  <2>1. CASE LeaseRowMissing(r) \/ Seed(r)
    <3>1. PICK p \in {"sleep", "seed", "reclaim"} : To(r, p)
      BY <2>1 DEF LeaseRowMissing, Seed
    <3>2. PICK x \in SweepOf : x = [sweep[r] EXCEPT !.at = p]
      BY <1>1 DEF SweepOf, Places
    <3> QED BY <1>1, <3>1, <3>2 DEF To, SweepOf
  <2>2. CASE ReleaseLease(r) \/ Boot(r)
    <3>1. Idle \in SweepOf /\ Idle.at = "sleep"
      BY DEF Idle, SweepOf, Places, Answers
    <3> QED BY <2>2, <3>1 DEF ReleaseLease, Boot
  <2> QED BY <2>1, <2>2
<1>4. lease' \in LeaseOf /\ lease'.holder = lease.holder /\ (lease.holder # r => lease'.live = lease.live)
  BY <1>1 DEF LeaseRowMissing, Seed, ReleaseLease, Released, Boot, LeaseOf
<1> QED BY <1>2, <1>3, <1>4

LEMMA TypesBeside ==
  ASSUME Types, NEW r \in Replicas,
         LeaseRowMissing(r) \/ Seed(r) \/ ReleaseLease(r) \/ Boot(r)
  PROVE  Types'
<1>1. PICK x \in SweepOf : x.at \in {"sleep", "seed", "reclaim"} /\ sweep' = [sweep EXCEPT ![r] = x]
  BY BesideMoves
<1>2. resend' = resend /\ events' = events /\ lease' \in LeaseOf /\ events \in Seq(EventOf)
  BY BesideMoves DEF Types, Shape
<1> QED BY <1>1, <1>2, Moves

\* A replica that reads the queue goes on with the batch it read.
LEMMA ReadMoves ==
  ASSUME Types, NEW r \in Replicas, ReadQueue(r)
  PROVE  \E q \in InTurn(DueEvents), x \in SweepOf :
           /\ sweep' = [sweep EXCEPT ![r] = x] /\ x.answer = sweep[r].answer
           /\ x.batch = [k \in 1..Len(q) |-> [e |-> q[k], attempts |-> events[q[k]].attempts]]
           /\ x.batch \in Seq(Batched) /\ Len(x.batch) = Len(q) /\ q \in Seq(1..Len(events))
           /\ x.at \in {"post", "gone", "release"} /\ (x.at = "post" <=> q # <<>>)
<1>1. sweep[r] \in SweepOf /\ sweep \in [Replicas -> SweepOf] /\ Shape /\ events \in Seq(EventOf)
  BY DEF Types, Shape
<1>2. PICK q \in InTurn(DueEvents) : sweep' = [sweep EXCEPT
         ![r].batch = [k \in DOMAIN q |-> [e |-> q[k], attempts |-> events[q[k]].attempts]],
         ![r].at = IF q # <<>> THEN "post" ELSE AfterSweep(r)]
  BY DEF ReadQueue
<1>3. q \in Seq(1..Len(events)) /\ DOMAIN q = 1..Len(q) /\ Len(q) \in Nat
  BY <1>1, InTurnOK
<1> DEFINE b == [k \in 1..Len(q) |-> [e |-> q[k], attempts |-> events[q[k]].attempts]]
           p == IF q # <<>> THEN "post" ELSE AfterSweep(r)
<1>4. \A k \in 1..Len(q) : [e |-> q[k], attempts |-> events[q[k]].attempts] \in Batched
  <2> TAKE k \in 1..Len(q)
  <2>1. q[k] \in 1..Len(events)
    BY <1>3
  <2>2. events[q[k]] \in EventOf
    BY <1>1, <2>1
  <2> QED BY <2>1, <2>2 DEF EventOf, Batched
<1>5. b \in Seq(Batched) /\ Len(b) = Len(q)
  BY <1>3, <1>4
<1>6. p \in {"post", "gone", "release"} /\ (p = "post" <=> q # <<>>)
  BY DEF AfterSweep
<1>7. sweep' = [sweep EXCEPT ![r].batch = b, ![r].at = p]
  BY <1>2, <1>3
<1> HIDE DEF p
<1>8. PICK x \in SweepOf : x = [sweep[r] EXCEPT !.batch = b, !.at = p]
  BY <1>1, <1>5, <1>6 DEF SweepOf, Places
<1>9. x.at = p /\ x.batch = b /\ x.answer = sweep[r].answer /\ sweep' = [sweep EXCEPT ![r] = x]
  BY <1>1, <1>7, <1>8 DEF SweepOf
<1> QED BY <1>3, <1>5, <1>6, <1>9

LEMMA TypesRead == ASSUME Types, NEW r \in Replicas, ReadQueue(r) PROVE Types'
<1>1. PICK q \in InTurn(DueEvents), x \in SweepOf :
           /\ sweep' = [sweep EXCEPT ![r] = x]
           /\ x.batch = [k \in 1..Len(q) |-> [e |-> q[k], attempts |-> events[q[k]].attempts]]
           /\ x.batch \in Seq(Batched) /\ Len(x.batch) = Len(q) /\ q \in Seq(1..Len(events))
           /\ x.at \in {"post", "gone", "release"} /\ (x.at = "post" <=> q # <<>>)
  BY ReadMoves
<1>2. resend' = resend /\ events' = events /\ lease' \in LeaseOf /\ events \in Seq(EventOf)
  BY DEF ReadQueue, config, Types, Shape
<1>3. \A k \in 1..Len(x.batch) : x.batch[k].e \in 1..Len(events)
  BY <1>1
<1>4. x.at = "post" => x.batch # <<>>
  BY <1>1
<1>5. x.at \in {"post", "record"} => Exists(x.batch)
  BY <1>1, <1>3, <1>4 DEF Exists
<1> QED BY <1>1, <1>2, <1>5, Moves

\* What a replica sends is the first row it has left.
Posted(r, e, x, y) ==
  /\ sweep[r].at = "post" /\ e = sweep[r].batch[1].e /\ Exists(sweep[r].batch)
  /\ x.at = "record" /\ x.batch = sweep[r].batch
  /\ y.status = events[e].status /\ y.lost = events[e].lost
  /\ y.accepted = events[e].accepted + (IF x.answer = "ok" THEN 1 ELSE 0)
  /\ sweep' = [sweep EXCEPT ![r] = x] /\ events' = [events EXCEPT ![e] = y]
LEMMA PostMoves ==
  ASSUME Types, NEW r \in Replicas, Post(r)
  PROVE  \E e \in 1..Len(events), x \in SweepOf, y \in EventOf : Posted(r, e, x, y)
<1> DEFINE e == sweep[r].batch[1].e
<1>1. sweep[r] \in SweepOf /\ sweep \in [Replicas -> SweepOf] /\ events \in Seq(EventOf)
  BY DEF Types, Shape
<1>2. sweep[r].at = "post"
  BY DEF Post, At
<1>3. Exists(sweep[r].batch) /\ sweep[r].batch \in Seq(Batched)
  BY <1>1, <1>2 DEF Types, SweepOf
<1>4. e \in 1..Len(events)
  BY <1>3 DEF Exists
<1>5. events[e] \in EventOf
  BY <1>1, <1>4
<1>6. PICK answer \in {"ok", "bad"} :
        /\ sweep' = [sweep EXCEPT ![r].at = "record", ![r].answer = answer]
        /\ events' = [events EXCEPT ![e].accepted = IF answer = "ok" THEN @ + 1 ELSE @]
  BY DEF Post
<1> HIDE DEF e
<1>7. PICK x \in SweepOf : x = [sweep[r] EXCEPT !.at = "record", !.answer = answer]
  BY <1>1 DEF SweepOf, Places, Answers
<1>8. sweep' = [sweep EXCEPT ![r] = x]
  BY <1>1, <1>6, <1>7
<1> DEFINE n == IF answer = "ok" THEN events[e].accepted + 1 ELSE events[e].accepted
<1>9. n \in Nat
  BY <1>5 DEF EventOf
<1>10. events' = [events EXCEPT ![e].accepted = n]
  BY <1>6
<1>11. n = events[e].accepted + (IF answer = "ok" THEN 1 ELSE 0)
  BY <1>5 DEF EventOf
<1> HIDE DEF n
<1>12. PICK y \in EventOf : y = [events[e] EXCEPT !.accepted = n]
  BY <1>5, <1>9 DEF EventOf
<1>13. events' = [events EXCEPT ![e] = y]
  BY <1>1, <1>4, <1>10, <1>12
<1>14. e = sweep[r].batch[1].e
  BY DEF e
<1>15. x.at = "record" /\ x.batch = sweep[r].batch /\ x.answer = answer
  BY <1>1, <1>7 DEF SweepOf
<1>16. y.status = events[e].status /\ y.lost = events[e].lost /\ y.accepted = n
  BY <1>5, <1>12 DEF EventOf
<1> QED BY <1>2, <1>3, <1>4, <1>8, <1>11, <1>13, <1>14, <1>15, <1>16 DEF Posted

LEMMA TypesPost == ASSUME Types, NEW r \in Replicas, Post(r) PROVE Types'
<1>1. PICK e \in 1..Len(events), x \in SweepOf, y \in EventOf : Posted(r, e, x, y)
  BY PostMoves
<1>2. /\ Exists(sweep[r].batch) /\ x.batch = sweep[r].batch
      /\ sweep' = [sweep EXCEPT ![r] = x] /\ events' = [events EXCEPT ![e] = y]
  BY <1>1 DEF Posted
<1>3. resend' = resend /\ lease' \in LeaseOf
  BY DEF Post, config, Types, Shape
<1>4. events' \in Seq(EventOf) /\ Len(events') = Len(events)
  BY <1>2, RowChanges
<1> QED BY <1>2, <1>3, <1>4, Moves

\* What a replica records is the answer to that row; then it takes the next one.
Recorded(r, e, x, y) ==
  /\ sweep[r].at = "record" /\ e = sweep[r].batch[1].e /\ Exists(sweep[r].batch)
  /\ x.batch = Tail(sweep[r].batch) /\ x.at \in {"post", "gone", "release"}
  /\ x.at = "post" => x.batch # <<>>
  /\ sweep' = [sweep EXCEPT ![r] = x] /\ events' = [events EXCEPT ![e] = y]
  /\ y.accepted = events[e].accepted
  /\ \/ /\ y.lost = events[e].lost
        /\ y.status \in {"delivered", "failed", "retrying"}
        /\ y.status = "delivered" <=> sweep[r].answer = "ok"
     \/ /\ y.lost = events[e].lost + (IF sweep[r].answer = "ok" THEN 1 ELSE 0)
        /\ y.status = events[e].status
LEMMA RecordMoves ==
  ASSUME Types, NEW r \in Replicas, Record(r)
  PROVE  \E e \in 1..Len(events), x \in SweepOf, y \in EventOf : Recorded(r, e, x, y)
<1> DEFINE e == sweep[r].batch[1].e
           n == sweep[r].batch[1].attempts + 1
           others == Tail(sweep[r].batch)
           p == IF others # <<>> THEN "post" ELSE AfterSweep(r)
<1>1. sweep[r] \in SweepOf /\ sweep \in [Replicas -> SweepOf] /\ events \in Seq(EventOf)
  BY DEF Types, Shape
<1>2. sweep[r].at = "record"
  BY DEF Record, At
<1>3. Exists(sweep[r].batch) /\ sweep[r].batch \in Seq(Batched)
  BY <1>1, <1>2 DEF Types, SweepOf
<1>4. e \in 1..Len(events)
  BY <1>3 DEF Exists
<1>5. events[e] \in EventOf
  BY <1>1, <1>4
<1>6. n \in Int
  <2>1. sweep[r].batch[1] \in Batched
    BY <1>3 DEF Exists
  <2> QED BY <2>1 DEF Batched
<1>7. others \in Seq(Batched)
  BY <1>3 DEF Exists
<1>8. p \in {"post", "gone", "release"} /\ (p = "post" => others # <<>>)
  BY DEF AfterSweep
<1>9. sweep' = [sweep EXCEPT ![r].batch = others, ![r].answer = "none", ![r].at = p]
  BY DEF Record, TakeNext
<1> HIDE DEF p, others
<1>10. PICK x \in SweepOf : x = [sweep[r] EXCEPT !.batch = others, !.answer = "none", !.at = p]
  BY <1>1, <1>7, <1>8 DEF SweepOf, Places, Answers
<1>11. sweep' = [sweep EXCEPT ![r] = x]
  BY <1>1, <1>9, <1>10
<1>12. x.batch = others /\ x.at = p
  BY <1>1, <1>10 DEF SweepOf
<1> DEFINE s == IF sweep[r].answer = "ok" THEN "delivered"
                ELSE IF n >= MaxAttempts THEN "failed" ELSE "retrying"
           l == IF sweep[r].answer = "ok" THEN events[e].lost + 1 ELSE events[e].lost
<1>13. \/ events' = [events EXCEPT ![e].status = s, ![e].attempts = n, ![e].due = FALSE]
       \/ events' = [events EXCEPT ![e].lost = l]
  BY DEF Record
<1>14. s \in {"delivered", "failed", "retrying"} /\ (s = "delivered" <=> sweep[r].answer = "ok")
  OBVIOUS
<1>15. l \in Nat /\ l = events[e].lost + (IF sweep[r].answer = "ok" THEN 1 ELSE 0)
  BY <1>5 DEF EventOf
<1> HIDE DEF e, n, s, l
<1>16. \E y \in EventOf :
         /\ events' = [events EXCEPT ![e] = y]
         /\ y.accepted = events[e].accepted
         /\ \/ y.lost = events[e].lost /\ y.status = s
            \/ y.lost = l /\ y.status = events[e].status
  <2>1. CASE events' = [events EXCEPT ![e].status = s, ![e].attempts = n, ![e].due = FALSE]
    <3>1. PICK y \in EventOf : y = [events[e] EXCEPT !.status = s, !.attempts = n, !.due = FALSE]
      BY <1>5, <1>6, <1>14 DEF EventOf, Open
    <3>2. events' = [events EXCEPT ![e] = y]
      BY <1>1, <1>4, <2>1, <3>1
    <3>3. y.accepted = events[e].accepted /\ y.lost = events[e].lost /\ y.status = s
      BY <1>5, <3>1 DEF EventOf
    <3> QED BY <3>2, <3>3
  <2>2. CASE events' = [events EXCEPT ![e].lost = l]
    <3>1. PICK y \in EventOf : y = [events[e] EXCEPT !.lost = l]
      BY <1>5, <1>15 DEF EventOf
    <3>2. events' = [events EXCEPT ![e] = y]
      BY <1>1, <1>4, <2>2, <3>1
    <3>3. y.accepted = events[e].accepted /\ y.lost = l /\ y.status = events[e].status
      BY <1>5, <3>1 DEF EventOf
    <3> QED BY <3>2, <3>3
  <2> QED BY <1>13, <2>1, <2>2
<1>17. e = sweep[r].batch[1].e /\ others = Tail(sweep[r].batch)
  BY DEF e, others
<1>18. x.batch = Tail(sweep[r].batch) /\ x.at \in {"post", "gone", "release"} /\ (x.at = "post" => x.batch # <<>>)
  BY <1>8, <1>12, <1>17
<1>19. PICK y \in EventOf :
         /\ events' = [events EXCEPT ![e] = y]
         /\ y.accepted = events[e].accepted
         /\ \/ y.lost = events[e].lost /\ y.status = s
            \/ y.lost = l /\ y.status = events[e].status
  BY <1>16
<1>20. \/ /\ y.lost = events[e].lost
          /\ y.status \in {"delivered", "failed", "retrying"}
          /\ y.status = "delivered" <=> sweep[r].answer = "ok"
       \/ /\ y.lost = events[e].lost + (IF sweep[r].answer = "ok" THEN 1 ELSE 0)
          /\ y.status = events[e].status
  BY <1>14, <1>15, <1>19
<1> QED BY <1>2, <1>3, <1>4, <1>11, <1>17, <1>18, <1>19, <1>20 DEF Recorded

LEMMA TypesRecord == ASSUME Types, NEW r \in Replicas, Record(r) PROVE Types'
<1>1. PICK e \in 1..Len(events), x \in SweepOf, y \in EventOf : Recorded(r, e, x, y)
  BY RecordMoves
<1>2. /\ Exists(sweep[r].batch)
      /\ x.batch = Tail(sweep[r].batch) /\ x.at \in {"post", "gone", "release"}
      /\ x.at = "post" => x.batch # <<>>
      /\ sweep' = [sweep EXCEPT ![r] = x] /\ events' = [events EXCEPT ![e] = y]
  BY <1>1 DEF Recorded
<1>3. resend' = resend /\ lease' \in LeaseOf /\ sweep[r].batch \in Seq(Batched)
  BY DEF Record, config, Types, Shape, SweepOf
<1>4. events' \in Seq(EventOf) /\ Len(events') = Len(events)
  BY <1>2, RowChanges
<1>5. \A k \in 1..Len(x.batch) : x.batch[k] = sweep[r].batch[k + 1] /\ k + 1 \in 1..Len(sweep[r].batch)
  BY <1>2, <1>3 DEF Exists
<1>6. x.at \in {"post", "record"} => Exists(x.batch)
  BY <1>2, <1>5 DEF Exists
<1> QED BY <1>2, <1>3, <1>4, <1>6, Moves

\* A killed process is gone, and with it the answer it had.
LEMMA CrashMoves ==
  ASSUME Types, NEW r \in Replicas, Crash(r)
  PROVE  /\ \E x \in SweepOf : x.at = "gone" /\ sweep' = [sweep EXCEPT ![r] = x]
         /\ \/ /\ events' = events
               /\ ~(sweep[r].at = "record" /\ sweep[r].answer = "ok")
            \/ /\ sweep[r].at = "record" /\ sweep[r].answer = "ok"
               /\ \E e \in 1..Len(events), y \in EventOf :
                    /\ e = sweep[r].batch[1].e /\ events' = [events EXCEPT ![e] = y]
                    /\ y.accepted = events[e].accepted /\ y.lost = events[e].lost + 1
                    /\ y.status = events[e].status
<1>1. sweep[r] \in SweepOf /\ sweep \in [Replicas -> SweepOf] /\ events \in Seq(EventOf)
  BY DEF Types, Shape
<1>2. \E x \in SweepOf : x.at = "gone" /\ sweep' = [sweep EXCEPT ![r] = x]
  <2>1. Idle \in SweepOf
    BY DEF Idle, SweepOf, Places, Answers
  <2>2. PICK x \in SweepOf : x = [Idle EXCEPT !.at = "gone"]
    BY <2>1 DEF SweepOf, Places
  <2>3. x.at = "gone" /\ sweep' = [sweep EXCEPT ![r] = x]
    BY <2>1, <2>2 DEF Crash, SweepOf
  <2> QED BY <2>3
<1>3. PICK x \in SweepOf : x.at = "gone" /\ sweep' = [sweep EXCEPT ![r] = x]
  BY <1>2
<1>4. CASE ~(sweep[r].at = "record" /\ sweep[r].answer = "ok")
  BY <1>3, <1>4 DEF Crash, At
<1>5. CASE sweep[r].at = "record" /\ sweep[r].answer = "ok"
  <2> DEFINE e == sweep[r].batch[1].e
  <2>1. Exists(sweep[r].batch)
    BY <1>5 DEF Types
  <2>2. e \in 1..Len(events)
    BY <2>1, <1>1 DEF Exists, SweepOf
  <2>3. events[e] \in EventOf
    BY <1>1, <2>2
  <2>4. events' = [events EXCEPT ![e].lost = @ + 1]
    BY <1>5 DEF Crash, At
  <2> HIDE DEF e
  <2> DEFINE l == events[e].lost + 1
  <2>5. l \in Nat
    BY <2>3 DEF EventOf
  <2>6. events' = [events EXCEPT ![e].lost = l]
    BY <2>4
  <2>7. l = events[e].lost + 1
    OBVIOUS
  <2> HIDE DEF l
  <2>8. PICK y \in EventOf : y = [events[e] EXCEPT !.lost = l]
    BY <2>3, <2>5 DEF EventOf
  <2>9. events' = [events EXCEPT ![e] = y]
    BY <1>1, <2>2, <2>6, <2>8
  <2>10. y.accepted = events[e].accepted /\ y.lost = events[e].lost + 1 /\ y.status = events[e].status
    BY <2>3, <2>8, <2>7 DEF EventOf
  <2>11. e = sweep[r].batch[1].e
    BY DEF e
  <2> QED BY <1>3, <1>5, <2>2, <2>9, <2>10, <2>11
<1> QED BY <1>4, <1>5

LEMMA TypesCrash == ASSUME Types, NEW r \in Replicas, Crash(r) PROVE Types'
<1>1. PICK x \in SweepOf : x.at = "gone" /\ sweep' = [sweep EXCEPT ![r] = x]
  BY CrashMoves
<1>2. resend' = resend /\ lease' \in LeaseOf
  BY DEF Crash, config, Types, Shape
<1>3. events' \in Seq(EventOf) /\ Len(events') = Len(events)
  <2>1. events' = events \/ \E e \in 1..Len(events), y \in EventOf : events' = [events EXCEPT ![e] = y]
    BY CrashMoves
  <2> QED BY <2>1, RowChanges DEF Types, Shape
<1> QED BY <1>1, <1>2, <1>3, Moves

LEMMA TypesShutdown == ASSUME Types, NEW r \in Replicas, Shutdown(r) PROVE Types'
<1>1. sweep[r] \in SweepOf /\ sweep \in [Replicas -> SweepOf] /\ lease \in LeaseOf
  BY DEF Types, Shape
<1>2. resend' = resend /\ events' = events /\ events' \in Seq(EventOf)
  BY DEF Shutdown, config, Types, Shape
<1> DEFINE d == Sweeping(r)
           p == IF sweep[r].at = "sleep" THEN "gone" ELSE sweep[r].at
<1>3. d \in BOOLEAN /\ p \in Places /\ (p \in {"post", "record"} => p = sweep[r].at)
  BY <1>1 DEF Sweeping, SweepOf, Places
<1>4. sweep' = [sweep EXCEPT ![r].down = d, ![r].at = p]
  BY DEF Shutdown
<1>5. lease' \in LeaseOf
  BY <1>1 DEF Shutdown, Released, LeaseOf
<1> HIDE DEF d, p
<1>6. PICK x \in SweepOf : x = [sweep[r] EXCEPT !.down = d, !.at = p]
  BY <1>1, <1>3 DEF SweepOf
<1>7. sweep' = [sweep EXCEPT ![r] = x] /\ x.at = p /\ x.batch = sweep[r].batch
  BY <1>1, <1>4, <1>6 DEF SweepOf
<1>8. x.at \in {"post", "record"} => Exists(x.batch)
  BY <1>3, <1>7 DEF Types
<1> QED BY <1>2, <1>5, <1>7, <1>8, Moves

\* An address's payment, a row whose backoff is over, an administrator's resend.
LEMMA TypesQueue ==
  ASSUME Types,
         \/ \E m \in Merchants : EnqueueWebhookEvent(m)
         \/ \E e \in DOMAIN events : BackoffOver(e)
         \/ \E a \in Admins : Resend(a)
         \/ \E e \in DOMAIN events, a \in Admins : ReadToResend(a, e)
  PROVE  Types'
<1>1. /\ events \in Seq(EventOf) /\ lease \in LeaseOf /\ resend \in [Admins -> Nat]
      /\ \A a \in Admins : resend[a] \in 0..Len(events)
  BY DEF Types, Shape
<1>2. CASE \E m \in Merchants : EnqueueWebhookEvent(m)
  <2>1. PICK m \in Merchants : EnqueueWebhookEvent(m)
    BY <1>2
  <2>2. [m |-> m, status |-> "pending", attempts |-> 0, due |-> TRUE, accepted |-> 0, lost |-> 0] \in EventOf
    BY DEF EventOf, Open
  <2>3. events' \in Seq(EventOf) /\ Len(events') = Len(events) + 1
    BY <1>1, <2>1, <2>2 DEF EnqueueWebhookEvent
  <2> QED BY <1>1, <2>1, <2>3, QueueMoves DEF EnqueueWebhookEvent, config
<1>3. CASE \E e \in DOMAIN events : BackoffOver(e)
  <2>1. PICK e \in DOMAIN events : BackoffOver(e)
    BY <1>3
  <2>2. e \in 1..Len(events) /\ events[e] \in EventOf
    BY <1>1
  <2>3. PICK y \in EventOf : y = [events[e] EXCEPT !.due = TRUE]
    BY <2>2 DEF EventOf
  <2>4. events' = [events EXCEPT ![e] = y]
    BY <1>1, <2>1, <2>2, <2>3 DEF BackoffOver
  <2>5. events' \in Seq(EventOf) /\ Len(events') = Len(events)
    BY <2>2, <2>4, RowChanges
  <2> QED BY <1>1, <2>1, <2>5, QueueMoves DEF BackoffOver, config
<1>4. CASE \E a \in Admins : Resend(a)
  <2>1. PICK a \in Admins : Resend(a)
    BY <1>4
  <2> DEFINE e == resend[a]
  <2>2. resend[a] # 0
    BY <2>1 DEF Resend
  <2>3. e # 0 /\ e \in 0..Len(events) /\ Len(events) \in Nat
    BY <1>1, <2>2
  <2>4. e \in 1..Len(events)
    BY <2>3
  <2>5. events[e] \in EventOf
    BY <1>1, <2>4
  <2>6. events' = [events EXCEPT ![e].status = "retrying", ![e].attempts = 0, ![e].due = TRUE]
    BY <2>1 DEF Resend
  <2> HIDE DEF e
  <2>7. PICK y \in EventOf : y = [events[e] EXCEPT !.status = "retrying", !.attempts = 0, !.due = TRUE]
    <3>1. "retrying" \in Open \cup {"delivered", "failed"} /\ 0 \in Int
      BY DEF Open
    <3> QED BY <2>5, <3>1 DEF EventOf
  <2>8. events' = [events EXCEPT ![e] = y]
    BY <1>1, <2>4, <2>6, <2>7
  <2>9. events' \in Seq(EventOf) /\ Len(events') = Len(events)
    BY <2>4, <2>8, RowChanges
  <2>10. lease' = lease /\ sweep' = sweep /\ resend' = [resend EXCEPT ![a] = 0]
    BY <2>1 DEF Resend
  <2>11. resend' \in [Admins -> Nat] /\ \A b \in Admins : resend'[b] \in 0..Len(events)
    BY <1>1, <2>3, <2>10
  <2> QED BY <1>1, <2>9, <2>3, <2>10, <2>11, QueueMoves
<1>5. CASE \E e \in DOMAIN events, a \in Admins : ReadToResend(a, e)
  <2>1. PICK e \in DOMAIN events, a \in Admins : ReadToResend(a, e)
    BY <1>5
  <2>2. e \in 1..Len(events)
    BY <1>1
  <2> QED BY <1>1, <2>1, <2>2, QueueMoves DEF ReadToResend
<1> QED BY <1>2, <1>3, <1>4, <1>5

\* Steps on the configuration or the clock alone.
LEMMA TypesBetween ==
  ASSUME Types,
         \/ \E m \in Merchants : KeyChanges(m)
         \/ \E m \in Merchants, u, g \in BOOLEAN : UpdateWebhookConfig(m, u, g)
         \/ Expire
         \/ UNCHANGED vars
  PROVE  Types'
<1>1. sweep' = sweep /\ events' = events /\ resend' = resend
  BY DEF KeyChanges, UpdateWebhookConfig, Expire, config, vars
<1>2. lease' \in LeaseOf
  BY DEF KeyChanges, UpdateWebhookConfig, Expire, vars, Types, Shape, LeaseOf
<1> QED BY <1>1, <1>2, QueueMoves DEF Types, Shape

LEMMA TypesInit == ASSUME Init PROVE Types
<1>1. Idle \in SweepOf /\ Idle.at = "sleep"
  BY DEF Idle, SweepOf, Places, Answers
<1>2. Shape /\ \A a \in Admins : resend[a] = 0
  BY <1>1 DEF Init, Shape, LeaseOf
<1>3. \A r \in Replicas : sweep[r].at = "sleep"
  BY <1>1 DEF Init
<1> QED BY <1>2, <1>3 DEF Types, Shape

LEMMA TypesNext == ASSUME Types, [Next]_vars PROVE Types'
<1>1. ASSUME NEW r \in Replicas, Loop(r) \/ Crash(r) \/ Shutdown(r) PROVE Types'
  BY <1>1, TypesClaim, TypesBeside, TypesRead, TypesPost, TypesRecord, TypesCrash, TypesShutdown DEF Loop
<1>2. CASE \E r \in Replicas : Loop(r) \/ Crash(r) \/ Shutdown(r)
  BY <1>1, <1>2
<1>3. CASE ~\E r \in Replicas : Loop(r) \/ Crash(r) \/ Shutdown(r)
  BY <1>3, TypesQueue, TypesBetween DEF Next
<1> QED BY <1>2, <1>3
-----------------------------------------------------------------------------
(***************************************************************************)
(* One sweep at a time, of rows that are open.                             *)
(***************************************************************************)
\* One replica moves to a place where it holds no answer of success, and the events stay.
LEMMA OneMoves ==
  ASSUME IInv, Types', NEW r \in Replicas, NEW x \in SweepOf, sweep' = [sweep EXCEPT ![r] = x],
         events' = events, resend' = resend,
         \A q \in Replicas \ {r} : Holds(q)', Holds(r)', Pending(r)', x.at # "record",
         ~(sweep[r].at = "record" /\ sweep[r].answer = "ok")
  PROVE  IInv'
<1>1. sweep'[r] = x /\ \A q \in Replicas \ {r} : sweep'[q] = sweep[q]
  BY DEF IInv, Types, Shape
<1>2. LeaseHeld'
  BY DEF LeaseHeld
<1>3. BatchesOpen'
  BY <1>1 DEF IInv, BatchesOpen, Pending
<1>4. ResendsGivenUp'
  BY DEF IInv, ResendsGivenUp
<1>5. \A e : InFlight(e)' <=> InFlight(e)
  BY <1>1 DEF InFlight
<1>6. AnswersCounted'
  BY <1>5 DEF IInv, AnswersCounted, Counted
<1> QED BY <1>2, <1>3, <1>4, <1>6 DEF IInv

LEMMA ClaimOK == ASSUME IInv, Types', NEW r \in Replicas, Claim(r) PROVE IInv'
<1>1. sweep[r] \in SweepOf /\ lease \in LeaseOf /\ sweep \in [Replicas -> SweepOf]
  BY DEF IInv, Types, Shape
<1>2. resend' = resend /\ events' = events /\ sweep[r].at \in {"sleep", "reclaim"}
  BY DEF Claim, config
<1>3. CASE Free
  <2>1. PICK x \in SweepOf : x = [sweep[r] EXCEPT !.at = "read"]
    BY <1>1 DEF SweepOf, Places
  <2>2. x.at = "read" /\ sweep' = [sweep EXCEPT ![r] = x]
    BY <1>1, <1>3, <2>1 DEF Claim, To, SweepOf
  <2>3. lease'.live /\ lease'.holder = r
    BY <1>1, <1>3 DEF Claim, LeaseOf
  <2>4. \A q \in Replicas \ {r} : sweep[q].at \notin {"read", "post", "record"} /\ sweep'[q] = sweep[q]
    BY <1>1, <1>3, <2>2 DEF IInv, LeaseHeld, Holds, Free
  <2>5. sweep'[r].at = "read"
    BY <1>1, <2>2
  <2>6. Holds(r)' /\ Pending(r)' /\ \A q \in Replicas \ {r} : Holds(q)'
    BY <2>3, <2>4, <2>5 DEF Holds, Pending
  <2> QED BY <1>2, <2>2, <2>6, OneMoves
<1>4. CASE ~Free
  <2>1. PICK p \in {"probe", "sleep"} : To(r, p)
    BY <1>4 DEF Claim
  <2>2. PICK x \in SweepOf : x = [sweep[r] EXCEPT !.at = p]
    BY <1>1 DEF SweepOf, Places
  <2>3. x.at = p /\ sweep' = [sweep EXCEPT ![r] = x] /\ lease' = lease
    BY <1>1, <1>4, <2>1, <2>2 DEF Claim, To, SweepOf
  <2>4. sweep'[r].at = p /\ \A q \in Replicas \ {r} : sweep'[q] = sweep[q]
    BY <1>1, <2>3
  <2>5. Holds(r)' /\ Pending(r)' /\ \A q \in Replicas \ {r} : Holds(q)'
    BY <2>3, <2>4 DEF IInv, LeaseHeld, Holds, Pending
  <2> QED BY <1>2, <2>3, <2>5, OneMoves
<1> QED BY <1>3, <1>4

LEMMA BesideOK ==
  ASSUME IInv, Types', NEW r \in Replicas,
         LeaseRowMissing(r) \/ Seed(r) \/ ReleaseLease(r) \/ Boot(r)
  PROVE  IInv'
<1>1. sweep \in [Replicas -> SweepOf] /\ Types
  BY DEF IInv, Types, Shape
<1>2. PICK x \in SweepOf : x.at \in {"sleep", "seed", "reclaim"} /\ sweep' = [sweep EXCEPT ![r] = x]
  BY <1>1, BesideMoves
<1>3. /\ sweep[r].at \in {"probe", "seed", "release", "gone"} /\ resend' = resend /\ events' = events
      /\ lease'.holder = lease.holder /\ (lease.holder # r => lease'.live = lease.live)
  BY <1>1, BesideMoves
<1>4. sweep'[r].at = x.at /\ \A q \in Replicas \ {r} : sweep'[q] = sweep[q]
  BY <1>1, <1>2
<1>5. Holds(r)' /\ Pending(r)' /\ \A q \in Replicas \ {r} : Holds(q)'
  BY <1>2, <1>3, <1>4 DEF IInv, LeaseHeld, Holds, Pending
<1> QED BY <1>2, <1>3, <1>5, OneMoves

LEMMA ReadOK == ASSUME IInv, Types', NEW r \in Replicas, ReadQueue(r) PROVE IInv'
<1>1. Types /\ Shape /\ sweep \in [Replicas -> SweepOf]
  BY DEF IInv, Types, Shape
<1>2. PICK q \in InTurn(DueEvents), x \in SweepOf :
           /\ sweep' = [sweep EXCEPT ![r] = x] /\ x.answer = sweep[r].answer
           /\ x.batch = [k \in 1..Len(q) |-> [e |-> q[k], attempts |-> events[q[k]].attempts]]
           /\ x.batch \in Seq(Batched) /\ Len(x.batch) = Len(q) /\ q \in Seq(1..Len(events))
           /\ x.at \in {"post", "gone", "release"} /\ (x.at = "post" <=> q # <<>>)
  BY <1>1, ReadMoves
<1>3. sweep[r].at = "read" /\ resend' = resend /\ events' = events /\ lease' = lease
  BY DEF ReadQueue, At, config
<1>4. sweep'[r] = x /\ \A p \in Replicas \ {r} : sweep'[p] = sweep[p]
  BY <1>1, <1>2
<1>5. /\ \A k \in 1..Len(q) : events[q[k]].status \in Open
      /\ \A j, k \in 1..Len(q) : q[j] = q[k] => j = k
  BY <1>1, InTurnOK
<1>6. \A k \in 1..Len(q) : x.batch[k].e = q[k]
  BY <1>2
<1>7. Pending(r)'
  BY <1>2, <1>3, <1>4, <1>5, <1>6 DEF Pending
<1>8. Holds(r)' /\ \A p \in Replicas \ {r} : Holds(p)'
  BY <1>2, <1>3, <1>4 DEF IInv, LeaseHeld, Holds
<1> QED BY <1>2, <1>3, <1>7, <1>8, OneMoves

LEMMA ShutdownOK == ASSUME IInv, Types', LeaseOutlives, NEW r \in Replicas, Shutdown(r) PROVE IInv'
<1>1. sweep[r] \in SweepOf /\ lease \in LeaseOf /\ sweep \in [Replicas -> SweepOf]
  BY DEF IInv, Types, Shape
<1>2. resend' = resend /\ events' = events /\ sweep[r].at = "sleep"
  BY DEF Shutdown, config, LeaseOutlives
<1>3. lease' = lease
  BY <1>2 DEF Shutdown, Sweeping
<1> DEFINE d == Sweeping(r)
           p == IF sweep[r].at = "sleep" THEN "gone" ELSE sweep[r].at
<1>4. d \in BOOLEAN /\ p = "gone"
  BY <1>2 DEF Sweeping
<1>5. sweep' = [sweep EXCEPT ![r].down = d, ![r].at = p]
  BY DEF Shutdown
<1> HIDE DEF d, p
<1>6. PICK x \in SweepOf : x = [sweep[r] EXCEPT !.down = d, !.at = "gone"]
  BY <1>1, <1>4 DEF SweepOf, Places
<1>7. x.at = "gone" /\ sweep' = [sweep EXCEPT ![r] = x]
  BY <1>1, <1>4, <1>5, <1>6 DEF SweepOf
<1>8. sweep'[r].at = "gone" /\ \A q \in Replicas \ {r} : sweep'[q] = sweep[q]
  BY <1>1, <1>7
<1>9. Holds(r)' /\ Pending(r)' /\ \A q \in Replicas \ {r} : Holds(q)'
  BY <1>3, <1>8 DEF IInv, LeaseHeld, Holds, Pending
<1> QED BY <1>2, <1>7, <1>9, OneMoves

\* Nobody else sweeps.
LEMMA Alone ==
  ASSUME LeaseHeld, NEW r \in Replicas, sweep[r].at \in {"read", "post", "record"}
  PROVE  \A q \in Replicas \ {r} : sweep[q].at \notin {"read", "post", "record"}
<1> QED BY DEF LeaseHeld, Holds

LEMMA PostOK == ASSUME IInv, Types', NEW r \in Replicas, Post(r) PROVE IInv'
<1>1. Types /\ Shape /\ sweep \in [Replicas -> SweepOf]
  BY DEF IInv, Types, Shape
<1>2. PICK e \in 1..Len(events), x \in SweepOf, y \in EventOf : Posted(r, e, x, y)
  BY <1>1, PostMoves
<1>3. /\ sweep[r].at = "post" /\ e = sweep[r].batch[1].e /\ Exists(sweep[r].batch)
      /\ sweep' = [sweep EXCEPT ![r] = x] /\ events' = [events EXCEPT ![e] = y]
  BY <1>2 DEF Posted
<1>4. sweep'[r] = x /\ \A q \in Replicas \ {r} : sweep'[q] = sweep[q]
  BY <1>1, <1>3
<1>5. /\ x.at = "record" /\ x.batch = sweep[r].batch
      /\ y.status = events[e].status /\ y.lost = events[e].lost
      /\ y.accepted = events[e].accepted + (IF x.answer = "ok" THEN 1 ELSE 0)
  BY <1>2 DEF Posted
<1>6. events[e] \in EventOf
  BY <1>1, <1>3 DEF Shape
<1>7. /\ Len(events') = Len(events) /\ events'[e] = y
      /\ \A d \in 1..Len(events) \ {e} : events'[d] = events[d]
  BY <1>1, <1>3, RowChanges
<1>8. lease' = lease /\ resend' = resend
  BY DEF Post, config
<1>9. \A d \in 1..Len(events) : events'[d].status = events[d].status
  BY <1>5, <1>7
<1>10. LeaseHeld'
  BY <1>3, <1>4, <1>5, <1>8 DEF IInv, LeaseHeld, Holds
<1>11. \A q \in Replicas \ {r} : sweep'[q].at \notin {"read", "post", "record"}
  BY <1>3, <1>4, Alone DEF IInv
<1>12. Pending(r)
  BY DEF IInv, BatchesOpen
<1>13. BatchesOpen'
  <2> DEFINE b == sweep[r].batch
  <2>1. /\ \A k \in 1..Len(b) : b[k].e \in 1..Len(events) /\ events[b[k].e].status \in Open
        /\ \A j, k \in 1..Len(b) : b[j].e = b[k].e => j = k
    BY <1>3, <1>12 DEF Pending, Exists
  <2> HIDE DEF b
  <2>2. \A k \in 1..Len(b) : events'[b[k].e].status \in Open
    BY <1>9, <2>1
  <2>3. sweep'[r].batch = b
    BY <1>4, <1>5 DEF b
  <2>4. Pending(r)'
    BY <2>1, <2>2, <2>3 DEF Pending
  <2> QED BY <1>11, <2>4 DEF BatchesOpen, Pending
<1>14. ResendsGivenUp'
  <2>1. \A a \in Admins : resend[a] # 0 => resend[a] \in 1..Len(events)
    BY <1>1 DEF Types, Shape
  <2> QED BY <1>8, <1>9, <2>1 DEF IInv, ResendsGivenUp
<1>15. events[e].status \in Open
  <2>1. 1 \in 1..Len(sweep[r].batch)
    BY <1>1, <1>3 DEF Exists, SweepOf
  <2> QED BY <1>3, <1>12, <2>1 DEF Pending
<1>16. AnswersCounted'
  <2> SUFFICES ASSUME NEW d \in 1..Len(events) PROVE Counted(d)'
    BY <1>7 DEF AnswersCounted
  <2>1. Counted(d) /\ ~InFlight(d)
    BY <1>3, Alone DEF IInv, AnswersCounted, InFlight
  <2>2. CASE d # e
    BY <1>7, <2>1, <2>2 DEF Counted
  <2>3. CASE d = e
    <3>1. events[e].accepted <= events[e].lost
      BY <1>15, <2>1, <2>3 DEF Counted, Open
    <3>2. x.answer = "ok" => InFlight(e)'
      BY <1>3, <1>4, <1>5 DEF InFlight
    <3>3. events[e].accepted \in Nat /\ events[e].lost \in Nat
      BY <1>6 DEF EventOf
    <3> QED BY <1>5, <1>7, <2>3, <3>1, <3>2, <3>3 DEF Counted
  <2> QED BY <2>2, <2>3
<1> QED BY <1>10, <1>13, <1>14, <1>16 DEF IInv

LEMMA RecordOK == ASSUME IInv, Types', NEW r \in Replicas, Record(r) PROVE IInv'
<1>1. Types /\ Shape /\ sweep \in [Replicas -> SweepOf] /\ sweep[r].batch \in Seq(Batched)
  BY DEF IInv, Types, Shape, SweepOf
<1>2. PICK e \in 1..Len(events), x \in SweepOf, y \in EventOf : Recorded(r, e, x, y)
  BY <1>1, RecordMoves
<1>3. /\ sweep[r].at = "record" /\ e = sweep[r].batch[1].e /\ Exists(sweep[r].batch)
      /\ x.batch = Tail(sweep[r].batch) /\ x.at \in {"post", "gone", "release"}
      /\ sweep' = [sweep EXCEPT ![r] = x] /\ events' = [events EXCEPT ![e] = y]
  BY <1>2 DEF Recorded
<1>4. /\ y.accepted = events[e].accepted
      /\ \/ /\ y.lost = events[e].lost
            /\ y.status \in {"delivered", "failed", "retrying"}
            /\ y.status = "delivered" <=> sweep[r].answer = "ok"
         \/ /\ y.lost = events[e].lost + (IF sweep[r].answer = "ok" THEN 1 ELSE 0)
            /\ y.status = events[e].status
  BY <1>2 DEF Recorded
<1>5. sweep'[r] = x /\ \A q \in Replicas \ {r} : sweep'[q] = sweep[q]
  BY <1>1, <1>3
<1>6. /\ Len(events') = Len(events) /\ events'[e] = y
      /\ \A d \in 1..Len(events) \ {e} : events'[d] = events[d]
  BY <1>1, <1>3, RowChanges
<1>7. lease' = lease /\ resend' = resend
  BY DEF Record, config
<1>8. LeaseHeld'
  BY <1>3, <1>5, <1>7 DEF IInv, LeaseHeld, Holds
<1>9. \A q \in Replicas \ {r} : sweep'[q].at \notin {"read", "post", "record"}
  BY <1>3, <1>5, Alone DEF IInv
<1>10. Pending(r)
  BY DEF IInv, BatchesOpen
<1>11. events[e].status \in Open
  BY <1>1, <1>3, <1>10 DEF Pending, Exists
<1>12. BatchesOpen'
  <2> DEFINE b == sweep[r].batch
  <2>1. /\ \A k \in 1..Len(x.batch) : x.batch[k] = b[k + 1] /\ k + 1 \in 1..Len(b) /\ k + 1 # 1
        /\ 1 \in 1..Len(b) /\ Len(x.batch) \in Nat
    BY <1>1, <1>3 DEF Exists
  <2>2. \A j, k \in 1..Len(b) : b[j].e = b[k].e => j = k
    BY <1>3, <1>10 DEF Pending
  <2>3. \A k \in 1..Len(b) : b[k].e \in 1..Len(events) /\ events[b[k].e].status \in Open
    BY <1>3, <1>10 DEF Pending, Exists
  <2> HIDE DEF b
  <2>4. e = b[1].e
    BY <1>3 DEF b
  <2>5. \A k \in 1..Len(x.batch) : /\ x.batch[k].e # e /\ x.batch[k].e \in 1..Len(events)
                                   /\ events[x.batch[k].e].status \in Open
    BY <2>1, <2>2, <2>3, <2>4
  <2>6. \A k \in 1..Len(x.batch) : events'[x.batch[k].e].status \in Open
    BY <1>6, <2>5
  <2>7. \A j, k \in 1..Len(x.batch) : x.batch[j].e = x.batch[k].e => j = k
    <3> SUFFICES ASSUME NEW j \in 1..Len(x.batch), NEW k \in 1..Len(x.batch), x.batch[j].e = x.batch[k].e
                 PROVE  j = k
      OBVIOUS
    <3>1. b[j + 1].e = b[k + 1].e /\ j + 1 \in 1..Len(b) /\ k + 1 \in 1..Len(b)
      BY <2>1
    <3>2. j + 1 = k + 1
      BY <2>2, <3>1
    <3> QED BY <2>1, <3>2
  <2>8. Pending(r)'
    BY <1>5, <2>6, <2>7 DEF Pending
  <2> QED BY <1>9, <2>8 DEF BatchesOpen, Pending
<1>13. ResendsGivenUp'
  <2>1. \A a \in Admins : resend[a] # 0 =>
          resend[a] \in 1..Len(events) /\ events[resend[a]].status = "failed"
    BY <1>1 DEF Types, Shape, IInv, ResendsGivenUp
  <2>2. \A a \in Admins : resend[a] # 0 => resend[a] # e
    BY <1>11, <2>1 DEF Open
  <2> QED BY <1>6, <1>7, <2>1, <2>2 DEF ResendsGivenUp
<1>14. AnswersCounted'
  <2> SUFFICES ASSUME NEW d \in 1..Len(events) PROVE Counted(d)'
    BY <1>6 DEF AnswersCounted
  <2>1. Counted(d) /\ ~InFlight(d)'
    BY <1>3, <1>5, <1>9 DEF IInv, AnswersCounted, InFlight
  <2>2. InFlight(d) => d = e /\ sweep[r].answer = "ok"
    BY <1>3, Alone DEF IInv, InFlight
  <2>3. CASE d # e
    BY <1>6, <2>1, <2>2, <2>3 DEF Counted
  <2>4. CASE d = e
    <3>1. events[e] \in EventOf
      BY <1>1 DEF Shape
    <3>2. events[e].accepted \in Nat /\ events[e].lost \in Nat
      BY <3>1 DEF EventOf
    <3>3. events[e].accepted <= 1 + events[e].lost
      BY <2>1, <2>4 DEF Counted
    <3>4. sweep[r].answer # "ok" => events[e].accepted <= events[e].lost
      BY <1>11, <2>1, <2>2, <2>4 DEF Counted, Open
    <3> QED BY <1>4, <1>6, <2>4, <3>2, <3>3, <3>4 DEF Counted
  <2> QED BY <2>3, <2>4
<1> QED BY <1>8, <1>12, <1>13, <1>14 DEF IInv

LEMMA CrashOK == ASSUME IInv, Types', NEW r \in Replicas, Crash(r) PROVE IInv'
<1>1. Types /\ Shape /\ sweep \in [Replicas -> SweepOf]
  BY DEF IInv, Types, Shape
<1>2. PICK x \in SweepOf : x.at = "gone" /\ sweep' = [sweep EXCEPT ![r] = x]
  BY <1>1, CrashMoves
<1>3. sweep'[r] = x /\ \A q \in Replicas \ {r} : sweep'[q] = sweep[q]
  BY <1>1, <1>2
<1>4. lease' = lease /\ resend' = resend
  BY DEF Crash, config
<1>5. Holds(r)' /\ Pending(r)' /\ \A q \in Replicas \ {r} : Holds(q)'
  BY <1>2, <1>3, <1>4 DEF IInv, LeaseHeld, Holds, Pending
<1>6. CASE events' = events /\ ~(sweep[r].at = "record" /\ sweep[r].answer = "ok")
  BY <1>2, <1>4, <1>5, <1>6, OneMoves
<1>7. ASSUME sweep[r].at = "record", sweep[r].answer = "ok",
             NEW e \in 1..Len(events), NEW y \in EventOf,
             e = sweep[r].batch[1].e, events' = [events EXCEPT ![e] = y],
             y.accepted = events[e].accepted, y.lost = events[e].lost + 1,
             y.status = events[e].status
      PROVE  IInv'
  <2>1. /\ Len(events') = Len(events) /\ events'[e] = y
        /\ \A d \in 1..Len(events) \ {e} : events'[d] = events[d]
    BY <1>1, <1>7, RowChanges
  <2>2. LeaseHeld'
    BY <1>5 DEF LeaseHeld
  <2>3. \A q \in Replicas : sweep'[q].at \notin {"read", "post", "record"}
    BY <1>2, <1>3, <1>7, Alone DEF IInv
  <2>4. BatchesOpen'
    BY <2>3 DEF BatchesOpen, Pending
  <2>5. ResendsGivenUp'
    <3>1. \A a \in Admins : resend[a] # 0 => resend[a] \in 1..Len(events)
      BY <1>1 DEF Types, Shape
    <3> QED BY <1>4, <1>7, <2>1, <3>1 DEF IInv, ResendsGivenUp
  <2>6. AnswersCounted'
    <3> SUFFICES ASSUME NEW d \in 1..Len(events) PROVE Counted(d)'
      BY <2>1 DEF AnswersCounted
    <3>1. Counted(d) /\ (InFlight(d) => d = e)
      BY <1>7, Alone DEF IInv, AnswersCounted, InFlight
    <3>2. events[e] \in EventOf
      BY <1>1 DEF Shape
    <3>3. events[e].accepted \in Nat /\ events[e].lost \in Nat
      BY <3>2 DEF EventOf
    <3>4. CASE d # e
      BY <2>1, <3>1, <3>4 DEF Counted
    <3>5. CASE d = e
      <4>1. events'[d].accepted = events[e].accepted /\ events'[d].lost = events[e].lost + 1
        BY <1>7, <2>1, <3>5
      <4>2. events[e].accepted <= 1 + events[e].lost
        BY <3>1, <3>5 DEF Counted
      <4> QED BY <3>3, <4>1, <4>2 DEF Counted
    <3> QED BY <3>4, <3>5
  <2> QED BY <2>2, <2>4, <2>5, <2>6 DEF IInv
<1> QED BY <1>1, <1>6, <1>7, CrashMoves

\* The queue grows, or a row changes that no sweep has in its batch or that stays open.
LEMMA RowsMove ==
  ASSUME IInv, Types', sweep' = sweep, lease' = lease, Len(events) <= Len(events'),
         \A a \in Admins : resend'[a] # 0 => events'[resend'[a]].status = "failed",
         \A e \in 1..Len(events) : /\ events'[e].accepted = events[e].accepted
                                   /\ events'[e].lost = events[e].lost
                                   /\ events'[e].status # events[e].status =>
                                        events[e].status = "failed" /\ events'[e].status \in Open,
         \A e \in 1..Len(events') : e > Len(events) => events'[e].accepted = 0
  PROVE  IInv'
<1>1. Types /\ Len(events) \in Nat /\ Len(events') \in Nat
  BY DEF IInv, Types, Shape
<1>2. LeaseHeld'
  BY DEF IInv, LeaseHeld, Holds
<1>3. ResendsGivenUp'
  BY DEF ResendsGivenUp
<1>4. BatchesOpen'
  <2> SUFFICES ASSUME NEW r \in Replicas, sweep[r].at \in {"post", "record"} PROVE Pending(r)'
    BY DEF BatchesOpen, Pending
  <2> DEFINE b == sweep[r].batch
  <2>1. /\ \A k \in 1..Len(b) : b[k].e \in 1..Len(events) /\ events[b[k].e].status \in Open
        /\ \A j, k \in 1..Len(b) : b[j].e = b[k].e => j = k
    BY <1>1 DEF IInv, BatchesOpen, Pending, Exists, Types
  <2>2. \A k \in 1..Len(b) : events'[b[k].e].status \in Open
    BY <2>1 DEF Open
  <2> QED BY <2>1, <2>2 DEF Pending
<1>5. AnswersCounted'
  <2> SUFFICES ASSUME NEW d \in 1..Len(events') PROVE Counted(d)'
    BY DEF AnswersCounted
  <2>1. InFlight(d)' <=> InFlight(d)
    BY DEF InFlight
  <2>2. CASE d \in 1..Len(events)
    BY <2>1, <2>2 DEF IInv, AnswersCounted, Counted, Open
  <2>3. CASE d > Len(events)
    <3>1. events'[d] \in EventOf
      BY DEF Types, Shape
    <3>2. events'[d].lost \in Nat /\ events'[d].accepted = 0
      BY <2>3, <3>1 DEF EventOf
    <3> QED BY <3>2 DEF Counted
  <2> QED BY <1>1, <2>2, <2>3
<1> QED BY <1>2, <1>3, <1>4, <1>5 DEF IInv

LEMMA QueueOK ==
  ASSUME IInv, Types', OneAdmin,
         \/ \E m \in Merchants : EnqueueWebhookEvent(m)
         \/ \E e \in DOMAIN events : BackoffOver(e)
         \/ \E a \in Admins : Resend(a)
         \/ \E e \in DOMAIN events, a \in Admins : ReadToResend(a, e)
  PROVE  IInv'
<1>1. /\ events \in Seq(EventOf) /\ resend \in [Admins -> Nat] /\ Len(events) \in Nat
      /\ \A a \in Admins : resend[a] # 0 => resend[a] \in 1..Len(events) /\ events[resend[a]].status = "failed"
  BY DEF IInv, Types, Shape, ResendsGivenUp
<1>2. CASE \E m \in Merchants : EnqueueWebhookEvent(m)
  <2>1. PICK m \in Merchants : EnqueueWebhookEvent(m)
    BY <1>2
  <2> DEFINE x == [m |-> m, status |-> "pending", attempts |-> 0, due |-> TRUE, accepted |-> 0, lost |-> 0]
  <2>2. x \in EventOf /\ x.accepted = 0
    BY DEF EventOf, Open
  <2>3. events' = Append(events, x) /\ sweep' = sweep /\ lease' = lease /\ resend' = resend
    BY <2>1 DEF EnqueueWebhookEvent, config
  <2> HIDE DEF x
  <2>4. /\ Len(events') = Len(events) + 1 /\ events'[Len(events) + 1] = x
        /\ \A e \in 1..Len(events) : events'[e] = events[e]
    BY <1>1, <2>2, <2>3
  <2>5. \A e \in 1..Len(events') : e > Len(events) => events'[e].accepted = 0
    BY <1>1, <2>2, <2>4
  <2> QED BY <1>1, <2>3, <2>4, <2>5, RowsMove
<1>3. CASE \E e \in DOMAIN events : BackoffOver(e)
  <2>1. PICK e \in DOMAIN events : BackoffOver(e)
    BY <1>3
  <2>2. e \in 1..Len(events) /\ events[e] \in EventOf
    BY <1>1
  <2>3. PICK y \in EventOf : y = [events[e] EXCEPT !.due = TRUE]
    BY <2>2 DEF EventOf
  <2>4. events' = [events EXCEPT ![e] = y]
    BY <1>1, <2>1, <2>2, <2>3 DEF BackoffOver
  <2>5. y.status = events[e].status /\ y.accepted = events[e].accepted /\ y.lost = events[e].lost
    BY <2>2, <2>3 DEF EventOf
  <2>6. /\ Len(events') = Len(events) /\ events'[e] = y
        /\ \A d \in 1..Len(events) \ {e} : events'[d] = events[d]
    BY <2>2, <2>4, RowChanges DEF IInv
  <2>7. sweep' = sweep /\ lease' = lease /\ resend' = resend
    BY <2>1 DEF BackoffOver, config
  <2>8. \A d \in 1..Len(events) : /\ events'[d].status = events[d].status
                                  /\ events'[d].accepted = events[d].accepted
                                  /\ events'[d].lost = events[d].lost
    BY <2>5, <2>6
  <2>9. \A d \in 1..Len(events') : ~(d > Len(events))
    BY <1>1, <2>6
  <2>10. \A a \in Admins : resend'[a] # 0 => events'[resend'[a]].status = "failed"
    BY <1>1, <2>7, <2>8
  <2> QED BY <1>1, <2>6, <2>7, <2>8, <2>9, <2>10, RowsMove
<1>4. CASE \E a \in Admins : Resend(a)
  <2>1. PICK a \in Admins : Resend(a)
    BY <1>4
  <2> DEFINE e == resend[a]
  <2>2. resend[a] # 0
    BY <2>1 DEF Resend
  <2>3. e \in 1..Len(events) /\ events[e].status = "failed"
    BY <1>1, <2>2
  <2>4. events[e] \in EventOf
    BY <1>1, <2>3
  <2>5. events' = [events EXCEPT ![e].status = "retrying", ![e].attempts = 0, ![e].due = TRUE]
    BY <2>1 DEF Resend
  <2>6. sweep' = sweep /\ lease' = lease /\ resend' = [resend EXCEPT ![a] = 0]
    BY <2>1 DEF Resend
  <2> HIDE DEF e
  <2>7. PICK y \in EventOf : y = [events[e] EXCEPT !.status = "retrying", !.attempts = 0, !.due = TRUE]
    <3>1. "retrying" \in Open \cup {"delivered", "failed"} /\ 0 \in Int
      BY DEF Open
    <3> QED BY <2>4, <3>1 DEF EventOf
  <2>8. events' = [events EXCEPT ![e] = y]
    BY <1>1, <2>3, <2>5, <2>7
  <2>9. y.status = "retrying" /\ y.accepted = events[e].accepted /\ y.lost = events[e].lost
    BY <2>4, <2>7 DEF EventOf
  <2>10. /\ Len(events') = Len(events) /\ events'[e] = y
         /\ \A d \in 1..Len(events) \ {e} : events'[d] = events[d]
    BY <2>3, <2>8, RowChanges DEF IInv
  <2>11. \A d \in 1..Len(events) : /\ events'[d].accepted = events[d].accepted
                                   /\ events'[d].lost = events[d].lost
                                   /\ events'[d].status # events[d].status =>
                                        events[d].status = "failed" /\ events'[d].status \in Open
    BY <2>3, <2>9, <2>10 DEF Open
  <2>12. \A b \in Admins : resend'[b] = 0
    BY <1>1, <2>6 DEF OneAdmin
  <2>13. \A d \in 1..Len(events') : ~(d > Len(events))
    BY <1>1, <2>10
  <2> QED BY <1>1, <2>6, <2>10, <2>11, <2>12, <2>13, RowsMove
<1>5. CASE \E e \in DOMAIN events, a \in Admins : ReadToResend(a, e)
  <2>1. PICK e \in DOMAIN events, a \in Admins : ReadToResend(a, e)
    BY <1>5
  <2>2. /\ events' = events /\ sweep' = sweep /\ lease' = lease /\ events[e].status = "failed"
        /\ resend' = [resend EXCEPT ![a] = e]
    BY <2>1 DEF ReadToResend
  <2>3. \A b \in Admins : resend'[b] # 0 => events[resend'[b]].status = "failed"
    BY <1>1, <2>2
  <2>4. \A d \in 1..Len(events') : ~(d > Len(events))
    BY <1>1, <2>2
  <2> QED BY <1>1, <2>2, <2>3, <2>4, RowsMove
<1> QED BY <1>2, <1>3, <1>4, <1>5

LEMMA BetweenOK ==
  ASSUME IInv, Types', LeaseOutlives,
         \/ \E m \in Merchants : KeyChanges(m)
         \/ \E m \in Merchants, u, g \in BOOLEAN : UpdateWebhookConfig(m, u, g)
         \/ Expire
         \/ UNCHANGED vars
  PROVE  IInv'
<1>1. sweep' = sweep /\ events' = events /\ resend' = resend
  BY DEF KeyChanges, UpdateWebhookConfig, Expire, config, vars
<1>2. LeaseHeld'
  <2>1. CASE lease' = lease
    BY <1>1, <2>1 DEF IInv, LeaseHeld, Holds
  <2>2. CASE Expire
    BY <1>1, <2>2 DEF Expire, LeaseOutlives, IInv, LeaseHeld, Holds, Sweeping
  <2> QED BY <2>1, <2>2 DEF KeyChanges, UpdateWebhookConfig, vars
<1>3. BatchesOpen' /\ ResendsGivenUp' /\ AnswersCounted'
  BY <1>1 DEF IInv, BatchesOpen, Pending, ResendsGivenUp, AnswersCounted, Counted, InFlight
<1> QED BY <1>2, <1>3 DEF IInv

LEMMA InitOK == ASSUME Init PROVE IInv
<1>1. \A r \in Replicas : sweep[r].at = "sleep"
  BY DEF Init, Idle
<1>2. events = <<>> /\ \A a \in Admins : resend[a] = 0
  BY DEF Init
<1>3. LeaseHeld /\ BatchesOpen
  BY <1>1 DEF LeaseHeld, Holds, BatchesOpen, Pending
<1>4. ResendsGivenUp /\ AnswersCounted
  BY <1>2 DEF ResendsGivenUp, AnswersCounted
<1> QED BY <1>3, <1>4, TypesInit DEF IInv

LEMMA NextOK == ASSUME IInv, LeaseOutlives, OneAdmin, [Next]_vars PROVE IInv'
<1>1. Types'
  BY TypesNext DEF IInv
<1>2. ASSUME NEW r \in Replicas, Loop(r) \/ Crash(r) \/ Shutdown(r) PROVE IInv'
  BY <1>1, <1>2, ClaimOK, BesideOK, ReadOK, PostOK, RecordOK, CrashOK, ShutdownOK DEF Loop
<1>3. CASE \E r \in Replicas : Loop(r) \/ Crash(r) \/ Shutdown(r)
  BY <1>2, <1>3
<1>4. CASE ~\E r \in Replicas : Loop(r) \/ Crash(r) \/ Shutdown(r)
  BY <1>1, <1>4, QueueOK, BetweenOK DEF Next
<1> QED BY <1>3, <1>4

\* After an answer of success a merchant is called again for the same event only if
\* that answer was never recorded (deliver_event, deliver_pending_webhooks): the
\* lease must outlast the sweep it is held for, and one administrator resends.
THEOREM SentOnceUnderLease == ASSUME LeaseOutlives, OneAdmin PROVE Spec => []AcceptedOnce
<1>1. IInv => AcceptedOnce
  <2> SUFFICES ASSUME IInv, NEW e \in DOMAIN events
               PROVE  events[e].accepted <= 1 + events[e].lost
    BY DEF AcceptedOnce
  <2>1. e \in 1..Len(events)
    BY DEF IInv, Types, Shape
  <2> QED BY <2>1 DEF IInv, AnswersCounted, Counted
<1>2. Init => IInv
  BY InitOK
<1>3. IInv /\ [Next]_vars => IInv'
  BY NextOK
<1> QED BY <1>1, <1>2, <1>3, PTL DEF Spec

-----------------------------------------------------------------------------
(***************************************************************************)
(* Every merchant is served.                                               *)
(***************************************************************************)
\* A batch of n different members of a set of n takes them all.
LEMMA BatchTakesAll ==
  ASSUME Shape, NEW q \in InTurn(DueEvents)
  PROVE  \A e \in BatchFairly(DueEvents) :
           \E k \in 1..Cardinality(BatchFairly(DueEvents)) : q[k] = e
<1> DEFINE taken == BatchFairly(DueEvents)
           n == Cardinality(taken)
<1>1. /\ IsFiniteSet(taken) /\ n \in Nat /\ q \in [1..n -> taken]
      /\ \A j, k \in 1..n : q[j] = q[k] => j = k
  BY InTurnTakes
<1>2. IsFiniteSet(1..n) /\ Cardinality(1..n) = n
  BY <1>1, FS_Interval
<1> HIDE DEF taken, n
<1>3. q \in Injection(1..n, taken)
  BY <1>1 DEF Injection, IsInjective
<1>4. n = Cardinality(taken)
  BY DEF n
<1>5. q \in Surjection(1..n, taken)
  BY <1>1, <1>2, <1>3, <1>4, FS_Injection
<1>6. \A e \in taken : \E k \in 1..n : q[k] = e
  BY <1>5 DEF Surjection
<1> QED BY <1>6 DEF taken, n

\* The first due event of a merchant is of the first round: only the first events
\* of other merchants go before it.
LEMMA FirstIsTaken ==
  ASSUME Shape, Cardinality(Waiting) <= BatchSize, NEW e \in DueEvents
  PROVE  Queued(e, DueEvents) \in BatchFairly(DueEvents)
<1> DEFINE due == DueEvents
           f == Queued(e, due)
           Before == {d \in due : Sooner(d, f, due)}
           Others == Waiting \ {events[e].m}
<1>1. /\ f \in due /\ events[f].m = events[e].m
      /\ \A d \in due : events[d].m = events[e].m => f <= d
  BY Turns
<1>2. due \subseteq Nat /\ IsFiniteSet(due)
  BY DueOpen DEF Shape
<1>3. \A d \in due : Round(d, due) \in Nat
  BY Turns
<1>4. Round(f, due) = 0
  <2> HIDE DEF due, f
  <2>1. \A d \in due : events[d].m = events[f].m => ~(d < f)
    BY <1>1, <1>2
  <2>2. {d \in due : events[d].m = events[f].m /\ d < f} = {}
    BY <2>1
  <2> QED BY <2>2, FS_EmptySet DEF Round
<1>5. \A d \in Before : Round(d, due) = 0 /\ d \in due /\ Queued(d, due) < Queued(f, due)
  BY <1>1, <1>3, <1>4 DEF Sooner
<1>6. \A d \in due : Round(d, due) = 0 => \A c \in due : events[c].m = events[d].m => ~(c < d)
  <2> SUFFICES ASSUME NEW d \in due, Round(d, due) = 0, NEW c \in due, events[c].m = events[d].m, c < d
               PROVE  FALSE
    OBVIOUS
  <2> DEFINE Earlier == {b \in due : events[b].m = events[d].m /\ b < d}
  <2>1. IsFiniteSet(Earlier)
    BY <1>2, FS_Subset
  <2>2. Cardinality(Earlier) = 0
    BY DEF Round
  <2>3. Earlier = {}
    BY <2>1, <2>2, FS_EmptySet
  <2> QED BY <2>3
<1>7. \A c, d \in Before : events[c].m = events[d].m => c = d
  BY <1>2, <1>5, <1>6
<1>8. \A d \in Before : events[d].m \in Others
  <2> SUFFICES ASSUME NEW d \in Before, events[d].m = events[e].m PROVE FALSE
    BY DEF Waiting
  <2>1. d \in due /\ Queued(d, due) < Queued(f, due)
    BY <1>5
  <2>2. Queued(d, due) = Queued(f, due)
    BY <1>1 DEF Queued
  <2>3. Queued(f, due) \in Nat
    BY <1>1, <1>2, Turns
  <2> QED BY <2>1, <2>2, <2>3
<1>9. IsFiniteSet(Waiting)
  <2>1. Waiting = {events[d].m : d \in due}
    BY DEF Waiting
  <2>2. [d \in due |-> events[d].m] \in Surjection(due, Waiting)
    BY <2>1 DEF Surjection
  <2> QED BY <1>2, <2>2, FS_Surjection
<1>10. IsFiniteSet(Others) /\ Cardinality(Others) = Cardinality(Waiting) - 1 /\ Cardinality(Waiting) \in Nat
  <2>1. events[e].m \in Waiting
    BY DEF Waiting
  <2> QED BY <1>9, <2>1, FS_RemoveElement, FS_CardinalityType
<1>11. [d \in Before |-> events[d].m] \in Injection(Before, Others)
  BY <1>7, <1>8 DEF Injection, IsInjective
<1>12. Cardinality(Before) <= Cardinality(Others) /\ IsFiniteSet(Before)
  BY <1>10, <1>11, FS_Injection
<1>13. Cardinality(Before) < BatchSize
  BY <1>10, <1>12, BatchAssumption, FS_CardinalityType
<1> QED BY <1>1, <1>13 DEF BatchFairly

\* A replica goes from its lease to its first row only by reading the queue.
LEMMA OnlyReading ==
  ASSUME Types, [Next]_vars, NEW r \in Replicas, At(r, "read"), At(r, "post")'
  PROVE  ReadQueue(r)
<1>1. sweep \in [Replicas -> SweepOf] /\ sweep[r].at = "read" /\ sweep'[r].at = "post"
  BY DEF Types, Shape, At
<1>2. ASSUME NEW q \in Replicas, Loop(q) \/ Crash(q) \/ Shutdown(q), ~ReadQueue(q)
      PROVE  sweep'[r] = sweep[r] \/ sweep'[r].at # "post"
  <2>1. CASE Claim(q)
    <3>1. \E p \in {"read", "probe", "sleep"} : sweep' = [sweep EXCEPT ![q].at = p]
      BY <2>1 DEF Claim, To
    <3> QED BY <1>1, <2>1, <3>1 DEF Claim
  <2>2. CASE LeaseRowMissing(q) \/ Seed(q) \/ ReleaseLease(q) \/ Boot(q)
    <3>1. /\ sweep[q].at # "read"
          /\ \E x \in SweepOf : sweep' = [sweep EXCEPT ![q] = x]
      BY <2>2, BesideMoves
    <3> QED BY <1>1, <3>1
  <2>3. CASE Post(q)
    <3>1. PICK e \in 1..Len(events), x \in SweepOf, y \in EventOf : Posted(q, e, x, y)
      BY <2>3, PostMoves
    <3> QED BY <1>1, <3>1 DEF Posted
  <2>4. CASE Record(q)
    <3>1. PICK e \in 1..Len(events), x \in SweepOf, y \in EventOf : Recorded(q, e, x, y)
      BY <2>4, RecordMoves
    <3> QED BY <1>1, <3>1 DEF Recorded
  <2>5. CASE Crash(q)
    <3>1. \E x \in SweepOf : x.at = "gone" /\ sweep' = [sweep EXCEPT ![q] = x]
      BY <2>5, CrashMoves
    <3> QED BY <1>1, <3>1
  <2>6. CASE Shutdown(q)
    <3> DEFINE d == Sweeping(q)
               p == IF sweep[q].at = "sleep" THEN "gone" ELSE sweep[q].at
    <3>1. sweep' = [sweep EXCEPT ![q].down = d, ![q].at = p]
      BY <2>6 DEF Shutdown
    <3>2. p # "post" \/ q # r
      BY <1>1
    <3> HIDE DEF d, p
    <3> QED BY <1>1, <3>1, <3>2 DEF SweepOf
  <2> QED BY <1>2, <2>1, <2>2, <2>3, <2>4, <2>5, <2>6 DEF Loop
<1>3. CASE \E q \in Replicas : Loop(q) \/ Crash(q) \/ Shutdown(q)
  <2>1. PICK q \in Replicas : ReadQueue(q)
    BY <1>1, <1>2, <1>3
  <2>2. \E x \in SweepOf : sweep' = [sweep EXCEPT ![q] = x]
    BY <2>1, ReadMoves
  <2>3. q = r
    BY <1>1, <2>2
  <2> QED BY <2>1, <2>3
<1>4. CASE ~\E q \in Replicas : Loop(q) \/ Crash(q) \/ Shutdown(q)
  <2>1. sweep' = sweep
    BY <1>4 DEF Next, EnqueueWebhookEvent, KeyChanges, UpdateWebhookConfig, BackoffOver,
                ReadToResend, Resend, Expire, vars
  <2> QED BY <1>1, <2>1
<1> QED BY <1>3, <1>4

LEMMA ServesAll ==
  ASSUME Types, [Next]_vars, NEW r \in Replicas, At(r, "read"), At(r, "post")',
         Cardinality(Waiting) <= BatchSize
  PROVE  Waiting = {events[b.e].m : b \in Range(sweep'[r].batch)}
<1>1. Shape /\ sweep \in [Replicas -> SweepOf]
  BY DEF Types, Shape
<1>2. PICK q \in InTurn(DueEvents), x \in SweepOf :
           /\ sweep' = [sweep EXCEPT ![r] = x] /\ x.answer = sweep[r].answer
           /\ x.batch = [k \in 1..Len(q) |-> [e |-> q[k], attempts |-> events[q[k]].attempts]]
           /\ x.batch \in Seq(Batched) /\ Len(x.batch) = Len(q) /\ q \in Seq(1..Len(events))
           /\ x.at \in {"post", "gone", "release"} /\ (x.at = "post" <=> q # <<>>)
  BY OnlyReading, ReadMoves
<1> DEFINE n == Cardinality(BatchFairly(DueEvents))
           b == sweep'[r].batch
<1>3. b = x.batch
  BY <1>1, <1>2
<1>4. /\ BatchFairly(DueEvents) \subseteq DueEvents /\ n \in Nat
      /\ q \in [1..n -> BatchFairly(DueEvents)]
  BY <1>1, InTurnTakes
<1> HIDE DEF n
<1>5. DOMAIN b = 1..n /\ \A k \in 1..n : b[k].e = q[k] /\ q[k] \in DueEvents
  <2>1. Len(q) = n
    BY <1>4
  <2> QED BY <1>2, <1>3, <1>4, <2>1
<1> HIDE DEF b
<1>6. ASSUME NEW c \in Range(b) PROVE events[c.e].m \in Waiting
  <2>1. PICK k \in 1..n : c = b[k]
    BY <1>5, <1>6 DEF Range
  <2> QED BY <1>5, <2>1 DEF Waiting
<1>7. ASSUME NEW m \in Waiting PROVE \E c \in Range(b) : events[c.e].m = m
  <2>1. PICK e \in DueEvents : events[e].m = m
    BY <1>7 DEF Waiting
  <2> DEFINE f == Queued(e, DueEvents)
  <2>2. f \in BatchFairly(DueEvents) /\ events[f].m = m
    BY <1>1, <2>1, FirstIsTaken, Turns
  <2> HIDE DEF f
  <2>3. PICK k \in 1..n : q[k] = f
    BY <1>1, <2>2, BatchTakesAll DEF n
  <2>4. b[k] \in Range(b) /\ b[k].e = f
    BY <1>5, <2>3 DEF Range
  <2> QED BY <2>2, <2>4
<1>8. Waiting = {events[c.e].m : c \in Range(b)}
  BY <1>6, <1>7
<1> QED BY <1>8 DEF b

\* "Interleaving gives every merchant with something waiting a slot in every sweep"
\* (_batch_fairly): whatever happens around it, the sweep's batch has a row of each
\* merchant that waits, if there are no more of them than places.
THEOREM MerchantsTakeTurns == Spec => EveryMerchantServed
<1>1. Types /\ [Next]_vars =>
        [\A r \in Replicas : At(r, "read") /\ At(r, "post")' /\ Cardinality(Waiting) <= BatchSize
           => Waiting = {events[b.e].m : b \in Range(sweep'[r].batch)}]_vars
  BY ServesAll
<1>2. Init => Types
  BY TypesInit
<1>3. Types /\ [Next]_vars => Types'
  BY TypesNext
<1> QED BY <1>1, <1>2, <1>3, PTL DEF Spec, EveryMerchantServed

-----------------------------------------------------------------------------
(***************************************************************************)
(* Messages, for every number of workers, administrators, merchants and    *)
(* operators.  It shares no state with the webhooks.                       *)
(*                                                                         *)
(* That nobody is told twice rests on rows that are unique and never       *)
(* removed: one of an alert by its index, one of an announcement because   *)
(* only the administrator who finds the draft queues it, each recipient    *)
(* once.  The provider sends a row's text when it takes the row, and takes *)
(* it once, so that what the sweeps do to the row does not matter.  What   *)
(* the row shows does depend on them: it stays taken if no claim is lost   *)
(* while its sweep is alive.                                               *)
(***************************************************************************)

Targets == Owners \cup Operators
Told == {"pending", "sent", "failed"}
MessageOf == [camp : Nat, to : Targets, text : Nat,
              status : {"queued", "sending", "sent", "pending", "failed", "unknown", "skipped"},
              attempts : Int, due : BOOLEAN, lock : BOOLEAN, known : BOOLEAN, cb : BOOLEAN,
              texts : Nat, took : {"none", "sent", "pending"},
              news : Seq(Told), told : SUBSET Nat]
RowOf == [i : Nat, status : {"queued", "failed"}, attempts : Int]
Results == {"none", "sent", "pending", "failed", "config", "throttled", "unknown", "duplicate"}
SenderOf == [at : {"sleep", "read", "claim", "send", "save"}, purpose : {"none", "alerts", "announcements"},
            todo : SUBSET RowOf, result : Results]
DeskOf == [at : {"away", "claim", "queue"}, c : Nat, text : Nat, todo : SUBSET Recipients]
MailOf == [row : {"none", "skipped", "sent"}, asking : Int, emails : Nat]

TextShape ==
  /\ msgs \in Seq(MessageOf) /\ campaigns \in Seq(Campaign)
  /\ worker \in [Workers -> SenderOf] /\ desk \in [SuperAdmins -> DeskOf]
  /\ summary \in [Owners -> MailOf]

\* What a sweep has read, what an administrator works on and what a message
\* belongs to exists.
Working(w) == /\ worker[w].at \in {"claim", "send", "save"} => worker[w].todo # {}
              /\ worker[w].at = "save" => worker[w].result # "none"
Listed(w) == \A r \in worker[w].todo : r.i \in 1..Len(msgs)
Drafted(a) == desk[a].at # "away" => desk[a].c \in 1..Len(campaigns)
TextExists ==
  /\ \A w \in Workers : Working(w) /\ Listed(w)
  /\ \A a \in SuperAdmins : Drafted(a)
  /\ \A i \in 1..Len(msgs) : msgs[i].camp \in 0..Len(campaigns)

TextTypes == TextShape /\ TextExists

\* A row of an announcement is for one of its recipients; a recipient has one row.
ToRecipients == \A i \in 1..Len(msgs) :
  msgs[i].camp # 0 => msgs[i].to \in Recipients /\ campaigns[msgs[i].camp].status # "draft"
OneRowEach == \A i, j \in 1..Len(msgs) :
  msgs[i].camp = msgs[j].camp /\ msgs[i].to = msgs[j].to => i = j
\* Who queues an announcement has it alone, and not yet those it has still to queue.
Queueing(a) == desk[a].at = "queue" =>
  /\ campaigns[desk[a].c].status = "sending"
  /\ \A i \in 1..Len(msgs) : msgs[i].camp = desk[a].c => msgs[i].to \notin desk[a].todo
OneDesk == \A a, b \in SuperAdmins :
  desk[a].at = "queue" /\ desk[b].at = "queue" /\ desk[a].c = desk[b].c => a = b
\* The provider sends a row's text when it takes the row, and an email follows the claim.
SentWhenTaken == \A i \in 1..Len(msgs) : msgs[i].texts = IF msgs[i].took = "none" THEN 0 ELSE 1
MailedWhenClaimed == \A m \in Owners :
  summary[m].emails <= 1 /\ (summary[m].row = "none" => summary[m].emails = 0)

TInv == TextTypes /\ ToRecipients /\ OneRowEach /\ (\A a \in SuperAdmins : Queueing(a)) /\ OneDesk
        /\ SentWhenTaken /\ MailedWhenClaimed

\* A sweep that has claimed a row has it alone until its outcome is written; and
\* a callback finds only rows that were sent.
InHand(w) == worker[w].at \in {"send", "save"}
HasClaimed(w) == InHand(w) => msgs[Row(w).i].status = "sending" /\ msgs[Row(w).i].lock
OneEach == \A v, w \in Workers : InHand(v) /\ InHand(w) /\ Row(v).i = Row(w).i => v = w
FoundWhenSent == \A i \in 1..Len(msgs) :
  msgs[i].known /\ ~msgs[i].cb => msgs[i].status \in {"sent", "pending"}
Held == (\A w \in Workers : HasClaimed(w)) /\ OneEach /\ FoundWhenSent
CInv == TInv /\ Held

\* What is taken in a step's first state is not in the queue in its second.
StaysTaken == \A i \in 1..Len(msgs) : Taken(i) => msgs'[i].status \notin {"queued", "sending"}
-----------------------------------------------------------------------------
\* The row a sweep is at is one of those it has read.
LEMMA RowIsListed ==
  ASSUME TextTypes, NEW w \in Workers, worker[w].todo # {}
  PROVE  Row(w) \in worker[w].todo /\ Row(w) \in RowOf /\ Row(w).i \in 1..Len(msgs)
<1> DEFINE todo == worker[w].todo
           places == {r.i : r \in todo}
<1>1. todo \subseteq RowOf /\ todo # {} /\ \A r \in todo : r.i \in 1..Len(msgs)
  BY DEF TextTypes, TextShape, TextExists, Listed, SenderOf
<1>2. places \in SUBSET Nat /\ places # {}
  BY <1>1 DEF RowOf
<1>3. PICK x \in places : \A y \in places : x <= y
  BY <1>2, LeastElement
<1>4. \E r \in todo : \A q \in todo : r.i <= q.i
  BY <1>3
<1>5. Row(w) \in todo
  BY <1>4, Zenon DEF Row
<1> QED BY <1>1, <1>5

LEMMA UpdatedRow ==
  ASSUME NEW S, NEW q \in Seq(S), NEW i \in 1..Len(q), NEW x \in S, NEW p,
         p = [q EXCEPT ![i] = x]
  PROVE  /\ p \in Seq(S) /\ Len(p) = Len(q)
         /\ p[i] = x /\ \A j \in 1..Len(q) : j # i => p[j] = q[j]
  OBVIOUS

\* Announcements go to one merchant of each number.
LEMMA RecipientsApart ==
  /\ Recipients \subseteq Owners
  /\ \A p \in Numbers : \E m \in Recipients : Phone[m] = p
  /\ \A m, n \in Recipients : Phone[m] = Phone[n] => m = n
<1>1. ASSUME NEW p \in Numbers
      PROVE  LET m == CHOOSE m \in Owners : Phone[m] = p IN m \in Owners /\ Phone[m] = p
  BY DEF Numbers, Reachable
<1> QED BY <1>1 DEF Recipients

-----------------------------------------------------------------------------
\* The rows stay those they were.
SameRows ==
  /\ msgs' \in Seq(MessageOf) /\ Len(msgs') = Len(msgs)
  /\ \A i \in 1..Len(msgs) : msgs'[i].camp = msgs[i].camp /\ msgs'[i].to = msgs[i].to
SameTexts == \A i \in 1..Len(msgs) : msgs'[i].texts = msgs[i].texts /\ msgs'[i].took = msgs[i].took
SweepsTyped == worker' \in [Workers -> SenderOf] /\ \A w \in Workers : Working(w)' /\ Listed(w)'

LEMMA NextRow ==
  ASSUME TextTypes, SameRows, NEW w \in Workers, worker[w].todo # {}, DropRow(w)
  PROVE  SweepsTyped
<1>1. Row(w) \in worker[w].todo
  BY RowIsListed
<1>2. worker[w] \in SenderOf
  BY DEF TextTypes, TextShape
<1> DEFINE new == [worker[w] EXCEPT !.todo = @ \ {Row(w)}, !.result = "none",
                              !.at = IF worker[w].todo = {Row(w)} THEN "read" ELSE "claim"]
<1>3. worker' = [worker EXCEPT ![w] = new]
  BY <1>2 DEF DropRow, TextTypes, TextShape
<1>4. new \in SenderOf /\ (new.at \in {"claim", "send"} => new.todo # {}) /\ new.at # "save"
      /\ new.todo \subseteq worker[w].todo
  BY <1>1, <1>2 DEF SenderOf, Results
<1> HIDE DEF new
<1>5. \A v \in Workers : worker'[v] = IF v = w THEN new ELSE worker[v]
  BY <1>3 DEF TextTypes, TextShape
<1>6. worker' \in [Workers -> SenderOf]
  BY <1>3, <1>4 DEF TextTypes, TextShape
<1>7. ASSUME NEW v \in Workers PROVE Working(v)' /\ Listed(v)'
  BY <1>4, <1>5 DEF TextTypes, TextExists, Working, Listed, SameRows
<1> QED BY <1>6, <1>7 DEF SweepsTyped

LEMMA ToKeeps ==
  ASSUME TextTypes, SameRows, NEW w \in Workers, NEW p \in {"sleep", "read", "claim", "send"},
         p \in {"claim", "send", "save"} => worker[w].todo # {}, MovesTo(w, p)
  PROVE  SweepsTyped
<1>1. worker[w] \in SenderOf
  BY DEF TextTypes, TextShape
<1> DEFINE new == [worker[w] EXCEPT !.at = p]
<1>2. worker' = [worker EXCEPT ![w] = new]
  BY DEF MovesTo, TextTypes, TextShape
<1>3. new \in SenderOf /\ new.todo = worker[w].todo /\ new.at = p
  BY <1>1 DEF SenderOf
<1> HIDE DEF new
<1>5. \A v \in Workers : worker'[v] = IF v = w THEN new ELSE worker[v]
  BY <1>2 DEF TextTypes, TextShape
<1>6. worker' \in [Workers -> SenderOf]
  BY <1>2, <1>3 DEF TextTypes, TextShape
<1>7. ASSUME NEW v \in Workers PROVE Working(v)' /\ Listed(v)'
  BY <1>3, <1>5 DEF TextTypes, TextExists, Working, Listed, SameRows
<1> QED BY <1>6, <1>7 DEF SweepsTyped

LEMMA RestKeeps ==
  ASSUME TextTypes, SameRows, NEW w \in Workers, worker' = [worker EXCEPT ![w] = Resting]
  PROVE  SweepsTyped
<1>1. Resting \in SenderOf /\ Resting.todo = {} /\ Resting.at = "sleep"
  BY DEF Resting, SenderOf, Results
<1>2. \A v \in Workers : worker'[v] = IF v = w THEN Resting ELSE worker[v]
  BY DEF TextTypes, TextShape
<1>3. worker' \in [Workers -> SenderOf]
  BY <1>1 DEF TextTypes, TextShape
<1>4. ASSUME NEW v \in Workers PROVE Working(v)' /\ Listed(v)'
  BY <1>1, <1>2 DEF TextTypes, TextExists, Working, Listed, SameRows
<1> QED BY <1>3, <1>4 DEF SweepsTyped

LEMMA UnchangedWorkers ==
  ASSUME TextTypes, SameRows, UNCHANGED worker
  PROVE  SweepsTyped
<1>1. ASSUME NEW v \in Workers PROVE Working(v)' /\ Listed(v)'
  BY DEF TextTypes, TextExists, Working, Listed, SameRows
<1> QED BY <1>1 DEF SweepsTyped, TextTypes, TextShape

\* A row that is rewritten stays the row it was.
LEMMA OneRowChanges ==
  ASSUME TextTypes, NEW i \in 1..Len(msgs), NEW x \in MessageOf, msgs' = [msgs EXCEPT ![i] = x],
         x.camp = msgs[i].camp, x.to = msgs[i].to
  PROVE  /\ SameRows
         /\ msgs'[i] = x /\ \A j \in 1..Len(msgs) : j # i => msgs'[j] = msgs[j]
         /\ (x.texts = msgs[i].texts /\ x.took = msgs[i].took => SameTexts)
<1>1. msgs \in Seq(MessageOf)
  BY DEF TextTypes, TextShape
<1>2. /\ msgs' \in Seq(MessageOf) /\ Len(msgs') = Len(msgs)
      /\ msgs'[i] = x /\ \A j \in 1..Len(msgs) : j # i => msgs'[j] = msgs[j]
  BY <1>1, UpdatedRow
<1>3. SameRows
  BY <1>2 DEF SameRows
<1>4. x.texts = msgs[i].texts /\ x.took = msgs[i].took => SameTexts
  BY <1>2 DEF SameTexts
<1> QED BY <1>2, <1>3, <1>4
-----------------------------------------------------------------------------
\* What only rewrites rows and moves sweeps keeps the invariant, if a text goes
\* out with the row's being taken.
LEMMA RewritesKeep ==
  ASSUME TInv, SameRows, SweepsTyped, SentWhenTaken', UNCHANGED rest
  PROVE  TInv'
<1>1. TextTypes'
  BY DEF TInv, TextTypes, TextShape, TextExists, Drafted, SameRows, SweepsTyped, rest
<1>2. ToRecipients' /\ OneRowEach'
  BY DEF TInv, TextTypes, TextShape, TextExists, ToRecipients, OneRowEach, SameRows, rest
<1>3. \A a \in SuperAdmins : Queueing(a)'
  BY DEF TInv, Queueing, SameRows, rest
<1>4. OneDesk' /\ MailedWhenClaimed'
  BY DEF TInv, OneDesk, MailedWhenClaimed, rest
<1> QED BY <1>1, <1>2, <1>3, <1>4 DEF TInv

LEMMA TextsKeep ==
  ASSUME TInv, SameRows, SameTexts
  PROVE  SentWhenTaken'
  BY DEF TInv, SameRows, SameTexts, SentWhenTaken

LEMMA ReleaseKeeps ==
  ASSUME TInv, NEW w \in Workers, ReleaseExpiredClaims(w)
  PROVE  TInv'
<1>1. msgs \in Seq(MessageOf)
  BY DEF TInv, TextTypes, TextShape
<1> DEFINE Freed(i) == IF msgs[i].status = "sending" /\ ~msgs[i].lock
                     THEN [msgs[i] EXCEPT !.status = "queued"] ELSE msgs[i]
<1>2. msgs' = [i \in 1..Len(msgs) |-> Freed(i)]
  BY <1>1 DEF ReleaseExpiredClaims
<1>3. ASSUME NEW i \in 1..Len(msgs)
      PROVE  /\ Freed(i) \in MessageOf
             /\ Freed(i).camp = msgs[i].camp /\ Freed(i).to = msgs[i].to
             /\ Freed(i).texts = msgs[i].texts /\ Freed(i).took = msgs[i].took
  <2>1. msgs[i] \in MessageOf
    BY <1>1
  <2>2. LET x == [msgs[i] EXCEPT !.status = "queued"]
        IN  x \in MessageOf /\ x.camp = msgs[i].camp /\ x.to = msgs[i].to
            /\ x.texts = msgs[i].texts /\ x.took = msgs[i].took
    BY <2>1 DEF MessageOf
  <2> QED BY <2>1, <2>2
<1> HIDE DEF Freed
<1>4. msgs' \in Seq(MessageOf) /\ Len(msgs') = Len(msgs) /\ \A i \in 1..Len(msgs) : msgs'[i] = Freed(i)
  BY <1>1, <1>2, <1>3
<1>5. SameRows /\ SameTexts
  BY <1>3, <1>4 DEF SameRows, SameTexts
<1>6. SweepsTyped
  BY <1>5, ToKeeps DEF TInv, ReleaseExpiredClaims
<1> QED BY <1>5, <1>6, RewritesKeep, TextsKeep DEF ReleaseExpiredClaims

LEMMA Purposes ==
  ASSUME NEW p
  PROVE  AfterPurpose(p) \in {"none", "alerts", "announcements"}
<1> DEFINE k == IF p \in Range(DispatchOrder)
                THEN CHOOSE k \in DOMAIN DispatchOrder : DispatchOrder[k] = p ELSE 0
<1>1. DispatchOrder = <<"alerts", "announcements">>
  BY DEF DispatchOrder
<1>2. DOMAIN DispatchOrder = 1..2 /\ Len(DispatchOrder) = 2
      /\ DispatchOrder[1] = "alerts" /\ DispatchOrder[2] = "announcements"
  BY <1>1
<1>3. p \in Range(DispatchOrder) => \E j \in DOMAIN DispatchOrder : DispatchOrder[j] = p
  BY DEF Range
<1>4. k \in 0..2
  BY <1>2, <1>3
<1>5. AfterPurpose(p) = IF k < Len(DispatchOrder) THEN DispatchOrder[k + 1] ELSE "none"
  BY DEF AfterPurpose
<1> HIDE DEF k
<1> QED BY <1>2, <1>4, <1>5

LEMMA ReadKeeps ==
  ASSUME TInv, NEW w \in Workers, Claimable(w)
  PROVE  TInv'
<1> DEFINE p == AfterPurpose(worker[w].purpose)
           rows == {i \in DOMAIN msgs : /\ PurposeOf(i) = p
                                        /\ msgs[i].status \in {"queued", "failed"}
                                        /\ msgs[i].attempts < SmsAttempts /\ msgs[i].due}
           todo == {[i |-> k, status |-> msgs[k].status, attempts |-> msgs[k].attempts] : k \in rows}
           new == IF p = "none" THEN Resting
                  ELSE [Resting EXCEPT !.at = IF rows = {} THEN "read" ELSE "claim",
                                       !.purpose = p, !.todo = todo]
<1>1. TextTypes /\ msgs \in Seq(MessageOf)
  BY DEF TInv, TextTypes, TextShape
<1>2. p \in {"none", "alerts", "announcements"}
  BY Purposes
<1>3. rows \subseteq 1..Len(msgs) /\ \A k \in rows : msgs[k].status \in {"queued", "failed"}
  BY <1>1
<1>4. worker' = [worker EXCEPT ![w] = new] /\ UNCHANGED <<msgs, rest>>
  BY DEF Claimable
<1> HIDE DEF p, rows
<1>5. todo \subseteq RowOf /\ (rows # {} => todo # {}) /\ \A r \in todo : r.i \in 1..Len(msgs)
  <2>1. \A k \in rows : msgs[k] \in MessageOf
    BY <1>1, <1>3
  <2>2. \A k \in rows : k \in Nat /\ msgs[k].attempts \in Int
    BY <1>1, <1>3, <2>1 DEF MessageOf
  <2>3. todo \subseteq RowOf
    BY <1>3, <2>2 DEF RowOf
  <2>4. \A r \in todo : \E k \in rows : r.i = k
    OBVIOUS
  <2>5. ASSUME NEW k \in rows PROVE todo # {}
    <3>1. [i |-> k, status |-> msgs[k].status, attempts |-> msgs[k].attempts] \in todo
      OBVIOUS
    <3> QED BY <3>1
  <2> QED BY <1>3, <2>3, <2>4, <2>5
<1> HIDE DEF todo
<1>6. new \in SenderOf /\ (new.at \in {"claim", "send"} => new.todo # {}) /\ new.at # "save"
      /\ \A r \in new.todo : r.i \in 1..Len(msgs)
  BY <1>2, <1>5 DEF Resting, SenderOf, Results
<1> HIDE DEF new
<1>7. \A v \in Workers : worker'[v] = IF v = w THEN new ELSE worker[v]
  BY <1>1, <1>4 DEF TextTypes, TextShape
<1>8. worker' \in [Workers -> SenderOf]
  BY <1>1, <1>4, <1>6 DEF TextTypes, TextShape
<1>9. ASSUME NEW v \in Workers PROVE Working(v)' /\ Listed(v)'
  BY <1>1, <1>4, <1>6, <1>7 DEF TextTypes, TextExists, Working, Listed
<1>10. SameRows /\ SameTexts
  BY <1>1, <1>4 DEF SameRows, SameTexts
<1> QED BY <1>4, <1>8, <1>9, <1>10, RewritesKeep, TextsKeep DEF SweepsTyped

LEMMA ClaimKeeps ==
  ASSUME TInv, NEW w \in Workers, ClaimMessage(w)
  PROVE  TInv'
<1> DEFINE i == Row(w).i
           n == Row(w).attempts + 1
           x == [msgs[i] EXCEPT !.status = "sending", !.lock = TRUE, !.attempts = n]
<1>1. TextTypes /\ msgs \in Seq(MessageOf) /\ worker[w].todo # {} /\ UNCHANGED rest
  BY DEF TInv, TextTypes, TextShape, TextExists, Working, ClaimMessage, Is
<1>2. Row(w) \in RowOf /\ i \in 1..Len(msgs)
  BY <1>1, RowIsListed
<1>3. CASE StillAsRead(Row(w))
  <2>1. msgs' = [msgs EXCEPT ![i] = x] /\ MovesTo(w, "send")
    BY <1>3 DEF ClaimMessage
  <2>2. msgs[i] \in MessageOf /\ n \in Int
    BY <1>1, <1>2 DEF RowOf
  <2> HIDE DEF n
  <2>3. x \in MessageOf /\ x.camp = msgs[i].camp /\ x.to = msgs[i].to
        /\ x.texts = msgs[i].texts /\ x.took = msgs[i].took
    BY <2>2 DEF MessageOf
  <2>4. SameRows /\ SameTexts
    BY <1>1, <1>2, <2>1, <2>3, OneRowChanges
  <2>5. SweepsTyped
    BY <1>1, <2>1, <2>4, ToKeeps
  <2> QED BY <1>1, <2>4, <2>5, RewritesKeep, TextsKeep
<1>4. CASE ~StillAsRead(Row(w))
  <2>1. DropRow(w) /\ UNCHANGED msgs
    BY <1>4 DEF ClaimMessage
  <2>2. SameRows /\ SameTexts
    BY <1>1, <2>1 DEF SameRows, SameTexts
  <2>3. SweepsTyped
    BY <1>1, <2>1, <2>2, NextRow
  <2> QED BY <1>1, <2>2, <2>3, RewritesKeep, TextsKeep
<1> QED BY <1>3, <1>4

LEMMA StopKeeps ==
  ASSUME TInv, NEW w \in Workers, StopSweep(w)
  PROVE  TInv'
<1> DEFINE i == Row(w).i
           x == [msgs[i] EXCEPT !.status = "queued", !.lock = FALSE, !.attempts = Row(w).attempts]
<1>1. TextTypes /\ msgs \in Seq(MessageOf) /\ worker[w].todo # {} /\ UNCHANGED rest
  BY DEF TInv, TextTypes, TextShape, TextExists, Working, StopSweep, Is
<1>2. Row(w) \in RowOf /\ i \in 1..Len(msgs)
  BY <1>1, RowIsListed
<1>3. msgs' = [msgs EXCEPT ![i] = x] \/ UNCHANGED msgs
  BY DEF StopSweep
<1>4. msgs[i] \in MessageOf /\ Row(w).attempts \in Int
  BY <1>1, <1>2 DEF RowOf
<1>5. x \in MessageOf /\ x.camp = msgs[i].camp /\ x.to = msgs[i].to
      /\ x.texts = msgs[i].texts /\ x.took = msgs[i].took
  BY <1>4 DEF MessageOf
<1> HIDE DEF x
<1>6. SameRows /\ SameTexts
  BY <1>1, <1>2, <1>3, <1>5, OneRowChanges DEF SameRows, SameTexts
<1>7. SweepsTyped
  BY <1>1, <1>6, RestKeeps DEF StopSweep
<1> QED BY <1>1, <1>6, <1>7, RewritesKeep, TextsKeep

\* The provider sends a text when it takes the row, and takes it once.
LEMMA SendKeeps ==
  ASSUME TInv, NEW w \in Workers, SendSms(w)
  PROVE  TInv'
<1> DEFINE i == Row(w).i
<1>1. TextTypes /\ msgs \in Seq(MessageOf) /\ worker[w].todo # {} /\ UNCHANGED rest
  BY DEF TInv, TextTypes, TextShape, TextExists, Working, SendSms, Is
<1>2. Row(w) \in RowOf /\ i \in 1..Len(msgs) /\ msgs[i] \in MessageOf
  BY <1>1, RowIsListed
<1>3. PICK answer \in SmsAnswers(msgs[i].took) :
       LET took == IF msgs[i].took # "none" THEN msgs[i].took
                   ELSE IF answer \in {"sent", "pending"} THEN answer
                   ELSE IF answer = "lost" THEN "sent" ELSE "none" IN
       /\ msgs' = [msgs EXCEPT ![i].took = took,
                               ![i].texts = IF took # msgs[i].took THEN @ + 1 ELSE @]
       /\ worker' = [worker EXCEPT ![w].at = "save",
                       ![w].result = IF answer = "lost" THEN "unknown" ELSE answer]
  BY DEF SendSms
<1> DEFINE took == IF msgs[i].took # "none" THEN msgs[i].took
                   ELSE IF answer \in {"sent", "pending"} THEN answer
                   ELSE IF answer = "lost" THEN "sent" ELSE "none"
           texts == IF took # msgs[i].took THEN msgs[i].texts + 1 ELSE msgs[i].texts
           x == [msgs[i] EXCEPT !.took = took, !.texts = texts]
           new == [worker[w] EXCEPT !.at = "save", !.result = IF answer = "lost" THEN "unknown" ELSE answer]
<1>4. msgs[i].took \in {"none", "sent", "pending"} /\ msgs[i].texts \in Nat
      /\ msgs[i].texts = (IF msgs[i].took = "none" THEN 0 ELSE 1)
  BY <1>2 DEF TInv, SentWhenTaken, MessageOf
<1>5. took \in {"none", "sent", "pending"}
      /\ answer \in {"sent", "pending", "failed", "config", "throttled", "unknown", "lost", "duplicate"}
  BY <1>4 DEF SmsAnswers
<1>6. msgs' = [msgs EXCEPT ![i] = x] /\ worker' = [worker EXCEPT ![w] = new]
  BY <1>3
<1>7. texts \in Nat /\ texts = IF took = "none" THEN 0 ELSE 1
  BY <1>4, <1>5
<1> HIDE DEF took, texts
<1>8. x \in MessageOf /\ x.camp = msgs[i].camp /\ x.to = msgs[i].to
      /\ x.took = took /\ x.texts = texts
  BY <1>2, <1>5, <1>7 DEF MessageOf
<1> HIDE DEF x
<1>9. SameRows /\ msgs'[i] = x /\ \A j \in 1..Len(msgs) : j # i => msgs'[j] = msgs[j]
  BY <1>1, <1>2, <1>6, <1>8, OneRowChanges
<1>10. SentWhenTaken'
  BY <1>2, <1>7, <1>8, <1>9 DEF TInv, SentWhenTaken, SameRows
<1>11. worker[w] \in SenderOf
  BY <1>1 DEF TextTypes, TextShape
<1>12. new \in SenderOf /\ new.todo = worker[w].todo /\ new.result # "none"
  BY <1>5, <1>11 DEF SenderOf, Results
<1> HIDE DEF new
<1>13. \A v \in Workers : worker'[v] = IF v = w THEN new ELSE worker[v]
  BY <1>1, <1>6 DEF TextTypes, TextShape
<1>14. worker' \in [Workers -> SenderOf]
  BY <1>1, <1>6, <1>12 DEF TextTypes, TextShape
<1>15. ASSUME NEW v \in Workers PROVE Working(v)' /\ Listed(v)'
  BY <1>1, <1>9, <1>12, <1>13 DEF TextTypes, TextExists, Working, Listed, SameRows
<1> QED BY <1>1, <1>9, <1>10, <1>14, <1>15, RewritesKeep DEF SweepsTyped

\* An outcome leaves a row nobody is sending.
LEMMA OutcomeTyped ==
  ASSUME SmsAttempts \in Nat, NEW result \in Results \ {"none"}, NEW n \in Int
  PROVE  /\ Outcome(result, n).status \in {"queued", "sent", "pending", "failed", "unknown"}
         /\ Outcome(result, n).due \in BOOLEAN /\ Outcome(result, n).attempts \in Int
<1>1. CASE result \in {"sent", "duplicate", "pending", "failed"}
  BY <1>1 DEF Outcome
<1>2. CASE result = "config"
  <2>1. Outcome("config", n) = [status |-> "failed", attempts |-> SmsAttempts, due |-> FALSE]
    BY DEF Outcome
  <2>2. /\ Outcome("config", n).status = "failed" /\ Outcome("config", n).due = FALSE
        /\ Outcome("config", n).attempts = SmsAttempts
    BY <2>1
  <2>3. Outcome("config", n).due \in BOOLEAN
    BY <2>2, Zenon
  <2>4. Outcome("config", n).attempts \in Int
    BY <2>2
  <2> QED BY <1>2, <2>2, <2>3, <2>4
<1>3. CASE result = "throttled"
  <2>1. Outcome("throttled", n) = [status |-> "queued", attempts |-> n - 1, due |-> FALSE]
    BY Zenon DEF Outcome
  <2>2. /\ Outcome("throttled", n).status = "queued" /\ Outcome("throttled", n).due = FALSE
        /\ Outcome("throttled", n).attempts = n - 1
    BY <2>1
  <2>3. Outcome("throttled", n).due \in BOOLEAN
    BY <2>2, Zenon
  <2>4. Outcome("throttled", n).attempts \in Int
    BY <2>2
  <2> QED BY <1>3, <2>2, <2>3, <2>4
<1>4. CASE result = "unknown"
  BY <1>4 DEF Outcome
<1> QED BY <1>1, <1>2, <1>3, <1>4 DEF Results

LEMMA RecordKeeps ==
  ASSUME SmsAttempts \in Nat, TInv, NEW w \in Workers, RecordOutcome(w)
  PROVE  TInv'
<1> DEFINE i == Row(w).i
           out == Outcome(worker[w].result, Row(w).attempts + 1)
           n == IF worker[w].result \in {"config", "throttled"} THEN out.attempts ELSE msgs[i].attempts
           known == msgs[i].known \/ worker[w].result \in {"sent", "duplicate", "pending"}
           x == [msgs[i] EXCEPT !.status = out.status, !.due = out.due, !.lock = FALSE,
                                !.attempts = n, !.known = known]
<1>1. TextTypes /\ msgs \in Seq(MessageOf) /\ worker[w].todo # {} /\ UNCHANGED rest
  BY DEF TInv, TextTypes, TextShape, TextExists, Working, RecordOutcome, Is
<1>2. Row(w) \in RowOf /\ i \in 1..Len(msgs) /\ msgs[i] \in MessageOf
  BY <1>1, RowIsListed
<1>3. msgs' = [msgs EXCEPT ![i] = x] \/ UNCHANGED msgs
  BY DEF RecordOutcome
<1>4. Row(w).attempts + 1 \in Int /\ worker[w].result \in Results \ {"none"}
  BY <1>1, <1>2 DEF TextTypes, TextShape, TextExists, Working, RecordOutcome, Is, SenderOf, RowOf
<1>5. /\ out.status \in {"queued", "sent", "pending", "failed", "unknown"}
      /\ out.due \in BOOLEAN /\ out.attempts \in Int
  BY <1>4, OutcomeTyped
<1>6. n \in Int /\ known \in BOOLEAN
  BY <1>2, <1>5 DEF MessageOf
<1> HIDE DEF out, n, known
<1>7. x \in MessageOf /\ x.camp = msgs[i].camp /\ x.to = msgs[i].to
      /\ x.texts = msgs[i].texts /\ x.took = msgs[i].took
  BY <1>2, <1>5, <1>6 DEF MessageOf
<1> HIDE DEF x
<1>8. SameRows /\ SameTexts
  BY <1>1, <1>2, <1>3, <1>7, OneRowChanges DEF SameRows, SameTexts
<1>9. SweepsTyped
  BY <1>1, <1>8, NextRow DEF RecordOutcome
<1> QED BY <1>1, <1>8, <1>9, RewritesKeep, TextsKeep

LEMMA CrashKeeps ==
  ASSUME TInv, NEW w \in Workers, KillSweep(w)
  PROVE  TInv'
<1>1. SameRows /\ SameTexts
  BY DEF TInv, TextTypes, TextShape, KillSweep, SameRows, SameTexts
<1>2. SweepsTyped
  BY <1>1, RestKeeps DEF TInv, KillSweep
<1> QED BY <1>1, <1>2, RewritesKeep, TextsKeep DEF KillSweep, rest

\* A step that rewrites one row and nothing else.
LEMMA TouchKeeps ==
  ASSUME TInv, NEW i \in 1..Len(msgs), NEW x \in MessageOf, msgs' = [msgs EXCEPT ![i] = x],
         x.camp = msgs[i].camp, x.to = msgs[i].to, x.texts = msgs[i].texts,
         x.took = msgs[i].took, UNCHANGED <<rest, worker>>
  PROVE  TInv'
<1>1. SameRows /\ SameTexts
  BY OneRowChanges DEF TInv
<1>2. SweepsTyped
  BY <1>1, UnchangedWorkers DEF TInv
<1> QED BY <1>1, <1>2, RewritesKeep, TextsKeep

LEMMA TimeKeeps ==
  ASSUME TInv, NEW i \in DOMAIN msgs,
         RetryDue(i) \/ LockExpires(i) \/ RetryMessage(i) \/ Report(i) \/ Callback(i)
  PROVE  TInv'
<1>1. msgs \in Seq(MessageOf) /\ i \in 1..Len(msgs) /\ msgs[i] \in MessageOf
  BY DEF TInv, TextTypes, TextShape
<1>2. CASE RetryDue(i)
  <2> DEFINE x == [msgs[i] EXCEPT !.due = TRUE]
  <2>1. x \in MessageOf /\ x.camp = msgs[i].camp /\ x.to = msgs[i].to
        /\ x.texts = msgs[i].texts /\ x.took = msgs[i].took
    BY <1>1 DEF MessageOf
  <2>2. msgs' = [msgs EXCEPT ![i] = x] /\ UNCHANGED <<rest, worker>>
    BY <1>2 DEF RetryDue
  <2> QED BY <1>1, <2>1, <2>2, TouchKeeps
<1>3. CASE LockExpires(i)
  <2> DEFINE x == [msgs[i] EXCEPT !.lock = FALSE]
  <2>1. x \in MessageOf /\ x.camp = msgs[i].camp /\ x.to = msgs[i].to
        /\ x.texts = msgs[i].texts /\ x.took = msgs[i].took
    BY <1>1 DEF MessageOf
  <2>2. msgs' = [msgs EXCEPT ![i] = x] /\ UNCHANGED <<rest, worker>>
    BY <1>3 DEF LockExpires
  <2> QED BY <1>1, <2>1, <2>2, TouchKeeps
<1>4. CASE RetryMessage(i)
  <2> DEFINE zero == 0
             x == [msgs[i] EXCEPT !.status = "queued", !.attempts = zero, !.due = TRUE]
  <2>0. zero \in Int
    OBVIOUS
  <2>9. msgs' = [msgs EXCEPT ![i] = x] /\ UNCHANGED <<rest, worker>>
    BY <1>4 DEF RetryMessage
  <2> HIDE DEF zero
  <2>1. x \in MessageOf /\ x.camp = msgs[i].camp /\ x.to = msgs[i].to
        /\ x.texts = msgs[i].texts /\ x.took = msgs[i].took
    BY <1>1, <2>0 DEF MessageOf
  <2> QED BY <1>1, <2>1, <2>9, TouchKeeps
<1>5. CASE Report(i)
  <2>1. PICK what \in Told : msgs' = [msgs EXCEPT ![i].news = Append(@, what)]
    BY <1>5 DEF Report, Told
  <2> DEFINE news == Append(msgs[i].news, what)
             x == [msgs[i] EXCEPT !.news = news]
  <2>2. msgs[i].news \in Seq(Told)
    BY <1>1 DEF MessageOf
  <2>3. news \in Seq(Told)
    BY <2>2
  <2>4. msgs' = [msgs EXCEPT ![i] = x] /\ UNCHANGED <<rest, worker>>
    BY <1>5, <2>1 DEF Report
  <2> HIDE DEF news
  <2>5. x \in MessageOf /\ x.camp = msgs[i].camp /\ x.to = msgs[i].to
        /\ x.texts = msgs[i].texts /\ x.took = msgs[i].took
    BY <1>1, <2>3 DEF MessageOf
  <2> QED BY <1>1, <2>4, <2>5, TouchKeeps
<1>6. CASE Callback(i)
  <2>1. PICK k \in DOMAIN msgs[i].news \ msgs[i].told :
         msgs' = [msgs EXCEPT
         ![i].told = @ \cup {k},
         ![i].status = IF msgs[i].known /\ ~msgs[i].cb THEN msgs[i].news[k] ELSE @,
         ![i].cb = @ \/ msgs[i].known]
    BY <1>6 DEF Callback
  <2> DEFINE told == msgs[i].told \cup {k}
             status == IF msgs[i].known /\ ~msgs[i].cb THEN msgs[i].news[k] ELSE msgs[i].status
             cb == msgs[i].cb \/ msgs[i].known
             x == [msgs[i] EXCEPT !.told = told, !.status = status, !.cb = cb]
  <2>2. msgs[i].news \in Seq(Told) /\ msgs[i].told \subseteq Nat
        /\ msgs[i].status \in {"queued", "sending", "sent", "pending", "failed", "unknown", "skipped"}
    BY <1>1 DEF MessageOf
  <2>3. k \in Nat /\ msgs[i].news[k] \in Told
    BY <2>2
  <2>4. told \in SUBSET Nat /\ cb \in BOOLEAN
        /\ status \in {"queued", "sending", "sent", "pending", "failed", "unknown", "skipped"}
    BY <2>2, <2>3 DEF Told
  <2>5. msgs' = [msgs EXCEPT ![i] = x] /\ UNCHANGED <<rest, worker>>
    BY <1>6, <2>1 DEF Callback
  <2> HIDE DEF told, status, cb
  <2>6. x \in MessageOf /\ x.camp = msgs[i].camp /\ x.to = msgs[i].to
        /\ x.texts = msgs[i].texts /\ x.took = msgs[i].took
    BY <1>1, <2>4 DEF MessageOf
  <2> QED BY <1>1, <2>5, <2>6, TouchKeeps
<1> QED BY <1>2, <1>3, <1>4, <1>5, <1>6

-----------------------------------------------------------------------------
\* A row that is new to its recipient.
LEMMA AppendedRow ==
  ASSUME TInv, NEW x \in MessageOf, msgs' = Append(msgs, x), UNCHANGED worker,
         x.texts = 0, x.took = "none",
         \A i \in 1..Len(msgs) : ~(msgs[i].camp = x.camp /\ msgs[i].to = x.to)
  PROVE  /\ msgs' \in Seq(MessageOf) /\ Len(msgs') = Len(msgs) + 1
         /\ (\A i \in 1..Len(msgs) : msgs'[i] = msgs[i]) /\ msgs'[Len(msgs) + 1] = x
         /\ SweepsTyped /\ OneRowEach' /\ SentWhenTaken'
<1>1. msgs \in Seq(MessageOf)
  BY DEF TInv, TextTypes, TextShape
<1>2. msgs' \in Seq(MessageOf) /\ Len(msgs') = Len(msgs) + 1
      /\ (\A i \in 1..Len(msgs) : msgs'[i] = msgs[i]) /\ msgs'[Len(msgs) + 1] = x
  BY <1>1
<1>3. ASSUME NEW v \in Workers PROVE Working(v)' /\ Listed(v)'
  BY <1>1, <1>2 DEF TInv, TextTypes, TextExists, Working, Listed
<1>4. SweepsTyped
  BY <1>3 DEF SweepsTyped, TInv, TextTypes, TextShape
<1>5. \A i \in 1..Len(msgs') : i \in 1..Len(msgs) \/ i = Len(msgs) + 1
  BY <1>1, <1>2
<1>6. OneRowEach'
  BY <1>2, <1>5 DEF TInv, OneRowEach
<1>7. SentWhenTaken'
  BY <1>2, <1>5 DEF TInv, SentWhenTaken
<1> QED BY <1>2, <1>4, <1>6, <1>7

LEMMA NewTyped ==
  ASSUME NEW camp \in Nat, NEW m \in Targets, NEW text \in Nat, NEW status \in {"queued", "skipped"}
  PROVE  LET x == New(camp, m, text, status) IN
         /\ x \in MessageOf /\ x.camp = camp /\ x.to = m /\ x.status = status
         /\ x.texts = 0 /\ x.took = "none" /\ ~x.known
<1>1. <<>> \in Seq(Told) /\ {} \in SUBSET Nat
  OBVIOUS
<1> QED BY <1>1 DEF New, MessageOf

LEMMA AlertKeeps ==
  ASSUME TInv, NEW x \in Targets, InsertAlert(x), UNCHANGED <<rest, worker>>
  PROVE  TInv'
<1>1. CASE UNCHANGED msgs
  <2>1. SameRows /\ SameTexts
    BY <1>1 DEF TInv, TextTypes, TextShape, SameRows, SameTexts
  <2> QED BY <2>1, UnchangedWorkers, RewritesKeep, TextsKeep DEF TInv
<1>2. CASE ~ UNCHANGED msgs
  <2>1. PICK status \in {"queued", "skipped"} : msgs' = Append(msgs, New(0, x, 0, status))
    BY <1>2 DEF InsertAlert
  <2>2. ~ \E i \in DOMAIN msgs : msgs[i].camp = 0 /\ msgs[i].to = x
    BY <1>2 DEF InsertAlert
  <2> DEFINE y == New(0, x, 0, status)
  <2>3. y \in MessageOf /\ y.camp = 0 /\ y.to = x /\ y.texts = 0 /\ y.took = "none"
    BY NewTyped
  <2> HIDE DEF y
  <2>4. \A i \in 1..Len(msgs) : ~(msgs[i].camp = y.camp /\ msgs[i].to = y.to)
    BY <2>2, <2>3 DEF TInv, TextTypes, TextShape
  <2>5. /\ msgs' \in Seq(MessageOf) /\ Len(msgs') = Len(msgs) + 1
        /\ (\A i \in 1..Len(msgs) : msgs'[i] = msgs[i]) /\ msgs'[Len(msgs) + 1] = y
        /\ SweepsTyped /\ OneRowEach' /\ SentWhenTaken'
    BY <2>1, <2>3, <2>4, AppendedRow DEF y
  <2>6. \A i \in 1..Len(msgs') : i \in 1..Len(msgs) \/ i = Len(msgs) + 1
    BY <2>5 DEF TInv, TextTypes, TextShape
  <2>7. TextTypes'
    <3>1. TextShape'
      BY <2>5 DEF TInv, TextTypes, TextShape, SweepsTyped, rest
    <3>2. (\A w \in Workers : Working(w)' /\ Listed(w)') /\ \A a \in SuperAdmins : Drafted(a)'
      BY <2>5 DEF TInv, TextTypes, TextExists, Drafted, SweepsTyped, rest
    <3>3. \A i \in 1..Len(msgs') : msgs'[i].camp \in 0..Len(campaigns')
      BY <2>3, <2>5, <2>6 DEF TInv, TextTypes, TextShape, TextExists, rest
    <3> QED BY <3>1, <3>2, <3>3 DEF TextTypes, TextExists
  <2>8. ToRecipients'
    BY <2>3, <2>5, <2>6 DEF TInv, ToRecipients, rest
  <2>9. ASSUME NEW a \in SuperAdmins PROVE Queueing(a)'
    <3>1. desk[a].at = "queue" => desk[a].c # 0
      BY DEF TInv, TextTypes, TextExists, Drafted
    <3> QED BY <2>3, <2>5, <2>6, <3>1 DEF TInv, Queueing, rest
  <2>10. OneDesk' /\ MailedWhenClaimed'
    BY DEF TInv, OneDesk, MailedWhenClaimed, rest
  <2> QED BY <2>5, <2>7, <2>8, <2>9, <2>10 DEF TInv
<1> QED BY <1>1, <1>2

LEMMA EnqueueKeeps ==
  ASSUME TInv, NEW x \in Targets, EnqueueAlert(x) \/ EnqueueAdminAlert(x)
  PROVE  TInv'
  BY AlertKeeps DEF EnqueueAlert, EnqueueAdminAlert

\* What leaves the queue, the sweeps and the mail alone.
LEMMA DesksKeep ==
  ASSUME TInv, UNCHANGED <<msgs, worker, summary>>, campaigns' \in Seq(Campaign),
         Len(campaigns) <= Len(campaigns'),
         desk' \in [SuperAdmins -> DeskOf], \A a \in SuperAdmins : Drafted(a)' /\ Queueing(a)',
         OneDesk',
         \A c \in 1..Len(campaigns) : campaigns[c].status # "draft" => campaigns'[c].status # "draft"
  PROVE  TInv'
<1>1. TextTypes'
  BY DEF TInv, TextTypes, TextShape, TextExists, Working, Listed
<1>2. ToRecipients'
  <2>1. ASSUME NEW i \in 1..Len(msgs), msgs[i].camp # 0 PROVE msgs[i].camp \in 1..Len(campaigns)
    BY <2>1 DEF TInv, TextTypes, TextExists
  <2> QED BY <2>1 DEF TInv, ToRecipients
<1>3. OneRowEach' /\ SentWhenTaken' /\ MailedWhenClaimed'
  BY DEF TInv, OneRowEach, SentWhenTaken, MailedWhenClaimed
<1> QED BY <1>1, <1>2, <1>3 DEF TInv

LEMMA CreateKeeps ==
  ASSUME TInv, CreateDraft
  PROVE  TInv'
<1>1. campaigns \in Seq(Campaign)
  BY DEF TInv, TextTypes, TextShape
<1>2. PICK text \in {1} \cup {campaigns[c].text : c \in DOMAIN campaigns} :
        campaigns' = Append(campaigns, [status |-> "draft", text |-> text])
  BY DEF CreateDraft
<1>3. text \in Nat
  <2>1. \A c \in DOMAIN campaigns : campaigns[c] \in Campaign
    BY <1>1
  <2>2. \A c \in DOMAIN campaigns : campaigns[c].text \in Nat
    BY <2>1 DEF Campaign
  <2> QED BY <2>2
<1>4. [status |-> "draft", text |-> text] \in Campaign
  BY <1>3 DEF Campaign
<1>5. campaigns' \in Seq(Campaign) /\ Len(campaigns') = Len(campaigns) + 1
      /\ \A c \in 1..Len(campaigns) : campaigns'[c] = campaigns[c]
  BY <1>1, <1>2, <1>4
<1>6. UNCHANGED <<msgs, worker, desk, summary>>
  BY DEF CreateDraft
<1>7. ASSUME NEW a \in SuperAdmins PROVE Drafted(a)' /\ Queueing(a)'
  BY <1>1, <1>5, <1>6 DEF TInv, TextTypes, TextExists, Drafted, Queueing
<1>8. desk' \in [SuperAdmins -> DeskOf] /\ OneDesk'
  BY <1>6 DEF TInv, TextTypes, TextShape, OneDesk
<1>9. Len(campaigns) <= Len(campaigns')
  BY <1>1, <1>5
<1> QED BY <1>5, <1>6, <1>7, <1>8, <1>9, DesksKeep

LEMMA UpdateKeeps ==
  ASSUME TInv, NEW c \in DOMAIN campaigns, UpdateDraft(c)
  PROVE  TInv'
<1>1. campaigns \in Seq(Campaign) /\ c \in 1..Len(campaigns)
  BY DEF TInv, TextTypes, TextShape
<1>2. PICK status \in {"draft", "deleted"} :
        campaigns' = [campaigns EXCEPT ![c].status = status, ![c].text = @ + 1]
  BY DEF UpdateDraft
<1> DEFINE x == [campaigns[c] EXCEPT !.status = status, !.text = @ + 1]
<1>3. x \in Campaign
  <2>1. campaigns[c] \in Campaign
    BY <1>1
  <2> DEFINE text == campaigns[c].text + 1
  <2>2. text \in Nat
    BY <2>1 DEF Campaign
  <2> HIDE DEF text
  <2>3. [campaigns[c] EXCEPT !.status = status, !.text = text] \in Campaign
    BY <2>1, <2>2 DEF Campaign
  <2> QED BY <2>3 DEF text
<1>4. campaigns' = [campaigns EXCEPT ![c] = x]
  BY <1>2
<1>5. campaigns' \in Seq(Campaign) /\ Len(campaigns') = Len(campaigns)
      /\ \A d \in 1..Len(campaigns) : d # c => campaigns'[d] = campaigns[d]
  BY <1>1, <1>3, <1>4
<1>6. UNCHANGED <<msgs, worker, desk, summary>> /\ campaigns[c].status = "draft"
  BY DEF UpdateDraft
<1>7. ASSUME NEW a \in SuperAdmins PROVE Drafted(a)' /\ Queueing(a)'
  BY <1>1, <1>5, <1>6 DEF TInv, TextTypes, TextExists, Drafted, Queueing
<1>8. desk' \in [SuperAdmins -> DeskOf] /\ OneDesk'
  BY <1>6 DEF TInv, TextTypes, TextShape, OneDesk
<1>9. Len(campaigns) <= Len(campaigns')
  BY <1>1, <1>5
<1> QED BY <1>5, <1>6, <1>7, <1>8, <1>9, DesksKeep

LEMMA SendCampaignKeeps ==
  ASSUME TInv, NEW a \in SuperAdmins, NEW c \in DOMAIN campaigns, Send(a, c)
  PROVE  TInv'
<1>1. campaigns \in Seq(Campaign) /\ c \in 1..Len(campaigns) /\ desk \in [SuperAdmins -> DeskOf]
  BY DEF TInv, TextTypes, TextShape
<1> DEFINE text == campaigns[c].text
           x == [Away EXCEPT !.at = "claim", !.c = c, !.text = text]
<1>2. text \in Nat
  <2>1. campaigns[c] \in Campaign
    BY <1>1
  <2> QED BY <2>1 DEF Campaign
<1>0. desk' = [desk EXCEPT ![a] = x] /\ UNCHANGED <<msgs, campaigns, worker, summary>>
  BY DEF Send
<1> HIDE DEF text
<1>3. x \in DeskOf /\ x.at = "claim" /\ x.c = c
  <2>1. Away \in DeskOf /\ c \in Nat
    BY <1>1 DEF Away, DeskOf
  <2>2. [Away EXCEPT !.at = "claim", !.c = c, !.text = text] \in DeskOf
    BY <1>2, <2>1 DEF DeskOf
  <2> QED BY <2>1, <2>2 DEF DeskOf
<1>4. desk' = [desk EXCEPT ![a] = x] /\ UNCHANGED <<msgs, campaigns, worker, summary>>
  BY <1>0
<1> HIDE DEF x
<1>5. desk' \in [SuperAdmins -> DeskOf] /\ \A b \in SuperAdmins : desk'[b] = IF b = a THEN x ELSE desk[b]
  BY <1>1, <1>3, <1>4
<1>6. ASSUME NEW b \in SuperAdmins PROVE Drafted(b)' /\ Queueing(b)'
  BY <1>1, <1>3, <1>4, <1>5 DEF TInv, TextTypes, TextExists, Drafted, Queueing
<1>7. OneDesk'
  BY <1>3, <1>5 DEF TInv, OneDesk
<1> QED BY <1>1, <1>4, <1>5, <1>6, <1>7, DesksKeep

\* Only the one that finds the draft takes it.
LEMMA TakeKeeps ==
  ASSUME TInv, NEW a \in SuperAdmins, ClaimCampaign(a)
  PROVE  TInv'
<1> DEFINE c == desk[a].c
<1>1. campaigns \in Seq(Campaign) /\ c \in 1..Len(campaigns) /\ desk \in [SuperAdmins -> DeskOf]
  BY DEF TInv, TextTypes, TextShape, TextExists, Drafted, ClaimCampaign
<1>2. UNCHANGED <<msgs, worker, summary>>
  BY DEF ClaimCampaign
<1>3. CASE campaigns[c].status = "draft"
  <2> DEFINE x == [desk[a] EXCEPT !.at = "queue", !.todo = Recipients]
             y == [campaigns[c] EXCEPT !.status = "sending"]
  <2>1. desk' = [desk EXCEPT ![a] = x] /\ campaigns' = [campaigns EXCEPT ![c] = y]
    BY <1>1, <1>3 DEF ClaimCampaign
  <2>2. x \in DeskOf /\ x.at = "queue" /\ x.c = c
    BY <1>1 DEF DeskOf
  <2>3. y \in Campaign /\ y.status = "sending"
    <3>1. campaigns[c] \in Campaign
      BY <1>1
    <3> QED BY <3>1 DEF Campaign
  <2> HIDE DEF x, y, c
  <2>4. desk' \in [SuperAdmins -> DeskOf] /\ \A b \in SuperAdmins : desk'[b] = IF b = a THEN x ELSE desk[b]
    BY <1>1, <2>1, <2>2
  <2>5. /\ campaigns' \in Seq(Campaign) /\ Len(campaigns') = Len(campaigns)
        /\ campaigns'[c] = y /\ \A d \in 1..Len(campaigns) : d # c => campaigns'[d] = campaigns[d]
    BY <1>1, <2>1, <2>3, UpdatedRow
  <2>6. \A i \in 1..Len(msgs) : msgs[i].camp # c
    BY <1>1, <1>3 DEF TInv, ToRecipients, c
  <2>7. \A b \in SuperAdmins : desk[b].at = "queue" => desk[b].c # c
    BY <1>3 DEF TInv, Queueing
  <2>8. ASSUME NEW b \in SuperAdmins PROVE Drafted(b)' /\ Queueing(b)'
    BY <1>1, <1>2, <2>2, <2>3, <2>4, <2>5, <2>6, <2>7 DEF TInv, TextTypes, TextExists, Drafted, Queueing
  <2>9. OneDesk'
    BY <2>2, <2>4, <2>7 DEF TInv, OneDesk
  <2>10. Len(campaigns) <= Len(campaigns')
    BY <1>1, <2>5
  <2>11. \A d \in 1..Len(campaigns) : campaigns[d].status # "draft" => campaigns'[d].status # "draft"
    BY <2>3, <2>5
  <2> QED BY <1>2, <2>4, <2>5, <2>8, <2>9, <2>10, <2>11, DesksKeep
<1>4. CASE campaigns[c].status # "draft"
  <2>1. desk' = [desk EXCEPT ![a] = Away] /\ UNCHANGED campaigns
    BY <1>4 DEF ClaimCampaign
  <2>2. Away \in DeskOf /\ Away.at = "away"
    BY DEF Away, DeskOf
  <2>3. desk' \in [SuperAdmins -> DeskOf] /\ \A b \in SuperAdmins : desk'[b] = IF b = a THEN Away ELSE desk[b]
    BY <1>1, <2>1, <2>2
  <2>4. ASSUME NEW b \in SuperAdmins PROVE Drafted(b)' /\ Queueing(b)'
    BY <1>1, <1>2, <2>1, <2>2, <2>3 DEF TInv, TextTypes, TextExists, Drafted, Queueing
  <2>5. OneDesk'
    BY <2>2, <2>3 DEF TInv, OneDesk
  <2> QED BY <1>1, <1>2, <2>1, <2>3, <2>4, <2>5, DesksKeep
<1> QED BY <1>3, <1>4

LEMMA FinishKeeps ==
  ASSUME TInv, NEW a \in SuperAdmins, FinishCampaign(a)
  PROVE  TInv'
<1> DEFINE c == desk[a].c
           y == [campaigns[c] EXCEPT !.status = "sent"]
<1>1. campaigns \in Seq(Campaign) /\ c \in 1..Len(campaigns) /\ desk \in [SuperAdmins -> DeskOf]
  BY DEF TInv, TextTypes, TextShape, TextExists, Drafted, FinishCampaign
<1>2. UNCHANGED <<msgs, worker, summary>> /\ desk[a].at = "queue"
  BY DEF FinishCampaign
<1>3. desk' = [desk EXCEPT ![a] = Away] /\ campaigns' = [campaigns EXCEPT ![c] = y]
  BY <1>1 DEF FinishCampaign
<1>4. Away \in DeskOf /\ Away.at = "away"
  BY DEF Away, DeskOf
<1>5. y \in Campaign /\ y.status = "sent"
  <2>1. campaigns[c] \in Campaign
    BY <1>1
  <2> QED BY <2>1 DEF Campaign
<1> HIDE DEF c, y
<1>6. desk' \in [SuperAdmins -> DeskOf] /\ \A b \in SuperAdmins : desk'[b] = IF b = a THEN Away ELSE desk[b]
  BY <1>1, <1>3, <1>4
<1>7. /\ campaigns' \in Seq(Campaign) /\ Len(campaigns') = Len(campaigns)
      /\ campaigns'[c] = y /\ \A d \in 1..Len(campaigns) : d # c => campaigns'[d] = campaigns[d]
  BY <1>1, <1>3, <1>5, UpdatedRow
<1>8. \A b \in SuperAdmins : b # a /\ desk[b].at = "queue" => desk[b].c # c
  BY <1>2 DEF TInv, OneDesk, c
<1>9. ASSUME NEW b \in SuperAdmins PROVE Drafted(b)' /\ Queueing(b)'
  BY <1>1, <1>2, <1>4, <1>6, <1>7, <1>8 DEF TInv, TextTypes, TextExists, Drafted, Queueing
<1>10. OneDesk'
  BY <1>4, <1>6 DEF TInv, OneDesk
<1>11. Len(campaigns) <= Len(campaigns')
  BY <1>1, <1>7
<1>12. \A d \in 1..Len(campaigns) : campaigns[d].status # "draft" => campaigns'[d].status # "draft"
  BY <1>5, <1>7
<1> QED BY <1>2, <1>6, <1>7, <1>9, <1>10, <1>11, <1>12, DesksKeep

LEMMA QueueKeeps ==
  ASSUME TInv, NEW a \in SuperAdmins, QueueRecipient(a)
  PROVE  TInv'
<1> DEFINE c == desk[a].c
<1>1. campaigns \in Seq(Campaign) /\ c \in 1..Len(campaigns) /\ desk \in [SuperAdmins -> DeskOf]
      /\ desk[a].at = "queue" /\ desk[a] \in DeskOf
  BY DEF TInv, TextTypes, TextShape, TextExists, Drafted, QueueRecipient
<1>2. PICK m \in desk[a].todo :
        /\ msgs' = Append(msgs, New(c, m, desk[a].text, "queued"))
        /\ desk' = [desk EXCEPT ![a].todo = @ \ {m}]
  BY DEF QueueRecipient
<1>3. UNCHANGED <<campaigns, worker, summary>>
  BY DEF QueueRecipient
<1>4. m \in Recipients /\ m \in Targets /\ c \in Nat /\ desk[a].text \in Nat
  BY <1>1, RecipientsApart DEF DeskOf, Targets
<1> DEFINE x == New(c, m, desk[a].text, "queued")
           y == [desk[a] EXCEPT !.todo = @ \ {m}]
<1>5. x \in MessageOf /\ x.camp = c /\ x.to = m /\ x.texts = 0 /\ x.took = "none"
  BY <1>4, NewTyped
<1>6. y \in DeskOf /\ y.at = "queue" /\ y.c = c /\ y.todo = desk[a].todo \ {m}
  BY <1>1 DEF DeskOf
<1>7. desk' = [desk EXCEPT ![a] = y] /\ msgs' = Append(msgs, x)
  BY <1>1, <1>2
<1>8. campaigns[c].status = "sending" /\ \A i \in 1..Len(msgs) : ~(msgs[i].camp = c /\ msgs[i].to = m)
  BY <1>1, <1>2 DEF TInv, Queueing
<1> HIDE DEF c, x, y
<1>9. desk' \in [SuperAdmins -> DeskOf] /\ \A b \in SuperAdmins : desk'[b] = IF b = a THEN y ELSE desk[b]
  BY <1>1, <1>6, <1>7
<1>10. /\ msgs' \in Seq(MessageOf) /\ Len(msgs') = Len(msgs) + 1
       /\ (\A i \in 1..Len(msgs) : msgs'[i] = msgs[i]) /\ msgs'[Len(msgs) + 1] = x
       /\ SweepsTyped /\ OneRowEach' /\ SentWhenTaken'
  BY <1>3, <1>5, <1>7, <1>8, AppendedRow
<1>11. \A i \in 1..Len(msgs') : i \in 1..Len(msgs) \/ i = Len(msgs) + 1
  BY <1>10 DEF TInv, TextTypes, TextShape
<1>12. \A b \in SuperAdmins : b # a /\ desk[b].at = "queue" => desk[b].c # c
  BY <1>1 DEF TInv, OneDesk, c
<1>13. TextTypes'
  <2>1. \A b \in SuperAdmins : Drafted(b)'
    BY <1>1, <1>3, <1>6, <1>9 DEF TInv, TextTypes, TextExists, Drafted
  <2>2. \A i \in 1..Len(msgs') : msgs'[i].camp \in 0..Len(campaigns')
    BY <1>1, <1>3, <1>5, <1>10, <1>11 DEF TInv, TextTypes, TextExists
  <2> QED BY <1>3, <1>9, <1>10, <2>1, <2>2 DEF TInv, TextTypes, TextShape, TextExists, SweepsTyped
<1>14. ToRecipients'
  BY <1>3, <1>4, <1>5, <1>8, <1>10, <1>11 DEF TInv, ToRecipients
<1>15. ASSUME NEW b \in SuperAdmins PROVE Queueing(b)'
  <2>1. CASE b = a
    <3>1. desk'[b].c = c /\ desk'[b].todo = desk[a].todo \ {m} /\ campaigns'[c].status = "sending"
      BY <1>3, <1>6, <1>8, <1>9, <2>1
    <3>2. ASSUME NEW i \in 1..Len(msgs), msgs'[i].camp = c PROVE msgs'[i].to \notin desk[a].todo
      BY <1>1, <1>10, <3>2 DEF TInv, Queueing, c
    <3>3. msgs'[Len(msgs) + 1].to \notin desk[a].todo \ {m}
      BY <1>5, <1>10
    <3>4. ASSUME NEW i \in 1..Len(msgs'), msgs'[i].camp = c
          PROVE  msgs'[i].to \notin desk[a].todo \ {m}
      BY <1>11, <3>2, <3>3, <3>4
    <3> QED BY <3>1, <3>4 DEF Queueing
  <2>2. CASE b # a
    BY <1>3, <1>5, <1>9, <1>10, <1>11, <1>12, <2>2 DEF TInv, Queueing
  <2> QED BY <2>1, <2>2
<1>16. OneDesk' /\ MailedWhenClaimed'
  BY <1>1, <1>3, <1>6, <1>9, <1>12 DEF TInv, OneDesk, MailedWhenClaimed
<1> QED BY <1>10, <1>13, <1>14, <1>15, <1>16 DEF TInv

\* The email of a day follows the insert of its row.
LEMMA MailKeeps ==
  ASSUME TInv, NEW m \in Owners, Consider(m) \/ ClaimDay(m)
  PROVE  TInv'
<1>1. UNCHANGED <<msgs, campaigns, worker, desk>>
  BY DEF Consider, ClaimDay
<1>2. summary \in [Owners -> MailOf] /\ summary[m] \in MailOf
  BY DEF TInv, TextTypes, TextShape
<1>4. PICK x \in MailOf : /\ summary' = [summary EXCEPT ![m] = x]
                          /\ x.emails <= 1 /\ (x.row = "none" => x.emails = 0)
  <2>1. /\ summary[m].row \in {"none", "skipped", "sent"} /\ summary[m].asking \in Int
        /\ summary[m].emails \in Nat /\ summary[m].emails <= 1
        /\ summary[m].row = "none" => summary[m].emails = 0
    BY <1>2 DEF TInv, MailedWhenClaimed, MailOf
  <2>2. CASE Consider(m)
    <3> DEFINE n == summary[m].asking + 1
               x == [summary[m] EXCEPT !.asking = n]
    <3>1. summary' = [summary EXCEPT ![m] = x]
      BY <2>2 DEF Consider
    <3>2. n \in Int
      BY <2>1
    <3> HIDE DEF n
    <3>3. x \in MailOf /\ x.row = summary[m].row /\ x.emails = summary[m].emails
      BY <1>2, <3>2 DEF MailOf
    <3> HIDE DEF x
    <3> QED BY <2>1, <3>1, <3>3
  <2>3. CASE ClaimDay(m)
    <3>1. PICK row \in {"skipped", "sent"}, sent \in {0, 1} :
       /\ row = "skipped" => sent = 0
       /\ summary' = [summary EXCEPT
            ![m].row = IF AlreadyClaimed(m) THEN @ ELSE row,
            ![m].asking = @ - 1,
            ![m].emails = IF AlreadyClaimed(m) THEN @ ELSE @ + sent]
      BY <2>3 DEF ClaimDay
    <3> DEFINE r == IF AlreadyClaimed(m) THEN summary[m].row ELSE row
               n == summary[m].asking - 1
               k == IF AlreadyClaimed(m) THEN summary[m].emails ELSE summary[m].emails + sent
               x == [summary[m] EXCEPT !.row = r, !.asking = n, !.emails = k]
    <3>2. summary' = [summary EXCEPT ![m] = x]
      BY <3>1
    <3>3. r \in {"none", "skipped", "sent"} /\ n \in Int /\ k \in Nat /\ k <= 1 /\ (r = "none" => k = 0)
      BY <2>1 DEF AlreadyClaimed
    <3> HIDE DEF r, n, k
    <3>4. x \in MailOf /\ x.row = r /\ x.emails = k
      BY <1>2, <3>3 DEF MailOf
    <3> HIDE DEF x
    <3> QED BY <3>2, <3>3, <3>4
  <2> QED BY <2>2, <2>3
<1>6. summary' \in [Owners -> MailOf] /\ \A n \in Owners : summary'[n] = IF n = m THEN x ELSE summary[n]
  BY <1>2, <1>4
<1>7. TextTypes'
  BY <1>1, <1>6 DEF TInv, TextTypes, TextShape, TextExists, Working, Listed, Drafted
<1>8. MailedWhenClaimed'
  BY <1>4, <1>6 DEF TInv, MailedWhenClaimed
<1>9. ToRecipients' /\ OneRowEach' /\ OneDesk' /\ SentWhenTaken' /\ \A a \in SuperAdmins : Queueing(a)'
  BY <1>1 DEF TInv, ToRecipients, OneRowEach, OneDesk, SentWhenTaken, Queueing
<1> QED BY <1>7, <1>8, <1>9 DEF TInv

LEMMA StartTyped == SmsInit => TInv
<1> SUFFICES ASSUME SmsInit PROVE TInv
  OBVIOUS
<1>1. msgs = <<>> /\ campaigns = <<>> /\ msgs \in Seq(MessageOf) /\ campaigns \in Seq(Campaign)
      /\ Len(msgs) = 0 /\ Len(campaigns) = 0
  BY DEF SmsInit
<1>2. Resting \in SenderOf /\ Resting.at = "sleep" /\ Resting.todo = {}
  BY DEF Resting, SenderOf, Results
<1>3. Away \in DeskOf /\ Away.at = "away"
  BY DEF Away, DeskOf
<1>4. NoMail \in MailOf /\ NoMail.emails = 0
  BY DEF NoMail, MailOf
<1>5. (\A w \in Workers : worker[w] = Resting) /\ (\A a \in SuperAdmins : desk[a] = Away)
      /\ \A m \in Owners : summary[m] = NoMail
  BY DEF SmsInit
<1>6. TextShape
  BY <1>1, <1>2, <1>3, <1>4 DEF SmsInit, TextShape
<1>7. TextExists
  BY <1>1, <1>2, <1>3, <1>5 DEF TextExists, Working, Listed, Drafted
<1>8. ToRecipients /\ OneRowEach /\ OneDesk /\ SentWhenTaken /\ \A a \in SuperAdmins : Queueing(a)
  BY <1>1, <1>3, <1>5 DEF ToRecipients, OneRowEach, OneDesk, SentWhenTaken, Queueing
<1>9. MailedWhenClaimed
  BY <1>4, <1>5 DEF MailedWhenClaimed
<1> QED BY <1>6, <1>7, <1>8, <1>9 DEF TInv, TextTypes

LEMMA StepKeeps ==
  ASSUME SmsAttempts \in Nat, TInv, [SmsNext]_smsVars
  PROVE  TInv'
<1>1. CASE \E w \in Workers : Sweep(w) \/ StopSweep(w) \/ KillSweep(w)
  BY <1>1, ReleaseKeeps, ReadKeeps, ClaimKeeps, StopKeeps, SendKeeps, RecordKeeps, CrashKeeps DEF Sweep
<1>2. CASE \E m \in Owners : EnqueueAlert(m) \/ Consider(m) \/ ClaimDay(m)
  BY <1>2, EnqueueKeeps, MailKeeps DEF Targets
<1>3. CASE \E o \in Operators : EnqueueAdminAlert(o)
  BY <1>3, EnqueueKeeps DEF Targets
<1>4. CASE CreateDraft
  BY <1>4, CreateKeeps
<1>5. CASE \E c \in DOMAIN campaigns : UpdateDraft(c) \/ \E a \in SuperAdmins : Send(a, c)
  BY <1>5, UpdateKeeps, SendCampaignKeeps
<1>6. CASE \E a \in SuperAdmins : Dispatch(a)
  BY <1>6, TakeKeeps, QueueKeeps, FinishKeeps DEF Dispatch
<1>7. CASE \E i \in DOMAIN msgs : RetryDue(i) \/ LockExpires(i) \/ RetryMessage(i)
                                  \/ Report(i) \/ Callback(i)
  BY <1>7, TimeKeeps
<1>8. CASE UNCHANGED smsVars
  BY <1>8 DEF smsVars, TInv, TextTypes, TextShape, TextExists, Working, Listed, Drafted, ToRecipients, OneRowEach,
              Queueing, OneDesk, SentWhenTaken, MailedWhenClaimed
<1> QED BY <1>1, <1>2, <1>3, <1>4, <1>5, <1>6, <1>7, <1>8 DEF SmsNext

-----------------------------------------------------------------------------
\* One row, at most one text.
LEMMA OneText ==
  ASSUME TInv, NEW c, NEW to,
         \A i, j \in 1..Len(msgs) :
           msgs[i].camp = c /\ msgs[i].to \in to /\ msgs[j].camp = c /\ msgs[j].to \in to => i = j
  PROVE  TextsOf(c, to) <= 1
<1> DEFINE rows == {i \in DOMAIN msgs : msgs[i].camp = c /\ msgs[i].to \in to}
           texts == UNION {{i} \X (1..msgs[i].texts) : i \in rows}
<1>1. DOMAIN msgs = 1..Len(msgs)
  BY DEF TInv, TextTypes, TextShape
<1>2. TextsOf(c, to) = Cardinality(texts)
  BY DEF TextsOf
<1>3. CASE rows = {}
  <2>1. texts = {}
    BY <1>3
  <2> QED BY <1>2, <2>1, FS_EmptySet
<1>4. CASE rows # {}
  <2>1. PICK i : i \in rows
    BY <1>4
  <2>2. rows = {i} /\ i \in 1..Len(msgs)
    BY <1>1, <2>1
  <2> HIDE DEF rows
  <2>3. texts = {i} \X (1..msgs[i].texts)
    BY <2>2
  <2>4. msgs[i].texts \in 0..1
    BY <2>2 DEF TInv, SentWhenTaken
  <2>5. texts \subseteq {<<i, 1>>}
    BY <2>3, <2>4
  <2>6. IsFiniteSet({<<i, 1>>}) /\ Cardinality({<<i, 1>>}) = 1
    BY FS_Singleton
  <2> HIDE DEF texts
  <2>7. IsFiniteSet(texts) /\ Cardinality(texts) <= Cardinality({<<i, 1>>})
    BY <2>5, <2>6, FS_Subset
  <2> QED BY <1>2, <2>6, <2>7
<1> QED BY <1>3, <1>4

LEMMA ToldOnceHolds == TInv => ToldOnce
<1> SUFFICES ASSUME TInv PROVE ToldOnce
  OBVIOUS
<1>1. ASSUME NEW x \in Owners \cup Operators PROVE TextsOf(0, {x}) <= 1
  BY OneText DEF TInv, OneRowEach
<1>2. ASSUME NEW c \in 1..MaxDrafts, NEW p \in Numbers
      PROVE  TextsOf(c, {m \in Owners : Phone[m] = p}) <= 1
  <2> DEFINE to == {m \in Owners : Phone[m] = p}
  <2>1. ASSUME NEW i \in 1..Len(msgs), NEW j \in 1..Len(msgs), msgs[i].camp = c, msgs[i].to \in to,
               msgs[j].camp = c, msgs[j].to \in to
        PROVE  i = j
    <3>1. msgs[i].to \in Recipients /\ msgs[j].to \in Recipients
      BY <2>1 DEF TInv, ToRecipients
    <3>2. msgs[i].to = msgs[j].to
      BY <2>1, <3>1, RecipientsApart
    <3> QED BY <2>1, <3>2 DEF TInv, OneRowEach
  <2> HIDE DEF to
  <2>2. TextsOf(c, to) <= 1
    BY <2>1, OneText
  <2> QED BY <2>2 DEF to
<1>3. ASSUME NEW m \in Owners PROVE summary[m].emails <= 1
  BY DEF TInv, MailedWhenClaimed
<1> QED BY <1>1, <1>2, <1>3 DEF ToldOnce

\* Whoever clicks Send how often, however sweeps overlap, die, lose their lock or
\* cannot write an outcome, and whatever is retried: a number gets one text of an
\* announcement, a merchant or an operator one of an alert, a merchant one email a
\* day.  No condition but the provider's: a row's key is sent once.
THEOREM ToldAtMostOnce ==
  ASSUME SmsAttempts \in Nat
  PROVE  SmsSpec => []ToldOnce
<1>1. TInv /\ [SmsNext]_smsVars => TInv'
  BY StepKeeps
<1>2. SmsSpec => []TInv
  BY <1>1, StartTyped, PTL DEF SmsSpec
<1> QED BY <1>2, ToldOnceHolds, PTL

-----------------------------------------------------------------------------
\* What sweeps have in hand stays theirs, action by action.
LEMMA HandsKeep ==
  ASSUME Held, FoundWhenSent',
         \A v \in Workers : InHand(v)' =>
           /\ InHand(v) /\ worker'[v].todo = worker[v].todo
           /\ msgs'[Row(v).i].status = "sending" /\ msgs'[Row(v).i].lock
  PROVE  Held'
<1>1. ASSUME NEW v \in Workers, InHand(v)' PROVE Row(v)' = Row(v)
  BY <1>1 DEF Row
<1>2. ASSUME NEW v \in Workers PROVE HasClaimed(v)'
  BY <1>1 DEF HasClaimed
<1>3. OneEach'
  BY <1>1 DEF Held, OneEach
<1> QED BY <1>2, <1>3 DEF Held

LEMMA HandListed ==
  ASSUME CInv, NEW v \in Workers, InHand(v)
  PROVE  /\ Row(v) \in worker[v].todo /\ Row(v) \in RowOf /\ Row(v).i \in 1..Len(msgs)
         /\ msgs[Row(v).i].status = "sending" /\ msgs[Row(v).i].lock
<1>1. TextTypes /\ worker[v].todo # {}
  BY DEF CInv, TInv, TextTypes, TextExists, Working, InHand
<1>2. Row(v) \in worker[v].todo /\ Row(v) \in RowOf /\ Row(v).i \in 1..Len(msgs)
  BY <1>1, RowIsListed
<1> QED BY <1>2 DEF CInv, Held, HasClaimed

\* A row nobody has in hand is rewritten, or one that stays as it is for who has it.
LEMMA RowHolds ==
  ASSUME CInv, NEW i \in 1..Len(msgs), NEW x \in MessageOf, msgs' = [msgs EXCEPT ![i] = x],
         \A v \in Workers : InHand(v)' => InHand(v) /\ worker'[v].todo = worker[v].todo
                                         /\ (Row(v).i = i => x.status = "sending" /\ x.lock),
         x.known /\ ~x.cb => x.status \in {"sent", "pending"},
         Taken(i) => x.status \notin {"queued", "sending"}
  PROVE  Held' /\ StaysTaken
<1>1. msgs \in Seq(MessageOf)
  BY DEF CInv, TInv, TextTypes, TextShape
<1>2. Len(msgs') = Len(msgs) /\ msgs'[i] = x /\ \A j \in 1..Len(msgs) : j # i => msgs'[j] = msgs[j]
  BY <1>1, UpdatedRow
<1>3. FoundWhenSent'
  BY <1>2 DEF CInv, Held, FoundWhenSent
<1>4. ASSUME NEW v \in Workers, InHand(v)'
      PROVE  /\ InHand(v) /\ worker'[v].todo = worker[v].todo
             /\ msgs'[Row(v).i].status = "sending" /\ msgs'[Row(v).i].lock
  BY <1>2, <1>4, HandListed
<1>5. Held'
  BY <1>3, <1>4, HandsKeep DEF CInv
<1>6. StaysTaken
  BY <1>2 DEF StaysTaken, Taken
<1> QED BY <1>5, <1>6

\* The queue stays as it is, or grows.
LEMMA QueueHolds ==
  ASSUME CInv, \/ UNCHANGED msgs
               \/ \E x \in MessageOf : msgs' = Append(msgs, x) /\ ~x.known,
         \A v \in Workers : InHand(v)' => InHand(v) /\ worker'[v].todo = worker[v].todo
  PROVE  Held' /\ StaysTaken
<1>1. msgs \in Seq(MessageOf)
  BY DEF CInv, TInv, TextTypes, TextShape
<1>2. \A i \in 1..Len(msgs) : msgs'[i] = msgs[i]
  BY <1>1
<1>3. FoundWhenSent'
  <2>1. CASE UNCHANGED msgs
    BY <2>1 DEF CInv, Held, FoundWhenSent
  <2>2. CASE \E x \in MessageOf : msgs' = Append(msgs, x) /\ ~x.known
    <3>1. PICK x \in MessageOf : msgs' = Append(msgs, x) /\ ~x.known
      BY <2>2
    <3>2. Len(msgs') = Len(msgs) + 1 /\ msgs'[Len(msgs) + 1] = x
      BY <1>1, <3>1
    <3>3. \A i \in 1..Len(msgs') : i \in 1..Len(msgs) \/ i = Len(msgs) + 1
      BY <1>1, <3>2
    <3> QED BY <1>2, <3>1, <3>2, <3>3 DEF CInv, Held, FoundWhenSent
  <2> QED BY <2>1, <2>2
<1>4. ASSUME NEW v \in Workers, InHand(v)'
      PROVE  /\ InHand(v) /\ worker'[v].todo = worker[v].todo
             /\ msgs'[Row(v).i].status = "sending" /\ msgs'[Row(v).i].lock
  BY <1>2, <1>4, HandListed
<1>5. Held'
  BY <1>3, <1>4, HandsKeep DEF CInv
<1>6. StaysTaken
  BY <1>2 DEF StaysTaken, Taken
<1> QED BY <1>5, <1>6

LEMMA ReleaseHolds ==
  ASSUME CInv, NEW w \in Workers, ReleaseExpiredClaims(w)
  PROVE  Held' /\ StaysTaken
<1>1. msgs \in Seq(MessageOf) /\ worker \in [Workers -> SenderOf]
  BY DEF CInv, TInv, TextTypes, TextShape
<1>2. Len(msgs') = Len(msgs) /\ \A i \in 1..Len(msgs) :
        /\ msgs'[i].status = IF msgs[i].status = "sending" /\ ~msgs[i].lock THEN "queued" ELSE msgs[i].status
        /\ msgs'[i].lock = msgs[i].lock /\ msgs'[i].known = msgs[i].known /\ msgs'[i].cb = msgs[i].cb
  <2>1. msgs' = [i \in 1..Len(msgs) |-> IF msgs[i].status = "sending" /\ ~msgs[i].lock
                                    THEN [msgs[i] EXCEPT !.status = "queued"] ELSE msgs[i]]
    BY <1>1 DEF ReleaseExpiredClaims
  <2>2. \A i \in 1..Len(msgs) : msgs[i] \in MessageOf
    BY <1>1
  <2> QED BY <1>1, <2>1, <2>2 DEF MessageOf
<1>3. FoundWhenSent'
  BY <1>2 DEF CInv, Held, FoundWhenSent
<1>4. \A v \in Workers : InHand(v)' => InHand(v) /\ worker'[v].todo = worker[v].todo
  BY <1>1 DEF ReleaseExpiredClaims, MovesTo, Is, InHand
<1>5. \A v \in Workers : InHand(v) => Row(v).i \in 1..Len(msgs)
  BY HandListed
<1>6. Held'
  BY <1>2, <1>3, <1>4, <1>5, HandsKeep DEF CInv, Held, HasClaimed
<1>7. StaysTaken
  BY <1>2 DEF StaysTaken, Taken
<1> QED BY <1>6, <1>7

LEMMA NextRests ==
  ASSUME CInv, NEW w \in Workers, DropRow(w)
  PROVE  /\ worker'[w].at \in {"read", "claim"}
         /\ \A v \in Workers : v # w => worker'[v] = worker[v]
<1>1. worker \in [Workers -> SenderOf] /\ worker[w] \in SenderOf
  BY DEF CInv, TInv, TextTypes, TextShape
<1> QED BY <1>1 DEF DropRow, SenderOf

LEMMA ReadHolds ==
  ASSUME CInv, NEW w \in Workers, Claimable(w) \/ KillSweep(w)
  PROVE  Held' /\ StaysTaken
<1>1. worker \in [Workers -> SenderOf] /\ UNCHANGED msgs
  BY DEF CInv, TInv, TextTypes, TextShape, Claimable, KillSweep, rest
<1>2. ASSUME NEW v \in Workers, InHand(v)' PROVE InHand(v) /\ worker'[v].todo = worker[v].todo
  <2>1. v # w => worker'[v] = worker[v]
    BY <1>1 DEF Claimable, KillSweep
  <2>2. ~InHand(w)'
    <3>1. CASE KillSweep(w)
      BY <1>1, <3>1 DEF KillSweep, InHand, Resting
    <3>2. CASE Claimable(w)
      <4> DEFINE p == AfterPurpose(worker[w].purpose)
                 rows == {i \in DOMAIN msgs : /\ PurposeOf(i) = p
                                   /\ msgs[i].status \in {"queued", "failed"}
                                   /\ msgs[i].attempts < SmsAttempts /\ msgs[i].due}
                 todo == {[i |-> k, status |-> msgs[k].status, attempts |-> msgs[k].attempts] : k \in rows}
                 new == IF p = "none" THEN Resting
                        ELSE [Resting EXCEPT !.at = IF rows = {} THEN "read" ELSE "claim",
                                             !.purpose = p, !.todo = todo]
      <4>1. worker'[w] = new
        BY <1>1, <3>2 DEF Claimable
      <4> HIDE DEF p, rows, todo
      <4>2. new.at \notin {"send", "save"}
        BY DEF Resting
      <4> QED BY <4>1, <4>2 DEF InHand
    <3> QED BY <3>1, <3>2
  <2> QED BY <1>2, <2>1, <2>2 DEF InHand
<1> QED BY <1>1, <1>2, QueueHolds

\* A row is claimed only as it was read: waiting, so in nobody's hand.
LEMMA ClaimHolds ==
  ASSUME CInv, NEW w \in Workers, ClaimMessage(w)
  PROVE  Held' /\ StaysTaken
<1> DEFINE i == Row(w).i
<1>1. msgs \in Seq(MessageOf) /\ worker \in [Workers -> SenderOf] /\ worker[w] \in SenderOf
      /\ worker[w].at = "claim" /\ worker[w].todo # {}
  BY DEF CInv, TInv, TextTypes, TextShape, TextExists, Working, ClaimMessage, Is
<1>2. Row(w) \in worker[w].todo /\ Row(w) \in RowOf /\ i \in 1..Len(msgs) /\ msgs[i] \in MessageOf
  BY <1>1, RowIsListed DEF CInv, TInv
<1>3. CASE StillAsRead(Row(w))
  <2> DEFINE n == Row(w).attempts + 1
             x == [msgs[i] EXCEPT !.status = "sending", !.lock = TRUE, !.attempts = n]
  <2>1. msgs[i].status \in {"queued", "failed"}
    BY <1>2, <1>3 DEF StillAsRead, RowOf
  <2>2. msgs' = [msgs EXCEPT ![i] = x] /\ MovesTo(w, "send")
    BY <1>3 DEF ClaimMessage
  <2>3. n \in Int
    BY <1>2 DEF RowOf
  <2> HIDE DEF n
  <2>4. x \in MessageOf /\ x.status = "sending" /\ x.lock /\ x.known = msgs[i].known /\ x.cb = msgs[i].cb
    BY <1>2, <2>3 DEF MessageOf
  <2> HIDE DEF x
  <2>5. Len(msgs') = Len(msgs) /\ msgs'[i] = x /\ \A j \in 1..Len(msgs) : j # i => msgs'[j] = msgs[j]
    BY <1>1, <1>2, <2>2, <2>4, UpdatedRow
  <2>6. \A v \in Workers : worker'[v].todo = worker[v].todo /\ (v # w => worker'[v] = worker[v])
    BY <1>1, <2>2 DEF MovesTo, SenderOf
  <2>7. \A v \in Workers : Row(v)' = Row(v) /\ (v # w /\ InHand(v)' => InHand(v))
    BY <2>6 DEF Row, InHand
  <2>8. \A v \in Workers : InHand(v) => Row(v).i # i
    BY <2>1, HandListed
  <2>9. ASSUME NEW v \in Workers PROVE HasClaimed(v)'
    <3>1. CASE v = w
      BY <2>4, <2>5, <2>7, <3>1 DEF HasClaimed
    <3>2. CASE v # w
      BY <2>5, <2>7, <2>8, <3>2, HandListed DEF HasClaimed
    <3> QED BY <3>1, <3>2
  <2>10. OneEach'
    BY <2>7, <2>8 DEF CInv, Held, OneEach
  <2>11. FoundWhenSent'
    BY <1>2, <2>1, <2>4, <2>5 DEF CInv, Held, FoundWhenSent
  <2>12. StaysTaken
    BY <2>1, <2>5 DEF StaysTaken, Taken
  <2> QED BY <2>9, <2>10, <2>11, <2>12 DEF Held
<1>4. CASE ~StillAsRead(Row(w))
  <2>1. DropRow(w) /\ UNCHANGED msgs
    BY <1>4 DEF ClaimMessage
  <2>2. ASSUME NEW v \in Workers, InHand(v)' PROVE InHand(v) /\ worker'[v].todo = worker[v].todo
    BY <1>1, <2>1, <2>2, NextRests DEF InHand
  <2> QED BY <2>1, <2>2, QueueHolds
<1> QED BY <1>3, <1>4

LEMMA StopHolds ==
  ASSUME CInv, NEW w \in Workers, StopSweep(w)
  PROVE  Held' /\ StaysTaken
<1> DEFINE i == Row(w).i
           n == Row(w).attempts
           x == [msgs[i] EXCEPT !.status = "queued", !.lock = FALSE, !.attempts = n]
<1>1. msgs \in Seq(MessageOf) /\ worker \in [Workers -> SenderOf] /\ InHand(w)
  BY DEF CInv, TInv, TextTypes, TextShape, StopSweep, Is, InHand
<1>2. Row(w) \in RowOf /\ i \in 1..Len(msgs) /\ msgs[i] \in MessageOf /\ msgs[i].status = "sending"
  BY <1>1, HandListed
<1>3. msgs' = [msgs EXCEPT ![i] = x] \/ UNCHANGED msgs
  BY DEF StopSweep
<1>4. n \in Int
  BY <1>2 DEF RowOf
<1> HIDE DEF n
<1>5. x \in MessageOf /\ x.status = "queued" /\ x.known = msgs[i].known /\ x.cb = msgs[i].cb
  BY <1>2, <1>4 DEF MessageOf
<1> HIDE DEF x
<1>6. ASSUME NEW v \in Workers, InHand(v)'
      PROVE  InHand(v) /\ worker'[v].todo = worker[v].todo /\ v # w
  BY <1>1, <1>6 DEF StopSweep, Resting, InHand
<1>7. \A v \in Workers : InHand(v)' => Row(v).i # i
  BY <1>1, <1>6 DEF CInv, Held, OneEach
<1>8. x.known => x.cb
  BY <1>2, <1>5 DEF CInv, Held, FoundWhenSent
<1>9. ~Taken(i)
  BY <1>2 DEF Taken
<1>10. CASE UNCHANGED msgs
  BY <1>6, <1>10, QueueHolds
<1>11. CASE msgs' = [msgs EXCEPT ![i] = x]
  BY <1>2, <1>5, <1>6, <1>7, <1>8, <1>9, <1>11, RowHolds
<1> QED BY <1>3, <1>10, <1>11

LEMMA SendHolds ==
  ASSUME CInv, NEW w \in Workers, SendSms(w)
  PROVE  Held' /\ StaysTaken
<1> DEFINE i == Row(w).i
<1>1. msgs \in Seq(MessageOf) /\ worker \in [Workers -> SenderOf] /\ InHand(w) /\ worker[w] \in SenderOf
  BY DEF CInv, TInv, TextTypes, TextShape, SendSms, Is, InHand
<1>2. i \in 1..Len(msgs) /\ msgs[i] \in MessageOf /\ msgs[i].status = "sending" /\ msgs[i].lock
  BY <1>1, HandListed
<1>3. PICK answer \in SmsAnswers(msgs[i].took) :
       LET took == IF msgs[i].took # "none" THEN msgs[i].took
                   ELSE IF answer \in {"sent", "pending"} THEN answer
                   ELSE IF answer = "lost" THEN "sent" ELSE "none" IN
       /\ msgs' = [msgs EXCEPT ![i].took = took,
                               ![i].texts = IF took # msgs[i].took THEN @ + 1 ELSE @]
       /\ worker' = [worker EXCEPT ![w].at = "save",
                       ![w].result = IF answer = "lost" THEN "unknown" ELSE answer]
  BY DEF SendSms
<1> DEFINE took == IF msgs[i].took # "none" THEN msgs[i].took
                   ELSE IF answer \in {"sent", "pending"} THEN answer
                   ELSE IF answer = "lost" THEN "sent" ELSE "none"
           texts == IF took # msgs[i].took THEN msgs[i].texts + 1 ELSE msgs[i].texts
           x == [msgs[i] EXCEPT !.took = took, !.texts = texts]
<1>10. msgs' = [msgs EXCEPT ![i] = x]
  BY <1>3
<1> HIDE DEF took, texts
<1>11. /\ x.status = msgs[i].status /\ x.lock = msgs[i].lock
       /\ x.known = msgs[i].known /\ x.cb = msgs[i].cb
  BY <1>2 DEF MessageOf
<1> HIDE DEF x
<1>4. Len(msgs') = Len(msgs) /\ \A j \in 1..Len(msgs) :
        /\ msgs'[j].status = msgs[j].status /\ msgs'[j].lock = msgs[j].lock
        /\ msgs'[j].known = msgs[j].known /\ msgs'[j].cb = msgs[j].cb
  <2> DEFINE S == MessageOf \cup {x}
  <2>1. x \in S
    OBVIOUS
  <2>2. msgs \in Seq(S)
    BY <1>1
  <2> HIDE DEF S
  <2>3. Len(msgs') = Len(msgs) /\ msgs'[i] = x /\ \A j \in 1..Len(msgs) : j # i => msgs'[j] = msgs[j]
    BY <1>2, <1>10, <2>1, <2>2, UpdatedRow
  <2> QED BY <1>11, <2>3
<1>5. \A v \in Workers : InHand(v)' => InHand(v) /\ worker'[v].todo = worker[v].todo
  BY <1>1, <1>3 DEF InHand, SenderOf
<1>6. FoundWhenSent'
  BY <1>4 DEF CInv, Held, FoundWhenSent
<1>7. ASSUME NEW v \in Workers, InHand(v)'
      PROVE  /\ InHand(v) /\ worker'[v].todo = worker[v].todo
             /\ msgs'[Row(v).i].status = "sending" /\ msgs'[Row(v).i].lock
  BY <1>4, <1>5, <1>7, HandListed
<1>8. Held'
  BY <1>6, <1>7, HandsKeep DEF CInv
<1>9. StaysTaken
  BY <1>4 DEF StaysTaken, Taken
<1> QED BY <1>8, <1>9

\* The answer is written on the row that was claimed for it.
LEMMA RecordHolds ==
  ASSUME SmsAttempts \in Nat, CInv, NEW w \in Workers, RecordOutcome(w)
  PROVE  Held' /\ StaysTaken
<1> DEFINE i == Row(w).i
           result == worker[w].result
           out == Outcome(result, Row(w).attempts + 1)
           n == IF result \in {"config", "throttled"} THEN out.attempts ELSE msgs[i].attempts
           known == msgs[i].known \/ result \in {"sent", "duplicate", "pending"}
           x == [msgs[i] EXCEPT !.status = out.status, !.due = out.due, !.lock = FALSE,
                                !.attempts = n, !.known = known]
<1>1. msgs \in Seq(MessageOf) /\ worker \in [Workers -> SenderOf] /\ InHand(w) /\ worker[w] \in SenderOf
      /\ result \in Results \ {"none"}
  BY DEF CInv, TInv, TextTypes, TextShape, TextExists, Working, RecordOutcome, Is, InHand, SenderOf
<1>2. Row(w) \in RowOf /\ i \in 1..Len(msgs) /\ msgs[i] \in MessageOf /\ msgs[i].status = "sending"
  BY <1>1, HandListed
<1>3. msgs' = [msgs EXCEPT ![i] = x] \/ UNCHANGED msgs
  BY DEF RecordOutcome
<1>4. Row(w).attempts + 1 \in Int
  BY <1>2 DEF RowOf
<1>5. /\ out.status \in {"queued", "sent", "pending", "failed", "unknown"}
      /\ out.due \in BOOLEAN /\ out.attempts \in Int
  BY <1>1, <1>4, OutcomeTyped
<1>6. n \in Int /\ known \in BOOLEAN
  BY <1>2, <1>5 DEF MessageOf
<1>7. result \in {"sent", "duplicate", "pending"} => out.status \in {"sent", "pending"}
  BY DEF Outcome
<1>8. msgs[i].known => msgs[i].cb
  BY <1>2 DEF CInv, Held, FoundWhenSent
<1>9. known /\ ~msgs[i].cb => out.status \in {"sent", "pending"}
  BY <1>7, <1>8
<1> HIDE DEF out, n, known
<1>10. x \in MessageOf /\ x.status = out.status /\ x.known = known /\ x.cb = msgs[i].cb
  BY <1>2, <1>5, <1>6 DEF MessageOf
<1> HIDE DEF x
<1>11. DropRow(w)
  BY DEF RecordOutcome
<1>12. ASSUME NEW v \in Workers, InHand(v)'
       PROVE  InHand(v) /\ worker'[v].todo = worker[v].todo /\ v # w
  BY <1>1, <1>11, <1>12, NextRests DEF InHand
<1>13. \A v \in Workers : InHand(v)' => Row(v).i # i
  BY <1>1, <1>12 DEF CInv, Held, OneEach
<1>14. ~Taken(i)
  BY <1>2 DEF Taken
<1>15. CASE UNCHANGED msgs
  BY <1>12, <1>15, QueueHolds
<1>16. CASE msgs' = [msgs EXCEPT ![i] = x]
  BY <1>2, <1>9, <1>10, <1>12, <1>13, <1>14, <1>16, RowHolds
<1> QED BY <1>3, <1>15, <1>16

\* Time, retries and callbacks do not reach what a sweep has in hand.
LEMMA TimeHolds ==
  ASSUME "slow" \notin SmsFaults, CInv, NEW i \in DOMAIN msgs,
         RetryDue(i) \/ LockExpires(i) \/ RetryMessage(i) \/ Report(i) \/ Callback(i)
  PROVE  Held' /\ StaysTaken
<1>1. msgs \in Seq(MessageOf) /\ i \in 1..Len(msgs) /\ msgs[i] \in MessageOf
  BY DEF CInv, TInv, TextTypes, TextShape
<1>2. \A v \in Workers : InHand(v)' => InHand(v) /\ worker'[v].todo = worker[v].todo
  BY DEF RetryDue, LockExpires, RetryMessage, Report, Callback, InHand
<1>3. \A v \in Workers : InHand(v) /\ Row(v).i = i => msgs[i].status = "sending" /\ msgs[i].lock
  BY HandListed
<1>4. msgs[i].known /\ ~msgs[i].cb => msgs[i].status \in {"sent", "pending"}
  BY <1>1 DEF CInv, Held, FoundWhenSent
<1>5. CASE RetryDue(i)
  <2> DEFINE x == [msgs[i] EXCEPT !.due = TRUE]
  <2>1. msgs' = [msgs EXCEPT ![i] = x]
    BY <1>5 DEF RetryDue
  <2>2. /\ x \in MessageOf /\ x.status = msgs[i].status /\ x.lock = msgs[i].lock
        /\ x.known = msgs[i].known /\ x.cb = msgs[i].cb
    BY <1>1 DEF MessageOf
  <2> HIDE DEF x
  <2> QED BY <1>1, <1>2, <1>3, <1>4, <2>1, <2>2, RowHolds DEF Taken
<1>6. CASE LockExpires(i)
  <2> DEFINE x == [msgs[i] EXCEPT !.lock = FALSE]
  <2>1. msgs' = [msgs EXCEPT ![i] = x] /\ \A v \in Workers : ~(InHand(v) /\ Row(v).i = i)
    BY <1>6 DEF LockExpires, InHand
  <2>2. /\ x \in MessageOf /\ x.status = msgs[i].status
        /\ x.known = msgs[i].known /\ x.cb = msgs[i].cb
    BY <1>1 DEF MessageOf
  <2> HIDE DEF x
  <2> QED BY <1>1, <1>2, <1>4, <2>1, <2>2, RowHolds DEF Taken
<1>7. CASE RetryMessage(i)
  <2> DEFINE zero == 0
             x == [msgs[i] EXCEPT !.status = "queued", !.attempts = zero, !.due = TRUE]
  <2>1. msgs' = [msgs EXCEPT ![i] = x] /\ msgs[i].status = "failed"
    BY <1>7 DEF RetryMessage
  <2>2. zero \in Int
    OBVIOUS
  <2> HIDE DEF zero
  <2>3. /\ x \in MessageOf /\ x.status = "queued"
        /\ x.known = msgs[i].known /\ x.cb = msgs[i].cb
    BY <1>1, <2>2 DEF MessageOf
  <2> HIDE DEF x
  <2> QED BY <1>1, <1>2, <1>3, <1>4, <2>1, <2>3, RowHolds DEF Taken
<1>8. CASE Report(i)
  <2>1. PICK what \in Told : msgs' = [msgs EXCEPT ![i].news = Append(@, what)]
    BY <1>8 DEF Report, Told
  <2> DEFINE news == Append(msgs[i].news, what)
             x == [msgs[i] EXCEPT !.news = news]
  <2>2. msgs[i].news \in Seq(Told)
    BY <1>1 DEF MessageOf
  <2>3. news \in Seq(Told)
    BY <2>2
  <2>4. msgs' = [msgs EXCEPT ![i] = x]
    BY <2>1
  <2> HIDE DEF news
  <2>5. /\ x \in MessageOf /\ x.status = msgs[i].status /\ x.lock = msgs[i].lock
        /\ x.known = msgs[i].known /\ x.cb = msgs[i].cb
    BY <1>1, <2>3 DEF MessageOf
  <2> HIDE DEF x
  <2> QED BY <1>1, <1>2, <1>3, <1>4, <2>4, <2>5, RowHolds DEF Taken
<1>9. CASE Callback(i)
  <2>1. PICK k \in DOMAIN msgs[i].news \ msgs[i].told :
         msgs' = [msgs EXCEPT
         ![i].told = @ \cup {k},
         ![i].status = IF msgs[i].known /\ ~msgs[i].cb THEN msgs[i].news[k] ELSE @,
         ![i].cb = @ \/ msgs[i].known]
    BY <1>9 DEF Callback
  <2> DEFINE told == msgs[i].told \cup {k}
             status == IF msgs[i].known /\ ~msgs[i].cb THEN msgs[i].news[k] ELSE msgs[i].status
             cb == msgs[i].cb \/ msgs[i].known
             x == [msgs[i] EXCEPT !.told = told, !.status = status, !.cb = cb]
  <2>2. msgs[i].news \in Seq(Told) /\ msgs[i].told \subseteq Nat
        /\ msgs[i].status \in {"queued", "sending", "sent", "pending", "failed", "unknown", "skipped"}
    BY <1>1 DEF MessageOf
  <2>3. k \in Nat /\ msgs[i].news[k] \in Told
    BY <2>2
  <2>4. told \in SUBSET Nat /\ cb \in BOOLEAN
        /\ status \in {"queued", "sending", "sent", "pending", "failed", "unknown", "skipped"}
    BY <2>2, <2>3 DEF Told
  <2>5. msgs' = [msgs EXCEPT ![i] = x]
    BY <2>1
  <2>6. msgs[i].status = "sending" => status = "sending"
    BY <1>4
  <2>7. Taken(i) => status \notin {"queued", "sending"}
    BY <2>3 DEF Taken, Told
  <2>8. msgs[i].known => cb
    OBVIOUS
  <2> HIDE DEF told, status, cb
  <2>9. /\ x \in MessageOf /\ x.status = status /\ x.lock = msgs[i].lock
        /\ x.known = msgs[i].known /\ x.cb = cb
    BY <1>1, <2>4 DEF MessageOf
  <2> HIDE DEF x
  <2> QED BY <1>1, <1>2, <1>3, <2>5, <2>6, <2>7, <2>8, <2>9, RowHolds
<1> QED BY <1>5, <1>6, <1>7, <1>8, <1>9

\* Whoever puts messages in the queue adds to it; the rest leaves it alone.
LEMMA OthersHold ==
  ASSUME CInv, UNCHANGED worker,
         \/ \E x \in Targets : InsertAlert(x)
         \/ \E a \in SuperAdmins : QueueRecipient(a)
         \/ UNCHANGED msgs
  PROVE  Held' /\ StaysTaken
<1>1. \A v \in Workers : InHand(v)' => InHand(v) /\ worker'[v].todo = worker[v].todo
  BY DEF InHand
<1>2. CASE UNCHANGED msgs
  BY <1>1, <1>2, QueueHolds
<1>3. CASE \E x \in Targets : InsertAlert(x) /\ ~ UNCHANGED msgs
  <2>1. PICK x \in Targets, status \in {"queued", "skipped"} : msgs' = Append(msgs, New(0, x, 0, status))
    BY <1>3 DEF InsertAlert
  <2> DEFINE y == New(0, x, 0, status)
  <2>2. y \in MessageOf /\ ~y.known
    BY NewTyped
  <2> HIDE DEF y
  <2> QED BY <1>1, <2>1, <2>2, QueueHolds DEF y
<1>4. CASE \E a \in SuperAdmins : QueueRecipient(a)
  <2>0. PICK a \in SuperAdmins : QueueRecipient(a)
    BY <1>4
  <2>1. PICK m \in desk[a].todo : msgs' = Append(msgs, New(desk[a].c, m, desk[a].text, "queued"))
    BY <2>0 DEF QueueRecipient
  <2>2. desk[a] \in DeskOf
    BY DEF CInv, TInv, TextTypes, TextShape
  <2>3. m \in Targets /\ desk[a].c \in Nat /\ desk[a].text \in Nat
    BY <2>2, RecipientsApart DEF DeskOf, Targets
  <2> DEFINE y == New(desk[a].c, m, desk[a].text, "queued")
  <2>4. y \in MessageOf /\ ~y.known
    BY <2>3, NewTyped
  <2> HIDE DEF y
  <2> QED BY <1>1, <2>1, <2>4, QueueHolds DEF y
<1> QED BY <1>2, <1>3, <1>4

LEMMA StepHolds ==
  ASSUME SmsAttempts \in Nat, "slow" \notin SmsFaults, CInv, [SmsNext]_smsVars
  PROVE  Held' /\ StaysTaken
<1>1. CASE \E w \in Workers : Sweep(w) \/ StopSweep(w) \/ KillSweep(w)
  BY <1>1, ReleaseHolds, ReadHolds, ClaimHolds, StopHolds, SendHolds, RecordHolds DEF Sweep
<1>2. CASE \E m \in Owners : EnqueueAlert(m) \/ Consider(m) \/ ClaimDay(m)
  BY <1>2, OthersHold DEF Targets, EnqueueAlert, Consider, ClaimDay
<1>3. CASE \E o \in Operators : EnqueueAdminAlert(o)
  BY <1>3, OthersHold DEF Targets, EnqueueAdminAlert
<1>4. CASE CreateDraft
  BY <1>4, OthersHold DEF CreateDraft
<1>5. CASE \E c \in DOMAIN campaigns : UpdateDraft(c) \/ \E a \in SuperAdmins : Send(a, c)
  BY <1>5, OthersHold DEF UpdateDraft, Send
<1>6. CASE \E a \in SuperAdmins : Dispatch(a)
  <2>1. PICK a \in SuperAdmins : Dispatch(a)
    BY <1>6
  <2>2. CASE QueueRecipient(a)
    BY <2>2, OthersHold DEF QueueRecipient
  <2>3. CASE ClaimCampaign(a) \/ FinishCampaign(a)
    BY <2>3, OthersHold DEF ClaimCampaign, FinishCampaign
  <2> QED BY <2>1, <2>2, <2>3 DEF Dispatch
<1>7. CASE \E i \in DOMAIN msgs : RetryDue(i) \/ LockExpires(i) \/ RetryMessage(i)
                                  \/ Report(i) \/ Callback(i)
  BY <1>7, TimeHolds
<1>8. CASE UNCHANGED smsVars
  BY <1>8, OthersHold DEF smsVars
<1> QED BY <1>1, <1>2, <1>3, <1>4, <1>5, <1>6, <1>7, <1>8 DEF SmsNext

\* A message that was sent, is pending or may have been sent does not go back to
\* the queue by itself, if no lock expires under a sweep that is alive.
THEOREM TakenStaysTaken ==
  ASSUME SmsAttempts \in Nat, "slow" \notin SmsFaults
  PROVE  SmsSpec => TakenIsFinal
<1>1. SmsInit => CInv
  <2> SUFFICES ASSUME SmsInit PROVE CInv
    OBVIOUS
  <2>1. TInv
    BY StartTyped
  <2>2. msgs = <<>> /\ \A w \in Workers : worker[w].at = "sleep"
    BY DEF SmsInit, Resting
  <2>3. Held
    BY <2>2 DEF Held, HasClaimed, OneEach, InHand, FoundWhenSent
  <2> QED BY <2>1, <2>3 DEF CInv
<1>2. CInv /\ [SmsNext]_smsVars => CInv'
  BY StepKeeps, StepHolds DEF CInv
<1>3. CInv /\ [SmsNext]_smsVars
        => \A i \in DOMAIN msgs : Taken(i) => msgs'[i].status \notin {"queued", "sending"}
  <2> SUFFICES ASSUME CInv, [SmsNext]_smsVars
               PROVE  \A i \in DOMAIN msgs : Taken(i) => msgs'[i].status \notin {"queued", "sending"}
    OBVIOUS
  <2>1. StaysTaken
    BY StepHolds
  <2>2. DOMAIN msgs = 1..Len(msgs)
    BY DEF CInv, TInv, TextTypes, TextShape
  <2> QED BY <2>1, <2>2 DEF StaysTaken
<1> QED BY <1>1, <1>2, <1>3, PTL DEF SmsSpec, TakenIsFinal
=============================================================================
