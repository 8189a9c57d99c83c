--------------------------- MODULE Referrals_proofs ---------------------------
(***************************************************************************)
(* Theorems about Merchants and Referrals for every number of people,      *)
(* applications, requests, team members and valuations.                    *)
(*                                                                         *)
(* Sign-up looks for an earlier application whose owner is unverified, and *)
(* asks who the owner is now.  That this finds every application of        *)
(* someone who never confirmed an address rests on what the portal lets    *)
(* such a person do, which is nothing: his business has no other member    *)
(* and never had, no request under way concerns it but a review (Alone,    *)
(* Peopled, WorkOK), so he is its owner still.                             *)
(***************************************************************************)
EXTENDS Referrals, TLAPS, WellFoundedInduction

Work == [at : Places, row : Nat, user : Users \cup {""},
         to : {"", "active", "suspended", "pending_approval"} \cup Roles \cup Ruled,
         nida : Nidas \cup {""}, phone : Phones \cup {""}]
Item == [i : Nat, status : RefStatuses, started : BOOLEAN]
Calculation ==
  [at : {"idle", "next", "write", "sync"}, todo : SUBSET Item, ref : Nat,
   seen : RefStatuses \cup {""}, comm : Nat, verdict : CommStatuses \cup {""}, amount : 0 .. 2,
   qualified : BOOLEAN, over : BOOLEAN]

Tables ==
  /\ merchants \in Seq(Merchant) /\ members \in Seq(Member)
  /\ account \in [Users -> AccountStates] /\ verified \subseteq Users
RowsOK ==
  /\ refs \in Seq(Referral) /\ comms \in Seq(Commission)
  /\ coded \subseteq Nat \X Nat
Shape ==
  /\ Tables /\ RowsOK
  /\ work \in [Threads -> Work]
  /\ calc \in [Calculators -> Calculation]

\* The applicant of a merchant has confirmed an address at some time.
Known(m) == merchants[m].applicant \in verified

ConfirmedIsKnown == \A u \in Users : account[u] = "confirmed" => u \in verified
\* A business whose applicant never did is his alone.
Alone == \A i \in 1..Len(members) :
  /\ members[i].m \in 1..Len(merchants)
  /\ \/ Known(members[i].m)
     \/ /\ members[i].user = merchants[members[i].m].applicant
        /\ members[i].role = "MERCHANT_ADMIN" /\ members[i].status = "active"
Peopled == \A m \in 1..Len(merchants) :
  merchants[m].review # "NONE" => Known(m) \/ \E i \in 1..Len(members) : members[i].m = m
People == ConfirmedIsKnown /\ Alone /\ Peopled

Applying == {"membership", "submission", "profile", "resubmit"}
WorkOK(w) ==
  /\ w.at \in Applying => w.row \in 1..Len(merchants) /\ Known(w.row)
  /\ w.at \in {"activate", "suspend"} => w.row \in 1..Len(merchants)
  /\ w.at = "membership" => w.user \in Users
  /\ w.at \in {"profile", "resubmit"} => w.nida \in Nidas /\ w.phone \in Phones
  /\ w.at = "member" => /\ w.row \in 1..Len(members) /\ Known(members[w.row].m)
                        /\ w.to \in {"active", "suspended"} \cup Roles
  /\ w.at = "release" => w.to \in {"active", "pending_approval"}
  /\ w.at \in {"ruling", "ruled"} => w.to \in Ruled
WorkersOK == \A t \in Threads : WorkOK(work[t])

CalcOK(c) ==
  /\ \A x \in c.todo : x.i \in 1..Len(refs)
  /\ c.at = "next" => c.todo # {}
  /\ c.at \in {"write", "sync"} => c.verdict \in CommStatuses
CalcsOK == \A c \in Calculators : CalcOK(calc[c])

TypeInv == Shape /\ People /\ WorkersOK /\ CalcsOK

\* The search for a duplicate can always be made.
LookupAnswers == "lookup" \notin Faults
One == OneUnverifiedApplication
Kept == TypeInv' /\ (LookupAnswers /\ One => One')
-----------------------------------------------------------------------------
(***************************************************************************)
(* How a step may change the tables.                                       *)
(***************************************************************************)
\* Nobody is forgotten: rows stay, with the business and the person they are about.
Grows ==
  /\ Len(merchants) <= Len(merchants') /\ Len(members) <= Len(members')
  /\ \A m \in 1..Len(merchants) : merchants'[m].applicant = merchants[m].applicant
  /\ \A i \in 1..Len(members) : members'[i].m = members[i].m
  /\ verified \subseteq verified'

SamePeople == merchants' = merchants /\ members' = members /\ account' = account /\ verified' = verified
SameRows == refs' = refs /\ comms' = comms /\ coded' = coded

LEMMA Lengths ==
  ASSUME Shape
  PROVE  /\ Tables /\ RowsOK
         /\ Len(merchants) \in Nat /\ DOMAIN merchants = 1..Len(merchants)
         /\ Len(members) \in Nat /\ DOMAIN members = 1..Len(members)
         /\ Len(refs) \in Nat /\ DOMAIN refs = 1..Len(refs)
         /\ Len(comms) \in Nat /\ DOMAIN comms = 1..Len(comms)
         /\ \A m \in 1..Len(merchants) : merchants[m] \in Merchant
         /\ \A i \in 1..Len(members) : members[i] \in Member
         /\ \A i \in 1..Len(refs) : refs[i] \in Referral
         /\ \A i \in 1..Len(comms) : comms[i] \in Commission
  BY DEF Shape, Tables, RowsOK

LEMMA KnownStays ==
  ASSUME Tables, Grows, Tables'
  PROVE  /\ \A m \in 1..Len(merchants) : m \in 1..Len(merchants') /\ (Known(m) => Known(m)')
         /\ \A i \in 1..Len(members) : i \in 1..Len(members') /\ members'[i].m = members[i].m
<1>1. Len(merchants) \in Nat /\ Len(merchants') \in Nat /\ Len(members) \in Nat /\ Len(members') \in Nat
  BY DEF Tables
<1> QED BY <1>1 DEF Grows, Known

LEMMA WorkStays ==
  ASSUME Tables, Tables', Alone, Grows, NEW w, WorkOK(w)
  PROVE  WorkOK(w)'
<1>1. /\ \A m \in 1..Len(merchants) : m \in 1..Len(merchants') /\ (Known(m) => Known(m)')
      /\ \A i \in 1..Len(members) : i \in 1..Len(members') /\ members'[i].m = members[i].m
  BY KnownStays
<1>2. w.at \in Applying => w.row \in 1..Len(merchants') /\ Known(w.row)'
  BY <1>1 DEF WorkOK
<1>3. w.at \in {"activate", "suspend"} => w.row \in 1..Len(merchants')
  BY <1>1 DEF WorkOK
<1>4. w.at = "member" => w.row \in 1..Len(members') /\ Known(members[w.row].m)'
  <2> SUFFICES ASSUME w.at = "member" PROVE w.row \in 1..Len(members') /\ Known(members[w.row].m)'
    OBVIOUS
  <2>1. w.row \in 1..Len(members) /\ Known(members[w.row].m)
    BY DEF WorkOK
  <2>2. members[w.row].m \in 1..Len(merchants)
    BY <2>1 DEF Alone
  <2>3. PICK m \in 1..Len(merchants) : m = members[w.row].m /\ Known(m)
    BY <2>1, <2>2
  <2>4. w.row \in 1..Len(members') /\ members'[w.row].m = m /\ Known(m)'
    BY <1>1, <2>1, <2>3
  <2> QED BY <2>4 DEF Known
<1> QED BY <1>2, <1>3, <1>4 DEF WorkOK

LEMMA CalcStays ==
  ASSUME RowsOK, RowsOK', Len(refs) <= Len(refs'), NEW c, CalcOK(c)
  PROVE  CalcOK(c)'
<1>1. Len(refs) \in Nat /\ Len(refs') \in Nat
  BY DEF RowsOK
<1>2. \A i \in 1..Len(refs) : i \in 1..Len(refs')
  BY <1>1
<1> QED BY <1>2 DEF CalcOK

LEMMA CalcsStay ==
  ASSUME CalcsOK, RowsOK, RowsOK', Len(refs) <= Len(refs'), calc' = calc
  PROVE  CalcsOK'
<1> SUFFICES ASSUME NEW d \in Calculators PROVE CalcOK(calc[d])'
  BY DEF CalcsOK
<1>1. PICK c : c = calc[d]
  OBVIOUS
<1>2. CalcOK(c)'
  BY <1>1, CalcStays DEF CalcsOK
<1> QED BY <1>1, <1>2

\* One request moves, the tables with it.
LEMMA ThreadMove ==
  ASSUME TypeInv, NEW t \in Threads, NEW x \in Work, work' = [work EXCEPT ![t] = x], WorkOK(x)',
         calc' = calc, RowsOK', Len(refs) <= Len(refs'), Tables', People', Grows
  PROVE  TypeInv'
<1>1. work \in [Threads -> Work] /\ Tables /\ Alone /\ RowsOK
  BY DEF TypeInv, Shape, People
<1>2. work' \in [Threads -> Work] /\ work'[t] = x /\ \A u \in Threads \ {t} : work'[u] = work[u]
  BY <1>1
<1>3. Shape'
  BY <1>2 DEF Shape, TypeInv
<1>4. \A u \in Threads : WorkOK(work[u])'
  <2> SUFFICES ASSUME NEW u \in Threads \ {t} PROVE WorkOK(work[u])'
    BY <1>2
  <2>1. PICK w : w = work[u]
    OBVIOUS
  <2>2. WorkOK(w)
    BY <2>1 DEF TypeInv, WorkersOK
  <2>3. WorkOK(w)'
    BY <1>1, <2>2, WorkStays
  <2>4. work'[u] = w
    BY <1>2, <2>1
  <2> QED BY <2>3, <2>4
<1>5. WorkersOK'
  BY <1>4 DEF WorkersOK
<1>6. CalcsOK'
  BY <1>1, CalcsStay DEF TypeInv
<1> QED BY <1>3, <1>5, <1>6 DEF TypeInv

\* No request moves.
LEMMA TableMove ==
  ASSUME TypeInv, work' = work, calc' = calc, RowsOK', Len(refs) <= Len(refs'), Tables', People', Grows
  PROVE  TypeInv'
<1>1. work \in [Threads -> Work] /\ Tables /\ Alone /\ RowsOK
  BY DEF TypeInv, Shape, People
<1>2. Shape'
  BY DEF Shape, TypeInv
<1>3. \A u \in Threads : WorkOK(work[u])'
  <2> SUFFICES ASSUME NEW u \in Threads PROVE WorkOK(work[u])'
    OBVIOUS
  <2>1. PICK w : w = work[u]
    OBVIOUS
  <2>2. WorkOK(w)'
    BY <1>1, <2>1, WorkStays DEF TypeInv, WorkersOK
  <2> QED BY <2>1, <2>2
<1>4. WorkersOK'
  BY <1>3 DEF WorkersOK
<1>5. CalcsOK'
  BY <1>1, CalcsStay DEF TypeInv
<1> QED BY <1>2, <1>4, <1>5 DEF TypeInv

LEMMA PeopleStay ==
  ASSUME TypeInv, SamePeople
  PROVE  Tables' /\ People' /\ Grows /\ (One => One')
<1>1. Tables
  BY DEF TypeInv, Shape
<1>2. People' /\ (One => One')
  BY DEF TypeInv, People, SamePeople, ConfirmedIsKnown, Alone, Peopled, Known, One,
         OneUnverifiedApplication
<1>3. Grows
  <2>1. Len(merchants) <= Len(merchants) /\ Len(members) <= Len(members)
    BY Lengths DEF TypeInv
  <2> QED BY <2>1 DEF Grows, SamePeople
<1>4. Tables'
  BY <1>1 DEF Tables, SamePeople
<1> QED BY <1>2, <1>3, <1>4

LEMMA SameRowsStay ==
  ASSUME TypeInv, SameRows
  PROVE  RowsOK' /\ Len(refs) <= Len(refs')
<1>1. Len(refs) <= Len(refs)
  BY Lengths DEF TypeInv
<1> QED BY <1>1 DEF TypeInv, Shape, RowsOK, SameRows

\* A valuation moves.
LEMMA CalcMove ==
  ASSUME TypeInv, SamePeople, work' = work, RowsOK', Len(refs) <= Len(refs'),
         NEW c \in Calculators, NEW x \in Calculation, CalcOK(x)', calc' = [calc EXCEPT ![c] = x]
  PROVE  Kept
<1>1. /\ calc' \in [Calculators -> Calculation] /\ calc'[c] = x
      /\ \A d \in Calculators \ {c} : calc'[d] = calc[d]
  BY DEF TypeInv, Shape
<1>2. CalcsOK'
  <2> SUFFICES ASSUME NEW d \in Calculators \ {c} PROVE CalcOK(calc[d])'
    BY <1>1 DEF CalcsOK
  <2>1. PICK y : y = calc[d]
    OBVIOUS
  <2>2. RowsOK
    BY DEF TypeInv, Shape
  <2>3. CalcOK(y)'
    BY <2>1, <2>2, CalcStays DEF TypeInv, CalcsOK
  <2> QED BY <1>1, <2>1, <2>3
<1>3. Tables' /\ People' /\ (One => One')
  BY PeopleStay
<1>4. Shape'
  BY <1>1, <1>3 DEF TypeInv, Shape
<1>5. WorkersOK'
  BY DEF TypeInv, WorkersOK, WorkOK, Known, SamePeople
<1> QED BY <1>2, <1>3, <1>4, <1>5 DEF TypeInv, Kept

\* Requests and referrals move, people stay.
LEMMA ThreadAlone ==
  ASSUME TypeInv, SamePeople, NEW t \in Threads, NEW x \in Work, work' = [work EXCEPT ![t] = x],
         WorkOK(x), calc' = calc, RowsOK', Len(refs) <= Len(refs')
  PROVE  Kept
<1>1. Tables' /\ People' /\ Grows /\ (One => One')
  BY PeopleStay
<1>2. WorkOK(x)'
  <2>1. Tables /\ Alone
    BY DEF TypeInv, People, Shape
  <2> QED BY <1>1, <2>1, WorkStays
<1> QED BY <1>1, <1>2, ThreadMove DEF Kept

LEMMA RowsAlone ==
  ASSUME TypeInv, SamePeople, work' = work, calc' = calc, RowsOK', Len(refs) <= Len(refs')
  PROVE  Kept
  BY PeopleStay, TableMove DEF Kept

LEMMA EditSeq ==
  ASSUME NEW R, NEW q \in Seq(R), NEW i, NEW y, i \in 1..Len(q) => y \in R
  PROVE  /\ [q EXCEPT ![i] = y] \in Seq(R) /\ Len([q EXCEPT ![i] = y]) = Len(q)
         /\ i \in 1..Len(q) => [q EXCEPT ![i] = y][i] = y
         /\ \A j \in 1..Len(q) : j # i => [q EXCEPT ![i] = y][j] = q[j]
<1> DEFINE p == [q EXCEPT ![i] = y]
<1>1. p = [j \in 1..Len(q) |-> IF j = i THEN y ELSE q[j]] /\ Len(q) \in Nat
  OBVIOUS
<1> HIDE DEF p
<1>2. \A j \in 1..Len(q) : p[j] = IF j = i THEN y ELSE q[j]
  BY <1>1
<1>3. \A j \in 1..Len(q) : p[j] \in R
  BY <1>2
<1>4. p \in Seq(R) /\ Len(p) = Len(q)
  BY <1>1, <1>3
<1> QED BY <1>2, <1>4 DEF p

LEMMA NoWorkOK ==
  /\ NoWork \in Work /\ NoWork.at = "idle"
  /\ WorkOK(NoWork) /\ WorkOK(NoWork)'
<1>1. NoWork \in Work /\ NoWork.at = "idle"
  BY DEF NoWork, Work, Places
<1> QED BY <1>1 DEF WorkOK, Applying
Words == {"", "active", "suspended", "pending_approval"} \cup Roles \cup Ruled

LEMMA NewMerchantOK ==
  ASSUME NEW u \in Users, NEW nida \in Nidas, NEW phone \in Phones,
         NEW review \in {"NONE", "PENDING_VERIFICATION"}
  PROVE  \E y \in Merchant :
           /\ y = [NewMerchant(u, nida, phone) EXCEPT !.review = review]
           /\ review = "NONE" => y = NewMerchant(u, nida, phone)
           /\ y.review = review /\ y.applicant = u /\ y.nida = nida
<1> DEFINE y == [applicant |-> u, nida |-> nida, phone |-> phone, status |-> "pending",
                 review |-> review]
<1>1. y \in Merchant
  BY DEF Merchant, Reviews
<1>2. y = [NewMerchant(u, nida, phone) EXCEPT !.review = review]
  BY DEF NewMerchant
<1>3. review = "NONE" => y = NewMerchant(u, nida, phone)
  BY DEF NewMerchant
<1>4. y.review = review /\ y.applicant = u /\ y.nida = nida
  OBVIOUS
<1> HIDE DEF y
<1> QED BY <1>1, <1>2, <1>3, <1>4
-----------------------------------------------------------------------------
(***************************************************************************)
(* Who owns a business, and who may act for it.                            *)
(***************************************************************************)
LEMMA LeastElement ==
  ASSUME NEW S \in SUBSET Nat, S # {}
  PROVE  Min(S) \in S /\ \A y \in S : Min(S) <= y
<1>1. PICK x \in S : \A y \in S : ~(<<y, x>> \in OpToRel(<, Nat))
  BY NatLessThanWellFounded, WFMin, Zenon
<1>2. \A y \in S : ~(y < x)
  BY <1>1 DEF OpToRel
<1>3. \E z \in S : \A y \in S : z =< y
  BY <1>2
<1> QED BY <1>3, Zenon DEF Min

LEMMA GreatestElement ==
  ASSUME NEW n \in Nat, NEW S \in SUBSET (1..n), S # {}
  PROVE  Max(S) \in S
<1> DEFINE T == {n - i : i \in S}
<1>1. \A i \in S : n - i \in Nat
  OBVIOUS
<1>2. T \in SUBSET Nat /\ T # {}
  BY <1>1
<1> HIDE DEF T
<1>3. PICK k \in T : \A y \in T : k <= y
  BY <1>2, LeastElement
<1>4. PICK i \in S : k = n - i
  BY <1>3 DEF T
<1>5. \A j \in S : n - i <= n - j
  BY <1>3, <1>4 DEF T
<1>6. \A j \in S : i >= j
  BY <1>5
<1>7. \E z \in S : \A j \in S : z >= j
  BY <1>6
<1> QED BY <1>7, Zenon DEF Max

\* Someone who confirmed an address and is a member of a business: its applicant is known.
LEMMA OwnKnown ==
  ASSUME TypeInv, NEW u \in Users, account[u] = "confirmed", ActiveRows(u) # {}
  PROVE  OwnMerchant(u) \in 1..Len(merchants) /\ Known(OwnMerchant(u))
<1>1. ActiveRows(u) \in SUBSET Nat
  BY Lengths DEF TypeInv, ActiveRows
<1>2. PICK i : i = Min(ActiveRows(u)) /\ i \in ActiveRows(u)
  BY <1>1, LeastElement
<1>3. i \in 1..Len(members) /\ members[i].user = u
  BY <1>2, Lengths DEF TypeInv, ActiveRows
<1>4. u \in verified
  BY DEF TypeInv, People, ConfirmedIsKnown
<1>5. members[i].m \in 1..Len(merchants) /\ Known(members[i].m)
  BY <1>3, <1>4 DEF TypeInv, People, Alone, Known
<1> QED BY <1>2, <1>5 DEF OwnMerchant

LEMMA ManagedKnown ==
  ASSUME TypeInv, NEW u \in Users, NEW m, MayManage(u, m)
  PROVE  m \in 1..Len(merchants) /\ Known(m)
  BY OwnKnown DEF MayManage

\* The owner of a submitted application whose applicant never confirmed an address has
\* none confirmed now.
LEMMA UnknownIsFound ==
  ASSUME TypeInv, NEW m \in 1..Len(merchants), merchants[m].review # "NONE", ~Known(m)
  PROVE  OwnerNeverVerified(m)
<1>1. PICK j \in 1..Len(members) : members[j].m = m
  BY DEF TypeInv, People, Peopled
<1>2. \A i \in 1..Len(members) : members[i].m = m =>
        /\ members[i].user = merchants[m].applicant
        /\ members[i].role = "MERCHANT_ADMIN" /\ members[i].status = "active"
  BY DEF TypeInv, People, Alone
<1>3. ActiveAdmins(m) \in SUBSET Nat /\ j \in ActiveAdmins(m) /\ j \in Active(m)
  BY <1>1, <1>2, Lengths DEF TypeInv, ActiveAdmins, Active
<1>4. PICK i : i = Min(ActiveAdmins(m)) /\ i \in ActiveAdmins(m)
  BY <1>3, LeastElement
<1>5. i \in 1..Len(members) /\ members[i].m = m
  BY <1>4, Lengths DEF TypeInv, ActiveAdmins, Active
<1>6. Owner(m) = merchants[m].applicant
  BY <1>2, <1>3, <1>4, <1>5 DEF Owner
<1>7. merchants[m].applicant \in Users /\ merchants[m].applicant \notin verified
  BY Lengths DEF TypeInv, Known, Merchant
<1>8. account[Owner(m)] # "confirmed"
  BY <1>6, <1>7 DEF TypeInv, People, ConfirmedIsKnown
<1> QED BY <1>3, <1>8 DEF OwnerNeverVerified
-----------------------------------------------------------------------------
(***************************************************************************)
(* The merchants' rows.                                                    *)
(***************************************************************************)
OnlyMerchants == members' = members /\ account' = account /\ verified' = verified

\* A row keeps its applicant; its application is not a new one, unless the applicant
\* is known.
LEMMA MerchantEdit ==
  ASSUME TypeInv, NEW i \in 1..Len(merchants), NEW y \in Merchant,
         y.applicant = merchants[i].applicant, merchants' = [merchants EXCEPT ![i] = y],
         OnlyMerchants,
         \/ Known(i)
         \/ y.nida = merchants[i].nida /\ (y.review # "NONE" => merchants[i].review # "NONE")
  PROVE  Tables' /\ People' /\ Grows /\ (One => One') /\ Len(merchants') = Len(merchants)
<1>1. Tables /\ Shape
  BY DEF TypeInv, Shape
<1>2. /\ merchants' \in Seq(Merchant) /\ Len(merchants') = Len(merchants) /\ merchants'[i] = y
      /\ \A m \in 1..Len(merchants) : m # i => merchants'[m] = merchants[m]
  BY <1>1, EditSeq DEF Tables
<1>3. Tables'
  BY <1>1, <1>2 DEF Tables, OnlyMerchants
<1>4. \A m \in 1..Len(merchants) : merchants'[m].applicant = merchants[m].applicant
  BY <1>2
<1>5. Grows
  BY <1>1, <1>2, <1>4, Lengths DEF Grows, OnlyMerchants
<1>6. \A m \in 1..Len(merchants) : Known(m)' <=> Known(m)
  BY <1>4 DEF Known, OnlyMerchants
<1>7. ConfirmedIsKnown'
  BY DEF TypeInv, People, ConfirmedIsKnown, OnlyMerchants
<1>8. Alone'
  BY <1>2, <1>4, <1>6 DEF TypeInv, People, Alone, OnlyMerchants
<1>9. Peopled'
  <2> SUFFICES ASSUME NEW m \in 1..Len(merchants), merchants'[m].review # "NONE", ~Known(m)'
               PROVE  \E j \in 1..Len(members) : members[j].m = m
    BY <1>2 DEF Peopled, OnlyMerchants
  <2>1. merchants[m].review # "NONE" /\ ~Known(m)
    BY <1>2, <1>6
  <2> QED BY <2>1 DEF TypeInv, People, Peopled
<1>10. ASSUME One PROVE One'
  <2>1. DOMAIN merchants' = 1..Len(merchants) /\ DOMAIN merchants = 1..Len(merchants)
    BY <1>1, <1>2, Lengths
  <2> SUFFICES ASSUME NEW m \in 1..Len(merchants), NEW n \in 1..Len(merchants), m # n,
                      merchants'[m].review # "NONE", merchants'[n].review # "NONE",
                      merchants'[m].nida = merchants'[n].nida, ~Known(m), ~Known(n)
               PROVE  FALSE
    BY <1>6, <2>1 DEF One, OneUnverifiedApplication, Known
  <2>2. /\ merchants[m].review # "NONE" /\ merchants'[m].nida = merchants[m].nida
        /\ merchants[n].review # "NONE" /\ merchants'[n].nida = merchants[n].nida
    BY <1>2
  <2> QED BY <1>10, <2>1, <2>2 DEF One, OneUnverifiedApplication, Known
<1> QED BY <1>2, <1>3, <1>5, <1>7, <1>8, <1>9, <1>10 DEF People

\* A row is added that is no application yet, of someone known.
LEMMA MerchantAdded ==
  ASSUME TypeInv, NEW y \in Merchant, y.review = "NONE", y.applicant \in verified,
         NEW n \in Nat, n = Len(merchants), merchants' = Append(merchants, y), OnlyMerchants
  PROVE  /\ Tables' /\ People' /\ Grows /\ (One => One')
         /\ n + 1 \in 1..Len(merchants') /\ Known(n + 1)'
<1>1. Tables /\ Shape
  BY DEF TypeInv, Shape
<1>2. /\ merchants' \in Seq(Merchant) /\ Len(merchants') = n + 1 /\ merchants'[n + 1] = y
      /\ \A m \in 1..n : merchants'[m] = merchants[m]
      /\ \A m \in 1..n + 1 : m \in 1..n \/ m = n + 1
  BY <1>1 DEF Tables
<1>3. Tables'
  BY <1>1, <1>2 DEF Tables, OnlyMerchants
<1>4. Grows
  <2>1. Len(members) <= Len(members) /\ n <= n + 1
    BY <1>1, Lengths
  <2> QED BY <1>2, <2>1 DEF Grows, OnlyMerchants
<1>5. \A m \in 1..n : Known(m)' <=> Known(m)
  BY <1>2 DEF Known, OnlyMerchants
<1>6. Known(n + 1)'
  BY <1>2 DEF Known, OnlyMerchants
<1>7. ConfirmedIsKnown'
  BY DEF TypeInv, People, ConfirmedIsKnown, OnlyMerchants
<1>8. Alone'
  <2> SUFFICES ASSUME NEW i \in 1..Len(members)
               PROVE  /\ members[i].m \in 1..Len(merchants')
                      /\ \/ Known(members[i].m)'
                         \/ /\ members[i].user = merchants'[members[i].m].applicant
                            /\ members[i].role = "MERCHANT_ADMIN" /\ members[i].status = "active"
    BY DEF Alone, OnlyMerchants, Known
  <2>1. PICK m \in 1..n : m = members[i].m
    BY DEF TypeInv, People, Alone
  <2>2. m \in 1..n + 1 /\ merchants'[m] = merchants[m] /\ (Known(m)' <=> Known(m))
    BY <1>1, <1>2, <1>5
  <2>3. Known(members[i].m)' <=> Known(m)'
    BY <2>1 DEF Known, OnlyMerchants
  <2>4. \/ Known(m)
        \/ /\ members[i].user = merchants[m].applicant
           /\ members[i].role = "MERCHANT_ADMIN" /\ members[i].status = "active"
    BY <2>1 DEF TypeInv, People, Alone
  <2>5. \/ Known(members[i].m)'
        \/ /\ members[i].user = merchants'[members[i].m].applicant
           /\ members[i].role = "MERCHANT_ADMIN" /\ members[i].status = "active"
    BY <2>1, <2>2, <2>3, <2>4
  <2> QED BY <1>2, <2>1, <2>2, <2>5
<1>9. Peopled'
  <2> SUFFICES ASSUME NEW m \in 1..n + 1, merchants'[m].review # "NONE", ~Known(m)'
               PROVE  \E j \in 1..Len(members) : members[j].m = m
    BY <1>2 DEF Peopled, OnlyMerchants
  <2>1. m \in 1..n
    BY <1>2, <1>6
  <2>2. merchants[m].review # "NONE" /\ ~Known(m)
    BY <1>2, <1>5, <2>1
  <2> QED BY <2>1, <2>2 DEF TypeInv, People, Peopled
<1>10. ASSUME One PROVE One'
  <2>1. DOMAIN merchants' = 1..n + 1 /\ DOMAIN merchants = 1..n
    BY <1>1, <1>2, Lengths
  <2> SUFFICES ASSUME NEW m \in 1..n + 1, NEW k \in 1..n + 1, m # k,
                      merchants'[m].review # "NONE", merchants'[k].review # "NONE",
                      merchants'[m].nida = merchants'[k].nida, ~Known(m)', ~Known(k)'
               PROVE  FALSE
    BY <2>1 DEF One, OneUnverifiedApplication, Known
  <2>2. m \in 1..n /\ k \in 1..n
    BY <1>2, <1>6
  <2> QED BY <1>2, <1>5, <1>10, <2>1, <2>2 DEF One, OneUnverifiedApplication, Known
<1> QED BY <1>2, <1>3, <1>4, <1>6, <1>7, <1>8, <1>9, <1>10 DEF People

LEMMA InsertMerchantStep ==
  ASSUME TypeInv, NEW t \in Threads, InsertMerchant(t), UNCHANGED referralVars
  PROVE  Kept
<1>1. PICK u \in Users, nida \in Nidas, phone \in Phones :
        /\ account[u] = "confirmed"
        /\ merchants' = Append(merchants, NewMerchant(u, nida, phone))
        /\ work' = [work EXCEPT ![t] = [NoWork EXCEPT !.at = "membership", !.user = u,
                                                      !.row = Len(merchants) + 1]]
  BY DEF InsertMerchant
<1>2. PICK n \in Nat : n = Len(merchants)
  BY Lengths DEF TypeInv
<1>3. PICK y \in Merchant : y = NewMerchant(u, nida, phone) /\ y.review = "NONE" /\ y.applicant = u
  BY NewMerchantOK
<1>4. u \in verified
  BY <1>1 DEF TypeInv, People, ConfirmedIsKnown
<1>5. OnlyMerchants /\ calc' = calc /\ SameRows
  BY DEF InsertMerchant, referralVars, OnlyMerchants, SameRows
<1>6. /\ Tables' /\ People' /\ Grows /\ (One => One')
      /\ n + 1 \in 1..Len(merchants') /\ Known(n + 1)'
  BY <1>1, <1>2, <1>3, <1>4, <1>5, MerchantAdded
<1>7. PICK x : x = [NoWork EXCEPT !.at = "membership", !.user = u, !.row = n + 1]
  OBVIOUS
<1>8. x \in Work /\ x.at = "membership" /\ x.row = n + 1 /\ x.user = u
  <2>1. "membership" \in Places /\ n + 1 \in Nat
    BY DEF Places
  <2>2. PICK w \in Work : w = NoWork
    BY NoWorkOK
  <2>3. x = [w EXCEPT !.at = "membership", !.user = u, !.row = n + 1]
    BY <1>7, <2>2
  <2> QED BY <2>1, <2>3 DEF Work
<1>9. WorkOK(x)'
  BY <1>6, <1>8 DEF WorkOK, Applying
<1>10. work' = [work EXCEPT ![t] = x]
  BY <1>1, <1>2, <1>7
<1>11. RowsOK' /\ Len(refs) <= Len(refs')
  BY <1>5, SameRowsStay
<1> QED BY <1>5, <1>6, <1>8, <1>9, <1>10, <1>11, ThreadMove DEF Kept

\* What a request writes about a row of merchants.
LEMMA EditsRow ==
  ASSUME TypeInv, NEW t \in Threads, NEW x \in Work, work' = [work EXCEPT ![t] = x],
         NEW i \in 1..Len(merchants), NEW y \in Merchant,
         y.applicant = merchants[i].applicant, merchants' = [merchants EXCEPT ![i] = y],
         OnlyMerchants, UNCHANGED referralVars,
         \/ Known(i)
         \/ y.nida = merchants[i].nida /\ (y.review # "NONE" => merchants[i].review # "NONE"),
         x.at \in {"idle", "activate", "suspend", "resubmit", "period"},
         x.at \in {"activate", "suspend"} => x.row \in 1..Len(merchants),
         x.at = "resubmit" => /\ x.row \in 1..Len(merchants) /\ Known(x.row)
                              /\ x.nida \in Nidas /\ x.phone \in Phones
  PROVE  Kept
<1>1. Tables' /\ People' /\ Grows /\ (One => One') /\ Len(merchants') = Len(merchants)
  BY MerchantEdit
<1>2. SameRows /\ calc' = calc
  BY DEF referralVars, SameRows
<1>3. RowsOK' /\ Len(refs) <= Len(refs')
  BY <1>2, SameRowsStay
<1>4. Tables
  BY DEF TypeInv, Shape
<1>5. x.at = "resubmit" => Known(x.row)'
  BY <1>1, <1>4, KnownStays
<1>6. WorkOK(x)'
  BY <1>1, <1>5 DEF WorkOK, Applying
<1> QED BY <1>1, <1>2, <1>3, <1>6, ThreadMove DEF Kept

\* The request is as its place says, and at rest or at a place after it.
LEMMA ThreadWork ==
  ASSUME TypeInv, NEW t \in Threads
  PROVE  work[t] \in Work /\ WorkOK(work[t])
  BY DEF TypeInv, Shape, WorkersOK

LEMMA AtPlace ==
  ASSUME NEW w \in Work, NEW p \in Places
  PROVE  /\ [w EXCEPT !.at = p] \in Work /\ [w EXCEPT !.at = p].at = p
         /\ [w EXCEPT !.at = p].row = w.row /\ [w EXCEPT !.at = p].to = w.to
         /\ [w EXCEPT !.at = p].nida = w.nida /\ [w EXCEPT !.at = p].phone = w.phone
  BY DEF Work

LEMMA GoesTo ==
  ASSUME TypeInv, NEW t \in Threads, NEW p \in Places, To(t, p)
  PROVE  \E x \in Work : /\ work' = [work EXCEPT ![t] = x] /\ x.at = p /\ x.row = work[t].row
                         /\ x.to = work[t].to /\ x.nida = work[t].nida /\ x.phone = work[t].phone
<1>1. PICK w \in Work : w = work[t]
  BY ThreadWork
<1>2. work' = [work EXCEPT ![t] = [w EXCEPT !.at = p]]
  BY <1>1 DEF To
<1>3. PICK x : x = [w EXCEPT !.at = p]
  OBVIOUS
<1>4. x \in Work /\ x.at = p /\ x.row = w.row /\ x.to = w.to /\ x.nida = w.nida /\ x.phone = w.phone
  BY <1>3, AtPlace
<1> QED BY <1>1, <1>2, <1>3, <1>4

LEMMA MerchantWith ==
  ASSUME NEW y \in Merchant, NEW review \in Reviews, NEW status \in {"pending", "active", "suspended"},
         NEW phone \in Phones, NEW nida \in Nidas
  PROVE  /\ [y EXCEPT !.review = review] \in Merchant
         /\ [y EXCEPT !.review = review].applicant = y.applicant
         /\ [y EXCEPT !.review = review].nida = y.nida
         /\ [y EXCEPT !.review = review].review = review
         /\ [y EXCEPT !.status = status] \in Merchant
         /\ [y EXCEPT !.status = status].applicant = y.applicant
         /\ [y EXCEPT !.status = status].nida = y.nida
         /\ [y EXCEPT !.status = status].review = y.review
         /\ [y EXCEPT !.phone = phone] \in Merchant
         /\ [y EXCEPT !.phone = phone].applicant = y.applicant
         /\ [y EXCEPT !.nida = nida, !.review = review] \in Merchant
         /\ [y EXCEPT !.nida = nida, !.review = review].applicant = y.applicant
  BY DEF Merchant

LEMMA InsertSubmissionStep ==
  ASSUME TypeInv, NEW t \in Threads, InsertSubmission(t), UNCHANGED referralVars
  PROVE  Kept
<1>1. PICK w \in Work : w = work[t] /\ w.at = "submission" /\ WorkOK(w)
  BY ThreadWork DEF InsertSubmission, At
<1>2. w.row \in 1..Len(merchants) /\ Known(w.row)
  BY <1>1 DEF WorkOK, Applying
<1>3. PICK i \in 1..Len(merchants) : i = w.row /\ Known(i)
  BY <1>2
<1>4. PICK y : y = [merchants[i] EXCEPT !.review = "PENDING_VERIFICATION"]
  OBVIOUS
<1>5. y \in Merchant /\ y.applicant = merchants[i].applicant
  BY <1>4, Lengths DEF TypeInv, Merchant, Reviews
<1>6. merchants' = [merchants EXCEPT ![i] = y]
  BY <1>1, <1>3, <1>4 DEF InsertSubmission
<1>7. OnlyMerchants /\ work' = [work EXCEPT ![t] = NoWork]
  BY DEF InsertSubmission, OnlyMerchants, Done
<1> QED BY <1>3, <1>5, <1>6, <1>7, NoWorkOK, EditsRow

LEMMA ResubmitStep ==
  ASSUME TypeInv, NEW t \in Threads, Resubmit(t), UNCHANGED referralVars
  PROVE  Kept
<1>1. PICK u \in Users, nida \in Nidas, phone \in Phones :
        /\ account[u] = "confirmed" /\ ActiveRows(u) # {}
        /\ work' = [work EXCEPT ![t] = [NoWork EXCEPT !.at = "profile", !.row = OwnMerchant(u),
                                                      !.nida = nida, !.phone = phone]]
  BY DEF Resubmit
<1>2. PICK m \in 1..Len(merchants) : m = OwnMerchant(u) /\ Known(m)
  BY <1>1, OwnKnown
<1>3. PICK x : x = [NoWork EXCEPT !.at = "profile", !.row = m, !.nida = nida, !.phone = phone]
  OBVIOUS
<1>4. x \in Work /\ x.at = "profile" /\ x.row = m /\ x.nida = nida /\ x.phone = phone
  <2>1. "profile" \in Places /\ m \in Nat
    BY Lengths DEF TypeInv, Places
  <2>2. PICK w \in Work : w = NoWork
    BY NoWorkOK
  <2>3. x = [w EXCEPT !.at = "profile", !.row = m, !.nida = nida, !.phone = phone]
    BY <1>3, <2>2
  <2> QED BY <2>1, <2>3 DEF Work
<1>5. WorkOK(x)
  BY <1>2, <1>4 DEF WorkOK, Applying
<1>6. work' = [work EXCEPT ![t] = x]
  BY <1>1, <1>2, <1>3
<1>7. SamePeople /\ SameRows /\ calc' = calc
  BY DEF Resubmit, SamePeople, SameRows, referralVars
<1> QED BY <1>4, <1>5, <1>6, <1>7, SameRowsStay, ThreadAlone

LEMMA UpdateMerchantRowStep ==
  ASSUME TypeInv, NEW t \in Threads, UpdateMerchantRow(t), UNCHANGED referralVars
  PROVE  Kept
<1>1. PICK w \in Work : w = work[t] /\ w.at = "profile" /\ WorkOK(w)
  BY ThreadWork DEF UpdateMerchantRow, At
<1>2. w.row \in 1..Len(merchants) /\ Known(w.row) /\ w.nida \in Nidas /\ w.phone \in Phones
  BY <1>1 DEF WorkOK, Applying
<1>3. PICK i \in 1..Len(merchants) : i = w.row /\ Known(i)
  BY <1>2
<1>4. PICK y : y = [merchants[i] EXCEPT !.phone = w.phone]
  OBVIOUS
<1>5. y \in Merchant /\ y.applicant = merchants[i].applicant
  BY <1>2, <1>4, Lengths DEF TypeInv, Merchant
<1>6. merchants' = [merchants EXCEPT ![i] = y]
  BY <1>1, <1>3, <1>4 DEF UpdateMerchantRow
<1>7. PICK x \in Work : /\ work' = [work EXCEPT ![t] = x] /\ x.at = "resubmit" /\ x.row = w.row
                        /\ x.nida = w.nida /\ x.phone = w.phone
  BY <1>1, GoesTo DEF UpdateMerchantRow, Places
<1>8. OnlyMerchants
  BY DEF UpdateMerchantRow, OnlyMerchants
<1> QED BY <1>2, <1>3, <1>5, <1>6, <1>7, <1>8, EditsRow

LEMMA UpdateSubmissionStep ==
  ASSUME TypeInv, NEW t \in Threads, UpdateSubmission(t), UNCHANGED referralVars
  PROVE  Kept
<1>1. PICK w \in Work : w = work[t] /\ w.at = "resubmit" /\ WorkOK(w)
  BY ThreadWork DEF UpdateSubmission, At
<1>2. w.row \in 1..Len(merchants) /\ Known(w.row) /\ w.nida \in Nidas /\ w.phone \in Phones
  BY <1>1 DEF WorkOK, Applying
<1>3. PICK i \in 1..Len(merchants) : i = w.row /\ Known(i)
  BY <1>2
<1>4. PICK y : y = [merchants[i] EXCEPT !.nida = w.nida, !.review = "PENDING_VERIFICATION"]
  OBVIOUS
<1>5. y \in Merchant /\ y.applicant = merchants[i].applicant
  BY <1>2, <1>4, Lengths DEF TypeInv, Merchant, Reviews
<1>6. merchants' = [merchants EXCEPT ![i] = y]
  <2>1. merchants' = [merchants EXCEPT ![i].nida = w.nida, ![i].review = "PENDING_VERIFICATION"]
    BY <1>1, <1>3 DEF UpdateSubmission
  <2> QED BY <1>4, <2>1, Lengths DEF TypeInv
<1>7. OnlyMerchants /\ work' = [work EXCEPT ![t] = NoWork]
  BY DEF UpdateSubmission, OnlyMerchants, Done
<1> QED BY <1>3, <1>5, <1>6, <1>7, NoWorkOK, EditsRow

LEMMA SetReviewStatusStep ==
  ASSUME TypeInv, NEW t \in Threads, SetReviewStatus(t), UNCHANGED referralVars
  PROVE  Kept
<1>1. PICK i \in DOMAIN merchants, review \in {"VERIFIED", "REJECTED", "INFO_REQUESTED"} :
        /\ merchants[i].review # "NONE"
        /\ merchants' = [merchants EXCEPT ![i].review = review]
        /\ work' = [work EXCEPT ![t] =
             IF review = "INFO_REQUESTED" THEN NoWork
             ELSE [NoWork EXCEPT !.row = i,
                     !.at = IF review = "VERIFIED" THEN "activate" ELSE "suspend"]]
  BY DEF SetReviewStatus
<1>2. i \in 1..Len(merchants) /\ i \in Nat
  BY Lengths DEF TypeInv
<1>3. PICK y : y = [merchants[i] EXCEPT !.review = review]
  OBVIOUS
<1>4. y \in Merchant /\ y.applicant = merchants[i].applicant /\ y.nida = merchants[i].nida
  BY <1>2, <1>3, Lengths DEF TypeInv, Merchant, Reviews
<1>5. merchants' = [merchants EXCEPT ![i] = y]
  BY <1>1, <1>3
<1>6. OnlyMerchants
  BY DEF SetReviewStatus, OnlyMerchants
<1>7. \E x \in Work : /\ work' = [work EXCEPT ![t] = x] /\ x.at \in {"idle", "activate", "suspend"}
                      /\ x.at \in {"activate", "suspend"} => x.row = i
  <2>1. CASE review = "INFO_REQUESTED"
    BY <1>1, <2>1, NoWorkOK
  <2>2. CASE review # "INFO_REQUESTED"
    <3>1. PICK p \in {"activate", "suspend"} :
            p = IF review = "VERIFIED" THEN "activate" ELSE "suspend"
      OBVIOUS
    <3>2. PICK x : x = [NoWork EXCEPT !.row = i, !.at = p]
      OBVIOUS
    <3>3. x \in Work /\ x.at = p /\ x.row = i
      <4>1. p \in Places /\ i \in Nat
        BY <1>2 DEF Places
      <4>2. PICK w \in Work : w = NoWork
      BY NoWorkOK
    <4>3. x = [w EXCEPT !.row = i, !.at = p]
      BY <3>2, <4>2
    <4> QED BY <4>1, <4>3 DEF Work
    <3>4. work' = [work EXCEPT ![t] = x]
      BY <1>1, <2>2, <3>1, <3>2
    <3> QED BY <3>1, <3>4, <3>3
  <2> QED BY <2>1, <2>2
<1>8. PICK x \in Work : /\ work' = [work EXCEPT ![t] = x] /\ x.at \in {"idle", "activate", "suspend"}
                        /\ x.at \in {"activate", "suspend"} => x.row = i
  BY <1>7
<1>9. y.review # "NONE" => merchants[i].review # "NONE"
  BY <1>1
<1>10. x.at \in {"activate", "suspend"} => x.row \in 1..Len(merchants)
  BY <1>2, <1>8
<1>11. x.at \in {"idle", "activate", "suspend", "resubmit", "period"} /\ x.at # "resubmit"
  BY <1>8
<1> QED BY <1>2, <1>4, <1>5, <1>6, <1>8, <1>9, <1>10, <1>11, EditsRow

LEMMA ApproveStep ==
  ASSUME TypeInv, NEW t \in Threads, ApproveOnboardingSubmission(t), UNCHANGED referralVars
  PROVE  Kept
<1>1. PICK w \in Work : w = work[t] /\ w.at = "activate" /\ WorkOK(w)
  BY ThreadWork DEF ApproveOnboardingSubmission, At
<1>2. PICK i \in 1..Len(merchants) : i = w.row
  BY <1>1 DEF WorkOK
<1>3. PICK y : y = [merchants[i] EXCEPT !.status = "active"]
  OBVIOUS
<1>4. /\ y \in Merchant /\ y.applicant = merchants[i].applicant /\ y.nida = merchants[i].nida
      /\ y.review = merchants[i].review
  BY <1>3, Lengths DEF TypeInv, Merchant
<1>5. merchants' = [merchants EXCEPT ![i] = y]
  BY <1>1, <1>2, <1>3 DEF ApproveOnboardingSubmission
<1>6. PICK x \in Work : work' = [work EXCEPT ![t] = x] /\ x.at = "period"
  BY GoesTo DEF ApproveOnboardingSubmission, Places
<1>7. OnlyMerchants
  BY DEF ApproveOnboardingSubmission, OnlyMerchants
<1> QED BY <1>4, <1>5, <1>6, <1>7, EditsRow

LEMMA RejectStep ==
  ASSUME TypeInv, NEW t \in Threads, RejectOnboardingSubmission(t), UNCHANGED referralVars
  PROVE  Kept
<1>1. PICK w \in Work : w = work[t] /\ w.at = "suspend" /\ WorkOK(w)
  BY ThreadWork DEF RejectOnboardingSubmission, At
<1>2. PICK i \in 1..Len(merchants) : i = w.row
  BY <1>1 DEF WorkOK
<1>3. PICK y : y = [merchants[i] EXCEPT !.status = "suspended"]
  OBVIOUS
<1>4. /\ y \in Merchant /\ y.applicant = merchants[i].applicant /\ y.nida = merchants[i].nida
      /\ y.review = merchants[i].review
  BY <1>3, Lengths DEF TypeInv, Merchant
<1>5. merchants' = [merchants EXCEPT ![i] = y]
  BY <1>1, <1>2, <1>3 DEF RejectOnboardingSubmission
<1>6. OnlyMerchants /\ work' = [work EXCEPT ![t] = NoWork]
  BY DEF RejectOnboardingSubmission, OnlyMerchants, Done
<1> QED BY <1>4, <1>5, <1>6, NoWorkOK, EditsRow

LEMMA UpdateMerchantStatusStep ==
  ASSUME TypeInv, NEW i \in DOMAIN merchants, UpdateMerchantStatus(i), UNCHANGED referralVars
  PROVE  Kept
<1>1. PICK status \in {"active", "suspended"} : merchants' = [merchants EXCEPT ![i].status = status]
  BY DEF UpdateMerchantStatus
<1>2. i \in 1..Len(merchants)
  BY Lengths DEF TypeInv
<1>3. PICK y : y = [merchants[i] EXCEPT !.status = status]
  OBVIOUS
<1>4. /\ y \in Merchant /\ y.applicant = merchants[i].applicant /\ y.nida = merchants[i].nida
      /\ y.review = merchants[i].review
  BY <1>2, <1>3, Lengths DEF TypeInv, Merchant
<1>5. merchants' = [merchants EXCEPT ![i] = y]
  BY <1>1, <1>3
<1>6. OnlyMerchants /\ work' = work /\ SameRows /\ calc' = calc
  BY DEF UpdateMerchantStatus, OnlyMerchants, SameRows, referralVars
<1>7. Tables' /\ People' /\ Grows /\ (One => One')
  BY <1>2, <1>4, <1>5, <1>6, MerchantEdit
<1> QED BY <1>6, <1>7, SameRowsStay, TableMove DEF Kept
-----------------------------------------------------------------------------
(***************************************************************************)
(* People and memberships.                                                 *)
(***************************************************************************)
\* Nobody's address is confirmed that was not.
NoneConfirmed == \A u \in Users : account'[u] = "confirmed" => account[u] = "confirmed"
SameMerchants == merchants' = merchants /\ verified' = verified

\* The tables of merchants stay; memberships are added to or changed in businesses
\* whose applicants are known.
LEMMA MembersChange ==
  ASSUME TypeInv, SameMerchants, NoneConfirmed, account' \in [Users -> AccountStates],
         members' \in Seq(Member), Len(members) <= Len(members'),
         \A i \in 1..Len(members) : members'[i].m = members[i].m,
         \A i \in 1..Len(members') :
           \/ i \in 1..Len(members) /\ members'[i] = members[i]
           \/ members'[i].m \in 1..Len(merchants) /\ Known(members'[i].m)
  PROVE  Tables' /\ People' /\ Grows /\ (One => One')
<1>1. Tables /\ Shape
  BY DEF TypeInv, Shape
<1>2. Tables'
  BY <1>1 DEF Tables, SameMerchants
<1>3. Grows
  BY <1>1, Lengths DEF Grows, SameMerchants
<1>4. ConfirmedIsKnown'
  BY DEF TypeInv, People, ConfirmedIsKnown, SameMerchants, NoneConfirmed
<1>5. Alone'
  <2> SUFFICES ASSUME NEW i \in 1..Len(members')
               PROVE  /\ members'[i].m \in 1..Len(merchants)
                      /\ \/ Known(members'[i].m)
                         \/ /\ members'[i].user = merchants[members'[i].m].applicant
                            /\ members'[i].role = "MERCHANT_ADMIN" /\ members'[i].status = "active"
    BY DEF Alone, SameMerchants, Known
  <2>1. CASE i \in 1..Len(members) /\ members'[i] = members[i]
    BY <2>1 DEF TypeInv, People, Alone
  <2> QED BY <2>1
<1>6. Peopled'
  <2> SUFFICES ASSUME NEW m \in 1..Len(merchants), merchants[m].review # "NONE", ~Known(m)
               PROVE  \E j \in 1..Len(members') : members'[j].m = m
    BY DEF Peopled, SameMerchants, Known
  <2>1. PICK j \in 1..Len(members) : members[j].m = m
    BY DEF TypeInv, People, Peopled
  <2>2. j \in 1..Len(members') /\ members'[j].m = m
    BY <1>1, <1>2, <2>1, Lengths DEF Tables
  <2> QED BY <2>2
<1>7. One => One'
  BY DEF One, OneUnverifiedApplication, SameMerchants
<1> QED BY <1>2, <1>3, <1>4, <1>5, <1>6, <1>7 DEF People

LEMMA MemberAdded ==
  ASSUME TypeInv, SameMerchants, NoneConfirmed, account' \in [Users -> AccountStates],
         NEW z \in Member, z.m \in 1..Len(merchants), Known(z.m), members' = Append(members, z)
  PROVE  Tables' /\ People' /\ Grows /\ (One => One')
<1>1. members \in Seq(Member) /\ Len(members) \in Nat
  BY Lengths DEF TypeInv, Shape, Tables
<1>2. PICK k \in Nat : k = Len(members)
  BY <1>1
<1>3. /\ members' \in Seq(Member) /\ Len(members') = k + 1 /\ members'[k + 1] = z
      /\ \A i \in 1..k : members'[i] = members[i]
      /\ \A i \in 1..k + 1 : i \in 1..k \/ i = k + 1
  BY <1>1, <1>2
<1>4. \A i \in 1..Len(members') :
        \/ i \in 1..Len(members) /\ members'[i] = members[i]
        \/ members'[i].m \in 1..Len(merchants) /\ Known(members'[i].m)
  BY <1>2, <1>3
<1>5. Len(members) <= Len(members') /\ \A i \in 1..Len(members) : members'[i].m = members[i].m
  BY <1>2, <1>3
<1> QED BY <1>3, <1>4, <1>5, MembersChange

LEMMA MemberEdited ==
  ASSUME TypeInv, SameMerchants, account' = account, NEW i \in 1..Len(members), NEW y \in Member,
         y.m = members[i].m, Known(members[i].m), members' = [members EXCEPT ![i] = y]
  PROVE  Tables' /\ People' /\ Grows /\ (One => One')
<1>1. members \in Seq(Member) /\ Len(members) \in Nat
  BY Lengths DEF TypeInv, Shape, Tables
<1>2. /\ members' \in Seq(Member) /\ Len(members') = Len(members) /\ members'[i] = y
      /\ \A j \in 1..Len(members) : j # i => members'[j] = members[j]
  BY <1>1, EditSeq
<1>3. members[i].m \in 1..Len(merchants)
  BY DEF TypeInv, People, Alone
<1>4. \A j \in 1..Len(members') :
        \/ j \in 1..Len(members) /\ members'[j] = members[j]
        \/ members'[j].m \in 1..Len(merchants) /\ Known(members'[j].m)
  BY <1>2, <1>3
<1>5. Len(members) <= Len(members') /\ \A j \in 1..Len(members) : members'[j].m = members[j].m
  BY <1>1, <1>2
<1>6. NoneConfirmed /\ account' \in [Users -> AccountStates]
  BY DEF NoneConfirmed, TypeInv, Shape, Tables
<1> QED BY <1>2, <1>4, <1>5, <1>6, MembersChange

LEMMA InsertMembershipStep ==
  ASSUME TypeInv, NEW t \in Threads, InsertMembership(t), UNCHANGED referralVars
  PROVE  Kept
<1>1. PICK w \in Work : w = work[t] /\ w.at = "membership" /\ WorkOK(w)
  BY ThreadWork DEF InsertMembership, At
<1>2. w.row \in 1..Len(merchants) /\ Known(w.row) /\ w.user \in Users
  BY <1>1 DEF WorkOK, Applying
<1>3. PICK m \in Nat : m = w.row
  BY <1>2, Lengths DEF TypeInv
<1>4. PICK z : z = [m |-> m, user |-> w.user, role |-> "MERCHANT_ADMIN", status |-> "active"]
  OBVIOUS
<1>5. z \in Member /\ z.m = m
  BY <1>2, <1>4 DEF Member, Roles
<1>6. members' = Append(members, z)
  BY <1>1, <1>3, <1>4 DEF InsertMembership, NewOwner
<1>7. SameMerchants /\ account' = account /\ SameRows /\ calc' = calc
  BY DEF InsertMembership, SameMerchants, SameRows, referralVars
<1>8. NoneConfirmed /\ account' \in [Users -> AccountStates]
  BY <1>7 DEF NoneConfirmed, TypeInv, Shape, Tables
<1>9. Tables' /\ People' /\ Grows /\ (One => One')
  BY <1>2, <1>3, <1>5, <1>6, <1>7, <1>8, MemberAdded
<1>10. PICK x \in Work : work' = [work EXCEPT ![t] = x] /\ x.at = "submission" /\ x.row = w.row
  BY <1>1, GoesTo DEF InsertMembership, Places
<1>11. m \in 1..Len(merchants') /\ Known(m)'
  BY <1>2, <1>3, <1>7 DEF SameMerchants, Known
<1>12. WorkOK(x)'
  BY <1>3, <1>10, <1>11 DEF WorkOK, Applying
<1> QED BY <1>7, <1>9, <1>10, <1>12, SameRowsStay, ThreadMove DEF Kept

LEMMA CreateMyMerchantUserStep ==
  ASSUME TypeInv, NEW u \in Users, CreateMyMerchantUser(u), UNCHANGED referralVars
  PROVE  Kept
<1>1. PICK by \in Users, m \in DOMAIN merchants, role \in Roles :
        /\ MayManage(by, m)
        /\ members' = Append(members, [m |-> m, user |-> u, role |-> role, status |-> "invited"])
  BY DEF CreateMyMerchantUser
<1>2. m \in 1..Len(merchants) /\ Known(m) /\ m \in Nat
  BY <1>1, ManagedKnown, Lengths DEF TypeInv
<1>3. PICK z : z = [m |-> m, user |-> u, role |-> role, status |-> "invited"]
  OBVIOUS
<1>4. z \in Member /\ z.m = m
  BY <1>2, <1>3 DEF Member
<1>5. SameMerchants /\ SameRows /\ calc' = calc /\ work' = work
  BY DEF CreateMyMerchantUser, SameMerchants, SameRows, referralVars
<1>6. account' = [account EXCEPT ![u] = "unconfirmed"]
  BY DEF CreateMyMerchantUser
<1>7. NoneConfirmed /\ account' \in [Users -> AccountStates]
  BY <1>6 DEF NoneConfirmed, TypeInv, Shape, Tables, AccountStates
<1>8. members' = Append(members, z)
  BY <1>1, <1>3
<1>9. Tables' /\ People' /\ Grows /\ (One => One')
  BY <1>2, <1>4, <1>5, <1>7, <1>8, MemberAdded
<1> QED BY <1>5, <1>9, SameRowsStay, TableMove DEF Kept

LEMMA WriteMemberStep ==
  ASSUME TypeInv, NEW t \in Threads, WriteMember(t), UNCHANGED referralVars
  PROVE  Kept
<1>1. PICK w \in Work : w = work[t] /\ w.at = "member" /\ WorkOK(w)
  BY ThreadWork DEF WriteMember, At
<1>2. /\ w.row \in 1..Len(members) /\ Known(members[w.row].m)
      /\ w.to \in {"active", "suspended"} \cup Roles
  BY <1>1 DEF WorkOK
<1>3. PICK i \in 1..Len(members) : i = w.row
  BY <1>2
<1>4. PICK y : y = IF w.to \in Roles THEN [members[i] EXCEPT !.role = w.to]
                   ELSE [members[i] EXCEPT !.status = w.to]
  OBVIOUS
<1>5. y \in Member /\ y.m = members[i].m
  BY <1>2, <1>4, Lengths DEF TypeInv, Member
<1>6. members' = [members EXCEPT ![i] = y]
  BY <1>1, <1>3, <1>4 DEF WriteMember
<1>7. SameMerchants /\ account' = account /\ SameRows /\ calc' = calc /\ work' = [work EXCEPT ![t] = NoWork]
  BY DEF WriteMember, SameMerchants, SameRows, referralVars, Done
<1>8. Tables' /\ People' /\ Grows /\ (One => One')
  BY <1>2, <1>3, <1>5, <1>6, <1>7, MemberEdited
<1> QED BY <1>7, <1>8, NoWorkOK, SameRowsStay, ThreadMove DEF Kept

LEMMA AcceptMyMerchantInviteStep ==
  ASSUME TypeInv, NEW t \in Threads, AcceptMyMerchantInvite(t), UNCHANGED referralVars
  PROVE  Kept
<1>1. PICK u \in Users :
        LET mine == {i \in DOMAIN members : members[i].user = u
                                            /\ members[i].status \in {"invited", "active"}}
        IN  /\ account[u] = "confirmed" /\ mine # {}
            /\ work' = [work EXCEPT ![t] = [NoWork EXCEPT !.at = "member", !.row = Max(mine),
                                                          !.to = "active"]]
  BY DEF AcceptMyMerchantInvite
<1> DEFINE mine == {i \in DOMAIN members : members[i].user = u
                                           /\ members[i].status \in {"invited", "active"}}
<1>2. /\ account[u] = "confirmed" /\ mine # {}
      /\ work' = [work EXCEPT ![t] = [NoWork EXCEPT !.at = "member", !.row = Max(mine), !.to = "active"]]
  BY <1>1
<1>3. mine \in SUBSET (1..Len(members)) /\ Len(members) \in Nat
  BY Lengths DEF TypeInv
<1>4. \A i \in mine : members[i].user = u
  OBVIOUS
<1> HIDE DEF mine
<1>5. PICK i : i = Max(mine) /\ i \in mine
  BY <1>2, <1>3, GreatestElement
<1>6. i \in 1..Len(members) /\ i \in Nat /\ members[i].user = u
  BY <1>3, <1>4, <1>5
<1>7. u \in verified
  BY <1>2 DEF TypeInv, People, ConfirmedIsKnown
<1>8. Known(members[i].m)
  BY <1>6, <1>7 DEF TypeInv, People, Alone, Known
<1>9. PICK w \in Work : w = NoWork
  BY NoWorkOK
<1>10. PICK x : x = [w EXCEPT !.at = "member", !.row = i, !.to = "active"]
  OBVIOUS
<1>11. x \in Work /\ x.at = "member" /\ x.row = i /\ x.to = "active"
  BY <1>6, <1>10 DEF Work, Places
<1>12. WorkOK(x)
  BY <1>6, <1>8, <1>11 DEF WorkOK, Applying
<1>13. work' = [work EXCEPT ![t] = x]
  BY <1>2, <1>5, <1>9, <1>10
<1>14. SamePeople /\ SameRows /\ calc' = calc
  BY DEF AcceptMyMerchantInvite, SamePeople, SameRows, referralVars
<1> QED BY <1>11, <1>12, <1>13, <1>14, SameRowsStay, ThreadAlone

LEMMA UpdateMyMerchantUserStep ==
  ASSUME TypeInv, NEW t \in Threads, UpdateMyMerchantUser(t), UNCHANGED referralVars
  PROVE  Kept
<1>1. PICK i \in DOMAIN members, by \in Users, to \in {"active", "suspended"} \cup Roles :
        /\ MayManage(by, members[i].m)
        /\ work' = [work EXCEPT ![t] = [NoWork EXCEPT !.at = "member", !.row = i, !.to = to]]
  BY DEF UpdateMyMerchantUser
<1>2. i \in 1..Len(members) /\ i \in Nat /\ Known(members[i].m)
  BY <1>1, ManagedKnown, Lengths DEF TypeInv
<1>3. PICK w \in Work : w = NoWork
  BY NoWorkOK
<1>4. PICK x : x = [w EXCEPT !.at = "member", !.row = i, !.to = to]
  OBVIOUS
<1>5. x \in Work /\ x.at = "member" /\ x.row = i /\ x.to = to
  BY <1>2, <1>4 DEF Work, Places
<1>6. WorkOK(x)
  BY <1>2, <1>5 DEF WorkOK, Applying
<1>7. work' = [work EXCEPT ![t] = x]
  BY <1>1, <1>3, <1>4
<1>8. SamePeople /\ SameRows /\ calc' = calc
  BY DEF UpdateMyMerchantUser, SamePeople, SameRows, referralVars
<1> QED BY <1>5, <1>6, <1>7, <1>8, SameRowsStay, ThreadAlone

LEMMA StopStep ==
  ASSUME TypeInv, NEW t \in Threads, Stop(t), UNCHANGED referralVars
  PROVE  Kept
<1>1. SamePeople /\ SameRows /\ calc' = calc /\ work' = [work EXCEPT ![t] = NoWork]
  BY DEF Stop, SamePeople, SameRows, referralVars, Done
<1> QED BY <1>1, NoWorkOK, SameRowsStay, ThreadAlone

LEMMA ConfirmEmailStep ==
  ASSUME TypeInv, NEW u \in Users, ConfirmEmail(u), UNCHANGED referralVars
  PROVE  Kept
<1>1. /\ account' = [account EXCEPT ![u] = "confirmed"] /\ verified' = verified \cup {u}
      /\ merchants' = merchants /\ members' = members
  BY DEF ConfirmEmail
<1>2. work' = work /\ SameRows /\ calc' = calc
  BY DEF ConfirmEmail, SameRows, referralVars
<1>3. Tables'
  BY <1>1 DEF TypeInv, Shape, Tables, AccountStates
<1>4. Grows
  BY <1>1, Lengths DEF Grows, TypeInv
<1>5. ConfirmedIsKnown'
  BY <1>1 DEF TypeInv, Shape, Tables, People, ConfirmedIsKnown
<1>6. Alone' /\ Peopled'
  BY <1>1 DEF TypeInv, People, Alone, Peopled, Known
<1>7. One => One'
  BY <1>1 DEF One, OneUnverifiedApplication
<1> QED BY <1>2, <1>3, <1>4, <1>5, <1>6, <1>7, SameRowsStay, TableMove DEF Kept, People

LEMMA CorrectMerchantContactEmailStep ==
  ASSUME TypeInv, NEW m, CorrectMerchantContactEmail(m), UNCHANGED referralVars
  PROVE  Kept
<1>1. PICK u : account' = [account EXCEPT ![u] = "unconfirmed"]
  BY DEF CorrectMerchantContactEmail
<1>2. SameMerchants /\ members' = members /\ work' = work /\ SameRows /\ calc' = calc
  BY DEF CorrectMerchantContactEmail, SameMerchants, SameRows, referralVars
<1>3. NoneConfirmed /\ account' \in [Users -> AccountStates]
  BY <1>1 DEF NoneConfirmed, TypeInv, Shape, Tables, AccountStates
<1>4. members' \in Seq(Member) /\ Len(members) <= Len(members')
  BY <1>2, Lengths DEF TypeInv, Shape, Tables
<1>5. Tables' /\ People' /\ Grows /\ (One => One')
  BY <1>2, <1>3, <1>4, MembersChange
<1> QED BY <1>2, <1>5, SameRowsStay, TableMove DEF Kept
-----------------------------------------------------------------------------
(***************************************************************************)
(* Sign-up.                                                                *)
(***************************************************************************)
LEMMA NewOwnerOK ==
  ASSUME NEW u \in Users, NEW n \in Nat
  PROVE  /\ NewOwner(u, n) \in Member /\ NewOwner(u, n).m = n /\ NewOwner(u, n).user = u
         /\ NewOwner(u, n).role = "MERCHANT_ADMIN" /\ NewOwner(u, n).status = "active"
  BY DEF NewOwner, Member, Roles

\* One business at most is added, for u, the n+1st; it is an application only if it has
\* its owner, the k+1st member.
Added(u, n, k, nida) ==
  /\ n = Len(merchants) /\ k = Len(members)
  /\ \A m \in 1..n : merchants'[m] = merchants[m]
  /\ \A i \in 1..k : members'[i] = members[i]
  /\ \/ Len(merchants') = n /\ Len(members') = k
     \/ /\ Len(merchants') = n + 1 /\ merchants'[n + 1].applicant = u /\ merchants'[n + 1].nida = nida
        /\ \/ merchants'[n + 1].review = "NONE" /\ Len(members') = k
           \/ /\ Len(members') = k + 1 /\ members'[k + 1].m = n + 1 /\ members'[k + 1].user = u
              /\ members'[k + 1].role = "MERCHANT_ADMIN" /\ members'[k + 1].status = "active"

LEMMA SignupAdds ==
  ASSUME TypeInv, NEW u \in Users, SignupMerchant(u)
  PROVE  /\ Tables'
         /\ \E n \in Nat, k \in Nat, nida \in Nidas, phone \in Phones :
              Added(u, n, k, nida) /\ (LookupAnswers => ExistingApplications(nida, phone) = {})
<1>1. PICK nida \in Nidas, phone \in Phones, stored \in Phones,
           written \in {3} \cup (IF "stop" \in Faults THEN 0 .. 2 ELSE {}),
           found \in {TRUE} \cup (IF "lookup" \in Faults THEN {FALSE} ELSE {}) :
        /\ found => ExistingApplications(nida, phone) = {}
        /\ merchants' = IF written = 0 THEN merchants
             ELSE Append(merchants, [NewMerchant(u, nida, stored) EXCEPT
                                       !.review = IF written = 3 THEN "PENDING_VERIFICATION" ELSE @])
        /\ members' = IF written < 2 THEN members ELSE Append(members, NewOwner(u, Len(merchants) + 1))
  BY DEF SignupMerchant
<1>2. PICK n \in Nat, k \in Nat : n = Len(merchants) /\ k = Len(members)
  BY Lengths DEF TypeInv
<1>3. written \in 0..3
  <2>1. CASE "stop" \in Faults
    BY <2>1
  <2>2. CASE "stop" \notin Faults
    BY <2>2
  <2> QED BY <2>1, <2>2
<1>4. LookupAnswers => ExistingApplications(nida, phone) = {}
  <2> SUFFICES ASSUME "lookup" \notin Faults PROVE found = TRUE
    BY <1>1 DEF LookupAnswers
  <2> QED OBVIOUS
<1>5. PICK review \in {"NONE", "PENDING_VERIFICATION"} :
        review = IF written = 3 THEN "PENDING_VERIFICATION" ELSE "NONE"
  OBVIOUS
<1>6. PICK y \in Merchant : /\ y = [NewMerchant(u, nida, stored) EXCEPT !.review = review]
                            /\ y.review = review /\ y.applicant = u /\ y.nida = nida
  BY NewMerchantOK
<1>7. y = [NewMerchant(u, nida, stored) EXCEPT !.review = IF written = 3 THEN "PENDING_VERIFICATION" ELSE @]
  BY <1>5, <1>6 DEF NewMerchant
<1>8. PICK z : z = NewOwner(u, n + 1)
  OBVIOUS
<1>9. z \in Member /\ z.m = n + 1 /\ z.user = u /\ z.role = "MERCHANT_ADMIN" /\ z.status = "active"
  <2>1. n + 1 \in Nat
    OBVIOUS
  <2> QED BY <1>8, <2>1, NewOwnerOK
<1>10. /\ merchants' = IF written = 0 THEN merchants ELSE Append(merchants, y)
      /\ members' = IF written < 2 THEN members ELSE Append(members, z)
  BY <1>1, <1>2, <1>7, <1>8
<1>11. merchants \in Seq(Merchant) /\ members \in Seq(Member)
  BY DEF TypeInv, Shape, Tables
<1>12. /\ merchants' \in Seq(Merchant) /\ \A m \in 1..n : merchants'[m] = merchants[m]
       /\ IF written = 0 THEN Len(merchants') = n ELSE Len(merchants') = n + 1 /\ merchants'[n + 1] = y
  BY <1>2, <1>10, <1>11
<1>13. /\ members' \in Seq(Member) /\ \A i \in 1..k : members'[i] = members[i]
       /\ IF written < 2 THEN Len(members') = k ELSE Len(members') = k + 1 /\ members'[k + 1] = z
  BY <1>2, <1>9, <1>10, <1>11
<1>14. account' \in [Users -> AccountStates] /\ verified' \subseteq Users
  BY DEF TypeInv, Shape, Tables, SignupMerchant, AccountStates
<1>15. Tables'
  BY <1>12, <1>13, <1>14 DEF Tables
<1>16. Added(u, n, k, nida)
  <2>1. CASE written = 0
    BY <1>2, <1>12, <1>13, <2>1 DEF Added
  <2>2. CASE written = 1
    <3>1. Len(merchants') = n + 1 /\ merchants'[n + 1] = y /\ Len(members') = k /\ y.review = "NONE"
      BY <1>5, <1>6, <1>12, <1>13, <2>2
    <3> QED BY <1>2, <1>6, <1>12, <1>13, <3>1 DEF Added
  <2>3. CASE written \in 2..3
    <3>1. /\ Len(merchants') = n + 1 /\ merchants'[n + 1] = y
          /\ Len(members') = k + 1 /\ members'[k + 1] = z
      BY <1>12, <1>13, <2>3
    <3> QED BY <1>2, <1>6, <1>9, <1>12, <1>13, <3>1 DEF Added
  <2> QED BY <1>3, <2>1, <2>2, <2>3
<1> QED BY <1>15, <1>16, <1>4

\* Sign-up keeps the people apart, and finds the application of anyone unknown.
LEMMA SignupPeople ==
  ASSUME TypeInv, NEW u \in Users, SignupMerchant(u)
  PROVE  Tables' /\ People' /\ Grows /\ (LookupAnswers /\ One => One')
<1>1. PICK n \in Nat, k \in Nat, nida \in Nidas, phone \in Phones :
        /\ Added(u, n, k, nida)
        /\ LookupAnswers => ExistingApplications(nida, phone) = {}
  BY SignupAdds
<1> USE DEF Added
<1>2. Tables'
  BY SignupAdds
<1>3. verified' = verified /\ account' = [account EXCEPT ![u] = "unconfirmed"]
  BY DEF SignupMerchant
<1>4. Grows
  BY <1>1, <1>3, <1>2 DEF Grows, Tables
<1>5. ConfirmedIsKnown'
  BY <1>3 DEF TypeInv, Shape, Tables, People, ConfirmedIsKnown
<1>6. \A m \in 1..n : Known(m)' <=> Known(m)
  BY <1>1, <1>3 DEF Known
<1>7. Alone'
  <2> SUFFICES ASSUME NEW i \in 1..Len(members')
               PROVE  /\ members'[i].m \in 1..Len(merchants')
                      /\ \/ merchants'[members'[i].m].applicant \in verified'
                         \/ /\ members'[i].user = merchants'[members'[i].m].applicant
                            /\ members'[i].role = "MERCHANT_ADMIN" /\ members'[i].status = "active"
    BY DEF Alone, Known
  <2>1. CASE i \in 1..k
    <3>1. PICK m \in 1..n : m = members[i].m /\ m = members'[i].m
      BY <1>1, <2>1 DEF TypeInv, People, Alone
    <3>2. \/ Known(m)
          \/ /\ members[i].user = merchants[m].applicant
             /\ members[i].role = "MERCHANT_ADMIN" /\ members[i].status = "active"
      BY <1>1, <2>1, <3>1 DEF TypeInv, People, Alone
    <3>3. m \in 1..Len(merchants') /\ merchants'[m] = merchants[m] /\ members'[i] = members[i]
      BY <1>1, <2>1
    <3>4. Known(m) => merchants'[m].applicant \in verified'
      BY <1>3, <3>3 DEF Known
    <3> QED BY <3>1, <3>2, <3>3, <3>4
  <2>2. CASE i \notin 1..k
    <3>1. i = k + 1 /\ Len(members') = k + 1 /\ Len(merchants') = n + 1
      BY <1>1, <2>2
    <3> QED BY <1>1, <3>1
  <2> QED BY <2>1, <2>2
<1>8. Peopled'
  <2> SUFFICES ASSUME NEW m \in 1..Len(merchants'), merchants'[m].review # "NONE", ~Known(m)'
               PROVE  \E j \in 1..Len(members') : members'[j].m = m
    BY DEF Peopled
  <2>1. CASE m \in 1..n
    <3>1. PICK j \in 1..k : members[j].m = m
      BY <1>1, <1>6, <2>1 DEF TypeInv, People, Peopled
    <3>2. j \in 1..Len(members') /\ members'[j].m = m
      BY <1>1, <3>1
    <3> QED BY <3>2
  <2>2. CASE m \notin 1..n
    <3>1. m = n + 1 /\ k + 1 \in 1..Len(members') /\ members'[k + 1].m = m
      BY <1>1, <2>2
    <3> QED BY <3>1
  <2> QED BY <2>1, <2>2
<1>9. ASSUME LookupAnswers, One PROVE One'
  <2>1. DOMAIN merchants' = 1..Len(merchants') /\ DOMAIN merchants = 1..n
    BY <1>1, <1>2, Lengths DEF Tables, TypeInv
  \* An earlier application with this identity number whose owner is unknown would be found.
  <2>2. ASSUME NEW m \in 1..n, merchants[m].review # "NONE", merchants[m].nida = nida, ~Known(m)
        PROVE  FALSE
    <3>1. OwnerNeverVerified(m)
      BY <1>1, <2>2, UnknownIsFound
    <3>2. m \in ExistingApplications(nida, phone)
      BY <2>1, <2>2, <3>1 DEF ExistingApplications
    <3> QED BY <1>1, <1>9, <3>2
  <2> SUFFICES ASSUME NEW m \in 1..Len(merchants'), NEW j \in 1..Len(merchants'), m # j,
                      merchants'[m].review # "NONE", merchants'[j].review # "NONE",
                      merchants'[m].nida = merchants'[j].nida, ~Known(m)', ~Known(j)'
               PROVE  FALSE
    BY <2>1 DEF One, OneUnverifiedApplication, Known
  <2>3. (m \in 1..n \/ (m = n + 1 /\ merchants'[m].nida = nida))
        /\ (j \in 1..n \/ (j = n + 1 /\ merchants'[j].nida = nida))
    BY <1>1
  <2>4. CASE m \in 1..n /\ j \in 1..n
    <3>1. ~Known(m) /\ ~Known(j) /\ merchants'[m] = merchants[m] /\ merchants'[j] = merchants[j]
      BY <1>1, <1>6, <2>4
    <3> QED BY <1>9, <2>1, <2>4, <3>1 DEF One, OneUnverifiedApplication, Known
  <2>5. CASE m \in 1..n /\ j \notin 1..n
    BY <1>1, <1>6, <2>2, <2>3, <2>5
  <2>6. CASE m \notin 1..n /\ j \in 1..n
    BY <1>1, <1>6, <2>2, <2>3, <2>6
  <2> QED BY <2>3, <2>4, <2>5, <2>6
<1> QED BY <1>4, <1>5, <1>7, <1>8, <1>9, <1>2 DEF People

LEMMA MerchantSignupStep ==
  ASSUME TypeInv, NEW u \in Users, MerchantSignup(u)
  PROVE  Kept
<1>1. Tables' /\ People' /\ Grows /\ (LookupAnswers /\ One => One')
  BY SignupPeople DEF MerchantSignup
<1>2. work' = work /\ calc' = calc /\ refs' = refs /\ comms' = comms
  BY DEF MerchantSignup, SignupMerchant
<1>3. PICK n \in Nat : n = Len(merchants')
  BY <1>1 DEF Tables
<1>4. PICK r \in {0} \cup DOMAIN merchants : coded' = coded \/ coded' = coded \cup {<<n, r>>}
  BY <1>3 DEF MerchantSignup
<1>5. r \in Nat
  BY Lengths DEF TypeInv
<1>6. coded' \subseteq Nat \X Nat
  BY <1>3, <1>4, <1>5 DEF TypeInv, Shape, RowsOK
<1>7. RowsOK' /\ Len(refs) <= Len(refs')
  BY <1>2, <1>6, Lengths DEF TypeInv, RowsOK
<1> QED BY <1>1, <1>2, <1>7, TableMove DEF Kept
-----------------------------------------------------------------------------
(***************************************************************************)
(* Referrals, their valuations and their commissions.                      *)
(***************************************************************************)
Unique == OneCommission => OneCommission'

LEMMA SameComms == ASSUME comms' = comms PROVE Unique
  BY DEF Unique, OneCommission

\* The rows of referrals change, and nothing else of the rows.
LEMMA RefsChange ==
  ASSUME TypeInv, refs' \in Seq(Referral), Len(refs) <= Len(refs'), comms' = comms,
         coded' \subseteq coded
  PROVE  RowsOK' /\ Unique
<1>1. RowsOK'
  BY DEF TypeInv, Shape, RowsOK
<1> QED BY <1>1, SameComms

LEMMA RefEdit ==
  ASSUME TypeInv, NEW i, NEW y, i \in 1..Len(refs) => y \in Referral,
         refs' = [refs EXCEPT ![i] = y], comms' = comms, coded' = coded
  PROVE  RowsOK' /\ Len(refs) <= Len(refs') /\ Unique
<1>1. refs \in Seq(Referral) /\ Len(refs) \in Nat
  BY Lengths DEF TypeInv, Shape, RowsOK
<1>2. refs' \in Seq(Referral) /\ Len(refs') = Len(refs)
  BY <1>1, EditSeq
<1> QED BY <1>1, <1>2, RefsChange

LEMMA RefRow == ASSUME TypeInv, NEW i \in 1..Len(refs) PROVE refs[i] \in Referral
  BY Lengths DEF TypeInv

LEMMA CaptureReferralStep ==
  ASSUME TypeInv, NEW c \in coded, CaptureReferral(c[1], c[2])
  PROVE  Kept /\ Unique
<1>1. PICK m, r : m = c[1] /\ r = c[2]
  OBVIOUS
<1>2. <<m, r>> \in coded
  BY <1>1 DEF CaptureReferral
<1>3. m \in Nat /\ r \in Nat
  BY <1>2 DEF TypeInv, Shape, RowsOK
<1>4. PICK y : y = [referrer |-> r, referred |-> m, status |-> "pending_approval",
                    started |-> FALSE, over |-> FALSE, volume |-> 0]
  OBVIOUS
<1>5. y \in Referral
  BY <1>3, <1>4 DEF Referral, RefStatuses
<1>6. refs' = refs \/ refs' = Append(refs, y)
  BY <1>1, <1>4 DEF CaptureReferral
<1>7. refs \in Seq(Referral) /\ Len(refs) \in Nat
  BY Lengths DEF TypeInv, Shape, RowsOK
<1>8. refs' \in Seq(Referral) /\ Len(refs) <= Len(refs')
  BY <1>5, <1>6, <1>7
<1>9. SamePeople /\ work' = work /\ calc' = calc /\ comms' = comms /\ coded' \subseteq coded
  BY DEF CaptureReferral, SamePeople, merchantVars
<1> QED BY <1>8, <1>9, RefsChange, RowsAlone

LEMMA CodesStep ==
  ASSUME TypeInv, NEW m, IssueReferralCode(m) \/ SetReferralCodeStatus(m)
  PROVE  Kept /\ Unique
<1>1. SamePeople /\ work' = work /\ calc' = calc /\ SameRows
  BY DEF IssueReferralCode, SetReferralCodeStatus, SamePeople, SameRows
<1> QED BY <1>1, SameRowsStay, RowsAlone, SameComms DEF SameRows

LEMMA EndPeriodStep ==
  ASSUME TypeInv, NEW i, EndPeriod(i)
  PROVE  Kept /\ Unique
<1>1. PICK y : y = [refs[i] EXCEPT !.over = TRUE]
  OBVIOUS
<1>2. i \in 1..Len(refs) => y \in Referral
  BY <1>1, RefRow DEF Referral
<1>3. refs' = [refs EXCEPT ![i] = y]
  BY <1>1 DEF EndPeriod
<1>4. SamePeople /\ work' = work /\ calc' = calc /\ comms' = comms /\ coded' = coded
  BY DEF EndPeriod, SamePeople, merchantVars
<1> QED BY <1>2, <1>3, <1>4, RefEdit, RowsAlone

LEMMA TradeStep ==
  ASSUME TypeInv, NEW i, Trade(i)
  PROVE  Kept /\ Unique
<1>1. PICK v \in 0..2 : refs' = [refs EXCEPT ![i].volume = v]
  BY DEF Trade
<1>2. PICK y : y = [refs[i] EXCEPT !.volume = v]
  OBVIOUS
<1>3. i \in 1..Len(refs) => y \in Referral
  BY <1>2, RefRow DEF Referral
<1>4. refs' = [refs EXCEPT ![i] = y]
  BY <1>1, <1>2
<1>5. SamePeople /\ work' = work /\ calc' = calc /\ comms' = comms /\ coded' = coded
  BY DEF Trade, SamePeople
<1> QED BY <1>3, <1>4, <1>5, RefEdit, RowsAlone

LEMMA SetFraudHoldStep ==
  ASSUME TypeInv, NEW i, SetFraudHold(i)
  PROVE  Kept /\ Unique
<1>1. PICK y : y = [refs[i] EXCEPT !.status = "fraud_hold"]
  OBVIOUS
<1>2. i \in 1..Len(refs) => y \in Referral
  BY <1>1, RefRow DEF Referral, RefStatuses
<1>3. refs' = [refs EXCEPT ![i] = y]
  BY <1>1 DEF SetFraudHold
<1>4. SamePeople /\ work' = work /\ calc' = calc /\ comms' = comms /\ coded' = coded
  BY DEF SetFraudHold, SamePeople
<1> QED BY <1>2, <1>3, <1>4, RefEdit, RowsAlone

LEMMA ReadReferralStep ==
  ASSUME TypeInv, NEW t \in Threads, ReadReferral(t)
  PROVE  Kept /\ Unique
<1> DEFINE open == {i \in DOMAIN refs : refs[i].referred = work[t].row /\ ~refs[i].started}
<1>1. work' = [work EXCEPT ![t] = IF open = {} THEN NoWork
                                  ELSE [NoWork EXCEPT !.at = "start", !.row = Min(open)]]
  BY DEF ReadReferral
<1>2. open \in SUBSET Nat
  BY Lengths DEF TypeInv
<1> HIDE DEF open
<1>3. PICK w \in Work : w = NoWork
  BY NoWorkOK
<1>4. PICK i : i = Min(open)
  OBVIOUS
<1>5. PICK x : x = IF open = {} THEN w ELSE [w EXCEPT !.at = "start", !.row = i]
  OBVIOUS
<1>6. open # {} => i \in Nat
  BY <1>2, <1>4, LeastElement
<1>7. x \in Work /\ x.at \in {"idle", "start"}
  BY <1>3, <1>5, <1>6, NoWorkOK DEF Work, Places
<1>8. WorkOK(x)
  BY <1>7 DEF WorkOK, Applying
<1>9. work' = [work EXCEPT ![t] = x]
  BY <1>1, <1>3, <1>4, <1>5
<1>10. SamePeople /\ SameRows /\ calc' = calc
  BY DEF ReadReferral, SamePeople, SameRows, referralVars
<1> QED BY <1>7, <1>8, <1>9, <1>10, SameRowsStay, SameComms, ThreadAlone DEF SameRows

LEMMA StartReferralPeriodStep ==
  ASSUME TypeInv, NEW t \in Threads, StartReferralPeriod(t)
  PROVE  Kept /\ Unique
<1>1. PICK i : i = work[t].row
  OBVIOUS
<1>2. PICK y : y = [refs[i] EXCEPT !.started = TRUE, !.status = "active"]
  OBVIOUS
<1>3. i \in 1..Len(refs) => y \in Referral
  BY <1>2, RefRow DEF Referral, RefStatuses
<1>4. refs' = [refs EXCEPT ![i] = y]
  <2>1. refs' = [refs EXCEPT ![i].started = TRUE, ![i].status = "active"]
    BY <1>1 DEF StartReferralPeriod
  <2> QED BY <1>2, <2>1, Lengths DEF TypeInv
<1>5. /\ SamePeople /\ work' = [work EXCEPT ![t] = NoWork] /\ calc' = calc
      /\ comms' = comms /\ coded' = coded
  BY DEF StartReferralPeriod, SamePeople, Done
<1> QED BY <1>3, <1>4, <1>5, RefEdit, NoWorkOK, ThreadAlone

LEMMA ReadHoldStep ==
  ASSUME TypeInv, NEW t \in Threads, ReadHold(t)
  PROVE  Kept /\ Unique
<1>1. PICK i \in DOMAIN refs :
        work' = [work EXCEPT ![t] = [NoWork EXCEPT !.at = "release", !.row = i,
                   !.to = IF refs[i].started THEN "active" ELSE "pending_approval"]]
  BY DEF ReadHold
<1>2. i \in Nat
  BY Lengths DEF TypeInv
<1>3. PICK to \in {"active", "pending_approval"} :
        to = IF refs[i].started THEN "active" ELSE "pending_approval"
  OBVIOUS
<1>4. PICK w \in Work : w = NoWork
  BY NoWorkOK
<1>5. PICK x : x = [w EXCEPT !.at = "release", !.row = i, !.to = to]
  OBVIOUS
<1>6. x \in Work /\ x.at = "release" /\ x.to = to
  BY <1>2, <1>5 DEF Work, Places
<1>7. WorkOK(x)
  BY <1>6 DEF WorkOK, Applying
<1>8. work' = [work EXCEPT ![t] = x]
  BY <1>1, <1>3, <1>4, <1>5
<1>9. SamePeople /\ SameRows /\ calc' = calc
  BY DEF ReadHold, SamePeople, SameRows, referralVars
<1> QED BY <1>6, <1>7, <1>8, <1>9, SameRowsStay, SameComms, ThreadAlone DEF SameRows

LEMMA ReleaseHoldStep ==
  ASSUME TypeInv, NEW t \in Threads, ReleaseHold(t)
  PROVE  Kept /\ Unique
<1>1. PICK w \in Work : w = work[t] /\ w.at = "release" /\ WorkOK(w)
  BY ThreadWork DEF ReleaseHold, At
<1>2. PICK i : i = w.row
  OBVIOUS
<1>3. PICK y : y = [refs[i] EXCEPT !.status = w.to]
  OBVIOUS
<1>4. w.to \in RefStatuses
  BY <1>1 DEF WorkOK, RefStatuses
<1>5. i \in 1..Len(refs) => y \in Referral
  BY <1>3, <1>4, RefRow DEF Referral
<1>6. refs' = [refs EXCEPT ![i] = y]
  BY <1>1, <1>2, <1>3 DEF ReleaseHold
<1>7. /\ SamePeople /\ work' = [work EXCEPT ![t] = NoWork] /\ calc' = calc
      /\ comms' = comms /\ coded' = coded
  BY DEF ReleaseHold, SamePeople, Done
<1> QED BY <1>5, <1>6, <1>7, RefEdit, NoWorkOK, ThreadAlone

LEMMA ReadCommissionStep ==
  ASSUME TypeInv, NEW t \in Threads, ReadCommission(t)
  PROVE  Kept /\ Unique
<1>1. PICK j \in DOMAIN comms, to \in Ruled :
        work' = [work EXCEPT ![t] = [NoWork EXCEPT !.at = "ruling", !.row = j, !.to = to]]
  BY DEF ReadCommission
<1>2. j \in Nat
  BY Lengths DEF TypeInv
<1>3. PICK w \in Work : w = NoWork
  BY NoWorkOK
<1>4. PICK x : x = [w EXCEPT !.at = "ruling", !.row = j, !.to = to]
  OBVIOUS
<1>5. x \in Work /\ x.at = "ruling" /\ x.to = to
  BY <1>2, <1>4 DEF Work, Places
<1>6. WorkOK(x)
  BY <1>5 DEF WorkOK, Applying
<1>7. work' = [work EXCEPT ![t] = x]
  BY <1>1, <1>3, <1>4
<1>8. SamePeople /\ SameRows /\ calc' = calc
  BY DEF ReadCommission, SamePeople, SameRows, referralVars
<1> QED BY <1>5, <1>6, <1>7, <1>8, SameRowsStay, SameComms, ThreadAlone DEF SameRows

\* A commission is rewritten; it is still of the same referral.
LEMMA CommEdit ==
  ASSUME TypeInv, NEW j, NEW y, j \in 1..Len(comms) => y \in Commission /\ y.ref = comms[j].ref,
         comms' = [comms EXCEPT ![j] = y], refs' = refs, coded' = coded
  PROVE  RowsOK' /\ Len(refs) <= Len(refs') /\ Unique
<1>1. comms \in Seq(Commission) /\ Len(comms) \in Nat /\ DOMAIN comms = 1..Len(comms)
  BY Lengths DEF TypeInv, Shape, RowsOK
<1>2. /\ comms' \in Seq(Commission) /\ Len(comms') = Len(comms)
      /\ j \in 1..Len(comms) => comms'[j] = y
      /\ \A k \in 1..Len(comms) : k # j => comms'[k] = comms[k]
  BY <1>1, EditSeq
<1>3. RowsOK' /\ Len(refs) <= Len(refs')
  BY <1>2, Lengths DEF TypeInv, Shape, RowsOK
<1>4. DOMAIN comms' = 1..Len(comms) /\ \A k \in 1..Len(comms) : comms'[k].ref = comms[k].ref
  BY <1>2
<1> QED BY <1>1, <1>3, <1>4 DEF Unique, OneCommission

LEMMA CommRow == ASSUME TypeInv, NEW j \in 1..Len(comms) PROVE comms[j] \in Commission
  BY Lengths DEF TypeInv

LEMMA RuleCommissionStep ==
  ASSUME TypeInv, NEW t \in Threads, RuleCommission(t)
  PROVE  Kept /\ Unique
<1>1. PICK w \in Work : w = work[t] /\ w.at = "ruling" /\ WorkOK(w)
  BY ThreadWork DEF RuleCommission, At
<1>2. w.to \in Ruled
  BY <1>1 DEF WorkOK
<1>3. PICK j : j = w.row
  OBVIOUS
<1>4. PICK y : y = [comms[j] EXCEPT !.status = w.to]
  OBVIOUS
<1>5. j \in 1..Len(comms) => y \in Commission /\ y.ref = comms[j].ref
  BY <1>2, <1>4, CommRow DEF Commission, Ruled, CommStatuses
<1>6. comms' = [comms EXCEPT ![j] = y]
  BY <1>1, <1>3, <1>4 DEF RuleCommission
<1>7. PICK x \in Work : work' = [work EXCEPT ![t] = x] /\ x.at = "ruled" /\ x.to = w.to
  BY <1>1, GoesTo DEF RuleCommission, Places
<1>8. WorkOK(x)
  BY <1>2, <1>7 DEF WorkOK, Applying
<1>9. SamePeople /\ calc' = calc /\ refs' = refs /\ coded' = coded
  BY DEF RuleCommission, SamePeople
<1> QED BY <1>5, <1>6, <1>7, <1>8, <1>9, CommEdit, ThreadAlone

LEMMA RuleReferralStep ==
  ASSUME TypeInv, NEW t \in Threads, RuleReferral(t)
  PROVE  Kept /\ Unique
<1>1. PICK w \in Work : w = work[t] /\ w.at = "ruled" /\ WorkOK(w)
  BY ThreadWork DEF RuleReferral, At
<1>2. w.to \in Ruled
  BY <1>1 DEF WorkOK
<1>3. RuledAs[w.to] \in RefStatuses
  BY <1>2 DEF RuledAs, Ruled, RefStatuses
<1>4. PICK i : i = comms[w.row].ref
  OBVIOUS
<1>5. PICK y : y = [refs[i] EXCEPT !.status = RuledAs[w.to]]
  OBVIOUS
<1>6. i \in 1..Len(refs) => y \in Referral
  BY <1>3, <1>5, RefRow DEF Referral
<1>7. refs' = [refs EXCEPT ![i] = y]
  BY <1>1, <1>4, <1>5 DEF RuleReferral
<1>8. /\ SamePeople /\ work' = [work EXCEPT ![t] = NoWork] /\ calc' = calc
      /\ comms' = comms /\ coded' = coded
  BY DEF RuleReferral, SamePeople, Done
<1> QED BY <1>6, <1>7, <1>8, RefEdit, NoWorkOK, ThreadAlone
-----------------------------------------------------------------------------
(***************************************************************************)
(* The valuation.                                                          *)
(***************************************************************************)
LEMMA CalcOf ==
  ASSUME TypeInv, NEW c \in Calculators
  PROVE  /\ calc \in [Calculators -> Calculation]
         /\ calc[c] \in Calculation /\ CalcOK(calc[c]) /\ calc[c].todo \in SUBSET Item
  BY DEF TypeInv, Shape, CalcsOK, Calculation

LEMMA NextReferralOK ==
  ASSUME NEW todo \in SUBSET Item, \A x \in todo : x.i \in 1..Len(refs)
  PROVE  NextReferral(todo) \in Calculation /\ CalcOK(NextReferral(todo))
<1>1. NoCalc \in Calculation /\ NoCalc.todo = {} /\ NoCalc.at = "idle"
  BY DEF NoCalc, Calculation
<1>2. CASE todo = {}
  BY <1>1, <1>2 DEF NextReferral, CalcOK
<1>3. CASE todo # {}
  <2>1. PICK z \in Calculation : z = NoCalc
    BY <1>1
  <2>2. PICK x : x = [z EXCEPT !.at = "next", !.todo = todo]
    OBVIOUS
  <2>3. x \in Calculation /\ x.at = "next" /\ x.todo = todo
    BY <2>2 DEF Calculation
  <2>4. NextReferral(todo) = x
    BY <1>3, <2>1, <2>2 DEF NextReferral
  <2> QED BY <1>3, <2>3, <2>4 DEF CalcOK
<1> QED BY <1>2, <1>3

LEMMA CalcOKSame ==
  ASSUME NEW x, CalcOK(x), Len(refs') = Len(refs)
  PROVE  CalcOK(x)'
  BY DEF CalcOK

LEMMA FirstItem ==
  ASSUME NEW todo \in SUBSET Item, todo # {}
  PROVE  (CHOOSE x \in todo : \A y \in todo : x.i <= y.i) \in todo
<1> DEFINE S == {x.i : x \in todo}
<1>1. S \in SUBSET Nat /\ S # {}
  BY DEF Item
<1> HIDE DEF S
<1>2. PICK k \in S : \A y \in S : k <= y
  BY <1>1, LeastElement
<1>3. PICK x \in todo : k = x.i
  BY <1>2 DEF S
<1>4. \A y \in todo : x.i <= y.i
  BY <1>2, <1>3 DEF S
<1>5. \E z \in todo : \A y \in todo : z.i <= y.i
  BY <1>4
<1> QED BY <1>5, Zenon

LEMMA RecalculateOpenReferralsStep ==
  ASSUME TypeInv, NEW c \in Calculators, RecalculateOpenReferrals(c)
  PROVE  Kept /\ Unique
<1>1. PICK todo : todo = OpenReferrals
  OBVIOUS
<1>2. todo \in SUBSET Item /\ todo # {} /\ \A x \in todo : x.i \in 1..Len(refs)
  <2>1. todo = {[i |-> i, status |-> refs[i].status, started |-> refs[i].started] :
                 i \in {k \in DOMAIN refs : refs[k].status \in OpenStatuses}}
    BY <1>1 DEF OpenReferrals
  <2>2. \A i \in DOMAIN refs : /\ i \in 1..Len(refs) /\ i \in Nat
                               /\ refs[i].status \in RefStatuses /\ refs[i].started \in BOOLEAN
    BY Lengths, RefRow DEF TypeInv, Referral
  <2>3. \A x \in todo : \E i \in DOMAIN refs :
          x = [i |-> i, status |-> refs[i].status, started |-> refs[i].started]
    BY <2>1
  <2>4. \A x \in todo : x \in Item /\ x.i \in 1..Len(refs)
    BY <2>2, <2>3 DEF Item
  <2> QED BY <1>1, <2>4 DEF RecalculateOpenReferrals
<1>3. PICK z \in Calculation : z = calc[c]
  BY CalcOf
<1>4. PICK x : x = [z EXCEPT !.at = "next", !.todo = todo]
  OBVIOUS
<1>5. x \in Calculation /\ x.at = "next" /\ x.todo = todo
  BY <1>2, <1>4 DEF Calculation
<1>6. CalcOK(x)
  BY <1>2, <1>5 DEF CalcOK
<1>7. calc' = [calc EXCEPT ![c] = x]
  <2>1. calc' = [calc EXCEPT ![c].at = "next", ![c].todo = todo]
    BY <1>1 DEF RecalculateOpenReferrals
  <2> QED BY <1>3, <1>4, <2>1, CalcOf
<1>8. SamePeople /\ work' = work /\ SameRows
  BY DEF RecalculateOpenReferrals, SamePeople, SameRows, merchantVars
<1>9. CalcOK(x)'
  BY <1>6, <1>8, CalcOKSame DEF SameRows
<1> QED BY <1>5, <1>7, <1>8, <1>9, SameRowsStay, SameComms, CalcMove DEF SameRows

LEMMA RecalculateOneStep ==
  ASSUME TypeInv, NEW c \in Calculators, RecalculateOne(c)
  PROVE  Kept /\ Unique
<1>1. PICK i \in DOMAIN refs :
        calc' = [calc EXCEPT ![c].at = "next",
                  ![c].todo = {[i |-> i, status |-> refs[i].status, started |-> refs[i].started]}]
  BY DEF RecalculateOne
<1>2. i \in 1..Len(refs) /\ i \in Nat /\ refs[i].status \in RefStatuses /\ refs[i].started \in BOOLEAN
  BY Lengths, RefRow DEF TypeInv, Referral
<1>3. PICK y : y = [i |-> i, status |-> refs[i].status, started |-> refs[i].started]
  OBVIOUS
<1>4. y \in Item /\ y.i = i
  BY <1>2, <1>3 DEF Item
<1>5. PICK z \in Calculation : z = calc[c]
  BY CalcOf
<1>6. PICK x : x = [z EXCEPT !.at = "next", !.todo = {y}]
  OBVIOUS
<1>7. x \in Calculation /\ x.at = "next" /\ x.todo = {y}
  BY <1>4, <1>6 DEF Calculation
<1>8. CalcOK(x)
  BY <1>2, <1>4, <1>7 DEF CalcOK
<1>9. calc' = [calc EXCEPT ![c] = x]
  <2>1. calc' = [calc EXCEPT ![c].at = "next", ![c].todo = {y}]
    BY <1>1, <1>3
  <2> QED BY <1>5, <1>6, <2>1, CalcOf
<1>10. SamePeople /\ work' = work /\ SameRows
  BY DEF RecalculateOne, SamePeople, SameRows
<1>11. CalcOK(x)'
  BY <1>8, <1>10, CalcOKSame DEF SameRows
<1> QED BY <1>7, <1>9, <1>10, <1>11, SameRowsStay, SameComms, CalcMove DEF SameRows

LEMMA VerdictOK ==
  ASSUME NEW i, NEW status
  PROVE  Verdict(i, status) \in CommStatuses
<1> DEFINE cancelled == status = "fraud_hold" \/ ~Trading(refs[i].referrer) \/ ~Trading(refs[i].referred)
<1>1. CASE cancelled
  BY <1>1, Zenon DEF Verdict, CommStatuses
<1>2. CASE ~cancelled
  BY <1>2 DEF Verdict, CommStatuses
<1> QED BY <1>1, <1>2

LEMMA CalculateStep ==
  ASSUME TypeInv, NEW c \in Calculators, Calculate(c)
  PROVE  Kept /\ Unique
<1>1. PICK z \in Calculation : z = calc[c] /\ z.at = "next" /\ CalcOK(z)
  BY CalcOf DEF Calculate
<1> DEFINE r == CHOOSE x \in calc[c].todo : \A y \in calc[c].todo : x.i <= y.i
           of == {j \in DOMAIN comms : comms[j].ref = r.i}
           rest == calc[c].todo \ {r}
           qualified == refs[r.i].volume >= Threshold
           y == [at |-> "write", todo |-> rest, ref |-> r.i, seen |-> r.status,
                 comm |-> IF of = {} THEN 0 ELSE Min(of), verdict |-> Verdict(r.i, r.status),
                 amount |-> IF qualified THEN refs[r.i].volume ELSE 0,
                 qualified |-> qualified, over |-> refs[r.i].over]
<1>2. calc' = [calc EXCEPT ![c] =
         IF ~r.started \/ \E j \in of : comms[j].status \notin Mutable THEN NextReferral(rest) ELSE y]
  BY DEF Calculate
<1>3. z.todo \in SUBSET Item /\ z.todo # {} /\ \A x \in z.todo : x.i \in 1..Len(refs)
  BY <1>1, CalcOf DEF CalcOK
<1>4. r \in z.todo
  BY <1>1, <1>3, FirstItem
<1> HIDE DEF r
<1>5. r \in Item /\ r.i \in 1..Len(refs) /\ r.i \in Nat /\ r.status \in RefStatuses
  BY <1>3, <1>4 DEF Item
<1>6. of \in SUBSET Nat
  BY Lengths DEF TypeInv
<1>7. rest \in SUBSET Item /\ \A x \in rest : x.i \in 1..Len(refs)
  BY <1>1, <1>3
<1>8. refs[r.i].volume \in 0..2 /\ refs[r.i].over \in BOOLEAN
  BY <1>5, RefRow DEF Referral
<1>9. (IF of = {} THEN 0 ELSE Min(of)) \in Nat
  BY <1>6, LeastElement
<1>10. (IF qualified THEN refs[r.i].volume ELSE 0) \in 0..2
  BY <1>8
<1>11. qualified \in BOOLEAN
  OBVIOUS
<1>12. Verdict(r.i, r.status) \in CommStatuses
  BY VerdictOK
<1>13. y \in Calculation /\ CalcOK(y)
  <2> HIDE DEF of, qualified, rest
  <2> QED BY <1>5, <1>7, <1>8, <1>9, <1>10, <1>11, <1>12 DEF Calculation, CalcOK
<1> HIDE DEF y, rest
<1>14. calc' = [calc EXCEPT ![c] = NextReferral(rest)] \/ calc' = [calc EXCEPT ![c] = y]
  BY <1>2
<1>15. NextReferral(rest) \in Calculation /\ CalcOK(NextReferral(rest))
  BY <1>7, NextReferralOK
<1>16. PICK x \in Calculation : CalcOK(x) /\ calc' = [calc EXCEPT ![c] = x]
  BY <1>13, <1>14, <1>15
<1>17. SamePeople /\ work' = work /\ SameRows
  BY DEF Calculate, SamePeople, SameRows, merchantVars
<1>18. CalcOK(x)'
  BY <1>16, <1>17, CalcOKSame DEF SameRows
<1> QED BY <1>16, <1>17, <1>18, SameRowsStay, SameComms, CalcMove DEF SameRows

\* The unique index lets a commission in only if its referral has none.
LEMMA CalculateReferralCommissionStep ==
  ASSUME TypeInv, NEW c \in Calculators, CalculateReferralCommission(c)
  PROVE  Kept /\ Unique
<1>1. PICK w \in Calculation : w = calc[c] /\ w.at = "write" /\ CalcOK(w)
  BY CalcOf DEF CalculateReferralCommission
<1>2. /\ w.todo \in SUBSET Item /\ \A x \in w.todo : x.i \in 1..Len(refs)
      /\ w.verdict \in CommStatuses /\ w.ref \in Nat /\ w.amount \in 0..2
  BY <1>1 DEF CalcOK, Calculation
<1> DEFINE lost == w.comm = 0 /\ ~MayInsert(w.ref)
<1>3. /\ comms' = IF lost THEN comms
                  ELSE IF w.comm = 0
                  THEN Append(comms, [ref |-> w.ref, status |-> w.verdict, amount |-> w.amount])
                  ELSE [comms EXCEPT ![w.comm].status = w.verdict, ![w.comm].amount = w.amount]
      /\ calc' = [calc EXCEPT ![c] = IF lost THEN NextReferral(w.todo) ELSE [w EXCEPT !.at = "sync"]]
  BY <1>1 DEF CalculateReferralCommission
<1>4. SamePeople /\ work' = work /\ refs' = refs /\ coded' = coded
  BY DEF CalculateReferralCommission, SamePeople, merchantVars
<1>5. PICK y : y = [w EXCEPT !.at = "sync"]
  OBVIOUS
<1>6. y \in Calculation /\ y.at = "sync" /\ y.todo = w.todo /\ y.verdict = w.verdict
  BY <1>5 DEF Calculation
<1>7. CalcOK(y)
  BY <1>2, <1>6 DEF CalcOK
<1>8. NextReferral(w.todo) \in Calculation /\ CalcOK(NextReferral(w.todo))
  BY <1>2, NextReferralOK
<1>9. RowsOK' /\ Unique
  <2>1. CASE lost
    <3>1. SameRows
      BY <1>3, <1>4, <2>1 DEF SameRows
    <3> QED BY <3>1, SameRowsStay, SameComms DEF SameRows
  <2>2. CASE ~lost /\ w.comm = 0
    <3>1. PICK z : z = [ref |-> w.ref, status |-> w.verdict, amount |-> w.amount]
      OBVIOUS
    <3>2. z \in Commission /\ z.ref = w.ref
      BY <1>2, <3>1 DEF Commission
    <3>3. comms \in Seq(Commission) /\ DOMAIN comms = 1..Len(comms)
      BY Lengths DEF TypeInv, Shape, RowsOK
    <3>4. PICK n \in Nat : n = Len(comms)
      BY Lengths DEF TypeInv
    <3>5. comms' = Append(comms, z)
      BY <1>3, <2>2, <3>1
    <3>6. /\ comms' \in Seq(Commission) /\ DOMAIN comms' = 1..n + 1 /\ comms'[n + 1] = z
          /\ \A k \in 1..n : comms'[k] = comms[k]
      BY <3>2, <3>3, <3>4, <3>5
    <3>7. RowsOK'
      BY <1>4, <3>6 DEF TypeInv, Shape, RowsOK
    <3>8. \A k \in 1..n : comms[k].ref # z.ref
      BY <2>2, <3>2, <3>3, <3>4 DEF MayInsert
    <3>9. \A k \in 1..n + 1 : k \in 1..n \/ k = n + 1
      OBVIOUS
    <3>10. ASSUME OneCommission, NEW j \in 1..n + 1, NEW k \in 1..n + 1, comms'[j].ref = comms'[k].ref
           PROVE  j = k
      BY <3>3, <3>4, <3>6, <3>8, <3>9, <3>10 DEF OneCommission
    <3> QED BY <3>6, <3>7, <3>10 DEF Unique, OneCommission
  <2>3. CASE ~lost /\ w.comm # 0
    <3>1. PICK j : j = w.comm
      OBVIOUS
    <3>2. PICK z : z = [comms[j] EXCEPT !.status = w.verdict, !.amount = w.amount]
      OBVIOUS
    <3>3. j \in 1..Len(comms) => z \in Commission /\ z.ref = comms[j].ref
      BY <1>2, <3>2, CommRow DEF Commission
    <3>4. comms' = [comms EXCEPT ![j] = z]
      <4>1. comms' = [comms EXCEPT ![j].status = w.verdict, ![j].amount = w.amount]
        BY <1>3, <2>3, <3>1
      <4> QED BY <3>2, <4>1, Lengths DEF TypeInv
    <3> QED BY <1>4, <3>3, <3>4, CommEdit
  <2> QED BY <2>1, <2>2, <2>3
<1>10. PICK x \in Calculation : CalcOK(x) /\ calc' = [calc EXCEPT ![c] = x]
  BY <1>3, <1>5, <1>6, <1>7, <1>8
<1>11. CalcOK(x)' /\ Len(refs) <= Len(refs')
  BY <1>4, <1>10, CalcOKSame, Lengths DEF TypeInv
<1> QED BY <1>4, <1>9, <1>10, <1>11, CalcMove

LEMMA SyncReferralStatusStep ==
  ASSUME TypeInv, NEW c \in Calculators, SyncReferralStatus(c)
  PROVE  Kept /\ Unique
<1>1. PICK w \in Calculation : w = calc[c] /\ w.at = "sync" /\ CalcOK(w)
  BY CalcOf DEF SyncReferralStatus
<1>2. w.todo \in SUBSET Item /\ \A x \in w.todo : x.i \in 1..Len(refs)
  BY <1>1 DEF CalcOK, Calculation
<1>3. PICK to \in RefStatuses :
        to = IF w.verdict = "pending_review" THEN "commission_pending"
             ELSE IF w.qualified THEN "qualified"
             ELSE IF w.over THEN "expired" ELSE "active"
  BY DEF RefStatuses
<1>4. /\ refs' = refs \/ refs' = [refs EXCEPT ![w.ref].status = to]
      /\ calc' = [calc EXCEPT ![c] = NextReferral(w.todo)]
  BY <1>1, <1>3 DEF SyncReferralStatus
<1>5. PICK x : x = NextReferral(w.todo)
  OBVIOUS
<1>6. x \in Calculation /\ CalcOK(x)
  BY <1>2, <1>5, NextReferralOK
<1>7. SamePeople /\ work' = work /\ comms' = comms /\ coded' = coded
  BY DEF SyncReferralStatus, SamePeople, merchantVars
<1>8. RowsOK' /\ Len(refs) <= Len(refs') /\ Unique
  <2>1. CASE refs' = refs
    <3>1. SameRows
      BY <1>7, <2>1 DEF SameRows
    <3> QED BY <1>7, <3>1, SameRowsStay, SameComms
  <2>2. CASE refs' = [refs EXCEPT ![w.ref].status = to]
    <3>1. PICK i, y : i = w.ref /\ y = [refs[i] EXCEPT !.status = to]
      OBVIOUS
    <3>2. i \in 1..Len(refs) => y \in Referral
      BY <3>1, RefRow DEF Referral
    <3> QED BY <1>7, <2>2, <3>1, <3>2, RefEdit
  <2> QED BY <1>4, <2>1, <2>2
<1>9. RowsOK
  BY DEF TypeInv, Shape
<1>10. CalcOK(x)'
  BY <1>6, <1>8, <1>9, CalcStays
<1> QED BY <1>4, <1>5, <1>6, <1>7, <1>8, <1>10, CalcMove
-----------------------------------------------------------------------------
(***************************************************************************)
(* The theorems.                                                           *)
(***************************************************************************)
LEMMA BeginsRight == Init => TypeInv /\ One /\ OneCommission
<1> SUFFICES ASSUME Init PROVE TypeInv /\ One /\ OneCommission
  OBVIOUS
<1>1. /\ left \in Starts /\ comms = <<>> /\ coded = {} /\ calc = [c \in Calculators |-> NoCalc]
      /\ IF left.begun THEN Begun ELSE MerchantsInit /\ refs = <<>>
  BY DEF Init
<1>2. /\ comms \in Seq(Commission) /\ coded \subseteq Nat \X Nat
      /\ calc \in [Calculators -> Calculation] /\ OneCommission /\ CalcsOK
  <2>1. NoCalc \in Calculation /\ CalcOK(NoCalc)
    BY DEF NoCalc, Calculation, CalcOK
  <2>2. OneCommission
    BY <1>1 DEF OneCommission
  <2> QED BY <1>1, <2>1, <2>2 DEF CalcsOK
<1>3. work = [t \in Threads |-> NoWork]
  BY <1>1 DEF Begun, MerchantsInit
<1>4. work \in [Threads -> Work] /\ WorkersOK
  BY <1>3, NoWorkOK DEF WorkersOK
<1>5. CASE ~left.begun
  <2>1. /\ merchants = <<>> /\ members = <<>> /\ refs = <<>>
        /\ account = [u \in Users |-> "none"] /\ verified = {}
    BY <1>1, <1>5 DEF MerchantsInit
  <2>2. Tables /\ RowsOK
    BY <1>2, <2>1 DEF Tables, RowsOK, AccountStates
  <2>3. People /\ One
    BY <2>1 DEF People, ConfirmedIsKnown, Alone, Peopled, One, OneUnverifiedApplication
  <2> QED BY <1>2, <1>4, <2>2, <2>3 DEF TypeInv, Shape
<1>6. CASE left.begun
  <2> DEFINE a == CHOOSE u \in Users : TRUE
             b == CHOOSE u \in Users \ {a} : TRUE
             nida == CHOOSE n \in Nidas : TRUE
             phone == CHOOSE p \in Phones : TRUE
             y == [applicant |-> a, nida |-> nida, phone |-> phone, status |-> "active",
                   review |-> "VERIFIED"]
             z == [applicant |-> b, nida |-> nida, phone |-> phone, status |-> "pending",
                   review |-> "PENDING_VERIFICATION"]
             r == [referrer |-> 1, referred |-> 2, status |-> "pending_approval",
                   started |-> FALSE, over |-> FALSE, volume |-> 0]
  <2>1. /\ merchants = <<y, z>> /\ members = <<NewOwner(a, 1), NewOwner(b, 2)>>
        /\ account = [u \in Users |-> IF u \in {a, b} THEN "confirmed" ELSE "none"]
        /\ verified = {a, b} /\ refs = <<r>>
    BY <1>1, <1>6 DEF Begun
  <2>2. a \in Users /\ b \in Users /\ nida \in Nidas /\ phone \in Phones
    <3>1. /\ \E u \in Users : TRUE
          /\ \E u \in Users \ {a} : TRUE
          /\ \E n \in Nidas : TRUE
          /\ \E p \in Phones : TRUE
      <4>1. PICK p \in Users, q \in Users : p # q
        BY <1>1, <1>6, BegunAssumption
      <4>2. p \in Users \ {a} \/ q \in Users \ {a}
        BY <4>1
      <4>3. \E n \in Nidas, k \in Phones : TRUE
        BY <1>1, <1>6, BegunAssumption
      <4> HIDE DEF a
      <4> QED BY <4>1, <4>2, <4>3
    <3> QED BY <3>1
  <2> HIDE DEF a, b, nida, phone
  <2>3. y \in Merchant /\ z \in Merchant /\ y.applicant = a /\ z.applicant = b
    BY <2>2 DEF Merchant, Reviews
  <2>4. r \in Referral
    BY DEF Referral, RefStatuses
  <2> HIDE DEF y, z, r
  <2>5. PICK v, w : /\ v = NewOwner(a, 1) /\ w = NewOwner(b, 2) /\ v \in Member /\ w \in Member
                    /\ v.m = 1 /\ w.m = 2
    BY <2>2, NewOwnerOK
  <2>6. /\ merchants \in Seq(Merchant) /\ Len(merchants) = 2 /\ merchants[1] = y /\ merchants[2] = z
        /\ DOMAIN merchants = 1..2
    BY <2>1, <2>3
  <2>7. members \in Seq(Member) /\ Len(members) = 2 /\ members[1] = v /\ members[2] = w
    BY <2>1, <2>5
  <2>8. refs \in Seq(Referral)
    BY <2>1, <2>4
  <2>9. account \in [Users -> AccountStates] /\ verified \subseteq Users
    BY <2>1, <2>2 DEF AccountStates
  <2>10. Tables /\ RowsOK
    BY <1>2, <2>6, <2>7, <2>8, <2>9 DEF Tables, RowsOK
  <2>11. Known(1) /\ Known(2)
    BY <2>1, <2>3, <2>6 DEF Known
  <2>12. \A m \in 1..2 : Known(m)
    BY <2>11
  <2>13. ConfirmedIsKnown
    BY <2>1 DEF ConfirmedIsKnown
  <2>14. \A i \in 1..2 : members[i].m \in 1..2
    BY <2>5, <2>7
  <2>15. Alone /\ Peopled
    BY <2>6, <2>7, <2>12, <2>14 DEF Alone, Peopled
  <2>16. One
    BY <2>6, <2>12 DEF One, OneUnverifiedApplication, Known
  <2> QED BY <1>2, <1>4, <2>10, <2>13, <2>15, <2>16 DEF TypeInv, Shape, People
<1> QED BY <1>5, <1>6

LEMMA StepKeeps ==
  ASSUME TypeInv, [Next]_vars
  PROVE  Kept /\ Unique
<1>1. CASE MerchantsNext /\ UNCHANGED referralVars
  <2>1. Unique
    BY <1>1, SameComms DEF referralVars
  <2>2. ASSUME NEW u \in Users, ConfirmEmail(u) PROVE Kept
    BY <1>1, <2>2, ConfirmEmailStep
  <2>3. ASSUME NEW u \in Users, CreateMyMerchantUser(u) PROVE Kept
    BY <1>1, <2>3, CreateMyMerchantUserStep
  <2>4. ASSUME NEW m \in DOMAIN merchants, CorrectMerchantContactEmail(m) PROVE Kept
    BY <1>1, <2>4, CorrectMerchantContactEmailStep
  <2>5. ASSUME NEW m \in DOMAIN merchants, UpdateMerchantStatus(m) PROVE Kept
    BY <1>1, <2>5, UpdateMerchantStatusStep
  <2>6. ASSUME NEW t \in Threads, OfThread(t) PROVE Kept
    BY <1>1, <2>6, InsertMerchantStep, InsertMembershipStep, InsertSubmissionStep, ResubmitStep,
       UpdateMerchantRowStep, UpdateSubmissionStep, SetReviewStatusStep, ApproveStep, RejectStep,
       AcceptMyMerchantInviteStep, UpdateMyMerchantUserStep, WriteMemberStep, StopStep DEF OfThread
  <2> QED BY <1>1, <2>1, <2>2, <2>3, <2>4, <2>5, <2>6 DEF MerchantsNext
<1>2. ASSUME NEW u \in Users, MerchantSignup(u) PROVE Kept /\ Unique
  <2>1. comms' = comms
    BY <1>2 DEF MerchantSignup
  <2> QED BY <1>2, <2>1, MerchantSignupStep, SameComms
<1>3. ASSUME NEW c \in coded, CaptureReferral(c[1], c[2]) PROVE Kept /\ Unique
  BY <1>3, CaptureReferralStep
<1>4. ASSUME NEW m \in DOMAIN merchants, IssueReferralCode(m) \/ SetReferralCodeStatus(m)
      PROVE  Kept /\ Unique
  BY <1>4, CodesStep
<1>5. ASSUME NEW t \in Threads,
             \/ ReadReferral(t) \/ StartReferralPeriod(t) \/ ReadHold(t) \/ ReleaseHold(t)
             \/ ReadCommission(t) \/ RuleCommission(t) \/ RuleReferral(t)
      PROVE  Kept /\ Unique
  BY <1>5, ReadReferralStep, StartReferralPeriodStep, ReadHoldStep, ReleaseHoldStep,
     ReadCommissionStep, RuleCommissionStep, RuleReferralStep
<1>6. ASSUME NEW i \in DOMAIN refs, EndPeriod(i) \/ Trade(i) \/ SetFraudHold(i) PROVE Kept /\ Unique
  BY <1>6, EndPeriodStep, TradeStep, SetFraudHoldStep
<1>7. ASSUME NEW c \in Calculators, OfCalculator(c) \/ RecalculateOne(c) PROVE Kept /\ Unique
  BY <1>7, RecalculateOpenReferralsStep, CalculateStep, CalculateReferralCommissionStep,
     SyncReferralStatusStep, RecalculateOneStep DEF OfCalculator
<1>8. CASE UNCHANGED vars
  <2>1. SamePeople /\ SameRows /\ work' = work /\ calc' = calc
    BY <1>8 DEF vars, merchantVars, referralVars, SamePeople, SameRows
  <2> QED BY <2>1, SameRowsStay, SameComms, RowsAlone DEF SameRows
<1> QED BY <1>1, <1>2, <1>3, <1>4, <1>5, <1>6, <1>7, <1>8 DEF Next

\* Rows, requests and valuations keep their types; who is unknown is alone in his
\* business, and no request of his is under way.
THEOREM ReferralTypes == Spec => []TypeInv
<1>1. Init => TypeInv
  BY BeginsRight
<1>2. TypeInv /\ [Next]_vars => TypeInv'
  BY StepKeeps DEF Kept
<1> QED BY <1>1, <1>2, PTL DEF Spec

\* If the search for a duplicate can always be made, one identity number never has two
\* applications of people who never confirmed an address: sign-up, account creation,
\* corrections of addresses, reviews and resubmissions in any order, requests cut off
\* anywhere.
THEOREM ApplicationsApart ==
  ASSUME LookupAnswers
  PROVE  Spec => []OneUnverifiedApplication
<1>1. Init => TypeInv /\ One
  BY BeginsRight
<1>2. TypeInv /\ One /\ [Next]_vars => TypeInv' /\ One'
  BY StepKeeps, LookupAnswers DEF Kept
<1>3. One => OneUnverifiedApplication
  BY DEF One
<1> QED BY <1>1, <1>2, <1>3, PTL DEF Spec

\* A referral has one commission at most, however many threads value it at once.
THEOREM CommissionsApart == Spec => []OneCommission
<1>1. Init => TypeInv /\ OneCommission
  BY BeginsRight
<1>2. TypeInv /\ OneCommission /\ [Next]_vars => TypeInv' /\ OneCommission'
  BY StepKeeps DEF Kept, Unique
<1> QED BY <1>1, <1>2, PTL DEF Spec
=============================================================================
