------------------------------ MODULE Referrals ------------------------------
(***************************************************************************)
(* The referral programme: services/referrals.py (codes, the capture of a   *)
(* code at sign-up, the earning window that approval opens, fraud holds)    *)
(* and referral_commissions.py (the valuation of open referrals, on a timer *)
(* or by an administrator, and the administrators' rulings).                *)
(*                                                                         *)
(* Valuation and rulings run in threads; each statement is a step.          *)
(***************************************************************************)
EXTENDS Merchants

CONSTANTS
  Calculators, \* threads that may be valuing referrals: the loop, a route
  Loop         \* the one of them that is the timer

\* The state some runs begin with needs two people and an application's details.
ASSUME BegunAssumption ==
  (\E l \in Starts : l.begun)
    => /\ \E n \in Nidas, p \in Phones : TRUE
       /\ \E a, b \in Users : a # b

VARIABLES
  refs,     \* Seq(Referral)    merchant_referrals
  comms,    \* Seq(Commission)  referral_commissions
  issued,   \* merchants with a referral code
  disabled, \* those whose code is switched off
  coded,    \* <<business, referrer>>: signed up with a code, not captured yet
  calc      \* [Calculators -> Calculation]

referralVars == <<refs, comms, issued, disabled, coded, calc>>
vars == <<merchantVars, referralVars>>

RefStatuses == {"pending_approval", "active", "qualified", "expired", "commission_pending",
                "commission_approved", "commission_rejected", "commission_paid", "fraud_hold"}
CommStatuses == {"accruing", "below_threshold", "pending_review", "cancelled",
                 "approved", "rejected", "paid"}
Mutable == {"accruing", "below_threshold", "pending_review"}
Ruled == {"approved", "rejected", "paid"}
\* What each ruling makes of the referral.
RuledAs == [approved |-> "commission_approved", rejected |-> "commission_rejected",
            paid |-> "commission_paid"]

\* volume: 1 reaches the qualification threshold, 2 the minimum payout.
\* The statuses that wait for a valuation, whatever a sweep selects.
OpenStates == {"active", "qualified", "commission_pending", "pending_approval"}
Threshold == 1
MinimumPayout == 2
Referral == [referrer : Nat, referred : Nat, status : RefStatuses,
             started : BOOLEAN, over : BOOLEAN, volume : 0 .. 2]
Commission == [ref : Nat, status : CommStatuses, amount : 0 .. 2]

\* todo: the rows a sweep read and has not valued; ref, seen: the one at hand
\* and its status as read; comm: its commission as read, 0 if none; verdict,
\* amount, qualified, over: what was calculated.
NoCalc == [at |-> "idle", todo |-> {}, ref |-> 0, seen |-> "", comm |-> 0, verdict |-> "",
           amount |-> 0, qualified |-> FALSE, over |-> FALSE]
-----------------------------------------------------------------------------
(***************************************************************************)
(* Codes and the capture of one at sign-up.                                *)
(***************************************************************************)
Trading(m) == merchants[m].status = "active"

IssueReferralCode(m) ==
  /\ Spend("codes") /\ m \notin issued /\ Trading(m)
  /\ issued' = issued \cup {m}
  /\ UNCHANGED <<merchants, members, account, verified, work, refs, comms, disabled, coded, calc>>

SetReferralCodeStatus(m) ==
  /\ Spend("codes") /\ m \in issued
  /\ disabled' = IF m \in disabled THEN disabled \ {m} ELSE disabled \cup {m}
  /\ UNCHANGED <<merchants, members, account, verified, work, refs, comms, issued, coded, calc>>

\* Sign-up with or without a code.  The upload of a certificate is awaited
\* between the business and the capture of the code.
MerchantSignup(u) ==
  /\ SignupMerchant(u)
  /\ \E r \in {0} \cup DOMAIN merchants :
       coded' = IF r # 0 /\ Len(merchants') > Len(merchants)
                         /\ merchants'[Len(merchants')].review # "NONE"
                THEN coded \cup {<<Len(merchants'), r>>} ELSE coded
  /\ UNCHANGED <<refs, comms, issued, disabled, calc>>

CaptureReferral(m, r) ==
  /\ <<m, r>> \in coded
  /\ coded' = coded \ {<<m, r>>}
  /\ refs' = IF /\ r \in issued \ disabled /\ Trading(r) /\ r # m
                /\ \A i \in DOMAIN refs : refs[i].referred # m
             THEN Append(refs, [referrer |-> r, referred |-> m, status |-> "pending_approval",
                                started |-> FALSE, over |-> FALSE, volume |-> 0])
             ELSE refs
  /\ UNCHANGED <<merchantVars, comms, issued, disabled, calc>>
-----------------------------------------------------------------------------
(***************************************************************************)
(* The window: opened by an approval that finds it closed; it ends with     *)
(* time.  Payments in it, and their reversals, come from outside.           *)
(***************************************************************************)
ReadReferral(t) ==
  /\ At(t, "period")
  /\ LET open == {i \in DOMAIN refs : refs[i].referred = work[t].row /\ ~refs[i].started}
     IN  work' = [work EXCEPT ![t] = IF open = {} THEN NoWork
                    ELSE [NoWork EXCEPT !.at = "start", !.row = Min(open)]]
  /\ UNCHANGED <<merchants, members, account, verified, left, referralVars>>

StartReferralPeriod(t) ==
  /\ At(t, "start")
  /\ refs' = [refs EXCEPT ![work[t].row].started = TRUE, ![work[t].row].status = "active"]
  /\ Done(t)
  /\ UNCHANGED <<merchants, members, account, verified, left, comms, issued, disabled, coded, calc>>

EndPeriod(i) ==
  /\ refs[i].started /\ ~refs[i].over
  /\ refs' = [refs EXCEPT ![i].over = TRUE]
  /\ UNCHANGED <<merchantVars, comms, issued, disabled, coded, calc>>

Trade(i) ==
  /\ Spend("trades") /\ refs[i].started
  /\ \E v \in 0 .. 2 :
       /\ v > refs[i].volume => Trading(refs[i].referred) /\ ~refs[i].over
       /\ v # refs[i].volume
       /\ refs' = [refs EXCEPT ![i].volume = v]
  /\ UNCHANGED <<merchants, members, account, verified, work, comms, issued, disabled, coded, calc>>
-----------------------------------------------------------------------------
(***************************************************************************)
(* A fraud hold is written over whatever the status is; a release reads,    *)
(* then writes.                                                            *)
(***************************************************************************)
SetFraudHold(i) ==
  /\ Spend("holds")
  /\ refs' = [refs EXCEPT ![i].status = "fraud_hold"]
  /\ UNCHANGED <<merchants, members, account, verified, work, comms, issued, disabled, coded, calc>>

ReadHold(t) ==
  /\ Begins(t)
  /\ \E i \in DOMAIN refs :
       /\ refs[i].status = "fraud_hold"
       /\ work' = [work EXCEPT ![t] = [NoWork EXCEPT !.at = "release", !.row = i,
                     !.to = IF refs[i].started THEN "active" ELSE "pending_approval"]]
  /\ UNCHANGED <<merchants, members, account, verified, left, referralVars>>

ReleaseHold(t) ==
  /\ At(t, "release")
  /\ refs' = [refs EXCEPT ![work[t].row].status = work[t].to]
  /\ Done(t)
  /\ UNCHANGED <<merchants, members, account, verified, left, comms, issued, disabled, coded, calc>>
-----------------------------------------------------------------------------
(***************************************************************************)
(* Valuation.                                                              *)
(***************************************************************************)
\* A slip: the list of what is open is not extended with the later statuses.
OpenStatusesEarly == {"active", "pending_approval"}
OpenStatuses == {"active", "qualified", "commission_pending", "pending_approval"}

\* The rows a sweep reads at its start.
OpenReferrals == {[i |-> i, status |-> refs[i].status, started |-> refs[i].started] :
                  i \in {k \in DOMAIN refs : refs[k].status \in OpenStatuses}}

RecalculateOpenReferrals(c) ==
  /\ c = Loop /\ calc[c] = NoCalc
  /\ OpenReferrals # {}
  /\ calc' = [calc EXCEPT ![c].at = "next", ![c].todo = OpenReferrals]
  /\ UNCHANGED <<merchantVars, refs, comms, issued, disabled, coded>>

\* POST /admin/referrals/{id}/recalculate: of any status.
RecalculateOne(c) ==
  /\ c # Loop /\ Spend("recalcs") /\ calc[c] = NoCalc
  /\ \E i \in DOMAIN refs :
       calc' = [calc EXCEPT ![c].at = "next",
                 ![c].todo = {[i |-> i, status |-> refs[i].status, started |-> refs[i].started]}]
  /\ UNCHANGED <<merchants, members, account, verified, work, refs, comms, issued, disabled, coded>>

\* By the referral's status as read, the rest as it is now.
Verdict(i, status) ==
  LET qualified == refs[i].volume >= Threshold
  IN  CASE status = "fraud_hold" \/ ~Trading(refs[i].referrer) \/ ~Trading(refs[i].referred)
             -> "cancelled"
        [] OTHER ->
             IF qualified /\ refs[i].volume < MinimumPayout THEN "below_threshold"
             ELSE IF ~refs[i].over THEN "accruing"
             ELSE IF qualified THEN "pending_review" ELSE "below_threshold"

NextReferral(todo) == IF todo = {} THEN NoCalc ELSE [NoCalc EXCEPT !.at = "next", !.todo = todo]

\* calculate_referral_commission up to its first write: a referral without a
\* window, or with a commission that is not open any more, is left alone.
Calculate(c) ==
  /\ calc[c].at = "next"
  /\ LET r    == CHOOSE x \in calc[c].todo : \A y \in calc[c].todo : x.i <= y.i
         of   == {j \in DOMAIN comms : comms[j].ref = r.i}
         rest == calc[c].todo \ {r}
     IN  calc' = [calc EXCEPT ![c] =
           IF ~r.started \/ \E j \in of : comms[j].status \notin Mutable THEN NextReferral(rest)
           ELSE [at |-> "write", todo |-> rest, ref |-> r.i, seen |-> r.status,
                 comm |-> IF of = {} THEN 0 ELSE Min(of),
                 verdict |-> Verdict(r.i, r.status),
                 amount |-> IF refs[r.i].volume >= Threshold THEN refs[r.i].volume ELSE 0,
                 qualified |-> refs[r.i].volume >= Threshold, over |-> refs[r.i].over]]
  /\ UNCHANGED <<merchantVars, refs, comms, issued, disabled, coded>>

\* The unique index referral_commissions_referral_key; and without it.
MayInsertAlways(i) == TRUE
MayInsert(i) == \A j \in DOMAIN comms : comms[j].ref # i

\* Its write: an update of the row it read, or an insert, which may be refused.
CalculateReferralCommission(c) ==
  /\ calc[c].at = "write"
  /\ LET w == calc[c]
         lost == w.comm = 0 /\ ~MayInsert(w.ref)
     IN  /\ comms' = IF lost THEN comms
                     ELSE IF w.comm = 0
                     THEN Append(comms, [ref |-> w.ref, status |-> w.verdict, amount |-> w.amount])
                     ELSE [comms EXCEPT ![w.comm].status = w.verdict, ![w.comm].amount = w.amount]
         /\ calc' = [calc EXCEPT ![c] = IF lost THEN NextReferral(w.todo)
                                        ELSE [w EXCEPT !.at = "sync"]]
  /\ UNCHANGED <<merchantVars, refs, issued, disabled, coded>>

SyncReferralStatus(c) ==
  /\ calc[c].at = "sync"
  /\ LET w == calc[c]
         to == IF w.verdict = "pending_review" THEN "commission_pending"
               ELSE IF w.qualified THEN "qualified"
               ELSE IF w.over THEN "expired" ELSE "active"
     IN  /\ refs' = IF w.seen \in {"fraud_hold", to} THEN refs
                    ELSE [refs EXCEPT ![w.ref].status = to]
         /\ calc' = [calc EXCEPT ![c] = NextReferral(w.todo)]
  /\ UNCHANGED <<merchantVars, comms, issued, disabled, coded>>
-----------------------------------------------------------------------------
(***************************************************************************)
(* Rulings: read the commission, write it, write its referral.              *)
(***************************************************************************)
MayRule(j, to) ==
  CASE to = "approved" -> comms[j].status = "pending_review" /\ comms[j].amount >= MinimumPayout
    [] to = "rejected" -> comms[j].status \notin {"paid", "rejected"}
    [] to = "paid"     -> comms[j].status = "approved"

ReadCommission(t) ==
  /\ Begins(t) /\ Spend("rulings")
  /\ \E j \in DOMAIN comms, to \in Ruled :
       /\ MayRule(j, to)
       /\ work' = [work EXCEPT ![t] = [NoWork EXCEPT !.at = "ruling", !.row = j, !.to = to]]
  /\ UNCHANGED <<merchants, members, account, verified, referralVars>>

RuleCommission(t) ==
  /\ At(t, "ruling")
  /\ comms' = [comms EXCEPT ![work[t].row].status = work[t].to]
  /\ To(t, "ruled")
  /\ UNCHANGED <<merchants, members, account, verified, left, refs, issued, disabled, coded, calc>>

RuleReferral(t) ==
  /\ At(t, "ruled")
  /\ refs' = [refs EXCEPT ![comms[work[t].row].ref].status = RuledAs[work[t].to]]
  /\ Done(t)
  /\ UNCHANGED <<merchants, members, account, verified, left, comms, issued, disabled, coded, calc>>
-----------------------------------------------------------------------------
\* `begun`: a business trades and has a code, another signed up with it and
\* waits for its review.
Begun ==
  LET a == CHOOSE u \in Users : TRUE
      b == CHOOSE u \in Users \ {a} : TRUE
      m(u, status, review) ==
        [applicant |-> u, nida |-> CHOOSE n \in Nidas : TRUE, phone |-> CHOOSE p \in Phones : TRUE,
         status |-> status, review |-> review]
  IN  /\ merchants = <<m(a, "active", "VERIFIED"), m(b, "pending", "PENDING_VERIFICATION")>>
      /\ members = <<NewOwner(a, 1), NewOwner(b, 2)>>
      /\ account = [u \in Users |-> IF u \in {a, b} THEN "confirmed" ELSE "none"]
      /\ verified = {a, b}
      /\ work = [t \in Threads |-> NoWork]
      /\ issued = {1}
      /\ refs = <<[referrer |-> 1, referred |-> 2, status |-> "pending_approval",
                   started |-> FALSE, over |-> FALSE, volume |-> 0]>>

Init ==
  /\ left \in Starts
  /\ IF left.begun THEN Begun ELSE MerchantsInit /\ issued = {} /\ refs = <<>>
  /\ comms = <<>> /\ disabled = {} /\ coded = {} /\ calc = [c \in Calculators |-> NoCalc]

OfCalculator(c) ==
  \/ RecalculateOpenReferrals(c) \/ Calculate(c)
  \/ CalculateReferralCommission(c) \/ SyncReferralStatus(c)

Next ==
  \/ MerchantsNext /\ UNCHANGED referralVars
  \/ \E u \in Users : MerchantSignup(u)
  \/ \E c \in coded : CaptureReferral(c[1], c[2])
  \/ \E m \in DOMAIN merchants : IssueReferralCode(m) \/ SetReferralCodeStatus(m)
  \/ \E t \in Threads :
       \/ ReadReferral(t) \/ StartReferralPeriod(t) \/ ReadHold(t) \/ ReleaseHold(t)
       \/ ReadCommission(t) \/ RuleCommission(t) \/ RuleReferral(t)
  \/ \E i \in DOMAIN refs : EndPeriod(i) \/ Trade(i) \/ SetFraudHold(i)
  \/ \E c \in Calculators : OfCalculator(c) \/ RecalculateOne(c)

\* The timer sweeps again and again and each sweep gets through its list.
Spec == Init /\ [][Next]_vars /\ \A c \in Calculators : WF_vars(OfCalculator(c))
-----------------------------------------------------------------------------
(***************************************************************************)
(* Safety, and what the valuation promises.                                *)
(***************************************************************************)
\* One referral, one commission row: a timer and an administrator valuing the
\* same referral at the same moment cannot make two payable records of it.
OneCommission == \A j, k \in DOMAIN comms : comms[j].ref = comms[k].ref => j = k

\* Once a Super Admin has approved, rejected or paid a commission, no valuation
\* that was under way moves it back.
RuledIsHistory ==
  [][\A j \in DOMAIN comms : comms[j].status \in Ruled => comms'[j].status \notin Mutable]_vars

\* A referral on hold cannot be approved for payout.
HeldIsNotApproved ==
  [][\A j \in DOMAIN comms :
       (comms[j].status # "approved" /\ comms'[j].status = "approved")
       => refs[comms[j].ref].status # "fraud_hold"]_vars

WindowOver(i) == i \in DOMAIN refs /\ refs[i].over
Valued(i) ==
  i \in DOMAIN refs =>
    (refs[i].status \in OpenStates =>
      \E j \in DOMAIN comms : comms[j].ref = i /\ comms[j].status # "accruing")

\* When the window of a referral has ended, its commission does not stay
\* "accruing" for ever: a sweep settles it, or the referral is held, expired or
\* ruled on.
WindowIsValued == \A i \in 1 .. 2 : WindowOver(i) ~> Valued(i)
=============================================================================
