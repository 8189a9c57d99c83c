------------------------------ MODULE Merchants ------------------------------
(***************************************************************************)
(* Businesses, their applications and their people: services/onboarding.py, *)
(* duplicate_signup.py, merchant_email_correction.py, routers/merchants.py, *)
(* and the team routes of routers/merchant_portal.py.                      *)
(*                                                                         *)
(* Sign-up is a coroutine with no await between its check for a duplicate   *)
(* and its last insert, so it is one step.  Every other route here is a    *)
(* plain function on a threadpool: its statements are steps.  Module        *)
(* Referrals completes the specification with what sign-up and approval do  *)
(* for the referral programme.                                             *)
(***************************************************************************)
EXTENDS Naturals, Sequences, FiniteSets, FiniteSetsExt

CONSTANTS
  Users,    \* people; each has one address
  Nidas,    \* national identity numbers on applications
  Phones,   \* contact phones
  Threads,  \* threadpool requests that can be in progress at once
  Starts,   \* what may happen: a set of records of budgets
  Faults    \* subset of {"stop", "lookup"}: the process stops between two
            \* statements; the search for a duplicate cannot be made

VARIABLES
  merchants, \* Seq(Merchant)  merchants with their onboarding_submissions
  members,   \* Seq(Member)    merchant_users, oldest first
  account,   \* [Users -> AccountStates]  the user in Supabase Auth
  verified,  \* users who ever confirmed an address
  work,      \* [Threads -> Work]
  left       \* what of the budget remains

merchantVars == <<merchants, members, account, verified, work, left>>

AccountStates == {"none", "unconfirmed", "confirmed"}
Reviews == {"NONE", "PENDING_VERIFICATION", "VERIFIED", "REJECTED", "INFO_REQUESTED"}
Resubmittable == {"REJECTED", "INFO_REQUESTED"}
Roles == {"MERCHANT_ADMIN", "MERCHANT_STAFF"}

\* review: the submission's, "NONE" while there is none; applicant: who applied.
Merchant == [applicant : Users, nida : Nidas, phone : Phones,
             status : {"pending", "active", "suspended"}, review : Reviews]
Member == [m : Nat, user : Users, role : Roles, status : {"invited", "active", "suspended"}]

\* row: the merchant or membership a request acts on; to, nida, phone: what it will write.
NoWork == [at |-> "idle", row |-> 0, user |-> "", to |-> "", nida |-> "", phone |-> ""]
Places == {"idle", "membership", "submission", "profile", "resubmit", "activate",
           "suspend", "member", "period", "start", "release", "ruling", "ruled"}

Begins(t) == work[t] = NoWork
At(t, p) == work[t].at = p
Done(t) == work' = [work EXCEPT ![t] = NoWork]
To(t, p) == work' = [work EXCEPT ![t].at = p]
Spend(what) == left[what] > 0 /\ left' = [left EXCEPT ![what] = @ - 1]
-----------------------------------------------------------------------------
(***************************************************************************)
(* Memberships.                                                            *)
(***************************************************************************)
Active(m) == {i \in DOMAIN members : members[i].m = m /\ members[i].status = "active"}
ActiveAdmins(m) == {i \in Active(m) : members[i].role = "MERCHANT_ADMIN"}

\* merchant_email_correction._owner_user_id and duplicate_signup agree on who
\* owns a business: its oldest active administrator, else its oldest member.
Owner(m) == members[Min(IF ActiveAdmins(m) # {} THEN ActiveAdmins(m) ELSE Active(m))].user

\* _find_active_membership: the first active row of a user.
ActiveRows(u) == {i \in DOMAIN members : members[i].user = u /\ members[i].status = "active"}
OwnMerchant(u) == members[Min(ActiveRows(u))].m

\* Someone at work in the portal as an administrator of merchant m.
MayManage(u, m) ==
  /\ account[u] = "confirmed" /\ ActiveRows(u) # {} /\ OwnMerchant(u) = m
  /\ members[Min(ActiveRows(u))].role = "MERCHANT_ADMIN"
  /\ merchants[m].status # "suspended"
-----------------------------------------------------------------------------
(***************************************************************************)
(* Sign-up.                                                                *)
(***************************************************************************)
OwnerNeverVerified(m) == Active(m) # {} /\ account[Owner(m)] # "confirmed"

\* A slip that would pass a test with one earlier application: only the oldest
\* of the matches is looked at.
ExistingApplicationsOldest(nida, phone) ==
  LET matches == {m \in DOMAIN merchants :
                    \/ merchants[m].phone = phone
                    \/ merchants[m].review # "NONE" /\ merchants[m].nida = nida}
  IN  {m \in matches : m = Min(matches) /\ OwnerNeverVerified(m)}

ExistingApplications(nida, phone) ==
  {m \in DOMAIN merchants :
     /\ merchants[m].phone = phone \/ (merchants[m].review # "NONE" /\ merchants[m].nida = nida)
     /\ OwnerNeverVerified(m)}

NewMerchant(u, nida, phone) ==
  [applicant |-> u, nida |-> nida, phone |-> phone, status |-> "pending", review |-> "NONE"]
NewOwner(u, m) == [m |-> m, user |-> u, role |-> "MERCHANT_ADMIN", status |-> "active"]

\* POST /onboarding/signup.  business_phone is stored, contact_phone is checked.
\* `written`: 3 when all of merchant, membership and submission are inserted.
SignupMerchant(u) ==
  /\ Spend("signups")
  /\ \E nida \in Nidas, phone \in Phones, stored \in Phones,
        written \in {3} \cup (IF "stop" \in Faults THEN 0 .. 2 ELSE {}),
        found \in {TRUE} \cup (IF "lookup" \in Faults THEN {FALSE} ELSE {}) :
       /\ found => ExistingApplications(nida, phone) = {}
       /\ account[u] = "none"
       /\ merchants' = IF written = 0 THEN merchants
            ELSE Append(merchants, [NewMerchant(u, nida, stored) EXCEPT
                                      !.review = IF written = 3 THEN "PENDING_VERIFICATION" ELSE @])
       /\ members' = IF written < 2 THEN members
                     ELSE Append(members, NewOwner(u, Len(merchants) + 1))
  /\ account' = [account EXCEPT ![u] = "unconfirmed"]
  /\ UNCHANGED <<verified, work>>

\* External: someone follows the link in an email.
ConfirmEmail(u) ==
  /\ account[u] = "unconfirmed"
  /\ account' = [account EXCEPT ![u] = "confirmed"]
  /\ verified' = verified \cup {u}
  /\ UNCHANGED <<merchants, members, work, left>>

\* An administrator replaces the owner's address; it must be confirmed again.
CorrectMerchantContactEmail(m) ==
  /\ Spend("corrections")
  /\ Active(m) # {}
  /\ account' = [account EXCEPT ![Owner(m)] = "unconfirmed"]
  /\ UNCHANGED <<merchants, members, verified, work>>
-----------------------------------------------------------------------------
(***************************************************************************)
(* POST /onboarding/merchant-account, for someone who is signed in.         *)
(***************************************************************************)
\* A new business: merchant, then membership, then submission ...
InsertMerchant(t) ==
  /\ Begins(t) /\ Spend("accounts")
  /\ \E u \in Users, nida \in Nidas, phone \in Phones :
       /\ account[u] = "confirmed" /\ ActiveRows(u) = {}
       /\ merchants' = Append(merchants, NewMerchant(u, nida, phone))
       /\ work' = [work EXCEPT ![t] = [NoWork EXCEPT !.at = "membership", !.user = u,
                                                     !.row = Len(merchants) + 1]]
  /\ UNCHANGED <<members, account, verified>>

InsertMembership(t) ==
  /\ At(t, "membership")
  /\ members' = Append(members, NewOwner(work[t].user, work[t].row))
  /\ To(t, "submission")
  /\ UNCHANGED <<merchants, account, verified, left>>

InsertSubmission(t) ==
  /\ At(t, "submission")
  /\ merchants' = [merchants EXCEPT ![work[t].row].review = "PENDING_VERIFICATION"]
  /\ Done(t)
  /\ UNCHANGED <<members, account, verified, left>>

\* ... or the same business again, when it was refused or asked for more.
Resubmit(t) ==
  /\ Begins(t) /\ Spend("accounts")
  /\ \E u \in Users, nida \in Nidas, phone \in Phones :
       /\ account[u] = "confirmed" /\ ActiveRows(u) # {}
       /\ merchants[OwnMerchant(u)].review \in Resubmittable
       /\ work' = [work EXCEPT ![t] = [NoWork EXCEPT !.at = "profile", !.row = OwnMerchant(u),
                                                     !.nida = nida, !.phone = phone]]
  /\ UNCHANGED <<merchants, members, account, verified>>

UpdateMerchantRow(t) ==
  /\ At(t, "profile")
  /\ merchants' = [merchants EXCEPT ![work[t].row].phone = work[t].phone]
  /\ To(t, "resubmit")
  /\ UNCHANGED <<members, account, verified, left>>

UpdateSubmission(t) ==
  /\ At(t, "resubmit")
  /\ merchants' = [merchants EXCEPT ![work[t].row].nida = work[t].nida,
                                    ![work[t].row].review = "PENDING_VERIFICATION"]
  /\ Done(t)
  /\ UNCHANGED <<members, account, verified, left>>
-----------------------------------------------------------------------------
(***************************************************************************)
(* Review by a super administrator.  No action looks at the state it finds. *)
(***************************************************************************)
\* _set_review_status, and the first write of an approval; the second follows.
SetReviewStatus(t) ==
  /\ Begins(t) /\ Spend("reviews")
  /\ \E m \in DOMAIN merchants, review \in {"VERIFIED", "REJECTED", "INFO_REQUESTED"} :
       /\ merchants[m].review # "NONE"
       /\ merchants' = [merchants EXCEPT ![m].review = review]
       /\ work' = [work EXCEPT ![t] =
            IF review = "INFO_REQUESTED" THEN NoWork
            ELSE [NoWork EXCEPT !.row = m,
                    !.at = IF review = "VERIFIED" THEN "activate" ELSE "suspend"]]
  /\ UNCHANGED <<members, account, verified>>

ApproveOnboardingSubmission(t) ==
  /\ At(t, "activate")
  /\ merchants' = [merchants EXCEPT ![work[t].row].status = "active"]
  /\ To(t, "period")
  /\ UNCHANGED <<members, account, verified, left>>

RejectOnboardingSubmission(t) ==
  /\ At(t, "suspend")
  /\ merchants' = [merchants EXCEPT ![work[t].row].status = "suspended"]
  /\ Done(t)
  /\ UNCHANGED <<members, account, verified, left>>

\* PATCH /merchants/{id}/status: suspend, or open again.
UpdateMerchantStatus(m) ==
  /\ Spend("reviews")
  /\ \E status \in {"active", "suspended"} : merchants' = [merchants EXCEPT ![m].status = status]
  /\ UNCHANGED <<members, account, verified, work>>
-----------------------------------------------------------------------------
(***************************************************************************)
(* The team.                                                               *)
(***************************************************************************)
\* generate_link(type=invite) creates the user, and refuses one that exists.
CreateMyMerchantUser(u) ==
  /\ Spend("invites")
  /\ account[u] = "none"
  /\ \E by \in Users, m \in DOMAIN merchants, role \in Roles :
       /\ MayManage(by, m)
       /\ members' = Append(members, [m |-> m, user |-> u, role |-> role, status |-> "invited"])
  /\ account' = [account EXCEPT ![u] = "unconfirmed"]
  /\ UNCHANGED <<merchants, verified, work>>

\* The newest of one's invited and active rows, if it is an invitation, is
\* read; the write that follows asks nothing of the row.
AcceptMyMerchantInvite(t) ==
  /\ Begins(t)
  /\ \E u \in Users :
       LET mine == {i \in DOMAIN members : members[i].user = u
                                           /\ members[i].status \in {"invited", "active"}}
       IN  /\ account[u] = "confirmed" /\ mine # {}
           /\ members[Max(mine)].status = "invited"
           /\ work' = [work EXCEPT ![t] = [NoWork EXCEPT !.at = "member", !.row = Max(mine),
                                                         !.to = "active"]]
  /\ UNCHANGED <<merchants, members, account, verified, left>>

\* PATCH /users/{id} and /users/{id}/deactivate: never one's own row; a status or
\* a role.
UpdateMyMerchantUser(t) ==
  /\ Begins(t) /\ Spend("edits")
  /\ \E i \in DOMAIN members, by \in Users, to \in {"active", "suspended"} \cup Roles :
       /\ MayManage(by, members[i].m) /\ members[i].user # by
       /\ work' = [work EXCEPT ![t] = [NoWork EXCEPT !.at = "member", !.row = i, !.to = to]]
  /\ UNCHANGED <<merchants, members, account, verified>>

WriteMember(t) ==
  /\ At(t, "member")
  /\ members' = IF work[t].to \in Roles
                THEN [members EXCEPT ![work[t].row].role = work[t].to]
                ELSE [members EXCEPT ![work[t].row].status = work[t].to]
  /\ Done(t)
  /\ UNCHANGED <<merchants, account, verified, left>>
-----------------------------------------------------------------------------
\* The process stops: what is written stays written.
Stop(t) ==
  /\ "stop" \in Faults /\ Spend("stops") /\ ~Begins(t)
  /\ Done(t)
  /\ UNCHANGED <<merchants, members, account, verified>>

MerchantsInit ==
  /\ merchants = <<>> /\ members = <<>>
  /\ account = [u \in Users |-> "none"] /\ verified = {}
  /\ work = [t \in Threads |-> NoWork]
  /\ left \in Starts

OfThread(t) ==
  \/ InsertMerchant(t) \/ InsertMembership(t) \/ InsertSubmission(t)
  \/ Resubmit(t) \/ UpdateMerchantRow(t) \/ UpdateSubmission(t)
  \/ SetReviewStatus(t) \/ ApproveOnboardingSubmission(t) \/ RejectOnboardingSubmission(t)
  \/ AcceptMyMerchantInvite(t) \/ UpdateMyMerchantUser(t) \/ WriteMember(t) \/ Stop(t)

MerchantsNext ==
  \/ \E u \in Users : ConfirmEmail(u) \/ CreateMyMerchantUser(u)
  \/ \E m \in DOMAIN merchants : CorrectMerchantContactEmail(m) \/ UpdateMerchantStatus(m)
  \/ \E t \in Threads : OfThread(t)
-----------------------------------------------------------------------------
(***************************************************************************)
(* Safety.                                                                 *)
(***************************************************************************)
TypeOK ==
  /\ merchants \in Seq(Merchant) /\ members \in Seq(Member)
  /\ account \in [Users -> AccountStates] /\ verified \subseteq Users
  /\ \A t \in Threads : work[t].at \in Places

\* One person's identity never has two applications waiting on addresses that
\* nobody ever confirmed, whatever was signed up, confirmed, corrected, refused
\* and submitted again in between: the duplicate check of sign-up sees every
\* application whose owner is still unverified.
OneUnverifiedApplication ==
  \A m, n \in DOMAIN merchants :
    (m # n /\ merchants[m].review # "NONE" /\ merchants[n].review # "NONE"
       /\ merchants[m].nida = merchants[n].nida)
    => merchants[m].applicant \in verified \/ merchants[n].applicant \in verified

\* What get_own_merchant assumes: at most one active membership per user.
OneActiveMembership == \A u \in Users : Cardinality(ActiveRows(u)) <= 1
=============================================================================
