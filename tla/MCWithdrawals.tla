--------------------------- MODULE MCWithdrawals ---------------------------
(***************************************************************************)
(* Constants for the runs of Withdrawals.  Each run chooses how many event *)
(* loops there are and what each request slot may serve.                   *)
(***************************************************************************)
EXTENDS Withdrawals, TLC

CONSTANTS w1, w2, pA, pB, r1, r2, r3

OnePrice == (w1 :> 1)
TwoPrices == (w1 :> 1) @@ (w2 :> 1)
\* Out of 2: the wallet can bear w2, or w1 (even twice by mistake), not both.
UnequalPrices == (w1 :> 1) @@ (w2 :> 2)

OneLoop == (r1 :> pA) @@ (r2 :> pA) @@ (r3 :> pA)

\* Selcom answers at once: approvals, retries by one operator, rejections.
SyncOps == (r1 :> {"submit", "approve"}) @@ (r2 :> {"approve", "retry", "bounce"})
             @@ (r3 :> {"approve", "info", "reject"})
SyncAnswers == {"successful", "failed", "declined", "whitelist"}

\* Selcom settles later: two refreshers and callbacks, no retry.
AsyncOps == (r1 :> {"submit", "approve", "refresh"})
              @@ (r2 :> {"refresh", "callback", "bounce"})
              @@ (r3 :> {"refresh"})
AsyncAnswers == {"successful", "failed", "processing", "ambiguous",
                 "declined", "whitelist"}

\* An operator retries while the sweep runs.
RetryOps == (r1 :> {"submit", "approve"}) @@ (r2 :> {"retry"}) @@ (r3 :> {"refresh"})

\* A payout call that ends without an answer.
TimeoutAnswers == {"successful", "timeout"}

\* What the status query answers: with and without "ambiguous".
HonestQueries == {"successful", "failed", "processing", "ambiguous", "error"}
ClearQueries == HonestQueries \ {"ambiguous"}
=============================================================================
