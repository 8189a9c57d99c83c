--------------------------- MODULE MCCollections ---------------------------
(***************************************************************************)
(* Constants for the runs of Collections.                                  *)
(***************************************************************************)
EXTENDS Collections, TLC

CONSTANTS pA, r1, r2, r3

OneLoop == (r1 :> pA) @@ (r2 :> pA) @@ (r3 :> pA)

\* A customer-facing slot, the scheduled task, and one review in a thread.
AllOps == (r1 :> {"push", "linkpush", "refresh", "callback"})
            @@ (r2 :> {"sweep", "expire", "recheck"})
            @@ (r3 :> {"review"})

\* A customer who uses one link again after the first push expired.
LinkOps == (r1 :> {"linkpush", "callback"}) @@ (r2 :> {"sweep", "expire"}) @@ (r3 :> {})

ClearAnswers == {"successful", "failed", "processing", "error"}
=============================================================================
