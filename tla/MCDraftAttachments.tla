------------------------- MODULE MCDraftAttachments -------------------------
(* Small instances of DraftAttachments for TLC. *)
EXTENDS DraftAttachments, TLC

CONSTANTS small, other, large

\* Contents of two sizes, and two contents that fit the same reservation.
SizeOfThree == (small :> 1) @@ (other :> 1) @@ (large :> 2)

Symmetry == Permutations(Attachments) \cup Permutations(Uploads)
              \cup Permutations(Operations) \cup Permutations(Editors)
=============================================================================
