------------------------- MODULE MCPublicationLocking -------------------------
(***************************************************************************)
(* PublicationLocking with three proposals: a draft with a change of two   *)
(* units, and two that affect one of these units each.                     *)
(***************************************************************************)
EXTENDS PublicationLocking, TLC

CONSTANTS wide, first, second

Overlapping == wide :> {{"u", "v"}} @@ first :> {{"u"}} @@ second :> {{"v"}}

\* A draft, a proposal under review, and one that is not yet created.
Begun == {wide :> "draft" @@ first :> "submitted" @@ second :> "unused"}

\* Two drafts and a proposal under review.
TwoDrafts == {wide :> "draft" @@ first :> "submitted" @@ second :> "draft"}

Both == Begun \cup TwoDrafts

================================================================================
