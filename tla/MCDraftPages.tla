----------------------------- MODULE MCDraftPages -----------------------------
(***************************************************************************)
(* DraftPages with the seeds of MCCurriculumProposals.                     *)
(***************************************************************************)
EXTENDS DraftPages, MCCurriculumProposals

================================================================================
