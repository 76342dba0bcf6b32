------------------------------ MODULE Publications ------------------------------
(***************************************************************************)
(* What a publication is to learners: the units it creates and deletes and *)
(* the recognitions it declares.  CurriculumProposals shows that accepted  *)
(* proposals are one line, so they are a sequence here: a proposal is its  *)
(* position, the head is the last one, "is an ancestor of" is "<".         *)
(***************************************************************************)
EXTENDS Integers, Sequences, FiniteSets

CONSTANT Unit

Rule == [sources : (SUBSET Unit) \ {{}}, targets : (SUBSET Unit) \ {{}}]

Publication == [created : SUBSET Unit, deleted : SUBSET Unit, rules : SUBSET Rule]

\* The identities ever created by the publications s, and the published units.
CreatedBy(s) == UNION {s[k].created : k \in DOMAIN s}
PublishedBy(s) == CreatedBy(s) \ UNION {s[k].deleted : k \in DOMAIN s}

\* validateRecognition, and what creations and deletions require: P may be
\* accepted after the publications s.
CanFollow(s, P) ==
    /\ P.created \cap CreatedBy(s) = {}
    /\ P.deleted \subseteq PublishedBy(s)
    /\ \A x \in P.rules :
          /\ x.sources \subseteq PublishedBy(s)
          /\ x.targets \subseteq (PublishedBy(s) \cup P.created) \ P.deleted

================================================================================
