-------------------------- MODULE PublishedCurriculum --------------------------
(***************************************************************************)
(* What the publication of curriculum proposals promises to everything     *)
(* that reads the curriculum: one sound graph at a time, identified by the *)
(* accepted proposal that produced it; each publication extends the one    *)
(* before it by exactly one proposal that was not published before, and    *)
(* history is never rewritten.  The graph changes only by publication.     *)
(***************************************************************************)
EXTENDS CurriculumGraph

CONSTANTS Id,      \* identities of publications
          None     \* nothing published yet

VARIABLES head,     \* the current publication
          graph,    \* the current curriculum
          lineage   \* every publication so far

pvars == <<head, graph, lineage>>

\* A fresh installation, or one with a single publication.
Init ==
    /\ IsGraph(graph) /\ SoundGraph(graph)
    /\ \/ head = None /\ lineage = {} /\ graph.units = {}
       \/ head \in Id /\ lineage = {head}

Publish ==
    \E p \in Id \ lineage :
        /\ head' = p
        /\ lineage' = lineage \cup {p}
        /\ IsGraph(graph') /\ SoundGraph(graph')

Spec == Init /\ [][Publish]_pvars

================================================================================
