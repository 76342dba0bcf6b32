------------------------ MODULE MCCurriculumProposals ------------------------
(***************************************************************************)
(* Instances of CurriculumProposals for TLC: seeds, which are the changes  *)
(* of an accepted first proposal, and the symmetry of proposal identities. *)
(***************************************************************************)
EXTENDS CurriculumProposals, TLC

SameText == [name |-> "a", content |-> "a"]

\* n units with the dependencies deps.
SeedOf(n, deps) ==
    {Creation(u, SameText) : u \in 1..n} \cup {Addition(d[1], d[2]) : d \in deps}

NoSeed == {}
SoloSeed == SeedOf(1, {})
PairSeed == SeedOf(2, {<<2, 1>>})
ChainSeed == SeedOf(3, {<<2, 1>>, <<3, 2>>})
\* 1 depends on 2 and 3 on 4: two additions can join them into a cycle.
SplitSeed == SeedOf(4, {<<1, 2>>, <<3, 4>>})

ProposalSymmetry == Permutations(Proposals)

================================================================================
