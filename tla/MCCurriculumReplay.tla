-------------------------- MODULE MCCurriculumReplay --------------------------
(***************************************************************************)
(* Rows for CurriculumReplay: two published units, one of which requires   *)
(* the other, and a third that proposals may create.                       *)
(***************************************************************************)
EXTENDS CurriculumGraph

Named(n) == [name |-> n, content |-> "a"]

PairRows == <<Creation(2, Named("a")), Addition(2, 1), Creation(1, Named("a"))>>

Pairs == {<<1, 2>>, <<2, 1>>, <<1, 3>>, <<3, 1>>, <<3, 2>>}

SomeRows ==
    {Creation(3, Named("b"))}
      \cup {Edit("name", 1, "b"), Edit("name", 1, "a"), Edit("content", 1, "b"),
            Edit("content", 3, "b")}
      \cup {Addition(d[1], d[2]) : d \in Pairs}
      \cup {Removal(d[1], d[2]) : d \in {<<2, 1>>, <<3, 1>>}}
      \cup {Deletion(u) : u \in 1..3}
      \cup {Recognition({1}, {2}, 1), Recognition({1}, {2}, 2), Recognition({2}, {3}, 1)}

================================================================================
