--------------------------- MODULE MCLearningProgress ---------------------------
(***************************************************************************)
(* Instances of LearningProgress for TLC: the proposals that may be        *)
(* accepted, in any order that their units allow.                          *)
(***************************************************************************)
EXTENDS LearningProgress, TLC

CONSTANTS a, b, c

To(S, T) == [sources |-> S, targets |-> T]
Proposal(created, deleted, rules) ==
    [created |-> created, deleted |-> deleted, rules |-> rules]

\* The units, recognitions in a chain, in a circle, from two sources, and the
\* replacement of one unit by another.
Chains ==
    {Proposal({a, b, c}, {}, {}),
     Proposal({}, {}, {To({a}, {b}), To({b}, {c})}),
     Proposal({}, {}, {To({a, b}, {c}), To({c}, {a})}),
     Proposal({}, {a}, {To({a}, {b, c})})}

\* The same rules may be published again: two routes to one unit.
Routes ==
    {Proposal({a, b}, {}, {}),
     Proposal({}, {}, {To({a}, {b})}),
     Proposal({}, {}, {To({a}, {b}), To({b}, {a})})}

RequestSymmetry == Permutations(Requests)

================================================================================
