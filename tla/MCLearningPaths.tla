---------------------------- MODULE MCLearningPaths ----------------------------
(***************************************************************************)
(* Learners and their paths for TLC, in two scenarios of one model:        *)
(* "paths", requests and acceptances that meet on the rows of a path, and  *)
(* "study", a learner who asks what to learn next while acceptances turn   *)
(* the dependencies around.  The configuration gives the widest constants. *)
(***************************************************************************)
EXTENDS StudyGuide

CONSTANTS a, b, c

VARIABLE scenario

To(S, T) == [sources |-> S, targets |-> T]

First == [created |-> {a, b}, deleted |-> {}, rules |-> {}]

\* A new unit follows from another, or two are merged into it and one goes.
Split == [created |-> {c}, deleted |-> {}, rules |-> {To({a}, {b}), To({b}, {c})}]
Merge == [created |-> {c}, deleted |-> {a}, rules |-> {To({a}, {c}), To({b}, {c})}]
Splits == {Split, Merge}

\* Units and dependencies go, and what is left depends the other way round.
Retire == [created |-> {}, deleted |-> {a}, rules |-> {To({a}, {b})}]

Orders ==
    [P \in {First, Split, Merge, Retire} |->
        CASE P = First -> {<<b, a>>}
          [] P = Split -> {<<c, b>>, <<b, a>>}
          [] OTHER -> {<<b, c>>}]

AllPages == DOMAIN Statements

Study == INSTANCE StudyGuide
    WITH Requests <- {}, Publishable <- {Split, Merge, Retire}, MaxPublications <- 3,
         Pages <- AllPages

\* The learner has listed a path of units that are published.
Listed ==
    /\ paths = Path
    /\ \E S \in (SUBSET Initial.created) \ {{}} :
          rows = paths \X S /\ listed = paths \X S \X {1}
    /\ accepted = <<Initial>>
    /\ acceptance = Closed
    /\ request = [r \in Requests |-> Idle]
    /\ completed = {}
    /\ reading = [x \in Reader |-> NotReading]

ScenarioInit ==
    \/ scenario = "paths" /\ StudyInit
    \/ scenario = "study" /\ Listed

ScenarioNext ==
    /\ \/ scenario = "paths" /\ Next /\ UNCHANGED <<completed, reading>>
       \/ scenario = "study" /\ Study!StudyNext
    /\ UNCHANGED scenario

ScenarioSpec ==
    ScenarioInit /\ [][ScenarioNext]_<<studyVars, scenario>> /\ Fairness

================================================================================
