-------------------------- MODULE MCCurriculumScenarios --------------------------
(***************************************************************************)
(* What the published curriculum is to those who write it, read it and     *)
(* learn from it, in one model: "replay", proposals that are written row   *)
(* by row and published; "interleaved", a learner's requests that overlap  *)
(* each other and acceptances; "chains", one transaction of the learner at *)
(* a time over chains and circles of three units; "pages", a reader of     *)
(* five graphs, whose neighbourhoods and searches are cut short by limits  *)
(* below those of the code; "merge", an author who merges two texts; and   *)
(* "panels", the panes of the proposals' page in windows of every width.   *)
(***************************************************************************)
EXTENDS MCLearningProgress

CONSTANTS Text, MaxUnit,    \* the graphs that proposals are about
          MaxRows, MaxTotal \* bounds: rows in one proposal, and in all after the first

VARIABLES scenario, published, lineage, graphs, rows, graph, overlay, view,
          theirs, mine, source, parts, tab, window, open, shell, panes

OneAtATime == INSTANCE LearningProgress WITH Publishable <- Chains, MaxOpen <- 1

Proposed == INSTANCE MCCurriculumReplay

Replay == INSTANCE CurriculumReplay WITH Seed <- Proposed!PairRows, Rows <- Proposed!SomeRows

GraphOf(n, deps) == [units |-> 1..n, deps |-> deps]

Crossed == GraphOf(4, {<<3, 1>>, <<3, 2>>, <<4, 1>>, <<4, 2>>})
Backwards == GraphOf(4, {<<1, 4>>, <<2, 4>>, <<3, 2>>, <<1, 3>>})
Parted == GraphOf(4, {<<2, 1>>, <<4, 3>>})
Fan == GraphOf(5, {<<2, 1>>, <<3, 1>>, <<4, 1>>, <<5, 2>>, <<5, 4>>, <<5, 1>>})
Braid == GraphOf(5, {<<1, 5>>, <<2, 5>>, <<3, 4>>, <<3, 1>>, <<4, 2>>})

Overlay(affected, created) == [affected |-> affected, created |-> created]

Pages == INSTANCE GraphNavigation
    WITH DirectLimit <- 2, SecondLimit <- 1, CoPrerequisiteLimit <- 1,
         SearchLimit <- 6, NodeLimit <- 4, Scale <- 4096,
         Graphs <- {Crossed, Backwards, Parted, Fan, Braid},
         Overlays <- {Overlay({}, {}), Overlay({2, 4}, {2, 3})}

Merging == INSTANCE MergeEditor
    WITH Line <- {1, 2}, MaxComparisons <- 5, MaxReference <- 2, MaxResult <- 3, MaxPassage <- 1,
         accepted <- theirs, proposal <- mine, view <- tab

InRem == 120

Mode(name, width) == [name |-> name, width |-> width * InRem]

Panel(modes, required, pane, fill) ==
    [modes |-> modes, required |-> required, pane |-> pane, fill |-> fill]

Reader(content, wide, required) ==
    Panel(<<Mode("collapsed", 0), Mode("breadcrumb", 4), Mode("mobile", 20),
            Mode("content", content), Mode("wide", wide)>>, required, TRUE, TRUE)

Form(required, fill) ==
    Panel(<<Mode("collapsed", 0), Mode("compact", 18), Mode("form", 28)>>, required, TRUE, fill)

\* The proposals, one of them, the history, a unit and an editor.
ModificationPanes ==
    <<Reader(24, 28, "mobile"), Reader(34, 46, "mobile"), Form("compact", FALSE),
      Reader(32, 42, "content"), Form("form", TRUE)>>

Layout == INSTANCE PanelLayout
    WITH Navigation <- Panel(<<Mode("mobile", 0), Mode("icons", 4), Mode("sidebar", 13)>>,
                             "icons", FALSE, FALSE),
         Workspace <- Panel(<<Mode("mobile", 20), Mode("content", 34), Mode("wide", 46)>>,
                            "content", FALSE, TRUE),
         Panes <- ModificationPanes, Rem <- InRem, MobileWidth <- 42 * InRem,
         Windows <- {w * InRem : w \in 42..140}

learning == vars
replay == <<published, lineage, graphs, rows>>
pages == <<graph, overlay, view>>
merging == <<theirs, mine, source, parts, tab>>
panels == <<window, open, shell, panes>>

ScenarioInit ==
    /\ Init
    /\ Replay!Init
    /\ scenario \in {"interleaved", "chains", "replay", "pages", "merge", "panels"}
    /\ \/ scenario = "pages" /\ Pages!Init
       \/ scenario # "pages" /\ graph = Crossed /\ overlay = Overlay({}, {}) /\ view = Pages!NoView
    /\ \/ scenario = "merge" /\ Merging!Init
       \/ /\ scenario # "merge" /\ tab = "result"
          /\ theirs = <<>> /\ mine = <<>> /\ source = <<>> /\ parts = <<>>
    /\ \/ scenario = "panels" /\ Layout!Init
       \/ scenario # "panels" /\ window = 0 /\ open = {}
          /\ shell = <<>> /\ panes = <<>>

ScenarioNext ==
    /\ \/ scenario = "interleaved" /\ Next /\ UNCHANGED <<replay, pages, merging, panels>>
       \/ scenario = "chains" /\ OneAtATime!Next /\ UNCHANGED <<replay, pages, merging, panels>>
       \/ scenario = "replay" /\ Replay!Next /\ UNCHANGED <<learning, pages, merging, panels>>
       \/ scenario = "pages" /\ Pages!Next /\ UNCHANGED <<learning, replay, merging, panels>>
       \/ scenario = "merge" /\ Merging!Next /\ UNCHANGED <<learning, replay, pages, panels>>
       \/ scenario = "panels" /\ Layout!Next /\ UNCHANGED <<learning, replay, pages, merging>>
    /\ UNCHANGED scenario

ScenarioSpec ==
    ScenarioInit /\ [][ScenarioNext]_<<scenario, learning, replay, pages, merging, panels>>

ScenarioTypeOK ==
    \/ scenario = "interleaved" /\ TypeOK
    \/ scenario = "chains" /\ OneAtATime!TypeOK
    \/ scenario = "replay" /\ Replay!TypeOK

\* The verdict on a proposal does not depend on the order in which it is walked.
VerdictIsOfTheSet == Replay!VerdictIsOfTheSet

\* What a draft shows is what its publication writes.
WhatIsShownIsPublished == Replay!WhatIsShownIsPublished

\* The historical reads agree with what was published at the time.
HistoryIsReadBack == scenario = "replay" => Replay!HistoryIsReadBack

\* A page can be read: prerequisites first, no order clearer, nothing in the way
\* of a unit, and arrows that count what is left out.  In "replay" no page is shown.
LayoutIsReadable == Pages!LayoutIsReadable

\* Asking for the page that is shown leaves every unit on its row.
RepeatedViewKeepsItsOrder == Pages!RepeatedViewKeepsItsOrder

\* The comparison neither loses nor repeats a line of the texts it merges.
MergeLosesNothing == Merging!MergeLosesNothing

\* A pane yields its width to those on its right alone, and only where it must.
PanesYieldToTheRight == Layout!PanesYieldToTheRight

================================================================================
