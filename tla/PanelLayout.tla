------------------------------ MODULE PanelLayout ------------------------------
(***************************************************************************)
(* How the panes of a page share its width                                 *)
(* (web/static/js/panel_layout.js).                                        *)
(*                                                                         *)
(* Two groups of panels are nested: the shell holds the navigation and the *)
(* workspace, the workspace its open panes.  A panel declares modes, each  *)
(* a width; the workspace also has those its panes need.  A window that is *)
(* resized and panes that open or close cause one layout of the whole.      *)
(***************************************************************************)
EXTENDS Integers, FiniteSets, SequencesExt

CONSTANTS Navigation, Workspace,   \* the panels of the shell
          Panes,                   \* the panes of the workspace, from left to right
          Rem,                     \* units in a rem, which can be shared by both sides of all panes
          MobileWidth,             \* the breakpoint of --mobile-panel-composition
          Windows                  \* bound: widths of the window

VARIABLES
    window,
    open,        \* the panes that are shown
    shell,       \* what the panels of the shell were given
    panes        \* what the open panes were given, from left to right

vars == <<window, open, shell, panes>>

--------------------------------------------------------------------------------
(***************************************************************************)
(* A panel and the widths it can use.                                      *)
(***************************************************************************)
NoChildren == [required |-> 0, desired |-> 0]

Structural == {"compact", "mobile", "breadcrumb", "collapsed"}

\* A mode of that width, in its place, unless there is one.
WithMode(modes, name, width) ==
    IF \E k \in DOMAIN modes : modes[k].width = width THEN modes
    ELSE SelectSeq(modes, LAMBDA x : x.width < width)
             \o <<[name |-> name, width |-> width]>>
             \o SelectSeq(modes, LAMBDA x : x.width > width)

\* modesFor: data-panel-modes, and what the children of the panel ask for.
DeclaredModes(panel, children) ==
    IF children = NoChildren THEN panel.modes
    ELSE WithMode(WithMode(panel.modes, "children-required", children.required),
                  "children-desired", children.desired)

\* reservePanePadding, and no zero-width mode where there is another.
ModesFor(panel, children, mobile) ==
    LET declared == DeclaredModes(panel, children)
        padded == [k \in DOMAIN declared |->
                      IF panel.pane /\ declared[k].name \notin Structural
                      THEN [declared[k] EXCEPT !.width = @ + 4 * Rem] ELSE declared[k]]
        shown == SelectSeq(padded, LAMBDA x : x.width > 0)
    IN IF mobile THEN declared ELSE IF shown = <<>> THEN padded ELSE shown

Definition(panel, children, mobile) ==
    [modes |-> ModesFor(panel, children, mobile), requires |-> panel.required,
     children |-> children, pane |-> panel.pane, fill |-> panel.fill]

OwnRequiredWidth(d) ==
    LET named == {x.width : x \in {y \in ToSet(d.modes) : y.name = d.requires}}
    IN Max({d.children.required} \cup IF named = {} THEN {d.modes[1].width} ELSE named)

OwnDesiredWidth(d) == Max({d.children.desired, Last(d.modes).width})

Smallest(d) == d.modes[1].width

SumOf(widths) == FoldLeft(LAMBDA s, w : s + w, 0, widths)

--------------------------------------------------------------------------------
(***************************************************************************)
(* layoutGroup, for the definitions ds of a group and its width.  A choice *)
(* holds the index of a mode for each panel and what they use together.    *)
(***************************************************************************)
\* Mutant: the leftmost panel comes first.
FromTheLeft(ds) == Reverse([i \in DOMAIN ds |-> Len(ds) + 1 - i])

\* allocationOrder
FromTheRight(ds) == Reverse([i \in DOMAIN ds |-> i])

Choice(ds) ==
    [mode |-> [i \in DOMAIN ds |-> 1], used |-> SumOf([i \in DOMAIN ds |-> Smallest(ds[i])]),
     exhausted |-> FALSE, wants |-> FALSE]

Using(ds, s, i, k) ==
    [s EXCEPT !.mode[i] = k, !.used = @ - ds[i].modes[s.mode[i]].width + ds[i].modes[k].width]

\* Required modes, until one does not fit.
RequiredPass(ds, available) ==
    LET step(s, i) ==
            LET within == {k \in DOMAIN ds[i].modes :
                              k = 1 \/ ds[i].modes[k].width <= OwnRequiredWidth(ds[i])}
                fits == {k \in within : k = 1 \/ Using(ds, s, i, k).used <= available}
            IN IF s.exhausted THEN s
               ELSE [Using(ds, s, i, Max(fits)) EXCEPT !.exhausted = fits # within]
    IN FoldLeft(step, Choice(ds), FromTheRight(ds))

\* The panels to the left of i give up modes, the leftmost first, until there is
\* room for what i needs, or all of them.
Donated(ds, s, i, need, available) ==
    LET give(t, j) ==
            LET enough == {k \in 1..t.mode[j] : Using(ds, t, j, k).used + need <= available}
            IN Using(ds, t, j, IF enough = {} THEN 1 ELSE Max(enough))
    IN FoldLeft(give, s, [j \in 1..(i - 1) |-> j])

\* Larger modes, until one does not fit.
DesiredPass(ds, chosen, available) ==
    LET step(s, ik) ==
            LET i == ik[1]
                k == ik[2]
                need == ds[i].modes[k].width - ds[i].modes[s.mode[i]].width
                given == Donated(ds, s, i, need, available)
            IN IF s.exhausted \/ s.wants \/ k <= s.mode[i] THEN s
               ELSE IF given.used + need <= available THEN Using(ds, given, i, k)
               ELSE [given EXCEPT !.wants = TRUE]
        modes(i) == [k \in DOMAIN ds[i].modes |-> <<i, k>>]
    IN FoldLeft(LAMBDA s, i : FoldLeft(step, s, modes(i)), chosen, FromTheRight(ds))

\* usesSharedPanePadding
SharesPadding(ds, s, i) == ds[i].pane /\ ds[i].modes[s.mode[i]].name \notin Structural

\* What is added to the minimum padding of 2rem on each side, up to 4rem.
AdditionalPadding(ds, s, spare) ==
    LET count == Cardinality({i \in DOMAIN ds : SharesPadding(ds, s, i)})
    IN IF count = 0 \/ s.exhausted \/ s.wants THEN 0
       ELSE Min({4 * Rem, spare \div (2 * count)})

\* The rest, from the right: a panel takes it up to its largest mode, a fill
\* panel takes all of it.
Distributed(ds, widths, spare) ==
    LET step(s, i) ==
            LET room == Max({0, Last(ds[i].modes).width - s.widths[i]})
                addition == IF ds[i].fill THEN s.spare ELSE Min({s.spare, room})
            IN [widths |-> [s.widths EXCEPT ![i] = @ + addition], spare |-> s.spare - addition]
    IN FoldLeft(step, [widths |-> widths, spare |-> spare], FromTheRight(ds)).widths

Desktop(ds, available) ==
    LET s == DesiredPass(ds, RequiredPass(ds, available), available)
        spare == Max({0, available - s.used})
        additional == AdditionalPadding(ds, s, spare)
        paddings == [i \in DOMAIN ds |-> IF SharesPadding(ds, s, i) THEN 2 * additional ELSE 0]
        widths == [i \in DOMAIN ds |-> ds[i].modes[s.mode[i]].width + paddings[i]]
    IN Distributed(ds, widths, spare - SumOf(paddings))

\* layoutMobileGroup: the rightmost panel has it all.
Mobile(ds, available) == [i \in DOMAIN ds |-> IF i = Len(ds) THEN available ELSE 0]

LayoutGroup(ds, available, mobile) ==
    IF mobile THEN Mobile(ds, available) ELSE Desktop(ds, available)

\* panelChildrenRequiredWidth and panelChildrenDesiredWidth of the group.
ChildrenWidths(ds, mobile) ==
    LET those == IF mobile THEN <<Last(ds)>> ELSE ds
    IN [required |-> SumOf([i \in DOMAIN those |-> OwnRequiredWidth(those[i])]),
        desired |-> SumOf([i \in DOMAIN those |-> OwnDesiredWidth(those[i])])]

--------------------------------------------------------------------------------
IsMobile(w) == w <= MobileWidth

\* The definitions of the two groups, with these panes open.
PaneDefinitions(shown, mobile) ==
    LET visible == SelectSeq([i \in DOMAIN Panes |-> i], LAMBDA i : i \in shown)
    IN [i \in DOMAIN visible |-> Definition(Panes[visible[i]], NoChildren, mobile)]

ShellDefinitions(shown, mobile) ==
    <<Definition(Navigation, NoChildren, mobile),
      Definition(Workspace, ChildrenWidths(PaneDefinitions(shown, mobile), mobile), mobile)>>

\* layoutFrom: from the inner group outwards, and then inwards.
ShellLayout(w, shown) == LayoutGroup(ShellDefinitions(shown, IsMobile(w)), w, IsMobile(w))

LayoutFrom(w, shown) ==
    /\ shell' = ShellLayout(w, shown)
    /\ panes' = LayoutGroup(PaneDefinitions(shown, IsMobile(w)), shell'[2], IsMobile(w))

\* initializePanelLayout
Init ==
    /\ window \in Windows
    /\ open \in (SUBSET DOMAIN Panes) \ {{}}
    /\ shell = ShellLayout(window, open)
    /\ panes = LayoutGroup(PaneDefinitions(open, IsMobile(window)), shell[2], IsMobile(window))

\* The observers of sizes and of the "hidden" of panels ask for a frame, which
\* reads nothing of the layout before: it is one step with its cause.
Resize(w) ==
    /\ window' = w
    /\ open' = open
    /\ LayoutFrom(w, open)

Toggle(p) ==
    /\ open' = SymDiff(open, {p})
    /\ open' # {}
    /\ window' = window
    /\ LayoutFrom(window, open')

Next ==
    \/ \E w \in Windows : w \in {window - Rem, window + Rem} /\ Resize(w)
    \/ \E p \in DOMAIN Panes : Toggle(p)

Spec == Init /\ [][Next]_vars

--------------------------------------------------------------------------------
(***************************************************************************)
(* Properties.                                                             *)
(***************************************************************************)
Squeezed(ds, widths) == {i \in DOMAIN ds : widths[i] < OwnRequiredWidth(ds[i])}

\* The next mode of a panel that has less than it requires.
NextMode(d, width) ==
    Min({w \in {x.width : x \in ToSet(d.modes)} \cup {OwnRequiredWidth(d)} : w > width})

\* The widths of a group use its space and no more, and a panel yields only to
\* those on its right: it has less than it requires only when those to its left
\* have the least they can, and its next mode does not fit beside that and all
\* that the panels to its right may ask for.
IsFair(ds, widths, available) ==
    LET least == [i \in DOMAIN ds |-> Smallest(ds[i])]
        desired == [i \in DOMAIN ds |-> OwnDesiredWidth(ds[i])]
        n == Len(ds)
    IN SumOf(least) <= available =>
        /\ SumOf(widths) <= available
        /\ (\E i \in DOMAIN ds : ds[i].fill) => SumOf(widths) = available
        /\ \A i \in DOMAIN ds : widths[i] >= least[i]
        /\ \A i \in Squeezed(ds, widths) :
              /\ \A j \in 1..(i - 1) : widths[j] = least[j]
              /\ SumOf(SubSeq(least, 1, i - 1)) + NextMode(ds[i], widths[i])
                     + SumOf(SubSeq(desired, i + 1, n)) > available

\* After each layout of a window that is no phone's, both groups are fair, and
\* the groups agree: no pane is squeezed while the navigation outside has more
\* than its icons need.  That a pane has what it requires whenever there is a
\* way does not hold: what a pane gave up for the next mode of one on its right
\* is not given back when that mode does not fit after all.
PanesYieldToTheRight ==
    ~IsMobile(window) =>
        LET outer == ShellDefinitions(open, FALSE)
            inner == PaneDefinitions(open, FALSE)
        IN /\ IsFair(outer, shell, window)
           /\ IsFair(inner, panes, shell[2])
           /\ Squeezed(inner, panes) # {} => shell[1] = Smallest(outer[1])

================================================================================
