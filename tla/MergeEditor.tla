------------------------------ MODULE MergeEditor ------------------------------
(***************************************************************************)
(* The editor in which an author merges the content of a unit with what    *)
(* was accepted meanwhile (web/static/js/merge_editor.js), and the         *)
(* differences of two texts it is built on, which the server computes in   *)
(* the same way (internal/server/views/content_diff.go).                   *)
(*                                                                         *)
(* A text is a sequence of lines.  The field with the source is what the   *)
(* form submits; the comparison shows it in parts, each with a field of    *)
(* its own, beside what the accepted and the proposed text have there.     *)
(***************************************************************************)
EXTENDS Integers, SequencesExt

CONSTANTS Line,
          MaxComparisons,   \* maxContentDiffComparisons
          MaxReference,     \* bound: lines of the accepted and of the proposed text
          MaxResult,        \* bound: lines of the source
          MaxPassage        \* bound: lines typed into a part

VARIABLES
    accepted,   \* [data-merge-accepted-source]
    proposal,   \* [data-merge-proposal-source]
    source,     \* [data-merge-result]
    parts,      \* the parts of the comparison, with what their fields hold
    view        \* "comparison" or "result", what the view switcher shows

vars == <<accepted, proposal, source, parts, view>>

--------------------------------------------------------------------------------
(***************************************************************************)
(* Differences: a sequence of lines that stay, are deleted or inserted.    *)
(***************************************************************************)
Entries(kind, text) == [i \in DOMAIN text |-> [kind |-> kind, line |-> text[i]]]

\* contentDiffLengths: at [i, j], the common lines of previous after i and of
\* current after j.
Lengths(previous, current) ==
    LET n == Len(previous)
        m == Len(current)
        length[i \in 0..n, j \in 0..m] ==
            IF i = n \/ j = m THEN 0
            ELSE IF previous[i + 1] = current[j + 1] THEN length[i + 1, j + 1] + 1
            ELSE Max({length[i + 1, j], length[i, j + 1]})
    IN length

\* compare and compareContentDiffTokens
Compared(previous, current, length) ==
    LET n == Len(previous)
        m == Len(current)
        rest[i \in 0..n, j \in 0..m] ==
            IF i = n THEN Entries("inserted", SubSeq(current, j + 1, m))
            ELSE IF j = m THEN Entries("deleted", SubSeq(previous, i + 1, n))
            ELSE IF previous[i + 1] = current[j + 1]
                 THEN Entries("same", <<previous[i + 1]>>) \o rest[i + 1, j + 1]
            ELSE IF length[i + 1, j] >= length[i, j + 1]
                 THEN Entries("deleted", <<previous[i + 1]>>) \o rest[i + 1, j]
            ELSE Entries("inserted", <<current[j + 1]>>) \o rest[i, j + 1]
    IN rest[0, 0]

\* What a limit leaves of two texts that differ too much.
Middle(previous, current) ==
    IF Len(previous) * Len(current) > MaxComparisons
    THEN Entries("deleted", previous) \o Entries("inserted", current)
    ELSE Compared(previous, current, Lengths(previous, current))

\* Mutant: the common end may reach into the common beginning.
DiffPartsOverlapping(previous, current) ==
    LET prefix == LongestCommonPrefix({previous, current})
        suffix == Reverse(LongestCommonPrefix({Reverse(previous), Reverse(current)}))
        middle(text) == SubSeq(text, Len(prefix) + 1, Len(text) - Len(suffix))
    IN Entries("same", prefix) \o Middle(middle(previous), middle(current)) \o Entries("same", suffix)

\* diffParts and contentDiffParts
DiffParts(previous, current) ==
    LET prefix == LongestCommonPrefix({previous, current})
        after(text) == SubSeq(text, Len(prefix) + 1, Len(text))
        suffix == Reverse(LongestCommonPrefix({Reverse(after(previous)), Reverse(after(current))}))
        middle(text) == SubSeq(text, Len(prefix) + 1, Len(text) - Len(suffix))
    IN Entries("same", prefix) \o Middle(middle(previous), middle(current)) \o Entries("same", suffix)

--------------------------------------------------------------------------------
(***************************************************************************)
(* Merging.  Positions are between lines: a change replaces the lines of   *)
(* the base after start and up to end.                                     *)
(***************************************************************************)
\* changesFrom
ChangesFrom(base, variant) ==
    LET deleted(e) == IF e.kind = "inserted" THEN 0 ELSE 1
        extended(change, e) ==
            IF e.kind = "deleted" THEN [change EXCEPT !.end = @ + 1]
                                  ELSE [change EXCEPT !.replacement = Append(@, e.line)]
        step(s, e) ==
            [position |-> s.position + deleted(e), open |-> e.kind # "same",
             changes |->
                IF e.kind = "same" THEN s.changes
                ELSE IF s.open THEN Front(s.changes) \o <<extended(Last(s.changes), e)>>
                ELSE Append(s.changes, extended([start |-> s.position, end |-> s.position,
                                                 replacement |-> <<>>], e))]
    IN FoldLeft(step, [position |-> 0, open |-> FALSE, changes |-> <<>>],
                DiffParts(base, variant)).changes

\* applyChanges
ApplyChanges(base, span, changes) ==
    LET within == SelectSeq(changes, LAMBDA c : /\ span.start <= c.start /\ c.start <= span.end
                                                /\ c.end <= span.end)
        step(s, c) == [position |-> c.end,
                       text |-> s.text \o SubSeq(base, s.position + 1, c.start) \o c.replacement]
        last == FoldLeft(step, [position |-> span.start, text |-> <<>>], within)
    IN last.text \o SubSeq(base, last.position + 1, span.end)

\* Mutant: changes that only touch each other stay apart.
SpansApart(changes) ==
    LET first == {c \in changes : \A d \in changes : d.start < c.start => d.end <= c.start}
        next(c) == {d.start : d \in {e \in first : e.start > c.start}}
        reach(c) == {d.end : d \in {e \in changes : /\ c.start <= e.start
                                                     /\ \A n \in next(c) : e.start < n}}
    IN {[start |-> c.start, end |-> Max(reach(c))] : c \in first}

\* The passages in which some text differs: changes of both that overlap or
\* touch, from the first start to the last end.
Spans(changes) ==
    LET first == {c \in changes : \A d \in changes : d.start < c.start => d.end < c.start}
        next(c) == {d.start : d \in {e \in first : e.start > c.start}}
        reach(c) == {d.end : d \in {e \in changes : /\ c.start <= e.start
                                                     /\ \A n \in next(c) : e.start < n}}
    IN {[start |-> c.start, end |-> Max(reach(c))] : c \in first}

Part(kind, ours, theirs, mine) ==
    [kind |-> kind, accepted |-> theirs, proposal |-> mine, value |-> ours]

\* mergeParts, with each field as it is rendered.
MergeParts(base, theirs, mine) ==
    LET acceptedChanges == ChangesFrom(base, theirs)
        proposalChanges == ChangesFrom(base, mine)
        spans == SetToSortSeq(Spans(ToSet(acceptedChanges) \cup ToSet(proposalChanges)),
                              LAMBDA s, t : s.start < t.start)
        shared(from, to) ==
            LET text == SubSeq(base, from + 1, to)
            IN IF from < to THEN <<Part("same", text, text, text)>> ELSE <<>>
        step(s, span) ==
            [cursor |-> span.end,
             parts |-> s.parts \o shared(s.cursor, span.start)
                \o <<Part("change", SubSeq(base, span.start + 1, span.end),
                          ApplyChanges(base, span, acceptedChanges),
                          ApplyChanges(base, span, proposalChanges))>>]
        last == FoldLeft(step, [cursor |-> 0, parts |-> <<>>], spans)
    IN last.parts \o shared(last.cursor, Len(base))

--------------------------------------------------------------------------------
Texts(n) == BoundedSeq(Line, n)

Joined(field) == FlattenSeq([i \in DOMAIN parts |-> parts[i][field]])

\* initialize
Init ==
    /\ accepted \in Texts(MaxReference)
    /\ proposal \in Texts(MaxReference)
    /\ source = proposal
    /\ parts = MergeParts(source, accepted, proposal)
    /\ view = "comparison"

\* Input in the field of a part; syncResult writes the source.
EnterPart(i, text) ==
    /\ view = "comparison"
    /\ i \in DOMAIN parts
    /\ parts' = [parts EXCEPT ![i].value = text]
    /\ source' = FlattenSeq([k \in DOMAIN parts' |-> parts'[k].value])
    /\ Len(source') <= MaxResult
    /\ UNCHANGED <<accepted, proposal, view>>

EditPart(i) == \E text \in Texts(MaxPassage) : EnterPart(i, text)

\* "Use this version" is entered as if it were typed.
UseAlternative(i) ==
    /\ i \in DOMAIN parts /\ parts[i].kind = "change"
    /\ EnterPart(i, parts[i].accepted) \/ EnterPart(i, parts[i].proposal)

ShowResult ==
    /\ view' = "result"
    /\ UNCHANGED <<accepted, proposal, source, parts>>

EditResult ==
    /\ view = "result"
    /\ source' \in Texts(MaxResult)
    /\ UNCHANGED <<accepted, proposal, parts, view>>

\* Mutant: the comparison is drawn once.
ShowComparisonAsItWas ==
    /\ view' = "comparison"
    /\ UNCHANGED <<accepted, proposal, source, parts>>

\* renderComparison, whenever the comparison is chosen.
ShowComparison ==
    /\ view' = "comparison"
    /\ parts' = MergeParts(source, accepted, proposal)
    /\ UNCHANGED <<accepted, proposal, source>>

Next ==
    \/ \E i \in DOMAIN parts : EditPart(i) \/ UseAlternative(i)
    \/ ShowResult
    \/ EditResult
    \/ ShowComparison

Spec == Init /\ [][Next]_vars

--------------------------------------------------------------------------------
(***************************************************************************)
(* Properties.                                                             *)
(***************************************************************************)
\* The length of the longest text that can be had from both by leaving lines out.
CommonLines(s, t) ==
    LET kept(text) == {SelectSeq([i \in DOMAIN text |-> <<i, text[i]>>], LAMBDA x : x[1] \in S) :
                          S \in SUBSET DOMAIN text}
        texts(text) == {[i \in DOMAIN k |-> k[i][2]] : k \in kept(text)}
    IN Max({Len(k) : k \in texts(s) \cap texts(t)})

\* The difference of two texts is one of both, and as small as it can be.
DiffIsExact(s, t) ==
    LET diff == DiffParts(s, t)
        without(kind) == LET left == SelectSeq(diff, LAMBDA e : e.kind # kind)
                         IN [i \in DOMAIN left |-> left[i].line]
        same == SelectSeq(diff, LAMBDA e : e.kind = "same")
    IN /\ without("inserted") = s /\ without("deleted") = t
       /\ Len(s) * Len(t) <= MaxComparisons => Len(same) = CommonLines(s, t)

\* What the comparison shows is what is submitted.  Whatever the author has
\* written, its parts leave nothing out and repeat nothing: taken one after
\* another, the references are the accepted and the proposed text, in as few
\* changed lines as there are.
MergeLosesNothing ==
    view = "comparison" =>
        /\ Joined("value") = source
        /\ Joined("accepted") = accepted
        /\ Joined("proposal") = proposal
        /\ DiffIsExact(source, accepted) /\ DiffIsExact(source, proposal)

================================================================================
