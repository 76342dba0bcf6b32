----------------------------- MODULE ProposalCalls -----------------------------
(***************************************************************************)
(* Proposals at a distance: the calls that remote clients make through the *)
(* REST resources (internal/server/api_proposals.go) and the MCP tools     *)
(* (internal/server/mcpadapter/proposal_tools.go), and the page on which a *)
(* proposal is reviewed.                                                   *)
(*                                                                         *)
(* A call is one transaction of CurriculumProposals, sometimes after a     *)
(* look at the draft, and an answer that is read back afterwards: the row  *)
(* of the proposal, its changes, the members of its recognitions and the   *)
(* curriculum it is based on, each by a statement of its own.  Everyone    *)
(* else goes on meanwhile.  The answer can be lost; a client whose tool    *)
(* says that it is idempotent then makes the same call again.              *)
(***************************************************************************)
EXTENDS CurriculumProposals

CONSTANTS Client,     \* sessions of remote clients
          Title,      \* titles of proposals
          Via,        \* bound: the adapters that are called, "rest" and "mcp"
          Tools,      \* bound: the tools called in an instance
          MaxTries    \* bound: repetitions of one call

AllTools ==
    {"create_proposal", "update_proposal", "delete_proposal", "create_proposal_unit",
     "update_proposal_unit", "delete_proposal_unit", "set_proposal_dependency",
     "add_proposal_recognition", "delete_proposal_change", "resolve_proposal_rebase",
     "submit_proposal", "accept_proposal", "reject_proposal", "get_proposal"}

ASSUME ToolsAssumption ==
    Tools \subseteq AllTools /\ Via \subseteq {"rest", "mcp"} /\ MaxTries \in Nat

VARIABLES
    title,   \* curriculum_proposals.title, None for a proposal that does not exist
    call     \* what each client has asked for and how far it got

callVars == <<head, published, proposal, nextUnit, title, call>>

Idle == [phase |-> "idle"]

\* A call on proposal p by the account a, before anything is read back.
Sent(via, a, p, request) ==
    [phase |-> "sent", via |-> via, author |-> a, proposal |-> p, request |-> request,
     tries |-> 0, seen |-> <<>>]

CallInit ==
    /\ Init
    /\ \E t \in Title :
          title = [p \in Proposals |-> IF proposal[p].status = "unused" THEN None ELSE t]
    /\ call = [c \in Client |-> Idle]

--------------------------------------------------------------------------------
(***************************************************************************)
(* Requests, and the transaction each of them runs.                        *)
(***************************************************************************)
Issued == 1..(nextUnit - 1)

Requests(p) ==
    LET of(tool, records) == IF tool \in Tools THEN records ELSE {}
    IN of("update_proposal", [tool : {"update_proposal"}, title : Title])
       \cup of("delete_proposal", [tool : {"delete_proposal"}])
       \cup of("create_proposal_unit", [tool : {"create_proposal_unit"}, text : [Field -> Text]])
       \cup of("update_proposal_unit",
               [tool : {"update_proposal_unit"}, unit : Issued, text : [Field -> Text]])
       \cup of("delete_proposal_unit", [tool : {"delete_proposal_unit"}, unit : Issued])
       \cup of("set_proposal_dependency",
               [tool : {"set_proposal_dependency"}, unit : Issued, prerequisite : Issued,
                present : BOOLEAN])
       \cup of("add_proposal_recognition",
               [tool : {"add_proposal_recognition"}, sources : SUBSET Issued, targets : SUBSET Issued])
       \cup of("delete_proposal_change",
               [tool : {"delete_proposal_change"}, change : proposal[p].changes])
       \cup of("resolve_proposal_rebase",
               [tool : {"resolve_proposal_rebase"}, drop : SUBSET Conflicts(p)])
       \cup of("submit_proposal", [tool : {"submit_proposal"}, title : Title])
       \cup of("accept_proposal", [tool : {"accept_proposal"}])
       \cup of("reject_proposal", [tool : {"reject_proposal"}])
       \cup of("get_proposal", [tool : {"get_proposal"}])

\* UpdateCurriculumProposal: one statement that looks at the status and author.
UpdateCurriculumProposal(p, a, t) ==
    /\ OwnDraft(p, a)
    /\ title' = [title EXCEPT ![p] = t]
    /\ UNCHANGED vars

SetUnitDependency(p, a, u, q, present) ==
    \/ present /\ AddUnitDependency(p, a, u, q)
    \/ ~present /\ RemoveUnitDependency(p, a, u, q)
    \/ /\ present <=> (<<u, q>> \in Working(p).deps)
       /\ KeepUnitDependency(p, a, u, q)

\* Mutant: the tool adds a recognition as the REST resource does.
AddProposalRecognitionTwice(k, p, a, r) ==
    /\ r.tool = "add_proposal_recognition"
    /\ AddCurriculumRecognition(p, a, r.sources, r.targets)

AddProposalRecognition(k, p, a, r) ==
    /\ r.tool = "add_proposal_recognition"
    /\ IF k = "mcp" THEN EnsureCurriculumRecognition(p, a, r.sources, r.targets)
                    ELSE AddCurriculumRecognition(p, a, r.sources, r.targets)

\* The service behind a call of kind k on the draft p.
PerformOnDraft(k, p, a, r) ==
    \/ r.tool = "create_proposal_unit" /\ CreateCurriculumUnit(p, a, r.text)
    \/ /\ r.tool = "update_proposal_unit"
       /\ UpdateCreatedUnit(p, a, r.unit, r.text) \/ UpdatePublishedUnit(p, a, r.unit, r.text)
    \/ /\ r.tool = "delete_proposal_unit"
       /\ DiscardCreatedUnit(p, a, r.unit) \/ DeletePublishedUnit(p, a, r.unit)
    \/ /\ r.tool = "set_proposal_dependency"
       /\ SetUnitDependency(p, a, r.unit, r.prerequisite, r.present)
    \/ AddProposalRecognition(k, p, a, r)
    \/ r.tool = "delete_proposal_change" /\ DeleteCurriculumProposalChange(p, a, r.change)
    \/ r.tool = "resolve_proposal_rebase" /\ ResolveCurriculumProposalRebase(p, a, r.drop, <<>>)
    \/ r.tool = "submit_proposal" /\ SubmitCurriculumProposal(p, a)
    \/ r.tool = "accept_proposal" /\ AcceptCurriculumProposal(p)
    \/ r.tool = "reject_proposal" /\ RejectCurriculumProposal(p)

Perform(k, p, a, r) ==
    \/ r.tool = "update_proposal" /\ UpdateCurriculumProposal(p, a, r.title)
    \/ /\ r.tool = "delete_proposal"
       /\ DeleteCurriculumProposal(p, a)
       /\ title' = [title EXCEPT ![p] = None]
    \/ PerformOnDraft(k, p, a, r) /\ UNCHANGED title

--------------------------------------------------------------------------------
(***************************************************************************)
(* The course of a call.                                                   *)
(***************************************************************************)
\* MCP's submission and resolution look at the draft before they change it.
Inspects(x) ==
    x.via = "mcp" /\ x.request.tool \in {"submit_proposal", "resolve_proposal_rebase"}

\* mutation(title, idempotent, destructive) in the registration of the tools.
Repeatable(x) ==
    x.via = "mcp" /\ x.request.tool \notin {"create_proposal", "create_proposal_unit"}

Reads(x) == x.request.tool = "get_proposal"

\* reloadProposal and writeReloadedAPIProposal: the answer is the proposal.
Reloads(x) ==
    x.request.tool \notin {"delete_proposal", "delete_proposal_unit", "set_proposal_dependency"}

Begin(c, via, a, p, r) ==
    /\ call[c] = Idle
    /\ proposal[p].status # "unused"
    /\ call' = [call EXCEPT ![c] = Sent(via, a, p, r)]
    /\ UNCHANGED <<vars, title>>

\* confirmed, GetEditableCurriculumProposal and expected_title; for a resolution,
\* the plan that says whether answers are needed.
Inspect(c) ==
    LET x == call[c] IN
    /\ x.phase = "sent" /\ Inspects(x)
    /\ OwnDraft(x.proposal, x.author)
    /\ x.request.tool = "submit_proposal" => title[x.proposal] = x.request.title
    /\ x.request.tool = "resolve_proposal_rebase" => OnLineage(x.proposal)
    /\ call' = [call EXCEPT ![c].phase = "inspected"]
    /\ UNCHANGED <<vars, title>>

Commit(c) ==
    LET x == call[c] IN
    /\ \/ x.phase = "inspected"
       \/ x.phase = "sent" /\ ~Inspects(x)
    /\ Perform(x.via, x.proposal, x.author, x.request)
    /\ call' = [call EXCEPT ![c].phase = "committed"]

\* A new draft has no identity before: the call is sent and commits in one step.
CreateProposal(c, via, a, p, t) ==
    /\ call[c] = Idle
    /\ \A d \in Client : call[d] # Idle => call[d].proposal # p
    /\ CreateCurriculumProposal(p, a)
    /\ title' = [title EXCEPT ![p] = t]
    /\ call' = [call EXCEPT ![c] =
           [Sent(via, a, p, [tool |-> "create_proposal"]) EXCEPT !.phase = "committed"]]

\* Mutant: the status is read after the changes.
ReadChangesBeforeStatus(c) ==
    LET x == call[c] IN
    /\ x.phase = "row"
    /\ call' = [call EXCEPT ![c].phase = "members",
                            ![c].seen = [x.seen EXCEPT !.status = proposal[x.proposal].status]]
    /\ UNCHANGED <<vars, title>>

\* db.GetCurriculumProposal: the row of a proposal that its reader may see ...
ReadRow(c) ==
    LET x == call[c]
        row == proposal[x.proposal]
    IN /\ \/ x.phase = "committed" /\ Reloads(x)
          \/ x.phase = "sent" /\ Reads(x)
       /\ row.status # "unused"
       /\ row.status \in {"submitted", "accepted"} \/ row.author = x.author \/ ~Reads(x)
       /\ call' = [call EXCEPT
              ![c].phase = "row",
              ![c].seen = [status |-> row.status, base |-> row.base, changes |-> row.changes]]
       /\ UNCHANGED <<vars, title>>

\* ... the rows of its changes ...
ReadChanges(c) ==
    LET x == call[c] IN
    /\ x.phase = "row"
    /\ call' = [call EXCEPT ![c].phase = "members",
                            ![c].seen.changes = proposal[x.proposal].changes]
    /\ UNCHANGED <<vars, title>>

\* ... and what belongs to its recognitions, nothing when one is gone; the read
\* fails when there is one it has no row of.
ReadMembers(c) ==
    LET x == call[c]
        present == Kind(proposal[x.proposal].changes, "recognition")
        gone == Kind(x.seen.changes, "recognition") \ present
    IN /\ x.phase = "members"
       /\ present \subseteq x.seen.changes
       /\ call' = [call EXCEPT
              ![c].phase = "read",
              ![c].seen.changes = (@ \ gone) \cup {Recognition({}, {}, r.copy) : r \in gone}]
       /\ UNCHANGED <<vars, title>>

\* CurriculumGraphAtProposal: the curriculum as the accepted proposal b left it.
GraphAt(b) ==
    LET at[q \in Proposals \cup {None}] ==
            IF q \in Proposals THEN WithProposal(at[proposal[q].base], proposal[q].changes)
                               ELSE EmptyGraph
    IN at[b]

\* The page of a proposal that is not a draft is drawn over its base.
Draw(c) ==
    LET x == call[c] IN
    /\ x.phase = "read" /\ Reads(x) /\ x.seen.status # "draft"
    /\ call' = [call EXCEPT ![c].phase = "drawn",
           ![c].seen = [status |-> @.status, base |-> @.base, changes |-> @.changes,
                        graph |-> WithProposal(GraphAt(@.base), @.changes)]]
    /\ UNCHANGED <<vars, title>>

\* The call is over: it was answered, was refused or failed.
End(c) ==
    /\ call[c] # Idle
    /\ call' = [call EXCEPT ![c] = Idle]
    /\ UNCHANGED <<vars, title>>

\* The answer never arrived, if there was one, and the client tries again.
Repeat(c) ==
    LET x == call[c] IN
    /\ x.phase \in {"sent", "inspected", "committed", "read"}
    /\ Repeatable(x) /\ x.tries < MaxTries
    /\ call' = [call EXCEPT ![c] = [x EXCEPT !.phase = "sent", !.tries = @ + 1, !.seen = <<>>]]
    /\ UNCHANGED <<vars, title>>

\* Everyone else: the pages of the site, where titles are edited too.
Elsewhere ==
    /\ \/ Next /\ title' = [p \in Proposals |->
                   IF proposal'[p].status = "unused" THEN None
                   ELSE IF title[p] = None THEN CHOOSE t \in Title : TRUE ELSE title[p]]
       \/ \E p \in Proposals, a \in Authors, t \in Title : UpdateCurriculumProposal(p, a, t)
    /\ \A c \in Client : call[c] # Idle =>
           (proposal[call[c].proposal].status = "unused" =>
                proposal'[call[c].proposal].status = "unused")
    /\ UNCHANGED call

CallNext ==
    \/ \E c \in Client :
          \/ \E via \in Via, a \in Authors, p \in Proposals :
                \/ \E r \in Requests(p) : Begin(c, via, a, p, r)
                \/ /\ "create_proposal" \in Tools
                   /\ \E t \in Title : CreateProposal(c, via, a, p, t)
          \/ Inspect(c)
          \/ Commit(c)
          \/ ReadRow(c)
          \/ ReadChanges(c)
          \/ ReadMembers(c)
          \/ Draw(c)
          \/ End(c)
          \/ Repeat(c)
    \/ Elsewhere

CallSpec == CallInit /\ [][CallNext]_callVars

--------------------------------------------------------------------------------
(***************************************************************************)
(* Properties.                                                             *)
(***************************************************************************)
\* What the request r asks of the proposal p is so already.
Achieved(p, r) ==
    LET G == Working(p) IN
    CASE r.tool = "update_proposal" -> title[p] = r.title
      [] r.tool = "update_proposal_unit" -> r.unit \in G.units /\ G.text[r.unit] = r.text
      [] r.tool = "delete_proposal_unit" -> r.unit \notin G.units
      [] r.tool = "set_proposal_dependency" ->
             r.present <=> (<<r.unit, r.prerequisite>> \in G.deps)
      [] r.tool = "add_proposal_recognition" ->
             Copies(proposal[p].changes, r.sources, r.targets) # {}
      [] r.tool = "delete_proposal_change" -> r.change \notin proposal[p].changes
      [] r.tool = "resolve_proposal_rebase" -> proposal[p].base = head
      [] r.tool = "submit_proposal" -> proposal[p].status = "submitted"
      [] r.tool = "accept_proposal" -> proposal[p].status = "accepted"
      [] r.tool = "reject_proposal" -> proposal[p].status = "rejected"
      [] r.tool = "delete_proposal" -> proposal[p].status = "unused"
      [] OTHER -> TRUE

\* A call that may be repeated converges: once it has committed, what it asked
\* for is so, and when that was so before, after the first attempt and whatever
\* was published or edited since, the draft is left as it was, but for its base.
CallsConverge ==
    \A c \in Client :
        LET x == call[c]
            now == proposal[x.proposal]
            next == proposal'[x.proposal]
        IN (x # Idle /\ Repeatable(x) /\ x.phase # "committed" /\ call'[c].phase = "committed")
           => /\ Achieved(x.proposal, x.request)'
              /\ Achieved(x.proposal, x.request) =>
                    /\ next = [now EXCEPT !.base = next.base]
                    /\ title' = title

RetriesConverge == [][CallsConverge]_callVars

\* Whoever has read a proposal as submitted, and a page that was drawn of it,
\* has what the administrator's acceptance publishes: although the row, the
\* changes and the base are read one after another while their author edits and
\* submits, and while other proposals, or this one, are accepted.
ReviewersSeeWhatIsPublished ==
    \A c \in Client :
        LET x == call[c]
            row == proposal[x.proposal]
        IN (x # Idle /\ x.phase \in {"read", "drawn"} /\ x.seen.status # "draft")
           => /\ x.seen.changes = row.changes
              /\ x.seen.base = row.base
              /\ x.phase = "drawn" /\ row.status = "accepted" =>
                    x.seen.graph = GraphAt(x.proposal)
              /\ x.phase = "drawn" /\ head = x.proposal => x.seen.graph = published

================================================================================
