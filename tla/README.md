# Universal Curriculum: TLA+ models

Universal Curriculum is a Go and PostgreSQL web application that publishes one
graph of learning units. Contributors draft *proposals* over the published
graph, administrators accept or reject them, learners record what they have
completed and follow paths. This directory models the system in TLA+, checks the
models with TLC and proves what matters most with TLAPS.

Paths below are relative to `src/app/internal/` unless they begin with `docs/`
or `src/`.

1. [The system](#1-the-system) 2. [The plan](#2-the-plan) 3. [Modules and
code](#3-modules-and-code) 4. [What the runs check](#4-what-the-runs-check) 5.
[Fairness](#5-fairness) 6. [What is proved](#6-what-is-proved) 7. [Disagreements
found](#7-disagreements-found) 8. [What is abstracted, and what is not
modelled](#8-what-is-abstracted-and-what-is-not-modelled)

## 1. The system

All durable state is in PostgreSQL at READ COMMITTED; several server processes
may share it. Requests run concurrently and meet only in rows and row locks.
There is no background worker: cleanups run inside requests.

### Components

| Component | State | Operations | Code |
|---|---|---|---|
| Proposals | `curriculum_proposals`, authors, changes, recognitions | create, edit, rebase, review, submit, accept, reject, delete | `services/curriculum*.go`, `db/proposals.go`, `db/proposal_changes.go` |
| Published curriculum | `units`, `unit_dependencies`, `curriculum_projection_state` | apply one accepted proposal, rebuild from the lineage (no caller) | `db/curriculum_projection.go`, `db/curriculum.go` |
| Curriculum rules | none (pure) | validate a proposal, show the working graph, detect cycles | `services/curriculum_validation.go`, `services/curriculum_preview.go` |
| Historical reads | none (queries) | graph, unit and dependencies as of a proposal | `db/proposals.go` |
| Learning progress | `unit_completions`, `unit_completion_recognitions` | complete, return to pending, materialize recognitions, prune | `db/completed_units.go`, `services/learning.go` |
| Learning paths | `learning_paths`, `learning_path_units` | create, update, delete, migrate at publication | `services/learning_paths.go`, `db/learning_paths.go` |
| Sessions and password reset | `sessions`, `password_reset_tokens`, the browser's cookie | log in, use, rotate, log out; request and use a link | `services/auth*.go`, `db/sessions.go`, `db/password_reset_tokens.go`, `server/session_middleware.go` |
| Registration and invitations | `users`, `local_authentications`, `contributor_invitations` | register, invite, withdraw, revoke, accept | `services/contributor_invitations.go`, `db/contributor_invitations.go`, `db/users.go` |
| Authentication rate limits | `authentication_rate_limits` | count, block, clean up | `services/authentication_rate_limit.go`, `db/authentication_rate_limits.go` |
| OAuth connections | `oauth_authorization_codes`, `oauth_connections`, access and refresh tokens | authorize, exchange, refresh, revoke, disconnect, clean up | `services/oauth.go`, `db/oauth_tokens.go` |
| API tokens, account page | `api_tokens`; a token shown once, in memory | issue, show, revoke, authenticate | `services/api_tokens.go`, `db/api_tokens.go`, `server/account.go` |
| Graph navigation and layout | none (pure) | neighbourhoods, order of rows, lanes of the drawn graph | `services/curriculum_graph.go` |
| Search and draft previews | none (queries) | search, working graph of a draft | `services/curriculum_reads.go` |
| Recommendations | none (queries) | what to study next, the graph of a path | `services/learning.go`, `server/learn.go`, `server/home.go` |
| REST resources, MCP tools of proposals | none; clients that repeat calls | one transaction, and the answer read back | `server/api_proposals.go`, `server/mcpadapter/` |
| Other HTTP and HTMX adapters | pages that clients answer later | decode, authorise, call a service, render | `server/` |
| Merge editor | the page of a review: source, parts, view | edit a part or the source, take a side, compare again | `src/app/web/static/js/merge_editor.js`, `server/views/content_diff.go` |
| Panel layout | widths of the panes of a page | resize, open, close | `src/app/web/static/js/panel_layout.js` |
| Browser, the rest | panels' transitions, pickers, autosave | open, close, navigate | `src/app/web/static/js/` |
| E-mail, object store, start-up, generators | external or none | | `services/email.go`, `services/object_store.go`, `db/db.go`, `server/config.go` |

### Interactions and hard behaviours

* **Publication.** Accepting a proposal is one transaction that locks the
  projection row and the proposal, checks that the proposal's base is the head,
  and then *without validating again* grants recognitions to learners, migrates
  learning paths, rewrites the projection and moves the head. Its correctness
  rests on what drafts and submissions did before, in other transactions.
* **Drafts age.** Every acceptance makes all other drafts stale. A stale draft
  is moved to the new head automatically when nothing it touches was touched,
  and needs its author's review otherwise; the review is a page that may be
  answered when yet another proposal has been published.
* **One meaning, six algorithms.** Validation, preview, projection and three
  historical reads each walk the rows of proposals in their own code.
* **Learners are not serialised with publications.** Completions, returns and
  path edits take no lock an acceptance takes; recognitions chain and may form
  circles across proposals.
* **Lock orders.** Drafts and publications lock projection, then proposal. Path
  updates lock a path before its targets, migrations after; a cleanup of rate
  limits deletes rows of others while holding its own.
* **Pages remember.** The browser sends the rows and lanes of the page it shows,
  which may be of another curriculum by now, and the next page is drawn to move as
  little as its clarity allows. The page of a proposal draws what the proposal
  takes away beside what it adds.
* **Retries and duplicates.** Session tokens rotate while requests overlap and
  answers are lost; reset links, invitations, authorization codes and refresh
  tokens may be submitted twice, expire or be revoked meanwhile; an invitation's
  e-mail may arrive although sending it failed. The MCP tools tell their clients
  which calls may be repeated; a repetition arrives after others have edited.
* **Answers are not snapshots.** A proposal is read in four statements, a
  recommendation in four others, and acceptances commit in between. The secret of
  a new API token is in the memory of one server until the next account page.

### What makes each component correct

| Component | Properties |
|---|---|
| Proposals | one linear history of sound acyclic graphs; what is submitted stays publishable and frozen; overlapping work is never merged unreviewed; drafts stay normalized diffs |
| Transactions | what a transaction read still holds when it commits; transactions behave as atomic steps; no deadlock |
| Rules, historical reads | all algorithms agree, in every order of rows; history reads back |
| Learning progress | nobody is credited without earlier evidence; a return removes exactly what lost its evidence; dismissed recognitions stay dismissed |
| Learning paths | no path without targets; migrations exact; transactions end despite opposite lock orders |
| Recommendations | whoever has something left to learn is told a unit to learn now |
| Calls of clients | a repeated call changes nothing more; what is shown as submitted is what acceptance publishes |
| API tokens | a secret is shown to its owner, once at most, and is not lost by what other users do |
| Merge editor | the comparison loses and repeats no line, whatever was typed where |
| Panel layout | a pane yields only to those on its right, and only where its next mode does not fit beside all they may ask for |
| Sessions, links | rotation logs nobody out; a link sets the password once |
| Invitations | used at most once, never after revocation; contributors are exactly the invited |
| Rate limits | admissions per window bounded, rejections earned, deadlocks cost only dormant addresses |
| OAuth | one refresh token per grant; a completed grant lasts |
| Graph pages | an order that stays topological, and as clear as the search can tell, whatever hints and limits; arrows count exactly what is left out; nothing drawn over a unit; a page that is asked for again stays as it is; every open proposal has a page |

`PROJECT.json` lists the hazards behind these, each at its line.

## 2. The plan

The order follows what is worst to get wrong.

| # | Module | About | State |
|---|---|---|---|
| 1 | `CurriculumGraph`, `CurriculumProposals`, `PublishedCurriculum` | proposals as atomic transactions, and what publication promises | built, proved |
| 2 | `Publications`, `LearningProgress`, `LearningPaths` | what a publication does to learners, statement by statement | built, proved |
| 3 | `CurriculumReplay` | the sequential algorithms behind the rules | built |
| 4 | `PublicationLocking`, `ProposalLifecycle` | the row locks that make 1 atomic | built, proved |
| 5 | `Sessions`, `ContributorInvitations`, `AuthenticationRateLimits`, `OAuthConnections`, and `Accounts`, which holds them | accounts | built, proved |
| 6 | `CurriculumNeighborhood`, `CurriculumLayout`, `GraphNavigation`, `DraftPages` | what a page of the graph shows and how it is drawn, page after page | built |
| 7 | `ProposalCalls` | proposals at a distance: calls, their repetition, answers read back | built, proved |
| 8 | `StudyGuide`, `AccountTokens` | recommendations over paths that change; the secret that is shown once | built, proved |
| 9 | `MergeEditor`, `PanelLayout` | the two algorithms of the browser that decide what its user can see and keep | built |
| 10 | search | its order, limits and merging into pages | not planned: one query, whose order is the database's |

Every safety property that a run checks is proved, but for those that section 6
lists as only model-checked.

Composition: `CurriculumProposals` extends `CurriculumGraph` and implements
`PublishedCurriculum` and `ProposalLifecycle`; `PublicationLocking` implements
`ProposalLifecycle` too; `LearningProgress` and `LearningPaths` extend
`Publications`, the view of a publication that the first result justifies;
`Accounts` extends `ContributorInvitations` and holds an instance of each of
`Sessions`, `AuthenticationRateLimits`, `OAuthConnections` and `AccountTokens`;
`GraphNavigation` extends `CurriculumLayout`, which extends
`CurriculumNeighborhood`; `DraftPages` extends `CurriculumProposals` and draws with
an instance of `CurriculumLayout`; `ProposalCalls` extends `CurriculumProposals` and
runs its actions as the transactions of calls; `StudyGuide` extends `LearningPaths`
and reads its state; `CurriculumReplay` extends `CurriculumGraph` and relates rows
to its sets; the `MC...Scenarios` modules put instances
side by side, and `MCAccounts` lets the parts of `Accounts` run one at a time.

## 3. Modules and code

`PROJECT.json` maps every definition to the lines it models.

### CurriculumGraph

A graph is a record of units, dependencies and texts; the changes of a proposal
are a *set* of records (`Creation`, `Edit`, `Addition`, `Removal`, `Deletion`,
`Recognition`). `WithProposal` is what a set makes of a graph, in one formula;
`ValidProposal` is `validateCurriculumProposal`, `CreatesCycle` the search that
refuses a dependency, `Projectable` what the database accepts, `ChangeUnits` what
a change touches when drafts are compared with accepted work. `SoundGraph` is the
property: a directed acyclic graph over its own units.

### CurriculumProposals and PublishedCurriculum

State: `head` (`curriculum_projection_state`), `published` (`units`,
`unit_dependencies`), `proposal` (rows with authors and changes), `nextUnit`. One
action per committed transaction: `CreateCurriculumProposal`,
`CreateCurriculumUnit`, `UpdateCreatedUnit` and `UpdatePublishedUnit` (the two
sides of the field editor), `DiscardCreatedUnit` and `DeletePublishedUnit`,
`AddUnitDependency`, `RemoveUnitDependency`, `KeepUnitDependency`,
`DeleteCurriculumProposalChange`, `AddCurriculumRecognition`,
`EnsureCurriculumRecognition`, `TryAutoRebaseCurriculumProposal`,
`ResolveCurriculumProposalRebase`, `SubmitCurriculumProposal`,
`AcceptCurriculumProposal`, `RejectCurriculumProposal`,
`DeleteCurriculumProposal`. `BeginDraftMutation` is the prologue that every edit
runs: owner, draft, and the automatic rebase that moves its base.
`PublishedCurriculum` is the promise to readers: one sound graph at a time, a
history that only grows by one accepted proposal at a time.

### PublicationLocking and ProposalLifecycle

Each client runs one transaction: `Begin`, `TakeLock` along
`Locks(kind)`, `Read` (which re-reads its proposal and decides with
`MayWrite`), then `Commit`, `Refuse` or `Rollback`. Reads of drafts that are
created take no lock and may be old. `PlanCurriculumProposalRebase` puts a page
in a browser; a `resolve` transaction carries that page's answers. The changes
of a proposal are the units they affect and a version. `ProposalLifecycle` has
the same state with atomic steps: start, change, discard, submit, accept, reject.
`Gone` is the status of a deleted draft, whose identity `CurriculumProposals`
uses again.

### CurriculumReplay

`rows` is the proposal being written, row by row in any order; `lineage` the
accepted rows. `CanonicalOrder` is the order in which the code reads them.
`Validated` folds `Permits` and `Noted` over it; `Preview`, `Applied`, `GraphAt`,
`UnitAt`, `DependenciesAt` are the other five walks, each with its own row function
as in the code. `Applied` fails where a statement would.

### CurriculumNeighborhood, CurriculumLayout, GraphNavigation and DraftPages

`VisibleGraph` is what a page shows around a focus, or around what a proposal
touches, under the limits on neighbours; `Boundaries` counts what is left out.
`Layout` is `BuildCurriculumGraphLayoutWithHints`: `OrderOf` chooses rows (a
topological order, and `Explored`, the best-first search over swaps of
neighbouring rows with its limits), `WithLanes` chooses among the three candidates
of the code (`LaneCandidate` fresh, `LaneCandidate` from the lanes of the page
before, `Stabilized`). `IsolatedFirst` moves new units that nothing refers to to
the top. `GraphNavigation` is a reader: `Load` draws a page anew, `Navigate` sends
the rows and lanes that are shown (`Hints`); the graph may have changed between.
`DraftPages` draws the page of a proposal: `WithRemovals` adds what it takes away,
`Overview` is the page it opens with.

### ProposalCalls

A call of a remote client is a record of how far it got. `Begin` sends it,
`Inspect` is the look at the draft that the MCP tools for submission and
resolution take first, `Commit` runs the action of `CurriculumProposals` behind the
tool (`Perform`), `CreateProposal` does both at once. The answer is read back
by `ReadRow`, `ReadChanges` and `ReadMembers`, each of what is committed by then;
`Draw` is the page of a proposal over its base (`GraphAt`). `End` covers an answer,
a refusal and a failure; `Repeat` is a client that lost the answer of a call it was
told it may repeat (`Repeatable`). `Elsewhere` is every action of
`CurriculumProposals` by anyone, and the pages on which titles are edited.

### MergeEditor

`DiffParts` is `contentDiffParts` of the server and `diffParts` of the browser, which
are the same algorithm; `ChangesFrom`, `Spans`, `ApplyChanges` and `MergeParts` make
the passages of a merge. `EnterPart` is typing into a passage (which writes
the source), `UseAlternative` taking one side, `EditResult` typing into the source,
`ShowResult` and `ShowComparison` the view switcher; the comparison is drawn again
from the source.

### PanelLayout

`LayoutFrom` lays out the shell with what its panes ask for, and then the panes in
what the shell gave. `Desktop` is `layoutGroup`: `RequiredPass` and `DesiredPass`
choose modes from the right, with widths that panels to the left give up
(`Donated`), then padding (`AdditionalPadding`) and the rest (`Distributed`) are
shared out. `Resize` and `Toggle` change the window and the open panes.

### LearningProgress, LearningPaths and Publications

A publication is the units it creates and deletes and its recognitions. A step
is one SQL statement. `LearningProgress`: `SetUnitCompleted`; a return is
`BeginReturn`, `DeleteDirect`, `DeleteDerived`, `DeleteUnsupported` until nothing
is left to prune, `CommitReturn`; an acceptance is `AcceptCurriculumProposal`
(the materializing statement) and `CommitAcceptance`. Two variables are history:
`ever`, the completions recorded so far, and `alone`, whether any transaction has
begun while another was open (`Begins`). `LearningPaths`:
`Validate...` steps run before a transaction begins, as the services do;
`UpdateLearningPath`, `ClearUnits`, `InsertUnit`, `CommitUpdate`; a migration is a
plan (`Plan`) followed by `RemoveSource`, `AddTarget`, `TouchPath` for each path;
`BreakDeadlock` is the database's detection, `Fail` any other error.
`StudyGuide`: a page reads paths, units, dependencies and completions in the
order of its `Statements`, while `Elsewhere` edits paths and publishes;
`Available` is what the pages recommend of what they read.

### Accounts

`Accounts` puts the parts together as the program has them: one set of users and
requests, no row in common but the user's. It extends `ContributorInvitations` and
instantiates the rest (`Browsing`, `Limiting`, `Connecting`, `Creating`); its
properties are theirs, and it states what their constants have to satisfy.

* `Sessions`: the rows of one account, one browser with a cookie jar, requests
  on the way. `Maintain` is the session middleware (use, rotation, expiry);
  `Deliver` and `Lose` are the answer; `Age` is time. Reset links:
  `RequestPasswordReset`, `ValidateLink`, `LockLink`, `EndSessions` and the commit.
* `ContributorInvitations`: `Invite`, `Send`, `Withdraw`, `Revoke...`, `Expire`;
  `Register`/`InsertUser` and `Accept`, then `UpdateInvitation`, `UpdateUser`,
  `Commit`. What an open transaction wrote is held by it (`HoldsEmail`,
  `HoldsInvitation`, `HoldsUser`) and waited for.
* `AuthenticationRateLimits`: `Record` is the upsert, `StartCleanup` and
  `DeleteRow` the deletion of dormant rows with its waits, `DeadlockAborted` the
  database's choice among transactions in a circle.
* `OAuthConnections`: `Program` lists the statements of each request in order;
  a deletion picks rows from a snapshot (`Pick`) and locks them one by one
  (`DeleteRow`, `EndDeletion`); `Issue`, `Connect`, `Insert` write. `alone` is
  history: no two requests have overlapped.
* `AccountTokens`: `CreateAPIToken` and `RefuseName`, then `SetFlash`, which also
  sweeps what has expired. The account page is `TakeFlash`, which takes the secret
  first, and then `RenderAccount` or, when something else on it cannot be loaded,
  `FailAccount`, which loses the secret. `Tick` is time, `Restart` loses the memory of
  the server.

### Proof and model-checking modules

`CurriculumGraph_proofs`, `CurriculumProposals_proofs`, `ProposalCalls_proofs`
(which cites the two before), `PublicationLocking_proofs`,
`LearningProgress_proofs`, `LearningPaths_proofs` (which is about `StudyGuide` too),
`ContributorInvitations_proofs` and `Accounts_proofs` (about the four instances in
`Accounts`) hold the theorems about the module they are named
after; `MC*` modules give the constants of the runs.

## 4. What the runs check

Deadlock checking is off where a bound ends every behaviour, which it does in all
passing runs; it is on in the two violated runs of learning progress.

| Run | Bounds | Distinct states | Shows |
|---|---|---|---|
| `proposal_editing` | a seed and two proposals, one author; *editing*: 3 units, 3 changes; *contents*: 2 units, 2 texts, recognitions; *duplicates*: 3 texts, 2 equal recognitions; one client whose calls are repeated once: *texts*, *graphs* and *titles* by the tools they call, *reviews* | 98,777 | `PublishedGraphIsSound`, `SubmittedIsPublishable`, `HistoryIsLinear`, `DraftIsNormalizedDiff`, `SubmissionFreezes`, `OverlapIsReviewed`, and `CurriculumProposals` implements `PublishedCurriculum`; `RetriesConverge`, `ReviewersSeeWhatIsPublished` |
| `learning_paths` | 1 path, 3 units; *paths*: 2 requests, 2 publications; *study*: 3 publications that turn dependencies around, 1 reader of 3 pages | 122,568 | `EveryPathHasATarget`, `TargetsAreWanted`, `MigrationIsExact`, `EveryTransactionEnds`; `AdviceLeadsOn` |
| `curriculum_scenarios` | 1 learner, 3 units, 3 publications, 2 returns: *interleaved*, up to 3 transactions open, over `Routes`, and *chains*, one at a time over `Chains`; *replay*: up to 3 rows in a proposal and 4 after the seed, out of 18 changes of 3 units; *pages*: 5 graphs of 4 and 5 units, 2 overlays, limits 2 direct and 1 second neighbours, 1 fellow prerequisite, 6 candidates, 4 units searched; *merge*: 2 lines, references of 2, source of 3, 5 comparisons; *panels*: 5 panes, windows of 42 to 140 rem | 970,421 | `RecognizedFromEarlierEvidence`, `GrantedAtPublication`, while no two transactions overlap `ChainsOfEvidence`, `ReturnIsExact`; `VerdictIsOfTheSet`, `WhatIsShownIsPublished`, `HistoryIsReadBack`; `LayoutIsReadable`, `RepeatedViewKeepsItsOrder`; `MergeLosesNothing`; `PanesYieldToTheRight` |
| `publication_locking` | 2 clients, 4 transactions of any kind, 3 proposals, 2 units | 387,826 | `LocksHoldReads`, `EveryTransactionEnds`, and it implements `ProposalLifecycle` |
| `accounts` | six scenarios: 2 requests, 2 session tokens, 1 link; 2 e-mails, 2 invitations, 2 transactions; 2 addresses, 2 submissions, limit 3, window and block 2, retention 3, 6 ticks, 6 events; 1 grant with two requests that authorize, exchange, renew or disconnect, 2 grants with any request one at a time, 3 pairs of tokens; 2 users, 2 API tokens, 2 requests, lifetime 2 | 1,470,746 | the ten properties of accounts listed below |
| `review_can_succeed` | two additions that close a cycle | violated | see section 7 |
| `resolved_deletions` | a chain of 3 units, deletions only | violated | see section 7 |
| `completed_before` | 2 units, 2 publications | violated | see section 7 |
| `routes_remain` | 2 units, 2 publications, 1 return | violated | see section 7 |
| `targets_follow` | 1 request, 2 publications | violated | see section 7 |
| `unseen_review` | two drafts that overlap, 4 transactions | violated | see section 7 |
| `draft_overview` | a seed and one draft, 2 units | violated | see section 7 |

Why these bounds are enough for the cases that matter:

* Two proposals after a seed are an accepted one and the one it makes stale;
  three units make a chain, a triangle and a cycle through accepted and drafted
  dependencies; three texts tell the base, the accepted work and the draft
  apart. Larger instances are the subject of the proofs, which fix no bound.
* Two returns, an acceptance and completions are every pair of transactions of
  one learner; different learners share no row. Three units and the sets `Chains`
  hold chains, circles and conjunctions; `Routes` publishes the same rule twice.
* One path suffices: no statement relates two paths but the migration, which
  visits them one after the other and holds their locks, so that a second path
  only adds places to wait.
* The 18 changes contain every kind, reversals of published dependencies,
  changes of created units, both directions of two dependencies and duplicate
  recognitions.
* The limits of pages are below those of the code (4, 4, 3, 128 and 60), so that
  pages of five units meet each of them: neighbours are left out, the search stops
  short, and a page is too large to be searched. The graphs hold a crossing that no
  order avoids, identities against the direction of dependencies, separate parts, a
  fan with a dependency that skips a row, and two strands that have to be pulled
  apart. Any graph may follow any other between two pages.
* One client and one repetition are enough for calls: everybody else acts
  through `Elsewhere`, so that a call meets every edit, submission and acceptance
  between any two of its steps. The four scenarios group the tools by what they
  change.
* Three publications are one before and two between the statements of a reader,
  whose dependencies are the reverse of each other; the units of one remain and
  those of another go.
* Sources of three lines and references of two hold overlapping, touching and
  separate changes, insertions at one place by both sides, and deletions of
  everything; five comparisons make the limit of the differences bite.
* The five panes are those of the page of a proposal (`curriculum-modification/`),
  which has the most of all pages, with the modes its templates declare; every
  width at which a mode begins or ceases to fit lies between 42 and 140 rem.
* Four transactions are a draft edit or review, the acceptance that makes it
  stale, and two more between its page and its form.
* Limit 3 with windows of two ticks lets a client straddle two windows, be
  blocked, be forgotten by the cleanup and return.

* Requests of remote clients overlap without lists and revocations: a list is the
  sweep that an authorization begins with, and a revocation is one deletion, as a
  disconnection is. The scenario of two grants has them, and the theorems bound no
  kind of request.

The account properties: `RotationKeepsTheSession` (a browser that sends one
request at a time and receives every answer is never logged out by rotation),
`LinksAreUsedOnce`, `InvitationsAreUsedOnce`, `ContributorsWereInvited`,
`AdmissionsAreBounded` and `RejectionsAreEarned` (a fixed window straddled),
`FailuresNeedDormancy` (a deadlock takes two addresses that a cleanup found dormant
past the retention; the submission that fails may be that of a third, which is not),
`OneRefreshTokenPerGrant`, `GrantsEndureAlone` (a completed grant lasts while
no two requests overlap), and `SecretsReachTheirOwner` (a new API token's secret is
on nobody else's page and on no second page, and it is on the page that its owner is
shown next unless another page or token of that user, an expiry or a restart took it;
a page that takes it and then fails to load shows nothing, and the secret is lost).

`PanesYieldToTheRight` does not say that a pane has what it requires whenever there
is a way: section 7 tells of windows where it has not. It says what the layout does
ensure: a pane has less than it requires only when those to its left have
the least they can, and its next mode does not fit beside that and all that the panes
to its right may ask for.

Two properties of calls deserve a word. `RetriesConverge`: when a call that may be
repeated commits, what it asks for is so, and if it was so before, nothing but the
base of the draft changes. `ReviewersSeeWhatIsPublished`: a proposal is read in
statements of their own, and yet whoever saw it submitted saw what its acceptance
publishes, because its status is read first and a submitted proposal is frozen.
`AdviceLeadsOn` is the like for learners: the four statements of an answer may see
four curricula, but an answer that has pending units also has one that is
available, and an answer that saw a single curriculum is exact.

A type invariant is checked in the run of `CurriculumProposals`, where it is part of
the inductive invariant; those of the other modules stay as definitions, for the
reader and the proofs, which establish them of each module they are about.

Each property has a mutant, a plausible bug in one definition, under which its
run finds it violated. Mutants are marked in the modules and used by nothing.

## 5. Fairness

* `LearningPaths`: strong fairness of each transaction's next statement, because
  PostgreSQL grants a row lock in the order it is asked for, so a statement that
  is enabled again and again is eventually granted; weak fairness of the commit
  of an acceptance and of the deadlock detector, which runs after
  `deadlock_timeout`. `Fail` is unfair. Not promised: that a deletion of a path
  gets its turn, since updates and shared locks may hold the path alternately.
* `PublicationLocking`: weak fairness of each client's transaction. `Rollback` is
  unfair, so `EveryTransactionEnds` says that no circle of waiting has to be
  broken. Weak fairness suffices because the bound on transactions excludes
  starvation by an endless stream of others: this run is about deadlock alone.
* The other specifications state safety only and assume nothing.

## 6. What is proved

TLAPS checks every proof to its leaves, for every value of the constants that
satisfies the named assumptions: the seed is a valid first proposal
(`SeedAssumption`), NULL is no proposal (`NoneAssumption`), the proposals, clients,
tools and publications of a run are of the kinds the code has
(`ProposalsAssumption`, `ToolsAssumption`, `PublishableAssumption`,
`ChangesAssumption`, `StartsAssumption`), and bounds are numbers
(`MaxUnitAssumption` and the `BoundsAssumption` of each module). There are finitely
many units, their dependencies are acyclic in each publication, as
`CurriculumProposals` shows, and pages are those of the code (`UnitAssumption`,
`RequiresAssumption`, `PagesAssumption`). `Accounts` states what its parts assume: a
link and a token are not NULL (`LinksAreTokens`, `FlashesExpire`, the latter also
that a flash lives for some time), the limit is at least two, and a block and the
retention last at least a window (`LimitsAreOrdered`), and requests of remote clients
are of the six kinds (`KindsAreRequests`). The constants of the code satisfy all of
them. No theorem fixes a bound or a number of proposals, clients, learners, paths,
addresses, grants or requests.

Properties that hold only while transactions do not overlap say so of the behaviour
and not of a bound: a history variable, `alone`, is true until one begins while
another is open.

Each safety proof has the same shape. The property alone is seldom inductive; the
module of its proof states the invariant that is, as a conjunction of named
parts, shows it of the initial states and step by step of each action (`...Step`,
`...Inv`), and the theorems follow from it. Temporal steps are used for nothing
else.

**`CurriculumGraph_proofs`.** `CycleCheckAdmitsNoCycle` and
`CycleCheckRefusesOnlyCycles`: the search that guards new dependencies is exact
on every graph. The lemmas `ValidKeepsSound` and `ValidIsProjectable` say that a
valid proposal makes a sound graph of a sound one, and that the database refuses
none of its rows.

**`CurriculumProposals_proofs`.** The inductive invariant is

    IInv == TypeOK /\ PublishedGraphIsSound /\ Anchored /\ SingleLine
                   /\ SubmittedIsPublishable

Soundness alone is not inductive, since acceptance validates nothing:
`SubmittedIsPublishable` carries the validation from submission to acceptance. It
is itself kept because an acceptance moves the head, after which no other
submitted proposal is based on it; that needs bases and head to be accepted
proposals (`Anchored`), none of which is based on the head (`SingleLine`).
`SingleLine` states "one line" without recursion: no two accepted proposals share
a base, and every set that holds the head and its members' bases holds all of
them. `InvStep` treats an acceptance (`AcceptStep`) apart from everything else,
which writes one unaccepted proposal (`UnpublishedStep`). From `IInv` follow

| Theorem | Property |
|---|---|
| `TypeCorrect` | `TypeOK` |
| `PublishedGraphStaysSound` | `PublishedGraphIsSound` |
| `SubmittedStaysPublishable` | `SubmittedIsPublishable` |
| `HistoryStaysLinear` | `HistoryIsLinear` |
| `SubmittedStaysFrozen` | `SubmissionFreezes` |
| `OverlapStaysReviewed` | `OverlapIsReviewed` |
| `DraftsStayNormalized` | `DraftIsNormalizedDiff` |
| `ProposalsImplementPublishedCurriculum` | `ImplementsPublishedCurriculum` |
| `ProposalsImplementLifecycle` | `ImplementsProposalLifecycle` of this module |

For `PublishedCurriculum`, the refinement mapping takes the graph and the head as they are
and the accepted proposals as the lineage; `PublicationStep` shows that an
acceptance is a `Publish` and every other action a stutter. For `ProposalLifecycle`
a row keeps its status, base and changes, and each transaction is one step
(`LifecycleStep`); since `LocksImplementLifecycle` shows the same of
`PublicationLocking`, what the two modules say of a proposal's life is one thing. No
run checks this refinement: the work of a draft is any set of changes, which TLC
would have to enumerate.

`DraftsStayNormalized` needs `DraftsAreDiffs` besides: a draft at the head is a
*diff* of the published graph, each change of which changes something there, and any
draft, stale or not, edits no unit that it creates (`Separate`), so that a rebase
yields a diff again. An edit *improves* a draft (`Improved`): what it leaves is a
diff of the head. That is the claim for each editing action (`UnitEditsImprove`,
`DeletionsImprove`, `RelationsImprove`), and for rebases, whose result is filtered
and merged against the new head (`RebaseImproves`). The step is stated of
`Operation`, which is `Next` without the bounds of the runs (`BoundsOnlyLimit`), so
that `ProposalCalls` can cite it for calls that no bound limits; the other
invariants are preserved by `Transaction`, of which every operation is an instance
(`OperationCases`).

**`ProposalCalls_proofs`.** The invariant of a system with calls is

    CallInv == IInv /\ DraftsAreDiffs /\ TitlesOK /\ RanksExist
                    /\ PublishedIsReplayed /\ CallsOK
                    /\ \A c \in Client : Faithful(call[c])

Each step of a call is an operation of `CurriculumProposals` or leaves its state
alone (`CallIsOperation`), so that everything above holds of calls that overlap
and are repeated: `CallsKeepTheCurriculum` (`PublishedGraphIsSound`,
`SubmittedIsPublishable`, `HistoryIsLinear`), `CallsKeepDraftsNormalized`,
`CallsLeaveSubmittedAlone` and `CallsImplementPublishedCurriculum`.

`PublishedCurriculumIsReplayed` says that the published graph is what replaying
the accepted proposals from the seed yields. `GraphAt`, the replay, is a recursive
function over proposals; it is well defined because bases rank below what is
based on them (`RanksExist`), and a smallest counterexample takes the place of an
induction.

`ReviewersSeeIt` (`ReviewersSeeWhatIsPublished`) then rests on `Faithful`: a call
that found a proposal submitted has read its base, and after the second statement
its changes, as they stay, because what is submitted is frozen; what it draws is the
replay of the base with those changes. An acceptance publishes the head with them,
and the base is the head then.

`RetriesAreSafe` (`RetriesConverge`) goes through the tools. A mutation leaves the
draft with the changes it commits on the head (`CommittedDraft`), and the draft was a
diff when it began (`Begun`). So a request that was already achieved computes the
changes the draft has: a dependency that is there is not added, a text that is there
replaces itself, and a text restored to the published one leaves no change
(`CreatedTextsConverge`, `PublishedTextsConverge`, `DependenciesConverge`,
`RecognitionsConverge`), while deletions, discarded changes, rebases and reviews
are refused when they were done (`DeletionsConverge`, `ChangesConverge`). The
diff is what makes this true: two creations of one unit, or an edit equal to
the published text, would be replaced by something else.

**`PublicationLocking_proofs`.** With any number of clients and transactions,

    Inv == Typed /\ LocksInOrder /\ Exclusion /\ Existence
           /\ HeadsWerePublished /\ HeadsAreHeld /\ RowsAreHeld

`LocksInOrder` says how far a transaction is along the locks of its kind, `Exclusion`
what a held lock rules out for others, and the last two that what a holder has read
is what is there, up to its write.

| Theorem | Property |
|---|---|
| `TypeCorrect` | `TypeOK` |
| `ReadsAreHeld` | `LocksHoldReads` |
| `NoDeadlock` | `SomebodyGoesOn`: whenever transactions are open, one can take its next statement |
| `LocksImplementLifecycle` | `ImplementsProposalLifecycle` |

`NoDeadlock` is the safety half of the run's `EveryTransactionEnds`, without
`ENABLED`: who holds the projection waits for a proposal at most, and who holds that
waits for nothing, as the projection is locked first wherever both are. In the
refinement a commit is the atomic step, made with the row and the head that
`RowsAreHeld` and `HeadsAreHeld` give it, and every other statement a stutter.

**`LearningProgress_proofs`.** `RecognitionsAreEarned`
(`RecognizedFromEarlierEvidence`), `RecognitionsAreNotRevived`
(`GrantedAtPublication`) and `TypeCorrect` follow from

    Inv == Typed /\ RowsAreLocked /\ CompletionsWereRecorded
           /\ InsertionsAreGrounded /\ RecognizedFromEarlierEvidence

where the rows that an open acceptance inserts are of its rules and grounded in
completions that were recorded before (`InsertionsAreGrounded`), and no row is deleted by
two returns (`RowsAreLocked`). `ReturnsAreExact` (`ReturnIsExact`) and `EvidenceIsKept`
(`ChainsOfEvidence`) are about behaviours in which transactions have not overlapped so
far. As long as that is so (`alone`), the parts of

    InvAlone == OneAtATime /\ ReturnsDelete /\ InsertionsAreSupported
                /\ EvidenceIsChained

hold. `ReturnsDelete` bounds what a return has deleted on its way: no row that is
still grounded is gone, and at its end each row that stays is supported by
completions or by rows that stay. Support comes from earlier publications only, so
that rows which support each other in a circle have an earliest one without support,
and what stays is exactly what is `Grounded` (`GroundedSolves`). `Grounded` is a
recursive function over publications; its values are characterized by sets of stages
(`StagesExist`) with an induction over a set of numbers (`SetInduction`).

**`LearningPaths_proofs`.**

    Inv == Typed /\ TargetsBelong /\ EveryPathHasATarget /\ Updates
           /\ PathsAreHeld /\ MigrationsAdd /\ TargetsAreHeld
           /\ MigrationsTouch /\ MigrationsLeaveTargets

| Theorem | Property | Needs besides `Inv` |
|---|---|---|
| `TypeCorrect` | `TypeOK` | |
| `PathsHaveTargets` | `EveryPathHasATarget` | |
| `UpdatesStoreTheirLists` | `UpdateStoresItsList`: an update that commits leaves the list of its request | |
| `MigrationsExact` | `MigrationIsExact` | `MigrationsFollow` |
| `TargetsAreRecognized` | `TargetsAreWanted` | `TargetsWanted` |
| `AdviceIsGiven` (of `StudySpec`) | `AdviceLeadsOn` | `StudyTyped`, `ReadsAreOfTheirMoment` |

A path is never empty because an open acceptance leaves a target to each path or
still owes it one (`MigrationsLeaveTargets`), because no request writes a target that a
migration has written (`TargetsAreHeld`), and because an update that has cleared a
path holds it (`PathsAreHeld`). `MigrationsFollow` relates the statements still
to come to the plan, and the plan to the rules of the publication; `TargetsWanted`
adds the migrations on the way to what a path is about, and uses that rules add
units and are monotonic (`GrownGrows`, `RecognizedGrows`, `NextRecognized`).

`AdviceIsGiven` is about a reader whose four statements may see four curricula.
`ReadsAreOfTheirMoment` says that the dependencies it has are those of some
publication, and that a reader which saw one head has the units and dependencies of
that head: the line of publications only grows, so that its first part stays
(`LineStays`). What is pending is a finite set of units, and one of them requires no
other, since the dependencies are acyclic: that one is available
(`FirstIsAvailable`). For the exact answer two definitions of what a path includes
have to agree, the smallest set closed under the dependencies and what as many steps
as there are units reach (`AvailableIsDue`): a step that ends nowhere new ends the
search, and each that does adds a unit, so that there are no more of them than units
(`ReachEnds`, by counting).

**`Accounts_proofs`.** Four parts, each with an invariant of its own over any number
of users, browsers' requests, addresses, grants and tokens.

| Theorem | Property |
|---|---|
| `SessionsTypeCorrect`, `LimitsTypeCorrect`, `ConnectionsTypeCorrect`, `TokensTypeCorrect` | `TypeOK` of each part |
| `RotationIsKept` | `RotationKeepsTheSession` |
| `LinksUsedOnce` | `LinksAreUsedOnce` |
| `AdmissionsStayBounded` | `AdmissionsAreBounded` |
| `RejectionsStayEarned` | `RejectionsAreEarned` |
| `FailuresStayDormant` | `FailuresNeedDormancy` |
| `OneRefreshToken` | `OneRefreshTokenPerGrant` |
| `GrantsLastAlone` | `GrantsEndureAlone` |
| `SecretsReachOwners` | `SecretsReachTheirOwner` |

*Sessions.* `BrowsingInvariant == SessionsTyped /\ CookiesLive /\ LinksWait`.
`CookiesLive` follows the cookie of a browser that sends one request at a time and
receives the answers: between requests it is the jar's, during one the cookie that
the answer sets or, if it sets none, the jar's, and it is the token of a session
either way. `LinksWait` says that one request at most holds the row of the link, that
it found the link current, and that a current link has not been used.

*Rate limits.* `LimitsInvariant == LimitsTyped /\ Serving /\ LocksHold /\
WindowsCount`. The row of an address is a summary: it forgets the windows before,
and the cleanup deletes it. So `WindowsCount` gives each address two witnesses, the
start of the window in which each of its submissions fell and its number there, and
says that windows do not overlap and count what falls in them (`Counted`), that
verdicts follow from those numbers (`Judged`), and that the row stands for the last
submission unless that has been dormant past the retention (`Represented`). A window
admits `Limit - 1` submissions at most, and a stretch of its length meets two
windows at most, of which it misses the first submission of the earlier one.
`Serving` and `LocksHold` relate what a cleanup has picked to the rows that were old
when the clock ticked last, for the deadlocks.

*Connections.*

    ConnectionsInvariant == ConnectionsTyped /\ Serves /\ DeletionsExclude
                            /\ OneCredential /\ GrantsLast

A request adds a refresh token only after it has deleted the code or the token it
names (`Serves`), a row is deleted by one request at a time (`DeletionsExclude`), and
so the code and the refresh tokens of a grant are one row at most (`OneCredential`),
however requests overlap. `GrantsLast` holds while they have not: it bounds what the
statements of a request on its way have deleted (`Calm`) by what has expired, what
the request names, and connections without other tokens (`Loose`).

*Tokens.* `TokensInvariant == TokensTyped /\ SecretsAreFresh /\ SecretsAreAlone /\
FlashesWait /\ PagesShow`. A secret is in one place at a time (`SecretsAreAlone`), in
none before it is drawn and in none but the page once it was shown
(`SecretsAreFresh`), or it is lost with the request that took it; the flash that an
undisturbed page will take is there as long as it lives (`FlashesWait`), and the
request that took it carries it until the page is rendered (`PagesShow`).

**`ContributorInvitations_proofs`.** `InvitationsAreUsedOnce` and
`ContributorsWereInvited` are proved with

    Inv == TypeOK /\ HeldInvitations /\ HeldEmails /\ Exclusive
                  /\ InvitationsAreUsedOnce /\ ContributorsWereInvited

`HeldInvitations` says that an invitation which a transaction has marked can
still be accepted, `HeldEmails` that one which inserts a user does so for an
e-mail without account, and `Exclusive` that no two transactions hold the same
row: together they are what the database's row locks give a commit.
`CommitStep` is where they are used. Theorems: `TypeCorrect`,
`InvitationsUsedOnce`, `ContributorsInvited`.

Only model-checked, as out of the prover's reach:

* both `EveryTransactionEnds`, and with them the fairness of section 5 (liveness and
  `ENABLED`);
* `VerdictIsOfTheSet`, `WhatIsShownIsPublished` and `HistoryIsReadBack` of
  `CurriculumReplay`: six folds over sorted rows, whose value
  for every length is an induction over data (the library's folds recurse over all
  subsets of positions, its sorting over all permutations);
* `MergeLosesNothing` and `PanesYieldToTheRight` (`MergeEditor`, `PanelLayout`), for the
  same reason;
* `LayoutIsReadable` and `RepeatedViewKeepsItsOrder`, and with them
  `CurriculumLayout`, `GraphNavigation` and `DraftPages`: the search of the layout is a
  recursive operator.

Where a recursive function ranges over a set of numbers (`GraphAt`, `Grounded`,
`Recognized`, `Due`), the proofs above go through the set of its solutions instead.

## 7. Disagreements found

| Run | Property | Disagreement |
|---|---|---|
| `review_can_succeed` | `ReviewCanSucceed` | A stale draft with one conflict, whose *other* change closes a cycle with accepted work, has no review that succeeds: the candidate is validated as a whole, the author may only drop conflicts, and edits are refused until the review is done (`services/curriculum_rebase.go:253`, `services/curriculum.go:688`; against `docs/specification.md:299-302`). |
| `resolved_deletions` | `ResolvedDeletionsAreValid` | A draft that deletes a dependent and then its prerequisite is refused at submission when the prerequisite has the smaller identity, since deletions are replayed by identity (`services/curriculum_validation.go:316`; against `docs/specification.md:86-87`). |
| `completed_before` | `CompletedBeforeIsRecognized` | A completion that commits while an acceptance is open, after its materializing statement, is never recognized (`db/completed_units.go:130`; against `docs/specification.md:260-261`). |
| `routes_remain` | `ReturnsRevealOtherRoutes` | Returning a direct completion deletes the recognition of the unit too, and nothing grants it again, though the learner's other direct completions still support it (`db/completed_units.go:116`; against `docs/implementation/recognitions.md:50-52`). |
| `targets_follow` | `TargetsFollowRecognitions` | A path written while an acceptance is open keeps a source without the targets of its recognition (`db/learning_paths.go:150`; against `docs/specification.md:279-280`). |
| `unseen_review` | `ReviewedWorkWasShown` | A review submitted after another acceptance is applied to a newer plan, over work its author was not shown (`services/curriculum_rebase.go:230`; against `docs/specification.md:299-302`). |
| `draft_overview` | `OpenProposalsHaveAnOverview` | A draft that removes a dependency and adds its reverse is valid, and its overview, which draws both, is circular: the layout fails and the page answers with an error (`server/curriculum_modification_views.go:200`; against `docs/implementation/graph-navigation.md:130-132`). |

More were met without a run of their own. A cleanup whose statement began while a
connection had no tokens deletes it after a new consent has renewed it
(`db/oauth_tokens.go:278`, against `docs/implementation/mcp.md:144-145`): that a
completed grant lasts is so of requests that come one at a time, which is what
`GrantsEndureAlone` states, and not when a cleanup overlaps a consent. And
`stabilizeCurriculumNodeLanes` may put a unit on the lane of a dependency that
passes by, when other units move after it: `LayoutIsReadable` asks for free lanes of
pages drawn without hints only. In `layoutGroup`, panels give up modes for one that
wants a larger mode even when it does not get it in the end
(`src/app/web/static/js/panel_layout.js:243-256`, against
`docs/implementation/pane-layout-and-transitions.md:24-25`, "collapsing lower-priority
panes on the left when necessary", and `:29-33`, where only a pane to the right whose
own required mode does not fit takes from what "should normally remain usable"). With
the list of proposals and one proposal in a window of 44 rem, the list shrinks
to its 4rem breadcrumb, the proposal still does not get its 38 rem, and takes the freed
width as spare: both would have fitted in the 20 rem they require. So it is with three
panes of the releases pages in 69 rem. `PanesYieldToTheRight` allows this case.

Documents that say more than the code does, or one thing and its opposite:

* `docs/implementation/recognitions.md:34-40` says that a return removes the unit's
  direct and derived rows and rematerializes nothing, as the code does, and
  `GrantedAtPublication` and `ReturnIsExact` state that; `:50-52` says that
  it rebuilds derived progress, which is what `routes_remain` shows to be false.
* `db/curriculum_projection.go:11-12` and
  `docs/implementation/curriculum-publishing.md:39-41` keep the full replay of the
  lineage for recovery. Its last statement sets the projection's head
  (`db/curriculum_projection.go:229-236`), and the trigger of
  `000001_initialize.sql:337-346` refuses every head but a direct successor of
  the one that is set: a rebuild at the current head always fails and is rolled back.
  Nothing calls it, and it is not modelled.
* `docs/implementation/authentication-rate-limits.md:9-10` has the eleventh submission
  within 15 minutes rejected. Windows are fixed, so that is so of the eleventh in one
  window; a stretch of 15 minutes that meets two windows admits up to 19, the ten of
  one and nine of the other, which is the bound of `AdmissionsAreBounded`.

Facts about calls that no property denies:

* `submit_proposal` compares `expected_title` with the title before the
  transaction that submits (`server/mcpadapter/proposal_tools.go:325`): a title
  that is edited in between is submitted unseen. `resolve_proposal_rebase` plans
  first and lets the service plan again.
* `apiCreateProposal`, `apiCreateLearningPath`, `apiUpdateLearningPath` and their MCP
  twins read the row back after the commit and use the result without asking
  whether it is there; a deletion in between leaves them nothing.
* A read of recommendations that an acceptance overlaps may name a unit that was
  never available, or leave out a path; an edit of a path whose target was retired
  is refused until the target is taken out.
* A secret is lost for good when another tab of its owner takes or replaces it, when
  the page comes too late, when the server restarts, or when the page fails after
  it took the secret (`server/account.go:61`, and the three errors of `renderAccount`,
  118-137): the token remains and can be revoked.

## 8. What is abstracted, and what is not modelled

* Titles, rationales, names of paths, passwords, wording and formatting are not
  state. Texts are members of a small set; whether two are equal is all the code
  asks. Tokens are numbers: no two are equal, none can be guessed.
* `CurriculumProposals` takes transactions as atomic; `PublicationLocking` shows
  why. The latter leaves out the key-share locks of foreign keys: no transaction
  that waits for one holds a lock another waits for.
* A step of the statement-level modules is one SQL statement. In
  `LearningProgress`, a statement that waits for a row runs as if issued when
  the row is free.
* In `CurriculumReplay` the identity of a change is its position in the
  proposal: identities only order rows of equal kind and unit.
* In `Sessions` and `AuthenticationRateLimits` a tick is longer than a request.
* In `OAuthConnections` the three deletions of expired rows are one statement;
  there is one user, one client and one resource.
* Deleting a draft is assumed to succeed in full; the order of the referential
  actions of its cascades is the database's business.
* In `CurriculumLayout` a unit is its identity, which also stands for its place in
  the list that the database returns; the key of an order, a string in the code,
  compares like the sequence of its units, which is the same for identities of one
  digit. Lanes are multiples of `Scale` until they are compacted, so that half lanes
  are integers. `Layout` is defined for graphs that can be ordered (`CanBeOrdered`):
  the code answers others with an error.
* `DraftPages` leaves out drafts that need review and submitted ones that are
  outdated, which are drawn over their old base.
* `RebuildCurriculumProjection` has no caller and is not modelled (section 7).

* In `ProposalCalls` a call names a proposal that exists when it is sent, and the
  identity of a deleted draft is not used again while a call holds it. Numbers of
  REST resources are identities.
* In `StudyGuide` the completions of a page are one statement; the code reads them
  in two, and every mixture of the two is a set that one statement could have read.
  What is recognized is any choice of the rules of the acceptance.
* In `AccountTokens` a tick is far longer than a request; the hash of a token and
  its use to authenticate are single statements and left out.
* In `MergeEditor` a line is a value and a text a sequence of them: a line that
  is joined to the next because its newline was deleted is not modelled.
* In `PanelLayout` a rem is 120 units, so that padding is shared by up to five panes
  without remainder; the code rounds to thousandths of a rem. A layout is one
  step with what asked for it.

Not modelled: the curves that the browser draws; search by name (one query); the
transitions of panels, whose callbacks run when the browser likes, pickers and inline
editing; the decoding, authorization by role, schemas and rendering of the
adapters; Markdown and the pairing of similar lines and words in views (string
processing without state); e-mail provider, object store, configuration, migrations
and generators (external, or run before any request).
