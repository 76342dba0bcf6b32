-------------------------- MODULE MCProposalScenarios --------------------------
(***************************************************************************)
(* The ways contributors work on drafts, in one model: "editing", the      *)
(* graph of three units; "contents", texts and recognitions of two, where  *)
(* both can be of units the draft creates; "duplicates", recognitions that *)
(* a draft declares twice; and at a distance "texts", "graphs" and "titles", *)
(* calls that are repeated, and "reviews", reads of what others edit.  The *)
(* configuration gives the widest constants.                               *)
(***************************************************************************)
EXTENDS MCCurriculumProposals, ProposalCalls

VARIABLE scenario

Editing == INSTANCE CurriculumProposals
    WITH Text <- {"a", "b"}, MaxUnit <- 3, Seed <- PairSeed, MaxChanges <- 3, MaxCopies <- 1,
         Calls <- {"create_unit", "delete_unit", "set_dependency", "delete_change",
                   "auto_rebase", "resolve", "delete_proposal", "reject"}

ContentCalls == {"update_fields", "recognition", "ensure_recognition", "delete_unit",
                 "delete_change", "auto_rebase", "resolve"}

Contents == INSTANCE CurriculumProposals
    WITH Text <- {"a", "b"}, MaxUnit <- 2, Seed <- SoloSeed, MaxChanges <- 2, MaxCopies <- 1,
         Calls <- ContentCalls \cup {"create_unit"}

Duplicates == INSTANCE CurriculumProposals
    WITH MaxUnit <- 2, Seed <- SoloSeed, MaxChanges <- 2, MaxCopies <- 2,
         Calls <- ContentCalls

RepeatedTexts == INSTANCE ProposalCalls
    WITH Text <- {"a", "b"}, MaxUnit <- 1, Seed <- SoloSeed, MaxChanges <- 2, MaxCopies <- 2,
         Calls <- {}, Via <- {"mcp"}, Title <- {"t"},
         Tools <- {"update_proposal_unit", "add_proposal_recognition",
                   "resolve_proposal_rebase"}

RepeatedGraphs == INSTANCE ProposalCalls
    WITH Text <- {"a"}, MaxUnit <- 2, Seed <- PairSeed, MaxChanges <- 2, MaxCopies <- 1,
         Calls <- {}, Via <- {"mcp"}, Title <- {"t"},
         Tools <- {"set_proposal_dependency", "delete_proposal_unit",
                   "delete_proposal_change", "create_proposal_unit"}

RepeatedTitles == INSTANCE ProposalCalls
    WITH Text <- {"a"}, MaxUnit <- 1, Seed <- SoloSeed, MaxChanges <- 1, MaxCopies <- 1,
         Calls <- {}, Via <- {"mcp"},
         Tools <- {"create_proposal", "update_proposal", "delete_proposal",
                   "delete_proposal_unit", "submit_proposal", "accept_proposal",
                   "reject_proposal"}

Reviews == INSTANCE ProposalCalls
    WITH Text <- {"a", "b"}, MaxUnit <- 1, Seed <- SoloSeed, MaxChanges <- 1, MaxCopies <- 1,
         Calls <- {"update_fields", "recognition"}, Via <- {"rest"}, Title <- {"t"},
         Tools <- {"get_proposal"}

AtADistance ==
    \/ scenario = "texts" /\ RepeatedTexts!CallNext
    \/ scenario = "graphs" /\ RepeatedGraphs!CallNext
    \/ scenario = "titles" /\ RepeatedTitles!CallNext
    \/ scenario = "reviews" /\ Reviews!CallNext

ScenarioInit ==
    \/ /\ \/ scenario = "editing" /\ Editing!Init
          \/ scenario = "contents" /\ Contents!Init
          \/ scenario = "duplicates" /\ Duplicates!Init
       /\ title = [p \in Proposals |-> None]
       /\ call = [c \in Client |-> Idle]
    \/ scenario = "texts" /\ RepeatedTexts!CallInit
    \/ scenario = "graphs" /\ RepeatedGraphs!CallInit
    \/ scenario = "titles" /\ RepeatedTitles!CallInit
    \/ scenario = "reviews" /\ Reviews!CallInit

ScenarioNext ==
    /\ \/ /\ \/ scenario = "editing" /\ Editing!Next
             \/ scenario = "contents" /\ Contents!Next
             \/ scenario = "duplicates" /\ Duplicates!Next
          /\ UNCHANGED <<title, call>>
       \/ AtADistance
    /\ UNCHANGED scenario

ScenarioSpec == ScenarioInit /\ [][ScenarioNext]_<<callVars, scenario>>

================================================================================
