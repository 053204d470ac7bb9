-------------------------------- MODULE MCLocal --------------------------------
(* The components of the local server that work on files, each on a small      *)
(* instance of its own.  They share no variable, so an instance chooses one of *)
(* them at the start and lets it alone take steps.                             *)
EXTENDS JobEvidence, ReleaseAcceptance, PilotRecords, LocalPublish, Paging, PdfMarking

VARIABLE focus
focusVars == <<focus, evidenceVars, acceptanceVars, pilotVars, localVars, pagingVars, markingVars>>

MCSheets == [j \in Jobs |-> j]
\* One content all of whose frames match, and one with a frame that fails two tests.
MCFrames == [good |-> <<{}>>, bad |-> <<{}, {"low_confidence", "unsupported_scale"}>>]

MCCharacters == {"(", ")", "\\", "%", "/", "[", "]", "<", ">", "n", "f", "I"}

\* The components out of focus have one initial state.
Init ==
  /\ focus \in {"evidence", "acceptance", "pilot", "publish", "paging", "marking"}
  /\ MarkingInit /\ (focus # "marking" => content = <<>> /\ ~cut)
  /\ AcceptanceInit /\ (focus # "acceptance" => kit["outer"].build = CHOOSE b \in Builds : TRUE)
  /\ PilotInit
  /\ focus # "pilot" => \A r \in Releases : Running(r).commit = CHOOSE c \in Commits : TRUE
  /\ LocalInit /\ (focus # "publish" => \A d \in Drawings : project[d].bytes = "good")
  /\ EvidenceInit /\ PagingInit

Next ==
  /\ UNCHANGED focus
  /\ \/ /\ focus = "evidence" /\ EvidenceNext
        /\ UNCHANGED <<acceptanceVars, pilotVars, localVars, pagingVars, markingVars>>
     \/ /\ focus = "acceptance" /\ AcceptanceNext
        /\ UNCHANGED <<evidenceVars, pilotVars, localVars, pagingVars, markingVars>>
     \/ /\ focus = "pilot" /\ PilotNext
        /\ UNCHANGED <<evidenceVars, acceptanceVars, localVars, pagingVars, markingVars>>
     \/ /\ focus = "publish" /\ LocalNext
        /\ UNCHANGED <<evidenceVars, acceptanceVars, pilotVars, pagingVars, markingVars>>
     \/ /\ focus = "paging" /\ PagingNext
        /\ UNCHANGED <<evidenceVars, acceptanceVars, pilotVars, localVars, markingVars>>
     \/ /\ focus = "marking" /\ MarkingNext
        /\ UNCHANGED <<evidenceVars, acceptanceVars, pilotVars, localVars, pagingVars>>

Spec == Init /\ [][Next]_focusVars

\* The component that takes steps keeps its state within its types.
LocalTypeOK ==
  CASE focus = "evidence" -> EvidenceTypeOK
    [] focus = "acceptance" -> AcceptanceTypeOK
    [] focus = "pilot" -> PilotTypeOK
    [] focus = "publish" -> PublishTypeOK
    [] focus = "paging" -> PagingTypeOK
    [] focus = "marking" -> MarkingTypeOK
=============================================================================
