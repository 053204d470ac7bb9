----------------------------- MODULE MCWorkstation -----------------------------
(* What a workstation keeps: plots from the publish queue, English copies of   *)
(* drawings, and the names of its projects and drawings.  They share no file   *)
(* that any of them writes and no table, so an instance chooses one of them at *)
(* the start and lets it alone take steps.                                     *)
EXTENDS MCPublishQueue, Translation, LocalReferences

VARIABLE focus
workstationVars == <<focus, vars, translationVars, referenceVars>>

\* Two Turkish texts; one of them on a locked layer; a table with controls in it.
Drawing(kind, text, locked) ==
  [kind |-> ("e1" :> "text") @@ ("e2" :> kind), text |-> ("e1" :> "kapi") @@ ("e2" :> text),
   locked |-> locked]
MCVersions ==
  {Drawing("text", "kapi", {}), Drawing("text", "kapi", {"e2"}), Drawing("table", "control", {})}

\* Two paths that the file system tells apart may fold alike (sharp s, written sz here).
MCKey == [f \in Files |-> IF f = "kroki" THEN "kroki" ELSE "strasse"]
MCFolded == [a \in {"North", "NORTH", "south"} |-> IF a = "south" THEN "south" ELSE "north"]
Entry(project, alias, root) == [project |-> project, alias |-> alias, root |-> root]
MCConfigurations ==
  {<<Entry("prj1", "North", "d1"), Entry("prj2", "south", "d2")>>,
   <<Entry("prj2", "NORTH", "d2")>>, <<Entry("prj2", "south", "d1")>>}

WorkstationInit ==
  /\ focus \in {"queue", "translation", "references"}
  /\ Init /\ TranslationInit /\ ReferencesInit
  /\ focus # "translation" => source.content = Drawing("text", "kapi", {})
  /\ focus = "references" => tree = {<<"d1">>, <<"d2">>, <<"d1", "strasse">>, <<"d2", "kroki">>}
  /\ focus # "references" => tree = {}

WorkstationNext ==
  /\ UNCHANGED focus
  /\ \/ focus = "queue" /\ Next /\ UNCHANGED <<translationVars, referenceVars>>
     \/ focus = "translation" /\ TranslationNext /\ UNCHANGED <<vars, referenceVars>>
     \/ focus = "references" /\ ReferencesNext /\ UNCHANGED <<vars, translationVars>>

WorkstationSpec == WorkstationInit /\ [][WorkstationNext]_workstationVars
=============================================================================
