----------------------------- MODULE MCDesktop -----------------------------
(***************************************************************************)
(* The slices of the window side by side.  Each keeps variables of its own *)
(* and shares no step with another, so a behaviour moves one of Parts and  *)
(* leaves the others in a state the program starts in.                     *)
(***************************************************************************)
EXTENDS LocalData, RoutingEditor, Workspace, ExportFile, SourceImport, DatabaseFile, Credentials

CONSTANTS Parts, P, Q, R

MCOrder == <<P, Q, R>>
\* One candidate or more, each of another provider, made with m1 unless it is Q's with
\* contents of its own; and one list that names a provider twice.
MCStored ==
  {[n \in DOMAIN s |-> [provider |-> s[n], made |-> IF s[n] = Q THEN own ELSE "m1"]] :
     s \in SetToAllKPermutations({P, Q, R}) \ {<<>>}, own \in {"m1", "own"}}
  \cup {<<[provider |-> P, made |-> "m1"], [provider |-> Q, made |-> "m1"], [provider |-> P, made |-> "own"]>>}

MCSlots == <<"key", "headers">>

VARIABLE part

\* Init of the slice that moves; of the others one of its states.
Start(name, first, init) == (part # name => first) /\ init

MCInit ==
  /\ part \in Parts
  /\ Start("local",
           kept = [ok |-> TRUE, on |-> [k \in Logs |-> TRUE], items |-> [k \in Logs \cup Libraries |-> {}]],
           LdInit)
  /\ Start("routing",
           profiles = [j \in {CHOOSE i \in RouteIds : TRUE} |-> CHOOSE p \in StoredProfiles : TRUE],
           ReInit /\ provider = [p \in {P, Q, R} |-> "m1"])
  /\ Start("workspace",
           works = [j \in WsJobs |-> [state |-> "Pending", quality |-> "standard", news |-> FALSE]], WsInit)
  /\ ExInit
  /\ Start("import", tmpdirs = {}, SiInit)
  /\ Start("database",
           /\ parent = [dir |-> 1, link |-> FALSE]
           /\ inside = [d \in DbDirs |-> [db |-> 0, side |-> 0]], DbInit)
  /\ Start("credentials", locked = FALSE, CrInit)

MCNext ==
  \/ part = "local" /\ LdNext /\ UNCHANGED <<part, reVars, wsVars, exVars, siVars, dbVars, crVars>>
  \/ part = "routing" /\ ReNext /\ UNCHANGED <<part, ldVars, wsVars, exVars, siVars, dbVars, crVars>>
  \/ part = "workspace" /\ WsNext /\ UNCHANGED <<part, ldVars, reVars, exVars, siVars, dbVars, crVars>>
  \/ part = "export" /\ ExNext /\ UNCHANGED <<part, ldVars, reVars, wsVars, siVars, dbVars, crVars>>
  \/ part = "import" /\ SiNext /\ UNCHANGED <<part, ldVars, reVars, wsVars, exVars, dbVars, crVars>>
  \/ part = "database" /\ DbNext /\ UNCHANGED <<part, ldVars, reVars, wsVars, exVars, siVars, crVars>>
  \/ part = "credentials" /\ CrNext /\ UNCHANGED <<part, ldVars, reVars, wsVars, exVars, siVars, dbVars>>

\* The window goes on whatever the user does and the worker reports: no callback runs
\* into the borrow of AppState that its caller holds, neither in the workspace, nor in
\* the routing dialog, nor while a prompt of the keyring is shown.
WindowSurvives == ~panicked /\ ~aborted /\ ~dead
============================================================================
