--------------------------- MODULE ProviderSession ---------------------------
(***************************************************************************)
(* The GTK thread and the core worker together, for the provider session:  *)
(* connecting, testing, selecting a model, deleting a saved profile,       *)
(* translating one text, and stopping.  The two share a bounded command    *)
(* queue (try_send never blocks), an event queue, and the slot             *)
(* `active_cancellation` through which Stop reaches the running operation  *)
(* without waiting for the queue.  The profile store and the Secret        *)
(* Service survive a crash; everything else is rebuilt from the store.     *)
(*                                                                         *)
(* Left out: document jobs, fallback and routing (commands of their own),  *)
(* events that only move a notice or a counter, and the 64-event limit of  *)
(* the event queue (the UI thread never blocks, so a full queue only       *)
(* delays the worker).                                                     *)
(***************************************************************************)
EXTENDS AppStateOps, SequencesExt

CONSTANTS
  MaxOps,       \* bound: commands the user sends in one life of the process
  MaxCrashes,   \* bound: crashes of the process
  CmdCap,       \* COMMAND_CAPACITY
  Unawaited     \* the sources of failure reports that the UI does not wait for:
                \* "test" (Test connection), "cleanup" (removing stored secrets after
                \* a deletion), "storage" (a failed write of the profile database)

ASSUME SessionAssumption ==
  /\ MaxOps \in Nat /\ MaxCrashes \in Nat /\ CmdCap \in Nat \ {0}
  /\ Unawaited \subseteq {"test", "cleanup", "storage"}

VARIABLES
  ui,          \* AppState
  cmds,        \* the command queue
  evts,        \* the event queue
  wk,          \* the worker's active_profile, models, active_saved_profile, selected_model
  job,         \* what the worker awaits
  slot,        \* active_cancellation: a token or None
  cancelled,   \* the cancelled tokens
  store,       \* the profile database: open handle, rows, active id
  ops,         \* commands sent so far
  crashes

vars == <<ui, cmds, evts, wk, job, slot, cancelled, store, ops, crashes>>

\* A queued Connect carries the token ops; the worker's own operations use token 0.
JobToken == 0

\* Everything the window shows is a behaviour of the UI thread alone.
UiThread == INSTANCE AppState WITH MaxSequence <- 2
Idle == [kind |-> "idle"]
NoProvider == [profile |-> None, models |-> {}, saved |-> None, model |-> None]

---------------------------------------------------------------------------
(* Start: the worker reports what it restored, or that it could not start. *)

Restored(s) == [ev |-> "ProfilesRestored", rows |-> s.rows, id |-> s.active]

StartupReports(s) ==
  {<<Restored(s), [ev |-> "DemoProviderReady"]>>,
   <<[ev |-> "ProfileStorageUnavailable"], [ev |-> "DemoProviderReady"]>>,
   <<Restored(s), [ev |-> "Rejected"], [ev |-> "Stopped"]>>,
   <<[ev |-> "Rejected"], [ev |-> "Stopped"]>>}

Launch(s) ==
  /\ evts \in StartupReports(s)
  /\ store = [s EXCEPT !.open = (evts[1] = Restored(s))]
  /\ job = IF Last(evts).ev = "Stopped" THEN [kind |-> "stopped"] ELSE Idle
  /\ ui = DefaultState /\ cmds = <<>> /\ wk = NoProvider
  /\ slot = None /\ cancelled = {} /\ ops = 0

EmptyStore == [open |-> TRUE, rows |-> NoRows, active |-> None]

Init == Launch(EmptyStore) /\ crashes = 0

\* The process dies at any point; only the database is there after the restart.
Crash ==
  /\ crashes < MaxCrashes
  /\ crashes' = crashes + 1
  /\ \E w \in StartupReports(store) :
       /\ evts' = w
       /\ store' = [store EXCEPT !.open = (w[1] = Restored(store))]
       /\ job' = IF Last(w).ev = "Stopped" THEN [kind |-> "stopped"] ELSE Idle
  /\ ui' = DefaultState /\ cmds' = <<>> /\ wk' = NoProvider
  /\ slot' = None /\ cancelled' = {} /\ ops' = 0

---------------------------------------------------------------------------
(* CoreWorker::try_send.                                                   *)

HasRoom == Len(cmds) < CmdCap

\* c is queued and the UI is left in state ok, or the queue is full and it is left in bad.
Send(c, ok, bad) ==
  /\ ops < MaxOps /\ ops' = ops + 1
  /\ \/ HasRoom /\ cmds' = Append(cmds, c) /\ ui' = ok
     \/ ~HasRoom /\ cmds' = cmds /\ ui' = bad

\* Cancel goes straight to the token in the slot, else into the queue.
SendCancel(ok, bad) ==
  \/ slot # None /\ cancelled' = cancelled \cup {slot} /\ cmds' = cmds /\ ui' = ok
  \/ slot = None /\ cancelled' = cancelled
     /\ \/ HasRoom /\ cmds' = Append(cmds, [op |-> "Cancel"]) /\ ui' = ok
        \/ ~HasRoom /\ cmds' = cmds /\ ui' = bad

---------------------------------------------------------------------------
(* Handlers of the window.                                                 *)

\* The form describes the selected saved profile, edited, or a new draft.
FormProfiles(remember) ==
  {p \in Profiles :
     LET old == IF ui.selected_saved = None THEN None ELSE ui.saved_profiles[ui.selected_saved]
     IN  /\ IF old = None THEN ~IsSaved(ui, p.id) ELSE p.id = old.id
         /\ p.secret \in {IF remember THEN "persistent" ELSE "session",
                          IF old = None THEN "none" ELSE old.secret}}

\* install_connection_cancellation_if_idle, undone if the queue is full.
ClickConnect(p, remember) ==
  LET n == ops + 1
      begun == begin_provider_connection(ui, p, remember)
  IN  /\ provider_controls_enabled(ui)
      /\ remember => storage_available(ui)
      /\ p \in FormProfiles(remember)
      /\ begin_provider_connection_ok(ui, p, remember)
      /\ Send([op |-> "Connect", profile |-> p, remember |-> remember, n |-> n],
              begun, provider_failed(begun))
      /\ slot' = IF slot = None /\ HasRoom THEN n ELSE slot
      /\ UNCHANGED <<evts, wk, job, cancelled, store, crashes>>

\* A form that is invalid, a disabled profile, or a credential that cannot be stored.
ClickConnectInvalid ==
  /\ provider_controls_enabled(ui)
  /\ ui' = provider_failed(ui)
  /\ UNCHANGED <<cmds, evts, wk, job, slot, cancelled, store, ops, crashes>>

\* Fault: the test is shown as a connection, with no profile pending.
ClickTest_as_connection(p) ==
  /\ "test" \in Unawaited /\ provider_controls_enabled(ui)
  /\ p \in FormProfiles(FALSE)
  /\ Send([op |-> "TestConnection", profile |-> p], [ui EXCEPT !.status = "Connecting"], ui)
  /\ UNCHANGED <<evts, wk, job, slot, cancelled, store, crashes>>

\* "Test connection" leaves every control sensitive while it runs.
ClickTest(p) ==
  /\ "test" \in Unawaited /\ provider_controls_enabled(ui)
  /\ p \in FormProfiles(FALSE)
  /\ Send([op |-> "TestConnection", profile |-> p], ui, record_client_error(ui))
  /\ UNCHANGED <<evts, wk, job, slot, cancelled, store, crashes>>

ClickRemove ==
  LET id == ui.selected_saved
      begun == begin_profile_deletion(ui, id)
  IN  /\ provider_controls_enabled(ui) /\ storage_available(ui)
      /\ begin_profile_deletion_ok(ui, id)
      /\ Send([op |-> "DeleteSavedProfile", id |-> id], begun, profile_deletion_failed(begun, id))
      /\ UNCHANGED <<evts, wk, job, slot, cancelled, store, crashes>>

ChooseSavedProfile(id) ==
  /\ provider_controls_enabled(ui) /\ storage_available(ui)
  /\ id # ui.selected_saved /\ select_saved_profile_ok(ui, id)
  /\ ui' = select_saved_profile(ui, id)
  /\ UNCHANGED <<cmds, evts, wk, job, slot, cancelled, store, ops, crashes>>

ChooseModel(m) ==
  LET begun == begin_model_selection(ui, m)
  IN  /\ provider_controls_enabled(ui)
      /\ m \notin {ui.selected_model, ui.pending_model} /\ begin_model_selection_ok(ui, m)
      /\ Send([op |-> "SelectModel", id |-> ui.active_provider.id, model |-> m],
              begun, model_selection_failed(begun, m))
      /\ UNCHANGED <<evts, wk, job, slot, cancelled, store, crashes>>

\* `shown` records the provider and model the window names when Translate is pressed.
ClickTranslate ==
  LET begun == begin_translation(ui)
  IN  /\ provider_controls_enabled(ui) /\ begin_translation_ok(ui)
      /\ Send([op |-> "Translate", model |-> ui.selected_model,
             shown |-> [id |-> ui.active_provider.id, model |-> ui.selected_model]],
              begun, record_client_error(begun))
      /\ UNCHANGED <<evts, wk, job, slot, cancelled, store, crashes>>

\* Fault: Stop forgets the pending profile instead of waiting for the answer.
ClickStop_forgetting ==
  LET v == IF ui.status = "Connecting" THEN provider_failed(ui) ELSE request_cancellation(ui)
  IN  /\ stop_enabled(ui)
      /\ ops < MaxOps /\ ops' = ops + 1
      /\ SendCancel(v, record_client_error(v))
      /\ UNCHANGED <<evts, wk, job, slot, store, crashes>>

\* While connecting the status stays; while translating it becomes Cancelling.
ClickStop ==
  LET v == IF ui.status = "Connecting" THEN ui ELSE request_cancellation(ui)
  IN  /\ stop_enabled(ui)
      /\ ops < MaxOps /\ ops' = ops + 1
      /\ SendCancel(v, record_client_error(v))
      /\ UNCHANGED <<evts, wk, job, slot, store, crashes>>

ClickClear ==
  /\ ~blocked(ui) /\ ui' = clear_workspace(ui)
  /\ UNCHANGED <<cmds, evts, wk, job, slot, cancelled, store, ops, crashes>>

---------------------------------------------------------------------------
(* The event pump.                                                         *)

Apply(u, e) ==
  CASE e.ev = "ProfilesRestored"          -> OnProfilesRestored(u, e.rows, e.id)
    [] e.ev = "ProfileStorageUnavailable" -> profile_storage_unavailable(u)
    [] e.ev = "DemoProviderReady"         -> mark_worker_ready(u)
    [] e.ev = "Connected"                 -> OnConnected(u, e.profile, e.models, e.saved)
    [] e.ev = "ProviderRejected"          -> OnProviderRejected(u, e.profile)
    [] e.ev = "ProfileHealthUpdated"      -> OnProfileHealthUpdated(u, e.profile)
    [] e.ev = "ModelSelected"             -> OnModelSelected(u, e.id, e.model, e.saved)
    [] e.ev = "ModelSelectionRejected"    -> OnModelSelectionRejected(u, e.id, e.model)
    [] e.ev = "ProfileDeleted"            -> OnProfileDeleted(u, e.id)
    [] e.ev = "ProfileDeletionRejected"   -> OnProfileDeletionRejected(u, e.id)
    [] e.ev = "SecretCleanupFailed"       -> record_client_error(u)
    [] e.ev = "OperationFailed"           -> record_operation_failure(u)
    [] e.ev = "Translation"               -> OnTranslation(u, e.kind, e.n)
    [] e.ev = "Rejected"                  -> OnRejected(u)
    [] e.ev = "Stopped"                   -> OnStopped(u)

Refuses(u, e) == e.ev = "Translation" /\ ~apply_translation_event_ok(u, e.kind, e.n)

\* A refused stream event also sends Cancel, which may fail like any command.
Pump ==
  /\ evts # <<>> /\ evts' = Tail(evts)
  /\ LET e == Head(evts)
         v == Apply(ui, e)
     IN  IF Refuses(ui, e) THEN SendCancel(v, record_client_error(v))
         ELSE ui' = v /\ UNCHANGED <<cmds, cancelled>>
  /\ UNCHANGED <<wk, job, slot, store, ops, crashes>>

---------------------------------------------------------------------------
(* The worker between operations: it takes the next command.               *)

Takes(op) == job = Idle /\ cmds # <<>> /\ Head(cmds).op = op /\ cmds' = Tail(cmds)
Report(es) == evts' = evts \o es
Occupy(token) == slot' = token /\ cancelled' = cancelled \ {JobToken}

BeginTest ==
  /\ Takes("TestConnection")
  /\ job' = [kind |-> "test", profile |-> Head(cmds).profile]
  /\ Occupy(JobToken)
  /\ UNCHANGED <<ui, evts, wk, store, ops, crashes>>

\* What recording the outcome of a test in the health columns may report.
HealthReports(p) ==
  IF ~store.open THEN {<<>>}
  ELSE {IF store.rows[p.id] = None THEN <<>>
        ELSE <<[ev |-> "ProfileHealthUpdated", profile |-> store.rows[p.id]]>>,
        <<[ev |-> "OperationFailed"]>>}

\* Succeeds (only a notice), or fails or was cancelled (ConnectionTestRejected).
FinishTest ==
  /\ job.kind = "test"
  /\ \E h \in HealthReports(job.profile) :
       \/ JobToken \notin cancelled /\ Report(h)
       \/ Report(h \o <<[ev |-> "OperationFailed"]>>)
  /\ job' = Idle /\ slot' = None
  /\ UNCHANGED <<ui, cmds, wk, cancelled, store, ops, crashes>>

BeginConnect ==
  LET c == Head(cmds) IN
  /\ Takes("Connect")
  /\ job' = [kind |-> "connect", profile |-> c.profile, remember |-> c.remember, n |-> c.n]
  /\ Occupy(c.n)
  /\ UNCHANGED <<ui, evts, wk, store, ops, crashes>>

\* profile_without_secret: a stored profile never refers to a session secret.
profile_without_secret(p) == IF p.secret = "session" THEN [p EXCEPT !.secret = "none"] ELSE p

\* save_and_activate_provider, one transaction of the database.
Saved(s, p) == [s EXCEPT !.rows[p.id] = p, !.active = p.id]

\* Fault: the stored selection outlives the row it names.
Removed_keeping_selection(s, id) == [s EXCEPT !.rows[id] = None]

\* delete_provider_profile, which also drops the stored selection of that row.
Removed(s, id) == [s EXCEPT !.rows[id] = None, !.active = IF @ = id THEN None ELSE @]

\* Fault: the session still believes that it is saved.
Degrade_keeping_saved(e) ==
  /\ "storage" \in Unawaited /\ store.open
  /\ store' = [store EXCEPT !.open = FALSE]
  /\ wk' = wk
  /\ Report(<<e, [ev |-> "ProfileStorageUnavailable"]>>)

\* degrade_profile_storage_after_persistence_error: drop the handle, keep the session.
Degrade(e) ==
  /\ "storage" \in Unawaited /\ store.open
  /\ store' = [store EXCEPT !.open = FALSE]
  /\ wk' = [wk EXCEPT !.saved = None]
  /\ Report(<<e, [ev |-> "ProfileStorageUnavailable"]>>)

\* Fault: the rejection names the profile after its model was dropped.
Rejection_filtered == [ev |-> "ProviderRejected", profile |-> WithModel(job.profile, None)]

Rejection == [ev |-> "ProviderRejected", profile |-> job.profile]

\* finish_candidate_connection; the write may fail after the provider answered.
FinishConnect ==
  /\ job.kind = "connect" /\ job' = Idle /\ slot' = None
  /\ \/ /\ job.n \notin cancelled /\ (job.remember => store.open)
        /\ \E ms \in SUBSET Models :
             LET p == WithModel(job.profile, FilteredModel(job.profile, ms))
                 s == IF job.remember THEN profile_without_secret(p) ELSE None
             IN  /\ wk' = [profile |-> p, models |-> ms, saved |-> s, model |-> p.model]
                 /\ store' = IF s = None THEN store ELSE Saved(store, s)
                 /\ Report(<<[ev |-> "Connected", profile |-> p, models |-> ms, saved |-> s]>>)
     \/ job.n \notin cancelled /\ job.remember /\ Degrade(Rejection)
     \/ Report(<<Rejection>>) /\ UNCHANGED <<wk, store>>
  /\ UNCHANGED <<ui, cmds, cancelled, ops, crashes>>

\* prepare_model_selection: stale, session-only, stored, or the write fails.
SelectModel ==
  LET c == Head(cmds)
      no == [ev |-> "ModelSelectionRejected", id |-> c.id, model |-> c.model]
      known == wk.profile # None /\ wk.profile.id = c.id /\ c.model \in wk.models
      s == IF wk.saved = None THEN None ELSE WithModel(wk.saved, c.model)
  IN  /\ Takes("SelectModel")
      /\ \/ ~known /\ Report(<<no>>) /\ UNCHANGED <<wk, store>>
         \/ /\ known /\ (s # None => store.open)
            /\ wk' = [wk EXCEPT !.profile = WithModel(@, c.model), !.saved = s, !.model = c.model]
            /\ store' = IF s = None THEN store ELSE Saved(store, s)
            /\ Report(<<[ev |-> "ModelSelected", id |-> c.id, model |-> c.model, saved |-> s]>>)
         \/ known /\ s # None /\ Degrade(no)
      /\ UNCHANGED <<ui, job, slot, cancelled, ops, crashes>>

\* delete_saved_profile, then the blocking removal of its stored secrets.
DeleteSavedProfile ==
  LET id == Head(cmds).id
      row == store.rows[id]
      no == [ev |-> "ProfileDeletionRejected", id |-> id]
  IN  /\ Takes("DeleteSavedProfile")
      /\ \/ /\ store.open /\ row # None
            /\ store' = Removed(store, id)
            /\ wk' = [wk EXCEPT !.saved = IF @ # None /\ @.id = id THEN None ELSE @]
            /\ Report(<<[ev |-> "ProfileDeleted", id |-> id]>>)
            /\ job' = IF row.secret = "persistent" THEN [kind |-> "cleanup"] ELSE Idle
         \/ ~(store.open /\ row # None) /\ Report(<<no>>) /\ UNCHANGED <<wk, job, store>>
         \/ Degrade(no) /\ job' = job
      /\ UNCHANGED <<ui, slot, cancelled, ops, crashes>>

FinishCleanup ==
  /\ job.kind = "cleanup" /\ job' = Idle
  /\ \/ UNCHANGED evts
     \/ "cleanup" \in Unawaited /\ Report(<<[ev |-> "SecretCleanupFailed"]>>)
  /\ UNCHANGED <<ui, cmds, wk, slot, cancelled, store, ops, crashes>>

StreamEvent(k, i) == [ev |-> "Translation", kind |-> k, n |-> i]

\* The memory answers, the request is rejected, or begin_translation starts a stream.
Translate ==
  LET c == Head(cmds) IN
  /\ Takes("Translate")
  /\ \/ /\ store.open
        /\ Report(<<StreamEvent("Started", 0), StreamEvent("TextDelta", 1),
                    StreamEvent("Completed", 2)>>)
        /\ UNCHANGED <<job, slot, cancelled>>
     \/ /\ wk.profile = None \/ wk.model # c.model
        /\ Report(<<[ev |-> "OperationFailed"]>>)
        /\ UNCHANGED <<job, slot, cancelled>>
     \/ /\ wk.profile # None /\ wk.model = c.model
        /\ job' = [kind |-> "stream", shown |-> c.shown, next |-> 0]
        /\ Occupy(JobToken) /\ evts' = evts
  /\ UNCHANGED <<ui, wk, store, ops, crashes>>

IdleCancel ==
  /\ Takes("Cancel")
  /\ UNCHANGED <<ui, evts, wk, job, slot, cancelled, store, ops, crashes>>

---------------------------------------------------------------------------
(* The worker while a translation runs: commands go first (biased select). *)

\* Fault: every command is refused with the same untyped event.
BusyAnswer_untyped(c) == [ev |-> "Rejected"]

\* What the worker answers to a command it cannot serve now.
BusyAnswer(c) ==
  CASE c.op = "Connect"            -> [ev |-> "ProviderRejected", profile |-> c.profile]
    [] c.op = "TestConnection"     -> [ev |-> "OperationFailed"]
    [] c.op = "SelectModel"        -> [ev |-> "ModelSelectionRejected", id |-> c.id,
                                       model |-> c.model]
    [] c.op = "DeleteSavedProfile" -> [ev |-> "ProfileDeletionRejected", id |-> c.id]
    [] c.op = "Translate"          -> [ev |-> "Rejected"]

CommandWhileStreaming ==
  LET c == Head(cmds) IN
  /\ job.kind = "stream" /\ cmds # <<>> /\ cmds' = Tail(cmds)
  /\ \/ c.op = "Cancel" /\ cancelled' = cancelled \cup {JobToken} /\ evts' = evts
     \/ c.op # "Cancel" /\ cancelled' = cancelled /\ Report(<<BusyAnswer(c)>>)
  /\ UNCHANGED <<ui, wk, job, slot, store, ops, crashes>>

\* The engine's stream: Started, text, then one terminal event (external), or the
\* stream just ends.
StreamStep ==
  /\ job.kind = "stream" /\ cmds = <<>>
  /\ \/ \E k \in {"Started", "TextDelta", "Completed", "Cancelled", "Failed"} :
          /\ k = "Started" <=> job.next = 0
          /\ k = "TextDelta" => job.next = 1
          /\ k = "Cancelled" => JobToken \in cancelled
          /\ Report(<<StreamEvent(k, job.next)>>)
          /\ IF Terminal(k) THEN job' = Idle /\ slot' = None
             ELSE job' = [job EXCEPT !.next = @ + 1] /\ slot' = slot
     \/ Report(<<[ev |-> "OperationFailed"]>>) /\ job' = Idle /\ slot' = None
  /\ UNCHANGED <<ui, cmds, wk, cancelled, store, ops, crashes>>

---------------------------------------------------------------------------
User ==
  \/ \E p \in Profiles, r \in BOOLEAN : ClickConnect(p, r)
  \/ ClickConnectInvalid
  \/ \E p \in Profiles : ClickTest(p)
  \/ ClickRemove
  \/ \E id \in Ids \cup {None} : ChooseSavedProfile(id)
  \/ \E m \in Models : ChooseModel(m)
  \/ ClickTranslate
  \/ ClickStop
  \/ ClickClear

Worker ==
  \/ BeginTest \/ FinishTest \/ BeginConnect \/ FinishConnect
  \/ SelectModel \/ DeleteSavedProfile \/ FinishCleanup
  \/ Translate \/ IdleCancel \/ CommandWhileStreaming \/ StreamStep

Next == User \/ Pump \/ Worker \/ Crash

\* The pump is a timer and the worker a task that is always polled; every network
\* wait has a time-out.  The user and crashes owe nothing.
Spec == Init /\ [][Next]_vars /\ WF_vars(Pump) /\ WF_vars(Worker)

---------------------------------------------------------------------------
(* Properties.                                                             *)

\* Driven by the real worker the window is an AppState driven by some worker, so
\* what is proved of AppState (consistent references, atomic switches) holds of it.
ImplementsAppState == UiThread!Spec

\* The row the worker believes it keeps in step with the session is in the open
\* store, is the one activated there, and is the active provider's.
SavedInStore ==
  wk.saved # None =>
    /\ store.open /\ store.rows[wk.saved.id] = wk.saved /\ store.active = wk.saved.id
    /\ profiles_match_except_secret(wk.profile, wk.saved)

\* What is on disk can always be restored: the AppState of the next start accepts
\* it, so a crash between any two steps never leaves a profile list that is refused.
StoreRestorable == restore_saved_profiles_ok(DefaultState, store.rows, store.active)

\* The window is never more than its unread events behind the worker: once they
\* are applied it shows the worker's provider, models and selection, and the
\* rows of the store.
Settled ==
  LET after[n \in 0..Len(evts)] == IF n = 0 THEN ui ELSE Apply(after[n - 1], evts[n])
  IN  after[Len(evts)]
ShowsWorker(u) ==
  /\ u.active_provider = wk.profile /\ u.models = wk.models /\ u.selected_model = wk.model
  /\ u.active_saved = IF wk.saved = None THEN None ELSE wk.saved.id
  /\ store.open => u.saved_profiles = store.rows /\ u.persisted_active = store.active
UpToDate == job.kind # "stopped" => ShowsWorker(Settled)

\* A running translation uses the provider and the model that the window named
\* when Translate was pressed.
ServedByShown ==
  job.kind = "stream" => job.shown.id = wk.profile.id /\ job.shown.model = wk.model

\* No text of one request is shown for another: while the window waits for a
\* translation, at most one stream or queued request can answer it.
OneAnswer ==
  Cardinality({i \in 1..Len(cmds) : cmds[i].op = "Translate"})
    + (IF job.kind = "stream" THEN 1 ELSE 0)
    + Cardinality({i \in 1..Len(evts) : evts[i].ev = "Translation" /\ Terminal(evts[i].kind)})
  <= 1

\* Every wait ends: controls greyed out by a connection, a model selection, a
\* deletion or a translation become usable again.
WaitEnds == blocked(ui) ~> ~blocked(ui)

\* Whatever fails around it, a pending connection, model selection or deletion is
\* answered and its record dropped.
PendingAnswered ==
  /\ ui.pending_provider # None ~> ui.pending_provider = None
  /\ ui.pending_model # None ~> ui.pending_model = None
  /\ ui.pending_deletion # None ~> ui.pending_deletion = None

\* A translation that is being cancelled reaches an end the window shows.
CancellingEnds == ui.status = "Cancelling" ~> ui.status # "Cancelling"
============================================================================
