------------------------------ MODULE AppState ------------------------------
(***************************************************************************)
(* The UI thread on its own: the reducer driven by the GTK handlers and by *)
(* every event a worker could report, in any order and with any payload.   *)
(* What is shown here does not rest on the worker behaving well: it is     *)
(* what the checks inside `AppState` buy.  A handler that sends a command  *)
(* may find the command queue full, and then rolls back.                   *)
(***************************************************************************)
EXTENDS AppStateOps

CONSTANT MaxSequence    \* bound: the greatest sequence number of a stream event

ASSUME MaxSequenceAssumption == MaxSequence \in Nat

VARIABLE ui             \* the AppState record

Rows == [Ids -> Storable \cup {None}]

Init == ui = DefaultState

---------------------------------------------------------------------------
(* Handlers of the window's controls, enabled as refresh_ui leaves them.   *)

ClickConnect(p, remember) ==
  /\ provider_controls_enabled(ui)
  /\ remember => storage_available(ui)
  /\ IF begin_provider_connection_ok(ui, p, remember)
     THEN \/ ui' = begin_provider_connection(ui, p, remember)
          \/ ui' = provider_failed(begin_provider_connection(ui, p, remember))
     ELSE ui' = provider_failed(ui)

ClickRemove ==
  /\ provider_controls_enabled(ui) /\ storage_available(ui)
  /\ begin_profile_deletion_ok(ui, ui.selected_saved)
  /\ LET v == begin_profile_deletion(ui, ui.selected_saved)
     IN  ui' = v \/ ui' = profile_deletion_failed(v, ui.selected_saved)

ChooseSavedProfile(id) ==
  /\ provider_controls_enabled(ui) /\ storage_available(ui)
  /\ select_saved_profile_ok(ui, id)
  /\ ui' = select_saved_profile(ui, id)

ChooseModel(m) ==
  /\ provider_controls_enabled(ui)
  /\ m \notin {ui.selected_model, ui.pending_model}
  /\ begin_model_selection_ok(ui, m)
  /\ \/ ui' = begin_model_selection(ui, m)
     \/ ui' = model_selection_failed(begin_model_selection(ui, m), m)

ClickTranslate ==
  /\ provider_controls_enabled(ui) /\ begin_translation_ok(ui)
  /\ \/ ui' = begin_translation(ui)
     \/ ui' = record_client_error(begin_translation(ui))

\* While connecting, Stop only sends Cancel; the outcome comes back as an event.
ClickStop ==
  LET v == IF ui.status = "Connecting" THEN ui ELSE request_cancellation(ui)
  IN  stop_enabled(ui) /\ (ui' = v \/ ui' = record_client_error(v))

ClickClear == ~blocked(ui) /\ ui' = clear_workspace(ui)

---------------------------------------------------------------------------
(* Events of the worker.                                                   *)

StartupEvent ==
  \/ \E rows \in Rows, id \in Ids \cup {None} :
       WellKeyed(rows) /\ ui' = OnProfilesRestored(ui, rows, id)
  \/ ui' = mark_worker_ready(ui)
  \/ ui' = OnRejected(ui)

ConnectionEvent ==
  \/ \E p \in Profiles, ms \in SUBSET Models, s \in Storable \cup {None} :
       ui' = OnConnected(ui, p, ms, s)
  \/ \E p \in Profiles : ui' = OnProviderRejected(ui, p)
  \/ \E p \in Storable : ui' = OnProfileHealthUpdated(ui, p)

ProfileEvent ==
  \/ \E id \in Ids, m \in Models, s \in Storable \cup {None} :
       ui' = OnModelSelected(ui, id, m, s)
  \/ \E id \in Ids, m \in Models : ui' = OnModelSelectionRejected(ui, id, m)
  \/ \E id \in Ids : ui' = OnProfileDeleted(ui, id)
  \/ \E id \in Ids : ui' = OnProfileDeletionRejected(ui, id)
  \/ ui' = profile_storage_unavailable(ui)

\* A failure report of an action the UI does not wait for, and the end of the worker.
FailureEvent ==
  \/ ui' = record_client_error(ui)
  \/ ui' = record_operation_failure(ui)
  \/ ui' = OnStopped(ui)

TranslationEvent ==
  \/ \E k \in {"Started", "TextDelta", "Completed", "Cancelled", "Failed"},
        n \in 0..MaxSequence : ui' = OnTranslation(ui, k, n)
  \/ \E s \in {"Pending", "Running", "Paused", "Completed", "Cancelled", "Failed"} :
       ui' = OnDocumentJobUpdated(ui, s)

Next ==
  \/ \E p \in Profiles, r \in BOOLEAN : ClickConnect(p, r)
  \/ ClickRemove
  \/ \E id \in Ids \cup {None} : ChooseSavedProfile(id)
  \/ \E m \in Models : ChooseModel(m)
  \/ ClickTranslate
  \/ ClickStop
  \/ ClickClear
  \/ StartupEvent
  \/ ConnectionEvent
  \/ ProfileEvent
  \/ FailureEvent
  \/ TranslationEvent

Spec == Init /\ [][Next]_ui

---------------------------------------------------------------------------
(* Properties.                                                             *)

\* Every field of AppState keeps its type, and rows are keyed by their own id.
TypeOK == WellTyped(ui)

\* No dangling reference: the form selection, the persisted selection and the
\* deletion in progress name saved rows; the row backing the active provider is
\* the persisted selection and has the active provider's id.  A row removed, or a
\* list replaced, under one of these references would break it.
SavedLinks == SavedLinked(ui)

\* A model is selected, or waits for confirmation, only if the active provider
\* offered it, so a request never names a model of a provider replaced since.
ModelLinks == ModelsLinked(ui)

\* Without an available profile store no row is shown, none is about to be saved
\* and nothing waits for a deletion: degraded storage leaves no phantom profile.
StorageLinks == StorageLinked(ui)

\* "Connecting" is shown, and saving promised, only while a profile is pending, so
\* the answer the worker owes can end it.
ConnectingHasPending == PendingLinked(ui)

Consistent == ConsistentState(ui)

\* The shown provider (by id) or its offered models differ between u and v.
Switched(u, v) ==
  \/ v.models # u.models
  \/ v.active_provider = None /\ u.active_provider # None
  \/ v.active_provider # None /\ ~ActiveIs(u, v.active_provider.id)

\* v shows the profile that was pending in u, with the model it may use.
Committed(u, v) ==
  /\ u.pending_provider # None /\ v.pending_provider = None
  /\ v.active_provider =
       WithModel(u.pending_provider, FilteredModel(u.pending_provider, v.models))
  /\ v.selected_model = v.active_provider.model /\ v.pending_model = None

\* A switch is all or nothing: the provider id, the offered models and the
\* selected model change together, to those of the profile that was pending, and
\* no failure, late or stale event replaces a part of them.
AtomicSwitch == [][Switched(ui, ui') => Committed(ui, ui')]_ui
============================================================================
