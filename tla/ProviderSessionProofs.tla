------------------------ MODULE ProviderSessionProofs ------------------------
(***************************************************************************)
(* The window and the core worker together, for any profiles and models,   *)
(* any queue, any failures, and any number of crashes.  In one life of the *)
(* process every step is a step of the UI thread alone, so the consistency *)
(* proved in AppStateProofs holds of the window the real worker drives.    *)
(* The database keeps the row the worker believes in, and a list that the  *)
(* next start accepts.  The last two parts are about what may be under way *)
(* at once (one request, and the provider and model it was made for), and  *)
(* about the window that has read all its reports: it shows the session of *)
(* the worker and the rows of the store.                                   *)
(***************************************************************************)
EXTENDS ProviderSession, SequenceTheorems, FiniteSetTheorems, WellFoundedInduction, TLAPS

\* The theorems about the UI thread, for the window of this module.
Window == INSTANCE AppStateProofs WITH MaxSequence <- 2

---------------------------------------------------------------------------
(* What the queues, the worker and the database hold.                      *)

\* The profiles that Connect lets through, and so the only ones that become active.
Usable == {p \in Profiles : enabled(p)}

Requested == [id : Ids, model : Models]

\* A connection to be remembered never has a session secret in its profile.
Connections(S) == {c \in S : c.remember => c.profile \in Storable}

Commands ==
  Connections([op : {"Connect"}, profile : Usable, remember : BOOLEAN, n : Nat])
    \cup [op : {"TestConnection"}, profile : Profiles]
    \cup [op : {"DeleteSavedProfile"}, id : Ids]
    \cup [op : {"SelectModel"}, id : Ids, model : Models]
    \cup [op : {"Translate"}, model : Models, shown : Requested]
    \cup [op : {"Cancel"}]

\* Stored rows, each under its own identifier.
Lists == {rows \in [Ids -> Storable \cup {None}] : WellKeyed(rows)}

StreamKinds == {"Started", "TextDelta", "Completed", "Cancelled", "Failed"}

Events ==
  [ev : {"ProfilesRestored"}, rows : Lists, id : Ids \cup {None}]
    \cup [ev : {"ProfileStorageUnavailable", "DemoProviderReady", "SecretCleanupFailed",
                "OperationFailed", "Rejected", "Stopped"}]
    \cup [ev : {"Connected"}, profile : Profiles, models : SUBSET Models,
          saved : Storable \cup {None}]
    \cup [ev : {"ProviderRejected"}, profile : Profiles]
    \cup [ev : {"ProfileHealthUpdated"}, profile : Storable]
    \cup [ev : {"ModelSelected"}, id : Ids, model : Models, saved : Storable \cup {None}]
    \cup [ev : {"ModelSelectionRejected"}, id : Ids, model : Models]
    \cup [ev : {"ProfileDeleted", "ProfileDeletionRejected"}, id : Ids]
    \cup [ev : {"Translation"}, kind : StreamKinds, n : 0..2]

Awaited ==
  [kind : {"idle", "stopped", "cleanup"}]
    \cup [kind : {"test"}, profile : Profiles]
    \cup Connections([kind : {"connect"}, profile : Usable, remember : BOOLEAN, n : Nat])
    \cup [kind : {"stream"}, shown : Requested, next : 0..2]

Sessions == [profile : Usable \cup {None}, models : SUBSET Models,
             saved : Storable \cup {None}, model : Models \cup {None}]

Stores == [open : BOOLEAN, rows : Lists, active : Ids \cup {None}]

QueuesOK == cmds \in Seq(Commands) /\ evts \in Seq(Events) /\ ops \in Nat

WorkerOK == job \in Awaited /\ wk \in Sessions

\* A stored selection names a row, and one that may be used: what the next start asks.
StoreOK ==
  /\ store \in Stores
  /\ store.active # None => store.rows[store.active] \in Usable

\* The part of the invariant that is not about the window.
BehindOK == QueuesOK /\ WorkerOK /\ StoreOK /\ SavedInStore

SessionInv == ConsistentState(ui) /\ BehindOK

---------------------------------------------------------------------------
(* The window.                                                             *)

\* Each handler of this module is one of AppState: it does the same to the window, and
\* sends the command whose outcome AppState leaves open.
LEMMA ConnectStep ==
  ASSUME NEW p, NEW r, ClickConnect(p, r)
  PROVE  UiThread!ClickConnect(p, r)
  BY DEF ClickConnect, Send, UiThread!ClickConnect, provider_controls_enabled,
         UiThread!provider_controls_enabled, blocked, UiThread!blocked, Busy,
         UiThread!Busy, storage_available, UiThread!storage_available,
         begin_provider_connection_ok, UiThread!begin_provider_connection_ok, enabled,
         UiThread!enabled, begin_provider_connection,
         UiThread!begin_provider_connection, provider_failed, UiThread!provider_failed

LEMMA RemoveStep ==
  ASSUME ClickRemove
  PROVE  UiThread!ClickRemove
  BY DEF ClickRemove, Send, UiThread!ClickRemove, provider_controls_enabled,
         UiThread!provider_controls_enabled, blocked, UiThread!blocked, Busy,
         UiThread!Busy, storage_available, UiThread!storage_available, IsSaved,
         UiThread!IsSaved, begin_profile_deletion_ok,
         UiThread!begin_profile_deletion_ok, begin_profile_deletion,
         UiThread!begin_profile_deletion, profile_deletion_failed,
         UiThread!profile_deletion_failed

LEMMA SavedStep ==
  ASSUME NEW id, ChooseSavedProfile(id)
  PROVE  UiThread!ChooseSavedProfile(id)
  BY DEF ChooseSavedProfile, UiThread!ChooseSavedProfile, provider_controls_enabled,
         UiThread!provider_controls_enabled, blocked, UiThread!blocked, Busy,
         UiThread!Busy, storage_available, UiThread!storage_available, IsSaved,
         UiThread!IsSaved, select_saved_profile_ok, UiThread!select_saved_profile_ok,
         select_saved_profile, UiThread!select_saved_profile

LEMMA ModelStep ==
  ASSUME NEW m, ChooseModel(m)
  PROVE  UiThread!ChooseModel(m)
  BY DEF ChooseModel, Send, UiThread!ChooseModel, provider_controls_enabled,
         UiThread!provider_controls_enabled, blocked, UiThread!blocked, Busy,
         UiThread!Busy, begin_model_selection_ok, UiThread!begin_model_selection_ok,
         begin_model_selection, UiThread!begin_model_selection, model_selection_failed,
         UiThread!model_selection_failed

LEMMA TranslateStep ==
  ASSUME ClickTranslate
  PROVE  UiThread!ClickTranslate
  BY DEF ClickTranslate, Send, UiThread!ClickTranslate, provider_controls_enabled,
         UiThread!provider_controls_enabled, blocked, UiThread!blocked, Busy,
         UiThread!Busy, begin_translation_ok, UiThread!begin_translation_ok,
         begin_document_translation_ok, UiThread!begin_document_translation_ok,
         begin_translation, UiThread!begin_translation, record_client_error,
         UiThread!record_client_error

LEMMA StopStep ==
  ASSUME ClickStop
  PROVE  UiThread!ClickStop
  BY DEF ClickStop, SendCancel, UiThread!ClickStop, stop_enabled, UiThread!stop_enabled,
         request_cancellation, UiThread!request_cancellation, record_client_error,
         UiThread!record_client_error

LEMMA ClearStep ==
  ASSUME ClickClear
  PROVE  UiThread!ClickClear
  BY DEF ClickClear, UiThread!ClickClear, blocked, UiThread!blocked, Busy,
         UiThread!Busy, clear_workspace, UiThread!clear_workspace

LEMMA InvalidStep ==
  ASSUME ClickConnectInvalid
  PROVE  UiThread!StartupEvent
  BY DEF ClickConnectInvalid, UiThread!StartupEvent, provider_controls_enabled,
         UiThread!provider_controls_enabled, blocked, UiThread!blocked, Busy,
         UiThread!Busy, OnRejected, UiThread!OnRejected, provider_failed,
         UiThread!provider_failed, mark_worker_unavailable,
         UiThread!mark_worker_unavailable

\* UiThread and Window are the same module twice; the second one has the theorems.
LEMMA SameWindow == UiThread!Next <=> Window!Next
  BY DEF UiThread!Profiles, Window!Profiles, UiThread!Storable, Window!Storable,
         UiThread!Terminal, Window!Terminal, UiThread!Busy, Window!Busy,
         UiThread!enabled, Window!enabled, UiThread!NoRows, Window!NoRows,
         UiThread!mark_worker_ready, Window!mark_worker_ready,
         UiThread!mark_worker_unavailable, Window!mark_worker_unavailable,
         UiThread!IsSaved, Window!IsSaved, UiThread!storage_available,
         Window!storage_available, UiThread!WithModel, Window!WithModel,
         UiThread!FilteredModel, Window!FilteredModel,
         UiThread!profiles_match_except_secret, Window!profiles_match_except_secret,
         UiThread!restore_saved_profiles_ok, Window!restore_saved_profiles_ok,
         UiThread!restore_saved_profiles, Window!restore_saved_profiles,
         UiThread!record_client_error, Window!record_client_error,
         UiThread!record_operation_failure, Window!record_operation_failure,
         UiThread!record_stream_error, Window!record_stream_error,
         UiThread!provider_failed, Window!provider_failed,
         UiThread!profile_storage_unavailable, Window!profile_storage_unavailable,
         UiThread!select_saved_profile_ok, Window!select_saved_profile_ok,
         UiThread!select_saved_profile, Window!select_saved_profile,
         UiThread!update_saved_profile_health_ok, Window!update_saved_profile_health_ok,
         UiThread!update_saved_profile_health, Window!update_saved_profile_health,
         UiThread!begin_provider_connection_ok, Window!begin_provider_connection_ok,
         UiThread!begin_provider_connection, Window!begin_provider_connection,
         UiThread!MatchesPending, Window!MatchesPending, UiThread!provider_connected_ok,
         Window!provider_connected_ok, UiThread!provider_connected,
         Window!provider_connected, UiThread!begin_model_selection_ok,
         Window!begin_model_selection_ok, UiThread!begin_model_selection,
         Window!begin_model_selection, UiThread!confirm_model_selection_ok,
         Window!confirm_model_selection_ok, UiThread!confirm_model_selection,
         Window!confirm_model_selection, UiThread!model_selection_failed_ok,
         Window!model_selection_failed_ok, UiThread!model_selection_failed,
         Window!model_selection_failed, UiThread!begin_profile_deletion_ok,
         Window!begin_profile_deletion_ok, UiThread!begin_profile_deletion,
         Window!begin_profile_deletion, UiThread!confirm_profile_deletion_ok,
         Window!confirm_profile_deletion_ok, UiThread!confirm_profile_deletion,
         Window!confirm_profile_deletion, UiThread!profile_deletion_failed_ok,
         Window!profile_deletion_failed_ok, UiThread!profile_deletion_failed,
         Window!profile_deletion_failed, UiThread!begin_document_translation_ok,
         Window!begin_document_translation_ok, UiThread!begin_translation_ok,
         Window!begin_translation_ok, UiThread!begin_translation,
         Window!begin_translation, UiThread!begin_document_translation,
         Window!begin_document_translation, UiThread!request_cancellation_ok,
         Window!request_cancellation_ok, UiThread!request_cancellation,
         Window!request_cancellation, UiThread!clear_workspace, Window!clear_workspace,
         UiThread!complete_document_translation, Window!complete_document_translation,
         UiThread!cancel_document_translation, Window!cancel_document_translation,
         UiThread!pause_document_translation, Window!pause_document_translation,
         UiThread!fail_document_translation, Window!fail_document_translation,
         UiThread!apply_translation_event_ok, Window!apply_translation_event_ok,
         UiThread!apply_translation_event, Window!apply_translation_event,
         UiThread!OnProfilesRestored, Window!OnProfilesRestored, UiThread!OnConnected,
         Window!OnConnected, UiThread!OnProviderRejected, Window!OnProviderRejected,
         UiThread!OnProfileHealthUpdated, Window!OnProfileHealthUpdated,
         UiThread!ActiveIs, Window!ActiveIs, UiThread!OnModelSelected,
         Window!OnModelSelected, UiThread!OnModelSelectionRejected,
         Window!OnModelSelectionRejected, UiThread!OnProfileDeleted,
         Window!OnProfileDeleted, UiThread!OnProfileDeletionRejected,
         Window!OnProfileDeletionRejected, UiThread!OnTranslation, Window!OnTranslation,
         UiThread!OnRejected, Window!OnRejected, UiThread!OnStopped, Window!OnStopped,
         UiThread!OnDocumentJobUpdated, Window!OnDocumentJobUpdated, UiThread!blocked,
         Window!blocked, UiThread!provider_controls_enabled,
         Window!provider_controls_enabled, UiThread!stop_enabled, Window!stop_enabled,
         UiThread!WellKeyed, Window!WellKeyed, UiThread!Rows, Window!Rows,
         UiThread!ClickConnect, Window!ClickConnect, UiThread!ClickRemove,
         Window!ClickRemove, UiThread!ChooseSavedProfile, Window!ChooseSavedProfile,
         UiThread!ChooseModel, Window!ChooseModel, UiThread!ClickTranslate,
         Window!ClickTranslate, UiThread!ClickStop, Window!ClickStop,
         UiThread!ClickClear, Window!ClickClear, UiThread!StartupEvent,
         Window!StartupEvent, UiThread!ConnectionEvent, Window!ConnectionEvent,
         UiThread!ProfileEvent, Window!ProfileEvent, UiThread!FailureEvent,
         Window!FailureEvent, UiThread!TranslationEvent, Window!TranslationEvent,
         UiThread!Next, Window!Next
LEMMA SameSets ==
  /\ UiThread!Profiles = Profiles /\ UiThread!Storable = Storable
  /\ UiThread!Rows = [Ids -> Storable \cup {None}]
  /\ \A rows : UiThread!WellKeyed(rows) <=> WellKeyed(rows)
  BY DEF Profiles, UiThread!Profiles, Storable, UiThread!Storable, UiThread!Rows, WellKeyed,
         UiThread!WellKeyed

\* The event handlers of UiThread are those that the pump of this module calls.
LEMMA SameHandlers ==
  ASSUME NEW u
  PROVE  /\ \A rows, id : UiThread!OnProfilesRestored(u, rows, id) = OnProfilesRestored(u, rows, id)
         /\ UiThread!profile_storage_unavailable(u) = profile_storage_unavailable(u)
         /\ UiThread!mark_worker_ready(u) = mark_worker_ready(u)
         /\ \A p, ms, s : UiThread!OnConnected(u, p, ms, s) = OnConnected(u, p, ms, s)
         /\ \A p : /\ UiThread!OnProviderRejected(u, p) = OnProviderRejected(u, p)
                   /\ UiThread!OnProfileHealthUpdated(u, p) = OnProfileHealthUpdated(u, p)
         /\ \A id, m, s : UiThread!OnModelSelected(u, id, m, s) = OnModelSelected(u, id, m, s)
         /\ \A id, m : UiThread!OnModelSelectionRejected(u, id, m)
                         = OnModelSelectionRejected(u, id, m)
         /\ \A id : /\ UiThread!OnProfileDeleted(u, id) = OnProfileDeleted(u, id)
                    /\ UiThread!OnProfileDeletionRejected(u, id) = OnProfileDeletionRejected(u, id)
         /\ UiThread!record_client_error(u) = record_client_error(u)
         /\ UiThread!record_operation_failure(u) = record_operation_failure(u)
         /\ \A k, n : UiThread!OnTranslation(u, k, n) = OnTranslation(u, k, n)
         /\ UiThread!OnRejected(u) = OnRejected(u) /\ UiThread!OnStopped(u) = OnStopped(u)
  BY DEF OnProfilesRestored, UiThread!OnProfilesRestored, restore_saved_profiles_ok,
         UiThread!restore_saved_profiles_ok, restore_saved_profiles,
         UiThread!restore_saved_profiles, enabled, UiThread!enabled,
         record_client_error, UiThread!record_client_error, profile_storage_unavailable,
         UiThread!profile_storage_unavailable, provider_failed,
         UiThread!provider_failed, Busy, UiThread!Busy, mark_worker_ready,
         UiThread!mark_worker_ready, OnConnected, UiThread!OnConnected,
         provider_connected_ok, UiThread!provider_connected_ok, provider_connected,
         UiThread!provider_connected, MatchesPending, UiThread!MatchesPending,
         WithModel, UiThread!WithModel, FilteredModel, UiThread!FilteredModel,
         profiles_match_except_secret, UiThread!profiles_match_except_secret,
         OnProviderRejected, UiThread!OnProviderRejected, OnProfileHealthUpdated,
         UiThread!OnProfileHealthUpdated, update_saved_profile_health_ok,
         UiThread!update_saved_profile_health_ok, update_saved_profile_health,
         UiThread!update_saved_profile_health, IsSaved, UiThread!IsSaved,
         OnModelSelected, UiThread!OnModelSelected, ActiveIs, UiThread!ActiveIs,
         confirm_model_selection_ok, UiThread!confirm_model_selection_ok,
         confirm_model_selection, UiThread!confirm_model_selection,
         model_selection_failed_ok, UiThread!model_selection_failed_ok,
         model_selection_failed, UiThread!model_selection_failed,
         OnModelSelectionRejected, UiThread!OnModelSelectionRejected, OnProfileDeleted,
         UiThread!OnProfileDeleted, confirm_profile_deletion_ok,
         UiThread!confirm_profile_deletion_ok, confirm_profile_deletion,
         UiThread!confirm_profile_deletion, OnProfileDeletionRejected,
         UiThread!OnProfileDeletionRejected, profile_deletion_failed_ok,
         UiThread!profile_deletion_failed_ok, profile_deletion_failed,
         UiThread!profile_deletion_failed, record_operation_failure,
         UiThread!record_operation_failure, OnTranslation, UiThread!OnTranslation,
         apply_translation_event_ok, UiThread!apply_translation_event_ok,
         apply_translation_event, UiThread!apply_translation_event, record_stream_error,
         UiThread!record_stream_error, Terminal, UiThread!Terminal, OnRejected,
         UiThread!OnRejected, OnStopped, UiThread!OnStopped, mark_worker_unavailable,
         UiThread!mark_worker_unavailable, NoRows, UiThread!NoRows

\* Whatever the worker reports, applying it is a step of the UI thread.
LEMMA EventStep ==
  ASSUME NEW e \in Events, ui' = Apply(ui, e)
  PROVE  UiThread!StartupEvent \/ UiThread!ConnectionEvent \/ UiThread!ProfileEvent
           \/ UiThread!FailureEvent \/ UiThread!TranslationEvent
<1>1. CASE e.ev = "ProfilesRestored"
  <2>1. ui' = OnProfilesRestored(ui, e.rows, e.id)
    BY <1>1 DEF Apply
  <2>2. e.rows \in [Ids -> Storable \cup {None}] /\ WellKeyed(e.rows) /\ e.id \in Ids \cup {None}
    BY <1>1 DEF Events, Lists
  <2> QED
    BY <2>1, <2>2, SameSets, SameHandlers DEF UiThread!StartupEvent
<1>2. CASE e.ev = "ProfileStorageUnavailable"
  <2>1. ui' = profile_storage_unavailable(ui)
    BY <1>2 DEF Apply
  <2> QED
    BY <2>1, SameHandlers DEF UiThread!ProfileEvent
<1>3. CASE e.ev = "DemoProviderReady"
  <2>1. ui' = mark_worker_ready(ui)
    BY <1>3 DEF Apply
  <2> QED
    BY <2>1, SameHandlers DEF UiThread!StartupEvent
<1>4. CASE e.ev = "Connected"
  <2>1. ui' = OnConnected(ui, e.profile, e.models, e.saved)
    BY <1>4 DEF Apply
  <2>2. e.profile \in Profiles /\ e.models \in SUBSET Models /\ e.saved \in Storable \cup {None}
    BY <1>4 DEF Events
  <2> QED
    BY <2>1, <2>2, SameSets, SameHandlers DEF UiThread!ConnectionEvent
<1>5. CASE e.ev = "ProviderRejected"
  <2>1. ui' = OnProviderRejected(ui, e.profile)
    BY <1>5 DEF Apply
  <2>2. e.profile \in Profiles
    BY <1>5 DEF Events
  <2> QED
    BY <2>1, <2>2, SameSets, SameHandlers DEF UiThread!ConnectionEvent
<1>6. CASE e.ev = "ProfileHealthUpdated"
  <2>1. ui' = OnProfileHealthUpdated(ui, e.profile)
    BY <1>6 DEF Apply
  <2>2. e.profile \in Storable
    BY <1>6 DEF Events
  <2> QED
    BY <2>1, <2>2, SameSets, SameHandlers DEF UiThread!ConnectionEvent
<1>7. CASE e.ev = "ModelSelected"
  <2>1. ui' = OnModelSelected(ui, e.id, e.model, e.saved)
    BY <1>7 DEF Apply
  <2>2. e.id \in Ids /\ e.model \in Models /\ e.saved \in Storable \cup {None}
    BY <1>7 DEF Events
  <2> QED
    BY <2>1, <2>2, SameSets, SameHandlers DEF UiThread!ProfileEvent
<1>8. CASE e.ev = "ModelSelectionRejected"
  <2>1. ui' = OnModelSelectionRejected(ui, e.id, e.model)
    BY <1>8 DEF Apply
  <2>2. e.id \in Ids /\ e.model \in Models
    BY <1>8 DEF Events
  <2> QED
    BY <2>1, <2>2, SameHandlers DEF UiThread!ProfileEvent
<1>9. CASE e.ev = "ProfileDeleted"
  <2>1. ui' = OnProfileDeleted(ui, e.id)
    BY <1>9 DEF Apply
  <2>2. e.id \in Ids
    BY <1>9 DEF Events
  <2> QED
    BY <2>1, <2>2, SameHandlers DEF UiThread!ProfileEvent
<1>10. CASE e.ev = "ProfileDeletionRejected"
  <2>1. ui' = OnProfileDeletionRejected(ui, e.id)
    BY <1>10 DEF Apply
  <2>2. e.id \in Ids
    BY <1>10 DEF Events
  <2> QED
    BY <2>1, <2>2, SameHandlers DEF UiThread!ProfileEvent
<1>11. CASE e.ev = "SecretCleanupFailed"
  <2>1. ui' = record_client_error(ui)
    BY <1>11 DEF Apply
  <2> QED
    BY <2>1, SameHandlers DEF UiThread!FailureEvent
<1>12. CASE e.ev = "OperationFailed"
  <2>1. ui' = record_operation_failure(ui)
    BY <1>12 DEF Apply
  <2> QED
    BY <2>1, SameHandlers DEF UiThread!FailureEvent
<1>13. CASE e.ev = "Translation"
  <2>1. ui' = OnTranslation(ui, e.kind, e.n)
    BY <1>13 DEF Apply
  <2>2. e.kind \in StreamKinds /\ e.n \in 0..2
    BY <1>13 DEF Events
  <2> QED
    BY <2>1, <2>2, SameHandlers DEF UiThread!TranslationEvent, StreamKinds
<1>14. CASE e.ev = "Rejected"
  <2>1. ui' = OnRejected(ui)
    BY <1>14 DEF Apply
  <2> QED
    BY <2>1, SameHandlers DEF UiThread!StartupEvent
<1>15. CASE e.ev = "Stopped"
  <2>1. ui' = OnStopped(ui)
    BY <1>15 DEF Apply
  <2> QED
    BY <2>1, SameHandlers DEF UiThread!FailureEvent
<1> QED
  BY <1>1, <1>2, <1>3, <1>4, <1>5, <1>6, <1>7, <1>8, <1>9, <1>10, <1>11, <1>12, <1>13,
     <1>14, <1>15 DEF Events

\* The pump takes one event; the Cancel after a refused one may fail like any command.
LEMMA PumpStep ==
  ASSUME Pump, evts \in Seq(Events)
  PROVE  UiThread!StartupEvent \/ UiThread!ConnectionEvent \/ UiThread!ProfileEvent
           \/ UiThread!FailureEvent \/ UiThread!TranslationEvent
<1> DEFINE e == Head(evts)
<1>1. e \in Events
  BY DEF Pump
<1>2. CASE ui' = Apply(ui, e)
  BY <1>1, <1>2, EventStep
<1>3. CASE Refuses(ui, e) /\ ui' = record_client_error(Apply(ui, e))
  <2>1. Apply(ui, e) = record_stream_error(ui)
    BY <1>1, <1>3 DEF Refuses, Apply, OnTranslation
  <2>2. ui' = record_client_error(ui)
    BY <1>3, <2>1 DEF record_client_error, record_stream_error
  <2> QED
    BY <2>2, SameHandlers DEF UiThread!FailureEvent
<1> QED
  BY <1>2, <1>3 DEF Pump, SendCancel

\* Every step of one life of the process is a step of the UI thread, or leaves it alone.
LEMMA LifeStep ==
  ASSUME Next, evts \in Seq(Events)
  PROVE  UiThread!Next \/ ui' = ui \/ Crash
<1>1. ASSUME NEW p \in Profiles, NEW r \in BOOLEAN, ClickConnect(p, r)
      PROVE  UiThread!Next
  BY <1>1, ConnectStep, SameSets DEF UiThread!Next
<1>2. ASSUME NEW p \in Profiles, ClickTest(p)
      PROVE  UiThread!Next \/ ui' = ui
  BY <1>2, SameHandlers DEF ClickTest, Send, UiThread!Next, UiThread!FailureEvent
<1>3. ASSUME NEW id \in Ids \cup {None}, ChooseSavedProfile(id)
      PROVE  UiThread!Next
  BY <1>3, SavedStep DEF UiThread!Next
<1>4. ASSUME NEW m \in Models, ChooseModel(m)
      PROVE  UiThread!Next
  BY <1>4, ModelStep DEF UiThread!Next
<1>5. CASE ClickConnectInvalid \/ ClickRemove \/ ClickTranslate \/ ClickStop \/ ClickClear
  BY <1>5, InvalidStep, RemoveStep, TranslateStep, StopStep, ClearStep DEF UiThread!Next
<1>6. CASE Pump
  BY <1>6, PumpStep DEF UiThread!Next
<1>7. CASE Worker
  BY <1>7 DEF Worker, BeginTest, FinishTest, BeginConnect, FinishConnect, SelectModel,
              DeleteSavedProfile, FinishCleanup, Translate, IdleCancel,
              CommandWhileStreaming, StreamStep
<1> QED
  BY <1>1, <1>2, <1>3, <1>4, <1>5, <1>6, <1>7 DEF Next, User

LEMMA SameConsistent == \A u : ConsistentState(u) <=> Window!ConsistentState(u)
  BY DEF ConsistentState, Window!ConsistentState, WellTyped,
         Window!WellTyped, UiType, Window!UiType, SavedLinked, Window!SavedLinked,
         ModelsLinked, Window!ModelsLinked, StorageLinked, Window!StorageLinked,
         PendingLinked, Window!PendingLinked, Profiles, Window!Profiles, Storable,
         Window!Storable, Statuses, Window!Statuses, WellKeyed, Window!WellKeyed,
         IsSaved, Window!IsSaved, ActiveIs, Window!ActiveIs, storage_available,
         Window!storage_available, NoRows, Window!NoRows

LEMMA SameProfiles == Window!Profiles = Profiles
  BY DEF Window!Profiles, Profiles

\* What is proved of the window alone holds of the window with its worker.
LEMMA UiConsistent ==
  ASSUME ConsistentState(ui), Next, evts \in Seq(Events)
  PROVE  ConsistentState(ui')
<1>1. CASE Crash
  <2>1. Window!ConsistentState(Window!DefaultState)
    BY Window!DefaultConsistent, SameProfiles, ConstantsAssumption
  <2>2. ui' = Window!DefaultState
    BY <1>1 DEF Crash, DefaultState, Window!DefaultState, NoRows, Window!NoRows
  <2> QED
    BY <2>1, <2>2, SameConsistent
<1>2. CASE UiThread!Next \/ ui' = ui
  <2>1. Window!Consistent /\ [Window!Next]_ui
    BY <1>2, SameWindow, SameConsistent DEF Window!Consistent
  <2>2. Window!Consistent'
    BY <2>1, Window!ConsistentInductive, SameProfiles, ConstantsAssumption
  <2> QED
    BY <2>2, SameConsistent DEF Window!Consistent
<1> QED
  BY <1>1, <1>2, LifeStep

---------------------------------------------------------------------------
(* Shapes of commands, of what is awaited, and of profiles.                *)

LEMMA CommandShapes ==
  ASSUME NEW c \in Commands
  PROVE  /\ c.op = "Connect" => /\ c.profile \in Usable /\ c.remember \in BOOLEAN /\ c.n \in Nat
                                /\ c.remember => c.profile \in Storable
         /\ c.op = "TestConnection" => c.profile \in Profiles
         /\ c.op = "DeleteSavedProfile" => c.id \in Ids
         /\ c.op = "SelectModel" => c.id \in Ids /\ c.model \in Models
         /\ c.op = "Translate" => c.model \in Models /\ c.shown \in Requested
         /\ c.op \in {"Connect", "TestConnection", "DeleteSavedProfile", "SelectModel",
                      "Translate", "Cancel"}
  BY DEF Commands, Connections

LEMMA AwaitedShapes ==
  ASSUME NEW j \in Awaited
  PROVE  /\ j.kind = "connect" => /\ j.profile \in Usable /\ j.remember \in BOOLEAN /\ j.n \in Nat
                                  /\ j.remember => j.profile \in Storable
         /\ j.kind = "test" => j.profile \in Profiles
         /\ j.kind = "stream" => j.shown \in Requested /\ j.next \in 0..2
                                 /\ j = [kind |-> "stream", shown |-> j.shown, next |-> j.next]
  BY DEF Awaited, Connections

LEMMA WithModelFacts ==
  ASSUME NEW p \in Profiles, NEW m \in Models \cup {None}
  PROVE  /\ WithModel(p, m) \in Profiles /\ WithModel(p, m).model = m
         /\ WithModel(p, m).id = p.id /\ WithModel(p, m).cfg = p.cfg
         /\ p \in Storable => WithModel(p, m) \in Storable
         /\ p \in Usable => WithModel(p, m) \in Usable
  BY DEF WithModel, Profiles, Storable, Usable, enabled

\* Both queues keep their types.
LEMMA TakesFacts ==
  ASSUME cmds \in Seq(Commands), NEW op, Takes(op)
  PROVE  Head(cmds) \in Commands /\ Head(cmds).op = op /\ cmds' \in Seq(Commands) /\ job = Idle
  BY DEF Takes

LEMMA ReportFacts ==
  ASSUME evts \in Seq(Events), NEW es \in Seq(Events), Report(es)
  PROVE  evts' \in Seq(Events)
  BY ConcatProperties DEF Report

LEMMA ReportOne ==
  ASSUME evts \in Seq(Events), NEW e \in Events, Report(<<e>>)
  PROVE  evts' \in Seq(Events)
<1>1. <<e>> \in Seq(Events)
  OBVIOUS
<1> QED
  BY <1>1, ReportFacts

LEMMA SendFacts ==
  ASSUME QueuesOK, NEW c \in Commands, NEW ok, NEW bad, Send(c, ok, bad), evts' = evts
  PROVE  QueuesOK'
<1>1. Append(cmds, c) \in Seq(Commands)
  BY AppendProperties DEF QueuesOK
<1> QED
  BY <1>1 DEF QueuesOK, Send

LEMMA SendCancelFacts ==
  ASSUME cmds \in Seq(Commands), NEW ok, NEW bad, SendCancel(ok, bad)
  PROVE  cmds' \in Seq(Commands)
<1>1. [op |-> "Cancel"] \in Commands
  BY DEF Commands
<1> QED
  BY <1>1, AppendProperties DEF SendCancel

\* What a step leaves alone keeps its part of the invariant.
LEMMA Unmoved ==
  ASSUME BehindOK
  PROVE  /\ UNCHANGED <<job, wk>> => WorkerOK'
         /\ UNCHANGED store => StoreOK'
         /\ UNCHANGED <<wk, store>> => SavedInStore'
         /\ UNCHANGED <<cmds, evts, ops>> => QueuesOK'
  BY DEF BehindOK, QueuesOK, WorkerOK, StoreOK, SavedInStore

---------------------------------------------------------------------------
(* The window sends commands of these shapes only.                         *)

LEMMA ConnectBehind ==
  ASSUME SessionInv, NEW p \in Profiles, NEW r \in BOOLEAN, ClickConnect(p, r)
  PROVE  BehindOK'
<1> DEFINE old == IF ui.selected_saved = None THEN None ELSE ui.saved_profiles[ui.selected_saved]
           c == [op |-> "Connect", profile |-> p, remember |-> r, n |-> ops + 1]
<1>1. old = None \/ old \in Storable
  BY DEF SessionInv, ConsistentState, WellTyped, UiType
<1>2. p.secret \in {IF r THEN "persistent" ELSE "session", IF old = None THEN "none" ELSE old.secret}
  BY DEF ClickConnect, FormProfiles
<1>3. r => p \in Storable
  BY <1>1, <1>2 DEF Storable
<1>4. p \in Usable /\ ops + 1 \in Nat
  BY DEF ClickConnect, begin_provider_connection_ok, Usable, SessionInv, BehindOK, QueuesOK
<1>5. c \in Commands
  BY <1>3, <1>4 DEF Commands, Connections
<1>6. QueuesOK'
  BY <1>5, SendFacts DEF ClickConnect, SessionInv, BehindOK
<1> QED
  BY <1>6, Unmoved DEF ClickConnect, SessionInv, BehindOK

LEMMA TestBehind ==
  ASSUME SessionInv, NEW p \in Profiles, ClickTest(p)
  PROVE  BehindOK'
<1>1. [op |-> "TestConnection", profile |-> p] \in Commands
  BY DEF Commands
<1>2. QueuesOK'
  BY <1>1, SendFacts DEF ClickTest, SessionInv, BehindOK
<1> QED
  BY <1>2, Unmoved DEF ClickTest, SessionInv, BehindOK

LEMMA RemoveBehind ==
  ASSUME SessionInv, ClickRemove
  PROVE  BehindOK'
<1>1. ui.selected_saved \in Ids
  BY DEF ClickRemove, begin_profile_deletion_ok, IsSaved
<1>2. [op |-> "DeleteSavedProfile", id |-> ui.selected_saved] \in Commands
  BY <1>1 DEF Commands
<1>3. QueuesOK'
  BY <1>2, SendFacts DEF ClickRemove, SessionInv, BehindOK
<1> QED
  BY <1>3, Unmoved DEF ClickRemove, SessionInv, BehindOK

LEMMA ModelBehind ==
  ASSUME SessionInv, NEW m \in Models, ChooseModel(m)
  PROVE  BehindOK'
<1>1. ui.active_provider.id \in Ids
  BY DEF ChooseModel, begin_model_selection_ok, SessionInv, ConsistentState, WellTyped, UiType, Profiles
<1>2. [op |-> "SelectModel", id |-> ui.active_provider.id, model |-> m] \in Commands
  BY <1>1 DEF Commands
<1>3. QueuesOK'
  BY <1>2, SendFacts DEF ChooseModel, SessionInv, BehindOK
<1> QED
  BY <1>3, Unmoved DEF ChooseModel, SessionInv, BehindOK

LEMMA TranslateBehind ==
  ASSUME SessionInv, ClickTranslate
  PROVE  BehindOK'
<1> DEFINE shown == [id |-> ui.active_provider.id, model |-> ui.selected_model]
<1>1. ui.active_provider.id \in Ids /\ ui.selected_model \in Models
  BY DEF ClickTranslate, begin_translation_ok, begin_document_translation_ok, SessionInv,
         ConsistentState, WellTyped, UiType, Profiles
<1>2. [op |-> "Translate", model |-> ui.selected_model, shown |-> shown] \in Commands
  BY <1>1 DEF Commands, Requested
<1>3. QueuesOK'
  BY <1>2, SendFacts DEF ClickTranslate, SessionInv, BehindOK
<1> QED
  BY <1>3, Unmoved DEF ClickTranslate, SessionInv, BehindOK

LEMMA StopBehind ==
  ASSUME SessionInv, ClickStop
  PROVE  BehindOK'
<1>1. QueuesOK'
  BY SendCancelFacts DEF ClickStop, SessionInv, BehindOK, QueuesOK
<1> QED
  BY <1>1, Unmoved DEF ClickStop, SessionInv, BehindOK

LEMMA PumpBehind ==
  ASSUME SessionInv, Pump
  PROVE  BehindOK'
<1>1. evts' \in Seq(Events) /\ ops' \in Nat
  BY DEF Pump, SessionInv, BehindOK, QueuesOK
<1>2. cmds' \in Seq(Commands)
  BY SendCancelFacts DEF Pump, SessionInv, BehindOK, QueuesOK
<1> QED
  BY <1>1, <1>2, Unmoved DEF Pump, SessionInv, BehindOK, QueuesOK

---------------------------------------------------------------------------
(* The worker.                                                             *)

LEMMA PlainEvents ==
  /\ \A k \in {"ProfileStorageUnavailable", "DemoProviderReady", "SecretCleanupFailed",
               "OperationFailed", "Rejected", "Stopped"} : [ev |-> k] \in Events
  /\ \A p \in Profiles : [ev |-> "ProviderRejected", profile |-> p] \in Events
  /\ \A p \in Storable : [ev |-> "ProfileHealthUpdated", profile |-> p] \in Events
  /\ \A id \in Ids : [ev |-> "ProfileDeleted", id |-> id] \in Events
                     /\ [ev |-> "ProfileDeletionRejected", id |-> id] \in Events
  BY DEF Events

LEMMA PayloadEvents ==
  /\ \A p \in Profiles, ms \in SUBSET Models, s \in Storable \cup {None} :
       [ev |-> "Connected", profile |-> p, models |-> ms, saved |-> s] \in Events
  /\ \A id \in Ids, m \in Models :
       [ev |-> "ModelSelectionRejected", id |-> id, model |-> m] \in Events
  /\ \A id \in Ids, m \in Models, s \in Storable \cup {None} :
       [ev |-> "ModelSelected", id |-> id, model |-> m, saved |-> s] \in Events
  /\ \A k \in StreamKinds, n \in 0..2 : StreamEvent(k, n) \in Events
  BY DEF Events, StreamEvent

LEMMA Idling == Idle \in Awaited /\ [kind |-> "cleanup"] \in Awaited /\ [kind |-> "stopped"] \in Awaited
  BY DEF Idle, Awaited

LEMMA BeginTestBehind ==
  ASSUME BehindOK, BeginTest
  PROVE  BehindOK'
<1>1. Head(cmds) \in Commands /\ Head(cmds).op = "TestConnection" /\ cmds' \in Seq(Commands)
  BY TakesFacts DEF BeginTest, BehindOK, QueuesOK
<1>2. job' \in Awaited
  BY <1>1, CommandShapes DEF BeginTest, Awaited
<1> QED
  BY <1>1, <1>2, Unmoved DEF BeginTest, BehindOK, QueuesOK, WorkerOK

\* The outcome of a test may touch the health columns of a stored row.
LEMMA FinishTestBehind ==
  ASSUME BehindOK, FinishTest
  PROVE  BehindOK'
<1>1. job.profile \in Profiles
  BY AwaitedShapes DEF FinishTest, BehindOK, WorkerOK
<1>2. store.rows[job.profile.id] \in Storable \cup {None}
  BY <1>1 DEF BehindOK, StoreOK, Stores, Lists, Profiles
<1>3. \A h \in HealthReports(job.profile) : h \in Seq(Events)
  <2> DEFINE row == store.rows[job.profile.id]
             updated == [ev |-> "ProfileHealthUpdated", profile |-> row]
             failed == [ev |-> "OperationFailed"]
  <2>1. failed \in Events /\ (row # None => updated \in Events)
    BY <1>2, PlainEvents
  <2>2. HealthReports(job.profile) \subseteq {<<>>, <<failed>>}
          \cup (IF row = None THEN {} ELSE {<<updated>>})
    BY DEF HealthReports
  <2> HIDE DEF failed, updated, row
  <2>3. <<>> \in Seq(Events) /\ <<failed>> \in Seq(Events)
    BY <2>1
  <2>4. row # None => <<updated>> \in Seq(Events)
    BY <2>1
  <2> QED
    BY <2>2, <2>3, <2>4
<1>4. [ev |-> "OperationFailed"] \in Events
  BY PlainEvents
<1>5. \A h \in HealthReports(job.profile) : h \o <<[ev |-> "OperationFailed"]>> \in Seq(Events)
  BY <1>3, <1>4, ConcatProperties
<1>6. evts' \in Seq(Events)
  BY <1>3, <1>5, ReportFacts DEF FinishTest, BehindOK, QueuesOK
<1>7. job' \in Awaited
  BY Idling DEF FinishTest
<1> QED
  BY <1>6, <1>7, Unmoved DEF FinishTest, BehindOK, QueuesOK, WorkerOK

LEMMA BeginConnectBehind ==
  ASSUME BehindOK, BeginConnect
  PROVE  BehindOK'
<1>1. Head(cmds) \in Commands /\ Head(cmds).op = "Connect" /\ cmds' \in Seq(Commands)
  BY TakesFacts DEF BeginConnect, BehindOK, QueuesOK
<1>2. job' \in Awaited
  BY <1>1, CommandShapes DEF BeginConnect, Awaited, Connections
<1> QED
  BY <1>1, <1>2, Unmoved DEF BeginConnect, BehindOK, QueuesOK, WorkerOK

\* Storing the row of the active profile, and dropping a row.
LEMMA SavedFacts ==
  ASSUME StoreOK, NEW s \in Storable, s \in Usable
  PROVE  /\ Saved(store, s) \in Stores /\ Saved(store, s).active = s.id
         /\ Saved(store, s).rows[s.id] = s /\ Saved(store, s).open = store.open
<1> DEFINE rows == [store.rows EXCEPT ![s.id] = s]
<1>1. s.id \in Ids
  BY DEF Storable, Profiles
<1>2. Saved(store, s) = [store EXCEPT !.rows = rows, !.active = s.id]
  BY DEF Saved
<1>3. rows \in Lists /\ rows[s.id] = s
  BY <1>1 DEF StoreOK, Stores, Lists, WellKeyed
<1> HIDE DEF rows
<1> QED
  BY <1>1, <1>2, <1>3 DEF StoreOK, Stores

LEMMA RemovedFacts ==
  ASSUME StoreOK, NEW id \in Ids
  PROVE  /\ Removed(store, id) \in Stores /\ Removed(store, id).open = store.open
         /\ Removed(store, id).active = IF store.active = id THEN None ELSE store.active
         /\ \A i \in Ids \ {id} : Removed(store, id).rows[i] = store.rows[i]
<1> DEFINE rows == [store.rows EXCEPT ![id] = None]
           active == IF store.active = id THEN None ELSE store.active
<1>1. Removed(store, id) = [store EXCEPT !.rows = rows, !.active = active]
  BY DEF Removed
<1>2. rows \in Lists /\ \A i \in Ids \ {id} : rows[i] = store.rows[i]
  BY DEF StoreOK, Stores, Lists, WellKeyed
<1>3. active \in Ids \cup {None}
  BY DEF StoreOK, Stores
<1> HIDE DEF rows
<1> QED
  BY <1>1, <1>2, <1>3 DEF StoreOK, Stores

\* A failed write: the handle is dropped, and the session is no longer saved.
LEMMA DegradeBehind ==
  ASSUME BehindOK, NEW e \in Events, Degrade(e)
  PROVE  /\ evts' \in Seq(Events) /\ wk' \in Sessions /\ StoreOK' /\ SavedInStore'
<1>1. <<e, [ev |-> "ProfileStorageUnavailable"]>> \in Seq(Events)
  BY PlainEvents
<1>2. evts' \in Seq(Events)
  BY <1>1, ReportFacts DEF Degrade, BehindOK, QueuesOK
<1>3. wk' = [wk EXCEPT !.saved = None] /\ wk' \in Sessions /\ wk'.saved = None
  BY DEF Degrade, BehindOK, WorkerOK, Sessions
<1>4. StoreOK'
  BY DEF Degrade, BehindOK, StoreOK, Stores
<1> QED
  BY <1>2, <1>3, <1>4 DEF SavedInStore

\* A row without its session secret; the rows this module stores have none to lose.
LEMMA WithoutSecret ==
  ASSUME NEW p \in Storable
  PROVE  profile_without_secret(p) = p
  BY DEF profile_without_secret, Storable

\* The provider answered: its profile becomes the session, and the row if it is to stay.
LEMMA ConnectedBehind ==
  ASSUME BehindOK, job.kind = "connect", job.remember => store.open, NEW ms \in SUBSET Models,
         NEW p, p = WithModel(job.profile, FilteredModel(job.profile, ms)),
         NEW s, s = IF job.remember THEN profile_without_secret(p) ELSE None,
         wk' = [profile |-> p, models |-> ms, saved |-> s, model |-> p.model],
         store' = IF s = None THEN store ELSE Saved(store, s),
         Report(<<[ev |-> "Connected", profile |-> p, models |-> ms, saved |-> s]>>)
  PROVE  evts' \in Seq(Events) /\ wk' \in Sessions /\ StoreOK' /\ SavedInStore'
<1>1. /\ job.profile \in Usable /\ job.remember \in BOOLEAN
      /\ job.remember => job.profile \in Storable
  BY AwaitedShapes DEF BehindOK, WorkerOK
<1>2. FilteredModel(job.profile, ms) \in Models \cup {None}
  BY DEF FilteredModel
<1>3. p \in Usable /\ p \in Profiles /\ (job.remember => p \in Storable)
  BY <1>1, <1>2, WithModelFacts DEF Usable
<1>4. p.model \in Models \cup {None}
  BY <1>3 DEF Profiles
<1>5. s = IF job.remember THEN p ELSE None
  BY <1>3, WithoutSecret
<1>6. s \in Storable \cup {None}
  BY <1>1, <1>3, <1>5
<1>7. wk' \in Sessions /\ wk'.saved = s /\ wk'.profile = p
  BY <1>3, <1>4, <1>6 DEF Sessions
<1>8. evts' \in Seq(Events)
  <2> DEFINE e == [ev |-> "Connected", profile |-> p, models |-> ms, saved |-> s]
  <2>1. e \in Events
    BY <1>3, <1>6, PayloadEvents
  <2> QED
    BY <2>1, ReportOne DEF BehindOK, QueuesOK
<1>9. CASE s = None
  BY <1>7, <1>8, <1>9, Unmoved DEF SavedInStore
<1>10. CASE s # None
  <2>1. s = p /\ s \in Storable /\ s \in Usable /\ store.open
    BY <1>1, <1>3, <1>5, <1>10
  <2>2. /\ store' \in Stores /\ store'.active = s.id /\ store'.rows[s.id] = s
        /\ store'.open = store.open
    BY <1>10, <2>1, SavedFacts DEF BehindOK
  <2>3. StoreOK'
    BY <2>1, <2>2 DEF StoreOK
  <2>4. SavedInStore'
    BY <1>7, <2>1, <2>2 DEF SavedInStore, profiles_match_except_secret
  <2> QED
    BY <1>7, <1>8, <2>3, <2>4
<1> QED
  BY <1>9, <1>10

LEMMA FinishConnectBehind ==
  ASSUME BehindOK, FinishConnect
  PROVE  BehindOK'
<1>1. job.profile \in Profiles
  BY AwaitedShapes DEF FinishConnect, BehindOK, WorkerOK, Usable
<1>2. Rejection \in Events
  BY <1>1, PlainEvents DEF Rejection
<1>3. evts' \in Seq(Events) /\ wk' \in Sessions /\ StoreOK' /\ SavedInStore'
  <2>1. CASE /\ job.remember => store.open
             /\ \E ms \in SUBSET Models :
                  LET p == WithModel(job.profile, FilteredModel(job.profile, ms))
                      s == IF job.remember THEN profile_without_secret(p) ELSE None
                  IN  /\ wk' = [profile |-> p, models |-> ms, saved |-> s, model |-> p.model]
                      /\ store' = IF s = None THEN store ELSE Saved(store, s)
                      /\ Report(<<[ev |-> "Connected", profile |-> p, models |-> ms,
                                   saved |-> s]>>)
    BY <2>1, ConnectedBehind, Zenon DEF FinishConnect
  <2>2. CASE Degrade(Rejection)
    BY <1>2, <2>2, DegradeBehind
  <2>3. CASE Report(<<Rejection>>) /\ UNCHANGED <<wk, store>>
    <3>1. evts' \in Seq(Events)
      BY <1>2, <2>3, ReportOne DEF BehindOK, QueuesOK
    <3> QED
      BY <2>3, <3>1, Unmoved DEF BehindOK, WorkerOK
  <2> QED
    BY <2>1, <2>2, <2>3, Zenon DEF FinishConnect
<1>4. job' \in Awaited /\ cmds' = cmds /\ ops' = ops
  BY Idling DEF FinishConnect
<1> QED
  BY <1>3, <1>4 DEF BehindOK, QueuesOK, WorkerOK

\* The row follows the session when the model changes.
LEMMA SelectedBehind ==
  ASSUME BehindOK, NEW m \in Models, wk.profile # None,
         NEW s, s = IF wk.saved = None THEN None ELSE WithModel(wk.saved, m),
         s # None => store.open,
         wk' = [wk EXCEPT !.profile = WithModel(@, m), !.saved = s, !.model = m],
         store' = IF s = None THEN store ELSE Saved(store, s)
  PROVE  wk' \in Sessions /\ s \in Storable \cup {None} /\ StoreOK' /\ SavedInStore'
<1>1. wk \in Sessions /\ wk.profile \in Usable /\ wk.profile \in Profiles
      /\ wk.saved \in Storable \cup {None}
  BY DEF BehindOK, WorkerOK, Sessions, Usable
<1>2. /\ WithModel(wk.profile, m) \in Usable /\ WithModel(wk.profile, m).model = m
      /\ WithModel(wk.profile, m).id = wk.profile.id /\ WithModel(wk.profile, m).cfg = wk.profile.cfg
  BY <1>1, WithModelFacts
<1>3. CASE wk.saved = None
  <2>1. s = None
    BY <1>3
  <2>2. wk' \in Sessions /\ wk'.saved = None
    BY <1>1, <1>2, <2>1 DEF Sessions
  <2> QED
    BY <2>1, <2>2, Unmoved DEF SavedInStore
<1>4. CASE wk.saved # None
  <2>1. wk.saved \in Storable /\ wk.saved \in Profiles
    BY <1>1, <1>4 DEF Storable
  <2>2. /\ s \in Storable /\ s.model = m /\ s.id = wk.saved.id /\ s.cfg = wk.saved.cfg
        /\ s \in Profiles
    BY <1>4, <2>1, WithModelFacts
  <2>3. wk.profile.id = wk.saved.id /\ wk.profile.cfg = wk.saved.cfg
    BY <1>4 DEF BehindOK, SavedInStore, profiles_match_except_secret
  <2>4. s \in Usable /\ s # None
    BY <1>1, <2>2, <2>3, ConstantsAssumption DEF Usable, enabled
  <2>5. /\ store' \in Stores /\ store'.active = s.id /\ store'.rows[s.id] = s
        /\ store'.open = store.open
    BY <2>2, <2>4, SavedFacts DEF BehindOK
  <2>6. StoreOK'
    BY <2>4, <2>5 DEF StoreOK
  <2>7. wk' \in Sessions /\ wk'.saved = s /\ wk'.profile = WithModel(wk.profile, m)
    BY <1>1, <1>2, <2>2 DEF Sessions
  <2>8. SavedInStore'
    BY <1>2, <2>2, <2>3, <2>4, <2>5, <2>7 DEF SavedInStore, profiles_match_except_secret
  <2> QED
    BY <2>2, <2>6, <2>7, <2>8
<1> QED
  BY <1>3, <1>4

LEMMA SelectModelBehind ==
  ASSUME BehindOK, SelectModel
  PROVE  BehindOK'
<1> DEFINE c == Head(cmds)
           no == [ev |-> "ModelSelectionRejected", id |-> c.id, model |-> c.model]
           s == IF wk.saved = None THEN None ELSE WithModel(wk.saved, c.model)
           yes == [ev |-> "ModelSelected", id |-> c.id, model |-> c.model, saved |-> s]
<1>1. c \in Commands /\ c.op = "SelectModel" /\ cmds' \in Seq(Commands)
  BY TakesFacts DEF SelectModel, BehindOK, QueuesOK
<1>2. c.id \in Ids /\ c.model \in Models
  BY <1>1, CommandShapes
<1>3. no \in Events
  BY <1>2, PayloadEvents
<1>4. evts' \in Seq(Events) /\ wk' \in Sessions /\ StoreOK' /\ SavedInStore'
  <2>1. CASE Report(<<no>>) /\ UNCHANGED <<wk, store>>
    <3>1. evts' \in Seq(Events)
      BY <1>3, <2>1, ReportOne DEF BehindOK, QueuesOK
    <3> QED
      BY <2>1, <3>1, Unmoved DEF BehindOK, WorkerOK
  <2>2. CASE /\ wk.profile # None /\ (s # None => store.open)
             /\ wk' = [wk EXCEPT !.profile = WithModel(@, c.model), !.saved = s, !.model = c.model]
             /\ store' = IF s = None THEN store ELSE Saved(store, s)
             /\ Report(<<yes>>)
    <3>1. wk' \in Sessions /\ s \in Storable \cup {None} /\ StoreOK' /\ SavedInStore'
      BY <1>2, <2>2, SelectedBehind
    <3>2. yes \in Events
      BY <1>2, <3>1, PayloadEvents
    <3>3. evts' \in Seq(Events)
      BY <2>2, <3>2, ReportOne DEF BehindOK, QueuesOK
    <3> QED
      BY <3>1, <3>3
  <2>3. CASE Degrade(no)
    BY <1>3, <2>3, DegradeBehind
  <2> QED
    BY <2>1, <2>2, <2>3, Zenon DEF SelectModel
<1>5. job' = job /\ ops' = ops
  BY DEF SelectModel
<1> QED
  BY <1>1, <1>4, <1>5 DEF BehindOK, QueuesOK, WorkerOK

\* The row goes, with the selection that names it and the session's belief in it.
LEMMA DeletedBehind ==
  ASSUME BehindOK, NEW id \in Ids, store.open,
         store' = Removed(store, id),
         wk' = [wk EXCEPT !.saved = IF @ # None /\ @.id = id THEN None ELSE @]
  PROVE  wk' \in Sessions /\ StoreOK' /\ SavedInStore'
<1>1. /\ store' \in Stores /\ store'.open = store.open
      /\ store'.active = IF store.active = id THEN None ELSE store.active
      /\ \A i \in Ids \ {id} : store'.rows[i] = store.rows[i]
  BY RemovedFacts DEF BehindOK
<1>2. store.active \in Ids \cup {None}
  BY DEF BehindOK, StoreOK, Stores
<1>3. StoreOK'
  BY <1>1, <1>2 DEF BehindOK, StoreOK
<1>4. wk \in Sessions /\ wk.saved \in Storable \cup {None}
  BY DEF BehindOK, WorkerOK, Sessions
<1>5. /\ wk' \in Sessions /\ wk'.profile = wk.profile
      /\ wk'.saved = IF wk.saved # None /\ wk.saved.id = id THEN None ELSE wk.saved
  BY <1>4 DEF Sessions
<1>6. SavedInStore'
  <2>1. SUFFICES ASSUME wk'.saved # None
                 PROVE  /\ store'.open /\ store'.rows[wk'.saved.id] = wk'.saved
                        /\ store'.active = wk'.saved.id
                        /\ profiles_match_except_secret(wk'.profile, wk'.saved)
    BY DEF SavedInStore
  <2>2. wk'.saved = wk.saved /\ wk.saved # None /\ wk.saved.id # id
    BY <1>5, <2>1
  <2>3. wk.saved.id \in Ids \ {id}
    BY <1>4, <2>2 DEF Storable, Profiles
  <2> QED
    BY <1>1, <1>5, <2>2, <2>3 DEF BehindOK, SavedInStore
<1> QED
  BY <1>3, <1>5, <1>6

LEMMA DeleteBehind ==
  ASSUME BehindOK, DeleteSavedProfile
  PROVE  BehindOK'
<1> DEFINE id == Head(cmds).id
           no == [ev |-> "ProfileDeletionRejected", id |-> id]
           yes == [ev |-> "ProfileDeleted", id |-> id]
<1>1. /\ Head(cmds) \in Commands /\ Head(cmds).op = "DeleteSavedProfile"
      /\ cmds' \in Seq(Commands) /\ job = Idle
  BY TakesFacts DEF DeleteSavedProfile, BehindOK, QueuesOK
<1>2. id \in Ids
  BY <1>1, CommandShapes
<1>3. no \in Events /\ yes \in Events
  BY <1>2, PlainEvents
<1>4. job' \in Awaited
  BY <1>1, Idling DEF DeleteSavedProfile
<1>5. evts' \in Seq(Events) /\ wk' \in Sessions /\ StoreOK' /\ SavedInStore'
  <2>1. CASE /\ store.open /\ store' = Removed(store, id)
             /\ wk' = [wk EXCEPT !.saved = IF @ # None /\ @.id = id THEN None ELSE @]
             /\ Report(<<yes>>)
    <3>1. wk' \in Sessions /\ StoreOK' /\ SavedInStore'
      BY <1>2, <2>1, DeletedBehind
    <3>2. evts' \in Seq(Events)
      BY <1>3, <2>1, ReportOne DEF BehindOK, QueuesOK
    <3> QED
      BY <3>1, <3>2
  <2>2. CASE Report(<<no>>) /\ UNCHANGED <<wk, store>>
    <3>1. evts' \in Seq(Events)
      BY <1>3, <2>2, ReportOne DEF BehindOK, QueuesOK
    <3> QED
      BY <2>2, <3>1, Unmoved DEF BehindOK, WorkerOK
  <2>3. CASE Degrade(no)
    BY <1>3, <2>3, DegradeBehind
  <2> QED
    BY <2>1, <2>2, <2>3, Zenon DEF DeleteSavedProfile
<1>6. ops' = ops
  BY DEF DeleteSavedProfile
<1> QED
  BY <1>1, <1>4, <1>5, <1>6 DEF BehindOK, QueuesOK, WorkerOK

LEMMA FinishCleanupBehind ==
  ASSUME BehindOK, FinishCleanup
  PROVE  BehindOK'
<1>1. [ev |-> "SecretCleanupFailed"] \in Events
  BY PlainEvents
<1>2. evts' \in Seq(Events)
  BY <1>1, ReportOne DEF FinishCleanup, BehindOK, QueuesOK
<1>3. job' \in Awaited
  BY Idling DEF FinishCleanup
<1> QED
  BY <1>2, <1>3, Unmoved DEF FinishCleanup, BehindOK, QueuesOK, WorkerOK

LEMMA TranslateServed ==
  ASSUME BehindOK, Translate
  PROVE  BehindOK'
<1> DEFINE hit == <<StreamEvent("Started", 0), StreamEvent("TextDelta", 1), StreamEvent("Completed", 2)>>
           c == Head(cmds)
<1>1. c \in Commands /\ c.op = "Translate" /\ cmds' \in Seq(Commands) /\ job = Idle
  BY TakesFacts DEF Translate, BehindOK, QueuesOK
<1>2. /\ StreamEvent("Started", 0) \in Events /\ StreamEvent("TextDelta", 1) \in Events
      /\ StreamEvent("Completed", 2) \in Events /\ [ev |-> "OperationFailed"] \in Events
  BY PayloadEvents, PlainEvents DEF StreamKinds
<1>3. hit \in Seq(Events)
  BY <1>2
<1>4. evts' \in Seq(Events)
  <2>1. CASE Report(hit)
    BY <1>3, <2>1, ReportFacts DEF BehindOK, QueuesOK
  <2>2. CASE Report(<<[ev |-> "OperationFailed"]>>)
    BY <1>2, <2>2, ReportOne DEF BehindOK, QueuesOK
  <2>3. CASE evts' = evts
    BY <2>3 DEF BehindOK, QueuesOK
  <2> QED
    BY <2>1, <2>2, <2>3 DEF Translate
<1>5. job' \in Awaited
  <2>1. job' = job \/ job' = [kind |-> "stream", shown |-> c.shown, next |-> 0]
    BY DEF Translate
  <2>2. c.shown \in Requested
    BY <1>1, CommandShapes
  <2> QED
    BY <1>1, <2>1, <2>2, Idling DEF Awaited
<1> QED
  BY <1>1, <1>4, <1>5, Unmoved DEF Translate, BehindOK, QueuesOK, WorkerOK

LEMMA IdleCancelBehind ==
  ASSUME BehindOK, IdleCancel
  PROVE  BehindOK'
<1>1. cmds' \in Seq(Commands)
  BY TakesFacts DEF IdleCancel, BehindOK, QueuesOK
<1> QED
  BY <1>1, Unmoved DEF IdleCancel, BehindOK, QueuesOK

LEMMA CommandWhileStreamingBehind ==
  ASSUME BehindOK, CommandWhileStreaming
  PROVE  BehindOK'
<1>1. Head(cmds) \in Commands /\ cmds' \in Seq(Commands)
  BY DEF CommandWhileStreaming, BehindOK, QueuesOK
<1>2. Head(cmds).op # "Cancel" => BusyAnswer(Head(cmds)) \in Events
  BY <1>1, CommandShapes, PlainEvents, PayloadEvents DEF BusyAnswer, Usable
<1>3. evts' \in Seq(Events)
  BY <1>2, ReportOne DEF CommandWhileStreaming, BehindOK, QueuesOK
<1> QED
  BY <1>1, <1>3, Unmoved DEF CommandWhileStreaming, BehindOK, QueuesOK

LEMMA StreamStepBehind ==
  ASSUME BehindOK, StreamStep
  PROVE  BehindOK'
<1>1. /\ job.shown \in Requested /\ job.next \in 0..2
      /\ job = [kind |-> "stream", shown |-> job.shown, next |-> job.next]
  BY AwaitedShapes DEF StreamStep, BehindOK, WorkerOK
<1>2. CASE Report(<<[ev |-> "OperationFailed"]>>) /\ job' = Idle
  <2>1. evts' \in Seq(Events)
    BY <1>2, PlainEvents, ReportOne DEF BehindOK, QueuesOK
  <2> QED
    BY <1>2, <2>1, Idling, Unmoved DEF StreamStep, BehindOK, QueuesOK, WorkerOK
<1>3. ASSUME NEW k \in StreamKinds, k = "Started" <=> job.next = 0, k = "TextDelta" => job.next = 1,
             Report(<<StreamEvent(k, job.next)>>),
             IF Terminal(k) THEN job' = Idle ELSE job' = [job EXCEPT !.next = @ + 1]
      PROVE  BehindOK'
  <2>1. evts' \in Seq(Events)
    BY <1>1, <1>3, PayloadEvents, ReportOne DEF BehindOK, QueuesOK
  <2>2. ~Terminal(k) => job.next + 1 \in 0..2
    BY <1>1, <1>3 DEF StreamKinds, Terminal
  <2>3. ~Terminal(k) => job' = [kind |-> "stream", shown |-> job.shown, next |-> job.next + 1]
    BY <1>1, <1>3
  <2>4. job' \in Awaited
    BY <1>1, <1>3, <2>2, <2>3, Idling DEF Awaited
  <2> QED
    BY <2>1, <2>4, Unmoved DEF StreamStep, BehindOK, QueuesOK, WorkerOK
<1> QED
  BY <1>2, <1>3 DEF StreamStep, StreamKinds

---------------------------------------------------------------------------
(* Start and restart.                                                      *)

\* Whatever the start reports, it reports what is stored.
LEMMA StartupFacts ==
  ASSUME NEW s \in Stores, NEW w \in StartupReports(s)
  PROVE  w \in Seq(Events)
<1>1. Restored(s) \in Events
  BY DEF Restored, Events, Stores
<1>2. /\ [ev |-> "DemoProviderReady"] \in Events /\ [ev |-> "ProfileStorageUnavailable"] \in Events
      /\ [ev |-> "Rejected"] \in Events /\ [ev |-> "Stopped"] \in Events
  BY PlainEvents
<1> DEFINE r == Restored(s)
           d == [ev |-> "DemoProviderReady"]
           u == [ev |-> "ProfileStorageUnavailable"]
           x == [ev |-> "Rejected"]
           y == [ev |-> "Stopped"]
<1>3. w \in {<<r, d>>, <<u, d>>, <<r, x, y>>, <<x, y>>}
  BY DEF StartupReports
<1> HIDE DEF r, d, u, x, y
<1>4. r \in Events /\ d \in Events /\ u \in Events /\ x \in Events /\ y \in Events
  BY <1>1, <1>2 DEF r, d, u, x, y
<1>5. /\ <<r, d>> \in Seq(Events) /\ <<u, d>> \in Seq(Events)
      /\ <<r, x, y>> \in Seq(Events) /\ <<x, y>> \in Seq(Events)
  BY <1>4
<1> QED
  BY <1>3, <1>5

LEMMA NothingConnected == NoProvider \in Sessions /\ NoProvider.saved = None
  BY DEF NoProvider, Sessions

LEMMA LaunchBehind ==
  ASSUME NEW s \in Stores, s.active # None => s.rows[s.active] \in Usable, Launch(s)
  PROVE  SessionInv
<1>1. evts \in Seq(Events)
  BY StartupFacts DEF Launch
<1>2. store \in Stores /\ store.rows = s.rows /\ store.active = s.active
  <2> DEFINE b == (evts[1] = Restored(s))
  <2>1. store = [s EXCEPT !.open = b] /\ b \in BOOLEAN
    BY DEF Launch
  <2> HIDE DEF b
  <2> QED
    BY <2>1 DEF Stores
<1>3. job \in Awaited /\ wk \in Sessions /\ wk.saved = None
  BY Idling, NothingConnected DEF Launch
<1>4. cmds \in Seq(Commands) /\ ops \in Nat
  BY DEF Launch
<1>5. ConsistentState(ui)
  <2>1. Window!ConsistentState(Window!DefaultState)
    BY Window!DefaultConsistent, SameProfiles, ConstantsAssumption
  <2>2. ui = Window!DefaultState
    BY DEF Launch, DefaultState, Window!DefaultState, NoRows, Window!NoRows
  <2> QED
    BY <2>1, <2>2, SameConsistent
<1> QED
  BY <1>1, <1>2, <1>3, <1>4, <1>5
     DEF SessionInv, BehindOK, QueuesOK, WorkerOK, StoreOK, SavedInStore

LEMMA CrashBehind ==
  ASSUME BehindOK, Crash
  PROVE  BehindOK'
<1>1. PICK w \in StartupReports(store) :
        /\ evts' = w
        /\ store' = [store EXCEPT !.open = (w[1] = Restored(store))]
        /\ job' = IF Last(w).ev = "Stopped" THEN [kind |-> "stopped"] ELSE Idle
  BY Zenon DEF Crash
<1>2. evts' \in Seq(Events)
  BY <1>1, StartupFacts DEF BehindOK, StoreOK
<1>3. store' \in Stores /\ store'.rows = store.rows /\ store'.active = store.active
  <2> DEFINE b == (w[1] = Restored(store))
  <2>1. store' = [store EXCEPT !.open = b] /\ b \in BOOLEAN
    BY <1>1
  <2> HIDE DEF b
  <2> QED
    BY <2>1 DEF Stores, BehindOK, StoreOK
<1>4. job' \in Awaited /\ wk' \in Sessions /\ wk'.saved = None
  BY <1>1, Idling, NothingConnected DEF Crash
<1>5. cmds' \in Seq(Commands) /\ ops' \in Nat
  BY DEF Crash
<1> QED
  BY <1>2, <1>3, <1>4, <1>5 DEF BehindOK, QueuesOK, WorkerOK, StoreOK, SavedInStore

LEMMA InitSession == Init => SessionInv
<1>1. EmptyStore \in Stores /\ EmptyStore.active = None
  BY DEF EmptyStore, Stores, Lists, WellKeyed, NoRows
<1> QED
  BY <1>1, LaunchBehind DEF Init

---------------------------------------------------------------------------
(* The invariant, and what it gives.                                       *)

LEMMA NextSession ==
  ASSUME SessionInv, Next
  PROVE  SessionInv'
<1>1. ConsistentState(ui')
  BY UiConsistent DEF SessionInv, BehindOK, QueuesOK
<1>2. BehindOK'
  <2>1. ASSUME NEW p \in Profiles, NEW r \in BOOLEAN, ClickConnect(p, r)
        PROVE  BehindOK'
    BY <2>1, ConnectBehind
  <2>2. ASSUME NEW p \in Profiles, ClickTest(p)
        PROVE  BehindOK'
    BY <2>2, TestBehind
  <2>3. ASSUME NEW m \in Models, ChooseModel(m)
        PROVE  BehindOK'
    BY <2>3, ModelBehind
  <2>4. CASE ClickRemove \/ ClickTranslate \/ ClickStop
    BY <2>4, RemoveBehind, TranslateBehind, StopBehind
  <2>5. CASE ClickConnectInvalid \/ (\E id \in Ids \cup {None} : ChooseSavedProfile(id)) \/ ClickClear
    BY <2>5, Unmoved DEF SessionInv, BehindOK, ClickConnectInvalid, ChooseSavedProfile, ClickClear
  <2>6. CASE Pump
    BY <2>6, PumpBehind
  <2>7. CASE Worker
    BY <2>7, BeginTestBehind, FinishTestBehind, BeginConnectBehind, FinishConnectBehind,
       SelectModelBehind, DeleteBehind, FinishCleanupBehind, TranslateServed, IdleCancelBehind,
       CommandWhileStreamingBehind, StreamStepBehind DEF Worker, SessionInv
  <2>8. CASE Crash
    BY <2>8, CrashBehind DEF SessionInv
  <2> QED
    BY <2>1, <2>2, <2>3, <2>4, <2>5, <2>6, <2>7, <2>8 DEF Next, User
<1> QED
  BY <1>1, <1>2 DEF SessionInv

LEMMA SessionAlways == Spec => []SessionInv
<1>1. SessionInv /\ [Next]_vars => SessionInv'
  <2>1. SessionInv /\ UNCHANGED vars => SessionInv'
    BY DEF vars, SessionInv, BehindOK, QueuesOK, WorkerOK, StoreOK, SavedInStore
  <2> QED
    BY <2>1, NextSession
<1> QED
  BY <1>1, InitSession, PTL DEF Spec

\* The row that the worker keeps in step with its session is in the open database, is
\* the one activated there and is that of the active provider: whichever write fails,
\* whichever rows are removed, and after any crash.
THEOREM SavedRowIsStored == Spec => []SavedInStore
<1>1. SessionInv => SavedInStore
  BY DEF SessionInv, BehindOK
<1> QED
  BY <1>1, SessionAlways, PTL

\* A crash between any two steps leaves a list of profiles that the next start accepts
\* (restore_saved_profiles): no session secret in it, and a selection that can be used.
THEOREM AlwaysRestorable == Spec => []StoreRestorable
<1>1. SessionInv => StoreRestorable
  <2>1. SUFFICES ASSUME SessionInv
                 PROVE  StoreRestorable
    OBVIOUS
  <2>2. \A i \in Ids : store.rows[i] # None => store.rows[i].secret # "session"
    BY <2>1 DEF SessionInv, BehindOK, StoreOK, Stores, Lists, Storable
  <2>3. store.active # None => store.rows[store.active] # None /\ enabled(store.rows[store.active])
    BY <2>1, ConstantsAssumption DEF SessionInv, BehindOK, StoreOK, Usable
  <2> QED
    BY <2>2, <2>3 DEF StoreRestorable, restore_saved_profiles_ok, DefaultState
<1> QED
  BY <1>1, SessionAlways, PTL

\* What AppStateProofs shows of the window with any worker holds of the window with
\* this one, through every crash and restart.
THEOREM WindowStaysConsistent == Spec => []ConsistentState(ui)
<1>1. SessionInv => ConsistentState(ui)
  BY DEF SessionInv
<1> QED
  BY <1>1, SessionAlways, PTL

\* In one life of the process the window with its worker is a UI thread of AppState:
\* no order of events, refusals and full queues takes it where AppState cannot go.
\* (A restart begins another window, so this is said of a process that does not crash.)
THEOREM WindowIsAppState == ASSUME MaxCrashes = 0 PROVE Spec => ImplementsAppState
<1>1. Init => UiThread!Init
  BY DEF Init, Launch, UiThread!Init, DefaultState, UiThread!DefaultState, NoRows, UiThread!NoRows
<1>2. SessionInv /\ crashes \in Nat /\ [Next]_vars => [UiThread!Next]_ui
  <2>1. SUFFICES ASSUME SessionInv, crashes \in Nat, [Next]_vars
                 PROVE  UiThread!Next \/ ui' = ui
    OBVIOUS
  <2>2. ~Crash
    BY <2>1 DEF Crash
  <2>3. CASE UNCHANGED vars
    BY <2>3 DEF vars
  <2>4. CASE Next
    BY <2>1, <2>2, <2>4, LifeStep DEF SessionInv, BehindOK, QueuesOK
  <2> QED
    BY <2>1, <2>3, <2>4
<1>3. Init => crashes \in Nat
  BY DEF Init
<1>4. crashes \in Nat /\ [Next]_vars => (crashes \in Nat)'
  <2>1. User => crashes' = crashes
    BY DEF User, ClickConnect, ClickConnectInvalid, ClickTest, ClickRemove, ChooseSavedProfile,
           ChooseModel, ClickTranslate, ClickStop, ClickClear
  <2>2. Worker => crashes' = crashes
    BY DEF Worker, BeginTest, FinishTest, BeginConnect, FinishConnect, SelectModel,
           DeleteSavedProfile, FinishCleanup, Translate, IdleCancel, CommandWhileStreaming,
           StreamStep
  <2>3. Pump \/ UNCHANGED vars => crashes' = crashes
    BY DEF Pump, vars
  <2>4. Crash => crashes' = crashes + 1
    BY DEF Crash
  <2> QED
    BY <2>1, <2>2, <2>3, <2>4 DEF Next
<1> QED
  BY <1>1, <1>2, <1>3, <1>4, SessionAlways, PTL DEF Spec, ImplementsAppState, UiThread!Spec
---------------------------------------------------------------------------
(* What can be under way at once.                                          *)
(*                                                                         *)
(* While no report comes that the window does not wait for, and the queue  *)
(* never fills, the two threads are always in one of six phases, and at    *)
(* most one request, its stream or its answer is under way.  Without these *)
(* conditions they need not be: a failed test ends the wait for a running  *)
(* translation (run session_mismatch), as a late failure of the storage or *)
(* of the removal of a secret does.                                        *)

\* Stop may leave any number of Cancel commands behind.
Cancels(q) == \A i \in 1..Len(q) : q[i].op = "Cancel"

\* c is queued, and nothing else but Cancel.
OnlyCommand(q, c) ==
  \E i \in 1..Len(q) : q[i] = c /\ \A j \in 1..Len(q) : j # i => q[j].op = "Cancel"

IdOf(p) == IF p = None THEN None ELSE p.id

\* The window names the provider that the worker uses.
Match == IdOf(ui.active_provider) = IdOf(wk.profile)

\* The worker has nothing to report of what it does.
Free == job.kind \in {"idle", "cleanup", "stopped"}

StartEvents ==
  {"ProfilesRestored", "ProfileStorageUnavailable", "DemoProviderReady", "Rejected", "Stopped"}

MidStream(e) == e.ev = "Translation" /\ ~Terminal(e.kind)

\* The connection the window waits for.
Promised(p, remember) == ui.pending_provider = p /\ ui.will_be_saved = remember

\* The window is not usable before it has read the last report of the start.
AtStart ==
  /\ cmds = <<>> /\ Free /\ Match /\ ui.worker_startup # "Ready" /\ evts # <<>>
  /\ \A i \in 1..Len(evts) :
       evts[i].ev \in StartEvents /\ (evts[i].ev = "DemoProviderReady" => i = Len(evts))

AtRest == Cancels(cmds) /\ evts = <<>> /\ Free /\ Match

\* What the window promised when it sent c.
Backed(c) ==
  \/ c.op = "Connect" /\ Promised(c.profile, c.remember)
  \/ c.op = "SelectModel" /\ ui.pending_model = c.model
  \/ c.op = "DeleteSavedProfile" /\ ui.pending_deletion = c.id
  \/ c.op = "Translate" /\ wk.profile # None /\ c.shown = [id |-> wk.profile.id, model |-> c.model]

Asked ==
  /\ evts = <<>> /\ Free /\ Match /\ blocked(ui)
  /\ \E c \in {cmds[i] : i \in 1..Len(cmds)} : OnlyCommand(cmds, c) /\ Backed(c)

Dialling ==
  /\ job.kind = "connect" /\ Promised(job.profile, job.remember)
  /\ Cancels(cmds) /\ evts = <<>> /\ Match /\ blocked(ui)

Streaming ==
  /\ job.kind = "stream" /\ wk.profile # None
  /\ job.shown = [id |-> wk.profile.id, model |-> wk.model]
  /\ Cancels(cmds) /\ Match /\ blocked(ui)
  /\ \A i \in 1..Len(evts) : MidStream(evts[i])

\* Reports after which the window names the same provider as before.
Answers == {"ProviderRejected", "ModelSelected", "ModelSelectionRejected", "ProfileDeleted",
            "ProfileDeletionRejected", "OperationFailed", "Translation"}

\* The answer that switches the window to the provider the worker has.
Switches(e) ==
  e.ev = "Connected" /\ wk.profile = e.profile
    /\ provider_connected_ok(ui, e.profile, e.models, e.saved)

\* The last unread report is the answer; until it is read the window stays blocked.
Answered ==
  /\ Cancels(cmds) /\ Free /\ blocked(ui) /\ evts # <<>>
  /\ \A i \in 1..(Len(evts) - 1) : MidStream(evts[i])
  /\ \/ Len(evts) = 1 /\ Switches(evts[1])
     \/ evts[Len(evts)].ev \in Answers /\ Match

Phase == AtStart \/ AtRest \/ Asked \/ Dialling \/ Streaming \/ Answered

---------------------------------------------------------------------------
(* The queue with one command in it.                                       *)

LEMMA MoreCancel ==
  ASSUME NEW q \in Seq(Commands), NEW r, r = Append(q, [op |-> "Cancel"])
  PROVE  /\ Cancels(q) => Cancels(r)
         /\ \A c : OnlyCommand(q, c) => OnlyCommand(r, c)
<1> DEFINE x == [op |-> "Cancel"]
<1>1. x.op = "Cancel"
  OBVIOUS
<1> HIDE DEF x
<1>2. /\ Len(r) = Len(q) + 1 /\ r[Len(q) + 1] = x
      /\ \A i \in 1..Len(q) : r[i] = q[i]
  BY DEF x
<1>3. Len(q) \in Nat
  OBVIOUS
<1>4. \A i \in 1..Len(r) : i \in 1..Len(q) \/ r[i].op = "Cancel"
  BY <1>1, <1>2, <1>3
<1>5. Cancels(q) => Cancels(r)
  BY <1>2, <1>4 DEF Cancels
<1>6. ASSUME NEW c, OnlyCommand(q, c)
      PROVE  OnlyCommand(r, c)
  <2>1. PICK i \in 1..Len(q) : q[i] = c /\ \A j \in 1..Len(q) : j # i => q[j].op = "Cancel"
    BY <1>6 DEF OnlyCommand
  <2>2. i \in 1..Len(r) /\ r[i] = c
    BY <1>2, <1>3, <2>1
  <2>3. \A j \in 1..Len(r) : j # i => r[j].op = "Cancel"
    BY <1>2, <1>4, <2>1
  <2> QED
    BY <2>2, <2>3 DEF OnlyCommand
<1> QED
  BY <1>5, <1>6

LEMMA FirstRequest ==
  ASSUME NEW q \in Seq(Commands), Cancels(q), NEW c, NEW r, r = Append(q, c)
  PROVE  OnlyCommand(r, c)
<1>1. /\ Len(r) = Len(q) + 1 /\ r[Len(q) + 1] = c
      /\ \A i \in 1..Len(q) : r[i] = q[i]
  OBVIOUS
<1>2. Len(q) \in Nat
  OBVIOUS
<1>3. \A j \in 1..Len(r) : j # Len(r) => j \in 1..Len(q)
  BY <1>1, <1>2
<1>4. \A j \in 1..Len(r) : j # Len(r) => r[j].op = "Cancel"
  BY <1>1, <1>3 DEF Cancels
<1> QED
  BY <1>1, <1>2, <1>4 DEF OnlyCommand

LEMMA CancelTaken ==
  ASSUME NEW q \in Seq(Commands), Cancels(q), q # <<>>
  PROVE  Head(q).op = "Cancel" /\ Cancels(Tail(q))
  BY DEF Cancels

LEMMA CommandTaken ==
  ASSUME NEW q \in Seq(Commands), q # <<>>, NEW c, OnlyCommand(q, c), NEW r, r = Tail(q)
  PROVE  \/ Head(q) = c /\ Cancels(r)
         \/ Head(q).op = "Cancel" /\ OnlyCommand(r, c)
<1>1. PICK i \in 1..Len(q) : q[i] = c /\ \A j \in 1..Len(q) : j # i => q[j].op = "Cancel"
  BY DEF OnlyCommand
<1>2. /\ Len(r) = Len(q) - 1 /\ Len(q) \in Nat /\ Len(q) > 0
      /\ \A j \in 1..Len(r) : r[j] = q[j + 1] /\ j + 1 \in 1..Len(q)
  OBVIOUS
<1>3. Head(q) = q[1]
  OBVIOUS
<1>4. CASE i = 1
  <2>1. \A j \in 1..Len(r) : j + 1 # i
    BY <1>4
  <2> QED
    BY <1>1, <1>2, <1>3, <1>4, <2>1 DEF Cancels
<1>5. CASE i # 1
  <2>1. Head(q).op = "Cancel"
    BY <1>1, <1>2, <1>3, <1>5
  <2>2. i - 1 \in 1..Len(r) /\ r[i - 1] = c
    BY <1>1, <1>2, <1>5
  <2>3. \A j \in 1..Len(r) : j # i - 1 => r[j].op = "Cancel"
    BY <1>1, <1>2
  <2> QED
    BY <2>1, <2>2, <2>3 DEF OnlyCommand
<1> QED
  BY <1>4, <1>5

---------------------------------------------------------------------------
(* What a step of the window leaves alone.                                 *)

\* v is u with another status, and blocked like it.
SameWait(u, v) ==
  /\ v.active_provider = u.active_provider /\ v.worker_startup = u.worker_startup
  /\ v.pending_provider = u.pending_provider /\ v.will_be_saved = u.will_be_saved
  /\ v.pending_model = u.pending_model /\ v.pending_deletion = u.pending_deletion
  /\ blocked(u) => blocked(v)

LEMMA SamePromise ==
  \A u, v : SameWait(u, v) => \A p, ms, s :
    provider_connected_ok(v, p, ms, s) <=> provider_connected_ok(u, p, ms, s)
  BY DEF SameWait, provider_connected_ok, MatchesPending

\* Stop adds a Cancel, or none, and leaves the wait as it is.
LEMMA StopFacts ==
  ASSUME ui \in UiType, cmds \in Seq(Commands), HasRoom, ClickStop
  PROVE  /\ SameWait(ui, ui')
         /\ cmds' = cmds \/ cmds' = Append(cmds, [op |-> "Cancel"])
         /\ UNCHANGED <<evts, wk, job>>
         /\ ui.worker_startup = "Ready"
<1>1. ui' = ui \/ ui' = request_cancellation(ui)
  BY DEF ClickStop, SendCancel
<1>2. SameWait(ui, ui')
  BY <1>1 DEF request_cancellation, SameWait, UiType, blocked, Busy
<1> QED
  BY <1>2 DEF ClickStop, SendCancel, stop_enabled

\* Text in the middle of a translation never ends the wait, even where it is refused.
LEMMA MidStreamFacts ==
  ASSUME NEW u \in UiType, NEW e \in Events, MidStream(e), blocked(u)
  PROVE  SameWait(u, Apply(u, e))
<1>1. e.kind \in {"Started", "TextDelta"} /\ e.ev = "Translation"
  BY DEF Events, MidStream, StreamKinds, Terminal
<1>2. Apply(u, e) = OnTranslation(u, e.kind, e.n)
  BY <1>1 DEF Apply
<1>3. SameWait(u, record_stream_error(u))
  BY DEF record_stream_error, SameWait, UiType, blocked, Busy
<1>4. SameWait(u, apply_translation_event(u, e.kind, e.n))
  BY <1>1 DEF apply_translation_event, SameWait, UiType, blocked, Busy
<1> QED
  BY <1>2, <1>3, <1>4 DEF OnTranslation

\* What the pump does to the queue: nothing, or it adds a Cancel.
LEMMA PumpFacts ==
  ASSUME HasRoom, Pump
  PROVE  /\ ui' = Apply(ui, Head(evts))
         /\ cmds' = cmds \/ (Head(evts).ev = "Translation" /\ cmds' = Append(cmds, [op |-> "Cancel"]))
         /\ evts # <<>> /\ evts' = Tail(evts) /\ UNCHANGED <<wk, job>>
  BY DEF Pump, SendCancel, Refuses

\* An answer other than Connected leaves the window its provider.
LEMMA AnswerFacts ==
  ASSUME NEW u \in UiType, NEW e \in Events, e.ev \in Answers
  PROVE  IdOf(Apply(u, e).active_provider) = IdOf(u.active_provider)
<1>1. CASE e.ev = "ProviderRejected"
  BY <1>1 DEF Apply, OnProviderRejected, provider_failed, UiType
<1>2. CASE e.ev = "ModelSelected"
  <2>1. Apply(u, e) = OnModelSelected(u, e.id, e.model, e.saved)
    BY <1>2 DEF Apply
  <2>2. \A x : model_selection_failed(u, x).active_provider = u.active_provider
    BY DEF model_selection_failed, UiType
  <2>3. ASSUME confirm_model_selection_ok(u, e.id, e.model, e.saved)
        PROVE  IdOf(confirm_model_selection(u, e.id, e.model, e.saved).active_provider)
                 = IdOf(u.active_provider)
    <3>1. u.active_provider # None /\ u.active_provider \in Profiles
      BY <2>3 DEF confirm_model_selection_ok, UiType
    <3>2. e.model \in Models
      BY <1>2 DEF Events
    <3>3. confirm_model_selection(u, e.id, e.model, e.saved).active_provider
            = WithModel(u.active_provider, e.model)
      BY DEF confirm_model_selection, UiType
    <3>4. WithModel(u.active_provider, e.model) \in Profiles
          /\ WithModel(u.active_provider, e.model).id = u.active_provider.id
      BY <3>1, <3>2 DEF WithModel, Profiles
    <3> QED
      BY <3>1, <3>3, <3>4, ConstantsAssumption DEF IdOf
  <2> QED
    BY <2>1, <2>2, <2>3 DEF OnModelSelected
<1>3. CASE e.ev = "ModelSelectionRejected"
  BY <1>3 DEF Apply, OnModelSelectionRejected, model_selection_failed, UiType
<1>4. CASE e.ev = "ProfileDeleted"
  BY <1>4 DEF Apply, OnProfileDeleted, confirm_profile_deletion, UiType
<1>5. CASE e.ev = "ProfileDeletionRejected"
  BY <1>5 DEF Apply, OnProfileDeletionRejected, profile_deletion_failed, UiType
<1>6. CASE e.ev = "OperationFailed"
  BY <1>6 DEF Apply, record_operation_failure, UiType
<1>7. CASE e.ev = "Translation"
  BY <1>7 DEF Apply, OnTranslation, record_stream_error, apply_translation_event, UiType
<1> QED
  BY <1>1, <1>2, <1>3, <1>4, <1>5, <1>6, <1>7 DEF Answers

\* The events of the start connect nothing, and only the last one opens the controls.
LEMMA StartFacts ==
  ASSUME NEW u \in UiType, NEW e \in Events, e.ev \in StartEvents
  PROVE  /\ Apply(u, e).active_provider = u.active_provider
         /\ e.ev # "DemoProviderReady" /\ u.worker_startup # "Ready"
              => Apply(u, e).worker_startup # "Ready"
<1>1. CASE e.ev = "ProfilesRestored"
  BY <1>1 DEF Apply, OnProfilesRestored, restore_saved_profiles, record_client_error, UiType
<1>2. CASE e.ev = "ProfileStorageUnavailable"
  BY <1>2 DEF Apply, profile_storage_unavailable, provider_failed, UiType
<1>3. CASE e.ev = "DemoProviderReady"
  BY <1>3 DEF Apply, mark_worker_ready, UiType
<1>4. CASE e.ev = "Rejected"
  BY <1>4 DEF Apply, OnRejected, mark_worker_unavailable, provider_failed, UiType
<1>5. CASE e.ev = "Stopped"
  BY <1>5 DEF Apply, OnStopped, mark_worker_unavailable, record_client_error, UiType
<1> QED
  BY <1>1, <1>2, <1>3, <1>4, <1>5 DEF StartEvents

---------------------------------------------------------------------------
(* The window's steps.                                                     *)

\* Only a window at rest sends a command.
LEMMA RestsUnblocked ==
  ASSUME Phase, provider_controls_enabled(ui)
  PROVE  AtRest
  BY DEF Phase, AtStart, Asked, Dialling, Streaming, Answered, provider_controls_enabled

LEMMA AskedNow ==
  ASSUME AtRest, cmds \in Seq(Commands), NEW c, cmds' = Append(cmds, c),
         UNCHANGED <<evts, wk, job>>, ui'.active_provider = ui.active_provider,
         blocked(ui'), Backed(c)'
  PROVE  Phase'
<1>1. OnlyCommand(cmds', c)
  BY FirstRequest DEF AtRest
<1>2. c \in {cmds'[i] : i \in 1..Len(cmds')}
  BY <1>1 DEF OnlyCommand
<1>3. evts' = <<>> /\ Free' /\ Match'
  BY DEF AtRest, Free, Match
<1> QED
  BY <1>1, <1>2, <1>3 DEF Phase, Asked

LEMMA ConnectPhase ==
  ASSUME SessionInv, Phase, HasRoom, NEW p \in Profiles, NEW r \in BOOLEAN, ClickConnect(p, r)
  PROVE  Phase'
<1>0. PICK c : c = [op |-> "Connect", profile |-> p, remember |-> r, n |-> ops + 1]
  OBVIOUS
<1>1. AtRest /\ cmds \in Seq(Commands) /\ ui \in UiType
  BY RestsUnblocked DEF ClickConnect, SessionInv, BehindOK, QueuesOK, ConsistentState, WellTyped
<1>2. ui' = begin_provider_connection(ui, p, r) /\ cmds' = Append(cmds, c)
      /\ UNCHANGED <<evts, wk, job>>
  BY <1>0 DEF ClickConnect, Send
<1>3. /\ ui'.active_provider = ui.active_provider /\ blocked(ui')
      /\ ui'.pending_provider = p /\ ui'.will_be_saved = r
  BY <1>1, <1>2 DEF begin_provider_connection, UiType, blocked
<1>4. c.op = "Connect" /\ c.profile = p /\ c.remember = r
  BY <1>0
<1>5. Backed(c)'
  BY <1>3, <1>4 DEF Backed, Promised
<1> QED
  BY <1>1, <1>2, <1>3, <1>5, AskedNow

LEMMA RemovePhase ==
  ASSUME SessionInv, Phase, HasRoom, ClickRemove
  PROVE  Phase'
<1>0. PICK c : c = [op |-> "DeleteSavedProfile", id |-> ui.selected_saved]
  OBVIOUS
<1>1. AtRest /\ cmds \in Seq(Commands) /\ ui \in UiType
  BY RestsUnblocked DEF ClickRemove, SessionInv, BehindOK, QueuesOK, ConsistentState, WellTyped
<1>2. ui' = begin_profile_deletion(ui, ui.selected_saved) /\ cmds' = Append(cmds, c)
      /\ UNCHANGED <<evts, wk, job>>
  BY <1>0 DEF ClickRemove, Send
<1>3. ui.selected_saved \in Ids
  BY DEF ClickRemove, begin_profile_deletion_ok, IsSaved
<1>4. /\ ui'.active_provider = ui.active_provider /\ blocked(ui')
      /\ ui'.pending_deletion = ui.selected_saved
  BY <1>1, <1>2, <1>3, ConstantsAssumption DEF begin_profile_deletion, UiType, blocked
<1>5. c.op = "DeleteSavedProfile" /\ c.id = ui.selected_saved
  BY <1>0
<1>6. Backed(c)'
  BY <1>4, <1>5 DEF Backed
<1> QED
  BY <1>1, <1>2, <1>4, <1>6, AskedNow

LEMMA ModelPhase ==
  ASSUME SessionInv, Phase, HasRoom, NEW m \in Models, ChooseModel(m)
  PROVE  Phase'
<1>0. PICK c : c = [op |-> "SelectModel", id |-> ui.active_provider.id, model |-> m]
  OBVIOUS
<1>1. AtRest /\ cmds \in Seq(Commands) /\ ui \in UiType
  BY RestsUnblocked DEF ChooseModel, SessionInv, BehindOK, QueuesOK, ConsistentState, WellTyped
<1>2. ui' = begin_model_selection(ui, m) /\ cmds' = Append(cmds, c) /\ UNCHANGED <<evts, wk, job>>
  BY <1>0 DEF ChooseModel, Send
<1>3. /\ ui'.active_provider = ui.active_provider /\ blocked(ui')
      /\ ui'.pending_model = m
  BY <1>1, <1>2, ConstantsAssumption DEF begin_model_selection, UiType, blocked
<1>4. c.op = "SelectModel" /\ c.model = m
  BY <1>0
<1>5. Backed(c)'
  BY <1>3, <1>4 DEF Backed
<1> QED
  BY <1>1, <1>2, <1>3, <1>5, AskedNow

\* The window names its active provider, which is the worker's.
LEMMA TranslatePhase ==
  ASSUME SessionInv, Phase, HasRoom, ClickTranslate
  PROVE  Phase'
<1>0. PICK c : c = [op |-> "Translate", model |-> ui.selected_model,
                    shown |-> [id |-> ui.active_provider.id, model |-> ui.selected_model]]
  OBVIOUS
<1>1. AtRest /\ cmds \in Seq(Commands) /\ ui \in UiType /\ wk \in Sessions
  BY RestsUnblocked
     DEF ClickTranslate, SessionInv, BehindOK, QueuesOK, WorkerOK, ConsistentState, WellTyped
<1>2. ui' = begin_translation(ui) /\ cmds' = Append(cmds, c) /\ UNCHANGED <<evts, wk, job>>
  BY <1>0 DEF ClickTranslate, Send
<1>3. ui'.active_provider = ui.active_provider /\ blocked(ui')
  BY <1>1, <1>2 DEF begin_translation, UiType, blocked, Busy
<1>4. ui.active_provider \in Profiles /\ ui.active_provider # None
  BY <1>1 DEF ClickTranslate, begin_translation_ok, begin_document_translation_ok, UiType
<1>5. ui.active_provider.id \in Ids
  BY <1>4 DEF Profiles
<1>6. wk.profile # None /\ wk.profile.id = ui.active_provider.id
  BY <1>1, <1>4, <1>5, ConstantsAssumption DEF AtRest, Match, IdOf
<1>7. c.op = "Translate" /\ c.shown = [id |-> ui.active_provider.id, model |-> c.model]
  BY <1>0
<1>8. Backed(c)'
  BY <1>2, <1>6, <1>7 DEF Backed
<1> QED
  BY <1>1, <1>2, <1>3, <1>8, AskedNow

\* Stop changes no phase, whatever the window waits for.
LEMMA StopPhase ==
  ASSUME SessionInv, Phase, HasRoom, ClickStop
  PROVE  Phase'
<1>1. cmds \in Seq(Commands) /\ ui \in UiType
  BY DEF SessionInv, BehindOK, QueuesOK, ConsistentState, WellTyped
<1>2. /\ SameWait(ui, ui') /\ UNCHANGED <<evts, wk, job>> /\ ui.worker_startup = "Ready"
      /\ cmds' = cmds \/ cmds' = Append(cmds, [op |-> "Cancel"])
  BY <1>1, StopFacts
<1>3. /\ Cancels(cmds) => Cancels(cmds')
      /\ \A c : OnlyCommand(cmds, c) => OnlyCommand(cmds', c)
  BY <1>1, <1>2, MoreCancel
<1>4. Free' = Free /\ Match' = Match
  BY <1>2 DEF SameWait, Free, Match
<1>5. CASE AtStart
  BY <1>2, <1>5 DEF AtStart
<1>6. CASE AtRest
  BY <1>2, <1>3, <1>4, <1>6 DEF AtRest, Phase
<1>7. CASE Asked
  <2>1. PICK c : OnlyCommand(cmds, c) /\ Backed(c)
    BY <1>7 DEF Asked
  <2>2. OnlyCommand(cmds', c) /\ c \in {cmds'[i] : i \in 1..Len(cmds')}
    BY <1>3, <2>1 DEF OnlyCommand
  <2>3. Backed(c)'
    BY <1>2, <2>1 DEF Backed, Promised, SameWait
  <2> QED
    BY <1>2, <1>4, <1>7, <2>2, <2>3 DEF Asked, Phase, SameWait
<1>8. CASE Dialling
  BY <1>2, <1>3, <1>4, <1>8 DEF Dialling, Promised, Phase, SameWait
<1>9. CASE Streaming
  BY <1>2, <1>3, <1>4, <1>9 DEF Streaming, Phase, SameWait
<1>10. CASE Answered
  <2>1. \A e : Switches(e) => Switches(e)'
    BY <1>2, SamePromise DEF Switches
  <2> QED
    BY <1>2, <1>3, <1>4, <1>10, <2>1 DEF Answered, Phase, SameWait
<1> QED
  BY <1>5, <1>6, <1>7, <1>8, <1>9, <1>10 DEF Phase

LEMMA UserPhase ==
  ASSUME SessionInv, Phase, HasRoom, Unawaited = {}, User
  PROVE  Phase'
<1>1. ui \in UiType
  BY DEF SessionInv, ConsistentState, WellTyped
<1>2. CASE ClickConnectInvalid
  <2>1. AtRest
    BY <1>2, RestsUnblocked DEF ClickConnectInvalid
  <2>2. ui'.active_provider = ui.active_provider
    BY <1>1, <1>2 DEF ClickConnectInvalid, provider_failed, UiType
  <2> QED
    BY <1>2, <2>1, <2>2 DEF ClickConnectInvalid, AtRest, Match, Free, Phase
<1>3. ASSUME NEW id \in Ids \cup {None}, ChooseSavedProfile(id)
      PROVE  Phase'
  <2>1. AtRest
    BY <1>3, RestsUnblocked DEF ChooseSavedProfile
  <2>2. ui'.active_provider = ui.active_provider
    BY <1>1, <1>3 DEF ChooseSavedProfile, select_saved_profile, UiType
  <2> QED
    BY <1>3, <2>1, <2>2 DEF ChooseSavedProfile, AtRest, Match, Free, Phase
<1>4. CASE ClickClear
  <2>1. AtStart \/ AtRest
    BY <1>4 DEF ClickClear, Phase, Asked, Dialling, Streaming, Answered
  <2>2. ui'.active_provider = ui.active_provider /\ ui'.worker_startup = ui.worker_startup
    BY <1>1, <1>4 DEF ClickClear, clear_workspace, UiType
  <2> QED
    BY <1>4, <2>1, <2>2 DEF ClickClear, AtStart, AtRest, Match, Free, Phase
<1>5. \A p : ~ClickTest(p)
  BY DEF ClickTest
<1> QED
  BY <1>2, <1>3, <1>4, <1>5, ConnectPhase, RemovePhase, ModelPhase, TranslatePhase, StopPhase DEF User

---------------------------------------------------------------------------
(* The pump's steps.                                                       *)

\* The window becomes usable with the last report of the start, never before.
LEMMA PumpAtStart ==
  ASSUME SessionInv, AtStart, HasRoom, Pump
  PROVE  Phase'
<1> DEFINE e == Head(evts)
<1>1. /\ ui \in UiType /\ evts \in Seq(Events) /\ cmds = <<>>
      /\ ui.worker_startup # "Ready" /\ evts # <<>>
  BY DEF SessionInv, BehindOK, QueuesOK, ConsistentState, WellTyped, AtStart
<1>2. /\ e \in Events /\ e.ev \in StartEvents
      /\ e.ev = "DemoProviderReady" => Len(evts) = 1
  <2>1. e = evts[1] /\ 1 \in 1..Len(evts) /\ e \in Events
    BY <1>1
  <2>2. evts[1].ev \in StartEvents /\ (evts[1].ev = "DemoProviderReady" => 1 = Len(evts))
    BY <2>1 DEF AtStart
  <2> QED
    BY <2>1, <2>2, Zenon
<1>3. ui' = Apply(ui, e) /\ evts' = Tail(evts) /\ UNCHANGED <<cmds, wk, job>>
  BY <1>2, PumpFacts DEF StartEvents
<1>4. /\ ui'.active_provider = ui.active_provider
      /\ e.ev # "DemoProviderReady" => ui'.worker_startup # "Ready"
  BY <1>1, <1>2, <1>3, StartFacts
<1>5. Free' /\ Match' /\ cmds' = <<>>
  BY <1>1, <1>3, <1>4 DEF AtStart, Free, Match
<1>6. CASE evts' = <<>>
  BY <1>5, <1>6 DEF Phase, AtRest, Cancels
<1>7. CASE evts' # <<>>
  <2>1. \A i \in 1..Len(evts') : i + 1 \in 1..Len(evts) /\ evts'[i] = evts[i + 1]
    BY <1>1, <1>3
  <2>2. Len(evts') = Len(evts) - 1 /\ Len(evts) # 1
    BY <1>1, <1>3, <1>7
  <2>3. \A i \in 1..Len(evts') :
          evts'[i].ev \in StartEvents /\ (evts'[i].ev = "DemoProviderReady" => i = Len(evts'))
    BY <2>1, <2>2 DEF AtStart
  <2> QED
    BY <1>2, <1>4, <1>5, <1>7, <2>2, <2>3 DEF Phase, AtStart
<1> QED
  BY <1>6, <1>7

LEMMA PumpStreaming ==
  ASSUME SessionInv, Streaming, HasRoom, Pump
  PROVE  Phase'
<1> DEFINE e == Head(evts)
<1>1. ui \in UiType /\ evts \in Seq(Events) /\ cmds \in Seq(Commands) /\ evts # <<>>
  BY DEF SessionInv, BehindOK, QueuesOK, ConsistentState, WellTyped, Pump
<1>2. e \in Events /\ MidStream(e)
  BY <1>1 DEF Streaming
<1>3. /\ ui' = Apply(ui, e) /\ evts' = Tail(evts) /\ UNCHANGED <<wk, job>>
      /\ cmds' = cmds \/ cmds' = Append(cmds, [op |-> "Cancel"])
  BY PumpFacts
<1>4. SameWait(ui, ui')
  BY <1>1, <1>2, <1>3, MidStreamFacts DEF Streaming
<1>5. Cancels(cmds')
  BY <1>1, <1>3, MoreCancel DEF Streaming
<1>6. \A i \in 1..Len(evts') : MidStream(evts'[i])
  <2>1. \A i \in 1..Len(evts') : i + 1 \in 1..Len(evts) /\ evts'[i] = evts[i + 1]
    BY <1>1, <1>3
  <2> QED
    BY <2>1 DEF Streaming
<1> QED
  BY <1>3, <1>4, <1>5, <1>6 DEF Phase, Streaming, SameWait, Match

\* Once the answer is read the window names the provider of the worker.
LEMMA PumpAnswered ==
  ASSUME SessionInv, Answered, HasRoom, Pump
  PROVE  Phase'
<1> DEFINE e == Head(evts)
<1>1. ui \in UiType /\ evts \in Seq(Events) /\ cmds \in Seq(Commands) /\ evts # <<>>
  BY DEF SessionInv, BehindOK, QueuesOK, ConsistentState, WellTyped, Pump
<1>2. e \in Events /\ e = evts[1]
  BY <1>1
<1>3. /\ ui' = Apply(ui, e) /\ evts' = Tail(evts) /\ UNCHANGED <<wk, job>>
      /\ cmds' = cmds \/ cmds' = Append(cmds, [op |-> "Cancel"])
  BY PumpFacts
<1>4. Cancels(cmds') /\ Free'
  BY <1>1, <1>3, MoreCancel DEF Answered, Free
<1>5. CASE Len(evts) = 1
  <2>1. evts' = <<>>
    BY <1>1, <1>3, <1>5
  <2>2. CASE Switches(e)
    <3>1. ui' = provider_connected(ui, e.profile, e.models, e.saved)
      BY <1>3, <2>2 DEF Switches, Apply, OnConnected
    <3>2. ui'.active_provider = e.profile
      BY <1>1, <3>1 DEF provider_connected, UiType
    <3>3. Match'
      BY <1>3, <2>2, <3>2 DEF Match, Switches
    <3> QED
      BY <1>4, <2>1, <3>3 DEF Phase, AtRest
  <2>3. CASE e.ev \in Answers /\ Match
    <3>1. IdOf(ui'.active_provider) = IdOf(ui.active_provider)
      BY <1>1, <1>2, <1>3, <2>3, AnswerFacts
    <3>2. Match'
      BY <1>3, <2>3, <3>1 DEF Match
    <3> QED
      BY <1>4, <2>1, <3>2 DEF Phase, AtRest
  <2> QED
    BY <1>2, <1>5, <2>2, <2>3 DEF Answered
<1>6. CASE Len(evts) # 1
  <2>1. /\ Len(evts') = Len(evts) - 1 /\ Len(evts) \in Nat /\ Len(evts) > 1
        /\ \A i \in 1..Len(evts') : evts'[i] = evts[i + 1]
    <3>1. Len(evts) \in Nat /\ Len(evts) # 0
      BY <1>1
    <3>2. Len(evts') = Len(evts) - 1 /\ \A i \in 1..Len(evts') : evts'[i] = evts[i + 1]
      BY <1>1, <1>3
    <3> QED
      BY <1>6, <3>1, <3>2
  <2>2. MidStream(e) /\ \A i \in 1..(Len(evts') - 1) : MidStream(evts'[i])
    BY <1>2, <2>1, SMTT(30) DEF Answered
  <2>3. SameWait(ui, ui')
    BY <1>1, <1>2, <1>3, <2>2, MidStreamFacts DEF Answered
  <2>4. evts'[Len(evts')] = evts[Len(evts)] /\ evts' # <<>>
    BY <2>1
  <2>5. evts'[Len(evts')].ev \in Answers /\ Match'
    BY <1>3, <1>6, <2>3, <2>4 DEF Answered, SameWait, Match
  <2> QED
    BY <1>4, <2>2, <2>3, <2>4, <2>5 DEF Phase, Answered, SameWait
<1> QED
  BY <1>5, <1>6

LEMMA PumpPhase ==
  ASSUME SessionInv, Phase, HasRoom, Pump
  PROVE  Phase'
<1>1. ~AtRest /\ ~Asked /\ ~Dialling
  BY DEF Pump, AtRest, Asked, Dialling
<1> QED
  BY <1>1, PumpAtStart, PumpStreaming, PumpAnswered DEF Phase

---------------------------------------------------------------------------
(* The worker's steps.                                                     *)

\* A command other than Cancel is the one the window waits for.
LEMMA TakenAsked ==
  ASSUME SessionInv, Phase, NEW op, op # "Cancel", Takes(op)
  PROVE  /\ evts = <<>> /\ Match /\ blocked(ui)
         /\ Cancels(cmds') /\ Head(cmds).op = op /\ Backed(Head(cmds))
<1>1. cmds \in Seq(Commands) /\ cmds # <<>> /\ Head(cmds).op = op /\ cmds' = Tail(cmds)
      /\ job.kind = "idle"
  BY DEF SessionInv, BehindOK, QueuesOK, Takes, Idle
<1>2. ~Cancels(cmds)
  BY <1>1, CancelTaken
<1>3. Asked
  BY <1>1, <1>2 DEF Phase, AtStart, AtRest, Dialling, Streaming, Answered
<1>4. PICK c : OnlyCommand(cmds, c) /\ Backed(c)
  BY <1>3 DEF Asked
<1>5. Head(cmds) = c /\ Cancels(cmds')
  BY <1>1, <1>4, CommandTaken
<1> QED
  BY <1>1, <1>3, <1>4, <1>5 DEF Asked

LEMMA AnsweredNow ==
  ASSUME evts = <<>>, NEW e, e.ev \in Answers, Report(<<e>>), Cancels(cmds'), Free', Match',
         blocked(ui), ui' = ui
  PROVE  Phase'
<1>1. evts' = <<e>>
  BY DEF Report
<1>2. evts' # <<>> /\ Len(evts') = 1 /\ evts'[1] = e
  BY <1>1
<1> QED
  BY <1>2 DEF Phase, Answered

\* A Cancel that finds nothing to stop, and the end of the removal of a secret.
LEMMA QuietPhase ==
  ASSUME SessionInv, Phase, UNCHANGED <<ui, evts, wk>>, Free, Free',
         \/ cmds' = cmds
         \/ cmds # <<>> /\ Head(cmds).op = "Cancel" /\ cmds' = Tail(cmds)
  PROVE  Phase'
<1>1. cmds \in Seq(Commands)
  BY DEF SessionInv, BehindOK, QueuesOK
<1>2. Cancels(cmds) => Cancels(cmds')
  BY <1>1, CancelTaken
<1>3. Match' = Match
  BY DEF Match
<1>4. CASE AtStart
  BY <1>3, <1>4 DEF Phase, AtStart
<1>5. CASE AtRest
  BY <1>2, <1>3, <1>5 DEF Phase, AtRest
<1>6. CASE Asked
  <2>1. PICK c : OnlyCommand(cmds, c) /\ Backed(c)
    BY <1>6 DEF Asked
  <2>2. c.op # "Cancel"
    BY <2>1 DEF Backed
  <2>3. OnlyCommand(cmds', c)
    BY <1>1, <2>1, <2>2, CommandTaken
  <2>4. c \in {cmds'[i] : i \in 1..Len(cmds')}
    BY <2>3 DEF OnlyCommand
  <2>5. Backed(c)'
    BY <2>1 DEF Backed, Promised
  <2> QED
    BY <1>3, <1>6, <2>3, <2>4, <2>5 DEF Phase, Asked
<1>7. CASE Answered
  <2>1. \A e : Switches(e) => Switches(e)'
    BY DEF Switches
  <2> QED
    BY <1>2, <1>3, <1>7, <2>1 DEF Phase, Answered
<1>8. ~Dialling /\ ~Streaming
  BY DEF Free, Dialling, Streaming
<1> QED
  BY <1>4, <1>5, <1>6, <1>7, <1>8 DEF Phase

LEMMA BeginConnectPhase ==
  ASSUME SessionInv, Phase, BeginConnect
  PROVE  Phase'
<1>1. /\ evts = <<>> /\ Match /\ blocked(ui)
      /\ Cancels(cmds') /\ Head(cmds).op = "Connect" /\ Backed(Head(cmds))
  BY TakenAsked DEF BeginConnect
<1>2. Promised(Head(cmds).profile, Head(cmds).remember)
  BY <1>1 DEF Backed
<1>3. job'.kind = "connect" /\ job'.profile = Head(cmds).profile /\ job'.remember = Head(cmds).remember
  BY DEF BeginConnect
<1> QED
  BY <1>1, <1>2, <1>3 DEF BeginConnect, Phase, Dialling, Promised, Match

\* What is connected is what the window waits for, and stored as it expects.
LEMMA FinishConnectPhase ==
  ASSUME SessionInv, Phase, Unawaited = {}, FinishConnect
  PROVE  Phase'
<1>1. Dialling
  BY DEF FinishConnect, Phase, AtStart, AtRest, Asked, Streaming, Answered, Free
<1>2. /\ job.profile \in Profiles /\ job.remember \in BOOLEAN /\ ui' = ui /\ cmds' = cmds
      /\ job'.kind = "idle" /\ (job.remember => job.profile \in Storable)
  BY AwaitedShapes DEF FinishConnect, SessionInv, BehindOK, WorkerOK, Usable, Idle
<1>3. Cancels(cmds') /\ Free'
  BY <1>1, <1>2 DEF Dialling, Free
<1>4. CASE Report(<<Rejection>>) /\ UNCHANGED <<wk, store>>
  <2>1. Rejection.ev \in Answers
    BY DEF Rejection, Answers
  <2>2. Match'
    BY <1>1, <1>2, <1>4 DEF Dialling, Match
  <2> QED
    BY <1>1, <1>2, <1>3, <1>4, <2>1, <2>2, AnsweredNow DEF Dialling
<1>5. ASSUME NEW ms \in SUBSET Models, NEW p, NEW s,
             p = WithModel(job.profile, FilteredModel(job.profile, ms)),
             s = IF job.remember THEN profile_without_secret(p) ELSE None,
             wk' = [profile |-> p, models |-> ms, saved |-> s, model |-> p.model],
             Report(<<[ev |-> "Connected", profile |-> p, models |-> ms, saved |-> s]>>)
      PROVE  Phase'
  <2> DEFINE e == [ev |-> "Connected", profile |-> p, models |-> ms, saved |-> s]
  <2>1. e.ev = "Connected" /\ e.profile = p /\ e.models = ms /\ e.saved = s
    OBVIOUS
  <2> HIDE DEF e
  <2>2. evts' = <<e>>
    BY <1>1, <1>5 DEF Report, Dialling, e
  <2>3. p \in Profiles
    BY <1>2, <1>5 DEF WithModel, FilteredModel, Profiles
  <2>4. s # None => /\ s.secret # "session" /\ profiles_match_except_secret(p, s)
    BY <1>5, <2>3 DEF profile_without_secret, profiles_match_except_secret, Profiles
  <2>5. job.remember = (s # None)
    <3>1. job.remember => p \in Storable
      BY <1>2, <1>5, <2>3 DEF Storable, WithModel, FilteredModel, Profiles
    <3>2. job.remember => profile_without_secret(p) # None
      BY <2>3, <3>1, WithoutSecret, ConstantsAssumption
    <3> QED
      BY <1>2, <1>5, <3>2
  <2>6. MatchesPending(ui, p, ms)
    BY <1>1, <1>2, <1>5, ConstantsAssumption DEF Dialling, Promised, MatchesPending
  <2>7. provider_connected_ok(ui, p, ms, s)
    BY <1>1, <2>4, <2>5, <2>6 DEF Dialling, Promised, provider_connected_ok
  <2>8. Switches(e)'
    BY <1>2, <1>5, <2>1, <2>7 DEF Switches
  <2>9. evts' # <<>> /\ Len(evts') = 1 /\ evts'[1] = e
    BY <2>2
  <2> QED
    BY <1>1, <1>2, <1>3, <2>8, <2>9 DEF Phase, Answered, Dialling
<1>6. \A e : ~Degrade(e)
  BY DEF Degrade
<1> QED
  BY <1>4, <1>5, <1>6 DEF FinishConnect

LEMMA SelectModelPhase ==
  ASSUME SessionInv, Phase, Unawaited = {}, SelectModel
  PROVE  Phase'
<1> DEFINE c == Head(cmds)
           no == [ev |-> "ModelSelectionRejected", id |-> c.id, model |-> c.model]
           s == IF wk.saved = None THEN None ELSE WithModel(wk.saved, c.model)
           yes == [ev |-> "ModelSelected", id |-> c.id, model |-> c.model, saved |-> s]
<1>1. /\ evts = <<>> /\ Match /\ blocked(ui) /\ Cancels(cmds')
      /\ Head(cmds).op = "SelectModel" /\ Free'
  BY TakenAsked DEF SelectModel, Takes, Idle, Free
<1>2. ui' = ui /\ c \in Commands /\ wk \in Sessions
  BY TakesFacts DEF SelectModel, SessionInv, BehindOK, QueuesOK, WorkerOK
<1>3. no.ev \in Answers /\ yes.ev \in Answers
  BY DEF Answers
<1>4. CASE Report(<<no>>) /\ UNCHANGED <<wk, store>>
  <2>1. Match'
    BY <1>1, <1>2, <1>4 DEF Match
  <2> QED
    BY <1>1, <1>2, <1>3, <1>4, <2>1, AnsweredNow
<1>5. CASE /\ wk.profile # None
           /\ wk' = [wk EXCEPT !.profile = WithModel(@, c.model), !.saved = s, !.model = c.model]
           /\ Report(<<yes>>)
  <2>1. wk.profile \in Profiles /\ c.model \in Models
    BY <1>1, <1>2, <1>5, CommandShapes DEF Sessions, Usable
  <2>2. wk'.profile = WithModel(wk.profile, c.model)
    BY <1>2, <1>5 DEF Sessions
  <2>3. WithModel(wk.profile, c.model) \in Profiles
        /\ WithModel(wk.profile, c.model).id = wk.profile.id
    BY <2>1, WithModelFacts
  <2>4. Match'
    BY <1>1, <1>2, <1>5, <2>2, <2>3, ConstantsAssumption DEF Match, IdOf
  <2> QED
    BY <1>1, <1>2, <1>3, <1>5, <2>4, AnsweredNow
<1>6. ~Degrade(no)
  BY DEF Degrade
<1> QED
  BY <1>4, <1>5, <1>6, Zenon DEF SelectModel

LEMMA DeletePhase ==
  ASSUME SessionInv, Phase, Unawaited = {}, DeleteSavedProfile
  PROVE  Phase'
<1> DEFINE id == Head(cmds).id
           no == [ev |-> "ProfileDeletionRejected", id |-> id]
           yes == [ev |-> "ProfileDeleted", id |-> id]
<1>1. /\ evts = <<>> /\ Match /\ blocked(ui) /\ Cancels(cmds') /\ job = Idle
  BY TakenAsked DEF DeleteSavedProfile, Takes
<1>2. ui' = ui /\ wk \in Sessions
  BY DEF DeleteSavedProfile, SessionInv, BehindOK, WorkerOK
<1>3. no.ev \in Answers /\ yes.ev \in Answers
  BY DEF Answers
<1>4. ~Degrade(no)
  BY DEF Degrade
<1>5. job' \in {Idle, [kind |-> "cleanup"]} /\ wk'.profile = wk.profile
  BY <1>1, <1>2, <1>4 DEF DeleteSavedProfile, Sessions
<1>6. Free' /\ Match'
  BY <1>1, <1>2, <1>5 DEF Free, Idle, Match
<1>7. Report(<<no>>) \/ Report(<<yes>>)
  BY <1>4, Zenon DEF DeleteSavedProfile
<1> QED
  BY <1>1, <1>2, <1>3, <1>6, <1>7, AnsweredNow

\* A stream starts only with the model the window named, and with its provider.
LEMMA TranslateServedPhase ==
  ASSUME SessionInv, Phase, Translate
  PROVE  Phase'
<1> DEFINE c == Head(cmds)
<1>1. /\ evts = <<>> /\ Match /\ blocked(ui) /\ Cancels(cmds') /\ job = Idle
      /\ c.op = "Translate" /\ Backed(c)
  BY TakenAsked DEF Translate, Takes
<1>2. UNCHANGED <<ui, wk>> /\ Match'
  BY <1>1 DEF Translate, Match
<1>3. CASE Report(<<[ev |-> "OperationFailed"]>>) /\ job' = job
  <2>1. [ev |-> "OperationFailed"].ev \in Answers
    BY DEF Answers
  <2> QED
    BY <1>1, <1>2, <1>3, <2>1, AnsweredNow DEF Free, Idle
<1>4. CASE /\ job' = job
           /\ Report(<<StreamEvent("Started", 0), StreamEvent("TextDelta", 1),
                       StreamEvent("Completed", 2)>>)
  <2> DEFINE a == StreamEvent("Started", 0)
             b == StreamEvent("TextDelta", 1)
             d == StreamEvent("Completed", 2)
  <2>1. MidStream(a) /\ MidStream(b) /\ d.ev \in Answers
    BY DEF MidStream, StreamEvent, Terminal, Answers
  <2> HIDE DEF a, b, d
  <2>2. evts' = <<a, b, d>>
    BY <1>1, <1>4 DEF Report, a, b, d
  <2>3. Len(evts') = 3 /\ evts' # <<>> /\ evts'[1] = a /\ evts'[2] = b /\ evts'[3] = d
    BY <2>2
  <2>4. \A i \in 1..(Len(evts') - 1) : i = 1 \/ i = 2
    BY <2>3
  <2>5. \A i \in 1..(Len(evts') - 1) : MidStream(evts'[i])
    BY <2>1, <2>3, <2>4
  <2>6. evts'[Len(evts')].ev \in Answers
    BY <2>1, <2>3
  <2>7. Free'
    BY <1>1, <1>4 DEF Free, Idle
  <2> QED
    BY <1>1, <1>2, <2>3, <2>5, <2>6, <2>7 DEF Phase, Answered
<1>5. CASE /\ wk.profile # None /\ wk.model = c.model
           /\ job' = [kind |-> "stream", shown |-> c.shown, next |-> 0] /\ evts' = evts
  <2>1. c.shown = [id |-> wk.profile.id, model |-> wk.model]
    BY <1>1, <1>5 DEF Backed
  <2>2. job'.kind = "stream" /\ job'.shown = c.shown
    BY <1>5
  <2>3. \A i \in 1..Len(evts') : MidStream(evts'[i])
    BY <1>1, <1>5
  <2> QED
    BY <1>1, <1>2, <1>5, <2>1, <2>2, <2>3 DEF Phase, Streaming
<1> QED
  BY <1>3, <1>4, <1>5 DEF Translate

\* One event of the stream is either in its middle or the answer.
LEMMA StreamPhase ==
  ASSUME SessionInv, Phase, StreamStep
  PROVE  Phase'
<1>1. Streaming
  BY DEF StreamStep, Phase, AtStart, AtRest, Asked, Dialling, Answered, Free
<1>2. /\ UNCHANGED <<ui, cmds, wk>> /\ evts \in Seq(Events) /\ Match'
      /\ job = [kind |-> "stream", shown |-> job.shown, next |-> job.next]
      /\ job.next \in 0..2 /\ \A i \in 1..Len(evts) : MidStream(evts[i])
  BY <1>1, AwaitedShapes DEF StreamStep, SessionInv, BehindOK, QueuesOK, WorkerOK, Streaming, Match
<1>3. ASSUME NEW e, Report(<<e>>)
      PROVE  /\ Len(evts') = Len(evts) + 1 /\ evts' # <<>> /\ evts'[Len(evts')] = e
             /\ \A i \in 1..(Len(evts') - 1) : evts'[i] = evts[i]
             /\ \A i \in 1..Len(evts') : i = Len(evts') \/ i \in 1..Len(evts)
  <2>1. evts' = Append(evts, e)
    BY <1>2, <1>3, AppendIsConcat DEF Report
  <2> QED
    BY <1>2, <2>1
<1>4. ASSUME NEW e, e.ev \in Answers, Report(<<e>>), job' = Idle
      PROVE  Phase'
  <2>1. \A i \in 1..(Len(evts') - 1) : MidStream(evts'[i])
    BY <1>2, <1>3, <1>4
  <2>2. Free'
    BY <1>4 DEF Free, Idle
  <2>3. Cancels(cmds') /\ blocked(ui')
    BY <1>1, <1>2 DEF Streaming
  <2>4. evts'[Len(evts')].ev \in Answers /\ evts' # <<>>
    BY <1>3, <1>4
  <2> QED
    BY <1>2, <2>1, <2>2, <2>3, <2>4 DEF Phase, Answered
<1>5. ASSUME NEW k, ~Terminal(k), Report(<<StreamEvent(k, job.next)>>),
             job' = [job EXCEPT !.next = @ + 1]
      PROVE  Phase'
  <2>1. MidStream(StreamEvent(k, job.next))
    BY <1>5 DEF MidStream, StreamEvent
  <2>2. \A i \in 1..Len(evts') : MidStream(evts'[i])
    BY <1>2, <1>3, <1>5, <2>1, SMTT(30)
  <2>3. job'.kind = "stream" /\ job'.shown = job.shown
    BY <1>2, <1>5
  <2> QED
    BY <1>1, <1>2, <2>2, <2>3 DEF Phase, Streaming
<1>6. /\ [ev |-> "OperationFailed"].ev \in Answers
      /\ \A k : StreamEvent(k, job.next).ev \in Answers
  BY DEF StreamEvent, Answers
<1> QED
  BY <1>4, <1>5, <1>6 DEF StreamStep

LEMMA WorkerPhase ==
  ASSUME SessionInv, Phase, Unawaited = {}, Worker
  PROVE  Phase'
<1>1. ~BeginTest
  <2>1. SUFFICES ASSUME BeginTest PROVE FALSE
    OBVIOUS
  <2>2. Head(cmds).op = "TestConnection" /\ Backed(Head(cmds))
    BY <2>1, TakenAsked DEF BeginTest
  <2> QED
    BY <2>2 DEF Backed
<1>2. ~FinishTest
  BY DEF FinishTest, Phase, AtStart, AtRest, Asked, Dialling, Streaming, Answered, Free
<1>3. CASE FinishCleanup
  BY <1>3, QuietPhase DEF FinishCleanup, Free, Idle
<1>4. CASE IdleCancel
  BY <1>4, QuietPhase DEF IdleCancel, Takes, Free, Idle
<1>5. CASE CommandWhileStreaming
  <2>1. Streaming /\ cmds \in Seq(Commands)
    BY <1>5 DEF CommandWhileStreaming, Phase, AtStart, AtRest, Asked, Dialling, Answered, Free,
                SessionInv, BehindOK, QueuesOK
  <2>2. Head(cmds).op = "Cancel" /\ Cancels(Tail(cmds))
    BY <1>5, <2>1, CancelTaken DEF CommandWhileStreaming, Streaming
  <2> QED
    BY <1>5, <2>1, <2>2 DEF CommandWhileStreaming, Streaming, Match, Phase
<1> QED
  BY <1>1, <1>2, <1>3, <1>4, <1>5, BeginConnectPhase, FinishConnectPhase, SelectModelPhase,
     DeletePhase, TranslateServedPhase, StreamPhase DEF Worker

---------------------------------------------------------------------------
(* Start and restart, and what the phases give.                            *)

LEMMA StartReports ==
  ASSUME NEW s, NEW w \in StartupReports(s)
  PROVE  w # <<>> /\ \A i \in 1..Len(w) :
           w[i].ev \in StartEvents /\ (w[i].ev = "DemoProviderReady" => i = Len(w))
<1> DEFINE r == Restored(s)
           d == [ev |-> "DemoProviderReady"]
           u == [ev |-> "ProfileStorageUnavailable"]
           x == [ev |-> "Rejected"]
           y == [ev |-> "Stopped"]
<1>1. /\ r.ev = "ProfilesRestored" /\ d.ev = "DemoProviderReady" /\ x.ev = "Rejected"
      /\ u.ev = "ProfileStorageUnavailable" /\ y.ev = "Stopped"
  BY DEF Restored
<1>2. w \in {<<r, d>>, <<u, d>>, <<r, x, y>>, <<x, y>>}
  BY DEF StartupReports
<1> HIDE DEF r, d, u, x, y
<1>3. CASE w = <<r, d>> \/ w = <<u, d>>
  <2>1. w # <<>> /\ Len(w) = 2 /\ w[1] \in {r, u} /\ w[2] = d
    BY <1>3
  <2>2. \A i \in 1..Len(w) : i = 1 \/ i = 2
    BY <2>1
  <2> QED
    BY <1>1, <2>1, <2>2 DEF StartEvents
<1>4. CASE w = <<r, x, y>>
  <2>1. w # <<>> /\ Len(w) = 3 /\ w[1] = r /\ w[2] = x /\ w[3] = y
    BY <1>4
  <2>2. \A i \in 1..Len(w) : i = 1 \/ i = 2 \/ i = 3
    BY <2>1
  <2> QED
    BY <1>1, <2>1, <2>2 DEF StartEvents
<1>5. CASE w = <<x, y>>
  <2>1. w # <<>> /\ Len(w) = 2 /\ w[1] = x /\ w[2] = y
    BY <1>5
  <2>2. \A i \in 1..Len(w) : i = 1 \/ i = 2
    BY <2>1
  <2> QED
    BY <1>1, <2>1, <2>2 DEF StartEvents
<1> QED
  BY <1>2, <1>3, <1>4, <1>5

LEMMA NextPhase ==
  ASSUME SessionInv, Phase, HasRoom, Unawaited = {}, Next
  PROVE  Phase'
<1>1. CASE Crash
  <2>1. evts' \in StartupReports(store) /\ cmds' = <<>>
    BY <1>1 DEF Crash
  <2>2. Free'
    BY <1>1 DEF Crash, Free, Idle
  <2>3. Match' /\ ui'.worker_startup # "Ready"
    BY <1>1 DEF Crash, Match, DefaultState, NoProvider
  <2> QED
    BY <2>1, <2>2, <2>3, StartReports DEF Phase, AtStart
<1> QED
  BY <1>1, UserPhase, PumpPhase, WorkerPhase DEF Next

LEMMA InitPhase == Init => Phase
<1>1. SUFFICES ASSUME Init PROVE Phase
  OBVIOUS
<1>2. evts \in StartupReports(EmptyStore) /\ cmds = <<>>
  BY <1>1 DEF Init, Launch
<1>3. Free /\ Match /\ ui.worker_startup # "Ready"
  BY <1>1 DEF Init, Launch, Free, Idle, Match, DefaultState, NoProvider
<1> QED
  BY <1>2, <1>3, StartReports DEF Phase, AtStart

LEMMA PhaseAlways == ASSUME Unawaited = {} PROVE Spec /\ []HasRoom => []Phase
<1>1. SessionInv /\ HasRoom /\ Phase /\ [Next]_vars => Phase'
  <2>1. Phase /\ UNCHANGED vars => Phase'
    BY DEF vars, Phase, AtStart, AtRest, Asked, Dialling, Streaming, Answered, Free, Match,
           Backed, Promised, Switches
  <2> QED
    BY <2>1, NextPhase
<1> QED
  BY <1>1, InitPhase, SessionAlways, PTL DEF Spec

\* A running translation uses the provider and the model that the window named when
\* Translate was pressed, whatever is connected, selected, removed or stopped, and after
\* any crash: as long as nothing reports a failure the window does not wait for, and no
\* command is refused by a full queue.
THEOREM ServedAsShown == ASSUME Unawaited = {} PROVE Spec /\ []HasRoom => []ServedByShown
<1>1. Phase => ServedByShown
  <2>1. SUFFICES ASSUME Phase, job.kind = "stream"
                 PROVE  job.shown.id = wk.profile.id /\ job.shown.model = wk.model
    BY DEF ServedByShown
  <2>2. Streaming
    BY <2>1 DEF Phase, AtStart, AtRest, Asked, Dialling, Answered, Free
  <2> QED
    BY <2>2 DEF Streaming
<1> QED
  BY <1>1, PhaseAlways, PTL

\* Under the same conditions at most one queued request, running stream or unread end of
\* a stream can answer the window: no text of one request is shown for another.
THEOREM AtMostOneAnswer == ASSUME Unawaited = {} PROVE Spec /\ []HasRoom => []OneAnswer
<1> DEFINE asked == {i \in 1..Len(cmds) : cmds[i].op = "Translate"}
           ended == {i \in 1..Len(evts) : evts[i].ev = "Translation" /\ Terminal(evts[i].kind)}
<1>1. \A S : (S = {} => Cardinality(S) = 0) /\ \A x : S = {x} => Cardinality(S) = 1
  BY FS_EmptySet, FS_Singleton
<1>2. Cancels(cmds) => asked = {}
  BY DEF Cancels
<1>3. evts = <<>> => ended = {}
  OBVIOUS
<1>4. SessionInv /\ Phase => OneAnswer
  <2>1. SUFFICES ASSUME SessionInv, Phase
                 PROVE  Cardinality(asked) + (IF job.kind = "stream" THEN 1 ELSE 0)
                          + Cardinality(ended) <= 1
    BY DEF OneAnswer
  <2>2. CASE AtStart
    <3>1. ended = {}
      BY <2>2 DEF AtStart, StartEvents
    <3>2. asked = {} /\ job.kind # "stream"
      BY <2>2 DEF AtStart, Free
    <3> QED
      BY <1>1, <3>1, <3>2
  <2>3. CASE AtRest \/ Dialling
    <3>1. asked = {} /\ ended = {} /\ job.kind # "stream"
      BY <1>2, <1>3, <2>3 DEF AtRest, Dialling, Free
    <3> QED
      BY <1>1, <3>1
  <2>4. CASE Asked
    <3>1. PICK c : OnlyCommand(cmds, c)
      BY <2>4 DEF Asked
    <3>2. PICK i \in 1..Len(cmds) : \A j \in 1..Len(cmds) : j # i => cmds[j].op = "Cancel"
      BY <3>1 DEF OnlyCommand
    <3>3. asked = {} \/ asked = {i}
      BY <3>2
    <3>4. ended = {} /\ job.kind # "stream"
      BY <1>3, <2>4 DEF Asked, Free
    <3>5. Cardinality(asked) \in {0, 1}
      BY <1>1, <3>3
    <3> QED
      BY <1>1, <3>4, <3>5
  <2>5. CASE Streaming
    <3>1. asked = {} /\ ended = {} /\ job.kind = "stream"
      BY <1>2, <2>5 DEF Streaming, MidStream
    <3> QED
      BY <1>1, <3>1
  <2>6. CASE Answered
    <3>1. asked = {} /\ job.kind # "stream" /\ evts \in Seq(Events)
      BY <1>2, <2>1, <2>6 DEF Answered, Free, SessionInv, BehindOK, QueuesOK
    <3>2. \A i \in 1..Len(evts) : i = Len(evts) \/ i \in 1..(Len(evts) - 1)
      BY <3>1
    <3>3. ended = {} \/ ended = {Len(evts)}
      BY <2>6, <3>2 DEF Answered, MidStream
    <3>4. Cardinality(ended) \in {0, 1}
      BY <1>1, <3>3
    <3> QED
      BY <1>1, <3>1, <3>4
  <2> QED
    BY <2>1, <2>2, <2>3, <2>4, <2>5, <2>6 DEF Phase
<1> QED
  BY <1>4, SessionAlways, PhaseAlways, PTL

---------------------------------------------------------------------------
(* What the window shows once its unread reports are applied.              *)
(*                                                                         *)
(* Only five reports change what the window shows of the worker's session, *)
(* and at most one of them is unread at a time: it is the first one, and   *)
(* it makes the window show what the worker has.  All others are quiet.    *)

QuietReports == {"DemoProviderReady", "ProviderRejected", "ModelSelectionRejected",
                 "ProfileDeletionRejected", "OperationFailed", "Translation"}
StartReport == {"ProfilesRestored", "ProfileStorageUnavailable"}
ChangeReports == {"Connected", "ModelSelected", "ProfileDeleted"}

Quiet(q) == \A i \in 1..Len(q) : q[i].ev \in QuietReports

\* The first unread report makes the window show the worker's session; a fresh window
\* has nothing to lose by it.
Owed ==
  /\ evts # <<>> /\ ShowsWorker(Apply(ui, evts[1]))
  /\ \A i \in 2..Len(evts) : evts[i].ev \in QuietReports
  /\ \/ evts[1].ev \in StartReport /\ ui = DefaultState
     \/ evts[1].ev \in ChangeReports

Current == job.kind # "stopped" => (ShowsWorker(ui) /\ Quiet(evts)) \/ Owed

\* v shows the same of the worker's session as u.
SameView(u, v) ==
  /\ v.active_provider = u.active_provider /\ v.models = u.models
  /\ v.selected_model = u.selected_model /\ v.active_saved = u.active_saved
  /\ v.saved_profiles = u.saved_profiles /\ v.persisted_active = u.persisted_active

LEMMA ViewShows ==
  ASSUME NEW u, NEW v, SameView(u, v), ShowsWorker(u)
  PROVE  ShowsWorker(v)
  BY DEF SameView, ShowsWorker

\* A rejected connection is forgotten, and nothing else.
LEMMA FailedFacts ==
  ASSUME NEW u \in UiType
  PROVE  provider_failed(u) \in UiType /\ SameView(u, provider_failed(u))
<1> DEFINE s == IF Busy(u) THEN u.status
                ELSE IF u.active_provider # None THEN "Ready" ELSE "Failed"
           v == provider_failed(u)
<1>1. s \in Statuses
  BY DEF Statuses, UiType
<1>2. v = [u EXCEPT !.pending_provider = None, !.will_be_saved = FALSE, !.status = s]
  BY DEF provider_failed
<1> HIDE DEF s, v
<1>3. v \in UiType
  BY <1>1, <1>2, ZenonT(40) DEF UiType
<1>4. SameView(u, v)
  BY <1>2 DEF SameView, UiType
<1> QED
  BY <1>3, <1>4 DEF v

\* What the pump does with a quiet report leaves the view alone, whatever the window waits for.
LEMMA QuietFacts ==
  ASSUME NEW u \in UiType, NEW e \in Events, e.ev \in QuietReports
  PROVE  Apply(u, e) \in UiType /\ SameView(u, Apply(u, e))
<1> USE DEF SameView, UiType, Statuses
<1>1. provider_failed(u) \in UiType /\ SameView(u, provider_failed(u))
  BY FailedFacts
<1>2. \A m : model_selection_failed(u, m) \in UiType /\ SameView(u, model_selection_failed(u, m))
  BY ConstantsAssumption DEF model_selection_failed
<1>3. CASE e.ev = "DemoProviderReady"
  BY <1>3 DEF Apply, mark_worker_ready
<1>4. CASE e.ev = "ProviderRejected"
  BY <1>1, <1>4 DEF Apply, OnProviderRejected
<1>5. CASE e.ev = "ModelSelectionRejected"
  BY <1>2, <1>5 DEF Apply, OnModelSelectionRejected
<1>6. CASE e.ev = "ProfileDeletionRejected"
  BY <1>6 DEF Apply, OnProfileDeletionRejected, profile_deletion_failed
<1>7. CASE e.ev = "OperationFailed"
  BY <1>7 DEF Apply, record_operation_failure
<1>8. CASE e.ev = "Translation"
  <2>1. e.kind \in StreamKinds /\ e.n \in Nat
    BY <1>8 DEF Events
  <2>2. Apply(u, e) = OnTranslation(u, e.kind, e.n)
    BY <1>8 DEF Apply
  <2>3. record_stream_error(u) \in UiType /\ SameView(u, record_stream_error(u))
    BY DEF record_stream_error
  <2> DEFINE s == CASE e.kind = "Started" -> IF u.status = "Cancelling" THEN u.status
                                            ELSE "Translating"
                    [] e.kind = "TextDelta" -> u.status
                    [] OTHER -> e.kind
             n == e.n
             v == apply_translation_event(u, e.kind, n)
  <2>4. v = [u EXCEPT !.last_sequence = n, !.status = s]
    BY DEF apply_translation_event
  <2>5. s \in Statuses /\ n \in Nat
    BY <2>1 DEF StreamKinds
  <2> HIDE DEF s, n, v
  <2>6. v \in UiType
    BY <2>4, <2>5, ZenonT(40)
  <2>7. SameView(u, v)
    BY <2>4
  <2> QED
    BY <2>2, <2>3, <2>6, <2>7 DEF OnTranslation, v, n
<1> QED
  BY <1>3, <1>4, <1>5, <1>6, <1>7, <1>8 DEF QuietReports

\* The five reports that change the view keep the window's type.
LEMMA ChangeTyped ==
  ASSUME NEW u \in UiType, NEW e \in Events, e.ev \in ChangeReports \cup StartReport
  PROVE  Apply(u, e) \in UiType
<1>1. \A v \in UiType : provider_failed(v) \in UiType
  BY FailedFacts
<1>2. CASE e.ev = "ProfilesRestored"
  <2>1. Apply(u, e) = OnProfilesRestored(u, e.rows, e.id)
    BY <1>2 DEF Apply
  <2>2. e.rows \in [Ids -> Storable \cup {None}] /\ e.id \in Ids \cup {None}
    BY <1>2 DEF Events, Lists
  <2> DEFINE rows == e.rows  id == e.id
  <2>3. rows \in [Ids -> Storable \cup {None}] /\ id \in Ids \cup {None}
    BY <2>2
  <2> HIDE DEF rows, id
  <2>4. restore_saved_profiles(u, rows, id) \in UiType
    BY <2>3, ZenonT(40) DEF restore_saved_profiles, UiType
  <2>5. record_client_error(u) \in UiType
    BY DEF record_client_error, UiType, Statuses
  <2> QED
    BY <2>1, <2>4, <2>5 DEF OnProfilesRestored, rows, id
<1>3. CASE e.ev = "ProfileStorageUnavailable"
  <2>1. Apply(u, e) = profile_storage_unavailable(u)
    BY <1>3 DEF Apply
  <2>2. NoRows \in [Ids -> Storable \cup {None}]
    BY DEF NoRows
  <2>3. [u EXCEPT !.saved_profiles = NoRows, !.selected_saved = None, !.persisted_active = None,
                  !.active_saved = None, !.pending_deletion = None,
                  !.storage_status = "Unavailable"] \in UiType
    BY <2>2 DEF UiType
  <2> QED
    BY <1>1, <2>1, <2>3 DEF profile_storage_unavailable
<1>4. CASE e.ev = "Connected"
  <2> DEFINE p == e.profile  ms == e.models  s == e.saved
  <2>1. Apply(u, e) = OnConnected(u, p, ms, s)
    BY <1>4 DEF Apply
  <2>2. p \in Profiles /\ ms \in SUBSET Models /\ s \in Storable \cup {None}
    BY <1>4 DEF Events
  <2>3. p.model \in Models \cup {None} /\ (s # None => s.id \in Ids)
    BY <2>2 DEF Profiles, Storable
  <2> HIDE DEF p, ms, s
  <2> DEFINE id == IF s = None THEN None ELSE s.id
             rows == IF s = None THEN u.saved_profiles ELSE [u.saved_profiles EXCEPT ![s.id] = s]
             chosen == IF s = None THEN u.selected_saved ELSE id
             kept == IF s = None THEN u.persisted_active ELSE id
             m == p.model
             v == provider_connected(u, p, ms, s)
  <2>5. v = [u EXCEPT !.active_provider = p, !.pending_provider = None, !.will_be_saved = FALSE,
                      !.active_saved = id, !.saved_profiles = rows, !.selected_saved = chosen,
                      !.persisted_active = kept, !.models = ms, !.selected_model = m,
                      !.pending_model = None, !.status = "Ready"]
    BY DEF provider_connected
  <2>6. id \in Ids \cup {None} /\ rows \in [Ids -> Storable \cup {None}]
        /\ chosen \in Ids \cup {None} /\ kept \in Ids \cup {None} /\ m \in Models \cup {None}
        /\ "Ready" \in Statuses
    BY <2>2, <2>3 DEF UiType, Statuses
  <2> HIDE DEF id, rows, chosen, kept, m, v
  <2>7. v \in UiType
    BY <2>2, <2>5, <2>6, ZenonT(40) DEF UiType
  <2>4. provider_connected(u, p, ms, s) \in UiType
    BY <2>7 DEF v
  <2> QED
    BY <1>1, <2>1, <2>4 DEF OnConnected
<1>5. CASE e.ev = "ModelSelected"
  <2>1. Apply(u, e) = OnModelSelected(u, e.id, e.model, e.saved)
    BY <1>5 DEF Apply
  <2>2. e.id \in Ids /\ e.model \in Models /\ e.saved \in Storable \cup {None}
    BY <1>5 DEF Events
  <2>3. model_selection_failed(u, e.model) \in UiType
    BY ConstantsAssumption DEF model_selection_failed, UiType
  <2>4. ASSUME confirm_model_selection_ok(u, e.id, e.model, e.saved)
        PROVE  confirm_model_selection(u, e.id, e.model, e.saved) \in UiType
    <3>1. u.active_provider \in Profiles
      BY <2>4 DEF confirm_model_selection_ok, UiType
    <3>2. WithModel(u.active_provider, e.model) \in Profiles
      BY <2>2, <3>1, WithModelFacts
    <3> DEFINE p == WithModel(u.active_provider, e.model)
               m == e.model
               rows == IF e.saved = None THEN u.saved_profiles
                       ELSE [u.saved_profiles EXCEPT ![e.id] = e.saved]
               v == confirm_model_selection(u, e.id, m, e.saved)
    <3>3. v = [u EXCEPT !.active_provider = p, !.selected_model = m, !.pending_model = None,
                        !.saved_profiles = rows]
      BY DEF confirm_model_selection
    <3>4. p \in Profiles /\ m \in Models /\ rows \in [Ids -> Storable \cup {None}]
      BY <2>2, <3>2 DEF UiType
    <3> HIDE DEF p, m, rows, v
    <3>5. v \in UiType
      BY <3>3, <3>4, ZenonT(40) DEF UiType
    <3> QED
      BY <3>5 DEF v, m
  <2> QED
    BY <2>1, <2>3, <2>4 DEF OnModelSelected
<1>6. CASE e.ev = "ProfileDeleted"
  <2>1. Apply(u, e) = OnProfileDeleted(u, e.id)
    BY <1>6 DEF Apply
  <2> DEFINE Cleared(x) == IF x = e.id THEN None ELSE x
             rows == [u.saved_profiles EXCEPT ![e.id] = None]
             a == Cleared(u.selected_saved)
             b == Cleared(u.persisted_active)
             c == Cleared(u.active_saved)
             v == confirm_profile_deletion(u, e.id)
  <2>3. v = [u EXCEPT !.saved_profiles = rows, !.selected_saved = a, !.persisted_active = b,
                      !.active_saved = c, !.pending_deletion = None]
    BY DEF confirm_profile_deletion
  <2>4. rows \in [Ids -> Storable \cup {None}] /\ a \in Ids \cup {None}
        /\ b \in Ids \cup {None} /\ c \in Ids \cup {None}
    BY DEF UiType
  <2> HIDE DEF rows, a, b, c, v
  <2>5. v \in UiType
    BY <2>3, <2>4, ZenonT(40) DEF UiType
  <2>2. confirm_profile_deletion(u, e.id) \in UiType
    BY <2>5 DEF v
  <2> QED
    BY <2>1, <2>2 DEF OnProfileDeleted
<1> QED
  BY <1>2, <1>3, <1>4, <1>5, <1>6 DEF ChangeReports, StartReport

\* Stop, pressed while such a report is unread, does not change what the report shows.
LEMMA StopKeepsChange ==
  ASSUME NEW u \in UiType, NEW e \in Events, e.ev \in ChangeReports
  PROVE  SameView(Apply(u, e), Apply(request_cancellation(u), e))
<1> DEFINE v == request_cancellation(u)
<1>1. v = [u EXCEPT !.status = "Cancelling"] /\ v \in UiType
  BY DEF request_cancellation, UiType, Statuses
<1> HIDE DEF v
<1>2. CASE e.ev = "Connected"
  <2> DEFINE p == e.profile  ms == e.models  s == e.saved
  <2>1. Apply(u, e) = OnConnected(u, p, ms, s) /\ Apply(v, e) = OnConnected(v, p, ms, s)
    BY <1>2 DEF Apply
  <2> HIDE DEF p, ms, s
  <2>2. /\ provider_connected_ok(v, p, ms, s) <=> provider_connected_ok(u, p, ms, s)
        /\ MatchesPending(v, p, ms) <=> MatchesPending(u, p, ms)
    BY <1>1 DEF provider_connected_ok, MatchesPending, UiType
  <2>3. SameView(provider_connected(u, p, ms, s), provider_connected(v, p, ms, s))
    BY <1>1 DEF provider_connected, SameView, UiType
  <2>4. SameView(provider_failed(u), provider_failed(v)) /\ SameView(u, v)
    BY <1>1 DEF provider_failed, SameView, UiType
  <2> QED
    BY <2>1, <2>2, <2>3, <2>4 DEF OnConnected, v
<1>3. CASE e.ev = "ModelSelected"
  <2> DEFINE id == e.id  m == e.model  s == e.saved
  <2>1. Apply(u, e) = OnModelSelected(u, id, m, s) /\ Apply(v, e) = OnModelSelected(v, id, m, s)
    BY <1>3 DEF Apply
  <2> HIDE DEF id, m, s
  <2>2. /\ ActiveIs(v, id) <=> ActiveIs(u, id)
        /\ confirm_model_selection_ok(v, id, m, s) <=> confirm_model_selection_ok(u, id, m, s)
        /\ model_selection_failed_ok(v, m) <=> model_selection_failed_ok(u, m)
    BY <1>1 DEF ActiveIs, confirm_model_selection_ok, model_selection_failed_ok, IsSaved, UiType
  <2>3. SameView(confirm_model_selection(u, id, m, s), confirm_model_selection(v, id, m, s))
    BY <1>1 DEF confirm_model_selection, SameView, UiType
  <2>4. SameView(model_selection_failed(u, m), model_selection_failed(v, m)) /\ SameView(u, v)
    BY <1>1 DEF model_selection_failed, SameView, UiType
  <2> QED
    BY <2>1, <2>2, <2>3, <2>4 DEF OnModelSelected, v
<1>4. CASE e.ev = "ProfileDeleted"
  <2> DEFINE id == e.id
  <2>1. Apply(u, e) = OnProfileDeleted(u, id) /\ Apply(v, e) = OnProfileDeleted(v, id)
    BY <1>4 DEF Apply
  <2> HIDE DEF id
  <2>2. confirm_profile_deletion_ok(v, id) <=> confirm_profile_deletion_ok(u, id)
    BY <1>1 DEF confirm_profile_deletion_ok, IsSaved, UiType
  <2>3. SameView(confirm_profile_deletion(u, id), confirm_profile_deletion(v, id)) /\ SameView(u, v)
    BY <1>1 DEF confirm_profile_deletion, SameView, UiType
  <2> QED
    BY <2>1, <2>2, <2>3 DEF OnProfileDeleted, v
<1> QED
  BY <1>2, <1>3, <1>4 DEF ChangeReports, v

---------------------------------------------------------------------------
(* Applying all the unread reports.                                        *)

\* A set of numbers that is not empty has a least element.
LEMMA NatMin ==
  ASSUME NEW T, T \subseteq Nat, T # {}
  PROVE  \E m \in T : \A n \in T : m <= n
<1>1. PICK R : R = OpToRel(<, Nat)
  OBVIOUS
<1>2. IsWellFoundedOn(R, Nat)
  BY <1>1, NatLessThanWellFounded
<1>3. PICK m \in T : \A n \in T : <<n, m>> \notin R
  BY <1>2, WFMin
<1>4. R = {ss \in Nat \X Nat : ss[1] < ss[2]}
  BY <1>1 DEF OpToRel
<1>5. ASSUME NEW n \in T
      PROVE  m <= n
  <2>1. PICK p : p = <<n, m>>
    OBVIOUS
  <2>2. p \in Nat \X Nat /\ p[1] = n /\ p[2] = m /\ n \in Nat /\ m \in Nat
    BY <2>1
  <2>3. p \notin R
    BY <1>3, <2>1
  <2>4. ~(n < m)
    BY <1>4, <2>2, <2>3
  <2> QED
    BY <2>2, <2>4
<1> QED
  BY <1>5

\* Induction, for a set of numbers.
LEMMA NatSetInduction ==
  ASSUME NEW S, 0 \in S, \A n \in Nat : n \in S => n + 1 \in S
  PROVE  Nat \subseteq S
<1>1. SUFFICES ASSUME Nat \ S # {}
               PROVE  FALSE
  OBVIOUS
<1>2. PICK m \in Nat \ S : \A n \in Nat \ S : m <= n
  BY <1>1, NatMin
<1>3. m # 0 /\ m - 1 \in Nat
  BY <1>2
<1>4. m - 1 \in S
  BY <1>2, <1>3
<1> QED
  BY <1>2, <1>3, <1>4

\* The function that Settled builds.
SettleSteps(h) ==
  h = [n \in 0..Len(evts) |-> IF n = 0 THEN ui ELSE Apply(h[n - 1], evts[n])]

\* There is such a function, for every queue.
LEMMA SettleExists ==
  ASSUME Len(evts) \in Nat
  PROVE  \E h : SettleSteps(h)
<1> DEFINE Step(h, n) == IF n = 0 THEN ui ELSE Apply(h[n - 1], evts[n])
           T == {m \in Nat : \E h : h = [n \in 0..m |-> Step(h, n)]}
<1>1. 0 \in T
  <2> DEFINE h == [n \in 0..0 |-> ui]
  <2>1. h = [n \in 0..0 |-> Step(h, n)]
    OBVIOUS
  <2> QED
    BY <2>1
<1>2. ASSUME NEW m \in Nat, m \in T
      PROVE  m + 1 \in T
  <2>1. PICK h : h = [n \in 0..m |-> Step(h, n)]
    BY <1>2
  <2> DEFINE g == [n \in 0..(m + 1) |-> IF n = m + 1 THEN Step(h, n) ELSE h[n]]
  <2> HIDE DEF Step
  <2>2. ASSUME NEW n \in 0..(m + 1)
        PROVE  g[n] = Step(g, n)
    <3>1. CASE n = 0
      BY <3>1, <2>1 DEF Step
    <3>2. CASE n # 0
      <4>1. n - 1 \in 0..m /\ n - 1 # m + 1 /\ n - 1 \in 0..(m + 1)
        BY <3>2
      <4>2. g[n - 1] = h[n - 1]
        BY <4>1
      <4>3. Step(g, n) = Step(h, n)
        BY <4>2 DEF Step
      <4>4. CASE n = m + 1
        BY <4>3, <4>4
      <4>5. CASE n # m + 1
        <5>1. n \in 0..m
          BY <4>5
        <5>2. h[n] = Step(h, n)
          BY <5>1, <2>1
        <5> QED
          BY <4>3, <4>5, <5>2
      <4> QED
        BY <4>4, <4>5
    <3> QED
      BY <3>1, <3>2
  <2>3. g = [n \in 0..(m + 1) |-> Step(g, n)]
    <3> HIDE DEF g
    <3>1. g = [n \in 0..(m + 1) |-> g[n]]
      BY DEF g
    <3> QED
      BY <3>1, <2>2
  <2> HIDE DEF g
  <2>4. \E f : f = [n \in 0..(m + 1) |-> Step(f, n)]
    BY <2>3
  <2> QED
    BY <2>4
<1> HIDE DEF T
<1>3. Nat \subseteq T
  BY <1>1, <1>2, NatSetInduction
<1>4. Len(evts) \in T
  BY <1>3
<1>5. PICK h : h = [n \in 0..Len(evts) |-> Step(h, n)]
  BY <1>4 DEF T
<1> QED
  BY <1>5 DEF SettleSteps

\* If the window, or the window with its first report applied, shows the worker's
\* session, quiet reports after it change nothing of that.
LEMMA SettledShows ==
  ASSUME ui \in UiType, evts \in Seq(Events), NEW k \in {0, 1}, k <= Len(evts),
         k = 0 => ShowsWorker(ui),
         k = 1 => ShowsWorker(Apply(ui, evts[1])) /\ Apply(ui, evts[1]) \in UiType,
         \A i \in (k + 1)..Len(evts) : evts[i].ev \in QuietReports
  PROVE  ShowsWorker(Settled)
<1>0. Len(evts) \in Nat /\ \A i \in 1..Len(evts) : evts[i] \in Events
  OBVIOUS
<1> DEFINE h == CHOOSE f : SettleSteps(f)
<1>1. SettleSteps(h)
  BY <1>0, SettleExists
<1>2. Settled = h[Len(evts)]
  BY DEF Settled, SettleSteps
<1> HIDE DEF h
<1>3. \A n \in 0..Len(evts) : h[n] = IF n = 0 THEN ui ELSE Apply(h[n - 1], evts[n])
  BY <1>1 DEF SettleSteps
<1> DEFINE T == {m \in Nat : k <= m /\ m <= Len(evts) => ShowsWorker(h[m]) /\ h[m] \in UiType}
<1>4. ShowsWorker(h[k]) /\ h[k] \in UiType
  <2>1. h[0] = ui
    BY <1>0, <1>3
  <2>2. CASE k = 0
    BY <2>1, <2>2
  <2>3. CASE k = 1
    <3>1. h[1] = Apply(ui, evts[1])
      BY <1>0, <1>3, <2>1, <2>3
    <3> QED
      BY <2>3, <3>1
  <2> QED
    BY <2>2, <2>3
<1>5. 0 \in T
  <2>1. k <= 0 => k = 0
    OBVIOUS
  <2> QED
    BY <1>4, <2>1
<1>6. ASSUME NEW m \in Nat, m \in T
      PROVE  m + 1 \in T
  <2>1. SUFFICES ASSUME k <= m + 1, m + 1 <= Len(evts)
                 PROVE  ShowsWorker(h[m + 1]) /\ h[m + 1] \in UiType
    OBVIOUS
  <2>2. CASE k = m + 1
    BY <1>4, <2>2
  <2>3. CASE k # m + 1
    <3>1. k <= m /\ m <= Len(evts) /\ m + 1 \in (k + 1)..Len(evts) /\ m + 1 \in 0..Len(evts)
          /\ m + 1 \in 1..Len(evts) /\ m + 1 # 0 /\ (m + 1) - 1 = m
      BY <1>0, <2>1, <2>3
    <3>2. ShowsWorker(h[m]) /\ h[m] \in UiType
      BY <1>6, <3>1
    <3>3. h[m + 1] = Apply(h[m], evts[m + 1])
      BY <1>3, <3>1
    <3>4. evts[m + 1] \in Events /\ evts[m + 1].ev \in QuietReports
      BY <1>0, <3>1
    <3>5. Apply(h[m], evts[m + 1]) \in UiType /\ SameView(h[m], Apply(h[m], evts[m + 1]))
      BY <3>2, <3>4, QuietFacts
    <3> QED
      BY <3>2, <3>3, <3>5, ViewShows
  <2> QED
    BY <2>2, <2>3
<1> HIDE DEF T
<1>7. Nat \subseteq T
  BY <1>5, <1>6, NatSetInduction
<1>8. ShowsWorker(h[Len(evts)])
  BY <1>0, <1>7 DEF T
<1> QED
  BY <1>2, <1>8

\* So the window that is current is up to date.
LEMMA CurrentShows ==
  ASSUME SessionInv, Current
  PROVE  UpToDate
<1>1. SUFFICES ASSUME job.kind # "stopped"
               PROVE  ShowsWorker(Settled)
  BY DEF UpToDate
<1>2. ui \in UiType /\ evts \in Seq(Events) /\ Len(evts) \in Nat
  BY DEF SessionInv, BehindOK, QueuesOK, ConsistentState, WellTyped
<1>3. CASE ShowsWorker(ui) /\ Quiet(evts)
  <2>1. 0 \in {0, 1} /\ 0 <= Len(evts)
    BY <1>2
  <2>2. \A i \in (0 + 1)..Len(evts) : evts[i].ev \in QuietReports
    BY <1>3 DEF Quiet
  <2> QED
    BY <1>2, <1>3, <2>1, <2>2, SettledShows
<1>4. CASE Owed
  <2>1. 1 \in {0, 1} /\ 1 <= Len(evts) /\ evts[1] \in Events
    BY <1>2, <1>4 DEF Owed
  <2>2. Apply(ui, evts[1]) \in UiType
    BY <1>2, <1>4, <2>1, ChangeTyped DEF Owed
  <2>3. \A i \in (1 + 1)..Len(evts) : evts[i].ev \in QuietReports
    BY <1>4 DEF Owed
  <2> QED
    BY <1>2, <1>4, <2>1, <2>2, <2>3, SettledShows DEF Owed
<1> QED
  BY <1>1, <1>3, <1>4 DEF Current

---------------------------------------------------------------------------
(* The window's steps leave it current.                                    *)

\* With nothing unread, what leaves the view alone leaves the window current.
LEMMA RestCurrent ==
  ASSUME Current, evts = <<>>, UNCHANGED <<evts, wk, job, store>>, SameView(ui, ui')
  PROVE  Current'
<1>1. SUFFICES ASSUME job.kind # "stopped"
               PROVE  ShowsWorker(ui)' /\ Quiet(evts')
  BY DEF Current
<1>2. ShowsWorker(ui)
  BY <1>1 DEF Current, Owed
<1>3. Quiet(evts')
  BY DEF Quiet
<1> QED
  BY <1>2, <1>3 DEF SameView, ShowsWorker

\* What is shown of the worker's session by a request, a refusal, a Stop or a Clear.
LEMMA RequestViews ==
  ASSUME NEW u \in UiType
  PROVE  /\ \A p, r : SameView(u, begin_provider_connection(u, p, r))
         /\ SameView(u, provider_failed(u))
         /\ \A id : /\ SameView(u, begin_profile_deletion(u, id))
                    /\ SameView(u, select_saved_profile(u, id))
         /\ \A m : SameView(u, begin_model_selection(u, m))
         /\ SameView(u, begin_translation(u))
         /\ SameView(u, request_cancellation(u))
         /\ SameView(u, clear_workspace(u))
         /\ SameView(u, u)
<1> USE DEF SameView, UiType
<1>1. \A p, r : SameView(u, begin_provider_connection(u, p, r))
  BY DEF begin_provider_connection
<1>2. SameView(u, provider_failed(u))
  BY FailedFacts
<1>3. \A id : SameView(u, begin_profile_deletion(u, id)) /\ SameView(u, select_saved_profile(u, id))
  BY DEF begin_profile_deletion, select_saved_profile
<1>4. \A m : SameView(u, begin_model_selection(u, m))
  BY DEF begin_model_selection
<1>5. /\ SameView(u, begin_translation(u)) /\ SameView(u, request_cancellation(u))
      /\ SameView(u, clear_workspace(u)) /\ SameView(u, u)
  BY DEF begin_translation, request_cancellation, clear_workspace
<1> QED
  BY <1>1, <1>2, <1>3, <1>4, <1>5

\* Only a window that has read everything sends a command or looks at another profile.
LEMMA RequestCurrent ==
  ASSUME SessionInv, Phase, Current, HasRoom,
         \/ \E p \in Profiles, r \in BOOLEAN : ClickConnect(p, r)
         \/ ClickConnectInvalid \/ ClickRemove \/ ClickTranslate
         \/ \E id \in Ids \cup {None} : ChooseSavedProfile(id)
         \/ \E m \in Models : ChooseModel(m)
  PROVE  Current'
<1>1. ui \in UiType
  BY DEF SessionInv, ConsistentState, WellTyped
<1>2. evts = <<>>
  <2>1. provider_controls_enabled(ui)
    BY DEF ClickConnect, ClickConnectInvalid, ClickRemove, ClickTranslate, ChooseSavedProfile,
           ChooseModel
  <2> QED
    BY <2>1, RestsUnblocked DEF AtRest
<1>3. UNCHANGED <<evts, wk, job, store>>
  BY DEF ClickConnect, ClickConnectInvalid, ClickRemove, ClickTranslate, ChooseSavedProfile,
         ChooseModel
<1>4. SameView(ui, ui')
  <2>1. CASE \E p \in Profiles, r \in BOOLEAN : ClickConnect(p, r)
    BY <1>1, <2>1, RequestViews DEF ClickConnect, Send
  <2>2. CASE ClickConnectInvalid
    BY <1>1, <2>2, RequestViews DEF ClickConnectInvalid
  <2>3. CASE ClickRemove
    BY <1>1, <2>3, RequestViews DEF ClickRemove, Send
  <2>4. CASE ClickTranslate
    BY <1>1, <2>4, RequestViews DEF ClickTranslate, Send
  <2>5. CASE \E id \in Ids \cup {None} : ChooseSavedProfile(id)
    BY <1>1, <2>5, RequestViews DEF ChooseSavedProfile
  <2>6. CASE \E m \in Models : ChooseModel(m)
    BY <1>1, <2>6, RequestViews DEF ChooseModel, Send
  <2> QED
    BY <2>1, <2>2, <2>3, <2>4, <2>5, <2>6
<1> QED
  BY <1>2, <1>3, <1>4, RestCurrent

\* Clear is also open to a window that starts, and leaves a fresh one as it is.
LEMMA ClearCurrent ==
  ASSUME SessionInv, Phase, Current, ClickClear
  PROVE  Current'
<1>1. ui \in UiType /\ ui' = clear_workspace(ui) /\ UNCHANGED <<evts, wk, job, store>>
  BY DEF SessionInv, ConsistentState, WellTyped, ClickClear
<1>2. SameView(ui, ui')
  BY <1>1, RequestViews
<1>3. CASE ShowsWorker(ui) /\ Quiet(evts)
  BY <1>1, <1>2, <1>3 DEF Current, SameView, ShowsWorker, Quiet
<1>4. CASE Owed
  <2>1. AtStart \/ evts = <<>>
    BY DEF ClickClear, Phase, AtRest, Asked, Dialling, Streaming, Answered
  <2>2. AtStart /\ 1 \in 1..Len(evts)
    BY <1>4, <2>1 DEF Owed, SessionInv, BehindOK, QueuesOK
  <2>3. evts[1].ev \in StartEvents
    BY <2>2 DEF AtStart
  <2>4. ui = DefaultState
    BY <1>4, <2>3 DEF Owed, StartEvents, ChangeReports
  <2>5. /\ ui.last_sequence = None /\ ui.status = "Disconnected" /\ ui.active_provider = None
        /\ ui' = [ui EXCEPT !.last_sequence = None, !.status = "Disconnected"]
    BY <1>1, <2>4 DEF clear_workspace, DefaultState
  <2>6. ui' = ui
    <3>1. ui' \in UiType
      BY <1>1, <2>5 DEF UiType, Statuses
    <3>2. /\ ui'.worker_startup = ui.worker_startup /\ ui'.active_provider = ui.active_provider
          /\ ui'.pending_provider = ui.pending_provider /\ ui'.will_be_saved = ui.will_be_saved
          /\ ui'.saved_profiles = ui.saved_profiles /\ ui'.selected_saved = ui.selected_saved
          /\ ui'.persisted_active = ui.persisted_active /\ ui'.active_saved = ui.active_saved
          /\ ui'.storage_status = ui.storage_status /\ ui'.pending_deletion = ui.pending_deletion
          /\ ui'.models = ui.models /\ ui'.selected_model = ui.selected_model
          /\ ui'.pending_model = ui.pending_model /\ ui'.status = ui.status
          /\ ui'.last_sequence = ui.last_sequence
      BY <1>1, <2>5 DEF UiType
    <3> QED
      BY <1>1, <3>1, <3>2 DEF UiType
  <2> QED
    BY <1>1, <1>4, <2>6 DEF Current, Owed, ShowsWorker
<1>5. CASE job.kind = "stopped"
  BY <1>1, <1>5 DEF Current
<1> QED
  BY <1>3, <1>4, <1>5 DEF Current

\* Stop changes the status, and no unread report depends on it.
LEMMA StopCurrent ==
  ASSUME SessionInv, Current, HasRoom, ClickStop
  PROVE  Current'
<1>1. ui \in UiType /\ evts \in Seq(Events) /\ UNCHANGED <<evts, wk, job, store>>
  BY DEF SessionInv, BehindOK, QueuesOK, ConsistentState, WellTyped, ClickStop
<1>2. ui' = ui \/ ui' = request_cancellation(ui)
  BY DEF ClickStop, SendCancel
<1>3. SameView(ui, ui')
  BY <1>1, <1>2, RequestViews
<1>4. CASE ShowsWorker(ui) /\ Quiet(evts)
  BY <1>1, <1>3, <1>4 DEF Current, SameView, ShowsWorker, Quiet
<1>5. CASE Owed
  <2>1. ui # DefaultState
    BY DEF ClickStop, stop_enabled, DefaultState
  <2>2. evts[1] \in Events /\ evts[1].ev \in ChangeReports /\ ShowsWorker(Apply(ui, evts[1]))
    BY <1>1, <1>5, <2>1 DEF Owed
  <2> DEFINE v == Apply(ui, evts[1])  w == Apply(ui', evts[1])
  <2>3. SameView(v, w)
    <3>1. CASE ui' = request_cancellation(ui)
      BY <1>1, <2>2, <3>1, StopKeepsChange
    <3>2. CASE ui' = ui
      BY <3>2 DEF SameView
    <3> QED
      BY <1>2, <3>1, <3>2
  <2> HIDE DEF v, w
  <2>4. ShowsWorker(w)
    BY <2>2, <2>3, ViewShows DEF v
  <2>5. ShowsWorker(Apply(ui, evts[1]))'
    BY <1>1, <2>4 DEF ShowsWorker, w
  <2> QED
    BY <1>1, <1>5, <2>2, <2>5 DEF Current, Owed
<1>6. CASE job.kind = "stopped"
  BY <1>1, <1>6 DEF Current
<1> QED
  BY <1>4, <1>5, <1>6 DEF Current

---------------------------------------------------------------------------
(* So does reading a report.                                               *)

LEMMA PumpCurrent ==
  ASSUME SessionInv, Current, HasRoom, Pump
  PROVE  Current'
<1> DEFINE e == Head(evts)
<1>1. /\ ui \in UiType /\ evts \in Seq(Events) /\ evts # <<>>
      /\ ui' = Apply(ui, e) /\ evts' = Tail(evts) /\ UNCHANGED <<wk, job, store>>
  BY PumpFacts DEF SessionInv, BehindOK, QueuesOK, ConsistentState, WellTyped, Pump
<1>2. /\ e = evts[1] /\ e \in Events /\ 1 \in 1..Len(evts)
      /\ \A i \in 1..Len(evts') :
           i + 1 \in 1..Len(evts) /\ i + 1 \in 2..Len(evts) /\ evts'[i] = evts[i + 1]
  BY <1>1
<1>3. CASE ShowsWorker(ui) /\ Quiet(evts)
  <2>1. e.ev \in QuietReports
    BY <1>2, <1>3 DEF Quiet
  <2>2. SameView(ui, ui')
    BY <1>1, <1>2, <2>1, QuietFacts
  <2>3. ShowsWorker(ui)'
    BY <1>1, <1>3, <2>2 DEF SameView, ShowsWorker
  <2>4. Quiet(evts')
    BY <1>2, <1>3 DEF Quiet
  <2> QED
    BY <2>3, <2>4 DEF Current
<1>4. CASE Owed
  <2>1. ShowsWorker(ui')
    BY <1>1, <1>2, <1>4 DEF Owed
  <2>2. ShowsWorker(ui)'
    BY <1>1, <2>1 DEF ShowsWorker
  <2>3. Quiet(evts')
    BY <1>2, <1>4 DEF Quiet, Owed
  <2> QED
    BY <2>2, <2>3 DEF Current
<1>5. CASE job.kind = "stopped"
  BY <1>1, <1>5 DEF Current
<1> QED
  BY <1>3, <1>4, <1>5 DEF Current

---------------------------------------------------------------------------
(* The worker's steps: each reports what it changes, and nothing else.     *)

\* A worker that changes nothing of its session reports quietly.
LEMMA QuietlyCurrent ==
  ASSUME SessionInv, Current, NEW e, e.ev \in QuietReports, Report(<<e>>), job.kind # "stopped",
         UNCHANGED <<ui, wk, store>>
  PROVE  Current'
<1>1. evts \in Seq(Events)
  BY DEF SessionInv, BehindOK, QueuesOK
<1>2. evts' = Append(evts, e)
  BY <1>1, AppendIsConcat DEF Report
<1>3. /\ Len(evts') = Len(evts) + 1 /\ evts' # <<>> /\ Len(evts) \in Nat
      /\ \A i \in 1..Len(evts') : (i \in 1..Len(evts) /\ evts'[i] = evts[i]) \/ evts'[i] = e
  BY <1>1, <1>2
<1>4. CASE ShowsWorker(ui) /\ Quiet(evts)
  <2>1. Quiet(evts')
    BY <1>3, <1>4 DEF Quiet
  <2> QED
    BY <1>4, <2>1 DEF Current, ShowsWorker
<1>5. CASE Owed
  <2>1. 1 \in 1..Len(evts) /\ evts'[1] = evts[1]
    BY <1>1, <1>2, <1>5 DEF Owed
  <2>2. \A i \in 2..Len(evts') : evts'[i].ev \in QuietReports
    <3>1. \A i \in 2..Len(evts') : (i \in 2..Len(evts) /\ evts'[i] = evts[i]) \/ evts'[i] = e
      BY <1>3
    <3> QED
      BY <1>5, <3>1 DEF Owed
  <2> QED
    BY <1>3, <1>5, <2>1, <2>2 DEF Current, Owed, ShowsWorker
<1> QED
  BY <1>4, <1>5 DEF Current

\* A worker that changes its session reports it alone, and the window will show it.
LEMMA ChangeCurrent ==
  ASSUME evts = <<>>, NEW e, e.ev \in ChangeReports, Report(<<e>>), ui' = ui,
         NEW v, v = Apply(ui, e), ShowsWorker(v)'
  PROVE  Current'
<1>1. evts' = <<e>>
  BY DEF Report
<1>2. evts' # <<>> /\ evts'[1] = e /\ Len(evts') = 1
  BY <1>1
<1>3. \A i \in 2..Len(evts') : FALSE
  BY <1>2
<1>4. ShowsWorker(Apply(ui, evts[1]))'
  BY <1>2 DEF ShowsWorker
<1> QED
  BY <1>2, <1>3, <1>4 DEF Current, Owed

\* What the window connects is what the worker connected, and what it stored.
LEMMA FinishConnectCurrent ==
  ASSUME SessionInv, Phase, Current, Unawaited = {}, FinishConnect
  PROVE  Current'
<1>1. Dialling
  BY DEF FinishConnect, Phase, AtStart, AtRest, Asked, Streaming, Answered, Free
<1>2. /\ evts = <<>> /\ job.kind = "connect" /\ ui \in UiType /\ store \in Stores
      /\ job.profile \in Profiles /\ job.remember \in BOOLEAN /\ ui' = ui
      /\ job.remember => job.profile \in Storable
      /\ Promised(job.profile, job.remember)
  BY <1>1, AwaitedShapes DEF Dialling, FinishConnect, SessionInv, BehindOK, WorkerOK, StoreOK,
     Usable, ConsistentState, WellTyped
<1>3. ShowsWorker(ui)
  BY <1>2 DEF Current, Owed
<1>4. CASE Report(<<Rejection>>) /\ UNCHANGED <<wk, store>>
  <2>1. Rejection.ev \in QuietReports
    BY DEF Rejection, QuietReports
  <2> QED
    BY <1>2, <1>4, <2>1, QuietlyCurrent
<1>5. ASSUME NEW ms \in SUBSET Models, NEW p, NEW s,
             p = WithModel(job.profile, FilteredModel(job.profile, ms)),
             s = IF job.remember THEN profile_without_secret(p) ELSE None,
             wk' = [profile |-> p, models |-> ms, saved |-> s, model |-> p.model],
             store' = IF s = None THEN store ELSE Saved(store, s),
             Report(<<[ev |-> "Connected", profile |-> p, models |-> ms, saved |-> s]>>)
      PROVE  Current'
  <2> DEFINE e == [ev |-> "Connected", profile |-> p, models |-> ms, saved |-> s]
  <2>0. PICK v : v = provider_connected(ui, p, ms, s)
    OBVIOUS
  <2>1. e.ev = "Connected" /\ e.profile = p /\ e.models = ms /\ e.saved = s
    OBVIOUS
  <2> HIDE DEF e
  <2>2. p \in Profiles
    BY <1>2, <1>5 DEF WithModel, FilteredModel, Profiles
  <2>3. s # None => /\ s.secret # "session" /\ profiles_match_except_secret(p, s) /\ s.id \in Ids
    BY <1>5, <2>2 DEF profile_without_secret, profiles_match_except_secret, Profiles
  <2>4. job.remember = (s # None)
    <3>1. job.remember => p \in Storable
      BY <1>2, <1>5, <2>2 DEF Storable, WithModel, FilteredModel, Profiles
    <3>2. job.remember => profile_without_secret(p) # None
      BY <2>2, <3>1, WithoutSecret, ConstantsAssumption
    <3> QED
      BY <1>2, <1>5, <3>2
  <2>5. MatchesPending(ui, p, ms)
    BY <1>2, <1>5, ConstantsAssumption DEF Promised, MatchesPending
  <2>6. provider_connected_ok(ui, p, ms, s)
    BY <1>2, <2>3, <2>4, <2>5 DEF Promised, provider_connected_ok
  <2>7. v = Apply(ui, e)
    BY <2>0, <2>1, <2>6 DEF Apply, OnConnected
  <2>8. /\ v.active_provider = p /\ v.models = ms /\ v.selected_model = p.model
        /\ v.active_saved = IF s = None THEN None ELSE s.id
        /\ v.saved_profiles = IF s = None THEN ui.saved_profiles
                              ELSE [ui.saved_profiles EXCEPT ![s.id] = s]
        /\ v.persisted_active = IF s = None THEN ui.persisted_active ELSE s.id
    BY <1>2, <2>0 DEF provider_connected, UiType
  <2>9. /\ s = None => store' = store
        /\ s # None => /\ store'.open = store.open /\ store'.active = s.id
                       /\ store'.rows = [store.rows EXCEPT ![s.id] = s]
    BY <1>2, <1>5 DEF Saved, Stores
  <2>10. wk'.profile = p /\ wk'.models = ms /\ wk'.saved = s /\ wk'.model = p.model
    BY <1>5
  <2>11. ShowsWorker(v)'
    BY <1>3, <2>8, <2>9, <2>10 DEF ShowsWorker
  <2>12. e.ev \in ChangeReports /\ Report(<<e>>)
    BY <1>5, <2>1 DEF ChangeReports, e
  <2> QED
    BY <1>2, <2>7, <2>11, <2>12, ChangeCurrent
<1>6. \A e : ~Degrade(e)
  BY DEF Degrade
<1> QED
  BY <1>4, <1>5, <1>6 DEF FinishConnect

\* The model the window waits for is the one the worker selected and stored.
LEMMA SelectModelCurrent ==
  ASSUME SessionInv, Phase, Current, Unawaited = {}, SelectModel
  PROVE  Current'
<1> DEFINE c == Head(cmds)
           no == [ev |-> "ModelSelectionRejected", id |-> c.id, model |-> c.model]
           s == IF wk.saved = None THEN None ELSE WithModel(wk.saved, c.model)
           yes == [ev |-> "ModelSelected", id |-> c.id, model |-> c.model, saved |-> s]
<1>1. evts = <<>> /\ c.op = "SelectModel" /\ Backed(c) /\ job.kind = "idle"
  BY TakenAsked DEF SelectModel, Takes, Idle
<1>2. /\ ui' = ui /\ c \in Commands /\ wk \in Sessions /\ ui \in UiType /\ store \in Stores
      /\ SavedInStore
  BY TakesFacts DEF SelectModel, SessionInv, BehindOK, QueuesOK, WorkerOK, StoreOK,
     ConsistentState, WellTyped
<1>3. ShowsWorker(ui) /\ ui.pending_model = c.model /\ c.id \in Ids /\ c.model \in Models
  BY <1>1, <1>2, CommandShapes DEF Current, Owed, Backed
<1>4. no.ev = "ModelSelectionRejected" /\ yes.ev = "ModelSelected" /\ yes.id = c.id
      /\ yes.model = c.model /\ yes.saved = s
  OBVIOUS
<1> HIDE DEF no, yes
<1>5. CASE Report(<<no>>) /\ UNCHANGED <<wk, store>>
  <2>1. no.ev \in QuietReports
    BY <1>4 DEF QuietReports
  <2> QED
    BY <1>1, <1>2, <1>5, <2>1, QuietlyCurrent
<1>6. CASE /\ wk.profile # None /\ wk.profile.id = c.id /\ c.model \in wk.models
           /\ wk' = [wk EXCEPT !.profile = WithModel(@, c.model), !.saved = s, !.model = c.model]
           /\ store' = IF s = None THEN store ELSE Saved(store, s)
           /\ Report(<<yes>>)
  <2>0. PICK v : v = confirm_model_selection(ui, c.id, c.model, s)
    OBVIOUS
  <2>1. wk.profile \in Profiles /\ ActiveIs(ui, c.id) /\ ui.active_provider = wk.profile
    BY <1>2, <1>3, <1>6 DEF Sessions, Usable, ActiveIs, ShowsWorker
  <2>2. wk.saved # None =>
          /\ wk.saved \in Storable /\ wk.saved.id = c.id /\ wk.saved.cfg = wk.profile.cfg
          /\ store.open /\ store.rows[c.id] = wk.saved /\ store.active = c.id
    BY <1>2, <1>6 DEF SavedInStore, Sessions, profiles_match_except_secret
  <2>3. s # None => /\ s \in Storable /\ s.id = c.id /\ s.cfg = wk.profile.cfg
                    /\ s.model = c.model /\ wk.saved # None
    BY <1>3, <2>2, WithModelFacts DEF Storable
  <2>4. (wk.saved # None) = (s # None)
    <3>1. wk.saved # None => WithModel(wk.saved, c.model) \in Profiles
      BY <1>3, <2>2, WithModelFacts DEF Storable
    <3> QED
      BY <3>1, ConstantsAssumption
  <2> HIDE DEF s
  <2>5. /\ (ui.active_saved # None) = (s # None)
        /\ s # None => /\ ui.active_saved = c.id /\ ui.persisted_active = c.id
                       /\ ui.saved_profiles[c.id] # None
    BY <1>3, <2>2, <2>3, <2>4, ConstantsAssumption DEF ShowsWorker
  <2>6. WithModel(wk.profile, c.model).id = c.id
        /\ WithModel(wk.profile, c.model).cfg = wk.profile.cfg
        /\ WithModel(wk.profile, c.model).model = c.model
    BY <1>3, <1>6, <2>1, WithModelFacts
  <2>7. s # None => s.secret # "session"
                    /\ profiles_match_except_secret(WithModel(ui.active_provider, c.model), s)
    BY <2>1, <2>3, <2>6 DEF profiles_match_except_secret, Storable
  <2>8. confirm_model_selection_ok(ui, c.id, c.model, s)
    BY <1>3, <1>6, <2>1, <2>5, <2>7
       DEF confirm_model_selection_ok, ShowsWorker, ActiveIs, IsSaved
  <2>9. v = Apply(ui, yes)
    BY <1>4, <2>0, <2>1, <2>8 DEF Apply, OnModelSelected
  <2>10. /\ v.active_provider = WithModel(ui.active_provider, c.model) /\ v.models = ui.models
         /\ v.selected_model = c.model /\ v.active_saved = ui.active_saved
         /\ v.saved_profiles = IF s = None THEN ui.saved_profiles
                               ELSE [ui.saved_profiles EXCEPT ![c.id] = s]
         /\ v.persisted_active = ui.persisted_active
    BY <1>2, <2>0 DEF confirm_model_selection, UiType
  <2>11. /\ s = None => store' = store
         /\ s # None => /\ store'.open = store.open /\ store'.active = c.id
                        /\ store'.rows = [store.rows EXCEPT ![c.id] = s]
    BY <1>2, <1>6, <2>3 DEF Saved, Stores
  <2>12. /\ wk'.profile = WithModel(wk.profile, c.model) /\ wk'.models = wk.models
         /\ wk'.saved = s /\ wk'.model = c.model
    BY <1>2, <1>6 DEF Sessions
  <2>13. v.active_saved = IF s = None THEN None ELSE s.id
    BY <2>3, <2>5, <2>10
  <2>14. store'.open => v.saved_profiles = store'.rows /\ v.persisted_active = store'.active
    <3>1. CASE s = None
      BY <1>3, <2>10, <2>11, <3>1 DEF ShowsWorker
    <3>2. CASE s # None
      BY <1>3, <2>5, <2>10, <2>11, <3>2, ZenonT(40) DEF ShowsWorker
    <3> QED
      BY <3>1, <3>2
  <2>15. ShowsWorker(v)'
    BY <1>3, <2>1, <2>10, <2>12, <2>13, <2>14 DEF ShowsWorker
  <2>16. yes.ev \in ChangeReports
    BY <1>4 DEF ChangeReports
  <2> QED
    BY <1>1, <1>2, <1>6, <2>9, <2>15, <2>16, ChangeCurrent
<1>7. ~Degrade(no)
  BY DEF Degrade
<1> QED
  BY <1>5, <1>6, <1>7, Zenon DEF SelectModel, no, yes

\* The row the window waits to lose is the one the worker removed.
LEMMA DeleteCurrent ==
  ASSUME SessionInv, Phase, Current, Unawaited = {}, DeleteSavedProfile
  PROVE  Current'
<1> DEFINE id == Head(cmds).id
           no == [ev |-> "ProfileDeletionRejected", id |-> id]
           yes == [ev |-> "ProfileDeleted", id |-> id]
<1>1. /\ evts = <<>> /\ Head(cmds).op = "DeleteSavedProfile" /\ Backed(Head(cmds))
      /\ job.kind = "idle"
  BY TakenAsked DEF DeleteSavedProfile, Takes, Idle
<1>2. /\ ui' = ui /\ Head(cmds) \in Commands /\ wk \in Sessions /\ ui \in UiType
      /\ store \in Stores /\ SavedInStore
  BY TakesFacts DEF DeleteSavedProfile, SessionInv, BehindOK, QueuesOK, WorkerOK, StoreOK,
     ConsistentState, WellTyped
<1>3. ShowsWorker(ui) /\ ui.pending_deletion = id /\ id \in Ids
  BY <1>1, <1>2, CommandShapes DEF Current, Owed, Backed
<1>4. no.ev = "ProfileDeletionRejected" /\ yes.ev = "ProfileDeleted" /\ yes.id = id
  OBVIOUS
<1> HIDE DEF no, yes
<1>5. CASE Report(<<no>>) /\ UNCHANGED <<wk, store>>
  <2>1. no.ev \in QuietReports
    BY <1>4 DEF QuietReports
  <2> QED
    BY <1>1, <1>2, <1>5, <2>1, QuietlyCurrent
<1>6. CASE /\ store.open /\ store.rows[id] # None /\ store' = Removed(store, id)
           /\ wk' = [wk EXCEPT !.saved = IF @ # None /\ @.id = id THEN None ELSE @]
           /\ Report(<<yes>>)
  <2>0. PICK v : v = confirm_profile_deletion(ui, id)
    OBVIOUS
  <2>1. confirm_profile_deletion_ok(ui, id)
    BY <1>3, <1>6 DEF confirm_profile_deletion_ok, IsSaved, ShowsWorker
  <2>2. v = Apply(ui, yes)
    BY <1>4, <2>0, <2>1 DEF Apply, OnProfileDeleted
  <2>3. /\ v.active_provider = ui.active_provider /\ v.models = ui.models
        /\ v.selected_model = ui.selected_model
        /\ v.active_saved = IF ui.active_saved = id THEN None ELSE ui.active_saved
        /\ v.saved_profiles = [ui.saved_profiles EXCEPT ![id] = None]
        /\ v.persisted_active = IF ui.persisted_active = id THEN None ELSE ui.persisted_active
    BY <1>2, <2>0 DEF confirm_profile_deletion, UiType
  <2>4. /\ store'.rows = [store.rows EXCEPT ![id] = None]
        /\ store'.active = IF store.active = id THEN None ELSE store.active
    BY <1>2, <1>6 DEF Removed, Stores
  <2>5. /\ wk'.profile = wk.profile /\ wk'.models = wk.models /\ wk'.model = wk.model
        /\ wk'.saved = IF wk.saved # None /\ wk.saved.id = id THEN None ELSE wk.saved
    BY <1>2, <1>6 DEF Sessions
  <2>6. v.active_saved = IF wk'.saved = None THEN None ELSE wk'.saved.id
    BY <1>3, <2>3, <2>5 DEF ShowsWorker
  <2>7. ShowsWorker(v)'
    BY <1>3, <1>6, <2>3, <2>4, <2>5, <2>6 DEF ShowsWorker
  <2>8. yes.ev \in ChangeReports
    BY <1>4 DEF ChangeReports
  <2> QED
    BY <1>1, <1>2, <1>6, <2>2, <2>7, <2>8, ChangeCurrent
<1>7. ~Degrade(no)
  BY DEF Degrade
<1> QED
  BY <1>5, <1>6, <1>7, Zenon DEF DeleteSavedProfile, no, yes

\* A translation changes nothing of the session, however it is answered.
LEMMA TranslateCurrent ==
  ASSUME SessionInv, Phase, Current, Translate
  PROVE  Current'
<1>1. evts = <<>> /\ job.kind = "idle" /\ UNCHANGED <<ui, wk, store>>
  BY TakenAsked DEF Translate, Takes, Idle
<1>2. ShowsWorker(ui)
  BY <1>1 DEF Current, Owed
<1> DEFINE a == StreamEvent("Started", 0)
           b == StreamEvent("TextDelta", 1)
           d == StreamEvent("Completed", 2)
           f == [ev |-> "OperationFailed"]
<1>3. /\ a.ev \in QuietReports /\ b.ev \in QuietReports
      /\ d.ev \in QuietReports /\ f.ev \in QuietReports
  BY DEF StreamEvent, QuietReports
<1> HIDE DEF a, b, d, f
<1>4. evts' = <<a, b, d>> \/ evts' = <<f>> \/ evts' = <<>>
  BY <1>1 DEF Translate, Report, a, b, d, f
<1>5. Quiet(evts')
  <2>1. CASE evts' = <<a, b, d>>
    <3>1. Len(evts') = 3 /\ evts'[1] = a /\ evts'[2] = b /\ evts'[3] = d
      BY <2>1
    <3>2. \A i \in 1..Len(evts') : i = 1 \/ i = 2 \/ i = 3
      BY <3>1
    <3> QED
      BY <1>3, <3>1, <3>2 DEF Quiet
  <2>2. CASE evts' = <<f>>
    <3>1. Len(evts') = 1 /\ evts'[1] = f
      BY <2>2
    <3> QED
      BY <1>3, <3>1 DEF Quiet
  <2>3. CASE evts' = <<>>
    BY <2>3 DEF Quiet
  <2> QED
    BY <1>4, <2>1, <2>2, <2>3
<1> QED
  BY <1>1, <1>2, <1>5 DEF Current, ShowsWorker

LEMMA WorkerCurrent ==
  ASSUME SessionInv, Phase, Current, Unawaited = {}, Worker
  PROVE  Current'
<1>1. ASSUME UNCHANGED <<ui, evts, wk, store>>, job.kind # "stopped"
      PROVE  Current'
  BY <1>1 DEF Current, Owed, ShowsWorker
<1>2. ~BeginTest
  <2>1. SUFFICES ASSUME BeginTest PROVE FALSE
    OBVIOUS
  <2>2. Head(cmds).op = "TestConnection" /\ Backed(Head(cmds))
    BY <2>1, TakenAsked DEF BeginTest
  <2> QED
    BY <2>2 DEF Backed
<1>3. ~FinishTest
  BY DEF FinishTest, Phase, AtStart, AtRest, Asked, Dialling, Streaming, Answered, Free
<1>4. CASE BeginConnect \/ FinishCleanup \/ IdleCancel
  BY <1>1, <1>4 DEF BeginConnect, FinishCleanup, IdleCancel, Takes, Idle
<1>5. CASE CommandWhileStreaming
  <2>1. Streaming /\ cmds \in Seq(Commands)
    BY <1>5 DEF CommandWhileStreaming, Phase, AtStart, AtRest, Asked, Dialling, Answered, Free,
                SessionInv, BehindOK, QueuesOK
  <2>2. Head(cmds).op = "Cancel"
    BY <1>5, <2>1, CancelTaken DEF CommandWhileStreaming, Streaming
  <2> QED
    BY <1>1, <1>5, <2>2 DEF CommandWhileStreaming
<1>6. CASE StreamStep
  <2>1. /\ [ev |-> "OperationFailed"].ev \in QuietReports
        /\ \A k : StreamEvent(k, job.next).ev \in QuietReports
    BY DEF StreamEvent, QuietReports
  <2>2. UNCHANGED <<ui, wk, store>> /\ job.kind # "stopped"
    BY <1>6 DEF StreamStep
  <2> QED
    BY <1>6, <2>1, <2>2, QuietlyCurrent DEF StreamStep
<1> QED
  BY <1>2, <1>3, <1>4, <1>5, <1>6, FinishConnectCurrent, SelectModelCurrent, DeleteCurrent,
     TranslateCurrent DEF Worker

---------------------------------------------------------------------------
(* Start and restart, and the theorem.                                     *)

\* Unless the worker did not start, its first report makes a fresh window show what is
\* stored, and nothing that is connected.
LEMMA StartShows ==
  ASSUME NEW s \in Stores, restore_saved_profiles_ok(DefaultState, s.rows, s.active),
         NEW w \in StartupReports(s), Last(w).ev # "Stopped"
  PROVE  /\ w # <<>> /\ w[1].ev \in StartReport
         /\ \A i \in 2..Len(w) : w[i].ev \in QuietReports
         /\ \E v : /\ v = Apply(DefaultState, w[1])
                   /\ v.active_provider = None /\ v.models = {} /\ v.selected_model = None
                   /\ v.active_saved = None
                   /\ w[1] = Restored(s) => /\ v.saved_profiles = s.rows
                                            /\ v.persisted_active = s.active
<1> DEFINE r == Restored(s)
           d == [ev |-> "DemoProviderReady"]
           u == [ev |-> "ProfileStorageUnavailable"]
           x == [ev |-> "Rejected"]
           y == [ev |-> "Stopped"]
<1>1. /\ r.ev = "ProfilesRestored" /\ r.rows = s.rows /\ r.id = s.active
      /\ u.ev = "ProfileStorageUnavailable" /\ y.ev = "Stopped" /\ d.ev \in QuietReports
      /\ u # r
  BY DEF Restored, QuietReports
<1>2. w \in {<<r, d>>, <<u, d>>, <<r, x, y>>, <<x, y>>}
  BY DEF StartupReports
<1> HIDE DEF r, d, u, x, y
<1>3. w # <<r, x, y>> /\ w # <<x, y>>
  <2>1. Last(<<r, x, y>>) = y /\ Last(<<x, y>>) = y
    BY DEF Last
  <2> QED
    BY <1>1, <2>1
<1>4. PICK a \in {r, u} : w = <<a, d>>
  BY <1>2, <1>3
<1>5. w # <<>> /\ Len(w) = 2 /\ w[1] = a /\ w[2] = d
  BY <1>4
<1>6. \A i \in 2..Len(w) : w[i].ev \in QuietReports
  BY <1>1, <1>5
<1>7. PICK v : v = Apply(DefaultState, a)
  OBVIOUS
<1>8. CASE a = r
  <2>1. v = restore_saved_profiles(DefaultState, s.rows, s.active)
    BY <1>1, <1>7, <1>8 DEF Apply, OnProfilesRestored
  <2>2. /\ v.active_provider = None /\ v.models = {} /\ v.selected_model = None
        /\ v.active_saved = None /\ v.saved_profiles = s.rows /\ v.persisted_active = s.active
    BY <2>1 DEF restore_saved_profiles, DefaultState
  <2> QED
    BY <1>1, <1>5, <1>6, <1>7, <1>8, <2>2 DEF StartReport
<1>9. CASE a = u
  <2>1. v = profile_storage_unavailable(DefaultState)
    BY <1>1, <1>7, <1>9 DEF Apply
  <2>2. /\ v.active_provider = None /\ v.models = {} /\ v.selected_model = None
        /\ v.active_saved = None
    BY <2>1 DEF profile_storage_unavailable, provider_failed, DefaultState
  <2>3. w[1] # Restored(s)
    BY <1>1, <1>5, <1>9 DEF r
  <2> QED
    BY <1>1, <1>5, <1>6, <1>7, <1>9, <2>2, <2>3 DEF StartReport
<1> QED
  BY <1>4, <1>8, <1>9

\* What Restored reports is what is in the store.
LEMMA OpenedStore ==
  ASSUME NEW s \in Stores, NEW b, NEW t, t = [s EXCEPT !.open = b]
  PROVE  t.open = b /\ t.rows = s.rows /\ t.active = s.active
  BY DEF Stores

LEMMA InitCurrent == Init => Current
<1>1. SUFFICES ASSUME Init, job.kind # "stopped"
               PROVE  Owed
  BY DEF Current
<1>2. /\ EmptyStore \in Stores
      /\ restore_saved_profiles_ok(DefaultState, EmptyStore.rows, EmptyStore.active)
  BY DEF EmptyStore, Stores, Lists, WellKeyed, NoRows, restore_saved_profiles_ok, DefaultState
<1>3. /\ evts \in StartupReports(EmptyStore) /\ ui = DefaultState /\ wk = NoProvider
      /\ store = [EmptyStore EXCEPT !.open = (evts[1] = Restored(EmptyStore))]
      /\ job = IF Last(evts).ev = "Stopped" THEN [kind |-> "stopped"] ELSE Idle
  BY <1>1 DEF Init, Launch
<1>4. Last(evts).ev # "Stopped"
  BY <1>1, <1>3
<1> HIDE DEF EmptyStore
<1>5. /\ store.open = (evts[1] = Restored(EmptyStore))
      /\ store.rows = EmptyStore.rows /\ store.active = EmptyStore.active
  BY <1>2, <1>3, OpenedStore
<1>6. /\ evts # <<>> /\ evts[1].ev \in StartReport
      /\ \A i \in 2..Len(evts) : evts[i].ev \in QuietReports
  BY <1>2, <1>3, <1>4, StartShows
<1>7. PICK v : /\ v = Apply(DefaultState, evts[1])
               /\ v.active_provider = None /\ v.models = {} /\ v.selected_model = None
               /\ v.active_saved = None
               /\ evts[1] = Restored(EmptyStore) => /\ v.saved_profiles = EmptyStore.rows
                                                    /\ v.persisted_active = EmptyStore.active
  BY <1>2, <1>3, <1>4, StartShows
<1>8. ShowsWorker(v)
  BY <1>3, <1>5, <1>7 DEF ShowsWorker, NoProvider
<1> QED
  BY <1>3, <1>6, <1>7, <1>8 DEF Owed

LEMMA CrashCurrent ==
  ASSUME SessionInv, Crash
  PROVE  Current'
<1>1. PICK w \in StartupReports(store) :
        /\ evts' = w
        /\ store' = [store EXCEPT !.open = (w[1] = Restored(store))]
        /\ job' = IF Last(w).ev = "Stopped" THEN [kind |-> "stopped"] ELSE Idle
  BY Zenon DEF Crash
<1>2. ui' = DefaultState /\ wk' = NoProvider /\ store \in Stores
  BY DEF Crash, SessionInv, BehindOK, StoreOK
<1>3. restore_saved_profiles_ok(DefaultState, store.rows, store.active)
  <2>1. \A i \in Ids : store.rows[i] # None => store.rows[i].secret # "session"
    BY <1>2 DEF Stores, Lists, Storable
  <2>2. store.active # None => store.rows[store.active] # None /\ enabled(store.rows[store.active])
    BY ConstantsAssumption DEF SessionInv, BehindOK, StoreOK, Usable
  <2> QED
    BY <2>1, <2>2 DEF restore_saved_profiles_ok, DefaultState
<1>4. CASE Last(w).ev = "Stopped"
  BY <1>1, <1>4 DEF Current
<1>5. CASE Last(w).ev # "Stopped"
  <2>1. /\ store'.open = (w[1] = Restored(store))
        /\ store'.rows = store.rows /\ store'.active = store.active
    BY <1>1, <1>2, OpenedStore
  <2>2. /\ w # <<>> /\ w[1].ev \in StartReport
        /\ \A i \in 2..Len(w) : w[i].ev \in QuietReports
    BY <1>2, <1>3, <1>5, StartShows
  <2>3. PICK v : /\ v = Apply(DefaultState, w[1])
                 /\ v.active_provider = None /\ v.models = {} /\ v.selected_model = None
                 /\ v.active_saved = None
                 /\ w[1] = Restored(store) => /\ v.saved_profiles = store.rows
                                              /\ v.persisted_active = store.active
    BY <1>2, <1>3, <1>5, StartShows
  <2>4. ShowsWorker(v)'
    BY <1>2, <2>1, <2>3 DEF ShowsWorker, NoProvider
  <2>5. ShowsWorker(Apply(ui, evts[1]))'
    BY <1>1, <1>2, <2>3, <2>4 DEF ShowsWorker
  <2> QED
    BY <1>1, <1>2, <2>2, <2>5 DEF Current, Owed
<1> QED
  BY <1>4, <1>5

LEMMA NextCurrent ==
  ASSUME SessionInv, Phase, Current, HasRoom, Unawaited = {}, Next
  PROVE  Current'
<1>1. CASE User
  <2>1. \A p : ~ClickTest(p)
    BY DEF ClickTest
  <2> QED
    BY <1>1, <2>1, RequestCurrent, ClearCurrent, StopCurrent DEF User
<1> QED
  BY <1>1, PumpCurrent, WorkerCurrent, CrashCurrent DEF Next

\* Under the same conditions as above, the window is never more than its unread reports
\* behind the worker: once they are applied it shows the worker's provider, models,
\* selection and saved row, and, where the database is open, its rows.  A report lost,
\* reordered or applied to a window that no longer waits for it would break this.
THEOREM WindowIsUpToDate == ASSUME Unawaited = {} PROVE Spec /\ []HasRoom => []UpToDate
<1>1. SessionInv /\ Phase /\ HasRoom /\ Current /\ [Next]_vars => Current'
  <2>1. Current /\ UNCHANGED vars => Current'
    BY DEF vars, Current, Owed, ShowsWorker, Quiet
  <2> QED
    BY <2>1, NextCurrent
<1> QED
  BY <1>1, InitCurrent, CurrentShows, SessionAlways, PhaseAlways, PTL DEF Spec
=============================================================================
