--------------------------- MODULE AppStateProofs ---------------------------
(***************************************************************************)
(* The consistency of AppState for every number of profiles and models and *)
(* for every order and payload of worker events.  Each reducer method      *)
(* preserves ConsistentState; the handlers and event handlers are          *)
(* compositions of methods, so every step of the specification does.       *)
(***************************************************************************)
EXTENDS AppState, TLAPS

\* The default record is consistent.
LEMMA DefaultConsistent == ConsistentState(DefaultState)
  BY ConstantsAssumption
     DEF DefaultState, NoRows, ConsistentState, WellTyped, UiType, WellKeyed, SavedLinked,
         IsSaved, ModelsLinked, StorageLinked, PendingLinked, Statuses

\* A method that only moves the status, to anything but Connecting, and perhaps
\* the sequence number, preserves consistency.
LEMMA StatusPreserves ==
  ASSUME NEW u, ConsistentState(u), NEW s \in Statuses \ {"Connecting"},
         NEW n \in Nat \cup {None},
         NEW v, v = [u EXCEPT !.status = s, !.last_sequence = n]
  PROVE  ConsistentState(v)
  <1> USE DEF ConsistentState, WellTyped, UiType
  <1>1. WellTyped(v)
    BY ZenonT(40) DEF WellKeyed
  <1>2. SavedLinked(v) /\ ModelsLinked(v)
    BY DEF SavedLinked, IsSaved, ActiveIs, ModelsLinked
  <1>3. StorageLinked(v) /\ PendingLinked(v)
    BY DEF StorageLinked, storage_available, PendingLinked
  <1>4. QED
    BY <1>1, <1>2, <1>3

\* provider_failed drops the pending profile with its promise to save it.
LEMMA ProviderFailedPreserves ==
  ASSUME NEW u, ConsistentState(u)
  PROVE  ConsistentState(provider_failed(u))
  <1> DEFINE s == IF Busy(u) THEN u.status
                  ELSE IF u.active_provider # None THEN "Ready" ELSE "Failed"
  <1> DEFINE v == provider_failed(u)
  <1>1. s \in Statuses \ {"Connecting"}
    BY DEF Busy, Statuses
  <1>2. v = [u EXCEPT !.pending_provider = None, !.will_be_saved = FALSE, !.status = s]
    BY DEF provider_failed
  <1> HIDE DEF s, v
  <1> USE DEF ConsistentState, WellTyped, UiType
  <1>3. v \in UiType
    BY <1>1, <1>2, ZenonT(40)
  <1>4. WellKeyed(v.saved_profiles)
    BY <1>2 DEF WellKeyed
  <1>5. SavedLinked(v) /\ ModelsLinked(v)
    BY <1>2 DEF SavedLinked, IsSaved, ActiveIs, ModelsLinked
  <1>6. StorageLinked(v) /\ PendingLinked(v)
    BY <1>1, <1>2 DEF StorageLinked, storage_available, PendingLinked
  <1>7. QED
    BY <1>3, <1>4, <1>5, <1>6 DEF v

\* The worker's state is no part of the links.
LEMMA WorkerPreserves ==
  ASSUME NEW u, ConsistentState(u), NEW v,
         v \in {mark_worker_ready(u), mark_worker_unavailable(u)}
  PROVE  ConsistentState(v)
  <1> USE DEF ConsistentState, WellTyped, UiType, mark_worker_ready, mark_worker_unavailable
  <1>1. WellTyped(v)
    BY DEF WellKeyed
  <1>2. SavedLinked(v) /\ ModelsLinked(v)
    BY DEF SavedLinked, IsSaved, ActiveIs, ModelsLinked
  <1>3. StorageLinked(v) /\ PendingLinked(v)
    BY DEF StorageLinked, storage_available, PendingLinked
  <1>4. QED
    BY <1>1, <1>2, <1>3

\* Restoring replaces the whole list; nothing may refer to the old one.
LEMMA RestorePreserves ==
  ASSUME NEW u, ConsistentState(u), NEW rows \in Rows, WellKeyed(rows),
         NEW id \in Ids \cup {None}, restore_saved_profiles_ok(u, rows, id),
         NEW v, v = restore_saved_profiles(u, rows, id)
  PROVE  ConsistentState(v)
  <1> USE DEF ConsistentState, WellTyped, UiType, restore_saved_profiles, restore_saved_profiles_ok
  <1>1. WellTyped(v)
    BY ZenonT(40) DEF WellKeyed, Rows
  <1>2. SavedLinked(v) /\ ModelsLinked(v)
    BY ConstantsAssumption DEF SavedLinked, IsSaved, ActiveIs, ModelsLinked
  <1>3. StorageLinked(v) /\ PendingLinked(v)
    BY DEF StorageLinked, storage_available, PendingLinked
  <1>4. QED
    BY <1>1, <1>2, <1>3

\* Losing the store drops every row together with every reference to one.
LEMMA StorageUnavailablePreserves ==
  ASSUME NEW u, ConsistentState(u)
  PROVE  ConsistentState(profile_storage_unavailable(u))
  <1> DEFINE s == IF Busy(u) THEN u.status
                  ELSE IF u.active_provider # None THEN "Ready" ELSE "Failed"
  <1> DEFINE v == profile_storage_unavailable(u)
  <1> USE DEF ConsistentState, WellTyped, UiType
  <1>1. s \in Statuses \ {"Connecting"}
    BY DEF Busy, Statuses
  <1>2. v = [u EXCEPT !.saved_profiles = NoRows, !.selected_saved = None,
                      !.persisted_active = None, !.active_saved = None,
                      !.pending_deletion = None, !.storage_status = "Unavailable",
                      !.pending_provider = None, !.will_be_saved = FALSE, !.status = s]
    BY DEF profile_storage_unavailable, provider_failed, Busy
  <1>3. NoRows \in [Ids -> Storable \cup {None}] /\ WellKeyed(NoRows)
    BY DEF NoRows, WellKeyed
  <1> HIDE DEF s, v
  <1>4. v \in UiType
    BY <1>1, <1>2, <1>3, ZenonT(60)
  <1>5. WellKeyed(v.saved_profiles)
    BY <1>2, <1>3
  <1>6. SavedLinked(v) /\ ModelsLinked(v)
    BY <1>2 DEF SavedLinked, ModelsLinked
  <1>7. StorageLinked(v) /\ PendingLinked(v)
    BY <1>1, <1>2 DEF StorageLinked, PendingLinked
  <1>8. QED
    BY <1>4, <1>5, <1>6, <1>7 DEF v

\* Choosing a row in the form.
LEMMA SelectSavedPreserves ==
  ASSUME NEW u, ConsistentState(u), NEW id \in Ids \cup {None},
         select_saved_profile_ok(u, id), NEW v, v = select_saved_profile(u, id)
  PROVE  ConsistentState(v)
  <1> USE DEF ConsistentState, WellTyped, UiType, select_saved_profile, select_saved_profile_ok
  <1>1. WellTyped(v)
    BY DEF WellKeyed
  <1>2. SavedLinked(v) /\ ModelsLinked(v)
    BY DEF SavedLinked, IsSaved, ActiveIs, ModelsLinked
  <1>3. StorageLinked(v) /\ PendingLinked(v)
    BY DEF StorageLinked, storage_available, PendingLinked
  <1>4. QED
    BY <1>1, <1>2, <1>3

\* A health report replaces an existing row and never adds one.
LEMMA HealthPreserves ==
  ASSUME NEW u, ConsistentState(u), NEW p \in Storable,
         update_saved_profile_health_ok(u, p), NEW v, v = update_saved_profile_health(u, p)
  PROVE  ConsistentState(v)
  <1> DEFINE rows == [u.saved_profiles EXCEPT ![p.id] = p]
             a == IF ActiveIs(u, p.id) THEN p ELSE u.active_provider
  <1> USE ConstantsAssumption DEF ConsistentState, WellTyped, UiType
  <1>1. p \in Profiles /\ p.id \in Ids /\ p # None /\ u.saved_profiles[p.id] # None
    BY DEF Storable, Profiles, update_saved_profile_health_ok, IsSaved
  <1>2. v = [u EXCEPT !.saved_profiles = rows, !.active_provider = a]
    BY DEF ActiveIs, update_saved_profile_health
  <1>3. rows \in [Ids -> Storable \cup {None}] /\ a \in Profiles \cup {None}
    BY <1>1
  <1>4. WellKeyed(rows) /\ \A i \in Ids : u.saved_profiles[i] # None <=> rows[i] # None
    BY <1>1 DEF WellKeyed
  <1>5. u.active_provider # None => a # None /\ a.id = u.active_provider.id
    BY <1>1 DEF ActiveIs
  <1>6. rows # u.saved_profiles => storage_available(u)
    BY <1>1 DEF StorageLinked, NoRows
  <1> HIDE DEF rows, a
  <1>7. v \in UiType
    BY <1>2, <1>3, ZenonT(60)
  <1>8. WellKeyed(v.saved_profiles)
    BY <1>2, <1>4
  <1>9. SavedLinked(v) /\ ModelsLinked(v)
    BY <1>2, <1>4, <1>5 DEF SavedLinked, IsSaved, ActiveIs, ModelsLinked
  <1>10. StorageLinked(v) /\ PendingLinked(v)
    BY <1>2, <1>6 DEF StorageLinked, storage_available, PendingLinked
  <1>11. QED
    BY <1>7, <1>8, <1>9, <1>10

\* Starting a connection promises to save only into an available store.
LEMMA BeginConnectionPreserves ==
  ASSUME NEW u, ConsistentState(u), NEW p \in Profiles, NEW remember \in BOOLEAN,
         begin_provider_connection_ok(u, p, remember)
  PROVE  ConsistentState(begin_provider_connection(u, p, remember))
  <1> DEFINE v == begin_provider_connection(u, p, remember)
  <1>1. v = [u EXCEPT !.pending_provider = p, !.will_be_saved = remember,
                      !.status = "Connecting"]
    BY DEF begin_provider_connection
  <1> HIDE DEF v
  <1> USE DEF ConsistentState, WellTyped, UiType
  <1>2. v \in UiType
    <2>1. "Connecting" \in Statuses
      BY DEF Statuses
    <2>2. QED
      BY <1>1, <2>1, ZenonT(60)
  <1> USE <1>1
  <1>3. WellKeyed(v.saved_profiles)
    BY DEF WellKeyed
  <1>4. SavedLinked(v) /\ ModelsLinked(v)
    BY DEF SavedLinked, IsSaved, ActiveIs, ModelsLinked
  <1>5. StorageLinked(v)
    BY DEF StorageLinked, storage_available, begin_provider_connection_ok
  <1>6. PendingLinked(v)
    BY ConstantsAssumption DEF PendingLinked
  <1>7. QED
    BY <1>2, <1>3, <1>4, <1>5, <1>6 DEF v

\* Committing a connection replaces provider, models and selection together.
LEMMA ConnectedPreserves ==
  ASSUME NEW u, ConsistentState(u), NEW p \in Profiles, NEW ms \in SUBSET Models,
         NEW s \in Storable \cup {None}, provider_connected_ok(u, p, ms, s)
  PROVE  ConsistentState(provider_connected(u, p, ms, s))
  <1> DEFINE v == provider_connected(u, p, ms, s)
             rows == IF s = None THEN u.saved_profiles ELSE [u.saved_profiles EXCEPT ![s.id] = s]
             id == IF s = None THEN None ELSE s.id
             sel == IF s = None THEN u.selected_saved ELSE s.id
             per == IF s = None THEN u.persisted_active ELSE s.id
  <1> USE ConstantsAssumption DEF ConsistentState, WellTyped, UiType
  <1>1. v = [u EXCEPT !.active_provider = p, !.pending_provider = None,
                      !.will_be_saved = FALSE, !.active_saved = id, !.saved_profiles = rows,
                      !.selected_saved = sel, !.persisted_active = per, !.models = ms,
                      !.selected_model = p.model, !.pending_model = None, !.status = "Ready"]
    BY DEF provider_connected
  <1>2. s # None => s \in Storable /\ s.id \in Ids /\ s.id = p.id
    BY DEF Storable, Profiles, provider_connected_ok, profiles_match_except_secret
  <1>3. /\ rows \in [Ids -> Storable \cup {None}] /\ WellKeyed(rows)
        /\ id \in Ids \cup {None} /\ sel \in Ids \cup {None} /\ per \in Ids \cup {None}
    BY <1>2 DEF WellKeyed
  <1>4. p.model \in Models \cup {None} /\ (p.model # None => p.model \in ms)
    BY DEF Profiles, provider_connected_ok, MatchesPending, WithModel, FilteredModel
  <1>5. s # None => storage_available(u)
    BY DEF StorageLinked, provider_connected_ok
  <1>6. \A x \in {sel, per, u.pending_deletion} : x # None => x \in Ids /\ rows[x] # None
    BY <1>2 DEF SavedLinked, IsSaved
  <1>7. id # None => per = id /\ p.id = id
    BY <1>2
  <1>8. s = None => rows = u.saved_profiles
    OBVIOUS
  <1> HIDE DEF v, rows, id, sel, per
  <1>9. v \in UiType
    BY <1>1, <1>3, <1>4, ZenonT(60) DEF Statuses
  <1>10. WellKeyed(v.saved_profiles)
    BY <1>1, <1>3
  <1>11. SavedLinked(v)
    BY <1>1, <1>6, <1>7 DEF SavedLinked, IsSaved, ActiveIs
  <1>12. ModelsLinked(v)
    BY <1>1, <1>4 DEF ModelsLinked
  <1>13. StorageLinked(v) /\ PendingLinked(v)
    BY <1>1, <1>5, <1>8 DEF StorageLinked, storage_available, PendingLinked
  <1>14. QED
    BY <1>9, <1>10, <1>11, <1>12, <1>13 DEF v

\* Asking for a model the active provider offered.
LEMMA BeginModelPreserves ==
  ASSUME NEW u, ConsistentState(u), NEW m \in Models, begin_model_selection_ok(u, m)
  PROVE  ConsistentState(begin_model_selection(u, m))
  <1> USE DEF ConsistentState, WellTyped, UiType, begin_model_selection, begin_model_selection_ok
  <1>1. WellTyped(begin_model_selection(u, m))
    BY DEF WellKeyed
  <1>2. SavedLinked(begin_model_selection(u, m)) /\ ModelsLinked(begin_model_selection(u, m))
    BY DEF SavedLinked, IsSaved, ActiveIs, ModelsLinked
  <1>3. StorageLinked(begin_model_selection(u, m)) /\ PendingLinked(begin_model_selection(u, m))
    BY DEF StorageLinked, storage_available, PendingLinked
  <1>4. QED
    BY <1>1, <1>2, <1>3

\* Giving a model selection up.
LEMMA ModelFailedPreserves ==
  ASSUME NEW u, ConsistentState(u), NEW m
  PROVE  ConsistentState(model_selection_failed(u, m))
  <1> USE DEF ConsistentState, WellTyped, UiType, model_selection_failed
  <1>1. WellTyped(model_selection_failed(u, m))
    BY DEF WellKeyed
  <1>2. SavedLinked(model_selection_failed(u, m)) /\ ModelsLinked(model_selection_failed(u, m))
    BY DEF SavedLinked, IsSaved, ActiveIs, ModelsLinked
  <1>3. StorageLinked(model_selection_failed(u, m)) /\ PendingLinked(model_selection_failed(u, m))
    BY DEF StorageLinked, storage_available, PendingLinked
  <1>4. QED
    BY <1>1, <1>2, <1>3

\* A confirmed model reaches the active provider and, if it is saved, its row.
LEMMA ConfirmModelPreserves ==
  ASSUME NEW u, ConsistentState(u), NEW id \in Ids, NEW m \in Models,
         NEW s \in Storable \cup {None}, confirm_model_selection_ok(u, id, m, s)
  PROVE  ConsistentState(confirm_model_selection(u, id, m, s))
  <1> DEFINE v == confirm_model_selection(u, id, m, s)
             rows == IF s = None THEN u.saved_profiles ELSE [u.saved_profiles EXCEPT ![id] = s]
             a == WithModel(u.active_provider, m)
  <1> USE ConstantsAssumption DEF ConsistentState, WellTyped, UiType
  <1>1. v = [u EXCEPT !.active_provider = a, !.selected_model = m, !.pending_model = None,
                      !.saved_profiles = rows]
    BY DEF confirm_model_selection
  <1>2. a \in Profiles /\ a # None /\ a.id = u.active_provider.id /\ a.id = id
    BY DEF WithModel, Profiles, confirm_model_selection_ok
  <1>3. s # None => s \in Storable /\ s.id = id /\ u.saved_profiles[id] # None
    BY <1>2 DEF confirm_model_selection_ok, profiles_match_except_secret, IsSaved
  <1>4. rows \in [Ids -> Storable \cup {None}] /\ WellKeyed(rows)
    BY <1>3 DEF WellKeyed
  <1>5. \A i \in Ids : u.saved_profiles[i] # None <=> rows[i] # None
    BY <1>3
  <1>6. rows # u.saved_profiles => storage_available(u)
    BY <1>3 DEF StorageLinked, NoRows
  <1>7. m \in u.models /\ u.active_provider # None
    BY DEF confirm_model_selection_ok
  <1> HIDE DEF v, rows, a
  <1>8. v \in UiType
    BY <1>1, <1>2, <1>4, ZenonT(40)
  <1>9. WellKeyed(v.saved_profiles)
    BY <1>1, <1>4
  <1>10. SavedLinked(v)
    BY <1>1, <1>2, <1>5 DEF SavedLinked, IsSaved, ActiveIs
  <1>11. ModelsLinked(v)
    BY <1>1, <1>2, <1>7 DEF ModelsLinked
  <1>12. StorageLinked(v) /\ PendingLinked(v)
    BY <1>1, <1>6 DEF StorageLinked, storage_available, PendingLinked
  <1>13. QED
    BY <1>8, <1>9, <1>10, <1>11, <1>12 DEF v

\* Asking to delete a row of an available store, and giving that up.
LEMMA DeletionPreserves ==
  ASSUME NEW u, ConsistentState(u), NEW id, NEW v,
         \/ id \in Ids /\ begin_profile_deletion_ok(u, id) /\ v = begin_profile_deletion(u, id)
         \/ v = profile_deletion_failed(u, id)
  PROVE  ConsistentState(v)
  <1> USE ConstantsAssumption
      DEF ConsistentState, WellTyped, UiType, begin_profile_deletion, begin_profile_deletion_ok,
          profile_deletion_failed
  <1>1. WellTyped(v)
    BY DEF WellKeyed
  <1>2. SavedLinked(v) /\ ModelsLinked(v)
    BY DEF SavedLinked, IsSaved, ActiveIs, ModelsLinked
  <1>3. StorageLinked(v) /\ PendingLinked(v)
    BY DEF StorageLinked, storage_available, PendingLinked
  <1>4. QED
    BY <1>1, <1>2, <1>3

\* A confirmed deletion removes the row and every reference to it.
LEMMA ConfirmDeletionPreserves ==
  ASSUME NEW u, ConsistentState(u), NEW id \in Ids, confirm_profile_deletion_ok(u, id)
  PROVE  ConsistentState(confirm_profile_deletion(u, id))
  <1> DEFINE v == confirm_profile_deletion(u, id)
             rows == [u.saved_profiles EXCEPT ![id] = None]
             Cleared(x) == IF x = id THEN None ELSE x
             sel == Cleared(u.selected_saved)
             per == Cleared(u.persisted_active)
             act == Cleared(u.active_saved)
  <1> USE ConstantsAssumption DEF ConsistentState, WellTyped, UiType
  <1>1. v = [u EXCEPT !.saved_profiles = rows, !.selected_saved = sel,
                      !.persisted_active = per, !.active_saved = act,
                      !.pending_deletion = None]
    BY DEF confirm_profile_deletion
  <1>2. rows \in [Ids -> Storable \cup {None}] /\ WellKeyed(rows)
    BY DEF WellKeyed
  <1>3. sel \in Ids \cup {None} /\ per \in Ids \cup {None} /\ act \in Ids \cup {None}
    OBVIOUS
  <1>4. \A x \in {sel, per} : x # None => x \in Ids /\ rows[x] # None
    BY DEF SavedLinked, IsSaved
  <1>5. act # None => per = act /\ ActiveIs(u, act)
    BY DEF SavedLinked
  <1>6. storage_available(u)
    BY DEF confirm_profile_deletion_ok, StorageLinked, SavedLinked, IsSaved
  <1> HIDE DEF v, rows, sel, per, act
  <1>7. v \in UiType
    BY <1>1, <1>2, <1>3, ZenonT(40)
  <1>8. WellKeyed(v.saved_profiles)
    BY <1>1, <1>2
  <1>9. SavedLinked(v)
    BY <1>1, <1>4, <1>5 DEF SavedLinked, IsSaved, ActiveIs
  <1>10. ModelsLinked(v)
    BY <1>1 DEF ModelsLinked
  <1>11. StorageLinked(v) /\ PendingLinked(v)
    BY <1>1, <1>6 DEF StorageLinked, storage_available, PendingLinked
  <1>12. QED
    BY <1>7, <1>8, <1>9, <1>10, <1>11 DEF v

\* The methods that only move the status and the sequence number.
LEMMA TranslationPreserves ==
  ASSUME NEW u, ConsistentState(u), NEW v,
         \/ v = begin_translation(u)       \/ v = request_cancellation(u)
         \/ v = clear_workspace(u)         \/ v = record_client_error(u)
         \/ v = record_operation_failure(u) \/ v = record_stream_error(u)
         \/ v = complete_document_translation(u) \/ v = cancel_document_translation(u)
         \/ v = pause_document_translation(u)    \/ v = fail_document_translation(u)
  PROVE  ConsistentState(v)
  <1>1. \A s \in Statuses \ {"Connecting"} : ConsistentState([u EXCEPT !.status = s])
    <2>1. TAKE s \in Statuses \ {"Connecting"}
    <2>2. u.last_sequence \in Nat \cup {None}
          /\ [u EXCEPT !.status = s] = [u EXCEPT !.status = s, !.last_sequence = u.last_sequence]
      BY DEF ConsistentState, WellTyped, UiType
    <2>3. QED
      BY <2>2, StatusPreserves
  <1>2. CASE v = begin_translation(u)
    <2>1. "Translating" \in Statuses \ {"Connecting"}
      BY DEF Statuses
    <2>2. QED
      BY <1>2, <2>1, StatusPreserves DEF begin_translation
  <1>3. CASE v = clear_workspace(u)
    <2> DEFINE s == IF u.active_provider # None THEN "Ready" ELSE "Disconnected"
    <2>1. s \in Statuses \ {"Connecting"} /\ v = [u EXCEPT !.status = s, !.last_sequence = None]
      BY <1>3 DEF Statuses, clear_workspace, ConsistentState, WellTyped, UiType
    <2> HIDE DEF s
    <2>2. QED
      BY <2>1, StatusPreserves
  <1>4. CASE ~(v = begin_translation(u) \/ v = clear_workspace(u))
    <2>1. \E s \in Statuses \ {"Connecting"} : v = [u EXCEPT !.status = s]
      <3>1. {"Cancelling", "Completed", "Cancelled", "Ready", "Failed"}
              \subseteq Statuses \ {"Connecting"}
        BY DEF Statuses
      <3>2. \E s \in {"Cancelling", "Completed", "Cancelled", "Ready", "Failed"} :
              v = [u EXCEPT !.status = s]
        BY <1>4, Zenon
           DEF request_cancellation, record_client_error, record_operation_failure,
               record_stream_error, complete_document_translation,
               cancel_document_translation, pause_document_translation,
               fail_document_translation
      <3>3. QED
        BY <3>1, <3>2, Zenon
    <2>2. QED
      BY <1>1, <2>1
  <1>5. QED
    BY <1>2, <1>3, <1>4

StreamKinds == {"Started", "TextDelta", "Completed", "Cancelled", "Failed"}

\* A stream event never leads to Connecting: OnTranslation preserves consistency.
LEMMA OnTranslationPreserves ==
  ASSUME NEW u, ConsistentState(u), NEW k \in StreamKinds, NEW n \in Nat
  PROVE  ConsistentState(OnTranslation(u, k, n))
  <1>1. CASE apply_translation_event_ok(u, k, n)
    <2> DEFINE s == CASE k = "Started" -> IF u.status = "Cancelling" THEN u.status
                                           ELSE "Translating"
                      [] k = "TextDelta" -> u.status
                      [] OTHER -> k
        v == apply_translation_event(u, k, n)
        w == [u EXCEPT !.status = s, !.last_sequence = n]
    <2> USE DEF ConsistentState, WellTyped, UiType
    <2>1. v = w
      BY DEF apply_translation_event
    <2>2. s \in Statuses
      BY DEF StreamKinds, Statuses
    <2>3. k # "TextDelta" => s # "Connecting"
      BY DEF StreamKinds
    <2>4. CASE s # "Connecting"
      <3> HIDE DEF s
      <3>1. ConsistentState(w)
        BY <2>2, <2>4, StatusPreserves DEF w
      <3>2. QED
        BY <1>1, <2>1, <3>1 DEF OnTranslation
    <2>5. CASE s = "Connecting"
      \* A delta while connecting leaves the status alone.
      <3>1. s = u.status /\ u.status = "Connecting"
        BY <2>3, <2>5
      <3> HIDE DEF s
      <3>2. WellTyped(w)
        <4>1. w \in UiType
          BY <2>2, ZenonT(40)
        <4>2. WellKeyed(w.saved_profiles)
          OBVIOUS
        <4>3. QED
          BY <4>1, <4>2
      <3>3. SavedLinked(w) /\ ModelsLinked(w)
        BY <3>1 DEF SavedLinked, IsSaved, ActiveIs, ModelsLinked
      <3>4. StorageLinked(w) /\ PendingLinked(w)
        BY <3>1 DEF StorageLinked, storage_available, PendingLinked
      <3>5. QED
        BY <1>1, <2>1, <3>2, <3>3, <3>4 DEF OnTranslation
    <2>6. QED
      BY <2>4, <2>5
  <1>2. CASE ~apply_translation_event_ok(u, k, n)
    BY <1>2, TranslationPreserves DEF OnTranslation
  <1>3. QED
    BY <1>1, <1>2

\* `Rejected` and `Stopped` compose the worker's state with a failure.
LEMMA RejectedStoppedPreserve ==
  ASSUME NEW u, ConsistentState(u)
  PROVE  ConsistentState(OnRejected(u)) /\ ConsistentState(OnStopped(u))
  <1>1. ConsistentState(mark_worker_unavailable(u))
    BY WorkerPreserves
  <1>2. ConsistentState(provider_failed(mark_worker_unavailable(u)))
        /\ ConsistentState(provider_failed(u))
        /\ ConsistentState(record_client_error(mark_worker_unavailable(u)))
    BY <1>1, ProviderFailedPreserves, TranslationPreserves
  <1>3. QED
    BY <1>1, <1>2 DEF OnRejected, OnStopped

\* A document job's report moves only the status.
LEMMA DocumentUpdatePreserves ==
  ASSUME NEW u, ConsistentState(u),
         NEW s \in {"Pending", "Running", "Paused", "Completed", "Cancelled", "Failed"}
  PROVE  ConsistentState(OnDocumentJobUpdated(u, s))
  BY TranslationPreserves DEF OnDocumentJobUpdated, begin_document_translation

---------------------------------------------------------------------------
(* The inductive step, one per action.                                     *)

\* Every step of the UI thread preserves consistency.
LEMMA ConsistentInductive == Consistent /\ [Next]_ui => Consistent'
  <1> SUFFICES ASSUME ConsistentState(ui), [Next]_ui PROVE ConsistentState(ui')
    BY DEF Consistent
  <1>1. ASSUME NEW p \in Profiles, NEW r \in BOOLEAN, ClickConnect(p, r)
        PROVE  ConsistentState(ui')
    <2>1. begin_provider_connection_ok(ui, p, r)
          => ConsistentState(begin_provider_connection(ui, p, r))
      BY BeginConnectionPreserves
    <2>2. QED
      BY <1>1, <2>1, ProviderFailedPreserves DEF ClickConnect
  <1>2. CASE ClickRemove
    <2> DEFINE id == ui.selected_saved
    <2>1. id \in Ids /\ begin_profile_deletion_ok(ui, id)
      BY <1>2 DEF ClickRemove, begin_profile_deletion_ok, IsSaved
    <2>2. ConsistentState(begin_profile_deletion(ui, id))
      BY <2>1, DeletionPreserves
    <2>3. QED
      BY <1>2, <2>2, DeletionPreserves DEF ClickRemove
  <1>3. ASSUME NEW id \in Ids \cup {None}, ChooseSavedProfile(id)
        PROVE  ConsistentState(ui')
    BY <1>3, SelectSavedPreserves DEF ChooseSavedProfile
  <1>4. ASSUME NEW m \in Models, ChooseModel(m)
        PROVE  ConsistentState(ui')
    <2>1. ConsistentState(begin_model_selection(ui, m))
      BY <1>4, BeginModelPreserves DEF ChooseModel
    <2>2. QED
      BY <1>4, <2>1, ModelFailedPreserves DEF ChooseModel
  <1>5. CASE ClickTranslate
    <2>1. ConsistentState(begin_translation(ui))
      BY TranslationPreserves
    <2>2. QED
      BY <1>5, <2>1, TranslationPreserves DEF ClickTranslate
  <1>6. CASE ClickStop
    <2>1. ConsistentState(request_cancellation(ui))
      BY TranslationPreserves
    <2>2. QED
      BY <1>6, <2>1, TranslationPreserves DEF ClickStop
  <1>7. CASE ClickClear
    BY <1>7, TranslationPreserves DEF ClickClear
  <1>8. CASE StartupEvent
    <2>1. ASSUME NEW rows \in Rows, NEW id \in Ids \cup {None}, WellKeyed(rows)
          PROVE  ConsistentState(OnProfilesRestored(ui, rows, id))
      BY <2>1, RestorePreserves, TranslationPreserves DEF OnProfilesRestored
    <2>2. QED
      BY <1>8, <2>1, WorkerPreserves, RejectedStoppedPreserve DEF StartupEvent
  <1>9. CASE ConnectionEvent
    <2>1. ASSUME NEW p \in Profiles, NEW ms \in SUBSET Models, NEW s \in Storable \cup {None}
          PROVE  ConsistentState(OnConnected(ui, p, ms, s))
      BY ConnectedPreserves, ProviderFailedPreserves DEF OnConnected
    <2>2. ASSUME NEW p \in Profiles
          PROVE  ConsistentState(OnProviderRejected(ui, p))
      BY ProviderFailedPreserves DEF OnProviderRejected
    <2>3. ASSUME NEW p \in Storable
          PROVE  ConsistentState(OnProfileHealthUpdated(ui, p))
      BY HealthPreserves DEF OnProfileHealthUpdated
    <2>4. QED
      BY <1>9, <2>1, <2>2, <2>3 DEF ConnectionEvent
  <1>10. CASE ProfileEvent
    <2>1. ASSUME NEW id \in Ids, NEW m \in Models, NEW s \in Storable \cup {None}
          PROVE  ConsistentState(OnModelSelected(ui, id, m, s))
      BY ConfirmModelPreserves, ModelFailedPreserves DEF OnModelSelected
    <2>2. ASSUME NEW id \in Ids, NEW m \in Models
          PROVE  ConsistentState(OnModelSelectionRejected(ui, id, m))
      BY ModelFailedPreserves DEF OnModelSelectionRejected
    <2>3. ASSUME NEW id \in Ids
          PROVE  /\ ConsistentState(OnProfileDeleted(ui, id))
                 /\ ConsistentState(OnProfileDeletionRejected(ui, id))
      BY ConfirmDeletionPreserves, DeletionPreserves
         DEF OnProfileDeleted, OnProfileDeletionRejected
    <2>4. QED
      BY <1>10, <2>1, <2>2, <2>3, StorageUnavailablePreserves DEF ProfileEvent
  <1>11. CASE FailureEvent
    BY <1>11, TranslationPreserves, RejectedStoppedPreserve DEF FailureEvent
  <1>12. CASE TranslationEvent
    <2>1. 0..MaxSequence \subseteq Nat
      BY MaxSequenceAssumption
    <2>2. QED
      BY <1>12, <2>1, OnTranslationPreserves, DocumentUpdatePreserves
         DEF TranslationEvent, StreamKinds
  <1>13. CASE UNCHANGED ui
    BY <1>13
  <1>14. QED
    BY <1>1, <1>2, <1>3, <1>4, <1>5, <1>6, <1>7, <1>8, <1>9, <1>10, <1>11, <1>12, <1>13
       DEF Next

\* Whatever the worker reports and the user does, in whatever order, the
\* references between the parts of AppState stay intact.
THEOREM AlwaysConsistent == Spec => []Consistent
  <1>1. Init => Consistent
    BY DefaultConsistent DEF Init, Consistent
  <1>2. QED
    BY <1>1, ConsistentInductive, PTL DEF Spec

\* Every field of AppState keeps its type.
THEOREM TypeCorrect == Spec => []TypeOK
  <1>1. Consistent => TypeOK
    BY DEF Consistent, ConsistentState, TypeOK
  <1>2. QED
    BY <1>1, AlwaysConsistent, PTL

\* No reference into the list of saved profiles dangles.
THEOREM NoDanglingProfile == Spec => []SavedLinks
  <1>1. Consistent => SavedLinks
    BY DEF Consistent, ConsistentState, SavedLinks
  <1>2. QED
    BY <1>1, AlwaysConsistent, PTL

\* A selected or pending model was offered by the active provider.
THEOREM OnlyOfferedModels == Spec => []ModelLinks
  <1>1. Consistent => ModelLinks
    BY DEF Consistent, ConsistentState, ModelLinks
  <1>2. QED
    BY <1>1, AlwaysConsistent, PTL

\* Degraded storage leaves no phantom profile.
THEOREM DegradedStorageIsEmpty == Spec => []StorageLinks
  <1>1. Consistent => StorageLinks
    BY DEF Consistent, ConsistentState, StorageLinks
  <1>2. QED
    BY <1>1, AlwaysConsistent, PTL

\* Connecting is shown only while a profile waits for its answer.
THEOREM ConnectingIsPending == Spec => []ConnectingHasPending
  <1>1. Consistent => ConnectingHasPending
    BY DEF Consistent, ConsistentState, ConnectingHasPending
  <1>2. QED
    BY <1>1, AlwaysConsistent, PTL

---------------------------------------------------------------------------
(* Only a committed connection changes the provider or the offered models. *)

\* v shows the provider (by id) and the models that u shows.
Kept(u, v) ==
  /\ v.models = u.models
  /\ \/ v.active_provider = u.active_provider
     \/ u.active_provider # None /\ v.active_provider # None
        /\ v.active_provider.id = u.active_provider.id

\* Every method but provider_connected keeps the provider and the models.
LEMMA MethodsKeep ==
  ASSUME NEW u, ConsistentState(u)
  PROVE  /\ Kept(u, provider_failed(u)) /\ Kept(u, profile_storage_unavailable(u))
         /\ Kept(u, mark_worker_ready(u)) /\ Kept(u, mark_worker_unavailable(u))
         /\ Kept(u, record_client_error(u)) /\ Kept(u, record_operation_failure(u))
         /\ Kept(u, record_stream_error(u)) /\ Kept(u, begin_translation(u))
         /\ Kept(u, request_cancellation(u)) /\ Kept(u, clear_workspace(u))
         /\ Kept(u, complete_document_translation(u)) /\ Kept(u, cancel_document_translation(u))
         /\ Kept(u, pause_document_translation(u)) /\ Kept(u, fail_document_translation(u))
         /\ \A x, y : /\ Kept(u, restore_saved_profiles(u, x, y))
                      /\ Kept(u, begin_provider_connection(u, x, y))
                      /\ Kept(u, apply_translation_event(u, x, y))
         /\ \A x : /\ Kept(u, select_saved_profile(u, x)) /\ Kept(u, begin_model_selection(u, x))
                   /\ Kept(u, model_selection_failed(u, x))
                   /\ Kept(u, begin_profile_deletion(u, x))
                   /\ Kept(u, confirm_profile_deletion(u, x))
                   /\ Kept(u, profile_deletion_failed(u, x))
  <1> USE DEF ConsistentState, WellTyped, UiType, Kept
  <1>1. /\ Kept(u, provider_failed(u)) /\ Kept(u, profile_storage_unavailable(u))
        /\ Kept(u, mark_worker_ready(u)) /\ Kept(u, mark_worker_unavailable(u))
        /\ Kept(u, clear_workspace(u))
    BY DEF provider_failed, profile_storage_unavailable, mark_worker_ready,
           mark_worker_unavailable, clear_workspace
  <1>2. /\ Kept(u, record_client_error(u)) /\ Kept(u, record_operation_failure(u))
        /\ Kept(u, record_stream_error(u)) /\ Kept(u, begin_translation(u))
        /\ Kept(u, request_cancellation(u))
        /\ Kept(u, complete_document_translation(u)) /\ Kept(u, cancel_document_translation(u))
        /\ Kept(u, pause_document_translation(u)) /\ Kept(u, fail_document_translation(u))
    BY DEF record_client_error, record_operation_failure, record_stream_error,
           begin_translation, request_cancellation, complete_document_translation,
           cancel_document_translation, pause_document_translation, fail_document_translation
  <1>3. \A x, y : /\ Kept(u, restore_saved_profiles(u, x, y))
                 /\ Kept(u, begin_provider_connection(u, x, y))
                 /\ Kept(u, apply_translation_event(u, x, y))
    BY DEF restore_saved_profiles, begin_provider_connection, apply_translation_event
  <1>4. \A x : /\ Kept(u, select_saved_profile(u, x)) /\ Kept(u, begin_model_selection(u, x))
              /\ Kept(u, model_selection_failed(u, x))
              /\ Kept(u, begin_profile_deletion(u, x))
              /\ Kept(u, confirm_profile_deletion(u, x))
              /\ Kept(u, profile_deletion_failed(u, x))
    BY DEF select_saved_profile, begin_model_selection, model_selection_failed,
           begin_profile_deletion, confirm_profile_deletion, profile_deletion_failed
  <1> HIDE DEF ConsistentState, WellTyped, UiType, Kept
  <1>5. QED
    BY <1>1, <1>2, <1>3, <1>4

\* A health report and a confirmed model keep the id of the active provider.
LEMMA PayloadMethodsKeep ==
  ASSUME NEW u, ConsistentState(u)
  PROVE  /\ \A p \in Storable : Kept(u, OnProfileHealthUpdated(u, p))
         /\ \A id \in Ids, m \in Models, s \in Storable \cup {None} :
              Kept(u, OnModelSelected(u, id, m, s))
  <1> USE ConstantsAssumption DEF ConsistentState, WellTyped, UiType
  <1>1. ASSUME NEW p \in Storable
        PROVE  Kept(u, OnProfileHealthUpdated(u, p))
    <2>1. p # None
      BY DEF Storable
    <2>2. QED
      BY <2>1 DEF Kept, OnProfileHealthUpdated, update_saved_profile_health
  <1>2. ASSUME NEW id \in Ids, NEW m \in Models, NEW s \in Storable \cup {None}
        PROVE  Kept(u, OnModelSelected(u, id, m, s))
    <2>1. CASE ActiveIs(u, id) /\ confirm_model_selection_ok(u, id, m, s)
      <3> DEFINE a == WithModel(u.active_provider, m)
      <3>1. a # None /\ a.id = u.active_provider.id
        BY <2>1 DEF ActiveIs, WithModel, Profiles
      <3>2. u.active_provider # None
        BY <2>1 DEF ActiveIs
      <3> HIDE DEF a
      <3>3. Kept(u, confirm_model_selection(u, id, m, s))
        BY <3>1, <3>2 DEF confirm_model_selection, Kept, a
      <3>4. QED
        BY <2>1, <3>3 DEF OnModelSelected
    <2>2. CASE ~(ActiveIs(u, id) /\ confirm_model_selection_ok(u, id, m, s))
      BY <2>2, MethodsKeep DEF OnModelSelected, Kept
    <2>3. QED
      BY <2>1, <2>2
  <1>3. QED
    BY <1>1, <1>2

\* A connection is committed as a whole, or the provider is kept.
LEMMA ConnectedCommits ==
  ASSUME NEW u, ConsistentState(u), NEW p \in Profiles, NEW ms \in SUBSET Models,
         NEW s \in Storable \cup {None}
  PROVE  Kept(u, OnConnected(u, p, ms, s)) \/ Committed(u, OnConnected(u, p, ms, s))
  <1>1. CASE provider_connected_ok(u, p, ms, s)
    <2> DEFINE v == provider_connected(u, p, ms, s)
    <2>1. /\ v.models = ms /\ v.active_provider = p /\ v.pending_provider = None
          /\ v.selected_model = p.model /\ v.pending_model = None
      BY DEF provider_connected, ConsistentState, WellTyped, UiType
    <2>2. /\ u.pending_provider # None
          /\ p = WithModel(u.pending_provider, FilteredModel(u.pending_provider, ms))
      BY <1>1 DEF provider_connected_ok, MatchesPending
    <2> HIDE DEF v
    <2>3. Committed(u, v)
      BY <2>1, <2>2 DEF Committed
    <2>4. QED
      BY <1>1, <2>3 DEF OnConnected, v
  <1>2. CASE ~provider_connected_ok(u, p, ms, s)
    BY <1>2, MethodsKeep DEF OnConnected, Kept
  <1>3. QED
    BY <1>1, <1>2

\* Every step keeps the provider and the models, or commits the pending profile.
LEMMA StepKeepsOrCommits ==
  ASSUME ConsistentState(ui), Next
  PROVE  Kept(ui, ui') \/ Committed(ui, ui')
  <1> DEFINE Same(v, w) == Kept(ui, v) /\ Kept(v, w) => Kept(ui, w)
  <1>0. \A v, w : Same(v, w)
    BY DEF Kept
  <1>1. ASSUME NEW p \in Profiles, NEW r \in BOOLEAN, ClickConnect(p, r)
        PROVE  Kept(ui, ui')
    <2>1. begin_provider_connection_ok(ui, p, r)
          => ConsistentState(begin_provider_connection(ui, p, r))
      BY BeginConnectionPreserves
    <2>2. QED
      BY <1>0, <1>1, <2>1, MethodsKeep DEF ClickConnect
  <1>2. CASE ClickRemove
    <2> DEFINE id == ui.selected_saved
    <2>1. id \in Ids /\ begin_profile_deletion_ok(ui, id)
      BY <1>2 DEF ClickRemove, begin_profile_deletion_ok, IsSaved
    <2>2. ConsistentState(begin_profile_deletion(ui, id))
      BY <2>1, DeletionPreserves
    <2>3. QED
      BY <1>0, <1>2, <2>2, MethodsKeep DEF ClickRemove
  <1>3. ASSUME NEW id \in Ids \cup {None}, ChooseSavedProfile(id)
        PROVE  Kept(ui, ui')
    BY <1>3, MethodsKeep DEF ChooseSavedProfile
  <1>4. ASSUME NEW m \in Models, ChooseModel(m)
        PROVE  Kept(ui, ui')
    <2>1. ConsistentState(begin_model_selection(ui, m))
      BY <1>4, BeginModelPreserves DEF ChooseModel
    <2>2. QED
      BY <1>0, <1>4, <2>1, MethodsKeep DEF ChooseModel
  <1>5. CASE ClickTranslate \/ ClickStop \/ ClickClear
    <2>1. ConsistentState(begin_translation(ui)) /\ ConsistentState(request_cancellation(ui))
      BY TranslationPreserves
    <2>2. CASE ClickStop
      <3> DEFINE v == IF ui.status = "Connecting" THEN ui ELSE request_cancellation(ui)
      <3>1. ConsistentState(v) /\ Kept(ui, v)
        BY <2>1, MethodsKeep DEF Kept
      <3>2. Kept(v, record_client_error(v)) /\ (ui' = v \/ ui' = record_client_error(v))
        BY <2>2, <3>1, MethodsKeep DEF ClickStop
      <3>3. QED
        BY <1>0, <3>1, <3>2
    <2>3. QED
      BY <1>0, <1>5, <2>1, <2>2, MethodsKeep DEF ClickTranslate, ClickClear
  <1>6. Kept(ui, OnRejected(ui)) /\ Kept(ui, OnStopped(ui))
    <2>1. ConsistentState(mark_worker_unavailable(ui))
      BY WorkerPreserves
    <2>2. Kept(ui, ui)
      BY DEF Kept
    <2>3. QED
      BY <1>0, <2>1, <2>2, MethodsKeep DEF OnRejected, OnStopped
  <1>7. CASE StartupEvent
    BY <1>6, <1>7, MethodsKeep DEF StartupEvent, OnProfilesRestored
  <1>8. CASE ConnectionEvent
    <2>1. ASSUME NEW p \in Profiles
          PROVE  Kept(ui, OnProviderRejected(ui, p))
      BY MethodsKeep DEF OnProviderRejected, Kept
    <2>2. QED
      BY <1>8, <2>1, ConnectedCommits, PayloadMethodsKeep DEF ConnectionEvent
  <1>9. CASE ProfileEvent
    <2>1. ASSUME NEW id \in Ids, NEW m \in Models
          PROVE  Kept(ui, OnModelSelectionRejected(ui, id, m))
      BY MethodsKeep DEF OnModelSelectionRejected, Kept
    <2>2. ASSUME NEW id \in Ids
          PROVE  /\ Kept(ui, OnProfileDeleted(ui, id))
                 /\ Kept(ui, OnProfileDeletionRejected(ui, id))
      BY MethodsKeep DEF OnProfileDeleted, OnProfileDeletionRejected, Kept
    <2>3. QED
      BY <1>9, <2>1, <2>2, MethodsKeep, PayloadMethodsKeep DEF ProfileEvent
  <1>10. CASE FailureEvent
    BY <1>6, <1>10, MethodsKeep DEF FailureEvent
  <1>11. CASE TranslationEvent
    <2>1. \A k, n : Kept(ui, OnTranslation(ui, k, n))
      BY MethodsKeep DEF OnTranslation
    <2>2. \A s \in {"Pending", "Running", "Paused", "Completed", "Cancelled", "Failed"} :
            Kept(ui, OnDocumentJobUpdated(ui, s))
      BY MethodsKeep DEF OnDocumentJobUpdated, begin_document_translation, Kept
    <2>3. QED
      BY <1>11, <2>1, <2>2 DEF TranslationEvent
  <1>12. QED
    BY <1>1, <1>2, <1>3, <1>4, <1>5, <1>7, <1>8, <1>9, <1>10, <1>11 DEF Next

\* The provider, its models and its selected model are switched together or not
\* at all, whatever the worker reports.
THEOREM SwitchIsAtomic == Spec => AtomicSwitch
  <1>1. Consistent /\ [Next]_ui => [Switched(ui, ui') => Committed(ui, ui')]_ui
    <2> SUFFICES ASSUME ConsistentState(ui), Next, Switched(ui, ui')
                 PROVE  Committed(ui, ui')
      BY DEF Consistent
    <2>1. ~Kept(ui, ui')
      BY DEF Switched, Kept, ActiveIs
    <2>2. QED
      BY <2>1, StepKeepsOrCommits
  <1>2. QED
    BY <1>1, AlwaysConsistent, PTL DEF Spec, AtomicSwitch
============================================================================
