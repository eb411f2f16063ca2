---------------------------- MODULE AppStateOps ----------------------------
(***************************************************************************)
(* The toolkit-independent reducer `AppState` (src/src/model.rs) as pure   *)
(* operators on a state record u.  A method that can fail is split in two: *)
(* M_ok(u, ...) holds when the method returns Ok, and M(u, ...) is the     *)
(* state it leaves then (on Err it leaves u).  The last section composes   *)
(* the methods the way `apply_worker_event` (src/src/main.rs) does.        *)
(*                                                                         *)
(* Left out of u: texts, languages, presets, counters, theme and locale,   *)
(* which no method reads to decide anything; the wording of errors; and    *)
(* the display order of saved_profiles (sort_saved_profiles).              *)
(***************************************************************************)
EXTENDS Naturals

CONSTANTS
  Ids,        \* stable provider profile identifiers
  Cfgs,       \* everything else a user edits in a profile (endpoint, name...)
  Disabled,   \* the configurations whose `enabled` flag is off
  Models,     \* model identifiers
  Secrets,    \* namespaces a profile's secret_ref may have; "none" when absent
  None        \* Rust's None

Profiles == [id : Ids, cfg : Cfgs, model : Models \cup {None}, secret : Secrets]
\* A profile that may be stored: its secret_ref is absent or persistent.
Storable == {p \in Profiles : p.secret # "session"}

ASSUME ConstantsAssumption ==
  /\ Disabled \subseteq Cfgs
  /\ Secrets \subseteq {"none", "session", "persistent"}
  /\ None \notin Ids /\ None \notin Models /\ None \notin Profiles /\ None \notin Nat

Statuses == {"Disconnected", "Connecting", "Ready", "Translating", "Cancelling",
             "Completed", "Cancelled", "Failed"}
Terminal(s) == s \in {"Completed", "Cancelled", "Failed"}
Busy(u)     == u.status \in {"Translating", "Cancelling"}
enabled(p)  == p.cfg \notin Disabled

\* The fields of AppState that its methods read or write.
UiType ==
  [worker_startup    : {"Pending", "Ready", "Failed"},
   active_provider   : Profiles \cup {None},
   pending_provider  : Profiles \cup {None},
   will_be_saved     : BOOLEAN,
   saved_profiles    : [Ids -> Storable \cup {None}],
   selected_saved    : Ids \cup {None},
   persisted_active  : Ids \cup {None},
   active_saved      : Ids \cup {None},
   storage_status    : {"Pending", "Available", "Unavailable"},
   pending_deletion  : Ids \cup {None},
   models            : SUBSET Models,
   selected_model    : Models \cup {None},
   pending_model     : Models \cup {None},
   status            : Statuses,
   last_sequence     : Nat \cup {None}]

NoRows == [i \in Ids |-> None]

DefaultState ==
  [worker_startup |-> "Pending", active_provider |-> None, pending_provider |-> None,
   will_be_saved |-> FALSE, saved_profiles |-> NoRows, selected_saved |-> None,
   persisted_active |-> None, active_saved |-> None, storage_status |-> "Pending",
   pending_deletion |-> None, models |-> {}, selected_model |-> None,
   pending_model |-> None, status |-> "Disconnected", last_sequence |-> None]

mark_worker_ready(u)       == [u EXCEPT !.worker_startup = "Ready"]
mark_worker_unavailable(u) == [u EXCEPT !.worker_startup = "Failed"]

IsSaved(u, id) == id \in Ids /\ u.saved_profiles[id] # None
storage_available(u) == u.storage_status = "Available"

WithModel(p, m) == [p EXCEPT !.model = m]
\* The model a profile asks for, dropped when the provider does not offer it.
FilteredModel(p, ms) == IF p.model \in ms THEN p.model ELSE None
profiles_match_except_secret(p, s) ==
  p.id = s.id /\ p.cfg = s.cfg /\ p.model = s.model

---------------------------------------------------------------------------
(* Start-up and storage.                                                   *)

\* rows is a function of the id, so the duplicate-id check cannot fail here.
restore_saved_profiles_ok(u, rows, id) ==
  /\ u.status = "Disconnected"
  /\ u.active_provider = None /\ u.pending_provider = None /\ u.pending_deletion = None
  /\ \A i \in Ids : rows[i] # None => rows[i].secret # "session"
  /\ id # None => rows[id] # None /\ enabled(rows[id])

restore_saved_profiles(u, rows, id) ==
  [u EXCEPT !.saved_profiles = rows, !.selected_saved = id, !.persisted_active = id,
            !.active_saved = None, !.storage_status = "Available"]

record_client_error(u)      == [u EXCEPT !.status = "Failed"]
record_operation_failure(u) == [u EXCEPT !.status = "Failed"]
record_stream_error(u)      == [u EXCEPT !.status = "Cancelling"]

\* Fault: the pending profile is dropped but Connecting stays.
provider_failed_still_connecting(u) ==
  [u EXCEPT !.pending_provider = None, !.will_be_saved = FALSE,
            !.status = IF Busy(u) \/ @ = "Connecting" THEN @ ELSE "Failed"]

provider_failed(u) ==
  [u EXCEPT !.pending_provider = None, !.will_be_saved = FALSE,
            !.status = IF Busy(u) THEN @
                       ELSE IF u.active_provider # None THEN "Ready" ELSE "Failed"]

\* Fault: the deletion that waited for the store is not dropped.
profile_storage_unavailable_deleting(u) ==
  provider_failed([u EXCEPT !.saved_profiles = NoRows, !.selected_saved = None,
                            !.persisted_active = None, !.active_saved = None,
                            !.storage_status = "Unavailable"])

profile_storage_unavailable(u) ==
  provider_failed([u EXCEPT !.saved_profiles = NoRows, !.selected_saved = None,
                            !.persisted_active = None, !.active_saved = None,
                            !.pending_deletion = None, !.storage_status = "Unavailable"])

select_saved_profile_ok(u, id) ==
  /\ u.pending_deletion = None /\ u.pending_model = None
  /\ u.status # "Connecting" /\ ~Busy(u)
  /\ id # None => IsSaved(u, id)

select_saved_profile(u, id) == [u EXCEPT !.selected_saved = id]

update_saved_profile_health_ok(u, p) == IsSaved(u, p.id)

update_saved_profile_health(u, p) ==
  [u EXCEPT !.saved_profiles[p.id] = p,
            !.active_provider = IF @ # None /\ @.id = p.id THEN p ELSE @]

---------------------------------------------------------------------------
(* Connecting a provider.                                                  *)

begin_provider_connection_ok(u, p, remember) ==
  /\ enabled(p) /\ ~Busy(u) /\ u.status # "Connecting"
  /\ u.pending_deletion = None /\ u.pending_model = None
  /\ remember => storage_available(u)

begin_provider_connection(u, p, remember) ==
  [u EXCEPT !.pending_provider = p, !.will_be_saved = remember, !.status = "Connecting"]

\* Fault: any result for the pending identifier is taken for its answer.
MatchesPending_by_id(u, p, ms) == u.pending_provider # None /\ p.id = u.pending_provider.id

\* The result answers the connection that is pending now.
MatchesPending(u, p, ms) ==
  /\ u.pending_provider # None
  /\ p = WithModel(u.pending_provider, FilteredModel(u.pending_provider, ms))

provider_connected_ok(u, p, ms, s) ==
  /\ MatchesPending(u, p, ms)
  /\ u.will_be_saved = (s # None)
  /\ s # None => s.secret # "session" /\ profiles_match_except_secret(p, s)

\* Fault: a model asked of the previous provider stays pending.
provider_connected_keeping_request(u, p, ms, s) ==
  LET id == IF s = None THEN None ELSE s.id IN
  [u EXCEPT !.active_provider = p, !.pending_provider = None, !.will_be_saved = FALSE,
            !.active_saved = id,
            !.saved_profiles = IF s = None THEN @ ELSE [@ EXCEPT ![s.id] = s],
            !.selected_saved = IF s = None THEN @ ELSE id,
            !.persisted_active = IF s = None THEN @ ELSE id,
            !.models = ms, !.selected_model = p.model, !.status = "Ready"]

provider_connected(u, p, ms, s) ==
  LET id == IF s = None THEN None ELSE s.id IN
  [u EXCEPT !.active_provider = p, !.pending_provider = None, !.will_be_saved = FALSE,
            !.active_saved = id,
            !.saved_profiles = IF s = None THEN @ ELSE [@ EXCEPT ![s.id] = s],
            !.selected_saved = IF s = None THEN @ ELSE id,
            !.persisted_active = IF s = None THEN @ ELSE id,
            !.models = ms, !.selected_model = p.model, !.pending_model = None,
            !.status = "Ready"]

---------------------------------------------------------------------------
(* Selecting a model and deleting a saved profile.                         *)

begin_model_selection_ok(u, m) ==
  /\ u.status # "Connecting" /\ ~Busy(u)
  /\ u.pending_deletion = None /\ u.active_provider # None /\ m \in u.models

begin_model_selection(u, m) == [u EXCEPT !.pending_model = m]

\* Fault: the stored row is not compared with the active provider.
confirm_model_selection_ok_unmatched(u, id, m, s) ==
  /\ u.active_provider # None /\ u.active_provider.id = id
  /\ u.pending_model = m /\ m \in u.models
  /\ (u.active_saved # None) = (s # None)

confirm_model_selection_ok(u, id, m, s) ==
  /\ u.active_provider # None /\ u.active_provider.id = id
  /\ u.pending_model = m /\ m \in u.models
  /\ (u.active_saved # None) = (s # None)
  /\ u.active_saved # None => u.active_saved = id /\ u.persisted_active = id
  /\ s # None => /\ s.secret # "session"
                 /\ profiles_match_except_secret(WithModel(u.active_provider, m), s)
                 /\ IsSaved(u, id)

confirm_model_selection(u, id, m, s) ==
  [u EXCEPT !.active_provider = WithModel(@, m), !.selected_model = m,
            !.pending_model = None,
            !.saved_profiles = IF s = None THEN @ ELSE [@ EXCEPT ![id] = s]]

model_selection_failed_ok(u, m) == u.pending_model = m
model_selection_failed(u, m)    == [u EXCEPT !.pending_model = None]

begin_profile_deletion_ok(u, id) ==
  /\ storage_available(u) /\ u.pending_deletion = None
  /\ u.status # "Connecting" /\ ~Busy(u) /\ u.pending_model = None
  /\ IsSaved(u, id)

begin_profile_deletion(u, id) == [u EXCEPT !.pending_deletion = id]

confirm_profile_deletion_ok(u, id) == u.pending_deletion = id /\ IsSaved(u, id)

\* Fault: the persisted selection still names the removed row.
confirm_profile_deletion_but_persisted(u, id) ==
  LET Cleared(x) == IF x = id THEN None ELSE x IN
  [u EXCEPT !.saved_profiles[id] = None, !.selected_saved = Cleared(@),
            !.active_saved = Cleared(@), !.pending_deletion = None]

confirm_profile_deletion(u, id) ==
  LET Cleared(x) == IF x = id THEN None ELSE x IN
  [u EXCEPT !.saved_profiles[id] = None, !.selected_saved = Cleared(@),
            !.persisted_active = Cleared(@), !.active_saved = Cleared(@),
            !.pending_deletion = None]

profile_deletion_failed_ok(u, id) == u.pending_deletion = id
profile_deletion_failed(u, id)    == [u EXCEPT !.pending_deletion = None]

---------------------------------------------------------------------------
(* Translating.                                                            *)

begin_document_translation_ok(u) ==
  /\ u.status # "Connecting" /\ ~Busy(u)
  /\ u.pending_model = None /\ u.pending_deletion = None
  /\ u.active_provider # None /\ u.selected_model # None

\* The source text is not modelled: the text is taken to be non-empty.
begin_translation_ok(u) == begin_document_translation_ok(u)

\* Fault: the window does not show that it translates.
begin_translation_silently(u) == [u EXCEPT !.last_sequence = None]

begin_translation(u) == [u EXCEPT !.status = "Translating", !.last_sequence = None]
begin_document_translation(u) == begin_translation(u)

request_cancellation_ok(u) == u.status = "Translating"
request_cancellation(u)    == [u EXCEPT !.status = "Cancelling"]

clear_workspace(u) ==
  [u EXCEPT !.last_sequence = None,
            !.status = IF u.active_provider # None THEN "Ready" ELSE "Disconnected"]

complete_document_translation(u) == [u EXCEPT !.status = "Completed"]
cancel_document_translation(u)   == [u EXCEPT !.status = "Cancelled"]
pause_document_translation(u)    == [u EXCEPT !.status = "Ready"]
fail_document_translation(u)     == [u EXCEPT !.status = "Failed"]

\* k is the kind of a TranslationEvent, n its sequence number.
apply_translation_event_ok(u, k, n) ==
  /\ ~Terminal(u.status)
  /\ (u.last_sequence = None) <=> (k = "Started")
  /\ u.last_sequence # None => n > u.last_sequence

apply_translation_event(u, k, n) ==
  [u EXCEPT !.last_sequence = n,
            !.status = CASE k = "Started" -> IF @ = "Cancelling" THEN @ ELSE "Translating"
                         [] k = "TextDelta" -> @
                         [] OTHER -> k]

---------------------------------------------------------------------------
(* apply_worker_event: how the UI thread commits or ignores each event.    *)

OnProfilesRestored(u, rows, id) ==
  IF restore_saved_profiles_ok(u, rows, id)
  THEN restore_saved_profiles(u, rows, id) ELSE record_client_error(u)

OnConnected(u, p, ms, s) ==
  IF provider_connected_ok(u, p, ms, s) THEN provider_connected(u, p, ms, s)
  ELSE IF MatchesPending(u, p, ms) THEN provider_failed(u) ELSE u

\* provider_connection_failed: only the pending profile itself is rolled back.
OnProviderRejected(u, p) == IF u.pending_provider = p THEN provider_failed(u) ELSE u

OnProfileHealthUpdated(u, p) ==
  IF update_saved_profile_health_ok(u, p) THEN update_saved_profile_health(u, p) ELSE u

ActiveIs(u, id) == u.active_provider # None /\ u.active_provider.id = id

OnModelSelected(u, id, m, s) ==
  IF ~ActiveIs(u, id) THEN u
  ELSE IF confirm_model_selection_ok(u, id, m, s) THEN confirm_model_selection(u, id, m, s)
  ELSE IF model_selection_failed_ok(u, m) THEN model_selection_failed(u, m) ELSE u

OnModelSelectionRejected(u, id, m) ==
  IF ActiveIs(u, id) /\ model_selection_failed_ok(u, m)
  THEN model_selection_failed(u, m) ELSE u

OnProfileDeleted(u, id) ==
  IF confirm_profile_deletion_ok(u, id) THEN confirm_profile_deletion(u, id) ELSE u

OnProfileDeletionRejected(u, id) ==
  IF profile_deletion_failed_ok(u, id) THEN profile_deletion_failed(u, id) ELSE u

\* An event the reducer refuses also makes the UI send Cancel to the worker.
OnTranslation(u, k, n) ==
  IF apply_translation_event_ok(u, k, n)
  THEN apply_translation_event(u, k, n) ELSE record_stream_error(u)

\* `Rejected`: the worker could not start, or a second translation was refused.
OnRejected(u) ==
  LET v == IF u.worker_startup = "Ready" THEN u ELSE mark_worker_unavailable(u)
  IN  IF Busy(v) THEN v ELSE provider_failed(v)

OnStopped(u) ==
  LET v == mark_worker_unavailable(u)
  IN  IF Terminal(u.status) THEN v ELSE record_client_error(v)

OnDocumentJobUpdated(u, job_state) ==
  CASE job_state = "Completed" -> complete_document_translation(u)
    [] job_state = "Cancelled" -> cancel_document_translation(u)
    [] job_state = "Paused"    -> pause_document_translation(u)
    [] job_state = "Failed"    -> fail_document_translation(u)
    [] job_state = "Pending"   -> u
    [] job_state = "Running"   -> IF u.status # "Translating" /\ begin_document_translation_ok(u)
                                  THEN begin_document_translation(u) ELSE u

---------------------------------------------------------------------------
(* Which controls refresh_ui leaves sensitive.                             *)

blocked(u) ==
  \/ u.pending_deletion # None \/ u.pending_model # None
  \/ u.status = "Connecting" \/ Busy(u)
provider_controls_enabled(u) == u.worker_startup = "Ready" /\ ~blocked(u)
stop_enabled(u) == u.worker_startup = "Ready" /\ u.status \in {"Connecting", "Translating"}

---------------------------------------------------------------------------
(* What holds of an AppState record in every reachable state, in parts.    *)

WellKeyed(rows) == \A i \in Ids : rows[i] # None => rows[i].id = i
WellTyped(u) == u \in UiType /\ WellKeyed(u.saved_profiles)

SavedLinked(u) ==
  /\ \A x \in {u.selected_saved, u.persisted_active, u.pending_deletion} :
       x # None => IsSaved(u, x)
  /\ u.active_saved # None => /\ u.persisted_active = u.active_saved
                              /\ ActiveIs(u, u.active_saved)

ModelsLinked(u) ==
  /\ \A m \in {u.selected_model, u.pending_model} : m # None => m \in u.models
  /\ u.models # {} => u.active_provider # None

StorageLinked(u) ==
  ~storage_available(u) => /\ u.saved_profiles = NoRows
                           /\ ~u.will_be_saved /\ u.pending_deletion = None

PendingLinked(u) ==
  /\ u.status = "Connecting" => u.pending_provider # None
  /\ u.will_be_saved => u.pending_provider # None

ConsistentState(u) ==
  WellTyped(u) /\ SavedLinked(u) /\ ModelsLinked(u) /\ StorageLinked(u) /\ PendingLinked(u)
============================================================================
