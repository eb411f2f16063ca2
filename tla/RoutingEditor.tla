--------------------------- MODULE RoutingEditor ---------------------------
(***************************************************************************)
(* The editor in the dialog of routing profiles: candidate rows that can   *)
(* be checked and moved, switches that exclude each other, Edit, which     *)
(* loads a stored profile, and Save.  A profile is handed to the worker    *)
(* when it is saved (LocalData has the command); the widgets' callbacks    *)
(* run inside the call that changes the widget.                            *)
(***************************************************************************)
EXTENDS Naturals, Sequences, FiniteSets, SequencesExt

CONSTANTS
  RouteIds,     \* IDs that are valid for a routing profile
  SavedOrder,   \* the saved providers, as the window lists them
  ReModels,     \* models a provider may have selected
  ReStored,     \* lists of candidates that an import or an earlier Save can have stored
  ReMaxSteps    \* bound: changes made by the user and by events

\* A candidate names a provider; "made" stands for the rest: the model, whether it is
\* local, the limit and the tiers, as they follow from the model that the provider had
\* selected, or "own" for contents that only an import has.
RoutingCandidates == [provider : Range(SavedOrder), made : ReModels \cup {"own"}]

ASSUME EditorAssumption ==
  /\ SavedOrder \in Seq(Range(SavedOrder)) /\ IsInjective(SavedOrder) /\ ReMaxSteps \in Nat
  /\ "none" \notin RouteIds /\ ReModels \cap {"nomodel", "gone", "own"} = {}
  /\ ReStored \subseteq Seq(RoutingCandidates) \ {<<>>}

Modes == {"Manual", "Ordered", "Automatic"}
\* The text fields: two limits that parse, and one that does not.
Limits == {"none", "some"}

VARIABLES
  profiles,   \* stored profiles by ID
  provider,   \* the model each saved provider has selected, "nomodel", or "gone"
  editor,     \* the open dialog
  aborted,    \* a callback panicked: the process ends
  steps

reVars == <<profiles, provider, editor, aborted, steps>>

Closed == [open |-> FALSE]

\* What an import or an earlier Save can have stored; "extra" stands for the fields
\* of RoutingConstraints the editor does not show.
StoredProfiles ==
  {[mode |-> m, cands |-> c, local |-> l, remote |-> r, limits |-> "some", extra |-> "kept"] :
     m \in Modes, c \in ReStored, l \in BOOLEAN, r \in BOOLEAN}

ReInit ==
  /\ \E i \in RouteIds, p \in StoredProfiles : profiles = [j \in {i} |-> p]
  /\ provider \in [Range(SavedOrder) -> ReModels]
  /\ editor = Closed /\ aborted = FALSE /\ steps = 0

---------------------------------------------------------------------------
(* Helpers on the order of the rows.                                       *)

Position(ids, p) == SelectInSeq(ids, LAMBDA q : q = p)

\* The filters of the window, as a recursive function: what is in keep, in its order.
Only(ids, keep) ==
  LET upTo[n \in 0..Len(ids)] ==
        IF n = 0 THEN <<>>
        ELSE IF ids[n] \in keep THEN Append(upTo[n - 1], ids[n]) ELSE upTo[n - 1]
  IN  upTo[Len(ids)]

move_routing_profile_id(ids, p, offset) ==
  LET i == Position(ids, p)  t == i + offset IN
  IF i = 0 \/ t \notin DOMAIN ids THEN ids
  ELSE [ids EXCEPT ![i] = ids[t], ![t] = ids[i]]

move_routing_profile_id_before(ids, p, target) ==
  LET i == Position(ids, p)  t == Position(ids, target) IN
  IF p = target \/ i = 0 \/ t = 0 THEN ids
  ELSE InsertAt(RemoveAt(ids, i), IF i < t THEN t - 1 ELSE t, p)

ordered_routing_profile_ids(selected) ==
  Only(selected, {p \in Range(SavedOrder) : provider[p] # "gone"})

normalized_candidate_ids_for_mode(mode, ids) ==
  IF mode = "Manual" /\ ids # <<>> THEN <<Head(ids)>> ELSE ids

HasModel == {p \in Range(SavedOrder) : provider[p] \in ReModels}

\* A candidate is made anew from the provider as it is now.
routing_candidate_for_profile(p) == [provider |-> p, made |-> provider[p]]

\* The providers a stored profile names, in its order.
Named(p) == [n \in DOMAIN p.cands |-> p.cands[n].provider]

CheckedRows(ed) == Only(ed.rows, ed.checked)

\* Only the first checked row stays checked.
enforce_manual_candidate_selection(ed) ==
  [ed EXCEPT !.checked = Range(normalized_candidate_ids_for_mode("Manual", CheckedRows(ed)))]

routing_profile_id_conflicts(ed, id) == ed.edited = "none" /\ id \in DOMAIN ed.shown

\* The controls that are shown replace their fields, the rest is kept.
routing_constraints_from_controls(ed) ==
  [local |-> ed.local, remote |-> ed.remote, limits |-> ed.limits,
   extra |-> IF ed.edited = "none" THEN "default" ELSE ed.editing.extra]

---------------------------------------------------------------------------
(* The controls; a callback runs only when its control really changes.     *)

SetMode(ed, m) ==
  LET e == [ed EXCEPT !.mode = m] IN
  IF m = "Manual" /\ ed.mode # m THEN enforce_manual_candidate_selection(e) ELSE e

\* Fault: the switches do not exclude each other.
SetLocal_alone(ed, b) == [ed EXCEPT !.local = b]

SetLocal(ed, b) ==
  [ed EXCEPT !.local = b, !.remote = IF b /\ ~ed.local THEN FALSE ELSE @]

SetRemote(ed, b) ==
  [ed EXCEPT !.remote = b, !.local = IF b /\ ~ed.remote THEN FALSE ELSE @]

\* Fault: the candidates of the profile are checked, the others are left as they were.
load_routing_profile_editor_adding(ed, p) ==
  LET e == SetRemote(SetLocal(SetMode(ed, p.mode), p.local), p.remote)
  IN  [e EXCEPT !.limits = p.limits, !.checked = @ \cup (Range(Named(p)) \cap Range(ed.rows))]

\* Each candidate is moved before the one that precedes it.
OrderedPairwise(rows, cands) ==
  LET after[n \in 0..Len(cands)] ==
        IF n < 2 THEN rows
        ELSE move_routing_profile_id_before(after[n - 1], cands[n], cands[n - 1])
  IN  after[Len(cands)]

\* Edit: every control in turn, then the checks, then the order, pair by pair.
load_routing_profile_editor(ed, p) ==
  LET switched == SetRemote(SetLocal(SetMode(ed, p.mode), p.local), p.remote)
      checked == [switched EXCEPT !.limits = p.limits,
                                  !.checked = Range(Named(p)) \cap Range(ed.rows)]
      ordered == [checked EXCEPT !.rows = OrderedPairwise(@, Named(p))]
  IN  IF p.mode = "Manual" THEN enforce_manual_candidate_selection(ordered) ELSE ordered

---------------------------------------------------------------------------
(* Actions.                                                                *)

\* Every saved provider with a model gets a row, and is checked.
CandidateRows == Only(SavedOrder, HasModel)
NewControls ==
  [open |-> TRUE, shown |-> profiles, rows |-> CandidateRows, checked |-> Range(CandidateRows),
   editing |-> "none", loaded |-> FALSE, edited |-> "none",
   mode |-> "Automatic", local |-> FALSE, remote |-> TRUE, limits |-> "none"]

\* show_routing_profiles_dialog: the list it shows stays as it was when it opened.
OpenEditor ==
  /\ ~aborted /\ ~editor.open
  /\ editor' = NewControls
  /\ UNCHANGED <<profiles, provider, aborted, steps>>

\* One change by the user; what was loaded is no longer what is shown.
Edited(ed) ==
  /\ editor.open /\ ~aborted /\ steps < ReMaxSteps /\ steps' = steps + 1
  /\ editor' = [ed EXCEPT !.loaded = FALSE]
  /\ UNCHANGED <<profiles, provider, aborted>>

ChooseMode(m) == Edited(SetMode(editor, m))
ToggleLocal == Edited(SetLocal(editor, ~editor.local))
ToggleRemote == Edited(SetRemote(editor, ~editor.remote))
ToggleCandidate(p) ==
  /\ editor.open /\ p \in Range(editor.rows)
  /\ Edited([editor EXCEPT !.checked = IF p \in @ THEN @ \ {p} ELSE @ \cup {p}])
MoveRow(p, offset) ==
  Edited([editor EXCEPT !.rows = move_routing_profile_id(@, p, offset)])
DropRow(p, target) ==
  Edited([editor EXCEPT !.rows = move_routing_profile_id_before(@, p, target)])
TypeLimits(t) == Edited([editor EXCEPT !.limits = t])

Edit(i) ==
  /\ editor.open /\ ~aborted /\ i \in DOMAIN editor.shown /\ steps < ReMaxSteps /\ steps' = steps + 1
  /\ LET p == editor.shown[i] IN
     editor' = [load_routing_profile_editor(editor, p) EXCEPT
                  !.editing = p, !.loaded = TRUE, !.edited = i]
  /\ UNCHANGED <<profiles, provider, aborted>>

\* default_routing_profile of what is shown; Core's own checks are external.
Shows(ed) ==
  ordered_routing_profile_ids(normalized_candidate_ids_for_mode(ed.mode, CheckedRows(ed)))
Buildable(ed) ==
  /\ ed.limits # "bad" /\ Shows(ed) # <<>>
  /\ Range(Shows(ed)) \subseteq HasModel

\* Save under an ID: an invalid or a taken one is told to the user.  Every other
\* refusal asks for the state that it has already borrowed, and panics.
Save(i) ==
  LET ed == editor
      id == IF ed.edited = "none" THEN i ELSE ed.edited
      shown == routing_constraints_from_controls(ed)
  IN
  /\ ed.open /\ ~aborted /\ (ed.edited # "none" => i = ed.edited)
  /\ \/ ~routing_profile_id_conflicts(ed, i) /\ Buildable(ed)
        /\ profiles' = [j \in DOMAIN profiles \cup {id} |->
                          IF j = id
                          THEN [mode |-> ed.mode, limits |-> shown.limits,
                                cands |-> [n \in DOMAIN Shows(ed) |->
                                             routing_candidate_for_profile(Shows(ed)[n])],
                                local |-> shown.local, remote |-> shown.remote, extra |-> shown.extra]
                          ELSE profiles[j]]
        /\ editor' = Closed /\ aborted' = aborted
     \/ ~routing_profile_id_conflicts(ed, i) /\ aborted' = TRUE /\ UNCHANGED <<profiles, editor>>
  /\ UNCHANGED <<provider, steps>>

\* Close; the user may open it again.
CloseEditor ==
  /\ editor.open /\ ~aborted /\ editor' = Closed /\ UNCHANGED <<profiles, provider, aborted, steps>>

\* Events that arrive meanwhile: a provider is removed, loses its model or gets another.
ProviderChanges(p) ==
  /\ p \in HasModel /\ ~aborted /\ steps < ReMaxSteps /\ steps' = steps + 1
  /\ \E s \in ReModels \cup {"gone", "nomodel"} : provider' = [provider EXCEPT ![p] = s]
  /\ UNCHANGED <<profiles, editor, aborted>>

ReNext ==
  \/ OpenEditor \/ ToggleLocal \/ ToggleRemote \/ CloseEditor
  \/ (\E m \in Modes : ChooseMode(m)) \/ (\E t \in Limits \cup {"bad"} : TypeLimits(t))
  \/ \E p \in Range(SavedOrder) :
       \/ ToggleCandidate(p) \/ MoveRow(p, 1) \/ MoveRow(p, 0 - 1) \/ ProviderChanges(p)
       \/ \E q \in Range(SavedOrder) : DropRow(p, q)
  \/ \E i \in RouteIds : Edit(i) \/ Save(i)

ReSpec == ReInit /\ [][ReNext]_reVars

---------------------------------------------------------------------------
(* Properties.                                                             *)

\* However rows are moved, dropped and reloaded, none is lost or doubled, and the
\* switches for local and remote providers are never both on.
RowsWhole ==
  editor.open => /\ IsInjective(editor.rows)
                 /\ editor.checked \subseteq Range(editor.rows)
                 /\ ~(editor.local /\ editor.remote)

\* Edit followed by Save, after whatever was done in the editor before, loses nothing
\* that the editor shows or leaves alone: the mode, the constraints, those not shown too,
\* and the providers that still have a row and a model, each once; a candidate whose
\* contents are those of its provider today is stored as it was.  The contents of any
\* other one are replaced, and the order may change.  A profile that is both local-only
\* and open to remote providers, or Manual with several candidates, cannot be shown.
Showable(p) == ~(p.local /\ p.remote) /\ (p.mode = "Manual" => Len(p.cands) = 1)
UpToDate(c) == c = routing_candidate_for_profile(c.provider)
EditKeepsProfile ==
  [][editor.open /\ editor.loaded /\ Showable(editor.editing) /\ profiles' # profiles =>
       LET p == editor.editing
           q == profiles'[editor.edited]
           there == Range(editor.rows) \cap HasModel
       IN
       /\ [p EXCEPT !.cands = <<>>] = [q EXCEPT !.cands = <<>>]
       /\ IsInjective(Named(q)) /\ Range(Named(q)) = Range(Named(p)) \cap there
       /\ \A c \in Range(p.cands) : UpToDate(c) /\ c.provider \in there => c \in Range(q.cands)]_reVars
============================================================================
