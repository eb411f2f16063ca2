---------------------------- MODULE Credentials ----------------------------
(***************************************************************************)
(* Provider credentials in the Secret Service.  Connect with Remember      *)
(* stores each secret of the form in the keyring, one D-Bus conversation   *)
(* after the other and possibly with a prompt, before the connection is    *)
(* begun; the worker resolves references while it connects, saves the row  *)
(* with its persistent references and, when a profile is removed, deletes  *)
(* the row first and its keyring items after it.                           *)
(***************************************************************************)
EXTENDS Integers, Sequences, Functions

CONSTANTS
  CrSlots,     \* the secrets of a form, in the order they are stored (four in the code)
  CrValues,    \* what can be typed
  CrMaxClicks  \* bound: Connect and Remove crClicks

NotTyped == 0
NoRef == 0
SessionRef == -1   \* a reference of the namespace session

Slots == DOMAIN CrSlots
ASSUME CredentialAssumption ==
  /\ CrSlots \in Seq(STRING) /\ CrValues \subseteq Nat \ {NotTyped} /\ CrMaxClicks \in Nat

VARIABLES
  ring,     \* the keyring: persistent reference to value
  locked,   \* the keyring is locked
  row,      \* the saved profile: whether it exists, and its references
  form,     \* the window: Remember, the step of its handler, and what the handler holds
  queue,    \* commands for the worker; the first is the one it works on
  agreed,   \* values typed with Remember ticked
  crClicks,
  dead      \* a callback met the handler's borrow of the state

crVars == <<ring, locked, row, form, queue, agreed, crClicks, dead>>

NoRefs == [s \in Slots |-> NoRef]
NoValues == [s \in Slots |-> NotTyped]
Idle(remember) == [at |-> "idle", remember |-> remember, typed |-> NoValues, refs |-> NoRefs, slot |-> 0]

CrInit ==
  /\ ring = << >> /\ locked \in BOOLEAN /\ row = [saved |-> FALSE, refs |-> NoRefs]
  /\ form = Idle(FALSE) /\ queue = << >> /\ agreed = {} /\ crClicks = 0 /\ dead = FALSE

is_persistent(ref) == ref \notin {NoRef, SessionRef}
\* SecretRef::new(SecretService): every click makes references of its own.
NewRef(s) == crClicks * Len(CrSlots) + s

---------------------------------------------------------------------------
(* Connect: the values leave the form at once, the handler keeps them.     *)

ToggleRemember ==
  /\ form.at = "idle" /\ form' = [form EXCEPT !.remember = ~@]
  /\ UNCHANGED <<ring, locked, row, queue, agreed, crClicks, dead>>

\* A saved profile keeps its references for what was not typed.
RefFor(s, value, remember) ==
  IF value = NotTyped THEN row.refs[s]
  ELSE IF ~remember THEN SessionRef
  ELSE IF is_persistent(row.refs[s]) THEN row.refs[s] ELSE NewRef(s)

Connect(typed) ==
  /\ form.at = "idle" /\ crClicks < CrMaxClicks /\ crClicks' = crClicks + 1
  /\ form' = [form EXCEPT !.at = "store", !.slot = 1, !.typed = typed,
                          !.refs = [s \in Slots |-> RefFor(s, typed[s], form.remember)]]
  /\ agreed' = agreed \cup (IF form.remember THEN {typed[s] : s \in Slots} \ {NotTyped} ELSE {})
  /\ UNCHANGED <<ring, locked, row, queue, dead>>

Storing(s) == form.at = "store" /\ form.slot = s
To_store(s) == form.remember /\ form.typed[s] # NotTyped
Put(s) == ring' = [ref \in DOMAIN ring \cup {form.refs[s]} |->
                     IF ref = form.refs[s] THEN form.typed[s] ELSE ring[ref]]
NextSlot == form' = [form EXCEPT !.at = "store", !.slot = @ + 1]

\* Fault: an error of the keyring is passed over.
StoreFailed_passed_over == NextSlot
\* provider_failed, and the window that offers a session-only connection.
StoreFailed == form' = [Idle(form.remember) EXCEPT !.at = "fallback"]

SkipSlot(s) ==
  /\ Storing(s) /\ ~To_store(s) /\ NextSlot
  /\ UNCHANGED <<ring, locked, row, queue, agreed, crClicks, dead>>

\* OpenSession, SearchItems, then SetSecret or CreateItem; a call that times out
\* may have been carried out.
store_secret(s) ==
  /\ Storing(s) /\ To_store(s)
  /\ \/ form.refs[s] \in DOMAIN ring /\ ~locked /\ Put(s) /\ NextSlot
     \/ form.refs[s] \notin DOMAIN ring /\ ~locked /\ Put(s) /\ NextSlot
     \/ form.refs[s] \notin DOMAIN ring /\ ring' = ring /\ form' = [form EXCEPT !.at = "prompt"]
     \/ ring' = ring /\ StoreFailed
     \/ ~locked /\ Put(s) /\ StoreFailed
  /\ UNCHANGED <<locked, row, queue, agreed, crClicks, dead>>

\* The prompt is waited for inside the handler: approved, dismissed, or out of time,
\* when a late approval still creates the item.
prompt(s) ==
  /\ form.at = "prompt" /\ form.slot = s
  /\ \/ Put(s) /\ locked' = FALSE /\ NextSlot
     \/ ring' = ring /\ locked' = locked /\ StoreFailed
     \/ Put(s) /\ locked' = FALSE /\ StoreFailed
  /\ UNCHANGED <<row, queue, agreed, crClicks, dead>>

\* The wait runs the main context: a worker event or a click borrows the state again.
DispatchDuringPrompt ==
  /\ form.at = "prompt" /\ dead' = TRUE /\ form' = [Idle(form.remember) EXCEPT !.at = "dead"]
  /\ UNCHANGED <<ring, locked, row, queue, agreed, crClicks>>

show_secret_storage_session_fallback(remember) ==
  /\ form.at = "fallback" /\ remember \in {FALSE, form.remember} /\ form' = Idle(remember)
  /\ UNCHANGED <<ring, locked, row, queue, agreed, crClicks, dead>>

\* begin_provider_connection may refuse and the queue be full: nothing is taken back.
Begin_connection ==
  /\ form.at = "store" /\ form.slot = Len(CrSlots) + 1
  /\ \/ queue' = Append(queue, [op |-> "connect", typed |-> form.typed, refs |-> form.refs,
                                 persistent |-> form.remember])
        /\ form' = [Idle(form.remember) EXCEPT !.at = "waiting"]
     \/ queue' = queue /\ form' = Idle(form.remember)
  /\ UNCHANGED <<ring, locked, row, agreed, crClicks, dead>>

RemoveProfile ==
  /\ form.at = "idle" /\ row.saved /\ crClicks < CrMaxClicks /\ crClicks' = crClicks + 1
  /\ queue' = Append(queue, [op |-> "delete", typed |-> NoValues, refs |-> NoRefs, persistent |-> FALSE])
  /\ form' = [form EXCEPT !.at = "waiting"]
  /\ UNCHANGED <<ring, locked, row, agreed, dead>>

---------------------------------------------------------------------------
(* The worker.                                                             *)

Working(op) == queue # << >> /\ Head(queue).op = op

resolve_secret(ref) == is_persistent(ref) /\ ref \in DOMAIN ring /\ ~locked

\* Every reference the provider asks for has a value: the one that was typed or the keyring's.
connect_candidate(job) ==
  \A s \in Slots : job.refs[s] # NoRef => job.typed[s] # NotTyped \/ resolve_secret(job.refs[s])

profile_without_secret(refs) == [s \in Slots |-> IF is_persistent(refs[s]) THEN refs[s] ELSE NoRef]

Answer_window == form' = IF form.at = "waiting" THEN Idle(form.remember) ELSE form

finish_candidate_connection ==
  /\ Working("connect") /\ queue' = Tail(queue) /\ Answer_window
  /\ \/ /\ connect_candidate(Head(queue))
        /\ row' = IF Head(queue).persistent
                  THEN [saved |-> TRUE, refs |-> profile_without_secret(Head(queue).refs)] ELSE row
     \/ row' = row   \* a secret, the provider or the database failed, or Stop was pressed
  /\ UNCHANGED <<ring, locked, agreed, crClicks, dead>>

\* The row goes first; ProfileDeleted is sent before the keyring is touched.
delete_saved_profile ==
  /\ Working("delete") /\ Answer_window
  /\ \/ /\ row.saved /\ row' = [saved |-> FALSE, refs |-> NoRefs]
        /\ queue' = <<[Head(queue) EXCEPT !.op = "clean", !.refs = row.refs]>> \o Tail(queue)
     \/ row' = row /\ queue' = Tail(queue)
  /\ UNCHANGED <<ring, locked, agreed, crClicks, dead>>

\* A failure is reported as SecretCleanupFailed and the next reference is tried.
delete_secret(s, ok) ==
  LET ref == Head(queue).refs[s] IN
  /\ Working("clean") /\ is_persistent(ref) /\ \A t \in 1..(s - 1) : ~is_persistent(Head(queue).refs[t])
  /\ ok => ~locked
  /\ ring' = IF ok THEN Restrict(ring, DOMAIN ring \ {ref}) ELSE ring
  /\ queue' = [queue EXCEPT ![1].refs[s] = NoRef]
  /\ UNCHANGED <<locked, row, form, agreed, crClicks, dead>>

CleanupEnds ==
  /\ Working("clean") /\ queue' = Tail(queue) /\ \A s \in Slots : ~is_persistent(Head(queue).refs[s])
  /\ UNCHANGED <<ring, locked, row, form, agreed, crClicks, dead>>

---------------------------------------------------------------------------
(* Around them: the desktop locks and unlocks the keyring, the process dies. *)

SetLocked(b) ==
  locked' = b /\ UNCHANGED <<ring, row, form, queue, agreed, crClicks, dead>>

CrCrash ==
  /\ form.at # "dead" /\ form' = Idle(FALSE) /\ queue' = << >>
  /\ UNCHANGED <<ring, locked, row, agreed, crClicks, dead>>

CrNext ==
  \/ ToggleRemember \/ DispatchDuringPrompt \/ Begin_connection \/ RemoveProfile
  \/ (\E typed \in [Slots -> CrValues \cup {NotTyped}] : Connect(typed))
  \/ (\E s \in Slots : SkipSlot(s) \/ store_secret(s) \/ prompt(s) \/ \E ok \in BOOLEAN : delete_secret(s, ok))
  \/ (\E b \in BOOLEAN : show_secret_storage_session_fallback(b) \/ SetLocked(b))
  \/ finish_candidate_connection \/ delete_saved_profile \/ CleanupEnds \/ CrCrash

---------------------------------------------------------------------------
(* Properties.                                                             *)

\* Whichever call of the keyring, the provider or the database fails, and wherever the
\* process dies, the saved profile refers only to credentials the keyring holds, and the
\* keyring holds only what was typed with Remember ticked.
CredentialsKept ==
  /\ \A s \in Slots : row.refs[s] # NoRef => row.refs[s] \in DOMAIN ring
  /\ Range(ring) \subseteq agreed
============================================================================
