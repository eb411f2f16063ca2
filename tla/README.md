# LinguaMesh for Linux: TLA+ models

The program is a GTK translation client. One thread runs the window; a second
one runs an asynchronous worker that owns the connection to the provider, the
profile database and the document jobs. The models follow the source in
`src/src/`; `PROJECT.json` names the lines behind every definition.

## 1. The system

| Part | State | Operations | Interacts by |
| --- | --- | --- | --- |
| `AppState` (`model.rs`) | status, active provider, models, selections, saved profiles, pending connection / model / deletion, stream position | one reducer method per user action and per worker answer, each with its own refusals | called by handlers and the event pump, on one thread |
| Window (`main.rs`) | widgets, which controls are usable, `document_job_id` | click handlers, `refresh_ui`, `apply_worker_event` on a timer | `CoreWorker::try_send` (16 commands, never blocks); events (64, the worker blocks) |
| Core worker, session (`worker.rs`) | active profile, its models, the saved row it keeps in step, selected model | connect, test, select model, delete profile, translate, cancel, shutdown | command queue, event queue, `active_cancellation` slot shared with the window |
| Core worker, documents (`worker.rs`) | running jobs with their segment and requests; one spawned task each | create, translate (plain, routed), resume, retry, pause, cancel, delete, segment events | one event channel for all tasks, the same slot, the database |
| Routing, fallback, circuit breaker (`worker.rs`) | candidates left, attempts, open circuits, sequence offset | look up, back off, dial, switch, renumber | the translation that is running, the slot |
| History, memory, glossary, routing profiles (`worker.rs`, `main.rs`) | database tables; pending flags, switches and counters of the window; list dialogs | list, save, delete, clear, enable, export, import | one command and one answer each; refused while text or documents run |
| Routing editor (`main.rs`, helpers in `model.rs`) | candidate rows, checks, mode, switches | move, drop, check, edit, save | widget callbacks that change other widgets |
| Workspace (`main.rs`) | options beside the source, selected document, approval window | choose, type, import a glossary, Translate, document actions | each option lives in a widget and in `AppState`; `refresh_ui` copies one way, callbacks the other |
| Export (`main.rs`) | a temporary file, its name, what the user was told | choose a name, write, sync, move, sync the directory | file system, file dialogs |
| File import and OCR (`file_import.rs`, `ocr.rs`, `main.rs`, `worker.rs`) | leased file, selection dialog, `ocr_pending`, temporary directory, child processes | open, drop, read, select sheets, queue, recognise, clean | asynchronous reads, child processes with a deadline |
| Database file (`worker.rs` 4806-5133) | paths, file identity, sidecars | validate, pin, open, re-check | file system |
| Secret Service (`secret_service.rs`, Connect in `main.rs`, `worker.rs`) | keyring items, references in rows | store, prompt, resolve, delete | D-Bus; the prompt runs a main loop inside a click |
| Localization (`localization.rs`) | tables | look up | called everywhere |

What is hard: the window and the worker are two processes with queues between
them, and the window goes on while the worker awaits the network. Answers arrive
for requests that were replaced since; failures arrive that the window does not
wait for; a stop takes a short cut past the queue, through a slot that may belong
to another operation; the process may die between a database write and its
report; and several documents share one channel, one slot and one biased loop.
`PROJECT.json` lists these hazards by line, with the property for each.

What makes each part correct:

* **AppState**: no reference to a profile, row or model that is gone; a wait that
  an answer can always end; provider, models and selection switch together.
* **Session**: the worker's saved row is the database's; what is stored can be
  restored after a crash; the window is never further behind than its unread
  events; a translation runs on the provider the window names; every wait ends.
* **Translation stream**: one stream per request whoever serves it; text goes only
  to the providers the user named, in order, once each; a failing one rests; what is
  recorded is what was shown; every request ends.
* **Local data**: switches and counts shown are those of the database; nothing is
  recorded against the policy shown at the time of asking; greyed-out controls wait
  for something.
* **Workspace, routing editor**: a request is made of what the widgets show; one
  approval, one request; Edit and Save keep a profile; no callback meets a borrow.
* **Files and secrets**: an export is whole or absent and overwrites nothing; the
  database opened is the one checked; a stored profile has the credentials it names;
  a wait for recognition is answered.
* **Documents**: a running job is stored as Running and its segment is still
  missing; Completed means whole; a job has one stream; the limit on running jobs
  holds; requests to pause, stop or cancel are not lost; jobs and shutdown end.

## 2. Modules

| Module | Models | Notes |
| --- | --- | --- |
| `AppStateOps` | `model.rs`, and the arms of `apply_worker_event` and `refresh_ui` of `main.rs` | pure operators on the `AppState` record: `x_ok` is the method's acceptance, `x` the whole method with its error path |
| `AppState` | the UI thread alone | handlers and events; the worker may report anything in any order |
| `AppStateProofs` | theorems about `AppState` | |
| `ProviderSession` | window + queues + worker + profile database | uses the same operators; shown to implement `AppState` |
| `DocumentJobs` | the worker's document jobs, their tasks and the database | the window is any client |
| `StreamContract` | what the window may rely on: one Started, growing numbers, one end | abstract specification |
| `TranslationStream` | one translation in the worker: direct, with an approved fallback, or routed | shown to implement `StreamContract` |
| `LocalData` | history, memory, glossaries, routing profiles: window, queues, worker, tables | |
| `Workspace` | options, Translate's handler, fallback approval, document dialog and buttons | streams themselves are elsewhere |
| `RoutingEditor` | the editor in the dialog of routing profiles | `LocalData` has the commands |
| `ExportFile` | writing any file the user has chosen | all seven exports |
| `SourceImport` | open, drop, spreadsheet selection, document job, OCR, Clear temporary files | |
| `DatabaseFile` | opening the profile database step by step | another program acts in between |
| `Credentials` | Connect's stores, the prompt, the worker's row and its removal | crashes and locking |
| `ProviderSessionProofs`, `DocumentJobsProofs`, `TranslationStreamProofs` | theorems about the worker's three models | section 4 |
| `DatabaseFileProofs`, `ExportFileProofs`, `CredentialsProofs` | theorems about the slices of those names | section 4 |
| `DesktopProofs` | theorems about `Workspace`, `SourceImport`, `LocalData` and `RoutingEditor`, and lemmas on queues and rows | section 4 |
| `MCDesktop` | the seven modules from `LocalData` to `Credentials` side by side | see below |
| `MC...` | the other instances for TLC | |

**AppState.** `ui` is one record with the fields of the struct that any
other field or guard depends on. A profile is an identifier, a configuration
(`Cfgs`: everything compared besides the identifier), a model and the kind of
its secret. Texts are left out: output is known by the sequence number last
applied. A handler that sends a command has two outcomes, as the queue may be
full, and the second contains the roll-back of the code. The worker is
unconstrained: every event, with every payload of the right type, at any time.
So what holds here rests on the checks in `model.rs` only.

**ProviderSession.** `cmds` and `evts` are the queues, `wk` the worker's session
variables, `job` what the worker awaits, `slot` the shared cancellation slot
(a token, `cancelled` being the set of cancelled ones), and `store` the profile
database. `Pump` applies one event as the timer does, with the Cancel that a
refused stream event sends. The worker awaits in the middle of a test, a
connection, a secret removal and a stream, so each is split there and nowhere
else. During a stream commands go first (biased select) and are refused with
`BusyAnswer`. `Crash` keeps the database only and starts the worker again, with
each of the start-up reports. `Unawaited` chooses which failures may be reported
that the window is not waiting for; with the empty set these are off, and with
them the first two findings below appear.

**DocumentJobs.** `store` is the database's job table, `active` the map of running
jobs (segment and the three request flags), `tasks` the spawned tasks, `chan`
their common channel, `starting` a start the worker awaits. Segment results and
failing writes are nondeterministic. `RefreshSlot` is the refresh at the end of
each loop step with documents; an idle step leaves the slot alone. `closed` is the
dropped `CoreWorker`: the closed command channel is then always ready and goes
before the events.

**TranslationStream.** `job.pc` is the place in the worker: look up the route,
check / wait / dial / connect a candidate, memory lookup, fallback connection,
stream. The walk over candidates is the same code before the first text (`select`)
and after a failure (`switch`), as in the source. Events of the operation carry
`raw` numbers; `Number` is `remap_translation_event`, `Switched` what a change of
provider resets. `request` is the last one: its number and what the click put into it, a
plain text, one with an approved fallback, or a route. `circuit` is `RoutingCircuitBreaker`; time is three values (not
open, running, past) and `CoolDown` lets it pass. Queue and slot work as in
`ProviderSession`. Which routes automatic routing builds is external: `Routes`.

**LocalData.** `kept` is the database, `desk` the window's copy with the pending
flags, `dialogs` the open lists, which act on what they were opened with. A command
is answered according to what the worker does: idle, text, or documents, with the
refusal each of these loops sends. `PolicyRejected` and the other arms of
`Applied` are `apply_worker_event`.

**Workspace.** `wsp` has each option twice where the code has (`quality` in the
state, `shown` in the dropdown). `TranslateHandler` is the whole click handler in its
order: glossary, document, fallback choice, approval, `begin_translation`, queue.
`Refreshed` is `refresh_ui`; it sets `panicked` where its call to `set_selected`
meets the borrow. After that nothing moves, which is what the process does.

**RoutingEditor.** `SetMode`, `SetLocal`, `SetRemote` include the callback that runs
inside the call; `load_routing_profile_editor` applies them in the code's order. The
filters and the pairwise moves are recursive functions, so that they can be reasoned about.
A candidate is its provider and `made`: the model its provider had selected when it was
made, from which the code derives the rest (local or not, tier, limit, document support),
or `"own"`, contents that only an import has. `Save` makes each candidate anew from
the provider as it is now (`routing_candidate_for_profile`), whatever was stored;
`ProviderChanges` may meanwhile select another model, drop it, or remove the provider.

**ExportFile, SourceImport, DatabaseFile, Credentials.** One action per await point
or system call. Other programs act between any two: they create and take names,
rename directories, replace files, lock the keyring. `Move` takes it that GIO's move
without `OVERWRITE` checks the name and renames in one step; `NothingOverwritten` and its
theorem rest on that, as GIO is not part of the repository. `PowerFails` drops what was not
synced, `CrCrash` forgets everything but the keyring and the row.

**MCDesktop.** These seven share no step: what one changes, no other reads. So a
behaviour moves one of `Parts` and leaves the others where they start; exploring
their product would add no behaviour of any of them.

## 3. Runs

| Run | Instance | Shows |
| --- | --- | --- |
| `app_state` | 2 ids, 1 configuration, 1 model | the five invariants and the action property that are proved in general |
| `session` | 5 commands, 1 crash, queue not full | restorable database, `UpToDate`, `ServedByShown`, `OneAnswer`, and that every wait ends |
| `session_faults` | 4 commands, queue of one, all unawaited failures, persistent secrets | the worker's saved row, refinement of `AppState`, every pending request is answered |
| `session_mismatch` | 4 commands, tests allowed | **violation** of `ServedByShown` |
| `session_stuck` | 3 commands, tests allowed | **violation** of `CancellingEnds` |
| `documents` | 3 jobs, 2 places, 2 segments, 3 commands, 1 crash | six invariants, and that a pause or shutdown request survives |
| `documents_live` | 2 jobs, no crash | jobs end, shutdown stops the worker |
| `document_cancel` | 1 job, 2 commands | **violation** of `CancelSticks` |
| `stream` | 3 requests, 3 providers, 2 fallbacks, 4 routes, 2 models, 2 texts each, threshold 2 | refinement of `StreamContract`, recorded text, text only to whom the request names and in that order, resting circuits, and that every request ends |
| `stream_sequence` | a route of three providers | **violation** of `ImplementsContract` |
| `desktop` | see below | twelve properties of the seven slices |
| `window_panic` | workspace, routing editor, credentials | **violation** of `WindowSurvives` |

*Bounds.* Two identifiers are the least for one profile to replace another, and
the reducer never compares three. One model is enough to be offered, withdrawn
and selected; one configuration, since an answer may still differ from the request
by its model. Five commands cover connect, select, translate, stop and one more;
the queue of one place makes every send fail at some point. Two segments are
the least with a next segment; three jobs for two places reach the limit. The
commands of a life of the process, the crashes and the sequence numbers are capped
(`MaxOps`, `MaxCrashes`, `MaxSequence`); the queue limits `CmdCap` and `MaxActive`
stand for `COMMAND_CAPACITY` and `MAX_ACTIVE_DOCUMENT_JOBS`. Deadlock is not
checked where the client is bounded and the worker may stop.

In `stream` a route changes provider at most once, because a second change violates
the contract (finding 4); `ShortRoutes` has two candidates in both orders, two without the
active provider, and three, of which a change of provider skips the second because of its model.
So every kind of request leaves out a provider that another one names, and `SentInOrder`
sees text that strays there: `TakeDirect_unapproved` sends a plain text to a fallback.
Two failures open a circuit and three requests let it rest and come back. In `desktop`:
one entry per table is enough to be listed, deleted, saved again and lost; three
clicks (or two and a restart) put a refusal between a command and its answer;
three providers give every order of rows that a move can confuse, with two changes
after Edit; the stored profile has one to three candidates in any order, made with the
model their providers have, but Q's perhaps with contents of its own, or names one provider
twice, and a provider may take the second model; one job and one fallback with three user actions reach an
approval that is refused and used later (choices of the fallback are not counted);
two exports at once, one other program; two imports, two pages, a queue of one; three
directories (private, open, replaced) and two changes of other programs; two
credential slots and three clicks.

*Fairness.* Weak fairness of the pump (a GTK timer), of the worker loop (a task
that is always polled) and of each document task (the engine's network waits have
time-outs). The user owes nothing, and a crash is never owed.

*Findings.*
1. `session_mismatch`: Connect A succeeds; a connection test and a connection to B
   are sent; the failed test sets the status to Failed while B is pending, so
   Translate is usable again; the window names A and B serves the request.
2. `session_stuck`: a test still runs when Translate is pressed; its failure marks
   the translation as failed, so the stream's Started event is refused and the
   status becomes Cancelling. As Started was not applied, the terminal event that
   should end Cancelling is refused as an unexpected first event.
3. `document_cancel`: the completed event of a segment is in the channel when
   Cancel is taken; the loop looks at the pause and stop flags only and starts the
   next segment with clean flags.
4. `stream_sequence`: the operation that took over fails after some text; the second
   change continues from that operation's own number, lower than what was shown, so
   the window refuses the third provider's events and cancels the translation.
5. `window_panic`: `refresh_ui` is called with a borrow of `AppState` and selects a
   restored quality or preset in its dropdown; the callback borrows it for writing
   and panics inside GTK. With the workspace left out of `Parts` the run reaches a
   refused save of a routing profile, and with that left out too, events dispatched by
   the main loop of a keyring prompt while Connect holds its borrow.

*Known deviations that no run asserts.*
* Edit moves each candidate before its predecessor (`main.rs:7345`), so the rows come
  out in another order than the stored one, and Save stores it; README.md:318-320
  promises "mode, fallback consent, candidate checks, and order". `EditKeepsProfile`
  therefore compares sets; the theorem `EditTurnsLastPair` shows that this happens to every
  profile whose last two candidates have rows.
* Save makes every candidate anew (`main.rs:7378`): the provider's selected model, document
  support, quality tier 2 or 1, 64 KiB. Edit and Save of an imported profile, or of one whose
  provider has since taken another model, replaces what the candidates held, though the
  dialog has neither shown nor asked about it. `EditKeepsProfile` promises the contents of a candidate
  only when they are those of its provider today.
* An edit of the source while a document is translated lets go of the job
  (`main.rs:4168`); Stop then cancels the tokens in the slot without telling the loop
  (`worker.rs:981`), which stores the job as failed, not as cancelled (`worker.rs:2633`).
* A refused Translate after an approval leaves the approval set (`main.rs:3711`, reset
  at 5238): the next request is not asked about, whatever fallback is chosen by then.
  `OneRequestPerGrant` holds, as it counts.
* Documents refuse every other command with one event (`worker.rs:2496`) that frees no
  pending control; `ControlsFreed` and `LogsShown` except it (`misanswered`).
* Stop during a back-off or dial skips one candidate (`worker.rs:1971`); the walk goes on.
* The question of Clear temporary files is answered without a second look at the
  state (`main.rs:4358`): the directory of a running recognition may go.
* A failed connection leaves the value it stored or replaced in the keyring.

## 4. Proofs

`AppStateProofs` proves, for all sets of identifiers, configurations, models and
secret kinds and every sequence bound:

* `AlwaysConsistent`: `Spec => []Consistent`. `Consistent` joins the type
  invariant with the links between saved rows, models, storage and pending
  requests. None of the links is inductive alone: that a deletion leaves no
  dangling reference needs the rows to be keyed by their identifiers, that a model
  selection keeps the saved row's link needs the row of the active provider to be
  stored, and dropping the database needs both. One lemma per reducer
  method shows that it preserves `Consistent`; `ConsistentInductive` takes the
  actions one by one.
* `TypeCorrect`, `NoDanglingProfile`, `OnlyOfferedModels`,
  `DegradedStorageIsEmpty`, `ConnectingIsPending`: the parts, as properties of
  `Spec`, each one an invariant of the run `app_state`.
* `SwitchIsAtomic`: `Spec => AtomicSwitch`, from the type part of the same
  invariant.

`DatabaseFileProofs` proves `DbSpec => []OpensWhatItChecked` for any directories and any
number of changes. The invariant `Checked` speaks of the worker's own record (directory
private from the first step on, the open file the validated or the new one) and only of
the types of what the names stand for, which others change at will; one lemma per step.

`DesktopProofs` is about four slices of the desktop, each with an invariant of its own.

* `Workspace`: `OneGrantOneRequest` (`WsSpec => []OneRequestPerGrant`) and
  `RequestsAreAsShown` (`WsSpec => OptionsAsShown`), for any jobs, fallbacks and number of
  actions. Counting alone is not inductive: `Covered` adds that an approval which is
  marked has not been used, so the request that clears it is paid for. `ShownInv` adds
  that the options a request would be made of are those the user did last, and that
  the dropdown shows the quality of the state unless `refresh_ui` has just panicked. The
  handler of Translate is taken with an arbitrary workspace and approvals, since the
  button and the window that asks call it with different ones.
* `SourceImport`: `RecognitionIsAnswered` (`SiSpec => []OcrAnswered`). `ImportInv` says
  where the end of a recognition can be: in the queue of commands, at the worker, or in
  an event that settles it, whatever the job was created for.
* `LocalData`: `ControlsAreFreed`, `PolicyIsRespected` and `LogsAreShown`, for any entries,
  clicks, refusals, failed reads and restarts. Each says something of a moment when
  the answers have arrived, so the invariant `LdInv` is about what is still under way:
  a loss of the database is in the queue of events or known (`StorageOK`); a switch has
  one change under way at most, as a command or as its answer (`FlightOK`); the reports of
  a switch come in the order read-at-start, changed, and the last one is what is stored
  (`SwitchOK`); a text sent with a log off stands in the queue before the command that
  switches it on (`TextOK`); the last report about a log is right, earlier ones may not
  be (`CountOK`); a control that waits has something to wait for (`FreedOK`). All but
  types, `StorageOK` and `FreedOK` hold only while the database is open. The lemmas on
  queues (`Held`, `Before`, `AtMostOne`, `LastOf` after an append and after a take) are
  what the proofs share. A restart leads to the initial states (`StartedInv`).
* `RoutingEditor`: `RowsStayWhole` (`ReSpec => []RowsWhole`) and `EditAndSaveKeep`
  (`ReSpec => EditKeepsProfile`), for any number of providers, models, stored candidates and
  changes. The second says that Edit and Save keep the mode and the constraints, name the
  same providers, once each, as far as they still have a row and a model, and keep a
  candidate that is up to date as it was; it says nothing of the order. `SaveStoresShown`
  is the step of `Save` from the rows to the candidates made anew. `ReInv` adds to `RowsWhole` that a loaded profile is on display until something is
  changed (`Sound`). Rows are sequences of any length, so their lemmas need induction: a
  set of numbers that holds 0 and with every number the next one is `Nat` (`NatSetInduction`,
  from the theorem that `<` is well-founded). With it the recursive functions are shown to
  exist and to keep the rows (`OnlyKeeps`, `PairwiseKeeps`).
  `EditTurnsLastPair` says what the moves of Edit do: in every reachable dialog, Edit of a
  profile whose last two candidates have rows puts the last one directly before the other,
  for any order of the rows and any number of candidates.

`ProviderSessionProofs`, for any limits and any set `Unawaited` unless stated otherwise:

* `SavedRowIsStored` (`SavedInStore`) and `AlwaysRestorable` (`StoreRestorable`). They
  hold by `SessionInv`: the window is `ConsistentState` as in `AppStateProofs`; the
  queues hold commands and events with payloads of their types; the job the worker is
  at, its active profile and its saved row belong together; the database has one row
  per identifier and its default among them. A crash keeps the database part alone.
* `WindowIsAppState`: `MaxCrashes = 0 => (Spec => ImplementsAppState)`. Each
  handler and each application of an event is the action of `AppState` of that name, every
  other step a stutter. Within the life of one process only, since a restart begins another
  window. With it `WindowStaysConsistent` carries `Consistent` over to the window
  that the real worker drives, crashes included.
* `ServedAsShown` and `AtMostOneAnswer`: `Spec /\ []HasRoom => []ServedByShown` and
  `... => []OneAnswer`, for `Unawaited = {}`. The invariant `Phase` says where the one request
  under way is: the window at the start, at rest, asked (its command is queued), dialling,
  streaming (the events of the stream in order, and the text the window shows), or answered
  (the answer is unread). Neither condition can be dropped. With the failures of `"test"`,
  `"cleanup"` or `"storage"` reported unawaited TLC finds `ServedByShown` violated (the
  first of them is finding 1), and `OneAnswer` with the first two. With a queue of one
  command it finds both violated: a connection that cannot be queued is reported as a
  failure while the worker serves the window's earlier request.
* `WindowIsUpToDate`: `Spec /\ []HasRoom => []UpToDate`, for `Unawaited = {}`; TLC finds
  `UpToDate` violated with any one of the three failures unawaited, and with a queue of
  one command. The invariant `Current` says where the one report that changes what the
  window shows can be: at the head of the unread events, with only quiet reports after it,
  and applied to the window it makes it show the worker's session and the rows of the
  store; or it has been read. That the worker's answer is accepted rests on `Phase`, which
  keeps what the window waits for next to the command that asks it, and on `SavedInStore`.
  That quiet reports, any number of them, leave the view alone is an induction over the
  queue (`SettledShows`, as for the rows of `RoutingEditor`).

`DocumentJobsProofs`, for any jobs, segments, places and limits: `JobTypes`,
`TranslatingIsStored` (`ActiveIsRunning`), `CompletedDocumentIsWhole`, `CapacityKept`,
`SlotHandlesAreCurrent`, `StreamPerJob`, and the action property `RequestsStay`. The
invariant `JobInv` joins these with what they need: the start that is awaited counts
against the limit (`Capacity`), is of a job that is not running yet (`StartIsFree`), and a
segment's events in the channel are those of the task that works on it (`StreamInv`).

`TranslationStreamProofs`: `TextGoesWhereNamed` (`SentInOrder`) and `OpenCircuitsRest`, for
any providers, models, thresholds and routes. The first is about the request under way: what
was asked so far, followed by what is left of the walk (`Served`) or by the fallback still
to come (`Direct`), is in the order of the providers which that request names, so a plain
text reaches the active provider alone. Their invariant `WalkInv` says that what is
left of the walk over the candidates follows what was asked, so nothing is asked twice, and
that a provider counts as failed only with its failures counted. `RecordedTextIsShown` and
`OneStreamIsSeen` (the steps of `ImplementsContract`) hold if a request changes its provider
at most once, `OneChange`. The code does not promise that (automatic routing builds longer
routes); with three candidates the run `stream_sequence` finds the contract violated
(finding 4). `FlowInv` adds to the walk what has been emitted, the offset of
the numbers, the events still unread and the text the window would show.

`ExportFileProofs`: `SavedFilesAreWhole` (`SavedIsWhole`) and `OthersFilesStay`
(`NothingOverwritten`), for any number of exports, name suffixes and other programs. The
invariant follows a file by its inode: what an export wrote and synced is in the inode that
its temporary name has, then the final one (`ExInv`).

`CredentialsProofs`: `ProfileHasItsCredentials` (`CredentialsKept`), for any slots and
values. `CrInv`: a reference in a row, in the form or in a queued command was stored in the
keyring before it was written down, and what is removed is no longer in any of them.

Assumptions on constants, each checked by a run: `ConstantsAssumption` of `AppStateOps` (the
disabled configurations are configurations, the secret kinds are among the three of the
code, `None` is no identifier, model, profile or number); `SessionAssumption`,
`StreamAssumption`, `DocumentAssumption`, `ExportAssumption`, `CredentialAssumption`,
`ImportAssumption`, `LocalAssumption`, `EditorAssumption`
(limits are natural numbers, capacities at least one, sets finite where they are counted, and the fault
values are none of the others); `NoneAssumption`; `DatabaseAssumption` (directories are
positive numbers and 1 is among them). `AppState` alone also assumes that `MaxSequence` is
a natural number.

Model-checked only: every liveness property, as fairness is beyond the prover.

## 5. Not modelled

Localization (lookup and formatting); layout, theme, clipboard, onboarding and
preferences; Connect's form validation; the decoders of document formats and the wording
of reports, which are functions of their input; SQLite, D-Bus encoding, the engine and
Core's routing policy, which are outside `src/` and appear only through what they may
answer. In `ProviderSession` the 64-event limit (the window never blocks, so a full
queue only delays the worker) and shutdown, which `DocumentJobs` and
`TranslationStream` have. In `DocumentJobs` texts and the bounded task channel (it only
delays a task), listing, and `UpdateDocumentSegment`, which the window does not send.
The session and the documents are separate modules: that the worker refuses one while
it runs the other is in `LocalData` and `SourceImport`, but a connection that changes
while a document waits for its start is not modelled.

The pipe of a child process (`ocr.rs:200`): `SourceImport` lets a child that writes more
than the pipe holds stall until its deadline, as the code does.

## 6. Plan

1. Done: the modules above.
2. Session and documents composed through the shared slot and the refusals of the
   document loop; the window's `document_job_id`.
3. Proofs: `ServedAsShown`, `AtMostOneAnswer` and `WindowIsUpToDate` under conditions on the
   failures that occur in a run instead of on `Unawaited`.
