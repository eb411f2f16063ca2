---------------------------- MODULE DocumentJobs ----------------------------
(***************************************************************************)
(* Document jobs in the core worker (src/src/worker.rs).  The worker loop  *)
(* serves one command at a time; a job that translates has one spawned     *)
(* task, which streams the events of one segment into a channel shared by  *)
(* all jobs.  While any job runs the loop prefers, in this order, the      *)
(* shutdown signal, a command, an event (biased select).  Each finished    *)
(* segment is written to the database before the next one starts, and the  *)
(* database is all that a restart finds.                                   *)
(*                                                                         *)
(* The client is the window: the Document jobs dialog acts on the list it  *)
(* was opened with, so any command may name any job at any time.           *)
(*                                                                         *)
(* Left out: texts, locales and options other than whether they name a     *)
(* routing profile; events to the window; export and listing, which change *)
(* nothing; OCR.  A provider that does not match, a missing routing        *)
(* profile or a refused request is the nondeterministic rejection.         *)
(***************************************************************************)
EXTENDS Naturals, Sequences, FiniteSets

CONSTANTS
  Jobs,        \* document job identifiers
  NSegs,       \* prose segments of a document
  MaxActive,   \* MAX_ACTIVE_DOCUMENT_JOBS
  CmdCap,      \* COMMAND_CAPACITY
  MaxOps,      \* bound: commands the client sends
  MaxCrashes,  \* bound: crashes and restarts of the process
  None

ASSUME DocumentAssumption ==
  /\ NSegs \in Nat \ {0} /\ MaxActive \in Nat \ {0} /\ CmdCap \in Nat \ {0}
  /\ MaxOps \in Nat /\ MaxCrashes \in Nat
  /\ None \notin Jobs

VARIABLES
  store,      \* the document jobs of the database
  active,     \* active_documents: the job's segment and the requests made of it
  tasks,      \* the spawned task of a job: its segment, what it sent, its token
  chan,       \* document_events
  cmds,       \* the command queue
  slot,       \* active_cancellation: a connection being made, or handles of jobs
  starting,   \* the start of a job that the worker awaits
  worker,     \* the loop runs, or has stopped
  shutdown,   \* shutdown_cancellation
  closed,     \* CoreWorker was dropped: no sender of commands is left
  ops, crashes

vars == <<store, active, tasks, chan, cmds, slot, starting, worker, shutdown, closed, ops,
          crashes>>

Segs == 1..NSegs
States == {"Pending", "Running", "Paused", "Completed", "Cancelled", "Failed"}
Snapshots == [state : States, done : SUBSET Segs, options : {"none", "plain", "routed"}]
Translations == [seg : Segs, cancel : BOOLEAN, pause : BOOLEAN, stop : BOOLEAN]
Streams == [seg : Segs, sent : BOOLEAN, cancelled : BOOLEAN]
TaskEvents == [job : Jobs, seg : Segs,
               kind : {"TextDelta", "Completed", "Cancelled", "Failed", "StreamEnded"}]
Starts == [job : Jobs, options : {"plain", "routed"}]

\* None is an Option's None: it is no value that an option of the worker can hold.
ASSUME NoneAssumption ==
  None \notin Snapshots /\ None \notin Translations /\ None \notin Streams /\ None \notin Starts

NoJobs == [j \in Jobs |-> None]
NoSlot == [conn |-> FALSE, jobs |-> {}]

ActiveJobs == {j \in Jobs : active[j] # None}
Jobful(a)  == {j \in Jobs : a[j] # None}
Pending(s) == Segs \ s.done
\* Fault: segments are counted from zero.
NextSegment_zero_based(s) == Cardinality(s.done)

\* The first prose segment without a translation.
NextSegment(s) == CHOOSE i \in Pending(s) : \A k \in Pending(s) : i <= k
is_resumable(s) == s.state \in {"Pending", "Running", "Paused"}

---------------------------------------------------------------------------
\* What CreateDocumentJob stores.
Imported == [state |-> "Pending", done |-> {}, options |-> "none"]

\* The database may hold documents that were imported in an earlier session.
Init ==
  /\ store \in [Jobs -> {None, Imported}] /\ active = NoJobs /\ tasks = NoJobs
  /\ chan = <<>> /\ cmds = <<>> /\ slot = NoSlot /\ starting = None
  /\ worker = "running" /\ shutdown = FALSE /\ closed = FALSE
  /\ ops = 0 /\ crashes = 0

\* The process ends, in whatever state it is, and is started again.
Restart ==
  /\ crashes < MaxCrashes /\ crashes' = crashes + 1
  /\ active' = NoJobs /\ tasks' = NoJobs /\ chan' = <<>> /\ cmds' = <<>>
  /\ slot' = NoSlot /\ starting' = None
  /\ worker' = "running" /\ shutdown' = FALSE /\ closed' = FALSE
  /\ UNCHANGED <<store, ops>>

---------------------------------------------------------------------------
(* CoreWorker::try_send and Drop.                                          *)

JobCommands ==
  [op : {"Create", "Translate", "TranslateRouted", "Resume", "Retry", "Pause", "CancelJob",
         "Delete"},
   job : Jobs]

Queue(c) == cmds' = IF Len(cmds) < CmdCap THEN Append(cmds, c) ELSE cmds
Cancelled(S) ==
  [j \in Jobs |-> IF j \in S /\ tasks[j] # None THEN [tasks[j] EXCEPT !.cancelled = TRUE]
                  ELSE tasks[j]]
Sends == ~closed /\ worker = "running" /\ ops < MaxOps /\ ops' = ops + 1

\* An imported document gets an identifier that no stored job has.
SendCommand(c) ==
  /\ Sends
  /\ c.op = "Create" => store[c.job] = None /\ \A i \in 1..Len(cmds) : cmds[i] # c
  /\ Queue(c)
  /\ UNCHANGED <<store, active, tasks, chan, slot, starting, worker, shutdown, closed, crashes>>

\* Cancel goes to whatever the slot holds, else into the queue.
SendCancel ==
  /\ Sends
  /\ IF slot # NoSlot THEN tasks' = Cancelled(slot.jobs) /\ cmds' = cmds
     ELSE Queue([op |-> "Cancel"]) /\ tasks' = tasks
  /\ UNCHANGED <<store, active, chan, slot, starting, worker, shutdown, closed, crashes>>

SendShutdown ==
  /\ Sends
  /\ Queue([op |-> "Shutdown"]) /\ shutdown' = TRUE /\ tasks' = Cancelled(slot.jobs)
  /\ UNCHANGED <<store, active, chan, slot, starting, worker, closed, crashes>>

Drop ==
  /\ Sends
  /\ Queue([op |-> "Shutdown"]) /\ shutdown' = TRUE /\ closed' = TRUE
  /\ tasks' = Cancelled(slot.jobs) /\ slot' = NoSlot
  /\ UNCHANGED <<store, active, chan, starting, worker, crashes>>

---------------------------------------------------------------------------
(* The task of a segment: text, then one terminal event, or the stream     *)
(* just ends.  The token is only looked at by the engine (external), whose *)
(* result may already be on its way.                                       *)

TaskStep(j) ==
  /\ tasks[j] # None
  /\ \E k \in {"TextDelta", "Completed", "Cancelled", "Failed", "StreamEnded"} :
       /\ k = "TextDelta" => ~tasks[j].sent
       /\ k = "Cancelled" => tasks[j].cancelled
       /\ chan' = Append(chan, [job |-> j, seg |-> tasks[j].seg, kind |-> k])
       /\ tasks' = [tasks EXCEPT ![j] = IF k = "TextDelta" THEN [@ EXCEPT !.sent = TRUE]
                                        ELSE None]
  /\ UNCHANGED <<store, active, cmds, slot, starting, worker, shutdown, closed, ops, crashes>>

---------------------------------------------------------------------------
(* Starting and ending a segment.                                          *)

Fresh(seg) == [seg |-> seg, cancel |-> FALSE, pause |-> FALSE, stop |-> FALSE]

\* Fault: a job that already translates may be started.
HasCapacity_twice(j) == Cardinality(ActiveJobs) < MaxActive

\* Fault: one job too many.
HasCapacity_plus_one(j) == Cardinality(ActiveJobs) <= MaxActive /\ active[j] = None

\* ensure_document_job_capacity
HasCapacity(j) == Cardinality(ActiveJobs) < MaxActive /\ active[j] = None

\* begin_document_segment and activate_document_translation.
Activate(j, s) ==
  /\ active' = [active EXCEPT ![j] = Fresh(NextSegment(s))]
  /\ tasks' = [tasks EXCEPT ![j] = [seg |-> NextSegment(s), sent |-> FALSE, cancelled |-> FALSE]]

\* Fault: the handles of the last job stay.
RefreshSlot_uncleared(idle) ==
  slot' = IF idle \/ Jobful(active') = {} THEN slot
          ELSE [conn |-> FALSE, jobs |-> Jobful(active')]

\* set_document_cancellations, which runs after a step with jobs, not after an idle one.
RefreshSlot(idle) ==
  slot' = IF idle \/ Jobful(active') = {} THEN NoSlot
          ELSE [conn |-> FALSE, jobs |-> Jobful(active')]

SetState(j, st) == [store EXCEPT ![j].state = st]

\* update_document_segment: the state follows from the segments that are left.
WithSegment(s, seg) ==
  LET d == s.done \cup {seg}
  IN  [s EXCEPT !.done = d, !.state = IF d = Segs THEN "Completed" ELSE "Running"]

\* The loop ends: queued commands are rejected and the tasks cannot send any more.
Exit ==
  /\ worker' = "stopped" /\ active' = NoJobs /\ tasks' = NoJobs
  /\ chan' = <<>> /\ cmds' = <<>> /\ slot' = NoSlot

---------------------------------------------------------------------------
(* The worker takes a command.                                             *)

Awake == worker = "running" /\ starting = None
IdleLoop == Awake /\ ActiveJobs = {} /\ ~shutdown
Signalled == shutdown /\ \E j \in ActiveJobs : ~active[j].stop
BusyLoop == Awake /\ ActiveJobs # {} /\ ~Signalled
Takes(op) == (IdleLoop \/ BusyLoop) /\ cmds # <<>> /\ Head(cmds).op = op /\ cmds' = Tail(cmds)

\* The command is answered with a rejection.
Rejected ==
  /\ UNCHANGED <<store, active, tasks, starting>>
  /\ IF ActiveJobs = {} THEN slot' = slot ELSE RefreshSlot(FALSE)

CreateDocumentJob ==
  LET j == Head(cmds).job IN
  /\ Takes("Create")
  /\ \/ Rejected
     \/ /\ ActiveJobs = {}
        /\ store' = [store EXCEPT ![j] = Imported]
        /\ UNCHANGED <<active, tasks, slot, starting>>
  /\ UNCHANGED <<chan, worker, shutdown, closed, ops, crashes>>

\* Fault: a job may be deleted while it translates.
DeleteDocumentJob_anytime ==
  /\ Takes("Delete")
  /\ store' = [store EXCEPT ![Head(cmds).job] = None]
  /\ UNCHANGED <<active, tasks, slot, starting, chan, worker, shutdown, closed, ops, crashes>>

\* delete_document_job is refused while any job translates.
DeleteDocumentJob ==
  /\ Takes("Delete")
  /\ \/ Rejected
     \/ /\ ActiveJobs = {}
        /\ store' = [store EXCEPT ![Head(cmds).job] = None]
        /\ UNCHANGED <<active, tasks, slot, starting>>
  /\ UNCHANGED <<chan, worker, shutdown, closed, ops, crashes>>

MayStart(j, retry) ==
  /\ store[j] # None /\ Pending(store[j]) # {}
  /\ IF retry THEN store[j].state # "Completed" ELSE is_resumable(store[j])

\* The job is marked Running; its first segment may still fail to begin.
StartPlain(j, options) ==
  LET s == [store[j] EXCEPT !.state = "Running", !.options = options] IN
  /\ store' = [store EXCEPT ![j] = s]
  /\ Activate(j, s) \/ UNCHANGED <<active, tasks>>
  /\ RefreshSlot(ActiveJobs = {})
  /\ starting' = starting

\* A routed start first connects the candidate.  While an idle worker starts a job it
\* was asked to resume or route, Cancel reaches that start and not the queue.
AwaitStart(j, options) ==
  /\ starting' = [job |-> j, options |-> options]
  /\ slot' = IF ActiveJobs = {} THEN [conn |-> TRUE, jobs |-> {}] ELSE slot
  /\ UNCHANGED <<store, active, tasks>>

TranslateDocumentJob ==
  LET j == Head(cmds).job IN
  /\ Takes("Translate")
  /\ Rejected \/ (HasCapacity(j) /\ MayStart(j, FALSE) /\ StartPlain(j, "plain"))
  /\ UNCHANGED <<chan, worker, shutdown, closed, ops, crashes>>

TranslateDocumentJobWithRouting ==
  LET j == Head(cmds).job IN
  /\ Takes("TranslateRouted")
  /\ Rejected \/ (HasCapacity(j) /\ MayStart(j, FALSE) /\ AwaitStart(j, "routed"))
  /\ UNCHANGED <<chan, worker, shutdown, closed, ops, crashes>>

\* Resume and Retry use the options of the first start; without them they are refused.
ResumeDocumentJob ==
  LET j == Head(cmds).job
      options == store[j].options
  IN  /\ Takes("Resume") \/ Takes("Retry")
      /\ \/ Rejected
         \/ /\ HasCapacity(j) /\ MayStart(j, Head(cmds).op = "Retry") /\ options # "none"
            /\ IF ActiveJobs = {} \/ options = "routed" THEN AwaitStart(j, options)
               ELSE StartPlain(j, options)
      /\ UNCHANGED <<chan, worker, shutdown, closed, ops, crashes>>

\* The start is refused, fails after the job was marked (a routed job goes back to
\* Pending, a plain one stays Running), or the job runs.
FinishStart ==
  LET j == starting.job
      s == [store[j] EXCEPT !.options = starting.options, !.state = "Running"]
      failed == IF starting.options = "routed" THEN [s EXCEPT !.state = "Pending"] ELSE s
  IN  /\ worker = "running" /\ starting # None /\ starting' = None
      /\ \/ UNCHANGED <<store, active, tasks>>
         \/ store' = [store EXCEPT ![j] = failed] /\ UNCHANGED <<active, tasks>>
         \/ store' = [store EXCEPT ![j] = s] /\ Activate(j, s)
      /\ RefreshSlot(ActiveJobs = {})
      /\ UNCHANGED <<chan, cmds, worker, shutdown, closed, ops, crashes>>

\* A translating job notes the request and cancels its segment.
Ask(j, r) ==
  /\ active' = [active EXCEPT ![j] = IF r = "cancel" THEN [@ EXCEPT !.cancel = TRUE]
                                     ELSE [@ EXCEPT !.pause = TRUE]]
  /\ tasks' = Cancelled({j})
  /\ RefreshSlot(FALSE)
  /\ UNCHANGED <<store, starting>>

PauseDocumentJob ==
  LET j == Head(cmds).job IN
  /\ Takes("Pause")
  /\ \/ active[j] # None /\ Ask(j, "pause")
     \/ active[j] = None /\ Rejected
     \/ /\ ActiveJobs = {} /\ store[j] # None /\ is_resumable(store[j])
        /\ store' = SetState(j, "Paused") /\ UNCHANGED <<active, tasks, slot, starting>>
  /\ UNCHANGED <<chan, worker, shutdown, closed, ops, crashes>>

\* An idle worker marks any stored job Cancelled, whatever its state.
CancelDocumentJob ==
  LET j == Head(cmds).job IN
  /\ Takes("CancelJob")
  /\ \/ active[j] # None /\ Ask(j, "cancel")
     \/ active[j] = None /\ Rejected
     \/ /\ ActiveJobs = {} /\ store[j] # None
        /\ store' = SetState(j, "Cancelled") /\ UNCHANGED <<active, tasks, slot, starting>>
  /\ UNCHANGED <<chan, worker, shutdown, closed, ops, crashes>>

\* Cancel asks every translating job; an idle worker ignores it.
Cancel ==
  /\ Takes("Cancel")
  /\ active' = [j \in Jobs |-> IF active[j] = None THEN None ELSE [active[j] EXCEPT !.cancel = TRUE]]
  /\ tasks' = Cancelled(ActiveJobs)
  /\ IF ActiveJobs = {} THEN slot' = slot ELSE RefreshSlot(FALSE)
  /\ UNCHANGED <<store, chan, starting, worker, shutdown, closed, ops, crashes>>

---------------------------------------------------------------------------
(* Shutting down.                                                          *)

StopAll ==
  /\ active' = [j \in Jobs |-> IF active[j] = None THEN None ELSE [active[j] EXCEPT !.stop = TRUE]]
  /\ tasks' = Cancelled(ActiveJobs)
  /\ RefreshSlot(FALSE)

ShutdownSignal ==
  /\ Awake /\ Signalled /\ StopAll
  /\ UNCHANGED <<store, chan, cmds, starting, worker, shutdown, closed, ops, crashes>>

ShutdownCommand ==
  /\ BusyLoop /\ Takes("Shutdown") /\ StopAll
  /\ UNCHANGED <<store, chan, starting, worker, shutdown, closed, ops, crashes>>

\* Fault: the signal is not looked at, only the command, which a full queue drops.
IdleShutdown_by_command ==
  /\ Awake /\ ActiveJobs = {}
  /\ cmds # <<>> /\ Head(cmds).op = "Shutdown"
  /\ Exit
  /\ UNCHANGED <<store, starting, shutdown, closed, ops, crashes>>

IdleShutdown ==
  /\ Awake /\ ActiveJobs = {}
  /\ shutdown \/ (cmds # <<>> /\ Head(cmds).op = "Shutdown")
  /\ Exit
  /\ UNCHANGED <<store, starting, shutdown, closed, ops, crashes>>

---------------------------------------------------------------------------
(* The worker takes an event.                                              *)

\* A dropped command channel is always ready (recv gives None) and goes first.
TakesEvent == BusyLoop /\ cmds = <<>> /\ ~closed /\ chan # <<>>
Current(e) ==
  active[e.job] # None /\ (e.kind = "StreamEnded" \/ active[e.job].seg = e.seg)

\* An event of no running segment, or one that only adds text.
DocumentText ==
  LET e == Head(chan) IN
  /\ TakesEvent /\ chan' = Tail(chan)
  /\ ~Current(e) \/ e.kind = "TextDelta"
  /\ slot' = IF Current(e) \/ e.kind = "StreamEnded"
             THEN [conn |-> FALSE, jobs |-> ActiveJobs] ELSE slot
  /\ UNCHANGED <<store, active, tasks, cmds, starting, worker, shutdown, closed, ops, crashes>>

\* The loop goes on without job j, or ends if j had to stop.
Leave(j) ==
  IF active[j].stop THEN Exit
  ELSE /\ active' = [active EXCEPT ![j] = None] /\ chan' = Tail(chan)
       /\ RefreshSlot(FALSE) /\ UNCHANGED <<tasks, cmds, worker>>

\* Fault: a pause asked during the segment is not looked at.
SegmentCompleted_unpaused ==
  LET e == Head(chan)
      j == e.job
      s == WithSegment(store[j], e.seg)
  IN  /\ TakesEvent /\ Current(e) /\ e.kind = "Completed"
      /\ \/ store' = store /\ Leave(j)
         \/ /\ s.state = "Completed" \/ active[j].stop
            /\ store' = [store EXCEPT ![j] = s] /\ Leave(j)
         \/ /\ s.state # "Completed" /\ ~active[j].stop
            /\ store' = [store EXCEPT ![j] = s]
            /\ \/ Leave(j)
               \/ /\ Activate(j, s) /\ RefreshSlot(FALSE)
                  /\ chan' = Tail(chan) /\ UNCHANGED <<cmds, worker>>
      /\ UNCHANGED <<starting, shutdown, closed, ops, crashes>>

\* The segment is stored, then the job pauses, ends or goes on; any write may fail.
SegmentCompleted ==
  LET e == Head(chan)
      j == e.job
      s == WithSegment(store[j], e.seg)
      over == s.state = "Completed" \/ active[j].stop \/ active[j].pause
  IN  /\ TakesEvent /\ Current(e) /\ e.kind = "Completed"
      /\ \/ store' = store /\ Leave(j)
         \/ over /\ store' = [store EXCEPT ![j] = s] /\ Leave(j)
         \/ /\ active[j].pause /\ s.state # "Completed"
            /\ store' = [store EXCEPT ![j] = [s EXCEPT !.state = "Paused"]] /\ Leave(j)
         \/ ~over /\ store' = [store EXCEPT ![j] = s] /\ Leave(j)
         \/ /\ ~over /\ store' = [store EXCEPT ![j] = s]
            /\ Activate(j, s) /\ RefreshSlot(FALSE)
            /\ chan' = Tail(chan) /\ UNCHANGED <<cmds, worker>>
      /\ UNCHANGED <<starting, shutdown, closed, ops, crashes>>

\* Fault: a stream that just ends is not an end.
SegmentEnded_terminal_only ==
  LET e == Head(chan)
      j == e.job
      st == IF active[j].pause THEN "Paused" ELSE IF active[j].cancel THEN "Cancelled" ELSE "Failed"
  IN  /\ TakesEvent /\ Current(e) /\ e.kind \in {"Cancelled", "Failed"}
      /\ store' = store \/ (~active[j].stop /\ store' = SetState(j, st))
      /\ Leave(j)
      /\ UNCHANGED <<starting, shutdown, closed, ops, crashes>>

\* Fault: a stream that just ends is taken for the end of the document.
SegmentEnded_as_completed ==
  LET e == Head(chan)
      j == e.job
      st == IF e.kind = "StreamEnded" THEN "Completed"
            ELSE IF active[j].pause THEN "Paused"
            ELSE IF active[j].cancel THEN "Cancelled" ELSE "Failed"
  IN  /\ TakesEvent /\ Current(e) /\ e.kind \in {"Cancelled", "Failed", "StreamEnded"}
      /\ store' = store \/ (~active[j].stop /\ store' = SetState(j, st))
      /\ Leave(j)
      /\ UNCHANGED <<starting, shutdown, closed, ops, crashes>>

\* Cancelled, failed or cut off: the job's state says which request it answers.
SegmentEnded ==
  LET e == Head(chan)
      j == e.job
      st == IF e.kind = "StreamEnded" THEN "Failed"
            ELSE IF active[j].pause THEN "Paused"
            ELSE IF active[j].cancel THEN "Cancelled" ELSE "Failed"
  IN  /\ TakesEvent /\ Current(e) /\ e.kind \in {"Cancelled", "Failed", "StreamEnded"}
      /\ store' = store \/ (~active[j].stop /\ store' = SetState(j, st))
      /\ Leave(j)
      /\ UNCHANGED <<starting, shutdown, closed, ops, crashes>>

---------------------------------------------------------------------------
Client == (\E c \in JobCommands : SendCommand(c)) \/ SendCancel \/ SendShutdown \/ Drop

Worker ==
  \/ CreateDocumentJob \/ DeleteDocumentJob
  \/ TranslateDocumentJob \/ TranslateDocumentJobWithRouting \/ ResumeDocumentJob
  \/ FinishStart \/ PauseDocumentJob \/ CancelDocumentJob \/ Cancel
  \/ ShutdownSignal \/ ShutdownCommand \/ IdleShutdown
  \/ DocumentText \/ SegmentCompleted \/ SegmentEnded

Next == Client \/ Worker \/ Restart \/ \E j \in Jobs : TaskStep(j)

\* The loop and the tasks are always polled, and every network wait has a time-out.
Spec == Init /\ [][Next]_vars /\ WF_vars(Worker) /\ \A j \in Jobs : WF_vars(TaskStep(j))

---------------------------------------------------------------------------
(* Properties.                                                             *)

\* The stored jobs, the running ones, their tasks, the queues and the slot have the
\* types of the worker's maps and channels.
TypeOK ==
  /\ store \in [Jobs -> Snapshots \cup {None}]
  /\ active \in [Jobs -> Translations \cup {None}]
  /\ tasks \in [Jobs -> Streams \cup {None}]
  /\ chan \in Seq(TaskEvents)
  /\ cmds \in Seq(JobCommands \cup [op : {"Cancel", "Shutdown"}])
  /\ slot \in [conn : BOOLEAN, jobs : SUBSET Jobs]
  /\ starting \in Starts \cup {None}
  /\ worker \in {"running", "stopped"} /\ shutdown \in BOOLEAN /\ closed \in BOOLEAN
  /\ ops \in Nat /\ crashes \in Nat

\* A job that translates is stored as Running and its segment is not yet stored: no
\* deletion, pause or completion happened under it and no work is done twice.
ActiveIsRunning ==
  \A j \in ActiveJobs :
    store[j] # None /\ store[j].state = "Running" /\ active[j].seg \notin store[j].done

\* A document is reported Completed only when all its segments are stored.
CompletedIsWhole ==
  \A j \in Jobs : store[j] # None /\ store[j].state = "Completed" => store[j].done = Segs

Events(j) == {i \in 1..Len(chan) : chan[i].job = j}
EndEvents(j) == {i \in Events(j) : chan[i].kind # "TextDelta"}

\* A job has exactly one stream while it translates and none otherwise: its task is
\* alive or its last event waits in the channel, and all its events are of the
\* segment it translates.  So no text goes to another segment or another run.
OneStream ==
  \A j \in Jobs :
    /\ tasks[j] = None /\ Events(j) = {} <=> active[j] = None
    /\ active[j] # None =>
         /\ \A i \in Events(j) : chan[i].seg = active[j].seg
         /\ tasks[j] # None => tasks[j].seg = active[j].seg /\ EndEvents(j) = {}
         /\ tasks[j] = None => \E i \in Events(j) : EndEvents(j) = {i} /\ \A k \in Events(j) : k <= i

\* No more than MAX_ACTIVE_DOCUMENT_JOBS jobs translate at once.
WithinCapacity == Cardinality(ActiveJobs) <= MaxActive

\* The handles in the slot are those of the jobs that translate: Stop never cancels
\* through the handle of a job that has left, nor a job short of the others.
SlotIsCurrent == slot.jobs # {} => slot.jobs = ActiveJobs /\ ~slot.conn

\* A pause or a shutdown asked of a translating job is never forgotten: the job does
\* not go on to a segment that does not know of it.
RequestsStick ==
  [][\A j \in Jobs : active[j] # None /\ active'[j] # None =>
       (active[j].pause => active'[j].pause) /\ (active[j].stop => active'[j].stop)]_vars

\* The same for a cancellation: "Stop cancels the active document segment", and the
\* job does not go on to a segment that does not know of it.
CancelSticks ==
  [][\A j \in Jobs : active[j] # None /\ active'[j] # None =>
       (active[j].cancel => active'[j].cancel)]_vars

\* Every job that translates leaves the worker in the end, unless CoreWorker was
\* dropped: then the closed command channel keeps the loop from its events.
JobEnds == \A j \in Jobs : active[j] # None ~> active[j] = None \/ closed

\* A requested shutdown stops the worker, whatever runs and however full the queue.
ShutdownStops == shutdown ~> worker = "stopped" \/ closed \/ ~shutdown
============================================================================
