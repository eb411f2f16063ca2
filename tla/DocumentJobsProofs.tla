------------------------- MODULE DocumentJobsProofs -------------------------
(***************************************************************************)
(* Document jobs, for any jobs, any number of segments, any capacity of    *)
(* the worker and of its queue, and any number of commands and crashes: a  *)
(* job that translates has one stream and is stored as Running, no more    *)
(* than MAX_ACTIVE_DOCUMENT_JOBS do, and a pause or a shutdown asked of    *)
(* one is not forgotten.                                                   *)
(***************************************************************************)
EXTENDS DocumentJobs, FiniteSetTheorems, SequenceTheorems, WellFoundedInduction, TLAPS

Commands == JobCommands \cup [op : {"Cancel", "Shutdown"}]

\* WithinCapacity, for a set that is finite: Cardinality says nothing of another one.
Capacity == IsFiniteSet(ActiveJobs) /\ Cardinality(ActiveJobs) <= MaxActive

\* The job whose start the worker awaits may be started when the answer comes.
StartIsFree ==
  starting # None =>
    /\ active[starting.job] = None /\ Cardinality(ActiveJobs) < MaxActive
    /\ store[starting.job] # None /\ Pending(store[starting.job]) # {}

\* OneStream by positions: an event is of the segment its job translates, an end is the
\* last event of a job without a task, and a job without a task has an end.
StreamInv ==
  /\ \A i \in 1..Len(chan) :
       /\ active[chan[i].job] # None /\ chan[i].seg = active[chan[i].job].seg
       /\ chan[i].kind # "TextDelta" =>
            /\ tasks[chan[i].job] = None
            /\ \A k \in 1..Len(chan) : k > i => chan[k].job # chan[i].job
  /\ \A j \in Jobs :
       /\ tasks[j] # None => active[j] # None /\ tasks[j].seg = active[j].seg
       /\ active[j] # None /\ tasks[j] = None =>
            \E i \in 1..Len(chan) : chan[i].job = j /\ chan[i].kind # "TextDelta"

\* The inductive invariant.
JobInv ==
  /\ TypeOK /\ ActiveIsRunning /\ CompletedIsWhole /\ SlotIsCurrent
  /\ Capacity /\ StartIsFree /\ StreamInv

---------------------------------------------------------------------------
(* What a step does to the jobs, their tasks and their events.             *)

Sound(s) == s \in Snapshots /\ (s.state = "Completed" => s.done = Segs)
Stores(j) == store' = store \/ \E s : (s = None \/ Sound(s)) /\ store' = [store EXCEPT ![j] = s]

\* Only requests are noted.
Asked ==
  /\ store' = store /\ chan' = chan
  /\ active' \in [Jobs -> Translations \cup {None}] /\ tasks' \in [Jobs -> Streams \cup {None}]
  /\ \A j \in Jobs :
       /\ active'[j] = None <=> active[j] = None
       /\ active[j] # None =>
            /\ active'[j].seg = active[j].seg
            /\ active[j].pause => active'[j].pause
            /\ active[j].stop => active'[j].stop
       /\ tasks'[j] = None <=> tasks[j] = None
       /\ tasks[j] # None => tasks'[j].seg = tasks[j].seg

\* A job that does not translate is stored anew.
Saved(j) == active[j] = None /\ Stores(j) /\ UNCHANGED <<active, tasks, chan>>

Begins(j) ==
  \E s : /\ Sound(s) /\ s.state = "Running" /\ Pending(s) # {}
         /\ store' = [store EXCEPT ![j] = s] /\ Activate(j, s)
Started(j) ==
  /\ active[j] = None /\ Cardinality(ActiveJobs) < MaxActive
  /\ Begins(j) /\ chan' = chan

Heard(j) == chan # <<>> /\ Head(chan).job = j /\ chan' = Tail(chan)
TextHeard(j) == Heard(j) /\ Head(chan).kind = "TextDelta" /\ UNCHANGED <<store, active, tasks>>
Finished(j) ==
  /\ Heard(j) /\ Head(chan).kind # "TextDelta"
  /\ Stores(j) /\ active' = [active EXCEPT ![j] = None] /\ tasks' = tasks
Continued(j) ==
  /\ Heard(j) /\ Head(chan).kind # "TextDelta"
  /\ active[j] # None /\ ~active[j].pause /\ ~active[j].stop
  /\ Begins(j)

Halted ==
  /\ store' = store \/ \E j \in Jobs : Stores(j)
  /\ active' = NoJobs /\ tasks' = NoJobs /\ chan' = <<>>

Shape ==
  \/ Asked \/ Halted
  \/ \E j \in Jobs : \/ Saved(j) \/ Started(j) \/ TaskStep(j)
                     \/ TextHeard(j) \/ Finished(j) \/ Continued(j)

\* The slot is kept, empty or new.
SlotKept ==
  \/ slot' = slot /\ Jobful(active') = ActiveJobs
  \/ slot' \in [conn : BOOLEAN, jobs : {{}}]
  \/ slot' = [conn |-> FALSE, jobs |-> Jobful(active')]

\* The rest of TypeOK.
ControlOK ==
  /\ cmds \in Seq(Commands)
  /\ starting \in Starts \cup {None}
  /\ worker \in {"running", "stopped"} /\ shutdown \in BOOLEAN /\ closed \in BOOLEAN
  /\ ops \in Nat /\ crashes \in Nat

Steps == Shape /\ SlotKept /\ ControlOK' /\ StartIsFree'

---------------------------------------------------------------------------
(* The operators of the model.                                             *)

\* A document with segments left has a first one.
LEMMA FirstIsPending ==
  ASSUME NEW s, Pending(s) # {}
  PROVE  NextSegment(s) \in Pending(s) /\ NextSegment(s) \in Segs
<1>1. Pending(s) \subseteq Nat /\ Pending(s) \subseteq Segs
  BY DocumentAssumption DEF Pending, Segs
<1> DEFINE R == OpToRel(<, Nat)
<1>2. IsWellFoundedOn(R, Nat)
  BY NatLessThanWellFounded
<1>3. \A y, z \in Nat : y < z => <<y, z>> \in R
  BY Zenon DEF OpToRel
<1> HIDE DEF R
<1>4. PICK x \in Pending(s) : \A y \in Pending(s) : ~(<<y, x>> \in R)
  BY <1>1, <1>2, WFMin
<1>5. ASSUME NEW y \in Pending(s)
      PROVE  x <= y
  <2>1. x \in Nat /\ y \in Nat
    BY <1>1
  <2>2. ~(y < x)
    BY <1>3, <1>4, <2>1, Zenon
  <2> QED
    BY <2>1, <2>2
<1> QED
  BY <1>1, <1>5 DEF NextSegment

\* A cancelled task is still the same stream.
LEMMA CancelledKeeps ==
  ASSUME TypeOK, NEW S
  PROVE  /\ Cancelled(S) \in [Jobs -> Streams \cup {None}]
         /\ \A j \in Jobs : /\ Cancelled(S)[j] = None <=> tasks[j] = None
                            /\ tasks[j] # None => Cancelled(S)[j].seg = tasks[j].seg
BY NoneAssumption, ZenonT(40) DEF TypeOK, Cancelled, Streams

\* A command that waits, or one more, or one less.
LEMMA QueueKeeps ==
  ASSUME TypeOK, NEW c \in Commands, Queue(c)
  PROVE  cmds' \in Seq(Commands)
BY AppendProperties DEF TypeOK, Queue, Commands

LEMMA TakesKeeps ==
  ASSUME TypeOK, NEW op, Takes(op)
  PROVE  /\ cmds' \in Seq(Commands)
         /\ op \notin {"Cancel", "Shutdown"} => Head(cmds) \in JobCommands /\ Head(cmds).job \in Jobs
         /\ starting = None /\ worker = "running"
<1>1. cmds \in Seq(Commands) /\ cmds # <<>> /\ cmds' = Tail(cmds) /\ Head(cmds).op = op
  BY DEF TypeOK, Takes, Commands
<1>2. cmds' \in Seq(Commands) /\ Head(cmds) \in Commands
  BY <1>1, HeadTailProperties
<1> QED
  BY <1>1, <1>2 DEF Commands, JobCommands, Takes, IdleLoop, BusyLoop, Awake

---------------------------------------------------------------------------
(* Each shape of a step keeps the jobs, their tasks and their events sound.  *)

\* A job whose stored state is sound.
LEMMA StoreIsSound ==
  ASSUME JobInv, NEW j \in Jobs, store[j] # None
  PROVE  Sound(store[j])
BY DEF JobInv, TypeOK, CompletedIsWhole, Sound

\* What is stored stays sound.
LEMMA StoresKeep ==
  ASSUME JobInv, NEW j \in Jobs, Stores(j)
  PROVE  /\ store' \in [Jobs -> Snapshots \cup {None}] /\ CompletedIsWhole'
         /\ \A k \in Jobs : k # j => store'[k] = store[k]
<1>1. CASE store' = store
  BY <1>1 DEF JobInv, TypeOK, CompletedIsWhole
<1>2. CASE \E s : (s = None \/ Sound(s)) /\ store' = [store EXCEPT ![j] = s]
  BY <1>2 DEF JobInv, TypeOK, CompletedIsWhole, Sound
<1> QED
  BY <1>1, <1>2 DEF Stores

\* A job that begins a segment is stored as Running, and the segment is not stored.
LEMMA BeginsKeeps ==
  ASSUME JobInv, NEW j \in Jobs, Begins(j)
  PROVE  /\ store' \in [Jobs -> Snapshots \cup {None}] /\ CompletedIsWhole'
         /\ active' \in [Jobs -> Translations \cup {None}]
         /\ tasks' \in [Jobs -> Streams \cup {None}]
         /\ \A k \in Jobs : k # j => /\ store'[k] = store[k] /\ active'[k] = active[k]
                                     /\ tasks'[k] = tasks[k]
         /\ store'[j] # None /\ store'[j].state = "Running"
         /\ active'[j] # None /\ active'[j].seg \notin store'[j].done
         /\ tasks'[j] # None /\ tasks'[j].seg = active'[j].seg
<1>1. PICK s : /\ Sound(s) /\ s.state = "Running" /\ Pending(s) # {}
               /\ store' = [store EXCEPT ![j] = s] /\ Activate(j, s)
  BY DEF Begins
<1> DEFINE n == NextSegment(s)
<1>2. n \in Segs /\ n \notin s.done
  BY <1>1, FirstIsPending DEF Pending
<1>3. /\ active' = [active EXCEPT ![j] = Fresh(n)]
      /\ tasks' = [tasks EXCEPT ![j] = [seg |-> n, sent |-> FALSE, cancelled |-> FALSE]]
  BY <1>1 DEF Activate
<1> HIDE DEF n
<1>4. /\ Fresh(n) \in Translations /\ Fresh(n).seg = n
      /\ [seg |-> n, sent |-> FALSE, cancelled |-> FALSE] \in Streams
  BY <1>2 DEF Fresh, Translations, Streams
<1>5. Stores(j) /\ store'[j] = s /\ s # None
  BY <1>1, NoneAssumption DEF Stores, Sound, JobInv, TypeOK
<1> QED
  BY <1>1, <1>2, <1>3, <1>4, <1>5, StoresKeep, NoneAssumption DEF JobInv, TypeOK

\* The number of jobs that translate, when one starts or leaves.
LEMMA CountKeeps ==
  ASSUME JobInv, NEW j \in Jobs, \A k \in Jobs : k # j => active'[k] = active[k],
         active'[j] = None \/ active[j] # None \/ Cardinality(ActiveJobs) < MaxActive
  PROVE  Capacity'
<1>1. IsFiniteSet(ActiveJobs) /\ Cardinality(ActiveJobs) \in Nat
  BY FS_CardinalityType DEF JobInv, Capacity
<1>2. CASE active'[j] = None
  <2>1. ActiveJobs' = ActiveJobs \ {j}
    BY <1>2 DEF ActiveJobs
  <2>2. /\ IsFiniteSet(ActiveJobs')
        /\ Cardinality(ActiveJobs') = Cardinality(ActiveJobs) \/ Cardinality(ActiveJobs') = Cardinality(ActiveJobs) - 1
    BY <1>1, <2>1, FS_RemoveElement, Zenon
  <2>3. Cardinality(ActiveJobs) <= MaxActive
    BY DEF JobInv, Capacity
  <2> QED
    BY <1>1, <2>2, <2>3, DocumentAssumption DEF Capacity
<1>3. CASE active'[j] # None /\ active[j] # None
  <2>1. ActiveJobs' = ActiveJobs
    BY <1>3 DEF ActiveJobs
  <2> QED
    BY <2>1 DEF JobInv, Capacity
<1>4. CASE active'[j] # None /\ active[j] = None
  <2>1. ActiveJobs' = ActiveJobs \cup {j} /\ Cardinality(ActiveJobs) < MaxActive
    BY <1>4 DEF ActiveJobs
  <2> QED
    BY <1>1, <2>1, FS_AddElement, DocumentAssumption DEF JobInv, Capacity
<1> QED
  BY <1>2, <1>3, <1>4

\* The events of the channel name jobs.
LEMMA EventsTyped ==
  ASSUME JobInv
  PROVE  /\ chan \in Seq(TaskEvents) /\ Len(chan) \in Nat
         /\ \A i \in 1..Len(chan) : chan[i] \in TaskEvents /\ chan[i].job \in Jobs
<1>1. chan \in Seq(TaskEvents)
  BY DEF JobInv, TypeOK
<1>2. Len(chan) \in Nat /\ \A i \in 1..Len(chan) : chan[i] \in TaskEvents
  BY <1>1, ElementOfSeq, LenProperties
<1> QED
  BY <1>1, <1>2 DEF TaskEvents

\* The data part of the invariant, by which the shapes are judged.
DataInv ==
  /\ store \in [Jobs -> Snapshots \cup {None}]
  /\ active \in [Jobs -> Translations \cup {None}]
  /\ tasks \in [Jobs -> Streams \cup {None}]
  /\ chan \in Seq(TaskEvents)
  /\ ActiveIsRunning /\ CompletedIsWhole /\ Capacity /\ StreamInv

\* A request changes no segment and no stream.
LEMMA AskedKeeps ==
  ASSUME JobInv, Asked
  PROVE  DataInv'
<1>1. ActiveJobs' = ActiveJobs
  BY DEF Asked, ActiveJobs
<1>2. ActiveIsRunning' /\ CompletedIsWhole'
  BY <1>1 DEF Asked, ActiveJobs, JobInv, ActiveIsRunning, CompletedIsWhole
<1>3. Capacity'
  BY <1>1 DEF JobInv, Capacity
<1>4. \A i \in 1..Len(chan) : chan[i].job \in Jobs
  BY EventsTyped
<1>5. StreamInv'
  BY <1>4 DEF Asked, JobInv, StreamInv
<1> QED
  BY <1>2, <1>3, <1>5 DEF DataInv, Asked, JobInv, TypeOK

\* A job that does not translate may be stored, deleted or marked.
LEMMA SavedKeeps ==
  ASSUME JobInv, NEW j \in Jobs, Saved(j)
  PROVE  DataInv'
<1>1. ActiveJobs' = ActiveJobs /\ j \notin ActiveJobs
  BY DEF Saved, ActiveJobs
<1>2. ActiveIsRunning'
  BY <1>1, StoresKeep DEF Saved, JobInv, ActiveIsRunning, ActiveJobs
<1>3. Capacity' /\ StreamInv'
  BY <1>1 DEF Saved, JobInv, Capacity, StreamInv
<1> QED
  BY <1>2, <1>3, StoresKeep DEF Saved, DataInv, JobInv, TypeOK

\* A job that begins a segment has no older events.
LEMMA BeginsRuns ==
  ASSUME JobInv, NEW j \in Jobs, Begins(j)
  PROVE  ActiveIsRunning'
BY BeginsKeeps DEF JobInv, ActiveIsRunning, ActiveJobs

LEMMA StartedKeeps ==
  ASSUME JobInv, NEW j \in Jobs, Started(j)
  PROVE  DataInv'
<1>1. Begins(j) /\ active[j] = None /\ Cardinality(ActiveJobs) < MaxActive /\ chan' = chan
  BY DEF Started
<1>2. Capacity' /\ ActiveIsRunning'
  BY <1>1, BeginsKeeps, BeginsRuns, CountKeeps
<1>3. \A i \in 1..Len(chan) : chan[i].job \in Jobs /\ chan[i].job # j
  BY <1>1, EventsTyped DEF JobInv, StreamInv
<1>4. StreamInv'
  BY <1>1, <1>3, BeginsKeeps, SMTT(30) DEF JobInv, StreamInv
<1> QED
  BY <1>1, <1>2, <1>4, BeginsKeeps DEF DataInv, JobInv, TypeOK

\* The worker and its tasks are gone, and with them all events.
LEMMA HaltedKeeps ==
  ASSUME JobInv, Halted
  PROVE  DataInv'
<1>1. store' \in [Jobs -> Snapshots \cup {None}] /\ CompletedIsWhole'
  BY StoresKeep DEF Halted, JobInv, TypeOK, CompletedIsWhole
<1>2. ActiveJobs' = {}
  BY DEF Halted, NoJobs, ActiveJobs
<1>3. ActiveIsRunning' /\ Capacity'
  BY <1>2, FS_EmptySet, DocumentAssumption DEF ActiveIsRunning, Capacity
<1>4. Len(chan') = 0 /\ chan' \in Seq(TaskEvents)
  BY DEF Halted
<1>5. StreamInv'
  BY <1>4 DEF Halted, NoJobs, StreamInv
<1> QED
  BY <1>1, <1>3, <1>4, <1>5 DEF Halted, NoJobs, DataInv

\* A stream sends text, or its end, which is then the last event of its job.
LEMMA TaskStepKeeps ==
  ASSUME JobInv, NEW j \in Jobs, TaskStep(j)
  PROVE  DataInv'
<1>1. PICK k \in {"TextDelta", "Completed", "Cancelled", "Failed", "StreamEnded"} :
        /\ chan' = Append(chan, [job |-> j, seg |-> tasks[j].seg, kind |-> k])
        /\ tasks' = [tasks EXCEPT ![j] = IF k = "TextDelta" THEN [@ EXCEPT !.sent = TRUE]
                                         ELSE None]
  BY DEF TaskStep
<1>2. /\ tasks[j] # None /\ tasks[j] \in Streams /\ tasks[j].seg \in Segs
      /\ store' = store /\ active' = active
  BY DEF TaskStep, JobInv, TypeOK, Streams
<1> DEFINE e == [job |-> j, seg |-> tasks[j].seg, kind |-> k]
<1>3. e \in TaskEvents
  BY <1>2 DEF TaskEvents
<1>4. /\ chan' \in Seq(TaskEvents) /\ Len(chan') = Len(chan) + 1
      /\ \A i \in 1..Len(chan) : chan'[i] = chan[i]
      /\ chan'[Len(chan) + 1] = e
  BY <1>1, <1>3, EventsTyped, AppendProperties
<1>5. /\ tasks' \in [Jobs -> Streams \cup {None}]
      /\ \A i \in Jobs : i # j => tasks'[i] = tasks[i]
      /\ k = "TextDelta" => tasks'[j] # None /\ tasks'[j].seg = tasks[j].seg
      /\ k # "TextDelta" => tasks'[j] = None
  <2>1. [tasks[j] EXCEPT !.sent = TRUE] \in Streams /\ [tasks[j] EXCEPT !.sent = TRUE].seg = tasks[j].seg
    BY <1>2 DEF Streams
  <2> QED
    BY <1>1, <2>1, NoneAssumption DEF JobInv, TypeOK
<1>6. active[j] # None /\ tasks[j].seg = active[j].seg
  BY <1>2 DEF JobInv, StreamInv
<1>7. \A i \in 1..Len(chan) : chan[i].job = j => chan[i].kind = "TextDelta"
  BY <1>2 DEF JobInv, StreamInv
<1>8. ASSUME NEW i \in 1..Len(chan')
      PROVE  /\ active[chan'[i].job] # None /\ chan'[i].seg = active[chan'[i].job].seg
             /\ chan'[i].kind # "TextDelta" =>
                  /\ tasks'[chan'[i].job] = None
                  /\ \A n \in 1..Len(chan') : n > i => chan'[n].job # chan'[i].job
  <2>1. Len(chan) \in Nat
    BY EventsTyped
  <2>2. CASE i = Len(chan) + 1
    BY <1>4, <1>5, <1>6, <2>1, <2>2
  <2>3. CASE i \in 1..Len(chan)
    <3>1. chan'[i] = chan[i]
      BY <1>4, <2>3
    <3>2. /\ active[chan[i].job] # None /\ chan[i].seg = active[chan[i].job].seg
      BY <2>3 DEF JobInv, StreamInv
    <3>3. ASSUME chan[i].kind # "TextDelta"
          PROVE  /\ tasks'[chan[i].job] = None
                 /\ \A n \in 1..Len(chan') : n > i => chan'[n].job # chan[i].job
      <4>1. chan[i].job # j /\ chan[i].job \in Jobs
        BY <1>7, <2>3, <3>3, EventsTyped
      <4>2. /\ tasks[chan[i].job] = None
            /\ \A n \in 1..Len(chan) : n > i => chan[n].job # chan[i].job
        BY <2>3, <3>3 DEF JobInv, StreamInv
      <4> QED
        BY <1>4, <1>5, <2>1, <4>1, <4>2, SMTT(30)
    <3> QED
      BY <3>1, <3>2, <3>3
  <2> QED
    BY <1>4, <2>1, <2>2, <2>3
<1>9. ASSUME NEW i \in Jobs
      PROVE  /\ tasks'[i] # None => active[i] # None /\ tasks'[i].seg = active[i].seg
             /\ active[i] # None /\ tasks'[i] = None =>
                  \E n \in 1..Len(chan') : chan'[n].job = i /\ chan'[n].kind # "TextDelta"
  <2>1. Len(chan) \in Nat
    BY EventsTyped
  <2>2. CASE i = j
    BY <1>4, <1>5, <1>6, <2>1, <2>2
  <2>3. CASE i # j
    BY <1>4, <1>5, <2>1, <2>3 DEF JobInv, StreamInv
  <2> QED
    BY <2>2, <2>3
<1>10. StreamInv'
  BY <1>2, <1>8, <1>9 DEF StreamInv
<1> QED
  BY <1>2, <1>4, <1>5, <1>10
  DEF DataInv, JobInv, TypeOK, ActiveIsRunning, CompletedIsWhole, Capacity, ActiveJobs

\* The worker takes the oldest event.
LEMMA HeardIsFirst ==
  ASSUME JobInv, NEW j \in Jobs, Heard(j)
  PROVE  /\ chan' \in Seq(TaskEvents) /\ Len(chan') \in Nat /\ Len(chan) = Len(chan') + 1
         /\ chan[1] = Head(chan) /\ chan[1].job = j
         /\ \A i \in 1..Len(chan') : i + 1 \in 1..Len(chan) /\ chan'[i] = chan[i + 1]
<1>1. chan \in Seq(TaskEvents) /\ chan # <<>> /\ chan' = Tail(chan) /\ Head(chan).job = j
  BY EventsTyped DEF Heard
<1>2. /\ chan' \in Seq(TaskEvents) /\ Len(chan') = Len(chan) - 1
      /\ \A i \in 1..Len(chan') : chan'[i] = chan[i + 1]
  BY <1>1, HeadTailProperties
<1>3. Len(chan') \in Nat /\ Len(chan) \in Nat
  BY <1>1, <1>2, LenProperties
<1>4. chan[1] = Head(chan)
  BY <1>1
<1> QED
  BY <1>1, <1>2, <1>3, <1>4

\* The events that are left still belong to their streams.
LEMMA TailStream ==
  ASSUME JobInv, NEW j \in Jobs, Heard(j), NEW i \in 1..Len(chan')
  PROVE  /\ active[chan'[i].job] # None /\ chan'[i].seg = active[chan'[i].job].seg
         /\ chan'[i].kind # "TextDelta" =>
              /\ tasks[chan'[i].job] = None
              /\ \A n \in 1..Len(chan') : n > i => chan'[n].job # chan'[i].job
<1>1. i + 1 \in 1..Len(chan) /\ chan'[i] = chan[i + 1]
  BY HeardIsFirst
<1>2. active[chan'[i].job] # None /\ chan'[i].seg = active[chan'[i].job].seg
  BY <1>1 DEF JobInv, StreamInv
<1>3. ASSUME chan'[i].kind # "TextDelta"
      PROVE  /\ tasks[chan'[i].job] = None
             /\ \A n \in 1..Len(chan) : n > i + 1 => chan[n].job # chan'[i].job
  BY <1>1, <1>3 DEF JobInv, StreamInv
<1>4. ASSUME NEW n \in 1..Len(chan'), n > i
      PROVE  n + 1 \in 1..Len(chan) /\ n + 1 > i + 1 /\ chan'[n] = chan[n + 1]
  BY <1>4, HeardIsFirst
<1> QED
  BY <1>2, <1>3, <1>4

\* Text leaves the channel; the end of its stream is still to come.
LEMMA TextHeardKeeps ==
  ASSUME JobInv, NEW j \in Jobs, TextHeard(j)
  PROVE  DataInv'
<1>1. /\ Heard(j) /\ chan[1].kind = "TextDelta"
      /\ store' = store /\ active' = active /\ tasks' = tasks
  BY HeardIsFirst DEF TextHeard
<1>2. ASSUME NEW i \in 1..Len(chan')
      PROVE  /\ active[chan'[i].job] # None /\ chan'[i].seg = active[chan'[i].job].seg
             /\ chan'[i].kind # "TextDelta" =>
                  /\ tasks[chan'[i].job] = None
                  /\ \A n \in 1..Len(chan') : n > i => chan'[n].job # chan'[i].job
  BY <1>1, TailStream
<1>3. ASSUME NEW i \in Jobs, active[i] # None, tasks[i] = None
      PROVE  \E n \in 1..Len(chan') : chan'[n].job = i /\ chan'[n].kind # "TextDelta"
  <2>1. PICK m \in 1..Len(chan) : chan[m].job = i /\ chan[m].kind # "TextDelta"
    BY <1>3 DEF JobInv, StreamInv
  <2>2. m - 1 \in 1..Len(chan') /\ chan'[m - 1] = chan[m]
    BY <1>1, <2>1, HeardIsFirst
  <2> QED
    BY <2>1, <2>2
<1>4. StreamInv'
  BY <1>1, <1>2, <1>3 DEF JobInv, StreamInv
<1> QED
  BY <1>1, <1>4, HeardIsFirst
  DEF DataInv, JobInv, TypeOK, ActiveIsRunning, CompletedIsWhole, Capacity, ActiveJobs

\* With the end of its stream the last event of a job leaves the channel.
LEMMA EndIsLast ==
  ASSUME JobInv, NEW j \in Jobs, Heard(j), Head(chan).kind # "TextDelta"
  PROVE  /\ active[j] # None /\ tasks[j] = None
         /\ \A i \in 1..Len(chan') : chan'[i].job \in Jobs /\ chan'[i].job # j
<1>1. 1 \in 1..Len(chan) /\ chan[1].kind # "TextDelta" /\ chan[1].job = j
  BY HeardIsFirst
<1>2. /\ active[j] # None /\ tasks[j] = None
      /\ \A n \in 1..Len(chan) : n > 1 => chan[n].job # j
  BY <1>1 DEF JobInv, StreamInv
<1> QED
  BY <1>2, HeardIsFirst, EventsTyped

\* The streams of the other jobs when one job's last event is taken.
LEMMA OthersStream ==
  ASSUME JobInv, NEW j \in Jobs, Heard(j), Head(chan).kind # "TextDelta",
         \A k \in Jobs : k # j => active'[k] = active[k] /\ tasks'[k] = tasks[k],
         tasks'[j] = None <=> active'[j] = None,
         tasks'[j] # None => tasks'[j].seg = active'[j].seg
  PROVE  StreamInv'
<1>1. ASSUME NEW i \in 1..Len(chan')
      PROVE  /\ active'[chan'[i].job] # None /\ chan'[i].seg = active'[chan'[i].job].seg
             /\ chan'[i].kind # "TextDelta" =>
                  /\ tasks'[chan'[i].job] = None
                  /\ \A n \in 1..Len(chan') : n > i => chan'[n].job # chan'[i].job
  <2>1. chan'[i].job \in Jobs /\ chan'[i].job # j
    BY EndIsLast
  <2> QED
    BY <2>1, TailStream
<1>2. ASSUME NEW i \in Jobs
      PROVE  /\ tasks'[i] # None => active'[i] # None /\ tasks'[i].seg = active'[i].seg
             /\ active'[i] # None /\ tasks'[i] = None =>
                  \E n \in 1..Len(chan') : chan'[n].job = i /\ chan'[n].kind # "TextDelta"
  <2>1. CASE i = j
    BY <2>1
  <2>2. CASE i # j
    <3>1. active'[i] = active[i] /\ tasks'[i] = tasks[i]
      BY <2>2
    <3>2. tasks[i] # None => active[i] # None /\ tasks[i].seg = active[i].seg
      BY DEF JobInv, StreamInv
    <3>3. ASSUME active[i] # None, tasks[i] = None
          PROVE  \E n \in 1..Len(chan') : chan'[n].job = i /\ chan'[n].kind # "TextDelta"
      <4>1. PICK m \in 1..Len(chan) : chan[m].job = i /\ chan[m].kind # "TextDelta"
        BY <3>3 DEF JobInv, StreamInv
      <4>2. m - 1 \in 1..Len(chan') /\ chan'[m - 1] = chan[m]
        BY <2>2, <4>1, HeardIsFirst
      <4> QED
        BY <4>1, <4>2
    <3> QED
      BY <3>1, <3>2, <3>3
  <2> QED
    BY <2>1, <2>2
<1> QED
  BY <1>1, <1>2 DEF StreamInv

LEMMA FinishedKeeps ==
  ASSUME JobInv, NEW j \in Jobs, Finished(j)
  PROVE  DataInv'
<1>1. /\ Heard(j) /\ Head(chan).kind # "TextDelta" /\ Stores(j)
      /\ active' = [active EXCEPT ![j] = None] /\ tasks' = tasks
  BY DEF Finished
<1>2. /\ active' \in [Jobs -> Translations \cup {None}] /\ active'[j] = None
      /\ \A k \in Jobs : k # j => active'[k] = active[k]
  BY <1>1 DEF JobInv, TypeOK
<1>3. StreamInv'
  BY <1>1, <1>2, EndIsLast, OthersStream
<1>4. Capacity'
  BY <1>2, CountKeeps
<1>5. ActiveIsRunning'
  BY <1>1, <1>2, StoresKeep DEF JobInv, ActiveIsRunning, ActiveJobs
<1> QED
  BY <1>1, <1>2, <1>3, <1>4, <1>5, StoresKeep, HeardIsFirst DEF DataInv, JobInv, TypeOK

LEMMA ContinuedKeeps ==
  ASSUME JobInv, NEW j \in Jobs, Continued(j)
  PROVE  DataInv'
<1>1. Heard(j) /\ Head(chan).kind # "TextDelta" /\ Begins(j)
  BY DEF Continued
<1>2. active[j] # None /\ tasks[j] = None
  BY <1>1, EndIsLast
<1>3. StreamInv'
  BY <1>1, BeginsKeeps, OthersStream
<1>4. Capacity' /\ ActiveIsRunning'
  BY <1>1, <1>2, BeginsKeeps, BeginsRuns, CountKeeps
<1> QED
  BY <1>1, <1>3, <1>4, BeginsKeeps, HeardIsFirst DEF DataInv

\* Whatever the shape of the step, the data stays sound.
LEMMA ShapeKeeps ==
  ASSUME JobInv, Shape
  PROVE  DataInv'
BY AskedKeeps, HaltedKeeps, SavedKeeps, StartedKeeps, TaskStepKeeps, TextHeardKeeps,
   FinishedKeeps, ContinuedKeeps DEF Shape

---------------------------------------------------------------------------
(* Every action has one of the shapes.                                     *)

LEMMA RefreshKept ==
  ASSUME NEW idle, RefreshSlot(idle)
  PROVE  SlotKept
BY DEF RefreshSlot, SlotKept, NoSlot

\* Tasks may be cancelled at any time.
LEMMA CancelAsks ==
  ASSUME JobInv, UNCHANGED <<store, active, chan>>, tasks' = tasks \/ \E S : tasks' = Cancelled(S)
  PROVE  Asked
BY CancelledKeeps DEF Asked, JobInv, TypeOK

\* Neither does it disturb a start that is awaited.
LEMMA StartStays ==
  ASSUME JobInv, UNCHANGED <<store, active, starting>>
  PROVE  StartIsFree'
<1>1. ActiveJobs' = ActiveJobs
  BY DEF ActiveJobs
<1> QED
  BY <1>1 DEF JobInv, StartIsFree

\* A worker that is awake awaits no start.
LEMMA NoStart ==
  ASSUME starting' = None
  PROVE  StartIsFree'
BY DEF StartIsFree

LEMMA ClientSteps ==
  ASSUME JobInv, Client
  PROVE  Steps
<1>1. /\ UNCHANGED <<store, active, chan, starting, worker, crashes>>
      /\ tasks' = tasks \/ \E S : tasks' = Cancelled(S)
  BY DEF Client, SendCommand, SendCancel, SendShutdown, Drop
<1>2. Shape /\ StartIsFree'
  BY <1>1, CancelAsks, StartStays DEF Shape
<1>3. SlotKept
  <2>1. slot' = slot \/ slot' = NoSlot
    BY DEF Client, SendCommand, SendCancel, SendShutdown, Drop
  <2>2. Jobful(active') = ActiveJobs
    BY <1>1 DEF Jobful, ActiveJobs
  <2>3. NoSlot \in [conn : BOOLEAN, jobs : {{}}]
    BY DEF NoSlot
  <2> QED
    BY <2>1, <2>2, <2>3 DEF SlotKept
<1>4. cmds' \in Seq(Commands)
  <2>1. [op |-> "Cancel"] \in Commands /\ [op |-> "Shutdown"] \in Commands /\ JobCommands \subseteq Commands
    BY DEF Commands
  <2>2. CASE \E c \in JobCommands : SendCommand(c)
    BY <2>1, <2>2, QueueKeeps DEF SendCommand, JobInv
  <2>3. CASE SendCancel
    <3>1. CASE cmds' = cmds
      BY <3>1 DEF JobInv, TypeOK, Commands
    <3>2. CASE Queue([op |-> "Cancel"])
      BY <2>1, <3>2, QueueKeeps DEF JobInv
    <3> QED
      BY <2>3, <3>1, <3>2 DEF SendCancel
  <2>4. CASE SendShutdown \/ Drop
    BY <2>1, <2>4, QueueKeeps DEF SendShutdown, Drop, JobInv
  <2> QED
    BY <2>2, <2>3, <2>4 DEF Client
<1>5. shutdown' \in BOOLEAN /\ closed' \in BOOLEAN /\ ops' \in Nat
  <2>1. Sends /\ shutdown' \in {shutdown, TRUE} /\ closed' \in {closed, TRUE}
    BY DEF Client, SendCommand, SendCancel, SendShutdown, Drop
  <2>2. ops' \in Nat
    BY <2>1 DEF Sends, JobInv, TypeOK
  <2> QED
    BY <2>1, <2>2 DEF JobInv, TypeOK
<1>6. ControlOK'
  BY <1>1, <1>4, <1>5 DEF JobInv, TypeOK, ControlOK
<1> QED
  BY <1>2, <1>3, <1>6 DEF Steps

LEMMA TaskSteps ==
  ASSUME JobInv, NEW j \in Jobs, TaskStep(j)
  PROVE  Steps
<1>1. UNCHANGED <<store, active, cmds, slot, starting, worker, shutdown, closed, ops, crashes>>
  BY DEF TaskStep
<1>2. SlotKept
  BY <1>1 DEF SlotKept, Jobful, ActiveJobs
<1>3. ControlOK'
  BY <1>1 DEF JobInv, TypeOK, ControlOK, Commands
<1> QED
  BY <1>1, <1>2, <1>3, StartStays DEF Steps, Shape

LEMMA RestartSteps ==
  ASSUME JobInv, Restart
  PROVE  Steps
<1>1. Halted
  BY DEF Restart, Halted
<1>2. SlotKept
  BY DEF Restart, SlotKept, NoSlot
<1>3. ControlOK'
  <2>1. cmds' \in Seq(Commands)
    BY EmptySeq DEF Restart
  <2>2. ops' \in Nat /\ crashes' \in Nat
    BY DEF Restart, JobInv, TypeOK
  <2> QED
    BY <2>1, <2>2 DEF Restart, ControlOK
<1> QED
  BY <1>1, <1>2, <1>3, NoStart DEF Restart, Steps, Shape

\* What an action of the worker leaves alone once it has taken a command.
LEMMA TakenControl ==
  ASSUME JobInv, NEW op, Takes(op), starting' \in Starts \cup {None},
         UNCHANGED <<worker, shutdown, closed, ops, crashes>>
  PROVE  ControlOK'
<1>1. cmds' \in Seq(Commands)
  BY TakesKeeps DEF JobInv
<1> QED
  BY <1>1 DEF JobInv, TypeOK, ControlOK

LEMMA RejectedSteps ==
  ASSUME JobInv, NEW op, Takes(op), Rejected, UNCHANGED <<chan, worker, shutdown, closed, ops, crashes>>
  PROVE  Steps
<1>1. UNCHANGED <<store, active, tasks, starting>> /\ starting = None
  BY TakesKeeps DEF Rejected, JobInv
<1>2. Asked /\ StartIsFree'
  BY <1>1, CancelAsks, NoStart
<1>3. SlotKept
  BY <1>1, RefreshKept DEF Rejected, SlotKept, Jobful, ActiveJobs
<1> QED
  BY <1>1, <1>2, <1>3, TakenControl DEF Steps, Shape

\* A job of a worker without translating jobs does not translate.
LEMMA IdleJob ==
  ASSUME ActiveJobs = {}, NEW j \in Jobs
  PROVE  active[j] = None
BY DEF ActiveJobs

LEMMA CreateSteps ==
  ASSUME JobInv, CreateDocumentJob
  PROVE  Steps
<1> DEFINE j == Head(cmds).job
<1>1. Takes("Create") /\ UNCHANGED <<chan, worker, shutdown, closed, ops, crashes>>
  BY DEF CreateDocumentJob
<1>2. j \in Jobs
  BY <1>1, TakesKeeps DEF JobInv
<1>3. CASE Rejected
  BY <1>1, <1>3, RejectedSteps
<1>4. CASE /\ ActiveJobs = {} /\ store' = [store EXCEPT ![j] = Imported]
           /\ UNCHANGED <<active, tasks, slot, starting>>
  <2>1. Sound(Imported)
    BY DEF Sound, Imported, Snapshots, States
  <2>2. Saved(j)
    BY <1>1, <1>2, <1>4, <2>1, IdleJob DEF Saved, Stores
  <2>3. SlotKept
    BY <1>4 DEF SlotKept, Jobful, ActiveJobs
  <2>4. StartIsFree' /\ ControlOK'
    BY <1>1, <1>4, TakesKeeps, NoStart, TakenControl DEF JobInv
  <2> QED
    BY <1>2, <2>2, <2>3, <2>4 DEF Steps, Shape
<1> QED
  BY <1>3, <1>4 DEF CreateDocumentJob

LEMMA DeleteSteps ==
  ASSUME JobInv, DeleteDocumentJob
  PROVE  Steps
<1> DEFINE j == Head(cmds).job
<1>1. Takes("Delete") /\ UNCHANGED <<chan, worker, shutdown, closed, ops, crashes>>
  BY DEF DeleteDocumentJob
<1>2. j \in Jobs
  BY <1>1, TakesKeeps DEF JobInv
<1>3. CASE Rejected
  BY <1>1, <1>3, RejectedSteps
<1>4. CASE /\ ActiveJobs = {} /\ store' = [store EXCEPT ![j] = None]
           /\ UNCHANGED <<active, tasks, slot, starting>>
  <2>1. Saved(j)
    BY <1>1, <1>2, <1>4, IdleJob DEF Saved, Stores
  <2>2. SlotKept
    BY <1>4 DEF SlotKept, Jobful, ActiveJobs
  <2>3. StartIsFree' /\ ControlOK'
    BY <1>1, <1>4, TakesKeeps, NoStart, TakenControl DEF JobInv
  <2> QED
    BY <1>2, <2>1, <2>2, <2>3 DEF Steps, Shape
<1> QED
  BY <1>3, <1>4 DEF DeleteDocumentJob

\* An idle worker marks a job: Paused or Cancelled.
LEMMA MarkedSteps ==
  ASSUME JobInv, NEW op, Takes(op), NEW j \in Jobs, NEW st \in {"Paused", "Cancelled"},
         ActiveJobs = {}, store[j] # None, store' = SetState(j, st),
         UNCHANGED <<active, tasks, slot, starting, chan, worker, shutdown, closed, ops, crashes>>
  PROVE  Steps
<1>1. /\ [store[j] EXCEPT !.state = st] \in Snapshots
      /\ [store[j] EXCEPT !.state = st].state # "Completed"
  BY StoreIsSound DEF Sound, Snapshots, States
<1>2. store' = [store EXCEPT ![j] = [store[j] EXCEPT !.state = st]]
  BY DEF SetState
<1>3. Saved(j)
  BY <1>1, <1>2, IdleJob DEF Saved, Stores, Sound
<1>4. SlotKept
  BY DEF SlotKept, Jobful, ActiveJobs
<1>5. StartIsFree' /\ ControlOK'
  BY TakesKeeps, NoStart, TakenControl DEF JobInv
<1> QED
  BY <1>3, <1>4, <1>5 DEF Steps, Shape

\* A translating job is asked to stop.
LEMMA AskSteps ==
  ASSUME JobInv, NEW op, Takes(op), NEW j \in Jobs, NEW r, active[j] # None, Ask(j, r),
         UNCHANGED <<chan, worker, shutdown, closed, ops, crashes>>
  PROVE  Steps
<1>1. /\ active' = [active EXCEPT ![j] = IF r = "cancel" THEN [@ EXCEPT !.cancel = TRUE]
                                         ELSE [@ EXCEPT !.pause = TRUE]]
      /\ tasks' = Cancelled({j}) /\ RefreshSlot(FALSE) /\ UNCHANGED <<store, starting>>
  BY DEF Ask
<1>2. active[j] \in Translations
  BY DEF JobInv, TypeOK
<1>3. /\ active'[j] \in Translations /\ active'[j].seg = active[j].seg
      /\ active[j].pause => active'[j].pause
      /\ active[j].stop => active'[j].stop
  BY <1>1, <1>2 DEF Translations, JobInv, TypeOK
<1>4. /\ active' \in [Jobs -> Translations \cup {None}]
      /\ \A k \in Jobs : k # j => active'[k] = active[k]
  BY <1>1, <1>3 DEF JobInv, TypeOK
<1>5. Asked
  <2>1. active'[j] # None
    BY <1>3, NoneAssumption
  <2>2. \A k \in Jobs :
          /\ active'[k] = None <=> active[k] = None
          /\ active[k] # None => /\ active'[k].seg = active[k].seg
                                 /\ active[k].pause => active'[k].pause
                                 /\ active[k].stop => active'[k].stop
    BY <1>3, <1>4, <2>1
  <2> QED
    BY <1>1, <1>4, <2>2, CancelledKeeps DEF Asked, JobInv
<1>6. SlotKept /\ StartIsFree' /\ ControlOK'
  BY <1>1, TakesKeeps, NoStart, TakenControl, RefreshKept DEF JobInv
<1> QED
  BY <1>5, <1>6 DEF Steps, Shape

LEMMA PauseSteps ==
  ASSUME JobInv, PauseDocumentJob
  PROVE  Steps
<1> DEFINE j == Head(cmds).job
<1>1. Takes("Pause") /\ UNCHANGED <<chan, worker, shutdown, closed, ops, crashes>>
  BY DEF PauseDocumentJob
<1>2. j \in Jobs
  BY <1>1, TakesKeeps DEF JobInv
<1>3. CASE active[j] # None /\ Ask(j, "pause")
  BY <1>1, <1>2, <1>3, AskSteps
<1>4. CASE Rejected
  BY <1>1, <1>4, RejectedSteps
<1>5. CASE /\ ActiveJobs = {} /\ store[j] # None
           /\ store' = SetState(j, "Paused") /\ UNCHANGED <<active, tasks, slot, starting>>
  BY <1>1, <1>2, <1>5, MarkedSteps
<1> QED
  BY <1>3, <1>4, <1>5 DEF PauseDocumentJob

LEMMA CancelJobSteps ==
  ASSUME JobInv, CancelDocumentJob
  PROVE  Steps
<1> DEFINE j == Head(cmds).job
<1>1. Takes("CancelJob") /\ UNCHANGED <<chan, worker, shutdown, closed, ops, crashes>>
  BY DEF CancelDocumentJob
<1>2. j \in Jobs
  BY <1>1, TakesKeeps DEF JobInv
<1>3. CASE active[j] # None /\ Ask(j, "cancel")
  BY <1>1, <1>2, <1>3, AskSteps
<1>4. CASE Rejected
  BY <1>1, <1>4, RejectedSteps
<1>5. CASE /\ ActiveJobs = {} /\ store[j] # None
           /\ store' = SetState(j, "Cancelled") /\ UNCHANGED <<active, tasks, slot, starting>>
  BY <1>1, <1>2, <1>5, MarkedSteps
<1> QED
  BY <1>3, <1>4, <1>5 DEF CancelDocumentJob

\* Requests made of all translating jobs at once.
LEMMA RequestSteps ==
  ASSUME JobInv, tasks' = Cancelled(ActiveJobs), UNCHANGED <<store, chan>>,
         \/ active' = [k \in Jobs |-> IF active[k] = None THEN None ELSE [active[k] EXCEPT !.cancel = TRUE]]
         \/ active' = [k \in Jobs |-> IF active[k] = None THEN None ELSE [active[k] EXCEPT !.stop = TRUE]]
  PROVE  Asked /\ Jobful(active') = ActiveJobs
<1>1. ASSUME NEW k \in Jobs, active[k] # None
      PROVE  /\ active'[k] \in Translations /\ active'[k].seg = active[k].seg
             /\ active[k].pause => active'[k].pause
             /\ active[k].stop => active'[k].stop
  <2>1. active[k] \in Translations
    BY <1>1 DEF JobInv, TypeOK
  <2> QED
    BY <1>1, <2>1, ZenonT(40) DEF Translations
<1>2. \A k \in Jobs : active[k] = None => active'[k] = None
  OBVIOUS
<1>3. active' \in [Jobs -> Translations \cup {None}]
  BY <1>1, <1>2
<1>4. \A k \in Jobs : active'[k] = None <=> active[k] = None
  BY <1>1, <1>2, NoneAssumption
<1>5. Asked
  BY <1>1, <1>3, <1>4, CancelledKeeps DEF Asked, JobInv
<1>6. Jobful(active') = ActiveJobs
  BY <1>4 DEF Jobful, ActiveJobs
<1> QED
  BY <1>5, <1>6

LEMMA CancelSteps ==
  ASSUME JobInv, Cancel
  PROVE  Steps
<1>1. /\ Takes("Cancel") /\ UNCHANGED <<store, chan, starting, worker, shutdown, closed, ops, crashes>>
      /\ slot' = slot \/ RefreshSlot(FALSE)
  BY DEF Cancel
<1>2. Asked /\ Jobful(active') = ActiveJobs
  BY <1>1, RequestSteps DEF Cancel
<1>3. SlotKept
  BY <1>1, <1>2, RefreshKept DEF SlotKept
<1>4. StartIsFree' /\ ControlOK'
  BY <1>1, TakesKeeps, NoStart, TakenControl DEF JobInv
<1> QED
  BY <1>2, <1>3, <1>4 DEF Steps, Shape

LEMMA StopSteps ==
  ASSUME JobInv, ShutdownSignal \/ ShutdownCommand
  PROVE  Steps
<1>1. /\ StopAll /\ UNCHANGED <<store, chan, starting, worker, shutdown, closed, ops, crashes>>
      /\ starting = None /\ (cmds' = cmds \/ Takes("Shutdown"))
  BY DEF ShutdownSignal, ShutdownCommand, BusyLoop, Awake
<1>2. Asked /\ SlotKept
  BY <1>1, RequestSteps, RefreshKept DEF StopAll
<1>3. ControlOK'
  <2>1. CASE Takes("Shutdown")
    BY <1>1, <2>1, TakenControl
  <2>2. CASE cmds' = cmds
    BY <1>1, <2>2 DEF JobInv, TypeOK, ControlOK, Commands
  <2> QED
    BY <1>1, <2>1, <2>2
<1> QED
  BY <1>1, <1>2, <1>3, NoStart DEF Steps, Shape

\* The worker and everything it holds are gone.
LEMMA ExitSteps ==
  ASSUME JobInv, Exit, starting = None, store' = store \/ \E j \in Jobs : Stores(j),
         UNCHANGED <<starting, shutdown, closed, ops, crashes>>
  PROVE  Steps
<1>1. Halted
  BY DEF Exit, Halted
<1>2. SlotKept
  BY DEF Exit, SlotKept, NoSlot
<1>3. ControlOK'
  <2>1. cmds' \in Seq(Commands)
    BY EmptySeq DEF Exit
  <2> QED
    BY <2>1 DEF Exit, ControlOK, JobInv, TypeOK
<1> QED
  BY <1>1, <1>2, <1>3, NoStart DEF Steps, Shape

LEMMA IdleShutdownSteps ==
  ASSUME JobInv, IdleShutdown
  PROVE  Steps
BY ExitSteps DEF IdleShutdown, Awake

\* A job that is marked for its start.
LEMMA MarkedForStart ==
  ASSUME JobInv, NEW j \in Jobs, store[j] # None, NEW options \in {"plain", "routed"},
         NEW st \in {"Pending", "Running"}
  PROVE  LET s == [store[j] EXCEPT !.state = st, !.options = options]
         IN  Sound(s) /\ s.state = st /\ Pending(s) = Pending(store[j])
<1>1. store[j] \in Snapshots
  BY StoreIsSound DEF Sound
<1> QED
  BY <1>1 DEF Sound, Snapshots, States, Pending

\* A start is made at once, or the mark is all that is left of it.
LEMMA MarkedStarts ==
  ASSUME JobInv, NEW j \in Jobs, NEW s, Sound(s), s.state = "Running", Pending(s) # {},
         active[j] = None, Cardinality(ActiveJobs) < MaxActive,
         store' = [store EXCEPT ![j] = s], chan' = chan,
         Activate(j, s) \/ UNCHANGED <<active, tasks>>
  PROVE  Shape
<1>1. CASE Activate(j, s)
  BY <1>1 DEF Shape, Started, Begins
<1>2. CASE UNCHANGED <<active, tasks>>
  BY <1>2 DEF Shape, Saved, Stores
<1> QED
  BY <1>1, <1>2

LEMMA StartPlainSteps ==
  ASSUME JobInv, NEW op, Takes(op), NEW j \in Jobs, NEW options \in {"plain", "routed"},
         HasCapacity(j), store[j] # None, Pending(store[j]) # {}, StartPlain(j, options),
         UNCHANGED <<chan, worker, shutdown, closed, ops, crashes>>
  PROVE  Steps
<1> DEFINE s == [store[j] EXCEPT !.state = "Running", !.options = options]
<1>1. Sound(s) /\ s.state = "Running" /\ Pending(s) # {}
  BY MarkedForStart
<1>2. /\ store' = [store EXCEPT ![j] = s]
      /\ Activate(j, s) \/ UNCHANGED <<active, tasks>>
      /\ RefreshSlot(ActiveJobs = {}) /\ starting' = starting
  BY DEF StartPlain
<1> HIDE DEF s
<1>3. Shape
  BY <1>1, <1>2, MarkedStarts DEF HasCapacity
<1>4. SlotKept /\ StartIsFree' /\ ControlOK'
  BY <1>2, TakesKeeps, NoStart, TakenControl, RefreshKept DEF JobInv
<1> QED
  BY <1>3, <1>4 DEF Steps

\* A start that is awaited changes no job.
LEMMA AwaitSteps ==
  ASSUME JobInv, NEW op, Takes(op), NEW j \in Jobs, NEW options \in {"plain", "routed"},
         HasCapacity(j), store[j] # None, Pending(store[j]) # {}, AwaitStart(j, options),
         UNCHANGED <<chan, worker, shutdown, closed, ops, crashes>>
  PROVE  Steps
<1>1. /\ starting' = [job |-> j, options |-> options] /\ UNCHANGED <<store, active, tasks>>
      /\ slot' = slot \/ slot' = [conn |-> TRUE, jobs |-> {}]
  BY DEF AwaitStart
<1>2. Asked
  BY <1>1, CancelAsks
<1>3. ActiveJobs' = ActiveJobs /\ Jobful(active') = ActiveJobs
  BY <1>1 DEF ActiveJobs, Jobful
<1>4. SlotKept
  <2>1. [conn |-> TRUE, jobs |-> {}] \in [conn : BOOLEAN, jobs : {{}}]
    OBVIOUS
  <2> QED
    BY <1>1, <1>3, <2>1 DEF SlotKept
<1>5. starting' \in Starts
  BY <1>1 DEF Starts
<1>6. StartIsFree'
  BY <1>1, <1>3 DEF StartIsFree, HasCapacity, Pending
<1>7. ControlOK'
  BY <1>5, TakenControl
<1> QED
  BY <1>2, <1>4, <1>6, <1>7 DEF Steps, Shape

LEMMA TranslateSteps ==
  ASSUME JobInv, TranslateDocumentJob \/ TranslateDocumentJobWithRouting
  PROVE  Steps
<1> DEFINE j == Head(cmds).job
<1>1. CASE TranslateDocumentJob
  <2>1. Takes("Translate") /\ UNCHANGED <<chan, worker, shutdown, closed, ops, crashes>>
    BY <1>1 DEF TranslateDocumentJob
  <2>2. j \in Jobs
    BY <2>1, TakesKeeps DEF JobInv
  <2>3. CASE Rejected
    BY <2>1, <2>3, RejectedSteps
  <2>4. CASE HasCapacity(j) /\ MayStart(j, FALSE) /\ StartPlain(j, "plain")
    BY <2>1, <2>2, <2>4, StartPlainSteps DEF MayStart
  <2> QED
    BY <1>1, <2>3, <2>4 DEF TranslateDocumentJob
<1>2. CASE TranslateDocumentJobWithRouting
  <2>1. Takes("TranslateRouted") /\ UNCHANGED <<chan, worker, shutdown, closed, ops, crashes>>
    BY <1>2 DEF TranslateDocumentJobWithRouting
  <2>2. j \in Jobs
    BY <2>1, TakesKeeps DEF JobInv
  <2>3. CASE Rejected
    BY <2>1, <2>3, RejectedSteps
  <2>4. CASE HasCapacity(j) /\ MayStart(j, FALSE) /\ AwaitStart(j, "routed")
    BY <2>1, <2>2, <2>4, AwaitSteps DEF MayStart
  <2> QED
    BY <1>2, <2>3, <2>4 DEF TranslateDocumentJobWithRouting
<1> QED
  BY <1>1, <1>2

LEMMA ResumeSteps ==
  ASSUME JobInv, ResumeDocumentJob
  PROVE  Steps
<1> DEFINE j == Head(cmds).job
           options == store[j].options
<1>1. PICK op \in {"Resume", "Retry"} : Takes(op)
  BY DEF ResumeDocumentJob
<1>2. UNCHANGED <<chan, worker, shutdown, closed, ops, crashes>>
  BY DEF ResumeDocumentJob
<1>3. j \in Jobs
  BY <1>1, TakesKeeps DEF JobInv
<1>4. CASE Rejected
  BY <1>1, <1>2, <1>4, RejectedSteps
<1>5. CASE /\ HasCapacity(j) /\ MayStart(j, Head(cmds).op = "Retry") /\ options # "none"
           /\ AwaitStart(j, options) \/ StartPlain(j, options)
  <2>1. store[j] # None /\ Pending(store[j]) # {}
    BY <1>5 DEF MayStart
  <2>2. options \in {"plain", "routed"}
    BY <1>3, <1>5, <2>1, StoreIsSound DEF Sound, Snapshots
  <2> HIDE DEF options
  <2> QED
    BY <1>1, <1>2, <1>3, <1>5, <2>1, <2>2, AwaitSteps, StartPlainSteps
<1> QED
  BY <1>4, <1>5 DEF ResumeDocumentJob

\* The awaited start is refused, marks the job or makes it run.
LEMMA FinishSteps ==
  ASSUME JobInv, FinishStart
  PROVE  Steps
<1> DEFINE j == starting.job
           s == [store[j] EXCEPT !.state = "Running", !.options = starting.options]
           p == [store[j] EXCEPT !.state = "Pending", !.options = starting.options]
<1>1. /\ starting # None /\ starting' = None /\ RefreshSlot(ActiveJobs = {})
      /\ UNCHANGED <<chan, cmds, worker, shutdown, closed, ops, crashes>>
  BY DEF FinishStart
<1>2. starting \in Starts /\ j \in Jobs /\ starting.options \in {"plain", "routed"}
  BY <1>1 DEF JobInv, TypeOK, Starts
<1>3. /\ active[j] = None /\ Cardinality(ActiveJobs) < MaxActive
      /\ store[j] # None /\ Pending(store[j]) # {}
  BY <1>1, SMTT(30) DEF JobInv, StartIsFree
<1>4. Sound(s) /\ s.state = "Running" /\ Pending(s) # {} /\ Sound(p)
  BY <1>2, <1>3, MarkedForStart
<1>5. \/ UNCHANGED <<store, active, tasks>>
      \/ store' = [store EXCEPT ![j] = p] /\ UNCHANGED <<active, tasks>>
      \/ store' = [store EXCEPT ![j] = s] /\ (Activate(j, s) \/ UNCHANGED <<active, tasks>>)
  <2>1. /\ [[store[j] EXCEPT !.options = starting.options, !.state = "Running"] EXCEPT !.state = "Pending"] = p
        /\ [store[j] EXCEPT !.options = starting.options, !.state = "Running"] = s
    BY <1>2, <1>3, StoreIsSound DEF Sound, Snapshots
  <2> HIDE DEF s, p
  <2> QED
    BY <2>1 DEF FinishStart
<1> HIDE DEF s, p
<1>6. Shape
  <2>1. CASE UNCHANGED <<store, active, tasks>>
    BY <1>1, <2>1, CancelAsks DEF Shape
  <2>2. CASE store' = [store EXCEPT ![j] = p] /\ UNCHANGED <<active, tasks>>
    BY <1>1, <1>2, <1>3, <1>4, <2>2 DEF Shape, Saved, Stores
  <2>3. CASE store' = [store EXCEPT ![j] = s] /\ (Activate(j, s) \/ UNCHANGED <<active, tasks>>)
    BY <1>1, <1>2, <1>3, <1>4, <2>3, MarkedStarts
  <2> QED
    BY <1>5, <2>1, <2>2, <2>3
<1>7. SlotKept /\ StartIsFree'
  BY <1>1, NoStart, RefreshKept
<1>8. ControlOK'
  BY <1>1 DEF JobInv, TypeOK, ControlOK, Commands
<1> QED
  BY <1>6, <1>7, <1>8 DEF Steps

---------------------------------------------------------------------------
(* The worker takes an event.                                              *)

\* The job of the oldest event translates the segment of the event.
LEMMA HeadIsCurrent ==
  ASSUME JobInv, TakesEvent
  PROVE  LET e == Head(chan) IN
         /\ chan # <<>> /\ e \in TaskEvents /\ e.job \in Jobs /\ e.seg \in Segs
         /\ active[e.job] # None /\ active[e.job].seg = e.seg /\ Current(e)
         /\ store[e.job] # None /\ Sound(store[e.job]) /\ starting = None
<1>1. chan # <<>> /\ chan \in Seq(TaskEvents) /\ starting = None
  BY EventsTyped DEF TakesEvent, BusyLoop, Awake
<1>2. Head(chan) = chan[1] /\ 1 \in 1..Len(chan)
  BY <1>1, EmptySeq
<1>3. chan[1] \in TaskEvents /\ chan[1].job \in Jobs /\ chan[1].seg \in Segs
  BY <1>2, EventsTyped DEF TaskEvents
<1>4. active[chan[1].job] # None /\ chan[1].seg = active[chan[1].job].seg
  BY <1>2 DEF JobInv, StreamInv
<1>5. store[chan[1].job] # None /\ Sound(store[chan[1].job])
  BY <1>3, <1>4, StoreIsSound DEF JobInv, ActiveIsRunning, ActiveJobs
<1> QED
  BY <1>1, <1>2, <1>3, <1>4, <1>5 DEF Current

\* An event that is not current does not happen: the branch is the code's own guard.
LEMMA TextSteps ==
  ASSUME JobInv, DocumentText
  PROVE  Steps
<1> DEFINE e == Head(chan)
<1>1. /\ TakesEvent /\ chan' = Tail(chan) /\ (~Current(e) \/ e.kind = "TextDelta")
      /\ slot' = slot \/ slot' = [conn |-> FALSE, jobs |-> ActiveJobs]
      /\ UNCHANGED <<store, active, tasks, cmds, starting, worker, shutdown, closed, ops, crashes>>
  BY DEF DocumentText
<1>2. e.kind = "TextDelta" /\ e.job \in Jobs /\ chan # <<>>
  BY <1>1, HeadIsCurrent
<1>3. TextHeard(e.job)
  BY <1>1, <1>2 DEF TextHeard, Heard
<1>4. SlotKept
  BY <1>1 DEF SlotKept, Jobful, ActiveJobs
<1>5. StartIsFree' /\ ControlOK'
  BY <1>1, StartStays DEF JobInv, TypeOK, ControlOK, Commands
<1> QED
  BY <1>2, <1>3, <1>4, <1>5 DEF Steps, Shape

\* The job leaves the worker with what was stored of it.
LEMMA LeaveSteps ==
  ASSUME JobInv, TakesEvent, Head(chan).kind # "TextDelta", Stores(Head(chan).job),
         Leave(Head(chan).job), UNCHANGED <<starting, shutdown, closed, ops, crashes>>
  PROVE  Steps
<1> DEFINE j == Head(chan).job
<1>1. j \in Jobs /\ chan # <<>> /\ starting = None
  BY HeadIsCurrent
<1>2. CASE active[j].stop
  BY <1>1, <1>2, ExitSteps DEF Leave
<1>3. CASE ~active[j].stop
  <2>1. /\ active' = [active EXCEPT ![j] = None] /\ chan' = Tail(chan) /\ RefreshSlot(FALSE)
        /\ UNCHANGED <<tasks, cmds, worker>>
    BY <1>3 DEF Leave
  <2>2. Finished(j)
    BY <1>1, <2>1 DEF Finished, Heard
  <2>3. SlotKept /\ StartIsFree'
    BY <1>1, <2>1, RefreshKept, NoStart
  <2>4. ControlOK'
    BY <2>1 DEF JobInv, TypeOK, ControlOK, Commands
  <2> QED
    BY <1>1, <2>2, <2>3, <2>4 DEF Steps, Shape
<1> QED
  BY <1>2, <1>3

\* A segment that is stored makes the document whole when it is the last one.
LEMMA SegmentIsSound ==
  ASSUME NEW s, Sound(s), NEW seg \in Segs
  PROVE  LET w == WithSegment(s, seg) IN
         /\ Sound(w) /\ Sound([w EXCEPT !.state = "Paused"])
         /\ w.state # "Completed" => w.state = "Running" /\ Pending(w) # {}
<1> DEFINE d == s.done \cup {seg}
           w == WithSegment(s, seg)
<1>1. s \in Snapshots /\ d \in SUBSET Segs
  BY DEF Sound, Snapshots
<1>2. /\ w \in Snapshots /\ w.done = d
      /\ w.state = IF d = Segs THEN "Completed" ELSE "Running"
  BY <1>1 DEF WithSegment, Snapshots, States
<1> HIDE DEF w
<1>3. [w EXCEPT !.state = "Paused"] \in Snapshots /\ [w EXCEPT !.state = "Paused"].state = "Paused"
  BY <1>2 DEF Snapshots, States
<1>4. w.state # "Completed" => w.state = "Running" /\ Pending(w) # {}
  BY <1>1, <1>2 DEF Pending
<1>5. Sound(w) /\ Sound([w EXCEPT !.state = "Paused"])
  BY <1>2, <1>3 DEF Sound
<1> QED
  BY <1>4, <1>5 DEF w

LEMMA CompletedSteps ==
  ASSUME JobInv, SegmentCompleted
  PROVE  Steps
<1> DEFINE e == Head(chan)
           j == e.job
           s == WithSegment(store[j], e.seg)
           p == [s EXCEPT !.state = "Paused"]
<1>1. TakesEvent /\ e.kind = "Completed" /\ UNCHANGED <<starting, shutdown, closed, ops, crashes>>
  BY DEF SegmentCompleted
<1>2. /\ j \in Jobs /\ chan # <<>> /\ starting = None
      /\ Sound(store[j]) /\ e.seg \in Segs /\ active[j] # None
  BY <1>1, HeadIsCurrent
<1>3. Sound(s) /\ Sound(p) /\ (s.state # "Completed" => s.state = "Running" /\ Pending(s) # {})
  BY <1>2, SegmentIsSound
<1>4. \/ /\ store' = store \/ store' = [store EXCEPT ![j] = s] \/ store' = [store EXCEPT ![j] = p]
         /\ Leave(j)
      \/ /\ s.state # "Completed" /\ ~active[j].stop /\ ~active[j].pause
         /\ store' = [store EXCEPT ![j] = s] /\ Activate(j, s) /\ RefreshSlot(FALSE)
         /\ chan' = Tail(chan) /\ UNCHANGED <<cmds, worker>>
  BY DEF SegmentCompleted
<1> HIDE DEF s, p
<1>5. CASE /\ store' = store \/ store' = [store EXCEPT ![j] = s] \/ store' = [store EXCEPT ![j] = p]
           /\ Leave(j)
  <2>1. Stores(j)
    BY <1>3, <1>5 DEF Stores
  <2> QED
    BY <1>1, <1>5, <2>1, LeaveSteps
<1>6. CASE /\ s.state # "Completed" /\ ~active[j].stop /\ ~active[j].pause
           /\ store' = [store EXCEPT ![j] = s] /\ Activate(j, s) /\ RefreshSlot(FALSE)
           /\ chan' = Tail(chan) /\ UNCHANGED <<cmds, worker>>
  <2>1. Continued(j)
    BY <1>1, <1>2, <1>3, <1>6 DEF Continued, Heard, Begins
  <2>2. SlotKept /\ StartIsFree'
    BY <1>1, <1>2, <1>6, RefreshKept, NoStart
  <2>3. ControlOK'
    BY <1>1, <1>6 DEF JobInv, TypeOK, ControlOK, Commands
  <2> QED
    BY <1>2, <2>1, <2>2, <2>3 DEF Steps, Shape
<1> QED
  BY <1>4, <1>5, <1>6

LEMMA EndedSteps ==
  ASSUME JobInv, SegmentEnded
  PROVE  Steps
<1> DEFINE e == Head(chan)
           j == e.job
<1>1. /\ TakesEvent /\ e.kind # "TextDelta" /\ Leave(j)
      /\ UNCHANGED <<starting, shutdown, closed, ops, crashes>>
      /\ store' = store \/ \E st \in {"Paused", "Cancelled", "Failed"} : store' = SetState(j, st)
  BY DEF SegmentEnded
<1>2. j \in Jobs /\ Sound(store[j])
  BY <1>1, HeadIsCurrent
<1>3. ASSUME NEW st \in {"Paused", "Cancelled", "Failed"}
      PROVE  Sound([store[j] EXCEPT !.state = st])
  BY <1>2 DEF Sound, Snapshots, States
<1>4. Stores(j)
  BY <1>1, <1>3 DEF Stores, SetState
<1> QED
  BY <1>1, <1>4, LeaveSteps

LEMMA NextSteps ==
  ASSUME JobInv, Next
  PROVE  Steps
BY ClientSteps, TaskSteps, RestartSteps, CreateSteps, DeleteSteps, TranslateSteps, ResumeSteps,
   FinishSteps, PauseSteps, CancelJobSteps, CancelSteps, StopSteps, IdleShutdownSteps,
   TextSteps, CompletedSteps, EndedSteps DEF Next, Worker

---------------------------------------------------------------------------
(* The theorems.                                                           *)

LEMMA InitJobInv == Init => JobInv
<1> SUFFICES ASSUME Init PROVE JobInv
  OBVIOUS
<1>1. Imported \in Snapshots /\ Imported.state = "Pending"
  BY DEF Imported, Snapshots, States
<1>2. ActiveJobs = {} /\ Len(chan) = 0
  BY DEF Init, NoJobs, ActiveJobs
<1>3. TypeOK
  <2>1. cmds \in Seq(Commands) /\ chan \in Seq(TaskEvents)
    BY EmptySeq DEF Init
  <2>2. store \in [Jobs -> Snapshots \cup {None}]
    BY <1>1 DEF Init
  <2>3. slot \in [conn : BOOLEAN, jobs : SUBSET Jobs]
    BY DEF Init, NoSlot
  <2> QED
    BY <2>1, <2>2, <2>3 DEF Init, TypeOK, NoJobs, Commands
<1>4. ActiveIsRunning /\ Capacity
  BY <1>2, FS_EmptySet, DocumentAssumption DEF ActiveIsRunning, Capacity
<1>5. CompletedIsWhole
  BY <1>1 DEF Init, CompletedIsWhole
<1>6. SlotIsCurrent /\ StartIsFree
  BY DEF Init, NoSlot, SlotIsCurrent, StartIsFree
<1>7. StreamInv
  BY <1>2 DEF Init, NoJobs, StreamInv
<1> QED
  BY <1>3, <1>4, <1>5, <1>6, <1>7 DEF JobInv

LEMMA StepJobInv == JobInv /\ [Next]_vars => JobInv'
<1> SUFFICES ASSUME JobInv, [Next]_vars PROVE JobInv'
  OBVIOUS
<1>1. CASE UNCHANGED vars
  BY <1>1 DEF vars, JobInv, TypeOK, ActiveIsRunning, CompletedIsWhole, SlotIsCurrent, Capacity,
              StartIsFree, StreamInv, ActiveJobs
<1>2. CASE Next
  <2>1. Shape /\ SlotKept /\ ControlOK' /\ StartIsFree'
    BY <1>2, NextSteps DEF Steps
  <2>2. DataInv'
    BY <2>1, ShapeKeeps
  <2>3. Jobful(active') = ActiveJobs' /\ ActiveJobs' \in SUBSET Jobs
    BY DEF Jobful, ActiveJobs
  <2>4. slot' \in [conn : BOOLEAN, jobs : SUBSET Jobs] /\ SlotIsCurrent'
    <3>1. CASE slot' = slot /\ Jobful(active') = ActiveJobs
      BY <2>3, <3>1 DEF JobInv, TypeOK, SlotIsCurrent
    <3>2. CASE slot' \in [conn : BOOLEAN, jobs : {{}}]
      BY <3>2 DEF SlotIsCurrent
    <3>3. CASE slot' = [conn |-> FALSE, jobs |-> Jobful(active')]
      BY <2>3, <3>3 DEF SlotIsCurrent
    <3> QED
      BY <2>1, <3>1, <3>2, <3>3 DEF SlotKept
  <2>5. TypeOK'
    BY <2>1, <2>2, <2>4 DEF DataInv, ControlOK, TypeOK, Commands
  <2> QED
    BY <2>1, <2>2, <2>4, <2>5 DEF DataInv, JobInv
<1> QED
  BY <1>1, <1>2

\* The worker's maps, channels and slot keep their types: TypeOK.
THEOREM JobTypes == Spec => []TypeOK
<1>1. JobInv => TypeOK
  BY DEF JobInv
<1> QED
  BY <1>1, InitJobInv, StepJobInv, PTL DEF Spec

\* The whole inductive invariant holds in every state of the worker.
LEMMA Invariance == Spec => []JobInv
BY InitJobInv, StepJobInv, PTL DEF Spec

\* A job that translates is stored as Running and its segment is not yet stored
\* (begin_document_segment, update_document_segment), whatever else is asked, deleted
\* or completed meanwhile: ActiveIsRunning.
THEOREM TranslatingIsStored == Spec => []ActiveIsRunning
<1>1. JobInv => ActiveIsRunning
  BY DEF JobInv
<1> QED
  BY <1>1, Invariance, PTL

\* A document is reported Completed only when all its segments are stored:
\* CompletedIsWhole.
THEOREM CompletedDocumentIsWhole == Spec => []CompletedIsWhole
<1>1. JobInv => CompletedIsWhole
  BY DEF JobInv
<1> QED
  BY <1>1, Invariance, PTL

\* No more than MAX_ACTIVE_DOCUMENT_JOBS translate (ensure_document_job_capacity, also
\* for a start whose connection was awaited): WithinCapacity.
THEOREM CapacityKept == Spec => []WithinCapacity
<1>1. JobInv => WithinCapacity
  BY DEF JobInv, Capacity, WithinCapacity
<1> QED
  BY <1>1, Invariance, PTL

\* Stop reaches the jobs that translate and no other (set_document_cancellations):
\* SlotIsCurrent.
THEOREM SlotHandlesAreCurrent == Spec => []SlotIsCurrent
<1>1. JobInv => SlotIsCurrent
  BY DEF JobInv
<1> QED
  BY <1>1, Invariance, PTL

\* The positions of StreamInv say what OneStream says by sets.
LEMMA StreamsAreSingle == JobInv => OneStream
<1> SUFFICES ASSUME JobInv, NEW j \in Jobs
             PROVE  /\ tasks[j] = None /\ Events(j) = {} <=> active[j] = None
                    /\ active[j] # None =>
                         /\ \A i \in Events(j) : chan[i].seg = active[j].seg
                         /\ tasks[j] # None => tasks[j].seg = active[j].seg /\ EndEvents(j) = {}
                         /\ tasks[j] = None =>
                              \E i \in Events(j) : EndEvents(j) = {i} /\ \A k \in Events(j) : k <= i
  BY DEF OneStream
<1>1. \A i \in Events(j) : i \in 1..Len(chan) /\ chan[i].job = j
  BY DEF Events
<1>2. \A i \in EndEvents(j) : i \in Events(j) /\ chan[i].kind # "TextDelta"
  BY DEF EndEvents
<1>3. Len(chan) \in Nat
  BY EventsTyped
<1>4. \A i \in Events(j) : active[j] # None /\ chan[i].seg = active[j].seg
  BY <1>1 DEF JobInv, StreamInv
<1>5. tasks[j] # None => active[j] # None /\ tasks[j].seg = active[j].seg /\ EndEvents(j) = {}
  BY <1>1, <1>2 DEF JobInv, StreamInv
<1>6. ASSUME active[j] # None, tasks[j] = None
      PROVE  \E i \in Events(j) : EndEvents(j) = {i} /\ \A k \in Events(j) : k <= i
  <2>1. PICK i \in 1..Len(chan) : chan[i].job = j /\ chan[i].kind # "TextDelta"
    BY <1>6 DEF JobInv, StreamInv
  <2>2. i \in Events(j) /\ i \in EndEvents(j)
    BY <2>1 DEF Events, EndEvents
  <2>3. \A k \in Events(j) : k <= i
    BY <1>1, <1>3, <2>1 DEF JobInv, StreamInv
  <2>4. \A k \in EndEvents(j) : i <= k
    BY <1>1, <1>2, <1>3, <2>1 DEF JobInv, StreamInv
  <2>5. \A k \in EndEvents(j) : k = i
    BY <1>1, <1>2, <1>3, <2>3, <2>4
  <2> QED
    BY <2>2, <2>3, <2>5
<1> QED
  BY <1>4, <1>5, <1>6

\* A job has exactly one stream while it translates and none otherwise, so that no text
\* goes to another segment or another run of the job: OneStream.
THEOREM StreamPerJob == Spec => []OneStream
BY StreamsAreSingle, Invariance, PTL

\* A pause or a shutdown asked of a translating job stays asked until the job leaves:
\* no step of the worker or the window begins a segment that does not know of it.
THEOREM RequestsStay == Spec => RequestsStick
<1> DEFINE Sticks == \A j \in Jobs : active[j] # None /\ active'[j] # None =>
                       (active[j].pause => active'[j].pause) /\ (active[j].stop => active'[j].stop)
<1>1. ASSUME JobInv, Next
      PROVE  Sticks
  <2>1. Shape
    BY <1>1, NextSteps DEF Steps
  <2>2. CASE Asked
    BY <2>2 DEF Asked
  <2>3. CASE Halted
    BY <2>3 DEF Halted, NoJobs
  <2>4. ASSUME NEW j \in Jobs, Saved(j) \/ TaskStep(j) \/ TextHeard(j)
        PROVE  Sticks
    BY <2>4 DEF Saved, TaskStep, TextHeard
  <2>5. ASSUME NEW j \in Jobs, Started(j) \/ Continued(j)
        PROVE  Sticks
    <3>1. Begins(j) /\ (active[j] = None \/ (~active[j].pause /\ ~active[j].stop))
      BY <2>5 DEF Started, Continued
    <3> QED
      BY <1>1, <3>1, BeginsKeeps
  <2>6. ASSUME NEW j \in Jobs, Finished(j)
        PROVE  Sticks
    BY <1>1, <2>6 DEF Finished, JobInv, TypeOK
  <2> QED
    BY <2>1, <2>2, <2>3, <2>4, <2>5, <2>6 DEF Shape
<1>2. JobInv /\ [Next]_vars => [Sticks]_vars
  BY <1>1
<1> QED
  BY <1>2, Invariance, PTL DEF Spec, RequestsStick
=============================================================================
