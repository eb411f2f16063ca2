----------------------------- MODULE LocalData -----------------------------
(***************************************************************************)
(* The local data of the user: translation history and memory (logs, each  *)
(* with a switch), glossary libraries and routing profiles (libraries).    *)
(* The window sends a command per click, the worker answers each with one  *)
(* event, and what the worker does at that moment decides which: idle, a   *)
(* text translation, or document jobs.                                     *)
(***************************************************************************)
EXTENDS Naturals, Sequences, FiniteSets, SequencesExt

CONSTANTS
  Entries,      \* what a log or a library can hold, named by its key
  LdMaxClicks,  \* bound: commands sent and restarts
  LdBacklog     \* bound: document events the window has not applied yet

Logs == {"history", "memory"}
Libraries == {"glossary", "routing"}

ASSUME LocalAssumption == IsFiniteSet(Entries) /\ {LdMaxClicks, LdBacklog} \subseteq Nat

VARIABLES
  kept,     \* the database: ok, items of each kind, switch of each log
  doing,    \* the worker: "idle", "text" or "documents"
  asked,    \* the text request the worker serves, as it was sent
  cmds,     \* commands not yet taken
  evs,      \* events not yet applied
  desk,     \* the window
  dialogs,  \* open list dialogs, the usable one last; each acts on the list it shows
  clicks

ldVars == <<kept, doing, asked, cmds, evs, desk, dialogs, clicks>>

NoRequest == [item |-> "none"]

\* AppState::default and the Cells of UiBindings.
Desk ==
  [ready |-> FALSE, ok |-> FALSE, busy |-> FALSE, incognito |-> FALSE, chosen |-> "none",
   on |-> [k \in Logs |-> TRUE], switch |-> [k \in Logs |-> TRUE],
   count |-> [k \in Logs |-> 0], policy |-> [k \in Logs |-> FALSE],
   clear |-> [k \in Logs |-> FALSE], warn |-> [k \in Logs |-> FALSE],
   unread |-> {}, misanswered |-> FALSE]

Count(k) == Cardinality(kept.items[k])

\* Start: the database is restored and reported; a failed read is reported as a
\* warning and counts as nothing stored, or as the switch being on.
LogRestored(st, k, bad) ==
  [ev |-> "LogRestored", k |-> k, failed |-> bad,
   count |-> IF bad THEN 0 ELSE Cardinality(st.items[k]), on |-> bad \/ st.on[k]]

Startup(st, failed) ==
  IF ~st.ok THEN <<[ev |-> "Unavailable"], [ev |-> "Ready"]>>
  ELSE <<[ev |-> "Restored"], [ev |-> "Ready"],
         LogRestored(st, "history", "history" \in failed), LogRestored(st, "memory", "memory" \in failed)>>

LdStart ==
  {[ok |-> o, on |-> [k \in Logs |-> w], items |-> [k \in Logs \cup Libraries |-> its]] :
     o \in BOOLEAN, w \in BOOLEAN, its \in {{}, Entries}}

LdInit ==
  /\ kept \in LdStart /\ doing = "idle" /\ asked = NoRequest /\ cmds = <<>>
  /\ evs = Startup(kept, {})
  /\ desk = Desk /\ dialogs = <<>> /\ clicks = 0

---------------------------------------------------------------------------
(* The window.                                                             *)

Usable == dialogs = <<>> /\ desk.ok /\ ~desk.busy

\* try_send: the queue, which every part of the window fills, may have no place; that
\* is told to the user, and the control is taken back.
Sent(c, d) ==
  /\ clicks < LdMaxClicks /\ clicks' = clicks + 1
  /\ \/ cmds' = Append(cmds, c) /\ desk' = d
     \/ cmds' = cmds /\ desk' = [desk EXCEPT !.busy = FALSE]

TogglePolicy(k) ==
  /\ Usable /\ desk.ready /\ ~desk.policy[k]
  /\ Sent([do |-> "policy", k |-> k, on |-> ~desk.switch[k]],
          [desk EXCEPT !.policy[k] = TRUE, !.switch[k] = ~@])
  /\ UNCHANGED <<kept, doing, asked, evs, dialogs>>
ToggleHistory == TogglePolicy("history")
ToggleMemory == TogglePolicy("memory")

PressClear(k) ==
  /\ Usable /\ ~desk.clear[k] /\ desk.count[k] > 0
  /\ Sent([do |-> "clear", k |-> k], [desk EXCEPT !.clear[k] = TRUE])
  /\ UNCHANGED <<kept, doing, asked, evs, dialogs>>
ClickClearHistory == PressClear("history")
ClickClearMemory == PressClear("memory")

ClickList(k) ==
  /\ Usable /\ (k \in Logs => desk.count[k] > 0)
  /\ Sent([do |-> "list", k |-> k], desk)
  /\ UNCHANGED <<kept, doing, asked, evs, dialogs>>
ClickHistory == ClickList("history")
ClickMemory == ClickList("memory")
ClickGlossaries == ClickList("glossary")
ClickRouting == ClickList("routing")

\* The glossary of the form is saved under a name: an upsert, no list is asked.
SaveGlossaryAs(i) ==
  /\ Usable /\ desk.ready
  /\ Sent([do |-> "save", k |-> "glossary", item |-> i], desk)
  /\ UNCHANGED <<kept, doing, asked, evs, dialogs>>

ToggleIncognito ==
  /\ dialogs = <<>> /\ ~desk.busy /\ desk' = [desk EXCEPT !.incognito = ~@]
  /\ UNCHANGED <<kept, doing, asked, cmds, evs, dialogs, clicks>>

\* What the user was told about the logs when the text was sent.
SubmitText(i) ==
  /\ dialogs = <<>> /\ desk.ready /\ ~desk.busy
  /\ Sent([do |-> "translate", item |-> i, incognito |-> desk.incognito, route |-> desk.chosen,
           logged |-> {k \in Logs : desk.switch[k] \/ desk.policy[k]}],
          [desk EXCEPT !.busy = TRUE])
  /\ UNCHANGED <<kept, doing, asked, evs, dialogs>>

ClickDocument ==
  /\ dialogs = <<>> /\ desk.ready /\ ~desk.busy /\ ~desk.incognito
  /\ Sent([do |-> "document"], [desk EXCEPT !.busy = TRUE])
  /\ UNCHANGED <<kept, doing, asked, evs, dialogs>>

\* The dialogs.  A list of a log closes before it sends, a library if it could send.
Top == Last(dialogs)
DialogDelete(k, i) ==
  /\ dialogs # <<>> /\ Top.k = k /\ i \in Top.items
  /\ Sent([do |-> "delete", k |-> k, item |-> i], desk)
  /\ dialogs' = IF k \in Logs \/ cmds' # cmds THEN Front(dialogs) ELSE dialogs
  /\ UNCHANGED <<kept, doing, asked, evs>>
DeleteHistoryRow(i) == DialogDelete("history", i)
DeleteMemoryRow(i) == DialogDelete("memory", i)
DeleteGlossaryRow(i) == DialogDelete("glossary", i)
DeleteRoutingRow(i) == DialogDelete("routing", i)

UseRoutingRow(i) ==
  /\ dialogs # <<>> /\ Top.k = "routing" /\ i \in Top.items
  /\ desk' = [desk EXCEPT !.chosen = i] /\ dialogs' = Front(dialogs)
  /\ UNCHANGED <<kept, doing, asked, cmds, evs, clicks>>

ClosedIfSent == dialogs' = IF cmds' # cmds THEN Front(dialogs) ELSE dialogs

\* Create refuses a name in the list the dialog shows; Edit saves under its own name.
SaveRoutingRow(i, editing) ==
  /\ dialogs # <<>> /\ Top.k = "routing" /\ (editing <=> i \in Top.items)
  /\ Sent([do |-> "save", k |-> "routing", item |-> i], desk)
  /\ ClosedIfSent
  /\ UNCHANGED <<kept, doing, asked, evs>>

\* begin_routing_profile_import: a file of bounded size, valid or not.
ImportRoutingFile(i, valid) ==
  /\ dialogs # <<>> /\ Top.k = "routing"
  /\ Sent([do |-> "import", k |-> "routing", item |-> i, valid |-> valid], desk)
  /\ ClosedIfSent
  /\ UNCHANGED <<kept, doing, asked, evs>>

ExportRoutingRow(i) ==
  /\ dialogs # <<>> /\ Top.k = "routing" /\ i \in Top.items
  /\ Sent([do |-> "export", k |-> "routing", item |-> i], desk)
  /\ UNCHANGED <<kept, doing, asked, evs, dialogs>>

CloseDialog ==
  /\ dialogs # <<>> /\ dialogs' = Front(dialogs)
  /\ UNCHANGED <<kept, doing, asked, cmds, evs, desk, clicks>>

---------------------------------------------------------------------------
(* The worker: one command, one answer.                                    *)

\* The answer that clears the window's own record of the command.
Rejection(c) ==
  IF c.do = "policy" THEN [ev |-> "PolicyRejected", k |-> c.k]
  ELSE IF c.do = "clear" THEN [ev |-> "ClearRejected", k |-> c.k]
  ELSE [ev |-> "ActionRejected"]

Listed(k, its) == [ev |-> "Listed", k |-> k, items |-> its]

LocalCommand == cmds # <<>> /\ Head(cmds).do \notin {"translate", "document"}

\* The command is answered with e and the database becomes st.
Answered(e, st) ==
  /\ cmds' = Tail(cmds) /\ evs' = Append(evs, e) /\ kept' = st
  /\ UNCHANGED <<doing, asked, desk, dialogs, clicks>>

\* Fault: a command is also served while a text is translated.
Done_while_text(do, k) == doing # "documents" /\ cmds # <<>> /\ Head(cmds).do = do /\ kept.ok
                          /\ (do \in {"translate", "document"} \/ Head(cmds).k = k)

Done(do, k) == doing = "idle" /\ cmds # <<>> /\ Head(cmds).do = do /\ kept.ok
               /\ (do \in {"translate", "document"} \/ Head(cmds).k = k)

\* Fault: the answer is sent, the switch is not stored.
SetEnabled_unstored(k) ==
  /\ Done("policy", k)
  /\ Answered([ev |-> "PolicyUpdated", k |-> k, on |-> Head(cmds).on], kept)

SetEnabled(k) ==
  /\ Done("policy", k)
  /\ Answered([ev |-> "PolicyUpdated", k |-> k, on |-> Head(cmds).on],
              [kept EXCEPT !.on[k] = Head(cmds).on])
SetTranslationHistoryEnabled == SetEnabled("history")
SetTranslationMemoryEnabled == SetEnabled("memory")

Clear(k) ==
  /\ Done("clear", k)
  /\ Answered([ev |-> "Cleared", k |-> k], [kept EXCEPT !.items[k] = {}])
ClearTranslationHistory == Clear("history")
ClearTranslationMemory == Clear("memory")

List(k) == Done("list", k) /\ Answered(Listed(k, kept.items[k]), kept)
ListTranslationHistory == List("history")
ListTranslationMemory == List("memory")
ListGlossaries == List("glossary")
ListRoutingProfiles == List("routing")

\* A log answers with the list that is left; an entry that has gone is no error.
DeleteEntry(k) ==
  LET left == kept.items[k] \ {Head(cmds).item} IN
  Done("delete", k) /\ Answered(Listed(k, left), [kept EXCEPT !.items[k] = left])
DeleteTranslationHistory == DeleteEntry("history")
DeleteTranslationMemory == DeleteEntry("memory")

DeleteRecord(k) ==
  LET i == Head(cmds).item IN
  /\ Done("delete", k) /\ i \in kept.items[k]
  /\ Answered([ev |-> "Deleted", k |-> k, item |-> i], [kept EXCEPT !.items[k] = @ \ {i}])
DeleteGlossary == DeleteRecord("glossary")
DeleteRoutingProfile == DeleteRecord("routing")

SaveRecord(k) ==
  Done("save", k) /\ Answered([ev |-> "Saved", k |-> k],
                              [kept EXCEPT !.items[k] = @ \cup {Head(cmds).item}])
SaveGlossary == SaveRecord("glossary")
SaveRoutingProfile == SaveRecord("routing")

ExportRoutingProfile ==
  /\ Done("export", "routing") /\ Head(cmds).item \in kept.items["routing"]
  /\ Answered([ev |-> "Exported", k |-> "routing"], kept)

ImportRoutingProfile ==
  LET c == Head(cmds) IN
  /\ Done("import", "routing") /\ c.valid /\ c.item \notin kept.items["routing"]
  /\ Answered([ev |-> "Saved", k |-> "routing"], [kept EXCEPT !.items["routing"] = @ \cup {c.item}])

\* No database, a failed statement, a record that has gone, a name that is taken.
RejectedWhenIdle == doing = "idle" /\ LocalCommand /\ Answered(Rejection(Head(cmds)), kept)

\* A text translation is running: each command has its own refusal.
RejectedByText == doing = "text" /\ LocalCommand /\ Answered(Rejection(Head(cmds)), kept)

\* Documents are running: one refusal for whatever does not concern documents.
RejectedByDocuments ==
  doing = "documents" /\ cmds # <<>> /\ Head(cmds).do # "document"
  /\ Answered([ev |-> "DocumentRejected", of |-> Head(cmds).do], kept)

\* A translation starts, or is rejected: a routing profile that has gone, no session.
TakeTranslate ==
  LET c == Head(cmds) IN
  /\ doing \in {"idle", "text"} /\ cmds # <<>> /\ c.do = "translate" /\ cmds' = Tail(cmds)
  /\ \/ /\ doing = "idle" /\ (c.route = "none" \/ (kept.ok /\ c.route \in kept.items["routing"]))
        /\ doing' = "text" /\ asked' = c /\ evs' = evs
     \/ evs' = Append(evs, [ev |-> "Rejected"]) /\ UNCHANGED <<doing, asked>>
  /\ UNCHANGED <<kept, desk, dialogs, clicks>>

TakeDocument ==
  /\ cmds # <<>> /\ Head(cmds).do = "document" /\ cmds' = Tail(cmds)
  /\ \/ doing \in {"idle", "documents"} /\ kept.ok /\ doing' = "documents"
        /\ evs' = Append(evs, [ev |-> "DocumentRunning"])
     \/ evs' = Append(evs, [ev |-> "DocumentRejected", of |-> "document"]) /\ doing' = doing
  /\ UNCHANGED <<kept, asked, desk, dialogs, clicks>>

Told(s, told, e) == IF told THEN Append(s, e) ELSE s

\* A finished text is recorded in each log that is on, unless it was incognito.
\* Only history reports its count, only failures of either are reported.
TextEnds(completed, failed) ==
  LET rec == IF completed /\ ~asked.incognito /\ kept.ok THEN {k \in Logs : kept.on[k]} ELSE {}
      its(k) == IF k \in rec \ failed THEN kept.items[k] \cup {asked.item} ELSE kept.items[k]
      counted == Told(evs, "history" \in rec \ failed,
                      [ev |-> "HistoryUpdated", count |-> Cardinality(its("history"))])
      warned == Told(counted, "history" \in failed, [ev |-> "PersistenceFailed", k |-> "history"])
      ended == Told(warned, "memory" \in failed, [ev |-> "PersistenceFailed", k |-> "memory"])
  IN  /\ doing = "text" /\ failed \subseteq rec
      /\ kept' = [kept EXCEPT !.items = [k \in Logs \cup Libraries |-> its(k)]]
      /\ evs' = Append(ended, [ev |-> "TextEnded"])
      /\ doing' = "idle" /\ asked' = NoRequest
      /\ UNCHANGED <<cmds, desk, dialogs, clicks>>

\* One of several documents ends while others run, or the last one does.
DocumentEvent(last) ==
  /\ doing = "documents" /\ Len(evs) < LdBacklog
  /\ \/ last /\ doing' = "idle" /\ evs' = Append(evs, [ev |-> "DocumentEnded"])
     \/ ~last /\ doing' = doing
        /\ \E e \in {"DocumentRunning", "DocumentEnded"} : evs' = Append(evs, [ev |-> e])
  /\ UNCHANGED <<kept, asked, cmds, desk, dialogs, clicks>>

\* degrade_profile_storage_after_persistence_error, from the connection code.
LoseStorage ==
  /\ doing = "idle" /\ kept.ok /\ kept' = [kept EXCEPT !.ok = FALSE]
  /\ evs' = Append(evs, [ev |-> "Unavailable"])
  /\ UNCHANGED <<doing, asked, cmds, desk, dialogs, clicks>>

\* The process ends anywhere and starts again.
LdRestart ==
  /\ \E ok \in BOOLEAN, failed \in SUBSET Logs :
       /\ kept' = [kept EXCEPT !.ok = ok] /\ evs' = Startup(kept', failed)
  /\ doing' = "idle" /\ asked' = NoRequest /\ cmds' = <<>> /\ desk' = Desk /\ dialogs' = <<>>
  /\ clicks < LdMaxClicks /\ clicks' = clicks + 1

---------------------------------------------------------------------------
(* apply_worker_event.                                                     *)

\* Fault: the refusal forgets the window's own record.
PolicyRejected_unfreed(k) == [desk EXCEPT !.switch[k] = desk.on[k], !.busy = FALSE]

PolicyRejected(k) ==
  [desk EXCEPT !.policy[k] = FALSE, !.switch[k] = desk.on[k], !.busy = FALSE]

Applied(e) ==
  CASE e.ev = "Ready" -> [desk EXCEPT !.ready = TRUE]
    [] e.ev = "Restored" -> [desk EXCEPT !.ok = TRUE]
    [] e.ev = "LogRestored" -> [desk EXCEPT !.count[e.k] = e.count, !.on[e.k] = e.on, !.switch[e.k] = e.on,
                                  !.warn[e.k] = @ \/ e.failed,
                                  !.unread = IF e.failed THEN @ \cup {e.k} ELSE @]
    [] e.ev = "Unavailable" -> [desk EXCEPT !.ok = FALSE, !.busy = FALSE, !.policy["history"] = FALSE,
                                  !.switch = [k \in Logs |-> FALSE]]
    [] e.ev = "PolicyUpdated" -> [desk EXCEPT !.policy[e.k] = FALSE, !.on[e.k] = e.on, !.switch[e.k] = e.on,
                                    !.unread = @ \ {e.k}]
    [] e.ev = "PolicyRejected" -> PolicyRejected(e.k)
    [] e.ev = "Cleared" -> [desk EXCEPT !.clear[e.k] = FALSE, !.count[e.k] = 0, !.warn[e.k] = FALSE]
    [] e.ev = "ClearRejected" -> [desk EXCEPT !.clear[e.k] = FALSE, !.busy = FALSE]
    [] e.ev = "HistoryUpdated" -> [desk EXCEPT !.count["history"] = e.count, !.warn["history"] = FALSE]
    [] e.ev = "PersistenceFailed" -> [desk EXCEPT !.warn[e.k] = TRUE, !.clear[e.k] = FALSE]
    [] e.ev = "Listed" /\ e.k \in Logs -> [desk EXCEPT !.count[e.k] = Cardinality(e.items)]
    [] e.ev = "Deleted" /\ e.k = "routing" -> [desk EXCEPT !.chosen = IF @ = e.item THEN "none" ELSE @]
    [] e.ev \in {"ActionRejected", "Rejected", "DocumentEnded"} -> [desk EXCEPT !.busy = FALSE]
    [] e.ev = "DocumentRejected" -> [desk EXCEPT !.busy = FALSE,
                                       !.misanswered = @ \/ e.of \in {"policy", "clear"}]
    [] e.ev = "DocumentRunning" -> [desk EXCEPT !.busy = TRUE]
    \* a stream the window has given up is refused: it waits in Cancelling
    [] e.ev = "TextEnded" -> [desk EXCEPT !.busy = ~@]
    [] OTHER -> desk

\* A list opens a dialog; a changed routing profile asks for a new list.
ApplyEvent ==
  LET e == Head(evs)
      relist == e.ev \in {"Saved", "Deleted"} /\ e.k = "routing"
  IN  /\ evs # <<>> /\ evs' = Tail(evs)
      /\ \/ relist /\ cmds' = Append(cmds, [do |-> "list", k |-> "routing"]) /\ desk' = Applied(e)
         \/ relist /\ cmds' = cmds /\ desk' = [Applied(e) EXCEPT !.busy = FALSE]
         \/ ~relist /\ cmds' = cmds /\ desk' = Applied(e)
      /\ dialogs' = IF e.ev = "Listed" THEN Append(dialogs, [k |-> e.k, items |-> e.items]) ELSE dialogs
      /\ UNCHANGED <<kept, doing, asked, clicks>>

---------------------------------------------------------------------------
LdWindow ==
  \/ ToggleHistory \/ ToggleMemory \/ ClickClearHistory \/ ClickClearMemory
  \/ ClickHistory \/ ClickMemory \/ ClickGlossaries \/ ClickRouting
  \/ ToggleIncognito \/ ClickDocument \/ CloseDialog
  \/ \E i \in Entries :
       \/ SaveGlossaryAs(i) \/ SubmitText(i)
       \/ DeleteHistoryRow(i) \/ DeleteMemoryRow(i) \/ DeleteGlossaryRow(i) \/ DeleteRoutingRow(i)
       \/ UseRoutingRow(i) \/ ExportRoutingRow(i)
       \/ \E b \in BOOLEAN : SaveRoutingRow(i, b) \/ ImportRoutingFile(i, b)

LdWorker ==
  \/ SetTranslationHistoryEnabled \/ SetTranslationMemoryEnabled
  \/ ClearTranslationHistory \/ ClearTranslationMemory
  \/ ListTranslationHistory \/ ListTranslationMemory \/ ListGlossaries \/ ListRoutingProfiles
  \/ DeleteTranslationHistory \/ DeleteTranslationMemory \/ DeleteGlossary \/ DeleteRoutingProfile
  \/ SaveGlossary \/ SaveRoutingProfile \/ ExportRoutingProfile \/ ImportRoutingProfile
  \/ RejectedWhenIdle \/ RejectedByText \/ RejectedByDocuments \/ TakeTranslate \/ TakeDocument
  \/ \E c \in BOOLEAN, failed \in SUBSET Logs : TextEnds(c, failed)
  \/ (\E last \in BOOLEAN : DocumentEvent(last)) \/ LoseStorage

LdNext == LdWindow \/ LdWorker \/ ApplyEvent \/ LdRestart

---------------------------------------------------------------------------
(* Properties.                                                             *)

\* When nothing is under way the switches and the history count of the window are
\* those of the database; the memory count may lag behind (recording does not report
\* it) but never promises more than is stored.  A failed read or write is the one
\* excuse, and then the warning is shown.
Quiet == cmds = <<>> /\ evs = <<>> /\ doing = "idle" /\ desk.ok
LogsShown ==
  Quiet => \A k \in Logs \ desk.unread :
    /\ ~desk.misanswered => desk.switch[k] = kept.on[k]
    /\ desk.on[k] = kept.on[k]
    /\ desk.warn[k] \/ desk.count[k] <= Count(k)
    /\ desk.warn["history"] \/ desk.count["history"] = Count("history")

\* A text that was sent incognito, or while the window showed a log as off, is not
\* recorded in that log, whatever was switched, refused, restarted or lost since.
PolicyRespected ==
  [][\A k \in Logs : doing = "text" /\ kept'.items[k] # kept.items[k] =>
       k \in asked.logged /\ ~asked.incognito]_ldVars

\* A switch or a Clear button that waits is waiting for something: its command is
\* queued or its answer is on the way.  Documents are the exception: their refusal
\* of every other command frees no control.
Waiting(k, do, answers) ==
  \/ \E i \in DOMAIN cmds : cmds[i].do = do /\ cmds[i].k = k
  \/ \E i \in DOMAIN evs : evs[i].ev \in answers /\ evs[i].k = k
  \/ \E i \in DOMAIN evs : evs[i].ev = "DocumentRejected" /\ evs[i].of = do
  \/ desk.misanswered
ControlsFreed ==
  \A k \in Logs :
    /\ desk.policy[k] => Waiting(k, "policy", {"PolicyUpdated", "PolicyRejected"})
    /\ desk.clear[k] => Waiting(k, "clear", {"Cleared", "ClearRejected"})
============================================================================
