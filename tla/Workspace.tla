----------------------------- MODULE Workspace -----------------------------
(***************************************************************************)
(* The workspace of the window: the options beside the source text, the    *)
(* document that is selected, the window that asks before a fallback, and  *)
(* the handlers that read all of them when a request is sent.  An option   *)
(* lives twice, in its widget and in AppState; refresh_ui copies the state *)
(* to the widget, a change of the widget calls back to change the state.   *)
(* The streams themselves are in TranslationStream and DocumentJobs.       *)
(***************************************************************************)
EXTENDS Naturals

CONSTANTS
  WsJobs,       \* document jobs in the database
  WsFallbacks,  \* saved providers other than the active one
  WsMaxSteps    \* bound: actions of the user other than choosing a fallback

Qualities == {"standard", "best"}   \* stands for quality mode and preset alike
JobStates == {"Pending", "Running", "Paused", "Completed", "Cancelled", "Failed"}

VARIABLES
  wsp,       \* widgets, cells of UiBindings and the fields of AppState they show
  confirm,   \* the window that asks before a fallback
  listed,    \* the dialog of documents: the jobs as they were when it opened
  works,     \* the jobs in the database: state and saved options
  request,   \* the last request that was sent
  grants,    \* approvals given so far, and requests with a fallback sent so far
  panicked,  \* a callback borrowed AppState while it was borrowed: the process ends
  wsSteps

wsVars == <<wsp, confirm, listed, works, request, grants, panicked, wsSteps>>

NotAsked == [open |-> FALSE]

WsInit ==
  /\ works \in [WsJobs -> [state : {"Pending", "Paused"}, quality : Qualities, news : {FALSE}]]
  /\ wsp = [status |-> "Ready", incognito |-> FALSE, quality |-> "standard", shown |-> "standard",
            glossary |-> "none", gtext |-> "none", csv |-> FALSE, lastg |-> "none",
            fb |-> FALSE, pick |-> "none", saved |-> WsFallbacks, approval |-> FALSE, route |-> FALSE,
            source |-> "empty", job |-> "none", jobState |-> "none", text |-> FALSE]
  /\ confirm = NotAsked /\ listed = NotAsked /\ request = [n |-> 0, fallback |-> "none"]
  /\ grants = [given |-> 0, used |-> 0] /\ panicked = FALSE /\ wsSteps = 0

---------------------------------------------------------------------------
(* Helpers.                                                                *)

Occupied(w) == w.status \in {"Translating", "Cancelling"}
\* record_client_error
Refuse(w) == [w EXCEPT !.status = "Failed"]

\* A glossary from a file or the library keeps what its summary does not show.
glossary_summary(g) == IF g = "rich" THEN "plain" ELSE g
parse_glossary(t) == t

fallback_available(w) == ~Occupied(w) /\ w.job = "none" /\ ~w.incognito /\ w.saved # {}

\* refresh_ui: a fallback that is not available is switched off; the dropdown of
\* fallbacks is rebuilt around its selection.  A quality that differs from the
\* dropdown is selected there, which calls back while the state is borrowed.
Refresh(w) ==
  [w EXCEPT !.fb = @ /\ fallback_available(w), !.pick = IF @ \in w.saved THEN @ ELSE "none"]
Refreshed(w) == wsp' = Refresh(w) /\ panicked' = (w.quality # w.shown)

\* A modal window takes the clicks; events arrive nevertheless.
Clickable == ~panicked /\ ~confirm.open /\ ~listed.open
UserActs == Clickable /\ wsSteps < WsMaxSteps /\ wsSteps' = wsSteps + 1

\* The user changes something that no request, dialog or job depends on yet.
Changes(w) == UserActs /\ Refreshed(w) /\ UNCHANGED <<confirm, listed, works, request, grants>>
Prefers(w) == Clickable /\ Refreshed(w) /\ UNCHANGED <<confirm, listed, works, request, grants, wsSteps>>

---------------------------------------------------------------------------
(* Options.                                                                *)

\* Fault: the callback of the dropdown does not tell the state.
ChooseQuality_shown_only(q) ==
  /\ UserActs /\ ~Occupied(wsp) /\ wsp' = [wsp EXCEPT !.shown = q]
  /\ UNCHANGED <<confirm, listed, works, request, grants, panicked>>

ChooseQuality(q) == ~Occupied(wsp) /\ Changes([wsp EXCEPT !.quality = q, !.shown = q])
ToggleIncog == ~Occupied(wsp) /\ Changes([wsp EXCEPT !.incognito = ~@])
EnableFallback == fallback_available(wsp) /\ ~wsp.fb /\ Prefers([wsp EXCEPT !.fb = TRUE])
PickFallback(p) ==
  wsp.fb /\ p \in wsp.saved /\ Prefers([wsp EXCEPT !.pick = p])
SelectRoute == ~Occupied(wsp) /\ ~wsp.route /\ Changes([wsp EXCEPT !.route = TRUE])

\* The source is editable at all times; an edit lets go of the document.
TypeSource(t) == t # wsp.source /\ Changes([wsp EXCEPT !.source = t, !.job = "none"])
\* Typed text is no longer what was imported.
TypeGlossary(t) ==
  ~Occupied(wsp) /\ t # wsp.gtext /\ Changes([wsp EXCEPT !.gtext = t, !.csv = FALSE, !.lastg = parse_glossary(t)])

\* The summary is put in the entry, then the entry is marked as imported.
Loaded(w, g) ==
  [w EXCEPT !.gtext = glossary_summary(g), !.csv = TRUE, !.glossary = g, !.lastg = g]
load_glossary_file(g) == ~Occupied(wsp) /\ Changes(Loaded(wsp, g))

---------------------------------------------------------------------------
(* Translate.                                                              *)

current_document_options(w) ==
  IF w.csv THEN w.glossary ELSE parse_glossary(w.gtext)

Sends(kind, job, fallback) ==
  request' = [n |-> request.n + 1, kind |-> kind, job |-> job, fallback |-> fallback,
              quality |-> wsp.quality, glossary |-> current_document_options(wsp),
              incognito |-> wsp.incognito]

\* Fault: an approval is good for more than one request.
Began_approved(w) == [w EXCEPT !.status = "Translating", !.text = TRUE]

\* begin_translation went well: the approval is used up.
Began(w) == [w EXCEPT !.status = "Translating", !.text = TRUE, !.approval = FALSE]

\* The handler is called with the workspace and the approvals as they are; full: the
\* queue has no place.
Refused(w, g) ==
  /\ Refreshed(Refuse(w)) /\ confirm' = NotAsked /\ grants' = g /\ UNCHANGED <<request, works>>

TranslateDocument(w, full, g) ==
  \/ w.job # "none" /\ (w.incognito \/ Occupied(w) \/ full) /\ Refused(w, g)
  \/ /\ w.job # "none" /\ ~w.incognito /\ ~Occupied(w) /\ ~full
     /\ Refreshed([w EXCEPT !.status = "Translating", !.jobState = "Running"])
     /\ Sends("document", w.job, "none")
     /\ works' = [works EXCEPT ![w.job] = [state |-> "Running", quality |-> w.quality, news |-> TRUE]]
     /\ confirm' = NotAsked /\ grants' = g

\* A routing profile that is selected goes before the fallback.
Fallback(w) == IF w.fb /\ ~w.route THEN w.pick ELSE "none"
Chosen_fallback(w) == w.route \/ ~w.fb \/ w.pick # "none"
fallback_confirmation_needed(w) == w.fb /\ ~w.approval

AskFirst(w, g) ==
  /\ Chosen_fallback(w) /\ fallback_confirmation_needed(w)
  /\ confirm' = [open |-> TRUE, pick |-> Fallback(w)] /\ wsp' = w /\ grants' = g
  /\ UNCHANGED <<request, works, panicked>>

TranslateText(w, full, g) ==
  /\ Chosen_fallback(w) /\ ~fallback_confirmation_needed(w)
  /\ \/ (Occupied(w) \/ w.source = "empty") /\ Refused(w, g)
     \/ ~Occupied(w) /\ w.source # "empty" /\ full /\ Refused([Began(w) EXCEPT !.text = FALSE], g)
     \/ /\ ~Occupied(w) /\ w.source # "empty" /\ ~full /\ Refreshed(Began(w))
        /\ Sends("text", "none", Fallback(w))
        /\ grants' = [g EXCEPT !.used = @ + IF Fallback(w) = "none" THEN 0 ELSE 1]
        /\ confirm' = NotAsked /\ works' = works

TranslateHandler(w0, full, g) ==
  LET w == [w0 EXCEPT !.glossary = current_document_options(w0)] IN
  \/ w.glossary = "bad" /\ Refused(w0, g)
  \/ w.glossary # "bad" /\ TranslateDocument(w, full, g)
  \/ /\ w.glossary # "bad" /\ w.job = "none"
     /\ \/ ~Chosen_fallback(w) /\ Refused(w, g)
        \/ AskFirst(w, g) \/ TranslateText(w, full, g)

Translate(full) ==
  UserActs /\ ~Occupied(wsp) /\ TranslateHandler(wsp, full, grants) /\ UNCHANGED listed

\* The window that asks: its button marks the approval and clicks Translate, whose
\* handler then runs although it may be greyed out by now.
Approve(full) ==
  /\ ~panicked /\ confirm.open
  /\ TranslateHandler([wsp EXCEPT !.approval = TRUE], full, [grants EXCEPT !.given = @ + 1])
  /\ UNCHANGED <<listed, wsSteps>>

Decline ==
  /\ ~panicked /\ confirm.open /\ confirm' = NotAsked
  /\ UNCHANGED <<wsp, listed, works, request, grants, panicked, wsSteps>>

---------------------------------------------------------------------------
(* Documents.                                                              *)

\* restore_document_translation_options: the state gets what the job was saved with.
Restored(w, j, s) == [w EXCEPT !.job = j, !.jobState = s.state, !.quality = s.quality]

select_document_job(w, j, s) == [Restored(w, j, s) EXCEPT !.source = j]

OpenDocuments ==
  /\ UserActs /\ ~Occupied(wsp) /\ listed' = [open |-> TRUE, jobs |-> works]
  /\ UNCHANGED <<wsp, confirm, works, request, grants, panicked>>

SelectJob(j) ==
  /\ ~panicked /\ listed.open /\ Refreshed(select_document_job(wsp, j, listed.jobs[j]))
  /\ listed' = NotAsked /\ UNCHANGED <<confirm, works, request, grants, wsSteps>>

\* Pause, Resume or Retry of a row, by the state it was listed with.
JobAction(j) ==
  /\ ~panicked /\ listed.open /\ listed.jobs[j].state # "Completed" /\ listed' = NotAsked
  /\ Refreshed(select_document_job(wsp, j, listed.jobs[j]))
  /\ works' = IF works[j].state = "Completed" THEN works
              ELSE [works EXCEPT ![j].news = TRUE, ![j].state =
                      IF listed.jobs[j].state \in {"Pending", "Running"} THEN "Paused" ELSE "Running"]
  /\ UNCHANGED <<confirm, request, grants, wsSteps>>

CloseDocuments ==
  /\ listed.open /\ ~panicked /\ listed' = NotAsked
  /\ UNCHANGED <<wsp, confirm, works, request, grants, panicked, wsSteps>>

PauseDocument ==
  /\ UserActs /\ wsp.job # "none" /\ wsp.status = "Translating" /\ wsp.jobState = "Running"
  /\ works' = [works EXCEPT ![wsp.job].state = IF @ = "Running" THEN "Paused" ELSE @,
                            ![wsp.job].news = TRUE]
  /\ UNCHANGED <<wsp, confirm, listed, request, grants, panicked>>

ContinueDocument(from) ==
  /\ UserActs /\ wsp.job # "none" /\ ~Occupied(wsp) /\ wsp.jobState \in from
  /\ works' = [works EXCEPT ![wsp.job].state = IF @ = "Completed" THEN @ ELSE "Running",
                            ![wsp.job].news = TRUE]
  /\ Refreshed([wsp EXCEPT !.status = "Translating", !.jobState = "Running"])
  /\ UNCHANGED <<confirm, listed, request, grants>>
ResumeDocument == ContinueDocument({"Paused"})
RetryDocument == ContinueDocument({"Cancelled", "Failed"})

\* Stop names the selected document, or else whatever is in the slot.
StopButton ==
  /\ UserActs /\ wsp.status = "Translating" /\ Refreshed([wsp EXCEPT !.status = "Cancelling"])
  /\ works' = [j \in WsJobs |-> IF works[j].state = "Running" /\ wsp.job \in {j, "none"}
                                THEN [works[j] EXCEPT !.news = TRUE,
                                       !.state = IF wsp.job = j THEN "Cancelled" ELSE "Failed"]
                                ELSE works[j]]
  /\ UNCHANGED <<confirm, listed, request, grants>>

ClearButton ==
  /\ ~Occupied(wsp) /\ wsp.job = "none"
  /\ Changes([wsp EXCEPT !.status = "Ready", !.source = "empty", !.jobState = "none"])

---------------------------------------------------------------------------
(* Events, applied and followed by refresh_ui.                             *)

Event(w) == ~panicked /\ Refreshed(w) /\ UNCHANGED <<confirm, listed, request, grants, wsSteps>>

TextEnded(s) == wsp.text /\ works' = works /\ Event([wsp EXCEPT !.status = s, !.text = FALSE])

\* DocumentJobsRestored: the first unfinished job, if nothing is selected.
JobsRestored(j) ==
  /\ wsSteps = 0 /\ wsp.job = "none" /\ works[j].state # "Completed" /\ works' = works
  /\ Event(select_document_job(wsp, j, works[j]))

\* DocumentJobUpdated: the window turns to the job that reports, not to its text.
DocumentJobUpdated(j) ==
  LET s == works[j].state
      w == Restored(wsp, j, works[j])
      status == CASE s = "Running" -> IF Occupied(w) THEN w.status ELSE "Translating"
                  [] s = "Paused" -> "Ready"
                  [] s = "Pending" -> w.status
                  [] OTHER -> s
  IN  /\ works[j].news /\ works' = [works EXCEPT ![j].news = FALSE]
      /\ Event([w EXCEPT !.status = status])

\* The job makes progress or ends.
JobAdvances(j) ==
  /\ works[j].state = "Running"
  /\ \E s \in {"Completed", "Failed"} : works' = [works EXCEPT ![j].state = s, ![j].news = TRUE]
  /\ ~panicked /\ UNCHANGED <<wsp, confirm, listed, request, grants, panicked, wsSteps>>

DocumentJobDeleted(j) ==
  /\ works' = works /\ wsp.job = j /\ Event([wsp EXCEPT !.job = "none", !.jobState = "none"])

\* A saved glossary comes back, whatever the user has typed meanwhile.
GlossarySaved(g) == works' = works /\ Event(Loaded(wsp, g))
DocumentRefused == works' = works /\ wsp.job # "none" /\ Event(Refuse(wsp))
FallbackGone(p) == p \in wsp.saved /\ works' = works /\ Event([wsp EXCEPT !.saved = @ \ {p}])

---------------------------------------------------------------------------
WsNext ==
  \/ \E q \in Qualities : ChooseQuality(q)
  \/ ToggleIncog \/ EnableFallback \/ SelectRoute \/ (\E p \in WsFallbacks : PickFallback(p))
  \/ (\E t \in {"empty", "typed"} : TypeSource(t)) \/ (\E t \in {"none", "plain", "bad"} : TypeGlossary(t))
  \/ (\E g \in {"plain", "rich"} : load_glossary_file(g) \/ GlossarySaved(g))
  \/ (\E full \in BOOLEAN : Translate(full) \/ Approve(full)) \/ Decline
  \/ OpenDocuments \/ CloseDocuments \/ PauseDocument \/ ResumeDocument \/ RetryDocument
  \/ StopButton \/ ClearButton \/ DocumentRefused
  \/ (\E s \in {"Completed", "Cancelled", "Failed"} : TextEnded(s))
  \/ \E p \in WsFallbacks : FallbackGone(p)
  \/ \E j \in WsJobs :
       \/ SelectJob(j) \/ JobAction(j) \/ JobsRestored(j) \/ DocumentJobUpdated(j) \/ JobAdvances(j)
       \/ DocumentJobDeleted(j)

WsSpec == WsInit /\ [][WsNext]_wsVars

---------------------------------------------------------------------------
(* Properties.                                                             *)

\* A request is made of what the user sees and did last: the quality the dropdown
\* shows, the glossary that was typed or, whole, the one that was imported last; and
\* nothing incognito becomes a document.
OptionsAsShown ==
  [][request' # request =>
       /\ request'.quality = wsp.shown /\ request'.glossary = wsp.lastg
       /\ request'.incognito = wsp.incognito
       /\ request'.kind = "document" => ~wsp.incognito]_wsVars

\* One approval is good for one request with a fallback at most.
OneRequestPerGrant == grants.used <= grants.given
============================================================================
