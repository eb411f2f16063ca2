--------------------------- MODULE DesktopProofs ---------------------------
(***************************************************************************)
(* What the window and its stores promise, for any jobs, files and         *)
(* entries: one approval of a fallback is good for one request, a request  *)
(* is made of the options that are shown, every recognition of a scan is   *)
(* answered, the logs of the user are shown, written and switched as they  *)
(* were agreed on, and the routing editor loses no row and keeps the       *)
(* profile that it shows.                                                  *)
(***************************************************************************)
EXTENDS Workspace, SourceImport, LocalData, RoutingEditor, FiniteSetTheorems, SequenceTheorems,
        WellFoundedInduction, TLAPS

\* A workspace w and the approvals g given and used: an approval that is marked has
\* not been used.
Covered(w, g) ==
  /\ "approval" \in DOMAIN w /\ w.approval \in BOOLEAN
  /\ g \in [given : Nat, used : Nat]
  /\ g.used <= g.given
  /\ w.approval => g.used < g.given

---------------------------------------------------------------------------
\* refresh_ui does not touch the approval.
LEMMA RefreshKeeps ==
  ASSUME NEW w, NEW g, Covered(w, g), Refreshed(w)
  PROVE  Covered(wsp', g)
<1>1. wsp' = [w EXCEPT !.fb = @ /\ fallback_available(w),
                       !.pick = IF @ \in w.saved THEN @ ELSE "none"]
  BY DEF Refreshed, Refresh
<1>2. DOMAIN wsp' = DOMAIN w /\ wsp'.approval = w.approval
  BY <1>1 DEF Covered
<1> QED
  BY <1>2 DEF Covered

\* The approval that refresh_ui finds is the one before the action.
LEMMA ShownKeeps ==
  ASSUME Covered(wsp, grants), NEW w, DOMAIN w = DOMAIN wsp, w.approval = wsp.approval,
         Refreshed(w), grants' = grants
  PROVE  Covered(wsp, grants)'
<1>1. Covered(w, grants)
  BY DEF Covered
<1>2. Covered(wsp', grants)
  BY <1>1, RefreshKeeps
<1> QED
  BY <1>2 DEF Covered

\* Options: a choice, an edit or an import.
LEMMA OptionsCovered ==
  ASSUME Covered(wsp, grants),
         \/ \E q \in Qualities : ChooseQuality(q)
         \/ ToggleIncog
         \/ EnableFallback
         \/ SelectRoute
         \/ \E p \in WsFallbacks : PickFallback(p)
         \/ \E t \in {"empty", "typed"} : TypeSource(t)
         \/ \E t \in {"none", "plain", "bad"} : TypeGlossary(t)
         \/ \E g \in {"plain", "rich"} : load_glossary_file(g)
         \/ ClearButton
  PROVE  Covered(wsp, grants)'
<1>1. CASE \E q \in Qualities : ChooseQuality(q)
  <2> PICK q \in Qualities : ChooseQuality(q)
    BY <1>1
  <2> QED
    BY ShownKeeps DEF ChooseQuality, Changes, Covered
<1>2. CASE ToggleIncog
  BY <1>2, ShownKeeps DEF ToggleIncog, Changes, Covered
<1>3. CASE EnableFallback
  BY <1>3, ShownKeeps DEF EnableFallback, Prefers, Covered
<1>4. CASE SelectRoute
  BY <1>4, ShownKeeps DEF SelectRoute, Changes, Covered
<1>5. CASE \E p \in WsFallbacks : PickFallback(p)
  BY <1>5, ShownKeeps DEF PickFallback, Prefers, Covered
<1>6. CASE \E t \in {"empty", "typed"} : TypeSource(t)
  BY <1>6, ShownKeeps DEF TypeSource, Changes, Covered
<1>7. CASE \E t \in {"none", "plain", "bad"} : TypeGlossary(t)
  BY <1>7, ShownKeeps DEF TypeGlossary, Changes, Covered
<1>8. CASE \E g \in {"plain", "rich"} : load_glossary_file(g)
  BY <1>8, ShownKeeps DEF load_glossary_file, Loaded, Changes, Covered
<1>9. CASE ClearButton
  BY <1>9, ShownKeeps DEF ClearButton, Changes, Covered
<1> QED
  BY <1>1, <1>2, <1>3, <1>4, <1>5, <1>6, <1>7, <1>8, <1>9

\* A job that is selected or reports brings its own options, never an approval.
LEMMA JobKeeps ==
  ASSUME NEW w, "approval" \in DOMAIN w, NEW j, NEW s
  PROVE  /\ DOMAIN Restored(w, j, s) = DOMAIN w /\ Restored(w, j, s).approval = w.approval
         /\ DOMAIN select_document_job(w, j, s) = DOMAIN w
         /\ select_document_job(w, j, s).approval = w.approval
<1>1. DOMAIN Restored(w, j, s) = DOMAIN w /\ Restored(w, j, s).approval = w.approval
  BY DEF Restored
<1> QED
  BY <1>1 DEF select_document_job

\* The dialog of documents and the document's buttons.
LEMMA DocumentsCovered ==
  ASSUME Covered(wsp, grants),
         \/ OpenDocuments \/ CloseDocuments \/ Decline \/ PauseDocument
         \/ ResumeDocument \/ RetryDocument \/ StopButton
         \/ \E j \in WsJobs : SelectJob(j) \/ JobAction(j) \/ JobAdvances(j)
  PROVE  Covered(wsp, grants)'
<1>1. CASE \/ OpenDocuments \/ CloseDocuments \/ Decline \/ PauseDocument
           \/ \E j \in WsJobs : JobAdvances(j)
  BY <1>1 DEF OpenDocuments, CloseDocuments, Decline, PauseDocument, JobAdvances, Covered
<1>2. CASE ResumeDocument \/ RetryDocument
  BY <1>2, ShownKeeps DEF ResumeDocument, RetryDocument, ContinueDocument, Covered
<1>3. CASE StopButton
  BY <1>3, ShownKeeps DEF StopButton, Covered
<1>4. CASE \E j \in WsJobs : SelectJob(j) \/ JobAction(j)
  <2> PICK j \in WsJobs : SelectJob(j) \/ JobAction(j)
    BY <1>4
  <2> DEFINE w == select_document_job(wsp, j, listed.jobs[j])
  <2>1. DOMAIN w = DOMAIN wsp /\ w.approval = wsp.approval
    BY JobKeeps DEF Covered
  <2>2. Refreshed(w) /\ grants' = grants
    BY DEF SelectJob, JobAction
  <2> HIDE DEF w
  <2> QED
    BY <2>1, <2>2, ShownKeeps
<1> QED
  BY <1>1, <1>2, <1>3, <1>4

\* Events, also those that replace what the user has typed or selected.
LEMMA EventsCovered ==
  ASSUME Covered(wsp, grants),
         \/ \E g \in {"plain", "rich"} : GlossarySaved(g)
         \/ DocumentRefused
         \/ \E s \in {"Completed", "Cancelled", "Failed"} : TextEnded(s)
         \/ \E p \in WsFallbacks : FallbackGone(p)
         \/ \E j \in WsJobs : JobsRestored(j) \/ DocumentJobUpdated(j) \/ DocumentJobDeleted(j)
  PROVE  Covered(wsp, grants)'
<1>1. CASE \E g \in {"plain", "rich"} : GlossarySaved(g)
  BY <1>1, ShownKeeps DEF GlossarySaved, Loaded, Event, Covered
<1>2. CASE DocumentRefused
  BY <1>2, ShownKeeps DEF DocumentRefused, Refuse, Event, Covered
<1>3. CASE \E s \in {"Completed", "Cancelled", "Failed"} : TextEnded(s)
  BY <1>3, ShownKeeps DEF TextEnded, Event, Covered
<1>4. CASE \E p \in WsFallbacks : FallbackGone(p)
  BY <1>4, ShownKeeps DEF FallbackGone, Event, Covered
<1>5. CASE \E j \in WsJobs : JobsRestored(j)
  <2> PICK j \in WsJobs : JobsRestored(j)
    BY <1>5
  <2> QED
    BY ShownKeeps, JobKeeps DEF JobsRestored, Event, Covered
<1>6. CASE \E j \in WsJobs : DocumentJobUpdated(j)
  <2> PICK j \in WsJobs : DocumentJobUpdated(j)
    BY <1>6
  <2> DEFINE w == Restored(wsp, j, works[j])
  <2>1. DOMAIN w = DOMAIN wsp /\ w.approval = wsp.approval
    BY JobKeeps DEF Covered
  <2>2. PICK status : Refreshed([w EXCEPT !.status = status]) /\ grants' = grants
    BY DEF DocumentJobUpdated, Event
  <2> HIDE DEF w
  <2>3. /\ DOMAIN [w EXCEPT !.status = status] = DOMAIN wsp
        /\ [w EXCEPT !.status = status].approval = wsp.approval
    BY <2>1 DEF Covered
  <2> QED
    BY <2>2, <2>3, ShownKeeps
<1>7. CASE \E j \in WsJobs : DocumentJobDeleted(j)
  BY <1>7, ShownKeeps DEF DocumentJobDeleted, Event, Covered
<1> QED
  BY <1>1, <1>2, <1>3, <1>4, <1>5, <1>6, <1>7

---------------------------------------------------------------------------
\* A refusal keeps the approval for the next Translate.
LEMMA RefusedCovered ==
  ASSUME NEW w, NEW g, Covered(w, g), Refused(w, g)
  PROVE  Covered(wsp', grants')
<1>1. Covered(Refuse(w), g)
  BY DEF Refuse, Covered
<1>2. Refreshed(Refuse(w)) /\ grants' = g
  BY DEF Refused
<1> QED
  BY <1>1, <1>2, RefreshKeeps

\* A document is sent without a fallback.
LEMMA DocumentCovered ==
  ASSUME NEW w, NEW g, NEW full, Covered(w, g), TranslateDocument(w, full, g)
  PROVE  Covered(wsp', grants')
<1>1. CASE Refused(w, g)
  BY <1>1, RefusedCovered
<1>2. CASE Refreshed([w EXCEPT !.status = "Translating", !.jobState = "Running"]) /\ grants' = g
  <2>1. Covered([w EXCEPT !.status = "Translating", !.jobState = "Running"], g)
    BY DEF Covered
  <2> QED
    BY <1>2, <2>1, RefreshKeeps
<1> QED
  BY <1>1, <1>2 DEF TranslateDocument

\* A request with a fallback uses the approval up, and there was one.
LEMMA TextCovered ==
  ASSUME NEW w, NEW g, NEW full, Covered(w, g), TranslateText(w, full, g)
  PROVE  Covered(wsp', grants')
<1>1. DOMAIN Began(w) = DOMAIN w /\ Began(w).approval = FALSE
  BY DEF Began, Covered
<1>2. CASE Refused(w, g)
  BY <1>2, RefusedCovered
<1>3. CASE Refused([Began(w) EXCEPT !.text = FALSE], g)
  <2>1. Covered([Began(w) EXCEPT !.text = FALSE], g)
    BY <1>1 DEF Covered
  <2> QED
    BY <1>3, <2>1, RefusedCovered
<1>4. CASE /\ Refreshed(Began(w))
           /\ grants' = [g EXCEPT !.used = @ + IF Fallback(w) = "none" THEN 0 ELSE 1]
  <2> DEFINE k == IF Fallback(w) = "none" THEN 0 ELSE 1
  <2>1. grants' = [g EXCEPT !.used = @ + k]
    BY <1>4
  <2>2. k = 0 \/ (k = 1 /\ w.approval)
    BY DEF TranslateText, fallback_confirmation_needed, Fallback
  <2> HIDE DEF k
  <2>3. k = 0 \/ (k = 1 /\ g.used < g.given)
    BY <2>2 DEF Covered
  <2>4. g \in [given : Nat, used : Nat] /\ g.used <= g.given
    BY DEF Covered
  <2>5. /\ grants' \in [given : Nat, used : Nat]
        /\ grants'.given = g.given /\ grants'.used = g.used + k
    BY <2>1, <2>3, <2>4
  <2>6. grants'.used <= grants'.given
    BY <2>3, <2>4, <2>5
  <2>7. Covered(Began(w), grants')
    BY <1>1, <2>5, <2>6 DEF Covered
  <2> QED
    BY <1>4, <2>7, RefreshKeeps
<1> QED
  BY <1>2, <1>3, <1>4 DEF TranslateText

\* The handler of Translate, from its button or from the window that asks.
LEMMA HandlerCovered ==
  ASSUME NEW w0, NEW g, NEW full, Covered(w0, g), TranslateHandler(w0, full, g)
  PROVE  Covered(wsp', grants')
<1> DEFINE w == [w0 EXCEPT !.glossary = current_document_options(w0)]
<1>1. Covered(w, g)
  BY DEF Covered
<1>2. \/ Refused(w0, g) \/ Refused(w, g) \/ TranslateDocument(w, full, g)
      \/ AskFirst(w, g) \/ TranslateText(w, full, g)
  BY DEF TranslateHandler
<1> HIDE DEF w
<1>3. CASE AskFirst(w, g)
  BY <1>1, <1>3 DEF AskFirst
<1> QED
  BY <1>1, <1>2, <1>3, RefusedCovered, DocumentCovered, TextCovered

\* The inductive invariant: an approval that is marked has not been used.
THEOREM AlwaysCovered == WsSpec => []Covered(wsp, grants)
<1>1. WsInit => Covered(wsp, grants)
  BY DEF WsInit, Covered
<1>2. Covered(wsp, grants) /\ [WsNext]_wsVars => Covered(wsp, grants)'
  <2> SUFFICES ASSUME Covered(wsp, grants), [WsNext]_wsVars
               PROVE  Covered(wsp, grants)'
    OBVIOUS
  <2>1. CASE UNCHANGED wsVars
    BY <2>1 DEF wsVars, Covered
  <2>2. CASE \E full \in BOOLEAN : Translate(full)
    <3>1. PICK full \in BOOLEAN : TranslateHandler(wsp, full, grants)
      BY <2>2 DEF Translate
    <3>2. Covered(wsp', grants')
      BY <3>1, HandlerCovered
    <3> QED
      BY <3>2 DEF Covered
  <2>3. CASE \E full \in BOOLEAN : Approve(full)
    <3> DEFINE w == [wsp EXCEPT !.approval = TRUE]
               g == [grants EXCEPT !.given = @ + 1]
    <3>1. PICK full \in BOOLEAN : TranslateHandler(w, full, g)
      BY <2>3 DEF Approve
    <3>2. Covered(w, g)
      BY DEF Covered
    <3> HIDE DEF w, g
    <3>3. Covered(wsp', grants')
      BY <3>1, <3>2, HandlerCovered
    <3> QED
      BY <3>3 DEF Covered
  <2>4. CASE ~(\E full \in BOOLEAN : Translate(full) \/ Approve(full)) /\ WsNext
    BY <2>4, OptionsCovered, DocumentsCovered, EventsCovered DEF WsNext
  <2> QED
    BY <2>1, <2>2, <2>3, <2>4
<1> QED
  BY <1>1, <1>2, PTL DEF WsSpec

\* One approval is good for one request with a fallback at most, however approvals,
\* refusals, full queues, changes of the fallback and events follow each other.
THEOREM OneGrantOneRequest == WsSpec => []OneRequestPerGrant
<1>1. Covered(wsp, grants) => OneRequestPerGrant
  BY DEF Covered, OneRequestPerGrant
<1> QED
  BY AlwaysCovered, <1>1, PTL

---------------------------------------------------------------------------
(* What is sent is what is shown.                                          *)

\* The options a request would be made of are those the user did last, and the
\* dropdown shows the quality of the state unless refresh_ui has just panicked.
AsShown(w) ==
  /\ {"quality", "shown", "csv", "glossary", "gtext", "lastg", "incognito"} \subseteq DOMAIN w
  /\ current_document_options(w) = w.lastg

ShownInv == AsShown(wsp) /\ (~panicked => wsp.quality = wsp.shown)

\* refresh_ui selects the quality of the state in the dropdown, or panics.
LEMMA RefreshShows ==
  ASSUME NEW w, AsShown(w), Refreshed(w)
  PROVE  ShownInv'
<1>1. wsp' = [w EXCEPT !.fb = @ /\ fallback_available(w),
                       !.pick = IF @ \in w.saved THEN @ ELSE "none"]
  BY DEF Refreshed, Refresh
<1>2. panicked' = (w.quality # w.shown)
  BY DEF Refreshed
<1>3. /\ DOMAIN wsp' = DOMAIN w /\ wsp'.quality = w.quality /\ wsp'.shown = w.shown
      /\ wsp'.csv = w.csv /\ wsp'.glossary = w.glossary /\ wsp'.gtext = w.gtext /\ wsp'.lastg = w.lastg
  BY <1>1 DEF AsShown
<1> QED
  BY <1>2, <1>3 DEF ShownInv, AsShown, current_document_options, parse_glossary

\* A change that leaves the glossary alone.
LEMMA GlossaryKept ==
  ASSUME NEW v, AsShown(v), NEW w, DOMAIN w = DOMAIN v, w.csv = v.csv, w.glossary = v.glossary,
         w.gtext = v.gtext, w.lastg = v.lastg
  PROVE  AsShown(w)
BY DEF AsShown, current_document_options, parse_glossary

\* A job that is chosen changes no option.
LEMMA JobShown ==
  ASSUME NEW w, AsShown(w), NEW j, NEW s
  PROVE  AsShown(Restored(w, j, s)) /\ AsShown(select_document_job(w, j, s))
<1>1. AsShown(Restored(w, j, s))
  BY GlossaryKept DEF Restored, AsShown
<1> QED
  BY <1>1, GlossaryKept DEF select_document_job, AsShown

\* A glossary that is loaded is the one its summary stands for.
LEMMA LoadedShown ==
  ASSUME NEW w, AsShown(w), NEW g
  PROVE  AsShown(Loaded(w, g))
BY DEF AsShown, Loaded, current_document_options, parse_glossary

\* Every action but Translate ends in refresh_ui or leaves the workspace alone.
LEMMA OptionsShown ==
  ASSUME AsShown(wsp), ShownInv,
         \/ \E q \in Qualities : ChooseQuality(q)
         \/ ToggleIncog \/ EnableFallback \/ SelectRoute
         \/ \E p \in WsFallbacks : PickFallback(p)
         \/ \E t \in {"empty", "typed"} : TypeSource(t)
         \/ \E t \in {"none", "plain", "bad"} : TypeGlossary(t)
         \/ \E g \in {"plain", "rich"} : load_glossary_file(g) \/ GlossarySaved(g)
         \/ ClearButton
  PROVE  ShownInv' /\ request' = request
<1>1. CASE \E q \in Qualities : ChooseQuality(q)
  BY <1>1, RefreshShows, GlossaryKept DEF ChooseQuality, Changes, AsShown
<1>2. CASE ToggleIncog \/ EnableFallback \/ SelectRoute \/ ClearButton
  BY <1>2, RefreshShows, GlossaryKept
  DEF ToggleIncog, EnableFallback, SelectRoute, ClearButton, Changes, Prefers, AsShown
<1>3. CASE \E p \in WsFallbacks : PickFallback(p)
  BY <1>3, RefreshShows, GlossaryKept DEF PickFallback, Prefers, AsShown
<1>4. CASE \E t \in {"empty", "typed"} : TypeSource(t)
  BY <1>4, RefreshShows, GlossaryKept DEF TypeSource, Changes, AsShown
<1>5. CASE \E t \in {"none", "plain", "bad"} : TypeGlossary(t)
  <2>1. PICK t \in {"none", "plain", "bad"} : TypeGlossary(t)
    BY <1>5
  <2> DEFINE w == [wsp EXCEPT !.gtext = t, !.csv = FALSE, !.lastg = parse_glossary(t)]
  <2>2. AsShown(w)
    BY DEF AsShown, current_document_options, parse_glossary
  <2>3. Refreshed(w) /\ request' = request
    BY <2>1 DEF TypeGlossary, Changes
  <2> HIDE DEF w
  <2> QED
    BY <2>2, <2>3, RefreshShows
<1>6. CASE \E g \in {"plain", "rich"} : load_glossary_file(g) \/ GlossarySaved(g)
  BY <1>6, RefreshShows, LoadedShown DEF load_glossary_file, GlossarySaved, Changes, Event
<1> QED
  BY <1>1, <1>2, <1>3, <1>4, <1>5, <1>6

\* A document, accepted or refused, is made of what is shown.
LEMMA DocumentsShown ==
  ASSUME AsShown(wsp), ShownInv,
         \/ OpenDocuments \/ CloseDocuments \/ Decline \/ PauseDocument
         \/ ResumeDocument \/ RetryDocument \/ StopButton \/ DocumentRefused
         \/ \E s \in {"Completed", "Cancelled", "Failed"} : TextEnded(s)
         \/ \E p \in WsFallbacks : FallbackGone(p)
         \/ \E j \in WsJobs : \/ SelectJob(j) \/ JobAction(j) \/ JobsRestored(j) \/ DocumentJobUpdated(j)
                              \/ JobAdvances(j) \/ DocumentJobDeleted(j)
  PROVE  ShownInv' /\ request' = request
<1>1. CASE \/ OpenDocuments \/ CloseDocuments \/ Decline \/ PauseDocument
           \/ \E j \in WsJobs : JobAdvances(j)
  BY <1>1 DEF OpenDocuments, CloseDocuments, Decline, PauseDocument, JobAdvances, ShownInv, AsShown,
              current_document_options, parse_glossary
<1>2. CASE ResumeDocument \/ RetryDocument \/ StopButton
  <2>1. PICK w : /\ w = [wsp EXCEPT !.status = "Translating", !.jobState = "Running"]
                      \/ w = [wsp EXCEPT !.status = "Cancelling"]
                 /\ Refreshed(w) /\ request' = request
    BY <1>2 DEF ResumeDocument, RetryDocument, ContinueDocument, StopButton
  <2>2. DOMAIN w = DOMAIN wsp /\ w.csv = wsp.csv /\ w.glossary = wsp.glossary
    BY <2>1 DEF AsShown
  <2>3. w.gtext = wsp.gtext /\ w.lastg = wsp.lastg
    BY <2>1 DEF AsShown
  <2>4. AsShown(w)
    BY <2>2, <2>3, GlossaryKept
  <2> QED
    BY <2>1, <2>4, RefreshShows
<1>3. CASE \/ DocumentRefused \/ \E s \in {"Completed", "Cancelled", "Failed"} : TextEnded(s)
           \/ \E p \in WsFallbacks : FallbackGone(p)
  BY <1>3, RefreshShows, GlossaryKept DEF DocumentRefused, Refuse, TextEnded, FallbackGone, Event, AsShown
<1>4. CASE \E j \in WsJobs : SelectJob(j) \/ JobAction(j) \/ JobsRestored(j)
  BY <1>4, RefreshShows, JobShown DEF SelectJob, JobAction, JobsRestored, Event
<1>5. CASE \E j \in WsJobs : DocumentJobUpdated(j)
  <2>1. PICK j \in WsJobs : DocumentJobUpdated(j)
    BY <1>5
  <2> DEFINE w == Restored(wsp, j, works[j])
  <2>2. AsShown(w)
    BY JobShown
  <2>3. PICK status : Refreshed([w EXCEPT !.status = status]) /\ request' = request
    BY <2>1 DEF DocumentJobUpdated, Event
  <2> HIDE DEF w
  <2>4. AsShown([w EXCEPT !.status = status])
    BY <2>2, GlossaryKept DEF AsShown
  <2> QED
    BY <2>3, <2>4, RefreshShows
<1>6. CASE \E j \in WsJobs : DocumentJobDeleted(j)
  BY <1>6, RefreshShows, GlossaryKept DEF DocumentJobDeleted, Event, AsShown
<1> QED
  BY <1>1, <1>2, <1>3, <1>4, <1>5, <1>6

\* What the request that was sent last is made of.
MadeOf(w) ==
  /\ request'.quality = w.quality /\ request'.glossary = current_document_options(w)
  /\ request'.incognito = w.incognito
  /\ request'.kind = "document" => ~w.incognito

\* The handler of Translate makes the request of the workspace it is called with.
LEMMA HandlerShown ==
  ASSUME AsShown(wsp), ShownInv, NEW w0, NEW g, NEW full, TranslateHandler(w0, full, g),
         w0 = wsp \/ w0 = [wsp EXCEPT !.approval = TRUE]
  PROVE  ShownInv' /\ (request' = request \/ MadeOf(wsp))
<1> DEFINE w == [w0 EXCEPT !.glossary = current_document_options(w0)]
<1>1. AsShown(w0) /\ w0.incognito = wsp.incognito /\ w0.quality = wsp.quality /\ w0.shown = wsp.shown
  BY GlossaryKept DEF AsShown
<1>2. /\ AsShown(w) /\ w.incognito = wsp.incognito /\ w.quality = wsp.quality /\ w.shown = wsp.shown
  BY <1>1 DEF AsShown, current_document_options, parse_glossary
<1>3. \/ Refused(w0, g) \/ Refused(w, g) \/ TranslateDocument(w, full, g)
      \/ AskFirst(w, g) \/ TranslateText(w, full, g)
  BY DEF TranslateHandler
<1> HIDE DEF w
<1>4. ASSUME NEW v, AsShown(v), Refused(v, g)
      PROVE  ShownInv' /\ request' = request
  <2>1. AsShown(Refuse(v))
    BY <1>4, GlossaryKept DEF Refuse, AsShown
  <2> QED
    BY <1>4, <2>1, RefreshShows DEF Refused
<1>5. CASE TranslateDocument(w, full, g)
  <2>1. AsShown([w EXCEPT !.status = "Translating", !.jobState = "Running"])
    BY <1>2, GlossaryKept DEF AsShown
  <2>2. CASE Refused(w, g)
    BY <1>2, <1>4, <2>2
  <2>3. CASE /\ ~w.incognito /\ Sends("document", w.job, "none")
             /\ Refreshed([w EXCEPT !.status = "Translating", !.jobState = "Running"])
    BY <1>2, <2>1, <2>3, RefreshShows DEF Sends, MadeOf
  <2> QED
    BY <1>5, <2>2, <2>3 DEF TranslateDocument
<1>6. CASE TranslateText(w, full, g)
  <2>1. AsShown(Began(w))
    BY <1>2, GlossaryKept DEF Began, AsShown
  <2>2. AsShown([Began(w) EXCEPT !.text = FALSE])
    BY <2>1, GlossaryKept DEF AsShown
  <2>3. CASE Refused(w, g) \/ Refused([Began(w) EXCEPT !.text = FALSE], g)
    BY <1>2, <1>4, <2>2, <2>3
  <2>4. CASE Refreshed(Began(w)) /\ Sends("text", "none", Fallback(w))
    BY <2>1, <2>4, RefreshShows DEF Sends, MadeOf
  <2> QED
    BY <1>6, <2>3, <2>4 DEF TranslateText
<1>7. CASE AskFirst(w, g)
  BY <1>2, <1>7 DEF AskFirst, ShownInv, AsShown, current_document_options, parse_glossary
<1> QED
  BY <1>1, <1>2, <1>3, <1>4, <1>5, <1>6, <1>7

\* Whatever the order of choices, imports, restored jobs, approvals and events, a request
\* is made of what the window showed when it was sent.
THEOREM RequestsAreAsShown == WsSpec => OptionsAsShown
<1>1. WsInit => ShownInv
  BY DEF WsInit, ShownInv, AsShown, current_document_options, parse_glossary
<1> DEFINE SentAsShown == request' # request =>
       /\ request'.quality = wsp.shown /\ request'.glossary = wsp.lastg
       /\ request'.incognito = wsp.incognito
       /\ request'.kind = "document" => ~wsp.incognito
<1>2. ShownInv /\ [WsNext]_wsVars => ShownInv' /\ [SentAsShown]_wsVars
  <2> SUFFICES ASSUME ShownInv, [WsNext]_wsVars
               PROVE  ShownInv' /\ SentAsShown
    OBVIOUS
  <2>1. AsShown(wsp)
    BY DEF ShownInv
  <2>2. CASE UNCHANGED wsVars
    BY <2>2 DEF wsVars, ShownInv, AsShown, current_document_options, parse_glossary
  <2>3. CASE \E full \in BOOLEAN : Translate(full) \/ Approve(full)
    <3>1. PICK w0, g, full : TranslateHandler(w0, full, g) /\ (w0 = wsp \/ w0 = [wsp EXCEPT !.approval = TRUE])
      BY <2>3 DEF Translate, Approve
    <3>2. ~panicked
      BY <2>3 DEF Translate, Approve, UserActs, Clickable
    <3>3. ShownInv' /\ (request' = request \/ MadeOf(wsp))
      BY <2>1, <3>1, HandlerShown
    <3> QED
      BY <2>1, <3>2, <3>3 DEF MadeOf, ShownInv, AsShown
  <2>4. CASE ~(\E full \in BOOLEAN : Translate(full) \/ Approve(full)) /\ WsNext
    <3>1. ShownInv' /\ request' = request
      BY <2>1, <2>4, OptionsShown, DocumentsShown DEF WsNext
    <3> QED
      BY <3>1
  <2> QED
    BY <2>2, <2>3, <2>4
<1>3. ShownInv /\ [WsNext]_wsVars => ShownInv'
  BY <1>2
<1>4. ShownInv /\ [WsNext]_wsVars => [SentAsShown]_wsVars
  BY <1>2
<1> QED
  BY <1>1, <1>3, <1>4, PTL DEF WsSpec, OptionsAsShown

---------------------------------------------------------------------------
(* Queues: what is in one, and what comes before what.                     *)

Held(s) == {s[i] : i \in 1..Len(s)}

\* Whatever of A is in s comes before whatever of B is in it.
Before(s, A, B) ==
  \A i, j \in 1..Len(s) : s[i] \in A /\ s[j] \in B => i < j

AtMostOne(s, A) ==
  \A i, j \in 1..Len(s) : s[i] \in A /\ s[j] \in A => i = j

\* e is the last of A in s.
LastOf(s, A, e) ==
  \E i \in 1..Len(s) : s[i] = e /\ e \in A /\ \A j \in 1..Len(s) : s[j] \in A => j <= i

\* The elements of a queue with one more.
LEMMA AppendFacts ==
  ASSUME NEW T, NEW s \in Seq(T), NEW x, NEW r, r = Append(s, x)
  PROVE  /\ Len(r) = Len(s) + 1 /\ Len(s) \in Nat /\ r[Len(r)] = x
         /\ \A i \in 1..Len(s) : r[i] = s[i] /\ i \in 1..Len(r)
         /\ \A i \in 1..Len(r) : i = Len(r) \/ i \in 1..Len(s)
         /\ x \in T => r \in Seq(T)
  OBVIOUS

\* The elements of a queue without its first.
LEMMA TailFacts ==
  ASSUME NEW T, NEW s \in Seq(T), s # <<>>, NEW r, r = Tail(s)
  PROVE  /\ Len(s) = Len(r) + 1 /\ Len(r) \in Nat /\ Head(s) = s[1] /\ s[1] \in T /\ 1 \in 1..Len(s)
         /\ \A i \in 1..Len(r) : r[i] = s[i + 1] /\ i + 1 \in 1..Len(s)
         /\ \A i \in 1..Len(s) : i = 1 \/ (i - 1 \in 1..Len(r) /\ s[i] = r[i - 1])
         /\ r \in Seq(T)
<1>1. Len(s) \in Nat /\ Len(s) > 0 /\ Len(r) = Len(s) - 1 /\ r \in Seq(T)
  OBVIOUS
<1>2. \A i \in 1..Len(r) : r[i] = s[i + 1]
  OBVIOUS
<1>3. \A i \in 1..Len(s) : i = 1 \/ (i - 1 \in 1..Len(r) /\ (i - 1) + 1 = i)
  BY <1>1
<1>4. \A i \in 1..Len(s) : i = 1 \/ (i - 1 \in 1..Len(r) /\ s[i] = r[i - 1])
  BY <1>2, <1>3
<1>5. Head(s) = s[1] /\ s[1] \in T
  BY <1>1
<1> QED
  BY <1>1, <1>2, <1>4, <1>5

\* What a queue holds, one more appended.
LEMMA HeldAppended ==
  ASSUME NEW T, NEW s \in Seq(T), NEW x \in T
  PROVE  Append(s, x) \in Seq(T) /\ Held(Append(s, x)) = Held(s) \cup {x}
<1>1. PICK r : r = Append(s, x)
  OBVIOUS
<1>2. /\ Len(r) = Len(s) + 1 /\ Len(s) \in Nat /\ r[Len(r)] = x
      /\ \A i \in 1..Len(s) : r[i] = s[i] /\ i \in 1..Len(r)
      /\ \A i \in 1..Len(r) : i = Len(r) \/ i \in 1..Len(s)
      /\ r \in Seq(T)
  BY <1>1, AppendFacts
<1>3. Held(r) = Held(s) \cup {x}
  BY <1>2 DEF Held
<1> QED
  BY <1>1, <1>2, <1>3

\* What a queue holds, its first taken.
LEMMA HeldTaken ==
  ASSUME NEW T, NEW s \in Seq(T), s # <<>>
  PROVE  Tail(s) \in Seq(T) /\ Head(s) \in T /\ Held(s) = Held(Tail(s)) \cup {Head(s)}
<1>1. PICK r : r = Tail(s)
  OBVIOUS
<1>2. /\ Len(s) = Len(r) + 1 /\ Len(r) \in Nat /\ Head(s) = s[1] /\ s[1] \in T /\ 1 \in 1..Len(s)
      /\ \A i \in 1..Len(r) : r[i] = s[i + 1] /\ i + 1 \in 1..Len(s)
      /\ \A i \in 1..Len(s) : i = 1 \/ (i - 1 \in 1..Len(r) /\ s[i] = r[i - 1])
      /\ r \in Seq(T)
  BY <1>1, TailFacts
<1>3. \A i \in 1..Len(s) : s[i] = Head(s) \/ \E j \in 1..Len(r) : s[i] = r[j]
  BY <1>2
<1>4. \A j \in 1..Len(r) : \E i \in 1..Len(s) : s[i] = r[j]
  BY <1>2
<1>5. \E i \in 1..Len(s) : s[i] = Head(s)
  BY <1>2
<1>6. ASSUME NEW x \in Held(s)
      PROVE  x \in Held(r) \cup {Head(s)}
  BY <1>3, <1>6 DEF Held
<1>7. ASSUME NEW x \in Held(r) \cup {Head(s)}
      PROVE  x \in Held(s)
  BY <1>4, <1>5, <1>7 DEF Held
<1>8. Held(s) = Held(r) \cup {Head(s)}
  BY <1>6, <1>7
<1>9. Tail(s) \in Seq(T) /\ Head(s) \in T
  BY <1>1, <1>2
<1> QED
  BY <1>1, <1>8, <1>9

\* An order survives what is appended, unless that should have come earlier.
LEMMA BeforeAppended ==
  ASSUME NEW T, NEW s \in Seq(T), NEW x \in T, NEW A, NEW B, Before(s, A, B),
         x \in A => Held(s) \cap B = {} /\ x \notin B
  PROVE  Before(Append(s, x), A, B)
<1>1. PICK r : r = Append(s, x)
  OBVIOUS
<1>2. /\ Len(r) = Len(s) + 1 /\ Len(s) \in Nat /\ r[Len(r)] = x
      /\ \A i \in 1..Len(s) : r[i] = s[i] /\ i \in 1..Len(r)
      /\ \A i \in 1..Len(r) : i = Len(r) \/ i \in 1..Len(s)
  BY <1>1, AppendFacts
<1>3. ASSUME NEW i \in 1..Len(r), NEW j \in 1..Len(r), r[i] \in A, r[j] \in B
      PROVE  i < j
  <2>1. i \in 1..Len(s)
    <3>1. SUFFICES ASSUME i = Len(r) PROVE FALSE
      BY <1>2
    <3>2. x \in A /\ Held(s) \cap B = {} /\ x \notin B
      BY <1>2, <1>3, <3>1
    <3>3. j \in 1..Len(s)
      BY <1>2, <1>3, <3>2
    <3> QED
      BY <1>2, <1>3, <3>2, <3>3 DEF Held
  <2>2. CASE j = Len(r)
    BY <1>2, <2>1, <2>2
  <2>3. CASE j \in 1..Len(s)
    BY <1>2, <1>3, <2>1, <2>3 DEF Before
  <2> QED
    BY <1>2, <2>2, <2>3
<1>4. Before(r, A, B)
  BY <1>3 DEF Before
<1> QED
  BY <1>1, <1>4

\* One is still the most if none was there.
LEMMA AtMostOneAppended ==
  ASSUME NEW T, NEW s \in Seq(T), NEW x \in T, NEW A, AtMostOne(s, A), x \in A => Held(s) \cap A = {}
  PROVE  AtMostOne(Append(s, x), A)
<1>1. PICK r : r = Append(s, x)
  OBVIOUS
<1>2. /\ Len(r) = Len(s) + 1 /\ Len(s) \in Nat /\ r[Len(r)] = x
      /\ \A i \in 1..Len(s) : r[i] = s[i] /\ i \in 1..Len(r)
      /\ \A i \in 1..Len(r) : i = Len(r) \/ i \in 1..Len(s)
  BY <1>1, AppendFacts
<1>3. \A i \in 1..Len(s) : s[i] \in A => x \notin A
  BY DEF Held
<1>4. AtMostOne(r, A)
  BY <1>2, <1>3 DEF AtMostOne
<1> QED
  BY <1>1, <1>4

\* What is appended is the last, or the last is as it was.
LEMMA LastOfAppended ==
  ASSUME NEW T, NEW s \in Seq(T), NEW x \in T, NEW A, NEW e, LastOf(Append(s, x), A, e)
  PROVE  (x \in A /\ e = x) \/ (x \notin A /\ LastOf(s, A, e))
<1>1. PICK r : r = Append(s, x)
  OBVIOUS
<1>2. /\ Len(r) = Len(s) + 1 /\ Len(s) \in Nat /\ r[Len(r)] = x
      /\ \A i \in 1..Len(s) : r[i] = s[i] /\ i \in 1..Len(r)
      /\ \A i \in 1..Len(r) : i = Len(r) \/ i \in 1..Len(s)
  BY <1>1, AppendFacts
<1>3. PICK i \in 1..Len(r) : r[i] = e /\ e \in A /\ \A j \in 1..Len(r) : r[j] \in A => j <= i
  BY <1>1 DEF LastOf
<1>4. CASE i = Len(r)
  BY <1>2, <1>3, <1>4
<1>5. CASE i \in 1..Len(s)
  <2>1. x \notin A
    BY <1>2, <1>3, <1>5
  <2>2. s[i] = e /\ \A j \in 1..Len(s) : s[j] \in A => j <= i
    BY <1>2, <1>3, <1>5
  <2> QED
    BY <1>3, <1>5, <2>1, <2>2 DEF LastOf
<1> QED
  BY <1>2, <1>4, <1>5

\* An order survives the taking of the first, and the first tells what is not there.
LEMMA BeforeTaken ==
  ASSUME NEW T, NEW s \in Seq(T), s # <<>>, NEW A, NEW B, Before(s, A, B)
  PROVE  Before(Tail(s), A, B) /\ (Head(s) \in B => Held(s) \cap A = {})
<1>1. PICK r : r = Tail(s)
  OBVIOUS
<1>2. /\ Len(s) = Len(r) + 1 /\ Len(r) \in Nat /\ Head(s) = s[1] /\ 1 \in 1..Len(s)
      /\ \A i \in 1..Len(r) : r[i] = s[i + 1] /\ i + 1 \in 1..Len(s)
  BY <1>1, TailFacts
<1>3. ASSUME NEW i \in 1..Len(r), NEW j \in 1..Len(r), r[i] \in A, r[j] \in B
      PROVE  i < j
  <2>1. s[i + 1] \in A /\ s[j + 1] \in B /\ i + 1 \in 1..Len(s) /\ j + 1 \in 1..Len(s)
    BY <1>2, <1>3
  <2>2. i + 1 < j + 1
    BY <2>1 DEF Before
  <2> QED
    BY <2>2
<1>4. ASSUME Head(s) \in B, NEW i \in 1..Len(s), s[i] \in A
      PROVE  FALSE
  <2>1. i < 1
    BY <1>2, <1>4 DEF Before
  <2> QED
    BY <2>1
<1>5. Before(r, A, B)
  BY <1>3 DEF Before
<1> QED
  BY <1>1, <1>4, <1>5 DEF Held

\* If the one was the first, none is left.
LEMMA AtMostOneTaken ==
  ASSUME NEW T, NEW s \in Seq(T), s # <<>>, NEW A, AtMostOne(s, A)
  PROVE  AtMostOne(Tail(s), A) /\ (Head(s) \in A => Held(Tail(s)) \cap A = {})
<1>1. PICK r : r = Tail(s)
  OBVIOUS
<1>2. /\ Len(s) = Len(r) + 1 /\ Len(r) \in Nat /\ Head(s) = s[1] /\ 1 \in 1..Len(s)
      /\ \A i \in 1..Len(r) : r[i] = s[i + 1] /\ i + 1 \in 1..Len(s)
  BY <1>1, TailFacts
<1>3. ASSUME NEW i \in 1..Len(r), NEW j \in 1..Len(r), r[i] \in A, r[j] \in A
      PROVE  i = j
  <2>1. s[i + 1] \in A /\ s[j + 1] \in A /\ i + 1 \in 1..Len(s) /\ j + 1 \in 1..Len(s)
    BY <1>2, <1>3
  <2>2. i + 1 = j + 1
    BY <2>1 DEF AtMostOne
  <2> QED
    BY <2>2
<1>4. ASSUME Head(s) \in A, NEW i \in 1..Len(r), r[i] \in A
      PROVE  FALSE
  <2>1. s[i + 1] \in A /\ i + 1 \in 1..Len(s)
    BY <1>2, <1>4
  <2>2. i + 1 = 1
    BY <1>2, <1>4, <2>1 DEF AtMostOne
  <2> QED
    BY <2>2
<1>5. AtMostOne(r, A)
  BY <1>3 DEF AtMostOne
<1>6. Head(s) \in A => Held(r) \cap A = {}
  BY <1>4 DEF Held
<1> QED
  BY <1>1, <1>5, <1>6

\* The last of what is left was the last, and so is a first with none after it.
LEMMA LastOfTaken ==
  ASSUME NEW T, NEW s \in Seq(T), s # <<>>, NEW A, NEW e,
         \/ LastOf(Tail(s), A, e)
         \/ e = Head(s) /\ e \in A /\ Held(Tail(s)) \cap A = {}
  PROVE  LastOf(s, A, e)
<1>1. PICK r : r = Tail(s)
  OBVIOUS
<1>2. /\ Len(s) = Len(r) + 1 /\ Len(r) \in Nat /\ Head(s) = s[1] /\ 1 \in 1..Len(s)
      /\ \A i \in 1..Len(r) : r[i] = s[i + 1] /\ i + 1 \in 1..Len(s)
      /\ \A i \in 1..Len(s) : i = 1 \/ (i - 1 \in 1..Len(r) /\ s[i] = r[i - 1])
  BY <1>1, TailFacts
<1>3. CASE LastOf(r, A, e)
  <2>1. PICK i \in 1..Len(r) : r[i] = e /\ e \in A /\ \A j \in 1..Len(r) : r[j] \in A => j <= i
    BY <1>3 DEF LastOf
  <2>2. i + 1 \in 1..Len(s) /\ s[i + 1] = e
    BY <1>2, <2>1
  <2>3. ASSUME NEW j \in 1..Len(s), s[j] \in A
        PROVE  j <= i + 1
    <3>1. CASE j = 1
      BY <3>1
    <3>2. CASE j - 1 \in 1..Len(r) /\ s[j] = r[j - 1]
      <4>1. j - 1 <= i
        BY <2>1, <2>3, <3>2
      <4> QED
        BY <4>1
    <3> QED
      BY <1>2, <3>1, <3>2
  <2> QED
    BY <2>1, <2>2, <2>3 DEF LastOf
<1>4. CASE e = Head(s) /\ e \in A /\ Held(r) \cap A = {}
  <2>1. \A i \in 1..Len(r) : r[i] \notin A
    BY <1>4 DEF Held
  <2>2. \A j \in 1..Len(s) : s[j] \in A => j <= 1
    BY <1>2, <2>1
  <2>3. 1 \in 1..Len(s) /\ s[1] = e
    BY <1>2, <1>4
  <2> QED
    BY <1>4, <2>2, <2>3 DEF LastOf
<1> QED
  BY <1>1, <1>3, <1>4

---------------------------------------------------------------------------
(* Opening source files.                                                   *)

SiSpec == SiInit /\ [][SiNext]_siVars

ImportCommands == [do : {"ocr", "create", "text"}, x : Nat]

ImportEvents ==
  [ev : {"Updated"}, x : Nat] \cup [ev : {"DocumentRejected", "TextEnded"}]

Sheets ==
  [text : Nat, uri : Nat, job : Nat, ocrOn : BOOLEAN, ocr_pending : BOOLEAN, busy : BOOLEAN, asking : BOOLEAN]

Settles(e) == e.ev \in {"Updated", "DocumentRejected"}

\* The answer to a wait for recognition is on its way.
Coming(w, cs, es) ==
  w = "ocr" \/ (\E c \in Held(cs) : c.do = "ocr") \/ (\E e \in Held(es) : Settles(e))

\* A directory in use is removed when the recognition ends, whichever way it ends.
ImportInv ==
  /\ sheet \in Sheets /\ icmds \in Seq(ImportCommands) /\ ievs \in Seq(ImportEvents)
  /\ "of" \in DOMAIN ocr /\ ocr.of \in Nat
  /\ sheet.ocr_pending => Coming(iworker, icmds, ievs)
  /\ "live" \in tmpdirs => iworker = "ocr"


\* What the window shows and sends when a document is loaded.
LEMMA LoadKeeps ==
  ASSUME ImportInv, NEW x \in Files, queue_loaded_document(x)
  PROVE  ImportInv'
<1> DEFINE scan == imports[x].kind = "scan" /\ sheet.ocrOn
           c == [do |-> IF scan THEN "ocr" ELSE "create", x |-> x]
<1>1. c \in ImportCommands /\ x \in Nat
  BY DEF ImportCommands, Files
<1>2. UNCHANGED <<ievs, iworker, ocr, tmpdirs>>
  BY DEF queue_loaded_document
<1>3. CASE Full
  <2>1. /\ icmds' = icmds
        /\ sheet' = [sheet EXCEPT !.uri = x, !.busy = FALSE, !.ocr_pending = IF scan THEN FALSE ELSE @]
    BY <1>3 DEF queue_loaded_document
  <2>2. sheet' \in Sheets /\ (sheet'.ocr_pending => sheet.ocr_pending)
    BY <1>1, <2>1 DEF ImportInv, Sheets
  <2> QED
    BY <1>2, <2>1, <2>2 DEF ImportInv, Coming
<1>4. CASE ~Full
  <2>1. icmds' = Append(icmds, c)
    BY <1>4 DEF queue_loaded_document
  <2>2. icmds' \in Seq(ImportCommands) /\ Held(icmds') = Held(icmds) \cup {c}
    BY <1>1, <2>1, HeldAppended DEF ImportInv
  <2>3. CASE scan
    <3>1. sheet' = [sheet EXCEPT !.uri = x, !.ocr_pending = TRUE] /\ c.do = "ocr"
      BY <1>4, <2>3 DEF queue_loaded_document
    <3>2. sheet' \in Sheets
      BY <1>1, <3>1 DEF ImportInv, Sheets
    <3> QED
      BY <1>2, <2>2, <3>1, <3>2 DEF ImportInv, Coming
  <2>4. CASE ~scan
    <3>1. sheet' = [sheet EXCEPT !.uri = x, !.text = x, !.job = x]
      BY <1>4, <2>4 DEF queue_loaded_document
    <3>2. sheet' \in Sheets /\ sheet'.ocr_pending = sheet.ocr_pending
      BY <1>1, <3>1 DEF ImportInv, Sheets
    <3> QED
      BY <1>2, <2>2, <3>2 DEF ImportInv, Coming
  <2> QED
    BY <2>3, <2>4
<1> QED
  BY <1>3, <1>4

\* The worker takes a command and answers it or starts on it.
LEMMA TakenKeeps ==
  ASSUME ImportInv, sheet' = sheet, icmds # <<>>, icmds' = Tail(icmds), tmpdirs' = tmpdirs \/ iworker' = "ocr",
         "of" \in DOMAIN ocr', ocr'.of \in Nat,
         \/ iworker' = "ocr" /\ ievs' = ievs
         \/ /\ iworker' = iworker /\ (\E e \in ImportEvents : Answer(e) /\ (Head(icmds).do = "ocr" => Settles(e)))
         \/ /\ iworker # "ocr" /\ iworker' # "ocr" /\ ievs' = ievs /\ Head(icmds).do # "ocr"
  PROVE  ImportInv'
<1>1. /\ Held(icmds) = Held(icmds') \cup {Head(icmds)} /\ icmds' \in Seq(ImportCommands)
  BY HeldTaken DEF ImportInv
<1>2. CASE iworker' = "ocr" /\ ievs' = ievs
  BY <1>1, <1>2 DEF ImportInv, Coming
<1>3. CASE iworker' = iworker /\ (\E e \in ImportEvents : Answer(e) /\ (Head(icmds).do = "ocr" => Settles(e)))
  <2>1. PICK e \in ImportEvents : ievs' = Append(ievs, e) /\ (Head(icmds).do = "ocr" => Settles(e))
    BY <1>3 DEF Answer
  <2>2. ievs' \in Seq(ImportEvents) /\ Held(ievs') = Held(ievs) \cup {e}
    BY <2>1, HeldAppended DEF ImportInv
  <2> QED
    BY <1>1, <1>3, <2>1, <2>2 DEF ImportInv, Coming
<1>4. CASE iworker # "ocr" /\ iworker' # "ocr" /\ ievs' = ievs /\ Head(icmds).do # "ocr"
  BY <1>1, <1>4 DEF ImportInv, Coming
<1> QED
  BY <1>2, <1>3, <1>4

\* The literals of the model are events.
LEMMA AnswersTyped ==
  /\ \A x \in Nat : Updated(x) \in ImportEvents /\ Settles(Updated(x))
  /\ Refusal \in ImportEvents /\ Settles(Refusal) /\ [ev |-> "TextEnded"] \in ImportEvents
BY DEF Updated, Refusal, ImportEvents, Settles

\* A recognition that ends answers.
LEMMA EndsKeeps ==
  ASSUME ImportInv, NEW e \in ImportEvents, Settles(e), OcrEnds(e)
  PROVE  ImportInv'
<1>1. /\ ievs' = Append(ievs, e) /\ UNCHANGED <<imports, sheet, icmds>>
      /\ iworker' = "idle" /\ ocr' = NoOcr /\ tmpdirs' = tmpdirs \ {"live"}
  BY DEF OcrEnds, Answer
<1>2. ievs' \in Seq(ImportEvents) /\ Held(ievs') = Held(ievs) \cup {e}
  BY <1>1, HeldAppended DEF ImportInv
<1> QED
  BY <1>1, <1>2 DEF ImportInv, Coming, NoOcr

\* Steps that touch neither queue and leave the wait as it is.
LEMMA QuietKeeps ==
  ASSUME ImportInv, UNCHANGED <<icmds, ievs, iworker>>, tmpdirs' \subseteq tmpdirs,
         "of" \in DOMAIN ocr', ocr'.of \in Nat,
         sheet' \in Sheets, sheet'.ocr_pending = sheet.ocr_pending
  PROVE  ImportInv'
BY DEF ImportInv, Coming

\* What the window does keeps the invariant of the import.
LEMMA WindowKeeps ==
  ASSUME ImportInv,
         \/ \E x \in Files : \/ begin_source_file_open(x) \/ ReadFails(x) \/ CancelSelection(x)
                             \/ load_source_file(x) \/ ApplySelection(x)
                             \/ \E k \in FileKinds : ChooseFile(x, k) \/ connect_drop(x, k)
         \/ ToggleOcr \/ EditSource \/ TranslateSource \/ AskClearTemporary
         \/ \E yes \in BOOLEAN : ClearTemporary(yes)
  PROVE  ImportInv'
<1>1. CASE \E x \in Files : queue_loaded_document(x)
  BY <1>1, LoadKeeps
<1>2. CASE \E x \in Files : \/ begin_source_file_open(x) \/ ReadFails(x) \/ CancelSelection(x)
                            \/ UNCHANGED <<sheet, icmds, ievs, iworker, ocr, tmpdirs, stored>>
                            \/ \E k \in FileKinds : ChooseFile(x, k) \/ connect_drop(x, k)
  BY <1>2, QuietKeeps DEF begin_source_file_open, ReadFails, CancelSelection, ChooseFile, connect_drop, ImportInv
<1>3. CASE ToggleOcr \/ EditSource \/ AskClearTemporary \/ \E yes \in BOOLEAN : ClearTemporary(yes)
  <2>1. sheet' \in Sheets /\ sheet'.ocr_pending = sheet.ocr_pending
    <3>1. sheet \in Sheets
      BY DEF ImportInv
    <3>2. CASE ToggleOcr
      <4>1. PICK v : v = ~sheet.ocrOn
        OBVIOUS
      <4>2. v \in BOOLEAN
        BY <4>1, Zenon
      <4>3. sheet' = [sheet EXCEPT !.ocrOn = v]
        BY <3>2, <4>1, Zenon DEF ToggleOcr
      <4> QED
        BY <3>1, <4>2, <4>3 DEF Sheets
    <3>3. CASE EditSource
      BY <3>1, <3>3 DEF EditSource, Sheets
    <3>4. CASE AskClearTemporary \/ \E yes \in BOOLEAN : ClearTemporary(yes)
      BY <3>1, <3>4 DEF AskClearTemporary, ClearTemporary, Sheets
    <3> QED
      BY <1>3, <3>2, <3>3, <3>4
  <2>2. UNCHANGED <<icmds, ievs, iworker, ocr>> /\ tmpdirs' \subseteq tmpdirs
    BY <1>3 DEF ToggleOcr, EditSource, AskClearTemporary, ClearTemporary
  <2> QED
    BY <2>1, <2>2, QuietKeeps DEF ImportInv
<1>4. CASE TranslateSource
  <2>1. PICK c : c = [do |-> "text", x |-> 0]
    OBVIOUS
  <2>2. c \in ImportCommands
    BY <2>1 DEF ImportCommands
  <2>3. icmds' \in Seq(ImportCommands) /\ Held(icmds') = Held(icmds) \cup {c}
    <3>1. icmds' = Append(icmds, c)
      BY <1>4, <2>1 DEF TranslateSource
    <3> QED
      BY <2>2, <3>1, HeldAppended DEF ImportInv
  <2>4. sheet' \in Sheets /\ sheet'.ocr_pending = sheet.ocr_pending
    BY <1>4 DEF TranslateSource, ImportInv, Sheets
  <2>5. UNCHANGED <<ievs, iworker, ocr, tmpdirs>>
    BY <1>4 DEF TranslateSource
  <2> QED
    BY <2>3, <2>4, <2>5 DEF ImportInv, Coming
<1> QED
  BY <1>1, <1>2, <1>3, <1>4 DEF load_source_file, ApplySelection

\* What the worker does keeps the invariant of the import.
LEMMA WorkerKeeps ==
  ASSUME ImportInv,
         \/ CreateJob \/ BusyWithText \/ TranslateText_taken \/ TextDone \/ OcrDocumentJob
         \/ \E n \in 0..(SiPages + 1) : RenderEnds(n)
         \/ ChildWrites \/ run_process_deadline \/ PageRead
  PROVE  ImportInv'
<1>1. icmds # <<>> => Head(icmds) \in ImportCommands
  BY HeldTaken DEF ImportInv
<1>2. CASE CreateJob
  <2>1. Head(icmds).x \in Nat /\ icmds # <<>>
    BY <1>1, <1>2 DEF CreateJob, HeadIs, ImportCommands
  <2> QED
    BY <1>2, <2>1, AnswersTyped, TakenKeeps DEF CreateJob, HeadIs, ImportInv
<1>3. CASE BusyWithText
  <2>1. (icmds # <<>> /\ Head(icmds).do = "text") \/ Answer(Refusal)
    BY <1>3 DEF BusyWithText
  <2> QED
    BY <1>3, <2>1, AnswersTyped, TakenKeeps DEF BusyWithText, ImportInv
<1>4. CASE TranslateText_taken
  BY <1>4, TakenKeeps DEF TranslateText_taken, HeadIs, ImportInv
<1>5. CASE OcrDocumentJob
  <2>1. Head(icmds).x \in Nat /\ icmds # <<>>
    BY <1>1, <1>5 DEF OcrDocumentJob, HeadIs, ImportCommands
  <2>2. "of" \in DOMAIN ocr' /\ ocr'.of \in Nat
    BY <1>5, <2>1 DEF OcrDocumentJob, ImportInv, NoOcr
  <2> QED
    BY <1>5, <2>1, <2>2, AnswersTyped, TakenKeeps DEF OcrDocumentJob, HeadIs, ImportInv
<1>6. CASE TextDone
  <2>1. PICK e \in ImportEvents :
          /\ ievs' = Append(ievs, e) /\ iworker = "text" /\ iworker' = "idle"
          /\ UNCHANGED <<imports, sheet, icmds, ocr, tmpdirs, stored>>
    BY <1>6, AnswersTyped DEF TextDone, Answer
  <2>2. ievs' \in Seq(ImportEvents) /\ Held(ievs') = Held(ievs) \cup {e}
    BY <2>1, HeldAppended DEF ImportInv
  <2> QED
    BY <2>1, <2>2 DEF ImportInv, Coming
<1>7. CASE OcrEnds(Refusal) \/ OcrEnds(Updated(ocr.of))
  BY <1>7, AnswersTyped, EndsKeeps DEF ImportInv
<1>8. CASE /\ UNCHANGED <<imports, sheet, icmds, ievs, iworker, tmpdirs>>
           /\ "of" \in DOMAIN ocr' /\ ocr'.of = ocr.of
  BY <1>8, QuietKeeps DEF ImportInv
<1>9. CASE \E n \in 0..(SiPages + 1) : RenderEnds(n)
  <2>1. PICK n \in 0..(SiPages + 1) : RenderEnds(n)
    BY <1>9
  <2>2. CASE n \in 1..SiPages /\ "live" \in tmpdirs
    <3>1. PICK k : ocr' = [ocr EXCEPT !.step = "page", !.left = n, !.need = k]
      BY <2>1, <2>2 DEF RenderEnds
    <3>2. "of" \in DOMAIN ocr' /\ ocr'.of = ocr.of
      BY <3>1 DEF ImportInv
    <3> QED
      BY <1>8, <2>1, <2>2, <3>2 DEF RenderEnds
  <2> QED
    BY <1>7, <2>1, <2>2 DEF RenderEnds
<1>10. CASE ChildWrites
  <2>1. PICK n, m : /\ ocr' = [ocr EXCEPT !.need = n, !.pipe = m]
                    /\ UNCHANGED <<imports, sheet, icmds, ievs, iworker, tmpdirs>>
    BY <1>10 DEF ChildWrites
  <2>2. "of" \in DOMAIN ocr' /\ ocr'.of = ocr.of
    BY <2>1 DEF ImportInv
  <2> QED
    BY <1>8, <2>1, <2>2
<1>11. CASE PageRead
  <2>1. CASE \E k, t : /\ ocr' = [ocr EXCEPT !.left = @ - 1, !.need = k, !.pipe = 0, !.texts = t]
                       /\ UNCHANGED <<imports, sheet, icmds, ievs, iworker, tmpdirs>>
    <3>1. "of" \in DOMAIN ocr' /\ ocr'.of = ocr.of
      BY <2>1 DEF ImportInv
    <3> QED
      BY <1>8, <2>1, <3>1
  <2>2. CASE OcrEnds(Refusal) \/ OcrEnds(Updated(ocr.of))
    BY <1>7, <2>2, Zenon
  <2>3. \/ \E k, t : /\ ocr' = [ocr EXCEPT !.left = @ - 1, !.need = k, !.pipe = 0, !.texts = t]
                     /\ UNCHANGED <<imports, sheet, icmds, ievs, iworker, tmpdirs>>
        \/ OcrEnds(Refusal) \/ OcrEnds(Updated(ocr.of))
    <3>1. PICK t : t = ocr.texts + (IF ocr.pipe > 0 THEN 1 ELSE 0)
      OBVIOUS
    <3>2. CASE OcrEnds(Refusal) \/ OcrEnds(Updated(ocr.of))
      BY <3>2
    <3>3. CASE /\ \E k : ocr' = [ocr EXCEPT !.left = @ - 1, !.need = k, !.pipe = 0, !.texts = t]
               /\ UNCHANGED <<imports, sheet, icmds, ievs, iworker, tmpdirs>>
      BY <3>3
    <3> QED
      BY <1>11, <3>1, <3>2, <3>3 DEF PageRead
  <2> QED
    BY <2>1, <2>2, <2>3
<1> QED
  BY <1>2, <1>3, <1>4, <1>5, <1>6, <1>7, <1>9, <1>10, <1>11 DEF run_process_deadline

\* An applied event keeps the invariant of the import.
LEMMA EventKeeps ==
  ASSUME ImportInv, ApplyImportEvent
  PROVE  ImportInv'
<1> DEFINE e == Head(ievs)
<1>1. /\ ievs # <<>> /\ ievs' = Tail(ievs) /\ sheet' = ShownAs(e)
      /\ UNCHANGED <<imports, icmds, iworker, ocr, tmpdirs, stored>>
  BY DEF ApplyImportEvent
<1>2. /\ Held(ievs) = Held(ievs') \cup {e} /\ e \in ImportEvents /\ ievs' \in Seq(ImportEvents)
  BY <1>1, HeldTaken DEF ImportInv
<1> HIDE DEF e
<1>3. /\ sheet' \in Sheets /\ (sheet'.ocr_pending => sheet.ocr_pending /\ ~Settles(e))
  <2>1. CASE e.ev = "Updated"
    BY <1>1, <1>2, <2>1 DEF ShownAs, ImportInv, Sheets, ImportEvents
  <2>2. CASE e.ev = "DocumentRejected"
    BY <1>1, <1>2, <2>2 DEF ShownAs, ImportInv, Sheets, ImportEvents
  <2>3. CASE e.ev = "TextEnded"
    BY <1>1, <1>2, <2>3 DEF ShownAs, ImportInv, Sheets, ImportEvents, Settles
  <2> QED
    BY <1>2, <2>1, <2>2, <2>3 DEF ImportEvents
<1> QED
  BY <1>1, <1>2, <1>3 DEF ImportInv, Coming

\* A wait for recognition always has an answer to come, and a directory in use belongs to
\* a recognition under way, for any number of imports, pages and queued commands.
THEOREM RecognitionIsAnswered == SiSpec => []OcrAnswered
<1>1. SiInit => ImportInv
  BY DEF SiInit, ImportInv, Sheets, NoOcr
<1>2. ImportInv /\ [SiNext]_siVars => ImportInv'
  <2> SUFFICES ASSUME ImportInv, [SiNext]_siVars
               PROVE  ImportInv'
    OBVIOUS
  <2>1. CASE UNCHANGED siVars
    BY <2>1, QuietKeeps DEF siVars, ImportInv
  <2>2. CASE SiNext
    BY <2>2, WindowKeeps, WorkerKeeps, EventKeeps DEF SiNext
  <2> QED
    BY <2>1, <2>2
<1>3. ImportInv => OcrAnswered
  BY DEF ImportInv, OcrAnswered, Coming, Held, Settles
<1> QED
  BY <1>1, <1>2, <1>3, PTL DEF SiSpec

---------------------------------------------------------------------------
(* Local data.                                                             *)

LdSpec == LdInit /\ [][LdNext]_ldVars

Kinds == Logs \cup Libraries

Requests == [do : {"translate"}, item : Entries, incognito : BOOLEAN,
             route : Entries \cup {"none"}, logged : SUBSET Logs]

Orders ==
  {"policy", "clear", "list", "delete", "save", "import", "export", "translate", "document"}

LdCommands ==
  [do : {"policy"}, k : Logs, on : BOOLEAN] \cup [do : {"clear"}, k : Logs]
  \cup [do : {"list"}, k : Kinds] \cup [do : {"delete"}, k : Kinds, item : Entries]
  \cup [do : {"save"}, k : Libraries, item : Entries]
  \cup [do : {"import"}, k : {"routing"}, item : Entries, valid : BOOLEAN]
  \cup [do : {"export"}, k : {"routing"}, item : Entries]
  \cup Requests \cup [do : {"document"}]

LdEvents ==
  [ev : {"Ready", "Restored", "Unavailable", "ActionRejected", "Rejected", "DocumentRunning",
         "DocumentEnded", "TextEnded"}]
  \cup [ev : {"PolicyUpdated"}, k : Logs, on : BOOLEAN]
  \cup [ev : {"PolicyRejected", "Cleared", "ClearRejected", "PersistenceFailed"}, k : Logs]
  \cup [ev : {"LogRestored"}, k : Logs, failed : BOOLEAN, count : Nat, on : BOOLEAN]
  \cup [ev : {"HistoryUpdated"}, count : Nat]
  \cup [ev : {"Listed"}, k : Kinds, items : SUBSET Entries]
  \cup [ev : {"Deleted"}, k : Libraries, item : Entries] \cup [ev : {"Saved", "Exported"}, k : Libraries]
  \cup [ev : {"DocumentRejected"}, of : Orders]

Databases == [ok : BOOLEAN, on : [Logs -> BOOLEAN], items : [Kinds -> SUBSET Entries]]

Desks ==
  [ready : BOOLEAN, ok : BOOLEAN, busy : BOOLEAN, incognito : BOOLEAN, chosen : Entries \cup {"none"},
   on : [Logs -> BOOLEAN], switch : [Logs -> BOOLEAN], count : [Logs -> Nat], policy : [Logs -> BOOLEAN],
   clear : [Logs -> BOOLEAN], warn : [Logs -> BOOLEAN], unread : SUBSET Logs, misanswered : BOOLEAN]

LdTypes ==
  /\ kept \in Databases /\ desk \in Desks
  /\ cmds \in Seq(LdCommands) /\ evs \in Seq(LdEvents)
  /\ doing = "text" => asked \in Requests

\* Commands and events by what they are about.
Policies(k) == {c \in LdCommands : c.do = "policy" /\ c.k = k}
Clears(k) == {c \in LdCommands : c.do = "clear" /\ c.k = k}
Without(k) == {c \in LdCommands : c.do = "translate" /\ k \notin c.logged}

Updates(k) == {e \in LdEvents : e.ev = "PolicyUpdated" /\ e.k = k}
Answers(k) == {e \in LdEvents : e.ev \in {"PolicyUpdated", "PolicyRejected"} /\ e.k = k}
ClearAnswers(k) == {e \in LdEvents : e.ev \in {"Cleared", "ClearRejected"} /\ e.k = k}
Misanswers(do) == {e \in LdEvents : e.ev = "DocumentRejected" /\ e.of = do}
Reads(k) == {e \in LdEvents : e.ev = "LogRestored" /\ e.k = k}
Losses == {e \in LdEvents : e.ev = "Unavailable"}
Restores == {e \in LdEvents : e.ev = "Restored"}

\* Events after which the count of a log, or its warning, is another.
Counts(k) ==
  {e \in LdEvents : \/ e.ev \in {"LogRestored", "Cleared", "Listed", "PersistenceFailed"} /\ e.k = k
                    \/ e.ev = "HistoryUpdated" /\ k = "history"}

---------------------------------------------------------------------------
\* The window hears of every loss of the database.
StorageOK ==
  /\ Held(evs) \cap Losses # {} => ~kept.ok
  /\ ~kept.ok => Held(evs) \cap Losses # {} \/ (~desk.ok /\ Held(evs) \cap Restores = {})
  /\ Before(evs, Restores, Losses)

\* A switch has one change under way at most, and shows that it has.
FlightOK(k) ==
  /\ ~desk.policy[k] => Held(cmds) \cap Policies(k) = {} /\ Held(evs) \cap Answers(k) = {}
  /\ AtMostOne(cmds, Policies(k)) /\ AtMostOne(evs, Answers(k))
  /\ Held(cmds) \cap Policies(k) = {} \/ Held(evs) \cap Answers(k) = {}

\* The switch of the window is that of the database, or the report that makes it so is on
\* its way: first what was read at the start, then what the user changed.
SwitchOK(k) ==
  /\ ~desk.policy[k] => desk.switch[k] = desk.on[k]
  /\ Held(evs) \cap Reads(k) # {} => desk.on[k]
  /\ \A e \in Held(evs) \cap Updates(k) : kept.on[k] = e.on
  /\ Held(evs) \cap Updates(k) = {} =>
       /\ \A e \in Held(evs) \cap Reads(k) : IF e.failed THEN e.on ELSE e.on = kept.on[k]
       /\ Held(evs) \cap Reads(k) = {} => desk.on[k] = kept.on[k] \/ (k \in desk.unread /\ desk.on[k])
  /\ Before(evs, Reads(k), Updates(k)) /\ AtMostOne(evs, Reads(k))

\* A text that was sent with the log off is taken before the log is switched on.
TextOK(k) ==
  /\ Before(cmds, Without(k), Policies(k))
  /\ Held(cmds) \cap Without(k) # {} => ~kept.on[k]
  /\ doing = "text" /\ k \notin asked.logged => ~kept.on[k]

\* The history count is exact, the memory count a lower bound.
Good(k, n) == IF k = "history" THEN n = Count(k) ELSE n <= Count(k)

Right(k, e) ==
  /\ e.ev = "LogRestored" => e.failed \/ Good(k, e.count)
  /\ e.ev = "Cleared" => Good(k, 0)
  /\ e.ev = "Listed" => Good(k, Cardinality(e.items))
  /\ e.ev = "HistoryUpdated" => Good(k, e.count)

\* The last report about a log is right, and so is the window when there is none.
CountOK(k) ==
  /\ \A e \in Held(evs) : LastOf(evs, Counts(k), e) => Right(k, e)
  /\ Held(evs) \cap Counts(k) = {} => desk.warn[k] \/ Good(k, desk.count[k])

\* A control that waits has its command or its answer under way.
FreedOK(k) ==
  /\ desk.policy[k] => \/ Held(cmds) \cap Policies(k) # {} \/ Held(evs) \cap Answers(k) # {}
                       \/ Held(evs) \cap Misanswers("policy") # {} \/ desk.misanswered
  /\ desk.clear[k] => \/ Held(cmds) \cap Clears(k) # {} \/ Held(evs) \cap ClearAnswers(k) # {}
                      \/ Held(evs) \cap Misanswers("clear") # {} \/ desk.misanswered

LdInv ==
  /\ LdTypes /\ StorageOK
  /\ \A k \in Logs :
       /\ FreedOK(k)
       /\ kept.ok => FlightOK(k) /\ SwitchOK(k) /\ TextOK(k) /\ CountOK(k)

---------------------------------------------------------------------------
\* r is s followed by events of E.
Followed(s, r, E) ==
  /\ r \in Seq(LdEvents) /\ Held(s) \subseteq Held(r) /\ Held(r) \subseteq Held(s) \cup E
  /\ \A A, B : A \cap E = {} /\ Before(s, A, B) => Before(r, A, B)
  /\ \A A : A \cap E = {} /\ AtMostOne(s, A) => AtMostOne(r, A)
  /\ \A A, e : LastOf(r, A, e) => e \in E \/ LastOf(s, A, e)

\* Nothing is reported.
LEMMA FollowedBySame ==
  ASSUME NEW s \in Seq(LdEvents), NEW E
  PROVE  Followed(s, s, E)
BY DEF Followed

\* One event is reported.
LEMMA FollowedByOne ==
  ASSUME NEW s \in Seq(LdEvents), NEW E, NEW e \in LdEvents, e \in E
  PROVE  Followed(s, Append(s, e), E)
<1>1. PICK r : r = Append(s, e)
  OBVIOUS
<1>2. r \in Seq(LdEvents) /\ Held(r) = Held(s) \cup {e}
  BY <1>1, HeldAppended
<1>3. ASSUME NEW A, NEW B, A \cap E = {}, Before(s, A, B)
      PROVE  Before(r, A, B)
  BY <1>1, <1>3, BeforeAppended
<1>4. ASSUME NEW A, A \cap E = {}, AtMostOne(s, A)
      PROVE  AtMostOne(r, A)
  BY <1>1, <1>4, AtMostOneAppended
<1>5. ASSUME NEW A, NEW x, LastOf(r, A, x)
      PROVE  x \in E \/ LastOf(s, A, x)
  BY <1>1, <1>5, LastOfAppended
<1>6. Held(s) \subseteq Held(r) /\ Held(r) \subseteq Held(s) \cup E
  BY <1>2
<1>7. Followed(s, r, E)
  BY <1>2, <1>3, <1>4, <1>5, <1>6 DEF Followed
<1> QED
  BY <1>1, <1>7

\* Reports after reports.
LEMMA FollowedTwice ==
  ASSUME NEW s, NEW r, NEW q, NEW E, Followed(s, r, E), Followed(r, q, E)
  PROVE  Followed(s, q, E)
<1>1. q \in Seq(LdEvents) /\ Held(s) \subseteq Held(q) /\ Held(q) \subseteq Held(s) \cup E
  BY DEF Followed
<1>2. \A A, B : A \cap E = {} /\ Before(s, A, B) => Before(q, A, B)
  BY DEF Followed
<1>3. \A A : A \cap E = {} /\ AtMostOne(s, A) => AtMostOne(q, A)
  BY DEF Followed
<1>4. \A A, x : LastOf(q, A, x) => x \in E \/ LastOf(s, A, x)
  BY DEF Followed
<1> QED
  BY <1>1, <1>2, <1>3, <1>4 DEF Followed

\* An event is reported or not.
LEMMA ToldFollows ==
  ASSUME NEW s \in Seq(LdEvents), NEW E, NEW e \in LdEvents, e \in E, NEW b
  PROVE  Followed(s, Told(s, b, e), E) /\ Told(s, b, e) \in Seq(LdEvents)
<1>1. Followed(s, Told(s, b, e), E)
  BY FollowedBySame, FollowedByOne DEF Told
<1> QED
  BY <1>1 DEF Followed

\* What a member of LdEvents is.
LEMMA EventFacts ==
  ASSUME NEW e \in LdEvents
  PROVE  /\ e.ev = "LogRestored" => e.k \in Logs /\ e.failed \in BOOLEAN /\ e.count \in Nat /\ e.on \in BOOLEAN
         /\ e.ev = "PolicyUpdated" => e.k \in Logs /\ e.on \in BOOLEAN
         /\ e.ev \in {"PolicyRejected", "Cleared", "ClearRejected", "PersistenceFailed"} => e.k \in Logs
         /\ e.ev = "HistoryUpdated" => e.count \in Nat
         /\ e.ev = "Listed" => e.k \in Kinds /\ e.items \subseteq Entries
         /\ e.ev = "Deleted" => e.k \in Libraries /\ e.item \in Entries
         /\ e.ev = "DocumentRejected" => e.of \in Orders
BY DEF LdEvents

\* What a member of LdCommands is.
LEMMA CommandFacts ==
  ASSUME NEW c \in LdCommands
  PROVE  /\ c.do = "policy" => c.k \in Logs /\ c.on \in BOOLEAN
         /\ c.do = "clear" => c.k \in Logs
         /\ c.do \in {"list", "delete"} => c.k \in Kinds
         /\ c.do = "save" => c.k \in Libraries
         /\ c.do \in {"import", "export"} => c.k = "routing"
         /\ c.do \in {"delete", "save", "import", "export"} => c.item \in Entries
         /\ c.do = "translate" => c \in Requests
         /\ c.do \in Orders
<1>1. \A r \in Requests : r.do = "translate"
  BY DEF Requests
<1>2. c.do = "translate" => c \in Requests
  BY DEF LdCommands
<1>3. CASE c \in Requests
  BY <1>1, <1>3 DEF Orders
<1>4. CASE c \notin Requests
  BY <1>2, <1>4 DEF LdCommands, Orders
<1> QED
  BY <1>3, <1>4

\* The literals of the model are events.
LEMMA LiteralEvents ==
  /\ \A t \in {"Ready", "Restored", "Unavailable", "ActionRejected", "Rejected", "DocumentRunning",
               "DocumentEnded", "TextEnded"} : [ev |-> t] \in LdEvents
  /\ \A x \in Logs, b \in BOOLEAN : [ev |-> "PolicyUpdated", k |-> x, on |-> b] \in LdEvents
  /\ \A t \in {"PolicyRejected", "Cleared", "ClearRejected", "PersistenceFailed"}, x \in Logs :
       [ev |-> t, k |-> x] \in LdEvents
  /\ \A n \in Nat : [ev |-> "HistoryUpdated", count |-> n] \in LdEvents
  /\ \A x \in Kinds, s \in SUBSET Entries : [ev |-> "Listed", k |-> x, items |-> s] \in LdEvents
  /\ \A x \in Libraries, i \in Entries : [ev |-> "Deleted", k |-> x, item |-> i] \in LdEvents
  /\ \A t \in {"Saved", "Exported"}, x \in Libraries : [ev |-> t, k |-> x] \in LdEvents
  /\ \A t \in Orders : [ev |-> "DocumentRejected", of |-> t] \in LdEvents
BY DEF LdEvents

---------------------------------------------------------------------------
(* What the worker does: it takes a command or not, and reports events E.  *)

\* The first command has been taken, or none.
Took == cmds' = cmds \/ (cmds # <<>> /\ cmds' = Tail(cmds))

\* Taking a command leaves less to do, in the same order.
LEMMA TookLess ==
  ASSUME LdTypes, Took
  PROVE  /\ cmds' \in Seq(LdCommands) /\ Held(cmds') \subseteq Held(cmds)
         /\ cmds' # cmds => Head(cmds) \in LdCommands /\ Held(cmds) = Held(cmds') \cup {Head(cmds)}
         /\ \A A, B : Before(cmds, A, B) => Before(cmds', A, B)
         /\ \A A : AtMostOne(cmds, A) => AtMostOne(cmds', A)
<1>1. CASE cmds' = cmds
  BY <1>1 DEF LdTypes
<1>2. CASE cmds # <<>> /\ cmds' = Tail(cmds)
  <2>1. cmds \in Seq(LdCommands)
    BY DEF LdTypes
  <2>2. /\ cmds' \in Seq(LdCommands) /\ Head(cmds) \in LdCommands
        /\ Held(cmds) = Held(cmds') \cup {Head(cmds)}
    BY <1>2, <2>1, HeldTaken
  <2>3. ASSUME NEW A, NEW B, Before(cmds, A, B)
        PROVE  Before(cmds', A, B)
    BY <1>2, <2>1, <2>3, BeforeTaken
  <2>4. ASSUME NEW A, AtMostOne(cmds, A)
        PROVE  AtMostOne(cmds', A)
    BY <1>2, <2>1, <2>4, AtMostOneTaken
  <2> QED
    BY <2>2, <2>3, <2>4
<1> QED
  BY <1>1, <1>2 DEF Took

\* StorageOK survives reports that are not about the database.
LEMMA StorageReports ==
  ASSUME StorageOK, desk'.ok = desk.ok, kept'.ok = kept.ok,
         NEW E, Followed(evs, evs', E), E \cap Losses = {}, E \cap Restores = {}
  PROVE  StorageOK'
<1>1. /\ Held(evs') \cap Losses = Held(evs) \cap Losses
      /\ Held(evs') \cap Restores = Held(evs) \cap Restores
  BY DEF Followed
<1>2. Before(evs', Restores, Losses)
  BY DEF Followed, StorageOK
<1> QED
  BY <1>1, <1>2 DEF StorageOK

\* FlightOK survives: an answer comes with the taking of its command.
LEMMA FlightReports ==
  ASSUME LdTypes, NEW k, FlightOK(k), desk'.policy = desk.policy, Took,
         NEW E, Followed(evs, evs', E),
         \/ E \cap Answers(k) = {}
         \/ /\ cmds # <<>> /\ cmds' = Tail(cmds) /\ Head(cmds) \in Policies(k)
            /\ \E e \in LdEvents : evs' = Append(evs, e)
  PROVE  FlightOK(k)'
<1>1. Held(cmds') \subseteq Held(cmds) /\ AtMostOne(cmds', Policies(k))
  BY TookLess DEF FlightOK
<1>2. CASE E \cap Answers(k) = {}
  <2>1. Held(evs') \cap Answers(k) = Held(evs) \cap Answers(k) /\ AtMostOne(evs', Answers(k))
    BY <1>2 DEF Followed, FlightOK
  <2> QED
    BY <1>1, <2>1 DEF FlightOK
<1>3. CASE /\ cmds # <<>> /\ cmds' = Tail(cmds) /\ Head(cmds) \in Policies(k)
           /\ \E e \in LdEvents : evs' = Append(evs, e)
  <2>1. cmds \in Seq(LdCommands) /\ evs \in Seq(LdEvents)
    BY DEF LdTypes
  <2>2. Held(cmds) \cap Policies(k) # {}
    BY <1>3, <2>1, HeldTaken
  <2>3. desk.policy[k] /\ Held(evs) \cap Answers(k) = {}
    BY <2>2 DEF FlightOK
  <2>4. Held(cmds') \cap Policies(k) = {}
    BY <1>3, <2>1, AtMostOneTaken DEF FlightOK
  <2>5. AtMostOne(evs', Answers(k))
    BY <1>3, <2>1, <2>3, AtMostOneAppended DEF FlightOK
  <2> QED
    BY <1>1, <2>3, <2>4, <2>5 DEF FlightOK
<1> QED
  BY <1>2, <1>3

\* SwitchOK survives: a change is stored and reported in one step.
LEMMA SwitchReports ==
  ASSUME LdTypes, NEW k, SwitchOK(k), UNCHANGED <<desk.policy, desk.switch, desk.on, desk.unread>>,
         NEW E, Followed(evs, evs', E), E \cap Reads(k) = {},
         \/ E \cap Updates(k) = {} /\ kept'.on[k] = kept.on[k]
         \/ /\ Held(evs) \cap Updates(k) = {}
            /\ \E e \in Updates(k) : evs' = Append(evs, e) /\ kept'.on[k] = e.on
  PROVE  SwitchOK(k)'
<1>1. /\ Held(evs') \cap Reads(k) = Held(evs) \cap Reads(k)
      /\ AtMostOne(evs', Reads(k)) /\ Before(evs', Reads(k), Updates(k))
  BY DEF Followed, SwitchOK
<1>2. CASE E \cap Updates(k) = {} /\ kept'.on[k] = kept.on[k]
  <2>1. Held(evs') \cap Updates(k) = Held(evs) \cap Updates(k)
    BY <1>2 DEF Followed
  <2> QED
    BY <1>1, <1>2, <2>1 DEF SwitchOK
<1>3. CASE /\ Held(evs) \cap Updates(k) = {}
           /\ \E e \in Updates(k) : evs' = Append(evs, e) /\ kept'.on[k] = e.on
  <2>1. PICK e \in Updates(k) : evs' = Append(evs, e) /\ kept'.on[k] = e.on
    BY <1>3
  <2>2. Held(evs') = Held(evs) \cup {e}
    BY <2>1, HeldAppended DEF LdTypes, Updates
  <2>3. Held(evs') \cap Updates(k) = {e}
    BY <1>3, <2>2
  <2> QED
    BY <1>1, <2>1, <2>3 DEF SwitchOK
<1> QED
  BY <1>2, <1>3

\* TextOK survives: a switch changes only after every text sent before it was taken.
LEMMA TextReports ==
  ASSUME LdTypes, NEW k, TextOK(k), Took,
         \/ /\ kept'.on[k] = kept.on[k]
            /\ doing' = "text" => \/ doing = "text" /\ asked' = asked
                                  \/ cmds # <<>> /\ Head(cmds) \in Requests /\ asked' = Head(cmds)
         \/ cmds # <<>> /\ cmds' = Tail(cmds) /\ Head(cmds) \in Policies(k) /\ doing' # "text"
  PROVE  TextOK(k)'
<1>1. Held(cmds') \subseteq Held(cmds) /\ Before(cmds', Without(k), Policies(k))
  BY TookLess DEF TextOK
<1>2. CASE /\ kept'.on[k] = kept.on[k]
           /\ doing' = "text" => \/ doing = "text" /\ asked' = asked
                                 \/ cmds # <<>> /\ Head(cmds) \in Requests /\ asked' = Head(cmds)
  <2>1. ASSUME cmds # <<>>, Head(cmds) \in Requests, k \notin Head(cmds).logged
        PROVE  ~kept.on[k]
    <3>1. Head(cmds) \in Held(cmds)
      BY <2>1, HeldTaken DEF LdTypes
    <3>2. Head(cmds).do = "translate"
      BY <2>1 DEF Requests
    <3>3. Head(cmds) \in LdCommands
      BY <2>1, HeldTaken DEF LdTypes
    <3>4. Head(cmds) \in Without(k)
      BY <2>1, <3>2, <3>3 DEF Without
    <3> QED
      BY <3>1, <3>4 DEF TextOK
  <2> QED
    BY <1>1, <1>2, <2>1 DEF TextOK
<1>3. CASE cmds # <<>> /\ cmds' = Tail(cmds) /\ Head(cmds) \in Policies(k) /\ doing' # "text"
  <2>1. Held(cmds) \cap Without(k) = {}
    BY <1>3, BeforeTaken DEF LdTypes, TextOK
  <2> QED
    BY <1>1, <1>3, <2>1 DEF TextOK
<1> QED
  BY <1>2, <1>3

\* A log is finite.
LEMMA CountsAreNumbers ==
  ASSUME NEW s, s \subseteq Entries
  PROVE  IsFiniteSet(s) /\ Cardinality(s) \in Nat
BY LocalAssumption, FS_Subset, FS_CardinalityType

\* The numbers an event carries are counts.
LEMMA EventNumbers ==
  ASSUME NEW e \in LdEvents
  PROVE  /\ e.ev \in {"LogRestored", "HistoryUpdated"} => e.count \in Nat
         /\ e.ev = "Listed" => Cardinality(e.items) \in Nat
<1>1. e.ev \in {"LogRestored", "HistoryUpdated"} => e.count \in Nat
  BY DEF LdEvents
<1>2. e.ev = "Listed" => e.items \in SUBSET Entries
  BY DEF LdEvents
<1> QED
  BY <1>1, <1>2, CountsAreNumbers

\* CountOK survives: the last report is right, or every right count stays right.
LEMMA CountReports ==
  ASSUME LdTypes, NEW k \in Logs, CountOK(k), UNCHANGED <<desk.warn, desk.count>>,
         NEW E, Followed(evs, evs', E), \A e \in E \cap Counts(k) : Right(k, e)',
         \/ \A n \in Nat : Good(k, n) => Good(k, n)'
         \/ (Held(evs') \cap Counts(k) # {} /\ \A e : LastOf(evs', Counts(k), e) => e \in E)
  PROVE  CountOK(k)'
<1>1. ASSUME NEW e \in Held(evs'), LastOf(evs', Counts(k), e)
      PROVE  Right(k, e)'
  <2>1. e \in Counts(k)
    BY <1>1 DEF LastOf
  <2>2. CASE e \in E
    BY <2>1, <2>2
  <2>3. CASE e \notin E
    <3>1. LastOf(evs, Counts(k), e) /\ \A n \in Nat : Good(k, n) => Good(k, n)'
      BY <1>1, <2>3 DEF Followed
    <3>2. e \in Held(evs)
      BY <1>1, <2>3 DEF Followed
    <3>3. Right(k, e)
      BY <3>1, <3>2 DEF CountOK
    <3>4. e \in LdEvents
      BY <3>2 DEF LdTypes, Held
    <3>5. /\ e.ev \in {"LogRestored", "HistoryUpdated"} => e.count \in Nat
          /\ e.ev = "Listed" => Cardinality(e.items) \in Nat
      BY <3>4, EventNumbers
    <3>6. CASE e.ev = "Listed"
      <4>1. PICK n \in Nat : n = Cardinality(e.items)
        BY <3>5, <3>6
      <4> QED
        BY <3>1, <3>3, <3>6, <4>1 DEF Right
    <3>7. CASE e.ev # "Listed"
      <4>1. e.ev \in {"LogRestored", "HistoryUpdated"} /\ Good(k, e.count) => Good(k, e.count)'
        <5>1. ASSUME e.ev \in {"LogRestored", "HistoryUpdated"}, Good(k, e.count)
              PROVE  Good(k, e.count)'
          <6>1. PICK n \in Nat : n = e.count
            BY <3>5, <5>1
          <6> QED
            BY <3>1, <5>1, <6>1
        <5> QED
          BY <5>1
      <4>2. Good(k, 0) => Good(k, 0)'
        BY <3>1
      <4> QED
        BY <3>3, <3>7, <4>1, <4>2 DEF Right
    <3> QED
      BY <3>6, <3>7
  <2> QED
    BY <2>2, <2>3
<1>2. ASSUME Held(evs') \cap Counts(k) = {}
      PROVE  desk'.warn[k] \/ Good(k, desk.count[k])'
  <2>1. Held(evs) \cap Counts(k) = {}
    BY <1>2 DEF Followed
  <2>2. desk.warn[k] \/ Good(k, desk.count[k])
    BY <2>1 DEF CountOK
  <2>3. PICK n \in Nat : n = desk.count[k]
    BY DEF LdTypes, Desks
  <2>4. n = desk'.count[k]
    BY <2>3
  <2>5. desk.warn[k] \/ Good(k, n)'
    BY <1>2, <2>2, <2>3
  <2> QED
    BY <2>4, <2>5 DEF Good
<1> QED
  BY <1>1, <1>2 DEF CountOK

\* FreedOK survives: a command that is taken is answered.
LEMMA FreedReports ==
  ASSUME LdTypes, NEW k, FreedOK(k), UNCHANGED <<desk.policy, desk.clear, desk.misanswered>>, Took,
         NEW E, Followed(evs, evs', E),
         cmds' # cmds /\ Head(cmds) \in Policies(k) =>
           Held(evs') \cap (Answers(k) \cup Misanswers("policy")) # {},
         cmds' # cmds /\ Head(cmds) \in Clears(k) =>
           Held(evs') \cap (ClearAnswers(k) \cup Misanswers("clear")) # {}
  PROVE  FreedOK(k)'
<1>1. Held(evs) \subseteq Held(evs')
  BY DEF Followed
<1>2. cmds' # cmds => Held(cmds) = Held(cmds') \cup {Head(cmds)}
  BY TookLess
<1>3. Held(cmds) \cap Policies(k) # {} =>
        Held(cmds') \cap Policies(k) # {} \/ Held(evs') \cap (Answers(k) \cup Misanswers("policy")) # {}
  BY <1>2
<1>4. Held(cmds) \cap Clears(k) # {} =>
        Held(cmds') \cap Clears(k) # {} \/ Held(evs') \cap (ClearAnswers(k) \cup Misanswers("clear")) # {}
  BY <1>2
<1> QED
  BY <1>1, <1>3, <1>4 DEF FreedOK

\* The part of the invariant that is about one log.
LogOK(k) == FreedOK(k) /\ (kept.ok => FlightOK(k) /\ SwitchOK(k) /\ TextOK(k) /\ CountOK(k))

\* One command, one answer.
LEMMA AnswerKeeps ==
  ASSUME LdInv, cmds # <<>>, NEW e \in LdEvents, NEW st \in Databases, Answered(e, st), st.ok = kept.ok,
         e \notin Losses, e \notin Restores,
         \A k \in Logs :
           /\ e \notin Reads(k)
           /\ e \in Answers(k) => Head(cmds) \in Policies(k)
           /\ Head(cmds) \in Policies(k) => e \in Answers(k) \cup Misanswers("policy")
           /\ Head(cmds) \in Clears(k) => e \in ClearAnswers(k) \cup Misanswers("clear")
           /\ IF e \in Updates(k) THEN st.on[k] = e.on /\ doing # "text" ELSE st.on[k] = kept.on[k]
           /\ IF e \in Counts(k) THEN Right(k, e)' ELSE st.items[k] = kept.items[k]
  PROVE  LdInv'
<1>1. /\ cmds' = Tail(cmds) /\ evs' = Append(evs, e) /\ kept' = st
      /\ UNCHANGED <<doing, asked, desk, dialogs, clicks>>
  BY DEF Answered
<1>2. LdTypes /\ Took /\ cmds \in Seq(LdCommands) /\ evs \in Seq(LdEvents)
  BY <1>1 DEF LdInv, LdTypes, Took
<1>3. /\ Followed(evs, evs', {e}) /\ evs' \in Seq(LdEvents) /\ Held(evs') = Held(evs) \cup {e}
  BY <1>1, <1>2, FollowedByOne, HeldAppended
<1>4. LdTypes'
  BY <1>1, <1>2, <1>3, TookLess DEF LdTypes
<1>5. StorageOK'
  BY <1>1, <1>3, StorageReports DEF LdInv
<1>6. ASSUME NEW k \in Logs
      PROVE  LogOK(k)'
  <2>1. FreedOK(k)'
    <3>1. FreedOK(k)
      BY DEF LdInv
    <3>2. e \in Held(evs')
      BY <1>3
    <3> QED
      BY <1>1, <1>2, <1>3, <3>1, <3>2, FreedReports
  <2>2. SUFFICES ASSUME kept'.ok
                 PROVE  (FlightOK(k) /\ SwitchOK(k) /\ TextOK(k) /\ CountOK(k))'
    BY <2>1 DEF LogOK
  <2>3. FlightOK(k) /\ SwitchOK(k) /\ TextOK(k) /\ CountOK(k)
    BY <1>1, <2>2 DEF LdInv
  <2>4. Updates(k) \subseteq Answers(k)
    BY DEF Updates, Answers
  <2>5. FlightOK(k)'
    BY <1>1, <1>2, <1>3, <2>3, FlightReports
  <2>6. SwitchOK(k)'
    <3>1. CASE e \in Updates(k)
      <4>1. Held(cmds) \cap Policies(k) # {}
        BY <1>2, <2>4, <3>1, HeldTaken
      <4>2. Held(evs) \cap Updates(k) = {}
        BY <2>3, <2>4, <4>1 DEF FlightOK
      <4> QED
        BY <1>1, <1>2, <1>3, <2>3, <3>1, <4>2, SwitchReports
    <3>2. CASE e \notin Updates(k)
      BY <1>1, <1>2, <1>3, <2>3, <3>2, SwitchReports
    <3> QED
      BY <3>1, <3>2
  <2>7. TextOK(k)'
    <3>1. CASE e \in Updates(k)
      BY <1>1, <1>2, <2>3, <2>4, <3>1, TextReports
    <3>2. CASE e \notin Updates(k)
      BY <1>1, <1>2, <2>3, <3>2, TextReports
    <3> QED
      BY <3>1, <3>2
  <2>8. CountOK(k)'
    <3>1. CASE e \in Counts(k)
      <4>1. Held(evs') \cap Counts(k) # {}
        BY <1>3, <3>1
      <4>2. ASSUME NEW x, LastOf(evs', Counts(k), x)
            PROVE  x \in {e}
        BY <1>1, <1>2, <3>1, <4>2, LastOfAppended
      <4>3. \A x \in {e} \cap Counts(k) : Right(k, x)'
        BY <3>1
      <4> QED
        BY <1>1, <1>3, <2>3, <4>1, <4>2, <4>3, CountReports DEF LdInv
    <3>2. CASE e \notin Counts(k)
      <4>1. \A n \in Nat : Good(k, n) => Good(k, n)'
        BY <1>1, <3>2 DEF Good, Count
      <4> QED
        BY <1>1, <1>3, <2>3, <3>2, <4>1, CountReports DEF LdInv
    <3> QED
      BY <3>1, <3>2
  <2> QED
    BY <2>5, <2>6, <2>7, <2>8
<1> QED
  BY <1>4, <1>5, <1>6 DEF LdInv, LogOK

\* The first command is a command.
LEMMA HeadIsCommand ==
  ASSUME LdTypes, cmds # <<>>
  PROVE  Head(cmds) \in LdCommands
BY HeldTaken DEF LdTypes

\* Which reports a class of events has.
LEMMA Classes ==
  ASSUME NEW e \in LdEvents, NEW k
  PROVE  /\ e \in Losses <=> e.ev = "Unavailable"
         /\ e \in Restores <=> e.ev = "Restored"
         /\ e \in Reads(k) <=> e.ev = "LogRestored" /\ e.k = k
         /\ e \in Updates(k) <=> e.ev = "PolicyUpdated" /\ e.k = k
         /\ e \in Answers(k) <=> e.ev \in {"PolicyUpdated", "PolicyRejected"} /\ e.k = k
         /\ e \in ClearAnswers(k) <=> e.ev \in {"Cleared", "ClearRejected"} /\ e.k = k
         /\ \A o : e \in Misanswers(o) <=> e.ev = "DocumentRejected" /\ e.of = o
         /\ e \in Counts(k) <=> \/ e.ev \in {"LogRestored", "Cleared", "Listed", "PersistenceFailed"} /\ e.k = k
                                \/ e.ev = "HistoryUpdated" /\ k = "history"
BY DEF Losses, Restores, Reads, Updates, Answers, ClearAnswers, Misanswers, Counts

\* Which class a command is of.
LEMMA CommandClasses ==
  ASSUME NEW c \in LdCommands, NEW k
  PROVE  /\ c \in Policies(k) <=> c.do = "policy" /\ c.k = k
         /\ c \in Clears(k) <=> c.do = "clear" /\ c.k = k
         /\ c \in Without(k) <=> c.do = "translate" /\ k \notin c.logged
BY DEF Policies, Clears, Without

\* A switch is stored and reported.
LEMMA SetKeeps ==
  ASSUME LdInv, NEW k \in Logs, SetEnabled(k)
  PROVE  LdInv'
<1> DEFINE c == Head(cmds)
<1>1. /\ cmds # <<>> /\ c.do = "policy" /\ c.k = k /\ doing = "idle"
      /\ Answered([ev |-> "PolicyUpdated", k |-> k, on |-> c.on], [kept EXCEPT !.on[k] = c.on])
  BY DEF SetEnabled, Done
<1>2. c \in LdCommands /\ c.on \in BOOLEAN
  BY <1>1, HeadIsCommand, CommandFacts DEF LdInv
<1>3. PICK e : e = [ev |-> "PolicyUpdated", k |-> k, on |-> c.on]
  OBVIOUS
<1>4. e \in LdEvents /\ e.ev = "PolicyUpdated" /\ e.k = k /\ e.on = c.on
  BY <1>2, <1>3, LiteralEvents
<1>5. PICK st : st = [kept EXCEPT !.on[k] = c.on]
  OBVIOUS
<1>6. /\ st \in Databases /\ st.ok = kept.ok /\ st.items = kept.items
      /\ st.on[k] = c.on /\ \A j \in Logs \ {k} : st.on[j] = kept.on[j]
  BY <1>2, <1>5 DEF LdInv, LdTypes, Databases
<1>7. Answered(e, st)
  BY <1>1, <1>3, <1>5
<1> HIDE DEF c
<1>8. ASSUME NEW j \in Logs
      PROVE  /\ e \notin Reads(j)
             /\ e \in Answers(j) => c \in Policies(j)
             /\ c \in Policies(j) => e \in Answers(j) \cup Misanswers("policy")
             /\ c \in Clears(j) => e \in ClearAnswers(j) \cup Misanswers("clear")
             /\ IF e \in Updates(j) THEN st.on[j] = e.on /\ doing # "text" ELSE st.on[j] = kept.on[j]
             /\ IF e \in Counts(j) THEN Right(j, e)' ELSE st.items[j] = kept.items[j]
  BY <1>1, <1>2, <1>4, <1>6, Classes, CommandClasses
<1>9. e \notin Losses /\ e \notin Restores
  BY <1>4, Classes
<1> QED
  BY <1>1, <1>4, <1>6, <1>7, <1>8, <1>9, AnswerKeeps DEF c

\* A record of a library changes: nothing about a log does.
LEMMA LibraryKeeps ==
  ASSUME LdInv, cmds # <<>>, Head(cmds).do \notin {"policy", "clear"}, NEW e \in LdEvents,
         e.ev \in {"Saved", "Deleted", "Exported", "ActionRejected", "DocumentRejected"}
           \/ (e.ev = "Listed" /\ e.k \in Libraries),
         NEW st \in Databases, Answered(e, st), st.ok = kept.ok, st.on = kept.on,
         \A k \in Logs : st.items[k] = kept.items[k]
  PROVE  LdInv'
<1>1. Head(cmds) \in LdCommands
  BY HeadIsCommand DEF LdInv
<1>2. ASSUME NEW j \in Logs
      PROVE  /\ e \notin Reads(j) /\ e \notin Answers(j) /\ e \notin Updates(j) /\ e \notin Counts(j)
             /\ Head(cmds) \notin Policies(j) /\ Head(cmds) \notin Clears(j)
  BY <1>1, Classes, CommandClasses DEF Logs, Libraries
<1>3. e \notin Losses /\ e \notin Restores
  BY Classes
<1> QED
  BY <1>2, <1>3, AnswerKeeps

\* A command about a log that leaves the switches alone: e is right about what is left.
LEMMA LogKeeps ==
  ASSUME LdInv, cmds # <<>>, NEW k \in Logs, NEW e \in LdEvents, NEW s \in SUBSET Entries,
         Answered(e, [kept EXCEPT !.items[k] = s]),
         \/ e.ev = "Cleared" /\ e.k = k /\ s = {} /\ Head(cmds).do = "clear" /\ Head(cmds).k = k
         \/ e.ev = "Listed" /\ e.k = k /\ e.items = s /\ Head(cmds).do \notin {"policy", "clear"}
  PROVE  LdInv'
<1>1. Head(cmds) \in LdCommands
  BY HeadIsCommand DEF LdInv
<1>2. PICK st : st = [kept EXCEPT !.items[k] = s]
  OBVIOUS
<1>3. /\ st \in Databases /\ st.ok = kept.ok /\ st.on = kept.on /\ st.items[k] = s
      /\ \A j \in Logs \ {k} : st.items[j] = kept.items[j]
  BY <1>2 DEF LdInv, LdTypes, Databases, Kinds
<1>4. kept' = st /\ Answered(e, st)
  BY <1>2 DEF Answered
<1>5. Right(k, e)'
  <2>1. Cardinality(s) \in Nat /\ Cardinality({}) = 0
    BY CountsAreNumbers, FS_EmptySet
  <2>2. Count(k)' = Cardinality(s)
    BY <1>3, <1>4 DEF Count
  <2>3. PICK n \in Nat : n = Cardinality(s)
    BY <2>1
  <2>4. Good(k, n)'
    BY <2>2, <2>3 DEF Good
  <2>5. CASE e.ev = "Cleared" /\ s = {}
    <3>1. n = 0
      BY <2>1, <2>3, <2>5
    <3>2. Good(k, 0)'
      BY <2>4, <3>1
    <3> QED
      BY <2>5, <3>2 DEF Right
  <2>6. CASE e.ev = "Listed" /\ e.items = s
    <3>1. Good(k, Cardinality(e.items))'
      BY <2>3, <2>4, <2>6
    <3> QED
      BY <2>6, <3>1 DEF Right
  <2> QED
    BY <2>5, <2>6
<1>6. ASSUME NEW j \in Logs
      PROVE  /\ e \notin Reads(j) /\ e \notin Answers(j) /\ e \notin Updates(j)
             /\ Head(cmds) \notin Policies(j)
             /\ Head(cmds) \in Clears(j) => e \in ClearAnswers(j)
             /\ IF e \in Counts(j) THEN Right(j, e)' ELSE st.items[j] = kept.items[j]
  BY <1>1, <1>3, <1>5, Classes, CommandClasses
<1>7. e \notin Losses /\ e \notin Restores
  BY Classes
<1> QED
  BY <1>3, <1>4, <1>6, <1>7, AnswerKeeps

\* A refusal: of the loop that is idle or busy with a text, or of the document loop.
LEMMA RefusalKeeps ==
  ASSUME LdInv, RejectedWhenIdle \/ RejectedByText \/ RejectedByDocuments
  PROVE  LdInv'
<1> DEFINE c == Head(cmds)
<1>1. cmds # <<>>
  BY DEF RejectedWhenIdle, RejectedByText, RejectedByDocuments, LocalCommand
<1>2. c \in LdCommands /\ kept \in Databases /\ c.do \in Orders
  BY <1>1, HeadIsCommand, CommandFacts DEF LdInv, LdTypes
<1>3. c.do \in {"policy", "clear"} => c.k \in Logs
  BY <1>2, CommandFacts
<1>4. \/ Answered(Rejection(c), kept)
      \/ Answered([ev |-> "DocumentRejected", of |-> c.do], kept)
  BY DEF RejectedWhenIdle, RejectedByText, RejectedByDocuments
<1> HIDE DEF c
<1>5. PICK e \in LdEvents :
        /\ Answered(e, kept)
        /\ \/ e.ev = "PolicyRejected" /\ c.do = "policy" /\ e.k = c.k
           \/ e.ev = "ClearRejected" /\ c.do = "clear" /\ e.k = c.k
           \/ e.ev = "ActionRejected" /\ c.do \notin {"policy", "clear"}
           \/ e.ev = "DocumentRejected" /\ e.of = c.do
  <2>1. CASE Answered([ev |-> "DocumentRejected", of |-> c.do], kept)
    <3>1. PICK e : e = [ev |-> "DocumentRejected", of |-> c.do]
      OBVIOUS
    <3>2. e \in LdEvents /\ e.ev = "DocumentRejected" /\ e.of = c.do /\ Answered(e, kept)
      BY <1>2, <2>1, <3>1, LiteralEvents
    <3> QED
      BY <3>2
  <2>2. CASE Answered(Rejection(c), kept)
    <3>1. PICK e : e = Rejection(c)
      OBVIOUS
    <3>2. CASE c.do = "policy"
      <4>1. e = [ev |-> "PolicyRejected", k |-> c.k]
        BY <3>1, <3>2 DEF Rejection
      <4>2. e \in LdEvents /\ e.ev = "PolicyRejected" /\ e.k = c.k
        BY <1>3, <3>2, <4>1, LiteralEvents
      <4> QED
        BY <2>2, <3>1, <3>2, <4>2
    <3>3. CASE c.do = "clear"
      <4>1. e = [ev |-> "ClearRejected", k |-> c.k]
        BY <3>1, <3>3 DEF Rejection
      <4>2. e \in LdEvents /\ e.ev = "ClearRejected" /\ e.k = c.k
        BY <1>3, <3>3, <4>1, LiteralEvents
      <4> QED
        BY <2>2, <3>1, <3>3, <4>2
    <3>4. CASE c.do \notin {"policy", "clear"}
      <4>1. e = [ev |-> "ActionRejected"]
        BY <3>1, <3>4 DEF Rejection
      <4>2. e \in LdEvents /\ e.ev = "ActionRejected"
        BY <4>1, LiteralEvents
      <4> QED
        BY <2>2, <3>1, <3>4, <4>2
    <3> QED
      BY <3>2, <3>3, <3>4
  <2> QED
    BY <1>4, <2>1, <2>2
<1>6. ASSUME NEW j \in Logs
      PROVE  /\ e \notin Reads(j)
             /\ e \in Answers(j) => c \in Policies(j)
             /\ c \in Policies(j) => e \in Answers(j) \cup Misanswers("policy")
             /\ c \in Clears(j) => e \in ClearAnswers(j) \cup Misanswers("clear")
             /\ e \notin Updates(j) /\ e \notin Counts(j)
  BY <1>2, <1>5, Classes, CommandClasses
<1>7. e \notin Losses /\ e \notin Restores
  BY <1>5, Classes
<1> QED
  BY <1>1, <1>2, <1>5, <1>6, <1>7, AnswerKeeps DEF c

\* A list is reported.
LEMMA ListKeeps ==
  ASSUME LdInv, NEW k \in Kinds, List(k)
  PROVE  LdInv'
<1>1. /\ cmds # <<>> /\ Head(cmds).do = "list"
      /\ Answered(Listed(k, kept.items[k]), kept)
  BY DEF List, Done
<1>2. kept.items[k] \in SUBSET Entries /\ kept \in Databases
  BY DEF LdInv, LdTypes, Databases
<1>3. PICK e : e = Listed(k, kept.items[k])
  OBVIOUS
<1>4. e \in LdEvents /\ e.ev = "Listed" /\ e.k = k /\ e.items = kept.items[k]
  BY <1>2, <1>3, LiteralEvents DEF Listed
<1>5. CASE k \in Logs
  <2>1. kept = [kept EXCEPT !.items[k] = kept.items[k]]
    BY <1>2, <1>5 DEF Databases
  <2>2. Answered(e, [kept EXCEPT !.items[k] = kept.items[k]])
    BY <1>1, <1>3, <2>1
  <2> QED
    BY <1>1, <1>2, <1>4, <1>5, <2>2, LogKeeps
<1>6. CASE k \in Libraries
  BY <1>1, <1>2, <1>3, <1>4, <1>6, LibraryKeeps
<1> QED
  BY <1>5, <1>6 DEF Kinds

\* A record of a library is saved, deleted or exported.
LEMMA RecordKeeps ==
  ASSUME LdInv, NEW k \in Libraries,
         \/ DeleteRecord(k) \/ SaveRecord(k)
         \/ k = "routing" /\ (ExportRoutingProfile \/ ImportRoutingProfile)
  PROVE  LdInv'
<1> DEFINE c == Head(cmds)
<1>1. cmds # <<>> /\ c.do \in {"delete", "save", "export", "import"}
  BY DEF DeleteRecord, SaveRecord, ExportRoutingProfile, ImportRoutingProfile, Done
<1>2. c.item \in Entries /\ kept \in Databases /\ kept.items[k] \in SUBSET Entries
  BY <1>1, HeadIsCommand, CommandFacts DEF LdInv, LdTypes, Databases, Kinds
<1> HIDE DEF c
<1>3. CASE DeleteRecord(k)
  <2>1. Answered([ev |-> "Deleted", k |-> k, item |-> c.item], [kept EXCEPT !.items[k] = @ \ {c.item}])
    BY <1>3 DEF DeleteRecord, c
  <2>2. PICK e : e = [ev |-> "Deleted", k |-> k, item |-> c.item]
    OBVIOUS
  <2>3. e \in LdEvents /\ e.ev = "Deleted"
    BY <1>2, <2>2, LiteralEvents
  <2>4. PICK its \in SUBSET Entries : its = kept.items[k] \ {c.item}
    BY <1>2
  <2>5. PICK st : st = [kept EXCEPT !.items[k] = its]
    OBVIOUS
  <2>6. /\ st \in Databases /\ st.ok = kept.ok /\ st.on = kept.on
        /\ \A j \in Logs : st.items[j] = kept.items[j]
    BY <1>2, <2>5 DEF Databases, Kinds, Logs, Libraries
  <2>7. Answered(e, st)
    BY <2>1, <2>2, <2>4, <2>5
  <2>8. /\ cmds # <<>> /\ Head(cmds).do \notin {"policy", "clear"}
        /\ e.ev \in {"Saved", "Deleted", "Exported", "ActionRejected", "DocumentRejected"}
    BY <1>1, <2>2, <2>3 DEF c
  <2> QED
    BY <2>3, <2>6, <2>7, <2>8, LibraryKeeps
<1>4. CASE SaveRecord(k) \/ (k = "routing" /\ ImportRoutingProfile)
  <2>1. Answered([ev |-> "Saved", k |-> k], [kept EXCEPT !.items[k] = @ \cup {c.item}])
    BY <1>4 DEF SaveRecord, ImportRoutingProfile, c
  <2>2. PICK e : e = [ev |-> "Saved", k |-> k]
    OBVIOUS
  <2>3. e \in LdEvents /\ e.ev = "Saved"
    BY <2>2, LiteralEvents
  <2>4. PICK its \in SUBSET Entries : its = kept.items[k] \cup {c.item}
    BY <1>2
  <2>5. PICK st : st = [kept EXCEPT !.items[k] = its]
    OBVIOUS
  <2>6. /\ st \in Databases /\ st.ok = kept.ok /\ st.on = kept.on
        /\ \A j \in Logs : st.items[j] = kept.items[j]
    BY <1>2, <2>5 DEF Databases, Kinds, Logs, Libraries
  <2>7. Answered(e, st)
    BY <2>1, <2>2, <2>4, <2>5
  <2>8. /\ cmds # <<>> /\ Head(cmds).do \notin {"policy", "clear"}
        /\ e.ev \in {"Saved", "Deleted", "Exported", "ActionRejected", "DocumentRejected"}
    BY <1>1, <2>2, <2>3 DEF c
  <2> QED
    BY <2>3, <2>6, <2>7, <2>8, LibraryKeeps
<1>5. CASE k = "routing" /\ ExportRoutingProfile
  <2>1. Answered([ev |-> "Exported", k |-> k], kept)
    BY <1>5 DEF ExportRoutingProfile
  <2>2. PICK e : e = [ev |-> "Exported", k |-> k]
    OBVIOUS
  <2>3. e \in LdEvents /\ e.ev = "Exported"
    BY <2>2, LiteralEvents
  <2> QED
    BY <1>1, <1>2, <2>1, <2>2, <2>3, LibraryKeeps DEF c
<1> QED
  BY <1>3, <1>4, <1>5

\* A log is cleared, or an entry of it deleted.
LEMMA LogChangeKeeps ==
  ASSUME LdInv, NEW k \in Logs, Clear(k) \/ DeleteEntry(k)
  PROVE  LdInv'
<1>1. CASE Clear(k)
  <2>1. /\ cmds # <<>> /\ Head(cmds).do = "clear" /\ Head(cmds).k = k
        /\ Answered([ev |-> "Cleared", k |-> k], [kept EXCEPT !.items[k] = {}])
    BY <1>1 DEF Clear, Done
  <2>2. PICK e : e = [ev |-> "Cleared", k |-> k]
    OBVIOUS
  <2>3. e \in LdEvents /\ e.ev = "Cleared" /\ e.k = k
    BY <2>2, LiteralEvents
  <2>4. {} \in SUBSET Entries
    OBVIOUS
  <2> QED
    BY <2>1, <2>2, <2>3, <2>4, LogKeeps
<1>2. CASE DeleteEntry(k)
  <2>1. PICK left : left = kept.items[k] \ {Head(cmds).item}
    OBVIOUS
  <2>2. /\ cmds # <<>> /\ Head(cmds).do = "delete"
        /\ Answered(Listed(k, left), [kept EXCEPT !.items[k] = left])
    BY <1>2, <2>1 DEF DeleteEntry, Done
  <2>3. left \in SUBSET Entries
    BY <2>1 DEF LdInv, LdTypes, Databases, Kinds
  <2>4. PICK e : e = Listed(k, left)
    OBVIOUS
  <2>5. e \in LdEvents /\ e.ev = "Listed" /\ e.k = k /\ e.items = left
    BY <2>3, <2>4, LiteralEvents DEF Listed, Kinds
  <2> QED
    BY <2>2, <2>3, <2>4, <2>5, LogKeeps
<1> QED
  BY <1>1, <1>2

\* Steps of the worker that answer no command about a log and change no switch.
LEMMA ReportsKeep ==
  ASSUME LdInv, LdTypes', desk' = desk, kept'.ok = kept.ok, kept'.on = kept.on, Took,
         NEW E, Followed(evs, evs', E), E \cap Losses = {}, E \cap Restores = {},
         doing' = "text" => \/ doing = "text" /\ asked' = asked
                            \/ cmds # <<>> /\ Head(cmds) \in Requests /\ asked' = Head(cmds),
         cmds' # cmds => Head(cmds).do \notin {"policy", "clear"},
         \A k \in Logs :
           /\ E \cap Answers(k) = {} /\ E \cap Reads(k) = {}
           /\ \A e \in E \cap Counts(k) : Right(k, e)'
           /\ \/ \A n \in Nat : Good(k, n) => Good(k, n)'
              \/ (Held(evs') \cap Counts(k) # {} /\ \A e : LastOf(evs', Counts(k), e) => e \in E)
  PROVE  LdInv'
<1>1. LdTypes /\ StorageOK'
  BY StorageReports DEF LdInv
<1>2. ASSUME NEW k \in Logs
      PROVE  LogOK(k)'
  <2>1. cmds' # cmds => Head(cmds) \notin Policies(k) /\ Head(cmds) \notin Clears(k)
    BY DEF Policies, Clears
  <2>2. FreedOK(k)'
    <3>1. FreedOK(k)
      BY DEF LdInv
    <3> QED
      BY <1>1, <2>1, <3>1, FreedReports
  <2>3. SUFFICES ASSUME kept'.ok
                 PROVE  (FlightOK(k) /\ SwitchOK(k) /\ TextOK(k) /\ CountOK(k))'
    BY <2>2 DEF LogOK
  <2>4. FlightOK(k) /\ SwitchOK(k) /\ TextOK(k) /\ CountOK(k)
    BY <2>3 DEF LdInv
  <2>5. E \cap Updates(k) = {} /\ E \cap Answers(k) = {} /\ E \cap Reads(k) = {}
    BY DEF Updates, Answers
  <2>6. FlightOK(k)'
    BY <1>1, <2>4, <2>5, FlightReports
  <2>7. SwitchOK(k)'
    BY <1>1, <2>4, <2>5, SwitchReports
  <2>8. TextOK(k)'
    BY <1>1, <2>4, TextReports
  <2>9. CountOK(k)'
    BY <2>4, CountReports DEF LdInv
  <2> QED
    BY <2>6, <2>7, <2>8, <2>9
<1> QED
  BY <1>1, <1>2 DEF LdInv, LogOK

\* Reports that are about no log.
LEMMA OthersKeep ==
  ASSUME LdInv, UNCHANGED <<kept, desk>>, Took,
         \/ evs' = evs
         \/ \E e \in LdEvents : /\ evs' = Append(evs, e)
                                /\ e.ev \in {"Rejected", "DocumentRunning", "DocumentRejected", "DocumentEnded"},
         doing' = "text" => \/ doing = "text" /\ asked' = asked
                            \/ cmds # <<>> /\ Head(cmds) \in Requests /\ asked' = Head(cmds),
         cmds' # cmds => Head(cmds).do \notin {"policy", "clear"}
  PROVE  LdInv'
<1>1. LdTypes /\ evs \in Seq(LdEvents)
  BY DEF LdInv, LdTypes
<1>2. PICK E : /\ Followed(evs, evs', E)
               /\ \A e \in E : e \in LdEvents
                               /\ e.ev \in {"Rejected", "DocumentRunning", "DocumentRejected", "DocumentEnded"}
  <2>1. CASE evs' = evs
    <3>1. Followed(evs, evs', {})
      BY <1>1, <2>1, FollowedBySame
    <3> QED
      BY <3>1
  <2>2. ASSUME NEW e \in LdEvents, evs' = Append(evs, e),
               e.ev \in {"Rejected", "DocumentRunning", "DocumentRejected", "DocumentEnded"}
        PROVE  \E E : /\ Followed(evs, evs', E)
                      /\ \A x \in E : x \in LdEvents
                               /\ x.ev \in {"Rejected", "DocumentRunning", "DocumentRejected", "DocumentEnded"}
    <3>1. Followed(evs, evs', {e})
      BY <1>1, <2>2, FollowedByOne
    <3> QED
      BY <2>2, <3>1
  <2> QED
    BY <2>1, <2>2
<1>3. LdTypes'
  <2>1. evs' \in Seq(LdEvents) /\ cmds' \in Seq(LdCommands)
    BY <1>1, <1>2, TookLess DEF Followed
  <2> QED
    BY <1>1, <2>1 DEF LdTypes
<1>4. E \cap Losses = {} /\ E \cap Restores = {}
  BY <1>2, Classes
<1>5. ASSUME NEW k \in Logs
      PROVE  E \cap Answers(k) = {} /\ E \cap Reads(k) = {} /\ E \cap Counts(k) = {}
  BY <1>2, Classes
<1>6. ASSUME NEW k \in Logs, NEW n, Good(k, n)
      PROVE  Good(k, n)'
  BY <1>6 DEF Good, Count
<1> QED
  BY <1>1, <1>2, <1>3, <1>4, <1>5, <1>6, ReportsKeep

\* A translation or a document is taken, or documents report.
LEMMA TakenKeepsLd ==
  ASSUME LdInv, TakeTranslate \/ TakeDocument \/ \E last \in BOOLEAN : DocumentEvent(last)
  PROVE  LdInv'
<1>1. CASE TakeTranslate
  <2>1. cmds # <<>> /\ Head(cmds).do = "translate" /\ cmds' = Tail(cmds) /\ UNCHANGED <<kept, desk>>
    BY <1>1 DEF TakeTranslate
  <2>2. Head(cmds) \in Requests
    BY <2>1, HeadIsCommand, CommandFacts DEF LdInv
  <2>3. [ev |-> "Rejected"] \in LdEvents
    BY LiteralEvents
  <2>4. PICK e \in LdEvents : e = [ev |-> "Rejected"]
    BY <2>3
  <2>5. \/ evs' = evs
        \/ evs' = Append(evs, e) /\ e.ev = "Rejected"
    BY <1>1, <2>4 DEF TakeTranslate
  <2>6. asked' = Head(cmds) \/ UNCHANGED <<doing, asked>>
    BY <1>1 DEF TakeTranslate
  <2> QED
    BY <2>1, <2>2, <2>5, <2>6, OthersKeep DEF Took
<1>2. CASE TakeDocument
  <2>1. cmds # <<>> /\ Head(cmds).do = "document" /\ cmds' = Tail(cmds) /\ UNCHANGED <<kept, asked, desk>>
    BY <1>2 DEF TakeDocument
  <2>2. [ev |-> "DocumentRunning"] \in LdEvents /\ [ev |-> "DocumentRejected", of |-> "document"] \in LdEvents
    BY LiteralEvents DEF Orders
  <2>3. PICK e \in LdEvents : evs' = Append(evs, e) /\ e.ev \in {"DocumentRunning", "DocumentRejected"}
    BY <1>2, <2>2 DEF TakeDocument
  <2>4. doing' = "text" => doing = "text"
    BY <1>2 DEF TakeDocument
  <2> QED
    BY <2>1, <2>3, <2>4, OthersKeep DEF Took
<1>3. CASE \E last \in BOOLEAN : DocumentEvent(last)
  <2>1. UNCHANGED <<kept, asked, cmds, desk>> /\ doing' # "text"
    BY <1>3 DEF DocumentEvent
  <2>2. [ev |-> "DocumentRunning"] \in LdEvents /\ [ev |-> "DocumentEnded"] \in LdEvents
    BY LiteralEvents
  <2>3. PICK e \in LdEvents : evs' = Append(evs, e) /\ e.ev \in {"DocumentRunning", "DocumentEnded"}
    BY <1>3, <2>2 DEF DocumentEvent
  <2> QED
    BY <2>1, <2>3, OthersKeep DEF Took
<1> QED
  BY <1>1, <1>2, <1>3

\* The database is lost: what the window believes of it no longer matters.
LEMMA LossKeeps ==
  ASSUME LdInv, LoseStorage
  PROVE  LdInv'
<1>1. /\ evs' = Append(evs, [ev |-> "Unavailable"]) /\ kept' = [kept EXCEPT !.ok = FALSE] /\ kept.ok
      /\ UNCHANGED <<doing, asked, cmds, desk>>
  BY DEF LoseStorage
<1>2. PICK e : e = [ev |-> "Unavailable"]
  OBVIOUS
<1>3. e \in LdEvents /\ e.ev = "Unavailable"
  BY <1>2, LiteralEvents
<1>4. evs \in Seq(LdEvents) /\ LdTypes
  BY DEF LdInv, LdTypes
<1>5. evs' \in Seq(LdEvents) /\ Held(evs') = Held(evs) \cup {e} /\ Followed(evs, evs', {e})
  BY <1>1, <1>2, <1>3, <1>4, HeldAppended, FollowedByOne
<1>6. kept' \in Databases /\ ~kept'.ok
  BY <1>1, <1>4 DEF LdTypes, Databases
<1>7. LdTypes'
  BY <1>1, <1>4, <1>5, <1>6 DEF LdTypes
<1>8. StorageOK'
  <2>1. e \in Losses /\ {e} \cap Restores = {}
    BY <1>3, Classes
  <2>2. Before(evs', Restores, Losses)
    BY <1>5, <2>1 DEF Followed, LdInv, StorageOK
  <2> QED
    BY <1>5, <1>6, <2>1, <2>2 DEF StorageOK
<1>9. \A k \in Logs : FreedOK(k)'
  <2>1. ASSUME NEW k \in Logs PROVE FreedOK(k)'
    BY <1>1, <1>4, <1>5, FreedReports DEF LdInv, Took
  <2> QED
    BY <2>1
<1> QED
  BY <1>6, <1>7, <1>8, <1>9 DEF LdInv

\* Recording adds to a log: the history says so, the memory count may lag behind.
LEMMA TextKeeps ==
  ASSUME LdInv, NEW completed \in BOOLEAN, NEW failed \in SUBSET Logs, TextEnds(completed, failed)
  PROVE  LdInv'
<1>1. PICK rec : rec = IF completed /\ ~asked.incognito /\ kept.ok THEN {k \in Logs : kept.on[k]} ELSE {}
  OBVIOUS
<1>2. PICK its : its = [k \in Kinds |-> IF k \in rec \ failed THEN kept.items[k] \cup {asked.item}
                                        ELSE kept.items[k]]
  OBVIOUS
<1>3. /\ doing = "text" /\ doing' = "idle" /\ kept' = [kept EXCEPT !.items = its]
      /\ UNCHANGED <<cmds, desk>>
  BY <1>1, <1>2 DEF TextEnds, Kinds
<1>4. LdTypes /\ evs \in Seq(LdEvents) /\ kept \in Databases /\ asked.item \in Entries
  BY <1>3 DEF LdInv, LdTypes, Requests
<1>5. its \in [Kinds -> SUBSET Entries] /\ \A k \in Kinds : kept.items[k] \subseteq its[k]
  BY <1>2, <1>4 DEF Databases
<1>6. kept' \in Databases /\ kept'.items = its /\ kept'.ok = kept.ok /\ kept'.on = kept.on
  BY <1>3, <1>4, <1>5 DEF Databases
<1>7. "history" \in Kinds /\ "memory" \in Kinds /\ Logs = {"history", "memory"}
  BY DEF Kinds, Logs
<1>8. Cardinality(its["history"]) \in Nat
  BY <1>5, <1>7, CountsAreNumbers
<1>9. PICK hu \in LdEvents : hu = [ev |-> "HistoryUpdated", count |-> Cardinality(its["history"])]
  BY <1>8, LiteralEvents
<1>10. PICK ph \in LdEvents : ph = [ev |-> "PersistenceFailed", k |-> "history"]
  BY <1>7, LiteralEvents
<1>11. PICK pm \in LdEvents : pm = [ev |-> "PersistenceFailed", k |-> "memory"]
  BY <1>7, LiteralEvents
<1>12. PICK te \in LdEvents : te = [ev |-> "TextEnded"]
  BY LiteralEvents
<1>13. PICK counted : counted = Told(evs, "history" \in rec \ failed, hu)
  OBVIOUS
<1>14. PICK warned : warned = Told(counted, "history" \in failed, ph)
  OBVIOUS
<1>15. PICK ended : ended = Told(warned, "memory" \in failed, pm)
  OBVIOUS
<1>16. evs' = Append(ended, te)
  <2>1. its["history"] = IF "history" \in rec \ failed THEN kept.items["history"] \cup {asked.item}
                         ELSE kept.items["history"]
    BY <1>2, <1>7
  <2> QED
    BY <1>1, <1>9, <1>10, <1>11, <1>12, <1>13, <1>14, <1>15, <2>1 DEF TextEnds
<1>17. /\ hu.ev = "HistoryUpdated" /\ hu.count = Cardinality(its["history"])
       /\ ph.ev = "PersistenceFailed" /\ ph.k = "history" /\ pm.ev = "PersistenceFailed" /\ pm.k = "memory"
       /\ te.ev = "TextEnded"
  BY <1>9, <1>10, <1>11, <1>12
<1> DEFINE E == {hu, ph, pm, te}
<1>18. Followed(evs, counted, E) /\ counted \in Seq(LdEvents)
  BY <1>4, <1>13, ToldFollows
<1>19. Followed(counted, warned, {ph, pm, te}) /\ warned \in Seq(LdEvents)
  BY <1>14, <1>18, ToldFollows
<1>20. Followed(warned, ended, {ph, pm, te}) /\ ended \in Seq(LdEvents)
  BY <1>15, <1>19, ToldFollows
<1>21. Followed(ended, evs', {ph, pm, te})
  BY <1>16, <1>20, FollowedByOne
<1>22. Followed(counted, evs', {ph, pm, te})
  BY <1>19, <1>20, <1>21, FollowedTwice
<1>23. Followed(evs, evs', E) /\ evs' \in Seq(LdEvents)
  <2>1. Followed(counted, warned, E) /\ Followed(warned, ended, E) /\ Followed(ended, evs', E)
    BY <1>14, <1>15, <1>16, <1>18, <1>19, <1>20, ToldFollows, FollowedByOne
  <2>2. Followed(evs, warned, E)
    BY <1>18, <2>1, FollowedTwice
  <2>3. Followed(evs, ended, E)
    BY <2>1, <2>2, FollowedTwice
  <2> QED
    BY <2>1, <2>3, FollowedTwice DEF Followed
<1>24. \A k : E \cap Answers(k) = {} /\ E \cap Reads(k) = {} /\ E \cap Losses = {} /\ E \cap Restores = {}
  BY <1>17, Classes
<1>25. LdTypes'
  BY <1>3, <1>4, <1>6, <1>23 DEF LdTypes
<1>26. \A k \in Logs : \A e \in E \cap Counts(k) : Right(k, e)'
  <2>1. ASSUME NEW k \in Logs, NEW e \in E \cap Counts(k)
        PROVE  Right(k, e)'
    <3>1. CASE e = hu
      <4>1. k = "history"
        BY <1>17, <2>1, <3>1, Classes
      <4>2. PICK n : n = Cardinality(its["history"])
        OBVIOUS
      <4>3. Good(k, n)'
        BY <1>6, <4>1, <4>2 DEF Good, Count
      <4> QED
        BY <1>17, <3>1, <4>2, <4>3 DEF Right
    <3>2. CASE e # hu
      BY <1>17, <2>1, <3>2 DEF Right
    <3> QED
      BY <3>1, <3>2
  <2> QED
    BY <2>1
<1>27. ASSUME NEW k \in Logs
       PROVE  \/ \A n \in Nat : Good(k, n) => Good(k, n)'
              \/ (Held(evs') \cap Counts(k) # {} /\ \A e : LastOf(evs', Counts(k), e) => e \in E)
  <2>1. CASE k = "memory"
    <3>1. /\ IsFiniteSet(its[k]) /\ kept.items[k] \subseteq its[k]
          /\ Cardinality(its[k]) \in Nat /\ Cardinality(kept.items[k]) \in Nat
      BY <1>5, <1>7, <2>1, CountsAreNumbers
    <3>2. Cardinality(kept.items[k]) <= Cardinality(its[k])
      BY <3>1, FS_Subset
    <3>3. Count(k)' = Cardinality(its[k]) /\ Count(k) = Cardinality(kept.items[k])
      BY <1>6 DEF Count
    <3>4. PICK a \in Nat, b \in Nat : a <= b /\ Count(k) = a /\ Count(k)' = b
      BY <3>1, <3>2, <3>3
    <3> QED
      BY <2>1, <3>4 DEF Good
  <2>2. CASE k = "history" /\ "history" \notin rec \ failed
    <3>1. its[k] = kept.items[k]
      BY <1>2, <1>7, <2>2
    <3> QED
      BY <1>6, <2>2, <3>1 DEF Good, Count
  <2>3. CASE k = "history" /\ "history" \in rec \ failed
    <3>1. counted = Append(evs, hu)
      BY <1>13, <2>3 DEF Told
    <3>2. hu \in Counts(k)
      BY <1>17, <2>3, Classes
    <3>3. hu \in Held(evs')
      BY <1>4, <1>22, <3>1, HeldAppended DEF Followed
    <3>4. ASSUME NEW e, LastOf(evs', Counts(k), e)
          PROVE  e \in E
      <4>1. e \in {ph, pm, te} \/ LastOf(counted, Counts(k), e)
        BY <1>22, <3>4 DEF Followed
      <4>2. LastOf(counted, Counts(k), e) => e = hu
        BY <1>4, <3>1, <3>2, LastOfAppended
      <4> QED
        BY <4>1, <4>2
    <3> QED
      BY <3>2, <3>3, <3>4
  <2> QED
    BY <1>7, <2>1, <2>2, <2>3
<1> HIDE DEF E
<1> QED
  BY <1>3, <1>6, <1>23, <1>24, <1>25, <1>26, <1>27, ReportsKeep DEF Took

---------------------------------------------------------------------------
(* Starting, and starting again.                                           *)

Started ==
  /\ kept \in Databases /\ doing = "idle" /\ cmds = <<>> /\ desk = Desk
  /\ \E failed \in SUBSET Logs : evs = Startup(kept, failed)

\* The window at the start.
LEMMA DeskFacts ==
  /\ Desk \in Desks /\ ~Desk.ok
  /\ \A k \in Logs : /\ ~Desk.policy[k] /\ ~Desk.clear[k] /\ Desk.switch[k] = Desk.on[k] /\ Desk.on[k]
BY DEF Desk, Desks

\* What the worker reports at the start, one by one.
LEMMA StartupFacts ==
  ASSUME kept \in Databases, kept.ok, NEW failed \in SUBSET Logs, evs = Startup(kept, failed)
  PROVE  /\ evs \in Seq(LdEvents) /\ Len(evs) = 4
         /\ evs[1].ev = "Restored" /\ evs[2].ev = "Ready"
         /\ evs[3].ev = "LogRestored" /\ evs[3].k = "history"
         /\ evs[4].ev = "LogRestored" /\ evs[4].k = "memory"
         /\ \A i \in {3, 4} : /\ IF evs[i].failed THEN evs[i].on ELSE evs[i].on = kept.on[evs[i].k]
                              /\ evs[i].failed \/ evs[i].count = Count(evs[i].k)
<1>1. ASSUME NEW k \in Logs
      PROVE  LogRestored(kept, k, k \in failed) \in LdEvents
  <2>1. PICK n \in Nat : n = IF k \in failed THEN 0 ELSE Cardinality(kept.items[k])
    BY CountsAreNumbers DEF Databases, Kinds
  <2>2. PICK b \in BOOLEAN : b = (k \in failed)
    <3>1. (k \in failed) \in BOOLEAN
      OBVIOUS
    <3> QED
      BY <3>1, Zenon
  <2>3. PICK w \in BOOLEAN : w = (b \/ kept.on[k])
    BY Zenon
  <2>4. [ev |-> "LogRestored", k |-> k, failed |-> b, count |-> n, on |-> w] \in LdEvents
    BY DEF LdEvents
  <2>5. LogRestored(kept, k, k \in failed) = [ev |-> "LogRestored", k |-> k, failed |-> b, count |-> n, on |-> w]
    BY <2>1, <2>2, <2>3, Zenon DEF LogRestored
  <2> QED
    BY <2>4, <2>5
<1>2. PICK r \in LdEvents : r = [ev |-> "Restored"]
  BY LiteralEvents
<1>3. PICK y \in LdEvents : y = [ev |-> "Ready"]
  BY LiteralEvents
<1>4. PICK h \in LdEvents : h = LogRestored(kept, "history", "history" \in failed)
  BY <1>1 DEF Logs
<1>5. PICK m \in LdEvents : m = LogRestored(kept, "memory", "memory" \in failed)
  BY <1>1 DEF Logs
<1>6. evs = <<r, y, h, m>>
  BY <1>2, <1>3, <1>4, <1>5 DEF Startup
<1>7. /\ r.ev = "Restored" /\ y.ev = "Ready"
      /\ h.ev = "LogRestored" /\ h.k = "history" /\ h.failed = ("history" \in failed)
      /\ m.ev = "LogRestored" /\ m.k = "memory" /\ m.failed = ("memory" \in failed)
  BY <1>2, <1>3, <1>4, <1>5, Zenon DEF LogRestored
<1>8. /\ IF h.failed THEN h.on ELSE h.on = kept.on["history"]
      /\ h.failed \/ h.count = Count("history")
  <2>1. /\ h.on = ("history" \in failed \/ kept.on["history"])
        /\ h.count = IF "history" \in failed THEN 0 ELSE Cardinality(kept.items["history"])
    BY <1>4, Zenon DEF LogRestored
  <2>2. kept.on["history"] \in BOOLEAN
    BY DEF Databases, Logs
  <2> QED
    BY <1>7, <2>1, <2>2 DEF Count
<1>9. /\ IF m.failed THEN m.on ELSE m.on = kept.on["memory"]
      /\ m.failed \/ m.count = Count("memory")
  <2>1. /\ m.on = ("memory" \in failed \/ kept.on["memory"])
        /\ m.count = IF "memory" \in failed THEN 0 ELSE Cardinality(kept.items["memory"])
    BY <1>5, Zenon DEF LogRestored
  <2>2. kept.on["memory"] \in BOOLEAN
    BY DEF Databases, Logs
  <2> QED
    BY <1>7, <2>1, <2>2 DEF Count
<1>10. evs \in Seq(LdEvents) /\ Len(evs) = 4 /\ evs[1] = r /\ evs[2] = y /\ evs[3] = h /\ evs[4] = m
  BY <1>6
<1> QED
  BY <1>7, <1>8, <1>9, <1>10

\* The invariant holds when the application starts.
LEMMA StartedInv == Started => LdInv
<1> SUFFICES ASSUME Started
             PROVE  LdInv
  OBVIOUS
<1>1. PICK failed \in SUBSET Logs : evs = Startup(kept, failed)
  BY DEF Started
<1>2. kept \in Databases /\ doing = "idle" /\ cmds = <<>> /\ cmds \in Seq(LdCommands) /\ Held(cmds) = {}
  BY DEF Started, Held
<1>3. /\ desk \in Desks /\ ~desk.ok
      /\ \A k \in Logs : ~desk.policy[k] /\ ~desk.clear[k] /\ desk.switch[k] = desk.on[k] /\ desk.on[k]
  BY DeskFacts DEF Started
<1>4. \A k \in Logs : FreedOK(k)
  BY <1>3 DEF FreedOK
<1>5. CASE ~kept.ok
  <2>1. PICK u \in LdEvents : u = [ev |-> "Unavailable"]
    BY LiteralEvents
  <2>2. PICK y \in LdEvents : y = [ev |-> "Ready"]
    BY LiteralEvents
  <2>3. evs = <<u, y>>
    BY <1>1, <1>5, <2>1, <2>2 DEF Startup
  <2>4. evs \in Seq(LdEvents) /\ Len(evs) = 2 /\ evs[1] = u /\ evs[2] = y
    BY <2>3
  <2>5. u \in Held(evs) /\ \A i \in 1..Len(evs) : evs[i] = u \/ evs[i] = y
    BY <2>4 DEF Held
  <2>6. u \in Losses /\ u \notin Restores /\ y \notin Restores
    BY <2>1, <2>2, Classes
  <2>7. StorageOK
    BY <1>5, <2>5, <2>6 DEF StorageOK, Before
  <2> QED
    BY <1>2, <1>3, <1>4, <1>5, <2>4, <2>7 DEF LdInv, LdTypes
<1>6. CASE kept.ok
  <2>1. /\ evs \in Seq(LdEvents) /\ Len(evs) = 4
        /\ evs[1].ev = "Restored" /\ evs[2].ev = "Ready"
        /\ evs[3].ev = "LogRestored" /\ evs[3].k = "history"
        /\ evs[4].ev = "LogRestored" /\ evs[4].k = "memory"
        /\ \A i \in {3, 4} : /\ IF evs[i].failed THEN evs[i].on ELSE evs[i].on = kept.on[evs[i].k]
                             /\ evs[i].failed \/ evs[i].count = Count(evs[i].k)
    BY <1>1, <1>2, <1>6, StartupFacts
  <2>2. 1..Len(evs) = {1, 2, 3, 4} /\ \A i \in {1, 2, 3, 4} : evs[i] \in LdEvents
    <3>1. 1..4 = {1, 2, 3, 4}
      OBVIOUS
    <3>2. evs \in Seq(LdEvents)
      BY <2>1
    <3>3. \A i \in 1..Len(evs) : evs[i] \in LdEvents
      BY <3>2
    <3> QED
      BY <2>1, <3>1, <3>3
  <2>3. Held(evs) = {evs[1], evs[2], evs[3], evs[4]}
    BY <2>2 DEF Held
  <2>4. Held(evs) \cap Losses = {}
    BY <2>1, <2>2, <2>3, Classes
  <2>5. StorageOK
    BY <1>6, <2>4 DEF StorageOK, Before, Held
  <2>6. ASSUME NEW k \in Logs
        PROVE  FlightOK(k) /\ SwitchOK(k) /\ TextOK(k) /\ CountOK(k)
    <3>1. Held(evs) \cap Answers(k) = {} /\ Held(evs) \cap Updates(k) = {}
      BY <2>1, <2>2, <2>3, Classes
    <3>2. FlightOK(k)
      BY <1>2, <3>1 DEF FlightOK, AtMostOne, Held
    <3>3. TextOK(k)
      BY <1>2 DEF TextOK, Before
    <3>4. PICK i \in {3, 4} : evs[i].ev = "LogRestored" /\ evs[i].k = k
      BY <2>1 DEF Logs
    <3>5. \A j \in 1..Len(evs) : j # i => evs[j] \notin Reads(k) /\ evs[j] \notin Counts(k)
      BY <2>1, <2>2, <3>4, Classes
    <3>6. evs[i] \in Reads(k) /\ evs[i] \in Counts(k) /\ evs[i] \in Held(evs) /\ i \in 1..Len(evs)
      BY <2>1, <2>2, <2>3, <3>4, Classes
    <3>7. SwitchOK(k)
      <4>1. AtMostOne(evs, Reads(k))
        BY <3>5 DEF AtMostOne
      <4>2. Before(evs, Reads(k), Updates(k))
        BY <3>1 DEF Before, Held
      <4>3. ASSUME NEW e \in Held(evs) \cap Reads(k)
            PROVE  IF e.failed THEN e.on ELSE e.on = kept.on[k]
        <5>1. e = evs[i]
          BY <3>5 DEF Held
        <5> QED
          BY <2>1, <3>4, <5>1
      <4> QED
        BY <1>3, <3>1, <3>6, <4>1, <4>2, <4>3 DEF SwitchOK
    <3>8. CountOK(k)
      <4>1. ASSUME NEW e \in Held(evs), LastOf(evs, Counts(k), e)
            PROVE  Right(k, e)
        <5>1. e = evs[i]
          BY <3>5, <4>1 DEF LastOf
        <5>2. e.failed \/ e.count = Count(k)
          BY <2>1, <3>4, <5>1
        <5>3. Count(k) \in Nat
          BY <1>2, CountsAreNumbers DEF Count, Databases, Kinds
        <5>4. e.failed \/ Good(k, e.count)
          BY <5>2, <5>3 DEF Good
        <5> QED
          BY <3>4, <5>1, <5>4 DEF Right
      <4> QED
        BY <3>6, <4>1 DEF CountOK
    <3> QED
      BY <3>2, <3>3, <3>7, <3>8
  <2> QED
    BY <1>2, <1>3, <1>4, <2>1, <2>5, <2>6 DEF LdInv, LdTypes
<1> QED
  BY <1>5, <1>6

---------------------------------------------------------------------------
(* What the window does: it sends a command or not.                        *)

\* What the invariant says of the window is as it was.
DeskAsWas ==
  /\ desk' \in Desks
  /\ UNCHANGED <<desk.ok, desk.on, desk.switch, desk.count, desk.policy, desk.clear, desk.warn,
                 desk.unread, desk.misanswered>>

\* The desk is as it was and so is everything else.
LEMMA DeskKeeps ==
  ASSUME LdInv, UNCHANGED <<kept, doing, asked, cmds, evs>>, DeskAsWas
  PROVE  LdInv'
<1>1. LdTypes' /\ StorageOK'
  BY DEF LdInv, LdTypes, StorageOK, DeskAsWas
<1>2. ASSUME NEW k \in Logs
      PROVE  FreedOK(k)' /\ (kept'.ok => FlightOK(k)' /\ SwitchOK(k)' /\ TextOK(k)' /\ CountOK(k)')
  <2>1. FreedOK(k)'
    BY DEF LdInv, FreedOK, DeskAsWas
  <2>2. kept'.ok => FlightOK(k)' /\ TextOK(k)'
    BY DEF LdInv, FlightOK, TextOK, DeskAsWas
  <2>3. kept'.ok => SwitchOK(k)'
    BY DEF LdInv, SwitchOK, DeskAsWas
  <2>4. kept'.ok => CountOK(k)'
    BY DEF LdInv, CountOK, Right, Good, Count, DeskAsWas
  <2> QED
    BY <2>1, <2>2, <2>3, <2>4
<1> QED
  BY <1>1, <1>2 DEF LdInv

\* A command is sent: a switch that has none under way asks for its change, a text is
\* sent as the window shows the logs.
LEMMA SendKeeps ==
  ASSUME LdInv, UNCHANGED <<kept, doing, asked, evs>>, NEW c \in LdCommands, cmds' = Append(cmds, c),
         desk' \in Desks,
         UNCHANGED <<desk.ok, desk.on, desk.count, desk.warn, desk.unread, desk.misanswered>>,
         \A k \in Logs :
           /\ IF c \in Policies(k) THEN ~desk.policy[k] /\ desk'.policy[k]
              ELSE desk'.policy[k] = desk.policy[k] /\ desk'.switch[k] = desk.switch[k]
           /\ c \notin Clears(k) => desk'.clear[k] = desk.clear[k]
           /\ c \in Without(k) => ~desk.policy[k] /\ ~desk.switch[k]
  PROVE  LdInv'
<1>1. cmds \in Seq(LdCommands) /\ cmds' \in Seq(LdCommands) /\ Held(cmds') = Held(cmds) \cup {c}
  BY HeldAppended DEF LdInv, LdTypes
<1>2. LdTypes' /\ StorageOK'
  BY <1>1 DEF LdInv, LdTypes, StorageOK
<1>3. ASSUME NEW k \in Logs
      PROVE  FreedOK(k)'
  BY <1>1 DEF LdInv, FreedOK
<1>4. ASSUME NEW k \in Logs, kept'.ok
      PROVE  FlightOK(k)' /\ SwitchOK(k)' /\ TextOK(k)' /\ CountOK(k)'
  <2>1. FlightOK(k) /\ SwitchOK(k) /\ TextOK(k) /\ CountOK(k)
    BY <1>4 DEF LdInv
  <2>2. c \in Policies(k) => Held(cmds) \cap Policies(k) = {} /\ Held(evs) \cap Answers(k) = {}
    BY <2>1 DEF FlightOK
  <2>3. FlightOK(k)'
    <3>1. AtMostOne(cmds', Policies(k))
      BY <1>1, <2>1, <2>2, AtMostOneAppended DEF FlightOK
    <3> QED
      BY <1>1, <2>1, <2>2, <3>1 DEF FlightOK
  <2>4. SwitchOK(k)'
    BY <2>1 DEF SwitchOK
  <2>5. TextOK(k)'
    <3>1. c \in Without(k) => Held(cmds) \cap Policies(k) = {} /\ c \notin Policies(k)
      BY <2>1, CommandClasses DEF FlightOK
    <3>2. c \in Without(k) => ~kept.on[k]
      <4>1. SUFFICES ASSUME c \in Without(k)
                     PROVE  ~kept.on[k]
        OBVIOUS
      <4>2. Held(evs) \cap Updates(k) = {}
        BY <2>1, <4>1 DEF FlightOK, Updates, Answers
      <4>3. ~desk.on[k]
        BY <2>1, <4>1 DEF SwitchOK
      <4> QED
        BY <2>1, <4>2, <4>3 DEF SwitchOK
    <3>3. Before(cmds', Without(k), Policies(k))
      BY <1>1, <2>1, <3>1, BeforeAppended DEF TextOK
    <3> QED
      BY <1>1, <2>1, <3>2, <3>3 DEF TextOK
  <2>6. CountOK(k)'
    BY <2>1 DEF CountOK, Right, Good, Count
  <2> QED
    BY <2>3, <2>4, <2>5, <2>6
<1> QED
  BY <1>2, <1>3, <1>4 DEF LdInv

\* A command without a place in the queue changes nothing the invariant says.
LEMMA UnsentKeeps ==
  ASSUME LdInv, UNCHANGED <<kept, doing, asked, cmds, evs>>, desk' = [desk EXCEPT !.busy = FALSE]
  PROVE  LdInv'
<1>1. DeskAsWas
  BY DEF LdInv, LdTypes, Desks, DeskAsWas
<1> QED
  BY <1>1, DeskKeeps

\* The literals of the model are commands.
LEMMA LiteralCommands ==
  /\ \A x \in Logs, b \in BOOLEAN : [do |-> "policy", k |-> x, on |-> b] \in LdCommands
  /\ \A x \in Logs : [do |-> "clear", k |-> x] \in LdCommands
  /\ \A x \in Kinds : [do |-> "list", k |-> x] \in LdCommands
  /\ \A x \in Kinds, i \in Entries : [do |-> "delete", k |-> x, item |-> i] \in LdCommands
  /\ \A x \in Libraries, i \in Entries : [do |-> "save", k |-> x, item |-> i] \in LdCommands
  /\ \A i \in Entries, b \in BOOLEAN :
       [do |-> "import", k |-> "routing", item |-> i, valid |-> b] \in LdCommands
  /\ \A i \in Entries : [do |-> "export", k |-> "routing", item |-> i] \in LdCommands
  /\ [do |-> "document"] \in LdCommands
BY DEF LdCommands

\* A click that changes nothing on the desk sends its command or not.
LEMMA OrderKeeps ==
  ASSUME LdInv, UNCHANGED <<kept, doing, asked, evs>>, NEW c \in LdCommands,
         c.do \in {"list", "delete", "save", "import", "export"}, Sent(c, desk)
  PROVE  LdInv'
<1>1. CASE cmds' = Append(cmds, c) /\ desk' = desk
  <2>1. desk' \in Desks
    BY <1>1 DEF LdInv, LdTypes
  <2>2. \A k \in Logs : c \notin Policies(k) /\ c \notin Clears(k) /\ c \notin Without(k)
    BY CommandClasses
  <2> QED
    BY <1>1, <2>1, <2>2, SendKeeps
<1>2. CASE cmds' = cmds /\ desk' = [desk EXCEPT !.busy = FALSE]
  BY <1>2, UnsentKeeps
<1> QED
  BY <1>1, <1>2 DEF Sent

\* A list is asked for.
LEMMA ClickListKeeps ==
  ASSUME LdInv, NEW k \in Kinds, ClickList(k)
  PROVE  LdInv'
<1>1. PICK c \in LdCommands : c = [do |-> "list", k |-> k]
  BY LiteralCommands
<1> QED
  BY <1>1, OrderKeeps DEF ClickList

\* A record is saved, deleted, imported or exported.
LEMMA OrdersKeep ==
  ASSUME LdInv, NEW k \in Kinds, NEW i \in Entries, NEW b \in BOOLEAN,
         \/ SaveGlossaryAs(i) \/ DialogDelete(k, i) \/ SaveRoutingRow(i, b)
         \/ ImportRoutingFile(i, b) \/ ExportRoutingRow(i)
  PROVE  LdInv'
<1>0. "glossary" \in Libraries /\ "routing" \in Libraries
  BY DEF Libraries
<1>1. CASE SaveGlossaryAs(i)
  <2>1. PICK c \in LdCommands : c = [do |-> "save", k |-> "glossary", item |-> i]
    BY <1>0, LiteralCommands
  <2> QED
    BY <1>1, <2>1, OrderKeeps DEF SaveGlossaryAs
<1>2. CASE DialogDelete(k, i)
  <2>1. PICK c \in LdCommands : c = [do |-> "delete", k |-> k, item |-> i]
    BY LiteralCommands
  <2> QED
    BY <1>2, <2>1, OrderKeeps DEF DialogDelete
<1>3. CASE SaveRoutingRow(i, b)
  <2>1. PICK c \in LdCommands : c = [do |-> "save", k |-> "routing", item |-> i]
    BY <1>0, LiteralCommands
  <2> QED
    BY <1>3, <2>1, OrderKeeps DEF SaveRoutingRow
<1>4. CASE ImportRoutingFile(i, b)
  <2>1. PICK c \in LdCommands : c = [do |-> "import", k |-> "routing", item |-> i, valid |-> b]
    BY LiteralCommands
  <2> QED
    BY <1>4, <2>1, OrderKeeps DEF ImportRoutingFile
<1>5. CASE ExportRoutingRow(i)
  <2>1. PICK c \in LdCommands : c = [do |-> "export", k |-> "routing", item |-> i]
    BY LiteralCommands
  <2> QED
    BY <1>5, <2>1, OrderKeeps DEF ExportRoutingRow
<1> QED
  BY <1>1, <1>2, <1>3, <1>4, <1>5

\* A switch or a Clear button is used.
LEMMA ControlKeeps ==
  ASSUME LdInv, NEW k \in Logs, TogglePolicy(k) \/ PressClear(k)
  PROVE  LdInv'
<1>1. LdTypes /\ desk \in Desks
  BY DEF LdInv, LdTypes
<1>2. CASE TogglePolicy(k)
  <2>1. PICK b \in BOOLEAN : b = ~desk.switch[k]
    BY <1>1, Zenon DEF Desks
  <2>2. PICK c \in LdCommands : c = [do |-> "policy", k |-> k, on |-> b]
    BY LiteralCommands
  <2>3. PICK d : d = [desk EXCEPT !.policy[k] = TRUE, !.switch[k] = b]
    OBVIOUS
  <2>4. d = [desk EXCEPT !.policy[k] = TRUE, !.switch[k] = ~@]
    BY <2>1, <2>3
  <2>5. Sent(c, d) /\ ~desk.policy[k] /\ UNCHANGED <<kept, doing, asked, evs>>
    BY <1>2, <2>1, <2>2, <2>4, Zenon DEF TogglePolicy
  <2>6. CASE cmds' = Append(cmds, c) /\ desk' = d
    <3>1. desk' \in Desks
      BY <1>1, <2>3, <2>6 DEF Desks
    <3>2. UNCHANGED <<desk.ok, desk.on, desk.count, desk.warn, desk.unread, desk.misanswered, desk.clear>>
      BY <1>1, <2>3, <2>6 DEF Desks
    <3>3. ASSUME NEW j \in Logs
          PROVE  /\ IF c \in Policies(j) THEN ~desk.policy[j] /\ desk'.policy[j]
                    ELSE desk'.policy[j] = desk.policy[j] /\ desk'.switch[j] = desk.switch[j]
                 /\ c \notin Clears(j) /\ c \notin Without(j)
      <4>1. c \in Policies(j) <=> j = k
        BY <2>2, CommandClasses
      <4>2. c \notin Clears(j) /\ c \notin Without(j)
        BY <2>2, CommandClasses
      <4>3. desk'.policy[j] = (IF j = k THEN TRUE ELSE desk.policy[j])
        BY <1>1, <2>3, <2>6 DEF Desks
      <4>4. j # k => desk'.switch[j] = desk.switch[j]
        BY <1>1, <2>3, <2>6 DEF Desks
      <4> QED
        BY <2>5, <4>1, <4>2, <4>3, <4>4
    <3> QED
      BY <2>5, <2>6, <3>1, <3>2, <3>3, SendKeeps
  <2>7. CASE cmds' = cmds /\ desk' = [desk EXCEPT !.busy = FALSE]
    BY <2>5, <2>7, UnsentKeeps
  <2> QED
    BY <2>5, <2>6, <2>7 DEF Sent
<1>3. CASE PressClear(k)
  <2>1. PICK c \in LdCommands : c = [do |-> "clear", k |-> k]
    BY LiteralCommands
  <2>2. PICK d : d = [desk EXCEPT !.clear[k] = TRUE]
    OBVIOUS
  <2>3. Sent(c, d) /\ UNCHANGED <<kept, doing, asked, evs>>
    BY <1>3, <2>1, <2>2 DEF PressClear
  <2>4. CASE cmds' = Append(cmds, c) /\ desk' = d
    <3>1. desk' \in Desks
      BY <1>1, <2>2, <2>4 DEF Desks
    <3>2. /\ UNCHANGED <<desk.ok, desk.on, desk.switch, desk.count, desk.policy, desk.warn>>
          /\ UNCHANGED <<desk.unread, desk.misanswered>>
          /\ \A j \in Logs : j # k => desk'.clear[j] = desk.clear[j]
      BY <1>1, <2>2, <2>4 DEF Desks
    <3>3. \A j \in Logs : c \notin Policies(j) /\ c \notin Without(j) /\ (c \in Clears(j) <=> j = k)
      BY <2>1, CommandClasses
    <3> QED
      BY <2>3, <2>4, <3>1, <3>2, <3>3, SendKeeps
  <2>5. CASE cmds' = cmds /\ desk' = [desk EXCEPT !.busy = FALSE]
    BY <2>3, <2>5, UnsentKeeps
  <2> QED
    BY <2>3, <2>4, <2>5 DEF Sent
<1> QED
  BY <1>2, <1>3

\* A text or a document is submitted.
LEMMA SubmitKeeps ==
  ASSUME LdInv, ClickDocument \/ \E i \in Entries : SubmitText(i)
  PROVE  LdInv'
<1>1. LdTypes /\ desk \in Desks
  BY DEF LdInv, LdTypes
<1>2. PICK d : d = [desk EXCEPT !.busy = TRUE]
  OBVIOUS
<1>3. ASSUME NEW c \in LdCommands, Sent(c, d), UNCHANGED <<kept, doing, asked, evs>>,
             c.do \in {"translate", "document"},
             \A k \in Logs : c \in Without(k) => ~desk.policy[k] /\ ~desk.switch[k]
      PROVE  LdInv'
  <2>1. CASE cmds' = Append(cmds, c) /\ desk' = d
    <3>1. desk' \in Desks
      BY <1>1, <1>2, <2>1 DEF Desks
    <3>2. /\ UNCHANGED <<desk.ok, desk.on, desk.switch, desk.count, desk.policy, desk.clear, desk.warn>>
          /\ UNCHANGED <<desk.unread, desk.misanswered>>
      BY <1>1, <1>2, <2>1 DEF Desks
    <3>3. \A k \in Logs : c \notin Policies(k) /\ c \notin Clears(k)
      BY <1>3, CommandClasses
    <3> QED
      BY <1>3, <2>1, <3>1, <3>2, <3>3, SendKeeps
  <2>2. CASE cmds' = cmds /\ desk' = [desk EXCEPT !.busy = FALSE]
    BY <1>3, <2>2, UnsentKeeps
  <2> QED
    BY <1>3, <2>1, <2>2 DEF Sent
<1>4. ASSUME NEW i \in Entries, SubmitText(i)
      PROVE  LdInv'
  <2>1. PICK on : on = {k \in Logs : desk.switch[k] \/ desk.policy[k]}
    OBVIOUS
  <2>2. PICK c : c = [do |-> "translate", item |-> i, incognito |-> desk.incognito, route |-> desk.chosen,
                      logged |-> on]
    OBVIOUS
  <2>3. c \in LdCommands
    <3>1. c \in Requests
      BY <1>1, <2>1, <2>2 DEF Requests, Desks
    <3> QED
      BY <3>1 DEF LdCommands
  <2>4. Sent(c, d) /\ UNCHANGED <<kept, doing, asked, evs>>
    BY <1>2, <1>4, <2>1, <2>2 DEF SubmitText
  <2>5. c.do = "translate" /\ c.logged = on
    BY <2>2
  <2>6. \A k \in Logs : c \in Without(k) => ~desk.policy[k] /\ ~desk.switch[k]
    BY <2>1, <2>3, <2>5, CommandClasses
  <2> QED
    BY <1>3, <2>3, <2>4, <2>5, <2>6
<1>5. CASE ClickDocument
  <2>1. PICK c \in LdCommands : c = [do |-> "document"]
    BY LiteralCommands
  <2>2. Sent(c, d) /\ UNCHANGED <<kept, doing, asked, evs>>
    BY <1>2, <1>5, <2>1 DEF ClickDocument
  <2>3. c.do = "document" /\ \A k \in Logs : c \notin Without(k)
    BY <2>1, CommandClasses
  <2> QED
    BY <1>3, <2>2, <2>3
<1> QED
  BY <1>4, <1>5

\* A dialog closes, or something is chosen that only the window knows.
LEMMA WindowOnlyKeeps ==
  ASSUME LdInv, ToggleIncognito \/ CloseDialog \/ \E i \in Entries : UseRoutingRow(i)
  PROVE  LdInv'
<1>1. desk \in Desks
  BY DEF LdInv, LdTypes
<1>2. UNCHANGED <<kept, doing, asked, cmds, evs>>
  BY DEF ToggleIncognito, CloseDialog, UseRoutingRow
<1>3. DeskAsWas
  <2>1. CASE ToggleIncognito
    <3>1. PICK b \in BOOLEAN : b = ~desk.incognito
      BY <1>1, Zenon DEF Desks
    <3>2. desk' = [desk EXCEPT !.incognito = b]
      BY <2>1, <3>1 DEF ToggleIncognito
    <3> QED
      BY <1>1, <3>2 DEF Desks, DeskAsWas
  <2>2. CASE CloseDialog
    BY <1>1, <2>2 DEF CloseDialog, DeskAsWas
  <2>3. ASSUME NEW i \in Entries, UseRoutingRow(i)
        PROVE  DeskAsWas
    BY <1>1, <2>3 DEF UseRoutingRow, Desks, DeskAsWas
  <2> QED
    BY <2>1, <2>2, <2>3
<1> QED
  BY <1>2, <1>3, DeskKeeps

---------------------------------------------------------------------------
(* What the window makes of an event.                                      *)

\* d is the desk after e, as far as the invariant asks.
Effect(d, e, k) ==
  /\ d.ok => e \in Restores \/ (desk.ok /\ e \notin Losses)
  /\ IF e \in Reads(k) \cup Updates(k) THEN d.on[k] = e.on /\ d.switch[k] = e.on
     ELSE /\ d.on[k] = desk.on[k]
          /\ IF e \in Answers(k) THEN d.switch[k] = desk.on[k]
             ELSE e \in Losses \/ d.switch[k] = desk.switch[k]
  /\ d.policy[k] => desk.policy[k] /\ e \notin Answers(k)
  /\ desk.policy[k] => d.policy[k] \/ e \in Answers(k) \cup Losses
  /\ d.clear[k] => desk.clear[k] /\ e \notin ClearAnswers(k)
  /\ e \notin Counts(k) => d.warn[k] = desk.warn[k] /\ d.count[k] = desk.count[k]
  /\ e \in Counts(k) =>
       /\ e.ev = "LogRestored" => d.count[k] = e.count /\ (e.failed => d.warn[k])
       /\ e.ev = "HistoryUpdated" => d.count[k] = e.count
       /\ e.ev = "Cleared" => d.count[k] = 0
       /\ e.ev = "Listed" => d.count[k] = Cardinality(e.items)
       /\ e.ev = "PersistenceFailed" => d.warn[k]
  /\ e \in Reads(k) /\ e.failed => k \in d.unread
  /\ e \notin Reads(k) \cup Updates(k) /\ k \in desk.unread => k \in d.unread
  /\ desk.misanswered \/ e \in Misanswers("policy") \cup Misanswers("clear") => d.misanswered

\* Applied has the effect of its event on each log.
LEMMA AppliedFacts ==
  ASSUME desk \in Desks, NEW e \in LdEvents
  PROVE  Applied(e) \in Desks /\ \A k \in Logs : Effect(Applied(e), e, k)
<1> DEFINE d == Applied(e)
<1> HIDE DEF d
<1>0. /\ desk.busy \in BOOLEAN /\ desk.misanswered \in BOOLEAN
      /\ \A k \in Logs : desk.warn[k] \in BOOLEAN
  BY DEF Desks
<1>1. CASE e.ev = "Ready"
  <2>1. d = [desk EXCEPT !.ready = TRUE]
    BY <1>1 DEF d, Applied
  <2>2. d \in Desks
    BY <2>1 DEF Desks
  <2> QED
    BY <1>1, <2>1, <2>2, Classes DEF d, Effect, Desks
<1>2. CASE e.ev = "Restored"
  <2>1. d = [desk EXCEPT !.ok = TRUE]
    BY <1>2 DEF d, Applied
  <2>2. d \in Desks
    BY <2>1 DEF Desks
  <2> QED
    BY <1>2, <2>1, <2>2, Classes DEF d, Effect, Desks
<1>3. CASE e.ev = "LogRestored"
  <2>1. e.k \in Logs /\ e.failed \in BOOLEAN /\ e.count \in Nat /\ e.on \in BOOLEAN
    BY <1>3, EventFacts
  <2>2. PICK w \in BOOLEAN : w = (desk.warn[e.k] \/ e.failed)
    BY Zenon
  <2>3. PICK u \in SUBSET Logs : u = IF e.failed THEN desk.unread \cup {e.k} ELSE desk.unread
    BY <2>1 DEF Desks
  <2>4. d = [desk EXCEPT !.count[e.k] = e.count, !.on[e.k] = e.on, !.switch[e.k] = e.on,
                         !.warn[e.k] = w, !.unread = u]
    BY <1>3, <2>2, <2>3 DEF d, Applied
  <2>5. d \in Desks
    BY <2>1, <2>4 DEF Desks
  <2>6. ASSUME NEW k \in Logs
        PROVE  Effect(d, e, k)
    <3>1. e.failed => w
      BY <2>2
    <3> QED
      BY <1>3, <2>1, <2>3, <2>4, <2>5, <3>1, Classes DEF Effect, Desks
  <2> QED
    BY <2>5, <2>6 DEF d
<1>4. CASE e.ev = "Unavailable"
  <2>1. d = [desk EXCEPT !.ok = FALSE, !.busy = FALSE, !.policy["history"] = FALSE,
                         !.switch = [k \in Logs |-> FALSE]]
    BY <1>4 DEF d, Applied
  <2>2. d \in Desks
    BY <2>1 DEF Desks
  <2>3. ASSUME NEW k \in Logs
        PROVE  Effect(d, e, k)
    <3>1. /\ e \in Losses /\ e \notin Reads(k) \cup Updates(k) \cup Answers(k) \cup ClearAnswers(k) \cup Counts(k)
          /\ e \notin Misanswers("policy") \cup Misanswers("clear")
      BY <1>4, Classes
    <3>2. /\ ~d.ok /\ d.on = desk.on /\ d.warn = desk.warn /\ d.count = desk.count /\ d.clear = desk.clear
          /\ d.unread = desk.unread /\ d.misanswered = desk.misanswered /\ (d.policy[k] => desk.policy[k])
      BY <2>1, <2>2 DEF Desks
    <3> QED
      BY <3>1, <3>2 DEF Effect
  <2> QED
    BY <2>2, <2>3 DEF d
<1>5. CASE e.ev = "PolicyUpdated"
  <2>1. e.k \in Logs /\ e.on \in BOOLEAN
    BY <1>5, EventFacts
  <2>2. d = [desk EXCEPT !.policy[e.k] = FALSE, !.on[e.k] = e.on, !.switch[e.k] = e.on,
                         !.unread = @ \ {e.k}]
    BY <1>5 DEF d, Applied
  <2>3. d \in Desks
    BY <2>1, <2>2 DEF Desks
  <2> QED
    BY <1>5, <2>1, <2>2, <2>3, Classes DEF d, Effect, Desks
<1>6. CASE e.ev = "PolicyRejected"
  <2>1. e.k \in Logs
    BY <1>6, EventFacts
  <2>2. d = [desk EXCEPT !.policy[e.k] = FALSE, !.switch[e.k] = desk.on[e.k], !.busy = FALSE]
    BY <1>6 DEF d, Applied, PolicyRejected
  <2>3. d \in Desks
    BY <2>1, <2>2 DEF Desks
  <2> QED
    BY <1>6, <2>1, <2>2, <2>3, Classes DEF d, Effect, Desks
<1>7. CASE e.ev = "Cleared"
  <2>1. e.k \in Logs
    BY <1>7, EventFacts
  <2>2. d = [desk EXCEPT !.clear[e.k] = FALSE, !.count[e.k] = 0, !.warn[e.k] = FALSE]
    BY <1>7 DEF d, Applied
  <2>3. d \in Desks
    BY <2>1, <2>2 DEF Desks
  <2>4. ASSUME NEW k \in Logs
        PROVE  Effect(d, e, k)
    <3>1. /\ e \notin Losses \cup Reads(k) \cup Updates(k) \cup Answers(k)
          /\ e \notin Misanswers("policy") \cup Misanswers("clear")
          /\ (e \in Counts(k) <=> e.k = k) /\ (e \in ClearAnswers(k) <=> e.k = k)
      BY <1>7, Classes
    <3>2. /\ d.ok = desk.ok /\ d.on = desk.on /\ d.switch = desk.switch /\ d.policy = desk.policy
          /\ d.unread = desk.unread /\ d.misanswered = desk.misanswered
          /\ IF e.k = k THEN ~d.clear[k] /\ d.count[k] = 0
             ELSE d.clear[k] = desk.clear[k] /\ d.count[k] = desk.count[k] /\ d.warn[k] = desk.warn[k]
      <4>1. /\ d.clear = [desk.clear EXCEPT ![e.k] = FALSE] /\ d.count = [desk.count EXCEPT ![e.k] = 0]
            /\ d.warn = [desk.warn EXCEPT ![e.k] = FALSE]
            /\ d.ok = desk.ok /\ d.on = desk.on /\ d.switch = desk.switch /\ d.policy = desk.policy
            /\ d.unread = desk.unread /\ d.misanswered = desk.misanswered
        BY <2>1, <2>2 DEF Desks
      <4>2. desk.clear \in [Logs -> BOOLEAN] /\ desk.count \in [Logs -> Nat] /\ desk.warn \in [Logs -> BOOLEAN]
        BY DEF Desks
      <4> QED
        BY <2>1, <4>1, <4>2
    <3> QED
      BY <1>7, <2>1, <3>1, <3>2 DEF Effect
  <2> QED
    BY <2>3, <2>4 DEF d
<1>8. CASE e.ev = "ClearRejected"
  <2>1. e.k \in Logs
    BY <1>8, EventFacts
  <2>2. d = [desk EXCEPT !.clear[e.k] = FALSE, !.busy = FALSE]
    BY <1>8 DEF d, Applied
  <2>3. d \in Desks
    BY <2>1, <2>2 DEF Desks
  <2> QED
    BY <1>8, <2>1, <2>2, <2>3, Classes DEF d, Effect, Desks
<1>9. CASE e.ev = "HistoryUpdated"
  <2>1. e.count \in Nat
    BY <1>9, EventFacts
  <2>2. d = [desk EXCEPT !.count["history"] = e.count, !.warn["history"] = FALSE]
    BY <1>9 DEF d, Applied
  <2>3. d \in Desks
    BY <2>1, <2>2 DEF Desks
  <2>4. ASSUME NEW k \in Logs
        PROVE  Effect(d, e, k)
    <3>1. /\ e \notin Losses \cup Reads(k) \cup Updates(k) \cup Answers(k) \cup ClearAnswers(k)
          /\ e \notin Misanswers("policy") \cup Misanswers("clear")
          /\ (e \in Counts(k) <=> k = "history")
      BY <1>9, Classes
    <3>2. /\ d.ok = desk.ok /\ d.on = desk.on /\ d.switch = desk.switch /\ d.policy = desk.policy
          /\ d.unread = desk.unread /\ d.misanswered = desk.misanswered /\ d.clear = desk.clear
          /\ IF k = "history" THEN d.count[k] = e.count
             ELSE d.count[k] = desk.count[k] /\ d.warn[k] = desk.warn[k]
      BY <2>1, <2>2, <2>3 DEF Desks
    <3> QED
      BY <1>9, <2>1, <3>1, <3>2 DEF Effect
  <2> QED
    BY <2>3, <2>4 DEF d
<1>10. CASE e.ev = "PersistenceFailed"
  <2>1. e.k \in Logs
    BY <1>10, EventFacts
  <2>2. d = [desk EXCEPT !.warn[e.k] = TRUE, !.clear[e.k] = FALSE]
    BY <1>10 DEF d, Applied
  <2>3. d \in Desks
    BY <2>1, <2>2 DEF Desks
  <2>4. ASSUME NEW k \in Logs
        PROVE  Effect(d, e, k)
    <3>1. /\ e \notin Losses \cup Reads(k) \cup Updates(k) \cup Answers(k) \cup ClearAnswers(k)
          /\ e \notin Misanswers("policy") \cup Misanswers("clear")
          /\ (e \in Counts(k) <=> e.k = k)
      BY <1>10, Classes
    <3>2. /\ d.ok = desk.ok /\ d.on = desk.on /\ d.switch = desk.switch /\ d.policy = desk.policy
          /\ d.unread = desk.unread /\ d.misanswered = desk.misanswered /\ d.count = desk.count
      BY <2>2 DEF Desks
    <3>3. d.clear[k] => desk.clear[k]
      BY <2>1, <2>2 DEF Desks
    <3>4. IF e.k = k THEN d.warn[k] ELSE d.warn[k] = desk.warn[k]
      BY <2>1, <2>2 DEF Desks
    <3> QED
      BY <1>10, <2>1, <3>1, <3>2, <3>3, <3>4 DEF Effect
  <2> QED
    BY <2>3, <2>4 DEF d
<1>11. CASE e.ev = "Listed" /\ e.k \in Logs
  <2>1. PICK n \in Nat : n = Cardinality(e.items)
    BY <1>11, EventNumbers
  <2>2. d = [desk EXCEPT !.count[e.k] = n]
    BY <1>11, <2>1 DEF d, Applied
  <2>3. d \in Desks
    BY <1>11, <2>1, <2>2 DEF Desks
  <2>4. ASSUME NEW k \in Logs
        PROVE  Effect(d, e, k)
    <3>1. /\ e \notin Losses \cup Reads(k) \cup Updates(k) \cup Answers(k) \cup ClearAnswers(k)
          /\ e \notin Misanswers("policy") \cup Misanswers("clear")
          /\ (e \in Counts(k) <=> e.k = k)
      BY <1>11, Classes
    <3>2. /\ d.ok = desk.ok /\ d.on = desk.on /\ d.switch = desk.switch /\ d.policy = desk.policy
          /\ d.unread = desk.unread /\ d.misanswered = desk.misanswered /\ d.clear = desk.clear
          /\ d.warn = desk.warn /\ d.count[k] = IF e.k = k THEN Cardinality(e.items) ELSE desk.count[k]
      BY <1>11, <2>1, <2>2, <2>3 DEF Desks
    <3> QED
      BY <1>11, <2>1, <3>1, <3>2 DEF Effect
  <2> QED
    BY <2>3, <2>4 DEF d
<1>12. CASE e.ev = "Listed" /\ e.k \notin Logs
  <2>1. d = desk
    BY <1>12 DEF d, Applied
  <2> QED
    BY <1>12, <2>1, Classes DEF d, Effect
<1>13. CASE e.ev = "Deleted"
  <2>1. PICK c \in Entries \cup {"none"} :
          c = IF e.k = "routing" /\ desk.chosen = e.item THEN "none" ELSE desk.chosen
    BY DEF Desks
  <2>2. d = [desk EXCEPT !.chosen = c]
    BY <1>13, <2>1 DEF d, Applied, Desks
  <2>3. d \in Desks
    BY <2>2 DEF Desks
  <2> QED
    BY <1>13, <2>2, <2>3, Classes DEF d, Effect, Desks
<1>14. CASE e.ev \in {"ActionRejected", "Rejected", "DocumentEnded"}
  <2>1. d = [desk EXCEPT !.busy = FALSE]
    BY <1>14 DEF d, Applied
  <2>2. d \in Desks
    BY <2>1 DEF Desks
  <2> QED
    BY <1>14, <2>1, <2>2, Classes DEF d, Effect, Desks
<1>15. CASE e.ev = "DocumentRejected"
  <2>1. PICK b \in BOOLEAN : b = (desk.misanswered \/ e.of \in {"policy", "clear"})
    <3>1. (e.of \in {"policy", "clear"}) \in BOOLEAN
      OBVIOUS
    <3> QED
      BY <1>0, <3>1, Zenon
  <2>2. d = [desk EXCEPT !.busy = FALSE, !.misanswered = b]
    BY <1>15, <2>1 DEF d, Applied
  <2>3. d \in Desks
    BY <2>2 DEF Desks
  <2>4. desk.misanswered \/ e.of = "policy" \/ e.of = "clear" => b
    BY <2>1
  <2> QED
    BY <1>15, <2>2, <2>3, <2>4, Classes DEF d, Effect, Desks
<1>16. CASE e.ev = "DocumentRunning"
  <2>1. d = [desk EXCEPT !.busy = TRUE]
    BY <1>16 DEF d, Applied
  <2>2. d \in Desks
    BY <2>1 DEF Desks
  <2> QED
    BY <1>16, <2>1, <2>2, Classes DEF d, Effect, Desks
<1>17. CASE e.ev = "TextEnded"
  <2>1. PICK b \in BOOLEAN : b = ~desk.busy
    BY <1>0, Zenon
  <2>2. d = [desk EXCEPT !.busy = b]
    BY <1>17, <2>1 DEF d, Applied
  <2>3. d \in Desks
    BY <2>2 DEF Desks
  <2> QED
    BY <1>17, <2>2, <2>3, Classes DEF d, Effect, Desks
<1>18. CASE e.ev \in {"Saved", "Exported"}
  <2>1. d = desk
    BY <1>18 DEF d, Applied
  <2> QED
    BY <1>18, <2>1, Classes DEF d, Effect
<1>19. e.ev \in {"Ready", "Restored", "LogRestored", "Unavailable", "PolicyUpdated", "PolicyRejected",
                "Cleared", "ClearRejected", "HistoryUpdated", "PersistenceFailed", "Listed", "Deleted",
                "ActionRejected", "Rejected", "DocumentEnded", "DocumentRejected", "DocumentRunning",
                "TextEnded", "Saved", "Exported"}
  BY DEF LdEvents
<1> QED
  BY <1>1, <1>2, <1>3, <1>4, <1>5, <1>6, <1>7, <1>8, <1>9, <1>10, <1>11, <1>12, <1>13, <1>14, <1>15,
     <1>16, <1>17, <1>18, <1>19

\* The first event is applied; a list may be asked for.
LEMMA ApplyKeeps ==
  ASSUME LdInv, ApplyEvent
  PROVE  LdInv'
<1> DEFINE e == Head(evs)
<1>1. /\ LdTypes /\ StorageOK /\ desk \in Desks /\ kept \in Databases /\ evs \in Seq(LdEvents) /\ evs # <<>>
      /\ cmds \in Seq(LdCommands)
  BY DEF LdInv, LdTypes, ApplyEvent
<1>2. evs' = Tail(evs) /\ UNCHANGED <<kept, doing, asked>>
  BY DEF ApplyEvent
<1>3. evs' \in Seq(LdEvents) /\ e \in LdEvents /\ Held(evs) = Held(evs') \cup {e}
  BY <1>1, <1>2, HeldTaken
<1>4. Applied(e) \in Desks /\ \A k \in Logs : Effect(Applied(e), e, k)
  BY <1>1, <1>3, AppliedFacts
<1>5. PICK c \in LdCommands : c = [do |-> "list", k |-> "routing"]
  BY LiteralCommands DEF Kinds, Libraries
<1>6. /\ cmds' = cmds \/ cmds' = Append(cmds, c)
      /\ desk' = Applied(e) \/ desk' = [Applied(e) EXCEPT !.busy = FALSE]
  BY <1>5 DEF ApplyEvent
<1>7. desk' \in Desks /\ \A k \in Logs : Effect(desk', e, k)
  <2>1. CASE desk' = Applied(e)
    BY <1>4, <2>1
  <2>2. CASE desk' = [Applied(e) EXCEPT !.busy = FALSE]
    <3>1. PICK d \in Desks : d = Applied(e)
      BY <1>4
    <3>2. desk' = [d EXCEPT !.busy = FALSE] /\ \A k \in Logs : Effect(d, e, k)
      BY <1>4, <2>2, <3>1
    <3>3. /\ desk' \in Desks /\ desk'.ok = d.ok /\ desk'.on = d.on /\ desk'.switch = d.switch
          /\ desk'.policy = d.policy /\ desk'.clear = d.clear /\ desk'.warn = d.warn
          /\ desk'.count = d.count /\ desk'.unread = d.unread /\ desk'.misanswered = d.misanswered
      BY <3>2 DEF Desks
    <3> QED
      BY <3>2, <3>3 DEF Effect
  <2> QED
    BY <1>6, <2>1, <2>2
<1>8. /\ cmds' \in Seq(LdCommands) /\ Held(cmds) \subseteq Held(cmds') /\ Held(cmds') \subseteq Held(cmds) \cup {c}
      /\ \A k : c \notin Policies(k) /\ c \notin Without(k)
  <2>1. c.do = "list"
    BY <1>5
  <2>2. \A k : c \notin Policies(k) /\ c \notin Without(k)
    BY <2>1 DEF Policies, Without
  <2>3. CASE cmds' = cmds
    BY <1>1, <2>2, <2>3
  <2>4. CASE cmds' = Append(cmds, c)
    BY <1>1, <2>2, <2>4, HeldAppended
  <2> QED
    BY <1>6, <2>3, <2>4
<1>9. \A k : e \in Updates(k) => e \in Answers(k)
  BY DEF Updates, Answers
<1>10. \A A, B : Before(evs, A, B) => Before(evs', A, B) /\ (e \in B => Held(evs) \cap A = {})
  BY <1>1, <1>2, BeforeTaken
<1>11. \A A : AtMostOne(evs, A) => AtMostOne(evs', A) /\ (e \in A => Held(evs') \cap A = {})
  BY <1>1, <1>2, AtMostOneTaken
<1>12. \A A, x : LastOf(evs', A, x) => LastOf(evs, A, x)
  BY <1>1, <1>2, LastOfTaken
<1>13. \A A : e \in A /\ Held(evs') \cap A = {} => LastOf(evs, A, e)
  BY <1>1, <1>2, LastOfTaken
<1> HIDE DEF e
<1>14. LdTypes'
  BY <1>1, <1>2, <1>3, <1>7, <1>8 DEF LdTypes
<1>15. StorageOK'
  <2>1. "history" \in Logs
    BY DEF Logs
  <2>2. ~kept.ok => Held(evs') \cap Losses # {} \/ (~desk'.ok /\ Held(evs') \cap Restores = {})
    BY <1>1, <1>3, <1>7, <1>10, <2>1 DEF StorageOK, Effect
  <2> QED
    BY <1>1, <1>2, <1>3, <1>10, <2>2 DEF StorageOK
<1>16. ASSUME NEW k \in Logs
       PROVE  FreedOK(k)'
  <2>1. FreedOK(k) /\ Effect(desk', e, k)
    BY <1>7 DEF LdInv
  <2>2. ASSUME desk'.policy[k]
        PROVE  \/ Held(cmds') \cap Policies(k) # {} \/ Held(evs') \cap Answers(k) # {}
               \/ Held(evs') \cap Misanswers("policy") # {} \/ desk'.misanswered
    BY <1>3, <1>8, <2>1, <2>2 DEF FreedOK, Effect
  <2>3. ASSUME desk'.clear[k]
        PROVE  \/ Held(cmds') \cap Clears(k) # {} \/ Held(evs') \cap ClearAnswers(k) # {}
               \/ Held(evs') \cap Misanswers("clear") # {} \/ desk'.misanswered
    BY <1>3, <1>8, <2>1, <2>3 DEF FreedOK, Effect
  <2> QED
    BY <2>2, <2>3 DEF FreedOK
<1>17. ASSUME NEW k \in Logs, kept'.ok
       PROVE  FlightOK(k)' /\ SwitchOK(k)' /\ TextOK(k)' /\ CountOK(k)'
  <2>1. FlightOK(k) /\ SwitchOK(k) /\ TextOK(k) /\ CountOK(k) /\ Effect(desk', e, k)
    BY <1>2, <1>7, <1>17 DEF LdInv
  <2>2. e \notin Losses
    BY <1>1, <1>2, <1>3, <1>17 DEF StorageOK
  <2>3. FlightOK(k)'
    <3>3. AtMostOne(cmds', Policies(k))
      <4>1. AtMostOne(cmds, Policies(k)) /\ c \notin Policies(k)
        BY <1>8, <2>1 DEF FlightOK
      <4>2. AtMostOne(Append(cmds, c), Policies(k))
        BY <1>1, <4>1, AtMostOneAppended
      <4> QED
        BY <1>6, <4>1, <4>2
    <3>4. AtMostOne(evs', Answers(k))
      BY <1>11, <2>1 DEF FlightOK
    <3>5. ~desk'.policy[k] => Held(cmds') \cap Policies(k) = {} /\ Held(evs') \cap Answers(k) = {}
      <4>1. CASE e \in Answers(k)
        BY <1>3, <1>8, <1>11, <2>1, <4>1 DEF FlightOK
      <4>2. CASE e \notin Answers(k)
        BY <1>3, <1>8, <2>1, <2>2, <4>2 DEF FlightOK, Effect
      <4> QED
        BY <4>1, <4>2
    <3>6. Held(cmds') \cap Policies(k) = {} \/ Held(evs') \cap Answers(k) = {}
      BY <1>3, <1>8, <2>1 DEF FlightOK
    <3> QED
      BY <3>3, <3>4, <3>5, <3>6 DEF FlightOK
  <2>4. SwitchOK(k)'
    <3>1. ~desk'.policy[k] => desk'.switch[k] = desk'.on[k]
      BY <1>9, <2>1, <2>2 DEF SwitchOK, Effect
    <3>2. Held(evs') \cap Reads(k) # {} => desk'.on[k]
      BY <1>3, <1>10, <1>11, <2>1 DEF SwitchOK, Effect
    <3>3. \A x \in Held(evs') \cap Updates(k) : kept'.on[k] = x.on
      BY <1>2, <1>3, <2>1 DEF SwitchOK
    <3>4. ASSUME Held(evs') \cap Updates(k) = {}
          PROVE  /\ \A x \in Held(evs') \cap Reads(k) : IF x.failed THEN x.on ELSE x.on = kept'.on[k]
                 /\ Held(evs') \cap Reads(k) = {} =>
                      desk'.on[k] = kept'.on[k] \/ (k \in desk'.unread /\ desk'.on[k])
      <4>1. CASE e \in Updates(k)
        <5>1. Held(evs') \cap Reads(k) = {} /\ kept.on[k] = e.on
          BY <1>3, <1>10, <2>1, <4>1 DEF SwitchOK
        <5>2. desk'.on[k] = e.on
          BY <2>1, <4>1 DEF Effect
        <5> QED
          BY <1>2, <5>1, <5>2
      <4>2. CASE e \notin Updates(k)
        <5>1. /\ \A x \in Held(evs) \cap Reads(k) : IF x.failed THEN x.on ELSE x.on = kept.on[k]
              /\ Held(evs) \cap Reads(k) = {} => desk.on[k] = kept.on[k] \/ (k \in desk.unread /\ desk.on[k])
          BY <1>3, <2>1, <3>4, <4>2 DEF SwitchOK
        <5>2. CASE e \in Reads(k)
          BY <1>2, <1>3, <2>1, <5>1, <5>2 DEF Effect
        <5>3. CASE e \notin Reads(k)
          BY <1>2, <1>3, <2>1, <4>2, <5>1, <5>3 DEF Effect
        <5> QED
          BY <5>2, <5>3
      <4> QED
        BY <4>1, <4>2
    <3>5. Before(evs', Reads(k), Updates(k)) /\ AtMostOne(evs', Reads(k))
      BY <1>10, <1>11, <2>1 DEF SwitchOK
    <3> QED
      BY <3>1, <3>2, <3>3, <3>4, <3>5 DEF SwitchOK
  <2>5. TextOK(k)'
    <3>1. Before(cmds', Without(k), Policies(k))
      <4>1. Before(cmds, Without(k), Policies(k)) /\ c \notin Without(k)
        BY <1>8, <2>1 DEF TextOK
      <4>2. Before(Append(cmds, c), Without(k), Policies(k))
        BY <1>1, <4>1, BeforeAppended
      <4> QED
        BY <1>6, <4>1, <4>2
    <3> QED
      BY <1>2, <1>8, <2>1, <3>1 DEF TextOK
  <2>6. CountOK(k)'
    <3>1. \A x : Right(k, x)' <=> Right(k, x)
      BY <1>2 DEF Right, Good, Count
    <3>2. \A n : Good(k, n)' <=> Good(k, n)
      BY <1>2 DEF Good, Count
    <3>3. ASSUME Held(evs') \cap Counts(k) = {}
          PROVE  desk'.warn[k] \/ Good(k, desk'.count[k])
      <4>1. CASE e \in Counts(k)
        <5>1. Right(k, e)
          BY <1>3, <1>13, <2>1, <3>3, <4>1 DEF CountOK
        <5>2. e.ev \in {"LogRestored", "HistoryUpdated", "Cleared", "Listed", "PersistenceFailed"}
          BY <4>1 DEF Counts
        <5> QED
          BY <2>1, <4>1, <5>1, <5>2 DEF Right, Effect
      <4>2. CASE e \notin Counts(k)
        BY <1>3, <2>1, <3>3, <4>2 DEF CountOK, Effect
      <4> QED
        BY <4>1, <4>2
    <3>4. PICK n : n = desk'.count[k]
      OBVIOUS
    <3>5. Held(evs') \cap Counts(k) = {} => desk'.warn[k] \/ Good(k, n)'
      BY <3>2, <3>3, <3>4
    <3>6. \A x \in Held(evs') : LastOf(evs', Counts(k), x) => Right(k, x)'
      BY <1>3, <1>12, <2>1, <3>1 DEF CountOK
    <3> QED
      BY <3>4, <3>5, <3>6 DEF CountOK
  <2> QED
    BY <2>3, <2>4, <2>5, <2>6
<1> QED
  BY <1>14, <1>15, <1>16, <1>17 DEF LdInv

---------------------------------------------------------------------------
\* Every step keeps the invariant, or starts the application again.
LEMMA LdStep ==
  ASSUME LdInv, [LdNext]_ldVars
  PROVE  LdInv' \/ Started'
<1>0. /\ "history" \in Logs /\ "memory" \in Logs /\ "glossary" \in Libraries /\ "routing" \in Libraries
      /\ Logs \subseteq Kinds /\ Libraries \subseteq Kinds
  BY DEF Logs, Libraries, Kinds
<1>1. CASE LdWindow
  <2>1. CASE ToggleHistory \/ ToggleMemory \/ ClickClearHistory \/ ClickClearMemory
    BY <1>0, <2>1, ControlKeeps DEF ToggleHistory, ToggleMemory, ClickClearHistory, ClickClearMemory
  <2>3. CASE ClickHistory \/ ClickMemory \/ ClickGlossaries \/ ClickRouting
    BY <1>0, <2>3, ClickListKeeps DEF ClickHistory, ClickMemory, ClickGlossaries, ClickRouting
  <2>4. CASE ToggleIncognito \/ CloseDialog
    BY <2>4, WindowOnlyKeeps
  <2>5. CASE ClickDocument
    BY <2>5, SubmitKeeps
  <2>6. ASSUME NEW i \in Entries, NEW b \in BOOLEAN,
               \/ SaveGlossaryAs(i) \/ SubmitText(i)
               \/ DeleteHistoryRow(i) \/ DeleteMemoryRow(i) \/ DeleteGlossaryRow(i) \/ DeleteRoutingRow(i)
               \/ UseRoutingRow(i) \/ ExportRoutingRow(i) \/ SaveRoutingRow(i, b) \/ ImportRoutingFile(i, b)
        PROVE  LdInv'
    <3>1. CASE SubmitText(i)
      BY <3>1, SubmitKeeps
    <3>2. CASE UseRoutingRow(i)
      BY <3>2, WindowOnlyKeeps
    <3>3. ASSUME NEW k \in Kinds, DialogDelete(k, i)
          PROVE  LdInv'
      BY <3>3, OrdersKeep
    <3>4. CASE DeleteHistoryRow(i) \/ DeleteMemoryRow(i) \/ DeleteGlossaryRow(i) \/ DeleteRoutingRow(i)
      BY <1>0, <3>3, <3>4 DEF DeleteHistoryRow, DeleteMemoryRow, DeleteGlossaryRow, DeleteRoutingRow
    <3>5. CASE SaveGlossaryAs(i) \/ ExportRoutingRow(i) \/ SaveRoutingRow(i, b) \/ ImportRoutingFile(i, b)
      BY <1>0, <3>5, OrdersKeep
    <3> QED
      BY <2>6, <3>1, <3>2, <3>4, <3>5
  <2> QED
    BY <1>1, <2>1, <2>3, <2>4, <2>5, <2>6 DEF LdWindow
<1>2. CASE LdWorker
  <2>1. CASE SetTranslationHistoryEnabled \/ SetTranslationMemoryEnabled
    BY <1>0, <2>1, SetKeeps DEF SetTranslationHistoryEnabled, SetTranslationMemoryEnabled
  <2>2. CASE \/ ClearTranslationHistory \/ ClearTranslationMemory
             \/ DeleteTranslationHistory \/ DeleteTranslationMemory
    BY <1>0, <2>2, LogChangeKeeps
    DEF ClearTranslationHistory, ClearTranslationMemory, DeleteTranslationHistory, DeleteTranslationMemory
  <2>3. CASE ListTranslationHistory \/ ListTranslationMemory \/ ListGlossaries \/ ListRoutingProfiles
    BY <1>0, <2>3, ListKeeps
    DEF ListTranslationHistory, ListTranslationMemory, ListGlossaries, ListRoutingProfiles
  <2>4. CASE \/ DeleteGlossary \/ DeleteRoutingProfile \/ SaveGlossary \/ SaveRoutingProfile
             \/ ExportRoutingProfile \/ ImportRoutingProfile
    BY <1>0, <2>4, RecordKeeps DEF DeleteGlossary, DeleteRoutingProfile, SaveGlossary, SaveRoutingProfile
  <2>5. CASE RejectedWhenIdle \/ RejectedByText \/ RejectedByDocuments
    BY <2>5, RefusalKeeps
  <2>6. CASE TakeTranslate \/ TakeDocument \/ \E last \in BOOLEAN : DocumentEvent(last)
    BY <2>6, TakenKeepsLd
  <2>7. CASE LoseStorage
    BY <2>7, LossKeeps
  <2>8. CASE \E c \in BOOLEAN, failed \in SUBSET Logs : TextEnds(c, failed)
    BY <2>8, TextKeeps
  <2> QED
    BY <1>2, <2>1, <2>2, <2>3, <2>4, <2>5, <2>6, <2>7, <2>8 DEF LdWorker
<1>3. CASE ApplyEvent
  BY <1>3, ApplyKeeps
<1>4. CASE LdRestart
  <2>1. PICK ok \in BOOLEAN, failed \in SUBSET Logs :
          kept' = [kept EXCEPT !.ok = ok] /\ evs' = Startup(kept', failed)
    BY <1>4 DEF LdRestart
  <2>2. kept' \in Databases
    BY <2>1 DEF LdInv, LdTypes, Databases
  <2> QED
    BY <1>4, <2>1, <2>2 DEF LdRestart, Started
<1>5. CASE UNCHANGED ldVars
  <2>1. DeskAsWas /\ UNCHANGED <<kept, doing, asked, cmds, evs>>
    BY <1>5 DEF ldVars, DeskAsWas, LdInv, LdTypes
  <2> QED
    BY <2>1, DeskKeeps
<1> QED
  BY <1>1, <1>2, <1>3, <1>4, <1>5 DEF LdNext

\* The invariant of the local data holds at all times.
THEOREM LdInvariant == LdSpec => []LdInv
<1>1. LdInit => Started
  <2> SUFFICES ASSUME LdInit
               PROVE  Started
    OBVIOUS
  <2>1. kept \in Databases
    BY SMTT(30) DEF LdInit, LdStart, Databases, Kinds
  <2>2. {} \in SUBSET Logs
    OBVIOUS
  <2> QED
    BY <2>1, <2>2 DEF LdInit, Started
<1>2. Started => LdInv
  BY StartedInv
<1>3. LdInv /\ [LdNext]_ldVars => LdInv' \/ Started'
  BY LdStep
<1> QED
  BY <1>1, <1>2, <1>3, PTL DEF LdSpec

\* main.rs, the waiting flags of the switches and of the Clear buttons: a control that waits
\* has its command in the queue or its answer on the way, or documents have refused it.
THEOREM ControlsAreFreed == LdSpec => []ControlsFreed
<1>1. ASSUME LdInv
      PROVE  ControlsFreed
  <2>1. cmds \in Seq(LdCommands) /\ evs \in Seq(LdEvents)
    BY <1>1 DEF LdInv, LdTypes
  <2>2. DOMAIN cmds = 1..Len(cmds) /\ DOMAIN evs = 1..Len(evs)
    BY <2>1
  <2>3. ASSUME NEW k \in Logs
        PROVE  /\ desk.policy[k] => Waiting(k, "policy", {"PolicyUpdated", "PolicyRejected"})
               /\ desk.clear[k] => Waiting(k, "clear", {"Cleared", "ClearRejected"})
    <3>1. FreedOK(k)
      BY <1>1 DEF LdInv
    <3>2. desk.policy[k] => Waiting(k, "policy", {"PolicyUpdated", "PolicyRejected"})
      BY <2>2, <3>1 DEF FreedOK, Held, Waiting, Policies, Answers, Misanswers
    <3>3. desk.clear[k] => Waiting(k, "clear", {"Cleared", "ClearRejected"})
      BY <2>2, <3>1 DEF FreedOK, Held, Waiting, Clears, ClearAnswers, Misanswers
    <3> QED
      BY <3>2, <3>3
  <2> QED
    BY <2>3 DEF ControlsFreed
<1> QED
  BY <1>1, LdInvariant, PTL

\* main.rs and worker.rs, the history and memory policies: when nothing is under way, the window
\* shows the switches and the counts of the database, or a warning that it may not.
THEOREM LogsAreShown == LdSpec => []LogsShown
<1>1. ASSUME LdInv
      PROVE  LogsShown
  <2>1. SUFFICES ASSUME Quiet, NEW k \in Logs \ desk.unread
                 PROVE  /\ ~desk.misanswered => desk.switch[k] = kept.on[k]
                        /\ desk.on[k] = kept.on[k]
                        /\ desk.warn[k] \/ desk.count[k] <= Count(k)
                        /\ desk.warn["history"] \/ desk.count["history"] = Count("history")
    BY DEF LogsShown
  <2>2. Held(cmds) = {} /\ Held(evs) = {} /\ desk.ok
    BY <2>1 DEF Quiet, Held
  <2>3. kept.ok
    BY <1>1, <2>2 DEF LdInv, StorageOK
  <2>4. "history" \in Logs
    BY DEF Logs
  <2>5. FreedOK(k) /\ SwitchOK(k) /\ CountOK(k) /\ CountOK("history")
    BY <1>1, <2>1, <2>3, <2>4 DEF LdInv
  <2>6. desk.on[k] = kept.on[k]
    BY <2>1, <2>2, <2>5 DEF SwitchOK
  <2>7. ~desk.misanswered => desk.switch[k] = kept.on[k]
    BY <2>2, <2>5, <2>6 DEF SwitchOK, FreedOK
  <2>8. desk.warn["history"] \/ desk.count["history"] = Count("history")
    BY <2>2, <2>5 DEF CountOK, Good
  <2>9. desk.warn[k] \/ desk.count[k] <= Count(k)
    <3>1. Count(k) \in Nat
      BY <1>1, <2>1, CountsAreNumbers DEF Count, LdInv, LdTypes, Databases, Kinds
    <3> QED
      BY <2>2, <2>5, <3>1 DEF CountOK, Good
  <2> QED
    BY <2>6, <2>7, <2>8, <2>9
<1> QED
  BY <1>1, LdInvariant, PTL

\* Only a text that ends writes to a log while one runs, and only where it was allowed to.
LEMMA RecordsAsAllowed ==
  ASSUME LdInv, [LdNext]_ldVars, NEW k \in Logs, doing = "text", kept'.items[k] # kept.items[k]
  PROVE  k \in asked.logged /\ ~asked.incognito
<1>1. CASE \E c \in BOOLEAN, failed \in SUBSET Logs : TextEnds(c, failed)
  <2>1. PICK c \in BOOLEAN, failed \in SUBSET Logs : TextEnds(c, failed)
    BY <1>1
  <2>2. PICK rec : rec = IF c /\ ~asked.incognito /\ kept.ok THEN {j \in Logs : kept.on[j]} ELSE {}
    OBVIOUS
  <2>3. PICK its : its = [j \in Kinds |-> IF j \in rec \ failed THEN kept.items[j] \cup {asked.item}
                                          ELSE kept.items[j]]
    OBVIOUS
  <2>4. kept' = [kept EXCEPT !.items = its]
    BY <2>1, <2>2, <2>3 DEF TextEnds, Kinds
  <2>5. kept'.items = its
    BY <2>4 DEF LdInv, LdTypes, Databases
  <2>6. k \in rec
    BY <2>3, <2>5 DEF Kinds
  <2>7. ~asked.incognito /\ kept.ok /\ kept.on[k]
    BY <2>2, <2>6
  <2> QED
    BY <2>7 DEF LdInv, TextOK
<1>2. CASE ~(\E c \in BOOLEAN, failed \in SUBSET Logs : TextEnds(c, failed))
  <2>1. ~(\E j \in Kinds : \/ SetEnabled(j) \/ Clear(j) \/ List(j) \/ DeleteEntry(j)
                           \/ DeleteRecord(j) \/ SaveRecord(j))
    BY DEF SetEnabled, Clear, List, DeleteEntry, DeleteRecord, SaveRecord, Done
  <2>2. ~LdWindow
    BY DEF LdWindow, ToggleHistory, ToggleMemory, TogglePolicy, ClickClearHistory, ClickClearMemory,
           PressClear, ClickHistory, ClickMemory, ClickGlossaries, ClickRouting, ClickList,
           ToggleIncognito, ClickDocument, CloseDialog, SaveGlossaryAs, SubmitText, DeleteHistoryRow,
           DeleteMemoryRow, DeleteGlossaryRow, DeleteRoutingRow, DialogDelete, UseRoutingRow,
           ExportRoutingRow, SaveRoutingRow, ImportRoutingFile
  <2>3. ~ApplyEvent /\ ~UNCHANGED ldVars
    BY DEF ApplyEvent, ldVars
  <2>4. ~LdRestart
    <3>1. kept \in Databases
      BY DEF LdInv, LdTypes
    <3> QED
      BY <3>1 DEF LdRestart, Databases
  <2>5. LdWorker
    BY <2>2, <2>3, <2>4 DEF LdNext
  <2>6. Logs \subseteq Kinds /\ Libraries \subseteq Kinds
    BY DEF Kinds
  <2> QED
    BY <1>2, <2>1, <2>5, <2>6
    DEF LdWorker, Logs, Libraries, SetTranslationHistoryEnabled, SetTranslationMemoryEnabled,
        ClearTranslationHistory, ClearTranslationMemory, ListTranslationHistory, ListTranslationMemory,
        ListGlossaries, ListRoutingProfiles, DeleteTranslationHistory, DeleteTranslationMemory,
        DeleteGlossary, DeleteRoutingProfile, SaveGlossary, SaveRoutingProfile, ExportRoutingProfile,
        ImportRoutingProfile, RejectedWhenIdle, RejectedByText, RejectedByDocuments, TakeTranslate,
        TakeDocument, DocumentEvent, LoseStorage, Answered, Done
<1> QED
  BY <1>1, <1>2

\* worker.rs, recording a finished translation: what was sent incognito, or while the window
\* showed the log as off, is not recorded in that log.
THEOREM PolicyIsRespected == LdSpec => PolicyRespected
<1>1. LdInv /\ [LdNext]_ldVars =>
        [\A k \in Logs : doing = "text" /\ kept'.items[k] # kept.items[k] =>
           k \in asked.logged /\ ~asked.incognito]_ldVars
  BY RecordsAsAllowed
<1> QED
  BY <1>1, LdInvariant, PTL DEF LdSpec, PolicyRespected

---------------------------------------------------------------------------
(* The routing editor.  Rows are filtered and moved by recursive functions  *)
(* on sequences of any length, so its lemmas need induction: a set of       *)
(* numbers that holds 0 and with every number the next one holds them all.  *)

\* A set of numbers that is not empty has a least element.
LEMMA NatMin ==
  ASSUME NEW T, T \subseteq Nat, T # {}
  PROVE  \E m \in T : \A n \in T : m <= n
<1>1. PICK R : R = OpToRel(<, Nat)
  OBVIOUS
<1>2. IsWellFoundedOn(R, Nat)
  BY <1>1, NatLessThanWellFounded
<1>3. PICK m \in T : \A n \in T : <<n, m>> \notin R
  BY <1>2, WFMin
<1>4. R = {ss \in Nat \X Nat : ss[1] < ss[2]}
  BY <1>1 DEF OpToRel
<1>5. ASSUME NEW n \in T
      PROVE  m <= n
  <2>1. PICK p : p = <<n, m>>
    OBVIOUS
  <2>2. p \in Nat \X Nat /\ p[1] = n /\ p[2] = m /\ n \in Nat /\ m \in Nat
    BY <2>1
  <2>3. p \notin R
    BY <1>3, <2>1
  <2>4. ~(n < m)
    BY <1>4, <2>2, <2>3
  <2> QED
    BY <2>2, <2>4
<1> QED
  BY <1>5

\* Induction, for a set of numbers.
LEMMA NatSetInduction ==
  ASSUME NEW S, 0 \in S, \A n \in Nat : n \in S => n + 1 \in S
  PROVE  Nat \subseteq S
<1>1. SUFFICES ASSUME Nat \ S # {}
               PROVE  FALSE
  OBVIOUS
<1>2. PICK m \in Nat \ S : \A n \in Nat \ S : m <= n
  BY <1>1, NatMin
<1>3. m # 0 /\ m - 1 \in Nat
  BY <1>2
<1>4. m - 1 \in S
  BY <1>2, <1>3
<1> QED
  BY <1>2, <1>3, <1>4

\* The function that Only builds.
OnlySteps(ids, keep, h) ==
  h = [n \in 0..Len(ids) |->
         IF n = 0 THEN <<>>
         ELSE IF ids[n] \in keep THEN Append(h[n - 1], ids[n]) ELSE h[n - 1]]

\* There is such a function, for every length.
LEMMA OnlyExists ==
  ASSUME NEW ids, NEW keep, Len(ids) \in Nat
  PROVE  \E h : OnlySteps(ids, keep, h)
<1> DEFINE Step(h, n) == IF n = 0 THEN <<>>
                         ELSE IF ids[n] \in keep THEN Append(h[n - 1], ids[n]) ELSE h[n - 1]
           T == {m \in Nat : \E h : h = [n \in 0..m |-> Step(h, n)]}
<1>1. 0 \in T
  <2> DEFINE h == [n \in 0..0 |-> <<>>]
  <2>1. h = [n \in 0..0 |-> Step(h, n)]
    OBVIOUS
  <2> QED
    BY <2>1
<1>2. ASSUME NEW m \in Nat, m \in T
      PROVE  m + 1 \in T
  <2>1. PICK h : h = [n \in 0..m |-> Step(h, n)]
    BY <1>2
  <2> DEFINE g == [n \in 0..(m + 1) |-> IF n = m + 1 THEN Step(h, n) ELSE h[n]]
  <2> HIDE DEF Step
  <2>2. ASSUME NEW n \in 0..(m + 1)
        PROVE  g[n] = Step(g, n)
    <3>1. CASE n = 0
      BY <3>1, <2>1 DEF Step
    <3>2. CASE n # 0
      <4>1. n - 1 \in 0..m /\ n - 1 # m + 1 /\ n - 1 \in 0..(m + 1)
        BY <3>2
      <4>2. g[n - 1] = h[n - 1]
        BY <4>1
      <4>3. Step(g, n) = Step(h, n)
        BY <4>2 DEF Step
      <4>4. CASE n = m + 1
        BY <4>3, <4>4
      <4>5. CASE n # m + 1
        <5>1. n \in 0..m
          BY <4>5
        <5>2. h[n] = Step(h, n)
          BY <5>1, <2>1
        <5> QED
          BY <4>3, <4>5, <5>2
      <4> QED
        BY <4>4, <4>5
    <3> QED
      BY <3>1, <3>2
  <2>3. g = [n \in 0..(m + 1) |-> Step(g, n)]
    <3> HIDE DEF g
    <3>1. g = [n \in 0..(m + 1) |-> g[n]]
      BY DEF g
    <3> QED
      BY <3>1, <2>2
  <2> HIDE DEF g
  <2>4. \E f : f = [n \in 0..(m + 1) |-> Step(f, n)]
    BY <2>3
  <2> QED
    BY <2>4
<1> HIDE DEF T
<1>3. Nat \subseteq T
  BY <1>1, <1>2, NatSetInduction
<1>4. Len(ids) \in T
  BY <1>3
<1>5. PICK h : h = [n \in 0..Len(ids) |-> Step(h, n)]
  BY <1>4 DEF T
<1> QED
  BY <1>5 DEF OnlySteps

\* Only takes the last value of such a function.
LEMMA OnlyFunction ==
  ASSUME NEW ids, NEW keep, Len(ids) \in Nat
  PROVE  \E h : /\ Only(ids, keep) = h[Len(ids)]
                /\ OnlySteps(ids, keep, h)
<1> DEFINE h == CHOOSE f : OnlySteps(ids, keep, f)
<1>1. OnlySteps(ids, keep, h)
  BY OnlyExists
<1>2. Only(ids, keep) = h[Len(ids)]
  BY DEF Only, OnlySteps
<1> QED
  BY <1>1, <1>2

\* A filter returns a sequence of what is in keep, each as often as before.
LEMMA OnlyKeeps ==
  ASSUME NEW S, NEW ids \in Seq(S), NEW keep
  PROVE  /\ Only(ids, keep) \in Seq(S)
         /\ Range(Only(ids, keep)) = Range(ids) \cap keep
         /\ IsInjective(ids) => IsInjective(Only(ids, keep))
<1>0. Len(ids) \in Nat /\ DOMAIN ids = 1..Len(ids) /\ \A n \in 1..Len(ids) : ids[n] \in S
  OBVIOUS
<1>1. PICK h : Only(ids, keep) = h[Len(ids)] /\ OnlySteps(ids, keep, h)
  BY <1>0, OnlyFunction
<1>8. \A n \in 0..Len(ids) : h[n] = IF n = 0 THEN <<>>
                                       ELSE IF ids[n] \in keep THEN Append(h[n - 1], ids[n]) ELSE h[n - 1]
  BY <1>1 DEF OnlySteps
<1> DEFINE Filtered(m) ==
             /\ h[m] \in Seq(S)
             /\ Range(h[m]) = {ids[n] : n \in 1..m} \cap keep
             /\ IsInjective(ids) => IsInjective(h[m])
           T == {m \in Nat : m <= Len(ids) => Filtered(m)}
<1>2. 0 \in T
  <2>1. h[0] = <<>>
    BY <1>0, <1>8
  <2>2. {ids[n] : n \in 1..0} = {}
    OBVIOUS
  <2>3. Range(<<>>) = {} /\ IsInjective(<<>>) /\ <<>> \in Seq(S)
    BY DEF Range, IsInjective
  <2>4. Filtered(0)
    BY <2>1, <2>2, <2>3
  <2> QED
    BY <2>4
<1>3. ASSUME NEW m \in Nat, m \in T
      PROVE  m + 1 \in T
  <2>1. SUFFICES ASSUME m + 1 <= Len(ids)
                 PROVE  Filtered(m + 1)
    OBVIOUS
  <2>2. Filtered(m)
    BY <1>0, <1>3, <2>1
  <2>3. m + 1 \in 1..Len(ids) /\ ids[m + 1] \in S
    BY <1>0, <2>1
  <2>4. h[m + 1] = IF ids[m + 1] \in keep THEN Append(h[m], ids[m + 1]) ELSE h[m]
    <3>1. m + 1 \in 0..Len(ids) /\ m + 1 # 0 /\ (m + 1) - 1 = m
      BY <1>0, <2>3
    <3> QED
      BY <1>8, <3>1
  <2>5. {ids[n] : n \in 1..(m + 1)} = {ids[n] : n \in 1..m} \cup {ids[m + 1]}
    OBVIOUS
  <2>6. CASE ids[m + 1] \notin keep
    BY <2>2, <2>4, <2>5, <2>6
  <2>7. CASE ids[m + 1] \in keep
    <3> DEFINE old == h[m]  new == Append(old, ids[m + 1])
    <3>1. h[m + 1] = new /\ new \in Seq(S) /\ DOMAIN new = 1..(Len(old) + 1)
      BY <2>2, <2>3, <2>4, <2>7
    <3>2. /\ \A n \in 1..Len(old) : new[n] = old[n]
          /\ new[Len(old) + 1] = ids[m + 1] /\ DOMAIN old = 1..Len(old) /\ Len(old) \in Nat
      BY <2>2, <2>3
    <3> HIDE DEF old, new
    <3>3. Range(new) = Range(old) \cup {ids[m + 1]}
      BY <3>1, <3>2 DEF Range
    <3>4. Range(h[m + 1]) = {ids[n] : n \in 1..(m + 1)} \cap keep
      BY <2>2, <2>5, <2>7, <3>1, <3>3 DEF old
    <3>5. ASSUME IsInjective(ids)
          PROVE  IsInjective(new)
      <4>1. ids[m + 1] \notin {ids[n] : n \in 1..m}
        BY <1>0, <2>3, <3>5 DEF IsInjective
      <4>2. ids[m + 1] \notin Range(old)
        BY <4>1, <2>2 DEF old
      <4>3. IsInjective(old)
        BY <2>2, <3>5 DEF old
      <4> QED
        BY <3>1, <3>2, <4>2, <4>3 DEF IsInjective, Range
    <3> QED
      BY <3>1, <3>4, <3>5
  <2> QED
    BY <2>6, <2>7
<1> HIDE DEF T
<1>4. Nat \subseteq T
  BY <1>2, <1>3, NatSetInduction
<1>5. Len(ids) \in T
  BY <1>0, <1>4
<1>6. Filtered(Len(ids))
  BY <1>0, <1>5 DEF T
<1>7. {ids[n] : n \in 1..Len(ids)} = Range(ids)
  BY <1>0 DEF Range
<1> QED
  BY <1>1, <1>6, <1>7

\* A list of rows: a sequence over S in which nothing occurs twice.
Rows(S) == {ids \in Seq(S) : IsInjective(ids)}

\* Position is where the row is, or 0 if there is none.
LEMMA PositionFinds ==
  ASSUME NEW S, NEW ids \in Rows(S), NEW p
  PROVE  \/ Position(ids, p) = 0 /\ p \notin Range(ids)
         \/ Position(ids, p) \in 1..Len(ids) /\ ids[Position(ids, p)] = p
<1> DEFINE I == {i \in 1..Len(ids) : ids[i] = p}
<1>0. DOMAIN ids = 1..Len(ids) /\ Len(ids) \in Nat
  BY DEF Rows
<1>1. Position(ids, p) = IF I # {} THEN Min(I) ELSE 0
  BY DEF Position, SelectInSeq
<1>2. CASE I = {}
  BY <1>0, <1>1, <1>2 DEF Range
<1>3. CASE I # {}
  <2>1. PICK i \in I : TRUE
    BY <1>3
  <2>2. \A j \in I : j = i
    BY <1>0, <2>1 DEF Rows, IsInjective
  <2>3. \A y \in I : i <= y
    BY <2>1, <2>2
  <2>4. Min(I) \in I
    BY <2>1, <2>3 DEF Min
  <2> QED
    BY <1>1, <1>3, <2>4
<1> QED
  BY <1>2, <1>3

\* Two rows exchange their places.
LEMMA MoveKeeps ==
  ASSUME NEW S, NEW ids \in Rows(S), NEW p, NEW offset \in {1, 0 - 1}
  PROVE  /\ move_routing_profile_id(ids, p, offset) \in Rows(S)
         /\ Range(move_routing_profile_id(ids, p, offset)) = Range(ids)
<1> DEFINE i == Position(ids, p)  t == i + offset
           new == [ids EXCEPT ![i] = ids[t], ![t] = ids[i]]
<1>0. DOMAIN ids = 1..Len(ids) /\ Len(ids) \in Nat /\ IsInjective(ids) /\ ids \in Seq(S)
  BY DEF Rows
<1>1. CASE i = 0 \/ t \notin DOMAIN ids
  BY <1>1 DEF move_routing_profile_id
<1>2. CASE i # 0 /\ t \in DOMAIN ids
  <2>1. i \in DOMAIN ids /\ t \in DOMAIN ids
    BY <1>0, <1>2, PositionFinds
  <2>2. move_routing_profile_id(ids, p, offset) = new
    BY <1>2 DEF move_routing_profile_id
  <2> HIDE DEF i, t
  <2>3. /\ DOMAIN new = DOMAIN ids
        /\ \A n \in DOMAIN ids : new[n] = IF n = t THEN ids[i] ELSE IF n = i THEN ids[t] ELSE ids[n]
    BY <2>1
  <2>4. new \in Seq(S)
    <3>1. \A n \in 1..Len(ids) : new[n] \in S
      BY <1>0, <2>1, <2>3
    <3>2. new \in [1..Len(ids) -> S]
      BY <1>0, <2>3, <3>1
    <3> HIDE DEF new
    <3> QED
      BY <1>0, <3>2
  <2> HIDE DEF new
  <2>5. Range(new) = Range(ids)
    BY <2>1, <2>3 DEF Range
  <2>6. IsInjective(new)
    BY <1>0, <2>1, <2>3 DEF IsInjective
  <2> QED
    BY <2>2, <2>4, <2>5, <2>6 DEF Rows
<1> QED
  BY <1>1, <1>2

\* A row is taken out of the list.
LEMMA RemoveAtKeeps ==
  ASSUME NEW S, NEW ids \in Rows(S), NEW i \in 1..Len(ids)
  PROVE  /\ RemoveAt(ids, i) \in Rows(S)
         /\ Len(RemoveAt(ids, i)) = Len(ids) - 1
         /\ Range(RemoveAt(ids, i)) = Range(ids) \ {ids[i]}
         /\ \A n \in 1..(Len(ids) - 1) : RemoveAt(ids, i)[n] = IF n < i THEN ids[n] ELSE ids[n + 1]
<1> DEFINE new == RemoveAt(ids, i)
<1>0. DOMAIN ids = 1..Len(ids) /\ Len(ids) \in Nat /\ IsInjective(ids) /\ ids \in Seq(S)
  BY DEF Rows
<1> DEFINE a == SubSeq(ids, 1, i - 1)  b == SubSeq(ids, i + 1, Len(ids))
<1>1. /\ a \in Seq(S) /\ Len(a) = i - 1 /\ \A n \in 1..(i - 1) : a[n] = ids[n]
      /\ b \in Seq(S) /\ Len(b) = Len(ids) - i /\ \A n \in 1..(Len(ids) - i) : b[n] = ids[n + i]
  <2>1. \A k \in 1..Len(ids) : ids[k] \in S
    BY <1>0
  <2>2. /\ a \in Seq(S) /\ Len(a) = IF 1 <= i - 1 THEN (i - 1) - 1 + 1 ELSE 0
        /\ \A n \in 1..((i - 1) - 1 + 1) : a[n] = ids[1 + n - 1]
    BY <1>0, <2>1, SubSeqProperties
  <2>3. /\ b \in Seq(S) /\ Len(b) = IF i + 1 <= Len(ids) THEN Len(ids) - (i + 1) + 1 ELSE 0
        /\ \A n \in 1..(Len(ids) - (i + 1) + 1) : b[n] = ids[(i + 1) + n - 1]
    BY <1>0, <2>1, SubSeqProperties
  <2> HIDE DEF a, b
  <2>4. (i - 1) - 1 + 1 = i - 1 /\ Len(ids) - (i + 1) + 1 = Len(ids) - i
    BY <1>0
  <2>5. Len(a) = i - 1 /\ Len(b) = Len(ids) - i
    <3>1. Len(a) = IF 1 <= i - 1 THEN (i - 1) - 1 + 1 ELSE 0
      BY <2>2
    <3>2. Len(b) = IF i + 1 <= Len(ids) THEN Len(ids) - (i + 1) + 1 ELSE 0
      BY <2>3
    <3>3. i \in Nat /\ 1 <= i /\ i <= Len(ids)
      BY <1>0
    <3>4. Len(a) = i - 1
      BY <3>1, <3>3
    <3>5. Len(b) = Len(ids) - i
      <4>1. CASE i + 1 <= Len(ids)
        BY <1>0, <3>2, <3>3, <4>1
      <4>2. CASE ~(i + 1 <= Len(ids))
        <5>1. \A x, y \in Nat : x <= y /\ ~(x + 1 <= y) => y - x = 0
          BY SMTT(30)
        <5>2. Len(ids) - i = 0
          BY <1>0, <3>3, <4>2, <5>1
        <5> QED
          BY <3>2, <4>2, <5>2
      <4> QED
        BY <4>1, <4>2
    <3> QED
      BY <3>4, <3>5
  <2>6. \A n \in 1..(i - 1) : a[n] = ids[n]
    BY <1>0, <2>2, <2>4
  <2>7. \A n \in 1..(Len(ids) - i) : b[n] = ids[n + i]
    <3>1. \A n \in 1..(Len(ids) - i) : b[n] = ids[(i + 1) + n - 1]
      BY <2>3, <2>4
    <3>2. \A n \in 1..(Len(ids) - i) : (i + 1) + n - 1 = n + i
      BY <1>0
    <3> QED
      BY <3>1, <3>2
  <2> QED
    BY <2>2, <2>3, <2>5, <2>6, <2>7, SMTT(30)
<1>2. new = a \o b
  BY DEF RemoveAt
<1> HIDE DEF a, b, new
<1>3. /\ new \in Seq(S) /\ Len(new) = Len(ids) - 1
      /\ \A n \in 1..(Len(ids) - 1) : new[n] = IF n < i THEN ids[n] ELSE ids[n + 1]
  <2>1. /\ new \in Seq(S) /\ Len(new) = Len(a) + Len(b)
        /\ \A n \in 1..(Len(a) + Len(b)) : new[n] = IF n <= Len(a) THEN a[n] ELSE b[n - Len(a)]
    BY <1>1, <1>2, ConcatProperties
  <2>2. Len(a) + Len(b) = Len(ids) - 1
    BY <1>0, <1>1
  <2>3. ASSUME NEW n \in 1..(Len(ids) - 1)
        PROVE  new[n] = IF n < i THEN ids[n] ELSE ids[n + 1]
    <3>0. new[n] = IF n <= Len(a) THEN a[n] ELSE b[n - Len(a)]
      BY <2>1, <2>2
    <3>1. CASE n < i
      BY <1>0, <1>1, <3>0, <3>1
    <3>2. CASE ~(n < i)
      <4>1. new[n] = b[n - Len(a)]
        BY <1>0, <1>1, <3>0, <3>2
      <4>2. n - Len(a) \in 1..(Len(ids) - i) /\ (n - Len(a)) + i = n + 1
        BY <1>0, <1>1, <3>2
      <4> QED
        BY <1>1, <3>2, <4>1, <4>2
    <3> QED
      BY <3>1, <3>2
  <2> QED
    BY <2>1, <2>2, <2>3
<1>4. DOMAIN new = 1..(Len(ids) - 1)
  BY <1>0, <1>3
<1>5. IsInjective(new)
  <2>1. SUFFICES ASSUME NEW m \in DOMAIN new, NEW n \in DOMAIN new, new[m] = new[n]
                 PROVE  m = n
    BY DEF IsInjective
  <2> DEFINE from(k) == IF k < i THEN k ELSE k + 1
  <2>2. /\ from(m) \in DOMAIN ids /\ from(n) \in DOMAIN ids
        /\ new[m] = ids[from(m)] /\ new[n] = ids[from(n)]
    BY <1>0, <1>3, <1>4
  <2>3. from(m) = from(n)
    BY <1>0, <2>1, <2>2 DEF IsInjective
  <2> QED
    BY <1>4, <2>3
<1>6. Range(new) = Range(ids) \ {ids[i]}
  <2>1. ASSUME NEW n \in DOMAIN new
        PROVE  new[n] \in Range(ids) \ {ids[i]}
    BY <1>0, <1>3, <1>4, SMTT(30) DEF IsInjective, Range
  <2>2. ASSUME NEW n \in DOMAIN ids, ids[n] # ids[i]
        PROVE  ids[n] \in Range(new)
    <3>1. CASE n < i
      <4>1. n \in DOMAIN new /\ new[n] = ids[n]
        BY <1>0, <1>3, <1>4, <3>1
      <4> QED
        BY <4>1 DEF Range
    <3>2. CASE n > i
      <4>1. n - 1 \in DOMAIN new /\ new[n - 1] = ids[n]
        BY <1>0, <1>3, <1>4, <3>2
      <4> QED
        BY <4>1 DEF Range
    <3> QED
      BY <1>0, <2>2, <3>1, <3>2
  <2> QED
    BY <2>1, <2>2 DEF Range
<1> QED
  BY <1>3, <1>5, <1>6 DEF Rows, new

\* A row is put into the list.
LEMMA InsertAtKeeps ==
  ASSUME NEW S, NEW ids \in Rows(S), NEW e \in S, e \notin Range(ids), NEW i \in 1..(Len(ids) + 1)
  PROVE  /\ InsertAt(ids, i, e) \in Rows(S)
         /\ Range(InsertAt(ids, i, e)) = Range(ids) \cup {e}
         /\ Len(InsertAt(ids, i, e)) = Len(ids) + 1
         /\ \A n \in 1..(Len(ids) + 1) :
              InsertAt(ids, i, e)[n] = IF n < i THEN ids[n] ELSE IF n = i THEN e ELSE ids[n - 1]
<1> DEFINE new == InsertAt(ids, i, e)
           a == SubSeq(ids, 1, i - 1)  b == SubSeq(ids, i, Len(ids))
<1>0. DOMAIN ids = 1..Len(ids) /\ Len(ids) \in Nat /\ IsInjective(ids) /\ ids \in Seq(S)
  BY DEF Rows
<1>1. /\ a \in Seq(S) /\ Len(a) = i - 1 /\ \A n \in 1..(i - 1) : a[n] = ids[n]
      /\ b \in Seq(S) /\ Len(b) = Len(ids) - i + 1 /\ \A n \in 1..(Len(ids) - i + 1) : b[n] = ids[n + i - 1]
  BY <1>0
<1>2. new = a \o <<e>> \o b
  BY DEF InsertAt
<1> HIDE DEF a, b, new
<1>3. /\ new \in Seq(S) /\ Len(new) = Len(ids) + 1
      /\ \A n \in 1..(Len(ids) + 1) : new[n] = IF n < i THEN ids[n] ELSE IF n = i THEN e ELSE ids[n - 1]
  <2> DEFINE c == a \o <<e>>
  <2>1. c \in Seq(S) /\ Len(c) = i /\ \A n \in 1..i : c[n] = IF n < i THEN ids[n] ELSE e
    BY <1>0, <1>1
  <2>2. new = c \o b
    BY <1>2
  <2> HIDE DEF c
  <2>3. /\ new \in Seq(S) /\ Len(new) = Len(c) + Len(b)
        /\ \A n \in 1..(Len(c) + Len(b)) : new[n] = IF n <= Len(c) THEN c[n] ELSE b[n - Len(c)]
    <3>1. c \in Seq(S) /\ b \in Seq(S)
      BY <1>1, <2>1
    <3> QED
      BY <2>2, <3>1, ConcatProperties
  <2>4. Len(c) + Len(b) = Len(ids) + 1
    BY <1>0, <1>1, <2>1
  <2>5. ASSUME NEW n \in 1..(Len(ids) + 1)
        PROVE  new[n] = IF n < i THEN ids[n] ELSE IF n = i THEN e ELSE ids[n - 1]
    <3>1. CASE n <= i
      BY <1>0, <2>1, <2>3, <2>4, <3>1
    <3>2. CASE ~(n <= i)
      <4>1. new[n] = b[n - i]
        BY <1>0, <2>1, <2>3, <2>4, <3>2
      <4>2. n - i \in 1..(Len(ids) - i + 1) /\ (n - i) + i - 1 = n - 1 /\ ~(n < i) /\ n # i
        BY <1>0, <3>2
      <4> QED
        BY <1>1, <4>1, <4>2
    <3> QED
      BY <3>1, <3>2
  <2> QED
    BY <2>3, <2>4, <2>5
<1>4. DOMAIN new = 1..(Len(ids) + 1)
  BY <1>0, <1>3
<1>5. IsInjective(new)
  <2>1. \A n \in DOMAIN ids : ids[n] # e
    BY DEF Range
  <2>2. SUFFICES ASSUME NEW m \in DOMAIN new, NEW n \in DOMAIN new, new[m] = new[n]
                 PROVE  m = n
    BY DEF IsInjective
  <2> DEFINE from(k) == IF k < i THEN k ELSE k - 1
  <2>3. ASSUME NEW k \in DOMAIN new, k # i
        PROVE  from(k) \in DOMAIN ids /\ new[k] = ids[from(k)]
    BY <1>0, <1>3, <1>4, <2>3
  <2>4. new[i] = e
    BY <1>3, <1>4
  <2>5. CASE m = i \/ n = i
    BY <2>1, <2>2, <2>3, <2>4, <2>5
  <2>6. CASE m # i /\ n # i
    <3>1. from(m) = from(n)
      BY <1>0, <2>2, <2>3, <2>6 DEF IsInjective
    <3> QED
      BY <1>4, <2>6, <3>1
  <2> QED
    BY <2>5, <2>6
<1>6. Range(new) = Range(ids) \cup {e}
  <2>1. ASSUME NEW n \in DOMAIN new
        PROVE  new[n] \in Range(ids) \cup {e}
    <3>1. new[n] = e \/ \E k \in DOMAIN ids : new[n] = ids[k]
      <4>1. CASE n < i
        BY <1>0, <1>3, <1>4, <4>1
      <4>2. CASE n = i
        BY <1>0, <1>3, <1>4, <4>2
      <4>3. CASE n > i
        <5>1. n - 1 \in DOMAIN ids /\ new[n] = ids[n - 1]
          BY <1>0, <1>3, <1>4, <4>3
        <5> QED
          BY <5>1
      <4> QED
        BY <1>0, <1>4, <4>1, <4>2, <4>3
    <3> QED
      BY <3>1 DEF Range
  <2>2. ASSUME NEW n \in DOMAIN ids
        PROVE  ids[n] \in Range(new)
    <3>1. CASE n < i
      <4>1. n \in DOMAIN new /\ new[n] = ids[n]
        BY <1>0, <1>3, <1>4, <3>1
      <4> QED
        BY <4>1 DEF Range
    <3>2. CASE n >= i
      <4>1. n + 1 \in DOMAIN new /\ new[n + 1] = ids[n]
        BY <1>0, <1>3, <1>4, <3>2
      <4> QED
        BY <4>1 DEF Range
    <3> QED
      BY <1>0, <3>1, <3>2
  <2>3. e \in Range(new)
    <3>1. i \in DOMAIN new /\ new[i] = e
      BY <1>3, <1>4
    <3> QED
      BY <3>1 DEF Range
  <2> QED
    BY <2>1, <2>2, <2>3 DEF Range
<1> QED
  BY <1>3, <1>5, <1>6 DEF Rows, new

\* A row dropped on another one: the same rows, in another order.
LEMMA MoveBeforeKeeps ==
  ASSUME NEW S, NEW ids \in Rows(S), NEW p, NEW target
  PROVE  /\ move_routing_profile_id_before(ids, p, target) \in Rows(S)
         /\ Range(move_routing_profile_id_before(ids, p, target)) = Range(ids)
<1> DEFINE i == Position(ids, p)  t == Position(ids, target)
           at == IF i < t THEN t - 1 ELSE t
           rest == RemoveAt(ids, i)
<1>0. DOMAIN ids = 1..Len(ids) /\ Len(ids) \in Nat /\ ids \in Seq(S)
  BY DEF Rows
<1>1. CASE p = target \/ i = 0 \/ t = 0
  BY <1>1 DEF move_routing_profile_id_before
<1>2. CASE p # target /\ i # 0 /\ t # 0
  <2>1. i \in 1..Len(ids) /\ ids[i] = p /\ t \in 1..Len(ids) /\ ids[t] = target
    BY <1>2, PositionFinds
  <2>2. move_routing_profile_id_before(ids, p, target) = InsertAt(rest, at, p)
    BY <1>2 DEF move_routing_profile_id_before
  <2> HIDE DEF i, t
  <2>3. rest \in Rows(S) /\ Len(rest) = Len(ids) - 1 /\ Range(rest) = Range(ids) \ {p}
    <3>1. i \in 1..Len(ids)
      BY <2>1
    <3>2. /\ RemoveAt(ids, i) \in Rows(S) /\ Len(RemoveAt(ids, i)) = Len(ids) - 1
          /\ Range(RemoveAt(ids, i)) = Range(ids) \ {ids[i]}
      BY <3>1, RemoveAtKeeps, ZenonT(40)
    <3> QED
      BY <2>1, <3>2
  <2>4. at \in 1..(Len(rest) + 1) /\ p \in S /\ p \in Range(ids)
    BY <1>0, <1>2, <2>1, <2>3 DEF Range
  <2> HIDE DEF rest, at
  <2>5. InsertAt(rest, at, p) \in Rows(S) /\ Range(InsertAt(rest, at, p)) = Range(rest) \cup {p}
    BY <2>3, <2>4, InsertAtKeeps
  <2> QED
    BY <2>2, <2>3, <2>4, <2>5
<1> QED
  BY <1>1, <1>2

\* The function that OrderedPairwise builds.
PairSteps(rows, cands, h) ==
  h = [n \in 0..Len(cands) |->
         IF n < 2 THEN rows
         ELSE move_routing_profile_id_before(h[n - 1], cands[n], cands[n - 1])]

\* There is such a function, for every length.
LEMMA PairsExist ==
  ASSUME NEW rows, NEW cands, Len(cands) \in Nat
  PROVE  \E h : PairSteps(rows, cands, h)
<1> DEFINE Step(h, n) == IF n < 2 THEN rows
                         ELSE move_routing_profile_id_before(h[n - 1], cands[n], cands[n - 1])
           T == {m \in Nat : \E h : h = [n \in 0..m |-> Step(h, n)]}
<1>1. 0 \in T
  <2> DEFINE h == [n \in 0..0 |-> rows]
  <2>1. h = [n \in 0..0 |-> Step(h, n)]
    OBVIOUS
  <2> QED
    BY <2>1
<1>2. ASSUME NEW m \in Nat, m \in T
      PROVE  m + 1 \in T
  <2>1. PICK h : h = [n \in 0..m |-> Step(h, n)]
    BY <1>2
  <2> DEFINE g == [n \in 0..(m + 1) |-> IF n = m + 1 THEN Step(h, n) ELSE h[n]]
  <2> HIDE DEF Step
  <2>2. ASSUME NEW n \in 0..(m + 1)
        PROVE  g[n] = Step(g, n)
    <3>1. Step(g, n) = Step(h, n)
      <4>1. CASE n < 2
        BY <4>1 DEF Step
      <4>2. CASE ~(n < 2)
        <5>1. n - 1 \in 0..m /\ n - 1 # m + 1 /\ n - 1 \in 0..(m + 1)
          BY <4>2
        <5>2. g[n - 1] = h[n - 1]
          BY <5>1
        <5> QED
          BY <5>2 DEF Step
      <4> QED
        BY <4>1, <4>2
    <3>2. CASE n = m + 1
      BY <3>1, <3>2
    <3>3. CASE n # m + 1
      <4>1. n \in 0..m
        BY <3>3
      <4>2. h[n] = Step(h, n)
        BY <4>1, <2>1
      <4> QED
        BY <3>1, <3>3, <4>2
    <3> QED
      BY <3>2, <3>3
  <2>3. g = [n \in 0..(m + 1) |-> Step(g, n)]
    <3> HIDE DEF g
    <3>1. g = [n \in 0..(m + 1) |-> g[n]]
      BY DEF g
    <3> QED
      BY <3>1, <2>2
  <2> HIDE DEF g
  <2>4. \E f : f = [n \in 0..(m + 1) |-> Step(f, n)]
    BY <2>3
  <2> QED
    BY <2>4
<1> HIDE DEF T
<1>3. Nat \subseteq T
  BY <1>1, <1>2, NatSetInduction
<1>4. Len(cands) \in T
  BY <1>3
<1>5. PICK h : h = [n \in 0..Len(cands) |-> Step(h, n)]
  BY <1>4 DEF T
<1> QED
  BY <1>5 DEF PairSteps

\* After every one of the moves the rows are still the same rows.
LEMMA PairStepsKeep ==
  ASSUME NEW S, NEW rows \in Rows(S), NEW cands, Len(cands) \in Nat, NEW h, PairSteps(rows, cands, h),
         NEW k \in 0..Len(cands)
  PROVE  h[k] \in Rows(S) /\ Range(h[k]) = Range(rows)
<1>1. \A n \in 0..Len(cands) :
        h[n] = IF n < 2 THEN rows
               ELSE move_routing_profile_id_before(h[n - 1], cands[n], cands[n - 1])
  BY DEF PairSteps
<1> DEFINE T == {m \in Nat : m <= Len(cands) => h[m] \in Rows(S) /\ Range(h[m]) = Range(rows)}
<1>2. 0 \in T
  BY <1>1
<1>3. ASSUME NEW m \in Nat, m \in T
      PROVE  m + 1 \in T
  <2>1. SUFFICES ASSUME m + 1 <= Len(cands)
                 PROVE  h[m + 1] \in Rows(S) /\ Range(h[m + 1]) = Range(rows)
    OBVIOUS
  <2>2. h[m] \in Rows(S) /\ Range(h[m]) = Range(rows)
    BY <1>3, <2>1
  <2>3. m + 1 \in 0..Len(cands) /\ (m + 1) - 1 = m
    BY <2>1
  <2>4. CASE m + 1 < 2
    BY <1>1, <2>3, <2>4
  <2>5. CASE ~(m + 1 < 2)
    <3>1. h[m + 1] = move_routing_profile_id_before(h[m], cands[m + 1], cands[m])
      BY <1>1, <2>3, <2>5
    <3> QED
      BY <2>2, <3>1, MoveBeforeKeeps
  <2> QED
    BY <2>4, <2>5
<1> HIDE DEF T
<1>4. Nat \subseteq T
  BY <1>2, <1>3, NatSetInduction
<1>5. k \in T
  BY <1>4
<1> QED
  BY <1>5 DEF T

\* Edit moves the candidates one before the other: the rows stay the same rows.
LEMMA PairwiseKeeps ==
  ASSUME NEW S, NEW rows \in Rows(S), NEW cands, Len(cands) \in Nat
  PROVE  /\ OrderedPairwise(rows, cands) \in Rows(S)
         /\ Range(OrderedPairwise(rows, cands)) = Range(rows)
<1> DEFINE h == CHOOSE f : PairSteps(rows, cands, f)
<1>1. PairSteps(rows, cands, h)
  BY PairsExist
<1>2. OrderedPairwise(rows, cands) = h[Len(cands)]
  BY DEF OrderedPairwise, PairSteps
<1> HIDE DEF h
<1>3. Len(cands) \in 0..Len(cands)
  OBVIOUS
<1> QED
  BY <1>1, <1>2, <1>3, PairStepsKeep

\* One row stands directly before another.
StandsBefore(ids, p, q) == \E k \in 1..(Len(ids) - 1) : ids[k] = p /\ ids[k + 1] = q

\* A row dropped on another one stands directly before it.
LEMMA MovedStandsBefore ==
  ASSUME NEW S, NEW ids \in Rows(S), NEW p \in Range(ids), NEW target \in Range(ids), p # target
  PROVE  StandsBefore(move_routing_profile_id_before(ids, p, target), p, target)
<1> DEFINE i == Position(ids, p)  t == Position(ids, target)
           at == IF i < t THEN t - 1 ELSE t
           rest == RemoveAt(ids, i)
           new == InsertAt(rest, at, p)
<1>0. DOMAIN ids = 1..Len(ids) /\ Len(ids) \in Nat /\ ids \in Seq(S)
  BY DEF Rows
<1>1. i \in 1..Len(ids) /\ ids[i] = p /\ t \in 1..Len(ids) /\ ids[t] = target
  BY PositionFinds
<1>2. move_routing_profile_id_before(ids, p, target) = new
  <2>1. i # 0 /\ t # 0
    BY <1>0, <1>1
  <2> QED
    BY <2>1 DEF move_routing_profile_id_before
<1> HIDE DEF i, t
<1>3. /\ rest \in Rows(S) /\ Len(rest) = Len(ids) - 1 /\ Range(rest) = Range(ids) \ {p}
      /\ \A n \in 1..(Len(ids) - 1) : rest[n] = IF n < i THEN ids[n] ELSE ids[n + 1]
  <2>1. i \in 1..Len(ids)
    BY <1>1
  <2>2. /\ RemoveAt(ids, i) \in Rows(S) /\ Len(RemoveAt(ids, i)) = Len(ids) - 1
        /\ Range(RemoveAt(ids, i)) = Range(ids) \ {ids[i]}
        /\ \A n \in 1..(Len(ids) - 1) : RemoveAt(ids, i)[n] = IF n < i THEN ids[n] ELSE ids[n + 1]
    BY <2>1, RemoveAtKeeps, ZenonT(40)
  <2> QED
    BY <1>1, <2>2, Zenon
<1>4. at \in 1..(Len(ids) - 1) /\ i # t
  BY <1>0, <1>1
<1>5. rest[at] = target
  <2> HIDE DEF rest
  <2>1. CASE i < t
    BY <1>0, <1>1, <1>3, <1>4, <2>1
  <2>2. CASE ~(i < t)
    BY <1>0, <1>1, <1>3, <1>4, <2>2
  <2> QED
    BY <2>1, <2>2
<1>6. at \in 1..(Len(rest) + 1) /\ p \in S /\ p \notin Range(rest)
  BY <1>0, <1>1, <1>3, <1>4
<1> HIDE DEF rest, at
<1>7. /\ Len(new) = Len(rest) + 1
      /\ \A n \in 1..(Len(rest) + 1) : new[n] = IF n < at THEN rest[n] ELSE IF n = at THEN p ELSE rest[n - 1]
  BY <1>3, <1>6, InsertAtKeeps
<1> HIDE DEF new
<1>8. at \in 1..(Len(new) - 1) /\ at + 1 \in 1..(Len(rest) + 1) /\ (at + 1) - 1 = at
  BY <1>0, <1>3, <1>4, <1>7
<1>9. new[at] = p /\ new[at + 1] = target
  BY <1>4, <1>5, <1>6, <1>7, <1>8
<1> QED
  BY <1>2, <1>8, <1>9 DEF StandsBefore

\* The last candidate comes to stand before the one that precedes it.
LEMMA LastPairTurns ==
  ASSUME NEW S, NEW rows \in Rows(S), NEW cands, Len(cands) \in Nat, 2 <= Len(cands),
         NEW p \in Range(rows), NEW q \in Range(rows), p # q,
         p = cands[Len(cands) - 1], q = cands[Len(cands)]
  PROVE  StandsBefore(OrderedPairwise(rows, cands), q, p)
<1> DEFINE h == CHOOSE f : PairSteps(rows, cands, f)  n == Len(cands)
<1>1. PairSteps(rows, cands, h)
  BY PairsExist
<1>2. OrderedPairwise(rows, cands) = h[n]
  BY DEF OrderedPairwise, PairSteps
<1> HIDE DEF h
<1>3. n \in 0..n /\ n - 1 \in 0..n /\ ~(n < 2)
  OBVIOUS
<1>4. h[n] = move_routing_profile_id_before(h[n - 1], q, p)
  BY <1>1, <1>3 DEF PairSteps
<1>5. h[n - 1] \in Rows(S) /\ Range(h[n - 1]) = Range(rows)
  BY <1>1, <1>3, PairStepsKeep
<1> QED
  BY <1>2, <1>4, <1>5, MovedStandsBefore

Providers == Range(SavedOrder)
Profiles == [mode : Modes, cands : Seq(RoutingCandidates), local : BOOLEAN, remote : BOOLEAN,
             limits : Limits, extra : {"kept", "default"}]
Shelves == UNION {[D -> Profiles] : D \in SUBSET RouteIds}
Editors == [open : {TRUE}, shown : Shelves, rows : Rows(Providers), checked : SUBSET Providers,
            editing : Profiles \cup {"none"}, loaded : BOOLEAN, edited : RouteIds \cup {"none"},
            mode : Modes, local : BOOLEAN, remote : BOOLEAN, limits : Limits \cup {"bad"}]

\* The switches exclude each other, checked rows are rows, and until the user changes
\* something a loaded profile is on display.
Sound(ed) ==
  /\ ed \in Editors
  /\ ed.checked \subseteq Range(ed.rows)
  /\ ~(ed.local /\ ed.remote)
  /\ ed.edited # "none" => ed.editing \in Profiles
  /\ ed.loaded =>
       /\ ed.edited # "none"
       /\ ed.mode = ed.editing.mode /\ ed.limits = ed.editing.limits
       /\ Showable(ed.editing) =>
            /\ ed.local = ed.editing.local /\ ed.remote = ed.editing.remote
            /\ ed.checked = Range(Named(ed.editing)) \cap Range(ed.rows)

ReInv ==
  /\ profiles \in Shelves
  /\ provider \in [Providers -> ReModels \cup {"nomodel", "gone"}]
  /\ editor = Closed \/ Sound(editor)

\* The providers that a profile names.
LEMMA NamedAre ==
  ASSUME NEW p \in Profiles
  PROVE  /\ Named(p) \in Seq(Providers) /\ Len(Named(p)) = Len(p.cands) /\ Len(p.cands) \in Nat
         /\ DOMAIN Named(p) = 1..Len(p.cands)
         /\ \A n \in 1..Len(p.cands) : Named(p)[n] = p.cands[n].provider
         /\ Range(Named(p)) = {c.provider : c \in Range(p.cands)}
<1>1. p.cands \in Seq(RoutingCandidates) /\ Len(p.cands) \in Nat /\ DOMAIN p.cands = 1..Len(p.cands)
  BY DEF Profiles
<1>2. \A n \in 1..Len(p.cands) : p.cands[n].provider \in Providers
  <2>1. \A n \in 1..Len(p.cands) : p.cands[n] \in RoutingCandidates
    BY <1>1
  <2> QED
    BY <2>1 DEF RoutingCandidates, Providers
<1>3. Named(p) = [n \in 1..Len(p.cands) |-> p.cands[n].provider]
  BY <1>1 DEF Named
<1>4. /\ Named(p) \in Seq(Providers) /\ Len(Named(p)) = Len(p.cands)
      /\ DOMAIN Named(p) = 1..Len(p.cands)
      /\ \A n \in 1..Len(p.cands) : Named(p)[n] = p.cands[n].provider
  BY <1>1, <1>2, <1>3
<1>5. Range(Named(p)) = {c.provider : c \in Range(p.cands)}
  BY <1>1, <1>4 DEF Range
<1> QED
  BY <1>1, <1>4, <1>5

\* The candidates made of providers that have a model.
Made(s) == [n \in DOMAIN s |-> routing_candidate_for_profile(s[n])]

LEMMA MadeAre ==
  ASSUME ReInv, NEW s \in Seq(Providers), Range(s) \subseteq HasModel
  PROVE  /\ Made(s) \in Seq(RoutingCandidates)
         /\ [n \in DOMAIN Made(s) |-> Made(s)[n].provider] = s
         /\ \A x \in Range(s) : routing_candidate_for_profile(x) \in Range(Made(s))
<1>1. s \in Seq(Providers) /\ Len(s) \in Nat /\ DOMAIN s = 1..Len(s)
  OBVIOUS
<1>2. \A n \in 1..Len(s) : /\ routing_candidate_for_profile(s[n]) \in RoutingCandidates
                           /\ routing_candidate_for_profile(s[n]).provider = s[n]
  <2>1. \A n \in 1..Len(s) : s[n] \in Providers /\ provider[s[n]] \in ReModels
    BY <1>1 DEF Range, HasModel
  <2> QED
    BY <2>1 DEF routing_candidate_for_profile, RoutingCandidates, Providers
<1>3. DOMAIN Made(s) = 1..Len(s) /\ \A n \in 1..Len(s) : Made(s)[n] = routing_candidate_for_profile(s[n])
  BY <1>1 DEF Made
<1>4. Made(s) \in Seq(RoutingCandidates)
  <2>1. Made(s) = [n \in 1..Len(s) |-> routing_candidate_for_profile(s[n])]
    BY <1>1 DEF Made
  <2> HIDE DEF Made
  <2> QED
    BY <1>1, <1>2, <2>1
<1>5. [n \in DOMAIN Made(s) |-> Made(s)[n].provider] = s
  <2> DEFINE m == [n \in DOMAIN Made(s) |-> Made(s)[n].provider]
  <2>1. m = [n \in 1..Len(s) |-> s[n]]
    BY <1>2, <1>3
  <2>2. s = [n \in 1..Len(s) |-> s[n]]
    BY <1>1
  <2> QED
    BY <2>1, <2>2
<1>6. \A x \in Range(s) : routing_candidate_for_profile(x) \in Range(Made(s))
  BY <1>1, <1>3 DEF Range
<1> QED
  BY <1>4, <1>5, <1>6

\* The rows the dialog opens with.
LEMMA CandidatesAreRows ==
  CandidateRows \in Rows(Providers)
<1>1. SavedOrder \in Seq(Providers) /\ IsInjective(SavedOrder)
  BY EditorAssumption DEF Providers
<1> QED
  BY <1>1, OnlyKeeps DEF CandidateRows, Rows

\* At most the first of the checked rows stays checked.
LEMMA HeadOnly ==
  ASSUME NEW S, NEW ids \in Rows(S), NEW m \in Modes
  PROVE  /\ normalized_candidate_ids_for_mode(m, ids) \in Rows(S)
         /\ Range(normalized_candidate_ids_for_mode(m, ids)) \subseteq Range(ids)
         /\ (m = "Manual" => \E c : Range(ids) \subseteq {c})
              => Range(normalized_candidate_ids_for_mode(m, ids)) = Range(ids)
<1>1. CASE ~(m = "Manual" /\ ids # <<>>)
  BY <1>1 DEF normalized_candidate_ids_for_mode
<1>2. CASE m = "Manual" /\ ids # <<>>
  <2> DEFINE one == <<Head(ids)>>
  <2>1. normalized_candidate_ids_for_mode(m, ids) = one
    BY <1>2 DEF normalized_candidate_ids_for_mode
  <2>2. ids \in Seq(S) /\ Len(ids) \in Nat /\ DOMAIN ids = 1..Len(ids)
    BY DEF Rows
  <2>3. 1 \in DOMAIN ids /\ Head(ids) = ids[1] /\ Head(ids) \in S
    BY <1>2, <2>2
  <2>4. one \in Seq(S) /\ DOMAIN one = {1} /\ one[1] = ids[1]
    BY <2>3
  <2> HIDE DEF one
  <2>5. Range(one) = {ids[1]} /\ ids[1] \in Range(ids)
    BY <2>3, <2>4 DEF Range
  <2>6. one \in Rows(S)
    BY <2>4 DEF Rows, IsInjective
  <2> QED
    BY <1>2, <2>1, <2>5, <2>6
<1> QED
  BY <1>1, <1>2

\* The checked rows are rows, and all that is checked.
LEMMA CheckedAre ==
  ASSUME NEW ed \in Editors
  PROVE  /\ CheckedRows(ed) \in Rows(Providers)
         /\ Range(CheckedRows(ed)) = Range(ed.rows) \cap ed.checked
  BY OnlyKeeps DEF Editors, Rows, CheckedRows

\* enforce_manual_candidate_selection takes checks away; it takes none away if there is
\* at most one.
LEMMA EnforceKeeps ==
  ASSUME NEW ed \in Editors, ed.checked \subseteq Range(ed.rows)
  PROVE  \E C \in SUBSET ed.checked :
           /\ enforce_manual_candidate_selection(ed) = [ed EXCEPT !.checked = C]
           /\ (\E c : ed.checked \subseteq {c}) => C = ed.checked
<1> DEFINE ids == CheckedRows(ed)
           C == Range(normalized_candidate_ids_for_mode("Manual", ids))
<1>1. ids \in Rows(Providers) /\ Range(ids) = ed.checked
  BY CheckedAre
<1> HIDE DEF ids
<1>2. /\ C \subseteq ed.checked
      /\ (\E c : ed.checked \subseteq {c}) => C = ed.checked
  BY <1>1, HeadOnly DEF Modes
<1>3. enforce_manual_candidate_selection(ed) = [ed EXCEPT !.checked = C]
  BY DEF enforce_manual_candidate_selection, ids
<1> QED
  BY <1>2, <1>3

\* What Sound says of an editor, but for what is loaded.
Tidy(ed) ==
  /\ ed \in Editors
  /\ ed.checked \subseteq Range(ed.rows)
  /\ ~(ed.local /\ ed.remote)
  /\ ed.edited # "none" => ed.editing \in Profiles

\* The two editors have the same fields but for those named.
LEMMA ModeKeeps ==
  ASSUME NEW ed, Tidy(ed), NEW m \in Modes
  PROVE  \E C \in SUBSET ed.checked : SetMode(ed, m) = [ed EXCEPT !.mode = m, !.checked = C]
<1> DEFINE e == [ed EXCEPT !.mode = m]
<1>1. e \in Editors /\ e.checked \subseteq Range(e.rows) /\ e.checked = ed.checked
  BY DEF Tidy, Editors
<1>2. CASE m = "Manual" /\ ed.mode # m
  <2>1. PICK C \in SUBSET e.checked : enforce_manual_candidate_selection(e) = [e EXCEPT !.checked = C]
    BY <1>1, EnforceKeeps
  <2>2. SetMode(ed, m) = [e EXCEPT !.checked = C]
    BY <1>2, <2>1 DEF SetMode
  <2> QED
    BY <1>1, <2>2
<1>3. CASE ~(m = "Manual" /\ ed.mode # m)
  <2>1. SetMode(ed, m) = e
    BY <1>3 DEF SetMode
  <2>2. e = [ed EXCEPT !.mode = m, !.checked = ed.checked]
    BY DEF Tidy, Editors
  <2> QED
    BY <2>1, <2>2
<1> QED
  BY <1>2, <1>3

\* A change by the user leaves a sound editor sound: nothing counts as loaded after it.
LEMMA EditedKeeps ==
  ASSUME ReInv, NEW ed, Tidy(ed), Edited(ed)
  PROVE  ReInv'
<1>1. editor' = [ed EXCEPT !.loaded = FALSE]
  BY DEF Edited
<1>2. Sound([ed EXCEPT !.loaded = FALSE])
  BY DEF Tidy, Sound, Editors
<1> QED
  BY <1>1, <1>2 DEF ReInv, Edited

\* An open dialog is sound.
LEMMA SoundIsTidy ==
  ASSUME ReInv, editor.open
  PROVE  Sound(editor) /\ Tidy(editor)
<1>1. editor # Closed
  BY DEF Closed
<1> QED
  BY <1>1 DEF ReInv, Sound, Tidy

\* The user's changes, one by one.
LEMMA ChangesKeep ==
  ASSUME ReInv,
         \/ ToggleLocal \/ ToggleRemote
         \/ (\E m \in Modes : ChooseMode(m)) \/ (\E t \in Limits \cup {"bad"} : TypeLimits(t))
         \/ \E p \in Providers :
              \/ ToggleCandidate(p) \/ MoveRow(p, 1) \/ MoveRow(p, 0 - 1)
              \/ \E q \in Providers : DropRow(p, q)
  PROVE  ReInv'
<1>0. editor.open
  BY DEF ToggleLocal, ToggleRemote, ChooseMode, TypeLimits, ToggleCandidate, MoveRow, DropRow, Edited
<1>1. Tidy(editor)
  BY <1>0, SoundIsTidy
<1>2. ASSUME NEW b \in BOOLEAN
      PROVE  Tidy(SetLocal(editor, b)) /\ Tidy(SetRemote(editor, b))
  BY <1>1, <1>2, ZenonT(40) DEF Tidy, Editors, SetLocal, SetRemote
<1>3. CASE ToggleLocal
  <2>1. Tidy(SetLocal(editor, ~editor.local))
    BY <1>1, <1>2 DEF Tidy, Editors
  <2> QED
    BY <1>3, <2>1, EditedKeeps DEF ToggleLocal
<1>4. CASE ToggleRemote
  <2>1. Tidy(SetRemote(editor, ~editor.remote))
    BY <1>1, <1>2 DEF Tidy, Editors
  <2> QED
    BY <1>4, <2>1, EditedKeeps DEF ToggleRemote
<1>5. CASE \E m \in Modes : ChooseMode(m)
  <2>1. PICK m \in Modes : ChooseMode(m)
    BY <1>5
  <2>2. PICK C \in SUBSET editor.checked : SetMode(editor, m) = [editor EXCEPT !.mode = m, !.checked = C]
    BY <1>1, ModeKeeps
  <2>3. Tidy([editor EXCEPT !.mode = m, !.checked = C])
    BY <1>1 DEF Tidy, Editors
  <2>4. Tidy(SetMode(editor, m))
    BY <2>2, <2>3
  <2> QED
    BY <2>1, <2>4, EditedKeeps DEF ChooseMode
<1>6. CASE \E t \in Limits \cup {"bad"} : TypeLimits(t)
  <2>1. PICK t \in Limits \cup {"bad"} : TypeLimits(t)
    BY <1>6
  <2>2. Tidy([editor EXCEPT !.limits = t])
    BY <1>1 DEF Tidy, Editors
  <2> QED
    BY <2>1, <2>2, EditedKeeps DEF TypeLimits
<1>7. ASSUME NEW ids \in Rows(Providers), Range(ids) = Range(editor.rows)
      PROVE  Tidy([editor EXCEPT !.rows = ids])
  BY <1>1, <1>7 DEF Tidy, Editors
<1>8. editor.rows \in Rows(Providers)
  BY <1>1 DEF Tidy, Editors
<1>9. ASSUME NEW p \in Providers,
             \/ ToggleCandidate(p) \/ MoveRow(p, 1) \/ MoveRow(p, 0 - 1)
             \/ \E q \in Providers : DropRow(p, q)
      PROVE  ReInv'
  <2>1. CASE ToggleCandidate(p)
    <3>1. \/ Edited([editor EXCEPT !.checked = @ \ {p}])
          \/ Edited([editor EXCEPT !.checked = @ \cup {p}]) /\ p \in Range(editor.rows)
      BY <2>1 DEF ToggleCandidate
    <3>2. Tidy([editor EXCEPT !.checked = @ \ {p}])
      BY <1>1 DEF Tidy, Editors
    <3>3. ASSUME p \in Range(editor.rows)
          PROVE  Tidy([editor EXCEPT !.checked = @ \cup {p}])
      BY <1>1, <3>3 DEF Tidy, Editors
    <3> QED
      BY <3>1, <3>2, <3>3, EditedKeeps
  <2>2. ASSUME NEW o \in {1, 0 - 1}, MoveRow(p, o)
        PROVE  ReInv'
    <3>1. Tidy([editor EXCEPT !.rows = move_routing_profile_id(@, p, o)])
      BY <1>7, <1>8, MoveKeeps
    <3> QED
      BY <2>2, <3>1, EditedKeeps DEF MoveRow
  <2>3. ASSUME NEW q \in Providers, DropRow(p, q)
        PROVE  ReInv'
    <3>1. Tidy([editor EXCEPT !.rows = move_routing_profile_id_before(@, p, q)])
      BY <1>7, <1>8, MoveBeforeKeeps
    <3> QED
      BY <2>3, <3>1, EditedKeeps DEF DropRow
  <2> QED
    BY <1>9, <2>1, <2>2, <2>3
<1> QED
  BY <1>3, <1>4, <1>5, <1>6, <1>9

\* The switches: the other one goes off when one goes on, and nothing else changes.
LEMMA LocalKeeps ==
  ASSUME NEW ed, Tidy(ed), NEW b \in BOOLEAN
  PROVE  LET l == SetLocal(ed, b) IN
         /\ Tidy(l) /\ l.local = b /\ l.mode = ed.mode /\ l.rows = ed.rows
         /\ l.edited = ed.edited /\ l.editing = ed.editing /\ l.shown = ed.shown
  BY DEF Tidy, Editors, SetLocal

\* The same for the switch of remote providers.
LEMMA RemoteKeeps ==
  ASSUME NEW ed, Tidy(ed), NEW b \in BOOLEAN
  PROVE  LET r == SetRemote(ed, b) IN
         /\ Tidy(r) /\ r.remote = b /\ r.mode = ed.mode /\ r.rows = ed.rows
         /\ ~(b /\ ed.local) => r.local = ed.local
         /\ r.edited = ed.edited /\ r.editing = ed.editing /\ r.shown = ed.shown
<1>1. ed.local \in BOOLEAN /\ ed.remote \in BOOLEAN
  BY DEF Tidy, Editors
<1>2. ~(b /\ ed.local) => (IF b /\ ~ed.remote THEN FALSE ELSE ed.local) = ed.local
  BY <1>1
<1>3. SetRemote(ed, b).local = IF b /\ ~ed.remote THEN FALSE ELSE ed.local
  BY DEF Tidy, Editors, SetRemote
<1>4. LET r == SetRemote(ed, b) IN
         /\ Tidy(r) /\ r.remote = b /\ r.mode = ed.mode /\ r.rows = ed.rows
         /\ r.edited = ed.edited /\ r.editing = ed.editing /\ r.shown = ed.shown
  BY DEF Tidy, Editors, SetRemote
<1> QED
  BY <1>2, <1>3, <1>4

\* Edit shows the stored profile, whatever the dialog showed before.
LEMMA LoadShows ==
  ASSUME NEW ed, Tidy(ed), NEW p \in Profiles
  PROVE  LET e == load_routing_profile_editor(ed, p) IN
         /\ Tidy(e)
         /\ e.mode = p.mode /\ e.limits = p.limits /\ e.rows = OrderedPairwise(ed.rows, Named(p))
         /\ e.edited = ed.edited /\ e.editing = ed.editing /\ e.shown = ed.shown
         /\ Showable(p) => /\ e.local = p.local /\ e.remote = p.remote
                           /\ e.checked = Range(Named(p)) \cap Range(e.rows)
<1> DEFINE mode == SetMode(ed, p.mode)
           local == SetLocal(mode, p.local)
           remote == SetRemote(local, p.remote)
           checked == [remote EXCEPT !.limits = p.limits, !.checked = Range(Named(p)) \cap Range(ed.rows)]
           ordered == [checked EXCEPT !.rows = OrderedPairwise(@, Named(p))]
           e == load_routing_profile_editor(ed, p)
<1>0. /\ p.mode \in Modes /\ p.local \in BOOLEAN /\ p.remote \in BOOLEAN /\ p.limits \in Limits
      /\ Named(p) \in Seq(Providers) /\ Len(Named(p)) \in Nat /\ Len(Named(p)) = Len(p.cands)
  BY NamedAre DEF Profiles
<1>1. e = IF p.mode = "Manual" THEN enforce_manual_candidate_selection(ordered) ELSE ordered
  BY DEF load_routing_profile_editor
<1> HIDE DEF mode, local, remote, checked, ordered, e
<1>2. PICK C \in SUBSET ed.checked : mode = [ed EXCEPT !.mode = p.mode, !.checked = C]
  <2>1. \A m \in Modes : \E C \in SUBSET ed.checked :
          SetMode(ed, m) = [ed EXCEPT !.mode = m, !.checked = C]
    BY ModeKeeps
  <2>2. PICK C \in SUBSET ed.checked : SetMode(ed, p.mode) = [ed EXCEPT !.mode = p.mode, !.checked = C]
    BY <1>0, <2>1
  <2> QED
    BY <2>2 DEF mode
<1>3. /\ Tidy(mode) /\ mode.mode = p.mode /\ mode.rows = ed.rows
      /\ mode.edited = ed.edited /\ mode.editing = ed.editing /\ mode.shown = ed.shown
  BY <1>0, <1>2 DEF Tidy, Editors
<1>4. /\ Tidy(local) /\ local.mode = p.mode /\ local.rows = ed.rows /\ local.local = p.local
      /\ local.edited = ed.edited /\ local.editing = ed.editing /\ local.shown = ed.shown
  <2>1. p.local \in BOOLEAN /\ Tidy(mode)
    BY <1>0, <1>3
  <2>2. /\ Tidy(local) /\ local.local = p.local /\ local.mode = mode.mode /\ local.rows = mode.rows
        /\ local.edited = mode.edited /\ local.editing = mode.editing /\ local.shown = mode.shown
    BY <2>1, LocalKeeps DEF local
  <2> QED
    BY <1>3, <2>2
<1>5. /\ Tidy(remote) /\ remote.mode = p.mode /\ remote.rows = ed.rows /\ remote.remote = p.remote
      /\ ~(p.local /\ p.remote) => remote.local = p.local
      /\ remote.edited = ed.edited /\ remote.editing = ed.editing /\ remote.shown = ed.shown
  <2>1. p.remote \in BOOLEAN /\ Tidy(local)
    BY <1>0, <1>4
  <2>2. /\ Tidy(remote) /\ remote.remote = p.remote /\ remote.mode = local.mode /\ remote.rows = local.rows
        /\ ~(p.remote /\ local.local) => remote.local = local.local
        /\ remote.edited = local.edited /\ remote.editing = local.editing /\ remote.shown = local.shown
    BY <2>1, RemoteKeeps DEF remote
  <2> QED
    BY <1>4, <2>2
<1>6. /\ Tidy(checked) /\ checked.mode = p.mode /\ checked.rows = ed.rows /\ checked.remote = p.remote
      /\ checked.limits = p.limits /\ checked.checked = Range(Named(p)) \cap Range(ed.rows)
      /\ ~(p.local /\ p.remote) => checked.local = p.local
      /\ checked.edited = ed.edited /\ checked.editing = ed.editing /\ checked.shown = ed.shown
  <2> DEFINE D == Range(Named(p)) \cap Range(ed.rows)
  <2>1. checked = [remote EXCEPT !.limits = p.limits, !.checked = D]
    BY DEF checked
  <2>2. D \subseteq Range(remote.rows)
    BY <1>5
  <2>3. D \in SUBSET Providers
    <3>1. \A n \in 1..Len(Named(p)) : Named(p)[n] \in Providers
      BY <1>0
    <3>2. DOMAIN Named(p) = 1..Len(Named(p))
      BY <1>0
    <3> QED
      BY <3>1, <3>2 DEF Range
  <2> HIDE DEF D
  <2>4. /\ Tidy(checked) /\ checked.mode = remote.mode /\ checked.rows = remote.rows
        /\ checked.remote = remote.remote /\ checked.local = remote.local
        /\ checked.limits = p.limits /\ checked.checked = D
        /\ checked.edited = remote.edited /\ checked.editing = remote.editing
        /\ checked.shown = remote.shown
    BY <1>0, <1>5, <2>1, <2>2, <2>3 DEF Tidy, Editors
  <2> QED
    BY <1>5, <2>4 DEF D
<1>7. /\ OrderedPairwise(checked.rows, Named(p)) \in Rows(Providers)
      /\ Range(OrderedPairwise(checked.rows, Named(p))) = Range(checked.rows)
  BY <1>0, <1>6, PairwiseKeeps DEF Tidy, Editors
<1>13. ordered = [checked EXCEPT !.rows = OrderedPairwise(checked.rows, Named(p))]
  BY DEF ordered
<1>8. /\ Tidy(ordered) /\ ordered.mode = p.mode /\ ordered.remote = p.remote
      /\ ordered.rows = OrderedPairwise(ed.rows, Named(p))
      /\ ordered.limits = p.limits /\ ordered.checked = Range(Named(p)) \cap Range(ordered.rows)
      /\ ~(p.local /\ p.remote) => ordered.local = p.local
      /\ ordered.edited = ed.edited /\ ordered.editing = ed.editing /\ ordered.shown = ed.shown
  BY <1>6, <1>7, <1>13 DEF Tidy, Editors
<1>9. PICK D \in SUBSET ordered.checked :
        /\ enforce_manual_candidate_selection(ordered) = [ordered EXCEPT !.checked = D]
        /\ (\E c : ordered.checked \subseteq {c}) => D = ordered.checked
  BY <1>8, EnforceKeeps DEF Tidy
<1>10. ASSUME p.mode = "Manual", Showable(p)
       PROVE  D = ordered.checked
  <2>1. Len(Named(p)) = 1
    BY <1>0, <1>10 DEF Showable
  <2>2. DOMAIN Named(p) = {1}
    BY <1>0, <2>1
  <2>3. Range(Named(p)) = {Named(p)[1]}
    BY <2>2 DEF Range
  <2> QED
    BY <1>8, <1>9, <2>3
<1>11. CASE p.mode = "Manual"
  <2>1. e = [ordered EXCEPT !.checked = D]
    BY <1>1, <1>9, <1>11
  <2>2. /\ Tidy(e) /\ e.mode = ordered.mode /\ e.limits = ordered.limits /\ e.rows = ordered.rows
        /\ e.edited = ordered.edited /\ e.editing = ordered.editing /\ e.shown = ordered.shown
        /\ e.local = ordered.local /\ e.remote = ordered.remote /\ e.checked = D
    BY <1>8, <2>1 DEF Tidy, Editors
  <2>3. Showable(p) => ~(p.local /\ p.remote)
    BY DEF Showable
  <2> QED
    BY <1>8, <1>10, <1>11, <2>2, <2>3 DEF e
<1>12. CASE p.mode # "Manual"
  <2>1. e = ordered
    BY <1>1, <1>12
  <2>2. Showable(p) => ~(p.local /\ p.remote)
    BY DEF Showable
  <2> QED
    BY <1>8, <2>1, <2>2 DEF e
<1> QED
  BY <1>11, <1>12

\* main.rs, Edit in the dialog: the profile of the row is loaded and on display.
LEMMA EditKeeps ==
  ASSUME ReInv, NEW i \in RouteIds, Edit(i)
  PROVE  ReInv'
<1> DEFINE p == editor.shown[i]  e == load_routing_profile_editor(editor, p)
<1>1. /\ editor.open /\ i \in DOMAIN editor.shown
      /\ editor' = [e EXCEPT !.editing = p, !.loaded = TRUE, !.edited = i]
      /\ UNCHANGED <<profiles, provider>>
  BY DEF Edit
<1>2. Sound(editor) /\ Tidy(editor)
  BY <1>1, SoundIsTidy
<1>3. p \in Profiles
  <2>1. editor.shown \in Shelves
    BY <1>2 DEF Tidy, Editors
  <2> QED
    BY <1>1, <2>1 DEF Shelves
<1> HIDE DEF p
<1>4. /\ Tidy(e) /\ e.mode = p.mode /\ e.limits = p.limits
      /\ Showable(p) => /\ e.local = p.local /\ e.remote = p.remote
                        /\ e.checked = Range(Named(p)) \cap Range(e.rows)
  BY <1>2, <1>3, LoadShows
<1> HIDE DEF e
<1>5. i # "none"
  BY EditorAssumption
<1>6. Sound(editor')
  BY <1>1, <1>3, <1>4, <1>5 DEF Tidy, Editors, Sound
<1> QED
  BY <1>1, <1>6 DEF ReInv

\* What Save stores of an editor.
LEMMA ShowsAre ==
  ASSUME ReInv, NEW ed, Tidy(ed)
  PROVE  /\ Shows(ed) \in Seq(Providers) /\ IsInjective(Shows(ed))
         /\ Buildable(ed) /\ (ed.mode = "Manual" => \E c : ed.checked \subseteq {c}) =>
              Range(Shows(ed)) = ed.checked \cap HasModel
<1> DEFINE ids == CheckedRows(ed)
           first == normalized_candidate_ids_for_mode(ed.mode, ids)
           there == {p \in Providers : provider[p] # "gone"}
<1>1. ids \in Rows(Providers) /\ Range(ids) = ed.checked /\ ed.mode \in Modes
  BY CheckedAre DEF Tidy, Editors
<1>2. Shows(ed) = Only(first, there)
  BY DEF Shows, ordered_routing_profile_ids, Providers
<1> HIDE DEF ids
<1>3. /\ first \in Rows(Providers)
      /\ (ed.mode = "Manual" => \E c : ed.checked \subseteq {c}) => Range(first) = ed.checked
  <2>1. PICK m \in Modes : m = ed.mode
    BY <1>1
  <2>2. PICK r \in Rows(Providers) : r = ids
    BY <1>1
  <2>3. /\ normalized_candidate_ids_for_mode(m, r) \in Rows(Providers)
        /\ (m = "Manual" => \E c : Range(r) \subseteq {c})
             => Range(normalized_candidate_ids_for_mode(m, r)) = Range(r)
    BY HeadOnly
  <2> QED
    BY <1>1, <2>1, <2>2, <2>3
<1> HIDE DEF first, there
<1>4. /\ Only(first, there) \in Seq(Providers) /\ Range(Only(first, there)) = Range(first) \cap there
      /\ IsInjective(Only(first, there))
  BY <1>3, OnlyKeeps DEF Rows
<1>5. ASSUME Buildable(ed), ed.mode = "Manual" => \E c : ed.checked \subseteq {c}
      PROVE  Range(Shows(ed)) = ed.checked \cap HasModel
  <2>1. Range(Shows(ed)) = ed.checked \cap there
    BY <1>2, <1>3, <1>4, <1>5
  <2>2. Range(Shows(ed)) \subseteq HasModel
    BY <1>5 DEF Buildable
  <2>4. HasModel \subseteq there
    BY EditorAssumption DEF HasModel, there, Providers
  <2>3. ed.checked \subseteq Providers
    BY DEF Tidy, Editors
  <2> QED
    BY <2>1, <2>2, <2>3, <2>4
<1> QED
  BY <1>2, <1>4, <1>5

\* main.rs, Save in the dialog: what it stores is a profile, under the ID being edited or a new one.
LEMMA SaveKeeps ==
  ASSUME ReInv, NEW i \in RouteIds, Save(i)
  PROVE  ReInv'
<1> DEFINE k == routing_constraints_from_controls(editor)
           new == [mode |-> editor.mode, cands |-> Made(Shows(editor)), limits |-> k.limits,
                   local |-> k.local, remote |-> k.remote, extra |-> k.extra]
           id == IF editor.edited = "none" THEN i ELSE editor.edited
<1>1. /\ editor.open /\ UNCHANGED provider
      /\ \/ /\ Buildable(editor) /\ editor' = Closed
            /\ profiles' = [j \in DOMAIN profiles \cup {id} |-> IF j = id THEN new ELSE profiles[j]]
         \/ UNCHANGED <<profiles, editor>>
  BY DEF Save, Made
<1>2. Sound(editor) /\ Tidy(editor)
  BY <1>1, SoundIsTidy
<1>3. CASE UNCHANGED <<profiles, editor>>
  BY <1>1, <1>3 DEF ReInv
<1>4. CASE /\ Buildable(editor) /\ editor' = Closed
           /\ profiles' = [j \in DOMAIN profiles \cup {id} |-> IF j = id THEN new ELSE profiles[j]]
  <2>1. Made(Shows(editor)) \in Seq(RoutingCandidates)
    <3>1. Shows(editor) \in Seq(Providers) /\ Range(Shows(editor)) \subseteq HasModel
      BY <1>2, <1>4, ShowsAre DEF Buildable
    <3> QED
      BY <3>1, MadeAre
  <2>2. /\ editor.mode \in Modes /\ editor.limits \in Limits
        /\ editor.local \in BOOLEAN /\ editor.remote \in BOOLEAN
    BY <1>2, <1>4 DEF Tidy, Editors, Buildable
  <2>3. /\ k.limits = editor.limits /\ k.local = editor.local /\ k.remote = editor.remote
        /\ k.extra \in {"kept", "default"}
    <3>1. editor.edited # "none" => editor.editing.extra \in {"kept", "default"}
      BY <1>2 DEF Sound, Profiles
    <3> QED
      BY <3>1 DEF routing_constraints_from_controls
  <2> HIDE DEF k
  <2>4. new \in Profiles
    BY <2>1, <2>2, <2>3 DEF Profiles
  <2>5. id \in RouteIds
    BY <1>2 DEF Tidy, Editors
  <2> HIDE DEF id, new
  <2>6. PICK D \in SUBSET RouteIds : profiles \in [D -> Profiles]
    BY DEF ReInv, Shelves
  <2>7. D \cup {id} \in SUBSET RouteIds /\ profiles' \in [D \cup {id} -> Profiles]
    BY <1>4, <2>4, <2>5, <2>6
  <2>8. profiles' \in Shelves
    BY <2>7 DEF Shelves
  <2> QED
    BY <1>1, <1>4, <2>8 DEF ReInv
<1> QED
  BY <1>1, <1>3, <1>4

\* The dialog opens and closes, and a provider is removed or loses its model.
LEMMA OpenAndCloseKeep ==
  ASSUME ReInv, OpenEditor \/ CloseEditor \/ \E p \in Providers : ProviderChanges(p)
  PROVE  ReInv'
<1>1. CASE OpenEditor
  <2>1. editor' = NewControls /\ UNCHANGED <<profiles, provider>>
    BY <1>1 DEF OpenEditor
  <2>2. CandidateRows \in Rows(Providers)
    BY CandidatesAreRows
  <2>3. Range(CandidateRows) \subseteq Providers
    <3>1. CandidateRows \in Seq(Providers)
      BY <2>2 DEF Rows
    <3> QED
      BY <3>1 DEF Range
  <2>4. Sound(NewControls)
    BY <2>2, <2>3 DEF ReInv, Sound, NewControls, Editors, Modes, Limits
  <2> QED
    BY <2>1, <2>4 DEF ReInv
<1>2. CASE CloseEditor
  BY <1>2 DEF CloseEditor, ReInv
<1>3. CASE \E p \in Providers : ProviderChanges(p)
  BY <1>3 DEF ProviderChanges, ReInv
<1> QED
  BY <1>1, <1>2, <1>3

\* The inductive invariant of the routing editor.
THEOREM ReInvariant == ReSpec => []ReInv
<1>1. ReInit => ReInv
  <2> SUFFICES ASSUME ReInit
               PROVE  ReInv
    OBVIOUS
  <2>1. PICK i \in RouteIds, p \in StoredProfiles : profiles = [j \in {i} |-> p]
    BY DEF ReInit
  <2>2. p \in Profiles
    BY EditorAssumption DEF StoredProfiles, Profiles, Limits
  <2>3. profiles \in Shelves
    BY <2>1, <2>2 DEF Shelves
  <2> QED
    BY <2>3 DEF ReInit, ReInv, Providers
<1>2. ReInv /\ [ReNext]_reVars => ReInv'
  <2> SUFFICES ASSUME ReInv, [ReNext]_reVars
               PROVE  ReInv'
    OBVIOUS
  <2>1. CASE UNCHANGED reVars
    BY <2>1 DEF reVars, ReInv
  <2>2. CASE ReNext
    BY <2>2, OpenAndCloseKeep, ChangesKeep, EditKeeps, SaveKeeps DEF ReNext, Providers
  <2> QED
    BY <2>1, <2>2
<1> QED
  BY <1>1, <1>2, PTL DEF ReSpec

\* main.rs, the dialog of routing profiles: however the rows are moved, dropped and reloaded,
\* none is lost or doubled, only rows are checked, and the switches for local and remote
\* providers are never both on.
THEOREM RowsStayWhole == ReSpec => []RowsWhole
<1>1. ReInv => RowsWhole
  <2> SUFFICES ASSUME ReInv, editor.open
               PROVE  /\ IsInjective(editor.rows)
                      /\ editor.checked \subseteq Range(editor.rows)
                      /\ ~(editor.local /\ editor.remote)
    BY DEF RowsWhole
  <2>1. Tidy(editor)
    BY SoundIsTidy
  <2> QED
    BY <2>1 DEF Tidy, Editors, Rows
<1> QED
  BY <1>1, ReInvariant, PTL

\* Whatever step changes the stored profiles while an unchanged profile is on display
\* stores what is on display, each candidate made anew.
LEMMA SaveStoresShown ==
  ASSUME ReInv, [ReNext]_reVars, editor.open, editor.loaded, Showable(editor.editing),
         profiles' # profiles
  PROVE  LET p == editor.editing  q == profiles'[editor.edited]
             there == Range(editor.rows) \cap HasModel
         IN
         /\ [p EXCEPT !.cands = <<>>] = [q EXCEPT !.cands = <<>>]
         /\ IsInjective(Named(q)) /\ Range(Named(q)) = Range(Named(p)) \cap there
         /\ \A c \in Range(p.cands) : UpToDate(c) /\ c.provider \in there => c \in Range(q.cands)
<1> DEFINE p == editor.editing
           q == profiles'[editor.edited]
           k == routing_constraints_from_controls(editor)
           new == [mode |-> editor.mode, cands |-> Made(Shows(editor)), limits |-> k.limits,
                   local |-> k.local, remote |-> k.remote, extra |-> k.extra]
<1>1. PICK i \in RouteIds : Save(i)
  BY DEF ReNext, reVars, OpenEditor, CloseEditor, ToggleLocal, ToggleRemote, ChooseMode, TypeLimits,
         ToggleCandidate, MoveRow, DropRow, Edited, ProviderChanges, Edit
<1>2. Sound(editor) /\ Tidy(editor)
  BY SoundIsTidy
<1>3. editor.edited # "none" /\ p \in Profiles
  BY <1>2 DEF Sound
<1>4. /\ Buildable(editor)
      /\ profiles' = [j \in DOMAIN profiles \cup {editor.edited} |->
                        IF j = editor.edited THEN new ELSE profiles[j]]
  BY <1>1, <1>3 DEF Save, Made
<1>5. q = new
  BY <1>4
<1>6. /\ k.limits = p.limits /\ k.local = p.local /\ k.remote = p.remote /\ k.extra = p.extra
      /\ editor.mode = p.mode /\ editor.checked = Range(Named(p)) \cap Range(editor.rows)
  BY <1>2, <1>3 DEF Sound, routing_constraints_from_controls
<1> HIDE DEF k
<1>7. q = [p EXCEPT !.cands = Made(Shows(editor))]
  BY <1>3, <1>5, <1>6 DEF Profiles
<1>8. /\ [p EXCEPT !.cands = <<>>] = [q EXCEPT !.cands = <<>>]
      /\ q.cands = Made(Shows(editor))
  BY <1>3, <1>7 DEF Profiles
<1>9. p.mode = "Manual" => \E c : editor.checked \subseteq {c}
  <2>1. SUFFICES ASSUME p.mode = "Manual"
                 PROVE  \E c : editor.checked \subseteq {c}
    OBVIOUS
  <2>2. Len(p.cands) = 1
    BY <2>1 DEF Showable
  <2>3. DOMAIN Named(p) = {1}
    BY <1>3, <2>2, NamedAre
  <2>4. Range(Named(p)) = {Named(p)[1]}
    BY <2>3 DEF Range
  <2> QED
    BY <1>6, <2>4
<1>10. /\ Shows(editor) \in Seq(Providers) /\ IsInjective(Shows(editor))
       /\ Range(Shows(editor)) = Range(Named(p)) \cap Range(editor.rows) \cap HasModel
  <2>1. Range(Shows(editor)) = editor.checked \cap HasModel
    BY <1>2, <1>4, <1>6, <1>9, ShowsAre
  <2> QED
    BY <1>2, <1>6, <2>1, ShowsAre
<1>11. Named(q) = Shows(editor) /\ \A x \in Range(Shows(editor)) : routing_candidate_for_profile(x) \in Range(q.cands)
  <2>1. Range(Shows(editor)) \subseteq HasModel
    BY <1>10
  <2> QED
    BY <1>8, <1>10, <2>1, MadeAre DEF Named
<1>12. ASSUME NEW c \in Range(p.cands), UpToDate(c), c.provider \in Range(editor.rows) \cap HasModel
       PROVE  c \in Range(q.cands)
  <2>1. c.provider \in Range(Named(p))
    BY <1>3, <1>12, NamedAre
  <2> QED
    BY <1>10, <1>11, <1>12, <2>1 DEF UpToDate
<1> HIDE DEF p, q
<1> QED
  BY <1>8, <1>10, <1>11, <1>12 DEF p, q

\* main.rs, load_routing_profile_editor and default_routing_profile: a profile that was
\* loaded and is saved unchanged keeps its mode, its constraints, the providers it names,
\* and every candidate that its provider would still give, whatever was done in the editor
\* before.  A candidate of other contents is made anew (main.rs:7378).
THEOREM EditAndSaveKeep == ReSpec => EditKeepsProfile
<1>1. ReInv /\ [ReNext]_reVars =>
        [editor.open /\ editor.loaded /\ Showable(editor.editing) /\ profiles' # profiles =>
           LET p == editor.editing
               q == profiles'[editor.edited]
               there == Range(editor.rows) \cap HasModel
           IN
           /\ [p EXCEPT !.cands = <<>>] = [q EXCEPT !.cands = <<>>]
           /\ IsInjective(Named(q)) /\ Range(Named(q)) = Range(Named(p)) \cap there
           /\ \A c \in Range(p.cands) : UpToDate(c) /\ c.provider \in there => c \in Range(q.cands)]_reVars
  BY SaveStoresShown
<1> QED
  BY <1>1, ReInvariant, PTL DEF ReSpec, EditKeepsProfile

\* Edit gives the last candidate of a profile the place before the one that it follows.
TurnsLastPair ==
  \A i \in RouteIds : Edit(i) =>
    LET c == Named(editor.shown[i])  n == Len(c) IN
    n >= 2 /\ c[n] # c[n - 1] /\ {c[n - 1], c[n]} \subseteq Range(editor.rows) =>
      StandsBefore(editor'.rows, c[n], c[n - 1])

\* main.rs:7345, load_routing_profile_editor: in whatever order the rows are and however many
\* candidates a profile has, Edit shows its last two candidates in the opposite order, so
\* the stored order, which README.md:318-320 promises to restore, is not what Edit shows.
THEOREM EditTurnsLastPair == ReSpec => [][TurnsLastPair]_reVars
<1>1. ASSUME ReInv
      PROVE  TurnsLastPair
  <2> SUFFICES ASSUME NEW i \in RouteIds, Edit(i)
               PROVE  LET c == Named(editor.shown[i])  n == Len(c) IN
                      n >= 2 /\ c[n] # c[n - 1] /\ {c[n - 1], c[n]} \subseteq Range(editor.rows) =>
                        StandsBefore(editor'.rows, c[n], c[n - 1])
    BY DEF TurnsLastPair
  <2> DEFINE p == editor.shown[i]  e == load_routing_profile_editor(editor, p)
             c == Named(p)  n == Len(c)
  <2>1. /\ editor.open /\ i \in DOMAIN editor.shown
        /\ editor' = [e EXCEPT !.editing = p, !.loaded = TRUE, !.edited = i]
    BY DEF Edit
  <2>2. Tidy(editor) /\ editor.rows \in Rows(Providers)
    BY <2>1, <1>1, SoundIsTidy DEF Tidy, Editors
  <2>3. p \in Profiles
    <3>1. editor.shown \in Shelves
      BY <2>2 DEF Tidy, Editors
    <3> QED
      BY <2>1, <3>1 DEF Shelves
  <2>4. n \in Nat
    BY <2>3, NamedAre
  <2> HIDE DEF p
  <2>5. Tidy(e) /\ e.rows = OrderedPairwise(editor.rows, c)
    BY <2>2, <2>3, LoadShows
  <2> HIDE DEF e
  <2>6. editor'.rows = OrderedPairwise(editor.rows, c)
    BY <2>1, <2>5 DEF Tidy, Editors
  <2>7. ASSUME n >= 2, c[n] # c[n - 1], {c[n - 1], c[n]} \subseteq Range(editor.rows)
        PROVE  StandsBefore(editor'.rows, c[n], c[n - 1])
    <3>1. /\ 2 <= n /\ c[n - 1] \in Range(editor.rows) /\ c[n] \in Range(editor.rows)
      BY <2>4, <2>7
    <3> HIDE DEF c, n
    <3>2. StandsBefore(OrderedPairwise(editor.rows, c), c[n], c[n - 1])
      BY <2>2, <2>4, <2>7, <3>1, LastPairTurns DEF n
    <3> QED
      BY <2>6, <3>2
  <2> QED
    BY <2>7 DEF p
<1> QED
  BY <1>1, ReInvariant, PTL DEF ReSpec
============================================================================
