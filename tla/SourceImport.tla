---------------------------- MODULE SourceImport ----------------------------
(***************************************************************************)
(* Opening or dropping a source file: the asynchronous read under a lease, *)
(* the spreadsheet dialog, the document job that is created from it, and   *)
(* optical recognition of scanned PDFs, which the worker runs with child   *)
(* processes in a temporary directory.  A second import, a translation and *)
(* the cleanup of temporary files may come at any time in between.         *)
(***************************************************************************)
EXTENDS Naturals, Sequences, FiniteSets

CONSTANTS
  SiMax,       \* bound: imports
  SiCap,       \* COMMAND_CAPACITY
  SiPages,     \* MAX_OCR_PAGES; a PDF may have one more
  SiPipe       \* what a child can write before somebody reads

ASSUME ImportAssumption == {SiMax, SiCap, SiPages, SiPipe} \subseteq Nat /\ SiCap > 0

Files == 1..SiMax
FileKinds == {"text", "xlsx", "scan"}

VARIABLES
  imports,    \* phase and kind of each import
  sheet,      \* the window: whose text, URI and job it has, what it waits for
  icmds,      \* commands not yet taken
  ievs,       \* events not yet applied
  iworker,    \* "idle", "text" or "ocr"
  ocr,        \* the recognition under way
  tmpdirs,    \* directories named linguamesh-ocr-: "live" is the one in use
  stored      \* jobs in the database

siVars == <<imports, sheet, icmds, ievs, iworker, ocr, tmpdirs, stored>>

NoOcr == [of |-> 0, step |-> "none", left |-> 0, need |-> 0, pipe |-> 0, texts |-> 0]

SiInit ==
  /\ imports = [x \in Files |-> [phase |-> "none", kind |-> "text"]]
  /\ sheet = [text |-> 0, uri |-> 0, job |-> 0, ocrOn |-> TRUE, ocr_pending |-> FALSE,
              busy |-> FALSE, asking |-> FALSE]
  /\ icmds = <<>> /\ ievs = <<>> /\ iworker = "idle" /\ ocr = NoOcr
  /\ tmpdirs \in {{}, {"orphan"}} /\ stored = {}

---------------------------------------------------------------------------
(* The window.                                                             *)

Phase(x, p) == imports' = [imports EXCEPT ![x].phase = p]

source_import_allowed == ~sheet.busy

\* The button is greyed out while recognition is awaited, dropping a file is not.
begin_source_file_open(x) ==
  /\ imports[x].phase = "none" /\ source_import_allowed /\ ~sheet.ocr_pending /\ ~sheet.asking
  /\ Phase(x, "dialog")
  /\ UNCHANGED <<sheet, icmds, ievs, iworker, ocr, tmpdirs, stored>>

Opened(x, k) == imports' = [imports EXCEPT ![x] = [phase |-> "reading", kind |-> k]]
ChooseFile(x, k) ==
  /\ imports[x].phase = "dialog" /\ Opened(x, k)
  /\ UNCHANGED <<sheet, icmds, ievs, iworker, ocr, tmpdirs, stored>>
connect_drop(x, k) ==
  /\ imports[x].phase = "none" /\ source_import_allowed /\ Opened(x, k)
  /\ UNCHANGED <<sheet, icmds, ievs, iworker, ocr, tmpdirs, stored>>

\* Too large, expired, unreadable, or refused by decode_document_job_with_lease.
ReadFails(x) ==
  /\ imports[x].phase \in {"dialog", "reading"} /\ Phase(x, "ended")
  /\ UNCHANGED <<sheet, icmds, ievs, iworker, ocr, tmpdirs, stored>>

Full == Len(icmds) = SiCap

\* Fault: a command that could not be queued is awaited.
queue_loaded_document_awaiting(x) ==
  LET scan == imports[x].kind = "scan" /\ sheet.ocrOn IN
  /\ Phase(x, "ended")
  /\ icmds' = IF Full THEN icmds ELSE Append(icmds, [do |-> IF scan THEN "ocr" ELSE "create", x |-> x])
  /\ sheet' = IF scan THEN [sheet EXCEPT !.uri = x, !.ocr_pending = TRUE]
              ELSE IF Full THEN [sheet EXCEPT !.uri = x]
              ELSE [sheet EXCEPT !.uri = x, !.text = x, !.job = x]
  /\ UNCHANGED <<ievs, iworker, ocr, tmpdirs, stored>>

\* A scan goes to recognition and changes nothing else yet; any other document is
\* created, and shown before the worker has taken it.
queue_loaded_document(x) ==
  LET scan == imports[x].kind = "scan" /\ sheet.ocrOn IN
  /\ Phase(x, "ended")
  /\ icmds' = IF Full THEN icmds ELSE Append(icmds, [do |-> IF scan THEN "ocr" ELSE "create", x |-> x])
  /\ sheet' = IF Full THEN [sheet EXCEPT !.uri = x, !.busy = FALSE,
                                         !.ocr_pending = IF scan THEN FALSE ELSE @]
              ELSE IF scan THEN [sheet EXCEPT !.uri = x, !.ocr_pending = TRUE]
              ELSE [sheet EXCEPT !.uri = x, !.text = x, !.job = x]
  /\ UNCHANGED <<ievs, iworker, ocr, tmpdirs, stored>>

load_source_file(x) ==
  \/ imports[x].phase = "reading" /\ imports[x].kind # "xlsx" /\ queue_loaded_document(x)
  \/ /\ imports[x].phase = "reading" /\ imports[x].kind = "xlsx" /\ Phase(x, "select")
     /\ UNCHANGED <<sheet, icmds, ievs, iworker, ocr, tmpdirs, stored>>

\* An invalid range keeps the dialog open; closing it revokes the lease.
ApplySelection(x) == imports[x].phase = "select" /\ queue_loaded_document(x)
CancelSelection(x) ==
  /\ imports[x].phase = "select" /\ Phase(x, "ended")
  /\ UNCHANGED <<sheet, icmds, ievs, iworker, ocr, tmpdirs, stored>>

Free == ~sheet.busy /\ ~sheet.ocr_pending /\ ~sheet.asking

ToggleOcr ==
  /\ Free /\ sheet.job = 0 /\ sheet' = [sheet EXCEPT !.ocrOn = ~@]
  /\ UNCHANGED <<imports, icmds, ievs, iworker, ocr, tmpdirs, stored>>

EditSource ==
  /\ sheet.text # 0 /\ sheet' = [sheet EXCEPT !.text = 0, !.job = 0]
  /\ UNCHANGED <<imports, icmds, ievs, iworker, ocr, tmpdirs, stored>>

TranslateSource ==
  /\ Free /\ sheet.job = 0 /\ ~Full
  /\ icmds' = Append(icmds, [do |-> "text", x |-> 0]) /\ sheet' = [sheet EXCEPT !.busy = TRUE]
  /\ UNCHANGED <<imports, ievs, iworker, ocr, tmpdirs, stored>>

\* The state is looked at when the question is asked, not when it is answered.
AskClearTemporary ==
  /\ Free /\ sheet' = [sheet EXCEPT !.asking = TRUE]
  /\ UNCHANGED <<imports, icmds, ievs, iworker, ocr, tmpdirs, stored>>
ClearTemporary(yes) ==
  /\ sheet.asking /\ sheet' = [sheet EXCEPT !.asking = FALSE]
  /\ tmpdirs' = IF yes THEN {} ELSE tmpdirs
  /\ UNCHANGED <<imports, icmds, ievs, iworker, ocr, stored>>

---------------------------------------------------------------------------
(* The worker.                                                             *)

Answer(e) == ievs' = Append(ievs, e)
Updated(x) == [ev |-> "Updated", x |-> x]
Refusal == [ev |-> "DocumentRejected"]
HeadIs(do) == icmds # <<>> /\ Head(icmds).do = do /\ icmds' = Tail(icmds)

CreateJob ==
  /\ iworker = "idle" /\ HeadIs("create")
  /\ \/ stored' = stored \cup {Head(icmds).x} /\ Answer(Updated(Head(icmds).x))
     \/ stored' = stored /\ Answer(Refusal)
  /\ UNCHANGED <<imports, sheet, iworker, ocr, tmpdirs>>

BusyWithText ==
  /\ iworker = "text" /\ icmds # <<>> /\ icmds' = Tail(icmds)
  /\ Answer(IF Head(icmds).do = "text" THEN [ev |-> "TextEnded"] ELSE Refusal)
  /\ UNCHANGED <<imports, sheet, iworker, ocr, tmpdirs, stored>>

TranslateText_taken ==
  /\ iworker = "idle" /\ HeadIs("text") /\ iworker' = "text"
  /\ UNCHANGED <<imports, sheet, ievs, ocr, tmpdirs, stored>>
TextDone ==
  /\ iworker = "text" /\ iworker' = "idle" /\ Answer([ev |-> "TextEnded"])
  /\ UNCHANGED <<imports, sheet, icmds, ocr, tmpdirs, stored>>

\* recognize_pdf: no PDF, no tools or no directory, or the first child is started.
OcrDocumentJob ==
  /\ iworker = "idle" /\ HeadIs("ocr")
  /\ \/ Answer(Refusal) /\ UNCHANGED <<iworker, ocr, tmpdirs>>
     \/ /\ iworker' = "ocr" /\ tmpdirs' = tmpdirs \cup {"live"} /\ ievs' = ievs
        /\ ocr' = [NoOcr EXCEPT !.of = Head(icmds).x, !.step = "render"]
  /\ UNCHANGED <<imports, sheet, stored>>

\* Drop for OcrTempDir on every way out.
OcrEnds(e) ==
  /\ iworker' = "idle" /\ ocr' = NoOcr /\ tmpdirs' = tmpdirs \ {"live"} /\ Answer(e)
  /\ UNCHANGED <<imports, sheet, icmds>>

Recognising(step) == iworker = "ocr" /\ ocr.step = step

\* pdftoppm ended: n pages in the directory, if that is still there.
RenderEnds(n) ==
  /\ Recognising("render") /\ stored' = stored
  /\ IF n \in 1..SiPages /\ "live" \in tmpdirs
     THEN /\ \E k \in 0..(SiPipe + 1) : ocr' = [ocr EXCEPT !.step = "page", !.left = n, !.need = k]
          /\ UNCHANGED <<imports, sheet, icmds, ievs, iworker, tmpdirs>>
     ELSE OcrEnds(Refusal)

\* tesseract writes to a pipe that is read only after the child has ended.
ChildWrites ==
  /\ Recognising("page") /\ ocr.need > 0 /\ ocr.pipe < SiPipe
  /\ ocr' = [ocr EXCEPT !.need = @ - 1, !.pipe = @ + 1]
  /\ UNCHANGED <<imports, sheet, icmds, ievs, iworker, tmpdirs, stored>>

\* run_process: the deadline ends a child that has not ended by itself.
run_process_deadline ==
  iworker = "ocr" /\ stored' = stored /\ OcrEnds(Refusal)

\* One page is read; the last one makes the document, if any page had text.
PageRead ==
  LET texts == ocr.texts + (IF ocr.pipe > 0 THEN 1 ELSE 0) IN
  /\ Recognising("page") /\ ocr.need = 0
  /\ \/ "live" \notin tmpdirs /\ stored' = stored /\ OcrEnds(Refusal)
     \/ /\ "live" \in tmpdirs /\ ocr.left > 1 /\ stored' = stored
        /\ \E k \in 0..(SiPipe + 1) :
             ocr' = [ocr EXCEPT !.left = @ - 1, !.need = k, !.pipe = 0, !.texts = texts]
        /\ UNCHANGED <<imports, sheet, icmds, ievs, iworker, tmpdirs>>
     \/ "live" \in tmpdirs /\ ocr.left = 1 /\ texts = 0 /\ stored' = stored /\ OcrEnds(Refusal)
     \* document_job_from_ocr, then save_document_job
     \/ "live" \in tmpdirs /\ ocr.left = 1 /\ texts > 0 /\ stored' = stored \cup {ocr.of} /\ OcrEnds(Updated(ocr.of))
     \/ "live" \in tmpdirs /\ ocr.left = 1 /\ texts > 0 /\ stored' = stored /\ OcrEnds(Refusal)

---------------------------------------------------------------------------
(* Events: any report about a document ends the wait for recognition.      *)

ShownAs(e) ==
  CASE e.ev = "Updated" -> [sheet EXCEPT !.ocr_pending = FALSE, !.job = e.x]
    [] e.ev = "DocumentRejected" -> [sheet EXCEPT !.ocr_pending = FALSE, !.busy = FALSE]
    [] OTHER -> [sheet EXCEPT !.busy = FALSE]

ApplyImportEvent ==
  /\ ievs # <<>> /\ ievs' = Tail(ievs) /\ sheet' = ShownAs(Head(ievs))
  /\ UNCHANGED <<imports, icmds, iworker, ocr, tmpdirs, stored>>

SiNext ==
  \/ \E x \in Files :
       \/ begin_source_file_open(x) \/ ReadFails(x) \/ load_source_file(x)
       \/ ApplySelection(x) \/ CancelSelection(x)
       \/ \E k \in FileKinds : ChooseFile(x, k) \/ connect_drop(x, k)
  \/ ToggleOcr \/ EditSource \/ TranslateSource \/ AskClearTemporary
  \/ (\E yes \in BOOLEAN : ClearTemporary(yes))
  \/ CreateJob \/ BusyWithText \/ TranslateText_taken \/ TextDone \/ OcrDocumentJob
  \/ (\E n \in 0..(SiPages + 1) : RenderEnds(n)) \/ ChildWrites \/ run_process_deadline \/ PageRead
  \/ ApplyImportEvent

---------------------------------------------------------------------------
(* Properties.                                                             *)

\* A window that waits for recognition, with every control greyed out, waits for
\* something: the command is queued, the worker is at it, or an answer is on the way.
\* No refusal, full queue, second import, time-out or removed directory leaves it
\* waiting for nothing; and a directory in use belongs to a recognition under way.
OcrAnswered ==
  /\ sheet.ocr_pending =>
       \/ iworker = "ocr" \/ \E i \in DOMAIN icmds : icmds[i].do = "ocr"
       \/ \E i \in DOMAIN ievs : ievs[i].ev \in {"Updated", "DocumentRejected"}
  /\ "live" \in tmpdirs => iworker = "ocr"
============================================================================
