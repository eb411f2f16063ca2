------------------------- MODULE TranslationStream -------------------------
(***************************************************************************)
(* One text translation inside the worker, from the command to its last    *)
(* event: the choice among the candidates of a routing profile, back-off,  *)
(* the circuit breaker, the approved fallback, the renumbering of the      *)
(* events of whoever serves the rest, and what is recorded at the end.     *)
(*                                                                         *)
(* A failed event is taken from the stream and the worker then walks the   *)
(* remaining candidates inside that step of its loop: while it walks it    *)
(* takes no command, and Stop reaches only what is in the slot.            *)
(*                                                                         *)
(* The event queue is left out (ProviderSession has it): the window        *)
(* applies an event when it is sent.  The engine and the routing planner   *)
(* are external; a request and a text are named by who serves them.        *)
(***************************************************************************)
EXTENDS Naturals, Sequences

CONSTANTS
  Providers,     \* saved provider profiles
  Models,        \* model identifiers
  Routes,        \* decisions of the planner: sequences of candidates
  Active,        \* the connected provider; it offers every model
  ActiveModel,   \* the selected model, which every request names
  Fallbacks,     \* profiles that may be chosen as the approved fallback
  Threshold,     \* circuit_failure_threshold
  MaxRequests,   \* bound: requests in one life of the worker
  MaxText,       \* bound: text events of one operation
  None

Candidates == [provider : Providers, model : Models]

ASSUME StreamAssumption ==
  /\ Routes \subseteq Seq(Candidates) \ {<<>>}
  /\ Active \in Providers /\ ActiveModel \in Models /\ Fallbacks \subseteq Providers
  /\ Threshold \in Nat \ {0} /\ MaxRequests \in Nat /\ MaxText \in Nat
  /\ None \notin Providers /\ None \notin Nat

VARIABLES
  win,        \* the window: status, last sequence applied, text shown
  emitted,    \* the last event the worker sent for this request: phase and number
  queue,      \* commands not yet taken: Cancel only, the others are refused
  job,        \* where the worker is
  slot,       \* active_cancellation: None, "connection" or "operation"
  cancelled,  \* cancelled tokens
  down,       \* shutdown_cancellation
  circuit,    \* the circuit breaker
  sent,       \* the providers the text was given to, in order
  stored,     \* the text recorded in history and memory for this request
  request     \* the last request: its number and whom it names

vars == <<win, emitted, queue, job, slot, cancelled, down, circuit, sent, stored, request>>

Idle == [pc |-> "idle"]
Stopped == [pc |-> "stopped"]
Fresh == [fails |-> 0, until |-> "none"]

Init ==
  /\ win = [status |-> "Ready", last |-> None, text |-> <<>>]
  /\ emitted = [phase |-> "idle", last |-> None]
  /\ queue = <<>> /\ job = Idle /\ slot = None /\ cancelled = {} /\ down = FALSE
  /\ circuit = [c \in Candidates |-> Fresh]
  /\ sent = <<>> /\ stored = None /\ request = [n |-> 0, kind |-> None]

Terminal(k) == k \in {"Completed", "Cancelled", "Failed"}
\* The slot names what it can cancel; a new token is not cancelled yet.
Occupy(t) == slot' = t /\ cancelled' = cancelled \ {t}

---------------------------------------------------------------------------
(* The window.                                                             *)

Kinds == {[by |-> "plain"]} \cup {[by |-> "fallback", id |-> p] : p \in Fallbacks}
         \cup {[by |-> "routing", route |-> r] : r \in Routes}

\* Translate, with fallback approved in the dialog or a routing profile selected.
ClickTranslate(kind, incognito) ==
  /\ request.n < MaxRequests /\ job = Idle /\ ~down /\ queue = <<>>
  /\ win.status \notin {"Translating", "Cancelling"}
  /\ request' = [n |-> request.n + 1, kind |-> kind]
  /\ win' = [status |-> "Translating", last |-> None, text |-> <<>>]
  /\ emitted' = [phase |-> "asked", last |-> None]
  /\ job' = [pc |-> "take", kind |-> kind, incognito |-> incognito]
  /\ sent' = <<>> /\ stored' = None /\ cancelled' = {}
  /\ UNCHANGED <<queue, slot, down, circuit>>

\* try_send(Cancel): straight to the slot, or into the queue.
ClickStop ==
  /\ win.status = "Translating" /\ win' = [win EXCEPT !.status = "Cancelling"]
  /\ \/ slot # None /\ cancelled' = cancelled \cup {slot} /\ queue' = queue
     \/ slot = None /\ queue' = Append(queue, "Cancel") /\ cancelled' = cancelled
  /\ UNCHANGED <<emitted, job, slot, down, circuit, sent, stored, request>>

Shutdown ==
  /\ ~down /\ down' = TRUE
  /\ UNCHANGED <<win, emitted, queue, job, slot, cancelled, circuit, sent, stored, request>>

CoolDown(c) ==
  /\ circuit[c].until = "future"
  /\ circuit' = [circuit EXCEPT ![c].until = "past"]
  /\ UNCHANGED <<win, emitted, queue, job, slot, cancelled, down, sent, stored, request>>

\* apply_translation_event; a refused event also sends Cancel.
Accepts(k, n) ==
  /\ ~Terminal(win.status)
  /\ (win.last = None) <=> (k = "Started")
  /\ win.last # None => n > win.last

Shown(k, n, text) ==
  IF ~Accepts(k, n) THEN [win EXCEPT !.status = "Cancelling"]
  ELSE [status |-> IF Terminal(k) THEN k ELSE win.status, last |-> n,
        text |-> win.text \o text]

\* The worker sends one event of the translation.
Emit(k, n, text) ==
  /\ win' = Shown(k, n, text)
  /\ emitted' = [phase |-> IF Terminal(k) THEN "ended" ELSE "open", last |-> n]

\* TranslationRejected, OperationFailed: record_operation_failure.
Reject ==
  /\ win' = [win EXCEPT !.status = "Failed"]
  /\ emitted' = [emitted EXCEPT !.phase = "ended"]

---------------------------------------------------------------------------
(* The circuit breaker; time only passes from one check to the next.       *)

is_open(c) == circuit[c].until = "future"
\* is_open forgets failures whose cool-down is over.
Checked(c) == IF circuit[c].until = "past" THEN [circuit EXCEPT ![c] = Fresh] ELSE circuit

\* Fault: one failure more than the policy allows.
record_failure_late(cs, c) ==
  [cs EXCEPT ![c] = [fails |-> @.fails + 1,
                     until |-> IF @.fails + 1 > Threshold THEN "future" ELSE @.until]]

record_failure(cs, c) ==
  [cs EXCEPT ![c] = [fails |-> @.fails + 1,
                     until |-> IF @.fails + 1 >= Threshold THEN "future" ELSE @.until]]

record_success(cs, c) == [cs EXCEPT ![c] = Fresh]

---------------------------------------------------------------------------
(* The walk over the candidates.  use = "select": before anything was sent; *)
(* use = "switch": the translation tr failed with sequence number n.        *)

\* routing_profile, then RoutingProfile::select (external), may reject.
TakeRouting ==
  /\ job.pc = "take" /\ job.kind.by = "routing"
  /\ \/ /\ job' = [pc |-> "check", use |-> "select", rest |-> job.kind.route, first |-> TRUE,
                   failed |-> FALSE, incognito |-> job.incognito]
        /\ UNCHANGED <<win, emitted>>
     \/ job' = Idle /\ Reject
  /\ UNCHANGED <<queue, slot, cancelled, down, circuit, sent, stored, request>>

\* Fault: a fallback that may be chosen counts as approved.
TakeDirect_unapproved ==
  /\ job.pc = "take" /\ job.kind.by # "routing"
  /\ \E p \in Fallbacks \cup {None} :
       job' = [pc |-> "lookup", by |-> Active, model |-> ActiveModel, rest |-> <<>>,
               routing |-> FALSE, incognito |-> job.incognito, fb |-> p]
  /\ UNCHANGED <<win, emitted, queue, slot, cancelled, down, circuit, sent, stored, request>>

TakeDirect ==
  /\ job.pc = "take" /\ job.kind.by # "routing"
  /\ job' = [pc |-> "lookup", by |-> Active, model |-> ActiveModel, rest |-> <<>>,
             routing |-> FALSE, incognito |-> job.incognito,
             fb |-> IF job.kind.by = "fallback" THEN job.kind.id ELSE None]
  /\ UNCHANGED <<win, emitted, queue, slot, cancelled, down, circuit, sent, stored, request>>

\* A candidate is chosen for a request of which nothing was sent yet.
Chosen(c) ==
  [pc |-> "lookup", by |-> c.provider, model |-> c.model, rest |-> Tail(job.rest),
   routing |-> TRUE, incognito |-> job.incognito, fb |-> None]

\* Skipped when its circuit is open; the active session is used as it is; else
\* wait if an earlier candidate failed, then connect.
CheckCandidate ==
  LET c == Head(job.rest) IN
  /\ job.pc = "check" /\ job.rest # <<>>
  /\ circuit' = Checked(c)
  /\ job' = IF is_open(c) THEN [job EXCEPT !.rest = Tail(@), !.first = FALSE]
            ELSE IF job.failed THEN [job EXCEPT !.pc = "wait"]
            ELSE IF job.use = "select" /\ job.first /\ c.provider = Active
                 THEN Chosen(c)
            ELSE [job EXCEPT !.pc = "dial"]
  /\ UNCHANGED <<win, emitted, queue, slot, cancelled, down, sent, stored, request>>

\* wait_for_routing_backoff looks at the shutdown token only.
Wait ==
  /\ job.pc = "wait"
  /\ \/ job' = [job EXCEPT !.pc = "dial"] /\ UNCHANGED <<win, emitted>>
     \/ down /\ job.use = "select" /\ job' = Stopped /\ Reject
     \/ /\ down /\ job.use = "switch"
        /\ job' = [job EXCEPT !.pc = "giveup", !.tr.stop = TRUE] /\ UNCHANGED <<win, emitted>>
  /\ UNCHANGED <<queue, slot, cancelled, down, circuit, sent, stored, request>>

Dial ==
  /\ job.pc = "dial" /\ job' = [job EXCEPT !.pc = "connect"] /\ Occupy("connection")
  /\ UNCHANGED <<win, emitted, queue, down, circuit, sent, stored, request>>

\* Fault: the partial text of the failed provider is forgotten.
Switched_without_text(tr, p, n) ==
  [tr EXCEPT !.by = p, !.raw = 0, !.attempted = TRUE, !.suppress = TRUE, !.next = n, !.output = <<>>]

\* The translation goes on at provider p in place of the failed event number n.
Switched(tr, p, n) ==
  [tr EXCEPT !.by = p, !.raw = 0, !.attempted = TRUE, !.suppress = TRUE, !.next = n]

\* Fault: the candidate that just failed stays in the list.
Rest_again(j) == j.rest

Rest(j) == Tail(j.rest)

\* connect_routing_candidate: its token is a child of the shutdown token.
ConnectCandidate ==
  LET c == Head(job.rest) IN
  /\ job.pc = "connect"
  /\ \/ /\ "connection" \notin cancelled /\ ~down
        /\ circuit' = record_success(circuit, c)
        /\ \/ job.use = "select" /\ job' = Chosen(c) /\ slot' = None /\ UNCHANGED <<cancelled, sent>>
           \/ /\ job.use = "switch" /\ c.model = ActiveModel
              /\ job' = Switched([job.tr EXCEPT !.rest = Rest(job)], c.provider, job.n)
              /\ Occupy("operation") /\ sent' = Append(sent, c.provider)
           \/ /\ job.use = "switch" /\ c.model # ActiveModel
              /\ job' = [job EXCEPT !.pc = "check", !.rest = Rest(job)] /\ slot' = None
              /\ UNCHANGED <<cancelled, sent>>
     \/ /\ job' = [job EXCEPT !.pc = "check", !.rest = Rest(job), !.first = FALSE, !.failed = TRUE]
        /\ slot' = None /\ UNCHANGED <<cancelled, sent>>
        /\ circuit' \in {circuit} \cup (IF "connection" \in cancelled \/ down THEN {}
                                      ELSE {record_failure(circuit, c)})
  /\ UNCHANGED <<win, emitted, queue, down, stored, request>>

\* No candidate is left before anything was sent.
NoCandidate ==
  /\ job.pc = "check" /\ job.rest = <<>> /\ job.use = "select"
  /\ job' = Idle /\ Reject
  /\ UNCHANGED <<queue, slot, cancelled, down, circuit, sent, stored, request>>

---------------------------------------------------------------------------
(* Before the stream: translation memory and the approved fallback.        *)

Translation(j, m) ==
  [pc |-> "stream", by |-> j.by, raw |-> 0, attempted |-> FALSE, suppress |-> FALSE, next |-> 0,
   rest |-> j.rest, routing |-> j.routing, fb |-> j.fb, fbmodel |-> m, output |-> <<>>,
   incognito |-> j.incognito, stop |-> FALSE]

\* begin_translation: the request names ActiveModel, the model shown in the window.
Begin(j, m) ==
  \/ /\ j.model = ActiveModel /\ job' = Translation(j, m)
     /\ Occupy("operation") /\ sent' = Append(sent, j.by) /\ UNCHANGED <<win, emitted>>
  \/ j.model # ActiveModel /\ job' = Idle /\ Reject /\ slot' = None /\ UNCHANGED <<cancelled, sent>>

\* A hit in the memory answers; else a fallback is connected first, if one is approved.
Lookup ==
  /\ job.pc = "lookup"
  /\ \/ /\ ~job.incognito /\ job' = [pc |-> "hit", n |-> 0]
        /\ stored' \in {None, <<"memory">>}
        /\ UNCHANGED <<win, emitted, slot, cancelled, sent>>
     \/ job.fb = None /\ Begin(job, None) /\ UNCHANGED stored
     \/ job.fb = job.by /\ job' = Idle /\ Reject /\ UNCHANGED <<slot, cancelled, sent, stored>>
     \/ /\ job.fb \notin {None, job.by} /\ job' = [job EXCEPT !.pc = "approve"]
        /\ Occupy("connection") /\ UNCHANGED <<win, emitted, sent, stored>>
  /\ UNCHANGED <<queue, down, circuit, request>>

Hit ==
  /\ job.pc = "hit"
  /\ Emit(<<"Started", "TextDelta", "Completed">>[job.n + 1], job.n,
          IF job.n = 1 THEN <<"memory">> ELSE <<>>)
  /\ job' = IF job.n = 2 THEN Idle ELSE [job EXCEPT !.n = @ + 1]
  /\ UNCHANGED <<queue, slot, cancelled, down, circuit, sent, stored, request>>

\* connect_fallback_candidate: any failure rejects the request.
ConnectFallback ==
  /\ job.pc = "approve"
  /\ \/ "connection" \notin cancelled /\ ~down /\ \E m \in Models : Begin(job, m)
     \/ job' = Idle /\ Reject /\ slot' = None /\ UNCHANGED <<cancelled, sent>>
  /\ UNCHANGED <<queue, down, circuit, stored, request>>

---------------------------------------------------------------------------
(* The stream.                                                             *)

\* Fault: an event of the next provider keeps its own number.
Number_own(tr) == tr.raw

\* remap_translation_event: a provider that took over continues the numbers.
Number(tr) == IF tr.attempted THEN tr.next ELSE tr.raw

\* The event is sent to the window; a completed text is recorded first.
Forward(tr, k) ==
  LET n == Number(tr)
      text == IF k = "TextDelta" THEN <<tr.by>> ELSE <<>>
  IN  IF tr.suppress /\ k = "Started"
      THEN /\ job' = [tr EXCEPT !.suppress = FALSE, !.raw = @ + 1]
           /\ UNCHANGED <<win, emitted, slot, stored>>
      ELSE /\ Emit(k, n, text)
           /\ IF Terminal(k)
              THEN /\ job' = IF tr.stop THEN Stopped ELSE Idle
                   /\ slot' = None
                   /\ stored' \in {None} \cup IF k = "Completed" /\ ~tr.incognito
                                           THEN {tr.output} ELSE {}
              ELSE /\ job' = [tr EXCEPT !.next = n + 1, !.raw = @ + 1, !.output = @ \o text]
                   /\ UNCHANGED <<slot, stored>>

\* A refused event sends Cancel back to the operation that is in the slot.
CancelIfRefused(tr, k) ==
  cancelled' = IF Accepts(k, Number(tr)) \/ (tr.suppress /\ k = "Started") THEN cancelled
               ELSE cancelled \cup {"operation"}

\* The engine: Started, texts, one terminal event (external).
EngineMay(tr, k) ==
  /\ k = "Started" <=> tr.raw = 0
  /\ k = "TextDelta" => tr.raw <= MaxText
  /\ k = "Cancelled" => "operation" \in cancelled

Pass(tr, k) == Forward(tr, k) /\ CancelIfRefused(tr, k)

Streaming == job.pc = "stream" /\ (~job.stop => ~down /\ queue = <<>>)

StreamEvent(k) ==
  /\ Streaming /\ EngineMay(job, k) /\ Pass(job, k)
  /\ UNCHANGED <<queue, down, circuit, sent, request>>

\* A failure that is a network error or a time-out, with somebody left to ask.
RoutedFailure ==
  /\ Streaming /\ EngineMay(job, "Failed") /\ job.routing
  /\ circuit' = record_failure(circuit, [provider |-> job.by, model |-> ActiveModel])
  /\ job' = [pc |-> "check", use |-> "switch", rest |-> job.rest, first |-> FALSE,
             failed |-> TRUE, tr |-> job, n |-> job.raw]
  /\ UNCHANGED <<win, emitted, queue, slot, cancelled, down, sent, stored, request>>

\* Fault: the walk swallows the failure that started it.
WalkEnds_silently ==
  /\ \/ job.pc = "giveup"
     \/ job.pc = "check" /\ job.rest = <<>> /\ job.use = "switch"
  /\ job' = Idle /\ slot' = None
  /\ UNCHANGED <<win, emitted, queue, cancelled, down, circuit, sent, stored, request>>

\* The walk ends with nobody: the failure itself is forwarded.
WalkEnds ==
  /\ \/ job.pc = "giveup"
     \/ job.pc = "check" /\ job.rest = <<>> /\ job.use = "switch"
  /\ Pass([job.tr EXCEPT !.routing = FALSE, !.rest = <<>>], "Failed")
  /\ UNCHANGED <<queue, down, circuit, sent, request>>

\* The approved fallback takes over once, if it offers the model of the request.
FallbackFailure ==
  /\ Streaming /\ EngineMay(job, "Failed") /\ job.fb # None /\ ~job.attempted
  /\ \/ /\ job.fbmodel = ActiveModel
        /\ job' = Switched(job, job.fb, job.raw)
        /\ Occupy("operation") /\ sent' = Append(sent, job.fb)
        /\ UNCHANGED <<win, emitted, stored>>
     \/ /\ job.fbmodel # ActiveModel
        /\ Pass([job EXCEPT !.attempted = TRUE, !.fb = None], "Failed") /\ sent' = sent
  /\ UNCHANGED <<queue, down, circuit, request>>

\* The stream ends without a terminal event.
StreamEnds ==
  /\ Streaming /\ Reject /\ slot' = None
  /\ job' = IF job.stop THEN Stopped ELSE Idle
  /\ UNCHANGED <<queue, cancelled, down, circuit, sent, stored, request>>

\* Commands and the shutdown signal go first (biased select).
TakeCancel ==
  /\ queue # <<>> /\ queue' = Tail(queue)
  /\ \/ job = Idle /\ cancelled' = cancelled
     \/ job.pc = "stream" /\ ~job.stop /\ cancelled' = cancelled \cup {"operation"}
  /\ UNCHANGED <<win, emitted, job, slot, down, circuit, sent, stored, request>>

TakeShutdown ==
  /\ down
  /\ \/ job = Idle /\ job' = Stopped /\ cancelled' = cancelled
     \/ /\ job.pc = "stream" /\ ~job.stop /\ job' = [job EXCEPT !.stop = TRUE]
        /\ cancelled' = cancelled \cup {"operation"}
  /\ UNCHANGED <<win, emitted, queue, slot, down, circuit, sent, stored, request>>

---------------------------------------------------------------------------
Worker ==
  \/ TakeRouting \/ TakeDirect \/ CheckCandidate \/ Wait \/ Dial \/ ConnectCandidate
  \/ NoCandidate \/ Lookup \/ Hit \/ ConnectFallback
  \/ \E k \in {"Started", "TextDelta", "Completed", "Cancelled", "Failed"} : StreamEvent(k)
  \/ RoutedFailure \/ WalkEnds \/ FallbackFailure \/ StreamEnds
  \/ TakeCancel \/ TakeShutdown

Next ==
  \/ \E kind \in Kinds, incognito \in BOOLEAN : ClickTranslate(kind, incognito)
  \/ ClickStop \/ Shutdown \/ (\E c \in Candidates : CoolDown(c))
  \/ Worker

\* The worker's task is always polled, waits are at most eight seconds long and
\* every request to a provider has a time-out.
Spec == Init /\ [][Next]_vars /\ WF_vars(Worker)

---------------------------------------------------------------------------
(* Properties.                                                             *)

\* Whoever serves the text, and however often it changes hands, the window sees
\* one stream: Started once, growing sequence numbers, one end, nothing after it.
Contract == INSTANCE StreamContract WITH phase <- emitted.phase, last <- emitted.last
ImplementsContract == Contract!Spec

\* What history and memory record of a completed request is the text the window
\* shows for it, the part received before a change of provider included.
RecordedIsShown == stored # None /\ job.pc \in {"idle", "stopped"} => stored = win.text

\* The text goes to the providers that its own request names and no others, in their
\* order and at most once to each: the active provider alone; the active provider first,
\* then the approved fallback; or the candidates of the routing profile.
Named(kind) ==
  CASE kind.by = "plain" -> <<Active>>
    [] kind.by = "fallback" -> <<Active, kind.id>>
    [] kind.by = "routing" -> [i \in DOMAIN kind.route |-> kind.route[i].provider]
IsSubSeq(s, t) ==
  \E f \in [1..Len(s) -> 1..Len(t)] :
    /\ \A i, j \in 1..Len(s) : i < j => f[i] < f[j]
    /\ \A i \in 1..Len(s) : s[i] = t[f[i]]
SentInOrder ==
  sent # <<>> => /\ IsSubSeq(sent, Named(request.kind))
                 /\ request.kind.by # "routing" => Head(sent) = Active

\* A candidate with as many retryable failures in a row as the policy allows is
\* left alone, by the first choice and by a change of provider, until its
\* cool-down is over.
Contacted(c) == job'.pc = "connect" /\ job.pc = "dial" /\ Head(job.rest) = c
CircuitRests ==
  [][\A c \in Candidates :
       circuit[c].fails >= Threshold /\ circuit[c].until # "past" => ~Contacted(c)]_vars

\* Every request ends in the window, also one that is stopped between candidates.
TranslationEnds ==
  win.status \in {"Translating", "Cancelling"} ~> win.status \in {"Completed", "Cancelled", "Failed"}
============================================================================
