---------------------- MODULE TranslationStreamProofs ----------------------
(***************************************************************************)
(* One translation, for any providers, models, routes and thresholds and   *)
(* any number of requests and texts: to whom the text is given, whom an    *)
(* open circuit protects and, as long as no route changes provider more    *)
(* than once, that the window sees one stream and keeps what it showed.    *)
(***************************************************************************)
EXTENDS TranslationStream, SequenceTheorems, TLAPS

\* Where the worker may be.
Streams ==
  [pc : {"stream"}, by : Providers, raw : Nat, attempted : BOOLEAN, suppress : BOOLEAN, next : Nat,
   rest : Seq(Candidates), routing : BOOLEAN, fb : Fallbacks \cup {None}, fbmodel : Models \cup {None},
   output : Seq(Providers), incognito : BOOLEAN, stop : BOOLEAN]
Taken == [pc : {"take"}, kind : Kinds, incognito : BOOLEAN]
Selecting ==
  [pc : {"check", "wait", "dial", "connect"}, use : {"select"}, rest : Seq(Candidates),
   first : BOOLEAN, failed : BOOLEAN, incognito : BOOLEAN]
Switching ==
  [pc : {"check", "wait", "dial", "connect", "giveup"}, use : {"switch"}, rest : Seq(Candidates),
   first : BOOLEAN, failed : BOOLEAN, tr : Streams, n : Nat]
LookingUp ==
  [pc : {"lookup", "approve"}, by : Providers, model : Models, rest : Seq(Candidates),
   routing : BOOLEAN, incognito : BOOLEAN, fb : Fallbacks \cup {None}]
Hits == [pc : {"hit"}, n : 0..2]
Resting == {Idle, Stopped}
Unsent == Taken \cup Selecting \cup LookingUp   \* nothing was sent to a provider yet

Circuits == [fails : Nat, until : {"none", "future", "past"}]

TypeInv ==
  /\ job \in Resting \cup Unsent \cup Switching \cup Hits \cup Streams
  /\ circuit \in [Candidates -> Circuits] /\ sent \in Seq(Providers)

\* As many failures as the policy allows have opened the circuit.
FailuresOK(cs) == \A c \in Candidates : cs[c].fails >= Threshold => cs[c].until # "none"

\* A candidate that is waited for or about to be asked was looked at, and nobody else
\* fails meanwhile.
AskedOK(j, cs) ==
  /\ j.pc \in {"wait", "dial", "connect"} => j.rest # <<>>
  /\ j.pc \in {"wait", "dial"} => cs[Head(j.rest)].until # "future"

\* The providers s are, in their order, among the first k candidates of the route r.
Within(s, r, k) ==
  \E f \in [1..Len(s) -> 1..k] :
    /\ \A i, j \in 1..Len(s) : i < j => f[i] < f[j]
    /\ \A i \in 1..Len(s) : s[i] = r[f[i]].provider

\* The request names a route; the text went to s, and rest is what is left of the route.
Served(kind, s, rest) ==
  \E r \in Routes, k \in Nat :
    /\ kind = [by |-> "routing", route |-> r]
    /\ k <= Len(r) /\ Len(rest) = Len(r) - k /\ (\A i \in 1..Len(rest) : rest[i] = r[k + i])
    /\ Within(s, r, k)

\* The request names no route, and fb is the fallback it approves.
Direct(kind, fb) ==
  IF fb = None THEN kind = [by |-> "plain"] ELSE kind = [by |-> "fallback", id |-> fb]

InOrder(kind, s) ==
  s # <<>> => /\ IsSubSeq(s, Named(kind))
              /\ kind.by # "routing" => Head(s) = Active

\* What the worker still holds of the request agrees with what the request names.
SentOK(j, s, kind) ==
  /\ j \in Unsent \cup Hits => s = <<>>
  /\ j \in Taken => j.kind = kind
  /\ j \in Selecting => Served(kind, <<>>, j.rest)
  /\ j \in LookingUp => IF j.routing THEN j.fb = None /\ Served(kind, <<j.by>>, j.rest)
                         ELSE j.by = Active /\ Direct(kind, j.fb)
  /\ j \in Streams /\ j.routing => j.fb = None /\ Served(kind, s, j.rest)
  /\ j \in Streams /\ ~j.routing => Direct(kind, j.fb) /\ (~j.attempted => s = <<Active>>)
  /\ j \in Switching => j.tr.routing /\ j.tr.fb = None /\ Served(kind, s, j.rest)
  /\ InOrder(kind, s)

\* What holds whatever the routes are.
WalkInv == TypeInv /\ FailuresOK(circuit) /\ AskedOK(job, circuit) /\ SentOK(job, sent, request.kind)

---------------------------------------------------------------------------
(* The stream, when a route changes provider at most once.                 *)

OneChange == \A r \in Routes : Len(r) <= 2

Asked(e) == e.phase = "asked" /\ e.last = None
OpenBelow(e, n) == e.phase = "open" /\ e.last \in Nat /\ e.last < n

\* What was sent of the stream tr so far, and that its next number is higher.
Flow(tr, e) ==
  /\ tr.suppress = (tr.attempted /\ tr.raw = 0)
  /\ tr.raw = 0 /\ ~tr.attempted => Asked(e) /\ tr.output = <<>>
  /\ tr.raw > 0 \/ tr.attempted => OpenBelow(e, Number(tr))
  /\ ~tr.attempted => tr.next = tr.raw

Events == [phase : {"idle", "asked", "open", "ended"}, last : Nat \cup {None}]

EmittedOK(j, e) ==
  /\ e \in Events
  /\ j \in Resting => e.phase \in {"idle", "ended"}
  /\ j \in Unsent => Asked(e)
  /\ j \in Hits => IF j.n = 0 THEN Asked(e) ELSE e.phase = "open" /\ e.last = j.n - 1
  /\ j \in Streams => Flow(j, e)
  /\ j \in Switching => Flow(j.tr, e) /\ j.tr.raw > 0 /\ j.n = j.tr.raw

\* How much of a route may be left.
RestOK(j) ==
  /\ j \in Selecting => Len(j.rest) <= 2
  /\ j \in LookingUp => Len(j.rest) <= 1 /\ (~j.routing => j.rest = <<>>)
  /\ j \in Streams => Len(j.rest) <= 1 /\ (j.attempted \/ ~j.routing => j.rest = <<>>)
  /\ j \in Switching => Len(j.rest) <= 1 /\ (j.tr.attempted => j.rest = <<>>)

Statuses == {"Ready", "Translating", "Cancelling", "Completed", "Cancelled", "Failed"}
Windows == [status : Statuses, last : Nat \cup {None}, text : Seq(Providers \cup {"memory"})]

\* The window shows an open request: its last event and its text.
Showing(w, e, text) == w.status \in {"Translating", "Cancelling"} /\ w.last = e.last /\ w.text = text

\* The window shows what was sent, and what is recorded is what it shows.
ShownOK(j, e, w, st) ==
  /\ w \in Windows
  /\ j \in Resting => st = None \/ st = w.text
  /\ j \in Unsent => Showing(w, e, <<>>) /\ st = None
  /\ j \in Hits => Showing(w, e, IF j.n = 2 THEN <<"memory">> ELSE <<>>) /\ st \in {None, <<"memory">>}
  /\ j \in Streams => Showing(w, e, j.output) /\ st = None
  /\ j \in Switching => Showing(w, e, j.tr.output) /\ st = None

FlowOK(j, e, w, st) == EmittedOK(j, e) /\ RestOK(j) /\ ShownOK(j, e, w, st)
FlowInv == WalkInv /\ FlowOK(job, emitted, win, stored)

---------------------------------------------------------------------------
(* Where the worker is, by the name of its step.                           *)

LEMMA ByStep ==
  /\ \A j \in Resting : j.pc \in {"idle", "stopped"}
  /\ \A j \in Taken : j.pc = "take"
  /\ \A j \in Selecting : j.pc \in {"check", "wait", "dial", "connect"} /\ j.use = "select"
  /\ \A j \in Switching : j.pc \in {"check", "wait", "dial", "connect", "giveup"} /\ j.use = "switch"
  /\ \A j \in LookingUp : j.pc \in {"lookup", "approve"}
  /\ \A j \in Hits : j.pc = "hit"
  /\ \A j \in Streams : j.pc = "stream"
BY DEF Resting, Taken, Selecting, Switching, LookingUp, Hits, Streams, Idle, Stopped

\* The step and its use tell the kind, and no record is of two kinds.
LEMMA OneKind ==
  ASSUME NEW j \in Resting \cup Unsent \cup Switching \cup Hits \cup Streams
  PROVE  /\ j.pc \in {"idle", "stopped"} => j \in Resting
         /\ j.pc = "take" => j \in Taken
         /\ j.pc \in {"check", "wait", "dial", "connect"} => j \in Selecting \cup Switching
         /\ j.pc = "giveup" => j \in Switching
         /\ j \in Selecting \cup Switching => /\ j.use = "select" => j \in Selecting
                                              /\ j.use = "switch" => j \in Switching
         /\ j.pc \in {"lookup", "approve"} => j \in LookingUp
         /\ j.pc = "hit" => j \in Hits
         /\ j.pc = "stream" => j \in Streams
BY ByStep DEF Unsent

LEMMA Disjoint ==
  /\ \A j \in Resting : j \notin Unsent \cup Switching \cup Hits \cup Streams
  /\ \A j \in Taken : j \notin Resting \cup Selecting \cup LookingUp \cup Switching \cup Hits \cup Streams
  /\ \A j \in Selecting : j \notin Resting \cup Taken \cup LookingUp \cup Switching \cup Hits \cup Streams
  /\ \A j \in LookingUp : j \notin Resting \cup Taken \cup Selecting \cup Switching \cup Hits \cup Streams
  /\ \A j \in Switching : j \notin Resting \cup Unsent \cup Hits \cup Streams
  /\ \A j \in Hits : j \notin Resting \cup Unsent \cup Switching \cup Streams
  /\ \A j \in Streams : j \notin Resting \cup Unsent \cup Switching \cup Hits
BY ByStep DEF Unsent

\* The whole of what the invariant asks of each kind of job.
LEMMA RestingOK ==
  ASSUME NEW j \in Resting, NEW cs, NEW s, NEW kind
  PROVE  /\ AskedOK(j, cs) /\ (SentOK(j, s, kind) <=> InOrder(kind, s))
BY ByStep, Disjoint, Zenon DEF AskedOK, SentOK, Unsent

---------------------------------------------------------------------------
(* Routes.                                                                 *)

LEMMA ServedStart ==
  ASSUME NEW r \in Routes
  PROVE  Served([by |-> "routing", route |-> r], <<>>, r)
<1>1. r \in Seq(Candidates) /\ 0 <= Len(r) /\ 0 \in Nat
  BY StreamAssumption
<1>2. Within(<<>>, r, 0)
  <2> DEFINE f == [i \in 1..0 |-> i]
  <2>1. Len(<<>>) = 0 /\ 1..0 = {}
    OBVIOUS
  <2>2. f \in [1..0 -> 1..0]
    OBVIOUS
  <2> HIDE DEF f
  <2>3. \E g \in [1..0 -> 1..0] : /\ \A i, j \in 1..0 : i < j => g[i] < g[j]
                                 /\ \A i \in 1..0 : <<>>[i] = r[g[i]].provider
    BY <2>1, <2>2
  <2> QED
    BY <2>1, <2>3 DEF Within
<1>3. Len(r) = Len(r) - 0 /\ \A i \in 1..Len(r) : r[i] = r[0 + i]
  BY <1>1
<1> QED
  BY <1>1, <1>2, <1>3 DEF Served

\* The next candidate is passed over.
LEMMA ServedSkip ==
  ASSUME NEW kind, NEW s, NEW rest \in Seq(Candidates), rest # <<>>, Served(kind, s, rest)
  PROVE  Served(kind, s, Tail(rest))
<1>1. PICK r \in Routes, k \in Nat :
        /\ kind = [by |-> "routing", route |-> r]
        /\ k <= Len(r) /\ Len(rest) = Len(r) - k /\ (\A i \in 1..Len(rest) : rest[i] = r[k + i])
        /\ Within(s, r, k)
  BY DEF Served
<1>2. r \in Seq(Candidates) /\ Len(r) \in Nat /\ Len(rest) \in Nat \ {0}
  BY StreamAssumption
<1>3. Len(Tail(rest)) = Len(rest) - 1 /\ \A i \in 1..(Len(rest) - 1) : Tail(rest)[i] = rest[i + 1]
  BY <1>2
<1>4. k + 1 \in Nat /\ k + 1 <= Len(r) /\ Len(Tail(rest)) = Len(r) - (k + 1)
  BY <1>1, <1>2, <1>3
<1>5. \A i \in 1..Len(Tail(rest)) : Tail(rest)[i] = r[(k + 1) + i]
  <2>1. \A i \in 1..Len(Tail(rest)) : i + 1 \in 1..Len(rest) /\ k + (i + 1) = (k + 1) + i
    BY <1>2, <1>3
  <2> QED
    BY <1>1, <1>3, <2>1
<1>6. Within(s, r, k + 1)
  <2>1. PICK f \in [1..Len(s) -> 1..k] :
          /\ \A i, j \in 1..Len(s) : i < j => f[i] < f[j]
          /\ \A i \in 1..Len(s) : s[i] = r[f[i]].provider
    BY <1>1 DEF Within
  <2>2. f \in [1..Len(s) -> 1..(k + 1)]
    OBVIOUS
  <2> QED
    BY <2>1, <2>2 DEF Within
<1> QED
  BY <1>1, <1>4, <1>5, <1>6 DEF Served

\* The next candidate is given the text.
LEMMA ServedTake ==
  ASSUME NEW kind, NEW s \in Seq(Providers), NEW rest \in Seq(Candidates), rest # <<>>,
         Served(kind, s, rest)
  PROVE  Served(kind, Append(s, Head(rest).provider), Tail(rest))
<1> DEFINE p == Head(rest).provider
           t == Append(s, p)
<1>1. PICK r \in Routes, k \in Nat :
        /\ kind = [by |-> "routing", route |-> r]
        /\ k <= Len(r) /\ Len(rest) = Len(r) - k /\ (\A i \in 1..Len(rest) : rest[i] = r[k + i])
        /\ Within(s, r, k)
  BY DEF Served
<1>2. r \in Seq(Candidates) /\ Len(r) \in Nat /\ Len(rest) \in Nat \ {0} /\ Len(s) \in Nat
  BY StreamAssumption
<1>3. Len(Tail(rest)) = Len(rest) - 1 /\ \A i \in 1..(Len(rest) - 1) : Tail(rest)[i] = rest[i + 1]
  BY <1>2
<1>4. k + 1 \in Nat /\ k + 1 <= Len(r) /\ Len(Tail(rest)) = Len(r) - (k + 1) /\ k \in Nat
  BY <1>1, <1>2, <1>3
<1>5. \A i \in 1..Len(Tail(rest)) : Tail(rest)[i] = r[(k + 1) + i]
  <2>1. \A i \in 1..Len(Tail(rest)) : i + 1 \in 1..Len(rest) /\ k + (i + 1) = (k + 1) + i
    BY <1>2, <1>3
  <2> QED
    BY <1>1, <1>3, <2>1
<1>6. Within(t, r, k + 1)
  <2>1. PICK f \in [1..Len(s) -> 1..k] :
          /\ \A i, j \in 1..Len(s) : i < j => f[i] < f[j]
          /\ \A i \in 1..Len(s) : s[i] = r[f[i]].provider
    BY <1>1 DEF Within
  <2>2. p = r[k + 1].provider
    <3>1. Head(rest) = rest[1] /\ 1 \in 1..Len(rest)
      BY <1>2
    <3> QED
      BY <1>1, <3>1
  <2>3. Len(t) = Len(s) + 1 /\ t[Len(s) + 1] = p /\ \A i \in 1..Len(s) : t[i] = s[i]
    <3>1. Head(rest) \in Candidates
      BY <1>2
    <3>2. p \in Providers
      BY <3>1 DEF Candidates
    <3> QED
      BY <1>2, <3>2
  <2> HIDE DEF p, t
  <2> DEFINE g == [i \in 1..Len(t) |-> IF i = Len(s) + 1 THEN k + 1 ELSE f[i]]
  <2>4. g[Len(s) + 1] = k + 1 /\ \A i \in 1..Len(s) : g[i] = f[i] /\ f[i] \in 1..k
    <3>1. \A i \in 1..Len(s) : f[i] \in 1..k
      BY <2>1
    <3>2. \A i \in 1..Len(s) : i \in 1..Len(t) /\ i # Len(s) + 1
      BY <1>2, <2>3
    <3>3. Len(s) + 1 \in 1..Len(t)
      BY <1>2, <2>3
    <3> QED
      BY <3>1, <3>2, <3>3
  <2>5. \A i \in 1..Len(t) : i \in 1..Len(s) \/ i = Len(s) + 1
    BY <1>2, <2>3
  <2>6. g \in [1..Len(t) -> 1..(k + 1)]
    <3>1. ASSUME NEW i \in 1..Len(t)
          PROVE  g[i] \in 1..(k + 1)
      <4>1. CASE i \in 1..Len(s)
        <5>1. g[i] = f[i] /\ f[i] \in 1..k
          BY <2>4, <4>1
        <5>2. \A x \in 1..k : x \in 1..(k + 1)
          BY <1>4
        <5> QED
          BY <5>1, <5>2
      <4>2. CASE i = Len(s) + 1
        BY <1>4, <2>4, <4>2
      <4> QED
        BY <2>5, <4>1, <4>2
    <3> QED
      BY <3>1
  <2> HIDE DEF g
  <2>7. \A i, j \in 1..Len(t) : i < j => g[i] < g[j]
    BY <1>2, <1>4, <2>1, <2>4, <2>5, SMTT(30)
  <2>8. \A i \in 1..Len(t) : t[i] = r[g[i]].provider
    BY <2>1, <2>2, <2>3, <2>4, <2>5
  <2> QED
    BY <2>6, <2>7, <2>8 DEF Within
<1> QED
  BY <1>1, <1>4, <1>5, <1>6 DEF Served

\* What was sent is in the order of the route that the request names.
LEMMA ServedInOrder ==
  ASSUME NEW kind, NEW s \in Seq(Providers), NEW rest, Served(kind, s, rest)
  PROVE  InOrder(kind, s)
<1>1. PICK r \in Routes, k \in Nat :
        kind = [by |-> "routing", route |-> r] /\ k <= Len(r) /\ Within(s, r, k)
  BY DEF Served
<1> DEFINE a == [i \in DOMAIN r |-> r[i].provider]
<1>2. r \in Seq(Candidates) /\ Len(r) \in Nat /\ DOMAIN r = 1..Len(r)
  BY StreamAssumption
<1>3. Len(a) = Len(r) /\ \A i \in 1..Len(r) : a[i] = r[i].provider
  <2>1. \A i \in 1..Len(r) : r[i].provider \in Providers
    <3>1. \A i \in 1..Len(r) : r[i] \in Candidates
      BY <1>2
    <3>2. \A c \in Candidates : c.provider \in Providers
      BY DEF Candidates
    <3> QED
      BY <3>1, <3>2
  <2>2. a \in Seq(Providers)
    BY <1>2, <2>1
  <2> QED
    BY <1>2, <2>2
<1>4. kind.by = "routing" /\ Named(kind) = a
  BY <1>1 DEF Named
<1> HIDE DEF a
<1>5. PICK f \in [1..Len(s) -> 1..k] :
        /\ \A i, j \in 1..Len(s) : i < j => f[i] < f[j]
        /\ \A i \in 1..Len(s) : s[i] = r[f[i]].provider
  BY <1>1 DEF Within
<1>6. \A i \in 1..Len(s) : f[i] \in 1..Len(r)
  <2>1. \A i \in 1..Len(s) : f[i] \in 1..k
    BY <1>5
  <2> QED
    BY <1>1, <1>2, <2>1
<1>7. f \in [1..Len(s) -> 1..Len(a)] /\ \A i \in 1..Len(s) : s[i] = a[f[i]]
  BY <1>3, <1>5, <1>6
<1>8. IsSubSeq(s, a)
  BY <1>5, <1>7 DEF IsSubSeq
<1> QED
  BY <1>4, <1>8 DEF InOrder

LEMMA NothingInOrder == ASSUME NEW kind PROVE InOrder(kind, <<>>)
BY DEF InOrder

\* The active provider alone, and then the approved fallback.
LEMMA DirectInOrder ==
  ASSUME NEW kind, NEW fb \in Fallbacks \cup {None}, Direct(kind, fb)
  PROVE  InOrder(kind, <<Active>>) /\ (fb # None => InOrder(kind, <<Active, fb>>))
<1> DEFINE a == Named(kind)
<1>1. kind.by \in {"plain", "fallback"} /\ Len(a) \in {1, 2} /\ a[1] = Active
  <2>1. CASE fb = None
    <3>1. a = <<Active>>
      BY <2>1 DEF Direct, Named
    <3> QED
      BY <2>1, <3>1 DEF Direct
  <2>2. CASE fb # None
    <3>1. a = <<Active, fb>>
      BY <2>2 DEF Direct, Named
    <3> QED
      BY <2>2, <3>1 DEF Direct
  <2> QED
    BY <2>1, <2>2
<1>2. fb # None => a = <<Active, fb>>
  BY DEF Direct, Named
<1> HIDE DEF a
<1>3. IsSubSeq(<<Active>>, a)
  <2> DEFINE f == [i \in 1..1 |-> i]
  <2>1. Len(<<Active>>) = 1 /\ <<Active>>[1] = Active
    OBVIOUS
  <2>2. f \in [1..1 -> 1..Len(a)] /\ f[1] = 1
    BY <1>1
  <2> HIDE DEF f
  <2>3. \A i, j \in 1..1 : i < j => f[i] < f[j]
    OBVIOUS
  <2>4. \A i \in 1..1 : <<Active>>[i] = a[f[i]]
    BY <1>1, <2>1, <2>2
  <2> QED
    BY <2>1, <2>2, <2>3, <2>4 DEF IsSubSeq
<1>4. ASSUME fb # None PROVE IsSubSeq(a, a)
  <2> DEFINE f == [i \in 1..2 |-> i]
  <2>0. Len(a) = 2
    BY <1>2, <1>4
  <2>1. f \in [1..Len(a) -> 1..Len(a)]
    BY <2>0
  <2>2. \A i, j \in 1..Len(a) : i < j => f[i] < f[j]
    BY <2>0
  <2>3. \A i \in 1..Len(a) : a[i] = a[f[i]]
    BY <2>0
  <2> QED
    BY <2>1, <2>2, <2>3 DEF IsSubSeq
<1>5. <<Active>> # <<>> /\ Head(<<Active>>) = Active /\ <<Active, fb>> # <<>> /\ Head(<<Active, fb>>) = Active
  OBVIOUS
<1> QED
  BY <1>2, <1>3, <1>4, <1>5 DEF InOrder, a

---------------------------------------------------------------------------
(* To whom the text is given and who rests: one lemma per step.            *)

LEMMA CircuitFacts ==
  ASSUME NEW cs \in [Candidates -> Circuits], FailuresOK(cs), NEW c \in Candidates
  PROVE  /\ record_failure(cs, c) \in [Candidates -> Circuits] /\ FailuresOK(record_failure(cs, c))
         /\ record_success(cs, c) \in [Candidates -> Circuits] /\ FailuresOK(record_success(cs, c))
<1> DEFINE n == [fails |-> cs[c].fails + 1,
                 until |-> IF cs[c].fails + 1 >= Threshold THEN "future" ELSE cs[c].until]
<1>1. cs[c] \in Circuits
  OBVIOUS
<1>2. n \in Circuits /\ (n.fails >= Threshold => n.until # "none")
  BY <1>1 DEF Circuits
<1>3. Fresh \in Circuits /\ ~(Fresh.fails >= Threshold)
  BY StreamAssumption DEF Fresh, Circuits
<1>4. record_failure(cs, c) = [cs EXCEPT ![c] = n] /\ record_success(cs, c) = [cs EXCEPT ![c] = Fresh]
  BY DEF record_failure, record_success
<1> HIDE DEF n
<1>5. \A x \in Circuits : [cs EXCEPT ![c] = x] \in [Candidates -> Circuits]
  OBVIOUS
<1>6. \A x \in Circuits : (x.fails >= Threshold => x.until # "none") => FailuresOK([cs EXCEPT ![c] = x])
  BY DEF FailuresOK
<1> QED
  BY <1>2, <1>3, <1>4, <1>5, <1>6

\* A step that asks nobody and sends nothing.
LEMMA SameWalk ==
  ASSUME WalkInv, job' = job, circuit' = circuit, sent' = sent, request' = request
  PROVE  WalkInv'
BY DEF WalkInv, TypeInv

\* The worker rests again, whatever became of the request.
LEMMA RestWalk ==
  ASSUME WalkInv, job' \in Resting, sent' = sent, circuit' = circuit, request' = request
  PROVE  WalkInv'
<1>1. AskedOK(job', circuit')
  BY ByStep DEF AskedOK
<1>2. SentOK(job', sent', request'.kind)
  BY Disjoint DEF SentOK, WalkInv, Unsent
<1> QED
  BY <1>1, <1>2 DEF WalkInv, TypeInv

LEMMA ClickWalk ==
  ASSUME WalkInv, NEW kind \in Kinds, NEW incognito \in BOOLEAN, ClickTranslate(kind, incognito)
  PROVE  WalkInv'
<1>1. /\ job' = [pc |-> "take", kind |-> kind, incognito |-> incognito]
      /\ sent' = <<>> /\ circuit' = circuit /\ request'.kind = kind
  BY DEF ClickTranslate
<1>2. job' \in Taken
  BY <1>1 DEF Taken
<1>3. AskedOK(job', circuit')
  BY <1>2, ByStep DEF AskedOK
<1>4. SentOK(job', sent', request'.kind)
  BY <1>1, <1>2, Disjoint, NothingInOrder DEF SentOK
<1>5. sent' \in Seq(Providers)
  BY <1>1
<1> QED
  BY <1>1, <1>2, <1>3, <1>4, <1>5 DEF WalkInv, TypeInv, Unsent

LEMMA CoolWalk ==
  ASSUME WalkInv, NEW c \in Candidates, CoolDown(c)
  PROVE  WalkInv'
<1>1. /\ circuit \in [Candidates -> Circuits] /\ circuit' = [circuit EXCEPT ![c].until = "past"]
      /\ job' = job /\ sent' = sent /\ request' = request
  BY DEF CoolDown, WalkInv, TypeInv
<1>2. circuit[c] \in Circuits
  BY <1>1
<1>3. circuit' \in [Candidates -> Circuits]
  <2>1. [circuit[c] EXCEPT !.until = "past"] \in Circuits
    BY <1>2 DEF Circuits
  <2> QED
    BY <1>1, <2>1
<1>4. \A d \in Candidates : circuit'[d].fails = circuit[d].fails
                            /\ (circuit'[d].until = circuit[d].until \/ circuit'[d].until = "past")
  BY <1>1, <1>2 DEF Circuits
<1>5. FailuresOK(circuit')
  BY <1>4 DEF FailuresOK, WalkInv
<1>6. AskedOK(job', circuit')
  <2>1. AskedOK(job, circuit)
    BY DEF WalkInv
  <2>2. ASSUME job.pc \in {"wait", "dial"} PROVE circuit'[Head(job.rest)].until # "future"
    <3>1. Head(job.rest) \in Candidates
      <4>1. job \in Selecting \cup Switching
        BY <2>2, OneKind DEF WalkInv, TypeInv
      <4>2. job.rest \in Seq(Candidates) /\ job.rest # <<>>
        BY <2>1, <2>2, <4>1 DEF AskedOK, Selecting, Switching
      <4> QED
        BY <4>2
    <3> QED
      BY <1>4, <2>1, <2>2, <3>1 DEF AskedOK
  <2> QED
    BY <1>1, <2>1, <2>2 DEF AskedOK
<1> QED
  BY <1>1, <1>3, <1>5, <1>6 DEF WalkInv, TypeInv

LEMMA TakeWalk ==
  ASSUME WalkInv, TakeRouting \/ TakeDirect
  PROVE  WalkInv'
<1>1. /\ job \in Taken /\ circuit' = circuit /\ sent' = sent /\ request' = request /\ sent = <<>> /\ job.kind \in Kinds
      /\ job.incognito \in BOOLEAN /\ job.kind = request.kind
  <2>1. job \in Taken
    BY OneKind DEF TakeRouting, TakeDirect, WalkInv, TypeInv
  <2>2. sent = <<>> /\ job.kind = request.kind
    BY <2>1 DEF WalkInv, SentOK, Unsent
  <2> QED
    BY <2>1, <2>2 DEF TakeRouting, TakeDirect, Taken
<1>2. CASE job' = Idle
  BY <1>1, <1>2, RestWalk DEF Resting
<1>3. CASE TakeRouting /\ job' # Idle
  <2>1. /\ job.kind.by = "routing"
        /\ job' = [pc |-> "check", use |-> "select", rest |-> job.kind.route, first |-> TRUE,
                   failed |-> FALSE, incognito |-> job.incognito]
    BY <1>3 DEF TakeRouting
  <2>2. job.kind.route \in Routes /\ job.kind.route \in Seq(Candidates)
    BY <1>1, <2>1, StreamAssumption DEF Kinds
  <2>3. job' \in Selecting /\ job'.pc = "check" /\ job'.rest = job.kind.route
    BY <1>1, <2>1, <2>2 DEF Selecting
  <2>4. AskedOK(job', circuit')
    BY <2>3 DEF AskedOK
  <2>5. Served(request'.kind, <<>>, job'.rest)
    <3>1. request'.kind = [by |-> "routing", route |-> job.kind.route]
      BY <1>1, <2>1 DEF Kinds
    <3> QED
      BY <2>2, <2>3, <3>1, ServedStart
  <2>6. SentOK(job', sent', request'.kind)
    BY <1>1, <2>3, <2>5, Disjoint, NothingInOrder DEF SentOK
  <2> QED
    BY <1>1, <2>3, <2>4, <2>6 DEF WalkInv, TypeInv, Unsent
<1>4. CASE TakeDirect
  <2> DEFINE fb == IF job.kind.by = "fallback" THEN job.kind.id ELSE None
  <2>1. job' = [pc |-> "lookup", by |-> Active, model |-> ActiveModel, rest |-> <<>>,
                routing |-> FALSE, incognito |-> job.incognito, fb |-> fb]
    BY <1>4 DEF TakeDirect
  <2>2. fb \in Fallbacks \cup {None}
    BY <1>1 DEF Kinds
  <2>7. Direct(request'.kind, fb)
    BY <1>1, <1>4, StreamAssumption DEF TakeDirect, Kinds, Direct
  <2> HIDE DEF fb
  <2>3. <<>> \in Seq(Candidates)
    OBVIOUS
  <2>4. /\ job' \in LookingUp /\ job'.pc = "lookup" /\ job'.routing = FALSE /\ job'.by = Active
        /\ job'.fb = fb
    BY <1>1, <2>1, <2>2, <2>3, StreamAssumption DEF LookingUp
  <2>5. AskedOK(job', circuit')
    BY <2>4 DEF AskedOK
  <2>6. SentOK(job', sent', request'.kind)
    BY <1>1, <2>4, <2>7, Disjoint, NothingInOrder DEF SentOK
  <2> QED
    BY <1>1, <2>4, <2>5, <2>6 DEF WalkInv, TypeInv, Unsent
<1> QED
  BY <1>2, <1>3, <1>4

\* What a walk holds, whichever use it has.
LEMMA WalkFacts ==
  ASSUME WalkInv, job.pc \in {"check", "wait", "dial", "connect"}
  PROVE  /\ job \in Selecting \cup Switching /\ job.rest \in Seq(Candidates)
         /\ job.pc # "check" => job.rest # <<>>
         /\ job.rest # <<>> => Head(job.rest) \in Candidates /\ Tail(job.rest) \in Seq(Candidates)
         /\ job \in Selecting => sent = <<>> /\ Served(request.kind, <<>>, job.rest)
         /\ job \in Switching => job.tr \in Streams /\ job.tr.routing /\ job.tr.fb = None /\ Served(request.kind, sent, job.rest)
<1>1. job \in Selecting \cup Switching
  BY OneKind DEF WalkInv, TypeInv
<1>2. job.rest \in Seq(Candidates)
  BY <1>1 DEF Selecting, Switching
<1>3. job.rest # <<>> => Head(job.rest) \in Candidates /\ Tail(job.rest) \in Seq(Candidates)
  BY <1>2
<1>4. job.pc # "check" => job.rest # <<>>
  BY DEF WalkInv, AskedOK
<1>5. job \in Selecting => sent = <<>> /\ Served(request.kind, <<>>, job.rest)
  BY DEF WalkInv, SentOK, Unsent
<1>6. job \in Switching => job.tr \in Streams /\ job.tr.routing /\ job.tr.fb = None /\ Served(request.kind, sent, job.rest)
  BY DEF WalkInv, SentOK, Switching
<1> QED
  BY <1>1, <1>2, <1>3, <1>4, <1>5, <1>6

\* The walk goes on with what is left of the same route.
LEMMA OnWalk ==
  ASSUME WalkInv, job.pc \in {"check", "wait", "dial", "connect"}, sent' = sent, request' = request,
         circuit' \in [Candidates -> Circuits], FailuresOK(circuit'), AskedOK(job', circuit'),
         \/ job \in Selecting /\ job' \in Selecting
         \/ job \in Switching /\ job' \in Switching /\ job'.tr.routing /\ job'.tr.fb = None,
         \A s : Served(request.kind, s, job.rest) => Served(request.kind, s, job'.rest)
  PROVE  WalkInv'
<1>1. SentOK(job', sent', request'.kind)
  <2>1. InOrder(request.kind, sent')
    BY DEF WalkInv, SentOK
  <2>2. CASE job \in Selecting /\ job' \in Selecting
    BY <2>1, <2>2, WalkFacts, Disjoint DEF SentOK
  <2>3. CASE job \in Switching /\ job' \in Switching /\ job'.tr.routing /\ job'.tr.fb = None
    BY <2>1, <2>3, WalkFacts, Disjoint DEF SentOK
  <2> QED
    BY <2>2, <2>3
<1> QED
  BY <1>1 DEF WalkInv, TypeInv, Unsent

\* A candidate chosen before anything was sent.
LEMMA ChosenFacts ==
  ASSUME job \in Selecting, NEW c \in Candidates, Tail(job.rest) \in Seq(Candidates)
  PROVE  /\ Chosen(c) \in LookingUp /\ Chosen(c).pc = "lookup" /\ Chosen(c).routing = TRUE
         /\ Chosen(c).fb = None /\ Chosen(c).by = c.provider /\ Chosen(c).rest = Tail(job.rest)
         /\ Chosen(c).model = c.model
<1>1. c.provider \in Providers /\ c.model \in Models /\ job.incognito \in BOOLEAN
  BY DEF Candidates, Selecting
<1> QED
  BY <1>1 DEF Chosen, LookingUp

LEMMA ChosenWalk ==
  ASSUME WalkInv, job \in Selecting, job.pc \in {"check", "wait", "dial", "connect"}, job.rest # <<>>,
         job' = Chosen(Head(job.rest)), sent' = sent, request' = request,
         circuit' \in [Candidates -> Circuits], FailuresOK(circuit')
  PROVE  WalkInv'
<1> DEFINE c == Head(job.rest)
<1>1. c \in Candidates /\ Tail(job.rest) \in Seq(Candidates) /\ sent = <<>> /\ Served(request.kind, <<>>, job.rest)
      /\ job.rest \in Seq(Candidates)
  BY WalkFacts
<1>2. Served(request.kind, <<c.provider>>, Tail(job.rest))
  <2>1. <<>> \in Seq(Providers) /\ Append(<<>>, c.provider) = <<c.provider>>
    OBVIOUS
  <2> QED
    BY <1>1, <2>1, ServedTake
<1>3. /\ job' \in LookingUp /\ job'.pc = "lookup" /\ job'.routing = TRUE /\ job'.fb = None
      /\ job'.by = c.provider /\ job'.rest = Tail(job.rest)
  BY <1>1, ChosenFacts
<1> HIDE DEF c
<1>4. AskedOK(job', circuit')
  BY <1>3 DEF AskedOK
<1>5. SentOK(job', sent', request'.kind)
  BY <1>1, <1>2, <1>3, Disjoint, NothingInOrder DEF SentOK
<1> QED
  BY <1>3, <1>4, <1>5 DEF WalkInv, TypeInv, Unsent

LEMMA CheckWalk ==
  ASSUME WalkInv, CheckCandidate
  PROVE  WalkInv'
<1> DEFINE c == Head(job.rest)
<1>1. /\ job.pc = "check" /\ job.rest # <<>> /\ circuit' = Checked(c) /\ sent' = sent /\ request' = request
      /\ job' = IF is_open(c) THEN [job EXCEPT !.rest = Tail(@), !.first = FALSE]
                ELSE IF job.failed THEN [job EXCEPT !.pc = "wait"]
                ELSE IF job.use = "select" /\ job.first /\ c.provider = Active THEN Chosen(c)
                ELSE [job EXCEPT !.pc = "dial"]
  BY DEF CheckCandidate
<1>2. /\ job \in Selecting \cup Switching /\ job.rest \in Seq(Candidates) /\ c \in Candidates
      /\ Tail(job.rest) \in Seq(Candidates)
  BY <1>1, WalkFacts
<1>3. circuit \in [Candidates -> Circuits] /\ FailuresOK(circuit)
  BY DEF WalkInv, TypeInv
<1>4. circuit' \in [Candidates -> Circuits] /\ FailuresOK(circuit') /\ (~is_open(c) => circuit'[c].until # "future")
  <2>1. CASE circuit[c].until = "past"
    <3>1. circuit' = record_success(circuit, c)
      BY <1>1, <2>1 DEF Checked, record_success
    <3>2. circuit'[c].until = "none"
      BY <1>2, <1>3, <3>1 DEF record_success, Fresh
    <3> QED
      BY <1>2, <1>3, <3>1, <3>2, CircuitFacts
  <2>2. CASE circuit[c].until # "past"
    BY <1>1, <1>3, <2>2 DEF Checked, is_open
  <2> QED
    BY <2>1, <2>2
<1>5. CASE is_open(c)
  <2>1. job' = [job EXCEPT !.rest = Tail(@), !.first = FALSE]
    BY <1>1, <1>5
  <2>2. /\ job \in Selecting => job' \in Selecting
        /\ job \in Switching => job' \in Switching /\ job'.tr = job.tr
        /\ job'.rest = Tail(job.rest) /\ job'.pc = "check"
    BY <1>1, <1>2, <2>1 DEF Selecting, Switching
  <2>3. \A s : Served(request.kind, s, job.rest) => Served(request.kind, s, job'.rest)
    BY <1>1, <1>2, <2>2, ServedSkip
  <2>4. AskedOK(job', circuit')
    BY <2>2 DEF AskedOK
  <2> QED
    BY <1>1, <1>2, <1>4, <2>2, <2>3, <2>4, WalkFacts, OnWalk
<1>6. ASSUME NEW q \in {"wait", "dial"}, ~is_open(c), job' = [job EXCEPT !.pc = q]
      PROVE  WalkInv'
  <2>1. /\ job \in Selecting => job' \in Selecting
        /\ job \in Switching => job' \in Switching /\ job'.tr = job.tr
        /\ job'.rest = job.rest /\ job'.pc = q
    BY <1>1, <1>2, <1>6 DEF Selecting, Switching
  <2>2. AskedOK(job', circuit')
    BY <1>1, <1>4, <1>6, <2>1 DEF AskedOK
  <2> QED
    BY <1>1, <1>2, <1>4, <2>1, <2>2, WalkFacts, OnWalk
<1>7. CASE job.use = "select" /\ job' = Chosen(c)
  <2>1. job \in Selecting
    BY <1>2, <1>7, OneKind DEF Unsent
  <2> QED
    BY <1>1, <1>4, <1>7, <2>1, ChosenWalk
<1> QED
  BY <1>1, <1>5, <1>6, <1>7

LEMMA WaitWalk ==
  ASSUME WalkInv, Wait \/ Dial \/ NoCandidate
  PROVE  WalkInv'
<1>1. /\ job.pc \in {"check", "wait", "dial"} /\ sent' = sent /\ circuit' = circuit /\ request' = request
      /\ job \in Selecting \cup Switching
  BY WalkFacts DEF Wait, Dial, NoCandidate
<1>2. CASE job' \in Resting
  BY <1>1, <1>2, RestWalk
<1>3. CASE job.pc = "wait" /\ job' = [job EXCEPT !.pc = "dial"]
  <2>1. /\ job \in Selecting => job' \in Selecting
        /\ job \in Switching => job' \in Switching /\ job'.tr = job.tr
        /\ job'.rest = job.rest /\ job'.pc = "dial"
    BY <1>1, <1>3 DEF Selecting, Switching
  <2>2. AskedOK(job', circuit')
    BY <1>1, <1>3, <2>1 DEF AskedOK, WalkInv
  <2> QED
    BY <1>1, <2>1, <2>2, WalkFacts, OnWalk DEF WalkInv, TypeInv
<1>4. CASE job.pc = "dial" /\ job' = [job EXCEPT !.pc = "connect"]
  <2>1. /\ job \in Selecting => job' \in Selecting
        /\ job \in Switching => job' \in Switching /\ job'.tr = job.tr
        /\ job'.rest = job.rest /\ job'.pc = "connect"
    BY <1>1, <1>4 DEF Selecting, Switching
  <2>2. AskedOK(job', circuit')
    BY <1>1, <1>4, <2>1 DEF AskedOK, WalkInv
  <2> QED
    BY <1>1, <2>1, <2>2, WalkFacts, OnWalk DEF WalkInv, TypeInv
<1>5. CASE job.pc = "wait" /\ job.use = "switch" /\ job' = [job EXCEPT !.pc = "giveup", !.tr.stop = TRUE]
  <2>1. job \in Switching /\ job.tr \in Streams
    BY <1>1, <1>5, WalkFacts, OneKind DEF Unsent
  <2>2. [job.tr EXCEPT !.stop = TRUE] \in Streams /\ [job.tr EXCEPT !.stop = TRUE].routing = job.tr.routing
        /\ [job.tr EXCEPT !.stop = TRUE].fb = job.tr.fb
    BY <2>1 DEF Streams
  <2>3. job' = [job EXCEPT !.pc = "giveup", !.tr = [job.tr EXCEPT !.stop = TRUE]]
    BY <1>5, <2>1 DEF Switching
  <2>4. job' \in Switching /\ job'.pc = "giveup" /\ job'.rest = job.rest /\ job'.tr = [job.tr EXCEPT !.stop = TRUE]
    BY <2>1, <2>2, <2>3 DEF Switching
  <2>5. AskedOK(job', circuit')
    BY <2>4 DEF AskedOK
  <2> QED
    BY <1>1, <2>1, <2>2, <2>4, <2>5, WalkFacts, OnWalk DEF WalkInv, TypeInv
<1>6. \/ job' \in Resting
      \/ job.pc = "wait" /\ job' = [job EXCEPT !.pc = "dial"]
      \/ job.pc = "dial" /\ job' = [job EXCEPT !.pc = "connect"]
      \/ job.pc = "wait" /\ job.use = "switch" /\ job' = [job EXCEPT !.pc = "giveup", !.tr.stop = TRUE]
  BY DEF Wait, Dial, NoCandidate, Resting
<1> QED
  BY <1>2, <1>3, <1>4, <1>5, <1>6

\* What is left of a route, and who serves, can change without the rest of the stream.
LEMMA RestFacts ==
  ASSUME NEW tr \in Streams, NEW rest \in Seq(Candidates)
  PROVE  /\ [tr EXCEPT !.rest = rest] \in Streams /\ [tr EXCEPT !.rest = rest].rest = rest
         /\ [tr EXCEPT !.rest = rest].routing = tr.routing /\ [tr EXCEPT !.rest = rest].fb = tr.fb
         /\ [tr EXCEPT !.rest = rest].output = tr.output /\ [tr EXCEPT !.rest = rest].raw = tr.raw
         /\ [tr EXCEPT !.rest = rest].attempted = tr.attempted
         /\ [tr EXCEPT !.rest = rest].suppress = tr.suppress /\ [tr EXCEPT !.rest = rest].next = tr.next
BY DEF Streams

LEMMA SwitchedFacts ==
  ASSUME NEW tr \in Streams, NEW p \in Providers, NEW n \in Nat
  PROVE  /\ Switched(tr, p, n) \in Streams
         /\ Switched(tr, p, n).pc = "stream" /\ Switched(tr, p, n).attempted = TRUE
         /\ Switched(tr, p, n).suppress = TRUE
         /\ Switched(tr, p, n).raw = 0 /\ Switched(tr, p, n).next = n
         /\ Switched(tr, p, n).routing = tr.routing /\ Switched(tr, p, n).fb = tr.fb
         /\ Switched(tr, p, n).rest = tr.rest /\ Switched(tr, p, n).output = tr.output
BY DEF Streams, Switched

LEMMA ConnectWalk ==
  ASSUME WalkInv, ConnectCandidate
  PROVE  WalkInv'
<1> DEFINE c == Head(job.rest)
<1>1. /\ job.pc = "connect" /\ job \in Selecting \cup Switching /\ job.rest \in Seq(Candidates)
      /\ job.rest # <<>> /\ c \in Candidates /\ Tail(job.rest) \in Seq(Candidates)
  BY WalkFacts DEF ConnectCandidate
<1>2. /\ circuit' \in {circuit, record_success(circuit, c), record_failure(circuit, c)} /\ request' = request
      /\ \/ job.use = "select" /\ job' = Chosen(c) /\ sent' = sent
         \/ /\ job.use = "switch"
            /\ job' = Switched([job.tr EXCEPT !.rest = Rest(job)], c.provider, job.n)
            /\ sent' = Append(sent, c.provider)
         \/ job' = [job EXCEPT !.pc = "check", !.rest = Rest(job)] /\ sent' = sent
         \/ job' = [job EXCEPT !.pc = "check", !.rest = Rest(job), !.first = FALSE, !.failed = TRUE]
            /\ sent' = sent
  BY DEF ConnectCandidate
<1>3. circuit' \in [Candidates -> Circuits] /\ FailuresOK(circuit')
  BY <1>1, <1>2, CircuitFacts DEF WalkInv, TypeInv
<1>4. CASE job.use = "select" /\ job' = Chosen(c) /\ sent' = sent
  <2>1. job \in Selecting
    BY <1>1, <1>4, OneKind DEF Unsent
  <2> QED
    BY <1>1, <1>2, <1>3, <1>4, <2>1, ChosenWalk
<1>5. CASE /\ job.use = "switch"
           /\ job' = Switched([job.tr EXCEPT !.rest = Rest(job)], c.provider, job.n)
           /\ sent' = Append(sent, c.provider)
  <2>1. job \in Switching
    BY <1>1, <1>5, OneKind DEF Unsent
  <2>2. /\ job.tr \in Streams /\ job.tr.routing /\ job.tr.fb = None /\ Served(request.kind, sent, job.rest)
        /\ job.n \in Nat /\ c.provider \in Providers /\ sent \in Seq(Providers)
    BY <1>1, <2>1, WalkFacts DEF Switching, Candidates, WalkInv, TypeInv
  <2>3. /\ job' \in Streams /\ job'.pc = "stream" /\ job'.routing = job.tr.routing /\ job'.fb = None
        /\ job'.rest = Tail(job.rest)
    <3> DEFINE tr == [job.tr EXCEPT !.rest = Tail(job.rest)]
    <3>1. /\ tr \in Streams /\ tr.rest = Tail(job.rest) /\ tr.routing = job.tr.routing /\ tr.fb = None
      BY <1>1, <2>2, RestFacts
    <3>2. job' = Switched(tr, c.provider, job.n)
      BY <1>5 DEF Rest
    <3> HIDE DEF tr
    <3>3. /\ Switched(tr, c.provider, job.n) \in Streams
          /\ Switched(tr, c.provider, job.n).pc = "stream"
          /\ Switched(tr, c.provider, job.n).routing = tr.routing
          /\ Switched(tr, c.provider, job.n).fb = tr.fb
          /\ Switched(tr, c.provider, job.n).rest = tr.rest
      BY <2>2, <3>1, SwitchedFacts, ZenonT(40)
    <3> QED
      BY ONLY <3>1, <3>2, <3>3
  <2>4. Served(request'.kind, sent', job'.rest) /\ sent' \in Seq(Providers)
    BY <1>1, <1>2, <1>5, <2>2, <2>3, ServedTake
  <2>5. InOrder(request'.kind, sent')
    BY <2>4, ServedInOrder
  <2>6. SentOK(job', sent', request'.kind)
    BY <2>2, <2>3, <2>4, <2>5, Disjoint DEF SentOK
  <2>7. AskedOK(job', circuit')
    BY <2>3 DEF AskedOK
  <2> QED
    BY <1>3, <2>3, <2>4, <2>6, <2>7 DEF WalkInv, TypeInv
<1>6. CASE /\ sent' = sent
           /\ \/ job' = [job EXCEPT !.pc = "check", !.rest = Rest(job)]
              \/ job' = [job EXCEPT !.pc = "check", !.rest = Rest(job), !.first = FALSE, !.failed = TRUE]
  <2>1. /\ job \in Selecting => job' \in Selecting
        /\ job \in Switching => job' \in Switching /\ job'.tr = job.tr
        /\ job'.rest = Tail(job.rest) /\ job'.pc = "check"
    BY <1>1, <1>6 DEF Selecting, Switching, Rest
  <2>2. \A s : Served(request.kind, s, job.rest) => Served(request.kind, s, job'.rest)
    BY <1>1, <2>1, ServedSkip
  <2>3. AskedOK(job', circuit')
    BY <2>1 DEF AskedOK
  <2> QED
    BY <1>1, <1>2, <1>3, <1>6, <2>1, <2>2, <2>3, WalkFacts, OnWalk
<1> QED
  BY <1>2, <1>4, <1>5, <1>6

\* begin_translation sends the text, or rejects a model the window does not show.
LEMMA TranslationFacts ==
  ASSUME NEW j \in LookingUp, NEW m \in Models \cup {None}
  PROVE  /\ Translation(j, m) \in Streams /\ Translation(j, m).pc = "stream"
         /\ Translation(j, m).by = j.by /\ Translation(j, m).raw = 0 /\ Translation(j, m).attempted = FALSE
         /\ Translation(j, m).suppress = FALSE /\ Translation(j, m).rest = j.rest
         /\ Translation(j, m).routing = j.routing /\ Translation(j, m).fb = j.fb
         /\ Translation(j, m).output = <<>> /\ Translation(j, m).next = 0
BY DEF LookingUp, Streams, Translation

LEMMA BeginWalk ==
  ASSUME WalkInv, job \in LookingUp, NEW m \in Models \cup {None}, Begin(job, m), circuit' = circuit,
         request' = request
  PROVE  WalkInv'
<1>1. CASE job' = Idle /\ sent' = sent
  BY <1>1, RestWalk DEF Resting
<1>2. CASE job' = Translation(job, m) /\ sent' = Append(sent, job.by)
  <2>1. /\ sent = <<>> /\ job.by \in Providers
        /\ IF job.routing THEN job.fb = None /\ Served(request.kind, <<job.by>>, job.rest)
           ELSE job.by = Active /\ Direct(request.kind, job.fb) /\ job.fb \in Fallbacks \cup {None}
    BY DEF WalkInv, SentOK, Unsent, LookingUp
  <2>2. sent' = <<job.by>> /\ sent' \in Seq(Providers)
    BY <1>2, <2>1
  <2>3. /\ job' \in Streams /\ job'.pc = "stream" /\ job'.attempted = FALSE /\ job'.rest = job.rest
        /\ job'.routing = job.routing /\ job'.fb = job.fb
    BY <1>2, TranslationFacts
  <2>4. InOrder(request.kind, sent')
    BY <2>1, <2>2, ServedInOrder, DirectInOrder
  <2>5. SentOK(job', sent', request'.kind)
    BY <2>1, <2>2, <2>3, <2>4, Disjoint DEF SentOK
  <2>6. AskedOK(job', circuit')
    BY <2>3 DEF AskedOK
  <2> QED
    BY <2>2, <2>3, <2>5, <2>6 DEF WalkInv, TypeInv
<1> QED
  BY <1>1, <1>2 DEF Begin

LEMMA LookupWalk ==
  ASSUME WalkInv, Lookup \/ ConnectFallback \/ Hit
  PROVE  WalkInv'
<1>1. CASE Lookup
  <2>1. job.pc = "lookup" /\ job \in LookingUp /\ circuit' = circuit /\ request' = request
    BY <1>1, OneKind DEF Lookup, WalkInv, TypeInv
  <2>2. CASE job' = [pc |-> "hit", n |-> 0] /\ sent' = sent
    <3>1. job' \in Hits /\ job'.pc = "hit"
      BY <2>2 DEF Hits
    <3>2. sent = <<>>
      BY <2>1 DEF WalkInv, SentOK, Unsent
    <3>3. SentOK(job', sent', request'.kind)
      BY <2>2, <3>1, <3>2, Disjoint, NothingInOrder DEF SentOK
    <3>4. AskedOK(job', circuit')
      BY <3>1 DEF AskedOK
    <3> QED
      BY <2>1, <2>2, <3>1, <3>3, <3>4 DEF WalkInv, TypeInv
  <2>3. CASE Begin(job, None)
    BY <2>1, <2>3, BeginWalk
  <2>4. CASE job' = Idle /\ sent' = sent
    BY <2>1, <2>4, RestWalk DEF Resting
  <2>5. CASE job' = [job EXCEPT !.pc = "approve"] /\ sent' = sent
    <3>1. job' \in LookingUp /\ job'.pc = "approve" /\ job'.routing = job.routing /\ job'.fb = job.fb
          /\ job'.by = job.by /\ job'.rest = job.rest
      BY <2>1, <2>5 DEF LookingUp
    <3>2. SentOK(job', sent', request'.kind)
      BY <2>1, <2>5, <3>1, Disjoint DEF WalkInv, SentOK, Unsent
    <3>3. AskedOK(job', circuit')
      BY <3>1 DEF AskedOK
    <3> QED
      BY <2>1, <2>5, <3>1, <3>2, <3>3 DEF WalkInv, TypeInv, Unsent
  <2> QED
    BY <1>1, <2>2, <2>3, <2>4, <2>5 DEF Lookup
<1>2. CASE ConnectFallback
  <2>1. job \in LookingUp /\ circuit' = circuit /\ request' = request
    BY <1>2, OneKind DEF ConnectFallback, WalkInv, TypeInv
  <2>2. CASE \E m \in Models : Begin(job, m)
    BY <2>1, <2>2, BeginWalk
  <2>3. CASE job' = Idle /\ sent' = sent
    BY <2>1, <2>3, RestWalk DEF Resting
  <2> QED
    BY <1>2, <2>2, <2>3 DEF ConnectFallback
<1>3. CASE Hit
  <2>1. job.pc = "hit" /\ job \in Hits /\ circuit' = circuit /\ sent' = sent /\ request' = request
    BY <1>3, OneKind DEF Hit, WalkInv, TypeInv
  <2>2. CASE job' = Idle
    BY <2>1, <2>2, RestWalk DEF Resting
  <2>3. CASE job.n # 2 /\ job' = [job EXCEPT !.n = @ + 1]
    <3>1. job' \in Hits /\ job'.pc = "hit"
      BY <2>1, <2>3 DEF Hits
    <3>2. SentOK(job', sent', request'.kind)
      BY <2>1, <3>1, Disjoint DEF WalkInv, SentOK
    <3>3. AskedOK(job', circuit')
      BY <3>1 DEF AskedOK
    <3> QED
      BY <2>1, <3>1, <3>2, <3>3 DEF WalkInv, TypeInv
  <2> QED
    BY <1>3, <2>2, <2>3 DEF Hit
<1> QED
  BY <1>1, <1>2, <1>3

\* An event sent on: the stream goes on as it was, or the worker rests.
LEMMA ForwardFacts ==
  ASSUME NEW tr \in Streams, NEW k \in {"Started", "TextDelta", "Completed", "Cancelled", "Failed"},
         Forward(tr, k)
  PROVE  \/ job' \in Resting /\ Terminal(k)
         \/ /\ ~Terminal(k) /\ job' \in Streams /\ job'.routing = tr.routing /\ job'.fb = tr.fb
            /\ job'.attempted = tr.attempted /\ job'.rest = tr.rest
<1> DEFINE n == Number(tr)
           text == IF k = "TextDelta" THEN <<tr.by>> ELSE <<>>
<1>1. tr.raw + 1 \in Nat /\ n + 1 \in Nat /\ tr.output \o text \in Seq(Providers)
  <2>1. text \in Seq(Providers) /\ tr.output \in Seq(Providers)
    BY DEF Streams
  <2> HIDE DEF text
  <2>2. tr.output \o text \in Seq(Providers)
    BY <2>1
  <2> QED
    BY <2>2 DEF Streams, Number
<1>2. CASE tr.suppress /\ k = "Started"
  <2>1. job' = [tr EXCEPT !.suppress = FALSE, !.raw = tr.raw + 1] /\ ~Terminal(k)
    BY <1>2 DEF Forward, Terminal
  <2> QED
    BY <1>1, <2>1 DEF Streams
<1>3. CASE ~(tr.suppress /\ k = "Started") /\ Terminal(k)
  BY <1>3 DEF Forward, Resting
<1>4. CASE ~(tr.suppress /\ k = "Started") /\ ~Terminal(k)
  <2>1. job' = [tr EXCEPT !.next = n + 1, !.raw = tr.raw + 1, !.output = tr.output \o text]
    BY <1>4 DEF Forward
  <2> DEFINE output == tr.output \o text
             next == n + 1
  <2>2. job' = [tr EXCEPT !.next = next, !.raw = tr.raw + 1, !.output = output]
        /\ next \in Nat /\ output \in Seq(Providers)
    BY <1>1, <2>1
  <2> HIDE DEF output, next, n, text
  <2>3. job' \in Streams
    BY <1>1, <2>2 DEF Streams
  <2>4. job'.routing = tr.routing /\ job'.fb = tr.fb /\ job'.attempted = tr.attempted /\ job'.rest = tr.rest
    BY <2>2 DEF Streams
  <2> QED
    BY <1>4, <2>3, <2>4
<1> QED
  BY <1>2, <1>3, <1>4

LEMMA StreamWalk ==
  ASSUME WalkInv,
         \/ \E k \in {"Started", "TextDelta", "Completed", "Cancelled", "Failed"} : StreamEvent(k)
         \/ StreamEnds \/ RoutedFailure
  PROVE  WalkInv'
<1>1. job.pc = "stream" /\ job \in Streams /\ sent' = sent /\ request' = request
  BY OneKind DEF StreamEvent, StreamEnds, RoutedFailure, Streaming, WalkInv, TypeInv
<1>2. CASE StreamEnds
  BY <1>1, <1>2, RestWalk DEF StreamEnds, Resting
<1>3. ASSUME NEW k \in {"Started", "TextDelta", "Completed", "Cancelled", "Failed"}, StreamEvent(k)
      PROVE  WalkInv'
  <2>1. Forward(job, k) /\ circuit' = circuit
    BY <1>3 DEF StreamEvent, Pass
  <2>2. CASE job' \in Resting
    BY <1>1, <2>1, <2>2, RestWalk
  <2>3. CASE /\ job' \in Streams /\ job'.routing = job.routing /\ job'.fb = job.fb
             /\ job'.attempted = job.attempted /\ job'.rest = job.rest
    <3>1. SentOK(job', sent', request'.kind)
      BY <1>1, <2>3, Disjoint DEF WalkInv, SentOK
    <3>2. AskedOK(job', circuit')
      BY <2>3, ByStep DEF AskedOK
    <3> QED
      BY <1>1, <2>1, <2>3, <3>1, <3>2 DEF WalkInv, TypeInv
  <2> QED
    BY <1>1, <2>1, <2>2, <2>3, ForwardFacts
<1>4. CASE RoutedFailure
  <2> DEFINE c == [provider |-> job.by, model |-> ActiveModel]
  <2>1. /\ job.routing /\ circuit' = record_failure(circuit, c)
        /\ job' = [pc |-> "check", use |-> "switch", rest |-> job.rest, first |-> FALSE,
                   failed |-> TRUE, tr |-> job, n |-> job.raw]
    BY <1>4 DEF RoutedFailure
  <2>2. c \in Candidates
    BY <1>1, StreamAssumption DEF Candidates, Streams
  <2>3. job.rest \in Seq(Candidates) /\ job.raw \in Nat
    BY <1>1 DEF Streams
  <2>4. job' \in Switching /\ job'.pc = "check" /\ job'.tr = job /\ job'.rest = job.rest
    BY <1>1, <2>1, <2>3 DEF Switching
  <2>5. circuit' \in [Candidates -> Circuits] /\ FailuresOK(circuit')
    BY <2>1, <2>2, CircuitFacts DEF WalkInv, TypeInv
  <2>6. SentOK(job', sent', request'.kind)
    BY <1>1, <2>1, <2>4, Disjoint DEF WalkInv, SentOK
  <2>7. AskedOK(job', circuit')
    BY <2>4 DEF AskedOK
  <2> QED
    BY <1>1, <2>4, <2>5, <2>6, <2>7 DEF WalkInv, TypeInv
<1> QED
  BY <1>2, <1>3, <1>4

\* The walk that ends forwards its failure as a stream of which no route is left.
LEMMA WalkEndFacts ==
  ASSUME NEW tr \in Streams
  PROVE  /\ [tr EXCEPT !.routing = FALSE, !.rest = <<>>] \in Streams
         /\ [tr EXCEPT !.routing = FALSE, !.rest = <<>>].raw = tr.raw
         /\ [tr EXCEPT !.routing = FALSE, !.rest = <<>>].attempted = tr.attempted
         /\ [tr EXCEPT !.routing = FALSE, !.rest = <<>>].next = tr.next
         /\ [tr EXCEPT !.routing = FALSE, !.rest = <<>>].suppress = tr.suppress
         /\ [tr EXCEPT !.routing = FALSE, !.rest = <<>>].rest = <<>>
         /\ [tr EXCEPT !.routing = FALSE, !.rest = <<>>].output = tr.output
<1> DEFINE rest == <<>>
<1>1. rest \in Seq(Candidates) /\ FALSE \in BOOLEAN
  OBVIOUS
<1> HIDE DEF rest
<1>2. /\ [tr EXCEPT !.routing = FALSE, !.rest = rest] \in Streams
      /\ [tr EXCEPT !.routing = FALSE, !.rest = rest].raw = tr.raw
      /\ [tr EXCEPT !.routing = FALSE, !.rest = rest].attempted = tr.attempted
      /\ [tr EXCEPT !.routing = FALSE, !.rest = rest].next = tr.next
      /\ [tr EXCEPT !.routing = FALSE, !.rest = rest].suppress = tr.suppress
      /\ [tr EXCEPT !.routing = FALSE, !.rest = rest].rest = rest
      /\ [tr EXCEPT !.routing = FALSE, !.rest = rest].output = tr.output
  BY <1>1 DEF Streams
<1> QED
  BY <1>2 DEF rest

LEMMA EndWalk ==
  ASSUME WalkInv, WalkEnds
  PROVE  WalkInv'
<1> DEFINE tr == [job.tr EXCEPT !.routing = FALSE, !.rest = <<>>]
<1>1. job \in Switching /\ circuit' = circuit /\ sent' = sent /\ request' = request /\ Forward(tr, "Failed")
  BY OneKind DEF WalkEnds, WalkInv, TypeInv, Unsent, Pass
<1>2. job.tr \in Streams
  BY <1>1 DEF Switching
<1>3. tr \in Streams
  BY <1>2, WalkEndFacts
<1> HIDE DEF tr
<1>4. job' \in Resting
  BY <1>1, <1>3, ForwardFacts DEF Terminal
<1> QED
  BY <1>1, <1>4, RestWalk

LEMMA AppendOne ==
  ASSUME NEW s \in Seq(Providers), NEW q \in Providers
  PROVE  /\ Append(s, q) \in Seq(Providers) /\ Len(Append(s, q)) = Len(s) + 1
         /\ Append(s, q)[Len(s) + 1] = q /\ \A i \in 1..Len(s) : Append(s, q)[i] = s[i]
BY AppendProperties

LEMMA TwoProviders ==
  ASSUME NEW p \in Providers, NEW q \in Providers
  PROVE  Append(<<p>>, q) = <<p, q>> /\ <<p, q>> \in Seq(Providers)
<1> DEFINE s == <<p>>
           t == <<p, q>>
           u == Append(s, q)
<1>1. s \in Seq(Providers) /\ Len(s) = 1 /\ s[1] = p
  OBVIOUS
<1>2. t \in Seq(Providers) /\ Len(t) = 2 /\ t[1] = p /\ t[2] = q
  OBVIOUS
<1> HIDE DEF s, t
<1>3. /\ u \in Seq(Providers) /\ Len(u) = Len(s) + 1 /\ u[Len(s) + 1] = q
      /\ \A i \in 1..Len(s) : u[i] = s[i]
  BY <1>1, AppendOne
<1> HIDE DEF u
<1>4. Len(u) = 2 /\ u[1] = p /\ u[2] = q
  BY <1>1, <1>3
<1>5. \A i \in 1..2 : u[i] = t[i]
  BY <1>2, <1>4
<1>6. u = t
  BY <1>2, <1>3, <1>4, <1>5
<1> QED
  BY <1>2, <1>6 DEF s, t, u

LEMMA FallbackWalk ==
  ASSUME WalkInv, FallbackFailure
  PROVE  WalkInv'
<1>1. /\ job.pc = "stream" /\ job \in Streams /\ circuit' = circuit /\ job.fb # None /\ ~job.attempted
      /\ request' = request
  BY OneKind DEF FallbackFailure, Streaming, WalkInv, TypeInv
<1>2. ~job.routing /\ sent = <<Active>> /\ job.fb \in Fallbacks /\ Direct(request.kind, job.fb)
  BY <1>1 DEF WalkInv, SentOK, Streams
<1>3. CASE job' = Switched(job, job.fb, job.raw) /\ sent' = Append(sent, job.fb)
  <2>1. /\ job' \in Streams /\ job'.pc = "stream" /\ job'.attempted = TRUE /\ job'.routing = job.routing
        /\ job'.fb = job.fb
    <3>1. job \in Streams /\ job.fb \in Providers /\ job.raw \in Nat
      BY <1>1, <1>2, StreamAssumption DEF Streams
    <3>2. /\ Switched(job, job.fb, job.raw) \in Streams
          /\ Switched(job, job.fb, job.raw).pc = "stream"
          /\ Switched(job, job.fb, job.raw).attempted = TRUE
          /\ Switched(job, job.fb, job.raw).routing = job.routing
          /\ Switched(job, job.fb, job.raw).fb = job.fb
      BY ONLY <3>1, SwitchedFacts
    <3> QED
      BY ONLY <1>3, <3>2
  <2>2. sent' = <<Active, job.fb>> /\ sent' \in Seq(Providers)
    <3> DEFINE p == job.fb
    <3>1. p \in Providers /\ Active \in Providers /\ sent' = Append(<<Active>>, p)
      BY <1>2, <1>3, StreamAssumption
    <3> HIDE DEF p
    <3>2. Append(<<Active>>, p) = <<Active, p>> /\ <<Active, p>> \in Seq(Providers)
      BY <3>1, TwoProviders
    <3> QED
      BY <3>1, <3>2 DEF p
  <2>3. SentOK(job', sent', request'.kind)
    BY <1>1, <1>2, <2>1, <2>2, Disjoint, DirectInOrder DEF SentOK
  <2>4. AskedOK(job', circuit')
    BY <2>1 DEF AskedOK
  <2> QED
    BY <1>1, <2>1, <2>2, <2>3, <2>4 DEF WalkInv, TypeInv
<1>4. CASE Pass([job EXCEPT !.attempted = TRUE, !.fb = None], "Failed") /\ sent' = sent
  <2> DEFINE tr == [job EXCEPT !.attempted = TRUE, !.fb = None]
  <2>1. tr \in Streams
    BY <1>1 DEF Streams
  <2>2. Forward(tr, "Failed")
    BY <1>4 DEF Pass
  <2> HIDE DEF tr
  <2>3. job' \in Resting
    BY <2>1, <2>2, ForwardFacts DEF Terminal
  <2> QED
    BY <1>1, <1>4, <2>3, RestWalk
<1> QED
  BY <1>3, <1>4 DEF FallbackFailure

LEMMA OrdersWalk ==
  ASSUME WalkInv, ClickStop \/ Shutdown \/ TakeCancel \/ TakeShutdown \/ UNCHANGED vars
  PROVE  WalkInv'
<1>1. CASE job' = job /\ circuit' = circuit /\ sent' = sent /\ request' = request
  BY <1>1, SameWalk
<1>2. CASE TakeShutdown /\ job' = Stopped
  BY <1>2, RestWalk DEF Resting, TakeShutdown
<1>3. CASE TakeShutdown /\ job.pc = "stream" /\ job' = [job EXCEPT !.stop = TRUE]
  <2>1. job \in Streams /\ circuit' = circuit /\ sent' = sent /\ request' = request
    BY <1>3, OneKind DEF TakeShutdown, WalkInv, TypeInv
  <2>2. /\ job' \in Streams /\ job'.pc = "stream" /\ job'.routing = job.routing /\ job'.fb = job.fb
        /\ job'.attempted = job.attempted /\ job'.rest = job.rest
    BY <1>3, <2>1 DEF Streams
  <2>3. SentOK(job', sent', request'.kind)
    BY <2>1, <2>2, Disjoint DEF WalkInv, SentOK
  <2>4. AskedOK(job', circuit')
    BY <2>2 DEF AskedOK
  <2> QED
    BY <2>1, <2>2, <2>3, <2>4 DEF WalkInv, TypeInv
<1>4. \/ job' = job /\ circuit' = circuit /\ sent' = sent /\ request' = request
      \/ TakeShutdown /\ job' = Stopped
      \/ TakeShutdown /\ job.pc = "stream" /\ job' = [job EXCEPT !.stop = TRUE]
  BY DEF ClickStop, Shutdown, TakeCancel, TakeShutdown, vars
<1> QED
  BY <1>1, <1>2, <1>3, <1>4

LEMMA InitWalk ==
  ASSUME Init
  PROVE  WalkInv
<1>1. job = Idle /\ sent = <<>> /\ circuit = [c \in Candidates |-> Fresh]
  BY DEF Init
<1>2. job \in Resting /\ job.pc = "idle"
  BY <1>1 DEF Resting, Idle
<1>3. circuit \in [Candidates -> Circuits] /\ FailuresOK(circuit)
  BY <1>1, StreamAssumption DEF Fresh, Circuits, FailuresOK
<1>4. SentOK(job, sent, request.kind) /\ AskedOK(job, circuit)
  BY <1>1, <1>2, Disjoint, NothingInOrder DEF SentOK, AskedOK
<1> QED
  BY <1>1, <1>2, <1>3, <1>4 DEF WalkInv, TypeInv

LEMMA NextWalk ==
  ASSUME WalkInv, [Next]_vars
  PROVE  WalkInv'
BY ClickWalk, OrdersWalk, CoolWalk, TakeWalk, CheckWalk, WaitWalk, ConnectWalk, LookupWalk,
   StreamWalk, EndWalk, FallbackWalk DEF Next, Worker

LEMMA WalkAlways == Spec => []WalkInv
<1>1. Init => WalkInv
  BY InitWalk
<1>2. WalkInv /\ [Next]_vars => WalkInv'
  BY NextWalk
<1> QED
  BY <1>1, <1>2, PTL DEF Spec

\* Whatever the routes, the failures and the changes of provider: a text goes only to
\* the providers its own request names, in their order and at most once to each.
THEOREM TextGoesWhereNamed == Spec => []SentInOrder
<1>1. WalkInv => SentInOrder
  BY DEF WalkInv, SentOK, InOrder, SentInOrder
<1> QED
  BY <1>1, WalkAlways, PTL

\* A candidate that failed as often as the policy allows is not asked again before its
\* cool-down is over, although it is looked at one step and asked another.
THEOREM OpenCircuitsRest == Spec => CircuitRests
<1>1. ASSUME WalkInv, NEW c \in Candidates, circuit[c].fails >= Threshold, circuit[c].until # "past"
      PROVE  ~Contacted(c)
  <2>1. circuit[c].until = "future"
    BY <1>1 DEF WalkInv, TypeInv, FailuresOK, Circuits
  <2> QED
    BY <1>1, <2>1 DEF Contacted, WalkInv, AskedOK
<1>2. WalkInv /\ [Next]_vars =>
        [\A c \in Candidates :
           circuit[c].fails >= Threshold /\ circuit[c].until # "past" => ~Contacted(c)]_vars
  BY <1>1
<1> QED
  BY <1>2, WalkAlways, PTL DEF Spec, CircuitRests

---------------------------------------------------------------------------
(* What the window sees: one lemma per kind of job, then one per step.     *)

\* What the invariant asks of the stream while the worker is at j.
LEMMA RestingFlow ==
  ASSUME NEW j \in Resting, NEW e \in Events, NEW w \in Windows, NEW st
  PROVE  FlowOK(j, e, w, st) <=> e.phase \in {"idle", "ended"} /\ (st = None \/ st = w.text)
<1>1. j \notin Unsent /\ j \notin Hits /\ j \notin Streams /\ j \notin Switching
      /\ j \notin Selecting /\ j \notin LookingUp
  BY Disjoint DEF Unsent
<1> QED
  BY <1>1 DEF FlowOK, EmittedOK, RestOK, ShownOK

LEMMA TakenFlow ==
  ASSUME NEW j \in Taken, NEW e \in Events, NEW w \in Windows, NEW st
  PROVE  FlowOK(j, e, w, st) <=> Asked(e) /\ Showing(w, e, <<>>) /\ st = None
<1>1. j \notin Resting /\ j \notin Hits /\ j \notin Streams /\ j \notin Switching
      /\ j \notin Selecting /\ j \notin LookingUp /\ j \in Unsent
  BY Disjoint DEF Unsent
<1> QED
  BY <1>1 DEF FlowOK, EmittedOK, RestOK, ShownOK

LEMMA SelectingFlow ==
  ASSUME NEW j \in Selecting, NEW e \in Events, NEW w \in Windows, NEW st
  PROVE  FlowOK(j, e, w, st) <=> Asked(e) /\ Showing(w, e, <<>>) /\ st = None /\ Len(j.rest) <= 2
<1>1. j \notin Resting /\ j \notin Hits /\ j \notin Streams /\ j \notin Switching
      /\ j \notin LookingUp /\ j \in Unsent
  BY Disjoint DEF Unsent
<1> QED
  BY <1>1 DEF FlowOK, EmittedOK, RestOK, ShownOK

LEMMA LookingUpFlow ==
  ASSUME NEW j \in LookingUp, NEW e \in Events, NEW w \in Windows, NEW st
  PROVE  FlowOK(j, e, w, st) <=> /\ Asked(e) /\ Showing(w, e, <<>>) /\ st = None
                                 /\ Len(j.rest) <= 1 /\ (~j.routing => j.rest = <<>>)
<1>1. j \notin Resting /\ j \notin Hits /\ j \notin Streams /\ j \notin Switching
      /\ j \notin Selecting /\ j \in Unsent
  BY Disjoint DEF Unsent
<1> QED
  BY <1>1 DEF FlowOK, EmittedOK, RestOK, ShownOK

LEMMA HitsFlow ==
  ASSUME NEW j \in Hits, NEW e \in Events, NEW w \in Windows, NEW st
  PROVE  FlowOK(j, e, w, st) <=>
           /\ IF j.n = 0 THEN Asked(e) ELSE e.phase = "open" /\ e.last = j.n - 1
           /\ Showing(w, e, IF j.n = 2 THEN <<"memory">> ELSE <<>>) /\ st \in {None, <<"memory">>}
<1>1. j \notin Resting /\ j \notin Unsent /\ j \notin Streams /\ j \notin Switching
      /\ j \notin Selecting /\ j \notin LookingUp
  BY Disjoint DEF Unsent
<1> QED
  BY <1>1 DEF FlowOK, EmittedOK, RestOK, ShownOK

LEMMA StreamsFlow ==
  ASSUME NEW j \in Streams, NEW e \in Events, NEW w \in Windows, NEW st
  PROVE  FlowOK(j, e, w, st) <=> /\ Flow(j, e) /\ Showing(w, e, j.output) /\ st = None
                                 /\ Len(j.rest) <= 1 /\ (j.attempted \/ ~j.routing => j.rest = <<>>)
<1>1. j \notin Resting /\ j \notin Unsent /\ j \notin Hits /\ j \notin Switching
      /\ j \notin Selecting /\ j \notin LookingUp
  BY Disjoint DEF Unsent
<1> QED
  BY <1>1 DEF FlowOK, EmittedOK, RestOK, ShownOK

LEMMA SwitchingFlow ==
  ASSUME NEW j \in Switching, NEW e \in Events, NEW w \in Windows, NEW st
  PROVE  FlowOK(j, e, w, st) <=> /\ Flow(j.tr, e) /\ j.tr.raw > 0 /\ j.n = j.tr.raw
                                 /\ Showing(w, e, j.tr.output) /\ st = None
                                 /\ Len(j.rest) <= 1 /\ (j.tr.attempted => j.rest = <<>>)
<1>1. j \notin Resting /\ j \notin Unsent /\ j \notin Hits /\ j \notin Streams
      /\ j \notin Selecting /\ j \notin LookingUp
  BY Disjoint DEF Unsent
<1> QED
  BY <1>1 DEF FlowOK, EmittedOK, RestOK, ShownOK

\* Only what lies in these sets is ever sent and shown.
LEMMA FlowTypes ==
  ASSUME NEW j, NEW e, NEW w, NEW st, FlowOK(j, e, w, st)
  PROVE  e \in Events /\ w \in Windows
BY DEF FlowOK, EmittedOK, ShownOK

\* A step the contract of the stream allows.
ContractStep ==
  \/ Contract!Ask \/ Contract!Start \/ Contract!Text \/ Contract!Finish \/ Contract!GiveUp
  \/ emitted' = emitted

FlowStep == FlowOK(job', emitted', win', stored') /\ ContractStep

\* A step of the worker that shows nothing: the window, its events and the record stay.
LEMMA SilentFlow ==
  ASSUME emitted' = emitted, FlowOK(job', emitted, win, stored), win' = win, stored' = stored
  PROVE  FlowStep
BY DEF FlowStep, ContractStep

\* A request whose text was not answered yet is rejected or breaks off.
LEMMA RejectFlow ==
  ASSUME TypeInv, FlowOK(job, emitted, win, stored), job \notin Resting \cup Hits, Reject,
         job' \in Resting, stored' = stored
  PROVE  FlowStep
<1>1. /\ emitted \in Events /\ win \in Windows
      /\ emitted' = [emitted EXCEPT !.phase = "ended"] /\ win' = [win EXCEPT !.status = "Failed"]
  BY FlowTypes DEF Reject
<1>2. emitted' \in Events /\ emitted'.phase = "ended" /\ emitted'.last = emitted.last
  BY <1>1 DEF Events
<1>3. win' \in Windows
  BY <1>1 DEF Windows, Statuses
<1>4. stored = None /\ emitted.phase \in {"asked", "open"}
  <2>1. CASE job \in Unsent
    BY <2>1 DEF FlowOK, EmittedOK, ShownOK, Asked
  <2>2. ASSUME NEW tr, Flow(tr, emitted), tr \in Streams PROVE emitted.phase \in {"asked", "open"}
    BY <2>2 DEF Flow, Asked, OpenBelow, Streams
  <2>3. CASE job \in Streams
    BY <2>2, <2>3 DEF FlowOK, EmittedOK, ShownOK
  <2>4. CASE job \in Switching
    BY <2>2, <2>4 DEF FlowOK, EmittedOK, ShownOK, Switching
  <2> QED
    BY <2>1, <2>3, <2>4 DEF TypeInv
<1>5. FlowOK(job', emitted', win', stored')
  BY <1>2, <1>3, <1>4, RestingFlow
<1>6. Contract!GiveUp
  BY <1>2, <1>4 DEF Contract!GiveUp
<1> QED
  BY <1>5, <1>6 DEF FlowStep, ContractStep

\* The window may turn from Translating to Cancelling while nothing is sent.
LEMMA SameFlow ==
  ASSUME TypeInv, FlowOK(job, emitted, win, stored), job' = job, emitted' = emitted, stored' = stored,
         win' = win \/ win' = [win EXCEPT !.status = "Cancelling"]
  PROVE  FlowStep
<1>1. CASE win' = win
  BY <1>1, SilentFlow
<1>2. CASE win' = [win EXCEPT !.status = "Cancelling"]
  <2>1. win \in Windows /\ emitted \in Events
    BY FlowTypes
  <2>2. /\ win' \in Windows /\ win'.status = "Cancelling" /\ win'.last = win.last
        /\ win'.text = win.text
    BY <1>2, <2>1 DEF Windows, Statuses
  <2>3. \A text : Showing(win, emitted, text) => Showing(win', emitted, text)
    BY <2>2 DEF Showing
  <2>4. ShownOK(job, emitted, win', stored)
    BY <2>2, <2>3 DEF FlowOK, ShownOK
  <2> QED
    BY <2>4 DEF FlowStep, FlowOK, ContractStep
<1> QED
  BY <1>1, <1>2

LEMMA ClickFlow ==
  ASSUME TypeInv, FlowOK(job, emitted, win, stored), NEW kind \in Kinds, NEW incognito \in BOOLEAN,
         ClickTranslate(kind, incognito)
  PROVE  FlowStep
<1>1. /\ job = Idle /\ stored' = None
      /\ job' = [pc |-> "take", kind |-> kind, incognito |-> incognito]
      /\ win' = [status |-> "Translating", last |-> None, text |-> <<>>]
      /\ emitted' = [phase |-> "asked", last |-> None]
  BY DEF ClickTranslate
<1>2. job' \in Taken
  BY <1>1 DEF Taken
<1>3. emitted' \in Events /\ Asked(emitted')
  BY <1>1 DEF Events, Asked
<1>4. win' \in Windows /\ Showing(win', emitted', <<>>)
  <2>1. <<>> \in Seq(Providers \cup {"memory"})
    OBVIOUS
  <2> QED
    BY <1>1, <2>1 DEF Windows, Statuses, Showing
<1>5. FlowOK(job', emitted', win', stored')
  BY <1>1, <1>2, <1>3, <1>4, TakenFlow
<1>6. Contract!Ask
  <2>1. emitted \in Events /\ win \in Windows /\ job \in Resting
    BY <1>1, FlowTypes DEF Resting
  <2>2. emitted.phase \in {"idle", "ended"}
    BY <2>1, RestingFlow
  <2> QED
    BY <1>1, <2>2 DEF Contract!Ask
<1> QED
  BY <1>5, <1>6 DEF FlowStep, ContractStep

LEMMA OrdersFlow ==
  ASSUME TypeInv, FlowOK(job, emitted, win, stored),
         ClickStop \/ Shutdown \/ (\E c \in Candidates : CoolDown(c)) \/ TakeCancel \/ TakeShutdown
           \/ UNCHANGED vars
  PROVE  FlowStep
<1>1. /\ emitted' = emitted /\ stored' = stored
      /\ win' = win \/ win' = [win EXCEPT !.status = "Cancelling"]
      /\ \/ job' = job
         \/ job = Idle /\ job' = Stopped /\ win' = win
         \/ job.pc = "stream" /\ job' = [job EXCEPT !.stop = TRUE] /\ win' = win
  BY DEF ClickStop, Shutdown, CoolDown, TakeCancel, TakeShutdown, vars
<1>2. CASE job' = job
  BY <1>1, <1>2, SameFlow
<1>3. emitted \in Events /\ win \in Windows
  BY FlowTypes
<1>4. CASE job = Idle /\ job' = Stopped /\ win' = win
  <2>1. job \in Resting /\ job' \in Resting
    BY <1>4 DEF Resting
  <2>2. FlowOK(job', emitted, win, stored)
    BY <1>3, <2>1, RestingFlow
  <2> QED
    BY <1>1, <1>4, <2>2, SilentFlow
<1>5. CASE job.pc = "stream" /\ job' = [job EXCEPT !.stop = TRUE] /\ win' = win
  <2>1. job \in Streams
    BY <1>5, OneKind DEF TypeInv
  <2>2. /\ job' \in Streams /\ job'.rest = job.rest /\ job'.attempted = job.attempted
        /\ job'.routing = job.routing /\ job'.output = job.output
        /\ job'.suppress = job.suppress /\ job'.raw = job.raw /\ job'.next = job.next
    BY <1>5, <2>1 DEF Streams
  <2>3. Flow(job, emitted) => Flow(job', emitted)
    BY <2>2 DEF Flow, Number
  <2>4. FlowOK(job', emitted, win, stored)
    BY <1>3, <2>1, <2>2, <2>3, StreamsFlow
  <2> QED
    BY <1>1, <1>5, <2>4, SilentFlow
<1> QED
  BY <1>1, <1>2, <1>4, <1>5

\* The choice of who serves shows nothing, unless it rejects the request.
LEMMA TakeFlow ==
  ASSUME OneChange, WalkInv, FlowOK(job, emitted, win, stored), TakeRouting \/ TakeDirect
  PROVE  FlowStep
<1>1. /\ job \in Taken /\ job.kind \in Kinds /\ job.incognito \in BOOLEAN /\ stored' = stored
      /\ emitted \in Events /\ win \in Windows
  BY OneKind, FlowTypes DEF TakeRouting, TakeDirect, WalkInv, TypeInv, Taken
<1>2. Asked(emitted) /\ Showing(win, emitted, <<>>) /\ stored = None
  BY <1>1, TakenFlow
<1>3. CASE job' = Idle /\ Reject
  <2>1. job' \in Resting /\ job \notin Resting \cup Hits
    BY <1>1, <1>3, Disjoint DEF Resting
  <2> QED
    BY <1>1, <1>3, <2>1, RejectFlow DEF WalkInv
<1>4. CASE /\ TakeRouting /\ UNCHANGED <<win, emitted>>
           /\ job' = [pc |-> "check", use |-> "select", rest |-> job.kind.route, first |-> TRUE,
                      failed |-> FALSE, incognito |-> job.incognito]
  <2>1. job.kind.route \in Routes /\ job.kind.route \in Seq(Candidates)
    BY <1>1, <1>4, StreamAssumption DEF Kinds, TakeRouting
  <2>2. job' \in Selecting /\ job'.rest = job.kind.route
    BY <1>1, <1>4, <2>1 DEF Selecting
  <2>3. FlowOK(job', emitted, win, stored)
    BY <1>1, <1>2, <2>1, <2>2, SelectingFlow DEF OneChange
  <2> QED
    BY <1>1, <1>4, <2>3, SilentFlow
<1>5. CASE TakeDirect
  <2> DEFINE fb == IF job.kind.by = "fallback" THEN job.kind.id ELSE None
  <2>1. /\ job' = [pc |-> "lookup", by |-> Active, model |-> ActiveModel, rest |-> <<>>,
                   routing |-> FALSE, incognito |-> job.incognito, fb |-> fb]
        /\ win' = win /\ emitted' = emitted
    BY <1>5 DEF TakeDirect
  <2>2. fb \in Fallbacks \cup {None}
    BY <1>1 DEF Kinds
  <2> HIDE DEF fb
  <2>3. <<>> \in Seq(Candidates) /\ Len(<<>>) = 0
    OBVIOUS
  <2>4. job' \in LookingUp /\ job'.rest = <<>>
    BY <1>1, <2>1, <2>2, <2>3, StreamAssumption DEF LookingUp
  <2>5. FlowOK(job', emitted, win, stored)
    BY <1>1, <1>2, <2>3, <2>4, LookingUpFlow
  <2> QED
    BY <1>1, <2>1, <2>5, SilentFlow
<1> QED
  BY <1>3, <1>4, <1>5 DEF TakeRouting

\* The walk goes on: the stream it may take over stays as it is.
LEMMA OnFlow ==
  ASSUME FlowOK(job, emitted, win, stored), emitted' = emitted, win' = win, stored' = stored,
         job.rest \in Seq(Candidates),
         job'.rest = job.rest \/ (job.rest # <<>> /\ job'.rest = Tail(job.rest)),
         \/ job \in Selecting /\ job' \in Selecting
         \/ /\ job \in Switching /\ job' \in Switching /\ job'.n = job.n
            /\ job'.tr.output = job.tr.output /\ job'.tr.suppress = job.tr.suppress
            /\ job'.tr.raw = job.tr.raw /\ job'.tr.attempted = job.tr.attempted
            /\ job'.tr.next = job.tr.next
  PROVE  FlowStep
<1>1. emitted \in Events /\ win \in Windows
  BY FlowTypes
<1>2. Len(job'.rest) <= Len(job.rest) /\ (job.rest = <<>> => job'.rest = <<>>) /\ Len(job.rest) \in Nat
      /\ Len(job'.rest) \in Nat
  <2>1. CASE job'.rest = job.rest
    BY <2>1
  <2>2. CASE job.rest # <<>> /\ job'.rest = Tail(job.rest)
    <3>1. Len(Tail(job.rest)) = Len(job.rest) - 1 /\ Len(job.rest) \in Nat \ {0}
      BY <2>2
    <3> QED
      BY <2>2, <3>1
  <2> QED
    BY <2>1, <2>2
<1>3. CASE job \in Selecting /\ job' \in Selecting
  <2>1. FlowOK(job', emitted, win, stored)
    BY <1>1, <1>2, <1>3, SelectingFlow
  <2> QED
    BY <2>1, SilentFlow
<1>4. CASE /\ job \in Switching /\ job' \in Switching /\ job'.n = job.n
           /\ job'.tr.output = job.tr.output /\ job'.tr.suppress = job.tr.suppress
           /\ job'.tr.raw = job.tr.raw /\ job'.tr.attempted = job.tr.attempted
           /\ job'.tr.next = job.tr.next
  <2>1. Flow(job.tr, emitted) => Flow(job'.tr, emitted)
    BY <1>4 DEF Flow, Number
  <2>2. FlowOK(job', emitted, win, stored)
    BY <1>1, <1>2, <1>4, <2>1, SwitchingFlow
  <2> QED
    BY <2>2, SilentFlow
<1> QED
  BY <1>3, <1>4

LEMMA ChosenFlow ==
  ASSUME WalkInv, FlowOK(job, emitted, win, stored), job \in Selecting,
         job.pc \in {"check", "connect"}, job.rest # <<>>, job' = Chosen(Head(job.rest)),
         emitted' = emitted, win' = win, stored' = stored
  PROVE  FlowStep
<1> DEFINE c == Head(job.rest)
<1>1. /\ c \in Candidates /\ Tail(job.rest) \in Seq(Candidates) /\ job.rest \in Seq(Candidates)
      /\ emitted \in Events /\ win \in Windows
  BY WalkFacts, FlowTypes
<1>2. Asked(emitted) /\ Showing(win, emitted, <<>>) /\ stored = None /\ Len(job.rest) <= 2
  BY <1>1, SelectingFlow
<1>3. Len(Tail(job.rest)) <= 1
  <2>1. Len(Tail(job.rest)) = Len(job.rest) - 1 /\ Len(job.rest) \in Nat
    BY <1>1
  <2> QED
    BY <1>2, <2>1
<1>4. job' \in LookingUp /\ job'.routing = TRUE /\ job'.rest = Tail(job.rest)
  BY <1>1, ChosenFacts
<1> HIDE DEF c
<1>5. FlowOK(job', emitted, win, stored)
  BY <1>1, <1>2, <1>3, <1>4, LookingUpFlow
<1> QED
  BY <1>5, SilentFlow

LEMMA CheckFlow ==
  ASSUME WalkInv, FlowOK(job, emitted, win, stored), CheckCandidate
  PROVE  FlowStep
<1> DEFINE c == Head(job.rest)
<1>1. /\ job.pc = "check" /\ job.rest # <<>> /\ emitted' = emitted /\ win' = win /\ stored' = stored
      /\ \/ job' = [job EXCEPT !.rest = Tail(job.rest), !.first = FALSE]
         \/ \E q \in {"wait", "dial"} : job' = [job EXCEPT !.pc = q]
         \/ job.use = "select" /\ job' = Chosen(c)
  BY DEF CheckCandidate
<1>2. /\ job \in Selecting \cup Switching /\ job.rest \in Seq(Candidates)
      /\ Tail(job.rest) \in Seq(Candidates)
  BY <1>1, WalkFacts
<1>3. CASE job' = [job EXCEPT !.rest = Tail(job.rest), !.first = FALSE]
  <2>1. /\ job \in Selecting => job' \in Selecting
        /\ job \in Switching => job' \in Switching /\ job'.tr = job.tr /\ job'.n = job.n
        /\ job'.rest = Tail(job.rest)
    BY <1>2, <1>3 DEF Selecting, Switching
  <2> QED
    BY <1>1, <1>2, <2>1, OnFlow
<1>4. ASSUME NEW q \in {"wait", "dial"}, job' = [job EXCEPT !.pc = q]
      PROVE  FlowStep
  <2>1. /\ job \in Selecting => job' \in Selecting
        /\ job \in Switching => job' \in Switching /\ job'.tr = job.tr /\ job'.n = job.n
        /\ job'.rest = job.rest
    BY <1>2, <1>4 DEF Selecting, Switching
  <2> QED
    BY <1>1, <1>2, <2>1, OnFlow
<1>5. CASE job.use = "select" /\ job' = Chosen(c)
  <2>1. job \in Selecting
    BY <1>2, <1>5, OneKind DEF Unsent
  <2> QED
    BY <1>1, <1>5, <2>1, ChosenFlow
<1> QED
  BY <1>1, <1>3, <1>4, <1>5

LEMMA WaitFlow ==
  ASSUME WalkInv, FlowOK(job, emitted, win, stored), Wait \/ Dial \/ NoCandidate
  PROVE  FlowStep
<1>1. /\ job.pc \in {"check", "wait", "dial"} /\ stored' = stored
      /\ job \in Selecting \cup Switching /\ job.rest \in Seq(Candidates)
  BY WalkFacts DEF Wait, Dial, NoCandidate
<1>2. CASE job' \in Resting /\ Reject
  <2>1. job \notin Resting \cup Hits
    BY <1>1, Disjoint
  <2> QED
    BY <1>1, <1>2, <2>1, RejectFlow DEF WalkInv
<1>3. ASSUME NEW q \in {"dial", "connect"}, job' = [job EXCEPT !.pc = q], UNCHANGED <<win, emitted>>
      PROVE  FlowStep
  <2>1. /\ job \in Selecting => job' \in Selecting
        /\ job \in Switching => job' \in Switching /\ job'.tr = job.tr /\ job'.n = job.n
        /\ job'.rest = job.rest
    BY <1>1, <1>3 DEF Selecting, Switching
  <2> QED
    BY <1>1, <1>3, <2>1, OnFlow
<1>4. CASE /\ job.use = "switch" /\ job' = [job EXCEPT !.pc = "giveup", !.tr.stop = TRUE]
           /\ UNCHANGED <<win, emitted>>
  <2> DEFINE tr == [job.tr EXCEPT !.stop = TRUE]
  <2>1. job \in Switching /\ job.tr \in Streams
    BY <1>1, <1>4, OneKind DEF Unsent, Switching
  <2>2. /\ tr \in Streams /\ tr.output = job.tr.output /\ tr.suppress = job.tr.suppress
        /\ tr.raw = job.tr.raw /\ tr.attempted = job.tr.attempted /\ tr.next = job.tr.next
    BY <2>1 DEF Streams
  <2>3. job' = [job EXCEPT !.pc = "giveup", !.tr = tr]
    BY <1>4, <2>1 DEF Switching
  <2> HIDE DEF tr
  <2>4. job' \in Switching /\ job'.rest = job.rest /\ job'.tr = tr /\ job'.n = job.n
    BY <2>1, <2>2, <2>3 DEF Switching
  <2> QED
    BY <1>1, <1>4, <2>1, <2>2, <2>4, OnFlow
<1> QED
  BY <1>2, <1>3, <1>4 DEF Wait, Dial, NoCandidate, Resting

\* A failed stream is taken over: its numbers and its text go on.
LEMMA SwitchedFlow ==
  ASSUME FlowOK(job, emitted, win, stored), NEW tr \in Streams, NEW p \in Providers,
         Flow(tr, emitted), Showing(win, emitted, tr.output), stored = None,
         tr.raw > 0, ~tr.attempted, tr.rest = <<>>, job' = Switched(tr, p, tr.raw),
         emitted' = emitted, win' = win, stored' = stored
  PROVE  FlowStep
<1> DEFINE new == Switched(tr, p, tr.raw)
<1>1. tr.raw \in Nat /\ OpenBelow(emitted, tr.raw) /\ emitted \in Events /\ win \in Windows
  BY FlowTypes DEF Streams, Flow, Number
<1>2. /\ new \in Streams /\ new.attempted = TRUE /\ new.suppress = TRUE /\ new.raw = 0
      /\ new.next = tr.raw /\ new.rest = tr.rest /\ new.output = tr.output
  BY ONLY <1>1, SwitchedFacts, tr \in Streams, p \in Providers
<1>3. job' = new
  OBVIOUS
<1> HIDE DEF new
<1>4. Flow(new, emitted)
  BY <1>1, <1>2 DEF Flow, Number
<1>5. Len(new.rest) <= 1
  BY <1>2
<1>6. FlowOK(new, emitted, win, stored)
  BY <1>1, <1>2, <1>4, <1>5, StreamsFlow
<1> QED
  BY <1>3, <1>6, SilentFlow

LEMMA TailOfOne ==
  ASSUME NEW r \in Seq(Candidates), r # <<>>, Len(r) <= 1
  PROVE  Tail(r) = <<>>
<1> DEFINE t == Tail(r)
<1>1. t \in Seq(Candidates) /\ Len(t) = Len(r) - 1 /\ Len(r) \in Nat \ {0}
  OBVIOUS
<1> HIDE DEF t
<1>2. Len(t) = 0
  BY <1>1
<1>3. t = <<>>
  BY <1>1, <1>2
<1> QED
  BY <1>3 DEF t

LEMMA ConnectFlow ==
  ASSUME WalkInv, FlowOK(job, emitted, win, stored), ConnectCandidate
  PROVE  FlowStep
<1> DEFINE c == Head(job.rest)
<1>1. /\ job.pc = "connect" /\ job \in Selecting \cup Switching /\ job.rest \in Seq(Candidates)
      /\ job.rest # <<>> /\ c \in Candidates /\ Tail(job.rest) \in Seq(Candidates)
      /\ emitted' = emitted /\ win' = win /\ stored' = stored
  BY WalkFacts DEF ConnectCandidate
<1>2. \/ job.use = "select" /\ job' = Chosen(c)
      \/ job.use = "switch" /\ job' = Switched([job.tr EXCEPT !.rest = Rest(job)], c.provider, job.n)
      \/ job' = [job EXCEPT !.pc = "check", !.rest = Rest(job)]
      \/ job' = [job EXCEPT !.pc = "check", !.rest = Rest(job), !.first = FALSE, !.failed = TRUE]
  BY DEF ConnectCandidate
<1>3. CASE job.use = "select" /\ job' = Chosen(c)
  <2>1. job \in Selecting
    BY <1>1, <1>3, OneKind DEF Unsent
  <2> QED
    BY <1>1, <1>3, <2>1, ChosenFlow
<1>4. CASE job.use = "switch" /\ job' = Switched([job.tr EXCEPT !.rest = Rest(job)], c.provider, job.n)
  <2> DEFINE tr == [job.tr EXCEPT !.rest = Tail(job.rest)]
  <2>1. job \in Switching /\ job.tr \in Streams /\ c.provider \in Providers
    BY <1>1, <1>4, OneKind DEF Unsent, Switching, Candidates
  <2>2. emitted \in Events /\ win \in Windows
    BY FlowTypes
  <2>3. /\ Flow(job.tr, emitted) /\ job.tr.raw > 0 /\ job.n = job.tr.raw
        /\ Showing(win, emitted, job.tr.output) /\ stored = None
        /\ Len(job.rest) <= 1 /\ (job.tr.attempted => job.rest = <<>>)
    BY <2>1, <2>2, SwitchingFlow
  <2>4. Tail(job.rest) = <<>>
    BY <1>1, <2>3, TailOfOne
  <2>5. /\ tr \in Streams /\ tr.rest = <<>> /\ tr.output = job.tr.output /\ tr.raw = job.tr.raw
        /\ tr.attempted = job.tr.attempted /\ tr.suppress = job.tr.suppress /\ tr.next = job.tr.next
    BY <1>1, <2>1, <2>4, RestFacts
  <2>6. job' = Switched(tr, c.provider, job.n)
    BY <1>4 DEF Rest
  <2> HIDE DEF tr
  <2>7. Flow(tr, emitted)
    BY <2>3, <2>5 DEF Flow, Number
  <2>8. job' = Switched(tr, c.provider, tr.raw)
    BY <2>3, <2>5, <2>6
  <2> QED
    BY <1>1, <2>1, <2>3, <2>5, <2>7, <2>8, SwitchedFlow
<1>5. CASE \/ job' = [job EXCEPT !.pc = "check", !.rest = Rest(job)]
           \/ job' = [job EXCEPT !.pc = "check", !.rest = Rest(job), !.first = FALSE, !.failed = TRUE]
  <2>1. /\ job \in Selecting => job' \in Selecting
        /\ job \in Switching => job' \in Switching /\ job'.tr = job.tr /\ job'.n = job.n
        /\ job'.rest = Tail(job.rest)
    BY <1>1, <1>5 DEF Selecting, Switching, Rest
  <2> QED
    BY <1>1, <2>1, OnFlow
<1> QED
  BY <1>2, <1>3, <1>4, <1>5

LEMMA BeginFlow ==
  ASSUME WalkInv, FlowOK(job, emitted, win, stored), job \in LookingUp, NEW m \in Models \cup {None},
         Begin(job, m), stored' = stored
  PROVE  FlowStep
<1>1. emitted \in Events /\ win \in Windows
  BY FlowTypes
<1>2. CASE job' = Idle /\ Reject
  <2>1. job \notin Resting \cup Hits /\ job' \in Resting
    BY <1>2, Disjoint DEF Resting
  <2> QED
    BY <1>2, <2>1, RejectFlow DEF WalkInv
<1>3. CASE job' = Translation(job, m) /\ UNCHANGED <<win, emitted>>
  <2> DEFINE new == Translation(job, m)
  <2>1. /\ new \in Streams /\ new.raw = 0 /\ new.attempted = FALSE /\ new.suppress = FALSE
        /\ new.rest = job.rest /\ new.routing = job.routing /\ new.output = <<>> /\ new.next = 0
    BY TranslationFacts
  <2>2. job' = new
    BY <1>3
  <2> HIDE DEF new
  <2>3. /\ Asked(emitted) /\ Showing(win, emitted, <<>>) /\ stored = None
        /\ Len(job.rest) <= 1 /\ (~job.routing => job.rest = <<>>)
    BY <1>1, LookingUpFlow
  <2>4. Flow(new, emitted)
    <3>1. new.suppress = (new.attempted /\ new.raw = 0)
      BY <2>1, Zenon
    <3>2. ~(new.raw > 0 \/ new.attempted) /\ new.next = new.raw
      BY <2>1
    <3> QED
      BY <2>1, <2>3, <3>1, <3>2, Zenon DEF Flow
  <2>5. FlowOK(new, emitted, win, stored)
    BY <1>1, <2>1, <2>3, <2>4, StreamsFlow
  <2> QED
    BY <1>3, <2>2, <2>5, SilentFlow
<1> QED
  BY <1>2, <1>3 DEF Begin

\* The window accepts the next event of the stream it shows.
LEMMA EmitFlow ==
  ASSUME emitted \in Events, win \in Windows, NEW text \in Seq(Providers \cup {"memory"}),
         Showing(win, emitted, text), NEW new \in Seq(Providers \cup {"memory"}),
         NEW k \in {"Started", "TextDelta", "Completed", "Cancelled", "Failed"}, NEW n \in Nat,
         IF k = "Started" THEN Asked(emitted) ELSE OpenBelow(emitted, n), Emit(k, n, new)
  PROVE  /\ emitted' \in Events /\ win' \in Windows /\ emitted'.last = n /\ win'.last = n
         /\ win'.text = text \o new /\ ContractStep
         /\ Terminal(k) => emitted'.phase = "ended"
         /\ ~Terminal(k) => emitted'.phase = "open" /\ win'.status = win.status
<1>1. /\ emitted' = [phase |-> IF Terminal(k) THEN "ended" ELSE "open", last |-> n]
      /\ win' = Shown(k, n, new)
  BY DEF Emit
<1>2. emitted' \in Events /\ emitted'.last = n /\ emitted'.phase = IF Terminal(k) THEN "ended" ELSE "open"
  BY <1>1 DEF Events
<1>3. Accepts(k, n)
  <2>1. ~Terminal(win.status) /\ win.last = emitted.last /\ (win.last = None <=> k = "Started")
    BY StreamAssumption DEF Showing, Terminal, Asked, OpenBelow
  <2> QED
    BY <2>1 DEF Accepts, Asked, OpenBelow
<1>4. /\ win' = [status |-> IF Terminal(k) THEN k ELSE win.status, last |-> n, text |-> text \o new]
      /\ text \o new \in Seq(Providers \cup {"memory"})
  BY <1>1, <1>3 DEF Shown, Showing
<1>5. /\ win' \in Windows /\ win'.last = n /\ win'.text = text \o new
      /\ ~Terminal(k) => win'.status = win.status
  BY <1>4 DEF Windows, Statuses, Terminal
<1>6. ContractStep
  <2>1. CASE k = "Started"
    <3>1. Contract!Start
      BY <1>2, <2>1 DEF Contract!Start, Asked, Terminal
    <3> QED
      BY <3>1 DEF ContractStep
  <2>2. CASE k = "TextDelta"
    <3>1. Contract!Text
      BY <1>2, <2>2 DEF Contract!Text, OpenBelow, Terminal
    <3> QED
      BY <3>1 DEF ContractStep
  <2>3. CASE k \in {"Completed", "Cancelled", "Failed"}
    <3>1. Contract!Finish
      BY <1>2, <2>3 DEF Contract!Finish, OpenBelow, Terminal
    <3> QED
      BY <3>1 DEF ContractStep
  <2> QED
    BY <2>1, <2>2, <2>3
<1> QED
  BY <1>2, <1>5, <1>6

LEMMA TextTypes ==
  ASSUME NEW s \in Seq(Providers)
  PROVE  s \in Seq(Providers \cup {"memory"})
OBVIOUS

\* A stream that went one event further, kept back or sent on.
LEMMA AdvanceFacts ==
  ASSUME NEW tr \in Streams, NEW raw \in Nat
  PROVE  /\ [tr EXCEPT !.suppress = FALSE, !.raw = raw] \in Streams
         /\ [tr EXCEPT !.suppress = FALSE, !.raw = raw].suppress = FALSE
         /\ [tr EXCEPT !.suppress = FALSE, !.raw = raw].raw = raw
         /\ [tr EXCEPT !.suppress = FALSE, !.raw = raw].next = tr.next
         /\ [tr EXCEPT !.suppress = FALSE, !.raw = raw].attempted = tr.attempted
         /\ [tr EXCEPT !.suppress = FALSE, !.raw = raw].rest = tr.rest
         /\ [tr EXCEPT !.suppress = FALSE, !.raw = raw].routing = tr.routing
         /\ [tr EXCEPT !.suppress = FALSE, !.raw = raw].output = tr.output
BY DEF Streams

SentOn(tr, next, raw, output) == [tr EXCEPT !.next = next, !.raw = raw, !.output = output]

LEMMA SentOnFacts ==
  ASSUME NEW tr \in Streams, NEW raw \in Nat, NEW next \in Nat, NEW output \in Seq(Providers)
  PROVE  /\ SentOn(tr, next, raw, output) \in Streams
         /\ SentOn(tr, next, raw, output).suppress = tr.suppress
         /\ SentOn(tr, next, raw, output).raw = raw
         /\ SentOn(tr, next, raw, output).next = next
         /\ SentOn(tr, next, raw, output).attempted = tr.attempted
         /\ SentOn(tr, next, raw, output).rest = tr.rest
         /\ SentOn(tr, next, raw, output).routing = tr.routing
         /\ SentOn(tr, next, raw, output).output = output
BY DEF Streams, SentOn

\* An event of the stream that is sent on is the next one the window waits for; the
\* first one of a provider that took over is kept back.
LEMMA ForwardFlow ==
  ASSUME FlowOK(job, emitted, win, stored), NEW tr \in Streams, Flow(tr, emitted),
         Showing(win, emitted, tr.output), stored = None,
         Len(tr.rest) <= 1, tr.attempted \/ ~tr.routing => tr.rest = <<>>,
         NEW k \in {"Started", "TextDelta", "Completed", "Cancelled", "Failed"},
         k = "Started" <=> tr.raw = 0, Forward(tr, k)
  PROVE  FlowStep
<1> DEFINE n == Number(tr)
           text == IF k = "TextDelta" THEN <<tr.by>> ELSE <<>>
<1>1. /\ emitted \in Events /\ win \in Windows /\ tr.raw \in Nat /\ tr.next \in Nat /\ n \in Nat
      /\ tr.attempted \in BOOLEAN /\ tr.suppress \in BOOLEAN /\ tr.output \in Seq(Providers)
  BY FlowTypes DEF Streams, Number
<1>2. tr.suppress <=> tr.attempted /\ tr.raw = 0
  BY <1>1 DEF Flow
<1>3. CASE tr.suppress /\ k = "Started"
  <2> DEFINE new == [tr EXCEPT !.suppress = FALSE, !.raw = tr.raw + 1]
  <2>1. job' = new /\ emitted' = emitted /\ win' = win /\ stored' = stored
    BY <1>3 DEF Forward
  <2>2. /\ new \in Streams /\ new.suppress = FALSE /\ new.raw = tr.raw + 1 /\ new.next = tr.next
        /\ new.attempted = tr.attempted /\ new.rest = tr.rest /\ new.routing = tr.routing
        /\ new.output = tr.output
    <3>1. tr.raw + 1 \in Nat
      BY <1>1
    <3> QED
      BY ONLY <3>1, tr \in Streams, AdvanceFacts
  <2> HIDE DEF new
  <2>3. Flow(new, emitted)
    <3>1. new.attempted /\ tr.attempted /\ new.raw # 0 /\ new.raw > 0
      BY <1>1, <1>2, <1>3, <2>2
    <3>2. new.suppress = (new.attempted /\ new.raw = 0)
      BY <2>2, <3>1, Zenon
    <3>3. OpenBelow(emitted, Number(new))
      BY <2>2, <3>1 DEF Flow, Number
    <3> QED
      BY <3>1, <3>2, <3>3, Zenon DEF Flow
  <2>4. FlowOK(new, emitted, win, stored)
    BY <1>1, <2>2, <2>3, StreamsFlow
  <2> QED
    BY <2>1, <2>4, SilentFlow
<1>4. CASE ~(tr.suppress /\ k = "Started")
  <2>1. Emit(k, n, text)
    BY <1>4 DEF Forward
  <2>2. text \in Seq(Providers)
    <3>1. tr.by \in Providers
      BY DEF Streams
    <3> QED
      BY <3>1
  <2>3. IF k = "Started" THEN Asked(emitted) ELSE OpenBelow(emitted, n)
    <3>1. k = "Started" => tr.raw = 0 /\ ~tr.attempted
      BY <1>2, <1>4
    <3>2. k # "Started" => tr.raw > 0
      BY <1>1
    <3> QED
      BY <3>1, <3>2 DEF Flow
  <2>4. ~Terminal(k) => ~tr.suppress
    BY <1>2, <1>4 DEF Terminal
  <2> HIDE DEF text
  <2>5. text \in Seq(Providers \cup {"memory"}) /\ tr.output \in Seq(Providers \cup {"memory"})
    BY <1>1, <2>2, TextTypes
  <2>6. /\ emitted' \in Events /\ win' \in Windows /\ emitted'.last = n /\ win'.last = n
        /\ win'.text = tr.output \o text /\ ContractStep
        /\ Terminal(k) => emitted'.phase = "ended"
        /\ ~Terminal(k) => emitted'.phase = "open" /\ win'.status = win.status
    BY <1>1, <2>1, <2>3, <2>5, EmitFlow, ZenonT(60)
  <2>7. CASE Terminal(k)
    <3>1. tr.output \o text = tr.output
      <4>1. text = <<>>
        BY <2>7 DEF text, Terminal
      <4> QED
        BY <1>1, <4>1
    <3>2. job' \in Resting /\ (stored' = None \/ stored' = tr.output)
      BY <1>4, <2>7 DEF Forward, Resting
    <3>3. FlowOK(job', emitted', win', stored')
      BY <2>6, <2>7, <3>1, <3>2, RestingFlow
    <3> QED
      BY <2>6, <3>3 DEF FlowStep
  <2>8. CASE ~Terminal(k)
    <3> DEFINE next == n + 1
               output == tr.output \o text
               raw == tr.raw + 1
               new == SentOn(tr, next, raw, output)
    <3>1. job' = new /\ stored' = stored
      BY <1>4, <2>8 DEF Forward, SentOn, text
    <3>2. next \in Nat /\ output \in Seq(Providers) /\ raw \in Nat
      <4>1. tr.output \o text \in Seq(Providers)
        BY <1>1, <2>2
      <4> QED
        BY <1>1, <4>1
    <3>3. next = n + 1 /\ output = tr.output \o text /\ raw = tr.raw + 1
      OBVIOUS
    <3> HIDE DEF next, output, raw
    <3>4. /\ new \in Streams /\ new.suppress = tr.suppress /\ new.raw = raw /\ new.next = next
          /\ new.attempted = tr.attempted /\ new.rest = tr.rest /\ new.routing = tr.routing
          /\ new.output = output
      BY ONLY <3>2, tr \in Streams, SentOnFacts
    <3> HIDE DEF new
    <3>5. Flow(new, emitted')
      <4>1. new.raw > 0 /\ new.raw # 0
        BY <1>1, <3>3, <3>4
      <4>2. new.suppress = FALSE
        BY <1>1, <2>4, <2>8, <3>4
      <4>3. new.suppress = (new.attempted /\ new.raw = 0)
        BY <4>1, <4>2, Zenon
      <4>4. Number(new) = n + 1
        BY <3>3, <3>4 DEF Number
      <4>5. OpenBelow(emitted', Number(new))
        BY <1>1, <2>6, <2>8, <4>4 DEF OpenBelow
      <4>6. ~new.attempted => new.next = new.raw
        BY <3>3, <3>4 DEF Number
      <4> QED
        BY <4>1, <4>3, <4>5, <4>6, Zenon DEF Flow
    <3>6. Showing(win', emitted', new.output)
      BY <2>6, <2>8, <3>3, <3>4 DEF Showing
    <3>7. FlowOK(new, emitted', win', stored)
      BY <2>6, <3>4, <3>5, <3>6, StreamsFlow
    <3> QED
      BY <2>6, <3>1, <3>7 DEF FlowStep
  <2> QED
    BY <2>7, <2>8
<1> QED
  BY <1>3, <1>4

LEMMA LookupFlow ==
  ASSUME WalkInv, FlowOK(job, emitted, win, stored), Lookup \/ ConnectFallback
  PROVE  FlowStep
<1>1. job \in LookingUp /\ emitted \in Events /\ win \in Windows
  BY OneKind, FlowTypes DEF Lookup, ConnectFallback, WalkInv, TypeInv
<1>2. /\ Asked(emitted) /\ Showing(win, emitted, <<>>) /\ stored = None
      /\ Len(job.rest) <= 1 /\ (~job.routing => job.rest = <<>>)
  BY <1>1, LookingUpFlow
<1>3. CASE Lookup
  <2>1. CASE /\ job' = [pc |-> "hit", n |-> 0] /\ stored' \in {None, <<"memory">>}
             /\ UNCHANGED <<win, emitted>>
    <3>1. job' \in Hits /\ job'.n = 0
      BY <2>1 DEF Hits
    <3>2. FlowOK(job', emitted, win, stored')
      BY <1>1, <1>2, <2>1, <3>1, HitsFlow
    <3> QED
      BY <2>1, <3>2 DEF FlowStep, ContractStep
  <2>2. CASE Begin(job, None) /\ stored' = stored
    BY <1>1, <2>2, BeginFlow
  <2>3. CASE job' = Idle /\ Reject /\ stored' = stored
    <3>1. job' \in Resting /\ job \notin Resting \cup Hits
      BY <1>1, <2>3, Disjoint DEF Resting
    <3> QED
      BY <2>3, <3>1, RejectFlow DEF WalkInv
  <2>4. CASE job' = [job EXCEPT !.pc = "approve"] /\ UNCHANGED <<win, emitted, stored>>
    <3>1. job' \in LookingUp /\ job'.rest = job.rest /\ job'.routing = job.routing
      BY <1>1, <2>4 DEF LookingUp
    <3>2. FlowOK(job', emitted, win, stored)
      BY <1>1, <1>2, <3>1, LookingUpFlow
    <3> QED
      BY <2>4, <3>2, SilentFlow
  <2> QED
    BY <1>3, <2>1, <2>2, <2>3, <2>4 DEF Lookup
<1>4. CASE ConnectFallback
  <2>1. stored' = stored
    BY <1>4 DEF ConnectFallback
  <2>2. CASE \E m \in Models : Begin(job, m)
    BY <1>1, <2>1, <2>2, BeginFlow
  <2>3. CASE job' = Idle /\ Reject
    <3>1. job' \in Resting /\ job \notin Resting \cup Hits
      BY <1>1, <2>3, Disjoint DEF Resting
    <3> QED
      BY <2>1, <2>3, <3>1, RejectFlow DEF WalkInv
  <2> QED
    BY <1>4, <2>2, <2>3 DEF ConnectFallback
<1> QED
  BY <1>3, <1>4

\* The three events of an answer from the memory.
LEMMA HitFlow ==
  ASSUME WalkInv, FlowOK(job, emitted, win, stored), Hit
  PROVE  FlowStep
<1> DEFINE k == <<"Started", "TextDelta", "Completed">>[job.n + 1]
           new == IF job.n = 1 THEN <<"memory">> ELSE <<>>
           text == IF job.n = 2 THEN <<"memory">> ELSE <<>>
<1>1. /\ job \in Hits /\ job.n \in 0..2 /\ Emit(k, job.n, new) /\ stored' = stored
      /\ job' = IF job.n = 2 THEN Idle ELSE [job EXCEPT !.n = @ + 1]
      /\ emitted \in Events /\ win \in Windows
  <2>1. job \in Hits
    BY OneKind DEF Hit, WalkInv, TypeInv
  <2> QED
    BY <2>1, FlowTypes DEF Hit, Hits
<1>2. /\ IF job.n = 0 THEN Asked(emitted) ELSE emitted.phase = "open" /\ emitted.last = job.n - 1
      /\ Showing(win, emitted, text) /\ stored \in {None, <<"memory">>}
  BY <1>1, HitsFlow
<1>3. /\ new \in Seq(Providers \cup {"memory"}) /\ text \in Seq(Providers \cup {"memory"})
      /\ text \o new = IF job.n = 0 THEN <<>> ELSE <<"memory">>
  <2>1. "memory" \in Providers \cup {"memory"}
    OBVIOUS
  <2>2. /\ <<"memory">> \in Seq(Providers \cup {"memory"}) /\ <<>> \in Seq(Providers \cup {"memory"})
    BY <2>1
  <2>3. /\ <<>> \o <<>> = <<>> /\ <<>> \o <<"memory">> = <<"memory">>
        /\ <<"memory">> \o <<>> = <<"memory">>
    OBVIOUS
  <2>4. CASE job.n = 0
    BY <2>2, <2>3, <2>4
  <2>5. CASE job.n = 1
    BY <2>2, <2>3, <2>5
  <2>6. CASE job.n = 2
    BY <2>2, <2>3, <2>6
  <2> QED
    BY <1>1, <2>4, <2>5, <2>6
<1>4. /\ job.n = 0 => k = "Started"
      /\ job.n = 1 => k = "TextDelta"
      /\ job.n = 2 => k = "Completed"
  OBVIOUS
<1> HIDE DEF k, new, text
<1>5. /\ k \in {"Started", "TextDelta", "Completed", "Cancelled", "Failed"} /\ job.n \in Nat
      /\ Terminal(k) <=> job.n = 2
      /\ IF k = "Started" THEN Asked(emitted) ELSE OpenBelow(emitted, job.n)
  BY <1>1, <1>2, <1>4 DEF OpenBelow, Terminal
<1>6. /\ emitted' \in Events /\ win' \in Windows /\ emitted'.last = job.n /\ win'.last = job.n
      /\ win'.text = text \o new /\ ContractStep
      /\ Terminal(k) => emitted'.phase = "ended"
      /\ ~Terminal(k) => emitted'.phase = "open" /\ win'.status = win.status
  BY <1>1, <1>2, <1>3, <1>5, EmitFlow
<1>7. CASE job.n = 2
  <2>1. job' \in Resting
    BY <1>1, <1>7 DEF Resting
  <2>2. win'.text = <<"memory">>
    BY <1>3, <1>6, <1>7
  <2>3. FlowOK(job', emitted', win', stored')
    BY <1>1, <1>2, <1>5, <1>6, <1>7, <2>1, <2>2, RestingFlow
  <2> QED
    BY <1>6, <2>3 DEF FlowStep
<1>8. CASE job.n # 2
  <2>1. job' \in Hits /\ job'.n = job.n + 1 /\ job.n \in {0, 1}
    BY <1>1, <1>8 DEF Hits
  <2>2. Showing(win', emitted', IF job'.n = 2 THEN <<"memory">> ELSE <<>>)
    BY <1>2, <1>3, <1>5, <1>6, <1>8, <2>1 DEF Showing
  <2>3. emitted'.phase = "open" /\ emitted'.last = job'.n - 1 /\ job'.n # 0
    BY <1>5, <1>6, <1>8, <2>1
  <2>4. FlowOK(job', emitted', win', stored')
    BY <1>1, <1>2, <1>6, <2>1, <2>2, <2>3, HitsFlow
  <2> QED
    BY <1>6, <2>4 DEF FlowStep
<1> QED
  BY <1>7, <1>8

LEMMA StreamFlow ==
  ASSUME WalkInv, FlowOK(job, emitted, win, stored),
         \/ \E k \in {"Started", "TextDelta", "Completed", "Cancelled", "Failed"} : StreamEvent(k)
         \/ StreamEnds \/ RoutedFailure
  PROVE  FlowStep
<1>1. job \in Streams /\ emitted \in Events /\ win \in Windows
  BY OneKind, FlowTypes DEF StreamEvent, StreamEnds, RoutedFailure, Streaming, WalkInv, TypeInv
<1>2. /\ Flow(job, emitted) /\ Showing(win, emitted, job.output) /\ stored = None
      /\ Len(job.rest) <= 1 /\ (job.attempted \/ ~job.routing => job.rest = <<>>)
  BY <1>1, StreamsFlow
<1>3. CASE StreamEnds
  <2>1. job' \in Resting /\ job \notin Resting \cup Hits /\ Reject /\ stored' = stored
    BY <1>1, <1>3, Disjoint DEF StreamEnds, Resting
  <2> QED
    BY <2>1, RejectFlow DEF WalkInv
<1>4. ASSUME NEW k \in {"Started", "TextDelta", "Completed", "Cancelled", "Failed"}, StreamEvent(k)
      PROVE  FlowStep
  <2>1. Forward(job, k) /\ (k = "Started" <=> job.raw = 0)
    BY <1>4 DEF StreamEvent, Pass, EngineMay
  <2> QED
    BY <1>1, <1>2, <2>1, ForwardFlow
<1>5. CASE RoutedFailure
  <2>1. /\ job' = [pc |-> "check", use |-> "switch", rest |-> job.rest, first |-> FALSE,
                   failed |-> TRUE, tr |-> job, n |-> job.raw]
        /\ emitted' = emitted /\ win' = win /\ stored' = stored /\ job.raw # 0
    BY <1>5 DEF RoutedFailure, EngineMay
  <2>2. job.rest \in Seq(Candidates) /\ job.raw \in Nat
    BY <1>1 DEF Streams
  <2>3. job' \in Switching /\ job'.tr = job /\ job'.rest = job.rest /\ job'.n = job.raw
    BY <1>1, <2>1, <2>2 DEF Switching
  <2>4. job.raw > 0
    BY <2>1, <2>2
  <2>5. FlowOK(job', emitted, win, stored)
    BY <1>1, <1>2, <2>3, <2>4, SwitchingFlow
  <2> QED
    BY <2>1, <2>5, SilentFlow
<1> QED
  BY <1>3, <1>4, <1>5

LEMMA EndFlow ==
  ASSUME WalkInv, FlowOK(job, emitted, win, stored), WalkEnds
  PROVE  FlowStep
<1> DEFINE tr == [job.tr EXCEPT !.routing = FALSE, !.rest = <<>>]
<1>1. job \in Switching /\ Forward(tr, "Failed") /\ emitted \in Events /\ win \in Windows
  BY OneKind, FlowTypes DEF WalkEnds, WalkInv, TypeInv, Unsent, Pass
<1>2. job.tr \in Streams
  BY <1>1 DEF Switching
<1>3. /\ Flow(job.tr, emitted) /\ job.tr.raw > 0 /\ Showing(win, emitted, job.tr.output)
      /\ stored = None
  BY <1>1, SwitchingFlow
<1>4. /\ tr \in Streams /\ tr.raw = job.tr.raw /\ tr.attempted = job.tr.attempted
      /\ tr.next = job.tr.next /\ tr.suppress = job.tr.suppress /\ tr.rest = <<>>
      /\ tr.output = job.tr.output
  BY <1>2, WalkEndFacts
<1> HIDE DEF tr
<1>5. Flow(tr, emitted)
  BY <1>3, <1>4 DEF Flow, Number
<1>6. tr.raw # 0 /\ Len(tr.rest) <= 1
  <2>1. tr.raw \in Nat
    BY <1>4 DEF Streams
  <2> QED
    BY <1>3, <1>4, <2>1
<1> QED
  BY <1>1, <1>3, <1>4, <1>5, <1>6, ForwardFlow

LEMMA FallbackFlow ==
  ASSUME WalkInv, FlowOK(job, emitted, win, stored), FallbackFailure
  PROVE  FlowStep
<1>1. /\ job \in Streams /\ emitted \in Events /\ win \in Windows /\ job.fb # None
      /\ ~job.attempted /\ job.raw # 0
  BY OneKind, FlowTypes DEF FallbackFailure, Streaming, EngineMay, WalkInv, TypeInv
<1>2. /\ Flow(job, emitted) /\ Showing(win, emitted, job.output) /\ stored = None
      /\ Len(job.rest) <= 1 /\ (job.attempted \/ ~job.routing => job.rest = <<>>)
  BY <1>1, StreamsFlow
<1>3. ~job.routing /\ job.fb \in Fallbacks /\ job.rest = <<>> /\ job.raw \in Nat
  BY <1>1, <1>2 DEF WalkInv, SentOK, Streams
<1>4. CASE job' = Switched(job, job.fb, job.raw) /\ UNCHANGED <<win, emitted, stored>>
  <2>1. job.fb \in Providers /\ job.raw > 0
    BY <1>1, <1>3, StreamAssumption
  <2> QED
    BY <1>1, <1>2, <1>3, <1>4, <2>1, SwitchedFlow
<1>5. CASE Pass([job EXCEPT !.attempted = TRUE, !.fb = None], "Failed")
  <2> DEFINE tr == [job EXCEPT !.attempted = TRUE, !.fb = None]
  <2>1. Forward(tr, "Failed")
    BY <1>5 DEF Pass
  <2>2. /\ tr \in Streams /\ tr.attempted = TRUE /\ tr.raw = job.raw /\ tr.next = job.next
        /\ tr.suppress = job.suppress /\ tr.rest = job.rest /\ tr.output = job.output
    BY <1>1 DEF Streams
  <2> HIDE DEF tr
  <2>3. Flow(tr, emitted)
    <3>1. job.suppress = FALSE /\ OpenBelow(emitted, job.raw) /\ job.next = job.raw
      <4>1. job.raw > 0
        BY <1>1, <1>3
      <4>2. job.suppress = FALSE
        <5>1. job.suppress = (job.attempted /\ job.raw = 0) /\ ~job.attempted
          BY <1>1, <1>2, Zenon DEF Flow
        <5> QED
          BY <5>1, Zenon
      <4> QED
        BY <1>1, <1>2, <4>1, <4>2 DEF Flow, Number
    <3>2. tr.raw # 0 /\ tr.attempted /\ tr.suppress = FALSE /\ OpenBelow(emitted, Number(tr))
      BY <1>1, <2>2, <3>1 DEF Number
    <3>3. tr.suppress = (tr.attempted /\ tr.raw = 0)
      BY <3>2, Zenon
    <3> QED
      BY <3>2, <3>3, Zenon DEF Flow
  <2>4. Len(tr.rest) <= 1 /\ tr.rest = <<>> /\ tr.raw # 0
    BY <1>1, <1>2, <1>3, <2>2
  <2> QED
    BY <1>1, <1>2, <2>1, <2>2, <2>3, <2>4, ForwardFlow
<1> QED
  BY <1>4, <1>5 DEF FallbackFailure

LEMMA InitFlow ==
  ASSUME Init
  PROVE  FlowInv
<1>1. /\ job \in Resting /\ win = [status |-> "Ready", last |-> None, text |-> <<>>]
      /\ emitted = [phase |-> "idle", last |-> None] /\ stored = None
  BY DEF Init, Resting
<1>2. emitted \in Events /\ emitted.phase = "idle"
  BY <1>1 DEF Events
<1>3. win \in Windows
  <2>1. <<>> \in Seq(Providers \cup {"memory"})
    OBVIOUS
  <2> QED
    BY <1>1, <2>1 DEF Windows, Statuses
<1>4. FlowOK(job, emitted, win, stored)
  BY <1>1, <1>2, <1>3, RestingFlow
<1> QED
  BY <1>4, InitWalk DEF FlowInv

LEMMA NextFlow ==
  ASSUME OneChange, FlowInv, [Next]_vars
  PROVE  FlowInv' /\ ContractStep
<1>1. WalkInv /\ TypeInv /\ FlowOK(job, emitted, win, stored)
  BY DEF FlowInv, WalkInv
<1>2. WalkInv'
  BY <1>1, NextWalk
<1>3. FlowStep
  BY <1>1, ClickFlow, OrdersFlow, TakeFlow, CheckFlow, WaitFlow, ConnectFlow, LookupFlow, HitFlow,
     StreamFlow, EndFlow, FallbackFlow DEF Next, Worker
<1> QED
  BY <1>2, <1>3 DEF FlowInv, FlowStep

LEMMA FlowAlways == ASSUME OneChange PROVE Spec => []FlowInv
<1>1. Init => FlowInv
  BY InitFlow
<1>2. FlowInv /\ [Next]_vars => FlowInv'
  BY NextFlow
<1> QED
  BY <1>1, <1>2, PTL DEF Spec

\* As long as no route has more than two candidates: a completed text is recorded as the
\* window shows it, the part of a provider that failed included.
THEOREM RecordedTextIsShown == ASSUME OneChange PROVE Spec => []RecordedIsShown
<1>1. FlowInv => RecordedIsShown
  <2> SUFFICES ASSUME FlowInv, stored # None, job.pc \in {"idle", "stopped"}
               PROVE  stored = win.text
    BY DEF RecordedIsShown
  <2>1. job \in Resting
    BY OneKind DEF FlowInv, WalkInv, TypeInv
  <2> QED
    BY <2>1 DEF FlowInv, FlowOK, ShownOK
<1> QED
  BY <1>1, FlowAlways, PTL

\* As long as no route has more than two candidates: whoever serves the text and whatever
\* fails, the window sees one stream, as StreamContract promises it.
THEOREM OneStreamIsSeen == ASSUME OneChange PROVE Spec => ImplementsContract
<1>1. Init => Contract!Init
  BY DEF Init, Contract!Init
<1>2. FlowInv /\ [Next]_vars =>
        [Contract!Ask \/ Contract!Start \/ Contract!Text \/ Contract!Finish \/ Contract!GiveUp]_<<emitted.phase, emitted.last>>
  BY NextFlow DEF ContractStep
<1> QED
  BY <1>1, <1>2, FlowAlways, PTL DEF Spec, ImplementsContract, Contract!Spec
=============================================================================
