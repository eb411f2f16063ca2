------------------------- MODULE CredentialsProofs -------------------------
(***************************************************************************)
(* Credentials, for any number of secrets in a form, any values and any    *)
(* number of clicks: what the saved profile refers to is in the keyring,   *)
(* and the keyring holds nothing that was typed without Remember.          *)
(***************************************************************************)
EXTENDS Credentials, SequenceTheorems, TLAPS

CrSpec == CrInit /\ [][CrNext]_crVars

Spots == {"idle", "store", "prompt", "fallback", "waiting", "dead"}
Forms == [at : Spots, remember : BOOLEAN, typed : [Slots -> Nat], refs : [Slots -> Int], slot : Nat]
Jobs == [op : {"connect", "delete", "clean"}, typed : [Slots -> Nat], refs : [Slots -> Int],
         persistent : BOOLEAN]

Issued == crClicks * Len(CrSlots)    \* the references that have been made

\* References up to slot n for which a value was typed are among the names D.
Stored(typed, refs, n, D) ==
  \A s \in Slots : s < n /\ typed[s] # NotTyped /\ is_persistent(refs[s]) => refs[s] \in D

\* What the worker is removing from the keyring.
Cleaned(q) == {q[i].refs[s] : i \in {j \in DOMAIN q : q[j].op = "clean"}, s \in Slots}

\* A reference for which a value was typed is none that is being removed.
Spared(typed, refs, K) ==
  \A s \in Slots : typed[s] # NotTyped /\ is_persistent(refs[s]) => refs[s] \notin K

RingOK(r, a, n) ==
  /\ DOMAIN r \subseteq 1..n /\ r = [ref \in DOMAIN r |-> r[ref]]
  /\ \A ref \in DOMAIN r : r[ref] \in a

RowOK(w, D, n) ==
  /\ w.saved \in BOOLEAN /\ w.refs \in [Slots -> 0..n]
  /\ \A s \in Slots : w.refs[s] # NoRef => w.refs[s] \in D
  /\ w.saved \/ w.refs = NoRefs

\* While it stores, the handler holds references of its own and values the user agreed
\* to keep; those of the slots behind it are in the ring.
FormOK(f, D, a, n, K) ==
  /\ f \in Forms
  /\ f.at \in {"store", "prompt"} =>
       /\ \A s \in Slots : f.refs[s] \in -1..n
       /\ \A s \in Slots : f.typed[s] # NotTyped =>
            IF f.remember THEN is_persistent(f.refs[s]) /\ f.typed[s] \in a
            ELSE f.refs[s] = SessionRef
       /\ Stored(f.typed, f.refs, f.slot, D) /\ Spared(f.typed, f.refs, K)
  /\ f.at = "prompt" => f.slot \in Slots /\ f.remember /\ f.typed[f.slot] # NotTyped

JobOK(j, w, D, n, K) ==
  /\ \A s \in Slots : j.refs[s] \in -1..n
  /\ j.op = "clean" => w.refs = NoRefs /\ ~w.saved
  /\ j.op = "connect" => Stored(j.typed, j.refs, Len(CrSlots) + 1, D) /\ Spared(j.typed, j.refs, K)

\* At most a cleanup and a command after it, which the window waits for; while
\* credentials are removed no profile is saved.
QueueOK(q, f, w, D, n) ==
  /\ q \in Seq(Jobs)
  /\ \A i \in DOMAIN q :
       /\ JobOK(q[i], w, D, n, Cleaned(q))
       /\ q[i].op = "clean" => i = 1
       /\ q[i].op # "clean" => i = Len(q) /\ f.at = "waiting"

\* The inductive invariant.
CrInv ==
  /\ crClicks \in Nat /\ RingOK(ring, agreed, Issued)
  /\ RowOK(row, DOMAIN ring, Issued)
  /\ FormOK(form, DOMAIN ring, agreed, Issued, Cleaned(queue))
  /\ QueueOK(queue, form, row, DOMAIN ring, Issued)

---------------------------------------------------------------------------
(* What a step that only adds leaves sound.                                *)

LEMMA Counts ==
  /\ Len(CrSlots) \in Nat /\ Slots = 1..Len(CrSlots) /\ Slots \subseteq Nat
  /\ CrValues \subseteq Nat /\ CrMaxClicks \in Nat /\ 0 \notin CrValues
  /\ \A c \in Nat : c * Len(CrSlots) \in Nat /\ (c + 1) * Len(CrSlots) = c * Len(CrSlots) + Len(CrSlots)
BY CredentialAssumption DEF Slots, NotTyped

LEMMA RowStays ==
  ASSUME NEW w, NEW D, NEW n \in Nat, NEW D2, NEW n2 \in Nat,
         RowOK(w, D, n), D \subseteq D2 \/ w.refs = NoRefs, n <= n2
  PROVE  RowOK(w, D2, n2)
BY DEF RowOK, NoRefs

LEMMA FormStays ==
  ASSUME NEW f, NEW D, NEW a, NEW n \in Nat, NEW K, NEW D2, NEW a2, NEW n2 \in Nat, NEW K2,
         FormOK(f, D, a, n, K), n <= n2, a \subseteq a2,
         D \ K \subseteq D2, K2 \subseteq K \cup {NoRef}
  PROVE  FormOK(f, D2, a2, n2, K2)
BY DEF FormOK, Stored, Spared, is_persistent

LEMMA JobStays ==
  ASSUME NEW j, NEW w, NEW D, NEW n \in Nat, NEW K, NEW D2, NEW n2 \in Nat, NEW K2,
         JobOK(j, w, D, n, K), n <= n2, D \ K \subseteq D2, K2 \subseteq K \cup {NoRef}
  PROVE  JobOK(j, w, D2, n2, K2)
BY DEF JobOK, Stored, Spared, is_persistent

\* The window may do as it likes while it waits for nothing.
LEMMA QueueStays ==
  ASSUME NEW q, NEW f, NEW w, NEW D, NEW n \in Nat, NEW f2, NEW D2, NEW n2 \in Nat,
         QueueOK(q, f, w, D, n), n <= n2, D \ Cleaned(q) \subseteq D2,
         f.at = "waiting" => f2.at = "waiting"
  PROVE  QueueOK(q, f2, w, D2, n2)
<1>1. \A i \in DOMAIN q : JobOK(q[i], w, D2, n2, Cleaned(q))
  BY JobStays DEF QueueOK
<1> QED
  BY <1>1 DEF QueueOK

\* A window that waits for no answer has at most a cleanup before it.
LEMMA NotWaiting ==
  ASSUME CrInv, form.at # "waiting"
  PROVE  \A i \in DOMAIN queue : queue[i].op = "clean" /\ i = 1
BY DEF CrInv, QueueOK

\* References of the cleanup have been made before.
LEMMA CleanedRange ==
  ASSUME CrInv
  PROVE  Cleaned(queue) \subseteq -1..Issued /\ (row.refs # NoRefs => Cleaned(queue) = {})
<1>1. \A i \in DOMAIN queue : \A s \in Slots : queue[i].refs[s] \in -1..Issued
  BY DEF CrInv, QueueOK, JobOK
<1>2. \A i \in DOMAIN queue : queue[i].op = "clean" => row.refs = NoRefs
  BY DEF CrInv, QueueOK, JobOK
<1>3. \A ref \in Cleaned(queue) : \E i \in DOMAIN queue, s \in Slots :
        queue[i].op = "clean" /\ ref = queue[i].refs[s]
  BY DEF Cleaned
<1> QED
  BY <1>1, <1>2, <1>3

\* What a credential is written to, and what that leaves.
LEMMA PutFacts ==
  ASSUME CrInv, NEW s \in Slots, Storing(s) \/ (form.at = "prompt" /\ form.slot = s), To_store(s), Put(s)
  PROVE  /\ RingOK(ring', agreed, Issued) /\ form.refs[s] \in DOMAIN ring'
         /\ DOMAIN ring \subseteq DOMAIN ring'
<1>1. /\ form.refs[s] \in -1..Issued /\ is_persistent(form.refs[s]) /\ form.typed[s] \in agreed
  BY DEF CrInv, FormOK, Storing, To_store
<1>2. form.refs[s] \in 1..Issued
  BY <1>1, Counts DEF is_persistent, NoRef, SessionRef, Issued, CrInv
<1>3. /\ DOMAIN ring' = DOMAIN ring \cup {form.refs[s]} /\ ring' = [ref \in DOMAIN ring' |-> ring'[ref]]
      /\ ring'[form.refs[s]] = form.typed[s]
      /\ \A ref \in DOMAIN ring : ref # form.refs[s] => ring'[ref] = ring[ref]
  BY DEF Put
<1> QED
  BY <1>1, <1>2, <1>3 DEF RingOK, CrInv

---------------------------------------------------------------------------
(* One lemma per action.                                                   *)

\* A step of the window alone, which waits for no answer.
LEMMA WindowStep ==
  ASSUME CrInv, form.at # "waiting", row' = row, queue' = queue, DOMAIN ring \subseteq DOMAIN ring',
         crClicks' \in Nat, Issued <= Issued', RingOK(ring', agreed', Issued'),
         FormOK(form', DOMAIN ring', agreed', Issued', Cleaned(queue))
  PROVE  CrInv'
<1>1. Issued \in Nat /\ Issued' \in Nat
  BY Counts DEF CrInv, Issued
<1>2. RowOK(row', DOMAIN ring', Issued')
  BY <1>1, RowStays DEF CrInv
<1>3. QueueOK(queue', form', row', DOMAIN ring', Issued')
  BY <1>1, QueueStays DEF CrInv
<1> QED
  BY <1>2, <1>3 DEF CrInv

\* A form that stores nothing.
LEMMA IdleForm ==
  ASSUME NEW b \in BOOLEAN, NEW D, NEW a, NEW n, NEW K, NEW p \in {"idle", "fallback", "waiting", "dead"}
  PROVE  FormOK([Idle(b) EXCEPT !.at = p], D, a, n, K) /\ FormOK(Idle(b), D, a, n, K)
<1> DEFINE f == Idle(b)
<1>1. NoValues \in [Slots -> Nat] /\ NoRefs \in [Slots -> Int]
  BY DEF NoValues, NoRefs, NotTyped, NoRef
<1>2. f \in Forms /\ f.at = "idle"
  BY <1>1 DEF Idle, Forms, Spots
<1> HIDE DEF f
<1>3. [f EXCEPT !.at = p] \in Forms /\ [f EXCEPT !.at = p].at = p
  BY <1>2 DEF Forms, Spots
<1>4. FormOK([f EXCEPT !.at = p], D, a, n, K) /\ FormOK(f, D, a, n, K)
  BY <1>2, <1>3 DEF FormOK
<1> QED
  BY <1>4 DEF f

LEMMA ToggleKeeps ==
  ASSUME CrInv, ToggleRemember
  PROVE  CrInv'
<1>1. /\ form \in Forms /\ form.at = "idle" /\ form' = [form EXCEPT !.remember = ~@]
  BY DEF CrInv, FormOK, ToggleRemember
<1>2. form' \in Forms /\ form'.at = "idle"
  BY <1>1 DEF Forms
<1>3. Issued' = Issued /\ Issued \in Nat /\ crClicks' \in Nat
  BY Counts DEF Issued, CrInv, ToggleRemember
<1>4. FormOK(form', DOMAIN ring', agreed', Issued', Cleaned(queue))
  BY <1>2 DEF FormOK
<1>5. RingOK(ring', agreed', Issued') /\ DOMAIN ring' = DOMAIN ring /\ row' = row /\ queue' = queue
  BY <1>3 DEF CrInv, ToggleRemember
<1> QED
  BY <1>1, <1>3, <1>4, <1>5, WindowStep

LEMMA ConnectKeeps ==
  ASSUME CrInv, NEW typed \in [Slots -> CrValues \cup {NotTyped}], Connect(typed)
  PROVE  CrInv'
<1> DEFINE refs == [s \in Slots |-> RefFor(s, typed[s], form.remember)]
           K == Cleaned(queue)
<1>1. /\ form \in Forms /\ form.at = "idle" /\ crClicks \in Nat /\ crClicks' = crClicks + 1
      /\ form' = [form EXCEPT !.at = "store", !.slot = 1, !.typed = typed, !.refs = refs]
      /\ agreed' = agreed \cup (IF form.remember THEN {typed[s] : s \in Slots} \ {NotTyped} ELSE {})
      /\ ring' = ring /\ row' = row /\ queue' = queue
  BY DEF CrInv, FormOK, Connect
<1>2. /\ Issued \in Nat /\ Issued' \in Nat /\ Issued' = Issued + Len(CrSlots) /\ Issued <= Issued'
      /\ crClicks' \in Nat
  BY <1>1, Counts DEF Issued
<1>3. row.refs \in [Slots -> 0..Issued]
  BY DEF CrInv, RowOK
<1>4. \A s \in Slots : NewRef(s) \in (Issued + 1)..Issued'
  BY <1>2, Counts DEF NewRef, Issued
<1>5. K \subseteq -1..Issued /\ (row.refs # NoRefs => K = {})
  BY CleanedRange
<1>6. refs \in [Slots -> Int] /\ \A s \in Slots : refs[s] \in -1..Issued'
  BY <1>2, <1>3, <1>4 DEF RefFor, SessionRef
<1>7. \A s \in Slots : typed[s] # NotTyped =>
        IF form.remember THEN is_persistent(refs[s]) /\ typed[s] \in agreed' ELSE refs[s] = SessionRef
  BY <1>1, <1>2, <1>3, <1>4 DEF RefFor, SessionRef, is_persistent, NoRef
<1>8. ASSUME NEW s \in Slots, typed[s] # NotTyped, is_persistent(refs[s])
      PROVE  refs[s] \notin K
  <2>1. CASE refs[s] = NewRef(s)
    BY <2>1, <1>2, <1>4, <1>5
  <2>2. CASE refs[s] # NewRef(s)
    <3>1. refs[s] = row.refs[s] /\ row.refs[s] # NoRef
      BY <2>2, <1>8 DEF RefFor, is_persistent, SessionRef
    <3>2. row.refs # NoRefs
      BY <3>1 DEF NoRefs
    <3> QED
      BY <3>2, <1>5
  <2> QED
    BY <2>1, <2>2
<1>9. typed \in [Slots -> Nat]
  <2>1. CrValues \cup {NotTyped} \subseteq Nat
    BY Counts DEF NotTyped
  <2> QED
    BY <2>1
<1>10. /\ form' \in Forms /\ form'.at = "store" /\ form'.slot = 1 /\ form'.typed = typed
       /\ form'.refs = refs /\ form'.remember = form.remember
  BY <1>1, <1>6, <1>9 DEF Forms, Spots
<1>11. Stored(typed, refs, 1, DOMAIN ring') /\ Spared(typed, refs, K)
  BY <1>8, Counts DEF Stored, Spared
<1> HIDE DEF refs, K
<1>12. FormOK(form', DOMAIN ring', agreed', Issued', K)
  BY <1>6, <1>7, <1>10, <1>11 DEF FormOK
<1>13. RingOK(ring', agreed', Issued')
  BY <1>1, <1>2 DEF CrInv, RingOK
<1> QED
  BY <1>1, <1>2, <1>12, <1>13, WindowStep DEF K

\* From one slot to the next, with what the slot asks for in the ring.
LEMMA NextSlotKeeps ==
  ASSUME CrInv, NEW s \in Slots, Storing(s) \/ (form.at = "prompt" /\ form.slot = s), NextSlot,
         RingOK(ring', agreed, Issued), DOMAIN ring \subseteq DOMAIN ring',
         To_store(s) => form.refs[s] \in DOMAIN ring',
         row' = row, queue' = queue, crClicks' = crClicks, agreed' = agreed
  PROVE  CrInv'
<1>1. /\ form \in Forms /\ form.at \in {"store", "prompt"} /\ form.slot = s /\ s \in Nat
      /\ form' = [form EXCEPT !.at = "store", !.slot = @ + 1]
  BY Counts DEF CrInv, FormOK, Storing, NextSlot
<1>2. /\ form' \in Forms /\ form'.at = "store" /\ form'.slot = s + 1 /\ form'.typed = form.typed
      /\ form'.refs = form.refs /\ form'.remember = form.remember
  <2>1. form' = [form EXCEPT !.at = "store", !.slot = s + 1] /\ s + 1 \in Nat
    BY <1>1
  <2> QED
    BY <1>1, <2>1 DEF Forms, Spots
<1>3. Issued' = Issued /\ Issued \in Nat /\ crClicks' \in Nat
  BY Counts DEF Issued, CrInv
<1>4. /\ \A t \in Slots : form.refs[t] \in -1..Issued
      /\ \A t \in Slots : form.typed[t] # NotTyped =>
           IF form.remember THEN is_persistent(form.refs[t]) /\ form.typed[t] \in agreed
           ELSE form.refs[t] = SessionRef
      /\ Stored(form.typed, form.refs, s, DOMAIN ring) /\ Spared(form.typed, form.refs, Cleaned(queue))
  BY <1>1 DEF CrInv, FormOK
<1>5. Stored(form.typed, form.refs, s + 1, DOMAIN ring')
  <2>1. ASSUME NEW t \in Slots, t < s + 1, form.typed[t] # NotTyped, is_persistent(form.refs[t])
        PROVE  form.refs[t] \in DOMAIN ring'
    <3>1. CASE t = s
      BY <3>1, <2>1, <1>4 DEF To_store, is_persistent
    <3>2. CASE t < s
      BY <3>2, <2>1, <1>4 DEF Stored
    <3> QED
      BY <2>1, <3>1, <3>2, <1>1, Counts
  <2> QED
    BY <2>1 DEF Stored
<1>6. FormOK(form', DOMAIN ring', agreed', Issued', Cleaned(queue))
  BY <1>2, <1>3, <1>4, <1>5 DEF FormOK
<1>7. RingOK(ring', agreed', Issued') /\ Issued <= Issued' /\ form.at # "waiting"
  BY <1>1, <1>3
<1> QED
  BY <1>3, <1>6, <1>7, WindowStep

\* A form that gives up, whatever the ring has got by then.
LEMMA GiveUpKeeps ==
  ASSUME CrInv, form.at # "waiting", NEW b \in BOOLEAN, NEW p \in {"idle", "fallback", "waiting", "dead"},
         form' = [Idle(b) EXCEPT !.at = p] \/ form' = Idle(b),
         RingOK(ring', agreed, Issued), DOMAIN ring \subseteq DOMAIN ring',
         row' = row, queue' = queue, crClicks' = crClicks, agreed' = agreed
  PROVE  CrInv'
<1>1. FormOK(form', DOMAIN ring', agreed', Issued', Cleaned(queue))
  <2>1. CASE form' = [Idle(b) EXCEPT !.at = p]
    BY <2>1, IdleForm
  <2>2. CASE form' = Idle(b)
    BY <2>2, IdleForm
  <2> QED
    BY <2>1, <2>2
<1>2. Issued' = Issued /\ Issued \in Nat /\ crClicks' \in Nat /\ Issued <= Issued'
  BY Counts DEF Issued, CrInv
<1>3. RingOK(ring', agreed', Issued')
  BY <1>2
<1> QED
  BY <1>1, <1>2, <1>3, WindowStep

LEMMA SkipKeeps ==
  ASSUME CrInv, NEW s \in Slots, SkipSlot(s)
  PROVE  CrInv'
<1>1. /\ Storing(s) /\ ~To_store(s) /\ NextSlot /\ ring' = ring /\ RingOK(ring, agreed, Issued)
      /\ row' = row /\ queue' = queue /\ crClicks' = crClicks /\ agreed' = agreed
  BY DEF SkipSlot, CrInv
<1> QED
  BY <1>1, NextSlotKeeps

LEMMA StoreKeeps ==
  ASSUME CrInv, NEW s \in Slots, store_secret(s) \/ prompt(s)
  PROVE  CrInv'
<1>1. /\ Storing(s) \/ (form.at = "prompt" /\ form.slot = s)
      /\ To_store(s) /\ form.at # "waiting" /\ form \in Forms /\ form.remember \in BOOLEAN
      /\ row' = row /\ queue' = queue /\ crClicks' = crClicks /\ agreed' = agreed
  BY DEF store_secret, prompt, Storing, To_store, CrInv, FormOK, Forms
<1>2. CASE Put(s) /\ (NextSlot \/ StoreFailed)
  <2>1. RingOK(ring', agreed, Issued) /\ form.refs[s] \in DOMAIN ring' /\ DOMAIN ring \subseteq DOMAIN ring'
    BY <1>1, <1>2, PutFacts
  <2>2. CASE NextSlot
    BY <2>1, <2>2, <1>1, NextSlotKeeps
  <2>3. CASE StoreFailed
    BY <2>1, <2>3, <1>1, GiveUpKeeps DEF StoreFailed
  <2> QED
    BY <1>2, <2>2, <2>3
<1>3. CASE ring' = ring /\ StoreFailed
  BY <1>1, <1>3, GiveUpKeeps DEF StoreFailed, CrInv
<1>4. CASE ring' = ring /\ Storing(s) /\ form' = [form EXCEPT !.at = "prompt"]
  <2>1. /\ form' \in Forms /\ form'.at = "prompt" /\ form'.slot = s /\ form'.typed = form.typed
        /\ form'.refs = form.refs /\ form'.remember = form.remember
    BY <1>1, <1>4 DEF Forms, Spots, Storing
  <2>2. Issued' = Issued /\ Issued \in Nat /\ crClicks' \in Nat /\ Issued <= Issued'
    BY <1>1, Counts DEF Issued, CrInv
  <2>3. FormOK(form, DOMAIN ring, agreed, Issued, Cleaned(queue)) /\ form.at = "store" /\ form.slot = s
    BY <1>4 DEF CrInv, Storing
  <2>4. FormOK(form', DOMAIN ring', agreed', Issued', Cleaned(queue))
    BY <1>1, <1>4, <2>1, <2>2, <2>3 DEF FormOK, To_store
  <2>5. RingOK(ring', agreed', Issued')
    BY <1>1, <1>4, <2>2 DEF CrInv
  <2> QED
    BY <1>1, <1>4, <2>2, <2>4, <2>5, WindowStep
<1>5. \/ Put(s) /\ (NextSlot \/ StoreFailed)
      \/ ring' = ring /\ StoreFailed
      \/ ring' = ring /\ Storing(s) /\ form' = [form EXCEPT !.at = "prompt"]
  BY DEF store_secret, prompt
<1> QED
  BY <1>2, <1>3, <1>4, <1>5

LEMMA FallbackKeeps ==
  ASSUME CrInv, DispatchDuringPrompt \/ \E b \in BOOLEAN : show_secret_storage_session_fallback(b)
  PROVE  CrInv'
<1>1. /\ form.at # "waiting" /\ form.remember \in BOOLEAN
      /\ \E b \in BOOLEAN : form' = [Idle(b) EXCEPT !.at = "dead"] \/ form' = Idle(b)
      /\ ring' = ring /\ RingOK(ring, agreed, Issued)
      /\ row' = row /\ queue' = queue /\ crClicks' = crClicks /\ agreed' = agreed
  BY DEF DispatchDuringPrompt, show_secret_storage_session_fallback, CrInv, FormOK, Forms
<1> QED
  BY <1>1, GiveUpKeeps

\* The ring, the row and the clicks are as they were.
LEMMA QueueStep ==
  ASSUME CrInv, ring' = ring, row' = row, crClicks' = crClicks, agreed' = agreed,
         FormOK(form', DOMAIN ring, agreed, Issued, Cleaned(queue')),
         QueueOK(queue', form', row, DOMAIN ring, Issued)
  PROVE  CrInv'
<1>1. Issued' = Issued
  BY DEF Issued
<1> QED
  BY <1>1 DEF CrInv

\* A command after what is being cleaned up.
LEMMA CommandQueued ==
  ASSUME CrInv, form.at # "waiting", NEW job \in Jobs, job.op # "clean",
         \A s \in Slots : job.refs[s] \in -1..Issued,
         job.op = "connect" => /\ Stored(job.typed, job.refs, Len(CrSlots) + 1, DOMAIN ring)
                               /\ Spared(job.typed, job.refs, Cleaned(queue)),
         queue' = Append(queue, job), form'.at = "waiting"
  PROVE  QueueOK(queue', form', row, DOMAIN ring, Issued) /\ Cleaned(queue') = Cleaned(queue)
<1>1. queue \in Seq(Jobs)
  BY DEF CrInv, QueueOK
<1>2. /\ queue' \in Seq(Jobs) /\ Len(queue') = Len(queue) + 1 /\ Len(queue) \in Nat
      /\ DOMAIN queue = 1..Len(queue) /\ DOMAIN queue' = 1..Len(queue')
      /\ queue'[Len(queue')] = job /\ \A i \in DOMAIN queue : queue'[i] = queue[i]
  BY <1>1
<1>3. DOMAIN queue' = DOMAIN queue \cup {Len(queue')}
  BY <1>2
<1>4. Cleaned(queue') = Cleaned(queue)
  <2>1. {j \in DOMAIN queue' : queue'[j].op = "clean"} = {j \in DOMAIN queue : queue[j].op = "clean"}
    BY <1>2, <1>3
  <2>2. \A i \in {j \in DOMAIN queue : queue[j].op = "clean"} : queue'[i] = queue[i]
    BY <1>2
  <2> QED
    BY <2>1, <2>2 DEF Cleaned
<1>5. JobOK(job, row, DOMAIN ring, Issued, Cleaned(queue'))
  BY <1>4 DEF JobOK
<1>6. \A i \in DOMAIN queue : queue[i].op = "clean" /\ i = 1
  BY NotWaiting
<1>7. \A i \in DOMAIN queue : JobOK(queue[i], row, DOMAIN ring, Issued, Cleaned(queue'))
  BY <1>4 DEF CrInv, QueueOK
<1>8. \A i \in DOMAIN queue' :
        /\ JobOK(queue'[i], row, DOMAIN ring, Issued, Cleaned(queue'))
        /\ queue'[i].op = "clean" => i = 1
        /\ queue'[i].op # "clean" => i = Len(queue') /\ form'.at = "waiting"
  BY <1>2, <1>3, <1>5, <1>6, <1>7
<1> QED
  BY <1>2, <1>4, <1>8 DEF QueueOK

LEMMA BeginKeeps ==
  ASSUME CrInv, Begin_connection
  PROVE  CrInv'
<1> DEFINE job == [op |-> "connect", typed |-> form.typed, refs |-> form.refs, persistent |-> form.remember]
<1>1. /\ form.at = "store" /\ form.slot = Len(CrSlots) + 1 /\ form \in Forms
      /\ form.remember \in BOOLEAN
      /\ ring' = ring /\ row' = row /\ crClicks' = crClicks /\ agreed' = agreed
      /\ \/ queue' = Append(queue, job) /\ form' = [Idle(form.remember) EXCEPT !.at = "waiting"]
         \/ queue' = queue /\ form' = Idle(form.remember)
  BY DEF Begin_connection, CrInv, FormOK, Forms
<1>2. CASE queue' = queue /\ form' = Idle(form.remember)
  BY <1>1, <1>2, GiveUpKeeps DEF CrInv
<1>3. CASE queue' = Append(queue, job) /\ form' = [Idle(form.remember) EXCEPT !.at = "waiting"]
  <2>1. form'.at = "waiting"
    BY <1>3 DEF Idle
  <2>2. job \in Jobs /\ job.op = "connect" /\ job.refs = form.refs /\ job.typed = form.typed
    BY <1>1 DEF Jobs, Forms
  <2> HIDE DEF job
  <2>3. /\ \A s \in Slots : form.refs[s] \in -1..Issued
        /\ Stored(form.typed, form.refs, Len(CrSlots) + 1, DOMAIN ring)
        /\ Spared(form.typed, form.refs, Cleaned(queue))
    BY <1>1 DEF CrInv, FormOK
  <2>4. QueueOK(queue', form', row, DOMAIN ring, Issued) /\ Cleaned(queue') = Cleaned(queue)
    BY <1>1, <1>3, <2>1, <2>2, <2>3, CommandQueued
  <2>5. FormOK(form', DOMAIN ring, agreed, Issued, Cleaned(queue'))
    BY <1>1, <1>3, IdleForm
  <2> QED
    BY <1>1, <2>4, <2>5, QueueStep
<1> QED
  BY <1>1, <1>2, <1>3

LEMMA RemoveKeeps ==
  ASSUME CrInv, RemoveProfile
  PROVE  CrInv'
<1> DEFINE job == [op |-> "delete", typed |-> NoValues, refs |-> NoRefs, persistent |-> FALSE]
<1>1. /\ form.at = "idle" /\ form \in Forms /\ row.saved
      /\ ring' = ring /\ row' = row /\ agreed' = agreed /\ crClicks' = crClicks + 1
      /\ queue' = Append(queue, job) /\ form' = [form EXCEPT !.at = "waiting"]
  BY DEF RemoveProfile, CrInv, FormOK
<1>2. form' \in Forms /\ form'.at = "waiting"
  BY <1>1 DEF Forms, Spots
<1>3. NoValues \in [Slots -> Nat] /\ NoRefs \in [Slots -> Int] /\ \A s \in Slots : NoRefs[s] = 0
  BY DEF NoValues, NoRefs, NotTyped, NoRef
<1>4. job \in Jobs /\ job.op = "delete" /\ job.refs = NoRefs
  BY <1>3 DEF Jobs
<1> HIDE DEF job
<1>5. Issued \in Nat /\ Issued' \in Nat /\ Issued <= Issued' /\ crClicks' \in Nat
  BY <1>1, Counts DEF CrInv, Issued
<1>6. \A s \in Slots : job.refs[s] \in -1..Issued
  BY <1>3, <1>4, <1>5
<1>7. QueueOK(queue', form', row, DOMAIN ring, Issued)
  BY <1>1, <1>2, <1>4, <1>6, CommandQueued
<1>8. QueueOK(queue', form', row', DOMAIN ring', Issued')
  BY <1>1, <1>5, <1>7, QueueStays
<1>9. RowOK(row', DOMAIN ring', Issued')
  BY <1>1, <1>5, RowStays DEF CrInv
<1>10. RingOK(ring', agreed', Issued')
  BY <1>1, <1>5 DEF CrInv, RingOK
<1>11. FormOK(form', DOMAIN ring', agreed', Issued', Cleaned(queue'))
  BY <1>2 DEF FormOK
<1> QED
  BY <1>5, <1>8, <1>9, <1>10, <1>11 DEF CrInv

---------------------------------------------------------------------------
(* The worker.                                                             *)

LEMMA AtHead ==
  ASSUME CrInv, queue # << >>
  PROVE  /\ queue \in Seq(Jobs) /\ Len(queue) \in Nat \ {0} /\ DOMAIN queue = 1..Len(queue) /\ 1 \in DOMAIN queue
         /\ Head(queue) = queue[1] /\ queue[1] \in Jobs
         /\ JobOK(queue[1], row, DOMAIN ring, Issued, Cleaned(queue))
         /\ queue[1].op # "clean" => Len(queue) = 1 /\ form.at = "waiting" /\ Tail(queue) = << >>
<1>1. queue \in Seq(Jobs)
  BY DEF CrInv, QueueOK
<1>2. /\ Len(queue) \in Nat \ {0} /\ DOMAIN queue = 1..Len(queue) /\ 1 \in DOMAIN queue
      /\ Head(queue) = queue[1] /\ queue[1] \in Jobs
  BY <1>1
<1>3. /\ JobOK(queue[1], row, DOMAIN ring, Issued, Cleaned(queue))
      /\ queue[1].op # "clean" => 1 = Len(queue) /\ form.at = "waiting"
  BY <1>2 DEF CrInv, QueueOK
<1>4. Len(queue) = 1 => Tail(queue) = << >>
  <2> DEFINE tail == Tail(queue)
  <2>1. tail \in Seq(Jobs) /\ Len(tail) = Len(queue) - 1
    BY <1>1, <1>2
  <2> HIDE DEF tail
  <2>2. Len(queue) = 1 => tail = << >>
    BY <2>1, EmptySeq
  <2> QED
    BY <2>2 DEF tail
<1> QED
  BY <1>1, <1>2, <1>3, <1>4

LEMMA NoCommands ==
  ASSUME NEW f, NEW w, NEW D, NEW n
  PROVE  QueueOK(<< >>, f, w, D, n) /\ Cleaned(<< >>) = {}
BY DEF QueueOK, Cleaned

\* An answered window.
LEMMA Answered ==
  ASSUME CrInv, form.at = "waiting", Answer_window, NEW D, NEW a, NEW n, NEW K
  PROVE  FormOK(form', D, a, n, K)
<1>1. form.remember \in BOOLEAN
  BY DEF CrInv, FormOK, Forms
<1> QED
  BY <1>1, IdleForm DEF Answer_window

LEMMA FinishKeeps ==
  ASSUME CrInv, finish_candidate_connection
  PROVE  CrInv'
<1> DEFINE job == queue[1]
<1>1. queue # << >> /\ Head(queue).op = "connect"
  BY DEF finish_candidate_connection, Working
<1>2. /\ job \in Jobs /\ job.op = "connect" /\ Head(queue) = job /\ Tail(queue) = << >> /\ form.at = "waiting"
      /\ JobOK(job, row, DOMAIN ring, Issued, Cleaned(queue))
  BY <1>1, AtHead
<1>3. /\ queue' = << >> /\ Answer_window
      /\ ring' = ring /\ agreed' = agreed /\ crClicks' = crClicks
      /\ \/ /\ connect_candidate(job)
            /\ row' = [saved |-> TRUE, refs |-> profile_without_secret(job.refs)]
         \/ row' = row
  BY <1>2 DEF finish_candidate_connection
<1>4. Issued' = Issued /\ Issued \in Nat
  BY <1>3, Counts DEF Issued, CrInv
<1>5. RowOK(row', DOMAIN ring, Issued)
  <2>1. CASE row' = row
    BY <2>1 DEF CrInv
  <2>2. CASE /\ connect_candidate(job)
             /\ row' = [saved |-> TRUE, refs |-> profile_without_secret(job.refs)]
    <3>1. \A s \in Slots : job.refs[s] \in -1..Issued
      BY <1>2 DEF JobOK
    <3>2. row'.saved = TRUE /\ row'.refs = profile_without_secret(job.refs)
      BY <2>2
    <3>3. row'.refs \in [Slots -> 0..Issued]
      BY <1>4, <3>1, <3>2 DEF profile_without_secret, is_persistent, NoRef, SessionRef
    <3>4. ASSUME NEW s \in Slots, row'.refs[s] # NoRef PROVE row'.refs[s] \in DOMAIN ring
      <4>1. is_persistent(job.refs[s]) /\ row'.refs[s] = job.refs[s] /\ job.refs[s] # NoRef
        BY <3>2, <3>4 DEF profile_without_secret, is_persistent
      <4>2. CASE job.typed[s] # NotTyped
        <5>1. s < Len(CrSlots) + 1
          BY Counts
        <5> QED
          BY <1>2, <4>1, <4>2, <5>1 DEF JobOK, Stored
      <4>3. CASE job.typed[s] = NotTyped
        BY <2>2, <4>1, <4>3 DEF connect_candidate, resolve_secret
      <4> QED
        BY <4>2, <4>3
    <3> QED
      BY <3>2, <3>3, <3>4 DEF RowOK
  <2> QED
    BY <1>3, <2>1, <2>2
<1>6. FormOK(form', DOMAIN ring', agreed', Issued', Cleaned(queue'))
  BY <1>2, <1>3, Answered
<1>7. QueueOK(queue', form', row', DOMAIN ring', Issued')
  BY <1>3, NoCommands
<1> QED
  BY <1>3, <1>4, <1>5, <1>6, <1>7 DEF CrInv

\* One command in the queue.
LEMMA OneCleanup ==
  ASSUME NEW job \in Jobs, job.op = "clean", NEW f, NEW w, NEW D, NEW n,
         \A s \in Slots : job.refs[s] \in -1..n, w.refs = NoRefs, ~w.saved
  PROVE  QueueOK(<<job>>, f, w, D, n)
BY DEF QueueOK, JobOK

LEMMA DeleteKeeps ==
  ASSUME CrInv, delete_saved_profile
  PROVE  CrInv'
<1> DEFINE job == queue[1]
           clean == [job EXCEPT !.op = "clean", !.refs = row.refs]
<1>1. queue # << >> /\ Head(queue).op = "delete"
  BY DEF delete_saved_profile, Working
<1>2. /\ job \in Jobs /\ job.op = "delete" /\ Head(queue) = job /\ Tail(queue) = << >> /\ form.at = "waiting"
  BY <1>1, AtHead
<1>3. /\ Answer_window /\ ring' = ring /\ agreed' = agreed /\ crClicks' = crClicks
      /\ \/ row' = [saved |-> FALSE, refs |-> NoRefs] /\ queue' = <<clean>> \o << >>
         \/ row' = row /\ queue' = << >>
  BY <1>2 DEF delete_saved_profile
<1>4. Issued' = Issued /\ Issued \in Nat
  BY <1>3, Counts DEF Issued, CrInv
<1>5. FormOK(form', DOMAIN ring', agreed', Issued', Cleaned(queue'))
  BY <1>2, <1>3, Answered
<1>6. CASE row' = row /\ queue' = << >>
  <2>1. QueueOK(queue', form', row', DOMAIN ring', Issued')
    BY <1>6, NoCommands
  <2> QED
    BY <1>3, <1>4, <1>5, <1>6, <2>1 DEF CrInv
<1>7. CASE row' = [saved |-> FALSE, refs |-> NoRefs] /\ queue' = <<clean>> \o << >>
  <2>1. row.refs \in [Slots -> 0..Issued]
    BY DEF CrInv, RowOK
  <2>2. row.refs \in [Slots -> Int]
    BY <1>4, <2>1
  <2>3. clean \in Jobs /\ clean.op = "clean" /\ clean.refs = row.refs
    BY <1>2, <2>2 DEF Jobs
  <2> HIDE DEF clean
  <2>4. queue' = <<clean>>
    BY <1>7
  <2>5. row'.refs = NoRefs /\ row'.saved = FALSE
    BY <1>7
  <2>6. \A s \in Slots : clean.refs[s] \in -1..Issued
    BY <1>4, <2>1, <2>3
  <2>7. QueueOK(queue', form', row', DOMAIN ring', Issued')
    BY <1>4, <2>3, <2>4, <2>5, <2>6, OneCleanup
  <2>8. RowOK(row', DOMAIN ring', Issued')
    <3>1. NoRefs \in [Slots -> 0..Issued] /\ \A s \in Slots : NoRefs[s] = NoRef
      BY <1>4 DEF NoRefs, NoRef
    <3> QED
      BY <1>4, <2>5, <3>1 DEF RowOK
  <2> QED
    BY <1>3, <1>4, <1>5, <2>7, <2>8 DEF CrInv
<1> QED
  BY <1>3, <1>6, <1>7

\* One credential less to remove; what was removed is none that a value was typed for.
LEMMA RemovedKeeps ==
  ASSUME CrInv, NEW s \in Slots, NEW ok \in BOOLEAN, delete_secret(s, ok)
  PROVE  CrInv'
<1> DEFINE job == queue[1]
           ref == job.refs[s]
           rest == [job EXCEPT !.refs[s] = NoRef]
           K == Cleaned(queue)
<1>1. queue # << >> /\ Head(queue).op = "clean"
  BY DEF delete_secret, Working
<1>2. /\ queue \in Seq(Jobs) /\ DOMAIN queue = 1..Len(queue) /\ 1 \in DOMAIN queue
      /\ job \in Jobs /\ job.op = "clean" /\ Head(queue) = job
      /\ JobOK(job, row, DOMAIN ring, Issued, K)
  BY <1>1, AtHead
<1>3. /\ row' = row /\ form' = form /\ agreed' = agreed /\ crClicks' = crClicks
      /\ ring' = ring \/ ring' = Restrict(ring, DOMAIN ring \ {ref})
      /\ queue' = [queue EXCEPT ![1].refs[s] = NoRef]
  BY <1>2 DEF delete_secret
<1>4. Issued' = Issued /\ Issued \in Nat
  BY <1>3, Counts DEF Issued, CrInv
<1>5. ref \in K
  BY <1>2 DEF Cleaned
<1>6. /\ rest \in Jobs /\ rest.op = "clean"
      /\ \A t \in Slots : rest.refs[t] = IF t = s THEN NoRef ELSE job.refs[t]
  <2>1. rest.op = "clean" /\ rest.refs = [job.refs EXCEPT ![s] = NoRef] /\ job.refs \in [Slots -> Int]
    BY <1>2 DEF Jobs
  <2>2. rest.refs \in [Slots -> Int]
    BY <2>1 DEF NoRef
  <2>3. rest \in Jobs
    BY <1>2, <2>2 DEF Jobs
  <2>4. \A t \in Slots : rest.refs[t] = IF t = s THEN NoRef ELSE job.refs[t]
    BY <2>1
  <2> QED
    BY <2>1, <2>3, <2>4
<1>7. /\ DOMAIN queue' = DOMAIN queue /\ Len(queue') = Len(queue) /\ queue' \in Seq(Jobs)
      /\ queue'[1] = rest /\ \A i \in DOMAIN queue : i # 1 => queue'[i] = queue[i]
  <2>1. queue' = [queue EXCEPT ![1] = rest]
    BY <1>2, <1>3
  <2> QED
    BY <1>2, <1>6, <2>1
<1>8. DOMAIN ring \ K \subseteq DOMAIN ring' /\ RingOK(ring', agreed, Issued)
  <2>1. CASE ring' = ring
    BY <2>1 DEF CrInv
  <2>2. CASE ring' = Restrict(ring, DOMAIN ring \ {ref})
    <3>1. /\ DOMAIN ring' = DOMAIN ring \ {ref} /\ ring' = [x \in DOMAIN ring' |-> ring'[x]]
          /\ \A x \in DOMAIN ring' : ring'[x] = ring[x]
      BY <2>2 DEF Restrict
    <3> QED
      BY <1>5, <3>1 DEF CrInv, RingOK
  <2> QED
    BY <1>3, <2>1, <2>2
<1> HIDE DEF rest
<1>9. Cleaned(queue') \subseteq K \cup {NoRef}
  <2>1. ASSUME NEW i \in DOMAIN queue', NEW t \in Slots, queue'[i].op = "clean"
        PROVE  queue'[i].refs[t] \in K \cup {NoRef}
    <3>1. CASE i = 1
      BY <3>1, <1>2, <1>6, <1>7 DEF Cleaned
    <3>2. CASE i # 1
      BY <3>2, <2>1, <1>7 DEF Cleaned
    <3> QED
      BY <3>1, <3>2
  <2> QED
    BY <2>1 DEF Cleaned
<1>10. RowOK(row', DOMAIN ring', Issued')
  <2>1. row.refs = NoRefs
    BY <1>2 DEF JobOK
  <2>2. RowOK(row, DOMAIN ring, Issued)
    BY DEF CrInv
  <2> QED
    BY <1>3, <1>4, <2>1, <2>2, RowStays
<1>11. FormOK(form', DOMAIN ring', agreed', Issued', Cleaned(queue'))
  <2>1. FormOK(form, DOMAIN ring, agreed, Issued, K)
    BY DEF CrInv
  <2>2. FormOK(form, DOMAIN ring', agreed, Issued, Cleaned(queue'))
    BY <1>4, <1>8, <1>9, <2>1, FormStays
  <2> QED
    BY <1>3, <1>4, <2>2
<1>12. ASSUME NEW i \in DOMAIN queue'
       PROVE  /\ JobOK(queue'[i], row', DOMAIN ring', Issued', Cleaned(queue'))
              /\ queue'[i].op = "clean" => i = 1
              /\ queue'[i].op # "clean" => i = Len(queue') /\ form'.at = "waiting"
  <2>1. CASE i = 1
    <3>1. /\ \A t \in Slots : job.refs[t] \in -1..Issued
          /\ row.refs = NoRefs /\ ~row.saved
      BY <1>2 DEF JobOK
    <3>2. \A t \in Slots : rest.refs[t] \in -1..Issued
      BY <1>4, <1>6, <3>1 DEF NoRef
    <3>3. JobOK(rest, row, DOMAIN ring', Issued, Cleaned(queue'))
      BY <1>6, <3>1, <3>2 DEF JobOK
    <3> QED
      BY <1>3, <1>4, <1>6, <1>7, <2>1, <3>3
  <2>2. CASE i # 1
    <3>1. /\ i \in DOMAIN queue /\ queue'[i] = queue[i] /\ JobOK(queue[i], row, DOMAIN ring, Issued, K)
          /\ queue[i].op = "clean" => i = 1
          /\ queue[i].op # "clean" => i = Len(queue) /\ form.at = "waiting"
      BY <1>7, <2>2 DEF CrInv, QueueOK
    <3>2. JobOK(queue[i], row, DOMAIN ring', Issued, Cleaned(queue'))
      BY <1>4, <1>8, <1>9, <3>1, JobStays
    <3> QED
      BY <1>3, <1>4, <1>7, <2>2, <3>1, <3>2
  <2> QED
    BY <2>1, <2>2
<1>13. QueueOK(queue', form', row', DOMAIN ring', Issued')
  BY <1>7, <1>12 DEF QueueOK
<1> QED
  BY <1>3, <1>4, <1>8, <1>10, <1>11, <1>13 DEF CrInv

LEMMA CleanupEndsKeeps ==
  ASSUME CrInv, CleanupEnds
  PROVE  CrInv'
<1>1. /\ queue # << >> /\ queue' = Tail(queue) /\ queue[1].op = "clean"
      /\ ring' = ring /\ row' = row /\ form' = form /\ agreed' = agreed /\ crClicks' = crClicks
  BY AtHead DEF CleanupEnds, Working
<1>2. /\ queue \in Seq(Jobs) /\ DOMAIN queue = 1..Len(queue) /\ Len(queue) \in Nat \ {0}
  BY <1>1, AtHead
<1>3. /\ queue' \in Seq(Jobs) /\ Len(queue') = Len(queue) - 1 /\ DOMAIN queue' = 1..Len(queue')
      /\ \A i \in DOMAIN queue' : i + 1 \in DOMAIN queue /\ queue'[i] = queue[i + 1]
  BY <1>1, <1>2
<1>4. Cleaned(queue') \subseteq Cleaned(queue)
  BY <1>3 DEF Cleaned
<1>5. Issued \in Nat
  BY Counts DEF Issued, CrInv
<1>6. FormOK(form', DOMAIN ring, agreed, Issued, Cleaned(queue'))
  BY <1>1, <1>4, <1>5, FormStays DEF CrInv
<1>7. ASSUME NEW i \in DOMAIN queue'
      PROVE  /\ JobOK(queue'[i], row, DOMAIN ring, Issued, Cleaned(queue'))
             /\ queue'[i].op # "clean" /\ i = Len(queue') /\ form'.at = "waiting"
  <2>1. /\ JobOK(queue[i + 1], row, DOMAIN ring, Issued, Cleaned(queue))
        /\ queue[i + 1].op = "clean" => i + 1 = 1
        /\ queue[i + 1].op # "clean" => i + 1 = Len(queue) /\ form.at = "waiting"
    BY <1>3 DEF CrInv, QueueOK
  <2>2. JobOK(queue[i + 1], row, DOMAIN ring, Issued, Cleaned(queue'))
    BY <1>4, <1>5, <2>1, JobStays
  <2>3. i \in Nat \ {0}
    BY <1>2, <1>3
  <2> QED
    BY <1>1, <1>3, <2>1, <2>2, <2>3
<1>8. QueueOK(queue', form', row, DOMAIN ring, Issued)
  BY <1>3, <1>7 DEF QueueOK
<1> QED
  BY <1>1, <1>6, <1>8, QueueStep

LEMMA AroundKeeps ==
  ASSUME CrInv, CrCrash \/ (\E b \in BOOLEAN : SetLocked(b)) \/ UNCHANGED crVars
  PROVE  CrInv'
<1>1. CASE CrCrash
  <2>1. /\ form' = Idle(FALSE) /\ queue' = << >>
        /\ ring' = ring /\ row' = row /\ agreed' = agreed /\ crClicks' = crClicks
    BY <1>1 DEF CrCrash
  <2>2. FormOK(form', DOMAIN ring, agreed, Issued, Cleaned(queue'))
    BY <2>1, IdleForm
  <2>3. QueueOK(queue', form', row, DOMAIN ring, Issued)
    BY <2>1, NoCommands
  <2> QED
    BY <2>1, <2>2, <2>3, QueueStep
<1>2. CASE (\E b \in BOOLEAN : SetLocked(b)) \/ UNCHANGED crVars
  <2>1. /\ form' = form /\ queue' = queue
        /\ ring' = ring /\ row' = row /\ agreed' = agreed /\ crClicks' = crClicks
    BY <1>2 DEF SetLocked, crVars
  <2> QED
    BY <2>1, QueueStep DEF CrInv
<1> QED
  BY <1>1, <1>2

---------------------------------------------------------------------------
(* The theorem.                                                            *)

LEMMA NextKeeps ==
  ASSUME CrInv, CrNext
  PROVE  CrInv'
BY ToggleKeeps, FallbackKeeps, BeginKeeps, RemoveKeeps, ConnectKeeps, SkipKeeps, StoreKeeps,
   RemovedKeeps, FinishKeeps, DeleteKeeps, CleanupEndsKeeps, AroundKeeps DEF CrNext

LEMMA InitHolds ==
  ASSUME CrInit
  PROVE  CrInv
<1>1. /\ ring = << >> /\ row = [saved |-> FALSE, refs |-> NoRefs] /\ form = Idle(FALSE)
      /\ queue = << >> /\ crClicks = 0
  BY DEF CrInit
<1>2. Issued = 0
  BY <1>1, Counts DEF Issued
<1>3. DOMAIN ring = {} /\ ring = [ref \in DOMAIN ring |-> ring[ref]]
  BY <1>1
<1>4. RowOK(row, DOMAIN ring, Issued)
  BY <1>1, <1>2 DEF RowOK, NoRefs, NoRef
<1> QED
  BY <1>1, <1>2, <1>3, <1>4, IdleForm, NoCommands DEF CrInv, RingOK

LEMMA CrInvAlways == CrSpec => []CrInv
<1>1. CrInit => CrInv
  BY InitHolds
<1>2. CrInv /\ [CrNext]_crVars => CrInv'
  BY NextKeeps, AroundKeeps
<1> QED
  BY <1>1, <1>2, PTL DEF CrSpec

\* Whichever keyring call, provider or database write fails, wherever the process dies
\* and whatever is being removed meanwhile: the saved profile names only credentials
\* that are in the keyring, and nothing typed without Remember is in it.
THEOREM ProfileHasItsCredentials == CrSpec => []CredentialsKept
<1>1. CrInv => CredentialsKept
  BY DEF CrInv, RowOK, RingOK, CredentialsKept, Range
<1> QED
  BY <1>1, CrInvAlways, PTL
=============================================================================
