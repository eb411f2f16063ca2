-------------------------- MODULE ExportFileProofs --------------------------
(***************************************************************************)
(* Exports, for any number of them, any number of suffixes and any number  *)
(* of files of other programs: nothing of another is overwritten, and what *)
(* was told to be saved is there and whole, whatever failed on the way.    *)
(***************************************************************************)
EXTENDS ExportFile, TLAPS

ExSpec == ExInit /\ [][ExNext]_exVars

OutNames == {Out(n) : n \in 0..ExSuffixes}
Names == OutNames \cup {Tmp(x) : x \in Exports} \cup {Src, Remote}
Contents == [of : 0..ExMax, whole : BOOLEAN, synced : BOOLEAN]
Phases == {"unused", "dialog", "create", "write", "sync", "move", "dirsync", "clean", "ended"}
Records == [phase : Phases, source : BOOLEAN, safe : BOOLEAN, offers : BOOLEAN,
            dest : OutNames \cup {Src, Remote, Nowhere}, ok : BOOLEAN,
            notice : {"none", "failed", "saved"}]

\* A disk d: a name of the user's directory shows whole files that are on the platters,
\* a temporary file is that of its export, and the source is never gone.
DiskOK(d) ==
  /\ d \in [DOMAIN d -> Contents] /\ DOMAIN d \subseteq Names /\ Src \in DOMAIN d
  /\ \A f \in DOMAIN d : d[f].of = 0 => d[f] = Foreign
  /\ \A f \in DOMAIN d \cap (OutNames \cup {Src}) : d[f].whole /\ d[f].synced
  /\ \A x \in Exports : Tmp(x) \in DOMAIN d => d[Tmp(x)].of = x
  /\ d[Src].of = 0

Holds(d, f, x) == f \in DOMAIN d /\ d[f].of = x

\* The record e of export x on the disk d, when Open output would open o.
ExportOK(x, e, d, o) ==
  /\ e \in Records
  /\ e.phase \in {"create", "write", "sync", "move", "dirsync"} => e.dest # Nowhere
  /\ e.phase \in {"write", "sync"} /\ e.dest = Remote => Holds(d, Remote, x) /\ o # Remote
  /\ e.phase = "sync" /\ e.dest = Remote => d[Remote].whole = e.ok
  /\ e.phase = "sync" /\ e.dest # Remote /\ Tmp(x) \in DOMAIN d => d[Tmp(x)].whole = e.ok
  /\ e.phase = "move" => e.dest # Remote
  /\ e.phase = "move" /\ Tmp(x) \in DOMAIN d => d[Tmp(x)].whole /\ d[Tmp(x)].synced
  /\ e.phase = "dirsync" => e.dest \in OutNames /\ Holds(d, e.dest, x)
  /\ e.notice = "saved" => e.phase = "ended"
  /\ e.notice = "saved" => e.dest = Remote \/ (e.dest \in OutNames /\ Holds(d, e.dest, x))

\* A move whose directory is not synced belongs to an export that has not ended.
RenamedOK(r, es, d) ==
  /\ r \subseteq Exports
  /\ \A x \in r : /\ es[x].phase \in {"dirsync", "clean"}
                  /\ es[x].dest \in OutNames /\ Holds(d, es[x].dest, x)

OfferedOK(o, d) == o # Nowhere => o \in OutNames \cup {Remote} /\ o \in DOMAIN d /\ d[o].whole

\* The inductive invariant.
ExInv ==
  /\ DiskOK(disk) /\ DOMAIN exports = Exports
  /\ \A x \in Exports : ExportOK(x, exports[x], disk, offered)
  /\ RenamedOK(renamed, exports, disk) /\ OfferedOK(offered, disk)

---------------------------------------------------------------------------
(* Names, and what a step leaves of the files of others.                   *)

LEMMA NameFacts ==
  /\ \A x, y \in Exports : Tmp(x) = Tmp(y) => x = y
  /\ \A x \in Exports : Tmp(x) \notin OutNames /\ Tmp(x) \notin {Src, Remote, Nowhere}
  /\ \A n \in 0..ExSuffixes : Out(n) \in OutNames
  /\ {Src, Remote, Nowhere} \cap OutNames = {}
  /\ Src # Remote /\ Src # Nowhere /\ Remote # Nowhere
  /\ \A x \in Exports : Tmp(x)[1] = "tmp"
  /\ \A f \in OutNames \cup {Src, Remote} : f[1] # "tmp"
  /\ Exports \subseteq Nat /\ 0 \notin Exports /\ Exports \subseteq 0..ExMax
BY ExportAssumption DEF OutNames, Out, Tmp, Src, Remote, Nowhere, Exports

\* The files of y, but for its temporary one, which may be gone.
Untouched(d, d2, y) ==
  /\ \A f \in DOMAIN d : d[f].of = y /\ f # Tmp(y) => f \in DOMAIN d2 /\ d2[f] = d[f]
  /\ Tmp(y) \in DOMAIN d2 => Tmp(y) \in DOMAIN d /\ d2[Tmp(y)] = d[Tmp(y)]

\* The files of others: the property's own words.
Kept(d, d2) == \A f \in DOMAIN d : f[1] # "tmp" /\ d[f].of = 0 => f \in DOMAIN d2 /\ d2[f] = d[f]

\* An export whose files are untouched is as sound as before.
LEMMA FrameExport ==
  ASSUME NEW y \in Exports, NEW e, NEW d, NEW o, NEW d2, NEW o2,
         ExportOK(y, e, d, o), Untouched(d, d2, y),
         o2 = Remote => o = Remote \/ ~Holds(d, Remote, y)
  PROVE  ExportOK(y, e, d2, o2)
<1>1. \A f : f # Tmp(y) /\ Holds(d, f, y) => Holds(d2, f, y) /\ d2[f] = d[f]
  BY DEF Holds, Untouched
<1>2. Tmp(y) \in DOMAIN d2 => Tmp(y) \in DOMAIN d /\ d2[Tmp(y)] = d[Tmp(y)]
  BY DEF Untouched
<1>3. Remote # Tmp(y) /\ \A f \in OutNames : f # Tmp(y)
  BY NameFacts
<1> QED
  BY <1>1, <1>2, <1>3 DEF ExportOK

\* A step of one export.
LEMMA OneExport ==
  ASSUME ExInv, NEW x \in Exports, NEW r, Set(x, r),
         ExportOK(x, r, disk', offered'), DiskOK(disk'), OfferedOK(offered', disk'),
         \A y \in Exports : y # x => Untouched(disk, disk', y),
         offered' = Remote => offered = Remote \/ Holds(disk, Remote, x),
         renamed' \subseteq renamed \cup {x},
         x \in renamed' => /\ r.phase \in {"dirsync", "clean"}
                           /\ r.dest \in OutNames /\ Holds(disk', r.dest, x)
  PROVE  ExInv'
<1>1. exports' = [exports EXCEPT ![x] = r] /\ DOMAIN exports' = Exports /\ exports'[x] = r
      /\ \A y \in Exports : y # x => exports'[y] = exports[y]
  BY DEF Set, ExInv
<1>2. ASSUME NEW y \in Exports, y # x
      PROVE  ExportOK(y, exports'[y], disk', offered')
  <2>1. ExportOK(y, exports[y], disk, offered) /\ Untouched(disk, disk', y)
    BY <1>2 DEF ExInv
  <2>2. offered' = Remote => offered = Remote \/ ~Holds(disk, Remote, y)
    BY <1>2 DEF Holds
  <2>3. ExportOK(y, exports[y], disk', offered')
    BY <2>1, <2>2, FrameExport
  <2> QED
    BY <1>1, <1>2, <2>3
<1>3. RenamedOK(renamed', exports', disk')
  <2>1. renamed' \subseteq Exports
    BY DEF ExInv, RenamedOK
  <2>2. ASSUME NEW y \in renamed', y # x
        PROVE  /\ exports'[y].phase \in {"dirsync", "clean"}
               /\ exports'[y].dest \in OutNames /\ Holds(disk', exports'[y].dest, y)
    <3>1. y \in renamed /\ y \in Exports /\ exports'[y] = exports[y]
      BY <1>1, <2>1, <2>2
    <3>2. /\ exports[y].phase \in {"dirsync", "clean"}
          /\ exports[y].dest \in OutNames /\ Holds(disk, exports[y].dest, y)
      BY <3>1 DEF ExInv, RenamedOK
    <3>3. Untouched(disk, disk', y) /\ exports[y].dest # Tmp(y)
      BY <2>2, <3>1, <3>2, NameFacts
    <3> QED
      BY <3>1, <3>2, <3>3 DEF Untouched, Holds
  <2> QED
    BY <1>1, <2>1, <2>2 DEF RenamedOK
<1> QED
  BY <1>1, <1>2, <1>3 DEF ExInv

\* A step that leaves the disk alone.
LEMMA SameDisk ==
  ASSUME ExInv, disk' = disk
  PROVE  /\ DiskOK(disk') /\ Kept(disk, disk')
         /\ \A y \in Exports : Untouched(disk, disk', y)
BY DEF ExInv, Untouched, Kept

\* The exports whose record has a phase in which no move is pending.
LEMMA NotRenamed ==
  ASSUME ExInv, NEW x \in Exports, exports[x].phase \notin {"dirsync", "clean"}
  PROVE  x \notin renamed
BY DEF ExInv, RenamedOK

\* A record that has ended, and one that is to be cleaned, need nothing of the disk.
LEMMA EndedOK ==
  ASSUME NEW x \in Exports, NEW d, NEW o, NEW n \in {"none", "failed"}
  PROVE  ExportOK(x, Ended(n, Nowhere), d, o)
<1>1. Ended(n, Nowhere) \in Records
  BY DEF Ended, Unused, Records, Phases
<1> QED
  BY <1>1 DEF ExportOK, Ended, Unused

LEMMA CleanOK ==
  ASSUME NEW x \in Exports, NEW e, NEW d, NEW o, NEW d2, NEW o2, ExportOK(x, e, d, o), e.phase # "ended"
  PROVE  ExportOK(x, [e EXCEPT !.phase = "clean"], d2, o2)
<1>1. [e EXCEPT !.phase = "clean"] \in Records /\ [e EXCEPT !.phase = "clean"].phase = "clean"
      /\ [e EXCEPT !.phase = "clean"].notice = e.notice
  BY DEF ExportOK, Records, Phases
<1> QED
  BY <1>1 DEF ExportOK

---------------------------------------------------------------------------
(* One lemma per action.                                                   *)

LEMMA OneExportSameDisk ==
  ASSUME ExInv, NEW x \in Exports, NEW r, Set(x, r), ExportOK(x, r, disk, offered),
         disk' = disk, offered' = offered, renamed' = renamed,
         exports[x].phase \notin {"dirsync", "clean"}
  PROVE  ExInv' /\ Kept(disk, disk')
<1>1. DiskOK(disk') /\ Kept(disk, disk') /\ \A y \in Exports : Untouched(disk, disk', y)
  BY SameDisk
<1>2. ExportOK(x, r, disk', offered') /\ OfferedOK(offered', disk')
  BY DEF ExInv
<1>3. x \notin renamed'
  BY NotRenamed
<1>4. renamed' \subseteq renamed \cup {x} /\ (offered' = Remote => offered = Remote)
  OBVIOUS
<1>5. ExInv'
  BY <1>1, <1>2, <1>3, <1>4, OneExport
<1> QED
  BY <1>1, <1>5

LEMMA BeginKeeps ==
  ASSUME ExInv, NEW x \in Exports, NEW safe \in BOOLEAN, NEW offers \in BOOLEAN, NEW s \in BOOLEAN,
         Begin(x, safe, offers, s)
  PROVE  ExInv' /\ Kept(disk, disk')
<1> DEFINE r == [Unused EXCEPT !.phase = "dialog", !.source = s, !.safe = safe, !.offers = offers]
<1>1. /\ exports[x].phase = "unused" /\ Set(x, r)
      /\ disk' = disk /\ renamed' = renamed /\ offered' = offered
  BY DEF Begin, Set
<1>2. r \in Records /\ r.phase = "dialog" /\ r.notice = "none"
  BY DEF Unused, Records, Phases
<1> HIDE DEF r
<1>3. ExportOK(x, r, disk, offered)
  BY <1>2 DEF ExportOK
<1> QED
  BY <1>1, <1>3, OneExportSameDisk

LEMMA ChooseKeeps ==
  ASSUME ExInv, NEW x \in Exports, NEW f \in {Out(0), Src, Remote}, Choose(x, f)
  PROVE  ExInv' /\ Kept(disk, disk')
<1> DEFINE e == exports[x]
           free == IF e.safe THEN collision_safe_destination(f) ELSE {f}
<1>1. /\ e.phase = "dialog" /\ disk' = disk /\ renamed' = renamed /\ offered' = offered
      /\ \/ Failed(x)
         \/ \E g \in free : Set(x, [e EXCEPT !.phase = "create", !.dest = g])
  BY DEF Choose
<1>2. free \subseteq OutNames \cup {Src, Remote}
  <2>1. f \in OutNames \cup {Src, Remote}
    BY NameFacts, ExportAssumption
  <2>2. \A n \in 1..ExSuffixes : Out(n) \in OutNames
    BY NameFacts, ExportAssumption
  <2> QED
    BY <2>1, <2>2 DEF collision_safe_destination, collision_safe_output_path
<1>3. e \in Records /\ e.notice # "saved"
  BY <1>1 DEF ExInv, ExportOK
<1>4. CASE Failed(x)
  <2>1. ExportOK(x, Ended("failed", Nowhere), disk, offered)
    BY EndedOK
  <2> QED
    BY <1>1, <1>4, <2>1, OneExportSameDisk DEF Failed
<1>5. ASSUME NEW g \in free, Set(x, [e EXCEPT !.phase = "create", !.dest = g])
      PROVE  ExInv' /\ Kept(disk, disk')
  <2> DEFINE r == [e EXCEPT !.phase = "create", !.dest = g]
  <2>1. /\ r \in Records /\ r.phase = "create" /\ r.dest = g /\ r.notice = e.notice
    BY <1>2, <1>3, <1>5 DEF Records, Phases
  <2> HIDE DEF r
  <2>2. ExportOK(x, r, disk, offered)
    BY <1>2, <1>3, <2>1, NameFacts DEF ExportOK
  <2>3. Set(x, r)
    BY <1>5 DEF r
  <2> QED
    BY <1>1, <2>2, <2>3, OneExportSameDisk
<1> QED
  BY <1>1, <1>4, <1>5

LEMMA DismissKeeps ==
  ASSUME ExInv, NEW x \in Exports, Dismiss(x)
  PROVE  ExInv' /\ Kept(disk, disk')
<1>1. ExportOK(x, Ended("none", Nowhere), disk, offered)
  BY EndedOK
<1> QED
  BY <1>1, OneExportSameDisk DEF Dismiss

\* A new file at a free name.
LEMMA NewFile ==
  ASSUME ExInv, NEW f \in Names, ~Exists(f), NEW c \in Contents, disk' = With(disk, f, c),
         c.of = 0 => c = Foreign,
         f \in OutNames => c.whole /\ c.synced,
         \A x \in Exports : f = Tmp(x) => c.of = x
  PROVE  /\ DiskOK(disk') /\ Kept(disk, disk') /\ DOMAIN disk' = DOMAIN disk \cup {f}
         /\ disk'[f] = c /\ \A g \in DOMAIN disk : g # f /\ disk'[g] = disk[g]
         /\ \A y \in Exports : f # Tmp(y) => Untouched(disk, disk', y)
<1>1. /\ DOMAIN disk' = DOMAIN disk \cup {f} /\ disk'[f] = c
      /\ \A g \in DOMAIN disk : g # f /\ disk'[g] = disk[g]
      /\ disk' = [g \in DOMAIN disk' |-> disk'[g]]
  BY DEF With, Exists
<1>2. DiskOK(disk)
  BY DEF ExInv
<1>3. /\ disk' \in [DOMAIN disk' -> Contents] /\ DOMAIN disk' \subseteq Names /\ Src \in DOMAIN disk'
      /\ disk'[Src].of = 0 /\ f # Src
  BY <1>1, <1>2 DEF DiskOK
<1>4. DiskOK(disk')
  BY <1>1, <1>2, <1>3 DEF DiskOK
<1>5. Kept(disk, disk') /\ \A y \in Exports : f # Tmp(y) => Untouched(disk, disk', y)
  BY <1>1 DEF Kept, Untouched
<1> QED
  BY <1>1, <1>4, <1>5

LEMMA OfferedStays ==
  ASSUME ExInv, offered' = offered,
         \A f \in DOMAIN disk : f \in OutNames \cup {Remote} => f \in DOMAIN disk' /\ disk'[f] = disk[f]
  PROVE  OfferedOK(offered', disk')
BY DEF ExInv, OfferedOK

LEMMA CreateKeeps ==
  ASSUME ExInv, NEW x \in Exports, CreateFile(x)
  PROVE  ExInv' /\ Kept(disk, disk')
<1> DEFINE e == exports[x]
           t == Target(x)
           c == [of |-> x, whole |-> FALSE, synced |-> FALSE]
           w == [e EXCEPT !.phase = "write"]
<1>1. /\ e.phase = "create" /\ renamed' = renamed /\ offered' = offered
      /\ \/ ~Exists(t) /\ disk' = With(disk, t, c) /\ Set(x, w)
         \/ disk' = disk /\ (Set(x, [e EXCEPT !.phase = "clean"]) \/ Failed(x))
  BY DEF CreateFile
<1>2. ExportOK(x, e, disk, offered) /\ e \in Records /\ e.dest # Nowhere /\ e.notice # "saved"
  BY <1>1 DEF ExInv, ExportOK
<1>3. CASE disk' = disk /\ (Set(x, [e EXCEPT !.phase = "clean"]) \/ Failed(x))
  <2>1. ExportOK(x, [e EXCEPT !.phase = "clean"], disk, offered)
        /\ ExportOK(x, Ended("failed", Nowhere), disk, offered)
    BY <1>1, <1>2, CleanOK, EndedOK
  <2> QED
    BY <1>1, <1>3, <2>1, OneExportSameDisk DEF Failed
<1>4. CASE ~Exists(t) /\ disk' = With(disk, t, c) /\ Set(x, w)
  <2>1. t = (IF e.dest = Remote THEN Remote ELSE Tmp(x)) /\ t \in Names
    BY DEF Target, export_write_strategy, Names
  <2>2. c \in Contents /\ c.of = x /\ x # 0 /\ t \notin OutNames
    BY <2>1, NameFacts DEF Contents
  <2>3. \A y \in Exports : t = Tmp(y) => y = x
    BY <2>1, NameFacts
  <2> HIDE DEF t, c
  <2>4. /\ DiskOK(disk') /\ Kept(disk, disk') /\ DOMAIN disk' = DOMAIN disk \cup {t}
        /\ disk'[t] = c /\ \A g \in DOMAIN disk : g # t /\ disk'[g] = disk[g]
        /\ \A y \in Exports : t # Tmp(y) => Untouched(disk, disk', y)
    BY <1>4, <2>1, <2>2, <2>3, NewFile
  <2>5. OfferedOK(offered', disk')
    BY <1>1, <2>4, OfferedStays
  <2>6. w \in Records /\ w.phase = "write" /\ w.dest = e.dest /\ w.notice = e.notice
    BY <1>2 DEF Records, Phases
  <2> HIDE DEF w
  <2>7. e.dest = Remote => Holds(disk', Remote, x) /\ offered' # Remote
    BY <1>1, <1>4, <2>1, <2>2, <2>4, NameFacts DEF Holds, ExInv, OfferedOK, Exists
  <2>8. ExportOK(x, w, disk', offered')
    BY <1>2, <2>6, <2>7 DEF ExportOK
  <2>9. x \notin renamed'
    BY <1>1, NotRenamed
  <2>10. ExInv'
    BY <1>1, <1>4, <2>3, <2>4, <2>5, <2>8, <2>9, OneExport
  <2> QED
    BY <2>4, <2>10
<1> QED
  BY <1>1, <1>3, <1>4

\* The file of an export that is not yet under its name gets another content.
LEMMA ChangedFile ==
  ASSUME ExInv, NEW x \in Exports, NEW t \in {Tmp(x), Remote}, Holds(disk, t, x),
         NEW c \in Contents, c.of = x, disk' = [disk EXCEPT ![t] = c]
  PROVE  /\ DiskOK(disk') /\ Kept(disk, disk') /\ DOMAIN disk' = DOMAIN disk
         /\ disk'[t] = c /\ \A g \in DOMAIN disk : g # t => disk'[g] = disk[g]
         /\ \A y \in Exports : y # x => Untouched(disk, disk', y)
<1>1. DiskOK(disk) /\ t \in DOMAIN disk /\ disk[t].of = x
  BY DEF ExInv, Holds
<1>2. /\ DOMAIN disk' = DOMAIN disk /\ disk'[t] = c
      /\ \A g \in DOMAIN disk : g # t => disk'[g] = disk[g]
      /\ disk' \in [DOMAIN disk' -> Contents]
  BY <1>1 DEF DiskOK
<1>3. t \notin OutNames /\ t # Src /\ x # 0 /\ \A y \in Exports : t = Tmp(y) => y = x
  BY NameFacts
<1>4. DiskOK(disk')
  BY <1>1, <1>2, <1>3 DEF DiskOK
<1>5. Kept(disk, disk') /\ \A y \in Exports : y # x => Untouched(disk, disk', y)
  BY <1>1, <1>2, <1>3 DEF Kept, Untouched
<1> QED
  BY <1>2, <1>4, <1>5

\* The file an export writes to is its own.
LEMMA TargetIsOwn ==
  ASSUME ExInv, NEW x \in Exports, exports[x].phase \in {"write", "sync"}
  PROVE  /\ Target(x) = (IF exports[x].dest = Remote THEN Remote ELSE Tmp(x))
         /\ Exists(Target(x)) => Holds(disk, Target(x), x)
         /\ exports[x].dest = Remote => Holds(disk, Remote, x) /\ offered # Remote
<1>1. Target(x) = (IF exports[x].dest = Remote THEN Remote ELSE Tmp(x))
  BY DEF Target, export_write_strategy
<1>2. exports[x].dest = Remote => Holds(disk, Remote, x) /\ offered # Remote
  BY DEF ExInv, ExportOK
<1>3. Tmp(x) \in DOMAIN disk => Holds(disk, Tmp(x), x)
  BY DEF ExInv, DiskOK, Holds
<1> QED
  BY <1>1, <1>2, <1>3 DEF Exists

LEMMA WriteKeeps ==
  ASSUME ExInv, NEW x \in Exports, NEW ok \in BOOLEAN, WriteFile(x, ok)
  PROVE  ExInv' /\ Kept(disk, disk')
<1> DEFINE e == exports[x]
           t == Target(x)
           r == [e EXCEPT !.phase = "sync", !.ok = ok]
<1>1. /\ e.phase = "write" /\ Set(x, r) /\ renamed' = renamed /\ offered' = offered
      /\ disk' = IF Exists(t) THEN [disk EXCEPT ![t].whole = ok] ELSE disk
  BY DEF WriteFile
<1>2. ExportOK(x, e, disk, offered) /\ e \in Records
  BY DEF ExInv, ExportOK
<1>3. /\ t = (IF e.dest = Remote THEN Remote ELSE Tmp(x)) /\ (Exists(t) => Holds(disk, t, x))
      /\ e.dest = Remote => Holds(disk, Remote, x) /\ offered # Remote
  BY <1>1, TargetIsOwn
<1>4. /\ r \in Records /\ r.phase = "sync" /\ r.ok = ok /\ r.dest = e.dest /\ r.notice = e.notice
  BY <1>2 DEF Records, Phases
<1> HIDE DEF r, t
<1>5. x \notin renamed'
  BY <1>1, NotRenamed
<1>6. CASE ~Exists(t)
  <2>1. t = Tmp(x) /\ e.dest # Remote /\ disk' = disk
    BY <1>1, <1>3, <1>6 DEF Exists, Holds
  <2>2. ExportOK(x, r, disk, offered)
    BY <1>2, <1>1, <1>4, <1>6, <2>1 DEF ExportOK, Exists
  <2> QED
    BY <1>1, <2>1, <2>2, OneExportSameDisk
<1>7. CASE Exists(t)
  <2> DEFINE c == [disk[t] EXCEPT !.whole = ok]
  <2>1. disk[t] \in Contents /\ disk[t].of = x /\ Holds(disk, t, x)
    BY <1>3, <1>7 DEF ExInv, DiskOK, Holds
  <2>2. c \in Contents /\ c.of = x /\ c.whole = ok /\ disk' = [disk EXCEPT ![t] = c]
    BY <1>1, <1>7, <2>1 DEF Contents
  <2> HIDE DEF c
  <2>3. t \in {Tmp(x), Remote}
    BY <1>3
  <2>4. /\ DiskOK(disk') /\ Kept(disk, disk') /\ DOMAIN disk' = DOMAIN disk
        /\ disk'[t] = c /\ \A g \in DOMAIN disk : g # t => disk'[g] = disk[g]
        /\ \A y \in Exports : y # x => Untouched(disk, disk', y)
    BY <2>1, <2>2, <2>3, ChangedFile, ZenonT(40)
  <2>5. OfferedOK(offered', disk')
    <3>1. \A f \in DOMAIN disk : f \in OutNames => disk'[f] = disk[f]
      BY <1>3, <2>4, NameFacts
    <3>2. offered = Remote => disk'[Remote] = disk[Remote]
      BY <1>3, <2>1, <2>4, NameFacts DEF ExInv, OfferedOK
    <3> QED
      BY <1>1, <2>4, <3>1, <3>2 DEF ExInv, OfferedOK
  <2>6. e.dest = Remote => Holds(disk', Remote, x) /\ disk'[Remote].whole = ok
    BY <1>3, <2>2, <2>1, <2>4 DEF Holds
  <2>7. e.dest # Remote => disk'[Tmp(x)].whole = ok
    BY <1>3, <2>2, <2>4
  <2>8. ExportOK(x, r, disk', offered')
    BY <1>1, <1>2, <1>3, <1>4, <2>6, <2>7 DEF ExportOK
  <2>9. ExInv'
    BY <1>1, <1>5, <2>4, <2>5, <2>8, OneExport
  <2> QED
    BY <2>4, <2>9
<1> QED
  BY <1>6, <1>7

LEMMA SyncKeeps ==
  ASSUME ExInv, NEW x \in Exports, NEW ok \in BOOLEAN, sync_local_export(x, ok)
  PROVE  ExInv' /\ Kept(disk, disk')
<1> DEFINE e == exports[x]
           t == Tmp(x)
           m == [e EXCEPT !.phase = "move"]
           r == [e EXCEPT !.phase = "clean"]
<1>1. /\ e.phase = "sync" /\ Target(x) = t /\ renamed' = renamed /\ offered' = offered
      /\ \/ disk' = disk /\ Set(x, r)
         \/ /\ Exists(t) /\ disk' = [disk EXCEPT ![t].synced = TRUE]
            /\ Set(x, IF e.ok THEN m ELSE r)
  BY DEF sync_local_export
<1>2. ExportOK(x, e, disk, offered) /\ e \in Records /\ e.dest # Remote
  BY <1>1, TargetIsOwn, NameFacts DEF ExInv, ExportOK
<1>3. x \notin renamed'
  BY <1>1, NotRenamed
<1>4. CASE disk' = disk /\ Set(x, r)
  <2>1. ExportOK(x, r, disk, offered)
    BY <1>1, <1>2, CleanOK
  <2> QED
    BY <1>1, <1>4, <2>1, OneExportSameDisk
<1>5. CASE /\ Exists(t) /\ disk' = [disk EXCEPT ![t].synced = TRUE]
           /\ Set(x, IF e.ok THEN m ELSE r)
  <2> DEFINE c == [disk[t] EXCEPT !.synced = TRUE]
  <2>1. disk[t] \in Contents /\ disk[t].of = x /\ Holds(disk, t, x) /\ disk[t].whole = e.ok
    BY <1>1, <1>2, <1>5 DEF ExInv, DiskOK, Holds, Exists, ExportOK
  <2>2. /\ c \in Contents /\ c.of = x /\ c.whole = e.ok /\ c.synced
        /\ disk' = [disk EXCEPT ![t] = c]
    BY <1>5, <2>1 DEF Contents
  <2> HIDE DEF c
  <2>3. /\ DiskOK(disk') /\ Kept(disk, disk') /\ DOMAIN disk' = DOMAIN disk
        /\ disk'[t] = c /\ \A g \in DOMAIN disk : g # t => disk'[g] = disk[g]
        /\ \A y \in Exports : y # x => Untouched(disk, disk', y)
    BY <2>1, <2>2, ChangedFile
  <2>4. OfferedOK(offered', disk')
    BY <1>1, <2>3, OfferedStays, NameFacts
  <2>5. /\ m \in Records /\ m.phase = "move" /\ m.dest = e.dest /\ m.notice = e.notice
    BY <1>2 DEF Records, Phases
  <2>6. e.ok => ExportOK(x, m, disk', offered')
    <3> HIDE DEF m
    <3> QED
      BY <1>1, <1>2, <2>2, <2>3, <2>5 DEF ExportOK
  <2>7. ExportOK(x, r, disk', offered')
    BY <1>1, <1>2, CleanOK
  <2> HIDE DEF m, r
  <2>8. ExInv'
    BY <1>1, <1>3, <1>5, <2>3, <2>4, <2>6, <2>7, OneExport
  <2> QED
    BY <2>3, <2>8
<1> QED
  BY <1>1, <1>4, <1>5

\* An export whose file is there is told to be saved, and may be offered.
LEMMA SavedKeeps ==
  ASSUME ExInv, NEW x \in Exports, Saved(x), disk' = disk,
         exports[x].dest \in OutNames \cup {Remote}, Holds(disk, exports[x].dest, x),
         disk[exports[x].dest].whole, renamed' \subseteq renamed, x \notin renamed'
  PROVE  ExInv' /\ Kept(disk, disk')
<1> DEFINE e == exports[x]
           r == Ended("saved", e.dest)
<1>1. Set(x, r) /\ offered' = IF e.offers THEN e.dest ELSE offered
  BY DEF Saved
<1>2. r \in Records /\ r.phase = "ended" /\ r.dest = e.dest
  BY DEF Ended, Unused, Records, Phases
<1> HIDE DEF r
<1>3. ExportOK(x, r, disk', offered')
  BY <1>2 DEF ExportOK
<1>4. OfferedOK(offered', disk')
  BY <1>1 DEF ExInv, OfferedOK, Holds
<1>5. offered' = Remote => offered = Remote \/ Holds(disk, Remote, x)
  BY <1>1
<1>6. DiskOK(disk') /\ Kept(disk, disk') /\ \A y \in Exports : Untouched(disk, disk', y)
  BY SameDisk
<1>7. renamed' \subseteq renamed \cup {x}
  OBVIOUS
<1>8. ExInv'
  BY <1>1, <1>3, <1>4, <1>5, <1>6, <1>7, OneExport
<1> QED
  BY <1>6, <1>8

LEMMA EndRemoteKeeps ==
  ASSUME ExInv, NEW x \in Exports, EndRemote(x)
  PROVE  ExInv' /\ Kept(disk, disk')
<1>1. /\ exports[x].phase = "sync" /\ Target(x) # Tmp(x) /\ disk' = disk /\ renamed' = renamed
      /\ \/ exports[x].ok /\ Saved(x)
         \/ Failed(x) /\ offered' = offered
  BY DEF EndRemote
<1>2. exports[x].dest = Remote /\ Holds(disk, Remote, x) /\ disk[Remote].whole = exports[x].ok
  BY <1>1, TargetIsOwn DEF ExInv, ExportOK
<1>3. x \notin renamed'
  BY <1>1, NotRenamed
<1>4. CASE exports[x].ok /\ Saved(x)
  BY <1>1, <1>2, <1>3, <1>4, SavedKeeps
<1>5. CASE Failed(x) /\ offered' = offered
  BY <1>1, <1>5, EndedOK, OneExportSameDisk DEF Failed
<1> QED
  BY <1>1, <1>4, <1>5

\* What a step removes is the temporary file of an export.
LEMMA GoneFile ==
  ASSUME ExInv, NEW x \in Exports, NEW d, d = Without(disk, Tmp(x))
  PROVE  /\ DiskOK(d) /\ Kept(disk, d) /\ DOMAIN d = DOMAIN disk \ {Tmp(x)}
         /\ \A g \in DOMAIN d : d[g] = disk[g]
         /\ \A y \in Exports : y # x => Untouched(disk, d, y)
<1>1. DiskOK(disk)
  BY DEF ExInv
<1>2. /\ DOMAIN d = DOMAIN disk \ {Tmp(x)} /\ \A g \in DOMAIN d : d[g] = disk[g]
      /\ d = [g \in DOMAIN d |-> d[g]]
  BY DEF Without, Restrict
<1>3. d \in [DOMAIN d -> Contents] /\ DOMAIN d \subseteq Names /\ Src \in DOMAIN d
  BY <1>1, <1>2, NameFacts DEF DiskOK
<1>4. DiskOK(d)
  BY <1>1, <1>2, <1>3 DEF DiskOK
<1>5. Kept(disk, d) /\ \A y \in Exports : y # x => Untouched(disk, d, y)
  BY <1>1, <1>2, NameFacts DEF Kept, Untouched, DiskOK
<1> QED
  BY <1>2, <1>4, <1>5

LEMMA MoveKeeps ==
  ASSUME ExInv, NEW x \in Exports, Move(x)
  PROVE  ExInv' /\ Kept(disk, disk')
<1> DEFINE e == exports[x]
           t == Tmp(x)
           f == e.dest
           d == Without(disk, t)
           m == [e EXCEPT !.phase = "dirsync"]
           r == [e EXCEPT !.phase = "clean"]
<1>1. /\ e.phase = "move" /\ offered' = offered
      /\ \/ /\ Exists(t) /\ ~Exists(f)
            /\ disk' = With(d, f, disk[t]) /\ renamed' = renamed \cup {x} /\ Set(x, m)
         \/ Set(x, r) /\ disk' = disk /\ renamed' = renamed
  BY DEF Move
<1>2. ExportOK(x, e, disk, offered) /\ e \in Records /\ e.dest \notin {Remote, Nowhere} /\ e.notice # "saved"
  BY <1>1 DEF ExInv, ExportOK
<1>3. CASE Set(x, r) /\ disk' = disk /\ renamed' = renamed
  <2>1. ExportOK(x, r, disk, offered)
    BY <1>1, <1>2, CleanOK
  <2> QED
    BY <1>1, <1>3, <2>1, OneExportSameDisk
<1>4. CASE /\ Exists(t) /\ ~Exists(f)
           /\ disk' = With(d, f, disk[t]) /\ renamed' = renamed \cup {x} /\ Set(x, m)
  <2>1. f \in OutNames
    BY <1>2, <1>4 DEF Records, ExInv, DiskOK, Exists
  <2>2. disk[t] \in Contents /\ disk[t].of = x /\ disk[t].whole /\ disk[t].synced /\ x # 0
    BY <1>1, <1>2, <1>4, NameFacts DEF ExInv, DiskOK, Exists, ExportOK
  <2>3. /\ DiskOK(d) /\ Kept(disk, d) /\ DOMAIN d = DOMAIN disk \ {t}
        /\ \A g \in DOMAIN d : d[g] = disk[g]
        /\ \A y \in Exports : y # x => Untouched(disk, d, y)
    BY GoneFile
  <2> HIDE DEF d
  <2>4. /\ DOMAIN disk' = DOMAIN d \cup {f} /\ disk'[f] = disk[t] /\ f \notin DOMAIN d
        /\ \A g \in DOMAIN d : g # f /\ disk'[g] = d[g]
        /\ disk' = [g \in DOMAIN disk' |-> disk'[g]]
    BY <1>4, <2>3 DEF With, Exists
  <2>5. f # Src /\ f \in Names /\ \A y \in Exports : f # Tmp(y)
    BY <2>1, NameFacts DEF Names
  <2>6. disk' \in [DOMAIN disk' -> Contents] /\ DOMAIN disk' \subseteq Names
    BY <2>2, <2>3, <2>4, <2>5 DEF DiskOK
  <2>7. DiskOK(disk')
    BY <2>2, <2>3, <2>4, <2>5, <2>6 DEF DiskOK
  <2>8. Kept(disk, disk') /\ \A y \in Exports : y # x => Untouched(disk, disk', y)
    BY <2>3, <2>4, <2>5 DEF Kept, Untouched
  <2>9. OfferedOK(offered', disk')
    BY <1>1, <2>3, <2>4, OfferedStays, NameFacts
  <2>10. m \in Records /\ m.phase = "dirsync" /\ m.dest = f /\ m.notice = e.notice
    BY <1>2 DEF Records, Phases
  <2> HIDE DEF m
  <2>11. Holds(disk', f, x)
    BY <2>2, <2>4 DEF Holds
  <2>12. ExportOK(x, m, disk', offered')
    BY <1>2, <2>1, <2>10, <2>11 DEF ExportOK
  <2>13. ExInv'
    BY <1>1, <1>4, <2>1, <2>7, <2>8, <2>9, <2>10, <2>11, <2>12, OneExport
  <2> QED
    BY <2>8, <2>13
<1> QED
  BY <1>1, <1>3, <1>4

LEMMA DirectoryKeeps ==
  ASSUME ExInv, NEW x \in Exports, NEW ok \in BOOLEAN, sync_local_export_directory(x, ok)
  PROVE  ExInv' /\ Kept(disk, disk')
<1> DEFINE e == exports[x]
           r == [e EXCEPT !.phase = "clean"]
<1>1. /\ e.phase = "dirsync" /\ disk' = disk
      /\ \/ Saved(x) /\ renamed' = {}
         \/ Set(x, r) /\ offered' = offered /\ renamed' = renamed
  BY DEF sync_local_export_directory
<1>2. ExportOK(x, e, disk, offered) /\ e \in Records /\ e.dest \in OutNames /\ Holds(disk, e.dest, x)
  BY <1>1 DEF ExInv, ExportOK
<1>3. CASE Saved(x) /\ renamed' = {}
  <2>1. disk[e.dest].whole
    BY <1>2 DEF ExInv, DiskOK, Holds
  <2> QED
    BY <1>1, <1>2, <1>3, <2>1, SavedKeeps
<1>4. CASE Set(x, r) /\ offered' = offered /\ renamed' = renamed
  <2>1. ExportOK(x, r, disk', offered')
    BY <1>1, <1>2, CleanOK
  <2>2. DiskOK(disk') /\ Kept(disk, disk') /\ \A y \in Exports : Untouched(disk, disk', y)
    BY <1>1, SameDisk
  <2>3. OfferedOK(offered', disk')
    BY <1>1, <1>4 DEF ExInv
  <2>4. r.phase = "clean" /\ r.dest = e.dest
    BY <1>2 DEF Records
  <2> HIDE DEF r
  <2>5. ExInv'
    BY <1>1, <1>2, <1>4, <2>1, <2>2, <2>3, <2>4, OneExport
  <2> QED
    BY <2>2, <2>5
<1> QED
  BY <1>1, <1>3, <1>4

LEMMA CleanKeeps ==
  ASSUME ExInv, NEW x \in Exports, NEW ok \in BOOLEAN, Clean(x, ok)
  PROVE  ExInv' /\ Kept(disk, disk')
<1> DEFINE r == Ended("failed", Nowhere)
<1>1. /\ Set(x, r) /\ renamed' = renamed \ {x} /\ offered' = offered
      /\ disk' = disk \/ disk' = Without(disk, Tmp(x))
  BY DEF Clean, Failed
<1>2. ExportOK(x, r, disk', offered')
  BY EndedOK
<1>3. /\ DiskOK(disk') /\ Kept(disk, disk')
      /\ \A y \in Exports : y # x => Untouched(disk, disk', y)
      /\ \A f \in DOMAIN disk : f # Tmp(x) => f \in DOMAIN disk' /\ disk'[f] = disk[f]
  BY <1>1, SameDisk, GoneFile
<1>4. OfferedOK(offered', disk')
  BY <1>1, <1>3, OfferedStays, NameFacts
<1> HIDE DEF r
<1>5. ExInv'
  BY <1>1, <1>2, <1>3, <1>4, OneExport
<1> QED
  BY <1>3, <1>5

\* A step that begins, moves and ends no export.
LEMMA NoExport ==
  ASSUME ExInv, exports' = exports, renamed' = renamed, DiskOK(disk'), OfferedOK(offered', disk'),
         \A y \in Exports : Untouched(disk, disk', y),
         offered' = Remote => offered = Remote
  PROVE  ExInv'
<1>1. ASSUME NEW y \in Exports
      PROVE  ExportOK(y, exports[y], disk', offered')
  <2>1. ExportOK(y, exports[y], disk, offered) /\ Untouched(disk, disk', y)
    BY DEF ExInv
  <2> QED
    BY <2>1, FrameExport
<1>2. \A y \in Exports, f \in OutNames : Holds(disk, f, y) => Holds(disk', f, y)
  BY NameFacts DEF Untouched, Holds
<1>3. RenamedOK(renamed', exports', disk')
  BY <1>2 DEF ExInv, RenamedOK
<1> QED
  BY <1>1, <1>3 DEF ExInv

LEMMA AroundKeeps ==
  ASSUME ExInv,
         \/ ForgetOutput \/ clear_linguamesh_temporary_files \/ ExportDocumentJob_rejected
         \/ \E f \in {Out(n) : n \in 0..ExSuffixes} \cup {Remote} : AnotherProgram(f)
  PROVE  ExInv' /\ Kept(disk, disk')
<1>1. CASE ForgetOutput
  <2>1. DiskOK(disk') /\ Kept(disk, disk') /\ \A y \in Exports : Untouched(disk, disk', y)
    BY <1>1, SameDisk DEF ForgetOutput
  <2>2. offered' = Nowhere /\ exports' = exports /\ renamed' = renamed
    BY <1>1 DEF ForgetOutput
  <2> QED
    BY <2>1, <2>2, NoExport, NameFacts DEF OfferedOK
<1>2. CASE ExportDocumentJob_rejected
  <2>1. DiskOK(disk') /\ Kept(disk, disk') /\ \A y \in Exports : Untouched(disk, disk', y)
    BY <1>2, SameDisk DEF ExportDocumentJob_rejected
  <2>2. offered' = offered /\ exports' = exports /\ renamed' = renamed /\ OfferedOK(offered', disk')
    BY <1>2 DEF ExportDocumentJob_rejected, ExInv
  <2> QED
    BY <2>1, <2>2, NoExport
<1>3. CASE clear_linguamesh_temporary_files
  <2>1. offered' = offered /\ exports' = exports /\ renamed' = renamed
    BY <1>3 DEF clear_linguamesh_temporary_files
  <2>2. /\ DOMAIN disk' = {f \in DOMAIN disk : f[1] # "tmp"}
        /\ \A g \in DOMAIN disk' : disk'[g] = disk[g]
        /\ disk' = [g \in DOMAIN disk' |-> disk'[g]]
    BY <1>3 DEF clear_linguamesh_temporary_files, Restrict
  <2>3. \A f \in DOMAIN disk : f \in OutNames \cup {Src, Remote} => f \in DOMAIN disk'
    BY <2>2, NameFacts
  <2>4. DiskOK(disk)
    BY DEF ExInv
  <2>5. disk' \in [DOMAIN disk' -> Contents] /\ DOMAIN disk' \subseteq Names /\ Src \in DOMAIN disk'
    BY <2>2, <2>3, <2>4 DEF DiskOK
  <2>6. DiskOK(disk') /\ Kept(disk, disk')
    BY <2>2, <2>4, <2>5 DEF DiskOK, Kept
  <2>7. ASSUME NEW y \in Exports
        PROVE  Untouched(disk, disk', y)
    <3>1. \A f \in DOMAIN disk : disk[f].of = y /\ f # Tmp(y) => f \in OutNames \cup {Src, Remote}
      BY <2>4, NameFacts DEF DiskOK, Names
    <3> QED
      BY <2>2, <2>3, <3>1 DEF Untouched
  <2>8. OfferedOK(offered', disk')
    BY <2>1, <2>2, <2>3, OfferedStays
  <2> QED
    BY <2>1, <2>6, <2>7, <2>8, NoExport
<1>4. CASE \E f \in {Out(n) : n \in 0..ExSuffixes} \cup {Remote} : AnotherProgram(f)
  <2>1. PICK f \in OutNames \cup {Remote} : AnotherProgram(f)
    BY <1>4 DEF OutNames
  <2>2. /\ ~Exists(f) /\ disk' = With(disk, f, Foreign)
        /\ exports' = exports /\ renamed' = renamed /\ offered' = offered
    BY <2>1 DEF AnotherProgram
  <2>3. Foreign \in Contents /\ Foreign.whole /\ Foreign.synced
    BY ExportAssumption DEF Foreign, Contents
  <2>4. f \in Names /\ \A y \in Exports : f # Tmp(y)
    BY NameFacts DEF Names
  <2>5. /\ DiskOK(disk') /\ Kept(disk, disk') /\ DOMAIN disk' = DOMAIN disk \cup {f}
        /\ \A g \in DOMAIN disk : g # f /\ disk'[g] = disk[g]
        /\ \A y \in Exports : f # Tmp(y) => Untouched(disk, disk', y)
    BY <2>2, <2>3, <2>4, NewFile
  <2>6. OfferedOK(offered', disk')
    BY <2>2, <2>5, OfferedStays
  <2> QED
    BY <2>2, <2>4, <2>5, <2>6, NoExport
<1> QED
  BY <1>1, <1>2, <1>3, <1>4

\* The power fails: what the directory showed was synced; a move that did not happen
\* takes away no more than the file of its own export, which has not ended.
LEMMA PowerFailsKeeps ==
  ASSUME ExInv, NEW kept \in SUBSET Exports, PowerFails(kept)
  PROVE  ExInv' /\ Kept(disk, disk')
<1> DEFINE back == {x \in renamed \ kept : Exists(exports[x].dest) /\ ~Exists(Tmp(x))}
           cut(c) == IF c.synced THEN c ELSE [c EXCEPT !.whole = FALSE, !.synced = TRUE]
           left == DOMAIN disk \ {exports[x].dest : x \in back}
           content(f) == IF f \in left THEN disk[f] ELSE disk[exports[f[2]].dest]
           news == {Tmp(x) : x \in back}
<1>1. /\ disk' = [f \in left \cup news |-> cut(content(f))] /\ renamed' = {}
      /\ exports' = [x \in Exports |-> Lost(exports[x])] /\ offered' = Nowhere
  BY DEF PowerFails
<1>2. DiskOK(disk)
  BY DEF ExInv
<1>3. \A x \in back : /\ x \in Exports /\ exports[x].phase \in {"dirsync", "clean"}
                      /\ exports[x].dest \in OutNames /\ Holds(disk, exports[x].dest, x)
                      /\ Tmp(x) \notin DOMAIN disk
  BY DEF ExInv, RenamedOK, Exists
<1>4. \A f \in DOMAIN disk : (\A x \in back : disk[f].of # x) => f \in left
  BY <1>3 DEF Holds
<1>5. \A x \in back : Tmp(x) \notin left /\ Tmp(x)[2] = x
  BY <1>3 DEF Tmp
<1>6. \A c \in Contents : /\ cut(c) \in Contents /\ cut(c).of = c.of /\ cut(c).synced
                          /\ c.synced => cut(c) = c
  BY DEF Contents
<1> HIDE DEF cut
<1>7. /\ DOMAIN disk' = left \cup news
      /\ \A f \in left : disk'[f] = cut(disk[f]) /\ disk[f] \in Contents
      /\ \A x \in back : /\ disk'[Tmp(x)] = cut(disk[exports[x].dest])
                         /\ disk[exports[x].dest] \in Contents /\ disk[exports[x].dest].of = x
      /\ disk' = [f \in DOMAIN disk' |-> disk'[f]]
  <2>1. DOMAIN disk' = left \cup news /\ disk' = [f \in DOMAIN disk' |-> disk'[f]]
    BY <1>1
  <2>2. \A f \in left \cup news : disk'[f] = cut(content(f))
    BY <1>1
  <2>3. \A f \in left : disk'[f] = cut(disk[f]) /\ disk[f] \in Contents
    BY <2>2, <1>2 DEF DiskOK
  <2>4. ASSUME NEW x \in back
        PROVE  /\ disk'[Tmp(x)] = cut(disk[exports[x].dest])
               /\ disk[exports[x].dest] \in Contents /\ disk[exports[x].dest].of = x
    <3>1. content(Tmp(x)) = disk[exports[x].dest] /\ Tmp(x) \in news
      BY <1>5
    <3>2. disk[exports[x].dest] \in Contents /\ disk[exports[x].dest].of = x
      BY <1>2, <1>3 DEF DiskOK, Holds
    <3> QED
      BY <2>2, <3>1, <3>2
  <2> QED
    BY <2>1, <2>3, <2>4
<1>8. \A f \in left : f \in DOMAIN disk /\ (disk[f].synced => disk'[f] = disk[f])
  BY <1>6, <1>7
<1>9. Src \in left /\ disk'[Src] = disk[Src]
  <2>1. Src \in DOMAIN disk /\ disk[Src].synced
    BY <1>2 DEF DiskOK
  <2>2. Src \in left
    BY <1>3, <2>1, NameFacts
  <2> QED
    BY <1>8, <2>1, <2>2
<1> HIDE DEF left, news
<1>10. news \subseteq {Tmp(x) : x \in Exports} /\ \A f \in news : \E x \in back : f = Tmp(x)
  BY <1>3 DEF news
<1>11. \A f \in DOMAIN disk' : disk'[f] \in Contents
  BY <1>6, <1>7, <1>10
<1>12. DOMAIN disk' \subseteq Names
  BY <1>2, <1>7, <1>8, <1>10 DEF DiskOK, Names
<1>13. \A f \in DOMAIN disk' : disk'[f].of = 0 => disk'[f] = Foreign
  <2>1. ASSUME NEW f \in left, disk'[f].of = 0 PROVE disk'[f] = Foreign
    <3>1. disk[f].of = 0 /\ f \in DOMAIN disk
      BY <1>6, <1>7, <1>8, <2>1
    <3>2. disk[f] = Foreign /\ disk[f].synced
      BY <1>2, <3>1 DEF DiskOK, Foreign
    <3> QED
      BY <1>8, <3>2
  <2>2. \A f \in news : disk'[f].of # 0
    BY <1>3, <1>6, <1>7, <1>10, NameFacts
  <2> QED
    BY <1>7, <2>1, <2>2
<1>14. \A f \in DOMAIN disk' \cap (OutNames \cup {Src}) : f \in left /\ disk'[f] = disk[f]
  BY <1>2, <1>7, <1>8, <1>10, NameFacts DEF DiskOK
<1>15. DiskOK(disk')
  <2>1. \A f \in DOMAIN disk' \cap (OutNames \cup {Src}) : disk'[f].whole /\ disk'[f].synced
    BY <1>2, <1>8, <1>14 DEF DiskOK
  <2>2. ASSUME NEW x \in Exports, Tmp(x) \in DOMAIN disk' PROVE disk'[Tmp(x)].of = x
    <3>1. CASE Tmp(x) \in left
      BY <3>1, <1>2, <1>6, <1>7, <1>8 DEF DiskOK
    <3>2. CASE Tmp(x) \in news
      <4>1. PICK y \in back : Tmp(x) = Tmp(y)
        BY <3>2, <1>10
      <4>2. x = y
        BY <4>1, <1>3, NameFacts
      <4> QED
        BY <4>2, <1>6, <1>7
    <3> QED
      BY <2>2, <3>1, <3>2, <1>7
  <2>3. disk'[Src].of = 0 /\ Src \in DOMAIN disk'
    BY <1>2, <1>7, <1>9 DEF DiskOK
  <2> QED
    BY <1>7, <1>11, <1>12, <1>13, <2>1, <2>2, <2>3 DEF DiskOK
<1>16. Kept(disk, disk')
  <2>1. ASSUME NEW f \in DOMAIN disk, disk[f].of = 0 PROVE f \in left /\ disk'[f] = disk[f]
    <3>1. disk[f].synced
      BY <1>2, <2>1 DEF DiskOK, Foreign
    <3>2. f \in left
      BY <1>3, <1>4, <2>1, NameFacts
    <3> QED
      BY <1>8, <3>1, <3>2
  <2> QED
    BY <2>1, <1>7 DEF Kept
<1>17. ASSUME NEW y \in Exports
       PROVE  ExportOK(y, exports'[y], disk', offered')
  <2>1. ExportOK(y, exports[y], disk, offered) /\ exports'[y] = Lost(exports[y])
    BY <1>1 DEF ExInv
  <2>2. CASE exports[y].phase \notin {"unused", "ended"}
    BY <2>1, <2>2, EndedOK DEF Lost
  <2>3. CASE exports[y].phase \in {"unused", "ended"}
    <3>1. exports'[y] = exports[y]
      BY <2>1, <2>3 DEF Lost
    <3>2. ASSUME exports[y].dest \in OutNames, Holds(disk, exports[y].dest, y)
          PROVE  Holds(disk', exports[y].dest, y)
      <4>1. y \notin back
        BY <1>3, <2>3
      <4>2. exports[y].dest \in left
        BY <1>4, <3>2, <4>1 DEF Holds
      <4> QED
        BY <1>7, <1>14, <3>2, <4>2 DEF Holds
    <3> QED
      BY <2>1, <2>3, <3>1, <3>2 DEF ExportOK
  <2> QED
    BY <2>2, <2>3
<1>18. DOMAIN exports' = Exports /\ RenamedOK(renamed', exports', disk') /\ OfferedOK(offered', disk')
  BY <1>1 DEF RenamedOK, OfferedOK
<1> QED
  BY <1>15, <1>16, <1>17, <1>18 DEF ExInv

---------------------------------------------------------------------------
(* The steps together.                                                     *)

LEMMA AskKeeps ==
  ASSUME ExInv, disk' = disk, renamed' = renamed, exports' = exports, offered' = offered
  PROVE  ExInv' /\ Kept(disk, disk')
<1>1. DiskOK(disk') /\ Kept(disk, disk') /\ \A y \in Exports : Untouched(disk, disk', y)
  BY SameDisk
<1>2. OfferedOK(offered', disk')
  BY DEF ExInv
<1> QED
  BY <1>1, <1>2, NoExport

LEMMA NextKeeps ==
  ASSUME ExInv, ExNext
  PROVE  ExInv' /\ Kept(disk, disk')
<1>1. CASE \/ ForgetOutput \/ clear_linguamesh_temporary_files \/ ExportDocumentJob_rejected
           \/ \E f \in {Out(n) : n \in 0..ExSuffixes} \cup {Remote} : AnotherProgram(f)
  BY <1>1, AroundKeeps
<1>2. CASE \E kept \in SUBSET Exports : PowerFails(kept)
  BY <1>2, PowerFailsKeeps
<1>3. ASSUME NEW x \in Exports,
             \/ begin_glossary_export(x) \/ begin_routing_profile_export(x)
             \/ begin_history_export(x) \/ begin_memory_export(x)
             \/ \E s \in BOOLEAN : \/ begin_document_report_export(x, s) \/ begin_translation_export(x, s)
                                   \/ begin_document_binary_export(x, s)
      PROVE  ExInv' /\ Kept(disk, disk')
  <2>1. \/ \E safe, offers, s \in BOOLEAN : Begin(x, safe, offers, s)
        \/ disk' = disk /\ renamed' = renamed /\ exports' = exports /\ offered' = offered
    BY <1>3 DEF begin_glossary_export, begin_routing_profile_export, begin_history_export,
                begin_memory_export, begin_document_report_export, begin_translation_export,
                begin_document_binary_export
  <2> QED
    BY <2>1, BeginKeeps, AskKeeps
<1>4. ASSUME NEW x \in Exports,
             \/ (\E f \in {Out(0), Src, Remote} : Choose(x, f)) \/ Dismiss(x)
             \/ CreateFile(x) \/ Move(x) \/ EndRemote(x)
             \/ \E ok \in BOOLEAN : \/ WriteFile(x, ok) \/ sync_local_export(x, ok)
                                    \/ sync_local_export_directory(x, ok) \/ Clean(x, ok)
      PROVE  ExInv' /\ Kept(disk, disk')
  BY <1>4, ChooseKeeps, DismissKeeps, CreateKeeps, MoveKeeps, EndRemoteKeeps,
     WriteKeeps, SyncKeeps, DirectoryKeeps, CleanKeeps
<1> QED
  BY <1>1, <1>2, <1>3, <1>4 DEF ExNext

LEMMA InitHolds ==
  ASSUME ExInit
  PROVE  ExInv
<1>1. DOMAIN disk = {Src} /\ disk[Src] = Foreign /\ disk = [f \in DOMAIN disk |-> disk[f]]
  BY DEF ExInit
<1>2. Foreign \in Contents /\ Foreign.of = 0 /\ Foreign.whole /\ Foreign.synced
  BY ExportAssumption DEF Foreign, Contents
<1>3. Src \in Names
  BY DEF Names
<1>4. \A x \in Exports : Tmp(x) # Src
  BY NameFacts
<1> HIDE DEF Foreign, Src
<1>5. DiskOK(disk)
  BY <1>1, <1>2, <1>3, <1>4 DEF DiskOK
<1>6. Unused \in Records /\ Unused.phase = "unused" /\ Unused.notice = "none"
  BY DEF Unused, Records, Phases
<1>7. \A x \in Exports : ExportOK(x, Unused, disk, offered)
  BY <1>6 DEF ExportOK
<1>8. DOMAIN exports = Exports /\ \A x \in Exports : exports[x] = Unused
  BY DEF ExInit
<1>9. RenamedOK(renamed, exports, disk) /\ OfferedOK(offered, disk)
  BY DEF ExInit, RenamedOK, OfferedOK
<1> QED
  BY <1>5, <1>7, <1>8, <1>9 DEF ExInv

LEMMA StutterHolds ==
  ASSUME ExInv, UNCHANGED exVars
  PROVE  ExInv'
BY AskKeeps DEF exVars

LEMMA ExInvAlways == ExSpec => []ExInv
<1>1. ExInit => ExInv
  BY InitHolds
<1>2. ExInv /\ [ExNext]_exVars => ExInv'
  BY NextKeeps, StutterHolds
<1> QED
  BY <1>1, <1>2, PTL DEF ExSpec

---------------------------------------------------------------------------

\* A local name never shows half a file, a file told to be saved is there as it was
\* written, and Open output offers a whole one: whichever step failed, whoever else
\* wrote into the directory and whenever the power went.
THEOREM SavedFilesAreWhole == ExSpec => []SavedIsWhole
<1>1. ExInv => SavedIsWhole
  <2> SUFFICES ASSUME ExInv PROVE SavedIsWhole
    OBVIOUS
  <2>1. ASSUME NEW n \in 0..ExSuffixes, Exists(Out(n)) PROVE disk[Out(n)].whole
    <3>1. Out(n) \in OutNames
      BY NameFacts
    <3> QED
      BY <2>1, <3>1 DEF ExInv, DiskOK, Exists
  <2>2. ASSUME NEW x \in Exports, exports[x].notice = "saved", exports[x].dest # Remote
        PROVE  Exists(exports[x].dest) /\ disk[exports[x].dest].of = x
    <3>1. ExportOK(x, exports[x], disk, offered)
      BY DEF ExInv
    <3> QED
      BY <2>2, <3>1 DEF ExportOK, Holds, Exists
  <2>3. offered # Nowhere => Exists(offered) /\ disk[offered].whole
    BY DEF ExInv, OfferedOK, Exists
  <2> QED
    BY <2>1, <2>2, <2>3 DEF SavedIsWhole
<1> QED
  BY <1>1, ExInvAlways, PTL

\* No step of any export, and no failure, changes or removes the source or a file of
\* another program, even one created between the check of the name and the move.
THEOREM OthersFilesStay == ExSpec => NothingOverwritten
<1>1. ExInv /\ [ExNext]_exVars =>
        [\A f \in DOMAIN disk : f[1] # "tmp" /\ disk[f].of = 0 => f \in DOMAIN disk' /\ disk'[f] = disk[f]]_exVars
  BY NextKeeps DEF Kept
<1> QED
  BY <1>1, ExInvAlways, PTL DEF ExSpec, NothingOverwritten
=============================================================================
