----------------------------- MODULE ExportFile -----------------------------
(***************************************************************************)
(* Writing a file the user has chosen: translations, documents, reports,   *)
(* glossaries, routing profiles, history and memory.  A local file is      *)
(* written under a temporary name, synced, moved to its name without       *)
(* overwriting and its directory synced; another place gets an exclusive   *)
(* create.  Several exports may be under way, other programs use the same  *)
(* directory, and the process or the power may fail at any step.           *)
(***************************************************************************)
EXTENDS Integers, FiniteSets, Functions

CONSTANTS
  ExMax,       \* bound: exports begun in one run
  ExSuffixes,  \* the last suffix collision_safe_output_path tries (9999)
  ExOthers     \* bound: files other programs create

ASSUME ExportAssumption == {ExMax, ExSuffixes, ExOthers} \subseteq Nat

Exports == 1..ExMax
Out(n) == <<"out", n>>        \* the name that was chosen (0) and its suffixes
Tmp(x) == <<"tmp", x>>        \* .linguamesh-export-<uuid>.tmp, beside the destination
Src == <<"src", 0>>           \* the imported file, under any of its names
Remote == <<"remote", 0>>     \* a URI without a local path
Nowhere == <<"none", 0>>

VARIABLES
  disk,     \* the files that exist: whose content (0: not ours), whole, on the platters
  renamed,  \* moves whose directory has not been synced
  exports,  \* every export
  offered,  \* output_uri, which Open output uses
  docs,     \* ExportDocumentJob sent, its event not yet applied
  others

exVars == <<disk, renamed, exports, offered, docs, others>>

Foreign == [of |-> 0, whole |-> TRUE, synced |-> TRUE]
Unused == [phase |-> "unused", source |-> FALSE, safe |-> FALSE, offers |-> FALSE,
           dest |-> Nowhere, ok |-> FALSE, notice |-> "none"]

ExInit ==
  /\ disk = [f \in {Src} |-> Foreign] /\ renamed = {} /\ exports = [x \in Exports |-> Unused]
  /\ offered = Nowhere /\ docs = 0 /\ others = 0

Exists(f) == f \in DOMAIN disk
Without(d, f) == Restrict(d, DOMAIN d \ {f})
With(d, f, content) == [g \in DOMAIN d \cup {f} |-> IF g = f THEN content ELSE d[g]]

---------------------------------------------------------------------------
(* The dialogs: contents and source are taken when the dialog opens.       *)

Begin(x, safe, offers, s) ==
  /\ exports[x].phase = "unused" /\ \A y \in 1..(x - 1) : exports[y].phase # "unused"
  /\ exports' = [exports EXCEPT ![x] = [Unused EXCEPT !.phase = "dialog", !.source = s,
                                          !.safe = safe, !.offers = offers]]
  /\ UNCHANGED <<disk, renamed, offered, others>>

begin_glossary_export(x) == docs' = docs /\ Begin(x, FALSE, FALSE, FALSE)
begin_routing_profile_export(x) == docs' = docs /\ Begin(x, FALSE, FALSE, FALSE)
begin_history_export(x) == docs' = docs /\ Begin(x, FALSE, FALSE, FALSE)
begin_memory_export(x) == docs' = docs /\ Begin(x, FALSE, FALSE, FALSE)
begin_document_report_export(x, s) == docs' = docs /\ Begin(x, TRUE, FALSE, s)
\* A selected document is asked of the worker; its answer opens the dialog.
begin_translation_export(x, s) ==
  \/ docs' = docs /\ Begin(x, TRUE, TRUE, s)
  \/ docs = 0 /\ docs' = 1 /\ UNCHANGED <<disk, renamed, exports, offered, others>>
\* ExportDocumentJob: no database, no such job, or a document that cannot be rebuilt.
ExportDocumentJob_rejected == docs = 1 /\ docs' = 0 /\ UNCHANGED <<disk, renamed, exports, offered, others>>
begin_document_binary_export(x, s) == docs = 1 /\ docs' = 0 /\ Begin(x, TRUE, TRUE, s)

destination_matches_source(s, f) == s /\ f = Src

\* The first free name, or none; the suffixed names are one family here.
collision_safe_output_path(f) ==
  IF ~Exists(f) THEN {f}
  ELSE {Out(n) : n \in {k \in 1..ExSuffixes : ~Exists(Out(k)) /\ \A j \in 1..(k - 1) : Exists(Out(j))}}

\* A URI without a path is taken as it is.
collision_safe_destination(f) == IF f = Remote THEN {f} ELSE collision_safe_output_path(f)

Set(x, r) == exports' = [exports EXCEPT ![x] = r]
Ended(n, f) == [Unused EXCEPT !.phase = "ended", !.notice = n, !.dest = f]
Failed(x) == Set(x, Ended("failed", Nowhere))

Choose(x, f) ==
  LET e == exports[x]
      free == IF e.safe THEN collision_safe_destination(f) ELSE {f} IN
  /\ e.phase = "dialog"
  /\ \/ (destination_matches_source(e.source, f) \/ free = {}) /\ Failed(x)
     \/ /\ ~destination_matches_source(e.source, f)
        /\ \E g \in free : Set(x, [e EXCEPT !.phase = "create", !.dest = g])
  /\ UNCHANGED <<disk, renamed, offered, docs, others>>

Dismiss(x) ==
  /\ exports[x].phase = "dialog" /\ Set(x, Ended("none", Nowhere))
  /\ UNCHANGED <<disk, renamed, offered, docs, others>>

---------------------------------------------------------------------------
(* write_contents_to_new_file_async on the name it is given.               *)

export_write_strategy(f) == IF f = Remote THEN "ExclusiveCreate" ELSE "LocalAtomicRename"
Target(x) == IF export_write_strategy(exports[x].dest) = "ExclusiveCreate" THEN exports[x].dest ELSE Tmp(x)

CreateFile(x) ==
  /\ exports[x].phase = "create"
  /\ \/ ~Exists(Target(x)) /\ disk' = With(disk, Target(x), [of |-> x, whole |-> FALSE, synced |-> FALSE])
        /\ Set(x, [exports[x] EXCEPT !.phase = "write"])
     \/ disk' = disk
        /\ IF Target(x) = Tmp(x) THEN Set(x, [exports[x] EXCEPT !.phase = "clean"]) ELSE Failed(x)
  /\ UNCHANGED <<renamed, offered, docs, others>>

\* write_all_async and close_async; a file that was unlinked is written nevertheless.
WriteFile(x, ok) ==
  /\ exports[x].phase = "write" /\ Set(x, [exports[x] EXCEPT !.phase = "sync", !.ok = ok])
  /\ disk' = IF Exists(Target(x)) THEN [disk EXCEPT ![Target(x)].whole = ok] ELSE disk
  /\ UNCHANGED <<renamed, offered, docs, others>>

\* Fault: what was written is taken as written for good.
sync_local_export_trusted(x, ok) ==
  /\ exports[x].phase = "sync" /\ disk' = disk
  /\ Set(x, [exports[x] EXCEPT !.phase = IF @ = "sync" /\ exports[x].ok THEN "move" ELSE "clean"])
  /\ UNCHANGED <<renamed, offered, docs, others>>

\* The file and its directory are synced, whether or not the write went well.
sync_local_export(x, ok) ==
  LET t == Tmp(x)  synced == ok /\ Exists(t) IN
  /\ exports[x].phase = "sync" /\ Target(x) = t
  /\ disk' = IF synced THEN [disk EXCEPT ![t].synced = TRUE] ELSE disk
  /\ Set(x, [exports[x] EXCEPT !.phase = IF synced /\ exports[x].ok THEN "move" ELSE "clean"])
  /\ UNCHANGED <<renamed, offered, docs, others>>

\* Success is told; translations and documents can then be opened.
Saved(x) ==
  /\ Set(x, Ended("saved", exports[x].dest))
  /\ offered' = IF exports[x].offers THEN exports[x].dest ELSE offered

\* Without a local path there is nothing to sync, and nothing is taken back.
EndRemote(x) ==
  /\ exports[x].phase = "sync" /\ Target(x) # Tmp(x)
  /\ \/ exports[x].ok /\ Saved(x)
     \/ ~exports[x].ok /\ Failed(x) /\ offered' = offered
  /\ UNCHANGED <<disk, renamed, docs, others>>

\* Fault: the move replaces what is there.
Move_overwriting(x) ==
  LET t == Tmp(x)  f == exports[x].dest IN
  /\ exports[x].phase = "move" /\ Exists(t)
  /\ disk' = With(Without(disk, t), f, disk[t]) /\ renamed' = renamed \cup {x}
  /\ Set(x, [exports[x] EXCEPT !.phase = "dirsync"]) /\ UNCHANGED <<offered, docs, others>>

\* move_async without the flag to overwrite.  That GIO (external) checks the name and
\* renames in one step, so that nobody takes the name in between, is assumed.
Move(x) ==
  LET t == Tmp(x)  f == exports[x].dest IN
  /\ exports[x].phase = "move"
  /\ \/ /\ Exists(t) /\ ~Exists(f)
        /\ disk' = With(Without(disk, t), f, disk[t]) /\ renamed' = renamed \cup {x}
        /\ Set(x, [exports[x] EXCEPT !.phase = "dirsync"])
     \/ Set(x, [exports[x] EXCEPT !.phase = "clean"]) /\ UNCHANGED <<disk, renamed>>
  /\ UNCHANGED <<offered, docs, others>>

\* A directory that cannot be synced makes it a failure, though the file is there.
sync_local_export_directory(x, ok) ==
  /\ exports[x].phase = "dirsync" /\ disk' = disk
  /\ renamed' = IF ok THEN {} ELSE renamed
  /\ IF ok THEN Saved(x) ELSE Set(x, [exports[x] EXCEPT !.phase = "clean"]) /\ offered' = offered
  /\ UNCHANGED <<docs, others>>

\* delete_async: its own failure is ignored.
Clean(x, ok) ==
  /\ exports[x].phase = "clean" /\ Failed(x) /\ renamed' = renamed \ {x}
  /\ disk' = IF ok THEN Without(disk, Tmp(x)) ELSE disk
  /\ UNCHANGED <<offered, docs, others>>

---------------------------------------------------------------------------
(* Around the exports.                                                     *)

\* Translate, Clear and an import forget the file; Open output only uses it.
ForgetOutput == offered' = Nowhere /\ UNCHANGED <<disk, renamed, exports, docs, others>>

\* Clear temporary files, when the destination is the system's temporary directory.
clear_linguamesh_temporary_files ==
  /\ disk' = Restrict(disk, {f \in DOMAIN disk : f[1] # "tmp"})
  /\ renamed' = renamed /\ UNCHANGED <<exports, offered, docs, others>>

AnotherProgram(f) ==
  /\ others < ExOthers /\ others' = others + 1 /\ ~Exists(f) /\ disk' = With(disk, f, Foreign)
  /\ UNCHANGED <<renamed, exports, offered, docs>>

Lost(e) == IF e.phase \in {"unused", "ended"} THEN e ELSE Ended("none", Nowhere)
\* The power fails: what was not synced is lost or cut, a move may not have happened.
PowerFails(kept) ==
  LET back == {x \in renamed \ kept : Exists(exports[x].dest) /\ ~Exists(Tmp(x))}
      cut(c) == IF c.synced THEN c ELSE [c EXCEPT !.whole = FALSE, !.synced = TRUE]
      left == DOMAIN disk \ {exports[x].dest : x \in back}
      content(f) == IF f \in left THEN disk[f] ELSE disk[exports[f[2]].dest]
  IN  /\ \E x \in Exports : exports[x].phase \notin {"unused", "ended"}
      /\ disk' = [f \in left \cup {Tmp(x) : x \in back} |-> cut(content(f))] /\ renamed' = {}
      /\ exports' = [x \in Exports |-> Lost(exports[x])] /\ offered' = Nowhere /\ docs' = 0
      /\ UNCHANGED others
---------------------------------------------------------------------------
ExNext ==
  \/ ExportDocumentJob_rejected \/ ForgetOutput \/ clear_linguamesh_temporary_files
  \/ (\E kept \in SUBSET Exports : PowerFails(kept))
  \/ \E f \in {Out(n) : n \in 0..ExSuffixes} \cup {Remote} : AnotherProgram(f)
  \/ \E x \in Exports :
       \/ begin_glossary_export(x) \/ begin_routing_profile_export(x)
       \/ begin_history_export(x) \/ begin_memory_export(x)
       \/ \E s \in BOOLEAN : \/ begin_document_report_export(x, s) \/ begin_translation_export(x, s)
                             \/ begin_document_binary_export(x, s)
       \/ (\E f \in {Out(0), Src, Remote} : Choose(x, f)) \/ Dismiss(x)
       \/ CreateFile(x) \/ Move(x) \/ EndRemote(x)
       \/ \E ok \in BOOLEAN : \/ WriteFile(x, ok) \/ sync_local_export(x, ok)
                              \/ sync_local_export_directory(x, ok) \/ Clean(x, ok)

---------------------------------------------------------------------------
(* Properties.                                                             *)

\* No export changes or removes the source or a file of another program, whoever
\* takes the name between the check and the move.
NothingOverwritten ==
  [][\A f \in DOMAIN disk : f[1] # "tmp" /\ disk[f].of = 0 => f \in DOMAIN disk' /\ disk'[f] = disk[f]]_exVars

\* A local name never shows half a file, not even after the power has failed at any
\* step; and what was told to be saved is there, whole, under the name it was saved.
SavedIsWhole ==
  /\ \A n \in 0..ExSuffixes : Exists(Out(n)) => disk[Out(n)].whole
  /\ \A x \in Exports : exports[x].notice = "saved" /\ exports[x].dest # Remote =>
       Exists(exports[x].dest) /\ disk[exports[x].dest].of = x
  /\ offered # Nowhere => Exists(offered) /\ disk[offered].whole
============================================================================
