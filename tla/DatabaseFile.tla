---------------------------- MODULE DatabaseFile ----------------------------
(***************************************************************************)
(* Opening the profile database: the path is validated, its directory is   *)
(* pinned by a descriptor, the sidecars and the file are opened below that *)
(* descriptor, and the sidecars are compared before and after the rows are *)
(* read.  Each step is one or a few system calls; another program may      *)
(* rename directories and files between any two of them.                   *)
(***************************************************************************)
EXTENDS Integers, FiniteSets

CONSTANTS
  DbDirs,     \* directories the parent's name can stand for; 1 is made where there is none
  DbOthers    \* bound: changes made by other programs

ASSUME DatabaseAssumption == 1 \in DbDirs /\ DbDirs \subseteq Nat \ {0} /\ DbOthers \in Nat

\* Inodes: 0 none, 1 and 2 regular files, 3 a link or device, 4 what openat creates.
Inodes == 0..3
Created == 4

VARIABLES
  parent,    \* what the parent's name stands for: a directory and whether by a link
  inside,    \* the entries of each directory: the database and a sidecar
  opened,    \* the worker: the step it is at and what it has seen
  changes

dbVars == <<parent, inside, opened, changes>>

Private(d) == d # 2   \* mode & 0o077 is 0
Regular(i) == i \in {1, 2, Created}   \* a regular file with one link

NotOpened == [step |-> "start", dir |-> 0, file |-> 0, fd |-> 0, side |-> 0]

DbInit ==
  /\ parent \in [dir : DbDirs \cup {0}, link : BOOLEAN]
  /\ inside \in [DbDirs -> [db : {0, 1}, side : {0, 2}]]
  /\ opened = NotOpened /\ changes = 0

Step(r) == opened' = r /\ UNCHANGED <<parent, inside, changes>>
\* Any error: the worker goes on without a database.
Refuse_storage == Step([NotOpened EXCEPT !.step = "refused"])

ensure_no_symbolic_path_components == ~parent.link

\* The directory is created if it is missing, then looked at.
validate_parent ==
  /\ opened.step = "start"
  /\ \/ ~ensure_no_symbolic_path_components /\ Refuse_storage
     \/ /\ ensure_no_symbolic_path_components /\ parent.dir = 0
        /\ parent' = [parent EXCEPT !.dir = 1] /\ inside' = [inside EXCEPT ![1] = [db |-> 0, side |-> 0]]
        /\ opened' = [opened EXCEPT !.step = "path", !.dir = 1] /\ changes' = changes
     \/ /\ ensure_no_symbolic_path_components /\ parent.dir # 0 /\ Private(parent.dir)
        /\ Step([opened EXCEPT !.step = "path", !.dir = parent.dir])
     \/ ~Private(parent.dir) /\ Refuse_storage

\* The name is followed again for the database's own identity.
validate_database_path ==
  LET i == IF parent.dir = 0 THEN 0 ELSE inside[parent.dir].db IN
  /\ opened.step = "path"
  /\ \/ (~ensure_no_symbolic_path_components \/ i = 3) /\ Refuse_storage
     \/ ensure_no_symbolic_path_components /\ i # 3 /\ Step([opened EXCEPT !.step = "pin", !.file = i])

\* openat2 without links; the directory must be the one that was validated.
pin_database_parent ==
  /\ opened.step = "pin"
  /\ \/ parent = [dir |-> opened.dir, link |-> FALSE] /\ Step([opened EXCEPT !.step = "sidecars"])
     \/ parent # [dir |-> opened.dir, link |-> FALSE] /\ Refuse_storage

inspect_database_sidecar == inside[opened.dir].side

validate_database_sidecars ==
  /\ opened.step = "sidecars"
  /\ \/ inspect_database_sidecar = 3 /\ Refuse_storage
     \/ inspect_database_sidecar # 3 /\ Step([opened EXCEPT !.step = "file", !.side = inspect_database_sidecar])

\* Fault: the file that is there is opened, whichever it is.
open_database_file_any ==
  LET i == inside[opened.dir].db IN
  /\ opened.step = "file" /\ i # 0 /\ Step([opened EXCEPT !.step = "storage", !.fd = i])

\* Below the pinned directory: the validated file, or a new one if there was none.
open_database_file ==
  LET i == inside[opened.dir].db IN
  /\ opened.step = "file"
  /\ \/ /\ opened.file = 0 /\ i = 0
        /\ inside' = [inside EXCEPT ![opened.dir].db = Created]
        /\ opened' = [opened EXCEPT !.step = "storage", !.fd = Created] /\ UNCHANGED <<parent, changes>>
     \/ opened.file # 0 /\ i = opened.file /\ Regular(i) /\ Step([opened EXCEPT !.step = "storage", !.fd = i])
     \/ i # opened.file /\ Refuse_storage

\* A sidecar that was there must still be there; a new one is SQLite's own.
ensure_database_sidecars_unchanged ==
  inspect_database_sidecar # 3 /\ (opened.side # 0 => opened.side = inspect_database_sidecar)

\* Storage::open_from_trusted_descriptor, and the rows, each followed by the comparison.
open_profile_storage(from, to) ==
  /\ opened.step = from
  /\ \/ ensure_database_sidecars_unchanged /\ Step([opened EXCEPT !.step = to])
     \/ Refuse_storage

\* Another program.
RenameParent(d, l) ==
  /\ changes < DbOthers /\ changes' = changes + 1 /\ parent' = [dir |-> d, link |-> l]
  /\ UNCHANGED <<inside, opened>>
ReplaceFile(d, i) ==
  /\ changes < DbOthers /\ changes' = changes + 1 /\ inside' = [inside EXCEPT ![d].db = i]
  /\ UNCHANGED <<parent, opened>>
ReplaceSidecar(d, i) ==
  /\ changes < DbOthers /\ changes' = changes + 1 /\ inside' = [inside EXCEPT ![d].side = i]
  /\ UNCHANGED <<parent, opened>>

DbNext ==
  \/ validate_parent \/ validate_database_path \/ pin_database_parent
  \/ validate_database_sidecars \/ open_database_file
  \/ open_profile_storage("storage", "rows") \/ open_profile_storage("rows", "ready")
  \/ (\E d \in DbDirs \cup {0}, l \in BOOLEAN : RenameParent(d, l))
  \/ \E d \in DbDirs, i \in Inodes : ReplaceFile(d, i) \/ ReplaceSidecar(d, i)

DbSpec == DbInit /\ [][DbNext]_dbVars

---------------------------------------------------------------------------
(* Properties.                                                             *)

\* Whatever other programs rename meanwhile, the database that is used is a regular
\* file in a private directory, the one that was validated under the path or one that
\* did not exist and was created, and never another that took its place.
OpensWhatItChecked ==
  opened.step = "ready" =>
    /\ Regular(opened.fd) /\ Private(opened.dir)
    /\ opened.fd = (IF opened.file = 0 THEN Created ELSE opened.file)
============================================================================
