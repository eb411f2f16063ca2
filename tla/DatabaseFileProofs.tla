------------------------- MODULE DatabaseFileProofs -------------------------
(***************************************************************************)
(* The database that is used is the one that was checked, for any          *)
(* directories and any number of changes made by other programs.           *)
(***************************************************************************)
EXTENDS DatabaseFile, TLAPS

Steps == {"start", "path", "pin", "sidecars", "file", "storage", "rows", "ready", "refused"}

\* What the names stand for.
WorldType ==
  /\ parent \in [dir : DbDirs \cup {0}, link : BOOLEAN]
  /\ inside \in [DbDirs -> [db : Inodes \cup {Created}, side : Inodes]]

\* What the worker has seen.
SeenType ==
  opened \in [step : Steps, dir : DbDirs \cup {0}, file : Inodes \cup {Created},
              fd : Inodes \cup {Created}, side : Inodes]

\* After the first step the worker has a directory of its own, and it is private.
DirectoryPrivate ==
  opened.step \notin {"start", "refused"} => opened.dir \in DbDirs /\ Private(opened.dir)

\* Once a file is open it is the validated one, or a new one if there was none.
FileChecked ==
  opened.step \in {"storage", "rows", "ready"} =>
    Regular(opened.fd) /\ opened.fd = (IF opened.file = 0 THEN Created ELSE opened.file)

Checked == WorldType /\ SeenType /\ DirectoryPrivate /\ FileChecked

---------------------------------------------------------------------------
\* A refused worker has nothing that could break the invariant.
LEMMA RefusedChecked ==
  ASSUME Checked, Refuse_storage
  PROVE  Checked'
<1>1. /\ parent' = parent /\ inside' = inside
      /\ opened' = [step |-> "refused", dir |-> 0, file |-> 0, fd |-> 0, side |-> 0]
  BY DEF Refuse_storage, Step, NotOpened
<1> QED
  BY <1>1 DEF Checked, WorldType, SeenType, DirectoryPrivate, FileChecked, Steps, Inodes

\* validate_parent takes a private directory, or makes one.
LEMMA ParentChecked ==
  ASSUME Checked, validate_parent
  PROVE  Checked'
<1>1. CASE Refuse_storage
  BY <1>1, RefusedChecked
<1>2. CASE /\ parent' = [parent EXCEPT !.dir = 1]
           /\ inside' = [inside EXCEPT ![1] = [db |-> 0, side |-> 0]]
           /\ opened' = [opened EXCEPT !.step = "path", !.dir = 1]
  <2>1. parent' \in [dir : DbDirs \cup {0}, link : BOOLEAN]
    BY <1>2, DatabaseAssumption DEF Checked, WorldType
  <2>2. [db |-> 0, side |-> 0] \in [db : Inodes \cup {Created}, side : Inodes]
    BY DEF Inodes
  <2>3. inside' \in [DbDirs -> [db : Inodes \cup {Created}, side : Inodes]]
    BY <1>2, <2>2 DEF Checked, WorldType
  <2>4. SeenType' /\ opened'.step = "path" /\ opened'.dir = 1
    BY <1>2, DatabaseAssumption DEF Checked, SeenType, Steps
  <2> QED
    BY <2>1, <2>3, <2>4, DatabaseAssumption
    DEF Checked, WorldType, DirectoryPrivate, FileChecked, Private
<1>3. CASE /\ parent.dir # 0 /\ Private(parent.dir)
           /\ Step([opened EXCEPT !.step = "path", !.dir = parent.dir])
  BY <1>3 DEF Checked, WorldType, SeenType, DirectoryPrivate, FileChecked, Steps, Inodes, Private, Step
<1> QED
  BY <1>1, <1>2, <1>3 DEF validate_parent

\* validate_database_path takes what the name stands for now.
LEMMA PathChecked ==
  ASSUME Checked, validate_database_path
  PROVE  Checked'
<1> DEFINE i == IF parent.dir = 0 THEN 0 ELSE inside[parent.dir].db
<1>1. i \in Inodes \cup {Created}
  BY DEF Checked, WorldType, Inodes
<1>2. CASE Refuse_storage
  BY <1>2, RefusedChecked
<1>3. CASE opened.step = "path" /\ Step([opened EXCEPT !.step = "pin", !.file = i])
  <2> HIDE DEF i
  <2> QED
    BY <1>1, <1>3 DEF Checked, WorldType, SeenType, DirectoryPrivate, FileChecked, Steps, Private, Step
<1> QED
  BY <1>2, <1>3 DEF validate_database_path

\* Pinning the directory changes nothing of what was seen.
LEMMA PinChecked ==
  ASSUME Checked, pin_database_parent
  PROVE  Checked'
<1>1. CASE Refuse_storage
  BY <1>1, RefusedChecked
<1>2. CASE opened.step = "pin" /\ Step([opened EXCEPT !.step = "sidecars"])
  BY <1>2 DEF Checked, WorldType, SeenType, DirectoryPrivate, FileChecked, Steps, Private, Step
<1> QED
  BY <1>1, <1>2 DEF pin_database_parent

\* The sidecar that is seen is an entry of the pinned directory.
LEMMA SidecarsChecked ==
  ASSUME Checked, validate_database_sidecars
  PROVE  Checked'
<1>1. CASE Refuse_storage
  BY <1>1, RefusedChecked
<1>2. CASE /\ opened.step = "sidecars"
           /\ Step([opened EXCEPT !.step = "file", !.side = inspect_database_sidecar])
  <2>1. inspect_database_sidecar \in Inodes
    BY <1>2 DEF Checked, WorldType, DirectoryPrivate, inspect_database_sidecar
  <2> QED
    BY <1>2, <2>1 DEF Checked, WorldType, SeenType, DirectoryPrivate, FileChecked, Steps, Private, Step
<1> QED
  BY <1>1, <1>2 DEF validate_database_sidecars

\* The open takes the validated file only, and creates one only where none was.
LEMMA FileIsChecked ==
  ASSUME Checked, open_database_file
  PROVE  Checked'
<1> DEFINE i == inside[opened.dir].db
<1>1. opened.step = "file" /\ opened.dir \in DbDirs
  BY DEF open_database_file, Checked, DirectoryPrivate
<1>2. CASE Refuse_storage
  BY <1>2, RefusedChecked
<1>3. CASE /\ opened.file = 0 /\ i = 0
           /\ inside' = [inside EXCEPT ![opened.dir].db = Created]
           /\ opened' = [opened EXCEPT !.step = "storage", !.fd = Created]
           /\ UNCHANGED <<parent, changes>>
  <2>1. inside' \in [DbDirs -> [db : Inodes \cup {Created}, side : Inodes]]
    BY <1>1, <1>3 DEF Checked, WorldType
  <2> QED
    BY <1>1, <1>3, <2>1 DEF Checked, WorldType, SeenType, DirectoryPrivate, FileChecked, Steps,
         Private, Regular
<1>4. CASE /\ opened.file # 0 /\ i = opened.file /\ Regular(i)
           /\ Step([opened EXCEPT !.step = "storage", !.fd = i])
  <2>1. i \in Inodes \cup {Created}
    BY <1>1 DEF Checked, WorldType
  <2> QED
    BY <1>1, <1>4, <2>1 DEF Checked, WorldType, SeenType, DirectoryPrivate, FileChecked, Steps,
         Private, Regular, Step
<1> QED
  BY <1>2, <1>3, <1>4 DEF open_database_file

\* Storage and rows are read through the descriptor that is open.
LEMMA StorageChecked ==
  ASSUME Checked, NEW from, NEW to,
         <<from, to>> \in {<<"storage", "rows">>, <<"rows", "ready">>},
         open_profile_storage(from, to)
  PROVE  Checked'
<1>1. CASE Refuse_storage
  BY <1>1, RefusedChecked
<1>2. CASE opened.step = from /\ Step([opened EXCEPT !.step = to])
  BY <1>2 DEF Checked, WorldType, SeenType, DirectoryPrivate, FileChecked, Steps, Private, Step
<1> QED
  BY <1>1, <1>2 DEF open_profile_storage

\* Another program changes names and entries only.
LEMMA OthersChecked ==
  ASSUME Checked,
         \/ \E d \in DbDirs \cup {0}, l \in BOOLEAN : RenameParent(d, l)
         \/ \E d \in DbDirs, i \in Inodes : ReplaceFile(d, i) \/ ReplaceSidecar(d, i)
  PROVE  Checked'
<1>1. opened' = opened
  BY DEF RenameParent, ReplaceFile, ReplaceSidecar
<1>2. WorldType'
  BY DEF Checked, WorldType, RenameParent, ReplaceFile, ReplaceSidecar
<1> QED
  BY <1>1, <1>2 DEF Checked, SeenType, DirectoryPrivate, FileChecked

\* The inductive invariant: the worker's record of its checks is true whatever the
\* names of the path stand for by now.
THEOREM AlwaysChecked == DbSpec => []Checked
<1>1. DbInit => Checked
  BY DEF DbInit, NotOpened, Checked, WorldType, SeenType, DirectoryPrivate, FileChecked, Steps, Inodes
<1>2. Checked /\ [DbNext]_dbVars => Checked'
  <2> SUFFICES ASSUME Checked, [DbNext]_dbVars
               PROVE  Checked'
    OBVIOUS
  <2>1. CASE UNCHANGED dbVars
    BY <2>1 DEF dbVars, Checked, WorldType, SeenType, DirectoryPrivate, FileChecked
  <2>2. CASE validate_parent
    BY <2>2, ParentChecked
  <2>3. CASE validate_database_path
    BY <2>3, PathChecked
  <2>4. CASE pin_database_parent
    BY <2>4, PinChecked
  <2>5. CASE validate_database_sidecars
    BY <2>5, SidecarsChecked
  <2>6. CASE open_database_file
    BY <2>6, FileIsChecked
  <2>7. CASE open_profile_storage("storage", "rows") \/ open_profile_storage("rows", "ready")
    BY <2>7, StorageChecked
  <2>8. CASE \/ \E d \in DbDirs \cup {0}, l \in BOOLEAN : RenameParent(d, l)
             \/ \E d \in DbDirs, i \in Inodes : ReplaceFile(d, i) \/ ReplaceSidecar(d, i)
    BY <2>8, OthersChecked
  <2> QED
    BY <2>1, <2>2, <2>3, <2>4, <2>5, <2>6, <2>7, <2>8 DEF DbNext
<1> QED
  BY <1>1, <1>2, PTL DEF DbSpec

\* Whatever other programs rename or replace meanwhile, the worker goes on only with a
\* regular file in a private directory, the one it validated or one it created.
THEOREM OpensOnlyChecked == DbSpec => []OpensWhatItChecked
<1>1. Checked => OpensWhatItChecked
  BY DEF Checked, DirectoryPrivate, FileChecked, OpensWhatItChecked
<1> QED
  BY AlwaysChecked, <1>1, PTL
=============================================================================
