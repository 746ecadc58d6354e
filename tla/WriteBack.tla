----------------------------- MODULE WriteBack ------------------------------
(***************************************************************************)
(* What a write-back cache promises its users: a file system tree, and an  *)
(* object storage that follows it.  The names of files and directories are *)
(* in the storage at once, their content arrives later; nothing else ever  *)
(* changes the storage, and a crash changes nothing at all.                *)
(***************************************************************************)
EXTENDS Tree

CONSTANTS
    Version,    \* the contents of files
    Dir,        \* stands for a directory
    Objects     \* what the storage holds in the beginning

VARIABLES
    storage,    \* the object storage
    expect      \* what the users see

vars == <<storage, expect>>

Init == storage = Objects /\ expect = Objects

\* A file or directory is made where there was nothing.
Make(p, v) ==
    /\ expect[p] = 0
    /\ expect' = [expect EXCEPT ![p] = v]
    /\ storage' = [storage EXCEPT ![p] = v]

\* A file is given new content.
Modify(p, v) ==
    /\ expect[p] \in Version
    /\ expect' = [expect EXCEPT ![p] = v]
    /\ UNCHANGED storage

\* A file or an empty directory is removed.
Remove(p) ==
    /\ \A q \in Path : ChildOf(q, p) => expect[q] = 0
    /\ expect' = [expect EXCEPT ![p] = 0]
    /\ storage' = [storage EXCEPT ![p] = 0]

\* A file or a directory with everything below it gets a new path, where
\* nothing was.
Rename(p, q) ==
    /\ expect[p] # 0 /\ expect[q] = 0
    /\ expect' = MoveTree(expect, p, q)
    /\ storage' = MoveTree(storage, p, q)

\* The content of a file reaches the storage.
Upload(p) ==
    /\ expect[p] \in Version
    /\ storage' = [storage EXCEPT ![p] = expect[p]]
    /\ UNCHANGED expect

Next ==
    \/ \E p \in Path, v \in Version : Make(p, v) \/ Modify(p, v)
    \/ \E p \in Path : Make(p, Dir) \/ Remove(p) \/ Upload(p)
    \/ \E p, q \in Path : Rename(p, q)

Spec == Init /\ [][Next]_vars
=============================================================================
