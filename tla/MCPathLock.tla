----------------------------- MODULE MCPathLock -----------------------------
(***************************************************************************)
(* Instances of PathLock for TLC: a directory tree with two files under    *)
(* /a, a sibling /a.b whose key sorts between /a and /a/x, and the request *)
(* mixes the runs ask about.                                               *)
(***************************************************************************)
EXTENDS PathLock, TLC

Root == <<>>
A == <<"a">>
AB == <<"a.b">>
AX == <<"a", "x">>
AY == <<"a", "y">>

MCPath == {Root, A, AB, AX, AY}

\* "/" < "/a" < "/a.b" < "/a/x" < "/a/y", because '.' is 0x2e and '/' is 0x2f.
MCRank ==
    [p \in MCPath |->
        CASE p = Root -> 0 [] p = A -> 1 [] p = AB -> 2 [] p = AX -> 3 [] p = AY -> 4]

\* Renames of files in both directions, next to requests on the files alone.
LeafRenames == {<<AX, AY>>, <<AY, AX>>, <<AX, AX>>, <<AY, AB>>, <<AX, A>>}

\* getattr, open, readdir and I/O, which lock one path each, on the root
\* directory and on a file in it.
DirAndFile == {<<Root, Root>>, <<A, A>>}

\* A rename inside /a and a getattr of /a.
RenameAndGetattr == {<<AX, AY>>, <<A, A>>}

\* Two renames whose key order disagrees with the order of the ancestor chain.
CrossingRenames == {<<AB, AX>>, <<A, AB>>}

\* Threads are interchangeable, and so are memory cells.
Symmetry == Permutations(Thread) \cup Permutations(Mux)
=============================================================================
