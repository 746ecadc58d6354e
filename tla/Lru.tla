-------------------------------- MODULE Lru ---------------------------------
(***************************************************************************)
(* The two lists of inode numbers that drive the cache's background loop   *)
(* (rwlst/rwmap and rolst/romap of cache/cache.go): rw holds the inodes to *)
(* upload, ro the inodes to evict, least recently touched first.  A map    *)
(* and its list always hold the same inodes, so one sequence stands for    *)
(* both.                                                                   *)
(***************************************************************************)
EXTENDS Link

EmptyLru == [rw |-> <<>>, ro |-> <<>>]

\* Mutant: an inode that moves to rw stays on ro.
touchInoTwice(l, i, rw) ==
    IF rw THEN [rw |-> InsertTail(Without(l.rw, i), i), ro |-> l.ro]
    ELSE IF i \in Elems(l.rw) THEN l
    ELSE [rw |-> l.rw, ro |-> InsertTail(Without(l.ro, i), i)]

\* Move inode i to the tail of one list; an inode to upload stays to upload.
touchIno(l, i, rw) ==
    IF rw THEN [rw |-> InsertTail(Without(l.rw, i), i), ro |-> Without(l.ro, i)]
    ELSE IF i \in Elems(l.rw) THEN l
    ELSE [rw |-> l.rw, ro |-> InsertTail(Without(l.ro, i), i)]

popUpload(l) == [l EXCEPT !.rw = Tail(@)]

popEvict(l) == [l EXCEPT !.ro = Tail(@)]
=============================================================================
