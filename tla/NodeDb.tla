------------------------------- MODULE NodeDb -------------------------------
(***************************************************************************)
(* The node database of cache/node.go: two buckets of a bolt database,     *)
(*   idx: inode number -> path key,   cat: path key -> encoded node.       *)
(* A database value is a record [idx, cat] of two total functions; NoPath  *)
(* and NoNode stand for an absent key.  Each operator is what one call     *)
(* does inside a transaction, and transactions are atomic.                 *)
(***************************************************************************)
EXTENDS Naturals

CONSTANTS
    Path,       \* path keys
    Ino,        \* inode numbers, handed out by the idx bucket's sequence
    Sig,        \* signatures and content hashes
    NoPath,
    NoNode

ASSUME AbsentAssumption ==
    /\ NoPath \notin Path
    /\ \A n \in [ino : Ino, path : Path, sig : Sig, hash : Sig] : n # NoNode

\* The persistent fields of node_t that survive Encode and Decode.
DbNode == [ino : Ino, path : Path, sig : Sig, hash : Sig]

Db == [idx : [Ino -> Path \cup {NoPath}], cat : [Path -> DbNode \cup {NoNode}]]

EmptyDb == [idx |-> [i \in Ino |-> NoPath], cat |-> [k \in Path |-> NoNode]]

Get(db, k) == db.cat[k]

\* A key that is not in cat has no node, whatever idx says.
GetWithIno(db, i) == IF db.idx[i] \in Path THEN Get(db, db.idx[i]) ELSE NoNode

\* node.Put(tx, k) for a node that is not nil.
PutNode(db, n, k) ==
    [idx |-> [db.idx EXCEPT ![n.ino] = k], cat |-> [db.cat EXCEPT ![k] = n]]

\* PutNode of each pair of a key and a node in N; the keys and the inode
\* numbers of N are different.
PutAll(db, N) ==
    [idx |-> [i \in Ino |-> IF \E e \in N : e[2].ino = i
                           THEN (CHOOSE e \in N : e[2].ino = i)[1] ELSE db.idx[i]],
     cat |-> [k \in Path |-> IF \E e \in N : e[1] = k
                            THEN (CHOOSE e \in N : e[1] = k)[2] ELSE db.cat[k]]]

\* Mutant: the index entry stays.
DeleteKey(db, k) == [db EXCEPT !.cat[k] = NoNode]

\* (*node_t)(nil).Put(tx, k): delete the key and the index entry of its node.
DeleteNode(db, k) ==
    IF Get(db, k) = NoNode THEN db
    ELSE [idx |-> [db.idx EXCEPT ![Get(db, k).ino] = NoPath],
          cat |-> [db.cat EXCEPT ![k] = NoNode]]

\* Mutant: the node moves and keeps its old path.
RenameKey(db, k, newk, newpath) ==
    IF Get(db, k) = NoNode THEN db
    ELSE PutNode(DeleteNode(DeleteNode(db, k), newk), Get(db, k), newk)

\* One turn of the loop in the transaction of renameNode: the node of one key
\* moves to another, and its path is changed.
RenameNode(db, k, newk, newpath) ==
    IF Get(db, k) = NoNode THEN db
    ELSE PutNode(DeleteNode(DeleteNode(db, k), newk),
                 [Get(db, k) EXCEPT !.path = newpath], newk)

-----------------------------------------------------------------------------

\* The two buckets describe the same files: every catalogued node is found
\* through its own inode number, and every index entry leads to the node that
\* carries that number.
Consistent(db) ==
    /\ \A k \in Path : Get(db, k) # NoNode => db.idx[Get(db, k).ino] = k
    /\ \A i \in Ino : db.idx[i] # NoPath =>
        GetWithIno(db, i) # NoNode /\ GetWithIno(db, i).ino = i
=============================================================================
