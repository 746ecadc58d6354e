-------------------------------- MODULE Tree --------------------------------
(***************************************************************************)
(* The catalog of cache/node.go as a tree: path keys are sequences of      *)
(* names, and renameNode, removeNode and readdirNode of cache/cache.go     *)
(* visit the keys below a directory with a cursor over the cat bucket.     *)
(*                                                                         *)
(* All names of an instance have the same length, so that the number of    *)
(* names in a key orders keys by length.                                   *)
(***************************************************************************)
EXTENDS Naturals, Sequences, NodeDb

LOCAL INSTANCE SequencesExt

CONSTANT KeyOrder   \* the path keys in the byte order of the database cursor

Root == <<>>

\* pathKeyHasPrefix: key a is key b or below it.
pathKeyHasPrefix(a, b) == IsPrefix(b, a)

Parent(p) == SubSeq(p, 1, Len(p) - 1)

ChildOf(p, d) == p # Root /\ Parent(p) = d

\* newpath + path[len(oldpath):]
Rebase(p, old, new) == new \o SubSeq(p, Len(old) + 1, Len(p))

\* A function on paths after the subtree of old has become the one of new.
MoveTree(f, old, new) ==
    [p \in Path |->
        IF pathKeyHasPrefix(p, new) /\ Rebase(p, new, old) \in Path
        THEN f[Rebase(p, new, old)]
        ELSE IF pathKeyHasPrefix(p, old) THEN 0 ELSE f[p]]

\* The elements of s that are in T, in the order of s.
Sift(s, T) ==
    LET sifted[n \in 0..Len(s)] ==
            IF n = 0 THEN <<>>
            ELSE IF s[n] \in T THEN Append(sifted[n - 1], s[n]) ELSE sifted[n - 1]
    IN sifted[Len(s)]

\* The keys from k on.
From(k) == {KeyOrder[n] : n \in {m \in DOMAIN KeyOrder : \E l \in 1..m : KeyOrder[l] = k}}

\* The keys that a cursor visits from Seek(k) on, as long as they have the
\* prefix k.  The byte order puts "/a.b" between "/a" and "/a/x", where the
\* visit of "/a" ends if "/a.b" is catalogued.
KeysBelow(db, k) ==
    LET keys == Sift(KeyOrder, {p \in From(k) : Get(db, p) # NoNode})
        kept == {n \in 0..Len(keys) : \A m \in 1..n : pathKeyHasPrefix(keys[m], k)}
    IN SubSeq(keys, 1, CHOOSE n \in kept : \A m \in kept : m <= n)

\* What readdirNode returns for a directory whose listing is cached.
Listing(db, k) ==
    LET keys == KeysBelow(db, k)
    IN {keys[n] : n \in {m \in DOMAIN keys : Len(keys[m]) = Len(k) + 1}}

\* bolt keeps a reference to a value until the transaction commits, and
\* renameNode builds every new key in one buffer, which it replaces only when
\* a key does not fit.  The index entry of the j-th key therefore ends up with
\* what later keys have written over it in the same buffer.
BufferEnd(keys, j) ==
    CHOOSE e \in j..Len(keys) :
        /\ \A m \in j..e : \E l \in 1..j : Len(keys[m]) <= Len(keys[l])
        /\ e < Len(keys) => \A l \in 1..j : Len(keys[e + 1]) > Len(keys[l])

IndexValue(keys, j) ==
    [n \in 1..Len(keys[j]) |->
        LET writers == {m \in j..BufferEnd(keys, j) : Len(keys[m]) >= n}
        IN keys[CHOOSE m \in writers : \A l \in writers : l <= m][n]]

\* The transaction of renameNode: the nodes of the keys that the cursor visits
\* move to the new keys, one after the other, and their paths are rebased.
RenameTree(db, k, newk) ==
    LET keys == KeysBelow(db, k)
        newkeys == [j \in DOMAIN keys |-> Rebase(keys[j], k, newk)]
        newpaths == [j \in DOMAIN keys |-> Rebase(Get(db, keys[j]).path, k, newk)]
        moved[n \in 0..Len(keys)] ==
            IF n = 0 THEN db
            ELSE RenameNode(moved[n - 1], keys[n], newkeys[n], newpaths[n])
        position(i) == {j \in DOMAIN keys : Get(db, keys[j]).ino = i}
        last == moved[Len(keys)]
    IN [idx |-> [i \in Ino |-> IF position(i) = {} THEN last.idx[i]
                               ELSE IndexValue(newkeys, CHOOSE j \in position(i) :
                                        \A l \in position(i) : l <= j)],
        cat |-> last.cat]
=============================================================================
