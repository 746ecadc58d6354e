---------------------------- MODULE CacheProofs -----------------------------
(***************************************************************************)
(* Theorems about Cache: whatever the requests, their interleaving, the    *)
(* faults and the crashes, openmap counts every handle and every request   *)
(* in progress; and without renames, an inode is on one list at most, and  *)
(* once.  First, which updates of the node database keep its two buckets   *)
(* consistent.                                                             *)
(***************************************************************************)
EXTENDS Cache, FiniteSetTheorems, SequenceTheorems, LinkProofs

-----------------------------------------------------------------------------
(* The node database: b is any database *)

\* The updates keep the type of a database.
LEMMA UpdateTypes ==
    ASSUME NEW b \in Db
    PROVE  /\ \A n \in DbNode, k \in Path : PutNode(b, n, k) \in Db
           /\ \A k \in Path : DeleteNode(b, k) \in Db
<1>1. b.idx \in [Ino -> Path \cup {NoPath}] /\ b.cat \in [Path -> DbNode \cup {NoNode}]
  BY DEF Db
<1>2. \A n \in DbNode, k \in Path : PutNode(b, n, k) \in Db
  BY <1>1 DEF PutNode, Db, DbNode
<1>3. \A k \in Path : DeleteNode(b, k) \in Db
  BY <1>1 DEF DeleteNode, Db, DbNode, Get
<1> QED BY <1>2, <1>3

\* Deleting a key always keeps the buckets consistent.
THEOREM DeleteKeepsConsistent ==
    ASSUME NEW b \in Db, NEW k \in Path, Consistent(b)
    PROVE  Consistent(DeleteNode(b, k))
<1>1. b.idx \in [Ino -> Path \cup {NoPath}] /\ b.cat \in [Path -> DbNode \cup {NoNode}]
  BY DEF Db
<1>2. CASE Get(b, k) = NoNode
  BY <1>2 DEF DeleteNode
<1>3. CASE Get(b, k) # NoNode
  <2> DEFINE d == DeleteNode(b, k)
             x == Get(b, k).ino
  <2>1. /\ d.idx = [b.idx EXCEPT ![x] = NoPath]
        /\ d.cat = [b.cat EXCEPT ![k] = NoNode]
    BY <1>3 DEF DeleteNode
  <2>2. x \in Ino /\ b.idx[x] = k
    BY <1>1, <1>3 DEF Get, DbNode, Consistent
  <2> HIDE DEF d, x
  <2>3. ASSUME NEW q \in Path, Get(d, q) # NoNode
        PROVE  d.idx[Get(d, q).ino] = q
    <3>1. q # k /\ Get(d, q) = Get(b, q)
      BY <2>1, <2>3, <1>1 DEF Get
    <3>2. b.idx[Get(b, q).ino] = q /\ Get(b, q).ino \in Ino
      BY <3>1, <2>3, <1>1 DEF Consistent, Get, DbNode
    <3> QED BY <3>1, <3>2, <2>1, <2>2, <1>1
  <2>4. ASSUME NEW i \in Ino, d.idx[i] # NoPath
        PROVE  GetWithIno(d, i) # NoNode /\ GetWithIno(d, i).ino = i
    <3>1. i # x /\ d.idx[i] = b.idx[i]
      BY <2>1, <2>2, <2>4, <1>1
    <3>2. GetWithIno(b, i) # NoNode /\ GetWithIno(b, i).ino = i
      BY <3>1, <2>4 DEF Consistent
    <3>3. b.idx[i] # k
      BY <3>1, <3>2, <2>4 DEF GetWithIno, x
    <3> QED BY <3>1, <3>2, <3>3, <2>1, <2>4, <1>1 DEF GetWithIno, Get
  <2> QED BY <2>3, <2>4 DEF Consistent, d
<1> QED BY <1>2, <1>3

\* Storing a node keeps them consistent if its inode number is new or belongs
\* to that key, and the key is free or belongs to that inode number.
THEOREM PutKeepsConsistent ==
    ASSUME NEW b \in Db, NEW n \in DbNode, NEW k \in Path, Consistent(b),
           b.idx[n.ino] \in {NoPath, k},
           Get(b, k) = NoNode \/ Get(b, k).ino = n.ino
    PROVE  Consistent(PutNode(b, n, k))
<1> DEFINE d == PutNode(b, n, k)
<1>1. /\ b.idx \in [Ino -> Path \cup {NoPath}]
      /\ b.cat \in [Path -> DbNode \cup {NoNode}]
      /\ n.ino \in Ino /\ n # NoNode /\ k # NoPath
  BY AbsentAssumption DEF Db, DbNode
<1>2. /\ d.idx = [b.idx EXCEPT ![n.ino] = k]
      /\ d.cat = [b.cat EXCEPT ![k] = n]
  BY DEF PutNode
<1> HIDE DEF d
<1>3. ASSUME NEW q \in Path, Get(d, q) # NoNode
      PROVE  d.idx[Get(d, q).ino] = q
  <2>1. CASE q = k
    BY <2>1, <1>1, <1>2 DEF Get
  <2>2. CASE q # k
    <3>1. Get(d, q) = Get(b, q) /\ Get(b, q).ino \in Ino /\ b.idx[Get(b, q).ino] = q
      BY <2>2, <1>1, <1>2, <1>3 DEF Get, Consistent, DbNode
    <3>2. Get(b, q).ino # n.ino
      BY <3>1, <2>2, AbsentAssumption
    <3> QED BY <3>1, <3>2, <1>1, <1>2
  <2> QED BY <2>1, <2>2
<1>4. ASSUME NEW i \in Ino, d.idx[i] # NoPath
      PROVE  GetWithIno(d, i) # NoNode /\ GetWithIno(d, i).ino = i
  <2>1. CASE i = n.ino
    BY <2>1, <1>1, <1>2 DEF GetWithIno, Get
  <2>2. CASE i # n.ino
    <3>1. d.idx[i] = b.idx[i]
      BY <2>2, <1>1, <1>2
    <3>2. GetWithIno(b, i) # NoNode /\ GetWithIno(b, i).ino = i
      BY <3>1, <1>4 DEF Consistent
    <3>3. b.idx[i] # k
      BY <3>1, <3>2, <2>2, <1>4 DEF GetWithIno
    <3> QED BY <3>1, <3>2, <3>3, <1>1, <1>2, <1>4 DEF GetWithIno, Get
  <2> QED BY <2>1, <2>2
<1> QED BY <1>3, <1>4 DEF Consistent, d

\* Moving the node of one key to another keeps the buckets consistent, whether or
\* not the new key was in use.  The transaction does this for every key of a
\* subtree, but the index entries that it leaves share a buffer (line 787), so
\* that the same cannot be said of RenameTree.
THEOREM RenameKeepsConsistent ==
    ASSUME NEW b \in Db, NEW k \in Path, NEW newk \in Path, NEW newpath \in Path,
           Consistent(b)
    PROVE  Consistent(RenameNode(b, k, newk, newpath))
<1>1. CASE Get(b, k) = NoNode
  BY <1>1 DEF RenameNode
<1>2. CASE Get(b, k) # NoNode
  <2> DEFINE n == [Get(b, k) EXCEPT !.path = newpath]
             d1 == DeleteNode(b, k)
             d2 == DeleteNode(d1, newk)
  <2>1. Get(b, k) \in DbNode
    BY <1>2 DEF Get, Db
  <2>2. n \in DbNode /\ n.ino = Get(b, k).ino
    BY <2>1 DEF DbNode
  <2>3. d1 \in Db /\ Consistent(d1)
    BY UpdateTypes, DeleteKeepsConsistent
  <2>4. d2 \in Db /\ Consistent(d2)
    BY <2>3, UpdateTypes, DeleteKeepsConsistent
  <2>5. d1.idx[n.ino] = NoPath
    BY <1>2, <2>1, <2>2 DEF DeleteNode, Db, DbNode
  <2>6. d2.idx[n.ino] = NoPath
    BY <2>2, <2>3, <2>5 DEF DeleteNode, Db, DbNode, Get
  <2>7. Get(d2, newk) = NoNode
    BY <2>3 DEF DeleteNode, Db, Get
  <2>8. RenameNode(b, k, newk, newpath) = PutNode(d2, n, newk)
    BY <1>2 DEF RenameNode
  <2> HIDE DEF n, d1, d2
  <2> QED BY <2>2, <2>4, <2>6, <2>7, <2>8, PutKeepsConsistent
<1> QED BY <1>1, <1>2

-----------------------------------------------------------------------------
(* Shapes: which fields nodes and requests have, whatever their values *)

\* n is a node_t.
IsNode(n) ==
    n = [ino |-> n.ino, path |-> n.path, sig |-> n.sig, hash |-> n.hash,
         valid |-> n.valid, deleted |-> n.deleted, fd |-> n.fd, ref |-> n.ref]

\* n is what the database keeps of a node.
IsDbNode(n) == n = [ino |-> n.ino, path |-> n.path, sig |-> n.sig, hash |-> n.hash]

\* r is the state of a request.
IsRequest(r) ==
    r = [pc |-> r.pc, op |-> r.op, path |-> r.path, to |-> r.to,
         ino |-> r.ino, node |-> r.node, key |-> r.key]

-----------------------------------------------------------------------------
(* The inductive invariant *)

\* Every catalogued node carries an inode number that was handed out.
CatalogTyped(d) ==
    /\ DOMAIN d.cat = Path
    /\ \A p \in Path : Get(d, p) # NoNode => IsDbNode(Get(d, p)) /\ Get(d, p).ino \in Ino

\* openmap is a map from inode numbers to referenced nodes that carry them.
OpenTyped ==
    /\ open = [i \in Ino |-> open[i]]
    /\ \A i \in Ino : open[i] # NoNode =>
        IsNode(open[i]) /\ open[i].ino = i /\ open[i].ref \in Nat \ {0}

\* What the request of client c knows at each of its steps: the node it is
\* about to enter in openmap, or the node it has taken out, and by which
\* reference it may use the node of its inode in between.
RequestTyped(c) ==
    LET r == req[c] IN
    /\ IsRequest(r)
    /\ r.pc \in {"insert", "key", "cs", "close", "closing", "touch"} => r.ino \in Ino
    /\ r.pc \in {"insert", "close"} => r.op \in PathOps
    /\ r.pc \in {"key", "cs"} /\ r.op \notin PathOps => fh[c] = r.ino
    /\ r.pc \in {"insert", "closing"} => IsNode(r.node) /\ r.node.ino = r.ino
    /\ r.pc = "insert" => r.node.ref = 0

\* The references that openmap has counted.
Counted(i) == IF open[i] = NoNode THEN 0 ELSE open[i].ref

\* Every reference is counted.
CountInv == \A i \in Ino : References(i) <= Counted(i)

\* The invariant: types as far as the count needs them, and the count.
HandleInv ==
    /\ CatalogTyped(db)
    /\ nextIno \in Nat \ {0}
    /\ OpenTyped
    /\ req = [c \in Client |-> req[c]]
    /\ fh \in [Client -> Ino \cup {0}]
    /\ \A c \in Client : RequestTyped(c)
    /\ CountInv

-----------------------------------------------------------------------------
(* Induction and recursion over sequences *)

\* f is the function that Sift computes, up to the n-th element of s.
SiftsTo(s, T, n, f) ==
    f = [m \in 0..n |->
        IF m = 0 THEN <<>> ELSE IF s[m] \in T THEN Append(f[m - 1], s[m]) ELSE f[m - 1]]

\* Its values.
LEMMA SiftsAt ==
    ASSUME NEW s, NEW T, NEW n \in Nat, NEW f, SiftsTo(s, T, n, f)
    PROVE  /\ f[0] = <<>>
           /\ \A m \in 1..n :
                f[m] = IF s[m] \in T THEN Append(f[m - 1], s[m]) ELSE f[m - 1]
<1>1. f[0] = <<>>
  BY DEF SiftsTo
<1>2. ASSUME NEW m \in 1..n
      PROVE  f[m] = IF s[m] \in T THEN Append(f[m - 1], s[m]) ELSE f[m - 1]
  <2>1. m \in 0..n /\ m # 0
    OBVIOUS
  <2> QED BY <2>1 DEF SiftsTo
<1> QED BY <1>1, <1>2

\* There is such a function.
LEMMA SiftedExists ==
    ASSUME NEW s, NEW T, NEW n \in Nat
    PROVE  \E f : SiftsTo(s, T, n, f)
<1> DEFINE S == {m \in Nat : \E f : SiftsTo(s, T, m, f)}
<1>1. 0 \in S
  <2>1. SiftsTo(s, T, 0, [m \in 0..0 |-> <<>>])
    BY DEF SiftsTo
  <2> QED BY <2>1
<1>2. ASSUME NEW m \in Nat, m \in S PROVE m + 1 \in S
  <2>1. PICK f : SiftsTo(s, T, m, f)
    BY <1>2
  <2> HIDE DEF S
  <2>4. /\ f[0] = <<>>
        /\ \A k \in 1..m :
                f[k] = IF s[k] \in T THEN Append(f[k - 1], s[k]) ELSE f[k - 1]
    BY <2>1, SiftsAt
  <2> DEFINE g == [l \in 0..m + 1 |->
                IF l = m + 1 THEN (IF s[m + 1] \in T THEN Append(f[m], s[m + 1]) ELSE f[m])
                ELSE f[l]]
  <2>2. ASSUME NEW l \in 0..m + 1
        PROVE  g[l] = IF l = 0 THEN <<>>
                      ELSE IF s[l] \in T THEN Append(g[l - 1], s[l]) ELSE g[l - 1]
    <3>1. CASE l = m + 1
      <4>1. g[l - 1] = f[m]
        BY <3>1
      <4> QED BY <3>1, <4>1
    <3>2. CASE l \in 0..m
      <4>1. g[l] = f[l] /\ (l # 0 => l \in 1..m /\ g[l - 1] = f[l - 1])
        BY <3>2
      <4> HIDE DEF g
      <4> QED BY <2>4, <4>1
    <3> QED BY <3>1, <3>2
  <2>3. SiftsTo(s, T, m + 1, g)
    <3>1. g = [l \in 0..m + 1 |-> g[l]]
      OBVIOUS
    <3> HIDE DEF g
    <3> QED BY <3>1, <2>2 DEF SiftsTo
  <2> QED BY <2>3 DEF S
<1> HIDE DEF S
<1>3. n \in S
  BY <1>1, <1>2, Induction
<1> QED BY <1>3 DEF S

\* Sift takes the elements of T out of a list, each of them once.
LEMMA SiftProps ==
    ASSUME NEW S, NEW s \in Seq(S), Distinct(s), NEW T
    PROVE  /\ Sift(s, T) \in Seq(S)
           /\ Distinct(Sift(s, T))
           /\ Elems(Sift(s, T)) = Elems(s) \cap T
<1>1. Len(s) \in Nat /\ DOMAIN s = 1..Len(s)
  OBVIOUS
<1> DEFINE f == CHOOSE g : SiftsTo(s, T, Len(s), g)
<1>2. SiftsTo(s, T, Len(s), f)
  BY <1>1, SiftedExists
<1>3. Sift(s, T) = f[Len(s)]
  BY Zenon DEF Sift, SiftsTo
<1> HIDE DEF f
<1>4. f[0] = <<>>
  BY <1>1, <1>2, SiftsAt
<1>5. ASSUME NEW m \in 1..Len(s)
      PROVE  f[m] = IF s[m] \in T THEN Append(f[m - 1], s[m]) ELSE f[m - 1]
  BY <1>1, <1>2, SiftsAt
<1> DEFINE First(m) == {s[l] : l \in 1..m}
           Good(m) == /\ f[m] \in Seq(S)
                      /\ Distinct(f[m])
                      /\ Elems(f[m]) = First(m) \cap T
           G == {m \in Nat : m <= Len(s) => Good(m)}
<1>6. 0 \in G
  <2>1. Good(0)
    BY <1>4 DEF Distinct, Elems
  <2> QED BY <2>1
<1>7. ASSUME NEW m \in Nat, m \in G PROVE m + 1 \in G
  <2>1. SUFFICES ASSUME m + 1 <= Len(s) PROVE Good(m + 1)
    OBVIOUS
  <2>2. Good(m)
    BY <1>1, <1>7, <2>1
  <2>3. m + 1 \in 1..Len(s) /\ (m + 1) - 1 = m /\ s[m + 1] \in S
    BY <1>1, <2>1
  <2>4. f[m + 1] = IF s[m + 1] \in T THEN Append(f[m], s[m + 1]) ELSE f[m]
    BY <1>5, <2>3
  <2>5. First(m + 1) = First(m) \cup {s[m + 1]}
    <3>1. 1..m + 1 = 1..m \cup {m + 1}
      OBVIOUS
    <3> QED BY <3>1
  <2>6. s[m + 1] \notin First(m)
    BY <1>1, <2>3 DEF Distinct
  <2>7. CASE s[m + 1] \in T
    <3>1. f[m + 1] = InsertTail(f[m], s[m + 1])
      BY <2>4, <2>7 DEF InsertTail
    <3>2. s[m + 1] \notin Elems(f[m])
      BY <2>2, <2>6
    <3> HIDE DEF First
    <3> QED BY <2>2, <2>3, <2>5, <2>7, <3>1, <3>2, InsertTailProps
  <2>8. CASE s[m + 1] \notin T
    <3> HIDE DEF First
    <3> QED BY <2>2, <2>4, <2>5, <2>8
  <2> QED BY <2>7, <2>8
<1>8. Len(s) \in G
  <2> HIDE DEF G
  <2> QED BY <1>1, <1>6, <1>7, Induction
<1>9. Good(Len(s))
  BY <1>1, <1>8
<1>10. First(Len(s)) = Elems(s)
  BY <1>1 DEF Elems
<1> QED BY <1>3, <1>9, <1>10

\* The keys that a cursor visits are keys of the catalog, each of them once.
LEMMA KeysBelowProps ==
    ASSUME NEW d, NEW k
    PROVE  /\ KeysBelow(d, k) \in Seq(Path)
           /\ \A n \in DOMAIN KeysBelow(d, k) : Get(d, KeysBelow(d, k)[n]) # NoNode
<1> DEFINE T == {p \in From(k) : Get(d, p) # NoNode}
           keys == Sift(KeyOrder, T)
           kept == {n \in 0..Len(keys) : \A m \in 1..n : pathKeyHasPrefix(keys[m], k)}
           last == CHOOSE n \in kept : \A m \in kept : m <= n
<1>1. keys \in Seq(Path) /\ Elems(keys) \subseteq T
  <2> HIDE DEF T
  <2> QED BY CacheAssumption, SiftProps
<1>2. KeysBelow(d, k) = SubSeq(keys, 1, last)
  BY DEF KeysBelow
<1> HIDE DEF keys
<1>3. last \in 0..Len(keys)
  <2>1. 0 \in kept /\ kept \in SUBSET (0..Len(keys)) /\ Len(keys) \in Nat
    BY <1>1
  <2>2. \E n \in kept : \A m \in kept : m <= n
    <3> HIDE DEF kept
    <3> QED BY <2>1, GreatestUpTo
  <2>3. last \in kept
    BY <2>2
  <2> QED BY <2>1, <2>3
<1> HIDE DEF last
<1>4. SubSeq(keys, 1, last) \in Seq(Path) /\ DOMAIN SubSeq(keys, 1, last) = 1..last
  BY <1>1, <1>3
<1>5. ASSUME NEW n \in 1..last PROVE Get(d, SubSeq(keys, 1, last)[n]) # NoNode
  <2>1. SubSeq(keys, 1, last)[n] = keys[n] /\ n \in DOMAIN keys
    BY <1>1, <1>3
  <2>2. keys[n] \in T
    BY <1>1, <2>1 DEF Elems
  <2> QED BY <2>1, <2>2
<1> QED BY <1>2, <1>4, <1>5

-----------------------------------------------------------------------------
(* The catalog *)

\* Storing a node that carries an inode number keeps the catalog typed, be the
\* key one of the instance or not.
LEMMA PutTyped ==
    ASSUME NEW d, CatalogTyped(d), NEW n, IsDbNode(n), n.ino \in Ino, NEW k
    PROVE  CatalogTyped(PutNode(d, n, k))
<1>1. PutNode(d, n, k).cat = [d.cat EXCEPT ![k] = n]
  BY DEF PutNode
<1> QED BY <1>1 DEF CatalogTyped, Get

\* Deleting a key keeps it typed.
LEMMA DeleteTyped ==
    ASSUME NEW d, CatalogTyped(d), NEW k
    PROVE  CatalogTyped(DeleteNode(d, k))
<1>1. DeleteNode(d, k).cat = d.cat \/ DeleteNode(d, k).cat = [d.cat EXCEPT ![k] = NoNode]
  BY DEF DeleteNode
<1> QED BY <1>1 DEF CatalogTyped, Get

\* A node of the catalog that gets another path keeps its inode number.
LEMMA RenameTyped ==
    ASSUME NEW d, CatalogTyped(d), NEW k \in Path, NEW q, NEW r
    PROVE  CatalogTyped(RenameNode(d, k, q, r))
<1>1. CASE Get(d, k) = NoNode
  BY <1>1 DEF RenameNode
<1>2. CASE Get(d, k) # NoNode
  <2> DEFINE e == DeleteNode(DeleteNode(d, k), q)
             n == [Get(d, k) EXCEPT !.path = r]
  <2>1. CatalogTyped(e)
    BY DeleteTyped
  <2>2. IsDbNode(Get(d, k)) /\ Get(d, k).ino \in Ino
    BY <1>2 DEF CatalogTyped
  <2>3. IsDbNode(n) /\ n.ino \in Ino
    BY <2>2 DEF IsDbNode
  <2>4. RenameNode(d, k, q, r) = PutNode(e, n, q)
    BY <1>2 DEF RenameNode
  <2> HIDE DEF e, n
  <2> QED BY <2>1, <2>3, <2>4, PutTyped
<1> QED BY <1>1, <1>2

\* Storing several nodes that carry inode numbers keeps the catalog typed.
LEMMA PutAllTyped ==
    ASSUME NEW d, CatalogTyped(d), NEW N,
           \A e \in N : IsDbNode(e[2]) /\ e[2].ino \in Ino
    PROVE  CatalogTyped(PutAll(d, N))
<1> DEFINE cat == [k \in Path |-> IF \E e \in N : e[1] = k
                                 THEN (CHOOSE e \in N : e[1] = k)[2] ELSE d.cat[k]]
<1>1. PutAll(d, N).cat = cat
  BY DEF PutAll
<1>2. ASSUME NEW k \in Path, cat[k] # NoNode PROVE IsDbNode(cat[k]) /\ cat[k].ino \in Ino
  <2>1. CASE \E e \in N : e[1] = k
    <3>1. (CHOOSE e \in N : e[1] = k) \in N
      BY <2>1
    <3>2. cat[k] = (CHOOSE e \in N : e[1] = k)[2]
      BY <2>1
    <3> QED BY <3>1, <3>2
  <2>2. CASE ~\E e \in N : e[1] = k
    <3>1. cat[k] = d.cat[k]
      BY <2>2
    <3> QED BY <1>2, <3>1 DEF CatalogTyped, Get
  <2> QED BY <2>1, <2>2
<1>3. DOMAIN cat = Path
  OBVIOUS
<1> HIDE DEF cat
<1> QED BY <1>1, <1>2, <1>3 DEF CatalogTyped, Get

\* f is the function that RenameTree computes, up to the n-th key.
MovesTo(d, keys, newkeys, newpaths, n, f) ==
    f = [m \in 0..n |-> IF m = 0 THEN d
                        ELSE RenameNode(f[m - 1], keys[m], newkeys[m], newpaths[m])]

\* Its values.
LEMMA MovesAt ==
    ASSUME NEW d, NEW keys, NEW newkeys, NEW newpaths, NEW n \in Nat, NEW f,
           MovesTo(d, keys, newkeys, newpaths, n, f)
    PROVE  /\ f[0] = d
           /\ \A m \in 1..n : f[m] = RenameNode(f[m - 1], keys[m], newkeys[m], newpaths[m])
<1>1. f[0] = d
  BY DEF MovesTo
<1>2. ASSUME NEW m \in 1..n PROVE f[m] = RenameNode(f[m - 1], keys[m], newkeys[m], newpaths[m])
  <2>1. m \in 0..n /\ m # 0
    OBVIOUS
  <2> QED BY <2>1 DEF MovesTo
<1> QED BY <1>1, <1>2

\* There is such a function.
LEMMA MovesExists ==
    ASSUME NEW d, NEW keys, NEW newkeys, NEW newpaths, NEW n \in Nat
    PROVE  \E f : MovesTo(d, keys, newkeys, newpaths, n, f)
<1> DEFINE S == {m \in Nat : \E f : MovesTo(d, keys, newkeys, newpaths, m, f)}
<1>1. 0 \in S
  <2>1. MovesTo(d, keys, newkeys, newpaths, 0, [m \in 0..0 |-> d])
    BY DEF MovesTo
  <2> QED BY <2>1
<1>2. ASSUME NEW m \in Nat, m \in S PROVE m + 1 \in S
  <2>1. PICK f : MovesTo(d, keys, newkeys, newpaths, m, f)
    BY <1>2
  <2> HIDE DEF S
  <2>4. /\ f[0] = d
        /\ \A k \in 1..m : f[k] = RenameNode(f[k - 1], keys[k], newkeys[k], newpaths[k])
    BY <2>1, MovesAt
  <2> DEFINE g == [l \in 0..m + 1 |->
                IF l = m + 1 THEN RenameNode(f[m], keys[m + 1], newkeys[m + 1], newpaths[m + 1])
                ELSE f[l]]
  <2>2. ASSUME NEW l \in 0..m + 1
        PROVE  g[l] = IF l = 0 THEN d
                      ELSE RenameNode(g[l - 1], keys[l], newkeys[l], newpaths[l])
    <3>1. CASE l = m + 1
      <4>1. g[l - 1] = f[m] /\ l # 0
        BY <3>1
      <4> QED BY <3>1, <4>1
    <3>2. CASE l \in 0..m
      <4>1. g[l] = f[l] /\ (l # 0 => l \in 1..m /\ g[l - 1] = f[l - 1])
        BY <3>2
      <4> HIDE DEF g
      <4> QED BY <2>4, <4>1
    <3> QED BY <3>1, <3>2
  <2>3. MovesTo(d, keys, newkeys, newpaths, m + 1, g)
    <3>1. g = [l \in 0..m + 1 |-> g[l]]
      OBVIOUS
    <3> HIDE DEF g
    <3> QED BY <3>1, <2>2 DEF MovesTo
  <2> QED BY <2>3 DEF S
<1> HIDE DEF S
<1>3. n \in S
  BY <1>1, <1>2, Induction
<1> QED BY <1>3 DEF S

\* The transaction of renameNode keeps the catalog typed, however many keys it
\* moves and whatever becomes of their index entries.
LEMMA RenameTreeTyped ==
    ASSUME NEW d, CatalogTyped(d), NEW k, NEW q
    PROVE  CatalogTyped(RenameTree(d, k, q))
<1> DEFINE keys == KeysBelow(d, k)
           newkeys == [j \in DOMAIN keys |-> Rebase(keys[j], k, q)]
           newpaths == [j \in DOMAIN keys |-> Rebase(Get(d, keys[j]).path, k, q)]
           f == CHOOSE g : MovesTo(d, keys, newkeys, newpaths, Len(keys), g)
<1>1. keys \in Seq(Path)
  BY KeysBelowProps
<1>2. RenameTree(d, k, q).cat = f[Len(keys)].cat
  BY DEF RenameTree, MovesTo
<1> HIDE DEF keys, newkeys, newpaths
<1>3. Len(keys) \in Nat /\ \A m \in 1..Len(keys) : keys[m] \in Path
  BY <1>1
<1>4. MovesTo(d, keys, newkeys, newpaths, Len(keys), f)
  BY <1>3, MovesExists
<1> HIDE DEF f
<1> DEFINE G == {m \in Nat : m <= Len(keys) => CatalogTyped(f[m])}
<1>5. 0 \in G
  <2>1. f[0] = d
    BY <1>3, <1>4, MovesAt
  <2> QED BY <2>1
<1>6. ASSUME NEW m \in Nat, m \in G PROVE m + 1 \in G
  <2>1. SUFFICES ASSUME m + 1 <= Len(keys) PROVE CatalogTyped(f[m + 1])
    OBVIOUS
  <2>2. CatalogTyped(f[m])
    BY <1>3, <1>6, <2>1
  <2>3. m + 1 \in 1..Len(keys) /\ (m + 1) - 1 = m /\ keys[m + 1] \in Path
    BY <1>3, <2>1
  <2>4. f[m + 1] = RenameNode(f[m], keys[m + 1], newkeys[m + 1], newpaths[m + 1])
    BY <1>3, <1>4, <2>3, MovesAt
  <2> QED BY <2>2, <2>3, <2>4, RenameTyped
<1>7. Len(keys) \in G
  <2> HIDE DEF G
  <2> QED BY <1>3, <1>5, <1>6, Induction
<1>8. CatalogTyped(f[Len(keys)])
  BY <1>3, <1>7
<1> QED BY <1>2, <1>8 DEF CatalogTyped, Get

-----------------------------------------------------------------------------
(* Open nodes *)

\* m is the node n with other content: it carries the same inode number and
\* has as many references.
SameNode(m, n) == IsNode(m) /\ m.ino = n.ino /\ m.ref = n.ref

\* What the sections do to a node keeps its inode number and its references.
LEMMA NodeUpdates ==
    ASSUME NEW n, IsNode(n), NEW x, NEW y
    PROVE  /\ SameNode(n, n)
           /\ SameNode([n EXCEPT !.path = x], n)
           /\ SameNode([n EXCEPT !.deleted = x], n)
           /\ SameNode([n EXCEPT !.fd = x], n)
           /\ SameNode(CopyStat(n, x), n)
           /\ SameNode([CopyStat(n, x) EXCEPT !.hash = y], n)
           /\ SameNode(IoNode(n, x), n)
<1>1. SameNode(n, n)
  BY DEF SameNode
<1>2. SameNode([n EXCEPT !.path = x], n)
  BY DEF SameNode, IsNode
<1>3. SameNode([n EXCEPT !.deleted = x], n)
  BY DEF SameNode, IsNode
<1>4. ASSUME NEW m, IsNode(m), NEW z PROVE SameNode([m EXCEPT !.fd = z], m)
  BY <1>4 DEF SameNode, IsNode
<1>5. ASSUME NEW z PROVE SameNode(CopyStat(n, z), n)
  <2> DEFINE m == [n EXCEPT !.sig = z]
  <2>1. SameNode(m, n)
    BY DEF SameNode, IsNode
  <2>2. CopyStat(n, z) = [m EXCEPT !.valid = TRUE]
    BY DEF CopyStat
  <2> HIDE DEF m
  <2>3. ASSUME NEW b PROVE SameNode([m EXCEPT !.valid = b], m)
    BY <2>1 DEF SameNode, IsNode
  <2> QED BY <2>1, <2>2, <2>3 DEF SameNode
<1>6. ASSUME NEW m, IsNode(m), NEW z PROVE SameNode([m EXCEPT !.hash = z], m)
  BY <1>6 DEF SameNode, IsNode
<1>7. ASSUME NEW z, NEW w PROVE SameNode([CopyStat(n, z) EXCEPT !.hash = w], n)
  BY <1>5, <1>6 DEF SameNode
<1>8. SameNode(IoNode(n, x), n)
  <2> DEFINE m == [CopyStat(n, storage[n.path]) EXCEPT !.hash = x]
  <2>1. SameNode(m, n)
    BY <1>7
  <2>2. [CopyStat(n, storage[n.path]) EXCEPT !.hash = x, !.fd = "linked"]
            = [m EXCEPT !.fd = "linked"]
    OBVIOUS
  <2> HIDE DEF m
  <2>3. SameNode([m EXCEPT !.fd = "linked"], n)
    BY <1>4, <2>1 DEF SameNode
  <2>4. SameNode([n EXCEPT !.fd = "linked"], n)
    BY <1>4
  <2> QED BY <1>1, <2>2, <2>3, <2>4 DEF IoNode
<1> QED BY <1>1, <1>2, <1>3, <1>4, <1>5, <1>7, <1>8

\* The step changes at most the content of open nodes.
OpenKept ==
    /\ open' = [i \in Ino |-> open'[i]]
    /\ \A i \in Ino : IF open[i] = NoNode THEN open'[i] = NoNode
                      ELSE SameNode(open'[i], open[i])

\* A step that leaves openmap alone keeps its nodes.
LEMMA OpenUnchanged ==
    ASSUME OpenTyped, UNCHANGED open
    PROVE  OpenKept
BY DEF OpenTyped, OpenKept, SameNode

\* So does one that changes the content of one of them.
LEMMA OpenUpdate ==
    ASSUME OpenTyped, NEW i \in Ino, open[i] # NoNode, NEW m, SameNode(m, open[i]),
           open' = [open EXCEPT ![i] = m]
    PROVE  OpenKept
<1>1. DOMAIN open = Ino
  BY DEF OpenTyped
<1>2. open' = [j \in Ino |-> open'[j]]
  BY <1>1
<1>3. ASSUME NEW j \in Ino
      PROVE  IF open[j] = NoNode THEN open'[j] = NoNode ELSE SameNode(open'[j], open[j])
  <2>1. CASE j = i
    <3>1. open'[j] = m
      BY <1>1, <2>1
    <3> QED BY <2>1, <3>1
  <2>2. CASE j # i
    <3>1. open'[j] = open[j]
      BY <1>1, <2>2
    <3> QED BY <3>1 DEF OpenTyped, SameNode
  <2> QED BY <2>1, <2>2
<1> QED BY <1>2, <1>3 DEF OpenKept

\* Nodes that are kept are typed, and counted as before.
LEMMA KeptTyped ==
    ASSUME OpenTyped, OpenKept, ~IsNode(NoNode)
    PROVE  OpenTyped' /\ \A i \in Ino : Counted(i)' = Counted(i)
<1>1. ASSUME NEW i \in Ino
      PROVE  /\ open'[i] # NoNode =>
                    IsNode(open'[i]) /\ open'[i].ino = i /\ open'[i].ref \in Nat \ {0}
             /\ Counted(i)' = Counted(i)
  <2>1. CASE open[i] = NoNode
    BY <2>1 DEF OpenKept, Counted
  <2>2. CASE open[i] # NoNode
    <3>1. SameNode(open'[i], open[i])
      BY <2>2 DEF OpenKept
    <3>2. open'[i] # NoNode
      BY <3>1 DEF SameNode
    <3> QED BY <2>2, <3>1, <3>2 DEF OpenTyped, SameNode, Counted
  <2> QED BY <2>1, <2>2
<1>2. open' = [i \in Ino |-> open'[i]]
  BY DEF OpenKept
<1> QED BY <1>1, <1>2 DEF OpenTyped

-----------------------------------------------------------------------------
(* Counting *)

\* The clients whose handle is inode i.
Handles(i) == {c \in Client : fh[c] = i}

\* The clients whose request on a path has referenced inode i.
Requests(i) ==
    {c \in Client : req[c].pc \in {"key", "cs", "close"} /\ req[c].op \in PathOps /\ req[c].ino = i}

\* Cardinalities of sets of clients.
LEMMA ClientSets ==
    ASSUME NEW A \in SUBSET Client, NEW B \in SUBSET Client
    PROVE  /\ Cardinality(A) \in Nat
           /\ A \subseteq B => Cardinality(A) <= Cardinality(B)
           /\ \A c \in Client : B \subseteq A \cup {c} => Cardinality(B) <= Cardinality(A) + 1
           /\ \A c \in A : B \subseteq A \ {c} => Cardinality(B) + 1 <= Cardinality(A)
<1>1. IsFiniteSet(A) /\ IsFiniteSet(B)
  BY CacheAssumption, FS_Subset
<1>2. Cardinality(A) \in Nat /\ Cardinality(B) \in Nat
  BY <1>1, FS_CardinalityType
<1>3. A \subseteq B => Cardinality(A) <= Cardinality(B)
  BY <1>1, FS_Subset
<1>4. ASSUME NEW c \in Client, B \subseteq A \cup {c}
      PROVE  Cardinality(B) <= Cardinality(A) + 1
  <2>1. /\ IsFiniteSet(A \cup {c})
        /\ Cardinality(A \cup {c}) = IF c \in A THEN Cardinality(A) ELSE Cardinality(A) + 1
    BY <1>1, FS_AddElement
  <2>2. Cardinality(B) <= Cardinality(A \cup {c})
    BY <1>4, <2>1, FS_Subset
  <2> QED BY <1>2, <2>1, <2>2
<1>5. ASSUME NEW c \in A, B \subseteq A \ {c}
      PROVE  Cardinality(B) + 1 <= Cardinality(A)
  <2>1. /\ IsFiniteSet(A \ {c})
        /\ Cardinality(A \ {c}) = IF c \in A THEN Cardinality(A) - 1 ELSE Cardinality(A)
    BY <1>1, FS_RemoveElement
  <2>2. Cardinality(B) <= Cardinality(A \ {c})
    BY <1>5, <2>1, FS_Subset
  <2> QED BY <1>2, <2>1, <2>2
<1> QED BY <1>2, <1>3, <1>4, <1>5

\* The references of an inode, by the two sets.
LEMMA ReferencesAre ==
    ASSUME NEW i
    PROVE  /\ References(i) = Cardinality(Handles(i)) + Cardinality(Requests(i))
           /\ References(i)' = Cardinality(Handles(i)') + Cardinality(Requests(i)')
           /\ Cardinality(Handles(i)) \in Nat /\ Cardinality(Requests(i)) \in Nat
           /\ Cardinality(Handles(i)') \in Nat /\ Cardinality(Requests(i)') \in Nat
<1>1. /\ Handles(i) \in SUBSET Client /\ Requests(i) \in SUBSET Client
      /\ Handles(i)' \in SUBSET Client /\ Requests(i)' \in SUBSET Client
  BY DEF Handles, Requests
<1>2. /\ References(i) = Cardinality(Handles(i)) + Cardinality(Requests(i))
      /\ References(i)' = Cardinality(Handles(i)') + Cardinality(Requests(i)')
  BY DEF References, Handles, Requests
<1> QED BY <1>1, <1>2, ClientSets

\* If the counts stay and no reference is added, every reference is counted.
LEMMA CountKept ==
    ASSUME CountInv, OpenTyped, \A i \in Ino : Counted(i)' = Counted(i),
           \A i \in Ino : Handles(i)' \subseteq Handles(i) /\ Requests(i)' \subseteq Requests(i)
    PROVE  CountInv'
<1> SUFFICES ASSUME NEW i \in Ino PROVE References(i)' <= Counted(i)'
  BY DEF CountInv
<1>1. Handles(i) \in SUBSET Client /\ Requests(i) \in SUBSET Client
  BY DEF Handles, Requests
<1>2. Handles(i)' \in SUBSET Client /\ Requests(i)' \in SUBSET Client
  BY DEF Handles, Requests
<1>3. /\ Cardinality(Handles(i)') <= Cardinality(Handles(i))
      /\ Cardinality(Requests(i)') <= Cardinality(Requests(i))
  BY <1>1, <1>2, ClientSets
<1>4. References(i) <= Counted(i) /\ Counted(i) \in Nat
  BY DEF CountInv, Counted, OpenTyped
<1> QED BY <1>3, <1>4, ReferencesAre

\* A request past insertNode finds its node open.
LEMMA RequestHasNode ==
    ASSUME HandleInv, NEW c \in Client, req[c].pc \in {"key", "cs", "close"}
    PROVE  /\ req[c].ino \in Ino
           /\ open[req[c].ino] # NoNode
           /\ IsNode(open[req[c].ino])
           /\ open[req[c].ino].ino = req[c].ino
           /\ open[req[c].ino].ref \in Nat \ {0}
<1> DEFINE i == req[c].ino
<1>1. RequestTyped(c) /\ OpenTyped /\ CountInv
  BY DEF HandleInv
<1>2. i \in Ino
  BY <1>1 DEF RequestTyped
<1>3. c \in Handles(i) \/ c \in Requests(i)
  BY <1>1 DEF RequestTyped, Handles, Requests
<1>4. Handles(i) \in SUBSET Client /\ Requests(i) \in SUBSET Client /\ {} \in SUBSET Client
  BY DEF Handles, Requests
<1>5. Cardinality({}) \in Nat
  BY <1>4, ClientSets
<1>6. References(i) > 0
  <2>1. CASE c \in Handles(i)
    <3>1. Cardinality({}) + 1 <= Cardinality(Handles(i))
      BY <1>4, <2>1, ClientSets
    <3> QED BY <1>5, <3>1, ReferencesAre
  <2>2. CASE c \in Requests(i)
    <3>1. Cardinality({}) + 1 <= Cardinality(Requests(i))
      BY <1>4, <2>2, ClientSets
    <3> QED BY <1>5, <3>1, ReferencesAre
  <2> QED BY <1>3, <2>1, <2>2
<1>7. References(i) <= Counted(i) /\ References(i) \in Nat
  BY <1>1, <1>2, ReferencesAre DEF CountInv
<1>8. open[i] # NoNode
  BY <1>6, <1>7 DEF Counted
<1> QED BY <1>1, <1>2, <1>8 DEF OpenTyped

\* So does a handle.
LEMMA HandleHasNode ==
    ASSUME HandleInv, NEW c \in Client, fh[c] # 0
    PROVE  /\ fh[c] \in Ino
           /\ open[fh[c]] # NoNode
           /\ IsNode(open[fh[c]])
           /\ open[fh[c]].ino = fh[c]
           /\ open[fh[c]].ref \in Nat \ {0}
<1> DEFINE i == fh[c]
<1>1. OpenTyped /\ CountInv /\ i \in Ino
  BY DEF HandleInv
<1>2. c \in Handles(i) /\ Handles(i) \in SUBSET Client /\ {} \in SUBSET Client
  BY DEF Handles
<1>3. Cardinality({}) \in Nat /\ Cardinality({}) + 1 <= Cardinality(Handles(i))
  BY <1>2, ClientSets
<1>4. References(i) > 0
  BY <1>3, ReferencesAre
<1>5. References(i) <= Counted(i) /\ References(i) \in Nat
  BY <1>1, ReferencesAre DEF CountInv
<1>6. open[i] # NoNode
  BY <1>4, <1>5 DEF Counted
<1> QED BY <1>1, <1>6 DEF OpenTyped

-----------------------------------------------------------------------------
(* Requests *)

\* A request that is over is typed.
LEMMA IdleRequest ==
    /\ IsRequest(Idle)
    /\ Idle.pc = "idle" /\ Idle.op = "none" /\ Idle.ino = 0
BY DEF Idle, IsRequest

\* The other clients do not notice what happens to a request and a handle.
LEMMA OthersKept ==
    ASSUME HandleInv, NEW c \in Client, NEW r, NEW h,
           req' = [req EXCEPT ![c] = r], fh' = [fh EXCEPT ![c] = h]
    PROVE  /\ req' = [d \in Client |-> req'[d]]
           /\ req'[c] = r /\ fh'[c] = h
           /\ \A d \in Client \ {c} :
                req'[d] = req[d] /\ fh'[d] = fh[d] /\ RequestTyped(d)'
<1>1. DOMAIN req = Client /\ DOMAIN fh = Client
  BY DEF HandleInv
<1>2. \A d \in Client \ {c} : req'[d] = req[d] /\ fh'[d] = fh[d]
  BY <1>1
<1>3. ASSUME NEW d \in Client \ {c} PROVE RequestTyped(d)'
  BY <1>2 DEF RequestTyped, HandleInv
<1> QED BY <1>1, <1>2, <1>3

\* A step of a section: the node and the catalog keep their types, and the
\* request goes on to its Close, ends, or ends with a handle.
SectionStep(c) ==
    /\ req[c].pc = "cs"
    /\ CatalogTyped(db)' /\ nextIno' \in Nat \ {0}
    /\ OpenKept
    /\ \/ Leave(c) /\ fh' = fh
       \/ /\ Done(c) /\ req[c].op \in PathOps
          /\ fh' = fh \/ fh' = [fh EXCEPT ![c] = req[c].ino]

\* A step of a section keeps the invariant: a reference passes from the request to
\* the handle that it returns, or stays with the request for its Close.
LEMMA SectionKeeps ==
    ASSUME HandleInv, NEW c \in Client, SectionStep(c), ~IsNode(NoNode)
    PROVE  HandleInv'
<1>1. /\ OpenTyped /\ OpenKept /\ CountInv /\ RequestTyped(c)
      /\ req = [d \in Client |-> req[d]] /\ fh \in [Client -> Ino \cup {0}]
      /\ req[c].pc = "cs" /\ req[c].ino \in Ino /\ IsRequest(req[c])
  BY DEF HandleInv, SectionStep, RequestTyped
<1>2. OpenTyped' /\ \A i \in Ino : Counted(i)' = Counted(i)
  BY <1>1, KeptTyped
<1>3. fh' \in [Client -> Ino \cup {0}]
  BY <1>1 DEF SectionStep
<1> DEFINE i == req[c].ino
<1>4. CASE req[c].op \in PathOps /\ req' = [req EXCEPT ![c].pc = "close"] /\ fh' = fh
  <2> DEFINE r == [req[c] EXCEPT !.pc = "close"]
  <2>1. IsRequest(r) /\ r.pc = "close" /\ r.op = req[c].op /\ r.ino = i
    BY <1>1 DEF IsRequest
  <2>2. req' = [req EXCEPT ![c] = r] /\ fh' = [fh EXCEPT ![c] = fh[c]]
    BY <1>1, <1>4
  <2> HIDE DEF r
  <2>3. /\ req' = [d \in Client |-> req'[d]] /\ req'[c] = r
        /\ \A d \in Client \ {c} :
                req'[d] = req[d] /\ fh'[d] = fh[d] /\ RequestTyped(d)'
    BY <2>2, OthersKept
  <2>4. RequestTyped(c)'
    BY <1>1, <1>4, <2>1, <2>3 DEF RequestTyped
  <2>5. \A j \in Ino : Handles(j)' \subseteq Handles(j) /\ Requests(j)' \subseteq Requests(j)
    BY <1>1, <1>4, <2>1, <2>3 DEF Handles, Requests
  <2>6. CountInv'
    BY <1>1, <1>2, <2>5, CountKept
  <2> QED BY <1>2, <1>3, <2>3, <2>4, <2>6 DEF HandleInv, SectionStep
<1>5. CASE req' = [req EXCEPT ![c] = Idle] /\ fh' = fh
  <2>1. fh' = [fh EXCEPT ![c] = fh[c]]
    BY <1>1, <1>5
  <2>2. /\ req' = [d \in Client |-> req'[d]] /\ req'[c] = Idle
        /\ \A d \in Client \ {c} :
                req'[d] = req[d] /\ fh'[d] = fh[d] /\ RequestTyped(d)'
    BY <1>5, <2>1, OthersKept
  <2>3. RequestTyped(c)'
    BY <2>2, IdleRequest DEF RequestTyped
  <2>4. \A j \in Ino : Handles(j)' \subseteq Handles(j) /\ Requests(j)' \subseteq Requests(j)
    BY <1>5, <2>2, IdleRequest DEF Handles, Requests
  <2>5. CountInv'
    BY <1>1, <1>2, <2>4, CountKept
  <2> QED BY <1>2, <1>3, <2>2, <2>3, <2>5 DEF HandleInv, SectionStep
<1>6. CASE /\ req[c].op \in PathOps
           /\ req' = [req EXCEPT ![c] = Idle] /\ fh' = [fh EXCEPT ![c] = i]
  <2>1. /\ req' = [d \in Client |-> req'[d]] /\ req'[c] = Idle /\ fh'[c] = i
        /\ \A d \in Client \ {c} :
                req'[d] = req[d] /\ fh'[d] = fh[d] /\ RequestTyped(d)'
    BY <1>6, OthersKept
  <2>2. RequestTyped(c)'
    BY <2>1, IdleRequest DEF RequestTyped
  <2>3. ASSUME NEW j \in Ino PROVE References(j)' <= Counted(j)'
    <3>1. /\ Handles(j) \in SUBSET Client /\ Requests(j) \in SUBSET Client
          /\ Handles(j)' \in SUBSET Client /\ Requests(j)' \in SUBSET Client
      BY DEF Handles, Requests
    <3>2. References(j) <= Counted(j) /\ Counted(j) \in Nat
      BY <1>1 DEF CountInv, Counted, OpenTyped
    <3>3. CASE j = i
      <4>1. c \in Requests(j)
        BY <1>1, <1>6, <3>3 DEF Requests
      <4>2. Requests(j)' \subseteq Requests(j) \ {c}
        BY <2>1, IdleRequest DEF Requests
      <4>3. Handles(j)' \subseteq Handles(j) \cup {c}
        BY <2>1 DEF Handles
      <4>4. /\ Cardinality(Requests(j)') + 1 <= Cardinality(Requests(j))
            /\ Cardinality(Handles(j)') <= Cardinality(Handles(j)) + 1
        BY <3>1, <4>1, <4>2, <4>3, ClientSets
      <4> QED BY <1>2, <3>2, <4>4, ReferencesAre
    <3>4. CASE j # i
      <4>1. Requests(j)' \subseteq Requests(j)
        BY <2>1, IdleRequest DEF Requests
      <4>2. Handles(j)' \subseteq Handles(j)
        BY <2>1, <3>4 DEF Handles
      <4>3. /\ Cardinality(Requests(j)') <= Cardinality(Requests(j))
            /\ Cardinality(Handles(j)') <= Cardinality(Handles(j))
        BY <3>1, <4>1, <4>2, ClientSets
      <4> QED BY <1>2, <3>2, <4>3, ReferencesAre
    <3> QED BY <3>3, <3>4
  <2>4. CountInv'
    BY <2>3 DEF CountInv
  <2> QED BY <1>2, <1>3, <2>1, <2>2, <2>4 DEF HandleInv, SectionStep
<1> QED BY <1>4, <1>5, <1>6 DEF SectionStep, Leave, Done, Goto, Request

-----------------------------------------------------------------------------
(* The sections of the requests *)

\* Encode keeps the inode number.
LEMMA EncodeTyped ==
    ASSUME NEW n
    PROVE  IsDbNode(ToDb(n)) /\ ToDb(n).ino = n.ino
BY DEF IsDbNode, ToDb

\* A section that changes neither the database nor a node.
LEMMA QuitStep ==
    ASSUME HandleInv, NEW c \in Client, req[c].pc = "cs", Leave(c),
           UNCHANGED <<db, nextIno, open, fh>>
    PROVE  SectionStep(c)
BY OpenUnchanged DEF SectionStep, HandleInv

\* A section that stores its node with other content.
LEMMA StoreStep ==
    ASSUME HandleInv, NEW c \in Client, req[c].pc = "cs",
           NEW m, SameNode(m, open[req[c].ino]),
           db' = PutNode(db, ToDb(m), req[c].key) \/ UNCHANGED db,
           open' = [open EXCEPT ![req[c].ino] = m]
    PROVE  CatalogTyped(db)' /\ OpenKept
<1>1. /\ req[c].ino \in Ino /\ open[req[c].ino] # NoNode
      /\ open[req[c].ino].ino = req[c].ino
  BY RequestHasNode
<1>2. OpenKept
  BY <1>1, OpenUpdate DEF HandleInv
<1>3. IsDbNode(ToDb(m)) /\ ToDb(m).ino \in Ino
  BY <1>1, EncodeTyped DEF SameNode
<1>4. CatalogTyped(PutNode(db, ToDb(m), req[c].key)) /\ CatalogTyped(db)
  BY <1>3, PutTyped DEF HandleInv
<1>5. CatalogTyped(db')
  BY <1>4
<1> QED BY <1>2, <1>5

\* statNodeNoLock, whatever it finds.
LEMMA StatKeeps ==
    ASSUME HandleInv, NEW c \in Client, req[c].pc = "cs",
           StatFound(c) \/ StatAbsent(c) \/ StatFails(c)
    PROVE  CatalogTyped(db)' /\ OpenKept
<1>1. CASE StatFound(c)
  <2> DEFINE m == CopyStat(open[req[c].ino], storage[open[req[c].ino].path])
  <2>1. SameNode(m, open[req[c].ino])
    BY RequestHasNode, NodeUpdates
  <2>2. /\ db' = PutNode(db, ToDb(m), req[c].key)
        /\ open' = [open EXCEPT ![req[c].ino] = m]
    BY <1>1 DEF StatFound
  <2> HIDE DEF m
  <2> QED BY <2>1, <2>2, StoreStep
<1>2. CASE StatAbsent(c) \/ StatFails(c)
  <2>1. UNCHANGED <<db, open>>
    BY <1>2 DEF StatAbsent, StatFails
  <2> QED BY <2>1, OpenUnchanged DEF HandleInv
<1> QED BY <1>1, <1>2

\* Open and Getattr: statNode.
LEMMA statNodeStep ==
    ASSUME HandleInv, NEW c \in Client, statNode(c)
    PROVE  SectionStep(c)
<1>1. req[c].pc = "cs" /\ nextIno' = nextIno
  BY DEF statNode, InSection
<1>2. CatalogTyped(db)' /\ OpenKept
  <2>1. CASE UNCHANGED <<db, open>>
    BY <2>1, OpenUnchanged DEF HandleInv
  <2>2. CASE StatFound(c) \/ StatAbsent(c) \/ StatFails(c)
    BY <1>1, <2>2, StatKeeps
  <2> QED BY <2>1, <2>2 DEF statNode
<1>3. \/ Leave(c) /\ fh' = fh
      \/ /\ Done(c) /\ req[c].op = "open"
         /\ fh' = fh \/ fh' = [fh EXCEPT ![c] = req[c].ino]
  BY DEF statNode, Return
<1>4. "open" \in PathOps
  BY DEF PathOps
<1> QED BY <1>1, <1>2, <1>3, <1>4 DEF SectionStep, HandleInv

\* Create and Mkdir: makeNode.
LEMMA makeNodeStep ==
    ASSUME HandleInv, NEW c \in Client, makeNode(c)
    PROVE  SectionStep(c)
<1>1. req[c].pc = "cs" /\ req[c].op \in PathOps /\ nextIno' = nextIno
  BY DEF makeNode, InSection, PathOps
<1> DEFINE m == CopyStat(open[req[c].ino], IF req[c].op = "mkdir" THEN Dir ELSE nextVer)
<1>2. CatalogTyped(db)' /\ OpenKept
  <2>1. CASE UNCHANGED <<db, open>>
    BY <2>1, OpenUnchanged DEF HandleInv
  <2>2. CASE StatFound(c) \/ StatAbsent(c) \/ StatFails(c)
    BY <1>1, <2>2, StatKeeps
  <2>3. CASE /\ db' = PutNode(db, ToDb(m), req[c].key)
             /\ open' = [open EXCEPT ![req[c].ino] = m]
    <3>1. SameNode(m, open[req[c].ino])
      BY <1>1, RequestHasNode, NodeUpdates
    <3> HIDE DEF m
    <3> QED BY <1>1, <2>3, <3>1, StoreStep
  <2> QED BY <2>1, <2>2, <2>3 DEF makeNode
<1>3. \/ Leave(c) /\ fh' = fh
      \/ Goto(c, "close") /\ fh' = fh
      \/ Done(c) /\ fh' = [fh EXCEPT ![c] = req[c].ino]
  BY DEF makeNode, Return
<1>4. Leave(c) <=> Goto(c, "close")
  BY <1>1 DEF Leave
<1> QED BY <1>1, <1>2, <1>3, <1>4 DEF SectionStep, HandleInv

\* Unlink and Rmdir: removeNode.
LEMMA removeNodeStep ==
    ASSUME HandleInv, NEW c \in Client, removeNode(c)
    PROVE  SectionStep(c)
<1>1. req[c].pc = "cs" /\ req[c].op \in PathOps
  BY DEF removeNode, InSection, PathOps
<1>2. CASE Quit(c)
  BY <1>1, <1>2, QuitStep DEF Quit, persistent
<1>3. CASE /\ db' = DeleteNode(db, req[c].key)
           /\ open' = [open EXCEPT ![req[c].ino].deleted = TRUE]
           /\ Goto(c, "close") /\ UNCHANGED <<nextIno, fh>>
  <2> DEFINE m == [open[req[c].ino] EXCEPT !.deleted = TRUE]
  <2>1. open' = [open EXCEPT ![req[c].ino] = m]
    BY <1>3
  <2>2. SameNode(m, open[req[c].ino]) /\ req[c].ino \in Ino /\ open[req[c].ino] # NoNode
    BY <1>1, RequestHasNode, NodeUpdates
  <2> HIDE DEF m
  <2>3. OpenKept
    BY <2>1, <2>2, OpenUpdate DEF HandleInv
  <2>4. CatalogTyped(db')
    BY <1>3, DeleteTyped DEF HandleInv
  <2> QED BY <1>1, <1>3, <2>3, <2>4 DEF SectionStep, Leave, HandleInv
<1> QED BY <1>2, <1>3 DEF removeNode

\* renameNode changes the paths of open nodes.
LEMMA MovedKept ==
    ASSUME OpenTyped, NEW old, NEW new, open' = Moved(old, new)
    PROVE  OpenKept
<1>1. ASSUME NEW i \in Ino
      PROVE  open'[i] = open[i] \/
             (open[i] # NoNode /\ \E x : open'[i] = [open[i] EXCEPT !.path = x])
  BY DEF Moved
<1>2. ASSUME NEW i \in Ino
      PROVE  IF open[i] = NoNode THEN open'[i] = NoNode ELSE SameNode(open'[i], open[i])
  <2>1. CASE open[i] = NoNode
    BY <1>1, <2>1
  <2>2. CASE open[i] # NoNode
    <3>1. IsNode(open[i])
      BY <2>2 DEF OpenTyped
    <3>2. SameNode(open[i], open[i]) /\ \A x : SameNode([open[i] EXCEPT !.path = x], open[i])
      BY <3>1, NodeUpdates
    <3>3. CASE open'[i] = open[i]
      BY <2>2, <3>2, <3>3
    <3>4. CASE \E x : open'[i] = [open[i] EXCEPT !.path = x]
      <4> PICK x : open'[i] = [open[i] EXCEPT !.path = x]
        BY <3>4
      <4>1. SameNode([open[i] EXCEPT !.path = x], open[i])
        BY <3>2
      <4> QED BY <2>2, <4>1
    <3> QED BY <1>1, <3>3, <3>4
  <2> QED BY <2>1, <2>2
<1>3. open' = [i \in Ino |-> open'[i]]
  BY DEF Moved
<1> QED BY <1>2, <1>3 DEF OpenKept

\* Rename: renameNode.
LEMMA renameNodeStep ==
    ASSUME HandleInv, NEW c \in Client, renameNode(c)
    PROVE  SectionStep(c)
<1>1. req[c].pc = "cs" /\ req[c].op \in PathOps
  BY DEF renameNode, InSection, PathOps
<1>2. CASE Quit(c)
  BY <1>1, <1>2, QuitStep DEF Quit, persistent
<1>3. CASE /\ db' = RenameTree(db, req[c].key, req[c].to)
           /\ open' = Moved(req[c].key, req[c].to)
           /\ Goto(c, "close") /\ UNCHANGED <<nextIno, fh>>
  <2>1. OpenKept
    BY <1>3, MovedKept DEF HandleInv
  <2>2. CatalogTyped(db')
    BY <1>3, RenameTreeTyped DEF HandleInv
  <2> QED BY <1>1, <1>3, <2>1, <2>2 DEF SectionStep, Leave, HandleInv
<1> QED BY <1>2, <1>3 DEF renameNode

\* The inode numbers that readdirNode hands out, one for each new key, are
\* within the bound that it has checked.
LEMMA NumbersFit ==
    ASSUME NEW n \in Nat, NEW new \in SUBSET (1..n), NEW first \in Nat \ {0},
           first + Cardinality(new) <= MaxIno + 1
    PROVE  /\ first + Cardinality(new) \in Nat \ {0}
           /\ \A j \in new : first + Cardinality({l \in new : l < j}) \in Ino
<1>1. IsFiniteSet(new) /\ Cardinality(new) \in Nat
  <2>1. IsFiniteSet(1..n)
    BY FS_Interval
  <2>2. IsFiniteSet(new)
    BY <2>1, FS_Subset
  <2> QED BY <2>2, FS_CardinalityType
<1>2. ASSUME NEW j \in new PROVE first + Cardinality({l \in new : l < j}) \in Ino
  <2> DEFINE B == {l \in new : l < j}
  <2>1. B \subseteq new \ {j}
    OBVIOUS
  <2>2. IsFiniteSet(new \ {j}) /\ Cardinality(new \ {j}) = Cardinality(new) - 1
    BY <1>1, FS_RemoveElement
  <2> HIDE DEF B
  <2>3. IsFiniteSet(B) /\ Cardinality(B) <= Cardinality(new \ {j})
    BY <2>1, <2>2, FS_Subset
  <2>6. Cardinality(B) \in Nat /\ Cardinality(B) <= Cardinality(new) - 1
    BY <2>2, <2>3, FS_CardinalityType
  <2>4. Ino = 1..MaxIno /\ MaxIno \in Nat
    BY CacheAssumption
  <2>5. first + Cardinality(B) \in Ino
    BY <1>1, <2>4, <2>6
  <2> QED BY <2>5 DEF B
<1> QED BY <1>1, <1>2

\* Readdir: readdirNode catalogues new nodes and opens none.
LEMMA readdirNodeStep ==
    ASSUME HandleInv, NEW c \in Client, readdirNode(c)
    PROVE  SectionStep(c)
<1> DEFINE n == open[req[c].ino]
           objs == List(n.path)
           key(j) == Rebase(objs[j], n.path, req[c].key)
           new == {j \in DOMAIN objs : Get(db, key(j)) = NoNode}
           node(j) == [ino |-> nextIno + Cardinality({l \in new : l < j}),
                       path |-> objs[j], sig |-> storage[objs[j]], hash |-> 0]
           N == {<<key(j), node(j)>> : j \in new}
<1>1. req[c].pc = "cs"
  BY DEF readdirNode, InSection
<1>2. CASE Leave(c) /\ UNCHANGED <<db, nextIno, open, fh>>
  BY <1>1, <1>2, QuitStep
<1>3. CASE /\ nextIno + Cardinality(new) <= MaxIno + 1
           /\ nextIno' = nextIno + Cardinality(new)
           /\ db' = PutAll(db, N)
           /\ Leave(c) /\ UNCHANGED <<open, fh>>
  <2>1. objs \in Seq(Path)
    BY CacheAssumption, SiftProps DEF List
  <2>2. Len(objs) \in Nat /\ new \in SUBSET (1..Len(objs))
    BY <2>1
  <2>3. /\ nextIno' \in Nat \ {0}
        /\ \A j \in new : nextIno + Cardinality({l \in new : l < j}) \in Ino
    <3> HIDE DEF new
    <3> QED BY <1>3, <2>2, NumbersFit DEF HandleInv
  <2>4. ASSUME NEW e \in N PROVE IsDbNode(e[2]) /\ e[2].ino \in Ino
    <3>1. PICK j \in new : e = <<key(j), node(j)>>
      OBVIOUS
    <3>2. e[2] = node(j)
      BY <3>1
    <3>3. node(j).ino \in Ino
      BY <2>3
    <3>4. IsDbNode(node(j))
      BY DEF IsDbNode
    <3> QED BY <3>2, <3>3, <3>4
  <2>5. CatalogTyped(db')
    <3> HIDE DEF N
    <3> QED BY <1>3, <2>4, PutAllTyped DEF HandleInv
  <2> QED BY <1>1, <1>3, <2>3, <2>5, OpenUnchanged DEF SectionStep, HandleInv
<1> QED BY <1>2, <1>3 DEF readdirNode, Quit, persistent

\* EnsureFile, for a section on the node of its own inode.
LEMMA EnsureFileKeeps ==
    ASSUME HandleInv, NEW c \in Client, req[c].pc = "cs", NEW h,
           EnsureFile(c, open[req[c].ino], h)
    PROVE  CatalogTyped(db)' /\ OpenKept
<1> DEFINE m == IoNode(open[req[c].ino], h)
<1>1. IsNode(open[req[c].ino]) /\ open[req[c].ino].ino = req[c].ino
  BY RequestHasNode
<1>2. SameNode(m, open[req[c].ino])
  BY <1>1, NodeUpdates
<1>3. /\ db' = PutNode(db, ToDb(m), req[c].key) \/ UNCHANGED db
      /\ open' = [open EXCEPT ![req[c].ino] = m]
  BY <1>1 DEF EnsureFile
<1> HIDE DEF m
<1> QED BY <1>2, <1>3, StoreStep

\* A read, write or truncate whose file cannot be made available.
LEMMA ioFailsStep ==
    ASSUME HandleInv, NEW c \in Client, ioFails(c)
    PROVE  SectionStep(c)
<1>1. req[c].pc = "cs" /\ Leave(c) /\ UNCHANGED <<db, nextIno, open, fh>>
  BY DEF ioFails, InSection, Quit, persistent
<1> QED BY <1>1, QuitStep

\* Read: ReadAt.
LEMMA readAtStep ==
    ASSUME HandleInv, NEW c \in Client, readAt(c)
    PROVE  SectionStep(c)
<1>1. /\ req[c].pc = "cs" /\ Leave(c) /\ UNCHANGED <<nextIno, fh>>
      /\ EnsureFile(c, open[req[c].ino], storage[open[req[c].ino].path])
  BY DEF readAt, InSection
<1>2. CatalogTyped(db)' /\ OpenKept
  BY <1>1, EnsureFileKeeps
<1> QED BY <1>1, <1>2 DEF SectionStep, HandleInv

\* Write and Truncate.
LEMMA modifyFileStep ==
    ASSUME HandleInv, NEW c \in Client, modifyFile(c)
    PROVE  SectionStep(c)
<1>1. /\ req[c].pc = "cs" /\ Leave(c) /\ UNCHANGED <<nextIno, fh>>
      /\ \E h : EnsureFile(c, open[req[c].ino], h)
  BY DEF modifyFile, InSection
<1>2. CatalogTyped(db)' /\ OpenKept
  BY <1>1, EnsureFileKeeps
<1> QED BY <1>1, <1>2 DEF SectionStep, HandleInv

-----------------------------------------------------------------------------
(* The other steps of requests *)

\* A step that only moves the request of client c on, and adds no reference.
LEMMA RequestMoves ==
    ASSUME HandleInv, NEW c \in Client, NEW r, req' = [req EXCEPT ![c] = r],
           CatalogTyped(db)', nextIno' \in Nat \ {0}, UNCHANGED <<open, fh>>,
           RequestTyped(c)',
           r.pc \in {"key", "cs", "close"} /\ r.op \in PathOps =>
                /\ req[c].pc \in {"key", "cs", "close"} /\ req[c].op \in PathOps
                /\ req[c].ino = r.ino
    PROVE  HandleInv'
<1>1. fh' = [fh EXCEPT ![c] = fh[c]] /\ OpenTyped /\ CountInv
  BY DEF HandleInv
<1>2. /\ req' = [d \in Client |-> req'[d]] /\ req'[c] = r
      /\ \A d \in Client \ {c} :
            req'[d] = req[d] /\ fh'[d] = fh[d] /\ RequestTyped(d)'
  BY <1>1, OthersKept
<1>3. OpenTyped' /\ \A i \in Ino : Counted(i)' = Counted(i)
  BY <1>1 DEF OpenTyped, Counted
<1>4. \A j \in Ino : Handles(j)' \subseteq Handles(j) /\ Requests(j)' \subseteq Requests(j)
  BY <1>2 DEF Handles, Requests
<1>5. CountInv'
  BY <1>1, <1>3, <1>4, CountKept
<1>6. \A d \in Client : RequestTyped(d)'
  BY <1>2
<1> QED BY <1>2, <1>3, <1>5, <1>6 DEF HandleInv

\* The new state of the request that a step has moved on.
LEMMA Requested ==
    ASSUME HandleInv, NEW c \in Client, NEW r, Request(c, r)
    PROVE  req' = [req EXCEPT ![c] = r] /\ req'[c] = r
BY DEF Request, HandleInv

\* openNode finds or makes the node that insertNode will enter; it has no
\* reference yet.
LEMMA openNodeKeeps ==
    ASSUME HandleInv, NEW c \in Client, NEW op, NEW p \in Path, NEW q, openNode(c, op, p, q)
    PROVE  HandleInv'
<1>1. op \in PathOps /\ UNCHANGED <<db, open, fh>>
  BY DEF openNode
<1>2. CatalogTyped(db)' /\ CatalogTyped(db) /\ nextIno \in Nat \ {0}
  BY <1>1 DEF HandleInv
<1>3. PICK n : /\ Request(c, [Idle EXCEPT !.pc = "insert", !.op = op, !.path = p, !.to = q,
                               !.ino = n.ino, !.node = n])
               /\ IsNode(n) /\ n.ino \in Ino /\ n.ref = 0
               /\ nextIno' \in Nat \ {0}
  <2>1. CASE Get(db, p) # NoNode
    <3> DEFINE n == FromDb(Get(db, p))
    <3>1. IsNode(n) /\ n.ino = Get(db, p).ino /\ n.ref = 0
      BY DEF FromDb, IsNode
    <3>2. n.ino \in Ino
      BY <1>2, <2>1, <3>1 DEF CatalogTyped
    <3>3. /\ Request(c, [Idle EXCEPT !.pc = "insert", !.op = op, !.path = p, !.to = q,
                          !.ino = Get(db, p).ino, !.node = n])
          /\ nextIno' = nextIno
      BY <2>1 DEF openNode
    <3>4. Request(c, [Idle EXCEPT !.pc = "insert", !.op = op, !.path = p, !.to = q,
                      !.ino = n.ino, !.node = n])
      BY <3>1, <3>3
    <3> HIDE DEF n
    <3> QED BY <1>2, <3>1, <3>2, <3>3, <3>4
  <2>2. CASE Get(db, p) = NoNode
    <3> DEFINE n == NewNode(nextIno, p)
    <3>1. IsNode(n) /\ n.ino = nextIno /\ n.ref = 0
      BY DEF NewNode, IsNode
    <3>2. /\ Request(c, [Idle EXCEPT !.pc = "insert", !.op = op, !.path = p, !.to = q,
                          !.ino = nextIno, !.node = n])
          /\ nextIno <= MaxIno /\ nextIno' = nextIno + 1
      BY <2>2 DEF openNode, NextIno
    <3>3. nextIno \in Ino /\ nextIno' \in Nat \ {0}
      BY <1>2, <3>2, CacheAssumption
    <3>4. Request(c, [Idle EXCEPT !.pc = "insert", !.op = op, !.path = p, !.to = q,
                      !.ino = n.ino, !.node = n])
      BY <3>1, <3>2
    <3> HIDE DEF n
    <3> QED BY <3>1, <3>3, <3>4
  <2> QED BY <2>1, <2>2
<1> DEFINE r == [Idle EXCEPT !.pc = "insert", !.op = op, !.path = p, !.to = q,
                 !.ino = n.ino, !.node = n]
<1>4. /\ IsRequest(r) /\ r.pc = "insert" /\ r.op = op
      /\ r.ino = n.ino /\ r.node = n
  <2> DEFINE r1 == [Idle EXCEPT !.pc = "insert"]
             r2 == [r1 EXCEPT !.op = op]
             r3 == [r2 EXCEPT !.path = p]
             r4 == [r3 EXCEPT !.to = q]
             r5 == [r4 EXCEPT !.ino = n.ino]
  <2>1. r = [r5 EXCEPT !.node = n]
    OBVIOUS
  <2>2. IsRequest(r1) /\ r1.pc = "insert"
    BY IdleRequest DEF IsRequest
  <2> HIDE DEF r, r1
  <2>3. IsRequest(r2) /\ r2.pc = "insert" /\ r2.op = op
    BY <2>2 DEF IsRequest
  <2> HIDE DEF r2
  <2>4. IsRequest(r3) /\ r3.pc = "insert" /\ r3.op = op
    BY <2>3 DEF IsRequest
  <2> HIDE DEF r3
  <2>5. IsRequest(r4) /\ r4.pc = "insert" /\ r4.op = op
    BY <2>4 DEF IsRequest
  <2> HIDE DEF r4
  <2>6. IsRequest(r5) /\ r5.pc = "insert" /\ r5.op = op /\ r5.ino = n.ino
    BY <2>5 DEF IsRequest
  <2> HIDE DEF r5
  <2> QED BY <2>1, <2>6 DEF IsRequest
<1>5. Request(c, r)
  BY <1>3
<1> HIDE DEF r
<1>6. req' = [req EXCEPT ![c] = r] /\ req'[c] = r
  BY <1>5, Requested
<1>7. RequestTyped(c)'
  BY <1>1, <1>3, <1>4, <1>6 DEF RequestTyped
<1> QED BY <1>1, <1>2, <1>3, <1>4, <1>6, <1>7, RequestMoves

\* A request on a handle uses the reference of the handle.
LEMMA beginHandleKeeps ==
    ASSUME HandleInv, NEW c \in Client, NEW op, beginHandle(c, op)
    PROVE  HandleInv'
<1>1. op \notin PathOps /\ fh[c] # 0 /\ UNCHANGED <<db, nextIno, open, fh>>
  BY DEF beginHandle, HandleOps, PathOps, persistent
<1> DEFINE r == [Idle EXCEPT !.pc = "key", !.op = op, !.ino = fh[c]]
<1>2. IsRequest(r) /\ r.pc = "key" /\ r.op = op /\ r.ino = fh[c]
  <2> DEFINE r1 == [Idle EXCEPT !.pc = "key"]
             r2 == [r1 EXCEPT !.op = op]
  <2>1. r = [r2 EXCEPT !.ino = fh[c]]
    OBVIOUS
  <2>2. IsRequest(r1) /\ r1.pc = "key"
    BY IdleRequest DEF IsRequest
  <2> HIDE DEF r, r1
  <2>3. IsRequest(r2) /\ r2.pc = "key" /\ r2.op = op
    BY <2>2 DEF IsRequest
  <2> HIDE DEF r2
  <2> QED BY <2>1, <2>3 DEF IsRequest
<1>3. Request(c, r)
  BY DEF beginHandle
<1> HIDE DEF r
<1>4. req' = [req EXCEPT ![c] = r] /\ req'[c] = r
  BY <1>3, Requested
<1>5. fh[c] \in Ino
  BY <1>1 DEF HandleInv
<1>6. RequestTyped(c)'
  BY <1>1, <1>2, <1>4, <1>5 DEF RequestTyped
<1>7. CatalogTyped(db)' /\ nextIno' \in Nat \ {0}
  BY <1>1 DEF HandleInv
<1> QED BY <1>1, <1>2, <1>4, <1>6, <1>7, RequestMoves

\* Reading the key to lock.
LEMMA readKeyKeeps ==
    ASSUME HandleInv, NEW c \in Client, readKey(c)
    PROVE  HandleInv'
<1>1. req[c].pc = "key" /\ UNCHANGED <<db, nextIno, open, fh>>
  BY DEF readKey, persistent
<1>2. RequestTyped(c) /\ IsRequest(req[c])
  BY DEF HandleInv, RequestTyped
<1> DEFINE r == [req[c] EXCEPT !.pc = "cs", !.key = open[req[c].ino].path]
<1>3. IsRequest(r) /\ r.pc = "cs" /\ r.op = req[c].op /\ r.ino = req[c].ino
  <2> DEFINE s == [req[c] EXCEPT !.pc = "cs"]
  <2>1. IsRequest(s) /\ s.pc = "cs" /\ s.op = req[c].op /\ s.ino = req[c].ino
    BY <1>2 DEF IsRequest
  <2>2. r = [s EXCEPT !.key = open[req[c].ino].path]
    OBVIOUS
  <2> HIDE DEF r, s
  <2> QED BY <2>1, <2>2 DEF IsRequest
<1>4. Request(c, r)
  BY DEF readKey
<1> HIDE DEF r
<1>5. req' = [req EXCEPT ![c] = r] /\ req'[c] = r
  BY <1>4, Requested
<1>6. RequestTyped(c)'
  BY <1>1, <1>2, <1>3, <1>5 DEF RequestTyped
<1>7. CatalogTyped(db)' /\ nextIno' \in Nat \ {0}
  BY <1>1 DEF HandleInv
<1> QED BY <1>1, <1>3, <1>5, <1>6, <1>7, RequestMoves

\* closeAndUpdateNode stores a node that is no longer open.
LEMMA closeAndUpdateNodeKeeps ==
    ASSUME HandleInv, NEW c \in Client, closeAndUpdateNode(c)
    PROVE  HandleInv'
<1>1. /\ req[c].pc = "closing" /\ UNCHANGED <<nextIno, open, fh>>
      /\ db' = PutNode(db, ToDb(req[c].node), req[c].node.path)
      /\ req' = [req EXCEPT ![c].pc = "touch"]
  BY DEF closeAndUpdateNode, Goto
<1>2. RequestTyped(c) /\ IsRequest(req[c]) /\ req[c].ino \in Ino /\ req[c].node.ino = req[c].ino
  BY <1>1 DEF HandleInv, RequestTyped
<1> DEFINE r == [req[c] EXCEPT !.pc = "touch"]
<1>3. IsRequest(r) /\ r.pc = "touch" /\ r.ino = req[c].ino
  BY <1>2 DEF IsRequest
<1>4. Request(c, r)
  BY <1>1 DEF Request
<1> HIDE DEF r
<1>5. req' = [req EXCEPT ![c] = r] /\ req'[c] = r
  BY <1>4, Requested
<1>6. RequestTyped(c)'
  BY <1>2, <1>3, <1>5 DEF RequestTyped
<1>7. CatalogTyped(db')
  BY <1>1, <1>2, EncodeTyped, PutTyped DEF HandleInv
<1>8. nextIno' \in Nat \ {0}
  BY <1>1 DEF HandleInv
<1> QED BY <1>1, <1>3, <1>5, <1>6, <1>7, <1>8, RequestMoves

\* The end of closeNode.
LEMMA touchClosedKeeps ==
    ASSUME HandleInv, NEW c \in Client, touchClosed(c)
    PROVE  HandleInv'
<1>1. UNCHANGED <<db, nextIno, open, fh>> /\ Request(c, Idle)
  BY DEF touchClosed, Done, persistent
<1>2. req' = [req EXCEPT ![c] = Idle] /\ req'[c] = Idle
  BY <1>1, Requested
<1>3. RequestTyped(c)'
  BY <1>2, IdleRequest DEF RequestTyped
<1>4. CatalogTyped(db)' /\ nextIno' \in Nat \ {0}
  BY <1>1 DEF HandleInv
<1> QED BY <1>1, <1>2, <1>3, <1>4, IdleRequest, RequestMoves

\* insertNode adds one reference and counts it, whether the inode was in
\* openmap or not.
LEMMA insertNodeKeeps ==
    ASSUME HandleInv, NEW c \in Client, insertNode(c), ~IsNode(NoNode)
    PROVE  HandleInv'
<1> DEFINE i == req[c].ino
           n == IF open[i] = NoNode THEN req[c].node ELSE open[i]
           m == Reference(n)
           r == [req[c] EXCEPT !.pc = "key", !.node = NoNode]
<1>1. /\ req[c].pc = "insert" /\ open' = [open EXCEPT ![i] = m]
      /\ Request(c, r) /\ UNCHANGED <<db, nextIno, fh>>
  BY DEF insertNode, persistent
<1>2. /\ OpenTyped /\ CountInv /\ RequestTyped(c) /\ IsRequest(req[c])
      /\ i \in Ino /\ req[c].op \in PathOps
      /\ IsNode(req[c].node) /\ req[c].node.ino = i /\ req[c].node.ref = 0
  BY <1>1 DEF HandleInv, RequestTyped
<1>3. IsNode(n) /\ n.ino = i /\ n.ref = Counted(i) /\ Counted(i) \in Nat
  BY <1>2 DEF OpenTyped, Counted
<1>4. IsNode(m) /\ m.ino = i /\ m.ref = Counted(i) + 1
  <2> HIDE DEF n
  <2> QED BY <1>3 DEF Reference, IsNode
<1>5. IsRequest(r) /\ r.pc = "key" /\ r.op = req[c].op /\ r.ino = i
  <2> DEFINE s == [req[c] EXCEPT !.pc = "key"]
  <2>1. IsRequest(s) /\ s.pc = "key" /\ s.op = req[c].op /\ s.ino = i
    BY <1>2 DEF IsRequest
  <2>2. r = [s EXCEPT !.node = NoNode]
    OBVIOUS
  <2> HIDE DEF r, s
  <2> QED BY <2>1, <2>2 DEF IsRequest
<1> HIDE DEF n, m, r
<1>6. req' = [req EXCEPT ![c] = r] /\ fh' = [fh EXCEPT ![c] = fh[c]]
  BY <1>1, Requested DEF HandleInv
<1>7. /\ req' = [d \in Client |-> req'[d]] /\ req'[c] = r
      /\ \A d \in Client \ {c} :
            req'[d] = req[d] /\ fh'[d] = fh[d] /\ RequestTyped(d)'
  BY <1>6, OthersKept
<1>8. RequestTyped(c)'
  BY <1>2, <1>5, <1>7 DEF RequestTyped
<1>9. /\ open' = [j \in Ino |-> open'[j]]
      /\ open'[i] = m /\ \A j \in Ino \ {i} : open'[j] = open[j]
  BY <1>1, <1>2 DEF OpenTyped
<1>10. OpenTyped'
  BY <1>2, <1>3, <1>4, <1>9 DEF OpenTyped
<1>11. ASSUME NEW j \in Ino
       PROVE  Counted(j)' = IF j = i THEN Counted(j) + 1 ELSE Counted(j)
  <2>1. m # NoNode
    BY <1>4
  <2>2. CASE j = i
    BY <1>4, <1>9, <2>1, <2>2 DEF Counted
  <2>3. CASE j # i
    BY <1>9, <2>3 DEF Counted
  <2> QED BY <2>2, <2>3
<1>12. ASSUME NEW j \in Ino PROVE References(j)' <= Counted(j)'
  <2>1. /\ Handles(j) \in SUBSET Client /\ Requests(j) \in SUBSET Client
        /\ Handles(j)' \in SUBSET Client /\ Requests(j)' \in SUBSET Client
    BY DEF Handles, Requests
  <2>2. References(j) <= Counted(j) /\ Counted(j) \in Nat
    BY <1>2 DEF CountInv, Counted, OpenTyped
  <2>3. Handles(j)' \subseteq Handles(j)
    BY <1>1 DEF Handles
  <2>4. Requests(j)' \subseteq Requests(j) \cup {c}
    BY <1>7 DEF Requests
  <2>5. j # i => Requests(j)' \subseteq Requests(j)
    BY <1>5, <1>7 DEF Requests
  <2>6. /\ Cardinality(Handles(j)') <= Cardinality(Handles(j))
        /\ Cardinality(Requests(j)') <= Cardinality(Requests(j)) + 1
        /\ j # i => Cardinality(Requests(j)') <= Cardinality(Requests(j))
    BY <2>1, <2>3, <2>4, <2>5, ClientSets
  <2> QED BY <1>11, <2>2, <2>6, ReferencesAre
<1>13. CountInv'
  BY <1>12 DEF CountInv
<1>14. \A d \in Client : RequestTyped(d)'
  BY <1>7, <1>8
<1>15. /\ CatalogTyped(db)' /\ nextIno' \in Nat \ {0}
       /\ fh' \in [Client -> Ino \cup {0}]
  BY <1>1 DEF HandleInv
<1> QED BY <1>7, <1>10, <1>13, <1>14, <1>15 DEF HandleInv

\* What is left of a request that has dropped a reference.
LEMMA DereferenceRequest ==
    ASSUME NEW c \in Client, NEW i \in Ino, IsNode(open[i]), open[i].ino = i,
           Dereference(c, i)
    PROVE  \E r : /\ Request(c, r) /\ IsRequest(r)
                  /\ r.pc \in {"idle", "closing", "touch"}
                  /\ r.pc # "idle" => r.ino = i
                  /\ r.pc = "closing" => IsNode(r.node) /\ r.node.ino = i
<1>1. CASE Done(c)
  BY <1>1, IdleRequest DEF Done
<1>2. CASE /\ ClosePc(open[i]) # "idle"
           /\ Request(c, [Idle EXCEPT !.pc = ClosePc(open[i]), !.ino = i,
                          !.node = [open[i] EXCEPT !.ref = 0]])
  <2> DEFINE pc == ClosePc(open[i])
             n == [open[i] EXCEPT !.ref = 0]
             r1 == [Idle EXCEPT !.pc = pc]
             r2 == [r1 EXCEPT !.ino = i]
             r3 == [r2 EXCEPT !.node = n]
  <2>1. pc \in {"closing", "touch"}
    BY <1>2 DEF ClosePc
  <2>2. IsNode(n) /\ n.ino = i
    BY DEF IsNode
  <2>3. Request(c, r3)
    <3>1. [Idle EXCEPT !.pc = pc, !.ino = i, !.node = n] = r3
      OBVIOUS
    <3> QED BY <1>2, <3>1
  <2> HIDE DEF pc, n
  <2>4. IsRequest(r1) /\ r1.pc = pc
    BY IdleRequest DEF IsRequest
  <2> HIDE DEF r1
  <2>5. IsRequest(r2) /\ r2.pc = pc /\ r2.ino = i
    BY <2>4 DEF IsRequest
  <2> HIDE DEF r2
  <2>6. IsRequest(r3) /\ r3.pc = pc /\ r3.ino = i /\ r3.node = n
    BY <2>5 DEF IsRequest
  <2> HIDE DEF r3
  <2> QED BY <2>1, <2>2, <2>3, <2>6
<1> QED BY <1>1, <1>2 DEF Dereference

\* Cache.Close drops one reference with its count, and takes the node out of
\* openmap when no other reference is left.
LEMMA DereferenceKeeps ==
    ASSUME HandleInv, ~IsNode(NoNode), NEW c \in Client, NEW i \in Ino, open[i] # NoNode,
           Dereference(c, i), NEW h \in {0, fh[c]}, fh' = [fh EXCEPT ![c] = h],
           c \in Requests(i) \/ (c \in Handles(i) /\ h = 0),
           UNCHANGED <<db, nextIno>>
    PROVE  HandleInv'
<1>1. /\ OpenTyped /\ CountInv /\ IsNode(open[i]) /\ open[i].ino = i
      /\ open[i].ref \in Nat \ {0} /\ Counted(i) = open[i].ref
  BY DEF HandleInv, OpenTyped, Counted
<1>2. PICK r : /\ Request(c, r) /\ IsRequest(r)
               /\ r.pc \in {"idle", "closing", "touch"}
               /\ r.pc # "idle" => r.ino = i
               /\ r.pc = "closing" => IsNode(r.node) /\ r.node.ino = i
  BY <1>1, DereferenceRequest
<1>3. req' = [req EXCEPT ![c] = r]
  BY <1>2, Requested
<1>4. /\ req' = [d \in Client |-> req'[d]] /\ req'[c] = r /\ fh'[c] = h
      /\ \A d \in Client \ {c} :
            req'[d] = req[d] /\ fh'[d] = fh[d] /\ RequestTyped(d)'
  BY <1>3, OthersKept
<1>5. RequestTyped(c)'
  BY <1>2, <1>4 DEF RequestTyped
<1>6. /\ open' = [j \in Ino |-> open'[j]] /\ \A j \in Ino \ {i} : open'[j] = open[j]
      /\ \/ open[i].ref = 1 /\ open'[i] = NoNode
         \/ open[i].ref > 1 /\ open'[i] = [open[i] EXCEPT !.ref = open[i].ref - 1]
  BY <1>1 DEF Dereference, OpenTyped
<1>7. /\ Counted(i)' + 1 = Counted(i)
      /\ open'[i] # NoNode =>
            IsNode(open'[i]) /\ open'[i].ino = i /\ open'[i].ref \in Nat \ {0}
  <2>1. CASE open[i].ref = 1 /\ open'[i] = NoNode
    BY <1>1, <2>1 DEF Counted
  <2>2. CASE open[i].ref > 1 /\ open'[i] = [open[i] EXCEPT !.ref = open[i].ref - 1]
    <3>1. IsNode(open'[i]) /\ open'[i].ino = i /\ open'[i].ref = open[i].ref - 1
      BY <1>1, <2>2 DEF IsNode
    <3>2. open'[i] # NoNode
      BY <3>1
    <3> QED BY <1>1, <2>2, <3>1, <3>2 DEF Counted
  <2> QED BY <1>6, <2>1, <2>2
<1>8. OpenTyped'
  BY <1>1, <1>6, <1>7 DEF OpenTyped
<1>9. ASSUME NEW j \in Ino PROVE References(j)' <= Counted(j)'
  <2>1. /\ Handles(j) \in SUBSET Client /\ Requests(j) \in SUBSET Client
        /\ Handles(j)' \in SUBSET Client /\ Requests(j)' \in SUBSET Client
    BY DEF Handles, Requests
  <2>2. References(j) <= Counted(j) /\ Counted(j) \in Nat
    BY <1>1 DEF CountInv, Counted, OpenTyped
  <2>3. j # 0
    BY CacheAssumption
  <2>4. Requests(j)' \subseteq Requests(j) \ {c}
    BY <1>2, <1>4 DEF Requests
  <2>5. Handles(j)' \subseteq Handles(j) /\ (h = 0 => Handles(j)' \subseteq Handles(j) \ {c})
    BY <1>4, <2>3 DEF Handles
  <2>6. /\ Cardinality(Requests(j)') <= Cardinality(Requests(j))
        /\ Cardinality(Handles(j)') <= Cardinality(Handles(j))
    BY <2>1, <2>4, <2>5, ClientSets
  <2>7. CASE j # i
    <3>1. Counted(j)' = Counted(j)
      BY <1>6, <2>7 DEF Counted
    <3> QED BY <2>2, <2>6, <3>1, ReferencesAre
  <2>8. CASE j = i
    <3>1. \/ Cardinality(Requests(j)') + 1 <= Cardinality(Requests(j))
          \/ Cardinality(Handles(j)') + 1 <= Cardinality(Handles(j))
      BY <2>1, <2>4, <2>5, <2>8, ClientSets
    <3>2. References(j)' + 1 <= References(j)
      BY <2>6, <3>1, ReferencesAre
    <3>3. References(j)' \in Nat /\ References(j) \in Nat
      BY ReferencesAre
    <3>4. Counted(j)' + 1 = Counted(j)
      BY <1>7, <2>8
    <3>5. Counted(j)' \in Nat
      BY <1>8 DEF Counted, OpenTyped
    <3> QED BY <2>2, <3>2, <3>3, <3>4, <3>5
  <2> QED BY <2>7, <2>8
<1>10. CountInv'
  BY <1>9 DEF CountInv
<1>11. \A d \in Client : RequestTyped(d)'
  BY <1>4, <1>5
<1>12. /\ CatalogTyped(db)' /\ nextIno' \in Nat \ {0}
       /\ fh' \in [Client -> Ino \cup {0}]
  BY DEF HandleInv
<1> QED BY <1>4, <1>8, <1>10, <1>11, <1>12 DEF HandleInv

\* The deferred Close of a request on a path drops the reference of the request.
LEMMA closeRequestKeeps ==
    ASSUME HandleInv, NEW c \in Client, closeRequest(c), ~IsNode(NoNode)
    PROVE  HandleInv'
<1>1. req[c].pc = "close" /\ Dereference(c, req[c].ino) /\ UNCHANGED <<db, nextIno, fh>>
  BY DEF closeRequest, persistent
<1>2. req[c].ino \in Ino /\ open[req[c].ino] # NoNode
  BY <1>1, RequestHasNode
<1>3. c \in Requests(req[c].ino)
  BY <1>1 DEF HandleInv, RequestTyped, Requests
<1>4. fh' = [fh EXCEPT ![c] = fh[c]]
  BY <1>1 DEF HandleInv
<1> QED BY <1>1, <1>2, <1>3, <1>4, DereferenceKeeps

\* Release drops the reference of the handle.
LEMMA releaseKeeps ==
    ASSUME HandleInv, NEW c \in Client, release(c), ~IsNode(NoNode)
    PROVE  HandleInv'
<1>1. /\ fh[c] # 0 /\ Dereference(c, fh[c]) /\ UNCHANGED <<db, nextIno>>
      /\ fh' = [fh EXCEPT ![c] = 0]
  BY DEF release, persistent
<1>2. fh[c] \in Ino /\ open[fh[c]] # NoNode
  BY <1>1, HandleHasNode
<1>3. c \in Handles(fh[c])
  BY DEF Handles
<1> QED BY <1>1, <1>2, <1>3, DereferenceKeeps

-----------------------------------------------------------------------------
(* The background loop, start, stop and crash *)

\* A step of the loop leaves requests and handles alone.
LEMMA LoopKeeps ==
    ASSUME HandleInv, CatalogTyped(db)', OpenKept, UNCHANGED <<nextIno, req, fh>>,
           ~IsNode(NoNode)
    PROVE  HandleInv'
<1>1. OpenTyped' /\ \A i \in Ino : Counted(i)' = Counted(i)
  BY KeptTyped DEF HandleInv
<1>2. \A j \in Ino : Handles(j)' \subseteq Handles(j) /\ Requests(j)' \subseteq Requests(j)
  BY DEF Handles, Requests
<1>3. CountInv'
  BY <1>1, <1>2, CountKept DEF HandleInv
<1>4. \A c \in Client : RequestTyped(c)'
  BY DEF HandleInv, RequestTyped
<1> QED BY <1>1, <1>3, <1>4 DEF HandleInv

\* A step that changes neither the catalog, nor openmap, nor requests and handles.
LEMMA NothingChanges ==
    ASSUME HandleInv, UNCHANGED <<db, nextIno, open, req, fh>>, ~IsNode(NoNode)
    PROVE  HandleInv'
<1>1. CatalogTyped(db)' /\ OpenKept
  BY OpenUnchanged DEF HandleInv
<1> QED BY <1>1, LoopKeeps

\* Nothing is open after the process has ended, and nobody holds a reference.
LEMMA NobodyHolds ==
    ASSUME CatalogTyped(db), nextIno \in Nat \ {0}, open = [i \in Ino |-> NoNode],
           req = [c \in Client |-> Idle], fh = [c \in Client |-> 0]
    PROVE  HandleInv
<1>1. OpenTyped
  BY DEF OpenTyped
<1>2. \A c \in Client : RequestTyped(c)
  BY IdleRequest DEF RequestTyped
<1>3. ASSUME NEW i \in Ino PROVE References(i) <= Counted(i)
  <2>1. i # 0
    BY CacheAssumption
  <2>2. Handles(i) = {} /\ Requests(i) = {}
    BY <2>1, IdleRequest DEF Handles, Requests
  <2>3. Cardinality({}) = 0
    BY FS_EmptySet
  <2>4. References(i) = 0
    BY <2>2, <2>3, ReferencesAre
  <2> QED BY <2>4 DEF Counted
<1>4. CountInv
  BY <1>3 DEF CountInv
<1> QED BY <1>1, <1>2, <1>4 DEF HandleInv

\* The end of the process, in whatever way.
LEMMA ShutdownKeeps ==
    ASSUME HandleInv, Shutdown, UNCHANGED <<db, nextIno>>
    PROVE  HandleInv'
<1>1. OpenTyped'
  BY DEF Shutdown, OpenTyped
<1>2. /\ open' = [i \in Ino |-> NoNode] /\ req' = [c \in Client |-> Idle]
      /\ fh' = [c \in Client |-> 0]
  BY DEF Shutdown
<1>3. \A c \in Client : RequestTyped(c)'
  BY <1>2, IdleRequest DEF RequestTyped
<1>4. ASSUME NEW i \in Ino PROVE References(i)' <= Counted(i)'
  <2>1. i # 0
    BY CacheAssumption
  <2>2. Handles(i)' = {} /\ Requests(i)' = {}
    BY <1>2, <2>1, IdleRequest DEF Handles, Requests
  <2>3. Cardinality({}) = 0
    BY FS_EmptySet
  <2>4. References(i)' = 0
    BY <2>2, <2>3, ReferencesAre
  <2> QED BY <1>2, <2>4 DEF Counted
<1>5. CountInv'
  BY <1>4 DEF CountInv
<1> QED BY <1>1, <1>2, <1>3, <1>5 DEF HandleInv

\* The node that the loop finds by an inode number is one of the catalog.
LEMMA LockedTyped ==
    ASSUME HandleInv, LockedNode # NoNode
    PROVE  IsDbNode(LockedNode) /\ LockedNode.ino \in Ino
BY DEF LockedNode, GetWithIno, HandleInv, CatalogTyped

\* uploadOne changes the content of a node that may be open.
LEMMA uploadKeeps ==
    ASSUME HandleInv, upload, ~IsNode(NoNode)
    PROVE  HandleInv'
<1> DEFINE n == LockedNode
           v == file[loop.ino]
           m == [n EXCEPT !.sig = v, !.hash = v]
<1>1. /\ n # NoNode /\ db' = PutNode(db, m, n.path) /\ UNCHANGED <<nextIno, req, fh>>
      /\ open' = IF open[loop.ino] = NoNode THEN open
                 ELSE [open EXCEPT ![loop.ino] = [CopyStat(open[loop.ino], v) EXCEPT !.hash = v]]
  BY DEF upload, Uploads
<1>2. IsDbNode(n) /\ n.ino \in Ino
  BY <1>1, LockedTyped
<1> HIDE DEF n
<1>3. IsDbNode(m) /\ m.ino \in Ino
  <2> DEFINE s == [n EXCEPT !.sig = v]
  <2>1. IsDbNode(s) /\ s.ino = n.ino
    BY <1>2 DEF IsDbNode
  <2>2. m = [s EXCEPT !.hash = v]
    OBVIOUS
  <2> HIDE DEF s, m
  <2>3. IsDbNode([s EXCEPT !.hash = v]) /\ [s EXCEPT !.hash = v].ino = s.ino
    BY <2>1 DEF IsDbNode
  <2> QED BY <1>2, <2>1, <2>2, <2>3
<1>4. CatalogTyped(db')
  <2> HIDE DEF m
  <2> QED BY <1>1, <1>3, PutTyped DEF HandleInv
<1>5. OpenTyped
  BY DEF HandleInv
<1>6. OpenKept
  <2>1. CASE open' = open
    BY <1>5, <2>1, OpenUnchanged
  <2>2. CASE open[loop.ino] # NoNode /\ loop.ino \in Ino
    <3>1. IsNode(open[loop.ino])
      BY <1>5, <2>2 DEF OpenTyped
    <3>2. SameNode([CopyStat(open[loop.ino], v) EXCEPT !.hash = v], open[loop.ino])
      BY <3>1, NodeUpdates
    <3> QED BY <1>1, <1>5, <2>2, <3>2, OpenUpdate
  <2>3. CASE loop.ino \notin Ino
    BY <1>1, <1>5, <2>1, <2>3 DEF OpenTyped
  <2> QED BY <1>1, <2>1, <2>2, <2>3
<1> QED BY <1>1, <1>4, <1>6, LoopKeeps

\* evictOne deletes a node of the catalog; an open node loses its file at most.
LEMMA evictKeeps ==
    ASSUME HandleInv, evict, ~IsNode(NoNode)
    PROVE  HandleInv'
<1>1. UNCHANGED <<nextIno, req, fh>>
  BY DEF evict
<1>2. OpenTyped /\ CatalogTyped(db)
  BY DEF HandleInv
<1>3. CatalogTyped(db')
  <2>1. db' = db \/ \E k : db' = DeleteNode(db, k)
    BY DEF evict
  <2> QED BY <1>2, <2>1, DeleteTyped
<1>4. OpenKept
  <2> DEFINE i == loop.ino
  <2>1. CASE open' = open
    BY <1>2, <2>1, OpenUnchanged
  <2>2. CASE open[i] # NoNode /\ open' = [open EXCEPT ![i].fd = "orphan"]
    <3>1. CASE i \in Ino
      <4>1. IsNode(open[i])
        BY <1>2, <2>2, <3>1 DEF OpenTyped
      <4>2. SameNode([open[i] EXCEPT !.fd = "orphan"], open[i])
        BY <4>1, NodeUpdates
      <4>3. open' = [open EXCEPT ![i] = [open[i] EXCEPT !.fd = "orphan"]]
        BY <2>2
      <4> QED BY <1>2, <2>2, <3>1, <4>2, <4>3, OpenUpdate
    <3>2. CASE i \notin Ino
      BY <1>2, <2>1, <2>2, <3>2 DEF OpenTyped
    <3> QED BY <3>1, <3>2
  <2> QED BY <2>1, <2>2 DEF evict, RemoveFile
<1> QED BY <1>1, <1>3, <1>4, LoopKeeps

-----------------------------------------------------------------------------
(* The theorem *)

\* At first nothing is open.
LEMMA InitHandles ==
    Init => HandleInv
<1> SUFFICES ASSUME Init PROVE HandleInv
  OBVIOUS
<1>1. CatalogTyped(db)
  BY DEF Init, EmptyDb, CatalogTyped, Get
<1> QED BY <1>1, NobodyHolds DEF Init

\* Every step keeps the invariant.
LEMMA StepHandles ==
    ASSUME HandleInv, [Next]_vars, ~IsNode(NoNode)
    PROVE  HandleInv'
<1>1. ASSUME NEW c \in Client, Begin(c) PROVE HandleInv'
  BY <1>1, openNodeKeeps, beginHandleKeeps, releaseKeeps DEF Begin
<1>2. ASSUME NEW c \in Client, Continue(c) PROVE HandleInv'
  <2>1. CASE \/ statNode(c) \/ makeNode(c) \/ removeNode(c) \/ renameNode(c)
             \/ readdirNode(c) \/ ioFails(c) \/ readAt(c) \/ modifyFile(c)
    <3>1. SectionStep(c)
      BY <2>1, statNodeStep, makeNodeStep, removeNodeStep, renameNodeStep,
         readdirNodeStep, ioFailsStep, readAtStep, modifyFileStep
    <3> QED BY <3>1, SectionKeeps
  <2>2. CASE insertNode(c)
    BY <2>2, insertNodeKeeps
  <2>3. CASE readKey(c)
    BY <2>3, readKeyKeeps
  <2>4. CASE closeRequest(c)
    BY <2>4, closeRequestKeeps
  <2>5. CASE closeAndUpdateNode(c)
    BY <2>5, closeAndUpdateNodeKeeps
  <2>6. CASE touchClosed(c)
    BY <2>6, touchClosedKeeps
  <2> QED BY <1>2, <2>1, <2>2, <2>3, <2>4, <2>5, <2>6 DEF Continue
<1>3. CASE Background
  <2>1. CASE tick \/ takeUpload \/ endUpload \/ skipUpload \/ failUpload \/ takeEvict
    <3>1. UNCHANGED <<db, nextIno, open, req, fh>>
      BY <2>1 DEF tick, takeUpload, endUpload, skipUpload, failUpload, takeEvict, persistent
    <3> QED BY <3>1, NothingChanges
  <2>2. CASE touchUploaded \/ endEvict
    <3>1. /\ UNCHANGED <<db, nextIno>>
          /\ UNCHANGED <<open, req, fh>> \/ Shutdown
      BY <2>2 DEF touchUploaded, endEvict, EndReset, EndClose, persistent
    <3> QED BY <3>1, NothingChanges, ShutdownKeeps
  <2> QED BY <1>3, <2>1, <2>2, uploadKeeps, evictKeeps DEF Background
<1>4. CASE Lifecycle
  <2>1. CASE (\E m \in {"start", "reset"} : OpenCache(m)) \/ unmount \/ CloseCache
    <3>1. UNCHANGED <<db, nextIno, open, req, fh>>
      BY <2>1 DEF OpenCache, unmount, CloseCache, persistent
    <3> QED BY <3>1, NothingChanges
  <2>2. CASE crash \/ crashInUpload
            \/ \E c \in Client : crashInDownload(c) \/ crashInMake(c)
                                 \/ crashInRemove(c) \/ crashInRename(c)
    <3>1. Shutdown /\ UNCHANGED <<db, nextIno>>
      BY <2>2 DEF crash, crashInUpload, crashInDownload, crashInMake, crashInRemove,
                  crashInRename, persistent
    <3> QED BY <3>1, ShutdownKeeps
  <2> QED BY <1>4, <2>1, <2>2 DEF Lifecycle
<1>5. CASE UNCHANGED vars
  <2>1. UNCHANGED <<db, nextIno, open, req, fh>>
    BY <1>5 DEF vars, persistent, memory
  <2> QED BY <2>1, NothingChanges
<1> QED BY <1>1, <1>2, <1>3, <1>4, <1>5 DEF Next

\* No handle and no request in progress ever finds its node gone from openmap,
\* and its count covers all of them: for any number of clients that open,
\* rename, remove and close files and directories at the same time, any number
\* of FUSE workers, any tree of paths, any faults, evictions, crashes and
\* restarts.  NoNode stands for nil and is not a node.
THEOREM HandlesStayOpen ==
    ASSUME ~IsNode(NoNode)
    PROVE  Spec => []HandlesOpen
<1>1. HandleInv /\ [Next]_vars => HandleInv'
  BY StepHandles
<1>2. HandleInv => HandlesOpen
  <2> SUFFICES ASSUME HandleInv, NEW i \in Ino, References(i) > 0
               PROVE  open[i] # NoNode /\ open[i].ref >= References(i)
    BY DEF HandlesOpen
  <2>1. References(i) <= Counted(i) /\ References(i) \in Nat
    BY ReferencesAre DEF HandleInv, CountInv
  <2>2. open[i] # NoNode
    BY <2>1 DEF Counted
  <2>3. open[i].ref \in Nat
    BY <2>2 DEF HandleInv, OpenTyped
  <2> QED BY <2>1, <2>2, <2>3 DEF Counted
<1> QED BY <1>1, <1>2, InitHandles, PTL DEF Spec

-----------------------------------------------------------------------------
(* The LRU lists: the inductive invariant *)

\* A list in which every item occurs once.
IsList(s) == s \in Seq(Elems(s)) /\ Distinct(s)

\* Two lists without a common item.
IsLru(l) ==
    /\ l = [rw |-> l.rw, ro |-> l.ro]
    /\ IsList(l.rw) /\ IsList(l.ro)
    /\ Elems(l.rw) \cap Elems(l.ro) = {}

\* Every inode number that was handed out, that is, every one below n, has one
\* path h[i] for good: the catalog has its node there if anywhere ...
CatalogHome(d, h, n) ==
    \A p \in Path : Get(d, p) # NoNode =>
        Get(d, p).ino < n /\ h[Get(d, p).ino] = p /\ Get(d, p).path = p

\* ... its open node has that path ...
OpenHome(h) == \A i \in Ino : open[i] # NoNode => i < nextIno /\ open[i].path = h[i]

\* ... and so has the node that a request is about to enter in openmap or has
\* taken out of it, and the key that it has read.
RequestHome(c, h) ==
    LET r == req[c] IN
    /\ r.op # "rename"
    /\ r.pc \in {"insert", "closing"} => r.ino < nextIno /\ r.node.path = h[r.ino]
    /\ r.pc = "cs" => r.key = h[r.ino]

\* h gives every inode number that was handed out its path.
Homes(h) ==
    /\ CatalogHome(db, h, nextIno)
    /\ OpenHome(h)
    /\ \A c \in Client : RequestHome(c, h)

\* The invariant: an inode number stands for one path, so that no two keys of the
\* catalog put one inode number on the lists.
ListInv == HandleInv /\ IsLru(lru) /\ \E h : Homes(h)

-----------------------------------------------------------------------------
(* Lists *)

\* A list of anything is a list of its items.
LEMMA OfItsItems ==
    ASSUME NEW S, NEW s \in Seq(S)
    PROVE  s \in Seq(Elems(s))
<1>1. Len(s) \in Nat /\ s \in [1..Len(s) -> S] /\ DOMAIN s = 1..Len(s)
  OBVIOUS
<1>2. s \in [1..Len(s) -> Elems(s)]
  BY <1>1 DEF Elems
<1> QED BY <1>1, <1>2

\* Removing an item, and inserting one that is not there.
LEMMA ListUpdates ==
    ASSUME NEW s, IsList(s), NEW x
    PROVE  /\ IsList(Without(s, x)) /\ Elems(Without(s, x)) = Elems(s) \ {x}
           /\ IsList(InsertTail(Without(s, x), x))
           /\ Elems(InsertTail(Without(s, x), x)) = Elems(s) \cup {x}
<1> DEFINE S == Elems(s) \cup {x}
           t == Without(s, x)
           u == InsertTail(t, x)
<1>1. s \in Seq(S) /\ Distinct(s)
  BY DEF IsList
<1>2. t \in Seq(S) /\ Distinct(t) /\ Elems(t) = Elems(s) \ {x}
  <2> HIDE DEF S
  <2> QED BY <1>1, WithoutProps
<1>3. x \in S /\ x \notin Elems(t)
  BY <1>2
<1> HIDE DEF t, S
<1>4. u \in Seq(S) /\ Distinct(u) /\ Elems(u) = Elems(t) \cup {x}
  BY <1>2, <1>3, InsertTailProps
<1> HIDE DEF u
<1>5. IsList(t) /\ IsList(u)
  BY <1>2, <1>4, OfItsItems DEF IsList
<1> QED BY <1>2, <1>4, <1>5 DEF t, u

\* Taking the first item.
LEMMA ListTail ==
    ASSUME NEW s, IsList(s), s # <<>>
    PROVE  IsList(Tail(s)) /\ Elems(Tail(s)) \subseteq Elems(s)
<1>1. s \in Seq(Elems(s)) /\ Distinct(s)
  BY DEF IsList
<1>2. /\ Tail(s) \in Seq(Elems(s)) /\ Distinct(Tail(s))
      /\ Elems(Tail(s)) = Elems(s) \ {Head(s)}
  BY <1>1, TailProps
<1> QED BY <1>2, OfItsItems DEF IsList

\* touchIno keeps an inode on one list.
LEMMA TouchKeeps ==
    ASSUME NEW l, IsLru(l), NEW i, NEW b
    PROVE  IsLru(touchIno(l, i, b))
<1>1. IsList(l.rw) /\ IsList(l.ro) /\ Elems(l.rw) \cap Elems(l.ro) = {}
  BY DEF IsLru
<1>2. CASE b
  <2> DEFINE rw == InsertTail(Without(l.rw, i), i)
             ro == Without(l.ro, i)
  <2>1. touchIno(l, i, b) = [rw |-> rw, ro |-> ro]
    BY <1>2 DEF touchIno
  <2>2. /\ IsList(rw) /\ Elems(rw) = Elems(l.rw) \cup {i}
        /\ IsList(ro) /\ Elems(ro) = Elems(l.ro) \ {i}
    BY <1>1, ListUpdates
  <2> HIDE DEF rw, ro
  <2> QED BY <1>1, <2>1, <2>2 DEF IsLru
<1>3. CASE ~b /\ i \in Elems(l.rw)
  BY <1>3 DEF touchIno
<1>4. CASE ~b /\ i \notin Elems(l.rw)
  <2> DEFINE ro == InsertTail(Without(l.ro, i), i)
  <2>1. touchIno(l, i, b) = [rw |-> l.rw, ro |-> ro]
    BY <1>4 DEF touchIno
  <2>2. IsList(ro) /\ Elems(ro) = Elems(l.ro) \cup {i}
    BY <1>1, ListUpdates
  <2> HIDE DEF ro
  <2> QED BY <1>1, <1>4, <2>1, <2>2 DEF IsLru
<1> QED BY <1>2, <1>3, <1>4

\* Taking an inode off a list, field by field.
LEMMA PopAre ==
    ASSUME NEW a, NEW b
    PROVE  /\ popUpload([rw |-> a, ro |-> b]) = [rw |-> Tail(a), ro |-> b]
           /\ popEvict([rw |-> a, ro |-> b]) = [rw |-> a, ro |-> Tail(b)]
<1> DEFINE l == [rw |-> a, ro |-> b]
<1>1. l.rw = a /\ l.ro = b
  OBVIOUS
<1>2. ASSUME NEW t PROVE [l EXCEPT !.rw = t] = [rw |-> t, ro |-> b]
  OBVIOUS
<1>3. ASSUME NEW t PROVE [l EXCEPT !.ro = t] = [rw |-> a, ro |-> t]
  OBVIOUS
<1>4. /\ popUpload(l) = [l EXCEPT !.rw = Tail(l.rw)]
      /\ popEvict(l) = [l EXCEPT !.ro = Tail(l.ro)]
  <2> HIDE DEF l
  <2> QED BY Zenon DEF popUpload, popEvict
<1> QED BY <1>1, <1>2, <1>3, <1>4

\* It keeps every inode on one list.
LEMMA PopKeeps ==
    ASSUME NEW l, IsLru(l)
    PROVE  /\ l.rw # <<>> => IsLru(popUpload(l))
           /\ l.ro # <<>> => IsLru(popEvict(l))
<1>1. /\ l = [rw |-> l.rw, ro |-> l.ro]
      /\ IsList(l.rw) /\ IsList(l.ro) /\ Elems(l.rw) \cap Elems(l.ro) = {}
  BY DEF IsLru
<1>2. ASSUME l.rw # <<>> PROVE IsLru(popUpload(l))
  <2> DEFINE rw == Tail(l.rw)
  <2>1. popUpload(l) = [rw |-> rw, ro |-> l.ro]
    BY <1>1, PopAre
  <2>2. IsList(rw) /\ Elems(rw) \subseteq Elems(l.rw)
    BY <1>1, <1>2, ListTail
  <2> HIDE DEF rw
  <2> QED BY <1>1, <2>1, <2>2 DEF IsLru
<1>3. ASSUME l.ro # <<>> PROVE IsLru(popEvict(l))
  <2> DEFINE ro == Tail(l.ro)
  <2>1. popEvict(l) = [rw |-> l.rw, ro |-> ro]
    BY <1>1, PopAre
  <2>2. IsList(ro) /\ Elems(ro) \subseteq Elems(l.ro)
    BY <1>1, <1>3, ListTail
  <2> HIDE DEF ro
  <2> QED BY <1>1, <2>1, <2>2 DEF IsLru
<1> QED BY <1>2, <1>3

\* Touching an inode that has nothing to upload.
TouchClean(l, i) == touchIno(l, i, FALSE)

\* f is the function that TouchAll computes from the lists l, up to inos[n].
TouchesTo(l, inos, n, f) ==
    f = [m \in 0..n |-> IF m = 0 THEN l ELSE TouchClean(f[m - 1], inos[m])]

\* Its values.
LEMMA TouchesAt ==
    ASSUME NEW l, NEW inos, NEW n \in Nat, NEW f, TouchesTo(l, inos, n, f)
    PROVE  /\ f[0] = l
           /\ \A m \in 1..n : f[m] = TouchClean(f[m - 1], inos[m])
<1>1. f[0] = l
  BY DEF TouchesTo
<1>2. ASSUME NEW m \in 1..n PROVE f[m] = TouchClean(f[m - 1], inos[m])
  <2>1. m \in 0..n /\ m # 0
    OBVIOUS
  <2> QED BY <2>1 DEF TouchesTo
<1> QED BY <1>1, <1>2

\* There is such a function.
LEMMA TouchesExists ==
    ASSUME NEW l, NEW inos, NEW n \in Nat
    PROVE  \E f : TouchesTo(l, inos, n, f)
<1> DEFINE S == {m \in Nat : \E f : TouchesTo(l, inos, m, f)}
<1>1. 0 \in S
  <2>1. TouchesTo(l, inos, 0, [m \in 0..0 |-> l])
    BY DEF TouchesTo
  <2> QED BY <2>1
<1>2. ASSUME NEW m \in Nat, m \in S PROVE m + 1 \in S
  <2>1. PICK f : TouchesTo(l, inos, m, f)
    BY <1>2
  <2> HIDE DEF S
  <2>2. /\ f[0] = l
        /\ \A k \in 1..m : f[k] = TouchClean(f[k - 1], inos[k])
    <3>1. f[0] = l
      BY <2>1, TouchesAt
    <3>2. ASSUME NEW k \in 1..m PROVE f[k] = TouchClean(f[k - 1], inos[k])
      BY <2>1, TouchesAt
    <3> QED BY <3>1, <3>2
  <2> DEFINE g == [k \in 0..m + 1 |->
                IF k = m + 1 THEN TouchClean(f[m], inos[m + 1]) ELSE f[k]]
  <2>3. ASSUME NEW k \in 0..m + 1
        PROVE  g[k] = IF k = 0 THEN l ELSE TouchClean(g[k - 1], inos[k])
    <3>1. CASE k = m + 1
      <4>1. g[k - 1] = f[m] /\ k # 0
        BY <3>1
      <4> QED BY <3>1, <4>1
    <3>2. CASE k \in 0..m
      <4>1. g[k] = f[k] /\ (k # 0 => k \in 1..m /\ g[k - 1] = f[k - 1])
        BY <3>2
      <4> HIDE DEF g
      <4> QED BY <2>2, <4>1
    <3> QED BY <3>1, <3>2
  <2>4. TouchesTo(l, inos, m + 1, g)
    <3>1. g = [k \in 0..m + 1 |-> g[k]]
      OBVIOUS
    <3> HIDE DEF g
    <3> QED BY <3>1, <2>3 DEF TouchesTo
  <2> QED BY <2>4 DEF S
<1> HIDE DEF S
<1>3. n \in S
  BY <1>1, <1>2, Induction
<1> QED BY <1>3 DEF S

\* Touching the inodes of a listing keeps every inode on one list.
LEMMA TouchAllKeeps ==
    ASSUME IsLru(lru), NEW inos, Len(inos) \in Nat
    PROVE  IsLru(TouchAll(inos))
<1> DEFINE f == CHOOSE g : TouchesTo(lru, inos, Len(inos), g)
<1>1. TouchesTo(lru, inos, Len(inos), f)
  BY TouchesExists
<1>2. TouchAll(inos) = f[Len(inos)]
  BY Zenon DEF TouchAll, TouchesTo, TouchClean
<1> HIDE DEF f
<1>3. /\ f[0] = lru
      /\ \A m \in 1..Len(inos) : f[m] = TouchClean(f[m - 1], inos[m])
  BY <1>1, TouchesAt
<1> DEFINE G == {m \in Nat : m <= Len(inos) => IsLru(f[m])}
<1>4. 0 \in G
  BY <1>3
<1>5. ASSUME NEW m \in Nat, m \in G PROVE m + 1 \in G
  <2>1. SUFFICES ASSUME m + 1 <= Len(inos) PROVE IsLru(f[m + 1])
    OBVIOUS
  <2>2. IsLru(f[m]) /\ m + 1 \in 1..Len(inos) /\ (m + 1) - 1 = m
    BY <1>5, <2>1
  <2>3. f[m + 1] = TouchClean(f[m], inos[m + 1])
    BY <1>3, <2>2
  <2> QED BY <2>2, <2>3, TouchKeeps DEF TouchClean
<1>6. Len(inos) \in G
  <2> HIDE DEF G
  <2> QED BY <1>4, <1>5, Induction
<1> QED BY <1>2, <1>6

-----------------------------------------------------------------------------
(* The catalog *)

\* Storing a node under the path that its inode number has for good.
LEMMA PutHome ==
    ASSUME NEW d, CatalogTyped(d), NEW h, NEW n, CatalogHome(d, h, n),
           NEW m, NEW k, m.ino < n, h[m.ino] = k, m.path = k
    PROVE  CatalogHome(PutNode(d, m, k), h, n)
<1>1. PutNode(d, m, k).cat = [d.cat EXCEPT ![k] = m]
  BY DEF PutNode
<1>2. DOMAIN d.cat = Path
  BY DEF CatalogTyped
<1>3. ASSUME NEW p \in Path
      PROVE  Get(PutNode(d, m, k), p) = IF p = k THEN m ELSE Get(d, p)
  BY <1>1, <1>2 DEF Get
<1> QED BY <1>3 DEF CatalogHome

\* Deleting a key.
LEMMA DeleteHome ==
    ASSUME NEW d, CatalogTyped(d), NEW h, NEW n, CatalogHome(d, h, n), NEW k
    PROVE  CatalogHome(DeleteNode(d, k), h, n)
<1>1. DeleteNode(d, k).cat = d.cat \/ DeleteNode(d, k).cat = [d.cat EXCEPT ![k] = NoNode]
  BY DEF DeleteNode
<1>2. DOMAIN d.cat = Path
  BY DEF CatalogTyped
<1>3. ASSUME NEW p \in Path
      PROVE  Get(DeleteNode(d, k), p) \in {NoNode, Get(d, p)}
  BY <1>1, <1>2 DEF Get
<1> QED BY <1>3 DEF CatalogHome

\* Two catalogued nodes with one inode number are one.
LEMMA OneHome ==
    ASSUME NEW d, NEW h, NEW n, CatalogHome(d, h, n), NEW p \in Path, NEW q \in Path,
           Get(d, p) # NoNode, Get(d, q) # NoNode, Get(d, p).ino = Get(d, q).ino
    PROVE  p = q
BY DEF CatalogHome

-----------------------------------------------------------------------------
(* Nodes and requests *)

\* What the sections do to a node keeps its path.
LEMMA NodePaths ==
    ASSUME NEW n, IsNode(n), NEW x, NEW y
    PROVE  /\ [n EXCEPT !.deleted = x].path = n.path
           /\ [n EXCEPT !.fd = x].path = n.path
           /\ [n EXCEPT !.ref = x].path = n.path
           /\ CopyStat(n, x).path = n.path
           /\ [CopyStat(n, x) EXCEPT !.hash = y].path = n.path
           /\ IoNode(n, x).path = n.path
<1>1. /\ [n EXCEPT !.deleted = x].path = n.path
      /\ [n EXCEPT !.ref = x].path = n.path
  BY DEF IsNode
<1>2. ASSUME NEW m, IsNode(m), NEW z
      PROVE  [m EXCEPT !.fd = z].path = m.path /\ [m EXCEPT !.hash = z].path = m.path
  BY <1>2 DEF IsNode
<1>3. ASSUME NEW z PROVE IsNode(CopyStat(n, z)) /\ CopyStat(n, z).path = n.path
  <2> DEFINE m == [n EXCEPT !.sig = z]
  <2>1. IsNode(m) /\ m.path = n.path
    BY DEF IsNode
  <2>2. CopyStat(n, z) = [m EXCEPT !.valid = TRUE]
    BY DEF CopyStat
  <2>3. IsNode(CopyStat(n, z))
    BY NodeUpdates DEF SameNode
  <2> HIDE DEF m
  <2>4. ASSUME NEW b PROVE [m EXCEPT !.valid = b].path = m.path
    BY <2>1 DEF IsNode
  <2> QED BY <2>1, <2>2, <2>3, <2>4
<1>4. ASSUME NEW z, NEW w
      PROVE  /\ IsNode([CopyStat(n, z) EXCEPT !.hash = w])
             /\ [CopyStat(n, z) EXCEPT !.hash = w].path = n.path
  <2>1. IsNode([CopyStat(n, z) EXCEPT !.hash = w])
    BY NodeUpdates DEF SameNode
  <2> QED BY <1>2, <1>3, <2>1
<1>5. IoNode(n, x).path = n.path
  <2> DEFINE m == [CopyStat(n, storage[n.path]) EXCEPT !.hash = x]
  <2>1. IsNode(m) /\ m.path = n.path
    BY <1>4
  <2>2. [CopyStat(n, storage[n.path]) EXCEPT !.hash = x, !.fd = "linked"]
            = [m EXCEPT !.fd = "linked"]
    OBVIOUS
  <2> HIDE DEF m
  <2>3. [m EXCEPT !.fd = "linked"].path = n.path /\ [n EXCEPT !.fd = "linked"].path = n.path
    BY <1>2, <2>1
  <2> QED BY <2>2, <2>3 DEF IoNode
<1> QED BY <1>1, <1>2, <1>3, <1>4, <1>5

\* No node is opened, and the open nodes keep their paths.
PathsKept ==
    \A i \in Ino : open'[i] # NoNode => open[i] # NoNode /\ open'[i].path = open[i].path

\* One open node gets other content.
LEMMA PathUpdate ==
    ASSUME OpenTyped, NEW i \in Ino, open[i] # NoNode, NEW m, m.path = open[i].path,
           open' = [open EXCEPT ![i] = m]
    PROVE  PathsKept
BY DEF OpenTyped, PathsKept

\* The inode number of a request past insertNode has been handed out, and its
\* node has the path of that number.
LEMMA RequestIsHome ==
    ASSUME HandleInv, NEW h, Homes(h), NEW c \in Client,
           req[c].pc \in {"key", "cs", "close"}
    PROVE  req[c].ino < nextIno /\ open[req[c].ino].path = h[req[c].ino]
BY RequestHasNode DEF Homes, OpenHome

\* A step moves the request of client c on to r.  New inode numbers get paths
\* in g; the others keep the ones they have in h.
LEMMA HomesKept ==
    ASSUME HandleInv, NEW h, Homes(h), NEW g, \A i \in Ino : i < nextIno => g[i] = h[i],
           nextIno' \in Nat, nextIno <= nextIno', CatalogHome(db', g, nextIno'),
           OpenHome(g)',
           NEW c \in Client, NEW r, req' = [req EXCEPT ![c] = r], RequestHome(c, g)'
    PROVE  Homes(g)'
<1>1. req = [d \in Client |-> req[d]] /\ nextIno \in Nat
  BY DEF HandleInv
<1>2. ASSUME NEW d \in Client, d # c PROVE RequestHome(d, g)'
  <2>1. req'[d] = req[d] /\ RequestHome(d, h) /\ RequestTyped(d)
    BY <1>1, <1>2 DEF Homes, HandleInv
  <2>2. CASE req[d].pc \in {"insert", "closing"}
    <3>1. req[d].ino \in Ino /\ req[d].ino < nextIno /\ req[d].node.path = h[req[d].ino]
      BY <2>1, <2>2 DEF RequestHome, RequestTyped
    <3>2. req[d].ino \in Nat
      BY <3>1, CacheAssumption
    <3> QED BY <1>1, <2>1, <2>2, <3>1, <3>2 DEF RequestHome
  <2>3. CASE req[d].pc = "cs"
    <3>1. req[d].ino \in Ino /\ req[d].ino < nextIno
      BY <2>3, RequestHasNode, RequestIsHome
    <3> QED BY <2>1, <2>3, <3>1 DEF RequestHome
  <2>4. CASE req[d].pc \notin {"insert", "closing", "cs"}
    BY <2>1, <2>4 DEF RequestHome
  <2> QED BY <2>2, <2>3, <2>4
<1>3. \A d \in Client : RequestHome(d, g)'
  BY <1>2
<1> QED BY <1>3 DEF Homes

-----------------------------------------------------------------------------
(* The sections of the requests *)

\* A section on node n, which stores it under the key that was read, or deletes
\* a key.
HomeStep(c) ==
    /\ req[c].pc = "cs"
    /\ UNCHANGED nextIno
    /\ \/ UNCHANGED db
       \/ \E m : /\ m.ino = req[c].ino /\ m.path = open[req[c].ino].path
                 /\ db' = PutNode(db, m, req[c].key)
       \/ \E k : db' = DeleteNode(db, k)
    /\ PathsKept
    /\ Leave(c) \/ Done(c)

\* Leaving a section, a request forgets its key and its node.
LEMMA LeftHome ==
    ASSUME HandleInv, NEW h, Homes(h), NEW g, NEW c \in Client, req[c].pc = "cs",
           Leave(c) \/ Done(c)
    PROVE  /\ \E r : req' = [req EXCEPT ![c] = r]
           /\ RequestHome(c, g)'
<1>1. /\ req = [d \in Client |-> req[d]] /\ RequestHome(c, h) /\ IsRequest(req[c])
  BY DEF HandleInv, Homes, RequestTyped
<1>2. CASE req' = [req EXCEPT ![c].pc = "close"]
  <2> DEFINE r == [req[c] EXCEPT !.pc = "close"]
  <2>1. r.pc = "close" /\ r.op = req[c].op
    BY <1>1 DEF IsRequest
  <2>2. req' = [req EXCEPT ![c] = r] /\ req'[c] = r
    BY <1>1, <1>2
  <2> HIDE DEF r
  <2> QED BY <1>1, <2>1, <2>2 DEF RequestHome
<1>3. CASE req' = [req EXCEPT ![c] = Idle]
  <2>1. req'[c] = Idle
    BY <1>1, <1>3
  <2> QED BY <1>3, <2>1, IdleRequest DEF RequestHome
<1> QED BY <1>2, <1>3 DEF Leave, Goto, Done, Request

\* The inode numbers keep their paths.
LEMMA SectionHomes ==
    ASSUME HandleInv, NEW h, Homes(h), NEW c \in Client, HomeStep(c)
    PROVE  Homes(h)'
<1>1. /\ req[c].pc = "cs" /\ nextIno' = nextIno /\ nextIno \in Nat
      /\ CatalogTyped(db) /\ CatalogHome(db, h, nextIno)
      /\ OpenHome(h) /\ RequestHome(c, h) /\ PathsKept
  BY DEF HomeStep, HandleInv, Homes
<1>2. /\ req[c].ino < nextIno /\ open[req[c].ino].path = h[req[c].ino]
      /\ req[c].key = h[req[c].ino]
  BY <1>1, RequestIsHome DEF RequestHome
<1>3. CatalogHome(db', h, nextIno')
  <2>1. CASE UNCHANGED db
    BY <1>1, <2>1
  <2>2. CASE \E m : /\ m.ino = req[c].ino /\ m.path = open[req[c].ino].path
                    /\ db' = PutNode(db, m, req[c].key)
    BY <1>1, <1>2, <2>2, PutHome
  <2>3. CASE \E k : db' = DeleteNode(db, k)
    BY <1>1, <2>3, DeleteHome
  <2> QED BY <2>1, <2>2, <2>3 DEF HomeStep
<1>4. OpenHome(h)'
  BY <1>1 DEF OpenHome, PathsKept
<1>5. /\ \E r : req' = [req EXCEPT ![c] = r]
      /\ RequestHome(c, h)'
  BY <1>1, LeftHome DEF HomeStep
<1>6. \A i \in Ino : i < nextIno => h[i] = h[i]
  OBVIOUS
<1>7. nextIno' \in Nat /\ nextIno <= nextIno'
  BY <1>1
<1> QED BY <1>3, <1>4, <1>5, <1>6, <1>7, HomesKept

\* The encoded node of a section has the inode number and the path of the open
\* one.
LEMMA StoreHome ==
    ASSUME HandleInv, NEW c \in Client, req[c].pc = "cs", NEW m,
           SameNode(m, open[req[c].ino]), m.path = open[req[c].ino].path,
           open' = [open EXCEPT ![req[c].ino] = m]
    PROVE  /\ ToDb(m).ino = req[c].ino /\ ToDb(m).path = open[req[c].ino].path
           /\ PathsKept
<1>1. /\ req[c].ino \in Ino /\ open[req[c].ino] # NoNode
      /\ open[req[c].ino].ino = req[c].ino
  BY RequestHasNode
<1>2. PathsKept
  BY <1>1, PathUpdate DEF HandleInv
<1> QED BY <1>1, <1>2 DEF ToDb, SameNode

\* statNodeNoLock, whatever it finds.
LEMMA StatHome ==
    ASSUME HandleInv, NEW c \in Client, req[c].pc = "cs",
           StatFound(c) \/ StatAbsent(c) \/ StatFails(c)
    PROVE  /\ \/ UNCHANGED db
              \/ \E m : /\ m.ino = req[c].ino /\ m.path = open[req[c].ino].path
                        /\ db' = PutNode(db, m, req[c].key)
           /\ PathsKept
<1>1. CASE StatFound(c)
  <2> DEFINE m == CopyStat(open[req[c].ino], storage[open[req[c].ino].path])
  <2>1. SameNode(m, open[req[c].ino]) /\ m.path = open[req[c].ino].path
    BY RequestHasNode, NodeUpdates, NodePaths
  <2>2. /\ db' = PutNode(db, ToDb(m), req[c].key)
        /\ open' = [open EXCEPT ![req[c].ino] = m]
    BY <1>1 DEF StatFound
  <2> HIDE DEF m
  <2> QED BY <2>1, <2>2, StoreHome
<1>2. CASE StatAbsent(c) \/ StatFails(c)
  BY <1>2 DEF StatAbsent, StatFails, PathsKept
<1> QED BY <1>1, <1>2

\* Open and Getattr.
LEMMA statNodeHome ==
    ASSUME HandleInv, NEW c \in Client, statNode(c)
    PROVE  HomeStep(c)
<1>1. req[c].pc = "cs" /\ UNCHANGED nextIno
  BY DEF statNode, InSection
<1>2. /\ \/ UNCHANGED db
         \/ \E m : /\ m.ino = req[c].ino /\ m.path = open[req[c].ino].path
                   /\ db' = PutNode(db, m, req[c].key)
      /\ PathsKept
  <2>1. CASE UNCHANGED <<db, open>>
    BY <2>1 DEF PathsKept
  <2>2. CASE StatFound(c) \/ StatAbsent(c) \/ StatFails(c)
    BY <1>1, <2>2, StatHome
  <2> QED BY <2>1, <2>2 DEF statNode
<1>3. Leave(c) \/ Done(c)
  BY DEF statNode, Return
<1> QED BY <1>1, <1>2, <1>3 DEF HomeStep

\* Create and Mkdir.
LEMMA makeNodeHome ==
    ASSUME HandleInv, NEW c \in Client, makeNode(c)
    PROVE  HomeStep(c)
<1>1. req[c].pc = "cs" /\ req[c].op \in PathOps /\ UNCHANGED nextIno
  BY DEF makeNode, InSection, PathOps
<1> DEFINE m == CopyStat(open[req[c].ino], IF req[c].op = "mkdir" THEN Dir ELSE nextVer)
<1>2. /\ \/ UNCHANGED db
         \/ \E n : /\ n.ino = req[c].ino /\ n.path = open[req[c].ino].path
                   /\ db' = PutNode(db, n, req[c].key)
      /\ PathsKept
  <2>1. CASE UNCHANGED <<db, open>>
    BY <2>1 DEF PathsKept
  <2>2. CASE StatFound(c) \/ StatAbsent(c) \/ StatFails(c)
    BY <1>1, <2>2, StatHome
  <2>3. CASE /\ db' = PutNode(db, ToDb(m), req[c].key)
             /\ open' = [open EXCEPT ![req[c].ino] = m]
    <3>1. SameNode(m, open[req[c].ino]) /\ m.path = open[req[c].ino].path
      BY <1>1, RequestHasNode, NodeUpdates, NodePaths
    <3> HIDE DEF m
    <3> QED BY <1>1, <2>3, <3>1, StoreHome
  <2> QED BY <2>1, <2>2, <2>3 DEF makeNode
<1>3. Leave(c) \/ Goto(c, "close") \/ Done(c)
  BY DEF makeNode, Return
<1>4. Leave(c) <=> Goto(c, "close")
  BY <1>1 DEF Leave
<1> QED BY <1>1, <1>2, <1>3, <1>4 DEF HomeStep

\* Unlink and Rmdir.
LEMMA removeNodeHome ==
    ASSUME HandleInv, NEW c \in Client, removeNode(c)
    PROVE  HomeStep(c)
<1>1. req[c].pc = "cs" /\ req[c].op \in PathOps
  BY DEF removeNode, InSection, PathOps
<1>2. CASE Quit(c)
  BY <1>1, <1>2 DEF Quit, persistent, HomeStep, PathsKept
<1>3. CASE /\ db' = DeleteNode(db, req[c].key)
           /\ open' = [open EXCEPT ![req[c].ino].deleted = TRUE]
           /\ Goto(c, "close") /\ UNCHANGED nextIno
  <2> DEFINE m == [open[req[c].ino] EXCEPT !.deleted = TRUE]
  <2>1. open' = [open EXCEPT ![req[c].ino] = m]
    BY <1>3
  <2>2. SameNode(m, open[req[c].ino]) /\ m.path = open[req[c].ino].path
    BY <1>1, RequestHasNode, NodeUpdates, NodePaths
  <2> HIDE DEF m
  <2>3. PathsKept
    BY <1>1, <2>1, <2>2, StoreHome
  <2> QED BY <1>1, <1>3, <2>3 DEF HomeStep, Leave
<1> QED BY <1>2, <1>3 DEF removeNode

\* EnsureFile, for a section on the node of its own inode.
LEMMA EnsureFileHome ==
    ASSUME HandleInv, NEW c \in Client, req[c].pc = "cs", NEW x,
           EnsureFile(c, open[req[c].ino], x)
    PROVE  /\ \/ UNCHANGED db
              \/ \E m : /\ m.ino = req[c].ino /\ m.path = open[req[c].ino].path
                        /\ db' = PutNode(db, m, req[c].key)
           /\ PathsKept
<1> DEFINE m == IoNode(open[req[c].ino], x)
<1>1. IsNode(open[req[c].ino]) /\ open[req[c].ino].ino = req[c].ino
  BY RequestHasNode
<1>2. SameNode(m, open[req[c].ino]) /\ m.path = open[req[c].ino].path
  BY <1>1, NodeUpdates, NodePaths
<1>3. /\ db' = PutNode(db, ToDb(m), req[c].key) \/ UNCHANGED db
      /\ open' = [open EXCEPT ![req[c].ino] = m]
  BY <1>1 DEF EnsureFile
<1> HIDE DEF m
<1> QED BY <1>2, <1>3, StoreHome

\* Read, write and truncate, whether the file can be made available or not.
LEMMA fileIoHome ==
    ASSUME HandleInv, NEW c \in Client, ioFails(c) \/ readAt(c) \/ modifyFile(c)
    PROVE  HomeStep(c)
<1>1. CASE ioFails(c)
  BY <1>1 DEF ioFails, InSection, Quit, persistent, HomeStep, PathsKept
<1>2. CASE readAt(c) \/ modifyFile(c)
  <2>1. /\ req[c].pc = "cs" /\ Leave(c) /\ UNCHANGED nextIno
        /\ \E x : EnsureFile(c, open[req[c].ino], x)
    BY <1>2 DEF readAt, modifyFile, InSection
  <2> QED BY <2>1, EnsureFileHome DEF HomeStep
<1> QED BY <1>1, <1>2

-----------------------------------------------------------------------------
(* readdirNode *)

\* A path below a directory is the directory's and the rest.
LEMMA RebaseSame ==
    ASSUME NEW q \in Path, NEW p, ChildOf(q, p)
    PROVE  Rebase(q, p, p) = q
<1>1. q \in Seq(STRING) /\ q # <<>> /\ p = SubSeq(q, 1, Len(q) - 1)
  BY CacheAssumption DEF ChildOf, Parent, Root
<1>2. Len(q) \in Nat \ {0}
  BY <1>1
<1>3. Len(p) = Len(q) - 1
  <2>1. \A i \in 1..Len(q) - 1 : q[i] \in STRING
    BY <1>1, <1>2
  <2>2. Len(SubSeq(q, 1, Len(q) - 1)) = IF 1 <= Len(q) - 1 THEN (Len(q) - 1) - 1 + 1 ELSE 0
    BY <1>2, <2>1, SubSeqProperties
  <2>3. Len(SubSeq(q, 1, Len(q) - 1)) = Len(q) - 1
    BY <1>2, <2>2
  <2> QED BY <1>1, <2>3, Zenon
<1>4. Len(p) + 1 = Len(q) /\ Len(p) \in 1 - 1..Len(q) /\ Len(q) \in Len(p)..Len(q)
      /\ 1 \in 1..Len(q) + 1
  BY <1>2, <1>3
<1>5. SubSeq(q, 1, Len(p)) \o SubSeq(q, Len(p) + 1, Len(q)) = SubSeq(q, 1, Len(q))
  BY <1>1, <1>4, ConcatAdjacentSubSeq
<1>6. SubSeq(q, 1, Len(q)) = q
  BY <1>1
<1>7. p = SubSeq(q, 1, Len(p))
  BY <1>1, <1>3
<1> QED BY <1>5, <1>6, <1>7 DEF Rebase

\* The inode numbers that readdirNode hands out are new and different.
LEMMA NumbersDiffer ==
    ASSUME NEW n \in Nat, NEW new \in SUBSET (1..n), NEW first \in Nat \ {0}
    PROVE  /\ \A j \in new :
                /\ first <= first + Cardinality({l \in new : l < j})
                /\ first + Cardinality({l \in new : l < j}) < first + Cardinality(new)
           /\ \A i, j \in new :
                first + Cardinality({l \in new : l < i})
                    = first + Cardinality({l \in new : l < j}) => i = j
<1> DEFINE B(j) == {l \in new : l < j}
<1>1. IsFiniteSet(new) /\ Cardinality(new) \in Nat
  <2>1. IsFiniteSet(1..n)
    BY FS_Interval
  <2>2. IsFiniteSet(new)
    BY <2>1, FS_Subset
  <2> QED BY <2>2, FS_CardinalityType
<1>2. ASSUME NEW A, IsFiniteSet(A), NEW j \in A, NEW C, C \subseteq A \ {j}
      PROVE  Cardinality(C) \in Nat /\ Cardinality(A) \in Nat
             /\ Cardinality(C) < Cardinality(A)
  <2>1. /\ IsFiniteSet(A \ {j}) /\ Cardinality(A \ {j}) = Cardinality(A) - 1
        /\ Cardinality(A) \in Nat
    BY <1>2, FS_RemoveElement, FS_CardinalityType
  <2>2. IsFiniteSet(C) /\ Cardinality(C) <= Cardinality(A \ {j})
    BY <1>2, <2>1, FS_Subset
  <2>3. Cardinality(C) \in Nat
    BY <2>2, FS_CardinalityType
  <2> QED BY <2>1, <2>2, <2>3
<1>3. ASSUME NEW j \in new
      PROVE  Cardinality(B(j)) \in Nat /\ Cardinality(B(j)) < Cardinality(new)
  <2>1. B(j) \subseteq new \ {j}
    OBVIOUS
  <2> HIDE DEF B
  <2> QED BY <1>1, <1>2, <2>1
<1>4. ASSUME NEW i \in new, NEW j \in new, i < j
      PROVE  Cardinality(B(i)) < Cardinality(B(j))
  <2>1. i \in B(j) /\ B(j) \subseteq new
    BY <1>4
  <2>3. B(i) \subseteq B(j) \ {i}
    <3>1. i \in Nat /\ j \in Nat /\ \A l \in new : l \in Nat
      OBVIOUS
    <3>2. ASSUME NEW l \in B(i) PROVE l \in B(j) /\ l # i
      BY <1>4, <3>1
    <3> QED BY <3>2
  <2> HIDE DEF B
  <2>2. IsFiniteSet(B(j))
    BY <1>1, <2>1, FS_Subset
  <2> QED BY <1>2, <2>1, <2>2, <2>3
<1>5. ASSUME NEW i \in new, NEW j \in new, first + Cardinality(B(i)) = first + Cardinality(B(j))
      PROVE  i = j
  <2> HIDE DEF B
  <2>1. Cardinality(B(i)) = Cardinality(B(j))
    BY <1>3, <1>5
  <2>2. Cardinality(B(i)) \in Nat
    BY <1>3
  <2>3. ~(i < j) /\ ~(j < i)
    BY <1>4, <2>1, <2>2
  <2> QED BY <2>3
<1>6. ASSUME NEW j \in new
      PROVE  /\ first <= first + Cardinality(B(j))
             /\ first + Cardinality(B(j)) < first + Cardinality(new)
  <2> HIDE DEF B
  <2> QED BY <1>1, <1>3
<1> QED BY <1>5, <1>6

\* Storing new nodes under new inode numbers: each number gets the path of its
\* node.
LEMMA PutAllHome ==
    ASSUME NEW d, NEW h, NEW n \in Nat, CatalogTyped(d), CatalogHome(d, h, n),
           NEW m \in Nat, n <= m, NEW N,
           \A e \in N : /\ e[2].ino \in Ino /\ e[2].path = e[1]
                        /\ n <= e[2].ino /\ e[2].ino < m,
           \A e, f \in N : e[2].ino = f[2].ino => e = f
    PROVE  \E g : /\ \A i \in Ino : i < n => g[i] = h[i]
                  /\ CatalogHome(PutAll(d, N), g, m)
<1> DEFINE g == [i \in Ino |-> IF \E e \in N : e[2].ino = i
                               THEN (CHOOSE e \in N : e[2].ino = i)[1] ELSE h[i]]
           cat == [k \in Path |-> IF \E e \in N : e[1] = k
                                 THEN (CHOOSE e \in N : e[1] = k)[2] ELSE d.cat[k]]
<1>1. PutAll(d, N).cat = cat
  BY DEF PutAll
<1>2. Ino \subseteq Nat
  BY CacheAssumption
<1>3. ASSUME NEW i \in Ino, i < n PROVE g[i] = h[i]
  <2>1. ~\E e \in N : e[2].ino = i
    BY <1>2, <1>3
  <2> QED BY <2>1
<1>4. ASSUME NEW e \in N PROVE g[e[2].ino] = e[1]
  <2> DEFINE f == CHOOSE x \in N : x[2].ino = e[2].ino
  <2>1. f \in N /\ f[2].ino = e[2].ino
    OBVIOUS
  <2>2. g[e[2].ino] = f[1]
    OBVIOUS
  <2> HIDE DEF f, g
  <2>3. f = e
    BY <2>1
  <2> QED BY <2>2, <2>3
<1>5. ASSUME NEW k \in Path, cat[k] # NoNode
      PROVE  cat[k].ino < m /\ g[cat[k].ino] = k /\ cat[k].path = k
  <2>1. CASE \E e \in N : e[1] = k
    <3> DEFINE e == CHOOSE x \in N : x[1] = k
    <3>1. e \in N /\ e[1] = k /\ cat[k] = e[2]
      BY <2>1
    <3> HIDE DEF e, g, cat
    <3> QED BY <1>4, <3>1
  <2>2. CASE ~\E e \in N : e[1] = k
    <3>1. cat[k] = Get(d, k)
      BY <2>2 DEF Get
    <3> HIDE DEF g, cat
    <3>2. /\ Get(d, k).ino < n /\ h[Get(d, k).ino] = k /\ Get(d, k).path = k
          /\ Get(d, k).ino \in Ino
      BY <1>5, <3>1 DEF CatalogHome, CatalogTyped
    <3>3. Get(d, k).ino < m
      BY <1>2, <3>2
    <3> QED BY <1>3, <3>1, <3>2, <3>3
  <2> QED BY <2>1, <2>2
<1>6. CatalogHome(PutAll(d, N), g, m)
  <2> HIDE DEF g, cat
  <2> QED BY <1>1, <1>5 DEF CatalogHome, Get
<1> QED BY <1>3, <1>6

\* readdirNode gives the objects that the catalog does not know inode numbers
\* and nodes with their paths.
LEMMA readdirNodeHomes ==
    ASSUME HandleInv, IsLru(lru), NEW h, Homes(h), NEW c \in Client, readdirNode(c)
    PROVE  IsLru(lru') /\ \E g : Homes(g)'
<1> DEFINE n == open[req[c].ino]
           objs == List(n.path)
           key(j) == Rebase(objs[j], n.path, req[c].key)
           new == {j \in DOMAIN objs : Get(db, key(j)) = NoNode}
           number(j) == nextIno + Cardinality({l \in new : l < j})
           node(j) == [ino |-> number(j), path |-> objs[j], sig |-> storage[objs[j]], hash |-> 0]
           inos == [j \in DOMAIN objs |-> Get(db', key(j)).ino]
           N == {<<key(j), node(j)>> : j \in new}
<1>1. req[c].pc = "cs"
  BY DEF readdirNode, InSection
<1>2. CASE Leave(c) /\ UNCHANGED <<db, nextIno, open, lru>>
  <2>1. HomeStep(c)
    BY <1>1, <1>2 DEF HomeStep, PathsKept
  <2> QED BY <1>2, <2>1, SectionHomes
<1>3. CASE /\ nextIno + Cardinality(new) <= MaxIno + 1
           /\ nextIno' = nextIno + Cardinality(new)
           /\ db' = PutAll(db, N)
           /\ lru' = TouchAll(inos)
           /\ Leave(c) /\ UNCHANGED open
  <2> DEFINE T == {q \in Path : ChildOf(q, n.path) /\ storage[q] # 0}
  <2>1. objs \in Seq(Path) /\ Elems(objs) \subseteq T
    <3>1. objs = Sift(KeyOrder, T)
      BY DEF List
    <3> HIDE DEF T
    <3> QED BY <3>1, CacheAssumption, SiftProps
  <2>2. Len(objs) \in Nat /\ DOMAIN objs = 1..Len(objs) /\ new \in SUBSET (1..Len(objs))
    BY <2>1
  <2>3. ASSUME NEW j \in DOMAIN objs PROVE key(j) = objs[j]
    <3>1. objs[j] \in T
      BY <2>1 DEF Elems
    <3>2. objs[j] \in Path /\ ChildOf(objs[j], n.path)
      BY <3>1
    <3>3. n.path = req[c].key
      BY <1>1, RequestIsHome DEF Homes, RequestHome
    <3> QED BY <3>2, <3>3, RebaseSame
  <2>4. nextIno \in Nat \ {0} /\ CatalogTyped(db) /\ CatalogHome(db, h, nextIno) /\ OpenHome(h)
    BY DEF HandleInv, Homes
  <2>5. /\ nextIno' \in Nat \ {0} /\ \A j \in new : number(j) \in Ino
    <3> HIDE DEF new
    <3> QED BY <1>3, <2>2, <2>4, NumbersFit
  <2>6. /\ \A j \in new : nextIno <= number(j) /\ number(j) < nextIno'
        /\ \A i, j \in new : number(i) = number(j) => i = j
    <3> HIDE DEF new
    <3>1. /\ \A j \in new : /\ nextIno <= number(j)
                            /\ number(j) < nextIno + Cardinality(new)
          /\ \A i, j \in new : number(i) = number(j) => i = j
      BY <2>2, <2>4, NumbersDiffer, Zenon
    <3> HIDE DEF number
    <3>2. nextIno' = nextIno + Cardinality(new)
      BY <1>3
    <3> QED BY <3>1, <3>2
  <2>7. nextIno <= nextIno' /\ nextIno' \in Nat
    <3> DEFINE k == Len(objs)
    <3>1. k \in Nat /\ new \in SUBSET (1..k)
      BY <2>2
    <3>2. nextIno' = nextIno + Cardinality(new)
      BY <1>3
    <3> HIDE DEF new, k
    <3>3. IsFiniteSet(1..k)
      BY <3>1, FS_Interval
    <3>4. Cardinality(new) \in Nat
      BY <3>1, <3>3, FS_Subset, FS_CardinalityType
    <3> QED BY <2>4, <3>2, <3>4
  <2> HIDE DEF number
  <2>8. ASSUME NEW e \in N
        PROVE  \E j \in new : /\ e = <<key(j), node(j)>>
                              /\ e[2].ino = number(j) /\ e[2].path = e[1]
    <3>1. PICK j \in new : e = <<key(j), node(j)>>
      OBVIOUS
    <3>2. e[1] = key(j) /\ e[2] = node(j) /\ key(j) = objs[j]
      BY <2>3, <3>1
    <3> QED BY <3>1, <3>2
  <2> HIDE DEF N
  <2>9. \A e \in N : /\ e[2].ino \in Ino /\ e[2].path = e[1]
                     /\ nextIno <= e[2].ino /\ e[2].ino < nextIno'
    BY <2>5, <2>6, <2>8
  <2>10. ASSUME NEW e \in N, NEW f \in N, e[2].ino = f[2].ino PROVE e = f
    <3>1. PICK i \in new : e = <<key(i), node(i)>> /\ e[2].ino = number(i)
      BY <2>8
    <3>2. PICK j \in new : f = <<key(j), node(j)>> /\ f[2].ino = number(j)
      BY <2>8
    <3>3. i = j
      BY <2>6, <2>10, <3>1, <3>2
    <3> QED BY <3>1, <3>2, <3>3
  <2>11. PICK g : /\ \A i \in Ino : i < nextIno => g[i] = h[i]
                  /\ CatalogHome(db', g, nextIno')
    <3>1. db' = PutAll(db, N) /\ nextIno \in Nat
      BY <1>3, <2>4
    <3>2. \A e, f \in N : e[2].ino = f[2].ino => e = f
      BY <2>10
    <3>3. \E g : /\ \A i \in Ino : i < nextIno => g[i] = h[i]
                 /\ CatalogHome(PutAll(db, N), g, nextIno')
      BY <2>4, <2>7, <2>9, <3>1, <3>2, PutAllHome
    <3> QED BY <3>1, <3>3
  <2>12. OpenHome(g)'
    <3>1. ASSUME NEW i \in Ino, open'[i] # NoNode PROVE i < nextIno' /\ open'[i].path = g[i]
      <4>1. i < nextIno /\ open[i].path = h[i] /\ open' = open
        BY <1>3, <2>4, <3>1 DEF OpenHome
      <4>2. i \in Nat
        BY CacheAssumption
      <4> QED BY <2>4, <2>7, <2>11, <4>1, <4>2
    <3> QED BY <3>1 DEF OpenHome
  <2>13. (\E r : req' = [req EXCEPT ![c] = r]) /\ RequestHome(c, g)'
    BY <1>1, <1>3, LeftHome
  <2>14. Homes(g)'
    BY <2>7, <2>11, <2>12, <2>13, HomesKept
  <2>15. Len(inos) \in Nat
    <3> HIDE DEF objs, key
    <3>1. inos \in Seq({inos[j] : j \in DOMAIN objs})
      BY <2>2
    <3> HIDE DEF inos
    <3> QED BY <3>1
  <2>16. IsLru(lru')
    <3> HIDE DEF inos
    <3> QED BY <1>3, <2>15, TouchAllKeeps
  <2> QED BY <2>14, <2>16
<1> QED BY <1>2, <1>3 DEF readdirNode, Quit, persistent

-----------------------------------------------------------------------------
(* The other steps of requests *)

\* A step that gives no inode number and changes no open node.
LEMMA RequestMovesHome ==
    ASSUME HandleInv, NEW h, Homes(h), NEW c \in Client, NEW r, req' = [req EXCEPT ![c] = r],
           UNCHANGED nextIno, CatalogHome(db', h, nextIno), PathsKept, RequestHome(c, h)'
    PROVE  Homes(h)'
<1>1. nextIno' \in Nat /\ nextIno <= nextIno' /\ CatalogHome(db', h, nextIno')
  BY DEF HandleInv
<1>2. OpenHome(h)'
  BY DEF Homes, OpenHome, PathsKept
<1>3. \A i \in Ino : i < nextIno => h[i] = h[i]
  OBVIOUS
<1> QED BY <1>1, <1>2, <1>3, HomesKept

\* openNode gives a path that the catalog does not know an inode number.
LEMMA openNodeHomes ==
    ASSUME HandleInv, NEW h, Homes(h), "rename" \notin Ops,
           NEW c \in Client, NEW op, NEW p \in Path, NEW q, openNode(c, op, p, q)
    PROVE  \E g : Homes(g)'
<1>1. op # "rename" /\ UNCHANGED <<db, open>>
  BY DEF openNode, CanBegin
<1>2. /\ CatalogTyped(db) /\ nextIno \in Nat \ {0} /\ CatalogHome(db, h, nextIno)
      /\ OpenHome(h)
  BY DEF HandleInv, Homes
<1> DEFINE Begun(n) == [Idle EXCEPT !.pc = "insert", !.op = op, !.path = p, !.to = q,
                        !.ino = n.ino, !.node = n]
<1>3. ASSUME NEW n
      PROVE  /\ Begun(n).pc = "insert" /\ Begun(n).op = op
             /\ Begun(n).ino = n.ino /\ Begun(n).node = n
  <2> DEFINE r1 == [Idle EXCEPT !.pc = "insert"]
             r2 == [r1 EXCEPT !.op = op]
             r3 == [r2 EXCEPT !.path = p]
             r4 == [r3 EXCEPT !.to = q]
             r5 == [r4 EXCEPT !.ino = n.ino]
  <2>1. Begun(n) = [r5 EXCEPT !.node = n]
    OBVIOUS
  <2>2. IsRequest(r1) /\ r1.pc = "insert"
    BY IdleRequest DEF IsRequest
  <2> HIDE DEF Begun, r1
  <2>3. IsRequest(r2) /\ r2.pc = "insert" /\ r2.op = op
    BY <2>2 DEF IsRequest
  <2> HIDE DEF r2
  <2>4. IsRequest(r3) /\ r3.pc = "insert" /\ r3.op = op
    BY <2>3 DEF IsRequest
  <2> HIDE DEF r3
  <2>5. IsRequest(r4) /\ r4.pc = "insert" /\ r4.op = op
    BY <2>4 DEF IsRequest
  <2> HIDE DEF r4
  <2>6. IsRequest(r5) /\ r5.pc = "insert" /\ r5.op = op /\ r5.ino = n.ino
    BY <2>5 DEF IsRequest
  <2> HIDE DEF r5
  <2> QED BY <2>1, <2>6 DEF IsRequest
<1>4. CASE Get(db, p) # NoNode
  <2> DEFINE n == FromDb(Get(db, p))
             r == Begun(n)
  <2>1. n.ino = Get(db, p).ino /\ n.path = Get(db, p).path
    BY DEF FromDb
  <2>2. Request(c, r) /\ UNCHANGED nextIno
    <3>1. Request(c, [Idle EXCEPT !.pc = "insert", !.op = op, !.path = p, !.to = q,
                      !.ino = Get(db, p).ino, !.node = n]) /\ UNCHANGED nextIno
      BY <1>4 DEF openNode
    <3> HIDE DEF n
    <3> QED BY <2>1, <3>1
  <2>3. n.ino < nextIno /\ n.path = h[n.ino]
    BY <1>2, <1>4, <2>1 DEF CatalogHome
  <2> HIDE DEF n
  <2>4. r.pc = "insert" /\ r.op = op /\ r.ino = n.ino /\ r.node = n
    BY <1>3
  <2> HIDE DEF r
  <2>5. req' = [req EXCEPT ![c] = r] /\ req'[c] = r
    BY <2>2, Requested
  <2>6. RequestHome(c, h)'
    BY <1>1, <2>2, <2>3, <2>4, <2>5 DEF RequestHome
  <2>7. PathsKept /\ CatalogHome(db', h, nextIno)
    BY <1>1, <1>2 DEF PathsKept
  <2> QED BY <2>2, <2>5, <2>6, <2>7, RequestMovesHome
<1>5. CASE Get(db, p) = NoNode
  <2> DEFINE n == NewNode(nextIno, p)
             r == Begun(n)
  <2>1. n.ino = nextIno /\ n.path = p
    BY DEF NewNode
  <2>2. Request(c, r) /\ nextIno <= MaxIno /\ nextIno' = nextIno + 1
    <3>1. /\ Request(c, [Idle EXCEPT !.pc = "insert", !.op = op, !.path = p, !.to = q,
                         !.ino = nextIno, !.node = n])
          /\ nextIno <= MaxIno /\ nextIno' = nextIno + 1
      BY <1>5 DEF openNode, NextIno
    <3> HIDE DEF n
    <3> QED BY <2>1, <3>1
  <2>3. Ino \subseteq Nat /\ nextIno \in Ino
    BY <1>2, <2>2, CacheAssumption
  <2>4. PICK g : g[nextIno] = p /\ \A i \in Ino : i < nextIno => g[i] = h[i]
    <3> DEFINE f == [i \in Ino |-> IF i = nextIno THEN p ELSE h[i]]
    <3>1. f[nextIno] = p /\ \A i \in Ino : i < nextIno => f[i] = h[i]
      BY <1>2, <2>3
    <3> QED BY <3>1
  <2> HIDE DEF n
  <2>5. r.pc = "insert" /\ r.op = op /\ r.ino = nextIno /\ r.node = n
    BY <1>3, <2>1
  <2> HIDE DEF r
  <2>6. req' = [req EXCEPT ![c] = r] /\ req'[c] = r
    BY <2>2, Requested
  <2>7. nextIno' \in Nat /\ nextIno <= nextIno' /\ nextIno < nextIno'
    BY <1>2, <2>2
  <2>8. RequestHome(c, g)'
    BY <1>1, <2>1, <2>4, <2>5, <2>6, <2>7 DEF RequestHome
  <2>9. CatalogHome(db', g, nextIno')
    <3>1. ASSUME NEW k \in Path, Get(db, k) # NoNode
          PROVE  /\ Get(db, k).ino < nextIno' /\ g[Get(db, k).ino] = k
                 /\ Get(db, k).path = k
      <4>1. /\ Get(db, k).ino < nextIno /\ h[Get(db, k).ino] = k /\ Get(db, k).path = k
            /\ Get(db, k).ino \in Ino
        BY <1>2, <3>1 DEF CatalogHome, CatalogTyped
      <4>2. Get(db, k).ino \in Nat
        BY <2>3, <4>1
      <4> QED BY <1>2, <2>2, <2>4, <4>1, <4>2
    <3> QED BY <1>1, <3>1 DEF CatalogHome
  <2>10. OpenHome(g)'
    <3>1. ASSUME NEW i \in Ino, open[i] # NoNode PROVE i < nextIno' /\ open[i].path = g[i]
      <4>1. i < nextIno /\ open[i].path = h[i]
        BY <1>2, <3>1 DEF OpenHome
      <4> QED BY <1>2, <2>2, <2>3, <2>4, <4>1
    <3> QED BY <1>1, <3>1 DEF OpenHome
  <2> QED BY <2>4, <2>6, <2>7, <2>8, <2>9, <2>10, HomesKept
<1> QED BY <1>4, <1>5

\* A request on a handle begins.
LEMMA beginHandleHome ==
    ASSUME HandleInv, NEW h, Homes(h), NEW c \in Client, NEW op, beginHandle(c, op)
    PROVE  Homes(h)'
<1>1. op # "rename" /\ UNCHANGED <<db, nextIno, open>>
  BY DEF beginHandle, HandleOps, persistent
<1> DEFINE r == [Idle EXCEPT !.pc = "key", !.op = op, !.ino = fh[c]]
<1>2. r.pc = "key" /\ r.op = op
  <2> DEFINE r1 == [Idle EXCEPT !.pc = "key"]
             r2 == [r1 EXCEPT !.op = op]
  <2>1. r = [r2 EXCEPT !.ino = fh[c]]
    OBVIOUS
  <2>2. IsRequest(r1) /\ r1.pc = "key"
    BY IdleRequest DEF IsRequest
  <2> HIDE DEF r, r1
  <2>3. IsRequest(r2) /\ r2.pc = "key" /\ r2.op = op
    BY <2>2 DEF IsRequest
  <2> HIDE DEF r2
  <2> QED BY <2>1, <2>3 DEF IsRequest
<1>3. Request(c, r)
  BY DEF beginHandle
<1> HIDE DEF r
<1>4. req' = [req EXCEPT ![c] = r] /\ req'[c] = r
  BY <1>3, Requested
<1>5. RequestHome(c, h)'
  BY <1>1, <1>2, <1>4 DEF RequestHome
<1>6. PathsKept /\ CatalogHome(db', h, nextIno)
  BY <1>1 DEF PathsKept, Homes
<1> QED BY <1>1, <1>4, <1>5, <1>6, RequestMovesHome

\* The key that a request reads is the path of its inode number.
LEMMA readKeyHome ==
    ASSUME HandleInv, NEW h, Homes(h), NEW c \in Client, readKey(c)
    PROVE  Homes(h)'
<1>1. req[c].pc = "key" /\ UNCHANGED <<db, nextIno, open>>
  BY DEF readKey, persistent
<1>2. IsRequest(req[c]) /\ RequestHome(c, h)
  BY DEF HandleInv, RequestTyped, Homes
<1>3. open[req[c].ino].path = h[req[c].ino]
  BY <1>1, RequestIsHome
<1> DEFINE r == [req[c] EXCEPT !.pc = "cs", !.key = open[req[c].ino].path]
<1>4. /\ r.pc = "cs" /\ r.op = req[c].op /\ r.ino = req[c].ino
      /\ r.key = open[req[c].ino].path
  <2> DEFINE s == [req[c] EXCEPT !.pc = "cs"]
  <2>1. IsRequest(s) /\ s.pc = "cs" /\ s.op = req[c].op /\ s.ino = req[c].ino
    BY <1>2 DEF IsRequest
  <2>2. r = [s EXCEPT !.key = open[req[c].ino].path]
    OBVIOUS
  <2> HIDE DEF r, s
  <2> QED BY <2>1, <2>2 DEF IsRequest
<1>5. Request(c, r)
  BY DEF readKey
<1> HIDE DEF r
<1>6. req' = [req EXCEPT ![c] = r] /\ req'[c] = r
  BY <1>5, Requested
<1>7. RequestHome(c, h)'
  BY <1>2, <1>3, <1>4, <1>6 DEF RequestHome
<1>8. PathsKept /\ CatalogHome(db', h, nextIno)
  BY <1>1 DEF PathsKept, Homes
<1> QED BY <1>1, <1>6, <1>7, <1>8, RequestMovesHome

\* The node that insertNode enters has the path of its inode number.
LEMMA insertNodeHome ==
    ASSUME HandleInv, NEW h, Homes(h), NEW c \in Client, insertNode(c)
    PROVE  Homes(h)'
<1> DEFINE i == req[c].ino
           n == IF open[i] = NoNode THEN req[c].node ELSE open[i]
           m == Reference(n)
           r == [req[c] EXCEPT !.pc = "key", !.node = NoNode]
<1>1. /\ req[c].pc = "insert" /\ open' = [open EXCEPT ![i] = m]
      /\ Request(c, r) /\ UNCHANGED <<db, nextIno>>
  BY DEF insertNode, persistent
<1>2. /\ OpenTyped /\ IsRequest(req[c]) /\ i \in Ino /\ IsNode(req[c].node)
      /\ RequestHome(c, h) /\ OpenHome(h) /\ nextIno \in Nat
      /\ CatalogHome(db, h, nextIno)
  BY <1>1 DEF HandleInv, RequestTyped, Homes
<1>3. IsNode(n) /\ n.path = h[i] /\ i < nextIno
  BY <1>1, <1>2 DEF OpenTyped, OpenHome, RequestHome
<1>4. m.path = h[i]
  <2> HIDE DEF n
  <2> QED BY <1>3 DEF Reference, IsNode
<1>5. r.pc = "key" /\ r.op = req[c].op
  <2> DEFINE s == [req[c] EXCEPT !.pc = "key"]
  <2>1. IsRequest(s) /\ s.pc = "key" /\ s.op = req[c].op
    BY <1>2 DEF IsRequest
  <2>2. r = [s EXCEPT !.node = NoNode]
    OBVIOUS
  <2> HIDE DEF r, s
  <2> QED BY <2>1, <2>2 DEF IsRequest
<1> HIDE DEF n, m, r
<1>6. req' = [req EXCEPT ![c] = r] /\ req'[c] = r
  BY <1>1, Requested
<1>7. RequestHome(c, h)'
  BY <1>2, <1>5, <1>6 DEF RequestHome
<1>8. open'[i] = m /\ \A j \in Ino \ {i} : open'[j] = open[j]
  BY <1>1, <1>2 DEF OpenTyped
<1>9. OpenHome(h)'
  <2>1. ASSUME NEW j \in Ino, open'[j] # NoNode PROVE j < nextIno' /\ open'[j].path = h[j]
    <3>1. CASE j = i
      BY <1>1, <1>3, <1>4, <1>8, <3>1
    <3>2. CASE j # i
      BY <1>1, <1>2, <1>8, <2>1, <3>2 DEF OpenHome
    <3> QED BY <3>1, <3>2
  <2> QED BY <2>1 DEF OpenHome
<1>10. \A j \in Ino : j < nextIno => h[j] = h[j]
  OBVIOUS
<1>11. nextIno' \in Nat /\ nextIno <= nextIno' /\ CatalogHome(db', h, nextIno')
  BY <1>1, <1>2
<1> QED BY <1>6, <1>7, <1>9, <1>10, <1>11, HomesKept

\* The node that a Close has taken out of openmap keeps its path.
LEMMA DereferenceHome ==
    ASSUME HandleInv, NEW h, Homes(h), NEW c \in Client, NEW i \in Ino, open[i] # NoNode,
           Dereference(c, i), UNCHANGED <<db, nextIno>>
    PROVE  Homes(h)'
<1>1. /\ OpenTyped /\ IsNode(open[i]) /\ i < nextIno /\ open[i].path = h[i]
      /\ CatalogHome(db, h, nextIno)
  BY DEF HandleInv, OpenTyped, Homes, OpenHome
<1>2. PathsKept
  <2>1. CASE open' = [open EXCEPT ![i] = NoNode]
    BY <1>1, <2>1 DEF OpenTyped, PathsKept
  <2>2. CASE open' = [open EXCEPT ![i].ref = @ - 1]
    <3> DEFINE m == [open[i] EXCEPT !.ref = open[i].ref - 1]
    <3>1. open' = [open EXCEPT ![i] = m]
      BY <1>1, <2>2
    <3>2. m.path = open[i].path
      BY <1>1, NodePaths
    <3> HIDE DEF m
    <3> QED BY <1>1, <3>1, <3>2, PathUpdate
  <2> QED BY <2>1, <2>2 DEF Dereference
<1>3. PICK r : /\ Request(c, r) /\ r.op # "rename"
               /\ r.pc \in {"idle", "closing", "touch"}
               /\ r.pc = "closing" => r.ino = i /\ r.node.path = h[i]
  <2>1. CASE Done(c)
    BY <2>1, IdleRequest DEF Done
  <2>2. CASE /\ ClosePc(open[i]) # "idle"
             /\ Request(c, [Idle EXCEPT !.pc = ClosePc(open[i]), !.ino = i,
                            !.node = [open[i] EXCEPT !.ref = 0]])
    <3> DEFINE pc == ClosePc(open[i])
               n == [open[i] EXCEPT !.ref = 0]
               r1 == [Idle EXCEPT !.pc = pc]
               r2 == [r1 EXCEPT !.ino = i]
               r3 == [r2 EXCEPT !.node = n]
    <3>1. pc \in {"closing", "touch"}
      BY <2>2 DEF ClosePc
    <3>2. n.path = h[i]
      BY <1>1, NodePaths
    <3>3. Request(c, r3)
      <4>1. [Idle EXCEPT !.pc = pc, !.ino = i, !.node = n] = r3
        OBVIOUS
      <4> QED BY <2>2, <4>1
    <3> HIDE DEF pc, n
    <3>4. IsRequest(r1) /\ r1.pc = pc /\ r1.op = "none"
      BY IdleRequest DEF IsRequest
    <3> HIDE DEF r1
    <3>5. IsRequest(r2) /\ r2.pc = pc /\ r2.ino = i /\ r2.op = "none"
      BY <3>4 DEF IsRequest
    <3> HIDE DEF r2
    <3>6. r3.pc = pc /\ r3.ino = i /\ r3.node = n /\ r3.op = "none"
      BY <3>5 DEF IsRequest
    <3> HIDE DEF r3
    <3> QED BY <3>1, <3>2, <3>3, <3>6
  <2> QED BY <2>1, <2>2 DEF Dereference
<1>4. req' = [req EXCEPT ![c] = r] /\ req'[c] = r
  BY <1>3, Requested
<1>5. RequestHome(c, h)'
  BY <1>1, <1>3, <1>4 DEF RequestHome
<1>6. CatalogHome(db', h, nextIno)
  BY <1>1
<1> QED BY <1>2, <1>4, <1>5, <1>6, RequestMovesHome

\* The deferred Close, Release, closeAndUpdateNode and the end of closeNode.
LEMMA closeHome ==
    ASSUME HandleInv, NEW h, Homes(h), NEW c \in Client,
           closeRequest(c) \/ release(c) \/ closeAndUpdateNode(c) \/ touchClosed(c)
    PROVE  Homes(h)'
<1>1. CASE closeRequest(c)
  <2>1. req[c].pc = "close" /\ Dereference(c, req[c].ino) /\ UNCHANGED <<db, nextIno>>
    BY <1>1 DEF closeRequest, persistent
  <2>2. req[c].ino \in Ino /\ open[req[c].ino] # NoNode
    BY <2>1, RequestHasNode
  <2> QED BY <2>1, <2>2, DereferenceHome
<1>2. CASE release(c)
  <2>1. fh[c] # 0 /\ Dereference(c, fh[c]) /\ UNCHANGED <<db, nextIno>>
    BY <1>2 DEF release, persistent
  <2>2. fh[c] \in Ino /\ open[fh[c]] # NoNode
    BY <2>1, HandleHasNode
  <2> QED BY <2>1, <2>2, DereferenceHome
<1>3. CASE closeAndUpdateNode(c)
  <2> DEFINE n == req[c].node
             r == [req[c] EXCEPT !.pc = "touch"]
  <2>1. /\ req[c].pc = "closing" /\ UNCHANGED <<nextIno, open>>
        /\ db' = PutNode(db, ToDb(n), n.path)
        /\ req' = [req EXCEPT ![c].pc = "touch"]
    BY <1>3 DEF closeAndUpdateNode, Goto
  <2>2. /\ IsRequest(req[c]) /\ RequestHome(c, h) /\ CatalogTyped(db)
        /\ CatalogHome(db, h, nextIno)
        /\ n.ino = req[c].ino /\ n.ino < nextIno /\ n.path = h[n.ino]
    BY <2>1 DEF HandleInv, RequestTyped, Homes, RequestHome
  <2>3. r.pc = "touch" /\ r.op = req[c].op
    BY <2>2 DEF IsRequest
  <2>4. Request(c, r)
    BY <2>1 DEF Request
  <2> HIDE DEF r
  <2>5. req' = [req EXCEPT ![c] = r] /\ req'[c] = r
    BY <2>4, Requested
  <2>6. RequestHome(c, h)'
    BY <2>2, <2>3, <2>5 DEF RequestHome
  <2>7. ToDb(n).ino = n.ino /\ ToDb(n).path = n.path
    BY DEF ToDb
  <2> HIDE DEF n
  <2>8. CatalogHome(db', h, nextIno)
    BY <2>1, <2>2, <2>7, PutHome
  <2>9. PathsKept
    BY <2>1 DEF PathsKept
  <2> QED BY <2>1, <2>5, <2>6, <2>8, <2>9, RequestMovesHome
<1>4. CASE touchClosed(c)
  <2>1. UNCHANGED <<db, nextIno, open>> /\ Request(c, Idle)
    BY <1>4 DEF touchClosed, Done, persistent
  <2>2. req' = [req EXCEPT ![c] = Idle] /\ req'[c] = Idle
    BY <2>1, Requested
  <2>3. RequestHome(c, h)'
    BY <2>2, IdleRequest DEF RequestHome
  <2>4. PathsKept /\ CatalogHome(db', h, nextIno)
    BY <2>1 DEF PathsKept, Homes
  <2> QED BY <2>1, <2>2, <2>3, <2>4, RequestMovesHome
<1> QED BY <1>1, <1>2, <1>3, <1>4

-----------------------------------------------------------------------------
(* The background loop, start, stop and crash *)

\* A step of the loop leaves the requests alone.
LEMMA LoopHome ==
    ASSUME NEW h, Homes(h), UNCHANGED <<nextIno, req>>, CatalogHome(db', h, nextIno), PathsKept
    PROVE  Homes(h)'
BY DEF Homes, OpenHome, PathsKept, RequestHome

\* The upload stores the node under the path that it has, and an eviction
\* deletes a key.
LEMMA uploadHome ==
    ASSUME HandleInv, NEW h, Homes(h), upload
    PROVE  Homes(h)'
<1> DEFINE n == LockedNode
           v == file[loop.ino]
           m == [n EXCEPT !.sig = v, !.hash = v]
<1>1. /\ n # NoNode /\ db' = PutNode(db, m, n.path) /\ UNCHANGED <<nextIno, req>>
      /\ open' = IF open[loop.ino] = NoNode THEN open
                 ELSE [open EXCEPT ![loop.ino] = [CopyStat(open[loop.ino], v) EXCEPT !.hash = v]]
  BY DEF upload, Uploads
<1>2. /\ OpenTyped /\ CatalogTyped(db) /\ CatalogHome(db, h, nextIno)
  BY DEF HandleInv, Homes
<1>3. IsDbNode(n) /\ n.ino < nextIno /\ h[n.ino] = n.path
  BY <1>1, <1>2, LockedTyped DEF LockedNode, GetWithIno, CatalogHome
<1> HIDE DEF n
<1>4. m.ino = n.ino /\ m.path = n.path
  <2> DEFINE s == [n EXCEPT !.sig = v]
  <2>1. IsDbNode(s) /\ s.ino = n.ino /\ s.path = n.path
    BY <1>3 DEF IsDbNode
  <2>2. m = [s EXCEPT !.hash = v]
    OBVIOUS
  <2> HIDE DEF s, m
  <2> QED BY <2>1, <2>2 DEF IsDbNode
<1>5. CatalogHome(db', h, nextIno)
  <2> HIDE DEF m
  <2> QED BY <1>1, <1>2, <1>3, <1>4, PutHome
<1>6. PathsKept
  <2>1. CASE open' = open
    BY <2>1 DEF PathsKept
  <2>2. CASE open[loop.ino] # NoNode /\ loop.ino \in Ino
    <3>1. IsNode(open[loop.ino])
      BY <1>2, <2>2 DEF OpenTyped
    <3>2. [CopyStat(open[loop.ino], v) EXCEPT !.hash = v].path = open[loop.ino].path
      BY <3>1, NodePaths
    <3> QED BY <1>1, <1>2, <2>2, <3>2, PathUpdate
  <2>3. CASE loop.ino \notin Ino
    BY <1>1, <1>2, <2>1, <2>3 DEF OpenTyped
  <2> QED BY <1>1, <2>1, <2>2, <2>3
<1> QED BY <1>1, <1>5, <1>6, LoopHome

\* An eviction deletes a key and removes a file, which a node may have open.
LEMMA evictHome ==
    ASSUME HandleInv, NEW h, Homes(h), evict
    PROVE  Homes(h)'
<1>1. UNCHANGED <<nextIno, req>>
  BY DEF evict
<1>2. OpenTyped /\ CatalogTyped(db) /\ CatalogHome(db, h, nextIno)
  BY DEF HandleInv, Homes
<1>3. CatalogHome(db', h, nextIno)
  <2>1. db' = db \/ \E k : db' = DeleteNode(db, k)
    BY DEF evict
  <2> QED BY <1>2, <2>1, DeleteHome
<1>4. PathsKept
  <2> DEFINE i == loop.ino
  <2>1. CASE open' = open
    BY <2>1 DEF PathsKept
  <2>2. CASE open[i] # NoNode /\ open' = [open EXCEPT ![i].fd = "orphan"]
    <3>1. CASE i \in Ino
      <4>1. IsNode(open[i])
        BY <1>2, <2>2, <3>1 DEF OpenTyped
      <4>2. [open[i] EXCEPT !.fd = "orphan"].path = open[i].path
        BY <4>1, NodePaths
      <4>3. open' = [open EXCEPT ![i] = [open[i] EXCEPT !.fd = "orphan"]]
        BY <2>2
      <4> QED BY <1>2, <2>2, <3>1, <4>2, <4>3, PathUpdate
    <3>2. CASE i \notin Ino
      BY <1>2, <2>1, <2>2, <3>2 DEF OpenTyped
    <3> QED BY <3>1, <3>2
  <2> QED BY <2>1, <2>2 DEF evict, RemoveFile
<1> QED BY <1>1, <1>3, <1>4, LoopHome

\* A process that has ended has no open nodes and no requests.
LEMMA ShutdownHome ==
    ASSUME NEW h, Homes(h), Shutdown, UNCHANGED <<db, nextIno>>
    PROVE  Homes(h)'
<1>1. /\ open' = [i \in Ino |-> NoNode] /\ req' = [c \in Client |-> Idle]
  BY DEF Shutdown
<1>2. OpenHome(h)'
  BY <1>1 DEF OpenHome
<1>3. \A c \in Client : RequestHome(c, h)'
  BY <1>1, IdleRequest DEF RequestHome
<1>4. CatalogHome(db', h, nextIno')
  BY DEF Homes
<1> QED BY <1>2, <1>3, <1>4 DEF Homes

\* The lists are empty.
LEMMA EmptyLists == IsLru(EmptyLru)
<1>1. <<>> \in Seq(Elems(<<>>)) /\ Elems(<<>>) = {} /\ Distinct(<<>>)
  BY DEF Elems, Distinct
<1> QED BY <1>1 DEF EmptyLru, IsLru, IsList

\* OpenCache lists every catalogued inode once: two keys have two inode numbers.
LEMMA OpenCacheLists ==
    ASSUME HandleInv, NEW h, Homes(h), NEW m, OpenCache(m)
    PROVE  IsLru(lru')
<1> DEFINE kept == [i \in Ino |-> IF GetWithIno(db, i) = NoNode THEN 0 ELSE file[i]]
           T(d) == {k \in Path : Get(db, k) # NoNode /\ Dirty(Get(db, k), kept) = d}
           keys(d) == Sift(KeyOrder, T(d))
           inos(d) == [j \in DOMAIN keys(d) |-> Get(db, keys(d)[j]).ino]
<1>1. lru' = [rw |-> inos(TRUE), ro |-> inos(FALSE)]
  BY DEF OpenCache
<1>2. ASSUME NEW k \in Path, NEW l \in Path, Get(db, k) # NoNode, Get(db, l) # NoNode,
             Get(db, k).ino = Get(db, l).ino
      PROVE  k = l
  BY <1>2, OneHome DEF Homes
<1>3. ASSUME NEW d
      PROVE  /\ IsList(inos(d))
             /\ \A i \in Elems(inos(d)) : \E k \in T(d) : Get(db, k).ino = i
  <2> DEFINE s == keys(d)
             t == inos(d)
  <2>1. s \in Seq(Path) /\ Distinct(s) /\ Elems(s) \subseteq T(d)
    <3> HIDE DEF T
    <3> QED BY CacheAssumption, SiftProps
  <2>2. t = [j \in DOMAIN s |-> Get(db, s[j]).ino]
    OBVIOUS
  <2>3. \A k \in T(d) : k \in Path /\ Get(db, k) # NoNode
    OBVIOUS
  <2> HIDE DEF s, t, T
  <2>4. Len(s) \in Nat /\ DOMAIN s = 1..Len(s)
    BY <2>1
  <2>5. t \in Seq(Elems(t)) /\ DOMAIN t = 1..Len(s)
    <3>1. t \in [1..Len(s) -> Elems(t)]
      BY <2>2, <2>4 DEF Elems
    <3> QED BY <2>4, <3>1
  <2>6. \A j \in 1..Len(s) : s[j] \in T(d) /\ t[j] = Get(db, s[j]).ino
    BY <2>1, <2>2, <2>4 DEF Elems
  <2>7. Distinct(t)
    <3> SUFFICES ASSUME NEW i \in 1..Len(s), NEW j \in 1..Len(s), t[i] = t[j]
                 PROVE  i = j
      BY <2>5 DEF Distinct
    <3>1. s[i] = s[j]
      BY <1>2, <2>3, <2>6
    <3> QED BY <2>1, <2>4, <3>1 DEF Distinct
  <2>8. \A i \in Elems(t) : \E k \in T(d) : Get(db, k).ino = i
    BY <2>5, <2>6 DEF Elems
  <2> QED BY <2>5, <2>7, <2>8 DEF IsList, t
<1>4. T(TRUE) \cap T(FALSE) = {} /\ \A d : \A k \in T(d) : k \in Path /\ Get(db, k) # NoNode
  OBVIOUS
<1> DEFINE rw == inos(TRUE)
           ro == inos(FALSE)
<1>5. /\ IsList(rw) /\ \A i \in Elems(rw) : \E k \in T(TRUE) : Get(db, k).ino = i
      /\ IsList(ro) /\ \A i \in Elems(ro) : \E k \in T(FALSE) : Get(db, k).ino = i
  BY <1>3
<1>6. lru' = [rw |-> rw, ro |-> ro]
  BY <1>1
<1> HIDE DEF T, inos, rw, ro
<1>7. Elems(rw) \cap Elems(ro) = {}
  <2> SUFFICES ASSUME NEW i, i \in Elems(rw), i \in Elems(ro) PROVE FALSE
    OBVIOUS
  <2>1. PICK k \in T(TRUE) : Get(db, k).ino = i
    BY <1>5
  <2>2. PICK l \in T(FALSE) : Get(db, l).ino = i
    BY <1>5
  <2>3. k = l
    BY <1>2, <1>4, <2>1, <2>2
  <2> QED BY <1>4, <2>1, <2>2, <2>3
<1> QED BY <1>5, <1>6, <1>7 DEF IsLru

-----------------------------------------------------------------------------
(* The theorem *)

\* Nothing is catalogued, open or listed at first.
LEMMA InitLists ==
    Init => ListInv
<1> SUFFICES ASSUME Init PROVE ListInv
  OBVIOUS
<1> DEFINE h == [i \in Ino |-> Root]
<1>1. Homes(h)
  BY IdleRequest DEF Init, EmptyDb, Homes, CatalogHome, OpenHome, RequestHome, Get
<1>2. IsLru(lru)
  BY EmptyLists DEF Init
<1> QED BY <1>1, <1>2, InitHandles DEF ListInv

\* The inode numbers that have paths keep them, and new ones get paths.
LEMMA StepHomes ==
    ASSUME HandleInv, IsLru(lru), NEW h, Homes(h), [Next]_vars, "rename" \notin Ops
    PROVE  \E g : Homes(g)'
<1>1. ASSUME NEW c \in Client, Begin(c) PROVE \E g : Homes(g)'
  BY <1>1, openNodeHomes, beginHandleHome, closeHome DEF Begin
<1>2. ASSUME NEW c \in Client, Continue(c) PROVE \E g : Homes(g)'
  <2>1. CASE statNode(c) \/ makeNode(c) \/ removeNode(c) \/ ioFails(c) \/ readAt(c) \/ modifyFile(c)
    BY <2>1, statNodeHome, makeNodeHome, removeNodeHome, fileIoHome, SectionHomes
  <2>2. ~renameNode(c)
    BY DEF renameNode, InSection, Homes, RequestHome
  <2>3. CASE readdirNode(c)
    BY <2>3, readdirNodeHomes
  <2>4. CASE insertNode(c) \/ readKey(c)
    BY <2>4, insertNodeHome, readKeyHome
  <2>5. CASE closeRequest(c) \/ closeAndUpdateNode(c) \/ touchClosed(c)
    BY <2>5, closeHome
  <2> QED BY <1>2, <2>1, <2>2, <2>3, <2>4, <2>5 DEF Continue
<1>3. CASE UNCHANGED <<db, nextIno, open, req>>
  <2>1. PathsKept /\ CatalogHome(db', h, nextIno)
    BY <1>3 DEF PathsKept, Homes
  <2> QED BY <1>3, <2>1, LoopHome
<1>4. CASE Shutdown /\ UNCHANGED <<db, nextIno>>
  BY <1>4, ShutdownHome
<1>5. CASE Background
  <2>1. CASE tick \/ takeUpload \/ endUpload \/ skipUpload \/ failUpload \/ takeEvict
    BY <1>3, <2>1
    DEF tick, takeUpload, endUpload, skipUpload, failUpload, takeEvict, persistent
  <2>2. CASE touchUploaded \/ endEvict
    BY <1>3, <1>4, <2>2 DEF touchUploaded, endEvict, EndReset, EndClose, persistent
  <2> QED BY <1>5, <2>1, <2>2, uploadHome, evictHome DEF Background
<1>6. CASE Lifecycle
  <2>1. CASE (\E m \in {"start", "reset"} : OpenCache(m)) \/ unmount \/ CloseCache
    BY <1>3, <2>1 DEF OpenCache, unmount, CloseCache, persistent
  <2>2. CASE crash \/ crashInUpload
            \/ \E c \in Client : crashInDownload(c) \/ crashInMake(c)
                                 \/ crashInRemove(c) \/ crashInRename(c)
    BY <1>4, <2>2 DEF crash, crashInUpload, crashInDownload, crashInMake, crashInRemove,
                  crashInRename, persistent
  <2> QED BY <1>6, <2>1, <2>2 DEF Lifecycle
<1>7. CASE UNCHANGED vars
  BY <1>3, <1>7 DEF vars, persistent, memory
<1> QED BY <1>1, <1>2, <1>5, <1>6, <1>7 DEF Next

\* Every step that touches the lists keeps an inode on one of them.
LEMMA StepLists ==
    ASSUME HandleInv, IsLru(lru), NEW h, Homes(h), [Next]_vars
    PROVE  IsLru(lru')
<1>1. ASSUME NEW c \in Client, Begin(c) PROVE IsLru(lru')
  BY <1>1 DEF Begin, openNode, beginHandle, release
<1>2. ASSUME NEW c \in Client, Continue(c) PROVE IsLru(lru')
  <2>1. CASE readdirNode(c)
    BY <2>1, readdirNodeHomes
  <2>2. CASE modifyFile(c)
    <3>1. \E i : lru' = touchIno(lru, i, TRUE)
      BY <2>2 DEF modifyFile
    <3> QED BY <3>1, TouchKeeps
  <2>3. CASE touchClosed(c)
    <3>1. \E i : lru' = touchIno(lru, i, FALSE)
      BY <2>3 DEF touchClosed
    <3> QED BY <3>1, TouchKeeps
  <2>4. CASE statNode(c) \/ makeNode(c) \/ removeNode(c) \/ renameNode(c)
    BY <2>4 DEF statNode, makeNode, removeNode, renameNode, Quit
  <2>5. CASE ioFails(c) \/ readAt(c)
    BY <2>5 DEF ioFails, readAt, Quit
  <2>6. CASE insertNode(c) \/ readKey(c) \/ closeRequest(c) \/ closeAndUpdateNode(c)
    BY <2>6 DEF insertNode, readKey, closeRequest, closeAndUpdateNode
  <2> QED BY <1>2, <2>1, <2>2, <2>3, <2>4, <2>5, <2>6 DEF Continue
<1>3. Shutdown => IsLru(lru')
  BY EmptyLists DEF Shutdown
<1>4. CASE Background
  <2>1. CASE takeUpload
    BY <2>1, PopKeeps DEF takeUpload
  <2>2. CASE takeEvict
    BY <2>2, PopKeeps DEF takeEvict
  <2>3. CASE touchUploaded
    <3>1. lru' = touchIno(lru, loop.ino, loop.err) \/ Shutdown
      BY <2>3 DEF touchUploaded, EndClose, TouchBack
    <3> QED BY <1>3, <3>1, TouchKeeps
  <2>4. CASE endEvict
    BY <1>3, <2>4 DEF endEvict, EndClose
  <2>5. CASE tick \/ endUpload \/ skipUpload \/ failUpload \/ upload \/ evict
    BY <2>5 DEF tick, endUpload, skipUpload, failUpload, upload, evict
  <2> QED BY <1>4, <2>1, <2>2, <2>3, <2>4, <2>5 DEF Background
<1>5. CASE Lifecycle
  <2>1. CASE \E m \in {"start", "reset"} : OpenCache(m)
    BY <2>1, OpenCacheLists
  <2>2. CASE unmount \/ CloseCache
    BY <2>2 DEF unmount, CloseCache
  <2>3. CASE crash \/ crashInUpload
            \/ \E c \in Client : crashInDownload(c) \/ crashInMake(c)
                                 \/ crashInRemove(c) \/ crashInRename(c)
    BY <1>3, <2>3 DEF crash, crashInUpload, crashInDownload, crashInMake, crashInRemove,
                  crashInRename
  <2> QED BY <1>5, <2>1, <2>2, <2>3 DEF Lifecycle
<1>6. CASE UNCHANGED vars
  BY <1>6 DEF vars, memory
<1> QED BY <1>1, <1>2, <1>4, <1>5, <1>6 DEF Next

\* An inode that is on the list of inodes to upload is not on the list of those
\* to evict, and it is on either list once: touchIno moves it from one list to
\* the other, readdirNode touches every inode of a listing, uploadOne and
\* evictOne take it off and put it back, and OpenCache sorts the catalog into
\* the lists.  This holds for any number of clients and FUSE workers, any tree
\* of paths, and any faults, evictions, crashes and restarts, as long as nothing
\* is renamed; next to a rename, a write may catalogue an inode under two paths.
THEOREM OneListAtMost ==
    ASSUME ~IsNode(NoNode), "rename" \notin Ops
    PROVE  Spec => []ListsDisjoint
<1>1. ListInv /\ [Next]_vars => ListInv'
  <2> SUFFICES ASSUME ListInv, [Next]_vars PROVE ListInv'
    OBVIOUS
  <2>1. HandleInv /\ IsLru(lru)
    BY DEF ListInv
  <2>2. PICK h : Homes(h)
    BY DEF ListInv
  <2>3. HandleInv'
    BY <2>1, StepHandles
  <2>4. \E g : Homes(g)'
    BY <2>1, <2>2, StepHomes
  <2>5. IsLru(lru')
    BY <2>1, <2>2, StepLists
  <2> QED BY <2>3, <2>4, <2>5 DEF ListInv
<1>2. ListInv => ListsDisjoint
  <2> SUFFICES ASSUME IsLru(lru) PROVE ListsDisjoint
    BY DEF ListInv
  <2>1. Distinct(lru.rw) /\ Distinct(lru.ro) /\ Elems(lru.rw) \cap Elems(lru.ro) = {}
    BY DEF IsLru, IsList
  <2> QED BY <2>1 DEF ListsDisjoint, Distinct
<1> QED BY <1>1, <1>2, InitLists, PTL DEF Spec

=============================================================================
