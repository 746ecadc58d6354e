------------------------- MODULE CacheSerialProofs --------------------------
(***************************************************************************)
(* Theorems about Cache for a mount that runs one request at a time: the   *)
(* catalog, openmap, the handles, the presence cache and the lists agree,  *)
(* next to the background loop, with any faults, crashes and restarts.     *)
(***************************************************************************)
EXTENDS CacheProofs

-----------------------------------------------------------------------------
(* The inductive invariant *)

\* One request at a time, none of them a rename; a second client only as long as
\* nothing is evicted while the file system is mounted; and no kill between the
\* removal of an object and that of its catalog entry.
Serial ==
    /\ MaxInFlight <= 1
    /\ "rename" \notin Ops
    /\ Evicts => \A c, d \in Client : c = d
    /\ Crashes \cap {"remove", "rename"} = {}

\* The catalog has inode i at path p.
Lists(i, p) == Get(db, p) # NoNode /\ Get(db, p).ino = i

\* The request of client c has a node in hand that is not in openmap yet, or no
\* longer.
Hand(c) == req[c].pc \in {"insert", "closing"}

\* Node n of inode i is in openmap or in the hand of a request.
Bears(i, n) ==
    \/ open[i] # NoNode /\ open[i] = n
    \/ \E c \in Client : Hand(c) /\ req[c].ino = i /\ req[c].node = n

\* The storage has what the users see, and directories where they see them.
NameOK(p) ==
    /\ storage[p] = 0 <=> expect[p] = 0
    /\ storage[p] = Dir <=> expect[p] = Dir

\* What the catalog has is there, and only files have cache files.
CatalogOK(p) ==
    Get(db, p) # NoNode =>
        /\ storage[p] # 0
        /\ Get(db, p).sig = Dir <=> storage[p] = Dir
        /\ storage[p] = Dir => file[Get(db, p).ino] = 0

\* The node agrees with the catalog and the storage: a deleted node is not in
\* the catalog, nor is one that has not been found yet; any other has its path
\* to itself.
NodeOK(i, n) ==
    /\ n.path \in Path
    /\ n.deleted => ~Lists(i, n.path)
    /\ ~n.valid => ~Lists(i, n.path) /\ file[i] = 0 /\ n.fd = "none"
    /\ ~n.deleted =>
        /\ Get(db, n.path) = NoNode \/ Get(db, n.path).ino = i
        /\ n.valid => storage[n.path] # 0 /\ (n.sig = Dir <=> storage[n.path] = Dir)
        /\ file[i] # 0 => Lists(i, n.path)
        /\ ~Evicts /\ n.valid => Lists(i, n.path)

\* An open file has its cache file, which is catalogued, unless it is deleted.
LinkedOK(i) ==
    open[i] # NoNode /\ ~open[i].deleted /\ open[i].fd # "none" =>
        open[i].fd = "linked" /\ Lists(i, open[i].path) /\ file[i] # 0

\* No two inodes share a path, except those that were deleted.
Unique ==
    \A i, j \in Ino : \A m, n :
        Bears(i, m) /\ Bears(j, n) /\ ~m.deleted /\ ~n.deleted /\ m.path = n.path => i = j

DataInv ==
    /\ \A p \in Path : NameOK(p) /\ CatalogOK(p)
    /\ \A i \in Ino : LinkedOK(i) /\ \A n : Bears(i, n) => NodeOK(i, n)
    /\ Unique
    /\ Consistent(db)

\* At most one request is in progress, and only while the file system is mounted.
Alone ==
    /\ \A c, d \in Client : req[c].pc # "idle" /\ req[d].pc # "idle" => c = d
    /\ mode # "run" => \A c \in Client : req[c].pc = "idle"

\* The background loop is forced when the cache starts and stops, and has an inode
\* number in hand between taking it off a list and putting it back.
Phases ==
    /\ mode \in {"down", "start", "reset", "run", "stop"}
    /\ loop = [pc |-> loop.pc, ino |-> loop.ino, err |-> loop.err, force |-> loop.force]
    /\ loop.pc \in {"idle", "upload", "upcs", "uptouch", "evict", "evcs"}
    /\ mode = "down" => loop.pc = "idle"
    /\ mode \in {"start", "reset"} => loop.force
    /\ loop.force => mode \in {"start", "reset", "stop"}
    /\ loop.pc = "evcs" /\ ~Evicts => loop.force
    /\ IF loop.pc \in {"upcs", "uptouch", "evcs"} THEN loop.ino \in Ino ELSE loop.ino = 0
    /\ mode \in {"down", "start", "reset"} =>
        (\A i \in Ino : open[i] = NoNode) /\ (\A c \in Client : fh[c] = 0)

\* What a request of client c may rely on at each of its steps: between openNode
\* and Close the node it works on is the one of its path, and after Close nobody
\* has it open.
ReqOK(c) ==
    LET r == req[c]
        n == open[r.ino]
    IN
    /\ r.pc \in {"idle", "insert", "key", "cs", "close", "closing", "touch"}
    /\ r.pc # "idle" /\ r.op \in PathOps => fh[c] = 0 /\ r.path \in Path
    /\ r.pc = "insert" =>
        /\ r.node.path = r.path /\ ~r.node.deleted /\ r.node.fd = "none"
        /\ open[r.ino] # NoNode => ~open[r.ino].deleted
        /\ ~r.node.valid => open[r.ino] = NoNode
    /\ r.pc \in {"key", "cs"} /\ r.op \in PathOps => n.path = r.path /\ ~n.deleted
    /\ r.pc \in {"key", "cs"} /\ r.op \in {"read", "write", "ftruncate", "fshrink"} => n.sig # Dir
    /\ r.pc \in {"insert", "key", "cs"} /\ r.op \in {"truncate", "shrink"} => expect[r.path] # Dir
    /\ r.pc \in {"insert", "key", "cs"} /\ r.op \in Modifies \cup {"create"} => nextVer <= MaxVer
    /\ r.pc \in {"closing", "touch"} => fh[c] = 0
    /\ r.pc = "closing" => ~r.node.deleted /\ r.node.valid /\ open[r.ino] = NoNode

\* The handle of client c stands for the path of its node until that is deleted.
HandleOK(c) ==
    fh[c] # 0 => /\ open[fh[c]].valid
                 /\ name[c] = IF open[fh[c]].deleted THEN NoPath ELSE open[fh[c]].path

-----------------------------------------------------------------------------
(* Nodes *)

\* Two nodes that differ in their references at most.
Alike(m, n) ==
    /\ m.ino = n.ino /\ m.path = n.path /\ m.sig = n.sig /\ m.hash = n.hash
    /\ m.valid = n.valid /\ m.deleted = n.deleted /\ m.fd = n.fd

\* Node m has these fields.
Fields(m, ino, path, sig, hash, valid, deleted, fd, ref) ==
    /\ IsNode(m)
    /\ m.ino = ino /\ m.path = path /\ m.sig = sig /\ m.hash = hash
    /\ m.valid = valid /\ m.deleted = deleted /\ m.fd = fd /\ m.ref = ref

\* The fields of a node with another signature ...
LEMMA SetSig ==
    ASSUME NEW n, IsNode(n), NEW x
    PROVE  Fields([n EXCEPT !.sig = x],
                  n.ino, n.path, x, n.hash, n.valid, n.deleted, n.fd, n.ref)
<1> DEFINE m == [n EXCEPT !.sig = x]
<1>1. m = [ino |-> n.ino, path |-> n.path, sig |-> x, hash |-> n.hash,
           valid |-> n.valid, deleted |-> n.deleted, fd |-> n.fd, ref |-> n.ref]
  BY DEF IsNode
<1> HIDE DEF m
<1>2. Fields(m, n.ino, n.path, x, n.hash, n.valid, n.deleted, n.fd, n.ref)
  BY <1>1 DEF IsNode, Fields
<1> QED BY <1>2 DEF m

\* ... with another hash ...
LEMMA SetHash ==
    ASSUME NEW n, IsNode(n), NEW x
    PROVE  Fields([n EXCEPT !.hash = x],
                  n.ino, n.path, n.sig, x, n.valid, n.deleted, n.fd, n.ref)
<1> DEFINE m == [n EXCEPT !.hash = x]
<1>1. m = [ino |-> n.ino, path |-> n.path, sig |-> n.sig, hash |-> x,
           valid |-> n.valid, deleted |-> n.deleted, fd |-> n.fd, ref |-> n.ref]
  BY DEF IsNode
<1> HIDE DEF m
<1>2. Fields(m, n.ino, n.path, n.sig, x, n.valid, n.deleted, n.fd, n.ref)
  BY <1>1 DEF IsNode, Fields
<1> QED BY <1>2 DEF m

\* ... that has been found ...
LEMMA SetValid ==
    ASSUME NEW n, IsNode(n), NEW x
    PROVE  Fields([n EXCEPT !.valid = x],
                  n.ino, n.path, n.sig, n.hash, x, n.deleted, n.fd, n.ref)
<1> DEFINE m == [n EXCEPT !.valid = x]
<1>1. m = [ino |-> n.ino, path |-> n.path, sig |-> n.sig, hash |-> n.hash,
           valid |-> x, deleted |-> n.deleted, fd |-> n.fd, ref |-> n.ref]
  BY DEF IsNode
<1> HIDE DEF m
<1>2. Fields(m, n.ino, n.path, n.sig, n.hash, x, n.deleted, n.fd, n.ref)
  BY <1>1 DEF IsNode, Fields
<1> QED BY <1>2 DEF m

\* ... or deleted ...
LEMMA SetDeleted ==
    ASSUME NEW n, IsNode(n), NEW x
    PROVE  Fields([n EXCEPT !.deleted = x],
                  n.ino, n.path, n.sig, n.hash, n.valid, x, n.fd, n.ref)
<1> DEFINE m == [n EXCEPT !.deleted = x]
<1>1. m = [ino |-> n.ino, path |-> n.path, sig |-> n.sig, hash |-> n.hash,
           valid |-> n.valid, deleted |-> x, fd |-> n.fd, ref |-> n.ref]
  BY DEF IsNode
<1> HIDE DEF m
<1>2. Fields(m, n.ino, n.path, n.sig, n.hash, n.valid, x, n.fd, n.ref)
  BY <1>1 DEF IsNode, Fields
<1> QED BY <1>2 DEF m

\* ... with its file open or closed ...
LEMMA SetFd ==
    ASSUME NEW n, IsNode(n), NEW x
    PROVE  Fields([n EXCEPT !.fd = x],
                  n.ino, n.path, n.sig, n.hash, n.valid, n.deleted, x, n.ref)
<1> DEFINE m == [n EXCEPT !.fd = x]
<1>1. m = [ino |-> n.ino, path |-> n.path, sig |-> n.sig, hash |-> n.hash,
           valid |-> n.valid, deleted |-> n.deleted, fd |-> x, ref |-> n.ref]
  BY DEF IsNode
<1> HIDE DEF m
<1>2. Fields(m, n.ino, n.path, n.sig, n.hash, n.valid, n.deleted, x, n.ref)
  BY <1>1 DEF IsNode, Fields
<1> QED BY <1>2 DEF m

\* ... and with other references.
LEMMA SetRef ==
    ASSUME NEW n, IsNode(n), NEW x
    PROVE  Fields([n EXCEPT !.ref = x],
                  n.ino, n.path, n.sig, n.hash, n.valid, n.deleted, n.fd, x)
<1> DEFINE m == [n EXCEPT !.ref = x]
<1>1. m = [ino |-> n.ino, path |-> n.path, sig |-> n.sig, hash |-> n.hash,
           valid |-> n.valid, deleted |-> n.deleted, fd |-> n.fd, ref |-> x]
  BY DEF IsNode
<1> HIDE DEF m
<1>2. Fields(m, n.ino, n.path, n.sig, n.hash, n.valid, n.deleted, n.fd, x)
  BY <1>1 DEF IsNode, Fields
<1> QED BY <1>2 DEF m

\* What CopyStat leaves and sets.
LEMMA CopyStatFields ==
    ASSUME NEW n, IsNode(n), NEW v
    PROVE  Fields(CopyStat(n, v), n.ino, n.path, v, n.hash, TRUE, n.deleted, n.fd, n.ref)
<1> DEFINE s == [n EXCEPT !.sig = v]
           m == [s EXCEPT !.valid = TRUE]
<1>1. Fields(s, n.ino, n.path, v, n.hash, n.valid, n.deleted, n.fd, n.ref)
  BY SetSig
<1>2. CopyStat(n, v) = m
  BY DEF CopyStat
<1> HIDE DEF s
<1>3. Fields(m, s.ino, s.path, s.sig, s.hash, TRUE, s.deleted, s.fd, s.ref)
  BY <1>1, SetValid DEF Fields
<1> HIDE DEF m
<1> QED BY <1>1, <1>2, <1>3 DEF Fields

\* A reference more.
LEMMA ReferenceFields ==
    ASSUME NEW n, IsNode(n)
    PROVE  IsNode(Reference(n)) /\ Alike(Reference(n), n)
<1> DEFINE r == n.ref + 1
           m == [n EXCEPT !.ref = r]
<1>1. Reference(n) = m
  BY DEF Reference
<1> HIDE DEF r
<1>2. Fields(m, n.ino, n.path, n.sig, n.hash, n.valid, n.deleted, n.fd, r)
  BY SetRef
<1> HIDE DEF m
<1> QED BY <1>1, <1>2 DEF Alike, Fields

\* The node after its file has been made available.
LEMMA IoNodeFields ==
    ASSUME NEW n, IsNode(n), NEW x
    PROVE  IF Fetches(n)
           THEN Fields(IoNode(n, x), n.ino, n.path, storage[n.path], x, TRUE,
                       n.deleted, "linked", n.ref)
           ELSE Fields(IoNode(n, x), n.ino, n.path, n.sig, n.hash, n.valid,
                       n.deleted, IF n.fd = "none" THEN "linked" ELSE n.fd, n.ref)
<1> DEFINE v == storage[n.path]
           a == CopyStat(n, v)
           b == [a EXCEPT !.hash = x]
           d == [b EXCEPT !.fd = "linked"]
           e == [n EXCEPT !.fd = "linked"]
<1>1. IoNode(n, x) = IF Fetches(n) THEN d ELSE IF n.fd = "none" THEN e ELSE n
  BY DEF IoNode
<1>2. Fields(a, n.ino, n.path, v, n.hash, TRUE, n.deleted, n.fd, n.ref)
  <2> HIDE DEF v
  <2> QED BY CopyStatFields
<1> HIDE DEF v, a
<1>3. Fields(b, a.ino, a.path, a.sig, x, a.valid, a.deleted, a.fd, a.ref)
  BY <1>2, SetHash DEF Fields
<1> HIDE DEF b
<1>4. Fields(d, b.ino, b.path, b.sig, b.hash, b.valid, b.deleted, "linked", b.ref)
  BY <1>3, SetFd DEF Fields
<1>5. Fields(e, n.ino, n.path, n.sig, n.hash, n.valid, n.deleted, "linked", n.ref)
  BY SetFd
<1>6. Fields(n, n.ino, n.path, n.sig, n.hash, n.valid, n.deleted, n.fd, n.ref)
  BY DEF Fields
<1> HIDE DEF d, e
<1>7. CASE Fetches(n)
  <2>1. Fields(d, n.ino, n.path, v, x, TRUE, n.deleted, "linked", n.ref)
    BY <1>2, <1>3, <1>4 DEF Fields
  <2> QED BY <1>1, <1>7, <2>1 DEF v
<1>8. CASE ~Fetches(n)
  BY <1>1, <1>5, <1>6, <1>8
<1> QED BY <1>7, <1>8

-----------------------------------------------------------------------------
(* The catalog, key by key *)

\* Storing a node.
LEMMA PutAt ==
    ASSUME NEW d, CatalogTyped(d), NEW n, NEW k, NEW q \in Path
    PROVE  Get(PutNode(d, n, k), q) = IF q = k THEN n ELSE Get(d, q)
<1>1. PutNode(d, n, k).cat = [d.cat EXCEPT ![k] = n]
  BY DEF PutNode
<1> QED BY <1>1 DEF CatalogTyped, Get

\* Deleting a key.
LEMMA DeleteAt ==
    ASSUME NEW d, CatalogTyped(d), NEW k, NEW q \in Path
    PROVE  Get(DeleteNode(d, k), q) = IF q = k THEN NoNode ELSE Get(d, q)
<1>1. CASE Get(d, k) = NoNode
  BY <1>1 DEF DeleteNode
<1>2. CASE Get(d, k) # NoNode
  <2>1. DeleteNode(d, k).cat = [d.cat EXCEPT ![k] = NoNode]
    BY <1>2 DEF DeleteNode
  <2> QED BY <2>1 DEF CatalogTyped, Get
<1> QED BY <1>1, <1>2

\* The loop finds the node of an inode number if the catalog has one.
LEMMA GetByIno ==
    ASSUME CatalogTyped(db), Consistent(db), NEW i \in Ino
    PROVE  /\ \A p \in Path : Lists(i, p) => GetWithIno(db, i) = Get(db, p)
           /\ GetWithIno(db, i) # NoNode =>
                \E p \in Path : Lists(i, p) /\ GetWithIno(db, i) = Get(db, p)
<1>1. ASSUME NEW p \in Path, Lists(i, p) PROVE GetWithIno(db, i) = Get(db, p)
  <2>1. db.idx[i] = p
    BY <1>1 DEF Lists, Consistent
  <2> QED BY <2>1 DEF GetWithIno
<1>2. ASSUME GetWithIno(db, i) # NoNode
      PROVE  \E p \in Path : Lists(i, p) /\ GetWithIno(db, i) = Get(db, p)
  <2>1. db.idx[i] \in Path
    BY <1>2 DEF GetWithIno
  <2>2. db.idx[i] # NoPath
    BY <2>1, AbsentAssumption
  <2>3. GetWithIno(db, i).ino = i
    BY <2>2 DEF Consistent
  <2> QED BY <1>2, <2>1, <2>3 DEF GetWithIno, Lists
<1> QED BY <1>1, <1>2

-----------------------------------------------------------------------------
(* Paths and inodes *)

\* An inode number stands for one path.
LEMMA OnePathEach ==
    ASSUME ListInv, NEW i \in Ino
    PROVE  /\ \A p \in Path : Lists(i, p) => i < nextIno /\ Get(db, p).path = p
           /\ \A p, q \in Path : Lists(i, p) /\ Lists(i, q) => p = q
           /\ \A p \in Path : \A n : Lists(i, p) /\ Bears(i, n) => n.path = p
           /\ \A m, n : Bears(i, m) /\ Bears(i, n) => m.path = n.path
           /\ \A n : Bears(i, n) => i < nextIno
<1>1. PICK h : Homes(h)
  BY DEF ListInv
<1>2. ASSUME NEW p \in Path, Lists(i, p) PROVE i < nextIno /\ h[i] = p /\ Get(db, p).path = p
  BY <1>1, <1>2 DEF Homes, CatalogHome, Lists
<1>3. ASSUME NEW n, Bears(i, n) PROVE i < nextIno /\ n.path = h[i]
  BY <1>1, <1>3 DEF Homes, OpenHome, RequestHome, Bears, Hand
<1> QED BY <1>2, <1>3

\* The key of a section is the path of its node.
LEMMA SectionKey ==
    ASSUME ListInv, NEW c \in Client, req[c].pc = "cs"
    PROVE  req[c].key = open[req[c].ino].path
<1>1. PICK h : Homes(h)
  BY DEF ListInv
<1>2. req[c].key = h[req[c].ino]
  BY <1>1 DEF Homes, RequestHome
<1>3. open[req[c].ino].path = h[req[c].ino]
  BY <1>1, RequestIsHome DEF ListInv
<1> QED BY <1>2, <1>3

\* Inode i has path p to itself.
Owns(i, p) ==
    /\ \A q \in Path : Lists(i, q) => q = p
    /\ \A n : Bears(i, n) => n.path = p
    /\ \A j \in Ino \ {i} : \A n : Bears(j, n) /\ n.path = p => n.deleted
    /\ Get(db, p) # NoNode => Get(db, p).ino = i

\* So does an inode that is in use and not deleted.
LEMMA BearerOwns ==
    ASSUME ListInv, DataInv, NEW i \in Ino, NEW n, Bears(i, n), ~n.deleted
    PROVE  n.path \in Path /\ Owns(i, n.path)
<1>1. NodeOK(i, n) /\ Unique
  BY DEF DataInv
<1>2. \A j \in Ino \ {i} : \A m : Bears(j, m) /\ m.path = n.path => m.deleted
  BY <1>1 DEF Unique
<1>3. n.path \in Path /\ (Get(db, n.path) # NoNode => Get(db, n.path).ino = i)
  BY <1>1 DEF NodeOK
<1>4. /\ \A q \in Path : Lists(i, q) => q = n.path
      /\ \A m : Bears(i, m) => m.path = n.path
  BY OnePathEach
<1> QED BY <1>2, <1>3, <1>4 DEF Owns

\* So does one that is catalogued.
LEMMA ListedOwns ==
    ASSUME ListInv, DataInv, NEW i \in Ino, NEW p \in Path, Lists(i, p)
    PROVE  Owns(i, p)
<1>1. ASSUME NEW j \in Ino \ {i}, NEW n, Bears(j, n), n.path = p, ~n.deleted PROVE FALSE
  <2>1. NodeOK(j, n)
    BY <1>1 DEF DataInv
  <2> QED BY <1>1, <2>1 DEF NodeOK, Lists
<1>2. /\ \A q \in Path : Lists(i, q) => q = p
      /\ \A m : Bears(i, m) => m.path = p
  BY OnePathEach
<1> QED BY <1>1, <1>2 DEF Owns, Lists

-----------------------------------------------------------------------------
(* Steps at one path *)

\* A deleted inode: the catalog does not have it, and whoever holds it knows.
Dead(i) == (\A p \in Path : ~Lists(i, p)) /\ \A n : Bears(i, n)' => n.deleted /\ n.valid

\* A step that changes no data but of deleted inodes: it moves nodes between
\* openmap and hands.
LEMMA QuietData ==
    ASSUME DataInv, CatalogTyped(db), UNCHANGED <<storage, expect, db>>,
           \A i \in Ino : file'[i] = file[i] \/ Dead(i),
           \A i \in Ino : \A n : Bears(i, n)' =>
                \E m : Bears(i, m) /\ (Alike(n, m) \/ (m.path = n.path /\ m.deleted /\ Dead(i))),
           \A i \in Ino : open'[i] # NoNode =>
                \/ open'[i].fd = "none" \/ open'[i].deleted
                \/ open[i] # NoNode /\ Alike(open'[i], open[i])
    PROVE  DataInv'
<1>1. ASSUME NEW p \in Path PROVE NameOK(p)' /\ CatalogOK(p)'
  <2>1. NameOK(p) /\ CatalogOK(p)
    BY DEF DataInv
  <2>2. ASSUME Get(db, p) # NoNode PROVE file'[Get(db, p).ino] = file[Get(db, p).ino]
    BY <2>2 DEF Dead, Lists, CatalogTyped
  <2> QED BY <2>1, <2>2 DEF NameOK, CatalogOK
<1>2. ASSUME NEW i \in Ino, NEW n, Bears(i, n)' PROVE NodeOK(i, n)'
  <2>1. PICK m : Bears(i, m) /\ (Alike(n, m) \/ (m.path = n.path /\ m.deleted /\ Dead(i)))
    BY <1>2
  <2>2. NodeOK(i, m)
    BY <2>1 DEF DataInv
  <2>3. CASE Dead(i)
    BY <1>2, <2>1, <2>2, <2>3 DEF NodeOK, Dead, Lists, Alike
  <2>4. CASE ~Dead(i)
    BY <1>2, <2>1, <2>2, <2>4 DEF NodeOK, Lists, Alike
  <2> QED BY <2>3, <2>4
<1>3. ASSUME NEW i \in Ino PROVE LinkedOK(i)'
  <2> SUFFICES ASSUME open'[i] # NoNode, ~open'[i].deleted, open'[i].fd # "none"
               PROVE  open'[i].fd = "linked" /\ Lists(i, open[i].path)' /\ file'[i] # 0
    BY DEF LinkedOK
  <2>1. open[i] # NoNode /\ Alike(open'[i], open[i])
    OBVIOUS
  <2>2. LinkedOK(i)
    BY DEF DataInv
  <2>3. Bears(i, open[i])'
    BY DEF Bears
  <2>4. file'[i] = file[i]
    BY <2>3 DEF Dead
  <2> QED BY <2>1, <2>2, <2>4 DEF LinkedOK, Lists, Alike
<1>4. Unique'
  <2> SUFFICES ASSUME NEW i \in Ino, NEW j \in Ino, NEW m, NEW n, Bears(i, m)', ~m.deleted,
                      Bears(j, n)', ~n.deleted, m.path = n.path
               PROVE  i = j
    BY DEF Unique
  <2>1. ~Dead(i) /\ ~Dead(j)
    BY DEF Dead
  <2>2. PICK k : Bears(i, k) /\ Alike(m, k)
    BY <2>1
  <2>3. PICK l : Bears(j, l) /\ Alike(n, l)
    BY <2>1
  <2>4. ~k.deleted /\ ~l.deleted /\ k.path = l.path
    BY <2>2, <2>3 DEF Alike
  <2> QED BY <2>2, <2>3, <2>4 DEF DataInv, Unique
<1>5. Consistent(db')
  BY DEF DataInv
<1> QED BY <1>1, <1>2, <1>3, <1>4, <1>5 DEF DataInv

\* A step that changes the data of path p and of inode i, which has p for itself.
LEMMA LocalData ==
    ASSUME DataInv, CatalogTyped(db), NEW i \in Ino, NEW p \in Path,
           Owns(i, p),
           \A q \in Path \ {p} :
                /\ storage'[q] = storage[q] /\ expect'[q] = expect[q]
                /\ Get(db', q) = Get(db, q),
           \A j \in Ino \ {i} : file'[j] = file[j] /\ open'[j] = open[j],
           \A j \in Ino \ {i} : \A n : Bears(j, n)' => Bears(j, n),
           Get(db', p) # NoNode => Get(db', p).ino = i,
           NameOK(p)', CatalogOK(p)', LinkedOK(i)',
           \A n : Bears(i, n)' => n.path = p /\ NodeOK(i, n)',
           Consistent(db')
    PROVE  DataInv'
<1>1. ASSUME NEW q \in Path PROVE NameOK(q)' /\ CatalogOK(q)'
  <2>1. CASE q = p
    BY <2>1
  <2>2. CASE q # p
    <3>1. NameOK(q) /\ CatalogOK(q)
      BY DEF DataInv
    <3>2. NameOK(q)'
      BY <2>2, <3>1 DEF NameOK
    <3>3. ASSUME Get(db, q) # NoNode PROVE Get(db, q).ino \in Ino \ {i}
      BY <2>2, <3>3 DEF CatalogTyped, Lists, Owns
    <3>4. CatalogOK(q)'
      BY <2>2, <3>1, <3>3 DEF CatalogOK
    <3> QED BY <3>2, <3>4
  <2> QED BY <2>1, <2>2
<1>2. ASSUME NEW j \in Ino \ {i}, NEW n, Bears(j, n)' PROVE NodeOK(j, n)'
  <2>1. NodeOK(j, n) /\ (n.path = p => n.deleted) /\ n.path \in Path
    BY <1>2 DEF DataInv, NodeOK, Owns
  <2>2. CASE n.path = p
    <3>1. ~Lists(j, p)'
      BY <2>1, <2>2 DEF NodeOK, Lists
    <3> QED BY <2>1, <2>2, <3>1 DEF NodeOK
  <2>3. CASE n.path # p
    <3>1. Get(db', n.path) = Get(db, n.path) /\ storage'[n.path] = storage[n.path]
      BY <2>1, <2>3
    <3> QED BY <2>1, <3>1 DEF NodeOK, Lists
  <2> QED BY <2>2, <2>3
<1>3. ASSUME NEW j \in Ino \ {i} PROVE LinkedOK(j)'
  <2> SUFFICES ASSUME open[j] # NoNode, ~open[j].deleted, open[j].fd # "none"
               PROVE  open[j].fd = "linked" /\ Lists(j, open[j].path)' /\ file[j] # 0
    BY DEF LinkedOK
  <2>1. LinkedOK(j) /\ Bears(j, open[j])'
    BY DEF DataInv, Bears
  <2>2. open[j].path # p /\ open[j].path \in Path
    BY <2>1 DEF DataInv, NodeOK, Owns
  <2> QED BY <2>1, <2>2 DEF LinkedOK, Lists
<1>4. Unique'
  <2> SUFFICES ASSUME NEW j \in Ino, NEW k \in Ino, NEW m, NEW n, Bears(j, m)', ~m.deleted,
                      Bears(k, n)', ~n.deleted, m.path = n.path
               PROVE  j = k
    BY DEF Unique
  <2>1. CASE j = i \/ k = i
    BY <2>1 DEF Owns
  <2>2. CASE j # i /\ k # i
    BY <2>2 DEF DataInv, Unique
  <2> QED BY <2>1, <2>2
<1> QED BY <1>1, <1>2, <1>3, <1>4 DEF DataInv

-----------------------------------------------------------------------------
(* Requests and the loop take turns *)

\* A request that begins finds no other in progress.
LEMMA BeginsAlone ==
    ASSUME Serial, NEW c \in Client, NEW op, CanBegin(c, op)
    PROVE  /\ mode = "run" /\ op \in Ops
           /\ \A d \in Client : req[d].pc = "idle"
<1>1. InFlight \in SUBSET Client /\ {} \in SUBSET Client
  BY DEF InFlight
<1>2. Cardinality(InFlight) < 1 /\ Cardinality(InFlight) \in Nat
  BY <1>1, ClientSets, CacheAssumption DEF CanBegin, Serial
<1>3. Cardinality({}) \in Nat
  BY <1>1, ClientSets
<1>4. ASSUME NEW d \in InFlight PROVE FALSE
  <2>1. Cardinality({}) + 1 <= Cardinality(InFlight)
    BY <1>1, ClientSets
  <2> QED BY <1>2, <1>3, <2>1
<1> QED BY <1>4 DEF InFlight, CanBegin

\* A step of client c, whose request is the only one.
ClientStep(c) ==
    /\ mode = "run" /\ UNCHANGED <<mode, loop>>
    /\ \A d \in Client \ {c} : req[d].pc = "idle" /\ req'[d] = req[d] /\ fh'[d] = fh[d]

\* Every step of a request is one.
LEMMA ClientSteps ==
    ASSUME Serial, ListInv, Alone, NEW c \in Client, Begin(c) \/ Continue(c)
    PROVE  ClientStep(c)
<1>1. /\ req = [d \in Client |-> req[d]] /\ fh \in [Client -> Ino \cup {0}]
  BY DEF ListInv, HandleInv
<1>2. UNCHANGED <<mode, loop>>
  <2>1. CASE Begin(c)
    BY <2>1 DEF Begin, openNode, beginHandle, release
  <2>2. CASE insertNode(c) \/ readKey(c) \/ closeRequest(c) \/ closeAndUpdateNode(c) \/ touchClosed(c)
    BY <2>2 DEF insertNode, readKey, closeRequest, closeAndUpdateNode, touchClosed
  <2>3. CASE statNode(c) \/ makeNode(c) \/ removeNode(c) \/ renameNode(c)
    BY <2>3 DEF statNode, makeNode, removeNode, renameNode, Quit
  <2>4. CASE readdirNode(c) \/ ioFails(c) \/ readAt(c) \/ modifyFile(c)
    BY <2>4 DEF readdirNode, ioFails, readAt, modifyFile, Quit
  <2> QED BY <2>1, <2>2, <2>3, <2>4 DEF Continue
<1>3. mode = "run" /\ \A d \in Client \ {c} : req[d].pc = "idle"
  <2>1. CASE Begin(c)
    <3>1. \E op : CanBegin(c, op)
      BY <2>1 DEF Begin, openNode, beginHandle, release
    <3> QED BY <3>1, BeginsAlone
  <2>2. CASE Continue(c)
    <3>1. req[c].pc # "idle"
      BY <2>2 DEF Continue, insertNode, readKey, statNode, makeNode, removeNode, renameNode,
         readdirNode, ioFails, readAt, modifyFile, closeRequest, closeAndUpdateNode, touchClosed,
         InSection
    <3> QED BY <3>1 DEF Alone
  <2> QED BY <2>1, <2>2
<1>4. \/ \E r : req' = [req EXCEPT ![c] = r]
      \/ \E pc : req' = [req EXCEPT ![c].pc = pc]
  <2>1. CASE Begin(c)
    BY <2>1 DEF Begin, openNode, beginHandle, release, Dereference, Done, Request
  <2>2. CASE insertNode(c) \/ readKey(c) \/ closeRequest(c) \/ closeAndUpdateNode(c) \/ touchClosed(c)
    BY <2>2 DEF insertNode, readKey, closeRequest, closeAndUpdateNode, touchClosed,
       Dereference, Done, Goto, Request
  <2>3. CASE statNode(c) \/ makeNode(c)
    BY <2>3 DEF statNode, makeNode, Return, Leave, Done, Goto, Request
  <2>4. CASE removeNode(c) \/ renameNode(c) \/ readdirNode(c) \/ ioFails(c) \/ readAt(c) \/ modifyFile(c)
    BY <2>4 DEF removeNode, renameNode, readdirNode, ioFails, readAt, modifyFile,
       Quit, Leave, Done, Goto, Request
  <2> QED BY <2>1, <2>2, <2>3, <2>4 DEF Continue
<1>5. \E x : fh' = [fh EXCEPT ![c] = x]
  <2>1. CASE fh' = fh
    <3>1. fh' = [fh EXCEPT ![c] = fh[c]]
      BY <1>1, <2>1
    <3> QED BY <3>1
  <2>2. CASE Begin(c)
    BY <2>1, <2>2 DEF Begin, openNode, beginHandle, release
  <2>3. CASE insertNode(c) \/ readKey(c) \/ closeRequest(c) \/ closeAndUpdateNode(c) \/ touchClosed(c)
    BY <2>1, <2>3 DEF insertNode, readKey, closeRequest, closeAndUpdateNode, touchClosed
  <2>4. CASE statNode(c) \/ makeNode(c)
    BY <2>1, <2>4 DEF statNode, makeNode, Return
  <2>5. CASE removeNode(c) \/ renameNode(c) \/ readdirNode(c) \/ ioFails(c) \/ readAt(c) \/ modifyFile(c)
    BY <2>1, <2>5 DEF removeNode, renameNode, readdirNode, ioFails, readAt, modifyFile, Quit
  <2> QED BY <2>2, <2>3, <2>4, <2>5 DEF Continue
<1>6. \A d \in Client \ {c} : req'[d] = req[d] /\ fh'[d] = fh[d]
  BY <1>1, <1>4, <1>5
<1> QED BY <1>2, <1>3, <1>6 DEF ClientStep


\* The values of a node's fields.
NodeTyped(n) ==
    /\ n.sig \in Sig /\ n.hash \in Sig
    /\ n.valid \in BOOLEAN /\ n.deleted \in BOOLEAN
    /\ n.fd \in {"none", "linked", "orphan"}

\* The values of the state; TypeOK says the same of what is open.
Typed ==
    /\ storage \in [Path -> 0..Dir]
    /\ expect \in [Path -> 0..MaxVer \cup {Dir}]
    /\ file \in [Ino -> 0..Torn]
    /\ nextVer \in 1..MaxVer + 1
    /\ nextIno \in 1..MaxIno + 1
    /\ db \in Db
    /\ \A i \in Ino : \A n : Bears(i, n) => NodeTyped(n)
    /\ negpres \subseteq Path
    /\ name \in [Client -> Path \cup {NoPath}]
    /\ Elems(lru.rw) \cup Elems(lru.ro) \subseteq Ino

\* openmap counts no more than the references there are.
Exact == \A i \in Ino : Counted(i) <= References(i)

\* Only inode numbers that were handed out have cache files.
Fresh == \A i \in Ino : file[i] # 0 => i < nextIno

\* Somebody will come back to inode i.
Known(i) ==
    \/ i \in Elems(lru.rw) \cup Elems(lru.ro)
    \/ loop.ino = i
    \/ open[i] # NoNode
    \/ \E c \in Client : req[c].pc # "idle" /\ req[c].ino = i

\* Nobody forgets a file, from OpenCache on.
Track ==
    mode # "down" =>
        \A i \in Ino : (\E p \in Path : Lists(i, p)) \/ file[i] # 0 => Known(i)

\* What the requests of all clients may rely on.
ClientsOK == \A c \in Client : ReqOK(c) /\ HandleOK(c)

\* The invariant.
SerialInv ==
    /\ ListInv /\ DataInv /\ Typed
    /\ Alone /\ Phases /\ ClientsOK
    /\ Exact /\ Fresh /\ Track /\ NegCoherent

-----------------------------------------------------------------------------
(* Sections *)

\* What a section knows of its node: nobody has it in hand, and its key is its path.
LEMMA SectionFacts ==
    ASSUME SerialInv, NEW c \in Client, req[c].pc = "cs"
    PROVE  /\ req[c].ino \in Ino /\ req[c].ino < nextIno
           /\ open[req[c].ino] # NoNode /\ IsNode(open[req[c].ino])
           /\ open[req[c].ino].ino = req[c].ino
           /\ open[req[c].ino].path \in Path /\ req[c].key = open[req[c].ino].path
           /\ Bears(req[c].ino, open[req[c].ino])
           /\ NodeOK(req[c].ino, open[req[c].ino]) /\ LinkedOK(req[c].ino)
           /\ NodeTyped(open[req[c].ino])
           /\ req[c].op \in PathOps =>
                /\ req[c].path = open[req[c].ino].path
                /\ ~open[req[c].ino].deleted /\ fh[c] = 0
           /\ req[c].op \notin PathOps => fh[c] = req[c].ino
           /\ \A d \in Client : ~Hand(d)
           /\ \A i \in Ino : \A n : Bears(i, n) <=> open[i] # NoNode /\ open[i] = n
           /\ mode = "run"
<1> DEFINE i == req[c].ino
           n == open[i]
<1>1. /\ i \in Ino /\ n # NoNode /\ IsNode(n) /\ n.ino = i
  BY RequestHasNode DEF SerialInv, ListInv
<1>2. Bears(i, n)
  BY <1>1 DEF Bears
<1>3. NodeOK(i, n) /\ LinkedOK(i) /\ NodeTyped(n)
  BY <1>1, <1>2 DEF SerialInv, DataInv, Typed
<1>4. n.path \in Path
  BY <1>3 DEF NodeOK
<1>5. req[c].key = n.path /\ i < nextIno
  BY <1>1, <1>2, SectionKey, OnePathEach DEF SerialInv
<1>6. ReqOK(c) /\ RequestTyped(c)
  BY DEF SerialInv, ClientsOK, ListInv, HandleInv
<1>7. req[c].op \in PathOps => req[c].path = n.path /\ ~n.deleted /\ fh[c] = 0
  BY <1>6 DEF ReqOK
<1>8. req[c].op \notin PathOps => fh[c] = i
  BY <1>6 DEF RequestTyped
<1>9. (\A d \in Client : ~Hand(d)) /\ mode = "run"
  BY DEF SerialInv, Alone, Hand
<1>10. \A j \in Ino : \A m : Bears(j, m) <=> open[j] # NoNode /\ open[j] = m
  BY <1>9 DEF Bears
<1> QED BY <1>1, <1>2, <1>3, <1>4, <1>5, <1>7, <1>8, <1>9, <1>10

\* How the request of client c leaves its section with node m: it goes on to its Close
\* or ends, it returns a handle, or it has removed its path.
Exits(c, m) ==
    LET n == open[req[c].ino] IN
    /\ req[c].pc = "cs"
    /\ \/ Leave(c) /\ UNCHANGED <<fh, name>> /\ m.deleted = n.deleted
       \/ /\ Return(c, n.path) /\ req[c].op \in PathOps /\ m.valid
          /\ ~m.deleted /\ ~n.deleted
       \/ /\ Goto(c, "close") /\ req[c].op \in PathOps
          /\ UNCHANGED fh /\ name' = Forget(name, n.path)
          /\ m.deleted /\ ~n.deleted

\* Where the request of client c is then.
LEMMA ExitsAre ==
    ASSUME SerialInv, NEW c \in Client, NEW m, Exits(c, m)
    PROVE  /\ req'[c].pc \in {"idle", "close"}
           /\ req'[c].pc = "close" =>
                /\ req[c].op \in PathOps /\ req'[c].op = req[c].op
                /\ req'[c].ino = req[c].ino /\ req'[c].path = req[c].path
                /\ fh' = fh
           /\ req'[c].pc = "idle" /\ req[c].op \in PathOps =>
                fh' = [fh EXCEPT ![c] = req[c].ino]
           /\ req[c].op \notin PathOps => req'[c].pc = "idle" /\ fh' = fh
<1>1. req = [d \in Client |-> req[d]] /\ IsRequest(req[c])
  BY DEF SerialInv, ListInv, HandleInv, RequestTyped
<1>2. CASE req' = [req EXCEPT ![c].pc = "close"]
  <2> DEFINE r == [req[c] EXCEPT !.pc = "close"]
  <2>1. r.pc = "close" /\ r.op = req[c].op /\ r.ino = req[c].ino /\ r.path = req[c].path
    BY <1>1 DEF IsRequest
  <2>2. req'[c] = r
    BY <1>1, <1>2
  <2> HIDE DEF r
  <2>3. fh' = fh /\ req[c].op \in PathOps
    <3>1. ~Done(c)
      BY <1>1, <2>1, <2>2, IdleRequest DEF Done, Request
    <3> QED BY <3>1 DEF Exits, Leave, Return
  <2> QED BY <2>1, <2>2, <2>3
<1>3. CASE req' = [req EXCEPT ![c] = Idle]
  <2>1. req'[c] = Idle /\ req'[c].pc = "idle"
    BY <1>1, <1>3, IdleRequest
  <2>2. ~Goto(c, "close")
    <3> SUFFICES ASSUME req' = [req EXCEPT ![c].pc = "close"] PROVE FALSE
      BY DEF Goto
    <3>1. req'[c] = [req[c] EXCEPT !.pc = "close"]
      BY <1>1
    <3>2. req'[c].pc = "close"
      BY <1>1, <3>1 DEF IsRequest
    <3> QED BY <2>1, <3>2
  <2> QED BY <2>1, <2>2 DEF Exits, Leave, Return
<1> QED BY <1>2, <1>3 DEF Exits, Leave, Return, Done, Goto, Request

\* A step of a client keeps the turns.
LEMMA ClientTurns ==
    ASSUME SerialInv, NEW c \in Client, ClientStep(c)
    PROVE  Alone' /\ Phases'
<1>1. Alone'
  BY DEF ClientStep, Alone
<1>2. Phases'
  BY DEF ClientStep, SerialInv, Phases
<1> QED BY <1>1, <1>2

\* If the counts stay and no reference is dropped, no more than those are counted.
LEMMA ExactKept ==
    ASSUME Exact, OpenTyped, \A i \in Ino : Counted(i)' = Counted(i),
           \A i \in Ino : Handles(i) \subseteq Handles(i)' /\ Requests(i) \subseteq Requests(i)'
    PROVE  Exact'
<1> SUFFICES ASSUME NEW i \in Ino PROVE Counted(i)' <= References(i)'
  BY DEF Exact
<1>1. /\ Handles(i) \in SUBSET Client /\ Requests(i) \in SUBSET Client
      /\ Handles(i)' \in SUBSET Client /\ Requests(i)' \in SUBSET Client
  BY DEF Handles, Requests
<1>2. /\ Cardinality(Handles(i)) <= Cardinality(Handles(i)')
      /\ Cardinality(Requests(i)) <= Cardinality(Requests(i)')
  BY <1>1, ClientSets
<1>3. Counted(i) <= References(i) /\ Counted(i) \in Nat
  BY DEF Exact, Counted, OpenTyped
<1> QED BY <1>2, <1>3, ReferencesAre

\* A section passes its reference on to the Close or to the handle.
LEMMA SectionExact ==
    ASSUME SerialInv, NEW c \in Client, ClientStep(c), SectionStep(c), NEW m, Exits(c, m),
           ~IsNode(NoNode)
    PROVE  Exact'
<1>1. /\ OpenTyped /\ Exact /\ fh \in [Client -> Ino \cup {0}]
      /\ req[c].pc = "cs" /\ req[c].ino \in Ino /\ OpenKept
  BY SectionFacts DEF SerialInv, ListInv, HandleInv, SectionStep
<1>2. \A i \in Ino : Counted(i)' = Counted(i)
  BY <1>1, KeptTyped
<1>3. \A d \in Client \ {c} : req'[d] = req[d] /\ fh'[d] = fh[d]
  BY DEF ClientStep
<1>4. CASE req'[c].pc = "close"
  <2>1. \A i \in Ino : Handles(i) \subseteq Handles(i)' /\ Requests(i) \subseteq Requests(i)'
    BY <1>3, <1>4, ExitsAre DEF Handles, Requests
  <2> QED BY <1>1, <1>2, <2>1, ExactKept
<1>5. CASE req[c].op \notin PathOps
  <2>1. \A i \in Ino : Handles(i) \subseteq Handles(i)' /\ Requests(i) \subseteq Requests(i)'
    BY <1>3, <1>5, ExitsAre DEF Handles, Requests
  <2> QED BY <1>1, <1>2, <2>1, ExactKept
<1>6. CASE req'[c].pc = "idle" /\ req[c].op \in PathOps
  <2> SUFFICES ASSUME NEW i \in Ino PROVE Counted(i)' <= References(i)'
    BY DEF Exact
  <2>1. /\ Handles(i) \in SUBSET Client /\ Requests(i) \in SUBSET Client
        /\ Handles(i)' \in SUBSET Client /\ Requests(i)' \in SUBSET Client
    BY DEF Handles, Requests
  <2>2. Counted(i) <= References(i) /\ Counted(i) \in Nat
    BY <1>1 DEF Exact, Counted, OpenTyped
  <2>3. fh'[c] = req[c].ino /\ fh[c] = 0
    BY <1>1, <1>6, ExitsAre, SectionFacts
  <2>4. i # 0
    BY CacheAssumption
  <2>5. CASE i = req[c].ino
    <3>1. c \in Handles(i)' /\ Handles(i) \subseteq Handles(i)' \ {c}
      BY <1>3, <2>3, <2>4, <2>5 DEF Handles
    <3>2. Requests(i) \subseteq Requests(i)' \cup {c}
      BY <1>3 DEF Requests
    <3>3. /\ Cardinality(Handles(i)) + 1 <= Cardinality(Handles(i)')
          /\ Cardinality(Requests(i)) <= Cardinality(Requests(i)') + 1
      BY <2>1, <3>1, <3>2, ClientSets
    <3> QED BY <1>2, <2>2, <3>3, ReferencesAre
  <2>6. CASE i # req[c].ino
    <3>1. Handles(i) \subseteq Handles(i)' /\ Requests(i) \subseteq Requests(i)'
      BY <1>3, <2>3, <2>4, <2>6 DEF Handles, Requests
    <3>2. /\ Cardinality(Handles(i)) <= Cardinality(Handles(i)')
          /\ Cardinality(Requests(i)) <= Cardinality(Requests(i)')
      BY <2>1, <3>1, ClientSets
    <3> QED BY <1>2, <2>2, <3>2, ReferencesAre
  <2> QED BY <2>5, <2>6
<1> QED BY <1>4, <1>5, <1>6, ExitsAre

\* A section leaves requests and handles in order.
LEMMA SectionClients ==
    ASSUME SerialInv, NEW c \in Client, ClientStep(c), NEW m, Exits(c, m),
           open' = [open EXCEPT ![req[c].ino] = m], m.path = open[req[c].ino].path,
           open[req[c].ino].valid => m.valid
    PROVE  ClientsOK' /\ name' \in [Client -> Path \cup {NoPath}]
<1> DEFINE i == req[c].ino
           n == open[i]
<1>1. /\ req[c].pc = "cs" /\ i \in Ino /\ n # NoNode /\ n.path \in Path
      /\ req[c].op \in PathOps => req[c].path = n.path /\ ~n.deleted /\ fh[c] = 0
      /\ req[c].op \notin PathOps => fh[c] = i
      /\ Bears(i, n)
      /\ \A j \in Ino : \A k : Bears(j, k) <=> open[j] # NoNode /\ open[j] = k
  BY SectionFacts DEF Exits
<1>2. /\ \A d \in Client : ReqOK(d) /\ HandleOK(d)
      /\ Unique /\ (\A j \in Ino : \A k : Bears(j, k) => NodeOK(j, k))
      /\ name \in [Client -> Path \cup {NoPath}] /\ fh \in [Client -> Ino \cup {0}]
      /\ open = [j \in Ino |-> open[j]]
  BY DEF SerialInv, ClientsOK, DataInv, Typed, ListInv, HandleInv, OpenTyped
<1>3. \A d \in Client \ {c} : req[d].pc = "idle" /\ req'[d] = req[d] /\ fh'[d] = fh[d]
  BY DEF ClientStep
<1>4. open'[i] = m /\ \A j \in Ino \ {i} : open'[j] = open[j]
  BY <1>1, <1>2
<1>5. ASSUME NEW d \in Client PROVE ReqOK(d)'
  <2>1. CASE req'[d].pc = "idle"
    BY <2>1 DEF ReqOK
  <2>2. CASE req'[d].pc # "idle"
    <3>1. d = c /\ req'[c].pc = "close" /\ req[c].op \in PathOps /\ fh' = fh
          /\ req'[c].path = req[c].path
      BY <1>3, <2>2, ExitsAre
    <3> QED BY <1>1, <3>1 DEF ReqOK
  <2> QED BY <2>1, <2>2
<1>6. ASSUME NEW d \in Client, fh[d] # 0
      PROVE  /\ fh[d] \in Ino /\ open[fh[d]] # NoNode /\ Bears(fh[d], open[fh[d]])
             /\ open[fh[d]].valid
             /\ name[d] = IF open[fh[d]].deleted THEN NoPath ELSE open[fh[d]].path
             /\ open[fh[d]].path \in Path
  <2>1. fh[d] \in Ino /\ open[fh[d]] # NoNode
    BY <1>6, HandleHasNode DEF SerialInv, ListInv
  <2>2. Bears(fh[d], open[fh[d]])
    BY <2>1 DEF Bears
  <2> QED BY <1>2, <1>6, <2>1, <2>2 DEF HandleOK, NodeOK
<1>7. CASE Leave(c) /\ UNCHANGED <<fh, name>> /\ m.deleted = n.deleted
  <2>1. ASSUME NEW d \in Client PROVE HandleOK(d)'
    BY <1>1, <1>4, <1>6, <1>7 DEF HandleOK
  <2> QED BY <1>2, <1>5, <1>7, <2>1 DEF ClientsOK
<1>8. CASE /\ Return(c, n.path) /\ req[c].op \in PathOps /\ m.valid
           /\ ~m.deleted /\ ~n.deleted
  <2>1. fh'[c] = i /\ name'[c] = n.path /\ \A d \in Client \ {c} : name'[d] = name[d]
    BY <1>2, <1>8 DEF Return
  <2>2. ASSUME NEW d \in Client PROVE HandleOK(d)'
    BY <1>1, <1>3, <1>4, <1>6, <1>8, <2>1 DEF HandleOK
  <2>3. name' \in [Client -> Path \cup {NoPath}]
    BY <1>1, <1>2, <1>8 DEF Return
  <2> QED BY <1>5, <2>2, <2>3 DEF ClientsOK
<1>9. CASE /\ Goto(c, "close") /\ req[c].op \in PathOps
           /\ UNCHANGED fh /\ name' = Forget(name, n.path)
           /\ m.deleted /\ ~n.deleted
  <2>1. \A d \in Client : name'[d] = IF name[d] = n.path THEN NoPath ELSE name[d]
    BY <1>9 DEF Forget
  <2>2. ASSUME NEW d \in Client, fh[d] # 0, fh[d] # i PROVE HandleOK(d)'
    <3>1. open'[fh[d]] = open[fh[d]] /\ fh'[d] = fh[d]
      BY <1>4, <1>6, <1>9, <2>2
    <3>2. CASE open[fh[d]].deleted
      BY <1>1, <1>6, <2>1, <2>2, <3>1, <3>2, AbsentAssumption DEF HandleOK
    <3>3. CASE ~open[fh[d]].deleted
      <4>1. open[fh[d]].path # n.path
        <5> DEFINE j == fh[d]
        <5>1. Bears(i, n) /\ Bears(j, open[j]) /\ i \in Ino /\ j \in Ino
          BY <1>1, <1>6, <2>2
        <5>2. ~n.deleted /\ ~open[j].deleted /\ i # j
          BY <1>9, <2>2, <3>3
        <5> HIDE DEF i, n, j
        <5>3. n.path = open[j].path => i = j
          BY <1>2, <5>1, <5>2 DEF Unique
        <5> QED BY <5>2, <5>3 DEF j
      <4> QED BY <1>6, <2>1, <2>2, <3>1, <3>3, <4>1 DEF HandleOK
    <3> QED BY <3>2, <3>3
  <2>3. ASSUME NEW d \in Client, fh[d] = i PROVE HandleOK(d)'
    BY <1>1, <1>4, <1>6, <1>9, <2>1, <2>3, CacheAssumption DEF HandleOK
  <2>4. ASSUME NEW d \in Client, fh[d] = 0 PROVE HandleOK(d)'
    BY <1>9, <2>4 DEF HandleOK
  <2>5. name' \in [Client -> Path \cup {NoPath}]
    BY <1>2, <1>9 DEF Forget
  <2> QED BY <1>5, <2>2, <2>3, <2>4, <2>5 DEF ClientsOK
<1> QED BY <1>7, <1>8, <1>9 DEF Exits

\* Client c is in the section of inode i, which has path p.
At(c, i, p) == req[c].pc = "cs" /\ req[c].ino = i /\ open[i].path = p

\* A step changes the node of inode i to m and, at its path p, the catalog to d, the
\* storage to s, what users should see to e and the file to x.
Changes(i, p, m, d, s, e, x) ==
    /\ open' = [open EXCEPT ![i] = m]
    /\ \A q \in Path : Get(db', q) = IF q = p THEN d ELSE Get(db, q)
    /\ storage' = [storage EXCEPT ![p] = s]
    /\ expect' = [expect EXCEPT ![p] = e]
    /\ file' = [file EXCEPT ![i] = x]
    /\ UNCHANGED nextIno

\* Node m of inode i agrees with what catalog, storage, users and file have for it.
Sound(i, m, d, s, e, x) ==
    /\ s = 0 <=> e = 0
    /\ s = Dir <=> e = Dir
    /\ d # NoNode => d.ino = i /\ s # 0 /\ (d.sig = Dir <=> s = Dir) /\ (s = Dir => x = 0)
    /\ m.deleted => d = NoNode
    /\ ~m.valid => d = NoNode /\ x = 0 /\ m.fd = "none"
    /\ ~m.deleted =>
        /\ m.valid => s # 0 /\ (m.sig = Dir <=> s = Dir)
        /\ x # 0 => d # NoNode
        /\ ~Evicts /\ m.valid => d # NoNode
        /\ m.fd # "none" => m.fd = "linked" /\ x # 0

\* What a section does to the nodes that others hold: nothing.
LEMMA SectionBears ==
    ASSUME SerialInv, NEW c \in Client, NEW i \in Ino, NEW p, At(c, i, p), ClientStep(c),
           NEW m, m # NoNode, Exits(c, m), open' = [open EXCEPT ![i] = m]
    PROVE  /\ open'[i] = m
           /\ \A j \in Ino \ {i} : open'[j] = open[j]
           /\ \A j \in Ino \ {i} : \A k : Bears(j, k)' <=> Bears(j, k)
           /\ \A k : Bears(i, k)' <=> k = m
           /\ \A j \in Ino : open'[j] = NoNode <=> open[j] = NoNode
<1>1. /\ i \in Ino /\ open[i] # NoNode
      /\ \A j \in Ino : \A k : Bears(j, k) <=> open[j] # NoNode /\ open[j] = k
  BY SectionFacts DEF At
<1>2. \A d \in Client : ~Hand(d)'
  BY ExitsAre DEF ClientStep, Hand
<1>3. open'[i] = m /\ \A j \in Ino \ {i} : open'[j] = open[j]
  BY <1>1 DEF SerialInv, ListInv, HandleInv, OpenTyped
<1>4. \A j \in Ino : \A k : Bears(j, k)' <=> open'[j] # NoNode /\ open'[j] = k
  BY <1>2 DEF Bears
<1>5. \A j \in Ino \ {i} : \A k : Bears(j, k)' <=> Bears(j, k)
  BY <1>1, <1>3, <1>4
<1>6. \A k : Bears(i, k)' <=> k = m
  BY <1>1, <1>3, <1>4
<1> QED BY <1>1, <1>3, <1>5, <1>6

\* A section that leaves its own node sound keeps the data in order.
LEMMA SectionData ==
    ASSUME SerialInv, NEW c \in Client, NEW i \in Ino, NEW p \in Path, At(c, i, p),
           ClientStep(c),
           NEW m, NEW d, NEW s, NEW e, NEW x,
           m # NoNode, Exits(c, m), Changes(i, p, m, d, s, e, x),
           ~open[i].deleted, m.path = p,
           Sound(i, m, d, s, e, x), Consistent(db')
    PROVE  DataInv'
<1>1. open[i].path = p /\ Bears(i, open[i])
  BY SectionFacts DEF At
<1>2. Owns(i, p)
  BY <1>1, BearerOwns DEF SerialInv
<1>3. /\ open'[i] = m /\ \A j \in Ino \ {i} : open'[j] = open[j]
      /\ \A j \in Ino \ {i} : \A k : Bears(j, k)' => Bears(j, k)
      /\ \A k : Bears(i, k)' => k = m
  BY SectionBears DEF Changes
<1>4. /\ storage \in [Path -> 0..Dir] /\ expect \in [Path -> 0..MaxVer \cup {Dir}]
      /\ file \in [Ino -> 0..Torn]
  BY DEF SerialInv, Typed
<1>5. /\ storage'[p] = s /\ expect'[p] = e /\ file'[i] = x /\ Get(db', p) = d
      /\ \A q \in Path \ {p} :
            storage'[q] = storage[q] /\ expect'[q] = expect[q] /\ Get(db', q) = Get(db, q)
      /\ \A j \in Ino \ {i} : file'[j] = file[j]
  BY <1>1, <1>4 DEF Changes
<1>7. NameOK(p)'
  BY <1>5 DEF NameOK, Sound
<1>8. CatalogOK(p)'
  BY <1>5 DEF CatalogOK, Sound
<1>9. NodeOK(i, m)'
  BY <1>1, <1>5 DEF NodeOK, Lists, Sound
<1>10. LinkedOK(i)'
  BY <1>3, <1>5 DEF LinkedOK, Lists, Sound
<1>11. DataInv /\ CatalogTyped(db)
  BY DEF SerialInv, ListInv, HandleInv
<1>12. d # NoNode => d.ino = i
  BY DEF Sound
<1> QED BY <1>1, <1>2, <1>3, <1>5, <1>7, <1>8, <1>9, <1>10, <1>11, <1>12, LocalData

\* It forgets no file.
LEMMA SectionTrack ==
    ASSUME SerialInv, NEW c \in Client, NEW i \in Ino, NEW p \in Path, At(c, i, p),
           ClientStep(c),
           NEW m, NEW d, NEW s, NEW e, NEW x,
           m # NoNode, Exits(c, m), Changes(i, p, m, d, s, e, x),
           Sound(i, m, d, s, e, x),
           Elems(lru.rw) \cup Elems(lru.ro) \subseteq Elems(lru.rw)' \cup Elems(lru.ro)'
    PROVE  Track' /\ Fresh'
<1>1. i < nextIno /\ req[c].pc = "cs" /\ req[c].ino = i /\ mode = "run"
  BY SectionFacts DEF At
<1>2. /\ open'[i] = m /\ \A j \in Ino \ {i} : open'[j] = open[j]
  BY SectionBears DEF Changes
<1>3. \A j \in Ino \ {i} : file'[j] = file[j] /\ \A q \in Path : Lists(j, q)' => Lists(j, q)
  BY <1>1 DEF SerialInv, Typed, Changes, Lists, Sound
<1>4. Fresh'
  BY <1>1, <1>3 DEF SerialInv, Fresh, Changes
<1>5. ASSUME NEW j \in Ino, (\E q \in Path : Lists(j, q)') \/ file'[j] # 0 PROVE Known(j)'
  <2>1. CASE j = i
    BY <1>2, <2>1 DEF Known
  <2>2. CASE j # i
    <3>1. Known(j)
      BY <1>1, <1>3, <1>5, <2>2 DEF SerialInv, Track
    <3>2. ~\E a \in Client : req[a].pc # "idle" /\ req[a].ino = j
      BY <1>1, <2>2 DEF SerialInv, Alone
    <3> QED BY <1>2, <2>2, <3>1, <3>2 DEF Known, ClientStep
  <2> QED BY <2>1, <2>2
<1> QED BY <1>4, <1>5 DEF Track

\* It keeps the values in their ranges.
LEMMA SectionTyped ==
    ASSUME SerialInv, NEW c \in Client, NEW i \in Ino, NEW p \in Path, At(c, i, p),
           ClientStep(c),
           NEW m, NEW d, NEW s \in 0..Dir, NEW e \in 0..MaxVer \cup {Dir}, NEW x \in 0..Torn,
           m # NoNode, NodeTyped(m), Exits(c, m), Changes(i, p, m, d, s, e, x),
           db' \in Db, nextVer' \in 1..MaxVer + 1, negpres' \subseteq Path,
           name' \in [Client -> Path \cup {NoPath}],
           Elems(lru.rw)' \cup Elems(lru.ro)' \subseteq Ino
    PROVE  Typed'
<1>1. /\ storage' \in [Path -> 0..Dir] /\ expect' \in [Path -> 0..MaxVer \cup {Dir}]
      /\ file' \in [Ino -> 0..Torn] /\ nextIno' \in 1..MaxIno + 1
  BY DEF Changes, SerialInv, Typed
<1>2. /\ \A j \in Ino \ {i} : \A k : Bears(j, k)' <=> Bears(j, k)
      /\ \A k : Bears(i, k)' <=> k = m
  BY SectionBears DEF Changes
<1>3. ASSUME NEW j \in Ino, NEW k, Bears(j, k)' PROVE NodeTyped(k)
  <2>1. CASE j = i
    BY <1>2, <1>3, <2>1
  <2>2. CASE j # i
    BY <1>2, <1>3, <2>2 DEF SerialInv, Typed
  <2> QED BY <2>1, <2>2
<1>4. (\A j \in Ino : \A k : Bears(j, k) => NodeTyped(k))'
  BY <1>3 DEF NodeTyped
<1> QED BY <1>1, <1>4 DEF Typed

\* A section that leaves its own node sound keeps the invariant.
LEMMA SectionInv ==
    ASSUME SerialInv, ListInv', ~IsNode(NoNode),
           NEW c \in Client, NEW i \in Ino, NEW p \in Path, At(c, i, p),
           ClientStep(c), SectionStep(c),
           NEW m, NEW d, NEW s \in 0..Dir, NEW e \in 0..MaxVer \cup {Dir}, NEW x \in 0..Torn,
           IsNode(m), NodeTyped(m), m.path = p,
           open[i].valid => m.valid, ~open[i].deleted,
           Exits(c, m), Changes(i, p, m, d, s, e, x), Sound(i, m, d, s, e, x),
           db' \in Db, Consistent(db'), nextVer' \in 1..MaxVer + 1,
           \A q \in negpres' : \/ q \in negpres /\ q # p
                               \/ q = p /\ e = 0 /\ d = NoNode,
           Elems(lru.rw) \cup Elems(lru.ro) \subseteq Elems(lru.rw)' \cup Elems(lru.ro)',
           Elems(lru.rw)' \cup Elems(lru.ro)' \subseteq Elems(lru.rw) \cup Elems(lru.ro) \cup {i}
    PROVE  SerialInv'
<1>1. m # NoNode
  OBVIOUS
<1>2. DataInv'
  BY <1>1, SectionData
<1>3. req[c].ino = i /\ open[i].path = p
  BY DEF At
<1>4. Track' /\ Fresh'
  BY <1>1, SectionTrack
<1>5. ClientsOK' /\ name' \in [Client -> Path \cup {NoPath}]
  BY <1>3, SectionClients DEF Changes
<1>6. Typed'
  <2>1. negpres' \subseteq Path
    BY DEF SerialInv, Typed
  <2>2. Elems(lru.rw)' \cup Elems(lru.ro)' \subseteq Ino
    BY DEF SerialInv, Typed
  <2> QED BY <1>1, <1>5, <2>1, <2>2, SectionTyped
<1>7. NegCoherent'
  <2> SUFFICES ASSUME NEW q \in negpres' PROVE expect'[q] = 0 /\ Get(db', q) = NoNode
    BY DEF NegCoherent
  <2>1. expect'[p] = e /\ Get(db', p) = d
    BY DEF Changes, SerialInv, Typed
  <2>2. CASE q = p
    BY <2>1, <2>2
  <2>3. CASE q # p
    BY <2>3 DEF Changes, SerialInv, Typed, NegCoherent
  <2> QED BY <2>2, <2>3
<1>8. Alone' /\ Phases'
  BY ClientTurns
<1>9. Exact'
  BY SectionExact
<1> QED BY <1>2, <1>4, <1>5, <1>6, <1>7, <1>8, <1>9 DEF SerialInv

\* Storing a node of inode i, whose path is p, keeps the buckets consistent.
LEMMA PutOwn ==
    ASSUME SerialInv, NEW i \in Ino, NEW p \in Path, Owns(i, p),
           NEW n \in DbNode, n.ino = i
    PROVE  PutNode(db, n, p) \in Db /\ Consistent(PutNode(db, n, p))
<1>1. db \in Db /\ Consistent(db) /\ CatalogTyped(db)
  BY DEF SerialInv, Typed, DataInv, ListInv, HandleInv
<1>2. db.idx[i] \in {NoPath, p}
  <2> SUFFICES ASSUME db.idx[i] # NoPath PROVE db.idx[i] = p
    OBVIOUS
  <2>1. GetWithIno(db, i) # NoNode
    BY <1>1 DEF Consistent
  <2>2. PICK q \in Path : Lists(i, q)
    BY <1>1, <2>1, GetByIno
  <2>3. db.idx[i] = q
    BY <1>1, <2>2 DEF Consistent, Lists
  <2> QED BY <2>2, <2>3 DEF Owns
<1>3. Get(db, p) = NoNode \/ Get(db, p).ino = n.ino
  BY DEF Owns
<1> QED BY <1>1, <1>2, <1>3, PutKeepsConsistent, UpdateTypes

\* A step that leaves storage, catalog, files and open nodes alone.
LEMMA QuietSection ==
    ASSUME SerialInv, ListInv', ~IsNode(NoNode),
           NEW c \in Client, NEW i \in Ino, NEW p \in Path, At(c, i, p),
           ClientStep(c), SectionStep(c), Exits(c, open[i]),
           UNCHANGED <<storage, expect, db, file, open, lru, nextIno, nextVer>>,
           \A q \in negpres' : q \in negpres \/ (q = p /\ storage[p] = 0)
    PROVE  SerialInv'
<1>1. /\ open[i] # NoNode /\ req[c].ino = i /\ req[c].pc = "cs" /\ open[i].path = p
      /\ \A j \in Ino : \A k : Bears(j, k) <=> open[j] # NoNode /\ open[j] = k
  BY SectionFacts DEF At
<1>2. /\ open = [j \in Ino |-> open[j]] /\ CatalogTyped(db)
      /\ storage \in [Path -> 0..Dir] /\ expect \in [Path -> 0..MaxVer \cup {Dir}]
      /\ file \in [Ino -> 0..Torn]
  BY DEF SerialInv, Typed, ListInv, HandleInv, OpenTyped
<1>3. open' = [open EXCEPT ![i] = open[i]]
  BY <1>1, <1>2
<1>4. /\ \A j \in Ino : \A k : Bears(j, k)' <=> Bears(j, k)
  <2>1. PICK n : n = open[i]
    OBVIOUS
  <2>2. /\ \A j \in Ino \ {i} : \A k : Bears(j, k)' <=> Bears(j, k)
        /\ \A k : Bears(i, k)' <=> k = n
    <3>1. Exits(c, n) /\ n # NoNode /\ open' = [open EXCEPT ![i] = n]
      BY <1>1, <1>3, <2>1
    <3> QED BY <3>1, SectionBears
  <2> QED BY <1>1, <2>1, <2>2
<1>5. DataInv'
  <2>1. \A j \in Ino : file'[j] = file[j]
    OBVIOUS
  <2>2. \A j \in Ino : \A k : Bears(j, k)' => Bears(j, k) /\ Alike(k, k)
    BY <1>4 DEF Alike
  <2>3. \A j \in Ino : open'[j] # NoNode => open[j] # NoNode /\ Alike(open'[j], open[j])
    BY DEF Alike
  <2>4. DataInv
    BY DEF SerialInv
  <2> QED BY <1>2, <2>1, <2>2, <2>3, <2>4, QuietData
<1>6. ClientsOK' /\ name' \in [Client -> Path \cup {NoPath}]
  BY <1>1, <1>3, SectionClients
<1>7. Track' /\ Fresh'
  <2>1. mode = "run" /\ mode' = "run" /\ loop' = loop /\ req[c].pc = "cs"
    BY DEF ClientStep, Exits
  <2>2. Fresh'
    BY DEF SerialInv, Fresh
  <2>3. ASSUME NEW j \in Ino, (\E q \in Path : Lists(j, q)') \/ file'[j] # 0 PROVE Known(j)'
    <3>1. Known(j)
      BY <2>1, <2>3 DEF SerialInv, Track, Lists
    <3>2. CASE j = i
      BY <1>1, <3>2 DEF Known
    <3>3. CASE j # i
      <4>1. ~\E a \in Client : req[a].pc # "idle" /\ req[a].ino = j
        BY <1>1, <2>1, <3>3 DEF SerialInv, Alone
      <4> QED BY <2>1, <3>1, <4>1 DEF Known
    <3> QED BY <3>2, <3>3
  <2> QED BY <2>2, <2>3 DEF Track
<1>8. NegCoherent' /\ negpres' \subseteq Path
  <2>1. ASSUME NEW q \in negpres', q \notin negpres
        PROVE  q \in Path /\ expect[q] = 0 /\ Get(db, q) = NoNode
    <3>1. q = p /\ storage[p] = 0
      BY <1>1, <2>1
    <3>2. NameOK(p) /\ CatalogOK(p)
      BY <1>1 DEF SerialInv, DataInv
    <3> QED BY <1>1, <3>1, <3>2 DEF NameOK, CatalogOK
  <2> QED BY <2>1 DEF SerialInv, NegCoherent, Typed
<1>9. Typed'
  BY <1>4, <1>6, <1>8 DEF SerialInv, Typed
<1>10. Alone' /\ Phases'
  BY ClientTurns
<1>11. Exact'
  BY SectionExact
<1> QED BY <1>5, <1>6, <1>7, <1>8, <1>9, <1>10, <1>11 DEF SerialInv

-----------------------------------------------------------------------------
(* Open, Getattr, Create, Mkdir, Unlink, Rmdir *)

\* Storing a node under its own path.
LEMMA Stored ==
    ASSUME SerialInv, NEW i \in Ino, NEW p \in Path, Owns(i, p),
           NEW m, NodeTyped(m), m.ino = i, m.path = p, db' = PutNode(db, ToDb(m), p)
    PROVE  /\ db' \in Db /\ Consistent(db')
           /\ \A q \in Path : Get(db', q) = IF q = p THEN ToDb(m) ELSE Get(db, q)
           /\ ToDb(m) # NoNode /\ ToDb(m).ino = i /\ ToDb(m).path = p
           /\ ToDb(m).sig = m.sig /\ ToDb(m).hash = m.hash
<1> DEFINE t == ToDb(m)
<1>1. t \in DbNode /\ t.ino = i /\ t.path = p /\ t.sig = m.sig /\ t.hash = m.hash
  BY DEF ToDb, DbNode, NodeTyped
<1> HIDE DEF t
<1>2. t # NoNode
  BY <1>1, AbsentAssumption DEF DbNode
<1>3. db' = PutNode(db, t, p)
  BY DEF t
<1>4. db' \in Db /\ Consistent(db')
  BY <1>1, <1>3, PutOwn
<1>5. CatalogTyped(db)
  BY DEF SerialInv, ListInv, HandleInv
<1>6. \A q \in Path : Get(db', q) = IF q = p THEN t ELSE Get(db, q)
  BY <1>3, <1>5, PutAt
<1> QED BY <1>1, <1>2, <1>4, <1>6 DEF t

\* The stat of a node that is not deleted finds the object.
LEMMA FoundForm ==
    ASSUME SerialInv, NEW c \in Client, NEW i \in Ino, NEW p \in Path, At(c, i, p),
           ~open[i].deleted, StatFound(c), UNCHANGED <<storage, expect, file, nextIno>>
    PROVE  \E m : /\ Fields(m, i, p, storage[p], open[i].hash, TRUE, open[i].deleted,
                            open[i].fd, open[i].ref)
                  /\ NodeTyped(m) /\ storage[p] # 0
                  /\ Changes(i, p, m, ToDb(m), storage[p], expect[p], file[i])
                  /\ ToDb(m) # NoNode /\ ToDb(m).ino = i /\ ToDb(m).sig = m.sig
                  /\ ToDb(m).hash = m.hash
                  /\ db' \in Db /\ Consistent(db') /\ negpres' = negpres \ {p}
<1>1. /\ IsNode(open[i]) /\ open[i].ino = i /\ open[i].path = p /\ NodeTyped(open[i])
      /\ req[c].key = p /\ req[c].ino = i /\ Bears(i, open[i])
  BY SectionFacts DEF At
<1>2. PICK m : m = CopyStat(open[i], storage[p])
  OBVIOUS
<1>3. Fields(m, i, p, storage[p], open[i].hash, TRUE, open[i].deleted, open[i].fd, open[i].ref)
  BY <1>1, <1>2, CopyStatFields
<1>4. storage[p] \in Sig
  BY CacheAssumption DEF SerialInv, Typed
<1>5. NodeTyped(m)
  BY <1>1, <1>3, <1>4 DEF Fields, NodeTyped
<1>6. /\ db' = PutNode(db, ToDb(m), p) /\ open' = [open EXCEPT ![i] = m]
      /\ storage[p] # 0 /\ negpres' = negpres \ {p}
  BY <1>1, <1>2 DEF StatFound
<1>7. Owns(i, p)
  BY <1>1, BearerOwns DEF SerialInv
<1>8. m.ino = i /\ m.path = p
  BY <1>3 DEF Fields
<1>9. /\ db' \in Db /\ Consistent(db')
      /\ \A q \in Path : Get(db', q) = IF q = p THEN ToDb(m) ELSE Get(db, q)
      /\ ToDb(m) # NoNode /\ ToDb(m).ino = i /\ ToDb(m).sig = m.sig
      /\ ToDb(m).hash = m.hash
  BY <1>5, <1>6, <1>7, <1>8, Stored
<1>10. Changes(i, p, m, ToDb(m), storage[p], expect[p], file[i])
  <2>1. /\ storage \in [Path -> 0..Dir] /\ expect \in [Path -> 0..MaxVer \cup {Dir}]
        /\ file \in [Ino -> 0..Torn]
    BY DEF SerialInv, Typed
  <2>2. /\ storage' = [storage EXCEPT ![p] = storage[p]]
        /\ expect' = [expect EXCEPT ![p] = expect[p]]
        /\ file' = [file EXCEPT ![i] = file[i]]
    BY <2>1
  <2> QED BY <1>6, <1>9, <2>2 DEF Changes
<1> QED BY <1>3, <1>5, <1>6, <1>9, <1>10

\* What is known of a node that is not deleted.
LEMMA LiveNode ==
    ASSUME SerialInv, NEW c \in Client, NEW i \in Ino, NEW p \in Path, At(c, i, p),
           ~open[i].deleted
    PROVE  /\ Sound(i, open[i], Get(db, p), storage[p], expect[p], file[i])
           /\ storage[p] = Dir => file[i] = 0
<1> DEFINE n == open[i]
<1>1. NodeOK(i, n) /\ LinkedOK(i) /\ open[i] # NoNode /\ n.path = p /\ NameOK(p) /\ CatalogOK(p)
  BY SectionFacts DEF At, SerialInv, DataInv
<1>2. Get(db, p) # NoNode => Get(db, p).ino = i
  BY <1>1 DEF NodeOK
<1>3. storage[p] = Dir => file[i] = 0
  BY <1>1, <1>2 DEF NodeOK, CatalogOK, Lists
<1>4. Sound(i, n, Get(db, p), storage[p], expect[p], file[i])
  BY <1>1, <1>2 DEF Sound, NodeOK, LinkedOK, NameOK, CatalogOK, Lists
<1> QED BY <1>3, <1>4

\* Finding the object keeps the invariant.
LEMMA FoundInv ==
    ASSUME SerialInv, ListInv', ~IsNode(NoNode),
           NEW c \in Client, NEW i \in Ino, NEW p \in Path, At(c, i, p),
           ClientStep(c), SectionStep(c),
           ~open[i].deleted, StatFound(c), UNCHANGED <<storage, expect, file, nextIno, lru, nextVer>>,
           \/ Leave(c) /\ UNCHANGED <<fh, name>>
           \/ Return(c, p) /\ req[c].op \in PathOps
    PROVE  SerialInv'
<1>1. PICK m : /\ Fields(m, i, p, storage[p], open[i].hash, TRUE, open[i].deleted,
                         open[i].fd, open[i].ref)
               /\ NodeTyped(m) /\ storage[p] # 0
               /\ Changes(i, p, m, ToDb(m), storage[p], expect[p], file[i])
               /\ ToDb(m) # NoNode /\ ToDb(m).ino = i /\ ToDb(m).sig = m.sig
               /\ ToDb(m).hash = m.hash
               /\ db' \in Db /\ Consistent(db') /\ negpres' = negpres \ {p}
  BY FoundForm
<1>2. /\ storage[p] \in 0..Dir /\ expect[p] \in 0..MaxVer \cup {Dir} /\ file[i] \in 0..Torn
      /\ nextVer' \in 1..MaxVer + 1
  BY DEF SerialInv, Typed
<1>3. Sound(i, m, ToDb(m), storage[p], expect[p], file[i])
  <2>1. /\ Sound(i, open[i], Get(db, p), storage[p], expect[p], file[i])
        /\ storage[p] = Dir => file[i] = 0
    BY LiveNode
  <2>2. m.sig = storage[p] /\ m.valid /\ ~m.deleted /\ m.fd = open[i].fd
    BY <1>1 DEF Fields
  <2> QED BY <1>1, <2>1, <2>2 DEF Sound
<1>4. Exits(c, m)
  BY <1>1 DEF Exits, At, Fields
<1>5. IsNode(m) /\ m.path = p /\ m.valid
  BY <1>1 DEF Fields
<1>6. Elems(lru.rw)' = Elems(lru.rw) /\ Elems(lru.ro)' = Elems(lru.ro)
  OBVIOUS
<1>7. \A q \in negpres' : q \in negpres /\ q # p
  BY <1>1
<1> QED BY <1>1, <1>2, <1>3, <1>4, <1>5, <1>6, <1>7, SectionInv

\* The stat of a node finds nothing, or fails.
LEMMA AbsentNeg ==
    ASSUME SerialInv, NEW c \in Client, NEW i \in Ino, NEW p \in Path, At(c, i, p),
           StatAbsent(c) \/ StatFails(c)
    PROVE  /\ \A q \in negpres' : q \in negpres \/ (q = p /\ storage[p] = 0)
           /\ UNCHANGED <<db, open>>
<1>1. req[c].key = p /\ open[req[c].ino].path = p
  BY SectionFacts DEF At
<1> QED BY <1>1 DEF StatAbsent, StatFails

\* Open, Getattr and Fgetattr.
LEMMA statNodeInv ==
    ASSUME SerialInv, ListInv', ~IsNode(NoNode),
           NEW c \in Client, ClientStep(c), statNode(c)
    PROVE  SerialInv'
<1>1. SectionStep(c) /\ req[c].pc = "cs"
  BY statNodeStep DEF SerialInv, ListInv, statNode, InSection
<1>2. PICK i \in Ino, p \in Path : At(c, i, p)
  BY <1>1, SectionFacts DEF At
<1>3. req[c].ino = i /\ open[i].path = p /\ (req[c].op \in PathOps => ~open[i].deleted)
  BY <1>2, SectionFacts DEF At
<1>4. req[c].op = "open" => req[c].op \in PathOps
  BY DEF PathOps
<1>5. UNCHANGED <<storage, expect, file, nextIno, lru, nextVer>>
  BY DEF statNode
<1>6. CASE open[i].valid
  <2>1. UNCHANGED <<db, open, negpres>>
    BY <1>3, <1>6 DEF statNode
  <2>2. Exits(c, open[i])
    <3>1. CASE ~StatPanics(open[i])
      <4>1. IF req[c].op = "open" THEN Return(c, open[i].path)
            ELSE Leave(c) /\ UNCHANGED <<fh, name>>
        BY <1>3, <1>6, <3>1 DEF statNode
      <4> QED BY <1>1, <1>3, <1>4, <1>6, <3>1, <4>1 DEF Exits, StatPanics
    <3>2. CASE StatPanics(open[i])
      <4>1. req[c].op # "open"
        BY <1>3, <1>4, <1>6, <3>2 DEF StatPanics
      <4>2. Leave(c) /\ UNCHANGED <<fh, name>>
        BY <1>3, <1>6, <3>2, <4>1 DEF statNode
      <4> QED BY <1>1, <1>3, <4>2 DEF Exits
    <3> QED BY <3>1, <3>2
  <2> QED BY <1>1, <1>2, <1>5, <2>1, <2>2, QuietSection
<1>7. CASE ~open[i].valid /\ UNCHANGED <<db, open, negpres>> /\ Leave(c) /\ UNCHANGED <<fh, name>>
  <2>1. Exits(c, open[i])
    BY <1>1, <1>3, <1>7 DEF Exits
  <2> QED BY <1>1, <1>2, <1>5, <1>7, <2>1, QuietSection
<1>8. CASE /\ ~open[i].valid /\ ~open[i].deleted /\ StatFound(c)
           /\ IF req[c].op = "open" THEN Return(c, open[i].path)
              ELSE Leave(c) /\ UNCHANGED <<fh, name>>
  BY <1>1, <1>2, <1>3, <1>4, <1>5, <1>8, FoundInv
<1>9. CASE (StatAbsent(c) \/ StatFails(c)) /\ Leave(c) /\ UNCHANGED <<fh, name>>
  <2>1. Exits(c, open[i])
    BY <1>1, <1>3, <1>9 DEF Exits
  <2>2. /\ \A q \in negpres' : q \in negpres \/ (q = p /\ storage[p] = 0)
        /\ UNCHANGED <<db, open>>
    BY <1>2, <1>9, AbsentNeg
  <2> QED BY <1>1, <1>2, <1>5, <2>1, <2>2, QuietSection
<1> QED BY <1>3, <1>6, <1>7, <1>8, <1>9 DEF statNode

\* Create and Mkdir make the object.
LEMMA MadeForm ==
    ASSUME SerialInv, NEW c \in Client, NEW i \in Ino, NEW p \in Path, At(c, i, p),
           NEW v \in Sig \ {0}, ~open[i].deleted,
           db' = PutNode(db, ToDb(CopyStat(open[i], v)), p),
           open' = [open EXCEPT ![i] = CopyStat(open[i], v)],
           storage' = [storage EXCEPT ![p] = v], expect' = [expect EXCEPT ![p] = v],
           UNCHANGED <<file, nextIno>>
    PROVE  \E m : /\ Fields(m, i, p, v, open[i].hash, TRUE, open[i].deleted,
                            open[i].fd, open[i].ref)
                  /\ NodeTyped(m)
                  /\ Changes(i, p, m, ToDb(m), v, v, file[i])
                  /\ ToDb(m) # NoNode /\ ToDb(m).ino = i /\ ToDb(m).sig = m.sig
                  /\ ToDb(m).hash = m.hash
                  /\ db' \in Db /\ Consistent(db')
<1>1. /\ IsNode(open[i]) /\ open[i].ino = i /\ open[i].path = p /\ NodeTyped(open[i])
      /\ Bears(i, open[i])
  BY SectionFacts DEF At
<1>2. PICK m : m = CopyStat(open[i], v)
  OBVIOUS
<1>3. Fields(m, i, p, v, open[i].hash, TRUE, open[i].deleted, open[i].fd, open[i].ref)
  BY <1>1, <1>2, CopyStatFields
<1>4. NodeTyped(m)
  BY <1>1, <1>3 DEF Fields, NodeTyped
<1>5. db' = PutNode(db, ToDb(m), p) /\ open' = [open EXCEPT ![i] = m]
  BY <1>2
<1>6. Owns(i, p)
  BY <1>1, BearerOwns DEF SerialInv
<1>7. m.ino = i /\ m.path = p
  BY <1>3 DEF Fields
<1>8. /\ db' \in Db /\ Consistent(db')
      /\ \A q \in Path : Get(db', q) = IF q = p THEN ToDb(m) ELSE Get(db, q)
      /\ ToDb(m) # NoNode /\ ToDb(m).ino = i /\ ToDb(m).sig = m.sig
      /\ ToDb(m).hash = m.hash
  BY <1>4, <1>5, <1>6, <1>7, Stored
<1>9. Changes(i, p, m, ToDb(m), v, v, file[i])
  <2>1. file' = [file EXCEPT ![i] = file[i]]
    BY DEF SerialInv, Typed
  <2> QED BY <1>5, <1>8, <2>1 DEF Changes
<1> QED BY <1>3, <1>4, <1>8, <1>9

\* Create and Mkdir.
LEMMA makeNodeInv ==
    ASSUME SerialInv, ListInv', ~IsNode(NoNode),
           NEW c \in Client, ClientStep(c), makeNode(c)
    PROVE  SerialInv'
<1>1. SectionStep(c) /\ req[c].pc = "cs" /\ req[c].op \in {"create", "mkdir"}
  BY makeNodeStep DEF SerialInv, ListInv, makeNode, InSection
<1>2. PICK i \in Ino, p \in Path : At(c, i, p)
  BY <1>1, SectionFacts DEF At
<1>3. req[c].op \in PathOps
  BY <1>1 DEF PathOps
<1>4. req[c].ino = i /\ open[i].path = p /\ ~open[i].deleted /\ req[c].key = p /\ req[c].path = p
  BY <1>2, <1>3, SectionFacts DEF At
<1>5. UNCHANGED <<file, nextIno, lru>>
  BY DEF makeNode
<1>6. CASE StatFound(c) /\ Leave(c) /\ UNCHANGED <<storage, nextVer, expect, fh, name>>
  BY <1>1, <1>2, <1>4, <1>5, <1>6, FoundInv
<1>7. CASE (StatAbsent(c) \/ StatFails(c)) /\ Leave(c) /\ UNCHANGED <<storage, nextVer, expect, fh, name>>
  <2>1. Exits(c, open[i])
    BY <1>1, <1>4, <1>7 DEF Exits
  <2>2. /\ \A q \in negpres' : q \in negpres \/ (q = p /\ storage[p] = 0)
        /\ UNCHANGED <<db, open>>
    BY <1>2, <1>7, AbsentNeg
  <2> QED BY <1>1, <1>2, <1>5, <1>7, <2>1, <2>2, QuietSection
<1> DEFINE w == IF req[c].op = "mkdir" THEN Dir ELSE nextVer
<1>8. CASE /\ ~open[i].valid
           /\ storage' = [storage EXCEPT ![p] = w]
           /\ db' = PutNode(db, ToDb(CopyStat(open[i], w)), p)
           /\ open' = [open EXCEPT ![i] = CopyStat(open[i], w)]
           /\ negpres' = negpres \ {p}
           /\ expect' = [expect EXCEPT ![p] = w]
           /\ IF req[c].op = "mkdir" THEN Goto(c, "close") /\ UNCHANGED <<nextVer, fh, name>>
              ELSE nextVer' = nextVer + 1 /\ Return(c, p)
  <2>1. nextVer \in 1..MaxVer + 1 /\ (req[c].op = "create" => nextVer \in 1..MaxVer)
    BY <1>1 DEF SerialInv, Typed, ClientsOK, ReqOK
  <2>2. PICK v : v = w
    OBVIOUS
  <2>3. v \in Sig \ {0} /\ v \in 0..Dir /\ v \in 0..MaxVer \cup {Dir} /\ nextVer' \in 1..MaxVer + 1
    <3>1. MaxVer \in Nat /\ Sig = 0..Dir /\ Dir = MaxVer + 2
      BY CacheAssumption DEF Dir
    <3>2. CASE req[c].op = "mkdir"
      <4>1. v = Dir /\ nextVer' = nextVer
        BY <1>8, <2>2, <3>2
      <4> QED BY <2>1, <3>1, <4>1
    <3>3. CASE req[c].op = "create"
      <4>1. v = nextVer /\ nextVer' = nextVer + 1
        BY <1>8, <2>2, <3>3
      <4> QED BY <2>1, <3>1, <3>3, <4>1
    <3> QED BY <1>1, <3>2, <3>3
  <2>4. PICK m : /\ Fields(m, i, p, v, open[i].hash, TRUE, open[i].deleted,
                           open[i].fd, open[i].ref)
                 /\ NodeTyped(m)
                 /\ Changes(i, p, m, ToDb(m), v, v, file[i])
                 /\ ToDb(m) # NoNode /\ ToDb(m).ino = i /\ ToDb(m).sig = m.sig
                 /\ db' \in Db /\ Consistent(db')
    <3> HIDE DEF w
    <3> QED BY <1>2, <1>4, <1>5, <1>8, <2>2, <2>3, MadeForm
  <2>5. Exits(c, m)
    BY <1>1, <1>3, <1>4, <1>8, <2>4 DEF Exits, Leave, Fields
  <2>6. file[i] = 0 /\ open[i].fd = "none"
    BY <1>2, <1>4, <1>8, SectionFacts DEF NodeOK, At
  <2>7. Sound(i, m, ToDb(m), v, v, file[i])
    <3>1. m.sig = v /\ m.valid = TRUE /\ ~m.deleted /\ m.fd = "none"
      BY <1>4, <2>4, <2>6 DEF Fields
    <3>2. ToDb(m) # NoNode /\ ToDb(m).ino = i /\ ToDb(m).sig = v /\ v # 0
      BY <2>3, <2>4, <3>1
    <3> HIDE DEF w
    <3> QED BY <2>6, <3>1, <3>2 DEF Sound
  <2>8. IsNode(m) /\ m.path = p /\ m.valid /\ file[i] \in 0..Torn
    BY <2>4 DEF Fields, SerialInv, Typed
  <2>9. Elems(lru.rw)' = Elems(lru.rw) /\ Elems(lru.ro)' = Elems(lru.ro)
    BY <1>5
  <2>10. \A q \in negpres' : q \in negpres /\ q # p
    BY <1>8
  <2> HIDE DEF w
  <2> QED BY <1>1, <1>2, <1>4, <2>3, <2>4, <2>5, <2>7, <2>8, <2>9, <2>10, SectionInv
<1> QED BY <1>4, <1>6, <1>7, <1>8 DEF makeNode

\* Unlink and Rmdir remove the object and delete the key.
LEMMA RemovedForm ==
    ASSUME SerialInv, NEW c \in Client, NEW i \in Ino, NEW p \in Path, At(c, i, p),
           storage' = [storage EXCEPT ![p] = 0], expect' = [expect EXCEPT ![p] = 0],
           db' = DeleteNode(db, p), open' = [open EXCEPT ![i].deleted = TRUE],
           UNCHANGED <<file, nextIno>>
    PROVE  \E m : /\ Fields(m, i, p, open[i].sig, open[i].hash, open[i].valid, TRUE,
                            open[i].fd, open[i].ref)
                  /\ NodeTyped(m)
                  /\ Changes(i, p, m, NoNode, 0, 0, file[i])
                  /\ db' \in Db /\ Consistent(db')
<1>1. /\ IsNode(open[i]) /\ open[i].ino = i /\ open[i].path = p /\ NodeTyped(open[i])
  BY SectionFacts DEF At
<1>2. PICK m : m = [open[i] EXCEPT !.deleted = TRUE]
  OBVIOUS
<1>3. Fields(m, i, p, open[i].sig, open[i].hash, open[i].valid, TRUE, open[i].fd, open[i].ref)
  BY <1>1, <1>2, SetDeleted
<1>4. NodeTyped(m)
  BY <1>1, <1>3 DEF Fields, NodeTyped
<1>5. open' = [open EXCEPT ![i] = m]
  BY <1>2
<1>6. db \in Db /\ Consistent(db) /\ CatalogTyped(db)
  BY DEF SerialInv, Typed, DataInv, ListInv, HandleInv
<1>7. db' \in Db /\ Consistent(db')
  BY <1>6, DeleteKeepsConsistent, UpdateTypes
<1>8. \A q \in Path : Get(db', q) = IF q = p THEN NoNode ELSE Get(db, q)
  BY <1>6, DeleteAt
<1>9. Changes(i, p, m, NoNode, 0, 0, file[i])
  <2>1. file' = [file EXCEPT ![i] = file[i]]
    BY DEF SerialInv, Typed
  <2> QED BY <1>5, <1>8, <2>1 DEF Changes
<1> QED BY <1>3, <1>4, <1>7, <1>9

\* Unlink and Rmdir.
LEMMA removeNodeInv ==
    ASSUME SerialInv, ListInv', ~IsNode(NoNode),
           NEW c \in Client, ClientStep(c), removeNode(c)
    PROVE  SerialInv'
<1>1. SectionStep(c) /\ req[c].pc = "cs" /\ req[c].op \in {"unlink", "rmdir"}
  BY removeNodeStep DEF SerialInv, ListInv, removeNode, InSection
<1>2. PICK i \in Ino, p \in Path : At(c, i, p)
  BY <1>1, SectionFacts DEF At
<1>3. req[c].op \in PathOps
  BY <1>1 DEF PathOps
<1>4. req[c].ino = i /\ open[i].path = p /\ ~open[i].deleted /\ req[c].key = p /\ req[c].path = p
  BY <1>2, <1>3, SectionFacts DEF At
<1>5. CASE Quit(c)
  <2>1. /\ Leave(c) /\ UNCHANGED <<fh, name>>
        /\ UNCHANGED <<storage, expect, db, file, open, lru, nextIno, nextVer, negpres>>
    BY <1>5 DEF Quit, persistent, pres, user
  <2>2. Exits(c, open[i])
    BY <1>1, <1>4, <2>1 DEF Exits
  <2> QED BY <1>1, <1>2, <2>1, <2>2, QuietSection
<1>6. CASE /\ storage' = [storage EXCEPT ![p] = 0] /\ expect' = [expect EXCEPT ![p] = 0]
           /\ db' = DeleteNode(db, p) /\ open' = [open EXCEPT ![i].deleted = TRUE]
           /\ negpres' = negpres \cup {p}
           /\ name' = Forget(name, p) /\ Goto(c, "close")
           /\ UNCHANGED <<nextIno, file, lru, fh, nextVer>>
  <2>1. PICK m : /\ Fields(m, i, p, open[i].sig, open[i].hash, open[i].valid, TRUE,
                            open[i].fd, open[i].ref)
                 /\ NodeTyped(m)
                 /\ Changes(i, p, m, NoNode, 0, 0, file[i])
                 /\ db' \in Db /\ Consistent(db')
    BY <1>2, <1>6, RemovedForm
  <2>2. Exits(c, m)
    BY <1>1, <1>3, <1>4, <1>6, <2>1 DEF Exits, Fields
  <2>3. Sound(i, m, NoNode, 0, 0, file[i])
    <3>1. NodeOK(i, open[i])
      BY <1>2, SectionFacts DEF At
    <3>2. m.deleted /\ (~m.valid => file[i] = 0 /\ m.fd = "none")
      BY <2>1, <3>1 DEF Fields, NodeOK
    <3>3. 0 # Dir
      BY CacheAssumption DEF Dir
    <3> QED BY <3>2, <3>3 DEF Sound
  <2>4. IsNode(m) /\ m.path = p /\ (open[i].valid => m.valid)
    BY <2>1 DEF Fields
  <2>5. Elems(lru.rw)' = Elems(lru.rw) /\ Elems(lru.ro)' = Elems(lru.ro)
    BY <1>6
  <2>6. /\ 0 \in 0..Dir /\ 0 \in 0..MaxVer \cup {Dir} /\ file[i] \in 0..Torn
        /\ nextVer' \in 1..MaxVer + 1
    BY <1>6, CacheAssumption DEF Dir, SerialInv, Typed
  <2>7. \A q \in negpres' : (q \in negpres /\ q # p) \/ q = p
    BY <1>6
  <2> QED BY <1>1, <1>2, <1>4, <2>1, <2>2, <2>3, <2>4, <2>5, <2>6, <2>7, SectionInv
<1> QED BY <1>4, <1>5, <1>6 DEF removeNode

-----------------------------------------------------------------------------
(* Read, Write and Truncate *)

IoOps == {"read"} \cup Modifies

\* Only files are read and written, and only those that are there.
LEMMA IoOnFiles ==
    ASSUME SerialInv, NEW c \in Client, NEW i \in Ino, NEW p \in Path, At(c, i, p),
           req[c].op \in IoOps, ~open[i].deleted, IoWorks(open[i])
    PROVE  /\ storage[p] \in 1..Torn /\ expect[p] \in 1..MaxVer
           /\ req[c].op \in Modifies => nextVer \in 1..MaxVer
           /\ (IF req[c].op \in PathOps THEN req[c].path ELSE name[c]) = p
<1> DEFINE n == open[i]
<1>1. /\ NodeOK(i, n) /\ LinkedOK(i) /\ n # NoNode /\ n.path = p /\ NameOK(p)
      /\ req[c].op \in PathOps => req[c].path = p
      /\ req[c].op \notin PathOps => fh[c] = i
      /\ req[c].ino = i /\ req[c].pc = "cs"
  BY SectionFacts DEF At, SerialInv, DataInv
<1>2. /\ ReqOK(c) /\ HandleOK(c) /\ storage[p] \in 0..Dir /\ expect[p] \in 0..MaxVer \cup {Dir}
      /\ nextVer \in 1..MaxVer + 1
  BY DEF SerialInv, ClientsOK, Typed
<1>3. storage[p] # 0
  BY <1>1 DEF IoWorks, NodeOK
<1>4. storage[p] # Dir
  <2>1. CASE req[c].op \in PathOps
    <3>1. req[c].op \in {"truncate", "shrink"}
      BY <2>1 DEF IoOps, Modifies, Shrinks, PathOps
    <3> QED BY <1>1, <1>2, <2>1, <3>1 DEF ReqOK, NameOK
  <2>2. CASE req[c].op \notin PathOps
    <3>1. req[c].op \in {"read", "write", "ftruncate", "fshrink"}
      BY <2>2 DEF IoOps, Modifies, Shrinks, PathOps
    <3>2. n.sig # Dir
      BY <1>1, <1>2, <3>1 DEF ReqOK
    <3>3. n.valid
      BY <1>1, <1>2, <2>2, CacheAssumption DEF HandleOK
    <3> QED BY <1>1, <3>2, <3>3 DEF NodeOK
  <2> QED BY <2>1, <2>2
<1>5. storage[p] \in 1..Torn /\ expect[p] \in 1..MaxVer
  BY <1>1, <1>2, <1>3, <1>4, CacheAssumption DEF NameOK, Dir, Torn
<1>6. req[c].op \in Modifies => nextVer \in 1..MaxVer
  BY <1>1, <1>2, CacheAssumption DEF ReqOK
<1>7. (IF req[c].op \in PathOps THEN req[c].path ELSE name[c]) = p
  <2>1. i # 0
    BY CacheAssumption
  <2> QED BY <1>1, <1>2, <2>1 DEF HandleOK
<1> QED BY <1>5, <1>6, <1>7

\* The node m of inode i after its file has been made available, with hash h if it
\* was read from the storage, and what the step leaves.
IoResult(i, p, m, h, e, x) ==
    LET n == open[i] IN
    /\ IF Fetches(n)
       THEN Fields(m, i, p, storage[p], h, TRUE, n.deleted, "linked", n.ref)
       ELSE Fields(m, i, p, n.sig, n.hash, n.valid, n.deleted,
                   IF n.fd = "none" THEN "linked" ELSE n.fd, n.ref)
    /\ NodeTyped(m)
    /\ \E d : /\ d = IF Fetches(n) THEN ToDb(m) ELSE Get(db, p)
              /\ Changes(i, p, m, d, storage[p], e, x)
    /\ ToDb(m) # NoNode /\ ToDb(m).ino = i /\ ToDb(m).sig = m.sig /\ ToDb(m).hash = m.hash
    /\ db' \in Db /\ Consistent(db')
    /\ open' = [open EXCEPT ![i] = m]

\* The file of a node that is not deleted is made available.
LEMMA IoForm ==
    ASSUME SerialInv, NEW c \in Client, NEW i \in Ino, NEW p \in Path, At(c, i, p),
           ~open[i].deleted, NEW h \in Sig, EnsureFile(c, open[i], h),
           NEW x, NEW e, file' = [file EXCEPT ![i] = x], expect' = [expect EXCEPT ![p] = e],
           UNCHANGED <<storage, nextIno>>
    PROVE  \E m : IoResult(i, p, m, h, e, x)
<1>1. /\ IsNode(open[i]) /\ open[i].ino = i /\ open[i].path = p /\ NodeTyped(open[i])
      /\ req[c].key = p /\ req[c].ino = i /\ Bears(i, open[i])
  BY SectionFacts DEF At
<1>2. PICK m : m = IoNode(open[i], h)
  OBVIOUS
<1>3. IF Fetches(open[i])
      THEN Fields(m, i, p, storage[p], h, TRUE, open[i].deleted, "linked", open[i].ref)
      ELSE Fields(m, i, p, open[i].sig, open[i].hash, open[i].valid, open[i].deleted,
                  IF open[i].fd = "none" THEN "linked" ELSE open[i].fd, open[i].ref)
  BY <1>1, <1>2, IoNodeFields
<1>4. storage[p] \in Sig /\ storage = [q \in Path |-> storage[q]] /\ db \in Db /\ Consistent(db)
      /\ CatalogTyped(db)
  BY CacheAssumption DEF SerialInv, Typed, DataInv, ListInv, HandleInv
<1>5. NodeTyped(m)
  BY <1>1, <1>3, <1>4 DEF Fields, NodeTyped
<1>6. /\ open' = [open EXCEPT ![i] = m]
      /\ db' = IF Fetches(open[i]) THEN PutNode(db, ToDb(m), p) ELSE db
  BY <1>1, <1>2 DEF EnsureFile
<1>7. Owns(i, p)
  BY <1>1, BearerOwns DEF SerialInv
<1>8. m.ino = i /\ m.path = p
  BY <1>3 DEF Fields
<1>9. ToDb(m) # NoNode /\ ToDb(m).ino = i /\ ToDb(m).sig = m.sig /\ ToDb(m).hash = m.hash
  <2> DEFINE t == ToDb(m)
  <2>1. t \in DbNode /\ t.ino = i /\ t.path = p /\ t.sig = m.sig /\ t.hash = m.hash
    BY <1>5, <1>8 DEF ToDb, DbNode, NodeTyped
  <2> HIDE DEF t
  <2>2. t # NoNode
    BY <2>1, AbsentAssumption DEF DbNode
  <2> QED BY <2>1, <2>2 DEF t
<1>10. /\ db' \in Db /\ Consistent(db')
       /\ \A q \in Path : Get(db', q) =
            IF q = p THEN IF Fetches(open[i]) THEN ToDb(m) ELSE Get(db, p) ELSE Get(db, q)
  <2>1. CASE Fetches(open[i])
    <3>1. db' = PutNode(db, ToDb(m), p)
      BY <1>6, <2>1
    <3>2. /\ db' \in Db /\ Consistent(db')
          /\ \A q \in Path : Get(db', q) = IF q = p THEN ToDb(m) ELSE Get(db, q)
      BY <1>5, <1>7, <1>8, <3>1, Stored
    <3> QED BY <2>1, <3>2
  <2>2. CASE ~Fetches(open[i])
    BY <1>4, <1>6, <2>2
  <2> QED BY <2>1, <2>2
<1>11. Changes(i, p, m, IF Fetches(open[i]) THEN ToDb(m) ELSE Get(db, p), storage[p], e, x)
  <2>1. storage' = [storage EXCEPT ![p] = storage[p]]
    BY <1>4
  <2> QED BY <1>6, <1>10, <2>1 DEF Changes
<1>12. IoResult(i, p, m, h, e, x)
  BY <1>3, <1>5, <1>6, <1>9, <1>10, <1>11 DEF IoResult
<1> QED BY <1>12

\* I/O on a node that is not deleted.
LEMMA IoInv ==
    ASSUME SerialInv, ListInv', ~IsNode(NoNode),
           NEW c \in Client, NEW i \in Ino, NEW p \in Path, At(c, i, p),
           ClientStep(c), SectionStep(c), req[c].op \in IoOps,
           ~open[i].deleted, IoWorks(open[i]), NEW h \in Sig, EnsureFile(c, open[i], h),
           NEW x \in 1..Torn, NEW e \in 1..MaxVer,
           file' = [file EXCEPT ![i] = x], expect' = [expect EXCEPT ![p] = e],
           UNCHANGED <<storage, nextIno, fh, name>>, Leave(c), nextVer' \in 1..MaxVer + 1,
           Elems(lru.rw) \cup Elems(lru.ro) \subseteq Elems(lru.rw)' \cup Elems(lru.ro)',
           Elems(lru.rw)' \cup Elems(lru.ro)' \subseteq Elems(lru.rw) \cup Elems(lru.ro) \cup {i}
    PROVE  SerialInv'
<1> DEFINE n == open[i]
           F == Fetches(n)
<1>1. PICK m : IoResult(i, p, m, h, e, x)
  BY IoForm
<1>2. storage[p] \in 1..Torn /\ expect[p] \in 1..MaxVer
  BY IoOnFiles
<1>3. Torn + 1 = Dir /\ MaxVer + 1 = Torn /\ MaxVer \in Nat
  BY CacheAssumption DEF Torn, Dir
<1>4. Sound(i, n, Get(db, p), storage[p], expect[p], file[i])
  BY LiveNode
<1>5. n.path = p /\ n.ino = i /\ n # NoNode /\ req[c].key = p
  BY SectionFacts DEF At
<1>6. PICK d : /\ d = IF F THEN ToDb(m) ELSE Get(db, p)
               /\ Changes(i, p, m, d, storage[p], e, x)
  BY <1>1 DEF IoResult
<1>7. d # NoNode /\ d.ino = i /\ d.sig # Dir
  <2>1. CASE F
    <3>1. m.sig = storage[p]
      BY <1>1, <2>1 DEF Fields, IoResult
    <3> QED BY <1>1, <1>2, <1>3, <1>6, <2>1, <3>1 DEF IoResult
  <2>2. CASE ~F
    <3>1. file[i] # 0
      BY <1>4, <1>5, <2>2 DEF Fetches, Sound
    <3>2. Get(db, p) # NoNode
      BY <1>4, <3>1 DEF Sound
    <3> QED BY <1>2, <1>3, <1>4, <1>6, <2>2, <3>2 DEF Sound
  <2> QED BY <2>1, <2>2
<1>8. m.valid /\ ~m.deleted /\ m.fd = "linked" /\ m.sig # Dir /\ IsNode(m) /\ m.path = p
  <2>1. CASE F
    BY <1>1, <1>2, <1>3, <2>1 DEF Fields, IoResult
  <2>2. CASE ~F
    <3>1. n.valid
      BY <1>4, <1>5, <2>2 DEF Fetches, Sound
    <3>2. n.sig # Dir /\ n.fd \in {"none", "linked"}
      BY <1>2, <1>3, <1>4, <3>1 DEF Sound
    <3> QED BY <1>1, <2>2, <3>1, <3>2 DEF Fields, IoResult
  <2> QED BY <2>1, <2>2
<1>9. Sound(i, m, d, storage[p], e, x)
  BY <1>2, <1>3, <1>7, <1>8 DEF Sound
<1>10. Exits(c, m)
  <2>1. m.deleted = n.deleted
    BY <1>1 DEF Fields, IoResult
  <2> QED BY <2>1 DEF Exits, At
<1>11. \A q \in negpres' : q \in negpres /\ q # p
  <2>1. p \notin negpres
    BY <1>2 DEF SerialInv, NegCoherent
  <2>2. negpres' \subseteq negpres
    BY DEF EnsureFile
  <2> QED BY <2>1, <2>2
<1>12. storage[p] \in 0..Dir /\ e \in 0..MaxVer \cup {Dir} /\ x \in 0..Torn
  BY <1>2, <1>3
<1>13. NodeTyped(m) /\ db' \in Db /\ Consistent(db')
  BY <1>1 DEF IoResult
<1> QED BY <1>6, <1>8, <1>9, <1>10, <1>11, <1>12, <1>13, SectionInv

\* What touching an inode puts on the lists.
LEMMA TouchElems ==
    ASSUME NEW l, IsLru(l), NEW i
    PROVE  /\ Elems(touchIno(l, i, TRUE).rw) = Elems(l.rw) \cup {i}
           /\ Elems(touchIno(l, i, TRUE).ro) = Elems(l.ro) \ {i}
           /\ Elems(touchIno(l, i, FALSE).rw) = Elems(l.rw)
           /\ Elems(touchIno(l, i, FALSE).ro) =
                IF i \in Elems(l.rw) THEN Elems(l.ro) ELSE Elems(l.ro) \cup {i}
<1>1. IsList(l.rw) /\ IsList(l.ro)
  BY DEF IsLru
<1>2. /\ Elems(Without(l.ro, i)) = Elems(l.ro) \ {i}
      /\ Elems(InsertTail(Without(l.rw, i), i)) = Elems(l.rw) \cup {i}
      /\ Elems(InsertTail(Without(l.ro, i), i)) = Elems(l.ro) \cup {i}
  BY <1>1, ListUpdates
<1>3. ASSUME NEW a, NEW b PROVE [rw |-> a, ro |-> b].rw = a /\ [rw |-> a, ro |-> b].ro = b
  OBVIOUS
<1>4. /\ touchIno(l, i, TRUE).rw = InsertTail(Without(l.rw, i), i)
      /\ touchIno(l, i, TRUE).ro = Without(l.ro, i)
  <2>1. PICK a, b : a = InsertTail(Without(l.rw, i), i) /\ b = Without(l.ro, i)
    OBVIOUS
  <2>2. touchIno(l, i, TRUE) = [rw |-> a, ro |-> b]
    BY <2>1 DEF touchIno
  <2>3. [rw |-> a, ro |-> b].rw = a /\ [rw |-> a, ro |-> b].ro = b
    BY <1>3
  <2> QED BY ONLY <2>1, <2>2, <2>3, Zenon
<1>5. CASE i \in Elems(l.rw)
  <2>1. touchIno(l, i, FALSE) = l
    BY <1>5 DEF touchIno
  <2> QED BY <1>2, <1>4, <1>5, <2>1
<1>6. CASE i \notin Elems(l.rw)
  <2>1. PICK a, b : a = l.rw /\ b = InsertTail(Without(l.ro, i), i)
    OBVIOUS
  <2>2. touchIno(l, i, FALSE) = [rw |-> a, ro |-> b]
    BY <1>6, <2>1 DEF touchIno
  <2>3. touchIno(l, i, FALSE).rw = l.rw /\ touchIno(l, i, FALSE).ro = InsertTail(Without(l.ro, i), i)
    <3>1. [rw |-> a, ro |-> b].rw = a /\ [rw |-> a, ro |-> b].ro = b
      BY <1>3
    <3> QED BY ONLY <2>1, <2>2, <3>1, Zenon
  <2> QED BY <1>2, <1>4, <1>6, <2>3
<1> QED BY <1>5, <1>6

\* I/O on a node that is deleted: its file is open, and belongs to no path.
LEMMA DeadInv ==
    ASSUME SerialInv, ListInv', ~IsNode(NoNode),
           NEW c \in Client, NEW i \in Ino, NEW p \in Path, At(c, i, p),
           ClientStep(c), SectionStep(c),
           open[i].deleted, open[i].fd # "none", Leave(c),
           UNCHANGED <<storage, expect, db, open, negpres, nextIno, fh, name>>,
           NEW x \in 0..Torn, file' = [file EXCEPT ![i] = x], nextVer' \in 1..MaxVer + 1,
           Elems(lru.rw) \cup Elems(lru.ro) \subseteq Elems(lru.rw)' \cup Elems(lru.ro)',
           Elems(lru.rw)' \cup Elems(lru.ro)' \subseteq Elems(lru.rw) \cup Elems(lru.ro) \cup {i}
    PROVE  SerialInv'
<1>1. /\ open[i] # NoNode /\ req[c].ino = i /\ req[c].pc = "cs" /\ open[i].path = p
      /\ NodeOK(i, open[i]) /\ i < nextIno
      /\ \A j \in Ino : \A k : Bears(j, k) <=> open[j] # NoNode /\ open[j] = k
  BY SectionFacts DEF At
<1>2. /\ open = [j \in Ino |-> open[j]] /\ CatalogTyped(db)
      /\ storage \in [Path -> 0..Dir] /\ expect \in [Path -> 0..MaxVer \cup {Dir}]
      /\ file \in [Ino -> 0..Torn]
  BY DEF SerialInv, Typed, ListInv, HandleInv, OpenTyped
<1>3. open' = [open EXCEPT ![i] = open[i]] /\ Exits(c, open[i])
  BY <1>1, <1>2 DEF Exits
<1>4. \A j \in Ino : \A k : Bears(j, k)' <=> Bears(j, k)
  <2>1. PICK n : n = open[i]
    OBVIOUS
  <2>2. /\ \A j \in Ino \ {i} : \A k : Bears(j, k)' <=> Bears(j, k)
        /\ \A k : Bears(i, k)' <=> k = n
    <3>1. Exits(c, n) /\ n # NoNode /\ open' = [open EXCEPT ![i] = n]
      BY <1>1, <1>3, <2>1
    <3> QED BY <3>1, SectionBears
  <2> QED BY <1>1, <2>1, <2>2
<1>5. Dead(i)
  <2>1. open[i].valid
    BY <1>1 DEF NodeOK
  <2>2. \A k : Bears(i, k)' => k.deleted /\ k.valid
    BY <1>1, <1>4, <2>1
  <2>3. \A q \in Path : ~Lists(i, q)
    <3> SUFFICES ASSUME NEW q \in Path, Lists(i, q) PROVE FALSE
      OBVIOUS
    <3>1. Bears(i, open[i])
      BY <1>1
    <3>2. q = open[i].path
      BY <3>1, OnePathEach DEF SerialInv
    <3> QED BY <1>1, <3>2 DEF NodeOK
  <2> QED BY <2>2, <2>3 DEF Dead
<1>6. DataInv'
  <2>1. \A j \in Ino : file'[j] = file[j] \/ Dead(j)
    BY <1>2, <1>5
  <2>2. \A j \in Ino : \A k : Bears(j, k)' => Bears(j, k) /\ Alike(k, k)
    BY <1>4 DEF Alike
  <2>3. \A j \in Ino : open'[j] # NoNode => open[j] # NoNode /\ Alike(open'[j], open[j])
    BY DEF Alike
  <2>4. DataInv
    BY DEF SerialInv
  <2> QED BY <1>2, <2>1, <2>2, <2>3, <2>4, QuietData
<1>7. ClientsOK' /\ name' \in [Client -> Path \cup {NoPath}]
  BY <1>1, <1>3, SectionClients
<1>8. Track' /\ Fresh'
  <2>1. mode = "run" /\ mode' = "run" /\ loop' = loop
    BY DEF ClientStep
  <2>2. Fresh'
    BY <1>1, <1>2 DEF SerialInv, Fresh
  <2>3. ASSUME NEW j \in Ino, (\E q \in Path : Lists(j, q)') \/ file'[j] # 0 PROVE Known(j)'
    <3>1. CASE j = i
      BY <1>1, <3>1 DEF Known
    <3>2. CASE j # i
      <4>1. Known(j)
        BY <1>2, <2>1, <2>3, <3>2 DEF SerialInv, Track, Lists
      <4>2. ~\E a \in Client : req[a].pc # "idle" /\ req[a].ino = j
        BY <1>1, <3>2 DEF SerialInv, Alone
      <4> QED BY <2>1, <4>1, <4>2 DEF Known
    <3> QED BY <3>1, <3>2
  <2> QED BY <2>2, <2>3 DEF Track
<1>9. NegCoherent'
  BY DEF SerialInv, NegCoherent
<1>10. Typed'
  BY <1>4, <1>7 DEF SerialInv, Typed
<1>11. Alone' /\ Phases'
  BY ClientTurns
<1>12. Exact'
  BY <1>3, SectionExact
<1> QED BY <1>6, <1>7, <1>8, <1>9, <1>10, <1>11, <1>12 DEF SerialInv

\* Deleted nodes with an open file: neither catalog nor node change.
LEMMA DeadFile ==
    ASSUME SerialInv, NEW c \in Client, NEW i \in Ino, NEW p \in Path, At(c, i, p),
           open[i].deleted, IoWorks(open[i])
    PROVE  /\ open[i].fd # "none" /\ ~Fetches(open[i])
           /\ req[c].op \notin PathOps /\ name[c] = NoPath
           /\ \A h : EnsureFile(c, open[i], h) => UNCHANGED <<open, db, negpres>>
<1>1. /\ req[c].ino = i /\ (req[c].op \in PathOps => ~open[i].deleted)
      /\ (req[c].op \notin PathOps => fh[c] = i)
      /\ open[i].ino = i /\ open = [j \in Ino |-> open[j]]
  BY SectionFacts DEF At, SerialInv, ListInv, HandleInv, OpenTyped
<1>2. open[i].fd # "none" /\ ~Fetches(open[i])
  BY DEF IoWorks, Fetches
<1>3. fh[c] = i /\ i # 0 /\ HandleOK(c)
  BY <1>1, CacheAssumption DEF SerialInv, ClientsOK
<1>4. name[c] = NoPath
  BY <1>3 DEF HandleOK
<1>5. ASSUME NEW h, EnsureFile(c, open[i], h) PROVE UNCHANGED <<open, db, negpres>>
  <2>1. IoNode(open[i], h) = open[i]
    BY <1>2 DEF IoNode
  <2> QED BY <1>1, <1>2, <1>5, <2>1 DEF EnsureFile
<1> QED BY <1>1, <1>2, <1>4, <1>5

\* Reads and writes that fail.
LEMMA ioFailsInv ==
    ASSUME SerialInv, ListInv', ~IsNode(NoNode),
           NEW c \in Client, ClientStep(c), ioFails(c)
    PROVE  SerialInv'
<1>1. SectionStep(c) /\ req[c].pc = "cs" /\ req[c].op \in IoOps
  BY ioFailsStep DEF SerialInv, ListInv, ioFails, InSection, IoOps
<1>2. PICK i \in Ino, p \in Path : At(c, i, p)
  BY <1>1, SectionFacts DEF At
<1>3. req[c].ino = i /\ open[i].path = p /\ open[i].ino = i /\ IsNode(open[i])
      /\ NodeTyped(open[i])
  BY <1>2, SectionFacts DEF At
<1>4. CASE Quit(c)
  <2>1. /\ Leave(c) /\ UNCHANGED <<fh, name>>
        /\ UNCHANGED <<storage, expect, db, file, open, lru, nextIno, nextVer, negpres>>
    BY <1>4 DEF Quit, persistent, pres, user
  <2>2. Exits(c, open[i])
    BY <1>1, <1>3, <2>1 DEF Exits
  <2> QED BY <1>1, <1>2, <2>1, <2>2, QuietSection
<1>5. CASE /\ open[i].fd = "none" /\ IoWorks(open[i]) /\ Overwrites(open[i])
           /\ file' = [file EXCEPT ![i] = Torn] /\ Leave(c)
           /\ UNCHANGED <<storage, db, nextIno, open, lru, negpres, fh, name, nextVer, expect>>
  <2>1. ~open[i].deleted /\ file[i] # 0
    BY <1>3, <1>5 DEF IoWorks, Overwrites
  <2>2. storage[p] \in 1..Torn /\ expect[p] \in 1..MaxVer
    BY <1>1, <1>2, <1>5, <2>1, IoOnFiles
  <2>3. Sound(i, open[i], Get(db, p), storage[p], expect[p], file[i])
    BY <1>2, <2>1, LiveNode
  <2>4. Torn + 1 = Dir /\ MaxVer + 1 = Torn /\ MaxVer \in Nat
    BY CacheAssumption DEF Torn, Dir
  <2>5. Sound(i, open[i], Get(db, p), storage[p], expect[p], Torn)
    BY <2>1, <2>2, <2>3, <2>4 DEF Sound
  <2>6. Exits(c, open[i])
    BY <1>1, <1>3, <1>5 DEF Exits
  <2>7. /\ open = [j \in Ino |-> open[j]] /\ db \in Db /\ Consistent(db)
        /\ storage \in [Path -> 0..Dir] /\ expect \in [Path -> 0..MaxVer \cup {Dir}]
        /\ nextVer \in 1..MaxVer + 1
    BY DEF SerialInv, Typed, DataInv, ListInv, HandleInv, OpenTyped
  <2>8. Changes(i, p, open[i], Get(db, p), storage[p], expect[p], Torn)
    BY <1>5, <2>7 DEF Changes
  <2>9. Elems(lru.rw)' = Elems(lru.rw) /\ Elems(lru.ro)' = Elems(lru.ro)
    BY <1>5
  <2>10. \A q \in negpres' : q \in negpres /\ q # p
    BY <1>5, <2>2 DEF SerialInv, NegCoherent
  <2>11. Torn \in 0..Torn /\ db' \in Db /\ Consistent(db') /\ nextVer' \in 1..MaxVer + 1
         /\ storage[p] \in 0..Dir /\ expect[p] \in 0..MaxVer \cup {Dir}
    BY <1>5, <2>4, <2>7
  <2>12. PICK n, d, s, e : n = open[i] /\ d = Get(db, p) /\ s = storage[p] /\ e = expect[p]
    OBVIOUS
  <2>13. /\ Sound(i, n, d, s, e, Torn) /\ Exits(c, n) /\ Changes(i, p, n, d, s, e, Torn)
         /\ IsNode(n) /\ NodeTyped(n) /\ n.path = p /\ s \in 0..Dir /\ e \in 0..MaxVer \cup {Dir}
         /\ open[i].valid => n.valid
    BY <1>3, <2>5, <2>6, <2>8, <2>11, <2>12
  <2> QED BY <1>1, <1>2, <2>1, <2>9, <2>10, <2>11, <2>13, SectionInv
<1> QED BY <1>3, <1>4, <1>5 DEF ioFails, pres, user

\* Read.
LEMMA readAtInv ==
    ASSUME SerialInv, ListInv', ~IsNode(NoNode),
           NEW c \in Client, ClientStep(c), readAt(c)
    PROVE  SerialInv'
<1>1. SectionStep(c) /\ req[c].pc = "cs" /\ req[c].op \in IoOps
  BY readAtStep DEF SerialInv, ListInv, readAt, InSection, IoOps
<1>2. PICK i \in Ino, p \in Path : At(c, i, p)
  BY <1>1, SectionFacts DEF At
<1>3. req[c].ino = i /\ open[i].path = p /\ open[i].ino = i
  BY <1>2, SectionFacts DEF At
<1>4. /\ IoWorks(open[i]) /\ EnsureFile(c, open[i], storage[p]) /\ Leave(c)
      /\ IF Fetches(open[i]) THEN \E v \in Fetched(open[i]) : file' = [file EXCEPT ![i] = v]
         ELSE UNCHANGED file
      /\ UNCHANGED <<storage, nextIno, lru, fh, name, nextVer, expect>>
  BY <1>3 DEF readAt, user
<1>5. /\ file \in [Ino -> 0..Torn] /\ expect \in [Path -> 0..MaxVer \cup {Dir}]
      /\ nextVer' \in 1..MaxVer + 1 /\ storage[p] \in Sig
  BY <1>4, CacheAssumption DEF SerialInv, Typed
<1>6. Elems(lru.rw)' = Elems(lru.rw) /\ Elems(lru.ro)' = Elems(lru.ro)
  BY <1>4
<1>7. CASE open[i].deleted
  <2>1. open[i].fd # "none" /\ ~Fetches(open[i]) /\ UNCHANGED <<open, db, negpres>>
    BY <1>2, <1>4, <1>7, DeadFile
  <2>2. file' = [file EXCEPT ![i] = file[i]] /\ file[i] \in 0..Torn
    BY <1>4, <1>5, <2>1
  <2> QED BY <1>1, <1>2, <1>4, <1>5, <1>6, <1>7, <2>1, <2>2, DeadInv
<1>8. CASE ~open[i].deleted
  <2>1. storage[p] \in 1..Torn /\ expect[p] \in 1..MaxVer
    BY <1>1, <1>2, <1>4, <1>8, IoOnFiles
  <2>2. Sound(i, open[i], Get(db, p), storage[p], expect[p], file[i])
    BY <1>2, <1>8, LiveNode
  <2>3. PICK x \in 1..Torn : file' = [file EXCEPT ![i] = x]
    <3>1. CASE Fetches(open[i])
      <4>1. PICK v \in Fetched(open[i]) : file' = [file EXCEPT ![i] = v]
        BY <1>4, <3>1
      <4>2. Torn \in 1..Torn
        BY CacheAssumption DEF Torn
      <4>3. v \in 1..Torn
        BY <1>3, <2>1, <4>1, <4>2 DEF Fetched
      <4> QED BY <4>1, <4>3
    <3>2. CASE ~Fetches(open[i])
      <4>1. file[i] # 0
        BY <1>3, <1>8, <2>2, <3>2 DEF Fetches, Sound
      <4>2. file' = [file EXCEPT ![i] = file[i]] /\ file[i] \in 1..Torn
        BY <1>4, <1>5, <3>2, <4>1
      <4> QED BY <4>2
    <3> QED BY <3>1, <3>2
  <2>4. expect' = [expect EXCEPT ![p] = expect[p]]
    BY <1>4, <1>5
  <2> QED BY <1>1, <1>2, <1>4, <1>5, <1>6, <1>8, <2>1, <2>3, <2>4, IoInv
<1> QED BY <1>7, <1>8

\* Write and Truncate.
LEMMA modifyFileInv ==
    ASSUME SerialInv, ListInv', ~IsNode(NoNode),
           NEW c \in Client, ClientStep(c), modifyFile(c)
    PROVE  SerialInv'
<1>1. SectionStep(c) /\ req[c].pc = "cs" /\ req[c].op \in Modifies /\ req[c].op \in IoOps
  BY modifyFileStep DEF SerialInv, ListInv, modifyFile, InSection, IoOps
<1>2. PICK i \in Ino, p \in Path : At(c, i, p)
  BY <1>1, SectionFacts DEF At
<1>3. req[c].ino = i /\ open[i].path = p /\ open[i].ino = i
  BY <1>2, SectionFacts DEF At
<1> DEFINE r == IF req[c].op \in PathOps THEN req[c].path ELSE name[c]
<1>4. /\ IoWorks(open[i]) /\ Leave(c)
      /\ lru' = touchIno(lru, i, TRUE) /\ nextVer' = nextVer + 1
      /\ expect' = IF r = NoPath THEN expect ELSE [expect EXCEPT ![r] = nextVer]
      /\ UNCHANGED <<storage, nextIno, fh, name>>
  BY <1>3 DEF modifyFile
<1>5. PICK x, h : /\ EnsureFile(c, open[i], h) /\ x \in {nextVer, Torn}
                  /\ h \in {nextVer, Torn, storage[p]}
                  /\ file' = IF open[i].fd = "orphan" THEN file ELSE [file EXCEPT ![i] = x]
  BY <1>3 DEF modifyFile
<1>6. /\ file \in [Ino -> 0..Torn] /\ expect \in [Path -> 0..MaxVer \cup {Dir}]
      /\ nextVer \in 1..MaxVer + 1 /\ storage[p] \in Sig /\ Sig = 0..Dir /\ MaxVer \in Nat
      /\ MaxVer + 1 = Torn /\ Torn + 1 = Dir
  BY CacheAssumption DEF SerialInv, Typed, Torn, Dir
<1>7. nextVer \in 1..MaxVer
  BY <1>1, <1>6 DEF SerialInv, ClientsOK, ReqOK
<1>8. x \in 1..Torn /\ h \in Sig /\ nextVer' \in 1..MaxVer + 1
  BY <1>4, <1>5, <1>6, <1>7
<1>9. /\ Elems(lru.rw)' = Elems(lru.rw) \cup {i}
      /\ Elems(lru.ro)' = Elems(lru.ro) \ {i}
  BY <1>4, TouchElems DEF SerialInv, ListInv
<1>10. CASE open[i].deleted
  <2>1. /\ open[i].fd # "none" /\ ~Fetches(open[i]) /\ UNCHANGED <<open, db, negpres>>
        /\ req[c].op \notin PathOps /\ name[c] = NoPath
    BY <1>2, <1>4, <1>5, <1>10, DeadFile
  <2>2. expect' = expect
    BY <1>4, <2>1
  <2>3. PICK y \in 0..Torn : file' = [file EXCEPT ![i] = y]
    <3>1. CASE open[i].fd = "orphan"
      <4>1. file' = [file EXCEPT ![i] = file[i]] /\ file[i] \in 0..Torn
        BY <1>5, <1>6, <3>1
      <4> QED BY <4>1
    <3>2. CASE open[i].fd # "orphan"
      <4>1. x \in 0..Torn /\ file' = [file EXCEPT ![i] = x]
        BY <1>5, <1>6, <1>8, <3>2
      <4> QED BY <4>1
    <3> QED BY <3>1, <3>2
  <2> QED BY <1>1, <1>2, <1>4, <1>8, <1>9, <1>10, <2>1, <2>2, <2>3, DeadInv
<1>11. CASE ~open[i].deleted
  <2>1. r = p
    BY <1>1, <1>2, <1>4, <1>11, IoOnFiles
  <2>2. expect' = [expect EXCEPT ![p] = nextVer]
    BY <1>4, <2>1, AbsentAssumption
  <2>3. open[i].fd # "orphan"
    <3>1. Sound(i, open[i], Get(db, p), storage[p], expect[p], file[i])
      BY <1>2, <1>11, LiveNode
    <3> QED BY <1>11, <3>1 DEF Sound
  <2>4. file' = [file EXCEPT ![i] = x]
    BY <1>5, <2>3
  <2> HIDE DEF r
  <2>5. PICK e \in 1..MaxVer : e = nextVer
    BY <1>7
  <2>6. expect' = [expect EXCEPT ![p] = e]
    BY <2>2, <2>5
  <2>7. /\ Elems(lru.rw) \cup Elems(lru.ro) \subseteq Elems(lru.rw)' \cup Elems(lru.ro)'
        /\ Elems(lru.rw)' \cup Elems(lru.ro)' \subseteq Elems(lru.rw) \cup Elems(lru.ro) \cup {i}
    BY <1>9
  <2>8. /\ IoWorks(open[i]) /\ Leave(c) /\ EnsureFile(c, open[i], h)
        /\ UNCHANGED <<storage, nextIno, fh, name>>
    BY <1>4, <1>5
  <2>9. /\ SectionStep(c) /\ req[c].op \in IoOps /\ At(c, i, p) /\ ~open[i].deleted
        /\ h \in Sig /\ x \in 1..Torn /\ nextVer' \in 1..MaxVer + 1
    BY <1>1, <1>2, <1>8, <1>11
  <2> QED BY <2>4, <2>5, <2>6, <2>7, <2>8, <2>9, IoInv
<1> QED BY <1>10, <1>11

-----------------------------------------------------------------------------
(* Readdir *)

\* Touching the inodes of a listing puts them on the lists, and no other.
LEMMA TouchAllElems ==
    ASSUME IsLru(lru), NEW inos, Len(inos) \in Nat
    PROVE  Elems(TouchAll(inos).rw) \cup Elems(TouchAll(inos).ro)
                = Elems(lru.rw) \cup Elems(lru.ro) \cup {inos[m] : m \in 1..Len(inos)}
<1> DEFINE f == CHOOSE g : TouchesTo(lru, inos, Len(inos), g)
           E(m) == Elems(f[m].rw) \cup Elems(f[m].ro)
           S(m) == {inos[k] : k \in 1..m}
<1>1. TouchesTo(lru, inos, Len(inos), f)
  BY TouchesExists
<1>2. TouchAll(inos) = f[Len(inos)]
  BY Zenon DEF TouchAll, TouchesTo, TouchClean
<1> HIDE DEF f
<1>3. /\ f[0] = lru
      /\ \A m \in 1..Len(inos) : f[m] = TouchClean(f[m - 1], inos[m])
  BY <1>1, TouchesAt
<1> DEFINE G == {m \in Nat : m <= Len(inos) => IsLru(f[m]) /\ E(m) = E(0) \cup S(m)}
<1>4. 0 \in G
  <2>1. S(0) = {}
    OBVIOUS
  <2> HIDE DEF S, E
  <2> QED BY <1>3, <2>1
<1>5. ASSUME NEW m \in Nat, m \in G PROVE m + 1 \in G
  <2>1. SUFFICES ASSUME m + 1 <= Len(inos) PROVE IsLru(f[m + 1]) /\ E(m + 1) = E(0) \cup S(m + 1)
    OBVIOUS
  <2>2. IsLru(f[m]) /\ E(m) = E(0) \cup S(m) /\ m + 1 \in 1..Len(inos) /\ (m + 1) - 1 = m
    BY <1>5, <2>1
  <2>3. f[m + 1] = TouchClean(f[m], inos[m + 1])
    BY <1>3, <2>2
  <2>4. IsLru(f[m + 1])
    BY <2>2, <2>3, TouchKeeps DEF TouchClean
  <2>5. PICK l, x : l = f[m] /\ x = inos[m + 1]
    OBVIOUS
  <2>6. /\ Elems(touchIno(l, x, FALSE).rw) = Elems(l.rw)
        /\ Elems(touchIno(l, x, FALSE).ro) =
             IF x \in Elems(l.rw) THEN Elems(l.ro) ELSE Elems(l.ro) \cup {x}
    BY <2>2, <2>5, TouchElems
  <2>7. f[m + 1] = touchIno(l, x, FALSE)
    BY <2>3, <2>5 DEF TouchClean
  <2>8. Elems(f[m + 1].rw) \cup Elems(f[m + 1].ro) = Elems(l.rw) \cup Elems(l.ro) \cup {x}
    BY <2>6, <2>7
  <2>9. S(m + 1) = S(m) \cup {x}
    BY <2>5
  <2>10. E(m + 1) = E(m) \cup {x}
    BY <2>5, <2>8
  <2> HIDE DEF S, E
  <2> QED BY <2>2, <2>4, <2>9, <2>10
<1>6. Len(inos) \in G
  <2> HIDE DEF G
  <2> QED BY <1>4, <1>5, Induction
<1>7. E(Len(inos)) = E(0) \cup S(Len(inos))
  <2> HIDE DEF E, S
  <2> QED BY <1>6
<1> QED BY <1>2, <1>3, <1>7

\* N holds, each with its key, the new nodes of the objects in directory p that the
\* catalog does not know; the inode numbers from nextIno to k are theirs.
NewNodes(N, p, k) ==
    /\ \A e \in N :
        /\ e[1] \in Path /\ ChildOf(e[1], p) /\ storage[e[1]] # 0 /\ Get(db, e[1]) = NoNode
        /\ e[2] \in DbNode /\ e[2].path = e[1] /\ e[2].sig = storage[e[1]] /\ e[2].hash = 0
        /\ nextIno <= e[2].ino /\ e[2].ino < k
    /\ \A e, f \in N : e[1] = f[1] \/ e[2].ino = f[2].ino => e = f

\* Storing them.
LEMMA PutAllAt ==
    ASSUME NEW d \in Db, Consistent(d), NEW N,
           \A e \in N : e[1] \in Path /\ e[2] \in DbNode,
           \A e, f \in N : e[1] = f[1] \/ e[2].ino = f[2].ino => e = f,
           \A e \in N : Get(d, e[1]) = NoNode /\ d.idx[e[2].ino] = NoPath
    PROVE  /\ \A e \in N : Get(PutAll(d, N), e[1]) = e[2]
           /\ \A q \in Path : (\A e \in N : e[1] # q) => Get(PutAll(d, N), q) = Get(d, q)
           /\ PutAll(d, N) \in Db /\ Consistent(PutAll(d, N))
<1> DEFINE b == PutAll(d, N)
           cat == [k \in Path |-> IF \E e \in N : e[1] = k
                                 THEN (CHOOSE e \in N : e[1] = k)[2] ELSE d.cat[k]]
           idx == [i \in Ino |-> IF \E e \in N : e[2].ino = i
                                 THEN (CHOOSE e \in N : e[2].ino = i)[1] ELSE d.idx[i]]
<1>1. b = [idx |-> idx, cat |-> cat]
  BY DEF PutAll
<1>2. d.idx \in [Ino -> Path \cup {NoPath}] /\ d.cat \in [Path -> DbNode \cup {NoNode}]
  BY DEF Db
<1>3. ASSUME NEW e \in N PROVE cat[e[1]] = e[2] /\ idx[e[2].ino] = e[1]
  <2>1. e[1] \in Path /\ e[2].ino \in Ino
    BY DEF DbNode
  <2>2. PICK f, g : /\ f = CHOOSE x \in N : x[1] = e[1]
                    /\ g = CHOOSE x \in N : x[2].ino = e[2].ino
    OBVIOUS
  <2>3. f \in N /\ f[1] = e[1] /\ g \in N /\ g[2].ino = e[2].ino
    BY <2>2
  <2>4. cat[e[1]] = f[2] /\ idx[e[2].ino] = g[1]
    BY <2>1, <2>2
  <2> HIDE DEF cat, idx
  <2>5. f = e /\ g = e
    BY <2>3
  <2> QED BY <2>4, <2>5
<1>4. ASSUME NEW q \in Path, \A e \in N : e[1] # q PROVE cat[q] = d.cat[q]
  BY <1>4
<1>5. ASSUME NEW i \in Ino, \A e \in N : e[2].ino # i PROVE idx[i] = d.idx[i]
  BY <1>5
<1>6. cat = [q \in Path |-> cat[q]] /\ idx = [i \in Ino |-> idx[i]]
  OBVIOUS
<1> HIDE DEF cat, idx
<1>7. b.cat = cat /\ b.idx = idx
  BY <1>1
<1>8. ASSUME NEW q \in Path PROVE cat[q] \in DbNode \cup {NoNode}
  <2>1. CASE \E e \in N : e[1] = q
    BY <1>3, <2>1
  <2>2. CASE \A e \in N : e[1] # q
    BY <1>2, <1>4, <2>2
  <2> QED BY <2>1, <2>2
<1>9. ASSUME NEW i \in Ino PROVE idx[i] \in Path \cup {NoPath}
  <2>1. CASE \E e \in N : e[2].ino = i
    BY <1>3, <2>1
  <2>2. CASE \A e \in N : e[2].ino # i
    BY <1>2, <1>5, <2>2
  <2> QED BY <2>1, <2>2
<1>10. b \in Db
  <2>1. cat \in [Path -> DbNode \cup {NoNode}] /\ idx \in [Ino -> Path \cup {NoPath}]
    BY <1>6, <1>8, <1>9
  <2> HIDE DEF b
  <2> QED BY <1>1, <2>1 DEF Db
<1>11. ASSUME NEW q \in Path, cat[q] # NoNode PROVE idx[cat[q].ino] = q
  <2>1. CASE \E e \in N : e[1] = q
    BY <1>3, <2>1
  <2>2. CASE \A e \in N : e[1] # q
    <3>1. cat[q] = Get(d, q) /\ Get(d, q) \in DbNode
      BY <1>2, <1>4, <1>11, <2>2 DEF Get
    <3>2. d.idx[Get(d, q).ino] = q /\ Get(d, q).ino \in Ino
      BY <1>11, <3>1 DEF Consistent, DbNode
    <3>3. \A e \in N : e[2].ino # Get(d, q).ino
      BY <3>2, AbsentAssumption
    <3> QED BY <1>5, <3>1, <3>2, <3>3
  <2> QED BY <2>1, <2>2
<1>12. ASSUME NEW i \in Ino, idx[i] # NoPath
       PROVE  idx[i] \in Path /\ cat[idx[i]] # NoNode /\ cat[idx[i]].ino = i
  <2>1. CASE \E e \in N : e[2].ino = i
    <3>1. PICK e \in N : e[2].ino = i
      BY <2>1
    <3>2. idx[i] = e[1] /\ cat[e[1]] = e[2] /\ e[1] \in Path /\ e[2] # NoNode
      BY <1>3, <3>1, AbsentAssumption DEF DbNode
    <3> QED BY <3>1, <3>2
  <2>2. CASE \A e \in N : e[2].ino # i
    <3>1. idx[i] = d.idx[i] /\ d.idx[i] \in Path
      BY <1>2, <1>5, <1>12, <2>2
    <3>2. Get(d, d.idx[i]) # NoNode /\ Get(d, d.idx[i]).ino = i
      BY <1>12, <3>1 DEF Consistent, GetWithIno
    <3>3. \A e \in N : e[1] # d.idx[i]
      BY <3>2
    <3> QED BY <1>4, <3>1, <3>2, <3>3 DEF Get
  <2> QED BY <2>1, <2>2
<1> HIDE DEF b
<1>13. Consistent(b)
  BY <1>7, <1>11, <1>12 DEF Consistent, GetWithIno, Get
<1>14. /\ \A e \in N : Get(b, e[1]) = e[2]
       /\ \A q \in Path : (\A e \in N : e[1] # q) => Get(b, q) = Get(d, q)
  BY <1>3, <1>4, <1>7 DEF Get
<1> QED BY <1>10, <1>13, <1>14 DEF b

\* A node that is open is the one of a handle or of a request on a path.
LEMMA SomebodyHolds ==
    ASSUME SerialInv, NEW i \in Ino, open[i] # NoNode
    PROVE  \/ \E d \in Client : fh[d] = i
           \/ \E d \in Client : /\ req[d].pc \in {"key", "cs", "close"}
                                /\ req[d].op \in PathOps /\ req[d].ino = i
<1>1. Counted(i) \in Nat \ {0} /\ Counted(i) <= References(i)
  BY DEF SerialInv, ListInv, HandleInv, OpenTyped, Counted, Exact
<1>2. Handles(i) # {} \/ Requests(i) # {}
  <2> SUFFICES ASSUME Handles(i) = {}, Requests(i) = {} PROVE FALSE
    OBVIOUS
  <2>1. Cardinality({}) = 0
    BY FS_EmptySet
  <2> QED BY <1>1, <2>1, ReferencesAre
<1> QED BY <1>2 DEF Handles, Requests

\* Client c is the only one with a request, and none on a path is past openNode; path p
\* is not the one of its handle.  Then nobody has the path open unless the catalog
\* knows it.
LEMMA NoBearer ==
    ASSUME Serial, SerialInv, NEW c \in Client, NEW p \in Path, Get(db, p) = NoNode,
           \A d \in Client \ {c} : req[d].pc = "idle",
           ~Hand(c), req[c].pc # "idle" => req[c].op \notin PathOps,
           fh[c] # 0 => open[fh[c]].path # p,
           NEW j \in Ino, NEW n, Bears(j, n), n.path = p
    PROVE  n.deleted
<1> SUFFICES ASSUME ~n.deleted PROVE FALSE
  OBVIOUS
<1>1. open[j] # NoNode /\ open[j] = n
  BY DEF Bears, Hand
<1>2. PICK d \in Client : fh[d] = j
  BY <1>1, SomebodyHolds
<1>3. n.valid
  BY <1>1, <1>2, CacheAssumption DEF SerialInv, ClientsOK, HandleOK
<1>4. NodeOK(j, n)
  BY DEF SerialInv, DataInv
<1>5. Evicts
  BY <1>3, <1>4 DEF NodeOK, Lists
<1>6. d = c
  BY <1>5 DEF Serial
<1> QED BY <1>1, <1>2, <1>6, CacheAssumption

\* What readdirNode does with a directory whose listing is not cached.
LEMMA ListedForm ==
    ASSUME SerialInv, NEW c \in Client, NEW i \in Ino, NEW p \in Path, At(c, i, p),
           readdirNode(c)
    PROVE  \/ /\ Leave(c)
              /\ UNCHANGED <<storage, expect, db, file, open, lru, nextIno, nextVer, negpres, fh, name>>
           \/ \E N, inos :
                /\ ~open[i].deleted /\ NewNodes(N, p, nextIno') /\ db' = PutAll(db, N)
                /\ lru' = TouchAll(inos) /\ Len(inos) \in Nat
                /\ \A m \in 1..Len(inos) : inos[m] \in Ino
                /\ \A e \in N : \E m \in 1..Len(inos) : inos[m] = e[2].ino
                /\ nextIno' \in 1..MaxIno + 1 /\ nextIno <= nextIno'
                /\ negpres' = negpres \ {p} /\ Leave(c)
                /\ UNCHANGED <<storage, expect, file, open, nextVer, fh, name>>
<1> DEFINE objs == List(p)
           key(j) == Rebase(objs[j], p, p)
           new == {j \in DOMAIN objs : Get(db, key(j)) = NoNode}
           number(j) == nextIno + Cardinality({l \in new : l < j})
           node(j) == [ino |-> number(j), path |-> objs[j], sig |-> storage[objs[j]], hash |-> 0]
           inos == [j \in DOMAIN objs |-> Get(db', key(j)).ino]
           N == {<<key(j), node(j)>> : j \in new}
<1>1. req[c].ino = i /\ open[i].path = p /\ req[c].key = p /\ req[c].pc = "cs"
  BY SectionFacts DEF At
<1>2. CASE \/ Quit(c)
           \/ Leave(c) /\ UNCHANGED <<persistent, open, lru, negpres, fh, loop, mode, restarts, user>>
  BY <1>2 DEF Quit, persistent, pres, user
<1>3. CASE /\ ~open[i].deleted /\ storage[p] = Dir
           /\ nextIno + Cardinality(new) <= MaxIno + 1
           /\ nextIno' = nextIno + Cardinality(new)
           /\ db' = PutAll(db, N)
           /\ lru' = TouchAll(inos)
           /\ negpres' = negpres \ {p}
           /\ Leave(c)
           /\ UNCHANGED <<storage, expect, file, open, nextVer, fh, name>>
  <2> DEFINE T == {q \in Path : ChildOf(q, p) /\ storage[q] # 0}
  <2>1. objs \in Seq(Path) /\ Distinct(objs) /\ Elems(objs) \subseteq T
    <3>1. objs = Sift(KeyOrder, T)
      BY DEF List
    <3> HIDE DEF T
    <3> QED BY <3>1, CacheAssumption, SiftProps
  <2>2. Len(objs) \in Nat /\ DOMAIN objs = 1..Len(objs) /\ new \in SUBSET (1..Len(objs))
    BY <2>1
  <2>3. ASSUME NEW j \in DOMAIN objs
        PROVE  key(j) = objs[j] /\ objs[j] \in Path /\ ChildOf(objs[j], p) /\ storage[objs[j]] # 0
    <3>1. objs[j] \in T
      BY <2>1 DEF Elems
    <3>2. objs[j] \in Path /\ ChildOf(objs[j], p) /\ storage[objs[j]] # 0
      BY <3>1
    <3> QED BY <3>2, RebaseSame
  <2>4. /\ nextIno \in Nat \ {0} /\ CatalogTyped(db) /\ storage \in [Path -> Sig] /\ 0 \in Sig
        /\ db \in Db /\ Consistent(db) /\ Ino \subseteq Nat /\ MaxIno \in Nat
    BY CacheAssumption DEF SerialInv, ListInv, HandleInv, Typed, DataInv, Dir
  <2>5. nextIno' \in Nat \ {0} /\ \A j \in new : number(j) \in Ino
    <3> HIDE DEF new
    <3> QED BY <1>3, <2>2, <2>4, NumbersFit
  <2>6. /\ \A j \in new : nextIno <= number(j) /\ number(j) < nextIno'
        /\ \A k, j \in new : number(k) = number(j) => k = j
    <3> HIDE DEF new
    <3>1. /\ \A j \in new : /\ nextIno <= number(j)
                            /\ number(j) < nextIno + Cardinality(new)
          /\ \A k, j \in new : number(k) = number(j) => k = j
      BY <2>2, <2>4, NumbersDiffer, Zenon
    <3> HIDE DEF number
    <3>2. nextIno' = nextIno + Cardinality(new)
      BY <1>3
    <3> QED BY <3>1, <3>2
  <2>7. nextIno <= nextIno' /\ nextIno' \in 1..MaxIno + 1
    <3> DEFINE k == Len(objs)
    <3>1. k \in Nat /\ new \in SUBSET (1..k)
      BY <2>2
    <3>2. nextIno' = nextIno + Cardinality(new) /\ nextIno + Cardinality(new) <= MaxIno + 1
      BY <1>3
    <3> HIDE DEF new, k
    <3>3. IsFiniteSet(1..k)
      BY <3>1, FS_Interval
    <3>4. Cardinality(new) \in Nat
      BY <3>1, <3>3, FS_Subset, FS_CardinalityType
    <3> QED BY <2>4, <2>5, <3>2, <3>4
  <2> HIDE DEF number
  <2>8. ASSUME NEW e \in N
        PROVE  \E j \in new : /\ e[1] = objs[j] /\ e[2].ino = number(j)
                              /\ e = <<objs[j], node(j)>>
                              /\ e[2] \in DbNode /\ e[2].path = e[1]
                              /\ e[2].sig = storage[e[1]] /\ e[2].hash = 0
    <3>1. PICK j \in new : e = <<key(j), node(j)>>
      OBVIOUS
    <3>2. e[1] = key(j) /\ e[2] = node(j) /\ key(j) = objs[j] /\ objs[j] \in Path
      BY <2>3, <3>1
    <3>3. storage[objs[j]] \in Sig /\ number(j) \in Ino
      BY <2>4, <2>5, <3>2
    <3>4. node(j) \in DbNode
      BY <2>4, <3>2, <3>3 DEF DbNode
    <3> QED BY <3>1, <3>2, <3>4
  <2>9. ASSUME NEW j \in new PROVE \E e \in N : e[1] = objs[j] /\ e[2].ino = number(j)
    <3>1. key(j) = objs[j]
      BY <2>3
    <3>2. <<key(j), node(j)>> \in N
      OBVIOUS
    <3> QED BY <3>1, <3>2
  <2>10. ASSUME NEW j \in new PROVE Get(db, objs[j]) = NoNode /\ j \in DOMAIN objs
    BY <2>3
  <2>11. ASSUME NEW j \in DOMAIN objs, j \notin new PROVE Get(db, objs[j]) # NoNode
    BY <2>3, <2>11
  <2>12. inos = [j \in 1..Len(objs) |-> Get(db', objs[j]).ino]
    BY <2>2, <2>3
  <2>13. \A k, j \in DOMAIN objs : objs[k] = objs[j] => k = j
    BY <2>1 DEF Distinct
  <2> HIDE DEF N, new, objs, inos, node
  <2>14. NewNodes(N, p, nextIno')
    <3>1. ASSUME NEW e \in N
          PROVE  /\ e[1] \in Path /\ ChildOf(e[1], p) /\ storage[e[1]] # 0 /\ Get(db, e[1]) = NoNode
                 /\ e[2] \in DbNode /\ e[2].path = e[1] /\ e[2].sig = storage[e[1]] /\ e[2].hash = 0
                 /\ nextIno <= e[2].ino /\ e[2].ino < nextIno'
      <4>1. PICK j \in new : /\ e[1] = objs[j] /\ e[2].ino = number(j)
                             /\ e[2] \in DbNode /\ e[2].path = e[1]
                             /\ e[2].sig = storage[e[1]] /\ e[2].hash = 0
        BY <2>8
      <4> QED BY <2>3, <2>6, <2>10, <4>1
    <3>2. ASSUME NEW e \in N, NEW f \in N, e[1] = f[1] \/ e[2].ino = f[2].ino PROVE e = f
      <4>1. PICK j \in new : e[1] = objs[j] /\ e[2].ino = number(j) /\ e = <<objs[j], node(j)>>
        BY <2>8
      <4>2. PICK k \in new : f[1] = objs[k] /\ f[2].ino = number(k) /\ f = <<objs[k], node(k)>>
        BY <2>8
      <4>3. j = k
        BY <2>6, <2>10, <2>13, <3>2, <4>1, <4>2
      <4> QED BY <4>1, <4>2, <4>3
    <3> QED BY <3>1, <3>2 DEF NewNodes
  <2>15. /\ \A e \in N : Get(db', e[1]) = e[2]
         /\ \A q \in Path : (\A e \in N : e[1] # q) => Get(db', q) = Get(db, q)
    <3>1. \A e \in N : db.idx[e[2].ino] = NoPath
      <4> SUFFICES ASSUME NEW e \in N, db.idx[e[2].ino] # NoPath PROVE FALSE
        OBVIOUS
      <4>1. e[2].ino \in Ino /\ nextIno <= e[2].ino
        BY <2>14 DEF NewNodes, DbNode
      <4>2. GetWithIno(db, e[2].ino) # NoNode
        BY <2>4, <4>1 DEF Consistent
      <4>3. PICK q \in Path : Lists(e[2].ino, q)
        BY <2>4, <4>1, <4>2, GetByIno
      <4>4. e[2].ino < nextIno
        BY <4>1, <4>3, OnePathEach DEF SerialInv
      <4>5. PICK x \in Nat : x = e[2].ino
        BY <2>4, <4>1
      <4> QED BY <2>4, <4>1, <4>4, <4>5
    <3>2. db' = PutAll(db, N)
      BY <1>3
    <3>3. /\ \A e \in N : e[1] \in Path /\ e[2] \in DbNode
          /\ \A e, f \in N : e[1] = f[1] \/ e[2].ino = f[2].ino => e = f
          /\ \A e \in N : Get(db, e[1]) = NoNode
      BY <2>14 DEF NewNodes
    <3> QED BY <2>4, <3>1, <3>2, <3>3, PutAllAt
  <2>16. ASSUME NEW j \in DOMAIN objs PROVE Get(db', objs[j]).ino \in Ino
    <3>1. CASE j \in new
      <4>1. PICK e \in N : e[1] = objs[j] /\ e[2].ino = number(j)
        BY <2>9, <3>1
      <4> QED BY <2>5, <2>15, <3>1, <4>1
    <3>2. CASE j \notin new
      <4>1. \A e \in N : e[1] # objs[j]
        BY <2>8, <2>10, <2>13, <3>2
      <4>2. Get(db', objs[j]) = Get(db, objs[j]) /\ Get(db, objs[j]) # NoNode
        BY <2>3, <2>11, <2>15, <3>2, <4>1
      <4> QED BY <2>3, <2>4, <4>2 DEF CatalogTyped
    <3> QED BY <3>1, <3>2
  <2>17. Len(inos) = Len(objs) /\ \A m \in 1..Len(objs) : inos[m] = Get(db', objs[m]).ino
    <3>1. inos \in Seq(Ino)
      BY <2>2, <2>12, <2>16
    <3>2. DOMAIN inos = 1..Len(objs) /\ \A m \in 1..Len(objs) : inos[m] = Get(db', objs[m]).ino
      BY <2>12
    <3> QED BY <2>2, <3>1, <3>2
  <2>18. \A e \in N : \E m \in 1..Len(inos) : inos[m] = e[2].ino
    <3> SUFFICES ASSUME NEW e \in N PROVE \E m \in 1..Len(inos) : inos[m] = e[2].ino
      OBVIOUS
    <3>1. PICK j \in new : e[1] = objs[j]
      BY <2>8
    <3>2. j \in 1..Len(inos)
      BY <2>2, <2>10, <2>17, <3>1
    <3> QED BY <2>15, <2>17, <3>1, <3>2
  <2>19. \A m \in 1..Len(inos) : inos[m] \in Ino
    BY <2>2, <2>16, <2>17
  <2> QED BY <1>3, <2>2, <2>7, <2>14, <2>17, <2>18, <2>19
<1> QED BY <1>1, <1>2, <1>3 DEF readdirNode, user

\* Cataloguing the objects of a directory keeps the data in order.
LEMMA ListedData ==
    ASSUME Serial, SerialInv, NEW c \in Client, NEW i \in Ino, NEW p \in Path, At(c, i, p),
           ClientStep(c), req[c].op \notin PathOps, NEW N, NewNodes(N, p, nextIno'),
           nextIno <= nextIno', nextIno' \in Nat,
           db' = PutAll(db, N), UNCHANGED <<storage, expect, file, open>>,
           \A j \in Ino : \A k : Bears(j, k)' <=> Bears(j, k)
    PROVE  /\ DataInv' /\ db' \in Db
           /\ \A e \in N : Get(db', e[1]) = e[2]
           /\ \A q \in Path : (\A e \in N : e[1] # q) => Get(db', q) = Get(db, q)
<1>1. /\ DataInv /\ db \in Db /\ Consistent(db) /\ CatalogTyped(db)
      /\ nextIno \in Nat /\ Ino \subseteq Nat
  BY CacheAssumption DEF SerialInv, Typed, DataInv, ListInv, HandleInv
<1>2. ASSUME NEW e \in N
      PROVE  /\ e[1] \in Path /\ ChildOf(e[1], p) /\ storage[e[1]] # 0 /\ Get(db, e[1]) = NoNode
             /\ e[2] \in DbNode /\ e[2].path = e[1] /\ e[2].sig = storage[e[1]]
             /\ e[2].ino \in Ino /\ nextIno <= e[2].ino
             /\ e[2] # NoNode
  BY AbsentAssumption DEF NewNodes, DbNode
<1>3. ASSUME NEW e \in N, NEW j \in Ino, j < nextIno PROVE j # e[2].ino
  <2>1. PICK x \in Nat : x = e[2].ino
    BY <1>1, <1>2
  <2>2. nextIno <= x /\ j \in Nat
    BY <1>1, <1>2, <2>1
  <2> QED BY <1>1, <1>3, <2>1, <2>2
<1>4. \A e \in N : db.idx[e[2].ino] = NoPath
  <2> SUFFICES ASSUME NEW e \in N, db.idx[e[2].ino] # NoPath PROVE FALSE
    OBVIOUS
  <2>1. PICK j \in Ino : j = e[2].ino
    BY <1>2
  <2>2. GetWithIno(db, j) # NoNode
    BY <1>1, <2>1 DEF Consistent
  <2>3. PICK q \in Path : Lists(j, q)
    BY <1>1, <2>2, GetByIno
  <2>4. j < nextIno
    BY <2>3, OnePathEach DEF SerialInv
  <2> QED BY <1>3, <2>1, <2>4
<1>5. /\ \A e \in N : Get(db', e[1]) = e[2]
      /\ \A q \in Path : (\A e \in N : e[1] # q) => Get(db', q) = Get(db, q)
      /\ db' \in Db /\ Consistent(db')
  <2>1. \A e, f \in N : e[1] = f[1] \/ e[2].ino = f[2].ino => e = f
    BY DEF NewNodes
  <2>2. \A e \in N : e[1] \in Path /\ e[2] \in DbNode /\ Get(db, e[1]) = NoNode
    BY <1>2
  <2> QED BY <1>1, <1>4, <2>1, <2>2, PutAllAt
<1>6. ASSUME NEW q \in Path, Get(db, q) # NoNode PROVE Get(db', q) = Get(db, q)
  BY <1>2, <1>5, <1>6
<1>7. ASSUME NEW j \in Ino, j < nextIno, NEW q \in Path PROVE Lists(j, q)' <=> Lists(j, q)
  <2>1. CASE \A e \in N : e[1] # q
    BY <1>5, <2>1 DEF Lists
  <2>2. CASE \E e \in N : e[1] = q
    <3>1. PICK e \in N : e[1] = q
      BY <2>2
    <3>2. Get(db', q) = e[2] /\ Get(db, q) = NoNode /\ j # e[2].ino
      BY <1>2, <1>3, <1>5, <1>7, <3>1
    <3> QED BY <3>2 DEF Lists
  <2> QED BY <2>1, <2>2
<1>8. ASSUME NEW q \in Path PROVE NameOK(q)' /\ CatalogOK(q)'
  <2>1. NameOK(q) /\ CatalogOK(q)
    BY <1>1 DEF DataInv
  <2>2. NameOK(q)'
    BY <2>1 DEF NameOK
  <2>3. CASE \A e \in N : e[1] # q
    <3>1. Get(db', q) = Get(db, q)
      BY <1>5, <2>3
    <3> QED BY <2>1, <2>2, <3>1 DEF CatalogOK
  <2>4. CASE \E e \in N : e[1] = q
    <3>1. PICK e \in N : e[1] = q
      BY <2>4
    <3>2. Get(db', q) = e[2] /\ storage[q] # 0 /\ e[2].sig = storage[q]
      BY <1>2, <1>5, <3>1
    <3>3. file[e[2].ino] = 0
      BY <1>2, <1>3 DEF SerialInv, Fresh
    <3> QED BY <2>2, <3>2, <3>3 DEF CatalogOK
  <2> QED BY <2>3, <2>4
<1>9. req[c].ino = i /\ open[i].path = p /\ fh[c] = i /\ i # 0
  BY SectionFacts, CacheAssumption DEF At
<1>10. ASSUME NEW e \in N, NEW j \in Ino, NEW n, Bears(j, n), n.path = e[1] PROVE n.deleted
  <2>1. e[1] # p
    <3>1. ChildOf(e[1], p) /\ e[1] \in Seq(STRING)
      BY <1>2, CacheAssumption
    <3>2. e[1] # <<>> /\ p = SubSeq(e[1], 1, Len(e[1]) - 1) /\ Len(e[1]) \in Nat \ {0}
      BY <3>1 DEF ChildOf, Parent, Root
    <3>3. Len(SubSeq(e[1], 1, Len(e[1]) - 1)) # Len(e[1])
      <4>1. \A k \in 1..Len(e[1]) - 1 : e[1][k] \in STRING
        BY <3>1, <3>2
      <4>2. Len(SubSeq(e[1], 1, Len(e[1]) - 1)) =
                IF 1 <= Len(e[1]) - 1 THEN (Len(e[1]) - 1) - 1 + 1 ELSE 0
        BY <3>2, <4>1, SubSeqProperties
      <4> QED BY <3>2, <4>2
    <3> QED BY <3>2, <3>3, Zenon
  <2>2. e[1] \in Path /\ Get(db, e[1]) = NoNode
    BY <1>2
  <2>3. ~Hand(c) /\ \A d \in Client \ {c} : req[d].pc = "idle"
    BY SectionFacts DEF ClientStep, At
  <2>4. fh[c] # 0 => open[fh[c]].path # e[1]
    BY <1>9, <2>1
  <2>5. PICK q \in Path : q = e[1]
    BY <2>2
  <2> QED BY <1>10, <2>2, <2>3, <2>4, <2>5, NoBearer
<1>11. ASSUME NEW j \in Ino, NEW n, Bears(j, n)' PROVE NodeOK(j, n)'
  <2>1. Bears(j, n) /\ NodeOK(j, n)
    BY <1>1, <1>11 DEF DataInv
  <2>2. j < nextIno /\ n.path \in Path
    BY <2>1, OnePathEach DEF SerialInv, NodeOK
  <2>3. Lists(j, n.path)' <=> Lists(j, n.path)
    BY <1>7, <2>2
  <2>4. CASE n.deleted
    BY <2>1, <2>3, <2>4 DEF NodeOK, Lists
  <2>5. CASE ~n.deleted
    <3>1. \A e \in N : e[1] # n.path
      BY <1>10, <2>1, <2>5
    <3>2. Get(db', n.path) = Get(db, n.path)
      BY <1>5, <2>2, <3>1
    <3> QED BY <2>1, <2>3, <3>2 DEF NodeOK, Lists
  <2> QED BY <2>4, <2>5
<1>12. ASSUME NEW j \in Ino PROVE LinkedOK(j)'
  <2> SUFFICES ASSUME open[j] # NoNode, ~open[j].deleted, open[j].fd # "none"
               PROVE  open[j].fd = "linked" /\ Lists(j, open[j].path)' /\ file[j] # 0
    BY DEF LinkedOK
  <2>1. LinkedOK(j) /\ Bears(j, open[j])
    BY <1>1 DEF DataInv, Bears
  <2>2. open[j].path \in Path /\ Lists(j, open[j].path) /\ open[j].fd = "linked" /\ file[j] # 0
    BY <1>1, <2>1 DEF DataInv, NodeOK, LinkedOK
  <2> QED BY <1>6, <2>2 DEF Lists
<1>13. Unique'
  BY <1>1 DEF DataInv, Unique
<1> QED BY <1>5, <1>8, <1>11, <1>12, <1>13 DEF DataInv

\* Readdir.
LEMMA readdirNodeInv ==
    ASSUME Serial, SerialInv, ListInv', ~IsNode(NoNode),
           NEW c \in Client, ClientStep(c), readdirNode(c)
    PROVE  SerialInv'
<1>1. SectionStep(c) /\ req[c].pc = "cs" /\ req[c].op = "readdir"
  BY readdirNodeStep DEF SerialInv, ListInv, readdirNode, InSection
<1>2. PICK i \in Ino, p \in Path : At(c, i, p)
  BY <1>1, SectionFacts DEF At
<1>3. req[c].op \notin PathOps
  BY <1>1 DEF PathOps
<1>4. CASE /\ Leave(c)
           /\ UNCHANGED <<storage, expect, db, file, open, lru, nextIno, nextVer, negpres, fh, name>>
  <2>1. Exits(c, open[i])
    BY <1>1, <1>2, <1>4 DEF Exits, At
  <2> QED BY <1>1, <1>2, <1>4, <2>1, QuietSection
<1>5. CASE \E N, inos :
                /\ ~open[i].deleted /\ NewNodes(N, p, nextIno') /\ db' = PutAll(db, N)
                /\ lru' = TouchAll(inos) /\ Len(inos) \in Nat
                /\ \A m \in 1..Len(inos) : inos[m] \in Ino
                /\ \A e \in N : \E m \in 1..Len(inos) : inos[m] = e[2].ino
                /\ nextIno' \in 1..MaxIno + 1 /\ nextIno <= nextIno'
                /\ negpres' = negpres \ {p} /\ Leave(c)
                /\ UNCHANGED <<storage, expect, file, open, nextVer, fh, name>>
  <2>1. PICK N, inos :
                /\ ~open[i].deleted /\ NewNodes(N, p, nextIno') /\ db' = PutAll(db, N)
                /\ lru' = TouchAll(inos) /\ Len(inos) \in Nat
                /\ \A m \in 1..Len(inos) : inos[m] \in Ino
                /\ \A e \in N : \E m \in 1..Len(inos) : inos[m] = e[2].ino
                /\ nextIno' \in 1..MaxIno + 1 /\ nextIno <= nextIno'
                /\ negpres' = negpres \ {p} /\ Leave(c)
                /\ UNCHANGED <<storage, expect, file, open, nextVer, fh, name>>
    BY <1>5
  <2>2. /\ open[i] # NoNode /\ req[c].ino = i /\ open[i].path = p
        /\ open = [j \in Ino |-> open[j]] /\ nextIno' \in Nat /\ nextIno \in Nat
    BY <1>2, <2>1, SectionFacts, CacheAssumption DEF At, SerialInv, ListInv, HandleInv, OpenTyped
  <2>3. Exits(c, open[i]) /\ open' = [open EXCEPT ![i] = open[i]]
    BY <1>1, <2>1, <2>2 DEF Exits
  <2>4. \A j \in Ino : \A k : Bears(j, k)' <=> Bears(j, k)
    <3>1. PICK n : n = open[i]
      OBVIOUS
    <3>2. /\ \A j \in Ino \ {i} : \A k : Bears(j, k)' <=> Bears(j, k)
          /\ \A k : Bears(i, k)' <=> k = n
      <4>1. Exits(c, n) /\ n # NoNode /\ open' = [open EXCEPT ![i] = n]
        BY <2>2, <2>3, <3>1
      <4> QED BY <1>2, <4>1, SectionBears
    <3>3. \A k : Bears(i, k) <=> k = n
      BY <1>1, <2>2, <3>1, SectionFacts
    <3> QED BY <3>2, <3>3
  <2>5. /\ DataInv' /\ db' \in Db
        /\ \A e \in N : Get(db', e[1]) = e[2]
        /\ \A q \in Path : (\A e \in N : e[1] # q) => Get(db', q) = Get(db, q)
    BY <1>2, <1>3, <2>1, <2>2, <2>4, ListedData
  <2>6. Elems(lru.rw)' \cup Elems(lru.ro)'
            = Elems(lru.rw) \cup Elems(lru.ro) \cup {inos[m] : m \in 1..Len(inos)}
    BY <2>1, TouchAllElems DEF SerialInv, ListInv
  <2>7. ClientsOK' /\ name' \in [Client -> Path \cup {NoPath}]
    BY <2>2, <2>3, SectionClients
  <2>8. Fresh'
    <3> SUFFICES ASSUME NEW j \in Ino, file[j] # 0 PROVE j < nextIno'
      BY <2>1 DEF Fresh
    <3>1. j < nextIno /\ j \in Nat
      BY CacheAssumption DEF SerialInv, Fresh
    <3> QED BY <2>1, <2>2, <3>1
  <2>9. Track'
    <3>1. mode = "run" /\ mode' = "run" /\ loop' = loop
      BY DEF ClientStep
    <3>2. ASSUME NEW j \in Ino, (\E q \in Path : Lists(j, q)') \/ file'[j] # 0 PROVE Known(j)'
      <4>1. CASE j = i
        BY <2>1, <2>2, <4>1 DEF Known
      <4>2. CASE \E e \in N : e[2].ino = j
        <5>1. j \in Elems(lru.rw)' \cup Elems(lru.ro)'
          BY <2>1, <2>6, <4>2
        <5> QED BY <5>1 DEF Known
      <4>3. CASE j # i /\ \A e \in N : e[2].ino # j
        <5>1. (\E q \in Path : Lists(j, q)) \/ file[j] # 0
          <6>1. ASSUME NEW q \in Path, Lists(j, q)' PROVE Lists(j, q)
            <7>1. \A e \in N : e[1] # q
              BY <2>5, <4>3, <6>1 DEF Lists
            <7> QED BY <2>5, <6>1, <7>1 DEF Lists
          <6> QED BY <2>1, <3>2, <6>1
        <5>2. Known(j)
          BY <3>1, <5>1 DEF SerialInv, Track
        <5>3. ~\E a \in Client : req[a].pc # "idle" /\ req[a].ino = j
          BY <1>1, <2>2, <4>3 DEF SerialInv, Alone
        <5>4. Elems(lru.rw) \cup Elems(lru.ro) \subseteq Elems(lru.rw)' \cup Elems(lru.ro)'
          BY <2>6
        <5> QED BY <2>1, <3>1, <5>2, <5>3, <5>4 DEF Known
      <4> QED BY <4>1, <4>2, <4>3
    <3> QED BY <3>2 DEF Track
  <2>10. NegCoherent' /\ negpres' \subseteq Path
    <3>1. ASSUME NEW q \in negpres' PROVE q \in Path /\ expect'[q] = 0 /\ Get(db', q) = NoNode
      <4>1. q \in Path /\ expect[q] = 0 /\ Get(db, q) = NoNode
        BY <2>1, <3>1 DEF SerialInv, Typed, NegCoherent
      <4>2. storage[q] = 0
        BY <4>1 DEF SerialInv, DataInv, NameOK
      <4>3. \A e \in N : e[1] # q
        BY <2>1, <4>2 DEF NewNodes
      <4> QED BY <2>1, <2>5, <4>1, <4>3
    <3> QED BY <3>1 DEF NegCoherent
  <2>11. Typed'
    <3>1. Elems(lru.rw)' \cup Elems(lru.ro)' \subseteq Ino
      BY <2>1, <2>6 DEF SerialInv, Typed
    <3>2. (\A j \in Ino : \A n : Bears(j, n) => NodeTyped(n))'
      BY <2>4 DEF SerialInv, Typed, NodeTyped
    <3> QED BY <2>1, <2>5, <2>7, <2>10, <3>1, <3>2 DEF SerialInv, Typed
  <2>12. Alone' /\ Phases'
    BY ClientTurns
  <2>13. Exact'
    BY <1>1, <2>3, SectionExact
  <2> QED BY <2>5, <2>7, <2>8, <2>9, <2>10, <2>11, <2>12, <2>13 DEF SerialInv
<1> QED BY <1>2, <1>4, <1>5, ListedForm
=============================================================================
