------------------------- MODULE CacheContentProofs -------------------------
(***************************************************************************)
(* Theorems about Cache for a mount that runs one request at a time: no    *)
(* acknowledged content is lost.  It is in the storage, or in the cache    *)
(* file that the catalog has for its path and the loop has to upload, and  *)
(* whoever has the file open reads it.                                     *)
(***************************************************************************)
EXTENDS CacheSerialTheorems

-----------------------------------------------------------------------------
(* The inductive invariant *)

\* What the content of files needs: no Truncate to a smaller size, no upload whose
\* reply is lost, no crash within a download.
Careful ==
    /\ Serial
    /\ Ops \cap Shrinks = {}
    /\ "lost" \notin Faults
    /\ "download" \notin Crashes

\* The versions before k, and what is not a file.
Written(k) == {0, Dir} \cup {v \in Nat : v < k}

\* Node n has a hash of old content; and while the storage has s and users see e,
\* its signature is that of the object, but its hash not that of the file.
Sees(n, s, e, k) == n.hash < k /\ (s # e => n.sig = s /\ n.hash # e)

\* A cache file is what users see, and without one so is the object.
PathContent(p) ==
    LET d == Get(db, p)
        s == storage[p]
        e == expect[p]
    IN
    /\ s \in Written(nextVer) /\ e \in Written(nextVer)
    /\ d = NoNode => s = e
    /\ d # NoNode => /\ Sees(d, s, e, nextVer)
                     /\ file[d.ino] \in {0, e}
                     /\ file[d.ino] = 0 => s = e

\* Whenever node n of inode i is stored, the catalog keeps seeing the object.
NodeContent(i, n) ==
    ~n.deleted =>
        /\ Sees(n, storage[n.path], expect[n.path], nextVer)
        /\ Lists(i, n.path) => Get(db, n.path).sig \in {n.sig, storage[n.path]}

\* While a file is open, node and catalog know the object.
LinkedContent(i) ==
    open[i] # NoNode /\ ~open[i].deleted /\ open[i].fd # "none" =>
        /\ open[i].sig = storage[open[i].path]
        /\ Get(db, open[i].path).sig = storage[open[i].path]

Content ==
    /\ \A p \in Path : PathContent(p)
    /\ \A i \in Ino : LinkedContent(i) /\ \A n : Bears(i, n) => NodeContent(i, n)

\* The loop has to upload what users see and the storage does not have.
Waiting ==
    mode # "down" =>
        \A p \in Path : storage[p] # expect[p] => Pending(Get(db, p).ino)

ContentInv == Content /\ Waiting

-----------------------------------------------------------------------------
(* Steps and the content of files *)

\* What has been written stays written.
LEMMA WrittenGrows ==
    ASSUME NEW k \in Nat, NEW l \in Nat, k <= l
    PROVE  /\ Written(k) \subseteq Written(l)
           /\ \A n, s, e : n.hash \in Nat /\ Sees(n, s, e, k) => Sees(n, s, e, l)
BY DEF Written, Sees

\* The types that content depends on.
LEMMA ContentTypes ==
    ASSUME SerialInv
    PROVE  /\ nextVer \in Nat \ {0} /\ MaxVer \in Nat /\ MaxVer + 1 = Torn /\ Torn + 1 = Dir
           /\ storage \in [Path -> 0..Dir] /\ expect \in [Path -> 0..MaxVer \cup {Dir}]
           /\ file \in [Ino -> 0..Torn] /\ CatalogTyped(db) /\ Consistent(db)
           /\ open = [i \in Ino |-> open[i]]
           /\ \A p \in Path : Get(db, p) # NoNode =>
                Get(db, p).hash \in Nat /\ Get(db, p).ino \in Ino
           /\ \A i \in Ino : \A n : Bears(i, n) => n.hash \in Nat /\ n.path \in Path
<1>1. /\ MaxVer \in Nat /\ MaxVer + 1 = Torn /\ Torn + 1 = Dir /\ Sig = 0..Dir
  BY CacheAssumption DEF Torn, Dir
<1>2. nextVer \in Nat \ {0}
  BY <1>1 DEF SerialInv, Typed
<1>3. ASSUME NEW p \in Path, Get(db, p) # NoNode
      PROVE  Get(db, p).hash \in Nat /\ Get(db, p).ino \in Ino
  <2>1. Get(db, p) \in DbNode
    BY <1>3 DEF SerialInv, Typed, Db, Get
  <2> QED BY <1>1, <2>1 DEF DbNode
<1>4. ASSUME NEW i \in Ino, NEW n, Bears(i, n) PROVE n.hash \in Nat /\ n.path \in Path
  <2>1. NodeTyped(n) /\ NodeOK(i, n)
    BY <1>4 DEF SerialInv, Typed, DataInv
  <2> QED BY <1>1, <2>1 DEF NodeTyped, NodeOK
<1>5. /\ storage \in [Path -> 0..Dir] /\ expect \in [Path -> 0..MaxVer \cup {Dir}]
      /\ file \in [Ino -> 0..Torn] /\ CatalogTyped(db) /\ Consistent(db)
      /\ open = [i \in Ino |-> open[i]]
  BY DEF SerialInv, Typed, DataInv, ListInv, HandleInv, OpenTyped
<1> QED BY <1>1, <1>2, <1>3, <1>4, <1>5

\* ... and after a step.
LEMMA NextTypes ==
    ASSUME SerialInv'
    PROVE  /\ nextVer' \in Nat
           /\ \A i \in Ino : \A n : Bears(i, n)' => n.hash \in Nat
<1>1. MaxVer \in Nat /\ Sig = 0..Dir /\ Dir = MaxVer + 2
  BY CacheAssumption DEF Dir
<1>2. nextVer' \in Nat
  BY <1>1 DEF SerialInv, Typed
<1>3. ASSUME NEW i \in Ino, NEW n, Bears(i, n)' PROVE n.hash \in Nat
  <2>1. NodeTyped(n)
    BY <1>3 DEF SerialInv, Typed, NodeTyped
  <2> QED BY <1>1, <2>1 DEF NodeTyped
<1> QED BY <1>2, <1>3

\* Nodes that are alike see the same.
LEMMA AlikeContent ==
    ASSUME NEW i, NEW m, NEW n, Alike(m, n), NodeContent(i, n)
    PROVE  NodeContent(i, m)
BY DEF Alike, NodeContent, Sees

\* A step that changes no data but files that are not catalogued.
LEMMA QuietContent ==
    ASSUME SerialInv, SerialInv', Content,
           UNCHANGED <<storage, expect, db>>, nextVer <= nextVer',
           \A i \in Ino : file'[i] = file[i] \/ \A p \in Path : ~Lists(i, p),
           \A i \in Ino : \A n : Bears(i, n)' => NodeContent(i, n),
           \A i \in Ino : open'[i] # NoNode =>
                \/ open'[i].fd = "none" \/ open'[i].deleted
                \/ open[i] # NoNode /\ Alike(open'[i], open[i])
    PROVE  Content'
<1>1. /\ nextVer \in Nat /\ nextVer' \in Nat
      /\ \A p \in Path : Get(db, p) # NoNode =>
            Get(db, p).hash \in Nat /\ Get(db, p).ino \in Ino
      /\ \A i \in Ino : \A n : Bears(i, n)' => n.hash \in Nat
  BY ContentTypes, NextTypes
<1>2. Written(nextVer) \subseteq Written(nextVer')
  BY <1>1, WrittenGrows
<1>3. ASSUME NEW p \in Path PROVE PathContent(p)'
  <2>1. PathContent(p)
    BY DEF Content
  <2>2. ASSUME Get(db, p) # NoNode PROVE file'[Get(db, p).ino] = file[Get(db, p).ino]
    BY <1>1, <2>2 DEF Lists
  <2>3. Get(db', p) = Get(db, p) /\ storage' = storage /\ expect' = expect
    OBVIOUS
  <2>4. ASSUME Get(db, p) # NoNode PROVE Sees(Get(db, p), storage[p], expect[p], nextVer')
    BY <1>1, <2>1, <2>4, WrittenGrows DEF PathContent
  <2> QED BY <1>2, <2>1, <2>2, <2>3, <2>4 DEF PathContent
<1>4. ASSUME NEW i \in Ino, NEW n, Bears(i, n)' PROVE NodeContent(i, n)'
  <2>1. NodeContent(i, n) /\ n.hash \in Nat
    BY <1>1, <1>4
  <2>2. Lists(i, n.path)' <=> Lists(i, n.path)
    BY DEF Lists
  <2>3. Sees(n, storage[n.path], expect[n.path], nextVer)
            => Sees(n, storage[n.path], expect[n.path], nextVer')
    BY <1>1, <2>1, WrittenGrows
  <2> QED BY <2>1, <2>2, <2>3 DEF NodeContent
<1>5. ASSUME NEW i \in Ino PROVE LinkedContent(i)'
  <2> SUFFICES ASSUME open'[i] # NoNode, ~open'[i].deleted, open'[i].fd # "none"
               PROVE  /\ open'[i].sig = storage[open'[i].path]
                      /\ Get(db, open'[i].path).sig = storage[open'[i].path]
    BY DEF LinkedContent
  <2>1. open[i] # NoNode /\ Alike(open'[i], open[i])
    OBVIOUS
  <2>2. LinkedContent(i)
    BY DEF Content
  <2> QED BY <2>1, <2>2 DEF LinkedContent, Alike
<1> QED BY <1>3, <1>4, <1>5 DEF Content

\* A step that changes the data of path p and of inode i, which has p for itself.
LEMMA LocalContent ==
    ASSUME SerialInv, SerialInv', Content, NEW i \in Ino, NEW p \in Path, Owns(i, p),
           nextVer <= nextVer',
           \A q \in Path \ {p} :
                /\ storage'[q] = storage[q] /\ expect'[q] = expect[q]
                /\ Get(db', q) = Get(db, q),
           \A j \in Ino \ {i} : file'[j] = file[j] /\ open'[j] = open[j],
           \A j \in Ino \ {i} : \A n : Bears(j, n)' => Bears(j, n),
           PathContent(p)', LinkedContent(i)',
           \A n : Bears(i, n)' => NodeContent(i, n)'
    PROVE  Content'
<1>1. /\ nextVer \in Nat /\ nextVer' \in Nat
      /\ \A q \in Path : Get(db, q) # NoNode =>
            Get(db, q).hash \in Nat /\ Get(db, q).ino \in Ino
      /\ \A j \in Ino : \A n : Bears(j, n) => n.hash \in Nat /\ n.path \in Path
  BY ContentTypes, NextTypes
<1>2. Written(nextVer) \subseteq Written(nextVer')
  BY <1>1, WrittenGrows
<1>3. ASSUME NEW q \in Path \ {p} PROVE PathContent(q)'
  <2>1. PathContent(q)
    BY DEF Content
  <2>2. ASSUME Get(db, q) # NoNode PROVE file'[Get(db, q).ino] = file[Get(db, q).ino]
    BY <1>1, <2>2 DEF Lists, Owns
  <2>3. Get(db', q) = Get(db, q) /\ storage'[q] = storage[q] /\ expect'[q] = expect[q]
    OBVIOUS
  <2>4. ASSUME Get(db, q) # NoNode PROVE Sees(Get(db, q), storage[q], expect[q], nextVer')
    BY <1>1, <2>1, <2>4, WrittenGrows DEF PathContent
  <2> QED BY <1>2, <2>1, <2>2, <2>3, <2>4 DEF PathContent
<1>4. ASSUME NEW j \in Ino \ {i}, NEW n, Bears(j, n)', ~n.deleted
      PROVE  /\ Bears(j, n) /\ n.path \in Path \ {p}
             /\ NodeContent(j, n)'
  <2>1. Bears(j, n) /\ NodeContent(j, n) /\ n.hash \in Nat /\ n.path \in Path \ {p}
    BY <1>1, <1>4 DEF Content, Owns
  <2>2. /\ Get(db', n.path) = Get(db, n.path)
        /\ storage'[n.path] = storage[n.path] /\ expect'[n.path] = expect[n.path]
    BY <2>1
  <2>3. Sees(n, storage[n.path], expect[n.path], nextVer)
            => Sees(n, storage[n.path], expect[n.path], nextVer')
    BY <1>1, <2>1, WrittenGrows
  <2> QED BY <2>1, <2>2, <2>3 DEF NodeContent, Lists
<1>5. ASSUME NEW j \in Ino \ {i} PROVE LinkedContent(j)'
  <2> SUFFICES ASSUME open'[j] # NoNode, ~open'[j].deleted, open'[j].fd # "none"
               PROVE  /\ open'[j].sig = storage'[open'[j].path]
                      /\ Get(db', open'[j].path).sig = storage'[open'[j].path]
    BY DEF LinkedContent
  <2>1. open'[j] = open[j] /\ Bears(j, open[j])'
    BY DEF Bears
  <2>2. open[j].path \in Path \ {p}
    BY <1>4, <2>1
  <2>3. LinkedContent(j)
    BY DEF Content
  <2> QED BY <2>1, <2>2, <2>3 DEF LinkedContent
<1>6. ASSUME NEW j \in Ino \ {i}, NEW n, Bears(j, n)' PROVE NodeContent(j, n)'
  BY <1>4, <1>6 DEF NodeContent
<1> QED BY <1>3, <1>5, <1>6 DEF Content

\* A step that moves no node.
LEMMA StillContent ==
    ASSUME SerialInv, SerialInv', Content,
           UNCHANGED <<storage, expect, db, file, open, nextVer>>,
           \A c \in Client : Hand(c)' =>
                Hand(c) /\ req'[c].ino = req[c].ino /\ req'[c].node = req[c].node
    PROVE  Content'
<1>1. ASSUME NEW i \in Ino, NEW n, Bears(i, n)' PROVE NodeContent(i, n)
  <2>1. Bears(i, n)
    BY <1>1 DEF Bears
  <2> QED BY <2>1 DEF Content
<1>2. nextVer <= nextVer'
  BY ContentTypes
<1>3. ASSUME NEW i \in Ino, open'[i] # NoNode PROVE open[i] # NoNode /\ Alike(open'[i], open[i])
  BY <1>3 DEF Alike
<1> QED BY <1>1, <1>2, <1>3, QuietContent

\* What was pending is pending still.
LEMMA WaitingKept ==
    ASSUME Waiting, mode' # "down" => mode # "down",
           \A p \in Path : storage'[p] # expect'[p] =>
                \/ Pending(Get(db, p).ino)'
                \/ storage[p] # expect[p] /\ Get(db', p).ino = Get(db, p).ino,
           \A i : Pending(i) => Pending(i)'
    PROVE  Waiting'
BY DEF Waiting

\* Requests leave the loop alone.
LEMMA ClientPending ==
    ASSUME NEW c, ClientStep(c), Elems(lru.rw) \subseteq Elems(lru.rw)'
    PROVE  \A i : Pending(i) => Pending(i)'
BY DEF ClientStep, Pending

-----------------------------------------------------------------------------
(* Sections *)

\* Node m, catalogued as d, agrees with version s of the object, e that users see,
\* and x of the cache file.
Agree(m, d, s, e, x, k) ==
    /\ s \in Written(k) /\ e \in Written(k)
    /\ d = NoNode => s = e
    /\ d # NoNode => Sees(d, s, e, k) /\ x \in {0, e} /\ (x = 0 => s = e)
    /\ ~m.deleted =>
        /\ Sees(m, s, e, k)
        /\ d # NoNode => d.sig \in {m.sig, s}
        /\ m.fd # "none" => m.sig = s /\ d.sig = s

\* The node of a section does.
LEMMA LiveContent ==
    ASSUME SerialInv, Content, NEW c \in Client, NEW i \in Ino, NEW p \in Path, At(c, i, p),
           ~open[i].deleted
    PROVE  /\ Agree(open[i], Get(db, p), storage[p], expect[p], file[i], nextVer)
           /\ IF Get(db, p) = NoNode THEN file[i] = 0 ELSE Get(db, p).ino = i
<1>1. /\ NodeOK(i, open[i]) /\ open[i] # NoNode /\ open[i].path = p /\ Bears(i, open[i])
  BY SectionFacts DEF At
<1>2. PathContent(p) /\ NodeContent(i, open[i]) /\ LinkedContent(i)
  BY <1>1 DEF Content
<1>3. IF Get(db, p) = NoNode THEN file[i] = 0 ELSE Get(db, p).ino = i
  BY <1>1 DEF NodeOK, Lists
<1> QED BY <1>1, <1>2, <1>3 DEF Agree, PathContent, NodeContent, LinkedContent, Lists

\* A section that leaves its node in agreement.
LEMMA SectionContent ==
    ASSUME SerialInv, SerialInv', Content,
           NEW c \in Client, NEW i \in Ino, NEW p \in Path, At(c, i, p), ClientStep(c),
           NEW m, NEW d, NEW s, NEW e, NEW x,
           m # NoNode, Exits(c, m), Changes(i, p, m, d, s, e, x),
           ~open[i].deleted, m.path = p, d # NoNode => d.ino = i,
           nextVer <= nextVer', Agree(m, d, s, e, x, nextVer')
    PROVE  Content'
<1>1. open[i].path = p /\ Bears(i, open[i])
  BY SectionFacts DEF At
<1>2. Owns(i, p)
  BY <1>1, BearerOwns DEF SerialInv
<1>3. /\ open'[i] = m /\ \A j \in Ino \ {i} : open'[j] = open[j]
      /\ \A j \in Ino \ {i} : \A k : Bears(j, k)' => Bears(j, k)
      /\ \A k : Bears(i, k)' => k = m
  BY SectionBears DEF Changes
<1>4. /\ storage'[p] = s /\ expect'[p] = e /\ file'[i] = x /\ Get(db', p) = d
      /\ \A q \in Path \ {p} :
            storage'[q] = storage[q] /\ expect'[q] = expect[q] /\ Get(db', q) = Get(db, q)
      /\ \A j \in Ino \ {i} : file'[j] = file[j]
  BY <1>1, ContentTypes DEF Changes
<1>5. PathContent(p)'
  BY <1>4 DEF PathContent, Agree
<1>6. NodeContent(i, m)'
  BY <1>4 DEF NodeContent, Agree, Lists
<1>7. LinkedContent(i)'
  BY <1>3, <1>4 DEF LinkedContent, Agree
<1> QED BY <1>2, <1>3, <1>4, <1>5, <1>6, <1>7, LocalContent

\* A section that changes nothing.
LEMMA QuietSectionContent ==
    ASSUME SerialInv, SerialInv', ContentInv,
           NEW c \in Client, NEW i \in Ino, NEW p \in Path, At(c, i, p), ClientStep(c),
           Exits(c, open[i]),
           UNCHANGED <<storage, expect, db, file, open, lru, nextVer>>
    PROVE  ContentInv'
<1>1. ASSUME NEW d \in Client PROVE ~Hand(d)'
  <2>1. CASE d = c
    <3>1. PICK n : n = open[i]
      OBVIOUS
    <3>2. Exits(c, n)
      BY <3>1
    <3> QED BY <2>1, <3>2, ExitsAre DEF Hand
  <2>2. CASE d # c
    BY <2>2 DEF ClientStep, Hand
  <2> QED BY <2>1, <2>2
<1>2. Content'
  BY <1>1, StillContent DEF ContentInv
<1>3. \A j : Pending(j) => Pending(j)'
  BY ClientPending
<1>4. Waiting'
  BY <1>3, WaitingKept DEF ContentInv, ClientStep
<1> QED BY <1>2, <1>4 DEF ContentInv

\* Nothing that a section leaves is waiting but what was.
LEMMA SectionWaiting ==
    ASSUME SerialInv, Waiting,
           NEW c \in Client, NEW i \in Ino, NEW p \in Path, At(c, i, p), ClientStep(c),
           NEW m, NEW d, NEW s, NEW e, NEW x, Changes(i, p, m, d, s, e, x),
           Elems(lru.rw) \subseteq Elems(lru.rw)',
           s # e => \/ d.ino \in Elems(lru.rw)'
                    \/ storage[p] # expect[p] /\ d.ino = Get(db, p).ino
    PROVE  Waiting'
<1>1. /\ storage'[p] = s /\ expect'[p] = e /\ Get(db', p) = d
      /\ \A q \in Path \ {p} :
            storage'[q] = storage[q] /\ expect'[q] = expect[q] /\ Get(db', q) = Get(db, q)
  BY ContentTypes DEF Changes
<1>2. \A j : Pending(j) => Pending(j)'
  BY ClientPending
<1>3. ASSUME NEW q \in Path, storage'[q] # expect'[q]
      PROVE  \/ Pending(Get(db, q).ino)'
             \/ storage[q] # expect[q] /\ Get(db', q).ino = Get(db, q).ino
  BY <1>1, <1>3 DEF Pending
<1> QED BY <1>2, <1>3, WaitingKept DEF ClientStep

\* The stat finds the object.
LEMMA FoundContent ==
    ASSUME SerialInv, SerialInv', ContentInv, ~IsNode(NoNode),
           NEW c \in Client, NEW i \in Ino, NEW p \in Path, At(c, i, p), ClientStep(c),
           ~open[i].deleted, StatFound(c),
           UNCHANGED <<storage, expect, file, nextIno, lru, nextVer>>,
           \/ Leave(c) /\ UNCHANGED <<fh, name>>
           \/ Return(c, p) /\ req[c].op \in PathOps
    PROVE  ContentInv'
<1>1. PICK m : /\ Fields(m, i, p, storage[p], open[i].hash, TRUE, open[i].deleted,
                         open[i].fd, open[i].ref)
               /\ NodeTyped(m) /\ storage[p] # 0
               /\ Changes(i, p, m, ToDb(m), storage[p], expect[p], file[i])
               /\ ToDb(m) # NoNode /\ ToDb(m).ino = i /\ ToDb(m).sig = m.sig
               /\ ToDb(m).hash = m.hash
               /\ db' \in Db /\ Consistent(db') /\ negpres' = negpres \ {p}
  BY FoundForm
<1>2. PICK d, s, e, x : d = ToDb(m) /\ s = storage[p] /\ e = expect[p] /\ x = file[i]
  OBVIOUS
<1>3. /\ Agree(open[i], Get(db, p), s, e, x, nextVer)
      /\ IF Get(db, p) = NoNode THEN x = 0 ELSE Get(db, p).ino = i
  BY <1>2, LiveContent DEF ContentInv
<1>4. /\ m.sig = s /\ m.hash = open[i].hash /\ ~m.deleted /\ m.fd = open[i].fd
      /\ m.path = p /\ IsNode(m)
  BY <1>1, <1>2 DEF Fields
<1>5. Agree(m, d, s, e, x, nextVer)
  BY <1>1, <1>2, <1>3, <1>4 DEF Agree, Sees
<1>6. Exits(c, m) /\ m # NoNode
  BY <1>1, <1>4 DEF Exits, At, Fields
<1>7. Changes(i, p, m, d, s, e, x) /\ (d # NoNode => d.ino = i)
  BY <1>1, <1>2
<1>8. nextVer' = nextVer /\ nextVer <= nextVer'
  BY ContentTypes
<1>9. Content'
  BY <1>4, <1>5, <1>6, <1>7, <1>8, SectionContent DEF ContentInv
<1>10. s # e => storage[p] # expect[p] /\ d.ino = Get(db, p).ino
  BY <1>1, <1>2, <1>3 DEF Agree
<1>11. Waiting'
  BY <1>7, <1>10, SectionWaiting DEF ContentInv
<1> QED BY <1>9, <1>11 DEF ContentInv

\* Open, Getattr and Fgetattr.
LEMMA statNodeContent ==
    ASSUME SerialInv, SerialInv', ContentInv, ~IsNode(NoNode),
           NEW c \in Client, ClientStep(c), statNode(c)
    PROVE  ContentInv'
<1>1. req[c].pc = "cs"
  BY DEF statNode, InSection
<1>2. PICK i \in Ino, p \in Path : At(c, i, p)
  BY <1>1, SectionFacts DEF At
<1>3. req[c].ino = i /\ open[i].path = p /\ (req[c].op \in PathOps => ~open[i].deleted)
  BY <1>2, SectionFacts DEF At
<1>4. req[c].op = "open" => req[c].op \in PathOps
  BY DEF PathOps
<1>5. UNCHANGED <<storage, expect, file, nextIno, lru, nextVer>>
  BY DEF statNode
<1>6. CASE open[i].valid
  <2>1. UNCHANGED <<db, open>>
    BY <1>3, <1>6 DEF statNode
  <2>2. Exits(c, open[i])
    <3>1. CASE ~StatPanics(open[i])
      <4>1. IF req[c].op = "open" THEN Return(c, open[i].path)
            ELSE Leave(c) /\ UNCHANGED <<fh, name>>
        BY <1>3, <1>6, <3>1 DEF statNode
      <4> QED BY <1>1, <1>3, <1>4, <1>6, <3>1, <4>1 DEF Exits, StatPanics
    <3>2. CASE StatPanics(open[i])
      <4>1. req[c].op # "open"
        BY <1>3, <1>4, <1>6, <3>2 DEF StatPanics
      <4>2. Leave(c) /\ UNCHANGED <<fh, name>>
        BY <1>3, <1>6, <3>2, <4>1 DEF statNode
      <4> QED BY <1>1, <1>3, <4>2 DEF Exits
    <3> QED BY <3>1, <3>2
  <2> QED BY <1>2, <1>5, <2>1, <2>2, QuietSectionContent
<1>7. CASE UNCHANGED <<db, open, negpres>> /\ Leave(c) /\ UNCHANGED <<fh, name>>
  <2>1. Exits(c, open[i])
    BY <1>1, <1>3, <1>7 DEF Exits
  <2> QED BY <1>2, <1>5, <1>7, <2>1, QuietSectionContent
<1>8. CASE /\ ~open[i].valid /\ ~open[i].deleted /\ StatFound(c)
           /\ IF req[c].op = "open" THEN Return(c, open[i].path)
              ELSE Leave(c) /\ UNCHANGED <<fh, name>>
  BY <1>2, <1>3, <1>4, <1>5, <1>8, FoundContent
<1>9. CASE (StatAbsent(c) \/ StatFails(c)) /\ Leave(c) /\ UNCHANGED <<fh, name>>
  <2>1. Exits(c, open[i])
    BY <1>1, <1>3, <1>9 DEF Exits
  <2>2. UNCHANGED <<db, open>>
    BY <1>9 DEF StatAbsent, StatFails
  <2> QED BY <1>2, <1>5, <2>1, <2>2, QuietSectionContent
<1> QED BY <1>3, <1>6, <1>7, <1>8, <1>9 DEF statNode

\* Create and Mkdir: the storage has what users see.
LEMMA makeNodeContent ==
    ASSUME SerialInv, SerialInv', ContentInv, ~IsNode(NoNode),
           NEW c \in Client, ClientStep(c), makeNode(c)
    PROVE  ContentInv'
<1>1. req[c].pc = "cs" /\ req[c].op \in {"create", "mkdir"}
  BY DEF makeNode, InSection
<1>2. PICK i \in Ino, p \in Path : At(c, i, p)
  BY <1>1, SectionFacts DEF At
<1>3. req[c].op \in PathOps
  BY <1>1 DEF PathOps
<1>4. req[c].ino = i /\ open[i].path = p /\ ~open[i].deleted /\ req[c].key = p /\ req[c].path = p
  BY <1>2, <1>3, SectionFacts DEF At
<1>5. UNCHANGED <<file, nextIno, lru>>
  BY DEF makeNode
<1>6. CASE StatFound(c) /\ Leave(c) /\ UNCHANGED <<storage, nextVer, expect, fh, name>>
  BY <1>2, <1>4, <1>5, <1>6, FoundContent
<1>7. CASE (StatAbsent(c) \/ StatFails(c)) /\ Leave(c) /\ UNCHANGED <<storage, nextVer, expect, fh, name>>
  <2>1. Exits(c, open[i])
    BY <1>1, <1>4, <1>7 DEF Exits
  <2>2. UNCHANGED <<db, open>>
    BY <1>7 DEF StatAbsent, StatFails
  <2> QED BY <1>2, <1>5, <1>7, <2>1, <2>2, QuietSectionContent
<1> DEFINE w == IF req[c].op = "mkdir" THEN Dir ELSE nextVer
<1>8. CASE /\ ~open[i].valid
           /\ storage' = [storage EXCEPT ![p] = w]
           /\ db' = PutNode(db, ToDb(CopyStat(open[i], w)), p)
           /\ open' = [open EXCEPT ![i] = CopyStat(open[i], w)]
           /\ expect' = [expect EXCEPT ![p] = w]
           /\ IF req[c].op = "mkdir" THEN Goto(c, "close") /\ UNCHANGED <<nextVer, fh, name>>
              ELSE nextVer' = nextVer + 1 /\ Return(c, p)
  <2>1. nextVer \in Nat \ {0} /\ MaxVer \in Nat /\ (req[c].op = "create" => nextVer \in 1..MaxVer)
    <3>1. MaxVer \in Nat /\ nextVer \in 1..MaxVer + 1 /\ ReqOK(c)
      BY CacheAssumption DEF SerialInv, Typed, ClientsOK
    <3>2. req[c].op = "create" => nextVer <= MaxVer
      BY <1>1, <3>1 DEF ReqOK
    <3> QED BY <3>1, <3>2
  <2>2. PICK v : v = w
    OBVIOUS
  <2>3. v \in Sig \ {0} /\ v \in Written(nextVer') /\ nextVer <= nextVer'
    <3>1. Sig = 0..Dir /\ Dir = MaxVer + 2
      BY CacheAssumption DEF Dir
    <3>2. CASE req[c].op = "mkdir"
      <4>1. v = Dir /\ nextVer' = nextVer
        BY <1>8, <2>2, <3>2
      <4> QED BY <2>1, <3>1, <4>1 DEF Written
    <3>3. CASE req[c].op = "create"
      <4>1. v = nextVer /\ nextVer' = nextVer + 1
        BY <1>8, <2>2, <3>3
      <4> QED BY <2>1, <3>1, <3>3, <4>1 DEF Written
    <3> QED BY <1>1, <3>2, <3>3
  <2>4. PICK m : /\ Fields(m, i, p, v, open[i].hash, TRUE, open[i].deleted,
                           open[i].fd, open[i].ref)
                 /\ NodeTyped(m)
                 /\ Changes(i, p, m, ToDb(m), v, v, file[i])
                 /\ ToDb(m) # NoNode /\ ToDb(m).ino = i /\ ToDb(m).sig = m.sig
                 /\ ToDb(m).hash = m.hash
                 /\ db' \in Db /\ Consistent(db')
    <3> HIDE DEF w
    <3> QED BY <1>2, <1>4, <1>5, <1>8, <2>2, <2>3, MadeForm
  <2>5. Exits(c, m) /\ IsNode(m) /\ m # NoNode /\ m.path = p
    BY <1>1, <1>3, <1>4, <1>8, <2>4 DEF Exits, Leave, Fields
  <2>6. file[i] = 0 /\ open[i].fd = "none"
    BY <1>2, <1>4, <1>8, SectionFacts DEF NodeOK, At
  <2>7. open[i].hash < nextVer /\ open[i].hash \in Nat /\ nextVer' \in Nat
    <3>1. Agree(open[i], Get(db, p), storage[p], expect[p], file[i], nextVer)
      BY <1>2, <1>4, LiveContent DEF ContentInv
    <3>2. Bears(i, open[i])
      BY <1>2, SectionFacts DEF At
    <3> QED BY <1>4, <3>1, <3>2, ContentTypes, NextTypes DEF Agree, Sees
  <2> HIDE DEF w
  <2>8. PICK d, x : d = ToDb(m) /\ x = file[i]
    OBVIOUS
  <2>9. Agree(m, d, v, v, x, nextVer')
    <3>1. m.sig = v /\ m.hash = open[i].hash /\ m.fd = "none" /\ d.sig = v
          /\ d.hash = open[i].hash
      BY <2>4, <2>6, <2>8 DEF Fields
    <3>2. open[i].hash < nextVer'
      BY <2>1, <2>3, <2>7
    <3> QED BY <2>3, <2>6, <2>8, <3>1, <3>2 DEF Agree, Sees
  <2>10. Changes(i, p, m, d, v, v, x) /\ (d # NoNode => d.ino = i)
    BY <2>4, <2>8
  <2>11. Content'
    BY <1>2, <1>4, <2>3, <2>5, <2>9, <2>10, SectionContent DEF ContentInv
  <2>12. Waiting'
    BY <1>2, <1>5, <2>10, SectionWaiting DEF ContentInv
  <2> QED BY <2>11, <2>12 DEF ContentInv
<1> QED BY <1>4, <1>6, <1>7, <1>8 DEF makeNode

\* Unlink and Rmdir: users see nothing, and nothing is there.
LEMMA removeNodeContent ==
    ASSUME SerialInv, SerialInv', ContentInv, ~IsNode(NoNode),
           NEW c \in Client, ClientStep(c), removeNode(c)
    PROVE  ContentInv'
<1>1. req[c].pc = "cs" /\ req[c].op \in {"unlink", "rmdir"}
  BY DEF removeNode, InSection
<1>2. PICK i \in Ino, p \in Path : At(c, i, p)
  BY <1>1, SectionFacts DEF At
<1>3. req[c].op \in PathOps
  BY <1>1 DEF PathOps
<1>4. req[c].ino = i /\ open[i].path = p /\ ~open[i].deleted /\ req[c].key = p /\ req[c].path = p
  BY <1>2, <1>3, SectionFacts DEF At
<1>5. CASE Quit(c)
  <2>1. /\ Leave(c) /\ UNCHANGED <<fh, name>>
        /\ UNCHANGED <<storage, expect, db, file, open, lru, nextVer>>
    BY <1>5 DEF Quit, persistent, user
  <2>2. Exits(c, open[i])
    BY <1>1, <1>4, <2>1 DEF Exits
  <2> QED BY <1>2, <2>1, <2>2, QuietSectionContent
<1>6. CASE /\ storage' = [storage EXCEPT ![p] = 0] /\ expect' = [expect EXCEPT ![p] = 0]
           /\ db' = DeleteNode(db, p) /\ open' = [open EXCEPT ![i].deleted = TRUE]
           /\ name' = Forget(name, p) /\ Goto(c, "close")
           /\ UNCHANGED <<nextIno, file, lru, fh, nextVer>>
  <2>1. PICK m : /\ Fields(m, i, p, open[i].sig, open[i].hash, open[i].valid, TRUE,
                            open[i].fd, open[i].ref)
                 /\ Changes(i, p, m, NoNode, 0, 0, file[i])
    BY <1>2, <1>6, RemovedForm
  <2>2. Exits(c, m) /\ IsNode(m) /\ m # NoNode /\ m.path = p /\ m.deleted
    BY <1>1, <1>3, <1>4, <1>6, <2>1 DEF Exits, Fields
  <2>3. nextVer' = nextVer /\ nextVer <= nextVer'
    BY <1>6, ContentTypes
  <2>4. PICK x, d, s : x = file[i] /\ d = NoNode /\ s = 0
    OBVIOUS
  <2>5. Agree(m, d, s, s, x, nextVer') /\ Changes(i, p, m, d, s, s, x) /\ (d # NoNode => d.ino = i)
    BY <2>1, <2>2, <2>4 DEF Agree, Written
  <2>6. Content'
    BY <1>2, <1>4, <2>2, <2>3, <2>5, SectionContent DEF ContentInv
  <2>7. Waiting'
    BY <1>2, <1>6, <2>5, SectionWaiting DEF ContentInv
  <2> QED BY <2>6, <2>7 DEF ContentInv
<1> QED BY <1>4, <1>5, <1>6 DEF removeNode

-----------------------------------------------------------------------------
(* Read, Write and Truncate *)

\* Making the file available gives what users see: what is fetched is what is there,
\* and nothing is overwritten.
LEMMA IoReady ==
    ASSUME SerialInv, Content, NEW c \in Client, NEW i \in Ino, NEW p \in Path, At(c, i, p),
           req[c].op \in IoOps, ~open[i].deleted, IoWorks(open[i])
    PROVE  /\ expect[p] \in 1..MaxVer /\ storage[p] \in Nat /\ storage[p] < nextVer
           /\ Fetches(open[i]) => /\ storage[p] = expect[p] /\ ~Overwrites(open[i])
                                  /\ Fetched(open[i]) = {expect[p]}
           /\ ~Fetches(open[i]) => /\ file[i] = expect[p] /\ Get(db, p) # NoNode
                                   /\ open[i].sig = storage[p] /\ Get(db, p).sig = storage[p]
<1> DEFINE n == open[i]
<1>1. storage[p] \in 1..Torn /\ expect[p] \in 1..MaxVer
  BY IoOnFiles
<1>2. /\ Agree(n, Get(db, p), storage[p], expect[p], file[i], nextVer)
      /\ IF Get(db, p) = NoNode THEN file[i] = 0 ELSE Get(db, p).ino = i
  BY LiveContent
<1>3. /\ n.path = p /\ n.ino = i /\ n # NoNode
  BY SectionFacts DEF At
<1>4. storage[p] \in Nat /\ storage[p] < nextVer
  <2>1. storage[p] \in Written(nextVer) /\ storage[p] # 0 /\ storage[p] # Dir
    BY <1>1, <1>2, ContentTypes DEF Agree
  <2> QED BY <2>1 DEF Written
<1>5. ASSUME Fetches(n)
      PROVE  storage[p] = expect[p] /\ ~Overwrites(n) /\ Fetched(n) = {expect[p]}
  <2>1. storage[p] = expect[p]
    BY <1>1, <1>2, <1>3, <1>5 DEF Fetches, Agree, Sees
  <2>2. file[i] \in {0, storage[p]}
    BY <1>2, <2>1 DEF Agree
  <2>3. ~Overwrites(n)
    BY <1>3, <2>2 DEF Overwrites
  <2> QED BY <1>3, <2>1, <2>3 DEF Fetched
<1>6. ASSUME ~Fetches(n)
      PROVE  /\ file[i] = expect[p] /\ Get(db, p) # NoNode
             /\ n.sig = storage[p] /\ Get(db, p).sig = storage[p]
  <2>1. Sound(i, n, Get(db, p), storage[p], expect[p], file[i])
    BY LiveNode
  <2>2. file[i] # 0
    BY <1>3, <1>6, <2>1 DEF Fetches, Sound
  <2>3. Get(db, p) # NoNode
    BY <1>2, <2>2
  <2>4. file[i] = expect[p]
    BY <1>2, <2>2, <2>3 DEF Agree
  <2>5. n.sig = storage[p] /\ Get(db, p).sig = storage[p]
    BY <1>2, <1>3, <1>6, <2>3 DEF Fetches, Agree
  <2> QED BY <2>3, <2>4, <2>5
<1> QED BY <1>1, <1>4, <1>5, <1>6

\* I/O leaves the file that users see.
LEMMA IoContent ==
    ASSUME SerialInv, SerialInv', ContentInv, ~IsNode(NoNode),
           NEW c \in Client, NEW i \in Ino, NEW p \in Path, At(c, i, p), ClientStep(c),
           req[c].op \in IoOps, ~open[i].deleted, IoWorks(open[i]),
           EnsureFile(c, open[i], storage[p]),
           NEW e, file' = [file EXCEPT ![i] = e], expect' = [expect EXCEPT ![p] = e],
           \/ e = expect[p] /\ nextVer' = nextVer
           \/ e = nextVer /\ nextVer' = nextVer + 1 /\ i \in Elems(lru.rw)',
           UNCHANGED <<storage, nextIno, fh, name>>, Leave(c),
           Elems(lru.rw) \subseteq Elems(lru.rw)'
    PROVE  ContentInv'
<1> DEFINE n == open[i]
           F == Fetches(n)
           g == Get(db, p)
<1>1. PICK s : s = storage[p]
  OBVIOUS
<1>2. s \in Sig
  BY <1>1, ContentTypes, CacheAssumption
<1>3. PICK m : IoResult(i, p, m, s, e, e)
  BY <1>1, <1>2, IoForm
<1>4. PICK d : d = (IF F THEN ToDb(m) ELSE g) /\ Changes(i, p, m, d, s, e, e)
  BY <1>1, <1>3 DEF IoResult
<1>5. /\ expect[p] \in 1..MaxVer /\ s \in Nat /\ s < nextVer
      /\ F => s = expect[p]
      /\ ~F => /\ file[i] = expect[p] /\ g # NoNode
               /\ n.sig = s /\ g.sig = s
  BY <1>1, IoReady DEF ContentInv
<1>6. /\ Agree(n, g, s, expect[p], file[i], nextVer)
      /\ g # NoNode => g.ino = i
  BY <1>1, LiveContent DEF ContentInv
<1>7. n # NoNode /\ Bears(i, n) /\ n.path = p
  BY SectionFacts DEF At
<1>8. /\ nextVer \in Nat \ {0} /\ n.hash \in Nat /\ (g # NoNode => g.hash \in Nat)
      /\ MaxVer \in Nat /\ Dir = MaxVer + 2
  BY <1>7, ContentTypes
<1>9. IsNode(m) /\ m.path = p /\ m.deleted = n.deleted /\ m # NoNode
  BY <1>3 DEF IoResult, Fields
<1>10. /\ m.sig = s /\ m.hash = IF F THEN s ELSE n.hash
  BY <1>1, <1>3, <1>5 DEF IoResult, Fields
<1>11. d # NoNode /\ d.ino = i /\ d.sig = s /\ d.hash = IF F THEN s ELSE g.hash
  <2>1. CASE F
    BY <1>3, <1>4, <1>10, <2>1 DEF IoResult
  <2>2. CASE ~F
    BY <1>4, <1>5, <1>6, <2>2
  <2> QED BY <2>1, <2>2
<1>12. m.hash \in Nat /\ d.hash \in Nat /\ m.hash < nextVer /\ d.hash < nextVer
  BY <1>5, <1>6, <1>8, <1>10, <1>11 DEF Agree, Sees
<1>13. nextVer' \in Nat /\ nextVer <= nextVer' /\ m.hash < nextVer' /\ d.hash < nextVer'
       /\ s < nextVer' /\ e # 0 /\ e \in Written(nextVer')
  <2>1. expect[p] \in Written(nextVer) /\ expect[p] # 0
    BY <1>5, <1>6 DEF Agree
  <2>2. CASE e = expect[p] /\ nextVer' = nextVer
    BY <1>5, <1>8, <1>12, <2>1, <2>2
  <2>3. CASE e = nextVer /\ nextVer' = nextVer + 1
    BY <1>5, <1>8, <1>12, <2>3 DEF Written
  <2> QED BY <2>2, <2>3
<1>14. s # e => m.hash # e /\ d.hash # e
  <2>1. CASE e = expect[p]
    BY <1>5, <1>6, <1>10, <1>11, <2>1 DEF Agree, Sees
  <2>2. CASE e = nextVer
    BY <1>8, <1>12, <2>2
  <2> QED BY <2>1, <2>2
<1>15. s \in Written(nextVer')
  BY <1>5, <1>13 DEF Written
<1>16. Agree(m, d, s, e, e, nextVer')
  BY <1>10, <1>11, <1>13, <1>14, <1>15 DEF Agree, Sees
<1>17. Exits(c, m)
  BY <1>9 DEF Exits, At
<1>18. Content'
  BY <1>4, <1>9, <1>11, <1>13, <1>16, <1>17, SectionContent DEF ContentInv
<1>19. s # e => \/ d.ino \in Elems(lru.rw)'
                \/ storage[p] # expect[p] /\ d.ino = Get(db, p).ino
  <2>1. CASE e = expect[p]
    BY <1>1, <1>5, <1>6, <1>11, <2>1
  <2>2. CASE i \in Elems(lru.rw)'
    BY <1>11, <2>2
  <2> QED BY <2>1, <2>2
<1>20. Waiting'
  BY <1>4, <1>19, SectionWaiting DEF ContentInv
<1> QED BY <1>18, <1>20 DEF ContentInv

\* I/O on deleted nodes changes nothing that users see by path.
LEMMA DeadContent ==
    ASSUME SerialInv, SerialInv', ContentInv,
           NEW c \in Client, NEW i \in Ino, NEW p \in Path, At(c, i, p), ClientStep(c),
           open[i].deleted, Leave(c),
           UNCHANGED <<storage, expect, db, open, fh, name>>, nextVer <= nextVer',
           NEW x, file' = [file EXCEPT ![i] = x], Elems(lru.rw) \subseteq Elems(lru.rw)'
    PROVE  ContentInv'
<1>1. PICK n : n = open[i]
  OBVIOUS
<1>2. /\ n # NoNode /\ n.path = p /\ Bears(i, n) /\ NodeOK(i, n) /\ req[c].pc = "cs"
      /\ req[c].ino = i
  BY <1>1, SectionFacts DEF At
<1>3. Exits(c, n) /\ open' = [open EXCEPT ![i] = n]
  BY <1>1, <1>2, ContentTypes DEF Exits
<1>4. ASSUME NEW j \in Ino, NEW k, Bears(j, k)' PROVE NodeContent(j, k)
  <2>1. Bears(j, k)
    <3>1. \A d \in Client : ~Hand(d)'
      BY <1>3, ExitsAre DEF ClientStep, Hand
    <3> QED BY <1>4, <3>1 DEF Bears
  <2> QED BY <2>1 DEF ContentInv, Content
<1>5. ASSUME NEW j \in Ino PROVE file'[j] = file[j] \/ \A q \in Path : ~Lists(j, q)
  <2>1. CASE j = i
    <3>1. \A q \in Path : Lists(i, q) => q = p
      BY <1>2, OnePathEach DEF SerialInv
    <3>2. ~Lists(i, p)
      BY <1>1, <1>2 DEF NodeOK
    <3> QED BY <2>1, <3>1, <3>2
  <2>2. CASE j # i
    BY <2>2, ContentTypes
  <2> QED BY <2>1, <2>2
<1>6. ASSUME NEW j \in Ino, open'[j] # NoNode PROVE open[j] # NoNode /\ Alike(open'[j], open[j])
  BY <1>6 DEF Alike
<1>7. Content'
  BY <1>4, <1>5, <1>6, QuietContent DEF ContentInv
<1>8. \A j : Pending(j) => Pending(j)'
  BY ClientPending
<1>9. Waiting'
  BY <1>8, WaitingKept DEF ContentInv, ClientStep
<1> QED BY <1>7, <1>9 DEF ContentInv

\* No request is one that Careful excludes.
Asked == \A c \in Client : req[c].op \notin Shrinks

\* Reads and writes that fail: nothing was overwritten.
LEMMA ioFailsContent ==
    ASSUME SerialInv, SerialInv', ContentInv, ~IsNode(NoNode),
           NEW c \in Client, ClientStep(c), ioFails(c)
    PROVE  ContentInv'
<1>1. req[c].pc = "cs" /\ req[c].op \in IoOps
  BY DEF ioFails, InSection, IoOps
<1>2. PICK i \in Ino, p \in Path : At(c, i, p)
  BY <1>1, SectionFacts DEF At
<1>3. req[c].ino = i /\ open[i].path = p
  BY <1>2, SectionFacts DEF At
<1>4. CASE Quit(c)
  <2>1. /\ Leave(c) /\ UNCHANGED <<fh, name>>
        /\ UNCHANGED <<storage, expect, db, file, open, lru, nextVer>>
    BY <1>4 DEF Quit, persistent, user
  <2>2. Exits(c, open[i])
    BY <1>1, <1>3, <2>1 DEF Exits
  <2> QED BY <1>2, <2>1, <2>2, QuietSectionContent
<1>5. CASE /\ open[i].fd = "none" /\ IoWorks(open[i]) /\ Fetches(open[i]) /\ Overwrites(open[i])
  <2>1. ~open[i].deleted
    BY <1>5 DEF IoWorks
  <2>2. ~Overwrites(open[i])
    BY <1>1, <1>2, <1>5, <2>1, IoReady DEF ContentInv
  <2> QED BY <1>5, <2>2
<1> QED BY <1>3, <1>4, <1>5 DEF ioFails

\* Read.
LEMMA readAtContent ==
    ASSUME SerialInv, SerialInv', ContentInv, ~IsNode(NoNode),
           NEW c \in Client, ClientStep(c), readAt(c)
    PROVE  ContentInv'
<1>1. req[c].pc = "cs" /\ req[c].op \in IoOps
  BY DEF readAt, InSection, IoOps
<1>2. PICK i \in Ino, p \in Path : At(c, i, p)
  BY <1>1, SectionFacts DEF At
<1>3. req[c].ino = i /\ open[i].path = p /\ open[i].ino = i
  BY <1>2, SectionFacts DEF At
<1>4. /\ IoWorks(open[i]) /\ EnsureFile(c, open[i], storage[p]) /\ Leave(c)
      /\ IF Fetches(open[i]) THEN \E v \in Fetched(open[i]) : file' = [file EXCEPT ![i] = v]
         ELSE UNCHANGED file
      /\ UNCHANGED <<storage, nextIno, lru, fh, name, nextVer, expect>>
  BY <1>3 DEF readAt, user
<1>5. Elems(lru.rw) \subseteq Elems(lru.rw)' /\ nextVer <= nextVer'
  BY <1>4, ContentTypes
<1>6. CASE open[i].deleted
  <2>1. ~Fetches(open[i]) /\ UNCHANGED <<open, db>>
    BY <1>2, <1>4, <1>6, DeadFile
  <2>2. file' = [file EXCEPT ![i] = file[i]]
    BY <1>4, <2>1, ContentTypes
  <2> QED BY <1>2, <1>4, <1>5, <1>6, <2>1, <2>2, DeadContent
<1>7. CASE ~open[i].deleted
  <2>1. PICK e : e = expect[p]
    OBVIOUS
  <2>2. /\ Fetches(open[i]) => Fetched(open[i]) = {e}
        /\ ~Fetches(open[i]) => file[i] = e
    BY <1>1, <1>2, <1>4, <1>7, <2>1, IoReady DEF ContentInv
  <2>3. file' = [file EXCEPT ![i] = e]
    <3>1. CASE Fetches(open[i])
      BY <1>4, <2>2, <3>1
    <3>2. CASE ~Fetches(open[i])
      BY <1>4, <2>2, <3>2, ContentTypes
    <3> QED BY <3>1, <3>2
  <2>4. expect' = [expect EXCEPT ![p] = e]
    BY <1>4, <2>1, ContentTypes
  <2> QED BY <1>1, <1>2, <1>4, <1>5, <1>7, <2>1, <2>3, <2>4, IoContent
<1> QED BY <1>6, <1>7

\* Write and Truncate: the file is the new version, and will be uploaded.
LEMMA modifyFileContent ==
    ASSUME SerialInv, SerialInv', ContentInv, Asked, ~IsNode(NoNode),
           NEW c \in Client, ClientStep(c), modifyFile(c)
    PROVE  ContentInv'
<1>1. req[c].pc = "cs" /\ req[c].op \in Modifies /\ req[c].op \in IoOps /\ req[c].op \notin Shrinks
  BY DEF modifyFile, InSection, IoOps, Asked
<1>2. PICK i \in Ino, p \in Path : At(c, i, p)
  BY <1>1, SectionFacts DEF At
<1>3. req[c].ino = i /\ open[i].path = p /\ open[i].ino = i
  BY <1>2, SectionFacts DEF At
<1> DEFINE r == IF req[c].op \in PathOps THEN req[c].path ELSE name[c]
<1>4. /\ IoWorks(open[i]) /\ Leave(c)
      /\ lru' = touchIno(lru, i, TRUE) /\ nextVer' = nextVer + 1
      /\ expect' = IF r = NoPath THEN expect ELSE [expect EXCEPT ![r] = nextVer]
      /\ UNCHANGED <<storage, nextIno, fh, name>>
  BY <1>3 DEF modifyFile
<1>5. PICK b, x : /\ EnsureFile(c, open[i], storage[p])
                  /\ b \in IF Fetches(open[i]) THEN Fetched(open[i]) ELSE {file[i]}
                  /\ x = IF r = NoPath \/ b = expect[r] THEN nextVer ELSE Torn
                  /\ file' = IF open[i].fd = "orphan" THEN file ELSE [file EXCEPT ![i] = x]
  BY <1>1, <1>3 DEF modifyFile
<1>6. /\ Elems(lru.rw)' = Elems(lru.rw) \cup {i}
  BY <1>4, TouchElems DEF SerialInv, ListInv
<1>7. nextVer \in Nat /\ nextVer <= nextVer'
  BY <1>4, ContentTypes
<1>8. CASE open[i].deleted
  <2>1. /\ UNCHANGED <<open, db>> /\ req[c].op \notin PathOps /\ name[c] = NoPath
    BY <1>2, <1>4, <1>5, <1>8, DeadFile
  <2>2. expect' = expect
    BY <1>4, <2>1
  <2>3. PICK y : file' = [file EXCEPT ![i] = y]
    <3>1. CASE open[i].fd = "orphan"
      <4>1. file' = [file EXCEPT ![i] = file[i]]
        BY <1>5, <3>1, ContentTypes
      <4> QED BY <4>1
    <3>2. CASE open[i].fd # "orphan"
      BY <1>5, <3>2
    <3> QED BY <3>1, <3>2
  <2> HIDE DEF r
  <2> QED BY <1>2, <1>4, <1>6, <1>7, <1>8, <2>1, <2>2, <2>3, DeadContent
<1>9. CASE ~open[i].deleted
  <2>1. r = p
    BY <1>1, <1>2, <1>4, <1>9, IoOnFiles
  <2>2. expect' = [expect EXCEPT ![p] = nextVer]
    BY <1>4, <2>1, AbsentAssumption
  <2>3. open[i].fd # "orphan"
    <3>1. Sound(i, open[i], Get(db, p), storage[p], expect[p], file[i])
      BY <1>2, <1>9, LiveNode
    <3> QED BY <1>9, <3>1 DEF Sound
  <2>4. b = expect[p]
    <3>1. /\ Fetches(open[i]) => Fetched(open[i]) = {expect[p]}
          /\ ~Fetches(open[i]) => file[i] = expect[p]
      BY <1>1, <1>2, <1>4, <1>9, IoReady DEF ContentInv
    <3> QED BY <1>5, <3>1
  <2>5. x = nextVer
    BY <1>5, <2>1, <2>4
  <2>6. file' = [file EXCEPT ![i] = nextVer]
    BY <1>5, <2>3, <2>5
  <2> HIDE DEF r
  <2>7. PICK e : e = nextVer
    OBVIOUS
  <2>8. file' = [file EXCEPT ![i] = e] /\ expect' = [expect EXCEPT ![p] = e] /\ nextVer' = nextVer + 1
    BY <1>4, <2>2, <2>6, <2>7
  <2>9. /\ EnsureFile(c, open[i], storage[p]) /\ IoWorks(open[i]) /\ Leave(c)
        /\ UNCHANGED <<storage, nextIno, fh, name>>
        /\ i \in Elems(lru.rw)' /\ Elems(lru.rw) \subseteq Elems(lru.rw)'
    BY <1>4, <1>5, <1>6
  <2> QED BY <1>1, <1>2, <1>9, <2>7, <2>8, <2>9, IoContent
<1> QED BY <1>8, <1>9

-----------------------------------------------------------------------------
(* Requests outside their sections *)

\* A step of a client that changes no data.
LEMMA ClientContent ==
    ASSUME SerialInv, SerialInv', ContentInv, NEW c \in Client, ClientStep(c),
           UNCHANGED <<storage, expect, db, file, nextVer>>,
           Elems(lru.rw) \subseteq Elems(lru.rw)',
           \A i \in Ino : \A n : Bears(i, n)' => NodeContent(i, n),
           \A i \in Ino : open'[i] # NoNode =>
                \/ open'[i].fd = "none"
                \/ open[i] # NoNode /\ Alike(open'[i], open[i])
    PROVE  ContentInv'
<1>1. nextVer <= nextVer'
  BY ContentTypes
<1>2. Content'
  BY <1>1, QuietContent DEF ContentInv
<1>3. \A j : Pending(j) => Pending(j)'
  BY ClientPending
<1>4. Waiting'
  BY <1>3, WaitingKept DEF ContentInv, ClientStep
<1> QED BY <1>2, <1>4 DEF ContentInv

\* openNode takes a node that sees what the catalog does.
LEMMA openNodeContent ==
    ASSUME SerialInv, SerialInv', ContentInv, NEW c \in Client, ClientStep(c),
           NEW op \in PathOps, NEW p \in Path, NEW q \in Path, openNode(c, op, p, q)
    PROVE  ContentInv' /\ (req'[c].op = op \/ req'[c].op = "none")
<1>1. /\ UNCHANGED <<storage, db, file, open, lru, nextVer, expect>>
      /\ req = [d \in Client |-> req[d]]
  BY DEF openNode, user, SerialInv, ListInv, HandleInv
<1>2. PathContent(p) /\ nextVer \in Nat \ {0}
  BY ContentTypes DEF ContentInv, Content
<1>3. PICK j, n : /\ Request(c, Started(op, p, q, j, n)) /\ NodeContent(j, n)
  <2>1. CASE Get(db, p) # NoNode
    <3>1. PICK d : d = Get(db, p)
      OBVIOUS
    <3>2. d.path = p
      <4>1. d.ino \in Ino /\ Lists(d.ino, p)
        BY <2>1, <3>1, ContentTypes DEF Lists
      <4> QED BY <3>1, <4>1, OnePathEach DEF SerialInv
    <3>3. PICK n : n = FromDb(d)
      OBVIOUS
    <3>4. n.path = p /\ n.sig = d.sig /\ n.hash = d.hash
      BY <3>2, <3>3 DEF FromDb
    <3>5. PICK j : j = d.ino
      OBVIOUS
    <3>6. NodeContent(j, n)
      BY <1>2, <2>1, <3>1, <3>4 DEF NodeContent, PathContent, Sees
    <3>7. Request(c, Started(op, p, q, j, n))
      BY <2>1, <3>1, <3>3, <3>5 DEF openNode, Started
    <3> QED BY <3>6, <3>7
  <2>2. CASE Get(db, p) = NoNode
    <3>1. PICK j, n : j = nextIno /\ n = NewNode(j, p)
      OBVIOUS
    <3>2. n.path = p /\ n.sig = 0 /\ n.hash = 0
      BY <3>1 DEF NewNode
    <3>3. NodeContent(j, n)
      BY <1>2, <2>2, <3>2 DEF NodeContent, PathContent, Sees, Lists
    <3>4. Request(c, Started(op, p, q, j, n))
      BY <2>2, <3>1 DEF openNode, Started
    <3> QED BY <3>3, <3>4
  <2> QED BY <2>1, <2>2
<1>4. PICK r : r = Started(op, p, q, j, n) /\ req'[c] = r
  BY <1>1, <1>3 DEF Request
<1>5. r.pc = "insert" /\ r.op = op /\ r.ino = j /\ r.node = n
  BY <1>4, StartedFields
<1>6. ASSUME NEW i \in Ino, NEW k, Bears(i, k)' PROVE NodeContent(i, k)
  <2>1. CASE open[i] # NoNode /\ open[i] = k
    <3>1. Bears(i, k)
      BY <2>1 DEF Bears
    <3> QED BY <3>1 DEF ContentInv, Content
  <2>2. CASE req'[c].ino = i /\ req'[c].node = k
    BY <1>3, <1>4, <1>5, <2>2
  <2> QED BY <1>1, <1>6, <2>1, <2>2, ClientBears
<1>7. ASSUME NEW i \in Ino, open'[i] # NoNode PROVE open[i] # NoNode /\ Alike(open'[i], open[i])
  BY <1>1, <1>7 DEF Alike
<1>8. Elems(lru.rw) \subseteq Elems(lru.rw)'
  BY <1>1
<1>9. ContentInv'
  BY <1>1, <1>6, <1>7, <1>8, ClientContent
<1> QED BY <1>4, <1>5, <1>9

\* insertNode enters a node that is like one that was there.
LEMMA insertNodeContent ==
    ASSUME SerialInv, SerialInv', ContentInv, NEW c \in Client, ClientStep(c), insertNode(c)
    PROVE  ContentInv' /\ req'[c].op = req[c].op
<1>1. /\ req[c].pc = "insert" /\ IsRequest(req[c]) /\ req = [d \in Client |-> req[d]]
      /\ req[c].ino \in Ino /\ IsNode(req[c].node) /\ OpenTyped /\ ReqOK(c)
  BY DEF insertNode, SerialInv, ListInv, HandleInv, RequestTyped, ClientsOK
<1>2. UNCHANGED <<storage, db, file, lru, nextVer, expect>>
  BY DEF insertNode, persistent, user
<1>3. PICK i \in Ino : i = req[c].ino
  BY <1>1
<1>4. PICK n : n = IF open[i] = NoNode THEN req[c].node ELSE open[i]
  OBVIOUS
<1>5. PICK m : m = Reference(n)
  OBVIOUS
<1>6. IsNode(n)
  BY <1>1, <1>3, <1>4 DEF OpenTyped
<1>7. Alike(m, n)
  BY <1>5, <1>6, ReferenceFields
<1>8. open' = [open EXCEPT ![i] = m]
  BY <1>3, <1>4, <1>5 DEF insertNode
<1>9. open'[i] = m /\ (\A j \in Ino \ {i} : open'[j] = open[j])
  BY <1>1, <1>8 DEF OpenTyped
<1>10. req'[c].pc = "key" /\ req'[c].op = req[c].op
  <2> DEFINE r1 == [req[c] EXCEPT !.pc = "key"]
             r2 == [r1 EXCEPT !.node = NoNode]
  <2>1. req'[c] = r2
    BY <1>1 DEF insertNode, Request
  <2>2. IsRequest(r1) /\ r1.pc = "key" /\ r1.op = req[c].op
    BY <1>1 DEF IsRequest
  <2> HIDE DEF r1
  <2>3. r2.pc = "key" /\ r2.op = req[c].op
    BY <2>2 DEF IsRequest
  <2> HIDE DEF r2
  <2> QED BY <2>1, <2>3
<1>11. Bears(i, n) /\ NodeContent(i, n)
  <2>1. Bears(i, n)
    BY <1>1, <1>3, <1>4, ClientBears DEF Hand
  <2> QED BY <2>1 DEF ContentInv, Content
<1>12. ASSUME NEW j \in Ino, NEW k, Bears(j, k)' PROVE NodeContent(j, k)
  <2>1. open'[j] # NoNode /\ open'[j] = k
    BY <1>10, <1>12, ClientBears DEF Hand
  <2>2. CASE j = i
    BY <1>7, <1>9, <1>11, <2>1, <2>2, AlikeContent
  <2>3. CASE j # i
    <3>1. Bears(j, k)
      BY <1>9, <2>1, <2>3 DEF Bears
    <3> QED BY <3>1 DEF ContentInv, Content
  <2> QED BY <2>2, <2>3
<1>13. ASSUME NEW j \in Ino, open'[j] # NoNode
       PROVE  open'[j].fd = "none" \/ (open[j] # NoNode /\ Alike(open'[j], open[j]))
  <2>1. CASE j = i /\ open[i] = NoNode
    BY <1>1, <1>3, <1>4, <1>7, <1>9, <2>1 DEF ReqOK, Alike
  <2>2. CASE j = i /\ open[i] # NoNode
    BY <1>4, <1>7, <1>9, <2>2
  <2>3. CASE j # i
    BY <1>9, <1>13, <2>3 DEF Alike
  <2> QED BY <2>1, <2>2, <2>3
<1>14. Elems(lru.rw) \subseteq Elems(lru.rw)'
  BY <1>2
<1>15. ContentInv'
  BY <1>2, <1>12, <1>13, <1>14, ClientContent
<1> QED BY <1>10, <1>15

\* readKey, beginHandle and touchClosed: the nodes stay where they are.
LEMMA StayContent ==
    ASSUME SerialInv, SerialInv', ContentInv, NEW c \in Client, ClientStep(c), ~Hand(c)',
           UNCHANGED <<storage, expect, db, file, open, nextVer>>,
           Elems(lru.rw) \subseteq Elems(lru.rw)'
    PROVE  ContentInv'
<1>1. ASSUME NEW j \in Ino, NEW k, Bears(j, k)' PROVE NodeContent(j, k)
  <2>1. Bears(j, k)
    BY <1>1, ClientBears
  <2> QED BY <2>1 DEF ContentInv, Content
<1>2. ASSUME NEW i \in Ino, open'[i] # NoNode PROVE open[i] # NoNode /\ Alike(open'[i], open[i])
  BY <1>2 DEF Alike
<1> QED BY <1>1, <1>2, ClientContent

\* The key to lock.
LEMMA readKeyContent ==
    ASSUME SerialInv, SerialInv', ContentInv, NEW c \in Client, ClientStep(c), readKey(c)
    PROVE  ContentInv' /\ req'[c].op = req[c].op
<1>1. /\ req[c].pc = "key" /\ IsRequest(req[c]) /\ req = [d \in Client |-> req[d]]
      /\ req' = [req EXCEPT ![c] = [req[c] EXCEPT !.pc = "cs", !.key = open[req[c].ino].path]]
  BY DEF readKey, Request, SerialInv, ListInv, HandleInv, RequestTyped
<1>2. UNCHANGED <<storage, db, file, open, lru, nextVer, expect>>
  BY DEF readKey, persistent, user
<1>3. req'[c].pc = "cs" /\ req'[c].op = req[c].op
  <2> DEFINE r1 == [req[c] EXCEPT !.pc = "cs"]
             r2 == [r1 EXCEPT !.key = open[req[c].ino].path]
  <2>1. req'[c] = r2
    BY <1>1
  <2>2. IsRequest(r1) /\ r1.pc = "cs" /\ r1.op = req[c].op
    BY <1>1 DEF IsRequest
  <2> HIDE DEF r1
  <2>3. r2.pc = "cs" /\ r2.op = req[c].op
    BY <2>2 DEF IsRequest
  <2> HIDE DEF r2
  <2> QED BY <2>1, <2>3
<1>4. ~Hand(c)' /\ Elems(lru.rw) \subseteq Elems(lru.rw)'
  BY <1>2, <1>3 DEF Hand
<1>5. ContentInv'
  BY <1>2, <1>4, StayContent
<1> QED BY <1>3, <1>5

\* A request on a handle begins.
LEMMA beginHandleContent ==
    ASSUME SerialInv, SerialInv', ContentInv, NEW c \in Client, ClientStep(c),
           NEW op, beginHandle(c, op)
    PROVE  ContentInv' /\ req'[c].op = op
<1>1. /\ req = [d \in Client |-> req[d]]
      /\ req' = [req EXCEPT ![c] = [Idle EXCEPT !.pc = "key", !.op = op, !.ino = fh[c]]]
  BY DEF beginHandle, Request, SerialInv, ListInv, HandleInv
<1>2. UNCHANGED <<storage, db, file, open, lru, nextVer, expect>>
  BY DEF beginHandle, persistent, user
<1>3. req'[c].pc = "key" /\ req'[c].op = op
  <2> DEFINE r1 == [Idle EXCEPT !.pc = "key"]
             r2 == [r1 EXCEPT !.op = op]
             r3 == [r2 EXCEPT !.ino = fh[c]]
  <2>1. req'[c] = r3
    BY <1>1
  <2>2. IsRequest(r1) /\ r1.pc = "key"
    BY IdleRequest DEF IsRequest
  <2> HIDE DEF r1
  <2>3. IsRequest(r2) /\ r2.pc = "key" /\ r2.op = op
    BY <2>2 DEF IsRequest
  <2> HIDE DEF r2
  <2>4. r3.pc = "key" /\ r3.op = op
    BY <2>3 DEF IsRequest
  <2> HIDE DEF r3
  <2> QED BY <2>1, <2>4
<1>4. ~Hand(c)' /\ Elems(lru.rw) \subseteq Elems(lru.rw)'
  BY <1>2, <1>3 DEF Hand
<1>5. ContentInv'
  BY <1>2, <1>4, StayContent
<1> QED BY <1>3, <1>5

\* The end of closeNode: what is to be uploaded is not listed for eviction.
LEMMA touchClosedContent ==
    ASSUME SerialInv, SerialInv', ContentInv, NEW c \in Client, ClientStep(c), touchClosed(c)
    PROVE  ContentInv' /\ req'[c].op = "none"
<1>1. /\ req = [d \in Client |-> req[d]] /\ req[c].ino \in Ino
  BY DEF touchClosed, SerialInv, ListInv, HandleInv, RequestTyped
<1>2. UNCHANGED <<storage, db, file, open, nextVer, expect>>
  BY DEF touchClosed, persistent, user
<1>3. PICK i \in Ino : i = req[c].ino
  BY <1>1
<1>4. lru' = touchIno(lru, i, FALSE) /\ req'[c] = Idle
  BY <1>1, <1>3 DEF touchClosed, Done, Request
<1>5. req'[c].pc = "idle" /\ req'[c].op = "none"
  BY <1>4, IdleRequest DEF Idle
<1>6. Elems(lru.rw)' = Elems(lru.rw)
  <2>1. Elems(touchIno(lru, i, FALSE).rw) = Elems(lru.rw)
    BY TouchElems DEF SerialInv, ListInv
  <2> QED BY <1>4, <2>1
<1>7. ~Hand(c)'
  BY <1>5 DEF Hand
<1>8. ContentInv'
  BY <1>2, <1>6, <1>7, StayContent
<1> QED BY <1>5, <1>8

\* Cache.Close: what the request has in hand is what was open.
LEMMA DereferenceContent ==
    ASSUME SerialInv, SerialInv', ContentInv, NEW c \in Client, ClientStep(c),
           NEW i \in Ino, open[i] # NoNode, Dereference(c, i),
           UNCHANGED <<storage, expect, db, file, lru, nextVer>>
    PROVE  ContentInv'
<1>1. PICK n : n = open[i] /\ Bears(i, n)
  BY DEF Bears
<1>2. NodeContent(i, n)
  BY <1>1 DEF ContentInv, Content
<1>3. /\ \A j \in Ino \ {i} : open'[j] = open[j]
      /\ open'[i] # NoNode => Alike(open'[i], n)
      /\ Hand(c)' => req'[c].ino = i /\ Alike(req'[c].node, n)
  <2>1. ClosePc(n) \in {"closing", "touch", "idle"}
    BY DEF ClosePc
  <2>2. /\ \A j \in Ino \ {i} : open'[j] = open[j]
        /\ \/ /\ open[i].ref > 1 /\ IsNode(open'[i]) /\ Alike(open'[i], open[i])
              /\ open'[i].ref = open[i].ref - 1 /\ req'[c].pc = "idle"
           \/ /\ open[i].ref = 1 /\ open'[i] = NoNode
              /\ req'[c].pc = ClosePc(open[i]) /\ req'[c].op = "none"
              /\ req'[c].pc # "idle" => req'[c].ino = i
              /\ req'[c].pc = "closing" => Alike(req'[c].node, open[i])
    BY DereferenceForm
  <2> QED BY <1>1, <2>1, <2>2 DEF Hand
<1>4. ASSUME NEW j \in Ino, NEW k, Bears(j, k)' PROVE NodeContent(j, k)
  <2>1. CASE open'[j] # NoNode /\ open'[j] = k /\ j # i
    <3>1. Bears(j, k)
      BY <1>3, <2>1 DEF Bears
    <3> QED BY <3>1 DEF ContentInv, Content
  <2>2. CASE j = i /\ Alike(k, n)
    BY <1>2, <2>2, AlikeContent
  <2> QED BY <1>3, <1>4, <2>1, <2>2, ClientBears
<1>5. ASSUME NEW j \in Ino, open'[j] # NoNode PROVE open[j] # NoNode /\ Alike(open'[j], open[j])
  BY <1>1, <1>3, <1>5 DEF Alike
<1>6. Elems(lru.rw) \subseteq Elems(lru.rw)'
  OBVIOUS
<1> QED BY <1>4, <1>5, <1>6, ClientContent

\* The deferred Close of a request on a path.
LEMMA closeRequestContent ==
    ASSUME SerialInv, SerialInv', ContentInv, NEW c \in Client, ClientStep(c), closeRequest(c)
    PROVE  ContentInv'
<1>1. /\ req[c].pc = "close" /\ Dereference(c, req[c].ino)
      /\ UNCHANGED <<storage, db, file, lru, nextVer, expect>>
  BY DEF closeRequest, persistent, user
<1>2. PICK i : i = req[c].ino /\ i \in Ino /\ open[i] # NoNode
  BY <1>1, RequestHasNode DEF SerialInv, ListInv
<1> QED BY <1>1, <1>2, DereferenceContent

\* Release.
LEMMA releaseContent ==
    ASSUME SerialInv, SerialInv', ContentInv, NEW c \in Client, ClientStep(c), release(c)
    PROVE  ContentInv'
<1>1. /\ fh[c] # 0 /\ Dereference(c, fh[c])
      /\ UNCHANGED <<storage, db, file, lru, nextVer, expect>>
  BY DEF release, persistent
<1>2. PICK i : i = fh[c] /\ i \in Ino /\ open[i] # NoNode
  BY <1>1, HandleHasNode DEF SerialInv, ListInv
<1> QED BY <1>1, <1>2, DereferenceContent

\* closeAndUpdateNode stores the node that was open last, whose hash is old.
LEMMA closeAndUpdateNodeContent ==
    ASSUME SerialInv, SerialInv', ContentInv, NEW c \in Client, ClientStep(c),
           closeAndUpdateNode(c)
    PROVE  ContentInv' /\ req'[c].op = req[c].op
<1>1. /\ req[c].pc = "closing" /\ IsRequest(req[c]) /\ req = [d \in Client |-> req[d]]
      /\ req[c].ino \in Ino /\ IsNode(req[c].node) /\ req[c].node.ino = req[c].ino
      /\ OpenTyped /\ ReqOK(c)
  BY DEF closeAndUpdateNode, SerialInv, ListInv, HandleInv, RequestTyped, ClientsOK
<1>2. UNCHANGED <<storage, file, open, lru, nextVer, expect>>
  BY DEF closeAndUpdateNode, user
<1>3. PICK i, n, p : i \in Ino /\ i = req[c].ino /\ n = req[c].node /\ p = n.path
  BY <1>1
<1>4. /\ ~n.deleted /\ n.valid /\ open[i] = NoNode /\ n.ino = i
  BY <1>1, <1>3 DEF ReqOK
<1>5. Bears(i, n)
  BY <1>1, <1>3, <1>4, ClientBears DEF Hand
<1>6. NodeOK(i, n) /\ NodeTyped(n) /\ p \in Path
  BY <1>3, <1>5 DEF SerialInv, DataInv, Typed, NodeOK
<1>7. Owns(i, p)
  BY <1>3, <1>4, <1>5, BearerOwns DEF SerialInv
<1>8. db' = PutNode(db, ToDb(n), p) /\ req' = [req EXCEPT ![c].pc = "touch"]
  BY <1>3 DEF closeAndUpdateNode, Goto
<1>9. /\ \A q \in Path : Get(db', q) = IF q = p THEN ToDb(n) ELSE Get(db, q)
      /\ ToDb(n) # NoNode /\ ToDb(n).ino = i /\ ToDb(n).sig = n.sig
  BY <1>3, <1>4, <1>6, <1>7, <1>8, Stored
<1>10. PICK t : t = ToDb(n) /\ t # NoNode /\ t.ino = i /\ t.sig = n.sig /\ t.hash = n.hash
  <2>1. ToDb(n).hash = n.hash
    BY DEF ToDb
  <2> QED BY <1>9, <2>1
<1>11. Get(db', p) = t /\ \A q \in Path \ {p} : Get(db', q) = Get(db, q)
  BY <1>6, <1>9, <1>10
<1>12. req'[c].pc = "touch" /\ req'[c].op = req[c].op
  <2> DEFINE r == [req[c] EXCEPT !.pc = "touch"]
  <2>1. req'[c] = r
    BY <1>1, <1>8
  <2>2. r.pc = "touch" /\ r.op = req[c].op
    BY <1>1 DEF IsRequest
  <2> HIDE DEF r
  <2> QED BY <2>1, <2>2
<1>13. /\ \A j \in Ino \ {i} : \A k : Bears(j, k)' => Bears(j, k)
       /\ \A k : ~Bears(i, k)'
  BY <1>2, <1>4, <1>12, ClientBears DEF Hand
<1>14. PathContent(p) /\ NodeContent(i, n)
  BY <1>3, <1>5, <1>6 DEF ContentInv, Content
<1>15. /\ Sees(t, storage[p], expect[p], nextVer)
       /\ file[i] \in {0, expect[p]} /\ (file[i] = 0 => storage[p] = expect[p])
       /\ storage[p] # expect[p] => Get(db, p) # NoNode /\ Get(db, p).ino = i
  <2>1. Sees(t, storage[p], expect[p], nextVer)
    BY <1>3, <1>4, <1>10, <1>14 DEF NodeContent, Sees
  <2>2. CASE Get(db, p) = NoNode
    BY <1>3, <1>4, <1>6, <1>14, <2>1, <2>2 DEF PathContent, NodeOK, Lists
  <2>3. CASE Get(db, p) # NoNode
    BY <1>7, <1>14, <2>1, <2>3 DEF PathContent, Owns
  <2> QED BY <2>2, <2>3
<1>16. PathContent(p)'
  BY <1>2, <1>10, <1>11, <1>14, <1>15 DEF PathContent
<1>17. LinkedContent(i)'
  BY <1>2, <1>4 DEF LinkedContent
<1>18. /\ \A q \in Path \ {p} :
            /\ storage'[q] = storage[q] /\ expect'[q] = expect[q]
            /\ Get(db', q) = Get(db, q)
       /\ \A j \in Ino \ {i} : file'[j] = file[j] /\ open'[j] = open[j]
  BY <1>2, <1>11
<1>19. nextVer <= nextVer'
  BY <1>2, ContentTypes
<1>20. Content'
  BY <1>3, <1>6, <1>7, <1>13, <1>16, <1>17, <1>18, <1>19, LocalContent DEF ContentInv
<1>21. Waiting'
  <2>1. \A j : Pending(j) => Pending(j)'
    BY <1>2, ClientPending
  <2>2. \A q \in Path : storage'[q] # expect'[q] =>
            storage[q] # expect[q] /\ Get(db', q).ino = Get(db, q).ino
    BY <1>2, <1>10, <1>11, <1>15
  <2> QED BY <2>1, <2>2, WaitingKept DEF ContentInv, ClientStep
<1> QED BY <1>12, <1>20, <1>21 DEF ContentInv

-----------------------------------------------------------------------------
(* Readdir *)

\* Touching the inodes of a listing takes none off the list of uploads.
LEMMA TouchAllUploads ==
    ASSUME IsLru(lru), NEW inos, Len(inos) \in Nat
    PROVE  Elems(TouchAll(inos).rw) = Elems(lru.rw)
<1> DEFINE f == CHOOSE g : TouchesTo(lru, inos, Len(inos), g)
<1>1. TouchesTo(lru, inos, Len(inos), f)
  BY TouchesExists
<1>2. TouchAll(inos) = f[Len(inos)]
  BY Zenon DEF TouchAll, TouchesTo, TouchClean
<1> HIDE DEF f
<1>3. /\ f[0] = lru
      /\ \A m \in 1..Len(inos) : f[m] = TouchClean(f[m - 1], inos[m])
  BY <1>1, TouchesAt
<1> DEFINE G == {m \in Nat : m <= Len(inos) => IsLru(f[m]) /\ Elems(f[m].rw) = Elems(lru.rw)}
<1>4. 0 \in G
  BY <1>3
<1>5. ASSUME NEW m \in Nat, m \in G PROVE m + 1 \in G
  <2>1. SUFFICES ASSUME m + 1 <= Len(inos)
                 PROVE  IsLru(f[m + 1]) /\ Elems(f[m + 1].rw) = Elems(lru.rw)
    OBVIOUS
  <2>2. IsLru(f[m]) /\ Elems(f[m].rw) = Elems(lru.rw) /\ m + 1 \in 1..Len(inos) /\ (m + 1) - 1 = m
    BY <1>5, <2>1
  <2>3. f[m + 1] = TouchClean(f[m], inos[m + 1])
    BY <1>3, <2>2
  <2>4. PICK l, x : l = f[m] /\ x = inos[m + 1]
    OBVIOUS
  <2>5. IsLru(l) /\ Elems(l.rw) = Elems(lru.rw) /\ f[m + 1] = touchIno(l, x, FALSE)
    BY <2>2, <2>3, <2>4 DEF TouchClean
  <2>6. IsLru(touchIno(l, x, FALSE)) /\ Elems(touchIno(l, x, FALSE).rw) = Elems(l.rw)
    BY <2>5, TouchKeeps, TouchElems
  <2> QED BY <2>5, <2>6
<1>6. Len(inos) \in G
  <2> HIDE DEF G
  <2> QED BY <1>4, <1>5, Induction
<1> QED BY <1>2, <1>6

\* The nodes that Readdir catalogues see the objects.
LEMMA readdirNodeContent ==
    ASSUME Serial, SerialInv, SerialInv', ContentInv, ~IsNode(NoNode),
           NEW c \in Client, ClientStep(c), readdirNode(c)
    PROVE  ContentInv'
<1>1. req[c].pc = "cs" /\ req[c].op = "readdir"
  BY DEF readdirNode, InSection
<1>2. PICK i \in Ino, p \in Path : At(c, i, p)
  BY <1>1, SectionFacts DEF At
<1>3. req[c].op \notin PathOps
  BY <1>1 DEF PathOps
<1>4. CASE /\ Leave(c)
           /\ UNCHANGED <<storage, expect, db, file, open, lru, nextIno, nextVer, negpres, fh, name>>
  <2>1. Exits(c, open[i])
    BY <1>1, <1>2, <1>4 DEF Exits, At
  <2> QED BY <1>2, <1>4, <2>1, QuietSectionContent
<1>5. CASE \E N, inos :
                /\ ~open[i].deleted /\ NewNodes(N, p, nextIno') /\ db' = PutAll(db, N)
                /\ lru' = TouchAll(inos) /\ Len(inos) \in Nat
                /\ \A m \in 1..Len(inos) : inos[m] \in Ino
                /\ \A e \in N : \E m \in 1..Len(inos) : inos[m] = e[2].ino
                /\ nextIno' \in 1..MaxIno + 1 /\ nextIno <= nextIno'
                /\ negpres' = negpres \ {p} /\ Leave(c)
                /\ UNCHANGED <<storage, expect, file, open, nextVer, fh, name>>
  <2>1. PICK N, inos :
                /\ ~open[i].deleted /\ NewNodes(N, p, nextIno') /\ db' = PutAll(db, N)
                /\ lru' = TouchAll(inos) /\ Len(inos) \in Nat
                /\ \A m \in 1..Len(inos) : inos[m] \in Ino
                /\ \A e \in N : \E m \in 1..Len(inos) : inos[m] = e[2].ino
                /\ nextIno' \in 1..MaxIno + 1 /\ nextIno <= nextIno'
                /\ negpres' = negpres \ {p} /\ Leave(c)
                /\ UNCHANGED <<storage, expect, file, open, nextVer, fh, name>>
    BY <1>5
  <2>2. /\ open[i] # NoNode /\ req[c].ino = i /\ open[i].path = p
        /\ open = [j \in Ino |-> open[j]] /\ nextIno' \in Nat /\ nextIno \in Nat
        /\ Ino \subseteq Nat /\ nextVer \in Nat \ {0}
    <3>1. open[i] # NoNode /\ req[c].ino = i /\ open[i].path = p
      BY <1>2, SectionFacts DEF At
    <3>2. open = [j \in Ino |-> open[j]] /\ nextVer \in Nat \ {0}
      BY ContentTypes
    <3>3. nextIno' \in Nat /\ nextIno \in Nat /\ Ino \subseteq Nat
      <4>1. MaxIno \in Nat /\ Ino = 1..MaxIno /\ nextIno \in 1..MaxIno + 1
        BY CacheAssumption DEF SerialInv, Typed
      <4> QED BY <2>1, <4>1
    <3> QED BY <3>1, <3>2, <3>3
  <2>3. \A d \in Client : ~Hand(d) /\ ~Hand(d)'
    <3>1. PICK n : n = open[i]
      OBVIOUS
    <3>2. Exits(c, n)
      BY <1>1, <2>1, <2>2, <3>1 DEF Exits
    <3> QED BY <1>1, <3>2, ExitsAre DEF ClientStep, Hand
  <2>4. \A j \in Ino : \A k : Bears(j, k)' <=> Bears(j, k)
    BY <2>1, <2>3 DEF Bears
  <2>5. /\ \A e \in N : Get(db', e[1]) = e[2]
        /\ \A q \in Path : (\A e \in N : e[1] # q) => Get(db', q) = Get(db, q)
    BY <1>2, <1>3, <2>1, <2>2, <2>4, ListedData
  <2>6. ASSUME NEW e \in N
        PROVE  /\ e[1] \in Path /\ Get(db, e[1]) = NoNode
               /\ e[2].sig = storage[e[1]] /\ e[2].hash = 0
               /\ e[2].ino \in Ino /\ ~(e[2].ino < nextIno)
    <3>1. /\ e[1] \in Path /\ Get(db, e[1]) = NoNode
          /\ e[2].sig = storage[e[1]] /\ e[2].hash = 0
          /\ e[2].ino \in Ino /\ nextIno <= e[2].ino
      BY <2>1 DEF NewNodes, DbNode
    <3>2. PICK x \in Nat : x = e[2].ino
      BY <2>2, <3>1
    <3> QED BY <2>2, <3>1, <3>2
  <2>7. ASSUME NEW q \in Path
        PROVE  /\ PathContent(q)'
               /\ storage[q] # expect[q] => Get(db', q) = Get(db, q)
    <3>1. PathContent(q)
      BY DEF ContentInv, Content
    <3>2. CASE \A e \in N : e[1] # q
      <4>1. Get(db', q) = Get(db, q)
        BY <2>5, <3>2
      <4> QED BY <2>1, <3>1, <4>1 DEF PathContent
    <3>3. CASE \E e \in N : e[1] = q
      <4>1. PICK e \in N : e[1] = q
        BY <3>3
      <4>2. Get(db', q) = e[2] /\ storage[q] = expect[q] /\ e[2].hash = 0
        BY <2>5, <2>6, <3>1, <4>1 DEF PathContent
      <4>3. file[e[2].ino] = 0
        BY <2>6 DEF SerialInv, Fresh
      <4> QED BY <2>1, <2>2, <3>1, <4>2, <4>3 DEF PathContent, Sees
    <3> QED BY <3>2, <3>3
  <2>8. ASSUME NEW j \in Ino, NEW n, Bears(j, n), ~n.deleted
        PROVE  n.path \in Path /\ Get(db', n.path) = Get(db, n.path)
    <3>1. j < nextIno /\ n.path \in Path
      BY <2>8, OnePathEach, ContentTypes DEF SerialInv
    <3>2. NodeOK(j, n)'
      BY <2>4, <2>8 DEF SerialInv, DataInv
    <3>3. Get(db', n.path) = NoNode \/ Get(db', n.path).ino = j
      BY <2>8, <3>2 DEF NodeOK
    <3>4. CASE \E e \in N : e[1] = n.path
      <4>1. PICK e \in N : e[1] = n.path
        BY <3>4
      <4>2. Get(db', n.path) = e[2] /\ e[2].ino \in Ino /\ ~(e[2].ino < nextIno)
        BY <2>5, <2>6, <4>1
      <4>3. Get(db', n.path) # NoNode
        <5>1. e[2] # NoNode
          BY <2>1, AbsentAssumption DEF NewNodes, DbNode
        <5> QED BY <4>2, <5>1
      <4> QED BY <3>1, <3>3, <4>2, <4>3
    <3>5. CASE \A e \in N : e[1] # n.path
      BY <2>5, <3>1, <3>5
    <3> QED BY <3>1, <3>4, <3>5
  <2>9. ASSUME NEW j \in Ino, NEW n, Bears(j, n)' PROVE NodeContent(j, n)'
    <3> SUFFICES ASSUME ~n.deleted PROVE NodeContent(j, n)'
      BY DEF NodeContent
    <3>1. Bears(j, n) /\ NodeContent(j, n)
      BY <2>4, <2>9 DEF ContentInv, Content
    <3>2. Get(db', n.path) = Get(db, n.path)
      BY <2>8, <3>1
    <3> QED BY <2>1, <3>1, <3>2 DEF NodeContent, Lists
  <2>10. ASSUME NEW j \in Ino PROVE LinkedContent(j)'
    <3> SUFFICES ASSUME open[j] # NoNode, ~open[j].deleted, open[j].fd # "none"
                 PROVE  /\ open[j].sig = storage[open[j].path]
                        /\ Get(db', open[j].path).sig = storage[open[j].path]
      BY <2>1 DEF LinkedContent
    <3>1. LinkedContent(j) /\ Bears(j, open[j])
      BY DEF ContentInv, Content, Bears
    <3>2. Get(db', open[j].path) = Get(db, open[j].path)
      BY <2>8, <3>1
    <3> QED BY <3>1, <3>2 DEF LinkedContent
  <2>11. Content'
    BY <2>7, <2>9, <2>10 DEF Content
  <2>12. Elems(lru.rw)' = Elems(lru.rw)
    <3>1. Elems(TouchAll(inos).rw) = Elems(lru.rw)
      BY <2>1, TouchAllUploads DEF SerialInv, ListInv
    <3> QED BY <2>1, <3>1
  <2>13. Waiting'
    <3>1. \A j : Pending(j) => Pending(j)'
      BY <2>12, ClientPending
    <3>2. \A q \in Path : storage'[q] # expect'[q] =>
              storage[q] # expect[q] /\ Get(db', q).ino = Get(db, q).ino
      BY <2>1, <2>7
    <3> QED BY <3>1, <3>2, WaitingKept DEF ContentInv, ClientStep
  <2> QED BY <2>11, <2>13 DEF ContentInv
<1> QED BY <1>2, <1>4, <1>5, ListedForm

-----------------------------------------------------------------------------
(* The background loop *)

\* What the storage does not have is in a cache file that the loop finds.
LEMMA UnsavedFile ==
    ASSUME SerialInv, Content, NEW p \in Path, storage[p] # expect[p]
    PROVE  \E i \in Ino :
             /\ Lists(i, p) /\ Get(db, p).ino = i /\ GetWithIno(db, i) = Get(db, p)
             /\ file[i] # 0 /\ file[i] = expect[p] /\ Get(db, p).hash # expect[p]
<1>1. PathContent(p)
  BY DEF Content
<1>2. Get(db, p) # NoNode
  BY <1>1 DEF PathContent
<1>3. PICK i \in Ino : i = Get(db, p).ino
  BY <1>2, ContentTypes
<1>4. Lists(i, p)
  BY <1>2, <1>3 DEF Lists
<1>5. GetWithIno(db, i) = Get(db, p)
  BY <1>4, GetByIno, ContentTypes
<1> QED BY <1>1, <1>2, <1>3, <1>4, <1>5 DEF PathContent, Sees

\* Steps of the loop that change no data.
LEMMA LoopStepsContent ==
    ASSUME SerialInv, SerialInv', ContentInv,
           tick \/ takeUpload \/ endUpload \/ skipUpload \/ takeEvict
    PROVE  ContentInv'
<1>1. /\ Phases /\ IsLru(lru)
  BY DEF SerialInv, ListInv
<1>2. UNCHANGED <<storage, db, file, open, req, nextVer, expect, mode>>
  BY DEF tick, takeUpload, endUpload, skipUpload, takeEvict, persistent, pres, user
<1>3. Content'
  BY <1>2, StillContent DEF ContentInv, Hand
<1>4. ASSUME NEW p \in Path, mode # "down", storage[p] # expect[p]
      PROVE  Pending(Get(db, p).ino)'
  <2>1. PICK j \in Ino :
             /\ Lists(j, p) /\ Get(db, p).ino = j /\ GetWithIno(db, j) = Get(db, p)
             /\ file[j] # 0 /\ file[j] = expect[p] /\ Get(db, p).hash # expect[p]
    BY <1>4, UnsavedFile DEF ContentInv
  <2>2. Pending(j)
    BY <1>4, <2>1 DEF ContentInv, Waiting
  <2>3. Get(db', p).ino = j
    BY <1>2, <2>1
  <2>4. CASE tick
    <3>1. loop.pc = "idle" /\ lru' = lru
      BY <2>4 DEF tick
    <3> QED BY <2>2, <2>3, <3>1 DEF Pending
  <2>5. CASE endUpload
    <3>1. loop.pc = "upload" /\ lru' = lru
      BY <2>5 DEF endUpload
    <3> QED BY <2>2, <2>3, <3>1 DEF Pending
  <2>6. CASE takeUpload
    <3>1. loop.pc = "upload" /\ lru.rw # <<>> /\ lru' = popUpload(lru)
      BY <2>6 DEF takeUpload
    <3>2. PICK i : i = Head(lru.rw)
      OBVIOUS
    <3>3. LoopStep("upcs", i, FALSE)
      BY <2>6, <3>2 DEF takeUpload
    <3>4. loop'.ino = i /\ loop'.pc = "upcs"
      BY <1>1, <3>3, LoopAt
    <3>5. Elems(lru.rw) = Elems(lru.rw)' \cup {i}
      BY <1>1, <3>1, <3>2, PopElems
    <3>6. j \in Elems(lru.rw)
      BY <2>2, <3>1 DEF Pending
    <3> QED BY <2>3, <3>4, <3>5, <3>6 DEF Pending
  <2>7. CASE takeEvict
    <3>1. loop.pc = "evict" /\ lru.ro # <<>> /\ lru' = popEvict(lru)
      BY <2>7 DEF takeEvict
    <3>2. Elems(lru.rw)' = Elems(lru.rw)
      BY <1>1, <3>1, PopElems
    <3> QED BY <2>2, <2>3, <3>1, <3>2 DEF Pending
  <2>8. CASE skipUpload
    <3>1. loop.pc = "upcs" /\ lru' = lru /\ ~Uploads(LockedNode)
      BY <2>8 DEF skipUpload
    <3>2. CASE loop.ino = j
      <4>1. LockedNode # NoNode
        BY <2>1, <3>2 DEF LockedNode, Lists
      <4>2. j \in Elems(lru.rw)
        BY <2>1, <3>1, <3>2, <4>1 DEF Uploads
      <4> QED BY <2>3, <3>1, <4>2 DEF Pending
    <3>3. CASE loop.ino # j
      BY <2>2, <2>3, <3>1, <3>3 DEF Pending
    <3> QED BY <3>2, <3>3
  <2> QED BY <2>4, <2>5, <2>6, <2>7, <2>8
<1>5. Waiting'
  BY <1>2, <1>4 DEF Waiting
<1> QED BY <1>3, <1>5 DEF ContentInv

\* An upload that fails is tried again.
LEMMA failUploadContent ==
    ASSUME SerialInv, SerialInv', ContentInv, failUpload, "lost" \notin Faults
    PROVE  ContentInv'
<1>1. /\ UNCHANGED <<storage, db, file, open, lru, req, nextVer, expect, mode>>
      /\ loop.pc = "upcs" /\ LoopStep("uptouch", loop.ino, TRUE)
  BY DEF failUpload, Uploads, user
<1>2. Content'
  BY <1>1, StillContent DEF ContentInv, Hand
<1>3. Phases
  BY DEF SerialInv
<1>4. loop'.pc = "uptouch" /\ loop'.ino = loop.ino /\ loop'.err
  BY <1>1, <1>3, LoopAt
<1>5. Waiting'
  BY <1>1, <1>4, WaitingKept DEF ContentInv, Pending
<1> QED BY <1>2, <1>5 DEF ContentInv

\* The process ends: what is to be uploaded is found again by OpenCache.
LEMMA ShutdownContent ==
    ASSUME SerialInv, SerialInv', ContentInv, Shutdown,
           UNCHANGED <<db, file, nextVer, expect>>,
           \A p \in Path : storage'[p] = storage[p] \/ storage'[p] = expect[p]
    PROVE  ContentInv'
<1>1. mode' = "down" /\ req' = [c \in Client |-> Idle] /\ open' = [i \in Ino |-> NoNode]
  BY DEF Shutdown
<1>2. \A i \in Ino : open'[i] = NoNode /\ \A n : ~Bears(i, n)'
  BY <1>1, IdleRequest DEF Bears, Hand
<1>3. ASSUME NEW p \in Path PROVE PathContent(p)'
  <2>1. PathContent(p)
    BY DEF ContentInv, Content
  <2> QED BY <2>1 DEF PathContent, Sees
<1>4. Content'
  BY <1>2, <1>3 DEF Content, LinkedContent
<1>5. Waiting'
  BY <1>1 DEF Waiting
<1> QED BY <1>4, <1>5 DEF ContentInv

\* The end of an upload and of resetCache.
LEMMA EndsContent ==
    ASSUME SerialInv, SerialInv', ContentInv, touchUploaded \/ endEvict
    PROVE  ContentInv'
<1>1. /\ Phases /\ IsLru(lru) /\ UNCHANGED <<storage, db, file, nextVer, expect>>
  BY DEF SerialInv, ListInv, touchUploaded, endEvict, persistent
<1>2. CASE Shutdown
  BY <1>1, <1>2, ShutdownContent
<1>3. mode # "down"
  BY <1>1 DEF Phases, touchUploaded, endEvict
<1>4. CASE endEvict /\ EndReset /\ UNCHANGED lru
  <2>1. UNCHANGED <<open, req>> /\ loop.pc = "evict"
    BY <1>4 DEF endEvict, EndReset
  <2>2. Content'
    BY <1>1, <2>1, StillContent DEF ContentInv, Hand
  <2>3. \A i : Pending(i) => Pending(i)'
    BY <1>4, <2>1 DEF Pending
  <2>4. Waiting'
    BY <1>1, <1>3, <2>3, WaitingKept DEF ContentInv
  <2> QED BY <2>2, <2>4 DEF ContentInv
<1>5. CASE /\ touchUploaded /\ lru' = TouchBack
           /\ \/ ~loop.err /\ UNCHANGED <<open, req>>
              \/ loop.err /\ EndReset
  <2>1. loop.pc = "uptouch" /\ UNCHANGED <<open, req>>
    BY <1>5 DEF touchUploaded, EndReset
  <2>2. Content'
    BY <1>1, <2>1, StillContent DEF ContentInv, Hand
  <2>3. ASSUME NEW i, Pending(i) PROVE i \in Elems(lru.rw)'
    <3>1. CASE loop.err
      <4>1. lru' = touchIno(lru, loop.ino, TRUE)
        BY <1>5, <3>1 DEF TouchBack, touchIno
      <4>2. Elems(lru.rw)' = Elems(lru.rw) \cup {loop.ino}
        BY <1>1, <4>1, TouchElems
      <4> QED BY <2>1, <2>3, <4>2 DEF Pending
    <3>2. CASE ~loop.err
      <4>1. lru' = touchIno(lru, loop.ino, FALSE)
        BY <1>5, <3>2 DEF TouchBack, touchIno
      <4>2. Elems(lru.rw)' = Elems(lru.rw)
        BY <1>1, <4>1, TouchElems
      <4> QED BY <2>1, <2>3, <3>2, <4>2 DEF Pending
    <3> QED BY <3>1, <3>2
  <2>4. Waiting'
    BY <1>1, <1>3, <2>3, WaitingKept DEF ContentInv, Pending
  <2> QED BY <2>2, <2>4 DEF ContentInv
<1>6. CASE touchUploaded
  <2>1. \/ Shutdown
        \/ /\ lru' = TouchBack
           /\ \/ ~loop.err /\ UNCHANGED <<open, req>>
              \/ loop.err /\ EndReset
    BY <1>6 DEF touchUploaded, EndClose
  <2> QED BY <1>2, <1>5, <1>6, <2>1
<1>7. CASE endEvict
  <2>1. Shutdown \/ (EndReset /\ UNCHANGED lru)
    BY <1>7 DEF endEvict, EndClose
  <2> QED BY <1>2, <1>4, <1>7, <2>1
<1> QED BY <1>6, <1>7

\* A crash after Create or Mkdir has made its object: it is what users see.
LEMMA crashInMakeContent ==
    ASSUME SerialInv, SerialInv', ContentInv, NEW c \in Client, crashInMake(c)
    PROVE  ContentInv'
<1>1. req[c].pc = "cs" /\ req[c].op \in {"create", "mkdir"}
  BY DEF crashInMake, InSection
<1>2. PICK i \in Ino, p \in Path : At(c, i, p)
  BY <1>1, SectionFacts DEF At
<1>3. req[c].ino = i /\ open[i].path = p /\ req[c].path = p /\ NodeOK(i, open[i])
  BY <1>1, <1>2, SectionFacts DEF At, PathOps
<1>4. PICK v : v = IF req[c].op = "mkdir" THEN Dir ELSE nextVer
  OBVIOUS
<1>5. /\ ~open[i].deleted /\ ~open[i].valid /\ Shutdown /\ UNCHANGED <<db, file>>
      /\ storage' = [storage EXCEPT ![p] = v] /\ expect' = [expect EXCEPT ![p] = v]
      /\ nextVer' = IF v = Dir THEN nextVer ELSE nextVer + 1
  BY <1>3, <1>4 DEF crashInMake
<1>6. Get(db, p) = NoNode
  BY <1>3, <1>5 DEF NodeOK, Lists
<1>7. /\ nextVer \in Nat /\ nextVer' \in Nat /\ nextVer <= nextVer'
      /\ \A q \in Path : Get(db, q) # NoNode => Get(db, q).hash \in Nat
      /\ storage = [q \in Path |-> storage[q]] /\ expect = [q \in Path |-> expect[q]]
  BY <1>5, ContentTypes
<1>8. v \in Written(nextVer')
  <2>1. v = Dir \/ (v = nextVer /\ v # Dir)
    BY <1>1, <1>4
  <2> QED BY <1>5, <1>7, <2>1 DEF Written
<1>9. ASSUME NEW q \in Path PROVE PathContent(q)'
  <2>1. CASE q = p
    <3>1. storage'[q] = v /\ expect'[q] = v /\ Get(db', q) = NoNode
      BY <1>5, <1>6, <1>7, <2>1
    <3> QED BY <1>8, <3>1 DEF PathContent
  <2>2. CASE q # p
    <3>1. storage'[q] = storage[q] /\ expect'[q] = expect[q]
      BY <1>5, <1>7, <2>2
    <3>2. PathContent(q) /\ Written(nextVer) \subseteq Written(nextVer')
      BY <1>7, WrittenGrows DEF ContentInv, Content
    <3>3. Get(db, q) # NoNode => Sees(Get(db, q), storage[q], expect[q], nextVer')
      BY <1>7, <3>2, WrittenGrows DEF PathContent
    <3> QED BY <1>5, <3>1, <3>2, <3>3 DEF PathContent
  <2> QED BY <2>1, <2>2
<1>10. mode' = "down" /\ req' = [d \in Client |-> Idle] /\ open' = [j \in Ino |-> NoNode]
  BY <1>5 DEF Shutdown
<1>11. \A j \in Ino : open'[j] = NoNode /\ \A n : ~Bears(j, n)'
  BY <1>10, IdleRequest DEF Bears, Hand
<1>12. Content'
  BY <1>9, <1>11 DEF Content, LinkedContent
<1>13. Waiting'
  BY <1>10 DEF Waiting
<1> QED BY <1>12, <1>13 DEF ContentInv

\* The other crashes that Careful allows, and the file system is unmounted.
LEMMA StopsContent ==
    ASSUME SerialInv, SerialInv', ContentInv, unmount \/ CloseCache \/ crash \/ crashInUpload
    PROVE  ContentInv'
<1>1. CASE unmount \/ CloseCache
  <2>1. /\ UNCHANGED <<storage, db, file, open, lru, req, nextVer, expect>>
        /\ mode # "down" /\ \A i \in Ino : Pending(i) => Pending(i)'
    BY <1>1 DEF unmount, CloseCache, persistent, pres, user, Pending
  <2>2. Content'
    BY <2>1, StillContent DEF ContentInv, Hand
  <2>3. ASSUME NEW p \in Path, storage[p] # expect[p] PROVE Pending(Get(db, p).ino)'
    <3>1. Get(db, p).ino \in Ino
      BY <2>3, UnsavedFile DEF ContentInv
    <3>2. Pending(Get(db, p).ino)
      BY <2>1, <2>3 DEF ContentInv, Waiting
    <3>3. Get(db', p).ino = Get(db, p).ino
      BY <2>1
    <3> QED BY <2>1, <3>1, <3>2, <3>3
  <2>4. Waiting'
    BY <2>1, <2>3 DEF Waiting
  <2> QED BY <2>2, <2>4 DEF ContentInv
<1>2. CASE crash
  <2>1. Shutdown /\ UNCHANGED <<storage, db, file, nextVer, expect>>
    BY <1>2 DEF crash, persistent
  <2> QED BY <2>1, ShutdownContent
<1>3. CASE crashInUpload
  <2>1. Uploads(LockedNode)
    BY <1>3 DEF crashInUpload
  <2>2. PICK i \in Ino, p \in Path :
             /\ i = loop.ino /\ loop.pc = "upcs" /\ mode # "down"
             /\ LockedNode = Get(db, p) /\ LockedNode.path = p /\ Lists(i, p) /\ Owns(i, p)
             /\ file[i] \in 1..Torn /\ storage[p] \notin {0, Dir}
    BY <2>1, UploadsAt
  <2>3. /\ Shutdown /\ UNCHANGED <<db, file, nextVer, expect>>
        /\ storage' = [storage EXCEPT ![p] = file[i]]
    BY <1>3, <2>2 DEF crashInUpload
  <2>4. file[i] = expect[p]
    <3>1. PathContent(p)
      BY DEF ContentInv, Content
    <3>2. file[i] # 0
      BY <2>2, CacheAssumption DEF Torn
    <3> QED BY <2>2, <3>1, <3>2 DEF PathContent, Lists
  <2>5. \A q \in Path : storage'[q] = storage[q] \/ storage'[q] = expect[q]
    BY <2>3, <2>4, ContentTypes
  <2> QED BY <2>3, <2>5, ShutdownContent
<1> QED BY <1>1, <1>2, <1>3

\* An upload stores what users see.
LEMMA uploadContent ==
    ASSUME SerialInv, SerialInv', ContentInv, upload
    PROVE  ContentInv'
<1>1. Uploads(LockedNode)
  BY DEF upload
<1>2. PICK i \in Ino, p \in Path :
             /\ i = loop.ino /\ loop.pc = "upcs" /\ mode # "down"
             /\ LockedNode = Get(db, p) /\ LockedNode.path = p /\ Lists(i, p) /\ Owns(i, p)
             /\ file[i] \in 1..Torn /\ storage[p] \notin {0, Dir}
  BY <1>1, UploadsAt
<1>3. PICK v \in 1..Torn : v = file[i]
  BY <1>2
<1>4. PICK n : n = Get(db, p)
  OBVIOUS
<1>5. PICK t : t = [n EXCEPT !.sig = v, !.hash = v]
  OBVIOUS
<1>6. /\ UNCHANGED <<file, lru, req, nextVer, expect, mode>>
      /\ storage' = [storage EXCEPT ![p] = v] /\ db' = PutNode(db, t, p)
      /\ open' = IF open[i] = NoNode THEN open
                 ELSE [open EXCEPT ![i] = [CopyStat(open[i], v) EXCEPT !.hash = v]]
  BY <1>2, <1>3, <1>4, <1>5 DEF upload, pres, user
<1>7. CatalogTyped(db) /\ db \in Db /\ OpenTyped
  BY DEF SerialInv, ListInv, HandleInv, Typed
<1>8. /\ v \notin {0, Dir} /\ v \in Sig
      /\ storage'[p] = v /\ (\A q \in Path \ {p} : storage'[q] = storage[q])
  BY <1>2, <1>3, <1>6, StoreVersion
<1>9. expect[p] = v /\ v \in Written(nextVer) /\ v < nextVer
  <2>1. PathContent(p)
    BY DEF ContentInv, Content
  <2>2. expect[p] = v /\ v \in Written(nextVer)
    BY <1>2, <1>3, <1>8, <2>1 DEF PathContent, Lists
  <2> QED BY <1>8, <2>2 DEF Written
<1>10. t # NoNode /\ t.ino = i /\ t.sig = v /\ t.hash = v
  <2>1. n \in DbNode /\ n.ino = i
    BY <1>2, <1>4, <1>7 DEF Lists, Db, Get
  <2>2. t \in DbNode /\ t.ino = n.ino /\ t.sig = v /\ t.hash = v
    BY <1>5, <1>8, <2>1, Versioned
  <2> QED BY <2>1, <2>2, AbsentAssumption DEF DbNode
<1>11. Get(db', p) = t /\ \A q \in Path \ {p} : Get(db', q) = Get(db, q)
  BY <1>6, <1>7, PutAt
<1>12. /\ \A j \in Ino \ {i} : open'[j] = open[j]
       /\ open[i] = NoNode => open'[i] = NoNode
  BY <1>6, <1>7 DEF OpenTyped
<1>13. ASSUME open[i] # NoNode
       PROVE  open'[i].path = p /\ open'[i].sig = v /\ open'[i].hash = v
  <2>1. PICK k : k = open[i] /\ IsNode(k)
    BY <1>7, <1>13 DEF OpenTyped
  <2>2. Bears(i, k)
    BY <1>13, <2>1 DEF Bears
  <2>3. k.path = p
    BY <1>2, <2>2 DEF Owns
  <2>4. PICK m : m = [CopyStat(k, v) EXCEPT !.hash = v]
    OBVIOUS
  <2>5. Fields(m, k.ino, k.path, v, v, TRUE, k.deleted, k.fd, k.ref)
    BY <2>1, <2>4, UploadedFields
  <2>6. open'[i] = m
    BY <1>6, <1>7, <1>13, <2>1, <2>4 DEF OpenTyped
  <2> QED BY <2>3, <2>5, <2>6 DEF Fields
<1>14. \A j \in Ino : \A k : Bears(j, k)' => Bears(j, k) \/ (j = i /\ open[i] # NoNode /\ k = open'[i])
  BY <1>6, <1>12 DEF Bears, Hand
<1>15. PathContent(p)'
  BY <1>2, <1>3, <1>6, <1>8, <1>9, <1>10, <1>11 DEF PathContent, Sees
<1>16. LinkedContent(i)'
  <2>1. CASE open[i] = NoNode
    BY <1>12, <2>1 DEF LinkedContent
  <2>2. CASE open[i] # NoNode
    BY <1>8, <1>10, <1>11, <1>13, <2>2 DEF LinkedContent
  <2> QED BY <2>1, <2>2
<1>17. ASSUME NEW k, Bears(i, k)' PROVE NodeContent(i, k)'
  <2> SUFFICES ASSUME ~k.deleted PROVE NodeContent(i, k)'
    BY DEF NodeContent
  <2>1. k.path = p /\ k.hash < nextVer
    <3>1. CASE Bears(i, k)
      BY <1>2, <3>1 DEF ContentInv, Content, NodeContent, Sees, Owns
    <3>2. CASE open[i] # NoNode /\ k = open'[i]
      BY <1>9, <1>13, <3>2
    <3> QED BY <1>14, <1>17, <3>1, <3>2
  <2> QED BY <1>6, <1>8, <1>9, <1>10, <1>11, <2>1 DEF NodeContent, Sees
<1>18. Content'
  <2>1. \A q \in Path \ {p} :
            /\ storage'[q] = storage[q] /\ expect'[q] = expect[q]
            /\ Get(db', q) = Get(db, q)
    BY <1>6, <1>8, <1>11
  <2>2. \A j \in Ino \ {i} : file'[j] = file[j] /\ open'[j] = open[j]
    BY <1>6, <1>12
  <2>3. \A j \in Ino \ {i} : \A k : Bears(j, k)' => Bears(j, k)
    BY <1>14
  <2>4. nextVer <= nextVer'
    BY <1>6, ContentTypes
  <2> QED BY <1>2, <1>15, <1>16, <1>17, <2>1, <2>2, <2>3, <2>4, LocalContent DEF ContentInv
<1>19. ASSUME NEW q \in Path, storage'[q] # expect'[q] PROVE Pending(Get(db, q).ino)'
  <2>1. q # p /\ storage[q] # expect[q] /\ Get(db', q) = Get(db, q)
    BY <1>6, <1>8, <1>9, <1>11, <1>19
  <2>2. PICK j \in Ino :
             /\ Lists(j, q) /\ Get(db, q).ino = j /\ GetWithIno(db, j) = Get(db, q)
             /\ file[j] # 0 /\ file[j] = expect[q] /\ Get(db, q).hash # expect[q]
    BY <2>1, UnsavedFile DEF ContentInv
  <2>3. j # i /\ Pending(j)
    BY <1>2, <2>1, <2>2 DEF Owns, ContentInv, Waiting
  <2>4. j \in Elems(lru.rw)'
    BY <1>2, <1>6, <2>3 DEF Pending
  <2> QED BY <2>1, <2>2, <2>4 DEF Pending
<1>20. Waiting'
  BY <1>19 DEF Waiting
<1> QED BY <1>18, <1>20 DEF ContentInv

\* evictOne drops a node only if the storage has its content.
LEMMA evictContent ==
    ASSUME SerialInv, SerialInv', ContentInv, evict
    PROVE  ContentInv'
<1>1. /\ loop.pc = "evcs" /\ UNCHANGED <<storage, lru, req, nextVer, expect, mode>>
  BY DEF evict, pres, user
<1>2. PICK i \in Ino : i = loop.ino
  BY <1>1 DEF SerialInv, Phases
<1>3. /\ Phases /\ Consistent(db) /\ CatalogTyped(db) /\ OpenTyped
      /\ mode # "down" /\ file \in [Ino -> 0..Torn]
  BY <1>1 DEF SerialInv, ListInv, HandleInv, DataInv, Typed, Phases
<1>4. \A j : Pending(j) <=> j \in Elems(lru.rw)
  BY <1>1 DEF Pending
<1>5. \A j : Pending(j) => Pending(j)'
  BY <1>1, <1>4 DEF Pending
<1>6. nextVer <= nextVer'
  BY <1>1, ContentTypes
<1>7. CASE LockedNode = NoNode /\ RemoveFile(i) /\ UNCHANGED db
  <2>1. \A q \in Path : ~Lists(i, q)
    <3>1. GetWithIno(db, i) = NoNode
      BY <1>2, <1>7 DEF LockedNode
    <3> QED BY <1>3, <3>1, GetByIno DEF Lists
  <2>2. \A j \in Ino : file'[j] = file[j] \/ \A q \in Path : ~Lists(j, q)
    BY <1>3, <1>7, <2>1 DEF RemoveFile
  <2>3. CASE open[i] # NoNode /\ open[i].fd = "linked"
    <3>1. PICK n : n = open[i] /\ IsNode(n)
      BY <1>3, <2>3 DEF OpenTyped
    <3>2. Bears(i, n) /\ LinkedOK(i)
      BY <2>3, <3>1 DEF Bears, SerialInv, DataInv
    <3>3. n.deleted
      BY <2>1, <2>3, <3>1, <3>2, ContentTypes DEF LinkedOK
    <3>4. PICK m : m = [n EXCEPT !.fd = "orphan"]
      OBVIOUS
    <3>5. Fields(m, n.ino, n.path, n.sig, n.hash, n.valid, n.deleted, "orphan", n.ref)
      BY <3>1, <3>4, SetFd
    <3>6. open' = [open EXCEPT ![i] = m]
      BY <1>7, <2>3, <3>1, <3>4 DEF RemoveFile
    <3>7. open'[i] = m /\ \A j \in Ino \ {i} : open'[j] = open[j]
      BY <1>3, <3>6 DEF OpenTyped
    <3>8. ASSUME NEW j \in Ino, NEW k, Bears(j, k)' PROVE NodeContent(j, k)
      <4>1. Bears(j, k) \/ k = m
        BY <1>1, <3>7, <3>8 DEF Bears, Hand
      <4>2. CASE Bears(j, k)
        BY <4>2 DEF ContentInv, Content
      <4>3. CASE k = m
        BY <3>3, <3>5, <4>3 DEF Fields, NodeContent
      <4> QED BY <4>1, <4>2, <4>3
    <3>9. \A j \in Ino : open'[j] # NoNode =>
              open'[j].deleted \/ (open[j] # NoNode /\ Alike(open'[j], open[j]))
      BY <3>3, <3>5, <3>7 DEF Fields, Alike
    <3>10. Content'
      BY <1>1, <1>6, <1>7, <2>2, <3>8, <3>9, QuietContent DEF ContentInv
    <3>11. Waiting'
      BY <1>1, <1>5, <1>7, WaitingKept DEF ContentInv
    <3> QED BY <3>10, <3>11 DEF ContentInv
  <2>4. CASE ~(open[i] # NoNode /\ open[i].fd = "linked")
    <3>1. open' = open
      BY <1>7, <2>4 DEF RemoveFile
    <3>2. ASSUME NEW j \in Ino, NEW k, Bears(j, k)' PROVE NodeContent(j, k)
      <4>1. Bears(j, k)
        BY <1>1, <3>1, <3>2 DEF Bears, Hand
      <4> QED BY <4>1 DEF ContentInv, Content
    <3>3. \A j \in Ino : open'[j] # NoNode => open[j] # NoNode /\ Alike(open'[j], open[j])
      BY <3>1 DEF Alike
    <3>4. Content'
      BY <1>1, <1>6, <1>7, <2>2, <3>2, <3>3, QuietContent DEF ContentInv
    <3>5. Waiting'
      BY <1>1, <1>5, <1>7, WaitingKept DEF ContentInv
    <3> QED BY <3>4, <3>5 DEF ContentInv
  <2> QED BY <2>3, <2>4
<1>8. CASE UNCHANGED <<db, file, open>>
  <2>1. Content'
    BY <1>1, <1>8, StillContent DEF ContentInv, Hand
  <2>2. Waiting'
    BY <1>1, <1>5, <1>8, WaitingKept DEF ContentInv
  <2> QED BY <2>1, <2>2 DEF ContentInv
<1>9. CASE /\ LockedNode # NoNode /\ ~InUse(i) /\ RemoveFile(i)
           /\ db' = DeleteNode(db, LockedNode.path)
  <2>1. PICK p \in Path : Lists(i, p) /\ LockedNode = Get(db, p)
    BY <1>2, <1>3, <1>9, GetByIno DEF LockedNode
  <2>2. LockedNode.path = p /\ Owns(i, p) /\ open[i] = NoNode /\ open' = open
    BY <1>9, <2>1, OnePathEach, ListedOwns DEF SerialInv, InUse, RemoveFile
  <2>3. Get(db', p) = NoNode /\ \A q \in Path \ {p} : Get(db', q) = Get(db, q)
    BY <1>3, <1>9, <2>2, DeleteAt
  <2>4. \A j \in Ino \ {i} : file'[j] = file[j] /\ open'[j] = open[j]
    BY <1>3, <1>9, <2>2 DEF RemoveFile
  <2>5. \A j, k : Bears(j, k)' <=> Bears(j, k)
    BY <1>1, <2>2 DEF Bears, Hand
  <2>6. storage[p] = expect[p]
    <3>1. ~Pending(i)
      BY <1>4, <1>9 DEF InUse
    <3> QED BY <1>3, <2>1, <3>1 DEF ContentInv, Waiting, Lists
  <2>7. PathContent(p)'
    <3>1. PathContent(p)
      BY DEF ContentInv, Content
    <3> QED BY <1>1, <2>3, <2>6, <3>1 DEF PathContent
  <2>8. LinkedContent(i)'
    BY <2>2 DEF LinkedContent
  <2>9. ASSUME NEW k, Bears(i, k)' PROVE NodeContent(i, k)'
    <3>1. NodeContent(i, k) /\ k.path = p
      BY <2>2, <2>5, <2>9 DEF ContentInv, Content, Owns
    <3> QED BY <1>1, <2>3, <3>1 DEF NodeContent, Lists
  <2>10. Content'
    <3>1. \A q \in Path \ {p} :
            /\ storage'[q] = storage[q] /\ expect'[q] = expect[q]
            /\ Get(db', q) = Get(db, q)
      BY <1>1, <2>3
    <3>2. \A j \in Ino \ {i} : \A k : Bears(j, k)' => Bears(j, k)
      BY <2>5
    <3> QED BY <1>6, <2>2, <2>4, <2>7, <2>8, <2>9, <3>1, <3>2, LocalContent DEF ContentInv
  <2>11. Waiting'
    <3>1. \A q \in Path : storage'[q] # expect'[q] =>
              storage[q] # expect[q] /\ Get(db', q).ino = Get(db, q).ino
      BY <1>1, <2>3, <2>6
    <3> QED BY <1>1, <1>5, <3>1, WaitingKept DEF ContentInv
  <2> QED BY <2>10, <2>11 DEF ContentInv
<1>10. \/ LockedNode = NoNode /\ RemoveFile(i) /\ UNCHANGED db
       \/ UNCHANGED <<db, file, open>>
       \/ LockedNode # NoNode /\ ~InUse(i) /\ RemoveFile(i) /\ db' = DeleteNode(db, LockedNode.path)
  BY <1>2 DEF evict
<1> QED BY <1>7, <1>8, <1>9, <1>10

-----------------------------------------------------------------------------
(* OpenCache *)

\* OpenCache lists the modified files for upload.
LEMMA OpenCacheUploads ==
    ASSUME SerialInv, NEW m, OpenCache(m), NEW p \in Path, Get(db, p) # NoNode,
           Dirty(Get(db, p), [i \in Ino |-> IF GetWithIno(db, i) = NoNode THEN 0 ELSE file[i]])
    PROVE  Get(db, p).ino \in Elems(lru.rw)'
<1> DEFINE kept == [i \in Ino |-> IF GetWithIno(db, i) = NoNode THEN 0 ELSE file[i]]
           T == {k \in Path : Get(db, k) # NoNode /\ Dirty(Get(db, k), kept) = TRUE}
           s == Sift(KeyOrder, T)
           t == [j \in DOMAIN s |-> Get(db, s[j]).ino]
<1>1. lru'.rw = t
  BY DEF OpenCache
<1>2. p \in T
  <2>1. Dirty(Get(db, p), kept) \in BOOLEAN
    BY DEF Dirty
  <2> HIDE DEF kept
  <2> QED BY <2>1 DEF kept
<1>3. Elems(s) = Path \cap T
  <2> HIDE DEF T
  <2> QED BY CacheAssumption, SiftProps
<1> HIDE DEF T, s
<1>4. PICK j \in DOMAIN s : s[j] = p
  BY <1>2, <1>3 DEF Elems
<1>5. t[j] = Get(db, p).ino /\ j \in DOMAIN t
  BY <1>4
<1> HIDE DEF t
<1> QED BY <1>1, <1>5 DEF Elems

\* OpenCache keeps what is to be uploaded.
LEMMA OpenCacheContent ==
    ASSUME SerialInv, SerialInv', ContentInv, NEW m \in {"start", "reset"}, OpenCache(m)
    PROVE  ContentInv'
<1>1. /\ mode = "down" /\ mode' = m
      /\ file' = [i \in Ino |-> IF GetWithIno(db, i) = NoNode THEN 0 ELSE file[i]]
      /\ UNCHANGED <<storage, db, open, req, nextVer, expect>>
  BY DEF OpenCache, pres, user
<1>2. \A i \in Ino : open[i] = NoNode
  BY <1>1 DEF SerialInv, Phases
<1>3. \A i \in Ino : \A n : ~Bears(i, n)'
  BY <1>1, <1>2 DEF SerialInv, Alone, Bears, Hand
<1>4. \A i \in Ino : file'[i] = file[i] \/ \A p \in Path : ~Lists(i, p)
  <2> SUFFICES ASSUME NEW i \in Ino, NEW p \in Path, Lists(i, p) PROVE file'[i] = file[i]
    OBVIOUS
  <2>1. GetWithIno(db, i) = Get(db, p)
    BY GetByIno, ContentTypes
  <2> QED BY <1>1, <2>1 DEF Lists
<1>5. nextVer <= nextVer' /\ \A i \in Ino : open'[i] = NoNode
  BY <1>1, <1>2, ContentTypes
<1>6. Content'
  BY <1>1, <1>3, <1>4, <1>5, QuietContent DEF ContentInv
<1>7. ASSUME NEW p \in Path, storage[p] # expect[p] PROVE Pending(Get(db, p).ino)'
  <2>1. PICK i \in Ino :
             /\ Lists(i, p) /\ Get(db, p).ino = i /\ GetWithIno(db, i) = Get(db, p)
             /\ file[i] # 0 /\ file[i] = expect[p] /\ Get(db, p).hash # expect[p]
    BY <1>7, UnsavedFile DEF ContentInv
  <2>2. file'[i] = file[i] /\ Get(db, p) # NoNode
    BY <1>1, <2>1 DEF Lists
  <2>3. Dirty(Get(db, p), file')
    BY <2>1, <2>2 DEF Dirty
  <2>4. Get(db, p).ino \in Elems(lru.rw)'
    BY <1>1, <2>2, <2>3, OpenCacheUploads
  <2>5. Get(db', p) = Get(db, p)
    BY <1>1
  <2> QED BY <2>4, <2>5 DEF Pending
<1>8. Waiting'
  BY <1>1, <1>7 DEF Waiting
<1> QED BY <1>6, <1>8 DEF ContentInv

-----------------------------------------------------------------------------
(* The theorems *)

\* A section leaves the request with its operation, or without one.
LEMMA MovesAsked ==
    ASSUME SerialInv, NEW c \in Client, NEW pc, Goto(c, pc) \/ Done(c)
    PROVE  req'[c].op = req[c].op \/ req'[c].op = "none"
<1>1. req = [d \in Client |-> req[d]] /\ (req[c].pc # "idle" => IsRequest(req[c]))
  BY DEF SerialInv, ListInv, HandleInv, RequestTyped
<1>2. CASE Done(c)
  BY <1>1, <1>2, IdleRequest DEF Done, Request
<1>3. CASE Goto(c, pc)
  <2>1. PICK r : r = req[c]
    OBVIOUS
  <2>2. req' = [req EXCEPT ![c] = [r EXCEPT !.pc = pc]]
    BY <1>3, <2>1 DEF Goto
  <2>3. req'[c] = [r EXCEPT !.pc = pc]
    BY <1>1, <2>2
  <2> QED BY <2>1, <2>3
<1> QED BY <1>2, <1>3

\* So does Close.
LEMMA DereferenceAsked ==
    ASSUME SerialInv, NEW c \in Client, NEW i, Dereference(c, i)
    PROVE  req'[c].op = "none"
<1>1. req = [d \in Client |-> req[d]]
  BY DEF SerialInv, ListInv, HandleInv
<1>2. CASE Done(c)
  BY <1>1, <1>2, IdleRequest DEF Done, Request
<1>3. CASE ~Done(c)
  <2>1. PICK k, n : k = ClosePc(open[i]) /\ n = [open[i] EXCEPT !.ref = 0]
    OBVIOUS
  <2>2. req' = [req EXCEPT ![c] = [Idle EXCEPT !.pc = k, !.ino = i, !.node = n]]
    BY <1>3, <2>1 DEF Dereference, Request
  <2>3. req'[c] = [Idle EXCEPT !.pc = k, !.ino = i, !.node = n]
    BY <1>1, <2>2
  <2> QED BY <2>3 DEF Idle
<1> QED BY <1>2, <1>3

\* A section ends so.
LEMMA SectionAsked ==
    ASSUME SerialInv, NEW c \in Client,
           \/ statNode(c) \/ makeNode(c) \/ removeNode(c) \/ readdirNode(c)
           \/ ioFails(c) \/ readAt(c) \/ modifyFile(c)
    PROVE  req'[c].op = req[c].op \/ req'[c].op = "none"
<1>1. Leave(c) => Goto(c, "close") \/ Done(c)
  BY DEF Leave
<1>2. Goto(c, "close") \/ Done(c)
  <2>1. CASE statNode(c)
    BY <1>1, <2>1 DEF statNode, Return
  <2>2. CASE makeNode(c)
    BY <1>1, <2>2 DEF makeNode, Return
  <2>3. CASE removeNode(c)
    BY <1>1, <2>3 DEF removeNode, Quit
  <2>4. CASE readdirNode(c)
    BY <1>1, <2>4 DEF readdirNode, Quit
  <2>5. CASE ioFails(c)
    BY <1>1, <2>5 DEF ioFails, Quit
  <2>6. CASE readAt(c) \/ modifyFile(c)
    BY <1>1, <2>6 DEF readAt, modifyFile, Quit
  <2> QED BY <2>1, <2>2, <2>3, <2>4, <2>5, <2>6
<1> QED BY <1>2, MovesAsked

\* Every step keeps the invariant.
LEMMA StepContent ==
    ASSUME Careful, ~IsNode(NoNode), SerialInv, SerialInv', ContentInv, Asked, [Next]_vars
    PROVE  ContentInv' /\ Asked'
<1>1. /\ Serial /\ Ops \cap Shrinks = {} /\ "lost" \notin Faults /\ "download" \notin Crashes
      /\ "none" \notin Shrinks
  BY DEF Careful, Shrinks
<1>2. ASSUME NEW c \in Client, Begin(c) \/ Continue(c) PROVE ContentInv' /\ Asked'
  <2>1. ClientStep(c)
    BY <1>1, <1>2, ClientSteps DEF SerialInv
  <2>2. ASSUME req'[c].op = "none" \/ req'[c].op = req[c].op \/ req'[c].op \in Ops PROVE Asked'
    <3>1. \A d \in Client : d # c => req'[d].op = req[d].op
      BY <2>1 DEF ClientStep
    <3>2. req'[c].op \notin Shrinks
      BY <1>1, <2>2 DEF Asked
    <3> QED BY <3>1, <3>2 DEF Asked
  <2>3. CASE \E op \in PathOps, p, q \in Path : openNode(c, op, p, q)
    <3>1. PICK op \in PathOps, p \in Path, q \in Path : openNode(c, op, p, q)
      BY <2>3
    <3>2. op \in Ops
      BY <3>1 DEF openNode, CanBegin
    <3> QED BY <2>1, <2>2, <3>1, <3>2, openNodeContent
  <2>4. CASE \E op \in HandleOps : beginHandle(c, op)
    <3>1. PICK op \in HandleOps : beginHandle(c, op)
      BY <2>4
    <3>2. op \in Ops
      BY <3>1 DEF beginHandle, CanBegin
    <3> QED BY <2>1, <2>2, <3>1, <3>2, beginHandleContent
  <2>5. CASE release(c) \/ closeRequest(c)
    <3>1. req'[c].op = "none"
      BY <2>5, DereferenceAsked DEF release, closeRequest
    <3> QED BY <2>1, <2>2, <2>5, <3>1, releaseContent, closeRequestContent
  <2>6. ~renameNode(c)
    <3>1. PICK h : Homes(h)
      BY DEF SerialInv, ListInv
    <3> QED BY <1>1, <3>1 DEF renameNode, InSection, Homes, RequestHome, Serial
  <2>7. CASE insertNode(c) \/ readKey(c)
    BY <2>1, <2>2, <2>7, insertNodeContent, readKeyContent
  <2>8. CASE closeAndUpdateNode(c) \/ touchClosed(c)
    BY <2>1, <2>2, <2>8, closeAndUpdateNodeContent, touchClosedContent
  <2>9. CASE statNode(c) \/ makeNode(c) \/ removeNode(c) \/ readdirNode(c)
    <3>1. Asked'
      BY <2>2, <2>9, SectionAsked
    <3> QED BY <1>1, <2>1, <2>9, <3>1, statNodeContent, makeNodeContent, removeNodeContent,
               readdirNodeContent
  <2>10. CASE ioFails(c) \/ readAt(c) \/ modifyFile(c)
    <3>1. Asked'
      BY <2>2, <2>10, SectionAsked
    <3> QED BY <2>1, <2>10, <3>1, ioFailsContent, readAtContent, modifyFileContent
  <2> QED BY <1>2, <2>3, <2>4, <2>5, <2>6, <2>7, <2>8, <2>9, <2>10 DEF Begin, Continue
<1>3. ASSUME Shutdown \/ UNCHANGED req PROVE Asked'
  <2>1. CASE Shutdown
    BY <1>1, <2>1, IdleRequest DEF Shutdown, Asked
  <2>2. CASE UNCHANGED req
    BY <2>2 DEF Asked
  <2> QED BY <1>3, <2>1, <2>2
<1>4. CASE Background
  <2>1. Shutdown \/ UNCHANGED req
    BY <1>4 DEF Background, tick, takeUpload, endUpload, skipUpload, failUpload, upload,
                touchUploaded, takeEvict, endEvict, evict, EndReset, EndClose
  <2>2. ContentInv'
    BY <1>1, <1>4, LoopStepsContent, failUploadContent, uploadContent, EndsContent, evictContent
       DEF Background
  <2> QED BY <1>3, <2>1, <2>2
<1>5. CASE Lifecycle
  <2>1. Shutdown \/ UNCHANGED req
    BY <1>5 DEF Lifecycle, OpenCache, unmount, CloseCache, crash, crashInUpload, crashInDownload,
                crashInMake, crashInRemove, crashInRename
  <2>2. \A c \in Client : ~crashInDownload(c) /\ ~crashInRemove(c) /\ ~crashInRename(c)
    BY <1>1 DEF crashInDownload, crashInRemove, crashInRename, CanCrash, Serial
  <2>3. ContentInv'
    BY <1>1, <1>5, <2>2, OpenCacheContent, StopsContent, crashInMakeContent DEF Lifecycle
  <2> QED BY <1>3, <2>1, <2>3
<1>6. CASE UNCHANGED vars
  <2>1. UNCHANGED <<storage, db, file, open, lru, req, loop, mode, nextVer, expect>>
    BY <1>6 DEF vars, persistent, memory, pres, user
  <2>2. Content'
    BY <2>1, StillContent DEF ContentInv, Hand
  <2>3. Waiting'
    BY <2>1, WaitingKept DEF ContentInv, Pending
  <2> QED BY <1>3, <2>1, <2>2, <2>3 DEF ContentInv
<1> QED BY <1>2, <1>4, <1>5, <1>6 DEF Next

\* At first the storage has what users see.
LEMMA InitContent ==
    Init => ContentInv /\ Asked
<1> SUFFICES ASSUME Init PROVE ContentInv /\ Asked
  OBVIOUS
<1>1. /\ db = EmptyDb /\ storage = Objects /\ expect = Objects
      /\ open = [i \in Ino |-> NoNode] /\ req = [c \in Client |-> Idle]
      /\ mode = "down" /\ nextVer = 1 + Cardinality(Files(Objects))
  BY DEF Init
<1>2. \A c \in Client : req[c].pc = "idle" /\ req[c].op = "none"
  BY <1>1, IdleRequest
<1>3. \A i \in Ino : open[i] = NoNode /\ \A n : ~Bears(i, n)
  BY <1>1, <1>2 DEF Bears, Hand
<1>4. ASSUME NEW p \in Path PROVE PathContent(p)
  <2>1. Get(db, p) = NoNode
    BY <1>1 DEF EmptyDb, Get
  <2>2. PICK k : k = Cardinality(Files(Objects))
    OBVIOUS
  <2>3. k \in Nat /\ Objects[p] \in 0..k \cup {Dir} /\ nextVer = 1 + k
    BY <1>1, <2>2, CacheAssumption, ObjectsAssumption
  <2>4. Objects[p] \in Written(nextVer)
    BY <2>3 DEF Written
  <2> QED BY <1>1, <2>1, <2>4 DEF PathContent
<1>5. Content
  BY <1>3, <1>4 DEF Content, LinkedContent
<1>6. Waiting /\ Asked
  BY <1>1, <1>2 DEF Waiting, Asked, Shrinks
<1> QED BY <1>5, <1>6 DEF ContentInv

\* The invariants say that no content is lost, whether the process runs or not.
LEMMA ContentIsSafe ==
    ASSUME SerialInv, ContentInv
    PROVE  CrashSafe /\ Durable
<1>1. ASSUME NEW p \in Path, storage[p] # expect[p]
      PROVE  /\ Holds(p, expect[p]) /\ Get(db, p).hash # expect[p]
             /\ mode # "down" => Pending(Get(db, p).ino)
  <2>1. /\ Get(db, p) # NoNode /\ file[Get(db, p).ino] = expect[p]
        /\ Get(db, p).hash # expect[p]
    BY <1>1, UnsavedFile DEF ContentInv, Lists
  <2> QED BY <1>1, <2>1 DEF Holds, ContentInv, Waiting
<1> QED BY <1>1 DEF CrashSafe, Durable

\* ... and that handles read what users see.
LEMMA ContentIsRead ==
    ASSUME SerialInv, ContentInv
    PROVE  HandleCoherent
<1> SUFFICES ASSUME NEW c \in Client, fh[c] # 0, name[c] # NoPath
             PROVE  /\ open[fh[c]].path = name[c]
                    /\ open[fh[c]].fd # "none" =>
                          file[fh[c]] = expect[name[c]] /\ open[fh[c]].fd = "linked"
  BY DEF HandleCoherent
<1>1. PICK i : i = fh[c] /\ i \in Ino /\ open[i] # NoNode
  BY HandleHasNode DEF SerialInv, ListInv
<1>2. ~open[i].deleted /\ open[i].path = name[c]
  BY <1>1 DEF SerialInv, ClientsOK, HandleOK
<1>3. open[i].path \in Path /\ LinkedOK(i)
  BY <1>1, ContentTypes DEF Bears, SerialInv, DataInv
<1>4. PathContent(open[i].path)
  BY <1>3 DEF ContentInv, Content
<1>5. open[i].fd # "none" => file[i] = expect[open[i].path] /\ open[i].fd = "linked"
  BY <1>1, <1>2, <1>3, <1>4 DEF LinkedOK, Lists, PathContent
<1> QED BY <1>1, <1>2, <1>5

\* The invariant holds of a mount that is careful.
LEMMA AlwaysContent ==
    ASSUME Careful, ~IsNode(NoNode)
    PROVE  Spec => [](SerialInv /\ ContentInv)
<1>1. Spec => []SerialInv
  BY AlwaysSerial DEF Careful
<1>2. SerialInv /\ SerialInv' /\ ContentInv /\ Asked /\ [Next]_vars => ContentInv' /\ Asked'
  BY StepContent
<1> QED BY <1>1, <1>2, InitContent, PTL DEF Spec

\* A crash between two steps, or within an upload, loses nothing: whatever write,
\* truncate, create or upload was acknowledged is in the storage, or in the cache
\* file that the catalog has for its path, whose hash tells OpenCache that the
\* file was modified: a write leaves the catalogued hash alone, uploadOne records
\* the new one only once the storage has the version, and evictOne drops a node
\* only when it is neither listed nor open.  Not for a Truncate to a smaller size,
\* an upload whose reply is lost, or a crash within a download.
THEOREM CrashLosesNothing ==
    ASSUME Careful, ~IsNode(NoNode)
    PROVE  Spec => []CrashSafe
BY AlwaysContent, ContentIsSafe, PTL

\* "Modified files will be uploaded": while the process runs, an acknowledged
\* version that is not in the storage is on the upload list or in the hands of
\* uploadOne, although reads, stats, listings and evictions touch its inode
\* meanwhile; and the next OpenCache lists what the process left behind.
THEOREM UploadStaysPending ==
    ASSUME Careful, ~IsNode(NoNode)
    PROVE  Spec => []Durable
BY AlwaysContent, ContentIsSafe, PTL

\* A handle whose file is open reads what its path should hold: neither uploadOne
\* nor evictOne nor the Close of another handle takes the cache file away from it
\* or leaves it with an older version.
THEOREM HandlesReadTheirPath ==
    ASSUME Careful, ~IsNode(NoNode)
    PROVE  Spec => []HandleCoherent
BY AlwaysContent, ContentIsRead, PTL

-----------------------------------------------------------------------------
(* The write-back store *)

\* What is in the storage is in a directory.
Rooted(s) == \A p, q \in Path : ChildOf(q, p) /\ s[q] # 0 => s[p] = Dir

\* What the refinement needs: the storage does not fail to answer a stat, after
\* which makeNode would replace an object, and starts with a tree.
Answering ==
    /\ Careful
    /\ "stat" \notin Faults
    /\ Rooted(Objects)

\* A step that changes neither what users see nor the storage.
LEMMA SameStored ==
    ASSUME Rooted(storage), UNCHANGED <<storage, expect>>
    PROVE  [Store!Next]_(Store!vars) /\ Rooted(storage')
BY DEF Store!vars

\* Create and Mkdir make something where nothing was, in a directory.
LEMMA makeNodeStored ==
    ASSUME Answering, SerialInv, Rooted(storage), NEW c \in Client,
           makeNode(c) \/ crashInMake(c)
    PROVE  [Store!Next]_(Store!vars) /\ Rooted(storage')
<1>1. req[c].pc = "cs" /\ req[c].op \in {"create", "mkdir"} /\ req[c].op \in PathOps
  BY DEF makeNode, crashInMake, InSection, PathOps
<1>2. PICK i \in Ino, p \in Path : At(c, i, p)
  BY <1>1, SectionFacts DEF At
<1>3. req[c].ino = i /\ open[i].path = p /\ req[c].key = p /\ req[c].path = p
  BY <1>1, <1>2, SectionFacts DEF At
<1>4. CASE UNCHANGED <<storage, expect>>
  BY <1>4, SameStored
<1>5. CASE ~UNCHANGED <<storage, expect>>
  <2>1. PICK v : v = IF req[c].op = "mkdir" THEN Dir ELSE nextVer
    OBVIOUS
  <2>2. /\ storage' = [storage EXCEPT ![p] = v] /\ expect' = [expect EXCEPT ![p] = v]
        /\ p \in negpres \/ storage[p] = 0
        /\ ParentExists(p) /\ (storage[p] = 0 \/ storage[p] # Dir)
    BY <1>3, <1>5, <2>1 DEF makeNode, crashInMake, StaysInvalid, StorageMakes, Answering
  <2>3. expect[p] = 0 /\ NameOK(p)
    BY <2>2 DEF SerialInv, DataInv, NegCoherent, NameOK
  <2>4. storage[p] = 0 /\ Dir # 0 /\ v # 0 /\ (v \in 1..MaxVer \/ v = Dir)
    <3>1. MaxVer \in Nat /\ Dir = MaxVer + 2 /\ nextVer \in 1..MaxVer + 1 /\ ReqOK(c)
      BY CacheAssumption DEF SerialInv, Typed, ClientsOK, Dir
    <3>2. req[c].op = "create" => nextVer <= MaxVer
      BY <1>1, <3>1 DEF ReqOK
    <3> QED BY <1>1, <2>1, <2>3, <3>1, <3>2 DEF NameOK
  <2>5. storage'[p] = v /\ \A q \in Path \ {p} : storage'[q] = storage[q]
    BY <2>2, ContentTypes
  <2>6. Store!Make(p, v)
    BY <2>2, <2>3 DEF Store!Make
  <2>7. Store!Next
    BY <2>4, <2>6 DEF Store!Next
  <2>8. ASSUME NEW q \in Path, NEW r \in Path, ChildOf(r, q), storage'[r] # 0
        PROVE  storage'[q] = Dir
    <3>1. CASE r = p
      <4>1. storage[q] = Dir
        BY <2>2, <2>8, <3>1 DEF ParentExists, ChildOf
      <4>2. q # p
        BY <2>4, <4>1
      <4> QED BY <2>5, <4>1, <4>2
    <3>2. CASE r # p
      <4>1. storage[q] = Dir
        BY <2>5, <2>8, <3>2 DEF Rooted
      <4>2. q # p
        BY <2>4, <4>1
      <4> QED BY <2>5, <4>1, <4>2
    <3> QED BY <3>1, <3>2
  <2> QED BY <2>7, <2>8 DEF Rooted
<1> QED BY <1>4, <1>5

\* Unlink and Rmdir remove what has nothing in it.
LEMMA removeNodeStored ==
    ASSUME SerialInv, Rooted(storage), NEW c \in Client, removeNode(c)
    PROVE  [Store!Next]_(Store!vars) /\ Rooted(storage')
<1>1. req[c].pc = "cs" /\ req[c].op \in {"unlink", "rmdir"} /\ req[c].op \in PathOps
  BY DEF removeNode, InSection, PathOps
<1>2. PICK i \in Ino, p \in Path : At(c, i, p)
  BY <1>1, SectionFacts DEF At
<1>3. req[c].ino = i /\ open[i].path = p /\ req[c].key = p /\ req[c].path = p
  BY <1>1, <1>2, SectionFacts DEF At
<1>4. CASE Quit(c)
  BY <1>4, SameStored DEF Quit, persistent, user
<1>5. CASE ~Quit(c)
  <2>1. PICK z : z = 0
    OBVIOUS
  <2>2. /\ storage' = [storage EXCEPT ![p] = z] /\ expect' = [expect EXCEPT ![p] = z]
        /\ storage[p] # 0 => \A q \in Path : ChildOf(q, p) => storage[q] = 0
    BY <1>3, <1>5, <2>1 DEF removeNode, StorageRefuses
  <2>3. Dir # 0
    BY CacheAssumption DEF Dir
  <2>4. \A q \in Path : ChildOf(q, p) => storage[q] = 0
    BY <2>2, <2>3 DEF Rooted
  <2>5. \A q \in Path : ChildOf(q, p) => expect[q] = 0
    BY <2>4 DEF SerialInv, DataInv, NameOK
  <2>6. Store!Remove(p)
    <3>1. \A q : Store!ChildOf(q, p) = ChildOf(q, p)
      BY DEF Store!ChildOf, ChildOf, Store!Parent, Parent, Store!Root, Root
    <3> QED BY <2>1, <2>2, <2>5, <3>1 DEF Store!Remove
  <2>7. Store!Next
    BY <2>6 DEF Store!Next
  <2>8. storage'[p] = 0 /\ \A q \in Path \ {p} : storage'[q] = storage[q]
    BY <2>1, <2>2, ContentTypes
  <2>9. ASSUME NEW q \in Path, NEW r \in Path, ChildOf(r, q), storage'[r] # 0
        PROVE  storage'[q] = Dir
    <3>1. storage[r] # 0 /\ storage[q] = Dir
      BY <2>8, <2>9 DEF Rooted
    <3>2. q # p
      BY <2>4, <2>9, <3>1
    <3> QED BY <2>8, <3>1, <3>2
  <2> QED BY <2>7, <2>9 DEF Rooted
<1> QED BY <1>4, <1>5

\* Write and Truncate give a file that users see another content.
LEMMA modifyFileStored ==
    ASSUME SerialInv, Content, Rooted(storage), NEW c \in Client, modifyFile(c)
    PROVE  [Store!Next]_(Store!vars) /\ Rooted(storage')
<1>1. req[c].pc = "cs" /\ req[c].op \in Modifies /\ req[c].op \in IoOps
  BY DEF modifyFile, InSection, IoOps
<1>2. PICK i \in Ino, p \in Path : At(c, i, p)
  BY <1>1, SectionFacts DEF At
<1>3. req[c].ino = i /\ open[i].path = p /\ open[i].ino = i
  BY <1>2, SectionFacts DEF At
<1> DEFINE r == IF req[c].op \in PathOps THEN req[c].path ELSE name[c]
<1>4. /\ IoWorks(open[i])
      /\ expect' = IF r = NoPath THEN expect ELSE [expect EXCEPT ![r] = nextVer]
      /\ UNCHANGED storage
  BY <1>3 DEF modifyFile
<1>5. CASE open[i].deleted
  <2>1. r = NoPath
    <3>1. req[c].op \notin PathOps /\ HandleOK(c) /\ fh[c] = i /\ fh[c] # 0
      BY <1>1, <1>3, <1>5, SectionFacts, CacheAssumption DEF SerialInv, ClientsOK
    <3> QED BY <1>5, <3>1 DEF HandleOK
  <2> QED BY <1>4, <2>1, SameStored
<1>6. CASE ~open[i].deleted
  <2>1. r = p
    BY <1>1, <1>2, <1>4, <1>6, IoOnFiles
  <2>2. PICK v : v = nextVer
    OBVIOUS
  <2>3. expect' = [expect EXCEPT ![p] = v]
    BY <1>4, <2>1, <2>2, AbsentAssumption
  <2>4. expect[p] \in 1..MaxVer
    BY <1>1, <1>2, <1>4, <1>6, IoReady
  <2>5. v \in 1..MaxVer
    <3>1. MaxVer \in Nat /\ nextVer \in 1..MaxVer + 1 /\ ReqOK(c)
      BY CacheAssumption DEF SerialInv, Typed, ClientsOK
    <3>2. nextVer <= MaxVer
      BY <1>1, <3>1 DEF ReqOK
    <3> QED BY <2>2, <3>1, <3>2
  <2>6. Store!Modify(p, v)
    BY <1>4, <2>3, <2>4 DEF Store!Modify
  <2>7. Store!Next
    BY <2>5, <2>6 DEF Store!Next
  <2> QED BY <1>4, <2>7
<1> QED BY <1>5, <1>6

\* An upload, recorded or not, stores what users see.
LEMMA UploadStored ==
    ASSUME SerialInv, Content, Rooted(storage), Uploads(LockedNode), UNCHANGED expect,
           storage' = [storage EXCEPT ![LockedNode.path] = file[loop.ino]]
    PROVE  [Store!Next]_(Store!vars) /\ Rooted(storage')
<1>1. PICK i \in Ino, p \in Path :
             /\ i = loop.ino /\ loop.pc = "upcs" /\ mode # "down"
             /\ LockedNode = Get(db, p) /\ LockedNode.path = p /\ Lists(i, p) /\ Owns(i, p)
             /\ file[i] \in 1..Torn /\ storage[p] \notin {0, Dir}
  BY UploadsAt
<1>2. PICK v \in 1..Torn : v = file[i]
  BY <1>1
<1>3. storage' = [storage EXCEPT ![p] = v]
  BY <1>1, <1>2
<1>4. /\ v \notin {0, Dir}
      /\ \A q \in Path : /\ storage'[q] = 0 <=> storage[q] = 0
                         /\ storage'[q] = Dir <=> storage[q] = Dir
  BY <1>1, <1>2, <1>3, StoreVersion
<1>5. expect[p] = v
  BY <1>1, <1>2, <1>4 DEF Content, PathContent, Lists
<1>6. expect[p] \in 1..MaxVer
  <2>1. expect[p] \in 0..MaxVer \cup {Dir} /\ MaxVer \in Nat
    BY ContentTypes
  <2> QED BY <1>4, <1>5, <2>1
<1>7. Store!Upload(p)
  BY <1>3, <1>5, <1>6 DEF Store!Upload
<1>8. Store!Next
  BY <1>7 DEF Store!Next
<1> QED BY <1>4, <1>8 DEF Rooted

\* Every step is one of the write-back store, or none.
LEMMA StepStored ==
    ASSUME Answering, SerialInv, ContentInv, Rooted(storage), [Next]_vars
    PROVE  [Store!Next]_(Store!vars) /\ Rooted(storage')
<1>1. Serial /\ "lost" \notin Faults /\ Content
  BY DEF Answering, Careful, ContentInv
<1>2. ASSUME NEW c \in Client, Begin(c) PROVE UNCHANGED <<storage, expect>>
  BY <1>2 DEF Begin, openNode, beginHandle, release, persistent, user
<1>3. ASSUME NEW c \in Client, Continue(c) PROVE [Store!Next]_(Store!vars) /\ Rooted(storage')
  <2>1. ~renameNode(c)
    <3>1. PICK h : Homes(h)
      BY DEF SerialInv, ListInv
    <3> QED BY <1>1, <3>1 DEF renameNode, InSection, Homes, RequestHome, Serial
  <2>2. CASE insertNode(c) \/ readKey(c) \/ closeRequest(c) \/ closeAndUpdateNode(c) \/ touchClosed(c)
    <3>1. UNCHANGED <<storage, expect>>
      BY <2>2 DEF insertNode, readKey, closeRequest, closeAndUpdateNode, touchClosed, persistent, user
    <3> QED BY <3>1, SameStored
  <2>3. CASE statNode(c) \/ readdirNode(c)
    <3>1. UNCHANGED <<storage, expect>>
      BY <2>3 DEF statNode, readdirNode, Quit, persistent, user
    <3> QED BY <3>1, SameStored
  <2>4. CASE ioFails(c) \/ readAt(c)
    <3>1. UNCHANGED <<storage, expect>>
      BY <2>4 DEF ioFails, readAt, Quit, persistent, user
    <3> QED BY <3>1, SameStored
  <2> QED BY <1>1, <1>3, <2>1, <2>2, <2>3, <2>4, makeNodeStored, removeNodeStored, modifyFileStored
         DEF Continue
<1>4. CASE Background
  <2>1. CASE upload
    BY <1>1, <2>1, UploadStored DEF upload, user
  <2>2. CASE ~upload
    <3>1. UNCHANGED <<storage, expect>>
      BY <1>1, <1>4, <2>2 DEF Background, tick, takeUpload, endUpload, skipUpload, failUpload,
         touchUploaded, takeEvict, endEvict, evict, persistent, user
    <3> QED BY <3>1, SameStored
  <2> QED BY <2>1, <2>2
<1>5. CASE Lifecycle
  <2>1. CASE crashInUpload
    BY <1>1, <2>1, UploadStored DEF crashInUpload
  <2>2. ASSUME NEW c \in Client, crashInMake(c) PROVE [Store!Next]_(Store!vars) /\ Rooted(storage')
    BY <2>2, makeNodeStored
  <2>3. \A c \in Client : ~crashInRemove(c) /\ ~crashInRename(c)
    BY <1>1 DEF crashInRemove, crashInRename, CanCrash, Serial
  <2>4. CASE ~crashInUpload /\ \A c \in Client : ~crashInMake(c)
    <3>1. UNCHANGED <<storage, expect>>
      BY <1>5, <2>3, <2>4 DEF Lifecycle, OpenCache, unmount, CloseCache, crash, crashInDownload,
         persistent, user
    <3> QED BY <3>1, SameStored
  <2> QED BY <2>1, <2>2, <2>4
<1>6. CASE UNCHANGED vars
  <2>1. UNCHANGED <<storage, expect>>
    BY <1>6 DEF vars, persistent, user
  <2> QED BY <2>1, SameStored
<1> QED BY <1>2, <1>3, <1>4, <1>5, <1>6, SameStored DEF Next

\* The cache implements a write-back store: Create and Mkdir replace no object,
\* a directory that Rmdir removes is empty, and the storage changes otherwise only
\* when uploadOne brings an object to the version that users see, so that no late
\* upload or Close brings a removed path back or takes an object to an older version,
\* in spite of kills and restarts.  What happens without a hypothesis of Answering
\* is said there and in Careful.
THEOREM CacheWritesBack ==
    ASSUME Answering, ~IsNode(NoNode)
    PROVE  Spec => WritesBack
<1>1. Spec => [](SerialInv /\ ContentInv)
  BY AlwaysContent DEF Answering
<1>2. Init => Store!Init /\ Rooted(storage)
  BY DEF Init, Store!Init, Answering
<1>3. SerialInv /\ ContentInv /\ Rooted(storage) /\ [Next]_vars
        => [Store!Next]_(Store!vars) /\ Rooted(storage')
  BY StepStored
<1>4. Rooted(storage') <=> Rooted(storage)'
  BY DEF Rooted
<1> QED BY <1>1, <1>2, <1>3, <1>4, PTL DEF Spec, Store!Spec, WritesBack
=============================================================================
