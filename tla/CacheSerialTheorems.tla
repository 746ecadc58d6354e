------------------------ MODULE CacheSerialTheorems -------------------------
(***************************************************************************)
(* Theorems about Cache for a mount that runs one request at a time: the   *)
(* steps outside the sections, the background loop, crashes and restarts   *)
(* keep the invariant of CacheSerialProofs, and what follows from it.      *)
(***************************************************************************)
EXTENDS CacheSerialProofs

-----------------------------------------------------------------------------
(* Requests outside their sections *)

\* Who bears a node before and after a step of client c.
LEMMA ClientBears ==
    ASSUME NEW c \in Client, ClientStep(c), NEW j, NEW k
    PROVE  /\ Bears(j, k) <=> \/ open[j] # NoNode /\ open[j] = k
                              \/ Hand(c) /\ req[c].ino = j /\ req[c].node = k
           /\ Bears(j, k)' <=> \/ open'[j] # NoNode /\ open'[j] = k
                               \/ Hand(c)' /\ req'[c].ino = j /\ req'[c].node = k
<1>1. \A d \in Client \ {c} : ~Hand(d) /\ ~Hand(d)'
  BY DEF ClientStep, Hand
<1>2. Bears(j, k) <=> \/ open[j] # NoNode /\ open[j] = k
                      \/ Hand(c) /\ req[c].ino = j /\ req[c].node = k
  BY <1>1 DEF Bears
<1>3. Bears(j, k)' <=> \/ open'[j] # NoNode /\ open'[j] = k
                       \/ Hand(c)' /\ req'[c].ino = j /\ req'[c].node = k
  BY <1>1 DEF Bears
<1> QED BY <1>2, <1>3

\* A step of client c outside its sections, on inode i.
LEMMA ClientInv ==
    ASSUME SerialInv, ListInv', NEW c \in Client, ClientStep(c), NEW i \in Ino,
           UNCHANGED <<storage, expect, file, nextVer, negpres>>,
           db' \in Db, nextIno' \in 1..MaxIno + 1, nextIno <= nextIno',
           \A q \in Path : \/ Get(db', q) = Get(db, q)
                           \/ Get(db', q).ino = i /\ expect[q] # 0,
           DataInv', ReqOK(c)', \A d \in Client : HandleOK(d)', Exact',
           name' \in [Client -> Path \cup {NoPath}],
           \A j \in Ino \ {i} : open'[j] = open[j],
           \A j \in Ino : \A n : Bears(j, n)' => NodeTyped(n),
           Elems(lru.rw) \cup Elems(lru.ro) \subseteq Elems(lru.rw)' \cup Elems(lru.ro)',
           Elems(lru.rw)' \cup Elems(lru.ro)' \subseteq Elems(lru.rw) \cup Elems(lru.ro) \cup {i},
           req[c].pc # "idle" => req[c].ino = i,
           Known(i)' \/ (file[i] = 0 /\ \A q \in Path : ~Lists(i, q)')
    PROVE  SerialInv'
<1>1. Alone' /\ Phases'
  BY ClientTurns
<1>2. ClientsOK'
  <2>1. ASSUME NEW d \in Client, d # c PROVE ReqOK(d)'
    <3>1. req'[d].pc = "idle"
      BY <2>1 DEF ClientStep
    <3> QED BY <3>1 DEF ReqOK
  <2> QED BY <2>1 DEF ClientsOK
<1>3. Fresh'
  <2> SUFFICES ASSUME NEW j \in Ino, file[j] # 0 PROVE j < nextIno'
    BY DEF Fresh
  <2>1. j < nextIno /\ j \in Nat /\ nextIno \in Nat /\ nextIno' \in Nat
    BY CacheAssumption DEF SerialInv, Fresh, Typed
  <2> QED BY <2>1
<1>4. Track'
  <2>1. mode = "run" /\ mode' = "run" /\ loop' = loop
    BY DEF ClientStep
  <2>2. ASSUME NEW j \in Ino, j # i, (\E q \in Path : Lists(j, q)') \/ file'[j] # 0
        PROVE  Known(j)'
    <3>1. (\E q \in Path : Lists(j, q)) \/ file[j] # 0
      BY <2>2 DEF Lists
    <3>2. Known(j)
      BY <2>1, <3>1 DEF SerialInv, Track
    <3>3. ~\E a \in Client : req[a].pc # "idle" /\ req[a].ino = j
      BY <2>2 DEF ClientStep
    <3> QED BY <2>1, <2>2, <3>2, <3>3 DEF Known
  <2>3. ASSUME (\E q \in Path : Lists(i, q)') \/ file'[i] # 0 PROVE Known(i)'
    BY <2>3
  <2> QED BY <2>2, <2>3 DEF Track
<1>5. NegCoherent'
  <2> SUFFICES ASSUME NEW q \in negpres PROVE expect[q] = 0 /\ Get(db', q) = NoNode
    BY DEF NegCoherent
  <2>1. expect[q] = 0 /\ Get(db, q) = NoNode /\ q \in Path
    BY DEF SerialInv, NegCoherent, Typed
  <2> QED BY <2>1
<1>6. Typed'
  <2>1. (\A j \in Ino : \A n : Bears(j, n) => NodeTyped(n))'
    BY DEF NodeTyped
  <2> QED BY <2>1 DEF SerialInv, Typed
<1> QED BY <1>1, <1>2, <1>3, <1>4, <1>5, <1>6 DEF SerialInv

\* The request that openNode starts.
Started(op, p, q, j, n) ==
    [Idle EXCEPT !.pc = "insert", !.op = op, !.path = p, !.to = q, !.ino = j, !.node = n]

\* Its fields.
LEMMA StartedFields ==
    ASSUME NEW op, NEW p, NEW q, NEW j, NEW n
    PROVE  /\ Started(op, p, q, j, n).pc = "insert" /\ Started(op, p, q, j, n).op = op
           /\ Started(op, p, q, j, n).path = p /\ Started(op, p, q, j, n).ino = j
           /\ Started(op, p, q, j, n).node = n
<1> DEFINE r == Started(op, p, q, j, n)
           r1 == [Idle EXCEPT !.pc = "insert"]
           r2 == [r1 EXCEPT !.op = op]
           r3 == [r2 EXCEPT !.path = p]
           r4 == [r3 EXCEPT !.to = q]
           r5 == [r4 EXCEPT !.ino = j]
<1>1. r = [r5 EXCEPT !.node = n]
  BY DEF Started
<1> HIDE DEF r
<1>2. IsRequest(r1) /\ r1.pc = "insert"
  BY IdleRequest DEF IsRequest
<1> HIDE DEF r1
<1>3. IsRequest(r2) /\ r2.pc = "insert" /\ r2.op = op
  BY <1>2 DEF IsRequest
<1> HIDE DEF r2
<1>4. IsRequest(r3) /\ r3.pc = "insert" /\ r3.op = op /\ r3.path = p
  BY <1>3 DEF IsRequest
<1> HIDE DEF r3
<1>5. IsRequest(r4) /\ r4.pc = "insert" /\ r4.op = op /\ r4.path = p
  BY <1>4 DEF IsRequest
<1> HIDE DEF r4
<1>6. IsRequest(r5) /\ r5.pc = "insert" /\ r5.op = op /\ r5.path = p /\ r5.ino = j
  BY <1>5 DEF IsRequest
<1> HIDE DEF r5
<1>7. r.pc = "insert" /\ r.op = op /\ r.path = p /\ r.ino = j /\ r.node = n
  BY <1>1, <1>6 DEF IsRequest
<1> QED BY <1>7 DEF r

\* A request starts with node n of inode j, which has the path p to itself.
LEMMA Begun ==
    ASSUME SerialInv, ListInv', NEW c \in Client, ClientStep(c), req[c].pc = "idle",
           NEW op \in PathOps, NEW p \in Path, NEW q, NEW j \in Ino, NEW n,
           Request(c, Started(op, p, q, j, n)),
           Owns(j, p), NodeOK(j, n), NodeTyped(n), n.path = p, ~n.deleted, n.fd = "none",
           ~n.valid => open[j] = NoNode, open[j] # NoNode => ~open[j].deleted, fh[c] = 0,
           op \in {"truncate", "shrink"} => expect[p] # Dir,
           op \in Modifies \cup {"create"} => nextVer <= MaxVer,
           UNCHANGED <<storage, db, file, open, lru, negpres, fh, nextVer, expect, name>>,
           nextIno' \in 1..MaxIno + 1, nextIno <= nextIno'
    PROVE  SerialInv'
<1>1. PICK r : r = Started(op, p, q, j, n)
  OBVIOUS
<1>2. r.pc = "insert" /\ r.op = op /\ r.path = p /\ r.ino = j /\ r.node = n
  BY <1>1, StartedFields
<1>3. req'[c] = r
  BY <1>1, Requested DEF SerialInv, ListInv
<1>4. \A i \in Ino : \A k : Bears(i, k)' => Bears(i, k) \/ (i = j /\ k = n)
  BY <1>2, <1>3, ClientBears DEF Hand
<1>5. /\ DataInv /\ CatalogTyped(db) /\ Consistent(db) /\ OpenTyped /\ Exact
      /\ \A i \in Ino : \A k : Bears(i, k) => NodeTyped(k)
      /\ db \in Db /\ name \in [Client -> Path \cup {NoPath}]
      /\ \A d \in Client : HandleOK(d)
  BY DEF SerialInv, DataInv, ListInv, HandleInv, Typed, ClientsOK
<1>6. DataInv'
  <2>1. NameOK(p)' /\ CatalogOK(p)' /\ LinkedOK(j)'
    BY <1>5 DEF DataInv, NameOK, CatalogOK, LinkedOK, Lists
  <2>2. ASSUME NEW k, Bears(j, k)' PROVE k.path = p /\ NodeOK(j, k)'
    <3>1. k.path = p /\ NodeOK(j, k)
      BY <1>4, <1>5, <2>2 DEF Owns, DataInv
    <3> QED BY <3>1 DEF NodeOK, Lists
  <2>3. \A i \in Ino \ {j} : \A k : Bears(i, k)' => Bears(i, k)
    BY <1>4
  <2>4. Get(db', p) # NoNode => Get(db', p).ino = j
    BY DEF Owns
  <2>5. Consistent(db')
    BY <1>5
  <2> QED BY <1>5, <2>1, <2>2, <2>3, <2>4, <2>5, LocalData
<1>7. ReqOK(c)'
  <2>1. "insert" \in {"idle", "insert", "key", "cs", "close", "closing", "touch"}
    OBVIOUS
  <2> QED BY <1>2, <1>3 DEF ReqOK
<1>8. \A d \in Client : HandleOK(d)'
  BY <1>5 DEF HandleOK
<1>9. Exact'
  <2>1. \A i \in Ino : Counted(i)' = Counted(i)
    BY DEF Counted
  <2>2. \A d \in Client \ {c} : req'[d] = req[d]
    BY DEF ClientStep
  <2>3. \A i \in Ino : Handles(i) \subseteq Handles(i)' /\ Requests(i) \subseteq Requests(i)'
    BY <2>2 DEF Handles, Requests
  <2> QED BY <1>5, <2>1, <2>3, ExactKept
<1>10. \A i \in Ino : \A k : Bears(i, k)' => NodeTyped(k)
  BY <1>4, <1>5
<1>11. Known(j)'
  BY <1>2, <1>3 DEF Known
<1>12. db' \in Db /\ name' \in [Client -> Path \cup {NoPath}]
  BY <1>5
<1>13. Elems(lru.rw)' = Elems(lru.rw) /\ Elems(lru.ro)' = Elems(lru.ro)
  OBVIOUS
<1> QED BY <1>6, <1>7, <1>8, <1>9, <1>10, <1>11, <1>12, <1>13, ClientInv

\* A version is left for a request that may write one.
LEMMA VersionLeft ==
    ASSUME SerialInv, NEW op, VersionsLeft(op), op \in Modifies \cup {"create"}
    PROVE  nextVer <= MaxVer
<1> DEFINE A == {c \in InFlight : req[c].op \in Modifies \cup {"create"}}
<1>1. A \in SUBSET Client
  BY DEF InFlight
<1>2. nextVer + Cardinality(A) <= MaxVer
  BY DEF VersionsLeft
<1> HIDE DEF A
<1>3. Cardinality(A) \in Nat
  BY <1>1, ClientSets
<1> QED BY <1>2, <1>3, CacheAssumption DEF SerialInv, Typed

\* A request on a path begins.
LEMMA openNodeInv ==
    ASSUME Serial, SerialInv, ListInv', NEW c \in Client, ClientStep(c),
           NEW op \in PathOps, NEW p \in Path, NEW q \in Path, openNode(c, op, p, q)
    PROVE  SerialInv'
<1>1. /\ CanBegin(c, op) /\ fh[c] = 0 /\ KernelAllows(op, p, q) /\ req[c].pc = "idle"
      /\ \A d \in Client : req[d].pc = "idle"
  <2>1. CanBegin(c, op) /\ fh[c] = 0 /\ KernelAllows(op, p, q)
    BY DEF openNode
  <2> QED BY <2>1, BeginsAlone
<1>2. UNCHANGED <<storage, db, file, open, lru, negpres, fh, nextVer, expect, name>>
  BY DEF openNode, pres, user
<1>3. op \in {"truncate", "shrink"} => expect[p] # Dir
  BY <1>1 DEF KernelAllows
<1>4. op \in Modifies \cup {"create"} => nextVer <= MaxVer
  BY <1>1, VersionLeft DEF CanBegin
<1>5. /\ db \in Db /\ CatalogTyped(db) /\ nextIno \in 1..MaxIno + 1 /\ Ino = 1..MaxIno /\ MaxIno \in Nat
      /\ CatalogOK(p) /\ 0 \in Sig
  BY CacheAssumption DEF SerialInv, Typed, ListInv, HandleInv, DataInv, Dir
<1>6. CASE Get(db, p) # NoNode
  <2>1. PICK d : d = Get(db, p)
    OBVIOUS
  <2>2. PICK j \in Ino : j = d.ino
    BY <1>5, <1>6, <2>1 DEF CatalogTyped
  <2>3. d \in DbNode /\ d # NoNode /\ Lists(j, p)
    BY <1>5, <1>6, <2>1, <2>2 DEF Db, Get, Lists
  <2>4. d.path = p
    BY <2>1, <2>3, OnePathEach DEF SerialInv
  <2>5. PICK n : n = FromDb(d)
    OBVIOUS
  <2>6. /\ n.ino = j /\ n.path = p /\ n.sig = d.sig /\ n.hash = d.hash
        /\ n.valid /\ ~n.deleted /\ n.fd = "none" /\ NodeTyped(n)
    BY <2>2, <2>3, <2>4, <2>5 DEF FromDb, NodeTyped, DbNode
  <2>7. Request(c, Started(op, p, q, j, n)) /\ UNCHANGED nextIno
    BY <1>6, <2>1, <2>2, <2>5 DEF openNode, Started
  <2>8. Owns(j, p)
    BY <2>3, ListedOwns DEF SerialInv
  <2>9. storage[p] # 0 /\ (d.sig = Dir <=> storage[p] = Dir)
    BY <1>5, <1>6, <2>1 DEF CatalogOK
  <2>10. NodeOK(j, n)
    BY <2>3, <2>6, <2>9 DEF NodeOK, Lists
  <2>11. open[j] # NoNode => ~open[j].deleted
    <3> SUFFICES ASSUME open[j] # NoNode PROVE ~open[j].deleted
      OBVIOUS
    <3>1. Bears(j, open[j])
      BY DEF Bears
    <3>2. NodeOK(j, open[j]) /\ open[j].path = p
      BY <2>3, <3>1, OnePathEach DEF SerialInv, DataInv
    <3> QED BY <2>3, <3>2 DEF NodeOK
  <2>12. nextIno' \in 1..MaxIno + 1 /\ nextIno <= nextIno'
    BY <1>5, <2>7
  <2> QED BY <1>1, <1>2, <1>3, <1>4, <2>6, <2>7, <2>8, <2>10, <2>11, <2>12, Begun
<1>7. CASE Get(db, p) = NoNode
  <2>1. nextIno <= MaxIno /\ nextIno' = nextIno + 1
    BY <1>7 DEF openNode, NextIno
  <2>2. PICK j \in Ino : j = nextIno
    BY <1>5, <2>1
  <2>3. PICK n : n = NewNode(j, p)
    OBVIOUS
  <2>4. /\ n.path = p /\ n.sig = 0 /\ n.hash = 0 /\ n.valid = FALSE /\ n.deleted = FALSE
        /\ n.fd = "none"
    BY <2>3 DEF NewNode
  <2>5. NodeTyped(n) /\ ~n.valid /\ ~n.deleted
    BY <1>5, <2>4 DEF NodeTyped
  <2>6. Request(c, Started(op, p, q, j, n))
    BY <1>7, <2>2, <2>3 DEF openNode, Started
  <2>7. ~(j < nextIno)
    BY <1>5, <2>2
  <2>8. (\A r \in Path : ~Lists(j, r)) /\ (\A k : ~Bears(j, k))
    BY <2>7, OnePathEach DEF SerialInv
  <2>9. file[j] = 0
    BY <2>7 DEF SerialInv, Fresh
  <2>10. \A i \in Ino \ {j} : \A k : Bears(i, k) /\ k.path = p => k.deleted
    <3>1. ~Hand(c) /\ \A d \in Client \ {c} : req[d].pc = "idle"
      BY <1>1 DEF Hand
    <3> QED BY <1>1, <1>7, <3>1, NoBearer
  <2>11. Owns(j, p)
    BY <1>7, <2>8, <2>10 DEF Owns
  <2>12. NodeOK(j, n)
    BY <1>7, <2>4, <2>8, <2>9 DEF NodeOK
  <2>13. open[j] = NoNode
    BY <2>8 DEF Bears
  <2>14. nextIno' \in 1..MaxIno + 1 /\ nextIno <= nextIno'
    BY <1>5, <2>1
  <2> QED BY <1>1, <1>2, <1>3, <1>4, <2>4, <2>5, <2>6, <2>11, <2>12, <2>13, <2>14, Begun
<1> QED BY <1>6, <1>7

\* A step that moves a request on, and changes nothing else but openmap.
LEMMA MovesInv ==
    ASSUME SerialInv, ListInv', NEW c \in Client, ClientStep(c), NEW i \in Ino,
           UNCHANGED <<storage, db, nextIno, file, lru, negpres, fh, nextVer, expect, name>>,
           DataInv', ReqOK(c)', Exact', \A d \in Client : HandleOK(d)',
           \A j \in Ino \ {i} : open'[j] = open[j],
           \A j \in Ino : \A n : Bears(j, n)' => NodeTyped(n),
           req[c].pc # "idle" => req[c].ino = i,
           open'[i] # NoNode
    PROVE  SerialInv'
<1>1. /\ db' \in Db /\ name' \in [Client -> Path \cup {NoPath}]
      /\ nextIno' \in 1..MaxIno + 1 /\ nextIno <= nextIno'
  BY DEF SerialInv, Typed
<1>2. Elems(lru.rw)' = Elems(lru.rw) /\ Elems(lru.ro)' = Elems(lru.ro)
  OBVIOUS
<1>3. Known(i)'
  BY DEF Known
<1> QED BY <1>1, <1>2, <1>3, ClientInv

\* readKey and beginHandle: the nodes stay where they are.
LEMMA StaysInv ==
    ASSUME SerialInv, ListInv', NEW c \in Client, ClientStep(c), ~Hand(c), ~Hand(c)',
           NEW i \in Ino, open[i] # NoNode, req[c].pc # "idle" => req[c].ino = i,
           UNCHANGED <<storage, db, nextIno, file, open, lru, negpres, fh, nextVer, expect, name>>,
           ReqOK(c)', \A j \in Ino : Requests(j) \subseteq Requests(j)'
    PROVE  SerialInv'
<1>1. \A j \in Ino : \A k : Bears(j, k)' <=> Bears(j, k)
  BY ClientBears
<1>2. DataInv /\ CatalogTyped(db) /\ OpenTyped /\ Exact /\ \A d \in Client : HandleOK(d)
  BY DEF SerialInv, ListInv, HandleInv, ClientsOK
<1>3. DataInv'
  <2>1. \A j \in Ino : file'[j] = file[j]
    OBVIOUS
  <2>2. \A j \in Ino : \A k : Bears(j, k)' => Bears(j, k) /\ Alike(k, k)
    BY <1>1 DEF Alike
  <2>3. \A j \in Ino : open'[j] # NoNode => open[j] # NoNode /\ Alike(open'[j], open[j])
    BY DEF Alike
  <2> QED BY <1>2, <2>1, <2>2, <2>3, QuietData
<1>4. Exact'
  <2>1. \A j \in Ino : Counted(j)' = Counted(j) /\ Handles(j)' = Handles(j)
    BY DEF Counted, Handles
  <2> QED BY <1>2, <2>1, ExactKept
<1>5. \A d \in Client : HandleOK(d)'
  BY <1>2 DEF HandleOK
<1>6. \A j \in Ino : \A n : Bears(j, n)' => NodeTyped(n)
  BY <1>1 DEF SerialInv, Typed
<1> QED BY <1>3, <1>4, <1>5, <1>6, MovesInv

\* The key to lock.
LEMMA readKeyInv ==
    ASSUME SerialInv, ListInv', NEW c \in Client, ClientStep(c), readKey(c)
    PROVE  SerialInv'
<1>1. /\ req[c].pc = "key" /\ IsRequest(req[c]) /\ req = [d \in Client |-> req[d]]
      /\ req' = [req EXCEPT ![c] = [req[c] EXCEPT !.pc = "cs", !.key = open[req[c].ino].path]]
  BY DEF readKey, Request, SerialInv, ListInv, HandleInv, RequestTyped
<1>2. UNCHANGED <<storage, db, nextIno, file, open, lru, negpres, fh, nextVer, expect, name>>
  BY DEF readKey, persistent, pres, user
<1>3. PICK i \in Ino : i = req[c].ino /\ open[i] # NoNode
  BY <1>1, RequestHasNode DEF SerialInv, ListInv
<1>4. /\ req'[c].pc = "cs" /\ req'[c].op = req[c].op /\ req'[c].ino = i
      /\ req'[c].path = req[c].path
  <2> DEFINE r1 == [req[c] EXCEPT !.pc = "cs"]
             r2 == [r1 EXCEPT !.key = open[req[c].ino].path]
  <2>1. req'[c] = r2
    BY <1>1
  <2>2. IsRequest(r1) /\ r1.pc = "cs" /\ r1.op = req[c].op /\ r1.ino = i /\ r1.path = req[c].path
    BY <1>1, <1>3 DEF IsRequest
  <2> HIDE DEF r1
  <2>3. r2.pc = "cs" /\ r2.op = req[c].op /\ r2.ino = i /\ r2.path = req[c].path
    BY <2>2 DEF IsRequest
  <2> HIDE DEF r2
  <2> QED BY <2>1, <2>3
<1>5. ReqOK(c)
  BY DEF SerialInv, ClientsOK
<1>6. ReqOK(c)'
  BY <1>1, <1>2, <1>3, <1>4, <1>5 DEF ReqOK
<1>7. \A j \in Ino : Requests(j) \subseteq Requests(j)'
  BY <1>1, <1>3, <1>4 DEF Requests, ClientStep
<1>8. ~Hand(c) /\ ~Hand(c)'
  BY <1>1, <1>4 DEF Hand
<1> QED BY <1>2, <1>3, <1>6, <1>7, <1>8, StaysInv

\* A request on a handle begins.
LEMMA beginHandleInv ==
    ASSUME Serial, SerialInv, ListInv', NEW c \in Client, ClientStep(c),
           NEW op, beginHandle(c, op)
    PROVE  SerialInv'
<1>1. /\ op \in HandleOps \ {"release"} /\ CanBegin(c, op) /\ fh[c] # 0 /\ req[c].pc = "idle"
      /\ op # "fgetattr" => (op = "readdir" <=> open[fh[c]].sig = Dir)
      /\ req = [d \in Client |-> req[d]]
      /\ req' = [req EXCEPT ![c] = [Idle EXCEPT !.pc = "key", !.op = op, !.ino = fh[c]]]
  BY DEF beginHandle, Request, CanBegin, SerialInv, ListInv, HandleInv
<1>2. UNCHANGED <<storage, db, nextIno, file, open, lru, negpres, fh, nextVer, expect, name>>
  BY DEF beginHandle, persistent, pres, user
<1>3. PICK i \in Ino : i = fh[c] /\ open[i] # NoNode
  BY <1>1, HandleHasNode DEF SerialInv, ListInv
<1>4. req'[c].pc = "key" /\ req'[c].op = op /\ req'[c].ino = i
  <2> DEFINE r1 == [Idle EXCEPT !.pc = "key"]
             r2 == [r1 EXCEPT !.op = op]
             r3 == [r2 EXCEPT !.ino = fh[c]]
  <2>1. req'[c] = r3
    BY <1>1
  <2>2. IsRequest(r1) /\ r1.pc = "key"
    BY IdleRequest DEF IsRequest
  <2> HIDE DEF r1
  <2>3. IsRequest(r2) /\ r2.pc = "key" /\ r2.op = op
    BY <2>2 DEF IsRequest
  <2> HIDE DEF r2
  <2>4. r3.pc = "key" /\ r3.op = op /\ r3.ino = i
    BY <1>3, <2>3 DEF IsRequest
  <2> HIDE DEF r3
  <2> QED BY <2>1, <2>4
<1>5. op \notin PathOps /\ op \notin {"truncate", "shrink", "create"}
  BY <1>1 DEF HandleOps, PathOps
<1>6. op \in Modifies \cup {"create"} => nextVer <= MaxVer
  BY <1>1, VersionLeft DEF CanBegin
<1>7. op \in {"read", "write", "ftruncate", "fshrink"} => open[i].sig # Dir
  BY <1>1, <1>3
<1>8. ReqOK(c)'
  BY <1>2, <1>4, <1>5, <1>6, <1>7 DEF ReqOK
<1>9. \A j \in Ino : Requests(j) \subseteq Requests(j)'
  BY <1>1 DEF Requests, ClientStep
<1>10. ~Hand(c) /\ ~Hand(c)'
  BY <1>1, <1>4 DEF Hand
<1> QED BY <1>1, <1>2, <1>3, <1>8, <1>9, <1>10, StaysInv

\* insertNode enters a node that is like one that the request had in hand, or that was
\* open already.
LEMMA insertNodeInv ==
    ASSUME SerialInv, ListInv', ~IsNode(NoNode), NEW c \in Client, ClientStep(c), insertNode(c)
    PROVE  SerialInv'
<1>1. /\ req[c].pc = "insert" /\ IsRequest(req[c]) /\ req = [d \in Client |-> req[d]]
      /\ req[c].ino \in Ino /\ req[c].op \in PathOps /\ IsNode(req[c].node) /\ req[c].node.ref = 0
      /\ OpenTyped
  BY DEF insertNode, SerialInv, ListInv, HandleInv, RequestTyped
<1>2. UNCHANGED <<storage, db, nextIno, file, lru, negpres, fh, nextVer, expect, name>>
  BY DEF insertNode, persistent, pres, user
<1>3. PICK i \in Ino : i = req[c].ino
  BY <1>1
<1>4. PICK n : n = IF open[i] = NoNode THEN req[c].node ELSE open[i]
  OBVIOUS
<1>5. PICK m : m = Reference(n)
  OBVIOUS
<1>6. IsNode(n) /\ n.ref = Counted(i) /\ Counted(i) \in Nat
  BY <1>1, <1>3, <1>4 DEF OpenTyped, Counted
<1>7. IsNode(m) /\ Alike(m, n) /\ m.ref = Counted(i) + 1
  <2>1. IsNode(m) /\ Alike(m, n)
    BY <1>5, <1>6, ReferenceFields
  <2>2. m.ref = n.ref + 1
    BY <1>5, <1>6 DEF Reference, IsNode
  <2> QED BY <1>6, <2>1, <2>2
<1>8. open' = [open EXCEPT ![i] = m] /\ m # NoNode
  BY <1>3, <1>4, <1>5, <1>7 DEF insertNode
<1>9. open'[i] = m /\ (\A j \in Ino \ {i} : open'[j] = open[j])
  BY <1>1, <1>8 DEF OpenTyped
<1>10. /\ req'[c].pc = "key" /\ req'[c].op = req[c].op /\ req'[c].ino = i
       /\ req'[c].path = req[c].path
  <2> DEFINE r1 == [req[c] EXCEPT !.pc = "key"]
             r2 == [r1 EXCEPT !.node = NoNode]
  <2>1. req'[c] = r2
    BY <1>1 DEF insertNode, Request
  <2>2. IsRequest(r1) /\ r1.pc = "key" /\ r1.op = req[c].op /\ r1.ino = i /\ r1.path = req[c].path
    BY <1>1, <1>3 DEF IsRequest
  <2> HIDE DEF r1
  <2>3. r2.pc = "key" /\ r2.op = req[c].op /\ r2.ino = i /\ r2.path = req[c].path
    BY <2>2 DEF IsRequest
  <2> HIDE DEF r2
  <2> QED BY <2>1, <2>3
<1>11. Bears(i, n) /\ Bears(i, req[c].node)
  BY <1>1, <1>3, <1>4, ClientBears DEF Hand
<1>12. /\ \A j \in Ino \ {i} : \A k : Bears(j, k)' => Bears(j, k)
       /\ \A k : Bears(i, k)' => k = m
  BY <1>9, <1>10, ClientBears DEF Hand
<1>13. ReqOK(c) /\ \A d \in Client : HandleOK(d)
  BY DEF SerialInv, ClientsOK
<1>14. DataInv'
  <2>1. DataInv /\ CatalogTyped(db)
    BY DEF SerialInv, ListInv, HandleInv
  <2>2. \A j \in Ino : file'[j] = file[j]
    BY <1>2
  <2>3. ASSUME NEW j \in Ino, NEW k, Bears(j, k)' PROVE \E l : Bears(j, l) /\ Alike(k, l)
    <3>1. CASE j = i
      BY <1>7, <1>11, <1>12, <2>3, <3>1
    <3>2. CASE j # i
      BY <1>12, <2>3, <3>2 DEF Alike
    <3> QED BY <3>1, <3>2
  <2>4. ASSUME NEW j \in Ino, open'[j] # NoNode
        PROVE  open'[j].fd = "none" \/ (open[j] # NoNode /\ Alike(open'[j], open[j]))
    <3>1. CASE j = i /\ open[i] = NoNode
      BY <1>1, <1>3, <1>4, <1>7, <1>9, <1>13, <3>1 DEF ReqOK, Alike
    <3>2. CASE j = i /\ open[i] # NoNode
      BY <1>4, <1>7, <1>9, <3>2
    <3>3. CASE j # i
      BY <1>9, <2>4, <3>3 DEF Alike
    <3> QED BY <3>1, <3>2, <3>3
  <2> QED BY <1>2, <2>1, <2>2, <2>3, <2>4, QuietData
<1>15. m.path = req[c].path /\ ~m.deleted
  <2>1. n.path = req[c].node.path
    BY <1>11, OnePathEach DEF SerialInv
  <2>2. req[c].node.path = req[c].path /\ ~n.deleted
    BY <1>1, <1>3, <1>4, <1>13 DEF ReqOK
  <2> QED BY <1>7, <2>1, <2>2 DEF Alike
<1>16. ReqOK(c)'
  <2>1. req[c].op \notin {"read", "write", "ftruncate", "fshrink"}
    BY <1>1 DEF PathOps
  <2>2. /\ fh[c] = 0 /\ req[c].path \in Path
        /\ req[c].op \in {"truncate", "shrink"} => expect[req[c].path] # Dir
        /\ req[c].op \in Modifies \cup {"create"} => nextVer <= MaxVer
    BY <1>1, <1>13 DEF ReqOK
  <2> QED BY <1>1, <1>2, <1>9, <1>10, <1>15, <2>1, <2>2 DEF ReqOK
<1>17. \A d \in Client : HandleOK(d)'
  <2> SUFFICES ASSUME NEW d \in Client, fh[d] # 0 PROVE HandleOK(d)'
    BY <1>2 DEF HandleOK
  <2>1. fh[d] \in Ino /\ open[fh[d]] # NoNode
    BY HandleHasNode DEF SerialInv, ListInv
  <2>2. CASE fh[d] = i
    <3>1. Alike(open'[i], open[i])
      BY <1>4, <1>7, <1>9, <2>1, <2>2
    <3> QED BY <1>2, <1>13, <2>2, <3>1 DEF HandleOK, Alike
  <2>3. CASE fh[d] # i
    BY <1>2, <1>9, <1>13, <2>1, <2>3 DEF HandleOK
  <2> QED BY <2>2, <2>3
<1>18. Exact'
  <2> SUFFICES ASSUME NEW j \in Ino PROVE Counted(j)' <= References(j)'
    BY DEF Exact
  <2>1. /\ Handles(j) \in SUBSET Client /\ Requests(j) \in SUBSET Client
        /\ Handles(j)' \in SUBSET Client /\ Requests(j)' \in SUBSET Client
    BY DEF Handles, Requests
  <2>2. Counted(j) <= References(j) /\ Counted(j) \in Nat
    BY <1>1 DEF SerialInv, Exact, Counted, OpenTyped
  <2>3. Handles(j)' = Handles(j)
    BY <1>2 DEF Handles
  <2>4. CASE j = i
    <3>1. c \in Requests(j)' /\ Requests(j) \subseteq Requests(j)' \ {c}
      BY <1>1, <1>10, <2>4 DEF Requests, ClientStep
    <3>2. Cardinality(Requests(j)) + 1 <= Cardinality(Requests(j)')
      BY <2>1, <3>1, ClientSets
    <3>3. Counted(j)' = Counted(j) + 1
      BY <1>7, <1>8, <1>9, <2>4 DEF Counted
    <3> QED BY <2>2, <2>3, <3>2, <3>3, ReferencesAre
  <2>5. CASE j # i
    <3>1. Requests(j) \subseteq Requests(j)'
      BY <1>1 DEF Requests, ClientStep
    <3>2. Cardinality(Requests(j)) <= Cardinality(Requests(j)')
      BY <2>1, <3>1, ClientSets
    <3>3. Counted(j)' = Counted(j)
      BY <1>9, <2>5 DEF Counted
    <3> QED BY <2>2, <2>3, <3>2, <3>3, ReferencesAre
  <2> QED BY <2>4, <2>5
<1>19. \A j \in Ino : \A k : Bears(j, k)' => NodeTyped(k)
  <2>1. NodeTyped(n)
    BY <1>11 DEF SerialInv, Typed
  <2>2. NodeTyped(m)
    BY <1>7, <2>1 DEF NodeTyped, Alike
  <2>3. ASSUME NEW j \in Ino, NEW k, Bears(j, k)' PROVE NodeTyped(k)
    <3>1. CASE j = i
      BY <1>12, <2>2, <2>3, <3>1
    <3>2. CASE j # i
      BY <1>12, <2>3, <3>2 DEF SerialInv, Typed
    <3> QED BY <3>1, <3>2
  <2> QED BY <2>3
<1>20. open'[i] # NoNode /\ (req[c].pc # "idle" => req[c].ino = i)
  BY <1>3, <1>8, <1>9
<1> QED BY <1>2, <1>9, <1>14, <1>16, <1>17, <1>18, <1>19, <1>20, MovesInv

\* closeAndUpdateNode stores a node that is no longer open.
LEMMA closeAndUpdateNodeInv ==
    ASSUME SerialInv, ListInv', NEW c \in Client, ClientStep(c), closeAndUpdateNode(c)
    PROVE  SerialInv'
<1>1. /\ req[c].pc = "closing" /\ IsRequest(req[c]) /\ req = [d \in Client |-> req[d]]
      /\ req[c].ino \in Ino /\ IsNode(req[c].node) /\ req[c].node.ino = req[c].ino
      /\ OpenTyped /\ ReqOK(c)
  BY DEF closeAndUpdateNode, SerialInv, ListInv, HandleInv, RequestTyped, ClientsOK
<1>2. UNCHANGED <<storage, nextIno, file, open, lru, negpres, fh, nextVer, expect, name>>
  BY DEF closeAndUpdateNode, pres, user
<1>3. PICK i, n, p : i \in Ino /\ i = req[c].ino /\ n = req[c].node /\ p = n.path
  BY <1>1
<1>4. /\ ~n.deleted /\ n.valid /\ open[i] = NoNode /\ fh[c] = 0 /\ n.ino = i
  BY <1>1, <1>3 DEF ReqOK
<1>5. Bears(i, n) /\ \A k : Bears(i, k) <=> k = n
  BY <1>1, <1>3, <1>4, ClientBears DEF Hand
<1>6. NodeOK(i, n) /\ NodeTyped(n) /\ p \in Path
  BY <1>3, <1>5 DEF SerialInv, DataInv, Typed, NodeOK
<1>7. Owns(i, p)
  BY <1>3, <1>4, <1>5, BearerOwns DEF SerialInv
<1>8. db' = PutNode(db, ToDb(n), p) /\ req' = [req EXCEPT ![c].pc = "touch"]
  BY <1>3 DEF closeAndUpdateNode, Goto
<1>9. /\ db' \in Db /\ Consistent(db')
      /\ \A q \in Path : Get(db', q) = IF q = p THEN ToDb(n) ELSE Get(db, q)
      /\ ToDb(n) # NoNode /\ ToDb(n).ino = i /\ ToDb(n).sig = n.sig
  BY <1>3, <1>4, <1>6, <1>7, <1>8, Stored
<1>10. PICK t : t = ToDb(n) /\ t # NoNode /\ t.ino = i /\ t.sig = n.sig
  BY <1>9
<1>11. Get(db', p) = t /\ \A q \in Path \ {p} : Get(db', q) = Get(db, q)
  BY <1>6, <1>9, <1>10
<1>12. req'[c].pc = "touch" /\ req'[c].op = req[c].op /\ req'[c].ino = i
       /\ req'[c].path = req[c].path
  <2> DEFINE r == [req[c] EXCEPT !.pc = "touch"]
  <2>1. req'[c] = r
    BY <1>1, <1>8
  <2>2. r.pc = "touch" /\ r.op = req[c].op /\ r.ino = i /\ r.path = req[c].path
    BY <1>1, <1>3 DEF IsRequest
  <2> HIDE DEF r
  <2> QED BY <2>1, <2>2
<1>13. /\ \A j \in Ino \ {i} : \A k : Bears(j, k)' => Bears(j, k)
       /\ \A k : ~Bears(i, k)'
  BY <1>2, <1>4, <1>12, ClientBears DEF Hand
<1>14. storage[p] # 0 /\ (n.sig = Dir <=> storage[p] = Dir) /\ (storage[p] = Dir => file[i] = 0)
  <2>1. CatalogOK(p)
    BY <1>6 DEF SerialInv, DataInv
  <2> QED BY <1>3, <1>4, <1>6, <2>1 DEF NodeOK, CatalogOK, Lists
<1>15. DataInv'
  <2>1. DataInv /\ CatalogTyped(db)
    BY DEF SerialInv, ListInv, HandleInv
  <2>2. NameOK(p)'
    BY <1>2, <1>6, <2>1 DEF DataInv, NameOK
  <2>3. CatalogOK(p)'
    BY <1>2, <1>10, <1>11, <1>14 DEF CatalogOK
  <2>4. LinkedOK(i)'
    BY <1>2, <1>4 DEF LinkedOK
  <2>5. \A q \in Path \ {p} :
            /\ storage'[q] = storage[q] /\ expect'[q] = expect[q]
            /\ Get(db', q) = Get(db, q)
    BY <1>2, <1>11
  <2>6. \A j \in Ino \ {i} : file'[j] = file[j] /\ open'[j] = open[j]
    BY <1>2
  <2>7. Get(db', p) # NoNode => Get(db', p).ino = i
    BY <1>10, <1>11
  <2>8. \A k : Bears(i, k)' => k.path = p /\ NodeOK(i, k)'
    BY <1>13
  <2> QED BY <1>3, <1>6, <1>7, <1>9, <1>13, <2>1, <2>2, <2>3, <2>4, <2>5, <2>6, <2>7, <2>8, LocalData
<1>16. ReqOK(c)'
  BY <1>1, <1>2, <1>4, <1>12 DEF ReqOK
<1>17. \A d \in Client : HandleOK(d)'
  BY <1>2 DEF SerialInv, ClientsOK, HandleOK
<1>18. Exact'
  <2>1. \A j \in Ino : Counted(j)' = Counted(j)
    BY <1>2 DEF Counted
  <2>2. \A j \in Ino : Handles(j) \subseteq Handles(j)' /\ Requests(j) \subseteq Requests(j)'
    BY <1>1, <1>2 DEF Handles, Requests, ClientStep
  <2> QED BY <1>1, <2>1, <2>2, ExactKept DEF SerialInv
<1>19. \A j \in Ino : \A k : Bears(j, k)' => NodeTyped(k)
  BY <1>13 DEF SerialInv, Typed
<1>20. Known(i)'
  BY <1>12 DEF Known
<1>21. /\ nextIno' \in 1..MaxIno + 1 /\ nextIno <= nextIno'
       /\ name' \in [Client -> Path \cup {NoPath}]
  BY <1>2 DEF SerialInv, Typed
<1>22. Elems(lru.rw)' = Elems(lru.rw) /\ Elems(lru.ro)' = Elems(lru.ro)
  BY <1>2
<1>23. \A q \in Path : \/ Get(db', q) = Get(db, q)
                       \/ Get(db', q).ino = i /\ expect[q] # 0
  <2>1. expect[p] # 0
    BY <1>6, <1>14 DEF SerialInv, DataInv, NameOK
  <2> QED BY <1>10, <1>11, <2>1
<1>24. req[c].pc # "idle" => req[c].ino = i
  BY <1>3
<1>25. (\A j \in Ino \ {i} : open'[j] = open[j]) /\ UNCHANGED <<storage, expect, file, nextVer, negpres>>
  BY <1>2
<1> QED BY <1>3, <1>9, <1>15, <1>16, <1>17, <1>18, <1>19, <1>20, <1>21, <1>22, <1>23, <1>24, <1>25, ClientInv

\* The end of closeNode.
LEMMA touchClosedInv ==
    ASSUME SerialInv, ListInv', NEW c \in Client, ClientStep(c), touchClosed(c)
    PROVE  SerialInv'
<1>1. /\ req[c].pc = "touch" /\ req = [d \in Client |-> req[d]] /\ req[c].ino \in Ino
      /\ OpenTyped
  BY DEF touchClosed, SerialInv, ListInv, HandleInv, RequestTyped
<1>2. UNCHANGED <<storage, db, nextIno, file, open, negpres, fh, nextVer, expect, name>>
  BY DEF touchClosed, persistent, user
<1>3. PICK i \in Ino : i = req[c].ino
  BY <1>1
<1>4. lru' = touchIno(lru, i, FALSE) /\ req'[c] = Idle
  BY <1>1, <1>3 DEF touchClosed, Done, Request
<1>5. req'[c].pc = "idle"
  BY <1>4, IdleRequest
<1>6. \A j \in Ino : \A k : Bears(j, k)' <=> Bears(j, k)
  BY <1>1, <1>2, <1>5, ClientBears DEF Hand
<1>7. DataInv'
  <2>1. DataInv /\ CatalogTyped(db)
    BY DEF SerialInv, ListInv, HandleInv
  <2>2. \A j \in Ino : file'[j] = file[j]
    BY <1>2
  <2>3. \A j \in Ino : \A k : Bears(j, k)' => Bears(j, k) /\ Alike(k, k)
    BY <1>6 DEF Alike
  <2>4. \A j \in Ino : open'[j] # NoNode => open[j] # NoNode /\ Alike(open'[j], open[j])
    BY <1>2 DEF Alike
  <2> QED BY <1>2, <2>1, <2>2, <2>3, <2>4, QuietData
<1>8. ReqOK(c)'
  BY <1>5 DEF ReqOK
<1>9. \A d \in Client : HandleOK(d)'
  BY <1>2 DEF SerialInv, ClientsOK, HandleOK
<1>10. Exact'
  <2>1. \A j \in Ino : Counted(j)' = Counted(j)
    BY <1>2 DEF Counted
  <2>2. \A j \in Ino : Handles(j) \subseteq Handles(j)' /\ Requests(j) \subseteq Requests(j)'
    BY <1>1, <1>2 DEF Handles, Requests, ClientStep
  <2> QED BY <1>1, <2>1, <2>2, ExactKept DEF SerialInv
<1>11. \A j \in Ino : \A k : Bears(j, k)' => NodeTyped(k)
  BY <1>6 DEF SerialInv, Typed
<1>12. Elems(lru.rw)' \cup Elems(lru.ro)' = Elems(lru.rw) \cup Elems(lru.ro) \cup {i}
  <2>1. /\ Elems(touchIno(lru, i, FALSE).rw) = Elems(lru.rw)
        /\ Elems(touchIno(lru, i, FALSE).ro) =
             IF i \in Elems(lru.rw) THEN Elems(lru.ro) ELSE Elems(lru.ro) \cup {i}
    BY TouchElems DEF SerialInv, ListInv
  <2>2. /\ Elems(lru.rw)' = Elems(lru.rw)
        /\ Elems(lru.ro)' = IF i \in Elems(lru.rw) THEN Elems(lru.ro) ELSE Elems(lru.ro) \cup {i}
    BY <1>4, <2>1
  <2> QED BY <2>2
<1>13. Known(i)'
  BY <1>12 DEF Known
<1>14. /\ nextIno' \in 1..MaxIno + 1 /\ nextIno <= nextIno' /\ db' \in Db
       /\ name' \in [Client -> Path \cup {NoPath}]
  BY <1>2 DEF SerialInv, Typed
<1>15. /\ Elems(lru.rw) \cup Elems(lru.ro) \subseteq Elems(lru.rw)' \cup Elems(lru.ro)'
       /\ Elems(lru.rw)' \cup Elems(lru.ro)' \subseteq Elems(lru.rw) \cup Elems(lru.ro) \cup {i}
  BY <1>12
<1>16. /\ \A q \in Path : Get(db', q) = Get(db, q)
       /\ \A j \in Ino \ {i} : open'[j] = open[j]
       /\ UNCHANGED <<storage, expect, file, nextVer, negpres>>
       /\ req[c].pc # "idle" => req[c].ino = i
  BY <1>2, <1>3
<1> QED BY <1>7, <1>8, <1>9, <1>10, <1>11, <1>13, <1>14, <1>15, <1>16, ClientInv

-----------------------------------------------------------------------------
(* Close *)

\* What Cache.Close leaves of a node and of the request.
LEMMA DereferenceForm ==
    ASSUME SerialInv, NEW c \in Client, NEW i \in Ino, open[i] # NoNode, Dereference(c, i)
    PROVE  /\ \A j \in Ino \ {i} : open'[j] = open[j]
           /\ \/ /\ open[i].ref > 1 /\ IsNode(open'[i]) /\ Alike(open'[i], open[i])
                 /\ open'[i].ref = open[i].ref - 1 /\ req'[c].pc = "idle"
              \/ /\ open[i].ref = 1 /\ open'[i] = NoNode
                 /\ req'[c].pc = ClosePc(open[i]) /\ req'[c].op = "none"
                 /\ req'[c].pc # "idle" => req'[c].ino = i
                 /\ req'[c].pc = "closing" => Alike(req'[c].node, open[i])
<1>1. /\ open = [j \in Ino |-> open[j]] /\ req = [d \in Client |-> req[d]]
      /\ IsNode(open[i])
  BY DEF SerialInv, ListInv, HandleInv, OpenTyped
<1>2. PICK n : n = open[i] /\ IsNode(n)
  BY <1>1
<1>3. CASE n.ref > 1 /\ open' = [open EXCEPT ![i].ref = @ - 1] /\ Done(c)
  <2>1. PICK x : x = n.ref - 1
    OBVIOUS
  <2>2. PICK m : m = [n EXCEPT !.ref = x]
    OBVIOUS
  <2>3. Fields(m, n.ino, n.path, n.sig, n.hash, n.valid, n.deleted, n.fd, x)
    BY <1>2, <2>2, SetRef
  <2>4. open'[i] = m /\ \A j \in Ino \ {i} : open'[j] = open[j]
    BY <1>1, <1>2, <1>3, <2>1, <2>2
  <2>5. req'[c].pc = "idle"
    BY <1>1, <1>3, IdleRequest DEF Done, Request
  <2> QED BY <1>2, <1>3, <2>1, <2>3, <2>4, <2>5 DEF Fields, Alike
<1>4. CASE /\ n.ref = 1 /\ open' = [open EXCEPT ![i] = NoNode]
           /\ IF ClosePc(n) = "idle" THEN Done(c)
              ELSE Request(c, [Idle EXCEPT !.pc = ClosePc(n), !.ino = i,
                               !.node = [n EXCEPT !.ref = 0]])
  <2>1. open'[i] = NoNode /\ \A j \in Ino \ {i} : open'[j] = open[j]
    BY <1>1, <1>4
  <2>2. CASE ClosePc(n) = "idle"
    <3>1. req'[c].pc = "idle" /\ req'[c].op = "none"
      BY <1>1, <1>4, <2>2 DEF Done, Request, Idle
    <3> QED BY <1>2, <1>4, <2>1, <2>2, <3>1
  <2>3. CASE ClosePc(n) # "idle"
    <3>1. PICK m : m = [n EXCEPT !.ref = 0]
      OBVIOUS
    <3>2. Alike(m, n)
      BY <1>2, <3>1, SetRef DEF Fields, Alike
    <3>3. PICK pc : pc = ClosePc(n)
      OBVIOUS
    <3> DEFINE r1 == [Idle EXCEPT !.pc = pc]
               r2 == [r1 EXCEPT !.ino = i]
               r3 == [r2 EXCEPT !.node = m]
    <3>4. req'[c] = r3
      BY <1>1, <1>4, <2>3, <3>1, <3>3 DEF Request
    <3>5. IsRequest(r1) /\ r1.pc = pc /\ r1.op = "none"
      BY IdleRequest DEF IsRequest, Idle
    <3> HIDE DEF r1
    <3>6. IsRequest(r2) /\ r2.pc = pc /\ r2.op = "none" /\ r2.ino = i
      BY <3>5 DEF IsRequest
    <3> HIDE DEF r2
    <3>7. r3.pc = pc /\ r3.op = "none" /\ r3.ino = i /\ r3.node = m
      BY <3>6 DEF IsRequest
    <3> HIDE DEF r3
    <3> QED BY <1>2, <1>4, <2>1, <3>2, <3>3, <3>4, <3>7
  <2> QED BY <2>2, <2>3
<1> QED BY <1>2, <1>3, <1>4 DEF Dereference

\* Close counts one reference less, and drops one.
LEMMA DereferenceExact ==
    ASSUME SerialInv, NEW c \in Client, ClientStep(c), NEW i \in Ino, open[i] # NoNode,
           Dereference(c, i), fh' = [fh EXCEPT ![c] = 0], ~IsNode(NoNode),
           \/ c \in Requests(i) /\ fh[c] = 0
           \/ c \in Handles(i) /\ req[c].pc = "idle"
    PROVE  Exact'
<1> SUFFICES ASSUME NEW j \in Ino PROVE Counted(j)' <= References(j)'
  BY DEF Exact
<1>1. /\ OpenTyped /\ Exact /\ fh \in [Client -> Ino \cup {0}]
  BY DEF SerialInv, ListInv, HandleInv
<1>2. fh'[c] = 0 /\ \A d \in Client \ {c} : req'[d] = req[d] /\ fh'[d] = fh[d]
  BY <1>1 DEF ClientStep
<1>3. /\ Handles(j) \in SUBSET Client /\ Requests(j) \in SUBSET Client
      /\ Handles(j)' \in SUBSET Client /\ Requests(j)' \in SUBSET Client
  BY DEF Handles, Requests
<1>4. Counted(j) <= References(j) /\ Counted(j) \in Nat
  BY <1>1 DEF Exact, Counted, OpenTyped
<1>5. j # 0 /\ i # 0
  BY CacheAssumption
<1>6. CASE j # i
  <2>1. Counted(j)' = Counted(j)
    BY <1>6, DereferenceForm DEF Counted
  <2>2. c \notin Handles(j) /\ c \notin Requests(j)
    BY <1>5, <1>6 DEF Handles, Requests
  <2>3. Handles(j) \subseteq Handles(j)' /\ Requests(j) \subseteq Requests(j)'
    BY <1>2, <2>2 DEF Handles, Requests
  <2>4. /\ Cardinality(Handles(j)) <= Cardinality(Handles(j)')
        /\ Cardinality(Requests(j)) <= Cardinality(Requests(j)')
    BY <1>3, <2>3, ClientSets
  <2> QED BY <1>4, <2>1, <2>4, ReferencesAre
<1>7. CASE j = i
  <2>1. Counted(j)' + 1 = Counted(j) /\ Counted(j)' \in Nat
    <3>1. IsNode(open[i]) /\ open[i].ref \in Nat \ {0}
      BY <1>1 DEF OpenTyped
    <3>2. CASE open'[i] = NoNode /\ open[i].ref = 1
      BY <1>7, <3>2 DEF Counted
    <3>3. CASE IsNode(open'[i]) /\ open'[i].ref = open[i].ref - 1 /\ open[i].ref > 1
      <4>1. open'[i] # NoNode
        BY <3>3
      <4> QED BY <1>7, <3>1, <3>3, <4>1 DEF Counted
    <3> QED BY <3>2, <3>3, DereferenceForm
  <2>2. CASE c \in Requests(i) /\ fh[c] = 0
    <3>1. Handles(j) \subseteq Handles(j)' /\ Requests(j) \subseteq Requests(j)' \cup {c}
      BY <1>2, <1>5, <2>2 DEF Handles, Requests
    <3>2. /\ Cardinality(Handles(j)) <= Cardinality(Handles(j)')
          /\ Cardinality(Requests(j)) <= Cardinality(Requests(j)') + 1
      BY <1>3, <3>1, ClientSets
    <3> QED BY <1>4, <2>1, <3>2, ReferencesAre
  <2>3. CASE c \in Handles(i) /\ req[c].pc = "idle"
    <3>1. Handles(j) \subseteq Handles(j)' \cup {c} /\ Requests(j) \subseteq Requests(j)'
      BY <1>2, <2>3 DEF Handles, Requests
    <3>2. /\ Cardinality(Handles(j)) <= Cardinality(Handles(j)') + 1
          /\ Cardinality(Requests(j)) <= Cardinality(Requests(j)')
      BY <1>3, <3>1, ClientSets
    <3> QED BY <1>4, <2>1, <3>2, ReferencesAre
  <2> QED BY <2>2, <2>3
<1> QED BY <1>6, <1>7

\* Cache.Close keeps the invariant: whoever holds the last reference takes the node
\* out of openmap, and has it in hand as long as it is to be stored.
LEMMA DereferenceInv ==
    ASSUME SerialInv, ListInv', NEW c \in Client, ClientStep(c), NEW i \in Ino, open[i] # NoNode,
           Dereference(c, i), fh' = [fh EXCEPT ![c] = 0], ~IsNode(NoNode),
           \/ c \in Requests(i) /\ fh[c] = 0
           \/ c \in Handles(i) /\ req[c].pc = "idle",
           req[c].pc \in {"idle", "close"}, req[c].pc # "idle" => req[c].ino = i,
           UNCHANGED <<storage, db, nextIno, file, lru, negpres, nextVer, expect>>,
           name' \in [Client -> Path \cup {NoPath}],
           \A d \in Client \ {c} : name'[d] = name[d]
    PROVE  SerialInv'
<1>1. Exact'
  BY DereferenceExact
<1>2. /\ OpenTyped /\ fh \in [Client -> Ino \cup {0}] /\ DataInv /\ CatalogTyped(db)
      /\ \A d \in Client : HandleOK(d)
      /\ \A j \in Ino : \A n : Bears(j, n) => NodeTyped(n)
      /\ db \in Db /\ nextIno \in 1..MaxIno + 1
  BY DEF SerialInv, ListInv, HandleInv, ClientsOK, Typed
<1>3. fh'[c] = 0 /\ \A d \in Client \ {c} : req'[d] = req[d] /\ fh'[d] = fh[d]
  BY <1>2 DEF ClientStep
<1>4. PICK n : n = open[i]
  OBVIOUS
<1>5. Bears(i, n) /\ NodeOK(i, n) /\ NodeTyped(n) /\ n # NoNode
  BY <1>2, <1>4 DEF Bears, DataInv
<1>6. \A j \in Ino \ {i} : open'[j] = open[j]
  BY DereferenceForm
<1>7. /\ req'[c].pc \in {"idle", "closing", "touch"} /\ (req'[c].pc # "idle" => req'[c].ino = i)
      /\ req'[c].pc = "closing" =>
            Alike(req'[c].node, n) /\ n.valid /\ ~n.deleted /\ open'[i] = NoNode
      /\ req'[c].pc # "idle" => req'[c].op \notin PathOps
      /\ open'[i] # NoNode => Alike(open'[i], n)
      /\ open'[i] = NoNode /\ req'[c].pc = "idle" => ~n.valid
  BY <1>4, DereferenceForm DEF ClosePc, PathOps
<1>8. ASSUME NEW j \in Ino, NEW k, Bears(j, k)'
      PROVE  \E l : Bears(j, l) /\ Alike(k, l)
  <2>1. CASE j = i
    BY <1>5, <1>7, <1>8, <2>1, ClientBears DEF Hand
  <2>2. CASE j # i
    <3>1. Bears(j, k)
      BY <1>6, <1>7, <1>8, <2>2, ClientBears DEF Hand
    <3> QED BY <3>1 DEF Alike
  <2> QED BY <2>1, <2>2
<1>9. DataInv'
  <2>1. \A j \in Ino : open'[j] # NoNode => open[j] # NoNode /\ Alike(open'[j], open[j])
    BY <1>4, <1>5, <1>6, <1>7 DEF Alike
  <2> QED BY <1>2, <1>8, <2>1, QuietData
<1>10. ReqOK(c)'
  <2>1. req'[c].op \notin PathOps \/ req'[c].pc = "idle"
    BY <1>7
  <2> QED BY <1>3, <1>7, <2>1 DEF ReqOK, Alike
<1>11. ASSUME NEW d \in Client PROVE HandleOK(d)'
  <2> SUFFICES ASSUME fh'[d] # 0 PROVE HandleOK(d)'
    BY DEF HandleOK
  <2>1. d # c /\ fh'[d] = fh[d] /\ name'[d] = name[d] /\ fh[d] \in Ino
    BY <1>2, <1>3
  <2>2. open'[fh[d]] # NoNode
    <3>1. PICK j \in Ino : j = fh[d]
      BY <2>1
    <3>2. d \in Handles(j)' /\ Handles(j)' \in SUBSET Client /\ {} \in SUBSET Client
      BY <2>1, <3>1 DEF Handles
    <3>3. Cardinality({}) \in Nat /\ Cardinality({}) + 1 <= Cardinality(Handles(j)')
      BY <3>2, ClientSets
    <3>4. References(j)' > 0 /\ References(j)' <= Counted(j)' /\ References(j)' \in Nat
      BY <3>3, ReferencesAre DEF ListInv, HandleInv, CountInv
    <3> QED BY <3>1, <3>4 DEF Counted
  <2>3. Alike(open'[fh[d]], open[fh[d]])
    BY <1>4, <1>6, <1>7, <2>1, <2>2 DEF Alike
  <2> QED BY <1>2, <2>1, <2>3 DEF HandleOK, Alike
<1>12. ASSUME NEW j \in Ino, NEW k, Bears(j, k)' PROVE NodeTyped(k)
  BY <1>2, <1>8, <1>12 DEF NodeTyped, Alike
<1>13. Known(i)' \/ (file[i] = 0 /\ \A q \in Path : ~Lists(i, q)')
  <2>1. CASE open'[i] # NoNode \/ req'[c].pc # "idle"
    BY <1>7, <2>1 DEF Known
  <2>2. CASE open'[i] = NoNode /\ req'[c].pc = "idle"
    <3>1. file[i] = 0 /\ ~Lists(i, n.path)
      BY <1>5, <1>7, <2>2 DEF NodeOK
    <3>2. \A q \in Path : ~Lists(i, q)
      BY <1>5, <3>1, OnePathEach DEF SerialInv
    <3> QED BY <3>1, <3>2 DEF Lists
  <2> QED BY <2>1, <2>2
<1>14. /\ db' \in Db /\ nextIno' \in 1..MaxIno + 1 /\ nextIno <= nextIno'
       /\ \A q \in Path : Get(db', q) = Get(db, q)
       /\ Elems(lru.rw)' = Elems(lru.rw) /\ Elems(lru.ro)' = Elems(lru.ro)
  BY <1>2
<1> QED BY <1>1, <1>6, <1>9, <1>10, <1>11, <1>12, <1>13, <1>14, ClientInv

\* The deferred Close of a request on a path.
LEMMA closeRequestInv ==
    ASSUME SerialInv, ListInv', ~IsNode(NoNode), NEW c \in Client, ClientStep(c), closeRequest(c)
    PROVE  SerialInv'
<1>1. /\ req[c].pc = "close" /\ Dereference(c, req[c].ino)
      /\ UNCHANGED <<storage, db, nextIno, file, lru, negpres, nextVer, expect, fh, name>>
  BY DEF closeRequest, persistent, pres, user
<1>2. req[c].ino \in Ino /\ open[req[c].ino] # NoNode
  BY <1>1, RequestHasNode DEF SerialInv, ListInv
<1>3. PICK i \in Ino : i = req[c].ino
  BY <1>2
<1>4. c \in Requests(i) /\ req[c].op \in PathOps
  BY <1>1, <1>3 DEF SerialInv, ListInv, HandleInv, RequestTyped, Requests
<1>5. fh[c] = 0
  BY <1>1, <1>4 DEF SerialInv, ClientsOK, ReqOK
<1>6. fh' = [fh EXCEPT ![c] = 0]
  BY <1>1, <1>5 DEF SerialInv, ListInv, HandleInv
<1>7. open[i] # NoNode /\ Dereference(c, i)
  BY <1>1, <1>2, <1>3
<1>8. name' \in [Client -> Path \cup {NoPath}]
  BY <1>1 DEF SerialInv, Typed
<1> QED BY <1>1, <1>3, <1>4, <1>5, <1>6, <1>7, <1>8, DereferenceInv

\* Release.
LEMMA releaseInv ==
    ASSUME SerialInv, ListInv', ~IsNode(NoNode), NEW c \in Client, ClientStep(c), release(c)
    PROVE  SerialInv'
<1>1. /\ req[c].pc = "idle" /\ fh[c] # 0 /\ Dereference(c, fh[c])
      /\ fh' = [fh EXCEPT ![c] = 0] /\ name' = [name EXCEPT ![c] = NoPath]
      /\ UNCHANGED <<storage, db, nextIno, file, lru, negpres, nextVer, expect>>
  BY DEF release, CanBegin, persistent, pres
<1>2. fh[c] \in Ino /\ open[fh[c]] # NoNode
  BY <1>1, HandleHasNode DEF SerialInv, ListInv
<1>3. PICK i \in Ino : i = fh[c]
  BY <1>2
<1>4. c \in Handles(i) /\ open[i] # NoNode /\ Dereference(c, i)
  BY <1>1, <1>2, <1>3 DEF Handles
<1>5. /\ name' \in [Client -> Path \cup {NoPath}]
      /\ \A d \in Client \ {c} : name'[d] = name[d]
  BY <1>1 DEF SerialInv, Typed
<1> QED BY <1>1, <1>3, <1>4, <1>5, DereferenceInv

-----------------------------------------------------------------------------
(* The background loop *)

\* The fields of the loop after a step.
LEMMA LoopAt ==
    ASSUME Phases, NEW pc, NEW i, NEW err, LoopStep(pc, i, err)
    PROVE  /\ loop' = [pc |-> pc, ino |-> i, err |-> err, force |-> loop.force]
           /\ loop'.pc = pc /\ loop'.ino = i /\ loop'.err = err /\ loop'.force = loop.force
<1>1. PICK f : f = loop.force
  OBVIOUS
<1>2. loop' = [pc |-> pc, ino |-> i, err |-> err, force |-> f]
  BY <1>1 DEF Phases, LoopStep
<1>3. loop'.pc = pc /\ loop'.ino = i /\ loop'.err = err /\ loop'.force = f
  BY <1>2
<1> QED BY <1>1, <1>2, <1>3

\* A step of the loop keeps its phases.
LEMMA LoopPhases ==
    ASSUME Phases, NEW pc, NEW i, NEW err, LoopStep(pc, i, err), mode # "down",
           pc \in {"upload", "upcs", "uptouch", "evict", "evcs"},
           IF pc \in {"upcs", "uptouch", "evcs"} THEN i \in Ino ELSE i = 0,
           pc = "evcs" => loop.force \/ Evicts,
           UNCHANGED <<mode, fh>>,
           \A j \in Ino : open[j] = NoNode => open'[j] = NoNode
    PROVE  Phases'
<1>1. /\ loop' = [pc |-> pc, ino |-> i, err |-> err, force |-> loop.force]
      /\ loop'.pc = pc /\ loop'.ino = i /\ loop'.err = err /\ loop'.force = loop.force
  BY LoopAt
<1>2. loop' = [pc |-> loop'.pc, ino |-> loop'.ino, err |-> loop'.err, force |-> loop'.force]
  BY <1>1
<1> QED BY <1>1, <1>2 DEF Phases

\* The loop when it rests.
LEMMA RestingLoop ==
    /\ LoopIdle.pc = "idle" /\ LoopIdle.ino = 0 /\ ~LoopIdle.force
    /\ LoopIdle = [pc |-> LoopIdle.pc, ino |-> LoopIdle.ino, err |-> LoopIdle.err,
                   force |-> LoopIdle.force]
BY DEF LoopIdle

\* A step of the loop, of OpenCache or of CloseCache that changes no data.
LEMMA QuietLoop ==
    ASSUME SerialInv, ListInv', Alone', Phases',
           UNCHANGED <<storage, db, nextIno, file, open, negpres, req, fh, nextVer, expect, name>>,
           mode # "down",
           \A i \in Ino : i \in Elems(lru.rw) \cup Elems(lru.ro) \/ loop.ino = i =>
                i \in Elems(lru.rw)' \cup Elems(lru.ro)' \/ loop'.ino = i,
           Elems(lru.rw)' \cup Elems(lru.ro)' \subseteq Ino
    PROVE  SerialInv'
<1>1. \A i, n : Bears(i, n)' <=> Bears(i, n)
  BY DEF Bears, Hand
<1>2. DataInv'
  <2>1. DataInv /\ CatalogTyped(db)
    BY DEF SerialInv, ListInv, HandleInv
  <2>2. \A i \in Ino : \A n : Bears(i, n)' => Bears(i, n) /\ Alike(n, n)
    BY <1>1 DEF Alike
  <2>3. \A i \in Ino : open'[i] # NoNode => open[i] # NoNode /\ Alike(open'[i], open[i])
    BY DEF Alike
  <2> QED BY <2>1, <2>2, <2>3, QuietData
<1>3. Typed'
  BY <1>1 DEF SerialInv, Typed, NodeTyped
<1>4. ClientsOK'
  BY DEF SerialInv, ClientsOK, ReqOK, HandleOK
<1>5. Exact'
  BY DEF SerialInv, Exact, Counted, References
<1>6. Fresh' /\ NegCoherent'
  BY DEF SerialInv, Fresh, NegCoherent
<1>7. Track'
  <2> SUFFICES ASSUME NEW i \in Ino, (\E p \in Path : Lists(i, p)') \/ file'[i] # 0
               PROVE  Known(i)'
    BY DEF Track
  <2>1. Known(i)
    BY DEF SerialInv, Track, Lists
  <2> QED BY <2>1 DEF Known
<1> QED BY <1>2, <1>3, <1>4, <1>5, <1>6, <1>7 DEF SerialInv

\* Taking an inode off a list.
LEMMA PopElems ==
    ASSUME NEW l, IsLru(l)
    PROVE  /\ l.rw # <<>> =>
                /\ Elems(popUpload(l).ro) = Elems(l.ro)
                /\ Head(l.rw) \in Elems(l.rw)
                /\ Elems(l.rw) = Elems(popUpload(l).rw) \cup {Head(l.rw)}
           /\ l.ro # <<>> =>
                /\ Elems(popEvict(l).rw) = Elems(l.rw)
                /\ Head(l.ro) \in Elems(l.ro)
                /\ Elems(l.ro) = Elems(popEvict(l).ro) \cup {Head(l.ro)}
<1>1. /\ l = [rw |-> l.rw, ro |-> l.ro]
      /\ IsList(l.rw) /\ IsList(l.ro)
  BY DEF IsLru
<1>2. ASSUME NEW s, IsList(s), s # <<>>
      PROVE  Head(s) \in Elems(s) /\ Elems(s) = Elems(Tail(s)) \cup {Head(s)}
  <2>1. PICK S : s \in Seq(S)
    BY <1>2 DEF IsList
  <2>2. /\ Len(s) \in Nat \ {0} /\ DOMAIN s = 1..Len(s) /\ Head(s) = s[1]
        /\ Len(Tail(s)) = Len(s) - 1 /\ DOMAIN Tail(s) = 1..Len(s) - 1
        /\ \A n \in 1..Len(s) - 1 : Tail(s)[n] = s[n + 1]
    BY <1>2, <2>1
  <2>3. Head(s) \in Elems(s)
    BY <2>2 DEF Elems
  <2>4. ASSUME NEW x \in Elems(s) PROVE x \in Elems(Tail(s)) \cup {Head(s)}
    <3>1. PICK n \in 1..Len(s) : x = s[n]
      BY <2>2 DEF Elems
    <3>2. CASE n = 1
      BY <2>2, <3>1, <3>2
    <3>3. CASE n # 1
      <4>1. n - 1 \in 1..Len(s) - 1 /\ (n - 1) + 1 = n
        BY <2>2, <3>3
      <4>2. Tail(s)[n - 1] = x
        BY <2>2, <3>1, <4>1
      <4> QED BY <2>2, <4>1, <4>2 DEF Elems
    <3> QED BY <3>2, <3>3
  <2>5. ASSUME NEW x \in Elems(Tail(s)) PROVE x \in Elems(s)
    <3>1. PICK n \in 1..Len(s) - 1 : x = Tail(s)[n]
      BY <2>2 DEF Elems
    <3>2. n + 1 \in 1..Len(s) /\ x = s[n + 1]
      BY <2>2, <3>1
    <3> QED BY <2>2, <3>2 DEF Elems
  <2> QED BY <2>3, <2>4, <2>5
<1>3. PICK a, b : a = l.rw /\ b = l.ro
  OBVIOUS
<1>4. l = [rw |-> a, ro |-> b] /\ IsList(a) /\ IsList(b)
  BY <1>1, <1>3
<1>5. /\ popUpload(l) = [rw |-> Tail(a), ro |-> b]
      /\ popEvict(l) = [rw |-> a, ro |-> Tail(b)]
  BY <1>4, PopAre
<1>6. /\ popUpload(l).rw = Tail(a) /\ popUpload(l).ro = b
      /\ popEvict(l).rw = a /\ popEvict(l).ro = Tail(b)
  BY <1>5
<1> QED BY <1>2, <1>3, <1>4, <1>6

\* Steps of the loop that change no data.
LEMMA LoopStepsInv ==
    ASSUME SerialInv, ListInv', tick \/ takeUpload \/ endUpload \/ skipUpload \/ takeEvict
    PROVE  SerialInv'
<1>1. /\ Phases /\ Alone /\ IsLru(lru) /\ Elems(lru.rw) \cup Elems(lru.ro) \subseteq Ino
  BY DEF SerialInv, Typed, ListInv
<1>2. /\ UNCHANGED <<storage, db, nextIno, file, open, negpres, req, fh, nextVer, expect, name>>
      /\ UNCHANGED mode
  BY DEF tick, takeUpload, endUpload, skipUpload, takeEvict, persistent, pres, user
<1>3. mode # "down" /\ (\A j \in Ino : open[j] = NoNode => open'[j] = NoNode) /\ UNCHANGED <<mode, fh>>
  BY <1>1, <1>2 DEF tick, takeUpload, endUpload, skipUpload, takeEvict, Phases
<1>4. Alone'
  BY <1>1, <1>2 DEF Alone
<1>5. loop.pc \notin {"upcs", "uptouch", "evcs"} => \A i \in Ino : loop.ino # i
  <2>1. 0 \notin Ino
    BY CacheAssumption
  <2> QED BY <1>1, <2>1 DEF Phases
<1>6. CASE tick
  <2>1. LoopStep("upload", 0, FALSE) /\ loop.pc = "idle" /\ lru' = lru
    BY <1>6 DEF tick
  <2>2. Phases'
    BY <1>1, <1>3, <2>1, LoopPhases
  <2>3. Elems(lru.rw)' = Elems(lru.rw) /\ Elems(lru.ro)' = Elems(lru.ro)
    BY <2>1
  <2> QED BY <1>1, <1>2, <1>3, <1>4, <1>5, <2>1, <2>2, <2>3, QuietLoop
<1>7. CASE endUpload
  <2>1. LoopStep("evict", 0, FALSE) /\ loop.pc = "upload" /\ lru' = lru
    BY <1>7 DEF endUpload
  <2>2. Phases'
    BY <1>1, <1>3, <2>1, LoopPhases
  <2>3. Elems(lru.rw)' = Elems(lru.rw) /\ Elems(lru.ro)' = Elems(lru.ro)
    BY <2>1
  <2> QED BY <1>1, <1>2, <1>3, <1>4, <1>5, <2>1, <2>2, <2>3, QuietLoop
<1>8. CASE takeUpload
  <2>1. loop.pc = "upload" /\ lru.rw # <<>> /\ lru' = popUpload(lru)
    BY <1>8 DEF takeUpload
  <2>2. PICK i \in Ino : i = Head(lru.rw)
    BY <1>1, <2>1, PopElems
  <2>3. LoopStep("upcs", i, FALSE)
    BY <1>8, <2>2 DEF takeUpload
  <2>4. Phases' /\ loop'.ino = i
    BY <1>1, <1>3, <2>3, LoopPhases, LoopAt
  <2>5. Elems(lru.ro)' = Elems(lru.ro) /\ Elems(lru.rw) = Elems(lru.rw)' \cup {i}
    BY <1>1, <2>1, <2>2, PopElems
  <2> QED BY <1>1, <1>2, <1>3, <1>4, <1>5, <2>1, <2>4, <2>5, QuietLoop
<1>9. CASE takeEvict
  <2>1. loop.pc = "evict" /\ lru.ro # <<>> /\ lru' = popEvict(lru) /\ (loop.force \/ Evicts)
    BY <1>9 DEF takeEvict
  <2>2. PICK i \in Ino : i = Head(lru.ro)
    BY <1>1, <2>1, PopElems
  <2>3. LoopStep("evcs", i, FALSE)
    BY <1>9, <2>2 DEF takeEvict
  <2>4. Phases' /\ loop'.ino = i
    BY <1>1, <1>3, <2>1, <2>3, LoopPhases, LoopAt
  <2>5. Elems(lru.rw)' = Elems(lru.rw) /\ Elems(lru.ro) = Elems(lru.ro)' \cup {i}
    BY <1>1, <2>1, <2>2, PopElems
  <2> QED BY <1>1, <1>2, <1>3, <1>4, <1>5, <2>1, <2>4, <2>5, QuietLoop
<1>10. CASE skipUpload
  <2>1. loop.pc = "upcs" /\ lru' = lru
    BY <1>10 DEF skipUpload
  <2>2. PICK i \in Ino : i = loop.ino
    BY <1>1, <2>1 DEF Phases
  <2>3. \/ LoopStep("upload", 0, FALSE) /\ i \in Elems(lru.rw)
        \/ LoopStep("uptouch", i, FALSE)
    BY <1>10, <2>2 DEF skipUpload
  <2>4. Elems(lru.rw)' = Elems(lru.rw) /\ Elems(lru.ro)' = Elems(lru.ro)
    BY <2>1
  <2>5. CASE LoopStep("upload", 0, FALSE) /\ i \in Elems(lru.rw)
    <3>1. Phases'
      BY <1>1, <1>3, <2>5, LoopPhases
    <3> QED BY <1>1, <1>2, <1>3, <1>4, <2>2, <2>4, <2>5, <3>1, QuietLoop
  <2>6. CASE LoopStep("uptouch", i, FALSE)
    <3>1. Phases' /\ loop'.ino = i
      BY <1>1, <1>3, <2>6, LoopPhases, LoopAt
    <3> QED BY <1>1, <1>2, <1>3, <1>4, <2>2, <2>4, <3>1, QuietLoop
  <2> QED BY <2>3, <2>5, <2>6
<1> QED BY <1>6, <1>7, <1>8, <1>9, <1>10

\* The file system is unmounted, and the reset of CloseCache begins.
LEMMA StopsInv ==
    ASSUME SerialInv, ListInv', unmount \/ CloseCache
    PROVE  SerialInv'
<1>1. /\ Phases /\ Alone /\ Elems(lru.rw) \cup Elems(lru.ro) \subseteq Ino
  BY DEF SerialInv, Typed
<1>2. UNCHANGED <<storage, db, nextIno, file, open, lru, negpres, req, fh, nextVer, expect, name>>
  BY DEF unmount, CloseCache, persistent, pres, user
<1>3. mode # "down" /\ Elems(lru.rw)' = Elems(lru.rw) /\ Elems(lru.ro)' = Elems(lru.ro)
  BY <1>2 DEF unmount, CloseCache
<1>4. CASE unmount
  <2>1. mode = "run" /\ mode' = "stop" /\ loop' = loop /\ \A c \in Client : req[c].pc = "idle"
    BY <1>4 DEF unmount, InFlight
  <2>2. Alone' /\ Phases'
    BY <1>1, <1>2, <2>1 DEF Alone, Phases
  <2> QED BY <1>1, <1>2, <1>3, <2>1, <2>2, QuietLoop
<1>5. CASE CloseCache
  <2>1. mode = "stop" /\ mode' = "stop" /\ loop.pc = "idle"
    BY <1>5 DEF CloseCache
  <2>2. loop' = [pc |-> "upload", ino |-> 0, err |-> FALSE, force |-> TRUE]
    BY <1>5 DEF CloseCache, LoopIdle
  <2>3. loop'.pc = "upload" /\ loop'.ino = 0 /\ loop'.err = FALSE /\ loop'.force = TRUE
    BY <2>2
  <2>4. Alone'
    BY <1>1, <1>2, <2>1 DEF Alone
  <2>5. Phases'
    BY <1>1, <1>2, <2>1, <2>2, <2>3 DEF Phases
  <2>6. loop.ino = 0 /\ 0 \notin Ino
    BY <1>1, <2>1, CacheAssumption DEF Phases
  <2> QED BY <1>1, <1>2, <1>3, <2>4, <2>5, <2>6, QuietLoop
<1> QED BY <1>4, <1>5

\* What the users see does not change.
LEMMA SameUser ==
    ASSUME SerialInv, UNCHANGED <<nextVer, expect>>
    PROVE  expect' \in [Path -> 0..MaxVer \cup {Dir}] /\ nextVer' \in 1..MaxVer + 1
<1>1. expect \in [Path -> 0..MaxVer \cup {Dir}] /\ nextVer \in 1..MaxVer + 1
  BY DEF SerialInv, Typed
<1> QED BY <1>1

\* The process ends: nobody has a node any more.
LEMMA ShutdownInv ==
    ASSUME SerialInv, ListInv', Shutdown, UNCHANGED <<db, nextIno>>,
           expect' \in [Path -> 0..MaxVer \cup {Dir}], nextVer' \in 1..MaxVer + 1,
           storage' \in [Path -> 0..Dir], file' \in [Ino -> 0..Torn],
           \A p \in Path : NameOK(p)' /\ CatalogOK(p)',
           \A i \in Ino : file'[i] # 0 => i < nextIno
    PROVE  SerialInv'
<1>1. /\ open' = [i \in Ino |-> NoNode] /\ lru' = EmptyLru /\ negpres' = {}
      /\ req' = [c \in Client |-> Idle] /\ fh' = [c \in Client |-> 0]
      /\ name' = [c \in Client |-> NoPath] /\ loop' = LoopIdle /\ mode' = "down"
  BY DEF Shutdown
<1>2. \A c \in Client : req'[c].pc = "idle" /\ fh'[c] = 0
  BY <1>1, IdleRequest
<1>3. \A i \in Ino : open'[i] = NoNode /\ \A n : ~Bears(i, n)'
  BY <1>1, <1>2 DEF Bears, Hand
<1>4. DataInv'
  <2>1. Consistent(db')
    BY DEF SerialInv, DataInv
  <2>2. Unique' /\ \A i \in Ino : LinkedOK(i)' /\ \A n : Bears(i, n)' => NodeOK(i, n)'
    BY <1>3 DEF Unique, LinkedOK
  <2> QED BY <2>1, <2>2 DEF DataInv
<1>5. Alone' /\ ClientsOK'
  BY <1>2 DEF Alone, ClientsOK, ReqOK, HandleOK
<1>6. Phases'
  BY <1>1, <1>2, <1>3, RestingLoop DEF Phases
<1>7. Exact'
  <2> SUFFICES ASSUME NEW i \in Ino PROVE Counted(i)' <= References(i)'
    BY DEF Exact
  <2>1. Counted(i)' = 0
    BY <1>3 DEF Counted
  <2> QED BY <2>1, ReferencesAre
<1>8. Fresh' /\ Track' /\ NegCoherent'
  BY <1>1 DEF Fresh, Track, NegCoherent
<1>9. Typed'
  <2>1. Elems(lru.rw)' = {} /\ Elems(lru.ro)' = {}
    BY <1>1 DEF EmptyLru, Elems
  <2>2. name' \in [Client -> Path \cup {NoPath}] /\ negpres' \subseteq Path
    BY <1>1
  <2>3. /\ expect' \in [Path -> 0..MaxVer \cup {Dir}] /\ nextVer' \in 1..MaxVer + 1
        /\ nextIno' \in 1..MaxIno + 1 /\ db' \in Db
    BY DEF SerialInv, Typed
  <2> QED BY <1>3, <2>1, <2>2, <2>3 DEF Typed
<1> QED BY <1>4, <1>5, <1>6, <1>7, <1>8, <1>9 DEF SerialInv

\* ... leaving its files and the storage as they are.
LEMMA HaltInv ==
    ASSUME SerialInv, ListInv', Shutdown, UNCHANGED <<storage, db, nextIno, file, nextVer, expect>>
    PROVE  SerialInv'
<1>1. /\ storage' \in [Path -> 0..Dir] /\ file' \in [Ino -> 0..Torn]
      /\ \A i \in Ino : file'[i] # 0 => i < nextIno
  BY DEF SerialInv, Typed, Fresh
<1>2. \A p \in Path : NameOK(p)' /\ CatalogOK(p)'
  BY DEF SerialInv, DataInv, NameOK, CatalogOK
<1> QED BY <1>1, <1>2, SameUser, ShutdownInv

\* resetCache ends: the cache is mounted, or the loop rests, or the process ends.
LEMMA EndsInv ==
    ASSUME SerialInv, ListInv', touchUploaded \/ endEvict
    PROVE  SerialInv'
<1>1. /\ Phases /\ Alone /\ IsLru(lru) /\ Elems(lru.rw) \cup Elems(lru.ro) \subseteq Ino
      /\ UNCHANGED <<storage, db, nextIno, file, nextVer, expect>>
  BY DEF SerialInv, Typed, ListInv, touchUploaded, endEvict, persistent
<1>2. CASE Shutdown
  BY <1>1, <1>2, HaltInv
<1>3. mode # "down"
  BY <1>1 DEF Phases, touchUploaded, endEvict
<1>4. ASSUME EndReset PROVE Alone' /\ Phases' /\ UNCHANGED <<open, negpres, req, fh, name>>
  <2>1. /\ loop' = LoopIdle /\ UNCHANGED <<open, negpres, req, fh, name>>
        /\ \/ ~loop.force /\ mode' = mode
           \/ loop.force /\ mode = "start" /\ mode' = "run"
    BY <1>4 DEF EndReset
  <2>2. Alone'
    BY <1>1, <2>1 DEF Alone
  <2>3. Phases'
    BY <1>1, <1>3, <2>1, RestingLoop DEF Phases
  <2> QED BY <2>1, <2>2, <2>3
<1>5. CASE endEvict /\ EndReset /\ UNCHANGED lru
  <2>1. loop.ino = 0 /\ 0 \notin Ino
    BY <1>1, <1>5, CacheAssumption DEF endEvict, Phases
  <2>2. Elems(lru.rw)' = Elems(lru.rw) /\ Elems(lru.ro)' = Elems(lru.ro)
    BY <1>5
  <2> QED BY <1>1, <1>3, <1>4, <1>5, <2>1, <2>2, QuietLoop
<1>6. CASE /\ touchUploaded /\ lru' = TouchBack
           /\ \/ /\ ~loop.err /\ LoopStep("upload", 0, FALSE)
                 /\ UNCHANGED <<open, negpres, req, fh, name, mode>>
              \/ loop.err /\ EndReset
  <2>1. loop.pc = "uptouch"
    BY <1>6 DEF touchUploaded
  <2>2. PICK i \in Ino : i = loop.ino
    BY <1>1, <2>1 DEF Phases
  <2>3. Elems(lru.rw)' \cup Elems(lru.ro)' = Elems(lru.rw) \cup Elems(lru.ro) \cup {i}
    <3>1. lru' = touchIno(lru, i, TRUE) \/ lru' = touchIno(lru, i, FALSE)
      BY <1>6, <2>2 DEF TouchBack, touchIno
    <3>2. CASE lru' = touchIno(lru, i, TRUE)
      <4>1. Elems(lru.rw)' = Elems(lru.rw) \cup {i} /\ Elems(lru.ro)' = Elems(lru.ro) \ {i}
        BY <1>1, <3>2, TouchElems
      <4> QED BY <4>1
    <3>3. CASE lru' = touchIno(lru, i, FALSE)
      <4>1. /\ Elems(lru.rw)' = Elems(lru.rw)
            /\ Elems(lru.ro)' = IF i \in Elems(lru.rw) THEN Elems(lru.ro) ELSE Elems(lru.ro) \cup {i}
        BY <1>1, <3>3, TouchElems
      <4> QED BY <4>1
    <3> QED BY <3>1, <3>2, <3>3
  <2>4. CASE ~loop.err /\ LoopStep("upload", 0, FALSE)
                       /\ UNCHANGED <<open, negpres, req, fh, name, mode>>
    <3>1. Phases'
      BY <1>1, <1>3, <2>4, LoopPhases
    <3>2. Alone'
      BY <1>1, <2>4 DEF Alone
    <3>3. /\ \A j \in Ino : j \in Elems(lru.rw) \cup Elems(lru.ro) \/ loop.ino = j =>
                j \in Elems(lru.rw)' \cup Elems(lru.ro)'
          /\ Elems(lru.rw)' \cup Elems(lru.ro)' \subseteq Ino
      BY <1>1, <2>2, <2>3
    <3> QED BY <1>1, <1>3, <2>4, <3>1, <3>2, <3>3, QuietLoop
  <2>5. CASE loop.err /\ EndReset
    <3>1. /\ \A j \in Ino : j \in Elems(lru.rw) \cup Elems(lru.ro) \/ loop.ino = j =>
                j \in Elems(lru.rw)' \cup Elems(lru.ro)'
          /\ Elems(lru.rw)' \cup Elems(lru.ro)' \subseteq Ino
      BY <1>1, <2>2, <2>3
    <3> QED BY <1>1, <1>3, <1>4, <2>5, <3>1, QuietLoop
  <2> QED BY <1>6, <2>4, <2>5
<1>7. CASE touchUploaded
  <2>1. \/ Shutdown
        \/ /\ lru' = TouchBack
           /\ \/ /\ ~loop.err /\ LoopStep("upload", 0, FALSE)
                 /\ UNCHANGED <<open, negpres, req, fh, name, mode>>
              \/ loop.err /\ EndReset
    BY <1>7 DEF touchUploaded, EndClose
  <2> QED BY <1>2, <1>6, <1>7, <2>1
<1>8. CASE endEvict
  <2>1. Shutdown \/ (EndReset /\ UNCHANGED lru)
    BY <1>8 DEF endEvict, EndClose
  <2> QED BY <1>2, <1>5, <1>8, <2>1
<1> QED BY <1>7, <1>8

\* A crash in the middle of a download leaves a torn cache file.
LEMMA crashInDownloadInv ==
    ASSUME SerialInv, ListInv', NEW c \in Client, crashInDownload(c)
    PROVE  SerialInv'
<1>1. /\ InSection(c, {"read"} \cup Modifies) /\ req[c].pc = "cs" /\ Shutdown
      /\ UNCHANGED <<storage, db, nextIno, nextVer, expect>>
  BY DEF crashInDownload, InSection
<1>2. /\ req[c].ino \in Ino /\ req[c].ino < nextIno
      /\ open[req[c].ino].ino = req[c].ino /\ open[req[c].ino].path \in Path
      /\ Bears(req[c].ino, open[req[c].ino]) /\ NodeOK(req[c].ino, open[req[c].ino])
  BY <1>1, SectionFacts
<1>3. PICK i \in Ino : i = req[c].ino
  BY <1>2
<1>4. PICK n : n = open[i]
  OBVIOUS
<1>5. PICK p \in Path : p = n.path
  BY <1>2, <1>3, <1>4
<1>6. /\ i < nextIno /\ Bears(i, n) /\ NodeOK(i, n) /\ n.ino = i
      /\ IoWorks(n) /\ file' = [file EXCEPT ![i] = Torn]
  BY <1>2, <1>3, <1>4 DEF crashInDownload
<1>7. /\ file' \in [Ino -> 0..Torn] /\ file'[i] = Torn /\ (\A j \in Ino \ {i} : file'[j] = file[j])
      /\ storage' \in [Path -> 0..Dir]
  <2>1. file \in [Ino -> 0..Torn] /\ Torn \in 0..Torn /\ storage \in [Path -> 0..Dir]
    BY CacheAssumption DEF SerialInv, Typed, Torn
  <2> QED BY <1>1, <1>6, <2>1
<1>8. \A j \in Ino : file'[j] # 0 => j < nextIno
  BY <1>6, <1>7 DEF SerialInv, Fresh
<1>9. ASSUME NEW q \in Path PROVE NameOK(q)' /\ CatalogOK(q)'
  <2>1. NameOK(q) /\ CatalogOK(q) /\ CatalogTyped(db)
    BY DEF SerialInv, DataInv, ListInv, HandleInv
  <2>2. NameOK(q)'
    BY <1>1, <2>1 DEF NameOK
  <2>3. CASE ~Lists(i, q)
    <3>1. Get(db, q) # NoNode => Get(db, q).ino \in Ino \ {i}
      BY <2>1, <2>3 DEF Lists, CatalogTyped
    <3>2. CatalogOK(q)'
      BY <1>1, <1>7, <2>1, <3>1 DEF CatalogOK
    <3> QED BY <2>2, <3>2
  <2>4. CASE Lists(i, q)
    <3>1. q = p /\ ~n.deleted
      BY <1>5, <1>6, <2>4, OnePathEach DEF SerialInv, NodeOK
    <3>2. At(c, i, p)
      BY <1>1, <1>3, <1>4, <1>5, SectionFacts DEF At
    <3>3. storage[p] \in 1..Torn
      BY <1>1, <1>4, <1>6, <3>1, <3>2, IoOnFiles DEF InSection, IoOps
    <3>4. storage[p] # Dir
      BY <3>3, CacheAssumption DEF Torn, Dir
    <3>5. CatalogOK(q)'
      BY <1>1, <2>1, <3>1, <3>4 DEF CatalogOK
    <3> QED BY <2>2, <3>5
  <2> QED BY <2>3, <2>4
<1> QED BY <1>1, <1>7, <1>8, <1>9, SameUser, ShutdownInv

\* A section of the loop, on inode i.
LEMMA LoopData ==
    ASSUME SerialInv, ListInv', Alone', Phases', DataInv', mode # "down",
           NEW i \in Ino, loop.ino = i,
           UNCHANGED <<nextIno, lru, negpres, req, fh, nextVer, expect, name>>,
           storage' \in [Path -> 0..Dir], db' \in Db, file' \in [Ino -> 0..Torn],
           \A j \in Ino : file'[j] # 0 => file[j] # 0,
           \A q \in Path : Get(db, q) = NoNode => Get(db', q) = NoNode,
           \A j \in Ino : \A q \in Path : Lists(j, q)' => Lists(j, q),
           \A j \in Ino \ {i} : open'[j] = open[j],
           open[i] = NoNode => open'[i] = NoNode,
           open[i] # NoNode =>
                /\ open'[i] # NoNode /\ NodeTyped(open'[i])
                /\ open'[i].path = open[i].path /\ open'[i].deleted = open[i].deleted
                /\ open[i].valid => open'[i].valid
                /\ open'[i].sig = Dir => open[i].sig = Dir
                /\ open'[i].ref = open[i].ref,
           Known(i)' \/ (file'[i] = 0 /\ \A q \in Path : ~Lists(i, q)')
    PROVE  SerialInv'
<1>1. \A j \in Ino : \A k : Bears(j, k)' => Bears(j, k) \/ (j = i /\ open[i] # NoNode /\ k = open'[i])
  BY DEF Bears, Hand
<1>2. Typed'
  <2>1. (\A j \in Ino : \A k : Bears(j, k) => NodeTyped(k))'
    <3> SUFFICES ASSUME NEW j \in Ino, NEW k, Bears(j, k)' PROVE NodeTyped(k)
      BY DEF NodeTyped
    <3> QED BY <1>1 DEF SerialInv, Typed
  <2> QED BY <2>1 DEF SerialInv, Typed
<1>3. \A j \in Ino :
          /\ open[j] = NoNode <=> open'[j] = NoNode
          /\ open[j] # NoNode =>
                /\ open'[j].path = open[j].path /\ open'[j].deleted = open[j].deleted
                /\ open[j].valid => open'[j].valid
                /\ open'[j].sig = Dir => open[j].sig = Dir
                /\ open'[j].ref = open[j].ref
  OBVIOUS
<1>4. ASSUME NEW c \in Client PROVE ReqOK(c)'
  <2>1. ReqOK(c)
    BY DEF SerialInv, ClientsOK
  <2>2. CASE req[c].pc = "idle"
    BY <2>2 DEF ReqOK
  <2>3. CASE req[c].pc # "idle"
    <3>1. PICK j \in Ino : j = req[c].ino
      BY <2>1, <2>3 DEF SerialInv, ListInv, HandleInv, RequestTyped, ReqOK
    <3>2. req[c].pc \in {"key", "cs"} => open[j] # NoNode
      BY <3>1, RequestHasNode DEF SerialInv, ListInv
    <3> QED BY <1>3, <2>1, <3>1, <3>2 DEF ReqOK
  <2> QED BY <2>2, <2>3
<1>5. ASSUME NEW c \in Client PROVE HandleOK(c)'
  <2> SUFFICES ASSUME fh[c] # 0 PROVE HandleOK(c)'
    BY DEF HandleOK
  <2>1. HandleOK(c) /\ fh[c] \in Ino /\ open[fh[c]] # NoNode
    BY HandleHasNode DEF SerialInv, ClientsOK, ListInv
  <2>2. PICK j \in Ino : j = fh[c]
    BY <2>1
  <2> QED BY <1>3, <2>1, <2>2 DEF HandleOK
<1>6. ClientsOK'
  BY <1>4, <1>5 DEF ClientsOK
<1>7. Exact'
  <2>1. \A j \in Ino : Counted(j)' = Counted(j)
    BY <1>3 DEF Counted
  <2>2. \A j \in Ino : Handles(j) \subseteq Handles(j)' /\ Requests(j) \subseteq Requests(j)'
    BY DEF Handles, Requests
  <2> QED BY <2>1, <2>2, ExactKept DEF SerialInv, ListInv, HandleInv
<1>8. Fresh' /\ NegCoherent'
  BY DEF SerialInv, Fresh, NegCoherent, Typed
<1>9. Track'
  <2> SUFFICES ASSUME NEW j \in Ino, (\E p \in Path : Lists(j, p)') \/ file'[j] # 0
               PROVE  Known(j)'
    BY DEF Track
  <2>1. CASE j = i
    BY <2>1
  <2>2. CASE j # i
    <3>1. Known(j)
      BY DEF SerialInv, Track
    <3> QED BY <1>3, <2>2, <3>1 DEF Known
  <2> QED BY <2>1, <2>2
<1> QED BY <1>2, <1>6, <1>7, <1>8, <1>9 DEF SerialInv

\* What the loop finds to upload is a catalogued file.
LEMMA UploadsAt ==
    ASSUME SerialInv, Uploads(LockedNode)
    PROVE  \E i \in Ino, p \in Path :
             /\ i = loop.ino /\ loop.pc = "upcs" /\ mode # "down"
             /\ LockedNode = Get(db, p) /\ LockedNode.path = p /\ Lists(i, p) /\ Owns(i, p)
             /\ file[i] \in 1..Torn /\ storage[p] \notin {0, Dir}
<1>1. loop.pc = "upcs" /\ LockedNode # NoNode /\ file[loop.ino] # 0
  BY DEF Uploads
<1>2. PICK i \in Ino : i = loop.ino
  BY <1>1 DEF SerialInv, Phases
<1>3. PICK p \in Path : Lists(i, p) /\ LockedNode = Get(db, p)
  <2>1. CatalogTyped(db) /\ Consistent(db) /\ GetWithIno(db, i) # NoNode /\ LockedNode = GetWithIno(db, i)
    BY <1>1, <1>2 DEF SerialInv, ListInv, HandleInv, DataInv, LockedNode
  <2> QED BY <2>1, GetByIno
<1>4. Get(db, p).path = p /\ Owns(i, p)
  BY <1>3, OnePathEach, ListedOwns DEF SerialInv
<1>5. file[i] \in 1..Torn
  BY <1>1, <1>2, CacheAssumption DEF SerialInv, Typed, Torn
<1>6. storage[p] \notin {0, Dir}
  BY <1>3, <1>5 DEF SerialInv, DataInv, CatalogOK, Lists
<1>7. mode # "down"
  BY <1>1 DEF SerialInv, Phases
<1> QED BY <1>1, <1>2, <1>3, <1>4, <1>5, <1>6, <1>7

\* Another version of a file in the storage is as good.
LEMMA StoreVersion ==
    ASSUME SerialInv, NEW p \in Path, storage[p] \notin {0, Dir}, NEW v \in 1..Torn,
           storage' = [storage EXCEPT ![p] = v]
    PROVE  /\ storage' \in [Path -> 0..Dir] /\ v \notin {0, Dir} /\ v \in Sig
           /\ storage'[p] = v /\ (\A q \in Path \ {p} : storage'[q] = storage[q])
           /\ \A q \in Path : /\ storage'[q] = 0 <=> storage[q] = 0
                              /\ storage'[q] = Dir <=> storage[q] = Dir
<1>1. storage \in [Path -> 0..Dir] /\ v \in 0..Dir /\ v \notin {0, Dir} /\ Sig = 0..Dir
  BY CacheAssumption DEF SerialInv, Typed, Torn, Dir
<1> QED BY <1>1

\* An upload that fails may have replaced the object.
LEMMA failUploadInv ==
    ASSUME SerialInv, ListInv', failUpload
    PROVE  SerialInv'
<1>1. Uploads(LockedNode)
  BY DEF failUpload
<1>2. PICK i \in Ino, p \in Path :
             /\ i = loop.ino /\ loop.pc = "upcs" /\ mode # "down"
             /\ LockedNode = Get(db, p) /\ LockedNode.path = p /\ Lists(i, p) /\ Owns(i, p)
             /\ file[i] \in 1..Torn /\ storage[p] \notin {0, Dir}
  BY <1>1, UploadsAt
<1>3. PICK v \in 1..Torn : v = file[i]
  BY <1>2
<1>4. /\ LoopStep("uptouch", i, TRUE)
      /\ UNCHANGED <<db, nextIno, file, open, lru, negpres, req, fh, nextVer, expect, name, mode>>
      /\ UNCHANGED storage \/ storage' = [storage EXCEPT ![p] = v]
  BY <1>2, <1>3 DEF failUpload, pres, user
<1>5. Phases /\ Alone /\ Typed
  BY DEF SerialInv
<1>6. Phases' /\ loop'.ino = i
  BY <1>2, <1>4, <1>5, LoopPhases, LoopAt
<1>7. Alone'
  BY <1>4, <1>5 DEF Alone
<1>8. /\ storage' \in [Path -> 0..Dir]
      /\ \A q \in Path : /\ storage'[q] = 0 <=> storage[q] = 0
                         /\ storage'[q] = Dir <=> storage[q] = Dir
  BY <1>2, <1>3, <1>4, <1>5, StoreVersion DEF Typed
<1>9. \A j, k : Bears(j, k)' <=> Bears(j, k)
  BY <1>4 DEF Bears, Hand
<1>10. DataInv'
  <2>1. DataInv
    BY DEF SerialInv
  <2>2. \A q \in Path : NameOK(q)' /\ CatalogOK(q)'
    BY <1>4, <1>8, <2>1 DEF DataInv, NameOK, CatalogOK
  <2>3. ASSUME NEW j \in Ino, NEW k, Bears(j, k)' PROVE NodeOK(j, k)'
    BY <1>4, <1>8, <1>9, <2>1, <2>3 DEF DataInv, NodeOK, Lists
  <2>4. \A j \in Ino : LinkedOK(j)'
    BY <1>4, <2>1 DEF DataInv, LinkedOK, Lists
  <2>5. Unique' /\ Consistent(db')
    BY <1>4, <1>9, <2>1 DEF DataInv, Unique
  <2> QED BY <2>2, <2>3, <2>4, <2>5 DEF DataInv
<1>11. Known(i)'
  BY <1>6 DEF Known
<1>12. open[i] # NoNode => NodeTyped(open'[i])
  BY <1>4, <1>5 DEF Typed, Bears
<1>13. db' \in Db /\ file' \in [Ino -> 0..Torn]
  BY <1>4, <1>5 DEF Typed
<1>14. \A j \in Ino : \A q \in Path : Lists(j, q)' => Lists(j, q)
  BY <1>4 DEF Lists
<1>15. loop.ino = i
  BY <1>2
<1> QED BY <1>2, <1>4, <1>6, <1>7, <1>8, <1>10, <1>11, <1>12, <1>13, <1>14, <1>15, LoopData

\* A crash between the upload and its record.
LEMMA crashInUploadInv ==
    ASSUME SerialInv, ListInv', crashInUpload
    PROVE  SerialInv'
<1>1. Uploads(LockedNode)
  BY DEF crashInUpload
<1>2. PICK i \in Ino, p \in Path :
             /\ i = loop.ino /\ loop.pc = "upcs" /\ mode # "down"
             /\ LockedNode = Get(db, p) /\ LockedNode.path = p /\ Lists(i, p) /\ Owns(i, p)
             /\ file[i] \in 1..Torn /\ storage[p] \notin {0, Dir}
  BY <1>1, UploadsAt
<1>3. PICK v \in 1..Torn : v = file[i]
  BY <1>2
<1>4. /\ Shutdown /\ UNCHANGED <<db, nextIno, file, nextVer, expect>>
      /\ storage' = [storage EXCEPT ![p] = v]
  BY <1>2, <1>3 DEF crashInUpload
<1>5. /\ storage' \in [Path -> 0..Dir]
      /\ \A q \in Path : /\ storage'[q] = 0 <=> storage[q] = 0
                         /\ storage'[q] = Dir <=> storage[q] = Dir
  BY <1>2, <1>3, <1>4, StoreVersion
<1>6. \A q \in Path : NameOK(q)' /\ CatalogOK(q)'
  BY <1>4, <1>5 DEF SerialInv, DataInv, NameOK, CatalogOK
<1>7. file' \in [Ino -> 0..Torn] /\ \A j \in Ino : file'[j] # 0 => j < nextIno
  BY <1>4 DEF SerialInv, Typed, Fresh
<1> QED BY <1>4, <1>5, <1>6, <1>7, SameUser, ShutdownInv

\* A crash after Create or Mkdir has made its object, which the catalog does not
\* know yet.
LEMMA crashInMakeInv ==
    ASSUME SerialInv, ListInv', NEW c \in Client, crashInMake(c)
    PROVE  SerialInv'
<1>1. req[c].pc = "cs" /\ req[c].op \in {"create", "mkdir"}
  BY DEF crashInMake, InSection
<1>2. PICK i \in Ino, p \in Path : At(c, i, p)
  BY <1>1, SectionFacts DEF At
<1>3. req[c].ino = i /\ open[i].path = p /\ req[c].path = p /\ NodeOK(i, open[i])
  BY <1>1, <1>2, SectionFacts DEF At, PathOps
<1>4. PICK v : v = IF req[c].op = "mkdir" THEN Dir ELSE nextVer
  OBVIOUS
<1>5. /\ ~open[i].deleted /\ ~open[i].valid /\ Shutdown /\ UNCHANGED <<db, nextIno, file>>
      /\ storage' = [storage EXCEPT ![p] = v] /\ expect' = [expect EXCEPT ![p] = v]
      /\ nextVer' = IF v = Dir THEN nextVer ELSE nextVer + 1
  BY <1>3, <1>4 DEF crashInMake
<1>6. Get(db, p) = NoNode
  BY <1>3, <1>5 DEF NodeOK, Lists
<1>7. /\ v \in 1..MaxVer \cup {Dir} /\ v # 0 /\ v \in 0..Dir /\ v \in 0..MaxVer \cup {Dir}
      /\ nextVer' \in 1..MaxVer + 1
  <2>1. nextVer \in 1..MaxVer + 1 /\ (req[c].op = "create" => nextVer \in 1..MaxVer)
    BY <1>1 DEF SerialInv, Typed, ClientsOK, ReqOK
  <2>2. MaxVer \in Nat /\ Dir = MaxVer + 2
    BY CacheAssumption DEF Dir
  <2>3. CASE req[c].op = "mkdir"
    <3>1. v = Dir /\ nextVer' = nextVer
      BY <1>4, <1>5, <2>3
    <3> QED BY <2>1, <2>2, <3>1
  <2>4. CASE req[c].op = "create"
    <3>1. v = nextVer /\ v \in 1..MaxVer /\ v # Dir
      BY <1>4, <2>1, <2>2, <2>4
    <3>2. nextVer' = v + 1
      BY <1>5, <3>1
    <3> QED BY <2>2, <3>1, <3>2
  <2> QED BY <1>1, <2>3, <2>4
<1>8. storage \in [Path -> 0..Dir] /\ expect \in [Path -> 0..MaxVer \cup {Dir}]
  BY DEF SerialInv, Typed
<1>9. storage' \in [Path -> 0..Dir] /\ expect' \in [Path -> 0..MaxVer \cup {Dir}]
  BY <1>5, <1>7, <1>8
<1>10. ASSUME NEW q \in Path PROVE NameOK(q)' /\ CatalogOK(q)'
  <2>1. NameOK(q) /\ CatalogOK(q)
    BY DEF SerialInv, DataInv
  <2>2. CASE q = p
    <3>1. storage'[q] = v /\ expect'[q] = v /\ Get(db', q) = NoNode
      BY <1>5, <1>6, <1>8, <2>2
    <3> QED BY <3>1 DEF NameOK, CatalogOK
  <2>3. CASE q # p
    <3>1. storage'[q] = storage[q] /\ expect'[q] = expect[q]
      BY <1>5, <1>8, <2>3
    <3> QED BY <1>5, <2>1, <3>1 DEF NameOK, CatalogOK
  <2> QED BY <2>2, <2>3
<1>11. file' \in [Ino -> 0..Torn] /\ \A j \in Ino : file'[j] # 0 => j < nextIno
  BY <1>5 DEF SerialInv, Typed, Fresh
<1> QED BY <1>5, <1>7, <1>9, <1>10, <1>11, ShutdownInv

\* A catalogued node with another version is a node of the catalog.
LEMMA Versioned ==
    ASSUME NEW n \in DbNode, NEW v \in Sig
    PROVE  /\ [n EXCEPT !.sig = v, !.hash = v] \in DbNode
           /\ [n EXCEPT !.sig = v, !.hash = v].ino = n.ino
           /\ [n EXCEPT !.sig = v, !.hash = v].path = n.path
           /\ [n EXCEPT !.sig = v, !.hash = v].sig = v
           /\ [n EXCEPT !.sig = v, !.hash = v].hash = v
<1> DEFINE s == [n EXCEPT !.sig = v]
           t == [s EXCEPT !.hash = v]
<1>1. s \in DbNode /\ s.ino = n.ino /\ s.path = n.path /\ s.sig = v
  BY DEF DbNode
<1>2. [n EXCEPT !.sig = v, !.hash = v] = t
  OBVIOUS
<1> HIDE DEF s
<1>3. t \in DbNode /\ t.ino = s.ino /\ t.path = s.path /\ t.sig = s.sig /\ t.hash = v
  BY <1>1 DEF DbNode
<1> HIDE DEF t
<1> QED BY <1>1, <1>2, <1>3

\* The node that is open while its file is uploaded.
LEMMA UploadedFields ==
    ASSUME NEW n, IsNode(n), NEW v
    PROVE  Fields([CopyStat(n, v) EXCEPT !.hash = v],
                  n.ino, n.path, v, v, TRUE, n.deleted, n.fd, n.ref)
<1> DEFINE s == CopyStat(n, v)
           t == [s EXCEPT !.hash = v]
<1>1. Fields(s, n.ino, n.path, v, n.hash, TRUE, n.deleted, n.fd, n.ref)
  BY CopyStatFields
<1> HIDE DEF s
<1>2. Fields(t, s.ino, s.path, s.sig, v, s.valid, s.deleted, s.fd, s.ref)
  BY <1>1, SetHash DEF Fields
<1>3. t = [CopyStat(n, v) EXCEPT !.hash = v]
  BY DEF s
<1> HIDE DEF t
<1> QED BY <1>1, <1>2, <1>3 DEF Fields

\* An upload records the version that it has stored.
LEMMA uploadInv ==
    ASSUME SerialInv, ListInv', upload, ~IsNode(NoNode)
    PROVE  SerialInv'
<1>1. Uploads(LockedNode)
  BY DEF upload
<1>2. PICK i \in Ino, p \in Path :
             /\ i = loop.ino /\ loop.pc = "upcs" /\ mode # "down"
             /\ LockedNode = Get(db, p) /\ LockedNode.path = p /\ Lists(i, p) /\ Owns(i, p)
             /\ file[i] \in 1..Torn /\ storage[p] \notin {0, Dir}
  BY <1>1, UploadsAt
<1>3. PICK v \in 1..Torn : v = file[i]
  BY <1>2
<1>4. PICK n : n = Get(db, p)
  OBVIOUS
<1>5. PICK t : t = [n EXCEPT !.sig = v, !.hash = v]
  OBVIOUS
<1>6. /\ LoopStep("uptouch", i, FALSE)
      /\ UNCHANGED <<nextIno, file, lru, negpres, req, fh, nextVer, expect, name, mode>>
      /\ storage' = [storage EXCEPT ![p] = v] /\ db' = PutNode(db, t, p)
      /\ open' = IF open[i] = NoNode THEN open
                 ELSE [open EXCEPT ![i] = [CopyStat(open[i], v) EXCEPT !.hash = v]]
  BY <1>2, <1>3, <1>4, <1>5 DEF upload, pres, user
<1>7. /\ Phases /\ Alone /\ Typed /\ DataInv /\ CatalogTyped(db) /\ Consistent(db) /\ db \in Db
      /\ OpenTyped
  BY DEF SerialInv, ListInv, HandleInv, DataInv, Typed
<1>8. /\ storage' \in [Path -> 0..Dir] /\ v \notin {0, Dir} /\ v \in Sig
      /\ storage'[p] = v /\ (\A q \in Path \ {p} : storage'[q] = storage[q])
      /\ \A q \in Path : /\ storage'[q] = 0 <=> storage[q] = 0
                         /\ storage'[q] = Dir <=> storage[q] = Dir
  BY <1>2, <1>3, <1>6, StoreVersion
<1>9. n \in DbNode /\ n # NoNode /\ n.ino = i /\ n.path = p
  BY <1>2, <1>4, <1>7 DEF Lists, Db, Get
<1>10. t \in DbNode /\ t # NoNode /\ t.ino = i /\ t.path = p /\ t.sig = v
  <2>1. t \in DbNode /\ t.ino = n.ino /\ t.path = n.path /\ t.sig = v
    BY <1>5, <1>8, <1>9, Versioned
  <2> QED BY <1>9, <2>1, AbsentAssumption DEF DbNode
<1>11. /\ db' \in Db /\ Consistent(db') /\ Get(db', p) = t
       /\ \A q \in Path \ {p} : Get(db', q) = Get(db, q)
  <2>1. db' \in Db
    BY <1>6, <1>7, <1>10, UpdateTypes
  <2>2. db.idx[i] = p
    BY <1>2, <1>7 DEF Lists, Consistent
  <2>3. Consistent(db')
    BY <1>4, <1>6, <1>7, <1>9, <1>10, <2>2, PutKeepsConsistent
  <2> QED BY <1>6, <1>7, <2>1, <2>3, PutAt
<1>12. Phases' /\ loop'.ino = i
  <2>1. \A j \in Ino : open[j] = NoNode => open'[j] = NoNode
    BY <1>6, <1>7 DEF OpenTyped
  <2> QED BY <1>2, <1>6, <1>7, <2>1, LoopPhases, LoopAt
<1>13. Alone'
  BY <1>6, <1>7 DEF Alone
<1>14. /\ \A j \in Ino \ {i} : open'[j] = open[j]
       /\ open[i] = NoNode => open'[i] = NoNode
  BY <1>6, <1>7 DEF OpenTyped
<1>15. ASSUME open[i] # NoNode
       PROVE  /\ open'[i] # NoNode /\ NodeTyped(open'[i])
              /\ open'[i].path = open[i].path /\ open'[i].deleted = open[i].deleted
              /\ open'[i].valid /\ open'[i].sig = v /\ open'[i].fd = open[i].fd
              /\ open'[i].ref = open[i].ref
              /\ open[i].path = p /\ ~open[i].deleted
  <2>1. PICK k : k = open[i] /\ IsNode(k)
    BY <1>7, <1>15 DEF OpenTyped
  <2>2. Bears(i, k)
    BY <1>15, <2>1 DEF Bears
  <2>3. NodeOK(i, k) /\ NodeTyped(k) /\ k.path = p
    BY <1>2, <1>7, <2>2, OnePathEach DEF SerialInv, DataInv, Typed
  <2>4. ~k.deleted
    BY <1>2, <2>3 DEF NodeOK
  <2>5. PICK m : m = [CopyStat(k, v) EXCEPT !.hash = v]
    OBVIOUS
  <2>6. Fields(m, k.ino, k.path, v, v, TRUE, k.deleted, k.fd, k.ref)
    BY <2>1, <2>5, UploadedFields
  <2>7. open'[i] = m
    BY <1>6, <1>7, <1>15, <2>1, <2>5 DEF OpenTyped
  <2>8. m # NoNode /\ NodeTyped(m)
    BY <1>8, <2>3, <2>6 DEF Fields, NodeTyped
  <2> QED BY <2>1, <2>3, <2>4, <2>6, <2>7, <2>8 DEF Fields
<1>16. \A j \in Ino : \A k : Bears(j, k)' => Bears(j, k) \/ (j = i /\ open[i] # NoNode /\ k = open'[i])
  BY <1>6, <1>14 DEF Bears, Hand
<1>17. \A j \in Ino : \A q \in Path : Lists(j, q)' <=> Lists(j, q)
  BY <1>2, <1>9, <1>10, <1>11 DEF Lists
<1>18. DataInv'
  <2>1. NameOK(p)' /\ CatalogOK(p)'
    BY <1>2, <1>6, <1>7, <1>8, <1>10, <1>11 DEF DataInv, NameOK, CatalogOK
  <2>2. LinkedOK(i)'
    <3>1. CASE open[i] = NoNode
      BY <1>14, <3>1 DEF LinkedOK
    <3>2. CASE open[i] # NoNode
      <4>1. LinkedOK(i) /\ Lists(i, p)'
        BY <1>2, <1>7, <1>17 DEF DataInv
      <4> QED BY <1>6, <1>15, <3>2, <4>1 DEF LinkedOK
    <3> QED BY <3>1, <3>2
  <2>3. ASSUME NEW k, Bears(i, k)' PROVE k.path = p /\ NodeOK(i, k)'
    <3>1. Lists(i, p)'
      BY <1>2, <1>17
    <3>2. CASE Bears(i, k)
      <4>1. NodeOK(i, k) /\ k.path = p
        BY <1>2, <1>7, <3>2, OnePathEach DEF SerialInv, DataInv
      <4>2. ~k.deleted /\ k.valid /\ (k.sig = Dir <=> storage[p] = Dir)
        BY <1>2, <4>1 DEF NodeOK
      <4> QED BY <1>8, <1>10, <1>11, <3>1, <4>1, <4>2 DEF NodeOK
    <3>3. CASE open[i] # NoNode /\ k = open'[i]
      BY <1>8, <1>10, <1>11, <1>15, <3>1, <3>3 DEF NodeOK
    <3> QED BY <1>16, <2>3, <3>2, <3>3
  <2>4. \A q \in Path \ {p} :
            /\ storage'[q] = storage[q] /\ expect'[q] = expect[q]
            /\ Get(db', q) = Get(db, q)
    BY <1>6, <1>8, <1>11
  <2>5. \A j \in Ino \ {i} : file'[j] = file[j] /\ open'[j] = open[j]
    BY <1>6, <1>14
  <2>6. \A j \in Ino \ {i} : \A k : Bears(j, k)' => Bears(j, k)
    BY <1>16
  <2>7. Get(db', p) # NoNode => Get(db', p).ino = i
    BY <1>10, <1>11
  <2> QED BY <1>2, <1>7, <1>11, <2>1, <2>2, <2>3, <2>4, <2>5, <2>6, <2>7, LocalData
<1>19. Known(i)'
  BY <1>12 DEF Known
<1>20. /\ file' \in [Ino -> 0..Torn] /\ (\A j \in Ino : file'[j] # 0 => file[j] # 0)
       /\ \A q \in Path : Get(db, q) = NoNode => Get(db', q) = NoNode
  <2>1. Get(db, p) # NoNode
    BY <1>4, <1>9
  <2> QED BY <1>6, <1>7, <1>11, <2>1 DEF Typed
<1>21. loop.ino = i
  BY <1>2
<1> QED BY <1>2, <1>6, <1>8, <1>11, <1>12, <1>13, <1>14, <1>15, <1>17, <1>18, <1>19, <1>20, <1>21, LoopData

\* evictOne removes a file that no node accounts for: whoever still has it open
\* has deleted it.
LEMMA DropsInv ==
    ASSUME SerialInv, ListInv', NEW i \in Ino, loop.ino = i, loop.pc = "evcs",
           LockedNode = NoNode, RemoveFile(i), UNCHANGED db, LoopStep("evict", 0, FALSE),
           UNCHANGED <<storage, nextIno, lru, negpres, req, fh, nextVer, expect, name, mode>>
    PROVE  SerialInv'
<1>1. /\ Phases /\ Alone /\ Typed /\ DataInv /\ CatalogTyped(db) /\ Consistent(db) /\ OpenTyped
      /\ mode # "down" /\ file \in [Ino -> 0..Torn]
  BY DEF SerialInv, ListInv, HandleInv, DataInv, Typed, Phases
<1>2. \A q \in Path : ~Lists(i, q)
  <2>1. GetWithIno(db, i) = NoNode
    BY DEF LockedNode
  <2> QED BY <1>1, <2>1, GetByIno DEF Lists
<1>3. /\ file' = [file EXCEPT ![i] = 0] /\ file'[i] = 0
      /\ \A j \in Ino \ {i} : file'[j] = file[j]
  BY <1>1 DEF RemoveFile
<1>4. file' \in [Ino -> 0..Torn] /\ \A j \in Ino : file'[j] # 0 => file[j] # 0
  BY <1>1, <1>3, CacheAssumption DEF Torn
<1>5. \A k : Bears(i, k) => NodeOK(i, k) /\ NodeTyped(k) /\ (file[i] # 0 => k.deleted /\ k.valid)
  <2>1. ASSUME NEW k, Bears(i, k) PROVE NodeOK(i, k) /\ NodeTyped(k)
    BY <1>1, <2>1 DEF DataInv, Typed
  <2> QED BY <1>2, <2>1 DEF NodeOK
<1>6. CASE open[i] # NoNode /\ open[i].fd = "linked"
  <2>1. PICK n : n = open[i] /\ IsNode(n)
    BY <1>1, <1>6 DEF OpenTyped
  <2>2. Bears(i, n) /\ LinkedOK(i)
    BY <1>1, <1>6, <2>1 DEF Bears, DataInv
  <2>3. NodeOK(i, n) /\ NodeTyped(n)
    BY <1>5, <2>2
  <2>4. n.deleted /\ n.valid
    BY <1>2, <1>6, <2>1, <2>2, <2>3 DEF NodeOK, LinkedOK
  <2>5. PICK m : m = [n EXCEPT !.fd = "orphan"]
    OBVIOUS
  <2>6. Fields(m, n.ino, n.path, n.sig, n.hash, n.valid, n.deleted, "orphan", n.ref)
    BY <2>1, <2>5, SetFd
  <2>7. open' = [open EXCEPT ![i] = m]
    BY <1>6, <2>1, <2>5 DEF RemoveFile
  <2>8. open'[i] = m /\ \A j \in Ino \ {i} : open'[j] = open[j]
    BY <1>1, <2>7 DEF OpenTyped
  <2>9. ASSUME NEW c \in Client, Hand(c) PROVE req[c].ino # i
    <3>1. ReqOK(c)
      BY DEF SerialInv, ClientsOK
    <3> QED BY <1>6, <2>1, <2>4, <2>9, <3>1 DEF ReqOK, Hand
  <2>10. \A j \in Ino : \A k : Bears(j, k)' => (IF j = i THEN k = m ELSE Bears(j, k))
    BY <2>8, <2>9 DEF Bears, Hand
  <2>11. Dead(i)
    BY <1>2, <2>4, <2>6, <2>10 DEF Dead, Fields
  <2>12. DataInv'
    <3>1. ASSUME NEW j \in Ino, NEW k, Bears(j, k)'
          PROVE  \E l : Bears(j, l) /\ (Alike(k, l) \/ (l.path = k.path /\ l.deleted /\ Dead(j)))
      <4>1. CASE j = i
        <5>1. k = m
          BY <2>10, <3>1, <4>1
        <5>2. Bears(j, n) /\ n.path = k.path /\ n.deleted /\ Dead(j)
          BY <2>2, <2>4, <2>6, <2>11, <4>1, <5>1 DEF Fields
        <5> QED BY <5>2
      <4>2. CASE j # i
        BY <2>10, <3>1, <4>2 DEF Alike
      <4> QED BY <4>1, <4>2
    <3>2. \A j \in Ino : open'[j] # NoNode =>
              open'[j].deleted \/ (open[j] # NoNode /\ Alike(open'[j], open[j]))
      BY <2>4, <2>6, <2>8 DEF Fields, Alike
    <3>3. \A j \in Ino : file'[j] = file[j] \/ Dead(j)
      BY <1>3, <2>11
    <3> QED BY <1>1, <3>1, <3>2, <3>3, QuietData
  <2>13. m # NoNode
    <3>1. open[i] # NoNode => IsNode(open[i])
      BY <1>1 DEF OpenTyped
    <3>2. OpenTyped'
      BY DEF ListInv, HandleInv
    <3>3. Handles(i)' = Handles(i) /\ Requests(i)' = Requests(i)
      BY DEF Handles, Requests
    <3>4. References(i)' = References(i)
      BY <3>3, ReferencesAre
    <3>5. Counted(i) <= References(i) /\ Counted(i) \in Nat \ {0}
      BY <1>1, <1>6, <2>1 DEF SerialInv, Exact, Counted, OpenTyped
    <3>6. References(i)' <= Counted(i)' /\ References(i) \in Nat
      BY ReferencesAre DEF ListInv, HandleInv, CountInv
    <3> QED BY <2>8, <3>4, <3>5, <3>6 DEF Counted
  <2>14. Phases'
    <3>1. \A j \in Ino : open[j] = NoNode => open'[j] = NoNode
      BY <1>6, <2>8
    <3> QED BY <1>1, <3>1, LoopPhases
  <2>15. Alone'
    BY <1>1 DEF Alone
  <2>16. NodeTyped(m)
    BY <2>3, <2>6 DEF NodeTyped, Fields
  <2>17. /\ db' \in Db /\ storage' \in [Path -> 0..Dir]
         /\ \A j \in Ino : \A q \in Path : Lists(j, q)' => Lists(j, q)
    BY <1>1 DEF Typed, Lists
  <2>18. \A q \in Path : ~Lists(i, q)'
    BY <1>2, <2>17
  <2>19. open[i] # NoNode =>
                /\ open'[i] # NoNode /\ NodeTyped(open'[i])
                /\ open'[i].path = open[i].path /\ open'[i].deleted = open[i].deleted
                /\ open[i].valid => open'[i].valid
                /\ open'[i].sig = Dir => open[i].sig = Dir
                /\ open'[i].ref = open[i].ref
    BY <2>1, <2>6, <2>8, <2>13, <2>16 DEF Fields
  <2> QED BY <1>1, <1>3, <1>4, <1>6, <2>8, <2>12, <2>14, <2>15, <2>17, <2>18, <2>19, LoopData
<1>7. CASE ~(open[i] # NoNode /\ open[i].fd = "linked")
  <2>1. open' = open
    BY <1>7 DEF RemoveFile
  <2>2. \A j \in Ino : \A k : Bears(j, k)' <=> Bears(j, k)
    BY <2>1 DEF Bears, Hand
  <2>3. file'[i] = file[i] \/ Dead(i)
    BY <1>2, <1>3, <1>5, <2>2 DEF Dead
  <2>4. DataInv'
    <3>1. \A j \in Ino : \A k : Bears(j, k)' => Bears(j, k) /\ Alike(k, k)
      BY <2>2 DEF Alike
    <3>2. \A j \in Ino : open'[j] # NoNode => open[j] # NoNode /\ Alike(open'[j], open[j])
      BY <2>1 DEF Alike
    <3>3. \A j \in Ino : file'[j] = file[j] \/ Dead(j)
      BY <1>3, <2>3
    <3> QED BY <1>1, <3>1, <3>2, <3>3, QuietData
  <2>5. Phases'
    BY <1>1, <2>1, LoopPhases
  <2>6. Alone'
    BY <1>1 DEF Alone
  <2>7. /\ db' \in Db /\ storage' \in [Path -> 0..Dir]
        /\ \A j \in Ino : \A q \in Path : Lists(j, q)' => Lists(j, q)
    BY <1>1 DEF Typed, Lists
  <2>8. \A q \in Path : ~Lists(i, q)'
    BY <1>2, <2>7
  <2>9. open[i] # NoNode => NodeTyped(open'[i])
    BY <1>5, <2>1 DEF Bears
  <2> QED BY <1>1, <1>3, <1>4, <2>1, <2>4, <2>5, <2>6, <2>7, <2>8, <2>9, LoopData
<1> QED BY <1>6, <1>7

\* The section of evictOne.
LEMMA evictInv ==
    ASSUME SerialInv, ListInv', evict
    PROVE  SerialInv'
<1>1. /\ loop.pc = "evcs" /\ LoopStep("evict", 0, FALSE)
      /\ UNCHANGED <<storage, nextIno, lru, negpres, req, fh, nextVer, expect, name, mode>>
  BY DEF evict, pres, user
<1>2. PICK i \in Ino : i = loop.ino
  BY <1>1 DEF SerialInv, Phases
<1>3. /\ Phases /\ Alone /\ Typed /\ DataInv /\ CatalogTyped(db) /\ Consistent(db) /\ OpenTyped
      /\ mode # "down" /\ file \in [Ino -> 0..Torn] /\ db \in Db
  BY <1>1 DEF SerialInv, ListInv, HandleInv, DataInv, Typed, Phases
<1>4. CASE LockedNode = NoNode
  <2>1. RemoveFile(i) /\ UNCHANGED db
    BY <1>2, <1>4 DEF evict
  <2> QED BY <1>1, <1>2, <1>4, <2>1, DropsInv
<1>5. CASE LockedNode # NoNode /\ InUse(i) /\ UNCHANGED <<db, file, open>>
  <2>1. Phases'
    BY <1>1, <1>3, <1>5, LoopPhases
  <2>2. Alone'
    BY <1>1, <1>3 DEF Alone
  <2>3. \A j, k : Bears(j, k)' <=> Bears(j, k)
    BY <1>1, <1>5 DEF Bears, Hand
  <2>4. DataInv'
    <3>1. \A j \in Ino : \A k : Bears(j, k)' => Bears(j, k) /\ Alike(k, k)
      BY <2>3 DEF Alike
    <3>2. \A j \in Ino : open'[j] # NoNode => open[j] # NoNode /\ Alike(open'[j], open[j])
      BY <1>5 DEF Alike
    <3> QED BY <1>1, <1>3, <1>5, <3>1, <3>2, QuietData
  <2>5. /\ db' \in Db /\ storage' \in [Path -> 0..Dir] /\ file' \in [Ino -> 0..Torn]
        /\ \A j \in Ino : \A q \in Path : Lists(j, q)' => Lists(j, q)
    BY <1>1, <1>3, <1>5 DEF Typed, Lists
  <2>6. Known(i)'
    BY <1>1, <1>5 DEF Known, InUse
  <2>7. open[i] # NoNode => NodeTyped(open'[i])
    BY <1>3, <1>5 DEF Bears, Typed
  <2> QED BY <1>1, <1>2, <1>3, <1>5, <2>1, <2>2, <2>4, <2>5, <2>6, <2>7, LoopData
<1>6. CASE /\ LockedNode # NoNode /\ ~InUse(i) /\ RemoveFile(i)
           /\ db' = DeleteNode(db, LockedNode.path)
  <2>1. PICK p \in Path : Lists(i, p) /\ LockedNode = Get(db, p)
    BY <1>2, <1>3, <1>6, GetByIno DEF LockedNode
  <2>2. LockedNode.path = p /\ Owns(i, p) /\ open[i] = NoNode /\ open' = open
    BY <1>6, <2>1, OnePathEach, ListedOwns DEF SerialInv, InUse, RemoveFile
  <2>3. db' = DeleteNode(db, p)
    BY <1>6, <2>2
  <2>4. /\ db' \in Db /\ Consistent(db') /\ Get(db', p) = NoNode
        /\ \A q \in Path \ {p} : Get(db', q) = Get(db, q)
    BY <1>3, <2>3, UpdateTypes, DeleteKeepsConsistent, DeleteAt
  <2>5. /\ file' = [file EXCEPT ![i] = 0] /\ file'[i] = 0
        /\ \A j \in Ino \ {i} : file'[j] = file[j]
    BY <1>3, <1>6 DEF RemoveFile
  <2>6. file' \in [Ino -> 0..Torn] /\ \A j \in Ino : file'[j] # 0 => file[j] # 0
    BY <1>3, <2>5, CacheAssumption DEF Torn
  <2>7. \A j, k : Bears(j, k)' <=> Bears(j, k)
    BY <1>1, <2>2 DEF Bears, Hand
  <2>8. ASSUME NEW k, Bears(i, k)' PROVE k.path = p /\ NodeOK(i, k)'
    <3>1. NodeOK(i, k) /\ k.path = p /\ Bears(i, k)
      BY <1>3, <2>1, <2>7, <2>8, OnePathEach DEF SerialInv, DataInv
    <3>2. Evicts
      <4>1. \E c \in Client : req[c].pc # "idle"
        BY <2>2, <3>1 DEF Bears, Hand
      <4> QED BY <1>1, <1>3, <4>1 DEF Phases, Alone
    <3>3. k.valid /\ ~k.deleted
      BY <2>1, <3>1 DEF NodeOK
    <3> QED BY <1>1, <2>4, <2>5, <3>1, <3>2, <3>3 DEF NodeOK, Lists
  <2>9. DataInv'
    <3>1. NameOK(p)' /\ CatalogOK(p)'
      BY <1>1, <1>3, <2>4 DEF DataInv, NameOK, CatalogOK
    <3>2. LinkedOK(i)'
      BY <2>2 DEF LinkedOK
    <3>3. \A q \in Path \ {p} :
            /\ storage'[q] = storage[q] /\ expect'[q] = expect[q]
            /\ Get(db', q) = Get(db, q)
      BY <1>1, <2>4
    <3>4. \A j \in Ino \ {i} : file'[j] = file[j] /\ open'[j] = open[j]
      BY <2>2, <2>5
    <3> QED BY <1>3, <2>2, <2>4, <2>7, <2>8, <3>1, <3>2, <3>3, <3>4, LocalData
  <2>10. Phases'
    BY <1>1, <1>3, <2>2, LoopPhases
  <2>11. Alone'
    BY <1>1, <1>3 DEF Alone
  <2>12. /\ \A j \in Ino : \A q \in Path : Lists(j, q)' => Lists(j, q)
         /\ \A q \in Path : ~Lists(i, q)'
         /\ \A q \in Path : Get(db, q) = NoNode => Get(db', q) = NoNode
    BY <2>2, <2>4 DEF Lists, Owns
  <2>13. storage' \in [Path -> 0..Dir] /\ loop.ino = i
    BY <1>1, <1>2, <1>3 DEF Typed
  <2> QED BY <1>1, <1>3, <2>2, <2>4, <2>5, <2>6, <2>9, <2>10, <2>11, <2>12, <2>13, LoopData
<1>7. \/ LockedNode = NoNode
      \/ LockedNode # NoNode /\ InUse(i) /\ UNCHANGED <<db, file, open>>
      \/ LockedNode # NoNode /\ ~InUse(i) /\ RemoveFile(i) /\ db' = DeleteNode(db, LockedNode.path)
  BY <1>2 DEF evict
<1> QED BY <1>4, <1>5, <1>6, <1>7

-----------------------------------------------------------------------------
(* OpenCache *)

\* OpenCache lists what the catalog has.
LEMMA OpenCacheElems ==
    ASSUME SerialInv, NEW m, OpenCache(m)
    PROVE  /\ Elems(lru.rw)' \cup Elems(lru.ro)' \subseteq Ino
           /\ \A i \in Ino : (\E p \in Path : Lists(i, p)) =>
                i \in Elems(lru.rw)' \cup Elems(lru.ro)'
<1> DEFINE kept == [i \in Ino |-> IF GetWithIno(db, i) = NoNode THEN 0 ELSE file[i]]
           T(d) == {k \in Path : Get(db, k) # NoNode /\ Dirty(Get(db, k), kept) = d}
           keys(d) == Sift(KeyOrder, T(d))
           inos(d) == [j \in DOMAIN keys(d) |-> Get(db, keys(d)[j]).ino]
<1>1. lru' = [rw |-> inos(TRUE), ro |-> inos(FALSE)]
  BY DEF OpenCache
<1>2. CatalogTyped(db)
  BY DEF SerialInv, ListInv, HandleInv
<1>3. ASSUME NEW d
      PROVE  Elems(inos(d)) = {Get(db, k).ino : k \in T(d)}
  <2> DEFINE s == keys(d)
             t == inos(d)
  <2>1. s \in Seq(Path) /\ Elems(s) = Path \cap T(d)
    <3> HIDE DEF T
    <3> QED BY CacheAssumption, SiftProps
  <2>2. t = [j \in DOMAIN s |-> Get(db, s[j]).ino]
    OBVIOUS
  <2>3. T(d) \subseteq Path
    OBVIOUS
  <2> HIDE DEF s, t, T
  <2>4. Elems(s) = T(d) /\ DOMAIN t = DOMAIN s
    BY <2>1, <2>2, <2>3
  <2>5. Elems(t) = {Get(db, k).ino : k \in T(d)}
    BY <2>2, <2>4 DEF Elems
  <2> QED BY <2>5 DEF t
<1>4. \A k \in Path : Get(db, k) # NoNode => k \in T(TRUE) \/ k \in T(FALSE)
  <2>1. \A k \in Path : Dirty(Get(db, k), kept) \in BOOLEAN
    BY DEF Dirty
  <2> HIDE DEF kept
  <2> QED BY <2>1
<1>5. \A d : \A k \in T(d) : k \in Path /\ Get(db, k) # NoNode
  OBVIOUS
<1> DEFINE rw == inos(TRUE)
           ro == inos(FALSE)
<1>6. /\ Elems(rw) = {Get(db, k).ino : k \in T(TRUE)}
      /\ Elems(ro) = {Get(db, k).ino : k \in T(FALSE)}
      /\ lru' = [rw |-> rw, ro |-> ro]
  BY <1>1, <1>3
<1> HIDE DEF T, inos, rw, ro
<1>7. Elems(lru.rw)' = Elems(rw) /\ Elems(lru.ro)' = Elems(ro)
  BY <1>6
<1>8. Elems(lru.rw)' \cup Elems(lru.ro)' \subseteq Ino
  BY <1>2, <1>5, <1>6, <1>7 DEF CatalogTyped
<1>9. ASSUME NEW i \in Ino, NEW p \in Path, Lists(i, p)
      PROVE  i \in Elems(lru.rw)' \cup Elems(lru.ro)'
  BY <1>4, <1>6, <1>7, <1>9 DEF Lists
<1> QED BY <1>8, <1>9

\* OpenCache keeps the files that nodes account for, and lists their inodes.
LEMMA OpenCacheInv ==
    ASSUME SerialInv, ListInv', NEW m \in {"start", "reset"}, OpenCache(m)
    PROVE  SerialInv'
<1>1. /\ mode = "down" /\ mode' = m
      /\ file' = [i \in Ino |-> IF GetWithIno(db, i) = NoNode THEN 0 ELSE file[i]]
      /\ loop' = [LoopIdle EXCEPT !.pc = "upload", !.force = TRUE]
      /\ UNCHANGED <<storage, db, nextIno, open, negpres, req, fh, nextVer, expect, name>>
  BY DEF OpenCache, pres, user
<1>2. loop' = [pc |-> "upload", ino |-> 0, err |-> FALSE, force |-> TRUE]
  BY <1>1 DEF LoopIdle
<1>3. loop'.pc = "upload" /\ loop'.ino = 0 /\ loop'.err = FALSE /\ loop'.force = TRUE
  BY <1>2
<1>4. /\ Phases /\ Alone /\ Typed /\ DataInv /\ CatalogTyped(db) /\ Consistent(db)
      /\ file \in [Ino -> 0..Torn]
  BY DEF SerialInv, ListInv, HandleInv, DataInv, Typed
<1>5. /\ \A i \in Ino : open[i] = NoNode
      /\ \A c \in Client : fh[c] = 0 /\ req[c].pc = "idle"
  BY <1>1, <1>4 DEF Phases, Alone
<1>6. Alone' /\ Phases'
  BY <1>1, <1>2, <1>3, <1>4, <1>5 DEF Phases, Alone
<1>7. \A i \in Ino : \A n : ~Bears(i, n)'
  BY <1>1, <1>5 DEF Bears, Hand
<1>8. \A i \in Ino : file'[i] \in {0, file[i]}
  BY <1>1
<1>9. DataInv'
  <2>1. \A p \in Path : NameOK(p)' /\ CatalogOK(p)'
    <3> SUFFICES ASSUME NEW p \in Path PROVE NameOK(p)' /\ CatalogOK(p)'
      OBVIOUS
    <3>1. NameOK(p) /\ CatalogOK(p)
      BY <1>4 DEF DataInv
    <3>2. Get(db, p) # NoNode => Get(db, p).ino \in Ino
      BY <1>4 DEF CatalogTyped
    <3> QED BY <1>1, <1>8, <3>1, <3>2 DEF NameOK, CatalogOK
  <2>2. Unique' /\ \A i \in Ino : LinkedOK(i)' /\ \A n : Bears(i, n)' => NodeOK(i, n)'
    BY <1>1, <1>5, <1>7 DEF Unique, LinkedOK
  <2>3. Consistent(db')
    BY <1>1, <1>4
  <2> QED BY <2>1, <2>2, <2>3 DEF DataInv
<1>10. Typed'
  <2>1. file' \in [Ino -> 0..Torn]
    BY <1>1, <1>4, CacheAssumption DEF Torn
  <2>2. Elems(lru.rw)' \cup Elems(lru.ro)' \subseteq Ino
    BY OpenCacheElems
  <2> QED BY <1>1, <1>4, <1>7, <2>1, <2>2 DEF Typed
<1>11. ClientsOK'
  BY <1>1, <1>5 DEF ClientsOK, ReqOK, HandleOK
<1>12. Exact'
  BY <1>1 DEF SerialInv, Exact, Counted, References
<1>13. Fresh' /\ NegCoherent'
  BY <1>1, <1>8 DEF SerialInv, Fresh, NegCoherent
<1>14. Track'
  <2> SUFFICES ASSUME NEW i \in Ino, (\E p \in Path : Lists(i, p)') \/ file'[i] # 0
               PROVE  i \in Elems(lru.rw)' \cup Elems(lru.ro)'
    BY DEF Track, Known
  <2>1. \E p \in Path : Lists(i, p)
    <3>1. CASE \E p \in Path : Lists(i, p)'
      BY <1>1, <3>1 DEF Lists
    <3>2. CASE file'[i] # 0
      <4>1. GetWithIno(db, i) # NoNode
        BY <1>1, <3>2
      <4> QED BY <1>4, <4>1, GetByIno
    <3> QED BY <3>1, <3>2
  <2> QED BY <2>1, OpenCacheElems
<1> QED BY <1>6, <1>9, <1>10, <1>11, <1>12, <1>13, <1>14 DEF SerialInv

-----------------------------------------------------------------------------
(* The theorems *)

\* At first nothing is catalogued, open or cached.
LEMMA InitSerial ==
    Init => SerialInv
<1> SUFFICES ASSUME Init PROVE SerialInv
  OBVIOUS
<1>1. ListInv
  BY InitLists
<1>2. /\ db = EmptyDb /\ storage = Objects /\ expect = Objects /\ nextIno = 1
      /\ file = [i \in Ino |-> 0] /\ open = [i \in Ino |-> NoNode] /\ lru = EmptyLru
      /\ negpres = {} /\ req = [c \in Client |-> Idle] /\ fh = [c \in Client |-> 0]
      /\ loop = LoopIdle /\ mode = "down" /\ nextVer = 1 + Cardinality(Files(Objects))
      /\ name = [c \in Client |-> NoPath]
  BY DEF Init
<1>3. \A p \in Path : Get(db, p) = NoNode
  BY <1>2 DEF EmptyDb, Get
<1>4. \A c \in Client : req[c].pc = "idle" /\ fh[c] = 0
  BY <1>2, IdleRequest
<1>5. \A i \in Ino : open[i] = NoNode /\ file[i] = 0 /\ \A n : ~Bears(i, n)
  BY <1>2, <1>4 DEF Bears, Hand
<1>6. DataInv
  <2>1. Consistent(db)
    BY <1>2, <1>3 DEF EmptyDb, Consistent
  <2>2. \A p \in Path : NameOK(p) /\ CatalogOK(p)
    BY <1>2, <1>3 DEF NameOK, CatalogOK
  <2>3. Unique /\ \A i \in Ino : LinkedOK(i) /\ \A n : Bears(i, n) => NodeOK(i, n)
    BY <1>5 DEF Unique, LinkedOK
  <2> QED BY <2>1, <2>2, <2>3 DEF DataInv
<1>7. Alone /\ ClientsOK
  BY <1>4 DEF Alone, ClientsOK, ReqOK, HandleOK
<1>8. Phases
  BY <1>2, <1>4, <1>5, RestingLoop DEF Phases
<1>9. Exact
  <2> SUFFICES ASSUME NEW i \in Ino PROVE Counted(i) <= References(i)
    BY DEF Exact
  <2>1. Counted(i) = 0
    BY <1>5 DEF Counted
  <2> QED BY <2>1, ReferencesAre
<1>10. Fresh /\ Track /\ NegCoherent
  BY <1>2, <1>5 DEF Fresh, Track, NegCoherent
<1>11. Typed
  <2>1. Elems(lru.rw) = {} /\ Elems(lru.ro) = {}
    BY <1>2 DEF EmptyLru, Elems
  <2>2. db \in Db
    BY <1>2 DEF EmptyDb, Db
  <2>3. expect \in [Path -> 0..MaxVer \cup {Dir}] /\ storage \in [Path -> 0..Dir]
    BY <1>2, CacheAssumption DEF Dir
  <2>4. nextVer \in 1..MaxVer + 1 /\ nextIno \in 1..MaxIno + 1
    BY <1>2, CacheAssumption, ObjectsAssumption
  <2>5. file \in [Ino -> 0..Torn]
    BY <1>2, CacheAssumption DEF Torn
  <2> QED BY <1>2, <1>5, <2>1, <2>2, <2>3, <2>4, <2>5 DEF Typed
<1> QED BY <1>1, <1>6, <1>7, <1>8, <1>9, <1>10, <1>11 DEF SerialInv

\* Every step keeps the invariant.
LEMMA StepSerial ==
    ASSUME Serial, ~IsNode(NoNode), SerialInv, [Next]_vars
    PROVE  SerialInv'
<1>1. ListInv'
  <2>1. HandleInv /\ IsLru(lru)
    BY DEF SerialInv, ListInv
  <2>2. PICK h : Homes(h)
    BY DEF SerialInv, ListInv
  <2>3. HandleInv' /\ IsLru(lru')
    BY <2>1, <2>2, StepHandles, StepLists
  <2>4. \E g : Homes(g)'
    BY <2>1, <2>2, StepHomes DEF Serial
  <2> QED BY <2>3, <2>4 DEF ListInv
<1>2. ASSUME NEW c \in Client, Begin(c) \/ Continue(c) PROVE SerialInv'
  <2>1. ClientStep(c)
    BY <1>2, ClientSteps DEF SerialInv
  <2>2. CASE Begin(c)
    BY <1>1, <2>1, <2>2, openNodeInv, beginHandleInv, releaseInv DEF Begin
  <2>3. ~renameNode(c)
    <3>1. PICK h : Homes(h)
      BY DEF SerialInv, ListInv
    <3> QED BY <3>1 DEF renameNode, InSection, Homes, RequestHome, Serial
  <2>4. CASE Continue(c)
    <3>1. CASE insertNode(c) \/ readKey(c)
      BY <1>1, <2>1, <3>1, insertNodeInv, readKeyInv
    <3>2. CASE statNode(c) \/ makeNode(c) \/ removeNode(c)
      BY <1>1, <2>1, <3>2, statNodeInv, makeNodeInv, removeNodeInv
    <3>3. CASE readdirNode(c)
      BY <1>1, <2>1, <3>3, readdirNodeInv
    <3>4. CASE ioFails(c) \/ readAt(c) \/ modifyFile(c)
      BY <1>1, <2>1, <3>4, ioFailsInv, readAtInv, modifyFileInv
    <3>5. CASE closeRequest(c) \/ closeAndUpdateNode(c) \/ touchClosed(c)
      BY <1>1, <2>1, <3>5, closeRequestInv, closeAndUpdateNodeInv, touchClosedInv
    <3> QED BY <2>3, <2>4, <3>1, <3>2, <3>3, <3>4, <3>5 DEF Continue
  <2> QED BY <1>2, <2>2, <2>4
<1>3. CASE Background
  BY <1>1, <1>3, LoopStepsInv, failUploadInv, uploadInv, EndsInv, evictInv DEF Background
<1>4. CASE Lifecycle
  <2>1. CASE crash
    BY <1>1, <2>1, HaltInv DEF crash, persistent
  <2>2. \A c \in Client : ~crashInRemove(c) /\ ~crashInRename(c)
    BY DEF crashInRemove, crashInRename, CanCrash, Serial
  <2> QED BY <1>1, <1>4, <2>1, <2>2, OpenCacheInv, StopsInv, crashInUploadInv,
             crashInDownloadInv, crashInMakeInv
      DEF Lifecycle
<1>5. CASE UNCHANGED vars
  <2>1. UNCHANGED <<storage, db, nextIno, file, open, lru, negpres, req, fh, loop, mode,
                    nextVer, expect, name>>
    BY <1>5 DEF vars, persistent, memory, pres, user
  <2>2. \A i, n : Bears(i, n)' <=> Bears(i, n)
    BY <2>1 DEF Bears, Hand
  <2>3. Alone' /\ Phases' /\ ClientsOK' /\ Exact' /\ Fresh' /\ NegCoherent'
    BY <2>1 DEF SerialInv, Alone, Phases, ClientsOK, ReqOK, HandleOK, Exact, Counted, References,
                Fresh, NegCoherent
  <2>4. Typed' /\ Track'
    BY <2>1, <2>2 DEF SerialInv, Typed, NodeTyped, Track, Known, Lists
  <2>5. DataInv'
    <3>1. DataInv
      BY DEF SerialInv
    <3>2. \A p \in Path : NameOK(p)' /\ CatalogOK(p)'
      BY <2>1, <3>1 DEF DataInv, NameOK, CatalogOK
    <3>3. \A i \in Ino : LinkedOK(i)' /\ \A n : Bears(i, n)' => NodeOK(i, n)'
      BY <2>1, <2>2, <3>1 DEF DataInv, LinkedOK, NodeOK, Lists
    <3>4. Unique' /\ Consistent(db')
      BY <2>1, <2>2, <3>1 DEF DataInv, Unique
    <3> QED BY <3>2, <3>3, <3>4 DEF DataInv
  <2> QED BY <1>1, <2>3, <2>4, <2>5 DEF SerialInv
<1> QED BY <1>2, <1>3, <1>4, <1>5 DEF Next

\* The listings that are remembered are those of paths, with inode numbers.
ListingsTyped ==
    /\ DOMAIN dirpres \subseteq Path
    /\ \A d \in DOMAIN dirpres : dirpres[d] \subseteq Ino

\* What the inodes that are touched and the delays do to them.
LEMMA ListingUpdates ==
    ASSUME ListingsTyped, NEW S, S \subseteq Ino, NEW D
    PROVE  /\ DOMAIN Younger(S) = DOMAIN dirpres
           /\ \A d \in DOMAIN dirpres : Younger(S)[d] \subseteq Ino
           /\ DOMAIN Unlisted(D) \subseteq DOMAIN dirpres
           /\ \A d \in DOMAIN Unlisted(D) : Unlisted(D)[d] \subseteq Ino
BY DEF ListingsTyped, Younger, Unlisted

\* readdirNode remembers a listing with the inodes that it has touched.
LEMMA readdirNodeListings ==
    ASSUME SerialInv, SerialInv', ListingsTyped, NEW c \in Client, readdirNode(c)
    PROVE  ListingsTyped'
<1>1. PICK k \in Path : k = req[c].key
  <2>1. req[c].pc = "cs"
    BY DEF readdirNode, InSection
  <2> QED BY <2>1, SectionFacts
<1>2. CASE dirpres' = dirpres
  BY <1>2 DEF ListingsTyped
<1>3. CASE dirpres' = Unlisted({k})
  <2>1. /\ DOMAIN Unlisted({k}) \subseteq DOMAIN dirpres
        /\ \A d \in DOMAIN Unlisted({k}) : Unlisted({k})[d] \subseteq Ino
    BY ListingUpdates
  <2> QED BY <1>3, <2>1 DEF ListingsTyped
<1>4. CASE \E inos : /\ Len(inos) \in Nat /\ DOMAIN inos = 1..Len(inos) /\ lru' = TouchAll(inos)
                     /\ dirpres' = [d \in DOMAIN dirpres \cup {k} |->
                            IF d # k THEN Younger(Elems(inos))[d]
                            ELSE IF Evicts THEN Elems(inos) ELSE {}]
  <2>1. PICK inos : /\ Len(inos) \in Nat /\ DOMAIN inos = 1..Len(inos) /\ lru' = TouchAll(inos)
                    /\ dirpres' = [d \in DOMAIN dirpres \cup {k} |->
                            IF d # k THEN Younger(Elems(inos))[d]
                            ELSE IF Evicts THEN Elems(inos) ELSE {}]
    BY <1>4
  <2>2. PICK S : S = Elems(inos)
    OBVIOUS
  <2>3. S = {inos[m] : m \in 1..Len(inos)}
    BY <2>1, <2>2 DEF Elems
  <2>4. S \subseteq Elems(lru.rw)' \cup Elems(lru.ro)'
    BY <2>1, <2>3, TouchAllElems DEF SerialInv, ListInv
  <2>5. S \subseteq Ino
    BY <2>4 DEF SerialInv, Typed
  <2>6. \A d \in DOMAIN dirpres : Younger(S)[d] \subseteq Ino
    BY <2>5, ListingUpdates
  <2> QED BY <1>1, <2>1, <2>2, <2>5, <2>6 DEF ListingsTyped
<1>5. \/ dirpres' = dirpres
      \/ dirpres' = Unlisted({k})
      \/ \E inos : /\ Len(inos) \in Nat /\ DOMAIN inos = 1..Len(inos) /\ lru' = TouchAll(inos)
                   /\ dirpres' = [d \in DOMAIN dirpres \cup {k} |->
                            IF d # k THEN Younger(Elems(inos))[d]
                            ELSE IF Evicts THEN Elems(inos) ELSE {}]
  <2> DEFINE n == open[req[c].ino]
             objs == List(n.path)
             key(j) == Rebase(objs[j], n.path, req[c].key)
             inos == [j \in DOMAIN objs |-> Get(db', key(j)).ino]
  <2>1. CASE Quit(c) \/ dirpres' = Unlisted({req[c].key})
    BY <1>1, <2>1 DEF Quit, pres
  <2>2. CASE /\ lru' = TouchAll(inos)
             /\ dirpres' = [d \in DOMAIN dirpres \cup {req[c].key} |->
                            IF d # req[c].key THEN Younger(Elems(inos))[d]
                            ELSE IF Evicts THEN Elems(inos) ELSE {}]
    <3>1. objs \in Seq(Path)
      BY CacheAssumption, SiftProps DEF List
    <3>2. PICK l \in Nat : DOMAIN objs = 1..l
      BY <3>1
    <3>3. DOMAIN inos = 1..l
      BY <3>2
    <3>4. inos \in [1..l -> {inos[j] : j \in 1..l}]
      BY <3>3
    <3>5. PICK f, R : f = inos /\ R = {inos[j] : j \in 1..l}
      OBVIOUS
    <3> HIDE DEF inos
    <3>6. f \in [1..l -> R]
      BY <3>4, <3>5
    <3>7. f \in Seq(R)
      BY <3>6
    <3>8. Len(f) \in Nat /\ DOMAIN f = 1..Len(f)
      BY <3>7
    <3>9. inos = f
      BY <3>5
    <3> QED BY <1>1, <2>2, <3>8, <3>9
  <2> QED BY <2>1, <2>2 DEF readdirNode
<1> QED BY <1>2, <1>3, <1>4, <1>5

\* Every step keeps the listings typed.
LEMMA StepListings ==
    ASSUME SerialInv, SerialInv', ListingsTyped, [Next]_vars, "rename" \notin Ops
    PROVE  ListingsTyped'
<1>1. CASE dirpres' = dirpres
  BY <1>1 DEF ListingsTyped
<1>2. ASSUME NEW i \in Ino, dirpres' = Younger({i}) PROVE ListingsTyped'
  <2>1. {i} \subseteq Ino
    OBVIOUS
  <2>2. /\ DOMAIN Younger({i}) = DOMAIN dirpres
        /\ \A d \in DOMAIN dirpres : Younger({i})[d] \subseteq Ino
    BY <2>1, ListingUpdates
  <2> QED BY <1>2, <2>2 DEF ListingsTyped
<1>3. ASSUME NEW D, dirpres' = Unlisted(D) PROVE ListingsTyped'
  <2>1. /\ DOMAIN Unlisted(D) \subseteq DOMAIN dirpres
        /\ \A d \in DOMAIN Unlisted(D) : Unlisted(D)[d] \subseteq Ino
    BY ListingUpdates
  <2> QED BY <1>3, <2>1 DEF ListingsTyped
<1>4. CASE Shutdown
  BY <1>4 DEF Shutdown, NoListings, ListingsTyped
<1>5. ASSUME NEW c \in Client, Begin(c) \/ Continue(c) PROVE ListingsTyped'
  <2>1. CASE Begin(c)
    BY <1>1, <2>1 DEF Begin, openNode, beginHandle, release, pres
  <2>2. CASE insertNode(c) \/ readKey(c) \/ closeRequest(c) \/ closeAndUpdateNode(c)
    BY <1>1, <2>2 DEF insertNode, readKey, closeRequest, closeAndUpdateNode, pres
  <2>3. CASE statNode(c) \/ makeNode(c) \/ removeNode(c) \/ renameNode(c)
    BY <1>1, <2>3 DEF statNode, makeNode, removeNode, renameNode, Quit, pres
  <2>4. CASE ioFails(c) \/ readAt(c)
    BY <1>1, <2>4 DEF ioFails, readAt, Quit, pres
  <2>5. CASE modifyFile(c)
    <3>1. req[c].pc = "cs" /\ dirpres' = Younger({open[req[c].ino].ino})
      BY <2>5 DEF modifyFile, InSection
    <3>2. open[req[c].ino].ino \in Ino
      BY <3>1, SectionFacts
    <3> QED BY <1>2, <3>1, <3>2
  <2>6. CASE touchClosed(c)
    <3>1. req[c].pc = "touch" /\ dirpres' = Younger({req[c].ino})
      BY <2>6 DEF touchClosed
    <3>2. req[c].ino \in Ino
      BY <3>1 DEF SerialInv, ListInv, HandleInv, RequestTyped
    <3> QED BY <1>2, <3>1, <3>2
  <2> QED BY <1>5, <2>1, <2>2, <2>3, <2>4, <2>5, <2>6, readdirNodeListings DEF Continue
<1>6. CASE Background
  <2>1. CASE tick \/ takeUpload \/ endUpload \/ skipUpload \/ failUpload \/ upload \/ evict
    BY <1>1, <2>1 DEF tick, takeUpload, endUpload, skipUpload, failUpload, upload, evict, pres
  <2>2. CASE takeEvict
    BY <1>1, <1>3, <2>2 DEF takeEvict, LaterListings
  <2>3. CASE touchUploaded
    <3>1. loop.pc = "uptouch" /\ (dirpres' = Younger({loop.ino}) \/ Shutdown)
      BY <2>3 DEF touchUploaded, EndClose
    <3>2. loop.ino \in Ino
      BY <3>1 DEF SerialInv, Phases
    <3> QED BY <1>2, <1>4, <3>1, <3>2
  <2>4. CASE endEvict
    BY <1>1, <1>4, <2>4 DEF endEvict, EndClose
  <2> QED BY <1>6, <2>1, <2>2, <2>3, <2>4 DEF Background
<1>7. CASE Lifecycle
  <2>1. CASE (\E m \in {"start", "reset"} : OpenCache(m)) \/ unmount \/ CloseCache
    BY <1>1, <2>1 DEF OpenCache, unmount, CloseCache, pres
  <2>2. CASE crash \/ crashInUpload
            \/ \E c \in Client : crashInDownload(c) \/ crashInMake(c)
                                 \/ crashInRemove(c) \/ crashInRename(c)
    BY <1>4, <2>2 DEF crash, crashInUpload, crashInDownload, crashInMake, crashInRemove,
                      crashInRename
  <2> QED BY <1>7, <2>1, <2>2 DEF Lifecycle
<1>8. CASE UNCHANGED vars
  BY <1>1, <1>8 DEF vars, memory, pres
<1> QED BY <1>5, <1>6, <1>7, <1>8 DEF Next

\* The invariant implies that openmap counts exactly the references.
LEMMA SerialCounts ==
    SerialInv => HandlesCounted
<1> SUFFICES ASSUME SerialInv, NEW i \in Ino
             PROVE  IF open[i] = NoNode THEN References(i) = 0 ELSE open[i].ref = References(i)
  BY DEF HandlesCounted
<1>1. References(i) <= Counted(i) /\ Counted(i) <= References(i)
  BY DEF SerialInv, ListInv, HandleInv, CountInv, Exact
<1>2. Counted(i) \in Nat /\ References(i) \in Nat
  BY ReferencesAre DEF SerialInv, ListInv, HandleInv, OpenTyped, Counted
<1>3. References(i) = Counted(i)
  BY <1>1, <1>2
<1> QED BY <1>3 DEF Counted

\* It implies that the two buckets agree ...
LEMMA SerialCatalog ==
    SerialInv => CatalogConsistent
<1> SUFFICES ASSUME SerialInv, NEW p \in Path, Get(db, p) # NoNode PROVE Get(db, p).path = p
  BY DEF CatalogConsistent, SerialInv, DataInv
<1>1. PICK i \in Ino : i = Get(db, p).ino
  BY DEF SerialInv, ListInv, HandleInv, CatalogTyped
<1>2. Lists(i, p)
  BY <1>1 DEF Lists
<1> QED BY <1>2, OnePathEach DEF SerialInv

\* ... that nobody forgets a file ...
LEMMA SerialTracks ==
    SerialInv => Tracked
BY DEF SerialInv, Track, Tracked, Known, Lists

\* ... and the types.
LEMMA SerialTypes ==
    SerialInv /\ ListingsTyped => TypeOK
<1> SUFFICES ASSUME SerialInv, ListingsTyped PROVE TypeOK
  OBVIOUS
<1>1. Typed /\ Phases /\ ListInv /\ HandleInv /\ ClientsOK /\ OpenTyped
  BY DEF SerialInv, ListInv, HandleInv
<1>2. ASSUME NEW i \in Ino, open[i] # NoNode
      PROVE  open[i] \in Node /\ open[i].ino = i /\ open[i].ref > 0
  <2>1. PICK n : n = open[i]
    OBVIOUS
  <2>2. Bears(i, n)
    BY <1>2, <2>1 DEF Bears
  <2>3. NodeTyped(n) /\ n.path \in Path
    BY <1>1, <2>2 DEF Typed, SerialInv, DataInv, NodeOK
  <2>4. IsNode(n) /\ n.ino = i /\ n.ref \in Nat \ {0}
    BY <1>1, <1>2, <2>1 DEF OpenTyped
  <2>5. n \in Node
    BY <2>3, <2>4 DEF IsNode, NodeTyped, Node
  <2> QED BY <2>1, <2>4, <2>5
<1>3. lru \in [rw : Seq(Ino), ro : Seq(Ino)]
  <2>1. PICK a, b : a = lru.rw /\ b = lru.ro
    OBVIOUS
  <2>2. lru = [rw |-> a, ro |-> b] /\ a \in Seq(Elems(a)) /\ b \in Seq(Elems(b))
    BY <1>1, <2>1 DEF ListInv, IsLru, IsList
  <2>3. Elems(a) \subseteq Ino /\ Elems(b) \subseteq Ino
    BY <1>1, <2>1 DEF Typed
  <2>4. ASSUME NEW s, s \in Seq(Elems(s)), Elems(s) \subseteq Ino PROVE s \in Seq(Ino)
    <3>1. Len(s) \in Nat /\ DOMAIN s = 1..Len(s) /\ s = [m \in 1..Len(s) |-> s[m]]
      BY <2>4
    <3>2. \A m \in 1..Len(s) : s[m] \in Ino
      BY <2>4, <3>1 DEF Elems
    <3>3. s \in [1..Len(s) -> Ino]
      BY <3>1, <3>2
    <3> QED BY <3>1, <3>3
  <2>5. a \in Seq(Ino) /\ b \in Seq(Ino)
    BY <2>2, <2>3, <2>4
  <2> QED BY <2>2, <2>5
<1>4. ASSUME NEW c \in Client
      PROVE  /\ req[c].pc \in {"idle", "insert", "key", "cs", "close", "closing", "touch"}
             /\ req[c].pc # "idle" => req[c].ino \in Ino
             /\ fh[c] \in 0..MaxIno
             /\ name[c] \in Path \cup {NoPath}
  <2>1. req[c].pc \in {"idle", "insert", "key", "cs", "close", "closing", "touch"}
    BY <1>1 DEF ClientsOK, ReqOK
  <2>2. req[c].pc # "idle" => req[c].ino \in Ino
    BY <1>1, <2>1 DEF HandleInv, RequestTyped
  <2>3. fh[c] \in 0..MaxIno
    BY <1>1, CacheAssumption DEF HandleInv
  <2>4. name[c] \in Path \cup {NoPath}
    BY <1>1 DEF Typed
  <2> QED BY <2>1, <2>2, <2>3, <2>4
<1> QED BY <1>1, <1>2, <1>3, <1>4 DEF TypeOK, Typed, Phases, ListingsTyped

\* The types of the cache's state, for one request at a time next to the
\* background loop: every inode number, path, version and listing that openNode,
\* readdirNode, the sections and the loop put into the catalog, openmap, the
\* lists and the presence caches is one of the instance's.
THEOREM SerialTypeOK ==
    ASSUME Serial, ~IsNode(NoNode)
    PROVE  Spec => []TypeOK
<1>1. Init => SerialInv /\ ListingsTyped
  BY InitSerial DEF Init, ListingsTyped, NoListings
<1>2. SerialInv /\ ListingsTyped /\ [Next]_vars => SerialInv' /\ ListingsTyped'
  BY StepSerial, StepListings DEF Serial
<1>3. SerialInv /\ ListingsTyped => TypeOK
  BY SerialTypes
<1> QED BY <1>1, <1>2, <1>3, PTL DEF Spec

\* The invariant holds for one request at a time.
LEMMA AlwaysSerial ==
    ASSUME Serial, ~IsNode(NoNode)
    PROVE  Spec => []SerialInv
<1>1. SerialInv /\ [Next]_vars => SerialInv'
  BY StepSerial
<1> QED BY <1>1, InitSerial, PTL DEF Spec

\* openmap counts every reference and no more than those: insertNode adds the
\* reference that Close, or the Release of the handle, drops, whatever section
\* comes between them, so that the last Close takes the node out of openmap and
\* no node stays behind.  For one request at a time and any number of clients
\* with handles; two requests that Open one path may both insert.
THEOREM ReferencesExact ==
    ASSUME Serial, ~IsNode(NoNode)
    PROVE  Spec => []HandlesCounted
BY AlwaysSerial, SerialCounts, PTL

\* The idx bucket and the cat bucket of the database describe the same files,
\* each under the path that its node carries: makeNode, statNode, readdirNode,
\* closeAndUpdateNode, uploadOne, evictOne and removeNode leave no inode number
\* without its node and no node under the path of another.
THEOREM CatalogStaysConsistent ==
    ASSUME Serial, ~IsNode(NoNode)
    PROVE  Spec => []CatalogConsistent
BY AlwaysSerial, SerialCatalog, PTL

\* From OpenCache to CloseCache nobody forgets a file: an inode with a node in
\* the catalog or with a file in the cache directory is on a list, in the hands
\* of uploadOne or evictOne, open, or the one of a request in progress, which
\* touches it at last.
THEOREM NobodyForgets ==
    ASSUME Serial, ~IsNode(NoNode)
    PROVE  Spec => []Tracked
BY AlwaysSerial, SerialTracks, PTL

\* The presence cache never hides a file: what negpres has is neither in the
\* catalog nor seen by users, although statNode, makeNode, removeNode and
\* readdirNode each change only one of its entries.
THEOREM PresenceCoherent ==
    ASSUME Serial, ~IsNode(NoNode)
    PROVE  Spec => []NegCoherent
<1>1. SerialInv => NegCoherent
  BY DEF SerialInv
<1> QED BY <1>1, AlwaysSerial, PTL
=============================================================================
