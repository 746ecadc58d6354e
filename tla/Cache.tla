------------------------------- MODULE Cache --------------------------------
(***************************************************************************)
(* The write-back file cache of cache/cache.go under the FUSE handlers of  *)
(* fs/objfs/objfs.go: the requests on files and directories, the           *)
(* background loop that uploads and evicts, OpenCache, CloseCache and      *)
(* crashes.                                                                *)
(*                                                                         *)
(* A critical section under a path lock is one step: module PathLock shows *)
(* that sections on one path exclude each other.  What the code does       *)
(* outside the lock is a step of its own: looking a node up, entering it   *)
(* in openmap, reading node.Path to compute the key to lock, dropping the  *)
(* reference, touching the LRU lists after the unlock.                     *)
(*                                                                         *)
(* Content is abstracted to a version: every create, write and truncate    *)
(* makes a new one, a signature and a hash are the version they were       *)
(* computed from, 0 is "none", and Torn is content nobody wrote.           *)
(***************************************************************************)
EXTENDS Naturals, Sequences, FiniteSets, Tree, Lru

CONSTANTS
    Client,         \* FUSE requests are issued on behalf of these
    MaxIno,         \* bound: inode numbers handed out
    MaxVer,         \* bound: versions written
    MaxRef,         \* bound: references of a node at which no path is opened
    MaxInFlight,    \* requests the FUSE loop runs at a time (1: single-threaded)
    MaxRestarts,    \* bound: times the process is started again
    Evicts,         \* does an inode ever sit out EvictDelay while mounted?
    Ops,            \* the requests clients issue
    Objects,        \* the version of every object before the first mount
    Faults,         \* storage operations that may fail
    RenameReplaces, \* does storage.Rename replace an object at the new path?
    Crashes         \* where the process may be killed

Torn == MaxVer + 1

\* An empty dirpres.
NoListings == [d \in {} |-> {}]

\* The signature of a directory: node.IsDir is node.Sig = Dir.
Dir == MaxVer + 2

\* "open" and "release" stand for Opendir and Releasedir, too.
PathOps == {"create", "mkdir", "open", "getattr", "unlink", "rmdir", "rename",
            "truncate", "shrink"}
HandleOps == {"read", "readdir", "write", "ftruncate", "fshrink", "fgetattr", "release"}

\* "stat" .. "rename" fail without an effect on the storage; "lost" is an
\* upload that is applied although its reply is lost.
FaultKinds == {"stat", "create", "list", "read", "write", "remove", "rename", "lost"}

CrashKinds == {"boundary", "download", "upload", "make", "remove", "rename"}

Files(f) == {p \in Path : f[p] \notin {0, Dir}}

ASSUME CacheAssumption ==
    /\ MaxIno \in Nat /\ MaxVer \in Nat /\ MaxRef \in Nat
    /\ MaxInFlight \in Nat /\ MaxRestarts \in Nat
    /\ Ino = 1..MaxIno /\ Sig = 0..Dir
    /\ KeyOrder \in Seq(Path) /\ Elems(KeyOrder) = Path /\ Distinct(KeyOrder)
    /\ IsFiniteSet(Client) /\ Path \subseteq Seq(STRING)
    /\ Ops \subseteq PathOps \cup HandleOps
    /\ Objects \in [Path -> 0..MaxVer \cup {Dir}]
    /\ \A p \in Path : Objects[p] \in 0..Cardinality(Files(Objects)) \cup {Dir}
    /\ Faults \subseteq FaultKinds
    /\ RenameReplaces \in BOOLEAN /\ Evicts \in BOOLEAN
    /\ Crashes \subseteq CrashKinds

\* Bound: the objects that are there before the first mount have versions.
ASSUME ObjectsAssumption == Cardinality(Files(Objects)) \in 0..MaxVer

VARIABLES
    storage,    \* the object storage: version of each object, 0 if absent
    db,         \* Cache.database
    nextIno,    \* the sequence of the idx bucket
    file,       \* the cache files on disk: version, 0 if absent
    open,       \* Cache.openmap: the node_t of every open inode
    lru,        \* rwlst and rolst
    negpres,    \* paths known not to exist
    dirpres,    \* directories whose listing is answered from the catalog, with the
                \* inodes that have been touched since
    req,        \* the request each client has in progress
    fh,         \* the handle (inode number) each client holds, 0 if none
    loop,       \* the background goroutine
    mode,       \* "down", "start" (OpenCache), "run", "stop" (CloseCache)
    restarts,   \* starts so far
    nextVer,    \* next version to be written
    expect,     \* what a reader of each path must see, by the requests acknowledged
    name        \* the path that each client's handle stands for, NoPath if unlinked

persistent == <<storage, db, nextIno, file>>
pres == <<negpres, dirpres>>
memory == <<open, lru, pres, req, fh, loop, mode>>
user == <<nextVer, expect, name>>
vars == <<persistent, memory, restarts, user>>

-----------------------------------------------------------------------------
(* Nodes *)

\* node_t in memory: fd is node.File, none, open, or open on a file that has
\* been removed from the cache directory.
Node == [ino : Ino, path : Path, sig : Sig, hash : Sig, valid : BOOLEAN,
         deleted : BOOLEAN, fd : {"none", "linked", "orphan"}, ref : Nat]

\* Decode: what a node read from the database looks like.
FromDb(n) == [ino |-> n.ino, path |-> n.path, sig |-> n.sig, hash |-> n.hash,
              valid |-> TRUE, deleted |-> FALSE, fd |-> "none", ref |-> 0]

\* Encode: the fields of a node that the database keeps.
ToDb(n) == [ino |-> n.ino, path |-> n.path, sig |-> n.sig, hash |-> n.hash]

NewNode(i, p) == [ino |-> i, path |-> p, sig |-> 0, hash |-> 0,
                  valid |-> FALSE, deleted |-> FALSE, fd |-> "none", ref |-> 0]

\* node.CopyStat(info), where info describes an object of version v.
CopyStat(n, v) == [n EXCEPT !.sig = v, !.valid = TRUE]

\* node.Stat panics unless the node is valid and not deleted.
StatPanics(n) == ~n.valid \/ n.deleted

Reference(n) == [n EXCEPT !.ref = @ + 1]

-----------------------------------------------------------------------------
(* Requests *)

Idle == [pc |-> "idle", op |-> "none", path |-> NoPath, to |-> NoPath,
         ino |-> 0, node |-> NoNode, key |-> NoPath]

InFlight == {c \in Client : req[c].pc # "idle"}

Shrinks == {"shrink", "fshrink"}
Modifies == {"write", "ftruncate", "truncate"} \cup Shrinks

\* The bound MaxVer leaves a version for a request that may write one.
VersionsLeft(op) ==
    op \in Modifies \cup {"create"} =>
        nextVer + Cardinality({c \in InFlight : req[c].op \in Modifies \cup {"create"}})
            <= MaxVer

\* A request may start: the file system is mounted and a FUSE worker is free.
CanBegin(c, op) ==
    /\ op \in Ops
    /\ mode = "run"
    /\ req[c].pc = "idle"
    /\ Cardinality(InFlight) < MaxInFlight
    /\ VersionsLeft(op)

Request(c, r) == req' = [req EXCEPT ![c] = r]

Goto(c, pc) == req' = [req EXCEPT ![c].pc = pc]

\* The request ends here.
Done(c) == Request(c, Idle)

\* The idx bucket's sequence hands out inode numbers, up to the bound MaxIno.
NextIno == nextIno <= MaxIno /\ nextIno' = nextIno + 1

\* The kernel knows directories from files, and neither changes the root.
KernelAllows(op, p, q) ==
    /\ op \in {"truncate", "shrink"} => expect[p] # Dir
    /\ op \notin {"open", "getattr"} => Root \notin {p, q}

\* Bound: what a rename moves has a new path among those of the instance.
Fits(p, q) ==
    \A r \in Path : pathKeyHasPrefix(r, p) /\ (storage[r] # 0 \/ Get(db, r) # NoNode) =>
        Rebase(r, p, q) \in Path

\* A request on a path: Cache.Open starts with openNode, which finds the node
\* in the catalog or gives the path a new inode number.
openNode(c, op, p, q) ==
    /\ op \in PathOps
    /\ op = "rename" <=> q # p
    /\ CanBegin(c, op) /\ fh[c] = 0
    /\ KernelAllows(op, p, q) /\ Fits(p, q)
    /\ \A i \in Ino : open[i] # NoNode => open[i].ref < MaxRef
    /\ \/ /\ Get(db, p) # NoNode
          /\ Request(c, [Idle EXCEPT !.pc = "insert", !.op = op, !.path = p, !.to = q,
                         !.ino = Get(db, p).ino, !.node = FromDb(Get(db, p))])
          /\ UNCHANGED nextIno
       \/ /\ Get(db, p) = NoNode
          /\ NextIno
          /\ Request(c, [Idle EXCEPT !.pc = "insert", !.op = op, !.path = p, !.to = q,
                         !.ino = nextIno, !.node = NewNode(nextIno, p)])
    /\ UNCHANGED <<storage, db, file, open, lru, pres, fh, loop, mode, restarts, user>>

\* Mutant: the node is entered whether its inode is there or not.
insertAnyNode(c) ==
    LET i == req[c].ino IN
    /\ req[c].pc = "insert"
    /\ open' = [open EXCEPT ![i] = [req[c].node EXCEPT !.ref = 1]]
    /\ Request(c, [req[c] EXCEPT !.pc = "key", !.node = NoNode])
    /\ UNCHANGED <<persistent, lru, pres, fh, loop, mode, restarts, user>>

\* Cache.Open, second half: enter the node in openmap unless its inode is
\* there already, and reference it.
insertNode(c) ==
    LET i == req[c].ino
        n == IF open[i] = NoNode THEN req[c].node ELSE open[i]
    IN
    /\ req[c].pc = "insert"
    /\ open' = [open EXCEPT ![i] = Reference(n)]
    /\ Request(c, [req[c] EXCEPT !.pc = "key", !.node = NoNode])
    /\ UNCHANGED <<persistent, lru, pres, fh, loop, mode, restarts, user>>

\* getOpenNode, and node.Path read to compute the key to lock.
readKey(c) ==
    /\ req[c].pc = "key"
    /\ Request(c, [req[c] EXCEPT !.pc = "cs", !.key = open[req[c].ino].path])
    /\ UNCHANGED <<persistent, open, lru, pres, fh, loop, mode, restarts, user>>

\* A request on a handle starts with getOpenNode.
beginHandle(c, op) ==
    /\ op \in HandleOps \ {"release"}
    /\ CanBegin(c, op) /\ fh[c] # 0
    /\ op # "fgetattr" => (op = "readdir" <=> open[fh[c]].sig = Dir)
    /\ Request(c, [Idle EXCEPT !.pc = "key", !.op = op, !.ino = fh[c]])
    /\ UNCHANGED <<persistent, open, lru, pres, fh, loop, mode, restarts, user>>

\* Mutant: no deferred Close.
LeaveOpen(c) == Done(c)

\* A request leaves its section: a request on a path still has to Close.
Leave(c) == IF req[c].op \in PathOps THEN Goto(c, "close") ELSE Done(c)

\* Create and Open keep the inode open and return it as the handle.
Return(c, p) ==
    /\ Done(c)
    /\ fh' = [fh EXCEPT ![c] = req[c].ino]
    /\ name' = [name EXCEPT ![c] = p]

InSection(c, ops) == req[c].pc = "cs" /\ req[c].op \in ops

\* The section fails, or has nothing to do, and changes nothing.
Quit(c) ==
    /\ Leave(c)
    /\ UNCHANGED <<persistent, open, lru, pres, fh, loop, mode, restarts, user>>

-----------------------------------------------------------------------------
(* statNodeNoLock *)

\* An entry of a presence cache times out, or makes room for another: negpres
\* and dirpres hold what has not been seen to be gone, and a look at an entry
\* finds it or not.

\* It finds the object: the node is stored and becomes valid.
StatFound(c) ==
    LET i == req[c].ino
        n == CopyStat(open[i], storage[open[i].path])
    IN
    /\ storage[open[i].path] # 0
    /\ db' = PutNode(db, ToDb(n), req[c].key)
    /\ open' = [open EXCEPT ![i] = n]
    /\ negpres' = negpres \ {req[c].key}

\* It returns ENOENT and remembers the absence.
StatAbsent(c) ==
    /\ req[c].key \in negpres \/ storage[open[req[c].ino].path] = 0
    /\ negpres' = negpres \cup {req[c].key}
    /\ UNCHANGED <<db, open>>

\* Mutant: any failure is remembered as absence.
StatForgets(c) ==
    /\ "stat" \in Faults
    /\ negpres' = negpres \cup {req[c].key}
    /\ UNCHANGED <<db, open>>

\* It fails otherwise: the storage cannot be reached.
StatFails(c) ==
    /\ "stat" \in Faults
    /\ negpres' = negpres \ {req[c].key}
    /\ UNCHANGED <<db, open>>

-----------------------------------------------------------------------------
(* Sections of the requests on paths *)

\* statNode for Open and Getattr.  node.Stat panics on a node that is valid
\* and deleted; the panic unwinds Open without its Close, Getattr with it.
statNode(c) ==
    LET n == open[req[c].ino]
        Succeed(m) == IF req[c].op = "open" THEN Return(c, m.path)
                      ELSE Leave(c) /\ UNCHANGED <<fh, name>>
    IN
    /\ InSection(c, {"open", "getattr", "fgetattr"})
    /\ UNCHANGED <<storage, nextIno, file, lru, dirpres, loop, mode, restarts, nextVer, expect>>
    /\ \/ n.valid /\ ~StatPanics(n) /\ Succeed(n) /\ UNCHANGED <<db, open, negpres>>
       \/ /\ n.valid /\ StatPanics(n)
          /\ IF req[c].op = "open" THEN Done(c) ELSE Leave(c)
          /\ UNCHANGED <<db, open, negpres, fh, name>>
       \/ /\ ~n.valid /\ n.deleted /\ Leave(c)
          /\ UNCHANGED <<db, open, negpres, fh, name>>
       \/ ~n.valid /\ ~n.deleted /\ StatFound(c) /\ Succeed(n)
       \/ /\ ~n.valid /\ ~n.deleted /\ (StatAbsent(c) \/ StatFails(c)) /\ Leave(c)
          /\ UNCHANGED <<fh, name>>

\* The storage has the directory that path p is in.
ParentExists(p) == p # Root /\ Parent(p) \in Path => storage[Parent(p)] = Dir

\* storage.Mkdir makes no directory over an object, OpenWrite no object over a
\* directory.
StorageMakes(p, dir) ==
    /\ ParentExists(p)
    /\ storage[p] = 0 \/ (~dir /\ storage[p] # Dir)

\* Mutant: makeNode does not stat.
NeverStats(c, n) == TRUE

\* The stat of makeNode does not make the node valid.
StaysInvalid(c, n) ==
    req[c].key \in negpres \/ storage[n.path] = 0 \/ "stat" \in Faults

\* makeNode: EPERM, EEXIST, or a new directory or empty object.  The error of
\* the stat is ignored.
makeNode(c) ==
    LET i == req[c].ino
        n == open[i]
        dir == req[c].op = "mkdir"
        v == IF dir THEN Dir ELSE nextVer
        m == CopyStat(n, v)
        Refuse == Leave(c) /\ UNCHANGED <<storage, nextVer, expect, fh, name>>
    IN
    /\ InSection(c, {"create", "mkdir"})
    /\ UNCHANGED <<nextIno, file, lru, dirpres, loop, mode, restarts>>
    /\ \/ n.deleted /\ Refuse /\ UNCHANGED <<db, open, negpres>>
       \/ ~n.deleted /\ StatFound(c) /\ Refuse
       \/ /\ ~n.deleted /\ n.valid /\ (StatAbsent(c) \/ StatFails(c)) /\ Refuse
       \/ /\ ~n.deleted /\ ~n.valid /\ ("create" \in Faults \/ ~StorageMakes(n.path, dir))
          /\ (StatAbsent(c) \/ StatFails(c)) /\ Refuse
       \/ /\ ~n.deleted /\ ~n.valid
          /\ StaysInvalid(c, n)
          /\ StorageMakes(n.path, dir)
          /\ storage' = [storage EXCEPT ![n.path] = v]
          /\ db' = PutNode(db, ToDb(m), req[c].key)
          /\ open' = [open EXCEPT ![i] = m]
          /\ negpres' = negpres \ {req[c].key}
          /\ expect' = [expect EXCEPT ![req[c].path] = v]
          /\ IF dir THEN Goto(c, "close") /\ UNCHANGED <<nextVer, fh, name>>
             ELSE nextVer' = nextVer + 1 /\ Return(c, req[c].path)

\* The handles that a path stood for no longer name it.
Forget(f, p) == [c \in Client |-> IF f[c] = p THEN NoPath ELSE f[c]]

\* ENOTDIR, EISDIR or ENOTEMPTY, as far as a valid node and the catalog tell.
CatalogRefuses(n, k, dir) == n.valid /\ ((n.sig = Dir) # dir \/ Len(KeysBelow(db, k)) > 1)

\* storage.Rmdir removes empty directories, Remove anything else.
StorageRefuses(p, dir) ==
    storage[p] # 0 /\ ((storage[p] = Dir) # dir \/ \E q \in Path : ChildOf(q, p) /\ storage[q] # 0)

\* removeNode.  ENOENT from the storage is processed like success.
removeNode(c) ==
    LET i == req[c].ino
        n == open[i]
        dir == req[c].op = "rmdir"
    IN
    /\ InSection(c, {"unlink", "rmdir"})
    /\ \/ n.deleted /\ Quit(c)
       \/ /\ ~n.deleted
          /\ CatalogRefuses(n, req[c].key, dir) \/ StorageRefuses(n.path, dir) \/ "remove" \in Faults
          /\ Quit(c)
       \/ /\ ~n.deleted
          /\ ~CatalogRefuses(n, req[c].key, dir) /\ ~StorageRefuses(n.path, dir)
          /\ storage' = [storage EXCEPT ![n.path] = 0]
          /\ db' = DeleteNode(db, req[c].key)
          /\ open' = [open EXCEPT ![i].deleted = TRUE]
          /\ negpres' = negpres \cup {req[c].key}
          /\ expect' = [expect EXCEPT ![req[c].path] = 0]
          /\ name' = Forget(name, req[c].path)
          /\ Goto(c, "close")
          /\ UNCHANGED <<nextIno, file, lru, dirpres, fh, loop, mode, restarts, nextVer>>

\* Mutant: the open nodes keep their old paths.
MovedInDbOnly(old, new) == open

\* The open nodes of the inodes that the transaction has moved get their new
\* paths.
Moved(old, new) ==
    LET keys == KeysBelow(db, old)
        inos == {Get(db, keys[n]).ino : n \in DOMAIN keys}
    IN [i \in Ino |-> IF i \in inos /\ open[i] # NoNode
                      THEN [open[i] EXCEPT !.path = Rebase(@, old, new)] ELSE open[i]]

\* The names of the handles after the rename.
Renamed(f, old, new) ==
    [c \in Client |-> IF f[c] # NoPath /\ pathKeyHasPrefix(f[c], old)
                      THEN Rebase(f[c], old, new) ELSE Forget(f, new)[c]]

\* storage.Rename fails: nothing to rename, no place, or something in it.
StorageKeeps(old, new) ==
    \/ storage[old] = 0
    \/ ~ParentExists(new)
    \/ storage[new] # 0 /\ (~RenameReplaces \/ Dir \in {storage[old], storage[new]})

\* renameNode: old path and key were read before the locks; a directory does
\* not move below itself.
renameNode(c) ==
    LET old == req[c].key
        new == req[c].to
        loops == pathKeyHasPrefix(old, new) \/ pathKeyHasPrefix(new, old)
    IN
    /\ InSection(c, {"rename"})
    /\ \/ /\ loops \/ open[req[c].ino].deleted \/ StorageKeeps(old, new) \/ "rename" \in Faults
          /\ Quit(c)
       \/ /\ ~loops /\ ~open[req[c].ino].deleted /\ ~StorageKeeps(old, new)
          /\ storage' = MoveTree(storage, old, new)
          /\ db' = RenameTree(db, old, new)
          /\ open' = Moved(old, new)
          /\ negpres' = {old}   \* removeAllPath throws the whole map away
          /\ expect' = MoveTree(expect, old, new)
          /\ name' = Renamed(name, old, new)
          /\ Goto(c, "close")
          /\ UNCHANGED <<nextIno, file, lru, dirpres, fh, loop, mode, restarts, nextVer>>

\* The objects that storage.List returns for a directory, in key order.
List(p) == Sift(KeyOrder, {q \in Path : ChildOf(q, p) /\ storage[q] # 0})

\* The inodes are younger than the listings that are remembered.
Younger(inos) ==
    IF Evicts THEN [d \in DOMAIN dirpres |-> dirpres[d] \cup inos] ELSE dirpres

\* The listings of the directories D are forgotten.
Unlisted(D) == [d \in DOMAIN dirpres \ D |-> dirpres[d]]

\* The inodes of a listing are touched one after the other.
TouchAll(inos) ==
    LET touched[n \in 0..Len(inos)] ==
            IF n = 0 THEN lru ELSE touchIno(touched[n - 1], inos[n], FALSE)
    IN touched[Len(inos)]

\* readdirNode.  A cached listing is read from the catalog.  Otherwise what the
\* storage lists and the catalog does not know is catalogued with new inode
\* numbers, and the directory is remembered.
readdirNode(c) ==
    LET n == open[req[c].ino]
        k == req[c].key
        objs == List(n.path)
        key(j) == Rebase(objs[j], n.path, k)
        inos == [j \in DOMAIN objs |-> Get(db', key(j)).ino]
        new == {j \in DOMAIN objs : Get(db, key(j)) = NoNode}
        node(j) == [ino |-> nextIno + Cardinality({l \in new : l < j}),
                    path |-> objs[j], sig |-> storage[objs[j]], hash |-> 0]
    IN
    /\ InSection(c, {"readdir"})
    /\ \/ n.deleted /\ Quit(c)
       \/ ~n.deleted /\ k \in DOMAIN dirpres /\ Quit(c)
       \/ /\ ~n.deleted /\ (storage[n.path] # Dir \/ "list" \in Faults)
          /\ dirpres' = Unlisted({k})
          /\ Leave(c)
          /\ UNCHANGED <<persistent, open, lru, negpres, fh, loop, mode, restarts, user>>
       \/ /\ ~n.deleted /\ storage[n.path] = Dir
          /\ nextIno + Cardinality(new) <= MaxIno + 1
          /\ nextIno' = nextIno + Cardinality(new)
          /\ db' = PutAll(db, {<<key(j), node(j)>> : j \in new})
          /\ lru' = TouchAll(inos)
          /\ dirpres' = [d \in DOMAIN dirpres \cup {k} |->
                            IF d # k THEN Younger(Elems(inos))[d]
                            ELSE IF Evicts THEN Elems(inos) ELSE {}]
          /\ negpres' = negpres \ {k}
          /\ Leave(c)
          /\ UNCHANGED <<storage, file, open, fh, loop, mode, restarts, user>>

-----------------------------------------------------------------------------
(* File I/O: performFileIoOnNode and readNodeFromStorage *)

\* The cache file has to be read from the storage: it is absent, or the
\* signature of the node is not the one of the object.
Fetches(n) == n.fd = "none" /\ ~(file[n.ino] # 0 /\ n.sig = storage[n.path])

\* The object is there to be read, or the file is open already.
IoWorks(n) == n.fd # "none" \/ (~n.deleted /\ storage[n.path] # 0)

\* Mutant: the hash is taken after the request has modified the file.
IoNodeHashedLate(n, hash) ==
    IF Fetches(n) THEN [CopyStat(n, storage[n.path]) EXCEPT !.hash = nextVer, !.fd = "linked"]
    ELSE IF n.fd = "none" THEN [n EXCEPT !.fd = "linked"]
    ELSE n

\* The node after the file has been made available; hash is the hash of what
\* was read from the storage.
IoNode(n, hash) ==
    IF Fetches(n) THEN [CopyStat(n, storage[n.path]) EXCEPT !.hash = hash, !.fd = "linked"]
    ELSE IF n.fd = "none" THEN [n EXCEPT !.fd = "linked"]
    ELSE n

\* What a fetch leaves in the file.  A file that is there is overwritten from
\* its start and not truncated, so that its old tail may remain.
Overwrites(n) == file[n.ino] \notin {0, storage[n.path]}

Fetched(n) == {storage[n.path]} \cup (IF Overwrites(n) THEN {Torn} ELSE {})

\* The catalog, the open node and the presence cache after the file has been
\* made available.
EnsureFile(c, n, hash) ==
    /\ open' = [open EXCEPT ![n.ino] = IoNode(n, hash)]
    /\ db' = IF Fetches(n) THEN PutNode(db, ToDb(IoNode(n, hash)), req[c].key) ELSE db
    /\ negpres' = IF n.fd = "none" THEN negpres \ {req[c].key} ELSE negpres

\* The file cannot be made available: EPERM, ENOENT or a failed read.  A read
\* that breaks off half way leaves a file that was there half overwritten.
ioFails(c) ==
    LET n == open[req[c].ino] IN
    /\ InSection(c, {"read"} \cup Modifies)
    /\ n.fd = "none"
    /\ \/ (~IoWorks(n) \/ "read" \in Faults) /\ Quit(c)
       \/ /\ IoWorks(n) /\ "read" \in Faults /\ Fetches(n) /\ Overwrites(n)
          /\ file' = [file EXCEPT ![n.ino] = Torn]
          /\ Leave(c)
          /\ UNCHANGED <<storage, db, nextIno, open, lru, pres, fh, loop, mode,
                         restarts, user>>

\* ReadAt
readAt(c) ==
    LET n == open[req[c].ino] IN
    /\ InSection(c, {"read"})
    /\ IoWorks(n)
    /\ EnsureFile(c, n, storage[n.path])
    /\ IF Fetches(n) THEN \E v \in Fetched(n) : file' = [file EXCEPT ![n.ino] = v]
       ELSE UNCHANGED file
    /\ Leave(c)
    /\ UNCHANGED <<storage, nextIno, lru, dirpres, fh, loop, mode, restarts, user>>

\* WriteAt and Truncate.  Truncate to a smaller size reads no more than that
\* size from the storage, so that its hash is the one of the result.  Changing
\* a part of content that is not what the path should hold gives content that
\* nobody wrote.
modifyFile(c) ==
    LET n == open[req[c].ino]
        shrinks == req[c].op \in Shrinks
        p == IF req[c].op \in PathOps THEN req[c].path ELSE name[c]
        Bases == IF ~Fetches(n) THEN {file[n.ino]}
                 ELSE IF shrinks THEN {storage[n.path]} ELSE Fetched(n)
        Result(b) == IF p = NoPath \/ b = expect[p] THEN nextVer ELSE Torn
    IN
    /\ InSection(c, Modifies)
    /\ IoWorks(n)
    /\ \E b \in Bases :
        /\ EnsureFile(c, n, IF shrinks THEN Result(b) ELSE storage[n.path])
        /\ file' = IF n.fd = "orphan" THEN file ELSE [file EXCEPT ![n.ino] = Result(b)]
    /\ lru' = touchIno(lru, n.ino, TRUE)
    /\ dirpres' = Younger({n.ino})
    /\ nextVer' = nextVer + 1
    /\ expect' = IF p = NoPath THEN expect ELSE [expect EXCEPT ![p] = nextVer]
    /\ Leave(c)
    /\ UNCHANGED <<storage, nextIno, fh, loop, mode, restarts, name>>

-----------------------------------------------------------------------------
(* Close *)

\* What remains to be done by the request that drops the last reference.
ClosePc(n) ==
    IF n.fd # "none" /\ n.valid /\ ~n.deleted THEN "closing"
    ELSE IF n.valid THEN "touch" ELSE "idle"

\* Mutant: the node stays in openmap at zero references.
DereferenceOnly(c, i) ==
    /\ open' = [open EXCEPT ![i].ref = @ - 1]
    /\ Done(c)

\* Cache.Close: dereference, and take the node out of openmap at zero.
Dereference(c, i) ==
    LET n == open[i] IN
    \/ /\ n.ref > 1
       /\ open' = [open EXCEPT ![i].ref = @ - 1]
       /\ Done(c)
    \/ /\ n.ref = 1
       /\ open' = [open EXCEPT ![i] = NoNode]
       /\ IF ClosePc(n) = "idle" THEN Done(c)
          ELSE Request(c, [Idle EXCEPT !.pc = ClosePc(n), !.ino = i,
                           !.node = [n EXCEPT !.ref = 0]])

\* The deferred Close of a request on a path.
closeRequest(c) ==
    /\ req[c].pc = "close"
    /\ Dereference(c, req[c].ino)
    /\ UNCHANGED <<persistent, lru, pres, fh, loop, mode, restarts, user>>

\* Release
release(c) ==
    /\ CanBegin(c, "release") /\ fh[c] # 0
    /\ Dereference(c, fh[c])
    /\ fh' = [fh EXCEPT ![c] = 0]
    /\ name' = [name EXCEPT ![c] = NoPath]
    /\ UNCHANGED <<persistent, lru, pres, loop, mode, restarts, nextVer, expect>>

\* Mutant: the hash is brought up to date, too.
closeAndRehashNode(c) ==
    LET n == req[c].node IN
    /\ req[c].pc = "closing"
    /\ db' = PutNode(db, [ToDb(n) EXCEPT !.hash = file[n.ino]], n.path)
    /\ Goto(c, "touch")
    /\ UNCHANGED <<storage, nextIno, file, open, lru, pres, fh, loop, mode, restarts, user>>

\* closeAndUpdateNode: the node is stored under the path it has.
closeAndUpdateNode(c) ==
    LET n == req[c].node IN
    /\ req[c].pc = "closing"
    /\ db' = PutNode(db, ToDb(n), n.path)
    /\ Goto(c, "touch")
    /\ UNCHANGED <<storage, nextIno, file, open, lru, pres, fh, loop, mode, restarts, user>>

\* Mutant: the closed inode is not listed for eviction.
forgetClosed(c) ==
    /\ req[c].pc = "touch"
    /\ Done(c)
    /\ UNCHANGED <<persistent, open, lru, pres, fh, loop, mode, restarts, user>>

\* The end of closeNode.
touchClosed(c) ==
    /\ req[c].pc = "touch"
    /\ lru' = touchIno(lru, req[c].ino, FALSE)
    /\ dirpres' = Younger({req[c].ino})
    /\ Done(c)
    /\ UNCHANGED <<persistent, open, negpres, fh, loop, mode, restarts, user>>

-----------------------------------------------------------------------------
(* The background loop: uploadAll, then evictAll *)

LoopIdle == [pc |-> "idle", ino |-> 0, err |-> FALSE, force |-> FALSE]

LoopStep(pc, i, err) == loop' = [loop EXCEPT !.pc = pc, !.ino = i, !.err = err]

\* The process ends: what it kept in memory is gone.
Shutdown ==
    /\ open' = [i \in Ino |-> NoNode]
    /\ lru' = EmptyLru
    /\ negpres' = {} /\ dirpres' = NoListings
    /\ req' = [c \in Client |-> Idle]
    /\ fh' = [c \in Client |-> 0]
    /\ name' = [c \in Client |-> NoPath]
    /\ loop' = LoopIdle
    /\ mode' = "down"

\* resetCache returns: to the loop, to OpenCache, or to CloseCache.
EndReset ==
    \/ /\ ~loop.force
       /\ loop' = LoopIdle
       /\ UNCHANGED <<open, negpres, req, fh, name, mode>>
    \/ /\ loop.force /\ mode = "start"
       /\ loop' = LoopIdle /\ mode' = "run"
       /\ UNCHANGED <<open, negpres, req, fh, name>>

\* ... to CloseCache, which closes the database.
EndClose == loop.force /\ mode # "start" /\ Shutdown

tick ==
    /\ mode = "run" /\ loop.pc = "idle"
    /\ LoopStep("upload", 0, FALSE)
    /\ UNCHANGED <<persistent, open, lru, pres, req, fh, mode, restarts, user>>

\* uploadOne: take the oldest candidate, once its delay is over.
takeUpload ==
    /\ loop.pc = "upload" /\ lru.rw # <<>>
    /\ lru' = popUpload(lru)
    /\ LoopStep("upcs", Head(lru.rw), FALSE)
    /\ UNCHANGED <<persistent, open, pres, req, fh, mode, restarts, user>>

\* uploadOne finds no item: none is left, or the oldest is too young.
endUpload ==
    /\ loop.pc = "upload" /\ (lru.rw = <<>> \/ ~loop.force)
    /\ LoopStep("evict", 0, FALSE)
    /\ UNCHANGED <<persistent, open, lru, pres, req, fh, mode, restarts, user>>

\* getLockedNodeWithIno: the node of the loop's inode, with the path locked that
\* the node has at that moment, or none.
LockedNode == GetWithIno(db, loop.ino)

\* The node that uploadOne has locked still has something to upload.
Uploads(n) ==
    /\ loop.pc = "upcs"
    /\ n # NoNode
    /\ loop.ino \notin Elems(lru.rw)
    /\ file[loop.ino] # 0

\* uploadOne bails out: the inode snuck back in, or there is no node or file.
skipUpload ==
    LET n == LockedNode IN
    /\ loop.pc = "upcs" /\ ~Uploads(n)
    /\ IF n # NoNode /\ loop.ino \in Elems(lru.rw) THEN LoopStep("upload", 0, FALSE)
       ELSE LoopStep("uptouch", loop.ino, FALSE)
    /\ UNCHANGED <<persistent, open, lru, pres, req, fh, mode, restarts, user>>

\* The upload fails; the object may have been written all the same.
failUpload ==
    LET n == LockedNode IN
    /\ Uploads(n)
    /\ \/ "write" \in Faults /\ UNCHANGED storage
       \/ "lost" \in Faults /\ storage' = [storage EXCEPT ![n.path] = file[loop.ino]]
    /\ LoopStep("uptouch", loop.ino, TRUE)
    /\ UNCHANGED <<db, nextIno, file, open, lru, pres, req, fh, mode, restarts, user>>

\* The upload succeeds: catalog and open node learn the object's signature.
upload ==
    LET n == LockedNode
        v == file[loop.ino]
    IN
    /\ Uploads(n)
    /\ storage' = [storage EXCEPT ![n.path] = v]
    /\ db' = PutNode(db, [n EXCEPT !.sig = v, !.hash = v], n.path)
    /\ open' = IF open[loop.ino] = NoNode THEN open
               ELSE [open EXCEPT ![loop.ino] = [CopyStat(@, v) EXCEPT !.hash = v]]
    /\ LoopStep("uptouch", loop.ino, FALSE)
    /\ UNCHANGED <<nextIno, file, lru, pres, req, fh, mode, restarts, user>>

\* Mutant: the error is not looked at.
TouchRo == touchIno(lru, loop.ino, FALSE)

\* The deferred touch of uploadOne: after an error the upload is retried.
TouchBack == touchIno(lru, loop.ino, loop.err)

\* It comes after the unlock.  An error ends uploadAll and with it resetCache.
touchUploaded ==
    /\ loop.pc = "uptouch"
    /\ \/ /\ lru' = TouchBack /\ dirpres' = Younger({loop.ino})
          /\ \/ /\ ~loop.err
                /\ LoopStep("upload", 0, FALSE)
                /\ UNCHANGED <<open, negpres, req, fh, name, mode>>
             \/ loop.err /\ EndReset
       \/ loop.err /\ EndClose
    /\ UNCHANGED <<persistent, restarts, nextVer, expect>>

\* Mutant: DirPathTimeout is not less than EvictDelay.
AnyListing(i) == dirpres

\* DirPathTimeout is less than EvictDelay: when the delay of inode i is over, the
\* listings made before it was last touched are forgotten.
LaterListings(i) == Unlisted({d \in DOMAIN dirpres : i \in dirpres[d]})

\* evictOne: take the oldest inode, once its delay is over.
takeEvict ==
    /\ loop.pc = "evict" /\ lru.ro # <<>> /\ (loop.force \/ Evicts)
    /\ lru' = popEvict(lru)
    /\ dirpres' = IF loop.force THEN dirpres ELSE LaterListings(Head(lru.ro))
    /\ LoopStep("evcs", Head(lru.ro), FALSE)
    /\ UNCHANGED <<persistent, open, negpres, req, fh, mode, restarts, user>>

\* evictOne finds no item: resetCache is over.
endEvict ==
    /\ loop.pc = "evict" /\ (lru.ro = <<>> \/ ~loop.force)
    /\ (EndReset /\ UNCHANGED <<lru, dirpres>>) \/ EndClose
    /\ UNCHANGED <<persistent, restarts, nextVer, expect>>

\* os.Remove of a cache file: a node that has it open keeps the removed file.
RemoveFile(i) ==
    /\ file' = [file EXCEPT ![i] = 0]
    /\ open' = IF open[i] # NoNode /\ open[i].fd = "linked"
               THEN [open EXCEPT ![i].fd = "orphan"] ELSE open

\* Mutant: evictOne does not ask openmap.
Listed(i) == i \in Elems(lru.rw) \cup Elems(lru.ro)

\* Reasons for evictOne to bail out: the inode snuck back in, or is open.
InUse(i) == i \in Elems(lru.rw) \cup Elems(lru.ro) \/ open[i] # NoNode

\* The section of evictOne.
evict ==
    LET i == loop.ino
        n == LockedNode
    IN
    /\ loop.pc = "evcs"
    /\ \/ n = NoNode /\ RemoveFile(i) /\ UNCHANGED db
       \/ n # NoNode /\ InUse(i) /\ UNCHANGED <<db, file, open>>
       \/ n # NoNode /\ ~InUse(i) /\ db' = DeleteNode(db, n.path) /\ RemoveFile(i)
    /\ LoopStep("evict", 0, FALSE)
    /\ UNCHANGED <<storage, nextIno, lru, pres, req, fh, mode, restarts, user>>

-----------------------------------------------------------------------------
(* Start, stop, crash *)

\* Mutant: a file is clean if the storage knows it.
Unsigned(n, files) == files[n.ino] # 0 /\ n.sig = 0

\* A node whose cache file does not have the catalogued hash was modified.
Dirty(n, files) == files[n.ino] # 0 /\ files[n.ino] # n.hash

\* OpenCache: drop the files that no node accounts for, sort the nodes into
\* the lists by comparing hashes, and start the forced reset of Activate, or
\* the one of the command cache-reset.
OpenCache(m) ==
    LET kept == [i \in Ino |-> IF GetWithIno(db, i) = NoNode THEN 0 ELSE file[i]]
        keys(d) == Sift(KeyOrder, {k \in Path :
                       Get(db, k) # NoNode /\ Dirty(Get(db, k), kept) = d})
        inos(d) == [j \in DOMAIN keys(d) |-> Get(db, keys(d)[j]).ino]
    IN
    /\ mode = "down"
    /\ restarts < IF m = "start" THEN MaxRestarts ELSE MaxRestarts - 1
    /\ restarts' = restarts + 1
    /\ file' = kept
    /\ lru' = [rw |-> inos(TRUE), ro |-> inos(FALSE)]
    /\ loop' = [LoopIdle EXCEPT !.pc = "upload", !.force = TRUE]
    /\ mode' = m
    /\ UNCHANGED <<storage, db, nextIno, open, pres, req, fh, user>>

\* The file system is unmounted: no request is in progress, but files may
\* still be open.
unmount ==
    /\ mode = "run" /\ InFlight = {} /\ restarts < MaxRestarts
    /\ mode' = "stop"
    /\ UNCHANGED <<persistent, open, lru, pres, req, fh, loop, restarts, user>>

\* CloseCache: the loop has returned, and a forced reset begins.
CloseCache ==
    /\ mode = "stop" /\ loop.pc = "idle"
    /\ loop' = [LoopIdle EXCEPT !.pc = "upload", !.force = TRUE]
    /\ UNCHANGED <<persistent, open, lru, pres, req, fh, mode, restarts, user>>

CanCrash(where) == where \in Crashes /\ mode # "down" /\ restarts < MaxRestarts

\* The process is killed between two steps ...
crash ==
    /\ CanCrash("boundary")
    /\ Shutdown
    /\ UNCHANGED <<persistent, restarts, nextVer, expect>>

\* ... while a file is being read from the storage ...
crashInDownload(c) ==
    LET n == open[req[c].ino] IN
    /\ CanCrash("download")
    /\ InSection(c, {"read"} \cup Modifies)
    /\ IoWorks(n) /\ Fetches(n) /\ file[n.ino] # storage[n.path]
    /\ file' = [file EXCEPT ![n.ino] = Torn]
    /\ Shutdown
    /\ UNCHANGED <<storage, db, nextIno, restarts, nextVer, expect>>

\* ... after an upload, before the catalog knows of it ...
crashInUpload ==
    LET n == LockedNode IN
    /\ CanCrash("upload")
    /\ Uploads(n)
    /\ storage' = [storage EXCEPT ![n.path] = file[loop.ino]]
    /\ Shutdown
    /\ UNCHANGED <<db, nextIno, file, restarts, nextVer, expect>>

\* ... or after the storage has made, removed or moved an object, before the
\* catalog knows of it.  The request counts as done.
crashInMake(c) ==
    LET n == open[req[c].ino]
        v == IF req[c].op = "mkdir" THEN Dir ELSE nextVer
    IN
    /\ CanCrash("make")
    /\ InSection(c, {"create", "mkdir"})
    /\ ~n.deleted /\ ~n.valid /\ StaysInvalid(c, n)
    /\ StorageMakes(n.path, v = Dir)
    /\ storage' = [storage EXCEPT ![n.path] = v]
    /\ expect' = [expect EXCEPT ![req[c].path] = v]
    /\ nextVer' = IF v = Dir THEN nextVer ELSE nextVer + 1
    /\ Shutdown
    /\ UNCHANGED <<db, nextIno, file, restarts>>

crashInRemove(c) ==
    LET n == open[req[c].ino]
        dir == req[c].op = "rmdir"
    IN
    /\ CanCrash("remove")
    /\ InSection(c, {"unlink", "rmdir"})
    /\ ~n.deleted /\ ~CatalogRefuses(n, req[c].key, dir) /\ ~StorageRefuses(n.path, dir)
    /\ storage' = [storage EXCEPT ![n.path] = 0]
    /\ expect' = [expect EXCEPT ![req[c].path] = 0]
    /\ Shutdown
    /\ UNCHANGED <<db, nextIno, file, restarts, nextVer>>

crashInRename(c) ==
    LET old == req[c].key
        new == req[c].to
    IN
    /\ CanCrash("rename")
    /\ InSection(c, {"rename"})
    /\ ~pathKeyHasPrefix(old, new) /\ ~pathKeyHasPrefix(new, old)
    /\ ~open[req[c].ino].deleted /\ ~StorageKeeps(old, new)
    /\ storage' = MoveTree(storage, old, new)
    /\ expect' = MoveTree(expect, old, new)
    /\ Shutdown
    /\ UNCHANGED <<db, nextIno, file, restarts, nextVer>>

-----------------------------------------------------------------------------

Init ==
    /\ storage = Objects
    /\ db = EmptyDb
    /\ nextIno = 1
    /\ file = [i \in Ino |-> 0]
    /\ open = [i \in Ino |-> NoNode]
    /\ lru = EmptyLru
    /\ negpres = {} /\ dirpres = NoListings
    /\ req = [c \in Client |-> Idle]
    /\ fh = [c \in Client |-> 0]
    /\ loop = LoopIdle
    /\ mode = "down"
    /\ restarts = 0
    /\ nextVer = 1 + Cardinality(Files(Objects))
    /\ expect = Objects
    /\ name = [c \in Client |-> NoPath]

Begin(c) ==
    \/ \E op \in PathOps \cap Ops, p, q \in Path : openNode(c, op, p, q)
    \/ \E op \in HandleOps \cap Ops : beginHandle(c, op)
    \/ release(c)

Continue(c) ==
    \/ insertNode(c) \/ readKey(c)
    \/ statNode(c) \/ makeNode(c) \/ removeNode(c) \/ renameNode(c)
    \/ readdirNode(c)
    \/ ioFails(c) \/ readAt(c) \/ modifyFile(c)
    \/ closeRequest(c) \/ closeAndUpdateNode(c) \/ touchClosed(c)

Background ==
    \/ tick \/ takeUpload \/ endUpload \/ skipUpload \/ failUpload \/ upload
    \/ touchUploaded \/ takeEvict \/ endEvict \/ evict

Lifecycle ==
    \/ \E m \in {"start", "reset"} : OpenCache(m)
    \/ unmount \/ CloseCache \/ crash \/ crashInUpload
    \/ \E c \in Client :
        crashInDownload(c) \/ crashInMake(c) \/ crashInRemove(c) \/ crashInRename(c)

Next ==
    \/ \E c \in Client : Begin(c) \/ Continue(c)
    \/ Background \/ Lifecycle

Spec == Init /\ [][Next]_vars

\* FUSE runs a request to its end, the ticker keeps the loop going, and a
\* process that is down is started again.  A delay passes, but not over and
\* over within one evictAll: a closed file is not evicted right away, so
\* evictAll ends.  The storage does not refuse an upload forever.
Fairness ==
    /\ \A c \in Client : WF_vars(Continue(c))
    /\ WF_vars(Background)
    /\ WF_vars(OpenCache("start")) /\ WF_vars(CloseCache)
    /\ SF_vars(takeUpload) /\ SF_vars(endEvict)
    /\ SF_vars(upload)

FairSpec == Spec /\ Fairness

-----------------------------------------------------------------------------
(* Properties *)

\* Types of the cache's state.
TypeOK ==
    /\ storage \in [Path -> 0..Dir]
    /\ db \in Db
    /\ nextIno \in 1..MaxIno + 1
    /\ file \in [Ino -> 0..Torn]
    /\ \A i \in Ino : open[i] = NoNode \/ (open[i] \in Node /\ open[i].ino = i /\ open[i].ref > 0)
    /\ lru \in [rw : Seq(Ino), ro : Seq(Ino)]
    /\ negpres \subseteq Path
    /\ DOMAIN dirpres \subseteq Path /\ \A d \in DOMAIN dirpres : dirpres[d] \subseteq Ino
    /\ \A c \in Client :
        /\ req[c].pc \in {"idle", "insert", "key", "cs", "close", "closing", "touch"}
        /\ req[c].pc # "idle" => req[c].ino \in Ino
        /\ fh[c] \in 0..MaxIno
        /\ name[c] \in Path \cup {NoPath}
    /\ loop.pc \in {"idle", "upload", "upcs", "uptouch", "evict", "evcs"}
    /\ mode \in {"down", "start", "reset", "run", "stop"}
    /\ nextVer \in 1..MaxVer + 1
    /\ expect \in [Path -> 0..MaxVer \cup {Dir}]

\* The loop still has inode i to upload: it is on the list, or in hand.
Pending(i) ==
    \/ i \in Elems(lru.rw)
    \/ loop.ino = i /\ (loop.pc = "upcs" \/ (loop.pc = "uptouch" /\ loop.err))

\* The catalogued file of path p holds version v.
Holds(p, v) == Get(db, p) # NoNode /\ file[Get(db, p).ino] = v

\* README: "Modified files will be uploaded to the object storage when they
\* are closed."  Whatever was acknowledged to be the content of a path is in
\* the storage, or in the catalogued cache file of that path with its upload
\* pending; and after the process ended, OpenCache would find it to upload.
Durable ==
    \A p \in Path : expect[p] # 0 /\ storage[p] # expect[p] =>
        /\ Holds(p, expect[p])
        /\ IF mode = "down" THEN Get(db, p).hash # expect[p] ELSE Pending(Get(db, p).ino)

\* README: "Modified files will be uploaded to the object storage when they
\* are closed."  Once no request is in progress and no handle is left on a path,
\* what was acknowledged to be its content is in the storage or in a cache file.
ClosedSurvives ==
    \A p \in Path :
        expect[p] # 0 /\ InFlight = {} /\ (\A c \in Client : name[c] # p) =>
            storage[p] = expect[p] \/ \E i \in Ino : file[i] = expect[p]

\* The database and the cache files alone suffice to find every acknowledged
\* version that is not in the storage yet: a crash at any step boundary loses
\* nothing.
CrashSafe ==
    \A p \in Path : expect[p] # 0 /\ storage[p] # expect[p] =>
        Holds(p, expect[p]) /\ Get(db, p).hash # expect[p]

\* The two buckets of the database describe the same files, each under the
\* path that its node carries.
CatalogConsistent ==
    /\ Consistent(db)
    /\ \A p \in Path : Get(db, p) # NoNode => Get(db, p).path = p

\* Nobody forgets a file: while the cache runs, a catalogued node or a cache
\* file is on a list, in the hands of the loop, or open.
Tracked ==
    mode \in {"run", "stop"} =>
        \A i \in Ino :
            (\E p \in Path : Get(db, p) # NoNode /\ Get(db, p).ino = i) \/ file[i] # 0 =>
                \/ i \in Elems(lru.rw) \cup Elems(lru.ro)
                \/ loop.ino = i
                \/ open[i] # NoNode
                \/ \E c \in Client : req[c].pc # "idle" /\ req[c].ino = i

\* An inode is on one list at most, and once: what is to be uploaded is not
\* to be evicted.
ListsDisjoint ==
    /\ \A l \in {lru.rw, lru.ro} : \A m, n \in DOMAIN l : l[m] = l[n] => m = n
    /\ Elems(lru.rw) \cap Elems(lru.ro) = {}

\* The references of inode i: handles, and requests between insert and close.
References(i) ==
    Cardinality({c \in Client : fh[c] = i}) +
    Cardinality({c \in Client :
        req[c].pc \in {"key", "cs", "close"} /\ req[c].op \in PathOps /\ req[c].ino = i})

\* openmap counts every reference, so that no handle and no request in
\* progress ever finds its node gone (EBADF).
HandlesOpen ==
    \A i \in Ino : References(i) > 0 => open[i] # NoNode /\ open[i].ref >= References(i)

\* ... and it counts no more than those, so that every node is closed at last.
HandlesCounted ==
    \A i \in Ino : IF open[i] = NoNode THEN References(i) = 0
                   ELSE open[i].ref = References(i)

\* A handle whose file is open reads what the path it stands for should hold,
\* even after a rename, next to uploads, evictions and other handles.
HandleCoherent ==
    \A c \in Client : fh[c] # 0 /\ name[c] # NoPath =>
        /\ open[fh[c]].path = name[c]
        /\ open[fh[c]].fd # "none" => file[fh[c]] = expect[name[c]] /\ open[fh[c]].fd = "linked"

\* The presence cache never hides a file that exists: a create that trusted
\* it would replace the object.
NegCoherent == \A p \in negpres : expect[p] = 0 /\ Get(db, p) = NoNode

\* The cache implements a write-back store: no create replaces an object, no
\* late upload or close brings a removed path back or takes an object to an
\* older version, and a directory that is removed is empty.
Store == INSTANCE WriteBack WITH Version <- 1..MaxVer

WritesBack == Store!Spec

\* A remembered listing shows what is in the directory.
Complete(d) == Listing(db, d) = {p \in Path : ChildOf(p, d) /\ expect[p] # 0}

\* "Readdir will be satisfied from cache": whatever is made, removed, written or
\* evicted meanwhile, a listing from the catalog is the one that the storage
\* would give.  (Renames are not among the requests of the run.)
ListingsComplete == mode = "run" => \A d \in DOMAIN dirpres : Complete(d)

\* Every acknowledged version that is not replaced reaches the storage.
EventuallyUploaded ==
    \A v \in 1..MaxVer :
        (\E p \in Path : expect[p] = v) ~>
            (\A p \in Path : expect[p] = v => storage[p] = v)
=============================================================================
