# Verification of objfs

objfs mounts an object storage as a file system. Its core is a write-back file
cache (`cache/`) between the FUSE handlers (`fs/objfs`) and an object storage
that is given by an interface (`objio`); a command line (`objfs.go`,
`commands.go`, `cache_commands.go`) drives the same cache and storage without a
mount. This directory holds TLA+ models of both, TLC configurations that check
them on small instances, and TLAPS proofs. Line numbers refer to
`src/cache/cache.go` unless another file is named.

## Inventory

| Part | State | Operations | What is hard | What makes it correct |
|---|---|---|---|---|
| Path lock | `pathmap` of reference counted `sync.RWMutex` | `lockPath`, `unlockPath`, the two locks of `renameNode` | mutexes are created and dropped while others use them; readers queue behind writers; a rename locks two chains | exclusion, exact counts, no deadlock, every request served |
| Node database (`cache/node.go`) | bolt buckets idx (inode to key) and cat (key to node) | `Get`, `GetWithIno`, `NextIno`, `Put`, the cursor over a subtree, the rename transaction | long sequences of updates; the byte order of keys; a key buffer that is reused inside a transaction | the buckets describe the same files |
| LRU lists | `rwlst`/`rwmap`, `rolst`/`romap` | `touchIno`, removal by `uploadOne` and `evictOne` | touched after the path was unlocked | an inode is on one list, what is to be uploaded is not evicted |
| Presence caches | `negpres`, `dirpres` | `hasPath`, `addPath`, `removePath`, `removeAllPath` | time to live, limit | never claims a path that was removed; bounded; drops the oldest |
| File cache | `openmap`, cache files, catalog | `Open`, `Make`, `Remove`, `Rename`, `Stat`, `Readdir`, `ReadAt`, `WriteAt`, `Truncate`, `Close`, the loop, `OpenCache`, `CloseCache` | requests overlap each other and the loop; storage faults; kills | it implements a write-back store: no acknowledged version is lost, no unlinked file comes back, handles stay coherent, listings are complete |
| FUSE handlers (`fs/objfs/objfs.go`) | none of their own | one handler per request: Open, the operation, deferred Close | errors and panics between Open and Close | every reference is dropped again |
| Configuration (`objfs.go`) | flags, configuration file, the variables of `needvar` | `needvar`, `config` | several passes of merging; resolved once per process; the file is written back whole | documented precedence; no setting lost |
| Commands (`commands.go`, `cache_commands.go`) | accounts, cache directories, credentials, the index lock of bolt | one per command, the shell, mount | several processes share files; a command fails half way | an upload reaches the right account; exit codes are honest; the index is released |
| Authentication (`auth/auth.go`) | stored credentials | `ReadCredentials`, `WriteCredentials`, the session | three kinds of path | as above |
| HTTP retry (`httputil`) | attempts of one request | `Retry` | an answer that is lost after the server has acted | nothing is sent twice that may have been applied; it ends |
| Registry, tracing, error codes, open file helpers | none or fixed | | | |

The handlers call the cache; the cache locks paths, reads and updates the node
database in transactions, calls the storage, and enters nodes in `openmap`
(under `openmux`) and inodes in the lists (under `lrumux`). The loop goroutine
runs `uploadAll` and `evictAll` periodically on the same state. A command
resolves its variables, calls the storage or opens the cache in a directory that
other processes may open too, and exits by a panic that runs the deferred
`CloseCache`. `PROJECT.json` lists the hazards, each at the line where it bites.

## Modules

| Module | Models | Remarks |
|---|---|---|
| `PathLock` | path lock | one step per section under `pathmux` and per operation of an `RWMutex`; a writer first announces itself, then waits for the readers; readers that come later queue until its `Unlock`. Memory cells (`Mux`) can be reused once no pointer to them is left. |
| `PathLockProofs` | | the inductive invariant, the theorems on exclusion and counts, and which mixes of requests cannot deadlock |
| `NodeDb` | node database | a database is a value, an operator is one call inside a transaction |
| `Tree` | path keys, the cursor over a subtree, the rename transaction | extends `NodeDb`; keys are sequences of names, `KeyOrder` is their byte order |
| `Link`, `LinkProofs` | the linked lists of `cache/link.go` | a list is the sequence of what its items stand for; the proofs also have induction over numbers |
| `Lru` | LRU lists | two sequences, least recently touched first; a map and its list hold the same inodes, so one sequence stands for both |
| `Presence` | abstract presence cache | may forget, never claims wrongly; `Cache` uses `negpres` and `dirpres` in this form |
| `PresenceCache`, `PresenceProofs` | `pathPresenceCache` | map, list, clock and limit; refines `Presence` |
| `WriteBack` | abstract write-back store | what users see and what the storage holds |
| `Cache` | file cache, handlers, loop, start and stop | composes `Tree` and `Lru`, implements `WriteBack`; see below |
| `CacheProofs` | | updates of the node database; references: no handle and no request loses its node; the lists: an inode is on one of them at most |
| `CacheSerialProofs` | | one request at a time: the invariant, and the sections that keep it |
| `CacheSerialTheorems` | | the remaining steps that keep it, and the theorems |
| `CacheContentProofs` | | one request at a time: no acknowledged content is lost, and the refinement of `WriteBack` |
| `Retry` | `httputil.Retry` | one step per attempt; its outcomes are a parameter |
| `Config` | the merging of options in `needvar` | operators only, next to a reference definition of the documented order |
| `Commands`, `CommandsProofs` | command line, credentials, processes | composes `Config` and `Retry`; see below |
| `MCPathLock`, `MCCache`, `MCCommands` | | instances for TLC |

Operators marked "Mutant" are versions with a plausible bug. They are not used
by the specifications; putting one in place of its original shows that a
property notices.

### Cache

*State.* `storage`, `db`, `nextIno` and `file` survive a crash; `open`
(`openmap`), `lru`, `negpres`, `dirpres`, `req` (requests in progress), `fh`
(handles), `loop` and `mode` do not. `expect` and `name` are history: what a
reader of each path must see according to the acknowledged requests, and the
path a handle stands for.

*Steps.* A section under a path lock is one step: `PathLock` is where its
exclusion is shown. Everything the code does outside the lock is a separate step
and interleaves: `openNode` (lookup), `insertNode` (openmap), `readKey`
(`node.Path` read to compute the key to lock), the section, `closeRequest`
(dereference), `closeAndUpdateNode`, `touchClosed`; in the loop `takeUpload`,
the section, `touchUploaded`, `takeEvict`, `evict`. `getLockedNodeWithIno`
repeats until the path it locked is the node's, so that it is one step
(`LockedNode`).

*Directories.* A directory is a node whose signature is `Dir`; it has no cache
file. A rename moves the whole subtree in the storage, the catalog and
`openmap`. `Readdir` either lists the storage, enters every child in the catalog
and puts the directory in `dirpres`, or, while it is there, answers from the
catalog.

*Content* is a version number. Each create, write and truncation makes a new
one; a signature and a hash are the version they were computed from. `Torn` is
content nobody wrote: half a download, a download over a longer file (the code
does not truncate it, 1106-1163), or a write to a part of content that was not
what the path should hold. `shrink` and `fshrink` are truncations to a smaller
size, for which `readNodeFromStorage` reads and hashes only what is kept.

*Time.* The delays are not counted: `takeUpload` and `takeEvict` may or may not
find the oldest inode old enough, unless the reset is forced. `Evicts = FALSE`
stands for the case that no inode sits out `EvictDelay` while mounted. One
relation between delays matters: `DirPathTimeout` is less than `EvictDelay`, so
that a listing has expired before an inode that was last touched before it is
evicted. `dirpres` therefore maps a directory to the inodes touched since it was
listed, and `takeEvict` keeps only the listings since which the inode it takes
was touched (`LaterListings`). Without that relation `ListingsComplete` fails, which is the
mutant of it.

*Faults.* `Faults` names the storage operations that may fail without effect;
`lost` is an upload that takes effect although it reports an error. `Crashes`
says where the process may be killed: between two steps, in the middle of a
download, or between a change of the storage and the catalog update that
follows it, for uploads, for creates and mkdirs, for removals and for renames
(`crashInUpload`, `crashInMake`, `crashInRemove`, `crashInRename`; the request
counts as done). bolt transactions are atomic and durable.

*Storage.* External: a map from path to version. `RenameReplaces` says whether
its `Rename` replaces an existing object, which the interface leaves open.

*Refinement.* `WriteBack` has two variables, `storage` and `expect`, and five
actions: make, modify, remove, rename a subtree, upload. Its point is what it
does not have: the storage changes only by the name operations of a user and by
an upload of exactly what the users see. `WritesBack` states that every step of
`Cache` is one of these or changes neither variable; crashes, evictions,
downloads and restarts change neither. An unlinked file that comes back, an
upload under an old name and an upload of an older version are no such steps.

### Commands

*State.* Shared and persistent: `config` (the file), `keys` (stored
credentials), `objects` of each account, and for each cache directory `pending`
(versions still to be uploaded), `indexed` and `lock` (bolt's lock on the
index). Per process: `proc`, the global variables of `objfs.go`, `cmd`, the
command in progress, and `call`, its request in `Retry`. `by` and `want` are
history: the account a version was written for, and all settings made.

*Steps.* `main` starts a process at a terminal, with one command or as a shell.
`run` resolves the variables of the command (`needvar`, which keeps what it
resolved for the next command of a shell) and counts its operands; then come the
cache's index (`OpenCache`, `openIndex`), a request for each path
(`sendRequest`, one attempt of `Retry` at a time), `finish`, and `recover`,
which runs the deferred `CloseCache`. `kill` ends a process anywhere. A mount
goes on with writes, uploads by the loop, and `unmount`.

*Abstractions.* The cache is reduced to the versions it has to upload; clean
copies in a cache directory are not modelled, as `Cache` is about them. `ls`
stands for `stat` and `statfs`, `rm` for `rmdir`. The stat and the create of
`cache-put` are one request. `run` with `needvar` is one step, because nothing
it changes is visible to another process. A session stands for the account of
its credentials, and the keyring for the directory it is kept in; what the user's
keyring does not have is looked up in the system's (`Found`). Failures of
local files and of the keyring, and the parsing of operands, are left out. That
a storage sends its requests through `Retry`, with a body when it uploads, is
how the storages outside this repository use it.

## Runs

Passing runs:

| Run | Bounds | Shows |
|---|---|---|
| `lock_rename` | 3 goroutines, renames of files in both directions, uses of them, one refused rename | `MutualExclusion`, `RefcntExact`, `DeadlockFree` |
| `lock_live` | 3 goroutines on the root and a file in it | `EveryRequestServed`, `TypeOK` |
| `presence` | 3 keys, limits 1 and 2, timeouts 1 and 2, 5 instants | `Bounded`, `OldestFirst`, `Refines`, `TypeOK` |
| `cache_shared` | 2 clients, one request at a time, 2 directories with a file each, 3 inodes, 1 new version, renames of subtrees, no eviction | `HandleCoherent`, `CrashSafe`, `WritesBack` |
| `cache_crash` | 1 client, a directory that exists and a file in it that does not, 2 inodes, 2 new versions, 2 starts, failing reads and uploads, kills between steps and after an upload, a create or a mkdir | `Durable`, `CrashSafe`, `HandleCoherent`, `ListingsComplete`, `WritesBack`, `EventuallyUploaded` |
| `cache_adverse` | 1 client, 2 files, every request on them, every fault, every kind of kill (within a download, and after each change of the storage), 2 starts, 2 inodes, 1 new version | `HandlesCounted`, `Tracked`, `CatalogConsistent`, `NegCoherent` |
| `cache_concurrent` | 2 clients, 2 requests at a time on one path, eviction, 2 inodes, 1 new version | `HandlesOpen`, `ListsDisjoint`, `TypeOK` |
| `commands` | 2 terminals, one with a shell, 2 accounts with a section each, 2 processes, 2 commands, 2 paths, 1 version, 2 attempts per request | `Precedence`, `Isolation`, `ExitHonest`, `ConfigKept`, `SentOnce`, `CommandsEnd` |

Two paths are what a rename needs, and a directory with a file is the smallest
subtree; a second inode number is what a path gets that is opened again after
eviction or unlink; with an object in the storage, one new version allows for an
older one in the storage and a newer one in the cache file, and without an
object two new versions do; two starts show a restart with everything the first
one left behind. `MaxRef` bounds the references of a node, which otherwise grow without bound (see the leak below).
In `commands`, two processes and two commands are what a race between processes,
a second command of a shell, or a command after a killed one take; two attempts
show a retry and the end of the retries. That instance stops when its processes
and commands are used up, so it is the one passing run without a deadlock check;
what must not get stuck is stated by `CommandsEnd`. Clients, threads and memory
cells are interchangeable, which the safety runs use as symmetry; runs with a
liveness property do not.

### Where the code does not do what it says

Each of these runs ends in a counterexample; `PROJECT.json` quotes the line that
says otherwise.

| Run | What happens |
|---|---|
| `lock_reentry` | A rename of `/a/x` to `/a/y` read-locks `/a` twice. A getattr of `/a` that announces its write lock in between waits for the first read lock, and the second read lock waits for it. |
| `cache_evict_race` | Requests run one at a time. The loop evicts a node between its lookup and its entry in `openmap`, so that a second client's open of the path gets a second inode, which is catalogued and closed. The first client writes and closes, which catalogues the first inode. Then `evictOne` of the second inode finds the path in its index entry and deletes the catalog entry, which is the first inode's; `uploadOne` finds no node for the first inode and hands it to the evictor, which removes its cache file. A modification that was closed is neither in the storage nor in a cache file (`ClosedSurvives`). |
| `cache_torn_download` | Killed during a download, the next start takes the partial file for a modified one and uploads it over the intact object. |
| `cache_shrink_unsent` | A truncation on first use catalogues the hash of its own result. If the upload at unmount fails, the next start takes the file for clean and evicts it. |

The same models show more behaviour of this kind, with other constants:

- `PathLock` with `Requests <- CrossingRenames` violates `DeadlockFree`: the key
  order `/a` < `/a.b` < `/a/x` is not the order in which the chain of `/a/x` is
  locked. (A kernel that serialises such renames hides this.)
- `Cache` with `MaxInFlight = 2` violates `Durable` on one path, because two
  overlapping opens of an uncatalogued path get two inodes; with two paths and
  renames it violates `WritesBack`, because a node that is being closed is no
  longer in `openmap` when it is renamed, and is stored under its old path.
- With `MaxInFlight = 2`, renames and restarts `ListsDisjoint` is violated: a write
  whose key was read before a rename stores its node under the old path (line
  1049), the inode is then catalogued twice, and the next `OpenCache` lists it
  twice.
- With `RenameReplaces = TRUE`, renames and a modified target, `Durable` is
  violated: the target's catalog entry is only deleted when the source has one
  (line 795).
- With `Faults = {"lost"}` and reads, `Durable` is violated: the stale signature
  makes the next open fetch the uploaded version over a newer cache file.
- With `Faults = {"stat"}` and creates, `WritesBack` is violated: `makeNode`
  ignores the error of its stat (line 586) and replaces an object that exists.
- In `cache_crash` with `"remove"` among the `Crashes`, `WritesBack` and
  `ListingsComplete` are violated: a kill between `storage.Remove` and the update
  of the catalog (lines 675-693) leaves the entry of a file that was modified, and
  the next `OpenCache` uploads it, so that a removed file is back.
- With `Crashes = {"rename"}`, two files and two starts, `CrashSafe` and
  `Durable` are violated: a kill between `storage.Rename` and the transaction
  (lines 744-761) leaves modified content under the old name, where the next
  `OpenCache` uploads it, and the older content under the new name.
- A directory with two files whose names are equally long, listed and then
  renamed, violates `CatalogConsistent`: the keys of the index entries share one
  buffer (line 787), which bolt reads when it commits.
- With `/a.b` in the catalog, a rename of `/a` with a modified `/a/x` violates
  `CrashSafe`: the cursor that visits the subtree of `/a` stops at `/a.b`
  (line 766), and the entry of `/a/x` stays behind.
- With renames and `readdir`, `ListingsComplete` is violated: a rename leaves
  `dirpres` alone (line 1039), so the listing of a path is taken from the catalog
  although another directory is there now.
- In `cache_concurrent`, `HandlesCounted` does not hold: `node.Stat` panics on a
  node that was unlinked while it was being opened, and `objfs.Open` unwinds
  without a Close. The catalog entry can even come back with such a node, after
  which every open of the path leaks a reference.
- `Commands` with settings made at both terminals violates `ConfigKept`: each
  process writes the file as it read it when it started (commands.go:191).
- With a section `two` that names no `datadir`, as in the manual's own example
  (objfs.1.asciidoc:219-228), `Isolation` is violated: a mount of the first
  account is killed before it has uploaded a file, and a `cache-reset` with the
  second section uploads that file to the second account.

While modelling the command line these came up as well; the model has them, and
no property speaks against them:

- On a connection that breaks under a request with a body, the loop that unwraps
  the error (httputil.go:79) does not end: `spins` in `Retry`. `CommandsEnd` has
  it as an exception, and whoever waits for that process's index waits on.
- `WriteCredentials` takes a `file:` URI for the name of the file, while
  `ReadCredentials` takes the path in it (`WriteTo`, `ReadFrom`).
- The exit codes of `config` and `keyring` are dropped by the `run` they call.
- When the keyring cannot be initialised, `needvar` does not try again: a shell
  goes on with the system's keyring.

One more is outside the model: an `OpenCache` that finds an index of another
version returns without closing the database, so that the next open in the same
shell waits for itself.

This is also why the passing runs are what they are: `Durable` and
`HandleCoherent` hold for one client with eviction, kills and failing reads or
uploads, and for two clients while nothing is evicted; `ConfigKept` holds while
one terminal makes the settings, `Isolation` while each account has a data
directory of its own.

### Fairness

`PathLock`: Go runs every goroutine that can run (weak fairness of each step),
and `sync.Mutex`, on which `RWMutex.Lock` waits for other writers, hands itself
to the longest waiter when that one starves (strong fairness of `LockW`).
Readers are let in by `Unlock` and need no more. Nothing forces a goroutine to
start a request.

`Cache`: FUSE runs a request to its end, the ticker drives the loop, and a
process that is down is started again (weak fairness); delays pass
(`takeUpload`), `evictAll` ends because a closed file is not old enough to be
evicted right away (`endEvict`), and the storage does not refuse an upload
forever (`upload`), all strong. Clients need not issue any request; kills are
bounded by `MaxRestarts`.

`Commands`: the operating system runs every process that can run, and an attempt
at a request comes back (weak fairness of `Step` for each process; what the
attempt yields is open, and their number is bounded by `RetryCount`). Nobody has
to give a command, leave a shell, unmount or kill. A process that waits for an
index need not be the one that gets it; with finitely many commands it does in
the end, unless a process stays that has it.

## Proofs

The theorems hold for every value of the constants that satisfies the named
assumptions, which TLC evaluates for each instance: paths are closed under taking
ancestors and a key sorts after its prefixes; nil values are not values; options
and data directories named in the configuration are known ones
(`OptionsAssumption`, `DataDirAssumption`); clients are finitely many, and the
key order has every path key once (`CacheAssumption`); the objects that are there
before the first mount have versions of their own (`ObjectsAssumption`).

**Path lock.** `PathLockProofs` proves, for any set of goroutines, any tree of
paths and any set of requests, `TypeOK`, `MutualExclusion` and `RefcntExact`.
Mutual exclusion is not inductive: whether two goroutines use the same mutex for
a key depends on the mutex not being dropped while one of them holds it. The
invariant `IInv` adds where each goroutine is in its plan (`PlanInv`), that
distinct keys have distinct mutexes and the local pointer of `lockPath` is the
one in the map (`PointerInv`), that a mutex is in the map as long as it is
referenced, with its exact count (`CountInv`), and that what a goroutine holds
is recorded in its mutex (`LockInv`), including the mutex it has dereferenced
and is about to unlock. There is one lemma per action; adding and removing a
reference are lemmas about the set `RefPositions` and its cardinality.

It also proves `DeadlockFree` for the mixes of requests in which
nobody locks for writing a directory above a path that is being renamed
(`RenamesApart`). Requests on one path each satisfy this in any mix; renames of
files do as long as their directories are not opened or looked at, as in
`lock_rename`; `lock_reentry` and `CrossingRenames` are mixes that do not, and
they deadlock. The keys are assumed to be bounded, as the length of a path is.
The argument: under `RenamesApart` every plan takes its contended keys in
increasing order (`OrderInv`). A blocked goroutine waits at a contended key, for
one that has this key or, having announced itself, waits for a reader that has
it; whoever has it waits at a greater key. To say who that is, the proof needs
the converse of `LockInv`: every writer and reader that a mutex records is a
goroutine that holds it or has been let in, and a queued reader has a writer
before it (`HolderInv`). A set of waiting goroutines would then have no greatest
key.

**Node database.** `CacheProofs` first proves that deletion and the move of one key,
with none below it, keep the two buckets consistent (a subtree with its shared
buffer does not, as said above), and under which condition `Put` does: the
inode is new or has that key, and the key is free or has that inode. The races
above are the cases that break this condition.

**Presence cache.** `PresenceProofs` proves that `PresenceCache` implements
`Presence`, and `TypeOK`, `Bounded` and `OldestFirst`, for all keys, timeouts
and limits. The invariant `ListInv` adds that the list has no key twice, that
the keys of the map are finitely many, and that no item is from the future; the
lemmas about lists are in `LinkProofs`.

**Command line.** `CommandsProofs` proves for any number of terminals,
processes, commands, accounts and paths:

- `Precedence`: the passes of `needvar` over flags and sections amount to the
  documented order, by cases on the maps.
- `SentOnce`: as long as `Retry` may try again, nothing of a request with a body
  has reached the server (`CallInv`).
- `ExitHonest`: `RunInv` says what a command at each of its steps has resolved
  and that the paths not yet done are still among its operands unless one has
  failed. It is carried through `needvar` by a lemma per variable
  (`StorageResolves`, `CachePathResolves` and so on).
- `ConfigKept`, under the hypothesis that one terminal makes the settings: what
  the process at that terminal has read is the file as it is (`KeptInv`). With
  two it does not hold, as said above.
- `Isolation`, under the hypothesis that no cache directory is ever used for two
  accounts (`Apart`), in terms of the directories that the processes resolve:
  everything in an account, in the directory of an account and in a command
  under way was written for that account (`VersionInv`). The instance of the run
  satisfies it, with one data directory for each section; the manual's example
  does not, as said above.

**File cache.** The theorems about `Cache` hold for any tree of paths, and any
faults, evictions, kills and restarts except those named below. They assume that nil is not a node
(`~IsNode(NoNode)`), which TLC cannot evaluate for the model value that stands
for nil, and so is a hypothesis. The first two are for any number of clients and
FUSE workers.

- `HandlesOpen` (`CacheProofs`), with every request, renames included: no handle
  and no request in progress finds its node gone. The invariant `HandleInv` says
  which reference a request may use at each of its steps (its own between
  `insertNode` and `closeRequest`, its handle's otherwise), that `openmap` has
  nodes that carry their inode number and a positive count, and that the
  handles and requests of an inode are no more than its count (`CountInv`). It
  states types only as far as the count needs them: the catalog's nodes carry
  inode numbers, whatever their paths, which is what survives the rename of a
  subtree and the shared buffer of line 787. `SectionStep` abstracts what all
  sections have in common; there is one lemma that a section step keeps the
  invariant and one per section that it is such a step. The count is an upper
  bound and not exact: the panic described above leaks a reference.
- `ListsDisjoint` (`CacheProofs`), under the hypothesis that nothing is
  renamed. That the lists stay disjoint while the cache runs follows from
  `touchIno`; that they are so after a restart depends on the catalog not having
  an inode under two keys. `ListInv` therefore says that every inode number ever
  handed out has one path for good (`Homes`): in the catalog, in `openmap`, in the
  node that a request is about to enter or has taken out, and in the key it has
  read. `openNode` and `readdirNode` give new numbers their paths, and
  `OpenCache` lists an inode once because two keys have two numbers. With
  renames, `Homes` is what breaks, as said above.

The others are for a mount that runs one request at a time next to the loop
(`Serial`): `MaxInFlight` is at most 1, nothing is renamed, there is a second
client, with a handle of its own, only if nothing is evicted while the file system
is mounted, and no kill comes between the removal of an object and that of its
catalog entry. Without the first condition two opens of one path make two inodes, and
without the third `cache_evict_race` does; renames break them as said above, and
the last is what keeps the catalog and the storage in step (`CatalogOK`). They
are `CatalogConsistent`, `HandlesCounted`, `Tracked`, `NegCoherent` and `TypeOK`
(`CacheSerialTheorems`), with every storage fault and with kills between any two
steps, within a download, and between an upload, a create or a mkdir and its
record in the catalog.

None of the five is inductive, and none can be separated from the others: what
`Put` does to the catalog is harmless only if the node in hand is the one of its
path, which depends on who else has it open, on what the storage has there and on
what the presence cache has let `makeNode` skip. `SerialInv` therefore says of
each path and each node, in `openmap` or in the hand of a request:

- the storage has an object where users see one, and a directory where they see
  one (`NameOK`); what the catalog has is in the storage (`CatalogOK`);
- a node that is neither deleted nor unknown has its path to itself: the catalog
  has no other inode there (`NodeOK`), and no other such node has that path
  (`Unique`); a deleted node is not in the catalog, which is why a late Close or
  upload does not bring it back; a cache file belongs to a catalogued node; an
  open file is linked and catalogued (`LinkedOK`);
- references are exact, where `HandleInv` only bounds them (`Exact`);
- what the request in progress may rely on at each of its steps (`ReqOK`), what a
  handle stands for (`HandleOK`), and in which phases the loop is forced and has
  an inode in hand (`Phases`);
- every inode with a catalogued node or a cache file is on a list or with
  somebody who will put it there.

Sections change one path and one inode, so that one lemma (`SectionInv`) carries
the invariant through all of them from what they do at that path; `Readdir`, which
enters any number of nodes, has its own (`ListedForm`). `ClientInv` does the same
for the steps of a request outside its section, `QuietLoop` for those of the loop
that move inodes between lists only; `upload`, `evict` and their interrupted forms
have a lemma each. `OpenCacheInv` shows that the lists that `OpenCache` builds from
the catalog have every cache file, so that the invariant survives a restart.

On top of it, `CacheContentProofs` proves `CrashSafe`, `Durable` and
`HandleCoherent` for a mount that is `Careful`: `Serial`, no Truncate to a smaller
size, no upload whose reply is lost, no kill within a download. Each of the three
is a way in which the code does lose content, as said above; storage requests may
fail, and the process may be killed between any two steps and between an upload,
a create or a mkdir and its record in the catalog. The invariant `ContentInv` says:

- the cache file of a catalogued path has what users see, and where there is none
  the object has it; while the object is older, the catalogued signature is that
  of the object and the catalogued hash is not that of the file (`PathContent`). The
  first keeps `EnsureFile` from reading the old object over the new file, the
  second makes `OpenCache` list the file for upload;
- the same of every node that a Close or a stat may still store over the catalogued
  one, and storing it leaves a signature that is its own or the object's
  (`NodeContent`); while a file is open, node and catalog know the object
  (`LinkedContent`). Without these two `closeAndUpdateNode` could put an old
  signature back next to a modified file, which the next Open would overwrite: it
  is what a lost reply does;
- while the process runs, what the storage does not have is to be uploaded
  (`Waiting`), which is why `evictOne`, which compares no content, drops only what
  is in the storage.

Sections go through one lemma again (`SectionContent`, with `Agree` for what node,
catalog, object, users and file have to do with each other), the steps outside
sections through `ClientContent`, and the loop, the kills and `OpenCache` have a
lemma each. The hypothesis on Truncate is one on requests, so that the proof also
carries that no request in progress is one (`Asked`).

`CacheWritesBack` is the refinement of `WriteBack`, with the identity as mapping: a
lemma per kind of step shows that it is a step of the store or changes neither
variable (`makeNodeStored`, `removeNodeStored`, `modifyFileStored`,
`UploadStored`, and `StepStored` for all). Each rests on a different part of the
invariants: Create finds nothing because `negpres` hides no file and `NameOK` ties
the storage to what users see; a modified path is a file because the node of an
open file is catalogued (`IoReady`); an upload, also one that a kill cuts off from
its record, stores what users see because the cache file of a catalogued path has
it (`PathContent`); and what Rmdir removes is empty because everything in the
storage is in a directory (`Rooted`), which the proof carries along. The mount is
`Answering`: `Careful`, with every stat answered, since `makeNode` ignores the
error of its stat as said above, and with objects that form a tree at the start.

What `Sift`, `TouchAll` and `RenameTree` compute along a sequence is proved by
induction: the library's induction theorems take an operator and cannot be
instantiated, but well-foundedness of the numbers gives induction over a set
(`Induction` in `LinkProofs`). For each recursive function one lemma says that
it exists and one what its values are (`SiftedExists` and `SiftsAt`, and so on).

Only model-checked: of `Cache`, `ListingsComplete`; what is proved above of one
request at a time, with renames (`cache_adverse`, `cache_shared`), with kills
between a removal or a rename and its record (`cache_adverse`) and, for `TypeOK`,
with overlapping requests; and liveness (`EveryRequestServed`,
`EventuallyUploaded`, `CommandsEnd`), which is out of the prover's reach.

## Not modelled

Case-insensitive keys; the byte layout of nodes; failures of the local disk, of
the database and of the keyring; changes to the storage by others; Statfs,
Fsync, ListCache and extended attributes, which change no state kept here;
option parsing and the signals of a mount; printing and usage messages; the
table of redirects in `httputil`, which nothing in the repository writes; the
registry, a map filled at initialisation; tracing, which passes every call on;
error codes, a stateless translation; the helpers that open files so that they
can be removed while open, whose effect `Cache` has.

## Plan

1. Done: path lock with proofs, node database with proofs, presence cache with
   refinement, file cache with files and directories, the abstract write-back
   store and the refinement, HTTP retry, configuration, command line.
2. Done: proofs of exclusion, counts and deadlock freedom of the path lock, of the
   presence cache, of the command line's options, retries, exit codes,
   configuration file and accounts, and of the file cache's references and lists.
3. Done: for one request at a time, that the catalog, the references, the lists
   and the presence cache of the file cache agree.
4. Done: with the same restriction, that no acknowledged content is lost, and the
   refinement of `WriteBack`.
5. Proofs left, about `Cache`: `ListingsComplete`.
