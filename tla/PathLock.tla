------------------------------ MODULE PathLock ------------------------------
(***************************************************************************)
(* The hierarchical path lock of cache/cache.go: lockPath, unlockPath and  *)
(* the two-path acquisition of renameNode.                                 *)
(*                                                                         *)
(* A path key is the sequence of its components; the root "/" is <<>>.     *)
(* Locking a path read-locks every proper ancestor, from the root down,    *)
(* and write-locks the path itself.  The mutexes live in pathmap, a map    *)
(* from path key to a reference counted sync.RWMutex that is created by    *)
(* the first locker and dropped by the last unlocker.  Each step of a      *)
(* thread below is one section under the map's own mutex (pathmux), or     *)
(* one operation of a sync.RWMutex.                                        *)
(***************************************************************************)
EXTENDS Naturals, Sequences, FiniteSets

CONSTANTS
    Thread,     \* goroutines: FUSE request handlers and the cache's loop
    Path,       \* path keys, closed under taking ancestors
    Rank,       \* position of a key in the byte order of Go's < on strings
    Mux,        \* memory cells for pathmux_t values
    NoMux,      \* the nil *pathmux_t
    NoThread,   \* no writer
    Requests    \* pairs <<p, q>>: p = q locks one path, else renames p to q

ASSUME PathAssumption ==
    /\ Path \subseteq Seq(STRING)
    /\ \A p \in Path : \A n \in 0..Len(p) : SubSeq(p, 1, n) \in Path

\* A key sorts after its ancestors' keys, which are its prefixes.
ASSUME RankAssumption ==
    /\ Rank \in [Path -> Nat]
    /\ \A p \in Path : \A n \in 0..Len(p) - 1 : Rank[SubSeq(p, 1, n)] < Rank[p]

ASSUME RequestsAssumption == Requests \subseteq Path \X Path

ASSUME NilAssumption == NoMux \notin Mux /\ NoThread \notin Thread

VARIABLES
    pc,         \* pc[t]: what thread t does next
    plan,       \* plan[t]: the locks of t's request, in acquisition order
    got,        \* got[t]: how many locks of its plan thread t holds
    cur,        \* cur[t]: the local variable pathmux of lockPath/unlockPath
    pathmap,    \* Cache.pathmap
    refcnt,     \* pathmux_t.refcnt
    wr,         \* pathmux_t.mux: the writer that has announced itself or holds
    rd,         \* pathmux_t.mux: the active readers, as <<thread, position>>
    rq          \* pathmux_t.mux: the readers queued behind the writer

vars == <<pc, plan, got, cur, pathmap, refcnt, wr, rd, rq>>

-----------------------------------------------------------------------------
(* The locks of a request *)

Step == [path : Path, w : BOOLEAN]

partialPaths(p) == [i \in 1..Len(p) + 1 |-> SubSeq(p, 1, i - 1)]

lockSteps(p) ==
    [i \in 1..Len(p) + 1 |-> [path |-> partialPaths(p)[i], w |-> i = Len(p) + 1]]

pathKeyHasPrefix(p, q) == Len(q) <= Len(p) /\ SubSeq(p, 1, Len(q)) = q

\* renameNode refuses to move a path into itself before it takes any lock.
renameAllowed(p, q) ==
    p = q \/ ~(pathKeyHasPrefix(p, q) \/ pathKeyHasPrefix(q, p))

\* Mutant: the old path is always locked first.
renameStepsOldFirst(p, q) ==
    IF p = q THEN lockSteps(p) ELSE lockSteps(p) \o lockSteps(q)

\* The locks of renameNode, in the order of the keys; a rename that keeps the
\* key (of a file to its name in another case) locks it once.
renameSteps(p, q) ==
    IF Rank[p] < Rank[q] THEN lockSteps(p) \o lockSteps(q)
    ELSE IF Rank[p] > Rank[q] THEN lockSteps(q) \o lockSteps(p)
    ELSE lockSteps(p)

-----------------------------------------------------------------------------

Init ==
    /\ pc = [t \in Thread |-> "idle"]
    /\ plan = [t \in Thread |-> <<>>]
    /\ got = [t \in Thread |-> 0]
    /\ cur = [t \in Thread |-> NoMux]
    /\ pathmap = [p \in Path |-> NoMux]
    /\ refcnt = [m \in Mux |-> 0]
    /\ wr = [m \in Mux |-> NoThread]
    /\ rd = [m \in Mux |-> {}]
    /\ rq = [m \in Mux |-> {}]

\* A goroutine starts a request that passes renameNode's guard.
Start(t) ==
    /\ pc[t] = "idle"
    /\ \E r \in Requests :
        /\ renameAllowed(r[1], r[2])
        /\ plan' = [plan EXCEPT ![t] = renameSteps(r[1], r[2])]
    /\ pc' = [pc EXCEPT ![t] = "ref"]
    /\ UNCHANGED <<got, cur, pathmap, refcnt, wr, rd, rq>>

\* A cell that a new pathmux_t can occupy: no pointer to it is left.
Fresh(m) ==
    /\ \A p \in Path : pathmap[p] # m
    /\ \A t \in Thread : cur[t] # m

\* Mutant: a new pathmux_t starts without the reference of its creator.
RefUncounted(t) ==
    LET p == plan[t][got[t] + 1].path IN
    /\ pc[t] = "ref"
    /\ \/ /\ pathmap[p] # NoMux
          /\ refcnt' = [refcnt EXCEPT ![pathmap[p]] = @ + 1]
          /\ cur' = [cur EXCEPT ![t] = pathmap[p]]
          /\ UNCHANGED pathmap
       \/ /\ pathmap[p] = NoMux
          /\ \E m \in Mux :
              /\ Fresh(m)
              /\ pathmap' = [pathmap EXCEPT ![p] = m]
              /\ refcnt' = [refcnt EXCEPT ![m] = 0]
              /\ cur' = [cur EXCEPT ![t] = m]
    /\ pc' = [pc EXCEPT ![t] = "lock"]
    /\ UNCHANGED <<plan, got, wr, rd, rq>>

\* The section of lockPath under pathmux: find or create, then reference.
Ref(t) ==
    LET p == plan[t][got[t] + 1].path IN
    /\ pc[t] = "ref"
    /\ \/ /\ pathmap[p] # NoMux
          /\ refcnt' = [refcnt EXCEPT ![pathmap[p]] = @ + 1]
          /\ cur' = [cur EXCEPT ![t] = pathmap[p]]
          /\ UNCHANGED <<pathmap, wr, rd, rq>>
       \/ /\ pathmap[p] = NoMux
          /\ \E m \in Mux :
              /\ Fresh(m)
              /\ pathmap' = [pathmap EXCEPT ![p] = m]
              /\ refcnt' = [refcnt EXCEPT ![m] = 1]
              /\ wr' = [wr EXCEPT ![m] = NoThread]
              /\ rd' = [rd EXCEPT ![m] = {}]
              /\ rq' = [rq EXCEPT ![m] = {}]
              /\ cur' = [cur EXCEPT ![t] = m]
    /\ pc' = [pc EXCEPT ![t] = "lock"]
    /\ UNCHANGED <<plan, got>>

\* The lock of position got[t] + 1 is held: go on, or enter the section.
Advance(t) ==
    /\ got' = [got EXCEPT ![t] = @ + 1]
    /\ cur' = [cur EXCEPT ![t] = NoMux]
    /\ pc' = [pc EXCEPT ![t] = IF got[t] + 1 = Len(plan[t]) THEN "cs" ELSE "ref"]

\* Mutant: the writer takes the place of another.
LockWAnyway(t) ==
    /\ pc[t] = "lock"
    /\ plan[t][got[t] + 1].w
    /\ wr' = [wr EXCEPT ![cur[t]] = t]
    /\ pc' = [pc EXCEPT ![t] = "ann"]
    /\ UNCHANGED <<plan, got, cur, pathmap, refcnt, rd, rq>>

\* RWMutex.Lock, first half: exclude other writers and announce this one.
LockW(t) ==
    /\ pc[t] = "lock"
    /\ plan[t][got[t] + 1].w
    /\ wr[cur[t]] = NoThread
    /\ wr' = [wr EXCEPT ![cur[t]] = t]
    /\ pc' = [pc EXCEPT ![t] = "ann"]
    /\ UNCHANGED <<plan, got, cur, pathmap, refcnt, rd, rq>>

\* RWMutex.Lock, second half: the readers that were active have left.
AcqW(t) ==
    /\ pc[t] = "ann"
    /\ rd[cur[t]] = {}
    /\ Advance(t)
    /\ UNCHANGED <<plan, pathmap, refcnt, wr, rd, rq>>

\* RWMutex.RLock: a reader gets in unless a writer has announced itself.
LockR(t) ==
    /\ pc[t] = "lock"
    /\ ~plan[t][got[t] + 1].w
    /\ wr[cur[t]] = NoThread
    /\ rd' = [rd EXCEPT ![cur[t]] = @ \cup {<<t, got[t] + 1>>}]
    /\ Advance(t)
    /\ UNCHANGED <<plan, pathmap, refcnt, wr, rq>>

\* RWMutex.RLock behind a writer: the reader queues until the writer unlocks.
QueueR(t) ==
    /\ pc[t] = "lock"
    /\ ~plan[t][got[t] + 1].w
    /\ wr[cur[t]] # NoThread
    /\ rq' = [rq EXCEPT ![cur[t]] = @ \cup {<<t, got[t] + 1>>}]
    /\ pc' = [pc EXCEPT ![t] = "rwait"]
    /\ UNCHANGED <<plan, got, cur, pathmap, refcnt, wr, rd>>

\* The queued reader was let in by the writer's Unlock.
AcqR(t) ==
    /\ pc[t] = "rwait"
    /\ <<t, got[t] + 1>> \in rd[cur[t]]
    /\ Advance(t)
    /\ UNCHANGED <<plan, pathmap, refcnt, wr, rd, rq>>

\* The work under the lock is done; the deferred unlockPath calls begin.
Leave(t) ==
    /\ pc[t] = "cs"
    /\ pc' = [pc EXCEPT ![t] = "unref"]
    /\ UNCHANGED <<plan, got, cur, pathmap, refcnt, wr, rd, rq>>

\* Mutant: every unlockPath drops the mutex.
UnrefDrops(t) ==
    LET p == plan[t][got[t]].path
        m == pathmap[p]
    IN
    /\ pc[t] = "unref"
    /\ cur' = [cur EXCEPT ![t] = m]
    /\ refcnt' = [refcnt EXCEPT ![m] = @ - 1]
    /\ pathmap' = [pathmap EXCEPT ![p] = NoMux]
    /\ got' = [got EXCEPT ![t] = @ - 1]
    /\ pc' = [pc EXCEPT ![t] = "unlock"]
    /\ UNCHANGED <<plan, wr, rd, rq>>

\* The section of unlockPath under pathmux: dereference, drop at zero.
Unref(t) ==
    LET p == plan[t][got[t]].path
        m == pathmap[p]
    IN
    /\ pc[t] = "unref"
    /\ cur' = [cur EXCEPT ![t] = m]
    /\ refcnt' = [refcnt EXCEPT ![m] = @ - 1]
    /\ pathmap' = IF refcnt[m] = 1 THEN [pathmap EXCEPT ![p] = NoMux] ELSE pathmap
    /\ got' = [got EXCEPT ![t] = @ - 1]
    /\ pc' = [pc EXCEPT ![t] = "unlock"]
    /\ UNCHANGED <<plan, wr, rd, rq>>

\* Mutant: Unlock leaves the queued readers where they are.
UnlockAlone(t) ==
    LET m == cur[t] IN
    /\ pc[t] = "unlock"
    /\ \/ /\ plan[t][got[t] + 1].w
          /\ wr' = [wr EXCEPT ![m] = NoThread]
          /\ UNCHANGED rd
       \/ /\ ~plan[t][got[t] + 1].w
          /\ rd' = [rd EXCEPT ![m] = @ \ {<<t, got[t] + 1>>}]
          /\ UNCHANGED wr
    /\ cur' = [cur EXCEPT ![t] = NoMux]
    /\ pc' = [pc EXCEPT ![t] = IF got[t] = 0 THEN "idle" ELSE "unref"]
    /\ UNCHANGED <<plan, got, pathmap, refcnt, rq>>

\* RWMutex.Unlock lets every queued reader in; RUnlock removes one reader.
Unlock(t) ==
    LET m == cur[t] IN
    /\ pc[t] = "unlock"
    /\ \/ /\ plan[t][got[t] + 1].w
          /\ wr' = [wr EXCEPT ![m] = NoThread]
          /\ rd' = [rd EXCEPT ![m] = rq[m]]
          /\ rq' = [rq EXCEPT ![m] = {}]
       \/ /\ ~plan[t][got[t] + 1].w
          /\ rd' = [rd EXCEPT ![m] = @ \ {<<t, got[t] + 1>>}]
          /\ UNCHANGED <<wr, rq>>
    /\ cur' = [cur EXCEPT ![t] = NoMux]
    /\ pc' = [pc EXCEPT ![t] = IF got[t] = 0 THEN "idle" ELSE "unref"]
    /\ UNCHANGED <<plan, got, pathmap, refcnt>>

Proceed(t) ==
    \/ Ref(t) \/ LockW(t) \/ AcqW(t) \/ LockR(t) \/ QueueR(t) \/ AcqR(t)
    \/ Leave(t) \/ Unref(t) \/ Unlock(t)

Next == \E t \in Thread : Start(t) \/ Proceed(t)

Spec == Init /\ [][Next]_vars

\* Go schedules every runnable goroutine, and sync.Mutex hands the lock over
\* in arrival order once a waiter starves, so a writer is not passed over
\* forever by other writers.
Fairness == \A t \in Thread : WF_vars(Proceed(t)) /\ SF_vars(LockW(t))

FairSpec == Spec /\ Fairness

-----------------------------------------------------------------------------
(* Properties *)

\* The types of the variables.
Types ==
    /\ pc \in [Thread -> {"idle", "ref", "lock", "ann", "rwait", "cs", "unref", "unlock"}]
    /\ plan \in [Thread -> Seq(Step)]
    /\ got \in [Thread -> Nat]
    /\ cur \in [Thread -> Mux \cup {NoMux}]
    /\ pathmap \in [Path -> Mux \cup {NoMux}]
    /\ refcnt \in [Mux -> Nat]
    /\ wr \in [Mux -> Thread \cup {NoThread}]
    /\ rd \in [Mux -> SUBSET (Thread \X (Nat \ {0}))]
    /\ rq \in [Mux -> SUBSET (Thread \X (Nat \ {0}))]

\* The types; a thread that works on a lock has a pointer to its mutex, and a
\* thread in its critical section holds its whole plan.
TypeOK ==
    /\ Types
    /\ \A t \in Thread :
        /\ pc[t] \in {"lock", "ann", "rwait", "unlock"} => cur[t] # NoMux
        /\ pc[t] = "cs" => got[t] = Len(plan[t])

\* Mutual exclusion of lockPath: whatever path key two threads hold at the
\* same time, both hold it as readers, although its mutex may have been
\* dropped from pathmap and created anew in between.
MutualExclusion ==
    \A t, u \in Thread : t # u =>
        \A i \in 1..got[t], j \in 1..got[u] :
            plan[t][i].path = plan[u][j].path => ~plan[t][i].w /\ ~plan[u][j].w

\* The reference of position i of t's plan is counted in refcnt.
Referenced(t, i) ==
    \/ i \in 1..got[t]
    \/ i = got[t] + 1 /\ pc[t] \in {"lock", "ann", "rwait"}

RefPositions(p) ==
    {r \in UNION {{t} \X (1..Len(plan[t])) : t \in Thread} :
        Referenced(r[1], r[2]) /\ plan[r[1]][r[2]].path = p}

\* refcnt counts the threads' references exactly, and a path key has a mutex
\* in pathmap if and only if somebody references it: unlockPath never finds
\* a nil pathmux and never drops one that is in use.
RefcntExact ==
    \A p \in Path :
        IF pathmap[p] = NoMux
        THEN RefPositions(p) = {}
        ELSE /\ refcnt[pathmap[p]] = Cardinality(RefPositions(p))
             /\ RefPositions(p) # {}

\* Thread t cannot take a step until another thread takes one.
Blocked(t) ==
    \/ pc[t] = "lock" /\ plan[t][got[t] + 1].w /\ wr[cur[t]] # NoThread
    \/ pc[t] = "ann" /\ rd[cur[t]] # {}
    \/ pc[t] = "rwait" /\ <<t, got[t] + 1>> \notin rd[cur[t]]

\* Deadlock freedom: while requests are in progress one of them can proceed.
DeadlockFree ==
    (\E t \in Thread : pc[t] # "idle") =>
        \E t \in Thread : pc[t] # "idle" /\ ~Blocked(t)

\* Every request that starts locking reaches its critical section.
EveryRequestServed == \A t \in Thread : pc[t] = "ref" ~> pc[t] = "cs"
=============================================================================
