--------------------------- MODULE PathLockProofs ---------------------------
(***************************************************************************)
(* Proofs about PathLock, for any number of threads, any tree of paths and *)
(* any set of requests: the reference counts are exact and the path lock   *)
(* excludes, although mutexes are created and dropped on the fly; and when *)
(* it cannot deadlock.  lockPath takes the locks of one path from the root *)
(* down and renameNode takes the lower key first, but a rename read-locks  *)
(* the ancestors of its second path while it holds the first, so the order *)
(* of keys alone is not a lock order.  The last theorem gives a condition  *)
(* under which it is one: no request locks for writing a directory above a *)
(* path that is being renamed.                                             *)
(***************************************************************************)
EXTENDS PathLock, FiniteSetTheorems, WellFoundedInduction, TLAPS

-----------------------------------------------------------------------------
(* The inductive invariant *)

\* Where a thread is in its plan.
PlanInv ==
    \A t \in Thread :
        /\ got[t] <= Len(plan[t])
        /\ pc[t] = "idle" => got[t] = 0
        /\ pc[t] \in {"ref", "lock", "ann", "rwait", "unlock"} => got[t] < Len(plan[t])
        /\ pc[t] \in {"cs", "unref"} => got[t] > 0
        /\ pc[t] = "cs" => got[t] = Len(plan[t])
        /\ pc[t] = "ann" => plan[t][got[t] + 1].w
        /\ pc[t] = "rwait" => ~plan[t][got[t] + 1].w

\* Where the pointers point: distinct keys have distinct mutexes, and the
\* local pointer of lockPath is the one in the map.
PointerInv ==
    /\ \A p, q \in Path : pathmap[p] = pathmap[q] /\ pathmap[p] # NoMux => p = q
    /\ \A t \in Thread :
        /\ pc[t] \in {"lock", "ann", "rwait"} =>
              cur[t] # NoMux /\ cur[t] = pathmap[plan[t][got[t] + 1].path]
        /\ pc[t] = "unlock" => cur[t] # NoMux

CountInv ==
    \A p \in Path :
        IF pathmap[p] = NoMux
        THEN RefPositions(p) = {}
        ELSE /\ IsFiniteSet(RefPositions(p))
             /\ refcnt[pathmap[p]] = Cardinality(RefPositions(p))
             /\ RefPositions(p) # {}

\* The mutex of position i of t's plan: in the map, or in hand.
MuxOf(t, i) == IF i = got[t] + 1 THEN cur[t] ELSE pathmap[plan[t][i].path]

\* Positions whose mutex t has locked, a mutex being unlocked included.
Owns(t, i) == i \in 1..got[t] \/ (i = got[t] + 1 /\ pc[t] = "unlock")

\* Positions at which t occupies the mutex's writer slot.
Writes(t, i) ==
    /\ Owns(t, i) \/ (i = got[t] + 1 /\ pc[t] = "ann")
    /\ plan[t][i].w

LockInvOf(t) ==
    /\ \A i \in 1..Len(plan[t]) :
        /\ Writes(t, i) => wr[MuxOf(t, i)] = t
        /\ Owns(t, i) /\ plan[t][i].w => rd[MuxOf(t, i)] = {}
        /\ Owns(t, i) /\ ~plan[t][i].w => <<t, i>> \in rd[MuxOf(t, i)]
    /\ \A i, j \in 1..Len(plan[t]) :
        Writes(t, i) /\ Writes(t, j) /\ MuxOf(t, i) = MuxOf(t, j) => i = j

LockInv == \A t \in Thread : LockInvOf(t)

IInv == Types /\ PlanInv /\ PointerInv /\ CountInv /\ LockInv

-----------------------------------------------------------------------------
(* Lemmas *)

\* A function on 1..n is a sequence of length n.
LEMMA SeqOfFunction ==
    ASSUME NEW S, NEW n \in Nat, NEW f \in [1..n -> S]
    PROVE  f \in Seq(S) /\ Len(f) = n
OBVIOUS

\* The locks of one path: as many as it has components and the root, all in
\* Path.
LEMMA LockStepsType ==
    ASSUME NEW p \in Path
    PROVE  lockSteps(p) \in Seq(Step) /\ Len(lockSteps(p)) > 0
<1>1. p \in Seq(STRING) /\ Len(p) \in Nat
  BY PathAssumption
<1>2. ASSUME NEW i \in 1..Len(p) + 1
      PROVE  SubSeq(p, 1, i - 1) \in Path
  <2>1. i - 1 \in 0..Len(p)
    BY <1>1, <1>2
  <2> QED BY <2>1, PathAssumption
<1> DEFINE f == [i \in 1..Len(p) + 1 |-> [path |-> partialPaths(p)[i], w |-> i = Len(p) + 1]]
<1>3. ASSUME NEW i \in 1..Len(p) + 1
      PROVE  f[i] \in Step
  <2>1. partialPaths(p)[i] \in Path
    BY <1>2, <1>3 DEF partialPaths
  <2> QED BY <2>1 DEF Step
<1>4. f \in [1..Len(p) + 1 -> Step]
  BY <1>3
<1>5. f \in Seq(Step) /\ Len(f) = Len(p) + 1
  <2> HIDE DEF f
  <2>1. Len(p) + 1 \in Nat
    BY <1>1
  <2> QED BY <2>1, <1>4, SeqOfFunction
<1> QED BY <1>1, <1>5 DEF lockSteps

\* The locks of a request are a non-empty sequence of locks.
LEMMA RenameStepsType ==
    ASSUME NEW p \in Path, NEW q \in Path
    PROVE  renameSteps(p, q) \in Seq(Step) /\ Len(renameSteps(p, q)) > 0
<1>1. /\ lockSteps(p) \in Seq(Step) /\ Len(lockSteps(p)) > 0
      /\ lockSteps(q) \in Seq(Step) /\ Len(lockSteps(q)) > 0
  BY LockStepsType
<1>2. /\ lockSteps(p) \o lockSteps(q) \in Seq(Step)
      /\ Len(lockSteps(p) \o lockSteps(q)) > 0
      /\ lockSteps(q) \o lockSteps(p) \in Seq(Step)
      /\ Len(lockSteps(q) \o lockSteps(p)) > 0
  BY <1>1
<1> QED BY <1>1, <1>2 DEF renameSteps

\* Membership in RefPositions, without the union.
LEMMA RefMember ==
    ASSUME NEW p, NEW t, NEW i
    PROVE  <<t, i>> \in RefPositions(p) <=>
              /\ t \in Thread /\ i \in 1..Len(plan[t])
              /\ Referenced(t, i) /\ plan[t][i].path = p
BY DEF RefPositions

\* Every element of RefPositions is a pair.
LEMMA RefPair ==
    ASSUME NEW p, NEW r \in RefPositions(p)
    PROVE  r = <<r[1], r[2]>>
BY DEF RefPositions

\* Membership in RefPositions after a step.
LEMMA RefMemberNext ==
    ASSUME NEW p, NEW t, NEW i
    PROVE  <<t, i>> \in RefPositions(p)' <=>
              /\ t \in Thread /\ i \in 1..Len(plan'[t])
              /\ Referenced(t, i)' /\ plan'[t][i].path = p
BY DEF RefPositions

\* Every element of RefPositions is a pair, after a step.
LEMMA RefPairNext ==
    ASSUME NEW p, NEW r \in RefPositions(p)'
    PROVE  r = <<r[1], r[2]>>
BY DEF RefPositions

\* A step that leaves every thread's references alone keeps the counts.
LEMMA SameReferences ==
    ASSUME CountInv, plan' = plan, pathmap' = pathmap, refcnt' = refcnt,
           \A t \in Thread : \A i \in 1..Len(plan[t]) :
              Referenced(t, i)' <=> Referenced(t, i)
    PROVE  CountInv'
<1>1. ASSUME NEW p \in Path
      PROVE  RefPositions(p)' = RefPositions(p)
  <2> DEFINE U == UNION {{t} \X (1..Len(plan[t])) : t \in Thread}
  <2>1. \A r \in U : r[1] \in Thread /\ r[2] \in 1..Len(plan[r[1]])
    OBVIOUS
  <2>2. \A r \in U : Referenced(r[1], r[2])' <=> Referenced(r[1], r[2])
    BY <2>1
  <2>3. RefPositions(p)' = {r \in U : Referenced(r[1], r[2])' /\ plan[r[1]][r[2]].path = p}
    BY DEF RefPositions
  <2>4. RefPositions(p) = {r \in U : Referenced(r[1], r[2]) /\ plan[r[1]][r[2]].path = p}
    BY DEF RefPositions
  <2> HIDE DEF U
  <2> QED BY <2>2, <2>3, <2>4
<1> QED BY <1>1 DEF CountInv

\* A step by which t references position k adds that reference to the set of
\* its path, and to no other set.
LEMMA AddReference ==
    ASSUME NEW t \in Thread, NEW k \in 1..Len(plan[t]), plan' = plan,
           \A u \in Thread : \A i \in 1..Len(plan[u]) :
              Referenced(u, i)' <=> Referenced(u, i) \/ (u = t /\ i = k)
    PROVE  \A p : RefPositions(p)' =
              IF plan[t][k].path = p THEN RefPositions(p) \cup {<<t, k>>}
              ELSE RefPositions(p)
<1> DEFINE U == UNION {{u} \X (1..Len(plan[u])) : u \in Thread}
<1>1. \A r \in U : r[1] \in Thread /\ r[2] \in 1..Len(plan[r[1]]) /\ r = <<r[1], r[2]>>
  OBVIOUS
<1>2. \A r \in U : Referenced(r[1], r[2])' <=> Referenced(r[1], r[2]) \/ r = <<t, k>>
  BY <1>1
<1>3. <<t, k>> \in U
  OBVIOUS
<1> SUFFICES ASSUME NEW p
             PROVE  RefPositions(p)' = IF plan[t][k].path = p
                                       THEN RefPositions(p) \cup {<<t, k>>}
                                       ELSE RefPositions(p)
  OBVIOUS
<1>4. RefPositions(p)' = {r \in U : Referenced(r[1], r[2])' /\ plan[r[1]][r[2]].path = p}
  BY DEF RefPositions
<1>5. RefPositions(p) = {r \in U : Referenced(r[1], r[2]) /\ plan[r[1]][r[2]].path = p}
  BY DEF RefPositions
<1> HIDE DEF U
<1> QED BY <1>2, <1>3, <1>4, <1>5

\* A step by which t gives up its reference of position k removes it from the
\* set of its path, and changes no other set.
LEMMA DropReference ==
    ASSUME NEW t \in Thread, NEW k \in 1..Len(plan[t]), plan' = plan,
           \A u \in Thread : \A i \in 1..Len(plan[u]) :
              Referenced(u, i)' <=> Referenced(u, i) /\ ~(u = t /\ i = k)
    PROVE  \A p : RefPositions(p)' =
              IF plan[t][k].path = p THEN RefPositions(p) \ {<<t, k>>}
              ELSE RefPositions(p)
<1> DEFINE U == UNION {{u} \X (1..Len(plan[u])) : u \in Thread}
<1>1. \A r \in U : r[1] \in Thread /\ r[2] \in 1..Len(plan[r[1]]) /\ r = <<r[1], r[2]>>
  OBVIOUS
<1>2. \A r \in U : Referenced(r[1], r[2])' <=> Referenced(r[1], r[2]) /\ r # <<t, k>>
  BY <1>1
<1> SUFFICES ASSUME NEW p
             PROVE  RefPositions(p)' = IF plan[t][k].path = p
                                       THEN RefPositions(p) \ {<<t, k>>}
                                       ELSE RefPositions(p)
  OBVIOUS
<1>4. RefPositions(p)' = {r \in U : Referenced(r[1], r[2])' /\ plan[r[1]][r[2]].path = p}
  BY DEF RefPositions
<1>5. RefPositions(p) = {r \in U : Referenced(r[1], r[2]) /\ plan[r[1]][r[2]].path = p}
  BY DEF RefPositions
<1> HIDE DEF U
<1> QED BY <1>2, <1>4, <1>5

\* What a thread references has a mutex in the map.
LEMMA ReferencedMapped ==
    ASSUME Types, CountInv, NEW t \in Thread, NEW i \in 1..Len(plan[t]),
           Referenced(t, i)
    PROVE  /\ plan[t][i].path \in Path
           /\ pathmap[plan[t][i].path] \in Mux
           /\ <<t, i>> \in RefPositions(plan[t][i].path)
<1>1. plan[t][i] \in Step
  BY DEF Types
<1>2. plan[t][i].path \in Path
  BY <1>1 DEF Step
<1>3. <<t, i>> \in RefPositions(plan[t][i].path)
  BY RefMember
<1>4. pathmap[plan[t][i].path] # NoMux
  BY <1>2, <1>3 DEF CountInv
<1> QED BY <1>2, <1>3, <1>4 DEF Types

\* The mutex of a locked position exists.
LEMMA OwnedMux ==
    ASSUME Types, PointerInv, CountInv, NEW t \in Thread, NEW i \in 1..Len(plan[t]),
           Owns(t, i) \/ Writes(t, i)
    PROVE  MuxOf(t, i) \in Mux
<1>1. CASE i \in 1..got[t]
  <2>1. Referenced(t, i) /\ i # got[t] + 1
    BY <1>1 DEF Referenced, Types
  <2>2. pathmap[plan[t][i].path] \in Mux
    BY <2>1, ReferencedMapped
  <2> QED BY <2>1, <2>2 DEF MuxOf
<1>2. CASE i = got[t] + 1 /\ pc[t] \in {"unlock", "ann"}
  BY <1>2 DEF MuxOf, PointerInv, Types
<1> QED BY <1>1, <1>2 DEF Owns, Writes

\* A step of another thread keeps LockInvOf(u) when the mutexes that u has
\* locked are the same, and still locked by u.
LEMMA LockInvFrame ==
    ASSUME NEW u \in Thread, LockInvOf(u),
           plan'[u] = plan[u], got'[u] = got[u], pc'[u] = pc[u],
           \A i \in 1..Len(plan[u]) : Owns(u, i) \/ Writes(u, i) =>
              /\ MuxOf(u, i)' = MuxOf(u, i)
              /\ Writes(u, i) => wr'[MuxOf(u, i)] = u
              /\ Owns(u, i) /\ plan[u][i].w => rd'[MuxOf(u, i)] = {}
              /\ Owns(u, i) /\ ~plan[u][i].w => <<u, i>> \in rd'[MuxOf(u, i)]
    PROVE  LockInvOf(u)'
<1>1. \A i \in 1..Len(plan[u]) : Owns(u, i)' <=> Owns(u, i)
  BY DEF Owns
<1>2. \A i \in 1..Len(plan[u]) : Writes(u, i)' <=> Writes(u, i)
  BY <1>1 DEF Writes
<1> QED BY <1>1, <1>2 DEF LockInvOf

-----------------------------------------------------------------------------
(* The invariant holds initially and is preserved by every action *)

\* With every goroutine idle and pathmap empty the invariant holds.
LEMMA InitInv == Init => IInv
<1> SUFFICES ASSUME Init PROVE IInv
  OBVIOUS
<1> USE DEF Init
<1>1. Types
  BY NilAssumption DEF Types
<1>2. PlanInv /\ PointerInv /\ LockInv
  BY DEF PlanInv, PointerInv, LockInv, LockInvOf
<1>3. CountInv
  <2>1. \A p \in Path : RefPositions(p) = {}
    BY DEF RefPositions
  <2> QED BY <2>1 DEF CountInv
<1> QED BY <1>1, <1>2, <1>3 DEF IInv

\* A new request takes no reference and no lock yet.
LEMMA StartInv ==
    ASSUME IInv, NEW t \in Thread, Start(t)
    PROVE  IInv'
<1> USE DEF IInv
<1>1. PICK r \in Requests : plan' = [plan EXCEPT ![t] = renameSteps(r[1], r[2])]
  BY DEF Start
<1>2. /\ renameSteps(r[1], r[2]) \in Seq(Step)
      /\ Len(renameSteps(r[1], r[2])) > 0
  BY RequestsAssumption, RenameStepsType
<1>3. plan[t] \in Seq(Step) /\ plan'[t] \in Seq(Step) /\ Len(plan'[t]) > 0 /\ got[t] = 0
  BY <1>1, <1>2 DEF Start, Types, PlanInv
<1>4. Types'
  BY <1>1, <1>2 DEF Types, Start
<1>5. PlanInv'
  BY <1>1, <1>3 DEF PlanInv, Start, Types
<1>6. PointerInv'
  BY <1>1, <1>3 DEF PointerInv, Start, Types
<1>7. CountInv'
  <2>1. ASSUME NEW p \in Path
        PROVE  RefPositions(p)' = RefPositions(p)
    <3>1. ASSUME NEW u \in Thread, NEW i
          PROVE  <<u, i>> \in RefPositions(p)' <=> <<u, i>> \in RefPositions(p)
      <4>1. CASE u = t
        <5>1. got'[t] = 0 /\ pc[t] = "idle" /\ pc'[t] = "ref"
          BY <1>3 DEF Start, Types
        <5>2. i \in 1..Len(plan[t]) => ~Referenced(t, i)
          BY <5>1, <1>3 DEF Referenced
        <5>3. i \in 1..Len(plan'[t]) => ~Referenced(t, i)'
          BY <5>1, <1>3 DEF Referenced
        <5> QED BY <4>1, <5>2, <5>3, RefMember, RefMemberNext
      <4>2. CASE u # t
        BY <4>2, <1>1, RefMember, RefMemberNext DEF Referenced, Start, Types
      <4> QED BY <4>1, <4>2
    <3> QED BY <3>1 DEF RefPositions
  <2> QED BY <2>1 DEF CountInv, Start
<1>8. LockInv'
  <2> SUFFICES ASSUME NEW u \in Thread PROVE LockInvOf(u)'
    BY DEF LockInv
  <2>1. CASE u = t
    <3>1. got'[t] = 0 /\ pc'[t] = "ref"
      BY <1>3 DEF Start, Types
    <3>2. \A i \in 1..Len(plan'[t]) : ~Owns(t, i)' /\ ~Writes(t, i)'
      BY <3>1 DEF Owns, Writes
    <3> QED BY <2>1, <3>2 DEF LockInvOf
  <2>2. CASE u # t
    <3>1. LockInvOf(u) /\ plan'[u] = plan[u] /\ pc'[u] = pc[u]
      BY <2>2, <1>1 DEF LockInv, Start, Types
    <3>2. got'[u] = got[u] /\ wr' = wr /\ rd' = rd
      BY DEF Start
    <3>3. \A i \in 1..Len(plan[u]) : MuxOf(u, i)' = MuxOf(u, i)
      BY <3>1, <3>2 DEF MuxOf, Start
    <3> QED BY <3>1, <3>2, <3>3, LockInvFrame DEF LockInvOf
  <2> QED BY <2>1, <2>2
<1> QED BY <1>4, <1>5, <1>6, <1>7, <1>8

\* lockPath's section under pathmux: one reference more, on the mutex found
\* in the map or on a fresh one that nobody else points to.
LEMMA RefInv ==
    ASSUME IInv, NEW t \in Thread, Ref(t)
    PROVE  IInv'
<1> USE DEF IInv
<1> DEFINE k == got[t] + 1
           p == plan[t][k].path
<1>1. k \in 1..Len(plan[t]) /\ plan[t][k] \in Step /\ p \in Path /\ got[t] \in Nat
  <2>1. plan[t] \in Seq(Step) /\ got[t] \in Nat /\ pc[t] = "ref" /\ got[t] < Len(plan[t])
    BY DEF Ref, Types, PlanInv
  <2>2. k \in 1..Len(plan[t]) /\ plan[t][k] \in Step
    BY <2>1
  <2> QED BY <2>1, <2>2 DEF Step
<1>2. /\ plan' = plan /\ got' = got /\ pc[t] = "ref" /\ pc'[t] = "lock"
      /\ \A u \in Thread \ {t} : pc'[u] = pc[u] /\ cur'[u] = cur[u]
  BY DEF Ref, Types
<1>3. cur'[t] = pathmap'[p] /\ cur'[t] \in Mux
  <2>1. pathmap \in [Path -> Mux \cup {NoMux}] /\ cur \in [Thread -> Mux \cup {NoMux}]
    BY DEF Types
  <2>2. CASE pathmap[p] # NoMux
    <3>1. pathmap' = pathmap /\ cur' = [cur EXCEPT ![t] = pathmap[p]]
      BY <2>2 DEF Ref
    <3> QED BY <1>1, <2>1, <2>2, <3>1
  <2>3. CASE pathmap[p] = NoMux
    <3>1. PICK m \in Mux : pathmap' = [pathmap EXCEPT ![p] = m] /\ cur' = [cur EXCEPT ![t] = m]
      BY <2>3 DEF Ref
    <3> QED BY <1>1, <2>1, <3>1
  <2> QED BY <2>2, <2>3
<1> HIDE DEF k, p
<1>4. \A u \in Thread : \A i \in 1..Len(plan[u]) :
        Referenced(u, i)' <=> Referenced(u, i) \/ (u = t /\ i = k)
  BY <1>1, <1>2 DEF Referenced, k
<1>5. \A q : RefPositions(q)' =
        IF plan[t][k].path = q THEN RefPositions(q) \cup {<<t, k>>} ELSE RefPositions(q)
  <2> HIDE DEF IInv
  <2> QED BY <1>1, <1>2, <1>4, AddReference
<1>6. ~Referenced(t, k)
  BY <1>1, <1>2 DEF Referenced, k
<1>7. <<t, k>> \notin RefPositions(p)
  BY <1>6, RefMember
<1>8. \A u \in Thread : \A i \in 1..Len(plan[u]) :
        /\ Owns(u, i) => u # t \/ i # k
        /\ Writes(u, i) => u # t \/ i # k
  BY <1>1, <1>2 DEF Owns, Writes, k
<1>9. \A u \in Thread : \A i \in 1..Len(plan[u]) :
        /\ Owns(u, i)' <=> Owns(u, i)
        /\ Writes(u, i)' <=> Writes(u, i)
  BY <1>1, <1>2 DEF Owns, Writes
<1>10. PlanInv'
  BY <1>1, <1>2 DEF PlanInv, k
<1>11. CASE pathmap[p] # NoMux
  <2>1. /\ pathmap' = pathmap /\ wr' = wr /\ rd' = rd /\ rq' = rq
        /\ refcnt' = [refcnt EXCEPT ![pathmap[p]] = @ + 1]
        /\ cur' = [cur EXCEPT ![t] = pathmap[p]]
    BY <1>11 DEF Ref, k, p
  <2>2. Types'
    BY <1>1, <1>2, <1>11, <2>1 DEF Types, Ref
  <2>3. PointerInv'
    BY <1>1, <1>2, <1>11, <2>1 DEF PointerInv, Types, k, p
  <2>4. CountInv'
    <3> SUFFICES ASSUME NEW q \in Path
                 PROVE  IF pathmap[q] = NoMux THEN RefPositions(q)' = {}
                        ELSE /\ IsFiniteSet(RefPositions(q)')
                             /\ refcnt'[pathmap[q]] = Cardinality(RefPositions(q)')
                             /\ RefPositions(q)' # {}
      BY <2>1 DEF CountInv
    <3>1. CASE q = p
      <4>1. RefPositions(q)' = RefPositions(p) \cup {<<t, k>>}
        BY <1>5, <3>1 DEF p
      <4>2. IsFiniteSet(RefPositions(p)) /\ refcnt[pathmap[p]] = Cardinality(RefPositions(p))
        BY <1>1, <1>11 DEF CountInv
      <4>3. refcnt'[pathmap[p]] = refcnt[pathmap[p]] + 1
        BY <1>1, <1>11, <2>1 DEF Types
      <4>4. /\ IsFiniteSet(RefPositions(p) \cup {<<t, k>>})
            /\ Cardinality(RefPositions(p) \cup {<<t, k>>}) = Cardinality(RefPositions(p)) + 1
        BY <4>2, <1>7, FS_AddElement
      <4> QED BY <4>1, <4>2, <4>3, <4>4, <3>1, <1>11
    <3>2. CASE q # p
      <4>1. RefPositions(q)' = RefPositions(q)
        BY <1>5, <3>2 DEF p
      <4>2. pathmap[q] # NoMux => refcnt'[pathmap[q]] = refcnt[pathmap[q]]
        BY <1>1, <2>1, <3>2 DEF PointerInv, Types
      <4> QED BY <4>1, <4>2 DEF CountInv
    <3> QED BY <3>1, <3>2
  <2>5. LockInv'
    <3> SUFFICES ASSUME NEW u \in Thread PROVE LockInvOf(u)'
      BY DEF LockInv
    <3>1. \A i \in 1..Len(plan[u]) : Owns(u, i) \/ Writes(u, i) => MuxOf(u, i)' = MuxOf(u, i)
      BY <1>2, <1>8, <2>1 DEF MuxOf, k
    <3> QED BY <3>1, <1>2, <1>9, <2>1 DEF LockInv, LockInvOf
  <2> QED BY <1>10, <2>2, <2>3, <2>4, <2>5
<1>12. CASE pathmap[p] = NoMux
  <2>1. PICK m \in Mux :
          /\ Fresh(m)
          /\ pathmap' = [pathmap EXCEPT ![p] = m]
          /\ refcnt' = [refcnt EXCEPT ![m] = 1]
          /\ wr' = [wr EXCEPT ![m] = NoThread]
          /\ rd' = [rd EXCEPT ![m] = {}]
          /\ rq' = [rq EXCEPT ![m] = {}]
          /\ cur' = [cur EXCEPT ![t] = m]
    BY <1>12 DEF Ref, k, p
  <2>2. Types'
    BY <1>1, <1>2, <2>1 DEF Types, Ref
  <2>3. /\ pathmap'[p] = m
        /\ \A q \in Path : q # p => pathmap'[q] = pathmap[q] /\ pathmap[q] # m
    BY <1>1, <2>1 DEF Types, Fresh
  <2>4. \A u \in Thread : \A i \in 1..Len(plan[u]) : Referenced(u, i) =>
          plan[u][i].path \in Path /\ plan[u][i].path # p
    BY <1>12, ReferencedMapped, NilAssumption
  <2>5. PointerInv'
    <3>1. \A q, r \in Path : pathmap'[q] = pathmap'[r] /\ pathmap'[q] # NoMux => q = r
      BY <2>3 DEF PointerInv
    <3>2. ASSUME NEW u \in Thread
          PROVE  /\ pc'[u] \in {"lock", "ann", "rwait"} =>
                       cur'[u] # NoMux /\ cur'[u] = pathmap'[plan'[u][got'[u] + 1].path]
                 /\ pc'[u] = "unlock" => cur'[u] # NoMux
      <4>1. CASE u = t
        BY <4>1, <1>2, <1>3, NilAssumption DEF k, p
      <4>2. CASE u # t
        <5>1. pc[u] \in {"lock", "ann", "rwait"} =>
                got[u] + 1 \in 1..Len(plan[u]) /\ Referenced(u, got[u] + 1)
          BY DEF Referenced, PlanInv, Types
        <5> QED BY <4>2, <5>1, <1>2, <2>3, <2>4 DEF PointerInv
      <4> QED BY <4>1, <4>2
    <3> QED BY <3>1, <3>2 DEF PointerInv
  <2>6. CountInv'
    <3> SUFFICES ASSUME NEW q \in Path
                 PROVE  IF pathmap'[q] = NoMux THEN RefPositions(q)' = {}
                        ELSE /\ IsFiniteSet(RefPositions(q)')
                             /\ refcnt'[pathmap'[q]] = Cardinality(RefPositions(q)')
                             /\ RefPositions(q)' # {}
      BY DEF CountInv
    <3>1. CASE q = p
      <4>1. RefPositions(q)' = {<<t, k>>}
        BY <1>1, <1>5, <1>12, <3>1 DEF p, CountInv
      <4>2. refcnt'[pathmap'[q]] = 1
        BY <2>1, <2>3, <3>1 DEF Types
      <4> QED BY <4>1, <4>2, FS_Singleton, <2>3, <3>1, NilAssumption
    <3>2. CASE q # p
      <4>1. RefPositions(q)' = RefPositions(q)
        BY <1>5, <3>2 DEF p
      <4>2. pathmap[q] # NoMux => refcnt'[pathmap[q]] = refcnt[pathmap[q]]
        BY <2>1, <2>3, <3>2 DEF Types
      <4> QED BY <4>1, <4>2, <2>3, <3>2 DEF CountInv
    <3> QED BY <3>1, <3>2
  <2>7. LockInv'
    <3> SUFFICES ASSUME NEW u \in Thread PROVE LockInvOf(u)'
      BY DEF LockInv
    <3>1. ASSUME NEW i \in 1..Len(plan[u]), Owns(u, i) \/ Writes(u, i)
          PROVE  MuxOf(u, i)' = MuxOf(u, i) /\ MuxOf(u, i) # m
      <4>1. CASE i \in 1..got[u]
        <5>1. Referenced(u, i) /\ i # got[u] + 1
          BY <4>1 DEF Referenced, Types
        <5> QED BY <5>1, <1>2, <2>3, <2>4, ReferencedMapped DEF MuxOf
      <4>2. CASE i = got[u] + 1 /\ pc[u] \in {"unlock", "ann"}
        BY <4>2, <1>2, <2>1 DEF MuxOf, PointerInv, Fresh, Types
      <4> QED BY <3>1, <4>1, <4>2 DEF Owns, Writes
    <3>2. \A i \in 1..Len(plan[u]) : Owns(u, i) \/ Writes(u, i) =>
            wr'[MuxOf(u, i)] = wr[MuxOf(u, i)] /\ rd'[MuxOf(u, i)] = rd[MuxOf(u, i)]
      BY <3>1, <2>1 DEF Types
    <3> QED BY <3>1, <3>2, <1>2, <1>9 DEF LockInv, LockInvOf
  <2> QED BY <1>10, <2>2, <2>5, <2>6, <2>7
<1> QED BY <1>11, <1>12

\* A writer announces itself on a mutex that has no writer.
LEMMA LockWInv ==
    ASSUME IInv, NEW t \in Thread, LockW(t)
    PROVE  IInv'
<1> USE DEF IInv
<1> DEFINE k == got[t] + 1
<1>1. /\ plan' = plan /\ got' = got /\ cur' = cur /\ pathmap' = pathmap
      /\ refcnt' = refcnt /\ rd' = rd /\ rq' = rq
      /\ pc[t] = "lock" /\ pc'[t] = "ann" /\ plan[t][k].w
      /\ wr[cur[t]] = NoThread /\ wr' = [wr EXCEPT ![cur[t]] = t]
      /\ \A u \in Thread \ {t} : pc'[u] = pc[u]
  BY DEF LockW, Types
<1>2. k \in 1..Len(plan[t]) /\ cur[t] \in Mux /\ got[t] \in Nat
  BY <1>1 DEF PlanInv, Types, PointerInv
<1>3. Types'
  BY <1>1, <1>2 DEF Types, LockW
<1>4. PlanInv' /\ PointerInv'
  <2>1. PlanInv'
    BY <1>1, <1>2 DEF PlanInv
  <2>2. PointerInv'
    BY <1>1, <1>2 DEF PointerInv
  <2> QED BY <2>1, <2>2
<1>5. CountInv'
  BY <1>1, SameReferences DEF Referenced
<1>6. LockInv'
  <2> HIDE DEF k
  <2>1. ASSUME NEW u \in Thread, NEW i \in 1..Len(plan[u])
        PROVE  /\ Owns(u, i)' <=> Owns(u, i)
               /\ Writes(u, i)' <=> Writes(u, i) \/ (u = t /\ i = k)
               /\ MuxOf(u, i)' = MuxOf(u, i)
    BY <1>1, <1>2 DEF Owns, Writes, MuxOf, k
  <2>2. ASSUME NEW u \in Thread, NEW i \in 1..Len(plan[u]), Writes(u, i)
        PROVE  MuxOf(u, i) # cur[t] /\ MuxOf(u, i) \in Mux /\ wr[MuxOf(u, i)] = u
    <3>1. wr[MuxOf(u, i)] = u
      BY <2>2 DEF LockInv, LockInvOf
    <3>2. MuxOf(u, i) \in Mux
      BY <2>2, OwnedMux
    <3> QED BY <3>1, <3>2, <1>1, NilAssumption
  <2>3. MuxOf(t, k) = cur[t] /\ wr'[cur[t]] = t
    BY <1>1, <1>2 DEF MuxOf, k, Types
  <2>4. \A m \in Mux : m # cur[t] => wr'[m] = wr[m]
    BY <1>1 DEF Types
  <2>5. ASSUME NEW u \in Thread, NEW i \in 1..Len(plan'[u])
        PROVE  /\ Writes(u, i)' => wr'[MuxOf(u, i)'] = u
               /\ Owns(u, i)' /\ plan'[u][i].w => rd'[MuxOf(u, i)'] = {}
               /\ Owns(u, i)' /\ ~plan'[u][i].w => <<u, i>> \in rd'[MuxOf(u, i)']
    <3>1. i \in 1..Len(plan[u]) /\ MuxOf(u, i)' = MuxOf(u, i)
      BY <1>1, <2>1
    <3>2. ASSUME Writes(u, i)' PROVE wr'[MuxOf(u, i)] = u
      <4>1. CASE u = t /\ i = k
        BY <4>1, <2>3
      <4>2. CASE Writes(u, i)
        BY <4>2, <3>1, <2>2, <2>4
      <4> QED BY <3>1, <3>2, <4>1, <4>2, <2>1
    <3>3. /\ Owns(u, i) /\ plan[u][i].w => rd[MuxOf(u, i)] = {}
          /\ Owns(u, i) /\ ~plan[u][i].w => <<u, i>> \in rd[MuxOf(u, i)]
      BY <3>1 DEF LockInv, LockInvOf
    <3> QED BY <3>1, <3>2, <3>3, <2>1, <1>1
  <2>6. ASSUME NEW u \in Thread, NEW i \in 1..Len(plan'[u]), NEW j \in 1..Len(plan'[u]),
               Writes(u, i)', Writes(u, j)', MuxOf(u, i)' = MuxOf(u, j)'
        PROVE  i = j
    BY <2>1, <2>2, <2>3, <2>6, <1>1 DEF LockInv, LockInvOf
  <2> QED BY <2>5, <2>6 DEF LockInv, LockInvOf
<1> QED BY <1>3, <1>4, <1>5, <1>6

\* A reader queues behind the writer; it holds nothing new.
LEMMA QueueRInv ==
    ASSUME IInv, NEW t \in Thread, QueueR(t)
    PROVE  IInv'
<1> USE DEF IInv
<1>1. /\ plan' = plan /\ got' = got /\ cur' = cur /\ pathmap' = pathmap
      /\ refcnt' = refcnt /\ rd' = rd /\ wr' = wr
      /\ pc[t] = "lock" /\ pc'[t] = "rwait" /\ ~plan[t][got[t] + 1].w
      /\ rq' = [rq EXCEPT ![cur[t]] = @ \cup {<<t, got[t] + 1>>}]
      /\ \A u \in Thread \ {t} : pc'[u] = pc[u]
  BY DEF QueueR, Types
<1>2. got[t] + 1 \in 1..Len(plan[t]) /\ cur[t] \in Mux /\ got[t] \in Nat
  BY <1>1 DEF PlanInv, Types, PointerInv
<1>3. Types'
  BY <1>1, <1>2 DEF Types, QueueR
<1>4. PlanInv' /\ PointerInv'
  <2>1. PlanInv'
    BY <1>1, <1>2 DEF PlanInv
  <2>2. PointerInv'
    BY <1>1, <1>2 DEF PointerInv
  <2> QED BY <2>1, <2>2
<1>5. CountInv'
  BY <1>1, SameReferences DEF Referenced
<1>6. LockInv'
  <2>1. ASSUME NEW u \in Thread, NEW i \in 1..Len(plan[u])
        PROVE  /\ Owns(u, i)' <=> Owns(u, i)
               /\ Writes(u, i)' <=> Writes(u, i)
               /\ MuxOf(u, i)' = MuxOf(u, i)
    BY <1>1, <1>2 DEF Owns, Writes, MuxOf
  <2> QED BY <2>1, <1>1 DEF LockInv, LockInvOf
<1> QED BY <1>3, <1>4, <1>5, <1>6

\* Leaving the critical section changes no lock and no reference.
LEMMA LeaveInv ==
    ASSUME IInv, NEW t \in Thread, Leave(t)
    PROVE  IInv'
<1> USE DEF IInv
<1>1. /\ plan' = plan /\ got' = got /\ cur' = cur /\ pathmap' = pathmap
      /\ refcnt' = refcnt /\ rd' = rd /\ wr' = wr /\ rq' = rq
      /\ pc[t] = "cs" /\ pc'[t] = "unref"
      /\ \A u \in Thread \ {t} : pc'[u] = pc[u]
  BY DEF Leave, Types
<1>2. Types'
  BY <1>1 DEF Types, Leave
<1>3. PlanInv' /\ PointerInv'
  BY <1>1 DEF PlanInv, PointerInv
<1>4. CountInv'
  BY <1>1, SameReferences DEF Referenced
<1>5. LockInv'
  <2>1. ASSUME NEW u \in Thread, NEW i \in 1..Len(plan[u])
        PROVE  /\ Owns(u, i)' <=> Owns(u, i)
               /\ Writes(u, i)' <=> Writes(u, i)
               /\ MuxOf(u, i)' = MuxOf(u, i)
    BY <1>1 DEF Owns, Writes, MuxOf
  <2> QED BY <2>1, <1>1 DEF LockInv, LockInvOf
<1> QED BY <1>2, <1>3, <1>4, <1>5

\* What the three ways of obtaining a lock have in common: the position moves
\* from in hand to held, and it is the mutex in the map.
LEMMA AdvanceFacts ==
    ASSUME IInv, NEW t \in Thread, Advance(t), pc[t] \in {"lock", "ann", "rwait"},
           plan' = plan, pathmap' = pathmap, refcnt' = refcnt
    PROVE  /\ got[t] + 1 \in 1..Len(plan[t]) /\ got[t] \in Nat /\ cur[t] \in Mux
           /\ PlanInv' /\ PointerInv' /\ CountInv'
           /\ \A u \in Thread : \A i \in 1..Len(plan[u]) :
                /\ Owns(u, i)' <=> Owns(u, i) \/ (u = t /\ i = got[t] + 1)
                /\ Owns(u, i)' \/ Writes(u, i)' => MuxOf(u, i)' = MuxOf(u, i)
                /\ u # t => (Writes(u, i)' <=> Writes(u, i))
           /\ \A i \in 1..Len(plan[t]) :
                Writes(t, i)' <=> (Owns(t, i) \/ i = got[t] + 1) /\ plan[t][i].w
           /\ MuxOf(t, got[t] + 1) = cur[t]
<1> USE DEF IInv
<1>1. /\ got' = [got EXCEPT ![t] = @ + 1] /\ cur' = [cur EXCEPT ![t] = NoMux]
      /\ got'[t] = got[t] + 1 /\ got[t] \in Nat /\ got[t] + 1 \in 1..Len(plan[t])
      /\ pc'[t] = IF got[t] + 1 = Len(plan[t]) THEN "cs" ELSE "ref"
      /\ \A u \in Thread \ {t} : got'[u] = got[u] /\ cur'[u] = cur[u] /\ pc'[u] = pc[u]
  BY DEF Advance, Types, PlanInv
<1>2. cur[t] \in Mux /\ cur[t] = pathmap[plan[t][got[t] + 1].path]
  BY DEF PointerInv, Types
<1>3. PlanInv'
  BY <1>1 DEF PlanInv, Types
<1>4. PointerInv'
  BY <1>1 DEF PointerInv
<1>5. CountInv'
  <2>1. \A u \in Thread : \A i \in 1..Len(plan[u]) : Referenced(u, i)' <=> Referenced(u, i)
    BY <1>1 DEF Referenced
  <2> QED BY <2>1, SameReferences
<1>6. ASSUME NEW u \in Thread, NEW i \in 1..Len(plan[u])
      PROVE  Owns(u, i)' <=> Owns(u, i) \/ (u = t /\ i = got[t] + 1)
  BY <1>1 DEF Owns
<1>7. ASSUME NEW u \in Thread, NEW i \in 1..Len(plan[u]), u # t
      PROVE  Writes(u, i)' <=> Writes(u, i)
  BY <1>1, <1>6, <1>7 DEF Writes
<1>8. ASSUME NEW i \in 1..Len(plan[t])
      PROVE  Writes(t, i)' <=> (Owns(t, i) \/ i = got[t] + 1) /\ plan[t][i].w
  BY <1>1, <1>6 DEF Writes
<1>9. ASSUME NEW u \in Thread, NEW i \in 1..Len(plan[u]), Owns(u, i)' \/ Writes(u, i)'
      PROVE  MuxOf(u, i)' = MuxOf(u, i)
  <2>1. CASE u = t
    <3>1. i \in 1..got[t] + 1
      BY <1>1, <1>9, <2>1 DEF Owns, Writes
    <3> QED BY <3>1, <2>1, <1>1, <1>2 DEF MuxOf
  <2>2. CASE u # t
    BY <2>2, <1>1 DEF MuxOf
  <2> QED BY <2>1, <2>2
<1>10. MuxOf(t, got[t] + 1) = cur[t]
  BY DEF MuxOf
<1> QED BY <1>1, <1>2, <1>3, <1>4, <1>5, <1>6, <1>7, <1>8, <1>9, <1>10

\* The writer gets in: the readers it waited for have left, so the position is
\* held exclusively.
LEMMA AcqWInv ==
    ASSUME IInv, NEW t \in Thread, AcqW(t)
    PROVE  IInv'
<1> USE DEF IInv
<1> DEFINE k == got[t] + 1
<1>1. /\ plan' = plan /\ pathmap' = pathmap /\ refcnt' = refcnt
      /\ wr' = wr /\ rd' = rd /\ rq' = rq
      /\ pc[t] = "ann" /\ rd[cur[t]] = {} /\ Advance(t) /\ plan[t][k].w
  BY DEF AcqW, PlanInv
<1>2. /\ k \in 1..Len(plan[t]) /\ got[t] \in Nat /\ cur[t] \in Mux
      /\ PlanInv' /\ PointerInv' /\ CountInv' /\ MuxOf(t, k) = cur[t]
  BY <1>1, AdvanceFacts
<1>3. Types'
  BY <1>1, <1>2 DEF Types, Advance
<1>4. Writes(t, k)
  BY <1>1 DEF Writes
<1>5. ASSUME NEW u \in Thread, NEW i \in 1..Len(plan[u])
      PROVE  /\ Owns(u, i)' <=> Owns(u, i) \/ (u = t /\ i = k)
             /\ Writes(u, i)' <=> Writes(u, i)
             /\ Owns(u, i)' \/ Writes(u, i)' => MuxOf(u, i)' = MuxOf(u, i)
  BY <1>1, AdvanceFacts DEF Writes
<1> HIDE DEF k
<1>6. LockInv'
  BY <1>1, <1>2, <1>4, <1>5 DEF LockInv, LockInvOf
<1> QED BY <1>2, <1>3, <1>6

\* A queued reader gets in after the writer's Unlock has moved it to the
\* active readers.
LEMMA AcqRInv ==
    ASSUME IInv, NEW t \in Thread, AcqR(t)
    PROVE  IInv'
<1> USE DEF IInv
<1> DEFINE k == got[t] + 1
<1>1. /\ plan' = plan /\ pathmap' = pathmap /\ refcnt' = refcnt
      /\ wr' = wr /\ rd' = rd /\ rq' = rq
      /\ pc[t] = "rwait" /\ <<t, k>> \in rd[cur[t]] /\ Advance(t) /\ ~plan[t][k].w
  BY DEF AcqR, PlanInv
<1>2. /\ k \in 1..Len(plan[t]) /\ got[t] \in Nat /\ cur[t] \in Mux
      /\ PlanInv' /\ PointerInv' /\ CountInv' /\ MuxOf(t, k) = cur[t]
  BY <1>1, AdvanceFacts
<1>3. Types'
  BY <1>1, <1>2 DEF Types, Advance
<1>4. ASSUME NEW u \in Thread, NEW i \in 1..Len(plan[u])
      PROVE  /\ Owns(u, i)' <=> Owns(u, i) \/ (u = t /\ i = k)
             /\ Writes(u, i)' <=> Writes(u, i)
             /\ Owns(u, i)' \/ Writes(u, i)' => MuxOf(u, i)' = MuxOf(u, i)
  BY <1>1, AdvanceFacts DEF Writes
<1> HIDE DEF k
<1>5. LockInv'
  <2> SUFFICES ASSUME NEW u \in Thread PROVE LockInvOf(u)'
    BY DEF LockInv
  <2>1. LockInvOf(u)
    BY DEF LockInv
  <2>2. \A i \in 1..Len(plan[u]) : u = t /\ i = k => ~plan[u][i].w /\ <<u, i>> \in rd[MuxOf(u, i)]
    BY <1>1, <1>2
  <2> QED BY <2>1, <2>2, <1>1, <1>4 DEF LockInvOf
<1> QED BY <1>2, <1>3, <1>5

\* A reader gets in where no writer has announced itself.
LEMMA LockRInv ==
    ASSUME IInv, NEW t \in Thread, LockR(t)
    PROVE  IInv'
<1> USE DEF IInv
<1> DEFINE k == got[t] + 1
<1>1. /\ plan' = plan /\ pathmap' = pathmap /\ refcnt' = refcnt
      /\ wr' = wr /\ rq' = rq /\ rd' = [rd EXCEPT ![cur[t]] = @ \cup {<<t, k>>}]
      /\ pc[t] = "lock" /\ wr[cur[t]] = NoThread /\ Advance(t) /\ ~plan[t][k].w
  BY DEF LockR
<1>2. /\ k \in 1..Len(plan[t]) /\ got[t] \in Nat /\ cur[t] \in Mux
      /\ PlanInv' /\ PointerInv' /\ CountInv' /\ MuxOf(t, k) = cur[t]
  BY <1>1, AdvanceFacts
<1>3. Types'
  BY <1>1, <1>2 DEF Types, Advance
<1>4. ASSUME NEW u \in Thread, NEW i \in 1..Len(plan[u])
      PROVE  /\ Owns(u, i)' <=> Owns(u, i) \/ (u = t /\ i = k)
             /\ Writes(u, i)' <=> Writes(u, i)
             /\ Owns(u, i)' \/ Writes(u, i)' => MuxOf(u, i)' = MuxOf(u, i)
  BY <1>1, AdvanceFacts DEF Writes
<1> HIDE DEF k
<1>5. ASSUME NEW u \in Thread, NEW i \in 1..Len(plan[u]), Owns(u, i) \/ Writes(u, i)
      PROVE  /\ MuxOf(u, i) \in Mux
             /\ Writes(u, i) => MuxOf(u, i) # cur[t]
             /\ rd[MuxOf(u, i)] \subseteq rd'[MuxOf(u, i)]
             /\ Writes(u, i) => rd'[MuxOf(u, i)] = rd[MuxOf(u, i)]
  <2>1. MuxOf(u, i) \in Mux
    BY <1>5, OwnedMux
  <2>2. Writes(u, i) => wr[MuxOf(u, i)] = u
    BY DEF LockInv, LockInvOf
  <2>3. Writes(u, i) => MuxOf(u, i) # cur[t]
    BY <2>2, <1>1, NilAssumption
  <2>4. \A m \in Mux : rd[m] \subseteq rd'[m] /\ (m # cur[t] => rd'[m] = rd[m])
    BY <1>1 DEF Types
  <2> QED BY <2>1, <2>3, <2>4
<1>6. <<t, k>> \in rd'[cur[t]]
  BY <1>1, <1>2 DEF Types
<1>7. \A u \in Thread : \A i \in 1..Len(plan[u]) : Owns(u, i) /\ plan[u][i].w => Writes(u, i)
  BY DEF Writes
<1>8. LockInv'
  BY <1>1, <1>2, <1>4, <1>5, <1>6, <1>7 DEF LockInv, LockInvOf
<1> QED BY <1>2, <1>3, <1>8

\* unlockPath's section under pathmux: one reference less; the mutex is dropped
\* only when no other goroutine has a reference, a lock or a place in its queue.
LEMMA UnrefInv ==
    ASSUME IInv, NEW t \in Thread, Unref(t)
    PROVE  IInv'
<1> USE DEF IInv
<1> DEFINE k == got[t]
           p == plan[t][k].path
           m == pathmap[p]
<1>1. /\ plan' = plan /\ wr' = wr /\ rd' = rd /\ rq' = rq
      /\ pc[t] = "unref" /\ pc'[t] = "unlock"
      /\ cur' = [cur EXCEPT ![t] = m]
      /\ refcnt' = [refcnt EXCEPT ![m] = @ - 1]
      /\ pathmap' = IF refcnt[m] = 1 THEN [pathmap EXCEPT ![p] = NoMux] ELSE pathmap
      /\ got' = [got EXCEPT ![t] = @ - 1]
      /\ \A u \in Thread \ {t} : got'[u] = got[u] /\ cur'[u] = cur[u] /\ pc'[u] = pc[u]
  BY DEF Unref, Types
<1>2. k \in 1..Len(plan[t]) /\ got[t] \in Nat /\ Referenced(t, k)
  BY <1>1 DEF PlanInv, Types, Referenced
<1>3. p \in Path /\ m \in Mux /\ <<t, k>> \in RefPositions(p)
  BY <1>2, ReferencedMapped
<1>4. /\ IsFiniteSet(RefPositions(p)) /\ refcnt[m] = Cardinality(RefPositions(p))
      /\ refcnt[m] \in Nat
  BY <1>3, NilAssumption DEF CountInv, Types
<1>5. /\ IsFiniteSet(RefPositions(p) \ {<<t, k>>})
      /\ Cardinality(RefPositions(p) \ {<<t, k>>}) = refcnt[m] - 1
  <2> HIDE DEF IInv, k, p, m
  <2> QED BY <1>3, <1>4, FS_RemoveElement
<1>6. refcnt[m] \in Nat \ {0} /\ (refcnt[m] = 1 <=> RefPositions(p) \ {<<t, k>>} = {})
  <2>1. refcnt[m] - 1 \in Nat
    BY <1>5, FS_CardinalityType
  <2>2. refcnt[m] - 1 = 0 <=> RefPositions(p) \ {<<t, k>>} = {}
    BY <1>5, FS_EmptySet
  <2> QED BY <1>4, <2>1, <2>2
<1>7. got'[t] = k - 1 /\ got'[t] + 1 = k /\ cur'[t] = m
  BY <1>1, <1>2 DEF Types
<1>8. \A u \in Thread : \A i \in 1..Len(plan[u]) :
        Referenced(u, i)' <=> Referenced(u, i) /\ ~(u = t /\ i = k)
  BY <1>1, <1>2, <1>7 DEF Referenced
<1>9. \A q : RefPositions(q)' =
        IF plan[t][k].path = q THEN RefPositions(q) \ {<<t, k>>} ELSE RefPositions(q)
  <2> HIDE DEF IInv
  <2> QED BY <1>1, <1>2, <1>8, DropReference
<1> HIDE DEF k, p, m
<1>10. Types'
  <2>1. refcnt[m] - 1 \in Nat
    BY <1>6
  <2>2. k - 1 \in Nat
    BY <1>2
  <2>3. pc' \in [Thread -> {"idle", "ref", "lock", "ann", "rwait", "cs", "unref", "unlock"}]
    BY DEF Types, Unref
  <2>4. got' \in [Thread -> Nat]
    BY <1>1, <2>2 DEF Types, k
  <2>5. refcnt' \in [Mux -> Nat]
    BY <1>1, <1>3, <2>1 DEF Types
  <2>6. /\ cur' \in [Thread -> Mux \cup {NoMux}]
        /\ pathmap' \in [Path -> Mux \cup {NoMux}]
    BY <1>1, <1>3 DEF Types
  <2> QED BY <1>1, <2>3, <2>4, <2>5, <2>6 DEF Types
<1>11. PlanInv'
  BY <1>1, <1>2, <1>7 DEF PlanInv, Types, k
<1>12. ASSUME NEW u \in Thread, NEW i \in 1..Len(plan[u]), Referenced(u, i)'
       PROVE  /\ plan[u][i].path \in Path
              /\ pathmap'[plan[u][i].path] = pathmap[plan[u][i].path]
  <2>1. Referenced(u, i) /\ ~(u = t /\ i = k)
    BY <1>8, <1>12
  <2>2. plan[u][i].path \in Path /\ <<u, i>> \in RefPositions(plan[u][i].path)
    BY <2>1, ReferencedMapped
  <2>3. refcnt[m] = 1 => plan[u][i].path # p
    BY <1>6, <2>1, <2>2
  <2> QED BY <1>1, <1>3, <2>2, <2>3 DEF Types
<1>13. PointerInv'
  <2>1. \A q, r \in Path : pathmap'[q] = pathmap'[r] /\ pathmap'[q] # NoMux => q = r
    BY <1>1, <1>3 DEF PointerInv, Types
  <2>2. ASSUME NEW u \in Thread
        PROVE  /\ pc'[u] \in {"lock", "ann", "rwait"} =>
                     cur'[u] # NoMux /\ cur'[u] = pathmap'[plan'[u][got'[u] + 1].path]
               /\ pc'[u] = "unlock" => cur'[u] # NoMux
    <3>1. CASE u = t
      BY <3>1, <1>1, <1>3, <1>7, NilAssumption
    <3>2. CASE u # t
      <4>1. pc[u] \in {"lock", "ann", "rwait"} =>
              got[u] + 1 \in 1..Len(plan[u]) /\ Referenced(u, got[u] + 1)'
        BY <3>2, <1>1 DEF Referenced, PlanInv, Types
      <4> QED BY <3>2, <4>1, <1>1, <1>12 DEF PointerInv
    <3> QED BY <3>1, <3>2
  <2> QED BY <2>1, <2>2 DEF PointerInv
<1>14. CountInv'
  <2> SUFFICES ASSUME NEW q \in Path
               PROVE  IF pathmap'[q] = NoMux THEN RefPositions(q)' = {}
                      ELSE /\ IsFiniteSet(RefPositions(q)')
                           /\ refcnt'[pathmap'[q]] = Cardinality(RefPositions(q)')
                           /\ RefPositions(q)' # {}
    BY DEF CountInv
  <2>1. CASE q = p
    <3>1. RefPositions(q)' = RefPositions(p) \ {<<t, k>>}
      BY <1>9, <2>1 DEF p
    <3>2. refcnt'[m] = refcnt[m] - 1
      BY <1>1, <1>3 DEF Types
    <3>3. pathmap'[p] = IF refcnt[m] = 1 THEN NoMux ELSE m
      BY <1>1, <1>3 DEF Types, m
    <3> QED BY <3>1, <3>2, <3>3, <2>1, <1>3, <1>5, <1>6, NilAssumption
  <2>2. CASE q # p
    <3>1. RefPositions(q)' = RefPositions(q)
      BY <1>9, <2>2 DEF p
    <3>2. pathmap'[q] = pathmap[q] /\ (pathmap[q] # NoMux => pathmap[q] # m)
      BY <1>1, <1>3, <2>2 DEF PointerInv, Types, m
    <3>3. pathmap[q] # NoMux => refcnt'[pathmap[q]] = refcnt[pathmap[q]]
      BY <1>1, <3>2 DEF Types
    <3> QED BY <3>1, <3>2, <3>3 DEF CountInv
  <2> QED BY <2>1, <2>2
<1>15. LockInv'
  <2>1. ASSUME NEW u \in Thread, NEW i \in 1..Len(plan[u])
        PROVE  /\ Owns(u, i)' <=> Owns(u, i)
               /\ Writes(u, i)' <=> Writes(u, i)
               /\ Owns(u, i) \/ Writes(u, i) => MuxOf(u, i)' = MuxOf(u, i)
    <3>1. CASE u = t
      <4>1. Owns(t, i)' <=> Owns(t, i)
        BY <3>1, <1>1, <1>2, <1>7 DEF Owns, k
      <4>2. Writes(t, i)' <=> Writes(t, i)
        BY <4>1, <1>1 DEF Writes
      <4>3. ASSUME Owns(t, i) \/ Writes(t, i) PROVE MuxOf(t, i)' = MuxOf(t, i)
        <5>1. i \in 1..got[t]
          BY <4>3, <1>1, <1>2 DEF Owns, Writes
        <5>2. CASE i = k
          BY <5>2, <1>1, <1>2, <1>7 DEF MuxOf, k, m, p
        <5>3. CASE i # k
          <6>1. i \in 1..got'[t] /\ i # got'[t] + 1 /\ i # got[t] + 1
            BY <5>1, <5>3, <1>2, <1>7 DEF k
          <6>2. Referenced(t, i)'
            BY <6>1 DEF Referenced
          <6>3. pathmap'[plan[t][i].path] = pathmap[plan[t][i].path]
            BY <3>1, <6>2, <1>12
          <6> QED BY <6>1, <6>3, <1>1 DEF MuxOf
        <5> QED BY <5>2, <5>3
      <4> QED BY <3>1, <4>1, <4>2, <4>3
    <3>2. CASE u # t
      <4>1. /\ Owns(u, i)' <=> Owns(u, i)
            /\ Writes(u, i)' <=> Writes(u, i)
        BY <3>2, <1>1 DEF Owns, Writes
      <4>2. CASE i = got[u] + 1
        BY <3>2, <4>1, <4>2, <1>1 DEF MuxOf
      <4>3. CASE i # got[u] + 1
        <5>1. Owns(u, i) \/ Writes(u, i) => Referenced(u, i)'
          BY <3>2, <4>3, <1>1 DEF Owns, Writes, Referenced
        <5>2. Owns(u, i) \/ Writes(u, i) =>
                pathmap'[plan[u][i].path] = pathmap[plan[u][i].path]
          BY <3>2, <5>1, <1>12
        <5> QED BY <3>2, <4>1, <4>3, <5>2, <1>1 DEF MuxOf
      <4> QED BY <4>2, <4>3
    <3> QED BY <3>1, <3>2
  <2> SUFFICES ASSUME NEW u \in Thread PROVE LockInvOf(u)'
    BY DEF LockInv
  <2>2. LockInvOf(u)
    BY DEF LockInv
  <2>3. plan' = plan /\ wr' = wr /\ rd' = rd
    BY <1>1
  <2>4. \A i \in 1..Len(plan[u]) : Writes(u, i) \/ Owns(u, i) => MuxOf(u, i)' = MuxOf(u, i)
    BY <2>1
  <2> QED BY <2>1, <2>2, <2>3, <2>4 DEF LockInvOf
<1> QED BY <1>10, <1>11, <1>13, <1>14, <1>15

\* Unlock and RUnlock of a mutex that the goroutine no longer references, and
\* that may be in the map, dropped, or shared with others.
LEMMA UnlockInv ==
    ASSUME IInv, NEW t \in Thread, Unlock(t)
    PROVE  IInv'
<1> USE DEF IInv
<1> DEFINE k == got[t] + 1
           m == cur[t]
<1>1. /\ plan' = plan /\ got' = got /\ pathmap' = pathmap /\ refcnt' = refcnt
      /\ pc[t] = "unlock" /\ cur' = [cur EXCEPT ![t] = NoMux]
      /\ pc'[t] = IF got[t] = 0 THEN "idle" ELSE "unref"
      /\ \A u \in Thread \ {t} : pc'[u] = pc[u] /\ cur'[u] = cur[u]
      /\ \/ /\ plan[t][k].w
            /\ wr' = [wr EXCEPT ![m] = NoThread]
            /\ rd' = [rd EXCEPT ![m] = rq[m]]
            /\ rq' = [rq EXCEPT ![m] = {}]
         \/ /\ ~plan[t][k].w
            /\ rd' = [rd EXCEPT ![m] = @ \ {<<t, k>>}]
            /\ wr' = wr /\ rq' = rq
  BY DEF Unlock, Types
<1>2. k \in 1..Len(plan[t]) /\ got[t] \in Nat /\ m \in Mux
  BY <1>1 DEF PlanInv, PointerInv, Types
<1>3. Types'
  <2>1. pc' \in [Thread -> {"idle", "ref", "lock", "ann", "rwait", "cs", "unref", "unlock"}]
    BY DEF Types, Unlock
  <2> HIDE DEF k, m
  <2> DEFINE Holders == SUBSET (Thread \X (Nat \ {0}))
  <2>2. /\ wr' \in [Mux -> Thread \cup {NoThread}]
        /\ rd' \in [Mux -> Holders]
        /\ rq' \in [Mux -> Holders]
    <3>1. /\ wr \in [Mux -> Thread \cup {NoThread}]
          /\ rd \in [Mux -> Holders]
          /\ rq \in [Mux -> Holders]
      BY DEF Types
    <3>2. {} \in Holders /\ \A h \in Holders : \A x : h \ {x} \in Holders
      OBVIOUS
    <3> HIDE DEF Holders
    <3>3. CASE plan[t][k].w
      BY <3>1, <3>2, <3>3, <1>1, <1>2
    <3>4. CASE ~plan[t][k].w
      <4>1. wr' = wr /\ rq' = rq /\ rd' = [rd EXCEPT ![m] = @ \ {<<t, k>>}]
        BY <3>4, <1>1
      <4>2. rd[m] \ {<<t, k>>} \in Holders
        BY <3>1, <3>2, <1>2
      <4> QED BY <4>1, <4>2, <3>1, <1>2
    <3> QED BY <3>3, <3>4
  <2> QED BY <2>1, <2>2, <1>1 DEF Types
<1>4. PlanInv' /\ PointerInv'
  BY <1>1, <1>2 DEF PlanInv, PointerInv, Types
<1>5. CountInv'
  BY <1>1, SameReferences DEF Referenced
<1>6. LockInv'
  <2> HIDE DEF k, m
  <2>1. ASSUME NEW u \in Thread, NEW i \in 1..Len(plan[u])
        PROVE  /\ Owns(u, i)' <=> Owns(u, i) /\ ~(u = t /\ i = k)
               /\ Writes(u, i)' <=> Writes(u, i) /\ ~(u = t /\ i = k)
               /\ Owns(u, i)' \/ Writes(u, i)' => MuxOf(u, i)' = MuxOf(u, i)
    BY <1>1, <1>2 DEF Owns, Writes, MuxOf, k
  <2>2. MuxOf(t, k) = m /\ Owns(t, k) /\ (plan[t][k].w => Writes(t, k))
    BY <1>1 DEF MuxOf, Owns, Writes, k, m
  <2>3. ASSUME NEW u \in Thread, NEW i \in 1..Len(plan[u]), Owns(u, i) \/ Writes(u, i)
        PROVE  MuxOf(u, i) \in Mux
    BY <2>3, OwnedMux
  <2>4. CASE plan[t][k].w
    <3>1. wr[m] = t /\ rd[m] = {}
      BY <2>2, <2>4, <1>2 DEF LockInv, LockInvOf
    <3>2. ASSUME NEW u \in Thread, NEW i \in 1..Len(plan[u]),
                 (Owns(u, i) \/ Writes(u, i)) /\ ~(u = t /\ i = k)
          PROVE  MuxOf(u, i) # m
      <4>1. CASE Writes(u, i)
        <5>1. wr[MuxOf(u, i)] = u
          BY <4>1 DEF LockInv, LockInvOf
        <5>2. CASE u = t
          <6>1. Writes(t, k) /\ Writes(t, i) /\ i # k /\ LockInvOf(t)
            BY <5>2, <4>1, <3>2, <2>2, <2>4 DEF LockInv
          <6> QED BY <6>1, <5>2, <2>2, <1>2 DEF LockInvOf
        <5>3. CASE u # t
          BY <5>1, <5>3, <3>1
        <5> QED BY <5>2, <5>3
      <4>2. CASE Owns(u, i) /\ ~plan[u][i].w
        BY <4>2, <3>1 DEF LockInv, LockInvOf
      <4> QED BY <3>2, <4>1, <4>2 DEF Writes
    <3>3. \A x \in Mux : x # m => wr'[x] = wr[x] /\ rd'[x] = rd[x]
      BY <1>1, <2>4 DEF Types
    <3>4. ASSUME NEW u \in Thread, NEW i \in 1..Len(plan[u]),
                 (Owns(u, i) \/ Writes(u, i)) /\ ~(u = t /\ i = k)
          PROVE  /\ wr'[MuxOf(u, i)] = wr[MuxOf(u, i)]
                 /\ rd'[MuxOf(u, i)] = rd[MuxOf(u, i)]
      BY <3>2, <3>3, <3>4, <2>3
    <3> SUFFICES ASSUME NEW u \in Thread PROVE LockInvOf(u)'
      BY DEF LockInv
    <3>5. LockInvOf(u)
      BY DEF LockInv
    <3> QED BY <2>1, <3>4, <3>5, <1>1 DEF LockInvOf
  <2>5. CASE ~plan[t][k].w
    <3>1. wr' = wr /\ rd' = [rd EXCEPT ![m] = @ \ {<<t, k>>}]
      BY <1>1, <2>5
    <3>2. ASSUME NEW u \in Thread, NEW i \in 1..Len(plan[u]), Owns(u, i),
                 ~(u = t /\ i = k)
          PROVE  /\ rd[MuxOf(u, i)] = {} => rd'[MuxOf(u, i)] = {}
                 /\ <<u, i>> \in rd[MuxOf(u, i)] => <<u, i>> \in rd'[MuxOf(u, i)]
      BY <3>1, <3>2, <2>3, <1>2 DEF Types
    <3> QED BY <2>1, <3>1, <3>2, <1>1 DEF LockInv, LockInvOf
  <2> QED BY <2>4, <2>5
<1> QED BY <1>3, <1>4, <1>5, <1>6

\* Every step of every goroutine preserves the invariant.
LEMMA NextInv == IInv /\ [Next]_vars => IInv'
<1> SUFFICES ASSUME IInv, [Next]_vars PROVE IInv'
  OBVIOUS
<1>1. ASSUME NEW t \in Thread, Start(t) \/ Proceed(t)
      PROVE  IInv'
  BY <1>1, StartInv, RefInv, LockWInv, AcqWInv, LockRInv, QueueRInv, AcqRInv,
     LeaveInv, UnrefInv, UnlockInv DEF Proceed
<1>2. CASE UNCHANGED vars
  <2> USE <1>2 DEF vars
  <2>1. Types' /\ PlanInv' /\ PointerInv'
    BY DEF IInv, Types, PlanInv, PointerInv
  <2>2. CountInv'
    BY SameReferences DEF IInv, Referenced
  <2>3. LockInv'
    <3>1. ASSUME NEW u \in Thread, NEW i \in 1..Len(plan[u])
          PROVE  /\ Owns(u, i)' <=> Owns(u, i)
                 /\ Writes(u, i)' <=> Writes(u, i)
                 /\ MuxOf(u, i)' = MuxOf(u, i)
      BY DEF Owns, Writes, MuxOf
    <3> QED BY <3>1 DEF IInv, LockInv, LockInvOf
  <2> QED BY <2>1, <2>2, <2>3 DEF IInv
<1> QED BY <1>1, <1>2 DEF Next

\* IInv is an invariant of the path lock.
THEOREM InductiveInvariant == Spec => []IInv
BY InitInv, NextInv, PTL DEF Spec

\* The type invariant, with what a thread has in hand, for every set of threads,
\* paths and requests.
THEOREM TypeCorrect == Spec => []TypeOK
<1>1. IInv => TypeOK
  BY DEF IInv, Types, PlanInv, PointerInv, TypeOK
<1> QED BY <1>1, InductiveInvariant, PTL

\* lockPath excludes: two threads never hold one path key unless both hold it
\* as readers, for every set of threads, paths and requests.
THEOREM Exclusion == Spec => []MutualExclusion
<1>1. IInv => MutualExclusion
  <2> SUFFICES ASSUME IInv, NEW t \in Thread, NEW u \in Thread, t # u,
                      NEW i \in 1..got[t], NEW j \in 1..got[u],
                      plan[t][i].path = plan[u][j].path
               PROVE  ~plan[t][i].w /\ ~plan[u][j].w
    BY DEF MutualExclusion
  <2>1. /\ i \in 1..Len(plan[t]) /\ j \in 1..Len(plan[u])
        /\ i # got[t] + 1 /\ j # got[u] + 1
    BY DEF IInv, Types, PlanInv
  <2>2. Owns(t, i) /\ Owns(u, j) /\ MuxOf(t, i) = MuxOf(u, j)
    BY <2>1 DEF Owns, MuxOf
  <2>3. LockInvOf(t) /\ LockInvOf(u)
    BY DEF IInv, LockInv
  <2>4. /\ plan[t][i].w => wr[MuxOf(t, i)] = t /\ rd[MuxOf(t, i)] = {}
        /\ ~plan[t][i].w => <<t, i>> \in rd[MuxOf(t, i)]
    BY <2>1, <2>2, <2>3 DEF LockInvOf, Writes
  <2>5. /\ plan[u][j].w => wr[MuxOf(u, j)] = u /\ rd[MuxOf(u, j)] = {}
        /\ ~plan[u][j].w => <<u, j>> \in rd[MuxOf(u, j)]
    BY <2>1, <2>2, <2>3 DEF LockInvOf, Writes
  <2> QED BY <2>2, <2>4, <2>5
<1> QED BY <1>1, InductiveInvariant, PTL

\* The reference counts of the mutexes in pathmap are exact, so that no mutex
\* in use is ever dropped and none is left behind.
THEOREM ReferencesCounted == Spec => []RefcntExact
<1>1. IInv => RefcntExact
  BY DEF IInv, CountInv, RefcntExact
<1> QED BY <1>1, InductiveInvariant, PTL

-----------------------------------------------------------------------------
(* The condition, and what it says of a plan *)

\* The keys that some request locks for writing.
Written ==
    {p \in Path : \E r \in Requests : renameAllowed(r[1], r[2]) /\ p \in {r[1], r[2]}}

\* No request locks for writing a proper ancestor of p.
NoWriterAbove(p) == \A n \in 0..Len(p) - 1 : SubSeq(p, 1, n) \notin Written

\* Renames move files and directories below which nothing else is locked for
\* writing on the way: nobody locks a directory above them.
RenamesApart ==
    \A r \in Requests :
        renameAllowed(r[1], r[2]) /\ r[1] # r[2] => NoWriterAbove(r[1]) /\ NoWriterAbove(r[2])

\* The contended keys of a plan are locked in increasing order.
Ordered(s) ==
    /\ \A i \in 1..Len(s) : s[i].w => s[i].path \in Written
    /\ \A i, j \in 1..Len(s) :
        i < j /\ s[i].path \in Written /\ s[j].path \in Written =>
            Rank[s[i].path] < Rank[s[j].path]

OrderInv == \A t \in Thread : Ordered(plan[t])

-----------------------------------------------------------------------------
(* Who holds a mutex, the converse of LockInv *)

\* The writer slot of a mutex is taken by a thread that writes at some
\* position of its plan.
WriterInv ==
    \A m \in Mux : \A w \in Thread : wr[m] = w =>
        \E i \in 1..Len(plan[w]) : Writes(w, i) /\ MuxOf(w, i) = m

\* An active reader has the lock, or has been let in and has yet to notice.
ReaderInv ==
    \A m \in Mux : \A v \in Thread : \A i \in Nat : <<v, i>> \in rd[m] =>
        /\ i \in 1..Len(plan[v]) /\ ~plan[v][i].w /\ MuxOf(v, i) = m
        /\ Owns(v, i) \/ (i = got[v] + 1 /\ pc[v] = "rwait")

\* A queued reader waits, for a writer that is there.
QueueInv ==
    \A m \in Mux : \A v \in Thread : \A i \in Nat : <<v, i>> \in rq[m] =>
        /\ i = got[v] + 1 /\ pc[v] = "rwait" /\ cur[v] = m
        /\ wr[m] # NoThread /\ <<v, i>> \notin rd[m]

\* A waiting reader is queued, or has been let in.
WaiterInv ==
    \A t \in Thread : pc[t] = "rwait" =>
        <<t, got[t] + 1>> \in rd[cur[t]] \cup rq[cur[t]]

HolderInv == WriterInv /\ ReaderInv /\ QueueInv /\ WaiterInv

-----------------------------------------------------------------------------
(* Lemmas about plans *)

\* A bounded non-empty set of numbers has a greatest element.
LEMMA Greatest ==
    ASSUME NEW S \in SUBSET Nat, S # {}, NEW N \in Nat, \A s \in S : s <= N
    PROVE  \E m \in S : \A s \in S : s <= m
<1> DEFINE R == OpToRel(<, Nat)
           T == {N - s : s \in S}
<1>1. T \subseteq Nat /\ T # {}
  <2>1. \A s \in S : N - s \in Nat
    OBVIOUS
  <2> QED BY <2>1
<1>2. \A x, y \in Nat : <<x, y>> \in R <=> x < y
  BY DEF OpToRel
<1>3. IsWellFoundedOn(R, Nat)
  BY NatLessThanWellFounded
<1> HIDE DEF R
<1>4. \E x \in T : \A y \in T : ~(<<y, x>> \in R)
  <2> HIDE DEF T
  <2> QED BY <1>1, <1>3, WFMin
<1>5. PICK x \in T : \A y \in T : ~(y < x)
  BY <1>1, <1>2, <1>4
<1>6. PICK m \in S : x = N - m
  BY <1>5
<1>7. ASSUME NEW s \in S PROVE s <= m
  <2>1. ~(N - s < N - m)
    BY <1>5, <1>6
  <2>2. s \in Nat /\ m \in Nat
    OBVIOUS
  <2> QED BY <2>1, <2>2
<1> QED BY <1>7

\* The locks of one path, position by position: its ancestors' keys, then its
\* own, which is locked for writing.
LEMMA LockStepsAt ==
    ASSUME NEW p \in Path
    PROVE  /\ lockSteps(p) \in Seq(Step) /\ Len(lockSteps(p)) = Len(p) + 1
           /\ Len(p) \in Nat
           /\ \A i \in 1..Len(p) + 1 :
                /\ lockSteps(p)[i].path = SubSeq(p, 1, i - 1)
                /\ lockSteps(p)[i].w <=> i = Len(p) + 1
           /\ lockSteps(p)[Len(p) + 1].path = p
<1>1. p \in Seq(STRING) /\ Len(p) \in Nat
  BY PathAssumption
<1>2. lockSteps(p) \in Seq(Step)
  BY LockStepsType
<1>3. Len(lockSteps(p)) = Len(p) + 1
  BY <1>1 DEF lockSteps
<1>4. \A i \in 1..Len(p) + 1 :
        /\ lockSteps(p)[i].path = SubSeq(p, 1, i - 1)
        /\ lockSteps(p)[i].w <=> i = Len(p) + 1
  BY DEF lockSteps, partialPaths
<1>5. SubSeq(p, 1, Len(p)) = p
  BY <1>1
<1>6. Len(p) + 1 \in 1..Len(p) + 1 /\ (Len(p) + 1) - 1 = Len(p)
  BY <1>1
<1>7. lockSteps(p)[Len(p) + 1].path = p
  BY <1>4, <1>5, <1>6
<1> QED BY <1>1, <1>2, <1>3, <1>4, <1>7

\* The locks of one path are taken in increasing order of keys.
LEMMA LockStepsOrdered ==
    ASSUME NEW p \in Path, p \in Written
    PROVE  Ordered(lockSteps(p))
<1> DEFINE s == lockSteps(p)
<1>1. /\ Len(s) = Len(p) + 1 /\ Len(p) \in Nat
      /\ \A i \in 1..Len(p) + 1 :
            s[i].path = SubSeq(p, 1, i - 1) /\ (s[i].w <=> i = Len(p) + 1)
      /\ s[Len(p) + 1].path = p
  BY LockStepsAt
<1> HIDE DEF s
<1>2. ASSUME NEW i \in 1..Len(s), NEW j \in 1..Len(s), i < j
      PROVE  Rank[s[i].path] < Rank[s[j].path]
  <2> DEFINE q == s[j].path
  <2>1. q \in Path /\ Len(q) = j - 1 /\ q = SubSeq(p, 1, j - 1)
    <3>1. j - 1 \in 0..Len(p) /\ p \in Seq(STRING)
      BY <1>1, PathAssumption
    <3>2. SubSeq(p, 1, j - 1) \in Path /\ Len(SubSeq(p, 1, j - 1)) = j - 1
      BY <3>1, PathAssumption
    <3> QED BY <3>2, <1>1
  <2>2. SubSeq(q, 1, i - 1) = SubSeq(p, 1, i - 1)
    <3>1. p \in Seq(STRING) /\ j - 1 \in 0..Len(p) /\ i - 1 \in 0..(j - 1)
      BY <1>1, <1>2, PathAssumption
    <3> QED BY <3>1, <2>1
  <2>3. i - 1 \in 0..Len(q) - 1
    BY <1>1, <1>2, <2>1
  <2>4. s[i].path = SubSeq(q, 1, i - 1)
    BY <1>1, <2>2
  <2> HIDE DEF q
  <2>5. Rank[SubSeq(q, 1, i - 1)] < Rank[q]
    BY <2>1, <2>3, RankAssumption
  <2> QED BY <2>4, <2>5 DEF q
<1>3. \A i \in 1..Len(s) : s[i].w => s[i].path \in Written
  BY <1>1
<1>4. Ordered(s)
  BY <1>2, <1>3 DEF Ordered
<1> QED BY <1>4 DEF s

\* Of the locks of a path with no writer above, only the last is contended.
LEMMA LockStepsQuiet ==
    ASSUME NEW p \in Path, NoWriterAbove(p),
           NEW i \in 1..Len(p) + 1, lockSteps(p)[i].path \in Written
    PROVE  i = Len(p) + 1
<1>1. lockSteps(p)[i].path = SubSeq(p, 1, i - 1) /\ Len(p) \in Nat
  BY LockStepsAt
<1>2. i # Len(p) + 1 => i - 1 \in 0..Len(p) - 1
  BY <1>1
<1> QED BY <1>1, <1>2 DEF NoWriterAbove

\* The locks of two paths in the order of their keys.
LEMMA TwoPathsOrdered ==
    ASSUME NEW p \in Path, NEW q \in Path, p \in Written, q \in Written,
           NoWriterAbove(p), NoWriterAbove(q), Rank[p] < Rank[q]
    PROVE  Ordered(lockSteps(p) \o lockSteps(q))
<1> DEFINE a == lockSteps(p)
           b == lockSteps(q)
           s == a \o b
           n == Len(p) + 1
           k == Len(q) + 1
<1>1. /\ a \in Seq(Step) /\ Len(a) = n /\ n \in Nat \ {0} /\ a[n].path = p
      /\ b \in Seq(Step) /\ Len(b) = k /\ k \in Nat \ {0} /\ b[k].path = q
  BY LockStepsAt
<1>2. /\ \A i \in 1..n : a[i].path \in Written => i = n
      /\ \A i \in 1..k : b[i].path \in Written => i = k
  BY LockStepsQuiet
<1>3. /\ \A i \in 1..n : a[i].w => a[i].path \in Written
      /\ \A i \in 1..k : b[i].w => b[i].path \in Written
  BY LockStepsAt
<1> HIDE DEF a, b, n, k
<1>4. /\ Len(s) = n + k
      /\ \A i \in 1..n + k : s[i] = IF i <= n THEN a[i] ELSE b[i - n]
  BY <1>1
<1> HIDE DEF s
<1>5. ASSUME NEW i \in 1..n + k
      PROVE  /\ s[i].w => s[i].path \in Written
             /\ s[i].path \in Written => (i = n /\ s[i].path = p) \/ (i = n + k /\ s[i].path = q)
  <2>1. CASE i <= n
    BY <2>1, <1>1, <1>2, <1>3, <1>4
  <2>2. CASE i > n
    <3>1. i - n \in 1..k /\ s[i] = b[i - n]
      BY <2>2, <1>1, <1>4
    <3>2. i - n = k => i = n + k
      BY <1>1
    <3> QED BY <3>1, <3>2, <1>1, <1>2, <1>3
  <2> QED BY <2>1, <2>2, <1>1
<1>6. ASSUME NEW i \in 1..n + k, NEW j \in 1..n + k, i < j,
             s[i].path \in Written, s[j].path \in Written
      PROVE  Rank[s[i].path] < Rank[s[j].path]
  <2>1. i = n /\ s[i].path = p /\ j = n + k /\ s[j].path = q
    BY <1>1, <1>5, <1>6
  <2> QED BY <2>1
<1>7. Ordered(s)
  BY <1>4, <1>5, <1>6 DEF Ordered
<1> QED BY <1>7 DEF s, a, b

\* Every request of a mix with RenamesApart has an ordered plan.
LEMMA RequestsOrdered ==
    ASSUME RenamesApart, NEW r \in Requests, renameAllowed(r[1], r[2])
    PROVE  Ordered(renameSteps(r[1], r[2]))
<1> DEFINE p == r[1]
           q == r[2]
<1>1. p \in Path /\ q \in Path /\ p \in Written /\ q \in Written
  BY RequestsAssumption DEF Written
<1>2. p # q => NoWriterAbove(p) /\ NoWriterAbove(q)
  BY DEF RenamesApart
<1>3. Rank[p] \in Nat /\ Rank[q] \in Nat
  BY <1>1, RankAssumption
<1> HIDE DEF p, q
<1>4. Rank[p] < Rank[q] => Ordered(lockSteps(p) \o lockSteps(q))
  BY <1>1, <1>2, <1>3, TwoPathsOrdered
<1>5. Rank[p] > Rank[q] => Ordered(lockSteps(q) \o lockSteps(p))
  <2>1. Rank[p] > Rank[q] => Rank[q] < Rank[p] /\ p # q
    BY <1>3
  <2> QED BY <1>1, <1>2, <2>1, TwoPathsOrdered
<1>6. Ordered(lockSteps(p))
  BY <1>1, LockStepsOrdered
<1>7. Ordered(renameSteps(p, q))
  BY <1>4, <1>5, <1>6 DEF renameSteps
<1> QED BY <1>7 DEF p, q

-----------------------------------------------------------------------------
(* The holders of a mutex are the ones it names *)

\* What a thread references has a mutex in the map, and what it holds or
\* writes a mutex.
Mapped ==
    \A t \in Thread : \A i \in 1..Len(plan[t]) :
        /\ Referenced(t, i) => pathmap[plan[t][i].path] \in Mux /\ plan[t][i].path \in Path
        /\ Owns(t, i) \/ Writes(t, i) => MuxOf(t, i) \in Mux

\* The invariant of the path lock maps every reference.
LEMMA InvMapped == IInv => Mapped
BY ReferencedMapped, OwnedMux DEF IInv, Mapped

\* The same after a step.
LEMMA InvMappedNext == IInv' => Mapped'
BY InvMapped, PTL

\* A step that leaves the mutexes alone, by which no thread gives up a mutex
\* and none starts or stops waiting as a reader.
LEMMA HolderFrame ==
    ASSUME Types, HolderInv, wr' = wr, rd' = rd, rq' = rq,
           \A u \in Thread : \A i \in 1..Len(plan[u]) : Owns(u, i) \/ Writes(u, i) =>
              /\ i \in 1..Len(plan'[u]) /\ plan'[u][i] = plan[u][i]
              /\ MuxOf(u, i)' = MuxOf(u, i)
              /\ Owns(u, i) => Owns(u, i)'
              /\ Writes(u, i) => Writes(u, i)',
           \A u \in Thread :
              /\ pc'[u] = "rwait" <=> pc[u] = "rwait"
              /\ pc[u] = "rwait" => plan'[u] = plan[u] /\ got'[u] = got[u] /\ cur'[u] = cur[u]
    PROVE  HolderInv'
<1>1. WriterInv'
  <2> SUFFICES ASSUME NEW m \in Mux, NEW w \in Thread, wr[m] = w
               PROVE  \E i \in 1..Len(plan'[w]) : Writes(w, i)' /\ MuxOf(w, i)' = m
    BY DEF WriterInv
  <2>1. PICK i \in 1..Len(plan[w]) : Writes(w, i) /\ MuxOf(w, i) = m
    BY DEF HolderInv, WriterInv
  <2> QED BY <2>1
<1>2. ReaderInv'
  <2> SUFFICES ASSUME NEW m \in Mux, NEW v \in Thread, NEW i \in Nat, <<v, i>> \in rd[m]
               PROVE  /\ i \in 1..Len(plan'[v]) /\ ~plan'[v][i].w /\ MuxOf(v, i)' = m
                      /\ Owns(v, i)' \/ (i = got'[v] + 1 /\ pc'[v] = "rwait")
    BY DEF ReaderInv
  <2>1. /\ i \in 1..Len(plan[v]) /\ ~plan[v][i].w /\ MuxOf(v, i) = m
        /\ Owns(v, i) \/ (i = got[v] + 1 /\ pc[v] = "rwait")
    BY DEF HolderInv, ReaderInv
  <2>2. CASE Owns(v, i)
    BY <2>1, <2>2
  <2>3. CASE i = got[v] + 1 /\ pc[v] = "rwait"
    BY <2>1, <2>3 DEF MuxOf
  <2> QED BY <2>1, <2>2, <2>3
<1>3. QueueInv'
  BY DEF HolderInv, QueueInv
<1>4. WaiterInv'
  BY DEF HolderInv, WaiterInv
<1> QED BY <1>1, <1>2, <1>3, <1>4 DEF HolderInv

\* With every mutex free nobody holds one.
LEMMA InitHolder == Init => HolderInv /\ OrderInv
BY NilAssumption
   DEF Init, HolderInv, WriterInv, ReaderInv, QueueInv, WaiterInv, OrderInv, Ordered

\* A request that starts holds nothing.
LEMMA StartHolder ==
    ASSUME IInv, HolderInv, NEW t \in Thread, Start(t)
    PROVE  HolderInv'
<1>1. PICK s : plan' = [plan EXCEPT ![t] = s]
  BY DEF Start
<1>2. /\ got' = got /\ cur' = cur /\ pathmap' = pathmap /\ wr' = wr /\ rd' = rd /\ rq' = rq
      /\ pc[t] = "idle" /\ pc'[t] = "ref" /\ got[t] = 0 /\ Types
      /\ \A u \in Thread \ {t} : pc'[u] = pc[u] /\ plan'[u] = plan[u]
  BY <1>1 DEF Start, IInv, Types, PlanInv
<1>3. \A i \in 1..Len(plan[t]) : ~Owns(t, i) /\ ~Writes(t, i)
  BY <1>2 DEF Owns, Writes
<1>4. \A u \in Thread \ {t} : \A i \in 1..Len(plan[u]) :
        /\ MuxOf(u, i)' = MuxOf(u, i)
        /\ Owns(u, i) => Owns(u, i)'
        /\ Writes(u, i) => Writes(u, i)'
  BY <1>2 DEF MuxOf, Owns, Writes
<1> QED BY <1>2, <1>3, <1>4, HolderFrame

\* Leaving the critical section changes no lock.
LEMMA LeaveHolder ==
    ASSUME IInv, HolderInv, NEW t \in Thread, Leave(t)
    PROVE  HolderInv'
<1>1. /\ plan' = plan /\ got' = got /\ cur' = cur /\ pathmap' = pathmap
      /\ wr' = wr /\ rd' = rd /\ rq' = rq /\ Types
      /\ pc[t] = "cs" /\ pc'[t] = "unref"
      /\ \A u \in Thread \ {t} : pc'[u] = pc[u]
  BY DEF Leave, IInv, Types
<1>2. \A u \in Thread : \A i \in 1..Len(plan[u]) :
        /\ MuxOf(u, i)' = MuxOf(u, i)
        /\ Owns(u, i) => Owns(u, i)'
        /\ Writes(u, i) => Writes(u, i)'
  BY <1>1 DEF MuxOf, Owns, Writes
<1> QED BY <1>1, <1>2, HolderFrame

\* A mutex that unlockPath drops from the map is in nobody else's hands, and
\* the thread that drops it keeps the pointer.
LEMMA UnrefHolder ==
    ASSUME IInv, IInv', HolderInv, NEW t \in Thread, Unref(t)
    PROVE  HolderInv'
<1> DEFINE k == got[t]
           p == plan[t][k].path
<1>1. /\ plan' = plan /\ wr' = wr /\ rd' = rd /\ rq' = rq
      /\ pc[t] = "unref" /\ pc'[t] = "unlock"
      /\ cur'[t] = pathmap[p]
      /\ pathmap' = pathmap \/ pathmap' = [pathmap EXCEPT ![p] = NoMux]
      /\ got'[t] = k - 1 /\ k \in Nat /\ k > 0
      /\ \A u \in Thread \ {t} : got'[u] = got[u] /\ cur'[u] = cur[u] /\ pc'[u] = pc[u]
  <2>1. /\ plan' = plan /\ wr' = wr /\ rd' = rd /\ rq' = rq /\ pc[t] = "unref"
        /\ cur' = [cur EXCEPT ![t] = pathmap[p]] /\ got' = [got EXCEPT ![t] = k - 1]
        /\ pc' = [pc EXCEPT ![t] = "unlock"]
        /\ pathmap' = pathmap \/ pathmap' = [pathmap EXCEPT ![p] = NoMux]
    BY DEF Unref
  <2>2. Types /\ PlanInv
    BY DEF IInv
  <2>3. k \in Nat /\ k > 0
    BY <2>1, <2>2 DEF Types, PlanInv
  <2> HIDE DEF p
  <2> QED BY <2>1, <2>2, <2>3 DEF Types
<1>2. Mapped /\ Mapped' /\ Types
  BY InvMapped, InvMappedNext DEF IInv
<1> HIDE DEF p
<1>3. \A x \in Path : pathmap'[x] \in Mux => pathmap'[x] = pathmap[x]
  BY <1>1, <1>2, NilAssumption DEF Types
<1>4. ASSUME NEW u \in Thread, NEW i \in 1..Len(plan[u]), Owns(u, i) \/ Writes(u, i)
      PROVE  /\ MuxOf(u, i)' = MuxOf(u, i)
             /\ Owns(u, i) => Owns(u, i)'
             /\ Writes(u, i) => Writes(u, i)'
  <2>1. CASE u = t
    <3>1. i \in 1..k
      BY <2>1, <1>1, <1>4 DEF Owns, Writes
    <3>2. CASE i = k
      <4>1. i = got'[t] + 1 /\ i # got[t] + 1
        BY <3>2, <1>1
      <4> QED BY <4>1, <3>2, <2>1, <1>1 DEF MuxOf, Owns, Writes, p
    <3>3. CASE i # k
      <4>1. i \in 1..got'[t] /\ i # got'[t] + 1 /\ i # got[t] + 1
        BY <3>1, <3>3, <1>1
      <4>2. pathmap'[plan[t][i].path] \in Mux /\ plan[t][i].path \in Path
        BY <4>1, <2>1, <1>1, <1>2 DEF Mapped, Referenced
      <4> QED BY <4>1, <4>2, <2>1, <1>1, <1>3 DEF MuxOf, Owns, Writes
    <3> QED BY <3>2, <3>3
  <2>2. CASE u # t
    <3>1. CASE i = got[u] + 1
      BY <3>1, <2>2, <1>1 DEF MuxOf, Owns, Writes
    <3>2. CASE i # got[u] + 1
      <4>1. i \in 1..got'[u]
        BY <3>2, <2>2, <1>1, <1>4 DEF Owns, Writes
      <4>2. pathmap'[plan[u][i].path] \in Mux /\ plan[u][i].path \in Path
        BY <4>1, <1>1, <1>2 DEF Mapped, Referenced
      <4> QED BY <4>2, <3>2, <2>2, <1>1, <1>3 DEF MuxOf, Owns, Writes
    <3> QED BY <3>1, <3>2
  <2> QED BY <2>1, <2>2
<1>5. \A u \in Thread :
        /\ pc'[u] = "rwait" <=> pc[u] = "rwait"
        /\ pc[u] = "rwait" => got'[u] = got[u] /\ cur'[u] = cur[u]
  BY <1>1
<1> QED BY <1>1, <1>2, <1>4, <1>5, HolderFrame

\* The writer gets in; the slot was its own already.
LEMMA AcqWHolder ==
    ASSUME IInv, HolderInv, NEW t \in Thread, AcqW(t)
    PROVE  HolderInv'
<1>1. /\ plan' = plan /\ pathmap' = pathmap /\ refcnt' = refcnt
      /\ wr' = wr /\ rd' = rd /\ rq' = rq /\ Types
      /\ pc[t] = "ann" /\ Advance(t)
  BY DEF AcqW, IInv
<1>2. /\ pc'[t] \in {"cs", "ref"}
      /\ \A u \in Thread \ {t} : got'[u] = got[u] /\ cur'[u] = cur[u] /\ pc'[u] = pc[u]
  BY <1>1 DEF Advance, Types
<1>3. ASSUME NEW u \in Thread, NEW i \in 1..Len(plan[u])
      PROVE  /\ Owns(u, i) => Owns(u, i)'
             /\ Writes(u, i) => Writes(u, i)'
             /\ Owns(u, i)' \/ Writes(u, i)' => MuxOf(u, i)' = MuxOf(u, i)
  BY <1>1, AdvanceFacts DEF Writes
<1>4. \A u \in Thread :
        /\ pc'[u] = "rwait" <=> pc[u] = "rwait"
        /\ pc[u] = "rwait" => got'[u] = got[u] /\ cur'[u] = cur[u]
  BY <1>1, <1>2
<1> QED BY <1>1, <1>3, <1>4, HolderFrame

\* A mutex found in the map keeps its holders; a new one has none, and its
\* memory was nobody's.
LEMMA RefHolder ==
    ASSUME IInv, HolderInv, NEW t \in Thread, Ref(t)
    PROVE  HolderInv'
<1> DEFINE p == plan[t][got[t] + 1].path
<1>1. /\ plan' = plan /\ got' = got /\ pc[t] = "ref" /\ pc'[t] = "lock" /\ Types
      /\ \A u \in Thread \ {t} : pc'[u] = pc[u] /\ cur'[u] = cur[u]
  BY DEF Ref, IInv, Types
<1>2. Mapped
  BY InvMapped
<1>3. \A u \in Thread : \A i \in 1..Len(plan[u]) :
        /\ Owns(u, i) \/ Writes(u, i) => u # t \/ i # got[t] + 1
        /\ Owns(u, i) => Owns(u, i)'
        /\ Writes(u, i) => Writes(u, i)'
  BY <1>1 DEF Owns, Writes, Types
<1>4. \A u \in Thread :
        /\ pc'[u] = "rwait" <=> pc[u] = "rwait"
        /\ pc[u] = "rwait" => got'[u] = got[u] /\ cur'[u] = cur[u]
  BY <1>1
<1> HIDE DEF p
<1>5. CASE pathmap[p] # NoMux
  <2>1. pathmap' = pathmap /\ wr' = wr /\ rd' = rd /\ rq' = rq
    BY <1>5 DEF Ref, p
  <2>2. \A u \in Thread : \A i \in 1..Len(plan[u]) :
          Owns(u, i) \/ Writes(u, i) => MuxOf(u, i)' = MuxOf(u, i)
    BY <1>1, <1>3, <2>1 DEF MuxOf
  <2> QED BY <1>1, <1>3, <1>4, <2>1, <2>2, HolderFrame
<1>6. CASE pathmap[p] = NoMux
  <2>1. PICK m \in Mux :
          /\ Fresh(m)
          /\ pathmap' = [pathmap EXCEPT ![p] = m]
          /\ wr' = [wr EXCEPT ![m] = NoThread]
          /\ rd' = [rd EXCEPT ![m] = {}]
          /\ rq' = [rq EXCEPT ![m] = {}]
    BY <1>6 DEF Ref, p
  <2>2. /\ wr'[m] = NoThread /\ rd'[m] = {} /\ rq'[m] = {}
        /\ \A x \in Mux : x # m => wr'[x] = wr[x] /\ rd'[x] = rd[x] /\ rq'[x] = rq[x]
    BY <1>1, <2>1 DEF Types
  <2>3. ASSUME NEW u \in Thread, NEW i \in 1..Len(plan[u]), Owns(u, i) \/ Writes(u, i)
        PROVE  MuxOf(u, i)' = MuxOf(u, i)
    <3>1. CASE i = got[u] + 1
      BY <3>1, <2>3, <1>1, <1>3 DEF MuxOf
    <3>2. CASE i # got[u] + 1
      <4>1. Referenced(u, i)
        BY <3>2, <2>3 DEF Owns, Writes, Referenced
      <4>2. plan[u][i].path \in Path /\ plan[u][i].path # p
        BY <4>1, <1>2, <1>6, NilAssumption DEF Mapped
      <4>3. pathmap'[plan[u][i].path] = pathmap[plan[u][i].path]
        BY <4>2, <2>1, <1>1 DEF Types
      <4> QED BY <3>2, <4>3, <1>1 DEF MuxOf
    <3> QED BY <3>1, <3>2
  <2>4. WriterInv'
    <3> SUFFICES ASSUME NEW x \in Mux, NEW w \in Thread, wr'[x] = w
                 PROVE  \E i \in 1..Len(plan[w]) : Writes(w, i)' /\ MuxOf(w, i)' = x
      BY <1>1 DEF WriterInv
    <3>1. wr[x] = w
      BY <2>2, NilAssumption
    <3>2. PICK i \in 1..Len(plan[w]) : Writes(w, i) /\ MuxOf(w, i) = x
      BY <3>1 DEF HolderInv, WriterInv
    <3> QED BY <3>2, <2>3, <1>3
  <2>5. ReaderInv'
    <3> SUFFICES ASSUME NEW x \in Mux, NEW v \in Thread, NEW i \in Nat, <<v, i>> \in rd'[x]
                 PROVE  /\ i \in 1..Len(plan[v]) /\ ~plan[v][i].w /\ MuxOf(v, i)' = x
                        /\ Owns(v, i)' \/ (i = got'[v] + 1 /\ pc'[v] = "rwait")
      BY <1>1 DEF ReaderInv
    <3>1. <<v, i>> \in rd[x]
      BY <2>2
    <3>2. /\ i \in 1..Len(plan[v]) /\ ~plan[v][i].w /\ MuxOf(v, i) = x
          /\ Owns(v, i) \/ (i = got[v] + 1 /\ pc[v] = "rwait")
      BY <3>1 DEF HolderInv, ReaderInv
    <3>3. CASE Owns(v, i)
      BY <3>2, <3>3, <2>3, <1>3
    <3>4. CASE i = got[v] + 1 /\ pc[v] = "rwait"
      BY <3>2, <3>4, <1>1, <1>4 DEF MuxOf
    <3> QED BY <3>2, <3>3, <3>4
  <2>6. QueueInv'
    <3> SUFFICES ASSUME NEW x \in Mux, NEW v \in Thread, NEW i \in Nat, <<v, i>> \in rq'[x]
                 PROVE  /\ i = got'[v] + 1 /\ pc'[v] = "rwait" /\ cur'[v] = x
                        /\ wr'[x] # NoThread /\ <<v, i>> \notin rd'[x]
      BY DEF QueueInv
    <3>1. x # m /\ <<v, i>> \in rq[x] /\ wr'[x] = wr[x] /\ rd'[x] = rd[x]
      BY <2>2
    <3>2. /\ i = got[v] + 1 /\ pc[v] = "rwait" /\ cur[v] = x
          /\ wr[x] # NoThread /\ <<v, i>> \notin rd[x]
      BY <3>1 DEF HolderInv, QueueInv
    <3> QED BY <3>1, <3>2, <1>4
  <2>7. WaiterInv'
    <3> SUFFICES ASSUME NEW u \in Thread, pc'[u] = "rwait"
                 PROVE  <<u, got'[u] + 1>> \in rd'[cur'[u]] \cup rq'[cur'[u]]
      BY DEF WaiterInv
    <3>1. /\ pc[u] = "rwait" /\ got'[u] = got[u] /\ cur'[u] = cur[u] /\ cur[u] # m
      BY <1>4, <2>1 DEF Fresh
    <3>2. cur[u] \in Mux
      BY <3>1 DEF IInv, PointerInv, Types
    <3>3. <<u, got[u] + 1>> \in rd[cur[u]] \cup rq[cur[u]]
      BY <3>1 DEF HolderInv, WaiterInv
    <3> QED BY <3>1, <3>2, <3>3, <2>2
  <2> QED BY <2>4, <2>5, <2>6, <2>7 DEF HolderInv
<1> QED BY <1>5, <1>6

\* The announced writer is the one in the slot.
LEMMA LockWHolder ==
    ASSUME IInv, HolderInv, NEW t \in Thread, LockW(t)
    PROVE  HolderInv'
<1> DEFINE k == got[t] + 1
<1>1. /\ plan' = plan /\ got' = got /\ cur' = cur /\ pathmap' = pathmap
      /\ rd' = rd /\ rq' = rq /\ Types
      /\ pc[t] = "lock" /\ pc'[t] = "ann" /\ plan[t][k].w
      /\ wr' = [wr EXCEPT ![cur[t]] = t]
      /\ \A u \in Thread \ {t} : pc'[u] = pc[u]
  BY DEF LockW, IInv, Types
<1>2. k \in 1..Len(plan[t]) /\ cur[t] \in Mux
  BY <1>1 DEF IInv, PlanInv, Types, PointerInv
<1>3. \A u \in Thread : \A i \in 1..Len(plan[u]) :
        /\ MuxOf(u, i)' = MuxOf(u, i)
        /\ Owns(u, i)' <=> Owns(u, i)
        /\ Writes(u, i) => Writes(u, i)'
  BY <1>1 DEF Owns, Writes, MuxOf
<1>4. \A i \in 1..Len(plan[t]) : i = k => Writes(t, i)' /\ MuxOf(t, i)' = cur[t]
  BY <1>1 DEF Writes, MuxOf
<1>5. \A m \in Mux : wr'[m] = IF m = cur[t] THEN t ELSE wr[m]
  BY <1>1 DEF Types
<1>6. WriterInv'
  <2> SUFFICES ASSUME NEW m \in Mux, NEW w \in Thread, wr'[m] = w
               PROVE  \E i \in 1..Len(plan[w]) : Writes(w, i)' /\ MuxOf(w, i)' = m
    BY <1>1 DEF WriterInv
  <2>1. CASE m = cur[t]
    <3>1. w = t
      BY <2>1, <1>5
    <3> QED BY <2>1, <3>1, <1>2, <1>4
  <2>2. CASE m # cur[t]
    <3>1. PICK i \in 1..Len(plan[w]) : Writes(w, i) /\ MuxOf(w, i) = m
      BY <2>2, <1>5 DEF HolderInv, WriterInv
    <3> QED BY <3>1, <1>3
  <2> QED BY <2>1, <2>2
<1>7. \A u \in Thread : pc'[u] = "rwait" <=> pc[u] = "rwait"
  BY <1>1
<1>8. ReaderInv' /\ WaiterInv'
  BY <1>1, <1>3, <1>7 DEF HolderInv, ReaderInv, WaiterInv
<1>9. QueueInv'
  BY <1>1, <1>5, <1>7, NilAssumption DEF HolderInv, QueueInv
<1> QED BY <1>6, <1>8, <1>9 DEF HolderInv

\* The reader that gets in holds the position it is recorded with.
LEMMA LockRHolder ==
    ASSUME IInv, HolderInv, NEW t \in Thread, LockR(t)
    PROVE  HolderInv'
<1> DEFINE k == got[t] + 1
<1>1. /\ plan' = plan /\ pathmap' = pathmap /\ refcnt' = refcnt /\ Types
      /\ wr' = wr /\ rq' = rq /\ rd' = [rd EXCEPT ![cur[t]] = @ \cup {<<t, k>>}]
      /\ pc[t] = "lock" /\ Advance(t) /\ ~plan[t][k].w
  BY DEF LockR, IInv
<1>2. k \in 1..Len(plan[t]) /\ cur[t] \in Mux /\ MuxOf(t, k) = cur[t]
  BY <1>1, AdvanceFacts
<1>3. /\ pc'[t] \in {"cs", "ref"}
      /\ \A u \in Thread \ {t} : got'[u] = got[u] /\ cur'[u] = cur[u] /\ pc'[u] = pc[u]
  BY <1>1 DEF Advance, Types
<1>4. ASSUME NEW u \in Thread, NEW i \in 1..Len(plan[u])
      PROVE  /\ Owns(u, i)' <=> Owns(u, i) \/ (u = t /\ i = k)
             /\ Writes(u, i)' <=> Writes(u, i)
             /\ Owns(u, i)' \/ Writes(u, i)' => MuxOf(u, i)' = MuxOf(u, i)
  BY <1>1, AdvanceFacts DEF Writes
<1>5. \A m \in Mux : rd'[m] = IF m = cur[t] THEN rd[m] \cup {<<t, k>>} ELSE rd[m]
  BY <1>1 DEF Types
<1> HIDE DEF k
<1>6. WriterInv'
  <2> SUFFICES ASSUME NEW m \in Mux, NEW w \in Thread, wr[m] = w
               PROVE  \E i \in 1..Len(plan[w]) : Writes(w, i)' /\ MuxOf(w, i)' = m
    BY <1>1 DEF WriterInv
  <2>1. PICK i \in 1..Len(plan[w]) : Writes(w, i) /\ MuxOf(w, i) = m
    BY DEF HolderInv, WriterInv
  <2> QED BY <2>1, <1>4
<1>7. ReaderInv'
  <2> SUFFICES ASSUME NEW m \in Mux, NEW v \in Thread, NEW i \in Nat, <<v, i>> \in rd'[m]
               PROVE  /\ i \in 1..Len(plan[v]) /\ ~plan[v][i].w /\ MuxOf(v, i)' = m
                      /\ Owns(v, i)' \/ (i = got'[v] + 1 /\ pc'[v] = "rwait")
    BY <1>1 DEF ReaderInv
  <2>1. CASE v = t /\ i = k /\ m = cur[t]
    BY <2>1, <1>1, <1>2, <1>4
  <2>2. CASE <<v, i>> \in rd[m]
    <3>1. /\ i \in 1..Len(plan[v]) /\ ~plan[v][i].w /\ MuxOf(v, i) = m
          /\ Owns(v, i) \/ (i = got[v] + 1 /\ pc[v] = "rwait")
      BY <2>2 DEF HolderInv, ReaderInv
    <3>2. CASE Owns(v, i)
      BY <3>1, <3>2, <1>4
    <3>3. CASE i = got[v] + 1 /\ pc[v] = "rwait"
      BY <3>1, <3>3, <1>1, <1>3 DEF MuxOf
    <3> QED BY <3>1, <3>2, <3>3
  <2>3. CASE m = cur[t]
    <3>1. <<v, i>> \in rd[m] \/ <<v, i>> = <<t, k>>
      BY <2>3, <1>5
    <3>2. <<v, i>> = <<t, k>> => v = t /\ i = k
      OBVIOUS
    <3> QED BY <3>1, <3>2, <2>1, <2>2, <2>3
  <2>4. CASE m # cur[t]
    <3>1. <<v, i>> \in rd[m]
      BY <2>4, <1>5
    <3> QED BY <3>1, <2>2
  <2> QED BY <2>3, <2>4
<1>8. QueueInv'
  <2> SUFFICES ASSUME NEW m \in Mux, NEW v \in Thread, NEW i \in Nat, <<v, i>> \in rq[m]
               PROVE  /\ i = got'[v] + 1 /\ pc'[v] = "rwait" /\ cur'[v] = m
                      /\ wr[m] # NoThread /\ <<v, i>> \notin rd'[m]
    BY <1>1 DEF QueueInv
  <2>1. /\ i = got[v] + 1 /\ pc[v] = "rwait" /\ cur[v] = m
        /\ wr[m] # NoThread /\ <<v, i>> \notin rd[m]
    BY DEF HolderInv, QueueInv
  <2>2. v # t /\ <<v, i>> # <<t, k>>
    BY <2>1, <1>1
  <2>3. <<v, i>> \notin rd'[m]
    BY <2>1, <2>2, <1>5
  <2> QED BY <2>1, <2>2, <2>3, <1>3
<1>9. WaiterInv'
  <2> SUFFICES ASSUME NEW u \in Thread, pc'[u] = "rwait"
               PROVE  <<u, got'[u] + 1>> \in rd'[cur'[u]] \cup rq[cur'[u]]
    BY <1>1 DEF WaiterInv
  <2>1. u # t /\ got'[u] = got[u] /\ cur'[u] = cur[u] /\ pc[u] = "rwait"
    BY <1>3
  <2>2. cur[u] \in Mux
    BY <2>1 DEF IInv, PointerInv, Types
  <2>3. <<u, got[u] + 1>> \in rd[cur[u]] \cup rq[cur[u]]
    BY <2>1 DEF HolderInv, WaiterInv
  <2> QED BY <2>1, <2>2, <2>3, <1>5
<1> QED BY <1>6, <1>7, <1>8, <1>9 DEF HolderInv

\* The reader that queues has a writer to wait for.
LEMMA QueueRHolder ==
    ASSUME IInv, HolderInv, NEW t \in Thread, QueueR(t)
    PROVE  HolderInv'
<1> DEFINE k == got[t] + 1
<1>1. /\ plan' = plan /\ got' = got /\ cur' = cur /\ pathmap' = pathmap
      /\ rd' = rd /\ wr' = wr /\ Types /\ wr[cur[t]] # NoThread
      /\ pc[t] = "lock" /\ pc'[t] = "rwait"
      /\ rq' = [rq EXCEPT ![cur[t]] = @ \cup {<<t, k>>}]
      /\ \A u \in Thread \ {t} : pc'[u] = pc[u]
  BY DEF QueueR, IInv, Types
<1>2. k \in Nat /\ cur[t] \in Mux
  BY <1>1 DEF IInv, Types, PointerInv
<1>3. \A u \in Thread : \A i \in 1..Len(plan[u]) :
        /\ MuxOf(u, i)' = MuxOf(u, i)
        /\ Owns(u, i)' <=> Owns(u, i)
        /\ Writes(u, i)' <=> Writes(u, i)
  BY <1>1 DEF Owns, Writes, MuxOf
<1>4. \A m \in Mux : rq'[m] = IF m = cur[t] THEN rq[m] \cup {<<t, k>>} ELSE rq[m]
  BY <1>1 DEF Types
<1>5. \A m \in Mux : <<t, k>> \notin rd[m]
  <2>1. ~Owns(t, k) /\ pc[t] # "rwait"
    BY <1>1 DEF Owns, Types
  <2> HIDE DEF k
  <2> QED BY <2>1, <1>2 DEF HolderInv, ReaderInv
<1>6. WriterInv'
  BY <1>1, <1>3 DEF HolderInv, WriterInv
<1>7. ReaderInv'
  <2> SUFFICES ASSUME NEW m \in Mux, NEW v \in Thread, NEW i \in Nat, <<v, i>> \in rd[m]
               PROVE  /\ i \in 1..Len(plan[v]) /\ ~plan[v][i].w /\ MuxOf(v, i)' = m
                      /\ Owns(v, i)' \/ (i = got[v] + 1 /\ pc'[v] = "rwait")
    BY <1>1 DEF ReaderInv
  <2>1. /\ i \in 1..Len(plan[v]) /\ ~plan[v][i].w /\ MuxOf(v, i) = m
        /\ Owns(v, i) \/ (i = got[v] + 1 /\ pc[v] = "rwait")
    BY DEF HolderInv, ReaderInv
  <2> QED BY <2>1, <1>1, <1>3
<1>8. QueueInv'
  <2> SUFFICES ASSUME NEW m \in Mux, NEW v \in Thread, NEW i \in Nat, <<v, i>> \in rq'[m]
               PROVE  /\ i = got[v] + 1 /\ pc'[v] = "rwait" /\ cur[v] = m
                      /\ wr[m] # NoThread /\ <<v, i>> \notin rd[m]
    BY <1>1 DEF QueueInv
  <2>1. CASE <<v, i>> \in rq[m]
    <3>1. /\ i = got[v] + 1 /\ pc[v] = "rwait" /\ cur[v] = m
          /\ wr[m] # NoThread /\ <<v, i>> \notin rd[m]
      BY <2>1 DEF HolderInv, QueueInv
    <3> QED BY <3>1, <1>1
  <2>2. CASE <<v, i>> \notin rq[m]
    <3>1. m = cur[t] /\ <<v, i>> = <<t, k>>
      BY <2>2, <1>4
    <3>2. v = t /\ i = k
      BY <3>1
    <3> QED BY <3>1, <3>2, <1>1, <1>5
  <2> QED BY <2>1, <2>2
<1>9. WaiterInv'
  <2> SUFFICES ASSUME NEW u \in Thread, pc'[u] = "rwait"
               PROVE  <<u, got[u] + 1>> \in rd[cur[u]] \cup rq'[cur[u]]
    BY <1>1 DEF WaiterInv
  <2>1. CASE u = t
    BY <2>1, <1>2, <1>4
  <2>2. CASE u # t
    <3>1. pc[u] = "rwait"
      BY <2>2, <1>1
    <3>2. cur[u] \in Mux
      BY <3>1 DEF IInv, PointerInv, Types
    <3>3. <<u, got[u] + 1>> \in rd[cur[u]] \cup rq[cur[u]]
      BY <3>1 DEF HolderInv, WaiterInv
    <3> QED BY <3>2, <3>3, <1>4
  <2> QED BY <2>1, <2>2
<1> QED BY <1>6, <1>7, <1>8, <1>9 DEF HolderInv

\* The reader that was let in holds its position from now on; it is no longer
\* in a queue.
LEMMA AcqRHolder ==
    ASSUME IInv, HolderInv, NEW t \in Thread, AcqR(t)
    PROVE  HolderInv'
<1> DEFINE k == got[t] + 1
<1>1. /\ plan' = plan /\ pathmap' = pathmap /\ refcnt' = refcnt /\ Types
      /\ wr' = wr /\ rd' = rd /\ rq' = rq
      /\ pc[t] = "rwait" /\ <<t, k>> \in rd[cur[t]] /\ Advance(t)
  BY DEF AcqR, IInv
<1>2. k \in 1..Len(plan[t]) /\ cur[t] \in Mux /\ MuxOf(t, k) = cur[t]
  BY <1>1, AdvanceFacts
<1>3. /\ pc'[t] \in {"cs", "ref"}
      /\ \A u \in Thread \ {t} : got'[u] = got[u] /\ cur'[u] = cur[u] /\ pc'[u] = pc[u]
  BY <1>1 DEF Advance, Types
<1>4. ASSUME NEW u \in Thread, NEW i \in 1..Len(plan[u])
      PROVE  /\ Owns(u, i)' <=> Owns(u, i) \/ (u = t /\ i = k)
             /\ Writes(u, i) => Writes(u, i)'
             /\ Owns(u, i)' \/ Writes(u, i)' => MuxOf(u, i)' = MuxOf(u, i)
  BY <1>1, AdvanceFacts DEF Writes
<1>5. WriterInv'
  BY <1>1, <1>4 DEF HolderInv, WriterInv
<1>6. ReaderInv'
  <2> SUFFICES ASSUME NEW m \in Mux, NEW v \in Thread, NEW i \in Nat, <<v, i>> \in rd[m]
               PROVE  /\ i \in 1..Len(plan[v]) /\ ~plan[v][i].w /\ MuxOf(v, i)' = m
                      /\ Owns(v, i)' \/ (i = got'[v] + 1 /\ pc'[v] = "rwait")
    BY <1>1 DEF ReaderInv
  <2>1. /\ i \in 1..Len(plan[v]) /\ ~plan[v][i].w /\ MuxOf(v, i) = m
        /\ Owns(v, i) \/ (i = got[v] + 1 /\ pc[v] = "rwait")
    BY DEF HolderInv, ReaderInv
  <2>2. CASE Owns(v, i) \/ v = t
    <3>1. Owns(v, i)'
      BY <2>1, <2>2, <1>4
    <3> QED BY <2>1, <3>1, <1>4
  <2>3. CASE v # t /\ i = got[v] + 1 /\ pc[v] = "rwait"
    BY <2>1, <2>3, <1>1, <1>3 DEF MuxOf
  <2> QED BY <2>1, <2>2, <2>3
<1>7. QueueInv'
  <2> SUFFICES ASSUME NEW m \in Mux, NEW v \in Thread, NEW i \in Nat, <<v, i>> \in rq[m]
               PROVE  /\ i = got'[v] + 1 /\ pc'[v] = "rwait" /\ cur'[v] = m
                      /\ wr[m] # NoThread /\ <<v, i>> \notin rd[m]
    BY <1>1 DEF QueueInv
  <2>1. /\ i = got[v] + 1 /\ pc[v] = "rwait" /\ cur[v] = m
        /\ wr[m] # NoThread /\ <<v, i>> \notin rd[m]
    BY DEF HolderInv, QueueInv
  <2>2. v # t
    BY <2>1, <1>1
  <2> QED BY <2>1, <2>2, <1>3
<1>8. WaiterInv'
  <2> SUFFICES ASSUME NEW u \in Thread, pc'[u] = "rwait"
               PROVE  <<u, got'[u] + 1>> \in rd[cur'[u]] \cup rq[cur'[u]]
    BY <1>1 DEF WaiterInv
  <2>1. u # t /\ got'[u] = got[u] /\ cur'[u] = cur[u] /\ pc[u] = "rwait"
    BY <1>3
  <2> QED BY <2>1 DEF HolderInv, WaiterInv
<1> QED BY <1>5, <1>6, <1>7, <1>8 DEF HolderInv

\* A writer's Unlock turns the queue into the active readers; a reader's
\* RUnlock removes its own entry and no other.
LEMMA UnlockHolder ==
    ASSUME IInv, HolderInv, NEW t \in Thread, Unlock(t)
    PROVE  HolderInv'
<1> DEFINE k == got[t] + 1
           m == cur[t]
<1>1. /\ plan' = plan /\ got' = got /\ pathmap' = pathmap /\ Types
      /\ pc[t] = "unlock" /\ pc'[t] \in {"idle", "unref"}
      /\ \A u \in Thread \ {t} : pc'[u] = pc[u] /\ cur'[u] = cur[u]
      /\ \/ /\ plan[t][k].w
            /\ wr' = [wr EXCEPT ![m] = NoThread]
            /\ rd' = [rd EXCEPT ![m] = rq[m]]
            /\ rq' = [rq EXCEPT ![m] = {}]
         \/ /\ ~plan[t][k].w
            /\ rd' = [rd EXCEPT ![m] = @ \ {<<t, k>>}]
            /\ wr' = wr /\ rq' = rq
  BY DEF Unlock, IInv, Types
<1>2. k \in 1..Len(plan[t]) /\ m \in Mux /\ MuxOf(t, k) = m /\ Owns(t, k)
  BY <1>1 DEF IInv, PlanInv, PointerInv, Types, MuxOf, Owns
<1>3. ASSUME NEW u \in Thread, NEW i \in 1..Len(plan[u])
      PROVE  /\ Owns(u, i)' <=> Owns(u, i) /\ ~(u = t /\ i = k)
             /\ Writes(u, i)' <=> Writes(u, i) /\ ~(u = t /\ i = k)
             /\ Owns(u, i)' \/ Writes(u, i)' => MuxOf(u, i)' = MuxOf(u, i)
  BY <1>1, <1>2 DEF Owns, Writes, MuxOf, IInv, Types
<1>4. \A u \in Thread :
        /\ pc'[u] = "rwait" <=> pc[u] = "rwait"
        /\ pc[u] = "rwait" => u # t /\ cur'[u] = cur[u]
        /\ pc[u] = "rwait" => \A i \in Nat : i = got[u] + 1 => MuxOf(u, i)' = cur[u]
  BY <1>1 DEF MuxOf
<1> HIDE DEF k, m
<1>5. CASE plan[t][k].w
  <2>1. \A x \in Mux : /\ wr'[x] = IF x = m THEN NoThread ELSE wr[x]
                       /\ rd'[x] = IF x = m THEN rq[m] ELSE rd[x]
                       /\ rq'[x] = IF x = m THEN {} ELSE rq[x]
    BY <1>1, <1>5 DEF Types
  <2>2. rd[m] = {}
    BY <1>2, <1>5 DEF IInv, LockInv, LockInvOf
  <2>3. WriterInv'
    <3> SUFFICES ASSUME NEW x \in Mux, NEW w \in Thread, wr'[x] = w
                 PROVE  \E i \in 1..Len(plan[w]) : Writes(w, i)' /\ MuxOf(w, i)' = x
      BY <1>1 DEF WriterInv
    <3>1. x # m /\ wr[x] = w
      BY <2>1, NilAssumption
    <3>2. PICK i \in 1..Len(plan[w]) : Writes(w, i) /\ MuxOf(w, i) = x
      BY <3>1 DEF HolderInv, WriterInv
    <3>3. ~(w = t /\ i = k)
      BY <3>1, <3>2, <1>2
    <3> QED BY <3>2, <3>3, <1>3
  <2>4. ReaderInv'
    <3> SUFFICES ASSUME NEW x \in Mux, NEW v \in Thread, NEW i \in Nat, <<v, i>> \in rd'[x]
                 PROVE  /\ i \in 1..Len(plan[v]) /\ ~plan[v][i].w /\ MuxOf(v, i)' = x
                        /\ Owns(v, i)' \/ (i = got[v] + 1 /\ pc'[v] = "rwait")
      BY <1>1 DEF ReaderInv
    <3>1. CASE x = m
      <4>1. i = got[v] + 1 /\ pc[v] = "rwait" /\ cur[v] = m
        BY <3>1, <2>1, <1>2 DEF HolderInv, QueueInv
      <4>2. i \in 1..Len(plan[v]) /\ ~plan[v][i].w
        BY <4>1 DEF IInv, PlanInv, Types
      <4> QED BY <4>1, <4>2, <3>1, <1>4
    <3>2. CASE x # m
      <4>1. <<v, i>> \in rd[x]
        BY <3>2, <2>1
      <4>2. /\ i \in 1..Len(plan[v]) /\ ~plan[v][i].w /\ MuxOf(v, i) = x
            /\ Owns(v, i) \/ (i = got[v] + 1 /\ pc[v] = "rwait")
        BY <4>1 DEF HolderInv, ReaderInv
      <4>3. CASE Owns(v, i)
        <5>1. ~(v = t /\ i = k)
          BY <4>2, <1>5
        <5> QED BY <4>2, <4>3, <5>1, <1>3
      <4>4. CASE i = got[v] + 1 /\ pc[v] = "rwait"
        BY <4>2, <4>4, <1>4 DEF MuxOf
      <4> QED BY <4>2, <4>3, <4>4
    <3> QED BY <3>1, <3>2
  <2>5. QueueInv'
    <3> SUFFICES ASSUME NEW x \in Mux, NEW v \in Thread, NEW i \in Nat, <<v, i>> \in rq'[x]
                 PROVE  /\ i = got[v] + 1 /\ pc'[v] = "rwait" /\ cur'[v] = x
                        /\ wr'[x] # NoThread /\ <<v, i>> \notin rd'[x]
      BY <1>1 DEF QueueInv
    <3>1. x # m /\ <<v, i>> \in rq[x] /\ wr'[x] = wr[x] /\ rd'[x] = rd[x]
      BY <2>1
    <3>2. /\ i = got[v] + 1 /\ pc[v] = "rwait" /\ cur[v] = x
          /\ wr[x] # NoThread /\ <<v, i>> \notin rd[x]
      BY <3>1 DEF HolderInv, QueueInv
    <3> QED BY <3>1, <3>2, <1>4
  <2>6. WaiterInv'
    <3> SUFFICES ASSUME NEW u \in Thread, pc'[u] = "rwait"
                 PROVE  <<u, got[u] + 1>> \in rd'[cur'[u]] \cup rq'[cur'[u]]
      BY <1>1 DEF WaiterInv
    <3>1. pc[u] = "rwait" /\ cur'[u] = cur[u]
      BY <1>4
    <3>2. cur[u] \in Mux
      BY <3>1 DEF IInv, PointerInv, Types
    <3>3. <<u, got[u] + 1>> \in rd[cur[u]] \cup rq[cur[u]]
      BY <3>1 DEF HolderInv, WaiterInv
    <3> QED BY <3>1, <3>2, <3>3, <2>1, <2>2
  <2> QED BY <2>3, <2>4, <2>5, <2>6 DEF HolderInv
<1>6. CASE ~plan[t][k].w
  <2>1. /\ wr' = wr /\ rq' = rq
        /\ \A x \in Mux : rd'[x] = IF x = m THEN rd[m] \ {<<t, k>>} ELSE rd[x]
    BY <1>1, <1>6 DEF Types
  <2>2. \A x \in Mux : rd'[x] = rd[x] \ {<<t, k>>}
    <3>1. \A x \in Mux : x # m => <<t, k>> \notin rd[x]
      BY <1>2 DEF HolderInv, ReaderInv
    <3> QED BY <2>1, <3>1
  <2>3. WriterInv'
    <3> SUFFICES ASSUME NEW x \in Mux, NEW w \in Thread, wr[x] = w
                 PROVE  \E i \in 1..Len(plan[w]) : Writes(w, i)' /\ MuxOf(w, i)' = x
      BY <1>1, <2>1 DEF WriterInv
    <3>1. PICK i \in 1..Len(plan[w]) : Writes(w, i) /\ MuxOf(w, i) = x
      BY DEF HolderInv, WriterInv
    <3>2. ~(w = t /\ i = k)
      BY <3>1, <1>6 DEF Writes
    <3> QED BY <3>1, <3>2, <1>3
  <2>4. ReaderInv'
    <3> SUFFICES ASSUME NEW x \in Mux, NEW v \in Thread, NEW i \in Nat, <<v, i>> \in rd'[x]
                 PROVE  /\ i \in 1..Len(plan[v]) /\ ~plan[v][i].w /\ MuxOf(v, i)' = x
                        /\ Owns(v, i)' \/ (i = got[v] + 1 /\ pc'[v] = "rwait")
      BY <1>1 DEF ReaderInv
    <3>1. <<v, i>> \in rd[x] /\ ~(v = t /\ i = k)
      BY <2>2
    <3>2. /\ i \in 1..Len(plan[v]) /\ ~plan[v][i].w /\ MuxOf(v, i) = x
          /\ Owns(v, i) \/ (i = got[v] + 1 /\ pc[v] = "rwait")
      BY <3>1 DEF HolderInv, ReaderInv
    <3>3. CASE Owns(v, i)
      BY <3>1, <3>2, <3>3, <1>3
    <3>4. CASE i = got[v] + 1 /\ pc[v] = "rwait"
      BY <3>2, <3>4, <1>4 DEF MuxOf
    <3> QED BY <3>2, <3>3, <3>4
  <2>5. QueueInv'
    <3> SUFFICES ASSUME NEW x \in Mux, NEW v \in Thread, NEW i \in Nat, <<v, i>> \in rq[x]
                 PROVE  /\ i = got[v] + 1 /\ pc'[v] = "rwait" /\ cur'[v] = x
                        /\ wr[x] # NoThread /\ <<v, i>> \notin rd'[x]
      BY <1>1, <2>1 DEF QueueInv
    <3>1. /\ i = got[v] + 1 /\ pc[v] = "rwait" /\ cur[v] = x
          /\ wr[x] # NoThread /\ <<v, i>> \notin rd[x]
      BY DEF HolderInv, QueueInv
    <3> QED BY <3>1, <1>4, <2>2
  <2>6. WaiterInv'
    <3> SUFFICES ASSUME NEW u \in Thread, pc'[u] = "rwait"
                 PROVE  <<u, got[u] + 1>> \in rd'[cur'[u]] \cup rq[cur'[u]]
      BY <1>1, <2>1 DEF WaiterInv
    <3>1. pc[u] = "rwait" /\ cur'[u] = cur[u] /\ u # t
      BY <1>4
    <3>2. cur[u] \in Mux
      BY <3>1 DEF IInv, PointerInv, Types
    <3>3. <<u, got[u] + 1>> \in rd[cur[u]] \cup rq[cur[u]]
      BY <3>1 DEF HolderInv, WaiterInv
    <3>4. <<u, got[u] + 1>> # <<t, k>>
      BY <3>1
    <3> QED BY <3>1, <3>2, <3>3, <3>4, <2>2
  <2> QED BY <2>3, <2>4, <2>5, <2>6 DEF HolderInv
<1> QED BY <1>5, <1>6

\* Every step keeps the mutexes' records of their holders.
LEMMA NextHolder == IInv /\ HolderInv /\ [Next]_vars => HolderInv'
<1> SUFFICES ASSUME IInv, HolderInv, [Next]_vars PROVE HolderInv'
  OBVIOUS
<1>1. IInv'
  BY NextInv
<1>2. ASSUME NEW t \in Thread, Start(t) \/ Proceed(t)
      PROVE  HolderInv'
  BY <1>1, <1>2, StartHolder, RefHolder, LockWHolder, AcqWHolder, LockRHolder,
     QueueRHolder, AcqRHolder, LeaveHolder, UnrefHolder, UnlockHolder DEF Proceed
<1>3. CASE UNCHANGED vars
  <2>1. \A u \in Thread : \A i \in 1..Len(plan[u]) :
          /\ MuxOf(u, i)' = MuxOf(u, i)
          /\ Owns(u, i)' <=> Owns(u, i)
          /\ Writes(u, i)' <=> Writes(u, i)
    BY <1>3 DEF vars, MuxOf, Owns, Writes
  <2> QED BY <1>3, <2>1, HolderFrame DEF vars, IInv
<1> QED BY <1>2, <1>3 DEF Next

\* With RenamesApart every plan is ordered, whoever starts it.
LEMMA NextOrder ==
    ASSUME RenamesApart
    PROVE  Types /\ OrderInv /\ [Next]_vars => OrderInv'
<1> SUFFICES ASSUME Types, OrderInv, [Next]_vars PROVE OrderInv'
  OBVIOUS
<1>1. ASSUME NEW t \in Thread, Start(t)
      PROVE  OrderInv'
  <2>1. PICK r \in Requests : /\ renameAllowed(r[1], r[2])
                              /\ plan' = [plan EXCEPT ![t] = renameSteps(r[1], r[2])]
    BY <1>1 DEF Start
  <2>2. Ordered(renameSteps(r[1], r[2]))
    BY <2>1, RequestsOrdered
  <2>3. \A u \in Thread : plan'[u] = IF u = t THEN renameSteps(r[1], r[2]) ELSE plan[u]
    BY <2>1 DEF Types
  <2>4. ASSUME NEW u \in Thread PROVE Ordered(plan'[u])
    <3>1. CASE u = t
      BY <3>1, <2>2, <2>3
    <3>2. CASE u # t
      BY <3>2, <2>3 DEF OrderInv
    <3> QED BY <3>1, <3>2
  <2> QED BY <2>4 DEF OrderInv, Ordered
<1>2. ASSUME plan' = plan
      PROVE  OrderInv'
  BY <1>2 DEF OrderInv, Ordered
<1>3. ASSUME NEW t \in Thread, Proceed(t)
      PROVE  plan' = plan
  BY <1>3 DEF Proceed, Ref, LockW, AcqW, LockR, QueueR, AcqR, Leave, Unref, Unlock
<1> QED BY <1>1, <1>2, <1>3 DEF Next, vars

-----------------------------------------------------------------------------
(* Nobody waits in a circle *)

\* The key at which a thread waits.
Awaited(t) == plan[t][got[t] + 1].path

\* What a blocked thread of a state without a way out waits for: at a
\* contended key, for another thread blocked at a greater one.
LEMMA WaitsForGreater ==
    ASSUME IInv, HolderInv, OrderInv, NEW t \in Thread, pc[t] # "idle",
           \A u \in Thread : pc[u] # "idle" => Blocked(u)
    PROVE  /\ Awaited(t) \in Written
           /\ \E v \in Thread : pc[v] # "idle" /\ Rank[Awaited(t)] < Rank[Awaited(v)]
<1> DEFINE Waiting(u) ==
      /\ pc[u] \in {"lock", "ann", "rwait"} /\ got[u] \in Nat
      /\ got[u] + 1 \in 1..Len(plan[u])
      /\ Awaited(u) \in Path /\ cur[u] \in Mux /\ cur[u] = pathmap[Awaited(u)]
<1>0. \A u \in Thread : \A i \in 1..Len(plan[u]) : plan[u][i].path \in Path
  <2>1. \A u \in Thread : \A i \in 1..Len(plan[u]) : plan[u][i] \in Step
    BY DEF IInv, Types
  <2> QED BY <2>1 DEF Step
<1>1. ASSUME NEW u \in Thread, pc[u] # "idle"
      PROVE  Blocked(u) /\ Waiting(u)
  <2>1. Blocked(u)
    BY <1>1
  <2>2. pc[u] \in {"lock", "ann", "rwait"} /\ got[u] \in Nat /\ got[u] < Len(plan[u])
    BY <2>1 DEF Blocked, IInv, PlanInv, Types
  <2>3. got[u] + 1 \in 1..Len(plan[u])
    BY <2>2 DEF IInv, Types
  <2>4. Awaited(u) \in Path
    BY <2>3, <1>0 DEF Awaited
  <2>5. cur[u] \in Mux /\ cur[u] = pathmap[Awaited(u)]
    BY <2>2 DEF IInv, PointerInv, Types, Awaited
  <2> QED BY <2>1, <2>2, <2>3, <2>4, <2>5
\* A position that holds or claims m, the mutex of key p, is a lock of p.
<1>2. ASSUME NEW p \in Path, NEW u \in Thread, NEW i \in 1..Len(plan[u]),
             Owns(u, i) \/ Writes(u, i), MuxOf(u, i) = pathmap[p], pathmap[p] \in Mux
      PROVE  /\ pc[u] # "idle"
             /\ plan[u][i].path = p
             /\ i \in 1..got[u] \/ (i = got[u] + 1 /\ pc[u] = "ann")
  <2>1. pc[u] # "idle"
    BY <1>2 DEF Owns, Writes, IInv, PlanInv, Types
  <2>2. Waiting(u)
    BY <2>1, <1>1
  <2>3. i \in 1..got[u] \/ (i = got[u] + 1 /\ pc[u] = "ann")
    BY <2>2, <1>2 DEF Owns, Writes
  <2>4. MuxOf(u, i) = pathmap[plan[u][i].path] /\ plan[u][i].path \in Path
    BY <2>2, <2>3, <1>0 DEF MuxOf, Awaited
  <2>5. plan[u][i].path = p
    <3>1. \A x, y \in Path : pathmap[x] = pathmap[y] /\ pathmap[x] # NoMux => x = y
      BY DEF IInv, PointerInv
    <3>2. pathmap[p] # NoMux
      BY <1>2, NilAssumption
    <3> QED BY <1>2, <2>4, <3>1, <3>2
  <2> QED BY <2>1, <2>3, <2>5
<1>3. ASSUME NEW u \in Thread, pc[u] # "idle", pc[u] # "ann"
      PROVE  /\ wr[cur[u]] \in Thread
             /\ \E i \in 1..Len(plan[wr[cur[u]]]) :
                    Writes(wr[cur[u]], i) /\ MuxOf(wr[cur[u]], i) = cur[u]
  <2>1. Blocked(u) /\ Waiting(u)
    BY <1>1, <1>3
  <2>2. wr[cur[u]] # NoThread
    <3>1. CASE pc[u] = "lock"
      BY <3>1, <2>1 DEF Blocked
    <3>2. CASE pc[u] = "rwait"
      <4>1. <<u, got[u] + 1>> \in rq[cur[u]]
        BY <3>2, <2>1 DEF Blocked, HolderInv, WaiterInv
      <4> QED BY <4>1, <2>1 DEF HolderInv, QueueInv
    <3> QED BY <3>1, <3>2, <2>1, <1>3
  <2>3. wr[cur[u]] \in Thread
    BY <2>1, <2>2 DEF IInv, Types
  <2> QED BY <2>1, <2>3 DEF HolderInv, WriterInv
<1>4. ASSUME NEW u \in Thread, pc[u] # "idle"
      PROVE  Awaited(u) \in Written
  <2>1. Waiting(u) /\ Blocked(u) /\ Ordered(plan[u])
    BY <1>1, <1>4 DEF OrderInv
  <2>2. CASE plan[u][got[u] + 1].w
    BY <2>1, <2>2 DEF Ordered, Awaited
  <2>3. CASE ~plan[u][got[u] + 1].w
    <3>1. pc[u] # "ann"
      BY <2>1, <2>3 DEF IInv, PlanInv
    <3> DEFINE w == wr[cur[u]]
    <3>2. PICK i \in 1..Len(plan[w]) : w \in Thread /\ Writes(w, i) /\ MuxOf(w, i) = cur[u]
      BY <3>1, <1>3, <1>4
    <3>3. plan[w][i].path = Awaited(u) /\ plan[w][i].w
      BY <3>2, <2>1, <1>2 DEF Writes
    <3>4. Ordered(plan[w])
      BY <3>2 DEF OrderInv
    <3> QED BY <3>3, <3>4 DEF Ordered
  <2> QED BY <2>2, <2>3
\* A thread that has a key already waits at a greater one.
<1>5. ASSUME NEW u \in Thread, pc[u] # "idle", NEW i \in 1..got[u],
             plan[u][i].path \in Written
      PROVE  Rank[plan[u][i].path] < Rank[Awaited(u)]
  <2>1. Waiting(u) /\ Awaited(u) \in Written /\ Ordered(plan[u])
    BY <1>1, <1>4, <1>5 DEF OrderInv
  <2>2. i \in 1..Len(plan[u]) /\ i < got[u] + 1
    BY <2>1
  <2> QED BY <2>1, <2>2, <1>5 DEF Ordered, Awaited
\* An announced writer waits for a reader that has the key.
<1>6. ASSUME NEW u \in Thread, pc[u] = "ann"
      PROVE  \E v \in Thread : pc[v] # "idle" /\ Rank[Awaited(u)] < Rank[Awaited(v)]
  <2>1. Blocked(u) /\ Waiting(u) /\ Awaited(u) \in Written
    BY <1>1, <1>4, <1>6
  <2>2. rd[cur[u]] # {} /\ rd[cur[u]] \subseteq Thread \X (Nat \ {0})
    BY <2>1, <1>6 DEF Blocked, IInv, Types
  <2>3. PICK v \in Thread, i \in Nat \ {0} : <<v, i>> \in rd[cur[u]]
    BY <2>2
  <2>4. /\ i \in 1..Len(plan[v]) /\ MuxOf(v, i) = cur[u] /\ ~plan[v][i].w
        /\ Owns(v, i) \/ (i = got[v] + 1 /\ pc[v] = "rwait")
    BY <2>1, <2>3 DEF HolderInv, ReaderInv
  <2>5. Owns(v, i)
    <3>1. ASSUME i = got[v] + 1, pc[v] = "rwait" PROVE FALSE
      <4>1. Blocked(v) /\ cur[v] = cur[u]
        BY <3>1, <2>4, <1>1 DEF MuxOf
      <4> QED BY <4>1, <3>1, <2>3 DEF Blocked
    <3> QED BY <3>1, <2>4
  <2>6. /\ pc[v] # "idle" /\ plan[v][i].path = Awaited(u)
        /\ i \in 1..got[v] \/ (i = got[v] + 1 /\ pc[v] = "ann")
    BY <2>1, <2>4, <2>5, <1>2
  <2>7. i \in 1..got[v]
    BY <2>4, <2>6 DEF IInv, PlanInv
  <2> QED BY <2>1, <2>6, <2>7, <1>5
<1>7. \E v \in Thread : pc[v] # "idle" /\ Rank[Awaited(t)] < Rank[Awaited(v)]
  <2>1. CASE pc[t] = "ann"
    BY <2>1, <1>6
  <2>2. CASE pc[t] # "ann"
    <3>1. Waiting(t) /\ Awaited(t) \in Written
      BY <1>1, <1>4
    <3> DEFINE w == wr[cur[t]]
    <3>2. PICK i \in 1..Len(plan[w]) : w \in Thread /\ Writes(w, i) /\ MuxOf(w, i) = cur[t]
      BY <2>2, <1>3
    <3>3. /\ pc[w] # "idle" /\ plan[w][i].path = Awaited(t)
          /\ i \in 1..got[w] \/ (i = got[w] + 1 /\ pc[w] = "ann")
      BY <3>1, <3>2, <1>2
    <3> HIDE DEF w
    <3>4. CASE i \in 1..got[w]
      BY <3>1, <3>2, <3>3, <3>4, <1>5
    <3>5. CASE i = got[w] + 1 /\ pc[w] = "ann"
      <4>1. Awaited(w) = Awaited(t)
        BY <3>3, <3>5 DEF Awaited
      <4> QED BY <4>1, <3>2, <3>5, <1>6
    <3> QED BY <3>3, <3>4, <3>5
  <2> QED BY <2>1, <2>2
<1> QED BY <1>4, <1>7

\* In a finite range of keys that cannot go on forever.
LEMMA NoCircle ==
    ASSUME NEW N \in Nat, \A p \in Path : Rank[p] <= N
    PROVE  IInv /\ HolderInv /\ OrderInv => DeadlockFree
<1> SUFFICES ASSUME IInv, HolderInv, OrderInv, ~DeadlockFree
             PROVE  FALSE
  OBVIOUS
<1> DEFINE Active == {t \in Thread : pc[t] # "idle"}
           S == {Rank[Awaited(t)] : t \in Active}
<1>1. Active # {} /\ \A u \in Thread : pc[u] # "idle" => Blocked(u)
  BY DEF DeadlockFree
<1>2. ASSUME NEW t \in Active
      PROVE  /\ Awaited(t) \in Path
             /\ \E v \in Active : Rank[Awaited(t)] < Rank[Awaited(v)]
  BY <1>1, WaitsForGreater DEF Written
<1>3. S \subseteq Nat /\ S # {} /\ \A s \in S : s <= N
  BY <1>1, <1>2, RankAssumption
<1> HIDE DEF Active
<1>4. PICK m \in S : \A s \in S : s <= m
  <2> HIDE DEF S
  <2> QED BY <1>3, Greatest
<1>5. PICK t \in Active : m = Rank[Awaited(t)]
  BY <1>4
<1>6. PICK v \in Active : Rank[Awaited(t)] < Rank[Awaited(v)]
  BY <1>2
<1>7. Rank[Awaited(v)] <= m /\ Rank[Awaited(v)] \in Nat /\ m \in Nat
  BY <1>3, <1>4
<1> QED BY <1>5, <1>6, <1>7

\* The path lock is free of deadlocks, for any number of threads and any tree
\* whose keys are bounded, when no request locks for writing a directory above
\* a path that is being renamed; requests that lock one path each are free to
\* lock any.
THEOREM DeadlockFreedom ==
    ASSUME NEW N \in Nat, \A p \in Path : Rank[p] <= N, RenamesApart
    PROVE  Spec => []DeadlockFree
<1> DEFINE Inv == IInv /\ HolderInv /\ OrderInv
<1>1. Init => Inv
  BY InitInv, InitHolder
<1>2. Inv /\ [Next]_vars => Inv'
  <2>1. IInv => Types
    BY DEF IInv
  <2> QED BY <2>1, NextInv, NextHolder, NextOrder
<1>3. Inv => DeadlockFree
  BY NoCircle
<1> HIDE DEF Inv
<1> QED BY <1>1, <1>2, <1>3, PTL DEF Spec
=============================================================================
