--------------------------- MODULE PresenceProofs ---------------------------
(***************************************************************************)
(* pathPresenceCache keeps its map and its list in step, stays within its  *)
(* limit, drops the oldest item, and implements its abstract specification *)
(* Presence, for every set of keys, timeout and limit.                     *)
(***************************************************************************)
EXTENDS PresenceCache, FiniteSetTheorems, LinkProofs

\* The part of the state the refinement depends on.
MapType == presmap \in [Key -> Nat \cup {None}] /\ now \in Nat

\* Every operation keeps the map's type.
LEMMA MapTypeInv == Spec => []MapType
<1>1. Init => MapType BY DEF Init, MapType
<1>2. MapType /\ [Next]_vars => MapType'
  <2> SUFFICES ASSUME MapType, [Next]_vars PROVE MapType' OBVIOUS
  <2>1. ASSUME NEW k \in Key, hasPath(k) PROVE MapType'
    BY <2>1 DEF hasPath, MapType
  <2>2. ASSUME NEW k \in Key, addPath(k) PROVE MapType'
    BY <2>2 DEF addPath, MapType
  <2>3. ASSUME NEW k \in Key, removePath(k) PROVE MapType'
    BY <2>3 DEF removePath, MapType
  <2>4. ASSUME NEW k \in Key, removeAllPath(k) PROVE MapType'
    BY <2>4 DEF removeAllPath, MapType
  <2>5. CASE tick BY <2>5 DEF tick, MapType
  <2>6. CASE UNCHANGED vars BY <2>6 DEF vars, MapType
  <2> QED BY <2>1, <2>2, <2>3, <2>4, <2>5, <2>6 DEF Next
<1> QED BY <1>1, <1>2, PTL DEF Spec

\* An empty presence cache is an empty set of keys.
LEMMA InitRefines == Init => P!Init
BY DEF Init, P!Init, Keys

\* hasPath either answers for a key that is in the map, or drops it.
LEMMA HasRefines ==
    ASSUME MapType, NEW k \in Key, hasPath(k)
    PROVE  P!Has(k)
<1>1. CASE Expired(k)
  BY <1>1, PresenceAssumption DEF hasPath, P!Has, Keys, MapType
<1>2. CASE ~Expired(k)
  BY <1>2, PresenceAssumption DEF hasPath, P!Has, Keys, MapType
<1> QED BY <1>1, <1>2

\* addPath adds its key and forgets at most the one that makes room.
LEMMA AddRefines ==
    ASSUME MapType, NEW k \in Key, addPath(k)
    PROVE  P!Add(k)
<1> DEFINE F == (Keys \cap Victims(k)) \ {k}
<1>1. Keys' = (Keys \ F) \cup {k}
  BY PresenceAssumption DEF addPath, Keys, MapType
<1>2. F \in SUBSET Keys BY DEF Keys
<1>3. call' = <<"add", k>> BY DEF addPath
<1> QED BY <1>1, <1>2, <1>3 DEF P!Add

\* removePath, removeAllPath and the clock.
LEMMA RestRefines ==
    ASSUME MapType
    PROVE  /\ \A k \in Key : removePath(k) => P!Remove(k)
           /\ \A k \in Key : removeAllPath(k) => P!RemoveAll(k)
           /\ tick \/ UNCHANGED vars => UNCHANGED P!vars
<1>1. ASSUME NEW k \in Key, removePath(k) PROVE P!Remove(k)
  BY <1>1 DEF removePath, P!Remove, Keys, MapType
<1>2. ASSUME NEW k \in Key, removeAllPath(k) PROVE P!RemoveAll(k)
  BY <1>2 DEF removeAllPath, P!RemoveAll, Keys
<1>3. ASSUME tick \/ UNCHANGED vars PROVE UNCHANGED P!vars
  BY <1>3 DEF tick, vars, P!vars, Keys
<1> QED BY <1>1, <1>2, <1>3

\* The presence cache of cache.go never claims a path key that was not added,
\* or that was removed since it was added last.
THEOREM PresenceCacheRefines == Spec => Refines
<1>1. MapType /\ [Next]_vars => [P!Next]_(P!vars)
  <2> SUFFICES ASSUME MapType, [Next]_vars PROVE [P!Next]_(P!vars) OBVIOUS
  <2>1. ASSUME NEW k \in Key, hasPath(k) PROVE P!Next
    BY <2>1, HasRefines DEF P!Next
  <2>2. ASSUME NEW k \in Key, addPath(k) PROVE P!Next
    BY <2>2, AddRefines DEF P!Next
  <2>3. ASSUME NEW k \in Key, removePath(k) PROVE P!Next
    BY <2>3, RestRefines DEF P!Next
  <2>4. ASSUME NEW k \in Key, removeAllPath(k) PROVE P!Next
    BY <2>4, RestRefines DEF P!Next
  <2>5. CASE tick \/ UNCHANGED vars BY <2>5, RestRefines
  <2> QED BY <2>1, <2>2, <2>3, <2>4, <2>5 DEF Next
<1> QED BY <1>1, InitRefines, MapTypeInv, PTL DEF Spec, P!Spec, Refines

-----------------------------------------------------------------------------
(* Map and list *)

\* The inductive invariant: the list holds every key of the map once, in the order
\* of the times at which they were added.
ListInv ==
    /\ TypeOK /\ Bounded /\ OldestFirst
    /\ Distinct(preslst)
    /\ IsFiniteSet(Keys)
    /\ \A k \in Keys : presmap[k] <= now

\* Taking the item of key k out of the map and out of the list.
LEMMA DropKeepsInv ==
    ASSUME ListInv, NEW k \in Key,
           presmap' = [presmap EXCEPT ![k] = None],
           preslst' = Without(preslst, k),
           call' # <<>> => call'[2] \in Key,
           UNCHANGED <<pathTimeout, pathMaxCount, now>>
    PROVE  ListInv'
<1> USE PresenceAssumption
<1>1. /\ presmap \in [Key -> Nat \cup {None}] /\ preslst \in Seq(Key) /\ now \in Nat
      /\ pathMaxCount \in Nat
  BY DEF ListInv, TypeOK
<1>2. Keys' = Keys \ {k}
  BY <1>1 DEF Keys
<1>3. /\ preslst' \in Seq(Key) /\ Distinct(preslst') /\ Elems(preslst') = Elems(preslst) \ {k}
      /\ \A m, n \in DOMAIN preslst' : m < n =>
            \E a, b \in DOMAIN preslst :
                a < b /\ preslst[a] = preslst'[m] /\ preslst[b] = preslst'[n]
  BY <1>1, WithoutProps DEF ListInv
<1>4. TypeOK'
  BY <1>1, <1>3 DEF ListInv, TypeOK
<1>5. IsFiniteSet(Keys') /\ Cardinality(Keys') <= Cardinality(Keys)
  BY <1>2, FS_RemoveElement, FS_CardinalityType, FS_Subset DEF ListInv
<1>6. Len(preslst') = Cardinality(Keys')
  <2>1. CASE k \in Keys
    <3>1. Cardinality(Keys') = Cardinality(Keys) - 1
      BY <2>1, <1>2, FS_RemoveElement DEF ListInv
    <3>2. k \in Elems(preslst)
      BY <2>1 DEF ListInv, Bounded
    <3>4. Len(preslst') = Len(preslst) - 1
      BY <3>2, <1>1, WithoutProps DEF ListInv
    <3> QED BY <3>1, <3>4 DEF ListInv, Bounded
  <2>2. CASE k \notin Keys
    <3>1. Keys' = Keys
      BY <2>2, <1>2
    <3>2. preslst' = preslst
      BY <2>2 DEF ListInv, Bounded, Without
    <3> QED BY <3>1, <3>2 DEF ListInv, Bounded
  <2> QED BY <2>1, <2>2
<1>7. Bounded'
  BY <1>1, <1>2, <1>3, <1>5, <1>6, FS_CardinalityType DEF ListInv, Bounded
<1>8. OldestFirst'
  <2> SUFFICES ASSUME NEW m \in DOMAIN preslst', NEW n \in DOMAIN preslst', m < n
               PROVE  presmap'[preslst'[m]] <= presmap'[preslst'[n]]
    BY DEF OldestFirst
  <2>1. PICK a, b \in DOMAIN preslst :
            a < b /\ preslst[a] = preslst'[m] /\ preslst[b] = preslst'[n]
    BY <1>3
  <2>2. presmap[preslst[a]] <= presmap[preslst[b]]
    BY <2>1 DEF ListInv, OldestFirst
  <2>3. preslst'[m] \in Elems(preslst') /\ preslst'[n] \in Elems(preslst')
    BY DEF Elems
  <2>4. preslst'[m] \in Key \ {k} /\ preslst'[n] \in Key \ {k}
    BY <2>3, <1>3 DEF ListInv, Bounded, Keys
  <2> QED BY <2>1, <2>2, <2>4, <1>1
<1>9. \A j \in Keys' : presmap'[j] <= now'
  BY <1>1, <1>2 DEF ListInv, Keys
<1> QED BY <1>3, <1>4, <1>5, <1>7, <1>8, <1>9 DEF ListInv

\* addPath when the key has an item, or when an item has made room for it, and the
\* rest of the list is what is left.
LEMMA AddKeepsInv ==
    ASSUME ListInv, NEW k \in Key, addPath(k)
    PROVE  ListInv'
<1> USE PresenceAssumption
<1> DEFINE r == Rest(k)
           V == Victims(k)
<1>1. /\ presmap \in [Key -> Nat \cup {None}] /\ preslst \in Seq(Key) /\ now \in Nat
      /\ pathMaxCount \in Nat \ {0} /\ Distinct(preslst) /\ Elems(preslst) = Keys
      /\ IsFiniteSet(Keys) /\ Cardinality(Keys) \in Nat
      /\ Cardinality(Keys) <= pathMaxCount /\ Len(preslst) = Cardinality(Keys)
  BY FS_CardinalityType DEF ListInv, TypeOK, Bounded
<1>2. V \subseteq Keys \ {k} /\ (presmap[k] # None => V = {})
  <2>1. CASE V = {}
    BY <2>1
  <2>2. CASE V # {}
    <3>1. presmap[k] = None /\ preslst # <<>> /\ V = {Head(preslst)}
      BY <2>2 DEF Victims
    <3>2. Head(preslst) \in Keys
      BY <3>1, <1>1, TailProps
    <3> QED BY <3>1, <3>2 DEF Keys
  <2> QED BY <2>1, <2>2
<1>3. /\ r \in Seq(Key) /\ Distinct(r) /\ Elems(r) = Keys \ (V \cup {k})
      /\ \A m, n \in DOMAIN r : m < n =>
            \E a, b \in DOMAIN preslst : a < b /\ preslst[a] = r[m] /\ preslst[b] = r[n]
  <2>1. CASE presmap[k] # None
    <3>1. r = Without(preslst, k) /\ Elems(preslst) \ {k} = Keys \ (V \cup {k})
      BY <2>1, <1>1, <1>2 DEF Rest
    <3> DEFINE w == Without(preslst, k)
    <3>2. /\ w \in Seq(Key) /\ Distinct(w) /\ Elems(w) = Elems(preslst) \ {k}
          /\ \A m, n \in DOMAIN w : m < n =>
                \E a, b \in DOMAIN preslst : a < b /\ preslst[a] = w[m] /\ preslst[b] = w[n]
      <4> HIDE DEF r, V
      <4>1. preslst \in Seq(Key) /\ Distinct(preslst)
        BY <1>1
      <4> QED BY <4>1, WithoutProps
    <3> HIDE DEF r, V, w
    <3>3. r = w
      BY <3>1 DEF w
    <3> QED BY <3>1, <3>2, <3>3
  <2>2. CASE presmap[k] = None /\ V # {}
    <3>1. r = Tail(preslst) /\ preslst # <<>> /\ V = {Head(preslst)} /\ k \notin Keys
      BY <2>2 DEF Rest, Victims, Keys
    <3>2. /\ r \in Seq(Key) /\ Distinct(r) /\ Elems(r) = Keys \ V
          /\ DOMAIN r = 1..Len(preslst) - 1
          /\ \A m \in 1..Len(preslst) - 1 :
                m + 1 \in DOMAIN preslst /\ r[m] = preslst[m + 1]
      BY <3>1, <1>1, TailProps
    <3>3. ASSUME NEW m \in DOMAIN r, NEW n \in DOMAIN r, m < n
          PROVE  \E a, b \in DOMAIN preslst : a < b /\ preslst[a] = r[m] /\ preslst[b] = r[n]
      <4>1. m + 1 < n + 1 /\ m + 1 \in DOMAIN preslst /\ n + 1 \in DOMAIN preslst
        BY <3>2, <3>3, <1>1
      <4> QED BY <4>1, <3>2
    <3> QED BY <3>1, <3>2, <3>3
  <2>3. CASE presmap[k] = None /\ V = {}
    <3>1. r = preslst /\ k \notin Keys
      BY <2>3 DEF Rest, Keys
    <3> QED BY <3>1, <2>3, <1>1
  <2> QED BY <2>1, <2>2, <2>3
<1>4. preslst' = InsertTail(r, k) /\ now' = now /\ pathMaxCount' = pathMaxCount
  BY DEF addPath
<1>5. \A j \in Key : presmap'[j] = IF j = k THEN now ELSE IF j \in V THEN None ELSE presmap[j]
  BY DEF addPath
<1>6. Keys' = (Keys \ (V \cup {k})) \cup {k}
  BY <1>1, <1>5 DEF Keys
<1> HIDE DEF r, V
<1>7. /\ preslst' \in Seq(Key) /\ Distinct(preslst') /\ Elems(preslst') = Keys'
      /\ Len(preslst') = Len(r) + 1 /\ preslst'[Len(r) + 1] = k
      /\ \A m \in DOMAIN r : preslst'[m] = r[m]
  BY <1>3, <1>4, <1>6, InsertTailProps
<1>8. TypeOK'
  BY <1>1, <1>7 DEF addPath, ListInv, TypeOK
<1>9. IsFiniteSet(Keys') /\ Cardinality(Keys') <= pathMaxCount /\ Len(preslst') = Cardinality(Keys')
  <2>1. CASE presmap[k] # None
    <3>1. V = {} /\ k \in Keys /\ Keys' = Keys
      BY <2>1, <1>2, <1>6 DEF Keys
    <3>2. Len(r) = Len(preslst) - 1
      BY <3>1, <2>1, <1>1, WithoutProps DEF Rest, r
    <3> QED BY <3>1, <3>2, <1>1, <1>7
  <2>2. CASE presmap[k] = None /\ V # {}
    <3>1. /\ preslst # <<>> /\ V = {Head(preslst)} /\ r = Tail(preslst)
          /\ k \notin Keys /\ Head(preslst) \in Keys
      BY <2>2, <1>2 DEF Victims, V, Rest, r, Keys
    <3>2. IsFiniteSet(Keys \ V) /\ Cardinality(Keys \ V) = Cardinality(Keys) - 1
      BY <3>1, <1>1, FS_RemoveElement
    <3>3. Keys' = (Keys \ V) \cup {k} /\ k \notin Keys \ V
      BY <3>1, <1>6
    <3>4. IsFiniteSet(Keys') /\ Cardinality(Keys') = Cardinality(Keys \ V) + 1
      BY <3>2, <3>3, FS_AddElement
    <3>5. Len(r) = Len(preslst) - 1
      BY <3>1, <1>1
    <3> QED BY <3>2, <3>4, <3>5, <1>1, <1>7
  <2>3. CASE presmap[k] = None /\ V = {}
    <3>1. r = preslst /\ k \notin Keys /\ Keys' = Keys \cup {k}
      BY <2>3, <1>6 DEF Rest, r, V, Keys
    <3>2. IsFiniteSet(Keys') /\ Cardinality(Keys') = Cardinality(Keys) + 1
      BY <3>1, <1>1, FS_AddElement
    <3>3. Cardinality(Keys) < pathMaxCount
      <4>1. CASE preslst = <<>>
        BY <4>1, <1>1
      <4>2. CASE preslst # <<>>
        BY <4>2, <2>3, <1>1 DEF Victims, V
      <4> QED BY <4>1, <4>2
    <3> QED BY <3>1, <3>2, <3>3, <1>1, <1>7
  <2> QED BY <2>1, <2>2, <2>3
<1>10. Bounded'
  BY <1>4, <1>7, <1>9 DEF Bounded
<1>11. \A j \in Keys' : presmap'[j] <= now'
  BY <1>1, <1>4, <1>5, <1>6 DEF ListInv, Keys
<1>12. OldestFirst'
  <2> SUFFICES ASSUME NEW m \in DOMAIN preslst', NEW n \in DOMAIN preslst', m < n
               PROVE  presmap'[preslst'[m]] <= presmap'[preslst'[n]]
    BY DEF OldestFirst
  <2>1. DOMAIN preslst' = 1..Len(r) + 1 /\ DOMAIN r = 1..Len(r) /\ Len(r) \in Nat
    BY <1>3, <1>7
  <2>2. m \in DOMAIN r /\ preslst'[m] = r[m] /\ r[m] \in Elems(r)
    BY <2>1, <1>7 DEF Elems
  <2>3. r[m] \in Key /\ presmap'[r[m]] = presmap[r[m]] /\ presmap[r[m]] \in Nat
            /\ presmap[r[m]] <= now
    BY <2>2, <1>1, <1>3, <1>5 DEF Keys, ListInv
  <2>4. CASE n = Len(r) + 1
    <3>1. presmap'[preslst'[n]] = now
      BY <2>4, <1>5, <1>7
    <3> QED BY <3>1, <2>2, <2>3
  <2>5. CASE n # Len(r) + 1
    <3>1. n \in DOMAIN r /\ preslst'[n] = r[n] /\ r[n] \in Elems(r)
      BY <2>1, <2>5, <1>7 DEF Elems
    <3>2. r[n] \in Key /\ presmap'[r[n]] = presmap[r[n]]
      BY <3>1, <1>3, <1>5 DEF Keys
    <3>3. presmap[r[m]] <= presmap[r[n]]
      BY <2>2, <3>1, <1>3 DEF ListInv, OldestFirst
    <3> QED BY <2>2, <2>3, <3>1, <3>2, <3>3
  <2> QED BY <2>4, <2>5
<1> QED BY <1>7, <1>8, <1>9, <1>10, <1>11, <1>12 DEF ListInv

\* The list invariant holds throughout.
LEMMA ListInvariant == Spec => []ListInv
<1> USE PresenceAssumption
<1>1. Init => ListInv
  <2> SUFFICES ASSUME Init PROVE ListInv OBVIOUS
  <2>1. Keys = {} /\ Elems(preslst) = {} /\ DOMAIN preslst = {} /\ Len(preslst) = 0
    BY DEF Init, Keys, Elems
  <2>2. IsFiniteSet(Keys) /\ Cardinality(Keys) = 0
    BY <2>1, FS_EmptySet
  <2>3. pathMaxCount \in Nat
    BY DEF Init
  <2> QED BY <2>1, <2>2, <2>3 DEF Init, ListInv, TypeOK, Bounded, OldestFirst, Distinct
<1>2. ListInv /\ [Next]_vars => ListInv'
  <2> SUFFICES ASSUME ListInv, [Next]_vars PROVE ListInv' OBVIOUS
  <2>1. ASSUME NEW k \in Key, hasPath(k) PROVE ListInv'
    <3>1. CASE Expired(k)
      BY <2>1, <3>1, DropKeepsInv DEF hasPath
    <3>2. CASE ~Expired(k)
      <4>1. UNCHANGED <<presmap, preslst, pathTimeout, pathMaxCount, now>> /\ call'[2] = k
        BY <2>1, <3>2 DEF hasPath
      <4> QED BY <4>1 DEF ListInv, TypeOK, Bounded, OldestFirst, Keys, Distinct, Elems
    <3> QED BY <3>1, <3>2
  <2>2. ASSUME NEW k \in Key, addPath(k) PROVE ListInv'
    BY <2>2, AddKeepsInv
  <2>3. ASSUME NEW k \in Key, removePath(k) PROVE ListInv'
    BY <2>3, DropKeepsInv DEF removePath
  <2>4. ASSUME NEW k \in Key, removeAllPath(k) PROVE ListInv'
    <3>1. Keys' = {} /\ Elems(preslst') = {} /\ DOMAIN preslst' = {} /\ Len(preslst') = 0
      BY <2>4 DEF removeAllPath, Keys, Elems
    <3>2. IsFiniteSet(Keys') /\ Cardinality(Keys') = 0
      BY <3>1, FS_EmptySet
    <3>3. TypeOK' /\ pathMaxCount' \in Nat
      BY <2>4 DEF removeAllPath, ListInv, TypeOK
    <3> QED BY <3>1, <3>2, <3>3 DEF ListInv, Bounded, OldestFirst, Distinct
  <2>5. CASE tick
    <3>1. /\ UNCHANGED <<presmap, preslst, pathTimeout, pathMaxCount, call>>
          /\ now \in Nat /\ now' = now + 1 /\ presmap \in [Key -> Nat \cup {None}]
      BY <2>5 DEF tick, ListInv, TypeOK
    <3>2. Keys' = Keys /\ Elems(preslst') = Elems(preslst)
      BY <3>1 DEF Keys, Elems
    <3>3. \A k \in Keys' : presmap'[k] <= now'
      BY <3>1, <3>2 DEF ListInv, Keys
    <3>4. TypeOK'
      BY <3>1 DEF ListInv, TypeOK
    <3>5. Bounded' /\ OldestFirst'
      BY <3>1, <3>2 DEF ListInv, Bounded, OldestFirst
    <3>6. Distinct(preslst') /\ IsFiniteSet(Keys')
      BY <3>1, <3>2 DEF ListInv
    <3> QED BY <3>3, <3>4, <3>5, <3>6 DEF ListInv
  <2>6. CASE UNCHANGED vars
    BY <2>6 DEF vars, ListInv, TypeOK, Bounded, OldestFirst, Keys, Distinct, Elems
  <2> QED BY <2>1, <2>2, <2>3, <2>4, <2>5, <2>6 DEF Next
<1> QED BY <1>1, <1>2, PTL DEF Spec

\* Types of map, list and clock.
THEOREM TypeCorrect == Spec => []TypeOK
BY ListInvariant, PTL DEF ListInv

\* addPath keeps to pathMaxCount, and map and list hold the same keys.
THEOREM LimitKept == Spec => []Bounded
BY ListInvariant, PTL DEF ListInv

\* The item at the head of the list, which makes room for a new one, is the one
\* that was added longest ago.
THEOREM DropsOldest == Spec => []OldestFirst
BY ListInvariant, PTL DEF ListInv
=============================================================================
