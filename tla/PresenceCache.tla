--------------------------- MODULE PresenceCache ----------------------------
(***************************************************************************)
(* pathPresenceCache of cache/cache.go: a map and a list of the path keys  *)
(* that are known to be present (or absent), with a time to live and a     *)
(* maximal number.  Every operation runs under presmux and is one step.    *)
(***************************************************************************)
EXTENDS Naturals, Sequences, FiniteSets, Link

CONSTANTS
    Key,        \* path keys
    None,       \* no item in the map
    Timeouts,   \* values of pathTimeout
    MaxCounts,  \* values of pathMaxCount
    MaxTime     \* bound: the clock stops here

ASSUME PresenceAssumption ==
    /\ None \notin Nat
    /\ Timeouts \subseteq Nat \ {0} /\ MaxCounts \subseteq Nat \ {0}   \* OpenCache's defaults
    /\ MaxTime \in Nat

VARIABLES
    pathTimeout, pathMaxCount,
    presmap,    \* the atime of every item, None for a key without one
    preslst,    \* the keys of the items in list order
    now,        \* time.Now()
    call        \* the last call: its name, its key and its answer

vars == <<pathTimeout, pathMaxCount, presmap, preslst, now, call>>

Keys == {k \in Key : presmap[k] # None}

\* newPathPresenceCache
Init ==
    /\ pathTimeout \in Timeouts
    /\ pathMaxCount \in MaxCounts
    /\ presmap = [k \in Key |-> None]
    /\ preslst = <<>>
    /\ now = 0
    /\ call = <<>>

\* The item of k was added longer than pathTimeout ago.
Expired(k) == presmap[k] # None /\ presmap[k] + pathTimeout < now

\* hasPath drops an item that has expired.
hasPath(k) ==
    /\ call' = <<"has", k, presmap[k] # None /\ ~Expired(k)>>
    /\ \/ /\ Expired(k)
          /\ presmap' = [presmap EXCEPT ![k] = None]
          /\ preslst' = Without(preslst, k)
       \/ ~Expired(k) /\ UNCHANGED <<presmap, preslst>>
    /\ UNCHANGED <<pathTimeout, pathMaxCount, now>>

\* Mutant: the limit is noticed one item too late.
VictimsLate(k) ==
    IF presmap[k] = None /\ pathMaxCount < Cardinality(Keys) /\ preslst # <<>>
    THEN {Head(preslst)} ELSE {}

\* The item that makes room for a new one: the head of the list.
Victims(k) ==
    IF presmap[k] = None /\ pathMaxCount <= Cardinality(Keys) /\ preslst # <<>>
    THEN {Head(preslst)} ELSE {}

\* The list when the item of k, or the one that makes room for it, has left.
Rest(k) ==
    IF presmap[k] # None THEN Without(preslst, k)
    ELSE IF Victims(k) # {} THEN Tail(preslst) ELSE preslst

\* Mutant: an item that is there keeps its place in the list.
addPathInPlace(k) ==
    /\ presmap' = [j \in Key |-> IF j = k THEN now
                                 ELSE IF j \in Victims(k) THEN None ELSE presmap[j]]
    /\ preslst' = IF presmap[k] # None THEN preslst ELSE InsertTail(Rest(k), k)
    /\ call' = <<"add", k>>
    /\ UNCHANGED <<pathTimeout, pathMaxCount, now>>

\* Mutant: the new item does not know its key.
addPathUnnamed(k) ==
    /\ presmap' = [j \in Key |-> IF j = k THEN now
                                 ELSE IF j \in Victims(k) THEN None ELSE presmap[j]]
    /\ preslst' = InsertTail(Rest(k), None)
    /\ call' = <<"add", k>>
    /\ UNCHANGED <<pathTimeout, pathMaxCount, now>>

\* addPath moves an item to the tail, or makes a new one.
addPath(k) ==
    /\ presmap' = [j \in Key |-> IF j = k THEN now
                                 ELSE IF j \in Victims(k) THEN None ELSE presmap[j]]
    /\ preslst' = InsertTail(Rest(k), k)
    /\ call' = <<"add", k>>
    /\ UNCHANGED <<pathTimeout, pathMaxCount, now>>

\* Mutant: the item leaves the list and stays in the map.
removePathFromList(k) ==
    /\ preslst' = Without(preslst, k)
    /\ call' = <<"remove", k>>
    /\ UNCHANGED <<presmap, pathTimeout, pathMaxCount, now>>

removePath(k) ==
    /\ presmap' = [presmap EXCEPT ![k] = None]
    /\ preslst' = Without(preslst, k)
    /\ call' = <<"remove", k>>
    /\ UNCHANGED <<pathTimeout, pathMaxCount, now>>

\* removeAllPath throws away everything, whatever its argument.
removeAllPath(k) ==
    /\ presmap' = [j \in Key |-> None]
    /\ preslst' = <<>>
    /\ call' = <<"removeAll", k>>
    /\ UNCHANGED <<pathTimeout, pathMaxCount, now>>

\* The clock advances.
tick ==
    /\ now < MaxTime
    /\ now' = now + 1
    /\ UNCHANGED <<pathTimeout, pathMaxCount, presmap, preslst, call>>

Next ==
    \/ \E k \in Key : hasPath(k) \/ addPath(k) \/ removePath(k) \/ removeAllPath(k)
    \/ tick

Spec == Init /\ [][Next]_vars

-----------------------------------------------------------------------------
(* Properties *)

\* Types of the map, the list and the clock.
TypeOK ==
    /\ pathTimeout \in Timeouts /\ pathMaxCount \in MaxCounts
    /\ presmap \in [Key -> Nat \cup {None}]
    /\ preslst \in Seq(Key)
    /\ now \in Nat
    /\ call # <<>> => call[2] \in Key

\* addPath keeps to pathMaxCount, because map and list hold the same keys, each
\* once, so that the list's head always is an item that can make room.
Bounded ==
    /\ Cardinality(Keys) <= pathMaxCount
    /\ Elems(preslst) = Keys
    /\ Len(preslst) = Cardinality(Keys)

\* The item that addPath drops at the limit is the one added longest ago.
OldestFirst ==
    \A m, n \in DOMAIN preslst : m < n => presmap[preslst[m]] <= presmap[preslst[n]]

P == INSTANCE Presence WITH known <- Keys

\* The presence cache does what module Presence promises: it never claims a key
\* that was not added or was removed since.
Refines == P!Spec
=============================================================================
