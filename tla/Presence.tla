------------------------------ MODULE Presence ------------------------------
(***************************************************************************)
(* What cache.go relies on in a pathPresenceCache: it may forget a path    *)
(* key at any time, but it never claims one that was not added, or that    *)
(* was removed since it was added last.  Module Cache uses its presence    *)
(* cache in this form.                                                     *)
(***************************************************************************)
CONSTANT Key

VARIABLES
    known,      \* the path keys that may be claimed
    call        \* the last call: its name, its key and its answer

vars == <<known, call>>

Init == known = {} /\ call = <<>>

Has(k) ==
    \/ k \in known /\ call' = <<"has", k, TRUE>> /\ UNCHANGED known
    \/ call' = <<"has", k, FALSE>> /\ known' = known \ {k}

Add(k) ==
    /\ \E forgotten \in SUBSET known : known' = (known \ forgotten) \cup {k}
    /\ call' = <<"add", k>>

Remove(k) == known' = known \ {k} /\ call' = <<"remove", k>>

RemoveAll(k) == known' = {} /\ call' = <<"removeAll", k>>

Next == \E k \in Key : Has(k) \/ Add(k) \/ Remove(k) \/ RemoveAll(k)

Spec == Init /\ [][Next]_vars
=============================================================================
