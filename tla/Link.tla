-------------------------------- MODULE Link --------------------------------
(***************************************************************************)
(* The doubly linked lists of cache/link.go as the sequence of what their  *)
(* items stand for.                                                        *)
(***************************************************************************)
EXTENDS Naturals, Sequences

Elems(s) == {s[n] : n \in DOMAIN s}

\* An item is in a list at most once.
Distinct(s) == \A m, n \in DOMAIN s : s[m] = s[n] => m = n

\* link_t.InsertTail of the item of x.
InsertTail(s, x) == Append(s, x)

\* The list without its n-th item.
Cut(s, n) == SubSeq(s, 1, n - 1) \o SubSeq(s, n + 1, Len(s))

\* link_t.Remove of the item of x, if there is one.
Without(s, x) ==
    IF x \in Elems(s) THEN Cut(s, CHOOSE n \in DOMAIN s : s[n] = x) ELSE s
=============================================================================
