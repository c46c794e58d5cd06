--------------------------- MODULE MapCollections ---------------------------
(***************************************************************************)
(* What a caller may think of several maps that are created, copied, moved *)
(* and destroyed: each is a collection of pairs of its own, whatever table *)
(* it is kept in.  A copy holds the same pairs, shared with its source; a  *)
(* map that was moved from is empty and may be used on.  An extension that *)
(* throws may lose pairs, but not all of them, and it leaks memory.        *)
(*                                                                         *)
(* HashMapObjects implements this module.                                  *)
(***************************************************************************)
CONSTANTS Maps, Pairs, NoMap

VARIABLES contents,  \* of each map, or NoMap
          vRemoved,  \* the pairs callers hold as results of remove, per map
          leaked     \* what extensions that threw have left behind

cvars == <<contents, vRemoved, leaked>>

Exists(m) == contents[m] # NoMap

\* A pair that is neither in a map nor in a result.
IsNew(p) ==
    /\ \A m \in Maps : Exists(m) => p \notin contents[m]
    /\ \A m \in Maps : <<m, p>> \notin vRemoved

Init == contents = [m \in Maps |-> NoMap] /\ vRemoved = {} /\ leaked = {}

Create(m, P) ==
    /\ ~ Exists(m) /\ \A p \in P : IsNew(p)
    /\ contents' = [contents EXCEPT ![m] = P]
    /\ UNCHANGED <<vRemoved, leaked>>

Copy(m, src) ==
    /\ ~ Exists(m) /\ Exists(src)
    /\ contents' = [contents EXCEPT ![m] = contents[src]]
    /\ UNCHANGED <<vRemoved, leaked>>

Move(m, src) ==
    /\ ~ Exists(m) /\ Exists(src)
    /\ contents' = [contents EXCEPT ![m] = contents[src], ![src] = {}]
    /\ UNCHANGED <<vRemoved, leaked>>

Insert(m, p) ==
    /\ Exists(m) /\ IsNew(p)
    /\ contents' = [contents EXCEPT ![m] = @ \cup {p}]
    /\ UNCHANGED <<vRemoved, leaked>>

Remove(m, p) ==
    /\ Exists(m) /\ p \in contents[m]
    /\ contents' = [contents EXCEPT ![m] = @ \ {p}]
    /\ vRemoved' = vRemoved \cup {<<m, p>>}
    /\ UNCHANGED leaked

\* A pair whose key cannot be copied stays.
Lose(m, P) ==
    /\ Exists(m) /\ P \subseteq contents[m] /\ P # contents[m]
    /\ contents' = [contents EXCEPT ![m] = @ \ P]
    /\ leaked \subseteq leaked' /\ leaked' # leaked
    /\ UNCHANGED vRemoved

Forget(r) == vRemoved' = vRemoved \ {r} /\ UNCHANGED <<contents, leaked>>

Clear(m) ==
    /\ Exists(m)
    /\ contents' = [contents EXCEPT ![m] = {}]
    /\ UNCHANGED <<vRemoved, leaked>>

Destroy(m) ==
    /\ Exists(m)
    /\ contents' = [contents EXCEPT ![m] = NoMap]
    /\ UNCHANGED <<vRemoved, leaked>>

Next ==
    \/ \E m \in Maps, P \in SUBSET Pairs : Create(m, P)
    \/ \E m, src \in Maps : Copy(m, src) \/ Move(m, src)
    \/ \E m \in Maps, p \in Pairs : Insert(m, p) \/ Remove(m, p)
    \/ \E m \in Maps, P \in SUBSET Pairs : Lose(m, P)
    \/ \E m \in Maps : Clear(m) \/ Destroy(m)
    \/ \E r \in vRemoved : Forget(r)

Spec == Init /\ [][Next]_cvars
=============================================================================
