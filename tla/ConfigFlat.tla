---------------------------- MODULE ConfigFlat ----------------------------
(***************************************************************************)
(* A configuration as the set of its leaves: a path and the value there.   *)
(* ConfigTree shows that the nested maps of the code behave as these sets. *)
(***************************************************************************)
EXTENDS Naturals, Sequences

Leaf(path, val) == [path |-> path, val |-> val]

\* A configuration cannot hold both: one would be inside the other.
Comparable(p, q) ==
    LET n == IF Len(p) < Len(q) THEN Len(p) ELSE Len(q)
    IN  SubSeq(p, 1, n) = SubSeq(q, 1, n)

Clashes(path, leaves) == \E l \in leaves : Comparable(path, l.path)

\* deepMerge: what upper says, and what lower says where upper is silent.
Overlay(lower, upper) == upper \cup {l \in lower : ~Clashes(l.path, upper)}

\* child: the key must hold a map, a scalar there makes way.
Opened(leaves, key) == {l \in leaves : l.path # <<key>>}
=============================================================================
