---------------------------- MODULE ConfigTree ----------------------------
(***************************************************************************)
(* The nested maps of the code: unflatten builds one from dotted keys, in  *)
(* the order the iteration over a Go map happens to have, deepMerge lays   *)
(* it over another, child opens a map, flattenOverrides lists the leaves.  *)
(* A node is [leaf |-> value] or [map |-> nodes by key].                   *)
(***************************************************************************)
EXTENDS ConfigFlat, FiniteSets, TLC

CONSTANTS
    Keys,      \* the segments of dotted keys
    MaxDepth,  \* bound: the segments of a dotted key
    Paths,     \* the dotted keys, as sequences of segments
    Vals,      \* leaf values
    Roots,     \* the keys child opens
    MaxPuts    \* bound: the keys of one override map

\* Where something may stand in a tree: the keys that lead there.
Addresses == UNION {[1..n -> Keys] : n \in 0..MaxDepth}

ASSUME MaxDepthAssumption == MaxDepth \in Nat \ {0}
ASSUME MaxPutsAssumption == MaxPuts \in Nat
ASSUME PathsAssumption == Paths \subseteq Addresses \ {<<>>} /\ Roots \subseteq Keys

VARIABLES
    dst,     \* the configuration so far
    src,     \* the override map being built
    puts     \* the keys unflatten has been through: it meets each once

vars == <<dst, src, puts>>

NoKeys == [k \in {} |-> {}]
Absent == [absent |-> TRUE]
IsMap(node) == "map" \in DOMAIN node
IsLeaf(node) == "leaf" \in DOMAIN node
MapOf(node) == IF IsMap(node) THEN node.map ELSE NoKeys

\* m[k] = x.
Assign(m, k, x) == [j \in {k} \cup DOMAIN m |-> IF j = k THEN x ELSE m[j]]

\* One key further down, and n keys of a path down from the root.
Below(node, k) == IF k \in DOMAIN MapOf(node) THEN node.map[k] ELSE Absent
Node(t, path, n) ==
    LET node[i \in 0..Len(path)] ==
          IF i = 0 THEN [map |-> t] ELSE Below(node[i - 1], path[i])
    IN  node[n]
At(t, path) == Node(t, path, Len(path))

\* flattenOverrides, from the map at a prefix on.
Leaves(t) ==
    LET flat[prefix \in Addresses] ==
          UNION {LET key == Append(prefix, k)
                 IN  IF IsMap(At(t, key)) THEN flat[key] ELSE {Leaf(key, At(t, key).leaf)} :
                 k \in DOMAIN MapOf(At(t, prefix))}
    IN  flat[<<>>]

\* Mutant: the maps on the way are made anew.
FreshMap(t, path, n) == IF n = 1 THEN t ELSE NoKeys
\* The map that unflatten's inner loop has come to with the n-th segment.
MapHere(t, path, n) == MapOf(Node(t, path, n - 1))

Put(t, path, val) ==
    LET put[n \in 1..Len(path)] ==
          Assign(MapHere(t, path, n), path[n],
                 IF n = Len(path) THEN [leaf |-> val] ELSE [map |-> put[n + 1]])
    IN  put[1]

\* Mutant: a map replaces a map.
Replace(d, s, merged) == s @@ d
\* One call of deepMerge; merged has what its recursive calls return.
Combine(d, s, merged) == [k \in DOMAIN d \cup DOMAIN s |->
    IF k \notin DOMAIN s THEN d[k]
    ELSE IF k \in DOMAIN d /\ IsMap(s[k]) /\ IsMap(d[k]) THEN [map |-> merged[k]]
    ELSE s[k]]

Merge(d, s) ==
    LET merge[at \in Addresses] ==
          Combine(MapOf(At(d, at)), MapOf(At(s, at)), [k \in Keys |-> merge[Append(at, k)]])
    IN  merge[<<>>]

Child(t, k) == Assign(t, k, [map |-> MapOf(Below([map |-> t], k))])

Init == dst = NoKeys /\ src = NoKeys /\ puts = {}

\* One turn of unflatten's loop.
PutKey(p, v) ==
    /\ p \notin puts /\ Cardinality(puts) < MaxPuts
    /\ src' = Put(src, p, v)
    /\ puts' = puts \cup {p}
    /\ UNCHANGED dst

Lay ==
    /\ dst' = Merge(dst, src)
    /\ src' = NoKeys /\ puts' = {}

Open(k) ==
    /\ dst' = Child(dst, k)
    /\ UNCHANGED <<src, puts>>

Next ==
    \/ Lay
    \/ \E k \in Roots : Open(k)
    \/ \E p \in Paths, v \in Vals : PutKey(p, v)

Spec == Init /\ [][Next]_vars

-----------------------------------------------------------------------------
\* Nested maps are their leaves: whatever order the keys come in and whatever
\* is there already, unflatten's loop, deepMerge and child do to the leaves
\* what ConfigLayers takes them to do.
LeavesFollow ==
    [][ \/ Lay /\ Leaves(dst') = Overlay(Leaves(dst), Leaves(src))
        \/ \E k \in Roots : Open(k) /\ Leaves(dst') = Opened(Leaves(dst), k)
        \/ \E p \in Paths, v \in Vals :
             PutKey(p, v) /\ Leaves(src') = Overlay(Leaves(src), {Leaf(p, v)}) ]_vars

\* Unless one key lies inside another, unflatten keeps every key, so the order
\* of the iteration does not matter (editor.go:339).
UnflattenKeepsAll ==
    (\A p, q \in puts : Comparable(p, q) => p = q) =>
        {l.path : l \in Leaves(src)} = puts
=============================================================================
