------------------------- MODULE ConfigTree_proofs -------------------------
(***************************************************************************)
(* Nested maps behave as the sets of their leaves, for any keys, paths and *)
(* values, any depth, and override maps of any size.                       *)
(*                                                                         *)
(* The model's recursive functions are CHOOSEn by their equations; that    *)
(* there are functions to choose is shown by induction, on sets of natural *)
(* numbers, for each of them.                                              *)
(***************************************************************************)
EXTENDS ConfigTree, SequenceTheorems, WellFoundedInduction, TLAPS

Less == {p \in Nat \X Nat : p[1] < p[2]}

LEMMA LessIsWellFounded == IsWellFoundedOn(Less, Nat)
<1>1. Less = OpToRel(<, Nat)
  BY Zenon DEF Less, OpToRel
<1> QED
  BY <1>1, NatLessThanWellFounded, Zenon

\* A set that has 0 and every successor has all natural numbers.
LEMMA SetInduction ==
  ASSUME NEW S, 0 \in S, \A n \in Nat : n \in S => n + 1 \in S
  PROVE  Nat \subseteq S
<1> DEFINE T == Nat \ S
<1>1. SUFFICES ASSUME T # {} PROVE FALSE
  OBVIOUS
<1>2. PICK x \in T : \A y \in T : ~(<<y, x>> \in Less)
  <2>1. T \subseteq Nat
    OBVIOUS
  <2> HIDE DEF T
  <2> QED
    BY LessIsWellFounded, WFMin, <1>1, <2>1, Zenon
<1>3. x \in Nat /\ x # 0 /\ x \notin S
  OBVIOUS
<1>4. x - 1 \in Nat /\ (x - 1) + 1 = x /\ x - 1 < x
  BY <1>3
<1>5. x - 1 \notin S
  BY <1>3, <1>4
<1>6. <<x - 1, x>> \in Less
  BY <1>3, <1>4 DEF Less
<1> QED
  BY <1>2, <1>4, <1>5, <1>6

-----------------------------------------------------------------------------
(* Going down a path                                                       *)

Walk(t, path) ==
    CHOOSE node : node = [i \in 0..Len(path) |->
        IF i = 0 THEN [map |-> t] ELSE Below(node[i - 1], path[i])]

LEMMA WalkExists ==
  ASSUME NEW t, NEW path, Len(path) \in Nat
  PROVE  Walk(t, path) = [i \in 0..Len(path) |->
             IF i = 0 THEN [map |-> t] ELSE Below(Walk(t, path)[i - 1], path[i])]
<1> DEFINE Is(w, n) == w = [i \in 0..n |->
                              IF i = 0 THEN [map |-> t] ELSE Below(w[i - 1], path[i])]
           S == {n \in Nat : \E w : Is(w, n)}
<1>1. 0 \in S
  <2>1. Is([i \in 0..0 |-> [map |-> t]], 0)
    OBVIOUS
  <2> QED
    BY <2>1
<1>2. ASSUME NEW n \in Nat, n \in S PROVE n + 1 \in S
  <2>1. PICK w : Is(w, n)
    BY <1>2
  <2>2. DEFINE v == [i \in 0..(n + 1) |-> IF i = n + 1 THEN Below(w[n], path[n + 1]) ELSE w[i]]
  <2>3. ASSUME NEW i \in 0..(n + 1)
        PROVE  v[i] = IF i = 0 THEN [map |-> t] ELSE Below(v[i - 1], path[i])
    <3>1. CASE i = 0
      BY <2>1, <3>1
    <3>2. CASE i = n + 1
      BY <3>2
    <3>3. CASE i \in 1..n
      BY <2>1, <3>3
    <3> QED
      BY <3>1, <3>2, <3>3
  <2>4. Is(v, n + 1)
    BY <2>3
  <2> HIDE DEF v
  <2> QED
    BY <2>4
<1>3. Nat \subseteq S
  <2> HIDE DEF S
  <2> QED
    BY <1>1, <1>2, SetInduction
<1>4. \E w : Is(w, Len(path))
  BY <1>3
<1> QED
  BY <1>4 DEF Walk

\* The node at the root, and the one after each key.
LEMMA NodeRoot ==
  ASSUME NEW t, NEW path, Len(path) \in Nat
  PROVE  Node(t, path, 0) = [map |-> t]
<1>1. Node(t, path, 0) = Walk(t, path)[0]
  BY DEF Node, Walk
<1>2. 0 \in 0..Len(path)
  OBVIOUS
<1> QED
  BY <1>1, <1>2, WalkExists

LEMMA NodeNext ==
  ASSUME NEW t, NEW path, Len(path) \in Nat, NEW n \in Nat, n < Len(path)
  PROVE  Node(t, path, n + 1) = Below(Node(t, path, n), path[n + 1])
<1> DEFINE w == Walk(t, path)
<1>1. w = [i \in 0..Len(path) |-> IF i = 0 THEN [map |-> t] ELSE Below(w[i - 1], path[i])]
  BY WalkExists
<1>2. Node(t, path, n + 1) = w[n + 1] /\ Node(t, path, n) = w[n]
  BY DEF Node, Walk
<1> HIDE DEF w
<1>3. w[n + 1] = Below(w[n], path[n + 1])
  BY <1>1
<1> QED
  BY <1>2, <1>3

LEMMA NodeFirst ==
  ASSUME NEW t, NEW path, Len(path) \in Nat \ {0}
  PROVE  Node(t, path, 1) = Below([map |-> t], path[1])
<1>1. 0 \in Nat /\ 0 < Len(path) /\ Len(path) \in Nat
  OBVIOUS
<1>2. Node(t, path, 0 + 1) = Below(Node(t, path, 0), path[0 + 1])
  BY <1>1, NodeNext, Zenon
<1>3. Node(t, path, 0) = [map |-> t]
  BY <1>1, NodeRoot, Zenon
<1>4. 0 + 1 = 1
  OBVIOUS
<1> QED
  BY <1>2, <1>3, <1>4

LEMMA NodeDown ==
  ASSUME NEW t, NEW path, Len(path) \in Nat, NEW n \in 1..Len(path)
  PROVE  Node(t, path, n) = Below(Node(t, path, n - 1), path[n])
<1>1. n - 1 \in Nat /\ n - 1 < Len(path) /\ (n - 1) + 1 = n
  OBVIOUS
<1>2. Node(t, path, (n - 1) + 1) = Below(Node(t, path, n - 1), path[(n - 1) + 1])
  BY <1>1, NodeNext
<1> QED
  BY <1>1, <1>2

-----------------------------------------------------------------------------
(* Addresses and what stands there                                         *)

LEMMA AddressFacts ==
  /\ Addresses = {p \in Seq(Keys) : Len(p) \in 0..MaxDepth}
  /\ <<>> \in Addresses
  /\ \A p \in Addresses, k \in Keys :
       Len(p) < MaxDepth => /\ Append(p, k) \in Addresses
                            /\ Len(Append(p, k)) = Len(p) + 1
                            /\ Append(p, k)[Len(p) + 1] = k
                            /\ \A i \in 1..Len(p) : Append(p, k)[i] = p[i]
<1> USE MaxDepthAssumption
<1>1. ASSUME NEW p \in Addresses PROVE p \in Seq(Keys) /\ Len(p) \in 0..MaxDepth
  <2>1. PICK n \in 0..MaxDepth : p \in [1..n -> Keys]
    BY DEF Addresses
  <2>2. p \in Seq(Keys)
    BY <2>1, SeqDef
  <2>3. Len(p) = n
    BY <2>1, <2>2, LenProperties
  <2> QED
    BY <2>2, <2>3
<1>2. ASSUME NEW p \in Seq(Keys), Len(p) \in 0..MaxDepth PROVE p \in Addresses
  BY <1>2, LenProperties DEF Addresses
<1>3. ASSUME NEW p \in Addresses, NEW k \in Keys, Len(p) < MaxDepth
      PROVE  /\ Append(p, k) \in Addresses
             /\ Len(Append(p, k)) = Len(p) + 1
             /\ Append(p, k)[Len(p) + 1] = k
             /\ \A i \in 1..Len(p) : Append(p, k)[i] = p[i]
  <2>1. p \in Seq(Keys) /\ Len(p) \in 0..MaxDepth
    BY <1>1
  <2>2. /\ Append(p, k) \in Seq(Keys) /\ Len(Append(p, k)) = Len(p) + 1
        /\ \A i \in 1..Len(p) : Append(p, k)[i] = p[i]
        /\ Append(p, k)[Len(p) + 1] = k
    BY <2>1, AppendProperties
  <2> QED
    <3>1. Len(Append(p, k)) \in 0..MaxDepth
      BY <1>3, <2>1, <2>2
    <3>2. Append(p, k) \in Addresses
      BY <1>2, <2>2, <3>1
    <3> QED
      BY <2>2, <3>2
<1>4. Addresses = {p \in Seq(Keys) : Len(p) \in 0..MaxDepth}
  BY <1>1, <1>2
<1>5. <<>> \in Addresses
  <2>1. <<>> \in Seq(Keys) /\ Len(<<>>) = 0
    BY EmptySeq
  <2>2. Len(<<>>) \in 0..MaxDepth
    BY <2>1
  <2> QED
    BY <1>2, <2>1, <2>2
<1> QED
  BY <1>3, <1>4, <1>5

\* A tree: maps of keys, down to MaxDepth at most, to maps and leaves.
TreeOK(t) ==
    \A path \in Seq(Keys) : \A n \in 0..Len(path) :
        LET m == MapOf(Node(t, path, n))
        IN  /\ DOMAIN m \subseteq Keys
            /\ n >= MaxDepth => DOMAIN m = {}
            /\ \A k \in DOMAIN m : IsMap(m[k]) <=> ~IsLeaf(m[k])

LEMMA Kinds ==
  /\ ~IsMap(Absent) /\ ~IsLeaf(Absent)
  /\ DOMAIN NoKeys = {}
  /\ \A m : IsMap([map |-> m]) /\ ~IsLeaf([map |-> m]) /\ MapOf([map |-> m]) = m
  /\ \A v : IsLeaf([leaf |-> v]) /\ ~IsMap([leaf |-> v]) /\ MapOf([leaf |-> v]) = NoKeys
  /\ \A node : IsMap(node) => MapOf(node) = node.map
  /\ \A node : ~IsMap(node) => MapOf(node) = NoKeys
  BY DEF Absent, IsMap, IsLeaf, NoKeys, MapOf

\* What is below a node: an entry of its map, or nothing.
LEMMA BelowIs ==
  ASSUME NEW node, NEW k
  PROVE  /\ k \in DOMAIN MapOf(node) => IsMap(node) /\ Below(node, k) = MapOf(node)[k]
         /\ k \notin DOMAIN MapOf(node) => Below(node, k) = Absent
  BY DEF Below, MapOf, NoKeys

LEMMA NodeKinds ==
  ASSUME NEW t, TreeOK(t), NEW path \in Seq(Keys), NEW n \in 0..Len(path)
  PROVE  \/ Node(t, path, n) = Absent
         \/ IsMap(Node(t, path, n)) <=> ~IsLeaf(Node(t, path, n))
<1>1. Len(path) \in Nat
  BY LenProperties
<1>2. CASE n = 0
  BY <1>1, <1>2, NodeRoot, Kinds
<1>3. CASE n # 0
  <2>1. n - 1 \in 0..Len(path) /\ n \in 1..Len(path)
    BY <1>1, <1>3
  <2>2. Node(t, path, n) = Below(Node(t, path, n - 1), path[n])
    BY <1>1, <2>1, NodeDown
  <2>3. \A k \in DOMAIN MapOf(Node(t, path, n - 1)) :
           IsMap(MapOf(Node(t, path, n - 1))[k]) <=> ~IsLeaf(MapOf(Node(t, path, n - 1))[k])
    BY <2>1 DEF TreeOK
  <2> QED
    BY <2>2, <2>3, BelowIs
<1> QED
  BY <1>2, <1>3

\* Paths that agree lead to the same nodes.
LEMMA NodeAgrees ==
  ASSUME NEW t, NEW p, NEW q, Len(p) \in Nat, Len(q) \in Nat,
         NEW n \in Nat, n <= Len(p), n <= Len(q), \A i \in 1..n : p[i] = q[i]
  PROVE  Node(t, p, n) = Node(t, q, n)
<1> DEFINE S == {i \in Nat : i <= n => Node(t, p, i) = Node(t, q, i)}
<1>1. 0 \in S
  BY NodeRoot
<1>2. ASSUME NEW i \in Nat, i \in S PROVE i + 1 \in S
  <2>1. SUFFICES ASSUME i + 1 <= n PROVE Node(t, p, i + 1) = Node(t, q, i + 1)
    OBVIOUS
  <2>2. Node(t, p, i) = Node(t, q, i) /\ p[i + 1] = q[i + 1] /\ i < Len(p) /\ i < Len(q)
    BY <1>2, <2>1
  <2>3. /\ Node(t, p, i + 1) = Below(Node(t, p, i), p[i + 1])
        /\ Node(t, q, i + 1) = Below(Node(t, q, i), q[i + 1])
    BY <2>2, NodeNext
  <2> QED
    BY <2>2, <2>3
<1>3. Nat \subseteq S
  <2> HIDE DEF S
  <2> QED
    BY <1>1, <1>2, SetInduction
<1> QED
  BY <1>3

\* There is nothing below a node that is not a map.
LEMMA NothingBelow ==
  ASSUME NEW t, NEW path, Len(path) \in Nat, NEW n \in Nat, NEW m \in Nat,
         n < m, m <= Len(path), path[n + 1] \notin DOMAIN MapOf(Node(t, path, n))
  PROVE  Node(t, path, m) = Absent
<1> DEFINE S == {i \in Nat : n + 1 + i <= Len(path) => Node(t, path, n + 1 + i) = Absent}
<1>1. 0 \in S
  <2>1. Node(t, path, n + 1) = Below(Node(t, path, n), path[n + 1])
    BY NodeNext
  <2>2. Node(t, path, n + 1) = Absent
    BY <2>1, BelowIs
  <2> QED
    BY <2>2
<1>2. ASSUME NEW i \in Nat, i \in S PROVE i + 1 \in S
  <2>1. SUFFICES ASSUME n + 1 + (i + 1) <= Len(path)
                 PROVE  Node(t, path, n + 1 + (i + 1)) = Absent
    OBVIOUS
  <2>2. Node(t, path, n + 1 + i) = Absent
    BY <1>2, <2>1
  <2>3. /\ n + 1 + i \in Nat /\ n + 1 + i < Len(path)
        /\ n + 1 + (i + 1) = (n + 1 + i) + 1
    BY <2>1
  <2>4. Node(t, path, (n + 1 + i) + 1) = Below(Absent, path[(n + 1 + i) + 1])
    BY <2>2, <2>3, NodeNext
  <2>5. Below(Absent, path[(n + 1 + i) + 1]) = Absent
    BY BelowIs, Kinds
  <2> QED
    BY <2>3, <2>4, <2>5
<1>3. Nat \subseteq S
  <2> HIDE DEF S
  <2> QED
    BY <1>1, <1>2, SetInduction
<1>4. m - (n + 1) \in Nat /\ n + 1 + (m - (n + 1)) = m
  OBVIOUS
<1> QED
  BY <1>3, <1>4

\* On the way to a node there are maps.
LEMMA MapsAbove ==
  ASSUME NEW t, NEW path, Len(path) \in Nat, NEW m \in Nat, m <= Len(path),
         Node(t, path, m) # Absent, NEW n \in Nat, n < m
  PROVE  IsMap(Node(t, path, n)) /\ path[n + 1] \in DOMAIN MapOf(Node(t, path, n))
<1>1. path[n + 1] \in DOMAIN MapOf(Node(t, path, n))
  BY NothingBelow
<1> QED
  BY <1>1, Kinds

\* What holds at an address if it holds at those one key further down holds everywhere.
LEMMA DownInduction ==
  ASSUME NEW S,
         \A p \in Addresses :
            (Len(p) < MaxDepth => \A k \in Keys : Append(p, k) \in S) => p \in S
  PROVE  Addresses \subseteq S
<1> DEFINE T == {j \in Nat : \A p \in Addresses : Len(p) + j >= MaxDepth => p \in S}
<1>0. MaxDepth \in Nat
  BY MaxDepthAssumption
<1>1. 0 \in T
  BY <1>0, AddressFacts
<1>2. ASSUME NEW j \in Nat, j \in T PROVE j + 1 \in T
  <2>1. SUFFICES ASSUME NEW p \in Addresses, Len(p) + (j + 1) >= MaxDepth PROVE p \in S
    OBVIOUS
  <2>2. Len(p) \in Nat
    BY <1>0, AddressFacts
  <2>3. ASSUME NEW k \in Keys, Len(p) < MaxDepth PROVE Append(p, k) \in S
    <3>1. Append(p, k) \in Addresses /\ Len(Append(p, k)) = Len(p) + 1
      BY <2>3, AddressFacts
    <3>2. Len(Append(p, k)) + j >= MaxDepth
      BY <1>0, <2>1, <2>2, <3>1
    <3> QED
      BY <1>2, <3>1, <3>2
  <2> QED
    BY <2>3
<1>3. Nat \subseteq T
  <2> HIDE DEF T
  <2> QED
    BY <1>1, <1>2, SetInduction
<1>4. MaxDepth \in T
  BY <1>0, <1>3
<1>5. \A p \in Addresses : Len(p) + MaxDepth >= MaxDepth
  BY <1>0, AddressFacts
<1> QED
  BY <1>4, <1>5

-----------------------------------------------------------------------------
(* flattenOverrides lists the leaves                                       *)

Under(q, p) == Len(p) < Len(q) /\ \A i \in 1..Len(p) : q[i] = p[i]

LeafPaths(t) == {q \in Addresses : IsLeaf(At(t, q))}
LeavesUnder(t, p) == {Leaf(q, At(t, q).leaf) : q \in {a \in LeafPaths(t) : Under(a, p)}}

FlatOf(t, flat, prefix) ==
    UNION {LET key == Append(prefix, k)
           IN  IF IsMap(At(t, key)) THEN flat[key] ELSE {Leaf(key, At(t, key).leaf)} :
           k \in DOMAIN MapOf(At(t, prefix))}
Flat(t) == CHOOSE flat : flat = [prefix \in Addresses |-> FlatOf(t, flat, prefix)]

\* The keys of a map at an address, and what stands there.
LEMMA KeysAt ==
  ASSUME NEW t, TreeOK(t), NEW p \in Addresses, NEW k \in DOMAIN MapOf(At(t, p))
  PROVE  /\ k \in Keys /\ Len(p) < MaxDepth /\ Append(p, k) \in Addresses
         /\ Len(Append(p, k)) = Len(p) + 1 /\ Under(Append(p, k), p)
         /\ At(t, Append(p, k)) = MapOf(At(t, p))[k]
         /\ IsMap(At(t, Append(p, k))) <=> ~IsLeaf(At(t, Append(p, k)))
<1>1. p \in Seq(Keys) /\ Len(p) \in 0..MaxDepth /\ Len(p) \in Nat /\ MaxDepth \in Nat
  BY AddressFacts, MaxDepthAssumption
<1>2. Len(p) \in 0..Len(p)
  BY <1>1
<1>3. k \in Keys /\ Len(p) < MaxDepth
  BY <1>1, <1>2 DEF TreeOK, At
<1>4. /\ Append(p, k) \in Addresses /\ Len(Append(p, k)) = Len(p) + 1
      /\ Append(p, k)[Len(p) + 1] = k /\ \A i \in 1..Len(p) : Append(p, k)[i] = p[i]
  BY <1>3, AddressFacts
<1>5. Under(Append(p, k), p)
  BY <1>1, <1>4 DEF Under
<1>6. At(t, Append(p, k)) = Below(At(t, p), k)
  <2> DEFINE key == Append(p, k)
  <2>1. Len(key) = Len(p) + 1 /\ key[Len(p) + 1] = k /\ \A i \in 1..Len(p) : key[i] = p[i]
    BY <1>4
  <2> HIDE DEF key
  <2>2. Len(key) \in Nat /\ Len(p) <= Len(key) /\ Len(p) <= Len(p) /\ Len(p) < Len(key)
    BY <1>1, <2>1
  <2>3. Node(t, key, Len(p)) = Node(t, p, Len(p))
    BY <1>1, <2>1, <2>2, NodeAgrees
  <2>4. Node(t, key, Len(p) + 1) = Below(Node(t, key, Len(p)), key[Len(p) + 1])
    BY <1>1, <2>2, NodeNext
  <2> QED
    BY <2>1, <2>3, <2>4 DEF At, key
<1>7. At(t, Append(p, k)) = MapOf(At(t, p))[k]
  BY <1>6, BelowIs
<1>8. IsMap(MapOf(At(t, p))[k]) <=> ~IsLeaf(MapOf(At(t, p))[k])
  BY <1>1, <1>2 DEF TreeOK, At
<1> QED
  BY <1>3, <1>4, <1>5, <1>7, <1>8

\* A call looks at what the calls for the maps below have listed, no further.
LEMMA FlatLooksBelow ==
  ASSUME NEW t, TreeOK(t), NEW p \in Addresses, NEW f, NEW g,
         \A k \in Keys : Len(p) < MaxDepth => f[Append(p, k)] = g[Append(p, k)]
  PROVE  FlatOf(t, f, p) = FlatOf(t, g, p)
<1>1. \A k \in DOMAIN MapOf(At(t, p)) : f[Append(p, k)] = g[Append(p, k)]
  BY KeysAt
<1> QED
  BY <1>1 DEF FlatOf

LEMMA FlatExists ==
  ASSUME NEW t, TreeOK(t)
  PROVE  Flat(t) = [prefix \in Addresses |-> FlatOf(t, Flat(t), prefix)]
<1> DEFINE Low(j) == {a \in Addresses : Len(a) + j >= MaxDepth}
           S == {j \in Nat : \E f : f = [p \in Low(j) |-> FlatOf(t, f, p)]}
<1>0. MaxDepth \in Nat /\ \A a \in Addresses : Len(a) \in Nat /\ Len(a) <= MaxDepth
  BY MaxDepthAssumption, AddressFacts
<1>1. 0 \in S
  <2> DEFINE f == [p \in Low(0) |-> FlatOf(t, <<>>, p)]
  <2>1. ASSUME NEW p \in Low(0) PROVE FlatOf(t, f, p) = FlatOf(t, <<>>, p)
    <3>1. p \in Addresses /\ ~(Len(p) < MaxDepth)
      BY <1>0
    <3> HIDE DEF f
    <3> QED
      BY <3>1, FlatLooksBelow
  <2>2. f = [p \in Low(0) |-> FlatOf(t, f, p)]
    BY <2>1
  <2> HIDE DEF f, Low
  <2> QED
    BY <2>2
<1>2. ASSUME NEW j \in Nat, j \in S PROVE j + 1 \in S
  <2>1. PICK f : f = [p \in Low(j) |-> FlatOf(t, f, p)]
    BY <1>2
  <2> DEFINE g == [p \in Low(j + 1) |-> FlatOf(t, f, p)]
  <2>2. ASSUME NEW p \in Low(j + 1) PROVE FlatOf(t, g, p) = FlatOf(t, f, p)
    <3>1. ASSUME NEW k \in Keys, Len(p) < MaxDepth
          PROVE  g[Append(p, k)] = f[Append(p, k)]
      <4>1. Append(p, k) \in Addresses /\ Len(Append(p, k)) = Len(p) + 1
        BY <3>1, AddressFacts
      <4>2. Append(p, k) \in Low(j) /\ Append(p, k) \in Low(j + 1)
        BY <1>0, <4>1
      <4> HIDE DEF Low
      <4> QED
        BY <2>1, <4>2
    <3>2. p \in Addresses
      OBVIOUS
    <3> HIDE DEF g
    <3> QED
      BY <3>1, <3>2, FlatLooksBelow
  <2>3. g = [p \in Low(j + 1) |-> FlatOf(t, g, p)]
    BY <2>2
  <2> HIDE DEF g, Low
  <2> QED
    BY <2>3
<1>3. Nat \subseteq S
  <2> HIDE DEF S
  <2> QED
    BY <1>1, <1>2, SetInduction
<1>4. Low(MaxDepth) = Addresses
  BY <1>0
<1>5. \E f : f = [p \in Addresses |-> FlatOf(t, f, p)]
  BY <1>0, <1>3, <1>4
<1> QED
  BY <1>5 DEF Flat

LEMMA FlatIsLeavesUnder ==
  ASSUME NEW t, TreeOK(t), NEW p \in Addresses,
         \A k \in Keys : Len(p) < MaxDepth =>
            Flat(t)[Append(p, k)] = LeavesUnder(t, Append(p, k))
  PROVE  Flat(t)[p] = LeavesUnder(t, p)
<1>0. /\ MaxDepth \in Nat
      /\ \A a \in Addresses : a \in Seq(Keys) /\ Len(a) \in Nat /\ Len(a) <= MaxDepth
  BY MaxDepthAssumption, AddressFacts
<1>1. Flat(t)[p] = FlatOf(t, Flat(t), p)
  BY FlatExists
<1>2. ASSUME NEW x \in FlatOf(t, Flat(t), p) PROVE x \in LeavesUnder(t, p)
  <2>1. PICK k \in DOMAIN MapOf(At(t, p)) :
          x \in IF IsMap(At(t, Append(p, k))) THEN Flat(t)[Append(p, k)]
                ELSE {Leaf(Append(p, k), At(t, Append(p, k)).leaf)}
    BY <1>2 DEF FlatOf
  <2> DEFINE key == Append(p, k)
  <2>2. /\ k \in Keys /\ Len(p) < MaxDepth /\ key \in Addresses /\ Len(key) = Len(p) + 1
        /\ Under(key, p) /\ (IsMap(At(t, key)) <=> ~IsLeaf(At(t, key)))
    BY KeysAt
  <2> HIDE DEF key
  <2>3. CASE IsMap(At(t, key))
    <3>1. x \in LeavesUnder(t, key)
      BY <2>1, <2>2, <2>3 DEF key
    <3>2. PICK q \in LeafPaths(t) : Under(q, key) /\ x = Leaf(q, At(t, q).leaf)
      BY <3>1 DEF LeavesUnder
    <3>3. Len(q) \in Nat /\ Len(p) \in Nat
      BY <1>0 DEF LeafPaths
    <3>4. Under(q, p)
      BY <2>2, <3>2, <3>3 DEF Under
    <3> QED
      BY <3>2, <3>4 DEF LeavesUnder
  <2>4. CASE ~IsMap(At(t, key))
    BY <2>1, <2>2, <2>4 DEF LeavesUnder, LeafPaths, key
  <2> QED
    BY <2>3, <2>4
<1>3. ASSUME NEW x \in LeavesUnder(t, p) PROVE x \in FlatOf(t, Flat(t), p)
  <2>1. PICK q \in LeafPaths(t) : Under(q, p) /\ x = Leaf(q, At(t, q).leaf)
    BY <1>3 DEF LeavesUnder
  <2>2. /\ q \in Addresses /\ q \in Seq(Keys) /\ Len(q) \in Nat /\ IsLeaf(At(t, q))
        /\ Len(p) \in Nat /\ Len(p) < Len(q) /\ \A i \in 1..Len(p) : q[i] = p[i]
    BY <1>0, <2>1 DEF LeafPaths, Under
  <2>3. Node(t, q, Len(q)) # Absent
    BY <2>2, Kinds DEF At
  <2>4. Node(t, q, Len(p)) = At(t, p)
    BY <2>2, NodeAgrees DEF At
  <2> DEFINE k == q[Len(p) + 1]
             key == Append(p, k)
  <2>5. k \in DOMAIN MapOf(At(t, p))
    BY <2>2, <2>3, <2>4, MapsAbove
  <2>6. /\ k \in Keys /\ Len(p) < MaxDepth /\ key \in Addresses /\ Len(key) = Len(p) + 1
        /\ IsMap(At(t, key)) <=> ~IsLeaf(At(t, key))
    BY <2>5, KeysAt
  <2>7. key[Len(p) + 1] = k /\ \A i \in 1..Len(p) : key[i] = p[i]
    BY <2>6, AddressFacts
  <2>8. \A i \in 1..Len(key) : q[i] = key[i]
    BY <2>2, <2>6, <2>7
  <2> HIDE DEF key
  <2>9. x \in IF IsMap(At(t, key)) THEN Flat(t)[key] ELSE {Leaf(key, At(t, key).leaf)}
    <3>1. CASE Len(q) = Len(key)
      <4>1. q = key
        BY <1>0, <2>2, <2>6, <2>8, <3>1, SeqEqual
      <4> QED
        BY <2>1, <2>2, <2>6, <4>1
    <3>2. CASE Len(q) # Len(key)
      <4>1. Len(key) < Len(q) /\ Len(key) \in Nat
        BY <2>2, <2>6, <3>2
      <4>2. Node(t, q, Len(key)) = At(t, key)
        BY <2>2, <2>8, <4>1, NodeAgrees DEF At
      <4>3. IsMap(At(t, key))
        BY <2>2, <2>3, <4>1, <4>2, MapsAbove
      <4>4. x \in LeavesUnder(t, key)
        BY <2>1, <2>8, <4>1 DEF LeavesUnder, Under
      <4> QED
        BY <2>6, <4>3, <4>4 DEF key
    <3> QED
      BY <3>1, <3>2
  <2> QED
    BY <2>5, <2>9 DEF FlatOf, key
<1> QED
  BY <1>1, <1>2, <1>3

\* The leaves are the addresses that lead to a leaf, with the value there.
LEMMA LeavesAre ==
  ASSUME NEW t, TreeOK(t)
  PROVE  Leaves(t) = {Leaf(q, At(t, q).leaf) : q \in LeafPaths(t)}
<1>1. Leaves(t) = Flat(t)[<<>>]
  BY DEF Leaves, Flat, FlatOf
<1> DEFINE S == {p \in Addresses : Flat(t)[p] = LeavesUnder(t, p)}
<1>2. Addresses \subseteq S
  <2>1. ASSUME NEW p \in Addresses,
               Len(p) < MaxDepth => \A k \in Keys : Append(p, k) \in S
        PROVE  p \in S
    BY <2>1, FlatIsLeavesUnder
  <2> HIDE DEF S
  <2> QED
    BY <2>1, DownInduction
<1>3. Leaves(t) = LeavesUnder(t, <<>>)
  BY <1>1, <1>2, AddressFacts
<1>4. ASSUME NEW q \in LeafPaths(t) PROVE Under(q, <<>>)
  <2>1. q \in Addresses /\ q \in Seq(Keys) /\ Len(q) \in Nat /\ IsLeaf(At(t, q))
    BY AddressFacts, MaxDepthAssumption DEF LeafPaths
  <2>2. Len(q) # 0
    BY <2>1, NodeRoot, Kinds DEF At
  <2>3. Len(<<>>) = 0
    BY EmptySeq
  <2> QED
    BY <2>1, <2>2, <2>3 DEF Under
<1> QED
  BY <1>3, <1>4 DEF LeavesUnder

-----------------------------------------------------------------------------
(* Paths that part                                                         *)

LEMMA ComparableIs ==
  ASSUME NEW p \in Seq(Keys), NEW q \in Seq(Keys)
  PROVE  Comparable(p, q) <=> \A i \in 1..Len(p) : i <= Len(q) => p[i] = q[i]
<1> DEFINE n == IF Len(p) < Len(q) THEN Len(p) ELSE Len(q)
<1>1. Len(p) \in Nat /\ Len(q) \in Nat /\ n \in 0..Len(p) /\ n \in 0..Len(q)
  BY LenProperties
<1>2. /\ SubSeq(p, 1, n) \in Seq(Keys) /\ Len(SubSeq(p, 1, n)) = n
      /\ \A i \in 1..n : SubSeq(p, 1, n)[i] = p[i]
  <2> HIDE DEF n
  <2> QED
    BY <1>1
<1>3. /\ SubSeq(q, 1, n) \in Seq(Keys) /\ Len(SubSeq(q, 1, n)) = n
      /\ \A i \in 1..n : SubSeq(q, 1, n)[i] = q[i]
  <2> HIDE DEF n
  <2> QED
    BY <1>1
<1>4. SubSeq(p, 1, n) = SubSeq(q, 1, n) <=> \A i \in 1..n : p[i] = q[i]
  <2> HIDE DEF n
  <2>1. ASSUME \A i \in 1..n : p[i] = q[i] PROVE SubSeq(p, 1, n) = SubSeq(q, 1, n)
    BY <1>2, <1>3, <2>1, SeqEqual
  <2> QED
    BY <1>2, <1>3, <2>1
<1>5. (\A i \in 1..n : p[i] = q[i]) <=> \A i \in 1..Len(p) : i <= Len(q) => p[i] = q[i]
  BY <1>1
<1> QED
  BY <1>4, <1>5 DEF Comparable

\* Where two paths part.
PartAfter(p, q, n) ==
    /\ n \in Nat /\ n < Len(p) /\ n < Len(q)
    /\ \A i \in 1..n : p[i] = q[i]
    /\ p[n + 1] # q[n + 1]

Agree(p, q, n) == \A i \in 1..n : p[i] = q[i]

LEMMA FirstDifference ==
  ASSUME NEW p, NEW q, NEW n \in Nat, ~Agree(p, q, n)
  PROVE  \E r \in Nat : r < n /\ Agree(p, q, r) /\ p[r + 1] # q[r + 1]
<1> USE DEF Agree
<1> DEFINE S == {m \in Nat : m <= n => \A i \in 1..m : p[i] = q[i]}
<1>1. SUFFICES ASSUME \A r \in Nat :
                         r < n /\ (\A i \in 1..r : p[i] = q[i]) => p[r + 1] = q[r + 1]
               PROVE  FALSE
  OBVIOUS
<1>2. 0 \in S
  OBVIOUS
<1>3. ASSUME NEW m \in Nat, m \in S PROVE m + 1 \in S
  <2>1. SUFFICES ASSUME m + 1 <= n, NEW i \in 1..(m + 1) PROVE p[i] = q[i]
    OBVIOUS
  <2>2. m < n /\ \A j \in 1..m : p[j] = q[j]
    BY <1>3, <2>1
  <2>3. p[m + 1] = q[m + 1]
    BY <1>1, <2>2, Zenon
  <2>4. i = m + 1 \/ i \in 1..m
    BY <2>1
  <2> QED
    BY <2>2, <2>3, <2>4
<1>4. Nat \subseteq S
  <2> HIDE DEF S
  <2> QED
    BY <1>2, <1>3, SetInduction
<1> QED
  BY <1>4

\* From one node on, what stands there decides what stands further down.
LEMMA SameOnward ==
  ASSUME NEW t, NEW u, NEW path, Len(path) \in Nat, NEW n \in Nat, NEW m \in Nat,
         n <= m, m <= Len(path), Node(t, path, n) = Node(u, path, n)
  PROVE  Node(t, path, m) = Node(u, path, m)
<1> DEFINE S == {i \in Nat : n + i <= Len(path) => Node(t, path, n + i) = Node(u, path, n + i)}
<1>1. 0 \in S
  OBVIOUS
<1>2. ASSUME NEW i \in Nat, i \in S PROVE i + 1 \in S
  <2>1. SUFFICES ASSUME n + (i + 1) <= Len(path)
                 PROVE  Node(t, path, n + (i + 1)) = Node(u, path, n + (i + 1))
    OBVIOUS
  <2>2. /\ n + i \in Nat /\ n + i < Len(path) /\ n + (i + 1) = (n + i) + 1
        /\ Node(t, path, n + i) = Node(u, path, n + i)
    BY <1>2, <2>1
  <2>3. /\ Node(t, path, (n + i) + 1) = Below(Node(t, path, n + i), path[(n + i) + 1])
        /\ Node(u, path, (n + i) + 1) = Below(Node(u, path, n + i), path[(n + i) + 1])
    BY <2>2, NodeNext
  <2> QED
    BY <2>2, <2>3
<1>3. Nat \subseteq S
  <2> HIDE DEF S
  <2> QED
    BY <1>1, <1>2, SetInduction
<1>4. m - n \in Nat /\ n + (m - n) = m
  OBVIOUS
<1> QED
  BY <1>3, <1>4

-----------------------------------------------------------------------------
(* unflatten puts one leaf                                                 *)

PutOf(t, path, val, put, n) ==
    Assign(MapHere(t, path, n), path[n],
           IF n = Len(path) THEN [leaf |-> val] ELSE [map |-> put[n + 1]])
Puts(t, path, val) ==
    CHOOSE put : put = [n \in 1..Len(path) |-> PutOf(t, path, val, put, n)]

LEMMA PutsExist ==
  ASSUME NEW t, NEW path, NEW val, Len(path) \in Nat
  PROVE  Puts(t, path, val)
           = [n \in 1..Len(path) |-> PutOf(t, path, val, Puts(t, path, val), n)]
<1> DEFINE Low(j) == {n \in 1..Len(path) : n + j >= Len(path)}
           S == {j \in Nat : \E f : f = [n \in Low(j) |-> PutOf(t, path, val, f, n)]}
<1>1. 0 \in S
  <2> DEFINE f == [n \in Low(0) |-> PutOf(t, path, val, <<>>, n)]
  <2>1. ASSUME NEW n \in Low(0)
        PROVE  PutOf(t, path, val, f, n) = PutOf(t, path, val, <<>>, n)
    <3>1. n = Len(path)
      OBVIOUS
    <3> HIDE DEF f
    <3> QED
      BY <3>1 DEF PutOf
  <2>2. f = [n \in Low(0) |-> PutOf(t, path, val, f, n)]
    BY <2>1
  <2> HIDE DEF f, Low
  <2> QED
    BY <2>2
<1>2. ASSUME NEW j \in Nat, j \in S PROVE j + 1 \in S
  <2>1. PICK f : f = [n \in Low(j) |-> PutOf(t, path, val, f, n)]
    BY <1>2
  <2> DEFINE g == [n \in Low(j + 1) |-> PutOf(t, path, val, f, n)]
  <2>2. ASSUME NEW n \in Low(j + 1)
        PROVE  PutOf(t, path, val, g, n) = PutOf(t, path, val, f, n)
    <3>1. CASE n = Len(path)
      <4> HIDE DEF g
      <4> QED
        BY <3>1 DEF PutOf
    <3>2. CASE n # Len(path)
      <4>1. n + 1 \in Low(j) /\ n + 1 \in Low(j + 1)
        BY <3>2
      <4> HIDE DEF Low
      <4>2. g[n + 1] = f[n + 1]
        BY <2>1, <4>1
      <4> HIDE DEF g
      <4> QED
        BY <3>2, <4>2 DEF PutOf
    <3> QED
      BY <3>1, <3>2
  <2>3. g = [n \in Low(j + 1) |-> PutOf(t, path, val, g, n)]
    BY <2>2
  <2> HIDE DEF g, Low
  <2> QED
    BY <2>3
<1>3. Nat \subseteq S
  <2> HIDE DEF S
  <2> QED
    BY <1>1, <1>2, SetInduction
<1>4. Low(Len(path)) = 1..Len(path)
  OBVIOUS
<1>5. \E f : f = [n \in 1..Len(path) |-> PutOf(t, path, val, f, n)]
  BY <1>3, <1>4
<1> QED
  BY <1>5 DEF Puts

\* The maps on the way to the leaf.
LEMMA PutsAre ==
  ASSUME NEW t, NEW path, NEW val, Len(path) \in Nat, NEW n \in 1..Len(path)
  PROVE  /\ path[n] \in DOMAIN Puts(t, path, val)[n]
         /\ Puts(t, path, val)[n][path[n]]
              = IF n = Len(path) THEN [leaf |-> val] ELSE [map |-> Puts(t, path, val)[n + 1]]
<1>1. Puts(t, path, val)[n] = PutOf(t, path, val, Puts(t, path, val), n)
  BY PutsExist
<1> DEFINE here == MapHere(t, path, n)
           x == IF n = Len(path) THEN [leaf |-> val] ELSE [map |-> Puts(t, path, val)[n + 1]]
<1>2. Puts(t, path, val)[n] = Assign(here, path[n], x)
  BY <1>1 DEF PutOf
<1> HIDE DEF here, x
<1>3. path[n] \in DOMAIN Assign(here, path[n], x) /\ Assign(here, path[n], x)[path[n]] = x
  BY DEF Assign
<1> QED
  BY <1>2, <1>3, Zenon DEF here, x

LEMMA PutsElsewhere ==
  ASSUME NEW t, NEW path, NEW val, Len(path) \in Nat, NEW n \in 1..Len(path)
  PROVE  /\ DOMAIN Puts(t, path, val)[n] = {path[n]} \cup DOMAIN MapHere(t, path, n)
         /\ \A j \in DOMAIN MapHere(t, path, n) :
              j # path[n] => Puts(t, path, val)[n][j] = MapHere(t, path, n)[j]
<1> DEFINE x == IF n = Len(path) THEN [leaf |-> val] ELSE [map |-> Puts(t, path, val)[n + 1]]
<1>1. Puts(t, path, val)[n] = Assign(MapHere(t, path, n), path[n], x)
  BY PutsExist DEF PutOf
<1> HIDE DEF x
<1> QED
  BY <1>1 DEF Assign

\* Along the path there are these maps, then the leaf.
LEMMA PutAlong ==
  ASSUME NEW t, NEW path, NEW val, Len(path) \in Nat \ {0},
         NEW q, Len(q) \in Nat, NEW n \in Nat, n <= Len(q), n <= Len(path),
         \A i \in 1..n : q[i] = path[i]
  PROVE  Node(Put(t, path, val), q, n)
           = IF n < Len(path) THEN [map |-> Puts(t, path, val)[n + 1]] ELSE [leaf |-> val]
<1> DEFINE U == Put(t, path, val)
           Is(i) == Node(U, q, i) = IF i < Len(path) THEN [map |-> Puts(t, path, val)[i + 1]]
                                    ELSE [leaf |-> val]
           S == {i \in Nat : i <= n => Is(i)}
<1>1. 0 \in S
  <2>1. U = Puts(t, path, val)[1]
    BY DEF Put, Puts, PutOf
  <2> HIDE DEF U
  <2>2. Node(U, q, 0) = [map |-> U]
    BY NodeRoot
  <2> QED
    BY <2>1, <2>2
<1>2. ASSUME NEW i \in Nat, i \in S PROVE i + 1 \in S
  <2>1. SUFFICES ASSUME i + 1 <= n PROVE Is(i + 1)
    OBVIOUS
  <2>2. /\ i < Len(path) /\ i < Len(q) /\ i + 1 \in 1..Len(path)
        /\ q[i + 1] = path[i + 1] /\ Len(path) \in Nat
    BY <2>1
  <2> DEFINE m == Puts(t, path, val)[i + 1]
  <2>3. Node(U, q, i) = [map |-> m]
    BY <1>2, <2>1, <2>2
  <2> HIDE DEF U
  <2>4. Node(U, q, i + 1) = Below(Node(U, q, i), q[i + 1])
    BY <2>2, NodeNext, Zenon
  <2>5. /\ path[i + 1] \in DOMAIN m
        /\ m[path[i + 1]] = IF i + 1 = Len(path) THEN [leaf |-> val]
                            ELSE [map |-> Puts(t, path, val)[(i + 1) + 1]]
    BY <2>2, PutsAre
  <2> HIDE DEF m
  <2>6. Below([map |-> m], path[i + 1]) = m[path[i + 1]]
    BY <2>5, BelowIs, Kinds
  <2>7. Node(U, q, i + 1) = m[path[i + 1]]
    BY <2>2, <2>3, <2>4, <2>6, Zenon
  <2> QED
    BY <2>2, <2>5, <2>7
<1>3. Nat \subseteq S
  <2> HIDE DEF S
  <2> QED
    BY <1>1, <1>2, SetInduction
<1> QED
  BY <1>3

\* Off the path nothing changes.
LEMMA PutAside ==
  ASSUME NEW t, NEW path, NEW val, Len(path) \in Nat, NEW q, Len(q) \in Nat,
         NEW n \in Nat, PartAfter(q, path, n), NEW m \in Nat, n < m, m <= Len(q)
  PROVE  Node(Put(t, path, val), q, m) = Node(t, q, m)
<1> DEFINE U == Put(t, path, val)
           P == Puts(t, path, val)[n + 1]
<1>1. /\ n < Len(path) /\ n < Len(q) /\ n + 1 \in 1..Len(path) /\ (n + 1) - 1 = n
      /\ \A i \in 1..n : q[i] = path[i]
      /\ \A i \in 1..n : path[i] = q[i]
      /\ q[n + 1] # path[n + 1]
      /\ Len(path) \in Nat \ {0} /\ n <= Len(q) /\ n <= Len(path)
  BY DEF PartAfter
<1>2. Node(U, q, n) = [map |-> P]
  BY <1>1, PutAlong
<1>3. Node(t, path, n) = Node(t, q, n)
  BY <1>1, NodeAgrees
<1>4. MapHere(t, path, n + 1) = MapOf(Node(t, q, n))
  BY <1>1, <1>3 DEF MapHere
<1>5. /\ DOMAIN P = {path[n + 1]} \cup DOMAIN MapOf(Node(t, q, n))
      /\ \A j \in DOMAIN MapOf(Node(t, q, n)) :
            j # path[n + 1] => P[j] = MapOf(Node(t, q, n))[j]
  <2> DEFINE i == n + 1
  <2>0. i \in 1..Len(path)
    BY <1>1
  <2> HIDE DEF i
  <2>1. /\ DOMAIN Puts(t, path, val)[i] = {path[i]} \cup DOMAIN MapHere(t, path, i)
        /\ \A j \in DOMAIN MapHere(t, path, i) :
              j # path[i] => Puts(t, path, val)[i][j] = MapHere(t, path, i)[j]
    BY <2>0, PutsElsewhere
  <2> HIDE DEF P
  <2> QED
    BY <1>4, <2>1, Zenon DEF i, P
<1> HIDE DEF P, U
<1>6. Below([map |-> P], q[n + 1]) = Below(Node(t, q, n), q[n + 1])
  <2>1. MapOf([map |-> P]) = P
    BY Kinds
  <2>2. CASE q[n + 1] \in DOMAIN P
    BY <1>1, <1>5, <2>1, <2>2, BelowIs
  <2>3. CASE q[n + 1] \notin DOMAIN P
    BY <1>5, <2>1, <2>3, BelowIs
  <2> QED
    BY <2>2, <2>3
<1>7. Node(U, q, n + 1) = Node(t, q, n + 1)
  BY <1>1, <1>2, <1>6, NodeNext
<1> QED
  BY <1>1, <1>7, SameOnward DEF U

\* What stands somewhere after an assignment.
LEMMA PutNode ==
  ASSUME NEW t, NEW path \in Seq(Keys), path # <<>>, NEW val,
         NEW q \in Seq(Keys), NEW n \in 0..Len(q)
  PROVE  \/ /\ n < Len(path) /\ Agree(q, path, n)
            /\ Node(Put(t, path, val), q, n) = [map |-> Puts(t, path, val)[n + 1]]
         \/ /\ n = Len(path) /\ Agree(q, path, n)
            /\ Node(Put(t, path, val), q, n) = [leaf |-> val]
         \/ /\ n > Len(path) /\ Agree(q, path, Len(path))
            /\ Node(Put(t, path, val), q, n) = Absent
         \/ /\ \E r \in Nat : r < n /\ PartAfter(q, path, r)
            /\ Node(Put(t, path, val), q, n) = Node(t, q, n)
<1>1. Len(q) \in Nat /\ Len(path) \in Nat \ {0} /\ n \in Nat /\ n <= Len(q)
  BY EmptySeq, LenProperties
<1> DEFINE c == IF n < Len(path) THEN n ELSE Len(path)
           U == Put(t, path, val)
<1>2. CASE ~Agree(q, path, c)
  <2>1. c \in Nat
    BY <1>1
  <2> HIDE DEF c
  <2>2. PICK r \in Nat : r < c /\ Agree(q, path, r) /\ q[r + 1] # path[r + 1]
    BY <1>2, <2>1, FirstDifference, Zenon
  <2>3. r < n /\ r < Len(path) /\ r < Len(q)
    BY <1>1, <2>2 DEF c
  <2>4. PartAfter(q, path, r)
    BY <2>2, <2>3 DEF PartAfter, Agree
  <2>5. Node(U, q, n) = Node(t, q, n)
    BY <1>1, <2>3, <2>4, PutAside
  <2> QED
    BY <2>3, <2>4, <2>5
<1>3. CASE Agree(q, path, c) /\ n <= Len(path)
  <2>1. Agree(q, path, n)
    BY <1>1, <1>3 DEF Agree
  <2>2. Node(U, q, n) = IF n < Len(path) THEN [map |-> Puts(t, path, val)[n + 1]]
                        ELSE [leaf |-> val]
    BY <1>1, <1>3, <2>1, PutAlong DEF Agree
  <2> QED
    BY <1>1, <1>3, <2>1, <2>2
<1>4. CASE Agree(q, path, c) /\ n > Len(path)
  <2> DEFINE l == Len(path)
  <2>1. /\ Agree(q, path, l)
        /\ l \in Nat /\ l <= Len(q) /\ l < n
    BY <1>1, <1>4 DEF Agree
  <2>2. Node(U, q, l) = [leaf |-> val]
    BY <1>1, <2>1, PutAlong DEF Agree
  <2> HIDE DEF l, U
  <2>3. DOMAIN MapOf(Node(U, q, l)) = {}
    BY <2>2, Kinds
  <2>4. Node(U, q, n) = Absent
    BY <1>1, <2>1, <2>3, NothingBelow
  <2> QED
    BY <1>4, <2>1, <2>4 DEF l, U
<1> QED
  BY <1>1, <1>2, <1>3, <1>4

\* Where a path has parted it stays parted.
LEMMA PartedIsOff ==
  ASSUME NEW q \in Seq(Keys), NEW p \in Seq(Keys), NEW r, PartAfter(q, p, r)
  PROVE  ~Comparable(q, p)
<1>1. Len(q) \in Nat /\ r \in Nat /\ r < Len(q) /\ r < Len(p) /\ q[r + 1] # p[r + 1]
  BY LenProperties DEF PartAfter
<1>2. Len(p) \in Nat /\ r + 1 \in 1..Len(q) /\ r + 1 <= Len(p)
  BY <1>1, LenProperties
<1> QED
  BY <1>1, <1>2, ComparableIs DEF Agree

LEMMA PutKeepsTree ==
  ASSUME NEW t, TreeOK(t), NEW path \in Addresses \ {<<>>}, NEW val
  PROVE  TreeOK(Put(t, path, val))
<1> DEFINE U == Put(t, path, val)
<1>1. /\ path \in Seq(Keys) /\ Len(path) \in Nat /\ Len(path) <= MaxDepth /\ MaxDepth \in Nat
      /\ \A i \in 1..Len(path) : path[i] \in Keys
  BY AddressFacts, MaxDepthAssumption, ElementOfSeq
<1>2. SUFFICES ASSUME NEW q \in Seq(Keys), NEW n \in 0..Len(q)
               PROVE  LET m == MapOf(Node(U, q, n))
                      IN  /\ DOMAIN m \subseteq Keys
                          /\ n >= MaxDepth => DOMAIN m = {}
                          /\ \A k \in DOMAIN m : IsMap(m[k]) <=> ~IsLeaf(m[k])
  BY DEF TreeOK
<1>3. CASE n < Len(path) /\ Node(U, q, n) = [map |-> Puts(t, path, val)[n + 1]]
  <2> DEFINE m == Puts(t, path, val)[n + 1]
             i == n + 1
             here == MapOf(Node(t, path, n))
  <2>1. i \in 1..Len(path) /\ i - 1 = n /\ n \in 0..Len(path)
    BY <1>1, <1>3
  <2>2. MapHere(t, path, i) = here
    BY <2>1 DEF MapHere
  <2>3. /\ DOMAIN here \subseteq Keys /\ \A k \in DOMAIN here : IsMap(here[k]) <=> ~IsLeaf(here[k])
    BY <1>1, <2>1 DEF TreeOK
  <2> HIDE DEF here, i
  <2>4. /\ DOMAIN Puts(t, path, val)[i] = {path[i]} \cup DOMAIN here
        /\ \A j \in DOMAIN here : j # path[i] => Puts(t, path, val)[i][j] = here[j]
    BY <1>1, <2>1, <2>2, PutsElsewhere
  <2>5. Puts(t, path, val)[i][path[i]]
          = IF i = Len(path) THEN [leaf |-> val] ELSE [map |-> Puts(t, path, val)[i + 1]]
    BY <1>1, <2>1, PutsAre
  <2>6. m = Puts(t, path, val)[i]
    BY DEF i
  <2> HIDE DEF m
  <2>7. IsMap(m[path[i]]) <=> ~IsLeaf(m[path[i]])
    BY <2>5, <2>6, Kinds
  <2>8. DOMAIN m \subseteq Keys /\ \A k \in DOMAIN m : IsMap(m[k]) <=> ~IsLeaf(m[k])
    BY <1>1, <2>1, <2>3, <2>4, <2>6, <2>7
  <2>9. MapOf(Node(U, q, n)) = m
    BY <1>3, Kinds DEF m
  <2> QED
    BY <1>1, <1>3, <2>8, <2>9
<1>4. CASE Node(U, q, n) = [leaf |-> val] \/ Node(U, q, n) = Absent
  BY <1>4, Kinds
<1>5. CASE Node(U, q, n) = Node(t, q, n)
  BY <1>5 DEF TreeOK
<1>6. path # <<>>
  OBVIOUS
<1> QED
  BY <1>1, <1>3, <1>4, <1>5, <1>6, PutNode

\* The leaves after an assignment: the new one, and those it has not replaced.
LEMMA PutLeaf ==
  ASSUME NEW t, NEW path \in Addresses \ {<<>>}, NEW val, NEW q \in Addresses
  PROVE  LET U == Put(t, path, val)
         IN  /\ q = path => At(U, q) = [leaf |-> val]
             /\ q # path => (IsLeaf(At(U, q)) <=> ~Comparable(q, path) /\ IsLeaf(At(t, q)))
             /\ ~Comparable(q, path) => At(U, q) = At(t, q)
<1> DEFINE U == Put(t, path, val)
<1>1. /\ path \in Seq(Keys) /\ Len(path) \in Nat /\ path # <<>>
      /\ q \in Seq(Keys) /\ Len(q) \in Nat /\ Len(q) \in 0..Len(q)
  BY AddressFacts, MaxDepthAssumption
<1>2. ASSUME Len(q) < Len(path), Agree(q, path, Len(q))
      PROVE  Comparable(q, path) /\ q # path
  BY <1>1, <1>2, ComparableIs DEF Agree
<1>3. ASSUME Len(q) = Len(path), Agree(q, path, Len(q))
      PROVE  Comparable(q, path) /\ q = path
  <2>1. q = path
    BY <1>1, <1>3, SeqEqual DEF Agree
  <2>2. Comparable(q, path)
    BY <1>1, <1>3, ComparableIs DEF Agree
  <2> QED
    BY <2>1, <2>2
<1>4. ASSUME Len(q) > Len(path), Agree(q, path, Len(path))
      PROVE  Comparable(q, path) /\ q # path
  BY <1>1, <1>4, ComparableIs DEF Agree
<1>5. ASSUME NEW r, PartAfter(q, path, r)
      PROVE  ~Comparable(q, path) /\ q # path
  <2>1. ~Comparable(q, path)
    BY <1>1, <1>5, PartedIsOff
  <2> QED
    BY <1>5, <2>1 DEF PartAfter
<1> HIDE DEF U
<1>6. \/ /\ Len(q) < Len(path) /\ Agree(q, path, Len(q))
         /\ IsMap(At(U, q)) /\ ~IsLeaf(At(U, q))
      \/ /\ Len(q) = Len(path) /\ Agree(q, path, Len(q))
         /\ At(U, q) = [leaf |-> val]
      \/ /\ Len(q) > Len(path) /\ Agree(q, path, Len(path))
         /\ ~IsLeaf(At(U, q))
      \/ /\ \E r \in Nat : PartAfter(q, path, r)
         /\ At(U, q) = At(t, q)
  <2> DEFINE n == Len(q)
  <2>1. n \in 0..Len(q)
    BY <1>1
  <2> HIDE DEF n
  <2>2. \/ n < Len(path) /\ Agree(q, path, n) /\ IsMap(Node(U, q, n)) /\ ~IsLeaf(Node(U, q, n))
        \/ n = Len(path) /\ Agree(q, path, n) /\ Node(U, q, n) = [leaf |-> val]
        \/ n > Len(path) /\ Agree(q, path, Len(path)) /\ ~IsLeaf(Node(U, q, n))
        \/ (\E r \in Nat : PartAfter(q, path, r)) /\ Node(U, q, n) = Node(t, q, n)
    <3>1. CASE n < Len(path) /\ Agree(q, path, n) /\ Node(U, q, n) = [map |-> Puts(t, path, val)[n + 1]]
      BY <3>1, Kinds
    <3>2. CASE n = Len(path) /\ Agree(q, path, n) /\ Node(U, q, n) = [leaf |-> val]
      BY <3>2
    <3>3. CASE n > Len(path) /\ Agree(q, path, Len(path)) /\ Node(U, q, n) = Absent
      BY <3>3, Kinds
    <3>4. CASE (\E r \in Nat : PartAfter(q, path, r)) /\ Node(U, q, n) = Node(t, q, n)
      BY <3>4
    <3>5. path \in Seq(Keys) /\ path # <<>> /\ q \in Seq(Keys)
      BY <1>1
    <3>6. \/ n < Len(path) /\ Agree(q, path, n) /\ Node(U, q, n) = [map |-> Puts(t, path, val)[n + 1]]
          \/ n = Len(path) /\ Agree(q, path, n) /\ Node(U, q, n) = [leaf |-> val]
          \/ n > Len(path) /\ Agree(q, path, Len(path)) /\ Node(U, q, n) = Absent
          \/ (\E r \in Nat : r < n /\ PartAfter(q, path, r)) /\ Node(U, q, n) = Node(t, q, n)
      BY <2>1, <3>5, PutNode DEF U
    <3> QED
      BY <3>1, <3>2, <3>3, <3>4, <3>6, Zenon
  <2> QED
    BY <2>2 DEF n, At
<1>7. /\ q = path => At(U, q) = [leaf |-> val]
      /\ q # path => (IsLeaf(At(U, q)) <=> ~Comparable(q, path) /\ IsLeaf(At(t, q)))
      /\ ~Comparable(q, path) => At(U, q) = At(t, q)
  <2>1. CASE Len(q) < Len(path) /\ Agree(q, path, Len(q)) /\ ~IsLeaf(At(U, q))
    BY <1>2, <2>1, Zenon
  <2>2. CASE /\ Len(q) = Len(path) /\ Agree(q, path, Len(q))
             /\ At(U, q) = [leaf |-> val]
    BY <1>3, <2>2, Zenon
  <2>3. CASE Len(q) > Len(path) /\ Agree(q, path, Len(path)) /\ ~IsLeaf(At(U, q))
    BY <1>4, <2>3, Zenon
  <2>4. CASE (\E r \in Nat : PartAfter(q, path, r)) /\ At(U, q) = At(t, q)
    BY <1>5, <2>4, Zenon
  <2> QED
    BY <1>6, <2>1, <2>2, <2>3, <2>4, Zenon
<1> QED
  BY <1>7 DEF U

LEMMA PutFollows ==
  ASSUME NEW t, TreeOK(t), NEW path \in Addresses \ {<<>>}, NEW val
  PROVE  Leaves(Put(t, path, val)) = Overlay(Leaves(t), {Leaf(path, val)})
<1> DEFINE U == Put(t, path, val)
           new == Leaf(path, val)
<1>1. /\ Leaves(t) = {Leaf(q, At(t, q).leaf) : q \in LeafPaths(t)}
      /\ Leaves(U) = {Leaf(q, At(U, q).leaf) : q \in LeafPaths(U)}
  BY LeavesAre, PutKeepsTree
<1>2. ASSUME NEW q \in Addresses
      PROVE  /\ q = path => At(U, q) = [leaf |-> val]
             /\ q # path => (IsLeaf(At(U, q)) <=> ~Comparable(q, path) /\ IsLeaf(At(t, q)))
             /\ ~Comparable(q, path) => At(U, q) = At(t, q)
  BY PutLeaf
<1>3. ASSUME NEW q, NEW v PROVE Clashes(Leaf(q, v).path, {new}) <=> Comparable(q, path)
  BY DEF Clashes, Leaf
<1> HIDE DEF U, new
<1>4. ASSUME NEW q \in Addresses, ~Comparable(q, path) PROVE q # path
  BY <1>4, ComparableIs, AddressFacts
<1>5. ASSUME NEW x \in Leaves(U) PROVE x \in Overlay(Leaves(t), {new})
  <2>1. PICK q \in LeafPaths(U) : x = Leaf(q, At(U, q).leaf)
    BY <1>1
  <2>2. q \in Addresses /\ IsLeaf(At(U, q))
    BY DEF LeafPaths
  <2>3. CASE q = path
    BY <1>2, <2>1, <2>2, <2>3 DEF Overlay, new
  <2>4. CASE q # path
    <3>1. ~Comparable(q, path) /\ IsLeaf(At(t, q)) /\ At(U, q) = At(t, q)
      BY <1>2, <2>2, <2>4
    <3>2. x \in Leaves(t)
      BY <1>1, <2>1, <2>2, <3>1 DEF LeafPaths
    <3>3. ~Clashes(x.path, {new})
      BY <1>3, <2>1, <3>1
    <3> QED
      BY <3>2, <3>3 DEF Overlay
  <2> QED
    BY <2>3, <2>4
<1>6. ASSUME NEW x \in Overlay(Leaves(t), {new}) PROVE x \in Leaves(U)
  <2>1. CASE x = new
    <3>1. At(U, path) = [leaf |-> val]
      BY <1>2
    <3>2. path \in LeafPaths(U)
      BY <3>1, Kinds DEF LeafPaths
    <3> QED
      BY <1>1, <2>1, <3>1, <3>2 DEF new
  <2>2. CASE x \in Leaves(t) /\ ~Clashes(x.path, {new})
    <3>1. PICK q \in LeafPaths(t) : x = Leaf(q, At(t, q).leaf)
      BY <1>1, <2>2
    <3>2. q \in Addresses /\ IsLeaf(At(t, q)) /\ ~Comparable(q, path)
      BY <1>3, <2>2, <3>1 DEF LeafPaths
    <3>3. IsLeaf(At(U, q)) /\ At(U, q) = At(t, q)
      BY <1>2, <1>4, <3>2
    <3> QED
      BY <1>1, <3>1, <3>2, <3>3 DEF LeafPaths
  <2> QED
    BY <2>1, <2>2 DEF Overlay
<1> QED
  BY <1>5, <1>6 DEF U, new

\* There are leaves in every map: unflatten makes one only on the way to a leaf.
Filled(t) == \A p \in Addresses \ {<<>>} : IsMap(At(t, p)) => \E q \in LeafPaths(t) : Under(q, p)

LEMMA PutFills ==
  ASSUME NEW t, Filled(t), NEW path \in Addresses \ {<<>>}, NEW val
  PROVE  Filled(Put(t, path, val))
<1> DEFINE U == Put(t, path, val)
<1>1. SUFFICES ASSUME NEW p \in Addresses \ {<<>>}, IsMap(At(U, p))
               PROVE  \E q \in LeafPaths(U) : Under(q, p)
  BY DEF Filled
<1>2. /\ \A a \in Addresses : a \in Seq(Keys) /\ Len(a) \in Nat
      /\ path \in Seq(Keys) /\ path # <<>> /\ path \in Addresses
  BY AddressFacts, MaxDepthAssumption
<1> DEFINE n == Len(p)
<1>3. p \in Seq(Keys) /\ n \in Nat /\ n \in 0..Len(p) /\ n <= Len(p)
  BY <1>2
<1>4. \/ n < Len(path) /\ Agree(p, path, n) /\ Node(U, p, n) = [map |-> Puts(t, path, val)[n + 1]]
      \/ n = Len(path) /\ Agree(p, path, n) /\ Node(U, p, n) = [leaf |-> val]
      \/ n > Len(path) /\ Agree(p, path, Len(path)) /\ Node(U, p, n) = Absent
      \/ (\E r \in Nat : r < n /\ PartAfter(p, path, r)) /\ Node(U, p, n) = Node(t, p, n)
  BY <1>2, <1>3, PutNode
<1>5. IsMap(Node(U, p, n))
  BY <1>1 DEF At
<1> HIDE DEF U
<1>6. CASE n < Len(path) /\ Agree(p, path, n)
  <2>1. Under(path, p)
    BY <1>3, <1>6 DEF Under, Agree
  <2>2. path \in LeafPaths(U)
    BY <1>2, PutLeaf, Kinds DEF LeafPaths, U
  <2> QED
    BY <2>1, <2>2
<1>7. CASE (\E r \in Nat : r < n /\ PartAfter(p, path, r)) /\ Node(U, p, n) = Node(t, p, n)
  <2>1. PICK r \in Nat : r < n /\ PartAfter(p, path, r)
    BY <1>7
  <2>2. IsMap(At(t, p))
    BY <1>5, <1>7 DEF At
  <2>3. PICK q \in LeafPaths(t) : Under(q, p)
    BY <2>2 DEF Filled
  <2>4. q \in Addresses /\ IsLeaf(At(t, q)) /\ q \in Seq(Keys) /\ Len(q) \in Nat
    BY <1>2 DEF LeafPaths
  <2>5. PartAfter(q, path, r)
    BY <1>3, <2>1, <2>3, <2>4 DEF PartAfter, Under
  <2>6. ~Comparable(q, path)
    BY <1>2, <2>4, <2>5, PartedIsOff
  <2>7. At(U, q) = At(t, q)
    BY <2>4, <2>6, PutLeaf DEF U
  <2> QED
    BY <2>3, <2>4, <2>7 DEF LeafPaths
<1> QED
  BY <1>4, <1>5, <1>6, <1>7, Kinds

-----------------------------------------------------------------------------
(* child opens a map                                                       *)

LEMMA ChildNode ==
  ASSUME NEW t, NEW k, NEW q, Len(q) \in Nat, NEW n \in 1..Len(q)
  PROVE  Node(Child(t, k), q, n) = IF n = 1 /\ q[1] = k THEN [map |-> MapOf(Node(t, q, 1))]
                                   ELSE Node(t, q, n)
<1> DEFINE C == Child(t, k)
<1>1. 1 \in 1..Len(q) /\ 1 \in Nat /\ n \in Nat /\ n <= Len(q) /\ 1 <= Len(q) /\ 1 - 1 = 0
  OBVIOUS
<1>2. /\ DOMAIN C = {k} \cup DOMAIN t
      /\ C[k] = [map |-> MapOf(Below([map |-> t], k))]
      /\ \A j \in DOMAIN t : j # k => C[j] = t[j]
  BY DEF Child, Assign
<1> HIDE DEF C
<1>3. /\ Node(C, q, 1) = Below([map |-> C], q[1])
      /\ Node(t, q, 1) = Below([map |-> t], q[1])
  BY NodeFirst
<1>4. MapOf([map |-> C]) = C /\ MapOf([map |-> t]) = t
  BY Kinds
<1>5. CASE q[1] # k
  <2>1. Node(C, q, 1) = Node(t, q, 1)
    <3>1. CASE q[1] \in DOMAIN t
      BY <1>2, <1>3, <1>4, <1>5, <3>1, BelowIs
    <3>2. CASE q[1] \notin DOMAIN t
      BY <1>2, <1>3, <1>4, <1>5, <3>2, BelowIs
    <3> QED
      BY <3>1, <3>2
  <2>2. Node(C, q, n) = Node(t, q, n)
    BY <1>1, <2>1, SameOnward
  <2> QED
    BY <1>5, <2>2 DEF C
<1>6. CASE q[1] = k
  <2> DEFINE b == Node(t, q, 1)
  <2>1. Node(C, q, 1) = [map |-> MapOf(b)]
    BY <1>2, <1>3, <1>4, <1>6, BelowIs
  <2>2. CASE n = 1
    BY <1>6, <2>1, <2>2 DEF C
  <2>3. CASE n # 1
    <3>1. 1 < Len(q) /\ 1 + 1 = 2 /\ 2 \in Nat /\ 2 <= n
      BY <2>3
    <3>2. Node(C, q, 2) = Below(Node(C, q, 1), q[2]) /\ Node(t, q, 2) = Below(b, q[2])
      BY <1>1, <3>1, NodeNext
    <3> HIDE DEF b
    <3>3. Below([map |-> MapOf(b)], q[2]) = Below(b, q[2])
      BY BelowIs, Kinds
    <3>4. Node(C, q, 2) = Node(t, q, 2)
      BY <2>1, <3>2, <3>3
    <3>5. Node(C, q, n) = Node(t, q, n)
      BY <1>1, <3>1, <3>4, SameOnward
    <3> QED
      BY <2>3, <3>5 DEF C
  <2> QED
    BY <2>2, <2>3
<1> QED
  BY <1>5, <1>6

LEMMA ChildKeepsTree ==
  ASSUME NEW t, TreeOK(t), NEW k \in Keys
  PROVE  TreeOK(Child(t, k))
<1> DEFINE C == Child(t, k)
<1>1. SUFFICES ASSUME NEW q \in Seq(Keys), NEW n \in 0..Len(q)
               PROVE  LET m == MapOf(Node(C, q, n))
                      IN  /\ DOMAIN m \subseteq Keys
                          /\ n >= MaxDepth => DOMAIN m = {}
                          /\ \A j \in DOMAIN m : IsMap(m[j]) <=> ~IsLeaf(m[j])
  BY DEF TreeOK
<1>2. Len(q) \in Nat /\ MaxDepth \in Nat \ {0} /\ 0 \in 0..Len(q)
  BY LenProperties, MaxDepthAssumption
<1>3. CASE n = 0
  <2>1. MapOf(Node(C, q, n)) = C /\ MapOf(Node(t, q, 0)) = t
    BY <1>2, <1>3, NodeRoot, Kinds
  <2>2. DOMAIN t \subseteq Keys /\ \A j \in DOMAIN t : IsMap(t[j]) <=> ~IsLeaf(t[j])
    BY <1>2, <2>1 DEF TreeOK
  <2>3. /\ DOMAIN C = {k} \cup DOMAIN t
        /\ C[k] = [map |-> MapOf(Below([map |-> t], k))]
        /\ \A j \in DOMAIN t : j # k => C[j] = t[j]
    BY DEF Child, Assign
  <2> HIDE DEF C
  <2>4. IsMap(C[k]) /\ ~IsLeaf(C[k])
    BY <2>3, Kinds
  <2> QED
    BY <1>2, <1>3, <2>1, <2>2, <2>3, <2>4
<1>4. CASE n # 0
  <2>1. n \in 1..Len(q)
    BY <1>2, <1>4
  <2>2. MapOf(Node(C, q, n)) = MapOf(Node(t, q, n))
    BY <1>2, <2>1, ChildNode, Kinds
  <2> QED
    BY <2>2 DEF TreeOK
<1> QED
  BY <1>3, <1>4

LEMMA ChildFollows ==
  ASSUME NEW t, TreeOK(t), NEW k \in Keys
  PROVE  Leaves(Child(t, k)) = Opened(Leaves(t), k)
<1> DEFINE C == Child(t, k)
<1>1. /\ Leaves(t) = {Leaf(q, At(t, q).leaf) : q \in LeafPaths(t)}
      /\ Leaves(C) = {Leaf(q, At(C, q).leaf) : q \in LeafPaths(C)}
  BY LeavesAre, ChildKeepsTree
<1>2. ASSUME NEW q \in Addresses
      PROVE  /\ IsLeaf(At(C, q)) <=> IsLeaf(At(t, q)) /\ q # <<k>>
             /\ q # <<k>> => (IsLeaf(At(C, q)) => At(C, q) = At(t, q))
  <2>1. q \in Seq(Keys) /\ Len(q) \in Nat
    BY AddressFacts, MaxDepthAssumption
  <2>2. q = <<k>> <=> Len(q) = 1 /\ q[1] = k
    BY <2>1
  <2>3. CASE Len(q) = 0
    <3>1. IsMap(At(C, q)) /\ ~IsLeaf(At(C, q)) /\ ~IsLeaf(At(t, q))
      BY <2>1, <2>3, NodeRoot, Kinds DEF At
    <3> QED
      BY <3>1
  <2>4. CASE Len(q) # 0
    <3>1. Len(q) \in 1..Len(q)
      BY <2>1, <2>4
    <3> DEFINE n == Len(q)
    <3>2. Node(C, q, n) = IF n = 1 /\ q[1] = k THEN [map |-> MapOf(Node(t, q, 1))]
                          ELSE Node(t, q, n)
      <4>1. n \in 1..Len(q)
        BY <3>1
      <4> HIDE DEF n
      <4> QED
        BY <2>1, <4>1, ChildNode
    <3> HIDE DEF C
    <3>3. At(C, q) = IF q = <<k>> THEN [map |-> MapOf(Node(t, q, 1))] ELSE At(t, q)
      BY <2>2, <3>2, Zenon DEF At
    <3> QED
      BY <3>3, Kinds
  <2>5. q = <<k>> => Len(q) # 0
    BY <2>2
  <2> QED
    BY <2>3, <2>4
<1> HIDE DEF C
<1>3. \A q, v : Leaf(q, v).path = q
  BY DEF Leaf
<1>4. ASSUME NEW x \in Leaves(C) PROVE x \in Opened(Leaves(t), k)
  <2>1. PICK q \in LeafPaths(C) : x = Leaf(q, At(C, q).leaf)
    BY <1>1, <1>4
  <2>2. q \in LeafPaths(t) /\ q # <<k>> /\ At(C, q) = At(t, q)
    BY <1>2 DEF LeafPaths
  <2> QED
    BY <1>1, <1>3, <2>1, <2>2 DEF Opened
<1>5. ASSUME NEW x \in Opened(Leaves(t), k) PROVE x \in Leaves(C)
  <2>1. PICK q \in LeafPaths(t) : x = Leaf(q, At(t, q).leaf) /\ q # <<k>>
    BY <1>1, <1>3, <1>5 DEF Opened
  <2>2. q \in LeafPaths(C) /\ At(C, q) = At(t, q)
    BY <1>2, <2>1 DEF LeafPaths
  <2> QED
    BY <1>1, <2>1, <2>2
<1> QED
  BY <1>4, <1>5 DEF C

-----------------------------------------------------------------------------
(* deepMerge lays one map over another                                     *)

MergeOf(d, s, f, at) ==
    Combine(MapOf(At(d, at)), MapOf(At(s, at)), [k \in Keys |-> f[Append(at, k)]])
Merged(d, s) == CHOOSE f : f = [at \in Addresses |-> MergeOf(d, s, f, at)]

LEMMA MergeLooksBelow ==
  ASSUME NEW d, TreeOK(d), NEW s, NEW at \in Addresses, NEW f, NEW g,
         \A k \in Keys : Len(at) < MaxDepth => f[Append(at, k)] = g[Append(at, k)]
  PROVE  MergeOf(d, s, f, at) = MergeOf(d, s, g, at)
<1> DEFINE dm == MapOf(At(d, at))
           sm == MapOf(At(s, at))
           F == [k \in Keys |-> f[Append(at, k)]]
           G == [k \in Keys |-> g[Append(at, k)]]
<1>1. \A k \in DOMAIN dm : F[k] = G[k]
  BY KeysAt
<1> HIDE DEF dm, sm, F, G
<1>2. Combine(dm, sm, F) = Combine(dm, sm, G)
  BY <1>1 DEF Combine
<1> QED
  BY <1>2 DEF MergeOf, dm, sm, F, G

LEMMA MergedExists ==
  ASSUME NEW d, TreeOK(d), NEW s
  PROVE  Merged(d, s) = [at \in Addresses |-> MergeOf(d, s, Merged(d, s), at)]
<1> DEFINE Low(j) == {a \in Addresses : Len(a) + j >= MaxDepth}
           S == {j \in Nat : \E f : f = [p \in Low(j) |-> MergeOf(d, s, f, p)]}
<1>0. MaxDepth \in Nat /\ \A a \in Addresses : Len(a) \in Nat /\ Len(a) <= MaxDepth
  BY MaxDepthAssumption, AddressFacts
<1>1. 0 \in S
  <2> DEFINE f == [p \in Low(0) |-> MergeOf(d, s, <<>>, p)]
  <2>1. ASSUME NEW p \in Low(0) PROVE MergeOf(d, s, f, p) = MergeOf(d, s, <<>>, p)
    <3>1. p \in Addresses /\ ~(Len(p) < MaxDepth)
      BY <1>0
    <3> HIDE DEF f
    <3> QED
      BY <3>1, MergeLooksBelow
  <2>2. f = [p \in Low(0) |-> MergeOf(d, s, f, p)]
    BY <2>1
  <2> HIDE DEF f, Low
  <2> QED
    BY <2>2
<1>2. ASSUME NEW j \in Nat, j \in S PROVE j + 1 \in S
  <2>1. PICK f : f = [p \in Low(j) |-> MergeOf(d, s, f, p)]
    BY <1>2
  <2> DEFINE g == [p \in Low(j + 1) |-> MergeOf(d, s, f, p)]
  <2>2. ASSUME NEW p \in Low(j + 1) PROVE MergeOf(d, s, g, p) = MergeOf(d, s, f, p)
    <3>1. ASSUME NEW k \in Keys, Len(p) < MaxDepth
          PROVE  g[Append(p, k)] = f[Append(p, k)]
      <4>1. Append(p, k) \in Addresses /\ Len(Append(p, k)) = Len(p) + 1
        BY <3>1, AddressFacts
      <4>2. Append(p, k) \in Low(j) /\ Append(p, k) \in Low(j + 1)
        BY <1>0, <4>1
      <4> HIDE DEF Low
      <4> QED
        BY <2>1, <4>2
    <3>2. p \in Addresses
      OBVIOUS
    <3> HIDE DEF g
    <3> QED
      BY <3>1, <3>2, MergeLooksBelow
  <2>3. g = [p \in Low(j + 1) |-> MergeOf(d, s, g, p)]
    BY <2>2
  <2> HIDE DEF g, Low
  <2> QED
    BY <2>3
<1>3. Nat \subseteq S
  <2> HIDE DEF S
  <2> QED
    BY <1>1, <1>2, SetInduction
<1>4. Low(MaxDepth) = Addresses
  BY <1>0
<1>5. \E f : f = [p \in Addresses |-> MergeOf(d, s, f, p)]
  BY <1>0, <1>3, <1>4
<1> QED
  BY <1>5 DEF Merged

\* The first keys of a path.
Front(q, n) == SubSeq(q, 1, n)

LEMMA FrontIs ==
  ASSUME NEW q \in Seq(Keys), NEW n \in 0..Len(q)
  PROVE  /\ Front(q, n) \in Seq(Keys) /\ Len(Front(q, n)) = n
         /\ \A i \in 1..n : Front(q, n)[i] = q[i]
         /\ n <= MaxDepth => Front(q, n) \in Addresses
         /\ \A t : At(t, Front(q, n)) = Node(t, q, n)
         /\ Front(q, 0) = <<>>
         /\ n = Len(q) => Front(q, n) = q
<1>1. Len(q) \in Nat /\ n \in Nat /\ n <= Len(q) /\ MaxDepth \in Nat
  BY LenProperties, MaxDepthAssumption
<1>2. /\ Front(q, n) \in Seq(Keys) /\ Len(Front(q, n)) = n
      /\ \A i \in 1..n : Front(q, n)[i] = q[i]
  BY <1>1 DEF Front
<1>3. n <= MaxDepth => Front(q, n) \in Addresses
  BY <1>1, <1>2, AddressFacts
<1>4. ASSUME NEW t PROVE At(t, Front(q, n)) = Node(t, q, n)
  <2> DEFINE p == Front(q, n)
  <2>1. Len(p) = n /\ \A i \in 1..n : p[i] = q[i]
    BY <1>2
  <2> HIDE DEF p
  <2>2. Node(t, p, n) = Node(t, q, n)
    BY <1>1, <2>1, NodeAgrees
  <2> QED
    BY <2>1, <2>2 DEF At, p
<1>5. Front(q, 0) = <<>>
  BY <1>1 DEF Front
<1>6. n = Len(q) => Front(q, n) = q
  BY <1>1, <1>2, SeqEqual
<1> QED
  BY <1>2, <1>3, <1>4, <1>5, <1>6

LEMMA FrontNext ==
  ASSUME NEW q \in Seq(Keys), NEW n \in Nat, n < Len(q)
  PROVE  Append(Front(q, n), q[n + 1]) = Front(q, n + 1)
<1> DEFINE a == Append(Front(q, n), q[n + 1])
           b == Front(q, n + 1)
<1>1. Len(q) \in Nat /\ n \in 0..Len(q) /\ n + 1 \in 0..Len(q) /\ q[n + 1] \in Keys
  BY LenProperties, ElementOfSeq
<1>2. /\ Front(q, n) \in Seq(Keys) /\ Len(Front(q, n)) = n
      /\ \A i \in 1..n : Front(q, n)[i] = q[i]
  BY <1>1, FrontIs
<1>3. /\ b \in Seq(Keys) /\ Len(b) = n + 1 /\ \A i \in 1..(n + 1) : b[i] = q[i]
  BY <1>1, FrontIs
<1>4. /\ a \in Seq(Keys) /\ Len(a) = n + 1 /\ a[n + 1] = q[n + 1]
      /\ \A i \in 1..n : a[i] = q[i]
  BY <1>1, <1>2, AppendProperties
<1>5. \A i \in 1..(n + 1) : a[i] = b[i]
  BY <1>3, <1>4
<1> HIDE DEF a, b
<1>6. a = b
  BY <1>3, <1>4, <1>5, SeqEqual
<1> QED
  BY <1>6 DEF a, b

\* Down to the n-th key there are maps on both sides.
Both(d, s, q, n) == \A i \in 0..n : IsMap(Node(d, q, i)) /\ IsMap(Node(s, q, i))

\* Three things a merged tree may have somewhere: a merged map, what the upper
\* tree has from the r-th key on, what the lower one has.
IsMerged(d, s, q, n) ==
    /\ n <= MaxDepth /\ Both(d, s, q, n)
    /\ Node(Merge(d, s), q, n) = [map |-> Merged(d, s)[Front(q, n)]]
IsUpper(d, s, q, n, r) ==
    /\ r \in 1..n /\ Both(d, s, q, r - 1)
    /\ Node(s, q, r) # Absent /\ ~(IsMap(Node(d, q, r)) /\ IsMap(Node(s, q, r)))
    /\ Node(Merge(d, s), q, n) = Node(s, q, n)
IsLower(d, s, q, n, r) ==
    /\ r \in 1..n /\ Both(d, s, q, r - 1)
    /\ Node(s, q, r) = Absent
    /\ Node(Merge(d, s), q, n) = Node(d, q, n)

LEMMA MergeStep ==
  ASSUME NEW d, TreeOK(d), NEW s, TreeOK(s), NEW q \in Seq(Keys),
         NEW n \in Nat, n < Len(q), IsMerged(d, s, q, n)
  PROVE  \/ IsMerged(d, s, q, n + 1)
         \/ IsUpper(d, s, q, n + 1, n + 1)
         \/ IsLower(d, s, q, n + 1, n + 1)
<1> DEFINE W == Merge(d, s)
           M == Merged(d, s)
           at == Front(q, n)
           k == q[n + 1]
           a == Node(d, q, n + 1)
           b == Node(s, q, n + 1)
           x == Node(W, q, n + 1)
           dm == MapOf(Node(d, q, n))
           sm == MapOf(Node(s, q, n))
           G == [j \in Keys |-> M[Append(at, j)]]
<1>1. /\ Len(q) \in Nat /\ n \in 0..Len(q) /\ k \in Keys /\ MaxDepth \in Nat /\ n <= MaxDepth
      /\ (n + 1) - 1 = n /\ n + 1 \in 1..(n + 1)
  BY LenProperties, ElementOfSeq, MaxDepthAssumption DEF IsMerged
<1>2. at \in Addresses /\ At(d, at) = Node(d, q, n) /\ At(s, at) = Node(s, q, n)
  BY <1>1, FrontIs
<1>3. M[at] = Combine(dm, sm, G)
  <2>1. M = [p \in Addresses |-> MergeOf(d, s, M, p)]
    BY MergedExists
  <2>2. M[at] = MergeOf(d, s, M, at)
    <3> HIDE DEF at, M
    <3> QED
      BY <1>2, <2>1
  <2> QED
    BY <1>2, <2>2, Zenon DEF MergeOf
<1>4. G[k] = M[Front(q, n + 1)]
  <2>1. Append(at, k) = Front(q, n + 1)
    BY FrontNext
  <2> HIDE DEF at, k, M
  <2> QED
    BY <1>1, <2>1
<1>5. /\ DOMAIN dm \subseteq Keys /\ (n >= MaxDepth => DOMAIN dm = {})
      /\ \A j \in DOMAIN sm : IsMap(sm[j]) <=> ~IsLeaf(sm[j])
  BY <1>1 DEF TreeOK
<1>6. /\ a = Below(Node(d, q, n), k)
      /\ b = Below(Node(s, q, n), k)
      /\ x = Below(Node(W, q, n), k)
  BY <1>1, NodeNext
<1>7. Both(d, s, q, n) /\ Node(W, q, n) = [map |-> M[at]]
  BY DEF IsMerged
<1>8. MapOf(Node(W, q, n)) = M[at]
  BY <1>7, Kinds
<1> HIDE DEF W, M, at, k, a, b, x, dm, sm, G
<1>9. CASE k \in DOMAIN dm /\ k \in DOMAIN sm /\ IsMap(sm[k]) /\ IsMap(dm[k])
  <2>1. M[at][k] = [map |-> G[k]] /\ k \in DOMAIN M[at]
    BY <1>3, <1>9 DEF Combine
  <2>2. x = [map |-> M[Front(q, n + 1)]]
    BY <1>4, <1>6, <1>8, <2>1, BelowIs
  <2>3. a = dm[k] /\ b = sm[k]
    BY <1>6, <1>9, BelowIs DEF dm, sm
  <2>4. Both(d, s, q, n + 1)
    <3>1. IsMap(Node(d, q, n + 1)) /\ IsMap(Node(s, q, n + 1))
      BY <1>9, <2>3 DEF a, b
    <3>2. \A i \in 0..(n + 1) : i \in 0..n \/ i = n + 1
      OBVIOUS
    <3> QED
      BY <1>7, <3>1, <3>2 DEF Both
  <2>5. n + 1 <= MaxDepth
    BY <1>1, <1>5, <1>9
  <2> QED
    BY <2>2, <2>4, <2>5 DEF IsMerged, x, W, M
<1>10. CASE k \in DOMAIN sm /\ ~(k \in DOMAIN dm /\ IsMap(sm[k]) /\ IsMap(dm[k]))
  <2>1. M[at][k] = sm[k] /\ k \in DOMAIN M[at]
    BY <1>3, <1>10 DEF Combine
  <2>2. x = sm[k] /\ b = sm[k]
    BY <1>6, <1>8, <1>10, <2>1, BelowIs DEF sm
  <2>3. b # Absent
    BY <1>5, <1>10, <2>2, Kinds
  <2>4. ~(IsMap(a) /\ IsMap(b))
    <3>1. CASE k \in DOMAIN dm
      <4>1. a = dm[k]
        BY <1>6, <3>1, BelowIs DEF dm
      <4> QED
        BY <1>10, <2>2, <3>1, <4>1
    <3>2. CASE k \notin DOMAIN dm
      <4>1. a = Absent
        BY <1>6, <3>2, BelowIs DEF dm
      <4> QED
        BY <4>1, Kinds
    <3> QED
      BY <3>1, <3>2
  <2> QED
    BY <1>1, <1>7, <2>2, <2>3, <2>4 DEF IsUpper, x, W, a, b
<1>11. CASE k \notin DOMAIN sm
  <2>1. b = Absent
    BY <1>6, <1>11, BelowIs DEF sm
  <2>2. x = a
    <3>1. CASE k \in DOMAIN dm
      <4>1. M[at][k] = dm[k] /\ k \in DOMAIN M[at]
        BY <1>3, <1>11, <3>1 DEF Combine
      <4>2. a = dm[k]
        BY <1>6, <3>1, BelowIs DEF dm
      <4> QED
        BY <1>6, <1>8, <4>1, <4>2, BelowIs
    <3>2. CASE k \notin DOMAIN dm
      <4>1. k \notin DOMAIN M[at]
        BY <1>3, <1>11, <3>2 DEF Combine
      <4>2. a = Absent
        BY <1>6, <3>2, BelowIs DEF dm
      <4> QED
        BY <1>6, <1>8, <4>1, <4>2, BelowIs
    <3> QED
      BY <3>1, <3>2
  <2> QED
    BY <1>1, <1>7, <2>1, <2>2 DEF IsLower, x, W, a, b
<1> QED
  BY <1>9, <1>10, <1>11

LEMMA MergeNode ==
  ASSUME NEW d, TreeOK(d), NEW s, TreeOK(s), NEW q \in Seq(Keys), NEW n \in 0..Len(q)
  PROVE  \/ IsMerged(d, s, q, n)
         \/ \E r \in Nat : IsUpper(d, s, q, n, r)
         \/ \E r \in Nat : IsLower(d, s, q, n, r)
<1> DEFINE Is(m) == \/ IsMerged(d, s, q, m)
                    \/ \E r \in Nat : IsUpper(d, s, q, m, r)
                    \/ \E r \in Nat : IsLower(d, s, q, m, r)
           S == {m \in Nat : m <= Len(q) => Is(m)}
           W == Merge(d, s)
<1>1. Len(q) \in Nat /\ 0 \in 0..Len(q) /\ 0 <= MaxDepth
  BY LenProperties, MaxDepthAssumption
<1>2. 0 \in S
  <2>1. Node(W, q, 0) = [map |-> W] /\ Node(d, q, 0) = [map |-> d] /\ Node(s, q, 0) = [map |-> s]
    BY <1>1, NodeRoot
  <2>2. W = Merged(d, s)[<<>>]
    BY DEF Merge, Merged, MergeOf
  <2>3. Front(q, 0) = <<>>
    BY <1>1, FrontIs
  <2>4. Both(d, s, q, 0)
    BY <2>1, Kinds DEF Both
  <2> HIDE DEF W
  <2>5. IsMerged(d, s, q, 0)
    BY <1>1, <2>1, <2>2, <2>3, <2>4 DEF IsMerged, W
  <2> QED
    BY <2>5
<1>3. ASSUME NEW m \in Nat, m \in S PROVE m + 1 \in S
  <2>1. SUFFICES ASSUME m + 1 <= Len(q) PROVE Is(m + 1)
    OBVIOUS
  <2>2. Is(m) /\ m < Len(q) /\ m + 1 \in Nat
    BY <1>1, <1>3, <2>1
  <2>3. CASE IsMerged(d, s, q, m)
    BY <2>2, <2>3, MergeStep
  <2>4. ASSUME NEW t, Node(W, q, m) = Node(t, q, m)
        PROVE  Node(W, q, m + 1) = Node(t, q, m + 1)
    <3> HIDE DEF W
    <3>1. /\ Node(W, q, m + 1) = Below(Node(W, q, m), q[m + 1])
          /\ Node(t, q, m + 1) = Below(Node(t, q, m), q[m + 1])
      BY <1>1, <2>2, NodeNext
    <3> QED
      BY <2>4, <3>1
  <2>5. \A r \in 1..m : r \in 1..(m + 1)
    OBVIOUS
  <2>6. ASSUME NEW r \in Nat, IsUpper(d, s, q, m, r) PROVE IsUpper(d, s, q, m + 1, r)
    BY <2>4, <2>5, <2>6 DEF IsUpper
  <2>7. ASSUME NEW r \in Nat, IsLower(d, s, q, m, r) PROVE IsLower(d, s, q, m + 1, r)
    BY <2>4, <2>5, <2>7 DEF IsLower
  <2> QED
    BY <2>2, <2>3, <2>6, <2>7, Zenon
<1>4. Nat \subseteq S
  <2> HIDE DEF S
  <2> QED
    BY <1>2, <1>3, SetInduction
<1> QED
  BY <1>1, <1>4

LEMMA MergeKeepsTree ==
  ASSUME NEW d, TreeOK(d), NEW s, TreeOK(s)
  PROVE  TreeOK(Merge(d, s))
<1> DEFINE W == Merge(d, s)
<1>1. SUFFICES ASSUME NEW q \in Seq(Keys), NEW n \in 0..Len(q)
               PROVE  LET m == MapOf(Node(W, q, n))
                      IN  /\ DOMAIN m \subseteq Keys
                          /\ n >= MaxDepth => DOMAIN m = {}
                          /\ \A k \in DOMAIN m : IsMap(m[k]) <=> ~IsLeaf(m[k])
  BY DEF TreeOK
<1>2. CASE IsMerged(d, s, q, n)
  <2> DEFINE M == Merged(d, s)
             at == Front(q, n)
             dm == MapOf(Node(d, q, n))
             sm == MapOf(Node(s, q, n))
             G == [j \in Keys |-> M[Append(at, j)]]
  <2>1. at \in Addresses /\ At(d, at) = Node(d, q, n) /\ At(s, at) = Node(s, q, n)
    BY <1>2, FrontIs DEF IsMerged
  <2>2. M = [p \in Addresses |-> MergeOf(d, s, M, p)]
    BY MergedExists
  <2>3. M[at] = MergeOf(d, s, M, at)
    <3> HIDE DEF at, M
    <3> QED
      BY <2>1, <2>2
  <2>4. M[at] = Combine(dm, sm, G)
    BY <2>1, <2>3, Zenon DEF MergeOf
  <2>5. MapOf(Node(W, q, n)) = M[at]
    <3>1. Node(W, q, n) = [map |-> M[at]]
      BY <1>2 DEF IsMerged
    <3> QED
      BY <3>1, Kinds, Zenon
  <2>6. /\ DOMAIN dm \subseteq Keys /\ (n >= MaxDepth => DOMAIN dm = {})
        /\ \A k \in DOMAIN dm : IsMap(dm[k]) <=> ~IsLeaf(dm[k])
    BY DEF TreeOK
  <2>7. /\ DOMAIN sm \subseteq Keys /\ (n >= MaxDepth => DOMAIN sm = {})
        /\ \A k \in DOMAIN sm : IsMap(sm[k]) <=> ~IsLeaf(sm[k])
    BY DEF TreeOK
  <2> HIDE DEF M, at, dm, sm, G
  <2>8. DOMAIN M[at] = DOMAIN dm \cup DOMAIN sm
    BY <2>4 DEF Combine
  <2>9. ASSUME NEW k \in DOMAIN M[at] PROVE IsMap(M[at][k]) <=> ~IsLeaf(M[at][k])
    <3>1. \/ k \in DOMAIN dm /\ M[at][k] = dm[k]
          \/ k \in DOMAIN sm /\ M[at][k] = sm[k]
          \/ M[at][k] = [map |-> G[k]]
      BY <2>4, <2>8 DEF Combine
    <3> QED
      BY <2>6, <2>7, <3>1, Kinds
  <2> QED
    BY <2>5, <2>6, <2>7, <2>8, <2>9
<1>3. CASE Node(W, q, n) = Node(s, q, n) \/ Node(W, q, n) = Node(d, q, n)
  BY <1>3 DEF TreeOK
<1>4. \/ IsMerged(d, s, q, n)
      \/ Node(W, q, n) = Node(s, q, n) \/ Node(W, q, n) = Node(d, q, n)
  BY MergeNode DEF IsUpper, IsLower
<1> QED
  BY <1>2, <1>3, <1>4

\* What stands at an address stands at the front of every longer path.
LEMMA LeafAbove ==
  ASSUME NEW t, NEW a \in Seq(Keys), NEW q \in Seq(Keys), NEW n \in 0..Len(q),
         Len(a) = n, \A i \in 1..n : a[i] = q[i]
  PROVE  At(t, a) = Node(t, q, n) /\ Comparable(q, a)
<1>1. Len(q) \in Nat /\ n \in Nat /\ n <= Len(q) /\ n <= Len(a) /\ Len(a) \in Nat
  BY LenProperties
<1>2. Node(t, a, n) = Node(t, q, n)
  BY <1>1, NodeAgrees
<1>3. \A i \in 1..Len(q) : i <= Len(a) => q[i] = a[i]
  BY <1>1
<1>4. Comparable(q, a)
  BY <1>3, ComparableIs
<1> QED
  BY <1>2, <1>4 DEF At

\* Where the merged tree has what the upper one has, a leaf of the lower one that
\* is not there any more clashes with one of the upper.
LEMMA UpperClashes ==
  ASSUME NEW d, TreeOK(d), NEW s, TreeOK(s), Filled(s), NEW q \in Addresses,
         NEW r \in Nat, IsUpper(d, s, q, Len(q), r), IsLeaf(At(d, q))
  PROVE  \E a \in LeafPaths(s) : Comparable(q, a)
<1> DEFINE n == Len(q)
           f == Front(q, r)
<1>1. /\ q \in Seq(Keys) /\ n \in Nat /\ n <= MaxDepth /\ MaxDepth \in Nat
      /\ r \in 1..n /\ r \in 0..Len(q) /\ r <= MaxDepth /\ r # 0
      /\ Node(s, q, r) # Absent /\ ~(IsMap(Node(d, q, r)) /\ IsMap(Node(s, q, r)))
  BY AddressFacts, MaxDepthAssumption DEF IsUpper
<1>2. /\ f \in Addresses /\ f \in Seq(Keys) /\ Len(f) = r /\ \A i \in 1..r : f[i] = q[i]
      /\ At(s, f) = Node(s, q, r)
  BY <1>1, FrontIs
<1> HIDE DEF f
<1>3. IsMap(At(s, f)) <=> ~IsLeaf(At(s, f))
  BY <1>1, <1>2, NodeKinds
<1>4. CASE IsLeaf(At(s, f))
  <2>1. Comparable(q, f)
    BY <1>1, <1>2, LeafAbove
  <2> QED
    BY <1>2, <1>4, <2>1 DEF LeafPaths
<1>5. CASE IsMap(At(s, f))
  <2>1. f # <<>>
    BY <1>1, <1>2
  <2>2. PICK a \in LeafPaths(s) : Under(a, f)
    BY <1>2, <1>5, <2>1 DEF Filled
  <2>3. ~IsMap(Node(d, q, r))
    BY <1>1, <1>2, <1>5
  <2>4. Node(d, q, n) # Absent
    BY Kinds DEF At
  <2>5. r = n
    BY <1>1, <2>3, <2>4, MapsAbove
  <2>6. a \in Seq(Keys) /\ Len(a) \in Nat /\ n < Len(a) /\ \A i \in 1..n : a[i] = q[i]
    BY <1>2, <2>2, <2>5, AddressFacts, MaxDepthAssumption DEF LeafPaths, Under
  <2>7. Comparable(q, a)
    BY <1>1, <2>6, ComparableIs
  <2> QED
    BY <2>7
<1> QED
  BY <1>3, <1>4, <1>5

\* Where it has what the lower one has, the upper one is silent.
LEMMA LowerIsFree ==
  ASSUME NEW d, NEW s, TreeOK(s), NEW q \in Addresses,
         NEW r \in Nat, IsLower(d, s, q, Len(q), r)
  PROVE  ~IsLeaf(At(s, q)) /\ \A a \in LeafPaths(s) : ~Comparable(q, a)
<1> DEFINE n == Len(q)
<1>1. /\ q \in Seq(Keys) /\ n \in Nat /\ r \in 1..n /\ r <= Len(q) /\ r - 1 \in Nat
      /\ Node(s, q, r) = Absent /\ Both(d, s, q, r - 1)
  BY AddressFacts, MaxDepthAssumption DEF IsLower
<1>2. ~IsMap(Absent) /\ ~IsLeaf(Absent)
  BY Kinds
<1>3. ~IsLeaf(At(s, q))
  <2>1. CASE r = n
    BY <1>1, <1>2, <2>1 DEF At
  <2>2. CASE r # n
    <3>1. r < n
      BY <1>1, <2>2
    <3>2. Node(s, q, n) = Absent
      BY <1>1, <1>2, <3>1, MapsAbove
    <3> QED
      BY <1>2, <3>2 DEF At
  <2> QED
    BY <2>1, <2>2
<1>4. ASSUME NEW a \in LeafPaths(s), Comparable(q, a) PROVE FALSE
  <2>1. a \in Addresses /\ a \in Seq(Keys) /\ Len(a) \in Nat /\ IsLeaf(At(s, a))
    BY AddressFacts, MaxDepthAssumption DEF LeafPaths
  <2>2. \A i \in 1..Len(q) : i <= Len(a) => q[i] = a[i]
    BY <1>1, <1>4, <2>1, ComparableIs
  <2>3. CASE r <= Len(a)
    <3>1. \A i \in 1..r : a[i] = q[i]
      BY <1>1, <2>1, <2>2, <2>3
    <3>2. Node(s, a, r) = Absent
      BY <1>1, <2>1, <2>3, <3>1, NodeAgrees
    <3>3. Node(s, a, Len(a)) # Absent
      BY <1>2, <2>1 DEF At
    <3>4. r < Len(a) \/ r = Len(a)
      BY <1>1, <2>1, <2>3
    <3> QED
      BY <1>1, <1>2, <2>1, <3>2, <3>3, <3>4, MapsAbove
  <2>4. CASE Len(a) < r
    <3> DEFINE l == Len(a)
    <3>1. l \in 0..(r - 1) /\ l \in 0..Len(q) /\ \A i \in 1..l : a[i] = q[i]
      BY <1>1, <2>1, <2>2, <2>4
    <3>2. At(s, a) = Node(s, q, l)
      BY <1>1, <2>1, <3>1, LeafAbove
    <3>3. IsMap(Node(s, q, l))
      BY <1>1, <3>1 DEF Both
    <3>4. IsMap(At(s, a)) <=> ~IsLeaf(At(s, a))
      BY <1>1, <1>2, <2>1, <3>1, <3>2, NodeKinds
    <3> QED
      BY <2>1, <3>2, <3>3, <3>4
  <2> QED
    BY <1>1, <2>1, <2>3, <2>4
<1> QED
  BY <1>3, <1>4

LEMMA MergeLeaf ==
  ASSUME NEW d, TreeOK(d), NEW s, TreeOK(s), Filled(s), NEW q \in Addresses
  PROVE  LET W == Merge(d, s)
             clash == \E a \in LeafPaths(s) : Comparable(q, a)
         IN  /\ IsLeaf(At(s, q)) => At(W, q) = At(s, q)
             /\ ~IsLeaf(At(s, q)) =>
                  /\ IsLeaf(At(W, q)) <=> IsLeaf(At(d, q)) /\ ~clash
                  /\ IsLeaf(At(W, q)) => At(W, q) = At(d, q)
<1> DEFINE W == Merge(d, s)
           clash == \E a \in LeafPaths(s) : Comparable(q, a)
           n == Len(q)
<1>1. q \in Seq(Keys) /\ n \in Nat /\ n \in 0..Len(q) /\ n \in 0..n
  BY AddressFacts, MaxDepthAssumption
<1>2. \A m : IsMap([map |-> m]) /\ ~IsLeaf([map |-> m])
  BY Kinds
<1>3. ASSUME IsMerged(d, s, q, n)
      PROVE  ~IsLeaf(At(W, q)) /\ ~IsLeaf(At(d, q)) /\ ~IsLeaf(At(s, q))
  <2>1. IsMap(At(d, q)) /\ IsMap(At(s, q)) /\ ~IsLeaf(At(W, q))
    BY <1>1, <1>2, <1>3 DEF IsMerged, Both, At
  <2>2. ~IsLeaf(At(d, q)) /\ ~IsLeaf(At(s, q))
    BY <1>1, <2>1, NodeKinds, Kinds DEF At
  <2> QED
    BY <2>1, <2>2
<1>4. ASSUME NEW r \in Nat, IsUpper(d, s, q, n, r)
      PROVE  At(W, q) = At(s, q) /\ (IsLeaf(At(d, q)) => clash)
  <2>1. At(W, q) = At(s, q)
    BY <1>4 DEF IsUpper, At
  <2>2. IsLeaf(At(d, q)) => clash
    BY <1>4, UpperClashes
  <2> QED
    BY <2>1, <2>2
<1>5. ASSUME NEW r \in Nat, IsLower(d, s, q, n, r)
      PROVE  At(W, q) = At(d, q) /\ ~IsLeaf(At(s, q)) /\ ~clash
  <2>1. At(W, q) = At(d, q)
    BY <1>5 DEF IsLower, At
  <2>2. ~IsLeaf(At(s, q)) /\ ~clash
    BY <1>5, LowerIsFree
  <2> QED
    BY <2>1, <2>2
<1>6. \/ IsMerged(d, s, q, n)
      \/ \E r \in Nat : IsUpper(d, s, q, n, r)
      \/ \E r \in Nat : IsLower(d, s, q, n, r)
  BY <1>1, MergeNode
<1> HIDE DEF W, clash, n
<1>7. /\ IsLeaf(At(s, q)) => At(W, q) = At(s, q)
      /\ ~IsLeaf(At(s, q)) =>
           /\ IsLeaf(At(W, q)) <=> IsLeaf(At(d, q)) /\ ~clash
           /\ IsLeaf(At(W, q)) => At(W, q) = At(d, q)
  <2>1. CASE ~IsLeaf(At(W, q)) /\ ~IsLeaf(At(d, q)) /\ ~IsLeaf(At(s, q))
    BY <2>1, Zenon
  <2>2. CASE At(W, q) = At(s, q) /\ (IsLeaf(At(d, q)) => clash)
    BY <2>2
  <2>3. CASE At(W, q) = At(d, q) /\ ~IsLeaf(At(s, q)) /\ ~clash
    BY <2>3
  <2> QED
    BY <1>3, <1>4, <1>5, <1>6, <2>1, <2>2, <2>3, Zenon
<1> QED
  BY <1>7 DEF W, clash

LEMMA MergeFollows ==
  ASSUME NEW d, TreeOK(d), NEW s, TreeOK(s), Filled(s)
  PROVE  Leaves(Merge(d, s)) = Overlay(Leaves(d), Leaves(s))
<1> DEFINE W == Merge(d, s)
           clash(q) == \E a \in LeafPaths(s) : Comparable(q, a)
<1>1. /\ Leaves(d) = {Leaf(q, At(d, q).leaf) : q \in LeafPaths(d)}
      /\ Leaves(s) = {Leaf(q, At(s, q).leaf) : q \in LeafPaths(s)}
      /\ Leaves(W) = {Leaf(q, At(W, q).leaf) : q \in LeafPaths(W)}
  BY LeavesAre, MergeKeepsTree
<1>2. ASSUME NEW q \in Addresses
      PROVE  /\ IsLeaf(At(s, q)) => At(W, q) = At(s, q)
             /\ ~IsLeaf(At(s, q)) =>
                  /\ IsLeaf(At(W, q)) <=> IsLeaf(At(d, q)) /\ ~clash(q)
                  /\ IsLeaf(At(W, q)) => At(W, q) = At(d, q)
  BY MergeLeaf
<1>3. \A q, v : Leaf(q, v).path = q
  BY DEF Leaf
<1>4. ASSUME NEW q PROVE Clashes(q, Leaves(s)) <=> clash(q)
  BY <1>1, <1>3 DEF Clashes
<1>5. ASSUME NEW q \in Addresses PROVE Comparable(q, q)
  BY AddressFacts, ComparableIs
<1> HIDE DEF W
<1>6. ASSUME NEW x \in Leaves(W) PROVE x \in Overlay(Leaves(d), Leaves(s))
  <2>1. PICK q \in LeafPaths(W) : x = Leaf(q, At(W, q).leaf)
    BY <1>1, <1>6
  <2>2. q \in Addresses /\ IsLeaf(At(W, q))
    BY DEF LeafPaths
  <2>3. CASE IsLeaf(At(s, q))
    <3>1. x \in Leaves(s)
      BY <1>1, <1>2, <2>1, <2>2, <2>3 DEF LeafPaths
    <3> QED
      BY <3>1 DEF Overlay
  <2>4. CASE ~IsLeaf(At(s, q))
    <3>1. IsLeaf(At(d, q)) /\ ~clash(q) /\ At(W, q) = At(d, q)
      BY <1>2, <2>2, <2>4
    <3>2. x \in Leaves(d)
      BY <1>1, <2>1, <2>2, <3>1 DEF LeafPaths
    <3>3. ~Clashes(x.path, Leaves(s))
      BY <1>3, <1>4, <2>1, <3>1
    <3> QED
      BY <3>2, <3>3 DEF Overlay
  <2> QED
    BY <2>3, <2>4
<1>7. ASSUME NEW x \in Overlay(Leaves(d), Leaves(s)) PROVE x \in Leaves(W)
  <2>1. CASE x \in Leaves(s)
    <3>1. PICK q \in LeafPaths(s) : x = Leaf(q, At(s, q).leaf)
      BY <1>1, <2>1
    <3>2. q \in LeafPaths(W) /\ At(W, q) = At(s, q)
      BY <1>2 DEF LeafPaths
    <3> QED
      BY <1>1, <3>1, <3>2
  <2>2. CASE x \in Leaves(d) /\ ~Clashes(x.path, Leaves(s))
    <3>1. PICK q \in LeafPaths(d) : x = Leaf(q, At(d, q).leaf)
      BY <1>1, <2>2
    <3>2. q \in Addresses /\ IsLeaf(At(d, q)) /\ ~clash(q)
      BY <1>3, <1>4, <2>2, <3>1 DEF LeafPaths
    <3>3. ~IsLeaf(At(s, q))
      BY <1>5, <3>2 DEF LeafPaths
    <3>4. IsLeaf(At(W, q)) /\ At(W, q) = At(d, q)
      BY <1>2, <3>2, <3>3
    <3> QED
      BY <1>1, <3>1, <3>2, <3>4 DEF LeafPaths
  <2> QED
    BY <2>1, <2>2 DEF Overlay
<1> QED
  BY <1>6, <1>7 DEF W

-----------------------------------------------------------------------------
(* The specification                                                       *)

\* What unflatten has built so far is made of the keys it has been through.
IInv ==
    /\ TreeOK(dst) /\ TreeOK(src) /\ Filled(src)
    /\ puts \subseteq Paths
    /\ UnflattenKeepsAll

LEMMA EmptyTree == TreeOK(NoKeys) /\ LeafPaths(NoKeys) = {} /\ Filled(NoKeys)
<1>1. ASSUME NEW q \in Seq(Keys), NEW n \in 0..Len(q)
      PROVE  /\ n = 0 => Node(NoKeys, q, n) = [map |-> NoKeys]
             /\ n # 0 => Node(NoKeys, q, n) = Absent
  <2>1. Len(q) \in Nat /\ Node(NoKeys, q, 0) = [map |-> NoKeys] /\ n \in Nat /\ n <= Len(q)
    BY LenProperties, NodeRoot
  <2>2. DOMAIN MapOf(Node(NoKeys, q, 0)) = {}
    BY <2>1, Kinds
  <2>3. CASE n # 0
    <3>1. 0 < n /\ 0 \in Nat
      BY <2>1, <2>3
    <3> QED
      BY <2>1, <2>2, <2>3, <3>1, NothingBelow
  <2> QED
    BY <2>1, <2>3
<1>2. TreeOK(NoKeys)
  <2>1. ASSUME NEW q \in Seq(Keys), NEW n \in 0..Len(q)
        PROVE  DOMAIN MapOf(Node(NoKeys, q, n)) = {}
    BY <1>1, <2>1, Kinds
  <2> QED
    BY <2>1 DEF TreeOK
<1>3. ASSUME NEW q \in Addresses
      PROVE  ~IsLeaf(At(NoKeys, q)) /\ (q # <<>> => ~IsMap(At(NoKeys, q)))
  <2>1. q \in Seq(Keys) /\ Len(q) \in 0..Len(q) /\ (q # <<>> => Len(q) # 0)
    BY AddressFacts, MaxDepthAssumption, EmptySeq
  <2> QED
    BY <1>1, <2>1, Kinds DEF At
<1> QED
  BY <1>2, <1>3 DEF LeafPaths, Filled

LEMMA PathsOfLeaves ==
  ASSUME NEW t, TreeOK(t)
  PROVE  {l.path : l \in Leaves(t)} = LeafPaths(t)
<1>1. Leaves(t) = {Leaf(q, At(t, q).leaf) : q \in LeafPaths(t)}
  BY LeavesAre
<1>2. \A q, v : Leaf(q, v).path = q
  BY DEF Leaf
<1> QED
  BY <1>1, <1>2

LEMMA PathsArePaths == Paths \subseteq Addresses \ {<<>>} /\ Roots \subseteq Keys
  BY PathsAssumption

LEMMA InvInit == Init => IInv
<1> SUFFICES ASSUME Init PROVE IInv
  OBVIOUS
<1>1. dst = NoKeys /\ src = NoKeys /\ puts = {}
  BY DEF Init
<1>2. {l.path : l \in Leaves(src)} = {}
  BY <1>1, EmptyTree, PathsOfLeaves
<1> QED
  BY <1>1, <1>2, EmptyTree DEF IInv, UnflattenKeepsAll

LEMMA PutKeyKeeps ==
  ASSUME IInv, NEW p \in Paths, NEW v \in Vals, PutKey(p, v)
  PROVE  IInv'
<1>1. /\ p \in Addresses \ {<<>>} /\ p \notin puts
      /\ src' = Put(src, p, v) /\ puts' = puts \cup {p} /\ dst' = dst
  BY PathsArePaths DEF PutKey
<1>2. TreeOK(src) /\ Filled(src) /\ TreeOK(dst) /\ puts \subseteq Paths /\ UnflattenKeepsAll
  BY DEF IInv
<1>3. TreeOK(src') /\ Filled(src')
  BY <1>1, <1>2, PutKeepsTree, PutFills
<1>4. UnflattenKeepsAll'
  <2>1. SUFFICES ASSUME \A a, b \in puts' : Comparable(a, b) => a = b
                 PROVE  {l.path : l \in Leaves(src')} = puts'
    BY DEF UnflattenKeepsAll
  <2>2. \A a, b \in puts : Comparable(a, b) => a = b
    BY <1>1, <2>1
  <2>3. LeafPaths(src) = puts
    BY <1>2, <2>2, PathsOfLeaves DEF UnflattenKeepsAll
  <2>4. ASSUME NEW q \in Addresses PROVE q \in LeafPaths(src') <=> q \in puts'
    <3>1. /\ q = p => At(src', q) = [leaf |-> v]
          /\ q # p => (IsLeaf(At(src', q)) <=> ~Comparable(q, p) /\ IsLeaf(At(src, q)))
      BY <1>1, PutLeaf
    <3>2. q \in puts => q # p /\ ~Comparable(q, p)
      BY <1>1, <2>1
    <3>3. IsLeaf(At(src, q)) <=> q \in puts
      BY <2>3 DEF LeafPaths
    <3> QED
      BY <1>1, <3>1, <3>2, <3>3, Kinds DEF LeafPaths
  <2>5. puts' \subseteq Addresses
    BY <1>1, <1>2, PathsArePaths
  <2>6. LeafPaths(src') = puts'
    BY <2>4, <2>5 DEF LeafPaths
  <2> QED
    BY <1>3, <2>6, PathsOfLeaves
<1> QED
  BY <1>1, <1>2, <1>3, <1>4 DEF IInv

LEMMA InvNext == IInv /\ [Next]_vars => IInv'
<1> SUFFICES ASSUME IInv, [Next]_vars PROVE IInv'
  OBVIOUS
<1>1. CASE Lay
  <2>1. TreeOK(dst')
    BY <1>1, MergeKeepsTree DEF IInv, Lay
  <2>2. src' = NoKeys /\ puts' = {}
    BY <1>1 DEF Lay
  <2>3. {l.path : l \in Leaves(src')} = {}
    BY <2>2, EmptyTree, PathsOfLeaves
  <2> QED
    BY <2>1, <2>2, <2>3, EmptyTree DEF IInv, UnflattenKeepsAll
<1>2. ASSUME NEW k \in Roots, Open(k) PROVE IInv'
  <2>1. TreeOK(dst')
    BY <1>2, ChildKeepsTree, PathsArePaths DEF IInv, Open
  <2>2. src' = src /\ puts' = puts
    BY <1>2 DEF Open
  <2> QED
    BY <2>1, <2>2 DEF IInv, UnflattenKeepsAll
<1>3. ASSUME NEW p \in Paths, NEW v \in Vals, PutKey(p, v) PROVE IInv'
  BY <1>3, PutKeyKeeps
<1>4. CASE UNCHANGED vars
  BY <1>4 DEF IInv, UnflattenKeepsAll, vars
<1> QED
  BY <1>1, <1>2, <1>3, <1>4 DEF Next

LEMMA Invariant == Spec => []IInv
<1>1. Init => IInv
  BY InvInit
<1>2. IInv /\ [Next]_vars => IInv'
  BY InvNext
<1> QED
  BY <1>1, <1>2, PTL DEF Spec

\* unflatten's loop loses no key unless one lies inside another, whatever order
\* Go's iteration has.
THEOREM NoKeyIsLost == Spec => []UnflattenKeepsAll
<1>1. IInv => UnflattenKeepsAll
  BY DEF IInv
<1> QED
  BY <1>1, Invariant, PTL

LEMMA StepFollows ==
  ASSUME IInv, Next
  PROVE  \/ Lay /\ Leaves(dst') = Overlay(Leaves(dst), Leaves(src))
         \/ \E k \in Roots : Open(k) /\ Leaves(dst') = Opened(Leaves(dst), k)
         \/ \E p \in Paths, v \in Vals :
              PutKey(p, v) /\ Leaves(src') = Overlay(Leaves(src), {Leaf(p, v)})
<1>1. TreeOK(dst) /\ TreeOK(src) /\ Filled(src)
  BY DEF IInv
<1>2. CASE Lay
  BY <1>1, <1>2, MergeFollows DEF Lay
<1>3. ASSUME NEW k \in Roots, Open(k) PROVE Leaves(dst') = Opened(Leaves(dst), k)
  BY <1>1, <1>3, ChildFollows, PathsArePaths DEF Open
<1>4. ASSUME NEW p \in Paths, NEW v \in Vals, PutKey(p, v)
      PROVE  Leaves(src') = Overlay(Leaves(src), {Leaf(p, v)})
  BY <1>1, <1>4, PutFollows, PathsArePaths DEF PutKey
<1> QED
  BY <1>2, <1>3, <1>4 DEF Next

\* Whatever the maps hold, deepMerge, child and unflatten do to the leaves what
\* the set operations of ConfigFlat say, which is all ConfigLayers knows of them.
THEOREM TreesAreTheirLeaves == Spec => LeavesFollow
<1>1. IInv /\ [Next]_vars =>
        [ \/ Lay /\ Leaves(dst') = Overlay(Leaves(dst), Leaves(src))
          \/ \E k \in Roots : Open(k) /\ Leaves(dst') = Opened(Leaves(dst), k)
          \/ \E p \in Paths, v \in Vals :
               PutKey(p, v) /\ Leaves(src') = Overlay(Leaves(src), {Leaf(p, v)}) ]_vars
  BY StepFollows
<1> QED
  BY <1>1, Invariant, PTL DEF Spec, LeavesFollow
=============================================================================
