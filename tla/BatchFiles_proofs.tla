-------------------------- MODULE BatchFiles_proofs --------------------------
(***************************************************************************)
(* For any names, however they collide, the loop of uniqueInputName and    *)
(* uniqueZipName ends with a name nobody has, and so no input of a batch   *)
(* and no entry of its archive hides another.  Hence every row is settled, *)
(* and every output a card lists can be fetched.                           *)
(***************************************************************************)
EXTENDS BatchFiles, FiniteSetTheorems, WellFoundedInduction, TLAPS

\* The pigeonhole: more suffixes than names in use, so one of them is free.
LEMMA SomeSuffixFree ==
  ASSUME NEW stem, NEW used, IsFiniteSet(used)
  PROVE  \E n \in 1..(Cardinality(used) + 1) : Name(stem, n) \notin used
<1>. DEFINE c == Cardinality(used)
            f == [n \in 1..(c + 1) |-> Name(stem, n)]
<1>1. c \in Nat BY FS_CardinalityType
<1>2. SUFFICES ASSUME \A n \in 1..(c + 1) : Name(stem, n) \in used
               PROVE  FALSE
  OBVIOUS
<1>3. f \in [1..(c + 1) -> used] BY <1>2
<1>4. \A m, n \in 1..(c + 1) : f[m] = f[n] => m = n BY DEF Name
<1>5. IsFiniteSet(1..(c + 1)) /\ Cardinality(1..(c + 1)) = c + 1
  BY <1>1, FS_Interval
<1>6. \E m, n \in 1..(c + 1) : m # n /\ f[m] = f[n]
  <2>. HIDE DEF f, c
  <2>1. Cardinality(used) < Cardinality(1..(c + 1)) BY <1>1, <1>5 DEF c
  <2>2. QED BY <1>3, <1>5, <2>1, FS_PigeonHole
<1>7. QED BY <1>4, <1>6

\* A set of numbers that is not empty has a least one.
LEMMA LeastNumber ==
  ASSUME NEW T, T \subseteq Nat, T # {}
  PROVE  \E n \in T : \A k \in T : n <= k
<1>. DEFINE less == {p \in Nat \X Nat : p[1] < p[2]}
<1>1. IsWellFoundedOn(less, Nat) BY NatLessThanWellFounded, Zenon DEF OpToRel
<1>2. \E n \in T : \A k \in T : ~(<<k, n>> \in less)
  <2>. HIDE DEF less
  <2>. QED BY <1>1, WFMin
<1>3. PICK n \in T : \A k \in T : ~(<<k, n>> \in less) BY <1>2
<1>4. ASSUME NEW k \in T PROVE n <= k
  <2>1. <<k, n>> \in Nat \X Nat /\ ~(k < n) BY <1>3
  <2>2. QED BY <2>1
<1>5. QED BY <1>4

\* The name that is returned is in nobody's use.
THEOREM FreshIsFree ==
  ASSUME NEW name, NEW used, IsFiniteSet(used)
  PROVE  Fresh(name, used) \notin used
<1>. DEFINE top == Cardinality(used) + 1
            free == {n \in 1..top : Name(name.stem, n) \notin used}
<1>1. Cardinality(used) \in Nat BY FS_CardinalityType
<1>2. free # {} BY SomeSuffixFree
<1>3. free \subseteq Nat BY <1>1
<1>4. PICK n \in free : \A k \in free : n <= k
  <2>. HIDE DEF free
  <2>. QED BY <1>2, <1>3, LeastNumber
<1>5. n \in 1..top /\ Name(name.stem, n) \notin used OBVIOUS
<1>6. \A k \in 1..(n - 1) : Name(name.stem, k) \in used
  BY <1>1, <1>4, <1>5
<1>7. Name(name.stem, LeastFree(name.stem, used)) \notin used
  BY <1>5, <1>6 DEF LeastFree
<1>8. QED BY <1>7 DEF Fresh
-----------------------------------------------------------------------------
\* What Append does to a sequence of whatever kind.
IsSequence(s) == \E S : s \in Seq(S)

LEMMA Appended ==
  ASSUME NEW s, IsSequence(s), NEW x
  PROVE  /\ IsSequence(Append(s, x))
         /\ Len(s) \in Nat /\ DOMAIN s = 1..Len(s)
         /\ DOMAIN Append(s, x) = 1..(Len(s) + 1)
         /\ \A k \in 1..Len(s) : Append(s, x)[k] = s[k]
         /\ Append(s, x)[Len(s) + 1] = x
<1>1. PICK S : s \in Seq(S) BY DEF IsSequence
<1>2. s \in Seq(S \cup {x}) BY <1>1
<1>3. Append(s, x) \in Seq(S \cup {x}) BY <1>2
<1>4. QED BY <1>2, <1>3 DEF IsSequence

\* The names in use are as many as there are places at most.
LEMMA FiniteRange ==
  ASSUME NEW n \in Nat, NEW f, DOMAIN f = 1..n
  PROVE  IsFiniteSet({f[k] : k \in 1..n})
<1>. DEFINE g == [k \in 1..n |-> f[k]]
            R == {f[k] : k \in 1..n}
<1>1. g \in Surjection(1..n, R) BY DEF Surjection
<1>2. IsFiniteSet(1..n) BY FS_Interval
<1>. HIDE DEF g, R
<1>3. IsFiniteSet(R) BY <1>1, <1>2, FS_Surjection
<1>4. QED BY <1>3 DEF R

NamesInv ==
    /\ IsSequence(inputs) /\ IsSequence(zip)
    /\ InputsDistinct /\ ZipEntriesDistinct

LEMMA NamesInit == Init => NamesInv
<1>1. <<>> \in Seq({}) OBVIOUS
<1>2. QED BY <1>1 DEF Init, NamesInv, IsSequence, InputsDistinct, ZipEntriesDistinct

LEMMA PersistKeepsNames ==
  ASSUME NamesInv, Persist
  PROVE  NamesInv'
<1>. DEFINE x == Fresh(uploads[Len(inputs) + 1], Elems(inputs))
<1>1. inputs' = Append(inputs, x) /\ zip' = zip BY DEF Persist, archive
<1>2. IsSequence(inputs) /\ InputsDistinct BY DEF NamesInv
<1>3. Len(inputs) \in Nat /\ DOMAIN inputs = 1..Len(inputs) BY <1>2, Appended
<1>4. IsFiniteSet(Elems(inputs)) BY <1>3, FiniteRange DEF Elems
<1>5. x \notin Elems(inputs) BY <1>4, FreshIsFree
<1>6. \A k \in 1..Len(inputs) : inputs[k] # x BY <1>3, <1>5 DEF Elems
<1>. HIDE DEF x
<1>7. InputsDistinct'
  BY <1>1, <1>2, <1>3, <1>6, Appended DEF InputsDistinct
<1>8. IsSequence(inputs') /\ IsSequence(zip') BY <1>1, <1>2, Appended DEF NamesInv
<1>9. ZipEntriesDistinct' BY <1>1 DEF NamesInv, ZipEntriesDistinct
<1>10. QED BY <1>7, <1>8, <1>9 DEF NamesInv

LEMMA ZipKeepsNames ==
  ASSUME NamesInv, ZipNext
  PROVE  NamesInv'
<1>. DEFINE used == {zip[k].entry : k \in DOMAIN zip}
<1>1. PICK f \in walk.files : zip' = Append(zip, [file |-> f, entry |-> Fresh(f[2], used)])
  BY DEF ZipNext
<1>. DEFINE e == Fresh(f[2], used)
            z == [file |-> f, entry |-> e]
<1>2. inputs' = inputs BY DEF ZipNext, batch
<1>3. IsSequence(zip) /\ ZipEntriesDistinct BY DEF NamesInv
<1>4. Len(zip) \in Nat /\ DOMAIN zip = 1..Len(zip) BY <1>3, Appended
<1>5. IsFiniteSet(used)
  <2>. DEFINE h == [k \in 1..Len(zip) |-> zip[k].entry]
  <2>1. IsFiniteSet({h[k] : k \in 1..Len(zip)}) BY <1>4, FiniteRange
  <2>2. used = {h[k] : k \in 1..Len(zip)} BY <1>4
  <2>3. QED BY <2>1, <2>2
<1>6. e \notin used
  <2>. HIDE DEF used
  <2>. QED BY <1>5, FreshIsFree
<1>7. \A k \in 1..Len(zip) : zip[k].entry # e BY <1>4, <1>6
<1>8. z.entry = e OBVIOUS
<1>9. zip' = Append(zip, z) BY <1>1
<1>. HIDE DEF e, z, used
<1>10. ZipEntriesDistinct'
  BY <1>3, <1>4, <1>7, <1>8, <1>9, Appended DEF ZipEntriesDistinct
<1>11. IsSequence(zip') /\ IsSequence(inputs')
  BY <1>2, <1>3, <1>9, Appended DEF NamesInv
<1>12. InputsDistinct' BY <1>2 DEF NamesInv, InputsDistinct
<1>13. QED BY <1>10, <1>11, <1>12 DEF NamesInv

LEMMA NamesNext == NamesInv /\ [Next]_vars => NamesInv'
<1>1. SUFFICES ASSUME NamesInv, [Next]_vars PROVE NamesInv' OBVIOUS
<1>2. ASSUME UNCHANGED <<inputs, zip>> PROVE NamesInv'
  BY <1>1, <1>2 DEF NamesInv, IsSequence, InputsDistinct, ZipEntriesDistinct
<1>3. CASE Persist BY <1>1, <1>3, PersistKeepsNames
<1>4. CASE ZipNext BY <1>1, <1>4, ZipKeepsNames
<1>5. CASE SeedRows BY <1>2, <1>5 DEF SeedRows, archive
<1>6. CASE Convert \/ Retry
  <2>1. UNCHANGED <<inputs, zip>> BY <1>6 DEF Convert, Converted, Retry, archive
  <2>2. QED BY <1>2, <2>1
<1>7. CASE ZipStart
  <2>1. zip' = <<>> /\ inputs' = inputs BY <1>7 DEF ZipStart, batch
  <2>2. IsSequence(zip') /\ ZipEntriesDistinct'
    <3>1. <<>> \in Seq({}) OBVIOUS
    <3>2. QED BY <2>1, <3>1 DEF IsSequence, ZipEntriesDistinct
  <2>3. IsSequence(inputs') /\ InputsDistinct' BY <1>1, <2>1 DEF NamesInv, InputsDistinct
  <2>4. QED BY <2>2, <2>3 DEF NamesInv
<1>8. CASE ZipEnter \/ UNCHANGED vars BY <1>2, <1>8 DEF ZipEnter, vars, batch, archive
<1>9. QED BY <1>1, <1>3, <1>4, <1>5, <1>6, <1>7, <1>8 DEF Next

LEMMA NamesAlways == Spec => []NamesInv
  BY NamesInit, NamesNext, PTL DEF Spec

\* No upload is stored over another of its batch, whatever names the browser
\* sends (uniqueInputName, convert_flow.go:188-211).
THEOREM InputsStayDistinct == Spec => []InputsDistinct
<1>1. NamesInv => InputsDistinct BY DEF NamesInv
<1>2. QED BY <1>1, NamesAlways, PTL

\* No entry of the archive hides another, whatever names the outputs have
\* (uniqueZipName, zip_sweep.go:61-86).
THEOREM EntriesStayDistinct == Spec => []ZipEntriesDistinct
<1>1. NamesInv => ZipEntriesDistinct BY DEF NamesInv
<1>2. QED BY <1>1, NamesAlways, PTL

-----------------------------------------------------------------------------
\* Each row is about the input of its place, lists what is there to be listed, and
\* is pending only while the worker has it before it.
RowType(i) == [input : {inputs[i]}, state : {"pending", "done", "failed"},
               outputs : SUBSET (outDir[inputs[i]] \ Hidden)]

SeededOK ==
    rows # <<>> =>
        /\ ~(Len(inputs) < Len(uploads))
        /\ outDir \in [Elems(inputs) -> SUBSET OutNames]
        /\ DOMAIN rows = DOMAIN inputs /\ rows = [i \in DOMAIN rows |-> rows[i]]
        /\ \A i \in DOMAIN rows : rows[i] \in RowType(i)
        /\ \A i \in DOMAIN rows : rows[i].state = "pending" => i \in todo

RowsInv == NamesInv /\ SeededOK /\ (rows = <<>> => todo = {})

LEMMA RowsInit == Init => RowsInv
  BY NamesInit DEF Init, RowsInv, SeededOK

LEMMA SeedKeepsRows ==
  ASSUME RowsInv, SeedRows
  PROVE  SeededOK'
<1>1. /\ rows' = [i \in DOMAIN inputs |->
                     [input |-> inputs[i], state |-> "pending", outputs |-> {}]]
      /\ outDir' = [x \in Elems(inputs) |-> {}] /\ todo' = DOMAIN inputs
      /\ Len(inputs) = Len(uploads) /\ UNCHANGED <<inputs, uploads>>
  BY DEF SeedRows, Stored
<1>2. Len(inputs) \in Nat /\ DOMAIN inputs = 1..Len(inputs) BY Appended DEF RowsInv, NamesInv
<1>3. DOMAIN rows' = DOMAIN inputs' /\ rows' = [i \in DOMAIN rows' |-> rows'[i]] BY <1>1
<1>4. outDir' \in [Elems(inputs') -> SUBSET OutNames] BY <1>1 DEF Elems
<1>5. ASSUME NEW i \in DOMAIN rows' PROVE rows'[i] \in RowType(i)' /\ i \in todo'
  BY <1>1, <1>5 DEF RowType
<1>6. ~(Len(inputs') < Len(uploads')) BY <1>1, <1>2
<1>7. QED BY <1>3, <1>4, <1>5, <1>6 DEF SeededOK

LEMMA ConvertKeepsRows ==
  ASSUME RowsInv, Convert
  PROVE  SeededOK' /\ rows' # <<>>
<1>1. PICK i \in todo, k \in DOMAIN rows, wrote \in Writings \cup {{}},
           verdict \in {"done", "failed"}, ran \in BOOLEAN :
        Converted(i, k, wrote, verdict, ran)
  BY DEF Convert
<1>. DEFINE held == outDir[inputs[i]] \cup wrote
            listed == IF ran THEN Outputs(held) ELSE {}
            row == Settled(inputs[i], verdict, listed)
<1>2. /\ todo' = todo \ {i} /\ RowOf(inputs[i], k)
      /\ outDir' = [outDir EXCEPT ![inputs[i]] = held]
      /\ rows' = [rows EXCEPT ![k] = row]
      /\ UNCHANGED <<inputs, uploads>>
  BY <1>1 DEF Converted
<1>3. rows # <<>> BY <1>1 DEF RowsInv
<1>4. /\ DOMAIN rows = DOMAIN inputs /\ rows = [l \in DOMAIN rows |-> rows[l]]
      /\ outDir \in [Elems(inputs) -> SUBSET OutNames]
      /\ \A l \in DOMAIN rows : rows[l] \in RowType(l)
      /\ \A l \in DOMAIN rows : rows[l].state = "pending" => l \in todo
      /\ ~(Len(inputs) < Len(uploads))
  BY <1>3 DEF RowsInv, SeededOK
<1>5. wrote \subseteq OutNames BY DEF OutNames
<1>6. /\ \A l \in DOMAIN rows : inputs[l] \in Elems(inputs)
      /\ inputs[k] = inputs[i]
  BY <1>2, <1>4 DEF Elems, RowOf, RowType
<1>7. /\ DOMAIN outDir' = Elems(inputs)
      /\ \A x \in Elems(inputs) :
           outDir'[x] = IF x = inputs[i] THEN held ELSE outDir[x]
  BY <1>2, <1>4, <1>6
<1>8. outDir' \in [Elems(inputs') -> SUBSET OutNames]
  BY <1>1, <1>2, <1>4, <1>5 DEF Elems
<1>9. listed \subseteq held \ Hidden BY DEF Outputs
<1>10. row = [input |-> inputs[k], state |-> verdict, outputs |-> listed]
  BY <1>6 DEF Settled
<1>. HIDE DEF row, listed
<1>12. DOMAIN rows' = DOMAIN rows /\ rows' = [l \in DOMAIN rows' |-> rows'[l]]
       /\ \A l \in DOMAIN rows : rows'[l] = IF l = k THEN row ELSE rows[l]
  BY <1>2, <1>4
<1>13. ASSUME NEW l \in DOMAIN rows'
       PROVE  rows'[l] \in RowType(l)' /\ (rows'[l].state = "pending" => l \in todo')
  <2>1. CASE l = k
    <3>1. outDir'[inputs[k]] = held BY <1>4, <1>6, <1>7
    <3>2. QED BY <1>2, <1>5, <1>9, <1>10, <1>12, <2>1, <3>1 DEF RowType
  <2>2. CASE l # k
    <3>1. rows'[l] = rows[l] /\ rows[l] \in RowType(l) BY <1>4, <1>12, <1>13, <2>2
    <3>2. outDir[inputs[l]] \subseteq outDir'[inputs[l]] BY <1>4, <1>6, <1>7, <1>12, <1>13
    <3>3. rows[l].state = "pending" => l \in todo' 
      <4>1. i \in DOMAIN inputs => (l = i => k = i)
        BY <1>1, <1>4, <1>6 DEF RowsInv, NamesInv, InputsDistinct
      <4>2. QED BY <1>2, <1>4, <1>12, <1>13, <2>2, <4>1
    <3>4. QED BY <1>2, <3>1, <3>2, <3>3 DEF RowType
  <2>3. QED BY <2>1, <2>2
<1>14. SeededOK' BY <1>2, <1>4, <1>8, <1>12, <1>13 DEF SeededOK
<1>15. rows' # <<>> BY <1>12
<1>16. QED BY <1>14, <1>15

LEMMA RetryKeepsRows ==
  ASSUME RowsInv, Retry
  PROVE  SeededOK' /\ rows' # <<>>
<1>. DEFINE again(l) == IF rows[l].state = "failed" THEN [rows[l] EXCEPT !.state = "pending"]
                        ELSE rows[l]
<1>1. /\ rows' = [l \in DOMAIN rows |-> again(l)]
      /\ todo' = {l \in DOMAIN rows : rows[l].state = "failed"} /\ todo' # {}
      /\ rows # <<>> /\ \A l \in DOMAIN rows : rows[l].state # "pending"
      /\ UNCHANGED <<inputs, uploads, outDir>>
  BY DEF Retry, Done
<1>2. ASSUME NEW l \in DOMAIN rows
      PROVE  again(l) \in RowType(l) /\ (again(l).state = "pending" => l \in todo')
  BY <1>1, <1>2 DEF RowsInv, SeededOK, RowType
<1>. HIDE DEF again
<1>3. SeededOK' BY <1>1, <1>2 DEF RowsInv, SeededOK, RowType
<1>4. QED BY <1>1, <1>3

LEMMA RowsNext == RowsInv /\ [Next]_vars => RowsInv'
<1>1. SUFFICES ASSUME RowsInv, [Next]_vars PROVE RowsInv' OBVIOUS
<1>2. NamesInv' BY <1>1, NamesNext DEF RowsInv
<1>3. CASE Persist
  <2>1. rows = <<>> BY <1>1, <1>3 DEF Persist, RowsInv, SeededOK
  <2>2. QED BY <1>1, <1>2, <1>3, <2>1 DEF Persist, RowsInv, SeededOK
<1>4. CASE SeedRows
  <2>1. SeededOK' BY <1>1, <1>4, SeedKeepsRows
  <2>2. rows' = <<>> => todo' = {} BY <1>4 DEF SeedRows
  <2>3. QED BY <1>2, <2>1, <2>2 DEF RowsInv
<1>5. CASE Convert BY <1>1, <1>2, <1>5, ConvertKeepsRows DEF RowsInv
<1>6. CASE Retry BY <1>1, <1>2, <1>6, RetryKeepsRows DEF RowsInv
<1>7. CASE ZipStart \/ ZipEnter \/ ZipNext \/ UNCHANGED vars
  <2>1. UNCHANGED <<uploads, inputs, todo, rows, outDir>>
    BY <1>7 DEF ZipStart, ZipEnter, ZipNext, vars, batch
  <2>2. QED BY <1>1, <1>2, <2>1 DEF RowsInv, SeededOK, RowType, Elems
<1>8. QED BY <1>1, <1>3, <1>4, <1>5, <1>6, <1>7 DEF Next

LEMMA RowsAlways == Spec => []RowsInv
  BY RowsInit, RowsNext, PTL DEF Spec

\* When the worker has been through its inputs no row is left pending, whatever
\* names collide and whatever is retried (convert_flow.go:147-152).
THEOREM EveryRowSettles == Spec => []BatchSettles
<1>1. RowsInv => BatchSettles BY DEF RowsInv, SeededOK, BatchSettles, Done
<1>2. QED BY <1>1, RowsAlways, PTL

\* Whatever was listed when the last archive was asked for is in it, or waits for
\* its walk.
IsIn(f) == \E k \in DOMAIN zip : zip[k].file = f
Ahead(f) ==
    /\ f = <<f[1], f[2]>>
    /\ f[1] \in walk.dirs \cap DOMAIN outDir /\ f[2] \in OutNames /\ Zips(f[1], f[2])
WalkInv ==
    /\ RowsInv
    /\ \A f \in promised : IsIn(f) \/ f \in walk.files \/ Ahead(f)
    /\ rows = <<>> => promised = {}

LEMMA WalkInit == Init => WalkInv
  BY RowsInit DEF Init, WalkInv

\* The batch goes on, and no file is removed.
LEMMA BatchKeepsWalk ==
  ASSUME WalkInv, UNCHANGED archive, \A x \in DOMAIN outDir : outDir[x] \subseteq outDir'[x],
         DOMAIN outDir' = DOMAIN outDir, rows # <<>>, RowsInv', rows' # <<>>
  PROVE  WalkInv'
<1>1. UNCHANGED <<zip, walk, promised>> BY DEF archive
<1>2. ASSUME NEW f \in promised, Ahead(f) PROVE Ahead(f)'
  BY <1>1, <1>2 DEF Ahead, Zips
<1>3. ASSUME NEW f \in promised, IsIn(f) PROVE IsIn(f)' BY <1>1, <1>3 DEF IsIn
<1>4. QED BY <1>1, <1>2, <1>3 DEF WalkInv

LEMMA StartKeepsWalk ==
  ASSUME WalkInv, ZipStart, RowsInv'
  PROVE  WalkInv'
<1>1. /\ promised' = Listed /\ rows # <<>> /\ UNCHANGED <<rows, outDir>>
      /\ {x \in Elems(inputs) : outDir[x] # {}} \subseteq walk'.dirs
  BY DEF ZipStart, batch
<1>2. ASSUME NEW f \in Listed PROVE Ahead(f)'
  <2>0. PICK k \in DOMAIN rows : f \in {<<rows[k].input, o>> : o \in rows[k].outputs}
    BY DEF Listed
  <2>1. PICK o \in rows[k].outputs : f = <<rows[k].input, o>> BY <2>0
  <2>2. /\ rows[k].input = inputs[k] /\ rows[k].outputs \subseteq outDir[inputs[k]] \ Hidden
        /\ inputs[k] \in Elems(inputs) /\ inputs[k] \in DOMAIN outDir
        /\ outDir[inputs[k]] \subseteq OutNames
    BY <1>1, <2>1 DEF WalkInv, RowsInv, SeededOK, RowType, Elems
  <2>3. inputs[k] \in walk'.dirs BY <1>1, <2>1, <2>2
  <2>4. f[1] = inputs[k] /\ f[2] = o BY <2>1, <2>2
  <2>5. QED BY <1>1, <2>1, <2>2, <2>3, <2>4 DEF Ahead, Zips
<1>3. QED BY <1>1, <1>2 DEF WalkInv

LEMMA EnterKeepsWalk ==
  ASSUME WalkInv, ZipEnter, RowsInv'
  PROVE  WalkInv'
<1>1. PICK x \in walk.dirs :
        walk' = [dirs |-> walk.dirs \ {x},
                 files |-> {<<x, o>> : o \in {p \in OutNames : Zips(x, p)}}]
  BY DEF ZipEnter
<1>2. walk.files = {} /\ UNCHANGED <<zip, promised, rows, outDir>> BY DEF ZipEnter, batch
<1>3. ASSUME NEW f \in promised, Ahead(f) PROVE f \in walk'.files \/ Ahead(f)'
  <2>1. CASE f[1] = x
    <3>1. f = <<x, f[2]>> /\ f[2] \in {p \in OutNames : Zips(x, p)} BY <1>3, <2>1 DEF Ahead
    <3>2. QED BY <1>1, <3>1
  <2>2. CASE f[1] # x BY <1>1, <1>2, <1>3, <2>2 DEF Ahead, Zips
  <2>3. QED BY <2>1, <2>2
<1>4. ASSUME NEW f \in promised, IsIn(f) PROVE IsIn(f)' BY <1>2, <1>4 DEF IsIn
<1>5. QED BY <1>2, <1>3, <1>4 DEF WalkInv

LEMMA CopyKeepsWalk ==
  ASSUME WalkInv, ZipNext, RowsInv'
  PROVE  WalkInv'
<1>0. PICK f \in walk.files : \E e :
        zip' = Append(zip, [file |-> f, entry |-> e]) /\ walk' = [walk EXCEPT !.files = @ \ {f}]
  BY DEF ZipNext
<1>1. PICK e :
        zip' = Append(zip, [file |-> f, entry |-> e]) /\ walk' = [walk EXCEPT !.files = @ \ {f}]
  BY <1>0
<1>2. UNCHANGED <<promised, rows, outDir>> BY DEF ZipNext, batch
<1>3. IsSequence(zip) BY DEF WalkInv, RowsInv, NamesInv
<1>4. /\ Len(zip) \in Nat /\ DOMAIN zip = 1..Len(zip) /\ DOMAIN zip' = 1..(Len(zip) + 1)
      /\ \A k \in 1..Len(zip) : zip'[k] = zip[k]
      /\ zip'[Len(zip) + 1] = [file |-> f, entry |-> e]
  BY <1>1, <1>3, Appended
<1>5. IsIn(f)'
  <2>1. Len(zip) + 1 \in DOMAIN zip' /\ zip'[Len(zip) + 1].file = f BY <1>4
  <2>2. QED BY <2>1 DEF IsIn
<1>6. ASSUME NEW g \in promised, IsIn(g) PROVE IsIn(g)'
  <2>1. PICK k \in DOMAIN zip : zip[k].file = g BY <1>6 DEF IsIn
  <2>2. k \in DOMAIN zip' /\ zip'[k].file = g BY <1>4, <2>1
  <2>3. QED BY <2>2 DEF IsIn
<1>7. ASSUME NEW g \in promised, Ahead(g) PROVE Ahead(g)'
  <2>1. g[1] \in walk'.dirs BY <1>1, <1>7 DEF Ahead
  <2>2. QED BY <1>2, <1>7, <2>1 DEF Ahead, Zips
<1>8. ASSUME NEW g \in walk.files, g # f PROVE g \in walk'.files BY <1>1, <1>8
<1>9. QED BY <1>2, <1>5, <1>6, <1>7, <1>8 DEF WalkInv

LEMMA WalkNext == WalkInv /\ [Next]_vars => WalkInv'
<1>1. SUFFICES ASSUME WalkInv, [Next]_vars PROVE WalkInv' OBVIOUS
<1>2. RowsInv' BY <1>1, RowsNext DEF WalkInv
<1>3. CASE Persist \/ SeedRows
  <2>1. rows = <<>>
    <3>1. CASE Persist BY <1>1, <3>1 DEF Persist, WalkInv, RowsInv, SeededOK
    <3>2. CASE SeedRows BY <3>2 DEF SeedRows
    <3>3. QED BY <1>3, <3>1, <3>2
  <2>2. promised = {} /\ promised' = promised BY <1>1, <1>3, <2>1 DEF WalkInv, Persist, SeedRows, archive
  <2>3. QED BY <1>2, <2>2 DEF WalkInv
<1>4. CASE Convert
  <2>1. PICK i \in todo, k \in DOMAIN rows, wrote \in Writings \cup {{}},
             verdict \in {"done", "failed"}, ran \in BOOLEAN :
          Converted(i, k, wrote, verdict, ran)
    BY <1>4 DEF Convert
  <2>2. rows # <<>> BY <1>1, <2>1 DEF WalkInv, RowsInv
  <2>3. rows' # <<>> BY <1>1, <1>4, ConvertKeepsRows DEF WalkInv
  <2>4. outDir' = [outDir EXCEPT ![inputs[i]] = outDir[inputs[i]] \cup wrote] /\ UNCHANGED archive
    BY <2>1 DEF Converted
  <2>5. /\ DOMAIN outDir' = DOMAIN outDir
        /\ \A x \in DOMAIN outDir : outDir[x] \subseteq outDir'[x]
    BY <2>4
  <2>6. QED BY <1>1, <1>2, <2>2, <2>3, <2>4, <2>5, BatchKeepsWalk
<1>5. CASE Retry
  <2>1. rows # <<>> /\ UNCHANGED <<outDir, archive>> BY <1>5 DEF Retry, Done
  <2>2. rows' # <<>> BY <1>1, <1>5, RetryKeepsRows DEF WalkInv
  <2>3. QED BY <1>1, <1>2, <2>1, <2>2, BatchKeepsWalk
<1>6. CASE ZipStart BY <1>1, <1>2, <1>6, StartKeepsWalk
<1>7. CASE ZipEnter BY <1>1, <1>2, <1>7, EnterKeepsWalk
<1>8. CASE ZipNext BY <1>1, <1>2, <1>8, CopyKeepsWalk
<1>9. CASE UNCHANGED vars
  <2>1. UNCHANGED <<zip, walk, promised, rows, outDir>> BY <1>9 DEF vars, batch, archive
  <2>2. QED BY <1>1, <1>2, <2>1 DEF WalkInv, IsIn, Ahead, Zips
<1>10. QED BY <1>1, <1>3, <1>4, <1>5, <1>6, <1>7, <1>8, <1>9 DEF Next

LEMMA WalkAlways == Spec => []WalkInv
  BY WalkInit, WalkNext, PTL DEF Spec

\* Whatever a finished batch lists is served by its link if no other row lists the
\* name and the names are safe, and whatever is listed when an archive is asked for
\* is in it.
THEOREM OutputsReachable == Spec => []EveryOutputReachable
<1>1. ASSUME RowsInv, Done, NEW k \in DOMAIN rows, NEW o \in rows[k].outputs,
             Safe(rows[k].input), Safe(o), \A l \in DOMAIN rows \ {k} : o \notin rows[l].outputs
      PROVE  Served(o) = {<<rows[k].input, o>>}
  <2>1. /\ rows[k].input = inputs[k] /\ o \in outDir[rows[k].input]
        /\ DOMAIN rows = 1..Len(inputs) /\ Len(inputs) \in Nat
    BY <1>1, Appended DEF RowsInv, NamesInv, SeededOK, RowType, Done
  <2>2. Lists(k, o) BY <1>1, <2>1 DEF Lists
  <2>3. \A l \in DOMAIN rows : Lists(l, o) => l = k BY <1>1 DEF Lists
  <2>4. QED BY <1>1, <2>1, <2>2, <2>3 DEF Served
<1>2. ASSUME WalkInv, walk = NoWalk, NEW f \in promised PROVE f \in {zip[k].file : k \in DOMAIN zip}
  <2>1. f \notin walk.files /\ ~Ahead(f) BY <1>2 DEF NoWalk, Ahead
  <2>2. IsIn(f) BY <1>2, <2>1 DEF WalkInv
  <2>3. QED BY <2>2 DEF IsIn
<1>3. WalkInv => EveryOutputReachable BY <1>1, <1>2 DEF EveryOutputReachable, WalkInv
<1>4. QED BY <1>3, WalkAlways, PTL
=============================================================================
