------------------------- MODULE ConfigLayers_proofs -------------------------
(***************************************************************************)
(* What a save of the option editor keeps, what conversions and retries    *)
(* run with, and what the editor's grid shows, for any schema, defaults,   *)
(* texts and presets older versions may have left.                         *)
(*                                                                         *)
(* The grid is lists taken apart and laid after each other.  Lists(s, S)   *)
(* says that s has each element of S once; every operator of EditorGrid    *)
(* has a lemma that says which set it lists.                               *)
(***************************************************************************)
EXTENDS EditorGrid, FiniteSetTheorems, SequenceTheorems, WellFoundedInduction, TLAPS

\* The leaves a save keeps of an option, and those of rows the schema does not know.
KeptOf(f, k) == {Leaf(k, v) : v \in {w \in Parsed(k, LastValue(Posted(k, f[k]))) : ~IsDefault(k, w)}}
KeptOfAll(f) == UNION {KeptOf(f, k) : k \in Schema}
ExtraOf(f) == {Leaf(k, Val("text", f[k])) : k \in {p \in DOMAIN f \ Schema : Len(p) > 1 /\ f[p] # Blank}}

\* A save leaves what it has collected, and a configuration is that of the preset.
KeptInv ==
    /\ posted # Absent => overrides = Collect(Native(posted)) /\ Schema \subseteq DOMAIN posted
    /\ form # Absent => Schema \subseteq DOMAIN form
    /\ \A l \in overrides : l.path # <<"document">>
    /\ cfg # Absent => cfg = Build(overrides)
    /\ retry # Absent => retry = Build({Flip})

-----------------------------------------------------------------------------
(* What is collected                                                       *)

LEMMA CollectIs ==
  ASSUME NEW f, NEW l
  PROVE  l \in Collect(f) <=> (\E k \in Schema : l \in KeptOf(f, k)) \/ l \in ExtraOf(f)
<1>1. Collect(f) = KeptOfAll(f) \cup ExtraOf(f) BY DEF Collect, KeptOf, KeptOfAll, ExtraOf
<1>2. ASSUME l \in KeptOfAll(f) PROVE \E k \in Schema : l \in KeptOf(f, k)
  <2>1. PICK mine \in {KeptOf(f, k) : k \in Schema} : l \in mine BY <1>2 DEF KeptOfAll
  <2>2. PICK k \in Schema : mine = KeptOf(f, k) BY <2>1
  <2>3. QED BY <2>1, <2>2
<1>3. ASSUME NEW k \in Schema, l \in KeptOf(f, k) PROVE l \in KeptOfAll(f)
  <2>1. KeptOf(f, k) \in {KeptOf(f, q) : q \in Schema} OBVIOUS
  <2>2. QED BY <1>3, <2>1 DEF KeptOfAll
<1>4. QED BY <1>1, <1>2, <1>3

\* The two posts of a box, and the one of any other control, are parsed as its text.
LEMMA PostedParsed ==
  ASSUME NEW k \in Schema, NEW t
  PROVE  Parsed(k, LastValue(Posted(k, t))) = Parsed(k, t)
<1>1. CASE Kind[k] = "bool" /\ t = "true"
  <2>1. Posted(k, t) = <<"false", "true">> BY <1>1 DEF Posted
  <2>2. Len(<<"false", "true">>) = 2 /\ <<"false", "true">>[2] = "true" OBVIOUS
  <2>3. LastValue(Posted(k, t)) = t BY <1>1, <2>1, <2>2 DEF LastValue
  <2>4. QED BY <2>3
<1>2. CASE Kind[k] = "bool" /\ t # "true"
  <2>1. Posted(k, t) = <<"false">> BY <1>2 DEF Posted
  <2>2. LastValue(Posted(k, t)) = "false" BY <2>1 DEF LastValue
  <2>3. QED BY <1>2, <2>2 DEF Parsed
<1>3. CASE Kind[k] # "bool"
  <2>1. Posted(k, t) = <<t>> BY <1>3 DEF Posted
  <2>2. LastValue(Posted(k, t)) = t BY <2>1 DEF LastValue
  <2>3. QED BY <2>2
<1>4. QED BY <1>1, <1>2, <1>3

LEMMA ParsedOnce ==
  ASSUME NEW k \in Schema, NEW t
  PROVE  Parsed(k, t) = {} \/ \E v : Parsed(k, t) = {v}
<1>1. CASE Kind[k] = "int" /\ t \in DOMAIN Atoi
  <2>1. Parsed(k, t) = {Val("int", Atoi[t])} BY <1>1 DEF Parsed
  <2>2. QED BY <2>1
<1>2. CASE Kind[k] = "int" /\ t \notin DOMAIN Atoi BY <1>2 DEF Parsed
<1>3. CASE Kind[k] = "bool"
  <2>1. Parsed(k, t) = {Val("bool", IF t = "true" THEN "true" ELSE "false")} BY <1>3 DEF Parsed
  <2>2. QED BY <2>1
<1>4. CASE Kind[k] \notin {"int", "bool"}
  <2>1. Parsed(k, t) = {Val("text", t)} BY <1>4 DEF Parsed
  <2>2. QED BY <2>1
<1>5. QED BY <1>1, <1>2, <1>3, <1>4

LEMMA PathOfLeaf == ASSUME NEW p, NEW v PROVE Leaf(p, v).path = p /\ Leaf(p, v).val = v
  BY DEF Leaf

\* The leaf at an option's path is what is kept of the option.
LEMMA CollectAt ==
  ASSUME NEW f, NEW k \in Schema, NEW l, l.path = k
  PROVE  l \in Collect(f) <=> l \in KeptOf(f, k)
<1>1. \A q \in Schema : l \in KeptOf(f, q) => q = k BY PathOfLeaf DEF KeptOf
<1>2. l \notin ExtraOf(f) BY PathOfLeaf DEF ExtraOf
<1>3. QED BY <1>1, <1>2, CollectIs

LEMMA NotTheSection ==
  ASSUME NEW f, NEW l \in Collect(f)
  PROVE  l.path # <<"document">>
<1>1. CASE \E k \in Schema : l \in KeptOf(f, k)
  <2>1. PICK k \in Schema : l.path = k BY <1>1, PathOfLeaf DEF KeptOf
  <2>2. k # <<"document">> BY DocumentAssumption
  <2>3. QED BY <2>1, <2>2
<1>2. CASE l \in ExtraOf(f)
  <2>1. Len(l.path) > 1 BY <1>2, PathOfLeaf DEF ExtraOf
  <2>2. ASSUME l.path = <<"document">> PROVE FALSE
    <3>1. Len(l.path) = 1 BY <2>2
    <3>2. QED BY <2>1, <3>1
  <2>3. QED BY <2>2
<1>3. QED BY <1>1, <1>2, CollectIs

\* What the editor shows of an option after a save is what was meant.
LEMMA CollectedShown ==
  ASSUME NEW f, NEW k \in Schema
  PROVE  Shown(Collect(f), k) = Meant(k, f[k])
<1>. DEFINE over == Collect(f)
<1>1. KeptOf(f, k) = {Leaf(k, v) : v \in {w \in Parsed(k, f[k]) : ~IsDefault(k, w)}}
  BY PostedParsed DEF KeptOf
<1>2. \A l \in KeptOf(f, k) : l.path = k BY <1>1, PathOfLeaf
<1>3. CASE Parsed(k, f[k]) = {}
  <2>1. ~Has(over, k) BY <1>1, <1>3, CollectAt DEF Has
  <2>2. QED BY <1>3, <2>1 DEF Shown, Meant
<1>4. ASSUME NEW v, Parsed(k, f[k]) = {v}, IsDefault(k, v) PROVE Shown(over, k) = Meant(k, f[k])
  <2>1. ~Has(over, k) BY <1>1, <1>4, CollectAt DEF Has
  <2>2. Meant(k, f[k]) = v.text BY <1>4 DEF Meant
  <2>3. QED BY <1>4, <2>1, <2>2 DEF Shown, IsDefault
<1>5. ASSUME NEW v, Parsed(k, f[k]) = {v}, ~IsDefault(k, v) PROVE Shown(over, k) = Meant(k, f[k])
  <2>1. KeptOf(f, k) = {Leaf(k, v)} BY <1>1, <1>5
  <2>2. Leaf(k, v) \in over /\ \A l \in over : l.path = k => l = Leaf(k, v)
    BY <2>1, CollectAt, PathOfLeaf
  <2>3. Has(over, k) /\ (CHOOSE l \in over : l.path = k) = Leaf(k, v)
    BY <2>2, PathOfLeaf DEF Has
  <2>4. Shown(over, k) = Leaf(k, v).val.text BY <2>3 DEF Shown
  <2>5. QED BY <1>5, <2>4, PathOfLeaf DEF Meant
<1>6. QED BY <1>3, <1>4, <1>5, ParsedOnce

-----------------------------------------------------------------------------
(* Line breaks                                                             *)

LEMMA NativeAt ==
  ASSUME NEW f, NEW k \in DOMAIN f
  PROVE  Native(f)[k] = Submitted(k, f[k]) /\ (k \notin Schema => Native(f)[k] = f[k])
  BY DEF Native, Submitted, IsArea

LEMMA NotArea ==
  ASSUME NEW k, ~IsArea(k), NEW t
  PROVE  Submitted(k, t) = t /\ InControl(k, t) = t
  BY DEF Submitted, InControl

LEMMA AreaMeant ==
  ASSUME NEW k, IsArea(k), NEW t
  PROVE  Meant(k, t) = t
<1>1. Parsed(k, t) = {Val("text", t)} BY DEF IsArea, Parsed
<1>2. Val("text", t).text = t BY DEF Val
<1>3. QED BY <1>1, <1>2 DEF Meant

\* A page shows the same of a text whether or not it was submitted.
LEMMA SubmittedShown ==
  ASSUME NEW k, NEW t
  PROVE  InControl(k, Meant(k, Submitted(k, t))) = InControl(k, Meant(k, t))
<1>1. By(Held, By(Crlf, t)) = By(Held, t)
  <2>1. CASE t \in DOMAIN Crlf \cup DOMAIN Held BY <2>1, LineBreaksAssumption
  <2>2. CASE t \notin DOMAIN Crlf \cup DOMAIN Held
    <3>1. By(Crlf, t) = t BY <2>2 DEF By
    <3>2. QED BY <3>1
  <2>3. QED BY <2>1, <2>2
<1>2. CASE IsArea(k) BY <1>1, <1>2, AreaMeant DEF InControl, Submitted
<1>3. CASE ~IsArea(k) BY <1>3, NotArea
<1>4. QED BY <1>2, <1>3

-----------------------------------------------------------------------------
(* A save of an untouched page                                             *)

\* What a parse yields is parsed to itself, and so is a default, or to nothing.
LEMMA ParsedAgain ==
  ASSUME NEW k \in Schema, NEW t, NEW v \in Parsed(k, t)
  PROVE  Parsed(k, v.text) = {v}
<1>. USE DEF Val
<1>1. CASE Kind[k] = "int"
  <2>1. t \in DOMAIN Atoi /\ v = Val("int", Atoi[t]) BY <1>1 DEF Parsed
  <2>2. v.text = Atoi[t] BY <2>1
  <2>3. Atoi[t] \in DOMAIN Atoi /\ Atoi[Atoi[t]] = Atoi[t] BY <2>1, NumbersAssumption
  <2>4. Parsed(k, v.text) = {Val("int", Atoi[v.text])} BY <1>1, <2>2, <2>3 DEF Parsed
  <2>5. QED BY <2>1, <2>2, <2>3, <2>4
<1>2. CASE Kind[k] = "bool"
  <2>1. v = Val("bool", IF t = "true" THEN "true" ELSE "false") BY <1>2 DEF Parsed
  <2>2. v.text = IF t = "true" THEN "true" ELSE "false" BY <2>1
  <2>3. Parsed(k, v.text) = {Val("bool", v.text)} BY <1>2, <2>2 DEF Parsed
  <2>4. QED BY <2>1, <2>2, <2>3
<1>3. CASE Kind[k] \notin {"int", "bool"}
  <2>1. v = Val("text", t) BY <1>3 DEF Parsed
  <2>2. v.text = t BY <2>1
  <2>3. QED BY <1>3, <2>1, <2>2 DEF Parsed
<1>4. QED BY <1>1, <1>2, <1>3

LEMMA DefaultParsed ==
  ASSUME NEW k \in Schema, NEW v \in Parsed(k, Default[k])
  PROVE  IsDefault(k, v)
<1>. USE DEF Val, IsDefault
<1>1. CASE Kind[k] = "int"
  <2>1. Default[k] \in DOMAIN Atoi /\ v = Val("int", Atoi[Default[k]]) BY <1>1 DEF Parsed
  <2>2. Atoi[Default[k]] = Default[k] BY <1>1, <2>1, DefaultsAssumption
  <2>3. QED BY <2>1, <2>2
<1>2. CASE Kind[k] = "bool"
  <2>1. v = Val("bool", IF Default[k] = "true" THEN "true" ELSE "false") BY <1>2 DEF Parsed
  <2>2. Default[k] \in {"true", "false"} BY <1>2, DefaultsAssumption
  <2>3. QED BY <2>1, <2>2
<1>3. CASE Kind[k] \notin {"int", "bool"}
  <2>1. v = Val("text", Default[k]) BY <1>3 DEF Parsed
  <2>2. QED BY <2>1
<1>4. QED BY <1>1, <1>2, <1>3

\* The controls an editor page starts with.
Page(over) == [k \in Rows(over) |-> InControl(k, Shown(over, k))]

LEMMA ParsedMeant ==
  ASSUME NEW k \in Schema, NEW t, NEW v
  PROVE  (v \in Parsed(k, Meant(k, t)) /\ ~IsDefault(k, v)) <=> (v \in Parsed(k, t) /\ ~IsDefault(k, v))
<1>1. CASE Parsed(k, t) = {}
  <2>1. Meant(k, t) = Default[k] BY <1>1 DEF Meant
  <2>2. QED BY <1>1, <2>1, DefaultParsed
<1>2. ASSUME NEW w, Parsed(k, t) = {w} PROVE Parsed(k, Meant(k, t)) = {w}
  <2>1. Meant(k, t) = w.text BY <1>2 DEF Meant
  <2>2. QED BY <1>2, <2>1, ParsedAgain
<1>3. QED BY <1>1, <1>2, ParsedOnce

LEMMA KeptAgain ==
  ASSUME NEW f, NEW k \in Schema, k \in DOMAIN f, NoBreakIsLost(f)
  PROVE  KeptOf(Native(Page(Collect(Native(f)))), k) = KeptOf(Native(f), k)
<1>. DEFINE page == Page(Collect(Native(f)))
<1>1. k \in DOMAIN page /\ page[k] = InControl(k, Shown(Collect(Native(f)), k)) BY DEF Page, Rows
<1>2. Native(f)[k] = Submitted(k, f[k]) BY NativeAt
<1>3. page[k] = InControl(k, Meant(k, f[k])) BY <1>1, <1>2, CollectedShown, SubmittedShown
<1>4. Native(page)[k] = Submitted(k, InControl(k, Meant(k, f[k]))) BY <1>1, <1>3, NativeAt
<1>. HIDE DEF page
<1>5. CASE IsArea(k)
  <2>1. Native(page)[k] = Native(f)[k] BY <1>2, <1>4, <1>5, AreaMeant DEF NoBreakIsLost
  <2>2. QED BY <2>1 DEF KeptOf, page
<1>6. CASE ~IsArea(k)
  <2>1. Native(page)[k] = Meant(k, f[k]) /\ Native(f)[k] = f[k] BY <1>2, <1>4, <1>6, NotArea
  <2>2. /\ Parsed(k, LastValue(Posted(k, Native(page)[k]))) = Parsed(k, Meant(k, f[k]))
        /\ Parsed(k, LastValue(Posted(k, Native(f)[k]))) = Parsed(k, f[k])
    BY <2>1, PostedParsed
  <2>3. {w \in Parsed(k, Meant(k, f[k])) : ~IsDefault(k, w)} = {w \in Parsed(k, f[k]) : ~IsDefault(k, w)}
    BY ParsedMeant
  <2>4. QED BY <2>2, <2>3 DEF KeptOf, page
<1>7. QED BY <1>5, <1>6

\* The rows the schema does not know, after a save.
LEMMA ExtraAgain ==
  ASSUME NEW f
  PROVE  ExtraOf(Page(Collect(f))) = ExtraOf(f)
<1>. DEFINE over == Collect(f)
<1>. DEFINE page == Page(over)
<1>. DEFINE Extra(g) == {p \in DOMAIN g \ Schema : Len(p) > 1 /\ g[p] # Blank}
<1>1. \A k \in Schema : \A l \in KeptOf(f, k) : l.path = k BY PathOfLeaf DEF KeptOf
<1>2. DOMAIN page = Rows(over) BY DEF Page
<1>3. ASSUME NEW p \in Extra(f) PROVE p \in Extra(page) /\ page[p] = f[p]
  <2>1. Leaf(p, Val("text", f[p])) \in ExtraOf(f) BY <1>3 DEF ExtraOf
  <2>2. Leaf(p, Val("text", f[p])) \in over BY <2>1, CollectIs
  <2>3. \A l \in over : l.path = p => l = Leaf(p, Val("text", f[p]))
    <3>1. ASSUME NEW l \in over, l.path = p PROVE l \in ExtraOf(f) BY <1>1, <1>3, <3>1, CollectIs
    <3>2. ASSUME NEW l \in ExtraOf(f), l.path = p PROVE l = Leaf(p, Val("text", f[p]))
      BY <3>2, PathOfLeaf DEF ExtraOf
    <3>3. QED BY <3>1, <3>2
  <2>4. p \in Rows(over) BY <2>2, PathOfLeaf DEF Rows
  <2>5. Has(over, p) /\ (CHOOSE l \in over : l.path = p) = Leaf(p, Val("text", f[p]))
    BY <2>2, <2>3, PathOfLeaf DEF Has
  <2>6. Shown(over, p) = Leaf(p, Val("text", f[p])).val.text BY <2>5 DEF Shown
  <2>7. Shown(over, p) = f[p] BY <2>6, PathOfLeaf DEF Val
  <2>8. page[p] = f[p]
    <3>1. ~IsArea(p) BY <1>3 DEF IsArea
    <3>2. page[p] = InControl(p, Shown(over, p)) BY <2>4 DEF Page
    <3>3. QED BY <2>7, <3>1, <3>2, NotArea
  <2>9. QED BY <1>2, <1>3, <2>4, <2>8
<1>4. ASSUME NEW p \in Extra(page) PROVE p \in Extra(f)
  <2>1. p \in Rows(over) \ Schema BY <1>2
  <2>2. PICK l \in over : l.path = p BY <2>1 DEF Rows
  <2>3. l \in ExtraOf(f) BY <1>1, <2>1, <2>2, CollectIs
  <2>4. QED BY <2>2, <2>3, PathOfLeaf DEF ExtraOf
<1>5. Extra(page) = Extra(f) /\ \A p \in Extra(f) : page[p] = f[p] BY <1>3, <1>4
<1>6. QED BY <1>5 DEF ExtraOf

LEMMA NativeExtra ==
  ASSUME NEW f
  PROVE  ExtraOf(Native(f)) = ExtraOf(f)
<1>1. DOMAIN Native(f) = DOMAIN f BY DEF Native
<1>2. \A p \in DOMAIN f \ Schema : Native(f)[p] = f[p] BY NativeAt
<1>3. QED BY <1>1, <1>2 DEF ExtraOf

LEMMA CollectAgain ==
  ASSUME NEW f, Schema \subseteq DOMAIN f, NoBreakIsLost(f)
  PROVE  Collect(Native(Page(Collect(Native(f))))) = Collect(Native(f))
<1>. DEFINE sent == Native(f)
            again == Native(Page(Collect(sent)))
<1>1. \A k \in Schema : KeptOf(again, k) = KeptOf(sent, k) BY KeptAgain
<1>2. ExtraOf(again) = ExtraOf(sent) BY ExtraAgain, NativeExtra
<1>. HIDE DEF sent, again
<1>3. \A l : l \in Collect(again) <=> l \in Collect(sent) BY <1>1, <1>2, CollectIs
<1>4. Collect(again) = Collect(sent) BY <1>3 DEF Collect
<1>5. QED BY <1>4 DEF sent, again

-----------------------------------------------------------------------------
(* What is saved, laid and previewed                                       *)

LEMMA BuiltOf ==
  ASSUME NEW over, \A l \in over : l.path # <<"document">>
  PROVE  over \subseteq Build(over) /\ Build(over) \subseteq over \cup AppDefaults
  BY DEF Build, Opened, Layered, Overlay

LEMMA KeptInit == Init => KeptInv
<1>1. ASSUME Init, NEW l \in overrides PROVE l.path # <<"document">>
  <2>1. l \in Legacy \/ \E k \in Schema : l \in Legal(k) BY <1>1 DEF Init
  <2>2. CASE l \in Legacy BY <2>2, DocumentAssumption
  <2>3. ASSUME NEW k \in Schema, l \in Legal(k) PROVE l.path # <<"document">>
    <3>1. l.path = k BY <2>3, PathOfLeaf DEF Legal
    <3>2. k # <<"document">> BY DocumentAssumption
    <3>3. QED BY <3>1, <3>2
  <2>4. QED BY <2>1, <2>2, <2>3
<1>2. ASSUME Init PROVE form = Absent /\ posted = Absent /\ cfg = Absent /\ retry = Absent
  BY <1>2 DEF Init
<1>3. QED BY <1>1, <1>2 DEF KeptInv

LEMMA KeptNext ==
  ASSUME KeptInv, [Next]_vars
  PROVE  KeptInv'
<1>. USE DEF KeptInv
<1>1. CASE Save
  <2>1. /\ form # Absent /\ form' = Absent /\ overrides' = Collect(Native(form)) /\ posted' = form
        /\ cfg' = Absent /\ retry' = Absent
    BY <1>1 DEF Save
  <2>2. \A l \in overrides' : l.path # <<"document">> BY <2>1, NotTheSection
  <2>3. Collect(Native(posted))' = Collect(Native(posted')) BY DEF Collect, Native
  <2>4. QED BY <2>1, <2>2
<1>2. CASE Convert BY <1>2 DEF Convert
<1>3. CASE Retry BY <1>3 DEF Retry
<1>4. CASE OpenEditor
  <2>1. DOMAIN form' = Rows(overrides) BY <1>4 DEF OpenEditor
  <2>2. Schema \subseteq DOMAIN form' BY <2>1 DEF Rows
  <2>3. QED BY <1>4, <2>2 DEF OpenEditor
<1>5. CASE Change
  <2>1. form # Absent /\ DOMAIN form' = DOMAIN form BY <1>5 DEF Change
  <2>2. QED BY <1>5, <2>1 DEF Change
<1>6. CASE Refresh BY <1>6 DEF Refresh
<1>7. CASE UNCHANGED vars BY <1>7 DEF vars
<1>8. QED BY <1>1, <1>2, <1>3, <1>4, <1>5, <1>6, <1>7 DEF Next

LEMMA KeptAlways == Spec => []KeptInv
  BY KeptInit, KeptNext, PTL DEF Spec

\* A save keeps no override that equals the default of its option, and none of an
\* option that was left at its default, except of a template whose default the
\* submit changes: for any schema and texts, and whatever an older version has
\* stored (editor.go:308).
THEOREM SavesAreSparse == Spec => []SavedIsSparse
<1>1. ASSUME KeptInv, posted # Absent, NEW l \in overrides, NEW k \in Schema, k = l.path
      PROVE  /\ l.val.text # Default[k]
             /\ Submitted(k, InControl(k, Default[k])) = Default[k] => posted[k] # InControl(k, Default[k])
  <2>1. overrides = Collect(Native(posted)) /\ k \in DOMAIN posted BY <1>1 DEF KeptInv
  <2>2. l \in KeptOf(Native(posted), k) BY <1>1, <2>1, CollectAt
  <2>3. PICK v \in Parsed(k, LastValue(Posted(k, Native(posted)[k]))) : l = Leaf(k, v) /\ ~IsDefault(k, v)
    BY <2>2 DEF KeptOf
  <2>4. l.val = v BY <2>3, PathOfLeaf
  <2>5. v \in Parsed(k, Submitted(k, posted[k])) BY <2>1, NativeAt, PostedParsed
  <2>6. Submitted(k, posted[k]) # Default[k] BY <2>3, <2>5, DefaultParsed
  <2>7. QED BY <2>3, <2>4, <2>6 DEF IsDefault
<1>2. KeptInv => SavedIsSparse BY <1>1 DEF SavedIsSparse
<1>3. QED BY <1>2, KeptAlways, PTL

\* The controls show after a save what they held, but for a first line break, for
\* any schema, kinds, defaults and texts (editor.go:253-270, 292-334).
THEOREM SavesRoundTrip == Spec => []SaveRoundTrips
<1>1. ASSUME KeptInv, posted # Absent, NEW k \in Schema
      PROVE  InControl(k, Shown(overrides, k)) = InControl(k, Meant(k, posted[k]))
  <2>1. overrides = Collect(Native(posted)) /\ k \in DOMAIN posted BY <1>1 DEF KeptInv
  <2>2. Shown(overrides, k) = Meant(k, Native(posted)[k]) BY <2>1, CollectedShown
  <2>3. Native(posted)[k] = Submitted(k, posted[k]) BY <2>1, NativeAt
  <2>4. QED BY <2>2, <2>3, SubmittedShown
<1>2. KeptInv => SaveRoundTrips BY <1>1 DEF SaveRoundTrips
<1>3. QED BY <1>2, KeptAlways, PTL

\* A conversion runs with every override of its preset and, besides, application
\* defaults only, and a retry with its flip, for any presets older versions may
\* have left (config_yaml.go:42-53, convert_flow.go:451).
THEOREM OverridesAreLaid == Spec => []OverridesReachFbc
<1>1. ASSUME KeptInv, cfg # Absent PROVE overrides \subseteq cfg /\ cfg \subseteq overrides \cup AppDefaults
  BY <1>1, BuiltOf DEF KeptInv
<1>2. ASSUME KeptInv, retry # Absent PROVE Flip \in retry
  <2>1. Flip.path # <<"document">> BY DocumentAssumption
  <2>2. {Flip} \subseteq Build({Flip}) BY <2>1, BuiltOf
  <2>3. QED BY <1>2, <2>2 DEF KeptInv
<1>3. KeptInv => OverridesReachFbc BY <1>1, <1>2 DEF OverridesReachFbc
<1>4. QED BY <1>3, KeptAlways, PTL

\* Opening a saved preset and saving the untouched page changes nothing, so that
\* the preview is what a conversion will run with (effective.go:13-30).
THEOREM PreviewsAreSaves == Spec => OpenPreviewsSave
<1>1. ASSUME KeptInv, OpenEditor, posted # Absent, NoBreakIsLost(posted)
      PROVE  pane' = Build(Collect(Native(form')))
  <2>1. form' = Page(overrides) /\ pane' = Build(overrides) BY <1>1 DEF OpenEditor, Page
  <2>2. overrides = Collect(Native(posted)) /\ Schema \subseteq DOMAIN posted BY <1>1 DEF KeptInv
  <2>3. Collect(Native(Page(overrides))) = overrides BY <1>1, <2>2, CollectAgain
  <2>4. Collect(Native(form')) = overrides BY <2>1, <2>3
  <2>5. QED BY <2>1, <2>4
<1>2. KeptInv /\ [Next]_vars =>
        [OpenEditor /\ posted # Absent /\ NoBreakIsLost(posted)
           => pane' = Build(Collect(Native(form')))]_vars
  BY <1>1
<1>3. QED BY <1>2, KeptAlways, PTL DEF Spec, OpenPreviewsSave

-----------------------------------------------------------------------------
(* Lists                                                                   *)

Less == {p \in Nat \X Nat : p[1] < p[2]}

LEMMA LeastNumber ==
  ASSUME NEW T, T \subseteq Nat, T # {}
  PROVE  \E n \in T : \A k \in T : n <= k
<1>1. Less = OpToRel(<, Nat) BY Zenon DEF Less, OpToRel
<1>2. IsWellFoundedOn(Less, Nat) BY <1>1, NatLessThanWellFounded, Zenon
<1>3. PICK n \in T : \A k \in T : ~(<<k, n>> \in Less) BY <1>2, WFMin, Zenon
<1>4. ASSUME NEW k \in T PROVE n <= k
  <2>1. <<k, n>> \in Nat \X Nat /\ ~(k < n) BY <1>3 DEF Less
  <2>2. QED BY <2>1
<1>5. QED BY <1>4

\* A set that has 0 and every successor has all natural numbers.
LEMMA SetInduction ==
  ASSUME NEW S, 0 \in S, \A n \in Nat : n \in S => n + 1 \in S
  PROVE  Nat \subseteq S
<1>1. ASSUME Nat \ S # {} PROVE FALSE
  <2>1. PICK n \in Nat \ S : \A k \in Nat \ S : n <= k BY <1>1, LeastNumber
  <2>2. n # 0 /\ n - 1 \in Nat /\ (n - 1) + 1 = n BY <2>1
  <2>3. n - 1 \in S BY <2>1, <2>2
  <2>4. QED BY <2>1, <2>2, <2>3
<1>2. QED BY <1>1

\* A sequence lists a set when it has each element of the set, once, and nothing else.
Lists(s, S) ==
    /\ s \in Seq(S)
    /\ \A x \in S : \E i \in 1..Len(s) : s[i] = x
    /\ \A i, j \in 1..Len(s) : s[i] = s[j] => i = j

LEMMA ListIs ==
  ASSUME NEW s, NEW S, Lists(s, S)
  PROVE  /\ Len(s) \in Nat /\ DOMAIN s = 1..Len(s) /\ s = [i \in 1..Len(s) |-> s[i]]
         /\ \A i \in 1..Len(s) : s[i] \in S
         /\ ToSet(s) = S
BY DEF Lists, ToSet

LEMMA ListOfFunction ==
  ASSUME NEW n \in Nat, NEW s, NEW S, s = [i \in 1..n |-> s[i]],
         \A i \in 1..n : s[i] \in S,
         \A x \in S : \E i \in 1..n : s[i] = x,
         \A i, j \in 1..n : s[i] = s[j] => i = j
  PROVE  Lists(s, S) /\ Len(s) = n
<1>1. s \in [1..n -> S] OBVIOUS
<1>2. s \in Seq(S) /\ Len(s) = n BY <1>1
<1>3. QED BY <1>2 DEF Lists

LEMMA ListEmpty == Lists(<<>>, {})
BY DEF Lists

LEMMA ListOne == ASSUME NEW x PROVE Lists(<<x>>, {x})
BY DEF Lists

LEMMA ListConcat ==
  ASSUME NEW s, NEW S, NEW t, NEW T, Lists(s, S), Lists(t, T), S \cap T = {}
  PROVE  Lists(s \o t, S \cup T)
<1>. DEFINE m == Len(s)
            n == Len(t)
            r == s \o t
<1>1. s \in Seq(S \cup T) /\ t \in Seq(S \cup T) BY DEF Lists
<1>2. r \in Seq(S \cup T) /\ Len(r) = m + n /\ m \in Nat /\ n \in Nat BY <1>1
<1>3. \A i \in 1..m : r[i] = s[i] BY <1>1
<1>4. \A i \in 1..n : r[m + i] = t[i] BY <1>1
<1>5. \A i \in 1..m : r[i] \in S /\ r[i] \notin T BY <1>3 DEF Lists
<1>6. \A i \in (m + 1)..(m + n) : i - m \in 1..n /\ r[i] = t[i - m]
  BY <1>1, <1>2
<1>7. \A i \in (m + 1)..(m + n) : r[i] \in T /\ r[i] \notin S BY <1>6 DEF Lists
<1>8. ASSUME NEW x \in S \cup T PROVE \E i \in 1..(m + n) : r[i] = x
  <2>1. CASE x \in S
    <3>1. PICK i \in 1..m : s[i] = x BY <2>1 DEF Lists
    <3>2. i \in 1..(m + n) BY <1>2
    <3>3. QED BY <1>3, <3>1, <3>2
  <2>2. CASE x \in T
    <3>1. PICK i \in 1..n : t[i] = x BY <2>2 DEF Lists
    <3>2. m + i \in 1..(m + n) BY <1>2
    <3>3. QED BY <1>4, <3>1, <3>2
  <2>3. QED BY <2>1, <2>2
<1>9. ASSUME NEW i \in 1..(m + n), NEW j \in 1..(m + n), r[i] = r[j] PROVE i = j
  <2>1. CASE i \in 1..m /\ j \in 1..m BY <1>3, <1>9, <2>1 DEF Lists
  <2>2. CASE i \in (m + 1)..(m + n) /\ j \in (m + 1)..(m + n)
    <3>1. t[i - m] = t[j - m] /\ i - m \in 1..n /\ j - m \in 1..n BY <1>6, <1>9, <2>2
    <3>2. i - m = j - m BY <3>1 DEF Lists
    <3>3. QED BY <1>2, <3>2
  <2>3. CASE i \in 1..m /\ j \in (m + 1)..(m + n) BY <1>5, <1>7, <1>9, <2>3
  <2>4. CASE j \in 1..m /\ i \in (m + 1)..(m + n) BY <1>5, <1>7, <1>9, <2>4
  <2>5. QED BY <1>2, <2>1, <2>2, <2>3, <2>4
<1>10. QED
  <2>. HIDE DEF r, m, n
  <2>1. Len(r) = m + n BY <1>2
  <2>2. Lists(r, S \cup T) BY <1>2, <1>8, <1>9, <2>1 DEF Lists
  <2>3. QED BY <2>2 DEF r

Flattened(seqs) ==
    CHOOSE flatten : flatten = [i \in 1..Len(seqs) |->
        IF i = 1 THEN seqs[i] ELSE flatten[i - 1] \o seqs[i]]

LEMMA FlattenExists ==
  ASSUME NEW seqs, Len(seqs) \in Nat
  PROVE  Flattened(seqs) = [i \in 1..Len(seqs) |->
             IF i = 1 THEN seqs[i] ELSE Flattened(seqs)[i - 1] \o seqs[i]]
<1>. DEFINE Is(f, n) == f = [i \in 1..n |-> IF i = 1 THEN seqs[i] ELSE f[i - 1] \o seqs[i]]
            S == {n \in Nat : \E f : Is(f, n)}
<1>1. 0 \in S
  <2>1. Is([i \in 1..0 |-> 0], 0) OBVIOUS
  <2>2. QED BY <2>1
<1>2. ASSUME NEW n \in Nat, n \in S PROVE n + 1 \in S
  <2>1. PICK f : Is(f, n) BY <1>2
  <2>. DEFINE g == [i \in 1..(n + 1) |->
                       IF i # n + 1 THEN f[i] ELSE IF i = 1 THEN seqs[i] ELSE f[n] \o seqs[i]]
  <2>2. ASSUME NEW i \in 1..(n + 1)
        PROVE  g[i] = IF i = 1 THEN seqs[i] ELSE g[i - 1] \o seqs[i]
    <3>1. CASE i \in 1..n
      <4>1. g[i] = f[i] BY <3>1
      <4>2. i # 1 => i - 1 \in 1..n BY <3>1
      <4>3. i # 1 => g[i - 1] = f[i - 1] BY <4>2
      <4>4. f[i] = IF i = 1 THEN seqs[i] ELSE f[i - 1] \o seqs[i] BY <2>1, <3>1
      <4>. HIDE DEF g
      <4>5. QED BY <4>1, <4>3, <4>4
    <3>2. CASE i = n + 1
      <4>1. g[i] = IF i = 1 THEN seqs[i] ELSE f[n] \o seqs[i] BY <3>2
      <4>2. i # 1 => i - 1 \in 1..n /\ i - 1 = n BY <3>2
      <4>3. i # 1 => g[i - 1] = f[n] BY <4>2
      <4>. HIDE DEF g
      <4>4. QED BY <4>1, <4>3
    <3>3. QED BY <3>1, <3>2
  <2>3. \E h : Is(h, n + 1)
    <3>1. g = [i \in 1..(n + 1) |-> g[i]] OBVIOUS
    <3>. HIDE DEF g
    <3>2. Is(g, n + 1) BY <2>2, <3>1
    <3>. HIDE DEF Is
    <3>3. QED BY <3>2
  <2>. HIDE DEF Is
  <2>4. QED BY <2>3
<1>3. Nat \subseteq S
  <2>. HIDE DEF S
  <2>1. QED BY <1>1, <1>2, SetInduction
<1>4. \E f : Is(f, Len(seqs)) BY <1>3
<1>5. QED BY <1>4 DEF Flattened

\* Laying out lists of disjoint sets one after the other lists their union.
LEMMA FlattenLists ==
  ASSUME NEW n \in Nat, NEW seqs, NEW X, seqs = [i \in 1..n |-> seqs[i]],
         \A i \in 1..n : Lists(seqs[i], X[i]),
         \A i, j \in 1..n : i # j => X[i] \cap X[j] = {}
  PROVE  Lists(FlattenSeq(seqs), UNION {X[i] : i \in 1..n})
<1>1. Len(seqs) = n
  <2>1. seqs \in [1..n -> {seqs[i] : i \in 1..n}] OBVIOUS
  <2>2. QED BY <2>1
<1>2. CASE n = 0
  <2>1. seqs = <<>> BY <1>2
  <2>2. UNION {X[i] : i \in 1..n} = {} BY <1>2
  <2>3. FlattenSeq(seqs) = seqs BY <1>1, <1>2 DEF FlattenSeq
  <2>4. QED BY <2>1, <2>2, <2>3, ListEmpty
<1>3. CASE n # 0
  <2>. DEFINE f == Flattened(seqs)
              U(k) == UNION {X[i] : i \in 1..k}
              S == {k \in Nat : k \in 1..n => Lists(f[k], U(k))}
  <2>1. FlattenSeq(seqs) = f[n] BY <1>1, <1>3 DEF FlattenSeq, Flattened
  <2>2. f = [i \in 1..n |-> IF i = 1 THEN seqs[i] ELSE f[i - 1] \o seqs[i]]
    BY <1>1, FlattenExists
  <2>. HIDE DEF f
  <2>3. 0 \in S OBVIOUS
  <2>4. ASSUME NEW k \in Nat, k \in S PROVE k + 1 \in S
    <3>1. SUFFICES ASSUME k + 1 \in 1..n PROVE Lists(f[k + 1], U(k + 1)) OBVIOUS
    <3>2. CASE k = 0
      <4>1. k + 1 = 1 /\ 1 \in 1..n BY <3>1, <3>2
      <4>2. f[1] = seqs[1] BY <2>2, <4>1
      <4>3. U(1) = X[1] OBVIOUS
      <4>4. Lists(seqs[1], X[1]) BY <4>1
      <4>. HIDE DEF U
      <4>5. QED BY <4>1, <4>2, <4>3, <4>4
    <3>3. CASE k # 0
      <4>. DEFINE i == k + 1
      <4>1. i \in 1..n /\ i # 1 /\ i - 1 = k /\ k \in 1..n BY <3>1, <3>3
      <4>2. f[i] = f[k] \o seqs[i] BY <2>2, <4>1
      <4>3. Lists(f[k], U(k)) BY <2>4, <4>1
      <4>4. Lists(seqs[i], X[i]) BY <4>1
      <4>5. \A j \in 1..k : X[j] \cap X[i] = {} BY <4>1
      <4>6. U(k) \cap X[i] = {} BY <4>5
      <4>7. U(i) = U(k) \cup X[i]
        <5>1. 1..i = (1..k) \cup {i} BY <4>1
        <5>. HIDE DEF i
        <5>2. QED BY <5>1
      <4>. HIDE DEF i, U
      <4>8. Lists(f[i], U(i)) BY <4>2, <4>3, <4>4, <4>6, <4>7, ListConcat
      <4>9. QED BY <4>8 DEF i
    <3>4. QED BY <3>2, <3>3
  <2>5. Nat \subseteq S
    <3>. HIDE DEF S
    <3>1. QED BY <2>3, <2>4, SetInduction
  <2>6. Lists(f[n], U(n))
    <3>1. n \in 1..n BY <1>3
    <3>2. n \in S
      <4>. HIDE DEF S
      <4>1. QED BY <2>5
    <3>. HIDE DEF U
    <3>3. QED BY <3>1, <3>2
  <2>7. QED BY <2>1, <2>6
<1>4. QED BY <1>2, <1>3

-----------------------------------------------------------------------------
(* Some of a list, each entry once, and a set as a list                    *)

LEMMA OnlyLists ==
  ASSUME NEW s, NEW S, Lists(s, S), NEW T
  PROVE  Lists(Only(s, T), S \cap T)
<1>. DEFINE n == Len(s)
            parts == [i \in 1..n |-> IF s[i] \in T THEN <<s[i]>> ELSE <<>>]
            X == [i \in 1..n |-> IF s[i] \in T THEN {s[i]} ELSE {}]
<1>1. n \in Nat /\ DOMAIN s = 1..n BY ListIs
<1>2. \A i \in 1..n : s[i] \in S BY ListIs
<1>3. Only(s, T) = FlattenSeq(parts) BY <1>1 DEF Only
<1>4. ASSUME NEW i \in 1..n PROVE Lists(parts[i], X[i])
  <2>1. CASE s[i] \in T
    <3>1. parts[i] = <<s[i]>> /\ X[i] = {s[i]} BY <2>1
    <3>2. QED BY <3>1, ListOne
  <2>2. CASE s[i] \notin T
    <3>1. parts[i] = <<>> /\ X[i] = {} BY <2>2
    <3>2. QED BY <3>1, ListEmpty
  <2>3. QED BY <2>1, <2>2
<1>5. \A i, j \in 1..n : i # j => X[i] \cap X[j] = {} BY DEF Lists
<1>6. UNION {X[i] : i \in 1..n} = S \cap T
  <2>1. ASSUME NEW x \in S \cap T PROVE \E i \in 1..n : x \in X[i] BY DEF Lists
  <2>2. ASSUME NEW i \in 1..n, NEW x \in X[i] PROVE x \in S \cap T BY <1>2
  <2>. HIDE DEF X
  <2>3. QED BY <2>1, <2>2
<1>7. parts = [i \in 1..n |-> parts[i]] OBVIOUS
<1>. HIDE DEF parts, X, n
<1>8. Lists(FlattenSeq(parts), UNION {X[i] : i \in 1..n}) BY <1>1, <1>4, <1>5, <1>7, FlattenLists
<1>9. QED BY <1>3, <1>6, <1>8

\* Each entry where it is first met: a list of the entries, whatever repeats.
LEMMA FirstSeenLists ==
  ASSUME NEW n \in Nat, NEW names, names = [i \in 1..n |-> names[i]]
  PROVE  Lists(FirstSeen(names), {names[i] : i \in 1..n})
<1>. DEFINE Seen(i) == \E j \in 1..(i - 1) : names[j] = names[i]
            parts == [i \in 1..n |-> IF Seen(i) THEN <<>> ELSE <<names[i]>>]
            X == [i \in 1..n |-> IF Seen(i) THEN {} ELSE {names[i]}]
<1>1. FirstSeen(names) = FlattenSeq(parts)
  <2>1. DOMAIN names = 1..n OBVIOUS
  <2>2. QED BY <2>1 DEF FirstSeen
<1>2. ASSUME NEW i \in 1..n PROVE Lists(parts[i], X[i])
  <2>. HIDE DEF Seen
  <2>1. CASE ~Seen(i)
    <3>1. parts[i] = <<names[i]>> /\ X[i] = {names[i]} BY <2>1
    <3>2. QED BY <3>1, ListOne
  <2>2. CASE Seen(i)
    <3>1. parts[i] = <<>> /\ X[i] = {} BY <2>2
    <3>2. QED BY <3>1, ListEmpty
  <2>3. QED BY <2>1, <2>2
<1>3. ASSUME NEW i \in 1..n, NEW j \in 1..n, i < j PROVE X[i] \cap X[j] = {}
  <2>1. i \in 1..(j - 1) BY <1>3
  <2>2. CASE names[i] = names[j]
    <3>1. Seen(j) BY <2>1, <2>2
    <3>2. QED BY <3>1
  <2>3. CASE names[i] # names[j]
    <3>. HIDE DEF Seen
    <3>1. QED BY <2>3
  <2>4. QED BY <2>2, <2>3
<1>4. \A i, j \in 1..n : i # j => X[i] \cap X[j] = {}
  <2>1. \A i, j \in 1..n : i # j => i < j \/ j < i OBVIOUS
  <2>. HIDE DEF X
  <2>2. QED BY <1>3, <2>1
<1>5. UNION {X[i] : i \in 1..n} = {names[i] : i \in 1..n}
  <2>1. ASSUME NEW i \in 1..n PROVE \E j \in 1..n : names[i] \in X[j]
    <3>. DEFINE T == {j \in 1..n : names[j] = names[i]}
    <3>1. T \subseteq Nat /\ i \in T OBVIOUS
    <3>2. PICK j \in T : \A k \in T : j <= k
      <4>. HIDE DEF T
      <4>1. QED BY <3>1, LeastNumber
    <3>3. j \in 1..n /\ names[j] = names[i] OBVIOUS
    <3>4. ASSUME NEW k \in 1..(j - 1), names[k] = names[j] PROVE FALSE
      <4>1. k \in T /\ k < j BY <3>3, <3>4
      <4>2. QED BY <3>2, <4>1
    <3>5. ~Seen(j) BY <3>4
    <3>. HIDE DEF Seen
    <3>6. QED BY <3>3, <3>5
  <2>2. ASSUME NEW i \in 1..n, NEW x \in X[i] PROVE x = names[i]
    <3>. HIDE DEF Seen
    <3>1. QED BY <2>2
  <2>. HIDE DEF X
  <2>3. ASSUME NEW x \in UNION {X[i] : i \in 1..n} PROVE x \in {names[i] : i \in 1..n}
    <3>1. PICK i \in 1..n : x \in X[i] BY <2>3
    <3>2. QED BY <2>2, <3>1
  <2>4. ASSUME NEW x \in {names[i] : i \in 1..n} PROVE x \in UNION {X[i] : i \in 1..n}
    <3>1. PICK i \in 1..n : x = names[i] BY <2>4
    <3>2. PICK j \in 1..n : x \in X[j] BY <2>1, <3>1
    <3>3. QED BY <3>2
  <2>5. QED BY <2>3, <2>4
<1>6. parts = [i \in 1..n |-> parts[i]] OBVIOUS
<1>. HIDE DEF parts, X
<1>7. Lists(FlattenSeq(parts), UNION {X[i] : i \in 1..n}) BY <1>2, <1>4, <1>6, FlattenLists
<1>8. QED BY <1>1, <1>5, <1>7

\* A list is as long as its set is large.
LEMMA ListLength ==
  ASSUME NEW s, NEW S, Lists(s, S)
  PROVE  IsFiniteSet(S) /\ Cardinality(S) = Len(s) /\ Len(s) \in Nat
<1>1. Len(s) \in Nat BY ListIs
<1>2. s \in Bijection(1..Len(s), S) BY DEF Lists, Bijection, Injection, IsInjective, Surjection
<1>3. ExistsBijection(1..Len(s), S) BY <1>2 DEF ExistsBijection
<1>4. QED BY <1>1, <1>3, FS_CountingElements, FS_NatBijection

LEMMA SetListed ==
  ASSUME NEW S, IsFiniteSet(S)
  PROVE  Lists(SetToSeq(S), S)
<1>. DEFINE n == Cardinality(S)
            s == SetToSeq(S)
<1>1. n \in Nat /\ ExistsBijection(1..n, S) BY FS_CardinalityType
<1>2. PICK f : f \in Bijection(1..n, S) BY <1>1 DEF ExistsBijection
<1>3. f \in [1..n -> S] /\ IsInjective(f) BY <1>2 DEF Bijection, Injection
<1>4. s \in [1..n -> S] /\ IsInjective(s) BY <1>3 DEF SetToSeq
<1>. HIDE DEF s
<1>5. s \in Injection(1..n, S) BY <1>4 DEF Injection
<1>6. Cardinality(1..n) = n BY <1>1, FS_Interval
<1>7. s \in Surjection(1..n, S) BY <1>5, <1>6, FS_Injection
<1>8. \A x \in S : \E i \in 1..n : s[i] = x BY <1>7 DEF Surjection
<1>9. \A i, j \in 1..n : s[i] = s[j] => i = j BY <1>4 DEF IsInjective
<1>10. s = [i \in 1..n |-> s[i]] /\ \A i \in 1..n : s[i] \in S BY <1>4
<1>. HIDE DEF n
<1>11. Lists(s, S) BY <1>1, <1>8, <1>9, <1>10, ListOfFunction
<1>12. QED BY <1>11 DEF s

\* A list taken through a one-to-one function.
LEMMA ListMapped ==
  ASSUME NEW s, NEW S, Lists(s, S), NEW f,
         \A x, y \in S : f[x] = f[y] => x = y
  PROVE  Lists([i \in DOMAIN s |-> f[s[i]]], {f[x] : x \in S})
<1>. DEFINE n == Len(s)
            t == [i \in DOMAIN s |-> f[s[i]]]
<1>1. n \in Nat /\ DOMAIN s = 1..n /\ \A i \in 1..n : s[i] \in S BY ListIs
<1>2. t = [i \in 1..n |-> t[i]] /\ \A i \in 1..n : t[i] = f[s[i]] BY <1>1
<1>. HIDE DEF t
<1>3. \A i \in 1..n : t[i] \in {f[x] : x \in S} BY <1>1, <1>2
<1>4. ASSUME NEW y \in {f[x] : x \in S} PROVE \E i \in 1..n : t[i] = y
  <2>1. PICK x \in S : y = f[x] OBVIOUS
  <2>2. PICK i \in 1..n : s[i] = x BY DEF Lists
  <2>3. QED BY <1>2, <2>1, <2>2
<1>5. ASSUME NEW i \in 1..n, NEW j \in 1..n, t[i] = t[j] PROVE i = j
  <2>1. s[i] = s[j] BY <1>1, <1>2, <1>5
  <2>2. QED BY <2>1 DEF Lists
<1>. HIDE DEF n
<1>6. Lists(t, {f[x] : x \in S}) BY <1>1, <1>2, <1>3, <1>4, <1>5, ListOfFunction
<1>7. QED BY <1>6 DEF t

-----------------------------------------------------------------------------
(* Rows under the names a map gives them                                   *)

Named(R, name, n) == {r \in R : name[r] = n}
Changed(R) == {r \in R : r.changed}

LEMMA PartIs ==
  ASSUME NEW rows, NEW R, Lists(rows, R), NEW name, NEW n
  PROVE  /\ Part(rows, name, n).name = n
         /\ Lists(Part(rows, name, n).rows, Named(R, name, n))
         /\ IsFiniteSet(Changed(Named(R, name, n)))
         /\ Part(rows, name, n).changed = Cardinality(Changed(Named(R, name, n)))
<1>. DEFINE mine == Only(rows, Named(R, name, n))
            some == Only(mine, Changed(Named(R, name, n)))
<1>1. ToSet(rows) = R BY ListIs
<1>2. R \cap Named(R, name, n) = Named(R, name, n) BY DEF Named
<1>3. Lists(mine, Named(R, name, n)) BY <1>2, OnlyLists
<1>4. ToSet(mine) = Named(R, name, n) BY <1>3, ListIs
<1>5. Named(R, name, n) \cap Changed(Named(R, name, n)) = Changed(Named(R, name, n)) BY DEF Changed
<1>6. Lists(some, Changed(Named(R, name, n)))
  <2>. HIDE DEF mine
  <2>1. QED BY <1>3, <1>5, OnlyLists
<1>7. Part(rows, name, n) = [name |-> n, rows |-> mine, changed |-> Len(some)]
  <2>1. {r \in ToSet(rows) : name[r] = n} = Named(R, name, n) BY <1>1 DEF Named
  <2>2. Part(rows, name, n) =
          LET m == Only(rows, Named(R, name, n))
          IN  [name |-> n, rows |-> m, changed |-> Len(Only(m, {r \in ToSet(m) : r.changed}))]
    BY <2>1, Zenon DEF Part
  <2>3. {r \in ToSet(mine) : r.changed} = Changed(Named(R, name, n)) BY <1>4 DEF Changed
  <2>. HIDE DEF mine
  <2>4. Part(rows, name, n) =
          [name |-> n, rows |-> mine, changed |-> Len(Only(mine, {r \in ToSet(mine) : r.changed}))]
    BY <2>2 DEF mine
  <2>5. QED BY <2>3, <2>4
<1>. HIDE DEF mine, some
<1>8. Cardinality(Changed(Named(R, name, n))) = Len(some) /\ IsFiniteSet(Changed(Named(R, name, n)))
  BY <1>6, ListLength
<1>9. QED BY <1>3, <1>7, <1>8

\* The parts of a list of rows: one for each name.
LEMMA PartsList ==
  ASSUME NEW rows, NEW R, Lists(rows, R), NEW name
  PROVE  Lists(Parts(rows, name), {Part(rows, name, n) : n \in {name[r] : r \in R}})
<1>. DEFINE k == Len(rows)
            given == [i \in DOMAIN rows |-> name[rows[i]]]
            names == FirstSeen(given)
            N == {name[r] : r \in R}
            f == [n \in N |-> Part(rows, name, n)]
<1>1. k \in Nat /\ DOMAIN rows = 1..k BY ListIs
<1>2. given = [i \in 1..k |-> given[i]] /\ \A i \in 1..k : given[i] = name[rows[i]] BY <1>1
<1>3. {given[i] : i \in 1..k} = N
  <2>1. \A i \in 1..k : rows[i] \in R BY ListIs
  <2>2. \A r \in R : \E i \in 1..k : rows[i] = r BY DEF Lists
  <2>. HIDE DEF given, k
  <2>3. QED BY <1>2, <2>1, <2>2
<1>4. Lists(names, N)
  <2>. HIDE DEF given, k, N
  <2>1. Lists(FirstSeen(given), {given[i] : i \in 1..k}) BY <1>1, <1>2, FirstSeenLists
  <2>2. QED BY <1>3, <2>1
<1>5. \A m, n \in N : f[m] = f[n] => m = n
  <2>. HIDE DEF N
  <2>1. \A n \in N : f[n].name = n BY PartIs
  <2>. HIDE DEF f
  <2>2. QED BY <2>1
<1>6. Parts(rows, name) = [i \in DOMAIN names |-> Part(rows, name, names[i])] BY DEF Parts
<1>. HIDE DEF names, N
<1>7. \A i \in DOMAIN names : names[i] \in N BY <1>4, ListIs
<1>8. Parts(rows, name) = [i \in DOMAIN names |-> f[names[i]]] BY <1>6, <1>7
<1>9. {f[n] : n \in N} = {Part(rows, name, n) : n \in N} OBVIOUS
<1>. HIDE DEF f
<1>10. Lists([i \in DOMAIN names |-> f[names[i]]], {f[n] : n \in N}) BY <1>4, <1>5, ListMapped
<1>11. QED BY <1>8, <1>9, <1>10 DEF N

-----------------------------------------------------------------------------
(* The sections of a grid                                                  *)

\* The rows of a section.
InSection(R, g, n) == {r \in R : r.key[1] = g /\ SectionName(r.key) = n}

IsSection(sec, R) ==
    /\ \E r \in R : r.key[1] = sec.group /\ SectionName(r.key) = sec.name
    /\ Lists(sec.rows, InSection(R, sec.group, sec.name))
    /\ IsFiniteSet(Changed(InSection(R, sec.group, sec.name)))
    /\ sec.changed = Cardinality(Changed(InSection(R, sec.group, sec.name)))

GroupNames(R) == [r \in R |-> r.key[1]]
SectionNames(R) == [r \in R |-> SectionName(r.key)]
\* The section a part of a group is, and the sections of a group.
SectionOf(group, p) == [group |-> group.name, name |-> p.name, rows |-> p.rows, changed |-> p.changed]
PartsOf(group, R) == {Part(group.rows, SectionNames(R), n) : n \in {SectionNames(R)[r] : r \in R}}
SectionsOf(group, R) == {SectionOf(group, p) : p \in PartsOf(group, R)}

LEMMA PartitionLists ==
  ASSUME NEW group, NEW R, Lists(group.rows, R)
  PROVE  Lists(Partition(group), SectionsOf(group, R))
<1>. DEFINE parts == Parts(group.rows, SectionNames(R))
            f == [p \in PartsOf(group, R) |-> SectionOf(group, p)]
<1>1. ToSet(group.rows) = R BY ListIs
<1>2. [r \in ToSet(group.rows) |-> SectionName(r.key)] = SectionNames(R) BY <1>1 DEF SectionNames
<1>3. Lists(parts, PartsOf(group, R)) BY PartsList DEF PartsOf
<1>4. Partition(group) = [i \in DOMAIN parts |-> SectionOf(group, parts[i])]
  BY <1>2, Zenon DEF Partition, SectionOf
<1>5. ASSUME NEW p \in PartsOf(group, R), NEW q \in PartsOf(group, R), f[p] = f[q] PROVE p = q
  <2>1. p.name = q.name BY <1>5 DEF SectionOf
  <2>2. PICK m : p = Part(group.rows, SectionNames(R), m) BY DEF PartsOf
  <2>3. PICK n : q = Part(group.rows, SectionNames(R), n) BY DEF PartsOf
  <2>4. p.name = m /\ q.name = n BY <2>2, <2>3, PartIs
  <2>5. QED BY <2>1, <2>2, <2>3, <2>4
<1>. HIDE DEF parts
<1>6. \A i \in DOMAIN parts : parts[i] \in PartsOf(group, R) BY <1>3, ListIs
<1>7. Partition(group) = [i \in DOMAIN parts |-> f[parts[i]]] BY <1>4, <1>6
<1>8. {f[p] : p \in PartsOf(group, R)} = SectionsOf(group, R) BY DEF SectionsOf
<1>. HIDE DEF f
<1>9. Lists([i \in DOMAIN parts |-> f[parts[i]]], {f[p] : p \in PartsOf(group, R)})
  BY <1>3, <1>5, ListMapped
<1>10. QED BY <1>7, <1>8, <1>9

\* The sections of one group of a list of rows.
LEMMA SectionsOfGroup ==
  ASSUME NEW rows, NEW R, Lists(rows, R), NEW g,
         NEW G, G = Named(R, GroupNames(R), g),
         NEW group, group = Part(rows, GroupNames(R), g)
  PROVE  /\ \A sec \in SectionsOf(group, G) : sec.group = g /\ IsSection(sec, R)
         /\ \A r \in G : \E sec \in SectionsOf(group, G) : sec.name = SectionName(r.key)
         /\ \A s, t \in SectionsOf(group, G) : s.name = t.name => s = t
<1>1. group.name = g /\ Lists(group.rows, G) BY PartIs
<1>2. G = {r \in R : r.key[1] = g} BY DEF Named, GroupNames
<1>3. \A r \in G : SectionNames(G)[r] = SectionName(r.key) BY DEF SectionNames
<1>4. ASSUME NEW n, NEW p, p = Part(group.rows, SectionNames(G), n)
      PROVE  /\ p.name = n /\ Lists(p.rows, InSection(R, g, n))
             /\ IsFiniteSet(Changed(InSection(R, g, n)))
             /\ p.changed = Cardinality(Changed(InSection(R, g, n)))
  <2>1. Named(G, SectionNames(G), n) = InSection(R, g, n) BY <1>2, <1>3 DEF Named, InSection
  <2>2. QED BY <1>1, <1>4, <2>1, PartIs
<1>5. ASSUME NEW sec \in SectionsOf(group, G) PROVE sec.group = g /\ IsSection(sec, R)
  <2>1. PICK r \in G : sec = SectionOf(group, Part(group.rows, SectionNames(G), SectionNames(G)[r]))
    BY DEF SectionsOf, PartsOf
  <2>. DEFINE n == SectionName(r.key)
              p == Part(group.rows, SectionNames(G), n)
  <2>2. sec = SectionOf(group, p) BY <1>3, <2>1
  <2>3. /\ p.name = n /\ Lists(p.rows, InSection(R, g, n))
        /\ IsFiniteSet(Changed(InSection(R, g, n)))
        /\ p.changed = Cardinality(Changed(InSection(R, g, n)))
    BY <1>4
  <2>4. r \in R /\ r.key[1] = g BY <1>2
  <2>. HIDE DEF p
  <2>5. sec.group = g /\ sec.name = n /\ sec.rows = p.rows /\ sec.changed = p.changed
    BY <1>1, <2>2, <2>3 DEF SectionOf
  <2>6. QED BY <2>3, <2>4, <2>5 DEF IsSection
<1>6. ASSUME NEW r \in G PROVE \E sec \in SectionsOf(group, G) : sec.name = SectionName(r.key)
  <2>. DEFINE p == Part(group.rows, SectionNames(G), SectionNames(G)[r])
  <2>1. p \in PartsOf(group, G) BY DEF PartsOf
  <2>2. SectionOf(group, p) \in SectionsOf(group, G)
    <3>. HIDE DEF p
    <3>1. QED BY <2>1 DEF SectionsOf
  <2>3. p.name = SectionName(r.key) BY <1>3, <1>4
  <2>. HIDE DEF p
  <2>4. SectionOf(group, p).name = p.name BY DEF SectionOf
  <2>5. QED BY <2>2, <2>3, <2>4
<1>7. ASSUME NEW s \in SectionsOf(group, G), NEW t \in SectionsOf(group, G), s.name = t.name PROVE s = t
  <2>1. PICK m : s = SectionOf(group, Part(group.rows, SectionNames(G), m)) BY DEF SectionsOf, PartsOf
  <2>2. PICK n : t = SectionOf(group, Part(group.rows, SectionNames(G), n)) BY DEF SectionsOf, PartsOf
  <2>3. s.name = m /\ t.name = n BY <1>4, <2>1, <2>2 DEF SectionOf
  <2>4. QED BY <1>7, <2>1, <2>2, <2>3
<1>8. QED BY <1>5, <1>6, <1>7

\* The sections of a list of rows: each row is in one, of its group and name, and
\* no two have the same group and name.
LEMMA SectionsAre ==
  ASSUME NEW rows, NEW R, Lists(rows, R), NEW grid, grid = Sections(rows)
  PROVE  /\ Len(grid) \in Nat /\ DOMAIN grid = 1..Len(grid)
         /\ \A i \in 1..Len(grid) : IsSection(grid[i], R)
         /\ \A r \in R : \E i \in 1..Len(grid) :
               grid[i].group = r.key[1] /\ grid[i].name = SectionName(r.key)
         /\ \A i, j \in 1..Len(grid) :
               grid[i].group = grid[j].group /\ grid[i].name = grid[j].name => i = j
<1>. DEFINE names == GroupNames(R)
            N == {names[r] : r \in R}
            groups == Parts(rows, names)
            n == Len(groups)
            GR(g) == Named(R, names, g)
            P(g) == Part(rows, names, g)
            seqs == [i \in 1..n |-> Partition(groups[i])]
            X == [i \in 1..n |-> SectionsOf(groups[i], GR(groups[i].name))]
            Q == UNION {X[i] : i \in 1..n}
<1>1. ToSet(rows) = R BY ListIs
<1>2. [r \in ToSet(rows) |-> r.key[1]] = names BY <1>1 DEF GroupNames
<1>3. Lists(groups, {P(g) : g \in N}) BY PartsList
<1>4. n \in Nat /\ DOMAIN groups = 1..n BY <1>3, ListIs
<1>5. grid = FlattenSeq(seqs)
  <2>1. grid = FlattenSeq([i \in DOMAIN groups |-> Partition(groups[i])]) BY <1>2, Zenon DEF Sections
  <2>2. QED BY <1>4, <2>1
<1>6. \A r \in R : names[r] = r.key[1] BY DEF GroupNames
<1>7. ASSUME NEW i \in 1..n
      PROVE  groups[i] = P(groups[i].name) /\ Lists(groups[i].rows, GR(groups[i].name))
  <2>1. groups[i] \in {P(g) : g \in N} BY <1>3, ListIs
  <2>2. PICK g \in N : groups[i] = P(g) BY <2>1
  <2>3. P(g).name = g /\ Lists(P(g).rows, GR(g)) BY PartIs
  <2>. HIDE DEF groups, P, GR
  <2>4. QED BY <2>2, <2>3
<1>8. \A i, j \in 1..n : groups[i].name = groups[j].name => i = j
  <2>. DEFINE PS == {P(g) : g \in N}
  <2>. HIDE DEF groups, PS
  <2>1. \A i, j \in 1..n : groups[i] = groups[j] => i = j BY <1>3 DEF Lists
  <2>. HIDE DEF P, n
  <2>2. QED BY <1>7, <2>1
<1>9. \A i \in 1..n : Lists(seqs[i], X[i])
  <2>. HIDE DEF groups, GR
  <2>1. QED BY <1>7, PartitionLists
<1>10. ASSUME NEW i \in 1..n
       PROVE  /\ \A sec \in X[i] : sec.group = groups[i].name /\ IsSection(sec, R)
              /\ \A r \in GR(groups[i].name) : \E sec \in X[i] : sec.name = SectionName(r.key)
              /\ \A s, t \in X[i] : s.name = t.name => s = t
  <2>. DEFINE g == groups[i].name
              group == groups[i]
  <2>1. group = Part(rows, GroupNames(R), g) BY <1>7
  <2>2. X[i] = SectionsOf(group, Named(R, GroupNames(R), g)) OBVIOUS
  <2>. HIDE DEF g, group, X, groups, names
  <2>3. /\ \A sec \in X[i] : sec.group = g /\ IsSection(sec, R)
        /\ \A r \in Named(R, GroupNames(R), g) : \E sec \in X[i] : sec.name = SectionName(r.key)
        /\ \A s, t \in X[i] : s.name = t.name => s = t
    BY <2>1, <2>2, SectionsOfGroup
  <2>4. QED BY <2>3 DEF g, names
<1>. HIDE DEF groups, n, GR, P, seqs, X, names
<1>11. \A i, j \in 1..n : i # j => X[i] \cap X[j] = {}
  <2>1. ASSUME NEW i \in 1..n, NEW j \in 1..n, NEW sec \in X[i], sec \in X[j] PROVE i = j
    BY <1>8, <1>10, <2>1
  <2>2. QED BY <2>1
<1>12. seqs = [i \in 1..n |-> seqs[i]] BY DEF seqs
<1>13. Lists(grid, Q) BY <1>4, <1>5, <1>9, <1>11, <1>12, FlattenLists
<1>14. ASSUME NEW sec \in Q PROVE IsSection(sec, R)
  <2>1. PICK i \in 1..n : sec \in X[i] OBVIOUS
  <2>2. QED BY <1>10, <2>1
<1>15. ASSUME NEW s \in Q, NEW t \in Q, s.group = t.group, s.name = t.name PROVE s = t
  <2>1. PICK i \in 1..n : s \in X[i] OBVIOUS
  <2>2. PICK j \in 1..n : t \in X[j] OBVIOUS
  <2>3. i = j BY <1>8, <1>10, <1>15, <2>1, <2>2
  <2>4. QED BY <1>10, <1>15, <2>1, <2>2, <2>3
<1>16. ASSUME NEW r \in R PROVE \E sec \in Q : sec.group = r.key[1] /\ sec.name = SectionName(r.key)
  <2>1. names[r] \in N /\ names[r] = r.key[1] BY <1>6
  <2>2. \E i \in 1..n : groups[i] = P(names[r])
    <3>. DEFINE PS == {P(g) : g \in N}
    <3>1. P(names[r]) \in PS BY <2>1
    <3>. HIDE DEF PS
    <3>2. QED BY <1>3, <3>1 DEF Lists, n
  <2>3. PICK i \in 1..n : groups[i] = P(names[r]) BY <2>2
  <2>4. groups[i].name = r.key[1] BY <2>1, <2>3, PartIs DEF P
  <2>5. r \in GR(groups[i].name) BY <2>1, <2>4 DEF GR, Named
  <2>6. PICK sec \in X[i] : sec.name = SectionName(r.key) BY <1>10, <2>5
  <2>7. sec.group = r.key[1] BY <1>10, <2>4, <2>6
  <2>8. sec \in Q BY <2>6
  <2>9. QED BY <2>6, <2>7, <2>8
<1>. HIDE DEF Q
<1>17. Len(grid) \in Nat /\ DOMAIN grid = 1..Len(grid) /\ \A i \in 1..Len(grid) : grid[i] \in Q
  BY <1>13, ListIs
<1>18. \A sec \in Q : \E i \in 1..Len(grid) : grid[i] = sec BY <1>13 DEF Lists
<1>19. \A i, j \in 1..Len(grid) : grid[i] = grid[j] => i = j BY <1>13 DEF Lists
<1>20. \A i \in 1..Len(grid) : IsSection(grid[i], R) BY <1>14, <1>17
<1>21. \A i, j \in 1..Len(grid) : grid[i].group = grid[j].group /\ grid[i].name = grid[j].name => i = j
  BY <1>15, <1>17, <1>19
<1>22. \A r \in R : \E i \in 1..Len(grid) : grid[i].group = r.key[1] /\ grid[i].name = SectionName(r.key)
  BY <1>16, <1>18
<1>23. QED BY <1>17, <1>20, <1>21, <1>22

-----------------------------------------------------------------------------
(* The number of changed rows                                              *)

\* The changed rows of a grid, section by section and all together.
CountedBy(grid, C, all) ==
    /\ \A i \in 1..Len(grid) : IsFiniteSet(C[i]) /\ grid[i].changed = Cardinality(C[i])
    /\ \A i, j \in 1..Len(grid) : i # j => C[i] \cap C[j] = {}
    /\ all = UNION {C[i] : i \in 1..Len(grid)}

LEMMA CountIs ==
  ASSUME NEW grid, Len(grid) \in Nat, NEW C, NEW all, CountedBy(grid, C, all)
  PROVE  ChangedCount(grid) = Cardinality(all)
<1>. DEFINE n == Len(grid)
<1>1. /\ \A i \in 1..n : IsFiniteSet(C[i]) /\ grid[i].changed = Cardinality(C[i])
      /\ \A i, j \in 1..n : i # j => C[i] \cap C[j] = {}
      /\ all = UNION {C[i] : i \in 1..n}
      /\ n \in Nat
  BY DEF CountedBy
<1>2. ChangedCount(grid) = LET f == CHOOSE f : f = [i \in 0..n |-> IF i = 0 THEN 0 ELSE f[i - 1] + grid[i].changed] IN f[n]
  BY DEF ChangedCount
<1>. HIDE DEF n
<1>. USE <1>1
<1>. DEFINE Is(f, m) == f = [i \in 0..m |-> IF i = 0 THEN 0 ELSE f[i - 1] + grid[i].changed]
            U(m) == UNION {C[i] : i \in 1..m}
            S == {m \in Nat : m \in 0..n =>
                    \E f : Is(f, m) /\ \A i \in 0..m : IsFiniteSet(U(i)) /\ f[i] = Cardinality(U(i))}
<1>3. U(0) = {} OBVIOUS
<1>4. ASSUME NEW m \in 1..n PROVE U(m) = U(m - 1) \cup C[m] /\ U(m - 1) \cap C[m] = {}
  <2>1. 1..m = (1..(m - 1)) \cup {m} OBVIOUS
  <2>2. U(m) = U(m - 1) \cup C[m] BY <2>1
  <2>3. \A j \in 1..(m - 1) : j \in 1..n /\ j # m OBVIOUS
  <2>4. \A j \in 1..(m - 1) : C[j] \cap C[m] = {} BY <2>3
  <2>5. U(m - 1) \cap C[m] = {} BY <2>4
  <2>6. QED BY <2>2, <2>5
<1>. HIDE DEF U
<1>5. IsFiniteSet(U(0)) /\ Cardinality(U(0)) = 0 BY <1>3, FS_EmptySet
<1>6. ASSUME NEW m \in 1..n, IsFiniteSet(U(m - 1))
      PROVE  IsFiniteSet(U(m)) /\ Cardinality(U(m)) = Cardinality(U(m - 1)) + Cardinality(C[m])
  <2>1. IsFiniteSet(C[m]) OBVIOUS
  <2>2. /\ IsFiniteSet(U(m - 1) \cup C[m])
        /\ Cardinality(U(m - 1) \cup C[m]) =
             Cardinality(U(m - 1)) + Cardinality(C[m]) - Cardinality(U(m - 1) \cap C[m])
    BY <1>6, <2>1, FS_Union
  <2>3. Cardinality(U(m - 1) \cap C[m]) = 0 BY <1>4, FS_EmptySet
  <2>4. Cardinality(U(m - 1)) \in Nat /\ Cardinality(C[m]) \in Nat BY <1>6, <2>1, FS_CardinalityType
  <2>5. U(m) = U(m - 1) \cup C[m] BY <1>4
  <2>6. QED BY <2>2, <2>3, <2>4, <2>5
<1>7. 0 \in S
  <2>. DEFINE f == [i \in 0..0 |-> 0]
  <2>1. Is(f, 0) OBVIOUS
  <2>2. \A i \in 0..0 : i = 0 /\ f[i] = 0 OBVIOUS
  <2>. HIDE DEF f, Is
  <2>3. \A i \in 0..0 : IsFiniteSet(U(i)) /\ f[i] = Cardinality(U(i)) BY <1>5, <2>2
  <2>4. QED BY <2>1, <2>3
<1>8. ASSUME NEW m \in Nat, m \in S PROVE m + 1 \in S
  <2>. DEFINE k == m + 1
  <2>1. SUFFICES ASSUME k \in 0..n
                 PROVE  \E g : Is(g, k) /\ \A i \in 0..k : IsFiniteSet(U(i)) /\ g[i] = Cardinality(U(i))
    OBVIOUS
  <2>2. k \in 1..n /\ k - 1 = m /\ m \in 0..n BY <2>1
  <2>3. PICK f : Is(f, m) /\ \A i \in 0..m : IsFiniteSet(U(i)) /\ f[i] = Cardinality(U(i))
    <3>. HIDE DEF Is
    <3>1. QED BY <1>8, <2>2
  <2>. DEFINE g == [i \in 0..k |-> IF i = k THEN f[m] + grid[k].changed ELSE f[i]]
  <2>4. \A i \in 0..m : g[i] = f[i] OBVIOUS
  <2>5. g[k] = f[m] + grid[k].changed BY <2>2
  <2>6. g = [i \in 0..k |-> g[i]] OBVIOUS
  <2>7. \A i \in 0..k : i \in 0..m \/ i = k BY <2>2
  <2>8. ASSUME NEW i \in 0..k PROVE g[i] = IF i = 0 THEN 0 ELSE g[i - 1] + grid[i].changed
    <3>. HIDE DEF g, k
    <3>1. CASE i \in 0..m
      <4>1. i # 0 => i - 1 \in 0..m BY <3>1
      <4>2. f[i] = IF i = 0 THEN 0 ELSE f[i - 1] + grid[i].changed BY <2>3, <3>1
      <4>3. QED BY <2>4, <3>1, <4>1, <4>2
    <3>2. CASE i = k
      <4>1. i # 0 /\ i - 1 = m /\ m \in 0..m BY <2>2, <3>2
      <4>2. g[m] = f[m] BY <2>4, <4>1
      <4>3. QED BY <2>5, <3>2, <4>1, <4>2
    <3>3. QED BY <2>7, <3>1, <3>2
  <2>9. IsFiniteSet(U(k)) /\ g[k] = Cardinality(U(k))
    <3>1. m \in 0..m OBVIOUS
    <3>2. IsFiniteSet(U(k - 1)) /\ f[m] = Cardinality(U(k - 1)) BY <2>2, <2>3, <3>1
    <3>3. IsFiniteSet(U(k)) /\ Cardinality(U(k)) = Cardinality(U(k - 1)) + Cardinality(C[k])
      BY <1>6, <2>2, <3>2
    <3>4. grid[k].changed = Cardinality(C[k]) BY <2>2
    <3>. HIDE DEF g, k
    <3>5. QED BY <2>5, <3>2, <3>3, <3>4
  <2>. HIDE DEF g, k
  <2>10. Is(g, k)
    <3>1. QED BY <2>6, <2>8
  <2>. HIDE DEF Is
  <2>11. \A i \in 0..k : IsFiniteSet(U(i)) /\ g[i] = Cardinality(U(i))
    BY <2>3, <2>4, <2>7, <2>9
  <2>12. QED BY <2>10, <2>11
<1>9. Nat \subseteq S
  <2>. HIDE DEF S
  <2>1. QED BY <1>7, <1>8, SetInduction
<1>10. n \in 0..n /\ n \in Nat OBVIOUS
<1>11. \E f : Is(f, n) /\ f[n] = Cardinality(U(n))
  <2>1. n \in S
    <3>. HIDE DEF S
    <3>1. QED BY <1>9
  <2>2. PICK f : Is(f, n) /\ \A i \in 0..n : IsFiniteSet(U(i)) /\ f[i] = Cardinality(U(i))
    <3>. HIDE DEF Is
    <3>1. QED BY <1>10, <2>1
  <2>. HIDE DEF Is
  <2>3. QED BY <1>10, <2>2
<1>12. ASSUME NEW f, NEW g, Is(f, n), Is(g, n) PROVE f[n] = g[n]
  <2>. DEFINE T == {m \in Nat : m \in 0..n => f[m] = g[m]}
  <2>1. 0 \in T
    <3>1. 0 \in 0..n OBVIOUS
    <3>2. f[0] = 0 /\ g[0] = 0 BY <1>12, <3>1
    <3>3. QED BY <3>2
  <2>2. ASSUME NEW m \in Nat, m \in T PROVE m + 1 \in T
    <3>. DEFINE k == m + 1
    <3>1. SUFFICES ASSUME k \in 0..n PROVE f[k] = g[k] OBVIOUS
    <3>2. k # 0 /\ k - 1 = m /\ m \in 0..n BY <3>1
    <3>. HIDE DEF k
    <3>3. f[k] = f[m] + grid[k].changed BY <1>12, <3>1, <3>2
    <3>4. g[k] = g[m] + grid[k].changed BY <1>12, <3>1, <3>2
    <3>5. QED BY <2>2, <3>2, <3>3, <3>4
  <2>3. Nat \subseteq T
    <3>. HIDE DEF T
    <3>1. QED BY <2>1, <2>2, SetInduction
  <2>4. n \in T
    <3>. HIDE DEF T
    <3>1. QED BY <2>3
  <2>5. QED BY <1>10, <2>4
<1>. DEFINE count == CHOOSE f : Is(f, n)
<1>13. ChangedCount(grid) = count[n] BY <1>2, Zenon
<1>14. Is(count, n)
  <2>. HIDE DEF Is
  <2>1. QED BY <1>11
<1>15. count[n] = Cardinality(U(n))
  <2>. HIDE DEF Is, count
  <2>1. QED BY <1>11, <1>12, <1>14
<1>16. QED BY <1>13, <1>15 DEF U

-----------------------------------------------------------------------------
(* The rows of a preset                                                    *)

KnownRows(over) == {RowFor(over, k) : k \in Schema}
ExtrasOf(over) == {ExtraRow(k) : k \in Rows(over) \ Schema}
AllRows(over) == KnownRows(over) \cup ExtrasOf(over)

LEMMA KeyOfRow ==
  ASSUME NEW over, NEW k
  PROVE  RowFor(over, k).key = k /\ ExtraRow(k).key = k
BY DEF RowFor, ExtraRow

LEMMA SchemaRowsList ==
  ASSUME NEW over, NEW g
  PROVE  Lists(SchemaRows(over, g), {r \in KnownRows(over) : r.key[1] = g})
<1>. DEFINE f == [k \in Schema |-> RowFor(over, k)]
            K == {k \in Schema : k[1] = g}
            keys == InGroup(g)
<1>1. Lists(Order, Schema) BY OrderAssumption DEF Lists, ToSet, IsInjective
<1>2. Schema \cap K = K OBVIOUS
<1>3. Lists(keys, K) BY <1>1, <1>2, OnlyLists DEF InGroup
<1>4. \A i \in DOMAIN keys : keys[i] \in K
  <2>. HIDE DEF keys, K
  <2>1. QED BY <1>3, ListIs
<1>5. SchemaRows(over, g) = [i \in DOMAIN keys |-> f[keys[i]]] BY <1>4 DEF SchemaRows
<1>6. \A k \in Schema : f[k].key = k BY KeyOfRow
<1>. HIDE DEF f
<1>7. \A x, y \in K : f[x] = f[y] => x = y BY <1>6
<1>8. Lists([i \in DOMAIN keys |-> f[keys[i]]], {f[x] : x \in K})
  <2>. HIDE DEF keys, K
  <2>1. QED BY <1>3, <1>7, ListMapped
<1>9. {f[x] : x \in K} = {r \in KnownRows(over) : r.key[1] = g}
  <2>1. KnownRows(over) = {f[k] : k \in Schema} BY DEF KnownRows, f
  <2>2. QED BY <1>6, <2>1
<1>10. QED BY <1>5, <1>8, <1>9

LEMMA ExtraRowsList ==
  ASSUME NEW over, IsFiniteSet(Rows(over) \ Schema)
  PROVE  Lists(ExtraRows(over), ExtrasOf(over))
<1>. DEFINE E == Rows(over) \ Schema
            extra == SetToSeq(E)
            f == [k \in E |-> ExtraRow(k)]
<1>1. Lists(extra, E) BY SetListed
<1>2. \A i \in DOMAIN extra : extra[i] \in E
  <2>. HIDE DEF extra, E
  <2>1. QED BY <1>1, ListIs
<1>3. ExtraRows(over) = [i \in DOMAIN extra |-> f[extra[i]]] BY <1>2 DEF ExtraRows
<1>4. \A k \in E : f[k].key = k BY KeyOfRow
<1>5. {f[k] : k \in E} = ExtrasOf(over) BY DEF ExtrasOf
<1>. HIDE DEF f, extra, E
<1>6. \A x, y \in E : f[x] = f[y] => x = y BY <1>4
<1>7. Lists([i \in DOMAIN extra |-> f[extra[i]]], {f[k] : k \in E}) BY <1>1, <1>6, ListMapped
<1>8. QED BY <1>3, <1>5, <1>7

\* The grid has a row for each control, and one only.
LEMMA GridRowsList ==
  ASSUME NEW over, IsFiniteSet(Rows(over) \ Schema)
  PROVE  Lists(GridRows(over), AllRows(over))
<1>. DEFINE n == Len(Groups)
            seqs == [i \in 1..n |-> SchemaRows(over, Groups[i])]
            X == [i \in 1..n |-> {r \in KnownRows(over) : r.key[1] = Groups[i]}]
            firsts == [i \in DOMAIN Order |-> Order[i][1]]
<1>1. Lists(Order, Schema) BY OrderAssumption DEF Lists, ToSet, IsInjective
<1>2. Lists(Groups, {firsts[i] : i \in 1..Len(Order)})
  <2>1. Len(Order) \in Nat /\ DOMAIN Order = 1..Len(Order) BY <1>1, ListIs
  <2>2. firsts = [i \in 1..Len(Order) |-> firsts[i]] BY <2>1
  <2>. HIDE DEF firsts
  <2>3. Lists(FirstSeen(firsts), {firsts[i] : i \in 1..Len(Order)}) BY <2>1, <2>2, FirstSeenLists
  <2>4. QED BY <2>3 DEF Groups, firsts
<1>3. ASSUME NEW k \in Schema PROVE \E i \in 1..n : Groups[i] = k[1]
  <2>1. PICK i \in 1..Len(Order) : Order[i] = k BY <1>1 DEF Lists
  <2>2. DOMAIN Order = 1..Len(Order) BY <1>1, ListIs
  <2>3. firsts[i] = k[1] BY <2>1, <2>2
  <2>. HIDE DEF firsts
  <2>4. k[1] \in {firsts[j] : j \in 1..Len(Order)} BY <2>3
  <2>. DEFINE F == {firsts[j] : j \in 1..Len(Order)}
  <2>. HIDE DEF F
  <2>5. QED BY <1>2, <2>4 DEF Lists, F
<1>. HIDE DEF firsts
<1>4. n \in Nat /\ DOMAIN Groups = 1..n BY <1>2, ListIs
<1>5. \A i, j \in 1..n : Groups[i] = Groups[j] => i = j BY <1>2 DEF Lists
<1>6. \A i \in 1..n : Lists(seqs[i], X[i])
  <2>1. \A i \in 1..n : seqs[i] = SchemaRows(over, Groups[i])
                        /\ X[i] = {r \in KnownRows(over) : r.key[1] = Groups[i]} OBVIOUS
  <2>. HIDE DEF seqs, X
  <2>2. QED BY <2>1, SchemaRowsList
<1>7. \A i, j \in 1..n : i # j => X[i] \cap X[j] = {} BY <1>5
<1>8. UNION {X[i] : i \in 1..n} = KnownRows(over)
  <2>1. ASSUME NEW r \in KnownRows(over) PROVE \E i \in 1..n : r \in X[i]
    <3>1. PICK k \in Schema : r = RowFor(over, k) BY DEF KnownRows
    <3>2. r.key = k BY <3>1, KeyOfRow
    <3>3. PICK i \in 1..n : Groups[i] = k[1] BY <1>3
    <3>4. QED BY <3>2, <3>3
  <2>2. \A i \in 1..n : X[i] \subseteq KnownRows(over) OBVIOUS
  <2>. HIDE DEF X
  <2>3. QED BY <2>1, <2>2
<1>9. seqs = [i \in 1..n |-> seqs[i]] OBVIOUS
<1>10. GridRows(over) = FlattenSeq(seqs) \o ExtraRows(over) BY <1>4 DEF GridRows
<1>. HIDE DEF seqs, X, n
<1>11. Lists(FlattenSeq(seqs), UNION {X[i] : i \in 1..n}) BY <1>4, <1>6, <1>7, <1>9, FlattenLists
<1>12. Lists(ExtraRows(over), ExtrasOf(over)) BY ExtraRowsList
<1>13. KnownRows(over) \cap ExtrasOf(over) = {}
  <2>1. \A r \in KnownRows(over) : r.key \in Schema BY KeyOfRow DEF KnownRows
  <2>2. \A r \in ExtrasOf(over) : r.key \notin Schema BY KeyOfRow DEF ExtrasOf
  <2>3. QED BY <2>1, <2>2
<1>14. QED BY <1>8, <1>10, <1>11, <1>12, <1>13, ListConcat DEF AllRows

LEMMA RowsHaveKeys ==
  ASSUME NEW over
  PROVE  /\ \A r \in AllRows(over) : r.key \in Rows(over)
         /\ \A k \in Rows(over) : \E r \in AllRows(over) : r.key = k
         /\ \A q, r \in AllRows(over) : q.key = r.key => q = r
<1>1. \A r \in AllRows(over) :
        \/ r.key \in Schema /\ r = RowFor(over, r.key)
        \/ r.key \in Rows(over) \ Schema /\ r = ExtraRow(r.key)
  BY KeyOfRow DEF AllRows, KnownRows, ExtrasOf
<1>2. Schema \subseteq Rows(over) BY DEF Rows
<1>3. ASSUME NEW k \in Rows(over) PROVE \E r \in AllRows(over) : r.key = k
  <2>1. CASE k \in Schema
    <3>1. RowFor(over, k) \in AllRows(over) BY <2>1 DEF AllRows, KnownRows
    <3>2. QED BY <3>1, KeyOfRow
  <2>2. CASE k \notin Schema
    <3>1. ExtraRow(k) \in AllRows(over) BY <2>2 DEF AllRows, ExtrasOf
    <3>2. QED BY <3>1, KeyOfRow
  <2>3. QED BY <2>1, <2>2
<1>4. QED BY <1>1, <1>2, <1>3

\* Options with the same group, section and label are the same.
LEMMA SchemaLabels ==
  ASSUME NEW k \in Schema, NEW l \in Schema, k[1] = l[1],
         SectionName(k) = SectionName(l), RowLabel(k) = RowLabel(l)
  PROVE  k = l
<1>1. k \in Seq(STRING) /\ k # <<>> /\ (\A i \in 2..Len(k) : k[i] # k[1]) /\ (Len(k) >= 3 => k[2] # "general")
  BY OptionsAssumption
<1>2. l \in Seq(STRING) /\ l # <<>> /\ (\A i \in 2..Len(l) : l[i] # l[1]) /\ (Len(l) >= 3 => l[2] # "general")
  BY OptionsAssumption
<1>3. Len(k) \in Nat \ {0} /\ Len(l) \in Nat \ {0} BY <1>1, <1>2
<1>4. CASE Len(k) >= 3 /\ Len(l) >= 3
  <2>1. k[2] = l[2] BY <1>4 DEF SectionName
  <2>2. SubSeq(k, 3, Len(k)) = SubSeq(l, 3, Len(l)) BY <1>4 DEF RowLabel
  <2>3. /\ Len(SubSeq(k, 3, Len(k))) = Len(k) - 2
        /\ \A i \in 1..(Len(k) - 2) : SubSeq(k, 3, Len(k))[i] = k[i + 2] BY <1>1, <1>3, <1>4
  <2>4. /\ Len(SubSeq(l, 3, Len(l))) = Len(l) - 2
        /\ \A i \in 1..(Len(l) - 2) : SubSeq(l, 3, Len(l))[i] = l[i + 2] BY <1>2, <1>3, <1>4
  <2>5. Len(k) = Len(l) BY <1>3, <2>2, <2>3, <2>4
  <2>6. ASSUME NEW i \in 1..Len(k) PROVE k[i] = l[i]
    <3>1. CASE i \in 1..2 BY <2>1, <3>1
    <3>2. CASE i \in 3..Len(k)
      <4>. DEFINE j == i - 2
      <4>1. j \in 1..(Len(k) - 2) /\ j + 2 = i BY <1>3, <3>2
      <4>. HIDE DEF j
      <4>2. SubSeq(k, 3, Len(k))[j] = k[j + 2] BY <2>3, <4>1
      <4>3. SubSeq(l, 3, Len(l))[j] = l[j + 2] BY <2>4, <2>5, <4>1
      <4>4. QED BY <2>2, <4>1, <4>2, <4>3
    <3>3. QED BY <1>3, <3>1, <3>2
  <2>7. QED BY <1>1, <1>2, <2>5, <2>6, SeqEqual
<1>5. CASE Len(k) >= 3 /\ ~(Len(l) >= 3) BY <1>1, <1>5 DEF SectionName
<1>6. CASE Len(l) >= 3 /\ ~(Len(k) >= 3) BY <1>2, <1>6 DEF SectionName
<1>7. CASE ~(Len(k) >= 3) /\ ~(Len(l) >= 3)
  <2>1. <<k[Len(k)]>> = <<l[Len(l)]>> BY <1>7 DEF RowLabel
  <2>2. k[Len(k)] = l[Len(l)] BY <2>1
  <2>3. Len(k) \in 1..2 /\ Len(l) \in 1..2
    <3>1. \A n \in Nat \ {0} : ~(n >= 3) => n \in 1..2 OBVIOUS
    <3>2. QED BY <1>3, <1>7, <3>1, Zenon
  <2>4. CASE Len(k) = 1 /\ Len(l) = 1
    <3>1. \A i \in 1..Len(k) : k[i] = l[i] BY <2>2, <2>4
    <3>2. QED BY <1>1, <1>2, <2>4, <3>1, SeqEqual
  <2>5. CASE Len(k) = 2 /\ Len(l) = 2
    <3>1. \A i \in 1..Len(k) : k[i] = l[i] BY <2>2, <2>5
    <3>2. QED BY <1>1, <1>2, <2>5, <3>1, SeqEqual
  <2>6. CASE Len(k) = 1 /\ Len(l) = 2
    <3>1. l[2] # l[1] BY <1>2, <2>6
    <3>2. QED BY <2>2, <2>6, <3>1
  <2>7. CASE Len(k) = 2 /\ Len(l) = 1
    <3>1. k[2] # k[1] BY <1>1, <2>7
    <3>2. QED BY <2>2, <2>7, <3>1
  <2>8. \A n \in 1..2 : n = 1 \/ n = 2 OBVIOUS
  <2>9. (Len(k) = 1 \/ Len(k) = 2) /\ (Len(l) = 1 \/ Len(l) = 2) BY <2>3, <2>8, Zenon
  <2>10. QED BY <2>4, <2>5, <2>6, <2>7, <2>9, Zenon
<1>8. QED BY <1>4, <1>5, <1>6, <1>7

\* No option's label is the whole key of a row of its group that is no option.
LEMMA ExtraLabels ==
  ASSUME NEW k \in Schema, NEW e, e \notin Schema, k[1] = e[1]
  PROVE  RowLabel(k) # e
<1>1. k \in Seq(STRING) /\ k # <<>> /\ (\A i \in 2..Len(k) : k[i] # k[1]) BY OptionsAssumption
<1>2. Len(k) \in Nat \ {0} BY <1>1
<1>3. CASE Len(k) >= 3
  <2>1. RowLabel(k) = SubSeq(k, 3, Len(k)) BY <1>3 DEF RowLabel
  <2>2. SubSeq(k, 3, Len(k))[1] = k[3] BY <1>1, <1>2, <1>3
  <2>3. k[3] # k[1] BY <1>1, <1>2, <1>3
  <2>4. QED BY <2>1, <2>2, <2>3
<1>4. CASE Len(k) = 2
  <2>1. RowLabel(k) = <<k[2]>> BY <1>4 DEF RowLabel
  <2>2. k[2] # k[1] BY <1>1, <1>4
  <2>3. <<k[2]>>[1] = k[2] OBVIOUS
  <2>4. QED BY <2>1, <2>2, <2>3
<1>5. CASE Len(k) = 1
  <2>1. RowLabel(k) = <<k[1]>> BY <1>5 DEF RowLabel
  <2>2. k = <<k[1]>> BY <1>1, <1>5
  <2>3. QED BY <2>1, <2>2
<1>6. \A n \in Nat \ {0} : n >= 3 \/ n = 2 \/ n = 1 OBVIOUS
<1>7. QED BY <1>2, <1>3, <1>4, <1>5, <1>6, Zenon

LEMMA LabelsDiffer ==
  ASSUME NEW over, NEW q \in AllRows(over), NEW r \in AllRows(over), q.key[1] = r.key[1],
         SectionName(q.key) = SectionName(r.key), q.label = r.label
  PROVE  q = r
<1>1. \A p \in AllRows(over) :
        \/ p.key \in Schema /\ p.label = RowLabel(p.key)
        \/ p.key \notin Schema /\ p.label = p.key
  BY DEF AllRows, KnownRows, ExtrasOf, RowFor, ExtraRow
<1>2. CASE q.key \in Schema /\ r.key \in Schema
  <2>1. q.key = r.key BY <1>1, <1>2, SchemaLabels
  <2>2. QED BY <2>1, RowsHaveKeys
<1>3. CASE q.key \in Schema /\ r.key \notin Schema BY <1>1, <1>3, ExtraLabels
<1>4. CASE q.key \notin Schema /\ r.key \in Schema BY <1>1, <1>4, ExtraLabels
<1>5. CASE q.key \notin Schema /\ r.key \notin Schema BY <1>1, <1>5, RowsHaveKeys
<1>6. QED BY <1>2, <1>3, <1>4, <1>5

-----------------------------------------------------------------------------
(* The places of the rows                                                  *)

\* The places of the rows of a grid.
Places(grid) == UNION {{<<s, i>> : i \in DOMAIN grid[s].rows} : s \in DOMAIN grid}
At(grid, p) == grid[p[1]].rows[p[2]]

LEMMA PlaceIs ==
  ASSUME NEW over, IsFiniteSet(Rows(over) \ Schema), NEW grid, grid = Grid(over)
  PROVE  /\ \A p \in Places(grid) :
              /\ p = <<p[1], p[2]>> /\ p[1] \in 1..Len(grid) /\ p[2] \in 1..Len(grid[p[1]].rows)
              /\ At(grid, p) \in AllRows(over)
              /\ At(grid, p).key[1] = grid[p[1]].group
              /\ SectionName(At(grid, p).key) = grid[p[1]].name
         /\ \A r \in AllRows(over) : \E p \in Places(grid) : At(grid, p) = r
         /\ \A p, q \in Places(grid) : At(grid, p) = At(grid, q) => p = q
<1>. DEFINE R == AllRows(over)
            n == Len(grid)
<1>1. Lists(GridRows(over), R) BY GridRowsList
<1>2. grid = Sections(GridRows(over)) BY DEF Grid
<1>. HIDE DEF R
<1>3. /\ n \in Nat /\ DOMAIN grid = 1..n
      /\ \A i \in 1..n : IsSection(grid[i], R)
      /\ \A r \in R : \E i \in 1..n : grid[i].group = r.key[1] /\ grid[i].name = SectionName(r.key)
      /\ \A i, j \in 1..n : grid[i].group = grid[j].group /\ grid[i].name = grid[j].name => i = j
  BY <1>1, <1>2, SectionsAre
<1>4. ASSUME NEW i \in 1..n
      PROVE  /\ Lists(grid[i].rows, InSection(R, grid[i].group, grid[i].name))
             /\ DOMAIN grid[i].rows = 1..Len(grid[i].rows)
             /\ \A j \in 1..Len(grid[i].rows) :
                  /\ grid[i].rows[j] \in R /\ grid[i].rows[j].key[1] = grid[i].group
                  /\ SectionName(grid[i].rows[j].key) = grid[i].name
  <2>1. Lists(grid[i].rows, InSection(R, grid[i].group, grid[i].name)) BY <1>3 DEF IsSection
  <2>2. /\ DOMAIN grid[i].rows = 1..Len(grid[i].rows)
        /\ \A j \in 1..Len(grid[i].rows) : grid[i].rows[j] \in InSection(R, grid[i].group, grid[i].name)
    BY <2>1, ListIs
  <2>3. QED BY <2>1, <2>2 DEF InSection
<1>5. ASSUME NEW p \in Places(grid)
      PROVE  p = <<p[1], p[2]>> /\ p[1] \in 1..n /\ p[2] \in 1..Len(grid[p[1]].rows)
  <2>1. PICK s \in DOMAIN grid : p \in {<<s, i>> : i \in DOMAIN grid[s].rows} BY DEF Places
  <2>2. PICK i \in DOMAIN grid[s].rows : p = <<s, i>> BY <2>1
  <2>3. p[1] = s /\ p[2] = i BY <2>2
  <2>4. s \in 1..n BY <1>3
  <2>5. DOMAIN grid[s].rows = 1..Len(grid[s].rows) BY <1>4, <2>4
  <2>6. i \in 1..Len(grid[s].rows) BY <2>5
  <2>7. QED BY <2>2, <2>3, <2>4, <2>6
<1>6. ASSUME NEW s \in 1..n, NEW i \in 1..Len(grid[s].rows)
      PROVE  <<s, i>> \in Places(grid) /\ At(grid, <<s, i>>) = grid[s].rows[i]
  <2>1. s \in DOMAIN grid /\ i \in DOMAIN grid[s].rows BY <1>3, <1>4
  <2>2. <<s, i>> \in Places(grid) BY <2>1 DEF Places
  <2>3. QED BY <2>2 DEF At
<1>7. ASSUME NEW p \in Places(grid)
      PROVE  /\ At(grid, p) \in R /\ At(grid, p).key[1] = grid[p[1]].group
             /\ SectionName(At(grid, p).key) = grid[p[1]].name
  BY <1>4, <1>5 DEF At
<1>8. ASSUME NEW r \in R PROVE \E p \in Places(grid) : At(grid, p) = r
  <2>1. PICK s \in 1..n : grid[s].group = r.key[1] /\ grid[s].name = SectionName(r.key) BY <1>3
  <2>2. r \in InSection(R, grid[s].group, grid[s].name) BY <2>1 DEF InSection
  <2>3. PICK i \in 1..Len(grid[s].rows) : grid[s].rows[i] = r BY <1>4, <2>2 DEF Lists
  <2>4. <<s, i>> \in Places(grid) /\ At(grid, <<s, i>>) = r BY <1>6, <2>3
  <2>5. QED BY <2>4
<1>9. ASSUME NEW p \in Places(grid), NEW q \in Places(grid), At(grid, p) = At(grid, q) PROVE p = q
  <2>1. grid[p[1]].group = grid[q[1]].group /\ grid[p[1]].name = grid[q[1]].name BY <1>7, <1>9
  <2>2. p[1] = q[1] BY <1>3, <1>5, <2>1
  <2>. DEFINE rows == grid[p[1]].rows
  <2>3. rows[p[2]] = rows[q[2]] BY <1>9, <2>2 DEF At
  <2>4. p[2] \in 1..Len(rows) /\ q[2] \in 1..Len(rows) BY <1>5, <2>2
  <2>5. \A i, j \in 1..Len(rows) : rows[i] = rows[j] => i = j BY <1>4, <1>5 DEF Lists
  <2>6. p[2] = q[2] BY <2>3, <2>4, <2>5
  <2>7. p = <<p[1], p[2]>> /\ q = <<q[1], q[2]>> BY <1>5
  <2>. HIDE DEF rows
  <2>8. QED BY <2>2, <2>6, <2>7
<1>10. QED BY <1>5, <1>7, <1>8, <1>9 DEF R

\* The number above the grid is that of the changed rows.
LEMMA CountOfGrid ==
  ASSUME NEW over, IsFiniteSet(Rows(over) \ Schema)
  PROVE  IsFiniteSet(AllRows(over)) /\ ChangedCount(Grid(over)) = Cardinality(Changed(AllRows(over)))
<1>. DEFINE R == AllRows(over)
            grid == Grid(over)
            n == Len(grid)
            C == [i \in 1..n |-> Changed(InSection(R, grid[i].group, grid[i].name))]
<1>1. Lists(GridRows(over), R) BY GridRowsList
<1>2. grid = Sections(GridRows(over)) BY DEF Grid
<1>. HIDE DEF R, grid
<1>3. IsFiniteSet(R) BY <1>1, ListLength
<1>4. /\ n \in Nat /\ DOMAIN grid = 1..n
      /\ \A i \in 1..n : IsSection(grid[i], R)
      /\ \A r \in R : \E i \in 1..n : grid[i].group = r.key[1] /\ grid[i].name = SectionName(r.key)
      /\ \A i, j \in 1..n : grid[i].group = grid[j].group /\ grid[i].name = grid[j].name => i = j
  BY <1>1, <1>2, SectionsAre
<1>5. \A i \in 1..n : IsFiniteSet(C[i]) /\ grid[i].changed = Cardinality(C[i])
  BY <1>4 DEF IsSection
<1>6. ASSUME NEW i \in 1..n, NEW r \in C[i]
      PROVE  r \in R /\ r.changed /\ grid[i].group = r.key[1] /\ grid[i].name = SectionName(r.key)
  BY DEF Changed, InSection
<1>7. \A i, j \in 1..n : i # j => C[i] \cap C[j] = {}
  <2>1. ASSUME NEW i \in 1..n, NEW j \in 1..n, NEW r \in C[i], r \in C[j] PROVE i = j
    BY <1>4, <1>6, <2>1
  <2>. HIDE DEF C
  <2>2. QED BY <2>1
<1>8. UNION {C[i] : i \in 1..n} = Changed(R)
  <2>1. ASSUME NEW r \in Changed(R) PROVE \E i \in 1..n : r \in C[i]
    <3>1. r \in R /\ r.changed BY DEF Changed
    <3>2. PICK i \in 1..n : grid[i].group = r.key[1] /\ grid[i].name = SectionName(r.key) BY <1>4, <3>1
    <3>3. r \in C[i] BY <3>1, <3>2 DEF Changed, InSection
    <3>4. QED BY <3>3
  <2>2. ASSUME NEW i \in 1..n, NEW r \in C[i] PROVE r \in Changed(R) BY <1>6 DEF Changed
  <2>. HIDE DEF C
  <2>3. QED BY <2>1, <2>2
<1>. HIDE DEF C, n
<1>9. n = Len(grid) BY DEF n
<1>10. CountedBy(grid, C, Changed(R)) BY <1>5, <1>7, <1>8, <1>9 DEF CountedBy
<1>11. ChangedCount(grid) = Cardinality(Changed(R))
  <2>1. Len(grid) \in Nat BY <1>4, <1>9
  <2>2. QED BY <1>10, <2>1, CountIs
<1>12. QED BY <1>3, <1>11 DEF R, grid

-----------------------------------------------------------------------------
(* What a save keeps has one override for each changed row                 *)

LEMMA CollectOnce ==
  ASSUME NEW f, NEW l \in Collect(f), NEW m \in Collect(f), l.path = m.path
  PROVE  l = m
<1>1. CASE l.path \in Schema
  <2>. DEFINE k == l.path
  <2>1. l \in KeptOf(f, k) /\ m \in KeptOf(f, k) BY <1>1, CollectAt
  <2>2. PICK v \in Parsed(k, LastValue(Posted(k, f[k]))) : l = Leaf(k, v) BY <2>1 DEF KeptOf
  <2>3. PICK w \in Parsed(k, LastValue(Posted(k, f[k]))) : m = Leaf(k, w) BY <2>1 DEF KeptOf
  <2>4. v = w BY <1>1, ParsedOnce
  <2>5. QED BY <2>2, <2>3, <2>4
<1>2. CASE l.path \notin Schema
  <2>1. \A k \in Schema : l \notin KeptOf(f, k) /\ m \notin KeptOf(f, k) BY <1>2, PathOfLeaf DEF KeptOf
  <2>2. l \in ExtraOf(f) /\ m \in ExtraOf(f) BY <2>1, CollectIs
  <2>3. PICK p : l = Leaf(p, Val("text", f[p])) BY <2>2 DEF ExtraOf
  <2>4. PICK q : m = Leaf(q, Val("text", f[q])) BY <2>2 DEF ExtraOf
  <2>5. p = q BY <2>3, <2>4, PathOfLeaf
  <2>6. QED BY <2>3, <2>4, <2>5
<1>3. QED BY <1>1, <1>2

LEMMA CollectSparse ==
  ASSUME NEW f, NEW l \in Collect(f), l.path \in Schema
  PROVE  l.val.text # Default[l.path]
<1>1. l \in KeptOf(f, l.path) BY CollectAt
<1>2. PICK v : l = Leaf(l.path, v) /\ ~IsDefault(l.path, v) BY <1>1 DEF KeptOf
<1>3. l.val = v BY <1>2, PathOfLeaf
<1>4. QED BY <1>2, <1>3 DEF IsDefault

LEMMA ChangedIsKept ==
  ASSUME NEW f, NEW over, over = Collect(f), IsFiniteSet(AllRows(over))
  PROVE  Cardinality(Changed(AllRows(over))) = Cardinality(over)
<1>. DEFINE C == Changed(AllRows(over))
            g == [r \in C |-> CHOOSE l \in over : l.path = r.key]
<1>1. \A r \in AllRows(over) :
        \/ r.key \in Schema /\ r = RowFor(over, r.key)
        \/ r.key \in Rows(over) \ Schema /\ r = ExtraRow(r.key)
  BY KeyOfRow DEF AllRows, KnownRows, ExtrasOf
<1>2. ASSUME NEW r \in C PROVE Has(over, r.key)
  <2>1. r \in AllRows(over) /\ r.changed BY DEF Changed
  <2>2. CASE r.key \in Schema
    <3>1. r = RowFor(over, r.key) BY <1>1, <2>1, <2>2
    <3>2. RowFor(over, r.key).changed => Has(over, r.key) BY DEF RowFor
    <3>3. QED BY <2>1, <3>1, <3>2
  <2>3. CASE r.key \notin Schema
    <3>1. r.key \in Rows(over) BY <1>1, <2>1, <2>3
    <3>2. QED BY <2>3, <3>1 DEF Rows, Has
  <2>4. QED BY <2>2, <2>3
<1>3. \A r \in C : g[r] \in over /\ g[r].path = r.key BY <1>2 DEF Has
<1>4. ASSUME NEW l \in over PROVE \E r \in C : g[r] = l
  <2>1. l.path \in Rows(over) BY DEF Rows
  <2>2. PICK r \in AllRows(over) : r.key = l.path BY <2>1, RowsHaveKeys
  <2>3. r.changed
    <3>1. CASE r.key \in Schema
      <4>1. r = RowFor(over, r.key) BY <1>1, <3>1
      <4>2. Has(over, r.key) BY <2>2 DEF Has
      <4>3. (CHOOSE m \in over : m.path = r.key) = l BY <2>2, CollectOnce
      <4>4. Shown(over, r.key) = l.val.text BY <4>2, <4>3 DEF Shown
      <4>5. l.val.text # Default[r.key] BY <2>2, <3>1, CollectSparse
      <4>6. RowFor(over, r.key).changed = (Has(over, r.key) /\ Shown(over, r.key) # Default[r.key])
        BY DEF RowFor
      <4>7. RowFor(over, r.key).changed BY <4>2, <4>4, <4>5, <4>6
      <4>8. QED BY <4>1, <4>7
    <3>2. CASE r.key \notin Schema
      <4>1. r = ExtraRow(r.key) BY <1>1, <3>2
      <4>2. ExtraRow(r.key).changed BY DEF ExtraRow
      <4>3. QED BY <4>1, <4>2
    <3>3. QED BY <3>1, <3>2
  <2>4. r \in C BY <2>3 DEF Changed
  <2>5. g[r] \in over /\ g[r].path = l.path BY <1>3, <2>2, <2>4
  <2>6. g[r] = l BY <2>5, CollectOnce
  <2>7. QED BY <2>4, <2>6
<1>5. ASSUME NEW q \in C, NEW r \in C, g[q] = g[r] PROVE q = r
  <2>1. q.key = r.key BY <1>3, <1>5
  <2>2. q \in AllRows(over) /\ r \in AllRows(over) BY DEF Changed
  <2>3. QED BY <2>1, <2>2, RowsHaveKeys
<1>6. IsFiniteSet(C)
  <2>1. C \in SUBSET AllRows(over) BY DEF Changed
  <2>. HIDE DEF C
  <2>2. QED BY <2>1, FS_Subset
<1>7. g \in [C -> over] BY <1>3
<1>. HIDE DEF C, g
<1>8. g \in Bijection(C, over) BY <1>4, <1>5, <1>7 DEF Bijection, Injection, IsInjective, Surjection
<1>9. ExistsBijection(C, over) BY <1>8 DEF ExistsBijection
<1>10. Cardinality(over) = Cardinality(C) BY <1>6, <1>9, FS_Bijection
<1>11. QED BY <1>10 DEF C

-----------------------------------------------------------------------------
(* The theorem about the grid                                              *)

LegacyPaths == {l.path : l \in Legacy}

\* The open page has a control for each row, and the rows the schema does not know
\* are those of presets older than it: they are finitely many.
GridInv ==
    /\ KeptInv
    /\ form # Absent => DOMAIN form = Rows(overrides)
    /\ Rows(overrides) \ Schema \subseteq LegacyPaths

LEMMA LegacyPathsFinite == IsFiniteSet(LegacyPaths)
<1>. DEFINE f == [l \in Legacy |-> l.path]
<1>1. f \in Surjection(Legacy, LegacyPaths) BY DEF Surjection, LegacyPaths
<1>2. QED BY <1>1, LegacyAssumption, FS_Surjection

LEMMA GridInit == Init => GridInv
<1>1. ASSUME Init, NEW p \in Rows(overrides) \ Schema PROVE p \in LegacyPaths
  <2>1. PICK l \in overrides : l.path = p BY <1>1 DEF Rows
  <2>2. l \in Legacy \/ \E k \in Schema : l \in Legal(k) BY <1>1 DEF Init
  <2>3. \A k \in Schema : l \in Legal(k) => l.path = k BY PathOfLeaf DEF Legal
  <2>4. l \in Legacy BY <1>1, <2>1, <2>2, <2>3
  <2>5. QED BY <2>1, <2>4 DEF LegacyPaths
<1>2. ASSUME Init PROVE form = Absent BY <1>2 DEF Init
<1>3. QED BY <1>1, <1>2, KeptInit DEF GridInv

LEMMA GridNext ==
  ASSUME GridInv, [Next]_vars
  PROVE  GridInv'
<1>1. KeptInv' BY KeptNext DEF GridInv
<1>2. ASSUME OpenEditor PROVE (form' # Absent => DOMAIN form' = Rows(overrides)') /\ overrides' = overrides
  <2>1. overrides' = overrides /\ DOMAIN form' = Rows(overrides) BY <1>2 DEF OpenEditor
  <2>2. Rows(overrides)' = Rows(overrides) BY <2>1 DEF Rows
  <2>3. QED BY <2>1, <2>2
<1>3. ASSUME Change PROVE (form' # Absent => DOMAIN form' = Rows(overrides)') /\ overrides' = overrides
  <2>1. overrides' = overrides /\ form # Absent BY <1>3 DEF Change
  <2>2. DOMAIN form' = DOMAIN form BY <1>3 DEF Change
  <2>3. Rows(overrides)' = Rows(overrides) BY <2>1 DEF Rows
  <2>4. DOMAIN form = Rows(overrides) BY <2>1 DEF GridInv
  <2>5. QED BY <2>1, <2>2, <2>3, <2>4
<1>4. ASSUME Save PROVE form' = Absent /\ Rows(overrides)' \ Schema \subseteq LegacyPaths
  <2>. DEFINE sent == Native(form)
  <2>1. form # Absent /\ overrides' = Collect(sent) /\ form' = Absent BY <1>4 DEF Save
  <2>2. DOMAIN sent \ Schema \subseteq LegacyPaths BY <2>1 DEF GridInv, Native
  <2>. HIDE DEF sent
  <2>3. ASSUME NEW p \in Rows(overrides)' \ Schema PROVE p \in LegacyPaths
    <3>1. PICK l \in Collect(sent) : l.path = p BY <2>1, <2>3 DEF Rows
    <3>2. \A k \in Schema : l \notin KeptOf(sent, k) BY <2>3, <3>1, PathOfLeaf DEF KeptOf
    <3>3. l \in ExtraOf(sent) BY <3>1, <3>2, CollectIs
    <3>4. p \in DOMAIN sent \ Schema BY <3>1, <3>3, PathOfLeaf DEF ExtraOf
    <3>5. QED BY <2>2, <3>4
  <2>4. QED BY <2>1, <2>3
<1>5. ASSUME overrides' = overrides PROVE Rows(overrides)' = Rows(overrides) BY <1>5 DEF Rows
<1>6. ASSUME Refresh \/ Convert \/ Retry \/ UNCHANGED vars PROVE form' = form /\ overrides' = overrides
  BY <1>6 DEF Refresh, Convert, Retry, vars
<1>7. CASE OpenEditor BY <1>1, <1>2, <1>5, <1>7 DEF GridInv
<1>8. CASE Change BY <1>1, <1>3, <1>5, <1>8 DEF GridInv
<1>9. CASE Save
  <2>1. form' = Absent /\ Rows(overrides)' \ Schema \subseteq LegacyPaths BY <1>4, <1>9
  <2>2. LegacyPaths' = LegacyPaths /\ Rows(overrides)' = Rows(overrides') BY DEF LegacyPaths, Rows
  <2>3. QED BY <1>1, <2>1 DEF GridInv
<1>10. CASE Refresh \/ Convert \/ Retry \/ UNCHANGED vars BY <1>1, <1>5, <1>6, <1>10 DEF GridInv
<1>11. QED BY <1>7, <1>8, <1>9, <1>10 DEF Next

\* Every control of the page has one row, in the one section of its name, where its
\* label is its own; and the number of changed options above the grid of a saved
\* preset is the number of its overrides: for any schema whose options do not
\* repeat their group, in any order, and any presets older than it
\* (editor.go:102-251, effective.go:23, presets.go:20).
THEOREM GridsAreTrue == Spec => []GridIsTrue
<1>1. GridInv => GridIsTrue
  <2>1. SUFFICES ASSUME GridInv, form # Absent PROVE GridIsTrue BY DEF GridIsTrue
  <2>. DEFINE grid == Grid(overrides)
              at == Places(grid)
              row(p) == At(grid, p)
  <2>2. DOMAIN form = Rows(overrides) /\ Rows(overrides) \ Schema \in SUBSET LegacyPaths
    BY <2>1 DEF GridInv
  <2>3. IsFiniteSet(Rows(overrides) \ Schema)
    <3>1. IsFiniteSet(LegacyPaths) BY LegacyPathsFinite
    <3>2. QED BY <2>2, <3>1, FS_Subset
  <2>. HIDE DEF grid
  <2>4. /\ \A p \in Places(grid) :
             /\ p = <<p[1], p[2]>> /\ p[1] \in 1..Len(grid) /\ p[2] \in 1..Len(grid[p[1]].rows)
             /\ At(grid, p) \in AllRows(overrides)
             /\ At(grid, p).key[1] = grid[p[1]].group
             /\ SectionName(At(grid, p).key) = grid[p[1]].name
        /\ \A r \in AllRows(overrides) : \E p \in Places(grid) : At(grid, p) = r
        /\ \A p, q \in Places(grid) : At(grid, p) = At(grid, q) => p = q
    BY <2>3, PlaceIs DEF grid
  <2>5. ASSUME NEW k \in DOMAIN form PROVE Cardinality({p \in at : row(p).key = k}) = 1
    <3>1. PICK r \in AllRows(overrides) : r.key = k BY <2>2, RowsHaveKeys
    <3>2. PICK p \in at : row(p) = r BY <2>4, <3>1
    <3>3. ASSUME NEW q \in at, row(q).key = k PROVE q = p
      <4>1. row(q) = r BY <2>4, <3>1, <3>3, RowsHaveKeys
      <4>2. QED BY <2>4, <3>2, <4>1
    <3>4. {q \in at : row(q).key = k} = {p} BY <3>1, <3>2, <3>3
    <3>5. QED BY <3>4, FS_Singleton
  <2>6. ASSUME NEW p \in at, NEW q \in at, p[1] = q[1], row(p).label = row(q).label PROVE p = q
    <3>1. row(p).key[1] = row(q).key[1] /\ SectionName(row(p).key) = SectionName(row(q).key)
      BY <2>4, <2>6
    <3>2. row(p) \in AllRows(overrides) /\ row(q) \in AllRows(overrides) BY <2>4
    <3>. HIDE DEF row
    <3>3. row(p) = row(q) BY <2>6, <3>1, <3>2, LabelsDiffer
    <3>4. QED BY <2>4, <3>3 DEF row
  <2>7. \A s, t \in DOMAIN grid : grid[s].group = grid[t].group /\ grid[s].name = grid[t].name => s = t
    <3>1. Lists(GridRows(overrides), AllRows(overrides)) BY <2>3, GridRowsList
    <3>2. grid = Sections(GridRows(overrides)) BY DEF grid, Grid
    <3>3. QED BY <3>1, <3>2, SectionsAre
  <2>8. ASSUME posted # Absent PROVE ChangedCount(grid) = Cardinality(overrides)
    <3>1. overrides = Collect(Native(posted)) BY <2>1, <2>8 DEF GridInv, KeptInv
    <3>2. IsFiniteSet(AllRows(overrides)) /\ ChangedCount(grid) = Cardinality(Changed(AllRows(overrides)))
      BY <2>3, CountOfGrid DEF grid
    <3>3. QED BY <3>1, <3>2, ChangedIsKept
  <2>9. QED
    <3>. HIDE DEF at, row
    <3>1. /\ \A k \in DOMAIN form : Cardinality({p \in at : row(p).key = k}) = 1
          /\ \A p, q \in at : p[1] = q[1] /\ row(p).label = row(q).label => p = q
          /\ \A s, t \in DOMAIN grid :
               grid[s].group = grid[t].group /\ grid[s].name = grid[t].name => s = t
          /\ posted # Absent => ChangedCount(grid) = Cardinality(overrides)
      BY <2>5, <2>6, <2>7, <2>8
    <3>2. QED BY <3>1, Zenon DEF GridIsTrue, grid, at, row, Places, At
<1>2. Spec => []GridInv BY GridInit, GridNext, PTL DEF Spec
<1>3. QED BY <1>1, <1>2, PTL
=============================================================================
