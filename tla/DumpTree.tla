------------------------------ MODULE DumpTree ------------------------------
(***************************************************************************)
(* How fbc's dump, a tree, becomes the leaves SchemaGen makes options of,  *)
(* and what that must leave in options.json.  An entry of a mapping holds  *)
(* the sequence of its own entries.  The module is for TLC: it is          *)
(* recursive.                                                              *)
(***************************************************************************)
EXTENDS SchemaGen

\* flattenNode: the leaves with their paths; an empty mapping leaves nothing.
RECURSIVE FlattenNode(_, _)
FlattenNode(prefix, entries) ==
    FlattenSeq([i \in DOMAIN entries |->
        LET e == entries[i]
            key == Append(prefix, e.key)
        IN  IF e.type = "map" THEN FlattenNode(key, e.content)
            ELSE <<[key |-> key, type |-> e.type, val |-> e.val,
                    comment |-> IF e.head # <<>> THEN e.head ELSE e.line]>>])

Leaves(entries) == FlattenNode(<<>>, entries)

-----------------------------------------------------------------------------
(* Reference definitions                                                   *)

\* The entry at an address: a position in the dump, one in that entry, and so on.
RECURSIVE Entry(_, _)
Entry(entries, at) ==
    IF Len(at) = 1 THEN entries[at[1]] ELSE Entry(entries[at[1]].content, Tail(at))

RECURSIVE Addresses(_)
Addresses(entries) ==
    UNION {IF entries[i].type = "map"
           THEN {<<i>> \o at : at \in Addresses(entries[i].content)}
           ELSE {<<i>>} : i \in DOMAIN entries}

Names(entries, at) == [n \in DOMAIN at |-> Entry(entries, SubSeq(at, 1, n)).key]

Before(at, bt) ==
    \E n \in DOMAIN at \cap DOMAIN bt : at[n] < bt[n] /\ \A m \in 1..(n - 1) : at[m] = bt[m]

Comment(entry) == IF entry.head # <<>> THEN entry.head ELSE entry.line

Texts(lines) == [i \in DOMAIN lines |-> lines[i].text]

\* The description, in the words of parseComment's comment: "the leading prose (up
\* to the first blank line, enum line, or NOTE:/List-of aside)".
Leading(comment) ==
    LET ends == {i \in DOMAIN comment : comment[i].class \in {"blank", "value", "aside"}}
        prose == {i \in DOMAIN comment : comment[i].class = "prose" /\ \A k \in ends : i < k}
    IN  Texts([n \in 1..Cardinality(prose) |->
                 comment[CHOOSE i \in prose : Cardinality({k \in prose : k <= i}) = n]])

Values(comment) == Texts(SelectSeq(comment, LAMBDA line : line.class = "value"))

Scaffold(options) ==
    LET at == SetToSortSeq(Addresses(dump), Before)
    IN  /\ DOMAIN options = DOMAIN at
        /\ \A i \in DOMAIN at :
             LET e == Entry(dump, at[i])
                 o == options[i]
             IN  /\ o.key = Names(dump, at[i]) /\ o.default = e.val
                 /\ \/ /\ \A k \in DOMAIN docs : docs[k].key # o.key
                       /\ o.desc = Leading(Comment(e))
                    \/ \E k \in DOMAIN docs : docs[k].key = o.key /\ o.desc = <<docs[k].text>>
                 /\ o.kind = "enum" => o.enum = Values(Comment(e)) /\ e.val \in ToSet(o.enum)
                 /\ o.kind # "enum" => o.enum = <<>> /\ o.kind \in {"string", e.type}

\* What a run leaves has one option for each leaf of the dump, in its order, with
\* its default, the description its comment or config.md gives, and, for an enum,
\* the values of the comment, the default among them (schemagen.go:55-63, 133-137),
\* whatever the run found: an old schema, a torn one, one edited by hand.
ScaffoldFollowsDump ==
    [][pc = "writing" /\ file'.state = "whole" => Scaffold(file'.options)]_vars
=============================================================================
