----------------------------- MODULE EditorGrid -----------------------------
(***************************************************************************)
(* The grid the option editor shows for a preset: a row for each option,   *)
(* in the order of options.json, and for each override the schema does not *)
(* know, in groups of sections, each with its count of changed options.    *)
(***************************************************************************)
EXTENDS ConfigLayers, SequencesExt

CONSTANT Order      \* the options of options.json, in the order of the file

ASSUME OrderAssumption == Order \in Seq(Schema) /\ ToSet(Order) = Schema /\ IsInjective(Order)
\* The group of an option is the first segment of its key; no option of
\* options.json repeats it, or has a section "general".
ASSUME OptionsAssumption ==
    \A k \in Schema :
        /\ k \in Seq(STRING) /\ k # <<>>
        /\ \A i \in 2..Len(k) : k[i] # k[1]
        /\ Len(k) >= 3 => k[2] # "general"
ASSUME LegacyAssumption == IsFiniteSet(Legacy)

\* The entries of a list that are in a set, and each entry where it is first met:
\* Groups, groupSet and partition keep the order of both.
Only(seq, S) == FlattenSeq([i \in DOMAIN seq |-> IF seq[i] \in S THEN <<seq[i]>> ELSE <<>>])
FirstSeen(names) ==
    FlattenSeq([i \in DOMAIN names |->
        IF \E j \in 1..(i - 1) : names[j] = names[i] THEN <<>> ELSE <<names[i]>>])

\* sectionName
SectionName(k) == IF Len(k) >= 3 THEN k[2] ELSE "general"

\* Mutant: the last segment alone.
LastSegment(k) == <<k[Len(k)]>>
\* rowLabel
RowLabel(k) == IF Len(k) >= 3 THEN SubSeq(k, 3, Len(k)) ELSE <<k[Len(k)]>>

\* rowFor; a row the schema does not know is always a changed one.
RowFor(over, k) ==
    [key |-> k, label |-> RowLabel(k),
     changed |-> Has(over, k) /\ Shown(over, k) # Default[k]]
ExtraRow(k) == [key |-> k, label |-> k, changed |-> TRUE]

\* appendSchemaRows, group by group; then appendSyntheticRows, sorted by key: any
\* order that is fixed will do here.
Groups == FirstSeen([i \in DOMAIN Order |-> Order[i][1]])
InGroup(g) == Only(Order, {k \in Schema : k[1] = g})
SchemaRows(over, g) == [i \in DOMAIN InGroup(g) |-> RowFor(over, InGroup(g)[i])]
ExtraRows(over) ==
    LET extra == SetToSeq(Rows(over) \ Schema) IN [i \in DOMAIN extra |-> ExtraRow(extra[i])]
GridRows(over) ==
    FlattenSeq([i \in DOMAIN Groups |-> SchemaRows(over, Groups[i])]) \o ExtraRows(over)

\* The rows under each of the names a map gives them, and how many are changed.
Part(rows, name, n) ==
    LET mine == Only(rows, {r \in ToSet(rows) : name[r] = n})
    IN  [name |-> n, rows |-> mine, changed |-> Len(Only(mine, {r \in ToSet(mine) : r.changed}))]
Parts(rows, name) ==
    LET names == FirstSeen([i \in DOMAIN rows |-> name[rows[i]]])
    IN  [i \in DOMAIN names |-> Part(rows, name, names[i])]

\* partition
Partition(group) ==
    LET parts == Parts(group.rows, [r \in ToSet(group.rows) |-> SectionName(r.key)])
    IN  [i \in DOMAIN parts |-> [group |-> group.name, name |-> parts[i].name,
                                 rows |-> parts[i].rows, changed |-> parts[i].changed]]

\* ensure and finalize: the sections of every group.
Sections(rows) ==
    LET groups == Parts(rows, [r \in ToSet(rows) |-> r.key[1]])
    IN  FlattenSeq([i \in DOMAIN groups |-> Partition(groups[i])])
Grid(over) == Sections(GridRows(over))

ChangedCount(grid) ==
    LET count[i \in 0..Len(grid)] == IF i = 0 THEN 0 ELSE count[i - 1] + grid[i].changed
    IN  count[Len(grid)]

\* Every control of the page has one row, in the one section of its name, where
\* no other row has its label (editor.go:180-185, "stay distinguishable"); and the
\* number of changed options above the grid is, for a preset that was saved, the
\* number of its overrides, which the preview and the list of presets show
\* (editor.go:246, effective.go:23, presets.go:20).
GridIsTrue ==
    form # Absent =>
        LET grid == Grid(overrides)
            at == UNION {{<<s, i>> : i \in DOMAIN grid[s].rows} : s \in DOMAIN grid}
            row(p) == grid[p[1]].rows[p[2]]
        IN  /\ \A k \in DOMAIN form : Cardinality({p \in at : row(p).key = k}) = 1
            /\ \A p, q \in at : p[1] = q[1] /\ row(p).label = row(q).label => p = q
            /\ \A s, t \in DOMAIN grid :
                 grid[s].group = grid[t].group /\ grid[s].name = grid[t].name => s = t
            /\ posted # Absent => ChangedCount(grid) = Cardinality(overrides)
=============================================================================
