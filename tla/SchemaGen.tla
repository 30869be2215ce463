----------------------------- MODULE SchemaGen -----------------------------
(***************************************************************************)
(* The option schema and its generator: `go generate` turns what the       *)
(* bundled fbc dumps, its comments included, into options.json, and tells  *)
(* the maintainer what has drifted.  cmd/schemagen, internal/schema.       *)
(*                                                                         *)
(* A dump flattens to a sequence of leaves, in document order (DumpTree    *)
(* says how); a comment is a sequence of lines, each known by its class.   *)
(* A dotted key is a sequence of segments.                                 *)
(***************************************************************************)
EXTENDS Naturals, SequencesExt

CONSTANTS
    Dumps,      \* what one version of fbc or another may dump
    DocFiles,   \* what config.md may say, line by line; <<>> when it is missing
    Flatten(_), \* the leaves of a dump: a sequence of their keys, types, values and comments
    Hand,       \* what the maintainer writes by hand
    MaxBumps,   \* bound: new versions of fbc
    MaxHand     \* bound: options with something written by hand

ASSUME BumpsAssumption == MaxBumps \in Nat /\ MaxHand \in Nat

VARIABLES
    dump, docs,  \* of the fbc in use
    file,        \* options.json: missing, torn or whole, and the options in it
    pc, opts,    \* the run of the generator, and the options it has built
    report,      \* the drift it has printed
    bumps,
    \* ---- history ----
    known,       \* the options of the last whole file
    cut          \* a run was cut off in its writing since

vars == <<dump, docs, file, pc, opts, report, bumps, known, cut>>

-----------------------------------------------------------------------------
(* From a dump to options                                                  *)

\* Mutant: a blank line does not end the description.
ReadsOn(parsed, line) ==
    CASE line.class \in {"blank", "banner"} -> parsed
      [] line.class = "value" -> [parsed EXCEPT !.enum = Append(@, line.text), !.open = FALSE]
      [] line.class = "aside" -> [parsed EXCEPT !.open = FALSE]
      [] OTHER -> IF parsed.open THEN [parsed EXCEPT !.desc = Append(@, line.text)] ELSE parsed
\* parseComment, line by line; "aside" is a NOTE or the head of a list, "banner" the
\* one fbc puts above its first field.
ReadLine(parsed, line) ==
    CASE line.class \in {"blank", "aside"} -> [parsed EXCEPT !.open = FALSE]
      [] line.class = "value" -> [parsed EXCEPT !.enum = Append(@, line.text), !.open = FALSE]
      [] line.class = "banner" -> parsed
      [] OTHER -> IF parsed.open THEN [parsed EXCEPT !.desc = Append(@, line.text)] ELSE parsed

ParseComment(comment) ==
    FoldLeft(ReadLine, [desc |-> <<>>, enum |-> <<>>, open |-> TRUE], comment)

\* inferKind
InferKind(leaf) == IF leaf.type \in {"bool", "int"} THEN leaf.type ELSE "string"

\* buildOptions: a text whose comment lists it with another value is an enum.
BuildOption(leaf) ==
    LET parsed == ParseComment(leaf.comment)
        isEnum == /\ Len(parsed.enum) >= 2
                  /\ leaf.type = "string" /\ leaf.val \in ToSet(parsed.enum)
    IN  [key |-> leaf.key, kind |-> IF isEnum THEN "enum" ELSE InferKind(leaf),
         default |-> leaf.val, enum |-> IF isEnum THEN parsed.enum ELSE <<>>,
         desc |-> parsed.desc]

\* parseDescriptions and applyDescriptions: the last line about a key counts.
Described(option) ==
    LET about == {i \in DOMAIN docs : docs[i].key = option.key}
    IN  IF about = {} THEN option
        ELSE [option EXCEPT !.desc =
                <<docs[CHOOSE i \in about : \A k \in about : k <= i].text>>]

Built ==
    LET leaves == Flatten(dump)
    IN  [i \in DOMAIN leaves |-> Described(BuildOption(leaves[i]))]

-----------------------------------------------------------------------------
(* Drift                                                                   *)

NoFile == [state |-> "missing", options |-> <<>>]
TornFile == [state |-> "torn", options |-> <<>>]
Whole(options) == [state |-> "whole", options |-> options]

\* loadExisting
Prior == IF file.state = "whole" THEN file.options ELSE <<>>

Keys(options) == {options[i].key : i \in DOMAIN options}
\* Mutant: the keys alone are compared.
SameKey(o, p) == o.key = p.key
Same(o, p) == o.key = p.key /\ o.kind = p.kind

\* computeDrift
Drift(old, next) ==
    [added |-> Keys(next) \ Keys(old),
     removed |-> Keys(old) \ Keys(next),
     retyped |-> {o.key : o \in {p \in ToSet(next) : /\ p.key \in Keys(old)
                                                     /\ ~ \E q \in ToSet(old) : Same(p, q)}}]

NoDrift == [added |-> {}, removed |-> {}, retyped |-> {}]

-----------------------------------------------------------------------------
(* A run of the generator                                                  *)

Init ==
    /\ dump \in Dumps /\ docs \in DocFiles
    /\ file = NoFile /\ pc = "idle" /\ opts = <<>> /\ report = NoDrift
    /\ bumps = 0 /\ known = <<>> /\ cut = FALSE

\* main, up to the drift: a dump that cannot be read or parsed changes nothing.
Build ==
    /\ pc = "idle"
    /\ pc' = "built" /\ opts' = Built
    /\ UNCHANGED <<dump, docs, file, report, bumps, known, cut>>

Report ==
    /\ pc = "built"
    /\ pc' = "reported" /\ report' = Drift(Prior, opts)
    /\ UNCHANGED <<dump, docs, file, opts, bumps, known, cut>>

\* writeOptions: os.WriteFile truncates the file, then fills it.
Truncate ==
    /\ pc = "reported"
    /\ pc' = "writing" /\ file' = TornFile
    /\ UNCHANGED <<dump, docs, opts, report, bumps, known, cut>>

Fill ==
    /\ pc = "writing"
    /\ pc' = "idle" /\ opts' = <<>>
    /\ file' = Whole(opts) /\ known' = opts /\ cut' = FALSE
    /\ UNCHANGED <<dump, docs, report, bumps>>

\* The run is killed, or the disk is full.
Abort ==
    /\ pc # "idle"
    /\ pc' = "idle" /\ opts' = <<>>
    /\ cut' = (cut \/ pc = "writing")
    /\ UNCHANGED <<dump, docs, file, report, bumps, known>>

\* A new version of fbc comes with its own dump and config.md.
Bump ==
    /\ pc = "idle" /\ bumps < MaxBumps
    /\ bumps' = bumps + 1
    /\ dump' \in Dumps /\ docs' \in DocFiles
    /\ UNCHANGED <<file, pc, opts, report, known, cut>>

\* The maintainer describes an option, or makes an enum of a text as well.
ByHand(option) ==
    LET told == [option EXCEPT !.desc = Hand]
    IN  IF option.kind = "string" THEN {told, [told EXCEPT !.kind = "enum", !.enum = Hand]}
        ELSE {told}

Annotate ==
    /\ pc = "idle" /\ file.state = "whole"
    /\ \E i \in DOMAIN file.options : \E option \in ByHand(file.options[i]) :
         /\ known' = [file.options EXCEPT ![i] = option]
         /\ Cardinality({k \in DOMAIN known' : known'[k].desc = Hand}) <= MaxHand
         /\ file' = Whole(known')
    /\ UNCHANGED <<dump, docs, pc, opts, report, bumps, cut>>

Next == Build \/ Report \/ Truncate \/ Fill \/ Abort \/ Bump \/ Annotate

Spec == Init /\ [][Next]_vars

-----------------------------------------------------------------------------
\* An option a run has not reported is one the maintainer knew, of the same kind,
\* however many runs were cut off before; and unless one was, no option is gone
\* unreported (gen.go:5-6: "so the maintainer knows what to re-annotate").
ReportTellsAll ==
    [][pc = "writing" /\ file'.state = "whole" =>
          /\ \A o \in ToSet(file'.options) :
                o.key \notin report.added \cup report.retyped =>
                    \E q \in ToSet(known) : q.key = o.key /\ q.kind = o.kind
          /\ cut \/ Keys(known) \subseteq Keys(file'.options) \cup report.removed]_vars
=============================================================================
