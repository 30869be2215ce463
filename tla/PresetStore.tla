---------------------------- MODULE PresetStore ----------------------------
(***************************************************************************)
(* The preset store and the handlers that change it: one file per preset,  *)
(* _meta.yaml with the default, no lock.  A step is one access to the file *)
(* system; a write is one step here, AtomicFile looks inside it.           *)
(*                                                                         *)
(* An id is the sequence of its parts: "book" is <<"book">>, and freeID's  *)
(* "book-2" is <<"book", 2>>, which is also the slug of the name "Book 2". *)
(* A name matters only for its slug, and any save may change it, so the    *)
(* slug of a new preset or of a copy is arbitrary.                         *)
(***************************************************************************)
EXTENDS Naturals, Sequences, FiniteSets

CONSTANTS
    Slugs,       \* what slugify makes of the names users give
    Overrides,   \* what a preset may hold
    Empty,       \* the overrides of a new preset
    Requests,    \* bound: the requests that may be in flight together
    MaxPresets,  \* bound: no create or copy starts with more presets than that
    None         \* no preset, no default; also the built-in preset's id

Nothing == [op |-> "none"]

\* freeID's candidates: the slug, then "-2", "-3", ...
Candidate(slug, n) == IF n = 1 THEN slug ELSE Append(slug, n)
Suffixes == 1..(MaxPresets + Cardinality(Requests) - 1)
Ids == {Candidate(s, n) : s \in Slugs, n \in Suffixes}

ASSUME OverridesAssumption == Empty \in Overrides /\ None \notin Overrides
ASSUME SlugsAssumption == None \notin Ids
ASSUME MaxPresetsAssumption == MaxPresets \in Nat

VARIABLES
    file,      \* <id>.yaml: the overrides of each preset, None without a file
    default,   \* _meta.yaml
    at,        \* what each request does next
    rq,        \* what it was asked, and what it has read
    \* ---- history ----
    met,       \* requests about to act on a preset another has changed since they looked
    raced      \* presets such a request was the last to act on

vars == <<file, default, at, rq, met, raced>>

Init ==
    /\ file = [i \in Ids |-> None]
    /\ default = None
    /\ at = [r \in Requests |-> "idle"]
    /\ rq = [r \in Requests |-> Nothing]
    /\ met = {} /\ raced = {}

Exists(i) == file[i] # None

Go(r, label) == at' = [at EXCEPT ![r] = label]

\* The request is answered: with a redirect, or with the error.
End(r) ==
    /\ at' = [at EXCEPT ![r] = "idle"]
    /\ rq' = [rq EXCEPT ![r] = Nothing]

Begin(r, label, request) ==
    /\ at[r] = "idle"
    /\ Go(r, label)
    /\ rq' = [rq EXCEPT ![r] = request]
    /\ UNCHANGED <<file, default, met, raced>>

New(r) == Candidate(rq[r].slug, rq[r].n)

\* The preset a request is about to act on, once it has looked.
Subject(r) == IF rq[r].op \in {"create", "copy"} THEN New(r) ELSE rq[r].id
Looked(r) ==
    at[r] \in {"create", "fill", "write", "mark", "remove"} /\ Subject(r) # None

\* A request acts on its subject: so much for what the others have seen of it.
Act(r) ==
    /\ met' = (met \ {r}) \cup {q \in Requests \ {r} : Looked(q) /\ Subject(q) = Subject(r)}
    /\ raced' = IF r \in met THEN raced \cup {Subject(r)} ELSE raced \ {Subject(r)}

Room == Cardinality({i \in Ids : Exists(i)}) < MaxPresets

\* The five routes.  The built-in preset can be copied, and to make it the default
\* clears the marker; to save or to delete it is refused.
CreatePreset(r) ==
    \E s \in Slugs :
      Room /\ Begin(r, "probe", [op |-> "create", slug |-> s, n |-> 1, ov |-> Empty])
DuplicatePreset(r) ==
    \E s \in Slugs, i \in Ids \cup {None} :
      Room /\ Begin(r, "name", [op |-> "copy", id |-> i, slug |-> s, n |-> 1, ov |-> Empty])
SavePreset(r) ==
    \E i \in Ids, o \in Overrides, m \in BOOLEAN :
      Begin(r, "get", [op |-> "save", id |-> i, ov |-> o, mark |-> m])
DefaultPreset(r) ==
    \E i \in Ids : Begin(r, "stat", [op |-> "default", id |-> i])
DefaultBuiltin(r) == Begin(r, "mark", [op |-> "default", id |-> None])
DeletePreset(r) ==
    \E i \in Ids : Begin(r, "check", [op |-> "delete", id |-> i])

\* Get: the built-in preset is always there, and empty.
CanGet(i) == i = None \/ Exists(i)
Got(i) == IF i = None THEN Empty ELSE file[i]

\* handlePresetDuplicate gets the name for the copy, Duplicate the overrides.
CopyName(r) ==
    /\ at[r] = "name"
    /\ IF CanGet(rq[r].id) THEN Go(r, "read") /\ UNCHANGED rq ELSE End(r)
    /\ UNCHANGED <<file, default, met, raced>>

CopyRead(r) ==
    /\ at[r] = "read"
    /\ IF CanGet(rq[r].id)
       THEN Go(r, "probe") /\ rq' = [rq EXCEPT ![r].ov = Got(rq[r].id)]
       ELSE End(r)
    /\ UNCHANGED <<file, default, met, raced>>

\* Mutants: a candidate is taken for free, or tried over and over.
AlwaysFree(r) == TRUE
SameCandidate(n) == n
IsFree(r) == ~Exists(Candidate(rq[r].slug, rq[r].n))
NextCandidate(n) == n + 1

\* freeID.
Probe(r) ==
    /\ at[r] = "probe" /\ rq[r].n \in Suffixes
    /\ IF IsFree(r)
       THEN Go(r, "create") /\ UNCHANGED rq
       ELSE UNCHANGED at /\ rq' = [rq EXCEPT ![r].n = NextCandidate(@)]
    /\ UNCHANGED <<file, default, met, raced>>

\* Create's write, of a preset without overrides.
WriteNew(r) ==
    /\ at[r] = "create"
    /\ file' = [file EXCEPT ![New(r)] = Empty]
    /\ IF rq[r].op = "copy" THEN Go(r, "fill") /\ UNCHANGED rq ELSE End(r)
    /\ Act(r)
    /\ UNCHANGED default

\* Duplicate's second write, with the overrides.
WriteCopy(r) ==
    /\ at[r] = "fill"
    /\ file' = [file EXCEPT ![New(r)] = rq[r].ov]
    /\ End(r)
    /\ Act(r)
    /\ UNCHANGED default

\* Mutant: an unknown preset is saved too.
SaveAnyway(r) == TRUE
MaySave(r) == Exists(rq[r].id)

SaveGet(r) ==
    /\ at[r] = "get"
    /\ IF MaySave(r) THEN Go(r, "write") /\ UNCHANGED rq ELSE End(r)
    /\ UNCHANGED <<file, default, met, raced>>

SaveWrite(r) ==
    /\ at[r] = "write"
    /\ file' = [file EXCEPT ![rq[r].id] = rq[r].ov]
    /\ IF rq[r].mark THEN Go(r, "stat") /\ UNCHANGED rq ELSE End(r)
    /\ Act(r)
    /\ UNCHANGED default

\* SetDefault.
DefaultStat(r) ==
    /\ at[r] = "stat"
    /\ IF Exists(rq[r].id) THEN Go(r, "mark") /\ UNCHANGED rq ELSE End(r)
    /\ UNCHANGED <<file, default, met, raced>>

DefaultWrite(r) ==
    /\ at[r] = "mark"
    /\ default' = rq[r].id
    /\ End(r)
    /\ Act(r)
    /\ UNCHANGED file

\* Mutant: the default may be deleted.
NoRefusal(r) == TRUE
MayDelete(r) == default # rq[r].id

DeleteCheck(r) ==
    /\ at[r] = "check"
    /\ IF MayDelete(r) THEN Go(r, "remove") /\ UNCHANGED rq ELSE End(r)
    /\ UNCHANGED <<file, default, met, raced>>

\* os.Remove of a file that is gone is an error, and changes nothing.
DeleteRemove(r) ==
    /\ at[r] = "remove"
    /\ file' = [file EXCEPT ![rq[r].id] = None]
    /\ End(r)
    /\ Act(r)
    /\ UNCHANGED default

\* The disk is full, or not writable: nothing is renamed, the handler answers.
WriteFails(r) ==
    /\ at[r] \in {"create", "fill", "write", "mark"}
    /\ End(r)
    /\ met' = met \ {r}
    /\ UNCHANGED <<file, default, raced>>

\* The process dies and starts again: the files are all there is.
Crash ==
    /\ at' = [r \in Requests |-> "idle"]
    /\ rq' = [r \in Requests |-> Nothing]
    /\ met' = {}
    /\ UNCHANGED <<file, default, raced>>

Arrive(r) ==
    \/ CreatePreset(r) \/ DuplicatePreset(r) \/ SavePreset(r)
    \/ DefaultPreset(r) \/ DefaultBuiltin(r) \/ DeletePreset(r)

Serve(r) ==
    \/ CopyName(r) \/ CopyRead(r) \/ Probe(r) \/ WriteNew(r) \/ WriteCopy(r)
    \/ SaveGet(r) \/ SaveWrite(r) \/ DefaultStat(r) \/ DefaultWrite(r)
    \/ DeleteCheck(r) \/ DeleteRemove(r) \/ WriteFails(r)

Next == Crash \/ \E r \in Requests : Arrive(r) \/ Serve(r)

Spec == Init /\ [][Next]_vars

\* A handler's goroutine runs until it has answered.
FairSpec == Spec /\ \A r \in Requests : WF_vars(Serve(r))

-----------------------------------------------------------------------------
\* The default is a preset there is.  SetDefault checks it, and Delete refuses
\* the current default (store.go:206).
DefaultExists == default # None => Exists(default)

\* However many requests there are, the default is gone only if the last to act
\* on it was one for whom another had changed it since it looked
\* (store.go:182-219): any other request about it, requests about other presets,
\* failing writes and crashes do it no harm.
DefaultIsThere == default # None => Exists(default) \/ default \in raced

\* A created preset takes nobody's place: its id is unused until the write that
\* creates it (store.go:110, "until an unused id is found"), unless another
\* request has taken this very id meanwhile.
CreateIsFresh ==
    [][\A r \in Requests : WriteNew(r) => ~Exists(New(r)) \/ r \in met]_vars

\* Every request is answered, freeID's loop over the taken ids included.
RequestsEnd == \A r \in Requests : at[r] # "idle" ~> at[r] = "idle"

Library == INSTANCE PresetLibrary WITH presets <- file, contended <- raced

\* The store keeps the promise of the presets page, for requests that overlap too,
\* writes that fail and crashes between the two writes of a copy included: what
\* two requests do to one preset at once harms that preset only.
ImplementsLibrary == Library!Spec
=============================================================================
