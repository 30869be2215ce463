----------------------------- MODULE AtomicFile -----------------------------
(***************************************************************************)
(* How the program writes a file: os.WriteFile of <path>.tmp, which opens  *)
(* and truncates it and then writes, and os.Rename over <path>, while      *)
(* others read <path>: os.ReadFile opens it and then reads what it has     *)
(* opened.  jobs.Store.Save writes under Server.mu (Locked),               *)
(* presets.Store.write and writeMeta without a lock; no reader locks.      *)
(***************************************************************************)
EXTENDS Naturals, FiniteSets

CONSTANTS
    Writers,   \* the requests and workers that save; each writes its own value
    Readers,   \* the polls and handlers that load
    Locked,    \* whether they hold a lock from before the open to after the rename
    Inodes,    \* files of the file system, named or only open
    None       \* no writer, no file, nothing written

Contents == Writers \cup {"empty", "torn"}

ASSUME WritersAssumption == None \notin Writers \cup Inodes /\ Locked \in BOOLEAN
ASSUME ContentsAssumption == {None, "empty", "torn"} \cap Writers = {}

VARIABLES
    tmp, final,   \* the files the two names lead to
    data,         \* what each file holds
    pc, fd,       \* each writer's position and open file
    rfd,          \* the file each reader has open
    mu            \* the holder of the lock

vars == <<tmp, final, data, pc, fd, rfd, mu>>

Init ==
    /\ tmp = None /\ final = None
    /\ data = [f \in Inodes |-> "empty"]
    /\ pc = [w \in Writers |-> "idle"]
    /\ fd = [w \in Writers |-> None]
    /\ rfd = [r \in Readers |-> None]
    /\ mu = None

Unused(f) ==
    /\ f \notin {tmp, final}
    /\ \A w \in Writers : fd[w] # f
    /\ \A r \in Readers : rfd[r] # f

Begin(w) ==
    /\ pc[w] = "idle"
    /\ Locked => mu = None
    /\ mu' = IF Locked THEN w ELSE mu
    /\ pc' = [pc EXCEPT ![w] = "begun"]
    /\ UNCHANGED <<tmp, final, data, fd, rfd>>

\* Mutant: the file itself is opened.
InPlace(f) == f = final \/ (final = None /\ Unused(f))
TmpFile(f) == f = tmp \/ (tmp = None /\ Unused(f))

\* O_CREATE|O_TRUNC: another writer's open file loses what it holds.
OpenTmp(w) ==
    /\ pc[w] = "begun"
    /\ \E f \in Inodes :
         /\ TmpFile(f)
         /\ tmp' = f
         /\ fd' = [fd EXCEPT ![w] = f]
         /\ data' = [data EXCEPT ![f] = "empty"]
    /\ pc' = [pc EXCEPT ![w] = "opened"]
    /\ UNCHANGED <<final, rfd, mu>>

\* From offset 0.  Over another writer's longer text its tail remains.
Fill(w) ==
    /\ pc[w] = "opened"
    /\ data' \in {[data EXCEPT ![fd[w]] = c] :
                    c \in IF data[fd[w]] = "empty" THEN {w} ELSE {w, "torn"}}
    /\ fd' = [fd EXCEPT ![w] = None]
    /\ pc' = [pc EXCEPT ![w] = "written"]
    /\ UNCHANGED <<tmp, final, rfd, mu>>

Unlock == mu' = IF Locked THEN None ELSE mu

\* The disk is full: the error is returned and the temporary file stays.
FillFails(w) ==
    /\ pc[w] = "opened"
    /\ data' = [data EXCEPT ![fd[w]] = "torn"]
    /\ fd' = [fd EXCEPT ![w] = None]
    /\ pc' = [pc EXCEPT ![w] = "idle"]
    /\ Unlock
    /\ UNCHANGED <<tmp, final, rfd>>

\* Mutant: the rename is made whether or not the write was.
RenameReady(w) == pc[w] \in {"opened", "written"}
Ready(w) == pc[w] = "written"

\* It fails when another writer has renamed the temporary file already.
Rename(w) ==
    /\ Ready(w)
    /\ IF tmp # None THEN final' = tmp /\ tmp' = None ELSE UNCHANGED <<final, tmp>>
    /\ fd' = [fd EXCEPT ![w] = None]
    /\ pc' = [pc EXCEPT ![w] = "idle"]
    /\ Unlock
    /\ UNCHANGED <<data, rfd>>

\* os.ReadFile: the open.  It fails while there is no file.
OpenFinal(r) ==
    /\ rfd[r] = None /\ final # None
    /\ rfd' = [rfd EXCEPT ![r] = final]
    /\ UNCHANGED <<tmp, final, data, pc, fd, mu>>

\* os.ReadFile has read to the end.  In between data[rfd[r]] is what it reads.
ReadDone(r) ==
    /\ rfd[r] # None
    /\ rfd' = [rfd EXCEPT ![r] = None]
    /\ UNCHANGED <<tmp, final, data, pc, fd, mu>>

\* The process dies anywhere in between and starts again.
Crash ==
    /\ pc' = [w \in Writers |-> "idle"]
    /\ fd' = [w \in Writers |-> None]
    /\ rfd' = [r \in Readers |-> None]
    /\ mu' = None
    /\ UNCHANGED <<tmp, final, data>>

Save(w) == Begin(w) \/ OpenTmp(w) \/ Fill(w) \/ FillFails(w) \/ Rename(w)

Load(r) == OpenFinal(r) \/ ReadDone(r)

Next ==
    \/ \E w \in Writers : Save(w)
    \/ \E r \in Readers : Load(r)
    \/ Crash

Spec == Init /\ [][Next]_vars

-----------------------------------------------------------------------------
TypeOK ==
    /\ tmp \in Inodes \cup {None} /\ final \in Inodes \cup {None}
    /\ data \in [Inodes -> Contents]
    /\ pc \in [Writers -> {"idle", "begun", "opened", "written"}]
    /\ fd \in [Writers -> Inodes \cup {None}]
    /\ rfd \in [Readers -> Inodes \cup {None}]
    /\ mu \in Writers \cup {None}

\* Whoever reads the file, at any moment and after any crash, reads one whole
\* value, whatever writers do while it reads (jobs.go:117, presets/store.go:143:
\* "atomically").
FinalWhole ==
    /\ final # None => data[final] \in Writers
    /\ \A r \in Readers : rfd[r] # None => data[rfd[r]] \in Writers

At(f) == IF f = None THEN None ELSE data[f]
Reg == INSTANCE Register
         WITH Nothing <- None,
              value   <- At(final),
              writing <- {w \in Writers : pc[w] # "idle"},
              reading <- [r \in Readers |-> At(rfd[r])]

\* Writes and reads behave as if each happened at one instant: a save shows once,
\* between its call and its return, or never if it fails or the process dies; no
\* save publishes another's value; and what a read returns is what the file held
\* when it was opened, although writers go on meanwhile (jobs.go:101-129).
ImplementsRegister == Reg!Spec
=============================================================================
