------------------------------ MODULE Register ------------------------------
(***************************************************************************)
(* A file that several processes write and read, as if each write and each *)
(* read happened at one instant.  A write takes effect once, between the   *)
(* moment its writer starts and the moment it returns, or never when it    *)
(* fails; a read returns what was there at the instant it opened the file. *)
(* AtomicFile implements it under a lock.                                  *)
(***************************************************************************)
CONSTANTS
    Writers,   \* each writes its own value
    Readers,
    Nothing

VARIABLES
    value,     \* what a read that starts now returns
    writing,   \* the writers whose write has started and has not shown yet
    reading    \* what each read under way is going to return

vars == <<value, writing, reading>>

Init == value = Nothing /\ writing = {} /\ reading = [r \in Readers |-> Nothing]

Start(w) ==
    /\ w \notin writing /\ writing' = writing \cup {w}
    /\ UNCHANGED <<value, reading>>

Write(w) ==
    /\ w \in writing /\ writing' = writing \ {w}
    /\ value' = w
    /\ UNCHANGED reading

Fail(w) ==
    /\ w \in writing /\ writing' = writing \ {w}
    /\ UNCHANGED <<value, reading>>

Open(r) ==
    /\ reading[r] = Nothing /\ reading' = [reading EXCEPT ![r] = value]
    /\ UNCHANGED <<value, writing>>

Return(r) ==
    /\ reading' = [reading EXCEPT ![r] = Nothing]
    /\ UNCHANGED <<value, writing>>

\* A restart ends every read, and every write that has not shown yet never will.
Restart ==
    /\ writing' = {} /\ reading' = [r \in Readers |-> Nothing]
    /\ UNCHANGED value

Next ==
    \/ \E w \in Writers : Start(w) \/ Write(w) \/ Fail(w)
    \/ \E r \in Readers : Open(r) \/ Return(r)
    \/ Restart

Spec == Init /\ [][Next]_vars
=============================================================================
