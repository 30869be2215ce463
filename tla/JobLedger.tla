----------------------------- MODULE JobLedger -----------------------------
(***************************************************************************)
(* What the server promises the browser about a conversion batch, with no  *)
(* word of threads, files or locks: a batch is accepted with every upload  *)
(* pending, uploads are settled one at a time, a retry reopens the failed  *)
(* ones together, and a batch is forgotten once it is done.  The promise   *)
(* ends when a batch is removed while somebody is still at work on it.     *)
(* JobFlow implements it.                                                  *)
(***************************************************************************)
EXTENDS Integers

CONSTANTS
    Jobs,      \* the batches, one for each POST /convert
    MaxFiles   \* the most uploads a batch has

VARIABLES
    ledger,   \* ledger[j]: the card GET /jobs/{j} draws
    lost      \* batches removed while a request or a worker was at them

vars == <<ledger, lost>>

Inputs == 1..MaxFiles
Terminal == {"done", "failed"}
FileStates == Terminal \cup {"absent", "pending"}

\* A batch nobody can ask for: not accepted yet, or forgotten.
Blank == [files |-> [i \in Inputs |-> "absent"], done |-> FALSE]

Cards == [files : [Inputs -> FileStates], done : BOOLEAN]

AllSettled(files) == \A i \in Inputs : files[i] # "pending"

Accept(j) ==
    /\ ledger[j] = Blank
    /\ \E n \in Inputs :
         ledger' = [ledger EXCEPT ![j] =
                      [files |-> [i \in Inputs |-> IF i <= n THEN "pending" ELSE "absent"],
                       done  |-> FALSE]]
    /\ UNCHANGED lost

Settle(j) ==
    \E i \in Inputs, s \in Terminal :
        /\ ledger[j].files[i] = "pending"
        /\ LET files == [ledger[j].files EXCEPT ![i] = s]
           IN  ledger' = [ledger EXCEPT ![j] = [files |-> files, done |-> AllSettled(files)]]
        /\ UNCHANGED lost

\* All the failed uploads reopen at once; those under way keep going.
Reopen(j) ==
    /\ \E i \in Inputs : ledger[j].files[i] = "failed"
    /\ ledger' = [ledger EXCEPT ![j] =
                    [files |-> [i \in Inputs |-> IF ledger[j].files[i] = "failed"
                                                 THEN "pending" ELSE ledger[j].files[i]],
                     done  |-> FALSE]]
    /\ UNCHANGED lost

Remove(j) ==
    /\ ledger' = [ledger EXCEPT ![j] = Blank]
    /\ lost' \in {lost, lost \cup {j}}

Forget(j) == ledger[j].done /\ Remove(j)

(***************************************************************************)
(* The sweeper can also take a batch whose retry has just begun, and with  *)
(* it the pending rows (README, finding 1).  JobFlow's FirstRunKeepsJob    *)
(* says that it takes no other batch that is under way.                    *)
(***************************************************************************)
LoseReopened(j) ==
    /\ ~ledger[j].done
    /\ \E i \in Inputs : ledger[j].files[i] = "pending"
    /\ Remove(j)

\* Whoever was at work on a lost batch may write its status again, and it is
\* polled again.  What the card then says is not promised, but it is one whole
\* card: done exactly when all its rows are settled.
Whole(card) ==
    /\ card \in Cards
    /\ card.done <=> card # Blank /\ AllSettled(card.files)

Stray(j) ==
    /\ \E card \in Cards : Whole(card) /\ ledger' = [ledger EXCEPT ![j] = card]
    /\ UNCHANGED lost

Init == ledger = [j \in Jobs |-> Blank] /\ lost = {}

Next ==
    \E j \in Jobs :
        IF j \in lost
        THEN Stray(j)
        ELSE Accept(j) \/ Settle(j) \/ Reopen(j) \/ Forget(j) \/ LoseReopened(j)

Spec == Init /\ [][Next]_vars
=============================================================================
