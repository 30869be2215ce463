--------------------------- MODULE JobFlow_proofs ---------------------------
(***************************************************************************)
(* Theorems about JobFlow, for any number of jobs, retries, uploads and    *)
(* slots, any failing writes and any number of crashes.  In three parts:   *)
(* the ownership of rows; what becomes of a job; the refinement of         *)
(* JobLedger.                                                              *)
(***************************************************************************)
EXTENDS JobFlow, FiniteSetTheorems, TLAPS

-----------------------------------------------------------------------------
(* Part 1: types, the task lock, the slots, and who owns a pending row     *)

\* What the operators on rows and statuses return.
LEMMA RowType == NoRow \in Row /\ Pending \in Row /\ NoRows \in Status
  BY DEF NoRow, Pending, NoRows, Row, States, Status

LEMMA MergeType ==
  ASSUME NEW st \in Status, NEW i \in Inputs, NEW row \in Row
  PROVE  Merge(st, i, row) \in Status
<1>1. AllTerminal([st.rows EXCEPT ![i] = row]) \in BOOLEAN BY DEF AllTerminal
<1>2. [st.rows EXCEPT ![i] = row] \in [Inputs -> Row] BY DEF Status
<1>3. QED BY <1>1, <1>2 DEF Merge, Status

LEMMA ResetType ==
  ASSUME NEW st \in Status
  PROVE  Reset(st) \in Status
<1>1. ASSUME NEW i \in Inputs
      PROVE  [st.rows[i] EXCEPT !.state = "pending"] \in Row /\ st.rows[i] \in Row
  BY DEF Status, Row, States
<1>2. QED BY <1>1 DEF Reset, Status

LEMMA SeedType ==
  ASSUME NEW st \in Status, NEW S
  PROVE  Seeded(st, S) \in Status
<1>1. [i \in Inputs |-> IF i \in S THEN Pending ELSE st.rows[i]] \in [Inputs -> Row]
  BY RowType DEF Status
<1>2. QED BY <1>1 DEF Seeded, Status

LEMMA TypeInit == Init => TypeInv
  BY TasksAssumption, FilesAssumption, FaultsAssumption
     DEF Init, TypeInv, TypeOK, TargetOK, SweepOK, Tasks, Inputs, Status, Row, NoRows, NoRow, States

LEMMA TypeNext ==
  ASSUME TypeInv, [Next]_vars
  PROVE  TypeInv'
<1>. USE TasksAssumption, FilesAssumption, FaultsAssumption
<1>. USE DEF TypeInv, TypeOK, TargetOK, SweepOK, disk, Workers, Sweeper, Tasks, Goto
<1>1. ASSUME NEW j \in Jobs, ConvertStep(j) PROVE TypeInv'
  <2>1. CASE Refuse(j) BY <2>1 DEF Refuse
  <2>2. CASE MakeTree(j) BY <2>2 DEF MakeTree
  <2>3. CASE InitStatus(j) BY <2>3, RowType DEF InitStatus
  <2>4. CASE StoreInputs(j) BY <2>4 DEF StoreInputs, Inputs
  <2>5. CASE Seed(j) BY <2>5, SeedType DEF Seed
  <2>6. QED BY <1>1, <2>1, <2>2, <2>3, <2>4, <2>5 DEF ConvertStep
<1>2. ASSUME NEW r \in Retries, RetryStep(r) PROVE TypeInv'
  <2>1. CASE RetryOpen(r) BY <2>1 DEF RetryOpen
  <2>2. CASE RetryConfig(r) BY <2>2 DEF RetryConfig, Touch
  <2>3. CASE RetryReset(r) BY <2>3, ResetType DEF RetryReset, FailedOf
  <2>4. CASE RetrySave(r) BY <2>4, RowType DEF RetrySave, SaveSnap, Unlock
  <2>5. QED BY <1>2, <2>1, <2>2, <2>3, <2>4 DEF RetryStep
<1>3. ASSUME NEW t \in Tasks, TaskStep(t) PROVE TypeInv'
  <2>1. CASE Launch(t) BY <2>1 DEF Launch
  <2>2. CASE Answer(t) BY <2>2 DEF Answer
  <2>3. CASE Acquire(t) BY <2>3 DEF Acquire, Touch, JobOf
  <2>4. CASE FbcSucceeds(t) BY <2>4 DEF FbcSucceeds, Release, ExitZero, JobOf, Row, States
  <2>5. CASE FbcFails(t) BY <2>5 DEF FbcFails, Release, JobOf, Row, States
  <2>6. CASE Record(t)
    <3>1. PICK i \in todo[t] : \/ Advance(t, i) /\ UNCHANGED <<mu, snap>>
                              \/ /\ JobOf(t) \in saved
                                 /\ mu' = t /\ snap' = Merge(status[JobOf(t)], i, result[t])
                                 /\ wpc' = [wpc EXCEPT ![t] = "merging"]
                                 /\ UNCHANGED <<todo, result>>
      BY <2>6 DEF Record
    <3>2. UNCHANGED <<disk, hpc, target, sem, Sweeper, raced, crashes>> BY <2>6 DEF Record
    <3>3. JobOf(t) \in saved => Merge(status[JobOf(t)], i, result[t]) \in Status BY MergeType
    <3>4. target[t] # None \/ t \in Jobs BY <2>6 DEF Record
    <3>5. QED BY <3>1, <3>2, <3>3, <3>4, RowType DEF Advance
  <2>7. CASE RecordSaves(t)
        BY <2>7, RowType DEF RecordSaves, Advance, SaveSnap, Unlock, JobOf
  <2>8. QED BY <1>3, <2>1, <2>2, <2>3, <2>4, <2>5, <2>6, <2>7 DEF TaskStep
<1>4. ASSUME SweeperStep PROVE TypeInv'
  <2>1. CASE SweepLoad BY <2>1 DEF SweepLoad
  <2>2. CASE SweepRemove BY <2>2, RowType DEF SweepRemove
  <2>3. ASSUME NEW j \in Jobs, Age(j) PROVE TypeInv' BY <2>3 DEF Age
  <2>4. ASSUME NEW j \in Jobs, SweepAge(j) PROVE TypeInv' BY <2>4 DEF SweepAge
  <2>5. QED BY <1>4, <2>1, <2>2, <2>3, <2>4 DEF SweeperStep
<1>5. CASE Crash BY <1>5, RowType DEF Crash, Open
<1>6. CASE Quiescent \/ UNCHANGED vars BY <1>6 DEF Quiescent, vars
<1>7. QED BY <1>1, <1>2, <1>3, <1>4, <1>5, <1>6 DEF Next

\* Every variable of the flow keeps its type.
THEOREM TypeCorrect == Spec => []TypeOK
<1>1. TypeInv => TypeOK BY DEF TypeInv
<1>2. QED BY TypeInit, TypeNext, <1>1, PTL DEF Spec

-----------------------------------------------------------------------------
\* What a merge, a reset and a seeding do to the rows and to Done.
LEMMA MergeRows ==
  ASSUME NEW st \in Status, NEW i \in Inputs, NEW row \in Row
  PROVE  /\ \A k \in Inputs : Merge(st, i, row).rows[k] = IF k = i THEN row ELSE st.rows[k]
         /\ Merge(st, i, row).done <=> AllTerminal(Merge(st, i, row).rows)
  BY DEF Merge, Status

LEMMA ResetRows ==
  ASSUME NEW st \in Status
  PROVE  /\ \A k \in Inputs : IF st.rows[k].state = "failed"
                             THEN Reset(st).rows[k].state = "pending"
                             ELSE Reset(st).rows[k] = st.rows[k]
         /\ FailedOf(st.rows) # {} => (Reset(st).done <=> AllTerminal(Reset(st).rows))
<1>1. \A k \in Inputs : IF st.rows[k].state = "failed"
                       THEN Reset(st).rows[k].state = "pending"
                       ELSE Reset(st).rows[k] = st.rows[k]
  <2>1. \A k \in Inputs : st.rows[k] \in Row BY DEF Status
  <2>2. QED BY <2>1 DEF Reset, Row
<1>2. Reset(st).done = FALSE BY DEF Reset
<1>3. FailedOf(st.rows) # {} => ~AllTerminal(Reset(st).rows)
  BY <1>1 DEF FailedOf, AllTerminal, Present
<1>4. QED BY <1>1, <1>2, <1>3

LEMMA SeededRows ==
  ASSUME NEW S \in SUBSET Inputs, S # {}
  PROVE  /\ \A k \in S : Seeded(NoRows, S).rows[k].state = "pending"
         /\ Seeded(NoRows, S).done <=> AllTerminal(Seeded(NoRows, S).rows)
<1>1. \A k \in S : Seeded(NoRows, S).rows[k].state = "pending"
  BY DEF Seeded, NoRows, Pending
<1>2. Seeded(NoRows, S).done = FALSE BY DEF Seeded, NoRows
<1>3. ~AllTerminal(Seeded(NoRows, S).rows) BY <1>1 DEF AllTerminal, Present
<1>4. QED BY <1>1, <1>2, <1>3

LEMMA BlankRows ==
  /\ NoRows.done <=> AllTerminal(NoRows.rows)
  /\ \A i \in Inputs : NoRows.rows[i].state = "absent"
  BY DEF NoRows, NoRow, AllTerminal, Present

-----------------------------------------------------------------------------
\* The inductive invariant, action by action.
LEMMA IInvInit == Init => IInv
<1>1. ASSUME Init PROVE IInv
  <2>1. TypeInv BY <1>1, TypeInit
  <2>2. Cardinality({}) = 0 /\ IsFiniteSet({}) BY FS_EmptySet
  <2>3. Slots \in Int /\ Slots >= 1 BY ConcurrencyAssumption DEF Slots
  <2>4. SlotDiscipline /\ IsFiniteSet(sem) BY <1>1, <2>2, <2>3 DEF Init, SlotDiscipline
  <2>5. PhaseOK /\ LockOK /\ OwnedPending /\ SnapOK /\ OneConverterPerInput /\ DoneIffTerminal
    BY <1>1, TasksAssumption
       DEF Init, PhaseOK, LockOK, OwnedPending, SnapOK, OneConverterPerInput, DoneIffTerminal,
           Tasks
  <2>6. QED BY <2>1, <2>4, <2>5 DEF IInv
<1>2. QED BY <1>1

LEMMA ConvertKeepsIInv ==
  ASSUME IInv, TypeInv', NEW j \in Jobs, ConvertStep(j)
  PROVE  IInv'
<1>. USE TasksAssumption DEF IInv, TypeInv, TypeOK, Tasks, disk, Workers, Sweeper, Goto
<1>. USE DEF JobOf, Using
<1>1. CASE Refuse(j) \/ MakeTree(j) \/ StoreInputs(j)
  <2>1. /\ \/ hpc[j] = "new" /\ hpc'[j] \in {"made", "refused"}
           \/ hpc[j] = "created" /\ hpc'[j] \in {"refused", "stored"}
        /\ hpc' = [hpc EXCEPT ![j] = hpc'[j]]
        /\ UNCHANGED <<wpc, todo, target, saved, status, snap, mu, sem>>
    BY <1>1 DEF Refuse, MakeTree, StoreInputs
  <2>2. hpc'[j] = "stored" => stored'[j] # {}
    <3>1. \A n \in 0..MaxFiles : n > 0 => 1 \in 1..n BY FilesAssumption
    <3>2. CASE StoreInputs(j)
      <4>1. PICK n \in 0..MaxFiles :
              /\ stored' = [stored EXCEPT ![j] = 1..n]
              /\ \/ n > 0 /\ Goto(j, "stored")
                 \/ n < MaxFiles /\ MayFail("inputs") /\ Goto(j, "refused")
        BY <3>2 DEF StoreInputs
      <4>2. QED BY <3>1, <4>1
    <3>3. CASE Refuse(j) \/ MakeTree(j) BY <3>3 DEF Refuse, MakeTree
    <3>4. QED BY <1>1, <3>2, <3>3
  <2>3. \A k \in Jobs \ {j} : stored'[k] = stored[k]
    BY <1>1 DEF Refuse, MakeTree, StoreInputs
  <2>4. PhaseOK' BY <2>1, <2>2, <2>3 DEF PhaseOK
  <2>5. LockOK' BY <2>1 DEF LockOK
  <2>6. OwnedPending' BY <2>1 DEF OwnedPending, PhaseOK
  <2>7. SnapOK' BY <2>1 DEF SnapOK, IsNext
  <2>8. (OneConverterPerInput /\ DoneIffTerminal /\ SlotDiscipline /\ IsFiniteSet(sem))'
    BY <2>1 DEF OneConverterPerInput, DoneIffTerminal, SlotDiscipline
  <2>9. QED BY <2>1, <2>4, <2>5, <2>6, <2>7, <2>8
<1>2. CASE InitStatus(j)
  <2>1. /\ hpc[j] = "made" /\ hpc'[j] \in {"created", "refused"}
        /\ hpc' = [hpc EXCEPT ![j] = hpc'[j]]
        /\ j \notin saved /\ todo[j] = {} /\ wpc[j] = "off"
        /\ \/ UNCHANGED <<saved, status>>
           \/ saved' = saved \cup {j} /\ status' = [status EXCEPT ![j] = NoRows]
        /\ UNCHANGED <<wpc, todo, target, snap, mu, sem>>
    BY <1>2 DEF InitStatus, PhaseOK
  <2>2. \A t \in Tasks : JobOf(t) = j => t = j BY <2>1 DEF PhaseOK
  <2>3. PhaseOK' BY <1>2, <2>1 DEF PhaseOK, InitStatus
  <2>4. LockOK' BY <2>1 DEF LockOK
  <2>5. OwnedPending' BY <2>1, <2>2 DEF OwnedPending, PhaseOK
  <2>6. SnapOK'
    <3>1. mu # j BY <2>1 DEF LockOK
    <3>2. mu # None => JobOf(mu) # j BY <2>2, <3>1
    <3>3. QED BY <2>1, <3>2 DEF SnapOK, IsNext
  <2>7. DoneIffTerminal' BY <2>1, BlankRows DEF DoneIffTerminal
  <2>8. (OneConverterPerInput /\ SlotDiscipline /\ IsFiniteSet(sem))'
    BY <2>1 DEF OneConverterPerInput, SlotDiscipline
  <2>9. QED BY <2>3, <2>4, <2>5, <2>6, <2>7, <2>8
<1>3. CASE Seed(j)
  <2>1. /\ hpc[j] = "stored" /\ hpc'[j] \in {"seeded", "refused"}
        /\ hpc' = [hpc EXCEPT ![j] = hpc'[j]]
        /\ todo[j] = {} /\ wpc[j] = "off"
        /\ \/ UNCHANGED <<status, todo>>
           \/ /\ j \in saved /\ hpc'[j] = "seeded"
              /\ status[j] = NoRows /\ stored[j] # {}
              /\ status' = [status EXCEPT ![j] = Seeded(NoRows, stored[j])]
              /\ todo' = [todo EXCEPT ![j] = stored[j]]
        /\ UNCHANGED <<wpc, target, saved, stored, snap, mu, sem>>
    BY <1>3 DEF Seed, PhaseOK
  <2>2. \A t \in Tasks : JobOf(t) = j => t = j BY <2>1 DEF PhaseOK
  <2>3. /\ \A k \in stored[j] : stored[j] # {} => Seeded(NoRows, stored[j]).rows[k].state = "pending"
        /\ stored[j] # {} => (Seeded(NoRows, stored[j]).done <=> AllTerminal(Seeded(NoRows, stored[j]).rows))
    BY SeededRows
  <2>4. PhaseOK' BY <2>1 DEF PhaseOK
  <2>5. LockOK' BY <2>1 DEF LockOK
  <2>6. OwnedPending' BY <2>1, <2>2, <2>3 DEF OwnedPending, PhaseOK
  <2>7. SnapOK'
    <3>1. mu # j BY <2>1 DEF LockOK
    <3>2. mu # None => JobOf(mu) # j BY <2>2, <3>1
    <3>3. QED BY <2>1, <3>2 DEF SnapOK, IsNext
  <2>8. DoneIffTerminal' BY <2>1, <2>3 DEF DoneIffTerminal
  <2>9. OneConverterPerInput' BY <2>1, <2>2 DEF OneConverterPerInput
  <2>10. (SlotDiscipline /\ IsFiniteSet(sem))' BY <2>1 DEF SlotDiscipline
  <2>11. QED BY <2>4, <2>5, <2>6, <2>7, <2>8, <2>9, <2>10
<1>4. QED BY <1>1, <1>2, <1>3 DEF ConvertStep

LEMMA RetryKeepsIInv ==
  ASSUME IInv, TypeInv', NEW r \in Retries, RetryStep(r)
  PROVE  IInv'
<1>. USE TasksAssumption DEF IInv, TypeInv, TypeOK, Tasks, disk, Workers, Sweeper, Goto
<1>. USE DEF JobOf, Using
<1>1. CASE RetryOpen(r)
  <2>1. PICK j \in Jobs :
          /\ hpc[r] = "new" /\ hpc[j] = "answered"
          /\ target' = [target EXCEPT ![r] = j]
          /\ hpc'[r] \in {"found", "refused"} /\ hpc' = [hpc EXCEPT ![r] = hpc'[r]]
          /\ UNCHANGED <<wpc, todo, saved, status, stored, snap, mu, sem>>
    BY <1>1 DEF RetryOpen
  <2>2. todo[r] = {} /\ mu # r /\ wpc[r] = "off" BY <2>1 DEF PhaseOK, LockOK
  <2>3. PhaseOK' BY <2>1, <2>2 DEF PhaseOK
  <2>4. LockOK' BY <2>1 DEF LockOK
  <2>5. OwnedPending' BY <2>1, <2>2 DEF OwnedPending
  <2>6. SnapOK' BY <2>1, <2>2 DEF SnapOK, IsNext
  <2>7. OneConverterPerInput' BY <2>1, <2>2 DEF OneConverterPerInput
  <2>8. (DoneIffTerminal /\ SlotDiscipline /\ IsFiniteSet(sem))'
    BY <2>1 DEF DoneIffTerminal, SlotDiscipline
  <2>9. QED BY <2>3, <2>4, <2>5, <2>6, <2>7, <2>8
<1>2. CASE RetryConfig(r)
  <2>1. /\ hpc[r] = "found" /\ hpc'[r] \in {"configured", "refused"}
        /\ hpc' = [hpc EXCEPT ![r] = hpc'[r]]
        /\ UNCHANGED <<wpc, todo, target, saved, status, stored, snap, mu, sem>>
    BY <1>2 DEF RetryConfig
  <2>2. PhaseOK' BY <2>1 DEF PhaseOK
  <2>3. LockOK' BY <2>1 DEF LockOK
  <2>4. OwnedPending' BY <2>1 DEF OwnedPending
  <2>5. SnapOK' BY <2>1 DEF SnapOK, IsNext
  <2>6. (OneConverterPerInput /\ DoneIffTerminal /\ SlotDiscipline /\ IsFiniteSet(sem))'
    BY <2>1 DEF OneConverterPerInput, DoneIffTerminal, SlotDiscipline
  <2>7. QED BY <2>2, <2>3, <2>4, <2>5, <2>6
<1>3. CASE RetryReset(r)
  <2>. DEFINE j == target[r]
  <2>1. /\ hpc[r] = "configured" /\ mu = None /\ j \in Jobs /\ todo[r] = {}
        /\ \A t \in Tasks : hpc[t] # "locked" /\ wpc[t] # "merging"
        /\ UNCHANGED <<wpc, target, saved, status, stored, sem>>
    BY <1>3 DEF RetryReset, LockFree, LockOK, PhaseOK, TargetOK
  <2>2. CASE /\ hpc'[r] \in {"refused", "answered"} /\ hpc' = [hpc EXCEPT ![r] = hpc'[r]]
             /\ UNCHANGED <<mu, snap, todo>>
    <3>1. PhaseOK' BY <2>1, <2>2 DEF PhaseOK
    <3>2. LockOK' BY <2>1, <2>2 DEF LockOK
    <3>3. OwnedPending' BY <2>1, <2>2 DEF OwnedPending
    <3>4. SnapOK' BY <2>1, <2>2 DEF SnapOK
    <3>5. (OneConverterPerInput /\ DoneIffTerminal /\ SlotDiscipline /\ IsFiniteSet(sem))'
      BY <2>1, <2>2 DEF OneConverterPerInput, DoneIffTerminal, SlotDiscipline
    <3>6. QED BY <3>1, <3>2, <3>3, <3>4, <3>5
  <2>3. CASE /\ j \in saved /\ FailedOf(status[j].rows) # {}
             /\ hpc' = [hpc EXCEPT ![r] = "locked"] /\ mu' = r
             /\ snap' = Reset(status[j])
             /\ todo' = [todo EXCEPT ![r] = FailedOf(status[j].rows)]
    <3>1. /\ \A k \in Inputs : IF status[j].rows[k].state = "failed"
                               THEN snap'.rows[k].state = "pending"
                               ELSE snap'.rows[k] = status[j].rows[k]
          /\ snap'.done <=> AllTerminal(snap'.rows)
      <4>1. status[j] \in Status BY <2>1
      <4>2. QED BY <2>3, <4>1, ResetRows
    <3>2. \A t \in Tasks : JobOf(t) = j =>
            \A i \in todo[t] : status[j].rows[i].state = "pending"
      BY <2>1, <2>3 DEF OwnedPending
    <3>3. PhaseOK' BY <2>1, <2>3 DEF PhaseOK
    <3>4. LockOK' BY <2>1, <2>3 DEF LockOK
    <3>5. OwnedPending' BY <2>1, <2>3 DEF OwnedPending
    <3>6. SnapOK'
      <4>1. ASSUME NEW t \in Tasks, NEW i \in Inputs, JobOf(t) = j, i \in todo'[t]
            PROVE  snap'.rows[i].state = "pending"
        <5>1. CASE t = r BY <2>3, <3>1, <4>1, <5>1 DEF FailedOf
        <5>2. CASE t # r BY <2>1, <2>3, <3>1, <3>2, <4>1, <5>2
        <5>3. QED BY <5>1, <5>2
      <4>2. \A i \in Inputs : status[j].rows[i].state = "done" => snap'.rows[i] = status[j].rows[i]
        BY <3>1
      <4>3. QED BY <2>1, <2>3, <3>1, <4>1, <4>2 DEF SnapOK
    <3>7. OneConverterPerInput' BY <2>1, <2>3, <3>2 DEF OneConverterPerInput, FailedOf
    <3>8. (DoneIffTerminal /\ SlotDiscipline /\ IsFiniteSet(sem))'
      BY <2>1 DEF DoneIffTerminal, SlotDiscipline
    <3>9. QED BY <3>3, <3>4, <3>5, <3>6, <3>7, <3>8
  <2>4. QED BY <1>3, <2>2, <2>3 DEF RetryReset
<1>4. CASE RetrySave(r)
  <2>. DEFINE j == target[r]
  <2>1. /\ hpc[r] = "locked" /\ mu = r /\ mu' = None /\ j \in Jobs /\ hpc[j] = "answered"
        /\ wpc[r] = "off"
        /\ \A t \in Tasks \ {r} : hpc[t] # "locked" /\ wpc[t] # "merging"
        /\ UNCHANGED <<wpc, target, stored, sem>>
    BY <1>4 DEF RetrySave, Unlock, LockOK, PhaseOK, TargetOK
  <2>2. \/ /\ hpc' = [hpc EXCEPT ![r] = "seeded"] /\ todo' = todo
           /\ saved' = saved \cup {j} /\ status' = [status EXCEPT ![j] = snap]
        \/ /\ hpc' = [hpc EXCEPT ![r] = "refused"] /\ todo' = [todo EXCEPT ![r] = {}]
           /\ UNCHANGED <<saved, status>>
    BY <1>4 DEF RetrySave, SaveSnap
  <2>3. /\ snap.done <=> AllTerminal(snap.rows)
        /\ \A t \in Tasks : JobOf(t) = j =>
             \A i \in todo[t] : snap.rows[i].state = "pending"
    BY <2>1 DEF SnapOK
  <2>4. PhaseOK' BY <2>1, <2>2 DEF PhaseOK
  <2>5. LockOK' BY <2>1, <2>2 DEF LockOK
  <2>6. OwnedPending' BY <2>1, <2>2, <2>3 DEF OwnedPending
  <2>7. SnapOK' BY <2>1 DEF SnapOK
  <2>8. DoneIffTerminal' BY <2>1, <2>2, <2>3 DEF DoneIffTerminal
  <2>9. OneConverterPerInput' BY <2>1, <2>2 DEF OneConverterPerInput
  <2>10. (SlotDiscipline /\ IsFiniteSet(sem))' BY <2>1 DEF SlotDiscipline
  <2>11. QED BY <2>4, <2>5, <2>6, <2>7, <2>8, <2>9, <2>10
<1>5. QED BY <1>1, <1>2, <1>3, <1>4 DEF RetryStep

LEMMA TaskKeepsIInv ==
  ASSUME IInv, TypeInv', NEW t \in Tasks, TaskStep(t)
  PROVE  IInv'
<1>. USE TasksAssumption DEF IInv, TypeInv, TypeOK, Tasks, disk, Workers, Sweeper, Goto
<1>. USE DEF JobOf, Using
<1>1. CASE Launch(t) \/ Answer(t)
  <2>1. /\ \/ /\ hpc[t] = "seeded" /\ hpc'[t] = "launched"
              /\ wpc' = [wpc EXCEPT ![t] = "queued"]
           \/ /\ hpc[t] = "launched" /\ hpc'[t] \in {"answered", "aborted"}
              /\ wpc' = wpc
        /\ hpc' = [hpc EXCEPT ![t] = hpc'[t]]
        /\ UNCHANGED <<todo, target, saved, status, stored, snap, mu, sem>>
    BY <1>1 DEF Launch, Answer
  <2>2. PhaseOK' BY <2>1 DEF PhaseOK
  <2>3. LockOK' BY <2>1 DEF LockOK, PhaseOK
  <2>4. OwnedPending' BY <2>1 DEF OwnedPending
  <2>5. SnapOK' BY <2>1 DEF SnapOK, IsNext, PhaseOK
  <2>6. (OneConverterPerInput /\ DoneIffTerminal)'
    BY <2>1 DEF OneConverterPerInput, DoneIffTerminal
  <2>7. (SlotDiscipline /\ IsFiniteSet(sem))' BY <2>1 DEF SlotDiscipline, PhaseOK
  <2>8. QED BY <2>2, <2>3, <2>4, <2>5, <2>6, <2>7
<1>2. CASE Acquire(t)
  <2>1. /\ wpc[t] = "queued" /\ wpc' = [wpc EXCEPT ![t] = "fbc"]
        /\ Cardinality(sem) < Slots /\ sem' = sem \cup {t} /\ t \notin sem
        /\ UNCHANGED <<hpc, todo, target, saved, status, stored, snap, mu>>
    BY <1>2 DEF Acquire, HasSlot, SlotDiscipline
  <2>2. (PhaseOK /\ LockOK /\ OwnedPending /\ SnapOK /\ OneConverterPerInput /\ DoneIffTerminal)'
    BY <2>1 DEF PhaseOK, LockOK, OwnedPending, SnapOK, IsNext, OneConverterPerInput,
                DoneIffTerminal
  <2>3. IsFiniteSet(sem') /\ Cardinality(sem') = Cardinality(sem) + 1
    BY <2>1, FS_AddElement
  <2>4. Cardinality(sem) \in Nat /\ Slots \in Int
    BY FS_CardinalityType, ConcurrencyAssumption DEF Slots
  <2>5. sem' = {u \in Tasks : wpc'[u] = "fbc"} BY <2>1 DEF SlotDiscipline
  <2>6. SlotDiscipline' BY <2>1, <2>3, <2>4, <2>5 DEF SlotDiscipline, Slots
  <2>7. QED BY <2>2, <2>3, <2>6
<1>3. CASE FbcSucceeds(t) \/ FbcFails(t)
  <2>1. /\ wpc[t] = "fbc" /\ wpc' = [wpc EXCEPT ![t] = "finished"]
        /\ sem' = sem \ {t}
        /\ UNCHANGED <<hpc, todo, target, saved, status, stored, snap, mu>>
    BY <1>3 DEF FbcSucceeds, FbcFails, Release
  <2>2. (PhaseOK /\ LockOK /\ OwnedPending /\ SnapOK /\ OneConverterPerInput /\ DoneIffTerminal)'
    BY <2>1 DEF PhaseOK, LockOK, OwnedPending, SnapOK, IsNext, OneConverterPerInput,
                DoneIffTerminal
  <2>3. t \in sem BY <2>1 DEF SlotDiscipline
  <2>4. IsFiniteSet(sem') /\ Cardinality(sem') = Cardinality(sem) - 1
    BY <2>1, <2>3, FS_RemoveElement
  <2>5. Cardinality(sem) \in Nat /\ Slots \in Int
    BY FS_CardinalityType, ConcurrencyAssumption DEF Slots
  <2>6. sem' = {u \in Tasks : wpc'[u] = "fbc"} BY <2>1 DEF SlotDiscipline
  <2>7. SlotDiscipline' BY <2>4, <2>5, <2>6 DEF SlotDiscipline, Slots
  <2>8. QED BY <2>2, <2>4, <2>7
<1>4. CASE Record(t)
  <2>. DEFINE j == JobOf(t)
  <2>1. PICK i \in todo[t] :
          /\ IsNext(t, i)
          /\ \/ j \notin saved /\ Advance(t, i) /\ UNCHANGED <<mu, snap>>
             \/ /\ j \in saved /\ mu' = t /\ snap' = Merge(status[j], i, result[t])
                /\ wpc' = [wpc EXCEPT ![t] = "merging"] /\ UNCHANGED <<todo, result>>
    BY <1>4 DEF Record
  <2>2. /\ wpc[t] = "finished" /\ mu = None
        /\ \A u \in Tasks : hpc[u] # "locked" /\ wpc[u] # "merging"
        /\ UNCHANGED <<hpc, target, saved, status, stored, sem>>
    BY <1>4 DEF Record, LockFree, LockOK
  <2>3. CASE j \notin saved /\ Advance(t, i) /\ UNCHANGED <<mu, snap>>
    <3>1. /\ todo' = [todo EXCEPT ![t] = todo[t] \ {i}]
          /\ wpc' = [wpc EXCEPT ![t] = IF todo[t] = {i} THEN "off" ELSE "queued"]
      BY <2>3 DEF Advance
    <3>2. PhaseOK' BY <2>2, <3>1 DEF PhaseOK
    <3>3. LockOK' BY <2>2, <2>3, <3>1 DEF LockOK
    <3>4. OwnedPending' BY <2>2, <3>1 DEF OwnedPending
    <3>5. SnapOK' BY <2>2, <2>3 DEF SnapOK
    <3>6. OneConverterPerInput' BY <2>2, <3>1 DEF OneConverterPerInput
    <3>7. (DoneIffTerminal /\ SlotDiscipline /\ IsFiniteSet(sem))'
      BY <2>2, <3>1 DEF DoneIffTerminal, SlotDiscipline
    <3>8. QED BY <3>2, <3>3, <3>4, <3>5, <3>6, <3>7
  <2>4. CASE /\ j \in saved /\ mu' = t /\ snap' = Merge(status[j], i, result[t])
             /\ wpc' = [wpc EXCEPT ![t] = "merging"] /\ UNCHANGED <<todo, result>>
    <3>1. /\ \A k \in Inputs : snap'.rows[k] = IF k = i THEN result[t] ELSE status[j].rows[k]
          /\ snap'.done <=> AllTerminal(snap'.rows)
      <4>1. status[j] \in Status /\ i \in Inputs /\ result[t] \in Row BY <2>4
      <4>2. QED BY <2>4, <4>1, MergeRows
    <3>2. \A u \in Tasks : JobOf(u) = j =>
            \A k \in todo[u] : status[j].rows[k].state = "pending"
      BY <2>2, <2>4 DEF OwnedPending
    <3>3. PhaseOK' BY <2>2, <2>4 DEF PhaseOK
    <3>4. LockOK' BY <2>2, <2>4 DEF LockOK
    <3>5. OwnedPending' BY <2>2, <2>4 DEF OwnedPending
    <3>6. SnapOK'
      <4>1. ASSUME NEW u \in Tasks, NEW k \in Inputs, JobOf(u) = j, k \in todo[u],
                   ~(u = t /\ IsNext(t, k))
            PROVE  snap'.rows[k].state = "pending"
        <5>1. k # i BY <2>1, <4>1 DEF OneConverterPerInput
        <5>2. QED BY <3>1, <3>2, <4>1, <5>1
      <4>2. ASSUME NEW k \in Inputs, status[j].rows[k].state = "done"
            PROVE  snap'.rows[k] = status[j].rows[k]
        BY <3>1, <3>2, <4>2
      <4>3. QED BY <2>2, <2>4, <3>1, <4>1, <4>2 DEF SnapOK, IsNext
    <3>7. (OneConverterPerInput /\ DoneIffTerminal)'
      BY <2>2, <2>4 DEF OneConverterPerInput, DoneIffTerminal
    <3>8. (SlotDiscipline /\ IsFiniteSet(sem))' BY <2>2, <2>4 DEF SlotDiscipline
    <3>9. QED BY <3>3, <3>4, <3>5, <3>6, <3>7, <3>8
  <2>5. QED BY <2>1, <2>3, <2>4
<1>5. CASE RecordSaves(t)
  <2>. DEFINE j == JobOf(t)
  <2>1. PICK i \in todo[t] :
          /\ IsNext(t, i) /\ Advance(t, i)
          /\ SaveSnap(j) \/ UNCHANGED <<saved, status, expired>>
    BY <1>5 DEF RecordSaves
  <2>2. /\ wpc[t] = "merging" /\ mu = t /\ mu' = None
        /\ \A u \in Tasks \ {t} : hpc[u] # "locked" /\ wpc[u] # "merging"
        /\ hpc[t] \in {"launched", "answered", "aborted"}
        /\ UNCHANGED <<hpc, target, stored, sem>>
    BY <1>5 DEF RecordSaves, Unlock, LockOK, PhaseOK
  <2>3. /\ todo' = [todo EXCEPT ![t] = todo[t] \ {i}]
        /\ wpc' = [wpc EXCEPT ![t] = IF todo[t] = {i} THEN "off" ELSE "queued"]
        /\ \/ j \in Jobs /\ saved' = saved \cup {j} /\ status' = [status EXCEPT ![j] = snap]
           \/ UNCHANGED <<saved, status>>
    BY <2>1 DEF Advance, SaveSnap
  <2>4. /\ snap.done <=> AllTerminal(snap.rows)
        /\ \A u \in Tasks : JobOf(u) = j =>
             \A k \in todo'[u] : snap.rows[k].state = "pending"
    <3>1. ASSUME NEW k \in todo'[t] PROVE ~IsNext(t, k) BY <2>1, <2>3 DEF IsNext, Inputs
    <3>2. QED BY <2>2, <2>3, <3>1 DEF SnapOK
  <2>5. j \in Jobs => hpc[j] \in {"launched", "answered", "aborted"} BY <2>2 DEF PhaseOK
  <2>6. PhaseOK' BY <2>2, <2>3, <2>5 DEF PhaseOK
  <2>7. LockOK' BY <2>2, <2>3 DEF LockOK
  <2>8. OwnedPending' BY <2>2, <2>3, <2>4 DEF OwnedPending
  <2>9. SnapOK' BY <2>2 DEF SnapOK
  <2>10. DoneIffTerminal' BY <2>3, <2>4 DEF DoneIffTerminal
  <2>11. OneConverterPerInput' BY <2>2, <2>3 DEF OneConverterPerInput
  <2>12. (SlotDiscipline /\ IsFiniteSet(sem))' BY <2>2, <2>3 DEF SlotDiscipline
  <2>13. QED BY <2>6, <2>7, <2>8, <2>9, <2>10, <2>11, <2>12
<1>6. QED BY <1>1, <1>2, <1>3, <1>4, <1>5 DEF TaskStep

LEMMA RestKeepsIInv ==
  ASSUME IInv, TypeInv', SweeperStep \/ Crash \/ Quiescent \/ UNCHANGED vars
  PROVE  IInv'
<1>. USE TasksAssumption DEF IInv, TypeInv, TypeOK, Tasks, disk, Workers, Sweeper
<1>. USE DEF JobOf, Using
<1>1. CASE \/ \E j \in Jobs : Age(j) \/ SweepAge(j)
           \/ SweepLoad \/ Quiescent \/ UNCHANGED vars
  <2>1. UNCHANGED <<saved, status, stored, hpc, wpc, target, todo, snap, mu, sem>>
    BY <1>1 DEF Age, SweepAge, SweepLoad, Quiescent, vars
  <2>2. (PhaseOK /\ LockOK /\ OwnedPending /\ SnapOK)'
    BY <2>1 DEF PhaseOK, LockOK, OwnedPending, SnapOK, IsNext
  <2>3. (OneConverterPerInput /\ DoneIffTerminal /\ SlotDiscipline /\ IsFiniteSet(sem))'
    BY <2>1 DEF OneConverterPerInput, DoneIffTerminal, SlotDiscipline
  <2>4. QED BY <2>2, <2>3
<1>2. CASE SweepRemove
  <2>1. /\ saved' = saved \ {sweepJob}
        /\ status' = [status EXCEPT ![sweepJob] = NoRows]
        /\ stored' = [stored EXCEPT ![sweepJob] = {}]
        /\ UNCHANGED <<hpc, wpc, target, todo, snap, mu, sem>>
    BY <1>2 DEF SweepRemove
  <2>2. PhaseOK' BY <2>1 DEF PhaseOK
  <2>3. (LockOK /\ OwnedPending)' BY <2>1 DEF LockOK, OwnedPending
  <2>4. SnapOK' BY <2>1 DEF SnapOK, IsNext
  <2>5. (OneConverterPerInput /\ DoneIffTerminal)'
    BY <2>1 DEF OneConverterPerInput, DoneIffTerminal
  <2>6. (SlotDiscipline /\ IsFiniteSet(sem))' BY <2>1 DEF SlotDiscipline
  <2>7. QED BY <2>2, <2>3, <2>4, <2>5, <2>6
<1>3. CASE Crash
  <2>1. /\ hpc' = [t \in Tasks |-> IF Open(t) THEN "aborted" ELSE hpc[t]]
        /\ wpc' = [t \in Tasks |-> "off"] /\ todo' = [t \in Tasks |-> {}]
        /\ mu' = None /\ sem' = {}
        /\ UNCHANGED <<target, saved, status, stored>>
    BY <1>3 DEF Crash
  <2>2. PhaseOK' BY <2>1 DEF PhaseOK, Open
  <2>3. (LockOK /\ OwnedPending /\ SnapOK)' BY <2>1 DEF LockOK, OwnedPending, SnapOK, Open
  <2>4. (OneConverterPerInput /\ DoneIffTerminal)'
    BY <2>1 DEF OneConverterPerInput, DoneIffTerminal
  <2>5. Cardinality({}) = 0 /\ IsFiniteSet({}) BY FS_EmptySet
  <2>6. Slots \in Int /\ Slots >= 1 BY ConcurrencyAssumption DEF Slots
  <2>7. (SlotDiscipline /\ IsFiniteSet(sem))' BY <2>1, <2>5, <2>6 DEF SlotDiscipline, Slots
  <2>8. QED BY <2>2, <2>3, <2>4, <2>7
<1>4. QED BY <1>1, <1>2, <1>3 DEF SweeperStep

LEMMA IInvNext == IInv /\ [Next]_vars => IInv'
<1>1. SUFFICES ASSUME IInv, [Next]_vars PROVE IInv' OBVIOUS
<1>2. TypeInv' BY <1>1, TypeNext DEF IInv
<1>3. QED BY <1>1, <1>2, ConvertKeepsIInv, RetryKeepsIInv, TaskKeepsIInv, RestKeepsIInv
          DEF Next

\* The lock, the rows and who holds what, through failed writes and crashes.
THEOREM IInvAlways == Spec => []IInv
  BY IInvInit, IInvNext, PTL DEF Spec

\* No upload is ever in the hands of two workers, whatever retries are made.
THEOREM OneConverterAlways == Spec => []OneConverterPerInput
<1>1. IInv => OneConverterPerInput BY DEF IInv
<1>2. QED BY IInvAlways, <1>1, PTL

\* Done is up exactly when every row is settled, through failed writes and crashes.
THEOREM DoneFlagCorrect == Spec => []DoneIffTerminal
<1>1. IInv => DoneIffTerminal BY DEF IInv
<1>2. QED BY IInvAlways, <1>1, PTL

\* At most MAX_CONCURRENT workers run fbc, and no token is lost.
THEOREM SlotsRespected == Spec => []SlotDiscipline
<1>1. IInv => SlotDiscipline BY DEF IInv
<1>2. QED BY IInvAlways, <1>1, PTL

\* No step changes a row that says done, in a status that stays readable.
LEMMA DoneRowKept ==
  ASSUME IInv, [Next]_vars, NEW j \in saved, NEW i \in Inputs, j \in saved',
         status[j].rows[i].state = "done"
  PROVE  status'[j].rows[i] = status[j].rows[i]
<1>. USE TasksAssumption DEF IInv, TypeInv, TypeOK, Tasks, disk
<1>1. ASSUME NEW k \in Jobs, ConvertStep(k) PROVE status'[j].rows[i] = status[j].rows[i]
  <2>1. CASE InitStatus(k)
    <3>1. k # j BY <2>1 DEF InitStatus, PhaseOK
    <3>2. QED BY <2>1, <3>1 DEF InitStatus
  <2>2. CASE Seed(k)
    <3>1. k # j BY <2>2, BlankRows DEF Seed, PhaseOK
    <3>2. QED BY <2>2, <3>1 DEF Seed
  <2>3. CASE Refuse(k) \/ MakeTree(k) \/ StoreInputs(k)
    BY <2>3 DEF Refuse, MakeTree, StoreInputs
  <2>4. QED BY <1>1, <2>1, <2>2, <2>3 DEF ConvertStep
<1>2. ASSUME NEW r \in Retries, RetryStep(r) PROVE status'[j].rows[i] = status[j].rows[i]
  <2>1. CASE RetrySave(r) BY <2>1 DEF RetrySave, SaveSnap, LockOK, SnapOK, JobOf
  <2>2. CASE RetryOpen(r) \/ RetryConfig(r) \/ RetryReset(r)
    BY <2>2 DEF RetryOpen, RetryConfig, RetryReset
  <2>3. QED BY <1>2, <2>1, <2>2 DEF RetryStep
<1>3. ASSUME NEW t \in Tasks, TaskStep(t) PROVE status'[j].rows[i] = status[j].rows[i]
  <2>1. CASE RecordSaves(t) BY <2>1 DEF RecordSaves, SaveSnap, LockOK, SnapOK
  <2>2. CASE ~RecordSaves(t)
    BY <1>3, <2>2 DEF TaskStep, Launch, Answer, Acquire, FbcSucceeds, FbcFails, Record
  <2>3. QED BY <2>1, <2>2
<1>4. ASSUME SweeperStep PROVE status'[j].rows[i] = status[j].rows[i]
  BY <1>4 DEF SweeperStep, SweepLoad, SweepRemove, Age, SweepAge
<1>5. CASE Crash \/ Quiescent \/ UNCHANGED vars BY <1>5 DEF Crash, Quiescent, vars
<1>6. QED BY <1>1, <1>2, <1>3, <1>4, <1>5 DEF Next

\* A settled success is never reopened, lost or overwritten while its job lasts.
THEOREM DoneStaysDone == Spec => DoneIsFinal
<1>. DEFINE Keeps == \A j \in saved \cap saved', i \in Inputs :
                        status[j].rows[i].state = "done" =>
                            status'[j].rows[i] = status[j].rows[i]
<1>1. IInv /\ [Next]_vars => [Keeps]_vars BY DoneRowKept
<1>2. QED BY IInvAlways, <1>1, PTL DEF Spec, DoneIsFinal

-----------------------------------------------------------------------------
(* Part 2: what becomes of a job: who settles its rows, what the sweeper   *)
(* may take, what there is to download                                     *)

\* Where a request handler can be, and how a task is told apart.
LEMMA Phases ==
  ASSUME TypeInv
  PROVE  \A t \in Tasks : ~Open(t) <=> hpc[t] \in {"new", "answered", "refused", "aborted"}
  BY DEF Open

\* While a first request is on its way its directory is there and no sweep near it.
LEMMA HoldNext ==
  ASSUME IInv, IInv', HoldOK, [Next]_vars
  PROVE  HoldOK'
<1>. USE TasksAssumption, FaultsAssumption
<1>. USE DEF IInv, TypeInv, TypeOK, Tasks, disk, Workers, Sweeper, Goto, HoldOK, Open
<1>1. ASSUME NEW j \in Jobs, ConvertStep(j) PROVE HoldOK'
  <2>1. CASE Refuse(j) BY <2>1 DEF Refuse
  <2>2. CASE MakeTree(j) BY <2>2 DEF MakeTree
  <2>3. CASE InitStatus(j) BY <2>3 DEF InitStatus
  <2>4. CASE StoreInputs(j) BY <2>4 DEF StoreInputs
  <2>5. CASE Seed(j) BY <2>5 DEF Seed
  <2>6. QED BY <1>1, <2>1, <2>2, <2>3, <2>4, <2>5 DEF ConvertStep
<1>2. ASSUME NEW r \in Retries, RetryStep(r) PROVE HoldOK'
  <2>1. r \notin Jobs OBVIOUS
  <2>2. CASE RetryOpen(r) BY <2>1, <2>2 DEF RetryOpen
  <2>3. CASE RetryConfig(r) BY <2>1, <2>3 DEF RetryConfig, Touch
  <2>4. CASE RetryReset(r) BY <2>1, <2>4 DEF RetryReset
  <2>5. CASE RetrySave(r)
    <3>1. target[r] \in Jobs BY <2>5 DEF RetrySave, TargetOK
    <3>2. QED BY <2>1, <2>5, <3>1 DEF RetrySave, SaveSnap
  <2>6. QED BY <1>2, <2>2, <2>3, <2>4, <2>5 DEF RetryStep
<1>3. ASSUME NEW t \in Tasks, TaskStep(t) PROVE HoldOK'
  <2>1. CASE Launch(t) BY <2>1 DEF Launch
  <2>2. CASE Answer(t) BY <2>2 DEF Answer, JobOf
  <2>3. /\ wpc[t] # "off" => JobOf(t) \in Jobs /\ hpc[JobOf(t)] # "new"
    BY DEF PhaseOK, TargetOK, JobOf
  <2>4. CASE Acquire(t) BY <2>3, <2>4 DEF Acquire, Touch
  <2>5. CASE FbcSucceeds(t) BY <2>3, <2>5 DEF FbcSucceeds, Release
  <2>6. CASE FbcFails(t) BY <2>6 DEF FbcFails, Release
  <2>7. CASE Record(t) BY <2>7 DEF Record
  <2>8. CASE RecordSaves(t) BY <2>3, <2>8 DEF RecordSaves, SaveSnap
  <2>9. QED BY <1>3, <2>1, <2>2, <2>4, <2>5, <2>6, <2>7, <2>8 DEF TaskStep
<1>4. ASSUME SweeperStep PROVE HoldOK'
  <2>1. CASE SweepLoad BY <2>1 DEF SweepLoad
  <2>2. CASE SweepRemove BY <2>2, Phases DEF SweepRemove, SweepOK
  <2>3. ASSUME NEW j \in Jobs, Age(j) PROVE HoldOK' BY <2>3 DEF Age, JobOf
  <2>4. ASSUME NEW j \in Jobs, SweepAge(j) PROVE HoldOK' BY <2>4 DEF SweepAge
  <2>5. QED BY <1>4, <2>1, <2>2, <2>3, <2>4 DEF SweeperStep
<1>5. CASE Crash BY <1>5 DEF Crash
<1>6. CASE Quiescent \/ UNCHANGED vars BY <1>6 DEF Quiescent, vars
<1>7. QED BY <1>1, <1>2, <1>3, <1>4, <1>5, <1>6 DEF Next

\* A worker has something to do, its result is settled, and until a retry comes the
\* sweeper does not take its job.
LEMMA WorkNext ==
  ASSUME IInv, IInv', HoldOK, HoldOK', WorkOK, [Next]_vars
  PROVE  WorkOK'
<1>. USE TasksAssumption
<1>. USE DEF IInv, TypeInv, TypeOK, Tasks, disk, Workers, Sweeper, Goto, WorkOK
<1>1. ASSUME NEW j \in Jobs, ConvertStep(j) PROVE WorkOK'
  <2>1. wpc[j] = "off"
    BY <1>1 DEF ConvertStep, Refuse, MakeTree, InitStatus, StoreInputs, Seed, PhaseOK
  <2>2. CASE Refuse(j) \/ MakeTree(j) \/ StoreInputs(j)
    BY <2>1, <2>2 DEF Refuse, MakeTree, StoreInputs
  <2>3. CASE InitStatus(j) BY <2>1, <2>3 DEF InitStatus
  <2>4. CASE Seed(j) BY <2>1, <2>4 DEF Seed, PhaseOK
  <2>5. QED BY <1>1, <2>2, <2>3, <2>4 DEF ConvertStep
<1>2. ASSUME NEW r \in Retries, RetryStep(r) PROVE WorkOK'
  <2>1. r \notin Jobs OBVIOUS
  <2>2. CASE RetryOpen(r)
    <3>1. PICK j \in Jobs : target' = [target EXCEPT ![r] = j]
      BY <2>2 DEF RetryOpen
    <3>2. target[r] = None
      BY <2>2 DEF RetryOpen
    <3>3. QED BY <2>1, <2>2, <3>1, <3>2 DEF RetryOpen
  <2>3. CASE RetryConfig(r) BY <2>1, <2>3 DEF RetryConfig
  <2>4. CASE RetryReset(r) BY <2>1, <2>4 DEF RetryReset
  <2>5. CASE RetrySave(r)
    <3>1. hpc[r] = "locked" BY <2>5 DEF RetrySave
    <3>2. \A j \in Jobs : wpc'[j] = wpc[j] /\ (j \in saved => j \in saved')
      BY <2>5 DEF RetrySave, SaveSnap
    <3>3. \A t \in Tasks : t # r => todo'[t] = todo[t] /\ hpc'[t] = hpc[t]
      BY <2>5 DEF RetrySave
    <3>4. UNCHANGED <<wpc, result, target, sweepPc, sweepJob>> BY <2>5 DEF RetrySave
    <3>5. hpc'[r] = "seeded" => todo'[r] # {} BY <2>5 DEF RetrySave
    <3>6. hpc'[r] # "locked" BY <2>5 DEF RetrySave
    <3>7. wpc[r] = "off" BY <3>1 DEF PhaseOK
    <3>8. hpc'[r] # "new" BY <2>5 DEF RetrySave
    <3>9. QED BY <2>1, <3>2, <3>3, <3>4, <3>5, <3>6, <3>7, <3>8
  <2>6. QED BY <1>2, <2>2, <2>3, <2>4, <2>5 DEF RetryStep
<1>3. ASSUME NEW t \in Tasks, TaskStep(t) PROVE WorkOK'
  <2>1. CASE Launch(t) BY <2>1 DEF Launch, HoldOK, Open
  <2>2. CASE Answer(t) BY <2>2 DEF Answer
  <2>3. CASE Acquire(t) BY <2>3 DEF Acquire
  <2>4. CASE FbcSucceeds(t) BY <2>4 DEF FbcSucceeds, Release, ExitZero
  <2>5. CASE FbcFails(t) BY <2>5 DEF FbcFails, Release
  <2>6. CASE Record(t) BY <2>6 DEF Record, Advance, PhaseOK
  <2>7. CASE RecordSaves(t) BY <2>7 DEF RecordSaves, Advance, SaveSnap, PhaseOK
  <2>8. QED BY <1>3, <2>1, <2>2, <2>3, <2>4, <2>5, <2>6, <2>7 DEF TaskStep
<1>4. ASSUME SweeperStep PROVE WorkOK'
  <2>1. CASE SweepLoad
    <3>1. ASSUME NEW j \in Jobs, wpc[j] # "off", j \in saved PROVE ~status[j].done
      <4>1. PICK i \in todo[j] : TRUE BY <3>1
      <4>2. status[j].rows[i].state = "pending" /\ i \in Inputs
        BY <3>1, <4>1 DEF OwnedPending, JobOf, PhaseOK
      <4>3. QED BY <3>1, <4>2 DEF DoneIffTerminal, AllTerminal, Present
    <3>2. QED BY <2>1, <3>1 DEF SweepLoad, Condemned
  <2>2. CASE SweepRemove BY <2>2 DEF SweepRemove
  <2>3. ASSUME NEW j \in Jobs, Age(j) PROVE WorkOK' BY <2>3 DEF Age
  <2>4. ASSUME NEW j \in Jobs, SweepAge(j) PROVE WorkOK' BY <2>4 DEF SweepAge
  <2>5. QED BY <1>4, <2>1, <2>2, <2>3, <2>4 DEF SweeperStep
<1>5. CASE Crash BY <1>5 DEF Crash, Open
<1>6. CASE Quiescent \/ UNCHANGED vars BY <1>6 DEF Quiescent, vars
<1>7. QED BY <1>1, <1>2, <1>3, <1>4, <1>5, <1>6 DEF Next

\* A merge of a settled row, a reset of failed rows and a seeding leave rows.
LEMMA MergePresent ==
  ASSUME NEW st \in Status, NEW i \in Inputs, NEW row \in Row, row.state \in {"done", "failed"}
  PROVE  Present(Merge(st, i, row).rows) # {}
<1>1. Merge(st, i, row).rows[i] = row BY MergeRows
<1>2. QED BY <1>1 DEF Present

LEMMA ResetPresent ==
  ASSUME NEW st \in Status, FailedOf(st.rows) # {}
  PROVE  Present(Reset(st).rows) # {}
<1>1. PICK i \in FailedOf(st.rows) : TRUE OBVIOUS
<1>2. i \in Inputs /\ Reset(st).rows[i].state = "pending" BY <1>1, ResetRows DEF FailedOf
<1>3. QED BY <1>2 DEF Present

LEMMA SeedPresent ==
  ASSUME NEW S \in SUBSET Inputs, S # {}
  PROVE  Present(Seeded(NoRows, S).rows) # {}
  BY SeededRows DEF Present

LEMMA RowsNext ==
  ASSUME IInv, IInv', HoldOK, WorkOK, RowsOK, [Next]_vars
  PROVE  RowsOK'
<1>. USE TasksAssumption
<1>. USE DEF IInv, TypeInv, TypeOK, Tasks, disk, Workers, Sweeper, Goto, RowsOK
<1>1. ASSUME NEW j \in Jobs, ConvertStep(j) PROVE RowsOK'
  <2>1. CASE Refuse(j) \/ MakeTree(j) \/ StoreInputs(j)
    <3>1. UNCHANGED <<saved, status, mu, snap>>
      BY ONLY <2>1 DEF Refuse, MakeTree, StoreInputs, disk
    <3>2. \A k \in Jobs : hpc'[k] \in {"seeded", "launched", "answered"} => hpc'[k] = hpc[k]
      BY <2>1 DEF Refuse, MakeTree, StoreInputs
    <3>3. QED BY ONLY RowsOK, <3>1, <3>2, saved \in SUBSET Jobs DEF RowsOK
  <2>2. CASE InitStatus(j)
    <3>1. saved' \subseteq saved \cup {j} /\ UNCHANGED <<mu, snap>>
          /\ \A k \in Jobs \ {j} : status'[k] = status[k] /\ hpc'[k] = hpc[k]
      BY <2>2 DEF InitStatus
    <3>2. hpc'[j] \in {"created", "refused"} BY <2>2 DEF InitStatus
    <3>3. QED BY ONLY RowsOK, <3>1, <3>2, saved \in SUBSET Jobs DEF RowsOK
  <2>3. CASE Seed(j)
    <3>1. CASE j \in saved /\ status' = [status EXCEPT ![j] = Seeded(status[j], stored[j])]
      <4>1. status[j] = NoRows /\ stored[j] # {} /\ stored[j] \subseteq Inputs
        BY <2>3, <3>1 DEF Seed, PhaseOK
      <4>2. Present(status'[j].rows) # {} BY <3>1, <4>1, SeedPresent
      <4>3. QED BY <2>3, <3>1, <4>2 DEF Seed
    <3>2. CASE hpc'[j] = "refused" /\ UNCHANGED status BY <2>3, <3>2 DEF Seed
    <3>3. QED BY <2>3, <3>1, <3>2 DEF Seed
  <2>4. QED BY <1>1, <2>1, <2>2, <2>3 DEF ConvertStep
<1>2. ASSUME NEW r \in Retries, RetryStep(r) PROVE RowsOK'
  <2>1. r \notin Jobs OBVIOUS
  <2>2. CASE RetryOpen(r) \/ RetryConfig(r)
    <3>1. UNCHANGED <<saved, status, mu, snap>>
      BY ONLY <2>2 DEF RetryOpen, RetryConfig, disk
    <3>2. \A k \in Jobs : hpc'[k] = hpc[k] BY <2>1, <2>2 DEF RetryOpen, RetryConfig
    <3>3. QED BY ONLY RowsOK, <3>1, <3>2, saved \in SUBSET Jobs DEF RowsOK
  <2>3. CASE RetryReset(r)
    <3>1. hpc[r] = "configured" BY <2>3 DEF RetryReset
    <3>2. target[r] \in Jobs BY <3>1 DEF TargetOK
    <3>3. status[target[r]] \in Status BY <3>2
    <3>4. FailedOf(status[target[r]].rows) # {} => Present(Reset(status[target[r]]).rows) # {}
      BY <3>3, ResetPresent
    <3>5. \/ UNCHANGED <<mu, snap>>
          \/ /\ FailedOf(status[target[r]].rows) # {}
             /\ snap' = Reset(status[target[r]])
      BY <2>3 DEF RetryReset
    <3>6. UNCHANGED <<saved, status>> /\ \A j \in Jobs : hpc'[j] = hpc[j]
      BY <2>1, <2>3 DEF RetryReset
    <3>7. QED BY <3>4, <3>5, <3>6
  <2>4. CASE RetrySave(r)
    <3>1. hpc[r] = "locked" /\ mu' = None BY <2>4 DEF RetrySave, Unlock
    <3>2. mu = r BY <3>1 DEF LockOK
    <3>3. Present(snap.rows) # {} BY <3>2
    <3>4. target[r] \in Jobs BY <3>1 DEF TargetOK
    <3>5. \/ UNCHANGED <<saved, status>>
          \/ saved' = saved \cup {target[r]} /\ status' = [status EXCEPT ![target[r]] = snap]
      BY <2>4 DEF RetrySave, SaveSnap
    <3>6. \A j \in Jobs : hpc'[j] = hpc[j] BY <2>1, <2>4 DEF RetrySave
    <3>7. QED BY <3>1, <3>3, <3>4, <3>5, <3>6
  <2>5. QED BY <1>2, <2>2, <2>3, <2>4 DEF RetryStep
<1>3. ASSUME NEW t \in Tasks, TaskStep(t) PROVE RowsOK'
  <2>1. CASE Launch(t) BY <2>1 DEF Launch
  <2>2. CASE Answer(t) BY <2>2 DEF Answer
  <2>3. CASE Acquire(t) \/ FbcSucceeds(t) \/ FbcFails(t)
    BY <2>3 DEF Acquire, FbcSucceeds, FbcFails
  <2>4. CASE Record(t)
    <3>1. PICK i \in todo[t] : UNCHANGED <<mu, snap>>
              \/ /\ JobOf(t) \in saved
                 /\ snap' = Merge(status[JobOf(t)], i, result[t])
      BY <2>4 DEF Record
    <3>2. JobOf(t) \in saved => Present(Merge(status[JobOf(t)], i, result[t]).rows) # {}
      BY <2>4, MergePresent DEF Record, WorkOK
    <3>3. QED BY <2>4, <3>1, <3>2 DEF Record
  <2>5. CASE RecordSaves(t) BY <2>5 DEF RecordSaves, SaveSnap, Unlock, LockOK
  <2>6. QED BY <1>3, <2>1, <2>2, <2>3, <2>4, <2>5 DEF TaskStep
<1>4. CASE SweeperStep
  BY <1>4 DEF SweeperStep, SweepLoad, SweepRemove, Age, SweepAge
<1>5. CASE Crash BY <1>5 DEF Crash, Open
<1>6. CASE Quiescent \/ UNCHANGED vars BY <1>6 DEF Quiescent, vars
<1>7. QED BY <1>1, <1>2, <1>3, <1>4, <1>5, <1>6 DEF Next

-----------------------------------------------------------------------------
\* Pending rows of a merge, a reset and a seeding.
LEMMA MergePending ==
  ASSUME NEW st \in Status, NEW i \in Inputs, NEW row \in Row, row.state \in {"done", "failed"},
         NEW k \in Inputs, Merge(st, i, row).rows[k].state = "pending"
  PROVE  k # i /\ st.rows[k].state = "pending"
  BY MergeRows

LEMMA ResetPending ==
  ASSUME NEW st \in Status, NEW k \in Inputs, Reset(st).rows[k].state = "pending"
  PROVE  k \in FailedOf(st.rows) \/ st.rows[k].state = "pending"
  BY ResetRows DEF FailedOf

LEMMA SeedPending ==
  ASSUME NEW S \in SUBSET Inputs, NEW k \in Inputs, Seeded(NoRows, S).rows[k].state = "pending"
  PROVE  k \in S
  BY DEF Seeded, NoRows, NoRow

\* An owner of the row in the status the lock holder is about to save.
Owns(t, i) ==
    /\ JobOf(t) = JobOf(mu) /\ i \in todo[t]
    /\ ~(t = mu /\ wpc[t] = "merging" /\ IsNext(t, i))

\* With no crash and no lost write, a pending row stays somebody's to settle.
LEMMA OwnersNext ==
  ASSUME IInv, IInv', HoldOK, HoldOK', WorkOK, OwnersOK, [Next]_vars,
         ~MayFail("update"), crashes = 0, crashes' = 0
  PROVE  OwnersOK'
<1>. USE TasksAssumption
<1>. USE DEF IInv, TypeInv, TypeOK, Tasks, disk, Workers, Sweeper, Goto
<1>. DEFINE DiskOK == \A j \in saved, i \in Inputs : status[j].rows[i].state = "pending" =>
                        \E t \in Tasks : JobOf(t) = j /\ i \in todo[t] /\ hpc[t] # "locked"
            LockedOK == mu # None => \A i \in Inputs : snap.rows[i].state = "pending" =>
                        \E t \in Tasks : Owns(t, i)
<1>0. (OwnersOK <=> DiskOK /\ LockedOK) /\ (OwnersOK' <=> DiskOK' /\ LockedOK')
  BY DEF OwnersOK, Owns
<1>1. ASSUME NEW j \in Jobs, ConvertStep(j) PROVE OwnersOK'
  <2>1. CASE Refuse(j) \/ MakeTree(j) \/ StoreInputs(j)
    <3>1. /\ hpc' = [hpc EXCEPT ![j] = hpc'[j]] /\ hpc'[j] # "locked"
          /\ UNCHANGED <<wpc, target, todo, snap, mu, saved, status>>
      BY <2>1 DEF Refuse, MakeTree, StoreInputs
    <3>2. DiskOK' BY <1>0, <3>1 DEF JobOf
    <3>3. LockedOK' BY <1>0, <3>1 DEF JobOf, Owns, IsNext
    <3>4. QED BY <1>0, <3>2, <3>3
  <2>2. CASE InitStatus(j)
    <3>1. /\ hpc' = [hpc EXCEPT ![j] = hpc'[j]] /\ hpc'[j] # "locked"
          /\ \/ UNCHANGED <<saved, status>>
             \/ saved' = saved \cup {j} /\ status' = [status EXCEPT ![j] = NoRows]
          /\ UNCHANGED <<wpc, target, todo, snap, mu>>
      BY <2>2 DEF InitStatus
    <3>2. DiskOK' BY <1>0, <3>1, BlankRows DEF JobOf
    <3>3. LockedOK' BY <1>0, <3>1 DEF JobOf, Owns, IsNext
    <3>4. QED BY <1>0, <3>2, <3>3
  <2>3. CASE Seed(j)
    <3>1. /\ hpc' = [hpc EXCEPT ![j] = hpc'[j]] /\ hpc'[j] # "locked"
          /\ todo[j] = {} /\ wpc[j] = "off" /\ hpc[j] = "stored"
          /\ \/ UNCHANGED <<status, todo>>
             \/ /\ status[j] = NoRows /\ stored[j] \in SUBSET Inputs
                /\ status' = [status EXCEPT ![j] = Seeded(NoRows, stored[j])]
                /\ todo' = [todo EXCEPT ![j] = stored[j]]
          /\ UNCHANGED <<wpc, target, saved, snap, mu>>
      BY <2>3 DEF Seed, PhaseOK
    <3>2. DiskOK'
      <4>1. ASSUME NEW k \in saved', NEW i \in Inputs, status'[k].rows[i].state = "pending"
            PROVE  \E t \in Tasks : JobOf(t)' = k /\ i \in todo'[t] /\ hpc'[t] # "locked"
        <5>1. CASE k = j /\ status' # status
          <6>1. i \in todo'[j] BY <3>1, <4>1, <5>1, SeedPending
          <6>2. QED BY <3>1, <5>1, <6>1 DEF JobOf
        <5>2. CASE ~(k = j /\ status' # status)
          <6>1. status'[k] = status[k] /\ k \in saved BY <3>1, <4>1, <5>2
          <6>2. PICK t \in Tasks : JobOf(t) = k /\ i \in todo[t] /\ hpc[t] # "locked"
            BY <1>0, <4>1, <6>1
          <6>3. t # j BY <3>1, <6>2
          <6>4. JobOf(t)' = k /\ i \in todo'[t] /\ hpc'[t] # "locked"
            BY <3>1, <6>2, <6>3 DEF JobOf
          <6>5. QED BY <6>4
        <5>3. QED BY <5>1, <5>2
      <4>2. QED BY <4>1
    <3>3. LockedOK'
      <4>1. ASSUME NEW t \in Tasks, NEW i \in Inputs, Owns(t, i) PROVE Owns(t, i)'
        <5>1. t # j BY <3>1, <4>1 DEF Owns
        <5>2. todo'[t] = todo[t] BY <3>1, <5>1
        <5>3. QED BY <3>1, <4>1, <5>2 DEF Owns, JobOf, IsNext
      <4>2. QED BY <1>0, <3>1, <4>1
    <3>4. QED BY <1>0, <3>2, <3>3
  <2>4. QED BY <1>1, <2>1, <2>2, <2>3 DEF ConvertStep
<1>2. ASSUME NEW r \in Retries, RetryStep(r) PROVE OwnersOK'
  <2>1. CASE RetryOpen(r)
    <3>1. /\ hpc[r] = "new" /\ hpc'[r] # "locked"
          /\ hpc' = [hpc EXCEPT ![r] = hpc'[r]] /\ target' = [target EXCEPT ![r] = target'[r]]
          /\ UNCHANGED <<wpc, todo, saved, status, snap, mu>>
      BY <2>1 DEF RetryOpen
    <3>2. todo[r] = {} /\ mu # r BY <3>1 DEF PhaseOK, LockOK
    <3>3. DiskOK' BY <1>0, <3>1, <3>2 DEF JobOf
    <3>4. LockedOK' BY <1>0, <3>1, <3>2 DEF JobOf, Owns, IsNext
    <3>5. QED BY <1>0, <3>3, <3>4
  <2>2. CASE RetryConfig(r)
    <3>1. /\ hpc' = [hpc EXCEPT ![r] = hpc'[r]] /\ hpc'[r] # "locked"
          /\ UNCHANGED <<wpc, target, todo, snap, mu, saved, status>>
      BY <2>2 DEF RetryConfig
    <3>2. DiskOK' BY <1>0, <3>1 DEF JobOf
    <3>3. LockedOK' BY <1>0, <3>1 DEF JobOf, Owns, IsNext
    <3>4. QED BY <1>0, <3>2, <3>3
  <2>3. CASE RetryReset(r)
    <3>. DEFINE j == target[r]
    <3>1. /\ hpc[r] = "configured" /\ mu = None
          /\ UNCHANGED <<wpc, target, saved, status>>
      BY <2>3 DEF RetryReset, LockFree
    <3>2. todo[r] = {} /\ j \in Jobs /\ wpc[r] = "off" /\ r # None
      BY <3>1 DEF PhaseOK, TargetOK
    <3>3. CASE /\ hpc'[r] # "locked" /\ hpc' = [hpc EXCEPT ![r] = hpc'[r]]
               /\ UNCHANGED <<mu, snap, todo>>
      <4>1. DiskOK' BY <1>0, <3>1, <3>3 DEF JobOf
      <4>2. LockedOK' BY <3>1, <3>3
      <4>3. QED BY <1>0, <4>1, <4>2
    <3>4. CASE /\ j \in saved /\ mu' = r /\ snap' = Reset(status[j])
               /\ todo' = [todo EXCEPT ![r] = FailedOf(status[j].rows)]
               /\ hpc' = [hpc EXCEPT ![r] = "locked"]
      <4>1. DiskOK' BY <1>0, <3>1, <3>2, <3>4 DEF JobOf
      <4>2. LockedOK'
        <5>1. ASSUME NEW i \in Inputs, snap'.rows[i].state = "pending"
              PROVE  \E t \in Tasks : Owns(t, i)'
          <6>1. status[j] \in Status BY <3>2
          <6>2. i \in FailedOf(status[j].rows) \/ status[j].rows[i].state = "pending"
            BY <3>4, <5>1, <6>1, ResetPending
          <6>3. CASE i \in FailedOf(status[j].rows)
            <7>1. Owns(r, i)' BY <3>1, <3>2, <3>4, <6>3 DEF Owns
            <7>2. QED BY <7>1
          <6>4. CASE status[j].rows[i].state = "pending"
            <7>1. PICK t \in Tasks : JobOf(t) = j /\ i \in todo[t]
              BY <1>0, <3>4, <6>4
            <7>2. t # r /\ r \notin Jobs BY <3>2, <7>1
            <7>3. Owns(t, i)' BY <3>1, <3>4, <7>1, <7>2 DEF Owns, JobOf
            <7>4. QED BY <7>3
          <6>5. QED BY <6>2, <6>3, <6>4
        <5>2. QED BY <5>1
      <4>3. QED BY <1>0, <4>1, <4>2
    <3>5. QED BY <2>3, <3>3, <3>4 DEF RetryReset
  <2>4. CASE RetrySave(r)
    <3>. DEFINE j == target[r]
    <3>1. /\ hpc[r] = "locked" /\ mu' = None
          /\ UNCHANGED <<wpc, target>>
      BY <2>4 DEF RetrySave, Unlock
    <3>2. /\ mu = r /\ j \in Jobs /\ r \notin Jobs
          /\ \A t \in Tasks \ {r} : hpc[t] # "locked"
      BY <3>1 DEF LockOK, TargetOK
    <3>3. CASE /\ saved' = saved \cup {j} /\ status' = [status EXCEPT ![j] = snap]
               /\ hpc' = [hpc EXCEPT ![r] = "seeded"] /\ todo' = todo
      <4>1. DiskOK'
        <5>1. ASSUME NEW k \in saved', NEW i \in Inputs, status'[k].rows[i].state = "pending"
              PROVE  \E t \in Tasks : JobOf(t)' = k /\ i \in todo'[t] /\ hpc'[t] # "locked"
          <6>1. \A t \in Tasks : JobOf(t)' = JobOf(t) /\ hpc'[t] # "locked"
            BY <3>1, <3>2, <3>3 DEF JobOf
          <6>2. CASE k = j
            <7>1. PICK t \in Tasks : Owns(t, i) BY <1>0, <3>2, <3>3, <5>1, <6>2
            <7>2. QED BY <3>2, <3>3, <6>1, <6>2, <7>1 DEF Owns, JobOf
          <6>3. CASE k # j BY <1>0, <3>3, <5>1, <6>1, <6>3
          <6>4. QED BY <6>2, <6>3
        <5>2. QED BY <5>1
      <4>2. QED BY <1>0, <3>1, <4>1
    <3>4. CASE /\ UNCHANGED <<saved, status>>
               /\ hpc' = [hpc EXCEPT ![r] = "refused"] /\ todo' = [todo EXCEPT ![r] = {}]
      <4>1. DiskOK' BY <1>0, <3>1, <3>2, <3>4 DEF JobOf
      <4>2. QED BY <1>0, <3>1, <4>1
    <3>5. QED BY <2>4, <3>3, <3>4 DEF RetrySave, SaveSnap
  <2>5. QED BY <1>2, <2>1, <2>2, <2>3, <2>4 DEF RetryStep
<1>3. ASSUME NEW t \in Tasks, TaskStep(t) PROVE OwnersOK'
  <2>. DEFINE j == JobOf(t)
  <2>1. CASE Launch(t) \/ Answer(t) \/ Acquire(t) \/ FbcSucceeds(t) \/ FbcFails(t)
    <3>1. /\ UNCHANGED <<target, todo, saved, status, snap, mu>>
          /\ \A u \in Tasks : hpc'[u] = "locked" => hpc[u] = "locked"
          /\ \A u \in Tasks : wpc'[u] = "merging" => wpc[u] = "merging"
      BY <2>1 DEF Launch, Answer, Acquire, FbcSucceeds, FbcFails, Release
    <3>2. DiskOK' BY <1>0, <3>1 DEF JobOf
    <3>3. LockedOK' BY <1>0, <3>1 DEF JobOf, Owns, IsNext
    <3>4. QED BY <1>0, <3>2, <3>3
  <2>2. CASE Record(t)
    <3>1. PICK i \in todo[t] :
            /\ IsNext(t, i)
            /\ \/ j \notin saved /\ Advance(t, i) /\ UNCHANGED <<mu, snap>>
               \/ /\ j \in saved /\ mu' = t /\ snap' = Merge(status[j], i, result[t])
                  /\ wpc' = [wpc EXCEPT ![t] = "merging"] /\ UNCHANGED <<todo, result>>
      BY <2>2 DEF Record
    <3>2. /\ wpc[t] = "finished" /\ mu = None
          /\ UNCHANGED <<hpc, target, saved, status>>
      BY <2>2 DEF Record, LockFree
    <3>3. CASE j \notin saved /\ Advance(t, i) /\ UNCHANGED <<mu, snap>>
      <4>1. todo' = [todo EXCEPT ![t] = todo[t] \ {i}] BY <3>3 DEF Advance
      <4>2. DiskOK' BY <1>0, <3>2, <3>3, <4>1 DEF JobOf
      <4>3. QED BY <1>0, <3>2, <3>3, <4>2
    <3>4. CASE /\ j \in saved /\ mu' = t /\ snap' = Merge(status[j], i, result[t])
               /\ wpc' = [wpc EXCEPT ![t] = "merging"] /\ UNCHANGED <<todo, result>>
      <4>1. DiskOK' BY <1>0, <3>2, <3>4 DEF JobOf
      <4>2. LockedOK'
        <5>1. ASSUME NEW k \in Inputs, snap'.rows[k].state = "pending"
              PROVE  \E u \in Tasks : Owns(u, k)'
          <6>1. status[j] \in Status /\ i \in Inputs /\ result[t] \in Row BY <3>4
          <6>2. result[t].state \in {"done", "failed"} BY <3>2 DEF WorkOK
          <6>3. k # i /\ status[j].rows[k].state = "pending"
            BY <3>4, <5>1, <6>1, <6>2, MergePending
          <6>4. PICK u \in Tasks : JobOf(u) = j /\ k \in todo[u]
            BY <1>0, <3>4, <6>3
          <6>5. ~(u = t /\ IsNext(t, k)) BY <3>1, <6>3, <6>4 DEF IsNext, Inputs
          <6>6. Owns(u, k)' BY <3>2, <3>4, <6>4, <6>5 DEF Owns, JobOf, IsNext
          <6>7. QED BY <6>6
        <5>2. QED BY <5>1
      <4>3. QED BY <1>0, <4>1, <4>2
    <3>5. QED BY <3>1, <3>3, <3>4
  <2>3. CASE RecordSaves(t)
    <3>1. PICK i \in todo[t] :
            /\ IsNext(t, i) /\ Advance(t, i)
            /\ \/ SaveSnap(j)
               \/ /\ j \notin dir \/ MayFail("update")
                  /\ UNCHANGED <<saved, status, expired>>
      BY <2>3 DEF RecordSaves
    <3>2. /\ wpc[t] = "merging" /\ mu' = None /\ mu = t /\ hpc[t] # "locked"
          /\ UNCHANGED <<hpc, target>>
      BY <2>3 DEF RecordSaves, Unlock, LockOK, PhaseOK
    <3>3. todo' = [todo EXCEPT ![t] = todo[t] \ {i}] BY <3>1 DEF Advance
    <3>4. \A u \in Tasks : JobOf(u)' = JobOf(u) BY <3>2 DEF JobOf
    <3>5. \A u \in Tasks : hpc'[u] # "locked" BY <3>2 DEF LockOK
    <3>6. CASE SaveSnap(j)
      <4>1. saved' = saved \cup {j} /\ status' = [status EXCEPT ![j] = snap]
        BY <3>6 DEF SaveSnap
      <4>2. ASSUME NEW k \in saved', NEW n \in Inputs, status'[k].rows[n].state = "pending"
            PROVE  \E u \in Tasks : JobOf(u)' = k /\ n \in todo'[u] /\ hpc'[u] # "locked"
        <5>1. CASE k = j
          <6>1. j \in Jobs BY <3>6 DEF SaveSnap
          <6>2. snap.rows[n].state = "pending" BY <4>1, <4>2, <5>1, <6>1
          <6>3. PICK u \in Tasks : Owns(u, n) BY <1>0, <3>2, <6>2
          <6>4. n \in todo'[u] BY <3>1, <3>2, <3>3, <6>3 DEF Owns
          <6>5. QED BY <3>2, <3>4, <3>5, <5>1, <6>3, <6>4 DEF Owns
        <5>2. CASE k # j
          <6>1. k \in saved /\ status'[k] = status[k] BY <4>1, <4>2, <5>2
          <6>2. PICK u \in Tasks : JobOf(u) = k /\ n \in todo[u] BY <1>0, <4>2, <6>1
          <6>3. n \in todo'[u] BY <3>3, <5>2, <6>2
          <6>4. QED BY <3>4, <3>5, <6>2, <6>3
        <5>3. QED BY <5>1, <5>2
      <4>3. DiskOK' BY <4>2
      <4>4. QED BY <1>0, <3>2, <4>3
    <3>7. CASE (j \notin dir \/ MayFail("update")) /\ UNCHANGED <<saved, status, expired>>
      <4>1. j \notin saved BY <3>7 DEF HoldOK
      <4>2. DiskOK' BY <1>0, <3>3, <3>4, <3>5, <3>7, <4>1
      <4>3. QED BY <1>0, <3>2, <4>2
    <3>8. QED BY <3>1, <3>6, <3>7
  <2>4. QED BY <1>3, <2>1, <2>2, <2>3 DEF TaskStep
<1>4. ASSUME SweeperStep \/ Quiescent \/ UNCHANGED vars PROVE OwnersOK'
  <2>1. /\ UNCHANGED <<hpc, wpc, target, todo, snap, mu>>
        /\ saved' \subseteq saved /\ \A k \in saved' : status'[k] = status[k]
    BY <1>4 DEF SweeperStep, SweepLoad, SweepRemove, Age, SweepAge, Quiescent, vars
  <2>2. DiskOK' BY <1>0, <2>1 DEF JobOf
  <2>3. LockedOK' BY <1>0, <2>1 DEF JobOf, Owns, IsNext
  <2>4. QED BY <1>0, <2>2, <2>3
<1>5. ASSUME Crash PROVE FALSE BY <1>5 DEF Crash
<1>6. QED BY <1>1, <1>2, <1>3, <1>4, <1>5 DEF Next

-----------------------------------------------------------------------------
\* Settled successes of a merge and a reset.
LEMMA MergeDone ==
  ASSUME NEW st \in Status, NEW i \in Inputs, NEW row \in Row, NEW k \in Inputs,
         Merge(st, i, row).rows[k].state = "done"
  PROVE  \/ k = i /\ row.state = "done" /\ Merge(st, i, row).rows[k] = row
         \/ k # i /\ st.rows[k].state = "done" /\ Merge(st, i, row).rows[k] = st.rows[k]
  BY MergeRows

LEMMA ResetDone ==
  ASSUME NEW st \in Status, NEW k \in Inputs, Reset(st).rows[k].state = "done"
  PROVE  st.rows[k].state = "done" /\ Reset(st).rows[k] = st.rows[k]
  BY ResetRows

LEMMA SeedDone ==
  ASSUME NEW S \in SUBSET Inputs, NEW k \in Inputs
  PROVE  Seeded(NoRows, S).rows[k].state # "done"
  BY DEF Seeded, NoRows, NoRow, Pending

\* What says done has its output: on the disk, in the lock holder's status, in the
\* result of a worker.
DiskHas == \A j \in saved \ raced, i \in Inputs :
             status[j].rows[i].state = "done" => status[j].rows[i].outs /\ i \in out[j]
SnapHas == mu # None /\ JobOf(mu) \in dir \ raced => \A i \in Inputs :
             snap.rows[i].state = "done" => snap.rows[i].outs /\ i \in out[JobOf(mu)]
ResultHas == \A t \in Tasks, i \in Inputs :
             wpc[t] = "finished" /\ result[t].state = "done" /\ IsNext(t, i) =>
                 JobOf(t) \in raced \/ (result[t].outs /\ i \in out[JobOf(t)])
UsersHaveDir == \A t \in Tasks : Using(t) /\ JobOf(t) \notin raced => JobOf(t) \in dir

LEMMA OutputsParts == /\ OutputsOK <=> UsersHaveDir /\ ResultHas /\ SnapHas
                      /\ DoneHasDownload <=> DiskHas
  BY DEF OutputsOK, DoneHasDownload, UsersHaveDir, ResultHas, SnapHas, DiskHas

\* A step that leaves the rows, the lock and the workers alone, keeps the outputs and
\* the races, and makes a directory only for a task that is using it.
LEMMA QuietStep ==
  ASSUME IInv, UsersHaveDir, ResultHas, SnapHas, DiskHas,
         UNCHANGED <<wpc, result, snap, mu, raced, todo, out, saved, status>>,
         \A t \in Tasks : wpc[t] # "off" \/ t = mu => JobOf(t)' = JobOf(t),
         mu # None => (JobOf(mu) \in dir' => JobOf(mu) \in dir)
  PROVE  (ResultHas /\ SnapHas /\ DiskHas)'
<1>. USE DEF IInv, TypeInv, TypeOK
<1>1. ResultHas' BY DEF ResultHas, IsNext
<1>2. SnapHas' BY DEF SnapHas
<1>3. DiskHas' BY DEF DiskHas
<1>4. QED BY <1>1, <1>2, <1>3

LEMMA OutputsNext ==
  ASSUME IInv, IInv', HoldOK, HoldOK', WorkOK, OutputsOK, DoneHasDownload, [Next]_vars
  PROVE  OutputsOK' /\ DoneHasDownload'
<1>. USE TasksAssumption
<1>. USE DEF IInv, TypeInv, TypeOK, Tasks, disk, Workers, Sweeper, Goto
<1>. DEFINE Goal == (UsersHaveDir /\ ResultHas /\ SnapHas /\ DiskHas)'
<1>0. UsersHaveDir /\ ResultHas /\ SnapHas /\ DiskHas BY OutputsParts
<1>1. ASSUME NEW j \in Jobs, ConvertStep(j) PROVE Goal
  <2>0. /\ \A t \in Tasks : JobOf(t)' = JobOf(t)
        /\ UNCHANGED <<wpc, result, snap, mu, raced, out, target>>
        /\ hpc' = [hpc EXCEPT ![j] = hpc'[j]] /\ dir \subseteq dir'
    BY <1>1 DEF ConvertStep, Refuse, MakeTree, InitStatus, StoreInputs, Seed, JobOf
  <2>1. mu # None => JobOf(mu) # j
    <3>1. hpc[j] \in {"new", "made", "created", "stored"}
      BY <1>1 DEF ConvertStep, Refuse, MakeTree, InitStatus, StoreInputs, Seed
    <3>2. mu # j /\ \A r \in Retries : target[r] # j BY <3>1 DEF LockOK, PhaseOK
    <3>3. QED BY <3>2 DEF JobOf
  <2>2. dir' \subseteq dir \cup {j}
    BY <1>1 DEF ConvertStep, Refuse, MakeTree, InitStatus, StoreInputs, Seed
  <2>3. UsersHaveDir'
    <3>1. ASSUME NEW t \in Tasks, Using(t)', JobOf(t) \notin raced PROVE JobOf(t) \in dir
      <4>1. CASE Using(t) BY <1>0, <3>1, <4>1 DEF UsersHaveDir
      <4>2. CASE ~Using(t)
        <5>1. t = j /\ Seed(j)
          BY <1>1, <2>0, <3>1, <4>2
             DEF Using, ConvertStep, Refuse, MakeTree, InitStatus, StoreInputs
        <5>2. QED BY <5>1 DEF Seed, HoldOK, Open, JobOf
      <4>3. QED BY <4>1, <4>2
    <3>2. QED BY <2>0, <3>1 DEF UsersHaveDir
  <2>4. CASE UNCHANGED <<todo, saved, status>>
    BY <1>0, <2>0, <2>1, <2>2, <2>3, <2>4, QuietStep
  <2>5. CASE InitStatus(j) /\ j \in saved' /\ status' = [status EXCEPT ![j] = NoRows]
    <3>1. UNCHANGED todo /\ saved' = saved \cup {j} BY <2>5 DEF InitStatus
    <3>2. ResultHas' BY <1>0, <2>0, <3>1 DEF ResultHas, IsNext
    <3>3. SnapHas' BY <1>0, <2>0, <2>1, <2>2 DEF SnapHas
    <3>4. DiskHas' BY <1>0, <2>0, <2>5, <3>1, BlankRows DEF DiskHas
    <3>5. QED BY <2>3, <3>2, <3>3, <3>4
  <2>6. CASE /\ Seed(j) /\ j \in saved /\ todo' = [todo EXCEPT ![j] = stored[j]]
             /\ status' = [status EXCEPT ![j] = Seeded(status[j], stored[j])]
    <3>1. /\ status[j] = NoRows /\ wpc[j] = "off" /\ stored[j] \in SUBSET Inputs
          /\ UNCHANGED saved
      BY <2>6 DEF Seed, PhaseOK
    <3>2. ResultHas' BY <1>0, <2>0, <2>6, <3>1 DEF ResultHas, IsNext
    <3>3. SnapHas' BY <1>0, <2>0, <2>1, <2>2 DEF SnapHas
    <3>4. DiskHas'
      <4>1. \A i \in Inputs : status'[j].rows[i].state # "done" BY <2>6, <3>1, SeedDone
      <4>2. \A k \in saved : k # j => status'[k] = status[k] BY <2>6
      <4>3. QED BY <1>0, <2>0, <3>1, <4>1, <4>2 DEF DiskHas
    <3>5. QED BY <2>3, <3>2, <3>3, <3>4
  <2>7. QED BY <1>1, <2>4, <2>5, <2>6
            DEF ConvertStep, Refuse, MakeTree, InitStatus, StoreInputs, Seed
<1>2. ASSUME NEW r \in Retries, RetryStep(r) PROVE Goal
  <2>1. CASE RetryOpen(r)
    <3>1. /\ hpc[r] = "new" /\ hpc'[r] \in {"found", "refused"}
          /\ hpc' = [hpc EXCEPT ![r] = hpc'[r]] /\ target' = [target EXCEPT ![r] = target'[r]]
          /\ UNCHANGED <<wpc, result, snap, mu, raced, todo, out, saved, status, dir>>
      BY <2>1 DEF RetryOpen
    <3>2. wpc[r] = "off" /\ mu # r BY <3>1 DEF PhaseOK, LockOK
    <3>3. \A t \in Tasks : t # r => JobOf(t)' = JobOf(t) BY <3>1 DEF JobOf
    <3>4. UsersHaveDir' BY <1>0, <3>1, <3>2, <3>3 DEF UsersHaveDir, Using
    <3>5. (ResultHas /\ SnapHas /\ DiskHas)'
      <4>1. \A t \in Tasks : wpc[t] # "off" \/ t = mu => JobOf(t)' = JobOf(t)
        BY <3>2, <3>3
      <4>2. QED BY <1>0, <3>1, <4>1, QuietStep
    <3>6. QED BY <3>4, <3>5
  <2>2. CASE RetryConfig(r)
    <3>1. /\ hpc'[r] \in {"configured", "refused"} /\ hpc' = [hpc EXCEPT ![r] = hpc'[r]]
          /\ UNCHANGED <<wpc, result, snap, mu, raced, todo, out, saved, status, dir, target>>
      BY <2>2 DEF RetryConfig
    <3>2. \A t \in Tasks : JobOf(t)' = JobOf(t) BY <3>1 DEF JobOf
    <3>3. UsersHaveDir' BY <1>0, <3>1, <3>2 DEF UsersHaveDir, Using
    <3>4. (ResultHas /\ SnapHas /\ DiskHas)' BY <1>0, <3>1, <3>2, QuietStep
    <3>5. QED BY <3>3, <3>4
  <2>3. CASE RetryReset(r)
    <3>1. /\ hpc[r] = "configured" /\ mu = None
          /\ hpc'[r] \in {"answered", "refused", "locked"} /\ hpc' = [hpc EXCEPT ![r] = hpc'[r]]
          /\ UNCHANGED <<wpc, result, raced, out, saved, status, dir, target>>
      BY <2>3 DEF RetryReset, LockFree
    <3>2. wpc[r] = "off" /\ target[r] \in Jobs /\ r \notin Jobs BY <3>1 DEF PhaseOK, TargetOK
    <3>3. \A t \in Tasks : JobOf(t)' = JobOf(t) BY <3>1 DEF JobOf
    <3>4. UsersHaveDir' BY <1>0, <3>1, <3>3 DEF UsersHaveDir, Using
    <3>5. \/ UNCHANGED <<snap, mu, todo>>
          \/ /\ target[r] \in saved /\ mu' = r /\ snap' = Reset(status[target[r]])
             /\ todo' = [todo EXCEPT ![r] = todo'[r]]
      BY <2>3 DEF RetryReset
    <3>6. ResultHas' BY <1>0, <3>1, <3>2, <3>3, <3>5 DEF ResultHas, IsNext
    <3>7. DiskHas' BY <1>0, <3>1 DEF DiskHas
    <3>8. SnapHas'
      <4>1. CASE UNCHANGED <<snap, mu, todo>> BY <3>1, <4>1 DEF SnapHas
      <4>2. CASE /\ target[r] \in saved /\ mu' = r /\ snap' = Reset(status[target[r]])
                 /\ todo' = [todo EXCEPT ![r] = todo'[r]]
        <5>1. status[target[r]] \in Status BY <3>2
        <5>2. JobOf(mu)' = target[r] BY <3>1, <3>2, <4>2 DEF JobOf
        <5>3. ASSUME NEW i \in Inputs, snap'.rows[i].state = "done", target[r] \notin raced
              PROVE  snap'.rows[i].outs /\ i \in out[target[r]]
          BY <1>0, <4>2, <5>1, <5>3, ResetDone DEF DiskHas
        <5>4. QED BY <3>1, <5>2, <5>3 DEF SnapHas
      <4>3. QED BY <3>5, <4>1, <4>2
    <3>9. QED BY <3>4, <3>6, <3>7, <3>8
  <2>4. CASE RetrySave(r)
    <3>1. /\ hpc[r] = "locked" /\ mu' = None
          /\ UNCHANGED <<wpc, result, raced, out, dir, target>>
      BY <2>4 DEF RetrySave, Unlock
    <3>2. /\ mu = r /\ target[r] \in Jobs /\ JobOf(r) = target[r]
          /\ wpc[r] = "off"
      BY <3>1 DEF LockOK, TargetOK, JobOf, PhaseOK
    <3>3. \A t \in Tasks : JobOf(t)' = JobOf(t) BY <3>1 DEF JobOf
    <3>4. \/ /\ target[r] \in dir /\ saved' = saved \cup {target[r]}
             /\ status' = [status EXCEPT ![target[r]] = snap]
             /\ hpc' = [hpc EXCEPT ![r] = "seeded"] /\ todo' = todo
          \/ /\ UNCHANGED <<saved, status>>
             /\ hpc' = [hpc EXCEPT ![r] = "refused"] /\ todo' = [todo EXCEPT ![r] = {}]
      BY <2>4 DEF RetrySave, SaveSnap
    <3>5. UsersHaveDir' BY <1>0, <3>1, <3>2, <3>3, <3>4 DEF UsersHaveDir, Using
    <3>6. ResultHas' BY <1>0, <3>1, <3>2, <3>3, <3>4 DEF ResultHas, IsNext
    <3>7. SnapHas' BY <3>1 DEF SnapHas
    <3>8. DiskHas' BY <1>0, <3>1, <3>2, <3>4 DEF DiskHas, SnapHas
    <3>9. QED BY <3>5, <3>6, <3>7, <3>8
  <2>5. QED BY <1>2, <2>1, <2>2, <2>3, <2>4 DEF RetryStep
<1>3. ASSUME NEW t \in Tasks, TaskStep(t) PROVE Goal
  <2>. DEFINE j == JobOf(t)
  <2>0. UNCHANGED <<raced, target>> /\ \A u \in Tasks : JobOf(u)' = JobOf(u)
    BY <1>3 DEF TaskStep, Launch, Answer, Acquire, FbcSucceeds, FbcFails, Record, RecordSaves,
                JobOf
  <2>1. CASE Launch(t) \/ Answer(t)
    <3>1. /\ \A u \in Tasks : Using(u)' => Using(u)
          /\ \A u \in Tasks : wpc'[u] = "finished" => wpc[u] = "finished"
          /\ UNCHANGED <<result, snap, mu, todo, out, saved, status, dir>>
      BY <2>1 DEF Launch, Answer, Using
    <3>2. UsersHaveDir' BY <1>0, <2>0, <3>1 DEF UsersHaveDir
    <3>3. ResultHas' BY <1>0, <2>0, <3>1 DEF ResultHas, IsNext
    <3>4. SnapHas' BY <1>0, <2>0, <3>1 DEF SnapHas
    <3>5. DiskHas' BY <1>0, <2>0, <3>1 DEF DiskHas
    <3>6. QED BY <3>2, <3>3, <3>4, <3>5
  <2>2. CASE Acquire(t)
    <3>1. /\ wpc[t] = "queued" /\ wpc' = [wpc EXCEPT ![t] = "fbc"] /\ dir' = dir \cup {j}
          /\ UNCHANGED <<hpc, result, snap, mu, todo, out, saved, status>>
      BY <2>2 DEF Acquire
    <3>2. j \in raced \/ j \in dir BY <1>0, <3>1 DEF UsersHaveDir, Using
    <3>3. UsersHaveDir' BY <1>0, <2>0, <3>1 DEF UsersHaveDir, Using
    <3>4. ResultHas' BY <1>0, <2>0, <3>1 DEF ResultHas, IsNext
    <3>5. SnapHas' BY <1>0, <2>0, <3>1, <3>2 DEF SnapHas
    <3>6. DiskHas' BY <1>0, <2>0, <3>1 DEF DiskHas
    <3>7. QED BY <3>3, <3>4, <3>5, <3>6
  <2>3. CASE FbcSucceeds(t) \/ FbcFails(t)
    <3>1. /\ wpc[t] = "fbc" /\ wpc' = [wpc EXCEPT ![t] = "finished"]
          /\ result' = [result EXCEPT ![t] = result'[t]]
          /\ \A k \in Jobs : out[k] \subseteq out'[k]
          /\ dir' \in {dir, dir \cup {j}}
          /\ UNCHANGED <<hpc, snap, mu, todo, saved, status>>
      BY <2>3 DEF FbcSucceeds, FbcFails, Release
    <3>2. j \in raced \/ j \in dir BY <1>0, <3>1 DEF UsersHaveDir, Using
    <3>3. UsersHaveDir' BY <1>0, <2>0, <3>1 DEF UsersHaveDir, Using
    <3>4. ASSUME NEW k \in Inputs, result'[t].state = "done", IsNext(t, k)
          PROVE  result'[t].outs /\ k \in out'[j]
      <4>1. CASE FbcSucceeds(t)
        <5>1. PICK i \in todo[t], wrote \in BOOLEAN :
                /\ IsNext(t, i)
                /\ out' = [out EXCEPT ![j] = IF wrote \/ i \in out[j] THEN @ \cup {i} ELSE @]
                /\ result' = [result EXCEPT ![t] = ExitZero(wrote \/ i \in out[j])]
          BY <4>1 DEF FbcSucceeds, Release
        <5>2. i = k BY <3>4, <5>1 DEF IsNext, Inputs
        <5>3. j \in Jobs BY <3>1 DEF JobOf, TargetOK
        <5>4. CASE wrote \/ i \in out[j] BY <5>1, <5>2, <5>3, <5>4 DEF ExitZero
        <5>5. CASE ~(wrote \/ i \in out[j]) BY <3>4, <5>1, <5>5 DEF ExitZero
        <5>6. QED BY <5>4, <5>5
      <4>2. CASE FbcFails(t)
        <5>1. result'[t].state = "failed" BY <4>2 DEF FbcFails, Release
        <5>2. QED BY <3>4, <5>1
      <4>3. QED BY <2>3, <4>1, <4>2
    <3>5. ResultHas'
      <4>1. ASSUME NEW u \in Tasks, NEW k \in Inputs, wpc'[u] = "finished",
                   result'[u].state = "done", IsNext(u, k)
            PROVE  JobOf(u) \in raced \/ (result'[u].outs /\ k \in out'[JobOf(u)])
        <5>1. CASE u = t BY <3>4, <4>1, <5>1
        <5>2. CASE u # t
          <6>1. JobOf(u) \in Jobs BY <3>1, <4>1, <5>2 DEF JobOf, TargetOK
          <6>2. QED BY <1>0, <3>1, <4>1, <5>2, <6>1 DEF ResultHas
        <5>3. QED BY <5>1, <5>2
      <4>2. \A u \in Tasks, k \in Inputs : IsNext(u, k)' <=> IsNext(u, k)
        BY <3>1 DEF IsNext
      <4>3. QED BY <2>0, <4>1, <4>2 DEF ResultHas
    <3>6. SnapHas'
      <4>1. mu # None => JobOf(mu) \in Jobs BY DEF LockOK, TargetOK, JobOf
      <4>2. QED BY <1>0, <2>0, <3>1, <3>2, <4>1 DEF SnapHas
    <3>7. DiskHas' BY <1>0, <2>0, <3>1 DEF DiskHas
    <3>8. QED BY <3>3, <3>5, <3>6, <3>7
  <2>4. CASE Record(t)
    <3>1. PICK i \in todo[t] :
            /\ IsNext(t, i)
            /\ \/ j \notin saved /\ Advance(t, i) /\ UNCHANGED <<mu, snap>>
               \/ /\ j \in saved /\ mu' = t /\ snap' = Merge(status[j], i, result[t])
                  /\ wpc' = [wpc EXCEPT ![t] = "merging"] /\ UNCHANGED <<todo, result>>
      BY <2>4 DEF Record
    <3>2. /\ wpc[t] = "finished" /\ mu = None
          /\ UNCHANGED <<hpc, saved, status, dir, out>>
      BY <2>4 DEF Record, LockFree
    <3>3. \A u \in Tasks : Using(u)' => Using(u) BY <3>1, <3>2 DEF Using, Advance
    <3>4. UsersHaveDir' BY <1>0, <2>0, <3>2, <3>3 DEF UsersHaveDir
    <3>5. DiskHas' BY <1>0, <2>0, <3>2 DEF DiskHas
    <3>6. \A u \in Tasks : wpc'[u] = "finished" =>
            wpc[u] = "finished" /\ result'[u] = result[u] /\ todo'[u] = todo[u]
      BY <3>1 DEF Advance
    <3>7. ResultHas' BY <1>0, <2>0, <3>2, <3>6 DEF ResultHas, IsNext
    <3>8. SnapHas'
      <4>1. CASE UNCHANGED <<mu, snap>> BY <3>2, <4>1 DEF SnapHas
      <4>2. CASE j \in saved /\ mu' = t /\ snap' = Merge(status[j], i, result[t])
        <5>1. status[j] \in Status /\ i \in Inputs /\ result[t] \in Row BY <4>2
        <5>2. ASSUME NEW k \in Inputs, snap'.rows[k].state = "done", j \notin raced
              PROVE  snap'.rows[k].outs /\ k \in out[j]
          <6>1. \/ k = i /\ result[t].state = "done" /\ snap'.rows[k] = result[t]
                \/ k # i /\ status[j].rows[k].state = "done" /\ snap'.rows[k] = status[j].rows[k]
            BY <4>2, <5>1, <5>2, MergeDone
          <6>2. CASE k = i BY <1>0, <3>1, <3>2, <5>2, <6>1, <6>2 DEF ResultHas
          <6>3. CASE k # i BY <1>0, <4>2, <5>2, <6>1, <6>3 DEF DiskHas
          <6>4. QED BY <6>2, <6>3
        <5>3. JobOf(mu)' = j BY <2>0, <4>2
        <5>4. QED BY <2>0, <3>2, <5>2, <5>3 DEF SnapHas
      <4>3. QED BY <3>1, <4>1, <4>2
    <3>9. QED BY <3>4, <3>5, <3>7, <3>8
  <2>5. CASE RecordSaves(t)
    <3>1. PICK i \in todo[t] :
            /\ Advance(t, i)
            /\ SaveSnap(j) \/ UNCHANGED <<saved, status>>
      BY <2>5 DEF RecordSaves
    <3>2. /\ wpc[t] = "merging" /\ mu' = None /\ mu = t
          /\ UNCHANGED <<hpc, dir, out>>
      BY <2>5 DEF RecordSaves, Unlock, LockOK
    <3>3. \A u \in Tasks : Using(u)' => Using(u) BY <3>1, <3>2 DEF Using, Advance
    <3>4. UsersHaveDir' BY <1>0, <2>0, <3>2, <3>3 DEF UsersHaveDir
    <3>5. \A u \in Tasks : wpc'[u] = "finished" =>
            wpc[u] = "finished" /\ result'[u] = result[u] /\ todo'[u] = todo[u]
      BY <3>1, <3>2 DEF Advance
    <3>6. ResultHas' BY <1>0, <2>0, <3>2, <3>5 DEF ResultHas, IsNext
    <3>7. SnapHas' BY <3>2 DEF SnapHas
    <3>8. \/ UNCHANGED <<saved, status>>
          \/ /\ j \in dir /\ saved' = saved \cup {j}
             /\ status' = [status EXCEPT ![j] = snap]
      BY <3>1 DEF SaveSnap
    <3>9. DiskHas' BY <1>0, <2>0, <3>2, <3>8 DEF DiskHas, SnapHas
    <3>10. QED BY <3>4, <3>6, <3>7, <3>9
  <2>6. QED BY <1>3, <2>1, <2>2, <2>3, <2>4, <2>5 DEF TaskStep
<1>4. ASSUME SweepRemove PROVE Goal
  <2>. DEFINE j == sweepJob
  <2>1. /\ dir' = dir \ {j} /\ saved' = saved \ {j}
        /\ status' = [status EXCEPT ![j] = NoRows] /\ out' = [out EXCEPT ![j] = {}]
        /\ raced \subseteq raced'
        /\ (\E t \in Tasks : JobOf(t) = j /\ Using(t)) => j \in raced'
        /\ UNCHANGED <<hpc, wpc, result, todo, target, snap, mu>>
    BY <1>4 DEF SweepRemove
  <2>2. \A t \in Tasks : JobOf(t)' = JobOf(t) /\ (Using(t)' <=> Using(t))
    BY <2>1 DEF JobOf, Using
  <2>3. UsersHaveDir' BY <1>0, <2>1, <2>2 DEF UsersHaveDir
  <2>4. ResultHas'
    <3>1. ASSUME NEW t \in Tasks, NEW i \in Inputs, wpc[t] = "finished",
                 result[t].state = "done", IsNext(t, i)
          PROVE  JobOf(t) \in raced' \/ (result[t].outs /\ i \in out'[JobOf(t)])
      <4>1. CASE JobOf(t) = j BY <2>1, <3>1, <4>1 DEF Using
      <4>2. CASE JobOf(t) # j BY <1>0, <2>1, <3>1, <4>2 DEF ResultHas
      <4>3. QED BY <4>1, <4>2
    <3>2. QED BY <2>1, <2>2, <3>1 DEF ResultHas, IsNext
  <2>5. SnapHas' BY <1>0, <2>1, <2>2 DEF SnapHas
  <2>6. DiskHas' BY <1>0, <2>1 DEF DiskHas
  <2>7. QED BY <2>3, <2>4, <2>5, <2>6
<1>5. ASSUME SweepLoad \/ (\E j \in Jobs : Age(j) \/ SweepAge(j)) \/ Quiescent \/ UNCHANGED vars
      PROVE  Goal
  <2>1. UNCHANGED <<hpc, wpc, result, todo, target, snap, mu, dir, saved, status, out, raced>>
    BY <1>5 DEF SweepLoad, Age, SweepAge, Quiescent, vars
  <2>2. \A t \in Tasks : JobOf(t)' = JobOf(t) /\ (Using(t)' <=> Using(t))
    BY <2>1 DEF JobOf, Using
  <2>3. UsersHaveDir' BY <1>0, <2>1, <2>2 DEF UsersHaveDir
  <2>4. (ResultHas /\ SnapHas /\ DiskHas)' BY <1>0, <2>1, <2>2, QuietStep
  <2>5. QED BY <2>3, <2>4
<1>6. ASSUME Crash PROVE Goal
  <2>1. /\ \A t \in Tasks : wpc'[t] = "off" /\ hpc'[t] \notin {"seeded", "launched"}
        /\ mu' = None /\ UNCHANGED <<saved, status, out, raced>>
    BY <1>6 DEF Crash, Open
  <2>2. QED BY <1>0, <2>1 DEF UsersHaveDir, ResultHas, SnapHas, DiskHas, Using
<1>7. Goal
  BY <1>1, <1>2, <1>3, <1>4, <1>5, <1>6 DEF Next, SweeperStep
<1>8. QED BY <1>7, OutputsParts DEF OutputsOK, DoneHasDownload, UsersHaveDir, ResultHas, SnapHas, DiskHas

-----------------------------------------------------------------------------
LEMMA FateInit == Init => FateInv
<1>1. ASSUME Init PROVE FateInv
  <2>1. HoldOK /\ WorkOK /\ RowsOK
    BY <1>1, TasksAssumption DEF Init, HoldOK, WorkOK, RowsOK, Open, Tasks
  <2>2. OutputsOK /\ DoneHasDownload /\ OwnersOK
    BY <1>1 DEF Init, OutputsOK, DoneHasDownload, OwnersOK, Using, Tasks
  <2>3. QED BY <2>1, <2>2 DEF FateInv
<1>2. QED BY <1>1

\* A crash stays counted.
LEMMA CrashesNext ==
  ASSUME TypeInv, [Next]_vars
  PROVE  crashes > 0 => crashes' > 0
<1>. USE FaultsAssumption DEF TypeInv, TypeOK
<1>1. ASSUME NEW j \in Jobs, ConvertStep(j) PROVE crashes' = crashes
  BY <1>1 DEF ConvertStep, Refuse, MakeTree, InitStatus, StoreInputs, Seed
<1>2. ASSUME NEW r \in Retries, RetryStep(r) PROVE crashes' = crashes
  BY <1>2 DEF RetryStep, RetryOpen, RetryConfig, RetryReset, RetrySave
<1>3. ASSUME NEW t \in Tasks, TaskStep(t) PROVE crashes' = crashes
  BY <1>3 DEF TaskStep, Launch, Answer, Acquire, FbcSucceeds, FbcFails, Record, RecordSaves
<1>4. ASSUME SweeperStep PROVE crashes' = crashes
  BY <1>4 DEF SweeperStep, SweepLoad, SweepRemove, Age, SweepAge
<1>5. CASE Crash BY <1>5 DEF Crash
<1>6. CASE Quiescent \/ UNCHANGED vars BY <1>6 DEF Quiescent, vars
<1>7. QED BY <1>1, <1>2, <1>3, <1>4, <1>5, <1>6 DEF Next

LEMMA FateNext ==
  ASSUME IInv, IInv', FateInv, [Next]_vars
  PROVE  FateInv'
<1>1. HoldOK /\ WorkOK /\ RowsOK /\ OutputsOK /\ DoneHasDownload BY DEF FateInv
<1>2. HoldOK' BY <1>1, HoldNext
<1>3. WorkOK' BY <1>1, <1>2, WorkNext
<1>4. RowsOK' BY <1>1, RowsNext
<1>5. OutputsOK' /\ DoneHasDownload' BY <1>1, <1>2, OutputsNext
<1>6. (MayFail("update") \/ crashes > 0 \/ OwnersOK)'
  <2>1. CASE MayFail("update") \/ crashes > 0
    BY <2>1, CrashesNext DEF IInv, MayFail
  <2>2. CASE ~MayFail("update") /\ ~(crashes > 0) /\ ~(crashes' > 0)
    <3>1. crashes = 0 /\ crashes' = 0
      BY <2>2, FaultsAssumption DEF IInv, TypeInv, TypeOK
    <3>2. OwnersOK BY <2>2 DEF FateInv
    <3>3. OwnersOK' BY <1>1, <1>2, <2>2, <3>1, <3>2, OwnersNext
    <3>4. QED BY <3>3
  <2>3. QED BY <2>1, <2>2
<1>7. QED BY <1>2, <1>3, <1>4, <1>5, <1>6 DEF FateInv

\* What becomes of a job, through failed writes and crashes.
THEOREM FateHolds == Spec => []FateInv
<1>1. Init => IInv /\ FateInv BY IInvInit, FateInit
<1>2. ASSUME IInv /\ FateInv, [Next]_vars PROVE (IInv /\ FateInv)'
  <2>1. IInv' BY <1>2, IInvNext
  <2>2. FateInv' BY <1>2, <2>1, FateNext
  <2>3. QED BY <2>1, <2>2
<1>3. QED BY <1>1, <1>2, PTL DEF Spec

\* The sweeper never takes a job under its first worker, however old its directory
\* is: its status is there, and not done, until the worker is through.
THEOREM FirstRunSafe == Spec => []FirstRunKeepsJob
<1>1. FateInv => FirstRunKeepsJob
  BY TasksAssumption DEF FateInv, HoldOK, WorkOK, FirstRunKeepsJob, Using, Tasks
<1>2. QED BY FateHolds, <1>1, PTL

\* A row that says done has a file to download, until its job is removed.
THEOREM DoneDownloads == Spec => []DoneHasDownload
<1>1. FateInv => DoneHasDownload BY DEF FateInv
<1>2. QED BY FateHolds, <1>1, PTL

\* While the process lives and updateFile's write does not fail, a pending row has a
\* task that will settle it: no card polls for ever.
LEMMA OwnersAreUsers ==
  ASSUME IInv, FateInv, ~MayFail("update"), crashes = 0
  PROVE  PendingHasWorker
<1>1. OwnersOK BY DEF FateInv
<1>2. ASSUME NEW j \in saved, NEW i \in Inputs, status[j].rows[i].state = "pending"
      PROVE  \E t \in Tasks : JobOf(t) = j /\ Using(t) /\ i \in todo[t]
  <2>1. PICK t \in Tasks : JobOf(t) = j /\ i \in todo[t] /\ hpc[t] # "locked"
    BY <1>1, <1>2 DEF OwnersOK
  <2>2. Using(t) BY <2>1 DEF IInv, PhaseOK, Using
  <2>3. QED BY <2>1, <2>2
<1>3. QED BY <1>2 DEF PendingHasWorker

THEOREM PendingSettles == "update" \notin FaultyWrites => (Spec => []PendingHasWorker)
<1>1. ASSUME "update" \notin FaultyWrites PROVE IInv /\ FateInv => PendingHasWorker
  <2>1. CASE crashes = 0 BY <1>1, <2>1, OwnersAreUsers DEF MayFail
  <2>2. CASE crashes # 0 BY <2>2 DEF PendingHasWorker
  <2>3. QED BY <2>1, <2>2
<1>2. ASSUME "update" \notin FaultyWrites PROVE Spec => []PendingHasWorker
  <2>1. IInv /\ FateInv => PendingHasWorker BY <1>1, <1>2
  <2>2. QED BY <2>1, IInvAlways, FateHolds, PTL
<1>3. QED BY <1>2

\* A retry never strands a job: an orphan comes from a crash, from an upload refused
\* after Create, or from the error updateFile drops.
LEMMA OrphanCause ==
  ASSUME IInv, FateInv, NEW j \in Jobs, Orphan(j), ~MayFail("update"), crashes = 0
  PROVE  hpc[j] = "refused"
<1>. USE TasksAssumption DEF Tasks
<1>1. SUFFICES ASSUME hpc[j] # "refused" PROVE FALSE OBVIOUS
<1>2. j \in saved /\ ~status[j].done /\ ~Open(j)
  BY DEF Orphan, JobOf
<1>3. hpc[j] \in {"new", "answered", "aborted"}
  BY <1>1, <1>2, Phases DEF IInv, TypeInv
<1>4. hpc[j] = "answered" BY <1>2, <1>3 DEF IInv, PhaseOK, FateInv, HoldOK
<1>5. Present(status[j].rows) # {} BY <1>2, <1>4 DEF FateInv, RowsOK
<1>6. ~AllTerminal(status[j].rows) BY <1>2 DEF IInv, DoneIffTerminal
<1>7. PICK i \in Present(status[j].rows) : status[j].rows[i].state \notin {"done", "failed"}
  BY <1>5, <1>6 DEF AllTerminal
<1>8. i \in Inputs /\ status[j].rows[i].state = "pending"
  <2>1. i \in Inputs /\ status[j].rows[i].state # "absent" BY <1>7 DEF Present
  <2>2. status[j].rows[i] \in Row BY <2>1 DEF IInv, TypeInv, TypeOK, Status
  <2>3. QED BY <1>7, <2>1, <2>2 DEF Row, States
<1>9. PendingHasWorker BY OwnersAreUsers
<1>10. PICK t \in Tasks : JobOf(t) = j /\ Using(t)
  BY <1>2, <1>8, <1>9 DEF PendingHasWorker
<1>11. QED BY <1>10 DEF Orphan, Using, Open

THEOREM OrphansExplained == Spec => []OrphansHaveACause
<1>1. IInv /\ FateInv => OrphansHaveACause
  <2>1. SUFFICES ASSUME IInv, FateInv, NEW j \in Jobs, Orphan(j)
                 PROVE  crashes > 0 \/ hpc[j] = "refused" \/ MayFail("update")
    BY DEF OrphansHaveACause
  <2>2. crashes > 0 \/ crashes = 0 BY <2>1, FaultsAssumption DEF IInv, TypeInv, TypeOK
  <2>3. QED BY <2>1, <2>2, OrphanCause
<1>2. QED BY IInvAlways, FateHolds, <1>1, PTL

-----------------------------------------------------------------------------
(* Part 3: what browsers are shown of a batch goes through the steps of    *)
(* JobLedger                                                               *)

Live == saved \ raced
State(j, i) == status[j].rows[i].state

\* A task that uses a job nobody removed under it finds its status, and so does the
\* lock holder whose Save can succeed.
UsersSaved == \A t \in Tasks : Using(t) /\ JobOf(t) \notin raced => JobOf(t) \in saved
HolderSaved == mu # None /\ JobOf(mu) \in dir \ raced => JobOf(mu) \in saved

\* The status about to be saved is the one on the disk, but for the lock holder's change.
ResetOf(j) ==
    /\ ~snap.done /\ FailedOf(status[j].rows) # {}
    /\ \A k \in Inputs : snap.rows[k].state =
         IF State(j, k) = "failed" THEN "pending" ELSE State(j, k)
ResetHeld ==
    \A r \in Retries, j \in Jobs :
        mu = r /\ hpc[r] = "locked" /\ target[r] = j /\ j \in Live => ResetOf(j)
MergeHeld ==
    \A t \in Tasks : mu = t /\ wpc[t] = "merging" /\ JobOf(t) \in Live =>
        \A i \in Inputs : IsNext(t, i) =>
            /\ snap.rows[i].state \in {"done", "failed"}
            /\ \A k \in Inputs \ {i} : snap.rows[k].state = State(JobOf(t), k)

\* Uploads are persisted in order.
StoredOK == \A j \in Jobs : hpc[j] = "stored" => \E n \in Inputs : stored[j] = 1..n

HeldInv == UsersSaved /\ HolderSaved /\ ResetHeld /\ MergeHeld /\ StoredOK

LEMMA HeldInit == Init => HeldInv
<1>1. ASSUME Init PROVE HeldInv
  BY <1>1, TasksAssumption
     DEF Init, HeldInv, UsersSaved, HolderSaved, ResetHeld, MergeHeld, StoredOK, Using, Tasks
<1>2. QED BY <1>1

\* What a retry resets and what a worker merges, for the states alone.
LEMMA ResetStates ==
  ASSUME NEW st \in Status
  PROVE  /\ ~Reset(st).done
         /\ \A k \in Inputs : Reset(st).rows[k].state =
              IF st.rows[k].state = "failed" THEN "pending" ELSE st.rows[k].state
  BY ResetRows DEF Reset

LEMMA MergeStates ==
  ASSUME NEW st \in Status, NEW i \in Inputs, NEW row \in Row, row.state \in {"done", "failed"}
  PROVE  /\ Merge(st, i, row).rows[i].state \in {"done", "failed"}
         /\ \A k \in Inputs \ {i} : Merge(st, i, row).rows[k].state = st.rows[k].state
  BY MergeRows

\* A step that leaves the statuses, the lock and the work of its holder alone.
LEMMA HeldQuiet ==
  ASSUME IInv, HolderSaved, ResetHeld, MergeHeld,
         UNCHANGED <<snap, mu, raced>>,
         mu # None => /\ JobOf(mu)' = JobOf(mu) /\ (JobOf(mu) \in saved' <=> JobOf(mu) \in saved)
                      /\ (JobOf(mu) \in dir' => JobOf(mu) \in dir)
                      /\ status'[JobOf(mu)] = status[JobOf(mu)]
                      /\ wpc'[mu] = wpc[mu] /\ todo'[mu] = todo[mu]
                      /\ (hpc'[mu] = "locked" => hpc[mu] = "locked")
  PROVE  (HolderSaved /\ ResetHeld /\ MergeHeld)'
<1>. USE TasksAssumption DEF IInv, TypeInv, TypeOK, Tasks
<1>1. mu # None => mu \in Tasks /\ JobOf(mu) \in Jobs BY DEF LockOK, TargetOK, JobOf
<1>2. HolderSaved' BY <1>1 DEF HolderSaved
<1>3. ASSUME NEW r \in Retries, NEW j \in Jobs, (mu = r /\ hpc[r] = "locked" /\ target[r] = j /\ j \in Live)'
      PROVE  ResetOf(j)'
  <2>1. r \in Tasks /\ r \notin Jobs OBVIOUS
  <2>2. mu # None /\ mu = r /\ hpc[r] = "locked" BY <1>3, <2>1
  <2>3. target[r] = j BY <1>3, <2>1, <2>2 DEF JobOf
  <2>4. j \in Live /\ status'[j] = status[j] BY <1>3, <2>1, <2>2, <2>3 DEF JobOf, Live
  <2>5. ResetOf(j) BY <2>2, <2>3, <2>4 DEF ResetHeld
  <2>6. QED BY <2>4, <2>5 DEF ResetOf, State
<1>4. MergeHeld' BY <1>1 DEF MergeHeld, Live, State, IsNext
<1>5. ResetHeld' BY <1>3 DEF ResetHeld
<1>6. QED BY <1>2, <1>4, <1>5

LEMMA HeldNext ==
  ASSUME IInv, IInv', HoldOK, WorkOK, UsersSaved, HolderSaved, ResetHeld, MergeHeld, [Next]_vars
  PROVE  (UsersSaved /\ HolderSaved /\ ResetHeld /\ MergeHeld)'
<1>. USE TasksAssumption
<1>. USE DEF IInv, TypeInv, TypeOK, Tasks, disk, Workers, Sweeper, Goto
<1>. DEFINE Goal == (UsersSaved /\ HolderSaved /\ ResetHeld /\ MergeHeld)'
<1>0. mu # None => JobOf(mu) \in Jobs BY DEF LockOK, TargetOK, JobOf
<1>1. ASSUME NEW j \in Jobs, ConvertStep(j) PROVE Goal
  <2>1. /\ \A t \in Tasks : JobOf(t)' = JobOf(t)
        /\ UNCHANGED <<wpc, snap, mu, raced>>
        /\ hpc' = [hpc EXCEPT ![j] = hpc'[j]]
        /\ \A t \in Tasks : t # j => todo'[t] = todo[t]
        /\ \A k \in Jobs : k # j => /\ status'[k] = status[k]
                                   /\ (k \in saved' <=> k \in saved) /\ (k \in dir' <=> k \in dir)
        /\ saved \subseteq saved'
    BY <1>1 DEF ConvertStep, Refuse, MakeTree, InitStatus, StoreInputs, Seed, JobOf
  <2>2. mu # None => JobOf(mu) # j /\ mu # j
    <3>1. hpc[j] \in {"new", "made", "created", "stored"}
      BY <1>1 DEF ConvertStep, Refuse, MakeTree, InitStatus, StoreInputs, Seed
    <3>2. mu # j /\ \A r \in Retries : target[r] # j BY <3>1 DEF LockOK, PhaseOK
    <3>3. QED BY <3>2 DEF JobOf
  <2>3. (HolderSaved /\ ResetHeld /\ MergeHeld)' BY <1>0, <2>1, <2>2, HeldQuiet
  <2>4. ASSUME NEW t \in Tasks, Using(t)', JobOf(t) \notin raced PROVE JobOf(t) \in saved'
    <3>1. CASE Using(t) BY <2>1, <2>4, <3>1 DEF UsersSaved
    <3>2. CASE ~Using(t)
      <4>1. t = j /\ Seed(j) /\ hpc'[j] = "seeded"
        BY <1>1, <2>1, <2>4, <3>2
           DEF Using, ConvertStep, Refuse, MakeTree, InitStatus, StoreInputs, Seed
      <4>2. QED BY <4>1 DEF Seed, JobOf
    <3>3. QED BY <3>1, <3>2
  <2>5. UsersSaved' BY <2>1, <2>4 DEF UsersSaved
  <2>6. QED BY <2>3, <2>5
<1>2. ASSUME NEW r \in Retries, RetryStep(r) PROVE Goal
  <2>1. CASE RetryOpen(r)
    <3>1. /\ hpc[r] = "new" /\ hpc'[r] \in {"found", "refused"}
          /\ hpc' = [hpc EXCEPT ![r] = hpc'[r]] /\ target' = [target EXCEPT ![r] = target'[r]]
          /\ UNCHANGED <<wpc, snap, mu, raced, todo, saved, status, dir>>
      BY <2>1 DEF RetryOpen
    <3>2. wpc[r] = "off" /\ mu # r BY <3>1 DEF PhaseOK, LockOK
    <3>3. \A t \in Tasks : t # r => JobOf(t)' = JobOf(t) BY <3>1 DEF JobOf
    <3>4. UsersSaved' BY <3>1, <3>2, <3>3 DEF UsersSaved, Using
    <3>5. (HolderSaved /\ ResetHeld /\ MergeHeld)' BY <3>1, <3>2, <3>3, HeldQuiet
    <3>6. QED BY <3>4, <3>5
  <2>2. CASE RetryConfig(r)
    <3>1. /\ hpc'[r] \in {"configured", "refused"} /\ hpc' = [hpc EXCEPT ![r] = hpc'[r]]
          /\ UNCHANGED <<wpc, snap, mu, raced, todo, saved, status, dir, target>>
      BY <2>2 DEF RetryConfig
    <3>2. \A t \in Tasks : JobOf(t)' = JobOf(t) BY <3>1 DEF JobOf
    <3>3. UsersSaved' BY <3>1, <3>2 DEF UsersSaved, Using
    <3>4. (HolderSaved /\ ResetHeld /\ MergeHeld)' BY <3>1, <3>2, HeldQuiet
    <3>5. QED BY <3>3, <3>4
  <2>3. CASE RetryReset(r)
    <3>1. /\ hpc[r] = "configured" /\ mu = None
          /\ hpc'[r] \in {"answered", "refused", "locked"} /\ hpc' = [hpc EXCEPT ![r] = hpc'[r]]
          /\ UNCHANGED <<wpc, raced, saved, status, dir, target>>
      BY <2>3 DEF RetryReset, LockFree
    <3>2. wpc[r] = "off" /\ target[r] \in Jobs /\ r \notin Jobs BY <3>1 DEF PhaseOK, TargetOK
    <3>3. \A t \in Tasks : JobOf(t)' = JobOf(t) BY <3>1 DEF JobOf
    <3>4. UsersSaved' BY <3>1, <3>3 DEF UsersSaved, Using
    <3>5. \/ mu' = None
          \/ /\ target[r] \in saved /\ FailedOf(status[target[r]].rows) # {}
             /\ mu' = r /\ snap' = Reset(status[target[r]])
      BY <2>3, <3>1 DEF RetryReset
    <3>6. CASE mu' = None
      BY <3>4, <3>6 DEF HolderSaved, ResetHeld, MergeHeld
    <3>7. CASE /\ target[r] \in saved /\ FailedOf(status[target[r]].rows) # {}
               /\ mu' = r /\ snap' = Reset(status[target[r]])
      <4>1. HolderSaved' BY <3>1, <3>2, <3>3, <3>7 DEF HolderSaved, JobOf
      <4>2. status[target[r]] \in Status BY <3>2
      <4>3. /\ ~snap'.done
            /\ \A k \in Inputs : snap'.rows[k].state =
                 IF State(target[r], k) = "failed" THEN "pending" ELSE State(target[r], k)
        BY <3>7, <4>2, ResetStates DEF State
      <4>4. ResetHeld' BY <3>1, <3>7, <4>3 DEF ResetHeld, ResetOf, State
      <4>5. MergeHeld' BY <3>1, <3>2, <3>7 DEF MergeHeld
      <4>6. QED BY <3>4, <4>1, <4>4, <4>5
    <3>8. QED BY <3>5, <3>6, <3>7
  <2>4. CASE RetrySave(r)
    <3>1. /\ hpc[r] = "locked" /\ mu' = None
          /\ UNCHANGED <<wpc, raced, target>>
          /\ hpc' = [hpc EXCEPT ![r] = hpc'[r]]
          /\ \/ hpc'[r] = "seeded" /\ saved' = saved \cup {target[r]}
             \/ hpc'[r] = "refused" /\ UNCHANGED saved
      BY <2>4 DEF RetrySave, SaveSnap, Unlock
    <3>2. \A t \in Tasks : JobOf(t)' = JobOf(t) BY <3>1 DEF JobOf
    <3>3. wpc[r] = "off" /\ JobOf(r) = target[r] BY <3>1 DEF PhaseOK, JobOf
    <3>4. UsersSaved' BY <3>1, <3>2, <3>3 DEF UsersSaved, Using
    <3>5. QED BY <3>1, <3>4 DEF HolderSaved, ResetHeld, MergeHeld
  <2>5. QED BY <1>2, <2>1, <2>2, <2>3, <2>4 DEF RetryStep
<1>3. ASSUME NEW t \in Tasks, TaskStep(t) PROVE Goal
  <2>. DEFINE j == JobOf(t)
  <2>0. UNCHANGED <<raced, target>> /\ \A u \in Tasks : JobOf(u)' = JobOf(u)
    BY <1>3 DEF TaskStep, Launch, Answer, Acquire, FbcSucceeds, FbcFails, Record, RecordSaves,
                JobOf
  <2>1. \A u \in Tasks : Using(u)' => Using(u)
    BY <1>3 DEF TaskStep, Launch, Answer, Acquire, FbcSucceeds, FbcFails, Record, RecordSaves,
                Release, Advance, Using
  <2>2. saved \subseteq saved'
    BY <1>3 DEF TaskStep, Launch, Answer, Acquire, FbcSucceeds, FbcFails, Record, RecordSaves,
                SaveSnap
  <2>3. UsersSaved' BY <2>0, <2>1, <2>2 DEF UsersSaved
  <2>4. CASE Launch(t) \/ Answer(t) \/ Acquire(t) \/ FbcSucceeds(t) \/ FbcFails(t)
    <3>1. /\ UNCHANGED <<snap, mu, saved, status, todo>>
          /\ \A u \in Tasks : wpc'[u] # wpc[u] => u = t
          /\ dir' \subseteq dir \cup {j}
          /\ dir' # dir => Using(t) /\ wpc[t] # "off"
      BY <2>4 DEF Launch, Answer, Acquire, FbcSucceeds, FbcFails, Release, Using
    <3>2. mu = t => wpc'[t] = wpc[t]
      <4>1. CASE Answer(t) BY <4>1 DEF Answer
      <4>2. CASE ~Answer(t)
        <5>1. hpc[t] = "seeded" \/ wpc[t] \in {"queued", "fbc"}
          BY <2>4, <4>2 DEF Launch, Acquire, FbcSucceeds, FbcFails
        <5>2. QED BY <5>1 DEF LockOK, PhaseOK
      <4>3. QED BY <4>1, <4>2
    <3>3. dir' # dir => j \in raced \/ j \in saved BY <3>1 DEF UsersSaved
    <3>4. HolderSaved' BY <2>0, <3>1, <3>3 DEF HolderSaved
    <3>5. ResetHeld'
      <4>1. \A u \in Tasks : hpc'[u] = "locked" => hpc[u] = "locked"
        BY <2>4 DEF Launch, Answer, Acquire, FbcSucceeds, FbcFails
      <4>2. QED BY <2>0, <3>1, <4>1 DEF ResetHeld, ResetOf, Live, State
    <3>6. MergeHeld'
      <4>1. ASSUME NEW u \in Tasks, mu = u, wpc'[u] = "merging" PROVE wpc[u] = "merging"
        BY <3>1, <3>2, <4>1
      <4>2. QED BY <2>0, <3>1, <4>1 DEF MergeHeld, IsNext, Live, State
    <3>7. QED BY <2>3, <3>4, <3>5, <3>6
  <2>5. CASE Record(t)
    <3>1. PICK i \in todo[t] :
            /\ IsNext(t, i)
            /\ \/ j \notin saved /\ Advance(t, i) /\ UNCHANGED <<mu, snap>>
               \/ /\ j \in saved /\ mu' = t /\ snap' = Merge(status[j], i, result[t])
                  /\ wpc' = [wpc EXCEPT ![t] = "merging"] /\ UNCHANGED <<todo, result>>
      BY <2>5 DEF Record
    <3>2. /\ wpc[t] = "finished" /\ mu = None
          /\ UNCHANGED <<hpc, saved, status, dir>>
      BY <2>5 DEF Record, LockFree
    <3>3. CASE mu' = None BY <2>3, <3>3 DEF HolderSaved, ResetHeld, MergeHeld
    <3>4. CASE /\ j \in saved /\ mu' = t /\ snap' = Merge(status[j], i, result[t])
               /\ UNCHANGED todo
      <4>1. status[j] \in Status /\ i \in Inputs /\ result[t] \in Row BY <3>4
      <4>2. result[t].state \in {"done", "failed"} BY <3>2 DEF WorkOK
      <4>3. /\ snap'.rows[i].state \in {"done", "failed"}
            /\ \A k \in Inputs \ {i} : snap'.rows[k].state = State(j, k)
        BY <3>4, <4>1, <4>2, MergeStates DEF State
      <4>4. HolderSaved' BY <2>0, <3>2, <3>4 DEF HolderSaved
      <4>5. hpc[t] # "locked" /\ \A r \in Retries : hpc[r] # "locked" BY <3>2 DEF LockOK
      <4>6. ResetHeld'
        BY <3>2, <3>4, <4>5 DEF ResetHeld
      <4>7. \A k \in Inputs : IsNext(t, k) => k = i BY <3>1 DEF IsNext, Inputs
      <4>8. MergeHeld' BY <2>0, <3>2, <3>4, <4>3, <4>7 DEF MergeHeld, IsNext, State
      <4>9. QED BY <2>3, <4>4, <4>6, <4>8
    <3>5. QED BY <3>1, <3>2, <3>3, <3>4
  <2>6. CASE RecordSaves(t)
    <3>1. mu' = None BY <2>6 DEF RecordSaves, Unlock
    <3>2. QED BY <2>3, <3>1 DEF HolderSaved, ResetHeld, MergeHeld
  <2>7. QED BY <1>3, <2>4, <2>5, <2>6 DEF TaskStep
<1>4. ASSUME SweepRemove PROVE Goal
  <2>. DEFINE j == sweepJob
  <2>1. /\ dir' = dir \ {j} /\ saved' = saved \ {j}
        /\ status' = [status EXCEPT ![j] = NoRows]
        /\ raced \subseteq raced'
        /\ (\E t \in Tasks : JobOf(t) = j /\ Using(t)) => j \in raced'
        /\ UNCHANGED <<hpc, wpc, todo, target, snap, mu>>
    BY <1>4 DEF SweepRemove
  <2>2. \A t \in Tasks : JobOf(t)' = JobOf(t) /\ (Using(t)' <=> Using(t))
    BY <2>1 DEF JobOf, Using
  <2>3. UsersSaved' BY <2>1, <2>2 DEF UsersSaved
  <2>4. HolderSaved' BY <2>1, <2>2 DEF HolderSaved
  <2>5. ResetHeld' BY <2>1 DEF ResetHeld, ResetOf, Live, State
  <2>6. MergeHeld' BY <2>1, <2>2 DEF MergeHeld, IsNext, Live, State
  <2>7. QED BY <2>3, <2>4, <2>5, <2>6
<1>5. ASSUME SweepLoad \/ (\E j \in Jobs : Age(j) \/ SweepAge(j)) \/ Quiescent \/ UNCHANGED vars
      PROVE  Goal
  <2>1. UNCHANGED <<hpc, wpc, todo, target, snap, mu, dir, saved, status, raced>>
    BY <1>5 DEF SweepLoad, Age, SweepAge, Quiescent, vars
  <2>2. \A t \in Tasks : JobOf(t)' = JobOf(t) /\ (Using(t)' <=> Using(t))
    BY <2>1 DEF JobOf, Using
  <2>3. UsersSaved' BY <2>1, <2>2 DEF UsersSaved
  <2>4. (HolderSaved /\ ResetHeld /\ MergeHeld)' BY <2>1, <2>2, HeldQuiet
  <2>5. QED BY <2>3, <2>4
<1>6. ASSUME Crash PROVE Goal
  <2>1. /\ \A t \in Tasks : wpc'[t] = "off" /\ hpc'[t] \notin {"seeded", "launched"}
        /\ mu' = None
    BY <1>6 DEF Crash, Open
  <2>2. QED BY <2>1 DEF UsersSaved, HolderSaved, ResetHeld, MergeHeld, Using
<1>7. QED BY <1>1, <1>2, <1>3, <1>4, <1>5, <1>6 DEF Next, SweeperStep

LEMMA StoredNext ==
  ASSUME IInv, HoldOK, StoredOK, [Next]_vars
  PROVE  StoredOK'
<1>. USE TasksAssumption
<1>. USE DEF IInv, TypeInv, TypeOK, Tasks, disk, Workers, Sweeper, Goto, StoredOK
<1>1. ASSUME NEW j \in Jobs, ConvertStep(j) PROVE StoredOK'
  <2>1. CASE StoreInputs(j)
    <3>1. PICK n \in 0..MaxFiles :
            /\ stored' = [stored EXCEPT ![j] = 1..n]
            /\ \/ n > 0 /\ Goto(j, "stored")
               \/ n < MaxFiles /\ MayFail("inputs") /\ Goto(j, "refused")
      BY <2>1 DEF StoreInputs
    <3>2. n > 0 => n \in Inputs BY FilesAssumption DEF Inputs
    <3>3. \A k \in Jobs : k # j => hpc'[k] = hpc[k] /\ stored'[k] = stored[k] BY <3>1
    <3>4. hpc'[j] = "stored" => stored'[j] = 1..n /\ n > 0 BY <3>1
    <3>5. QED BY <3>2, <3>3, <3>4
  <2>2. CASE Refuse(j) \/ MakeTree(j) \/ InitStatus(j) \/ Seed(j)
    BY <2>2 DEF Refuse, MakeTree, InitStatus, Seed
  <2>3. QED BY <1>1, <2>1, <2>2 DEF ConvertStep
<1>2. ASSUME NEW r \in Retries, RetryStep(r) PROVE StoredOK'
  BY <1>2 DEF RetryStep, RetryOpen, RetryConfig, RetryReset, RetrySave
<1>3. ASSUME NEW t \in Tasks, TaskStep(t) PROVE StoredOK'
  BY <1>3 DEF TaskStep, Launch, Answer, Acquire, FbcSucceeds, FbcFails, Record, RecordSaves
<1>4. ASSUME SweeperStep PROVE StoredOK'
  BY <1>4 DEF SweeperStep, SweepLoad, SweepRemove, Age, SweepAge, HoldOK, Open
<1>5. CASE Crash BY <1>5 DEF Crash, Open
<1>6. CASE Quiescent \/ UNCHANGED vars BY <1>6 DEF Quiescent, vars
<1>7. QED BY <1>1, <1>2, <1>3, <1>4, <1>5, <1>6 DEF Next

-----------------------------------------------------------------------------
\* The cards, and the ledger's actions on them.
Cards == [j \in Jobs |-> Card(j)]

LEMMA CardOf ==
  ASSUME NEW j \in Jobs
  PROVE  /\ j \in saved => Card(j) = [files |-> [i \in Inputs |-> State(j, i)], done |-> status[j].done]
         /\ j \notin saved => Card(j) = Ledger!Blank
         /\ Cards[j] = Card(j)
  BY DEF Card, State, Cards, Ledger!Blank, Ledger!Inputs, Inputs, NoRows, NoRow

\* What the ledger sees, and a step in which it sees nothing.
Seen == <<Cards, raced>>

LEMMA ShowsNothing ==
  ASSUME raced' = raced,
         \A j \in Jobs : (j \in saved' <=> j \in saved) /\ (j \in saved => status'[j] = status[j])
  PROVE  UNCHANGED Seen
  BY DEF Seen, Cards, Card

\* A step that changes one job shows one card.
LEMMA ShowsOne ==
  ASSUME NEW j \in Jobs,
         \A k \in Jobs : k # j => (k \in saved' <=> k \in saved) /\ (k \in saved => status'[k] = status[k])
  PROVE  Cards' = [Cards EXCEPT ![j] = Card(j)']
  BY DEF Cards, Card

\* A card is always whole, and that is all that is promised of a raced job.
LEMMA CardWhole ==
  ASSUME IInv, NEW j \in Jobs
  PROVE  Ledger!Whole(Card(j))
<1>. USE DEF Ledger!Inputs, Inputs
<1>1. CASE j \in saved
  <2>. DEFINE files == [i \in Inputs |-> State(j, i)]
  <2>1. Card(j) = [files |-> files, done |-> status[j].done] BY <1>1, CardOf
  <2>2. status[j] \in Status BY DEF IInv, TypeInv, TypeOK
  <2>3. /\ \A i \in Inputs : State(j, i) \in States
        /\ status[j].done \in BOOLEAN
    BY <2>2 DEF Status, Row, State
  <2>4. Card(j) \in Ledger!Cards
    BY <2>1, <2>3 DEF Ledger!Cards, Ledger!FileStates, Ledger!Terminal, States
  <2>5. status[j].done <=> AllTerminal(status[j].rows)
    BY <1>1 DEF IInv, DoneIffTerminal
  <2>6. Present(status[j].rows) # {} <=> \E i \in Inputs : State(j, i) # "absent"
    BY DEF Present, State
  <2>7. AllTerminal(status[j].rows) <=>
          /\ \E i \in Inputs : State(j, i) # "absent"
          /\ \A i \in Inputs : State(j, i) # "pending"
    BY <2>3, <2>6 DEF AllTerminal, Present, State, States
  <2>8. Ledger!AllSettled(Card(j).files) <=> \A i \in Inputs : State(j, i) # "pending"
    BY <2>1 DEF Ledger!AllSettled
  <2>9. CASE \E i \in Inputs : State(j, i) # "absent"
    <3>1. Card(j) # Ledger!Blank BY <2>1, <2>9 DEF Ledger!Blank
    <3>2. QED BY <2>1, <2>4, <2>5, <2>7, <2>8, <2>9, <3>1 DEF Ledger!Whole
  <2>10. CASE \A i \in Inputs : State(j, i) = "absent"
    <3>1. ~status[j].done BY <2>5, <2>7, <2>10
    <3>2. Card(j) = Ledger!Blank BY <2>1, <2>3, <2>10, <3>1 DEF Ledger!Blank
    <3>3. QED BY <2>1, <2>4, <3>1, <3>2 DEF Ledger!Whole
  <2>11. QED BY <2>9, <2>10
<1>2. CASE j \notin saved
  <2>1. Card(j) = Ledger!Blank BY <1>2, CardOf
  <2>2. Ledger!Blank \in Ledger!Cards
    BY DEF Ledger!Blank, Ledger!Cards, Ledger!FileStates
  <2>3. ~Ledger!Blank.done BY DEF Ledger!Blank
  <2>4. QED BY <2>1, <2>2, <2>3 DEF Ledger!Whole
<1>3. QED BY <1>1, <1>2

LEMMA CardsWhole == IInv => \A j \in Jobs : Ledger!Whole(Card(j))
  BY CardWhole

LEMMA CardsWholeNext == IInv' => (\A j \in Jobs : Ledger!Whole(Card(j)))'
  BY CardsWhole, PTL

LEMMA StrayShown ==
  ASSUME IInv', NEW j \in Jobs, j \in raced, raced' = raced,
         Cards' = [Cards EXCEPT ![j] = Card(j)']
  PROVE  [Ledger!Next]_Seen
<1>. DEFINE card == Card(j)'
<1>1. Ledger!Whole(card) BY CardsWholeNext DEF Ledger!Whole
<1>2. card \in Ledger!Cards /\ Cards' = [Cards EXCEPT ![j] = card] BY <1>1 DEF Ledger!Whole
<1>3. Ledger!Stray(j) BY <1>1, <1>2 DEF Ledger!Stray, Cards
<1>4. QED BY <1>3 DEF Ledger!Next

LEMMA AcceptShown ==
  ASSUME NEW j \in Jobs, NEW n \in Inputs, Cards[j] = Ledger!Blank,
         Cards' = [Cards EXCEPT ![j] =
           [files |-> [i \in Inputs |-> IF i <= n THEN "pending" ELSE "absent"],
            done |-> FALSE]]
  PROVE  raced' = raced => Ledger!Accept(j)
  BY DEF Ledger!Accept, Ledger!Inputs, Inputs, Cards

LEMMA SettleShown ==
  ASSUME NEW j \in Jobs, NEW i \in Inputs, NEW s \in {"done", "failed"}, NEW files,
         Cards[j].files[i] = "pending",
         files = [Cards[j].files EXCEPT ![i] = s],
         Cards' = [Cards EXCEPT ![j] = [files |-> files, done |-> Ledger!AllSettled(files)]]
  PROVE  raced' = raced => Ledger!Settle(j)
  BY DEF Ledger!Settle, Ledger!Inputs, Inputs, Ledger!Terminal, Cards

LEMMA ReopenShown ==
  ASSUME NEW j \in Jobs, NEW i \in Inputs, Cards[j].files[i] = "failed",
         Cards' = [Cards EXCEPT ![j] =
           [files |-> [k \in Inputs |-> IF Cards[j].files[k] = "failed" THEN "pending"
                                        ELSE Cards[j].files[k]],
            done |-> FALSE]]
  PROVE  raced' = raced => Ledger!Reopen(j)
  BY DEF Ledger!Reopen, Ledger!Inputs, Inputs, Cards

LEMMA ForgetShown ==
  ASSUME NEW j \in Jobs, Cards[j].done, Cards' = [Cards EXCEPT ![j] = Ledger!Blank]
  PROVE  raced' \in {raced, raced \cup {j}} => Ledger!Forget(j)
  BY DEF Ledger!Forget, Ledger!Remove, Cards

LEMMA LoseShown ==
  ASSUME NEW j \in Jobs, NEW i \in Inputs, ~Cards[j].done, Cards[j].files[i] = "pending",
         Cards' = [Cards EXCEPT ![j] = Ledger!Blank]
  PROVE  raced' \in {raced, raced \cup {j}} => Ledger!LoseReopened(j)
  BY DEF Ledger!LoseReopened, Ledger!Remove, Ledger!Inputs, Inputs, Cards

-----------------------------------------------------------------------------
\* One step of the ledger for one step of JobFlow.

LEMMA SeedShown ==
  ASSUME IInv, IInv', HoldOK, StoredOK, NEW j \in Jobs, Seed(j)
  PROVE  [Ledger!Next]_Seen
<1>. USE DEF IInv, TypeInv, TypeOK, PhaseOK
<1>1. CASE j \in Live /\ status' = [status EXCEPT ![j] = Seeded(@, stored[j])]
  <2>1. /\ hpc[j] = "stored" /\ status[j] = NoRows
        /\ saved' = saved /\ raced' = raced
    BY <1>1 DEF Seed, Live
  <2>2. PICK n \in Inputs : stored[j] = 1..n BY <2>1 DEF StoredOK
  <2>. DEFINE st == Seeded(status[j], stored[j])
  <2>3. status'[j] = st BY <1>1
  <2>4. /\ \A i \in Inputs : st.rows[i].state = IF i <= n THEN "pending" ELSE "absent"
        /\ st.done = FALSE
    BY <2>1, <2>2 DEF Seeded, NoRows, NoRow, Pending, Inputs
  <2>. HIDE DEF st
  <2>5. Card(j)' = [files |-> [i \in Inputs |-> IF i <= n THEN "pending" ELSE "absent"],
                    done |-> FALSE]
    <3>1. Card(j)' = [files |-> [i \in Inputs |-> st.rows[i].state], done |-> st.done]
      BY <1>1, <2>1, <2>3 DEF Card, Live
    <3>2. [i \in Inputs |-> st.rows[i].state] =
            [i \in Inputs |-> IF i <= n THEN "pending" ELSE "absent"]
      BY <2>4, Zenon
    <3>3. QED BY <2>4, <3>1, <3>2, Zenon
  <2>6. Cards[j] = Ledger!Blank
    <3>1. (\A i \in Inputs : State(j, i) = "absent") /\ status[j].done = FALSE
      BY <2>1 DEF NoRows, NoRow, State
    <3>2. Cards[j] = [files |-> [i \in Inputs |-> State(j, i)], done |-> status[j].done]
      BY <1>1, CardOf DEF Live
    <3>3. Cards[j] = [files |-> [i \in Inputs |-> "absent"], done |-> FALSE]
      <4>1. [i \in Inputs |-> State(j, i)] = [i \in Inputs |-> "absent"] BY <3>1, Zenon
      <4>2. QED BY <3>1, <3>2, <4>1, Zenon
    <3>4. QED BY <3>3 DEF Ledger!Blank, Ledger!Inputs, Inputs
  <2>7. Cards' = [Cards EXCEPT ![j] = Card(j)'] BY <1>1, <2>1, ShowsOne
  <2>8. Ledger!Accept(j) BY <2>1, <2>2, <2>5, <2>6, <2>7, AcceptShown
  <2>9. QED BY <1>1, <2>8 DEF Ledger!Next, Live
<1>2. CASE j \in raced /\ j \in saved
  <2>1. saved' = saved /\ raced' = raced /\ \A k \in Jobs : k # j => status'[k] = status[k]
    BY DEF Seed
  <2>2. Cards' = [Cards EXCEPT ![j] = Card(j)'] BY <2>1, ShowsOne
  <2>3. QED BY <1>2, <2>1, <2>2, StrayShown
<1>3. CASE UNCHANGED status
  BY <1>3, ShowsNothing DEF Seed
<1>4. QED BY <1>1, <1>2, <1>3 DEF Seed, Live

LEMMA RetrySaveShown ==
  ASSUME IInv, IInv', HoldOK, HolderSaved, ResetHeld, NEW r \in Retries, RetrySave(r),
         NEW j \in Jobs, j = target[r]
  PROVE  [Ledger!Next]_Seen
<1>. USE TasksAssumption DEF IInv, TypeInv, TypeOK, Tasks
<1>1. hpc[r] = "locked" /\ mu = r /\ JobOf(r) = j /\ raced' = raced
  BY DEF RetrySave, LockOK, JobOf
<1>2. CASE SaveSnap(j) /\ j \notin raced
  <2>1. j \in Live BY <1>1, <1>2 DEF HolderSaved, SaveSnap, Live
  <2>2. ResetOf(j) BY <1>1, <2>1 DEF ResetHeld
  <2>3. /\ saved' = saved /\ status' = [status EXCEPT ![j] = snap]
    BY <1>2, <2>1 DEF SaveSnap, Live
  <2>4. Cards' = [Cards EXCEPT ![j] = Card(j)'] BY <1>1, <2>3, ShowsOne
  <2>5. Card(j)' = [files |-> [i \in Inputs |-> snap.rows[i].state], done |-> snap.done]
    BY <1>1, <2>1, <2>3 DEF Card, Live
  <2>6. \A k \in Inputs : Cards[j].files[k] = State(j, k) BY <1>1, <2>1, CardOf DEF Live
  <2>7. PICK i \in Inputs : Cards[j].files[i] = "failed"
    BY <2>2, <2>6 DEF ResetOf, FailedOf, State
  <2>8. snap.done = FALSE BY <2>2 DEF ResetOf, Status
  <2>9. Card(j)' = [files |-> [k \in Inputs |-> IF Cards[j].files[k] = "failed" THEN "pending"
                                                 ELSE Cards[j].files[k]],
                    done |-> FALSE]
    <3>1. \A k \in Inputs : snap.rows[k].state =
            IF Cards[j].files[k] = "failed" THEN "pending" ELSE Cards[j].files[k]
      BY <2>2, <2>6 DEF ResetOf
    <3>2. [k \in Inputs |-> snap.rows[k].state] =
            [k \in Inputs |-> IF Cards[j].files[k] = "failed" THEN "pending"
                              ELSE Cards[j].files[k]]
      BY <3>1
    <3>3. QED BY <2>5, <2>8, <3>2
  <2>10. Cards' = [Cards EXCEPT ![j] =
           [files |-> [k \in Inputs |-> IF Cards[j].files[k] = "failed" THEN "pending"
                                         ELSE Cards[j].files[k]],
            done |-> FALSE]]
    BY <2>4, <2>9
  <2>11. Ledger!Reopen(j) BY <1>1, <2>7, <2>10, ReopenShown
  <2>12. QED BY <1>2, <2>11 DEF Ledger!Next
<1>3. CASE SaveSnap(j) /\ j \in raced
  <2>1. Cards' = [Cards EXCEPT ![j] = Card(j)'] BY <1>3, ShowsOne DEF SaveSnap
  <2>2. QED BY <1>1, <1>3, <2>1, StrayShown
<1>4. CASE UNCHANGED <<saved, status>>
  BY <1>1, <1>4, ShowsNothing
<1>5. QED BY <1>2, <1>3, <1>4 DEF RetrySave

LEMMA RecordShown ==
  ASSUME IInv, IInv', RowsOK, HolderSaved, MergeHeld, NEW t \in Tasks, RecordSaves(t),
         NEW j \in Jobs, j = JobOf(t)
  PROVE  [Ledger!Next]_Seen
<1>. USE TasksAssumption DEF IInv, TypeInv, TypeOK, Tasks
<1>1. wpc[t] = "merging" /\ mu = t /\ raced' = raced
  BY DEF RecordSaves, LockOK
<1>2. PICK i \in todo[t] :
        IsNext(t, i) /\ (SaveSnap(j) \/ UNCHANGED <<saved, status>>)
  BY DEF RecordSaves
<1>3. CASE SaveSnap(j) /\ j \notin raced
  <2>1. i \in Inputs /\ j \in Live BY <1>1, <1>3 DEF HolderSaved, SaveSnap, Live
  <2>2. /\ snap.rows[i].state \in {"done", "failed"}
        /\ \A k \in Inputs \ {i} : snap.rows[k].state = State(j, k)
    BY <1>1, <1>2, <2>1 DEF MergeHeld
  <2>3. saved' = saved /\ status' = [status EXCEPT ![j] = snap]
    BY <1>3, <2>1 DEF SaveSnap, Live
  <2>4. Cards' = [Cards EXCEPT ![j] = Card(j)'] BY <1>1, <2>3, ShowsOne
  <2>5. Card(j)' = [files |-> [k \in Inputs |-> snap.rows[k].state], done |-> snap.done]
    BY <1>1, <2>1, <2>3 DEF Card, Live
  <2>6. Cards[j].files = [k \in Inputs |-> State(j, k)] BY <2>1, CardOf DEF Live
  <2>7. State(j, i) = "pending"
    <3>1. hpc[t] # "locked" BY <1>1 DEF PhaseOK
    <3>2. QED BY <2>1, <3>1 DEF OwnedPending, State, Live
  <2>. DEFINE files == [k \in Inputs |-> snap.rows[k].state]
  <2>8. files = [Cards[j].files EXCEPT ![i] = snap.rows[i].state]
    BY <2>1, <2>2, <2>6
  <2>9. snap.done = Ledger!AllSettled(files)
    <3>1. snap.done <=> AllTerminal(snap.rows) BY <1>1 DEF SnapOK
    <3>2. Present(snap.rows) # {} BY <1>1 DEF RowsOK
    <3>3. \A k \in Inputs : snap.rows[k].state \in States BY DEF Status, Row
    <3>4. AllTerminal(snap.rows) <=> \A k \in Inputs : snap.rows[k].state # "pending"
      BY <3>2, <3>3 DEF AllTerminal, Present, States
    <3>5. Ledger!AllSettled(files) <=> \A k \in Inputs : snap.rows[k].state # "pending"
      BY DEF Ledger!AllSettled, Ledger!Inputs, Inputs
    <3>6. snap.done \in BOOLEAN BY DEF Status
    <3>7. QED BY <3>1, <3>4, <3>5, <3>6, Zenon DEF Ledger!AllSettled
  <2>10. Cards[j].files[i] = "pending" BY <2>1, <2>6, <2>7
  <2>11. Cards' = [Cards EXCEPT ![j] = [files |-> files, done |-> Ledger!AllSettled(files)]]
    BY <2>4, <2>5, <2>9
  <2>12. Ledger!Settle(j) BY <1>1, <2>1, <2>2, <2>8, <2>10, <2>11, SettleShown
  <2>13. QED BY <1>3, <2>12 DEF Ledger!Next
<1>4. CASE SaveSnap(j) /\ j \in raced
  <2>1. Cards' = [Cards EXCEPT ![j] = Card(j)'] BY <1>4, ShowsOne DEF SaveSnap
  <2>2. QED BY <1>1, <1>4, <2>1, StrayShown
<1>5. CASE UNCHANGED <<saved, status>>
  BY <1>1, <1>5, ShowsNothing
<1>6. QED BY <1>2, <1>3, <1>4, <1>5

LEMMA RemoveShown ==
  ASSUME IInv, IInv', UsersSaved, RowsOK, WorkOK, SweepRemove, NEW j \in Jobs, j = sweepJob
  PROVE  [Ledger!Next]_Seen
<1>. USE DEF IInv, TypeInv, TypeOK
<1>1. /\ saved' = saved \ {j} /\ status' = [status EXCEPT ![j] = NoRows]
      /\ raced' \in {raced, raced \cup {j}}
  BY DEF SweepRemove
<1>0. raced' # raced => \E t \in Tasks : JobOf(t) = j /\ Using(t) BY DEF SweepRemove
<1>2. CASE j \notin saved /\ j \notin raced
  <2>1. raced' = raced BY <1>0, <1>2 DEF UsersSaved
  <2>2. QED BY <1>1, <1>2, <2>1, ShowsNothing
<1>5. CASE j \in raced
  <2>0. raced \cup {j} = raced BY <1>5
  <2>1. raced' = raced BY <1>1, <2>0
  <2>2. Cards' = [Cards EXCEPT ![j] = Card(j)'] BY <1>1, ShowsOne
  <2>3. QED BY <1>5, <2>1, <2>2, StrayShown
<1>3. CASE j \in Live
  <2>1. Cards' = [Cards EXCEPT ![j] = Card(j)'] BY <1>1, ShowsOne
  <2>2. Card(j)' = Ledger!Blank
    BY <1>1 DEF Card, Ledger!Blank, Ledger!Inputs, Inputs, NoRows, NoRow
  <2>3. Cards' = [Cards EXCEPT ![j] = Ledger!Blank] BY <2>1, <2>2
  <2>4. Cards[j] = [files |-> [i \in Inputs |-> State(j, i)], done |-> status[j].done]
    BY <1>3, CardOf DEF Live
  <2>5. CASE status[j].done
    <3>1. status[j].done = TRUE BY <2>5 DEF Status
    <3>2. Cards[j].done BY <2>4, <3>1
    <3>3. Ledger!Forget(j) BY <1>1, <2>3, <3>2, ForgetShown
    <3>4. QED BY <1>3, <3>3 DEF Ledger!Next, Live
  <2>6. CASE ~status[j].done /\ \E i \in Inputs : State(j, i) = "pending"
    <3>1. status[j].done = FALSE BY <2>6 DEF Status
    <3>2. PICK i \in Inputs : Cards[j].files[i] = "pending" BY <2>4, <2>6
    <3>3. ~Cards[j].done BY <2>4, <3>1
    <3>4. Ledger!LoseReopened(j) BY <1>1, <2>3, <3>2, <3>3, LoseShown
    <3>5. QED BY <1>3, <3>4 DEF Ledger!Next, Live
  <2>7. CASE ~status[j].done /\ \A i \in Inputs : State(j, i) # "pending"
    <3>1. ~AllTerminal(status[j].rows) BY <1>3, <2>7 DEF DoneIffTerminal, Live
    <3>2. \A i \in Inputs : State(j, i) \in States BY DEF Status, Row, State
    <3>3. \A i \in Inputs : State(j, i) = "absent"
      BY <2>7, <3>1, <3>2 DEF AllTerminal, Present, States, State
    <3>4. status[j].done = FALSE BY <2>7 DEF Status
    <3>5. Cards[j] = Ledger!Blank
      BY <2>4, <3>3, <3>4 DEF Ledger!Blank, Ledger!Inputs, Inputs
    <3>6. Cards' = Cards BY <2>3, <3>5 DEF Cards
    <3>7. raced' = raced
      <4>1. ASSUME NEW t \in Tasks, JobOf(t) = j, Using(t) PROVE FALSE
        <5>1. CASE hpc[t] = "launched"
          <6>1. hpc[j] \in {"launched", "answered"} BY <4>1, <5>1, TasksAssumption DEF JobOf, Tasks, PhaseOK
          <6>2. Present(status[j].rows) # {} BY <1>3, <6>1 DEF RowsOK, Live
          <6>3. QED BY <3>3, <6>2 DEF Present, State
        <5>2. CASE hpc[t] # "launched"
          <6>1. todo[t] # {} /\ hpc[t] # "locked" BY <4>1, <5>2 DEF WorkOK, Using, PhaseOK
          <6>2. PICK i \in todo[t] : TRUE BY <6>1
          <6>3. State(j, i) = "pending" BY <1>3, <4>1, <6>1, <6>2 DEF OwnedPending, State, Live
          <6>4. QED BY <2>7, <6>3, <6>2
        <5>3. QED BY <5>1, <5>2
      <4>2. QED BY <1>0, <4>1
    <3>8. QED BY <3>6, <3>7 DEF Seen
  <2>8. QED BY <2>5, <2>6, <2>7
<1>4. QED BY <1>2, <1>3, <1>5 DEF Live

LEMMA NextShown ==
  ASSUME IInv, IInv', HoldOK, WorkOK, RowsOK, HeldInv, [Next]_vars
  PROVE  [Ledger!Next]_Seen
<1>. USE TasksAssumption DEF HeldInv, Tasks
<1>0. status \in [Jobs -> Status] BY DEF IInv, TypeInv, TypeOK
<1>1. ASSUME NEW j \in Jobs, ConvertStep(j) PROVE [Ledger!Next]_Seen
  <2>1. CASE Seed(j) BY <2>1, SeedShown
  <2>2. CASE InitStatus(j)
    <3>1. hpc[j] = "made" /\ j \notin saved BY <2>2 DEF InitStatus, IInv, PhaseOK
    <3>2. /\ raced' = raced
          /\ \/ saved' = saved \cup {j} /\ status' = [status EXCEPT ![j] = NoRows]
             \/ UNCHANGED <<saved, status>>
      BY <2>2 DEF InitStatus
    <3>3. Cards' = [Cards EXCEPT ![j] = Card(j)'] BY <1>0, <3>2, ShowsOne
    <3>4. Card(j)' = Ledger!Blank
      <4>1. j \notin saved' \/ status'[j] = NoRows BY <1>0, <3>1, <3>2
      <4>2. (IF j \in saved' THEN status'[j] ELSE NoRows) = NoRows BY <4>1
      <4>3. Card(j)' = [files |-> [i \in Inputs |-> NoRows.rows[i].state], done |-> NoRows.done]
        BY <4>2 DEF Card
      <4>4. QED BY <4>3 DEF Ledger!Blank, Ledger!Inputs, Inputs, NoRows, NoRow
    <3>5. Cards[j] = Ledger!Blank BY <3>1, CardOf
    <3>6. UNCHANGED Seen BY <3>2, <3>3, <3>4, <3>5 DEF Seen, Cards
    <3>7. QED BY <3>6
  <2>3. CASE Refuse(j) \/ MakeTree(j) \/ StoreInputs(j)
    BY <2>3, ShowsNothing DEF Refuse, MakeTree, StoreInputs, disk
  <2>4. QED BY <1>1, <2>1, <2>2, <2>3 DEF ConvertStep
<1>2. ASSUME NEW r \in Retries, RetryStep(r) PROVE [Ledger!Next]_Seen
  <2>1. CASE RetrySave(r)
    <3>1. target[r] \in Jobs BY <2>1 DEF RetrySave, IInv, TypeInv, TypeOK, TargetOK
    <3>2. QED BY <2>1, <3>1, RetrySaveShown
  <2>2. CASE RetryOpen(r) \/ RetryConfig(r) \/ RetryReset(r)
    BY <2>2, ShowsNothing DEF RetryOpen, RetryConfig, RetryReset, disk
  <2>3. QED BY <1>2, <2>1, <2>2 DEF RetryStep
<1>3. ASSUME NEW t \in Tasks, TaskStep(t) PROVE [Ledger!Next]_Seen
  <2>1. CASE RecordSaves(t)
    <3>1. JobOf(t) \in Jobs
      BY <2>1 DEF RecordSaves, IInv, TypeInv, TypeOK, TargetOK, JobOf
    <3>2. QED BY <2>1, <3>1, RecordShown
  <2>2. CASE Launch(t) \/ Answer(t) \/ Acquire(t) \/ FbcSucceeds(t) \/ FbcFails(t) \/ Record(t)
    BY <2>2, ShowsNothing DEF Launch, Answer, Acquire, FbcSucceeds, FbcFails, Record, disk
  <2>3. QED BY <1>3, <2>1, <2>2 DEF TaskStep
<1>4. ASSUME SweeperStep PROVE [Ledger!Next]_Seen
  <2>1. CASE SweepRemove
    <3>1. sweepJob \in Jobs BY <2>1 DEF SweepRemove, IInv, TypeInv, SweepOK
    <3>2. QED BY <2>1, <3>1, RemoveShown
  <2>2. CASE SweepLoad \/ \E j \in Jobs : Age(j) \/ SweepAge(j)
    BY <2>2, ShowsNothing DEF SweepLoad, Age, SweepAge, disk
  <2>3. QED BY <1>4, <2>1, <2>2 DEF SweeperStep
<1>5. CASE Crash \/ Quiescent \/ UNCHANGED vars
  BY <1>5, ShowsNothing DEF Crash, Quiescent, vars, disk
<1>6. QED BY <1>1, <1>2, <1>3, <1>4, <1>5 DEF Next

LEMMA InitShown == Init => Cards = [j \in Jobs |-> Ledger!Blank]
  BY DEF Init, Cards, Card, NoRows, NoRow, Ledger!Blank, Ledger!Inputs, Inputs

\* For any number of jobs, retries and uploads, whatever writes fail and however
\* often the process dies, browsers are shown a run of the ledger: every step of
\* a handler, a worker or the sweeper is one step of it or none
\* (convert_flow.go:290-311, 462-496).
THEOREM FlowImplementsLedger == Spec => ImplementsLedger
<1>1. Init => Ledger!Init
  BY InitShown DEF Init, Ledger!Init, Cards
<1>2. Init => HeldInv BY HeldInit
<1>3. IInv /\ IInv' /\ FateInv /\ HeldInv /\ [Next]_vars => HeldInv'
  BY HeldNext, StoredNext DEF HeldInv, FateInv
<1>4. IInv /\ IInv' /\ FateInv /\ HeldInv /\ [Next]_vars => [Ledger!Next]_Seen
  BY NextShown DEF FateInv
<1>5. IInv /\ IInv' /\ FateInv /\ HeldInv /\ [Next]_vars => [Ledger!Next]_(Ledger!vars)
  BY <1>4 DEF Seen, Cards, Ledger!vars
<1>6. QED
  BY <1>1, <1>2, <1>3, <1>5, IInvAlways, FateHolds, PTL DEF Spec, ImplementsLedger, Ledger!Spec
=============================================================================
