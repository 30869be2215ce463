-------------------------- MODULE AtomicFile_proofs --------------------------
(***************************************************************************)
(* Under a lock the write-and-rename of AtomicFile is a register whose     *)
(* writes and reads are atomic, for any writers and readers, any files,    *)
(* and crashes and full disks at any time.                                 *)
(***************************************************************************)
EXTENDS AtomicFile, TLAPS

\* The lock is held by the writer at work, the temporary file is its own and is
\* not one that can be read, and what is renamed is whole.
FileInv ==
    /\ TypeOK /\ FinalWhole
    /\ \A w \in Writers : pc[w] # "idle" <=> mu = w
    /\ \A w \in Writers : IF pc[w] = "opened" THEN fd[w] = tmp ELSE fd[w] = None
    /\ \A w \in Writers : pc[w] = "opened" => tmp # None /\ data[tmp] = "empty"
    /\ \A w \in Writers : pc[w] = "written" => tmp # None /\ data[tmp] = w
    /\ final # None => final # tmp
    /\ \A r \in Readers : rfd[r] # None => rfd[r] # tmp

LEMMA FileInit == Init => FileInv
  BY WritersAssumption DEF Init, FileInv, TypeOK, FinalWhole, Contents

LEMMA FileNext ==
  ASSUME Locked = TRUE, FileInv, [Next]_vars
  PROVE  FileInv'
<1>. USE WritersAssumption, ContentsAssumption DEF FileInv, TypeOK, FinalWhole, Contents
<1>1. ASSUME NEW w \in Writers, Begin(w) PROVE FileInv' BY <1>1 DEF Begin
<1>2. ASSUME NEW w \in Writers, OpenTmp(w) PROVE FileInv'
  BY <1>2 DEF OpenTmp, TmpFile, Unused
<1>3. ASSUME NEW w \in Writers, Fill(w) PROVE FileInv' BY <1>3 DEF Fill
<1>4. ASSUME NEW w \in Writers, FillFails(w) PROVE FileInv' BY <1>4 DEF FillFails, Unlock
<1>5. ASSUME NEW w \in Writers, Rename(w) PROVE FileInv' BY <1>5 DEF Rename, Ready, Unlock
<1>6. ASSUME NEW r \in Readers, Load(r) PROVE FileInv' BY <1>6 DEF Load, OpenFinal, ReadDone
<1>7. CASE Crash BY <1>7 DEF Crash
<1>8. CASE UNCHANGED vars BY <1>8 DEF vars
<1>9. QED BY <1>1, <1>2, <1>3, <1>4, <1>5, <1>6, <1>7, <1>8 DEF Next, Save

\* status.json is whole whenever it is read (jobs.Store.Save under Server.mu).
THEOREM StatusFileWhole ==
  ASSUME Locked = TRUE
  PROVE  Spec => []FinalWhole
<1>1. FileInv /\ [Next]_vars => FileInv' BY FileNext
<1>2. FileInv => FinalWhole BY DEF FileInv
<1>3. QED BY FileInit, <1>1, <1>2, PTL DEF Spec

\* What the register is made of.
Writing == {w \in Writers : pc[w] # "idle"}
Reading == [r \in Readers |-> At(rfd[r])]
Shown == <<At(final), Writing, Reading>>

\* No step of a writer changes a file that somebody may be reading.
LEMMA ReadersUndisturbed ==
  ASSUME FileInv, rfd' = rfd,
         \A f \in Inodes : f # tmp /\ (f = final \/ \E r \in Readers : rfd[r] = f)
                            => data'[f] = data[f]
  PROVE  /\ final' = final => At(final)' = At(final)
         /\ Reading' = Reading
  BY WritersAssumption DEF FileInv, TypeOK, Reading, At

LEMMA RegisterStep ==
  ASSUME Locked = TRUE, FileInv, [Next]_vars
  PROVE  [Reg!Next]_Shown
<1>. USE WritersAssumption, ContentsAssumption DEF FileInv, TypeOK
<1>1. ASSUME NEW w \in Writers, Begin(w) PROVE Reg!Start(w)
  <2>1. UNCHANGED <<At(final), Reading>> BY <1>1 DEF Begin, At, Reading
  <2>2. Writing' = Writing \cup {w} /\ w \notin Writing BY <1>1 DEF Begin, Writing
  <2>3. QED BY <2>1, <2>2 DEF Reg!Start, Writing, Reading
<1>2. ASSUME NEW w \in Writers, OpenTmp(w) \/ Fill(w) PROVE UNCHANGED Shown
  <2>1. Writing' = Writing BY <1>2 DEF OpenTmp, Fill, Writing
  <2>2. rfd' = rfd /\ final' = final BY <1>2 DEF OpenTmp, Fill
  <2>3. \A f \in Inodes : f # tmp /\ (f = final \/ \E r \in Readers : rfd[r] = f)
                            => data'[f] = data[f]
    BY <1>2 DEF OpenTmp, TmpFile, Unused, Fill
  <2>4. QED BY <2>1, <2>2, <2>3, ReadersUndisturbed DEF Shown
<1>3. ASSUME NEW w \in Writers, FillFails(w) PROVE Reg!Fail(w)
  <2>1. Writing' = Writing \ {w} /\ w \in Writing BY <1>3 DEF FillFails, Writing
  <2>2. rfd' = rfd /\ final' = final BY <1>3 DEF FillFails
  <2>3. \A f \in Inodes : f # tmp /\ (f = final \/ \E r \in Readers : rfd[r] = f)
                            => data'[f] = data[f]
    BY <1>3 DEF FillFails
  <2>4. UNCHANGED <<At(final), Reading>> BY <2>2, <2>3, ReadersUndisturbed
  <2>5. QED BY <2>1, <2>4 DEF Reg!Fail, Writing, Reading
<1>4. ASSUME NEW w \in Writers, Rename(w) PROVE Reg!Write(w)
  <2>1. Writing' = Writing \ {w} /\ w \in Writing BY <1>4 DEF Rename, Ready, Writing
  <2>2. At(final)' = w BY <1>4 DEF Rename, Ready, At
  <2>3. Reading' = Reading BY <1>4 DEF Rename, Reading, At
  <2>4. QED BY <2>1, <2>2, <2>3 DEF Reg!Write, Writing, Reading
<1>5. ASSUME NEW r \in Readers, OpenFinal(r) PROVE Reg!Open(r)
  <2>1. UNCHANGED <<At(final), Writing>> BY <1>5 DEF OpenFinal, At, Writing
  <2>2. /\ Reading[r] = None
        /\ Reading' = [Reading EXCEPT ![r] = At(final)]
    BY <1>5 DEF OpenFinal, Reading, At
  <2>3. QED BY <2>1, <2>2 DEF Reg!Open, Writing, Reading
<1>6. ASSUME NEW r \in Readers, ReadDone(r) PROVE Reg!Return(r)
  <2>1. UNCHANGED <<At(final), Writing>> BY <1>6 DEF ReadDone, At, Writing
  <2>2. Reading' = [Reading EXCEPT ![r] = None] BY <1>6 DEF ReadDone, Reading, At
  <2>3. QED BY <2>1, <2>2 DEF Reg!Return, Writing, Reading
<1>7. ASSUME Crash PROVE Reg!Restart
  <2>1. /\ At(final)' = At(final)
        /\ Writing' = {} /\ Reading' = [r \in Readers |-> None]
    BY <1>7 DEF Crash, At, Writing, Reading
  <2>2. QED BY <2>1 DEF Reg!Restart, Writing, Reading
<1>8. CASE UNCHANGED vars BY <1>8 DEF vars, Shown, Writing, Reading, At
<1>9. QED
  BY <1>1, <1>2, <1>3, <1>4, <1>5, <1>6, <1>7, <1>8 DEF Next, Save, Load, Reg!Next

\* status.json under Server.mu is a register: its writes and reads behave as if
\* each happened at one instant (jobs.go:101-129).
THEOREM StatusFileIsRegister ==
  ASSUME Locked = TRUE
  PROVE  Spec => ImplementsRegister
<1>1. Init => Reg!Init BY DEF Init, Reg!Init, At
<1>2. FileInv /\ [Next]_vars => FileInv' BY FileNext
<1>3. FileInv /\ [Next]_vars => [Reg!Next]_(Reg!vars)
  BY RegisterStep DEF Shown, Writing, Reading, Reg!vars
<1>4. QED BY FileInit, <1>1, <1>2, <1>3, PTL DEF Spec, ImplementsRegister, Reg!Spec
=============================================================================
