------------------------- MODULE PresetStore_proofs -------------------------
(***************************************************************************)
(* The preset store keeps the promise of its page, PresetLibrary, for any  *)
(* number of requests at once, any presets, slugs and overrides, whichever *)
(* write fails and wherever the process dies.                              *)
(*                                                                         *)
(* What a request has seen when it looked still holds when it acts, unless *)
(* another has acted on the same preset in between: a request's act marks  *)
(* everybody who has looked at its subject (met), and touches nothing that *)
(* anybody else relies on.                                                 *)
(***************************************************************************)
EXTENDS PresetStore, TLAPS

Creates == [op : {"create"}, slug : Slugs, n : Nat, ov : Overrides]
Copies == [op : {"copy"}, id : Ids \cup {None}, slug : Slugs, n : Nat, ov : Overrides]
Saves == [op : {"save"}, id : Ids, ov : Overrides, mark : BOOLEAN]
Chosen == [op : {"default"}, id : Ids]
Cleared == [op : {"default"}, id : {None}]
Deletes == [op : {"delete"}, id : Ids]

Asked == {Nothing} \cup Creates \cup Copies \cup Saves \cup Chosen \cup Cleared \cup Deletes

Labels == {"idle", "name", "read", "probe", "create", "fill", "get", "write",
           "stat", "mark", "check", "remove"}

Acting == {"create", "fill", "write", "mark", "remove"}

FilesOK ==
    /\ file \in [Ids -> Overrides \cup {None}]
    /\ default \in Ids \cup {None}

\* What a request has been asked at each label.
AskedOK(r) ==
    /\ at[r] \in {"name", "read", "fill"} => rq[r] \in Copies
    /\ at[r] \in {"probe", "create"} => rq[r] \in Creates \cup Copies
    /\ at[r] \in {"create", "fill"} => rq[r].n \in Suffixes
    /\ at[r] \in {"get", "write"} => rq[r] \in Saves
    /\ at[r] = "stat" => rq[r] \in Saves \cup Chosen
    /\ at[r] = "mark" => rq[r] \in Saves \cup Chosen \cup Cleared
    /\ at[r] \in {"check", "remove"} => rq[r] \in Deletes

\* What it has seen of its subject.
SeenOK(r) ==
    /\ at[r] = "create" => ~Exists(Subject(r))
    /\ at[r] \in {"fill", "write"} => Exists(Subject(r))
    /\ at[r] = "mark" => (Subject(r) # None => Exists(Subject(r)))
    /\ at[r] = "remove" => default # Subject(r)

TypeOK ==
    /\ FilesOK
    /\ at \in [Requests -> Labels]
    /\ rq \in [Requests -> Asked]
    /\ met \subseteq {r \in Requests : Looked(r)}
    /\ raced \subseteq Ids

IInv ==
    /\ TypeOK
    /\ DefaultIsThere
    /\ \A r \in Requests : AskedOK(r) /\ (r \notin met => SeenOK(r))

-----------------------------------------------------------------------------
LEMMA IInvInit == Init => IInv
  BY DEF Init, IInv, TypeOK, FilesOK, Asked, Labels, DefaultIsThere, AskedOK, SeenOK

\* The subject of a request that has looked is a preset, but for the default
\* that is cleared.
LEMMA SubjectType ==
  ASSUME IInv, NEW r \in Requests, at[r] \in Acting
  PROVE  /\ Subject(r) \in Ids \cup {None}
         /\ at[r] # "mark" => Subject(r) \in Ids /\ Looked(r)
         /\ at[r] = "mark" => Subject(r) = rq[r].id
         /\ at[r] \in {"create", "fill"} => Subject(r) = New(r)
<1>1. AskedOK(r)
  BY DEF IInv
<1>2. CASE at[r] \in {"create", "fill"}
  <2>1. rq[r].slug \in Slugs /\ rq[r].n \in Suffixes /\ rq[r].op \in {"create", "copy"}
    BY <1>1, <1>2 DEF AskedOK, Creates, Copies
  <2>2. Subject(r) = New(r) /\ New(r) \in Ids
    BY <2>1 DEF Subject, New, Ids
  <2> QED
    BY <1>2, <2>2, SlugsAssumption DEF Looked
<1>3. CASE at[r] = "write"
  BY <1>1, <1>3, SlugsAssumption DEF AskedOK, Saves, Subject, Looked
<1>4. CASE at[r] = "mark"
  BY <1>1, <1>4 DEF AskedOK, Saves, Chosen, Cleared, Subject
<1>5. CASE at[r] = "remove"
  BY <1>1, <1>5, SlugsAssumption DEF AskedOK, Deletes, Subject, Looked
<1> QED
  BY <1>2, <1>3, <1>4, <1>5 DEF Acting

\* While r takes a step the others stay where they are.
Still(q) == at'[q] = at[q] /\ rq'[q] = rq[q]

LEMMA StillIsStill ==
  ASSUME NEW q \in Requests, Still(q)
  PROVE  /\ AskedOK(q)' <=> AskedOK(q)
         /\ Looked(q)' <=> Looked(q)
         /\ Subject(q)' = Subject(q)
  BY DEF Still, AskedOK, Looked, Subject, New

\* A step of r that changes no file.
LEMMA LookKeepsIInv ==
  ASSUME IInv, NEW r \in Requests, at[r] \notin Acting \/ at'[r] = "idle",
         UNCHANGED <<file, default, raced>>,
         met' = IF at[r] \in Acting THEN met \ {r} ELSE met,
         \A q \in Requests \ {r} : Still(q),
         at' \in [Requests -> Labels], rq' \in [Requests -> Asked],
         AskedOK(r)', SeenOK(r)'
  PROVE  IInv'
<1>1. r \notin met'
  BY DEF IInv, TypeOK, Looked, Acting
<1>2. \A q \in Requests \ {r} : AskedOK(q)' /\ (q \notin met' => SeenOK(q)')
  <2>1. TAKE q \in Requests \ {r}
  <2>2. Still(q) /\ AskedOK(q) /\ (q \notin met => SeenOK(q)) /\ (q \in met' <=> q \in met)
    BY DEF IInv
  <2>3. SeenOK(q) => SeenOK(q)'
    BY <2>2, StillIsStill DEF SeenOK, Still, Exists
  <2> QED
    BY <2>2, <2>3, StillIsStill
<1>3. (met \subseteq {q \in Requests : Looked(q)})'
  <2>1. met' \subseteq {q \in Requests \ {r} : Looked(q)}
    BY <1>1 DEF IInv, TypeOK
  <2>2. \A q \in Requests \ {r} : Looked(q)' <=> Looked(q)
    BY StillIsStill
  <2> QED
    BY <2>1, <2>2
<1>4. TypeOK' /\ DefaultIsThere'
  BY <1>3 DEF IInv, TypeOK, FilesOK, DefaultIsThere, Exists
<1> QED
  BY <1>2, <1>4 DEF IInv

\* A step of r that acts on its subject.
LEMMA ActKeepsIInv ==
  ASSUME IInv, NEW r \in Requests, at[r] \in Acting, Act(r),
         \A i \in Ids \ {Subject(r)} : file'[i] = file[i],
         default' \in {default, Subject(r)},
         r \notin met /\ Subject(r) # None /\ default' = Subject(r) => file'[Subject(r)] # None,
         FilesOK',
         \A q \in Requests \ {r} : Still(q),
         at' \in [Requests -> Labels], rq' \in [Requests -> Asked],
         AskedOK(r)', SeenOK(r)'
  PROVE  IInv'
<1>1. r \notin met'
  BY DEF Act
<1>2. \A q \in Requests \ {r} : AskedOK(q)' /\ (q \notin met' => SeenOK(q)')
  <2>1. TAKE q \in Requests \ {r}
  <2>2. Still(q) /\ AskedOK(q) /\ (q \notin met => SeenOK(q))
    BY DEF IInv
  <2>3. ASSUME q \notin met' PROVE SeenOK(q)'
    <3>1. q \notin met /\ ~(Looked(q) /\ Subject(q) = Subject(r))
      BY <2>3 DEF Act
    <3>2. CASE at[q] \notin Acting
      BY <2>2, <3>2 DEF Still, SeenOK, Acting
    <3>3. CASE at[q] \in Acting
      <4>1. Subject(q) \in Ids => Subject(q) # Subject(r)
        BY <3>1, <3>3, SubjectType, SlugsAssumption DEF Looked, Acting
      <4>2. Subject(q) \in Ids => file'[Subject(q)] = file[Subject(q)]
        BY <4>1
      <4>3. SeenOK(q) /\ Subject(q)' = Subject(q) /\ at'[q] = at[q]
        BY <2>2, <3>1, StillIsStill DEF Still
      <4> QED
        BY <3>3, <4>1, <4>2, <4>3, SubjectType DEF SeenOK, Exists
    <3> QED
      BY <3>2, <3>3
  <2> QED
    BY <2>2, <2>3, StillIsStill
<1>3. (met \subseteq {q \in Requests : Looked(q)})'
  <2>1. met' \subseteq {q \in Requests \ {r} : Looked(q)}
    BY <1>1 DEF IInv, TypeOK, Act
  <2>2. \A q \in Requests \ {r} : Looked(q)' <=> Looked(q)
    BY StillIsStill
  <2> QED
    BY <2>1, <2>2
<1>4. DefaultIsThere'
  <2>1. CASE default' = Subject(r)
    BY <2>1 DEF DefaultIsThere, Exists, Act
  <2>2. CASE default' # Subject(r)
    <3>1. default' = default /\ (default \in Ids => file'[default] = file[default])
      BY <2>2
    <3>2. default \in Ids \cup {None}
      BY DEF IInv, TypeOK, FilesOK
    <3> QED
      BY <2>2, <3>1, <3>2 DEF IInv, DefaultIsThere, Exists, Act
  <2> QED
    BY <2>1, <2>2
<1>5. TypeOK'
  <2>1. r \in met => Subject(r) \in Ids
    BY SubjectType DEF IInv, TypeOK, Looked
  <2> QED
    BY <1>3, <2>1 DEF TypeOK, IInv, Act
<1> QED
  BY <1>2, <1>4, <1>5 DEF IInv

\* How a request goes on.
LEMMA GoLeaves ==
  ASSUME IInv, NEW r \in Requests, NEW label \in Labels, Go(r, label), UNCHANGED rq
  PROVE  /\ \A q \in Requests \ {r} : Still(q)
         /\ at' \in [Requests -> Labels] /\ rq' \in [Requests -> Asked]
         /\ at'[r] = label /\ rq'[r] = rq[r] /\ Subject(r)' = Subject(r)
  BY DEF Go, IInv, TypeOK, Still, Subject, New

LEMMA EndLeaves ==
  ASSUME IInv, NEW r \in Requests, End(r)
  PROVE  /\ \A q \in Requests \ {r} : Still(q)
         /\ at' \in [Requests -> Labels] /\ rq' \in [Requests -> Asked]
         /\ at'[r] = "idle"
         /\ AskedOK(r)' /\ SeenOK(r)'
<1>1. at' = [at EXCEPT ![r] = "idle"] /\ rq' = [rq EXCEPT ![r] = Nothing]
  BY DEF End
<1>2. at \in [Requests -> Labels] /\ rq \in [Requests -> Asked]
  BY DEF IInv, TypeOK
<1>3. at' \in [Requests -> Labels] /\ rq' \in [Requests -> Asked] /\ at'[r] = "idle"
  BY <1>1, <1>2 DEF Labels, Asked
<1>4. \A q \in Requests \ {r} : Still(q)
  BY <1>1, <1>2 DEF Still
<1> QED
  BY <1>3, <1>4 DEF AskedOK, SeenOK

\* A request that arrives changes no file, and is recorded as it was asked.
LEMMA ArriveKeepsIInv ==
  ASSUME IInv, NEW r \in Requests, Arrive(r)
  PROVE  IInv'
<1>1. ASSUME NEW label \in Labels, NEW q \in Asked, Begin(r, label, q),
             /\ label \in {"name", "read", "fill"} => q \in Copies
             /\ label \in {"probe", "create"} => q \in Creates \cup Copies
             /\ label \in {"get", "write"} => q \in Saves
             /\ label = "stat" => q \in Saves \cup Chosen
             /\ label = "mark" => q \in Cleared
             /\ label \in {"check", "remove"} => q \in Deletes,
             label \notin {"create", "fill", "write", "remove"}
      PROVE  IInv'
  <2>1. /\ UNCHANGED <<file, default, met, raced>> /\ at[r] = "idle"
        /\ at' = [at EXCEPT ![r] = label] /\ rq' = [rq EXCEPT ![r] = q]
    BY <1>1 DEF Begin, Go
  <2>2. at'[r] = label /\ rq'[r] = q
    BY <2>1 DEF IInv, TypeOK
  <2>3. AskedOK(r)'
    BY <1>1, <2>2 DEF AskedOK
  <2>4. SeenOK(r)'
    BY <1>1, <2>2 DEF SeenOK, Cleared, Subject
  <2>5. /\ at' \in [Requests -> Labels] /\ rq' \in [Requests -> Asked]
        /\ \A o \in Requests \ {r} : Still(o)
    BY <2>1 DEF IInv, TypeOK, Still
  <2> QED
    BY <2>1, <2>3, <2>4, <2>5, LookKeepsIInv DEF Acting
<1>2. CASE CreatePreset(r)
  <2>1. PICK s \in Slugs :
          Begin(r, "probe", [op |-> "create", slug |-> s, n |-> 1, ov |-> Empty])
    BY <1>2 DEF CreatePreset
  <2>2. [op |-> "create", slug |-> s, n |-> 1, ov |-> Empty] \in Creates
    BY OverridesAssumption DEF Creates
  <2> QED
    BY <1>1, <2>1, <2>2 DEF Asked, Labels
<1>3. CASE DuplicatePreset(r)
  <2>1. PICK s \in Slugs, i \in Ids \cup {None} :
          Begin(r, "name", [op |-> "copy", id |-> i, slug |-> s, n |-> 1, ov |-> Empty])
    BY <1>3 DEF DuplicatePreset
  <2>2. [op |-> "copy", id |-> i, slug |-> s, n |-> 1, ov |-> Empty] \in Copies
    BY OverridesAssumption DEF Copies
  <2> QED
    BY <1>1, <2>1, <2>2 DEF Asked, Labels
<1>4. CASE SavePreset(r)
  <2>1. PICK i \in Ids, o \in Overrides, m \in BOOLEAN :
          Begin(r, "get", [op |-> "save", id |-> i, ov |-> o, mark |-> m])
    BY <1>4 DEF SavePreset
  <2>2. [op |-> "save", id |-> i, ov |-> o, mark |-> m] \in Saves
    BY DEF Saves
  <2> QED
    BY <1>1, <2>1, <2>2 DEF Asked, Labels
<1>5. CASE DefaultPreset(r)
  <2>1. PICK i \in Ids : Begin(r, "stat", [op |-> "default", id |-> i])
    BY <1>5 DEF DefaultPreset
  <2>2. [op |-> "default", id |-> i] \in Chosen
    BY DEF Chosen
  <2> QED
    BY <1>1, <2>1, <2>2 DEF Asked, Labels
<1>6. CASE DefaultBuiltin(r)
  <2>1. Begin(r, "mark", [op |-> "default", id |-> None])
    BY <1>6 DEF DefaultBuiltin
  <2>2. [op |-> "default", id |-> None] \in Cleared
    BY DEF Cleared
  <2> QED
    BY <1>1, <2>1, <2>2 DEF Asked, Labels
<1>7. CASE DeletePreset(r)
  <2>1. PICK i \in Ids : Begin(r, "check", [op |-> "delete", id |-> i])
    BY <1>7 DEF DeletePreset
  <2>2. [op |-> "delete", id |-> i] \in Deletes
    BY DEF Deletes
  <2> QED
    BY <1>1, <2>1, <2>2 DEF Asked, Labels
<1> QED
  BY <1>2, <1>3, <1>4, <1>5, <1>6, <1>7 DEF Arrive

LEMMA ServeKeepsIInv ==
  ASSUME IInv, NEW r \in Requests, Serve(r)
  PROVE  IInv'
<1> USE OverridesAssumption, SlugsAssumption
<1>0. /\ FilesOK /\ AskedOK(r) /\ (r \notin met => SeenOK(r))
      /\ at \in [Requests -> Labels] /\ rq \in [Requests -> Asked]
  BY DEF IInv, TypeOK
<1>1. ASSUME End(r), UNCHANGED <<file, default, met, raced>>, at[r] \notin Acting
      PROVE  IInv'
  BY <1>1, EndLeaves, LookKeepsIInv
<1>2. ASSUME NEW label \in Labels, Go(r, label), UNCHANGED <<rq, file, default, met, raced>>,
             at[r] \notin Acting, AskedOK(r)', SeenOK(r)'
      PROVE  IInv'
  BY <1>2, GoLeaves, LookKeepsIInv
<1>3. CASE CopyName(r)
  <2>1. CASE CanGet(rq[r].id)
    <3>1. /\ Go(r, "read") /\ UNCHANGED <<rq, file, default, met, raced>>
          /\ at[r] = "name" /\ "read" \in Labels
      BY <1>3, <2>1 DEF CopyName, Labels
    <3>2. at'[r] = "read" /\ rq'[r] = rq[r]
      BY <3>1, GoLeaves
    <3>3. AskedOK(r)' /\ SeenOK(r)'
      BY <1>0, <3>1, <3>2 DEF AskedOK, SeenOK
    <3> QED
      BY <1>2, <3>1, <3>3 DEF Acting
  <2>2. CASE ~CanGet(rq[r].id)
    BY <1>1, <1>3, <2>2 DEF CopyName, Acting
  <2> QED
    BY <2>1, <2>2
<1>4. CASE CopyRead(r)
  <2>1. CASE CanGet(rq[r].id)
    <3>1. /\ Go(r, "probe") /\ UNCHANGED <<file, default, met, raced>> /\ at[r] = "read"
          /\ rq' = [rq EXCEPT ![r].ov = Got(rq[r].id)]
      BY <1>4, <2>1 DEF CopyRead
    <3>2. rq[r] \in Copies
      BY <1>0, <3>1 DEF AskedOK
    <3>3. Got(rq[r].id) \in Overrides
      BY <1>0, <2>1, <3>2 DEF FilesOK, Copies, Exists, CanGet, Got
    <3>4. rq'[r] \in Copies
      BY <1>0, <3>1, <3>2, <3>3 DEF Copies
    <3>5. \A q \in Requests \ {r} : Still(q)
      BY <1>0, <3>1 DEF Go, Still
    <3>6. rq' \in [Requests -> Asked]
      BY <1>0, <3>1, <3>4, <3>5 DEF Asked, Still
    <3>7. at' \in [Requests -> Labels] /\ at'[r] = "probe"
      BY <1>0, <3>1 DEF Go, Labels
    <3>8. AskedOK(r)' /\ SeenOK(r)'
      BY <3>4, <3>7 DEF AskedOK, SeenOK
    <3> QED
      BY <3>1, <3>5, <3>6, <3>7, <3>8, LookKeepsIInv DEF Acting
  <2>2. CASE ~CanGet(rq[r].id)
    BY <1>1, <1>4, <2>2 DEF CopyRead, Acting
  <2> QED
    BY <2>1, <2>2
<1>5. CASE Probe(r)
  <2>0. /\ rq[r] \in Creates \cup Copies /\ rq[r].n \in Suffixes
        /\ UNCHANGED <<file, default, met, raced>> /\ at[r] = "probe"
    BY <1>0, <1>5 DEF AskedOK, Probe
  <2>1. CASE IsFree(r)
    <3>1. Go(r, "create") /\ UNCHANGED rq /\ "create" \in Labels
      BY <1>5, <2>1 DEF Probe, Labels
    <3>2. at'[r] = "create" /\ rq'[r] = rq[r] /\ Subject(r)' = Subject(r)
      BY <3>1, GoLeaves
    <3>3. Subject(r) = Candidate(rq[r].slug, rq[r].n)
      BY <2>0 DEF Creates, Copies, Subject, New
    <3>4. AskedOK(r)' /\ SeenOK(r)'
      BY <2>0, <2>1, <3>2, <3>3 DEF AskedOK, SeenOK, IsFree, Exists
    <3> QED
      BY <1>2, <2>0, <3>1, <3>4 DEF Acting
  <2>2. CASE ~IsFree(r)
    <3>1. at' = at /\ rq' = [rq EXCEPT ![r].n = NextCandidate(@)]
      BY <1>5, <2>2 DEF Probe
    <3>2. rq'[r] \in Creates \cup Copies
      BY <1>0, <2>0, <3>1 DEF Creates, Copies, NextCandidate
    <3>3. \A q \in Requests \ {r} : Still(q)
      BY <1>0, <3>1 DEF Still
    <3>4. rq' \in [Requests -> Asked]
      BY <1>0, <3>1, <3>2, <3>3 DEF Asked, Still
    <3>5. AskedOK(r)' /\ SeenOK(r)'
      BY <2>0, <3>1, <3>2 DEF AskedOK, SeenOK
    <3> QED
      BY <1>0, <2>0, <3>1, <3>3, <3>4, <3>5, LookKeepsIInv DEF Acting
  <2> QED
    BY <2>1, <2>2
<1>6. CASE WriteNew(r)
  <2>1. /\ file' = [file EXCEPT ![New(r)] = Empty] /\ default' = default
        /\ at[r] = "create" /\ at[r] \in Acting /\ Act(r)
    BY <1>6 DEF WriteNew, Acting
  <2>2. Subject(r) = New(r) /\ New(r) \in Ids
    BY <2>1, SubjectType
  <2>3. /\ FilesOK' /\ file'[Subject(r)] # None
        /\ \A i \in Ids \ {Subject(r)} : file'[i] = file[i]
    BY <1>0, <2>1, <2>2 DEF FilesOK
  <2>4. CASE rq[r].op = "copy"
    <3>1. Go(r, "fill") /\ UNCHANGED rq /\ "fill" \in Labels
      BY <1>6, <2>4 DEF WriteNew, Labels
    <3>2. at'[r] = "fill" /\ rq'[r] = rq[r] /\ Subject(r)' = Subject(r)
      BY <3>1, GoLeaves
    <3>3. rq[r] \in Copies /\ rq[r].n \in Suffixes
      BY <1>0, <2>1, <2>4 DEF AskedOK, Creates
    <3>4. AskedOK(r)' /\ SeenOK(r)'
      BY <2>3, <3>2, <3>3 DEF AskedOK, SeenOK, Exists
    <3> QED
      BY <2>1, <2>3, <3>1, <3>4, GoLeaves, ActKeepsIInv
  <2>5. CASE rq[r].op # "copy"
    <3>1. End(r)
      BY <1>6, <2>5 DEF WriteNew
    <3> QED
      BY <2>1, <2>3, <3>1, EndLeaves, ActKeepsIInv
  <2> QED
    BY <2>4, <2>5
<1>7. CASE WriteCopy(r)
  <2>1. /\ file' = [file EXCEPT ![New(r)] = rq[r].ov] /\ default' = default
        /\ at[r] \in Acting /\ at[r] = "fill" /\ rq[r] \in Copies /\ End(r) /\ Act(r)
    BY <1>0, <1>7 DEF WriteCopy, AskedOK, Acting
  <2>2. Subject(r) = New(r) /\ New(r) \in Ids /\ rq[r].ov \in Overrides
    BY <2>1, SubjectType DEF Copies
  <2>3. /\ FilesOK' /\ file'[Subject(r)] # None
        /\ \A i \in Ids \ {Subject(r)} : file'[i] = file[i]
    BY <1>0, <2>1, <2>2 DEF FilesOK
  <2> QED
    BY <2>1, <2>3, EndLeaves, ActKeepsIInv
<1>8. CASE SaveGet(r)
  <2>1. CASE MaySave(r)
    <3>1. /\ Go(r, "write") /\ UNCHANGED <<rq, file, default, met, raced>>
          /\ at[r] = "get" /\ "write" \in Labels
      BY <1>8, <2>1 DEF SaveGet, Labels
    <3>2. at'[r] = "write" /\ rq'[r] = rq[r] /\ Subject(r)' = Subject(r)
      BY <3>1, GoLeaves
    <3>3. rq[r] \in Saves /\ Subject(r) = rq[r].id
      BY <1>0, <3>1 DEF AskedOK, Saves, Subject
    <3>4. AskedOK(r)' /\ SeenOK(r)'
      BY <2>1, <3>1, <3>2, <3>3 DEF AskedOK, SeenOK, MaySave, Exists
    <3> QED
      BY <1>2, <3>1, <3>4 DEF Acting
  <2>2. CASE ~MaySave(r)
    BY <1>1, <1>8, <2>2 DEF SaveGet, Acting
  <2> QED
    BY <2>1, <2>2
<1>9. CASE SaveWrite(r)
  <2>1. /\ file' = [file EXCEPT ![rq[r].id] = rq[r].ov] /\ default' = default
        /\ at[r] \in Acting /\ at[r] = "write" /\ rq[r] \in Saves /\ Act(r)
    BY <1>0, <1>9 DEF SaveWrite, AskedOK, Acting
  <2>2. Subject(r) = rq[r].id /\ rq[r].id \in Ids /\ rq[r].ov \in Overrides
    BY <2>1 DEF Saves, Subject
  <2>3. /\ FilesOK' /\ file'[Subject(r)] # None
        /\ \A i \in Ids \ {Subject(r)} : file'[i] = file[i]
    BY <1>0, <2>1, <2>2 DEF FilesOK
  <2>4. CASE rq[r].mark
    <3>1. Go(r, "stat") /\ UNCHANGED rq /\ "stat" \in Labels
      BY <1>9, <2>4 DEF SaveWrite, Labels
    <3>2. at'[r] = "stat" /\ rq'[r] = rq[r]
      BY <3>1, GoLeaves
    <3>3. AskedOK(r)' /\ SeenOK(r)'
      BY <2>1, <3>2 DEF AskedOK, SeenOK
    <3> QED
      BY <2>1, <2>3, <3>1, <3>3, GoLeaves, ActKeepsIInv
  <2>5. CASE ~rq[r].mark
    <3>1. End(r)
      BY <1>9, <2>5 DEF SaveWrite
    <3> QED
      BY <2>1, <2>3, <3>1, EndLeaves, ActKeepsIInv
  <2> QED
    BY <2>4, <2>5
<1>10. CASE DefaultStat(r)
  <2>1. CASE Exists(rq[r].id)
    <3>1. /\ Go(r, "mark") /\ UNCHANGED <<rq, file, default, met, raced>>
          /\ at[r] = "stat" /\ "mark" \in Labels
      BY <1>10, <2>1 DEF DefaultStat, Labels
    <3>2. at'[r] = "mark" /\ rq'[r] = rq[r] /\ Subject(r)' = Subject(r)
      BY <3>1, GoLeaves
    <3>3. rq[r] \in Saves \cup Chosen /\ Subject(r) = rq[r].id
      BY <1>0, <3>1 DEF AskedOK, Saves, Chosen, Subject
    <3>4. AskedOK(r)' /\ SeenOK(r)'
      BY <2>1, <3>1, <3>2, <3>3 DEF AskedOK, SeenOK, Exists
    <3> QED
      BY <1>2, <3>1, <3>4 DEF Acting
  <2>2. CASE ~Exists(rq[r].id)
    BY <1>1, <1>10, <2>2 DEF DefaultStat, Acting
  <2> QED
    BY <2>1, <2>2
<1>11. CASE DefaultWrite(r)
  <2>1. /\ default' = rq[r].id /\ file' = file /\ End(r) /\ Act(r)
        /\ at[r] = "mark" /\ at[r] \in Acting
    BY <1>11 DEF DefaultWrite, Acting
  <2>2. Subject(r) = rq[r].id /\ rq[r].id \in Ids \cup {None}
    BY <2>1, SubjectType
  <2>3. FilesOK' /\ (r \notin met /\ Subject(r) # None => file'[Subject(r)] # None)
    BY <1>0, <2>1, <2>2 DEF FilesOK, SeenOK, Exists
  <2> QED
    BY <2>1, <2>2, <2>3, EndLeaves, ActKeepsIInv
<1>12. CASE DeleteCheck(r)
  <2>1. CASE MayDelete(r)
    <3>1. /\ Go(r, "remove") /\ UNCHANGED <<rq, file, default, met, raced>>
          /\ at[r] = "check" /\ "remove" \in Labels
      BY <1>12, <2>1 DEF DeleteCheck, Labels
    <3>2. at'[r] = "remove" /\ rq'[r] = rq[r] /\ Subject(r)' = Subject(r)
      BY <3>1, GoLeaves
    <3>3. rq[r] \in Deletes /\ Subject(r) = rq[r].id
      BY <1>0, <3>1 DEF AskedOK, Deletes, Subject
    <3>4. AskedOK(r)' /\ SeenOK(r)'
      BY <2>1, <3>1, <3>2, <3>3 DEF AskedOK, SeenOK, MayDelete
    <3> QED
      BY <1>2, <3>1, <3>4 DEF Acting
  <2>2. CASE ~MayDelete(r)
    BY <1>1, <1>12, <2>2 DEF DeleteCheck, Acting
  <2> QED
    BY <2>1, <2>2
<1>13. CASE DeleteRemove(r)
  <2>1. /\ file' = [file EXCEPT ![rq[r].id] = None] /\ default' = default
        /\ End(r) /\ Act(r) /\ at[r] \in Acting /\ at[r] = "remove" /\ rq[r] \in Deletes
    BY <1>0, <1>13 DEF DeleteRemove, Acting, AskedOK
  <2>2. Subject(r) = rq[r].id /\ rq[r].id \in Ids
    BY <2>1 DEF Deletes, Subject
  <2>3. FilesOK' /\ \A i \in Ids \ {Subject(r)} : file'[i] = file[i]
    BY <1>0, <2>1, <2>2 DEF FilesOK
  <2>4. r \notin met => default # Subject(r)
    BY <1>0, <2>1 DEF SeenOK
  <2> QED
    BY <2>1, <2>3, <2>4, EndLeaves, ActKeepsIInv
<1>14. CASE WriteFails(r)
  <2>1. at[r] \in Acting /\ End(r) /\ met' = met \ {r} /\ UNCHANGED <<file, default, raced>>
    BY <1>14 DEF WriteFails, Acting
  <2> QED
    BY <2>1, EndLeaves, LookKeepsIInv
<1> QED
  BY <1>3, <1>4, <1>5, <1>6, <1>7, <1>8, <1>9, <1>10, <1>11, <1>12, <1>13, <1>14 DEF Serve

LEMMA CrashKeepsIInv ==
  ASSUME IInv, Crash
  PROVE  IInv'
  BY DEF Crash, IInv, TypeOK, FilesOK, DefaultIsThere, Exists, AskedOK, SeenOK, Labels, Asked

LEMMA IInvNext ==
  ASSUME IInv, [Next]_vars
  PROVE  IInv'
<1>1. CASE UNCHANGED vars
  BY <1>1 DEF vars, IInv, TypeOK, FilesOK, DefaultIsThere, Exists, AskedOK, SeenOK, Looked,
              Subject, New
<1>2. CASE Next
  BY <1>2, ArriveKeepsIInv, ServeKeepsIInv, CrashKeepsIInv DEF Next
<1> QED
  BY <1>1, <1>2

LEMMA IInvAlways == Spec => []IInv
<1>1. Init => IInv
  BY IInvInit
<1>2. IInv /\ [Next]_vars => IInv'
  BY IInvNext
<1> QED
  BY <1>1, <1>2, PTL DEF Spec

-----------------------------------------------------------------------------
\* The files hold presets and the default is an id, each request is asked what
\* its place in the code is about, and only requests that have looked can be met.
THEOREM TypeCorrect == Spec => []TypeOK
<1>1. IInv => TypeOK
  BY DEF IInv
<1> QED
  BY <1>1, IInvAlways, PTL

\* However many requests overlap, the default is a preset there is, unless the
\* last to act on it was a request for whom another had changed it since it
\* looked: what SetDefault and Delete have seen holds when they write in every
\* other case.
THEOREM DefaultAlwaysThere == Spec => []DefaultIsThere
<1>1. IInv => DefaultIsThere
  BY DEF IInv
<1> QED
  BY <1>1, IInvAlways, PTL

\* However many requests overlap, a creation takes the place of no preset, unless
\* another request has acted on the very id since freeID found it unused.
THEOREM CreationIsFresh == Spec => CreateIsFresh
<1>1. IInv /\ [Next]_vars
        => [\A r \in Requests : WriteNew(r) => ~Exists(New(r)) \/ r \in met]_vars
  <2> SUFFICES ASSUME IInv, NEW r \in Requests, WriteNew(r), r \notin met
               PROVE  ~Exists(New(r))
    OBVIOUS
  <2>1. at[r] = "create" /\ SeenOK(r)
    BY DEF WriteNew, IInv
  <2>2. Subject(r) = New(r)
    BY <2>1, SubjectType DEF Acting
  <2> QED
    BY <2>1, <2>2 DEF SeenOK
<1> QED
  BY <1>1, IInvAlways, PTL DEF Spec, CreateIsFresh

\* An act on a preset is one the library allows: settled if nobody else has acted
\* on it since the request looked, and else contended.
LEMMA ServeIsLibraryStep ==
  ASSUME IInv, NEW r \in Requests, Serve(r)
  PROVE  Library!Next \/ UNCHANGED <<file, default, raced>>
<1> USE DEF Library!Next, Library!Present
<1>0. FilesOK /\ AskedOK(r) /\ (r \notin met => SeenOK(r))
  BY DEF IInv, TypeOK
<1>1. ASSUME r \in met, Act(r), NEW i \in Ids, i = Subject(r),
             NEW o \in Overrides \cup {None},
             \/ file' = [file EXCEPT ![i] = o] /\ default' = default
             \/ file' = file /\ default' = i
      PROVE  Library!Next
  <2>1. raced' = raced \cup {i}
    BY <1>1 DEF Act
  <2>2. Library!Contend(i)
    BY <1>1, <2>1 DEF Library!Contend
  <2> QED
    BY <2>2
<1>2. ASSUME r \notin met, Act(r)
      PROVE  Library!Settle(Subject(r))
  BY <1>2 DEF Act, Library!Settle
<1>3. CASE WriteNew(r)
  <2>1. /\ file' = [file EXCEPT ![New(r)] = Empty] /\ default' = default
        /\ at[r] = "create" /\ at[r] \in Acting /\ Act(r)
    BY <1>3 DEF WriteNew, Acting
  <2>2. Subject(r) = New(r) /\ New(r) \in Ids
    BY <2>1, SubjectType
  <2>3. CASE r \in met
    BY <1>1, <2>1, <2>2, <2>3, OverridesAssumption
  <2>4. CASE r \notin met
    <3>1. ~Exists(New(r)) /\ Library!Settle(New(r))
      BY <1>0, <1>2, <2>1, <2>2, <2>4 DEF SeenOK
    <3> QED
      BY <2>1, <2>2, <3>1 DEF Library!Add, Exists
  <2> QED
    BY <2>3, <2>4
<1>4. CASE WriteCopy(r)
  <2>1. /\ file' = [file EXCEPT ![New(r)] = rq[r].ov] /\ default' = default
        /\ rq[r].ov \in Overrides /\ at[r] = "fill" /\ at[r] \in Acting /\ Act(r)
    BY <1>0, <1>4 DEF WriteCopy, AskedOK, Copies, Acting
  <2>2. Subject(r) = New(r) /\ New(r) \in Ids
    BY <2>1, SubjectType
  <2>3. CASE r \in met
    BY <1>1, <2>1, <2>2, <2>3
  <2>4. CASE r \notin met
    <3>1. Exists(New(r)) /\ Library!Settle(New(r))
      BY <1>0, <1>2, <2>1, <2>2, <2>4 DEF SeenOK
    <3> QED
      BY <2>1, <2>2, <3>1 DEF Library!Update, Exists
  <2> QED
    BY <2>3, <2>4
<1>5. CASE SaveWrite(r)
  <2>1. /\ file' = [file EXCEPT ![rq[r].id] = rq[r].ov] /\ default' = default
        /\ rq[r] \in Saves /\ at[r] = "write" /\ at[r] \in Acting /\ Act(r)
    BY <1>0, <1>5 DEF SaveWrite, AskedOK, Acting
  <2>2. Subject(r) = rq[r].id /\ rq[r].id \in Ids /\ rq[r].ov \in Overrides
    BY <2>1 DEF Saves, Subject
  <2>3. CASE r \in met
    BY <1>1, <2>1, <2>2, <2>3
  <2>4. CASE r \notin met
    <3>1. Exists(rq[r].id) /\ Library!Settle(rq[r].id)
      BY <1>0, <1>2, <2>1, <2>2, <2>4 DEF SeenOK
    <3> QED
      BY <2>1, <2>2, <3>1 DEF Library!Update, Exists
  <2> QED
    BY <2>3, <2>4
<1>6. CASE DefaultWrite(r)
  <2>1. /\ default' = rq[r].id /\ file' = file
        /\ at[r] = "mark" /\ at[r] \in Acting /\ Act(r)
    BY <1>6 DEF DefaultWrite, Acting
  <2>2. Subject(r) = rq[r].id /\ rq[r].id \in Ids \cup {None}
    BY <2>1, SubjectType
  <2>3. CASE rq[r].id = None
    <3>1. r \notin met
      BY <2>2, <2>3 DEF IInv, TypeOK, Looked
    <3>2. raced' = raced \ {None}
      BY <2>1, <2>2, <2>3, <3>1 DEF Act
    <3>3. None \notin raced
      BY SlugsAssumption DEF IInv, TypeOK
    <3> QED
      BY <2>1, <2>3, <3>2, <3>3 DEF Library!Clear
  <2>4. CASE rq[r].id # None /\ r \in met
    BY <1>1, <2>1, <2>2, <2>4
  <2>5. CASE rq[r].id # None /\ r \notin met
    <3>1. Exists(rq[r].id) /\ Library!Settle(rq[r].id)
      BY <1>0, <1>2, <2>1, <2>2, <2>5 DEF SeenOK
    <3> QED
      BY <2>1, <2>2, <2>5, <3>1 DEF Library!Choose, Exists
  <2> QED
    BY <2>3, <2>4, <2>5
<1>7. CASE DeleteRemove(r)
  <2>1. /\ file' = [file EXCEPT ![rq[r].id] = None] /\ default' = default
        /\ rq[r] \in Deletes /\ at[r] = "remove" /\ at[r] \in Acting /\ Act(r)
    BY <1>0, <1>7 DEF DeleteRemove, AskedOK, Acting
  <2>2. Subject(r) = rq[r].id /\ rq[r].id \in Ids
    BY <2>1 DEF Deletes, Subject
  <2>3. CASE r \in met
    BY <1>1, <2>1, <2>2, <2>3
  <2>4. CASE r \notin met
    <3>1. default # rq[r].id /\ Library!Settle(rq[r].id)
      BY <1>0, <1>2, <2>1, <2>2, <2>4 DEF SeenOK
    <3> QED
      BY <2>1, <2>2, <3>1 DEF Library!Remove
  <2> QED
    BY <2>3, <2>4
<1>8. CASE \/ CopyName(r) \/ CopyRead(r) \/ Probe(r) \/ SaveGet(r) \/ DefaultStat(r)
           \/ DeleteCheck(r) \/ WriteFails(r)
  BY <1>8 DEF CopyName, CopyRead, Probe, SaveGet, DefaultStat, DeleteCheck, WriteFails
<1> QED
  BY <1>3, <1>4, <1>5, <1>6, <1>7, <1>8 DEF Serve

\* However many requests overlap, writes that fail and crashes included, the store
\* does only what the presets page promises: a race about one preset leaves all
\* the others, and a default among them, as they are.
THEOREM StoreIsLibrary == Spec => ImplementsLibrary
<1>1. Init => Library!Init
  BY DEF Init, Library!Init
<1>2. IInv /\ [Next]_vars => [Library!Next]_(Library!vars)
  <2> SUFFICES ASSUME IInv, [Next]_vars
               PROVE  Library!Next \/ UNCHANGED <<file, default, raced>>
    BY DEF Library!vars
  <2>1. CASE UNCHANGED vars \/ Crash
    BY <2>1 DEF vars, Crash
  <2>2. ASSUME NEW r \in Requests, Arrive(r) PROVE UNCHANGED <<file, default, raced>>
    BY <2>2 DEF Arrive, CreatePreset, DuplicatePreset, SavePreset, DefaultPreset,
                DefaultBuiltin, DeletePreset, Begin
  <2> QED
    BY <2>1, <2>2, ServeIsLibraryStep DEF Next
<1> QED
  BY <1>1, <1>2, IInvAlways, PTL DEF Spec, ImplementsLibrary, Library!Spec
=============================================================================
