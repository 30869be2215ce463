-------------------------- MODULE SchemaGen_proofs --------------------------
(***************************************************************************)
(* The generator tells the maintainer what has drifted, for any dumps and  *)
(* config.md files, however a dump flattens, any number of new versions    *)
(* and of runs cut off anywhere.                                           *)
(***************************************************************************)
EXTENDS SchemaGen, TLAPS

\* What a run compares with: the options of the last whole file, or none when that
\* file is lost to a run that was cut off.
Compared(options) ==
    \/ report = Drift(known, options)
    \/ report = Drift(<<>>, options) /\ (cut \/ known = <<>>)

IInv ==
    /\ pc \in {"idle", "built", "reported", "writing"}
    /\ file.state = "whole" => file.options = known
    /\ file.state # "whole" => known = <<>> \/ cut \/ pc = "writing"
    /\ pc = "writing" => file.state # "whole"
    /\ pc \in {"reported", "writing"} => Compared(opts)

-----------------------------------------------------------------------------
\* An option that differs from those compared with is reported.
LEMMA DriftTellsNew ==
  ASSUME NEW old, NEW next, NEW o \in ToSet(next),
         o.key \notin Drift(old, next).added \cup Drift(old, next).retyped
  PROVE  \E q \in ToSet(old) : q.key = o.key /\ q.kind = o.kind
<1>1. o.key \in Keys(next)
  BY DEF Keys, ToSet
<1>2. o.key \in Keys(old)
  BY <1>1 DEF Drift
<1>3. \E q \in ToSet(old) : Same(o, q)
  BY <1>2 DEF Drift
<1> QED
  BY <1>3 DEF Same

\* An option that is compared with and gone is reported.
LEMMA DriftTellsGone ==
  ASSUME NEW old, NEW next
  PROVE  Keys(old) \subseteq Keys(next) \cup Drift(old, next).removed
  BY DEF Drift

LEMMA NothingToLose == Keys(<<>>) = {} /\ ToSet(<<>>) = {}
  BY DEF Keys, ToSet

-----------------------------------------------------------------------------
LEMMA IInvInit == Init => IInv
  BY DEF Init, IInv, NoFile

LEMMA IInvNext ==
  ASSUME IInv, [Next]_vars
  PROVE  IInv'
<1>1. CASE Build
  BY <1>1 DEF Build, IInv
<1>2. CASE Report
  <2>1. pc' = "reported" /\ report' = Drift(Prior, opts)
        /\ UNCHANGED <<file, opts, known, cut>> /\ pc = "built"
    BY <1>2 DEF Report
  <2>2. CASE file.state = "whole"
    BY <2>1, <2>2 DEF IInv, Prior, Compared, Drift
  <2>3. CASE file.state # "whole"
    <3>1. Prior = <<>> /\ (known = <<>> \/ cut)
      BY <2>1, <2>3 DEF IInv, Prior
    <3> QED
      BY <2>1, <2>3, <3>1 DEF IInv, Compared, Drift
  <2> QED
    BY <2>2, <2>3
<1>3. CASE Truncate
  BY <1>3 DEF Truncate, IInv, TornFile, Compared, Drift
<1>4. CASE Fill
  BY <1>4 DEF Fill, IInv, Whole
<1>5. CASE Abort
  BY <1>5 DEF Abort, IInv
<1>6. CASE Bump
  BY <1>6 DEF Bump, IInv
<1>7. CASE Annotate
  BY <1>7 DEF Annotate, IInv, Whole
<1>8. CASE UNCHANGED vars
  BY <1>8 DEF vars, IInv, Compared, Drift
<1> QED
  BY <1>1, <1>2, <1>3, <1>4, <1>5, <1>6, <1>7, <1>8 DEF Next

LEMMA IInvAlways == Spec => []IInv
  BY IInvInit, IInvNext, PTL DEF Spec

-----------------------------------------------------------------------------
\* An option a run has not reported is one the maintainer knew, of the same kind,
\* and no option is gone unreported unless a run was cut off in its writing.
THEOREM DriftIsTold == Spec => ReportTellsAll
<1>1. ASSUME IInv, [Next]_vars, pc = "writing", file'.state = "whole"
      PROVE  /\ \A o \in ToSet(file'.options) :
                  o.key \notin report.added \cup report.retyped =>
                      \E q \in ToSet(known) : q.key = o.key /\ q.kind = o.kind
             /\ cut \/ Keys(known) \subseteq Keys(file'.options) \cup report.removed
  <2>0. file.state # "whole" /\ file' # file
    BY <1>1 DEF IInv
  <2>1. Fill
    BY <1>1, <2>0 DEF Next, Build, Report, Truncate, Abort, Bump, Annotate, vars, TornFile
  <2>2. file'.options = opts
    BY <1>1, <2>1 DEF Fill, Whole
  <2>3. CASE report = Drift(known, opts)
    BY <2>2, <2>3, DriftTellsNew, DriftTellsGone
  <2>4. CASE report = Drift(<<>>, opts) /\ (cut \/ known = <<>>)
    BY <2>2, <2>4, DriftTellsNew, DriftTellsGone, NothingToLose
  <2> QED
    BY <1>1, <2>3, <2>4 DEF IInv, Compared
<1>2. IInv /\ [Next]_vars
        => [pc = "writing" /\ file'.state = "whole" =>
              /\ \A o \in ToSet(file'.options) :
                    o.key \notin report.added \cup report.retyped =>
                        \E q \in ToSet(known) : q.key = o.key /\ q.kind = o.kind
              /\ cut \/ Keys(known) \subseteq Keys(file'.options) \cup report.removed]_vars
  BY <1>1
<1> QED
  BY <1>2, IInvAlways, PTL DEF Spec, ReportTellsAll
=============================================================================
