----------------------------- MODULE FreshName -----------------------------
(***************************************************************************)
(* How a file name that is taken is made fresh: uniqueInputName for the    *)
(* uploads of a batch, uniqueZipName for the entries of its archive.  They *)
(* are the same function.                                                  *)
(*                                                                         *)
(* A name is what remains without a trailing "-<number>" and that number.  *)
(* The tag is 0 for a name without one, n for "-n" as strconv.Itoa writes  *)
(* it, and negative for a number written otherwise ("-007", "-+1"), which  *)
(* strconv.Atoi accepts but no candidate has.  The extension belongs to    *)
(* the stem.                                                               *)
(***************************************************************************)
EXTENDS Integers, FiniteSets

Name(stem, tag) == [stem |-> stem, tag |-> tag]

\* Mutant: the first suffix is taken for free.
FirstSuffix(stem, used) == 1

\* The first of "-1", "-2", ... that is free.  One of as many suffixes as there
\* are used names, and one more, is: the loop needs no bound.
LeastFree(stem, used) ==
    CHOOSE n \in 1..(Cardinality(used) + 1) :
        /\ Name(stem, n) \notin used
        /\ \A k \in 1..(n - 1) : Name(stem, k) \in used

Fresh(name, used) ==
    IF name \notin used THEN name ELSE Name(name.stem, LeastFree(name.stem, used))
=============================================================================
