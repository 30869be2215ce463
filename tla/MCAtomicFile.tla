---------------------------- MODULE MCAtomicFile ----------------------------
(* Small instances of AtomicFile for TLC. *)
EXTENDS AtomicFile
=============================================================================
