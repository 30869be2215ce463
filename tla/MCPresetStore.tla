---------------------------- MODULE MCPresetStore ----------------------------
(* Small instances of PresetStore for TLC. *)
EXTENDS PresetStore

OneSlug == {<<"book">>}
=============================================================================
