---------------------------- MODULE MCConfigTree ----------------------------
(* Small instances of ConfigTree for TLC. *)
EXTENDS ConfigTree

\* Siblings, a key inside another, and a key at each depth.
FourPaths == {<<"doc">>, <<"doc", "toc">>, <<"doc", "images">>, <<"doc", "images", "jpeg">>}
FourKeys == {"doc", "toc", "images", "jpeg"}
OneRoot == {"doc"}
=============================================================================
