----------------------------- MODULE MCOidcLogin -----------------------------
(* A small instance of OidcLogin for TLC. *)
EXTENDS OidcLogin
=============================================================================
