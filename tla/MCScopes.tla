------------------------------- MODULE MCScopes -------------------------------
(***************************************************************************)
(* TLC's instance of Scopes: a main thread and one that it starts.         *)
(***************************************************************************)
EXTENDS ScopesProperties

ScopesSpec == S!Spec
=============================================================================
