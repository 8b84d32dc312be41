----------------------------- MODULE MCSession -----------------------------
(***************************************************************************)
(* Two users of one browser, four requests in flight, two reloads.         *)
(***************************************************************************)
EXTENDS SessionStore

=============================================================================
