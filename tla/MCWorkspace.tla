---------------------------- MODULE MCWorkspace ----------------------------
(***************************************************************************)
(* Two users of one browser, two investigations, one edit or note; three   *)
(* requests in flight, one of them from before the user's last act.        *)
(***************************************************************************)
EXTENDS Workspace, TLC

Symmetry == Permutations(User)

=============================================================================
