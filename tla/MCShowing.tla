----------------------------- MODULE MCShowing -----------------------------
(***************************************************************************)
(* Small instances of Showing for TLC; the .cfg files give the bounds.     *)
(***************************************************************************)
EXTENDS Showing

=============================================================================
