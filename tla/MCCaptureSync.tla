--------------------------- MODULE MCCaptureSync ---------------------------
(***************************************************************************)
(* Small instances of CaptureSync for TLC; the .cfg files give the bounds. *)
(***************************************************************************)
EXTENDS CaptureSync

LOCAL INSTANCE TLC

\* The refreshes are interchangeable.
Symmetry == Permutations(Refreshes)

=============================================================================
