----------------------------- MODULE MCDelivery -----------------------------
(***************************************************************************)
(* Small instances of Delivery for TLC; the .cfg files give the bounds.    *)
(***************************************************************************)
EXTENDS Delivery

=============================================================================
