----------------------------- MODULE MCClients -----------------------------
(***************************************************************************)
(* A small instance of Clients for TLC; MCClients.cfg gives the bounds.    *)
(***************************************************************************)
EXTENDS Clients

=============================================================================
