---------------------------- MODULE MCConnection ----------------------------
(* The instance of Connection that TLC checks; Connection.cfg gives the bounds. *)
EXTENDS Connection, TLC
=============================================================================
