---------------------------- MODULE MCLifetime ----------------------------
(* The instance of Lifetime that TLC checks. *)
EXTENDS Lifetime

MCClosers == {Reader, Writer, User, Timer, Stopper}
=============================================================================
