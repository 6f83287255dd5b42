---------------------------- MODULE MCSessionData ----------------------------
(* A small instance of SessionData for TLC.                                 *)
EXTENDS SessionData, TLC

\* The requests are alike.
Alike == Permutations(Request)

=============================================================================
