---------------------------- MODULE MCTASession ----------------------------
(* Instances of TASession for TLC.                                         *)
EXTENDS TASession, TLC

CONSTANTS c1, c2

OneConn == {c1}
TwoConns == {c1, c2}

Undisturbed == {}
StartFailures == {"start fails", "bind fails"}
StopAndLoss == {"device lost", "user stop"}

(* Connections are interchangeable in the safety runs.                     *)
Symmetry == Permutations(Conns)

=============================================================================
