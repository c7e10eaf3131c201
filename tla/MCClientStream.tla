--------------------------- MODULE MCClientStream ---------------------------
(***************************************************************************)
(* Small instances of ClientStream: a service that meets one or two        *)
(* clients, one after the other, and has at most one log reader.           *)
(***************************************************************************)
EXTENDS ClientStream, TLC

CONSTANTS c1, c2, s1, s2, r1

OneConn == {c1}
TwoConns == {c1, c2}
OneState == {s1}
TwoStates == {s1, s2}
NoReader == {}
OneReader == {r1}

(* Only the connections and the device states are interchangeable.         *)
Symmetry == Permutations(Conns) \cup Permutations(Status)

=============================================================================
