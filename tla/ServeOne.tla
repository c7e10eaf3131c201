------------------------------ MODULE ServeOne ------------------------------
(***************************************************************************)
(* What the listener and client threads of the agent promise together: one *)
(* client is taken at a time and each connection once, the socket that the *)
(* other threads write to is the taken client's or none, and a client is   *)
(* released only after that socket has been withdrawn.                     *)
(*                                                                         *)
(* The promise ends with the first stop or second start of the service.    *)
(***************************************************************************)
CONSTANTS Conns, NoConn

VARIABLES
  who,     \* the client being served
  sock,    \* the socket the other threads write to
  served,  \* the connections taken so far
  over     \* the promise has ended

vars == <<who, sock, served, over>>

Init == who = NoConn /\ sock = NoConn /\ served = {} /\ over = FALSE

Take(c) ==
  /\ ~over /\ who = NoConn /\ c \notin served
  /\ who' = c
  /\ served' = served \cup {c}
  /\ UNCHANGED <<sock, over>>

Publish ==
  /\ ~over /\ who # NoConn /\ sock = NoConn
  /\ sock' = who
  /\ UNCHANGED <<who, served, over>>

Withdraw ==
  /\ ~over /\ sock # NoConn
  /\ sock' = NoConn
  /\ UNCHANGED <<who, served, over>>

Release ==
  /\ ~over /\ who # NoConn /\ sock = NoConn
  /\ who' = NoConn
  /\ UNCHANGED <<sock, served, over>>

End ==
  /\ ~over /\ over'
  /\ who' = NoConn /\ sock' = NoConn /\ served' = {}

Next == (\E c \in Conns : Take(c)) \/ Publish \/ Withdraw \/ Release \/ End

Spec == Init /\ [][Next]_vars

=============================================================================
