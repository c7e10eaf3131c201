----------------------------- MODULE TouchRelay -----------------------------
(***************************************************************************)
(* What the agent and the daemon promise about touches: a touch is pending *)
(* until it is injected or lost, the oldest pending one is injected next,  *)
(* none twice, and none is lost unless the connection between agent and    *)
(* daemon has been.                                                        *)
(***************************************************************************)
EXTENDS Naturals

VARIABLES
  made,     \* the number of touches made
  done,     \* the touch that was injected last
  pending,  \* the touches that are on their way
  broken    \* the connection has been lost or closed

vars == <<made, done, pending, broken>>

Init == made = 0 /\ done = 0 /\ pending = {} /\ broken = FALSE

Make ==
  /\ made' = made + 1
  /\ pending' = pending \cup {made + 1}
  /\ UNCHANGED <<done, broken>>

Inject ==
  \E n \in pending :
    /\ \A m \in pending : n <= m
    /\ done' = n
    /\ pending' = pending \ {n}
    /\ UNCHANGED <<made, broken>>

Lose ==
  /\ broken'
  /\ pending' \subseteq pending
  /\ UNCHANGED <<made, done>>

Next == Make \/ Inject \/ Lose

Spec == Init /\ [][Next]_vars

=============================================================================
