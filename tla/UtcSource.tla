----------------------------- MODULE UtcSource ------------------------------
(***************************************************************************)
(* What the timebase promises to the tasks that read UTC from it.  A UTC   *)
(* second is the number of captured PPS edges plus an offset.  While the   *)
(* source is valid the offset can only be corrected forward, one second at *)
(* a time; it is chosen anew only after the source was lost.  A reader is  *)
(* served an edge that was really captured, under the offset of the        *)
(* moment, and within one validity period never steps back.                *)
(***************************************************************************)
EXTENDS Integers

CONSTANT Readers

VARIABLES
  edges,   \* captured PPS edges
  valid,   \* a label has been accepted and has not expired
  offset,  \* UTC second minus edge count
  served   \* the second last served to each reader since the last loss, or -1

vars == <<edges, valid, offset, served>>

Nothing == [r \in Readers |-> -1]

Init ==
  /\ edges = 0
  /\ valid = FALSE
  /\ offset \in Int
  /\ served = Nothing

\* An edge is captured.
Edge ==
  /\ edges' = edges + 1
  /\ UNCHANGED <<valid, offset, served>>

\* A first label, or the first one after a loss, fixes the offset.
Acquire ==
  /\ ~valid
  /\ valid' = TRUE
  /\ offset' \in Int
  /\ UNCHANGED <<edges, served>>

\* A label one second ahead of the projection: an edge had been missed.
Correct ==
  /\ valid
  /\ offset' = offset + 1
  /\ UNCHANGED <<edges, valid, served>>

\* PPS or labels stay away for too long.
Lose ==
  /\ valid
  /\ valid' = FALSE
  /\ served' = Nothing
  /\ UNCHANGED <<edges, offset>>

Serve(r) ==
  /\ valid
  /\ \E count \in 0 .. edges :
       /\ offset + count >= served[r]
       /\ served' = [served EXCEPT ![r] = offset + count]
  /\ UNCHANGED <<edges, valid, offset>>

Next == Edge \/ Acquire \/ Correct \/ Lose \/ \E r \in Readers : Serve(r)

Spec == Init /\ [][Next]_vars

=============================================================================
