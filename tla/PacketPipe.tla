----------------------------- MODULE PacketPipe -----------------------------
(***************************************************************************)
(* What LowLevelDriverInterface (src/eibd/libserver/lowlevel.h) promises   *)
(* its users: packets leave in the order in which they were sent, and the  *)
(* semaphore of Send_Queue_Empty_Cond is raised exactly while none is      *)
(* left.  The users (EMI1, EMI2) wait for it after a change of mode.       *)
(***************************************************************************)
EXTENDS Sequences

CONSTANT Packet

VARIABLES queue, empty

PipeInit == queue = <<>> /\ empty = TRUE

Submit == \E p \in Packet : queue' = Append(queue, p) /\ empty' = FALSE

Transmitted ==
  /\ queue # <<>>
  /\ queue' = Tail(queue)
  /\ empty' = (queue' = <<>>)

PipeSpec == PipeInit /\ [][Submit \/ Transmitted]_<<queue, empty>>
=============================================================================
