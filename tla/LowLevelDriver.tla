--------------------------- MODULE LowLevelDriver ---------------------------
(***************************************************************************)
(* The part that the low level drivers share (src/eibd/backend/ft12.cpp,   *)
(* usbif.cpp, bcu1.cpp, bcu1serial.cpp): a queue of packets to send with   *)
(* its two semaphores, and a queue of packets received with one.           *)
(***************************************************************************)
EXTENDS Integers, Sequences

CONSTANT MaxSubmit     \* bound: packets submitted

ASSUME MaxSubmitAssumption == MaxSubmit \in Nat

VARIABLES
  inqueue, in_signal,  \* packets to send, and how many the thread was told of
  send_empty,          \* semaphore: 1 when all are sent
  outqueue, out_signal,\* packets received
  submitted            \* history: packets submitted so far

api == <<inqueue, in_signal, send_empty, outqueue, out_signal, submitted>>

ApiInit ==
  /\ inqueue = <<>> /\ in_signal = 0 /\ send_empty = 1
  /\ outqueue = <<>> /\ out_signal = 0
  /\ submitted = 0

(* Send_Packet. *)
Put(pdu) ==
  /\ inqueue' = Append(inqueue, pdu)
  /\ send_empty' = 0
  /\ in_signal' = in_signal + 1
  /\ UNCHANGED <<outqueue, out_signal>>

(* A packet of the user gets its number in the order of submission. *)
Submit(pdu) ==
  submitted < MaxSubmit /\ submitted' = submitted + 1 /\ Put(pdu)

SentUnsignalled ==
  /\ in_signal' = in_signal - 1
  /\ inqueue' = Tail(inqueue)
  /\ UNCHANGED <<send_empty, outqueue, out_signal, submitted>>

(* The thread has sent the packet at the head. *)
Sent ==
  /\ in_signal' = in_signal - 1
  /\ inqueue' = Tail(inqueue)
  /\ send_empty' = IF inqueue' = <<>> THEN 1 ELSE send_empty
  /\ UNCHANGED <<outqueue, out_signal, submitted>>

(* The thread has received a packet. *)
Received(c) ==
  /\ outqueue' = Append(outqueue, c)
  /\ out_signal' = out_signal + 1
  /\ UNCHANGED <<inqueue, in_signal, send_empty, submitted>>

(* Get_Packet, when a packet is there. *)
TakePacket ==
  /\ out_signal > 0
  /\ out_signal' = out_signal - 1
  /\ outqueue' = Tail(outqueue)
  /\ UNCHANGED <<inqueue, in_signal, send_empty, submitted>>
=============================================================================
