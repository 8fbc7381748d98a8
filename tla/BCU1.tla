-------------------------------- MODULE BCU1 --------------------------------
(***************************************************************************)
(* The two drivers of a BCU 1 at the PEI 16 interface in src/eibd/backend: *)
(* BCU1SerialLowLevelDriver (bcu1serial.cpp), which does the handshake of  *)
(* every octet itself with the lines RTS and CTS, and                      *)
(* BCU1DriverLowLevelDriver (bcu1.cpp), which leaves it to the kernel.     *)
(*                                                                         *)
(* The serial driver polls the lines without giving way to another thread, *)
(* so that a round of its loop is one step for everybody else.             *)
(***************************************************************************)
EXTENDS LowLevelDriver

CONSTANTS
  PacketSize,  \* octets of a packet, its header not counted
  MaxUnit,     \* bound: packets of the unit
  MaxMishap    \* bound: rounds and writes that fail

ASSUME BCU1Assumption == PacketSize \in Nat \ {0} /\ MaxUnit \in Nat /\ MaxMishap \in Nat

VARIABLES
  kernel,      \* bcu1.cpp or bcu1serial.cpp
  bpc,         \* where the thread is
  unitSays,    \* number of the next packet of the unit
  mishaps,
  unitGot,     \* history: packets the unit has got
  bcuGot,      \* history: packets received from the unit
  bgone        \* history: packets that have left inqueue

bcuown == <<kernel, bpc, unitSays, mishaps, unitGot, bcuGot, bgone>>
bcuvars == <<api, bcuown>>

BCUInit ==
  /\ ApiInit /\ kernel \in BOOLEAN
  /\ bpc = "wait" /\ unitSays = 1 /\ mishaps = 0
  /\ unitGot = <<>> /\ bcuGot = <<>> /\ bgone = <<>>

BCUPacket(n) == [kind |-> "packet", n |-> n]
UnitTalks == unitSays <= MaxUnit
Mishap == mishaps < MaxMishap /\ mishaps' = mishaps + 1

BCUSend_Packet ==
  /\ bpc # "stopped"
  /\ Submit(BCUPacket(submitted + 1))
  /\ UNCHANGED bcuown

BCUGet_Packet == bpc # "stopped" /\ TakePacket /\ UNCHANGED bcuown

(* The thread tells of a packet. *)
Gone == bgone' = Append(bgone, Head(inqueue).n)
Hears ==
  /\ Received(BCUPacket(unitSays))
  /\ bcuGot' = Append(bcuGot, unitSays) /\ unitSays' = unitSays + 1

----------------------------------------------------------------------------
(* The serial driver.  A round starts with an exchange of headers: how     *)
(* many octets each side has to send, or that it has none.  The unit goes  *)
(* first if both have; nothing comes of a round in which none has.          *)
SerialReceive ==
  /\ ~kernel /\ bpc = "wait" /\ UnitTalks
  /\ Hears
  /\ UNCHANGED <<kernel, bpc, mishaps, unitGot, bgone>>

(* After each octet sent, endsync waits until the unit takes back CTS, at   *)
(* most 65536 times; the round goes on if it has NOT done so in that time.  *)
GoesOnAfter(hangs) == hangs
GoesOnAlways(hangs) == TRUE

(* The unit takes the octets up to the first after which the round ends;   *)
(* it has the packet when it has all.                                      *)
SerialSend ==
  /\ ~kernel /\ bpc = "wait" /\ ~UnitTalks /\ inqueue # <<>>
  /\ \E hangs \in [1 .. PacketSize -> BOOLEAN] :
       LET good == {i \in 1 .. PacketSize : \A j \in 1 .. i : GoesOnAfter(hangs[j])}
           octets == {i \in 1 .. PacketSize : i = 1 \/ i - 1 \in good}
       IN /\ unitGot' = IF octets = 1 .. PacketSize
                        THEN Append(unitGot, Head(inqueue).n) ELSE unitGot
          /\ \/ good = 1 .. PacketSize /\ Sent /\ Gone /\ UNCHANGED <<bpc, mishaps>>
             \/ /\ good # 1 .. PacketSize /\ Mishap
                /\ bpc' = "error" /\ UNCHANGED <<api, bgone>>
  /\ UNCHANGED <<kernel, unitSays, bcuGot>>

(* The line fails in another way: CTS does not come, no octet is read, or   *)
(* CTS stays while the unit sends; the unit keeps its packet or drops it.   *)
SerialError ==
  /\ ~kernel /\ bpc = "wait" /\ Mishap /\ bpc' = "error"
  /\ unitSays' \in IF UnitTalks THEN {unitSays, unitSays + 1} ELSE {unitSays}
  /\ UNCHANGED <<api, kernel, unitGot, bcuGot, bgone>>

(* The line is reset; the thread sleeps for 2 ms and waits for CTS to go.   *)
SerialRestart ==
  /\ bpc = "error" /\ bpc' = "wait"
  /\ UNCHANGED <<api, kernel, unitSays, mishaps, unitGot, bcuGot, bgone>>

----------------------------------------------------------------------------
(* The driver over the kernel.  It sleeps in a read that a packet to send   *)
(* ends; then it writes the packet as a whole or tries again.               *)
KernelRead ==
  /\ kernel /\ bpc = "wait"
  /\ \/ UnitTalks /\ Hears
     \/ in_signal > 0 /\ UNCHANGED <<api, bcuGot, unitSays>>
  /\ bpc' = IF inqueue = <<>> THEN "wait" ELSE "write"
  /\ UNCHANGED <<kernel, mishaps, unitGot, bgone>>

(* What is written in part the kernel takes for a packet of its own, which *)
(* the unit does not understand.                                           *)
KernelWrite ==
  /\ bpc = "write"
  /\ \/ bpc' = "sending" /\ UNCHANGED mishaps
     \/ Mishap /\ bpc' = "wait"
  /\ UNCHANGED <<api, kernel, unitSays, unitGot, bcuGot, bgone>>

(* The kernel tells that the unit has it.  A kernel that cannot tell       *)
(* (send_done = 0) is not waited for.                                      *)
KernelSent ==
  /\ bpc = "sending" /\ bpc' = "wait"
  /\ unitGot' = Append(unitGot, Head(inqueue).n)
  /\ Sent /\ Gone
  /\ UNCHANGED <<kernel, unitSays, mishaps, bcuGot>>

(* The destructor waits until the thread has left its loop, and with it    *)
(* for the kernel to tell that a packet is sent.                           *)
BCUStop ==
  /\ bpc = "wait" /\ bpc' = "stopped"
  /\ outqueue' = <<>> /\ out_signal' = 0
  /\ UNCHANGED <<inqueue, in_signal, send_empty, submitted, kernel, unitSays, mishaps,
                 unitGot, bcuGot, bgone>>

BCURun ==
  \/ SerialReceive \/ SerialSend \/ SerialError \/ SerialRestart
  \/ KernelRead \/ KernelWrite \/ KernelSent

BCUNext == BCUSend_Packet \/ BCUGet_Packet \/ BCURun \/ BCUStop

(* What left the queue the unit has, in order; what it has may be sent      *)
(* again, and what it says is heard at most once.                          *)
UnitInStep ==
  /\ \A i \in DOMAIN bgone : bgone[i] = i /\ \E j \in DOMAIN unitGot : unitGot[j] = i
  /\ \A i, j \in DOMAIN unitGot : i < j => unitGot[i] <= unitGot[j]
  /\ \A i, j \in DOMAIN bcuGot : i < j => bcuGot[i] < bcuGot[j]
=============================================================================
