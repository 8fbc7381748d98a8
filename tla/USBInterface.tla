---------------------------- MODULE USBInterface ----------------------------
(***************************************************************************)
(* A KNX interface at the USB: USBLowLevelDriver (usbif.cpp in             *)
(* src/eibd/backend) with the thread that keeps a transfer in each         *)
(* direction, and initUSBDriver, USBConverterInterface and                 *)
(* USBLayer2Interface (eibusb.cpp in src/eibd/libserver), which find out   *)
(* the version of EMI and wrap its packets in reports of 64 octets.        *)
(***************************************************************************)
EXTENDS LowLevelDriver

CONSTANTS
  Urls,        \* numbers given on the command line: bus, device, ...
  Alternates,  \* alternate settings of the devices at the bus, as they are enumerated
  Features,    \* sets of versions of EMI an interface may answer with; 3 is cEMI
  MaxAsk,      \* how often initUSBDriver asks (5)
  MaxReports,  \* bound: reports the interface sends unasked
  MaxBroken    \* bound: transfers that fail

ASSUME USBAssumption ==
  Features \subseteq SUBSET (1 .. 3) /\ MaxAsk \in Nat \ {0} /\ MaxReports \in Nat /\ MaxBroken \in Nat

VARIABLES
  phase,       \* of initUSBDriver and what comes after
  asked,       \* cnt
  v,           \* the version of the converter, 0 before
  sendh, recvh,\* transfers: "none", "started", "done" or "failed"
  recvbuf,
  connection_state,
  ended,       \* the thread has left its loop
  usays,       \* reports of the interface on their way
  reports, broken,
  ugot,        \* history: what the interface has got
  ugone,       \* history: packets that have left inqueue
  utaken       \* history: EMI packets that were handed on

usbown == <<phase, asked, v, sendh, recvh, recvbuf, connection_state, ended, usays, reports,
            broken, ugot, ugone, utaken>>
usbvars == <<api, usbown>>

Ask == [kind |-> "ask", n |-> 0]
SetVersion(w) == [kind |-> "version", n |-> w]
Answer(f) == [kind |-> "answer", features |-> f]
Status(online) == [kind |-> "status", online |-> online]
Emi(w, n) == [kind |-> "emi", version |-> w, n |-> n]
NoReport == [kind |-> "none"]

(* parseUSBEndpoint: a number that is not given is -1.  The parser stops at *)
(* the fourth, so that none is ever given for the interface.               *)
EndpointOf(url) ==
  LET Part(i) == IF i <= Len(url) THEN url[i] ELSE -1
  IN [bus |-> Part(1), device |-> Part(2), config |-> Part(3), altsetting |-> Part(4),
      interface |-> -1]

(* check_device: a HID with an interrupt endpoint of 64 octets each way.   *)
Usable(a) ==
  a.hid /\ \A dir \in {"in", "out"} : \E ep \in a.endpoints :
             ep.dir = dir /\ ep.size = 64 /\ ep.interrupt
Fits(e, a) == \A part \in DOMAIN e : e[part] \in {-1, a[part]}

(* detectUSBEndpoint takes the first that can be opened. *)
Detected(url) == SelectSeq(Alternates, LAMBDA a : Usable(a) /\ a.opens /\ Fits(EndpointOf(url), a))

USBInit ==
  /\ ApiInit
  /\ \E url \in Urls : phase = IF Detected(url) = <<>> THEN "deleted" ELSE "ask"
  /\ asked = 0 /\ v = 0
  /\ sendh = "none" /\ recvh = "none" /\ recvbuf = NoReport
  /\ connection_state = TRUE /\ ended = FALSE
  /\ usays = <<>> /\ reports = 0 /\ broken = 0
  /\ ugot = <<>> /\ ugone = <<>> /\ utaken = <<>>

Breaks == broken < MaxBroken /\ broken' = broken + 1

----------------------------------------------------------------------------
(* initUSBDriver.  It waits for an answer without a limit of time and       *)
(* passes over every other report.                                         *)
AskVersion ==
  /\ phase = "ask" /\ phase' = "await" /\ asked' = asked + 1
  /\ Put(Ask) /\ UNCHANGED submitted
  /\ UNCHANGED <<v, sendh, recvh, recvbuf, connection_state, ended, usays, reports, broken,
                 ugot, ugone, utaken>>

Chosen(f) ==
  CASE 2 \in f -> 2 [] 2 \notin f /\ 1 \in f -> 1 [] f = {3} -> 3 [] OTHER -> 0

PassOver ==
  /\ phase = "await" /\ outqueue # <<>> /\ Head(outqueue).kind # "answer"
  /\ TakePacket
  /\ UNCHANGED usbown

Unsupported ==
  /\ phase = "await" /\ outqueue # <<>> /\ Head(outqueue).kind = "answer"
  /\ Chosen(Head(outqueue).features) = 0
  /\ TakePacket
  /\ phase' = IF asked < MaxAsk THEN "ask" ELSE "deleted"    \* after 5 s
  /\ UNCHANGED <<asked, v, sendh, recvh, recvbuf, connection_state, ended, usays, reports,
                 broken, ugot, ugone, utaken>>

(* The version is set; USBLayer2Interface has no use for cEMI. *)
Supported ==
  /\ phase = "await" /\ outqueue # <<>> /\ Head(outqueue).kind = "answer"
  /\ LET w == Chosen(Head(outqueue).features) IN
     /\ w # 0 /\ v' = w
     /\ outqueue' = Tail(outqueue) /\ out_signal' = out_signal - 1
     /\ inqueue' = Append(inqueue, SetVersion(w))
     /\ send_empty' = 0 /\ in_signal' = in_signal + 1
     /\ phase' = IF w = 3 THEN "deleted" ELSE "up"
  /\ UNCHANGED <<submitted, asked, sendh, recvh, recvbuf, connection_state, ended, usays,
                 reports, broken, ugot, ugone, utaken>>

----------------------------------------------------------------------------
(* The converter: a packet of EMI becomes a report; a report that is not   *)
(* one of this version is dropped.  (It cuts packets of more than 53       *)
(* octets, which EMI1 and EMI2 do not make.)                               *)
USBSend_Packet ==
  /\ phase = "up"
  /\ Submit(Emi(v, submitted + 1))
  /\ UNCHANGED usbown

Unwrapped(r) == r.kind = "emi" /\ r.version = v
UnwrappedAny(r) == r.kind = "emi"

USBGet_Packet ==
  /\ phase = "up" /\ TakePacket
  /\ utaken' = IF Unwrapped(Head(outqueue)) THEN Append(utaken, Head(outqueue)) ELSE utaken
  /\ UNCHANGED <<phase, asked, v, sendh, recvh, recvbuf, connection_state, ended, usays,
                 reports, broken, ugot, ugone>>

----------------------------------------------------------------------------
(* The thread.  A transfer that cannot be started ends it, and nobody is   *)
(* told.                                                                   *)
Runs == ~ended /\ phase # "deleted"

StartRecv ==
  /\ Runs /\ recvh = "none"
  /\ \/ recvh' = "started" /\ UNCHANGED <<ended, broken, sendh>>
     \/ Breaks /\ ended' = TRUE /\ sendh' = "none" /\ UNCHANGED recvh
  /\ UNCHANGED <<api, phase, asked, v, recvbuf, connection_state, usays, reports, ugot, ugone,
                 utaken>>

EndRecv ==
  /\ Runs /\ recvh \in {"done", "failed"}
  /\ recvh' = "none" /\ recvbuf' = NoReport
  /\ IF recvh = "done"
     THEN /\ Received(recvbuf)
          /\ connection_state' = IF recvbuf.kind = "status" THEN recvbuf.online
                                 ELSE connection_state
     ELSE UNCHANGED <<api, connection_state>>
  /\ UNCHANGED <<phase, asked, v, sendh, ended, usays, reports, broken, ugot, ugone, utaken>>

(* A packet whose transfer failed stays and is sent again. *)
FreedIfDone == IF sendh = "done" THEN "none" ELSE sendh
Freed == "none"

EndSend ==
  /\ Runs /\ sendh \in {"done", "failed"}
  /\ sendh' = Freed
  /\ IF sendh = "done"
     THEN Sent /\ ugone' = Append(ugone, Head(inqueue))
     ELSE UNCHANGED <<api, ugone>>
  /\ UNCHANGED <<phase, asked, v, recvh, recvbuf, connection_state, ended, usays, reports,
                 broken, ugot, utaken>>

StartSend ==
  /\ Runs /\ recvh = "started"
  /\ sendh = "none" /\ inqueue # <<>> /\ connection_state
  /\ \/ sendh' = "started" /\ UNCHANGED <<ended, broken, recvh>>
     \/ Breaks /\ ended' = TRUE /\ recvh' = "none" /\ UNCHANGED sendh
  /\ UNCHANGED <<api, phase, asked, v, recvbuf, connection_state, usays, reports, ugot, ugone,
                 utaken>>

(* The destructor cancels the transfers and frees them at once. *)
USBStop ==
  /\ phase = "up" /\ phase' = "deleted"
  /\ ended' = TRUE /\ sendh' = "none" /\ recvh' = "none"
  /\ outqueue' = <<>> /\ out_signal' = 0
  /\ UNCHANGED <<inqueue, in_signal, send_empty, submitted, asked, v, recvbuf,
                 connection_state, usays, reports, broken, ugot, ugone, utaken>>

RunUSB == StartRecv \/ EndRecv \/ EndSend \/ StartSend

----------------------------------------------------------------------------
(* The interface.  A send transfer that fails after its second may have     *)
(* reached it.                                                             *)
Reach(r) ==
  /\ ugot' = Append(ugot, r)
  /\ usays' \in IF r.kind = "ask" THEN {Append(usays, Answer(f)) : f \in Features}
                ELSE {usays}

SendTransfer ==
  /\ sendh = "started"
  /\ \/ sendh' = "done" /\ Reach(Head(inqueue)) /\ UNCHANGED broken
     \/ Breaks /\ sendh' = "failed" /\ (Reach(Head(inqueue)) \/ UNCHANGED <<ugot, usays>>)
  /\ UNCHANGED <<api, phase, asked, v, recvh, recvbuf, connection_state, ended, reports,
                 ugone, utaken>>

RecvTransfer ==
  /\ recvh = "started"
  /\ \/ /\ usays # <<>> /\ recvh' = "done"
        /\ recvbuf' = Head(usays) /\ usays' = Tail(usays) /\ UNCHANGED broken
     \/ Breaks /\ recvh' = "failed" /\ UNCHANGED <<usays, recvbuf>>
  /\ UNCHANGED <<api, phase, asked, v, sendh, connection_state, ended, reports, ugot, ugone,
                 utaken>>

(* It tells when it has lost the bus, and when it has it again. *)
Report ==
  /\ reports < MaxReports /\ reports' = reports + 1
  /\ \E r \in IF reports % 2 = 1 THEN {Status(TRUE)}
              ELSE {Status(FALSE), Emi(1, reports), Emi(2, reports)} :
       usays' = Append(usays, r)
  /\ UNCHANGED <<api, phase, asked, v, sendh, recvh, recvbuf, connection_state, ended, broken,
                 ugot, ugone, utaken>>

USBNext ==
  \/ AskVersion \/ PassOver \/ Unsupported \/ Supported
  \/ USBSend_Packet \/ USBGet_Packet \/ USBStop
  \/ RunUSB \/ SendTransfer \/ RecvTransfer \/ Report

(* What left the queue the interface has got, in the order it was          *)
(* submitted and, as far as no transfer failed, once; it was told the      *)
(* version before the first packet of it; and packets of another version   *)
(* are not handed on.                                                      *)
ReportsInStep ==
  /\ \A i \in DOMAIN ugone : \E j \in DOMAIN ugot : ugot[j] = ugone[i]
  /\ broken = 0 => Len(ugot) <= Len(ugone) + 1
  /\ \A i, j \in DOMAIN ugot :
       i < j /\ ugot[i].kind = "emi" => ugot[j].kind = "emi" /\ ugot[i].n <= ugot[j].n
  /\ \A j \in DOMAIN ugot :
       ugot[j].kind = "emi" => \E i \in 1 .. j - 1 : ugot[i] = SetVersion(ugot[j].version)
  /\ \A i \in DOMAIN utaken : utaken[i].version = v
=============================================================================
