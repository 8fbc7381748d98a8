----------------------------- MODULE Interfaces -----------------------------
(***************************************************************************)
(* A daemon with an interface to the bus that leaves the access to it to   *)
(* others: another daemon (EIBNetIPLink), the kernel or a multicast group  *)
(* (PlainDrivers), a BCU 1 (BCU1), a device at the USB (USBInterface).  A  *)
(* behaviour shows one of them, the one that the URL on the command line   *)
(* names (Create in src/eibd/server/eibd.cpp); the variables of the others *)
(* keep their initial values.                                              *)
(***************************************************************************)
EXTENDS EIBNetIPLink, BCU1, USBInterface, PlainDrivers

VARIABLE url

ifvars == <<url, vars, api, bcuown, usbown, plvars>>

Create(u) ==
  /\ url = u
  /\ Init /\ BCUInit /\ USBInit /\ PlainInit
  /\ kernel = (u = "bcu1") /\ router = (u = "ip")
  /\ u # "usb" => phase = "ask"

InterfacesInit == \E u \in {"ipt", "ip", "tpuart", "bcu1", "bcu1s", "usb"} : Create(u)

(* A step of one of them. *)
Is(u) == url \in u /\ UNCHANGED url
TunnelOnly == Is({"ipt"}) /\ UNCHANGED <<api, bcuown, usbown, plvars>>
PlainOnly == Is({"ip", "tpuart"}) /\ UNCHANGED <<vars, api, bcuown, usbown>>
BCUOnly == Is({"bcu1", "bcu1s"}) /\ UNCHANGED <<vars, usbown, plvars>>
USBOnly == Is({"usb"}) /\ UNCHANGED <<vars, bcuown, plvars>>

InterfacesNext ==
  \/ TunnelOnly /\ Next
  \/ PlainOnly /\ PlainNext
  \/ BCUOnly /\ BCUNext
  \/ USBOnly /\ USBNext

(* The thread of the driver goes on, and a transfer comes to an end.       *)
InterfacesSpec ==
  /\ InterfacesInit /\ [][InterfacesNext]_ifvars
  /\ WF_bcuvars(url = "bcu1" /\ BCURun /\ BCUOnly)
  /\ WF_usbvars(url = "usb" /\ RunUSB /\ USBOnly)
  /\ WF_usbvars(url = "usb" /\ SendTransfer /\ USBOnly)

(* Packets and frames cross the driver in order, and leave its queue only  *)
(* when they have crossed.                                                 *)
CrossesInStep == UnitInStep /\ ReportsInStep /\ CopiesInStep

(* BCU1 and USBInterface implement the contract that EMI relies on. *)
APacket ==
  {Ask} \cup {BCUPacket(n) : n \in 1 .. MaxSubmit} \cup {SetVersion(w) : w \in 1 .. 3}
    \cup {Emi(w, n) : w \in 1 .. 2, n \in 1 .. MaxSubmit}
APipe == INSTANCE PacketPipe
           WITH Packet <- APacket, queue <- inqueue, empty <- (send_empty = 1)
PipeKept == APipe!PipeSpec

(* A packet does not stay in the queue for ever, whatever fails, unless    *)
(* the interface has lost the bus or the thread has ended.  (bcu1s has no  *)
(* part in this: a unit that behaves never lets it finish a packet.)       *)
PacketsLeave ==
  []<>(\/ inqueue = <<>> \/ url = "bcu1s" \/ bpc = "stopped"
       \/ ~connection_state \/ ended \/ phase = "deleted")
=============================================================================
