---------------------------- MODULE PlainDrivers ----------------------------
(***************************************************************************)
(* The two drivers of layer 2 in src/eibd/backend that leave the access to *)
(* the bus to others: TPUARTLayer2Driver (tpuart.cpp) to a kernel module,  *)
(* EIBNetIPRouter (eibnetrouter.cpp) to a multicast group of EIBnet/IP.    *)
(* Each hands frames to Layer3 and, for its bus monitors, copies of them.  *)
(***************************************************************************)
EXTENDS Integers, Sequences

CONSTANTS
  MaxBus,      \* bound: frames of others and frames sent
  MaxSwitch    \* bound: changes of the modes

ASSUME PlainAssumption == MaxBus \in Nat /\ MaxSwitch \in Nat

VARIABLES
  router,      \* which of the two classes it is
  pmode, pvmode,  \* members mode and vmode
  pin,         \* inqueue of TPUARTLayer2Driver
  pout,        \* outqueue
  pstep,       \* its thread: "read" or "write"
  under,       \* what comes from the kernel or the network
  pno, switches,
  (* history *)
  handed,      \* what Layer3 has taken
  passed       \* what passed the driver, with the modes at that time

plvars == <<router, pmode, pvmode, pin, pout, pstep, under, pno, switches, handed, passed>>

PlainInit ==
  /\ router \in BOOLEAN
  /\ pmode = 0 /\ pvmode = 0
  /\ pin = <<>> /\ pout = <<>> /\ pstep = "read" /\ under = <<>>
  /\ pno = 0 /\ switches = 0
  /\ handed = <<>> /\ passed = <<>>

Copy(n) == [kind |-> "copy", n |-> n]    \* an L_Busmonitor_PDU
Frame(n) == [kind |-> "frame", n |-> n]
Passes(n, sent) == Append(passed, [n |-> n, sent |-> sent, mode |-> pmode, vmode |-> pvmode])
CopyIf(watched, n) == IF watched THEN <<Copy(n)>> ELSE <<>>

(* A frame of somebody else.  The router drops what is not a routing        *)
(* indication of L_Data.ind.                                               *)
Overhear ==
  /\ pno < MaxBus /\ pno' = pno + 1
  /\ \E kind \in IF router THEN {"frame", "other"} ELSE {"frame"} :
       under' = Append(under, [kind |-> kind, n |-> pno])
  /\ UNCHANGED <<router, pmode, pvmode, pin, pout, pstep, switches, handed, passed>>

HandsOverBoth(n) == CopyIf(pmode = 1 \/ pvmode = 1, n) \o <<Frame(n)>>
(* Run, as far as it reads.  In the mode of the bus monitor there is only   *)
(* the copy.                                                               *)
HandsOver(n) == CopyIf(pmode = 1 \/ pvmode = 1, n) \o IF pmode = 0 THEN <<Frame(n)>> ELSE <<>>

ReadUnder ==
  /\ pstep = "read" /\ under # <<>>
  /\ under' = Tail(under)
  /\ LET f == Head(under) IN
     IF f.kind = "frame"
     THEN pout' = pout \o HandsOver(f.n) /\ passed' = Passes(f.n, FALSE)
     ELSE UNCHANGED <<pout, passed>>
  /\ pstep' = IF ~router /\ pin # <<>> THEN "write" ELSE "read"
  /\ UNCHANGED <<router, pmode, pvmode, pin, pno, switches, handed>>

(* Send_L_Data.  The router sends at once and hands the frame back.         *)
RouterSend ==
  /\ router /\ pno < MaxBus /\ pno' = pno + 1
  /\ pout' = pout \o CopyIf(pvmode = 1, pno) \o <<Frame(pno)>>
  /\ passed' = Passes(pno, TRUE)
  /\ UNCHANGED <<router, pmode, pvmode, pin, pstep, under, switches, handed>>

KernelSend ==
  /\ ~router /\ pno < MaxBus /\ pno' = pno + 1
  /\ pin' = Append(pin, pno)
  /\ UNCHANGED <<router, pmode, pvmode, pout, pstep, under, switches, handed, passed>>

(* The read of the thread ends when there is something to send.  A frame    *)
(* that is written is not handed back, only its copy.                      *)
ReadEnds ==
  /\ ~router /\ pstep = "read" /\ pin # <<>> /\ pstep' = "write"
  /\ UNCHANGED <<router, pmode, pvmode, pin, pout, under, pno, switches, handed, passed>>

WriteDown ==
  /\ pstep = "write" /\ pstep' = "read"
  /\ \/ /\ pin' = Tail(pin)
        /\ pout' = pout \o CopyIf(pvmode = 1, Head(pin))
        /\ passed' = Passes(Head(pin), TRUE)
     \/ UNCHANGED <<pin, pout, passed>>     \* a failure: the frame stays
  /\ UNCHANGED <<router, pmode, pvmode, under, pno, switches, handed>>

PlainGet_L_Data ==
  /\ pout # <<>>
  /\ handed' = Append(handed, Head(pout)) /\ pout' = Tail(pout)
  /\ UNCHANGED <<router, pmode, pvmode, pin, pstep, under, pno, switches, passed>>

(* enterBusmonitor, leaveBusmonitor, openVBusmonitor, closeVBusmonitor; and *)
(* Open, in which the router sets the mode and TPUART resets the chip.      *)
PlainSwitch ==
  /\ switches < MaxSwitch /\ switches' = switches + 1
  /\ \/ pmode' \in {0, 1} \ {pmode} /\ UNCHANGED pvmode
     \/ pvmode' \in {0, 1} \ {pvmode} /\ UNCHANGED pmode
  /\ UNCHANGED <<router, pin, pout, pstep, under, pno, handed, passed>>

PlainOpen ==
  /\ router /\ pmode = 1 /\ pmode' = 0
  /\ UNCHANGED <<router, pvmode, pin, pout, pstep, under, pno, switches, handed, passed>>

RunPlain == ReadUnder \/ ReadEnds \/ WriteDown
PlainNext ==
  \/ Overhear \/ RouterSend \/ KernelSend \/ RunPlain
  \/ PlainGet_L_Data \/ PlainSwitch \/ PlainOpen

(* Whatever the modes were when a frame passed and when Layer3 takes it:    *)
(* the frames Layer3 gets are those of others outside the mode of the bus   *)
(* monitor, and the router's own; the copies are those of all that passed   *)
(* while somebody watched; both come in the order in which they passed,     *)
(* each once, and a copy before its frame.                                  *)
IsFor(kind, p, ip) ==
  IF kind = "frame" THEN IF p.sent THEN ip ELSE p.mode = 0
  ELSE p.vmode = 1 \/ (p.mode = 1 /\ ~p.sent)

InStep(all, frames, ip) ==
  /\ \A kind \in {"frame", "copy"} :
       {all[i].n : i \in {i \in DOMAIN all : all[i].kind = kind}}
         = {frames[k].n : k \in {k \in DOMAIN frames : IsFor(kind, frames[k], ip)}}
  /\ \A i, j \in DOMAIN all : i < j /\ all[i].kind = all[j].kind =>
       \E k, l \in DOMAIN frames : k < l /\ frames[k].n = all[i].n /\ frames[l].n = all[j].n
  /\ \A i, j \in DOMAIN all : all[i].kind = "frame" /\ all[j] = Copy(all[i].n) => j < i

CopiesInStep == InStep(handed \o pout, passed, router)
=============================================================================
