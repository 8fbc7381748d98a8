-------------------------------- MODULE EMI --------------------------------
(***************************************************************************)
(* EMI1Layer2Interface and EMI2Layer2Interface (src/eibd/libserver/emi1.cpp*)
(* and emi2.cpp) over a low level driver, of which only the contract is    *)
(* used (PacketPipe), the bus access unit behind it, and the callers:      *)
(* busmonitor registrations of Layer3 (layer3.cpp).                        *)
(*                                                                         *)
(* A change of mode hands several packets to the driver, sleeps, waits     *)
(* until all are sent, and only then notes the new mode.  It yields at     *)
(* each of these steps, and nothing keeps two of them apart.               *)
(***************************************************************************)
EXTENDS Integers, Sequences, FiniteSets

CONSTANTS
  Users,      \* clients of Layer3
  Versions,   \* of {1, 2}: EMI1Layer2Interface, EMI2Layer2Interface
  Noqueue,    \* the flag: wait for a confirmation after each frame
  MaxChange,  \* bound: registrations and deregistrations
  MaxFrames,  \* bound: frames to send
  MaxRestarts,\* bound: restarts of the bus access unit
  MaxEvents   \* bound: the three together

ASSUME EMIAssumption ==
  /\ "run" \notin Users /\ Noqueue \in BOOLEAN /\ Versions \subseteq {1, 2}
  /\ {MaxChange, MaxFrames, MaxRestarts, MaxEvents} \subseteq Nat

VARIABLES
  version,            \* which of the two classes it is
  queue, empty,       \* the low level driver, see PacketPipe
  emode,              \* member mode: 0, 1 busmonitor, 2 normal
  call,               \* the change of mode each thread executes: packets left, wait over
  plan,               \* the calls of the driver that a user of Layer3 has still to make
  l3mode, monitors,   \* members of Layer3
  frames, sendmode,   \* inqueue, and whether a confirmation is awaited
  up,                 \* packets from the unit: "restarted", "confirm"
  unit,               \* mode of the bus access unit
  eused,              \* [change, frame, restart]: what the bounds count
  (* history *)
  overlapped          \* a change of mode met another one or a restart

emivars == <<version, queue, empty, emode, call, plan, l3mode, monitors, frames, sendmode, up,
             unit, eused, overlapped>>

Threads == Users \cup {"run"}

(* The packets of the four functions.  EMI1 sets one byte of the unit, EMI2 *)
(* first puts the unit into its plain mode; "reset" leaves the unit's mode. *)
Packets1(op) ==
  CASE op = "Open" -> <<"reset", "link">>
    [] op = "enterBusmonitor" -> <<"reset", "monitor">>
    [] op \in {"Close", "leaveBusmonitor"} -> <<"plain">>
Packets2(op) ==
  CASE op = "Open" -> <<"reset", "plain", "link">>
    [] op = "enterBusmonitor" -> <<"reset", "plain", "monitor">>
    [] op \in {"Close", "leaveBusmonitor"} -> <<"plain">>
Packets(op) == IF version = 1 THEN Packets1(op) ELSE Packets2(op)

(* The mode each function requires and the one it notes at its end; in two *)
(* of them the wait for an empty queue is a loop.                          *)
From(op) == CASE op \in {"Open", "enterBusmonitor"} -> 0 [] op = "Close" -> 2 [] OTHER -> 1
Noted(op) == CASE op = "Open" -> 2 [] op = "enterBusmonitor" -> 1 [] OTHER -> 0
WaitsInLoop(op) == op \in {"Open", "leaveBusmonitor"}
ModeOf(packet) == CASE packet = "plain" -> 0 [] packet = "monitor" -> 1 [] packet = "link" -> 2
                    [] OTHER -> unit

None == [op |-> "none", todo |-> <<>>, woken |-> FALSE]
Pipe == INSTANCE PacketPipe WITH Packet <- {"reset", "plain", "link", "monitor", "frame"}

EMIInit ==
  /\ version \in Versions
  /\ Pipe!PipeInit
  /\ emode = 2 /\ unit = 2             \* after the first Open
  /\ call = [t \in Threads |-> None] /\ plan = [u \in Users |-> <<>>]
  /\ l3mode = 0 /\ monitors = {}
  /\ frames = 0 /\ sendmode = 0 /\ up = <<>>
  /\ eused = [change |-> 0, frame |-> 0, restart |-> 0]
  /\ overlapped = FALSE

Idle(t) == call[t] = None
Calm == \A t \in Threads : Idle(t)
PutPacket(p) == queue' = Append(queue, p) /\ empty' = FALSE
Use(what, max) ==
  /\ eused[what] < max /\ eused.change + eused.frame + eused.restart < MaxEvents
  /\ eused' = [eused EXCEPT ![what] = @ + 1]

----------------------------------------------------------------------------
(* Open, Close, enterBusmonitor and leaveBusmonitor, called by thread t.   *)

(* Up to the first SendReset or Send_Packet, which yields. *)
Begin(t, op) ==
  /\ call' = [call EXCEPT ![t] = [op |-> op, todo |-> Tail(Packets(op)), woken |-> FALSE]]
  /\ PutPacket(Head(Packets(op)))
Meets(t) == overlapped' = (overlapped \/ \E other \in Threads \ {t} : ~Idle(other))

(* The next packet.  EMI1 sleeps before it. *)
SubmitPacket(t) ==
  /\ call[t].todo # <<>>
  /\ PutPacket(Head(call[t].todo))
  /\ call' = [call EXCEPT ![t].todo = Tail(@)]
  /\ UNCHANGED <<emode, plan, l3mode, monitors, frames, sendmode, up, unit, eused,
                 overlapped>>

(* The wait for the semaphore.  Its event stays occurred when the queue    *)
(* fills again before the thread runs.                                     *)
Waiting(t) == ~Idle(t) /\ call[t].todo = <<>> /\ call[t].op # "sleep"
Wake(t) ==
  /\ Waiting(t) /\ ~call[t].woken /\ empty
  /\ call' = [call EXCEPT ![t].woken = TRUE]
  /\ UNCHANGED <<queue, empty, emode, plan, l3mode, monitors, frames, sendmode, up, unit,
                 eused, overlapped>>

WaitAgain(t) ==
  /\ Waiting(t) /\ call[t].woken /\ WaitsInLoop(call[t].op) /\ queue # <<>>
  /\ call' = [call EXCEPT ![t].woken = FALSE]
  /\ UNCHANGED <<queue, empty, emode, plan, l3mode, monitors, frames, sendmode, up, unit,
                 eused, overlapped>>

(* The calls p of Layer3, made by user u while the driver has mode m: those *)
(* that need another mode return false at once.  (Layer3 calls Open when   *)
(* enterBusmonitor fails; it fails outside mode 0, and so does Open.)      *)
MakeCalls(u, p, m) ==
  LET can == {i \in DOMAIN p : From(p[i]) = m}
      rest == IF can = {} THEN <<>> ELSE SubSeq(p, CHOOSE i \in can : \A j \in can : i <= j, Len(p))
  IN /\ plan' = [plan EXCEPT ![u] = rest]
     /\ Meets(u)
     /\ IF rest = <<>>
        THEN call' = [call EXCEPT ![u] = None] /\ UNCHANGED <<queue, empty>>
        ELSE Begin(u, Head(rest))

(* The end of a function of the driver, and how Layer3 goes on.  After its *)
(* leaveBusmonitor EMI1 sleeps, with the mode noted.                       *)
Sleeps(t) == version = 1 /\ call[t].op = "leaveBusmonitor"
Registered(u) ==
  /\ call' = [call EXCEPT ![u] = None] /\ plan' = [plan EXCEPT ![u] = <<>>]
  /\ l3mode' = 1 /\ monitors' = monitors \cup {u}

Return(t) ==
  /\ Waiting(t) /\ call[t].woken
  /\ WaitsInLoop(call[t].op) => queue = <<>>
  /\ emode' = Noted(call[t].op)
  /\ \/ /\ t = "run"
        /\ call' = [call EXCEPT ![t] = None]
        /\ UNCHANGED <<plan, l3mode, monitors, queue, empty, overlapped>>
     \/ /\ t # "run" /\ call[t].op = "enterBusmonitor"
        /\ Registered(t)
        /\ UNCHANGED <<queue, empty, overlapped>>
     \/ /\ t # "run" /\ Sleeps(t)
        /\ call' = [call EXCEPT ![t].op = "sleep"]
        /\ UNCHANGED <<plan, l3mode, monitors, queue, empty, overlapped>>
     \/ /\ t # "run" /\ call[t].op # "enterBusmonitor" /\ ~Sleeps(t)
        /\ MakeCalls(t, Tail(plan[t]), emode')
        /\ UNCHANGED <<l3mode, monitors>>
  /\ UNCHANGED <<frames, sendmode, up, unit, eused>>

SleepEnds(u) ==
  /\ call[u].op = "sleep"
  /\ MakeCalls(u, Tail(plan[u]), emode)
  /\ UNCHANGED <<emode, l3mode, monitors, frames, sendmode, up, unit, eused>>

----------------------------------------------------------------------------
(* Layer3. *)
RegisterBusmonitor(u) ==
  /\ Idle(u) /\ u \notin monitors /\ Use("change", MaxChange)
  /\ IF l3mode = 0
     THEN MakeCalls(u, <<"Close", "enterBusmonitor">>, emode) /\ UNCHANGED monitors
     ELSE monitors' = monitors \cup {u} /\ UNCHANGED <<plan, call, queue, empty, overlapped>>
  /\ UNCHANGED <<emode, l3mode, frames, sendmode, up, unit>>

DeregisterBusmonitor(u) ==
  /\ Idle(u) /\ u \in monitors /\ Use("change", MaxChange)
  /\ monitors' = monitors \ {u}
  /\ IF monitors = {u}
     THEN l3mode' = 0 /\ MakeCalls(u, <<"leaveBusmonitor", "Open">>, emode)
     ELSE UNCHANGED <<l3mode, plan, call, queue, empty, overlapped>>
  /\ UNCHANGED <<emode, frames, sendmode, up, unit>>

SendFrame ==
  /\ Use("frame", MaxFrames) /\ frames' = frames + 1
  /\ UNCHANGED <<queue, empty, emode, call, plan, l3mode, monitors, sendmode, up, unit,
                 overlapped>>

----------------------------------------------------------------------------
(* The thread of the driver: Run.  A turn sends a frame, if it may, and    *)
(* handles a packet, if there is one.                                      *)
MaySend == frames > 0 /\ sendmode = 0
SecondOver == sendmode = 1 /\ sendmode' = 0

RunSend ==
  /\ Idle("run") /\ MaySend
  /\ PutPacket("frame")
  /\ frames' = frames - 1
  /\ IF Noqueue THEN sendmode' = 1 ELSE UNCHANGED sendmode
  /\ UNCHANGED <<emode, call, plan, l3mode, monitors, up, unit, eused, overlapped>>

RunTimeout ==
  /\ Idle("run") /\ SecondOver
  /\ UNCHANGED <<queue, empty, emode, call, plan, l3mode, monitors, frames, up, unit, eused,
                 overlapped>>

ReopenAlwaysOpens(m) == "Open"
ReopenOp(m) == CASE m = 1 -> "enterBusmonitor" [] m = 2 -> "Open"

RunPacket ==
  /\ Idle("run") /\ up # <<>>
  /\ up' = Tail(up)
  /\ \/ /\ Head(up) = "restarted" /\ emode # 0           \* Reopen
        /\ emode' = 0 /\ Begin("run", ReopenOp(emode)) /\ Meets("run")
        /\ UNCHANGED sendmode
     \/ /\ Head(up) = "restarted" /\ emode = 0
        /\ UNCHANGED <<emode, call, queue, empty, overlapped, sendmode>>
     \/ /\ Head(up) = "confirm"
        /\ sendmode' = 0
        /\ UNCHANGED <<emode, call, queue, empty, overlapped>>
  /\ UNCHANGED <<plan, l3mode, monitors, frames, unit, eused>>

(* The low level driver transmits, and the unit obeys. *)
Transmit ==
  /\ Pipe!Transmitted
  /\ unit' = ModeOf(Head(queue))
  /\ up' = IF Head(queue) = "frame" /\ unit = 2 THEN Append(up, "confirm") ELSE up
  /\ UNCHANGED <<emode, call, plan, l3mode, monitors, frames, sendmode, eused, overlapped>>

UnitRestarts ==
  /\ Use("restart", MaxRestarts)
  /\ unit' = 0
  /\ up' = Append(up, "restarted")
  /\ overlapped' = (overlapped \/ ~Calm \/ \E i \in DOMAIN queue : queue[i] # "frame")
  /\ UNCHANGED <<queue, empty, emode, call, plan, l3mode, monitors, frames, sendmode>>

EMIChange(t) == SubmitPacket(t) \/ Wake(t) \/ WaitAgain(t) \/ Return(t) \/ SleepEnds(t)
RunEMI == RunSend \/ RunTimeout \/ RunPacket

EMINext ==
  /\ \/ \E u \in Users : RegisterBusmonitor(u) \/ DeregisterBusmonitor(u)
     \/ \E t \in Threads : EMIChange(t)
     \/ SendFrame \/ RunEMI \/ Transmit \/ UnitRestarts
  /\ UNCHANGED version

EMISpec == EMIInit /\ [][EMINext]_emivars

----------------------------------------------------------------------------
(* As long as changes of mode neither meet each other nor a restart, the   *)
(* unit, the driver and Layer3 agree on the mode once all is sent, and     *)
(* after a restart at rest the driver puts the unit back.                  *)
AtRest == Calm /\ queue = <<>> /\ up = <<>> /\ \A u \in Users : plan[u] = <<>>
ModesAgree ==
  AtRest /\ ~overlapped => /\ unit = emode
                           /\ emode = IF monitors = {} THEN 2 ELSE 1
                           /\ l3mode = IF monitors = {} THEN 0 ELSE 1

(* What the functions promise: enterBusmonitor returned true, nobody has   *)
(* left since, all is quiet, and the driver is in busmonitor mode.         *)
SuccessMeansMonitor == AtRest /\ monitors # {} => emode = 1 /\ unit = 1
=============================================================================
