-------------------------------- MODULE FT12 --------------------------------
(***************************************************************************)
(* FT12LowLevelDriver (src/eibd/backend/ft12.cpp) and the bus access unit  *)
(* at the other end of the serial line.                                    *)
(*                                                                         *)
(* Frames carry a bit that toggles; the acknowledgement, the byte E5, does *)
(* not say what it acknowledges.  The line is a queue of units: an         *)
(* acknowledgement, a fixed length frame, a data frame, or what noise and  *)
(* the driver's own deletions leave of one: "bad" has a wrong checksum,    *)
(* "hole" lacks a few bytes (the driver waits for them and takes those of  *)
(* the next unit), "rest" is a tail without a head.                        *)
(***************************************************************************)
EXTENDS LowLevelDriver

CONSTANTS
  UpData,      \* what the device submits: contents by number, or Short
  Short,       \* a fixed length frame, which has no content
  LostAfter,   \* repetitions after which Connection_Lost says so (repeatcount > LostAfter)
  MaxWork,     \* bound: packets submitted at both ends
  MaxTrouble,  \* bound: damaged units, resets by the user and restarts of the device
  MaxLine,     \* bound: units under way in a direction
  Cuts         \* outcomes of deletepart (0, len) with len not assigned

ASSUME FT12Assumption ==
  /\ Cuts \subseteq {"exact", "short", "long"} /\ Cuts # {}
  /\ LostAfter \in Nat /\ MaxLine \in Nat \ {0}

VARIABLES
  mode, sendflag, recvflag, repeatcount, akt, last, \* members of the class
  timer, timedOut,      \* the event of 100 ms, and its recorded status
  pc,
  toDev, toHost,        \* the line
  dexpect, dflag, dnext, dwait,  \* the device: bits, item under way, waits for its E5
  (* history *)
  troubles,             \* what troubled the line so far
  devGot, hostGot,      \* numbers of the packets accepted, in order
  ambiguous,            \* an E5 may be for another packet than the one under way
  lost                  \* packets taken from inqueue that the device had not accepted

host == <<mode, sendflag, recvflag, repeatcount, akt, last, timer, timedOut, pc>>
device == <<dexpect, dflag, dnext, dwait>>
ftvars == <<api, host, toDev, toHost, device, troubles, devGot, hostGot, ambiguous, lost>>

Bit == {0, 1}
Ack == [kind |-> "ack"]
Bad == [kind |-> "bad"]
Hole(bytes) == [kind |-> "hole", bytes |-> bytes]   \* bytes missing: one, or more (2)
Rest == [kind |-> "rest"]
Tailing == [kind |-> "tailing"]   \* the rest of a unit of which a hole took the head
Restarted == [kind |-> "restarted"]
Data(flag, n) == [kind |-> "data", flag |-> flag, n |-> n]
Fixed(flag, n) == [kind |-> "fixed", flag |-> flag, n |-> n]
Trouble(what) == Len(troubles) < MaxTrouble /\ troubles' = Append(troubles, what)
Troubled(what) == \E i \in DOMAIN troubles : troubles[i] = what
Work == submitted + dnext + (IF dwait THEN 1 ELSE 0) - 1

Reset == [kind |-> "reset", n |-> 0]
UpItem(flag, n) == IF UpData[n] = Short THEN Fixed(flag, n) ELSE Data(flag, n)

FTInit ==
  /\ ApiInit
  /\ mode = 0 /\ sendflag = 0 /\ recvflag = 0 /\ repeatcount = 0
  /\ akt = <<>> /\ last = Short
  /\ timer = "off" /\ timedOut = FALSE /\ pc = "wait"
  /\ toDev = <<>> /\ toHost = <<>>
  /\ dexpect = 0 /\ dflag = 0 /\ dnext = 1 /\ dwait = FALSE
  /\ troubles = <<>>
  /\ devGot = <<>> /\ hostGot = <<>> /\ ambiguous = FALSE /\ lost = {}

----------------------------------------------------------------------------
(* Calls of the user. *)

ToggleNot(b) == b
Toggle(b) == 1 - b

Send_Packet ==
  /\ pc # "stopped" /\ Work < MaxWork
  /\ Submit(Data(sendflag, submitted + 1))
  /\ sendflag' = Toggle(sendflag)
  /\ UNCHANGED <<mode, recvflag, repeatcount, akt, last, timer, timedOut, pc,
                 toDev, toHost, device, troubles, devGot, hostGot, ambiguous, lost>>

SendReset ==
  /\ pc # "stopped" /\ Trouble("reset")
  /\ inqueue' = Append(inqueue, Reset)
  /\ send_empty' = 0
  /\ in_signal' = in_signal + 1
  /\ sendflag' = 0 /\ recvflag' = 0
  /\ UNCHANGED <<outqueue, out_signal, submitted, mode, repeatcount, akt, last, timer,
                 timedOut, pc, toDev, toHost, device, devGot, hostGot,
                 ambiguous, lost>>

Get_Packet ==
  /\ pc # "stopped"
  /\ TakePacket
  /\ UNCHANGED <<host, toDev, toHost, device, troubles, devGot, hostGot, ambiguous, lost>>

(* The destructor, whose Stop waits until the thread has left its loop. *)
Stop ==
  /\ pc = "wait" /\ pc' = "stopped"
  /\ outqueue' = <<>> /\ out_signal' = 0
  /\ UNCHANGED <<inqueue, in_signal, send_empty, submitted, mode, sendflag, recvflag,
                 repeatcount, akt, last, timer, timedOut, toDev, toHost, device, troubles,
                 devGot, hostGot, ambiguous, lost>>

----------------------------------------------------------------------------
(* The thread: Run. *)

(* pth_read_ev returns: with what has arrived, because there is a packet to    *)
(* send (mode 0), or because the time is over (mode 1).                        *)
Read ==
  /\ pc = "wait" /\ pc' = "parse"
  /\ \/ toHost # <<>>
     \/ mode = 0 /\ in_signal > 0
     \/ mode = 1 /\ timer = "elapsed"
  /\ akt' = akt \o toHost /\ toHost' = <<>>
  /\ timedOut' \in IF mode = 1 /\ timer = "elapsed"
                   THEN (IF toHost = <<>> THEN {TRUE} ELSE BOOLEAN)
                   ELSE {timedOut}
  /\ UNCHANGED <<api, mode, sendflag, recvflag, repeatcount, last, timer, toDev, device,
                 troubles, devGot, hostGot, ambiguous, lost>>

Parsing(kind) == pc = "parse" /\ akt # <<>> /\ Head(akt).kind = kind

(* E5: the packet under way counts as sent.  Outside mode 1 it is an       *)
(* unknown byte.                                                           *)
Acknowledged ==
  /\ mode = 1
  /\ mode' = 0 /\ repeatcount' = 0
  /\ Sent
  /\ LET p == Head(inqueue) IN
     lost' = IF p.kind = "data" /\ p.n \notin {devGot[i] : i \in DOMAIN devGot}
             THEN lost \cup {p.n} ELSE lost

RecvAck ==
  /\ Parsing("ack")
  /\ akt' = Tail(akt)
  /\ \/ Acknowledged
     \/ mode = 0 /\ UNCHANGED <<mode, repeatcount, api, lost>>
  /\ UNCHANGED <<sendflag, recvflag, last, timer, timedOut, pc, toDev, toHost, device,
                 troubles, devGot, hostGot, ambiguous>>

(* A fixed length frame: it takes part in the toggling, and tells of a restart. *)
RecvFixed ==
  /\ Parsing("fixed")
  /\ akt' = Tail(akt)
  /\ toDev' = Append(toDev, Ack)
  /\ recvflag' = IF Head(akt).flag = recvflag THEN 1 - recvflag ELSE recvflag
  /\ UNCHANGED <<api, mode, sendflag, repeatcount, last, timer, timedOut, pc, toHost,
                 device, troubles, devGot, hostGot, ambiguous, lost>>

RecvRestarted ==
  /\ Parsing("restarted")
  /\ akt' = Tail(akt)
  /\ toDev' = Append(toDev, Ack)
  /\ Received(Restarted)
  /\ UNCHANGED <<mode, sendflag, recvflag, repeatcount, last, timer, timedOut, pc, toHost,
                 device, troubles, devGot, hostGot, ambiguous, lost>>

(* Deleting len bytes where len was last assigned for another frame, or    *)
(* never: all of the frame, less, or a part of the next unit as well.      *)
Deleted(cut) ==
  CASE cut = "exact" -> Tail(akt)
    [] cut = "short" -> <<Rest>> \o Tail(akt)
    [] cut = "long"  -> IF Len(akt) = 1 \/ akt[2].kind = "ack"
                        THEN SubSeq(akt, 3, Len(akt))
                        ELSE <<Rest>> \o SubSeq(akt, 3, Len(akt))

(* A data frame: it is acknowledged in any case.  One with the wrong bit   *)
(* is taken for a repetition if it says the same as the last one, and      *)
(* otherwise accepted ("Sequence jump").                                   *)
IsRepetitionNever(f) == FALSE
IsRepetition(f) == f.flag # recvflag /\ UpData[f.n] = last

RecvData ==
  /\ Parsing("data")
  /\ toDev' = Append(toDev, Ack)
  /\ LET f == Head(akt) IN
     \/ /\ IsRepetition(f)
        /\ \E cut \in Cuts : akt' = Deleted(cut)
        /\ UNCHANGED <<api, recvflag, last, hostGot>>
     \/ /\ ~IsRepetition(f)
        /\ recvflag' = 1 - f.flag
        /\ last' = UpData[f.n]
        /\ Received(f.n)
        /\ hostGot' = Append(hostGot, f.n)
        /\ akt' = Tail(akt)
  /\ UNCHANGED <<mode, sendflag, repeatcount, timer, timedOut, pc, toHost, device, troubles,
                 devGot, ambiguous, lost>>

(* What cannot be read: a wrong checksum is forgotten with its frame, an   *)
(* incomplete frame is completed with the bytes behind it and then         *)
(* forgotten, a tail is forgotten byte by byte unless its bytes look like  *)
(* a frame or like E5; no more than one start of a frame is made up by      *)
(* what is damaged once.                                                   *)
RecvRubbish ==
  /\ pc = "parse" /\ akt # <<>>
  /\ \/ /\ Head(akt).kind = "bad"
        /\ akt' = Tail(akt) /\ UNCHANGED <<mode, repeatcount, api, lost, ambiguous>>
     \/ /\ Head(akt).kind = "hole" /\ Len(akt) > 1
        /\ akt' \in {SubSeq(akt, 3, Len(akt)), <<Tailing>> \o SubSeq(akt, 3, Len(akt))}
                    \cup {<<Hole(1)>> \o SubSeq(akt, 3, Len(akt)) :
                            h \in {<<Hole(2), Ack>>} \cap {<<akt[1], akt[2]>>}}
        /\ UNCHANGED <<mode, repeatcount, api, lost, ambiguous>>
     \/ /\ Head(akt).kind \in {"rest", "tailing"}
        /\ \/ /\ akt' \in {Tail(akt)} \cup {<<Hole(2)>> \o Tail(akt) : r \in {Head(akt)} \cap {Rest}}
              /\ UNCHANGED <<mode, repeatcount, api, lost, ambiguous>>
           \/ akt' = Tail(akt) /\ Acknowledged /\ ambiguous' = TRUE
  /\ UNCHANGED <<sendflag, recvflag, last, timer, timedOut, pc, toDev, toHost, device,
                 troubles, devGot, hostGot>>

(* The end of the loop's body: after the time is over, or without a packet *)
(* under way, the head of the queue is written.  pth_write_ev returns      *)
(* early when the line is busy and the event it also waits for occurred.   *)
Finish ==
  /\ pc = "parse" /\ (akt = <<>> \/ akt = <<Hole(1)>> \/ akt = <<Hole(2)>>)
  /\ pc' = "wait"
  /\ LET m == IF mode = 1 /\ timedOut THEN 0 ELSE mode IN
     \/ /\ m = 0 /\ inqueue # <<>>
        /\ repeatcount' = IF repeatcount > LostAfter THEN repeatcount ELSE repeatcount + 1
        /\ \/ /\ Len(toDev) < MaxLine
              /\ mode' = 1 /\ timer' = "running" /\ timedOut' = FALSE
              /\ toDev' = Append(toDev, Head(inqueue))
              /\ ambiguous' = (ambiguous \/ repeatcount > 0)
           \/ /\ Len(toDev) >= MaxLine
              /\ mode' = 0 /\ UNCHANGED <<timer, timedOut, toDev, ambiguous>>
     \/ /\ m # 0 \/ inqueue = <<>>
        /\ mode' = m /\ UNCHANGED <<repeatcount, timer, timedOut, toDev, ambiguous>>
  /\ UNCHANGED <<api, sendflag, recvflag, akt, last, toHost, device, troubles, devGot,
                 hostGot, lost>>

Expire ==
  /\ timer = "running" /\ pc # "stopped" /\ timer' = "elapsed"
  /\ UNCHANGED <<api, mode, sendflag, recvflag, repeatcount, akt, last, timedOut, pc, toDev,
                 toHost, device, troubles, devGot, hostGot, ambiguous, lost>>

Run == Read \/ RecvAck \/ RecvFixed \/ RecvRestarted \/ RecvData \/ RecvRubbish \/ Finish

----------------------------------------------------------------------------
(* The device follows the same protocol, and the line.  Its patience for   *)
(* an E5 is not known: it may repeat at any time.                          *)

DevReceive ==
  /\ toDev # <<>>
  /\ toDev' = Tail(toDev)
  /\ LET u == Head(toDev) IN
     \/ /\ u.kind = "ack" /\ dwait
        /\ dwait' = FALSE /\ dnext' = dnext + 1 /\ dflag' = 1 - dflag
        /\ UNCHANGED <<dexpect, toHost, devGot>>
     \/ /\ u.kind = "ack" /\ ~dwait
        /\ UNCHANGED <<device, toHost, devGot>>
     \/ /\ u.kind = "reset"
        /\ dexpect' = 0 /\ dflag' = 0
        /\ toHost' = Append(toHost, Ack)
        /\ UNCHANGED <<dnext, dwait, devGot>>
     \/ /\ u.kind = "data"
        /\ toHost' = Append(toHost, Ack)
        /\ dexpect' = IF u.flag = dexpect THEN 1 - dexpect ELSE dexpect
        /\ devGot' = IF u.flag = dexpect THEN Append(devGot, u.n) ELSE devGot
        /\ UNCHANGED <<dflag, dnext, dwait>>
  /\ UNCHANGED <<api, host, troubles, hostGot, ambiguous, lost>>

DevSend ==
  /\ dnext <= Len(UpData) /\ Len(toHost) < MaxLine /\ Len(toDev) <= MaxLine
  /\ dwait \/ Work < MaxWork
  /\ dwait' = TRUE          \* the first time, or once more
  /\ toHost' = Append(toHost, UpItem(dflag, dnext))
  /\ UNCHANGED <<api, host, toDev, dexpect, dflag, dnext, troubles, devGot, hostGot,
                 ambiguous, lost>>

DevRestart ==
  /\ Trouble("restart")
  /\ dexpect' = 0 /\ dflag' = 0 /\ dwait' = FALSE
  /\ dnext' = IF dwait THEN dnext + 1 ELSE dnext
  /\ toHost' = Append(toHost, Restarted)
  /\ UNCHANGED <<api, host, toDev, devGot, hostGot, ambiguous, lost>>

(* A unit is lost, or arrives damaged. *)
Noise ==
  /\ Trouble("noise")
  /\ \/ /\ toDev # <<>>
        /\ toDev' = Tail(toDev) /\ UNCHANGED toHost
     \/ /\ toHost # <<>>
        /\ \/ toHost' = Tail(toHost)
           \/ /\ Head(toHost).kind \in {"data", "fixed", "restarted"}
              /\ \E damaged \in {Bad, Hole(2), Rest} : toHost' = <<damaged>> \o Tail(toHost)
        /\ UNCHANGED toDev
  /\ UNCHANGED <<api, host, device, devGot, hostGot, ambiguous, lost>>

FTNext ==
  \/ Send_Packet \/ SendReset \/ Get_Packet \/ Stop
  \/ Run \/ Expire
  \/ DevReceive \/ DevSend \/ DevRestart \/ Noise

(* The line is not always busy when the driver wants to write, and the     *)
(* device is not always slower than the 100 ms: a packet that is written   *)
(* again and again is at some time read while the driver still waits.      *)
DevInTime == mode = 1 /\ pc = "wait" /\ toDev # <<>> /\ Head(toDev).kind # "ack" /\ DevReceive

----------------------------------------------------------------------------
InOrder(s) == \A i, j \in DOMAIN s : i < j => s[i] < s[j]
InOrderAgain(s) == \A i, j \in DOMAIN s : i < j => s[i] <= s[j]

(* Whatever is repeated, damaged or acknowledged twice: packets cross the  *)
(* line in order and once in each direction, again only around a reset; a  *)
(* packet is taken for sent although the device has not accepted it only   *)
(* after an acknowledgement that may have been meant for another one.      *)
CrossInOrder ==
  /\ IF ~Troubled("restart") THEN InOrder(devGot) ELSE InOrderAgain(devGot)
  /\ IF ~(Troubled("restart") \/ Troubled("reset")) THEN InOrder(hostGot) ELSE InOrderAgain(hostGot)
  /\ lost # {} => ambiguous \/ Troubled("restart")

(* The driver implements the contract that EMI relies on. *)
FTPacket == {Reset} \cup {Data(b, n) : b \in Bit, n \in 1 .. MaxSubmit}
FTPipe == INSTANCE PacketPipe
            WITH Packet <- FTPacket, queue <- inqueue, empty <- (send_empty = 1)
PipeContract == FTPipe!PipeSpec
=============================================================================
