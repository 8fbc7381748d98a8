---------------------------- MODULE TConnection ----------------------------
(***************************************************************************)
(* T_Connection (src/eibd/libserver/layer4.cpp): the connection oriented   *)
(* EIB transport layer as one object of the daemon sees it.  Three threads *)
(* touch it: the user (Send, Get, the destructor), Layer3 (Get_L_Data) and *)
(* the object's own thread (Run).  pth threads are cooperative, so code is *)
(* atomic between two calls that may yield: pth_wait and layer3->          *)
(* send_L_Data (and the calls of the user, which yield after their last    *)
(* assignment).  A handler of Run is one action although send_L_Data lets  *)
(* other threads run in its middle: those only append to in, buf, take     *)
(* from out or raise stop, and the rest of the handler reads none of them. *)
(* The wait itself is two steps: pth_wait records which events occurred    *)
(* (Wakeup), the thread runs later and trusts that record (the handlers).  *)
(***************************************************************************)
EXTENDS Naturals, Sequences

CONSTANTS
  Apdu,        \* the payloads
  End,         \* the empty CArray that marks the end of the received data
  SerNoMod,    \* serial numbers are masked with 0x0f: 16 in the code
  MaxRep,      \* repetitions of an unacknowledged frame: 3 in the code
  MaxSend,     \* bound: calls of Send
  MaxRecv,     \* bound: APDUs accepted from the peer
  MaxBuf,      \* bound: frames waiting in buf
  MaxOut       \* bound: frames handed to Layer3 and not yet on the bus

ASSUME SerNoAssumption == SerNoMod \in Nat /\ SerNoMod > 1
ASSUME BoundsAssumption ==
  /\ MaxRep \in Nat
  /\ MaxSend \in Nat /\ MaxRecv \in Nat /\ MaxBuf \in Nat /\ MaxOut \in Nat \ {0}
ASSUME EndAssumption == End \notin Apdu

VARIABLES
  pc,          \* Run: "start", "loop", "awake", "closing", "done"
  mode,        \* 0 CLOSED, 1 IDLE, 2 ACK_WAIT
  sendno, recvno, repcount,
  timer,       \* the RTIME event: "off", armed "idle" (6 s) or "ack" (3 s), "expired"
  occurred,    \* the events whose status is PTH_STATUS_OCCURRED since the last wait
  in, insem,   \* APDUs of the user
  out, outsem, \* APDUs for the user
  buf, bufsem, \* frames from Layer3
  stop,        \* the stop semaphore of the thread has been raised
  user,        \* "live", "joining" (in the destructor) or "gone"
  registered,  \* Layer3 holds the callback
  l3out,       \* frames handed to layer3->send_L_Data, oldest first
  (* history *)
  sent,        \* the APDUs of all calls of Send
  acked,       \* how many of them the peer has acknowledged
  xmits,       \* how often sent[acked + 1] has been transmitted
  received,    \* the APDUs accepted from the peer
  got          \* what the calls of Get have returned

conn  == <<mode, sendno, recvno, repcount, timer>>
userq == <<in, insem, out, outsem>>
hist  == <<sent, acked, xmits, received, got>>
vars  == <<pc, conn, occurred, userq, buf, bufsem, stop, user, registered, l3out, hist>>

SerNo   == 0 .. SerNoMod - 1
Numbered == {"ACK", "NACK"}
Frame ==
  [type : {"CONNECT", "DISCONNECT", "OTHER"}]
    \cup [type : Numbered, serno : SerNo]
    \cup [type : {"DATA"}, serno : SerNo, apdu : Apdu]

(* Bugs the properties must notice stand before the definition they change. *)
NextNoStuck(n) == n
NextNo(n) == IF n = SerNoMod - 1 THEN 0 ELSE n + 1
PrevNo(n) == IF n = 0 THEN SerNoMod - 1 ELSE n - 1

----------------------------------------------------------------------------
(* The constructor has registered the callback and started the thread. *)
Init ==
  /\ pc = "start" /\ mode = 0
  /\ sendno = 0 /\ recvno = 0 /\ repcount = 0
  /\ timer = "off" /\ occurred = {}
  /\ in = <<>> /\ insem = 0 /\ out = <<>> /\ outsem = 0 /\ buf = <<>> /\ bufsem = 0
  /\ stop = FALSE /\ user = "live" /\ registered = TRUE /\ l3out = <<>>
  /\ sent = <<>> /\ acked = 0 /\ xmits = 0 /\ received = <<>> /\ got = <<>>

----------------------------------------------------------------------------
(* Calls of the other threads. *)

Get_L_Data(f) ==
  /\ registered
  /\ Len(buf) < MaxBuf
  /\ buf' = Append(buf, f)
  /\ bufsem' = bufsem + 1
  /\ UNCHANGED <<pc, conn, occurred, userq, stop, user, registered, l3out, hist>>

Send(c) ==
  /\ user = "live"
  /\ Len(sent) < MaxSend
  /\ in' = Append(in, c)
  /\ insem' = insem + 1
  /\ sent' = Append(sent, c)
  /\ UNCHANGED <<pc, conn, occurred, out, outsem, buf, bufsem, stop, user, registered,
                 l3out, acked, xmits, received, got>>

Get ==
  /\ user = "live"
  /\ outsem > 0
  /\ outsem' = outsem - 1
  /\ out' = Tail(out)
  /\ got' = Append(got, Head(out))
  /\ UNCHANGED <<pc, conn, occurred, in, insem, buf, bufsem, stop, user, registered,
                 l3out, sent, acked, xmits, received>>

(* The destructor: Thread::Stop raises the semaphore and joins the thread. *)
Delete ==
  /\ user = "live"
  /\ user' = "joining"
  /\ stop' = TRUE
  /\ UNCHANGED <<pc, conn, occurred, userq, buf, bufsem, registered, l3out, hist>>

Joined ==
  /\ user = "joining"
  /\ pc = "done"
  /\ user' = "gone"
  /\ buf' = <<>>
  /\ registered' = FALSE
  /\ UNCHANGED <<pc, conn, occurred, userq, bufsem, stop, l3out, hist>>

----------------------------------------------------------------------------
(* layer3->send_L_Data; the queue of the layer below is unbounded in the code. *)
Emit(f) ==
  /\ Len(l3out) < MaxOut
  /\ l3out' = Append(l3out, f)

SendAck(n)  == Emit([type |-> "ACK", serno |-> n])
SendDataRecvno == Emit([type |-> "DATA", serno |-> recvno, apdu |-> Head(in)])
SendData    == Emit([type |-> "DATA", serno |-> sendno, apdu |-> Head(in)])

(* Layer3 passes a frame on. *)
BusTakes ==
  /\ l3out # <<>>
  /\ l3out' = Tail(l3out)
  /\ UNCHANGED <<pc, conn, occurred, userq, buf, bufsem, stop, user, registered, hist>>

Expire ==
  /\ timer \in {"idle", "ack"}
  /\ timer' = "expired"
  /\ UNCHANGED <<pc, mode, sendno, recvno, repcount, occurred, userq, buf, bufsem, stop,
                 user, registered, l3out, hist>>

----------------------------------------------------------------------------
(* The thread. *)

DrainBufOnly == buf' = <<>> /\ UNCHANGED bufsem
DrainSemOnly == bufsem' = 0 /\ UNCHANGED buf
DrainBuf == buf' = <<>> /\ bufsem' = 0

Start ==
  /\ pc = "start"
  /\ Emit([type |-> "CONNECT"])
  /\ DrainBuf
  /\ mode' = 1 /\ sendno' = 0 /\ recvno' = 0 /\ repcount' = 0
  /\ timer' = "idle"
  /\ pc' = "loop"
  /\ UNCHANGED <<occurred, userq, stop, user, registered, hist>>

(* The events pth_wait looks at; inev is in the ring only when idle. *)
Ready ==
  {e \in {"buf", "in", "timeout", "stop"} :
     \/ e = "buf" /\ bufsem > 0
     \/ e = "in" /\ mode = 1 /\ insem > 0
     \/ e = "timeout" /\ timer = "expired"
     \/ e = "stop" /\ stop}

LoopOverModeOnly == mode = 0
LoopOver == mode = 0 \/ "stop" \in occurred

Wakeup ==
  /\ pc = "loop" /\ ~LoopOver
  /\ Ready # {}
  /\ occurred' = Ready
  /\ pc' = "awake"
  /\ UNCHANGED <<conn, userq, buf, bufsem, stop, user, registered, l3out, hist>>

(* The branch on bufev: what every frame type has in common. *)
TakeFrame(type) ==
  /\ pc = "awake"
  /\ "buf" \in occurred
  /\ Head(buf).type = type
  /\ buf' = Tail(buf)
  /\ bufsem' = bufsem - 1
  /\ pc' = "loop"
  /\ UNCHANGED <<occurred, stop, user, registered>>

CloseOnIdle == mode' = 1 /\ UNCHANGED <<sendno, recvno, repcount, timer>>
CloseOn == mode' = 0 /\ UNCHANGED <<sendno, recvno, repcount, timer>>

RecvConnectOrDisconnect ==
  /\ \E type \in {"CONNECT", "DISCONNECT"} : TakeFrame(type)
  /\ CloseOn
  /\ UNCHANGED <<userq, l3out, hist>>

RecvOther ==
  /\ TakeFrame("OTHER")
  /\ UNCHANGED <<conn, userq, l3out, hist>>

(* A data frame restarts the 6 s timeout unless an acknowledgement is awaited. *)
TouchTimer == timer' = IF mode = 1 THEN "idle" ELSE timer

RecvData ==
  /\ TakeFrame("DATA")
  /\ LET f == Head(buf) IN
     \/ /\ f.serno \notin {recvno, PrevNo(recvno)}
        /\ CloseOn
        /\ UNCHANGED <<out, outsem, l3out, received>>
     \/ /\ f.serno = recvno
        /\ out' = Append(out, f.apdu)
        /\ outsem' = outsem + 1
        /\ received' = Append(received, f.apdu)
        /\ SendAck(recvno)
        /\ recvno' = NextNo(recvno)
        /\ TouchTimer
        /\ UNCHANGED <<mode, sendno, repcount>>
     \/ /\ f.serno # recvno
        /\ f.serno = PrevNo(recvno)
        /\ SendAck(f.serno)
        /\ TouchTimer
        /\ UNCHANGED <<mode, sendno, recvno, repcount, out, outsem, received>>
  /\ UNCHANGED <<in, insem, sent, acked, xmits, got>>

Repeat ==
  /\ repcount' = repcount + 1
  /\ SendData
  /\ timer' = "ack"
  /\ xmits' = xmits + 1
  /\ UNCHANGED <<mode, sendno, recvno>>

NackOkUnlimited == Head(buf).serno = sendno /\ in # <<>> /\ mode = 2
NackOk == Head(buf).serno = sendno /\ in # <<>> /\ repcount < MaxRep /\ mode = 2

RecvNack ==
  /\ TakeFrame("NACK")
  /\ \/ NackOk /\ Repeat
     \/ ~NackOk /\ CloseOn /\ UNCHANGED <<l3out, xmits>>
  /\ UNCHANGED <<userq, sent, acked, received, got>>

AckOkAnySerno == mode = 2
AckOk == Head(buf).serno = sendno /\ mode = 2

RecvAck ==
  /\ TakeFrame("ACK")
  /\ \/ /\ AckOk
        /\ timer' = "idle"
        /\ mode' = 1
        /\ in' = Tail(in)
        /\ sendno' = NextNo(sendno)
        /\ acked' = acked + 1
        /\ xmits' = 0
        /\ UNCHANGED <<recvno, repcount>>
     \/ ~AckOk /\ CloseOn /\ UNCHANGED <<in, acked, xmits>>
  /\ UNCHANGED <<insem, out, outsem, l3out, sent, received, got>>

(* The branch on inev: the APDU stays in the queue until it is acknowledged. *)
StartSendingTaken == SendData /\ in' = Tail(in)
StartSending == SendData /\ UNCHANGED in

SendNext ==
  /\ pc = "awake"
  /\ "buf" \notin occurred
  /\ "in" \in occurred /\ mode = 1
  /\ repcount' = 0
  /\ insem' = insem - 1
  /\ StartSending
  /\ mode' = 2
  /\ timer' = "ack"
  /\ xmits' = xmits + 1
  /\ pc' = "loop"
  /\ UNCHANGED <<sendno, recvno, occurred, out, outsem, buf, bufsem, stop, user,
                 registered, sent, acked, received, got>>

(* The branch on the timeout. *)
RepeatOk == mode = 2 /\ repcount < MaxRep

Timeout ==
  /\ pc = "awake"
  /\ "timeout" \in occurred
  /\ "buf" \notin occurred
  /\ ~("in" \in occurred /\ mode = 1)
  /\ \/ RepeatOk /\ Repeat
     \/ ~RepeatOk /\ CloseOn /\ UNCHANGED <<l3out, xmits>>
  /\ pc' = "loop"
  /\ UNCHANGED <<occurred, userq, buf, bufsem, stop, user, registered, sent, acked,
                 received, got>>

(* Only the stop semaphore woke the thread. *)
StopOnly ==
  /\ pc = "awake"
  /\ occurred = {"stop"}
  /\ pc' = "loop"
  /\ UNCHANGED <<conn, occurred, userq, buf, bufsem, stop, user, registered, l3out, hist>>

LeaveLoop ==
  /\ pc = "loop" /\ LoopOver
  /\ Emit([type |-> "DISCONNECT"])
  /\ timer' = "off"
  /\ pc' = "closing"
  /\ UNCHANGED <<mode, sendno, recvno, repcount, occurred, userq, buf, bufsem, stop, user,
                 registered, hist>>

PutEndClearing == out' = <<End>> /\ outsem' = 1
PutEnd == out' = Append(out, End) /\ outsem' = outsem + 1

Finish ==
  /\ pc = "closing"
  /\ mode' = 0
  /\ registered' = FALSE
  /\ PutEnd
  /\ pc' = "done"
  /\ UNCHANGED <<sendno, recvno, repcount, timer, occurred, in, insem, buf, bufsem, stop,
                 user, l3out, hist>>

----------------------------------------------------------------------------
Run ==
  \/ Start \/ Wakeup
  \/ RecvConnectOrDisconnect \/ RecvOther \/ RecvData \/ RecvNack \/ RecvAck
  \/ SendNext \/ Timeout \/ StopOnly \/ LeaveLoop \/ Finish

User == Get \/ Delete \/ Joined \/ \E c \in Apdu : Send(c)

(* Layer3 delivers any frame the addressed device may have sent. *)
Deliver ==
  \E f \in Frame :
    /\ f.type = "DATA" => Len(received) < MaxRecv
    /\ Get_L_Data(f)

Next == Run \/ User \/ Deliver \/ BusTakes \/ Expire

Spec == Init /\ [][Next]_vars

(***************************************************************************)
(* pth runs every ready thread again, the layers below take what they are  *)
(* handed, clocks advance, and the destructor returns once the join does.  *)
(* Nothing is assumed of the peer or of the user.                          *)
(***************************************************************************)
Fairness ==
  /\ WF_vars(Run) /\ WF_vars(BusTakes) /\ WF_vars(Expire) /\ WF_vars(Joined)

FairSpec == Spec /\ Fairness

----------------------------------------------------------------------------
ControlOK ==
  /\ pc \in {"start", "loop", "awake", "closing", "done"}
  /\ mode \in 0 .. 2
  /\ sendno \in SerNo /\ recvno \in SerNo /\ repcount \in 0 .. MaxRep
  /\ timer \in {"off", "idle", "ack", "expired"}
  /\ occurred \subseteq {"buf", "in", "timeout", "stop"}
  /\ stop \in BOOLEAN /\ user \in {"live", "joining", "gone"} /\ registered \in BOOLEAN

QueuesOK ==
  /\ in \in Seq(Apdu) /\ insem \in Nat
  /\ out \in Seq(Apdu \cup {End}) /\ outsem \in Nat
  /\ buf \in Seq(Frame) /\ bufsem \in Nat
  /\ l3out \in Seq(Frame)

HistoryOK ==
  /\ sent \in Seq(Apdu) /\ acked \in Nat /\ xmits \in Nat
  /\ received \in Seq(Apdu) /\ got \in Seq(Apdu \cup {End})

(* Type invariant of the connection's state. *)
TypeOK == ControlOK /\ QueuesOK /\ HistoryOK

(* assert(akt != 0) of Queue::get and Queue::top (queue.h): whatever a  *)
(* thread is about to take, on the word of a semaphore recorded one wait ago   *)
(* or of the mode it left behind several frames ago, is there.                 *)
NoQueueUnderflow ==
  /\ pc = "awake" /\ "buf" \in occurred => buf # <<>>
  /\ pc = "awake" /\ "in" \in occurred /\ mode = 1 => in # <<>>
  /\ mode = 2 => in # <<>>
  /\ outsem > 0 => out # <<>>

(* The frame awaiting its acknowledgement stays at the head of in with its     *)
(* semaphore unit taken: the units left are exactly the APDUs not yet started. *)
SemaphoresCount ==
  /\ mode = 1 => Len(in) = insem
  /\ mode = 2 => Len(in) = insem + 1
  /\ Len(out) = outsem
  /\ user # "gone" => Len(buf) = bufsem

(* The initial transmission and MaxRep repetitions bound how often one APDU is *)
(* sent, whatever mix of NACKs and timeouts asks for repetitions.              *)
BoundedTransmissions ==
  /\ xmits <= MaxRep + 1
  /\ mode = 2 => xmits = repcount + 1

(* Stop and wait: a data frame handed to Layer3 carries the APDU whose place   *)
(* in the user's sequence its serial number names, and never one beyond the    *)
(* first unacknowledged.                                                       *)
StopAndWait ==
  \A k \in DOMAIN l3out : l3out[k].type = "DATA" =>
    \E i \in 1 .. acked + 1 :
      /\ i \in DOMAIN sent
      /\ l3out[k].apdu = sent[i]
      /\ l3out[k].serno = (i - 1) % SerNoMod

(* The timeout in force fits the state: ACK_WAIT never waits the long idle     *)
(* time, IDLE never is closed by the short one of an earlier transmission.     *)
TimerFitsMode ==
  pc \in {"loop", "awake"} =>
    /\ mode = 1 => timer \in {"idle", "expired"}
    /\ mode = 2 => timer \in {"ack", "expired"}

(* What the members say of each other between two steps of any of the three    *)
(* threads: semaphores of their queues, the timer of the mode.                 *)
Consistent == TypeOK /\ SemaphoresCount /\ TimerFitsMode

(* The user reads exactly the accepted APDUs, in order, and the end marker     *)
(* once, after all of them, when the thread is through.                        *)
ReadInOrderThenEnd ==
  got \o out = received \o (IF pc = "done" THEN <<End>> ELSE <<>>)

(* No APDU handed to Send is lost, reordered or dropped unacknowledged.        *)
SendQueueConserved == in = SubSeq(sent, acked + 1, Len(sent))

----------------------------------------------------------------------------
(* The destructor's join terminates.                                           *)
DeleteReturns == (user = "joining") ~> (user = "gone")

(* A connection on which nothing is heard any more is closed by its timeouts.  *)
SilenceCloses == []<>(buf # <<>>) \/ <>(pc = "done")
=============================================================================
