------------------------ MODULE TConnectionBusProofs ------------------------
(***************************************************************************)
(* Proofs about TConnection and TConnectionBus, for all payloads, moduli,  *)
(* repetition limits, exchanges and bounds: what either end submits        *)
(* arrives in order, once, and T_Connection implements ReliableConnection. *)
(*                                                                         *)
(* The argument is that of a stop-and-wait protocol over a first-in first- *)
(* out medium that loses and repeats.  For one direction let a APDUs be    *)
(* acknowledged and r be delivered: r is a or a + 1; a datum under way has *)
(* the number of the next APDU, which is its content, or the number of the *)
(* last one delivered; an acknowledgement under way is one of the last     *)
(* APDU acknowledged or, if r = a + 1, of the one delivered since; and     *)
(* nothing old is behind something new.  Numbers that follow one another   *)
(* differ, so both receivers tell old from new.                            *)
(***************************************************************************)
EXTENDS TConnectionBus, SequenceTheorems, TLAPS

-----------------------------------------------------------------------------
(* One end of a connection, TConnection.  The inductive invariant is IInv: the *)
(* type invariant together with what ties queues, semaphores, recorded events, *)
(* mode and program counter to one another.                                    *)

(* A recorded event is still true when the thread runs: only the thread itself *)
(* takes units off insem and bufsem.                                           *)
RecordHolds ==
  pc = "awake" =>
    /\ "buf" \in occurred => bufsem > 0
    /\ "in" \in occurred /\ mode = 1 => insem > 0

(* The program counter and the mode agree. *)
PcFitsMode ==
  /\ pc = "start" => mode = 0 /\ Len(in) = insem /\ xmits = 0 /\ acked = 0
  /\ pc = "awake" => mode # 0
  /\ pc = "done" => mode = 0
  /\ user = "gone" => pc = "done"
  /\ mode = 1 => xmits = 0

IInv == TypeOK /\ RecordHolds /\ PcFitsMode /\ SemaphoresCount /\ BoundedTransmissions

(* Serial numbers stay within the modulus. *)
LEMMA SerNoClosed ==
  ASSUME NEW n \in SerNo
  PROVE  NextNo(n) \in SerNo /\ PrevNo(n) \in SerNo
BY SerNoAssumption DEF SerNo, NextNo, PrevNo

(* The constructor's state satisfies the invariant. *)
LEMMA InitIInv == Init => IInv
<1> SUFFICES ASSUME Init PROVE IInv
  OBVIOUS
<1>1. ControlOK
  <2>1. 0 \in SerNo /\ 0 \in 0 .. MaxRep
    BY SerNoAssumption, BoundsAssumption DEF SerNo
  <2>2. stop \in BOOLEAN /\ registered \in BOOLEAN
    BY DEF Init
  <2> QED
    BY <2>1, <2>2 DEF Init, ControlOK
<1>2. QueuesOK /\ HistoryOK
  BY DEF Init, QueuesOK, HistoryOK
<1>3. RecordHolds /\ PcFitsMode /\ SemaphoresCount
  BY DEF Init, RecordHolds, PcFitsMode, SemaphoresCount
<1>4. BoundedTransmissions
  BY BoundsAssumption DEF Init, BoundedTransmissions
<1> QED
  BY <1>1, <1>2, <1>3, <1>4 DEF IInv, TypeOK

(* Sequences as queues: taking from one that is not empty. *)
LEMMA TailFacts ==
  ASSUME NEW S, NEW q \in Seq(S)
  PROVE  /\ Len(q) \in Nat
         /\ q # <<>> <=> Len(q) > 0
         /\ q # <<>> => Head(q) \in S /\ Tail(q) \in Seq(S) /\ Len(Tail(q)) = Len(q) - 1
OBVIOUS

(* Sequences as queues: adding to one. *)
LEMMA AppendFacts ==
  ASSUME NEW S, NEW q \in Seq(S), NEW x \in S
  PROVE  Append(q, x) \in Seq(S) /\ Len(Append(q, x)) = Len(q) + 1
OBVIOUS

(* What Run hands to Layer3 is a frame. *)
LEMMA EmittedFrames ==
  /\ [type |-> "CONNECT"] \in Frame /\ [type |-> "DISCONNECT"] \in Frame
  /\ \A n \in SerNo : [type |-> "ACK", serno |-> n] \in Frame
  /\ \A n \in SerNo, c \in Apdu : [type |-> "DATA", serno |-> n, apdu |-> c] \in Frame
BY DEF Frame, Numbered

(* The fields a handler of Run reads from a frame. *)
LEMMA FrameFields ==
  ASSUME NEW f \in Frame
  PROVE  /\ f.type \in Numbered => f.serno \in SerNo
         /\ f.type = "DATA" => f.serno \in SerNo /\ f.apdu \in Apdu
BY DEF Frame, Numbered

(* Handing a frame to Layer3. *)
LEMMA EmitTyped ==
  ASSUME l3out \in Seq(Frame), NEW f \in Frame, Emit(f)
  PROVE  l3out' \in Seq(Frame)
BY DEF Emit

(* A thread woken by bufev finds the frame, and takes exactly that one. *)
LEMMA FrameThere ==
  ASSUME IInv, NEW type, TakeFrame(type)
  PROVE  /\ buf # <<>> /\ Head(buf) \in Frame /\ Head(buf).type = type
         /\ buf' = Tail(buf) /\ buf' \in Seq(Frame) /\ Len(buf') = Len(buf) - 1
         /\ bufsem' = bufsem - 1 /\ bufsem' \in Nat
         /\ user' = user /\ pc' = "loop"
<1> USE DEF IInv, TakeFrame
<1>1. bufsem > 0 /\ Len(buf) = bufsem
  BY DEF RecordHolds, SemaphoresCount, PcFitsMode
<1>2. buf # <<>> /\ Head(buf) \in Frame /\ Tail(buf) \in Seq(Frame)
      /\ Len(Tail(buf)) = Len(buf) - 1
  BY <1>1, TailFacts DEF TypeOK, QueuesOK
<1>3. bufsem - 1 \in Nat
  BY <1>1 DEF TypeOK, QueuesOK
<1> QED
  BY <1>1, <1>2, <1>3

(* A data frame repeated in ACK_WAIT, or sent when idle, carries an APDU. *)
LEMMA DataThere ==
  ASSUME TypeOK, in # <<>>, SendData
  PROVE  l3out' \in Seq(Frame)
<1>1. Head(in) \in Apdu
  BY TailFacts DEF TypeOK, QueuesOK
<1>2. [type |-> "DATA", serno |-> sendno, apdu |-> Head(in)] \in Frame
  BY <1>1, EmittedFrames DEF TypeOK, ControlOK
<1> QED
  BY <1>2, EmitTyped DEF TypeOK, QueuesOK, SendData

(* Layer3 delivers a frame. *)
LEMMA Get_L_DataKeeps ==
  ASSUME NEW f \in Frame, IInv, Get_L_Data(f) PROVE IInv'
<1> USE SerNoAssumption, BoundsAssumption, SerNoClosed DEF IInv
<1>1. TypeOK'
  <2> USE DEF TypeOK
  <2>1. ControlOK'
    BY DEF ControlOK, PcFitsMode, Get_L_Data, conn, userq, hist
  <2>2. QueuesOK'
    BY DEF QueuesOK, ControlOK, Get_L_Data, conn, userq, hist
  <2>3. HistoryOK'
    BY DEF HistoryOK, Get_L_Data, conn, userq, hist
  <2> QED
    BY <2>1, <2>2, <2>3
<1>2. RecordHolds'
  BY DEF TypeOK, ControlOK, QueuesOK, RecordHolds, PcFitsMode, Get_L_Data, conn, userq, hist
<1>3. PcFitsMode'
  BY DEF TypeOK, ControlOK, QueuesOK, HistoryOK, PcFitsMode, SemaphoresCount,
         BoundedTransmissions, Get_L_Data, conn, userq, hist
<1>4. SemaphoresCount'
  BY DEF TypeOK, ControlOK, QueuesOK, PcFitsMode, SemaphoresCount, RecordHolds, Get_L_Data, conn, userq, hist
<1>5. BoundedTransmissions'
  BY DEF TypeOK, ControlOK, HistoryOK, PcFitsMode, BoundedTransmissions, Get_L_Data, conn, userq, hist
<1> QED
  BY <1>1, <1>2, <1>3, <1>4, <1>5

(* The user sends an APDU. *)
LEMMA SendKeeps ==
  ASSUME NEW c \in Apdu, IInv, Send(c) PROVE IInv'
<1> USE SerNoAssumption, BoundsAssumption, SerNoClosed DEF IInv
<1>1. TypeOK'
  <2> USE DEF TypeOK
  <2>1. ControlOK'
    BY DEF ControlOK, PcFitsMode, Send, conn, userq, hist
  <2>2. QueuesOK'
    BY DEF QueuesOK, ControlOK, Send, conn, userq, hist
  <2>3. HistoryOK'
    BY DEF HistoryOK, Send, conn, userq, hist
  <2> QED
    BY <2>1, <2>2, <2>3
<1>2. RecordHolds'
  BY DEF TypeOK, ControlOK, QueuesOK, RecordHolds, PcFitsMode, Send, conn, userq, hist
<1>3. PcFitsMode'
  BY DEF TypeOK, ControlOK, QueuesOK, HistoryOK, PcFitsMode, SemaphoresCount,
         BoundedTransmissions, Send, conn, userq, hist
<1>4. SemaphoresCount'
  BY DEF TypeOK, ControlOK, QueuesOK, PcFitsMode, SemaphoresCount, RecordHolds, Send, conn, userq, hist
<1>5. BoundedTransmissions'
  BY DEF TypeOK, ControlOK, HistoryOK, PcFitsMode, BoundedTransmissions, Send, conn, userq, hist
<1> QED
  BY <1>1, <1>2, <1>3, <1>4, <1>5

(* The user reads. *)
LEMMA GetKeeps ==
  ASSUME IInv, Get PROVE IInv'
<1> USE SerNoAssumption, BoundsAssumption, SerNoClosed DEF IInv
<1>1. TypeOK'
  <2> USE DEF TypeOK
  <2>1. ControlOK'
    BY DEF ControlOK, PcFitsMode, Get, conn, userq, hist
  <2>2. QueuesOK'
    <3>1. out # <<>>
      BY TailFacts DEF QueuesOK, SemaphoresCount, Get
    <3>2. out' \in Seq(Apdu \cup {End})
      BY <3>1, TailFacts DEF QueuesOK, Get
    <3> QED
      BY <3>2 DEF QueuesOK, Get
  <2>3. HistoryOK'
    <3>1. out # <<>> /\ Head(out) \in Apdu \cup {End}
      BY TailFacts DEF QueuesOK, SemaphoresCount, Get
    <3> QED
      BY <3>1 DEF HistoryOK, Get
  <2> QED
    BY <2>1, <2>2, <2>3
<1>2. RecordHolds'
  BY DEF TypeOK, ControlOK, QueuesOK, RecordHolds, PcFitsMode, Get, conn, userq, hist
<1>3. PcFitsMode'
  BY DEF TypeOK, ControlOK, QueuesOK, HistoryOK, PcFitsMode, SemaphoresCount,
         BoundedTransmissions, Get, conn, userq, hist
<1>4. SemaphoresCount'
  BY DEF TypeOK, ControlOK, QueuesOK, PcFitsMode, SemaphoresCount, RecordHolds, Get, conn, userq, hist
<1>5. BoundedTransmissions'
  BY DEF TypeOK, ControlOK, HistoryOK, PcFitsMode, BoundedTransmissions, Get, conn, userq, hist
<1> QED
  BY <1>1, <1>2, <1>3, <1>4, <1>5

(* The destructor asks the thread to stop. *)
LEMMA DeleteKeeps ==
  ASSUME IInv, Delete PROVE IInv'
<1> USE SerNoAssumption, BoundsAssumption, SerNoClosed DEF IInv
<1>1. TypeOK'
  <2> USE DEF TypeOK
  <2>1. ControlOK'
    BY DEF ControlOK, PcFitsMode, Delete, conn, userq, hist
  <2>2. QueuesOK'
    BY DEF QueuesOK, ControlOK, Delete, conn, userq, hist
  <2>3. HistoryOK'
    BY DEF HistoryOK, Delete, conn, userq, hist
  <2> QED
    BY <2>1, <2>2, <2>3
<1>2. RecordHolds'
  BY DEF TypeOK, ControlOK, QueuesOK, RecordHolds, PcFitsMode, Delete, conn, userq, hist
<1>3. PcFitsMode'
  BY DEF TypeOK, ControlOK, QueuesOK, HistoryOK, PcFitsMode, SemaphoresCount,
         BoundedTransmissions, Delete, conn, userq, hist
<1>4. SemaphoresCount'
  BY DEF TypeOK, ControlOK, QueuesOK, PcFitsMode, SemaphoresCount, RecordHolds, Delete, conn, userq, hist
<1>5. BoundedTransmissions'
  BY DEF TypeOK, ControlOK, HistoryOK, PcFitsMode, BoundedTransmissions, Delete, conn, userq, hist
<1> QED
  BY <1>1, <1>2, <1>3, <1>4, <1>5

(* The destructor has joined the thread. *)
LEMMA JoinedKeeps ==
  ASSUME IInv, Joined PROVE IInv'
<1> USE SerNoAssumption, BoundsAssumption, SerNoClosed DEF IInv
<1>1. TypeOK'
  <2> USE DEF TypeOK
  <2>1. ControlOK'
    <3>1. registered' \in BOOLEAN
      BY DEF Joined
    <3> QED
      BY <3>1 DEF ControlOK, Joined, conn
  <2>2. QueuesOK'
    BY DEF QueuesOK, ControlOK, Joined, conn, userq, hist
  <2>3. HistoryOK'
    BY DEF HistoryOK, Joined, conn, userq, hist
  <2> QED
    BY <2>1, <2>2, <2>3
<1>2. RecordHolds'
  BY DEF TypeOK, ControlOK, QueuesOK, RecordHolds, PcFitsMode, Joined, conn, userq, hist
<1>3. PcFitsMode'
  BY DEF TypeOK, ControlOK, QueuesOK, HistoryOK, PcFitsMode, SemaphoresCount,
         BoundedTransmissions, Joined, conn, userq, hist
<1>4. SemaphoresCount'
  BY DEF TypeOK, ControlOK, QueuesOK, PcFitsMode, SemaphoresCount, RecordHolds, Joined, conn, userq, hist
<1>5. BoundedTransmissions'
  BY DEF TypeOK, ControlOK, HistoryOK, PcFitsMode, BoundedTransmissions, Joined, conn, userq, hist
<1> QED
  BY <1>1, <1>2, <1>3, <1>4, <1>5

(* Layer3 passes a frame on. *)
LEMMA BusTakesKeeps ==
  ASSUME IInv, BusTakes PROVE IInv'
<1> USE SerNoAssumption, BoundsAssumption, SerNoClosed DEF IInv
<1>1. TypeOK'
  <2> USE DEF TypeOK
  <2>1. ControlOK'
    BY DEF ControlOK, PcFitsMode, BusTakes, conn, userq, hist
  <2>2. QueuesOK'
    <3>1. l3out' \in Seq(Frame)
      BY TailFacts DEF QueuesOK, BusTakes
    <3> QED
      BY <3>1 DEF QueuesOK, BusTakes, userq
  <2>3. HistoryOK'
    BY DEF HistoryOK, BusTakes, conn, userq, hist
  <2> QED
    BY <2>1, <2>2, <2>3
<1>2. RecordHolds'
  BY DEF TypeOK, ControlOK, QueuesOK, RecordHolds, PcFitsMode, BusTakes, conn, userq, hist
<1>3. PcFitsMode'
  BY DEF TypeOK, ControlOK, QueuesOK, HistoryOK, PcFitsMode, SemaphoresCount,
         BoundedTransmissions, BusTakes, conn, userq, hist
<1>4. SemaphoresCount'
  BY DEF TypeOK, ControlOK, QueuesOK, PcFitsMode, SemaphoresCount, RecordHolds, BusTakes, conn, userq, hist
<1>5. BoundedTransmissions'
  BY DEF TypeOK, ControlOK, HistoryOK, PcFitsMode, BoundedTransmissions, BusTakes, conn, userq, hist
<1> QED
  BY <1>1, <1>2, <1>3, <1>4, <1>5

(* The timeout expires. *)
LEMMA ExpireKeeps ==
  ASSUME IInv, Expire PROVE IInv'
<1> USE SerNoAssumption, BoundsAssumption, SerNoClosed DEF IInv
<1>1. TypeOK'
  <2> USE DEF TypeOK
  <2>1. ControlOK'
    BY DEF ControlOK, PcFitsMode, Expire, conn, userq, hist
  <2>2. QueuesOK'
    BY DEF QueuesOK, ControlOK, Expire, conn, userq, hist
  <2>3. HistoryOK'
    BY DEF HistoryOK, Expire, conn, userq, hist
  <2> QED
    BY <2>1, <2>2, <2>3
<1>2. RecordHolds'
  BY DEF TypeOK, ControlOK, QueuesOK, RecordHolds, PcFitsMode, Expire, conn, userq, hist
<1>3. PcFitsMode'
  BY DEF TypeOK, ControlOK, QueuesOK, HistoryOK, PcFitsMode, SemaphoresCount,
         BoundedTransmissions, Expire, conn, userq, hist
<1>4. SemaphoresCount'
  BY DEF TypeOK, ControlOK, QueuesOK, PcFitsMode, SemaphoresCount, RecordHolds, Expire, conn, userq, hist
<1>5. BoundedTransmissions'
  BY DEF TypeOK, ControlOK, HistoryOK, PcFitsMode, BoundedTransmissions, Expire, conn, userq, hist
<1> QED
  BY <1>1, <1>2, <1>3, <1>4, <1>5

(* The thread starts. *)
LEMMA StartKeeps ==
  ASSUME IInv, Start PROVE IInv'
<1> USE SerNoAssumption, BoundsAssumption, SerNoClosed DEF IInv
<1>1. TypeOK'
  <2> USE DEF TypeOK
  <2>1. ControlOK'
    <3>1. 0 \in SerNo /\ 0 \in 0 .. MaxRep /\ 1 \in 0 .. 2
      BY DEF SerNo
    <3>2. /\ pc' = "loop" /\ timer' = "idle" /\ mode' = 1
          /\ sendno' = 0 /\ recvno' = 0 /\ repcount' = 0
          /\ UNCHANGED <<occurred, stop, user, registered>>
      BY DEF Start
    <3>3. registered' \in BOOLEAN /\ stop' \in BOOLEAN
      BY <3>2 DEF ControlOK
    <3> QED
      BY <3>1, <3>2, <3>3 DEF ControlOK
  <2>2. QueuesOK'
    <3>1. l3out' \in Seq(Frame)
      BY EmittedFrames, EmitTyped DEF QueuesOK, Start
    <3> QED
      BY <3>1 DEF QueuesOK, Start, DrainBuf, userq
  <2>3. HistoryOK'
    BY DEF HistoryOK, Start, Emit, DrainBuf, conn, userq, hist
  <2> QED
    BY <2>1, <2>2, <2>3
<1>2. RecordHolds'
  BY DEF TypeOK, ControlOK, QueuesOK, RecordHolds, PcFitsMode, Start, Emit, DrainBuf, conn, userq, hist
<1>3. PcFitsMode'
  BY DEF TypeOK, ControlOK, QueuesOK, HistoryOK, PcFitsMode, SemaphoresCount,
         BoundedTransmissions, Start, Emit, DrainBuf, conn, userq, hist
<1>4. SemaphoresCount'
  BY DEF TypeOK, ControlOK, QueuesOK, PcFitsMode, SemaphoresCount, RecordHolds, Start, Emit, DrainBuf, conn, userq, hist
<1>5. BoundedTransmissions'
  BY DEF TypeOK, ControlOK, HistoryOK, PcFitsMode, BoundedTransmissions, Start, Emit, DrainBuf, conn, userq, hist
<1> QED
  BY <1>1, <1>2, <1>3, <1>4, <1>5

(* The wait ends. *)
LEMMA WakeupKeeps ==
  ASSUME IInv, Wakeup PROVE IInv'
<1> USE SerNoAssumption, BoundsAssumption, SerNoClosed DEF IInv
<1>1. TypeOK'
  <2> USE DEF TypeOK
  <2>1. ControlOK'
    BY DEF ControlOK, PcFitsMode, Wakeup, Ready, LoopOver, conn, userq, hist
  <2>2. QueuesOK'
    BY DEF QueuesOK, ControlOK, Wakeup, Ready, LoopOver, conn, userq, hist
  <2>3. HistoryOK'
    BY DEF HistoryOK, Wakeup, Ready, LoopOver, conn, userq, hist
  <2> QED
    BY <2>1, <2>2, <2>3
<1>2. RecordHolds'
  BY DEF TypeOK, ControlOK, QueuesOK, RecordHolds, PcFitsMode, Wakeup, Ready, LoopOver, conn, userq, hist
<1>3. PcFitsMode'
  BY DEF TypeOK, ControlOK, QueuesOK, HistoryOK, PcFitsMode, SemaphoresCount,
         BoundedTransmissions, Wakeup, Ready, LoopOver, conn, userq, hist
<1>4. SemaphoresCount'
  BY DEF TypeOK, ControlOK, QueuesOK, PcFitsMode, SemaphoresCount, RecordHolds, Wakeup, Ready, LoopOver, conn, userq, hist
<1>5. BoundedTransmissions'
  BY DEF TypeOK, ControlOK, HistoryOK, PcFitsMode, BoundedTransmissions, Wakeup, Ready, LoopOver, conn, userq, hist
<1> QED
  BY <1>1, <1>2, <1>3, <1>4, <1>5

(* The peer closes or reopens the connection. *)
LEMMA RecvConnectOrDisconnectKeeps ==
  ASSUME IInv, RecvConnectOrDisconnect PROVE IInv'
<1> USE SerNoAssumption, BoundsAssumption, SerNoClosed DEF IInv
<1>0. PICK type : TakeFrame(type)
  BY DEF RecvConnectOrDisconnect
<1>1. TypeOK'
  <2> USE DEF TypeOK
  <2>1. ControlOK'
    BY DEF ControlOK, PcFitsMode, RecvConnectOrDisconnect, TakeFrame, CloseOn, conn, userq, hist
  <2>2. QueuesOK'
    BY <1>0, FrameThere DEF QueuesOK, RecvConnectOrDisconnect, userq
  <2>3. HistoryOK'
    BY DEF HistoryOK, RecvConnectOrDisconnect, TakeFrame, CloseOn, conn, userq, hist
  <2> QED
    BY <2>1, <2>2, <2>3
<1>2. RecordHolds'
  BY DEF TypeOK, ControlOK, QueuesOK, RecordHolds, PcFitsMode, RecvConnectOrDisconnect, TakeFrame, CloseOn, conn, userq, hist
<1>3. PcFitsMode'
  BY DEF TypeOK, ControlOK, QueuesOK, HistoryOK, PcFitsMode, SemaphoresCount,
         BoundedTransmissions, RecvConnectOrDisconnect, TakeFrame, CloseOn, conn, userq, hist
<1>4. SemaphoresCount'
  BY <1>0, FrameThere DEF SemaphoresCount, RecvConnectOrDisconnect, CloseOn, userq
<1>5. BoundedTransmissions'
  BY DEF TypeOK, ControlOK, HistoryOK, PcFitsMode, BoundedTransmissions, RecvConnectOrDisconnect, TakeFrame, CloseOn, conn, userq, hist
<1> QED
  BY <1>1, <1>2, <1>3, <1>4, <1>5

(* A frame of no interest. *)
LEMMA RecvOtherKeeps ==
  ASSUME IInv, RecvOther PROVE IInv'
<1> USE SerNoAssumption, BoundsAssumption, SerNoClosed DEF IInv
<1>0. TakeFrame("OTHER")
  BY DEF RecvOther
<1>1. TypeOK'
  <2> USE DEF TypeOK
  <2>1. ControlOK'
    BY DEF ControlOK, PcFitsMode, RecvOther, TakeFrame, conn, userq, hist
  <2>2. QueuesOK'
    BY <1>0, FrameThere DEF QueuesOK, RecvOther, userq
  <2>3. HistoryOK'
    BY DEF HistoryOK, RecvOther, TakeFrame, conn, userq, hist
  <2> QED
    BY <2>1, <2>2, <2>3
<1>2. RecordHolds'
  BY DEF TypeOK, ControlOK, QueuesOK, RecordHolds, PcFitsMode, RecvOther, TakeFrame, conn, userq, hist
<1>3. PcFitsMode'
  BY DEF TypeOK, ControlOK, QueuesOK, HistoryOK, PcFitsMode, SemaphoresCount,
         BoundedTransmissions, RecvOther, TakeFrame, conn, userq, hist
<1>4. SemaphoresCount'
  BY <1>0, FrameThere DEF SemaphoresCount, RecvOther, conn, userq
<1>5. BoundedTransmissions'
  BY DEF TypeOK, ControlOK, HistoryOK, PcFitsMode, BoundedTransmissions, RecvOther, TakeFrame, conn, userq, hist
<1> QED
  BY <1>1, <1>2, <1>3, <1>4, <1>5

(* The peer's data. *)
LEMMA RecvDataKeeps ==
  ASSUME IInv, RecvData PROVE IInv'
<1> USE SerNoAssumption, BoundsAssumption, SerNoClosed DEF IInv
<1>0. TakeFrame("DATA")
  BY DEF RecvData
<1>a. Head(buf).serno \in SerNo /\ Head(buf).apdu \in Apdu
  BY <1>0, FrameThere, FrameFields
<1>b. \/ out' = out /\ outsem' = outsem /\ received' = received
      \/ /\ out' = Append(out, Head(buf).apdu) /\ outsem' = outsem + 1
         /\ received' = Append(received, Head(buf).apdu)
  BY DEF RecvData
<1>1. TypeOK'
  <2> USE DEF TypeOK
  <2>1. ControlOK'
    BY DEF ControlOK, PcFitsMode, RecvData, TakeFrame, CloseOn, TouchTimer, SendAck, Emit, conn, userq, hist
  <2>2. QueuesOK'
    <3>1. \A n \in SerNo : SendAck(n) => l3out' \in Seq(Frame)
      BY EmittedFrames, EmitTyped DEF QueuesOK, SendAck
    <3>2. l3out' \in Seq(Frame)
      BY <1>a, <3>1 DEF ControlOK, QueuesOK, RecvData
    <3>3. out' \in Seq(Apdu \cup {End}) /\ outsem' \in Nat
      <4>1. Append(out, Head(buf).apdu) \in Seq(Apdu \cup {End})
        BY <1>a DEF QueuesOK
      <4>2. outsem \in Nat /\ outsem + 1 \in Nat /\ out \in Seq(Apdu \cup {End})
        BY DEF QueuesOK
      <4>3. CASE out' = out /\ outsem' = outsem
        BY ONLY <4>2, <4>3
      <4>4. CASE out' = Append(out, Head(buf).apdu) /\ outsem' = outsem + 1
        BY ONLY <4>1, <4>2, <4>4
      <4> QED
        BY ONLY <4>3, <4>4, <1>b
    <3> QED
      BY <1>0, FrameThere, <3>2, <3>3 DEF QueuesOK, RecvData
  <2>3. HistoryOK'
    <3>1. Append(received, Head(buf).apdu) \in Seq(Apdu)
      BY <1>a DEF HistoryOK
    <3>2. received' \in Seq(Apdu)
      BY <3>1, <1>b DEF HistoryOK
    <3> QED
      BY <3>2 DEF HistoryOK, RecvData
  <2> QED
    BY <2>1, <2>2, <2>3
<1>2. RecordHolds'
  BY DEF TypeOK, ControlOK, QueuesOK, RecordHolds, PcFitsMode, RecvData, TakeFrame, CloseOn, TouchTimer, SendAck, Emit, conn, userq, hist
<1>3. PcFitsMode'
  BY DEF TypeOK, ControlOK, QueuesOK, HistoryOK, PcFitsMode, SemaphoresCount,
         BoundedTransmissions, RecvData, TakeFrame, CloseOn, TouchTimer, SendAck, Emit, conn, userq, hist
<1>4. SemaphoresCount'
  <2>1. Len(out') = outsem'
    BY <1>a, <1>b DEF TypeOK, QueuesOK, SemaphoresCount
  <2>2. (mode' = 1 => Len(in') = insem') /\ (mode' = 2 => Len(in') = insem' + 1)
    BY DEF SemaphoresCount, RecvData, CloseOn
  <2> QED
    BY <1>0, FrameThere, <2>1, <2>2 DEF SemaphoresCount
<1>5. BoundedTransmissions'
  BY DEF TypeOK, ControlOK, HistoryOK, PcFitsMode, BoundedTransmissions, RecvData, TakeFrame, CloseOn, TouchTimer, SendAck, Emit, conn, userq, hist
<1> QED
  BY <1>1, <1>2, <1>3, <1>4, <1>5

(* A negative acknowledgement. *)
LEMMA RecvNackKeeps ==
  ASSUME IInv, RecvNack PROVE IInv'
<1> USE SerNoAssumption, BoundsAssumption, SerNoClosed DEF IInv
<1>0. TakeFrame("NACK")
  BY DEF RecvNack
<1>1. TypeOK'
  <2> USE DEF TypeOK
  <2>1. ControlOK'
    BY DEF ControlOK, PcFitsMode, RecvNack, TakeFrame, CloseOn, NackOk, Repeat, SendData, Emit, conn, userq, hist
  <2>2. QueuesOK'
    <3>1. l3out' \in Seq(Frame)
      BY DataThere DEF QueuesOK, RecvNack, NackOk, Repeat
    <3> QED
      BY <1>0, FrameThere, <3>1 DEF QueuesOK, RecvNack, userq
  <2>3. HistoryOK'
    BY DEF HistoryOK, RecvNack, TakeFrame, CloseOn, NackOk, Repeat, SendData, Emit, conn, userq, hist
  <2> QED
    BY <2>1, <2>2, <2>3
<1>2. RecordHolds'
  BY DEF TypeOK, ControlOK, QueuesOK, RecordHolds, PcFitsMode, RecvNack, TakeFrame, CloseOn, NackOk, Repeat, SendData, Emit, conn, userq, hist
<1>3. PcFitsMode'
  BY DEF TypeOK, ControlOK, QueuesOK, HistoryOK, PcFitsMode, SemaphoresCount,
         BoundedTransmissions, RecvNack, TakeFrame, CloseOn, NackOk, Repeat, SendData, Emit, conn, userq, hist
<1>4. SemaphoresCount'
  BY <1>0, FrameThere DEF SemaphoresCount, RecvNack, Repeat, CloseOn, userq
<1>5. BoundedTransmissions'
  BY DEF TypeOK, ControlOK, HistoryOK, PcFitsMode, BoundedTransmissions, RecvNack, TakeFrame, CloseOn, NackOk, Repeat, SendData, Emit, conn, userq, hist
<1> QED
  BY <1>1, <1>2, <1>3, <1>4, <1>5

(* An acknowledgement. *)
LEMMA RecvAckKeeps ==
  ASSUME IInv, RecvAck PROVE IInv'
<1> USE SerNoAssumption, BoundsAssumption, SerNoClosed DEF IInv
<1>0. TakeFrame("ACK")
  BY DEF RecvAck
<1>a. AckOk => Tail(in) \in Seq(Apdu) /\ Len(Tail(in)) = Len(in) - 1
  BY TailFacts DEF TypeOK, QueuesOK, SemaphoresCount, AckOk
<1>1. TypeOK'
  <2> USE DEF TypeOK
  <2>1. ControlOK'
    BY DEF ControlOK, PcFitsMode, RecvAck, TakeFrame, CloseOn, AckOk, conn, userq, hist
  <2>2. QueuesOK'
    <3>1. in' \in Seq(Apdu)
      BY <1>a DEF QueuesOK, RecvAck
    <3> QED
      BY <1>0, FrameThere, <3>1 DEF QueuesOK, RecvAck
  <2>3. HistoryOK'
    BY DEF HistoryOK, RecvAck, TakeFrame, CloseOn, AckOk, conn, userq, hist
  <2> QED
    BY <2>1, <2>2, <2>3
<1>2. RecordHolds'
  BY DEF TypeOK, ControlOK, QueuesOK, RecordHolds, PcFitsMode, RecvAck, TakeFrame, CloseOn, AckOk, conn, userq, hist
<1>3. PcFitsMode'
  BY DEF TypeOK, ControlOK, QueuesOK, HistoryOK, PcFitsMode, SemaphoresCount,
         BoundedTransmissions, RecvAck, TakeFrame, CloseOn, AckOk, conn, userq, hist
<1>4. SemaphoresCount'
  <2>1. mode' = 1 => Len(in') = insem'
    BY <1>a DEF SemaphoresCount, RecvAck, TypeOK, QueuesOK, AckOk, CloseOn
  <2>2. mode' # 2
    BY DEF RecvAck, CloseOn
  <2> QED
    BY <1>0, FrameThere, <2>1, <2>2 DEF SemaphoresCount, RecvAck
<1>5. BoundedTransmissions'
  BY DEF TypeOK, ControlOK, HistoryOK, PcFitsMode, BoundedTransmissions, RecvAck, TakeFrame, CloseOn, AckOk, conn, userq, hist
<1> QED
  BY <1>1, <1>2, <1>3, <1>4, <1>5

(* The next APDU goes out. *)
LEMMA SendNextKeeps ==
  ASSUME IInv, SendNext PROVE IInv'
<1> USE SerNoAssumption, BoundsAssumption, SerNoClosed DEF IInv
<1>1. TypeOK'
  <2> USE DEF TypeOK
  <2>1. ControlOK'
    BY DEF ControlOK, PcFitsMode, SendNext, StartSending, SendData, Emit, conn, userq, hist
  <2>2. QueuesOK'
    <3>1. in # <<>> /\ insem - 1 \in Nat
      BY TailFacts DEF QueuesOK, SemaphoresCount, RecordHolds, SendNext
    <3>2. l3out' \in Seq(Frame)
      BY <3>1, DataThere DEF SendNext, StartSending
    <3> QED
      BY <3>1, <3>2 DEF QueuesOK, SendNext, StartSending
  <2>3. HistoryOK'
    BY DEF HistoryOK, SendNext, StartSending, SendData, Emit, conn, userq, hist
  <2> QED
    BY <2>1, <2>2, <2>3
<1>2. RecordHolds'
  BY DEF TypeOK, ControlOK, QueuesOK, RecordHolds, PcFitsMode, SendNext, StartSending, SendData, Emit, conn, userq, hist
<1>3. PcFitsMode'
  BY DEF TypeOK, ControlOK, QueuesOK, HistoryOK, PcFitsMode, SemaphoresCount,
         BoundedTransmissions, SendNext, StartSending, SendData, Emit, conn, userq, hist
<1>4. SemaphoresCount'
  BY DEF TypeOK, ControlOK, QueuesOK, PcFitsMode, SemaphoresCount, RecordHolds, SendNext, StartSending, SendData, Emit, conn, userq, hist
<1>5. BoundedTransmissions'
  BY DEF TypeOK, ControlOK, HistoryOK, PcFitsMode, BoundedTransmissions, SendNext, StartSending, SendData, Emit, conn, userq, hist
<1> QED
  BY <1>1, <1>2, <1>3, <1>4, <1>5

(* The timeout is handled. *)
LEMMA TimeoutKeeps ==
  ASSUME IInv, Timeout PROVE IInv'
<1> USE SerNoAssumption, BoundsAssumption, SerNoClosed DEF IInv
<1>1. TypeOK'
  <2> USE DEF TypeOK
  <2>1. ControlOK'
    BY DEF ControlOK, PcFitsMode, Timeout, RepeatOk, Repeat, SendData, Emit, CloseOn, conn, userq, hist
  <2>2. QueuesOK'
    <3>1. RepeatOk => in # <<>>
      BY TailFacts DEF QueuesOK, SemaphoresCount, RepeatOk
    <3>2. l3out' \in Seq(Frame)
      BY <3>1, DataThere DEF QueuesOK, Timeout, Repeat
    <3> QED
      BY <3>2 DEF QueuesOK, Timeout, userq
  <2>3. HistoryOK'
    BY DEF HistoryOK, Timeout, RepeatOk, Repeat, SendData, Emit, CloseOn, conn, userq, hist
  <2> QED
    BY <2>1, <2>2, <2>3
<1>2. RecordHolds'
  BY DEF TypeOK, ControlOK, QueuesOK, RecordHolds, PcFitsMode, Timeout, RepeatOk, Repeat, SendData, Emit, CloseOn, conn, userq, hist
<1>3. PcFitsMode'
  BY DEF TypeOK, ControlOK, QueuesOK, HistoryOK, PcFitsMode, SemaphoresCount,
         BoundedTransmissions, Timeout, RepeatOk, Repeat, SendData, Emit, CloseOn, conn, userq, hist
<1>4. SemaphoresCount'
  BY DEF TypeOK, ControlOK, QueuesOK, PcFitsMode, SemaphoresCount, RecordHolds, Timeout, RepeatOk, Repeat, SendData, Emit, CloseOn, conn, userq, hist
<1>5. BoundedTransmissions'
  BY DEF TypeOK, ControlOK, HistoryOK, PcFitsMode, BoundedTransmissions, Timeout, RepeatOk, Repeat, SendData, Emit, CloseOn, conn, userq, hist
<1> QED
  BY <1>1, <1>2, <1>3, <1>4, <1>5

(* The thread was woken to stop. *)
LEMMA StopOnlyKeeps ==
  ASSUME IInv, StopOnly PROVE IInv'
<1> USE SerNoAssumption, BoundsAssumption, SerNoClosed DEF IInv
<1>1. TypeOK'
  <2> USE DEF TypeOK
  <2>1. ControlOK'
    BY DEF ControlOK, PcFitsMode, StopOnly, conn, userq, hist
  <2>2. QueuesOK'
    BY DEF QueuesOK, ControlOK, StopOnly, conn, userq, hist
  <2>3. HistoryOK'
    BY DEF HistoryOK, StopOnly, conn, userq, hist
  <2> QED
    BY <2>1, <2>2, <2>3
<1>2. RecordHolds'
  BY DEF TypeOK, ControlOK, QueuesOK, RecordHolds, PcFitsMode, StopOnly, conn, userq, hist
<1>3. PcFitsMode'
  BY DEF TypeOK, ControlOK, QueuesOK, HistoryOK, PcFitsMode, SemaphoresCount,
         BoundedTransmissions, StopOnly, conn, userq, hist
<1>4. SemaphoresCount'
  BY DEF TypeOK, ControlOK, QueuesOK, PcFitsMode, SemaphoresCount, RecordHolds, StopOnly, conn, userq, hist
<1>5. BoundedTransmissions'
  BY DEF TypeOK, ControlOK, HistoryOK, PcFitsMode, BoundedTransmissions, StopOnly, conn, userq, hist
<1> QED
  BY <1>1, <1>2, <1>3, <1>4, <1>5

(* The loop ends. *)
LEMMA LeaveLoopKeeps ==
  ASSUME IInv, LeaveLoop PROVE IInv'
<1> USE SerNoAssumption, BoundsAssumption, SerNoClosed DEF IInv
<1>1. TypeOK'
  <2> USE DEF TypeOK
  <2>1. ControlOK'
    BY DEF ControlOK, PcFitsMode, LeaveLoop, Emit, LoopOver, conn, userq, hist
  <2>2. QueuesOK'
    <3>1. l3out' \in Seq(Frame)
      BY EmittedFrames, EmitTyped DEF QueuesOK, LeaveLoop
    <3> QED
      BY <3>1 DEF QueuesOK, LeaveLoop, userq
  <2>3. HistoryOK'
    BY DEF HistoryOK, LeaveLoop, Emit, LoopOver, conn, userq, hist
  <2> QED
    BY <2>1, <2>2, <2>3
<1>2. RecordHolds'
  BY DEF TypeOK, ControlOK, QueuesOK, RecordHolds, PcFitsMode, LeaveLoop, Emit, LoopOver, conn, userq, hist
<1>3. PcFitsMode'
  BY DEF TypeOK, ControlOK, QueuesOK, HistoryOK, PcFitsMode, SemaphoresCount,
         BoundedTransmissions, LeaveLoop, Emit, LoopOver, conn, userq, hist
<1>4. SemaphoresCount'
  BY DEF TypeOK, ControlOK, QueuesOK, PcFitsMode, SemaphoresCount, RecordHolds, LeaveLoop, Emit, LoopOver, conn, userq, hist
<1>5. BoundedTransmissions'
  BY DEF TypeOK, ControlOK, HistoryOK, PcFitsMode, BoundedTransmissions, LeaveLoop, Emit, LoopOver, conn, userq, hist
<1> QED
  BY <1>1, <1>2, <1>3, <1>4, <1>5

(* The thread ends. *)
LEMMA FinishKeeps ==
  ASSUME IInv, Finish PROVE IInv'
<1> USE SerNoAssumption, BoundsAssumption, SerNoClosed DEF IInv
<1>1. TypeOK'
  <2> USE DEF TypeOK
  <2>1. ControlOK'
    <3>1. registered' \in BOOLEAN /\ stop' \in BOOLEAN
      BY DEF ControlOK, Finish
    <3> QED
      BY <3>1 DEF ControlOK, Finish
  <2>2. QueuesOK'
    BY DEF QueuesOK, ControlOK, Finish, PutEnd, conn, userq, hist
  <2>3. HistoryOK'
    BY DEF HistoryOK, Finish, PutEnd, conn, userq, hist
  <2> QED
    BY <2>1, <2>2, <2>3
<1>2. RecordHolds'
  BY DEF TypeOK, ControlOK, QueuesOK, RecordHolds, PcFitsMode, Finish, PutEnd, conn, userq, hist
<1>3. PcFitsMode'
  BY DEF TypeOK, ControlOK, QueuesOK, HistoryOK, PcFitsMode, SemaphoresCount,
         BoundedTransmissions, Finish, PutEnd, conn, userq, hist
<1>4. SemaphoresCount'
  BY DEF TypeOK, ControlOK, QueuesOK, PcFitsMode, SemaphoresCount, RecordHolds, Finish, PutEnd, conn, userq, hist
<1>5. BoundedTransmissions'
  BY DEF TypeOK, ControlOK, HistoryOK, PcFitsMode, BoundedTransmissions, Finish, PutEnd, conn, userq, hist
<1> QED
  BY <1>1, <1>2, <1>3, <1>4, <1>5

----------------------------------------------------------------------------
(* IInv is inductive. *)
LEMMA NextIInv == IInv /\ [Next]_vars => IInv'
<1> SUFFICES ASSUME IInv, [Next]_vars PROVE IInv'
  OBVIOUS
<1>1. CASE Run
  BY <1>1, StartKeeps, WakeupKeeps, RecvConnectOrDisconnectKeeps, RecvOtherKeeps,
     RecvDataKeeps, RecvNackKeeps, RecvAckKeeps, SendNextKeeps, TimeoutKeeps,
     StopOnlyKeeps, LeaveLoopKeeps, FinishKeeps
     DEF Run
<1>2. CASE User
  BY <1>2, GetKeeps, DeleteKeeps, JoinedKeeps, SendKeeps DEF User
<1>3. CASE Deliver
  BY <1>3, Get_L_DataKeeps DEF Deliver
<1>4. CASE BusTakes
  BY <1>4, BusTakesKeeps
<1>5. CASE Expire
  BY <1>5, ExpireKeeps
<1>6. CASE UNCHANGED vars
  BY <1>6 DEF vars, conn, userq, hist, IInv, TypeOK, ControlOK, QueuesOK, HistoryOK,
     RecordHolds, PcFitsMode, SemaphoresCount, BoundedTransmissions
<1> QED
  BY <1>1, <1>2, <1>3, <1>4, <1>5, <1>6 DEF Next

(* The invariant holds in every reachable state. *)
THEOREM Invariance == Spec => []IInv
BY InitIInv, NextIInv, PTL DEF Spec

(* Type correctness of the connection's state. *)
THEOREM TypeCorrect == Spec => []TypeOK
BY Invariance, PTL DEF IInv

(* The semaphores count what is in the queues, in every mode. *)
THEOREM SemaphoresCorrect == Spec => []SemaphoresCount
BY Invariance, PTL DEF IInv

(* At most MaxRep + 1 transmissions of one APDU. *)
THEOREM TransmissionsBounded == Spec => []BoundedTransmissions
BY Invariance, PTL DEF IInv

----------------------------------------------------------------------------
(* The timeout in force belongs to the mode. *)
LEMMA TimerStep == IInv /\ TimerFitsMode /\ [Next]_vars => TimerFitsMode'
<1> SUFFICES ASSUME IInv, TimerFitsMode, [Next]_vars PROVE TimerFitsMode'
  OBVIOUS
<1> USE DEF TimerFitsMode
<1>1. CASE Start \/ Wakeup \/ RecvConnectOrDisconnect \/ RecvOther
  BY <1>1 DEF Start, Wakeup, RecvConnectOrDisconnect, RecvOther, TakeFrame, CloseOn, conn
<1>2. CASE RecvData
  BY <1>2 DEF RecvData, TakeFrame, CloseOn, TouchTimer, IInv, PcFitsMode
<1>3. CASE RecvNack \/ RecvAck
  BY <1>3 DEF RecvNack, RecvAck, TakeFrame, CloseOn, NackOk, AckOk, Repeat
<1>4. CASE SendNext \/ Timeout \/ StopOnly \/ LeaveLoop \/ Finish
  BY <1>4 DEF SendNext, Timeout, RepeatOk, Repeat, CloseOn, StopOnly, LeaveLoop, Finish, conn
<1>5. CASE User \/ Deliver \/ BusTakes \/ Expire
  BY <1>5 DEF User, Get, Delete, Joined, Send, Deliver, Get_L_Data, BusTakes, Expire, conn
<1>6. CASE UNCHANGED vars
  BY <1>6 DEF vars, conn
<1> QED
  BY <1>1, <1>2, <1>3, <1>4, <1>5, <1>6 DEF Next, Run

(* ACK_WAIT runs on the 3 s timeout, IDLE on the 6 s one. *)
THEOREM TimerCorrect == Spec => []TimerFitsMode
<1>1. Init => TimerFitsMode
  BY DEF Init, TimerFitsMode
<1> QED
  BY <1>1, TimerStep, Invariance, PTL DEF Spec

(* The members of the class agree with each other in every state. *)
THEOREM MembersConsistent == Spec => []Consistent
BY TypeCorrect, SemaphoresCorrect, TimerCorrect, PTL DEF Consistent

----------------------------------------------------------------------------
(* A suffix of a sequence grows with the sequence. *)
LEMMA SubSeqAppend ==
  ASSUME NEW S, NEW s \in Seq(S), NEW x \in S, NEW k \in Nat, k <= Len(s)
  PROVE  SubSeq(Append(s, x), k + 1, Len(s) + 1) = Append(SubSeq(s, k + 1, Len(s)), x)
<1> DEFINE a == Append(s, x)
           l == SubSeq(a, k + 1, Len(s) + 1)
           t == SubSeq(s, k + 1, Len(s))
<1>1. /\ a \in Seq(S) /\ Len(a) = Len(s) + 1 /\ \A i \in 1 .. Len(s) : a[i] = s[i]
      /\ a[Len(s) + 1] = x
  BY AppendProperties
<1> HIDE DEF a
<1>2. l \in Seq(S) /\ Len(l) = Len(s) + 1 - k /\ \A i \in 1 .. Len(s) + 1 - k : l[i] = a[k + i]
  BY <1>1
<1>3. t \in Seq(S) /\ Len(t) = Len(s) - k /\ \A i \in 1 .. Len(s) - k : t[i] = s[k + i]
  OBVIOUS
<1> HIDE DEF l, t
<1>4. /\ Append(t, x) \in Seq(S) /\ Len(Append(t, x)) = Len(t) + 1
      /\ \A i \in 1 .. Len(t) : Append(t, x)[i] = t[i]
      /\ Append(t, x)[Len(t) + 1] = x
  BY <1>3, AppendProperties
<1>5. Len(l) = Len(t) + 1 /\ Len(t) \in Nat
  BY <1>2, <1>3
<1>6. ASSUME NEW i \in 1 .. Len(l) PROVE l[i] = Append(t, x)[i]
  <2>1. CASE i \in 1 .. Len(t)
    <3>1. k + i \in 1 .. Len(s) /\ i \in 1 .. Len(s) - k /\ i \in 1 .. Len(s) + 1 - k
      BY <2>1, <1>3
    <3> QED
      BY <2>1, <3>1, <1>1, <1>2, <1>3, <1>4
  <2>2. CASE i = Len(t) + 1
    BY <2>2, <1>1, <1>2, <1>3, <1>4
  <2> QED
    BY <1>5, <2>1, <2>2
<1>7. l = Append(t, x)
  BY <1>2, <1>4, <1>5, <1>6, SeqEqual
<1> QED
  BY <1>7 DEF l, t, a

(* The head of a suffix that is not empty can be taken off it. *)
LEMMA SubSeqTail ==
  ASSUME NEW S, NEW s \in Seq(S), NEW k \in Nat, SubSeq(s, k + 1, Len(s)) # <<>>
  PROVE  /\ k < Len(s)
         /\ Tail(SubSeq(s, k + 1, Len(s))) = SubSeq(s, (k + 1) + 1, Len(s))
<1>1. k < Len(s)
  OBVIOUS
<1> QED
  BY <1>1

SendQueueInv == acked <= Len(sent) /\ SendQueueConserved

(* The steps that touch the user's queue: Send and the T_ACK that dequeues. *)
LEMMA SendQueueStep == IInv /\ SendQueueInv /\ [Next]_vars => SendQueueInv'
<1> SUFFICES ASSUME IInv, SendQueueInv, [Next]_vars PROVE SendQueueInv'
  OBVIOUS
<1> USE DEF SendQueueInv, SendQueueConserved
<1>1. sent \in Seq(Apdu) /\ acked \in Nat
  BY DEF IInv, TypeOK, HistoryOK
<1>2. ASSUME NEW c \in Apdu, Send(c) PROVE SendQueueInv'
  <2>1. Len(sent') = Len(sent) + 1 /\ sent' = Append(sent, c) /\ acked' = acked
    BY <1>1, <1>2 DEF Send
  <2>2. in' = Append(SubSeq(sent, acked + 1, Len(sent)), c)
    BY <1>2 DEF Send
  <2>3. in' = SubSeq(Append(sent, c), acked + 1, Len(sent) + 1)
    BY <1>1, <2>2, SubSeqAppend
  <2> QED
    BY <1>1, <2>1, <2>3
<1>3. CASE RecvAck
  <2>1. CASE AckOk
    <3>1. in # <<>>
      <4>1. in \in Seq(Apdu) /\ insem \in Nat /\ Len(in) = insem + 1
        BY <2>1 DEF AckOk, IInv, TypeOK, QueuesOK, SemaphoresCount
      <4> HIDE DEF SendQueueInv, SendQueueConserved
      <4> QED
        BY <4>1, TailFacts
    <3>2. acked < Len(sent) /\ Tail(in) = SubSeq(sent, (acked + 1) + 1, Len(sent))
      BY <1>1, <3>1, SubSeqTail
    <3>3. in' = Tail(in) /\ acked' = acked + 1 /\ sent' = sent
      BY <1>3, <2>1 DEF RecvAck
    <3> QED
      BY <1>1, <3>2, <3>3
  <2>2. CASE ~AckOk
    BY <1>3, <2>2 DEF RecvAck
  <2> QED
    BY <2>1, <2>2
<1>4. CASE UNCHANGED <<in, acked, sent>>
  BY <1>4
<1>5. Run => RecvAck \/ UNCHANGED <<in, acked, sent>>
  BY DEF Run, Start, Wakeup, RecvConnectOrDisconnect, RecvOther, RecvData, RecvNack,
     SendNext, StartSending, Timeout, StopOnly, LeaveLoop, Finish, Repeat, userq, hist
<1>6. Get \/ Delete \/ Joined \/ Deliver \/ BusTakes \/ Expire \/ UNCHANGED vars
      => UNCHANGED <<in, acked, sent>>
  BY DEF Get, Delete, Joined, Deliver, Get_L_Data, BusTakes, Expire, vars, userq, hist
<1> QED
  BY <1>2, <1>3, <1>4, <1>5, <1>6 DEF Next, User

(* The queue in holds exactly the APDUs of Send not yet acknowledged. *)
THEOREM SendQueueCorrect == Spec => []SendQueueConserved
<1>1. Init => SendQueueInv
  BY DEF Init, SendQueueInv, SendQueueConserved
<1>2. SendQueueInv => SendQueueConserved
  BY DEF SendQueueInv
<1> QED
  BY <1>1, <1>2, SendQueueStep, Invariance, PTL DEF Spec

----------------------------------------------------------------------------
(* What was read and what can be read, together. *)
LEMMA CatFacts ==
  ASSUME NEW S, NEW s \in Seq(S), NEW t \in Seq(S)
  PROVE  /\ s \o <<>> = s
         /\ t # <<>> => Append(s, Head(t)) \o Tail(t) = s \o t
         /\ \A x \in S : s \o Append(t, x) = Append(s \o t, x) /\ s \o <<x>> = Append(s, x)
<1>1. s \o <<>> = s
  OBVIOUS
<1>2. t # <<>> => Append(s, Head(t)) \o Tail(t) = s \o t
  OBVIOUS
<1>3. ASSUME NEW x \in S PROVE s \o Append(t, x) = Append(s \o t, x)
  OBVIOUS
<1>4. ASSUME NEW x \in S PROVE s \o <<x>> = Append(s, x)
  OBVIOUS
<1> QED
  BY <1>1, <1>2, <1>3, <1>4

(* The steps that touch the queue out: Get, new data, the end marker. *)
LEMMA ReadStep == IInv /\ ReadInOrderThenEnd /\ [Next]_vars => ReadInOrderThenEnd'
<1> SUFFICES ASSUME IInv, ReadInOrderThenEnd, [Next]_vars PROVE ReadInOrderThenEnd'
  OBVIOUS
<1> DEFINE Item == Apdu \cup {End}
<1>1. /\ out \in Seq(Item) /\ got \in Seq(Item)
      /\ received \in Seq(Apdu) /\ received \in Seq(Item)
  BY DEF IInv, TypeOK, QueuesOK, HistoryOK
<1>2. CASE Get
  <2>1. out # <<>>
    BY <1>2, TailFacts DEF Get, IInv, TypeOK, QueuesOK, SemaphoresCount
  <2>2. got' \o out' = got \o out
    BY <1>1, <1>2, <2>1, CatFacts DEF Get
  <2> QED
    BY <1>2, <2>2 DEF Get, ReadInOrderThenEnd, hist
<1>3. CASE RecvData
  <2>1. TakeFrame("DATA") /\ pc # "done" /\ pc' # "done" /\ got' = got
    BY <1>3 DEF RecvData, TakeFrame
  <2>2. got \o out = received
    BY <1>1, <2>1, CatFacts DEF ReadInOrderThenEnd
  <2>3. CASE out' = out /\ received' = received
    BY <2>1, <2>3 DEF ReadInOrderThenEnd
  <2>4. CASE out' = Append(out, Head(buf).apdu) /\ received' = Append(received, Head(buf).apdu)
    <3>1. Head(buf).apdu \in Apdu
      BY <2>1, FrameThere, FrameFields
    <3>2. got' \o out' = received' /\ received' \in Seq(Item)
      BY <1>1, <2>1, <2>2, <2>4, <3>1, CatFacts
    <3>3. received' \o <<>> = received'
      BY <3>2, CatFacts
    <3> QED
      BY <2>1, <3>2, <3>3 DEF ReadInOrderThenEnd
  <2> QED
    BY <1>3, <2>3, <2>4 DEF RecvData
<1>4. CASE Finish
  <2>1. got \o out = received
    BY <1>1, <1>4, CatFacts DEF ReadInOrderThenEnd, Finish
  <2>2. out' = Append(out, End) /\ got' = got /\ received' = received /\ pc' = "done"
    BY <1>4 DEF Finish, PutEnd, hist
  <2>3. got' \o out' = Append(received, End) /\ received \o <<End>> = Append(received, End)
    <3>1. End \in Item
      OBVIOUS
    <3> HIDE DEF Item
    <3>2. got \o Append(out, End) = Append(received, End)
      <4>1. got \o Append(out, End) = Append(got \o out, End)
        BY <1>1, <3>1, CatFacts
      <4> QED
        BY <2>1, <4>1
    <3>3. received \o <<End>> = Append(received, End)
      BY <1>1, <3>1, CatFacts
    <3> QED
      BY <2>2, <3>2, <3>3
  <2> QED
    BY <2>2, <2>3 DEF ReadInOrderThenEnd
<1>5. CASE UNCHANGED <<out, got, received>> /\ (pc = "done" <=> pc' = "done")
  BY <1>5 DEF ReadInOrderThenEnd
<1>6. Run => \/ RecvData \/ Finish
             \/ UNCHANGED <<out, got, received>> /\ pc # "done" /\ pc' # "done"
  BY DEF Run, Start, Wakeup, RecvConnectOrDisconnect, RecvOther, RecvNack, RecvAck,
     TakeFrame, SendNext, Timeout, StopOnly, LeaveLoop, userq, hist
<1>7. Delete \/ Joined \/ (\E c \in Apdu : Send(c)) \/ Deliver \/ BusTakes \/ Expire
        \/ UNCHANGED vars
      => UNCHANGED <<out, got, received, pc>>
  BY DEF Delete, Joined, Send, Deliver, Get_L_Data, BusTakes, Expire, vars, userq, hist
<1> QED
  BY <1>2, <1>3, <1>4, <1>5, <1>6, <1>7 DEF Next, User

(* The user reads the accepted APDUs in order, then the end marker, once. *)
THEOREM ReadCorrect == Spec => []ReadInOrderThenEnd
<1>1. Init => ReadInOrderThenEnd
  BY DEF Init, ReadInOrderThenEnd
<1> QED
  BY <1>1, ReadStep, Invariance, PTL DEF Spec

(* No assert(akt != 0) of the queues fails: what a semaphore, a recorded event *)
(* or ACK_WAIT promises is in the queue.                                       *)
THEOREM QueueSafe == Spec => []NoQueueUnderflow
<1>1. IInv => NoQueueUnderflow
  BY TailFacts DEF IInv, NoQueueUnderflow, TypeOK, QueuesOK, RecordHolds, PcFitsMode,
     SemaphoresCount
<1> QED
  BY <1>1, Invariance, PTL
----------------------------------------------------------------------------
(* The serial number that follows.                                             *)
LEMMA ModFollows ==
  ASSUME NEW m \in Nat, m > 1, NEW a \in Nat
  PROVE  /\ a % m \in 0 .. m - 1
         /\ (a + 1) % m = IF a % m = m - 1 THEN 0 ELSE (a % m) + 1
BY SMTT(30)

(* A frame carries the APDU its number names: one of the first that are not    *)
(* yet acknowledged, or an earlier one.                                        *)
Names(f, s, a) ==
  f.type = "DATA" =>
    \E i \in 1 .. a + 1 : i \in DOMAIN s /\ f.apdu = s[i] /\ f.serno = (i - 1) % SerNoMod

SendNoFollows == sendno = acked % SerNoMod
StopInv == SendNoFollows /\ StopAndWait

(* It goes on to do so while the user hands over more and more is acknowledged.*)
LEMMA NamesKept ==
  ASSUME NEW f, NEW s \in Seq(Apdu), NEW a \in Nat, Names(f, s, a),
         NEW t \in Seq(Apdu), NEW b \in Nat, a <= b,
         t = s \/ \E c \in Apdu : t = Append(s, c)
  PROVE  Names(f, t, b)
BY DEF Names

(* The APDU in front of the queue is the first that is not acknowledged.       *)
LEMMA HeadIsNext ==
  ASSUME NEW s \in Seq(Apdu), NEW a \in Nat, NEW q \in Seq(Apdu),
         q = SubSeq(s, a + 1, Len(s)), q # <<>>
  PROVE  a + 1 \in DOMAIN s /\ Head(q) = s[a + 1]
OBVIOUS

(* Data go out as the frame SendNoFollows is about.                            *)
LEMMA SendDataNames ==
  ASSUME IInv, SendQueueConserved, SendNoFollows, in # <<>>, SendData
  PROVE  \E f \in Frame : l3out' = Append(l3out, f) /\ Names(f, sent, acked)
<1> DEFINE f == [type |-> "DATA", serno |-> sendno, apdu |-> Head(in)]
<1>1. sent \in Seq(Apdu) /\ acked \in Nat /\ in \in Seq(Apdu) /\ sendno \in SerNo
  BY DEF IInv, TypeOK, HistoryOK, QueuesOK, ControlOK
<1>2. acked + 1 \in DOMAIN sent /\ Head(in) = sent[acked + 1]
  BY <1>1, HeadIsNext DEF SendQueueConserved
<1>3. f \in Frame
  BY <1>1, TailFacts, EmittedFrames
<1>4. (acked + 1) - 1 = acked /\ acked + 1 \in 1 .. acked + 1
  BY <1>1
<1>5. Names(f, sent, acked)
  BY <1>2, <1>4 DEF Names, SendNoFollows
<1> QED
  BY <1>3, <1>5 DEF SendData, Emit

(* What a step does to the frames under way and to what they are named by.     *)
LEMMA FramesOut ==
  ASSUME IInv, SendQueueConserved, SendNoFollows, [Next]_vars
  PROVE  \/ l3out' = l3out
         \/ l3out # <<>> /\ l3out' = Tail(l3out)
         \/ \E f \in Frame : l3out' = Append(l3out, f) /\ Names(f, sent, acked)
<1> DEFINE Shown == \E f \in Frame : l3out' = Append(l3out, f) /\ Names(f, sent, acked)
<1>1. ASSUME NEW f \in Frame, f.type # "DATA", Emit(f) PROVE Shown
  BY <1>1 DEF Emit, Names
<1>2. CASE Start
  BY <1>1, <1>2, EmittedFrames DEF Start
<1>3. CASE LeaveLoop
  BY <1>1, <1>3, EmittedFrames DEF LeaveLoop
<1>4. CASE RecvData
  <2>1. ASSUME NEW n \in SerNo, SendAck(n) PROVE Shown
    BY <1>1, <2>1, EmittedFrames DEF SendAck
  <2>2. recvno \in SerNo /\ Head(buf).serno \in SerNo
    <3>1. Head(buf) \in Frame /\ Head(buf).type = "DATA"
      BY <1>4, FrameThere DEF RecvData
    <3> QED
      BY <3>1, FrameFields DEF IInv, TypeOK, ControlOK
  <2>3. l3out' = l3out \/ SendAck(recvno) \/ SendAck(Head(buf).serno)
    BY <1>4 DEF RecvData
  <2> QED
    BY <2>1, <2>2, <2>3
<1>5. ASSUME in # <<>>, SendData PROVE Shown
  BY <1>5, SendDataNames
<1>6. CASE RecvNack
  BY <1>5, <1>6 DEF RecvNack, NackOk, Repeat
<1>7. CASE SendNext
  <2>1. in # <<>>
    <3>1. insem > 0 /\ Len(in) = insem
      BY <1>7 DEF SendNext, IInv, RecordHolds, SemaphoresCount
    <3>2. in \in Seq(Apdu) /\ insem \in Nat
      BY DEF IInv, TypeOK, QueuesOK
    <3> QED
      BY <3>1, <3>2, TailFacts
  <2> QED
    BY <1>5, <1>7, <2>1 DEF SendNext, StartSending
<1>8. CASE Timeout
  <2>1. CASE RepeatOk /\ Repeat
    <3>1. in # <<>>
      <4>1. mode = 2 /\ Len(in) = insem + 1 /\ in \in Seq(Apdu) /\ insem \in Nat
        BY <2>1 DEF RepeatOk, IInv, SemaphoresCount, TypeOK, QueuesOK
      <4> QED
        BY <4>1, TailFacts
    <3> QED
      BY <1>5, <2>1, <3>1 DEF Repeat
  <2>2. CASE l3out' = l3out
    BY <2>2
  <2> QED
    BY <1>8, <2>1, <2>2 DEF Timeout
<1>9. CASE BusTakes
  BY <1>9 DEF BusTakes
<1>10. CASE UNCHANGED l3out
  BY <1>10
<1>11. Run => \/ Start \/ LeaveLoop \/ RecvData \/ RecvNack \/ SendNext \/ Timeout
              \/ UNCHANGED l3out
  BY DEF Run, Wakeup, RecvConnectOrDisconnect, RecvOther, RecvAck, StopOnly, Finish, userq, hist
<1>12. User \/ Deliver \/ Expire \/ UNCHANGED vars => UNCHANGED l3out
  BY DEF User, Get, Delete, Joined, Send, Deliver, Get_L_Data, Expire, vars
<1> QED
  BY <1>2, <1>3, <1>4, <1>6, <1>7, <1>8, <1>9, <1>10, <1>11, <1>12 DEF Next

(* Sent and acknowledged only grow, and the number follows the latter.         *)
LEMMA SentGrows ==
  ASSUME IInv, SendNoFollows, [Next]_vars
  PROVE  /\ sent' = sent \/ \E c \in Apdu : sent' = Append(sent, c)
         /\ acked' \in Nat /\ acked <= acked'
         /\ SendNoFollows'
<1>1. acked \in Nat
  BY DEF IInv, TypeOK, HistoryOK
<1>2. CASE RecvAck /\ AckOk
  <2>1. acked' = acked + 1 /\ sendno' = NextNo(sendno) /\ sent' = sent
    BY <1>2 DEF RecvAck
  <2>2. sendno' = (acked + 1) % SerNoMod
    BY <1>1, <2>1, ModFollows, SerNoAssumption DEF NextNo, SendNoFollows
  <2> QED
    BY <1>1, <2>1, <2>2 DEF SendNoFollows
<1>3. CASE Start
  <2>1. sendno' = 0 /\ acked' = 0 /\ acked = 0 /\ sent' = sent
    BY <1>3 DEF Start, hist, IInv, PcFitsMode
  <2>2. 0 % SerNoMod = 0
    BY SerNoAssumption
  <2> QED
    BY <2>1, <2>2 DEF SendNoFollows
<1>4. CASE UNCHANGED <<sendno, acked>> /\ (sent' = sent \/ \E c \in Apdu : sent' = Append(sent, c))
  BY <1>1, <1>4 DEF SendNoFollows
<1>5. Run => (RecvAck /\ AckOk) \/ Start \/ UNCHANGED <<sendno, acked, sent>>
  BY DEF Run, Wakeup, RecvConnectOrDisconnect, RecvOther, RecvData, RecvNack, RecvAck, Repeat, CloseOn,
     SendNext, Timeout, StopOnly, LeaveLoop, Finish, userq, hist, conn
<1>6. ASSUME NEW c \in Apdu, Send(c)
      PROVE  UNCHANGED <<sendno, acked>> /\ sent' = Append(sent, c)
  BY <1>6 DEF Send, conn
<1>7. Get \/ Delete \/ Joined \/ Deliver \/ BusTakes \/ Expire \/ UNCHANGED vars
      => UNCHANGED <<sendno, acked, sent>>
  BY DEF Get, Delete, Joined, Deliver, Get_L_Data, BusTakes, Expire, vars, conn, hist
<1> QED
  BY <1>2, <1>3, <1>4, <1>5, <1>6, <1>7 DEF Next, User

LEMMA StopStep == IInv /\ SendQueueInv /\ StopInv /\ [Next]_vars => StopInv'
<1> SUFFICES ASSUME IInv, SendQueueInv, StopInv, [Next]_vars PROVE StopInv'
  OBVIOUS
<1>1. SendNoFollows /\ StopAndWait /\ SendQueueConserved
  BY DEF StopInv, SendQueueInv
<1>2. /\ sent \in Seq(Apdu) /\ acked \in Nat /\ l3out \in Seq(Frame)
      /\ sent' \in Seq(Apdu)
  BY NextIInv DEF IInv, TypeOK, HistoryOK, QueuesOK
<1>3. /\ sent' = sent \/ \E c \in Apdu : sent' = Append(sent, c)
      /\ acked' \in Nat /\ acked <= acked' /\ SendNoFollows'
  BY <1>1, SentGrows
<1>4. \A f : Names(f, sent, acked) => Names(f, sent', acked')
  BY <1>2, <1>3, NamesKept
<1>5. \A k \in DOMAIN l3out : Names(l3out[k], sent', acked')
  BY <1>1, <1>4 DEF StopAndWait, Names
<1>6. \A k \in DOMAIN l3out' : Names(l3out'[k], sent', acked')
  <2>1. CASE l3out' = l3out
    BY <1>5, <2>1
  <2>2. CASE l3out # <<>> /\ l3out' = Tail(l3out)
    <3>1. \A k \in DOMAIN Tail(l3out) : k + 1 \in DOMAIN l3out /\ Tail(l3out)[k] = l3out[k + 1]
      BY <1>2, <2>2
    <3> QED
      BY <1>5, <2>2, <3>1
  <2>3. ASSUME NEW f \in Frame, l3out' = Append(l3out, f), Names(f, sent, acked)
        PROVE  \A k \in DOMAIN l3out' : Names(l3out'[k], sent', acked')
    <3>1. Names(f, sent', acked')
      BY <1>4, <2>3
    <3>2. \A k \in DOMAIN Append(l3out, f) :
            (k \in DOMAIN l3out /\ Append(l3out, f)[k] = l3out[k]) \/ Append(l3out, f)[k] = f
      BY <1>2
    <3> QED
      BY <1>5, <2>3, <3>1, <3>2
  <2> QED
    BY <1>1, <2>1, <2>2, <2>3, FramesOut
<1> QED
  BY <1>3, <1>6 DEF StopInv, StopAndWait, Names

(* A data frame on its way carries the APDU that its number names, and never   *)
(* one beyond the first that is not acknowledged.                              *)
THEOREM StopAndWaitCorrect == Spec => []StopAndWait
<1>1. Init => SendQueueInv
  BY DEF Init, SendQueueInv, SendQueueConserved
<1>2. Init => StopInv
  <2>1. 0 % SerNoMod = 0
    BY SerNoAssumption
  <2> QED
    BY <2>1 DEF Init, StopInv, SendNoFollows, StopAndWait
<1>3. StopInv => StopAndWait
  BY DEF StopInv
<1> QED
  BY <1>1, <1>2, <1>3, SendQueueStep, StopStep, Invariance, PTL DEF Spec

-----------------------------------------------------------------------------
(* The two ends and the bus, TConnectionBus.                                   *)

Num(k) == k % SerNoMod

(* No frame of a type with another number follows one with the number n.   *)
NewBehindOld(q, type, n) ==
  \A k, l \in DOMAIN q :
    k < l /\ q[k].type = type /\ q[l].type = type /\ q[k].serno = n => q[l].serno = n

DatumNext(f, s, a, r) == f.serno = Num(r) /\ r = a /\ r < Len(s) /\ f.apdu = s[r + 1]
DataOK(d, s, a, r) ==
  /\ \A k \in DOMAIN d :
       d[k].type = "DATA" => DatumNext(d[k], s, a, r) \/ d[k].serno = PrevNo(Num(r))
  /\ NewBehindOld(d, "DATA", Num(r))

AcksOK(c, a, r) ==
  /\ \A k \in DOMAIN c :
       c[k].type = "ACK" => (c[k].serno = Num(a) /\ r = a + 1) \/ c[k].serno = PrevNo(Num(a))
  /\ NewBehindOld(c, "ACK", Num(a))

InStep(a, r, s) == r \in {a, a + 1} /\ r <= Len(s)

(* The medium may lose and repeat, it keeps the order: what remains.       *)
Remains(e, d) ==
  \E h \in [DOMAIN e -> DOMAIN d] :
    /\ \A k, l \in DOMAIN e : k < l => h[k] <= h[l]
    /\ \A k \in DOMAIN e : e[k] = d[h[k]]

----------------------------------------------------------------------------
(* Numbers.                                                                *)
LEMMA NumFacts ==
  ASSUME NEW k \in Nat
  PROVE  /\ Num(k) \in SerNo /\ PrevNo(Num(k)) \in SerNo
         /\ Num(k + 1) = NextNo(Num(k))
         /\ PrevNo(Num(k + 1)) = Num(k)
         /\ PrevNo(Num(k)) # Num(k)
<1>1. Num(k) \in SerNo /\ Num(k + 1) = NextNo(Num(k))
  BY ModFollows, SerNoAssumption DEF Num, SerNo, NextNo
<1> HIDE DEF Num
<1> QED
  BY <1>1, SerNoAssumption DEF SerNo, NextNo, PrevNo

LEMMA RemainsOK ==
  ASSUME NEW d \in Seq(Frame), NEW e \in Seq(Frame), Remains(e, d)
  PROVE  /\ \A s, a, r : DataOK(d, s, a, r) => DataOK(e, s, a, r)
         /\ \A a, r : AcksOK(d, a, r) => AcksOK(e, a, r)
<1>1. PICK h \in [DOMAIN e -> DOMAIN d] :
        /\ \A k, l \in DOMAIN e : k < l => h[k] <= h[l]
        /\ \A k \in DOMAIN e : e[k] = d[h[k]]
  BY DEF Remains
<1>2. ASSUME NEW type, NEW n, NewBehindOld(d, type, n) PROVE NewBehindOld(e, type, n)
  <2> SUFFICES ASSUME NEW k \in DOMAIN e, NEW l \in DOMAIN e, k < l,
                      e[k].type = type, e[l].type = type, e[k].serno = n
               PROVE  e[l].serno = n
    BY DEF NewBehindOld
  <2>1. h[k] \in DOMAIN d /\ h[l] \in DOMAIN d /\ h[k] <= h[l] /\ e[k] = d[h[k]] /\ e[l] = d[h[l]]
    BY <1>1
  <2>2. h[k] = h[l] \/ h[k] < h[l]
    BY <2>1
  <2> QED
    BY <1>2, <2>1, <2>2 DEF NewBehindOld
<1>3. ASSUME NEW s, NEW a, NEW r, DataOK(d, s, a, r) PROVE DataOK(e, s, a, r)
  BY <1>1, <1>2, <1>3 DEF DataOK
<1>4. ASSUME NEW a, NEW r, AcksOK(d, a, r) PROVE AcksOK(e, a, r)
  BY <1>1, <1>2, <1>4 DEF AcksOK
<1> QED
  BY <1>3, <1>4

LEMMA AppendOrder ==
  ASSUME NEW d \in Seq(Frame), NEW f \in Frame, NEW type, NEW n,
         NewBehindOld(d, type, n),
         \/ f.type # type
         \/ f.serno = n
         \/ \A k \in DOMAIN d : d[k].type = type => d[k].serno # n
  PROVE  NewBehindOld(Append(d, f), type, n)
BY DEF NewBehindOld

(* Elements of a longer queue.                                             *)
LEMMA AppendElems ==
  ASSUME NEW d \in Seq(Frame), NEW f \in Frame
  PROVE  /\ Append(d, f) \in Seq(Frame)
         /\ \A k \in DOMAIN Append(d, f) :
              (k \in DOMAIN d /\ Append(d, f)[k] = d[k]) \/ Append(d, f)[k] = f
OBVIOUS

(* A frame of another kind.                                                *)
LEMMA AppendOther ==
  ASSUME NEW d \in Seq(Frame), NEW f \in Frame
  PROVE  /\ \A s, a, r : f.type # "DATA" /\ DataOK(d, s, a, r) => DataOK(Append(d, f), s, a, r)
         /\ \A a, r : f.type # "ACK" /\ AcksOK(d, a, r) => AcksOK(Append(d, f), a, r)
<1>1. ASSUME NEW s, NEW a, NEW r, f.type # "DATA", DataOK(d, s, a, r)
      PROVE  DataOK(Append(d, f), s, a, r)
  BY <1>1, AppendOrder, AppendElems DEF DataOK
<1>2. ASSUME NEW a, NEW r, f.type # "ACK", AcksOK(d, a, r) PROVE AcksOK(Append(d, f), a, r)
  BY <1>2, AppendOrder, AppendElems DEF AcksOK
<1> QED
  BY <1>1, <1>2

(* More is submitted.                                                      *)
LEMMA SubmitOK ==
  ASSUME NEW d, NEW s \in Seq(Apdu), NEW x \in Apdu, NEW a \in Nat, NEW r \in Nat,
         DataOK(d, s, a, r)
  PROVE  DataOK(d, Append(s, x), a, r)
<1>1. ASSUME r < Len(s) PROVE r < Len(Append(s, x)) /\ Append(s, x)[r + 1] = s[r + 1]
  BY <1>1
<1>2. ASSUME NEW f, DatumNext(f, s, a, r) PROVE DatumNext(f, Append(s, x), a, r)
  BY <1>1, <1>2 DEF DatumNext
<1> QED
  BY <1>2 DEF DataOK

(* The sender transmits, for the first time or again.                      *)
LEMMA TransmitOK ==
  ASSUME NEW d \in Seq(Frame), NEW s, NEW a \in Nat, NEW r \in Nat, InStep(a, r, s),
         DataOK(d, s, a, r), a < Len(s), NEW f \in Frame,
         f.serno = Num(a), f.apdu = s[a + 1]
  PROVE  DataOK(Append(d, f), s, a, r)
<1>1. CASE r = a
  BY <1>1, AppendOrder, AppendElems DEF DataOK, DatumNext
<1>2. CASE r = a + 1
  <2>1. f.serno = PrevNo(Num(r)) /\ r # a
    BY <1>2, NumFacts
  <2>2. \A k \in DOMAIN d : d[k].type = "DATA" => d[k].serno # Num(r)
    BY <2>1, NumFacts DEF DataOK, DatumNext
  <2> QED
    BY <2>1, <2>2, AppendOrder, AppendElems DEF DataOK
<1> QED
  BY <1>1, <1>2 DEF InStep

(* The first of a queue and the others.                                    *)
LEMMA TailElems ==
  ASSUME NEW d \in Seq(Frame), d # <<>>
  PROVE  /\ Tail(d) \in Seq(Frame) /\ 1 \in DOMAIN d /\ Head(d) = d[1] /\ d[1] \in Frame
         /\ \A k \in DOMAIN Tail(d) : k + 1 \in DOMAIN d /\ Tail(d)[k] = d[k + 1] /\ 1 < k + 1
         /\ \A k, l \in DOMAIN Tail(d) : k < l => k + 1 < l + 1
         /\ Remains(Tail(d), d)
<1>1. /\ Tail(d) \in Seq(Frame) /\ 1 \in DOMAIN d /\ Head(d) = d[1] /\ d[1] \in Frame
      /\ \A k \in DOMAIN Tail(d) : k + 1 \in DOMAIN d /\ Tail(d)[k] = d[k + 1] /\ 1 < k + 1
      /\ \A k, l \in DOMAIN Tail(d) : k < l => k + 1 < l + 1
  OBVIOUS
<1>2. Remains(Tail(d), d)
  <2> DEFINE h == [k \in DOMAIN Tail(d) |-> k + 1]
  <2>1. h \in [DOMAIN Tail(d) -> DOMAIN d]
    BY <1>1
  <2>2. \A k, l \in DOMAIN Tail(d) : k < l => h[k] <= h[l]
    OBVIOUS
  <2>3. \A k \in DOMAIN Tail(d) : Tail(d)[k] = d[h[k]]
    BY <1>1
  <2> QED
    BY <2>1, <2>2, <2>3 DEF Remains
<1> QED
  BY <1>1, <1>2

(* The receiver takes the next datum and acknowledges it.                  *)
LEMMA TakeDatum ==
  ASSUME NEW d \in Seq(Frame), NEW c \in Seq(Frame), NEW s, NEW a \in Nat, NEW r \in Nat,
         InStep(a, r, s), DataOK(d, s, a, r), AcksOK(c, a, r),
         d # <<>>, Head(d).type = "DATA", Head(d).serno = Num(r),
         NEW g \in Frame, g.type = "ACK", g.serno = Num(r)
  PROVE  /\ r = a /\ r < Len(s) /\ Head(d).apdu = s[r + 1]
         /\ DataOK(Tail(d), s, a, r + 1) /\ AcksOK(Append(c, g), a, r + 1)
<1>1. DatumNext(d[1], s, a, r) /\ Head(d) = d[1]
  BY TailElems, NumFacts DEF DataOK
<1>2. r = a /\ r < Len(s) /\ Head(d).apdu = s[r + 1]
  BY <1>1 DEF DatumNext
<1>3. DataOK(Tail(d), s, a, r + 1)
  <2>1. \A k \in DOMAIN Tail(d) : Tail(d)[k].type = "DATA" => Tail(d)[k].serno = Num(r)
    BY TailElems DEF DataOK, NewBehindOld
  <2>2. Num(r) = PrevNo(Num(r + 1)) /\ Num(r) # Num(r + 1)
    BY NumFacts, r + 1 \in Nat
  <2> QED
    BY <2>1, <2>2 DEF DataOK, NewBehindOld
<1>4. AcksOK(Append(c, g), a, r + 1)
  <2>1. \A k \in DOMAIN c : c[k].type = "ACK" => c[k].serno = PrevNo(Num(a))
    BY <1>2 DEF AcksOK
  <2> QED
    BY <1>2, <2>1, AppendOrder, AppendElems DEF AcksOK
<1> QED
  BY <1>2, <1>3, <1>4

(* It acknowledges the last one again.                                     *)
LEMMA AckAgain ==
  ASSUME NEW c \in Seq(Frame), NEW a \in Nat, NEW r \in Nat, r \in {a, a + 1},
         AcksOK(c, a, r), NEW g \in Frame, g.serno = PrevNo(Num(r))
  PROVE  AcksOK(Append(c, g), a, r)
<1>1. CASE r = a
  <2>1. \A k \in DOMAIN c : c[k].type = "ACK" => c[k].serno # Num(a)
    BY <1>1, NumFacts DEF AcksOK
  <2> QED
    BY <1>1, <2>1, AppendOrder, AppendElems DEF AcksOK
<1>2. CASE r = a + 1
  <2>1. g.serno = Num(a)
    BY <1>2, NumFacts
  <2> QED
    BY <1>2, <2>1, AppendOrder, AppendElems DEF AcksOK
<1> QED
  BY <1>1, <1>2

(* The sender takes the acknowledgement it waits for.                      *)
LEMMA TakeAck ==
  ASSUME NEW d \in Seq(Frame), NEW c \in Seq(Frame), NEW s, NEW a \in Nat, NEW r \in Nat,
         InStep(a, r, s), DataOK(d, s, a, r), AcksOK(c, a, r),
         c # <<>>, Head(c).type = "ACK", Head(c).serno = Num(a)
  PROVE  /\ r = a + 1
         /\ DataOK(d, s, a + 1, r) /\ AcksOK(Tail(c), a + 1, r)
<1>1. r = a + 1 /\ Head(c) = c[1]
  BY TailElems, NumFacts DEF AcksOK
<1>2. DataOK(d, s, a + 1, r)
  BY <1>1 DEF DataOK, DatumNext
<1>3. AcksOK(Tail(c), a + 1, r)
  <2>1. \A k \in DOMAIN Tail(c) : Tail(c)[k].type = "ACK" => Tail(c)[k].serno = Num(a)
    BY TailElems DEF AcksOK, NewBehindOld
  <2>2. Num(a) = PrevNo(Num(a + 1)) /\ Num(a) # Num(a + 1)
    BY NumFacts, a + 1 \in Nat
  <2> QED
    BY <2>1, <2>2 DEF AcksOK, NewBehindOld
<1> QED
  BY <1>1, <1>2, <1>3

----------------------------------------------------------------------------
(* What is under way to the user: taken by Layer3 or not yet.              *)
Coming == buf \o l2in

LinkOK(d, c, s, a, r) == InStep(a, r, s) /\ DataOK(d, s, a, r) /\ AcksOK(c, a, r)
UserLink == LinkOK(l3out, Coming, sent, acked, Len(pgot))
PeerLink == LinkOK(Coming, l3out, PeerData, packed, Len(received))

Numbers ==
  /\ sendno = Num(acked) /\ precv = Num(Len(pgot))
  /\ psend = Num(packed) /\ recvno = Num(Len(received))

Links == UserLink /\ PeerLink /\ Numbers /\ EndToEnd

(* The part of the state behind Links that has a type of its own, and what *)
(* a device that waits and a thread that starts may rely on.               *)
BusType ==
  /\ exchange \in Exchanges /\ pmode \in {"closed", "idle", "wait", "over"}
  /\ psend \in SerNo /\ precv \in SerNo /\ packed \in Nat
  /\ pgot \in Seq(Apdu) /\ l2in \in Seq(Frame)
PeerWaits == pmode = "wait" => packed < Len(PeerData)
Started == pc = "start" => received = <<>>
ThreadInv == IInv /\ SendQueueInv /\ Started
BusInv == ThreadInv /\ BusType /\ PeerWaits /\ Links

(* Queues that lose frames, repeat the first or are read from.             *)
LEMMA RemainsFacts ==
  ASSUME NEW d \in Seq(Frame)
  PROVE  /\ Remains(d, d) /\ Remains(<<>>, d)
         /\ d # <<>> => /\ <<Head(d)>> \o d \in Seq(Frame)
                        /\ Remains(<<Head(d)>> \o d, d)
<1>1. Remains(d, d)
  <2> DEFINE h == [k \in DOMAIN d |-> k]
  <2>1. h \in [DOMAIN d -> DOMAIN d] /\ \A k \in DOMAIN d : h[k] = k
    OBVIOUS
  <2> HIDE DEF h
  <2> QED
    BY <2>1 DEF Remains
<1>2. Remains(<<>>, d)
  <2> DEFINE h == [k \in {} |-> k]
  <2>1. h \in [DOMAIN <<>> -> DOMAIN d] /\ DOMAIN <<>> = {}
    OBVIOUS
  <2> QED
    BY <2>1 DEF Remains
<1>3. ASSUME d # <<>>
      PROVE  <<Head(d)>> \o d \in Seq(Frame) /\ Remains(<<Head(d)>> \o d, d)
  <2> DEFINE e == <<Head(d)>> \o d
             h == [k \in DOMAIN e |-> IF k = 1 THEN 1 ELSE k - 1]
  <2>1. /\ e \in Seq(Frame) /\ DOMAIN e = 1 .. Len(d) + 1 /\ DOMAIN d = 1 .. Len(d)
        /\ Len(d) \in Nat /\ Len(d) > 0
        /\ \A k \in DOMAIN e : e[k] = IF k = 1 THEN d[1] ELSE d[k - 1]
    BY <1>3
  <2> HIDE DEF e
  <2>2. /\ h \in [DOMAIN e -> DOMAIN d]
        /\ \A k, l \in DOMAIN e : k < l => h[k] <= h[l]
        /\ \A k \in DOMAIN e : e[k] = d[h[k]]
    BY <2>1
  <2> HIDE DEF h
  <2>3. Remains(e, d)
    BY <2>2 DEF Remains
  <2> QED
    BY <2>1, <2>3 DEF e
<1> QED
  BY <1>1, <1>2, <1>3

(* What remains behind, or in front of, a queue that stays.                *)
LEMMA RemainsBehind ==
  ASSUME NEW b \in Seq(Frame), NEW l \in Seq(Frame), NEW m \in Seq(Frame), Remains(m, l)
  PROVE  Remains(b \o m, b \o l)
<1>1. PICK h \in [DOMAIN m -> DOMAIN l] :
        /\ \A j, k \in DOMAIN m : j < k => h[j] <= h[k]
        /\ \A k \in DOMAIN m : m[k] = l[h[k]]
  BY DEF Remains
<1> DEFINE n == Len(b)
           g == [k \in DOMAIN (b \o m) |-> IF k <= n THEN k ELSE n + h[k - n]]
<1>2. /\ n \in Nat /\ Len(m) \in Nat /\ Len(l) \in Nat
      /\ DOMAIN m = 1 .. Len(m) /\ DOMAIN l = 1 .. Len(l)
      /\ DOMAIN (b \o m) = 1 .. n + Len(m) /\ DOMAIN (b \o l) = 1 .. n + Len(l)
      /\ \A k \in 1 .. n + Len(m) : (b \o m)[k] = IF k <= n THEN b[k] ELSE m[k - n]
      /\ \A k \in 1 .. n + Len(l) : (b \o l)[k] = IF k <= n THEN b[k] ELSE l[k - n]
  OBVIOUS
<1> HIDE DEF n
<1>a. \A i \in DOMAIN m : h[i] \in DOMAIN l
  BY <1>1
<1>b. \A i \in 1 .. Len(m) : h[i] \in 1 .. Len(l)
  BY <1>a, <1>2
<1>c. \A k \in 1 .. n + Len(m) : k > n => k - n \in 1 .. Len(m)
  BY <1>2
<1>3. \A k \in 1 .. n + Len(m) : k > n => k - n \in DOMAIN m /\ h[k - n] \in 1 .. Len(l)
  BY <1>b, <1>c, <1>2
<1>4. g \in [DOMAIN (b \o m) -> DOMAIN (b \o l)]
  BY <1>2, <1>3
<1>5. \A j, k \in DOMAIN (b \o m) : j < k => g[j] <= g[k]
  <2> SUFFICES ASSUME NEW j \in 1 .. n + Len(m), NEW k \in 1 .. n + Len(m), j < k
               PROVE  g[j] <= g[k]
    BY <1>2
  <2>1. CASE k <= n
    BY <1>2, <2>1
  <2>2. CASE j <= n /\ k > n
    BY <1>2, <1>3, <2>2
  <2>3. CASE j > n
    <3>1. j - n \in DOMAIN m /\ k - n \in DOMAIN m /\ j - n < k - n /\ k > n
      BY <1>2, <1>3, <2>3
    <3>2. h[j - n] <= h[k - n] /\ h[j - n] \in Nat /\ h[k - n] \in Nat
      <4>1. h[j - n] \in 1 .. Len(l) /\ h[k - n] \in 1 .. Len(l)
        BY <1>3, <2>3, <3>1
      <4>2. \A i \in 1 .. Len(l) : i \in Nat
        BY <1>2
      <4>3. h[j - n] <= h[k - n]
        BY <1>1, <3>1
      <4> QED
        BY <4>1, <4>2, <4>3
    <3> QED
      BY <1>2, <2>3, <3>1, <3>2
  <2> QED
    BY <1>2, <2>1, <2>2, <2>3
<1>6. \A k \in DOMAIN (b \o m) : (b \o m)[k] = (b \o l)[g[k]]
  BY <1>1, <1>2, <1>3, SMTT(30)
<1> QED
  BY <1>4, <1>5, <1>6 DEF Remains

(* Of a queue in two parts the first is read from, or dropped.             *)
LEMMA CatQueues ==
  ASSUME NEW b \in Seq(Frame), NEW l \in Seq(Frame)
  PROVE  /\ b \o l \in Seq(Frame)
         /\ Remains(l, b \o l)
         /\ b # <<>> => /\ b \o l # <<>> /\ Head(b \o l) = Head(b)
                        /\ Tail(b) \o l = Tail(b \o l)
<1>1. b \o l \in Seq(Frame)
  OBVIOUS
<1>2. Remains(l, b \o l)
  <2> DEFINE h == [k \in DOMAIN l |-> Len(b) + k]
  <2>1. /\ DOMAIN l = 1 .. Len(l) /\ DOMAIN (b \o l) = 1 .. Len(b) + Len(l)
        /\ Len(b) \in Nat /\ Len(l) \in Nat
        /\ \A k \in DOMAIN l : (b \o l)[Len(b) + k] = l[k]
    OBVIOUS
  <2>2. h \in [DOMAIN l -> DOMAIN (b \o l)]
    BY <2>1
  <2>3. \A j, k \in DOMAIN l : j < k => h[j] <= h[k]
    BY <2>1
  <2>4. \A k \in DOMAIN l : l[k] = (b \o l)[h[k]]
    BY <2>1
  <2> QED
    BY <2>2, <2>3, <2>4 DEF Remains
<1>3. ASSUME b # <<>>
      PROVE  b \o l # <<>> /\ Head(b \o l) = Head(b) /\ Tail(b) \o l = Tail(b \o l)
  BY <1>3
<1> QED
  BY <1>1, <1>2, <1>3

(* The links while frames are lost, repeated and read, and while others    *)
(* follow that are no data or no new acknowledgement.                      *)
LEMMA LinkKept ==
  ASSUME NEW d \in Seq(Frame), NEW c \in Seq(Frame), NEW e \in Seq(Frame), NEW g \in Seq(Frame),
         NEW s, NEW a, NEW r, LinkOK(d, c, s, a, r), Remains(e, d), Remains(g, c)
  PROVE  LinkOK(e, g, s, a, r)
BY RemainsOK DEF LinkOK

LEMMA LinkSpoken ==
  ASSUME NEW d \in Seq(Frame), NEW c \in Seq(Frame), NEW f \in Frame,
         NEW s, NEW a \in Nat, NEW r \in Nat, LinkOK(d, c, s, a, r)
  PROVE  /\ f.type # "DATA" => LinkOK(Append(d, f), c, s, a, r)
         /\ f.type # "ACK" \/ f.serno = PrevNo(Num(r)) => LinkOK(d, Append(c, f), s, a, r)
<1>1. InStep(a, r, s) /\ DataOK(d, s, a, r) /\ AcksOK(c, a, r) /\ r \in {a, a + 1}
  BY DEF LinkOK, InStep
<1>2. f.type # "DATA" => DataOK(Append(d, f), s, a, r)
  BY <1>1, AppendOther
<1>3. f.type # "ACK" => AcksOK(Append(c, f), a, r)
  BY <1>1, AppendOther
<1>4. f.serno = PrevNo(Num(r)) => AcksOK(Append(c, f), a, r)
  BY <1>1, AckAgain
<1> QED
  BY <1>1, <1>2, <1>3, <1>4 DEF LinkOK

(* A prefix of a sequence, when either grows.                              *)
LEMMA PrefixGrows ==
  ASSUME NEW S, NEW s \in Seq(S), NEW t \in Seq(S), IsPrefixOf(s, t)
  PROVE  /\ Len(s) \in Nat /\ Len(t) \in Nat
         /\ \A x \in S : IsPrefixOf(s, Append(t, x))
         /\ Len(s) < Len(t) => IsPrefixOf(Append(s, t[Len(s) + 1]), t)
<1>1. Len(s) \in Nat /\ Len(t) \in Nat /\ Len(s) <= Len(t)
  BY DEF IsPrefixOf
<1>2. \A k \in 1 .. Len(s) : s[k] = t[k]
  BY DEF IsPrefixOf
<1>3. ASSUME NEW x \in S PROVE IsPrefixOf(s, Append(t, x))
  <2>1. SubSeq(Append(t, x), 1, Len(s)) = s
    BY <1>1, <1>2
  <2> QED
    BY <1>1, <2>1 DEF IsPrefixOf
<1>4. ASSUME Len(s) < Len(t) PROVE IsPrefixOf(Append(s, t[Len(s) + 1]), t)
  <2> DEFINE u == Append(s, t[Len(s) + 1])
  <2>1. u \in Seq(S) /\ Len(u) = Len(s) + 1 /\ \A k \in 1 .. Len(u) : u[k] = t[k]
    BY <1>1, <1>2, <1>4
  <2> HIDE DEF u
  <2>2. u = SubSeq(t, 1, Len(u))
    BY <1>1, <1>4, <2>1
  <2> QED
    BY <1>1, <1>4, <2>1, <2>2 DEF IsPrefixOf, u
<1> QED
  BY <1>1, <1>3, <1>4

----------------------------------------------------------------------------
(* The moves of the two ends, as the links see them.                       *)
ends == <<sent, acked, pgot, packed, received, sendno, recvno, psend, precv>>

Harmless(f, n) == f.type # "DATA" /\ (f.type = "ACK" => f.serno = PrevNo(n))
Datum(n, x) == [type |-> "DATA", serno |-> n, apdu |-> x]
Acknowledgement(n) == [type |-> "ACK", serno |-> n]

Quiet ==
  Remains(l3out', l3out) /\ Remains(Coming', Coming) /\ UNCHANGED ends
UserSpeaks ==
  /\ \E f \in Frame : Harmless(f, recvno) /\ l3out' = Append(l3out, f)
  /\ Remains(Coming', Coming) /\ UNCHANGED ends
PeerSpeaks ==
  /\ \E f \in Frame : Harmless(f, precv) /\ Coming' = Append(Coming, f)
  /\ Remains(l3out', l3out) /\ UNCHANGED ends
UserSubmits ==
  /\ \E x \in Apdu : sent' = Append(sent, x)
  /\ l3out' = l3out /\ Coming' = Coming
  /\ UNCHANGED <<acked, pgot, packed, received, sendno, recvno, psend, precv>>
UserTransmits ==
  /\ acked < Len(sent) /\ l3out' = Append(l3out, Datum(sendno, sent[acked + 1]))
  /\ Remains(Coming', Coming) /\ UNCHANGED ends
PeerTransmits ==
  /\ packed < Len(PeerData) /\ Coming' = Append(Coming, Datum(psend, PeerData[packed + 1]))
  /\ l3out' = l3out /\ UNCHANGED ends
UserTakes ==
  /\ Coming # <<>> /\ Head(Coming).type = "DATA" /\ Head(Coming).serno = recvno
  /\ Coming' = Tail(Coming) /\ l3out' = Append(l3out, Acknowledgement(recvno))
  /\ received' = Append(received, Head(Coming).apdu) /\ recvno' = NextNo(recvno)
  /\ UNCHANGED <<sent, acked, pgot, packed, sendno, psend, precv>>
PeerTakes ==
  /\ l3out # <<>> /\ Head(l3out).type = "DATA" /\ Head(l3out).serno = precv
  /\ l3out' = Tail(l3out) /\ Coming' = Append(Coming, Acknowledgement(precv))
  /\ pgot' = Append(pgot, Head(l3out).apdu) /\ precv' = NextNo(precv)
  /\ UNCHANGED <<sent, acked, packed, received, sendno, recvno, psend>>
UserLearns ==
  /\ Coming # <<>> /\ Head(Coming).type = "ACK" /\ Head(Coming).serno = sendno
  /\ Coming' = Tail(Coming) /\ l3out' = l3out
  /\ acked' = acked + 1 /\ sendno' = NextNo(sendno)
  /\ UNCHANGED <<sent, pgot, packed, received, recvno, psend, precv>>
PeerLearns ==
  /\ l3out # <<>> /\ Head(l3out).type = "ACK" /\ Head(l3out).serno = psend
  /\ l3out' = Tail(l3out) /\ Coming' = Coming
  /\ packed' = packed + 1 /\ psend' = NextNo(psend)
  /\ UNCHANGED <<sent, acked, pgot, received, sendno, recvno, precv>>

Moves ==
  \/ Quiet \/ UserSpeaks \/ PeerSpeaks \/ UserSubmits \/ UserTransmits \/ PeerTransmits
  \/ UserTakes \/ PeerTakes \/ UserLearns \/ PeerLearns

(* Types of the state behind the links.                                    *)
LinksTyped ==
  /\ l3out \in Seq(Frame) /\ Coming \in Seq(Frame)
  /\ sent \in Seq(Apdu) /\ received \in Seq(Apdu) /\ pgot \in Seq(Apdu) /\ PeerData \in Seq(Apdu)
  /\ acked \in Nat /\ packed \in Nat /\ Len(pgot) \in Nat /\ Len(received) \in Nat
  /\ sendno \in SerNo /\ recvno \in SerNo /\ psend \in SerNo /\ precv \in SerNo
LEMMA BusTyped == ThreadInv /\ BusType => LinksTyped
<1> SUFFICES ASSUME ThreadInv, BusType PROVE LinksTyped
  OBVIOUS
<1>1. /\ l3out \in Seq(Frame) /\ buf \in Seq(Frame) /\ sent \in Seq(Apdu) /\ received \in Seq(Apdu)
      /\ acked \in Nat /\ sendno \in SerNo /\ recvno \in SerNo
  BY DEF ThreadInv, IInv, TypeOK, ControlOK, QueuesOK, HistoryOK
<1>2. /\ pgot \in Seq(Apdu) /\ packed \in Nat /\ psend \in SerNo /\ precv \in SerNo
      /\ l2in \in Seq(Frame)
  BY DEF BusType
<1>3. PeerData \in Seq(Apdu)
  BY BusAssumption DEF BusType, PeerData
<1>4. Coming \in Seq(Frame)
  BY <1>1, <1>2, CatQueues DEF Coming
<1>5. Len(pgot) \in Nat /\ Len(received) \in Nat
  BY <1>1, <1>2
<1> QED
  BY <1>1, <1>2, <1>3, <1>4, <1>5 DEF LinksTyped

(* What is said to be data or an acknowledgement is a frame.               *)
LEMMA MessagesTyped ==
  ASSUME NEW n \in SerNo, NEW x \in Apdu
  PROVE  /\ Datum(n, x) \in Frame /\ Datum(n, x).serno = n /\ Datum(n, x).apdu = x
         /\ Datum(n, x).type = "DATA"
         /\ Acknowledgement(n) \in Frame /\ Acknowledgement(n).type = "ACK"
         /\ Acknowledgement(n).serno = n
BY EmittedFrames DEF Datum, Acknowledgement

(* Moves that leave the ends alone, and the submission of one more.        *)
LEMMA QueuesMove ==
  ASSUME LinksTyped, Links, LinksTyped', PeerData' = PeerData,
         \/ Quiet \/ UserSpeaks \/ PeerSpeaks \/ UserSubmits \/ UserTransmits \/ PeerTransmits
  PROVE  Links'
<1> USE DEF LinksTyped
<1> DEFINE n == Len(pgot)
           m == Len(received)
           p == PeerData
<1>1. /\ LinkOK(l3out, Coming, sent, acked, n) /\ LinkOK(Coming, l3out, p, packed, m)
      /\ Numbers /\ IsPrefixOf(pgot, sent) /\ IsPrefixOf(received, p)
  BY DEF Links, UserLink, PeerLink, EndToEnd
<1>2. ASSUME UNCHANGED ends,
             LinkOK(l3out', Coming', sent, acked, n), LinkOK(Coming', l3out', p, packed, m)
      PROVE  Links'
  BY <1>1, <1>2 DEF Links, UserLink, PeerLink, EndToEnd, Numbers, ends
<1>3. CASE Quiet
  BY <1>1, <1>2, <1>3, LinkKept DEF Quiet
<1>4. CASE UserSpeaks
  <2>1. PICK f \in Frame : Harmless(f, recvno) /\ l3out' = Append(l3out, f)
    BY <1>4 DEF UserSpeaks
  <2>2. LinkOK(l3out, Coming', sent, acked, n) /\ LinkOK(Coming', l3out, p, packed, m)
    BY <1>1, <1>4, LinkKept, RemainsFacts DEF UserSpeaks
  <2>3. LinkOK(l3out', Coming', sent, acked, n) /\ LinkOK(Coming', l3out', p, packed, m)
    BY <1>1, <2>1, <2>2, LinkSpoken DEF Harmless, Numbers
  <2> QED
    BY <1>2, <1>4, <2>3 DEF UserSpeaks
<1>5. CASE PeerSpeaks
  <2>1. PICK f \in Frame : Harmless(f, precv) /\ Coming' = Append(Coming, f)
    BY <1>5 DEF PeerSpeaks
  <2>2. LinkOK(l3out', Coming, sent, acked, n) /\ LinkOK(Coming, l3out', p, packed, m)
    BY <1>1, <1>5, LinkKept, RemainsFacts DEF PeerSpeaks
  <2>3. LinkOK(l3out', Coming', sent, acked, n) /\ LinkOK(Coming', l3out', p, packed, m)
    BY <1>1, <2>1, <2>2, LinkSpoken DEF Harmless, Numbers
  <2> QED
    BY <1>2, <1>5, <2>3 DEF PeerSpeaks
<1>6. CASE UserSubmits
  <2>1. PICK x \in Apdu : sent' = Append(sent, x)
    BY <1>6 DEF UserSubmits
  <2>2. DataOK(l3out, Append(sent, x), acked, n) /\ InStep(acked, n, Append(sent, x))
    BY <1>1, SubmitOK, SMTT(30) DEF LinkOK, InStep
  <2>3. LinkOK(l3out', Coming', sent', acked, n)
    BY <1>1, <1>6, <2>1, <2>2 DEF LinkOK, UserSubmits
  <2>4. IsPrefixOf(pgot, sent')
    BY <1>1, <2>1, PrefixGrows
  <2> QED
    BY <1>1, <1>6, <2>3, <2>4 DEF UserSubmits, Links, UserLink, PeerLink, EndToEnd, Numbers
<1>7. CASE UserTransmits
  <2> DEFINE f == Datum(sendno, sent[acked + 1])
  <2>1. sent[acked + 1] \in Apdu
    BY <1>7 DEF UserTransmits
  <2>2. f \in Frame /\ f.serno = Num(acked) /\ f.apdu = sent[acked + 1] /\ f.type # "ACK"
    BY <1>1, <2>1, MessagesTyped, SMTT(30) DEF Numbers
  <2> HIDE DEF f
  <2>3. LinkOK(l3out, Coming', sent, acked, n) /\ LinkOK(Coming', l3out, p, packed, m)
    BY <1>1, <1>7, LinkKept, RemainsFacts DEF UserTransmits
  <2>4. l3out' = Append(l3out, f) /\ acked < Len(sent)
    BY <1>7 DEF UserTransmits, f
  <2>5. DataOK(l3out', sent, acked, n)
    BY <2>2, <2>3, <2>4, TransmitOK DEF LinkOK
  <2>6. LinkOK(l3out', Coming', sent, acked, n)
    BY <2>3, <2>5 DEF LinkOK
  <2>7. LinkOK(Coming', l3out', p, packed, m)
    BY <2>2, <2>3, <2>4, LinkSpoken
  <2> QED
    BY <1>2, <1>7, <2>6, <2>7 DEF UserTransmits
<1>8. CASE PeerTransmits
  <2> DEFINE f == Datum(psend, p[packed + 1])
  <2>1. p[packed + 1] \in Apdu
    BY <1>8 DEF PeerTransmits
  <2>2. f \in Frame /\ f.serno = Num(packed) /\ f.apdu = p[packed + 1] /\ f.type # "ACK"
    BY <1>1, <2>1, MessagesTyped, SMTT(30) DEF Numbers
  <2> HIDE DEF f
  <2>3. Coming' = Append(Coming, f) /\ packed < Len(p) /\ l3out' = l3out
    BY <1>8 DEF PeerTransmits, f
  <2>4. DataOK(Coming', p, packed, m)
    BY <1>1, <2>2, <2>3, TransmitOK DEF LinkOK
  <2>5. LinkOK(Coming', l3out', p, packed, m)
    BY <1>1, <2>3, <2>4 DEF LinkOK
  <2>6. LinkOK(l3out', Coming', sent, acked, n)
    BY <1>1, <2>2, <2>3, LinkSpoken
  <2> QED
    BY <1>2, <1>8, <2>5, <2>6 DEF PeerTransmits
<1> QED
  BY <1>3, <1>4, <1>5, <1>6, <1>7, <1>8

(* An end takes what is next for it and acknowledges it.                   *)
LEMMA UserTakesMove ==
  ASSUME LinksTyped, Links, LinksTyped', PeerData' = PeerData, UserTakes
  PROVE  /\ Links'
         /\ packed = Len(received) /\ Len(received) < Len(PeerData) /\ Len(received') = Len(received) + 1
<1> USE DEF LinksTyped
<1> DEFINE n == Len(pgot)
           m == Len(received)
           p == PeerData
           g == Acknowledgement(recvno)
<1>1. /\ LinkOK(l3out, Coming, sent, acked, n) /\ LinkOK(Coming, l3out, p, packed, m)
      /\ Numbers /\ IsPrefixOf(pgot, sent) /\ IsPrefixOf(received, p)
  BY DEF Links, UserLink, PeerLink, EndToEnd
<1>2. /\ Coming # <<>> /\ Head(Coming).type = "DATA" /\ Head(Coming).serno = recvno
      /\ Coming' = Tail(Coming) /\ l3out' = Append(l3out, g)
      /\ received' = Append(received, Head(Coming).apdu) /\ recvno' = NextNo(recvno)
      /\ UNCHANGED <<sent, acked, packed, sendno, psend>>
      /\ pgot' = pgot /\ precv' = precv
  BY DEF UserTakes
<1>3. g \in Frame /\ g.type = "ACK" /\ g.serno = recvno /\ recvno = Num(m)
  <2>1. \A k \in SerNo : Acknowledgement(k) \in Frame /\ Acknowledgement(k).type = "ACK" /\ Acknowledgement(k).serno = k
    BY EmittedFrames DEF Acknowledgement
  <2> QED
    BY <1>1, <2>1 DEF Numbers
<1> HIDE DEF g
<1>4. /\ m = packed /\ m < Len(p) /\ Head(Coming).apdu = p[m + 1]
      /\ DataOK(Coming', p, packed, m + 1) /\ AcksOK(l3out', packed, m + 1)
  BY <1>1, <1>2, <1>3, TakeDatum DEF LinkOK
<1>5. Len(received') = m + 1
  BY <1>2
<1>6. InStep(packed, m + 1, p)
  BY <1>4 DEF InStep
<1>7. PeerLink'
  BY <1>2, <1>4, <1>5, <1>6 DEF PeerLink, LinkOK
<1>8. LinkOK(l3out', Coming', sent, acked, n)
  <2>1. LinkOK(l3out, Coming', sent, acked, n)
    BY <1>1, <1>2, LinkKept, RemainsFacts, TailElems
  <2> QED
    BY <1>2, <1>3, <2>1, LinkSpoken
<1>9. Numbers'
  BY <1>1, <1>2, <1>5, NumFacts DEF Numbers
<1>10. EndToEnd'
  BY <1>1, <1>2, <1>4, PrefixGrows DEF EndToEnd
<1> QED
  BY <1>2, <1>4, <1>5, <1>7, <1>8, <1>9, <1>10 DEF Links, UserLink, PeerLink

LEMMA PeerTakesMove ==
  ASSUME LinksTyped, Links, LinksTyped', PeerData' = PeerData, PeerTakes
  PROVE  /\ Links'
         /\ acked = Len(pgot) /\ Len(pgot) < Len(sent) /\ Len(pgot') = Len(pgot) + 1
<1> USE DEF LinksTyped
<1> DEFINE n == Len(pgot)
           m == Len(received)
           p == PeerData
           g == Acknowledgement(precv)
<1>1. /\ LinkOK(l3out, Coming, sent, acked, n) /\ LinkOK(Coming, l3out, p, packed, m)
      /\ Numbers /\ IsPrefixOf(pgot, sent) /\ IsPrefixOf(received, p)
  BY DEF Links, UserLink, PeerLink, EndToEnd
<1>2. /\ l3out # <<>> /\ Head(l3out).type = "DATA" /\ Head(l3out).serno = precv
      /\ l3out' = Tail(l3out) /\ Coming' = Append(Coming, g)
      /\ pgot' = Append(pgot, Head(l3out).apdu) /\ precv' = NextNo(precv)
      /\ UNCHANGED <<sent, acked, packed, sendno, psend>>
      /\ received' = received /\ recvno' = recvno
  BY DEF PeerTakes
<1>3. g \in Frame /\ g.type = "ACK" /\ g.serno = precv /\ precv = Num(n)
  <2>1. \A k \in SerNo : Acknowledgement(k) \in Frame /\ Acknowledgement(k).type = "ACK" /\ Acknowledgement(k).serno = k
    BY EmittedFrames DEF Acknowledgement
  <2> QED
    BY <1>1, <2>1 DEF Numbers
<1> HIDE DEF g
<1>4. /\ n = acked /\ n < Len(sent) /\ Head(l3out).apdu = sent[n + 1]
      /\ DataOK(l3out', sent, acked, n + 1) /\ AcksOK(Coming', acked, n + 1)
  <2>1. InStep(acked, n, sent) /\ DataOK(l3out, sent, acked, n) /\ AcksOK(Coming, acked, n)
    BY <1>1 DEF LinkOK
  <2>2. Head(l3out).serno = Num(n) /\ g.serno = Num(n)
    BY <1>2, <1>3
  <2>3. /\ n = acked /\ n < Len(sent) /\ Head(l3out).apdu = sent[n + 1]
        /\ DataOK(Tail(l3out), sent, acked, n + 1) /\ AcksOK(Append(Coming, g), acked, n + 1)
    BY <1>2, <1>3, <2>1, <2>2, TakeDatum
  <2> QED
    BY <1>2, <2>3
<1>5. Len(pgot') = n + 1
  BY <1>2
<1>6. InStep(acked, n + 1, sent)
  BY <1>4 DEF InStep
<1>7. UserLink'
  BY <1>2, <1>4, <1>5, <1>6 DEF UserLink, LinkOK
<1>8. LinkOK(Coming', l3out', p, packed, m)
  <2>1. LinkOK(Coming, l3out', p, packed, m)
    BY <1>1, <1>2, LinkKept, RemainsFacts, TailElems
  <2> QED
    BY <1>2, <1>3, <2>1, LinkSpoken
<1>9. Numbers'
  BY <1>1, <1>2, <1>5, NumFacts DEF Numbers
<1>10. EndToEnd'
  BY <1>1, <1>2, <1>4, PrefixGrows DEF EndToEnd
<1> QED
  BY <1>2, <1>4, <1>5, <1>7, <1>8, <1>9, <1>10 DEF Links, UserLink, PeerLink

(* An end learns that what it sent has been taken.                         *)
LEMMA UserLearnsMove ==
  ASSUME LinksTyped, Links, LinksTyped', PeerData' = PeerData, UserLearns
  PROVE  Links' /\ Len(pgot) = acked + 1
<1> USE DEF LinksTyped
<1> DEFINE n == Len(pgot)
           m == Len(received)
           p == PeerData
<1>1. /\ LinkOK(l3out, Coming, sent, acked, n) /\ LinkOK(Coming, l3out, p, packed, m)
      /\ Numbers /\ IsPrefixOf(pgot, sent) /\ IsPrefixOf(received, p)
  BY DEF Links, UserLink, PeerLink, EndToEnd
<1>2. /\ Coming # <<>> /\ Head(Coming).type = "ACK" /\ Head(Coming).serno = sendno
      /\ Coming' = Tail(Coming) /\ l3out' = l3out /\ acked' = acked + 1 /\ sendno' = NextNo(sendno)
      /\ UNCHANGED <<sent, pgot, received, recvno, precv>>
      /\ packed' = packed /\ psend' = psend
  BY DEF UserLearns
<1>3. n = acked + 1 /\ DataOK(l3out, sent, acked + 1, n) /\ AcksOK(Coming', acked + 1, n)
  BY <1>1, <1>2, TakeAck DEF LinkOK, Numbers
<1>4. UserLink'
  BY <1>1, <1>2, <1>3 DEF UserLink, LinkOK, InStep
<1>5. LinkOK(Coming', l3out', p, packed, m)
  BY <1>1, <1>2, LinkKept, RemainsFacts, TailElems
<1>6. Numbers'
  BY <1>1, <1>2, NumFacts DEF Numbers
<1>7. EndToEnd'
  BY <1>1, <1>2 DEF EndToEnd
<1> QED
  BY <1>2, <1>3, <1>4, <1>5, <1>6, <1>7 DEF Links, UserLink, PeerLink

LEMMA PeerLearnsMove ==
  ASSUME LinksTyped, Links, LinksTyped', PeerData' = PeerData, PeerLearns
  PROVE  Links' /\ Len(received) = packed + 1
<1> USE DEF LinksTyped
<1> DEFINE n == Len(pgot)
           m == Len(received)
           p == PeerData
<1>1. /\ LinkOK(l3out, Coming, sent, acked, n) /\ LinkOK(Coming, l3out, p, packed, m)
      /\ Numbers /\ IsPrefixOf(pgot, sent) /\ IsPrefixOf(received, p)
  BY DEF Links, UserLink, PeerLink, EndToEnd
<1>2. /\ l3out # <<>> /\ Head(l3out).type = "ACK" /\ Head(l3out).serno = psend
      /\ l3out' = Tail(l3out) /\ Coming' = Coming /\ packed' = packed + 1 /\ psend' = NextNo(psend)
      /\ UNCHANGED <<sent, pgot, received, recvno, precv>>
      /\ acked' = acked /\ sendno' = sendno
  BY DEF PeerLearns
<1>3. m = packed + 1 /\ DataOK(Coming, p, packed + 1, m) /\ AcksOK(l3out', packed + 1, m)
  BY <1>1, <1>2, TakeAck DEF LinkOK, Numbers
<1>4. PeerLink'
  BY <1>1, <1>2, <1>3 DEF PeerLink, LinkOK, InStep
<1>5. LinkOK(l3out', Coming', sent, acked, n)
  BY <1>1, <1>2, LinkKept, RemainsFacts, TailElems
<1>6. Numbers'
  BY <1>1, <1>2, NumFacts DEF Numbers
<1>7. EndToEnd'
  BY <1>1, <1>2 DEF EndToEnd
<1> QED
  BY <1>2, <1>3, <1>4, <1>5, <1>6, <1>7 DEF Links, UserLink, PeerLink

LEMMA MovesKeepLinks ==
  ASSUME LinksTyped, Links, LinksTyped', PeerData' = PeerData, Moves
  PROVE  Links'
BY QueuesMove, UserTakesMove, PeerTakesMove, UserLearnsMove, PeerLearnsMove DEF Moves

----------------------------------------------------------------------------
(* Every step is a move.  First the thread of T_Connection.                *)
LEMMA ComingTaken ==
  ASSUME LinksTyped, IInv, NEW type, TakeFrame(type), l2in' = l2in, l2in \in Seq(Frame)
  PROVE  /\ Coming # <<>> /\ Head(Coming) = Head(buf) /\ Head(buf).type = type
         /\ Coming' = Tail(Coming) /\ Remains(Coming', Coming)
         /\ Head(buf) \in Frame
<1>1. /\ buf # <<>> /\ Head(buf).type = type /\ buf' = Tail(buf) /\ Head(buf) \in Frame
  BY FrameThere
<1>2. buf \in Seq(Frame)
  BY DEF IInv, TypeOK, QueuesOK
<1>3. /\ Coming # <<>> /\ Head(Coming) = Head(buf) /\ Tail(buf) \o l2in = Tail(Coming)
  BY <1>1, <1>2, CatQueues DEF Coming
<1>4. Coming' = Tail(Coming)
  BY <1>1, <1>3 DEF Coming
<1> QED
  BY <1>1, <1>3, <1>4, TailElems DEF LinksTyped

LEMMA ComingKept ==
  ASSUME LinksTyped, IInv, l2in \in Seq(Frame), l2in' = l2in
  PROVE  /\ buf' = buf => Coming' = Coming
         /\ buf' = buf \/ buf' = <<>> => Remains(Coming', Coming)
<1>1. buf \in Seq(Frame)
  BY DEF IInv, TypeOK, QueuesOK
<1>2. buf' = buf => Coming' = Coming
  BY DEF Coming
<1>3. buf' = <<>> => Coming' = l2in
  BY DEF Coming
<1> QED
  BY <1>1, <1>2, <1>3, CatQueues, RemainsFacts DEF LinksTyped, Coming

(* The APDU in front of the queue, whenever it is transmitted.             *)
LEMMA Transmitted ==
  ASSUME ThreadInv, in # <<>>, SendData
  PROVE  acked < Len(sent) /\ l3out' = Append(l3out, Datum(sendno, sent[acked + 1]))
<1>1. sent \in Seq(Apdu) /\ acked \in Nat /\ in \in Seq(Apdu)
  BY DEF ThreadInv, IInv, TypeOK, QueuesOK, HistoryOK
<1>2. in = SubSeq(sent, acked + 1, Len(sent))
  BY DEF ThreadInv, SendQueueInv, SendQueueConserved
<1>3. acked + 1 \in DOMAIN sent /\ Head(in) = sent[acked + 1]
  BY <1>1, <1>2, HeadIsNext
<1> QED
  BY <1>1, <1>3 DEF SendData, Emit, Datum

(* The number of the frame and the place of the APDU in the queue are there.*)
LEMMA SendingThere ==
  ASSUME IInv
  PROVE  /\ SendNext => in # <<>>
         /\ Timeout /\ RepeatOk => in # <<>>
<1>1. in \in Seq(Apdu) /\ insem \in Nat
  BY DEF IInv, TypeOK, QueuesOK
<1>2. ASSUME SendNext PROVE in # <<>>
  <2>1. insem > 0 /\ Len(in) = insem
    BY <1>2 DEF SendNext, IInv, RecordHolds, SemaphoresCount
  <2> QED
    BY <1>1, <2>1, TailFacts
<1>3. ASSUME RepeatOk PROVE in # <<>>
  <2>1. Len(in) = insem + 1
    BY <1>3 DEF RepeatOk, IInv, SemaphoresCount
  <2> QED
    BY <1>1, <2>1, TailFacts
<1> QED
  BY <1>2, <1>3

(* Frames that disturb no link.                                            *)
LEMMA HarmlessFrames ==
  /\ \A type \in {"CONNECT", "DISCONNECT"} : \A n : [type |-> type] \in Frame /\ Harmless([type |-> type], n)
  /\ \A k \in SerNo : \A n : [type |-> "NACK", serno |-> k] \in Frame /\ Harmless([type |-> "NACK", serno |-> k], n)
  /\ \A n \in SerNo : Acknowledgement(PrevNo(n)) \in Frame /\ Harmless(Acknowledgement(PrevNo(n)), n)
<1>1. \A type \in {"CONNECT", "DISCONNECT"} : \A n : [type |-> type] \in Frame /\ Harmless([type |-> type], n)
  BY DEF Frame, Harmless
<1>2. \A k \in SerNo : \A n : [type |-> "NACK", serno |-> k] \in Frame /\ Harmless([type |-> "NACK", serno |-> k], n)
  BY DEF Frame, Harmless, Numbered
<1>3. \A n \in SerNo : Acknowledgement(PrevNo(n)) \in Frame /\ Harmless(Acknowledgement(PrevNo(n)), n)
  BY SerNoClosed, EmittedFrames DEF Harmless, Acknowledgement
<1> QED
  BY <1>1, <1>2, <1>3

LEMMA RunMoves ==
  ASSUME BusInv, Run, UNCHANGED <<pvars, l2in, dups>>
  PROVE  Moves
<1>1. /\ LinksTyped /\ IInv /\ ThreadInv /\ Numbers /\ l2in \in Seq(Frame) /\ l2in' = l2in
      /\ UNCHANGED <<pgot, packed, psend, precv>>
  BY BusTyped DEF BusInv, ThreadInv, BusType, Links, pvars
<1>2. ASSUME UNCHANGED <<sent, acked, received, sendno, recvno>> PROVE UNCHANGED ends
  BY <1>1, <1>2 DEF ends
<1>3. /\ buf' = buf => Coming' = Coming
      /\ buf' = buf \/ buf' = <<>> => Remains(Coming', Coming)
  BY <1>1, ComingKept
<1>4. Remains(l3out, l3out) /\ Remains(Coming, Coming)
  BY <1>1, RemainsFacts DEF LinksTyped
<1>5. ASSUME NEW type, TakeFrame(type)
      PROVE  /\ Coming # <<>> /\ Head(Coming) = Head(buf) /\ Head(buf).type = type
             /\ Coming' = Tail(Coming) /\ Remains(Coming', Coming) /\ Head(buf) \in Frame
  BY <1>1, <1>5, ComingTaken
<1>6. ASSUME in # <<>>, SendData, Remains(Coming', Coming), UNCHANGED ends PROVE Moves
  BY <1>1, <1>6, Transmitted DEF Moves, UserTransmits
<1>7. ASSUME NEW f \in Frame, Harmless(f, recvno), Emit(f), Remains(Coming', Coming), UNCHANGED ends
      PROVE  Moves
  BY <1>7 DEF Moves, UserSpeaks, Emit
<1>8. ASSUME l3out' = l3out, Remains(Coming', Coming), UNCHANGED ends PROVE Moves
  BY <1>4, <1>8 DEF Moves, Quiet
<1>9. CASE Start
  <2>1. sent' = sent /\ acked' = acked /\ received' = received /\ buf' = <<>>
    BY <1>9 DEF Start, hist, DrainBuf
  <2>2. acked = 0 /\ Len(received) = 0
    BY <1>1, <1>9 DEF Start, ThreadInv, Started, IInv, PcFitsMode
  <2>3. sendno = recvno /\ sendno = Num(0)
    BY <1>1, <2>2 DEF Numbers
  <2>4. Num(0) = 0
    BY SerNoAssumption DEF Num
  <2>5. UNCHANGED ends
    BY <1>2, <1>9, <2>1, <2>3, <2>4 DEF Start
  <2>6. Emit([type |-> "CONNECT"])
    BY <1>9 DEF Start
  <2> QED
    BY <1>3, <1>7, <2>1, <2>5, <2>6, HarmlessFrames
<1>10. CASE Wakeup \/ StopOnly \/ Finish
  <2>1. UNCHANGED <<l3out, buf, sent, acked, received, sendno, recvno>>
    BY <1>10 DEF Wakeup, StopOnly, Finish, conn, hist
  <2> QED
    BY <1>2, <1>3, <1>8, <2>1
<1>11. CASE RecvConnectOrDisconnect \/ RecvOther
  <2>1. /\ \E type : TakeFrame(type)
        /\ UNCHANGED <<l3out, sent, acked, received, sendno, recvno>>
    BY <1>11 DEF RecvConnectOrDisconnect, RecvOther, CloseOn, conn, hist
  <2> QED
    BY <1>2, <1>5, <1>8, <2>1
<1>12. CASE RecvData
  <2>1. TakeFrame("DATA") /\ UNCHANGED <<sent, acked>>
    BY <1>12 DEF RecvData
  <2>2. /\ Coming # <<>> /\ Head(Coming) = Head(buf) /\ Head(buf).type = "DATA"
        /\ Coming' = Tail(Coming) /\ Remains(Coming', Coming) /\ Head(buf) \in Frame
    BY <1>5, <2>1
  <2>3. CASE Head(buf).serno \notin {recvno, PrevNo(recvno)} /\ CloseOn /\ UNCHANGED <<l3out, received>>
    BY <1>2, <1>8, <2>1, <2>2, <2>3 DEF CloseOn
  <2>4. CASE /\ Head(buf).serno = recvno /\ received' = Append(received, Head(buf).apdu)
             /\ SendAck(recvno) /\ recvno' = NextNo(recvno) /\ UNCHANGED sendno
    BY <1>1, <2>1, <2>2, <2>4 DEF Moves, UserTakes, SendAck, Emit, Acknowledgement
  <2>5. CASE /\ Head(buf).serno = PrevNo(recvno) /\ SendAck(Head(buf).serno)
             /\ UNCHANGED <<sendno, recvno, received>>
    <3>1. Emit(Acknowledgement(PrevNo(recvno)))
      BY <2>5 DEF SendAck, Acknowledgement
    <3>2. recvno \in SerNo
      BY <1>1 DEF LinksTyped
    <3> QED
      BY <1>2, <1>7, <2>1, <2>2, <2>5, <3>1, <3>2, HarmlessFrames
  <2> QED
    BY <1>12, <2>3, <2>4, <2>5 DEF RecvData
<1>13. CASE RecvNack
  <2>1. TakeFrame("NACK") /\ UNCHANGED <<sent, acked, received, sendno, recvno>>
    BY <1>13 DEF RecvNack, Repeat, CloseOn
  <2>2. (in # <<>> /\ SendData) \/ l3out' = l3out
    BY <1>13 DEF RecvNack, NackOk, Repeat
  <2> QED
    BY <1>2, <1>5, <1>6, <1>8, <2>1, <2>2
<1>14. CASE RecvAck
  <2>1. TakeFrame("ACK") /\ UNCHANGED <<sent, received, recvno, l3out>>
    BY <1>14 DEF RecvAck, CloseOn
  <2>2. CASE AckOk /\ sendno' = NextNo(sendno) /\ acked' = acked + 1
    BY <1>1, <1>5, <2>1, <2>2 DEF Moves, UserLearns, AckOk
  <2>3. CASE UNCHANGED <<sendno, acked>>
    BY <1>2, <1>5, <1>8, <2>1, <2>3
  <2> QED
    BY <1>14, <2>2, <2>3 DEF RecvAck, CloseOn
<1>15. CASE SendNext
  <2>1. in # <<>> /\ SendData /\ buf' = buf
    BY <1>1, <1>15, SendingThere DEF SendNext, StartSending
  <2>2. UNCHANGED <<sent, acked, received, sendno, recvno>>
    BY <1>15 DEF SendNext
  <2> QED
    BY <1>2, <1>3, <1>6, <2>1, <2>2
<1>16. CASE Timeout
  <2>1. UNCHANGED <<buf, sent, acked, received, sendno, recvno>>
    BY <1>16 DEF Timeout, Repeat, CloseOn
  <2>2. (in # <<>> /\ SendData) \/ l3out' = l3out
    BY <1>1, <1>16, SendingThere DEF Timeout, Repeat
  <2> QED
    BY <1>2, <1>3, <1>6, <1>8, <2>1, <2>2
<1>17. CASE LeaveLoop
  <2>1. Emit([type |-> "DISCONNECT"]) /\ UNCHANGED <<buf, sent, acked, received, sendno, recvno>>
    BY <1>17 DEF LeaveLoop, hist
  <2> QED
    BY <1>2, <1>3, <1>7, <2>1, HarmlessFrames
<1> QED
  BY <1>9, <1>10, <1>11, <1>12, <1>13, <1>14, <1>15, <1>16, <1>17 DEF Run

(* The user, time and the bus.                                             *)
LEMMA BusMoves ==
  ASSUME BusInv,
         \/ (BusUser \/ Expire) /\ UNCHANGED <<pvars, l2in, dups>>
         \/ Bus
  PROVE  Moves
<1>1. /\ LinksTyped /\ IInv /\ l2in \in Seq(Frame) /\ buf \in Seq(Frame)
  BY BusTyped DEF BusInv, ThreadInv, BusType, IInv, TypeOK, QueuesOK
<1>2. Remains(l3out, l3out) /\ Remains(Coming, Coming)
  BY <1>1, RemainsFacts DEF LinksTyped
<1>3. UserData \in Seq(Apdu)
  BY BusAssumption DEF BusInv, BusType, UserData
<1>4. CASE BusUser /\ UNCHANGED <<pvars, l2in, dups>>
  <2>1. /\ l2in' = l2in /\ UNCHANGED <<pgot, packed, psend, precv>>
    BY <1>4 DEF pvars
  <2>2. CASE Delete \/ Joined
    <3>1. (buf' = buf \/ buf' = <<>>) /\ UNCHANGED <<l3out, sent, acked, received, sendno, recvno>>
      BY <2>2 DEF Delete, Joined, conn, hist
    <3> QED
      BY <1>1, <1>2, <2>1, <3>1, ComingKept DEF Moves, Quiet, ends
  <2>3. CASE Len(sent) < Len(UserData) /\ Send(UserData[Len(sent) + 1])
    <3> DEFINE x == UserData[Len(sent) + 1]
    <3>1. x \in Apdu
      BY <1>1, <1>3, <2>3 DEF LinksTyped
    <3>2. /\ sent' = Append(sent, x) /\ buf' = buf
          /\ UNCHANGED <<l3out, acked, received, sendno, recvno>>
      BY <2>3 DEF Send, conn
    <3> HIDE DEF x
    <3> QED
      BY <1>1, <2>1, <3>1, <3>2, ComingKept DEF Moves, UserSubmits
  <2> QED
    BY <1>4, <2>2, <2>3 DEF BusUser
<1>5. CASE Expire /\ UNCHANGED <<pvars, l2in, dups>>
  <2>1. UNCHANGED <<l2in, buf, l3out, ends>>
    BY <1>5 DEF Expire, pvars, hist, ends
  <2> QED
    BY <1>1, <1>2, <2>1, ComingKept DEF Moves, Quiet
<1>6. CASE FromBus
  <2>1. /\ l2in # <<>> /\ buf' = Append(buf, Head(l2in)) /\ l2in' = Tail(l2in)
        /\ UNCHANGED <<l3out, ends>>
    BY <1>6 DEF FromBus, Get_L_Data, conn, hist, pvars, ends
  <2>2. Append(buf, Head(l2in)) \o Tail(l2in) = buf \o l2in
    BY <1>1, <2>1, CatFacts
  <2>3. Coming' = Coming
    BY <2>1, <2>2 DEF Coming
  <2> QED
    BY <1>2, <2>1, <2>3 DEF Moves, Quiet
<1>7. CASE LoseFromPeer \/ RepeatFromPeer
  <2>1. /\ l2in # <<>> /\ (l2in' = Tail(l2in) \/ l2in' = <<Head(l2in)>> \o l2in)
        /\ UNCHANGED <<buf, l3out, ends>>
    BY <1>7 DEF LoseFromPeer, RepeatFromPeer, vars, conn, hist, pvars, ends
  <2>2. Remains(l2in', l2in) /\ l2in' \in Seq(Frame)
    BY <1>1, <2>1, TailElems, RemainsFacts
  <2>3. Remains(buf \o l2in', buf \o l2in)
    BY <1>1, <2>2, RemainsBehind
  <2> QED
    BY <1>2, <2>1, <2>3 DEF Moves, Quiet, Coming
<1>8. CASE LoseToPeer \/ RepeatToPeer
  <2>1. /\ l3out # <<>> /\ (l3out' = Tail(l3out) \/ l3out' = <<Head(l3out)>> \o l3out)
        /\ UNCHANGED <<buf, l2in, ends>>
    BY <1>8 DEF LoseToPeer, BusTakes, RepeatToPeer, conn, hist, pvars, ends
  <2>2. Remains(l3out', l3out)
    BY <1>1, <2>1, TailElems, RemainsFacts DEF LinksTyped
  <2> QED
    BY <1>1, <1>2, <2>1, <2>2, ComingKept DEF Moves, Quiet
<1> QED
  BY <1>4, <1>5, <1>6, <1>7, <1>8 DEF Bus

(* The device answers.                                                     *)
LEMMA Replied ==
  ASSUME BusInv, NEW f \in Frame, Reply(f), buf' = buf
  PROVE  Coming' = Append(Coming, f) /\ l2in' = Append(l2in, f)
<1>1. l2in \in Seq(Frame) /\ buf \in Seq(Frame)
  BY DEF BusInv, ThreadInv, BusType, IInv, TypeOK, QueuesOK
<1>2. buf \o Append(l2in, f) = Append(buf \o l2in, f)
  BY <1>1, CatFacts
<1> QED
  BY <1>2 DEF Reply, Coming

LEMMA PeerMoves ==
  ASSUME BusInv, Peer
  PROVE  Moves
<1>1. /\ LinksTyped /\ IInv /\ l2in \in Seq(Frame)
  BY BusTyped DEF BusInv, ThreadInv, BusType
<1>2. Remains(l3out, l3out) /\ Remains(Coming, Coming)
  BY <1>1, RemainsFacts DEF LinksTyped
<1>3. ASSUME NEW type, PeerTake(type)
      PROVE  /\ l3out # <<>> /\ Head(l3out).type = type /\ l3out' = Tail(l3out)
             /\ Head(l3out) \in Frame /\ Remains(l3out', l3out)
             /\ UNCHANGED <<buf, sent, acked, received, sendno, recvno>>
  <2>1. /\ l3out # <<>> /\ Head(l3out).type = type /\ l3out' = Tail(l3out)
        /\ UNCHANGED <<buf, sent, acked, received, sendno, recvno>>
    BY <1>3 DEF PeerTake, BusTakes, conn, hist
  <2> QED
    BY <1>1, <2>1, TailElems DEF LinksTyped
<1>4. ASSUME NEW f \in Frame, Harmless(f, precv), Reply(f), buf' = buf, Remains(l3out', l3out),
             UNCHANGED ends
      PROVE  Moves
  BY <1>4, Replied DEF Moves, PeerSpeaks
<1>5. ASSUME Hangup, buf' = buf, Remains(l3out', l3out), UNCHANGED <<sent, acked, received, sendno, recvno>>
      PROVE  Moves
  <2>1. Reply([type |-> "DISCONNECT"]) /\ UNCHANGED ends
    BY <1>5 DEF Hangup, ends
  <2> QED
    BY <1>4, <1>5, <2>1, HarmlessFrames
<1>6. ASSUME PeerTransmit, packed < Len(PeerData), UNCHANGED <<buf, l3out, ends>>
      PROVE  Moves
  <2> DEFINE f == Datum(psend, PeerData[packed + 1])
  <2>1. f \in Frame
    <3>1. PeerData[packed + 1] \in Apdu /\ psend \in SerNo
      BY <1>1, <1>6 DEF LinksTyped
    <3> QED
      BY <3>1, MessagesTyped
  <2>2. Reply(f)
    BY <1>6 DEF PeerTransmit, Datum
  <2> HIDE DEF f
  <2>3. Coming' = Append(Coming, f)
    BY <1>6, <2>1, <2>2, Replied
  <2> QED
    BY <1>6, <2>3 DEF f, Moves, PeerTransmits
<1>7. CASE PeerConnect \/ PeerDisconnect
  <2>1. (\E type : PeerTake(type)) /\ UNCHANGED <<psend, precv, packed, pgot, l2in>>
    BY <1>7 DEF PeerConnect, PeerDisconnect
  <2> QED
    BY <1>1, <1>2, <1>3, <2>1, ComingKept DEF Moves, Quiet, ends
<1>8. CASE PeerRecv
  <2>1. PeerTake("DATA")
    BY <1>8 DEF PeerRecv
  <2>2. Head(l3out).serno \in SerNo /\ precv \in SerNo
    BY <1>1, <1>3, <2>1, FrameFields DEF LinksTyped
  <2>3. CASE /\ Head(l3out).serno = precv /\ pgot' = Append(pgot, Head(l3out).apdu)
             /\ precv' = NextNo(precv) /\ Reply([type |-> "ACK", serno |-> Head(l3out).serno])
             /\ UNCHANGED <<psend, packed>>
    <3>1. Acknowledgement(precv) \in Frame /\ Reply(Acknowledgement(precv))
      BY <2>2, <2>3, EmittedFrames DEF Acknowledgement
    <3>2. Coming' = Append(Coming, Acknowledgement(precv))
      BY <1>3, <2>1, <3>1, Replied
    <3> QED
      BY <1>3, <2>1, <2>3, <3>2 DEF Moves, PeerTakes
  <2>4. CASE Reply([type |-> "NACK", serno |-> Head(l3out).serno]) /\ UNCHANGED pvars
    <3>1. UNCHANGED ends
      BY <1>3, <2>1, <2>4 DEF ends, pvars
    <3> QED
      BY <1>3, <1>4, <2>1, <2>2, <2>4, <3>1, HarmlessFrames
  <2>5. CASE /\ Head(l3out).serno = PrevNo(precv)
             /\ Reply([type |-> "ACK", serno |-> Head(l3out).serno]) /\ UNCHANGED pvars
    <3>1. UNCHANGED ends /\ Reply(Acknowledgement(PrevNo(precv)))
      BY <1>3, <2>1, <2>5 DEF ends, pvars, Acknowledgement
    <3> QED
      BY <1>3, <1>4, <2>1, <2>2, <3>1, HarmlessFrames
  <2>6. CASE Hangup
    BY <1>3, <1>5, <2>1, <2>6
  <2> QED
    BY <1>8, <2>3, <2>4, <2>5, <2>6 DEF PeerRecv
<1>9. CASE PeerAck
  <2>1. PeerTake("ACK")
    BY <1>9 DEF PeerAck
  <2>2. CASE /\ Head(l3out).serno = psend /\ psend' = NextNo(psend) /\ packed' = packed + 1
             /\ UNCHANGED <<precv, pgot, l2in>>
    BY <1>1, <1>3, <2>1, <2>2, ComingKept DEF Moves, PeerLearns
  <2>3. CASE Hangup
    BY <1>3, <1>5, <2>1, <2>3
  <2> QED
    BY <1>9, <2>2, <2>3 DEF PeerAck
<1>10. CASE PeerSend \/ PeerTimeout
  <2>1. UNCHANGED <<buf, l3out, sent, acked, received, sendno, recvno>>
    BY <1>10 DEF PeerSend, PeerTimeout, vars, conn, hist
  <2>2. CASE PeerTransmit /\ UNCHANGED <<psend, precv, packed, pgot>>
    <3>1. packed < Len(PeerData)
      BY <1>10, <2>2 DEF PeerSend, PeerTimeout, BusInv, PeerWaits
    <3> QED
      BY <1>6, <2>1, <2>2, <3>1 DEF ends
  <2>3. CASE Hangup
    BY <1>2, <1>5, <2>1, <2>3
  <2> QED
    BY <1>10, <2>2, <2>3 DEF PeerSend, PeerTimeout
<1> QED
  BY <1>7, <1>8, <1>9, <1>10 DEF Peer

(* Every step of the system is a move of the ends.                         *)
LEMMA BusNextMoves ==
  ASSUME BusInv, [BusNext]_busvars
  PROVE  Moves /\ exchange' = exchange
<1>1. CASE Run /\ UNCHANGED <<pvars, l2in, dups>>
  BY <1>1, RunMoves DEF pvars
<1>2. CASE (BusUser \/ Expire) /\ UNCHANGED <<pvars, l2in, dups>>
  BY <1>2, BusMoves DEF pvars
<1>3. CASE Bus
  <2>1. exchange' = exchange
    BY <1>3 DEF Bus, FromBus, LoseFromPeer, LoseToPeer, RepeatToPeer, RepeatFromPeer, pvars
  <2> QED
    BY <1>3, <2>1, BusMoves
<1>4. CASE Peer
  BY <1>4, PeerMoves DEF Peer
<1>5. CASE UNCHANGED busvars
  <2>1. l3out \in Seq(Frame) /\ Coming \in Seq(Frame)
    BY BusTyped DEF BusInv, LinksTyped
  <2>2. UNCHANGED <<buf, l2in, l3out, exchange, ends>>
    BY <1>5 DEF busvars, vars, conn, hist, pvars, ends
  <2> QED
    BY <2>1, <2>2, RemainsFacts DEF Moves, Quiet, Coming
<1> QED
  BY <1>1, <1>2, <1>3, <1>4, <1>5 DEF BusNext

(* What the connection itself keeps, it keeps on this bus.                 *)
LEMMA BusStepIsStep ==
  ASSUME BusInv, [BusNext]_busvars
  PROVE  \/ [Next]_vars
         \/ \E f \in Frame : Get_L_Data(f)
         \/ RepeatToPeer
<1>1. CASE (Run \/ BusUser \/ Expire)
  <2>1. sent \in Seq(Apdu) /\ UserData \in Seq(Apdu)
    BY BusAssumption, BusTyped DEF BusInv, BusType, UserData, LinksTyped
  <2>2. Len(sent) < Len(UserData) => UserData[Len(sent) + 1] \in Apdu
    BY <2>1
  <2> QED
    BY <1>1, <2>2 DEF BusUser, Next, User
<1>2. CASE Bus
  <2>1. l2in # <<>> => Head(l2in) \in Frame
    BY TailFacts DEF BusInv, BusType
  <2> QED
    BY <1>2, <2>1 DEF Bus, FromBus, LoseFromPeer, LoseToPeer, RepeatFromPeer, Next
<1>3. CASE Peer
  BY <1>3 DEF Peer, PeerConnect, PeerDisconnect, PeerRecv, PeerAck, PeerSend, PeerTimeout,
     PeerTake, Next
<1>4. CASE UNCHANGED busvars
  BY <1>4 DEF busvars
<1> QED
  BY <1>1, <1>2, <1>3, <1>4 DEF BusNext

LEMMA RepeatToPeerKeeps ==
  ASSUME IInv, RepeatToPeer PROVE IInv'
<1>1. l3out \in Seq(Frame) /\ l3out # <<>>
  BY DEF IInv, TypeOK, QueuesOK, RepeatToPeer
<1>2. l3out' \in Seq(Frame)
  BY <1>1, RemainsFacts DEF RepeatToPeer
<1>3. UNCHANGED <<pc, conn, occurred, userq, buf, bufsem, stop, user, registered, hist>>
  BY DEF RepeatToPeer
<1>4. TypeOK'
  BY <1>2, <1>3 DEF IInv, TypeOK, ControlOK, QueuesOK, HistoryOK, conn, userq, hist
<1>5. RecordHolds' /\ PcFitsMode'
  BY <1>3 DEF IInv, RecordHolds, PcFitsMode, conn, userq, hist
<1>6. SemaphoresCount' /\ BoundedTransmissions'
  BY <1>3 DEF IInv, SemaphoresCount, BoundedTransmissions, conn, userq, hist
<1> QED
  BY <1>4, <1>5, <1>6 DEF IInv

LEMMA ThreadStep ==
  ASSUME BusInv, [BusNext]_busvars
  PROVE  ThreadInv'
<1>1. IInv /\ SendQueueInv /\ Started
  BY DEF BusInv, ThreadInv
<1>2. CASE [Next]_vars
  <2>1. IInv' /\ SendQueueInv'
    BY <1>1, <1>2, NextIInv, SendQueueStep
  <2>2. Started'
    <3>1. CASE pc' = "start"
      <4>1. pc = "start" /\ received' = received
        BY <1>2, <3>1 DEF Next, Run, User, Deliver, Start, Wakeup, RecvConnectOrDisconnect, RecvOther,
           RecvData, RecvNack, RecvAck, SendNext, Timeout, StopOnly, LeaveLoop, Finish, TakeFrame,
           Get, Delete, Joined, Send, Get_L_Data, BusTakes, Expire, vars, hist
      <4> QED
        BY <1>1, <4>1 DEF Started
    <3> QED
      BY <3>1 DEF Started
  <2> QED
    BY <2>1, <2>2 DEF ThreadInv
<1>3. CASE \E f \in Frame : Get_L_Data(f)
  <2>1. IInv'
    BY <1>1, <1>3, Get_L_DataKeeps
  <2>2. UNCHANGED <<in, sent, acked, pc, received>>
    BY <1>3 DEF Get_L_Data, userq, hist
  <2> QED
    BY <1>1, <2>1, <2>2 DEF ThreadInv, SendQueueInv, SendQueueConserved, Started
<1>4. CASE RepeatToPeer
  <2>1. IInv'
    BY <1>1, <1>4, RepeatToPeerKeeps
  <2>2. UNCHANGED <<in, sent, acked, pc, received>>
    BY <1>4 DEF RepeatToPeer, userq, hist
  <2> QED
    BY <1>1, <2>1, <2>2 DEF ThreadInv, SendQueueInv, SendQueueConserved, Started
<1> QED
  BY <1>2, <1>3, <1>4, BusStepIsStep

(* The device.                                                             *)
LEMMA PeerStep ==
  ASSUME BusInv, [BusNext]_busvars
  PROVE  BusType' /\ PeerWaits'
<1>1. /\ BusType /\ PeerWaits /\ LinksTyped /\ l2in \in Seq(Frame) /\ precv \in SerNo
      /\ psend \in SerNo /\ packed \in Nat /\ pgot \in Seq(Apdu)
  BY BusTyped DEF BusInv, BusType
<1>2. ASSUME UNCHANGED pvars, l2in' \in Seq(Frame) PROVE BusType' /\ PeerWaits'
  BY <1>1, <1>2 DEF BusType, PeerWaits, PeerData, pvars
<1>3. CASE (Run \/ BusUser \/ Expire) /\ UNCHANGED <<pvars, l2in, dups>>
  BY <1>1, <1>2, <1>3
<1>4. CASE Bus
  <2>1. UNCHANGED pvars
    BY <1>4 DEF Bus, FromBus, LoseFromPeer, LoseToPeer, RepeatToPeer, RepeatFromPeer
  <2>2. \/ l2in' = l2in
        \/ l2in # <<>> /\ (l2in' = Tail(l2in) \/ l2in' = <<Head(l2in)>> \o l2in)
    BY <1>4 DEF Bus, FromBus, LoseFromPeer, LoseToPeer, RepeatToPeer, RepeatFromPeer
  <2> QED
    BY <1>1, <1>2, <2>1, <2>2, TailFacts, RemainsFacts
<1>5. CASE Peer
  <2>1. exchange' = exchange
    BY <1>5 DEF Peer
  <2>2. ASSUME NEW f \in Frame, Reply(f) PROVE l2in' \in Seq(Frame)
    BY <1>1, <2>2, AppendFacts DEF Reply
  <2>3. ASSUME Hangup PROVE BusType' /\ PeerWaits'
    <3>1. l2in' \in Seq(Frame)
      BY <2>2, <2>3, EmittedFrames DEF Hangup
    <3> QED
      BY <1>1, <2>1, <2>3, <3>1 DEF Hangup, BusType, PeerWaits
  <2>4. ASSUME NEW type, PeerTake(type) PROVE l3out # <<>> /\ Head(l3out) \in Frame /\ Head(l3out).type = type
    BY <1>1, <2>4, TailElems DEF PeerTake, LinksTyped
  <2>5. CASE PeerConnect \/ PeerDisconnect
    <3>1. /\ UNCHANGED <<psend, precv, packed, pgot, l2in>>
          /\ pmode' \in {"idle", "over", pmode}
      BY <2>5 DEF PeerConnect, PeerDisconnect
    <3> QED
      BY <1>1, <2>1, <3>1 DEF BusType, PeerWaits, PeerData
  <2>6. CASE PeerRecv
    <3>1. Head(l3out) \in Frame /\ Head(l3out).type = "DATA"
      BY <2>4, <2>6 DEF PeerRecv
    <3>2. Head(l3out).serno \in SerNo /\ Head(l3out).apdu \in Apdu
      BY <3>1, FrameFields
    <3>3. /\ [type |-> "ACK", serno |-> Head(l3out).serno] \in Frame
          /\ [type |-> "NACK", serno |-> Head(l3out).serno] \in Frame
      BY <3>2, EmittedFrames, HarmlessFrames
    <3>4. CASE /\ pgot' = Append(pgot, Head(l3out).apdu) /\ precv' = NextNo(precv)
               /\ Reply([type |-> "ACK", serno |-> Head(l3out).serno])
               /\ UNCHANGED <<pmode, psend, preps, packed>>
      <4>1. pgot' \in Seq(Apdu) /\ precv' \in SerNo /\ l2in' \in Seq(Frame)
        BY <1>1, <2>2, <3>2, <3>3, <3>4, AppendFacts, SerNoClosed
      <4> QED
        BY <1>1, <2>1, <3>4, <4>1 DEF BusType, PeerWaits, PeerData
    <3>5. CASE /\ \/ Reply([type |-> "ACK", serno |-> Head(l3out).serno])
                  \/ Reply([type |-> "NACK", serno |-> Head(l3out).serno])
               /\ UNCHANGED pvars
      BY <1>2, <2>2, <3>3, <3>5
    <3> QED
      BY <2>3, <2>6, <3>4, <3>5 DEF PeerRecv
  <2>7. CASE PeerAck
    <3>1. CASE /\ pmode' = "idle" /\ psend' = NextNo(psend) /\ packed' = packed + 1
               /\ UNCHANGED <<precv, preps, pgot, l2in>>
      BY <1>1, <2>1, <3>1, SerNoClosed DEF BusType, PeerWaits
    <3> QED
      BY <2>3, <2>7, <3>1 DEF PeerAck
  <2>8. CASE PeerSend \/ PeerTimeout
    <3>1. CASE PeerTransmit /\ pmode' = "wait" /\ UNCHANGED <<psend, precv, packed, pgot>>
      <4>1. packed < Len(PeerData) /\ pmode' = "wait"
        BY <1>1, <2>8, <3>1 DEF PeerSend, PeerTimeout, PeerWaits
      <4>2. [type |-> "DATA", serno |-> psend, apdu |-> PeerData[packed + 1]] \in Frame
        BY <1>1, <4>1, EmittedFrames DEF LinksTyped
      <4>3. l2in' \in Seq(Frame)
        BY <2>2, <3>1, <4>2 DEF PeerTransmit
      <4> QED
        BY <1>1, <2>1, <3>1, <4>1, <4>3 DEF BusType, PeerWaits, PeerData
    <3> QED
      BY <2>3, <2>8, <3>1 DEF PeerSend, PeerTimeout
  <2> QED
    BY <1>5, <2>5, <2>6, <2>7, <2>8 DEF Peer
<1>6. CASE UNCHANGED busvars
  BY <1>1, <1>2, <1>6 DEF busvars
<1> QED
  BY <1>3, <1>4, <1>5, <1>6 DEF BusNext

LEMMA BusInvInit == BusInit => BusInv
<1> SUFFICES ASSUME BusInit PROVE BusInv
  OBVIOUS
<1>1. /\ Init /\ exchange \in Exchanges /\ pmode = "closed" /\ psend = 0 /\ precv = 0
      /\ packed = 0 /\ pgot = <<>> /\ l2in = <<>>
  BY DEF BusInit
<1>2. /\ sendno = 0 /\ recvno = 0 /\ buf = <<>> /\ l3out = <<>> /\ sent = <<>> /\ acked = 0
      /\ received = <<>> /\ in = <<>>
  BY <1>1 DEF Init
<1>3. ThreadInv
  BY <1>1, <1>2, InitIInv DEF ThreadInv, SendQueueInv, SendQueueConserved, Started
<1>4. 0 \in SerNo /\ Num(0) = 0
  BY SerNoAssumption DEF SerNo, Num
<1>5. BusType /\ PeerWaits
  BY <1>1, <1>4 DEF BusType, PeerWaits
<1>6. PeerData \in Seq(Apdu)
  BY <1>1, BusAssumption DEF PeerData
<1>7. Numbers
  BY <1>1, <1>2, <1>4 DEF Numbers
<1>8. EndToEnd
  BY <1>1, <1>2, <1>6 DEF EndToEnd, IsPrefixOf
<1>9. Coming = <<>> /\ l3out = <<>>
  BY <1>1, <1>2 DEF Coming
<1>10. UserLink /\ PeerLink
  BY <1>1, <1>2, <1>6, <1>9
     DEF UserLink, PeerLink, LinkOK, InStep, DataOK, AcksOK, NewBehindOld
<1> QED
  BY <1>3, <1>5, <1>7, <1>8, <1>10 DEF BusInv, Links

LEMMA BusInvStep ==
  ASSUME BusInv, [BusNext]_busvars
  PROVE  BusInv'
<1>1. ThreadInv' /\ BusType' /\ PeerWaits'
  BY ThreadStep, PeerStep
<1>2. LinksTyped /\ LinksTyped'
  <2>1. LinksTyped
    BY BusTyped DEF BusInv
  <2>2. LinksTyped'
    BY <1>1, BusTyped, PTL
  <2> QED
    BY <2>1, <2>2
<1>3. Moves /\ PeerData' = PeerData
  BY BusNextMoves DEF PeerData
<1>4. Links'
  BY <1>2, <1>3, MovesKeepLinks DEF BusInv
<1> QED
  BY <1>1, <1>4 DEF BusInv

(* The inductive invariant of the two ends and of what is under way between *)
(* them, for every modulus, limit, exchange and bound.                     *)
THEOREM BusInvariance == BusSpec => []BusInv
<1>1. BusInit => BusInv
  BY BusInvInit
<1>2. BusInv /\ [BusNext]_busvars => BusInv'
  BY BusInvStep
<1> QED
  BY <1>1, <1>2, PTL DEF BusSpec

(* Send to read, through lost, repeated and late frames: each side gets,   *)
(* in order and once, a prefix of what the other submitted.                *)
THEOREM DeliveredInOrder == BusSpec => []EndToEnd
<1>1. BusInv => EndToEnd
  BY DEF BusInv, Links
<1> QED
  BY <1>1, BusInvariance, PTL

----------------------------------------------------------------------------
(* The contract: each move of the ends is a step of ReliableConnection, or *)
(* none.                                                                   *)
Submitted == [s \in {"user", "peer"} |-> IF s = "user" THEN sent ELSE PeerData]
DeliveredTo == [s \in {"user", "peer"} |-> IF s = "user" THEN Len(pgot) ELSE Len(received)]
Confirmed == [s \in {"user", "peer"} |-> IF s = "user" THEN acked ELSE packed]

LEMMA MovesImplement ==
  ASSUME LinksTyped, Links, LinksTyped', PeerData' = PeerData, Moves
  PROVE  [Contract!RNext]_(Contract!rvars)
<1>1. ASSUME UNCHANGED <<Submitted, DeliveredTo, Confirmed>>
      PROVE  [Contract!RNext]_(Contract!rvars)
  BY <1>1 DEF Contract!rvars, Submitted, DeliveredTo, Confirmed
<1>2. CASE Quiet \/ UserSpeaks \/ PeerSpeaks \/ UserTransmits \/ PeerTransmits
  <2>1. UNCHANGED <<sent, acked, pgot, packed, received>>
    BY <1>2 DEF Quiet, UserSpeaks, PeerSpeaks, UserTransmits, PeerTransmits, ends
  <2> QED
    BY <1>1, <2>1 DEF Submitted, DeliveredTo, Confirmed
<1>3. CASE UserSubmits
  <2>1. PICK x \in Apdu : sent' = Append(sent, x)
    BY <1>3 DEF UserSubmits
  <2>2. UNCHANGED <<acked, pgot, packed, received>>
    BY <1>3 DEF UserSubmits
  <2>3. Contract!Submit("user")
    BY <2>1, <2>2 DEF Contract!Submit
  <2> QED
    BY <2>3 DEF Contract!RNext
<1>4. CASE UserTakes
  <2>1. /\ packed = Len(received) /\ Len(received) < Len(PeerData)
        /\ Len(received') = Len(received) + 1
    BY <1>4, UserTakesMove
  <2>2. UNCHANGED <<sent, acked, pgot, packed>>
    BY <1>4 DEF UserTakes
  <2>3. Contract!DeliverNext("peer")
    BY <2>1, <2>2 DEF Contract!DeliverNext
  <2> QED
    BY <2>3 DEF Contract!RNext
<1>5. CASE PeerTakes
  <2>1. /\ acked = Len(pgot) /\ Len(pgot) < Len(sent) /\ Len(pgot') = Len(pgot) + 1
    BY <1>5, PeerTakesMove
  <2>2. UNCHANGED <<sent, acked, packed, received>>
    BY <1>5 DEF PeerTakes
  <2>3. Contract!DeliverNext("user")
    BY <2>1, <2>2 DEF Contract!DeliverNext
  <2> QED
    BY <2>3 DEF Contract!RNext
<1>6. CASE UserLearns
  <2>1. acked < Len(pgot) /\ acked' = acked + 1
    BY <1>6, UserLearnsMove DEF UserLearns, LinksTyped
  <2>2. UNCHANGED <<sent, pgot, packed, received>>
    BY <1>6 DEF UserLearns
  <2>3. Contract!Confirm("user")
    BY <2>1, <2>2 DEF Contract!Confirm
  <2> QED
    BY <2>3 DEF Contract!RNext
<1>7. CASE PeerLearns
  <2>1. packed < Len(received) /\ packed' = packed + 1
    BY <1>7, PeerLearnsMove DEF PeerLearns, LinksTyped
  <2>2. UNCHANGED <<sent, acked, pgot, received>>
    BY <1>7 DEF PeerLearns
  <2>3. Contract!Confirm("peer")
    BY <2>1, <2>2 DEF Contract!Confirm
  <2> QED
    BY <2>3 DEF Contract!RNext
<1> QED
  BY <1>2, <1>3, <1>4, <1>5, <1>6, <1>7 DEF Moves

(* T_Connection and a device that keeps the rules of layer 4 implement     *)
(* ReliableConnection: nothing is delivered ahead, and nothing leaves the  *)
(* sender's queue that was not delivered.                                  *)
THEOREM ContractImplemented == BusSpec => ContractSpec
<1>1. BusInit => Contract!RInit
  <2> SUFFICES ASSUME BusInit PROVE Contract!RInit
    OBVIOUS
  <2>1. /\ sent = <<>> /\ acked = 0 /\ received = <<>> /\ pgot = <<>> /\ packed = 0
        /\ PeerData \in Seq(Apdu)
    BY BusAssumption DEF BusInit, Init, PeerData
  <2> QED
    BY <2>1 DEF Contract!RInit
<1>2. ASSUME BusInv, BusInv', [BusNext]_busvars
      PROVE  [Contract!RNext]_(Contract!rvars)
  <2>1. LinksTyped /\ Links /\ ThreadInv' /\ BusType'
    BY <1>2, BusTyped DEF BusInv
  <2>a. LinksTyped'
    BY <2>1, BusTyped, PTL
  <2>2. Moves /\ PeerData' = PeerData
    BY <1>2, BusNextMoves DEF PeerData
  <2> QED
    BY <2>1, <2>a, <2>2, MovesImplement
<1> QED
  BY <1>1, <1>2, BusInvariance, PTL DEF BusSpec, ContractSpec, Contract!RSpec

=============================================================================
