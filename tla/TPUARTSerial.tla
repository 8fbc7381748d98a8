---------------------------- MODULE TPUARTSerial ----------------------------
(***************************************************************************)
(* TPUARTSerialLayer2Driver (src/eibd/backend/tpuartserial.cpp) and the    *)
(* chip at the other end of the line.                                      *)
(*                                                                         *)
(* The chip passes the bytes of a bus frame on while they arrive.  A frame *)
(* is cut into three pieces, at the places where the driver looks at the   *)
(* length of its buffer: below the address (6 or 7 bytes), below the end,  *)
(* and the rest.  Everything else is one byte: the confirmation (8B) and   *)
(* the refusal (0B) of a telegram, the state of the chip, an acknowledge   *)
(* seen on the bus, and any other.  "rest" is what remains of a piece that *)
(* lost its first byte: its bytes may look like anything.                  *)
(***************************************************************************)
EXTENDS Integers, Sequences, FiniteSets

CONSTANTS
  MaxTelegram,   \* bound: telegrams to send
  MaxFrame,      \* bound: frames from the bus
  MaxLoad,       \* bound: both together
  MaxFault,      \* bound: frames cut off, answers lost, hangs of the chip
  MaxQueued,     \* bound: bytes (units) waiting on the line
  NackLimit,     \* 3: refusals after which a telegram stays
  TimeoutLimit   \* 3: failures after which a telegram without an answer is given up

ASSUME TSAssumption ==
  /\ {MaxTelegram, MaxFrame, MaxLoad, MaxFault, MaxQueued} \subseteq Nat
  /\ NackLimit \in Nat \ {0} /\ TimeoutLimit \in Nat \ {0}

VARIABLES
  tosend,        \* inqueue of the class; in_signal counts it
  monitor,       \* member mode: 1 in busmonitor mode
  in,            \* the receive buffer
  to, waitconfirm, acked, retry, watch,  \* locals of Run
  over,          \* the timers that the last wait found elapsed
  at,            \* where the thread is: "wait", "parse", "stopped"
  line,          \* bytes under way from the chip
  chip,          \* the chip: see TSInit
  faults,
  (* history *)
  queuedT,       \* telegrams handed over by the user
  writes,        \* times the telegram was written to the chip
  busAcks        \* acknowledgements written while the frame arrived

tsvars == <<tosend, monitor, in, to, waitconfirm, acked, retry, watch, over, at,
            line, chip, faults, queuedT, writes, busAcks>>

Piece(f, p) == [kind |-> "piece", frame |-> f, part |-> p]
Byte(k) == [kind |-> k]
Single == {"confirm", "nack", "state", "busack", "other"}

TSInit ==
  /\ tosend = <<>> /\ monitor = 0 /\ in = <<>>
  /\ to = FALSE /\ waitconfirm = FALSE /\ acked = FALSE /\ retry = 0 /\ watch = 0
  /\ over = {} /\ at = "wait"
  /\ line = <<>> /\ faults = 0
  /\ chip = [hung |-> FALSE, busy |-> 0,      \* telegram being transmitted
             asked |-> FALSE,                 \* state requested
             frame |-> 0, part |-> 3]         \* last piece passed on
  /\ queuedT = 0
  /\ writes = [n \in 1 .. MaxTelegram |-> 0]
  /\ busAcks = [f \in 0 .. MaxFrame |-> 0]

chipSide == <<line, chip, faults>>
history == <<queuedT, writes, busAcks>>

----------------------------------------------------------------------------
(* Calls of Layer3. *)
Send_L_Data ==
  /\ queuedT < MaxTelegram /\ queuedT + chip.frame < MaxLoad /\ at # "stopped"
  /\ queuedT' = queuedT + 1
  /\ tosend' = Append(tosend, queuedT + 1)
  /\ UNCHANGED <<monitor, in, to, waitconfirm, acked, retry, watch, over, at, chipSide,
                 writes, busAcks>>

(* enterBusmonitor and leaveBusmonitor write their command at once; the    *)
(* reset that leaves the mode also revives the chip.                       *)
SwitchMode ==
  /\ at # "stopped" /\ faults < MaxFault /\ faults' = faults + 1
  /\ monitor' = 1 - monitor
  /\ chip' = IF monitor = 1 THEN [chip EXCEPT !.hung = FALSE, !.busy = 0, !.asked = FALSE] ELSE chip
  /\ UNCHANGED <<tosend, in, to, waitconfirm, acked, retry, watch, over, at, line, history>>

StopDriver ==
  /\ at = "wait" /\ at' = "stopped"
  /\ tosend' = <<>>
  /\ UNCHANGED <<monitor, in, to, waitconfirm, acked, retry, watch, over, chipSide, history>>

----------------------------------------------------------------------------
(* The thread: Run. *)

Armed == {k \in {"timeout", "sendtimeout", "watchdog"} :
            \/ k = "timeout" /\ to
            \/ k = "sendtimeout" /\ waitconfirm
            \/ k = "watchdog" /\ watch # 0}

(* pth_read_ev returns with what has arrived, for a telegram to send, or   *)
(* when a timer of the ring has elapsed; a timer once found elapsed stays  *)
(* so until it is armed again.                                             *)
ReadLine ==
  /\ at = "wait" /\ at' = "parse"
  /\ \E new \in SUBSET (Armed \ over) :
       /\ \/ line # <<>>
          \/ (in = <<>> /\ ~waitconfirm /\ tosend # <<>>)
          \/ (over \cap Armed) \cup new # {}
       /\ over' = (over \cap Armed) \cup new
  /\ in' = in \o line /\ line' = <<>>
  /\ UNCHANGED <<tosend, monitor, to, waitconfirm, acked, retry, watch, chip, faults, history>>

At(kind) == at = "parse" /\ in # <<>> /\ Head(in).kind = kind
Consume(n) == in' = SubSeq(in, n + 1, Len(in)) /\ to' = FALSE

LeaveQueue == tosend' = Tail(tosend)

TakesAnyAnswer == tosend # <<>>
TakesAnswer == waitconfirm

Confirmed ==
  /\ At("confirm") /\ Consume(1)
  /\ IF TakesAnswer
     THEN waitconfirm' = FALSE /\ LeaveQueue /\ retry' = 0
     ELSE UNCHANGED <<waitconfirm, tosend, retry>>
  /\ UNCHANGED <<monitor, acked, watch, over, at, chipSide, history>>

Refused ==
  /\ At("nack") /\ Consume(1)
  /\ waitconfirm' = FALSE
  /\ IF TakesAnswer
     THEN IF retry + 1 > NackLimit
          THEN LeaveQueue /\ retry' = 0
          ELSE retry' = retry + 1 /\ UNCHANGED tosend
     ELSE UNCHANGED <<tosend, retry>>
  /\ UNCHANGED <<monitor, acked, watch, over, at, chipSide, history>>

StateReport ==
  /\ At("state") /\ Consume(1)
  /\ watch' = 2 /\ over' = over \ {"watchdog"}
  /\ UNCHANGED <<tosend, monitor, waitconfirm, acked, retry, at, chipSide, history>>

OtherByte ==
  /\ (At("busack") \/ At("other"))
  /\ Consume(1)
  /\ acked' = (acked /\ At("busack"))
  /\ UNCHANGED <<tosend, monitor, waitconfirm, retry, watch, over, at, chipSide, history>>

(* How much of a frame is there, counted from its control byte: the bytes  *)
(* behind it count, whatever they are part of.                             *)
Pieces == {i \in DOMAIN in : in[i].kind \in {"piece", "rest"}}
EndOfFrame == CHOOSE i \in Pieces : Cardinality({j \in Pieces : j <= i}) = 3

(* A control byte without enough behind it: wait 300 ms, then forget the   *)
(* byte.  The continue statement of the code leaves to as it is.           *)
Remnants == {<<>>} \cup {<<Byte("rest")>> : f \in {Head(in).frame} \ {0}}
AwaitMore ==
  IF "timeout" \in over /\ to
  THEN /\ in' \in {r \o Tail(in) : r \in Remnants}
       /\ UNCHANGED <<to, over, at>>
  ELSE /\ to' = TRUE
       /\ over' = IF to THEN over ELSE over \ {"timeout"}
       /\ at' = "end"
       /\ UNCHANGED in

SendAckAlways == busAcks' = [busAcks EXCEPT ![Head(in).frame] = @ + 1]

SendAck ==
  IF acked THEN UNCHANGED busAcks
  ELSE busAcks' = [busAcks EXCEPT ![Head(in).frame] = @ + 1]

FramePiece ==
  /\ At("piece") /\ Head(in).part = 1
  /\ \/ /\ Cardinality(Pieces) = 1
        /\ AwaitMore /\ UNCHANGED <<acked, busAcks>>
     \/ /\ Cardinality(Pieces) = 2
        /\ SendAck /\ acked' = TRUE /\ AwaitMore
     \/ /\ Cardinality(Pieces) > 2 /\ SendAck /\ acked' = FALSE
        /\ Consume(EndOfFrame) /\ UNCHANGED <<over, at>>
  /\ UNCHANGED <<tosend, monitor, waitconfirm, retry, watch, chipSide, queuedT, writes>>

(* Bytes in the middle of a frame, without its head. *)
RestBytes ==
  /\ At("rest") \/ (At("piece") /\ Head(in).part > 1)
  /\ \E r \in {Byte(k) : k \in Single} \cup {Piece(0, 1)} : in' = <<r>> \o Tail(in)
  /\ UNCHANGED <<tosend, monitor, to, waitconfirm, acked, retry, watch, over, at, chipSide,
                 history>>

(* The end of the loop's body: the timers, then the next telegram or the   *)
(* question for the state of the chip.                                     *)
SendTimedOutNever == FALSE
SendTimedOut == waitconfirm /\ "sendtimeout" \in over
GivesUp == SendTimedOut /\ retry + 1 >= TimeoutLimit
WatchOver == watch # 0 /\ "watchdog" \in over
ResetsAfterAnswer == watch = 2 /\ WatchOver /\ monitor = 0
ResetsChip == watch = 1 /\ WatchOver /\ monitor = 0
MayAsk(watch1) == watch1 = 0 /\ monitor = 0 /\ ~to

EndOfTurn ==
  /\ at = "end" \/ (at = "parse" /\ in = <<>>)
  /\ at' = "wait"
  /\ LET wait1 == waitconfirm /\ ~SendTimedOut
         queue1 == IF GivesUp THEN Tail(tosend) ELSE tosend
         watch1 == IF WatchOver THEN 0 ELSE watch
         reset == ResetsChip
         chip1 == IF reset THEN [chip EXCEPT !.hung = FALSE, !.busy = 0, !.asked = FALSE] ELSE chip
         write == in = <<>> /\ queue1 # <<>> /\ ~wait1
         ask == ~write /\ in = <<>> /\ ~wait1 /\ MayAsk(watch1)
     IN
     /\ tosend' = queue1
     /\ retry' = IF SendTimedOut THEN retry + 1 ELSE retry
     /\ waitconfirm' = (wait1 \/ write)
     /\ watch' = IF ask THEN 1 ELSE watch1
     /\ over' = over \cap ({"timeout" : b \in {to} \cap {TRUE}}
                          \cup {"watchdog" : w \in {watch1} \ {0}})
     /\ writes' = IF write THEN [writes EXCEPT ![Head(queue1)] = @ + 1] ELSE writes
     /\ chip' = IF chip1.hung \/ monitor = 1 THEN chip1
                ELSE [chip1 EXCEPT !.busy = IF write THEN Head(queue1) ELSE @,
                                   !.asked = @ \/ ask]
  /\ UNCHANGED <<monitor, in, to, acked, line, faults, queuedT, busAcks>>

RunTS == ReadLine \/ Confirmed \/ Refused \/ StateReport \/ OtherByte \/ FramePiece
         \/ RestBytes \/ EndOfTurn

----------------------------------------------------------------------------
(* The chip. *)
Emit(b) == Len(line) < MaxQueued /\ line' = Append(line, b)
Fault == faults < MaxFault /\ faults' = faults + 1
ChipOnly == UNCHANGED <<tosend, monitor, in, to, waitconfirm, acked, retry, watch, over, at, history>>

(* A piece of a frame; a frame that is cut off is followed by a new one. *)
ChipFrame ==
  /\ ~chip.hung
  /\ IF chip.part < 3
     THEN /\ chip' = [chip EXCEPT !.part = @ + 1] /\ Emit(Piece(chip.frame, chip.part + 1))
          /\ UNCHANGED faults
     ELSE /\ chip.frame < MaxFrame /\ queuedT + chip.frame < MaxLoad
          /\ chip' = [chip EXCEPT !.frame = @ + 1, !.part = 1]
          /\ Emit(Piece(chip.frame + 1, 1)) /\ UNCHANGED faults
  /\ ChipOnly

ChipCutOff ==
  /\ ~chip.hung /\ chip.part < 3 /\ Fault
  /\ chip' = [chip EXCEPT !.part = 3]
  /\ UNCHANGED line /\ ChipOnly

(* The end of a transmission: confirmed or refused, or the answer is lost. *)
ChipAnswer ==
  /\ ~chip.hung /\ chip.busy # 0
  /\ chip' = [chip EXCEPT !.busy = 0]
  /\ \/ Emit(Byte("confirm")) /\ UNCHANGED faults
     \/ Emit(Byte("nack")) /\ Fault
     \/ UNCHANGED line /\ Fault
  /\ ChipOnly

ChipState ==
  /\ ~chip.hung /\ chip.asked
  /\ chip' = [chip EXCEPT !.asked = FALSE]
  /\ Emit(Byte("state")) /\ UNCHANGED faults
  /\ ChipOnly

ChipHangs ==
  /\ ~chip.hung /\ Fault
  /\ chip' = [chip EXCEPT !.hung = TRUE, !.busy = 0, !.asked = FALSE, !.part = 3]
  /\ UNCHANGED line /\ ChipOnly

Chip == ChipFrame \/ ChipCutOff \/ ChipAnswer \/ ChipState \/ ChipHangs

TSNext == Send_L_Data \/ SwitchMode \/ StopDriver \/ RunTS \/ Chip

----------------------------------------------------------------------------
(* A telegram leaves the queue only after it was written, and it is        *)
(* written a limited number of times, although the counter of attempts     *)
(* outlives the telegram that is given up, and late answers are taken for  *)
(* those of the next one.  A frame that arrives is acknowledged at most    *)
(* once, although the flag outlives a frame that is cut off.               *)
Limit == IF NackLimit + 1 > TimeoutLimit THEN NackLimit + 1 ELSE TimeoutLimit
TelegramsAccounted ==
  /\ \A n \in 1 .. queuedT :
       /\ writes[n] <= Limit
       /\ (at # "stopped" /\ n <= queuedT - Len(tosend)) => writes[n] > 0
  /\ waitconfirm => (tosend # <<>> \/ at = "stopped")
  /\ \A f \in 1 .. MaxFrame : busAcks[f] <= 1

(* A chip that says nothing is noticed and reset. *)
HangIsNoticed == (chip.hung /\ ~to /\ watch # 0) ~> (~chip.hung \/ to \/ monitor = 1 \/ at = "stopped")
=============================================================================
