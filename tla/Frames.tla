------------------------------- MODULE Frames -------------------------------
(***************************************************************************)
(* A frame on its way through the daemon (lpdu.cpp and emi.cpp in          *)
(* src/eibd/libserver).  What the bus carries is read into an L_Data_PDU   *)
(* and written again in the form the next hop uses: as it is on the bus    *)
(* (L_Data_PDU::ToPacket and init), as cEMI (EIBnet/IP) or as EMI (EMI1    *)
(* and EMI2 interfaces).  The octets of the data count only by their       *)
(* number.                                                                 *)
(***************************************************************************)
EXTENDS Integers, Sequences, Bitwise, FiniteSetsExt

CONSTANTS
  Lengths,    \* octets of data of the frames
  MaxHops     \* bound: times a frame is passed on

VARIABLES
  frame,     \* the frame that was sent
  form,      \* how it is written: "bus", "cemi", "emi"
  octets,    \* <<>> while it is not
  taken,     \* what was read, "none" before
  hops,
  fault      \* an octet was changed on the bus

frvars == <<frame, form, octets, taken, hops, fault>>

Prio == {"low", "normal", "urgent", "system"}
Forms == {"bus", "cemi", "emi"}
Frame ==
  [prio : Prio, repeated : {0, 1}, group : {0, 1}, source : {0, 4353}, dest : {258, 65535},
   hopcount : {0, 6}, length : Lengths, valid : {1}]

----------------------------------------------------------------------------
(* The two directions of the priority are not inverse: each of the four    *)
(* functions that write uses the first table, the three that read the other. *)
PrioWritten == [low |-> 3, normal |-> 1, urgent |-> 2, system |-> 0]
PrioRead(n) == <<"system", "urgent", "normal", "low">>[n + 1]

(* Fields as octet, lowest bit, number of bits. *)
Place(at, low, width) == [at |-> at, low |-> low, width |-> width]
Bit(p, n) == (n % 2^p.width) * 2^p.low
Get(c, p) == (c[p.at + 1] \div 2^p.low) % 2^p.width

Standard ==
  [prio |-> Place(0, 2, 2), again |-> Place(0, 5, 1), group |-> Place(5, 7, 1),
   hopcount |-> Place(5, 4, 3), len |-> Place(5, 0, 4), source |-> 1, dest |-> 3,
   head |-> <<144, 0, 0, 0, 0, 0>>]
Extended ==
  [prio |-> Place(0, 2, 2), again |-> Place(0, 5, 1), group |-> Place(1, 7, 1),
   hopcount |-> Place(1, 4, 3), len |-> Place(6, 0, 8), source |-> 2, dest |-> 4,
   head |-> <<16, 0, 0, 0, 0, 0, 0>>]
CEMI(short) ==
  [prio |-> Place(2, 2, 2), again |-> Place(2, 5, 1), group |-> Place(3, 7, 1),
   hopcount |-> Place(3, 4, 3), len |-> Place(8, 0, 8), source |-> 4, dest |-> 6,
   head |-> <<41, 0, IF short THEN 144 ELSE 16, 0, 0, 0, 0, 0, 0>>]
EMI1 ==
  [prio |-> Place(1, 2, 2), again |-> Place(2, 0, 1), group |-> Place(6, 7, 1),
   hopcount |-> Place(6, 4, 3), len |-> Place(6, 0, 4), source |-> 2, dest |-> 4,
   head |-> <<41, 0, 0, 0, 0, 0, 0>>]

(* The head of the frame, and its data as zeros.  EMI leaves the source to *)
(* the interface and has no place for a repetition.                        *)
Fill(f, x) ==
  LET source == IF x = EMI1 THEN 0 ELSE f.source
      put(at) == MapThenSumSet(LAMBDA n : IF x[n].at # at THEN 0
                                 ELSE Bit(x[n], CASE n = "prio" -> PrioWritten[f.prio]
                                                  [] n = "again" -> IF x = EMI1 THEN 0 ELSE 1 - f.repeated
                                                  [] n = "len" -> f.length - 1
                                                  [] OTHER -> f[n]),
                               {"prio", "again", "group", "hopcount", "len"})
      word(at) ==
        CASE at = x.source -> source \div 256 [] at = x.source + 1 -> source % 256
          [] at = x.dest -> f.dest \div 256 [] at = x.dest + 1 -> f.dest % 256
          [] OTHER -> 0
  IN [i \in 1 .. Len(x.head) |-> x.head[i] + put(i - 1) + word(i - 1)]
       \o [i \in 1 .. f.length |-> 0]

ChecksumNot(c) == 0
Checksum(c) ==
  LET parity[i \in 0 .. Len(c)] == IF i = 0 THEN 0 ELSE parity[i - 1] ^^ c[i]
  IN 255 - parity[Len(c)]

ToBus(f) ==
  LET c == Fill(f, IF f.length - 1 <= 15 THEN Standard ELSE Extended) IN Append(c, Checksum(c))

WriteAs(x, f) ==
  CASE x = "bus" -> ToBus(f)
    [] x = "cemi" -> Fill(f, CEMI(f.length - 1 <= 15))
    [] x = "emi" -> Fill(f, EMI1)

----------------------------------------------------------------------------
Reject == [prio |-> "low", repeated |-> 0, group |-> 0, source |-> 0, dest |-> 0,
           hopcount |-> 0, length |-> 0, valid |-> 0]

Scan(c, x, length, valid) ==
  [prio |-> PrioRead(Get(c, x.prio)), repeated |-> 1 - Get(c, x.again),
   group |-> Get(c, x.group), source |-> c[x.source + 1] * 256 + c[x.source + 2],
   dest |-> c[x.dest + 1] * 256 + c[x.dest + 2], hopcount |-> Get(c, x.hopcount),
   length |-> length, valid |-> valid]

(* init: a frame of 23 octets whose length does not fit is taken for the   *)
(* beginning of an extended one, with 8 octets of data.                    *)
FromBus(c) ==
  LET valid == IF Checksum(SubSeq(c, 1, Len(c) - 1)) = c[Len(c)] THEN 1 ELSE 0
      standard == c[1] >= 128
  IN IF Len(c) < 6 \/ c[1] % 4 # 0 \/ (c[1] \div 16) % 2 = 0 \/ (c[1] \div 64) % 2 = 1 THEN Reject
     ELSE IF standard
     THEN LET n == Get(c, Standard.len) + 1 IN
          IF n + 7 # Len(c) THEN Reject ELSE Scan(c, Standard, n, valid)
     ELSE IF c[2] % 16 # 0 \/ Len(c) < 7 THEN Reject
     ELSE LET n == c[7] + 1 IN
          IF n + 8 = Len(c) THEN Scan(c, Extended, n, valid)
          ELSE IF Len(c) = 23 THEN Scan(c, Extended, 8, valid)
          ELSE Reject

(* The octets of a cEMI frame lie behind the additional information. *)
FromCEMI(c) ==
  LET d == <<c[1], 0>> \o SubSeq(c, c[2] + 3, Len(c))
      x == CEMI(TRUE)
  IN IF Len(d) < 9 \/ Len(d) < 10 + d[9] THEN Reject ELSE Scan(d, x, d[9] + 1, 1)

FromEMI(c) ==
  LET n == Get(c, EMI1.len) + 1
      f == Scan(c, EMI1, IF n > Len(c) - 7 THEN Len(c) - 7 ELSE n, 1)
  IN IF Len(c) < 8 THEN Reject ELSE [f EXCEPT !.repeated = 0]

ReadAs(x, c) ==
  CASE x = "bus" -> FromBus(c) [] x = "cemi" -> FromCEMI(c) [] x = "emi" -> FromEMI(c)

----------------------------------------------------------------------------
FramesInit ==
  /\ frame = Reject /\ form = "bus" /\ octets = <<>> /\ taken = Reject /\ hops = 0 /\ fault = FALSE

Emit ==
  /\ frame = Reject
  /\ \E f \in Frame, x \in Forms : frame' = f /\ form' = x /\ octets' = WriteAs(x, f)
  /\ UNCHANGED <<taken, hops, fault>>

Take ==
  /\ octets # <<>>
  /\ taken' = ReadAs(form, octets) /\ octets' = <<>>
  /\ UNCHANGED <<frame, form, hops, fault>>

(* The daemon passes on what it has read; a frame with a wrong checksum is *)
(* shown to busmonitors only.                                              *)
PassFrame ==
  /\ octets = <<>> /\ taken.valid = 1 /\ hops < MaxHops
  /\ hops' = hops + 1
  /\ \E x \in Forms : form' = x /\ octets' = WriteAs(x, taken)
  /\ UNCHANGED <<frame, taken, fault>>

(* One octet is changed on the bus. *)
Disturb ==
  /\ form = "bus" /\ octets # <<>> /\ hops = 0 /\ ~fault /\ fault' = TRUE
  /\ \E i \in 1 .. Len(octets), b \in 0 .. 7 :
       octets' = [octets EXCEPT ![i] = @ ^^ (2^b)]
  /\ UNCHANGED <<frame, form, taken, hops>>

FramesNext == Emit \/ Take \/ PassFrame \/ Disturb

FramesSpec == FramesInit /\ [][FramesNext]_frvars

----------------------------------------------------------------------------
(* A frame arrives as it was sent, over however many forms: to whom it is, *)
(* how far it may go and how much data it has.  EMI keeps 16 octets of     *)
(* them and, like a frame that EMI has carried, no source.                 *)
FrameKept ==
  ~fault /\ taken # Reject =>
    /\ taken.dest = frame.dest /\ taken.group = frame.group
    /\ taken.hopcount = frame.hopcount /\ taken.valid = 1
    /\ taken.length = frame.length \/ (frame.length > 16 /\ taken.length <= 16)
    /\ taken.source \in {frame.source, 0}

(* A frame with one bit changed is never taken for a good one. *)
FaultSeen == fault /\ octets = <<>> => taken.valid = 0

(* "convert to a character array", "converts a character array to a Layer 2 *)
(* frame" (lpdu.h): a frame passed on has the priority it was sent with.   *)
PriorityKept == ~fault /\ taken # Reject => taken.prio = frame.prio
=============================================================================
