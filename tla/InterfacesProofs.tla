-------------------------- MODULE InterfacesProofs --------------------------
(***************************************************************************)
(* Proofs about the interfaces that leave the access to the bus to others, *)
(* for all devices, versions, sizes and bounds.                            *)
(***************************************************************************)
EXTENDS Interfaces, SequenceTheorems, TLAPS

----------------------------------------------------------------------------
(* Sequences that lose their head or get one more element.                 *)
LEMMA Appended ==
  ASSUME NEW S, NEW s \in Seq(S), NEW x \in S
  PROVE  /\ Append(s, x) \in Seq(S) /\ Append(s, x) # <<>>
         /\ Len(Append(s, x)) = Len(s) + 1 /\ Len(s) \in Nat
         /\ \A i \in DOMAIN s : i \in DOMAIN Append(s, x) /\ Append(s, x)[i] = s[i] /\ i < Len(s) + 1
         /\ \A i \in DOMAIN Append(s, x) : i \in DOMAIN s \/ i = Len(s) + 1
         /\ Len(s) + 1 \in DOMAIN Append(s, x) /\ Append(s, x)[Len(s) + 1] = x
OBVIOUS

LEMMA Tailed ==
  ASSUME NEW S, NEW q \in Seq(S), q # <<>>
  PROVE  /\ Head(q) \in S /\ Head(q) = q[1] /\ 1 \in DOMAIN q
         /\ Tail(q) \in Seq(S) /\ Len(Tail(q)) = Len(q) - 1 /\ Len(q) \in Nat
         /\ \A i \in DOMAIN Tail(q) : i + 1 \in DOMAIN q /\ Tail(q)[i] = q[i + 1] /\ i + 1 # 1
         /\ \A i, j \in DOMAIN Tail(q) : i # j => i + 1 # j + 1
OBVIOUS

----------------------------------------------------------------------------
(* BCU1.  The packets are numbered in the order of submission: those that  *)
(* left the queue are 1, 2, ... up to the one at its head, and the unit    *)
(* has got nothing but these and perhaps the head.                         *)
BCUQueue ==
  /\ inqueue \in Seq(APacket) /\ bgone \in Seq(Nat)
  /\ \A i \in DOMAIN bgone : bgone[i] = i
  /\ \A i \in DOMAIN inqueue : inqueue[i] = BCUPacket(Len(bgone) + i)
  /\ submitted = Len(bgone) + Len(inqueue) /\ submitted <= MaxSubmit
  /\ send_empty \in {0, 1} /\ (send_empty = 1 <=> inqueue = <<>>)
  /\ bpc \in {"write", "sending"} => inqueue # <<>>

BCUHas ==
  /\ unitGot \in Seq(Nat)
  /\ \A j \in DOMAIN unitGot : unitGot[j] <= Len(bgone) + 1
  /\ \A i, j \in DOMAIN unitGot : i < j => unitGot[i] <= unitGot[j]
  /\ \A i \in DOMAIN bgone : \E j \in DOMAIN unitGot : unitGot[j] = i

BCUHeard ==
  /\ bcuGot \in Seq(Nat) /\ unitSays \in Nat
  /\ \A j \in DOMAIN bcuGot : bcuGot[j] < unitSays
  /\ \A i, j \in DOMAIN bcuGot : i < j => bcuGot[i] < bcuGot[j]

BCUInv == BCUQueue /\ BCUHas /\ BCUHeard

LEMMA BCUStarts == BCUInit => BCUInv /\ APipe!PipeInit
BY MaxSubmitAssumption
   DEF BCUInit, ApiInit, BCUInv, BCUQueue, BCUHas, BCUHeard, APipe!PipeInit

(* A sequence of numbers in order to which one is appended that none exceeds. *)
InOrder(s) == \A i, j \in DOMAIN s : i < j => s[i] <= s[j]

LEMMA AppendedInOrder ==
  ASSUME NEW s \in Seq(Nat), InOrder(s), NEW n \in Nat, \A j \in DOMAIN s : s[j] <= n
  PROVE  /\ Append(s, n) \in Seq(Nat) /\ InOrder(Append(s, n))
         /\ \A j \in DOMAIN Append(s, n) : Append(s, n)[j] <= n
         /\ \A j \in DOMAIN s : j \in DOMAIN Append(s, n) /\ Append(s, n)[j] = s[j]
         /\ Len(s) + 1 \in DOMAIN Append(s, n) /\ Append(s, n)[Len(s) + 1] = n
<1> DEFINE t == Append(s, n)
<1>1. /\ t \in Seq(Nat) /\ DOMAIN t = 1 .. Len(s) + 1
      /\ \A j \in DOMAIN s : j \in DOMAIN t /\ t[j] = s[j]
      /\ t[Len(s) + 1] = n
  OBVIOUS
<1>2. \A j \in DOMAIN t : j \in DOMAIN s \/ j = Len(s) + 1
  BY <1>1
<1> HIDE DEF t
<1>3. \A j \in DOMAIN t : t[j] <= n
  BY <1>1, <1>2
<1>4. \A i, j \in DOMAIN t : i < j => i \in DOMAIN s
  BY <1>1
<1>5. InOrder(t)
  BY <1>1, <1>2, <1>3, <1>4 DEF InOrder
<1> QED
  BY <1>1, <1>3, <1>5 DEF t

(* The head of one sequence moved to the end of another: together they stay *)
(* the same.                                                               *)
LEMMA HeadMoves ==
  ASSUME NEW S, NEW s \in Seq(S), NEW q \in Seq(S), q # <<>>
  PROVE  /\ Append(s, Head(q)) \in Seq(S) /\ Tail(q) \in Seq(S)
         /\ Append(s, Head(q)) \o Tail(q) = s \o q
<1> DEFINE h == Head(q)
           r == Tail(q)
<1>1. h \in S /\ r \in Seq(S)
  OBVIOUS
<1>2. Append(s, h) \in Seq(S) /\ <<h>> \in Seq(S)
  BY <1>1
<1>3. <<h>> \o r = q
  <2>1. /\ <<h>> \o r \in Seq(S) /\ Len(<<h>> \o r) = Len(q)
        /\ \A i \in 1 .. Len(q) : (<<h>> \o r)[i] = q[i]
    BY <1>1
  <2>2. <<h>> \o r \in [1 .. Len(q) -> S] /\ q \in [1 .. Len(q) -> S]
    BY <2>1, LenProperties
  <2>3. \A x, y \in [1 .. Len(q) -> S] : (\A i \in 1 .. Len(q) : x[i] = y[i]) => x = y
    OBVIOUS
  <2> HIDE DEF h, r
  <2> QED
    BY <2>1, <2>2, <2>3, Zenon
<1> HIDE DEF h, r
<1>4. Append(s, h) \o r = s \o (<<h>> \o r)
  <2>1. Append(s, h) = s \o <<h>>
    BY <1>1, AppendIsConcat
  <2>2. (s \o <<h>>) \o r = s \o (<<h>> \o r)
    BY <1>1, <1>2, ConcatAssociative
  <2> QED
    BY <2>1, <2>2
<1> QED
  BY <1>1, <1>2, <1>3, <1>4 DEF h, r

(* What an action of a user or a thread does to the queue.                 *)
PutsPacket == \E p \in APacket : inqueue' = Append(inqueue, p) /\ send_empty' = 0
TakesHead == inqueue # <<>> /\ Sent
LeavesQueue == UNCHANGED <<inqueue, send_empty>>

LEMMA BCUPuts ==
  ASSUME BCUInv, BCUSend_Packet
  PROVE  BCUInv' /\ PutsPacket
<1> DEFINE p == BCUPacket(submitted + 1)
<1>1. /\ inqueue' = Append(inqueue, p) /\ send_empty' = 0 /\ submitted' = submitted + 1
      /\ submitted < MaxSubmit /\ UNCHANGED bcuown
  BY DEF BCUSend_Packet, Submit, Put
<1>2. submitted \in Nat /\ submitted + 1 \in 1 .. MaxSubmit
  BY <1>1, MaxSubmitAssumption DEF BCUInv, BCUQueue
<1>3. p \in APacket
  BY <1>2 DEF APacket
<1>4. BCUQueue'
  <2>1. inqueue' \in Seq(APacket) /\ Len(inqueue') = Len(inqueue) + 1 /\ inqueue' # <<>>
    BY <1>1, <1>3 DEF BCUInv, BCUQueue
  <2>2. ASSUME NEW i \in DOMAIN inqueue'
        PROVE  inqueue'[i] = BCUPacket(Len(bgone) + i)
    <3>1. i \in 1 .. Len(inqueue) + 1
      BY <2>1
    <3>2. CASE i = Len(inqueue) + 1
      BY <1>1, <3>2 DEF BCUInv, BCUQueue
    <3>3. CASE i # Len(inqueue) + 1
      BY <1>1, <3>1, <3>3 DEF BCUInv, BCUQueue
    <3> QED
      BY <3>2, <3>3
  <2> QED
    BY <1>1, <1>2, <2>1, <2>2 DEF BCUInv, BCUQueue, bcuown
<1> QED
  BY <1>1, <1>3, <1>4 DEF BCUInv, BCUHas, BCUHeard, bcuown, PutsPacket

(* The thread is done with the head, which the unit has got at last.       *)
LEMMA BCUTakes ==
  ASSUME BCUInv, inqueue # <<>>, Sent, Gone, bpc' = "wait",
         unitGot' = Append(unitGot, Head(inqueue).n)
  PROVE  BCUQueue' /\ BCUHas'
<1>1. Head(inqueue).n = Len(bgone) + 1 /\ Len(bgone) \in Nat
  BY DEF BCUInv, BCUQueue, BCUPacket
<1>2. /\ inqueue' = Tail(inqueue) /\ bgone' = Append(bgone, Len(bgone) + 1)
      /\ unitGot' = Append(unitGot, Len(bgone) + 1)
      /\ submitted' = submitted /\ send_empty' = IF inqueue' = <<>> THEN 1 ELSE send_empty
  BY <1>1 DEF Sent, Gone
<1>3. BCUQueue'
  <2>1. /\ inqueue' \in Seq(APacket) /\ Len(inqueue') = Len(inqueue) - 1
        /\ \A i \in DOMAIN inqueue' : i + 1 \in DOMAIN inqueue /\ inqueue'[i] = inqueue[i + 1]
    BY <1>2 DEF BCUInv, BCUQueue
  <2>2. /\ bgone' \in Seq(Nat) /\ Len(bgone') = Len(bgone) + 1
        /\ \A i \in DOMAIN bgone' : bgone'[i] = i
    <3>1. bgone \in Seq(Nat) /\ Len(bgone) + 1 \in Nat /\ \A i \in DOMAIN bgone : bgone[i] = i
      BY <1>1 DEF BCUInv, BCUQueue
    <3> QED
      BY <1>2, <3>1, Appended
  <2>3. \A i \in DOMAIN inqueue' : inqueue'[i] = BCUPacket(Len(bgone') + i)
    BY <2>1, <2>2, <1>1 DEF BCUInv, BCUQueue
  <2>4. submitted' = Len(bgone') + Len(inqueue') /\ submitted' <= MaxSubmit
    <3>1. Len(inqueue) \in Nat
      BY DEF BCUInv, BCUQueue
    <3> QED
      BY <1>1, <1>2, <2>1, <2>2, <3>1 DEF BCUInv, BCUQueue
  <2>5. send_empty' \in {0, 1} /\ (send_empty' = 1 <=> inqueue' = <<>>)
    BY <1>2 DEF BCUInv, BCUQueue
  <2> QED
    BY <2>1, <2>2, <2>3, <2>4, <2>5 DEF BCUQueue
<1>4. BCUHas'
  <2>1. \A j \in DOMAIN unitGot : unitGot[j] <= Len(bgone) + 1
    BY DEF BCUInv, BCUHas
  <2>2. unitGot \in Seq(Nat) /\ InOrder(unitGot)
    BY DEF BCUInv, BCUHas, InOrder
  <2>3. /\ unitGot' \in Seq(Nat) /\ InOrder(unitGot')
        /\ \A j \in DOMAIN unitGot' : unitGot'[j] <= Len(bgone) + 1
        /\ \A j \in DOMAIN unitGot : j \in DOMAIN unitGot' /\ unitGot'[j] = unitGot[j]
        /\ Len(unitGot) + 1 \in DOMAIN unitGot' /\ unitGot'[Len(unitGot) + 1] = Len(bgone) + 1
    BY <1>1, <1>2, <2>1, <2>2, AppendedInOrder
  <2>4. Len(bgone') = Len(bgone) + 1
    BY <1>1, <1>2 DEF BCUInv, BCUQueue
  <2>5. \A i \in DOMAIN bgone' : i \in DOMAIN bgone \/ i = Len(bgone) + 1
    BY <1>2 DEF BCUInv, BCUQueue
  <2>6. \A i \in DOMAIN bgone' : \E j \in DOMAIN unitGot' : unitGot'[j] = i
    BY <2>3, <2>5 DEF BCUInv, BCUHas
  <2>7. \A j \in DOMAIN unitGot' : unitGot'[j] \in Nat
    BY <2>3
  <2>8. \A j \in DOMAIN unitGot' : unitGot'[j] <= Len(bgone') + 1
    BY <1>1, <2>3, <2>4, <2>7
  <2> QED
    BY <2>3, <2>6, <2>8 DEF BCUHas, InOrder
<1> QED
  BY <1>3, <1>4

LEMMA BCUStep ==
  ASSUME BCUInv, BCUNext
  PROVE  BCUInv' /\ (PutsPacket \/ TakesHead \/ LeavesQueue)
<1>1. CASE BCUSend_Packet
  BY <1>1, BCUPuts
<1>2. CASE BCUGet_Packet \/ BCUStop \/ SerialRestart
  BY <1>2 DEF BCUGet_Packet, TakePacket, BCUStop, SerialRestart, api, bcuown, BCUInv, BCUQueue,
              BCUHas, BCUHeard, LeavesQueue
<1>3. ASSUME Hears PROVE BCUHeard' /\ UNCHANGED <<inqueue, send_empty, submitted>>
  <2>1. bcuGot' = Append(bcuGot, unitSays) /\ unitSays' = unitSays + 1
    BY <1>3 DEF Hears
  <2>2. /\ bcuGot' \in Seq(Nat) /\ Len(bcuGot') = Len(bcuGot) + 1
        /\ \A j \in DOMAIN bcuGot : bcuGot'[j] = bcuGot[j]
        /\ bcuGot'[Len(bcuGot) + 1] = unitSays
    BY <2>1 DEF BCUInv, BCUHeard
  <2>3. \A j \in DOMAIN bcuGot' : j \in DOMAIN bcuGot \/ j = Len(bcuGot) + 1
    BY <2>2 DEF BCUInv, BCUHeard
  <2> QED
    BY <1>3, <2>1, <2>2, <2>3 DEF Hears, Received, BCUInv, BCUHeard
<1>4. CASE SerialReceive
  BY <1>3, <1>4 DEF SerialReceive, BCUInv, BCUQueue, BCUHas, LeavesQueue
<1>5. CASE KernelRead
  <2>1. BCUHeard' /\ UNCHANGED <<inqueue, send_empty, submitted>>
    BY <1>3, <1>5 DEF KernelRead, api, BCUInv, BCUHeard
  <2>2. bpc' \in {"write", "sending"} => inqueue # <<>>
    BY <1>5 DEF KernelRead
  <2> QED
    BY <2>1, <2>2, <1>5 DEF KernelRead, BCUInv, BCUQueue, BCUHas, LeavesQueue
<1>6. CASE SerialError
  <2>1. UNCHANGED <<api, unitGot, bcuGot, bgone>> /\ bpc' = "error"
    BY <1>6 DEF SerialError
  <2>2. unitSays' \in Nat /\ unitSays' >= unitSays
    BY <1>6 DEF SerialError, BCUInv, BCUHeard
  <2> QED
    BY <2>1, <2>2 DEF api, BCUInv, BCUQueue, BCUHas, BCUHeard, LeavesQueue
<1>7. CASE KernelWrite
  BY <1>7 DEF KernelWrite, api, BCUInv, BCUQueue, BCUHas, BCUHeard, LeavesQueue
<1>8. CASE KernelSent
  <2>1. BCUQueue' /\ BCUHas' /\ inqueue # <<>> /\ Sent
    BY <1>8, BCUTakes DEF KernelSent, BCUInv, BCUQueue
  <2> QED
    BY <1>8, <2>1 DEF KernelSent, BCUInv, BCUHeard, TakesHead
<1>9. CASE SerialSend
  <2>1. /\ ~kernel /\ bpc = "wait" /\ inqueue # <<>>
        /\ UNCHANGED <<kernel, unitSays, bcuGot>>
    BY <1>9 DEF SerialSend
  <2>2. BCUHeard'
    BY <2>1 DEF BCUInv, BCUHeard
  <2>3. PICK hangs \in [1 .. PacketSize -> BOOLEAN] :
          LET good == {i \in 1 .. PacketSize : \A j \in 1 .. i : GoesOnAfter(hangs[j])}
              octets == {i \in 1 .. PacketSize : i = 1 \/ i - 1 \in good}
          IN /\ unitGot' = IF octets = 1 .. PacketSize
                           THEN Append(unitGot, Head(inqueue).n) ELSE unitGot
             /\ \/ good = 1 .. PacketSize /\ Sent /\ Gone /\ UNCHANGED <<bpc, mishaps>>
                \/ /\ good # 1 .. PacketSize /\ Mishap
                   /\ bpc' = "error" /\ UNCHANGED <<api, bgone>>
    BY <1>9 DEF SerialSend
  <2> DEFINE good == {i \in 1 .. PacketSize : \A j \in 1 .. i : GoesOnAfter(hangs[j])}
             octets == {i \in 1 .. PacketSize : i = 1 \/ i - 1 \in good}
  <2>4. good = 1 .. PacketSize => octets = 1 .. PacketSize
    BY BCU1Assumption
  <2> HIDE DEF good, octets
  <2>5. CASE good = 1 .. PacketSize /\ Sent /\ Gone /\ UNCHANGED <<bpc, mishaps>>
    <3>1. unitGot' = Append(unitGot, Head(inqueue).n)
      BY <2>3, <2>4, <2>5 DEF good, octets
    <3>2. BCUQueue' /\ BCUHas'
      BY <3>1, <2>1, <2>5, BCUTakes
    <3> QED
      BY <3>2, <2>1, <2>2, <2>5 DEF BCUInv, TakesHead
  <2>6. CASE bpc' = "error" /\ UNCHANGED <<api, bgone>>
    <3>1. unitGot' \in {unitGot, Append(unitGot, Head(inqueue).n)}
      BY <2>3
    <3>2. Head(inqueue).n = Len(bgone) + 1 /\ Len(bgone) \in Nat
      BY <2>1 DEF BCUInv, BCUQueue, BCUPacket
    <3>3. BCUHas'
      <4>1. CASE unitGot' = unitGot
        BY <4>1, <2>6 DEF BCUInv, BCUHas
      <4>2. CASE unitGot' = Append(unitGot, Len(bgone) + 1)
        <5>1. \A j \in DOMAIN unitGot : unitGot[j] <= Len(bgone) + 1
          BY DEF BCUInv, BCUHas
        <5>2. unitGot \in Seq(Nat) /\ InOrder(unitGot)
          BY DEF BCUInv, BCUHas, InOrder
        <5>3. /\ unitGot' \in Seq(Nat) /\ InOrder(unitGot')
              /\ \A j \in DOMAIN unitGot' : unitGot'[j] <= Len(bgone) + 1
              /\ \A j \in DOMAIN unitGot : j \in DOMAIN unitGot' /\ unitGot'[j] = unitGot[j]
          BY <3>2, <4>2, <5>1, <5>2, AppendedInOrder
        <5> QED
          BY <2>6, <5>3 DEF BCUInv, BCUHas, InOrder
      <4> QED
        BY <3>1, <3>2, <4>1, <4>2
    <3> QED
      BY <2>1, <2>2, <2>6, <3>3 DEF BCUInv, BCUQueue, api, LeavesQueue
  <2> QED
    BY <2>3, <2>5, <2>6 DEF good
<1> QED
  BY <1>1, <1>2, <1>4, <1>5, <1>6, <1>7, <1>8, <1>9 DEF BCUNext, BCURun

LEMMA BCUCrosses == BCUInv => UnitInStep
BY DEF BCUInv, BCUQueue, BCUHas, BCUHeard, UnitInStep

----------------------------------------------------------------------------
(* USB.  All the packets that ever were in the queue, in their order: first *)
(* the questions, then the version, then the packets of this version, with  *)
(* numbers that grow.                                                       *)
All == ugone \o inqueue

(* What the interface can have got: what left the queue, and its head.     *)
Reached == {All[k] : k \in {k \in DOMAIN All : k <= Len(ugone) + 1}}

Versioned(q) ==
  \A k \in DOMAIN q : q[k].kind = "emi" =>
    \E i \in DOMAIN q : i < k /\ q[i] = SetVersion(q[k].version)
Numbered(q) ==
  \A k, l \in DOMAIN q : k < l /\ q[k].kind = "emi" => q[l].kind = "emi" /\ q[k].n < q[l].n

USBQueue ==
  /\ inqueue \in Seq(APacket) /\ ugone \in Seq(APacket)
  /\ submitted \in 0 .. MaxSubmit
  /\ send_empty \in {0, 1} /\ (send_empty = 1 <=> inqueue = <<>>)
  /\ Versioned(All) /\ Numbered(All)
  /\ \A k \in DOMAIN All : All[k].kind = "emi" => All[k].n <= submitted
  /\ phase \in {"ask", "await", "up", "deleted"}
  /\ phase \in {"ask", "await"} => \A k \in DOMAIN All : All[k].kind # "emi"
  /\ phase = "up" => v \in 1 .. 2 /\ \E k \in DOMAIN All : All[k] = SetVersion(v)

USBGot ==
  /\ ugot \in Seq(APacket)
  /\ \A j \in DOMAIN ugot : ugot[j] \in Reached
  /\ \A i \in DOMAIN ugone : \E j \in DOMAIN ugot : ugot[j] = ugone[i]
  /\ \A i, j \in DOMAIN ugot :
       i < j /\ ugot[i].kind = "emi" => ugot[j].kind = "emi" /\ ugot[i].n <= ugot[j].n

(* A transfer under way is that of the head of the queue.                  *)
USBTransfer ==
  /\ sendh \in {"none", "started", "done", "failed"} /\ broken \in Nat
  /\ sendh \in {"started", "done"} => inqueue # <<>>
  /\ sendh = "done" => \E j \in DOMAIN ugot : ugot[j] = Head(inqueue)
  /\ sendh = "failed" => broken > 0
  /\ ended => sendh = "none"
  /\ broken = 0 => Len(ugot) <= Len(ugone) + 1
  /\ broken = 0 /\ ~ended /\ sendh # "done" => Len(ugot) <= Len(ugone)

(* What the interface says, and what is made of it.                        *)
Said ==
  {Answer(f) : f \in SUBSET (1 .. 3)} \cup {Status(b) : b \in BOOLEAN}
    \cup {Emi(w, n) : w \in 1 .. 2, n \in Nat} \cup {NoReport}

USBTaken ==
  /\ usays \in Seq(Said) /\ recvbuf \in Said /\ reports \in Nat
  /\ outqueue \in Seq(Said) /\ out_signal = Len(outqueue)
  /\ utaken \in Seq(Said) /\ \A i \in DOMAIN utaken : utaken[i].version = v
  /\ phase \in {"ask", "await"} => utaken = <<>>

USBInv == USBQueue /\ USBGot /\ USBTransfer /\ USBTaken

LEMMA PacketKinds ==
  ASSUME NEW p \in APacket
  PROVE  /\ p.kind = "emi" => p.n \in 1 .. MaxSubmit /\ p.version \in 1 .. 2
         /\ p = Ask \/ p.kind = "packet" \/ p.kind = "version" \/ p.kind = "emi"
BY DEF APacket, Ask, BCUPacket, SetVersion, Emi

LEMMA AppendedShape ==
  ASSUME NEW q \in Seq(APacket), Versioned(q), Numbered(q), NEW p \in APacket,
         \/ p.kind # "emi" /\ \A k \in DOMAIN q : q[k].kind # "emi"
         \/ /\ p.kind = "emi" /\ \A k \in DOMAIN q : q[k].kind = "emi" => q[k].n < p.n
            /\ \E k \in DOMAIN q : q[k] = SetVersion(p.version)
  PROVE  Versioned(Append(q, p)) /\ Numbered(Append(q, p))
<1> DEFINE t == Append(q, p)
<1>1. /\ DOMAIN q = 1 .. Len(q) /\ DOMAIN t = 1 .. Len(q) + 1 /\ Len(q) \in Nat
      /\ \A j \in DOMAIN q : j \in DOMAIN t /\ t[j] = q[j]
      /\ t[Len(q) + 1] = p
  OBVIOUS
<1> HIDE DEF t
<1>2. \A j \in DOMAIN t : j \in DOMAIN q \/ j = Len(q) + 1
  BY <1>1
<1>3. \A i, j \in DOMAIN t : i < j => i \in DOMAIN q
  BY <1>1
<1>4. \A i \in DOMAIN q : i < Len(q) + 1
  BY <1>1
<1>5. Versioned(t)
  <2>1. ASSUME NEW k \in DOMAIN t, t[k].kind = "emi"
        PROVE  \E i \in DOMAIN t : i < k /\ t[i] = SetVersion(t[k].version)
    <3>1. CASE k \in DOMAIN q
      BY <1>1, <2>1, <3>1 DEF Versioned
    <3>2. CASE k = Len(q) + 1
      BY <1>1, <1>4, <2>1, <3>2
    <3> QED
      BY <1>2, <3>1, <3>2
  <2> QED
    BY <2>1 DEF Versioned
<1>6. Numbered(t)
  <2>1. ASSUME NEW k \in DOMAIN t, NEW l \in DOMAIN t, k < l, t[k].kind = "emi"
        PROVE  t[l].kind = "emi" /\ t[k].n < t[l].n
    <3>1. k \in DOMAIN q
      BY <1>3, <2>1
    <3>2. CASE l \in DOMAIN q
      BY <1>1, <2>1, <3>1, <3>2 DEF Numbered
    <3>3. CASE l = Len(q) + 1
      BY <1>1, <2>1, <3>1, <3>3
    <3> QED
      BY <1>2, <3>2, <3>3
  <2> QED
    BY <2>1 DEF Numbered
<1> QED
  BY <1>5, <1>6 DEF t

(* A packet is put into the queue: what the interface can have got stays.  *)
LEMMA AllGrows ==
  ASSUME USBInv, NEW p \in APacket, inqueue' = Append(inqueue, p), UNCHANGED ugone
  PROVE  /\ All' = Append(All, p) /\ All \in Seq(APacket) /\ All' \in Seq(APacket)
         /\ Reached \subseteq Reached'
         /\ inqueue' \in Seq(APacket) /\ inqueue' # <<>>
         /\ inqueue # <<>> => Head(inqueue') = Head(inqueue)
<1>1. inqueue \in Seq(APacket) /\ ugone \in Seq(APacket)
  BY DEF USBInv, USBQueue
<1>2. Append(inqueue, p) = inqueue \o <<p>>
  BY <1>1, AppendIsConcat
<1>3. All \in Seq(APacket) /\ <<p>> \in Seq(APacket)
  BY <1>1 DEF All
<1>4. All' = All \o <<p>>
  BY <1>1, <1>2, <1>3, ConcatAssociative DEF All
<1>5. All' = Append(All, p)
  BY <1>3, <1>4, AppendIsConcat
<1>6. /\ \A k \in DOMAIN All : k \in DOMAIN All' /\ All'[k] = All[k]
      /\ All' \in Seq(APacket)
  BY <1>3, <1>5
<1>7. Reached \subseteq Reached'
  <2>1. Reached' = {All'[k] : k \in {k \in DOMAIN All' : k <= Len(ugone) + 1}}
    BY DEF Reached
  <2> QED
    BY <2>1, <1>6 DEF Reached
<1> QED
  BY <1>1, <1>3, <1>5, <1>6, <1>7

(* The head is taken from the queue. *)
LEMMA AllStays ==
  ASSUME USBInv, inqueue # <<>>
  PROVE  /\ Append(ugone, Head(inqueue)) \o Tail(inqueue) = All
         /\ Head(inqueue) = All[Len(ugone) + 1] /\ Len(ugone) + 1 \in DOMAIN All
         /\ Head(inqueue) \in Reached /\ Head(inqueue) \in APacket
         /\ Tail(inqueue) \in Seq(APacket)
         /\ Append(ugone, Head(inqueue)) \in Seq(APacket)
         /\ Len(Append(ugone, Head(inqueue))) = Len(ugone) + 1 /\ Len(ugone) \in Nat
<1>1. inqueue \in Seq(APacket) /\ ugone \in Seq(APacket)
  BY DEF USBInv, USBQueue
<1>2. /\ Append(ugone, Head(inqueue)) \o Tail(inqueue) = All
      /\ Tail(inqueue) \in Seq(APacket) /\ Append(ugone, Head(inqueue)) \in Seq(APacket)
  BY <1>1, HeadMoves DEF All
<1>3. /\ Head(inqueue) \in APacket /\ Head(inqueue) = inqueue[1] /\ 1 \in DOMAIN inqueue
      /\ Len(Append(ugone, Head(inqueue))) = Len(ugone) + 1 /\ Len(ugone) \in Nat
  BY <1>1
<1>4. Head(inqueue) = All[Len(ugone) + 1] /\ Len(ugone) + 1 \in DOMAIN All
  BY <1>1, <1>3 DEF All
<1>5. Head(inqueue) \in Reached
  BY <1>3, <1>4 DEF Reached
<1> QED
  BY <1>2, <1>3, <1>4, <1>5

(* What the invariant says of the queue and of the interface, after a      *)
(* packet of the right kind has been put.                                  *)
LEMMA USBPuts ==
  ASSUME USBInv, NEW p \in APacket, inqueue' = Append(inqueue, p), send_empty' = 0,
         UNCHANGED <<sendh, ended, broken, ugot, ugone>>,
         submitted' \in 0 .. MaxSubmit, submitted' >= submitted,
         \/ p.kind # "emi" /\ \A k \in DOMAIN All : All[k].kind # "emi"
         \/ /\ p.kind = "emi" /\ \A k \in DOMAIN All : All[k].kind = "emi" => All[k].n < p.n
            /\ \E k \in DOMAIN All : All[k] = SetVersion(p.version),
         p.kind = "emi" => p.n <= submitted',
         phase' \in {"ask", "await", "up", "deleted"},
         phase' \in {"ask", "await"} => p.kind # "emi",
         phase' = "up" => /\ v' \in 1 .. 2
                          /\ p = SetVersion(v') \/ \E k \in DOMAIN All : All[k] = SetVersion(v')
  PROVE  USBQueue' /\ USBGot' /\ USBTransfer'
<1>1. /\ All' = Append(All, p) /\ All \in Seq(APacket) /\ All' \in Seq(APacket)
      /\ Reached \subseteq Reached'
      /\ inqueue' \in Seq(APacket) /\ inqueue' # <<>>
      /\ inqueue # <<>> => Head(inqueue') = Head(inqueue)
  BY AllGrows
<1>2. /\ \A j \in DOMAIN All : j \in DOMAIN All' /\ All'[j] = All[j]
      /\ Len(All) + 1 \in DOMAIN All' /\ All'[Len(All) + 1] = p
      /\ \A j \in DOMAIN All' : j \in DOMAIN All \/ j = Len(All) + 1
  BY <1>1
<1>3. Versioned(All') /\ Numbered(All')
  <2>1. Versioned(All) /\ Numbered(All)
    BY DEF USBInv, USBQueue
  <2>2. Versioned(Append(All, p)) /\ Numbered(Append(All, p))
    BY <1>1, <2>1, AppendedShape
  <2> QED
    BY <1>1, <2>2
<1>4. \A k \in DOMAIN All' : All'[k].kind = "emi" => All'[k].n <= submitted'
  <2>1. ASSUME NEW k \in DOMAIN All, All[k].kind = "emi" PROVE All[k].n <= submitted'
    <3>1. All[k] \in APacket /\ All[k].n <= submitted /\ submitted \in Nat
      BY <1>1, <2>1 DEF USBInv, USBQueue
    <3>2. All[k].n \in Nat
      BY <3>1, <2>1, PacketKinds
    <3> QED
      BY <3>1, <3>2
  <2> QED
    BY <1>2, <2>1
<1>5. phase' \in {"ask", "await"} => \A k \in DOMAIN All' : All'[k].kind # "emi"
  BY <1>2
<1>6. phase' = "up" => v' \in 1 .. 2 /\ \E k \in DOMAIN All' : All'[k] = SetVersion(v')
  BY <1>2
<1>7. USBQueue'
  BY <1>1, <1>3, <1>4, <1>5, <1>6 DEF USBInv, USBQueue
<1>8. USBGot'
  BY <1>1 DEF USBInv, USBGot
<1>9. USBTransfer'
  BY <1>1 DEF USBInv, USBTransfer
<1> QED
  BY <1>7, <1>8, <1>9

(* The transfer of the head has come to an end.                            *)
LEMMA USBTakes ==
  ASSUME USBInv, sendh = "done", sendh' = "none", Sent, ugone' = Append(ugone, Head(inqueue)),
         UNCHANGED <<phase, v, ended, broken, ugot>>
  PROVE  USBQueue' /\ USBGot' /\ USBTransfer' /\ TakesHead
<1>1. inqueue # <<>> /\ ~ended
  BY DEF USBInv, USBTransfer
<1>2. inqueue' = Tail(inqueue) /\ send_empty' = (IF inqueue' = <<>> THEN 1 ELSE send_empty)
      /\ submitted' = submitted
  BY DEF Sent
<1>3. /\ All' = All /\ inqueue' \in Seq(APacket) /\ ugone' \in Seq(APacket)
      /\ Len(ugone') = Len(ugone) + 1 /\ Len(ugone) \in Nat
  BY <1>1, <1>2, AllStays DEF All
<1>4. USBQueue'
  BY <1>1, <1>2, <1>3 DEF USBInv, USBQueue
<1>5. Reached \subseteq Reached'
  <2>1. All \in Seq(APacket)
    BY DEF USBInv, USBQueue, All
  <2>2. Reached' = {All'[k] : k \in {k \in DOMAIN All' : k <= Len(ugone') + 1}}
    BY DEF Reached
  <2>3. \A k \in DOMAIN All : k <= Len(ugone) + 1 => k <= Len(ugone') + 1
    BY <1>3, <2>1
  <2> QED
    BY <1>3, <2>2, <2>3 DEF Reached
<1>6. \A i \in DOMAIN ugone' : \E j \in DOMAIN ugot : ugot[j] = ugone'[i]
  <2>1. ugone \in Seq(APacket) /\ Head(inqueue) \in APacket
    BY <1>1, AllStays DEF USBInv, USBQueue
  <2>2. /\ \A i \in DOMAIN ugone' : i \in DOMAIN ugone \/ i = Len(ugone) + 1
        /\ \A i \in DOMAIN ugone : ugone'[i] = ugone[i]
        /\ ugone'[Len(ugone) + 1] = Head(inqueue)
    BY <2>1
  <2>3. \E j \in DOMAIN ugot : ugot[j] = Head(inqueue)
    BY DEF USBInv, USBTransfer
  <2>4. \A i \in DOMAIN ugone : \E j \in DOMAIN ugot : ugot[j] = ugone[i]
    BY DEF USBInv, USBGot
  <2> QED
    BY <2>2, <2>3, <2>4
<1>7. USBGot'
  BY <1>5, <1>6 DEF USBInv, USBGot
<1>8. USBTransfer'
  <2>1. Len(ugot) \in Nat
    BY DEF USBInv, USBGot
  <2> QED
    BY <1>1, <1>3, <2>1 DEF USBInv, USBTransfer
<1> QED
  BY <1>1, <1>4, <1>7, <1>8 DEF TakesHead

(* The interface gets the head, perhaps once more.                         *)
LEMMA USBReaches ==
  ASSUME USBInv, inqueue # <<>>, ugot' = Append(ugot, Head(inqueue)),
         UNCHANGED <<inqueue, ugone>>
  PROVE  USBGot' /\ (\E j \in DOMAIN ugot' : ugot'[j] = Head(inqueue'))
         /\ Len(ugot') = Len(ugot) + 1 /\ Len(ugot) \in Nat
<1> DEFINE h == Head(inqueue)
<1>1. /\ h = All[Len(ugone) + 1] /\ Len(ugone) + 1 \in DOMAIN All /\ h \in Reached
      /\ h \in APacket /\ All \in Seq(APacket) /\ Len(ugone) \in Nat
  BY AllStays DEF USBInv, USBQueue, All
<1>2. ugot \in Seq(APacket)
  BY DEF USBInv, USBGot
<1>3. /\ ugot' \in Seq(APacket) /\ Len(ugot') = Len(ugot) + 1 /\ Len(ugot) \in Nat
      /\ \A j \in DOMAIN ugot : j \in DOMAIN ugot' /\ ugot'[j] = ugot[j]
      /\ Len(ugot) + 1 \in DOMAIN ugot' /\ ugot'[Len(ugot) + 1] = h
      /\ \A j \in DOMAIN ugot' : j \in DOMAIN ugot \/ j = Len(ugot) + 1
      /\ \A i, j \in DOMAIN ugot' : i < j => i \in DOMAIN ugot
  BY <1>1, <1>2
<1>4. Reached' = Reached
  BY DEF Reached, All
<1>5. ASSUME NEW i \in DOMAIN ugot, ugot[i].kind = "emi"
      PROVE  h.kind = "emi" /\ ugot[i].n <= h.n
  <2>1. PICK k \in DOMAIN All : k <= Len(ugone) + 1 /\ ugot[i] = All[k]
    BY DEF USBInv, USBGot, Reached
  <2>2. CASE k = Len(ugone) + 1
    <3>1. h.n \in Nat
      BY <1>1, <1>5, <2>1, <2>2, PacketKinds
    <3> QED
      BY <1>1, <1>5, <2>1, <2>2, <3>1
  <2>3. CASE k < Len(ugone) + 1
    <3>1. h.kind = "emi" /\ ugot[i].n < h.n
      BY <1>1, <1>5, <2>1, <2>3 DEF USBInv, USBQueue, Numbered
    <3>2. h.n \in Nat /\ ugot[i].n \in Nat
      BY <1>1, <1>2, <1>5, <3>1, PacketKinds
    <3> QED
      BY <3>1, <3>2
  <2> QED
    BY <1>1, <2>1, <2>2, <2>3
<1> HIDE DEF h
<1>6. \A j \in DOMAIN ugot' : ugot'[j] \in Reached
  BY <1>1, <1>3 DEF USBInv, USBGot
<1>7. \A i, j \in DOMAIN ugot' :
        i < j /\ ugot'[i].kind = "emi" => ugot'[j].kind = "emi" /\ ugot'[i].n <= ugot'[j].n
  <2>1. ASSUME NEW i \in DOMAIN ugot', NEW j \in DOMAIN ugot', i < j, ugot'[i].kind = "emi"
        PROVE  ugot'[j].kind = "emi" /\ ugot'[i].n <= ugot'[j].n
    <3>1. i \in DOMAIN ugot /\ ugot'[i] = ugot[i]
      BY <1>3, <2>1
    <3>2. CASE j \in DOMAIN ugot
      BY <1>3, <2>1, <3>1, <3>2 DEF USBInv, USBGot
    <3>3. CASE j = Len(ugot) + 1
      BY <1>3, <1>5, <2>1, <3>1, <3>3
    <3> QED
      BY <1>3, <3>2, <3>3
  <2> QED
    BY <2>1
<1>8. \A i \in DOMAIN ugone : \E j \in DOMAIN ugot' : ugot'[j] = ugone[i]
  BY <1>3 DEF USBInv, USBGot
<1> QED
  BY <1>3, <1>4, <1>6, <1>7, <1>8 DEF USBGot, h

LEMMA USBStarts == USBInit => USBInv /\ APipe!PipeInit
<1> SUFFICES ASSUME USBInit PROVE USBInv /\ APipe!PipeInit
  OBVIOUS
<1>1. /\ inqueue = <<>> /\ send_empty = 1 /\ submitted = 0 /\ outqueue = <<>> /\ out_signal = 0
      /\ phase \in {"deleted", "ask"} /\ sendh = "none" /\ recvbuf = NoReport /\ ended = FALSE
      /\ usays = <<>> /\ reports = 0 /\ broken = 0 /\ ugot = <<>> /\ ugone = <<>> /\ utaken = <<>>
  BY DEF USBInit, ApiInit
<1>2. All = <<>>
  BY <1>1 DEF All
<1>3. USBQueue
  BY <1>1, <1>2, MaxSubmitAssumption DEF USBQueue, Versioned, Numbered
<1>4. USBGot /\ USBTransfer
  BY <1>1 DEF USBGot, USBTransfer
<1>5. USBTaken
  BY <1>1 DEF USBTaken, Said
<1> QED
  BY <1>1, <1>3, <1>4, <1>5 DEF USBInv, APipe!PipeInit

(* What the interface says is passed on without a look at the queue.       *)
LEMMA ChosenVersion ==
  ASSUME NEW f PROVE Chosen(f) \in {0, 1, 2, 3}
BY DEF Chosen

LEMMA TakenPacket ==
  ASSUME USBInv, out_signal > 0, outqueue' = Tail(outqueue), out_signal' = out_signal - 1
  PROVE  /\ outqueue' \in Seq(Said) /\ out_signal' = Len(outqueue')
         /\ Head(outqueue) \in Said
BY DEF USBInv, USBTaken

LEMMA SaidReports ==
  /\ \A f \in SUBSET (1 .. 3) : Answer(f) \in Said
  /\ \A b \in BOOLEAN : Status(b) \in Said
  /\ \A w \in 1 .. 2, n \in Nat : Emi(w, n) \in Said
<1>1. ASSUME NEW f \in SUBSET (1 .. 3) PROVE Answer(f) \in Said
  <2>1. Answer(f) \in {Answer(g) : g \in SUBSET (1 .. 3)}
    OBVIOUS
  <2>2. {Answer(g) : g \in SUBSET (1 .. 3)} \subseteq Said
    BY DEF Said
  <2> QED
    BY <2>1, <2>2
<1>2. ASSUME NEW b \in BOOLEAN PROVE Status(b) \in Said
  <2>1. Status(b) \in {Status(c) : c \in BOOLEAN}
    OBVIOUS
  <2>2. {Status(c) : c \in BOOLEAN} \subseteq Said
    BY DEF Said
  <2> QED
    BY <2>1, <2>2
<1>3. ASSUME NEW w \in 1 .. 2, NEW n \in Nat PROVE Emi(w, n) \in Said
  <2>1. Emi(w, n) \in {Emi(x, m) : x \in 1 .. 2, m \in Nat}
    OBVIOUS
  <2>2. {Emi(x, m) : x \in 1 .. 2, m \in Nat} \subseteq Said
    BY DEF Said
  <2> QED
    BY <2>1, <2>2
<1> QED
  BY <1>1, <1>2, <1>3, Zenon

LEMMA USBStep ==
  ASSUME USBInv, USBNext
  PROVE  USBInv' /\ (PutsPacket \/ TakesHead \/ LeavesQueue)
<1>0. ASSUME UNCHANGED <<inqueue, submitted, send_empty, ugone, ugot, phase, v>>
      PROVE  USBQueue' /\ USBGot' /\ LeavesQueue
  BY <1>0 DEF USBInv, USBQueue, USBGot, All, Reached, LeavesQueue
<1>1. CASE AskVersion
  <2>1. /\ inqueue' = Append(inqueue, Ask) /\ send_empty' = 0 /\ phase = "ask" /\ phase' = "await"
        /\ UNCHANGED <<sendh, ended, broken, ugot, ugone, submitted>>
        /\ UNCHANGED <<usays, recvbuf, reports, outqueue, out_signal, utaken, v>>
    BY <1>1 DEF AskVersion, Put
  <2>2. Ask \in APacket /\ Ask.kind = "ask"
    BY DEF APacket, Ask
  <2>3. /\ \A k \in DOMAIN All : All[k].kind # "emi"
        /\ submitted \in 0 .. MaxSubmit /\ submitted >= submitted
    BY <2>1 DEF USBInv, USBQueue
  <2>4. USBQueue' /\ USBGot' /\ USBTransfer'
    BY <2>1, <2>2, <2>3, USBPuts
  <2>5. USBTaken'
    BY <2>1 DEF USBInv, USBTaken
  <2> QED
    BY <2>1, <2>2, <2>4, <2>5 DEF USBInv, PutsPacket
<1>2. CASE PassOver
  <2>1. /\ out_signal > 0 /\ outqueue' = Tail(outqueue) /\ out_signal' = out_signal - 1
        /\ UNCHANGED <<inqueue, submitted, send_empty, ugone, ugot, phase, v>>
        /\ UNCHANGED <<sendh, ended, broken, usays, recvbuf, reports, utaken>>
    BY <1>2 DEF PassOver, TakePacket, usbown
  <2> QED
    BY <1>0, <2>1, TakenPacket DEF USBInv, USBTransfer, USBTaken
<1>3. CASE Unsupported
  <2>1. /\ out_signal > 0 /\ outqueue' = Tail(outqueue) /\ out_signal' = out_signal - 1
        /\ phase = "await" /\ phase' \in {"ask", "deleted"}
        /\ UNCHANGED <<inqueue, submitted, send_empty, ugone, ugot, v>>
        /\ UNCHANGED <<sendh, ended, broken, usays, recvbuf, reports, utaken>>
    BY <1>3 DEF Unsupported, TakePacket
  <2>2. USBQueue' /\ USBGot' /\ USBTransfer' /\ LeavesQueue
    BY <2>1 DEF USBInv, USBQueue, USBGot, USBTransfer, All, Reached, LeavesQueue
  <2>3. USBTaken'
    BY <2>1, TakenPacket DEF USBInv, USBTaken
  <2> QED
    BY <2>2, <2>3 DEF USBInv
<1>4. CASE Supported
  <2> DEFINE w == Chosen(Head(outqueue).features)
  <2>1. /\ phase = "await" /\ outqueue # <<>> /\ w # 0 /\ v' = w
        /\ outqueue' = Tail(outqueue) /\ out_signal' = out_signal - 1
        /\ inqueue' = Append(inqueue, SetVersion(w)) /\ send_empty' = 0
        /\ phase' = IF w = 3 THEN "deleted" ELSE "up"
        /\ UNCHANGED <<submitted, ugone, ugot, sendh, ended, broken>>
        /\ UNCHANGED <<usays, recvbuf, reports, utaken>>
    BY <1>4 DEF Supported
  <2>2. w \in 1 .. 3
    BY <2>1, ChosenVersion
  <2> HIDE DEF w
  <2>3. SetVersion(w) \in APacket /\ SetVersion(w).kind = "version"
    BY <2>2 DEF APacket, SetVersion
  <2>4. /\ \A k \in DOMAIN All : All[k].kind # "emi"
        /\ submitted \in 0 .. MaxSubmit /\ submitted >= submitted
    BY <2>1 DEF USBInv, USBQueue
  <2>5. phase' \in {"deleted", "up"} /\ (phase' = "up" => v' \in 1 .. 2 /\ SetVersion(w) = SetVersion(v'))
    BY <2>1, <2>2
  <2>6. USBQueue' /\ USBGot' /\ USBTransfer'
    BY <2>1, <2>3, <2>4, <2>5, USBPuts
  <2>7. out_signal > 0 /\ utaken = <<>>
    BY <2>1 DEF USBInv, USBTaken
  <2>8. USBTaken'
    BY <2>1, <2>5, <2>7, TakenPacket DEF USBInv, USBTaken
  <2> QED
    BY <2>1, <2>3, <2>6, <2>8 DEF USBInv, PutsPacket
<1>5. CASE USBSend_Packet
  <2> DEFINE p == Emi(v, submitted + 1)
  <2>1. /\ phase = "up" /\ submitted < MaxSubmit /\ submitted' = submitted + 1
        /\ inqueue' = Append(inqueue, p) /\ send_empty' = 0
        /\ UNCHANGED <<sendh, ended, broken, ugot, ugone, phase, v>>
        /\ UNCHANGED <<usays, recvbuf, reports, outqueue, out_signal, utaken>>
    BY <1>5 DEF USBSend_Packet, Submit, Put, usbown
  <2>2. submitted \in Nat /\ submitted' \in 1 .. MaxSubmit /\ v \in 1 .. 2
    BY <2>1, MaxSubmitAssumption DEF USBInv, USBQueue
  <2>3. p \in APacket /\ p.kind = "emi" /\ p.n = submitted' /\ p.version = v
    BY <2>1, <2>2 DEF APacket, Emi
  <2>4. All \in Seq(APacket)
    BY DEF USBInv, USBQueue, All
  <2>5. \A k \in DOMAIN All : All[k].kind = "emi" => All[k].n < p.n
    <3>1. ASSUME NEW k \in DOMAIN All, All[k].kind = "emi" PROVE All[k].n < submitted'
      <4>1. All[k].n <= submitted /\ All[k] \in APacket
        BY <2>4, <3>1 DEF USBInv, USBQueue
      <4>2. All[k].n \in Nat
        BY <4>1, <3>1, PacketKinds
      <4> QED
        BY <2>1, <2>2, <4>1, <4>2
    <3> QED
      BY <2>3, <3>1
  <2>6. \E k \in DOMAIN All : All[k] = SetVersion(v)
    BY <2>1 DEF USBInv, USBQueue
  <2> HIDE DEF p
  <2>7. /\ submitted' \in 0 .. MaxSubmit /\ submitted' >= submitted /\ p.n <= submitted'
        /\ phase' = "up" /\ v' = v
    BY <2>1, <2>2, <2>3
  <2>8. USBQueue' /\ USBGot' /\ USBTransfer'
    BY <2>1, <2>2, <2>3, <2>5, <2>6, <2>7, USBPuts
  <2>9. USBTaken'
    BY <2>1 DEF USBInv, USBTaken
  <2> QED
    BY <2>1, <2>3, <2>8, <2>9 DEF USBInv, PutsPacket
<1>6. CASE USBGet_Packet
  <2>1. /\ phase = "up" /\ out_signal > 0
        /\ outqueue' = Tail(outqueue) /\ out_signal' = out_signal - 1
        /\ utaken' = IF Unwrapped(Head(outqueue)) THEN Append(utaken, Head(outqueue)) ELSE utaken
        /\ UNCHANGED <<inqueue, submitted, send_empty, ugone, ugot, phase, v>>
        /\ UNCHANGED <<sendh, ended, broken, usays, recvbuf, reports>>
    BY <1>6 DEF USBGet_Packet, TakePacket
  <2>2. utaken' \in Seq(Said) /\ \A i \in DOMAIN utaken' : utaken'[i].version = v
    <3>1. utaken \in Seq(Said) /\ Head(outqueue) \in Said
      BY <2>1, TakenPacket DEF USBInv, USBTaken
    <3>2. CASE Unwrapped(Head(outqueue))
      <4>1. Head(outqueue).version = v /\ utaken' = Append(utaken, Head(outqueue))
        BY <2>1, <3>2 DEF Unwrapped
      <4>2. /\ utaken' \in Seq(Said)
            /\ \A i \in DOMAIN utaken' : i \in DOMAIN utaken \/ i = Len(utaken) + 1
            /\ \A i \in DOMAIN utaken : utaken'[i] = utaken[i]
            /\ utaken'[Len(utaken) + 1] = Head(outqueue)
        BY <3>1, <4>1
      <4> QED
        BY <4>1, <4>2 DEF USBInv, USBTaken
    <3>3. CASE ~Unwrapped(Head(outqueue))
      BY <2>1, <3>3 DEF USBInv, USBTaken
    <3> QED
      BY <3>2, <3>3
  <2>3. USBTaken'
    BY <2>1, <2>2, TakenPacket DEF USBInv, USBTaken
  <2> QED
    BY <1>0, <2>1, <2>3 DEF USBInv, USBTransfer
<1>7. CASE USBStop
  <2>1. /\ phase = "up" /\ phase' = "deleted" /\ ended' /\ sendh' = "none"
        /\ outqueue' = <<>> /\ out_signal' = 0
        /\ UNCHANGED <<inqueue, send_empty, submitted, v, recvbuf>>
        /\ UNCHANGED <<usays, reports, broken, ugot, ugone, utaken>>
    BY <1>7 DEF USBStop
  <2>2. USBQueue' /\ USBGot' /\ LeavesQueue
    BY <2>1 DEF USBInv, USBQueue, USBGot, All, Reached, LeavesQueue
  <2>3. USBTransfer' /\ USBTaken'
    BY <2>1 DEF USBInv, USBTransfer, USBTaken
  <2> QED
    BY <2>2, <2>3 DEF USBInv
<1>8. CASE StartRecv \/ StartSend
  <2>1. /\ UNCHANGED <<inqueue, submitted, send_empty, ugone, ugot, phase, v>>
        /\ UNCHANGED <<outqueue, out_signal, usays, recvbuf, reports, utaken>>
    BY <1>8 DEF StartRecv, StartSend, api
  <2>2. USBTransfer'
    BY <1>8 DEF StartRecv, StartSend, api, Breaks, Runs, USBInv, USBTransfer, USBGot, USBQueue
  <2>3. USBTaken'
    BY <2>1 DEF USBInv, USBTaken
  <2> QED
    BY <1>0, <2>1, <2>2, <2>3 DEF USBInv
<1>9. CASE EndRecv
  <2>1. /\ UNCHANGED <<inqueue, submitted, send_empty, ugone, ugot, phase, v>>
        /\ UNCHANGED <<sendh, ended, broken, usays, reports, utaken>>
        /\ recvbuf' = NoReport
        /\ \/ UNCHANGED <<outqueue, out_signal>>
           \/ outqueue' = Append(outqueue, recvbuf) /\ out_signal' = out_signal + 1
    BY <1>9 DEF EndRecv, Received, api
  <2>2. NoReport \in Said
    BY DEF Said
  <2>3. outqueue' \in Seq(Said) /\ out_signal' = Len(outqueue')
    <3>1. outqueue \in Seq(Said) /\ recvbuf \in Said /\ out_signal = Len(outqueue)
      BY DEF USBInv, USBTaken
    <3>2. CASE UNCHANGED <<outqueue, out_signal>>
      BY <3>1, <3>2
    <3>3. CASE outqueue' = Append(outqueue, recvbuf) /\ out_signal' = out_signal + 1
      BY <3>1, <3>3
    <3> QED
      BY <2>1, <3>2, <3>3
  <2>4. USBTaken'
    BY <2>1, <2>2, <2>3 DEF USBInv, USBTaken
  <2> QED
    BY <1>0, <2>1, <2>4 DEF USBInv, USBTransfer
<1>10. CASE EndSend
  <2>1. /\ sendh' = "none" /\ ~ended
        /\ UNCHANGED <<phase, v, ended, broken, ugot, usays, recvbuf, reports, utaken>>
    BY <1>10 DEF EndSend, Freed, Runs
  <2>2. CASE sendh = "done"
    <3>1. /\ Sent /\ ugone' = Append(ugone, Head(inqueue))
          /\ UNCHANGED <<outqueue, out_signal>>
      BY <1>10, <2>2 DEF EndSend, Sent
    <3>2. USBQueue' /\ USBGot' /\ USBTransfer' /\ TakesHead
      BY <2>1, <2>2, <3>1, USBTakes
    <3>3. USBTaken'
      BY <2>1, <3>1 DEF USBInv, USBTaken
    <3> QED
      BY <3>2, <3>3 DEF USBInv
  <2>3. CASE sendh = "failed"
    <3>1. UNCHANGED <<inqueue, submitted, send_empty, ugone, ugot, phase, v, outqueue, out_signal>>
      BY <1>10, <2>1, <2>3 DEF EndSend, api
    <3> QED
      BY <1>0, <2>1, <2>3, <3>1 DEF USBInv, USBTransfer, USBTaken
  <2> QED
    BY <1>10, <2>2, <2>3 DEF EndSend
<1>11. CASE SendTransfer
  <2>1. /\ sendh = "started" /\ UNCHANGED <<phase, v, recvbuf, ended, reports, ugone, utaken>>
        /\ UNCHANGED <<inqueue, submitted, send_empty, outqueue, out_signal>>
    BY <1>11 DEF SendTransfer, api
  <2>2. inqueue # <<>> /\ ~ended /\ Len(ugot) \in Nat /\ Len(ugone) \in Nat
    BY <2>1 DEF USBInv, USBTransfer, USBGot, USBQueue
  <2>3. USBQueue' /\ LeavesQueue
    BY <2>1 DEF USBInv, USBQueue, All, LeavesQueue
  <2>4. \/ ugot' = Append(ugot, Head(inqueue)) /\ Reach(Head(inqueue))
        \/ UNCHANGED <<ugot, usays>>
    BY <1>11 DEF SendTransfer, Reach
  <2>5. USBGot'
    BY <2>1, <2>2, <2>4, USBReaches DEF USBInv, USBGot, Reached, All
  <2>6. USBTransfer'
    <3>1. CASE sendh' = "done" /\ Reach(Head(inqueue)) /\ UNCHANGED broken
      <4>1. /\ \E j \in DOMAIN ugot' : ugot'[j] = Head(inqueue')
            /\ Len(ugot') = Len(ugot) + 1
        BY <2>1, <2>2, <3>1, USBReaches DEF Reach
      <4> QED
        BY <2>1, <2>2, <3>1, <4>1 DEF USBInv, USBTransfer
    <3>2. CASE Breaks /\ sendh' = "failed"
      BY <2>1, <2>2, <3>2 DEF Breaks, USBInv, USBTransfer
    <3> QED
      BY <1>11, <3>1, <3>2 DEF SendTransfer
  <2>7. usays' \in Seq(Said)
    <3>1. ASSUME NEW f \in Features PROVE Append(usays, Answer(f)) \in Seq(Said)
      <4>1. Answer(f) \in Said
        <5>1. f \in SUBSET (1 .. 3)
          BY USBAssumption
        <5> QED
          BY <5>1, SaidReports
      <4>2. usays \in Seq(Said)
        BY DEF USBInv, USBTaken
      <4> QED
        BY <4>1, <4>2
    <3> QED
      BY <2>4, <3>1 DEF Reach, USBInv, USBTaken
  <2>8. USBTaken'
    BY <2>1, <2>7 DEF USBInv, USBTaken
  <2> QED
    BY <2>3, <2>5, <2>6, <2>8 DEF USBInv
<1>12. CASE RecvTransfer
  <2>1. /\ UNCHANGED <<inqueue, submitted, send_empty, ugone, ugot, phase, v>>
        /\ UNCHANGED <<outqueue, out_signal, sendh, ended, reports, utaken>>
        /\ broken' \in {broken, broken + 1}
        /\ \/ usays # <<>> /\ recvbuf' = Head(usays) /\ usays' = Tail(usays)
           \/ UNCHANGED <<usays, recvbuf>>
    BY <1>12 DEF RecvTransfer, Breaks, api
  <2>2. USBTransfer'
    BY <2>1 DEF USBInv, USBTransfer
  <2>3. usays' \in Seq(Said) /\ recvbuf' \in Said
    BY <2>1, Tailed DEF USBInv, USBTaken
  <2>4. USBTaken'
    BY <2>1, <2>3 DEF USBInv, USBTaken
  <2> QED
    BY <1>0, <2>1, <2>2, <2>4 DEF USBInv
<1>13. CASE Report
  <2>1. /\ UNCHANGED <<inqueue, submitted, send_empty, ugone, ugot, phase, v>>
        /\ UNCHANGED <<outqueue, out_signal, sendh, ended, broken, recvbuf, utaken>>
        /\ reports' = reports + 1
    BY <1>13 DEF Report, api
  <2>2. PICK r \in {Status(TRUE), Status(FALSE), Emi(1, reports), Emi(2, reports)} :
          usays' = Append(usays, r)
    BY <1>13 DEF Report
  <2>3. r \in Said
    <3>1. reports \in Nat
      BY DEF USBInv, USBTaken
    <3>2. Emi(1, reports) \in Said /\ Emi(2, reports) \in Said
      BY <3>1, SaidReports
    <3>3. Status(TRUE) \in Said /\ Status(FALSE) \in Said
      BY SaidReports, Zenon
    <3> QED
      BY <2>2, <3>2, <3>3, Zenon
  <2>4. USBTaken'
    BY <2>1, <2>2, <2>3 DEF USBInv, USBTaken
  <2> QED
    BY <1>0, <2>1, <2>4 DEF USBInv, USBTransfer
<1> QED
  BY <1>1, <1>2, <1>3, <1>4, <1>5, <1>6, <1>7, <1>8, <1>9, <1>10, <1>11, <1>12, <1>13
     DEF USBNext, RunUSB

(* The version comes before the first packet also where the interface gets *)
(* them: it left the queue before, and nothing but packets follows one.    *)
LEMMA USBCrosses == USBInv => ReportsInStep
<1> SUFFICES ASSUME USBInv PROVE ReportsInStep
  OBVIOUS
<1>1. ASSUME NEW j \in DOMAIN ugot, ugot[j].kind = "emi"
      PROVE  \E i \in 1 .. j - 1 : ugot[i] = SetVersion(ugot[j].version)
  <2>1. PICK k \in DOMAIN All : k <= Len(ugone) + 1 /\ ugot[j] = All[k]
    BY DEF USBInv, USBGot, Reached
  <2>2. PICK l \in DOMAIN All : l < k /\ All[l] = SetVersion(ugot[j].version)
    BY <1>1, <2>1 DEF USBInv, USBQueue, Versioned
  <2>3. l \in DOMAIN ugone /\ All[l] = ugone[l]
    <3>1. ugone \in Seq(APacket) /\ inqueue \in Seq(APacket)
      BY DEF USBInv, USBQueue
    <3>2. k \in Nat /\ l \in Nat \ {0} /\ Len(ugone) \in Nat
      BY <3>1 DEF All
    <3>3. l <= Len(ugone)
      BY <2>1, <2>2, <3>2
    <3> QED
      BY <3>1, <3>2, <3>3 DEF All
  <2>4. PICK i \in DOMAIN ugot : ugot[i] = SetVersion(ugot[j].version)
    BY <2>2, <2>3 DEF USBInv, USBGot
  <2>5. ugot[i].kind = "version"
    BY <2>4 DEF SetVersion
  <2>6. i \in 1 .. Len(ugot) /\ j \in 1 .. Len(ugot) /\ Len(ugot) \in Nat
    BY DEF USBInv, USBGot
  <2>7. ~(j < i) /\ j # i
    BY <1>1, <2>5 DEF USBInv, USBGot
  <2> QED
    BY <2>4, <2>6, <2>7
<1> QED
  BY <1>1 DEF USBInv, USBGot, USBTransfer, USBTaken, ReportsInStep

----------------------------------------------------------------------------
(* The kernel and the multicast group.  A frame has one number, which it   *)
(* keeps on its way: it is in one of the queues, or it has passed.         *)
Handed == {Copy(n) : n \in Nat} \cup {Frame(n) : n \in Nat}
Passage == [n : Nat, sent : BOOLEAN, mode : {0, 1}, vmode : {0, 1}]

PlainTypes ==
  /\ pno \in Nat /\ pmode \in {0, 1} /\ pvmode \in {0, 1}
  /\ handed \in Seq(Handed) /\ pout \in Seq(Handed)
  /\ passed \in Seq(Passage)
  /\ pin \in Seq(Nat) /\ under \in Seq([kind : {"frame", "other"}, n : Nat])
  /\ pstep = "write" => ~router /\ pin # <<>>

Waiting == {pin[i] : i \in DOMAIN pin}
Coming == {under[i].n : i \in DOMAIN under}
Past == {passed[k].n : k \in DOMAIN passed}

NumbersApart ==
  /\ \A n \in Waiting \cup Coming \cup Past : n < pno
  /\ \A i, j \in DOMAIN pin : i # j => pin[i] # pin[j]
  /\ \A i, j \in DOMAIN under : i # j => under[i].n # under[j].n
  /\ Waiting \cap Coming = {} /\ Past \cap Waiting = {} /\ Past \cap Coming = {}

PlainInv == PlainTypes /\ NumbersApart /\ CopiesInStep

(* A frame passes with which t, what is handed over, grows by its copy, by  *)
(* itself, or by both.                                                     *)
Grown(all, t, n, kinds) ==
  /\ DOMAIN all \subseteq DOMAIN t /\ \A i \in DOMAIN all : t[i] = all[i]
  /\ \A i \in DOMAIN all, j \in DOMAIN t \ DOMAIN all : i < j
  /\ \A i \in DOMAIN t \ DOMAIN all : t[i] \in {Copy(n), Frame(n)}
  /\ \A i, j \in DOMAIN t \ DOMAIN all : i < j => t[i] = Copy(n) /\ t[j] = Frame(n)
  /\ (\E i \in DOMAIN t \ DOMAIN all : t[i] = Copy(n)) <=> "copy" \in kinds
  /\ (\E i \in DOMAIN t \ DOMAIN all : t[i] = Frame(n)) <=> "frame" \in kinds

LEMMA PassesInStep ==
  ASSUME NEW all \in Seq(Handed), NEW frames \in Seq(Passage), NEW ip, InStep(all, frames, ip),
         NEW p \in Passage, \A k \in DOMAIN frames : frames[k].n # p.n,
         NEW t \in Seq(Handed), NEW kinds, Grown(all, t, p.n, kinds),
         "copy" \in kinds <=> IsFor("copy", p, ip), "frame" \in kinds <=> IsFor("frame", p, ip)
  PROVE  InStep(t, Append(frames, p), ip)
<1> DEFINE n == p.n
           l == Len(frames) + 1
           after == Append(frames, p)
           fresh == DOMAIN t \ DOMAIN all
<1>1. /\ \A k \in DOMAIN frames : k \in DOMAIN after /\ after[k] = frames[k] /\ k < l
      /\ l \in DOMAIN after /\ after[l] = p
      /\ \A k \in DOMAIN after : k \in DOMAIN frames \/ k = l
  OBVIOUS
<1>3. /\ \A i \in DOMAIN t : i \in DOMAIN all \/ i \in fresh
      /\ \A i \in DOMAIN all : i \in DOMAIN t /\ t[i] = all[i]
      /\ \A i \in fresh : t[i] \in {Copy(n), Frame(n)}
      /\ \A i \in DOMAIN all, j \in fresh : i < j
      /\ \A i, j \in fresh : i < j => t[i] = Copy(n) /\ t[j] = Frame(n)
  BY DEF Grown
<1>4. /\ (\E i \in fresh : t[i] = Copy(n)) <=> IsFor("copy", p, ip)
      /\ (\E i \in fresh : t[i] = Frame(n)) <=> IsFor("frame", p, ip)
  BY DEF Grown
<1>5. /\ \A m : Copy(m).kind = "copy" /\ Copy(m).n = m
      /\ \A m : Frame(m).kind = "frame" /\ Frame(m).n = m
  BY DEF Copy, Frame
<1>6. \A i \in DOMAIN all : \E k \in DOMAIN frames : frames[k].n = all[i].n
  <2>1. ASSUME NEW i \in DOMAIN all PROVE \E k \in DOMAIN frames : frames[k].n = all[i].n
    <3>1. all[i].kind \in {"frame", "copy"}
      BY DEF Handed, Copy, Frame
    <3>2. all[i].n \in {all[j].n : j \in {j \in DOMAIN all : all[j].kind = all[i].kind}}
      OBVIOUS
    <3>3. all[i].n \in {frames[k].n : k \in {k \in DOMAIN frames : IsFor(all[i].kind, frames[k], ip)}}
      BY <3>1, <3>2 DEF InStep
    <3> QED
      BY <3>3
  <2> QED
    BY <2>1
<1> HIDE DEF fresh, l, n, after
<1>7. ASSUME NEW kind \in {"frame", "copy"}
      PROVE  {t[i].n : i \in {i \in DOMAIN t : t[i].kind = kind}}
               = {after[k].n : k \in {k \in DOMAIN after : IsFor(kind, after[k], ip)}}
  <2> DEFINE A == {t[i].n : i \in {i \in DOMAIN t : t[i].kind = kind}}
             B == {after[k].n : k \in {k \in DOMAIN after : IsFor(kind, after[k], ip)}}
             C == {all[i].n : i \in {i \in DOMAIN all : all[i].kind = kind}}
             D == {frames[k].n : k \in {k \in DOMAIN frames : IsFor(kind, frames[k], ip)}}
             E == IF IsFor(kind, p, ip) THEN {n} ELSE {}
  <2>1. C = D
    BY DEF InStep
  <2>2. A = C \cup E
    <3>1. ASSUME NEW x \in A PROVE x \in C \cup E
      <4>1. PICK i \in DOMAIN t : t[i].kind = kind /\ x = t[i].n
        BY <3>1
      <4>2. CASE i \in DOMAIN all
        BY <1>3, <4>1, <4>2
      <4>3. CASE i \in fresh
        BY <1>3, <1>4, <1>5, <4>1, <4>3
      <4> QED
        BY <1>3, <4>2, <4>3
    <3>2. C \subseteq A
      BY <1>3
    <3>3. ASSUME NEW x \in E PROVE x \in A
      <4>1. PICK i \in fresh : t[i] = IF kind = "copy" THEN Copy(n) ELSE Frame(n)
        BY <1>4, <3>3
      <4>2. i \in DOMAIN t /\ t[i].kind = kind /\ t[i].n = x
        BY <1>5, <3>3, <4>1 DEF fresh
      <4> QED
        BY <4>2
    <3> QED
      BY <3>1, <3>2, <3>3
  <2>3. B = D \cup E
    <3>1. ASSUME NEW x PROVE x \in B <=> x \in D \cup E
      <4>1. ASSUME x \in B PROVE x \in D \cup E
        <5>1. PICK k \in DOMAIN after : IsFor(kind, after[k], ip) /\ x = after[k].n
          BY <4>1
        <5>2. CASE k \in DOMAIN frames
          <6>1. IsFor(kind, frames[k], ip) /\ x = frames[k].n
            BY <1>1, <5>1, <5>2
          <6> QED
            BY <5>2, <6>1
        <5>3. CASE k = l
          BY <1>1, <5>1, <5>3 DEF n
        <5> QED
          BY <1>1, <5>2, <5>3
      <4>2. ASSUME x \in D PROVE x \in B
        <5>1. PICK k \in DOMAIN frames : IsFor(kind, frames[k], ip) /\ x = frames[k].n
          BY <4>2
        <5>2. k \in DOMAIN after /\ IsFor(kind, after[k], ip) /\ x = after[k].n
          BY <1>1, <5>1
        <5> QED
          BY <5>2
      <4>3. ASSUME x \in E PROVE x \in B
        <5>1. l \in DOMAIN after /\ IsFor(kind, after[l], ip) /\ x = after[l].n
          BY <1>1, <4>3 DEF n
        <5> QED
          BY <5>1
      <4> QED
        BY <4>1, <4>2, <4>3
    <3> QED
      BY <3>1
  <2> HIDE DEF A, B, C, D, E
  <2>4. A = B
    BY <2>1, <2>2, <2>3
  <2> QED
    BY <2>4 DEF A, B
<1>8. ASSUME NEW i \in DOMAIN t, NEW j \in DOMAIN t, i < j, t[i].kind = t[j].kind
      PROVE  \E k, m \in DOMAIN after : k < m /\ after[k].n = t[i].n /\ after[m].n = t[j].n
  <2>1. i \in DOMAIN all /\ t[i] = all[i]
    BY <1>3, <1>5, <1>8
  <2>2. CASE j \in DOMAIN all
    <3>1. \E k, m \in DOMAIN frames : k < m /\ frames[k].n = all[i].n /\ frames[m].n = all[j].n
      BY <1>3, <1>8, <2>1, <2>2 DEF InStep
    <3>2. PICK k \in DOMAIN frames, m \in DOMAIN frames :
            k < m /\ frames[k].n = t[i].n /\ frames[m].n = t[j].n
      BY <1>3, <2>1, <2>2, <3>1
    <3> QED
      BY <1>1, <3>2
  <2>3. CASE j \in fresh
    <3>1. t[j].n = p.n
      BY <1>3, <1>5, <2>3 DEF n
    <3> QED
      BY <1>1, <1>6, <2>1, <3>1
  <2> QED
    BY <1>3, <2>2, <2>3
<1>9. ASSUME NEW i \in DOMAIN t, NEW j \in DOMAIN t, t[i].kind = "frame", t[j] = Copy(t[i].n)
      PROVE  j < i
  <2>1. t[j].n = t[i].n /\ t[j].kind = "copy"
    BY <1>5, <1>9
  <2>2. CASE i \in DOMAIN all /\ j \in DOMAIN all
    BY <1>3, <1>9, <2>2 DEF InStep
  <2>3. CASE i \in fresh /\ j \in DOMAIN all
    BY <1>3, <2>3
  <2>4. CASE i \in DOMAIN all /\ j \in fresh
    <3>1. t[j].n = n /\ t[i].n = all[i].n
      BY <1>3, <1>5, <2>4
    <3>2. all[i].n # n
      BY <1>6, <2>4 DEF n
    <3> QED
      BY <2>1, <3>1, <3>2
  <2>5. CASE i \in fresh /\ j \in fresh
    <3>1. i \in Int /\ j \in Int
      OBVIOUS
    <3>2. i # j /\ ~(i < j)
      BY <1>3, <1>5, <1>9, <2>1, <2>5
    <3> QED
      BY <3>1, <3>2
  <2> QED
    BY <1>3, <2>2, <2>3, <2>4, <2>5
<1> QED
  BY <1>7, <1>8, <1>9 DEF InStep, after

(* What is handed over of a frame: itself, its copy, both, or nothing.     *)
Adds(kinds, n) ==
  CopyIf("copy" \in kinds, n) \o IF "frame" \in kinds THEN <<Frame(n)>> ELSE <<>>

LEMMA AddsGrow ==
  ASSUME NEW all \in Seq(Handed), NEW n \in Nat, NEW kinds \in SUBSET {"copy", "frame"},
         NEW t, t = all \o Adds(kinds, n)
  PROVE  /\ Adds(kinds, n) \in Seq(Handed) /\ t \in Seq(Handed)
         /\ Grown(all, t, n, kinds)
<1>1. Copy(n) \in Handed /\ Frame(n) \in Handed /\ Copy(n) # Frame(n)
  <2>1. Copy(n).kind = "copy" /\ Frame(n).kind = "frame"
    BY DEF Copy, Frame
  <2> QED
    BY <2>1 DEF Handed
<1> DEFINE L == Len(all)
<1>2. L \in Nat /\ DOMAIN all = 1 .. L
  OBVIOUS
<1>3. CASE "copy" \in kinds /\ "frame" \in kinds
  <2> DEFINE add == <<Copy(n)>> \o <<Frame(n)>>
  <2>1. Adds(kinds, n) = add
    BY <1>3 DEF Adds, CopyIf
  <2>2. add \in Seq(Handed) /\ Len(add) = 2 /\ add[1] = Copy(n) /\ add[2] = Frame(n)
    BY <1>1
  <2> HIDE DEF add
  <2>3. /\ t \in Seq(Handed) /\ DOMAIN t = 1 .. L + 2
        /\ \A i \in DOMAIN all : t[i] = all[i]
        /\ t[L + 1] = Copy(n) /\ t[L + 2] = Frame(n)
    <3>0. t = all \o add
      BY <2>1
    <3>1. /\ all \o add \in Seq(Handed) /\ Len(all \o add) = L + Len(add)
          /\ \A i \in 1 .. L + Len(add) :
               (all \o add)[i] = IF i <= L THEN all[i] ELSE add[i - L]
      <4>1. all \in Seq(Handed) /\ add \in Seq(Handed)
        BY <2>2
      <4> QED
        BY <4>1, ConcatProperties, Zenon
    <3>2. /\ t \in Seq(Handed) /\ Len(t) = L + 2
          /\ \A i \in 1 .. L + 2 : t[i] = IF i <= L THEN all[i] ELSE add[i - L]
      BY <2>2, <3>0, <3>1, Zenon
    <3>3. DOMAIN t = 1 .. L + 2
      BY <3>2
    <3>4. \A i \in 1 .. L : i \in 1 .. L + 2 /\ i <= L
      BY <1>2
    <3>5. /\ L + 1 \in 1 .. L + 2 /\ L + 2 \in 1 .. L + 2 /\ ~(L + 1 <= L) /\ ~(L + 2 <= L)
          /\ (L + 1) - L = 1 /\ (L + 2) - L = 2
      BY <1>2
    <3> HIDE DEF L
    <3>6. t[L + 1] = add[(L + 1) - L] /\ t[L + 2] = add[(L + 2) - L]
      <4>1. \A i \in 1 .. L + 2 : ~(i <= L) => t[i] = add[i - L]
        BY <3>2
      <4> QED
        BY <3>5, <4>1
    <3>7. t[L + 1] = add[1] /\ t[L + 2] = add[2]
      BY <3>5, <3>6, Zenon
    <3>8. \A i \in DOMAIN all : t[i] = all[i]
      BY <1>2, <3>2, <3>4
    <3> QED
      BY <2>2, <3>2, <3>3, <3>7, <3>8
  <2>4. DOMAIN t \ DOMAIN all = {L + 1, L + 2}
    BY <1>2, <2>3
  <2> HIDE DEF L
  <2>5. Grown(all, t, n, kinds)
    BY <1>1, <1>3, <1>2, <2>3, <2>4 DEF Grown
  <2> QED
    BY <2>1, <2>2, <2>3, <2>5
<1>4. ASSUME ~("copy" \in kinds <=> "frame" \in kinds) PROVE
        /\ Adds(kinds, n) \in Seq(Handed) /\ t \in Seq(Handed) /\ Grown(all, t, n, kinds)
  <2> DEFINE x == IF "copy" \in kinds THEN Copy(n) ELSE Frame(n)
  <2>0. \A y : <<y>> \o <<>> = <<y>> /\ <<>> \o <<y>> = <<y>>
    OBVIOUS
  <2>1. Adds(kinds, n) = <<x>>
    <3>1. CASE "copy" \in kinds
      BY <1>4, <2>0, <3>1, Zenon DEF Adds, CopyIf
    <3>2. CASE "copy" \notin kinds
      BY <1>4, <2>0, <3>2, Zenon DEF Adds, CopyIf
    <3> QED
      BY <3>1, <3>2
  <2>2. x \in {Copy(n), Frame(n)} /\ x \in Handed
    BY <1>1
  <2> HIDE DEF x
  <2>3. Adds(kinds, n) \in Seq(Handed)
    BY <2>1, <2>2
  <2>4. /\ t \in Seq(Handed) /\ DOMAIN t = 1 .. L + 1
        /\ \A i \in DOMAIN all : t[i] = all[i]
        /\ t[L + 1] = x
    BY <2>1, <2>2
  <2>5. DOMAIN t \ DOMAIN all = {L + 1}
    BY <1>2, <2>4
  <2>6. x = Copy(n) <=> "copy" \in kinds
    BY <1>1 DEF x
  <2>7. x = Frame(n) <=> "frame" \in kinds
    BY <1>1, <1>4 DEF x
  <2> HIDE DEF L
  <2>8. Grown(all, t, n, kinds)
    BY <1>1, <1>2, <1>4, <2>2, <2>4, <2>5, <2>6, <2>7 DEF Grown
  <2> QED
    BY <2>3, <2>4, <2>8
<1>5. CASE "copy" \in kinds /\ "frame" \notin kinds
  BY <1>1, <1>4, <1>5
<1>6. CASE "copy" \notin kinds /\ "frame" \in kinds
  BY <1>1, <1>4, <1>6
<1>7. CASE "copy" \notin kinds /\ "frame" \notin kinds
  <2>1. Adds(kinds, n) = <<>>
    BY <1>7 DEF Adds, CopyIf
  <2>2. t = all /\ Adds(kinds, n) \in Seq(Handed)
    BY <2>1
  <2> QED
    BY <1>7, <2>2 DEF Grown
<1> QED
  BY <1>3, <1>5, <1>6, <1>7

(* A frame that passes is handed over with its copy, in its place.         *)
LEMMA PlainPasses ==
  ASSUME PlainInv, NEW n \in Nat, NEW sent \in BOOLEAN, passed' = Passes(n, sent),
         NEW kinds \in SUBSET {"copy", "frame"},
         pout' = pout \o Adds(kinds, n), UNCHANGED <<router, handed>>,
         n \notin Past,
         "copy" \in kinds <=> pvmode = 1 \/ (pmode = 1 /\ ~sent),
         "frame" \in kinds <=> IF sent THEN router ELSE pmode = 0
  PROVE  /\ CopiesInStep' /\ pout' \in Seq(Handed) /\ passed' \in Seq(Passage)
         /\ Past' = Past \cup {n}
<1> DEFINE p == [n |-> n, sent |-> sent, mode |-> pmode, vmode |-> pvmode]
           all == handed \o pout
<1>1. handed \in Seq(Handed) /\ pout \in Seq(Handed) /\ passed \in Seq(Passage) /\ PlainTypes
  BY DEF PlainInv, PlainTypes
<1>2. p \in Passage /\ p.n = n
  BY DEF PlainInv, PlainTypes, Passage
<1>3. /\ IsFor("copy", p, router) <=> "copy" \in kinds
      /\ IsFor("frame", p, router) <=> "frame" \in kinds
  <2>1. IsFor("copy", p, router) <=> "copy" \in kinds
    BY DEF IsFor
  <2>2. IsFor("frame", p, router) <=> "frame" \in kinds
    BY DEF IsFor
  <2> QED
    BY <2>1, <2>2
<1>4. all \in Seq(Handed)
  BY <1>1
<1>5. Adds(kinds, n) \in Seq(Handed)
  BY <1>4, AddsGrow
<1>6. pout' \in Seq(Handed) /\ (handed \o pout)' = all \o Adds(kinds, n)
  <2>1. pout' \in Seq(Handed)
    BY <1>1, <1>5
  <2>2. handed \o (pout \o Adds(kinds, n)) = (handed \o pout) \o Adds(kinds, n)
    <3>1. handed \in Seq(Handed) /\ pout \in Seq(Handed) /\ Adds(kinds, n) \in Seq(Handed)
      BY <1>1, <1>5
    <3> QED
      BY <3>1, ConcatAssociative
  <2> QED
    BY <2>1, <2>2
<1>7. passed' = Append(passed, p)
  BY DEF Passes
<1> HIDE DEF p
<1>8. CopiesInStep'
  <2> DEFINE t == all \o Adds(kinds, n)
  <2>1. InStep(all, passed, router)
    BY DEF PlainInv, CopiesInStep
  <2> HIDE DEF all
  <2>2. t \in Seq(Handed) /\ Grown(all, t, n, kinds)
    BY <1>4, AddsGrow
  <2> HIDE DEF t
  <2>3. Grown(all, t, p.n, kinds) /\ \A k \in DOMAIN passed : passed[k].n # p.n
    BY <1>2, <2>2 DEF Past
  <2>4. InStep(t, Append(passed, p), router)
    BY <1>1, <1>2, <1>3, <1>4, <2>1, <2>2, <2>3, PassesInStep
  <2> QED
    BY <1>6, <1>7, <2>4 DEF CopiesInStep, t
<1>9. Past' = Past \cup {n}
  <2>1. /\ \A k \in DOMAIN passed' : k \in DOMAIN passed \/ k = Len(passed) + 1
        /\ \A k \in DOMAIN passed : k \in DOMAIN passed' /\ passed'[k] = passed[k]
        /\ Len(passed) + 1 \in DOMAIN passed' /\ passed'[Len(passed) + 1].n = n
    BY <1>1, <1>2, <1>7
  <2>2. Past' = {passed'[k].n : k \in DOMAIN passed'}
    BY DEF Past
  <2>3. \A x \in Past' : x \in Past \cup {n}
    BY <2>1, <2>2 DEF Past
  <2>4. \A x \in Past \cup {n} : x \in Past'
    BY <2>1, <2>2 DEF Past
  <2> QED
    BY <2>3, <2>4
<1> QED
  BY <1>1, <1>2, <1>6, <1>7, <1>8, <1>9

LEMMA NumbersBelow ==
  ASSUME PlainTypes, NumbersApart
  PROVE  \A n \in Waiting \cup Coming \cup Past : n \in Nat /\ n < pno
<1>1. \A n \in Waiting : n \in Nat
  BY DEF PlainTypes, Waiting
<1>2. \A n \in Coming : n \in Nat
  <2> DEFINE R == [kind : {"frame", "other"}, n : Nat]
  <2>1. \A i \in DOMAIN under : under[i] \in R
    <3>1. under \in Seq(R)
      BY DEF PlainTypes
    <3> HIDE DEF R
    <3> QED
      BY <3>1
  <2>2. \A i \in DOMAIN under : under[i].n \in Nat
    BY <2>1
  <2> QED
    BY <2>2 DEF Coming
<1>3. \A n \in Past : n \in Nat
  <2>1. \A k \in DOMAIN passed : passed[k] \in Passage
    BY DEF PlainTypes
  <2>2. \A k \in DOMAIN passed : passed[k].n \in Nat
    BY <2>1 DEF Passage
  <2> QED
    BY <2>2 DEF Past
<1> QED
  BY <1>1, <1>2, <1>3 DEF NumbersApart

LEMMA NumbersStay ==
  ASSUME PlainTypes, NumbersApart, UNCHANGED <<pin, under, passed, pno>>
  PROVE  NumbersApart'
<1>1. Waiting' = Waiting /\ Coming' = Coming /\ Past' = Past
  BY DEF Waiting, Coming, Past
<1> QED
  BY <1>1 DEF NumbersApart

LEMMA PlainStarts == PlainInit => PlainInv
BY DEF PlainInit, PlainInv, PlainTypes, NumbersApart, Waiting, Coming, Past, CopiesInStep, InStep

LEMMA PlainStep ==
  ASSUME PlainInv, PlainNext
  PROVE  PlainInv'
<1>0. PlainTypes /\ NumbersApart /\ CopiesInStep
  BY DEF PlainInv
<1>1. CASE Overhear
  <2>1. PICK kind \in {"frame", "other"} : under' = Append(under, [kind |-> kind, n |-> pno])
    BY <1>1 DEF Overhear
  <2>2. /\ pno' = pno + 1
        /\ UNCHANGED <<router, pmode, pvmode, pin, pout, pstep, handed, passed>>
    BY <1>1 DEF Overhear
  <2>3. /\ under' \in Seq([kind : {"frame", "other"}, n : Nat])
        /\ \A i \in DOMAIN under' : i \in DOMAIN under \/ (under'[i].n = pno /\ i = Len(under) + 1)
        /\ \A i \in DOMAIN under : under'[i] = under[i]
    <3> DEFINE x == [kind |-> kind, n |-> pno]
               R == [kind : {"frame", "other"}, n : Nat]
    <3>1. x \in R /\ x.n = pno /\ under \in Seq(R)
      BY <1>0 DEF PlainTypes
    <3> HIDE DEF x, R
    <3>2. /\ under' \in Seq(R)
          /\ \A i \in DOMAIN under' : i \in DOMAIN under \/ i = Len(under) + 1
          /\ \A i \in DOMAIN under : under'[i] = under[i]
          /\ under'[Len(under) + 1] = x
      BY <2>1, <3>1, Appended DEF x
    <3> QED
      BY <3>1, <3>2 DEF R
  <2>4. PlainTypes'
    BY <1>0, <2>2, <2>3 DEF PlainTypes
  <2>5. NumbersApart'
    <3>1. pno \in Nat /\ Waiting' = Waiting /\ Past' = Past
      BY <1>0, <2>2 DEF PlainTypes, Waiting, Past
    <3>2. Coming' \subseteq Coming \cup {pno}
      BY <2>3 DEF Coming
    <3>3. \A i \in DOMAIN under : under[i].n \in Coming
      BY DEF Coming
    <3>4. \A n \in Waiting \cup Coming \cup Past : n < pno /\ n \in Nat
      BY <1>0, NumbersBelow
    <3>5. \A i, j \in DOMAIN under' : i # j => under'[i].n # under'[j].n
      BY <1>0, <2>3, <3>1, <3>3, <3>4 DEF NumbersApart
    <3> QED
      BY <1>0, <2>2, <3>1, <3>2, <3>4, <3>5 DEF NumbersApart
  <2>6. CopiesInStep'
    BY <1>0, <2>2 DEF CopiesInStep
  <2> QED
    BY <2>4, <2>5, <2>6 DEF PlainInv
<1>2. CASE ReadUnder
  <2> DEFINE f == Head(under)
  <2>1. /\ under # <<>> /\ under' = Tail(under)
        /\ pstep' = IF ~router /\ pin # <<>> THEN "write" ELSE "read"
        /\ UNCHANGED <<router, pmode, pvmode, pin, pno, handed>>
        /\ IF f.kind = "frame"
           THEN pout' = pout \o HandsOver(f.n) /\ passed' = Passes(f.n, FALSE)
           ELSE UNCHANGED <<pout, passed>>
    BY <1>2 DEF ReadUnder
  <2>2. /\ f \in [kind : {"frame", "other"}, n : Nat] /\ f = under[1] /\ 1 \in DOMAIN under
        /\ under' \in Seq([kind : {"frame", "other"}, n : Nat])
        /\ \A i \in DOMAIN under' : i + 1 \in DOMAIN under /\ under'[i] = under[i + 1] /\ i + 1 # 1
        /\ \A i, j \in DOMAIN under' : i # j => i + 1 # j + 1
    <3> DEFINE R == [kind : {"frame", "other"}, n : Nat]
    <3>1. under \in Seq(R)
      BY <1>0 DEF PlainTypes
    <3> HIDE DEF R
    <3>2. /\ f \in R /\ f = under[1] /\ 1 \in DOMAIN under /\ under' \in Seq(R)
          /\ \A i \in DOMAIN under' : i + 1 \in DOMAIN under /\ under'[i] = under[i + 1] /\ i + 1 # 1
          /\ \A i, j \in DOMAIN under' : i # j => i + 1 # j + 1
      BY <2>1, <3>1, Tailed DEF f
    <3> QED
      BY <3>2 DEF R
  <2>3. Coming' \subseteq Coming \ {f.n} /\ f.n \in Coming /\ Waiting' = Waiting
    <3>1. \A i \in DOMAIN under' : under'[i].n \in Coming /\ under'[i].n # f.n
      BY <1>0, <2>2 DEF NumbersApart, Coming
    <3>2. Coming' = {under'[i].n : i \in DOMAIN under'}
      BY DEF Coming
    <3> QED
      BY <2>1, <2>2, <3>1, <3>2 DEF Waiting, Coming
  <2>4. \A i, j \in DOMAIN under' : i # j => under'[i].n # under'[j].n
    BY <1>0, <2>2 DEF NumbersApart
  <2> HIDE DEF f
  <2>5. CASE f.kind = "frame"
    <3>1. PICK kinds \in SUBSET {"copy", "frame"} :
            /\ "copy" \in kinds <=> pmode = 1 \/ pvmode = 1
            /\ "frame" \in kinds <=> pmode = 0
      <4>1. {k \in {"copy", "frame"} : \/ k = "copy" /\ (pmode = 1 \/ pvmode = 1)
                                       \/ k = "frame" /\ pmode = 0} \in SUBSET {"copy", "frame"}
        OBVIOUS
      <4> QED
        BY <4>1
    <3>2. HandsOver(f.n) = Adds(kinds, f.n)
      <4>1. CopyIf(pmode = 1 \/ pvmode = 1, f.n) = CopyIf("copy" \in kinds, f.n)
        BY <3>1 DEF CopyIf
      <4>2. (IF pmode = 0 THEN <<Frame(f.n)>> ELSE <<>>)
              = (IF "frame" \in kinds THEN <<Frame(f.n)>> ELSE <<>>)
        BY <3>1
      <4> QED
        BY <4>1, <4>2, Zenon DEF HandsOver, Adds
    <3>3. f.n \notin Past
      BY <1>0, <2>3 DEF NumbersApart
    <3>4. /\ f.n \in Nat /\ pout' = pout \o Adds(kinds, f.n) /\ passed' = Passes(f.n, FALSE)
          /\ "copy" \in kinds <=> pvmode = 1 \/ (pmode = 1 /\ ~FALSE)
          /\ "frame" \in kinds <=> IF FALSE THEN router ELSE pmode = 0
      BY <2>1, <2>2, <2>5, <3>1, <3>2
    <3>5. /\ CopiesInStep' /\ pout' \in Seq(Handed) /\ passed' \in Seq(Passage)
          /\ Past' = Past \cup {f.n}
      BY <2>1, <3>3, <3>4, PlainPasses
    <3>6. PlainTypes'
      BY <1>0, <2>1, <2>2, <3>5 DEF PlainTypes
    <3>7. NumbersApart'
      BY <1>0, <2>1, <2>3, <2>4, <3>5 DEF NumbersApart
    <3> QED
      BY <3>5, <3>6, <3>7 DEF PlainInv
  <2>6. CASE f.kind # "frame"
    <3>1. UNCHANGED <<pout, passed>>
      BY <2>1, <2>6
    <3>2. PlainTypes'
      BY <1>0, <2>1, <2>2, <3>1 DEF PlainTypes
    <3>3. NumbersApart'
      BY <1>0, <2>1, <2>3, <2>4, <3>1 DEF NumbersApart, Past
    <3>4. CopiesInStep'
      BY <1>0, <2>1, <3>1 DEF CopiesInStep
    <3> QED
      BY <3>2, <3>3, <3>4 DEF PlainInv
  <2> QED
    BY <2>5, <2>6
<1>3. CASE RouterSend
  <2>1. /\ router /\ pno' = pno + 1 /\ passed' = Passes(pno, TRUE)
        /\ pout' = pout \o CopyIf(pvmode = 1, pno) \o <<Frame(pno)>>
        /\ UNCHANGED <<router, pmode, pvmode, pin, pstep, under, handed>>
    BY <1>3 DEF RouterSend
  <2>2. pno \in Nat /\ pno \notin Past /\ Waiting' = Waiting /\ Coming' = Coming
        /\ \A n \in Waiting \cup Coming \cup Past : n < pno /\ n \in Nat
    <3>1. pno \in Nat /\ Waiting' = Waiting /\ Coming' = Coming
      BY <1>0, <2>1 DEF PlainTypes, Waiting, Coming
    <3>2. \A n \in Waiting \cup Coming \cup Past : n < pno /\ n \in Nat
      BY <1>0, NumbersBelow
    <3> QED
      BY <3>1, <3>2
  <2>3. PICK kinds \in SUBSET {"copy", "frame"} :
          ("copy" \in kinds <=> pvmode = 1) /\ "frame" \in kinds
    <3>1. {k \in {"copy", "frame"} : k = "copy" => pvmode = 1} \in SUBSET {"copy", "frame"}
      OBVIOUS
    <3> QED
      BY <3>1
  <2>4. pout' = pout \o Adds(kinds, pno)
    <3>1. CopyIf(pvmode = 1, pno) = CopyIf("copy" \in kinds, pno)
      BY <2>3 DEF CopyIf
    <3>2. Adds(kinds, pno) = CopyIf(pvmode = 1, pno) \o <<Frame(pno)>>
      BY <2>3, <3>1, Zenon DEF Adds
    <3>3. /\ CopyIf(pvmode = 1, pno) \in Seq(Handed) /\ <<Frame(pno)>> \in Seq(Handed)
          /\ pout \in Seq(Handed)
      <4>1. Copy(pno) \in Handed /\ Frame(pno) \in Handed /\ pout \in Seq(Handed)
        BY <1>0, <2>2 DEF Handed, PlainTypes
      <4>2. <<Copy(pno)>> \in Seq(Handed) /\ <<>> \in Seq(Handed) /\ <<Frame(pno)>> \in Seq(Handed)
        BY <4>1
      <4> QED
        BY <4>1, <4>2, Zenon DEF CopyIf
    <3>4. (pout \o CopyIf(pvmode = 1, pno)) \o <<Frame(pno)>>
            = pout \o (CopyIf(pvmode = 1, pno) \o <<Frame(pno)>>)
      BY <3>3, ConcatAssociative
    <3> QED
      BY <2>1, <3>2, <3>4, Zenon
  <2>5. /\ "copy" \in kinds <=> pvmode = 1 \/ (pmode = 1 /\ ~TRUE)
        /\ "frame" \in kinds <=> IF TRUE THEN router ELSE pmode = 0
    BY <2>1, <2>3
  <2>6. /\ CopiesInStep' /\ pout' \in Seq(Handed) /\ passed' \in Seq(Passage)
        /\ Past' = Past \cup {pno}
    BY <2>1, <2>2, <2>4, <2>5, PlainPasses
  <2>7. PlainTypes'
    <3>1. pno' \in Nat
      BY <2>1, <2>2
    <3> QED
      BY <1>0, <2>1, <2>6, <3>1 DEF PlainTypes
  <2>8. NumbersApart'
    <3>1. \A n \in Waiting \cup Coming \cup Past \cup {pno} : n < pno + 1
      BY <2>2
    <3>2. pno \notin Waiting /\ pno \notin Coming
      BY <2>2
    <3> QED
      BY <1>0, <2>1, <2>2, <2>6, <3>1, <3>2 DEF NumbersApart
  <2> QED
    BY <2>6, <2>7, <2>8 DEF PlainInv
<1>4. CASE KernelSend
  <2>1. /\ ~router /\ pno' = pno + 1 /\ pin' = Append(pin, pno)
        /\ UNCHANGED <<router, pmode, pvmode, pout, pstep, under, handed, passed>>
    BY <1>4 DEF KernelSend
  <2>2. /\ pin' \in Seq(Nat) /\ pin' # <<>>
        /\ \A i \in DOMAIN pin' : i \in DOMAIN pin \/ (pin'[i] = pno /\ i = Len(pin) + 1)
        /\ \A i \in DOMAIN pin : pin'[i] = pin[i]
    BY <1>0, <2>1 DEF PlainTypes
  <2>3. PlainTypes'
    BY <1>0, <2>1, <2>2 DEF PlainTypes
  <2>4. NumbersApart'
    <3>1. pno \in Nat /\ Coming' = Coming /\ Past' = Past
      BY <1>0, <2>1 DEF PlainTypes, Coming, Past
    <3>2. Waiting' \subseteq Waiting \cup {pno} /\ \A i \in DOMAIN pin : pin[i] \in Waiting
      BY <2>2 DEF Waiting
    <3>3. \A n \in Waiting \cup Coming \cup Past : n < pno /\ n \in Nat
      BY <1>0, NumbersBelow
    <3>4. \A i, j \in DOMAIN pin' : i # j => pin'[i] # pin'[j]
      BY <1>0, <2>2, <3>1, <3>2, <3>3 DEF NumbersApart
    <3> QED
      BY <1>0, <2>1, <3>1, <3>2, <3>3, <3>4 DEF NumbersApart
  <2>5. CopiesInStep'
    BY <1>0, <2>1 DEF CopiesInStep
  <2> QED
    BY <2>3, <2>4, <2>5 DEF PlainInv
<1>5. CASE ReadEnds
  <2>1. /\ ~router /\ pin # <<>>
        /\ UNCHANGED <<router, pmode, pvmode, pin, pout, under, pno, handed, passed>>
    BY <1>5 DEF ReadEnds
  <2>2. PlainTypes' /\ NumbersApart'
    BY <1>0, <2>1, NumbersStay DEF PlainTypes
  <2>3. CopiesInStep'
    BY <1>0, <2>1 DEF CopiesInStep
  <2> QED
    BY <2>2, <2>3 DEF PlainInv
<1>6. CASE WriteDown
  <2>1. /\ pstep = "write" /\ pstep' = "read" /\ ~router /\ pin # <<>>
        /\ UNCHANGED <<router, pmode, pvmode, under, pno, handed>>
    BY <1>0, <1>6 DEF WriteDown, PlainTypes
  <2>2. CASE UNCHANGED <<pin, pout, passed>>
    <3>1. PlainTypes' /\ NumbersApart'
      BY <1>0, <2>1, <2>2, NumbersStay DEF PlainTypes
    <3>2. CopiesInStep'
      BY <1>0, <2>1, <2>2 DEF CopiesInStep
    <3> QED
      BY <3>1, <3>2 DEF PlainInv
  <2>3. CASE /\ pin' = Tail(pin) /\ pout' = pout \o CopyIf(pvmode = 1, Head(pin))
             /\ passed' = Passes(Head(pin), TRUE)
    <3> DEFINE n == Head(pin)
    <3>1. /\ n \in Nat /\ n = pin[1] /\ 1 \in DOMAIN pin /\ pin' \in Seq(Nat)
          /\ \A i \in DOMAIN pin' : i + 1 \in DOMAIN pin /\ pin'[i] = pin[i + 1] /\ i + 1 # 1
          /\ \A i, j \in DOMAIN pin' : i # j => i + 1 # j + 1
      <4>1. pin \in Seq(Nat)
        BY <1>0 DEF PlainTypes
      <4> QED
        BY <2>1, <2>3, <4>1, Tailed
    <3>2. PICK kinds \in SUBSET {"copy", "frame"} :
            ("copy" \in kinds <=> pvmode = 1) /\ "frame" \notin kinds
      <4>1. {k \in {"copy"} : pvmode = 1} \in SUBSET {"copy", "frame"}
        OBVIOUS
      <4> QED
        BY <4>1
    <3>3. pout' = pout \o Adds(kinds, n)
      <4>1. CopyIf(pvmode = 1, n) = CopyIf("copy" \in kinds, n)
        BY <3>2 DEF CopyIf
      <4>2. CopyIf(pvmode = 1, n) \in Seq(Handed)
        <5>1. Copy(n) \in Handed
          BY <3>1 DEF Handed
        <5>2. <<Copy(n)>> \in Seq(Handed) /\ <<>> \in Seq(Handed)
          BY <5>1
        <5> QED
          BY <5>2, Zenon DEF CopyIf
      <4>3. CopyIf(pvmode = 1, n) \o <<>> = CopyIf(pvmode = 1, n)
        BY <4>2, ConcatEmptySeq
      <4>4. Adds(kinds, n) = CopyIf(pvmode = 1, n) \o <<>>
        BY <3>2, <4>1, Zenon DEF Adds
      <4> QED
        BY <2>3, <4>3, <4>4, Zenon
    <3> HIDE DEF n
    <3>4. n \notin Past
      BY <1>0, <3>1 DEF NumbersApart, Waiting
    <3>5. /\ passed' = Passes(n, TRUE)
          /\ "copy" \in kinds <=> pvmode = 1 \/ (pmode = 1 /\ ~TRUE)
          /\ "frame" \in kinds <=> IF TRUE THEN router ELSE pmode = 0
      BY <2>1, <2>3, <3>2 DEF n
    <3>6. /\ CopiesInStep' /\ pout' \in Seq(Handed) /\ passed' \in Seq(Passage)
          /\ Past' = Past \cup {n}
      BY <2>1, <3>1, <3>3, <3>4, <3>5, PlainPasses
    <3>7. PlainTypes'
      BY <1>0, <2>1, <3>1, <3>6 DEF PlainTypes
    <3>8. NumbersApart'
      <4>1. \A i \in DOMAIN pin' : pin'[i] \in Waiting /\ pin'[i] # n
        BY <1>0, <3>1 DEF NumbersApart, Waiting
      <4>2. Waiting' \subseteq Waiting \ {n} /\ n \in Waiting /\ Coming' = Coming
        BY <2>1, <3>1, <4>1 DEF Waiting, Coming
      <4>3. \A i, j \in DOMAIN pin' : i # j => pin'[i] # pin'[j]
        BY <1>0, <3>1 DEF NumbersApart
      <4> QED
        BY <1>0, <2>1, <3>6, <4>2, <4>3 DEF NumbersApart
    <3> QED
      BY <3>6, <3>7, <3>8 DEF PlainInv
  <2> QED
    BY <1>6, <2>2, <2>3 DEF WriteDown
<1>7. CASE PlainGet_L_Data
  <2>1. /\ pout # <<>> /\ handed' = Append(handed, Head(pout)) /\ pout' = Tail(pout)
        /\ UNCHANGED <<router, pmode, pvmode, pin, pstep, under, pno, passed>>
    BY <1>7 DEF PlainGet_L_Data
  <2>2. handed \in Seq(Handed) /\ pout \in Seq(Handed)
    BY <1>0 DEF PlainTypes
  <2>3. /\ handed' \in Seq(Handed) /\ pout' \in Seq(Handed)
        /\ handed' \o pout' = handed \o pout
    BY <2>1, <2>2, HeadMoves
  <2>4. PlainTypes' /\ NumbersApart'
    BY <1>0, <2>1, <2>3, NumbersStay DEF PlainTypes
  <2>5. CopiesInStep'
    BY <1>0, <2>1, <2>3 DEF CopiesInStep
  <2> QED
    BY <2>4, <2>5 DEF PlainInv
<1>8. CASE PlainSwitch \/ PlainOpen
  <2>1. /\ pmode' \in {0, 1} /\ pvmode' \in {0, 1}
        /\ UNCHANGED <<router, pin, pout, pstep, under, pno, handed, passed>>
    BY <1>0, <1>8 DEF PlainSwitch, PlainOpen, PlainTypes
  <2>2. PlainTypes' /\ NumbersApart'
    BY <1>0, <2>1, NumbersStay DEF PlainTypes
  <2>3. CopiesInStep'
    BY <1>0, <2>1 DEF CopiesInStep
  <2> QED
    BY <2>2, <2>3 DEF PlainInv
<1> QED
  BY <1>1, <1>2, <1>3, <1>4, <1>5, <1>6, <1>7, <1>8 DEF PlainNext, RunPlain


----------------------------------------------------------------------------
(* A behaviour shows one interface, so that the invariant speaks of that    *)
(* one; the histories of the others stay as they were.                     *)
InterfacesInv ==
  /\ url \in {"ipt", "ip", "tpuart", "bcu1", "bcu1s", "usb"}
  /\ IF url \in {"bcu1", "bcu1s"} THEN BCUInv ELSE UnitInStep
  /\ IF url = "usb" THEN USBInv ELSE ReportsInStep
  /\ IF url \in {"ip", "tpuart"} THEN PlainInv ELSE CopiesInStep

LEMMA InterfacesStart == InterfacesInit => InterfacesInv /\ APipe!PipeInit
<1> SUFFICES ASSUME NEW u \in {"ipt", "ip", "tpuart", "bcu1", "bcu1s", "usb"}, Create(u)
             PROVE  InterfacesInv /\ APipe!PipeInit
  BY DEF InterfacesInit
<1>1. url = u /\ BCUInit /\ USBInit /\ PlainInit
  BY DEF Create
<1>2. BCUInv /\ UnitInStep /\ APipe!PipeInit
  BY <1>1, BCUStarts, BCUCrosses
<1>3. USBInv /\ ReportsInStep
  BY <1>1, USBStarts, USBCrosses
<1>4. PlainInv /\ CopiesInStep
  BY <1>1, PlainStarts DEF PlainInv
<1> QED
  BY <1>1, <1>2, <1>3, <1>4 DEF InterfacesInv

LEMMA BCURests == BCUInv /\ UNCHANGED bcuvars => BCUInv'
BY DEF bcuvars, api, bcuown, BCUInv, BCUQueue, BCUHas, BCUHeard

LEMMA USBRests == USBInv /\ UNCHANGED usbvars => USBInv'
<1> SUFFICES ASSUME USBInv, UNCHANGED usbvars PROVE USBInv'
  OBVIOUS
<1>1. /\ UNCHANGED <<inqueue, send_empty, outqueue, out_signal, submitted>>
      /\ UNCHANGED <<phase, v, sendh, recvbuf, ended, usays, reports, broken, ugot, ugone, utaken>>
  BY DEF usbvars, usbown, api
<1>2. USBQueue' /\ USBGot'
  BY <1>1 DEF USBInv, USBQueue, USBGot, All, Reached
<1>3. USBTransfer' /\ USBTaken'
  BY <1>1 DEF USBInv, USBTransfer, USBTaken
<1> QED
  BY <1>2, <1>3 DEF USBInv

LEMMA PlainRests == PlainInv /\ UNCHANGED plvars => PlainInv'
<1> SUFFICES ASSUME PlainInv, UNCHANGED plvars PROVE PlainInv'
  OBVIOUS
<1>1. UNCHANGED <<router, pmode, pvmode, pin, pout, pstep, under, pno, handed, passed>>
  BY DEF plvars
<1>2. PlainTypes' /\ NumbersApart'
  BY <1>1, NumbersStay DEF PlainInv, PlainTypes
<1>3. CopiesInStep'
  BY <1>1 DEF PlainInv, CopiesInStep
<1> QED
  BY <1>2, <1>3 DEF PlainInv

LEMMA HistoriesRest ==
  /\ UnitInStep /\ UNCHANGED bcuown => UnitInStep'
  /\ ReportsInStep /\ UNCHANGED usbown => ReportsInStep'
  /\ CopiesInStep /\ UNCHANGED plvars => CopiesInStep'
<1>1. UnitInStep /\ UNCHANGED bcuown => UnitInStep'
  BY DEF UnitInStep, bcuown
<1>2. ReportsInStep /\ UNCHANGED usbown => ReportsInStep'
  BY DEF ReportsInStep, usbown
<1>3. CopiesInStep /\ UNCHANGED plvars => CopiesInStep'
  BY DEF CopiesInStep, plvars
<1> QED
  BY <1>1, <1>2, <1>3

LEMMA InterfacesStep ==
  ASSUME InterfacesInv, [InterfacesNext]_ifvars
  PROVE  /\ InterfacesInv'
         /\ \/ LeavesQueue
            \/ /\ PutsPacket \/ TakesHead
               /\ inqueue \in Seq(APacket) /\ (send_empty' = 1 <=> inqueue' = <<>>)
<1>1. CASE UNCHANGED ifvars
  <2>1. /\ UNCHANGED <<url, bcuvars, usbvars, plvars>> /\ UNCHANGED <<bcuown, usbown>>
        /\ LeavesQueue
    BY <1>1 DEF ifvars, bcuvars, usbvars, api, LeavesQueue
  <2> QED
    BY <2>1, BCURests, USBRests, PlainRests, HistoriesRest DEF InterfacesInv
<1>2. CASE TunnelOnly
  <2>1. url = "ipt" /\ url' = url /\ UNCHANGED <<bcuown, usbown, plvars>> /\ LeavesQueue
    BY <1>2 DEF TunnelOnly, Is, api, LeavesQueue
  <2> QED
    BY <2>1, HistoriesRest DEF InterfacesInv
<1>3. CASE PlainOnly /\ PlainNext
  <2>1. url \in {"ip", "tpuart"} /\ url' = url /\ UNCHANGED <<bcuown, usbown>> /\ LeavesQueue
    BY <1>3 DEF PlainOnly, Is, api, LeavesQueue
  <2>2. PlainInv'
    BY <1>3, <2>1, PlainStep DEF InterfacesInv
  <2> QED
    BY <2>1, <2>2, HistoriesRest DEF InterfacesInv
<1>4. CASE BCUOnly /\ BCUNext
  <2>1. url \in {"bcu1", "bcu1s"} /\ url' = url /\ UNCHANGED <<usbown, plvars>>
    BY <1>4 DEF BCUOnly, Is
  <2>2. BCUInv /\ BCUInv' /\ (PutsPacket \/ TakesHead \/ LeavesQueue)
    BY <1>4, <2>1, BCUStep DEF InterfacesInv
  <2>3. inqueue \in Seq(APacket) /\ (send_empty' = 1 <=> inqueue' = <<>>)
    BY <2>2 DEF BCUInv, BCUQueue
  <2> QED
    BY <2>1, <2>2, <2>3, HistoriesRest DEF InterfacesInv
<1>5. CASE USBOnly /\ USBNext
  <2>1. url = "usb" /\ url' = url /\ UNCHANGED <<bcuown, plvars>>
    BY <1>5 DEF USBOnly, Is
  <2>2. USBInv /\ USBInv' /\ (PutsPacket \/ TakesHead \/ LeavesQueue)
    BY <1>5, <2>1, USBStep DEF InterfacesInv
  <2>3. inqueue \in Seq(APacket) /\ (send_empty' = 1 <=> inqueue' = <<>>)
    BY <2>2 DEF USBInv, USBQueue
  <2> QED
    BY <2>1, <2>2, <2>3, HistoriesRest DEF InterfacesInv
<1> QED
  BY <1>1, <1>2, <1>3, <1>4, <1>5 DEF InterfacesNext

LEMMA PipeStep ==
  ASSUME InterfacesInv, [InterfacesNext]_ifvars
  PROVE  [APipe!Submit \/ APipe!Transmitted]_<<inqueue, send_empty = 1>>
<1>1. CASE LeavesQueue
  <2>1. <<inqueue, send_empty = 1>>' = <<inqueue, send_empty = 1>>
    BY <1>1, Zenon DEF LeavesQueue
  <2> QED
    BY <2>1
<1>2. CASE PutsPacket
  <2>1. PICK p \in APacket : inqueue' = Append(inqueue, p) /\ send_empty' = 0
    BY <1>2 DEF PutsPacket
  <2>2. (send_empty' = 1) = FALSE
    BY <2>1
  <2>3. \E q \in APacket : inqueue' = Append(inqueue, q) /\ (send_empty = 1)' = FALSE
    BY <2>1, <2>2, Zenon
  <2>4. APipe!Submit
    BY <2>3, Zenon DEF APipe!Submit
  <2> QED
    BY <2>4
<1>3. CASE TakesHead /\ (send_empty' = 1 <=> inqueue' = <<>>)
  <2>1. inqueue # <<>> /\ inqueue' = Tail(inqueue)
    BY <1>3 DEF TakesHead, Sent
  <2>2. (send_empty' = 1) = (inqueue' = <<>>)
    BY <1>3
  <2>3. APipe!Transmitted
    BY <2>1, <2>2, Zenon DEF APipe!Transmitted
  <2> QED
    BY <2>3
<1> QED
  BY <1>1, <1>2, <1>3, InterfacesStep

(* The drivers of a BCU 1 and of the USB keep what LowLevelDriverInterface *)
(* promises: packets leave in order, and Send_Queue_Empty_Cond is raised   *)
(* exactly while none is left, whatever fails (bcu1.cpp, bcu1serial.cpp,   *)
(* usbif.cpp).                                                             *)
THEOREM InterfacesKeepContract == InterfacesSpec => PipeKept
<1>1. InterfacesInit => InterfacesInv /\ APipe!PipeInit
  BY InterfacesStart
<1>2. InterfacesInv /\ [InterfacesNext]_ifvars
        => InterfacesInv' /\ [APipe!Submit \/ APipe!Transmitted]_<<inqueue, send_empty = 1>>
  BY InterfacesStep, PipeStep
<1> QED
  BY <1>1, <1>2, PTL DEF InterfacesSpec, PipeKept, APipe!PipeSpec

(* What left a driver's queue the unit or the interface has got, in order, *)
(* after the version; what Layer3 gets of the kernel and the network are   *)
(* the frames and the copies that the modes called for, each once and in   *)
(* order, whatever fails and whenever the modes change.                    *)
THEOREM CrossingsInStep == InterfacesSpec => []CrossesInStep
<1>1. InterfacesInit => InterfacesInv
  BY InterfacesStart
<1>2. InterfacesInv /\ [InterfacesNext]_ifvars => InterfacesInv'
  BY InterfacesStep
<1>3. InterfacesInv => CrossesInStep
  BY BCUCrosses, USBCrosses DEF InterfacesInv, PlainInv, CrossesInStep
<1> QED
  BY <1>1, <1>2, <1>3, PTL DEF InterfacesSpec

(* The tunnel of a daemon is the one of EIBNetIPLink, and stays as it was  *)
(* created where the URL names another interface: what is proved there of  *)
(* Spec holds of every interface.                                          *)
THEOREM TunnelIsTheLink == InterfacesSpec => Spec
<1>1. InterfacesInit => Init
  BY DEF InterfacesInit, Create
<1>2. [InterfacesNext]_ifvars => [Next]_vars
  <2> SUFFICES ASSUME [InterfacesNext]_ifvars PROVE [Next]_vars
    OBVIOUS
  <2>1. CASE PlainOnly \/ BCUOnly \/ USBOnly
    BY <2>1 DEF PlainOnly, BCUOnly, USBOnly
  <2>2. CASE TunnelOnly /\ Next
    BY <2>2
  <2>3. CASE UNCHANGED ifvars
    BY <2>3 DEF ifvars
  <2> QED
    BY <2>1, <2>2, <2>3 DEF InterfacesNext
<1> QED
  BY <1>1, <1>2, PTL DEF InterfacesSpec, Spec
=============================================================================
