--------------------------- MODULE DriversProofs ---------------------------
(***************************************************************************)
(* Proofs about the drivers, for all users, versions, limits and bounds.   *)
(***************************************************************************)
EXTENDS Drivers, NumberFacts, TLAPS

----------------------------------------------------------------------------
(* FT12: the queue and its semaphore.  The thread takes a packet from the  *)
(* queue only in mode 1, which it enters with a packet under way.          *)
QueueInv ==
  /\ inqueue \in Seq(FTPacket) /\ submitted \in Nat /\ sendflag \in Bit
  /\ send_empty \in {0, 1} /\ (send_empty = 1 <=> inqueue = <<>>)
  /\ mode = 1 => inqueue # <<>>

LEMMA QueueInit == FTInit => QueueInv /\ FTPipe!PipeInit
BY DEF FTInit, ApiInit, QueueInv, FTPipe!PipeInit, Bit

(* Each action hands a packet over, takes the head away, or leaves both    *)
(* the queue and the semaphore as they are.                                *)
HandsOver == \E p \in FTPacket : inqueue' = Append(inqueue, p) /\ send_empty' = 0
TakesAway == Sent /\ inqueue # <<>>
Leaves == UNCHANGED <<inqueue, send_empty>>

LEMMA QueueAction ==
  ASSUME QueueInv, FTNext
  PROVE  /\ (HandsOver \/ TakesAway \/ Leaves)
         /\ QueueInv'
<1> USE DEF QueueInv
<1>1. CASE Send_Packet
  <2>1. Data(sendflag, submitted + 1) \in FTPacket /\ submitted + 1 \in Nat
    BY <1>1, MaxSubmitAssumption DEF Send_Packet, Submit, FTPacket
  <2>2. HandsOver
    BY <1>1, <2>1 DEF Send_Packet, Submit, Put, HandsOver
  <2> QED
    BY <1>1, <2>1, <2>2 DEF Send_Packet, Submit, Put, Toggle, Bit
<1>2. CASE SendReset
  <2>1. HandsOver
    BY <1>2 DEF SendReset, HandsOver, FTPacket
  <2> QED
    BY <1>2, <2>1 DEF SendReset, FTPacket, Bit
<1>3. CASE Acknowledged /\ UNCHANGED sendflag
  <2>1. TakesAway
    BY <1>3 DEF Acknowledged, TakesAway
  <2> QED
    BY <1>3, <2>1 DEF Acknowledged, Sent, TakesAway
<1>4. CASE Leaves /\ UNCHANGED <<submitted, sendflag>> /\ (mode' = 1 => inqueue # <<>>)
  BY <1>4 DEF Leaves
<1>5. CASE Get_Packet
  BY <1>5, <1>4 DEF Get_Packet, TakePacket, host, Leaves
<1>6. CASE Stop \/ Read \/ RecvFixed \/ RecvRestarted \/ Expire
  BY <1>6, <1>4 DEF Stop, Read, RecvFixed, RecvRestarted, Received, Expire, api, Leaves
<1>7. CASE RecvAck
  BY <1>7, <1>3, <1>4 DEF RecvAck, api, Leaves
<1>8. CASE RecvData
  BY <1>8, <1>4 DEF RecvData, Received, api, Leaves
<1>9. CASE RecvRubbish
  BY <1>9, <1>3, <1>4 DEF RecvRubbish, api, Leaves
<1>10. CASE Finish
  <2>1. Leaves /\ UNCHANGED <<submitted, sendflag>>
    BY <1>10 DEF Finish, api, Leaves
  <2>2. mode' = 1 => inqueue # <<>>
    BY <1>10 DEF Finish
  <2> QED
    BY <2>1, <2>2, <1>4
<1>11. CASE DevReceive \/ DevSend \/ DevRestart \/ Noise
  BY <1>11, <1>4 DEF DevReceive, DevSend, DevRestart, Noise, api, host, Leaves
<1> QED
  BY <1>1, <1>2, <1>5, <1>6, <1>7, <1>8, <1>9, <1>10, <1>11 DEF FTNext, Run

LEMMA QueueStep ==
  ASSUME QueueInv, [FTNext]_ftvars
  PROVE  /\ QueueInv'
         /\ [FTPipe!Submit \/ FTPipe!Transmitted]_<<inqueue, send_empty = 1>>
<1>1. CASE UNCHANGED ftvars
  BY <1>1 DEF QueueInv, ftvars, api, host
<1>2. CASE FTNext
  <2>1. QueueInv' /\ (HandsOver \/ TakesAway \/ Leaves)
    BY <1>2, QueueAction
  <2>2. CASE HandsOver
    <3>1. PICK p \in FTPacket : inqueue' = Append(inqueue, p) /\ send_empty' = 0
      BY <2>2 DEF HandsOver
    <3>2. (send_empty' = 1) = FALSE
      BY <3>1
    <3>3. \E q \in FTPacket : inqueue' = Append(inqueue, q) /\ (send_empty = 1)' = FALSE
      BY <3>1, <3>2, Zenon
    <3>4. FTPipe!Submit
      BY <3>3, Zenon DEF FTPipe!Submit
    <3> QED
      BY <2>1, <3>4
  <2>3. CASE TakesAway
    <3>1. inqueue # <<>> /\ inqueue' = Tail(inqueue)
      BY <2>3 DEF TakesAway, Sent
    <3>2. (send_empty' = 1) = (inqueue' = <<>>)
      BY <2>1 DEF QueueInv
    <3>3. FTPipe!Transmitted
      BY <3>1, <3>2, Zenon DEF FTPipe!Transmitted
    <3> QED
      BY <2>1, <3>3
  <2>4. CASE Leaves
    <3>1. <<inqueue, send_empty = 1>>' = <<inqueue, send_empty = 1>>
      BY <2>4, Zenon DEF Leaves
    <3> QED
      BY <2>1, <3>1
  <2> QED
    BY <2>1, <2>2, <2>3, <2>4
<1> QED
  BY <1>1, <1>2

(* FT12LowLevelDriver keeps what LowLevelDriverInterface promises: packets *)
(* leave in order, and Send_Queue_Empty_Cond is raised exactly while none  *)
(* is left, whatever the line and the device do (ft12.cpp:118-158).        *)
THEOREM FT12KeepsContract == DriversSpec => PipeContract
<1>1. DriversInit => QueueInv /\ FTPipe!PipeInit
  BY QueueInit DEF DriversInit, Create
<1>2. QueueInv /\ [DriversNext]_dvars => [FTNext]_ftvars
  BY DEF DriversNext, dvars, TPUARTOnly, EMIOnly
<1>3. QueueInv /\ [DriversNext]_dvars
        => QueueInv' /\ [FTPipe!Submit \/ FTPipe!Transmitted]_<<inqueue, send_empty = 1>>
  BY <1>2, QueueStep
<1> QED
  BY <1>1, <1>3, PTL DEF DriversSpec, PipeContract, FTPipe!PipeSpec
----------------------------------------------------------------------------
(* FT12: the line.  Three invariants: what is under way to the device,     *)
(* what is under way to the driver, and the one packet between them.       *)

(* The units of the two directions.                                        *)
Down == {Ack} \cup FTPacket
Up ==
  {Ack, Bad, Hole(1), Hole(2), Rest, Tailing, Restarted}
    \cup {Data(b, n) : b \in Bit, n \in Nat} \cup {Fixed(b, n) : b \in Bit, n \in Nat}
IsData(u) == u.kind = "data"
IsUnit(u) == u.kind \in {"data", "reset"}
IsItem(u) == u.kind \in {"data", "fixed"}
IsAck(u) == u.kind = "ack"

(* To the device: the packets in the queue have ascending numbers; the     *)
(* copies on the line are of its head or of what left it before, and those *)
(* of a packet that was accepted have the bit that is not expected.        *)
QueueSorted(q) == \A i, j \in DOMAIN q : i < j /\ IsData(q[i]) /\ IsData(q[j]) => q[i].n < q[j].n
Numbered(q, d, got, top) ==
  /\ \A i \in DOMAIN q : IsData(q[i]) => q[i].n <= top
  /\ \A i \in DOMAIN d : IsData(d[i]) => d[i].n <= top
  /\ \A i \in DOMAIN got : got[i] <= top
NoReset(d, a, b) == \A k \in DOMAIN d : a < k /\ k < b => d[k].kind # "reset"
CopiesOfLine(d) ==
  \A i, j \in DOMAIN d : i < j /\ IsData(d[i]) /\ IsData(d[j]) =>
    d[i].n < d[j].n \/ (d[i] = d[j] /\ NoReset(d, i, j))
CopiesOfHead(q, d) ==
  \A i \in DOMAIN d, j \in DOMAIN q : IsData(d[i]) /\ IsData(q[j]) =>
    d[i].n < q[j].n \/ (j = 1 /\ d[i] = q[1] /\ NoReset(d, i, Len(d) + 1))
PassedOfLine(d, got, expect, again) ==
  \A g \in DOMAIN got, i \in DOMAIN d : IsData(d[i]) =>
    got[g] < d[i].n \/ (got[g] = d[i].n /\ (again \/ (d[i].flag # expect /\ NoReset(d, 0, i))))
PassedOfQueue(q, d, got, expect, again) ==
  \A g \in DOMAIN got, j \in DOMAIN q : IsData(q[j]) =>
    \/ got[g] < q[j].n
    \/ j = 1 /\ got[g] = q[1].n
         /\ (again \/ (q[1].flag # expect /\ NoReset(d, 0, Len(d) + 1)))
Ordered(s, again) == IF again THEN InOrderAgain(s) ELSE InOrder(s)

Downward(q, d, got, expect, top, again) ==
  /\ QueueSorted(q) /\ Numbered(q, d, got, top)
  /\ CopiesOfLine(d) /\ CopiesOfHead(q, d)
  /\ PassedOfLine(d, got, expect, again)
  /\ PassedOfQueue(q, d, got, expect, again)
  /\ Ordered(got, again)

LEMMA DownTypes ==
  /\ \A u \in Down : IsData(u) => u.n \in Nat /\ u.flag \in Bit
  /\ FTPacket \subseteq Down
BY DEF Down, FTPacket, IsData, Data, Ack, Reset, Bit

LEMMA PacketQueued ==
  ASSUME NEW q \in Seq(FTPacket), NEW d \in Seq(Down), NEW got \in Seq(Nat), NEW expect,
         NEW again, NEW n \in Nat, NEW p \in FTPacket, IsData(p) => p.n = n + 1,
         Downward(q, d, got, expect, n, again)
  PROVE  Downward(Append(q, p), d, got, expect, IF IsData(p) THEN n + 1 ELSE n, again)
<1> DEFINE r == Append(q, p)
           m == IF IsData(p) THEN n + 1 ELSE n
<1>1. /\ r \in Seq(FTPacket) /\ Len(q) \in Nat
      /\ DOMAIN r = 1 .. Len(q) + 1 /\ DOMAIN q = 1 .. Len(q)
      /\ \A i \in 1 .. Len(q) : r[i] = q[i]
      /\ r[Len(q) + 1] = p
  OBVIOUS
<1>2. m \in Nat /\ n <= m /\ (IsData(p) => p.n = m /\ m = n + 1)
  OBVIOUS
<1>3. /\ \A i \in DOMAIN q : q[i] \in FTPacket /\ (IsData(q[i]) => q[i].n \in Nat)
      /\ \A i \in DOMAIN d : IsData(d[i]) => d[i].n \in Nat
      /\ \A i \in DOMAIN got : got[i] \in Nat
  <2>1. \A i \in DOMAIN q : q[i] \in FTPacket
    OBVIOUS
  <2>2. \A i \in DOMAIN d : d[i] \in Down
    OBVIOUS
  <2> QED
    BY <2>1, <2>2, DownTypes
<1> HIDE DEF r, m
<1>4. QueueSorted(r)
  <2> SUFFICES ASSUME NEW i \in DOMAIN r, NEW j \in DOMAIN r, i < j, IsData(r[i]), IsData(r[j])
               PROVE  r[i].n < r[j].n
    BY DEF QueueSorted
  <2>1. i \in DOMAIN q /\ r[i] = q[i]
    BY <1>1
  <2>2. CASE j \in DOMAIN q
    BY <1>1, <2>1, <2>2 DEF Downward, QueueSorted
  <2>3. CASE j = Len(q) + 1
    <3>1. q[i].n <= n /\ q[i].n \in Nat
      BY <1>3, <2>1 DEF Downward, Numbered
    <3>2. r[j].n = n + 1
      BY <1>1, <1>2, <2>3
    <3> QED
      BY <2>1, <3>1, <3>2
  <2> QED
    BY <1>1, <2>2, <2>3
<1>5. Numbered(r, d, got, m)
  <2>1. Numbered(q, d, got, n)
    BY DEF Downward
  <2>2. \A k \in Nat : k <= n => k <= m
    BY <1>2
  <2>3. ASSUME NEW i \in DOMAIN r, IsData(r[i]) PROVE r[i].n <= m
    <3>1. CASE i \in DOMAIN q
      <4>1. r[i] = q[i] /\ q[i].n <= n /\ q[i].n \in Nat
        BY <1>1, <1>3, <2>1, <2>3, <3>1 DEF Numbered
      <4> QED
        BY <2>2, <4>1
    <3>2. CASE i = Len(q) + 1
      BY <1>1, <1>2, <2>3, <3>2
    <3> QED
      BY <1>1, <3>1, <3>2
  <2>4. ASSUME NEW i \in DOMAIN d, IsData(d[i]) PROVE d[i].n <= m
    <3>1. d[i].n <= n /\ d[i].n \in Nat
      BY <1>3, <2>1, <2>4 DEF Numbered
    <3> QED
      BY <2>2, <3>1
  <2>5. ASSUME NEW i \in DOMAIN got PROVE got[i] <= m
    BY <1>3, <2>1, <2>2 DEF Numbered
  <2> QED
    BY <2>3, <2>4, <2>5 DEF Numbered
<1>6. CopiesOfHead(r, d)
  <2> SUFFICES ASSUME NEW i \in DOMAIN d, NEW j \in DOMAIN r, IsData(d[i]), IsData(r[j])
               PROVE  \/ d[i].n < r[j].n
                      \/ j = 1 /\ d[i] = r[1] /\ NoReset(d, i, Len(d) + 1)
    BY DEF CopiesOfHead
  <2>1. CASE j \in DOMAIN q
    <3>1. r[j] = q[j] /\ IsData(q[j]) /\ (j = 1 => r[1] = q[1])
      BY <1>1, <2>1
    <3> QED
      BY <2>1, <3>1 DEF Downward, CopiesOfHead
  <2>2. CASE j = Len(q) + 1
    <3>1. d[i].n <= n /\ d[i].n \in Nat /\ r[j].n = n + 1
      BY <1>1, <1>2, <1>3, <2>2 DEF Downward, Numbered
    <3> QED
      BY <3>1
  <2> QED
    BY <1>1, <2>1, <2>2
<1>7. PassedOfQueue(r, d, got, expect, again)
  <2> SUFFICES ASSUME NEW g \in DOMAIN got, NEW j \in DOMAIN r, IsData(r[j])
               PROVE  \/ got[g] < r[j].n
                      \/ j = 1 /\ got[g] = r[1].n
                           /\ (again \/ (r[1].flag # expect /\ NoReset(d, 0, Len(d) + 1)))
    BY DEF PassedOfQueue
  <2>1. CASE j \in DOMAIN q
    <3>1. r[j] = q[j] /\ IsData(q[j])
      BY <1>1, <2>1
    <3> QED
      BY <2>1, <3>1 DEF Downward, PassedOfQueue
  <2>2. CASE j = Len(q) + 1
    <3>1. got[g] <= n /\ got[g] \in Nat /\ r[j].n = n + 1
      BY <1>1, <1>2, <1>3, <2>2 DEF Downward, Numbered
    <3> QED
      BY <3>1
  <2> QED
    BY <1>1, <2>1, <2>2
<1> QED
  BY <1>4, <1>5, <1>6, <1>7 DEF Downward, r, m

LEMMA PacketWritten ==
  ASSUME NEW q \in Seq(FTPacket), NEW d \in Seq(Down), NEW got \in Seq(Nat), NEW expect,
         NEW again, NEW n \in Nat, q # <<>>,
         Downward(q, d, got, expect, n, again)
  PROVE  Downward(q, Append(d, Head(q)), got, expect, n, again)
<1> DEFINE p == Head(q)
           e == Append(d, p)
<1>1. /\ Len(d) \in Nat /\ DOMAIN e = 1 .. Len(d) + 1 /\ DOMAIN d = 1 .. Len(d)
      /\ \A i \in 1 .. Len(d) : e[i] = d[i]
      /\ e[Len(d) + 1] = p /\ Len(e) = Len(d) + 1
      /\ Len(q) \in Nat \ {0} /\ DOMAIN q = 1 .. Len(q) /\ p = q[1]
  OBVIOUS
<1>2. /\ \A i \in DOMAIN q : q[i] \in FTPacket /\ (IsData(q[i]) => q[i].n \in Nat)
      /\ \A i \in DOMAIN d : IsData(d[i]) => d[i].n \in Nat
      /\ \A i \in DOMAIN got : got[i] \in Nat
  <2>1. \A i \in DOMAIN q : q[i] \in FTPacket
    OBVIOUS
  <2>2. \A i \in DOMAIN d : d[i] \in Down
    OBVIOUS
  <2> QED
    BY <2>1, <2>2, DownTypes
<1> HIDE DEF e, p
<1>3. Numbered(q, e, got, n)
  BY <1>1, <1>2 DEF Downward, Numbered
<1>4. ASSUME NEW a, NEW b \in 1 .. Len(d) + 1, NoReset(d, a, b) PROVE NoReset(e, a, b)
  BY <1>1, <1>4 DEF NoReset
<1>5. ASSUME NEW a, NoReset(d, a, Len(d) + 1), p.kind # "reset" PROVE NoReset(e, a, Len(e) + 1)
  BY <1>1, <1>5 DEF NoReset
<1>6. CopiesOfLine(e)
  <2> SUFFICES ASSUME NEW i \in DOMAIN e, NEW j \in DOMAIN e, i < j, IsData(e[i]), IsData(e[j])
               PROVE  e[i].n < e[j].n \/ (e[i] = e[j] /\ NoReset(e, i, j))
    BY DEF CopiesOfLine
  <2>1. CASE j \in DOMAIN d
    BY <1>1, <1>4, <2>1 DEF Downward, CopiesOfLine
  <2>2. CASE j = Len(d) + 1
    <3>1. i \in DOMAIN d /\ 1 \in DOMAIN q /\ IsData(d[i]) /\ IsData(q[1])
      BY <1>1, <2>2
    <3>2. d[i].n < q[1].n \/ (d[i] = q[1] /\ NoReset(d, i, Len(d) + 1))
      BY <3>1 DEF Downward, CopiesOfHead
    <3> QED
      BY <1>1, <1>4, <2>2, <3>1, <3>2
  <2> QED
    BY <1>1, <2>1, <2>2
<1>7. CopiesOfHead(q, e)
  <2> SUFFICES ASSUME NEW i \in DOMAIN e, NEW j \in DOMAIN q, IsData(e[i]), IsData(q[j])
               PROVE  e[i].n < q[j].n \/ (j = 1 /\ e[i] = q[1] /\ NoReset(e, i, Len(e) + 1))
    BY DEF CopiesOfHead
  <2>1. CASE i \in DOMAIN d
    <3>1. d[i].n < q[j].n \/ (j = 1 /\ d[i] = q[1] /\ NoReset(d, i, Len(d) + 1))
      BY <1>1, <2>1 DEF Downward, CopiesOfHead
    <3>2. j = 1 => p.kind # "reset"
      BY <1>1 DEF IsData
    <3> QED
      BY <1>1, <1>5, <2>1, <3>1, <3>2
  <2>2. CASE i = Len(d) + 1
    <3>1. CASE j = 1
      <4>1. NoReset(e, i, Len(e) + 1)
        BY <1>1, <2>2 DEF NoReset
      <4> QED
        BY <1>1, <2>2, <3>1, <4>1
    <3>2. CASE j # 1
      <4>1. 1 \in DOMAIN q /\ 1 < j /\ IsData(q[1])
        BY <1>1, <2>2, <3>2
      <4>2. q[1].n < q[j].n
        BY <4>1 DEF Downward, QueueSorted
      <4> QED
        BY <1>1, <2>2, <4>2
    <3> QED
      BY <3>1, <3>2
  <2> QED
    BY <1>1, <2>1, <2>2
<1>8. PassedOfLine(e, got, expect, again)
  <2> SUFFICES ASSUME NEW g \in DOMAIN got, NEW i \in DOMAIN e, IsData(e[i])
               PROVE  got[g] < e[i].n
                      \/ (got[g] = e[i].n /\ (again \/ (e[i].flag # expect /\ NoReset(e, 0, i))))
    BY DEF PassedOfLine
  <2>1. CASE i \in DOMAIN d
    BY <1>1, <1>4, <2>1 DEF Downward, PassedOfLine
  <2>2. CASE i = Len(d) + 1
    <3>1. 1 \in DOMAIN q /\ IsData(q[1])
      BY <1>1, <2>2
    <3>2. \/ got[g] < q[1].n
          \/ got[g] = q[1].n /\ (again \/ (q[1].flag # expect /\ NoReset(d, 0, Len(d) + 1)))
      BY <3>1 DEF Downward, PassedOfQueue
    <3> QED
      BY <1>1, <1>4, <2>2, <3>2
  <2> QED
    BY <1>1, <2>1, <2>2
<1>9. PassedOfQueue(q, e, got, expect, again)
  <2> SUFFICES ASSUME NEW g \in DOMAIN got, NEW j \in DOMAIN q, IsData(q[j])
               PROVE  \/ got[g] < q[j].n
                      \/ j = 1 /\ got[g] = q[1].n
                           /\ (again \/ (q[1].flag # expect /\ NoReset(e, 0, Len(e) + 1)))
    BY DEF PassedOfQueue
  <2>1. \/ got[g] < q[j].n
        \/ j = 1 /\ got[g] = q[1].n
             /\ (again \/ (q[1].flag # expect /\ NoReset(d, 0, Len(d) + 1)))
    BY DEF Downward, PassedOfQueue
  <2>2. j = 1 => p.kind # "reset"
    BY <1>1 DEF IsData
  <2> QED
    BY <1>5, <2>1, <2>2
<1> QED
  BY <1>3, <1>6, <1>7, <1>8, <1>9 DEF Downward, e, p

LEMMA PacketLeft ==
  ASSUME NEW q \in Seq(FTPacket), NEW d \in Seq(Down), NEW got \in Seq(Nat), NEW expect,
         NEW again, NEW n \in Nat, q # <<>>,
         Downward(q, d, got, expect, n, again)
  PROVE  Downward(Tail(q), d, got, expect, n, again)
<1> DEFINE r == Tail(q)
<1>1. /\ Len(q) \in Nat /\ DOMAIN q = 1 .. Len(q) /\ DOMAIN r = 1 .. Len(q) - 1
      /\ \A i \in 1 .. Len(q) - 1 : r[i] = q[i + 1]
  OBVIOUS
<1>2. \A i \in DOMAIN r : r[i] = q[i + 1] /\ i + 1 \in DOMAIN q /\ i + 1 # 1 /\ i \in Nat
  BY <1>1
<1> HIDE DEF r
<1>3. QueueSorted(r)
  BY <1>2 DEF Downward, QueueSorted
<1>4. Numbered(r, d, got, n)
  BY <1>2 DEF Downward, Numbered
<1>5. CopiesOfHead(r, d)
  BY <1>2 DEF Downward, CopiesOfHead
<1>6. PassedOfQueue(r, d, got, expect, again)
  BY <1>2 DEF Downward, PassedOfQueue
<1> QED
  BY <1>3, <1>4, <1>5, <1>6 DEF Downward, r

(* The device takes a unit off the line, or noise does. *)
LEMMA UnitGone ==
  ASSUME NEW q \in Seq(FTPacket), NEW d \in Seq(Down), NEW got \in Seq(Nat), NEW expect,
         NEW again, NEW n \in Nat, d # <<>>,
         Downward(q, d, got, expect, n, again)
  PROVE  Downward(q, Tail(d), got, expect, n, again)
<1> DEFINE e == Tail(d)
<1>1. /\ Len(d) \in Nat \ {0} /\ DOMAIN d = 1 .. Len(d) /\ DOMAIN e = 1 .. Len(d) - 1
      /\ Len(e) = Len(d) - 1
      /\ \A i \in 1 .. Len(d) - 1 : e[i] = d[i + 1]
  OBVIOUS
<1>2. \A i \in DOMAIN e : e[i] = d[i + 1] /\ i + 1 \in DOMAIN d /\ i \in Nat
  BY <1>1
<1>3. ASSUME NEW a \in Nat, NEW b \in Nat, NoReset(d, a + 1, b + 1) PROVE NoReset(e, a, b)
  <2>1. ASSUME NEW k \in DOMAIN e, a < k, k < b PROVE e[k].kind # "reset"
    <3>1. e[k] = d[k + 1] /\ k + 1 \in DOMAIN d /\ a + 1 < k + 1 /\ k + 1 < b + 1
      BY <1>2, <2>1
    <3> HIDE DEF e
    <3> QED
      BY <1>3, <3>1 DEF NoReset
  <2> HIDE DEF e
  <2> QED
    BY <2>1 DEF NoReset
<1>4. ASSUME NEW b \in Nat, NoReset(d, 0, b + 1) PROVE NoReset(e, 0, b)
  <2>1. NoReset(d, 1, b + 1)
    BY <1>1, <1>4 DEF NoReset
  <2> QED
    BY <1>3, <2>1
<1> HIDE DEF e
<1>5. Numbered(q, e, got, n)
  BY <1>2 DEF Downward, Numbered
<1>6. CopiesOfLine(e)
  <2> SUFFICES ASSUME NEW i \in DOMAIN e, NEW j \in DOMAIN e, i < j, IsData(e[i]), IsData(e[j])
               PROVE  e[i].n < e[j].n \/ (e[i] = e[j] /\ NoReset(e, i, j))
    BY DEF CopiesOfLine
  <2>1. d[i + 1].n < d[j + 1].n \/ (d[i + 1] = d[j + 1] /\ NoReset(d, i + 1, j + 1))
    BY <1>2 DEF Downward, CopiesOfLine
  <2> QED
    BY <1>2, <1>3, <2>1
<1>7. CopiesOfHead(q, e)
  <2> SUFFICES ASSUME NEW i \in DOMAIN e, NEW j \in DOMAIN q, IsData(e[i]), IsData(q[j])
               PROVE  e[i].n < q[j].n \/ (j = 1 /\ e[i] = q[1] /\ NoReset(e, i, Len(e) + 1))
    BY DEF CopiesOfHead
  <2>1. d[i + 1].n < q[j].n \/ (j = 1 /\ d[i + 1] = q[1] /\ NoReset(d, i + 1, Len(d) + 1))
    BY <1>2 DEF Downward, CopiesOfHead
  <2>2. NoReset(d, i + 1, Len(d) + 1) => NoReset(e, i, Len(e) + 1)
    BY <1>1, <1>2, <1>3
  <2> QED
    BY <1>2, <2>1, <2>2
<1>8. PassedOfLine(e, got, expect, again)
  <2> SUFFICES ASSUME NEW g \in DOMAIN got, NEW i \in DOMAIN e, IsData(e[i])
               PROVE  got[g] < e[i].n
                      \/ (got[g] = e[i].n /\ (again \/ (e[i].flag # expect /\ NoReset(e, 0, i))))
    BY DEF PassedOfLine
  <2>1. got[g] < d[i + 1].n
        \/ (got[g] = d[i + 1].n
              /\ (again \/ (d[i + 1].flag # expect /\ NoReset(d, 0, i + 1))))
    BY <1>2 DEF Downward, PassedOfLine
  <2>2. NoReset(d, 0, i + 1) => NoReset(e, 0, i)
    BY <1>2, <1>4
  <2> QED
    BY <1>2, <2>1, <2>2
<1>9. PassedOfQueue(q, e, got, expect, again)
  <2>1. NoReset(d, 0, Len(d) + 1) => NoReset(e, 0, Len(e) + 1)
    BY <1>1, <1>4
  <2> QED
    BY <2>1 DEF Downward, PassedOfQueue
<1> QED
  BY <1>5, <1>6, <1>7, <1>8, <1>9 DEF Downward, e

LEMMA AckWritten ==
  ASSUME NEW q \in Seq(FTPacket), NEW d \in Seq(Down), NEW got \in Seq(Nat), NEW expect,
         NEW again, NEW n \in Nat,
         Downward(q, d, got, expect, n, again)
  PROVE  Downward(q, Append(d, Ack), got, expect, n, again)
<1> DEFINE e == Append(d, Ack)
<1>1. /\ Len(d) \in Nat /\ DOMAIN e = 1 .. Len(d) + 1 /\ DOMAIN d = 1 .. Len(d)
      /\ \A i \in 1 .. Len(d) : e[i] = d[i]
      /\ e[Len(d) + 1] = Ack /\ Len(e) = Len(d) + 1
  OBVIOUS
<1>2. \A i \in DOMAIN e : IsData(e[i]) => i \in DOMAIN d /\ e[i] = d[i]
  BY <1>1 DEF IsData, Ack
<1>3. ASSUME NEW a, NEW b \in Nat, NoReset(d, a, b) PROVE NoReset(e, a, b)
  BY <1>1, <1>3 DEF NoReset, Ack
<1>4. ASSUME NEW a, NoReset(d, a, Len(d) + 1) PROVE NoReset(e, a, Len(e) + 1)
  <2> SUFFICES ASSUME NEW k \in DOMAIN e, a < k PROVE e[k].kind # "reset"
    BY DEF NoReset
  <2>1. CASE k \in DOMAIN d
    BY <1>1, <1>4, <2>1 DEF NoReset
  <2>2. CASE k = Len(d) + 1
    BY <1>1, <2>2 DEF Ack
  <2> QED
    BY <1>1, <2>1, <2>2
<1> HIDE DEF e
<1>5. Numbered(q, e, got, n)
  BY <1>2 DEF Downward, Numbered
<1>6. CopiesOfLine(e)
  BY <1>1, <1>2, <1>3 DEF Downward, CopiesOfLine
<1>7. CopiesOfHead(q, e)
  BY <1>2, <1>4 DEF Downward, CopiesOfHead
<1>8. PassedOfLine(e, got, expect, again)
  BY <1>1, <1>2, <1>3 DEF Downward, PassedOfLine
<1>9. PassedOfQueue(q, e, got, expect, again)
  BY <1>4 DEF Downward, PassedOfQueue
<1> QED
  BY <1>5, <1>6, <1>7, <1>8, <1>9 DEF Downward, e

(* A reset sets the expected bit, a restart may make the device accept again.  *)
LEMMA ResetObeyed ==
  ASSUME NEW q \in Seq(FTPacket), NEW d \in Seq(Down), NEW got \in Seq(Nat), NEW expect,
         NEW again, NEW n \in Nat, NEW other, d # <<>>, Head(d).kind = "reset",
         Downward(q, d, got, expect, n, again)
  PROVE  Downward(q, d, got, other, n, again)
<1>1. 1 \in DOMAIN d /\ d[1].kind = "reset" /\ DOMAIN d = 1 .. Len(d) /\ Len(d) \in Nat
  OBVIOUS
<1>2. ASSUME NEW i \in DOMAIN d, IsData(d[i]) PROVE ~NoReset(d, 0, i)
  <2>1. 0 < 1 /\ 1 < i
    BY <1>1, <1>2 DEF IsData
  <2> QED
    BY <1>1, <2>1 DEF NoReset
<1>3. ~NoReset(d, 0, Len(d) + 1)
  BY <1>1 DEF NoReset
<1> QED
  BY <1>2, <1>3 DEF Downward, PassedOfLine, PassedOfQueue

LEMMA RestartedAgain ==
  ASSUME NEW q \in Seq(FTPacket), NEW d \in Seq(Down), NEW got \in Seq(Nat), NEW expect,
         NEW again \in BOOLEAN, NEW n \in Nat, NEW other,
         Downward(q, d, got, expect, n, again)
  PROVE  Downward(q, d, got, other, n, TRUE)
<1>1. InOrderAgain(got)
  <2>1. \A i \in DOMAIN got : got[i] \in Nat
    OBVIOUS
  <2> QED
    BY <2>1 DEF Downward, Ordered, InOrder, InOrderAgain
<1> QED
  BY <1>1 DEF Downward, PassedOfLine, PassedOfQueue, Ordered

(* The device reads a data frame: it accepts one with the expected bit.    *)
LEMMA DataRead ==
  ASSUME NEW q \in Seq(FTPacket), NEW d \in Seq(Down), NEW got \in Seq(Nat),
         NEW expect \in Bit, NEW again \in BOOLEAN, NEW n \in Nat, d # <<>>,
         IsData(Head(d)), Head(d).flag = expect,
         Downward(q, d, got, expect, n, again)
  PROVE  /\ Downward(q, d, Append(got, Head(d).n), 1 - expect, n, again)
         /\ Head(d).n \in Nat
<1> DEFINE u == Head(d)
           heard == Append(got, u.n)
<1>1. u = d[1] /\ 1 \in DOMAIN d /\ DOMAIN d = 1 .. Len(d) /\ Len(d) \in Nat
  OBVIOUS
<1>2. u.n \in Nat /\ \A i \in DOMAIN d : IsData(d[i]) => d[i].n \in Nat
  <2>1. \A i \in DOMAIN d : d[i] \in Down
    OBVIOUS
  <2> QED
    BY <1>1, <2>1, DownTypes
<1>3. \A i \in DOMAIN q : IsData(q[i]) => q[i].n \in Nat
  <2>1. \A i \in DOMAIN q : q[i] \in FTPacket
    OBVIOUS
  <2> QED
    BY <2>1, DownTypes
<1>4. /\ heard \in Seq(Nat) /\ Len(got) \in Nat /\ DOMAIN got = 1 .. Len(got)
      /\ DOMAIN heard = 1 .. Len(got) + 1
      /\ \A g \in 1 .. Len(got) : heard[g] = got[g] /\ got[g] \in Nat
      /\ heard[Len(got) + 1] = u.n
  BY <1>2
<1>5. u.flag = expect /\ 1 - expect # expect /\ IsData(d[1])
  BY <1>1 DEF Bit
<1> HIDE DEF u, heard
<1>6. \A g \in DOMAIN got : got[g] < u.n \/ (got[g] = u.n /\ again)
  BY <1>1, <1>5 DEF Downward, PassedOfLine
<1>7. Numbered(q, d, heard, n)
  <2>1. u.n <= n
    BY <1>1, <1>5 DEF Downward, Numbered
  <2>2. Numbered(q, d, got, n)
    BY DEF Downward
  <2>3. \A g \in DOMAIN heard : heard[g] <= n
    BY <1>4, <2>1, <2>2 DEF Numbered
  <2> QED
    BY <2>2, <2>3 DEF Numbered
<1>8. Ordered(heard, again)
  <2>1. CASE again
    <3>1. InOrderAgain(got)
      BY <2>1 DEF Downward, Ordered
    <3>2. InOrderAgain(heard)
      <4> SUFFICES ASSUME NEW i \in DOMAIN heard, NEW j \in DOMAIN heard, i < j
                   PROVE  heard[i] <= heard[j]
        BY DEF InOrderAgain
      <4>1. i \in DOMAIN got
        BY <1>4
      <4>2. CASE j \in DOMAIN got
        BY <1>4, <3>1, <4>1, <4>2 DEF InOrderAgain
      <4>3. CASE j = Len(got) + 1
        <5>1. heard[i] = got[i] /\ got[i] \in Nat /\ heard[j] = u.n
          BY <1>4, <4>1, <4>3
        <5> QED
          BY <1>2, <1>6, <4>1, <5>1
      <4> QED
        BY <1>4, <4>2, <4>3
    <3> QED
      BY <2>1, <3>2 DEF Ordered
  <2>2. CASE ~again
    <3>1. InOrder(got)
      BY <2>2 DEF Downward, Ordered
    <3>2. InOrder(heard)
      <4> SUFFICES ASSUME NEW i \in DOMAIN heard, NEW j \in DOMAIN heard, i < j
                   PROVE  heard[i] < heard[j]
        BY DEF InOrder
      <4>1. i \in DOMAIN got
        BY <1>4
      <4>2. CASE j \in DOMAIN got
        BY <1>4, <3>1, <4>1, <4>2 DEF InOrder
      <4>3. CASE j = Len(got) + 1
        <5>1. heard[i] = got[i] /\ got[i] \in Nat /\ heard[j] = u.n
          BY <1>4, <4>1, <4>3
        <5> QED
          BY <1>2, <1>6, <2>2, <4>1, <5>1
      <4> QED
        BY <1>4, <4>2, <4>3
    <3> QED
      BY <2>2, <3>2 DEF Ordered
  <2> QED
    BY <2>1, <2>2
<1>9. PassedOfLine(d, heard, 1 - expect, again)
  <2> SUFFICES ASSUME NEW g \in DOMAIN heard, NEW i \in DOMAIN d, IsData(d[i])
               PROVE  heard[g] < d[i].n
                      \/ (heard[g] = d[i].n
                            /\ (again \/ (d[i].flag # 1 - expect /\ NoReset(d, 0, i))))
    BY DEF PassedOfLine
  <2>1. u.n < d[i].n \/ (u.n = d[i].n /\ d[i].flag # 1 - expect /\ NoReset(d, 0, i))
    <3>1. CASE i = 1
      <4>1. NoReset(d, 0, i)
        BY <1>1, <3>1 DEF NoReset
      <4> QED
        BY <1>1, <1>5, <3>1, <4>1
    <3>2. CASE i # 1
      <4>1. 1 < i
        BY <1>1, <3>2
      <4>2. u.n < d[i].n \/ (d[1] = d[i] /\ NoReset(d, 1, i))
        BY <1>1, <1>5, <4>1 DEF Downward, CopiesOfLine
      <4>3. NoReset(d, 1, i) => NoReset(d, 0, i)
        BY <1>1, <1>5 DEF NoReset, IsData
      <4> QED
        BY <1>1, <1>5, <4>2, <4>3
    <3> QED
      BY <3>1, <3>2
  <2>2. CASE g \in DOMAIN got
    <3>1. heard[g] = got[g] /\ got[g] \in Nat
      BY <1>4, <2>2
    <3> QED
      BY <1>2, <1>6, <2>1, <2>2, <3>1
  <2>3. CASE g = Len(got) + 1
    BY <1>4, <2>1, <2>3
  <2> QED
    BY <1>4, <2>2, <2>3
<1>10. PassedOfQueue(q, d, heard, 1 - expect, again)
  <2> SUFFICES ASSUME NEW g \in DOMAIN heard, NEW j \in DOMAIN q, IsData(q[j])
               PROVE  \/ heard[g] < q[j].n
                      \/ j = 1 /\ heard[g] = q[1].n
                           /\ (again \/ (q[1].flag # 1 - expect /\ NoReset(d, 0, Len(d) + 1)))
    BY DEF PassedOfQueue
  <2>1. u.n < q[j].n
        \/ (j = 1 /\ u = q[1] /\ NoReset(d, 0, Len(d) + 1))
    <3>1. u.n < q[j].n \/ (j = 1 /\ u = q[1] /\ NoReset(d, 1, Len(d) + 1))
      BY <1>1, <1>5 DEF Downward, CopiesOfHead
    <3>2. NoReset(d, 1, Len(d) + 1) => NoReset(d, 0, Len(d) + 1)
      BY <1>1, <1>5 DEF NoReset, IsData
    <3> QED
      BY <3>1, <3>2
  <2>2. u = q[1] => q[1].flag # 1 - expect
    BY <1>5
  <2>3. CASE g \in DOMAIN got
    <3>1. heard[g] = got[g] /\ got[g] \in Nat /\ q[j].n \in Nat
      BY <1>3, <1>4, <2>3
    <3> QED
      BY <1>2, <1>6, <2>1, <2>2, <2>3, <3>1
  <2>4. CASE g = Len(got) + 1
    BY <1>4, <2>1, <2>2, <2>4
  <2> QED
    BY <1>4, <2>3, <2>4
<1> QED
  BY <1>2, <1>7, <1>8, <1>9, <1>10 DEF Downward, heard, u

(* The device never turns back.                                            *)
DevInv ==
  /\ toDev \in Seq(Down) /\ devGot \in Seq(Nat) /\ dexpect \in Bit
  /\ troubles \in Seq({"reset", "restart", "noise"})
  /\ Downward(inqueue, toDev, devGot, dexpect, submitted, Troubled("restart"))

LEMMA TroublesRemain ==
  ASSUME troubles \in Seq({"reset", "restart", "noise"}),
         NEW w \in {"reset", "restart", "noise"}, Trouble(w)
  PROVE  /\ troubles' \in Seq({"reset", "restart", "noise"})
         /\ \A k : Troubled(k)' <=> Troubled(k) \/ k = w
<1>1. /\ troubles' = Append(troubles, w) /\ Len(troubles) \in Nat
      /\ DOMAIN troubles' = 1 .. Len(troubles) + 1 /\ DOMAIN troubles = 1 .. Len(troubles)
      /\ \A i \in 1 .. Len(troubles) : troubles'[i] = troubles[i]
      /\ troubles'[Len(troubles) + 1] = w
  BY DEF Trouble
<1> QED
  BY <1>1 DEF Troubled

LEMMA SameTroubles ==
  ASSUME UNCHANGED troubles
  PROVE  \A k : Troubled(k)' = Troubled(k)
BY DEF Troubled

LEMMA DevInit == FTInit => DevInv
<1> SUFFICES ASSUME FTInit PROVE DevInv
  OBVIOUS
<1>1. /\ inqueue = <<>> /\ toDev = <<>> /\ devGot = <<>> /\ troubles = <<>> /\ dexpect = 0
  BY DEF FTInit, ApiInit
<1>2. Downward(inqueue, toDev, devGot, dexpect, submitted, Troubled("restart"))
  BY <1>1 DEF Downward, QueueSorted, Numbered, CopiesOfLine, CopiesOfHead, PassedOfLine,
              PassedOfQueue, Ordered, InOrder, InOrderAgain
<1> QED
  BY <1>1, <1>2 DEF DevInv, Bit

LEMMA DevStep ==
  ASSUME QueueInv, DevInv, [FTNext]_ftvars
  PROVE  DevInv'
<1> DEFINE Again == Troubled("restart")
<1> USE DEF QueueInv, DevInv
<1>1. CASE UNCHANGED <<inqueue, toDev, devGot, dexpect, submitted, troubles>>
  <2>1. Again' = Again
    BY <1>1, SameTroubles
  <2> HIDE DEF Again
  <2> QED
    BY <1>1, <2>1 DEF Again
<1>2. CASE Send_Packet
  <2> DEFINE p == Data(sendflag, submitted + 1)
  <2>1. p \in FTPacket /\ IsData(p) /\ p.n = submitted + 1
    BY <1>2, MaxSubmitAssumption DEF Send_Packet, Submit, FTPacket, Data, IsData
  <2>2. /\ inqueue' = Append(inqueue, p) /\ submitted' = submitted + 1
        /\ UNCHANGED <<toDev, devGot, dexpect, troubles>>
    BY <1>2 DEF Send_Packet, Submit, Put, device
  <2>3. Again' = Again
    BY <2>2, SameTroubles
  <2> HIDE DEF p, Again
  <2>4. Downward(Append(inqueue, p), toDev, devGot, dexpect,
                 IF IsData(p) THEN submitted + 1 ELSE submitted, Again)
    BY <2>1, PacketQueued DEF Again
  <2> QED
    BY <2>1, <2>2, <2>3, <2>4 DEF Again
<1>3. CASE SendReset
  <2>1. Reset \in FTPacket /\ ~IsData(Reset)
    BY DEF FTPacket, Reset, IsData
  <2>2. /\ inqueue' = Append(inqueue, Reset) /\ Trouble("reset")
        /\ UNCHANGED <<submitted, toDev, devGot, dexpect>>
    BY <1>3 DEF SendReset, device
  <2>3. Again' = Again /\ troubles' \in Seq({"reset", "restart", "noise"})
    <3>1. "reset" # "restart" /\ "reset" \in {"reset", "restart", "noise"}
      OBVIOUS
    <3>2. Troubled("restart")' <=> Troubled("restart")
      BY <2>2, <3>1, TroublesRemain
    <3>3. Again \in BOOLEAN /\ Again' \in BOOLEAN
      BY DEF Troubled
    <3>4. troubles' \in Seq({"reset", "restart", "noise"})
      BY <2>2, <3>1, TroublesRemain
    <3> QED
      BY <3>2, <3>3, <3>4
  <2> HIDE DEF Again
  <2>4. Downward(Append(inqueue, Reset), toDev, devGot, dexpect,
                 IF IsData(Reset) THEN submitted + 1 ELSE submitted, Again)
    BY <2>1, PacketQueued DEF Again
  <2> QED
    BY <2>1, <2>2, <2>3, <2>4 DEF Again
<1>4. CASE /\ inqueue # <<>> /\ inqueue' = Tail(inqueue)
           /\ UNCHANGED <<toDev, devGot, dexpect, submitted, troubles>>
  <2>1. Again' = Again
    BY <1>4, SameTroubles
  <2> HIDE DEF Again
  <2>2. Downward(Tail(inqueue), toDev, devGot, dexpect, submitted, Again)
    BY <1>4, PacketLeft DEF Again
  <2> QED
    BY <1>4, <2>1, <2>2 DEF Again
<1>5. CASE /\ inqueue # <<>> /\ toDev' = Append(toDev, Head(inqueue))
           /\ UNCHANGED <<inqueue, devGot, dexpect, submitted, troubles>>
  <2>1. Again' = Again
    BY <1>5, SameTroubles
  <2> HIDE DEF Again
  <2>2. Downward(inqueue, Append(toDev, Head(inqueue)), devGot, dexpect, submitted, Again)
    BY <1>5, PacketWritten DEF Again
  <2>3. Append(toDev, Head(inqueue)) \in Seq(Down)
    <3>1. Head(inqueue) \in FTPacket
      BY <1>5
    <3> QED
      BY <3>1, DownTypes
  <2> QED
    BY <1>5, <2>1, <2>2, <2>3 DEF Again
<1>6. CASE /\ toDev' = Append(toDev, Ack)
           /\ UNCHANGED <<inqueue, devGot, dexpect, submitted, troubles>>
  <2>1. Again' = Again
    BY <1>6, SameTroubles
  <2> HIDE DEF Again
  <2>2. Downward(inqueue, Append(toDev, Ack), devGot, dexpect, submitted, Again)
    BY AckWritten DEF Again
  <2>3. Append(toDev, Ack) \in Seq(Down)
    BY DEF Down
  <2> QED
    BY <1>6, <2>1, <2>2, <2>3 DEF Again
<1>7. CASE DevReceive
  <2>1. /\ toDev # <<>> /\ toDev' = Tail(toDev)
        /\ UNCHANGED <<inqueue, submitted, troubles>>
    BY <1>7 DEF DevReceive, api
  <2>2. Again' = Again
    BY <2>1, SameTroubles
  <2>3. Tail(toDev) \in Seq(Down) /\ Again \in BOOLEAN
    BY <2>1 DEF Troubled
  <2> HIDE DEF Again
  <2>4. CASE UNCHANGED <<devGot, dexpect>>
    <3>1. Downward(inqueue, Tail(toDev), devGot, dexpect, submitted, Again)
      BY <2>1, UnitGone DEF Again
    <3> QED
      BY <2>1, <2>2, <2>3, <2>4, <3>1 DEF Again
  <2>5. CASE Head(toDev).kind = "reset" /\ dexpect' = 0 /\ UNCHANGED devGot
    <3>1. Downward(inqueue, toDev, devGot, 0, submitted, Again)
      BY <2>1, <2>5, ResetObeyed DEF Again
    <3>2. Downward(inqueue, Tail(toDev), devGot, 0, submitted, Again)
      BY <2>1, <3>1, UnitGone
    <3> QED
      BY <2>1, <2>2, <2>3, <2>5, <3>2 DEF Again, Bit
  <2>6. CASE /\ IsData(Head(toDev)) /\ Head(toDev).flag = dexpect
             /\ dexpect' = 1 - dexpect /\ devGot' = Append(devGot, Head(toDev).n)
    <3>1. /\ Downward(inqueue, toDev, devGot', dexpect', submitted, Again)
          /\ devGot' \in Seq(Nat)
      BY <2>1, <2>3, <2>6, DataRead DEF Again
    <3>2. Downward(inqueue, Tail(toDev), devGot', dexpect', submitted, Again)
      BY <2>1, <3>1, UnitGone
    <3> QED
      BY <2>1, <2>2, <2>3, <2>6, <3>1, <3>2 DEF Again, Bit
  <2> QED
    BY <1>7, <2>4, <2>5, <2>6 DEF DevReceive, device, IsData
<1>8. CASE DevRestart
  <2>1. /\ Trouble("restart") /\ dexpect' = 0
        /\ UNCHANGED <<inqueue, submitted, toDev, devGot>>
    BY <1>8 DEF DevRestart, api
  <2>2. Again' = TRUE /\ troubles' \in Seq({"reset", "restart", "noise"}) /\ Again \in BOOLEAN
    BY <2>1, TroublesRemain DEF Troubled
  <2> HIDE DEF Again
  <2>3. Downward(inqueue, toDev, devGot, 0, submitted, TRUE)
    BY <2>2, RestartedAgain DEF Again
  <2> QED
    BY <2>1, <2>2, <2>3 DEF Again, Bit
<1>9. CASE Noise
  <2>1. /\ Trouble("noise") /\ UNCHANGED <<inqueue, submitted, devGot, dexpect>>
        /\ toDev' = toDev \/ (toDev # <<>> /\ toDev' = Tail(toDev))
    BY <1>9 DEF Noise, api, device
  <2>2. Again' = Again /\ troubles' \in Seq({"reset", "restart", "noise"})
    <3>1. "noise" # "restart" /\ "noise" \in {"reset", "restart", "noise"}
      OBVIOUS
    <3>2. Troubled("restart")' <=> Troubled("restart")
      BY <2>1, <3>1, TroublesRemain
    <3>3. Again \in BOOLEAN /\ Again' \in BOOLEAN
      BY DEF Troubled
    <3>4. troubles' \in Seq({"reset", "restart", "noise"})
      BY <2>1, <3>1, TroublesRemain
    <3> QED
      BY <3>2, <3>3, <3>4
  <2> HIDE DEF Again
  <2>3. CASE toDev' = toDev
    BY <2>1, <2>2, <2>3 DEF Again
  <2>4. CASE toDev # <<>> /\ toDev' = Tail(toDev)
    <3>1. /\ Downward(inqueue, Tail(toDev), devGot, dexpect, submitted, Again)
          /\ Tail(toDev) \in Seq(Down)
      BY <2>4, UnitGone DEF Again
    <3> QED
      BY <2>1, <2>2, <2>4, <3>1 DEF Again
  <2> QED
    BY <2>1, <2>3, <2>4
<1>10. CASE Get_Packet \/ Stop \/ Read \/ Expire \/ DevSend
  BY <1>1, <1>10 DEF Get_Packet, TakePacket, Stop, Read, Expire, DevSend, api, host, device
<1>11. CASE RecvFixed \/ RecvRestarted \/ RecvData
  BY <1>6, <1>11 DEF RecvFixed, RecvRestarted, RecvData, Received, api, device
<1>12. CASE RecvAck \/ RecvRubbish
  BY <1>1, <1>4, <1>12 DEF RecvAck, RecvRubbish, Acknowledged, Sent, api, device
<1>13. CASE Finish
  BY <1>1, <1>5, <1>13 DEF Finish, api, device
<1>14. CASE UNCHANGED ftvars
  BY <1>1, <1>14 DEF ftvars, api, device
<1> QED
  BY <1>2, <1>3, <1>7, <1>8, <1>9, <1>10, <1>11, <1>12, <1>13, <1>14 DEF FTNext, Run

(* From the device.  What the driver does to the units it has read leaves  *)
(* some of them, in their order, and units that say nothing.               *)
Junk(u) == ~(IsItem(u) \/ IsAck(u))
Thins(s, l) ==
  \E f \in [DOMAIN s -> Nat] :
    /\ \A i \in DOMAIN s : Junk(s[i]) \/ (f[i] \in DOMAIN l /\ s[i] = l[f[i]])
    /\ \A i, j \in DOMAIN s : i < j /\ ~Junk(s[i]) /\ ~Junk(s[j]) => f[i] < f[j]

LEMMA ThinItself ==
  ASSUME NEW s \in Seq(Up)
  PROVE  Thins(s, s)
<1> DEFINE f == [i \in DOMAIN s |-> i]
<1>1. DOMAIN s = 1 .. Len(s) /\ Len(s) \in Nat
  OBVIOUS
<1>2. f \in [DOMAIN s -> Nat] /\ \A i \in DOMAIN s : f[i] = i
  BY <1>1
<1> HIDE DEF f
<1> QED
  BY <1>2 DEF Thins

LEMMA ThinSkipped ==
  ASSUME NEW s \in Seq(Up), NEW k \in Nat \ {0}
  PROVE  Thins(SubSeq(s, k, Len(s)), s) /\ SubSeq(s, k, Len(s)) \in Seq(Up)
<1> DEFINE r == SubSeq(s, k, Len(s))
           f == [i \in DOMAIN r |-> i + k - 1]
<1>1. /\ DOMAIN s = 1 .. Len(s) /\ Len(s) \in Nat
      /\ DOMAIN r = 1 .. Len(r) /\ Len(r) \in Nat
      /\ Len(r) = IF k <= Len(s) THEN Len(s) - k + 1 ELSE 0
      /\ \A i \in 1 .. Len(r) : r[i] = s[i + k - 1]
      /\ r \in Seq(Up)
  OBVIOUS
<1> HIDE DEF r
<1>2. f \in [DOMAIN r -> Nat] /\ \A i \in DOMAIN r : f[i] = i + k - 1
  BY <1>1
<1> HIDE DEF f
<1>3. \A i \in DOMAIN r : f[i] \in DOMAIN s /\ r[i] = s[f[i]]
  BY <1>1, <1>2
<1>4. \A i, j \in DOMAIN r : i < j => f[i] < f[j]
  BY <1>1, <1>2
<1> QED
  BY <1>1, <1>2, <1>3, <1>4 DEF Thins, r

LEMMA ThinTail ==
  ASSUME NEW s \in Seq(Up), s # <<>>
  PROVE  Thins(Tail(s), s) /\ Tail(s) \in Seq(Up)
<1> DEFINE r == Tail(s)
           f == [i \in DOMAIN r |-> i + 1]
<1>1. /\ DOMAIN s = 1 .. Len(s) /\ Len(s) \in Nat \ {0}
      /\ DOMAIN r = 1 .. Len(s) - 1 /\ r \in Seq(Up)
      /\ \A i \in 1 .. Len(s) - 1 : r[i] = s[i + 1]
  OBVIOUS
<1> HIDE DEF r
<1>2. f \in [DOMAIN r -> Nat] /\ \A i \in DOMAIN r : f[i] = i + 1
  BY <1>1
<1> HIDE DEF f
<1>3. \A i \in DOMAIN r : f[i] \in DOMAIN s /\ r[i] = s[f[i]]
  BY <1>1, <1>2
<1>4. \A i, j \in DOMAIN r : i < j => f[i] < f[j]
  BY <1>1, <1>2
<1> QED
  BY <1>1, <1>2, <1>3, <1>4 DEF Thins, r

LEMMA ThinWithJunk ==
  ASSUME NEW s \in Seq(Up), NEW l \in Seq(Up), NEW u \in Up, Junk(u), Thins(s, l)
  PROVE  Thins(<<u>> \o s, l) /\ <<u>> \o s \in Seq(Up)
<1> DEFINE r == <<u>> \o s
<1>1. /\ DOMAIN s = 1 .. Len(s) /\ Len(s) \in Nat
      /\ DOMAIN r = 1 .. Len(s) + 1 /\ r \in Seq(Up)
      /\ r[1] = u
      /\ \A i \in 2 .. Len(s) + 1 : r[i] = s[i - 1]
  OBVIOUS
<1> HIDE DEF r
<1>2. PICK f \in [DOMAIN s -> Nat] :
        /\ \A i \in DOMAIN s : Junk(s[i]) \/ (f[i] \in DOMAIN l /\ s[i] = l[f[i]])
        /\ \A i, j \in DOMAIN s : i < j /\ ~Junk(s[i]) /\ ~Junk(s[j]) => f[i] < f[j]
  BY DEF Thins
<1> DEFINE h == [i \in DOMAIN r |-> IF i = 1 THEN 0 ELSE f[i - 1]]
<1>3. \A i \in DOMAIN r : i = 1 \/ (i \in 2 .. Len(s) + 1 /\ i - 1 \in DOMAIN s)
  BY <1>1
<1>4. h \in [DOMAIN r -> Nat] /\ \A i \in DOMAIN r : i # 1 => h[i] = f[i - 1]
  BY <1>2, <1>3
<1> HIDE DEF h
<1>5. ASSUME NEW i \in DOMAIN r PROVE Junk(r[i]) \/ (h[i] \in DOMAIN l /\ r[i] = l[h[i]])
  BY <1>1, <1>2, <1>3, <1>4
<1>6. ASSUME NEW i \in DOMAIN r, NEW j \in DOMAIN r, i < j, ~Junk(r[i]), ~Junk(r[j])
      PROVE h[i] < h[j]
  <2>1. i # 1 /\ j # 1 /\ i - 1 < j - 1
    BY <1>1, <1>6
  <2>2. ~Junk(s[i - 1]) /\ ~Junk(s[j - 1]) /\ i - 1 \in DOMAIN s /\ j - 1 \in DOMAIN s
    BY <1>1, <1>3, <1>6, <2>1
  <2> QED
    BY <1>2, <1>4, <2>1, <2>2
<1> QED
  BY <1>1, <1>4, <1>5, <1>6 DEF Thins, r

LEMMA ThinJoined ==
  ASSUME NEW a \in Seq(Up), NEW b \in Seq(Up), NEW s \in Seq(Up), Thins(s, a)
  PROVE  Thins(s \o b, a \o b)
<1> DEFINE r == s \o b
           l == a \o b
<1>1. /\ DOMAIN s = 1 .. Len(s) /\ Len(s) \in Nat
      /\ DOMAIN a = 1 .. Len(a) /\ Len(a) \in Nat /\ DOMAIN b = 1 .. Len(b) /\ Len(b) \in Nat
      /\ DOMAIN r = 1 .. Len(s) + Len(b) /\ DOMAIN l = 1 .. Len(a) + Len(b)
      /\ \A i \in 1 .. Len(s) : r[i] = s[i]
      /\ \A i \in Len(s) + 1 .. Len(s) + Len(b) : r[i] = b[i - Len(s)]
      /\ \A i \in 1 .. Len(a) : l[i] = a[i]
      /\ \A i \in Len(a) + 1 .. Len(a) + Len(b) : l[i] = b[i - Len(a)]
  OBVIOUS
<1> HIDE DEF r, l
<1>2. PICK f \in [DOMAIN s -> Nat] :
        /\ \A i \in DOMAIN s : Junk(s[i]) \/ (f[i] \in DOMAIN a /\ s[i] = a[f[i]])
        /\ \A i, j \in DOMAIN s : i < j /\ ~Junk(s[i]) /\ ~Junk(s[j]) => f[i] < f[j]
  BY DEF Thins
<1> DEFINE h == [i \in DOMAIN r |-> IF i <= Len(s) THEN f[i] ELSE i - Len(s) + Len(a)]
<1>3. h \in [DOMAIN r -> Nat]
  <2> SUFFICES ASSUME NEW i \in DOMAIN r
               PROVE  (IF i <= Len(s) THEN f[i] ELSE i - Len(s) + Len(a)) \in Nat
    OBVIOUS
  <2> QED
    BY <1>1, <1>2
<1>4. /\ \A i \in 1 .. Len(s) : h[i] = f[i]
      /\ \A i \in Len(s) + 1 .. Len(s) + Len(b) : h[i] = i - Len(s) + Len(a)
  BY <1>1
<1> HIDE DEF h
<1>5. ASSUME NEW i \in DOMAIN r PROVE Junk(r[i]) \/ (h[i] \in DOMAIN l /\ r[i] = l[h[i]])
  <2>1. CASE i \in 1 .. Len(s)
    <3>1. r[i] = s[i] /\ h[i] = f[i]
      BY <1>1, <1>4, <2>1
    <3>2. Junk(s[i]) \/ (f[i] \in 1 .. Len(a) /\ s[i] = a[f[i]])
      BY <1>1, <1>2, <2>1
    <3> QED
      BY <1>1, <3>1, <3>2
  <2>2. CASE i \in Len(s) + 1 .. Len(s) + Len(b)
    <3>1. r[i] = b[i - Len(s)] /\ h[i] = i - Len(s) + Len(a)
      BY <1>1, <1>4, <2>2
    <3>2. h[i] \in Len(a) + 1 .. Len(a) + Len(b) /\ h[i] - Len(a) = i - Len(s)
      BY <1>1, <2>2, <3>1
    <3> QED
      BY <1>1, <3>1, <3>2
  <2> QED
    BY <1>1, <2>1, <2>2
<1>6. ASSUME NEW i \in DOMAIN r, NEW j \in DOMAIN r, i < j, ~Junk(r[i]), ~Junk(r[j])
      PROVE h[i] < h[j]
  <2>1. CASE j \in 1 .. Len(s)
    <3>1. i \in 1 .. Len(s) /\ ~Junk(s[i]) /\ ~Junk(s[j])
      BY <1>1, <1>6, <2>1
    <3> QED
      BY <1>1, <1>2, <1>4, <1>6, <2>1, <3>1
  <2>2. CASE j \in Len(s) + 1 .. Len(s) + Len(b) /\ i \in 1 .. Len(s)
    <3>1. h[i] \in 1 .. Len(a)
      <4>1. Junk(s[i]) \/ (f[i] \in 1 .. Len(a) /\ s[i] = a[f[i]])
        BY <1>1, <1>2, <2>2
      <4> QED
        BY <1>1, <1>4, <1>6, <2>2, <4>1
    <3> QED
      BY <1>1, <1>4, <2>2, <3>1
  <2>3. CASE j \in Len(s) + 1 .. Len(s) + Len(b) /\ i \in Len(s) + 1 .. Len(s) + Len(b)
    BY <1>1, <1>4, <1>6, <2>3
  <2> QED
    BY <1>1, <2>1, <2>2, <2>3
<1> QED
  BY <1>3, <1>5, <1>6 DEF Thins, r, l

LEMMA ThinBehind ==
  ASSUME NEW a \in Seq(Up), NEW b \in Seq(Up), NEW s \in Seq(Up), Thins(s, b)
  PROVE  Thins(a \o s, a \o b)
<1> DEFINE r == a \o s
           l == a \o b
<1>1. /\ DOMAIN s = 1 .. Len(s) /\ Len(s) \in Nat
      /\ DOMAIN a = 1 .. Len(a) /\ Len(a) \in Nat /\ DOMAIN b = 1 .. Len(b) /\ Len(b) \in Nat
      /\ DOMAIN r = 1 .. Len(a) + Len(s) /\ DOMAIN l = 1 .. Len(a) + Len(b)
      /\ \A i \in 1 .. Len(a) : r[i] = a[i]
      /\ \A i \in Len(a) + 1 .. Len(a) + Len(s) : r[i] = s[i - Len(a)]
      /\ \A i \in 1 .. Len(a) : l[i] = a[i]
      /\ \A i \in Len(a) + 1 .. Len(a) + Len(b) : l[i] = b[i - Len(a)]
  OBVIOUS
<1> HIDE DEF r, l
<1>2. PICK f \in [DOMAIN s -> Nat] :
        /\ \A i \in DOMAIN s : Junk(s[i]) \/ (f[i] \in DOMAIN b /\ s[i] = b[f[i]])
        /\ \A i, j \in DOMAIN s : i < j /\ ~Junk(s[i]) /\ ~Junk(s[j]) => f[i] < f[j]
  BY DEF Thins
<1> DEFINE h == [i \in DOMAIN r |-> IF i <= Len(a) THEN i ELSE f[i - Len(a)] + Len(a)]
<1>3. h \in [DOMAIN r -> Nat]
  <2> SUFFICES ASSUME NEW i \in DOMAIN r
               PROVE  (IF i <= Len(a) THEN i ELSE f[i - Len(a)] + Len(a)) \in Nat
    OBVIOUS
  <2>1. i > Len(a) => i - Len(a) \in DOMAIN s
    BY <1>1
  <2> QED
    BY <1>1, <1>2, <2>1
<1>4. /\ \A i \in 1 .. Len(a) : h[i] = i
      /\ \A i \in Len(a) + 1 .. Len(a) + Len(s) : h[i] = f[i - Len(a)] + Len(a)
  BY <1>1
<1> HIDE DEF h
<1>5. ASSUME NEW i \in Len(a) + 1 .. Len(a) + Len(s), ~Junk(r[i])
      PROVE  /\ i - Len(a) \in DOMAIN s /\ ~Junk(s[i - Len(a)])
             /\ h[i] = f[i - Len(a)] + Len(a)
             /\ f[i - Len(a)] \in 1 .. Len(b) /\ r[i] = b[f[i - Len(a)]]
  <2>1. i - Len(a) \in DOMAIN s /\ r[i] = s[i - Len(a)]
    BY <1>1
  <2> QED
    BY <1>1, <1>2, <1>4, <1>5, <2>1
<1>6. ASSUME NEW i \in DOMAIN r PROVE Junk(r[i]) \/ (h[i] \in DOMAIN l /\ r[i] = l[h[i]])
  <2>1. CASE i \in 1 .. Len(a)
    BY <1>1, <1>4, <2>1
  <2>2. CASE i \in Len(a) + 1 .. Len(a) + Len(s) /\ ~Junk(r[i])
    <3>1. h[i] \in Len(a) + 1 .. Len(a) + Len(b) /\ h[i] - Len(a) = f[i - Len(a)]
      BY <1>1, <1>5, <2>2
    <3> QED
      BY <1>1, <1>5, <2>2, <3>1
  <2> QED
    BY <1>1, <2>1, <2>2
<1>7. ASSUME NEW i \in DOMAIN r, NEW j \in DOMAIN r, i < j, ~Junk(r[i]), ~Junk(r[j])
      PROVE h[i] < h[j]
  <2>1. CASE j \in 1 .. Len(a)
    BY <1>1, <1>4, <1>7, <2>1
  <2>2. CASE j \in Len(a) + 1 .. Len(a) + Len(s) /\ i \in 1 .. Len(a)
    BY <1>1, <1>4, <1>5, <1>7, <2>2
  <2>3. CASE j \in Len(a) + 1 .. Len(a) + Len(s) /\ i \in Len(a) + 1 .. Len(a) + Len(s)
    <3>1. i - Len(a) < j - Len(a)
      BY <1>1, <1>7, <2>3
    <3>2. f[i - Len(a)] < f[j - Len(a)]
      BY <1>2, <1>5, <1>7, <2>3, <3>1
    <3> QED
      BY <1>1, <1>5, <1>7, <2>3, <3>2
  <2> QED
    BY <1>1, <2>1, <2>2, <2>3
<1> QED
  BY <1>3, <1>6, <1>7 DEF Thins, r, l

(* The items on the line are those of the device, in order, and nothing    *)
(* that was accepted is still on the line unless it is a repetition, which *)
(* the driver will recognize.  A reset or a restart puts an end to that.   *)
ItemsOfDevice(l, next, wait, flag, upset) ==
  \A i \in DOMAIN l : IsItem(l[i]) =>
    /\ l[i] = UpItem(l[i].flag, l[i].n)
    /\ l[i].n < next \/ (l[i].n = next /\ wait /\ (upset \/ l[i].flag = flag))
ItemsSorted(l, upset) ==
  \A i, j \in DOMAIN l : i < j /\ IsItem(l[i]) /\ IsItem(l[j]) =>
    l[i].n < l[j].n \/ (l[i].n = l[j].n /\ (upset \/ l[i].flag = l[j].flag))
HeardOfLine(l, got, expect, says, upset) ==
  \A g \in DOMAIN got, i \in DOMAIN l : IsItem(l[i]) =>
    \/ got[g] < l[i].n
    \/ got[g] = l[i].n /\ (upset \/ (l[i].flag # expect /\ UpData[got[g]] = says))
HeardOfDevice(next, wait, flag, got, expect, says, upset) ==
  \A g \in DOMAIN got :
    /\ UpData[got[g]] # Short
    /\ \/ got[g] < next
       \/ got[g] = next /\ wait /\ (upset \/ (flag # expect /\ UpData[got[g]] = says))

Upward(l, next, wait, flag, got, expect, says, upset) ==
  /\ ItemsOfDevice(l, next, wait, flag, upset) /\ ItemsSorted(l, upset)
  /\ HeardOfLine(l, got, expect, says, upset)
  /\ HeardOfDevice(next, wait, flag, got, expect, says, upset)
  /\ Ordered(got, upset)

LEMMA UpTypes ==
  /\ \A u \in Up : IsItem(u) => u.n \in Nat /\ u.flag \in Bit
  /\ \A b \in Bit, n \in Nat : UpItem(b, n) \in Up /\ IsItem(UpItem(b, n))
                               /\ UpItem(b, n).flag = b /\ UpItem(b, n).n = n
<1>1. \A u \in Up : IsItem(u) => u.n \in Nat /\ u.flag \in Bit
  BY DEF Up, IsItem, Ack, Bad, Hole, Rest, Tailing, Restarted, Data, Fixed, Bit
<1>2. ASSUME NEW b \in Bit, NEW n \in Nat
      PROVE UpItem(b, n) \in Up /\ IsItem(UpItem(b, n))
            /\ UpItem(b, n).flag = b /\ UpItem(b, n).n = n
  <2>1. Data(b, n) \in Up /\ Fixed(b, n) \in Up
    BY DEF Up
  <2> QED
    BY <2>1 DEF UpItem, IsItem, Data, Fixed
<1> QED
  BY <1>1, <1>2

LEMMA ItemTypes ==
  ASSUME NEW l \in Seq(Up)
  PROVE  \A i \in DOMAIN l : l[i] \in Up /\ (IsItem(l[i]) => l[i].n \in Nat /\ l[i].flag \in Bit)
<1>1. \A i \in DOMAIN l : l[i] \in Up
  OBVIOUS
<1> QED
  BY <1>1, UpTypes

LEMMA Thinned ==
  ASSUME NEW l \in Seq(Up), NEW s \in Seq(Up), NEW next, NEW wait, NEW flag, NEW got,
         NEW expect, NEW says, NEW upset, Thins(s, l),
         Upward(l, next, wait, flag, got, expect, says, upset)
  PROVE  Upward(s, next, wait, flag, got, expect, says, upset)
<1>1. PICK f \in [DOMAIN s -> Nat] :
        /\ \A i \in DOMAIN s : Junk(s[i]) \/ (f[i] \in DOMAIN l /\ s[i] = l[f[i]])
        /\ \A i, j \in DOMAIN s : i < j /\ ~Junk(s[i]) /\ ~Junk(s[j]) => f[i] < f[j]
  BY DEF Thins
<1>2. \A i \in DOMAIN s : IsItem(s[i]) => f[i] \in DOMAIN l /\ s[i] = l[f[i]] /\ ~Junk(s[i])
  BY <1>1 DEF Junk
<1>3. ItemsOfDevice(s, next, wait, flag, upset)
  BY <1>2 DEF Upward, ItemsOfDevice
<1>4. ItemsSorted(s, upset)
  <2> SUFFICES ASSUME NEW i \in DOMAIN s, NEW j \in DOMAIN s, i < j, IsItem(s[i]), IsItem(s[j])
               PROVE  s[i].n < s[j].n \/ (s[i].n = s[j].n /\ (upset \/ s[i].flag = s[j].flag))
    BY DEF ItemsSorted
  <2>1. f[i] < f[j] /\ f[i] \in DOMAIN l /\ f[j] \in DOMAIN l /\ s[i] = l[f[i]] /\ s[j] = l[f[j]]
    BY <1>1, <1>2
  <2> QED
    BY <2>1 DEF Upward, ItemsSorted
<1>5. HeardOfLine(s, got, expect, says, upset)
  BY <1>2 DEF Upward, HeardOfLine
<1> QED
  BY <1>3, <1>4, <1>5 DEF Upward

LEMMA JunkAppended ==
  ASSUME NEW l \in Seq(Up), NEW u, ~IsItem(u), NEW next, NEW wait, NEW flag, NEW got,
         NEW expect, NEW says, NEW upset,
         Upward(l, next, wait, flag, got, expect, says, upset)
  PROVE  Upward(Append(l, u), next, wait, flag, got, expect, says, upset)
<1> DEFINE s == Append(l, u)
<1>1. /\ DOMAIN l = 1 .. Len(l) /\ Len(l) \in Nat /\ DOMAIN s = 1 .. Len(l) + 1
      /\ \A i \in 1 .. Len(l) : s[i] = l[i]
      /\ s[Len(l) + 1] = u
  OBVIOUS
<1> HIDE DEF s
<1>2. \A i \in DOMAIN s : IsItem(s[i]) => i \in DOMAIN l /\ s[i] = l[i]
  BY <1>1
<1>3. ItemsOfDevice(s, next, wait, flag, upset)
  BY <1>2 DEF Upward, ItemsOfDevice
<1>4. ItemsSorted(s, upset)
  BY <1>2 DEF Upward, ItemsSorted
<1>5. HeardOfLine(s, got, expect, says, upset)
  BY <1>2 DEF Upward, HeardOfLine
<1> QED
  BY <1>3, <1>4, <1>5 DEF Upward, s

(* The device writes the item under way, for the first time or once more.  *)
LEMMA ItemAppended ==
  ASSUME NEW l \in Seq(Up), NEW next \in Nat, NEW wait, NEW flag \in Bit, NEW got \in Seq(Nat),
         NEW expect, NEW says, NEW upset,
         Upward(l, next, wait, flag, got, expect, says, upset)
  PROVE  Upward(Append(l, UpItem(flag, next)), next, TRUE, flag, got, expect, says, upset)
<1> DEFINE u == UpItem(flag, next)
           s == Append(l, u)
<1>1. /\ DOMAIN l = 1 .. Len(l) /\ Len(l) \in Nat /\ DOMAIN s = 1 .. Len(l) + 1
      /\ \A i \in 1 .. Len(l) : s[i] = l[i]
      /\ s[Len(l) + 1] = u
  OBVIOUS
<1>2. IsItem(u) /\ u.flag = flag /\ u.n = next /\ u = UpItem(u.flag, u.n)
  BY UpTypes
<1>3. \A i \in DOMAIN l : IsItem(l[i]) => l[i].n \in Nat
  BY ItemTypes
<1>4. \A g \in DOMAIN got : got[g] \in Nat
  OBVIOUS
<1> HIDE DEF s, u
<1>5. ItemsOfDevice(s, next, TRUE, flag, upset)
  BY <1>1, <1>2, <1>3 DEF Upward, ItemsOfDevice
<1>6. ItemsSorted(s, upset)
  <2> SUFFICES ASSUME NEW i \in DOMAIN s, NEW j \in DOMAIN s, i < j, IsItem(s[i]), IsItem(s[j])
               PROVE  s[i].n < s[j].n \/ (s[i].n = s[j].n /\ (upset \/ s[i].flag = s[j].flag))
    BY DEF ItemsSorted
  <2>1. i \in DOMAIN l /\ s[i] = l[i]
    BY <1>1
  <2>2. CASE j \in DOMAIN l
    BY <1>1, <2>1, <2>2 DEF Upward, ItemsSorted
  <2>3. CASE j = Len(l) + 1
    <3>1. l[i].n < next \/ (l[i].n = next /\ (upset \/ l[i].flag = flag))
      BY <2>1 DEF Upward, ItemsOfDevice
    <3> QED
      BY <1>1, <1>2, <2>1, <2>3, <3>1
  <2> QED
    BY <1>1, <2>2, <2>3
<1>7. HeardOfLine(s, got, expect, says, upset)
  <2> SUFFICES ASSUME NEW g \in DOMAIN got, NEW i \in DOMAIN s, IsItem(s[i])
               PROVE  \/ got[g] < s[i].n
                      \/ got[g] = s[i].n /\ (upset \/ (s[i].flag # expect /\ UpData[got[g]] = says))
    BY DEF HeardOfLine
  <2>1. CASE i \in DOMAIN l
    BY <1>1, <2>1 DEF Upward, HeardOfLine
  <2>2. CASE i = Len(l) + 1
    <3>1. \/ got[g] < next
          \/ got[g] = next /\ (upset \/ (flag # expect /\ UpData[got[g]] = says))
      BY DEF Upward, HeardOfDevice
    <3> QED
      BY <1>1, <1>2, <2>2, <3>1
  <2> QED
    BY <1>1, <2>1, <2>2
<1>8. HeardOfDevice(next, TRUE, flag, got, expect, says, upset)
  BY DEF Upward, HeardOfDevice
<1> QED
  BY <1>5, <1>6, <1>7, <1>8 DEF Upward, s, u

(* The device goes on to the next item.                                    *)
LEMMA NextItem ==
  ASSUME NEW l \in Seq(Up), NEW next \in Nat, NEW wait, NEW flag, NEW got \in Seq(Nat),
         NEW expect, NEW says, NEW upset, NEW other,
         Upward(l, next, wait, flag, got, expect, says, upset)
  PROVE  Upward(l, next + 1, FALSE, other, got, expect, says, upset)
<1>1. \A i \in DOMAIN l : IsItem(l[i]) => l[i].n \in Nat
  BY ItemTypes
<1>2. \A g \in DOMAIN got : got[g] \in Nat
  OBVIOUS
<1>3. ItemsOfDevice(l, next + 1, FALSE, other, upset)
  <2> SUFFICES ASSUME NEW i \in DOMAIN l, IsItem(l[i])
               PROVE  l[i] = UpItem(l[i].flag, l[i].n) /\ l[i].n < next + 1
    BY DEF ItemsOfDevice
  <2>1. l[i] = UpItem(l[i].flag, l[i].n) /\ (l[i].n < next \/ l[i].n = next) /\ l[i].n \in Nat
    BY <1>1 DEF Upward, ItemsOfDevice
  <2> QED
    BY <2>1
<1>4. HeardOfDevice(next + 1, FALSE, other, got, expect, says, upset)
  <2> SUFFICES ASSUME NEW g \in DOMAIN got
               PROVE  UpData[got[g]] # Short /\ got[g] < next + 1
    BY DEF HeardOfDevice
  <2>1. UpData[got[g]] # Short /\ (got[g] < next \/ got[g] = next) /\ got[g] \in Nat
    BY <1>2 DEF Upward, HeardOfDevice
  <2> QED
    BY <2>1
<1> QED
  BY <1>3, <1>4 DEF Upward

(* What was accepted before the first item on the line comes before        *)
(* everything on the line, and before what the device will send.           *)
LEMMA BeforeFirst ==
  ASSUME NEW l \in Seq(Up), NEW next \in Nat, NEW wait, NEW flag, NEW got \in Seq(Nat),
         NEW expect, NEW says, NEW upset,
         Upward(l, next, wait, flag, got, expect, says, upset),
         l # <<>>, IsItem(l[1]), NEW n \in Nat, n < l[1].n
  PROVE  /\ \A i \in DOMAIN l : IsItem(l[i]) => n < l[i].n
         /\ n < next
<1>1. /\ 1 \in DOMAIN l /\ DOMAIN l = 1 .. Len(l) /\ Len(l) \in Nat
      /\ \A i \in DOMAIN l : IsItem(l[i]) => l[i].n \in Nat
  BY ItemTypes
<1>2. ASSUME NEW i \in DOMAIN l, IsItem(l[i]) PROVE n < l[i].n
  <2>1. i = 1 \/ 1 < i
    BY <1>1
  <2>2. l[i].n = l[1].n \/ l[1].n < l[i].n
    BY <1>1, <1>2, <2>1 DEF Upward, ItemsSorted
  <2>3. l[1].n \in Nat /\ l[i].n \in Nat
    BY <1>1, <1>2
  <2> QED
    BY <2>2, <2>3
<1>3. n < next
  <2>1. l[1].n \in Nat /\ (l[1].n < next \/ l[1].n = next)
    BY <1>1 DEF Upward, ItemsOfDevice
  <2> QED
    BY <2>1
<1> QED
  BY <1>2, <1>3

(* A fixed length frame: it was not accepted before, so the bit expected   *)
(* may become any.                                                         *)
LEMMA FixedRead ==
  ASSUME NEW l \in Seq(Up), NEW next \in Nat, NEW wait, NEW flag, NEW got \in Seq(Nat),
         NEW expect, NEW says, NEW upset, NEW other,
         Upward(l, next, wait, flag, got, expect, says, upset),
         l # <<>>, l[1].kind = "fixed"
  PROVE  Upward(l, next, wait, flag, got, other, says, upset)
<1>1. IsItem(l[1]) /\ 1 \in DOMAIN l
  BY DEF IsItem
<1>2. UpData[l[1].n] = Short
  <2>1. l[1] = UpItem(l[1].flag, l[1].n)
    BY <1>1 DEF Upward, ItemsOfDevice
  <2>2. UpData[l[1].n] # Short => UpItem(l[1].flag, l[1].n).kind = "data"
    BY DEF UpItem, Data
  <2> QED
    BY <2>1, <2>2
<1>3. ASSUME NEW g \in DOMAIN got PROVE got[g] \in Nat /\ got[g] < l[1].n
  <2>1. got[g] < l[1].n \/ got[g] = l[1].n
    BY <1>1 DEF Upward, HeardOfLine
  <2>2. UpData[got[g]] # Short
    BY DEF Upward, HeardOfDevice
  <2> QED
    BY <1>2, <2>1, <2>2
<1>4. HeardOfLine(l, got, other, says, upset)
  BY <1>1, <1>3, BeforeFirst DEF HeardOfLine
<1>5. HeardOfDevice(next, wait, flag, got, other, says, upset)
  <2>1. ASSUME NEW g \in DOMAIN got PROVE UpData[got[g]] # Short /\ got[g] < next
    <3>1. got[g] < next
      BY <1>1, <1>3, BeforeFirst
    <3> QED
      BY <3>1 DEF HeardOfDevice, Upward
  <2> QED
    BY <2>1 DEF HeardOfDevice
<1> QED
  BY <1>4, <1>5 DEF Upward

(* A data frame that is not taken for a repetition.                        *)
LEMMA DataAccepted ==
  ASSUME NEW l \in Seq(Up), NEW next \in Nat, NEW wait, NEW flag, NEW got \in Seq(Nat),
         NEW expect, NEW says, NEW upset \in BOOLEAN,
         Upward(l, next, wait, flag, got, expect, says, upset),
         l # <<>>, l[1].kind = "data",
         ~(l[1].flag # expect /\ UpData[l[1].n] = says)
  PROVE  /\ Upward(l, next, wait, flag, Append(got, l[1].n), 1 - l[1].flag, UpData[l[1].n], upset)
         /\ l[1].n \in Nat
<1> DEFINE u == l[1]
           heard == Append(got, u.n)
<1>1. /\ IsItem(u) /\ 1 \in DOMAIN l /\ DOMAIN l = 1 .. Len(l) /\ Len(l) \in Nat
      /\ \A i \in DOMAIN l : IsItem(l[i]) => l[i].n \in Nat /\ l[i].flag \in Bit
  BY ItemTypes DEF IsItem
<1>2. u.n \in Nat /\ u.flag \in Bit /\ 1 - u.flag # u.flag
  BY <1>1 DEF Bit
<1>3. UpData[u.n] # Short
  <2>1. u = UpItem(u.flag, u.n)
    BY <1>1 DEF Upward, ItemsOfDevice
  <2>2. UpData[u.n] = Short => UpItem(u.flag, u.n).kind = "fixed"
    BY DEF UpItem, Fixed
  <2> QED
    BY <2>1, <2>2
<1>4. /\ heard \in Seq(Nat) /\ Len(got) \in Nat /\ DOMAIN got = 1 .. Len(got)
      /\ DOMAIN heard = 1 .. Len(got) + 1
      /\ \A g \in 1 .. Len(got) : heard[g] = got[g] /\ got[g] \in Nat
      /\ heard[Len(got) + 1] = u.n
  BY <1>2
<1>5. \A g \in DOMAIN got : got[g] < u.n \/ (got[g] = u.n /\ upset)
  BY <1>1 DEF Upward, HeardOfLine
<1> HIDE DEF u, heard
<1>6. Ordered(heard, upset)
  <2>1. \A g \in DOMAIN got : got[g] \in Nat
    BY <1>4
  <2>2. CASE upset
    <3> SUFFICES ASSUME NEW i \in DOMAIN heard, NEW j \in DOMAIN heard, i < j
                 PROVE  heard[i] <= heard[j]
      BY <2>2 DEF Ordered, InOrderAgain
    <3>1. i \in DOMAIN got
      BY <1>4
    <3>2. CASE j \in DOMAIN got
      BY <1>4, <2>2, <3>1, <3>2 DEF Upward, Ordered, InOrderAgain
    <3>3. CASE j = Len(got) + 1
      <4>1. heard[i] = got[i] /\ got[i] \in Nat /\ heard[j] = u.n
        BY <1>4, <3>1, <3>3
      <4> QED
        BY <1>2, <1>5, <3>1, <4>1
    <3> QED
      BY <1>4, <3>2, <3>3
  <2>3. CASE ~upset
    <3> SUFFICES ASSUME NEW i \in DOMAIN heard, NEW j \in DOMAIN heard, i < j
                 PROVE  heard[i] < heard[j]
      BY <2>3 DEF Ordered, InOrder
    <3>1. i \in DOMAIN got
      BY <1>4
    <3>2. CASE j \in DOMAIN got
      BY <1>4, <2>3, <3>1, <3>2 DEF Upward, Ordered, InOrder
    <3>3. CASE j = Len(got) + 1
      BY <1>4, <1>5, <2>3, <3>1, <3>3
    <3> QED
      BY <1>4, <3>2, <3>3
  <2> QED
    BY <2>2, <2>3
<1>7. HeardOfLine(l, heard, 1 - u.flag, UpData[u.n], upset)
  <2> SUFFICES ASSUME NEW g \in DOMAIN heard, NEW i \in DOMAIN l, IsItem(l[i])
               PROVE  \/ heard[g] < l[i].n
                      \/ heard[g] = l[i].n
                           /\ (upset \/ (l[i].flag # 1 - u.flag /\ UpData[heard[g]] = UpData[u.n]))
    BY DEF HeardOfLine
  <2>1. u.n < l[i].n \/ (u.n = l[i].n /\ (upset \/ l[i].flag = u.flag))
    <3>1. i = 1 \/ 1 < i
      BY <1>1
    <3>2. CASE i = 1
      BY <3>2 DEF u
    <3>3. CASE 1 < i
      BY <1>1, <3>3 DEF Upward, ItemsSorted, u
    <3> QED
      BY <3>1, <3>2, <3>3
  <2>2. CASE g \in DOMAIN got
    <3>1. heard[g] = got[g] /\ got[g] \in Nat
      BY <1>4, <2>2
    <3>2. CASE got[g] < u.n
      <4>1. got[g] < l[i].n
        BY <1>1, <1>2, <2>1, <3>1, <3>2
      <4> QED
        BY <3>1, <4>1
    <3>3. CASE got[g] = u.n /\ upset
      BY <2>1, <3>1, <3>3
    <3> QED
      BY <1>5, <2>2, <3>2, <3>3
  <2>3. CASE g = Len(got) + 1
    BY <1>2, <1>4, <2>1, <2>3
  <2> QED
    BY <1>4, <2>2, <2>3
<1>8. HeardOfDevice(next, wait, flag, heard, 1 - u.flag, UpData[u.n], upset)
  <2> SUFFICES ASSUME NEW g \in DOMAIN heard
               PROVE  /\ UpData[heard[g]] # Short
                      /\ \/ heard[g] < next
                         \/ heard[g] = next /\ wait
                              /\ (upset \/ (flag # 1 - u.flag /\ UpData[heard[g]] = UpData[u.n]))
    BY DEF HeardOfDevice
  <2>1. u.n < next \/ (u.n = next /\ wait /\ (upset \/ u.flag = flag))
    BY <1>1 DEF Upward, ItemsOfDevice, u
  <2>2. CASE g \in DOMAIN got
    <3>1. heard[g] = got[g] /\ got[g] \in Nat /\ UpData[got[g]] # Short
      BY <1>4, <2>2 DEF Upward, HeardOfDevice
    <3>2. CASE got[g] < u.n
      <4>1. got[g] < next
        BY <1>2, <2>1, <3>1, <3>2
      <4> QED
        BY <3>1, <4>1
    <3>3. CASE got[g] = u.n /\ upset
      BY <2>1, <3>1, <3>3
    <3> QED
      BY <1>5, <2>2, <3>2, <3>3
  <2>3. CASE g = Len(got) + 1
    BY <1>2, <1>3, <1>4, <2>1, <2>3
  <2> QED
    BY <1>4, <2>2, <2>3
<1> QED
  BY <1>2, <1>6, <1>7, <1>8 DEF Upward, heard, u

(* The line towards the driver.                                            *)
Line == akt \o toHost

LEMMA LineAppended ==
  ASSUME akt \in Seq(Up), toHost \in Seq(Up), NEW u \in Up
  PROVE  akt \o Append(toHost, u) = Append(Line, u) /\ Append(toHost, u) \in Seq(Up)
BY DEF Line

LEMMA LineHead ==
  ASSUME akt \in Seq(Up), toHost \in Seq(Up), akt # <<>>
  PROVE  /\ Line # <<>> /\ Line[1] = Head(akt) /\ Line \in Seq(Up)
         /\ Tail(akt) \o toHost = Tail(Line) /\ Tail(akt) \in Seq(Up)
BY DEF Line

Resets(s) == \E i \in DOMAIN s : s[i].kind = "reset"
Upset == Troubled("restart") \/ Troubled("reset")
HostInv ==
  /\ akt \in Seq(Up) /\ toHost \in Seq(Up) /\ hostGot \in Seq(Nat)
  /\ recvflag \in Bit /\ dflag \in Bit /\ dnext \in Nat /\ dwait \in BOOLEAN
  /\ Upward(Line, dnext, dwait, dflag, hostGot, recvflag, last, Upset)
  /\ Resets(toDev) \/ Resets(inqueue) => Troubled("reset")

LEMMA HostInit == FTInit => HostInv
<1> SUFFICES ASSUME FTInit PROVE HostInv
  OBVIOUS
<1>1. /\ inqueue = <<>> /\ toDev = <<>> /\ hostGot = <<>> /\ akt = <<>> /\ toHost = <<>>
      /\ recvflag = 0 /\ dflag = 0 /\ dnext = 1 /\ dwait = FALSE
  BY DEF FTInit, ApiInit
<1>2. Line = <<>>
  BY <1>1 DEF Line
<1>3. Upward(Line, dnext, dwait, dflag, hostGot, recvflag, last, Upset)
  BY <1>1, <1>2 DEF Upward, ItemsOfDevice, ItemsSorted, HeardOfLine, HeardOfDevice,
                    Ordered, InOrder, InOrderAgain
<1> QED
  <2>1. ~Resets(toDev) /\ ~Resets(inqueue)
    BY <1>1 DEF Resets
  <2>2. akt \in Seq(Up) /\ toHost \in Seq(Up) /\ hostGot \in Seq(Nat)
    BY <1>1
  <2>3. recvflag \in Bit /\ dflag \in Bit /\ dnext \in Nat /\ dwait \in BOOLEAN
    BY <1>1 DEF Bit
  <2> QED
    BY <1>3, <2>1, <2>2, <2>3 DEF HostInv

LEMMA ResetsStep ==
  ASSUME QueueInv, DevInv, HostInv, [FTNext]_ftvars
  PROVE  (Resets(toDev) \/ Resets(inqueue) => Troubled("reset"))'
<1> USE DEF QueueInv, DevInv, HostInv
<1>1. ASSUME NEW s, NEW S, s \in Seq(S), s # <<>> PROVE Resets(Tail(s)) => Resets(s)
  <2>1. \A i \in DOMAIN Tail(s) : i + 1 \in DOMAIN s /\ Tail(s)[i] = s[i + 1]
    BY <1>1
  <2> QED
    BY <2>1 DEF Resets
<1>2. ASSUME NEW s, NEW S, s \in Seq(S), NEW u, Resets(Append(s, u))
      PROVE  Resets(s) \/ u.kind = "reset"
  <2>1. \A i \in DOMAIN Append(s, u) :
          Append(s, u)[i] = u \/ (i \in DOMAIN s /\ Append(s, u)[i] = s[i])
    BY <1>2
  <2> QED
    BY <1>2, <2>1 DEF Resets
<1>3. /\ toDev # <<>> => (Resets(Tail(toDev)) => Resets(toDev))
      /\ inqueue # <<>> => (Resets(Tail(inqueue)) => Resets(inqueue))
      /\ inqueue # <<>>
           => (Resets(Append(toDev, Head(inqueue))) => Resets(toDev) \/ Resets(inqueue))
      /\ Resets(Append(toDev, Ack)) => Resets(toDev)
      /\ Resets(Append(inqueue, Data(sendflag, submitted + 1))) => Resets(inqueue)
  <2>1. inqueue # <<>> => 1 \in DOMAIN inqueue /\ Head(inqueue) = inqueue[1]
    OBVIOUS
  <2>2. Ack.kind # "reset" /\ Data(sendflag, submitted + 1).kind # "reset"
    BY DEF Ack, Data
  <2>3. inqueue # <<>>
          => (Resets(Append(toDev, Head(inqueue))) => Resets(toDev) \/ Resets(inqueue))
    BY <1>2, <2>1 DEF Resets
  <2>4. toDev # <<>> => (Resets(Tail(toDev)) => Resets(toDev))
    BY <1>1
  <2>5. inqueue # <<>> => (Resets(Tail(inqueue)) => Resets(inqueue))
    BY <1>1
  <2>6. Resets(Append(toDev, Ack)) => Resets(toDev)
    BY <1>2, <2>2
  <2>7. Resets(Append(inqueue, Data(sendflag, submitted + 1))) => Resets(inqueue)
    BY <1>2, <2>2
  <2> QED
    BY <2>3, <2>4, <2>5, <2>6, <2>7
<1>4. CASE UNCHANGED troubles
  <2>1. /\ \/ toDev' = toDev
           \/ toDev # <<>> /\ toDev' = Tail(toDev)
           \/ inqueue # <<>> /\ toDev' = Append(toDev, Head(inqueue))
           \/ toDev' = Append(toDev, Ack)
        /\ \/ inqueue' = inqueue
           \/ inqueue # <<>> /\ inqueue' = Tail(inqueue)
           \/ inqueue' = Append(inqueue, Data(sendflag, submitted + 1))
    <3>1. CASE Send_Packet
      BY <3>1 DEF Send_Packet, Submit, Put
    <3>2. CASE SendReset \/ DevRestart \/ Noise
      <4>1. \A w : troubles # Append(troubles, w)
        OBVIOUS
      <4> QED
        BY <1>4, <3>2, <4>1 DEF SendReset, DevRestart, Noise, Trouble
    <3>3. CASE Get_Packet \/ Stop \/ Read \/ Expire \/ DevSend
      BY <3>3 DEF Get_Packet, TakePacket, Stop, Read, Expire, DevSend, api
    <3>4. CASE RecvFixed \/ RecvRestarted \/ RecvData
      BY <3>4 DEF RecvFixed, RecvRestarted, RecvData, Received, api
    <3>5. CASE RecvAck \/ RecvRubbish
      BY <3>5 DEF RecvAck, RecvRubbish, Acknowledged, Sent, api
    <3>6. CASE Finish
      BY <3>6 DEF Finish, api
    <3>7. CASE DevReceive
      BY <3>7 DEF DevReceive, api
    <3>8. CASE UNCHANGED ftvars
      BY <3>8 DEF ftvars, api
    <3> QED
      BY <3>1, <3>2, <3>3, <3>4, <3>5, <3>6, <3>7, <3>8 DEF FTNext, Run
  <2>2. Resets(toDev') => Resets(toDev) \/ Resets(inqueue)
    BY <1>3, <2>1
  <2>3. Resets(inqueue') => Resets(inqueue)
    BY <1>3, <2>1
  <2>4. Troubled("reset")' <=> Troubled("reset")
    BY <1>4 DEF Troubled
  <2> QED
    BY <2>2, <2>3, <2>4 DEF Resets
<1>5. CASE SendReset
  <2>1. Troubled("reset")'
    BY <1>5, TroublesRemain DEF SendReset
  <2> QED
    BY <2>1
<1>6. CASE DevRestart \/ Noise
  <2>1. /\ inqueue' = inqueue
        /\ toDev' = toDev \/ (toDev # <<>> /\ toDev' = Tail(toDev))
        /\ Trouble("restart") \/ Trouble("noise")
    BY <1>6 DEF DevRestart, Noise, api
  <2>2. Resets(toDev') => Resets(toDev)
    BY <1>3, <2>1
  <2>3. Troubled("reset") => Troubled("reset")'
    BY <2>1, TroublesRemain
  <2> QED
    BY <2>1, <2>2, <2>3 DEF Resets
<1>7. CASE ~(SendReset \/ DevRestart \/ Noise)
  <2>1. UNCHANGED troubles
    BY <1>7 DEF FTNext, Run, ftvars, Send_Packet, Get_Packet, Stop, Read, Expire, DevSend,
                RecvFixed, RecvRestarted, RecvData, RecvAck, RecvRubbish, Finish, DevReceive
  <2> QED
    BY <1>4, <2>1
<1> QED
  BY <1>5, <1>6, <1>7

LEMMA RubbishThins ==
  ASSUME akt \in Seq(Up), akt # <<>>,
         NEW s, NEW r \in {Tail(akt), SubSeq(akt, 3, Len(akt))},
         s = r \/ \E u \in {Rest, Tailing, Hole(1), Hole(2)} : s = <<u>> \o r
  PROVE  Thins(s, akt) /\ s \in Seq(Up)
<1>1. Thins(r, akt) /\ r \in Seq(Up)
  <2>1. 3 \in Nat \ {0}
    OBVIOUS
  <2>2. Thins(SubSeq(akt, 3, Len(akt)), akt) /\ SubSeq(akt, 3, Len(akt)) \in Seq(Up)
    BY <2>1, ThinSkipped
  <2>3. Thins(Tail(akt), akt) /\ Tail(akt) \in Seq(Up)
    BY ThinTail
  <2> QED
    BY <2>2, <2>3
<1>2. \A u \in {Rest, Tailing, Hole(1), Hole(2)} : Junk(u) /\ u \in Up
  BY DEF Junk, IsItem, IsAck, Rest, Tailing, Hole, Up
<1> QED
  BY <1>1, <1>2, ThinWithJunk

LEMMA RubbishForgotten ==
  ASSUME akt \in Seq(Up), RecvRubbish
  PROVE  Thins(akt', akt) /\ akt' \in Seq(Up)
<1>1. akt # <<>>
  BY DEF RecvRubbish
<1>2. CASE akt' = Tail(akt)
  BY <1>1, <1>2, RubbishThins
<1>3. CASE Head(akt).kind = "hole" /\ akt' = SubSeq(akt, 3, Len(akt))
  BY <1>1, <1>3, RubbishThins
<1>4. CASE akt' = <<Tailing>> \o SubSeq(akt, 3, Len(akt))
  BY <1>1, <1>4, RubbishThins
<1>5. CASE akt' = <<Hole(1)>> \o SubSeq(akt, 3, Len(akt))
  BY <1>1, <1>5, RubbishThins
<1>6. CASE akt' = <<Hole(2)>> \o Tail(akt)
  BY <1>1, <1>6, RubbishThins
<1> QED
  BY <1>2, <1>3, <1>4, <1>5, <1>6 DEF RecvRubbish

LEMMA FrameDeleted ==
  ASSUME akt \in Seq(Up), akt # <<>>, NEW cut \in Cuts
  PROVE  Thins(Deleted(cut), akt) /\ Deleted(cut) \in Seq(Up)
<1>1. cut \in {"exact", "short", "long"}
  BY FT12Assumption
<1>2. Deleted(cut) \in {Tail(akt), <<Rest>> \o Tail(akt), SubSeq(akt, 3, Len(akt)),
                        <<Rest>> \o SubSeq(akt, 3, Len(akt))}
  BY <1>1 DEF Deleted
<1> QED
  BY <1>2, RubbishThins

LEMMA NoiseThins ==
  ASSUME toHost \in Seq(Up), Noise
  PROVE  Thins(toHost', toHost) /\ toHost' \in Seq(Up)
<1>1. CASE toHost' = toHost
  BY <1>1, ThinItself
<1>2. CASE toHost # <<>> /\ toHost' = Tail(toHost)
  BY <1>2, ThinTail
<1>3. CASE /\ toHost # <<>>
           /\ \E damaged \in {Bad, Hole(2), Rest} : toHost' = <<damaged>> \o Tail(toHost)
  <2>1. \A u \in {Bad, Hole(2), Rest} : Junk(u) /\ u \in Up
    BY DEF Junk, IsItem, IsAck, Rest, Bad, Hole, Up
  <2>2. Thins(Tail(toHost), toHost) /\ Tail(toHost) \in Seq(Up)
    BY <1>3, ThinTail
  <2> QED
    BY <1>3, <2>1, <2>2, ThinWithJunk
<1> QED
  BY <1>1, <1>2, <1>3 DEF Noise

(* A reset or a restart.                                                   *)
LEMMA BitsUpset ==
  ASSUME hostGot \in Seq(Nat), Upset \in BOOLEAN, NEW other, NEW another,
         Upward(Line, dnext, dwait, dflag, hostGot, recvflag, last, Upset)
  PROVE  Upward(Line, dnext, dwait, other, hostGot, another, last, TRUE)
<1>1. InOrderAgain(hostGot)
  <2>1. \A i \in DOMAIN hostGot : hostGot[i] \in Nat
    OBVIOUS
  <2> QED
    BY <2>1 DEF Upward, Ordered, InOrder, InOrderAgain
<1>2. ItemsOfDevice(Line, dnext, dwait, other, TRUE) /\ ItemsSorted(Line, TRUE)
  BY DEF Upward, ItemsOfDevice, ItemsSorted
<1>3. HeardOfLine(Line, hostGot, another, last, TRUE)
  BY DEF Upward, HeardOfLine
<1>4. HeardOfDevice(dnext, dwait, other, hostGot, another, last, TRUE)
  BY DEF Upward, HeardOfDevice
<1> QED
  BY <1>1, <1>2, <1>3, <1>4 DEF Upward, Ordered

LEMMA HostStep ==
  ASSUME QueueInv, DevInv, HostInv, [FTNext]_ftvars
  PROVE  HostInv'
<1> DEFINE TypesAfter ==
             /\ akt' \in Seq(Up) /\ toHost' \in Seq(Up) /\ hostGot' \in Seq(Nat)
             /\ recvflag' \in Bit /\ dflag' \in Bit /\ dnext' \in Nat /\ dwait' \in BOOLEAN
           GoodAfter == Upward(Line, dnext, dwait, dflag, hostGot, recvflag, last, Upset)'
<1> SUFFICES TypesAfter /\ GoodAfter
  BY ResetsStep DEF HostInv
<1>1. /\ akt \in Seq(Up) /\ toHost \in Seq(Up) /\ hostGot \in Seq(Nat)
      /\ recvflag \in Bit /\ dflag \in Bit /\ dnext \in Nat /\ dwait \in BOOLEAN
      /\ Upward(Line, dnext, dwait, dflag, hostGot, recvflag, last, Upset)
      /\ Line \in Seq(Up)
      /\ troubles \in Seq({"reset", "restart", "noise"})
      /\ Upset \in BOOLEAN /\ Upset' \in BOOLEAN
  BY DEF HostInv, DevInv, Line, Upset, Troubled
<1>2. UNCHANGED troubles => Upset' = Upset
  BY <1>1, SameTroubles DEF Upset
<1> HIDE DEF Upset
<1>3. CASE /\ UNCHANGED <<dnext, dwait, dflag, hostGot, recvflag, last>> /\ Upset' = Upset
           /\ akt' \in Seq(Up) /\ toHost' \in Seq(Up) /\ Line' \in Seq(Up)
           /\ Thins(Line', Line)
  BY <1>1, <1>3, Thinned
<1>4. CASE /\ UNCHANGED <<dnext, dwait, dflag, hostGot, recvflag, last, troubles>>
           /\ UNCHANGED <<akt, toHost>>
  <2>1. Line' = Line
    BY <1>4 DEF Line
  <2> QED
    BY <1>1, <1>2, <1>4, <2>1
<1>5. CASE Send_Packet \/ Get_Packet \/ Stop \/ Expire \/ Finish \/ UNCHANGED ftvars
  BY <1>4, <1>5 DEF Send_Packet, Get_Packet, Stop, Expire, Finish, ftvars, device, host
<1>6. CASE Read
  <2>1. /\ akt' = akt \o toHost /\ toHost' = <<>>
        /\ UNCHANGED <<dnext, dwait, dflag, hostGot, recvflag, last, troubles>>
    BY <1>6 DEF Read, device
  <2>2. akt' \in Seq(Up) /\ toHost' \in Seq(Up) /\ Line' = Line
    BY <1>1, <2>1 DEF Line
  <2> QED
    BY <1>1, <1>2, <2>1, <2>2
<1>7. CASE SendReset
  <2>1. /\ Trouble("reset") /\ recvflag' = 0
        /\ UNCHANGED <<dnext, dwait, dflag, hostGot, last, akt, toHost>>
    BY <1>7 DEF SendReset, device
  <2>2. Upset' = TRUE
    BY <1>1, <2>1, TroublesRemain DEF Upset
  <2>3. Line' = Line
    BY <2>1 DEF Line
  <2>4. Upward(Line, dnext, dwait, dflag, hostGot, 0, last, TRUE)
    BY <1>1, BitsUpset
  <2> QED
    BY <1>1, <2>1, <2>2, <2>3, <2>4 DEF Bit
<1>8. ASSUME NEW s \in Seq(Up), Thins(s, akt), akt' = s, toHost' = toHost
      PROVE  /\ Thins(Line', Line) /\ Line' \in Seq(Up)
             /\ akt' \in Seq(Up) /\ toHost' \in Seq(Up)
  <2>1. Thins(s \o toHost, akt \o toHost)
    BY <1>1, <1>8, ThinJoined
  <2> QED
    BY <1>1, <1>8, <2>1 DEF Line
<1>9. CASE RecvAck \/ RecvRestarted
  <2>1. /\ akt # <<>> /\ akt' = Tail(akt) /\ toHost' = toHost
        /\ UNCHANGED <<dnext, dwait, dflag, hostGot, recvflag, last, troubles>>
    BY <1>9 DEF RecvAck, RecvRestarted, Parsing, device
  <2>2. Thins(Tail(akt), akt) /\ Tail(akt) \in Seq(Up)
    BY <1>1, <2>1, ThinTail
  <2> QED
    BY <1>1, <1>2, <1>3, <1>8, <2>1, <2>2
<1>10. CASE RecvRubbish
  <2>1. /\ toHost' = toHost
        /\ UNCHANGED <<dnext, dwait, dflag, hostGot, recvflag, last, troubles>>
    BY <1>10 DEF RecvRubbish, device
  <2>2. Thins(akt', akt) /\ akt' \in Seq(Up)
    BY <1>1, <1>10, RubbishForgotten
  <2> QED
    BY <1>1, <1>2, <1>3, <1>8, <2>1, <2>2
<1>11. CASE RecvFixed
  <2>1. /\ akt # <<>> /\ akt' = Tail(akt) /\ toHost' = toHost /\ Head(akt).kind = "fixed"
        /\ recvflag' \in Bit
        /\ UNCHANGED <<dnext, dwait, dflag, hostGot, last, troubles>>
    BY <1>1, <1>11 DEF RecvFixed, Parsing, device, Bit
  <2>2. Thins(Tail(akt), akt) /\ Tail(akt) \in Seq(Up)
    BY <1>1, <2>1, ThinTail
  <2>3. /\ Thins(Line', Line) /\ Line' \in Seq(Up)
        /\ akt' \in Seq(Up) /\ toHost' \in Seq(Up)
    BY <1>8, <2>1, <2>2
  <2>4. Line # <<>> /\ Line[1].kind = "fixed"
    BY <1>1, <2>1, LineHead
  <2>5. Upward(Line, dnext, dwait, dflag, hostGot, recvflag', last, Upset)
    BY <1>1, <2>4, FixedRead
  <2>6. Upward(Line', dnext, dwait, dflag, hostGot, recvflag', last, Upset)
    BY <1>1, <2>3, <2>5, Thinned
  <2> QED
    BY <1>1, <1>2, <2>1, <2>3, <2>6
<1>12. CASE RecvData
  <2> DEFINE f == Head(akt)
  <2>1. /\ akt # <<>> /\ toHost' = toHost /\ f.kind = "data"
        /\ UNCHANGED <<dnext, dwait, dflag, troubles>>
    BY <1>12 DEF RecvData, Parsing, device
  <2>2. CASE (\E cut \in Cuts : akt' = Deleted(cut)) /\ UNCHANGED <<recvflag, last, hostGot>>
    <3>1. PICK cut \in Cuts : akt' = Deleted(cut)
      BY <2>2
    <3>2. Thins(akt', akt) /\ akt' \in Seq(Up)
      BY <1>1, <2>1, <3>1, FrameDeleted
    <3> QED
      BY <1>1, <1>2, <1>3, <1>8, <2>1, <2>2, <3>2
  <2>3. CASE /\ ~IsRepetition(f) /\ recvflag' = 1 - f.flag /\ last' = UpData[f.n]
             /\ hostGot' = Append(hostGot, f.n) /\ akt' = Tail(akt)
    <3>1. Thins(Tail(akt), akt) /\ Tail(akt) \in Seq(Up)
      BY <1>1, <2>1, ThinTail
    <3>2. /\ Thins(Line', Line) /\ Line' \in Seq(Up)
          /\ akt' \in Seq(Up) /\ toHost' \in Seq(Up)
      BY <1>8, <2>1, <2>3, <3>1
    <3>3. Line # <<>> /\ Line[1] = f /\ Line[1].kind = "data" /\ 1 \in DOMAIN Line
      BY <1>1, <2>1, LineHead
    <3>4. ~(Line[1].flag # recvflag /\ UpData[Line[1].n] = last)
      BY <2>3, <3>3 DEF IsRepetition
    <3>5. /\ Upward(Line, dnext, dwait, dflag, Append(hostGot, f.n), 1 - f.flag, UpData[f.n], Upset)
          /\ f.n \in Nat
      BY <1>1, <3>3, <3>4, DataAccepted
    <3>6. Upward(Line', dnext, dwait, dflag, hostGot', recvflag', last', Upset)
      BY <1>1, <2>3, <3>2, <3>5, Thinned
    <3>7. f.flag \in Bit
      BY <1>1, <3>3, ItemTypes DEF IsItem
    <3>8. hostGot' \in Seq(Nat) /\ recvflag' \in Bit
      BY <1>1, <2>3, <3>5, <3>7 DEF Bit
    <3> QED
      BY <1>1, <1>2, <2>1, <3>2, <3>6, <3>8
  <2> QED
    BY <1>12, <2>2, <2>3 DEF RecvData
<1>13. ASSUME NEW u \in Up, toHost' = Append(toHost, u), akt' = akt
       PROVE  Line' = Append(Line, u) /\ akt' \in Seq(Up) /\ toHost' \in Seq(Up)
  BY <1>1, <1>13, LineAppended DEF Line
<1>14. Ack \in Up /\ ~IsItem(Ack) /\ Restarted \in Up /\ ~IsItem(Restarted)
  BY DEF Up, IsItem, Ack, Restarted
<1>15. CASE DevReceive
  <2>1. toDev # <<>> /\ UNCHANGED <<akt, hostGot, recvflag, last, troubles>>
    BY <1>15 DEF DevReceive, host
  <2>2. CASE dwait' = FALSE /\ dnext' = dnext + 1 /\ dflag' = 1 - dflag /\ toHost' = toHost
    <3>1. Line' = Line
      BY <2>1, <2>2 DEF Line
    <3>2. Upward(Line, dnext + 1, FALSE, 1 - dflag, hostGot, recvflag, last, Upset)
      BY <1>1, NextItem
    <3>3. 1 - dflag \in Bit /\ dnext + 1 \in Nat
      BY <1>1 DEF Bit
    <3> QED
      BY <1>1, <1>2, <2>1, <2>2, <3>1, <3>2, <3>3
  <2>3. CASE UNCHANGED <<device, toHost>>
    BY <1>4, <2>1, <2>3 DEF device
  <2>4. CASE /\ Head(toDev).kind = "reset" /\ dflag' = 0 /\ toHost' = Append(toHost, Ack)
             /\ UNCHANGED <<dnext, dwait>>
    <3>1. Resets(toDev)
      <4>1. 1 \in DOMAIN toDev /\ toDev[1] = Head(toDev)
        BY <2>1 DEF DevInv
      <4> QED
        BY <2>4, <4>1 DEF Resets
    <3>2. Upset = TRUE
      BY <3>1, <1>1 DEF HostInv, Upset
    <3>3. Upward(Line, dnext, dwait, 0, hostGot, recvflag, last, TRUE)
      BY <1>1, BitsUpset
    <3>4. Upward(Append(Line, Ack), dnext, dwait, 0, hostGot, recvflag, last, TRUE)
      BY <1>1, <1>14, <3>3, JunkAppended
    <3>5. Line' = Append(Line, Ack) /\ akt' \in Seq(Up) /\ toHost' \in Seq(Up)
      BY <1>13, <1>14, <2>1, <2>4
    <3> QED
      BY <1>1, <1>2, <2>1, <2>4, <3>2, <3>4, <3>5 DEF Bit
  <2>5. CASE toHost' = Append(toHost, Ack) /\ UNCHANGED <<dflag, dnext, dwait>>
    <3>1. Upward(Append(Line, Ack), dnext, dwait, dflag, hostGot, recvflag, last, Upset)
      BY <1>1, <1>14, JunkAppended
    <3>2. Line' = Append(Line, Ack) /\ akt' \in Seq(Up) /\ toHost' \in Seq(Up)
      BY <1>13, <1>14, <2>1, <2>5
    <3> QED
      BY <1>1, <1>2, <2>1, <2>5, <3>1, <3>2
  <2> QED
    BY <1>15, <2>2, <2>3, <2>4, <2>5 DEF DevReceive
<1>16. CASE DevSend
  <2>1. /\ toHost' = Append(toHost, UpItem(dflag, dnext)) /\ dwait' = TRUE
        /\ UNCHANGED <<akt, dnext, dflag, hostGot, recvflag, last, troubles>>
    BY <1>16 DEF DevSend, host
  <2>2. UpItem(dflag, dnext) \in Up
    BY <1>1, UpTypes
  <2>3. Line' = Append(Line, UpItem(dflag, dnext)) /\ akt' \in Seq(Up) /\ toHost' \in Seq(Up)
    BY <1>13, <2>1, <2>2
  <2>4. Upward(Append(Line, UpItem(dflag, dnext)), dnext, TRUE, dflag, hostGot, recvflag, last,
               Upset)
    BY <1>1, ItemAppended
  <2> QED
    BY <1>1, <1>2, <2>1, <2>3, <2>4
<1>17. CASE DevRestart
  <2>1. /\ Trouble("restart") /\ dflag' = 0 /\ dwait' = FALSE
        /\ dnext' = IF dwait THEN dnext + 1 ELSE dnext
        /\ toHost' = Append(toHost, Restarted)
        /\ UNCHANGED <<akt, hostGot, recvflag, last>>
    BY <1>17 DEF DevRestart, host
  <2>2. Upset' = TRUE
    BY <1>1, <2>1, TroublesRemain DEF Upset
  <2>3. Upward(Line, dnext, dwait, 0, hostGot, recvflag, last, TRUE)
    BY <1>1, BitsUpset
  <2>4. Upward(Line, dnext', FALSE, 0, hostGot, recvflag, last, TRUE)
    <3>1. CASE dwait
      BY <1>1, <2>1, <2>3, <3>1, NextItem
    <3>2. CASE ~dwait
      BY <1>1, <2>1, <2>3, <3>2
    <3> QED
      BY <3>1, <3>2
  <2>5. Upward(Append(Line, Restarted), dnext', FALSE, 0, hostGot, recvflag, last, TRUE)
    BY <1>1, <1>14, <2>4, JunkAppended
  <2>6. Line' = Append(Line, Restarted) /\ akt' \in Seq(Up) /\ toHost' \in Seq(Up)
    BY <1>13, <1>14, <2>1
  <2>7. dnext' \in Nat
    BY <1>1, <2>1
  <2> QED
    BY <1>1, <2>1, <2>2, <2>5, <2>6, <2>7 DEF Bit
<1>18. CASE Noise
  <2>1. /\ Trouble("noise")
        /\ UNCHANGED <<akt, dnext, dwait, dflag, hostGot, recvflag, last>>
    BY <1>18 DEF Noise, device, host
  <2>2. Upset' = Upset
    BY <1>1, <2>1, TroublesRemain DEF Upset
  <2>3. Thins(toHost', toHost) /\ toHost' \in Seq(Up)
    BY <1>1, <1>18, NoiseThins
  <2>4. Thins(akt \o toHost', akt \o toHost)
    BY <1>1, <2>3, ThinBehind
  <2>5. Thins(Line', Line) /\ Line' \in Seq(Up)
    BY <1>1, <2>1, <2>3, <2>4 DEF Line
  <2> QED
    BY <1>1, <1>3, <2>1, <2>2, <2>3, <2>5
<1> QED
  BY <1>5, <1>6, <1>7, <1>9, <1>10, <1>11, <1>12, <1>15, <1>16, <1>17, <1>18 DEF FTNext, Run

(* One packet at a time.  The bits in the queue alternate, from a reset on *)
(* they start again; until a packet is written again, it or its E5 is on   *)
(* the line at most once, and the device either waits for its bit or has   *)
(* accepted it.                                                            *)
FlagAfter(p) == IF p.kind = "data" THEN 1 - p.flag ELSE 0
Chained(q, flag) ==
  /\ \A i \in DOMAIN q : i + 1 \in DOMAIN q /\ IsData(q[i + 1]) => q[i + 1].flag = FlagAfter(q[i])
  /\ q # <<>> => flag = FlagAfter(q[Len(q)])
Ready(q, flag, expect) ==
  IF q = <<>> THEN flag = expect ELSE IsData(Head(q)) => Head(q).flag = expect
Took(q, expect, got) ==
  q # <<>> /\ expect = FlagAfter(Head(q))
    /\ (IsData(Head(q)) => \E g \in DOMAIN got : got[g] = Head(q).n)
UnitsOn(d) == {i \in DOMAIN d : IsUnit(d[i])}
AcksOn(l) == {i \in DOMAIN l : IsAck(l[i])}

OnePacket(q, d, l, flag, expect, got, count) ==
  /\ count = 0 => Ready(q, flag, expect) /\ UnitsOn(d) = {} /\ AcksOn(l) = {}
  /\ count # 0 => q # <<>>
  /\ \A i, j \in AcksOn(l) : i = j
  /\ \A i, j \in UnitsOn(d) : i = j
  /\ UnitsOn(d) = {} \/ AcksOn(l) = {}
  /\ \A i \in UnitsOn(d) : d[i] = Head(q) /\ Ready(q, flag, expect)
  /\ AcksOn(l) # {} => Took(q, expect, got)

LEMMA AcksThinned ==
  ASSUME NEW s \in Seq(Up), NEW l \in Seq(Up), Thins(s, l), \A i, j \in AcksOn(l) : i = j
  PROVE  /\ \A i, j \in AcksOn(s) : i = j
         /\ AcksOn(l) = {} => AcksOn(s) = {}
<1>1. PICK f \in [DOMAIN s -> Nat] :
        /\ \A i \in DOMAIN s : Junk(s[i]) \/ (f[i] \in DOMAIN l /\ s[i] = l[f[i]])
        /\ \A i, j \in DOMAIN s : i < j /\ ~Junk(s[i]) /\ ~Junk(s[j]) => f[i] < f[j]
  BY DEF Thins
<1>2. \A i \in AcksOn(s) : f[i] \in AcksOn(l) /\ ~Junk(s[i])
  BY <1>1 DEF AcksOn, Junk
<1>3. ASSUME NEW i \in AcksOn(s), NEW j \in AcksOn(s), i < j PROVE FALSE
  <2>1. f[i] < f[j] /\ f[i] = f[j] /\ f[i] \in Nat
    BY <1>1, <1>2, <1>3 DEF AcksOn
  <2> QED
    BY <2>1
<1>4. ASSUME NEW i \in AcksOn(s), NEW j \in AcksOn(s) PROVE i = j
  <2>1. i \in Int /\ j \in Int
    BY DEF AcksOn
  <2> QED
    BY <1>3, <2>1
<1> QED
  BY <1>2, <1>4

LEMMA SingleThinned ==
  ASSUME NEW s \in Seq(Up), NEW l \in Seq(Up), Thins(s, l), NEW q, NEW d, NEW flag,
         NEW expect, NEW got, NEW count, OnePacket(q, d, l, flag, expect, got, count)
  PROVE  OnePacket(q, d, s, flag, expect, got, count)
BY AcksThinned DEF OnePacket

LEMMA SingleJunk ==
  ASSUME NEW l \in Seq(Up), NEW u \in Up, ~IsAck(u), NEW q, NEW d, NEW flag,
         NEW expect, NEW got, NEW count, OnePacket(q, d, l, flag, expect, got, count)
  PROVE  OnePacket(q, d, Append(l, u), flag, expect, got, count)
<1>1. AcksOn(Append(l, u)) = AcksOn(l)
  BY DEF AcksOn
<1> QED
  BY <1>1 DEF OnePacket

LEMMA UnitsGone ==
  ASSUME NEW d \in Seq(Down), d # <<>>
  PROVE  \A i \in UnitsOn(Tail(d)) :
           i + 1 \in UnitsOn(d) /\ Tail(d)[i] = d[i + 1] /\ i \in Nat \ {0}
BY DEF UnitsOn

LEMMA SingleGone ==
  ASSUME NEW d \in Seq(Down), d # <<>>, NEW l, NEW q, NEW flag,
         NEW expect, NEW got, NEW count, OnePacket(q, d, l, flag, expect, got, count)
  PROVE  OnePacket(q, Tail(d), l, flag, expect, got, count)
<1>1. UnitsOn(d) = {} => UnitsOn(Tail(d)) = {}
  BY UnitsGone
<1>2. ASSUME NEW i \in UnitsOn(Tail(d)), NEW j \in UnitsOn(Tail(d)) PROVE i = j
  <2>1. i + 1 = j + 1 /\ i \in Nat /\ j \in Nat
    BY UnitsGone DEF OnePacket
  <2> QED
    BY <2>1
<1>3. \A i \in UnitsOn(Tail(d)) : Tail(d)[i] = Head(q) /\ Ready(q, flag, expect)
  BY UnitsGone DEF OnePacket
<1> QED
  BY <1>1, <1>2, <1>3 DEF OnePacket

LEMMA SingleAckWritten ==
  ASSUME NEW d \in Seq(Down), NEW l, NEW q, NEW flag,
         NEW expect, NEW got, NEW count, OnePacket(q, d, l, flag, expect, got, count)
  PROVE  OnePacket(q, Append(d, Ack), l, flag, expect, got, count)
<1>1. UnitsOn(Append(d, Ack)) = UnitsOn(d) /\ \A i \in UnitsOn(d) : Append(d, Ack)[i] = d[i]
  <2>1. ~IsUnit(Ack)
    BY DEF IsUnit, Ack
  <2> QED
    BY <2>1 DEF UnitsOn
<1> QED
  BY <1>1 DEF OnePacket

(* The driver writes the packet for the first time.                        *)
LEMMA SingleWritten ==
  ASSUME NEW d \in Seq(Down), NEW l, NEW q \in Seq(FTPacket), q # <<>>, NEW flag,
         NEW expect, NEW got, NEW count, count # 0, OnePacket(q, d, l, flag, expect, got, 0)
  PROVE  OnePacket(q, Append(d, Head(q)), l, flag, expect, got, count)
<1>1. UnitsOn(d) = {} /\ AcksOn(l) = {} /\ Ready(q, flag, expect)
  BY DEF OnePacket
<1>2. UnitsOn(Append(d, Head(q))) \subseteq {Len(d) + 1} /\ Append(d, Head(q))[Len(d) + 1] = Head(q)
  BY <1>1 DEF UnitsOn
<1> QED
  BY <1>1, <1>2 DEF OnePacket

LEMMA ChainedQueued ==
  ASSUME NEW q \in Seq(FTPacket), NEW p \in FTPacket, NEW flag, Chained(q, flag),
         IsData(p) => p.flag = flag
  PROVE  Chained(Append(q, p), FlagAfter(p))
<1> DEFINE r == Append(q, p)
<1>1. /\ Len(q) \in Nat /\ DOMAIN q = 1 .. Len(q) /\ DOMAIN r = 1 .. Len(q) + 1
      /\ \A i \in 1 .. Len(q) : r[i] = q[i]
      /\ r[Len(q) + 1] = p /\ Len(r) = Len(q) + 1
  OBVIOUS
<1>0. q # <<>> => Len(q) \in DOMAIN q
  OBVIOUS
<1> HIDE DEF r
<1>2. ASSUME NEW i \in DOMAIN r, i + 1 \in DOMAIN r, IsData(r[i + 1])
      PROVE  r[i + 1].flag = FlagAfter(r[i])
  <2>1. i \in DOMAIN q /\ r[i] = q[i]
    BY <1>1, <1>2
  <2>2. CASE i + 1 \in DOMAIN q
    <3>1. r[i + 1] = q[i + 1]
      BY <1>1, <2>2
    <3> QED
      BY <1>2, <2>1, <2>2, <3>1 DEF Chained
  <2>3. CASE i + 1 = Len(q) + 1
    <3>1. i = Len(q) /\ q # <<>>
      BY <1>1, <2>1, <2>3
    <3> QED
      BY <1>0, <1>1, <1>2, <2>1, <2>3, <3>1 DEF Chained
  <2> QED
    BY <1>1, <1>2, <2>2, <2>3
<1> QED
  BY <1>0, <1>1, <1>2 DEF Chained, r

LEMMA SingleQueued ==
  ASSUME NEW q \in Seq(FTPacket), NEW p \in FTPacket, NEW d, NEW l, NEW flag,
         NEW expect, NEW got, NEW count, OnePacket(q, d, l, flag, expect, got, count),
         IsData(p) => p.flag = flag
  PROVE  OnePacket(Append(q, p), d, l, FlagAfter(p), expect, got, count)
<1>1. Append(q, p) # <<>> /\ (q # <<>> => Head(Append(q, p)) = Head(q))
      /\ (q = <<>> => Head(Append(q, p)) = p)
  <2>1. Append(q, p) \in Seq(FTPacket) /\ Append(q, p) # <<>>
    <3>1. Len(Append(q, p)) = Len(q) + 1 /\ Len(q) \in Nat /\ Append(q, p) \in Seq(FTPacket)
      OBVIOUS
    <3>2. Len(<<>>) = 0
      OBVIOUS
    <3>3. Len(Append(q, p)) # Len(<<>>)
      BY <3>1, <3>2
    <3> QED
      BY <3>1, <3>3
  <2>2. q # <<>> => Append(q, p)[1] = q[1] /\ Head(q) = q[1]
    OBVIOUS
  <2>3. q = <<>> => Append(q, p)[1] = p
    OBVIOUS
  <2>4. Head(Append(q, p)) = Append(q, p)[1]
    BY <2>1
  <2> QED
    BY <2>1, <2>2, <2>3, <2>4
<1>2. Ready(q, flag, expect) => Ready(Append(q, p), FlagAfter(p), expect)
  BY <1>1 DEF Ready
<1>3. Took(q, expect, got) => Took(Append(q, p), expect, got)
  BY <1>1 DEF Took
<1>4. UnitsOn(d) # {} => q # <<>>
  BY DEF OnePacket
<1> QED
  BY <1>1, <1>2, <1>3, <1>4 DEF OnePacket

(* The device takes the packet, and answers with E5.                       *)
LEMMA SingleTaken ==
  ASSUME NEW q \in Seq(FTPacket), NEW d \in Seq(Down), NEW l \in Seq(Up), NEW flag,
         NEW expect \in Bit, NEW got \in Seq(Nat), NEW got2 \in Seq(Nat), NEW expect2, NEW count,
         OnePacket(q, d, l, flag, expect, got, count), d # <<>>, IsUnit(Head(d)),
         IF IsData(Head(d))
         THEN Head(d).flag = expect => expect2 = 1 - expect /\ got2 = Append(got, Head(d).n)
         ELSE expect2 = 0
  PROVE  OnePacket(q, Tail(d), Append(l, Ack), flag, expect2, got2, count)
<1>1. 1 \in UnitsOn(d) /\ Head(d) = d[1]
  BY DEF UnitsOn
<1>2. /\ AcksOn(l) = {} /\ count # 0 /\ q # <<>>
      /\ Head(d) = Head(q) /\ (IsData(Head(q)) => Head(q).flag = expect)
  BY <1>1 DEF OnePacket, Ready
<1>3. UnitsOn(Tail(d)) = {}
  <2> SUFFICES ASSUME NEW i \in UnitsOn(Tail(d)) PROVE FALSE
    OBVIOUS
  <2>1. i + 1 = 1 /\ i \in Nat \ {0}
    BY <1>1, UnitsGone DEF OnePacket
  <2> QED
    BY <2>1
<1>4. AcksOn(Append(l, Ack)) \subseteq {Len(l) + 1}
  BY <1>2 DEF AcksOn
<1>5. Took(q, expect2, got2)
  <2>1. CASE IsData(Head(q))
    <3>1. expect2 = 1 - expect /\ got2 = Append(got, Head(q).n) /\ Head(q).flag = expect
      BY <1>2, <2>1
    <3>2. got2[Len(got) + 1] = Head(q).n /\ Len(got) + 1 \in DOMAIN got2
      BY <3>1
    <3> QED
      BY <1>2, <2>1, <3>1, <3>2 DEF Took, FlagAfter, IsData
  <2>2. CASE ~IsData(Head(q))
    BY <1>2, <2>2 DEF Took, FlagAfter, IsData
  <2> QED
    BY <2>1, <2>2
<1> QED
  BY <1>2, <1>3, <1>4, <1>5 DEF OnePacket

(* The driver reads the E5.                                                *)
LEMMA ChainedLeft ==
  ASSUME NEW q \in Seq(FTPacket), q # <<>>, NEW flag, Chained(q, flag)
  PROVE  /\ Chained(Tail(q), flag)
         /\ Ready(Tail(q), flag, FlagAfter(Head(q)))
<1> DEFINE r == Tail(q)
<1>1. /\ Len(q) \in Nat \ {0} /\ DOMAIN q = 1 .. Len(q) /\ DOMAIN r = 1 .. Len(q) - 1
      /\ Len(r) = Len(q) - 1 /\ Head(q) = q[1]
      /\ \A i \in 1 .. Len(q) - 1 : r[i] = q[i + 1]
  OBVIOUS
<1>0. /\ r = <<>> => Len(q) = 1
      /\ r # <<>> => Len(q) - 1 \in DOMAIN r /\ Head(r) = r[1] /\ 1 \in DOMAIN r
  <2>1. r \in Seq(FTPacket)
    OBVIOUS
  <2> HIDE DEF r
  <2> QED
    BY <1>1, <2>1
<1> HIDE DEF r
<1>2. ASSUME NEW i \in DOMAIN r, i + 1 \in DOMAIN r, IsData(r[i + 1])
      PROVE  r[i + 1].flag = FlagAfter(r[i])
  <2>1. /\ i + 1 \in DOMAIN q /\ (i + 1) + 1 \in DOMAIN q
        /\ r[i] = q[i + 1] /\ r[i + 1] = q[(i + 1) + 1]
    BY <1>1, <1>2
  <2> QED
    BY <1>2, <2>1 DEF Chained
<1>3. r # <<>> => flag = FlagAfter(r[Len(r)])
  <2>1. flag = FlagAfter(q[Len(q)])
    BY <1>1 DEF Chained
  <2>2. r # <<>> => r[Len(r)] = q[Len(q)]
    BY <1>0, <1>1
  <2> QED
    BY <2>1, <2>2
<1>4. Ready(r, flag, FlagAfter(q[1]))
  <2>1. CASE r = <<>>
    BY <1>0, <1>1, <2>1 DEF Chained, Ready
  <2>2. CASE r # <<>>
    <3>1. Head(r) = q[1 + 1] /\ 1 + 1 \in DOMAIN q /\ 1 \in DOMAIN q
      BY <1>0, <1>1, <2>2
    <3> QED
      BY <2>2, <3>1 DEF Chained, Ready
  <2> QED
    BY <2>1, <2>2
<1> QED
  BY <1>1, <1>2, <1>3, <1>4 DEF Chained, r

LEMMA SingleAcknowledged ==
  ASSUME NEW q \in Seq(FTPacket), NEW d, NEW l \in Seq(Up), NEW flag,
         NEW expect, NEW got, NEW count,
         Chained(q, flag), OnePacket(q, d, l, flag, expect, got, count), l # <<>>, IsAck(l[1])
  PROVE  /\ q # <<>> /\ (IsData(Head(q)) => \E g \in DOMAIN got : got[g] = Head(q).n)
         /\ OnePacket(Tail(q), d, Tail(l), flag, expect, got, 0)
<1>1. 1 \in AcksOn(l)
  BY DEF AcksOn
<1>2. Took(q, expect, got) /\ UnitsOn(d) = {}
  BY <1>1 DEF OnePacket
<1>3. AcksOn(Tail(l)) = {}
  <2> SUFFICES ASSUME NEW i \in AcksOn(Tail(l)) PROVE FALSE
    OBVIOUS
  <2>1. i + 1 \in AcksOn(l) /\ i \in Nat \ {0}
    BY DEF AcksOn
  <2>2. i + 1 = 1
    BY <1>1, <2>1 DEF OnePacket
  <2> QED
    BY <2>1, <2>2
<1>4. Ready(Tail(q), flag, expect)
  BY <1>2, ChainedLeft DEF Took
<1> QED
  BY <1>2, <1>3, <1>4 DEF OnePacket, Took

OneInv ==
  /\ repeatcount \in Nat /\ (mode = 1 => repeatcount # 0)
  /\ Chained(inqueue, sendflag)
  /\ ~ambiguous /\ ~Troubled("restart") =>
       OnePacket(inqueue, toDev, Line, sendflag, dexpect, devGot, repeatcount) /\ lost = {}

LEMMA OneInit == FTInit => OneInv
<1> SUFFICES ASSUME FTInit PROVE OneInv
  OBVIOUS
<1>1. /\ inqueue = <<>> /\ toDev = <<>> /\ akt = <<>> /\ toHost = <<>> /\ lost = {}
      /\ sendflag = 0 /\ dexpect = 0 /\ repeatcount = 0 /\ mode = 0
  BY DEF FTInit, ApiInit
<1>2. Line = <<>>
  BY <1>1 DEF Line
<1>3. UnitsOn(toDev) = {} /\ AcksOn(Line) = {}
  BY <1>1, <1>2 DEF UnitsOn, AcksOn
<1>4. OnePacket(inqueue, toDev, Line, sendflag, dexpect, devGot, repeatcount)
  BY <1>1, <1>3 DEF OnePacket, Ready
<1>5. Chained(inqueue, sendflag)
  BY <1>1 DEF Chained
<1> QED
  BY <1>1, <1>4, <1>5 DEF OneInv

(* What each step does to the packet under way. *)
LEMMA OneStep ==
  ASSUME QueueInv, DevInv, HostInv, HostInv', OneInv, [FTNext]_ftvars
  PROVE  OneInv'
<1> DEFINE One == OnePacket(inqueue, toDev, Line, sendflag, dexpect, devGot, repeatcount)
           Clear == ~ambiguous /\ ~Troubled("restart")
<1>1. /\ inqueue \in Seq(FTPacket) /\ toDev \in Seq(Down) /\ Line \in Seq(Up)
      /\ akt \in Seq(Up) /\ toHost \in Seq(Up) /\ Line' \in Seq(Up)
      /\ devGot \in Seq(Nat) /\ dexpect \in Bit /\ sendflag \in Bit
      /\ repeatcount \in Nat /\ (mode = 1 => repeatcount # 0 /\ inqueue # <<>>)
      /\ Chained(inqueue, sendflag) /\ (Clear => One /\ lost = {})
      /\ troubles \in Seq({"reset", "restart", "noise"})
  BY DEF QueueInv, DevInv, HostInv, OneInv, Line
<1> SUFFICES /\ repeatcount' \in Nat /\ (mode' = 1 => repeatcount' # 0)
             /\ Chained(inqueue, sendflag)'
             /\ (Clear' => One' /\ lost' = {})
  BY DEF OneInv
<1>2. UNCHANGED <<ambiguous, troubles>> => (Clear' => Clear)
  BY SameTroubles
<1>3. ASSUME NEW w \in {"reset", "noise"}, Trouble(w), UNCHANGED ambiguous PROVE Clear' => Clear
  BY <1>1, <1>3, TroublesRemain
<1> HIDE DEF Clear, One
<1>4. CASE /\ UNCHANGED <<inqueue, toDev, akt, toHost, sendflag, dexpect, devGot, repeatcount>>
           /\ UNCHANGED <<mode, lost, ambiguous, troubles>>
  <2>1. One' = One
    BY <1>4 DEF One, Line
  <2> QED
    BY <1>1, <1>2, <1>4, <2>1
<1>5. CASE Send_Packet
  <2> DEFINE p == Data(sendflag, submitted + 1)
  <2>1. p \in FTPacket /\ IsData(p) /\ p.flag = sendflag
    BY <1>1, <1>5, MaxSubmitAssumption DEF QueueInv, Send_Packet, Submit, FTPacket, Data, IsData
  <2>2. /\ inqueue' = Append(inqueue, p) /\ sendflag' = 1 - sendflag
        /\ UNCHANGED <<toDev, akt, toHost, dexpect, devGot, repeatcount>>
        /\ UNCHANGED <<mode, lost, ambiguous, troubles>>
    BY <1>5 DEF Send_Packet, Submit, Put, Toggle, device
  <2>3. sendflag' = FlagAfter(p)
    BY <2>1, <2>2 DEF FlagAfter, IsData
  <2> HIDE DEF p
  <2>4. Chained(inqueue', sendflag')
    BY <1>1, <2>1, <2>2, <2>3, ChainedQueued
  <2>5. One => OnePacket(inqueue', toDev, Line, sendflag', dexpect, devGot, repeatcount)
    BY <1>1, <2>1, <2>2, <2>3, SingleQueued DEF One
  <2>6. One => One'
    BY <2>2, <2>5 DEF One, Line
  <2> QED
    BY <1>1, <1>2, <2>2, <2>4, <2>6
<1>6. CASE SendReset
  <2>1. Reset \in FTPacket /\ ~IsData(Reset) /\ FlagAfter(Reset) = 0
    BY DEF FTPacket, Reset, IsData, FlagAfter
  <2>2. /\ inqueue' = Append(inqueue, Reset) /\ sendflag' = FlagAfter(Reset) /\ Trouble("reset")
        /\ UNCHANGED <<toDev, akt, toHost, dexpect, devGot, repeatcount>>
        /\ UNCHANGED <<mode, lost, ambiguous>>
    BY <1>6, <2>1 DEF SendReset, device
  <2>3. Chained(inqueue', sendflag')
    BY <1>1, <2>1, <2>2, ChainedQueued
  <2>4. One => OnePacket(inqueue', toDev, Line, sendflag', dexpect, devGot, repeatcount)
    BY <1>1, <2>1, <2>2, SingleQueued DEF One
  <2>5. One => One'
    BY <2>2, <2>4 DEF One, Line
  <2> QED
    BY <1>1, <1>3, <2>2, <2>3, <2>5
<1>7. CASE Get_Packet \/ Stop \/ Expire \/ UNCHANGED ftvars
  BY <1>4, <1>7 DEF Get_Packet, TakePacket, Stop, Expire, ftvars, api, device, host
<1>8. CASE Read
  <2>1. Line' = Line
    BY <1>1, <1>8 DEF Read, Line
  <2>2. /\ UNCHANGED <<inqueue, toDev, sendflag, dexpect, devGot, repeatcount>>
        /\ UNCHANGED <<mode, lost, ambiguous, troubles>>
    BY <1>8 DEF Read, api, device
  <2>3. One' = One
    BY <2>1, <2>2 DEF One
  <2> QED
    BY <1>1, <1>2, <2>2, <2>3
<1>9. ASSUME NEW s \in Seq(Up), Thins(s, akt), akt' = s, toHost' = toHost,
             UNCHANGED <<inqueue, sendflag, dexpect, devGot, repeatcount>>,
             toDev' = toDev \/ toDev' = Append(toDev, Ack), One
      PROVE  One'
  <2>1. Thins(Line', Line)
    BY <1>1, <1>9, ThinJoined DEF Line
  <2>2. OnePacket(inqueue, toDev, Line', sendflag, dexpect, devGot, repeatcount)
    BY <1>1, <1>9, <2>1, SingleThinned DEF One
  <2>3. OnePacket(inqueue, toDev', Line', sendflag, dexpect, devGot, repeatcount)
    BY <1>1, <1>9, <2>2, SingleAckWritten
  <2> QED
    BY <1>9, <2>3 DEF One
<1>10. akt # <<>> => Thins(Tail(akt), akt) /\ Tail(akt) \in Seq(Up)
  BY <1>1, ThinTail
<1>11. CASE Acknowledged
  <2>1. /\ inqueue # <<>> /\ inqueue' = Tail(inqueue) /\ mode' = 0 /\ repeatcount' = 0
    BY <1>1, <1>11 DEF Acknowledged, Sent
  <2>2. Chained(inqueue', sendflag)
    BY <1>1, <2>1, ChainedLeft
  <2>3. CASE RecvAck
    <3>1. /\ UNCHANGED <<toDev, sendflag, dexpect, devGot, ambiguous, troubles>>
          /\ akt # <<>> /\ IsAck(Head(akt)) /\ akt' = Tail(akt) /\ toHost' = toHost
      BY <2>3 DEF RecvAck, Parsing, device, IsAck
    <3>2. Line # <<>> /\ IsAck(Line[1]) /\ Line' = Tail(Line)
      BY <1>1, <3>1, LineHead DEF Line
    <3>3. ASSUME One
          PROVE  /\ IsData(Head(inqueue)) => \E g \in DOMAIN devGot : devGot[g] = Head(inqueue).n
                 /\ OnePacket(Tail(inqueue), toDev, Tail(Line), sendflag, dexpect, devGot, 0)
      BY <1>1, <3>2, <3>3, SingleAcknowledged DEF One
    <3>4. One => One' /\ lost' = lost
      BY <1>11, <2>1, <3>1, <3>2, <3>3 DEF One, Acknowledged, IsData
    <3> QED
      BY <1>1, <1>2, <2>1, <2>2, <3>1, <3>4
  <2>4. CASE RecvRubbish /\ ambiguous' = TRUE
    <3>1. UNCHANGED sendflag
      BY <2>4 DEF RecvRubbish
    <3>2. ~Clear'
      BY <2>4 DEF Clear
    <3> QED
      BY <2>1, <2>2, <3>1, <3>2
  <2>5. CASE RecvRubbish /\ UNCHANGED <<mode, repeatcount>>
    <3>1. FALSE
      BY <1>11, <2>5 DEF Acknowledged
    <3> QED
      BY <3>1
  <2>6. CASE ~RecvAck /\ ~RecvRubbish
    <3>1. UNCHANGED inqueue \/ Send_Packet \/ SendReset
      BY <2>6 DEF FTNext, Run, ftvars, api, device, host, Get_Packet, TakePacket, Stop, Expire,
                  Read, RecvFixed, RecvRestarted, RecvData, Received, Finish, DevReceive, DevSend,
                  DevRestart, Noise
    <3>2. inqueue' # inqueue
      <4>1. Len(inqueue') = Len(inqueue) - 1 /\ Len(inqueue) \in Nat
        BY <1>1, <2>1
      <4> QED
        BY <4>1
    <3> QED
      BY <1>5, <1>6, <3>1, <3>2
  <2> QED
    BY <2>3, <2>4, <2>5, <2>6 DEF RecvRubbish
<1>12. CASE RecvAck /\ ~Acknowledged
  <2>1. /\ UNCHANGED <<inqueue, sendflag, dexpect, devGot, repeatcount, toDev>>
        /\ UNCHANGED <<mode, lost, ambiguous, troubles>>
        /\ akt # <<>> /\ akt' = Tail(akt) /\ toHost' = toHost
    BY <1>12 DEF RecvAck, Parsing, device, api
  <2> QED
    BY <1>1, <1>2, <1>9, <1>10, <2>1
<1>13. CASE RecvRubbish /\ ~Acknowledged
  <2>1. /\ UNCHANGED <<inqueue, sendflag, dexpect, devGot, repeatcount, toDev>>
        /\ UNCHANGED <<mode, lost, ambiguous, troubles>>
        /\ toHost' = toHost
    BY <1>13 DEF RecvRubbish, device, api
  <2>2. Thins(akt', akt) /\ akt' \in Seq(Up)
    BY <1>1, <1>13, RubbishForgotten
  <2> QED
    BY <1>1, <1>2, <1>9, <2>1, <2>2
<1>14. CASE RecvFixed \/ RecvRestarted \/ RecvData
  <2>1. /\ UNCHANGED <<inqueue, sendflag, dexpect, devGot, repeatcount>>
        /\ UNCHANGED <<mode, lost, ambiguous, troubles>>
        /\ toDev' = Append(toDev, Ack) /\ akt # <<>> /\ toHost' = toHost
    BY <1>14 DEF RecvFixed, RecvRestarted, RecvData, Received, Parsing, device, api
  <2>2. Thins(akt', akt) /\ akt' \in Seq(Up)
    <3>1. akt' = Tail(akt) \/ \E cut \in Cuts : akt' = Deleted(cut)
      BY <1>14 DEF RecvFixed, RecvRestarted, RecvData
    <3> QED
      BY <1>1, <1>10, <2>1, <3>1, FrameDeleted
  <2> QED
    BY <1>1, <1>2, <1>9, <2>1, <2>2
<1>15. CASE Finish
  <2>1. /\ UNCHANGED <<inqueue, sendflag, dexpect, devGot, akt, toHost, lost, troubles>>
        /\ Line' = Line
    BY <1>15 DEF Finish, Line, device, api
  <2>2. CASE UNCHANGED <<repeatcount, toDev, ambiguous>> /\ mode' \in {0, mode}
    <3>1. One' = One
      BY <2>1, <2>2 DEF One
    <3> QED
      BY <1>1, <1>2, <2>1, <2>2, <3>1
  <2>3. CASE /\ inqueue # <<>>
             /\ repeatcount' = IF repeatcount > LostAfter THEN repeatcount ELSE repeatcount + 1
    <3>1. repeatcount' \in Nat /\ repeatcount' # 0
      BY <1>1, <2>3, FT12Assumption
    <3>2. CASE UNCHANGED <<toDev, ambiguous>>
      <4>1. One => OnePacket(inqueue, toDev, Line, sendflag, dexpect, devGot, repeatcount')
        BY <2>3, <3>1 DEF One, OnePacket
      <4>2. One => One'
        BY <2>1, <3>2, <4>1 DEF One
      <4> QED
        BY <1>1, <1>2, <2>1, <3>1, <3>2, <4>2
    <3>3. CASE toDev' = Append(toDev, Head(inqueue)) /\ ambiguous' = (ambiguous \/ repeatcount > 0)
      <4>1. Clear' => Clear /\ repeatcount = 0
        <5>1. ~ambiguous' => ~ambiguous /\ ~(repeatcount > 0)
          BY <3>3, Zenon
        <5>2. Troubled("restart")' <=> Troubled("restart")
          BY <2>1, SameTroubles
        <5> QED
          BY <1>1, <5>1, <5>2 DEF Clear
      <4>2. One /\ repeatcount = 0
              => OnePacket(inqueue, toDev', Line, sendflag, dexpect, devGot, repeatcount')
        BY <1>1, <2>3, <3>1, <3>3, SingleWritten DEF One
      <4>3. One /\ repeatcount = 0 => One'
        BY <2>1, <4>2 DEF One
      <4> QED
        BY <1>1, <2>1, <3>1, <4>1, <4>3
    <3> QED
      BY <1>15, <2>3, <3>2, <3>3 DEF Finish
  <2> QED
    BY <1>15, <2>2, <2>3 DEF Finish
<1>16. Ack \in Up
  BY DEF Up
<1>17. CASE DevReceive
  <2>1. /\ UNCHANGED <<inqueue, sendflag, repeatcount, akt>>
        /\ UNCHANGED <<mode, lost, ambiguous, troubles>>
        /\ toDev # <<>> /\ toDev' = Tail(toDev)
    BY <1>17 DEF DevReceive, api, host
  <2>2. CASE UNCHANGED <<dexpect, toHost, devGot>>
    <3>1. One => OnePacket(inqueue, toDev', Line, sendflag, dexpect, devGot, repeatcount)
      BY <1>1, <2>1, SingleGone DEF One
    <3>2. One => One'
      BY <2>1, <2>2, <3>1 DEF One, Line
    <3> QED
      BY <1>1, <1>2, <2>1, <3>2
  <2>3. CASE /\ IsUnit(Head(toDev)) /\ toHost' = Append(toHost, Ack)
             /\ devGot' \in Seq(Nat)
             /\ IF IsData(Head(toDev))
                THEN Head(toDev).flag = dexpect
                       => dexpect' = 1 - dexpect /\ devGot' = Append(devGot, Head(toDev).n)
                ELSE dexpect' = 0
    <3>1. Line' = Append(Line, Ack)
      BY <1>1, <1>16, <2>1, <2>3, LineAppended DEF Line
    <3>2. One => OnePacket(inqueue, Tail(toDev), Append(Line, Ack), sendflag, dexpect', devGot',
                           repeatcount)
      BY <1>1, <2>1, <2>3, SingleTaken DEF One
    <3>3. One => One'
      BY <2>1, <3>1, <3>2 DEF One
    <3> QED
      BY <1>1, <1>2, <2>1, <3>3
  <2>4. Head(toDev) \in Down
    BY <1>1, <2>1
  <2>5. IsData(Head(toDev)) => Append(devGot, Head(toDev).n) \in Seq(Nat)
    BY <1>1, <2>4, DownTypes
  <2> QED
    BY <1>1, <1>17, <2>2, <2>3, <2>5 DEF DevReceive, device, IsData, IsUnit
<1>18. CASE DevSend
  <2> DEFINE u == UpItem(dflag, dnext)
  <2>1. /\ UNCHANGED <<inqueue, toDev, akt, sendflag, dexpect, devGot, repeatcount>>
        /\ UNCHANGED <<mode, lost, ambiguous, troubles>>
        /\ toHost' = Append(toHost, u)
    BY <1>18 DEF DevSend, api, host
  <2>2. u \in Up /\ ~IsAck(u)
    BY UpTypes DEF HostInv, IsItem, IsAck
  <2> HIDE DEF u
  <2>3. Line' = Append(Line, u)
    BY <1>1, <2>1, <2>2, LineAppended DEF Line
  <2>4. One => OnePacket(inqueue, toDev, Append(Line, u), sendflag, dexpect, devGot, repeatcount)
    BY <1>1, <2>2, SingleJunk DEF One
  <2>5. One => One'
    BY <2>1, <2>3, <2>4 DEF One
  <2> QED
    BY <1>1, <1>2, <2>1, <2>5
<1>19. CASE DevRestart
  <2>1. /\ Trouble("restart") /\ UNCHANGED <<inqueue, sendflag, mode, repeatcount>>
    BY <1>19 DEF DevRestart, api, host
  <2>2. ~Clear'
    BY <1>1, <2>1, TroublesRemain DEF Clear
  <2> QED
    BY <1>1, <2>1, <2>2
<1>20. CASE Noise
  <2>1. /\ Trouble("noise")
        /\ UNCHANGED <<inqueue, akt, sendflag, dexpect, devGot, repeatcount>>
        /\ UNCHANGED <<mode, lost, ambiguous>>
        /\ toDev' = toDev \/ (toDev # <<>> /\ toDev' = Tail(toDev))
    BY <1>20 DEF Noise, api, host, device
  <2>2. Thins(toHost', toHost) /\ toHost' \in Seq(Up)
    BY <1>1, <1>20, NoiseThins
  <2>3. Thins(Line', Line)
    BY <1>1, <2>1, <2>2, ThinBehind DEF Line
  <2>4. One => OnePacket(inqueue, toDev, Line', sendflag, dexpect, devGot, repeatcount)
    BY <1>1, <2>3, SingleThinned DEF One
  <2>5. One => OnePacket(inqueue, toDev', Line', sendflag, dexpect, devGot, repeatcount)
    BY <1>1, <2>1, <2>4, SingleGone
  <2>6. One => One'
    BY <2>1, <2>5 DEF One
  <2> QED
    BY <1>1, <1>3, <2>1, <2>6
<1> QED
  BY <1>5, <1>6, <1>7, <1>8, <1>11, <1>12, <1>13, <1>14, <1>15, <1>17, <1>18, <1>19, <1>20
  DEF FTNext, Run

(* The three parts together.                                               *)
LineInv == QueueInv /\ DevInv /\ HostInv /\ OneInv

LEMMA LineStep == LineInv /\ [FTNext]_ftvars => LineInv'
BY QueueStep, DevStep, HostStep, OneStep DEF LineInv

(* Whatever is repeated, damaged or acknowledged twice, packets cross the  *)
(* serial line in order and once in each direction, again only around a    *)
(* reset or a restart, and a packet that leaves the queue without having   *)
(* been accepted was taken for sent because of an E5 that could have been  *)
(* meant for another (ft12.cpp:176-197 and :270-310).                      *)
THEOREM LineInOrder == DriversSpec => []CrossInOrder
<1>1. DriversInit => LineInv
  BY QueueInit, DevInit, HostInit, OneInit DEF DriversInit, Create, LineInv
<1>2. [DriversNext]_dvars => [FTNext]_ftvars
  BY DEF DriversNext, dvars, TPUARTOnly, EMIOnly
<1>3. LineInv /\ [DriversNext]_dvars => LineInv'
  BY <1>2, LineStep
<1>4. LineInv => CrossInOrder
  BY DEF LineInv, DevInv, HostInv, OneInv, Downward, Upward, Ordered, Upset, CrossInOrder
<1> QED
  BY <1>1, <1>3, <1>4, PTL DEF DriversSpec

----------------------------------------------------------------------------
(* EMI: the mode.  As long as changes of mode have met neither each other  *)
(* nor a restart, at most one thread executes one, and what it has still   *)
(* to do, its packets and its calls, leads to the mode that Layer3 wants.  *)
Last(op) == CASE op = "Open" -> "link" [] op = "enterBusmonitor" -> "monitor" [] OTHER -> "plain"
OnlyFrames == \A i \in DOMAIN queue : queue[i] = "frame"
Wanted == IF monitors = {} THEN 2 ELSE 1

(* The packet that changes the mode is under way, or the unit has obeyed.  *)
Obeys(op) ==
  \/ \E i \in DOMAIN queue :
       queue[i] = Last(op) /\ \A j \in DOMAIN queue : j > i => queue[j] = "frame"
  \/ OnlyFrames /\ unit = Noted(op)
Todo(op) ==
  CASE op = "Open" -> {<<"link">>, <<"plain", "link">>}
    [] op = "enterBusmonitor" -> {<<"monitor">>, <<"plain", "monitor">>}
    [] OTHER -> {}
Changing(c) ==
  \/ c.todo \in Todo(c.op) /\ ~c.woken
  \/ c.todo = <<>> /\ ~c.woken /\ c.op # "sleep" /\ Obeys(c.op)
  \/ c.todo = <<>> /\ c.woken /\ OnlyFrames /\ unit = Noted(c.op)

UserCalls(u) ==
  /\ monitors = {}
  /\ \/ call[u].op = "Close" /\ plan[u] = <<"Close", "enterBusmonitor">> /\ emode = 2
     \/ call[u].op = "enterBusmonitor" /\ plan[u] = <<"enterBusmonitor">> /\ emode = 0
     \/ call[u].op = "leaveBusmonitor" /\ plan[u] = <<"leaveBusmonitor", "Open">> /\ emode = 1
     \/ call[u].op = "sleep" /\ plan[u] = <<"leaveBusmonitor", "Open">> /\ emode = 0
          /\ call[u].woken
     \/ call[u].op = "Open" /\ plan[u] = <<"Open">> /\ emode = 0
Reopens == emode = 0 /\ call["run"].op = IF monitors = {} THEN "Open" ELSE "enterBusmonitor"

Busy(t) ==
  /\ ~Idle(t) /\ \A s \in Threads \ {t} : Idle(s)
  /\ \A u \in Users \ {t} : plan[u] = <<>>
  /\ Changing(call[t])
  /\ IF t = "run" THEN Reopens ELSE UserCalls(t)
ToldOfRestart == \E i \in DOMAIN up : up[i] = "restarted"
Rests ==
  /\ Calm /\ (\A u \in Users : plan[u] = <<>>)
  /\ OnlyFrames /\ emode = Wanted
  /\ unit = emode \/ ToldOfRestart

EMIPacket == {"reset", "plain", "link", "monitor", "frame"}
Operation == {"Open", "Close", "enterBusmonitor", "leaveBusmonitor"}
Call == [op : Operation \cup {"none", "sleep"}, todo : Seq(EMIPacket), woken : BOOLEAN]
EMITypes ==
  /\ version \in {1, 2}
  /\ queue \in Seq(EMIPacket) /\ (empty => queue = <<>>)
  /\ up \in Seq({"restarted", "confirm"})
  /\ emode \in {0, 1, 2}
  /\ overlapped \in BOOLEAN /\ monitors \subseteq Users /\ unit \in {0, 1, 2}
  /\ call \in [Threads -> Call]
  /\ plan \in [Users -> Seq(Operation)]
Modes ==
  /\ l3mode = IF monitors = {} THEN 0 ELSE 1
  /\ Rests \/ \E t \in Threads : Busy(t)
ModeInv == overlapped \in BOOLEAN /\ (~overlapped => EMITypes /\ Modes)

(* What becomes of the packets under way when one is added, ...            *)
LEMMA FrameAdded ==
  ASSUME queue \in Seq(EMIPacket), queue' = Append(queue, "frame"), unit' = unit
  PROVE  /\ OnlyFrames => OnlyFrames'
         /\ \A op : Obeys(op) => Obeys(op)'
<1>1. /\ Len(queue) \in Nat /\ DOMAIN queue = 1 .. Len(queue)
      /\ DOMAIN queue' = 1 .. Len(queue) + 1
      /\ \A i \in 1 .. Len(queue) : queue'[i] = queue[i]
      /\ queue'[Len(queue) + 1] = "frame"
  OBVIOUS
<1>2. OnlyFrames => OnlyFrames'
  BY <1>1 DEF OnlyFrames
<1>3. ASSUME NEW op, Obeys(op) PROVE Obeys(op)'
  <2>1. CASE OnlyFrames /\ unit = Noted(op)
    BY <2>1, <1>2 DEF Obeys
  <2>2. CASE \E i \in DOMAIN queue :
               queue[i] = Last(op) /\ \A j \in DOMAIN queue : j > i => queue[j] = "frame"
    <3>1. PICK i \in DOMAIN queue :
            queue[i] = Last(op) /\ \A j \in DOMAIN queue : j > i => queue[j] = "frame"
      BY <2>2
    <3>2. i \in DOMAIN queue' /\ queue'[i] = Last(op)
          /\ \A j \in DOMAIN queue' : j > i => queue'[j] = "frame"
      BY <1>1, <3>1
    <3> QED
      BY <3>2 DEF Obeys
  <2> QED
    BY <2>1, <2>2, <1>3 DEF Obeys
<1> QED
  BY <1>2, <1>3

LEMMA LastAdded ==
  ASSUME queue \in Seq(EMIPacket), NEW op, queue' = Append(queue, Last(op))
  PROVE  Obeys(op)'
<1>1. /\ Len(queue) \in Nat /\ DOMAIN queue' = 1 .. Len(queue) + 1
      /\ queue'[Len(queue) + 1] = Last(op)
  OBVIOUS
<1>2. \A j \in DOMAIN queue' : ~(j > Len(queue) + 1)
  BY <1>1
<1> QED
  BY <1>1, <1>2 DEF Obeys

(* ... and when the first has been transmitted.                            *)
LEMMA FirstObeyed ==
  ASSUME queue \in Seq(EMIPacket), queue # <<>>, queue' = Tail(queue),
         unit' = ModeOf(Head(queue))
  PROVE  /\ OnlyFrames => OnlyFrames' /\ unit' = unit
         /\ \A op \in Operation : Obeys(op) => Obeys(op)'
<1>1. /\ Len(queue) \in Nat /\ DOMAIN queue = 1 .. Len(queue) /\ 1 \in DOMAIN queue
      /\ Head(queue) = queue[1] /\ DOMAIN queue' = 1 .. Len(queue) - 1
      /\ \A i \in 1 .. Len(queue) - 1 : queue'[i] = queue[i + 1]
  OBVIOUS
<1>2. ASSUME OnlyFrames PROVE OnlyFrames' /\ unit' = unit
  BY <1>1, <1>2 DEF OnlyFrames, ModeOf
<1>3. ASSUME NEW op \in Operation, Obeys(op) PROVE Obeys(op)'
  <2>1. CASE OnlyFrames /\ unit = Noted(op)
    BY <2>1, <1>2 DEF Obeys
  <2>2. CASE \E i \in DOMAIN queue :
               queue[i] = Last(op) /\ \A j \in DOMAIN queue : j > i => queue[j] = "frame"
    <3>1. PICK i \in DOMAIN queue :
            queue[i] = Last(op) /\ \A j \in DOMAIN queue : j > i => queue[j] = "frame"
      BY <2>2
    <3>2. CASE i = 1
      <4>1. \A j \in DOMAIN queue' : queue'[j] = "frame"
        BY <1>1, <3>1, <3>2
      <4>2. unit' = Noted(op)
        BY <1>1, <3>1, <3>2 DEF Last, Noted, ModeOf, Operation
      <4> QED
        BY <4>1, <4>2 DEF Obeys, OnlyFrames
    <3>3. CASE i # 1
      <4>1. i - 1 \in DOMAIN queue' /\ queue'[i - 1] = Last(op)
            /\ \A j \in DOMAIN queue' : j > i - 1 => queue'[j] = "frame"
        BY <1>1, <3>1, <3>3
      <4> QED
        BY <4>1 DEF Obeys
    <3> QED
      BY <3>2, <3>3
  <2> QED
    BY <2>1, <2>2, <1>3 DEF Obeys
<1> QED
  BY <1>2, <1>3

LEMMA Tails ==
  ASSUME NEW p, NEW x \in EMIPacket, p = <<"reset", x>> \/ p = <<"reset", "plain", x>>
  PROVE  /\ p \in Seq(EMIPacket) /\ p # <<>> /\ Head(p) = "reset"
         /\ Tail(p) \in {<<x>>, <<"plain", x>>} /\ Tail(p) \in Seq(EMIPacket)
<1>1. CASE p = <<"reset", x>>
  <2>1. Tail(p) = <<x>>
    BY <1>1
  <2> QED
    BY <1>1, <2>1 DEF EMIPacket
<1>2. CASE p = <<"reset", "plain", x>>
  <2>1. Tail(p) = <<"plain", x>>
    BY <1>2
  <2> QED
    BY <1>2, <2>1 DEF EMIPacket
<1> QED
  BY <1>1, <1>2

(* A function of the driver begins.                                        *)
LEMMA Begun ==
  ASSUME EMITypes, NEW t \in Threads, NEW op \in Operation, Begin(t, op)
  PROVE  /\ call' \in [Threads -> Call] /\ queue' \in Seq(EMIPacket) /\ ~empty'
         /\ call'[t].op = op /\ call'[t] # None
         /\ \A s \in Threads \ {t} : call'[s] = call[s]
         /\ Changing(call[t])'
<1> DEFINE p == Packets(op)
<1>1. /\ p \in Seq(EMIPacket) /\ p # <<>> /\ Head(p) \in EMIPacket /\ Tail(p) \in Seq(EMIPacket)
      /\ Tail(p) \in Todo(op) \/ (Tail(p) = <<>> /\ Head(p) = Last(op))
  <2>1. p \in IF op = "Open" THEN {<<"reset", "link">>, <<"reset", "plain", "link">>}
             ELSE IF op = "enterBusmonitor"
             THEN {<<"reset", "monitor">>, <<"reset", "plain", "monitor">>}
             ELSE {<<"plain">>}
    BY DEF Packets, Packets1, Packets2, Operation
  <2>2. CASE op = "Open"
    <3>1. Todo(op) = {<<"link">>, <<"plain", "link">>}
      BY <2>2 DEF Todo
    <3>2. p = <<"reset", "link">> \/ p = <<"reset", "plain", "link">>
      BY <2>1, <2>2
    <3>3. "link" \in EMIPacket /\ "reset" \in EMIPacket
      BY DEF EMIPacket
    <3> HIDE DEF p
    <3> QED
      BY <3>1, <3>2, <3>3, Tails
  <2>3. CASE op = "enterBusmonitor"
    <3>1. Todo(op) = {<<"monitor">>, <<"plain", "monitor">>}
      BY <2>3 DEF Todo
    <3>2. p = <<"reset", "monitor">> \/ p = <<"reset", "plain", "monitor">>
      BY <2>1, <2>3
    <3>3. "monitor" \in EMIPacket /\ "reset" \in EMIPacket
      BY DEF EMIPacket
    <3> HIDE DEF p
    <3> QED
      BY <3>1, <3>2, <3>3, Tails
  <2>4. CASE op \in {"Close", "leaveBusmonitor"}
    <3>1. p = <<"plain">> /\ Last(op) = "plain"
      BY <2>1, <2>4 DEF Last
    <3> HIDE DEF p
    <3> QED
      BY <3>1 DEF EMIPacket
  <2> QED
    BY <2>2, <2>3, <2>4 DEF Operation
<1> HIDE DEF p
<1>2. /\ call' = [call EXCEPT ![t] = [op |-> op, todo |-> Tail(p), woken |-> FALSE]]
      /\ queue' = Append(queue, Head(p)) /\ empty' = FALSE
  BY DEF Begin, PutPacket, p
<1>3. [op |-> op, todo |-> Tail(p), woken |-> FALSE] \in Call
  BY <1>1 DEF Call
<1>4. call'[t] = [op |-> op, todo |-> Tail(p), woken |-> FALSE]
  BY <1>2 DEF EMITypes
<1>5. Changing(call[t])'
  <2>1. CASE Tail(p) \in Todo(op)
    BY <2>1, <1>4 DEF Changing, Todo
  <2>2. CASE Tail(p) = <<>> /\ Head(p) = Last(op)
    <3>1. Obeys(op)'
      BY <2>2, <1>2, LastAdded DEF EMITypes
    <3>2. op # "sleep"
      BY DEF Operation
    <3> QED
      BY <2>2, <3>1, <3>2, <1>4 DEF Changing
  <2> QED
    BY <1>1, <2>1, <2>2
<1>6. op # "none"
  BY DEF Operation
<1> QED
  BY <1>1, <1>2, <1>3, <1>4, <1>5, <1>6 DEF EMITypes, None

(* The calls that Layer3 makes one after the other start with the first if *)
(* the driver is in the mode it needs.                                     *)
LEMMA Called ==
  ASSUME EMITypes, NEW u \in Users, NEW p \in Seq(Operation), NEW m \in {0, 1, 2},
         MakeCalls(u, p, m), ~overlapped'
  PROVE  /\ ~overlapped /\ \A s \in Threads \ {u} : Idle(s)
         /\ p = <<>> => /\ plan' = [plan EXCEPT ![u] = <<>>]
                        /\ call' = [call EXCEPT ![u] = None] /\ UNCHANGED <<queue, empty>>
         /\ p # <<>> /\ From(Head(p)) = m
              => plan' = [plan EXCEPT ![u] = p] /\ Begin(u, Head(p))
<1> DEFINE can == {i \in DOMAIN p : From(p[i]) = m}
           rest == IF can = {} THEN <<>>
                   ELSE SubSeq(p, CHOOSE i \in can : \A j \in can : i <= j, Len(p))
<1>1. /\ plan' = [plan EXCEPT ![u] = rest] /\ Meets(u)
      /\ IF rest = <<>>
         THEN call' = [call EXCEPT ![u] = None] /\ UNCHANGED <<queue, empty>>
         ELSE Begin(u, Head(rest))
  BY DEF MakeCalls
<1>2. p = <<>> => rest = <<>>
  <2>1. p = <<>> => can = {}
    OBVIOUS
  <2> QED
    BY <2>1
<1>3. p # <<>> /\ From(Head(p)) = m => rest = p
  <2> SUFFICES ASSUME p # <<>>, From(Head(p)) = m PROVE rest = p
    OBVIOUS
  <2>1. /\ 1 \in can /\ \A j \in can : 1 <= j /\ j \in Nat
    OBVIOUS
  <2>2. (CHOOSE i \in can : \A j \in can : i <= j) = 1
    <3> DEFINE c == CHOOSE i \in can : \A j \in can : i <= j
    <3>1. c \in can /\ \A j \in can : c <= j
      BY <2>1
    <3> HIDE DEF c, can
    <3>2. c = 1
      BY <3>1, <2>1
    <3> QED
      BY <3>2 DEF c
  <2>3. rest = SubSeq(p, 1, Len(p))
    <3> HIDE DEF can
    <3> QED
      BY <2>1, <2>2
  <2> QED
    BY <2>3
<1> HIDE DEF rest
<1> QED
  BY <1>1, <1>2, <1>3 DEF Meets, EMITypes

(* Who executes a change is the only one, and goes on with it.             *)
LEMMA OnlyOne ==
  ASSUME EMITypes, Modes, NEW t \in Threads, ~Idle(t)
  PROVE  Busy(t) /\ ~Calm /\ call[t].op \in Operation \cup {"sleep"}
<1>1. PICK s \in Threads : Busy(s)
  BY DEF Modes, Rests, Calm
<1>2. s = t
  BY <1>1 DEF Busy
<1>3. call[t].op \in Operation \cup {"sleep"}
  BY <1>1, <1>2 DEF Busy, Reopens, UserCalls, Operation
<1> QED
  BY <1>1, <1>2, <1>3 DEF Calm

LEMMA GoesOnBusy ==
  ASSUME EMITypes, Modes, NEW t \in Threads, ~Idle(t),
         call'[t].op = call[t].op, call[t].op = "sleep" => call'[t].woken,
         \A s \in Threads \ {t} : call'[s] = call[s],
         UNCHANGED <<plan, monitors, emode, l3mode>>, Changing(call[t])'
  PROVE  Modes'
<1>1. Busy(t) /\ call[t].op # "none"
  BY OnlyOne DEF Operation
<1>2. ~Idle(t)' /\ \A s \in Threads \ {t} : Idle(s)'
  BY <1>1 DEF Busy, Idle, None
<1>3. IF t = "run" THEN Reopens' ELSE UserCalls(t)'
  BY <1>1 DEF Busy, Reopens, UserCalls
<1>4. Busy(t)'
  BY <1>1, <1>2, <1>3 DEF Busy
<1> QED
  BY <1>4 DEF Modes

(* Where nothing of a change is touched, all stays as it was.              *)
LEMMA NothingTouched ==
  ASSUME EMITypes, Modes, UNCHANGED <<queue, emode, call, plan, l3mode, monitors, unit>>,
         Rests /\ ToldOfRestart => ToldOfRestart'
  PROVE  Modes'
<1>1. \A op : Obeys(op)' <=> Obeys(op)
  BY DEF Obeys, OnlyFrames
<1>2. OnlyFrames' <=> OnlyFrames
  BY DEF OnlyFrames
<1>3. \A c : Changing(c)' <=> Changing(c)
  BY <1>1, <1>2 DEF Changing
<1>4. Rests => Rests'
  BY <1>2 DEF Rests, Calm, Idle, Wanted
<1>5. ASSUME NEW t \in Threads, Busy(t) PROVE Busy(t)'
  <2>1. Changing(call[t])'
    BY <1>3, <1>5 DEF Busy
  <2> QED
    BY <2>1, <1>5 DEF Busy, Idle, Reopens, UserCalls
<1> QED
  BY <1>4, <1>5 DEF Modes

----------------------------------------------------------------------------
LEMMA SubmitKeeps ==
  ASSUME EMITypes, NEW t \in Threads, SubmitPacket(t), UNCHANGED version
  PROVE  EMITypes' /\ (Modes => Modes')
<1> DEFINE c == call[t]
<1>1. /\ c \in Call /\ c.todo \in Seq(EMIPacket) /\ c.todo # <<>>
      /\ Head(c.todo) \in EMIPacket /\ Tail(c.todo) \in Seq(EMIPacket)
      /\ call' = [call EXCEPT ![t].todo = Tail(@)] /\ queue' = Append(queue, Head(c.todo))
      /\ empty' = FALSE
      /\ UNCHANGED <<emode, plan, l3mode, monitors, up, unit, overlapped>>
  BY DEF SubmitPacket, PutPacket, EMITypes, Call
<1>2. /\ call' \in [Threads -> Call] /\ call'[t] = [c EXCEPT !.todo = Tail(c.todo)]
      /\ \A s \in Threads \ {t} : call'[s] = call[s]
  BY <1>1 DEF EMITypes, Call
<1>3. EMITypes'
  BY <1>1, <1>2 DEF EMITypes
<1>4. ASSUME Modes PROVE Modes'
  <2>1. ~Idle(t)
    BY <1>1 DEF Idle, None
  <2>2. c.todo \in Todo(c.op) /\ ~c.woken /\ c.op # "sleep"
    BY <1>1, <1>4, <2>1, OnlyOne DEF Busy, Changing, Todo
  <2>3. Tail(c.todo) \in Todo(c.op) \/ (Tail(c.todo) = <<>> /\ Head(c.todo) = Last(c.op))
    <3>1. CASE c.op = "Open"
      <4>1. Todo(c.op) = {<<"link">>, <<"plain", "link">>} /\ Last(c.op) = "link"
        BY <3>1 DEF Todo, Last
      <4> HIDE DEF c
      <4>2. c.todo = <<"link">> \/ c.todo = <<"plain", "link">>
        BY <2>2, <4>1
      <4>3. c.todo = <<"plain", "link">> => Tail(c.todo) = <<"link">>
        OBVIOUS
      <4>4. c.todo = <<"link">> => Tail(c.todo) = <<>> /\ Head(c.todo) = "link"
        OBVIOUS
      <4> HIDE DEF c
      <4> QED
        BY <4>1, <4>2, <4>3, <4>4
    <3>2. CASE c.op = "enterBusmonitor"
      <4>1. Todo(c.op) = {<<"monitor">>, <<"plain", "monitor">>} /\ Last(c.op) = "monitor"
        BY <3>2 DEF Todo, Last
      <4> HIDE DEF c
      <4>2. c.todo = <<"monitor">> \/ c.todo = <<"plain", "monitor">>
        BY <2>2, <4>1
      <4>3. c.todo = <<"plain", "monitor">> => Tail(c.todo) = <<"monitor">>
        OBVIOUS
      <4>4. c.todo = <<"monitor">> => Tail(c.todo) = <<>> /\ Head(c.todo) = "monitor"
        OBVIOUS
      <4> HIDE DEF c
      <4> QED
        BY <4>1, <4>2, <4>3, <4>4
    <3> QED
      BY <2>2, <3>1, <3>2 DEF Todo
  <2>4. Changing(call[t])'
    <3>1. /\ call'[t].todo = Tail(c.todo) /\ call'[t].op = c.op /\ call'[t].woken = c.woken
      BY <1>1, <1>2 DEF Call
    <3>2. CASE Tail(c.todo) \in Todo(c.op)
      BY <2>2, <3>1, <3>2 DEF Changing, Todo
    <3>3. CASE Tail(c.todo) = <<>> /\ Head(c.todo) = Last(c.op)
      <4>1. PICK o : o = c.op
        OBVIOUS
      <4>2. queue' = Append(queue, Last(o))
        BY <1>1, <3>3, <4>1
      <4>3. Obeys(o)'
        BY <4>2, LastAdded DEF EMITypes
      <4>4. Obeys(call[t].op)'
        BY <4>1, <4>3, <3>1 DEF Obeys, OnlyFrames
      <4> QED
        BY <2>2, <3>1, <3>3, <4>4 DEF Changing
    <3> QED
      BY <2>3, <3>2, <3>3
  <2>5. call'[t].op = call[t].op
    BY <1>1, <1>2 DEF Call
  <2> QED
    BY <1>1, <1>2, <1>4, <2>1, <2>2, <2>4, <2>5, GoesOnBusy
<1> QED
  BY <1>3, <1>4

LEMMA WakeKeeps ==
  ASSUME EMITypes, NEW t \in Threads, Wake(t) \/ WaitAgain(t), UNCHANGED version
  PROVE  EMITypes' /\ (Modes => Modes')
<1> DEFINE c == call[t]
<1>1. PICK w \in BOOLEAN :
        /\ call' = [call EXCEPT ![t].woken = w]
        /\ w => empty
  BY DEF Wake, WaitAgain
<1>2. /\ Waiting(t) /\ c \in Call /\ (c.woken <=> ~w)
      /\ UNCHANGED <<queue, empty, emode, plan, l3mode, monitors, up, unit, overlapped>>
  BY <1>1 DEF Wake, WaitAgain, EMITypes, Call
<1>3. /\ call' \in [Threads -> Call] /\ call'[t] = [c EXCEPT !.woken = w]
      /\ \A s \in Threads \ {t} : call'[s] = call[s]
  BY <1>1, <1>2 DEF EMITypes, Call
<1>4. call'[t].op = c.op /\ call'[t].todo = c.todo /\ call'[t].woken = w
  BY <1>2, <1>3 DEF Call
<1>5. EMITypes'
  BY <1>2, <1>3 DEF EMITypes
<1>6. ASSUME Modes PROVE Modes'
  <2>1. ~Idle(t) /\ c.todo = <<>> /\ c.op # "sleep"
    BY <1>2 DEF Waiting
  <2>2. Obeys(c.op)
    <3>1. Changing(c)
      BY <1>6, <2>1, OnlyOne DEF Busy
    <3>2. <<>> \notin Todo(c.op)
      BY DEF Todo
    <3> QED
      BY <2>1, <3>1, <3>2 DEF Changing, Obeys
  <2>3. Obeys(call[t].op)' /\ (w => OnlyFrames /\ unit = Noted(c.op))
    <3>1. Obeys(call[t].op)'
      BY <1>2, <1>4, <2>2 DEF Obeys, OnlyFrames
    <3>2. w => queue = <<>>
      BY <1>1 DEF EMITypes
    <3>3. w => OnlyFrames /\ unit = Noted(c.op)
      BY <2>2, <3>2 DEF Obeys, OnlyFrames
    <3> QED
      BY <3>1, <3>3
  <2>4. Changing(call[t])'
    BY <1>2, <1>4, <2>1, <2>3 DEF Changing, OnlyFrames
  <2> QED
    BY <1>2, <1>3, <1>4, <1>6, <2>1, <2>4, GoesOnBusy
<1> QED
  BY <1>5, <1>6

(* A user makes a call, and nobody else does.                              *)
LEMMA BeginsBusy ==
  ASSUME EMITypes, NEW u \in Users, NEW op \in Operation, NEW p \in Seq(Operation),
         Begin(u, op), plan' = [plan EXCEPT ![u] = p],
         \A s \in Threads \ {u} : Idle(s), \A v \in Users \ {u} : plan[v] = <<>>,
         monitors' = {}, l3mode' = 0,
         call'[u].op = op => UserCalls(u)',
         UNCHANGED <<version, up, unit, overlapped>>, emode' \in {0, 1, 2}
  PROVE  EMITypes' /\ Modes'
<1>1. u \in Threads /\ u # "run"
  BY EMIAssumption DEF Threads
<1>2. /\ call' \in [Threads -> Call] /\ queue' \in Seq(EMIPacket) /\ ~empty'
      /\ call'[u].op = op /\ call'[u] # None
      /\ \A s \in Threads \ {u} : call'[s] = call[s]
      /\ Changing(call[u])'
  BY <1>1, Begun
<1>3. plan' \in [Users -> Seq(Operation)] /\ \A v \in Users \ {u} : plan'[v] = <<>>
  BY DEF EMITypes
<1>4. EMITypes'
  BY <1>2, <1>3 DEF EMITypes
<1>5. Busy(u)'
  BY <1>1, <1>2, <1>3 DEF Busy, Idle
<1> QED
  BY <1>1, <1>4, <1>5 DEF Modes

(* The end of all calls.                                                   *)
LEMMA EndsCalls ==
  ASSUME EMITypes, NEW t \in Threads, call' = [call EXCEPT ![t] = None],
         \A s \in Threads \ {t} : Idle(s), plan' = [u \in Users |-> <<>>],
         OnlyFrames, emode' = unit, emode' = Wanted',
         l3mode' = (IF monitors' = {} THEN 0 ELSE 1), monitors' \subseteq Users,
         UNCHANGED <<version, queue, empty, up, unit, overlapped>>
  PROVE  EMITypes' /\ Modes'
<1>1. None \in Call
  BY DEF None, Call
<1>2. call' \in [Threads -> Call] /\ call'[t] = None
      /\ \A s \in Threads \ {t} : call'[s] = call[s]
  BY <1>1 DEF EMITypes
<1>3. plan' \in [Users -> Seq(Operation)] /\ \A u \in Users : plan'[u] = <<>>
  OBVIOUS
<1>4. EMITypes'
  BY <1>2, <1>3 DEF EMITypes
<1>5. Rests'
  BY <1>2, <1>3 DEF Rests, Calm, Idle, OnlyFrames
<1> QED
  BY <1>4, <1>5 DEF Modes

LEMMA ReturnKeeps ==
  ASSUME EMITypes, Modes, NEW t \in Threads, Return(t), ~overlapped', UNCHANGED version
  PROVE  EMITypes' /\ Modes'
<1> DEFINE c == call[t]
<1>1. /\ c.todo = <<>> /\ c.op # "sleep" /\ ~Idle(t) /\ c.woken /\ emode' = Noted(c.op)
      /\ UNCHANGED <<up, unit>>
  BY DEF Return, Waiting
<1>2. Busy(t) /\ c.op \in Operation /\ c \in Call
  BY <1>1, OnlyOne DEF EMITypes
<1>3. OnlyFrames /\ unit = Noted(c.op) /\ emode' = unit
  <2>1. Changing(c)
    BY <1>2 DEF Busy
  <2>2. <<>> \notin Todo(c.op)
    BY DEF Todo
  <2> QED
    BY <1>1, <2>1, <2>2 DEF Changing
<1>4. /\ \A s \in Threads \ {t} : Idle(s)
      /\ \A u \in Users \ {t} : plan[u] = <<>>
      /\ DOMAIN plan = Users
  BY <1>2 DEF Busy, EMITypes
<1>5. overlapped' = overlapped
  BY DEF Return, MakeCalls, Meets, EMITypes
<1>6. CASE t = "run"
  <2>1. /\ call' = [call EXCEPT ![t] = None]
        /\ UNCHANGED <<plan, l3mode, monitors, queue, empty>>
    BY <1>6 DEF Return
  <2>2. emode' = Wanted' /\ plan' = [u \in Users |-> <<>>]
    <3>1. c.op = IF monitors = {} THEN "Open" ELSE "enterBusmonitor"
      BY <1>2, <1>6 DEF Busy, Reopens
    <3> QED
      BY <1>1, <1>4, <1>6, <2>1, <3>1, EMIAssumption DEF Noted, Wanted, EMITypes
  <2> QED
    BY <1>1, <1>3, <1>4, <1>5, <2>1, <2>2, EndsCalls DEF EMITypes, Modes
<1>7. CASE t # "run"
  <2>1. t \in Users /\ UserCalls(t)
    BY <1>2, <1>7 DEF Busy, Threads
  <2>2. CASE c.op = "enterBusmonitor"
    <3>1. /\ call' = [call EXCEPT ![t] = None] /\ plan' = [plan EXCEPT ![t] = <<>>]
          /\ l3mode' = 1 /\ monitors' = monitors \cup {t} /\ UNCHANGED <<queue, empty>>
      BY <1>7, <2>2 DEF Return, Registered, Sleeps
    <3>2. plan' = [u \in Users |-> <<>>]
      BY <1>4, <2>1, <3>1 DEF EMITypes
    <3>3. emode' = Wanted' /\ l3mode' = (IF monitors' = {} THEN 0 ELSE 1)
          /\ monitors' \subseteq Users
      BY <1>1, <2>1, <2>2, <3>1 DEF Noted, Wanted, EMITypes
    <3> QED
      BY <1>1, <1>3, <1>4, <1>5, <3>1, <3>2, <3>3, EndsCalls
  <2>3. CASE Sleeps(t)
    <3>1. /\ c.op = "leaveBusmonitor" /\ call' = [call EXCEPT ![t].op = "sleep"]
          /\ UNCHANGED <<plan, l3mode, monitors, queue, empty>>
      BY <1>7, <2>3 DEF Return, Sleeps
    <3>2. call'[t] = [c EXCEPT !.op = "sleep"] /\ \A s \in Threads \ {t} : call'[s] = call[s]
      BY <3>1 DEF EMITypes
    <3>3. [c EXCEPT !.op = "sleep"] \in Call
      BY <1>2 DEF Call
    <3>4. call' \in [Threads -> Call]
      BY <3>1, <3>2, <3>3 DEF EMITypes
    <3>5. call'[t].op = "sleep" /\ call'[t].todo = <<>> /\ call'[t].woken
      BY <1>1, <1>2, <3>2 DEF Call
    <3>6. emode' = 0
      BY <1>1, <3>1 DEF Noted
    <3>7. EMITypes'
      BY <1>1, <1>5, <3>1, <3>4, <3>6 DEF EMITypes
    <3>8. Changing(call[t])'
      <4>1. Noted("sleep") = 0
        BY DEF Noted
      <4> QED
        BY <1>1, <1>3, <3>1, <3>5, <3>6, <4>1 DEF Changing, OnlyFrames
    <3>9. UserCalls(t)'
      BY <2>1, <3>1, <3>5, <3>6 DEF UserCalls
    <3>10. Busy(t)'
      BY <1>4, <1>7, <3>1, <3>2, <3>5, <3>8, <3>9 DEF Busy, Idle, None
    <3> QED
      BY <3>1, <3>7, <3>10 DEF Modes
  <2>4. CASE c.op # "enterBusmonitor" /\ ~Sleeps(t)
    <3> DEFINE p == Tail(plan[t])
    <3>1. MakeCalls(t, p, emode') /\ UNCHANGED <<l3mode, monitors>>
      BY <1>7, <2>4 DEF Return
    <3>2. monitors = {} /\ l3mode = 0
      BY <2>1 DEF UserCalls, Modes
    <3>3. emode' \in {0, 1, 2}
      BY <1>1, <1>2 DEF Noted
    <3>4. CASE c.op = "Open"
      <4>1. p = <<>> /\ emode' = 2 /\ p \in Seq(Operation)
        <5>1. plan[t] = <<"Open">>
          BY <2>1, <3>4 DEF UserCalls
        <5>2. p = <<>>
          BY <5>1
        <5> HIDE DEF p
        <5> QED
          BY <1>1, <3>4, <5>2 DEF Noted
      <4>2. /\ plan' = [plan EXCEPT ![t] = <<>>]
            /\ call' = [call EXCEPT ![t] = None] /\ UNCHANGED <<queue, empty>>
        BY <2>1, <3>1, <4>1, <3>3, Called
      <4>3. plan' = [u \in Users |-> <<>>]
        BY <1>4, <2>1, <4>2 DEF EMITypes
      <4>4. emode' = Wanted'
        BY <3>1, <3>2, <4>1 DEF Wanted
      <4> QED
        BY <1>1, <1>3, <1>4, <1>5, <3>1, <3>2, <4>2, <4>3, <4>4, EndsCalls
    <3>5. CASE c.op = "Close"
      <4>1. p = <<"enterBusmonitor">> /\ emode' = 0
        <5>1. plan[t] = <<"Close", "enterBusmonitor">>
          BY <2>1, <3>5 DEF UserCalls
        <5> QED
          BY <1>1, <3>5, <5>1 DEF Noted
      <4>2. p \in Seq(Operation) /\ p # <<>> /\ Head(p) = "enterBusmonitor"
            /\ From(Head(p)) = emode' /\ "enterBusmonitor" \in Operation
        <5> HIDE DEF p
        <5> QED
          BY <4>1 DEF From, Operation
      <4>3. plan' = [plan EXCEPT ![t] = p] /\ Begin(t, "enterBusmonitor")
        BY <2>1, <3>1, <3>3, <4>2, Called
      <4>4. call'[t].op = "enterBusmonitor" => UserCalls(t)'
        BY <1>4, <2>1, <3>1, <3>2, <4>1, <4>3 DEF UserCalls, EMITypes
      <4> QED
        BY <1>1, <1>4, <1>5, <2>1, <3>1, <3>2, <3>3, <4>2, <4>3, <4>4, BeginsBusy
    <3>6. CASE c.op = "leaveBusmonitor"
      <4>1. p = <<"Open">> /\ emode' = 0
        <5>1. plan[t] = <<"leaveBusmonitor", "Open">>
          BY <2>1, <3>6 DEF UserCalls
        <5> QED
          BY <1>1, <3>6, <5>1 DEF Noted
      <4>2. p \in Seq(Operation) /\ p # <<>> /\ Head(p) = "Open"
            /\ From(Head(p)) = emode' /\ "Open" \in Operation
        <5> HIDE DEF p
        <5> QED
          BY <4>1 DEF From, Operation
      <4>3. plan' = [plan EXCEPT ![t] = p] /\ Begin(t, "Open")
        BY <2>1, <3>1, <3>3, <4>2, Called
      <4>4. call'[t].op = "Open" => UserCalls(t)'
        BY <1>4, <2>1, <3>1, <3>2, <4>1, <4>3 DEF UserCalls, EMITypes
      <4> QED
        BY <1>1, <1>4, <1>5, <2>1, <3>1, <3>2, <3>3, <4>2, <4>3, <4>4, BeginsBusy
    <3> QED
      BY <1>2, <2>4, <3>4, <3>5, <3>6 DEF Operation
  <2> QED
    BY <2>2, <2>3, <2>4
<1> QED
  BY <1>6, <1>7

LEMMA SleepKeeps ==
  ASSUME EMITypes, Modes, NEW t \in Threads, SleepEnds(t), ~overlapped', UNCHANGED version
  PROVE  EMITypes' /\ Modes'
<1> DEFINE p == Tail(plan[t])
<1>1. ~Idle(t)
  BY DEF SleepEnds, Idle, None
<1>2. Busy(t)
  BY <1>1, OnlyOne
<1>3. t # "run"
  BY <1>2 DEF Busy, Reopens, SleepEnds
<1>4. /\ t \in Users /\ plan[t] = <<"leaveBusmonitor", "Open">> /\ emode = 0
      /\ monitors = {} /\ l3mode = 0
      /\ \A s \in Threads \ {t} : Idle(s)
      /\ \A u \in Users \ {t} : plan[u] = <<>>
  BY <1>2, <1>3 DEF Busy, UserCalls, SleepEnds, Threads, Modes
<1>5. p = <<"Open">>
  BY <1>4
<1>6. p \in Seq(Operation) /\ p # <<>> /\ Head(p) = "Open"
      /\ From(Head(p)) = emode /\ "Open" \in Operation
  <2> HIDE DEF p
  <2> QED
    BY <1>4, <1>5 DEF From, Operation
<1>7. MakeCalls(t, p, emode) /\ UNCHANGED <<emode, l3mode, monitors, up, unit>>
  BY DEF SleepEnds
<1>8. /\ plan' = [plan EXCEPT ![t] = p] /\ Begin(t, "Open")
      /\ overlapped' = overlapped
  <2> HIDE DEF p
  <2>1. emode \in {0, 1, 2} /\ MakeCalls(t, p, emode)
    BY <1>7 DEF EMITypes
  <2>2. Meets(t)
    BY <2>1 DEF MakeCalls
  <2> QED
    BY <1>4, <1>6, <2>1, <2>2, Called DEF EMITypes, Meets
<1>9. call'[t].op = "Open" => UserCalls(t)'
  BY <1>4, <1>5, <1>7, <1>8 DEF UserCalls, EMITypes
<1> QED
  BY <1>4, <1>6, <1>7, <1>8, <1>9, BeginsBusy DEF EMITypes

(* A user starts calling while nothing else is going on.                   *)
LEMMA StartsCalling ==
  ASSUME EMITypes, Modes, NEW u \in Users, Idle(u), NEW p \in Seq(Operation), p # <<>>,
         MakeCalls(u, p, emode), ~overlapped', From(Head(p)) = Wanted
  PROVE  /\ Rests /\ emode = Wanted /\ overlapped' = overlapped
         /\ plan' = [plan EXCEPT ![u] = p] /\ Begin(u, Head(p))
         /\ \A s \in Threads : Idle(s)
<1>1. emode \in {0, 1, 2}
  BY DEF EMITypes
<1>2. ~overlapped /\ \A s \in Threads \ {u} : Idle(s)
  BY <1>1, Called
<1>3. \A s \in Threads : Idle(s)
  BY <1>2
<1>4. Rests
  BY <1>3 DEF Modes, Busy
<1>5. emode = Wanted
  BY <1>4 DEF Rests
<1>6. plan' = [plan EXCEPT ![u] = p] /\ Begin(u, Head(p))
  BY <1>1, <1>5, Called
<1> QED
  BY <1>2, <1>3, <1>4, <1>5, <1>6 DEF MakeCalls, Meets, EMITypes

(* A monitor more or less, when others remain.                             *)
LEMMA OthersRemain ==
  ASSUME EMITypes, Modes, monitors # {}, monitors' # {}, monitors' \subseteq Users,
         UNCHANGED <<version, queue, empty, emode, call, plan, l3mode, up, unit, overlapped>>
  PROVE  EMITypes' /\ Modes'
<1>1. EMITypes'
  BY DEF EMITypes
<1>2. \A op : Obeys(op)' <=> Obeys(op)
  BY DEF Obeys, OnlyFrames
<1>3. \A c : Changing(c)' <=> Changing(c)
  BY <1>2 DEF Changing, OnlyFrames
<1>4. Rests => Rests'
  BY DEF Rests, Calm, Idle, Wanted, OnlyFrames, ToldOfRestart
<1>5. ASSUME NEW t \in Threads, Busy(t) PROVE Busy(t)'
  <2>1. t = "run"
    BY <1>5 DEF Busy, UserCalls
  <2>2. Changing(call[t])'
    BY <1>3, <1>5 DEF Busy
  <2>3. Reopens'
    BY <1>5, <2>1 DEF Busy, Reopens
  <2> QED
    BY <1>5, <2>1, <2>2, <2>3 DEF Busy, Idle
<1>6. l3mode' = IF monitors' = {} THEN 0 ELSE 1
  BY DEF Modes
<1> QED
  BY <1>1, <1>4, <1>5, <1>6 DEF Modes

LEMMA RegisterKeeps ==
  ASSUME EMITypes, Modes, NEW u \in Users, RegisterBusmonitor(u), ~overlapped', UNCHANGED version
  PROVE  EMITypes' /\ Modes'
<1> DEFINE p == <<"Close", "enterBusmonitor">>
<1>1. Idle(u) /\ UNCHANGED <<emode, l3mode, up, unit>>
  BY DEF RegisterBusmonitor
<1>2. CASE l3mode = 0
  <2>1. MakeCalls(u, p, emode) /\ UNCHANGED monitors
    BY <1>2 DEF RegisterBusmonitor
  <2>2. /\ p \in Seq(Operation) /\ p # <<>> /\ Head(p) = "Close" /\ From("Close") = 2
        /\ "Close" \in Operation
    BY DEF Operation, From
  <2>3. monitors = {} /\ Wanted = 2
    BY <1>2 DEF Modes, Wanted
  <2>4. /\ Rests /\ emode = 2 /\ overlapped' = overlapped
        /\ plan' = [plan EXCEPT ![u] = p] /\ Begin(u, "Close")
        /\ \A s \in Threads : Idle(s)
    <3> HIDE DEF p
    <3> QED
      BY <1>1, <2>1, <2>2, <2>3, StartsCalling
  <2>5. call'[u].op = "Close" => UserCalls(u)'
    BY <1>1, <2>1, <2>3, <2>4 DEF UserCalls, EMITypes
  <2>6. \A v \in Users \ {u} : plan[v] = <<>>
    BY <2>4 DEF Rests
  <2> HIDE DEF p
  <2> QED
    BY <1>1, <1>2, <2>1, <2>2, <2>3, <2>4, <2>5, <2>6, BeginsBusy
<1>3. CASE l3mode # 0
  <2>1. /\ monitors' = monitors \cup {u}
        /\ UNCHANGED <<queue, empty, call, plan, overlapped>>
    BY <1>3 DEF RegisterBusmonitor
  <2>2. monitors # {} /\ monitors' \subseteq Users
    BY <1>3, <2>1 DEF Modes, EMITypes
  <2> QED
    BY <1>1, <2>1, <2>2, OthersRemain
<1> QED
  BY <1>2, <1>3

LEMMA DeregisterKeeps ==
  ASSUME EMITypes, Modes, NEW u \in Users, DeregisterBusmonitor(u), ~overlapped', UNCHANGED version
  PROVE  EMITypes' /\ Modes'
<1> DEFINE p == <<"leaveBusmonitor", "Open">>
<1>1. Idle(u) /\ monitors' = monitors \ {u} /\ u \in monitors /\ UNCHANGED <<emode, up, unit>>
  BY DEF DeregisterBusmonitor
<1>2. CASE monitors = {u}
  <2>1. MakeCalls(u, p, emode) /\ l3mode' = 0 /\ monitors' = {}
    BY <1>1, <1>2 DEF DeregisterBusmonitor
  <2>2. /\ p \in Seq(Operation) /\ p # <<>> /\ Head(p) = "leaveBusmonitor"
        /\ From("leaveBusmonitor") = 1 /\ "leaveBusmonitor" \in Operation
    BY DEF Operation, From
  <2>3. Wanted = 1
    BY <1>2 DEF Wanted
  <2>4. /\ Rests /\ emode = 1 /\ overlapped' = overlapped
        /\ plan' = [plan EXCEPT ![u] = p] /\ Begin(u, "leaveBusmonitor")
        /\ \A s \in Threads : Idle(s)
    <3> HIDE DEF p
    <3> QED
      BY <1>1, <2>1, <2>2, <2>3, StartsCalling
  <2>5. call'[u].op = "leaveBusmonitor" => UserCalls(u)'
    BY <1>1, <2>1, <2>4 DEF UserCalls, EMITypes
  <2>6. \A v \in Users \ {u} : plan[v] = <<>>
    BY <2>4 DEF Rests
  <2> HIDE DEF p
  <2> QED
    BY <1>1, <2>1, <2>2, <2>4, <2>5, <2>6, BeginsBusy
<1>3. CASE monitors # {u}
  <2>1. UNCHANGED <<l3mode, queue, empty, call, plan, overlapped>>
    BY <1>3 DEF DeregisterBusmonitor
  <2>2. monitors # {} /\ monitors' # {} /\ monitors' \subseteq Users
    BY <1>1, <1>3 DEF EMITypes
  <2> QED
    BY <1>1, <2>1, <2>2, OthersRemain
<1> QED
  BY <1>2, <1>3

(* The thread of the driver, the line and the unit.                        *)
LEMMA FrameKeeps ==
  ASSUME EMITypes, Modes, SendFrame \/ RunSend \/ RunTimeout, UNCHANGED version
  PROVE  EMITypes' /\ Modes'
<1>1. CASE SendFrame \/ RunTimeout
  <2>1. UNCHANGED <<queue, empty, emode, call, plan, l3mode, monitors, up, unit, overlapped>>
    BY <1>1 DEF SendFrame, RunTimeout
  <2>2. EMITypes' /\ (ToldOfRestart => ToldOfRestart')
    BY <2>1 DEF EMITypes, ToldOfRestart
  <2> QED
    BY <2>1, <2>2, NothingTouched
<1>2. CASE RunSend
  <2>1. /\ queue' = Append(queue, "frame") /\ empty' = FALSE
        /\ UNCHANGED <<emode, call, plan, l3mode, monitors, up, unit, overlapped>>
    BY <1>2 DEF RunSend, PutPacket
  <2>2. EMITypes'
    BY <2>1 DEF EMITypes, EMIPacket
  <2>3. /\ OnlyFrames => OnlyFrames'
        /\ \A op : Obeys(op) => Obeys(op)'
    BY <2>1, FrameAdded DEF EMITypes
  <2>4. Rests => Rests'
    BY <2>1, <2>3 DEF Rests, Calm, Idle, Wanted, ToldOfRestart
  <2>5. ASSUME NEW t \in Threads, Busy(t) PROVE Modes'
    <3>1. \A c : Changing(c) => Changing(c)'
      BY <2>1, <2>3 DEF Changing
    <3>2. Changing(call[t])'
      BY <2>1, <2>5, <3>1 DEF Busy
    <3>3. Busy(t)'
      BY <2>1, <2>5, <3>2 DEF Busy, Idle, Reopens, UserCalls
    <3> QED
      BY <2>1, <3>3 DEF Modes
  <2> QED
    BY <2>1, <2>2, <2>4, <2>5 DEF Modes
<1> QED
  BY <1>1, <1>2

LEMMA PacketKeeps ==
  ASSUME EMITypes, Modes, RunPacket, ~overlapped', UNCHANGED version
  PROVE  EMITypes' /\ Modes'
<1>1. /\ up # <<>> /\ up' = Tail(up) /\ up' \in Seq({"restarted", "confirm"}) /\ Idle("run")
      /\ UNCHANGED <<plan, l3mode, monitors, unit>>
  BY DEF RunPacket, EMITypes
<1>2. CASE Head(up) = "restarted" /\ emode # 0
  <2>1. emode' = 0 /\ Begin("run", ReopenOp(emode)) /\ Meets("run")
    BY <1>2 DEF RunPacket
  <2>2. overlapped' = overlapped /\ \A t \in Threads : Idle(t)
    BY <1>1, <2>1 DEF Meets, EMITypes
  <2>3. Rests
    BY <2>2 DEF Modes, Busy
  <2>4. ReopenOp(emode) = (IF monitors = {} THEN "Open" ELSE "enterBusmonitor")
    BY <2>3 DEF Rests, Wanted, ReopenOp
  <2>5. PICK op \in Operation : op = ReopenOp(emode)
    BY <2>4 DEF Operation
  <2>6. "run" \in Threads
    BY DEF Threads
  <2>7. /\ call' \in [Threads -> Call] /\ queue' \in Seq(EMIPacket) /\ ~empty'
        /\ call'["run"].op = op /\ call'["run"] # None
        /\ \A s \in Threads \ {"run"} : call'[s] = call[s]
        /\ Changing(call["run"])'
    BY <2>1, <2>5, <2>6, Begun
  <2>8. EMITypes'
    BY <1>1, <2>1, <2>2, <2>7 DEF EMITypes
  <2>9. Reopens'
    BY <1>1, <2>1, <2>4, <2>5, <2>7 DEF Reopens
  <2>10. \A u \in Users \ {"run"} : plan'[u] = <<>>
    BY <1>1, <2>3 DEF Rests
  <2>11. Busy("run")'
    BY <2>2, <2>6, <2>7, <2>9, <2>10 DEF Busy, Idle
  <2> QED
    BY <1>1, <2>6, <2>8, <2>11 DEF Modes
<1>3. CASE Head(up) = "restarted" /\ emode = 0
  <2>1. UNCHANGED <<emode, call, queue, empty, overlapped>>
    BY <1>3 DEF RunPacket
  <2>2. ~Rests
    BY <1>3 DEF Rests, Wanted
  <2>3. EMITypes'
    BY <1>1, <2>1 DEF EMITypes
  <2> QED
    BY <1>1, <2>1, <2>2, <2>3, NothingTouched
<1>4. CASE Head(up) = "confirm"
  <2>1. UNCHANGED <<emode, call, queue, empty, overlapped>>
    BY <1>4 DEF RunPacket
  <2>2. ToldOfRestart => ToldOfRestart'
    <3> SUFFICES ASSUME ToldOfRestart PROVE ToldOfRestart'
      OBVIOUS
    <3>1. PICK i \in DOMAIN up : up[i] = "restarted"
      BY DEF ToldOfRestart
    <3>2. i \in 1 .. Len(up) /\ i # 1 /\ Len(up) \in Nat
      BY <1>1, <1>4, <3>1 DEF EMITypes
    <3>3. i - 1 \in DOMAIN up' /\ up'[i - 1] = "restarted"
      BY <1>1, <3>1, <3>2 DEF EMITypes
    <3> QED
      BY <3>3 DEF ToldOfRestart
  <2>3. EMITypes'
    BY <1>1, <2>1 DEF EMITypes
  <2> QED
    BY <1>1, <2>1, <2>2, <2>3, NothingTouched
<1>5. Head(up) \in {"restarted", "confirm"}
  BY <1>1 DEF EMITypes
<1> QED
  BY <1>2, <1>3, <1>4, <1>5

LEMMA TransmitKeeps ==
  ASSUME EMITypes, Modes, Transmit, UNCHANGED version
  PROVE  EMITypes' /\ Modes'
<1>1. /\ queue # <<>> /\ queue' = Tail(queue) /\ (empty' => queue' = <<>>)
      /\ unit' = ModeOf(Head(queue))
      /\ up' = up \/ up' = Append(up, "confirm")
      /\ UNCHANGED <<emode, call, plan, l3mode, monitors, overlapped>>
  BY DEF Transmit, Pipe!Transmitted
<1>2. queue' \in Seq(EMIPacket) /\ up' \in Seq({"restarted", "confirm"}) /\ unit' \in {0, 1, 2}
  <2>1. queue' \in Seq(EMIPacket) /\ unit' \in {0, 1, 2}
    BY <1>1 DEF EMITypes, ModeOf
  <2>2. up \in Seq({"restarted", "confirm"})
    BY DEF EMITypes
  <2>3. up' \in Seq({"restarted", "confirm"})
    BY <1>1, <2>2
  <2> QED
    BY <2>1, <2>3
<1>3. EMITypes'
  BY <1>1, <1>2 DEF EMITypes
<1>4. /\ OnlyFrames => OnlyFrames' /\ unit' = unit
      /\ \A op \in Operation : Obeys(op) => Obeys(op)'
  BY <1>1, FirstObeyed DEF EMITypes
<1>5. ToldOfRestart => ToldOfRestart'
  <2> SUFFICES ASSUME ToldOfRestart PROVE ToldOfRestart'
    OBVIOUS
  <2>1. PICK i \in DOMAIN up : up[i] = "restarted"
    BY DEF ToldOfRestart
  <2>2. up \in Seq({"restarted", "confirm"})
    BY DEF EMITypes
  <2>3. i \in DOMAIN up' /\ up'[i] = "restarted"
    BY <1>1, <2>1, <2>2
  <2> QED
    BY <2>3 DEF ToldOfRestart
<1>6. Rests => Rests'
  BY <1>1, <1>4, <1>5 DEF Rests, Calm, Idle, Wanted
<1>7. ASSUME NEW t \in Threads, Busy(t) PROVE Busy(t)'
  <2>1. ~Idle(t)
    BY <1>7 DEF Busy
  <2>2. call[t].op \in Operation \cup {"sleep"}
    BY <2>1, OnlyOne
  <2>3. Changing(call[t])'
    <3>1. PICK c : c = call[t]
      OBVIOUS
    <3>2. Changing(c)
      BY <1>7, <3>1 DEF Busy
    <3>3. Changing(c)'
      BY <1>4, <2>2, <3>1, <3>2 DEF Changing
    <3>4. c = call'[t]
      BY <1>1, <3>1
    <3> QED
      BY <3>3, <3>4 DEF Changing, Obeys, OnlyFrames
  <2> QED
    BY <1>1, <1>7, <2>3 DEF Busy, Idle, Reopens, UserCalls
<1> QED
  BY <1>1, <1>3, <1>6, <1>7 DEF Modes

LEMMA RestartKeeps ==
  ASSUME EMITypes, Modes, UnitRestarts, ~overlapped', UNCHANGED version
  PROVE  EMITypes' /\ Modes'
<1>1. /\ unit' = 0 /\ up' = Append(up, "restarted") /\ Calm /\ overlapped' = overlapped
      /\ UNCHANGED <<queue, empty, emode, call, plan, l3mode, monitors>>
  BY DEF UnitRestarts, EMITypes
<1>2. EMITypes'
  BY <1>1 DEF EMITypes
<1>3. Rests
  BY <1>1 DEF Modes, Busy, Calm
<1>4. ToldOfRestart'
  <2>1. Len(up) + 1 \in DOMAIN up' /\ up'[Len(up) + 1] = "restarted"
    BY <1>1 DEF EMITypes
  <2> QED
    BY <2>1 DEF ToldOfRestart
<1>5. Rests'
  BY <1>1, <1>3, <1>4 DEF Rests, Calm, Idle, Wanted, OnlyFrames
<1> QED
  BY <1>1, <1>2, <1>5 DEF Modes

LEMMA ModeInit == EMIInit => ModeInv
<1> SUFFICES ASSUME EMIInit PROVE ModeInv
  OBVIOUS
<1>1. None \in Call
  BY DEF None, Call
<1>2. queue = <<>> /\ version \in {1, 2}
  BY EMIAssumption DEF EMIInit, Pipe!PipeInit
<1>3. EMITypes
  <2>1. call \in [Threads -> Call] /\ plan \in [Users -> Seq(Operation)]
    BY <1>1 DEF EMIInit
  <2>2. queue \in Seq(EMIPacket) /\ (empty => queue = <<>>) /\ up \in Seq({"restarted", "confirm"})
    BY <1>2 DEF EMIInit
  <2> QED
    BY <1>2, <2>1, <2>2 DEF EMIInit, EMITypes
<1>4. Rests
  BY <1>2 DEF EMIInit, Rests, Calm, Idle, OnlyFrames, Wanted
<1>5. Modes
  BY <1>4 DEF Modes, EMIInit
<1> QED
  BY <1>3, <1>5 DEF ModeInv, EMITypes

LEMMA ModeStep == ModeInv /\ [EMINext]_emivars => ModeInv'
<1> SUFFICES ASSUME ModeInv, [EMINext]_emivars PROVE ModeInv'
  OBVIOUS
<1>1. CASE UNCHANGED emivars
  <2>1. EMITypes => EMITypes'
    BY <1>1 DEF emivars, EMITypes
  <2>2. EMITypes /\ Modes => Modes'
    BY <1>1, NothingTouched DEF emivars, ToldOfRestart
  <2> QED
    BY <1>1, <2>1, <2>2 DEF ModeInv, emivars
<1>2. CASE EMINext
  <2>1. overlapped' \in BOOLEAN /\ (overlapped => overlapped')
    BY <1>2 DEF EMINext, ModeInv, RegisterBusmonitor, DeregisterBusmonitor, MakeCalls, EMIChange,
       SubmitPacket, Wake, WaitAgain, Return, SleepEnds, Meets, SendFrame, RunEMI, RunSend,
       RunTimeout, RunPacket, Transmit, UnitRestarts
  <2>2. ASSUME ~overlapped' PROVE EMITypes' /\ Modes'
    <3>1. EMITypes /\ Modes /\ UNCHANGED version
      BY <1>2, <2>1, <2>2 DEF ModeInv, EMINext
    <3>2. ASSUME NEW u \in Users, RegisterBusmonitor(u) \/ DeregisterBusmonitor(u)
          PROVE EMITypes' /\ Modes'
      BY <2>2, <3>1, <3>2, RegisterKeeps, DeregisterKeeps
    <3>3. ASSUME NEW t \in Threads, EMIChange(t) PROVE EMITypes' /\ Modes'
      BY <2>2, <3>1, <3>3, SubmitKeeps, WakeKeeps, ReturnKeeps, SleepKeeps DEF EMIChange
    <3>4. CASE SendFrame \/ RunEMI \/ Transmit \/ UnitRestarts
      BY <2>2, <3>1, <3>4, FrameKeeps, PacketKeeps, TransmitKeeps, RestartKeeps DEF RunEMI
    <3> QED
      BY <1>2, <3>2, <3>3, <3>4 DEF EMINext
  <2> QED
    BY <2>1, <2>2 DEF ModeInv
<1> QED
  BY <1>1, <1>2

(* Once a change of mode is over and all is sent, the unit, the driver and *)
(* Layer3 agree on the mode, after a restart of the unit as well, unless   *)
(* changes or a restart have met (emi1.cpp:107-245, emi2.cpp:100-251).     *)
THEOREM ModesAgreeAtRest == DriversSpec => []ModesAgree
<1>1. DriversInit => ModeInv
  BY ModeInit DEF DriversInit, Create
<1>2. ModeInv /\ [DriversNext]_dvars => ModeInv'
  <2>1. [DriversNext]_dvars => [EMINext]_emivars
    BY DEF DriversNext, dvars, FT12Only, TPUARTOnly, EMIOnly
  <2> QED
    BY <2>1, ModeStep
<1>3. ModeInv => ModesAgree
  <2> SUFFICES ASSUME ModeInv, AtRest, ~overlapped
               PROVE  /\ unit = emode
                      /\ emode = IF monitors = {} THEN 2 ELSE 1
                      /\ l3mode = IF monitors = {} THEN 0 ELSE 1
    BY DEF ModesAgree
  <2>1. EMITypes /\ Modes /\ Calm /\ up = <<>>
    BY DEF ModeInv, AtRest
  <2>2. Rests
    BY <2>1 DEF Modes, Busy, Calm
  <2>3. ~ToldOfRestart
    BY <2>1 DEF ToldOfRestart
  <2> QED
    BY <2>1, <2>2, <2>3 DEF Rests, Wanted, Modes
<1> QED
  BY <1>1, <1>2, <1>3, PTL DEF DriversSpec

----------------------------------------------------------------------------
(* TPUARTSerial: the telegrams.  They are numbered as they are queued, so  *)
(* that the first Gone of them have left the queue and Gone + 1 is at its  *)
(* head, if it is not empty.  Only the head has been written without       *)
(* leaving, once for each of its attempts; after an attempt that failed    *)
(* the counter, which may be too high when a telegram comes to the head,   *)
(* is below the limit.                                                     *)
Unit == {Byte(k) : k \in Single \cup {"rest"}} \cup {Piece(f, p) : f \in 0 .. MaxFrame, p \in 1 .. 3}

TSTypes ==
  /\ tosend \in Seq(Nat) /\ retry \in Nat
  /\ to \in BOOLEAN /\ waitconfirm \in BOOLEAN /\ acked \in BOOLEAN
  /\ in \in Seq(Unit) /\ line \in Seq(Unit)
  /\ chip \in [hung : BOOLEAN, busy : Nat, asked : BOOLEAN, frame : 0 .. MaxFrame, part : 1 .. 3]
  /\ queuedT \in 0 .. MaxTelegram
  /\ writes \in [1 .. MaxTelegram -> Nat] /\ busAcks \in [0 .. MaxFrame -> Nat]

(* q is the queue, r the counter, w the wait for an answer, wr what was    *)
(* written, n the number of telegrams so far.                              *)
Account(q, r, w, wr, n) ==
  /\ Len(q) <= n
  /\ \A i \in 1 .. Len(q) : q[i] = n - Len(q) + i
  /\ \A k \in 1 .. MaxTelegram :
       /\ k <= n - Len(q) => wr[k] > 0
       /\ k > n - Len(q) + 1 \/ k > n => wr[k] = 0
       /\ k = n - Len(q) + 1 /\ w => wr[k] <= r + 1 /\ wr[k] > 0
       /\ k = n - Len(q) + 1 /\ ~w => wr[k] = 0 \/ (wr[k] <= r /\ r < Limit)
  /\ w => q # <<>>
Limited(wr) == \A k \in 1 .. MaxTelegram : wr[k] <= Limit
SentInv ==
  /\ Limited(writes)
  /\ at # "stopped" => Account(tosend, retry, waitconfirm, writes, queuedT)

(* The frames: the first piece of each is at one place at most; when the   *)
(* frame has been acknowledged, that is the head of the buffer, and the    *)
(* flag is set.                                                            *)
FirstPiece(s, i, f) == i \in DOMAIN s /\ s[i] = Piece(f, 1)
Acks(s, l, latest, b, flag) ==
  \A f \in 1 .. MaxFrame :
    /\ b[f] <= 1
    /\ \A i, j : FirstPiece(s, i, f) /\ FirstPiece(s, j, f) => i = j
    /\ \A i, j : FirstPiece(l, i, f) /\ FirstPiece(l, j, f) => i = j
    /\ \A i, j : ~(FirstPiece(s, i, f) /\ FirstPiece(l, j, f))
    /\ \A i : FirstPiece(s, i, f) \/ FirstPiece(l, i, f) => f <= latest
    /\ b[f] > 0 => /\ f <= latest
                   /\ \A j : ~FirstPiece(l, j, f)
                   /\ \A i : FirstPiece(s, i, f) => i = 1 /\ flag
AckInv == Acks(in, line, chip.frame, busAcks, acked)

TSInv == TSTypes /\ SentInv /\ AckInv

LEMMA LimitFacts ==
  Limit \in Nat /\ Limit > NackLimit /\ Limit >= TimeoutLimit /\ Limit > 0
  /\ NackLimit \in Nat /\ TimeoutLimit \in Nat /\ MaxTelegram \in Nat /\ MaxFrame \in Nat
BY TSAssumption DEF Limit

LEMMA AccountGone ==
  ASSUME NEW q \in Seq(Nat), NEW r \in Nat, NEW r2 \in Nat, NEW wr \in [1 .. MaxTelegram -> Nat],
         NEW n \in Nat, Account(q, r, TRUE, wr, n)
  PROVE  Account(Tail(q), r2, FALSE, wr, n) /\ Tail(q) \in Seq(Nat)
<1>1. q # <<>> /\ Len(q) \in Nat /\ Len(q) > 0
  BY DEF Account
<1>2. /\ Tail(q) \in Seq(Nat) /\ Len(Tail(q)) = Len(q) - 1
      /\ \A i \in 1 .. Len(q) - 1 : Tail(q)[i] = q[i + 1]
  BY <1>1
<1>3. \A k \in 1 .. MaxTelegram : k \in Nat /\ wr[k] \in Nat
  OBVIOUS
<1> QED
  BY <1>1, <1>2, <1>3 DEF Account

LEMMA AccountFailed ==
  ASSUME NEW q \in Seq(Nat), NEW r \in Nat, NEW wr \in [1 .. MaxTelegram -> Nat],
         NEW n \in Nat, Account(q, r, TRUE, wr, n), r + 1 < Limit
  PROVE  Account(q, r + 1, FALSE, wr, n)
BY DEF Account

LEMMA AccountWritten ==
  ASSUME NEW q \in Seq(Nat), NEW r \in Nat, NEW wr \in [1 .. MaxTelegram -> Nat],
         NEW n \in 0 .. MaxTelegram, Account(q, r, FALSE, wr, n), Limited(wr), q # <<>>
  PROVE  LET new == [wr EXCEPT ![Head(q)] = @ + 1] IN
         Account(q, r, TRUE, new, n) /\ Limited(new) /\ new \in [1 .. MaxTelegram -> Nat]
<1> DEFINE h == n - Len(q) + 1
           new == [wr EXCEPT ![Head(q)] = @ + 1]
<1>1. Len(q) \in Nat /\ Len(q) > 0 /\ Head(q) = q[1] /\ Len(q) <= n /\ q[1] = h
  BY DEF Account
<1>2. h \in 1 .. MaxTelegram /\ h <= n
  BY <1>1, LimitFacts
<1>3. /\ new \in [1 .. MaxTelegram -> Nat] /\ new[h] = wr[h] + 1
      /\ \A k \in 1 .. MaxTelegram : k # h => new[k] = wr[k]
  <2>1. Head(q) = h /\ new = [wr EXCEPT ![h] = wr[h] + 1] /\ wr[h] + 1 \in Nat
    <3>1. Head(q) = h
      BY <1>1
    <3>2. wr[h] \in Nat
      BY <1>2
    <3> HIDE DEF h
    <3>3. new = [wr EXCEPT ![h] = wr[h] + 1]
      BY <3>1, Zenon
    <3>4. wr[h] + 1 \in Nat
      BY <3>2
    <3> QED
      BY <3>1, <3>3, <3>4, Zenon
  <2> HIDE DEF h, new
  <2> QED
    BY <1>2, <2>1, SMTT(30)
<1> HIDE DEF new
<1>4. wr[h] \in Nat /\ (wr[h] = 0 \/ (wr[h] <= r /\ r < Limit))
  BY <1>2 DEF Account
<1>5. new[h] <= Limit /\ new[h] <= r + 1 /\ new[h] > 0
  <2>1. new[h] = wr[h] + 1
    BY <1>3
  <2> HIDE DEF h
  <2> QED
    BY <1>4, <2>1, LimitFacts
<1>6. Limited(new)
  BY <1>2, <1>3, <1>5 DEF Limited
<1>7. Account(q, r, TRUE, new, n)
  <2>1. \A k \in 1 .. MaxTelegram : k = h <=> k = n - Len(q) + 1
    OBVIOUS
  <2>2. \A k \in 1 .. MaxTelegram :
          /\ k <= n - Len(q) => wr[k] > 0
          /\ k > n - Len(q) + 1 \/ k > n => wr[k] = 0
    BY DEF Account
  <2>3. \A i \in 1 .. Len(q) : q[i] = n - Len(q) + i
    BY DEF Account
  <2>4. \A k \in 1 .. MaxTelegram : k <= n - Len(q) => k # h
    BY <1>1
  <2>5. \A k \in 1 .. MaxTelegram : k > n - Len(q) + 1 \/ k > n => k # h
    BY <1>1, <1>2
  <2> HIDE DEF h
  <2> QED
    BY <1>1, <1>2, <1>3, <1>5, <2>1, <2>2, <2>3, <2>4, <2>5 DEF Account
<1> QED
  BY <1>3, <1>6, <1>7 DEF new

LEMMA AccountQueued ==
  ASSUME NEW q \in Seq(Nat), NEW r \in Nat, NEW w \in BOOLEAN,
         NEW wr \in [1 .. MaxTelegram -> Nat], NEW n \in Nat, Account(q, r, w, wr, n)
  PROVE  Account(Append(q, n + 1), r, w, wr, n + 1) /\ Append(q, n + 1) \in Seq(Nat)
<1> DEFINE p == Append(q, n + 1)
<1>1. /\ p \in Seq(Nat) /\ Len(p) = Len(q) + 1 /\ Len(q) \in Nat /\ p # <<>>
      /\ \A i \in 1 .. Len(q) : p[i] = q[i]
      /\ p[Len(q) + 1] = n + 1
  BY SMTT(30)
<1> HIDE DEF p
<1>2. n + 1 - Len(p) = n - Len(q)
  BY <1>1
<1>3. \A i \in 1 .. Len(p) : p[i] = n + 1 - Len(p) + i
  <2>1. \A i \in 1 .. Len(q) : q[i] = n - Len(q) + i
    BY DEF Account
  <2>2. \A i \in 1 .. Len(p) : i \in 1 .. Len(q) \/ i = Len(q) + 1
    BY <1>1
  <2> QED
    BY <1>1, <1>2, <2>1, <2>2
<1>4. \A k \in 1 .. MaxTelegram : k > n - Len(q) + 1 \/ k > n + 1 => wr[k] = 0
  BY <1>1 DEF Account
<1>5. Account(p, r, w, wr, n + 1)
  BY <1>1, <1>2, <1>3, <1>4 DEF Account
<1> QED
  BY <1>1, <1>5 DEF p

(* The account is kept by every step: what the thread counts as sent was   *)
(* written, and a telegram that stays at the head has tries left.          *)
LEMMA SentStep ==
  ASSUME TSTypes, SentInv, TSNext
  PROVE  SentInv' /\ tosend' \in Seq(Nat) /\ retry' \in Nat
         /\ queuedT' \in 0 .. MaxTelegram /\ writes' \in [1 .. MaxTelegram -> Nat]
         /\ waitconfirm' \in BOOLEAN
<1> USE DEF SentInv
<1>0. /\ tosend \in Seq(Nat) /\ retry \in Nat /\ waitconfirm \in BOOLEAN
      /\ queuedT \in 0 .. MaxTelegram /\ queuedT \in Nat /\ MaxTelegram \in Nat
      /\ writes \in [1 .. MaxTelegram -> Nat]
  BY LimitFacts DEF TSTypes
<1>1. ASSUME UNCHANGED <<tosend, retry, waitconfirm, queuedT, writes>>, at = "stopped" => at' = "stopped"
      PROVE  SentInv'
  BY <1>1
<1>2. ASSUME at # "stopped", waitconfirm, tosend' = Tail(tosend), retry' \in Nat, waitconfirm' = FALSE,
             UNCHANGED <<queuedT, writes>>
      PROVE  SentInv' /\ tosend' \in Seq(Nat)
  <2>1. Account(tosend, retry, TRUE, writes, queuedT)
    BY <1>2, <1>0
  <2>2. Account(Tail(tosend), retry', FALSE, writes, queuedT) /\ Tail(tosend) \in Seq(Nat)
    BY <1>0, <1>2, <2>1, AccountGone
  <2> QED
    BY <1>2, <2>2
<1>3. CASE Send_L_Data
  <2>1. /\ queuedT < MaxTelegram /\ at # "stopped" /\ queuedT' = queuedT + 1
        /\ tosend' = Append(tosend, queuedT + 1)
        /\ UNCHANGED <<retry, waitconfirm, writes, at>>
    BY <1>3 DEF Send_L_Data
  <2>2. Account(tosend', retry, waitconfirm, writes, queuedT + 1) /\ tosend' \in Seq(Nat)
    BY <1>0, <2>1, AccountQueued
  <2> QED
    BY <1>0, <2>1, <2>2
<1>4. CASE StopDriver
  <2>1. at' = "stopped" /\ tosend' = <<>> /\ UNCHANGED <<retry, waitconfirm, writes, queuedT>>
    BY <1>4 DEF StopDriver, history
  <2> QED
    BY <1>0, <2>1
<1>5. CASE SwitchMode \/ ReadLine \/ StateReport \/ OtherByte \/ FramePiece \/ RestBytes \/ Chip
  <2>1. UNCHANGED <<tosend, retry, waitconfirm, queuedT, writes>> /\ (at = "stopped" => at' = "stopped")
    BY <1>5 DEF SwitchMode, ReadLine, StateReport, OtherByte, FramePiece, RestBytes, Chip, ChipFrame,
       ChipCutOff, ChipAnswer, ChipState, ChipHangs, ChipOnly, history, chipSide, At
  <2> QED
    BY <1>0, <1>1, <2>1
<1>6. CASE Confirmed
  <2>1. at = "parse" /\ UNCHANGED <<at, queuedT, writes>>
    BY <1>6 DEF Confirmed, At, history
  <2>2. CASE waitconfirm
    <3>1. waitconfirm' = FALSE /\ tosend' = Tail(tosend) /\ retry' = 0
      BY <1>6, <2>2 DEF Confirmed, TakesAnswer, LeaveQueue
    <3> QED
      BY <1>0, <1>2, <2>1, <2>2, <3>1
  <2>3. CASE ~waitconfirm
    <3>1. UNCHANGED <<waitconfirm, tosend, retry>>
      BY <1>6, <2>3 DEF Confirmed, TakesAnswer
    <3> QED
      BY <1>0, <1>1, <2>1, <3>1
  <2> QED
    BY <2>2, <2>3
<1>7. CASE Refused
  <2>1. at = "parse" /\ waitconfirm' = FALSE /\ UNCHANGED <<at, queuedT, writes>>
    BY <1>7 DEF Refused, At, history
  <2>2. CASE waitconfirm /\ retry + 1 > NackLimit
    <3>1. tosend' = Tail(tosend) /\ retry' = 0
      BY <1>7, <2>2 DEF Refused, TakesAnswer, LeaveQueue
    <3> QED
      BY <1>0, <1>2, <2>1, <2>2, <3>1
  <2>3. CASE waitconfirm /\ ~(retry + 1 > NackLimit)
    <3>1. retry' = retry + 1 /\ UNCHANGED tosend
      BY <1>7, <2>3 DEF Refused, TakesAnswer
    <3>2. retry + 1 < Limit
      BY <1>0, <2>3, LimitFacts
    <3>3. Account(tosend, retry, TRUE, writes, queuedT)
      BY <1>0, <2>1, <2>3
    <3>4. Account(tosend, retry + 1, FALSE, writes, queuedT)
      BY <1>0, <3>2, <3>3, AccountFailed
    <3>5. Account(tosend', retry', FALSE, writes', queuedT')
      BY <2>1, <3>1, <3>4
    <3>6. Account(tosend', retry', waitconfirm', writes', queuedT')
      BY <2>1, <3>5
    <3>7. Limited(writes')
      BY <2>1
    <3>8. retry' \in Nat /\ tosend' \in Seq(Nat)
      BY <1>0, <3>1
    <3>9. waitconfirm' \in BOOLEAN
      BY <2>1
    <3> QED
      BY <1>0, <2>1, <3>6, <3>7, <3>8, <3>9
  <2>4. CASE ~waitconfirm
    <3>1. UNCHANGED <<tosend, retry, waitconfirm>>
      BY <1>0, <1>7, <2>1, <2>4 DEF Refused, TakesAnswer
    <3> QED
      BY <1>0, <1>1, <2>1, <3>1
  <2> QED
    BY <2>2, <2>3, <2>4
<1>8. CASE EndOfTurn
  <2> DEFINE wait1 == waitconfirm /\ ~SendTimedOut
             queue1 == IF GivesUp THEN Tail(tosend) ELSE tosend
             retry1 == IF SendTimedOut THEN retry + 1 ELSE retry
             write == in = <<>> /\ queue1 # <<>> /\ ~wait1
  <2>1. /\ at # "stopped" /\ tosend' = queue1 /\ retry' = retry1
        /\ waitconfirm' = (wait1 \/ write)
        /\ writes' = IF write THEN [writes EXCEPT ![Head(queue1)] = @ + 1] ELSE writes
        /\ UNCHANGED queuedT
    BY <1>8 DEF EndOfTurn
  <2>2. Account(queue1, retry1, wait1, writes, queuedT) /\ queue1 \in Seq(Nat) /\ retry1 \in Nat
    <3>1. Account(tosend, retry, waitconfirm, writes, queuedT)
      BY <2>1
    <3>2. CASE ~SendTimedOut
      BY <1>0, <3>1, <3>2 DEF GivesUp
    <3>3. CASE GivesUp
      <4>1. waitconfirm = TRUE /\ SendTimedOut
        BY <1>0, <3>3 DEF GivesUp, SendTimedOut
      <4>2. Account(tosend, retry, TRUE, writes, queuedT)
        BY <3>1, <4>1
      <4>6. retry + 1 \in Nat
        BY <1>0
      <4>3. Account(Tail(tosend), retry + 1, FALSE, writes, queuedT) /\ Tail(tosend) \in Seq(Nat)
        BY <1>0, <4>2, <4>6, AccountGone
      <4>4. queue1 = Tail(tosend) /\ retry1 = retry + 1
        BY <3>3, <4>1
      <4>5. wait1 = FALSE
        BY <4>1
      <4> HIDE DEF queue1, retry1, wait1
      <4> QED
        BY <4>3, <4>4, <4>5, <4>6
    <3>4. CASE SendTimedOut /\ ~GivesUp
      <4>1. waitconfirm = TRUE /\ retry + 1 < Limit
        BY <1>0, <3>4, LimitFacts DEF GivesUp, SendTimedOut
      <4>2. Account(tosend, retry, TRUE, writes, queuedT)
        BY <3>1, <4>1
      <4>6. retry + 1 \in Nat
        BY <1>0
      <4>3. Account(tosend, retry + 1, FALSE, writes, queuedT)
        BY <1>0, <4>1, <4>2, AccountFailed
      <4>4. queue1 = tosend /\ retry1 = retry + 1
        BY <3>4
      <4>5. wait1 = FALSE
        BY <3>4
      <4> HIDE DEF queue1, retry1, wait1
      <4> QED
        BY <1>0, <4>3, <4>4, <4>5, <4>6
    <3> QED
      BY <3>2, <3>3, <3>4 DEF GivesUp
  <2> HIDE DEF wait1, queue1, retry1
  <2>3. wait1 \in BOOLEAN
    BY DEF wait1
  <2>4. CASE write
    <3>1. wait1 = FALSE /\ queue1 # <<>>
      BY <2>3, <2>4
    <3>2. LET new == [writes EXCEPT ![Head(queue1)] = @ + 1] IN
          Account(queue1, retry1, TRUE, new, queuedT) /\ Limited(new) /\ new \in [1 .. MaxTelegram -> Nat]
      BY <1>0, <2>2, <3>1, AccountWritten
    <3>3. waitconfirm' = TRUE
      BY <2>1, <2>4
    <3> QED
      BY <1>0, <2>1, <2>2, <2>4, <3>2, <3>3
  <2>5. CASE ~write
    <3>1. waitconfirm' = wait1
      BY <2>1, <2>3, <2>5
    <3> QED
      BY <1>0, <2>1, <2>2, <2>3, <2>5, <3>1
  <2> QED
    BY <2>4, <2>5
<1> QED
  BY <1>3, <1>4, <1>5, <1>6, <1>7, <1>8 DEF TSNext, RunTS

(* The pieces of a frame among the bytes.                                  *)
LEMMA UnitFacts ==
  /\ \A u \in Unit : u.kind = "piece" => /\ u = Piece(u.frame, u.part)
                                        /\ u.frame \in 0 .. MaxFrame /\ u.part \in 1 .. 3
  /\ \A k \in Single \cup {"rest"} : Byte(k) \in Unit /\ \A f, p : Byte(k) # Piece(f, p)
  /\ \A f \in 0 .. MaxFrame, p \in 1 .. 3 : Piece(f, p) \in Unit
  /\ \A f, p, g, q : Piece(f, p) = Piece(g, q) => f = g /\ p = q
<1>1. \A k \in Single \cup {"rest"} : k # "piece"
  BY DEF Single
<1>2. \A k \in Single \cup {"rest"} : Byte(k).kind # "piece"
  BY <1>1 DEF Byte
<1>3. \A f, p : Piece(f, p).kind = "piece" /\ Piece(f, p).frame = f /\ Piece(f, p).part = p
  BY DEF Piece
<1>4. \A u \in Unit : \/ \E k \in Single \cup {"rest"} : u = Byte(k)
                     \/ \E f \in 0 .. MaxFrame, p \in 1 .. 3 : u = Piece(f, p)
  BY DEF Unit
<1>5. /\ \A k \in Single \cup {"rest"} : Byte(k) \in Unit
      /\ \A f \in 0 .. MaxFrame, p \in 1 .. 3 : Piece(f, p) \in Unit
  BY DEF Unit
<1>6. \A u \in Unit : u.kind = "piece" => /\ u = Piece(u.frame, u.part)
                                        /\ u.frame \in 0 .. MaxFrame /\ u.part \in 1 .. 3
  BY <1>2, <1>3, <1>4
<1> QED
  BY <1>2, <1>3, <1>5, <1>6

(* t holds the first pieces of s that are not at its head, d places on.    *)
Without(t, s, d) ==
  \A f \in 1 .. MaxFrame : \A i : FirstPiece(t, i, f) => /\ i \in Int /\ i + d >= 2
                                                       /\ FirstPiece(s, i + d, f)

(* Consuming the beginning of the buffer, or putting other bytes in the    *)
(* place of its head, leaves the first pieces behind the head.             *)
LEMMA HeadGone ==
  ASSUME NEW s \in Seq(Unit), NEW k \in 1 .. Len(s)
  PROVE  /\ SubSeq(s, k + 1, Len(s)) \in Seq(Unit)
         /\ Without(SubSeq(s, k + 1, Len(s)), s, k)
<1> DEFINE t == SubSeq(s, k + 1, Len(s))
<1>1. /\ t \in Seq(Unit) /\ Len(t) = Len(s) - k
      /\ \A i \in 1 .. Len(s) - k : t[i] = s[i + k]
  OBVIOUS
<1> HIDE DEF t
<1>2. \A i \in DOMAIN t : i \in Int /\ i + k >= 2 /\ i + k \in DOMAIN s /\ t[i] = s[i + k]
  BY <1>1
<1>3. Without(t, s, k)
  BY <1>2 DEF Without, FirstPiece
<1> QED
  BY <1>1, <1>3 DEF t

LEMMA HeadReplaced ==
  ASSUME NEW s \in Seq(Unit), s # <<>>, NEW r \in Unit, \A f \in 1 .. MaxFrame : r # Piece(f, 1)
  PROVE  /\ <<r>> \o Tail(s) \in Seq(Unit)
         /\ Without(<<r>> \o Tail(s), s, 0)
<1> DEFINE t == <<r>> \o Tail(s)
<1>1. /\ Tail(s) \in Seq(Unit) /\ Len(Tail(s)) = Len(s) - 1
      /\ \A i \in 1 .. Len(s) - 1 : Tail(s)[i] = s[i + 1]
  OBVIOUS
<1>2. /\ t \in Seq(Unit) /\ Len(t) = Len(s) /\ t[1] = r
      /\ \A i \in 2 .. Len(s) : t[i] = s[i]
  BY <1>1
<1> HIDE DEF t
<1>3. \A i \in DOMAIN t : i \in Int /\ i + 0 = i /\ i \in DOMAIN s /\ (i = 1 \/ (i >= 2 /\ t[i] = s[i]))
  BY <1>2
<1>4. Without(t, s, 0)
  BY <1>2, <1>3 DEF Without, FirstPiece
<1> QED
  BY <1>2, <1>4 DEF t

LEMMA TailGone ==
  ASSUME NEW s \in Seq(Unit), s # <<>>
  PROVE  Tail(s) \in Seq(Unit) /\ Without(Tail(s), s, 1)
<1>1. /\ Tail(s) \in Seq(Unit) /\ Len(Tail(s)) = Len(s) - 1
      /\ \A i \in 1 .. Len(s) - 1 : Tail(s)[i] = s[i + 1]
  OBVIOUS
<1>2. \A i \in DOMAIN Tail(s) : i \in Int /\ i + 1 >= 2 /\ i + 1 \in DOMAIN s /\ Tail(s)[i] = s[i + 1]
  BY <1>1
<1> QED
  BY <1>1, <1>2 DEF Without, FirstPiece

(* What leaves the buffer cannot break the account; a frame is             *)
(* acknowledged while its first piece is at the head.                      *)
LEMMA AcksWithout ==
  ASSUME NEW s, NEW l, NEW latest, NEW b, NEW flag, NEW flag2, NEW t, NEW d \in Nat,
         Acks(s, l, latest, b, flag), Without(t, s, d)
  PROVE  Acks(t, l, latest, b, flag2)
<1>1. \A f \in 1 .. MaxFrame : \A i : FirstPiece(t, i, f) => FirstPiece(s, i + d, f) /\ i + d # 1 /\ i \in Int
  BY DEF Without
<1>2. \A f \in 1 .. MaxFrame : \A i, j : FirstPiece(t, i, f) /\ FirstPiece(t, j, f) => i = j
  <2> SUFFICES ASSUME NEW f \in 1 .. MaxFrame, NEW i, NEW j, FirstPiece(t, i, f), FirstPiece(t, j, f)
               PROVE  i = j
    OBVIOUS
  <2>1. i + d = j + d /\ i \in Int /\ j \in Int
    BY <1>1 DEF Acks
  <2> QED
    BY <2>1
<1>3. \A f \in 1 .. MaxFrame : b[f] > 0 => \A i : ~FirstPiece(t, i, f)
  BY <1>1 DEF Acks
<1> QED
  BY <1>1, <1>2, <1>3 DEF Acks

LEMMA AcksSent ==
  ASSUME NEW s \in Seq(Unit), NEW l, NEW latest, NEW b \in [0 .. MaxFrame -> Nat],
         NEW g \in 0 .. MaxFrame, s # <<>>, s[1] = Piece(g, 1), Acks(s, l, latest, b, FALSE)
  PROVE  LET new == [b EXCEPT ![g] = @ + 1] IN
         Acks(s, l, latest, new, TRUE) /\ new \in [0 .. MaxFrame -> Nat]
<1> DEFINE new == [b EXCEPT ![g] = @ + 1]
<1>1. MaxFrame \in Nat /\ \A f \in 1 .. MaxFrame : f \in 0 .. MaxFrame
  BY LimitFacts
<1>2. /\ new \in [0 .. MaxFrame -> Nat] /\ new[g] = b[g] + 1
      /\ \A f \in 0 .. MaxFrame : f # g => new[f] = b[f]
  OBVIOUS
<1> HIDE DEF new
<1>3. FirstPiece(s, 1, g)
  BY DEF FirstPiece
<1>4. g \in 1 .. MaxFrame => b[g] = 0 /\ new[g] = 1
  BY <1>2, <1>3 DEF Acks
<1>5. \A f \in 1 .. MaxFrame : new[f] > 0 => \/ f = g
                                          \/ (b[f] > 0 /\ \A i : ~FirstPiece(s, i, f))
  BY <1>1, <1>2 DEF Acks
<1>6. \A f \in 1 .. MaxFrame : new[f] <= 1
  BY <1>1, <1>2, <1>4 DEF Acks
<1>7. g \in 1 .. MaxFrame => /\ g <= latest /\ \A j : ~FirstPiece(l, j, g)
                            /\ \A i : FirstPiece(s, i, g) => i = 1
  BY <1>3 DEF Acks
<1>8. Acks(s, l, latest, new, TRUE)
  BY <1>5, <1>6, <1>7 DEF Acks
<1> QED
  BY <1>2, <1>8 DEF new

(* The bytes that were under way join the buffer.                          *)
LEMMA AcksRead ==
  ASSUME NEW s \in Seq(Unit), NEW l \in Seq(Unit), NEW latest, NEW b, NEW flag,
         Acks(s, l, latest, b, flag)
  PROVE  Acks(s \o l, <<>>, latest, b, flag) /\ s \o l \in Seq(Unit)
<1> DEFINE t == s \o l
<1>1. /\ t \in Seq(Unit) /\ Len(t) = Len(s) + Len(l) /\ Len(s) \in Nat /\ Len(l) \in Nat
      /\ \A i \in 1 .. Len(s) : t[i] = s[i]
      /\ \A i \in 1 .. Len(l) : t[Len(s) + i] = l[i]
  OBVIOUS
<1> HIDE DEF t
<1>2. \A i \in DOMAIN t : /\ i \in Int
                        /\ \/ i \in DOMAIN s /\ t[i] = s[i]
                           \/ i - Len(s) \in DOMAIN l /\ t[i] = l[i - Len(s)]
  <2> SUFFICES ASSUME NEW i \in DOMAIN t
               PROVE  \/ (i \in DOMAIN s /\ t[i] = s[i])
                      \/ (i - Len(s) \in DOMAIN l /\ t[i] = l[i - Len(s)])
    BY <1>1
  <2>1. i \in 1 .. Len(s) \/ i - Len(s) \in 1 .. Len(l)
    BY <1>1
  <2>2. i = Len(s) + (i - Len(s))
    BY <1>1
  <2> QED
    BY <1>1, <2>1, <2>2
<1>3. \A f, i : FirstPiece(t, i, f) => /\ i \in Int
                                     /\ (FirstPiece(s, i, f) \/ FirstPiece(l, i - Len(s), f))
  BY <1>2 DEF FirstPiece
<1>4. \A f, i : ~FirstPiece(<<>>, i, f)
  BY DEF FirstPiece
<1>5. \A f \in 1 .. MaxFrame : \A i, j : FirstPiece(t, i, f) /\ FirstPiece(t, j, f) => i = j
  <2> SUFFICES ASSUME NEW f \in 1 .. MaxFrame, NEW i, NEW j, FirstPiece(t, i, f), FirstPiece(t, j, f)
               PROVE  i = j
    OBVIOUS
  <2>1. i \in Int /\ j \in Int
    BY <1>3
  <2>2. i = j \/ i - Len(s) = j - Len(s)
    BY <1>3 DEF Acks
  <2> QED
    BY <1>1, <2>1, <2>2
<1>6. \A f \in 1 .. MaxFrame : \A i : FirstPiece(t, i, f) => f <= latest
  BY <1>3 DEF Acks
<1>7. \A f \in 1 .. MaxFrame : b[f] > 0 => /\ f <= latest
                                        /\ \A i : FirstPiece(t, i, f) => i = 1 /\ flag
  BY <1>3 DEF Acks
<1>8. Acks(t, <<>>, latest, b, flag)
  BY <1>4, <1>5, <1>6, <1>7 DEF Acks
<1> QED
  BY <1>1, <1>8 DEF t

(* A byte more on the line, and the first piece of the next frame.         *)
LEMMA FirstsAppended ==
  ASSUME NEW l \in Seq(Unit), NEW u \in Unit
  PROVE  /\ Append(l, u) \in Seq(Unit)
         /\ \A i, f : FirstPiece(Append(l, u), i, f)
                     => \/ FirstPiece(l, i, f)
                        \/ (i = Len(l) + 1 /\ u = Piece(f, 1))
<1> DEFINE p == Append(l, u)
<1>1. /\ p \in Seq(Unit) /\ Len(p) = Len(l) + 1 /\ p[Len(l) + 1] = u /\ Len(l) \in Nat
      /\ \A i \in 1 .. Len(l) : p[i] = l[i]
  OBVIOUS
<1> HIDE DEF p
<1>2. \A i \in DOMAIN p : \/ (i \in DOMAIN l /\ p[i] = l[i])
                        \/ (i = Len(l) + 1 /\ p[i] = u)
  BY <1>1
<1>3. \A i, f : FirstPiece(p, i, f) => \/ FirstPiece(l, i, f)
                                      \/ (i = Len(l) + 1 /\ u = Piece(f, 1))
  BY <1>2 DEF FirstPiece
<1> QED
  BY <1>1, <1>3 DEF p

LEMMA AcksBegun ==
  ASSUME NEW s \in Seq(Unit), NEW l \in Seq(Unit), NEW n \in Int, NEW b, NEW flag,
         n + 1 \in 1 .. MaxFrame, Piece(n + 1, 1) \in Unit, Acks(s, l, n, b, flag)
  PROVE  /\ Append(l, Piece(n + 1, 1)) \in Seq(Unit)
         /\ Acks(s, Append(l, Piece(n + 1, 1)), n + 1, b, flag)
<1> DEFINE p == Append(l, Piece(n + 1, 1))
<1>1. /\ p \in Seq(Unit)
      /\ \A i, f : FirstPiece(p, i, f) => FirstPiece(l, i, f) \/ (i = Len(l) + 1 /\ f = n + 1)
  BY FirstsAppended, UnitFacts
<1> HIDE DEF p
<1>2. \A f \in 1 .. MaxFrame : f # n + 1 => \A i : FirstPiece(p, i, f) => FirstPiece(l, i, f)
  BY <1>1
<1>3. \A i : ~FirstPiece(s, i, n + 1) /\ ~FirstPiece(l, i, n + 1)
  BY ~(n + 1 <= n) DEF Acks
<1>4. Acks(s, p, n + 1, b, flag)
  BY <1>1, <1>2, <1>3 DEF Acks
<1> QED
  BY <1>1, <1>4 DEF p

(* The pieces of a frame that FramePiece counts, and where it ends.        *)
LEMMA FrameEnds ==
  ASSUME TSTypes, Cardinality(Pieces) > 2
  PROVE  EndOfFrame \in 1 .. Len(in)
<1>1. in \in Seq(Unit) /\ Len(in) \in Nat /\ DOMAIN in = 1 .. Len(in)
  BY DEF TSTypes
<1>2. Pieces \subseteq 1 .. Len(in)
  BY <1>1 DEF Pieces
<1>3. \E i \in Pieces : Cardinality({j \in Pieces : j <= i}) = 3
  <2>1. IsFiniteSet(Pieces)
    <3>1. IsFiniteSet(1 .. Len(in))
      BY <1>1, FS_Interval
    <3> QED
      BY <1>2, <3>1, FS_Subset
  <2>2. Cardinality(Pieces) \in Nat
    BY <2>1, FS_CardinalityType
  <2>3. Cardinality(Pieces) >= 3 /\ 3 \in Nat \ {0}
    BY <2>2
  <2>4. Pieces \in SUBSET Nat /\ \A i \in Pieces : i <= Len(in)
    BY <1>1, <1>2
  <2> QED
    BY <1>1, <2>3, <2>4, NthElement
<1>4. EndOfFrame \in Pieces
  BY <1>3 DEF EndOfFrame
<1> QED
  BY <1>2, <1>4

FrameTypes ==
  /\ to \in BOOLEAN /\ acked \in BOOLEAN
  /\ in \in Seq(Unit) /\ line \in Seq(Unit)
  /\ chip \in [hung : BOOLEAN, busy : Nat, asked : BOOLEAN, frame : 0 .. MaxFrame, part : 1 .. 3]
  /\ busAcks \in [0 .. MaxFrame -> Nat]

(* Waiting for more leaves the buffer as it is or drops its head.          *)
LEMMA AwaitMoreKeeps ==
  ASSUME in \in Seq(Unit), in # <<>>, to \in BOOLEAN, AwaitMore
  PROVE  /\ in' \in Seq(Unit) /\ to' \in BOOLEAN
         /\ in' = in \/ \E d \in Nat : Without(in', in, d)
<1>1. CASE "timeout" \in over /\ to
  <2>1. UNCHANGED to /\ \E r \in Remnants : in' = r \o Tail(in)
    BY <1>1 DEF AwaitMore
  <2>2. PICK r \in Remnants : in' = r \o Tail(in)
    BY <2>1
  <2>3. r = <<>> \/ r = <<Byte("rest")>>
    BY DEF Remnants
  <2>4. CASE r = <<>>
    <3>1. in' = Tail(in)
      BY <2>2, <2>4
    <3> QED
      BY <2>1, <3>1, TailGone
  <2>5. CASE r = <<Byte("rest")>>
    <3>1. Byte("rest") \in Unit /\ \A f \in 1 .. MaxFrame : Byte("rest") # Piece(f, 1)
      BY UnitFacts
    <3> QED
      BY <2>1, <2>2, <2>5, <3>1, HeadReplaced
  <2> QED
    BY <2>3, <2>4, <2>5
<1>2. CASE ~("timeout" \in over /\ to)
  BY <1>2 DEF AwaitMore
<1> QED
  BY <1>1, <1>2

(* The thread drops bytes from the head of its buffer, and acknowledges    *)
(* the frame at the head while its flag is not set.                        *)
LEMMA FramePieceStep ==
  ASSUME TSTypes, AckInv, FramePiece
  PROVE  AckInv' /\ FrameTypes'
<1>0. /\ FrameTypes /\ in # <<>> /\ in \in Seq(Unit) /\ in[1] = Head(in)
      /\ UNCHANGED <<line, chip>>
  BY DEF TSTypes, FrameTypes, FramePiece, At, chipSide
<1>1. in[1] \in Unit /\ in[1].kind = "piece" /\ in[1].part = 1
  BY <1>0 DEF FramePiece, At
<1>2. in[1] = Piece(Head(in).frame, 1) /\ Head(in).frame \in 0 .. MaxFrame
  BY <1>0, <1>1, UnitFacts
<1>3. ASSUME SendAck
      PROVE  /\ Acks(in, line, chip.frame, busAcks', TRUE)
             /\ busAcks' \in [0 .. MaxFrame -> Nat]
  <2>1. CASE acked
    <3>1. busAcks' = busAcks
      BY <1>3, <2>1 DEF SendAck
    <3> QED
      BY <1>0, <2>1, <3>1 DEF AckInv, Acks, FrameTypes
  <2>2. CASE ~acked
    <3>1. busAcks' = [busAcks EXCEPT ![Head(in).frame] = @ + 1]
      BY <1>3, <2>2 DEF SendAck
    <3>2. Acks(in, line, chip.frame, busAcks, FALSE)
      BY <2>2 DEF AckInv, Acks
    <3>3. busAcks \in [0 .. MaxFrame -> Nat]
      BY <1>0 DEF FrameTypes
    <3> QED
      BY <1>0, <1>2, <3>1, <3>2, <3>3, AcksSent
  <2> QED
    BY <2>1, <2>2
<1>4. CASE Cardinality(Pieces) = 1 /\ AwaitMore /\ UNCHANGED <<acked, busAcks>>
  <2>1. /\ in' \in Seq(Unit) /\ to' \in BOOLEAN
        /\ in' = in \/ \E d \in Nat : Without(in', in, d)
    BY <1>0, <1>4, AwaitMoreKeeps DEF FrameTypes
  <2>2. Acks(in', line, chip.frame, busAcks, acked)
    BY <2>1, AcksWithout DEF AckInv
  <2> QED
    BY <1>0, <1>4, <2>1, <2>2 DEF AckInv, FrameTypes
<1>5. CASE SendAck /\ acked' = TRUE /\ AwaitMore
  <2>1. /\ in' \in Seq(Unit) /\ to' \in BOOLEAN
        /\ in' = in \/ \E d \in Nat : Without(in', in, d)
    BY <1>0, <1>5, AwaitMoreKeeps DEF FrameTypes
  <2>2. Acks(in', line, chip.frame, busAcks', TRUE)
    BY <1>3, <1>5, <2>1, AcksWithout
  <2>3. AckInv'
    BY <1>0, <1>5, <2>2 DEF AckInv, Acks
  <2>4. acked' \in BOOLEAN /\ busAcks' \in [0 .. MaxFrame -> Nat]
    BY <1>3, <1>5
  <2> QED
    BY <1>0, <2>1, <2>3, <2>4 DEF FrameTypes
<1>6. CASE Cardinality(Pieces) > 2 /\ SendAck /\ acked' = FALSE /\ Consume(EndOfFrame)
  <2>1. EndOfFrame \in 1 .. Len(in)
    BY <1>6, FrameEnds
  <2>2. in' \in Seq(Unit) /\ Without(in', in, EndOfFrame) /\ EndOfFrame \in Nat
    BY <1>0, <1>6, <2>1, HeadGone DEF Consume
  <2>3. Acks(in', line, chip.frame, busAcks', FALSE)
    BY <1>3, <1>6, <2>2, AcksWithout
  <2>4. AckInv'
    BY <1>0, <1>6, <2>3 DEF AckInv, Acks
  <2>5. acked' \in BOOLEAN /\ to' \in BOOLEAN
    BY <1>6 DEF Consume
  <2>6. busAcks' \in [0 .. MaxFrame -> Nat]
    BY <1>3, <1>6
  <2> QED
    BY <1>0, <2>2, <2>4, <2>5, <2>6 DEF FrameTypes
<1> QED
  BY <1>4, <1>5, <1>6 DEF FramePiece

LEMMA AckStep ==
  ASSUME TSTypes, SentInv, AckInv, TSNext
  PROVE  AckInv' /\ FrameTypes'
<1>0. FrameTypes
  BY DEF TSTypes, FrameTypes
<1>1. ASSUME UNCHANGED <<in, line, busAcks, acked, to>>,
             chip' \in [hung : BOOLEAN, busy : Nat, asked : BOOLEAN, frame : 0 .. MaxFrame, part : 1 .. 3],
             chip'.frame = chip.frame
      PROVE  AckInv' /\ FrameTypes'
  BY <1>0, <1>1 DEF AckInv, FrameTypes
<1>2. ASSUME in # <<>>, UNCHANGED <<line, busAcks, chip>>, acked' \in BOOLEAN, to' \in BOOLEAN,
             NEW d \in Nat, Without(in', in, d), in' \in Seq(Unit)
      PROVE  AckInv' /\ FrameTypes'
  <2>1. Acks(in', line, chip.frame, busAcks, acked')
    BY <1>2, AcksWithout DEF AckInv
  <2> QED
    BY <1>0, <1>2, <2>1 DEF AckInv, FrameTypes
<1>3. ASSUME in # <<>>, UNCHANGED <<line, busAcks, chip>>, acked' \in BOOLEAN, Consume(1)
      PROVE  AckInv' /\ FrameTypes'
  <2>1. 1 \in 1 .. Len(in) /\ in \in Seq(Unit)
    BY <1>0, <1>3 DEF FrameTypes
  <2>2. Without(in', in, 1) /\ in' \in Seq(Unit)
    BY <1>3, <2>1, HeadGone DEF Consume
  <2>3. to' \in BOOLEAN
    BY <1>3 DEF Consume
  <2> QED
    BY <1>2, <1>3, <2>2, <2>3
<1>4. CASE Send_L_Data \/ StopDriver
  BY <1>0, <1>1, <1>4 DEF Send_L_Data, StopDriver, chipSide, history, FrameTypes
<1>5. CASE SwitchMode
  <2>1. UNCHANGED <<in, line, busAcks, acked, to>>
    BY <1>5 DEF SwitchMode, history
  <2>2. /\ chip' \in [hung : BOOLEAN, busy : Nat, asked : BOOLEAN, frame : 0 .. MaxFrame, part : 1 .. 3]
        /\ chip'.frame = chip.frame
    BY <1>0, <1>5 DEF SwitchMode, FrameTypes
  <2> QED
    BY <1>1, <2>1, <2>2
<1>6. CASE ReadLine
  <2>1. in' = in \o line /\ line' = <<>> /\ UNCHANGED <<busAcks, acked, to, chip>>
    BY <1>6 DEF ReadLine, history
  <2>2. Acks(in', <<>>, chip.frame, busAcks, acked) /\ in' \in Seq(Unit)
    BY <1>0, <2>1, AcksRead DEF AckInv, FrameTypes
  <2>3. line' \in Seq(Unit)
    BY <2>1
  <2> QED
    BY <1>0, <2>1, <2>2, <2>3 DEF AckInv, FrameTypes
<1>7. CASE Confirmed \/ Refused \/ StateReport
  <2>1. in # <<>> /\ Consume(1) /\ UNCHANGED <<line, busAcks, chip, acked>>
    BY <1>7 DEF Confirmed, Refused, StateReport, At, history, chipSide
  <2> QED
    BY <1>0, <1>3, <2>1 DEF FrameTypes
<1>8. CASE OtherByte
  <2>1. in # <<>> /\ Consume(1) /\ UNCHANGED <<line, busAcks, chip>>
    BY <1>8 DEF OtherByte, At, history, chipSide
  <2>2. acked' \in BOOLEAN
    BY <1>8 DEF OtherByte
  <2> QED
    BY <1>3, <2>1, <2>2
<1>9. CASE FramePiece
  BY <1>9, FramePieceStep
<1>10. CASE RestBytes
  <2>1. in # <<>> /\ UNCHANGED <<line, busAcks, chip, acked, to>>
    BY <1>10 DEF RestBytes, At, history, chipSide
  <2>2. PICK r \in {Byte(k) : k \in Single} \cup {Piece(0, 1)} : in' = <<r>> \o Tail(in)
    BY <1>10 DEF RestBytes
  <2>3. 0 \in 0 .. MaxFrame /\ 1 \in 1 .. 3 /\ \A f \in 1 .. MaxFrame : f # 0
    BY LimitFacts
  <2>4. r \in Unit /\ \A f \in 1 .. MaxFrame : r # Piece(f, 1)
    <3>1. CASE r = Piece(0, 1)
      BY <2>3, <3>1, UnitFacts
    <3>2. CASE r \in {Byte(k) : k \in Single}
      BY <3>2, UnitFacts
    <3> QED
      BY <2>2, <3>1, <3>2
  <2>5. Without(in', in, 0) /\ in' \in Seq(Unit)
    BY <1>0, <2>1, <2>2, <2>4, HeadReplaced DEF FrameTypes
  <2> QED
    BY <1>0, <1>2, <2>1, <2>5 DEF FrameTypes
<1>11. CASE EndOfTurn
  <2>1. UNCHANGED <<in, line, busAcks, acked, to>>
    BY <1>11 DEF EndOfTurn
  <2>2. /\ chip' \in [hung : BOOLEAN, busy : Nat, asked : BOOLEAN, frame : 0 .. MaxFrame, part : 1 .. 3]
        /\ chip'.frame = chip.frame
    <3> DEFINE queue1 == IF GivesUp THEN Tail(tosend) ELSE tosend
               chip1 == IF ResetsChip THEN [chip EXCEPT !.hung = FALSE, !.busy = 0, !.asked = FALSE]
                        ELSE chip
               Chips == [hung : BOOLEAN, busy : Nat, asked : BOOLEAN, frame : 0 .. MaxFrame, part : 1 .. 3]
    <3>1. PICK write, ask : /\ chip' = IF chip1.hung \/ monitor = 1 THEN chip1
                                       ELSE [chip1 EXCEPT !.busy = IF write THEN Head(queue1) ELSE @,
                                                          !.asked = @ \/ ask]
                            /\ write => queue1 # <<>>
      BY <1>11 DEF EndOfTurn
    <3>2. chip1 \in Chips /\ chip1.frame = chip.frame
      BY <1>0 DEF FrameTypes
    <3>3. queue1 # <<>> => Head(queue1) \in Nat
      <4>1. tosend \in Seq(Nat) /\ (GivesUp => tosend # <<>>)
        BY <1>11 DEF TSTypes, SentInv, Account, EndOfTurn, GivesUp, SendTimedOut
      <4> QED
        BY <4>1
    <3> HIDE DEF chip1, queue1
    <3> QED
      BY <3>1, <3>2, <3>3
  <2> QED
    BY <1>1, <2>1, <2>2
<1>12. ASSUME UNCHANGED <<in, busAcks, acked, to>>, NEW u \in Unit, line' = Append(line, u),
              \A f \in 1 .. MaxFrame : u # Piece(f, 1),
              chip' \in [hung : BOOLEAN, busy : Nat, asked : BOOLEAN, frame : 0 .. MaxFrame, part : 1 .. 3],
              chip'.frame = chip.frame
       PROVE  AckInv' /\ FrameTypes'
  <2>1. line' \in Seq(Unit) /\ \A f \in 1 .. MaxFrame : \A i : FirstPiece(line', i, f) => FirstPiece(line, i, f)
    BY <1>0, <1>12, FirstsAppended DEF FrameTypes
  <2>2. Acks(in, line', chip.frame, busAcks, acked)
    BY <2>1 DEF AckInv, Acks
  <2> QED
    BY <1>0, <1>12, <2>1, <2>2 DEF AckInv, FrameTypes
<1>13. CASE ChipFrame
  <2>1. UNCHANGED <<in, busAcks, acked, to>>
    BY <1>13 DEF ChipFrame, ChipOnly, history
  <2>2. CASE chip.part < 3
    <3>1. /\ chip' = [chip EXCEPT !.part = @ + 1]
          /\ line' = Append(line, Piece(chip.frame, chip.part + 1))
      BY <1>13, <2>2 DEF ChipFrame, Emit
    <3>2. chip.part \in 1 .. 3 /\ chip.part + 1 \in 1 .. 3 /\ chip.part + 1 # 1 /\ chip.frame \in 0 .. MaxFrame
      BY <1>0, <2>2 DEF FrameTypes
    <3>3. /\ chip' \in [hung : BOOLEAN, busy : Nat, asked : BOOLEAN, frame : 0 .. MaxFrame, part : 1 .. 3]
          /\ chip'.frame = chip.frame
      BY <1>0, <3>1, <3>2 DEF FrameTypes
    <3>4. /\ Piece(chip.frame, chip.part + 1) \in Unit
          /\ \A f \in 1 .. MaxFrame : Piece(chip.frame, chip.part + 1) # Piece(f, 1)
      BY <3>2, UnitFacts
    <3> QED
      BY <1>12, <2>1, <3>1, <3>3, <3>4
  <2>3. CASE ~(chip.part < 3)
    <3>1. /\ chip.frame < MaxFrame
          /\ chip' = [chip EXCEPT !.frame = @ + 1, !.part = 1]
          /\ line' = Append(line, Piece(chip.frame + 1, 1))
      BY <1>13, <2>3 DEF ChipFrame, Emit
    <3>2. chip.frame \in 0 .. MaxFrame /\ chip.frame + 1 \in 1 .. MaxFrame /\ chip.frame + 1 \in 0 .. MaxFrame
          /\ 1 \in 1 .. 3
      BY <1>0, <3>1, LimitFacts DEF FrameTypes
    <3>3. /\ chip' \in [hung : BOOLEAN, busy : Nat, asked : BOOLEAN, frame : 0 .. MaxFrame, part : 1 .. 3]
          /\ chip'.frame = chip.frame + 1
      BY <1>0, <3>1, <3>2 DEF FrameTypes
    <3>4. Piece(chip.frame + 1, 1) \in Unit
      BY <3>2, UnitFacts
    <3>5. line' \in Seq(Unit) /\ Acks(in, line', chip.frame + 1, busAcks, acked)
      BY <1>0, <3>1, <3>2, <3>4, AcksBegun DEF AckInv, FrameTypes
    <3> QED
      BY <1>0, <2>1, <3>3, <3>5 DEF AckInv, FrameTypes
  <2> QED
    BY <2>2, <2>3
<1>14. CASE ChipCutOff \/ ChipAnswer \/ ChipState \/ ChipHangs
  <2>1. UNCHANGED <<in, busAcks, acked, to>>
    BY <1>14 DEF ChipCutOff, ChipAnswer, ChipState, ChipHangs, ChipOnly, history
  <2>2. /\ chip' \in [hung : BOOLEAN, busy : Nat, asked : BOOLEAN, frame : 0 .. MaxFrame, part : 1 .. 3]
        /\ chip'.frame = chip.frame
    <3>1. \/ chip' = [chip EXCEPT !.part = 3]
          \/ chip' = [chip EXCEPT !.busy = 0]
          \/ chip' = [chip EXCEPT !.asked = FALSE]
          \/ chip' = [chip EXCEPT !.hung = TRUE, !.busy = 0, !.asked = FALSE, !.part = 3]
      BY <1>14 DEF ChipCutOff, ChipAnswer, ChipState, ChipHangs
    <3>2. chip \in [hung : BOOLEAN, busy : Nat, asked : BOOLEAN, frame : 0 .. MaxFrame, part : 1 .. 3]
      BY <1>0 DEF FrameTypes
    <3>3. CASE chip' = [chip EXCEPT !.part = 3]
      BY <3>2, <3>3
    <3>4. CASE chip' = [chip EXCEPT !.busy = 0]
      BY <3>2, <3>4
    <3>5. CASE chip' = [chip EXCEPT !.asked = FALSE]
      BY <3>2, <3>5
    <3>6. CASE chip' = [chip EXCEPT !.hung = TRUE, !.busy = 0, !.asked = FALSE, !.part = 3]
      <4>1. chip.frame \in 0 .. MaxFrame /\ 3 \in 1 .. 3
        BY <3>2
      <4>2. chip' = [hung |-> TRUE, busy |-> 0, asked |-> FALSE, frame |-> chip.frame, part |-> 3]
        BY <3>2, <3>6
      <4>3. chip'.frame = chip.frame
        BY <4>2
      <4> QED
        BY <4>1, <4>2, <4>3
    <3> QED
      BY <3>1, <3>3, <3>4, <3>5, <3>6
  <2>3. line' = line \/ \E k \in Single : line' = Append(line, Byte(k))
    BY <1>14 DEF ChipCutOff, ChipAnswer, ChipState, ChipHangs, Emit, Single
  <2>4. \A k \in Single : Byte(k) \in Unit /\ \A f \in 1 .. MaxFrame : Byte(k) # Piece(f, 1)
    BY UnitFacts
  <2> QED
    BY <1>1, <1>12, <2>1, <2>2, <2>3, <2>4
<1> QED
  BY <1>4, <1>5, <1>6, <1>7, <1>8, <1>9, <1>10, <1>11, <1>13, <1>14 DEF TSNext, RunTS, Chip

LEMMA TelegramInit == TSInit => TSInv
<1> SUFFICES ASSUME TSInit PROVE TSInv
  OBVIOUS
<1>1. /\ tosend = <<>> /\ in = <<>> /\ line = <<>> /\ retry = 0 /\ queuedT = 0 /\ to = FALSE
      /\ waitconfirm = FALSE /\ acked = FALSE
      /\ chip = [hung |-> FALSE, busy |-> 0, asked |-> FALSE, frame |-> 0, part |-> 3]
      /\ writes = [n \in 1 .. MaxTelegram |-> 0] /\ busAcks = [f \in 0 .. MaxFrame |-> 0]
  BY DEF TSInit
<1>2. TSTypes
  BY <1>1, LimitFacts DEF TSTypes
<1>3. SentInv
  <2>1. Account(<<>>, 0, FALSE, writes, 0)
    BY <1>1 DEF Account
  <2>2. Limited(writes)
    BY <1>1, LimitFacts DEF Limited
  <2> QED
    BY <1>1, <2>1, <2>2 DEF SentInv
<1>4. AckInv
  <2>1. \A i, f : ~FirstPiece(<<>>, i, f)
    BY DEF FirstPiece
  <2>2. \A f \in 1 .. MaxFrame : busAcks[f] = 0
    BY <1>1, LimitFacts
  <2> QED
    BY <1>1, <2>1, <2>2 DEF AckInv, Acks
<1> QED
  BY <1>2, <1>3, <1>4 DEF TSInv

LEMMA TelegramStep == TSInv /\ [TSNext]_tsvars => TSInv'
<1> SUFFICES ASSUME TSInv, [TSNext]_tsvars PROVE TSInv'
  OBVIOUS
<1>1. CASE TSNext
  <2>1. TSTypes /\ SentInv /\ AckInv
    BY DEF TSInv
  <2>2. /\ SentInv' /\ tosend' \in Seq(Nat) /\ retry' \in Nat
        /\ queuedT' \in 0 .. MaxTelegram /\ writes' \in [1 .. MaxTelegram -> Nat]
        /\ waitconfirm' \in BOOLEAN
    BY <1>1, <2>1, SentStep
  <2>3. AckInv' /\ FrameTypes'
    BY <1>1, <2>1, AckStep
  <2> QED
    BY <2>2, <2>3 DEF TSInv, TSTypes, FrameTypes
<1>2. CASE UNCHANGED tsvars
  <2>1. /\ UNCHANGED <<tosend, retry, to, waitconfirm, acked, in, line, at>>
        /\ UNCHANGED <<chip, queuedT, writes, busAcks>>
    BY <1>2 DEF tsvars
  <2> QED
    BY <2>1 DEF TSInv, TSTypes, SentInv, AckInv
<1> QED
  BY <1>1, <1>2

(* Whatever the chip answers, loses or cuts off, a telegram leaves the     *)
(* queue only after it was written, it is written at most as often as the  *)
(* larger of the two limits, and a frame is acknowledged at most once.     *)
THEOREM TelegramsKept == DriversSpec => []TelegramsAccounted
<1>1. DriversInit => TSInv
  BY TelegramInit DEF DriversInit, Create
<1>2. TSInv /\ [DriversNext]_dvars => TSInv'
  <2>1. [DriversNext]_dvars => [TSNext]_tsvars
    BY DEF DriversNext, dvars, FT12Only, TPUARTOnly, EMIOnly
  <2> QED
    BY <2>1, TelegramStep
<1>3. TSInv => TelegramsAccounted
  <2> SUFFICES ASSUME TSInv PROVE TelegramsAccounted
    OBVIOUS
  <2>1. TSTypes /\ SentInv /\ AckInv
    BY DEF TSInv
  <2>2. ASSUME NEW n \in 1 .. queuedT
        PROVE  /\ writes[n] <= Limit
               /\ (at # "stopped" /\ n <= queuedT - Len(tosend)) => writes[n] > 0
    <3>1. n \in 1 .. MaxTelegram
      BY <2>1, LimitFacts DEF TSTypes
    <3> QED
      BY <2>1, <3>1 DEF SentInv, Account, Limited
  <2>3. waitconfirm => (tosend # <<>> \/ at = "stopped")
    BY <2>1 DEF SentInv, Account
  <2>4. \A f \in 1 .. MaxFrame : busAcks[f] <= 1
    BY <2>1 DEF AckInv, Acks
  <2> QED
    BY <2>2, <2>3, <2>4 DEF TelegramsAccounted
<1> QED
  BY <1>1, <1>2, <1>3, PTL DEF DriversSpec
=============================================================================
