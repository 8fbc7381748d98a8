------------------------- MODULE EIBNetIPLinkProofs -------------------------
(***************************************************************************)
(* Theorems of EIBNetIPLink: the invariant of the tunnel, and that the     *)
(* table of channels agrees, telegrams keep their order in both directions *)
(* and an acknowledgement is earned, for every bound on the work, the      *)
(* faults and the repetitions.                                             *)
(*                                                                         *)
(* The invariant LinkInv is one of a client c, a server s, the datagrams n *)
(* to the server and m to the client, and the counts que, ind and chg of   *)
(* telegrams, indications and changes of mode.  Its parts are those of two *)
(* stop-and-wait links, one in each direction, over one channel that comes *)
(* and goes: which numbers may be under way (DataFits, AcksFit, from the   *)
(* sender's number x and the number y the receiver expects), which         *)
(* contents (UpContents, DownContents), and what an answer to a request    *)
(* for a channel finds (Connecting, Answered).  A turn is proved one block *)
(* of the loop after the other, each block a lemma LinkInv => LinkInv.     *)
(***************************************************************************)
EXTENDS EIBNetIPLink, NumberFacts, SequenceTheorems, TLAPS

(* The datagrams of the two directions.                                    *)
Channel == 1 .. MaxChannel
ToServer ==
  {ConnectRequest(b) : b \in BOOLEAN}
    \cup {ConnectionStateRequest(ch) : ch \in Channel}
    \cup {DisconnectRequest(ch) : ch \in Channel \cup {-1}}
    \cup {DisconnectResponse(ch, 0) : ch \in Channel}
    \cup {TunnelRequest(ch, x, d) : ch \in Channel, x \in Number, d \in Telegram \cup {Marker}}
    \cup {TunnelACK(ch, x, 0) : ch \in Channel, x \in Number}
ToClient ==
  {ConnectResponse(ch, 0) : ch \in Channel} \cup {ConnectResponse(0, ConnectError)}
    \cup {ConnectionStateResponse(ch, x) : ch \in Channel, x \in {0, UnknownChannel}}
    \cup {DisconnectRequest(ch) : ch \in Channel}
    \cup {DisconnectResponse(ch, x) : ch \in Channel \cup {-1}, x \in {0, NotConnectedRes}}
    \cup {TunnelRequest(ch, x, d) : ch \in Channel, x \in Number, d \in 0 .. MaxInd}
    \cup {TunnelACK(ch, x, y) : ch \in Channel, x \in Number, y \in {0, WrongType}}

(* The records of the client, of a channel, and of the server.             *)
Tunnels ==
  [mod : 0 .. 3, ch : {-1} \cup Channel, sno : Number, rno : Number,
   retry : 0 .. MaxRetry, beat : 0 .. MaxBeat, drop : Nat, data : BOOLEAN, support : BOOLEAN,
   want : BOOLEAN, monitorReq : BOOLEAN, q : Seq(Telegram \cup {Marker}), failed : BOOLEAN,
   up : Seq((-MaxTel) .. MaxInd), acked : SUBSET Telegram, dropped : SUBSET Telegram,
   to : BOOLEAN, t1 : BOOLEAN, sent : Seq(ToServer)]
Chan ==
  [ch : Channel, type : {0, 1}, state : 0 .. MaxSend, sno : Number, rno : Number,
   out : Seq(0 .. MaxInd), birth : Nat]
Servers ==
  [chans : Seq(Chan), count : Int, reg : BOOLEAN, l3 : Seq(Nat \X Telegram), births : Nat,
   sent : Seq(ToClient)]

(* The types of all of it; a connected client has a channel's number.      *)
Types(c, s, n, m) ==
  /\ c \in Tunnels /\ s \in Servers /\ n \in Seq(ToServer) /\ m \in Seq(ToClient)
  /\ c.mod # 0 => c.ch \in Channel

(* The table of channels: unique numbers, a queue behind an outstanding    *)
(* request, and a registration with its channel.                           *)
Table(s) ==
  /\ \A i, j \in DOMAIN s.chans : s.chans[i].ch = s.chans[j].ch => i = j
  /\ \A i \in DOMAIN s.chans : s.chans[i].state # 0 => s.chans[i].out # <<>>
  /\ s.reg => s.count = 1 /\ \E i \in DOMAIN s.chans : s.chans[i].type = 1

(* Requests with contents, acknowledgements, requests for a channel and    *)
(* their answers, among the datagrams under way.                           *)
IsData(p) == p.t = "tunreq"
IsAck(p) == p.t = "ack"
NoData(n) == \A i \in DOMAIN n : ~IsData(n[i]) /\ ~IsAck(n[i])
NoAcks(m) == \A i \in DOMAIN m : ~IsAck(m[i])
Asks(n) == {i \in DOMAIN n : n[i].t = "connreq"}
Answers(m) == {i \in DOMAIN m : m[i].t = "connres"}

(* While a channel is asked for, nothing else is under way for the client, *)
(* and there is one request or one answer.                                 *)
Connecting(mod, n, m) ==
  /\ Asks(n) # {} \/ Answers(m) # {} => mod = 0 /\ NoData(n) /\ NoAcks(m)
  /\ \A i, j \in Asks(n) : i = j
  /\ \A i, j \in Answers(m) : i = j
  /\ Asks(n) = {} \/ Answers(m) = {}

(* What the client has sent is for the channel it has or had last.         *)
Mine(ch, n) == \A i \in DOMAIN n : IsData(n[i]) \/ IsAck(n[i]) => n[i].ch = ch

(* The numbers of data and of acknowledgements under way on one link: x is *)
(* the number of the sender, y the one the receiver expects.  Data with    *)
(* the sender's number comes after data with the last one, and so do the   *)
(* acknowledgements.                                                       *)
DataFits(d, from, ch, x, y) ==
  /\ \A i \in DOMAIN d : i > from /\ IsData(d[i]) /\ d[i].ch = ch =>
       d[i].seq = x \/ (Succ(d[i].seq) = x /\ y = x)
  /\ \A i, j \in DOMAIN d :
       i > from /\ i < j /\ IsData(d[i]) /\ IsData(d[j]) /\ d[i].ch = ch /\ d[j].ch = ch /\ d[i].seq = x
         => d[j].seq = x
AcksFit(a, ch, x, y) ==
  /\ \A i \in DOMAIN a : IsAck(a[i]) /\ a[i].ch = ch =>
       Succ(a[i].seq) = x \/ (a[i].seq = x /\ y = Succ(x))
  /\ \A i, j \in DOMAIN a :
       i < j /\ IsAck(a[i]) /\ IsAck(a[j]) /\ a[i].ch = ch /\ a[j].ch = ch /\ a[i].seq = x
         => a[j].seq = x
Follows(x, y) == y = x \/ y = Succ(x)

(* The client's queue is sorted, and what is under way to the server or    *)
(* was given to its Layer3 comes before the queue, or is its head.         *)
Before(v, q, que) ==
  /\ v <= que
  /\ \A j \in DOMAIN q : q[j] # Marker => v < q[j] \/ (j = 1 /\ v = q[1])
Queue(q, que) ==
  /\ \A i \in DOMAIN q : q[i] <= que
  /\ \A i, j \in DOMAIN q : i < j /\ q[i] # Marker /\ q[j] # Marker => q[i] < q[j]
UpContents(q, l3, n, que, births) ==
  /\ Queue(q, que)
  /\ \A i \in DOMAIN n : IsData(n[i]) /\ n[i].cemi # Marker => Before(n[i].cemi, q, que)
  /\ \A i \in DOMAIN l3 : Before(l3[i][2], q, que) /\ l3[i][1] <= births

(* Layer3 has got telegrams in their order, one of them a second time only *)
(* through a later channel.                                                *)
Later(x, b, v) == x[2] < v \/ (x[2] = v /\ x[1] < b)
L3InOrder(l3) == \A i, j \in DOMAIN l3 : i < j => Later(l3[i], l3[j][1], l3[j][2])

(* Without changes of mode: the number the receiver has passed stands for  *)
(* the head of the queue, unless the telegram before it was dropped.       *)
FirstOf(q, que) == que - Len(q) + 1
DeliveredOf(l3) == {l3[i][2] : i \in DOMAIN l3}
Lost(t, dropped) == t - 1 \in dropped
Losses(q, l3, n, x, y, dropped, que) ==
  /\ y # x => FirstOf(q, que) \in DeliveredOf(l3) \/ Lost(FirstOf(q, que), dropped)
  /\ \A i \in DOMAIN n : IsData(n[i]) /\ n[i].seq = x =>
       n[i].cemi = FirstOf(q, que) \/ Lost(FirstOf(q, que), dropped)

(* The link up, y the number the server expects on the client's channel    *)
(* (or would, when it has lost that channel).                              *)
UpGoes(c, s, n, m, y, que, chg) ==
  /\ Follows(c.sno, y)
  /\ \A i \in DOMAIN s.chans : s.chans[i].ch = c.ch => s.chans[i].rno = y /\ s.chans[i].birth = s.births
  /\ DataFits(n, 0, c.ch, c.sno, y) /\ AcksFit(m, c.ch, c.sno, y)
  /\ y = c.sno =>
       /\ \A i \in DOMAIN s.l3 : c.q # <<>> /\ Head(c.q) # Marker => Later(s.l3[i], s.births, Head(c.q))
       /\ \A i \in DOMAIN n : IsData(n[i]) /\ n[i].seq = y /\ n[i].cemi # Marker =>
            \A j \in DOMAIN s.l3 : Later(s.l3[j], s.births, n[i].cemi)
  /\ chg = 0 => Losses(c.q, s.l3, n, c.sno, y, c.dropped, que)
UpLink(c, s, n, m, que, chg) ==
  (c.mod = 0 /\ NoData(n)) \/ \E y \in Number : UpGoes(c, s, n, m, y, que, chg)

(* What went up, is under way and is queued at the server, up to the last  *)
(* indication, in the order of the bus (0 is a confirmation).              *)
DownContents(up, chans, m, ind) ==
  /\ \A i \in DOMAIN up : up[i] <= ind
  /\ \A i, j \in DOMAIN up : i < j /\ up[i] > 0 /\ up[j] > 0 => up[i] < up[j]
  /\ \A i \in DOMAIN chans :
       LET out == chans[i].out IN
       /\ \A j \in DOMAIN out : out[j] <= ind
       /\ \A j, k \in DOMAIN out : j < k /\ out[j] # 0 /\ out[k] # 0 => out[j] < out[k]
  /\ \A i \in DOMAIN m : IsData(m[i]) => m[i].cemi <= ind

(* The link down on channel ch, for what is under way behind position from.*)
DownGoes(up, chans, n, m, from, ch, x, y) ==
  /\ Follows(x, y)
  /\ DataFits(m, from, ch, x, y) /\ AcksFit(n, ch, x, y)
  /\ \A i \in DOMAIN m : i > from /\ IsData(m[i]) /\ m[i].ch = ch /\ m[i].seq = y /\ m[i].cemi # 0 =>
       \A j \in DOMAIN up : up[j] < m[i].cemi
  /\ \A k \in DOMAIN chans : chans[k].ch = ch =>
       /\ chans[k].sno = x
       /\ \A j \in DOMAIN chans[k].out : chans[k].out[j] # 0 =>
            /\ \A i \in DOMAIN up :
                 up[i] < chans[k].out[j] \/ (j = 1 /\ up[i] = chans[k].out[1] /\ y = Succ(x))
            /\ \A i \in DOMAIN m : i > from /\ IsData(m[i]) /\ m[i].ch = ch =>
                 m[i].cemi < chans[k].out[j] \/ (j = 1 /\ m[i].cemi = chans[k].out[1])
DownLink(c, s, n, m) ==
  c.mod # 0 => \E x \in Number : DownGoes(c.up, s.chans, n, m, 0, c.ch, x, c.rno)

(* The client will find a fresh channel behind the answer under way.       *)
Answered(c, s, n, m) ==
  \A i \in Answers(m) : m[i].status = 0 =>
    /\ \A j \in DOMAIN s.l3 : s.l3[j][1] < s.births
    /\ \A k \in DOMAIN s.chans : s.chans[k].ch = m[i].ch => s.chans[k].rno = 0 /\ s.chans[k].birth = s.births
    /\ DownGoes(c.up, s.chans, n, m, i, m[i].ch, 0, 0)

(* The head of the queue is not a Marker while a request is outstanding,   *)
(* if the mode is not changed twice in a row.                              *)
OneMarker(q) == \A i, j \in DOMAIN q : q[i] = Marker /\ q[j] = Marker => i = j
Heads(mod, q, chg) ==
  ~Overlap \/ chg = 0 => OneMarker(q) /\ (mod = 2 => q # <<>> /\ Head(q) # Marker)

(* Without changes of mode there are no monitor channels, the queue holds  *)
(* the last telegrams, and what is acknowledged and not at Layer3 followed *)
(* a dropped telegram.                                                     *)
Undisturbed(c, s, n, que, chg) ==
  chg = 0 =>
    /\ ~c.want /\ \A i \in DOMAIN s.chans : s.chans[i].type = 0
    /\ \A i \in Asks(n) : ~n[i].mon
    /\ Len(c.q) <= que /\ \A i \in DOMAIN c.q : c.q[i] = que - Len(c.q) + i
    /\ c.acked \ DeliveredOf(s.l3) \subseteq {k + 1 : k \in c.dropped}

(* The invariant, and the invariant of the specification.                  *)
LinkInv(c, s, n, m, que, ind, chg) ==
  /\ Types(c, s, n, m) /\ Table(s)
  /\ Connecting(c.mod, n, m) /\ Mine(c.ch, n)
  /\ UpContents(c.q, s.l3, n, que, s.births) /\ L3InOrder(s.l3)
  /\ UpLink(c, s, n, m, que, chg)
  /\ DownContents(c.up, s.chans, m, ind) /\ DownLink(c, s, n, m)
  /\ Answered(c, s, n, m)
  /\ Heads(c.mod, c.q, chg) /\ Undisturbed(c, s, n, que, chg)
TunnelInv ==
  /\ queued \in Nat /\ queued <= MaxTel /\ indicated \in Nat /\ indicated <= MaxInd /\ changes \in Nat
  /\ LinkInv(tun, srv, toServer, toClient, queued, indicated, changes)

(* A sequence with one element more: its old elements and the new one.     *)
LEMMA Appended ==
  ASSUME NEW S, NEW s \in Seq(S), NEW x \in S
  PROVE  /\ Append(s, x) \in Seq(S) /\ Append(s, x) # <<>>
         /\ Len(Append(s, x)) = Len(s) + 1 /\ Len(s) \in Nat
         /\ \A i \in DOMAIN s : i \in DOMAIN Append(s, x) /\ Append(s, x)[i] = s[i] /\ i < Len(s) + 1
         /\ \A i \in DOMAIN Append(s, x) : i \in DOMAIN s \/ i = Len(s) + 1
         /\ Len(s) + 1 \in DOMAIN Append(s, x) /\ Append(s, x)[Len(s) + 1] = x
OBVIOUS

(* A sequence without its head: the elements move up by one.               *)
LEMMA Tailed ==
  ASSUME NEW S, NEW q \in Seq(S), q # <<>>
  PROVE  /\ Head(q) \in S /\ Head(q) = q[1] /\ 1 \in DOMAIN q
         /\ Tail(q) \in Seq(S) /\ Len(Tail(q)) = Len(q) - 1 /\ Len(q) \in Nat
         /\ \A i \in DOMAIN Tail(q) : i + 1 \in DOMAIN q /\ Tail(q)[i] = q[i + 1] /\ i + 1 # 1
         /\ \A i, j \in DOMAIN Tail(q) : i # j => i + 1 # j + 1
OBVIOUS

----------------------------------------------------------------------------
(* Numbers of requests.                                                    *)
LEMMA SuccFacts ==
  /\ \A x \in Number : Succ(x) \in Number /\ Succ(x) # x
  /\ \A x, y \in Number : Succ(x) = Succ(y) => x = y
  /\ 0 \in Number
<1>1. \A x \in Number : Succ(x) = IF x = NumMod - 1 THEN 0 ELSE x + 1
  <2> SUFFICES ASSUME NEW x \in Number PROVE Succ(x) = IF x = NumMod - 1 THEN 0 ELSE x + 1
    OBVIOUS
  <2>1. CASE x = NumMod - 1
    <3>1. NumMod % NumMod = 0
      BY NumModAssumption
    <3> QED
      BY <2>1, <3>1, NumModAssumption DEF Succ, Number
  <2>2. CASE x # NumMod - 1
    <3>1. x + 1 \in 0 .. NumMod - 1
      BY <2>2, NumModAssumption DEF Number
    <3>2. (x + 1) % NumMod = x + 1
      BY <3>1, NumModAssumption
    <3> QED
      BY <2>2, <3>2 DEF Succ
  <2> QED
    BY <2>1, <2>2
<1> QED
  BY <1>1, NumModAssumption DEF Number

(* What the packets are made of.                                           *)
LEMMA UpPackets ==
  ASSUME NEW p \in ToServer
  PROVE  /\ p.t \in {"connreq", "statereq", "discreq", "discres", "tunreq", "ack"}
         /\ p.t = "connreq" => p.mon \in BOOLEAN
         /\ p.t = "tunreq" => p.ch \in Channel /\ p.seq \in Number /\ p.cemi \in Telegram \cup {Marker}
         /\ p.t = "ack" => p.ch \in Channel /\ p.seq \in Number /\ p.status = 0
         /\ p.t = "statereq" => p.ch \in Channel
         /\ p.t = "discreq" => p.ch \in Channel \cup {-1}
BY DEF ToServer, ConnectRequest, ConnectionStateRequest, DisconnectRequest, DisconnectResponse,
       TunnelRequest, TunnelACK

(* A tunnel request of the client is a datagram to the server.             *)
LEMMA RequestsUp ==
  ASSUME NEW ch \in Channel, NEW x \in Number, NEW v \in Telegram \cup {Marker}
  PROVE  TunnelRequest(ch, x, v) \in ToServer
BY DEF ToServer

(* What the datagrams to the client carry.                                 *)
LEMMA DownPackets ==
  ASSUME NEW p \in ToClient
  PROVE  /\ p.t \in {"connres", "stateres", "discreq", "discres", "tunreq", "ack"}
         /\ p.t = "connres" => p.status \in {0, ConnectError} /\ (p.status = 0 => p.ch \in Channel)
         /\ p.t = "tunreq" => p.ch \in Channel /\ p.seq \in Number /\ p.cemi \in 0 .. MaxInd
         /\ p.t = "ack" => p.ch \in Channel /\ p.seq \in Number /\ p.status \in {0, WrongType}
BY DEF ToClient, ConnectResponse, ConnectionStateResponse, DisconnectRequest, DisconnectResponse,
       TunnelRequest, TunnelACK, ConnectError

----------------------------------------------------------------------------
(* Steps of the client, one block of its loop after the other.             *)
(* A block that changes only counters, or leaves the connection.           *)
LEMMA Calmer ==
  ASSUME NEW c, NEW s, NEW n, NEW m, NEW que, NEW ind, NEW chg,
         LinkInv(c, s, n, m, que, ind, chg),
         NEW d \in Tunnels,
         d.ch = c.ch, d.sno = c.sno, d.rno = c.rno, d.q = c.q, d.up = c.up,
         d.acked = c.acked, d.dropped = c.dropped, d.want => c.want,
         d.mod = 0 \/ (c.mod # 0 /\ (d.mod = 2 => c.mod = 2))
  PROVE  LinkInv(d, s, n, m, que, ind, chg)
<1> USE DEF LinkInv
<1>1. Types(d, s, n, m)
  BY DEF Types
<1>2. Connecting(d.mod, n, m)
  BY DEF Connecting
<1>3. UpLink(d, s, n, m, que, chg)
  <2>1. CASE c.mod = 0 /\ NoData(n)
    BY <2>1 DEF UpLink
  <2>2. CASE ~(c.mod = 0 /\ NoData(n))
    <3>1. PICK y \in Number : UpGoes(c, s, n, m, y, que, chg)
      BY <2>2 DEF UpLink
    <3>2. UpGoes(d, s, n, m, y, que, chg)
      BY <3>1 DEF UpGoes
    <3> QED
      BY <3>2 DEF UpLink
  <2> QED
    BY <2>1, <2>2
<1>4. DownLink(d, s, n, m)
  BY DEF DownLink
<1>5. Answered(d, s, n, m)
  BY DEF Answered
<1>6. Heads(d.mod, d.q, chg)
  BY DEF Heads
<1>7. Undisturbed(d, s, n, que, chg)
  BY DEF Undisturbed
<1> QED
  BY <1>1, <1>2, <1>3, <1>4, <1>5, <1>6, <1>7

(* The client sends what is neither a request for a channel nor data nor   *)
(* an acknowledgement: such a datagram says nothing of the two links.      *)
LEMMA SendsUp ==
  ASSUME NEW c, NEW s, NEW n, NEW m, NEW que, NEW ind, NEW chg,
         LinkInv(c, s, n, m, que, ind, chg),
         NEW p \in ToServer, p.t \in {"statereq", "discreq", "discres"}
  PROVE  LinkInv(c, s, Append(n, p), m, que, ind, chg)
<1> DEFINE k == Append(n, p)
<1> USE DEF LinkInv
<1>1. n \in Seq(ToServer)
  BY DEF Types
<1>2. /\ k \in Seq(ToServer)
      /\ \A i \in DOMAIN n : i \in DOMAIN k /\ k[i] = n[i]
      /\ \A i \in DOMAIN k : (i \in DOMAIN n /\ k[i] = n[i])
           \/ (~IsData(k[i]) /\ ~IsAck(k[i]) /\ k[i].t # "connreq")
  <2>1. k \in Seq(ToServer) /\ \A i \in DOMAIN n : i \in DOMAIN k /\ k[i] = n[i]
    BY <1>1, Appended
  <2>2. \A i \in DOMAIN k : i \in DOMAIN n \/ k[i] = p
    BY <1>1, Appended
  <2>3. ~IsData(p) /\ ~IsAck(p) /\ p.t # "connreq"
    BY DEF IsData, IsAck
  <2> QED
    BY <2>1, <2>2, <2>3
<1> HIDE DEF k
<1>3. Types(c, s, k, m)
  BY <1>2 DEF Types
<1>4. NoData(n) <=> NoData(k)
  BY <1>2 DEF NoData
<1>5. Asks(n) = Asks(k)
  BY <1>2 DEF Asks
<1>6. Connecting(c.mod, k, m)
  BY <1>4, <1>5 DEF Connecting
<1>7. Mine(c.ch, k)
  BY <1>2 DEF Mine
<1>8. UpContents(c.q, s.l3, k, que, s.births)
  BY <1>2 DEF UpContents
<1>9. UpLink(c, s, k, m, que, chg)
  <2>1. CASE c.mod = 0 /\ NoData(n)
    BY <2>1, <1>4 DEF UpLink
  <2>2. CASE ~(c.mod = 0 /\ NoData(n))
    <3>1. PICK y \in Number : UpGoes(c, s, n, m, y, que, chg)
      BY <2>2 DEF UpLink
    <3>2. DataFits(k, 0, c.ch, c.sno, y)
      BY <3>1, <1>2 DEF UpGoes, DataFits
    <3>3. Losses(c.q, s.l3, n, c.sno, y, c.dropped, que) => Losses(c.q, s.l3, k, c.sno, y, c.dropped, que)
      BY <1>2 DEF Losses
    <3>4. UpGoes(c, s, k, m, y, que, chg)
      BY <3>1, <3>2, <3>3, <1>2 DEF UpGoes
    <3> QED
      BY <3>4 DEF UpLink
  <2> QED
    BY <2>1, <2>2
<1>10. ASSUME NEW from, NEW ch, NEW x, NEW y, DownGoes(c.up, s.chans, n, m, from, ch, x, y)
       PROVE  DownGoes(c.up, s.chans, k, m, from, ch, x, y)
  <2>1. AcksFit(k, ch, x, y)
    BY <1>2, <1>10 DEF DownGoes, AcksFit
  <2> QED
    BY <2>1, <1>10 DEF DownGoes
<1>11. DownLink(c, s, k, m)
  BY <1>10 DEF DownLink
<1>12. Answered(c, s, k, m)
  BY <1>10 DEF Answered
<1>13. Undisturbed(c, s, k, que, chg)
  <2>1. \A i \in Asks(k) : i \in Asks(n) /\ k[i] = n[i]
    BY <1>2, <1>5 DEF Asks
  <2> QED
    BY <2>1 DEF Undisturbed
<1> QED
  BY <1>3, <1>6, <1>7, <1>8, <1>9, <1>11, <1>12, <1>13 DEF k

(* A datagram is lost, or taken: what is behind it moves up.               *)
LEMMA NextGoes ==
  ASSUME NEW m \in Seq(ToClient), m # <<>>, NEW up, NEW chans, NEW n,
         NEW from \in Nat, NEW ch, NEW x, NEW y,
         DownGoes(up, chans, n, m, from + 1, ch, x, y) \/ (from = 0 /\ DownGoes(up, chans, n, m, from, ch, x, y))
  PROVE  DownGoes(up, chans, n, Tail(m), from, ch, x, y)
<1> DEFINE k == Tail(m)
<1>1. /\ k \in Seq(ToClient)
      /\ \A i \in DOMAIN k : i \in Nat /\ i + 1 \in DOMAIN m /\ k[i] = m[i + 1]
      /\ \A i, j \in DOMAIN k : i < j => i + 1 < j + 1
  BY Tailed
<1> HIDE DEF k
<1>2. \A i \in DOMAIN k : i > from => i + 1 > from + 1 /\ i + 1 > from
  BY <1>1
<1>3. DataFits(k, from, ch, x, y)
  BY <1>1, <1>2 DEF DownGoes, DataFits
<1>4. \A i \in DOMAIN k : i > from /\ IsData(k[i]) /\ k[i].ch = ch /\ k[i].seq = y /\ k[i].cemi # 0 =>
         \A j \in DOMAIN up : up[j] < k[i].cemi
  BY <1>1, <1>2 DEF DownGoes
<1>5. \A l \in DOMAIN chans : chans[l].ch = ch =>
         \A j \in DOMAIN chans[l].out : chans[l].out[j] # 0 =>
           \A i \in DOMAIN k : i > from /\ IsData(k[i]) /\ k[i].ch = ch =>
               k[i].cemi < chans[l].out[j] \/ (j = 1 /\ k[i].cemi = chans[l].out[1])
  BY <1>1, <1>2 DEF DownGoes
<1>6. DownGoes(up, chans, n, k, from, ch, x, y)
  BY <1>3, <1>4, <1>5 DEF DownGoes
<1> QED
  BY <1>6 DEF k

(* The next datagram to the client is lost, or taken without a change of   *)
(* the client.                                                             *)
LEMMA NextDown ==
  ASSUME NEW c, NEW s, NEW n, NEW m, NEW que, NEW ind, NEW chg,
         LinkInv(c, s, n, m, que, ind, chg), m # <<>>
  PROVE  LinkInv(c, s, n, Tail(m), que, ind, chg)
<1> DEFINE k == Tail(m)
<1> USE DEF LinkInv
<1>1. m \in Seq(ToClient)
  BY DEF Types
<1>2. /\ k \in Seq(ToClient)
      /\ \A i \in DOMAIN k : i \in Nat /\ i + 1 \in DOMAIN m /\ k[i] = m[i + 1]
      /\ \A i, j \in DOMAIN k : i < j => i + 1 < j + 1
  BY <1>1, Tailed
<1> HIDE DEF k
<1>3. Types(c, s, n, k)
  BY <1>2 DEF Types
<1>4. NoAcks(m) => NoAcks(k)
  BY <1>2 DEF NoAcks
<1>5. \A i \in Answers(k) : i + 1 \in Answers(m) /\ i \in Nat
  BY <1>2 DEF Answers
<1>6. Connecting(c.mod, n, k)
  <2>1. \A i, j \in Answers(k) : i + 1 = j + 1 => i = j
    BY <1>5
  <2> QED
    BY <1>4, <1>5, <2>1 DEF Connecting
<1>7. UpLink(c, s, n, k, que, chg)
  <2>1. CASE c.mod = 0 /\ NoData(n)
    BY <2>1 DEF UpLink
  <2>2. CASE ~(c.mod = 0 /\ NoData(n))
    <3>1. PICK y \in Number : UpGoes(c, s, n, m, y, que, chg)
      BY <2>2 DEF UpLink
    <3>2. AcksFit(k, c.ch, c.sno, y)
      BY <3>1, <1>2 DEF UpGoes, AcksFit
    <3>4. UpGoes(c, s, n, k, y, que, chg)
      BY <3>1, <3>2 DEF UpGoes
    <3> QED
      BY <3>4 DEF UpLink
  <2> QED
    BY <2>1, <2>2
<1>8. DownContents(c.up, s.chans, k, ind)
  BY <1>2 DEF DownContents
<1>9. ASSUME NEW from \in Nat, NEW ch, NEW x, NEW y,
             DownGoes(c.up, s.chans, n, m, from + 1, ch, x, y) \/ (from = 0 /\ DownGoes(c.up, s.chans, n, m, from, ch, x, y))
      PROVE  DownGoes(c.up, s.chans, n, k, from, ch, x, y)
  BY <1>1, <1>9, NextGoes DEF k
<1>10. DownLink(c, s, n, k)
  BY <1>9 DEF DownLink
<1>11. Answered(c, s, n, k)
  <2> SUFFICES ASSUME NEW i \in Answers(k), k[i].status = 0
               PROVE  /\ \A j \in DOMAIN s.l3 : s.l3[j][1] < s.births
                      /\ \A l \in DOMAIN s.chans : s.chans[l].ch = k[i].ch => s.chans[l].rno = 0 /\ s.chans[l].birth = s.births
                      /\ DownGoes(c.up, s.chans, n, k, i, k[i].ch, 0, 0)
    BY DEF Answered
  <2>1. i + 1 \in Answers(m) /\ m[i + 1] = k[i] /\ i \in Nat
    BY <1>5, <1>2 DEF Answers
  <2> QED
    BY <2>1, <1>9 DEF Answered
<1> QED
  BY <1>3, <1>6, <1>7, <1>8, <1>10, <1>11 DEF k

(* The next datagram to the server is lost, or taken without a change of   *)
(* the server.                                                             *)
LEMMA NextUp ==
  ASSUME NEW c, NEW s, NEW n, NEW m, NEW que, NEW ind, NEW chg,
         LinkInv(c, s, n, m, que, ind, chg), n # <<>>
  PROVE  LinkInv(c, s, Tail(n), m, que, ind, chg)
<1> DEFINE k == Tail(n)
<1> USE DEF LinkInv
<1>1. n \in Seq(ToServer)
  BY DEF Types
<1>2. /\ k \in Seq(ToServer)
      /\ \A i \in DOMAIN k : i \in Nat /\ i + 1 \in DOMAIN n /\ k[i] = n[i + 1]
      /\ \A i, j \in DOMAIN k : i < j => i + 1 < j + 1
      /\ \A i \in DOMAIN k : i > 0 /\ i + 1 > 0
  BY <1>1, Tailed
<1> HIDE DEF k
<1>3. Types(c, s, k, m)
  BY <1>2 DEF Types
<1>4. NoData(n) => NoData(k)
  BY <1>2 DEF NoData
<1>5. \A i \in Asks(k) : i + 1 \in Asks(n) /\ i \in Nat /\ k[i] = n[i + 1]
  BY <1>2 DEF Asks
<1>6. Connecting(c.mod, k, m)
  <2>1. \A i, j \in Asks(k) : i + 1 = j + 1 => i = j
    BY <1>5
  <2> QED
    BY <1>4, <1>5, <2>1 DEF Connecting
<1>7. Mine(c.ch, k)
  BY <1>2 DEF Mine
<1>8. UpContents(c.q, s.l3, k, que, s.births)
  BY <1>2 DEF UpContents
<1>9. UpLink(c, s, k, m, que, chg)
  <2>1. CASE c.mod = 0 /\ NoData(n)
    BY <2>1, <1>4 DEF UpLink
  <2>2. CASE ~(c.mod = 0 /\ NoData(n))
    <3>1. PICK y \in Number : UpGoes(c, s, n, m, y, que, chg)
      BY <2>2 DEF UpLink
    <3>2. DataFits(k, 0, c.ch, c.sno, y)
      BY <3>1, <1>2 DEF UpGoes, DataFits
    <3>3. Losses(c.q, s.l3, n, c.sno, y, c.dropped, que) => Losses(c.q, s.l3, k, c.sno, y, c.dropped, que)
      BY <1>2 DEF Losses
    <3>4. UpGoes(c, s, k, m, y, que, chg)
      BY <3>1, <3>2, <3>3, <1>2 DEF UpGoes
    <3> QED
      BY <3>4 DEF UpLink
  <2> QED
    BY <2>1, <2>2
<1>10. ASSUME NEW from, NEW ch, NEW x, NEW y, DownGoes(c.up, s.chans, n, m, from, ch, x, y)
       PROVE  DownGoes(c.up, s.chans, k, m, from, ch, x, y)
  <2>1. AcksFit(k, ch, x, y)
    BY <1>2, <1>10 DEF DownGoes, AcksFit
  <2> QED
    BY <2>1, <1>10 DEF DownGoes
<1>11. DownLink(c, s, k, m)
  BY <1>10 DEF DownLink
<1>12. Answered(c, s, k, m)
  BY <1>10 DEF Answered
<1>13. Undisturbed(c, s, k, que, chg)
  BY <1>5 DEF Undisturbed
<1> QED
  BY <1>3, <1>6, <1>7, <1>8, <1>9, <1>11, <1>12, <1>13 DEF k

(* The server has answered: a new connection.                              *)
LEMMA Connects ==
  ASSUME NEW c, NEW s, NEW n, NEW m, NEW que \in Nat, NEW ind, NEW chg,
         LinkInv(c, s, n, m, que, ind, chg), m # <<>>,
         Head(m).t = "connres", Head(m).status = 0, c.mod = 0,
         NEW d \in Tunnels,
         d.mod = 1, d.ch = Head(m).ch, d.sno = 0, d.rno = 0, d.q = c.q, d.up = c.up,
         d.acked = c.acked, d.dropped = c.dropped, d.want = c.want
  PROVE  LinkInv(d, s, n, Tail(m), que, ind, chg)
<1> DEFINE k == Tail(m)
<1> DEFINE ch == Head(m).ch
<1>0. LinkInv(c, s, n, k, que, ind, chg)
  BY NextDown
<1>1. m \in Seq(ToClient) /\ c \in Tunnels /\ s \in Servers /\ n \in Seq(ToServer)
  BY DEF LinkInv, Types
<1>2. Head(m) = m[1] /\ 1 \in DOMAIN m /\ Head(m) \in ToClient /\ k \in Seq(ToClient)
      /\ \A i \in DOMAIN k : i \in Nat /\ i + 1 \in DOMAIN m /\ k[i] = m[i + 1] /\ i + 1 # 1
  BY <1>1, Tailed
<1>3. ch \in Channel
  BY <1>2, DownPackets
<1>4. 1 \in Answers(m)
  BY <1>2 DEF Answers
<1>5. NoData(n) /\ NoAcks(m) /\ Asks(n) = {} /\ \A i, j \in Answers(m) : i = j
  BY <1>4 DEF LinkInv, Connecting
<1>6. Answers(k) = {}
  <2>1. \A i \in Answers(k) : i + 1 \in Answers(m) /\ i + 1 # 1
    BY <1>2 DEF Answers
  <2> QED
    BY <2>1, <1>4, <1>5
<1>7. /\ \A j \in DOMAIN s.l3 : s.l3[j][1] < s.births
      /\ \A l \in DOMAIN s.chans : s.chans[l].ch = ch => s.chans[l].rno = 0 /\ s.chans[l].birth = s.births
      /\ DownGoes(c.up, s.chans, n, m, 1, ch, 0, 0)
  BY <1>4, <1>2 DEF LinkInv, Answered
<1>8. NoAcks(k)
  BY <1>2, <1>5 DEF NoAcks
<1> HIDE DEF k
<1>9. UpLink(d, s, n, k, que, chg)
  <2>1. Follows(0, 0)
    BY DEF Follows
  <2>2. DataFits(n, 0, ch, 0, 0)
    BY <1>5 DEF NoData, DataFits
  <2>3. AcksFit(k, ch, 0, 0)
    BY <1>8 DEF NoAcks, AcksFit
  <2>4. Losses(d.q, s.l3, n, 0, 0, d.dropped, que)
    BY <1>5 DEF NoData, Losses
  <2>5. ASSUME NEW i \in DOMAIN s.l3, d.q # <<>>, Head(d.q) # Marker
        PROVE  Later(s.l3[i], s.births, Head(d.q))
    <3>1. Before(s.l3[i][2], c.q, que)
      BY <1>0 DEF LinkInv, UpContents
    <3>2. c.q \in Seq(Telegram \cup {Marker})
      BY <1>1 DEF Tunnels
    <3>3. Head(c.q) = c.q[1] /\ 1 \in DOMAIN c.q
      BY <2>5, <3>2
    <3> QED
      BY <2>5, <3>1, <3>3, <1>7 DEF Before, Later
  <2>6. \A i \in DOMAIN n : ~IsData(n[i])
    BY <1>5 DEF NoData
  <2>7. UpGoes(d, s, n, k, 0, que, chg)
    BY <2>1, <2>2, <2>3, <2>4, <2>5, <2>6, <1>7 DEF UpGoes
  <2> QED
    BY <2>7, SuccFacts DEF UpLink
<1>10. DownLink(d, s, n, k)
  <2>1. DownGoes(d.up, s.chans, n, k, 0, ch, 0, 0)
    <3>1. DownGoes(c.up, s.chans, n, m, 0 + 1, ch, 0, 0)
      BY <1>7
    <3> QED
      BY <3>1, <1>1, NextGoes DEF k
  <2> QED
    BY <2>1, SuccFacts DEF DownLink
<1>11. Types(d, s, n, k)
  BY <1>1, <1>2, <1>3 DEF Types
<1>12. Connecting(d.mod, n, k)
  BY <1>5, <1>6 DEF Connecting
<1>13. Mine(d.ch, n)
  BY <1>5 DEF NoData, Mine
<1>14. Answered(d, s, n, k)
  BY <1>6 DEF Answered
<1>15. Heads(d.mod, d.q, chg)
  BY <1>0 DEF LinkInv, Heads
<1>16. Undisturbed(d, s, n, que, chg)
  BY <1>0 DEF LinkInv, Undisturbed
<1> QED
  BY <1>0, <1>9, <1>10, <1>11, <1>12, <1>13, <1>14, <1>15, <1>16 DEF LinkInv, k

(* A request of the server is acknowledged.                                *)
LEMMA Acknowledges ==
  ASSUME NEW c, NEW s, NEW n, NEW m, NEW que, NEW ind, NEW chg,
         LinkInv(c, s, n, m, que, ind, chg), c.mod # 0,
         NEW z \in Number,
         NEW d \in Tunnels, d.mod # 0, d.mod = 2 => c.mod = 2,
         d.ch = c.ch, d.sno = c.sno, d.q = c.q,
         d.acked = c.acked, d.dropped = c.dropped, d.want = c.want,
         DownContents(d.up, s.chans, m, ind),
         NEW x \in Number,
         DownGoes(d.up, s.chans, Append(n, TunnelACK(c.ch, z, 0)), m, 0, c.ch, x, d.rno)
  PROVE  LinkInv(d, s, Append(n, TunnelACK(c.ch, z, 0)), m, que, ind, chg)
<1> DEFINE p == TunnelACK(c.ch, z, 0)
           k == Append(n, p)
<1>1. n \in Seq(ToServer) /\ c.ch \in Channel /\ p \in ToServer
  BY DEF LinkInv, Types, ToServer
<1>2. p.t = "ack" /\ p.ch = c.ch
  BY DEF TunnelACK
<1> HIDE DEF p
<1>3. k \in Seq(ToServer) /\ \A i \in DOMAIN n : i \in DOMAIN k /\ k[i] = n[i]
  BY <1>1, Appended
<1>4. \A i \in DOMAIN k : i \in DOMAIN n \/ k[i] = p
  BY <1>1, Appended
<1>5. \A i \in DOMAIN k : (i \in DOMAIN n /\ k[i] = n[i]) \/ (~IsData(k[i]) /\ k[i].t # "connreq" /\ k[i].ch = c.ch)
  BY <1>2, <1>3, <1>4 DEF IsData
<1>6. Asks(n) = {} /\ Answers(m) = {}
  BY DEF LinkInv, Connecting
<1>7. Asks(k) = {}
  BY <1>5, <1>6 DEF Asks
<1>8. Types(d, s, k, m)
  BY <1>1, <1>3 DEF LinkInv, Types
<1>9. Connecting(d.mod, k, m)
  BY <1>6, <1>7 DEF Connecting
<1>10. Mine(d.ch, k)
  BY <1>5 DEF LinkInv, Mine
<1>11. UpContents(d.q, s.l3, k, que, s.births)
  BY <1>5 DEF LinkInv, UpContents
<1>12. UpLink(d, s, k, m, que, chg)
  <2>1. PICK y \in Number : UpGoes(c, s, n, m, y, que, chg)
    BY DEF LinkInv, UpLink
  <2>2. DataFits(k, 0, c.ch, c.sno, y)
    BY <2>1, <1>5 DEF UpGoes, DataFits
  <2>3. Losses(c.q, s.l3, n, c.sno, y, c.dropped, que) => Losses(c.q, s.l3, k, c.sno, y, c.dropped, que)
    BY <1>5 DEF Losses
  <2>4. UpGoes(d, s, k, m, y, que, chg)
    BY <2>1, <2>2, <2>3, <1>5 DEF UpGoes
  <2> QED
    BY <2>4 DEF UpLink
<1>13. DownLink(d, s, k, m)
  BY DEF DownLink, k, p
<1>14. Answered(d, s, k, m)
  BY <1>6 DEF Answered
<1>15. Heads(d.mod, d.q, chg)
  BY DEF LinkInv, Heads
<1>16. Undisturbed(d, s, k, que, chg)
  BY <1>7 DEF LinkInv, Undisturbed
<1>17. LinkInv(d, s, k, m, que, ind, chg)
  BY <1>8, <1>9, <1>10, <1>11, <1>12, <1>13, <1>14, <1>15, <1>16 DEF LinkInv
<1> QED
  BY <1>17 DEF k, p

(* What the receiver knows of the request it has in hand.                  *)
LEMMA InHand ==
  ASSUME NEW P, NEW d \in Seq(P), d # <<>>, IsData(Head(d)), Head(d).seq \in Number,
         NEW ch, Head(d).ch = ch, NEW x \in Number, NEW y, Follows(x, y), DataFits(d, 0, ch, x, y)
  PROVE  /\ Succ(Head(d).seq) = y => Succ(Head(d).seq) = x \/ (Head(d).seq = x /\ y = Succ(x))
         /\ Head(d).seq = y => Head(d).seq = x /\ y = x /\ DataFits(Tail(d), 0, ch, x, Succ(x))
<1> DEFINE p == Head(d)
           k == Tail(d)
<1>1. p = d[1] /\ 1 \in DOMAIN d /\ k \in Seq(P)
      /\ \A i \in DOMAIN k : i \in Nat /\ i > 0 /\ 1 < i + 1 /\ i + 1 \in DOMAIN d /\ k[i] = d[i + 1]
  BY Tailed
<1>2. p.seq = x \/ (Succ(p.seq) = x /\ y = x)
  BY <1>1 DEF DataFits
<1>3. y \in Number /\ Succ(x) # x /\ Succ(p.seq) # p.seq
  BY SuccFacts DEF Follows
<1>4. ASSUME Succ(p.seq) = y PROVE Succ(p.seq) = x \/ (p.seq = x /\ y = Succ(x))
  BY <1>2, <1>4 DEF Follows
<1>5. ASSUME p.seq = y PROVE p.seq = x /\ y = x /\ DataFits(k, 0, ch, x, Succ(x))
  <2>1. p.seq = x /\ y = x
    BY <1>2, <1>3, <1>5
  <2>2. \A i \in DOMAIN k : IsData(k[i]) /\ k[i].ch = ch => k[i].seq = x
    BY <1>1, <2>1 DEF DataFits
  <2> QED
    BY <2>1, <2>2 DEF DataFits
<1> HIDE DEF k
<1> QED
  BY <1>4, <1>5 DEF k

(* An acknowledgement of what the receiver has got.                        *)
LEMMA AckSent ==
  ASSUME NEW P, NEW a \in Seq(P), NEW ch, NEW x \in Number, NEW y, NEW z, NEW w,
         AcksFit(a, ch, x, y), Follows(x, y), NEW p \in P, IsAck(p), p.ch = ch, p.seq = z, z \in Number,
         (w = y /\ Succ(z) = y) \/ (y = x /\ z = x /\ w = Succ(x))
  PROVE  AcksFit(Append(a, p), ch, x, w)
<1> DEFINE k == Append(a, p)
<1>1. \A i \in DOMAIN a : i \in DOMAIN k /\ k[i] = a[i]
  BY Appended
<1>2. \A i \in DOMAIN k : i \in DOMAIN a \/ k[i] = p
  BY Appended
<1>3. \A i, j \in DOMAIN k : i < j => i \in DOMAIN a
  BY Appended
<1> HIDE DEF k
<1>4. Succ(x) # x /\ (Succ(z) = Succ(x) => z = x)
  BY SuccFacts
<1>5. Succ(z) = x \/ (z = x /\ w = Succ(x))
  BY <1>4 DEF Follows
<1>6. \A i \in DOMAIN a : IsAck(a[i]) /\ a[i].ch = ch /\ a[i].seq = x => y = Succ(x) /\ z = x
  <2> SUFFICES ASSUME NEW i \in DOMAIN a, IsAck(a[i]), a[i].ch = ch, a[i].seq = x
               PROVE  y = Succ(x) /\ z = x
    OBVIOUS
  <2>1. y = Succ(x)
    BY <1>4 DEF AcksFit
  <2> QED
    BY <2>1, <1>4
<1>7. \A i \in DOMAIN a : IsAck(a[i]) /\ a[i].ch = ch => Succ(a[i].seq) = x \/ (a[i].seq = x /\ w = Succ(x))
  BY <1>6, <1>4 DEF AcksFit
<1>8. AcksFit(k, ch, x, w)
  <2>1. \A i \in DOMAIN k : IsAck(k[i]) /\ k[i].ch = ch => Succ(k[i].seq) = x \/ (k[i].seq = x /\ w = Succ(x))
    BY <1>1, <1>2, <1>5, <1>7
  <2>2. ASSUME NEW i \in DOMAIN k, NEW j \in DOMAIN k, i < j, IsAck(k[i]), IsAck(k[j]), k[i].ch = ch, k[j].ch = ch, k[i].seq = x
        PROVE  k[j].seq = x
    <3>1. i \in DOMAIN a /\ k[i] = a[i]
      BY <1>1, <1>3, <2>2
    <3>2. CASE j \in DOMAIN a
      BY <3>1, <3>2, <1>1, <2>2 DEF AcksFit
    <3>3. CASE k[j] = p
      BY <3>1, <3>3, <1>6, <2>2
    <3> QED
      BY <3>2, <3>3, <1>2, <2>2
  <2> QED
    BY <2>1, <2>2 DEF AcksFit
<1> QED
  BY <1>8 DEF k

(* A repeated request of the server is acknowledged again (the case        *)
(* req.seqno + 1 == rno).                                                  *)
LEMMA Repeats ==
  ASSUME NEW c, NEW s, NEW n, NEW m, NEW que, NEW ind, NEW chg,
         LinkInv(c, s, n, m, que, ind, chg), c.mod # 0, m # <<>>,
         IsData(Head(m)), Head(m).ch = c.ch, Succ(Head(m).seq) = c.rno
  PROVE  LinkInv(c, s, Append(n, TunnelACK(c.ch, Head(m).seq, 0)), Tail(m), que, ind, chg)
<1> DEFINE p == TunnelACK(c.ch, Head(m).seq, 0)
           k == Tail(m)
<1>1. m \in Seq(ToClient) /\ c \in Tunnels /\ n \in Seq(ToServer) /\ c.ch \in Channel
  BY DEF LinkInv, Types
<1>2. Head(m).seq \in Number
  BY <1>1, Tailed, DownPackets DEF IsData
<1>3. p \in ToServer /\ IsAck(p) /\ p.ch = c.ch /\ p.seq = Head(m).seq
  BY <1>1, <1>2 DEF ToServer, TunnelACK, IsAck
<1>4. PICK x \in Number : DownGoes(c.up, s.chans, n, m, 0, c.ch, x, c.rno)
  BY DEF LinkInv, DownLink
<1>5. DownGoes(c.up, s.chans, n, k, 0, c.ch, x, c.rno)
  BY <1>1, <1>4, NextGoes
<1>6. LinkInv(c, s, n, k, que, ind, chg)
  BY NextDown
<1> HIDE DEF p, k
<1>7. AcksFit(Append(n, p), c.ch, x, c.rno)
  BY <1>1, <1>2, <1>3, <1>5, AckSent DEF DownGoes
<1>8. DownGoes(c.up, s.chans, Append(n, p), k, 0, c.ch, x, c.rno)
  BY <1>5, <1>7 DEF DownGoes
<1>9. DownContents(c.up, s.chans, k, ind)
  BY <1>6 DEF LinkInv
<1> QED
  BY <1>1, <1>2, <1>6, <1>8, <1>9, Acknowledges DEF p, k

(* A new request of the server is acknowledged; an indication goes up, a   *)
(* confirmation does not. d is the client after it, whatever else it       *)
(* changed.                                                                *)
LEMMA Accepts ==
  ASSUME NEW c, NEW s, NEW n, NEW m, NEW que, NEW ind \in Nat, NEW chg,
         LinkInv(c, s, n, m, que, ind, chg), c.mod # 0, m # <<>>,
         IsData(Head(m)), Head(m).ch = c.ch, Head(m).seq = c.rno,
         NEW d \in Tunnels, d.mod # 0, d.mod = 2 => c.mod = 2,
         d.ch = c.ch, d.sno = c.sno, d.rno = Succ(c.rno), d.q = c.q,
         d.acked = c.acked, d.dropped = c.dropped, d.want = c.want,
         (Head(m).cemi = Confirmation /\ d.up = c.up)
           \/ (Head(m).cemi # Confirmation /\ d.up = Append(c.up, Head(m).cemi))
  PROVE  LinkInv(d, s, Append(n, TunnelACK(c.ch, Head(m).seq, 0)), Tail(m), que, ind, chg)
<1> DEFINE p == TunnelACK(c.ch, Head(m).seq, 0)
           k == Tail(m)
           v == Head(m).cemi
<1>1. m \in Seq(ToClient) /\ c \in Tunnels /\ s \in Servers /\ n \in Seq(ToServer) /\ c.ch \in Channel
  BY DEF LinkInv, Types
<1>2. Head(m).seq \in Number /\ v \in 0 .. MaxInd /\ Head(m) = m[1] /\ 1 \in DOMAIN m
  BY <1>1, Tailed, DownPackets DEF IsData
<1>3. p \in ToServer /\ IsAck(p) /\ p.ch = c.ch /\ p.seq = Head(m).seq
  BY <1>1, <1>2 DEF ToServer, TunnelACK, IsAck
<1>4. PICK x \in Number : DownGoes(c.up, s.chans, n, m, 0, c.ch, x, c.rno)
  BY DEF LinkInv, DownLink
<1>5. DownGoes(c.up, s.chans, n, k, 0, c.ch, x, c.rno)
  BY <1>1, <1>4, NextGoes
<1>6. LinkInv(c, s, n, k, que, ind, chg)
  BY NextDown
<1>7. Head(m).seq = x /\ c.rno = x /\ DataFits(k, 0, c.ch, x, Succ(x))
  BY <1>1, <1>2, <1>4, InHand DEF DownGoes
<1>8. /\ v # 0 => \A j \in DOMAIN c.up : c.up[j] < v
      /\ \A l \in DOMAIN s.chans : s.chans[l].ch = c.ch =>
           \A j \in DOMAIN s.chans[l].out : s.chans[l].out[j] # 0 =>
             v < s.chans[l].out[j] \/ (j = 1 /\ v = s.chans[l].out[1])
  BY <1>2, <1>4 DEF DownGoes
<1>9. v <= ind
  BY <1>2 DEF LinkInv, DownContents
<1>10. c.up \in Seq((-MaxTel) .. MaxInd)
  BY <1>1 DEF Tunnels
<1>11. /\ \A i \in DOMAIN d.up : (i \in DOMAIN c.up /\ d.up[i] = c.up[i]) \/ (v # 0 /\ d.up[i] = v)
       /\ \A i, j \in DOMAIN d.up : i < j => i \in DOMAIN c.up /\ d.up[i] = c.up[i]
  <2>1. CASE v = 0
    BY <2>1, <1>10 DEF Confirmation
  <2>2. CASE v # 0
    <3>1. v \in (-MaxTel) .. MaxInd
      BY <1>2, LinkAssumption
    <3>2. d.up = Append(c.up, v)
      BY <2>2 DEF Confirmation
    <3>3. \A i \in DOMAIN c.up : i \in DOMAIN d.up /\ d.up[i] = c.up[i]
      BY <3>1, <3>2, <1>10, Appended
    <3>4. \A i \in DOMAIN d.up : i \in DOMAIN c.up \/ d.up[i] = v
      BY <3>1, <3>2, <1>10, Appended
    <3>5. \A i, j \in DOMAIN d.up : i < j => i \in DOMAIN c.up
      BY <3>1, <3>2, <1>10, Appended
    <3> QED
      BY <3>3, <3>4, <3>5, <2>2
  <2> QED
    BY <2>1, <2>2
<1> HIDE DEF p, k
<1>12. AcksFit(Append(n, p), c.ch, x, Succ(x))
  BY <1>1, <1>2, <1>3, <1>5, <1>7, AckSent DEF DownGoes
<1>13. DownContents(d.up, s.chans, k, ind)
  BY <1>6, <1>8, <1>9, <1>11 DEF LinkInv, DownContents
<1>14. DownGoes(d.up, s.chans, Append(n, p), k, 0, c.ch, x, d.rno)
  <2>1. Follows(x, d.rno) /\ d.rno = Succ(x)
    BY <1>7 DEF Follows
  <2>2. \A i \in DOMAIN k : i > 0 /\ IsData(k[i]) /\ k[i].ch = c.ch => k[i].seq # Succ(x)
    BY <1>7, SuccFacts DEF DataFits
  <2>3. ASSUME NEW l \in DOMAIN s.chans, s.chans[l].ch = c.ch
        PROVE  /\ s.chans[l].sno = x
               /\ \A j \in DOMAIN s.chans[l].out : s.chans[l].out[j] # 0 =>
                    /\ \A i \in DOMAIN d.up :
                         d.up[i] < s.chans[l].out[j] \/ (j = 1 /\ d.up[i] = s.chans[l].out[1] /\ d.rno = Succ(x))
                    /\ \A i \in DOMAIN k : i > 0 /\ IsData(k[i]) /\ k[i].ch = c.ch =>
                         k[i].cemi < s.chans[l].out[j] \/ (j = 1 /\ k[i].cemi = s.chans[l].out[1])
    BY <1>5, <1>8, <1>11, <2>1, <2>3 DEF DownGoes
  <2> QED
    BY <2>1, <2>2, <2>3, <1>7, <1>12 DEF DownGoes
<1> QED
  BY <1>1, <1>2, <1>6, <1>13, <1>14, Acknowledges DEF p, k

(* The head of the client's queue is taken.                                *)
LEMMA Shorter ==
  ASSUME NEW q \in Seq(Telegram \cup {Marker}), q # <<>>, NEW l3, NEW n, NEW que \in Nat, NEW births,
         UpContents(q, l3, n, que, births)
  PROVE  /\ UpContents(Tail(q), l3, n, que, births)
         /\ \A i \in DOMAIN l3 : Tail(q) # <<>> /\ Head(Tail(q)) # Marker => l3[i][2] < Head(Tail(q))
         /\ OneMarker(q) => OneMarker(Tail(q))
         /\ OneMarker(q) /\ Head(q) = Marker /\ Tail(q) # <<>> => Head(Tail(q)) # Marker
         /\ Len(q) <= que /\ (\A i \in DOMAIN q : q[i] = que - Len(q) + i) =>
              /\ Len(Tail(q)) <= que /\ \A i \in DOMAIN Tail(q) : Tail(q)[i] = que - Len(Tail(q)) + i
              /\ Head(q) # Marker /\ Head(q) = FirstOf(q, que) /\ FirstOf(Tail(q), que) = Head(q) + 1
<1> DEFINE k == Tail(q)
<1>1. /\ k \in Seq(Telegram \cup {Marker}) /\ Len(k) = Len(q) - 1 /\ Len(q) \in Nat /\ Len(k) \in Nat
      /\ \A i \in DOMAIN k : i \in Nat /\ i + 1 \in DOMAIN q /\ k[i] = q[i + 1] /\ i + 1 # 1
      /\ Head(q) = q[1] /\ 1 \in DOMAIN q
  BY Tailed
<1>2. k # <<>> => Head(k) = k[1] /\ 1 \in DOMAIN k
  BY <1>1
<1> HIDE DEF k
<1>3. ASSUME NEW v, Before(v, q, que) PROVE Before(v, k, que) /\ \A i \in DOMAIN k : k[i] # Marker => v < k[i]
  BY <1>1, <1>3 DEF Before
<1>4. UpContents(k, l3, n, que, births)
  <2>1. Queue(k, que)
    <3>1. \A i \in DOMAIN k : k[i] <= que
      BY <1>1 DEF UpContents, Queue
    <3>2. \A i, j \in DOMAIN k : i < j => i + 1 < j + 1
      BY <1>1
    <3>3. \A i, j \in DOMAIN k : i < j /\ k[i] # Marker /\ k[j] # Marker => k[i] < k[j]
      BY <1>1, <3>2 DEF UpContents, Queue
    <3> QED
      BY <3>1, <3>3 DEF Queue
  <2> QED
    BY <2>1, <1>3 DEF UpContents
<1>5. \A i \in DOMAIN l3 : k # <<>> /\ Head(k) # Marker => l3[i][2] < Head(k)
  BY <1>2, <1>3 DEF UpContents
<1>6. OneMarker(q) => OneMarker(k)
  <2>1. \A i, j \in DOMAIN k : i + 1 = j + 1 => i = j
    BY <1>1
  <2> QED
    BY <1>1, <2>1 DEF OneMarker
<1>7. OneMarker(q) /\ Head(q) = Marker /\ k # <<>> => Head(k) # Marker
  BY <1>1, <1>2 DEF OneMarker
<1>8. Len(q) <= que /\ (\A i \in DOMAIN q : q[i] = que - Len(q) + i) =>
        /\ Len(k) <= que /\ \A i \in DOMAIN k : k[i] = que - Len(k) + i
        /\ Head(q) # Marker /\ Head(q) = FirstOf(q, que) /\ FirstOf(k, que) = Head(q) + 1
  <2> SUFFICES ASSUME Len(q) <= que, \A i \in DOMAIN q : q[i] = que - Len(q) + i
               PROVE  /\ Len(k) <= que /\ \A i \in DOMAIN k : k[i] = que - Len(k) + i
                      /\ Head(q) # Marker /\ Head(q) = FirstOf(q, que) /\ FirstOf(k, que) = Head(q) + 1
    OBVIOUS
  <2>1. Head(q) = que - Len(q) + 1
    BY <1>1
  <2>2. \A i \in DOMAIN k : k[i] = que - Len(q) + (i + 1)
    BY <1>1
  <2>3. \A i \in DOMAIN k : que - Len(q) + (i + 1) = que - Len(k) + i
    BY <1>1
  <2>4. Head(q) > 0 /\ Len(k) <= que
    BY <2>1, <1>1
  <2> QED
    BY <2>1, <2>2, <2>3, <2>4, <1>1 DEF FirstOf, Marker
<1> QED
  BY <1>4, <1>5, <1>6, <1>7, <1>8 DEF k

(* A telegram, or a change of mode, leaves the queue in whatever way.      *)
LEMMA Leaves ==
  ASSUME NEW c, NEW s, NEW n, NEW m, NEW que \in Nat, NEW ind, NEW chg,
         LinkInv(c, s, n, m, que, ind, chg), c.q # <<>>, c.mod = 0 \/ c.mod # 2 \/ chg # 0 \/ Head(c.q) # Marker,
         NEW d \in Tunnels, d.q = Tail(c.q),
         d.ch = c.ch, d.rno = c.rno, d.up = c.up, d.want = c.want,
         d.mod = 0 <=> c.mod = 0, d.mod # 2 \/ (d.mod = c.mod /\ Head(c.q) = Marker),
         d.acked \ c.acked \subseteq {Head(c.q)},
         c.dropped \subseteq d.dropped,
         Head(c.q) \in d.acked \ c.acked /\ chg = 0 => Head(c.q) \in DeliveredOf(s.l3) \/ Lost(Head(c.q), c.dropped),
         UpLink(d, s, n, m, que, chg)
  PROVE  LinkInv(d, s, n, m, que, ind, chg)
<1>1. c \in Tunnels /\ c.q \in Seq(Telegram \cup {Marker})
  BY DEF LinkInv, Types, Tunnels
<1>2. UpContents(c.q, s.l3, n, que, s.births)
  BY DEF LinkInv
<1>3. /\ UpContents(d.q, s.l3, n, que, s.births)
      /\ OneMarker(c.q) => OneMarker(d.q)
      /\ Len(c.q) <= que /\ (\A i \in DOMAIN c.q : c.q[i] = que - Len(c.q) + i) =>
           Len(d.q) <= que /\ \A i \in DOMAIN d.q : d.q[i] = que - Len(d.q) + i
      /\ Len(c.q) <= que /\ (\A i \in DOMAIN c.q : c.q[i] = que - Len(c.q) + i) => Head(c.q) # Marker
  BY <1>1, <1>2, Shorter
<1>4. Types(d, s, n, m)
  BY DEF LinkInv, Types
<1>5. Connecting(d.mod, n, m)
  BY DEF LinkInv, Connecting
<1>6. DownLink(d, s, n, m)
  BY DEF LinkInv, DownLink
<1>7. Answered(d, s, n, m)
  BY DEF LinkInv, Answered
<1>8. Heads(d.mod, d.q, chg)
  BY <1>3 DEF LinkInv, Heads
<1>9. Undisturbed(d, s, n, que, chg)
  <2> SUFFICES ASSUME chg = 0
               PROVE  /\ ~d.want /\ \A i \in DOMAIN s.chans : s.chans[i].type = 0
                      /\ \A i \in Asks(n) : ~n[i].mon
                      /\ Len(d.q) <= que /\ \A i \in DOMAIN d.q : d.q[i] = que - Len(d.q) + i
                      /\ d.acked \ DeliveredOf(s.l3) \subseteq {k + 1 : k \in d.dropped}
    BY DEF Undisturbed
  <2>1. /\ ~c.want /\ \A i \in DOMAIN s.chans : s.chans[i].type = 0
        /\ \A i \in Asks(n) : ~n[i].mon
        /\ Len(c.q) <= que /\ \A i \in DOMAIN c.q : c.q[i] = que - Len(c.q) + i
        /\ c.acked \ DeliveredOf(s.l3) \subseteq {k + 1 : k \in c.dropped}
    BY DEF LinkInv, Undisturbed
  <2>2. ASSUME NEW t \in d.acked \ DeliveredOf(s.l3) PROVE t \in {k + 1 : k \in d.dropped}
    <3>1. CASE t \in c.acked
      BY <2>1, <2>2, <3>1
    <3>2. CASE t \notin c.acked
      <4>1. t = Head(c.q) /\ t - 1 \in c.dropped
        BY <2>2, <3>2 DEF Lost
      <4>2. c.dropped \subseteq Nat /\ t \in Nat
        BY <1>1, <2>2, LinkAssumption DEF Tunnels, Telegram
      <4>3. t = (t - 1) + 1
        BY <4>2
      <4> QED
        BY <4>1, <4>3
    <3> QED
      BY <3>1, <3>2
  <2> QED
    BY <2>1, <2>2, <1>3
<1>10. /\ Mine(d.ch, n) /\ L3InOrder(s.l3) /\ Table(s) /\ DownContents(d.up, s.chans, m, ind)
  BY DEF LinkInv
<1> QED
  BY <1>3, <1>4, <1>5, <1>6, <1>7, <1>8, <1>9, <1>10 DEF LinkInv

(* The request that is outstanding is acknowledged: it is the head of the  *)
(* queue, and the server has it, whatever was under way before.            *)
LEMMA Acked ==
  ASSUME NEW c, NEW s, NEW n, NEW m, NEW que \in Nat, NEW ind, NEW chg,
         LinkInv(c, s, n, m, que, ind, chg), c.mod = 2, m # <<>>,
         IsAck(Head(m)), Head(m).ch = c.ch, Head(m).seq = c.sno,
         NEW d \in Tunnels, d.mod \in {1, 3},
         d.ch = c.ch, d.sno = Succ(c.sno), d.rno = c.rno, d.up = c.up, d.want = c.want,
         d.dropped = c.dropped,
         \/ c.q # <<>> /\ d.q = Tail(c.q) /\ d.acked \subseteq c.acked \cup {Head(c.q)}
         \/ c.q = <<>> /\ d.q = <<>> /\ d.acked = c.acked
  PROVE  LinkInv(d, s, n, Tail(m), que, ind, chg)
<1> DEFINE k == Tail(m)
           x == c.sno
<1>1. LinkInv(c, s, n, k, que, ind, chg)
  BY NextDown
<1>2. m \in Seq(ToClient) /\ c \in Tunnels /\ n \in Seq(ToServer) /\ x \in Number
      /\ c.q \in Seq(Telegram \cup {Marker})
  BY DEF LinkInv, Types, Tunnels
<1>3. PICK y \in Number : UpGoes(c, s, n, m, y, que, chg)
  BY DEF LinkInv, UpLink
<1>4. /\ 1 \in DOMAIN m /\ Head(m) = m[1]
      /\ \A i \in DOMAIN k : i + 1 \in DOMAIN m /\ k[i] = m[i + 1] /\ 1 < i + 1
  BY <1>2, Tailed
<1>5. Succ(x) # x /\ Succ(x) \in Number
  BY <1>2, SuccFacts
<1> HIDE DEF k
<1>6. y = Succ(x)
  BY <1>3, <1>4, <1>5 DEF UpGoes, AcksFit
<1>7. \A i \in DOMAIN k : IsAck(k[i]) /\ k[i].ch = c.ch => k[i].seq = x
  BY <1>3, <1>4 DEF UpGoes, AcksFit
<1>8. \A i \in DOMAIN n : IsData(n[i]) => n[i].ch = c.ch /\ n[i].seq = x
  <2>1. \A i \in DOMAIN n : i > 0
    BY <1>2
  <2> QED
    BY <1>3, <1>5, <1>6, <2>1 DEF UpGoes, DataFits, LinkInv, Mine
<1>9. UpContents(c.q, s.l3, n, que, s.births)
  BY DEF LinkInv
<1>10. UpGoes(d, s, n, k, Succ(x), que, chg)
  <2>1. DataFits(n, 0, d.ch, d.sno, Succ(x))
    BY <1>5, <1>8 DEF DataFits
  <2>2. AcksFit(k, d.ch, d.sno, Succ(x))
    BY <1>5, <1>7 DEF AcksFit
  <2>3. Follows(d.sno, Succ(x))
    BY DEF Follows
  <2>4. \A i \in DOMAIN s.l3 : d.q # <<>> /\ Head(d.q) # Marker => Later(s.l3[i], s.births, Head(d.q))
    <3>1. CASE c.q # <<>>
      <4>1. \A i \in DOMAIN s.l3 : d.q # <<>> /\ Head(d.q) # Marker => s.l3[i][2] < Head(d.q)
        BY <1>2, <1>9, <3>1, Shorter
      <4> QED
        BY <4>1 DEF Later
    <3> QED
      BY <3>1
  <2>5. Losses(d.q, s.l3, n, d.sno, Succ(x), d.dropped, que)
    BY <1>5, <1>8 DEF Losses
  <2> QED
    BY <2>1, <2>2, <2>3, <2>4, <2>5, <1>3, <1>5, <1>6, <1>8 DEF UpGoes
<1>11. UpLink(d, s, n, k, que, chg)
  BY <1>5, <1>10 DEF UpLink
<1>12. CASE c.q # <<>>
  <2>1. chg = 0 => Head(c.q) \in DeliveredOf(s.l3) \/ Lost(Head(c.q), c.dropped)
    <3> SUFFICES ASSUME chg = 0 PROVE Head(c.q) \in DeliveredOf(s.l3) \/ Lost(Head(c.q), c.dropped)
      OBVIOUS
    <3>1. Len(c.q) <= que /\ \A i \in DOMAIN c.q : c.q[i] = que - Len(c.q) + i
      BY DEF LinkInv, Undisturbed
    <3>2. Head(c.q) = FirstOf(c.q, que)
      BY <1>2, <1>9, <1>12, <3>1, Shorter
    <3> QED
      BY <3>2, <1>3, <1>5, <1>6 DEF UpGoes, Losses
  <2>2. chg = 0 => Head(c.q) # Marker
    BY DEF LinkInv, Heads
  <2>3. c.mod # 2 \/ chg # 0 \/ Head(c.q) # Marker
    BY <2>2
  <2>4. d.q = Tail(c.q) /\ d.acked \ c.acked \subseteq {Head(c.q)}
    BY <1>12
  <2>5. (d.mod = 0 <=> c.mod = 0) /\ d.mod # 2
    OBVIOUS
  <2>6. LinkInv(d, s, n, k, que, ind, chg)
    BY <1>1, <1>11, <1>12, <2>1, <2>3, <2>4, <2>5, Leaves
  <2> QED
    BY <2>6 DEF k
<1>13. CASE c.q = <<>>
  <2>1. chg # 0 /\ d.q = c.q
    BY <1>13 DEF LinkInv, Heads
  <2>2. Types(d, s, n, k) /\ Connecting(d.mod, n, k)
    BY <1>1 DEF LinkInv, Types, Connecting
  <2>3. DownLink(d, s, n, k) /\ Answered(d, s, n, k)
    BY <1>1 DEF LinkInv, DownLink, Answered
  <2>4. Heads(d.mod, d.q, chg) /\ Undisturbed(d, s, n, que, chg)
    BY <1>1, <2>1 DEF LinkInv, Heads, Undisturbed
  <2>5. LinkInv(d, s, n, k, que, ind, chg)
    BY <1>1, <1>11, <2>1, <2>2, <2>3, <2>4 DEF LinkInv
  <2> QED
    BY <2>5 DEF k
<1> QED
  BY <1>12, <1>13

(* The outstanding request is given up.  What the server has of it is then *)
(* taken for the next telegram, which gets the same number.                *)
LEMMA Dropped ==
  ASSUME NEW c, NEW s, NEW n, NEW m, NEW que \in Nat, NEW ind, NEW chg,
         LinkInv(c, s, n, m, que, ind, chg), c.q # <<>>,
         c.mod = 2 \/ Head(c.q) = Marker,
         NEW d \in Tunnels, d.q = Tail(c.q), (c.mod = 2 /\ d.mod = 1) \/ (d.mod = c.mod /\ Head(c.q) = Marker),
         d.ch = c.ch, d.sno = c.sno, d.rno = c.rno, d.up = c.up, d.want = c.want,
         d.acked = c.acked, d.dropped = c.dropped \cup ({Head(c.q)} \ {Marker})
  PROVE  LinkInv(d, s, n, m, que, ind, chg)
<1>1. c \in Tunnels /\ c.q \in Seq(Telegram \cup {Marker}) /\ c.sno \in Number
  BY DEF LinkInv, Types, Tunnels
<1>2. UpContents(c.q, s.l3, n, que, s.births)
  BY DEF LinkInv
<1>3. chg = 0 => Head(c.q) # Marker /\ FirstOf(d.q, que) = Head(c.q) + 1
  <2> SUFFICES ASSUME chg = 0 PROVE Head(c.q) # Marker /\ FirstOf(d.q, que) = Head(c.q) + 1
    OBVIOUS
  <2>1. Len(c.q) <= que /\ \A i \in DOMAIN c.q : c.q[i] = que - Len(c.q) + i
    BY DEF LinkInv, Undisturbed
  <2>2. Head(c.q) # Marker /\ FirstOf(Tail(c.q), que) = Head(c.q) + 1
    BY <1>1, <1>2, <2>1, Shorter
  <2> QED
    BY <2>2
<1>4. UpLink(d, s, n, m, que, chg)
  <2>1. CASE c.mod = 0 /\ NoData(n)
    BY <2>1 DEF UpLink
  <2>2. CASE ~(c.mod = 0 /\ NoData(n))
    <3>1. PICK y \in Number : UpGoes(c, s, n, m, y, que, chg)
      BY <2>2 DEF LinkInv, UpLink
    <3>2. \A i \in DOMAIN s.l3 : d.q # <<>> /\ Head(d.q) # Marker => Later(s.l3[i], s.births, Head(d.q))
      <4>1. \A i \in DOMAIN s.l3 : d.q # <<>> /\ Head(d.q) # Marker => s.l3[i][2] < Head(d.q)
        BY <1>1, <1>2, Shorter
      <4> QED
        BY <4>1 DEF Later
    <3>3. chg = 0 => Losses(d.q, s.l3, n, d.sno, y, d.dropped, que)
      <4> SUFFICES ASSUME chg = 0 PROVE Losses(d.q, s.l3, n, d.sno, y, d.dropped, que)
        OBVIOUS
      <4>1. Head(c.q) \in Telegram /\ Telegram \subseteq Int
        BY <1>1, <1>3 DEF Telegram
      <4>2. FirstOf(d.q, que) - 1 = Head(c.q)
        <5>1. \A t \in Int : (t + 1) - 1 = t
          OBVIOUS
        <5> QED
          BY <4>1, <1>3, <5>1
      <4>3. Lost(FirstOf(d.q, que), d.dropped)
        BY <4>2, <1>3 DEF Lost
      <4> QED
        BY <4>3 DEF Losses
    <3>4. UpGoes(d, s, n, m, y, que, chg)
      BY <3>1, <3>2, <3>3 DEF UpGoes
    <3> QED
      BY <3>4 DEF UpLink
  <2> QED
    BY <2>1, <2>2
<1>5. c.mod # 2 \/ chg # 0 \/ Head(c.q) # Marker
  BY <1>3
<1>6. d.acked \ c.acked = {} /\ c.dropped \subseteq d.dropped
  OBVIOUS
<1>7. (d.mod = 0 <=> c.mod = 0) /\ (d.mod # 2 \/ (d.mod = c.mod /\ Head(c.q) = Marker))
  OBVIOUS
<1> QED
  BY <1>4, <1>5, <1>6, <1>7, Leaves

(* The head of the queue is sent, under the number of the client.          *)
LEMMA SendsHead ==
  ASSUME NEW c, NEW s, NEW n, NEW m, NEW que \in Nat, NEW ind, NEW chg,
         LinkInv(c, s, n, m, que, ind, chg), c.q # <<>>, c.mod = 1,
         ~Overlap \/ chg = 0 => Head(c.q) # Marker,
         NEW d \in Tunnels, d.q = c.q, d.mod = 2,
         d.ch = c.ch, d.sno = c.sno, d.rno = c.rno, d.up = c.up, d.want = c.want,
         d.acked = c.acked, d.dropped = c.dropped
  PROVE  LinkInv(d, s, Append(n, TunnelRequest(c.ch, c.sno, Head(c.q))), m, que, ind, chg)
<1> DEFINE p == TunnelRequest(c.ch, c.sno, Head(c.q))
           k == Append(n, p)
<1>1. n \in Seq(ToServer) /\ c \in Tunnels /\ c.ch \in Channel /\ c.sno \in Number
      /\ c.q \in Seq(Telegram \cup {Marker}) /\ s \in Servers /\ m \in Seq(ToClient)
  BY DEF LinkInv, Types, Tunnels
<1>2. Head(c.q) \in Telegram \cup {Marker} /\ Head(c.q) = c.q[1] /\ 1 \in DOMAIN c.q
  BY <1>1
<1>3. p \in ToServer /\ p.t = "tunreq" /\ p.ch = c.ch /\ p.seq = c.sno /\ p.cemi = Head(c.q)
  <2>1. p.t = "tunreq" /\ p.ch = c.ch /\ p.seq = c.sno /\ p.cemi = Head(c.q)
    BY DEF TunnelRequest
  <2>2. p \in ToServer
    BY <1>1, <1>2, RequestsUp
  <2> QED
    BY <2>1, <2>2
<1> HIDE DEF p
<1>4. k \in Seq(ToServer) /\ \A i \in DOMAIN n : i \in DOMAIN k /\ k[i] = n[i]
  BY <1>1, <1>3, Appended
<1>5. \A i \in DOMAIN k : (i \in DOMAIN n /\ k[i] = n[i]) \/ k[i] = p
  BY <1>1, <1>3, Appended
<1>6. \A i, j \in DOMAIN k : i < j => i \in DOMAIN n
  BY <1>1, <1>3, Appended
<1>7. Asks(n) = {} /\ Answers(m) = {}
  BY DEF LinkInv, Connecting
<1> HIDE DEF k
<1>8. Asks(k) = {}
  BY <1>3, <1>5, <1>7 DEF Asks
<1>9. Types(d, s, k, m)
  BY <1>1, <1>4 DEF Types
<1>10. Connecting(d.mod, k, m)
  BY <1>7, <1>8 DEF Connecting
<1>11. Mine(d.ch, k)
  BY <1>3, <1>5 DEF LinkInv, Mine
<1>12. UpContents(d.q, s.l3, k, que, s.births)
  <2>1. UpContents(c.q, s.l3, n, que, s.births)
    BY DEF LinkInv
  <2>2. Head(c.q) # Marker => Before(Head(c.q), c.q, que)
    <3> SUFFICES ASSUME Head(c.q) # Marker PROVE Before(Head(c.q), c.q, que)
      OBVIOUS
    <3>1. \A j \in DOMAIN c.q : j = 1 \/ 1 < j
      BY <1>1
    <3>2. Head(c.q) <= que /\ \A j \in DOMAIN c.q : 1 < j /\ c.q[j] # Marker => Head(c.q) < c.q[j]
      BY <1>2, <2>1 DEF UpContents, Queue
    <3> QED
      BY <1>2, <3>1, <3>2 DEF Before
  <2> QED
    BY <1>3, <1>5, <2>1, <2>2 DEF UpContents
<1>13. UpLink(d, s, k, m, que, chg)
  <2>1. PICK y \in Number : UpGoes(c, s, n, m, y, que, chg)
    BY DEF LinkInv, UpLink
  <2>2. DataFits(k, 0, d.ch, d.sno, y)
    <3>1. DataFits(n, 0, c.ch, c.sno, y)
      BY <2>1 DEF UpGoes
    <3>2. \A i \in DOMAIN k : i > 0 /\ IsData(k[i]) /\ k[i].ch = c.ch =>
             k[i].seq = c.sno \/ (Succ(k[i].seq) = c.sno /\ y = c.sno)
      BY <3>1, <1>3, <1>5 DEF DataFits
    <3>3. \A i, j \in DOMAIN k :
             i > 0 /\ i < j /\ IsData(k[i]) /\ IsData(k[j]) /\ k[i].ch = c.ch /\ k[j].ch = c.ch /\ k[i].seq = c.sno
               => k[j].seq = c.sno
      BY <3>1, <1>3, <1>4, <1>5, <1>6 DEF DataFits
    <3> QED
      BY <3>2, <3>3 DEF DataFits
  <2>3. AcksFit(m, d.ch, d.sno, y)
    BY <2>1 DEF UpGoes
  <2>4. y = d.sno =>
          /\ \A i \in DOMAIN s.l3 : d.q # <<>> /\ Head(d.q) # Marker => Later(s.l3[i], s.births, Head(d.q))
          /\ \A i \in DOMAIN k : IsData(k[i]) /\ k[i].seq = y /\ k[i].cemi # Marker =>
               \A j \in DOMAIN s.l3 : Later(s.l3[j], s.births, k[i].cemi)
    BY <2>1, <1>3, <1>5 DEF UpGoes
  <2>5. chg = 0 => Losses(d.q, s.l3, k, d.sno, y, d.dropped, que)
    <3> SUFFICES ASSUME chg = 0 PROVE Losses(d.q, s.l3, k, d.sno, y, d.dropped, que)
      OBVIOUS
    <3>1. c.q[1] = que - Len(c.q) + 1
      BY <1>2 DEF LinkInv, Undisturbed
    <3>2. Head(c.q) = FirstOf(c.q, que)
      BY <3>1, <1>2 DEF FirstOf
    <3>3. Losses(c.q, s.l3, n, c.sno, y, c.dropped, que)
      BY <2>1 DEF UpGoes
    <3> QED
      BY <3>2, <3>3, <1>3, <1>5 DEF Losses
  <2>6. UpGoes(d, s, k, m, y, que, chg)
    BY <2>1, <2>2, <2>3, <2>4, <2>5 DEF UpGoes
  <2> QED
    BY <2>6 DEF UpLink
<1>14. DownLink(d, s, k, m)
  <2>1. PICK x \in Number : DownGoes(c.up, s.chans, n, m, 0, c.ch, x, c.rno)
    BY DEF LinkInv, DownLink
  <2>2. AcksFit(k, c.ch, x, c.rno)
    <3>1. ~IsAck(p)
      BY <1>3 DEF IsAck
    <3> QED
      BY <2>1, <3>1, <1>5 DEF DownGoes, AcksFit
  <2>3. DownGoes(d.up, s.chans, k, m, 0, d.ch, x, d.rno)
    BY <2>1, <2>2 DEF DownGoes
  <2> QED
    BY <2>3 DEF DownLink
<1>15. Answered(d, s, k, m)
  BY <1>7 DEF Answered
<1>16. Heads(d.mod, d.q, chg)
  BY DEF LinkInv, Heads
<1>17. Undisturbed(d, s, k, que, chg)
  BY <1>8 DEF LinkInv, Undisturbed
<1>18. LinkInv(d, s, k, m, que, ind, chg)
  BY <1>9, <1>10, <1>11, <1>12, <1>13, <1>14, <1>15, <1>16, <1>17 DEF LinkInv
<1> QED
  BY <1>18 DEF k, p

(* The client asks for a channel, when nothing is under way.               *)
LEMMA AsksAgain ==
  ASSUME NEW c, NEW s, NEW n, NEW m, NEW que, NEW ind, NEW chg,
         LinkInv(c, s, n, m, que, ind, chg), c.mod = 0, m = <<>>, NoData(n), Asks(n) = {},
         NEW b \in BOOLEAN, b => c.want
  PROVE  LinkInv(c, s, Append(n, ConnectRequest(b)), m, que, ind, chg)
<1> DEFINE p == ConnectRequest(b)
           k == Append(n, p)
<1>1. n \in Seq(ToServer) /\ m \in Seq(ToClient)
  BY DEF LinkInv, Types
<1>2. p \in ToServer /\ p.t = "connreq" /\ p.mon = b
  BY DEF ToServer, ConnectRequest
<1> HIDE DEF p
<1>3. k \in Seq(ToServer) /\ Len(n) + 1 \in DOMAIN k /\ \A i \in DOMAIN n : i \in DOMAIN k /\ k[i] = n[i]
  BY <1>1, <1>2, Appended
<1>4. \A i \in DOMAIN k : (i \in DOMAIN n /\ k[i] = n[i]) \/ (i = Len(n) + 1 /\ k[i] = p)
  BY <1>1, <1>2, Appended
<1> HIDE DEF k
<1>5. \A i \in Asks(k) : i = Len(n) + 1 /\ k[i] = p
  BY <1>4 DEF Asks
<1>6. Answers(m) = {} /\ NoAcks(m)
  BY DEF Answers, NoAcks
<1>7. NoData(k)
  BY <1>2, <1>4 DEF NoData, IsData, IsAck
<1>8. Types(c, s, k, m)
  BY <1>3 DEF LinkInv, Types
<1>9. Connecting(c.mod, k, m)
  BY <1>5, <1>6, <1>7 DEF Connecting
<1>10. Mine(c.ch, k)
  BY <1>7 DEF NoData, Mine
<1>11. UpContents(c.q, s.l3, k, que, s.births)
  BY <1>7 DEF LinkInv, UpContents, NoData
<1>12. UpLink(c, s, k, m, que, chg) /\ DownLink(c, s, k, m)
  BY <1>7 DEF UpLink, DownLink
<1>13. Answered(c, s, k, m)
  BY <1>6 DEF Answered
<1>14. Undisturbed(c, s, k, que, chg)
  BY <1>2, <1>5 DEF LinkInv, Undisturbed
<1>15. LinkInv(c, s, k, m, que, ind, chg)
  BY <1>8, <1>9, <1>10, <1>11, <1>12, <1>13, <1>14 DEF LinkInv
<1> QED
  BY <1>15 DEF k, p

----------------------------------------------------------------------------
(* A turn of the client: its blocks, over what it has sent so far.         *)
Going(c, s, n, m, que, ind, chg) ==
  /\ LinkInv(c, s, n \o c.sent, m, que, ind, chg) /\ n \in Seq(ToServer)
  /\ c.t1 => m = <<>> /\ NoData(n \o c.sent) /\ Asks(n \o c.sent) = {}

Same(d, c) ==
  /\ d.ch = c.ch /\ d.sno = c.sno /\ d.rno = c.rno /\ d.q = c.q /\ d.up = c.up
  /\ d.acked = c.acked /\ d.dropped = c.dropped /\ d.want = c.want

(* Datagrams sent one after the other.                                     *)
LEMMA Concats ==
  ASSUME NEW S, NEW n \in Seq(S), NEW a \in Seq(S), NEW p \in S
  PROVE  /\ n \o a \in Seq(S) /\ n \o Append(a, p) = Append(n \o a, p)
         /\ n \o <<>> = n /\ <<>> \o n = n /\ <<>> \in Seq(S)
BY AppendProperties, ConcatProperties

(* A block of the client's turn that sends nothing and keeps what the      *)
(* links are about, as Calmer says it of the whole.                        *)
LEMMA GoesOn ==
  ASSUME NEW c, NEW s, NEW n, NEW m, NEW que, NEW ind, NEW chg,
         Going(c, s, n, m, que, ind, chg),
         NEW d \in Tunnels,
         Same(d, c),
         d.mod = 0 \/ (c.mod # 0 /\ (d.mod = 2 => c.mod = 2)),
         d.t1 => c.t1, d.sent = c.sent
  PROVE  Going(d, s, n, m, que, ind, chg)
<1>1. LinkInv(c, s, n \o c.sent, m, que, ind, chg)
  BY DEF Going
<1>2. LinkInv(d, s, n \o c.sent, m, que, ind, chg)
  BY <1>1, Calmer DEF Same
<1> QED
  BY <1>2 DEF Going

(* The same of a block that also sends a datagram that says nothing of the *)
(* links.                                                                  *)
LEMMA GoesOnSending ==
  ASSUME NEW c, NEW s, NEW n, NEW m, NEW que, NEW ind, NEW chg,
         Going(c, s, n, m, que, ind, chg),
         NEW p \in ToServer, p.t \in {"statereq", "discreq", "discres"},
         NEW d \in Tunnels,
         Same(d, c),
         d.mod = 0 \/ (c.mod # 0 /\ (d.mod = 2 => c.mod = 2)),
         d.t1 => c.t1, d.sent = Append(c.sent, p)
  PROVE  Going(d, s, n, m, que, ind, chg)
<1> DEFINE k == n \o c.sent
<1>1. LinkInv(c, s, k, m, que, ind, chg) /\ n \in Seq(ToServer) /\ c.sent \in Seq(ToServer)
  BY DEF Going, LinkInv, Types, Tunnels
<1>2. n \o d.sent = Append(k, p) /\ k \in Seq(ToServer)
  BY <1>1, Concats
<1> HIDE DEF k
<1>3. LinkInv(c, s, Append(k, p), m, que, ind, chg)
  BY <1>1, SendsUp
<1>4. LinkInv(d, s, Append(k, p), m, que, ind, chg)
  BY <1>3, Calmer DEF Same
<1>5. \A i \in DOMAIN Append(k, p) : (i \in DOMAIN k /\ Append(k, p)[i] = k[i]) \/ Append(k, p)[i] = p
  BY <1>2, Appended
<1>6. NoData(k) => NoData(Append(k, p))
  BY <1>5 DEF NoData, IsData, IsAck
<1>7. Asks(k) = {} => Asks(Append(k, p)) = {}
  BY <1>5 DEF Asks
<1>8. d.t1 => m = <<>> /\ NoData(k) /\ Asks(k) = {}
  BY DEF Going, k
<1> QED
  BY <1>1, <1>2, <1>4, <1>6, <1>7, <1>8 DEF Going

(* The fields of the client's record, one at a time.                       *)
LEMMA Updates ==
  ASSUME NEW c \in Tunnels
  PROVE  /\ [c EXCEPT !.mod = 0] \in Tunnels /\ [c EXCEPT !.mod = 1] \in Tunnels
         /\ [c EXCEPT !.mod = 2] \in Tunnels /\ [c EXCEPT !.mod = 3] \in Tunnels
         /\ [c EXCEPT !.beat = 0] \in Tunnels /\ [c EXCEPT !.retry = 0] \in Tunnels
         /\ [c EXCEPT !.sno = 0] \in Tunnels /\ [c EXCEPT !.rno = 0] \in Tunnels
         /\ \A x \in Channel : [c EXCEPT !.ch = x] \in Tunnels
         /\ \A x \in Number : [c EXCEPT !.sno = x] \in Tunnels
         /\ \A x \in Number : [c EXCEPT !.rno = x] \in Tunnels
         /\ \A x \in 0 .. MaxRetry : [c EXCEPT !.retry = x] \in Tunnels
         /\ \A x \in 0 .. MaxBeat : [c EXCEPT !.beat = x] \in Tunnels
         /\ \A x \in Nat : [c EXCEPT !.drop = x] \in Tunnels
         /\ \A x \in BOOLEAN : [c EXCEPT !.data = x] \in Tunnels
         /\ \A x \in BOOLEAN : [c EXCEPT !.monitorReq = x] \in Tunnels
         /\ \A x \in BOOLEAN : [c EXCEPT !.want = x] \in Tunnels
         /\ \A x \in BOOLEAN : [c EXCEPT !.failed = x] \in Tunnels
         /\ \A x \in BOOLEAN : [c EXCEPT !.to = x] \in Tunnels
         /\ \A x \in BOOLEAN : [c EXCEPT !.t1 = x] \in Tunnels
         /\ \A x \in Seq(Telegram \cup {Marker}) : [c EXCEPT !.q = x] \in Tunnels
         /\ \A x \in Seq((-MaxTel) .. MaxInd) : [c EXCEPT !.up = x] \in Tunnels
         /\ \A x \in SUBSET Telegram : [c EXCEPT !.acked = x] \in Tunnels
         /\ \A x \in SUBSET Telegram : [c EXCEPT !.dropped = x] \in Tunnels
         /\ \A x \in Seq(ToServer) : [c EXCEPT !.sent = x] \in Tunnels
<1>1. 0 \in 0 .. 3 /\ 1 \in 0 .. 3 /\ 2 \in 0 .. 3 /\ 3 \in 0 .. 3
  OBVIOUS
<1>2. 0 \in 0 .. MaxBeat /\ 0 \in 0 .. MaxRetry /\ 0 \in Number
  BY NumModAssumption, TunnelAssumption DEF Number
<1>3. /\ \A x \in 0 .. 3 : [c EXCEPT !.mod = x] \in Tunnels
      /\ \A x \in 0 .. MaxBeat : [c EXCEPT !.beat = x] \in Tunnels
      /\ \A x \in 0 .. MaxRetry : [c EXCEPT !.retry = x] \in Tunnels
      /\ \A x \in Number : [c EXCEPT !.sno = x] \in Tunnels
      /\ \A x \in Number : [c EXCEPT !.rno = x] \in Tunnels
  BY DEF Tunnels
<1>4. /\ \A x \in Channel : [c EXCEPT !.ch = x] \in Tunnels
      /\ \A x \in Nat : [c EXCEPT !.drop = x] \in Tunnels
      /\ \A x \in BOOLEAN : [c EXCEPT !.data = x] \in Tunnels
      /\ \A x \in BOOLEAN : [c EXCEPT !.monitorReq = x] \in Tunnels
      /\ \A x \in BOOLEAN : [c EXCEPT !.want = x] \in Tunnels
      /\ \A x \in BOOLEAN : [c EXCEPT !.failed = x] \in Tunnels
      /\ \A x \in BOOLEAN : [c EXCEPT !.to = x] \in Tunnels
      /\ \A x \in BOOLEAN : [c EXCEPT !.t1 = x] \in Tunnels
  BY DEF Tunnels
<1>5. /\ \A x \in Seq(Telegram \cup {Marker}) : [c EXCEPT !.q = x] \in Tunnels
      /\ \A x \in Seq((-MaxTel) .. MaxInd) : [c EXCEPT !.up = x] \in Tunnels
      /\ \A x \in SUBSET Telegram : [c EXCEPT !.acked = x] \in Tunnels
      /\ \A x \in SUBSET Telegram : [c EXCEPT !.dropped = x] \in Tunnels
      /\ \A x \in Seq(ToServer) : [c EXCEPT !.sent = x] \in Tunnels
  BY DEF Tunnels
<1> QED
  BY <1>1, <1>2, <1>3, <1>4, <1>5

(* Snd adds one datagram, and changes nothing else.                        *)
LEMMA Sendings ==
  ASSUME NEW c \in Tunnels, NEW p \in ToServer
  PROVE  /\ Snd(c, p) \in Tunnels /\ Same(Snd(c, p), c) /\ Snd(c, p).mod = c.mod
         /\ Snd(c, p).t1 = c.t1 /\ Snd(c, p).sent = Append(c.sent, p)
<1>1. Append(c.sent, p) \in Seq(ToServer)
  BY DEF Tunnels
<1>2. Snd(c, p) = [c EXCEPT !.sent = Append(c.sent, p)]
  BY DEF Snd, Tunnels
<1>3. Snd(c, p) \in Tunnels
  BY <1>1, <1>2, Updates
<1> QED
  BY <1>2, <1>3 DEF Same, Tunnels

(* Closing the connection leaves all but mod and the data endpoint.        *)
LEMMA Closings ==
  ASSUME NEW c \in Tunnels
  PROVE  /\ Closed(c) \in Tunnels /\ Same(Closed(c), c) /\ Closed(c).mod = 0
         /\ Closed(c).t1 = c.t1 /\ Closed(c).sent = c.sent
<1> DEFINE b == [c EXCEPT !.data = FALSE]
<1>1. b \in Tunnels
  BY Updates
<1>2. Closed(c) = [b EXCEPT !.mod = 0]
  BY DEF Closed, Tunnels
<1>3. Closed(c) \in Tunnels
  BY <1>1, <1>2, Updates
<1> QED
  BY <1>2, <1>3 DEF Same, Tunnels

(* The client disconnects: it says so to the server and is not connected.  *)
LEMMA Disconnects ==
  ASSUME NEW c, NEW s, NEW n, NEW m, NEW que, NEW ind, NEW chg,
         Going(c, s, n, m, que, ind, chg)
  PROVE  /\ Going(Disconnect(c), s, n, m, que, ind, chg)
         /\ Disconnect(c).t1 = c.t1
<1> DEFINE p == DisconnectRequest(c.ch)
<1>1. c \in Tunnels
  BY DEF Going, LinkInv, Types
<1>2. c.ch \in Channel \cup {-1}
  BY <1>1 DEF Tunnels
<1>3. p \in ToServer /\ p.t = "discreq"
  BY <1>2 DEF ToServer, DisconnectRequest
<1>4. Disconnect(c) = Closed(Snd(c, p))
  BY DEF Disconnect
<1> HIDE DEF p
<1>5. Snd(c, p) \in Tunnels /\ Same(Snd(c, p), c) /\ Snd(c, p).t1 = c.t1 /\ Snd(c, p).sent = Append(c.sent, p)
  BY <1>1, <1>3, Sendings
<1>6. /\ Disconnect(c) \in Tunnels /\ Same(Disconnect(c), Snd(c, p)) /\ Disconnect(c).mod = 0
      /\ Disconnect(c).t1 = c.t1 /\ Disconnect(c).sent = Append(c.sent, p)
  BY <1>4, <1>5, Closings
<1> QED
  BY <1>3, <1>5, <1>6, GoesOnSending DEF Same

(* inqueue.get (): the queue loses its head; HeadTelegram is what leaves.  *)
LEMMA Gets ==
  ASSUME NEW c \in Tunnels
  PROVE  /\ Get(c) \in Tunnels
         /\ Get(c).q = (IF c.q = <<>> THEN <<>> ELSE Tail(c.q))
         /\ HeadTelegram(c) \in SUBSET Telegram
         /\ HeadTelegram(c) = (IF c.q = <<>> THEN {} ELSE {Head(c.q)} \ {Marker})
         /\ Get(c).ch = c.ch /\ Get(c).mod = c.mod /\ Get(c).sno = c.sno /\ Get(c).rno = c.rno
         /\ Get(c).up = c.up /\ Get(c).acked = c.acked /\ Get(c).dropped = c.dropped
         /\ Get(c).want = c.want /\ Get(c).t1 = c.t1 /\ Get(c).sent = c.sent /\ Get(c).drop = c.drop
<1>1. c.q \in Seq(Telegram \cup {Marker})
  BY DEF Tunnels
<1>2. CASE c.q = <<>>
  <2>1. Get(c) = [c EXCEPT !.failed = TRUE]
    BY <1>2 DEF Get
  <2>2. Get(c) \in Tunnels
    BY <2>1, Updates
  <2> QED
    BY <1>2, <2>1, <2>2 DEF HeadTelegram, Tunnels
<1>3. CASE c.q # <<>>
  <2>1. Tail(c.q) \in Seq(Telegram \cup {Marker}) /\ Head(c.q) \in Telegram \cup {Marker}
    BY <1>1, <1>3
  <2>2. Get(c) = [c EXCEPT !.q = Tail(c.q)]
    BY <1>3 DEF Get
  <2>3. Get(c) \in Tunnels
    BY <2>1, <2>2, Updates
  <2> QED
    BY <1>3, <2>1, <2>2, <2>3 DEF HeadTelegram, Tunnels
<1> QED
  BY <1>2, <1>3

(* A connection response with a channel: the client starts from zero, with *)
(* the queue it has.                                                       *)
LEMMA Connected ==
  ASSUME NEW c \in Tunnels, NEW p, p.ch \in Channel, c.mod = 0, p.status = 0
  PROVE  LET d == OnConnectResponse(c, p) IN
         /\ d \in Tunnels
         /\ d.mod = 1 /\ d.ch = p.ch /\ d.sno = 0 /\ d.rno = 0 /\ d.q = c.q /\ d.up = c.up
         /\ d.acked = c.acked /\ d.dropped = c.dropped /\ d.want = c.want
         /\ d.t1 = FALSE /\ d.sent = c.sent
<1> DEFINE d == OnConnectResponse(c, p)
           c1 == [c EXCEPT !.ch = p.ch]
           c2 == [c1 EXCEPT !.mod = 1]
           c3 == [c2 EXCEPT !.sno = 0]
           c4 == [c3 EXCEPT !.rno = 0]
           c5 == [c4 EXCEPT !.data = TRUE]
           c6 == [c5 EXCEPT !.t1 = FALSE]
           c7 == [c6 EXCEPT !.beat = 0]
<1>1. d = [c EXCEPT !.ch = p.ch, !.mod = 1, !.sno = 0, !.rno = 0, !.data = TRUE,
                    !.t1 = FALSE, !.beat = 0]
  BY DEF OnConnectResponse
<1>2. d = c7
  BY <1>1 DEF Tunnels
<1>3. c1 \in Tunnels
  BY Updates
<1>4. c2 \in Tunnels
  <2> HIDE DEF c1
  <2> QED
    BY <1>3, Updates
<1>5. c3 \in Tunnels
  <2> HIDE DEF c2
  <2> QED
    BY <1>4, Updates
<1>6. c4 \in Tunnels
  <2> HIDE DEF c3
  <2> QED
    BY <1>5, Updates
<1>7. c5 \in Tunnels
  <2> HIDE DEF c4
  <2> QED
    BY <1>6, Updates
<1>8. c6 \in Tunnels
  <2> HIDE DEF c5
  <2> QED
    BY <1>7, Updates
<1>9. c7 \in Tunnels
  <2> HIDE DEF c6
  <2> QED
    BY <1>8, Updates
<1>10. /\ d.mod = 1 /\ d.ch = p.ch /\ d.sno = 0 /\ d.rno = 0 /\ d.q = c.q /\ d.up = c.up
       /\ d.acked = c.acked /\ d.dropped = c.dropped /\ d.want = c.want
       /\ d.t1 = FALSE /\ d.sent = c.sent
  BY <1>1 DEF Tunnels
<1> QED
  BY <1>2, <1>9, <1>10

(* The fields of the client after a new request.                           *)
LEMMA Acceptings ==
  ASSUME NEW c \in Tunnels, NEW p, p.seq \in Number, c.ch \in Channel, p.cemi \in 0 .. MaxInd
  PROVE  LET d == Accept(c, p) IN
         /\ d \in Tunnels
         /\ d.mod = (IF p.cemi = Confirmation /\ c.mod = 3 THEN 1 ELSE c.mod)
         /\ d.ch = c.ch /\ d.sno = c.sno /\ d.rno = Succ(c.rno) /\ d.q = c.q
         /\ d.acked = c.acked /\ d.dropped = c.dropped /\ d.want = c.want
         /\ d.t1 = c.t1 /\ d.sent = Append(c.sent, TunnelACK(c.ch, p.seq, 0))
         /\ d.up = (IF p.cemi = Confirmation THEN c.up ELSE Append(c.up, p.cemi))
<1> DEFINE e == [c EXCEPT !.rno = Succ(c.rno)]
           a == Acknowledge(e, p)
           d == Accept(c, p)
           k == TunnelACK(c.ch, p.seq, 0)
<1>1. Succ(c.rno) \in Number /\ c.up \in Seq((-MaxTel) .. MaxInd) /\ k \in ToServer
  BY SuccFacts DEF Tunnels, ToServer, TunnelACK
<1>2. e \in Tunnels
  BY <1>1, Updates
<1>3. /\ e.mod = c.mod /\ e.ch = c.ch /\ e.sno = c.sno /\ e.rno = Succ(c.rno) /\ e.q = c.q /\ e.up = c.up
      /\ e.acked = c.acked /\ e.dropped = c.dropped /\ e.want = c.want /\ e.t1 = c.t1 /\ e.sent = c.sent
  BY DEF Tunnels
<1>4. d = IF p.cemi = Confirmation
          THEN IF c.mod = 3 THEN [a EXCEPT !.mod = 1] ELSE a
          ELSE [a EXCEPT !.up = Append(a.up, p.cemi)]
  BY DEF Accept, Tunnels
<1> HIDE DEF e, d
<1>5. a = Snd(e, k)
  BY <1>3 DEF Acknowledge
<1>6. /\ a \in Tunnels /\ Same(a, e) /\ a.mod = c.mod /\ a.t1 = c.t1 /\ a.sent = Append(c.sent, k)
  BY <1>1, <1>2, <1>3, <1>5, Sendings
<1> HIDE DEF a, k
<1>7. p.cemi # Confirmation => Append(a.up, p.cemi) \in Seq((-MaxTel) .. MaxInd)
  <2>1. p.cemi \in (-MaxTel) .. MaxInd
    BY LinkAssumption
  <2> QED
    BY <2>1, <1>1, <1>3, <1>6 DEF Same
<1>8. d \in Tunnels
  BY <1>4, <1>6, <1>7, Updates
<1> QED
  BY <1>3, <1>4, <1>6, <1>7, <1>8 DEF d, k, Same, Tunnels

(* The fields of the client after the acknowledgement it waits for.        *)
LEMMA Ackings ==
  ASSUME NEW c \in Tunnels, NEW p, AckFits(c, p)
  PROVE  LET d == OnAck(c, p) IN
         /\ d \in Tunnels /\ d.mod \in {1, 3}
         /\ d.ch = c.ch /\ d.sno = Succ(c.sno) /\ d.rno = c.rno /\ d.up = c.up /\ d.want = c.want
         /\ d.q = (IF c.q = <<>> THEN <<>> ELSE Tail(c.q))
         /\ d.acked = c.acked \cup (IF c.q = <<>> THEN {} ELSE {Head(c.q)} \ {Marker})
         /\ d.dropped = c.dropped /\ d.t1 = c.t1 /\ d.sent = c.sent
<1> DEFINE d == OnAck(c, p)
           g == Get(c)
           c1 == [g EXCEPT !.sno = Succ(c.sno)]
           c2 == [c1 EXCEPT !.retry = 0]
           c3 == [c2 EXCEPT !.drop = 0]
           c4 == [c3 EXCEPT !.mod = IF NoQueue THEN 3 ELSE 1]
           c5 == [c4 EXCEPT !.to = FALSE]
           c6 == [c5 EXCEPT !.acked = c.acked \cup HeadTelegram(c)]
<1>1. /\ g \in Tunnels
      /\ g.q = (IF c.q = <<>> THEN <<>> ELSE Tail(c.q))
      /\ HeadTelegram(c) \in SUBSET Telegram
      /\ HeadTelegram(c) = (IF c.q = <<>> THEN {} ELSE {Head(c.q)} \ {Marker})
      /\ g.ch = c.ch /\ g.sno = c.sno /\ g.rno = c.rno
      /\ g.up = c.up /\ g.acked = c.acked /\ g.dropped = c.dropped
      /\ g.want = c.want /\ g.t1 = c.t1 /\ g.sent = c.sent
  BY Gets
<1>2. Succ(c.sno) \in Number /\ c.acked \cup HeadTelegram(c) \in SUBSET Telegram
  BY <1>1, SuccFacts DEF Tunnels
<1> HIDE DEF g
<1>3. d = [g EXCEPT !.sno = Succ(c.sno), !.retry = 0, !.drop = 0,
                    !.mod = IF NoQueue THEN 3 ELSE 1, !.to = FALSE,
                    !.acked = c.acked \cup HeadTelegram(c)]
  BY <1>1 DEF OnAck, g, Tunnels
<1>4. d = c6
  BY <1>1, <1>3 DEF Tunnels
<1>5. c1 \in Tunnels
  BY <1>1, <1>2, Updates
<1>6. c2 \in Tunnels
  <2> HIDE DEF c1
  <2> QED
    BY <1>5, Updates
<1>7. c3 \in Tunnels
  <2>1. 0 \in Nat
    OBVIOUS
  <2> HIDE DEF c2
  <2> QED
    BY <1>6, <2>1, Updates
<1>8. c4 \in Tunnels
  <2> HIDE DEF c3
  <2> QED
    BY <1>7, Updates
<1>9. c5 \in Tunnels
  <2> HIDE DEF c4
  <2> QED
    BY <1>8, Updates
<1>10. c6 \in Tunnels
  <2> HIDE DEF c5
  <2> QED
    BY <1>2, <1>9, Updates
<1>11. /\ d.mod \in {1, 3} /\ d.ch = g.ch /\ d.sno = Succ(c.sno) /\ d.rno = g.rno /\ d.q = g.q /\ d.up = g.up
       /\ d.acked = c.acked \cup HeadTelegram(c) /\ d.dropped = g.dropped /\ d.want = g.want
       /\ d.t1 = g.t1 /\ d.sent = g.sent
  BY <1>1, <1>3 DEF Tunnels
<1> QED
  BY <1>1, <1>4, <1>10, <1>11

(* The packet handlers.                                                    *)
LEMMA Handles ==
  ASSUME NEW c, NEW s, NEW n, NEW m, NEW que \in Nat, NEW ind \in Nat, NEW chg,
         LinkInv(c, s, n, m, que, ind, chg), c.sent = <<>>, ~c.t1, m # <<>>
  PROVE  Going(Handle(c, Head(m)), s, n, Tail(m), que, ind, chg) /\ ~Handle(c, Head(m)).t1
<1> DEFINE p == Head(m)
           k == Tail(m)
           Good(d) == Going(d, s, n, k, que, ind, chg) /\ ~d.t1
<1>1. m \in Seq(ToClient) /\ n \in Seq(ToServer) /\ c \in Tunnels /\ (c.mod # 0 => c.ch \in Channel)
  BY DEF LinkInv, Types
<1>2. p \in ToClient
  BY <1>1, Tailed
<1>3. LinkInv(c, s, n, k, que, ind, chg)
  BY NextDown
<1>4. n \o <<>> = n /\ <<>> \o n = n
  BY <1>1
<1>5. Good(c)
  BY <1>1, <1>3, <1>4 DEF Going
<1>6. p.t = "connres" => Good(OnConnectResponse(c, p))
  <2> SUFFICES ASSUME p.t = "connres" PROVE Good(OnConnectResponse(c, p))
    OBVIOUS
  <2>1. p.status \in {0, ConnectError} /\ (p.status = 0 => p.ch \in Channel)
    BY <1>2, DownPackets
  <2>2. CASE c.mod = 0 /\ p.status = 0
    <3> DEFINE d == OnConnectResponse(c, p)
    <3>1. /\ d \in Tunnels
          /\ d.mod = 1 /\ d.ch = p.ch /\ d.sno = 0 /\ d.rno = 0 /\ d.q = c.q /\ d.up = c.up
          /\ d.acked = c.acked /\ d.dropped = c.dropped /\ d.want = c.want
          /\ d.t1 = FALSE /\ d.sent = c.sent
      BY <1>1, <2>1, <2>2, Connected
    <3> HIDE DEF d
    <3>2. LinkInv(d, s, n, k, que, ind, chg)
      BY <2>2, <3>1, Connects
    <3>3. Good(d)
      BY <1>1, <1>4, <3>1, <3>2 DEF Going
    <3> QED
      BY <3>3 DEF d
  <2>3. CASE ~(c.mod = 0 /\ p.status = 0)
    <3>1. p.status # 0 => p.status # NoMoreMonitors
      BY <2>1 DEF ConnectError, NoMoreMonitors
    <3>2. OnConnectResponse(c, p) = c
      BY <2>3, <3>1 DEF OnConnectResponse
    <3> QED
      BY <1>5, <3>2
  <2> QED
    BY <2>2, <2>3
<1>7. p.t = "tunreq" => Good(OnTunnelRequest(c, p))
  <2> SUFFICES ASSUME p.t = "tunreq" PROVE Good(OnTunnelRequest(c, p))
    OBVIOUS
  <2>1. p.ch \in Channel /\ p.seq \in Number /\ p.cemi \in 0 .. MaxInd /\ IsData(p)
    BY <1>2, DownPackets DEF IsData
  <2>2. CASE c.mod = 0 \/ p.ch # c.ch
    BY <1>5, <2>2 DEF OnTunnelRequest
  <2>3. CASE c.mod # 0 /\ p.ch = c.ch /\ Repeated(c, p)
    <3> DEFINE a == TunnelACK(c.ch, p.seq, 0)
               b == Snd(c, a)
               d == [b EXCEPT !.data = FALSE]
    <3>1. OnTunnelRequest(c, p) = d
      BY <2>3 DEF OnTunnelRequest, Acknowledge
    <3>2. a \in ToServer
      BY <1>1, <2>1, <2>3 DEF ToServer, TunnelACK
    <3>3. LinkInv(c, s, Append(n, a), k, que, ind, chg)
      BY <2>1, <2>3, Repeats DEF Repeated
    <3> HIDE DEF a
    <3>4. b \in Tunnels /\ Same(b, c) /\ b.mod = c.mod /\ b.t1 = c.t1 /\ b.sent = Append(c.sent, a)
      BY <1>1, <3>2, Sendings
    <3> HIDE DEF b
    <3>5. d \in Tunnels /\ Same(d, b) /\ d.mod = b.mod /\ d.t1 = b.t1 /\ d.sent = b.sent
      <4>1. d \in Tunnels
        BY <3>4, Updates
      <4> QED
        BY <3>4, <4>1 DEF Same, Tunnels
    <3> HIDE DEF d
    <3>6. LinkInv(d, s, Append(n, a), k, que, ind, chg)
      BY <3>3, <3>4, <3>5, Calmer DEF Same
    <3>7. n \o d.sent = Append(n, a)
      BY <1>1, <1>4, <3>2, <3>4, <3>5, Concats
    <3> QED
      BY <1>1, <3>1, <3>4, <3>5, <3>6, <3>7 DEF Going
  <2>4. CASE c.mod # 0 /\ p.ch = c.ch /\ ~Repeated(c, p) /\ p.seq = c.rno
    <3> DEFINE a == TunnelACK(c.ch, p.seq, 0)
               d == Accept(c, p)
    <3>1. OnTunnelRequest(c, p) = d
      BY <2>4 DEF OnTunnelRequest
    <3>2. a \in ToServer
      BY <1>1, <2>1, <2>4 DEF ToServer, TunnelACK
    <3>3. /\ d \in Tunnels
          /\ d.mod = (IF p.cemi = Confirmation /\ c.mod = 3 THEN 1 ELSE c.mod)
          /\ d.ch = c.ch /\ d.sno = c.sno /\ d.rno = Succ(c.rno) /\ d.q = c.q
          /\ d.acked = c.acked /\ d.dropped = c.dropped /\ d.want = c.want
          /\ d.t1 = c.t1 /\ d.sent = Append(c.sent, a)
          /\ d.up = (IF p.cemi = Confirmation THEN c.up ELSE Append(c.up, p.cemi))
      BY <1>1, <2>1, <2>4, Acceptings
    <3> HIDE DEF d
    <3>4. LinkInv(d, s, Append(n, a), k, que, ind, chg)
      BY <2>1, <2>4, <3>3, Accepts
    <3> HIDE DEF a
    <3>5. n \o d.sent = Append(n, a)
      BY <1>1, <1>4, <3>2, <3>3, Concats
    <3> QED
      BY <1>1, <3>1, <3>3, <3>4, <3>5 DEF Going
  <2>5. CASE c.mod # 0 /\ p.ch = c.ch /\ ~Repeated(c, p) /\ p.seq # c.rno
    <3>1. OnTunnelRequest(c, p) = Disconnect(c) \/ OnTunnelRequest(c, p) = c
      BY <2>5 DEF OnTunnelRequest
    <3> QED
      BY <1>5, <3>1, Disconnects
  <2> QED
    BY <2>2, <2>3, <2>4, <2>5
<1>8. p.t = "ack" => Good(OnAck(c, p))
  <2> SUFFICES ASSUME p.t = "ack" PROVE Good(OnAck(c, p))
    OBVIOUS
  <2>1. CASE AckFits(c, p)
    <3> DEFINE d == OnAck(c, p)
    <3>1. /\ d \in Tunnels /\ d.mod \in {1, 3}
          /\ d.ch = c.ch /\ d.sno = Succ(c.sno) /\ d.rno = c.rno /\ d.up = c.up /\ d.want = c.want
          /\ d.q = (IF c.q = <<>> THEN <<>> ELSE Tail(c.q))
          /\ d.acked = c.acked \cup (IF c.q = <<>> THEN {} ELSE {Head(c.q)} \ {Marker})
          /\ d.dropped = c.dropped /\ d.t1 = c.t1 /\ d.sent = c.sent
      BY <1>1, <2>1, Ackings
    <3> HIDE DEF d
    <3>2. IsAck(p) /\ p.ch = c.ch /\ p.seq = c.sno /\ c.mod = 2
      BY <2>1 DEF AckFits, IsAck
    <3>3. \/ c.q # <<>> /\ d.q = Tail(c.q) /\ d.acked \subseteq c.acked \cup {Head(c.q)}
          \/ c.q = <<>> /\ d.q = <<>> /\ d.acked = c.acked
      BY <3>1
    <3>4. LinkInv(d, s, n, k, que, ind, chg)
      BY <3>1, <3>2, <3>3, Acked
    <3>5. Good(d)
      BY <1>1, <1>4, <3>1, <3>4 DEF Going
    <3> QED
      BY <3>5 DEF d
  <2>2. CASE ~AckFits(c, p)
    BY <1>5, <2>2 DEF OnAck
  <2> QED
    BY <2>1, <2>2
<1>9. Good(OnStateResponse(c, p))
  <2>1. CASE OnStateResponse(c, p) = Disconnect(c)
    BY <1>5, <2>1, Disconnects
  <2>2. CASE OnStateResponse(c, p) = [c EXCEPT !.beat = IF c.beat > 0 THEN c.beat - 1 ELSE 0]
    <3> DEFINE b == IF c.beat > 0 THEN c.beat - 1 ELSE 0
               d == [c EXCEPT !.beat = b]
    <3>1. b \in 0 .. MaxBeat
      BY <1>1, TunnelAssumption DEF Tunnels
    <3> HIDE DEF b
    <3>2. d \in Tunnels
      BY <1>1, <3>1, Updates
    <3>3. Same(d, c) /\ d.mod = c.mod /\ d.t1 = c.t1 /\ d.sent = c.sent
      BY <1>1 DEF Same, Tunnels
    <3>4. Good(d)
      BY <1>5, <3>2, <3>3, GoesOn
    <3> QED
      BY <2>2, <3>4 DEF d, b
  <2>3. OnStateResponse(c, p) \in {c, Disconnect(c), [c EXCEPT !.beat = IF c.beat > 0 THEN c.beat - 1 ELSE 0]}
    BY <1>1 DEF OnStateResponse, Tunnels
  <2> QED
    BY <1>5, <2>1, <2>2, <2>3
<1>10. Good(OnDisconnectRequest(c, p))
  <2>1. CASE c.mod = 0 \/ p.ch # c.ch
    BY <1>5, <2>1 DEF OnDisconnectRequest
  <2>2. CASE ~(c.mod = 0 \/ p.ch # c.ch)
    <3> DEFINE a == DisconnectResponse(c.ch, 0)
               b == Snd(c, a)
               d == Closed(b)
    <3>1. OnDisconnectRequest(c, p) = d
      BY <2>2 DEF OnDisconnectRequest
    <3>2. a \in ToServer /\ a.t = "discres"
      BY <1>1, <2>2 DEF ToServer, DisconnectResponse
    <3> HIDE DEF a
    <3>3. b \in Tunnels /\ Same(b, c) /\ b.t1 = c.t1 /\ b.sent = Append(c.sent, a)
      BY <1>1, <3>2, Sendings
    <3> HIDE DEF b
    <3>4. d \in Tunnels /\ Same(d, b) /\ d.mod = 0 /\ d.t1 = b.t1 /\ d.sent = b.sent
      BY <3>3, Closings
    <3> HIDE DEF d
    <3>5. Good(d)
      BY <1>5, <3>2, <3>3, <3>4, GoesOnSending DEF Same
    <3> QED
      BY <3>1, <3>5
  <2> QED
    BY <2>1, <2>2
<1>11. Good(OnDisconnectResponse(c, p))
  <2>1. CASE c.mod = 0 \/ p.ch # c.ch
    BY <1>5, <2>1 DEF OnDisconnectResponse
  <2>2. CASE ~(c.mod = 0 \/ p.ch # c.ch)
    <3> DEFINE b == Closed(c)
               d == [b EXCEPT !.t1 = FALSE]
    <3>1. OnDisconnectResponse(c, p) = d
      BY <2>2 DEF OnDisconnectResponse
    <3>2. b \in Tunnels /\ Same(b, c) /\ b.mod = 0 /\ b.sent = c.sent
      BY <1>1, Closings
    <3> HIDE DEF b
    <3>3. d \in Tunnels
      BY <3>2, Updates
    <3>4. Same(d, b) /\ d.mod = 0 /\ ~d.t1 /\ d.sent = b.sent
      BY <3>2 DEF Same, Tunnels
    <3> HIDE DEF d
    <3>5. Good(d)
      BY <1>5, <3>2, <3>3, <3>4, GoesOn DEF Same
    <3> QED
      BY <3>1, <3>5
  <2> QED
    BY <2>1, <2>2
<1>12. Good(Handle(c, p))
  <2>1. p.t \in {"connres", "stateres", "discreq", "discres", "tunreq", "ack"}
    BY <1>2, DownPackets
  <2>2. Handle(c, p) = CASE p.t = "none" -> c
                         [] p.t = "connres" -> OnConnectResponse(c, p)
                         [] p.t = "tunreq" -> OnTunnelRequest(c, p)
                         [] p.t = "ack" -> OnAck(c, p)
                         [] p.t = "stateres" -> OnStateResponse(c, p)
                         [] p.t = "discreq" -> OnDisconnectRequest(c, p)
                         [] p.t = "discres" -> OnDisconnectResponse(c, p)
    BY DEF Handle
  <2> HIDE DEF Good
  <2> QED
    BY <1>6, <1>7, <1>8, <1>9, <1>10, <1>11, <2>1, <2>2
<1> QED
  BY <1>12

(* The blocks after the handlers.                                          *)
LEMMA GivesUp ==
  ASSUME NEW c, NEW s, NEW n, NEW m, NEW que \in Nat, NEW ind \in Nat, NEW chg,
         Going(c, s, n, m, que, ind, chg)
  PROVE  Going(RetryOrDrop(c), s, n, m, que, ind, chg)
<1>1. c \in Tunnels /\ c.drop \in Nat /\ c.retry \in 0 .. MaxRetry
  BY DEF Going, LinkInv, Types, Tunnels
<1>2. CASE ~(c.mod = 2 /\ c.to)
  BY <1>2 DEF RetryOrDrop
<1>3. CASE c.mod = 2 /\ c.to /\ c.retry < MaxRetry
  <2> DEFINE b == [c EXCEPT !.mod = 1]
             d == [b EXCEPT !.retry = c.retry + 1]
  <2>1. RetryOrDrop(c) = d
    BY <1>1, <1>3 DEF RetryOrDrop, Tunnels
  <2>2. c.retry + 1 \in 0 .. MaxRetry
    BY <1>1, <1>3, TunnelAssumption
  <2>3. b \in Tunnels
    BY <1>1, Updates
  <2>4. Same(b, c) /\ b.mod = 1 /\ b.t1 = c.t1 /\ b.sent = c.sent
    BY <1>1 DEF Same, Tunnels
  <2> HIDE DEF b
  <2>5. d \in Tunnels
    BY <2>2, <2>3, Updates
  <2>6. Same(d, b) /\ d.mod = b.mod /\ d.t1 = b.t1 /\ d.sent = b.sent
    BY <2>3 DEF Same, Tunnels
  <2> HIDE DEF d
  <2>7. Going(d, s, n, m, que, ind, chg)
    BY <1>3, <2>4, <2>5, <2>6, GoesOn DEF Same
  <2> QED
    BY <2>1, <2>7
<1>4. CASE c.mod = 2 /\ c.to /\ ~(c.retry < MaxRetry)
  <2> DEFINE g == Get(c)
             b1 == [g EXCEPT !.mod = 1]
             b2 == [b1 EXCEPT !.retry = 0]
             b3 == [b2 EXCEPT !.drop = c.drop + 1]
             d == [b3 EXCEPT !.dropped = c.dropped \cup HeadTelegram(c)]
  <2>1. /\ g \in Tunnels
        /\ g.q = (IF c.q = <<>> THEN <<>> ELSE Tail(c.q))
        /\ HeadTelegram(c) \in SUBSET Telegram
        /\ HeadTelegram(c) = (IF c.q = <<>> THEN {} ELSE {Head(c.q)} \ {Marker})
        /\ g.ch = c.ch /\ g.sno = c.sno /\ g.rno = c.rno
        /\ g.up = c.up /\ g.acked = c.acked /\ g.dropped = c.dropped
        /\ g.want = c.want /\ g.t1 = c.t1 /\ g.sent = c.sent /\ g.drop = c.drop
    BY <1>1, Gets
  <2>2. c.dropped \cup HeadTelegram(c) \in SUBSET Telegram
    BY <1>1, <2>1 DEF Tunnels
  <2> HIDE DEF g
  <2>3. b1 \in Tunnels
    BY <2>1, Updates
  <2>4. b2 \in Tunnels
    <3> HIDE DEF b1
    <3> QED
      BY <2>3, Updates
  <2>5. b3 \in Tunnels
    <3>1. c.drop + 1 \in Nat
      BY <1>1
    <3> HIDE DEF b2
    <3> QED
      BY <2>4, <3>1, Updates
  <2>6. d \in Tunnels
    <3> HIDE DEF b3
    <3> QED
      BY <2>5, <2>2, Updates
  <2>7. d = [g EXCEPT !.mod = 1, !.retry = 0, !.drop = g.drop + 1,
                      !.dropped = g.dropped \cup HeadTelegram(c)]
    BY <2>1 DEF Tunnels
  <2>8. /\ d.ch = c.ch /\ d.mod = 1 /\ d.sno = c.sno /\ d.rno = c.rno /\ d.up = c.up /\ d.q = g.q
        /\ d.acked = c.acked /\ d.want = c.want /\ d.t1 = c.t1 /\ d.sent = c.sent
        /\ d.dropped = c.dropped \cup HeadTelegram(c)
    BY <2>1 DEF Tunnels
  <2>9. RetryOrDrop(c) = IF d.drop >= MaxDrop THEN Disconnect(d) ELSE d
    BY <1>4, <2>1, <2>7 DEF RetryOrDrop, g, Tunnels
  <2> HIDE DEF d
  <2>10. Going(d, s, n, m, que, ind, chg)
    <3>1. CASE c.q = <<>>
      <4>1. Same(d, c)
        BY <2>1, <2>8, <3>1 DEF Same
      <4> QED
        BY <1>4, <2>6, <2>8, <4>1, GoesOn
    <3>2. CASE c.q # <<>>
      <4>1. LinkInv(c, s, n \o c.sent, m, que, ind, chg)
        BY DEF Going
      <4>2. d.q = Tail(c.q) /\ d.dropped = c.dropped \cup ({Head(c.q)} \ {Marker})
        BY <2>1, <2>8, <3>2
      <4>3. LinkInv(d, s, n \o c.sent, m, que, ind, chg)
        BY <1>4, <2>6, <2>8, <3>2, <4>1, <4>2, Dropped
      <4> QED
        BY <2>8, <4>3 DEF Going
    <3> QED
      BY <3>1, <3>2
  <2> QED
    BY <2>9, <2>10, Disconnects
<1> QED
  BY <1>2, <1>3, <1>4

(* The client stops waiting for a confirmation (mod 3).                    *)
LEMMA GivesUpConfirmation ==
  ASSUME NEW c, NEW s, NEW n, NEW m, NEW que, NEW ind, NEW chg,
         Going(c, s, n, m, que, ind, chg)
  PROVE  Going(ConfirmTimeout(c), s, n, m, que, ind, chg)
<1>1. c \in Tunnels
  BY DEF Going, LinkInv, Types
<1>2. CASE c.mod = 3 /\ c.to
  <2> DEFINE d == [c EXCEPT !.mod = 1]
  <2>1. d \in Tunnels
    BY <1>1, Updates
  <2>2. Same(d, c) /\ d.mod = 1 /\ d.t1 = c.t1 /\ d.sent = c.sent
    BY <1>1 DEF Same, Tunnels
  <2>3. ConfirmTimeout(c) = d
    BY <1>2 DEF ConfirmTimeout
  <2> HIDE DEF d
  <2>4. Going(d, s, n, m, que, ind, chg)
    BY <1>2, <2>1, <2>2, GoesOn
  <2> QED
    BY <2>3, <2>4
<1>3. CASE ~(c.mod = 3 /\ c.to)
  BY <1>3 DEF ConfirmTimeout
<1> QED
  BY <1>2, <1>3

(* The heartbeat, and the disconnection after too many without an answer;  *)
(* timeout1 is still set after it only when not connected.                 *)
LEMMA Beats ==
  ASSUME NEW c, NEW s, NEW n, NEW m, NEW que, NEW ind, NEW chg,
         Going(c, s, n, m, que, ind, chg)
  PROVE  /\ Going(Heartbeat(c), s, n, m, que, ind, chg)
         /\ Heartbeat(c).t1 => Heartbeat(c).mod = 0
<1>1. c \in Tunnels /\ (c.mod # 0 => c.ch \in Channel) /\ c.beat \in 0 .. MaxBeat
  BY DEF Going, LinkInv, Types, Tunnels
<1>2. CASE c.mod = 0 \/ ~c.t1
  BY <1>2 DEF Heartbeat
<1>3. CASE c.mod # 0 /\ c.t1 /\ c.beat < MaxBeat
  <2> DEFINE a == ConnectionStateRequest(c.ch)
             b1 == [c EXCEPT !.t1 = FALSE]
             b2 == [b1 EXCEPT !.beat = c.beat + 1]
             d == Snd(b2, a)
  <2>1. Heartbeat(c) = d
    BY <1>1, <1>3 DEF Heartbeat, Tunnels
  <2>2. a \in ToServer /\ a.t = "statereq"
    BY <1>1, <1>3 DEF ToServer, ConnectionStateRequest
  <2>3. b1 \in Tunnels
    BY <1>1, Updates
  <2>4. Same(b1, c) /\ b1.mod = c.mod /\ ~b1.t1 /\ b1.sent = c.sent
    BY <1>1 DEF Same, Tunnels
  <2>5. c.beat + 1 \in 0 .. MaxBeat
    BY <1>1, <1>3, TunnelAssumption
  <2> HIDE DEF b1, a
  <2>6. b2 \in Tunnels
    BY <2>3, <2>5, Updates
  <2>7. Same(b2, b1) /\ b2.mod = b1.mod /\ b2.t1 = b1.t1 /\ b2.sent = b1.sent
    BY <2>3 DEF Same, Tunnels
  <2> HIDE DEF b2
  <2>8. d \in Tunnels /\ Same(d, b2) /\ d.mod = b2.mod /\ d.t1 = b2.t1 /\ d.sent = Append(b2.sent, a)
    BY <2>2, <2>6, Sendings
  <2> HIDE DEF d
  <2>9. Going(d, s, n, m, que, ind, chg)
    BY <1>3, <2>2, <2>4, <2>7, <2>8, GoesOnSending DEF Same
  <2> QED
    BY <2>1, <2>4, <2>7, <2>8, <2>9
<1>4. CASE c.mod # 0 /\ c.t1 /\ ~(c.beat < MaxBeat)
  <2> DEFINE d == [c EXCEPT !.t1 = FALSE]
  <2>1. d \in Tunnels
    BY <1>1, Updates
  <2>2. Same(d, c) /\ d.mod = c.mod /\ ~d.t1 /\ d.sent = c.sent
    BY <1>1 DEF Same, Tunnels
  <2>3. Heartbeat(c) = Disconnect(d)
    BY <1>4 DEF Heartbeat
  <2> HIDE DEF d
  <2>4. Going(d, s, n, m, que, ind, chg)
    BY <1>4, <2>1, <2>2, GoesOn
  <2> QED
    BY <2>2, <2>3, <2>4, Disconnects
<1> QED
  BY <1>2, <1>3, <1>4

(* A client without a connection asks for one.                             *)
LEMMA Reconnects ==
  ASSUME NEW c, NEW s, NEW n, NEW m, NEW que, NEW ind, NEW chg,
         Going(c, s, n, m, que, ind, chg), c.t1 => c.mod = 0
  PROVE  Going(Reconnect(c), s, n, m, que, ind, chg) /\ ~Reconnect(c).t1
<1>1. c \in Tunnels /\ n \in Seq(ToServer) /\ c.want \in BOOLEAN /\ c.support \in BOOLEAN
      /\ c.sent \in Seq(ToServer)
  BY DEF Going, LinkInv, Types, Tunnels
<1>2. CASE c.mod # 0 \/ ~c.t1
  BY <1>2 DEF Reconnect
<1>3. CASE c.mod = 0 /\ c.t1
  <2> DEFINE w == c.want /\ c.support
             p == ConnectRequest(w)
             k == n \o c.sent
             b1 == [c EXCEPT !.t1 = FALSE]
             b2 == [b1 EXCEPT !.monitorReq = w]
             d == Snd(b2, p)
  <2>1. Reconnect(c) = d
    BY <1>1, <1>3 DEF Reconnect, Tunnels
  <2>2. w \in BOOLEAN /\ (w => c.want)
    BY <1>1
  <2> HIDE DEF w
  <2>3. p \in ToServer
    BY <2>2 DEF ToServer
  <2>4. LinkInv(c, s, k, m, que, ind, chg) /\ m = <<>> /\ NoData(k) /\ Asks(k) = {}
    BY <1>3 DEF Going
  <2>5. LinkInv(c, s, Append(k, p), m, que, ind, chg)
    <3> HIDE DEF k
    <3> QED
      BY <1>3, <2>2, <2>4, AsksAgain
  <2> HIDE DEF p
  <2>6. n \o Append(c.sent, p) = Append(k, p)
    BY <1>1, <2>3, Concats
  <2>7. b1 \in Tunnels
    BY <1>1, Updates
  <2>8. Same(b1, c) /\ b1.mod = c.mod /\ ~b1.t1 /\ b1.sent = c.sent
    BY <1>1 DEF Same, Tunnels
  <2> HIDE DEF b1
  <2>9. b2 \in Tunnels
    BY <2>2, <2>7, Updates
  <2>10. Same(b2, b1) /\ b2.mod = b1.mod /\ b2.t1 = b1.t1 /\ b2.sent = b1.sent
    BY <2>7 DEF Same, Tunnels
  <2> HIDE DEF b2
  <2>11. d \in Tunnels /\ Same(d, b2) /\ d.mod = b2.mod /\ d.t1 = b2.t1 /\ d.sent = Append(b2.sent, p)
    BY <2>3, <2>9, Sendings
  <2> HIDE DEF d, k
  <2>12. LinkInv(d, s, Append(k, p), m, que, ind, chg)
    <3>1. Same(d, c) /\ d.mod = 0
      BY <1>3, <2>8, <2>10, <2>11 DEF Same
    <3> QED
      BY <2>5, <2>11, <3>1, Calmer DEF Same
  <2>13. n \o d.sent = Append(k, p)
    BY <2>6, <2>8, <2>10, <2>11
  <2>14. ~d.t1
    BY <2>8, <2>10, <2>11
  <2> QED
    BY <1>1, <2>1, <2>12, <2>13, <2>14 DEF Going
<1> QED
  BY <1>2, <1>3

(* A Marker at the head leaves the queue; if the mode is never changed     *)
(* twice in a row, no second one is behind it.                             *)
LEMMA TakesMarker ==
  ASSUME NEW c, NEW s, NEW n, NEW m, NEW que \in Nat, NEW ind \in Nat, NEW chg,
         Going(c, s, n, m, que, ind, chg), ~c.t1
  PROVE  LET d == ProcessMarker(c) IN
         /\ Going(d, s, n, m, que, ind, chg) /\ ~d.t1
         /\ ~Overlap \/ chg = 0 => d.q = <<>> \/ Head(d.q) # Marker
<1>1. c \in Tunnels /\ c.q \in Seq(Telegram \cup {Marker}) /\ c.ch \in Channel \cup {-1}
  BY DEF Going, LinkInv, Types, Tunnels
<1>2. LinkInv(c, s, n \o c.sent, m, que, ind, chg)
  BY DEF Going
<1>3. CASE c.q = <<>> \/ Head(c.q) # Marker
  BY <1>3 DEF ProcessMarker
<1>4. CASE c.q # <<>> /\ Head(c.q) = Marker
  <2> DEFINE g == Get(c)
             p == DisconnectRequest(c.ch)
  <2>1. /\ g \in Tunnels /\ g.q = Tail(c.q)
        /\ g.ch = c.ch /\ g.mod = c.mod /\ g.sno = c.sno /\ g.rno = c.rno
        /\ g.up = c.up /\ g.acked = c.acked /\ g.dropped = c.dropped
        /\ g.want = c.want /\ g.t1 = c.t1 /\ g.sent = c.sent
    BY <1>1, <1>4, Gets
  <2> HIDE DEF g
  <2>2. g.dropped = c.dropped \cup ({Head(c.q)} \ {Marker})
    BY <1>4, <2>1
  <2>3. LinkInv(g, s, n \o c.sent, m, que, ind, chg)
    BY <1>2, <1>4, <2>1, <2>2, Dropped
  <2>4. Going(g, s, n, m, que, ind, chg)
    BY <2>1, <2>3 DEF Going
  <2>5. ~Overlap \/ chg = 0 => g.q = <<>> \/ Head(g.q) # Marker
    <3>1. ~Overlap \/ chg = 0 => OneMarker(c.q)
      BY <1>2 DEF LinkInv, Heads
    <3>2. UpContents(c.q, s.l3, n \o c.sent, que, s.births)
      BY <1>2 DEF LinkInv
    <3>3. OneMarker(c.q) /\ Head(c.q) = Marker /\ Tail(c.q) # <<>> => Head(Tail(c.q)) # Marker
      BY <1>1, <1>4, <3>2, Shorter
    <3> QED
      BY <1>4, <2>1, <3>1, <3>3
  <2>6. p \in ToServer /\ p.t = "discreq"
    BY <1>1 DEF ToServer, DisconnectRequest
  <2>7. ProcessMarker(c) = IF c.support THEN Snd(g, p) ELSE g
    BY <1>4 DEF ProcessMarker, g
  <2> HIDE DEF p
  <2>8. Snd(g, p) \in Tunnels /\ Same(Snd(g, p), g) /\ Snd(g, p).mod = g.mod
        /\ Snd(g, p).t1 = g.t1 /\ Snd(g, p).sent = Append(g.sent, p)
    BY <2>1, <2>6, Sendings
  <2>9. Going(Snd(g, p), s, n, m, que, ind, chg)
    BY <2>4, <2>6, <2>8, GoesOnSending
  <2> QED
    BY <2>1, <2>4, <2>5, <2>7, <2>8, <2>9 DEF Same
<1> QED
  BY <1>3, <1>4

(* The idle client sends the head of its queue, the last block of a turn.  *)
LEMMA SendsNext ==
  ASSUME NEW c, NEW s, NEW n, NEW m, NEW que \in Nat, NEW ind \in Nat, NEW chg,
         Going(c, s, n, m, que, ind, chg),
         ~Overlap \/ chg = 0 => c.q = <<>> \/ Head(c.q) # Marker
  PROVE  LinkInv(SendHead(c), s, n \o SendHead(c).sent, m, que, ind, chg)
<1>1. c \in Tunnels /\ c.q \in Seq(Telegram \cup {Marker}) /\ (c.mod # 0 => c.ch \in Channel)
      /\ n \in Seq(ToServer) /\ c.sent \in Seq(ToServer) /\ c.sno \in Number
  BY DEF Going, LinkInv, Types, Tunnels
<1>2. CASE c.q = <<>> \/ c.mod # 1
  BY <1>2 DEF SendHead, Going
<1>3. CASE c.q # <<>> /\ c.mod = 1
  <2> DEFINE p == TunnelRequest(c.ch, c.sno, Head(c.q))
             b == [c EXCEPT !.mod = 2]
             d == Snd(b, p)
             k == n \o c.sent
  <2>1. SendHead(c) = d
    BY <1>3 DEF SendHead
  <2>2. p \in ToServer
    BY <1>1, <1>3, RequestsUp
  <2>3. b \in Tunnels
    BY <1>1, Updates
  <2>4. Same(b, c) /\ b.mod = 2 /\ b.sent = c.sent
    BY <1>1 DEF Same, Tunnels
  <2> HIDE DEF b
  <2>5. d \in Tunnels /\ Same(d, b) /\ d.mod = b.mod /\ d.sent = Append(b.sent, p)
    <3> HIDE DEF p
    <3> QED
      BY <2>2, <2>3, Sendings
  <2> HIDE DEF d
  <2>6. LinkInv(c, s, k, m, que, ind, chg)
    BY DEF Going
  <2> HIDE DEF k
  <2>7. LinkInv(d, s, Append(k, p), m, que, ind, chg)
    BY <1>3, <2>4, <2>5, <2>6, SendsHead DEF Same
  <2> HIDE DEF p
  <2>8. n \o d.sent = Append(k, p)
    <3>1. d.sent = Append(c.sent, p)
      BY <2>4, <2>5
    <3>2. n \o Append(c.sent, p) = Append(n \o c.sent, p)
      BY <1>1, <2>2, Concats
    <3> QED
      BY <3>1, <3>2 DEF k
  <2> QED
    BY <2>1, <2>7, <2>8
<1> QED
  BY <1>2, <1>3

(* A turn of the client.                                                   *)
LEMMA Turns ==
  ASSUME NEW c, NEW s, NEW n, NEW m, NEW que \in Nat, NEW ind \in Nat, NEW chg,
         LinkInv(c, s, n, m, que, ind, chg), NEW p, NEW to \in BOOLEAN, NEW t1 \in BOOLEAN,
         p = NoPacket \/ (m # <<>> /\ p = Head(m) /\ ~t1), t1 => n = <<>> /\ m = <<>>
  PROVE  LET e == Turn(c, p, to, t1) IN
         LinkInv([e EXCEPT !.sent = <<>>], s, n \o e.sent, Remaining(m, p), que, ind, chg)
<1> DEFINE b1 == [c EXCEPT !.to = to /\ c.mod \in {2, 3}]
           b2 == [b1 EXCEPT !.t1 = t1]
           b == [b2 EXCEPT !.sent = <<>>]
           k == Remaining(m, p)
           Good(d) == Going(d, s, n, k, que, ind, chg)
           h == Handle(b, p)
           g == ConfirmTimeout(RetryOrDrop(h))
           r == Reconnect(Heartbeat(g))
           z == SendHead(ProcessMarker(r))
           e == Turn(c, p, to, t1)
<1>1. c \in Tunnels /\ n \in Seq(ToServer) /\ m \in Seq(ToClient)
  BY DEF LinkInv, Types
<1>2. b \in Tunnels /\ Same(b, c) /\ b.mod = c.mod /\ b.t1 = t1 /\ b.sent = <<>>
  <2>1. b1 \in Tunnels
    BY <1>1, Updates
  <2>2. Same(b1, c) /\ b1.mod = c.mod
    BY <1>1 DEF Same, Tunnels
  <2> HIDE DEF b1
  <2>3. b2 \in Tunnels
    BY <2>1, Updates
  <2>4. Same(b2, b1) /\ b2.mod = b1.mod /\ b2.t1 = t1
    BY <2>1 DEF Same, Tunnels
  <2> HIDE DEF b2
  <2>5. <<>> \in Seq(ToServer)
    OBVIOUS
  <2>6. b \in Tunnels
    BY <2>3, <2>5, Updates
  <2>7. Same(b, b2) /\ b.mod = b2.mod /\ b.t1 = b2.t1 /\ b.sent = <<>>
    BY <2>3 DEF Same, Tunnels
  <2> HIDE DEF b
  <2> QED
    BY <2>2, <2>4, <2>6, <2>7 DEF Same
<1>3. b = [c EXCEPT !.to = to /\ c.mod \in {2, 3}, !.t1 = t1, !.sent = <<>>]
  BY <1>1 DEF Tunnels
<1>4. LinkInv(b, s, n, m, que, ind, chg)
  <2> HIDE DEF b
  <2> QED
    BY <1>2, Calmer DEF Same
<1> HIDE DEF b
<1>5. Good(h)
  <2>1. CASE p = NoPacket
    <3>1. h = b /\ k = m
      BY <2>1 DEF Handle, Remaining, NoPacket
    <3>2. n \o b.sent = n
      BY <1>1, <1>2
    <3>3. t1 => NoData(n) /\ Asks(n) = {}
      BY DEF NoData, Asks
    <3> QED
      BY <1>1, <1>2, <1>4, <3>1, <3>2, <3>3 DEF Going
  <2>2. CASE p # NoPacket
    <3>1. k = Tail(m) /\ p = Head(m) /\ m # <<>> /\ ~b.t1
      BY <1>2, <2>2 DEF Remaining
    <3> QED
      BY <1>2, <1>4, <3>1, Handles
  <2> QED
    BY <2>1, <2>2
<1> HIDE DEF h, k
<1>6. Good(g)
  BY <1>5, GivesUp, GivesUpConfirmation
<1> HIDE DEF g
<1>7. Good(r) /\ ~r.t1
  BY <1>6, Beats, Reconnects
<1> HIDE DEF r
<1>8. LinkInv(z, s, n \o z.sent, k, que, ind, chg)
  BY <1>7, TakesMarker, SendsNext
<1>9. e = [z EXCEPT !.to = FALSE, !.t1 = FALSE]
  BY <1>3 DEF Turn, h, g, r
<1> HIDE DEF z
<1>10. z \in Tunnels
  BY <1>8 DEF LinkInv, Types
<1> DEFINE z1 == [z EXCEPT !.to = FALSE]
           z2 == [z1 EXCEPT !.t1 = FALSE]
           z3 == [z2 EXCEPT !.sent = <<>>]
<1>11. z1 \in Tunnels
  BY <1>10, Updates
<1>12. z2 \in Tunnels
  <2> HIDE DEF z1
  <2> QED
    BY <1>11, Updates
<1>13. z3 \in Tunnels
  <2>1. <<>> \in Seq(ToServer)
    OBVIOUS
  <2> HIDE DEF z2
  <2> QED
    BY <1>12, <2>1, Updates
<1>14. e.sent = z.sent /\ [e EXCEPT !.sent = <<>>] = z3
  BY <1>9, <1>10 DEF Tunnels
<1>15. Same(z3, z) /\ z3.mod = z.mod
  BY <1>10 DEF Same, Tunnels
<1> HIDE DEF z3, e
<1>16. LinkInv(z3, s, n \o z.sent, k, que, ind, chg)
  BY <1>8, <1>13, <1>15, Calmer DEF Same
<1> QED
  BY <1>14, <1>16 DEF k, e

----------------------------------------------------------------------------
(* Layer3 of the client.                                                   *)
Counted(t, que, more) == (t = Marker /\ more = que) \/ (t = que + 1 /\ more = que + 1)

(* The client's queue gets a new last element, a telegram or a Marker.     *)
LEMMA Longer ==
  ASSUME NEW q \in Seq(Telegram \cup {Marker}), NEW l3, NEW n \in Seq(ToServer), NEW que \in Nat, NEW births,
         \A i \in DOMAIN l3 : l3[i][2] \in Telegram,
         UpContents(q, l3, n, que, births),
         NEW t \in Telegram \cup {Marker}, NEW more,
         Counted(t, que, more)
  PROVE  /\ UpContents(Append(q, t), l3, n, more, births)
         /\ Append(q, t) # <<>> /\ Head(Append(q, t)) = (IF q = <<>> THEN t ELSE Head(q))
         /\ Append(q, t) \in Seq(Telegram \cup {Marker})
         /\ t # Marker => \A i \in DOMAIN l3 : l3[i][2] < t
         /\ (t = Marker => \A i \in DOMAIN q : q[i] # Marker) /\ OneMarker(q) => OneMarker(Append(q, t))
<1> DEFINE k == Append(q, t)
<1>1. /\ k \in Seq(Telegram \cup {Marker}) /\ k # <<>> /\ Len(q) \in Nat
      /\ \A i \in DOMAIN q : i \in DOMAIN k /\ k[i] = q[i]
  BY Appended
<1>2. \A i \in DOMAIN k : (i \in DOMAIN q /\ k[i] = q[i]) \/ (i = Len(q) + 1 /\ k[i] = t)
  BY Appended
<1>3. \A i, j \in DOMAIN k : i < j => i \in DOMAIN q /\ k[i] = q[i] /\ j # 1
  BY Appended
<1>4. Head(k) = IF q = <<>> THEN t ELSE Head(q)
  BY Appended
<1>5. 0 \notin Telegram /\ Telegram \subseteq Int /\ more \in Nat /\ Marker = 0
  BY DEF Telegram, Marker, Counted
<1> HIDE DEF k
<1>6. \A v \in Int : v <= que => v <= more
  BY <1>5 DEF Counted
<1>7. t <= more
  BY <1>5 DEF Counted
<1>8. ASSUME NEW v \in Int, v <= que, t # Marker PROVE v < t
  BY <1>8 DEF Counted
<1>9. Queue(k, more)
  <2>1. \A i \in DOMAIN q : q[i] \in Int /\ q[i] <= que
    <3>1. \A i \in DOMAIN q : q[i] \in Telegram \cup {Marker}
      OBVIOUS
    <3>2. \A v \in Telegram \cup {Marker} : v \in Int
      BY <1>5
    <3>3. \A i \in DOMAIN q : q[i] <= que
      BY DEF UpContents, Queue
    <3> QED
      BY <3>1, <3>2, <3>3
  <2>2. \A i \in DOMAIN k : k[i] <= more
    BY <1>2, <1>6, <1>7, <2>1
  <2>3. ASSUME NEW i \in DOMAIN k, NEW j \in DOMAIN k, i < j, k[i] # Marker, k[j] # Marker PROVE k[i] < k[j]
    <3>1. i \in DOMAIN q /\ k[i] = q[i]
      BY <1>3, <2>3
    <3>2. CASE j \in DOMAIN q
      BY <1>1, <2>3, <3>1, <3>2 DEF UpContents, Queue
    <3>3. CASE k[j] = t
      BY <1>8, <2>1, <2>3, <3>1, <3>3
    <3> QED
      BY <1>2, <3>2, <3>3
  <2> QED
    BY <2>2, <2>3 DEF Queue
<1>10. ASSUME NEW v \in Int, Before(v, q, que) PROVE Before(v, k, more)
  <2>1. v <= que
    BY <1>10 DEF Before
  <2>2. \A j \in DOMAIN k : k[j] # Marker => v < k[j] \/ (j = 1 /\ v = k[1])
    BY <1>2, <1>8, <1>10, <2>1 DEF Before
  <2> QED
    BY <1>6, <2>1, <2>2 DEF Before
<1>11. UpContents(k, l3, n, more, births)
  <2>1. \A i \in DOMAIN n : IsData(n[i]) => n[i].cemi \in Int
    <3>1. \A i \in DOMAIN n : n[i] \in ToServer
      OBVIOUS
    <3>2. \A i \in DOMAIN n : IsData(n[i]) => n[i].cemi \in Telegram \cup {Marker}
      BY <3>1, UpPackets DEF IsData
    <3>3. \A v \in Telegram \cup {Marker} : v \in Int
      BY <1>5
    <3> QED
      BY <3>2, <3>3
  <2> QED
    BY <1>5, <1>9, <1>10, <2>1 DEF UpContents
<1>12. t # Marker => \A i \in DOMAIN l3 : l3[i][2] < t
  BY <1>5, <1>8 DEF UpContents, Before
<1>13. (t = Marker => \A i \in DOMAIN q : q[i] # Marker) /\ OneMarker(q) => OneMarker(k)
  BY <1>2 DEF OneMarker
<1> QED
  BY <1>1, <1>4, <1>11, <1>12, <1>13 DEF k

(* Send_L_Data: a telegram, numbered after all others, is queued, and its  *)
(* local copy goes up.                                                     *)
LEMMA Sends ==
  ASSUME NEW c, NEW s, NEW n, NEW m, NEW que \in Nat, NEW ind \in Nat, NEW chg,
         LinkInv(c, s, n, m, que, ind, chg), NEW t \in Telegram, t = que + 1
  PROVE  LinkInv(SendLData(c, t), s, n, m, t, ind, chg)
<1> DEFINE d == SendLData(c, t)
           c1 == [c EXCEPT !.q = Append(c.q, t)]
           c2 == [c1 EXCEPT !.up = Append(c.up, -t)]
<1>1. /\ c \in Tunnels /\ s \in Servers /\ n \in Seq(ToServer) /\ m \in Seq(ToClient)
      /\ c.q \in Seq(Telegram \cup {Marker}) /\ c.up \in Seq((-MaxTel) .. MaxInd)
      /\ s.l3 \in Seq(Nat \X Telegram)
  BY DEF LinkInv, Types, Tunnels, Servers
<1>2. \A i \in DOMAIN s.l3 : s.l3[i][2] \in Telegram
  BY <1>1
<1>3. UpContents(c.q, s.l3, n, que, s.births)
  BY DEF LinkInv
<1>4. t # Marker /\ t \in Telegram /\ -t \in (-MaxTel) .. MaxInd /\ t \in Nat /\ t > 0
  BY LinkAssumption DEF Marker, Telegram
<1>5. /\ UpContents(Append(c.q, t), s.l3, n, t, s.births)
      /\ Append(c.q, t) # <<>> /\ Head(Append(c.q, t)) = (IF c.q = <<>> THEN t ELSE Head(c.q))
      /\ Append(c.q, t) \in Seq(Telegram \cup {Marker})
      /\ \A i \in DOMAIN s.l3 : s.l3[i][2] < t
      /\ OneMarker(c.q) => OneMarker(Append(c.q, t))
  <2>1. Counted(t, que, t)
    BY DEF Counted
  <2>2. t \in Telegram \cup {Marker}
    OBVIOUS
  <2>3. UpContents(Append(c.q, t), s.l3, n, t, s.births)
    BY <1>1, <1>2, <1>3, <2>1, <2>2, Longer
  <2>4. Append(c.q, t) # <<>> /\ Append(c.q, t) \in Seq(Telegram \cup {Marker})
    BY <1>1, <1>2, <1>3, <2>1, <2>2, Longer
  <2>5. Head(Append(c.q, t)) = (IF c.q = <<>> THEN t ELSE Head(c.q))
    BY <1>1, <1>2, <1>3, <2>1, <2>2, Longer
  <2>6. t # Marker => \A i \in DOMAIN s.l3 : s.l3[i][2] < t
    BY <1>1, <1>2, <1>3, <2>1, <2>2, Longer
  <2>7. (t = Marker => \A i \in DOMAIN c.q : c.q[i] # Marker) /\ OneMarker(c.q) => OneMarker(Append(c.q, t))
    BY <1>1, <1>2, <1>3, <2>1, <2>2, Longer
  <2> QED
    BY <1>4, <2>3, <2>4, <2>5, <2>6, <2>7
<1>6. Append(c.up, -t) \in Seq((-MaxTel) .. MaxInd)
      /\ \A i \in DOMAIN Append(c.up, -t) : (i \in DOMAIN c.up /\ Append(c.up, -t)[i] = c.up[i]) \/ Append(c.up, -t)[i] = -t
  BY <1>1, <1>4, Appended
<1>7. d = [c EXCEPT !.q = Append(c.q, t), !.up = Append(c.up, -t)]
  BY <1>1 DEF SendLData, Tunnels
<1>8. d \in Tunnels
  <2>1. d = c2
    BY <1>1, <1>7 DEF Tunnels
  <2>2. c1 \in Tunnels
    BY <1>1, <1>5, Updates
  <2>3. c2 \in Tunnels
    <3> HIDE DEF c1
    <3> QED
      BY <1>6, <2>2, Updates
  <2> QED
    BY <2>1, <2>3
<1>9. /\ d.ch = c.ch /\ d.mod = c.mod /\ d.sno = c.sno /\ d.rno = c.rno /\ d.want = c.want
      /\ d.acked = c.acked /\ d.dropped = c.dropped /\ d.q = Append(c.q, t) /\ d.up = Append(c.up, -t)
  BY <1>1, <1>7 DEF Tunnels
<1> HIDE DEF d
<1>10. Types(d, s, n, m) /\ Connecting(d.mod, n, m) /\ Mine(d.ch, n)
  BY <1>8, <1>9 DEF LinkInv, Types
<1>11. Len(d.q) = Len(c.q) + 1 /\ Len(c.q) \in Nat /\ FirstOf(d.q, t) = FirstOf(c.q, que)
  <2>1. Len(d.q) = Len(c.q) + 1 /\ Len(c.q) \in Nat
    BY <1>1, <1>4, <1>9, Appended
  <2>2. \A l \in Nat : (que + 1) - (l + 1) + 1 = que - l + 1
    OBVIOUS
  <2> QED
    BY <2>1, <2>2 DEF FirstOf
<1>12. UpLink(d, s, n, m, t, chg)
  <2>1. CASE c.mod = 0 /\ NoData(n)
    BY <1>9, <2>1 DEF UpLink
  <2>2. CASE ~(c.mod = 0 /\ NoData(n))
    <3>1. PICK y \in Number : UpGoes(c, s, n, m, y, que, chg)
      BY <2>2 DEF LinkInv, UpLink
    <3>2. \A i \in DOMAIN s.l3 : Later(s.l3[i], s.births, t)
      BY <1>5 DEF Later
    <3>3. y = c.sno => \A i \in DOMAIN s.l3 : d.q # <<>> /\ Head(d.q) # Marker => Later(s.l3[i], s.births, Head(d.q))
      BY <1>5, <1>9, <3>1, <3>2 DEF UpGoes
    <3>4. chg = 0 => Losses(d.q, s.l3, n, d.sno, y, d.dropped, t)
      BY <1>9, <1>11, <3>1 DEF UpGoes, Losses
    <3>5. UpGoes(d, s, n, m, y, t, chg)
      BY <1>9, <3>1, <3>3, <3>4 DEF UpGoes
    <3> QED
      BY <3>5 DEF UpLink
  <2> QED
    BY <2>1, <2>2
<1>13. DownContents(d.up, s.chans, m, ind)
  <2>1. \A i \in DOMAIN d.up : d.up[i] <= ind
    BY <1>4, <1>6, <1>9 DEF LinkInv, DownContents
  <2>2. \A i \in DOMAIN d.up : d.up[i] > 0 => i \in DOMAIN c.up /\ d.up[i] = c.up[i]
    BY <1>4, <1>6, <1>9
  <2>3. \A i, j \in DOMAIN d.up : i < j /\ d.up[i] > 0 /\ d.up[j] > 0 => d.up[i] < d.up[j]
    BY <2>2 DEF LinkInv, DownContents
  <2> QED
    BY <2>1, <2>3 DEF LinkInv, DownContents
<1>14. ASSUME NEW from, NEW ch, NEW x, NEW y, DownGoes(c.up, s.chans, n, m, from, ch, x, y)
       PROVE  DownGoes(d.up, s.chans, n, m, from, ch, x, y)
  <2>1. \A i \in DOMAIN m : IsData(m[i]) /\ m[i].cemi # 0 => -t < m[i].cemi
    <3>1. \A i \in DOMAIN m : m[i] \in ToClient
      BY <1>1
    <3>2. \A i \in DOMAIN m : IsData(m[i]) => m[i].cemi \in Nat
      BY <3>1, DownPackets, LinkAssumption DEF IsData
    <3> QED
      BY <1>4, <3>2
  <2>2. \A l \in DOMAIN s.chans : \A j \in DOMAIN s.chans[l].out : s.chans[l].out[j] # 0 => -t < s.chans[l].out[j]
    <3>1. \A l \in DOMAIN s.chans : s.chans[l].out \in Seq(0 .. MaxInd)
      <4>1. s.chans \in Seq(Chan)
        BY <1>1 DEF Servers
      <4>2. \A l \in DOMAIN s.chans : s.chans[l] \in Chan
        BY <4>1
      <4> QED
        BY <4>2 DEF Chan
    <3>2. \A l \in DOMAIN s.chans : \A j \in DOMAIN s.chans[l].out : s.chans[l].out[j] \in Nat
      BY <3>1, LinkAssumption
    <3> QED
      BY <1>4, <3>2
  <2>3. \A i \in DOMAIN m : i > from /\ IsData(m[i]) /\ m[i].ch = ch /\ m[i].seq = y /\ m[i].cemi # 0 =>
          \A j \in DOMAIN d.up : d.up[j] < m[i].cemi
    BY <1>6, <1>9, <1>14, <2>1 DEF DownGoes
  <2>4. \A l \in DOMAIN s.chans : s.chans[l].ch = ch =>
          \A j \in DOMAIN s.chans[l].out : s.chans[l].out[j] # 0 =>
             \A i \in DOMAIN d.up :
               d.up[i] < s.chans[l].out[j] \/ (j = 1 /\ d.up[i] = s.chans[l].out[1] /\ y = Succ(x))
    BY <1>6, <1>9, <1>14, <2>2 DEF DownGoes
  <2> QED
    BY <1>14, <2>3, <2>4 DEF DownGoes
<1>15. DownLink(d, s, n, m)
  BY <1>9, <1>14 DEF LinkInv, DownLink
<1>16. Answered(d, s, n, m)
  BY <1>14 DEF LinkInv, Answered
<1>17. Heads(d.mod, d.q, chg)
  BY <1>5, <1>9 DEF LinkInv, Heads
<1>18. Undisturbed(d, s, n, t, chg)
  <2>1. \A i \in DOMAIN d.q : (i \in DOMAIN c.q /\ d.q[i] = c.q[i]) \/ (i = Len(c.q) + 1 /\ d.q[i] = t)
    BY <1>1, <1>4, <1>9, Appended
  <2>4. \A l, i \in Int : (que + 1) - (l + 1) + i = que - l + i
    OBVIOUS
  <2>5. \A l \in Int : que - l + (l + 1) = que + 1
    OBVIOUS
  <2>2. chg = 0 => \A i \in DOMAIN d.q : d.q[i] = t - Len(d.q) + i
    <3> SUFFICES ASSUME chg = 0, NEW i \in DOMAIN d.q PROVE d.q[i] = t - Len(d.q) + i
      OBVIOUS
    <3>1. CASE i \in DOMAIN c.q /\ d.q[i] = c.q[i]
      <4>1. c.q[i] = que - Len(c.q) + i /\ i \in Nat
        BY <1>1, <3>1 DEF LinkInv, Undisturbed
      <4>2. t - Len(d.q) + i = que - Len(c.q) + i
        BY <1>11, <2>4, <4>1
      <4> QED
        BY <3>1, <4>1, <4>2
    <3>2. CASE i = Len(c.q) + 1 /\ d.q[i] = que + 1
      <4>1. i \in Int /\ Len(c.q) \in Int
        BY <1>11, <3>2
      <4>2. t - Len(d.q) + i = que - Len(c.q) + i
        BY <1>11, <2>4, <4>1
      <4>3. que - Len(c.q) + i = que + 1
        BY <2>5, <3>2, <4>1
      <4> QED
        BY <3>2, <4>2, <4>3
    <3> QED
      BY <2>1, <3>1, <3>2
  <2>3. chg = 0 => Len(d.q) <= t
    BY <1>11 DEF LinkInv, Undisturbed
  <2> QED
    BY <1>9, <2>2, <2>3 DEF LinkInv, Undisturbed
<1>19. LinkInv(d, s, n, m, t, ind, chg)
  BY <1>5, <1>9, <1>10, <1>12, <1>13, <1>15, <1>16, <1>17, <1>18 DEF LinkInv
<1> QED
  BY <1>19 DEF d

(* enterBusmonitor and leaveBusmonitor: a Marker is queued, and what is    *)
(* wanted changes.                                                         *)
LEMMA Switches ==
  ASSUME NEW c, NEW s, NEW n, NEW m, NEW que \in Nat, NEW ind \in Nat, NEW chg \in Nat,
         LinkInv(c, s, n, m, que, ind, chg),
         Overlap \/ Marker \notin {c.q[i] : i \in DOMAIN c.q},
         NEW d, d = EnterBusmonitor(c) \/ d = LeaveBusmonitor(c)
  PROVE  LinkInv(d, s, n, m, que, ind, chg + 1)
<1>1. /\ c \in Tunnels /\ s \in Servers /\ n \in Seq(ToServer) /\ m \in Seq(ToClient)
      /\ c.q \in Seq(Telegram \cup {Marker}) /\ s.l3 \in Seq(Nat \X Telegram)
      /\ c.support \in BOOLEAN /\ c.want \in BOOLEAN
  BY DEF LinkInv, Types, Tunnels, Servers
<1>2. \A i \in DOMAIN s.l3 : s.l3[i][2] \in Telegram
  BY <1>1
<1>3. UpContents(c.q, s.l3, n, que, s.births)
  BY DEF LinkInv
<1>4. /\ UpContents(Append(c.q, Marker), s.l3, n, que, s.births)
      /\ Append(c.q, Marker) # <<>> /\ Head(Append(c.q, Marker)) = (IF c.q = <<>> THEN Marker ELSE Head(c.q))
      /\ Append(c.q, Marker) \in Seq(Telegram \cup {Marker})
      /\ (\A i \in DOMAIN c.q : c.q[i] # Marker) /\ OneMarker(c.q) => OneMarker(Append(c.q, Marker))
  <2>1. Counted(Marker, que, que)
    BY DEF Counted
  <2>2. Marker \in Telegram \cup {Marker}
    OBVIOUS
  <2>3. UpContents(Append(c.q, Marker), s.l3, n, que, s.births)
    BY <1>1, <1>2, <1>3, <2>1, <2>2, Longer
  <2>4. Append(c.q, Marker) # <<>> /\ Append(c.q, Marker) \in Seq(Telegram \cup {Marker})
    BY <1>1, <2>2, Appended
  <2>5. Head(Append(c.q, Marker)) = (IF c.q = <<>> THEN Marker ELSE Head(c.q))
    BY <1>1, <2>2, Appended
  <2>6. (Marker = Marker => \A i \in DOMAIN c.q : c.q[i] # Marker) /\ OneMarker(c.q) => OneMarker(Append(c.q, Marker))
    BY <1>1, <1>2, <1>3, <2>1, <2>2, Longer
  <2> QED
    BY <2>3, <2>4, <2>5, <2>6
<1>5. PICK w \in BOOLEAN : d = [c EXCEPT !.want = w, !.q = Append(c.q, Marker)]
  <2>1. LeaveBusmonitor(c) = [c EXCEPT !.want = FALSE, !.q = Append(c.q, Marker)]
    BY <1>1 DEF LeaveBusmonitor, Tunnels
  <2>2. EnterBusmonitor(c) = [c EXCEPT !.want = (c.support \/ c.want), !.q = Append(c.q, Marker)]
    BY <1>1 DEF EnterBusmonitor, Tunnels
  <2> QED
    BY <1>1, <2>1, <2>2
<1> DEFINE c1 == [c EXCEPT !.want = w]
           c2 == [c1 EXCEPT !.q = Append(c.q, Marker)]
<1>6. d \in Tunnels
  <2>1. d = c2
    BY <1>1, <1>5 DEF Tunnels
  <2>2. c1 \in Tunnels
    BY <1>1, Updates
  <2>3. c2 \in Tunnels
    <3> HIDE DEF c1
    <3> QED
      BY <1>4, <2>2, Updates
  <2> QED
    BY <2>1, <2>3
<1>7. /\ d.ch = c.ch /\ d.mod = c.mod /\ d.sno = c.sno /\ d.rno = c.rno
      /\ d.acked = c.acked /\ d.dropped = c.dropped /\ d.q = Append(c.q, Marker) /\ d.up = c.up
  BY <1>1, <1>5 DEF Tunnels
<1>8. Types(d, s, n, m) /\ Connecting(d.mod, n, m) /\ Mine(d.ch, n)
  BY <1>6, <1>7 DEF LinkInv, Types
<1>9. chg + 1 # 0
  OBVIOUS
<1>10. UpLink(d, s, n, m, que, chg + 1)
  <2>1. CASE c.mod = 0 /\ NoData(n)
    BY <1>7, <2>1 DEF UpLink
  <2>2. CASE ~(c.mod = 0 /\ NoData(n))
    <3>1. PICK y \in Number : UpGoes(c, s, n, m, y, que, chg)
      BY <2>2 DEF LinkInv, UpLink
    <3>2. UpGoes(d, s, n, m, y, que, chg + 1)
      BY <1>4, <1>7, <1>9, <3>1 DEF UpGoes
    <3> QED
      BY <3>2 DEF UpLink
  <2> QED
    BY <2>1, <2>2
<1>11. DownLink(d, s, n, m) /\ Answered(d, s, n, m)
  BY <1>7 DEF LinkInv, DownLink, Answered
<1>12. Heads(d.mod, d.q, chg + 1)
  BY <1>4, <1>7, <1>9, LinkAssumption DEF LinkInv, Heads
<1>13. Undisturbed(d, s, n, que, chg + 1)
  BY <1>9 DEF Undisturbed
<1> QED
  BY <1>4, <1>7, <1>8, <1>10, <1>11, <1>12, <1>13 DEF LinkInv

----------------------------------------------------------------------------
(* The server.  What it sends that is neither data nor an acknowledgement. *)
Plain(f) == \A i \in DOMAIN f : ~IsData(f[i]) /\ ~IsAck(f[i]) /\ f[i].t # "connres"

(* Two sequences of datagrams one after the other: where each element is.  *)
LEMMA Joined ==
  ASSUME NEW S, NEW m \in Seq(S), NEW f \in Seq(S)
  PROVE  /\ m \o f \in Seq(S) /\ Len(m \o f) = Len(m) + Len(f) /\ Len(m) \in Nat
         /\ \A i \in DOMAIN m : i \in DOMAIN (m \o f) /\ (m \o f)[i] = m[i]
         /\ \A i \in DOMAIN (m \o f) :
              (i \in DOMAIN m /\ (m \o f)[i] = m[i])
                \/ (i - Len(m) \in DOMAIN f /\ (m \o f)[i] = f[i - Len(m)] /\ \A j \in DOMAIN m : j < i)
         /\ \A i \in DOMAIN f : Len(m) + i \in DOMAIN (m \o f) /\ (m \o f)[Len(m) + i] = f[i]
OBVIOUS

(* The server sends datagrams that are neither data nor acknowledgements   *)
(* nor answers to a request for a channel: they say nothing of the links.  *)
LEMMA SendsDown ==
  ASSUME NEW c, NEW s, NEW n, NEW m, NEW que, NEW ind, NEW chg,
         LinkInv(c, s, n, m, que, ind, chg), NEW f \in Seq(ToClient), Plain(f)
  PROVE  LinkInv(c, s, n, m \o f, que, ind, chg)
<1> DEFINE k == m \o f
<1> USE DEF LinkInv
<1>1. m \in Seq(ToClient)
  BY DEF Types
<1>2. /\ k \in Seq(ToClient)
      /\ \A i \in DOMAIN m : i \in DOMAIN k /\ k[i] = m[i]
      /\ \A i \in DOMAIN k : (i \in DOMAIN m /\ k[i] = m[i])
           \/ (~IsData(k[i]) /\ ~IsAck(k[i]) /\ k[i].t # "connres")
  <2>1. k \in Seq(ToClient) /\ \A i \in DOMAIN m : i \in DOMAIN k /\ k[i] = m[i]
    BY <1>1, Joined
  <2>2. \A i \in DOMAIN k : (i \in DOMAIN m /\ k[i] = m[i]) \/ \E j \in DOMAIN f : k[i] = f[j]
    BY <1>1, Joined
  <2> QED
    BY <2>1, <2>2 DEF Plain
<1> HIDE DEF k
<1>3. Types(c, s, n, k)
  BY <1>2 DEF Types
<1>4. NoAcks(m) <=> NoAcks(k)
  BY <1>2 DEF NoAcks
<1>5. Answers(m) = Answers(k)
  BY <1>2 DEF Answers
<1>6. Connecting(c.mod, n, k)
  BY <1>4, <1>5 DEF Connecting
<1>7. UpLink(c, s, n, k, que, chg)
  <2>1. CASE c.mod = 0 /\ NoData(n)
    BY <2>1 DEF UpLink
  <2>2. CASE ~(c.mod = 0 /\ NoData(n))
    <3>1. PICK y \in Number : UpGoes(c, s, n, m, y, que, chg)
      BY <2>2 DEF UpLink
    <3>2. AcksFit(k, c.ch, c.sno, y)
      BY <3>1, <1>2 DEF UpGoes, AcksFit
    <3>3. UpGoes(c, s, n, k, y, que, chg)
      BY <3>1, <3>2 DEF UpGoes
    <3> QED
      BY <3>3 DEF UpLink
  <2> QED
    BY <2>1, <2>2
<1>8. DownContents(c.up, s.chans, k, ind)
  BY <1>2 DEF DownContents
<1>9. ASSUME NEW from, NEW ch, NEW x, NEW y, DownGoes(c.up, s.chans, n, m, from, ch, x, y)
      PROVE  DownGoes(c.up, s.chans, n, k, from, ch, x, y)
  <2>1. DataFits(k, from, ch, x, y)
    BY <1>2, <1>9 DEF DownGoes, DataFits
  <2>2. \A i \in DOMAIN k : i > from /\ IsData(k[i]) /\ k[i].ch = ch /\ k[i].seq = y /\ k[i].cemi # 0 =>
          \A j \in DOMAIN c.up : c.up[j] < k[i].cemi
    BY <1>2, <1>9 DEF DownGoes
  <2>3. \A l \in DOMAIN s.chans : s.chans[l].ch = ch =>
          \A j \in DOMAIN s.chans[l].out : s.chans[l].out[j] # 0 =>
            \A i \in DOMAIN k : i > from /\ IsData(k[i]) /\ k[i].ch = ch =>
                 k[i].cemi < s.chans[l].out[j] \/ (j = 1 /\ k[i].cemi = s.chans[l].out[1])
    BY <1>2, <1>9 DEF DownGoes
  <2> QED
    BY <2>1, <2>2, <2>3, <1>9 DEF DownGoes
<1>10. DownLink(c, s, n, k)
  BY <1>9 DEF DownLink
<1>11. Answered(c, s, n, k)
  <2>1. \A i \in Answers(k) : i \in Answers(m) /\ k[i] = m[i]
    BY <1>2, <1>5 DEF Answers
  <2> QED
    BY <1>9, <2>1 DEF Answered
<1> QED
  BY <1>3, <1>6, <1>7, <1>8, <1>10, <1>11 DEF k

(* Nothing is left on its way to the server.                               *)
LEMMA Silence ==
  ASSUME NEW c, NEW s, NEW n, NEW m, NEW que, NEW ind, NEW chg,
         LinkInv(c, s, n, m, que, ind, chg)
  PROVE  LinkInv(c, s, <<>>, m, que, ind, chg)
<1> DEFINE k == <<>>
<1> USE DEF LinkInv
<1>1. k \in Seq(ToServer) /\ DOMAIN k = {}
  OBVIOUS
<1> HIDE DEF k
<1>2. Types(c, s, k, m)
  BY <1>1 DEF Types
<1>3. NoData(k) /\ Asks(k) = {} /\ Mine(c.ch, k)
  BY <1>1 DEF NoData, Asks, Mine
<1>4. Connecting(c.mod, k, m)
  BY <1>3 DEF Connecting
<1>5. UpContents(c.q, s.l3, k, que, s.births)
  BY <1>1 DEF UpContents
<1>6. UpLink(c, s, k, m, que, chg)
  <2>1. CASE c.mod = 0
    BY <2>1, <1>3 DEF UpLink
  <2>2. CASE c.mod # 0
    <3>1. PICK y \in Number : UpGoes(c, s, n, m, y, que, chg)
      BY <2>2 DEF UpLink
    <3>2. DataFits(k, 0, c.ch, c.sno, y)
      BY <1>1 DEF DataFits
    <3>3. Losses(c.q, s.l3, n, c.sno, y, c.dropped, que) => Losses(c.q, s.l3, k, c.sno, y, c.dropped, que)
      BY <1>1 DEF Losses
    <3>4. UpGoes(c, s, k, m, y, que, chg)
      BY <3>1, <3>2, <3>3, <1>1 DEF UpGoes
    <3> QED
      BY <3>4 DEF UpLink
  <2> QED
    BY <2>1, <2>2
<1>7. ASSUME NEW from, NEW ch, NEW x, NEW y, DownGoes(c.up, s.chans, n, m, from, ch, x, y)
       PROVE  DownGoes(c.up, s.chans, k, m, from, ch, x, y)
  <2>1. AcksFit(k, ch, x, y)
    BY <1>1 DEF AcksFit
  <2> QED
    BY <2>1, <1>7 DEF DownGoes
<1>8. DownLink(c, s, k, m) /\ Answered(c, s, k, m)
  BY <1>7 DEF DownLink, Answered
<1>9. Undisturbed(c, s, k, que, chg)
  BY <1>3 DEF Undisturbed
<1> QED
  BY <1>2, <1>3, <1>4, <1>5, <1>6, <1>8, <1>9 DEF k

(* Channels go.  Nothing is said of the link that needs them.              *)
LEMMA Fewer ==
  ASSUME NEW c, NEW s, NEW n, NEW m, NEW que, NEW ind, NEW chg,
         LinkInv(c, s, n, m, que, ind, chg),
         NEW z \in Servers, z.l3 = s.l3, z.births = s.births,
         \A i \in DOMAIN z.chans : \E j \in DOMAIN s.chans : z.chans[i] = s.chans[j],
         Table(z)
  PROVE  LinkInv(c, z, n, m, que, ind, chg)
<1> USE DEF LinkInv
<1>1. Types(c, z, n, m)
  BY DEF Types
<1>2. UpLink(c, z, n, m, que, chg)
  <2>1. CASE c.mod = 0 /\ NoData(n)
    BY <2>1 DEF UpLink
  <2>2. CASE ~(c.mod = 0 /\ NoData(n))
    <3>1. PICK y \in Number : UpGoes(c, s, n, m, y, que, chg)
      BY <2>2 DEF UpLink
    <3>2. \A i \in DOMAIN z.chans : z.chans[i].ch = c.ch => z.chans[i].rno = y /\ z.chans[i].birth = z.births
      BY <3>1 DEF UpGoes
    <3>3. UpGoes(c, z, n, m, y, que, chg)
      BY <3>1, <3>2 DEF UpGoes
    <3> QED
      BY <3>3 DEF UpLink
  <2> QED
    BY <2>1, <2>2
<1>3. DownContents(c.up, z.chans, m, ind)
  <2>1. \A i \in DOMAIN z.chans :
          LET out == z.chans[i].out IN
          /\ \A j \in DOMAIN out : out[j] <= ind
          /\ \A j, k \in DOMAIN out : j < k /\ out[j] # 0 /\ out[k] # 0 => out[j] < out[k]
    <3> SUFFICES ASSUME NEW i \in DOMAIN z.chans
                 PROVE  LET out == z.chans[i].out IN
                        /\ \A j \in DOMAIN out : out[j] <= ind
                        /\ \A j, k \in DOMAIN out : j < k /\ out[j] # 0 /\ out[k] # 0 => out[j] < out[k]
      OBVIOUS
    <3>1. PICK l \in DOMAIN s.chans : z.chans[i] = s.chans[l]
      OBVIOUS
    <3> QED
      BY <3>1 DEF DownContents
  <2> QED
    BY <2>1 DEF DownContents
<1>4. ASSUME NEW from, NEW ch, NEW x, NEW y, DownGoes(c.up, s.chans, n, m, from, ch, x, y)
      PROVE  DownGoes(c.up, z.chans, n, m, from, ch, x, y)
  <2>1. \A k \in DOMAIN z.chans : z.chans[k].ch = ch =>
          /\ z.chans[k].sno = x
          /\ \A j \in DOMAIN z.chans[k].out : z.chans[k].out[j] # 0 =>
              /\ \A i \in DOMAIN c.up :
                   c.up[i] < z.chans[k].out[j] \/ (j = 1 /\ c.up[i] = z.chans[k].out[1] /\ y = Succ(x))
              /\ \A i \in DOMAIN m : i > from /\ IsData(m[i]) /\ m[i].ch = ch =>
                   m[i].cemi < z.chans[k].out[j] \/ (j = 1 /\ m[i].cemi = z.chans[k].out[1])
    <3> SUFFICES ASSUME NEW k \in DOMAIN z.chans, z.chans[k].ch = ch
                 PROVE
          /\ z.chans[k].sno = x
          /\ \A j \in DOMAIN z.chans[k].out : z.chans[k].out[j] # 0 =>
              /\ \A i \in DOMAIN c.up :
                   c.up[i] < z.chans[k].out[j] \/ (j = 1 /\ c.up[i] = z.chans[k].out[1] /\ y = Succ(x))
              /\ \A i \in DOMAIN m : i > from /\ IsData(m[i]) /\ m[i].ch = ch =>
                   m[i].cemi < z.chans[k].out[j] \/ (j = 1 /\ m[i].cemi = z.chans[k].out[1])
      OBVIOUS
    <3>1. PICK l \in DOMAIN s.chans : z.chans[k] = s.chans[l]
      OBVIOUS
    <3> QED
      BY <3>1, <1>4 DEF DownGoes
  <2> QED
    BY <2>1, <1>4 DEF DownGoes
<1>5. DownLink(c, z, n, m)
  BY <1>4 DEF DownLink
<1>6. Answered(c, z, n, m)
  <2> SUFFICES ASSUME NEW i \in Answers(m), m[i].status = 0
               PROVE  /\ \A j \in DOMAIN z.l3 : z.l3[j][1] < z.births
                      /\ \A k \in DOMAIN z.chans : z.chans[k].ch = m[i].ch => z.chans[k].rno = 0 /\ z.chans[k].birth = z.births
                      /\ DownGoes(c.up, z.chans, n, m, i, m[i].ch, 0, 0)
    BY DEF Answered
  <2>1. /\ \A j \in DOMAIN s.l3 : s.l3[j][1] < s.births
        /\ \A k \in DOMAIN s.chans : s.chans[k].ch = m[i].ch => s.chans[k].rno = 0 /\ s.chans[k].birth = s.births
        /\ DownGoes(c.up, s.chans, n, m, i, m[i].ch, 0, 0)
    BY DEF Answered
  <2>2. DownGoes(c.up, z.chans, n, m, i, m[i].ch, 0, 0)
    BY <1>4, <2>1
  <2>3. \A k \in DOMAIN z.chans : z.chans[k].ch = m[i].ch => z.chans[k].rno = 0 /\ z.chans[k].birth = s.births
    BY <2>1
  <2> QED
    BY <2>1, <2>2, <2>3
<1>7. Undisturbed(c, z, n, que, chg)
  BY DEF Undisturbed
<1> QED
  BY <1>1, <1>2, <1>3, <1>5, <1>6, <1>7

(* A request for a channel is answered: nothing else is under way.         *)
LEMMA Answering ==
  ASSUME NEW c, NEW s, NEW n, NEW m, NEW que, NEW ind, NEW chg,
         LinkInv(c, s, n, m, que, ind, chg), n # <<>>, Head(n).t = "connreq",
         NEW p \in ToClient, p.t = "connres"
  PROVE  /\ c.mod = 0 /\ NoData(Tail(n)) /\ NoAcks(Append(m, p)) /\ Asks(Tail(n)) = {}
         /\ 1 \in Asks(n) /\ Head(n) = n[1]
         /\ Connecting(c.mod, Tail(n), Append(m, p))
         /\ Append(m, p) \in Seq(ToClient) /\ Tail(n) \in Seq(ToServer)
         /\ \A i \in DOMAIN Append(m, p) : (i \in DOMAIN m /\ Append(m, p)[i] = m[i]) \/ Append(m, p)[i] = p
<1> DEFINE k == Append(m, p)
           l == Tail(n)
<1>1. m \in Seq(ToClient) /\ n \in Seq(ToServer)
  BY DEF LinkInv, Types
<1>2. Head(n) = n[1] /\ 1 \in DOMAIN n /\ l \in Seq(ToServer)
      /\ \A i \in DOMAIN l : i + 1 \in DOMAIN n /\ l[i] = n[i + 1] /\ i + 1 # 1
  BY <1>1, Tailed
<1>3. k \in Seq(ToClient) /\ Len(m) \in Nat
      /\ \A i \in DOMAIN m : i \in DOMAIN k /\ k[i] = m[i] /\ i < Len(m) + 1
  BY <1>1, Appended
<1>4. \A i \in DOMAIN k : (i \in DOMAIN m /\ k[i] = m[i]) \/ (i = Len(m) + 1 /\ k[i] = p)
  BY <1>1, Appended
<1> HIDE DEF k, l
<1>6. 1 \in Asks(n)
  BY <1>2 DEF Asks
<1>7. c.mod = 0 /\ NoData(n) /\ NoAcks(m) /\ Answers(m) = {} /\ \A i, j \in Asks(n) : i = j
  BY <1>6 DEF LinkInv, Connecting
<1>8. NoData(l)
  BY <1>2, <1>7 DEF NoData
<1>9. Asks(l) = {}
  <2>1. \A i \in Asks(l) : i + 1 \in Asks(n) /\ i + 1 # 1
    BY <1>2 DEF Asks
  <2> QED
    BY <1>6, <1>7, <2>1
<1>10. NoAcks(k)
  BY <1>4, <1>7 DEF NoAcks, IsAck
<1>11. \A i \in Answers(k) : i = Len(m) + 1 /\ k[i] = p
  BY <1>4, <1>7 DEF Answers
<1>12. Connecting(c.mod, l, k)
  BY <1>7, <1>8, <1>9, <1>10, <1>11 DEF Connecting
<1> QED
  BY <1>2, <1>3, <1>4, <1>6, <1>7, <1>8, <1>9, <1>10, <1>12 DEF k, l

(* A first answer is the only one, and the last datagram under way.        *)
LEMMA OnlyAnswer ==
  ASSUME NEW m \in Seq(ToClient), Answers(m) = {}, NEW p \in ToClient
  PROVE  \A i \in Answers(Append(m, p)) : Append(m, p)[i] = p /\ \A j \in DOMAIN Append(m, p) : ~(i < j)
<1> DEFINE k == Append(m, p)
<1>1. \A i \in DOMAIN k : (i \in DOMAIN m /\ k[i] = m[i]) \/ (i = Len(m) + 1 /\ k[i] = p)
  BY Appended
<1>2. \A j \in DOMAIN k : ~(Len(m) + 1 < j)
  BY Appended
<1> HIDE DEF k
<1>3. \A i \in Answers(k) : i = Len(m) + 1 /\ k[i] = p
  BY <1>1 DEF Answers
<1>4. \A i \in Answers(k) : k[i] = p /\ \A j \in DOMAIN k : ~(i < j)
  BY <1>2, <1>3
<1> QED
  BY <1>4 DEF k

(* The server refuses a channel.                                           *)
LEMMA Refuses ==
  ASSUME NEW c, NEW s, NEW n, NEW m, NEW que, NEW ind, NEW chg,
         LinkInv(c, s, n, m, que, ind, chg), n # <<>>, Head(n).t = "connreq",
         NEW p \in ToClient, p.t = "connres", p.status # 0
  PROVE  LinkInv(c, s, Tail(n), Append(m, p), que, ind, chg)
<1> DEFINE k == Append(m, p)
           l == Tail(n)
<1>1. LinkInv(c, s, l, m, que, ind, chg)
  BY NextUp
<1>2. /\ c.mod = 0 /\ NoData(l) /\ Connecting(c.mod, l, k)
      /\ k \in Seq(ToClient) /\ l \in Seq(ToServer)
      /\ \A i \in DOMAIN k : (i \in DOMAIN m /\ k[i] = m[i]) \/ k[i] = p
      /\ \A i \in Answers(k) : k[i] = p
  <2>1. c.mod = 0 /\ NoData(l) /\ Connecting(c.mod, l, k)
    <3>1. c.mod = 0 /\ NoData(Tail(n))
      BY Answering
    <3>2. Connecting(c.mod, Tail(n), Append(m, p))
      BY Answering
    <3> QED
      BY <3>1, <3>2
  <2>0. m \in Seq(ToClient) /\ n \in Seq(ToServer)
    BY DEF LinkInv, Types
  <2>2. k \in Seq(ToClient) /\ l \in Seq(ToServer)
    BY <2>0, Appended, Tailed
  <2>3. \A i \in DOMAIN k : (i \in DOMAIN m /\ k[i] = m[i]) \/ k[i] = p
    BY <2>0, Appended
  <2>4. \A i \in Answers(k) : k[i] = p
    <3>1. Answers(m) = {}
      <4>1. 1 \in Asks(n)
        BY Answering
      <4> QED
        BY <4>1 DEF LinkInv, Connecting
    <3> QED
      BY <2>0, <3>1, OnlyAnswer
  <2> QED
    BY <2>1, <2>2, <2>3, <2>4
<1> HIDE DEF k, l
<1>3. Types(c, s, l, k)
  BY <1>1, <1>2 DEF LinkInv, Types
<1>4. UpLink(c, s, l, k, que, chg) /\ DownLink(c, s, l, k)
  BY <1>2 DEF UpLink, DownLink
<1>5. DownContents(c.up, s.chans, k, ind)
  BY <1>1, <1>2 DEF LinkInv, DownContents, IsData
<1>6. Answered(c, s, l, k)
  BY <1>2 DEF Answered
<1> QED
  BY <1>1, <1>2, <1>3, <1>4, <1>5, <1>6 DEF LinkInv, k, l

(* The server opens a channel under a number that is free; z is the server *)
(* after it, e the new channel.                                            *)
LEMMA Grants ==
  ASSUME NEW c, NEW s, NEW n, NEW m, NEW que, NEW ind \in Nat, NEW chg,
         LinkInv(c, s, n, m, que, ind, chg), n # <<>>, Head(n).t = "connreq",
         NEW p \in ToClient, p.t = "connres", p.ch \in Channel, p.ch \notin Numbers(s),
         NEW e \in Chan, e.ch = p.ch, e.type = (IF Head(n).mon THEN 1 ELSE 0), e.state = 0,
         e.sno = 0, e.rno = 0, e.out = <<>>, e.birth = s.births + 1,
         NEW z \in Servers, z.l3 = s.l3, z.births = s.births + 1, z.chans = Append(s.chans, e),
         (z.reg = s.reg /\ z.count = s.count) \/ (Head(n).mon /\ z.count = 1)
  PROVE  LinkInv(c, z, Tail(n), Append(m, p), que, ind, chg)
<1> DEFINE k == Append(m, p)
           l == Tail(n)
<1>1. LinkInv(c, s, l, m, que, ind, chg)
  BY NextUp
<1>2. /\ c.mod = 0 /\ NoData(l) /\ Connecting(c.mod, l, k) /\ Asks(l) = {} /\ 1 \in Asks(n) /\ Head(n) = n[1]
      /\ k \in Seq(ToClient) /\ l \in Seq(ToServer)
      /\ \A i \in DOMAIN k : (i \in DOMAIN m /\ k[i] = m[i]) \/ k[i] = p
      /\ \A i \in Answers(k) : k[i] = p /\ \A j \in DOMAIN k : ~(i < j)
  <2>1. c.mod = 0 /\ NoData(l) /\ Connecting(c.mod, l, k) /\ Asks(l) = {}
    BY Answering
  <2>2. 1 \in Asks(n) /\ Head(n) = n[1]
    BY Answering
  <2>0. m \in Seq(ToClient) /\ n \in Seq(ToServer)
    BY DEF LinkInv, Types
  <2>3. k \in Seq(ToClient) /\ l \in Seq(ToServer)
    BY <2>0, Appended, Tailed
  <2>4. \A i \in DOMAIN k : (i \in DOMAIN m /\ k[i] = m[i]) \/ k[i] = p
    BY <2>0, Appended
  <2>5. \A i \in Answers(k) : k[i] = p /\ \A j \in DOMAIN k : ~(i < j)
    <3>1. Answers(m) = {}
      BY <2>2 DEF LinkInv, Connecting
    <3> QED
      BY <2>0, <3>1, OnlyAnswer
  <2> QED
    BY <2>1, <2>2, <2>3, <2>4, <2>5
<1>3. s \in Servers /\ s.chans \in Seq(Chan) /\ s.births \in Nat /\ s.l3 \in Seq(Nat \X Telegram)
  BY DEF LinkInv, Types, Servers
<1>4. \A i \in DOMAIN s.chans : i \in DOMAIN z.chans /\ z.chans[i] = s.chans[i]
  BY <1>3, Appended
<1>5. \A i \in DOMAIN z.chans : (i \in DOMAIN s.chans /\ z.chans[i] = s.chans[i]) \/ (i = Len(s.chans) + 1 /\ z.chans[i] = e)
  BY <1>3, Appended
<1>6. Len(s.chans) + 1 \in DOMAIN z.chans /\ z.chans[Len(s.chans) + 1] = e
  BY <1>3, Appended
<1>7. \A i \in DOMAIN s.chans : s.chans[i].ch # e.ch
  BY DEF Numbers
<1> HIDE DEF k, l
<1>8. Types(c, z, l, k)
  BY <1>1, <1>2 DEF LinkInv, Types
<1>9. Table(z)
  <2>1. \A i, j \in DOMAIN z.chans : z.chans[i].ch = z.chans[j].ch => i = j
    BY <1>1, <1>5, <1>7 DEF LinkInv, Table
  <2>2. \A i \in DOMAIN z.chans : z.chans[i].state # 0 => z.chans[i].out # <<>>
    BY <1>1, <1>5 DEF LinkInv, Table
  <2>3. z.reg => z.count = 1 /\ \E i \in DOMAIN z.chans : z.chans[i].type = 1
    <3>1. CASE z.reg = s.reg /\ z.count = s.count
      BY <1>1, <1>4, <3>1 DEF LinkInv, Table
    <3>2. CASE Head(n).mon /\ z.count = 1
      BY <1>6, <3>2
    <3> QED
      BY <3>1, <3>2
  <2> QED
    BY <2>1, <2>2, <2>3 DEF Table
<1>10. Mine(c.ch, l)
  BY <1>1 DEF LinkInv
<1>11. UpContents(c.q, z.l3, l, que, z.births)
  <2>1. \A i \in DOMAIN s.l3 : s.l3[i][1] \in Nat
    BY <1>3
  <2>2. \A i \in DOMAIN s.l3 : s.l3[i][1] <= s.births + 1
    BY <1>1, <1>3, <2>1 DEF LinkInv, UpContents
  <2> QED
    BY <1>1, <2>2 DEF LinkInv, UpContents
<1>12. UpLink(c, z, l, k, que, chg) /\ DownLink(c, z, l, k)
  BY <1>2 DEF UpLink, DownLink
<1>13. DownContents(c.up, z.chans, k, ind)
  <2>1. \A i \in DOMAIN k : IsData(k[i]) => k[i].cemi <= ind
    BY <1>1, <1>2 DEF LinkInv, DownContents, IsData
  <2>2. \A i \in DOMAIN z.chans :
          LET out == z.chans[i].out IN
          /\ \A j \in DOMAIN out : out[j] <= ind
          /\ \A j, h \in DOMAIN out : j < h /\ out[j] # 0 /\ out[h] # 0 => out[j] < out[h]
    BY <1>1, <1>5 DEF LinkInv, DownContents
  <2> QED
    BY <1>1, <2>1, <2>2 DEF LinkInv, DownContents
<1>14. Answered(c, z, l, k)
  <2> SUFFICES ASSUME NEW i \in Answers(k), k[i].status = 0
               PROVE  /\ \A j \in DOMAIN z.l3 : z.l3[j][1] < z.births
                      /\ \A h \in DOMAIN z.chans : z.chans[h].ch = k[i].ch => z.chans[h].rno = 0 /\ z.chans[h].birth = z.births
                      /\ DownGoes(c.up, z.chans, l, k, i, k[i].ch, 0, 0)
    BY DEF Answered
  <2>1. k[i] = p /\ \A j \in DOMAIN k : ~(i < j)
    BY <1>2
  <2>2. \A j \in DOMAIN z.l3 : z.l3[j][1] < z.births
    <3>1. \A j \in DOMAIN s.l3 : s.l3[j][1] \in Nat /\ s.l3[j][1] <= s.births
      BY <1>1, <1>3 DEF LinkInv, UpContents
    <3> QED
      BY <1>3, <3>1
  <2>3. \A h \in DOMAIN z.chans : z.chans[h].ch = p.ch => z.chans[h] = e
    BY <1>5, <1>7
  <2>4. i \in Nat /\ \A j \in DOMAIN k : ~(j > i)
    <3>1. DOMAIN k \subseteq Nat /\ i \in DOMAIN k
      BY <1>2 DEF Answers
    <3> QED
      BY <2>1, <3>1
  <2>5. DataFits(k, i, p.ch, 0, 0)
    BY <2>4 DEF DataFits
  <2>6. AcksFit(l, p.ch, 0, 0)
    BY <1>2 DEF NoData, AcksFit
  <2>7. Follows(0, 0)
    BY DEF Follows
  <2>8. DownGoes(c.up, z.chans, l, k, i, p.ch, 0, 0)
    BY <2>3, <2>4, <2>5, <2>6, <2>7 DEF DownGoes
  <2> QED
    BY <2>1, <2>2, <2>3, <2>8
<1>15. Undisturbed(c, z, l, que, chg)
  <2>1. chg = 0 => \A i \in DOMAIN z.chans : z.chans[i].type = 0
    <3>1. chg = 0 => ~Head(n).mon
      BY <1>2 DEF LinkInv, Undisturbed
    <3> QED
      BY <1>1, <1>5, <3>1 DEF LinkInv, Undisturbed
  <2> QED
    BY <1>1, <2>1 DEF LinkInv, Undisturbed
<1> QED
  BY <1>1, <1>2, <1>8, <1>9, <1>10, <1>11, <1>12, <1>13, <1>14, <1>15 DEF LinkInv, k, l

(* The fields of the server's record, one at a time.                       *)
LEMMA ServerUpdates ==
  ASSUME NEW s \in Servers
  PROVE  /\ \A x \in Seq(Chan) : [s EXCEPT !.chans = x] \in Servers
         /\ \A x \in Int : [s EXCEPT !.count = x] \in Servers
         /\ \A x \in BOOLEAN : [s EXCEPT !.reg = x] \in Servers
         /\ \A x \in Seq(Nat \X Telegram) : [s EXCEPT !.l3 = x] \in Servers
         /\ \A x \in Nat : [s EXCEPT !.births = x] \in Servers
         /\ \A x \in Seq(ToClient) : [s EXCEPT !.sent = x] \in Servers
BY DEF Servers

(* The fields of a channel, one at a time.                                 *)
LEMMA ChannelUpdates ==
  ASSUME NEW k \in Chan
  PROVE  /\ \A x \in 0 .. MaxSend : [k EXCEPT !.state = x] \in Chan
         /\ \A x \in Number : [k EXCEPT !.sno = x] \in Chan
         /\ \A x \in Number : [k EXCEPT !.rno = x] \in Chan
         /\ \A x \in Seq(0 .. MaxInd) : [k EXCEPT !.out = x] \in Chan
BY DEF Chan

(* One channel of the table changes.                                       *)
LEMMA Puts ==
  ASSUME NEW t \in Seq(Chan), NEW i \in DOMAIN t, NEW k \in Chan
  PROVE  /\ [t EXCEPT ![i] = k] \in Seq(Chan) /\ DOMAIN [t EXCEPT ![i] = k] = DOMAIN t
         /\ [t EXCEPT ![i] = k][i] = k
         /\ \A j \in DOMAIN t : j # i => [t EXCEPT ![i] = k][j] = t[j]
OBVIOUS

(* Out adds one datagram, and changes nothing else.                        *)
LEMMA Outs ==
  ASSUME NEW s \in Servers, NEW p \in ToClient
  PROVE  /\ Out(s, p) \in Servers /\ Out(s, p).sent = Append(s.sent, p)
         /\ Out(s, p).chans = s.chans /\ Out(s, p).count = s.count /\ Out(s, p).reg = s.reg
         /\ Out(s, p).l3 = s.l3 /\ Out(s, p).births = s.births
<1>1. Append(s.sent, p) \in Seq(ToClient)
  BY DEF Servers
<1>2. Out(s, p) = [s EXCEPT !.sent = Append(s.sent, p)]
  BY DEF Out, Servers
<1>3. Out(s, p) \in Servers
  BY <1>1, <1>2, ServerUpdates
<1> QED
  BY <1>2, <1>3 DEF Servers

(* The invariant says nothing of the datagrams that are still in sent.     *)
LEMMA Unsent ==
  ASSUME NEW c, NEW s, NEW n, NEW m, NEW que, NEW ind, NEW chg,
         LinkInv(c, s, n, m, que, ind, chg),
         NEW z \in Servers, z.chans = s.chans, z.count = s.count, z.reg = s.reg, z.l3 = s.l3, z.births = s.births
  PROVE  LinkInv(c, z, n, m, que, ind, chg)
<1>1. \A i \in DOMAIN z.chans : z.chans[i] = s.chans[i] /\ i \in DOMAIN s.chans
  OBVIOUS
<1>2. Table(z)
  BY DEF LinkInv, Table
<1> QED
  BY <1>1, <1>2, Fewer

----------------------------------------------------------------------------
(* RemoveAt takes out one element and keeps the order of the others.       *)
LEMMA Removed ==
  ASSUME NEW S, NEW q \in Seq(S), NEW k \in DOMAIN q
  PROVE  /\ RemoveAt(q, k) \in Seq(S)
         /\ \A i \in DOMAIN RemoveAt(q, k) :
              /\ i < k => i \in DOMAIN q /\ RemoveAt(q, k)[i] = q[i]
              /\ ~(i < k) => i + 1 \in DOMAIN q /\ RemoveAt(q, k)[i] = q[i + 1]
         /\ \A i \in DOMAIN q : i # k => \E j \in DOMAIN RemoveAt(q, k) : RemoveAt(q, k)[j] = q[i]
<1> DEFINE a == SubSeq(q, 1, k - 1)
           b == SubSeq(q, k + 1, Len(q))
<1>1. RemoveAt(q, k) = a \o b
  BY DEF RemoveAt
<1>2. /\ a \in Seq(S) /\ Len(a) = k - 1 /\ \A i \in 1 .. k - 1 : a[i] = q[i]
  OBVIOUS
<1>3. /\ b \in Seq(S) /\ Len(b) = Len(q) - k /\ \A i \in 1 .. Len(q) - k : b[i] = q[k + i]
  OBVIOUS
<1>4. k \in Nat /\ Len(q) \in Nat /\ 1 <= k /\ k <= Len(q) /\ DOMAIN q = 1 .. Len(q)
  OBVIOUS
<1> HIDE DEF a, b
<1>5. /\ a \o b \in Seq(S) /\ Len(a \o b) = Len(q) - 1
      /\ \A i \in 1 .. Len(q) - 1 : (a \o b)[i] = IF i <= k - 1 THEN a[i] ELSE b[i - (k - 1)]
  <2>1. a \o b \in Seq(S) /\ Len(a \o b) = Len(a) + Len(b)
        /\ \A i \in 1 .. Len(a) + Len(b) : (a \o b)[i] = IF i <= Len(a) THEN a[i] ELSE b[i - Len(a)]
    BY <1>2, <1>3
  <2>2. Len(a) + Len(b) = Len(q) - 1
    BY <1>2, <1>3, <1>4
  <2> QED
    BY <1>2, <2>1, <2>2
<1> DEFINE r == a \o b
<1>6. r \in Seq(S) /\ DOMAIN r = 1 .. Len(q) - 1
  <2>1. DOMAIN r = 1 .. Len(r)
    BY <1>5
  <2> QED
    BY <1>5, <2>1
<1>7. \A i \in 1 .. Len(q) - 1 : r[i] = IF i < k THEN q[i] ELSE q[i + 1]
  <2> SUFFICES ASSUME NEW i \in 1 .. Len(q) - 1 PROVE r[i] = IF i < k THEN q[i] ELSE q[i + 1]
    OBVIOUS
  <2>1. CASE i < k
    <3>1. i <= k - 1 /\ i \in 1 .. k - 1
      BY <2>1, <1>4
    <3> QED
      BY <3>1, <2>1, <1>2, <1>5
  <2>2. CASE ~(i < k)
    <3>1. ~(i <= k - 1) /\ i - (k - 1) \in 1 .. Len(q) - k /\ k + (i - (k - 1)) = i + 1
      BY <2>2, <1>4
    <3> QED
      BY <3>1, <2>2, <1>3, <1>5
  <2> QED
    BY <2>1, <2>2
<1> HIDE DEF r
<1>8. \A i \in DOMAIN q : i # k => \E j \in DOMAIN r : r[j] = q[i]
  <2> SUFFICES ASSUME NEW i \in DOMAIN q, i # k PROVE \E j \in DOMAIN r : r[j] = q[i]
    OBVIOUS
  <2>1. CASE i < k
    <3>1. i \in DOMAIN r /\ i \in 1 .. Len(q) - 1
      BY <2>1, <1>4, <1>6
    <3> QED
      BY <3>1, <2>1, <1>7
  <2>2. CASE k < i
    <3>1. i - 1 \in DOMAIN r /\ i - 1 \in 1 .. Len(q) - 1 /\ ~(i - 1 < k) /\ (i - 1) + 1 = i
      BY <2>2, <1>4, <1>6
    <3> QED
      BY <3>1, <1>7
  <2> QED
    BY <2>1, <2>2, <1>4
<1>9. \A i \in DOMAIN r : (i < k => i \in DOMAIN q) /\ (~(i < k) => i + 1 \in DOMAIN q)
  BY <1>4, <1>6
<1>10. RemoveAt(q, k) = r
  BY <1>1 DEF r
<1> QED
  BY <1>6, <1>7, <1>8, <1>9, <1>10

(* removeClient: a channel goes, and with the counted monitor channel the  *)
(* registration.                                                           *)
LEMMA Removes ==
  ASSUME NEW c, NEW s, NEW n, NEW m, NEW que, NEW ind, NEW chg,
         LinkInv(c, s, n, m, que, ind, chg), NEW ch, Has(s, ch)
  PROVE  LinkInv(c, RemoveChannel(s, ch), n, m, que, ind, chg) /\ RemoveChannel(s, ch).sent = s.sent
<1> DEFINE k == At(s, ch)
           t == RemoveAt(s.chans, k)
           d1 == [s EXCEPT !.count = s.count - 1]
           d2 == [d1 EXCEPT !.reg = IF s.count = 1 THEN FALSE ELSE s.reg]
           d == IF s.chans[k].type = 1 THEN DelBusmonitor(s) ELSE s
           z == RemoveChannel(s, ch)
<1>1. s \in Servers /\ s.chans \in Seq(Chan) /\ s.count \in Int /\ s.reg \in BOOLEAN
  BY DEF LinkInv, Types, Servers
<1>2. k \in DOMAIN s.chans
  BY DEF Has, Numbers, At
<1>3. d1 \in Servers
  BY <1>1, ServerUpdates
<1>4. d2 \in Servers
  <2> HIDE DEF d1
  <2> QED
    BY <1>1, <1>3, ServerUpdates
<1>5. DelBusmonitor(s) = d2
  BY <1>1 DEF DelBusmonitor, Servers
<1>6. /\ d2.chans = s.chans /\ d2.l3 = s.l3 /\ d2.births = s.births /\ d2.sent = s.sent
      /\ d2.count = s.count - 1 /\ d2.reg = (IF s.count = 1 THEN FALSE ELSE s.reg)
  BY <1>1 DEF Servers
<1> HIDE DEF d1, d2, k
<1>7. /\ d \in Servers /\ d.chans = s.chans /\ d.l3 = s.l3 /\ d.births = s.births /\ d.sent = s.sent
  BY <1>1, <1>4, <1>5, <1>6
<1>8. z = [d EXCEPT !.chans = t]
  BY <1>7 DEF RemoveChannel, k, Servers
<1>9. t \in Seq(Chan)
  BY <1>1, <1>2, Removed
<1>10. \A i \in DOMAIN t : (i < k => i \in DOMAIN s.chans /\ t[i] = s.chans[i])
                             /\ (~(i < k) => i + 1 \in DOMAIN s.chans /\ t[i] = s.chans[i + 1])
  BY <1>1, <1>2, Removed
<1>11. \A i \in DOMAIN s.chans : i # k => \E j \in DOMAIN t : t[j] = s.chans[i]
  BY <1>1, <1>2, Removed
<1> HIDE DEF t, d
<1>12. z \in Servers
  BY <1>7, <1>8, <1>9, ServerUpdates
<1>13. z.chans = t /\ z.l3 = s.l3 /\ z.births = s.births /\ z.sent = s.sent /\ z.reg = d.reg /\ z.count = d.count
  BY <1>7, <1>8 DEF Servers
<1>14. \A i \in DOMAIN t : \E j \in DOMAIN s.chans : t[i] = s.chans[j]
  BY <1>10
<1>15. Table(s)
  BY DEF LinkInv
<1>16. \A i, j \in DOMAIN t : t[i].ch = t[j].ch => i = j
  <2> SUFFICES ASSUME NEW i \in DOMAIN t, NEW j \in DOMAIN t, t[i].ch = t[j].ch PROVE i = j
    OBVIOUS
  <2>1. i \in Nat /\ j \in Nat /\ k \in Nat
    BY <1>1, <1>2, <1>9
  <2>2. CASE i < k /\ j < k
    BY <1>10, <1>15, <2>2 DEF Table
  <2>3. CASE i < k /\ ~(j < k)
    <3>1. i = j + 1
      BY <1>10, <1>15, <2>3 DEF Table
    <3> QED
      BY <2>1, <2>3, <3>1
  <2>4. CASE ~(i < k) /\ j < k
    <3>1. j = i + 1
      BY <1>10, <1>15, <2>4 DEF Table
    <3> QED
      BY <2>1, <2>4, <3>1
  <2>5. CASE ~(i < k) /\ ~(j < k)
    <3>1. i + 1 = j + 1
      BY <1>10, <1>15, <2>5 DEF Table
    <3> QED
      BY <2>1, <3>1
  <2> QED
    BY <2>2, <2>3, <2>4, <2>5
<1>17. \A i \in DOMAIN t : t[i].state # 0 => t[i].out # <<>>
  BY <1>14, <1>15 DEF Table
<1>18. ASSUME z.reg PROVE z.count = 1 /\ \E i \in DOMAIN t : t[i].type = 1
  <2>1. d.reg /\ d.count = z.count
    BY <1>13, <1>18
  <2>2. s.chans[k].type # 1
    <3>1. s.chans[k].type = 1 => d.reg = (IF s.count = 1 THEN FALSE ELSE s.reg)
      BY <1>5, <1>6 DEF d
    <3> QED
      BY <2>1, <3>1, <1>15 DEF Table
  <2>3. d = s
    BY <2>2 DEF d
  <2>4. PICK i \in DOMAIN s.chans : s.chans[i].type = 1
    BY <2>1, <2>3, <1>15 DEF Table
  <2>5. i # k
    BY <2>2, <2>4
  <2> QED
    BY <2>1, <2>3, <2>4, <2>5, <1>11, <1>15 DEF Table
<1>19. Table(z)
  BY <1>13, <1>16, <1>17, <1>18 DEF Table
<1>20. LinkInv(c, z, n, m, que, ind, chg)
  <2> HIDE DEF z
  <2> QED
    BY <1>12, <1>13, <1>14, <1>19, Fewer
<1> QED
  BY <1>13, <1>20

(* FlattenSeq: sequences one after the other.  The recursive function in   *)
(* its definition exists.                                                  *)
LEMMA Flattened ==
  ASSUME NEW S, NEW q \in Seq(Seq(S))
  PROVE  FlattenSeq(q) \in Seq(S)
<1>1. CASE Len(q) = 0
  <2>1. FlattenSeq(q) = q
    BY <1>1 DEF FlattenSeq
  <2>2. q = <<>>
    BY <1>1
  <2> QED
    BY <2>1, <2>2
<1>2. CASE Len(q) # 0
  <2> DEFINE n == Len(q)
             Rec(f, k) == f = [i \in 1 .. k |-> IF i = 1 THEN q[i] ELSE f[i - 1] \o q[i]]
             A == {k \in 1 .. n : \A f : ~Rec(f, k)}
             g == CHOOSE f : Rec(f, n)
  <2>1. n \in Nat /\ n \in 1 .. n /\ 1 \in 1 .. n /\ \A i \in 1 .. n : q[i] \in Seq(S)
    BY <1>2
  <2>2. FlattenSeq(q) = g[n]
    BY <1>2 DEF FlattenSeq
  <2> HIDE DEF n
  <2>3. A = {}
    <3> SUFFICES ASSUME A # {} PROVE FALSE
      OBVIOUS
    <3>1. A \in SUBSET Nat
      <4> HIDE DEF Rec
      <4> QED
        BY <2>1
    <3> HIDE DEF A
    <3>2. PICK k \in A : \A j \in A : k <= j
      BY <3>1, LeastNatural
    <3>3. k \in 1 .. n /\ \A f : ~Rec(f, k)
      BY <3>2 DEF A
    <3> HIDE DEF Rec
    <3>4. CASE k = 1
      <4> DEFINE f == [i \in 1 .. 1 |-> q[1]]
      <4>1. f = [i \in 1 .. 1 |-> IF i = 1 THEN q[i] ELSE f[i - 1] \o q[i]]
        OBVIOUS
      <4> HIDE DEF f
      <4>2. Rec(f, 1)
        BY <4>1 DEF Rec
      <4> QED
        BY <4>2, <3>3, <3>4
    <3>5. CASE k # 1
      <4>1. k - 1 \in 1 .. n /\ k - 1 \notin A
        <5>1. k \in Nat /\ 1 <= k /\ k <= n
          BY <2>1, <3>3
        <5>2. k - 1 \in 1 .. n /\ ~(k <= k - 1)
          BY <2>1, <5>1, <3>5
        <5> QED
          BY <3>2, <5>2
      <4>2. PICK f : Rec(f, k - 1)
        BY <4>1 DEF A
      <4> DEFINE h == [i \in 1 .. k |-> IF i < k THEN f[i] ELSE f[k - 1] \o q[k]]
      <4>3. f = [i \in 1 .. k - 1 |-> IF i = 1 THEN q[i] ELSE f[i - 1] \o q[i]]
        BY <4>2 DEF Rec
      <4>4. k \in Nat /\ 1 < k
        BY <3>3, <3>5, <2>1
      <4>5. \A i \in 1 .. k : h[i] = IF i = 1 THEN q[i] ELSE h[i - 1] \o q[i]
        <5> SUFFICES ASSUME NEW i \in 1 .. k PROVE h[i] = IF i = 1 THEN q[i] ELSE h[i - 1] \o q[i]
          OBVIOUS
        <5>1. CASE i = 1
          <6>1. h[i] = f[i] /\ i \in 1 .. k - 1
            BY <5>1, <4>4
          <6> QED
            BY <6>1, <5>1, <4>3
        <5>2. CASE i # 1 /\ i < k
          <6>1. h[i] = f[i] /\ i \in 1 .. k - 1 /\ h[i - 1] = f[i - 1]
            BY <5>2, <4>4
          <6> QED
            BY <6>1, <5>2, <4>3
        <5>3. CASE i = k
          <6>0. k - 1 \in 1 .. k /\ k - 1 < k /\ k \in 1 .. k /\ ~(k < k)
            BY <4>4
          <6>1. h[i] = f[k - 1] \o q[k] /\ h[i - 1] = f[i - 1]
            BY <5>3, <6>0
          <6> QED
            BY <6>1, <5>3, <4>4
        <5> QED
          BY <5>1, <5>2, <5>3, <4>4
      <4>6. h = [i \in 1 .. k |-> h[i]]
        OBVIOUS
      <4> HIDE DEF h
      <4>7. Rec(h, k)
        BY <4>5, <4>6 DEF Rec
      <4> QED
        BY <4>7, <3>3
    <3> QED
      BY <3>4, <3>5
  <2>4. \E f : Rec(f, n)
    <3> HIDE DEF Rec
    <3> QED
      BY <2>1, <2>3
  <2>5. Rec(g, n)
    <3> HIDE DEF Rec
    <3> QED
      BY <2>4
  <2> HIDE DEF g
  <2>6. \A i \in 1 .. n : g[i] = IF i = 1 THEN q[i] ELSE g[i - 1] \o q[i]
    BY <2>5
  <2> HIDE DEF Rec, A
  <2> DEFINE B == {i \in 1 .. n : g[i] \notin Seq(S)}
  <2>7. B = {}
    <3> SUFFICES ASSUME B # {} PROVE FALSE
      OBVIOUS
    <3>1. B \in SUBSET Nat
      BY <2>1
    <3> HIDE DEF B
    <3>2. PICK k \in B : \A j \in B : k <= j
      BY <3>1, LeastNatural
    <3>3. k \in 1 .. n /\ g[k] \notin Seq(S)
      BY <3>2 DEF B
    <3>4. k # 1
      BY <3>3, <2>1, <2>6
    <3>5. k \in Nat /\ k - 1 \in 1 .. n /\ ~(k <= k - 1)
      BY <3>3, <3>4, <2>1
    <3>6. g[k - 1] \in Seq(S)
      BY <3>2, <3>5 DEF B
    <3>7. g[k] = g[k - 1] \o q[k] /\ q[k] \in Seq(S)
      BY <3>3, <3>4, <2>1, <2>6
    <3>8. g[k - 1] \o q[k] \in Seq(S)
      BY <3>6, <3>7
    <3> QED
      BY <3>3, <3>7, <3>8
  <2> QED
    BY <2>1, <2>2, <2>7
<1> QED
  BY <1>1, <1>2

(* Nothing but the way down of the channels changes.                       *)
SameTable(z, s) ==
  /\ z.l3 = s.l3 /\ z.births = s.births /\ z.reg = s.reg /\ z.count = s.count
  /\ DOMAIN z.chans = DOMAIN s.chans
  /\ \A i \in DOMAIN s.chans :
       /\ z.chans[i].ch = s.chans[i].ch /\ z.chans[i].type = s.chans[i].type
       /\ z.chans[i].rno = s.chans[i].rno /\ z.chans[i].birth = s.chans[i].birth
       /\ z.chans[i].state # 0 => z.chans[i].out # <<>>
OnlyData(f) == \A i \in DOMAIN f : IsData(f[i])

(* An element of a sequence over S is in S.                                *)
LEMMA Elements ==
  ASSUME NEW S, NEW q \in Seq(S), NEW i \in DOMAIN q
  PROVE  q[i] \in S
OBVIOUS

(* Steps of the server that change only what goes down: the table keeps    *)
(* its numbers and types, data f is sent, and the contents and numbers of  *)
(* the way down are right afterwards.                                      *)
LEMMA Downward ==
  ASSUME NEW c, NEW s, NEW n, NEW m, NEW que, NEW ind, NEW chg,
         LinkInv(c, s, n, m, que, ind, chg),
         NEW z \in Servers, SameTable(z, s), NEW f \in Seq(ToClient), OnlyData(f), NEW more,
         DownContents(c.up, z.chans, m \o f, more), DownLink(c, z, n, m \o f),
         \A i \in Answers(m) : m[i].status = 0 => DownGoes(c.up, z.chans, n, m \o f, i, m[i].ch, 0, 0)
  PROVE  LinkInv(c, z, n, m \o f, que, more, chg)
<1> DEFINE k == m \o f
<1> USE DEF LinkInv
<1>1. m \in Seq(ToClient)
  BY DEF Types
<1>2. /\ k \in Seq(ToClient)
      /\ \A i \in DOMAIN m : i \in DOMAIN k /\ k[i] = m[i]
      /\ \A i \in DOMAIN k : (i \in DOMAIN m /\ k[i] = m[i]) \/ IsData(k[i])
  <2>1. k \in Seq(ToClient) /\ \A i \in DOMAIN m : i \in DOMAIN k /\ k[i] = m[i]
    BY <1>1, Joined
  <2>2. \A i \in DOMAIN k : (i \in DOMAIN m /\ k[i] = m[i]) \/ \E j \in DOMAIN f : k[i] = f[j]
    BY <1>1, Joined
  <2> QED
    BY <2>1, <2>2 DEF OnlyData
<1>3. DownContents(c.up, z.chans, k, more) /\ DownLink(c, z, n, k)
  OBVIOUS
<1>4. \A i \in Answers(m) : m[i].status = 0 => DownGoes(c.up, z.chans, n, k, i, m[i].ch, 0, 0)
  OBVIOUS
<1> HIDE DEF k
<1>5. Types(c, z, n, k)
  BY <1>2 DEF Types
<1>6. Table(z)
  BY DEF Table, SameTable
<1>7. NoAcks(m) <=> NoAcks(k)
  BY <1>2 DEF NoAcks, IsAck, IsData
<1>8. Answers(m) = Answers(k)
  BY <1>2 DEF Answers, IsData
<1>9. Connecting(c.mod, n, k)
  BY <1>7, <1>8 DEF Connecting
<1>10. UpContents(c.q, z.l3, n, que, z.births) /\ L3InOrder(z.l3)
  BY DEF SameTable
<1>11. UpLink(c, z, n, k, que, chg)
  <2>1. CASE c.mod = 0 /\ NoData(n)
    BY <2>1 DEF UpLink
  <2>2. CASE ~(c.mod = 0 /\ NoData(n))
    <3>1. PICK y \in Number : UpGoes(c, s, n, m, y, que, chg)
      BY <2>2 DEF UpLink
    <3>2. AcksFit(k, c.ch, c.sno, y)
      BY <3>1, <1>2 DEF UpGoes, AcksFit, IsAck, IsData
    <3>3. \A i \in DOMAIN z.chans : z.chans[i].ch = c.ch => z.chans[i].rno = y /\ z.chans[i].birth = z.births
      BY <3>1 DEF UpGoes, SameTable
    <3>4. UpGoes(c, z, n, k, y, que, chg)
      BY <3>1, <3>2, <3>3 DEF UpGoes, SameTable
    <3> QED
      BY <3>4 DEF UpLink
  <2> QED
    BY <2>1, <2>2
<1>12. Answered(c, z, n, k)
  <2> SUFFICES ASSUME NEW i \in Answers(k), k[i].status = 0
               PROVE  /\ \A j \in DOMAIN z.l3 : z.l3[j][1] < z.births
                      /\ \A h \in DOMAIN z.chans : z.chans[h].ch = k[i].ch => z.chans[h].rno = 0 /\ z.chans[h].birth = z.births
                      /\ DownGoes(c.up, z.chans, n, k, i, k[i].ch, 0, 0)
    BY DEF Answered
  <2>1. i \in Answers(m) /\ i \in DOMAIN m /\ k[i] = m[i]
    BY <1>2, <1>8 DEF Answers
  <2>2. /\ \A j \in DOMAIN s.l3 : s.l3[j][1] < s.births
        /\ \A h \in DOMAIN s.chans : s.chans[h].ch = m[i].ch => s.chans[h].rno = 0 /\ s.chans[h].birth = s.births
    BY <2>1 DEF Answered
  <2>3. \A h \in DOMAIN z.chans : z.chans[h].ch = k[i].ch => z.chans[h].rno = 0 /\ z.chans[h].birth = z.births
    BY <2>1, <2>2 DEF SameTable
  <2>4. \A j \in DOMAIN z.l3 : z.l3[j][1] < z.births
    BY <2>2 DEF SameTable
  <2> QED
    BY <2>1, <2>3, <2>4, <1>4
<1>13. Undisturbed(c, z, n, que, chg)
  BY DEF Undisturbed, SameTable
<1> QED
  BY <1>3, <1>5, <1>6, <1>9, <1>10, <1>11, <1>12, <1>13 DEF k

----------------------------------------------------------------------------
(* A telegram of the bus is queued for the channels of a type.             *)
LEMMA Indicates ==
  ASSUME NEW c, NEW s, NEW n, NEW m, NEW que, NEW ind \in Nat, NEW chg,
         LinkInv(c, s, n, m, que, ind, chg), NEW type, NEW item \in 1 .. MaxInd,
         ind < item \/ (item = ind /\ \A i \in DOMAIN s.chans : s.chans[i].type = type =>
                                        \A j \in DOMAIN s.chans[i].out : s.chans[i].out[j] < ind),
         \A i \in DOMAIN c.up : c.up[i] < item,
         \A i \in DOMAIN m : IsData(m[i]) => m[i].cemi < item
  PROVE  LET z == Queued(s, type, item) IN
         /\ LinkInv(c, z, n, m, que, item, chg)
         /\ z.sent = s.sent /\ SameTable(z, s)
         /\ \A i \in DOMAIN s.chans : s.chans[i].type # type => z.chans[i] = s.chans[i]
<1> DEFINE z == Queued(s, type, item)
           t == [i \in DOMAIN s.chans |->
                  IF s.chans[i].type = type THEN [s.chans[i] EXCEPT !.out = Append(s.chans[i].out, item)] ELSE s.chans[i]]
<1>1. s \in Servers /\ s.chans \in Seq(Chan) /\ m \in Seq(ToClient) /\ Table(s)
  BY DEF LinkInv, Types, Servers
<1>2. z = [s EXCEPT !.chans = t]
  BY DEF Queued
<1>3. \A i \in DOMAIN s.chans : s.chans[i] \in Chan /\ s.chans[i].out \in Seq(0 .. MaxInd)
  <2>1. \A i \in DOMAIN s.chans : s.chans[i] \in Chan
    BY <1>1
  <2> QED
    BY <2>1 DEF Chan
<1>4. ASSUME NEW i \in DOMAIN s.chans
      PROVE  /\ t[i] \in Chan
             /\ t[i].ch = s.chans[i].ch /\ t[i].type = s.chans[i].type /\ t[i].sno = s.chans[i].sno
             /\ t[i].rno = s.chans[i].rno /\ t[i].birth = s.chans[i].birth /\ t[i].state = s.chans[i].state
             /\ t[i].out = (IF s.chans[i].type = type THEN Append(s.chans[i].out, item) ELSE s.chans[i].out)
  <2> DEFINE k == s.chans[i]
  <2>1. k \in Chan /\ k.out \in Seq(0 .. MaxInd) /\ item \in 0 .. MaxInd
    BY <1>3
  <2>2. t[i] = IF k.type = type THEN [k EXCEPT !.out = Append(k.out, item)] ELSE k
    OBVIOUS
  <2> HIDE DEF k, t
  <2>3. Append(k.out, item) \in Seq(0 .. MaxInd)
    BY <2>1, Appended
  <2>4. [k EXCEPT !.out = Append(k.out, item)] \in Chan
    BY <2>1, <2>3, ChannelUpdates
  <2>5. t[i] \in Chan
    BY <2>1, <2>2, <2>4
  <2>6. /\ t[i].ch = k.ch /\ t[i].type = k.type /\ t[i].sno = k.sno
        /\ t[i].rno = k.rno /\ t[i].birth = k.birth /\ t[i].state = k.state
        /\ t[i].out = (IF k.type = type THEN Append(k.out, item) ELSE k.out)
    BY <2>1, <2>2 DEF Chan
  <2> QED
    BY <2>5, <2>6 DEF k
<1>5. DOMAIN t = DOMAIN s.chans
  OBVIOUS
<1>6. \A i \in DOMAIN s.chans : s.chans[i].type # type => t[i] = s.chans[i]
  OBVIOUS
<1>7. t \in Seq(Chan)
  <2>1. t \in [1 .. Len(s.chans) -> Chan] /\ Len(s.chans) \in Nat
    <3>1. DOMAIN s.chans = 1 .. Len(s.chans) /\ Len(s.chans) \in Nat
      BY <1>1
    <3>2. t = [i \in 1 .. Len(s.chans) |-> t[i]]
      BY <3>1
    <3> HIDE DEF t
    <3> QED
      BY <3>1, <3>2, <1>4
  <2> HIDE DEF t
  <2> QED
    BY <2>1
<1> HIDE DEF t
<1>8. z \in Servers
  BY <1>1, <1>2, <1>7, ServerUpdates
<1>9. /\ z.chans = t /\ z.l3 = s.l3 /\ z.births = s.births /\ z.reg = s.reg /\ z.count = s.count /\ z.sent = s.sent
  BY <1>1, <1>2 DEF Servers
<1> HIDE DEF z
<1>10. \A i \in DOMAIN s.chans : t[i].out # <<>> \/ (t[i].out = s.chans[i].out)
  <2> SUFFICES ASSUME NEW i \in DOMAIN s.chans PROVE t[i].out # <<>> \/ (t[i].out = s.chans[i].out)
    OBVIOUS
  <2>1. s.chans[i].out \in Seq(0 .. MaxInd) /\ item \in 0 .. MaxInd
    BY <1>3
  <2>2. Append(s.chans[i].out, item) # <<>>
    BY <2>1, Appended
  <2> QED
    BY <1>4, <2>2
<1>11. SameTable(z, s)
  BY <1>1, <1>4, <1>5, <1>9, <1>10 DEF SameTable, Table
<1>12. \A i \in DOMAIN s.chans : \A j \in DOMAIN t[i].out :
         \/ j \in DOMAIN s.chans[i].out /\ t[i].out[j] = s.chans[i].out[j]
         \/ t[i].out[j] = item /\ s.chans[i].type = type /\ \A l \in DOMAIN t[i].out : l < j => l \in DOMAIN s.chans[i].out /\ t[i].out[l] = s.chans[i].out[l]
  <2> SUFFICES ASSUME NEW i \in DOMAIN s.chans, NEW j \in DOMAIN t[i].out
               PROVE  \/ j \in DOMAIN s.chans[i].out /\ t[i].out[j] = s.chans[i].out[j]
                      \/ t[i].out[j] = item /\ s.chans[i].type = type /\ \A l \in DOMAIN t[i].out : l < j => l \in DOMAIN s.chans[i].out /\ t[i].out[l] = s.chans[i].out[l]
    OBVIOUS
  <2>1. CASE s.chans[i].type # type
    BY <2>1, <1>6
  <2>2. CASE s.chans[i].type = type
    <3> DEFINE o == s.chans[i].out
               r == Append(o, item)
    <3>1. t[i].out = r /\ o \in Seq(0 .. MaxInd) /\ item \in 0 .. MaxInd
      <4>1. t[i].out = r
        BY <2>2, <1>4
      <4>2. s.chans[i].out \in Seq(0 .. MaxInd) /\ item \in 0 .. MaxInd
        BY <1>3
      <4> QED
        BY <4>1, <4>2
    <3> HIDE DEF o
    <3>2. \A l \in DOMAIN r : l \in DOMAIN o \/ l = Len(o) + 1
      BY <3>1, Appended
    <3>3. r[Len(o) + 1] = item /\ \A l \in DOMAIN o : r[l] = o[l]
      BY <3>1, Appended
    <3>4. ~(Len(o) + 1 < Len(o) + 1)
      BY <3>1
    <3> HIDE DEF r
    <3>5. \A l \in DOMAIN r : l < Len(o) + 1 => l \in DOMAIN o
      BY <3>2, <3>4
    <3>6. CASE j \in DOMAIN o
      BY <3>1, <3>3, <3>6 DEF o
    <3>7. CASE j = Len(o) + 1
      <4>1. t[i].out[j] = item
        BY <3>1, <3>3, <3>7
      <4>2. \A l \in DOMAIN t[i].out : l < j => l \in DOMAIN s.chans[i].out /\ t[i].out[l] = s.chans[i].out[l]
        BY <3>1, <3>3, <3>5, <3>7 DEF o
      <4> QED
        BY <4>1, <4>2, <2>2
    <3> QED
      BY <3>1, <3>2, <3>6, <3>7
  <2> QED
    BY <2>1, <2>2
<1>13. item \in Nat /\ item # 0 /\ \A i \in DOMAIN s.chans : \A j \in DOMAIN s.chans[i].out : s.chans[i].out[j] \in Nat
  <2>1. ASSUME NEW i \in DOMAIN s.chans, NEW j \in DOMAIN s.chans[i].out PROVE s.chans[i].out[j] \in Nat
    <3>1. s.chans[i].out[j] \in 0 .. MaxInd
      BY <1>3, Elements
    <3> QED
      BY <3>1
  <2>2. item \in Nat /\ item # 0
    OBVIOUS
  <2> QED
    BY <2>1, <2>2
<1>14. \A i \in DOMAIN s.chans : \A j \in DOMAIN s.chans[i].out :
         s.chans[i].out[j] <= item /\ (s.chans[i].type = type => s.chans[i].out[j] < item)
  <2>1. \A i \in DOMAIN s.chans : \A j \in DOMAIN s.chans[i].out : s.chans[i].out[j] <= ind
    BY DEF LinkInv, DownContents
  <2> QED
    BY <1>13, <2>1
<1>15. \A i \in DOMAIN s.chans : \A j \in DOMAIN s.chans[i].out : \A l \in DOMAIN s.chans[i].out :
         j < l /\ s.chans[i].out[j] # 0 /\ s.chans[i].out[l] # 0 => s.chans[i].out[j] < s.chans[i].out[l]
  BY DEF LinkInv, DownContents
<1>16. DownContents(c.up, z.chans, m, item)
  <2>1. \A i \in DOMAIN t : \A j \in DOMAIN t[i].out : t[i].out[j] <= item
    BY <1>5, <1>12, <1>13, <1>14
  <2>2. ASSUME NEW i \in DOMAIN t, NEW j \in DOMAIN t[i].out, NEW l \in DOMAIN t[i].out,
               j < l, t[i].out[j] # 0, t[i].out[l] # 0
        PROVE  t[i].out[j] < t[i].out[l]
    <3>1. i \in DOMAIN s.chans
      BY <1>5
    <3>2. CASE l \in DOMAIN s.chans[i].out /\ t[i].out[l] = s.chans[i].out[l]
      <4>1. CASE j \in DOMAIN s.chans[i].out /\ t[i].out[j] = s.chans[i].out[j]
        BY <3>1, <3>2, <4>1, <2>2, <1>15
      <4>2. CASE t[i].out[j] = item /\ s.chans[i].type = type /\ \A h \in DOMAIN t[i].out : h < j => h \in DOMAIN s.chans[i].out /\ t[i].out[h] = s.chans[i].out[h]
        <5>1. t[i].out = Append(s.chans[i].out, item) /\ s.chans[i].out \in Seq(0 .. MaxInd)
          BY <4>2, <3>1, <1>3, <1>4
        <5>2. \A h \in DOMAIN s.chans[i].out : t[i].out[h] = s.chans[i].out[h] /\ h < Len(s.chans[i].out) + 1
          BY <5>1, Appended
        <5>3. \A h \in DOMAIN t[i].out : h \in DOMAIN s.chans[i].out \/ h = Len(s.chans[i].out) + 1
          BY <5>1, Appended
        <5>4. j \in DOMAIN s.chans[i].out
          <6>1. l < Len(s.chans[i].out) + 1 /\ l \in Nat /\ Len(s.chans[i].out) + 1 \in Nat
            BY <3>2, <5>1, <5>2
          <6>2. ~(Len(s.chans[i].out) + 1 < l)
            BY <6>1
          <6> QED
            BY <6>2, <5>3, <2>2
        <5> QED
          BY <5>2, <5>4, <3>1, <3>2, <2>2, <1>15
      <4> QED
        BY <3>1, <4>1, <4>2, <1>12
    <3>3. CASE t[i].out[l] = item /\ s.chans[i].type = type /\ \A h \in DOMAIN t[i].out : h < l => h \in DOMAIN s.chans[i].out /\ t[i].out[h] = s.chans[i].out[h]
      BY <3>1, <3>3, <2>2, <1>14
    <3> QED
      BY <3>1, <3>2, <3>3, <1>12
  <2>3. \A i \in DOMAIN c.up : c.up[i] <= item
    <3>1. c.up \in Seq((-MaxTel) .. MaxInd)
      BY DEF LinkInv, Types, Tunnels
    <3>2. \A i \in DOMAIN c.up : c.up[i] \in Int
      <4>1. \A i \in DOMAIN c.up : c.up[i] \in (-MaxTel) .. MaxInd
        BY <3>1, Elements
      <4> QED
        BY <4>1
    <3> QED
      BY <3>2, <1>13
  <2>4. \A i \in DOMAIN m : IsData(m[i]) => m[i].cemi <= item
    <3>1. \A i \in DOMAIN m : IsData(m[i]) => m[i].cemi \in Nat
      BY <1>1, DownPackets DEF IsData
    <3> QED
      BY <3>1, <1>13
  <2>5. \A i, j \in DOMAIN c.up : i < j /\ c.up[i] > 0 /\ c.up[j] > 0 => c.up[i] < c.up[j]
    BY DEF LinkInv, DownContents
  <2> QED
    BY <2>1, <2>2, <2>3, <2>4, <2>5, <1>9 DEF DownContents
<1>17. ASSUME NEW from, NEW ch, NEW x, NEW y, DownGoes(c.up, s.chans, n, m, from, ch, x, y)
       PROVE  DownGoes(c.up, z.chans, n, m, from, ch, x, y)
  <2>1. ASSUME NEW k \in DOMAIN t, t[k].ch = ch
        PROVE  /\ t[k].sno = x
               /\ \A j \in DOMAIN t[k].out : t[k].out[j] # 0 =>
                    /\ \A i \in DOMAIN c.up :
                         c.up[i] < t[k].out[j] \/ (j = 1 /\ c.up[i] = t[k].out[1] /\ y = Succ(x))
                    /\ \A i \in DOMAIN m : i > from /\ IsData(m[i]) /\ m[i].ch = ch =>
                         m[i].cemi < t[k].out[j] \/ (j = 1 /\ m[i].cemi = t[k].out[1])
    <3>1. k \in DOMAIN s.chans /\ s.chans[k].ch = ch /\ t[k].sno = s.chans[k].sno
      BY <2>1, <1>4, <1>5
    <3>2. t[k].sno = x
      BY <3>1, <1>17 DEF DownGoes
    <3>3. ASSUME NEW j \in DOMAIN t[k].out, t[k].out[j] # 0
          PROVE  /\ \A i \in DOMAIN c.up :
                      c.up[i] < t[k].out[j] \/ (j = 1 /\ c.up[i] = t[k].out[1] /\ y = Succ(x))
                 /\ \A i \in DOMAIN m : i > from /\ IsData(m[i]) /\ m[i].ch = ch =>
                         m[i].cemi < t[k].out[j] \/ (j = 1 /\ m[i].cemi = t[k].out[1])
      <4>1. CASE j \in DOMAIN s.chans[k].out /\ t[k].out[j] = s.chans[k].out[j]
        BY <4>1, <3>1, <3>3, <1>17 DEF DownGoes
      <4>2. CASE t[k].out[j] = item
        BY <4>2
      <4> QED
        BY <4>1, <4>2, <3>1, <1>12
    <3> QED
      BY <3>2, <3>3
  <2> QED
    BY <2>1, <1>9, <1>17 DEF DownGoes
<1>18. m \o <<>> = m /\ OnlyData(<<>>) /\ <<>> \in Seq(ToClient)
  BY <1>1 DEF OnlyData
<1>19. DownLink(c, z, n, m)
  BY <1>17 DEF LinkInv, DownLink
<1>20. \A i \in Answers(m) : m[i].status = 0 => DownGoes(c.up, z.chans, n, m, i, m[i].ch, 0, 0)
  BY <1>17 DEF LinkInv, Answered
<1>21. LinkInv(c, z, n, m, que, item, chg)
  <2> DEFINE f == <<>>
  <2>1. m \o f = m /\ OnlyData(f) /\ f \in Seq(ToClient)
    BY <1>18
  <2> HIDE DEF f
  <2>2. LinkInv(c, z, n, m \o f, que, item, chg)
    BY <2>1, <1>8, <1>11, <1>16, <1>19, <1>20, Downward
  <2> QED
    BY <2>1, <2>2
<1> QED
  BY <1>21, <1>11, <1>9, <1>6 DEF z

(* What SendAll does with one channel.                                     *)
LEMMA AfterSends ==
  ASSUME NEW k \in Chan, NEW late, k.state # 0 => k.out # <<>>
  PROVE  LET d == AfterSend(k, late) IN
         /\ d \in Chan /\ d.ch = k.ch /\ d.type = k.type /\ d.rno = k.rno /\ d.birth = k.birth /\ d.sno = k.sno
         /\ d.state # 0 => d.out # <<>>
         /\ \/ d.out = k.out
            \/ Due(k, late) /\ GiveUp(k) /\ k.out # <<>> /\ d.out = Tail(k.out)
         /\ Due(k, late) => k.out # <<>>
<1> DEFINE d == AfterSend(k, late)
<1>1. k.out \in Seq(0 .. MaxInd) /\ k.state \in 0 .. MaxSend /\ MaxSend \in Nat \ {0}
  BY ServerAssumption DEF Chan
<1>2. Due(k, late) => k.out # <<>>
  BY DEF Due
<1>3. CASE ~Due(k, late)
  BY <1>3, <1>2 DEF AfterSend
<1>4. CASE Due(k, late) /\ GiveUp(k)
  <2> DEFINE a == [k EXCEPT !.state = 0]
             b == [a EXCEPT !.out = Tail(k.out)]
  <2>1. d = b
    BY <1>4 DEF AfterSend, Chan
  <2>2. 0 \in 0 .. MaxSend /\ Tail(k.out) \in Seq(0 .. MaxInd)
    <3>1. 0 \in 0 .. MaxSend
      BY <1>1
    <3>2. Tail(k.out) \in Seq(0 .. MaxInd)
      BY <1>1, <1>2, <1>4, Tailed
    <3> QED
      BY <3>1, <3>2
  <2>3. a \in Chan
    BY <2>2, ChannelUpdates
  <2>4. b \in Chan
    <3> HIDE DEF a
    <3> QED
      BY <2>2, <2>3, ChannelUpdates
  <2>5. /\ b.ch = k.ch /\ b.type = k.type /\ b.rno = k.rno /\ b.birth = k.birth /\ b.sno = k.sno
        /\ b.state = 0 /\ b.out = Tail(k.out)
    BY DEF Chan
  <2> HIDE DEF b, d
  <2> QED
    BY <2>1, <2>4, <2>5, <1>2, <1>4 DEF d
<1>5. CASE Due(k, late) /\ ~GiveUp(k)
  <2> DEFINE b == [k EXCEPT !.state = k.state + 1]
  <2>1. d = b
    BY <1>5 DEF AfterSend, Chan
  <2>2. k.state + 1 \in 0 .. MaxSend
    BY <1>1, <1>5 DEF GiveUp
  <2>3. b \in Chan
    BY <2>2, ChannelUpdates
  <2>4. /\ b.ch = k.ch /\ b.type = k.type /\ b.rno = k.rno /\ b.birth = k.birth /\ b.sno = k.sno
        /\ b.out = k.out
    BY DEF Chan
  <2> HIDE DEF b, d
  <2> QED
    BY <2>1, <2>3, <2>4, <1>2, <1>5 DEF d
<1> QED
  BY <1>3, <1>4, <1>5

(* Sending in two portions is sending in one.                              *)
LEMMA Associates ==
  \A a, b, d \in Seq(ToClient) : a \o (b \o d) = (a \o b) \o d
<1> SUFFICES ASSUME NEW a \in Seq(ToClient), NEW b \in Seq(ToClient), NEW d \in Seq(ToClient)
             PROVE  a \o (b \o d) = (a \o b) \o d
  OBVIOUS
<1>1. a \o b \in Seq(ToClient) /\ b \o d \in Seq(ToClient)
  OBVIOUS
<1>2. a \o (b \o d) \in Seq(ToClient) /\ (a \o b) \o d \in Seq(ToClient)
  BY <1>1
<1>3. Len(a \o (b \o d)) = Len(a) + Len(b) + Len(d) /\ Len((a \o b) \o d) = Len(a) + Len(b) + Len(d)
  BY <1>1
<1>4. \A i \in 1 .. Len(a) + Len(b) + Len(d) : (a \o (b \o d))[i] = ((a \o b) \o d)[i]
  BY <1>1
<1> QED
  BY <1>2, <1>3, <1>4

(* The table t after SendAll, and what it sends.                           *)
Advances(t, s, late) ==
  /\ DOMAIN t = DOMAIN s.chans
  /\ \A i \in DOMAIN s.chans :
       /\ t[i].ch = s.chans[i].ch /\ t[i].sno = s.chans[i].sno
       /\ \/ t[i].out = s.chans[i].out
          \/ Due(s.chans[i], late) /\ GiveUp(s.chans[i]) /\ s.chans[i].out # <<>> /\ t[i].out = Tail(s.chans[i].out)
SentAgain(f, s, late) ==
  \A j \in DOMAIN f : \E i \in DOMAIN s.chans :
    /\ Due(s.chans[i], late) /\ ~GiveUp(s.chans[i]) /\ s.chans[i].out # <<>>
    /\ f[j] = TunnelRequest(s.chans[i].ch, s.chans[i].sno, Head(s.chans[i].out))

(* One channel's way down when requests follow those under way.            *)
LEMMA GoesDown ==
  ASSUME NEW up, NEW s \in Servers, NEW t, Table(s), NEW late, Advances(t, s, late),
         NEW n, NEW m \in Seq(ToClient), NEW ind, DownContents(up, s.chans, m, ind),
         NEW f \in Seq(ToClient), SentAgain(f, s, late),
         NEW from, NEW ch, NEW x \in Number, NEW y, DownGoes(up, s.chans, n, m, from, ch, x, y)
  PROVE  DownGoes(up, t, n, m \o f, from, ch, x, y)
<1> USE DEF Advances
<1> DEFINE k == m \o f
<1>1. \A i \in DOMAIN s.chans : s.chans[i] \in Chan /\ s.chans[i].out \in Seq(0 .. MaxInd)
  <2>1. s.chans \in Seq(Chan)
    BY DEF Servers
  <2>2. \A i \in DOMAIN s.chans : s.chans[i] \in Chan
    BY <2>1, Elements
  <2> QED
    BY <2>2 DEF Chan
<1>2. Succ(x) # x
  BY SuccFacts
<1>3. \A i \in DOMAIN k :
        \/ i \in DOMAIN m /\ k[i] = m[i]
        \/ (\A j \in DOMAIN m : j < i) /\ \E h \in DOMAIN f : k[i] = f[h]
  BY Joined
<1> HIDE DEF k
<1> DEFINE New(i) == /\ \A j \in DOMAIN m : j < i
                     /\ \E h \in DOMAIN s.chans :
                          /\ Due(s.chans[h], late) /\ ~GiveUp(s.chans[h]) /\ s.chans[h].out # <<>>
                          /\ k[i].ch = s.chans[h].ch /\ k[i].seq = s.chans[h].sno /\ k[i].cemi = s.chans[h].out[1]
<1>4. ASSUME NEW i \in DOMAIN k
      PROVE  (i \in DOMAIN m /\ k[i] = m[i]) \/ New(i)
  <2>1. CASE i \in DOMAIN m /\ k[i] = m[i]
    BY <2>1
  <2>2. CASE (\A j \in DOMAIN m : j < i) /\ \E h \in DOMAIN f : k[i] = f[h]
    <3>1. PICK h \in DOMAIN f : k[i] = f[h]
      BY <2>2
    <3>2. PICK l \in DOMAIN s.chans :
            /\ Due(s.chans[l], late) /\ ~GiveUp(s.chans[l]) /\ s.chans[l].out # <<>>
            /\ f[h] = TunnelRequest(s.chans[l].ch, s.chans[l].sno, Head(s.chans[l].out))
      BY DEF SentAgain
    <3>3. Head(s.chans[l].out) = s.chans[l].out[1]
      BY <1>1, <3>2, Tailed
    <3>4. k[i].ch = s.chans[l].ch /\ k[i].seq = s.chans[l].sno /\ k[i].cemi = s.chans[l].out[1]
      BY <3>1, <3>2, <3>3 DEF TunnelRequest
    <3> QED
      BY <2>2, <3>2, <3>4
  <2> QED
    BY <2>1, <2>2, <1>3
<1> HIDE DEF New
<1>5. \A i \in DOMAIN k : New(i) /\ k[i].ch = ch => k[i].seq = x
  BY DEF New, DownGoes
<1>6. \A i \in DOMAIN k, j \in DOMAIN k : i < j /\ j \in DOMAIN m => ~New(i)
  <2> SUFFICES ASSUME NEW i \in DOMAIN k, NEW j \in DOMAIN k, i < j, j \in DOMAIN m, New(i) PROVE FALSE
    OBVIOUS
  <2>1. j < i
    BY DEF New
  <2>2. i \in Nat /\ j \in Nat
    <3>1. k \in Seq(ToClient)
      BY Joined DEF k
    <3> QED
      BY <3>1
  <2> QED
    BY <2>1, <2>2
<1>7. DataFits(k, from, ch, x, y)
  <2>1. \A i \in DOMAIN k : i > from /\ IsData(k[i]) /\ k[i].ch = ch =>
          k[i].seq = x \/ (Succ(k[i].seq) = x /\ y = x)
    BY <1>4, <1>5 DEF DownGoes, DataFits
  <2>2. \A i, j \in DOMAIN k :
          i > from /\ i < j /\ IsData(k[i]) /\ IsData(k[j]) /\ k[i].ch = ch /\ k[j].ch = ch /\ k[i].seq = x
            => k[j].seq = x
    <3> SUFFICES ASSUME NEW i \in DOMAIN k, NEW j \in DOMAIN k,
                        i > from /\ i < j /\ IsData(k[i]) /\ IsData(k[j]) /\ k[i].ch = ch /\ k[j].ch = ch /\ k[i].seq = x
                 PROVE  k[j].seq = x
      OBVIOUS
    <3>1. CASE New(j)
      BY <3>1, <1>5
    <3>2. CASE j \in DOMAIN m /\ k[j] = m[j]
      <4>1. i \in DOMAIN m /\ k[i] = m[i]
        BY <3>2, <1>4, <1>6
      <4> QED
        BY <3>2, <4>1 DEF DownGoes, DataFits
    <3> QED
      BY <3>1, <3>2, <1>4
  <2> QED
    BY <2>1, <2>2 DEF DataFits
<1>8. \A i \in DOMAIN k : i > from /\ IsData(k[i]) /\ k[i].ch = ch /\ k[i].seq = y /\ k[i].cemi # 0 =>
        \A j \in DOMAIN up : up[j] < k[i].cemi
  <2> SUFFICES ASSUME NEW i \in DOMAIN k,
                      i > from /\ IsData(k[i]) /\ k[i].ch = ch /\ k[i].seq = y /\ k[i].cemi # 0,
                      NEW j \in DOMAIN up
               PROVE  up[j] < k[i].cemi
    OBVIOUS
  <2>1. CASE i \in DOMAIN m /\ k[i] = m[i]
    BY <2>1 DEF DownGoes
  <2>2. CASE New(i)
    <3>1. y # Succ(x)
      BY <2>2, <1>2, <1>5
    <3>2. PICK h \in DOMAIN s.chans :
            /\ Due(s.chans[h], late) /\ ~GiveUp(s.chans[h]) /\ s.chans[h].out # <<>>
            /\ k[i].ch = s.chans[h].ch /\ k[i].seq = s.chans[h].sno /\ k[i].cemi = s.chans[h].out[1]
      BY <2>2 DEF New
    <3>3. 1 \in DOMAIN s.chans[h].out
      BY <1>1, <3>2, Tailed
    <3> QED
      BY <3>1, <3>2, <3>3 DEF DownGoes
  <2> QED
    BY <2>1, <2>2, <1>4
<1>9. ASSUME NEW h \in DOMAIN t, t[h].ch = ch
      PROVE  /\ t[h].sno = x
             /\ \A j \in DOMAIN t[h].out : t[h].out[j] # 0 =>
                  /\ \A i \in DOMAIN up :
                       up[i] < t[h].out[j] \/ (j = 1 /\ up[i] = t[h].out[1] /\ y = Succ(x))
                  /\ \A i \in DOMAIN k : i > from /\ IsData(k[i]) /\ k[i].ch = ch =>
                       k[i].cemi < t[h].out[j] \/ (j = 1 /\ k[i].cemi = t[h].out[1])
  <2> DEFINE o == s.chans[h].out
  <2>1. h \in DOMAIN s.chans /\ s.chans[h].ch = ch /\ o \in Seq(0 .. MaxInd)
    BY <1>9, <1>1
  <2>2. t[h].sno = x
    BY <2>1 DEF DownGoes
  <2>3. \A j \in DOMAIN o : o[j] # 0 =>
          /\ \A i \in DOMAIN up : up[i] < o[j] \/ (j = 1 /\ up[i] = o[1] /\ y = Succ(x))
          /\ \A i \in DOMAIN m : i > from /\ IsData(m[i]) /\ m[i].ch = ch =>
               m[i].cemi < o[j] \/ (j = 1 /\ m[i].cemi = o[1])
    BY <2>1 DEF DownGoes
  <2>4. \A j, l \in DOMAIN o : j < l /\ o[j] # 0 /\ o[l] # 0 => o[j] < o[l]
    BY <2>1 DEF DownContents
  <2>5. \A i \in DOMAIN k : New(i) /\ k[i].ch = ch =>
          /\ o # <<>> /\ ~GiveUp(s.chans[h]) /\ k[i].cemi = o[1]
    <3> SUFFICES ASSUME NEW i \in DOMAIN k, New(i), k[i].ch = ch
                 PROVE  o # <<>> /\ ~GiveUp(s.chans[h]) /\ k[i].cemi = o[1]
      OBVIOUS
    <3>1. PICK l \in DOMAIN s.chans :
            /\ Due(s.chans[l], late) /\ ~GiveUp(s.chans[l]) /\ s.chans[l].out # <<>>
            /\ k[i].ch = s.chans[l].ch /\ k[i].seq = s.chans[l].sno /\ k[i].cemi = s.chans[l].out[1]
      BY DEF New
    <3>2. l = h
      BY <3>1, <2>1 DEF Table
    <3> QED
      BY <3>1, <3>2
  <2>6. \A j \in DOMAIN o : o[j] \in Nat
    <3>1. \A j \in DOMAIN o : o[j] \in 0 .. MaxInd
      BY <2>1, Elements
    <3> QED
      BY <3>1
  <2>7. CASE t[h].out = o
    <3>1. ASSUME NEW j \in DOMAIN o, o[j] # 0, NEW i \in DOMAIN k, i > from /\ IsData(k[i]) /\ k[i].ch = ch
          PROVE  k[i].cemi < o[j] \/ (j = 1 /\ k[i].cemi = o[1])
      <4>1. CASE i \in DOMAIN m /\ k[i] = m[i]
        BY <3>1, <4>1, <2>3
      <4>2. CASE New(i)
        <5>1. k[i].cemi = o[1] /\ o # <<>>
          BY <4>2, <3>1, <2>5
        <5>2. 1 \in DOMAIN o /\ j \in Nat /\ 1 <= j
          BY <2>1, <5>1
        <5>3. CASE j = 1
          BY <5>1, <5>3
        <5>4. CASE j # 1
          <6>1. 1 < j
            BY <5>2, <5>4
          <6>2. CASE o[1] = 0
            BY <5>1, <6>2, <2>6, <3>1
          <6>3. CASE o[1] # 0
            BY <5>1, <5>2, <6>1, <6>3, <2>4, <3>1
          <6> QED
            BY <6>2, <6>3
        <5> QED
          BY <5>3, <5>4
      <4> QED
        BY <4>1, <4>2, <1>4
    <3> QED
      BY <3>1, <2>2, <2>3, <2>7
  <2>8. CASE GiveUp(s.chans[h]) /\ o # <<>> /\ t[h].out = Tail(o)
    <3> DEFINE r == Tail(o)
    <3>1. \A j \in DOMAIN r : j + 1 \in DOMAIN o /\ r[j] = o[j + 1] /\ j + 1 # 1
      BY <2>1, <2>8, Tailed
    <3> HIDE DEF r, o
    <3>2. ASSUME NEW j \in DOMAIN r, r[j] # 0
          PROVE  /\ \A i \in DOMAIN up : up[i] < r[j]
                 /\ \A i \in DOMAIN k : i > from /\ IsData(k[i]) /\ k[i].ch = ch => k[i].cemi < r[j]
      <4>1. /\ \A i \in DOMAIN up : up[i] < r[j]
            /\ \A i \in DOMAIN m : i > from /\ IsData(m[i]) /\ m[i].ch = ch => m[i].cemi < r[j]
        BY <3>1, <3>2, <2>3
      <4>2. \A i \in DOMAIN k : k[i].ch = ch => i \in DOMAIN m /\ k[i] = m[i]
        BY <2>5, <2>8, <1>4
      <4> QED
        BY <4>1, <4>2
    <3>3. t[h].out = r
      BY <2>8 DEF r
    <3> QED
      BY <3>2, <3>3, <2>2
  <2> QED
    BY <2>1, <2>7, <2>8
<1>10. Follows(x, y) /\ AcksFit(n, ch, x, y)
  BY DEF DownGoes
<1>11. DownGoes(up, t, n, k, from, ch, x, y)
  BY <1>7, <1>8, <1>9, <1>10 DEF DownGoes
<1> QED
  BY <1>11 DEF k

(* SendAll: every channel sends what is due.                               *)
LEMMA Resends ==
  ASSUME NEW c, NEW s, NEW n, NEW m, NEW que, NEW ind, NEW chg,
         LinkInv(c, s, n, m \o s.sent, que, ind, chg), m \in Seq(ToClient), NEW late
  PROVE  LinkInv(c, SendAll(s, late), n, m \o SendAll(s, late).sent, que, ind, chg)
<1> DEFINE k == m \o s.sent
           t == [i \in DOMAIN s.chans |-> AfterSend(s.chans[i], late)]
           g == [i \in DOMAIN s.chans |-> Requests(s.chans[i], late)]
           f == FlattenSeq(g)
           z1 == [s EXCEPT !.chans = t]
           z == [z1 EXCEPT !.sent = s.sent \o f]
           R == {TunnelRequest(s.chans[i].ch, s.chans[i].sno, Head(s.chans[i].out)) :
                   i \in {h \in DOMAIN s.chans : Due(s.chans[h], late) /\ ~GiveUp(s.chans[h])}}
<1>1. s \in Servers /\ s.chans \in Seq(Chan) /\ s.sent \in Seq(ToClient) /\ Table(s)
      /\ k \in Seq(ToClient)
  BY DEF LinkInv, Types, Servers
<1>2. \A i \in DOMAIN s.chans : s.chans[i] \in Chan
  BY <1>1, Elements
<1>3. \A i \in DOMAIN s.chans : s.chans[i].state # 0 => s.chans[i].out # <<>>
  BY <1>1 DEF Table
<1>4. SendAll(s, late) = z
  BY <1>1 DEF SendAll, Servers
<1>5. \A i \in DOMAIN s.chans : t[i] = AfterSend(s.chans[i], late)
  OBVIOUS
<1>6. \A i \in DOMAIN s.chans : g[i] = Requests(s.chans[i], late)
  OBVIOUS
<1>7. DOMAIN s.chans = 1 .. Len(s.chans) /\ Len(s.chans) \in Nat
  BY <1>1
<1>8. t = [i \in 1 .. Len(s.chans) |-> t[i]] /\ g = [i \in 1 .. Len(s.chans) |-> g[i]]
      /\ DOMAIN t = DOMAIN s.chans
  BY <1>7
<1>9. \A i \in DOMAIN s.chans : g[i] \in Seq(R)
  <2> SUFFICES ASSUME NEW i \in DOMAIN s.chans PROVE g[i] \in Seq(R)
    OBVIOUS
  <2>1. CASE Due(s.chans[i], late) /\ ~GiveUp(s.chans[i])
    <3> DEFINE p == TunnelRequest(s.chans[i].ch, s.chans[i].sno, Head(s.chans[i].out))
    <3>1. p \in R
      BY <2>1
    <3>2. g[i] = <<p>>
      BY <2>1, <1>6 DEF Requests
    <3> HIDE DEF p, R, g
    <3> QED
      BY <3>1, <3>2
  <2>2. CASE ~(Due(s.chans[i], late) /\ ~GiveUp(s.chans[i]))
    <3>1. g[i] = <<>>
      BY <2>2, <1>6 DEF Requests
    <3> HIDE DEF R, g
    <3> QED
      BY <3>1
  <2> QED
    BY <2>1, <2>2
<1>10. g \in Seq(Seq(R))
  <2> HIDE DEF R, g
  <2>1. g \in [1 .. Len(s.chans) -> Seq(R)]
    BY <1>7, <1>8, <1>9
  <2> QED
    BY <2>1, <1>7
<1> HIDE DEF t, g
<1>11. f \in Seq(R)
  <2> HIDE DEF R
  <2> QED
    BY <1>10, Flattened
<1> HIDE DEF f
<1>12. \A i \in DOMAIN s.chans : Due(s.chans[i], late) => s.chans[i].out # <<>>
  BY <1>3 DEF Due
<1>13. \A p \in R : \E i \in DOMAIN s.chans :
          /\ Due(s.chans[i], late) /\ ~GiveUp(s.chans[i]) /\ s.chans[i].out # <<>>
          /\ p = TunnelRequest(s.chans[i].ch, s.chans[i].sno, Head(s.chans[i].out))
  BY <1>12
<1> HIDE DEF R
<1>14. R \subseteq ToClient
  <2> SUFFICES ASSUME NEW p \in R PROVE p \in ToClient
    OBVIOUS
  <2>1. PICK i \in DOMAIN s.chans :
          s.chans[i].out # <<>> /\ p = TunnelRequest(s.chans[i].ch, s.chans[i].sno, Head(s.chans[i].out))
    BY <1>13
  <2>2. s.chans[i].ch \in Channel /\ s.chans[i].sno \in Number /\ s.chans[i].out \in Seq(0 .. MaxInd)
    BY <1>2 DEF Chan
  <2>3. Head(s.chans[i].out) \in 0 .. MaxInd
    BY <2>1, <2>2, Tailed
  <2> QED
    BY <2>1, <2>2, <2>3 DEF ToClient
<1>15. f \in Seq(ToClient)
  BY <1>11, <1>14
<1>16. SentAgain(f, s, late)
  <2>1. \A j \in DOMAIN f : f[j] \in R
    BY <1>11, Elements
  <2> QED
    BY <1>13, <2>1 DEF SentAgain
<1>17. OnlyData(f)
  BY <1>16 DEF SentAgain, OnlyData, IsData, TunnelRequest
<1>18. ASSUME NEW i \in DOMAIN s.chans
       PROVE  /\ t[i] \in Chan /\ t[i].ch = s.chans[i].ch /\ t[i].type = s.chans[i].type /\ t[i].rno = s.chans[i].rno
              /\ t[i].birth = s.chans[i].birth /\ t[i].sno = s.chans[i].sno
              /\ t[i].state # 0 => t[i].out # <<>>
              /\ \/ t[i].out = s.chans[i].out
                 \/ Due(s.chans[i], late) /\ GiveUp(s.chans[i]) /\ s.chans[i].out # <<>> /\ t[i].out = Tail(s.chans[i].out)
  <2> DEFINE b == s.chans[i]
             d == AfterSend(b, late)
  <2>1. b \in Chan /\ (b.state # 0 => b.out # <<>>) /\ t[i] = d
    BY <1>2, <1>3, <1>5
  <2> HIDE DEF b
  <2>2. /\ d \in Chan /\ d.ch = b.ch /\ d.type = b.type /\ d.rno = b.rno /\ d.birth = b.birth /\ d.sno = b.sno
        /\ d.state # 0 => d.out # <<>>
        /\ \/ d.out = b.out
           \/ Due(b, late) /\ GiveUp(b) /\ b.out # <<>> /\ d.out = Tail(b.out)
    BY <2>1, AfterSends
  <2> HIDE DEF d
  <2> QED
    BY <2>1, <2>2 DEF b
<1>19. t \in Seq(Chan)
  <2>1. t \in [1 .. Len(s.chans) -> Chan]
    BY <1>7, <1>8, <1>18
  <2> QED
    BY <2>1, <1>7
<1>20. s.sent \o f \in Seq(ToClient) /\ m \o (s.sent \o f) = k \o f
  <2>1. m \in Seq(ToClient) /\ s.sent \in Seq(ToClient)
    BY <1>1
  <2>2. s.sent \o f \in Seq(ToClient)
    BY <2>1, <1>15, ConcatProperties
  <2>3. m \o (s.sent \o f) = (m \o s.sent) \o f
    BY <2>1, <1>15, Associates
  <2> QED
    BY <2>2, <2>3
<1>21. z1 \in Servers
  BY <1>1, <1>19, ServerUpdates
<1>22. z \in Servers
  <2> HIDE DEF z1
  <2> QED
    BY <1>20, <1>21, ServerUpdates
<1>23. /\ z.chans = t /\ z.l3 = s.l3 /\ z.births = s.births /\ z.reg = s.reg /\ z.count = s.count
       /\ z.sent = s.sent \o f
  BY <1>1 DEF Servers
<1> HIDE DEF z, z1
<1>24. SameTable(z, s)
  BY <1>8, <1>18, <1>23 DEF SameTable
<1>25. Advances(t, s, late)
  BY <1>8, <1>18 DEF Advances
<1>26. DownContents(c.up, s.chans, k, ind)
  BY DEF LinkInv
<1>27. ASSUME NEW from, NEW ch, NEW x \in Number, NEW y, DownGoes(c.up, s.chans, n, k, from, ch, x, y)
       PROVE  DownGoes(c.up, z.chans, n, k \o f, from, ch, x, y)
  <2> HIDE DEF k
  <2>1. s \in Servers /\ Table(s) /\ k \in Seq(ToClient)
    BY <1>1
  <2>2. DownGoes(c.up, t, n, k \o f, from, ch, x, y)
    BY <2>1, <1>15, <1>16, <1>25, <1>26, <1>27, GoesDown
  <2> QED
    BY <2>2, <1>23
<1>28. DownLink(c, z, n, k \o f)
  BY <1>27 DEF LinkInv, DownLink
<1>29. \A i \in Answers(k) : k[i].status = 0 => DownGoes(c.up, z.chans, n, k \o f, i, k[i].ch, 0, 0)
  <2>1. 0 \in Number
    BY SuccFacts
  <2> QED
    BY <2>1, <1>27 DEF LinkInv, Answered
<1>30. DownContents(c.up, z.chans, k \o f, ind)
  <2>1. \A i \in DOMAIN t : \A j \in DOMAIN t[i].out : t[i].out[j] <= ind
    <3> SUFFICES ASSUME NEW i \in DOMAIN t, NEW j \in DOMAIN t[i].out PROVE t[i].out[j] <= ind
      OBVIOUS
    <3>1. i \in DOMAIN s.chans /\ s.chans[i].out \in Seq(0 .. MaxInd)
      BY <1>2, <1>8 DEF Chan
    <3>2. \A l \in DOMAIN s.chans[i].out : s.chans[i].out[l] <= ind
      BY <3>1, <1>26 DEF DownContents
    <3>3. CASE s.chans[i].out # <<>> /\ t[i].out = Tail(s.chans[i].out)
      <4>1. j + 1 \in DOMAIN s.chans[i].out /\ t[i].out[j] = s.chans[i].out[j + 1]
        BY <3>1, <3>3, Tailed
      <4> QED
        BY <3>2, <4>1
    <3> QED
      BY <3>1, <3>2, <3>3, <1>18
  <2>2. ASSUME NEW i \in DOMAIN t, NEW j \in DOMAIN t[i].out, NEW l \in DOMAIN t[i].out,
               j < l, t[i].out[j] # 0, t[i].out[l] # 0
        PROVE  t[i].out[j] < t[i].out[l]
    <3>1. i \in DOMAIN s.chans /\ s.chans[i].out \in Seq(0 .. MaxInd)
      BY <1>2, <1>8 DEF Chan
    <3> DEFINE o == s.chans[i].out
    <3>2. \A h, e \in DOMAIN o : h < e /\ o[h] # 0 /\ o[e] # 0 => o[h] < o[e]
      BY <3>1, <1>26 DEF DownContents
    <3>3. CASE o # <<>> /\ t[i].out = Tail(o)
      <4>1. j + 1 \in DOMAIN o /\ t[i].out[j] = o[j + 1] /\ l + 1 \in DOMAIN o /\ t[i].out[l] = o[l + 1]
        BY <3>1, <3>3, Tailed
      <4>2. j + 1 < l + 1
        <5>1. t[i].out \in Seq(0 .. MaxInd)
          BY <3>1, <3>3, Tailed
        <5>2. j \in Nat /\ l \in Nat
          BY <5>1
        <5> QED
          BY <5>2, <2>2
      <4> HIDE DEF o
      <4> QED
        BY <2>2, <3>2, <4>1, <4>2
    <3> QED
      BY <3>1, <3>2, <3>3, <1>18, <2>2
  <2>3. \A i \in DOMAIN (k \o f) : IsData((k \o f)[i]) => (k \o f)[i].cemi <= ind
    <3> SUFFICES ASSUME NEW i \in DOMAIN (k \o f), IsData((k \o f)[i]) PROVE (k \o f)[i].cemi <= ind
      OBVIOUS
    <3>1. (i \in DOMAIN k /\ (k \o f)[i] = k[i]) \/ \E j \in DOMAIN f : (k \o f)[i] = f[j]
      <4> HIDE DEF k
      <4> QED
        BY <1>1, <1>15, Joined
    <3>2. CASE i \in DOMAIN k /\ (k \o f)[i] = k[i]
      BY <3>2, <1>26 DEF DownContents
    <3>3. CASE \E j \in DOMAIN f : (k \o f)[i] = f[j]
      <4>1. PICK j \in DOMAIN f : (k \o f)[i] = f[j]
        BY <3>3
      <4>2. PICK h \in DOMAIN s.chans : s.chans[h].out # <<>>
              /\ f[j] = TunnelRequest(s.chans[h].ch, s.chans[h].sno, Head(s.chans[h].out))
        BY <1>16 DEF SentAgain
      <4>3. s.chans[h].out \in Seq(0 .. MaxInd)
        BY <1>2 DEF Chan
      <4>4. Head(s.chans[h].out) = s.chans[h].out[1] /\ 1 \in DOMAIN s.chans[h].out
        BY <4>2, <4>3, Tailed
      <4>5. s.chans[h].out[1] <= ind
        BY <4>4, <1>26 DEF DownContents
      <4>6. f[j].cemi = s.chans[h].out[1]
        BY <4>2, <4>4 DEF TunnelRequest
      <4> QED
        BY <4>1, <4>5, <4>6
    <3> QED
      BY <3>1, <3>2, <3>3
  <2> HIDE DEF k
  <2> QED
    BY <2>1, <2>2, <2>3, <1>23, <1>26 DEF DownContents
<1>31. LinkInv(c, z, n, k \o f, que, ind, chg)
  <2>1. LinkInv(c, s, n, k, que, ind, chg)
    OBVIOUS
  <2> HIDE DEF k
  <2> QED
    BY <2>1, <1>15, <1>17, <1>22, <1>24, <1>28, <1>29, <1>30, Downward
<1> QED
  BY <1>4, <1>20, <1>23, <1>31

(* The table t when confirmations have been queued and numbers have gone on. *)
Confirmed(t, chans) ==
  /\ DOMAIN t = DOMAIN chans
  /\ \A i \in DOMAIN chans :
       /\ t[i].ch = chans[i].ch /\ t[i].type = chans[i].type /\ t[i].sno = chans[i].sno
       /\ t[i].birth = chans[i].birth /\ t[i].state = chans[i].state
       /\ t[i].out = chans[i].out \/ t[i].out = Append(chans[i].out, Confirmation)

(* A request is answered by an acknowledgement.                            *)
LEMMA Replies ==
  ASSUME NEW c, NEW s, NEW n, NEW m, NEW que, NEW ind \in Nat, NEW chg,
         LinkInv(c, s, n, m, que, ind, chg), n # <<>>, IsData(Head(n)),
         NEW p \in ToClient, IsAck(p),
         NEW z \in Servers, z.births = s.births, z.reg = s.reg, z.count = s.count,
         Confirmed(z.chans, s.chans),
         UpContents(c.q, z.l3, Tail(n), que, z.births), L3InOrder(z.l3),
         DeliveredOf(s.l3) \subseteq DeliveredOf(z.l3),
         NEW y \in Number, UpGoes(c, z, Tail(n), Append(m, p), y, que, chg)
  PROVE  LinkInv(c, z, Tail(n), Append(m, p), que, ind, chg)
<1> DEFINE k == Append(m, p)
           l == Tail(n)
           t == z.chans
<1>1. LinkInv(c, s, l, m, que, ind, chg)
  BY NextUp
<1>2. n \in Seq(ToServer) /\ m \in Seq(ToClient) /\ s.chans \in Seq(Chan)
  BY DEF LinkInv, Types, Servers
<1>3. Asks(n) = {} /\ Answers(m) = {}
  <2>1. 1 \in DOMAIN n /\ Head(n) = n[1]
    BY <1>2, Tailed
  <2>2. ~NoData(n)
    BY <2>1 DEF NoData
  <2> QED
    BY <2>2 DEF LinkInv, Connecting
<1>4. k \in Seq(ToClient) /\ \A i \in DOMAIN k : (i \in DOMAIN m /\ k[i] = m[i]) \/ k[i] = p
  BY <1>2, Appended
<1>5. l \in Seq(ToServer) /\ \A i \in DOMAIN l : i + 1 \in DOMAIN n /\ l[i] = n[i + 1]
  BY <1>2, Tailed
<1>6. \A i \in DOMAIN s.chans : s.chans[i] \in Chan /\ s.chans[i].out \in Seq(0 .. MaxInd)
  <2>1. \A i \in DOMAIN s.chans : s.chans[i] \in Chan
    BY <1>2, Elements
  <2> QED
    BY <2>1 DEF Chan
<1>7. DOMAIN t = DOMAIN s.chans
  BY DEF Confirmed
<1>8. ASSUME NEW i \in DOMAIN t
      PROVE  /\ \A j \in DOMAIN t[i].out :
                  (j \in DOMAIN s.chans[i].out /\ t[i].out[j] = s.chans[i].out[j]) \/ t[i].out[j] = 0
             /\ t[i].out = <<>> => s.chans[i].out = <<>>
             /\ t[i].out[1] = s.chans[i].out[1] \/ s.chans[i].out = <<>>
  <2> DEFINE o == s.chans[i].out
  <2>1. i \in DOMAIN s.chans /\ o \in Seq(0 .. MaxInd) /\ (t[i].out = o \/ t[i].out = Append(o, 0))
    BY <1>6, <1>7 DEF Confirmed, Confirmation
  <2>2. 0 \in 0 .. MaxInd
    BY LinkAssumption
  <2> HIDE DEF o
  <2>3. \A j \in DOMAIN Append(o, 0) : (j \in DOMAIN o /\ Append(o, 0)[j] = o[j]) \/ Append(o, 0)[j] = 0
    BY <2>1, <2>2, Appended
  <2>4. Append(o, 0) # <<>> /\ (o # <<>> => 1 \in DOMAIN o /\ Append(o, 0)[1] = o[1])
    BY <2>1, <2>2, Appended
  <2>5. CASE t[i].out = o
    BY <2>5 DEF o
  <2>6. CASE t[i].out = Append(o, 0)
    BY <2>3, <2>4, <2>6 DEF o
  <2> QED
    BY <2>1, <2>5, <2>6
<1>9. UpLink(c, z, l, k, que, chg) /\ UpContents(c.q, z.l3, l, que, z.births)
  BY DEF UpLink
<1> HIDE DEF k, l, t
<1>10. Types(c, z, l, k)
  BY <1>1, <1>4, <1>5 DEF LinkInv, Types
<1>11. Table(z)
  <2>1. \A i, j \in DOMAIN t : t[i].ch = t[j].ch => i = j
    BY <1>1, <1>7 DEF LinkInv, Table, Confirmed, t
  <2>2. \A i \in DOMAIN t : t[i].state # 0 => t[i].out # <<>>
    BY <1>1, <1>7, <1>8 DEF LinkInv, Table, Confirmed, t
  <2>3. z.reg => z.count = 1 /\ \E i \in DOMAIN t : t[i].type = 1
    BY <1>1, <1>7 DEF LinkInv, Table, Confirmed, t
  <2> QED
    BY <2>1, <2>2, <2>3 DEF Table, t
<1>12. Asks(l) = {} /\ Answers(k) = {}
  <2>1. Asks(l) = {}
    BY <1>1, <1>3, <1>5 DEF Asks
  <2>2. Answers(k) = {}
    BY <1>3, <1>4 DEF Answers, IsAck
  <2> QED
    BY <2>1, <2>2
<1>13. Connecting(c.mod, l, k) /\ Mine(c.ch, l)
  BY <1>1, <1>12 DEF LinkInv, Connecting
<1>14. DownContents(c.up, t, k, ind)
  <2>1. \A i \in DOMAIN t : \A j \in DOMAIN t[i].out : t[i].out[j] <= ind
    BY <1>1, <1>7, <1>8 DEF LinkInv, DownContents
  <2>2. \A i \in DOMAIN t : \A j, h \in DOMAIN t[i].out :
          j < h /\ t[i].out[j] # 0 /\ t[i].out[h] # 0 => t[i].out[j] < t[i].out[h]
    <3> SUFFICES ASSUME NEW i \in DOMAIN t, NEW j \in DOMAIN t[i].out, NEW h \in DOMAIN t[i].out,
                        j < h /\ t[i].out[j] # 0 /\ t[i].out[h] # 0
                 PROVE  t[i].out[j] < t[i].out[h]
      OBVIOUS
    <3>1. /\ j \in DOMAIN s.chans[i].out /\ t[i].out[j] = s.chans[i].out[j]
          /\ h \in DOMAIN s.chans[i].out /\ t[i].out[h] = s.chans[i].out[h]
      BY <1>8
    <3> QED
      BY <3>1, <1>1, <1>7 DEF LinkInv, DownContents
  <2>3. \A i \in DOMAIN k : IsData(k[i]) => k[i].cemi <= ind
    BY <1>1, <1>4 DEF LinkInv, DownContents, IsData, IsAck
  <2> QED
    BY <2>1, <2>2, <2>3, <1>1 DEF LinkInv, DownContents
<1>15. ASSUME NEW x, NEW y0, DownGoes(c.up, s.chans, l, m, 0, c.ch, x, y0)
       PROVE  DownGoes(c.up, t, l, k, 0, c.ch, x, y0)
  <2>1. DataFits(k, 0, c.ch, x, y0)
    <3>1. \A i \in DOMAIN k : IsData(k[i]) => i \in DOMAIN m /\ k[i] = m[i]
      BY <1>4 DEF IsData, IsAck
    <3> QED
      BY <3>1, <1>15 DEF DownGoes, DataFits
  <2>2. \A i \in DOMAIN k : i > 0 /\ IsData(k[i]) /\ k[i].ch = c.ch /\ k[i].seq = y0 /\ k[i].cemi # 0 =>
          \A j \in DOMAIN c.up : c.up[j] < k[i].cemi
    BY <1>4, <1>15 DEF DownGoes, IsData, IsAck
  <2>3. ASSUME NEW h \in DOMAIN t, t[h].ch = c.ch
        PROVE  /\ t[h].sno = x
               /\ \A j \in DOMAIN t[h].out : t[h].out[j] # 0 =>
                    /\ \A i \in DOMAIN c.up :
                         c.up[i] < t[h].out[j] \/ (j = 1 /\ c.up[i] = t[h].out[1] /\ y0 = Succ(x))
                    /\ \A i \in DOMAIN k : i > 0 /\ IsData(k[i]) /\ k[i].ch = c.ch =>
                         k[i].cemi < t[h].out[j] \/ (j = 1 /\ k[i].cemi = t[h].out[1])
    <3>1. h \in DOMAIN s.chans /\ s.chans[h].ch = c.ch /\ t[h].sno = s.chans[h].sno
      BY <2>3, <1>7 DEF Confirmed, t
    <3>2. t[h].sno = x
      BY <3>1, <1>15 DEF DownGoes
    <3>3. ASSUME NEW j \in DOMAIN t[h].out, t[h].out[j] # 0
          PROVE  /\ \A i \in DOMAIN c.up :
                      c.up[i] < t[h].out[j] \/ (j = 1 /\ c.up[i] = t[h].out[1] /\ y0 = Succ(x))
                 /\ \A i \in DOMAIN k : i > 0 /\ IsData(k[i]) /\ k[i].ch = c.ch =>
                      k[i].cemi < t[h].out[j] \/ (j = 1 /\ k[i].cemi = t[h].out[1])
      <4>1. j \in DOMAIN s.chans[h].out /\ t[h].out[j] = s.chans[h].out[j]
        BY <1>8, <3>3
      <4>2. t[h].out[1] = s.chans[h].out[1]
        BY <1>8, <4>1
      <4>3. \A i \in DOMAIN k : IsData(k[i]) => i \in DOMAIN m /\ k[i] = m[i]
        BY <1>4 DEF IsData, IsAck
      <4> QED
        BY <4>1, <4>2, <4>3, <3>1, <3>3, <1>15 DEF DownGoes
    <3> QED
      BY <3>2, <3>3
  <2> QED
    BY <2>1, <2>2, <2>3, <1>15 DEF DownGoes
<1>16. DownLink(c, z, l, k)
  BY <1>1, <1>15 DEF LinkInv, DownLink, t
<1>17. Answered(c, z, l, k)
  BY <1>12 DEF Answered
<1>18. Undisturbed(c, z, l, que, chg)
  <2>1. chg = 0 => \A i \in DOMAIN t : t[i].type = 0
    BY <1>1, <1>7 DEF LinkInv, Undisturbed, Confirmed, t
  <2> QED
    BY <2>1, <1>1 DEF LinkInv, Undisturbed, t
<1> QED
  BY <1>1, <1>9, <1>10, <1>11, <1>13, <1>14, <1>16, <1>17, <1>18 DEF LinkInv, k, l, t

(* A request that was seen before is acknowledged again.                   *)
LEMMA AcknowledgesAgain ==
  ASSUME NEW c, NEW s, NEW n, NEW m, NEW que, NEW ind \in Nat, NEW chg,
         LinkInv(c, s, n, m, que, ind, chg), n # <<>>, IsData(Head(n)),
         NEW i \in DOMAIN s.chans, s.chans[i].ch = Head(n).ch, s.chans[i].rno = Succ(Head(n).seq)
  PROVE  LinkInv(c, s, Tail(n), Append(m, TunnelACK(Head(n).ch, Head(n).seq, 0)), que, ind, chg)
<1> DEFINE p == TunnelACK(Head(n).ch, Head(n).seq, 0)
           k == Append(m, p)
<1>1. n \in Seq(ToServer) /\ m \in Seq(ToClient) /\ s \in Servers
  BY DEF LinkInv, Types
<1>2. Head(n) = n[1] /\ 1 \in DOMAIN n /\ Head(n) \in ToServer
  BY <1>1, Tailed
<1>3. Head(n).ch \in Channel /\ Head(n).seq \in Number
  BY <1>2, UpPackets DEF IsData
<1>4. p \in ToClient /\ IsAck(p) /\ p.ch = Head(n).ch /\ p.seq = Head(n).seq
  BY <1>3 DEF ToClient, TunnelACK, IsAck
<1> HIDE DEF p
<1>5. Head(n).ch = c.ch
  BY <1>2 DEF LinkInv, Mine
<1>6. LinkInv(c, s, Tail(n), m, que, ind, chg)
  BY NextUp
<1>7. PICK y \in Number : UpGoes(c, s, n, m, y, que, chg)
  BY <1>2 DEF LinkInv, UpLink, NoData
<1>8. y = Succ(Head(n).seq)
  BY <1>5, <1>7 DEF UpGoes
<1>9. /\ Tail(n) \in Seq(ToServer)
      /\ \A j \in DOMAIN Tail(n) : j > 0 /\ j + 1 > 0 /\ j + 1 \in DOMAIN n /\ Tail(n)[j] = n[j + 1]
      /\ \A j, h \in DOMAIN Tail(n) : j < h => j + 1 < h + 1
  BY <1>1, Tailed
<1>10. UpGoes(c, s, Tail(n), k, y, que, chg)
  <2> DEFINE l == Tail(n)
  <2>1. c.sno \in Number
    BY DEF LinkInv, Types, Tunnels
  <2>2. AcksFit(k, c.ch, c.sno, y)
    <3>1. AcksFit(m, c.ch, c.sno, y) /\ Follows(c.sno, y)
      BY <1>7 DEF UpGoes
    <3> QED
      BY <2>1, <3>1, <1>1, <1>3, <1>4, <1>5, <1>8, AckSent
  <2> HIDE DEF k, l
  <2>3. DataFits(l, 0, c.ch, c.sno, y)
    <3>1. DataFits(n, 0, c.ch, c.sno, y)
      BY <1>7 DEF UpGoes
    <3>2. \A j \in DOMAIN l : j > 0 /\ j + 1 > 0 /\ j + 1 \in DOMAIN n /\ l[j] = n[j + 1]
      BY <1>9 DEF l
    <3>3. \A j, h \in DOMAIN l : j < h => j + 1 < h + 1
      BY <1>9 DEF l
    <3>4. \A j \in DOMAIN l : IsData(l[j]) /\ l[j].ch = c.ch =>
            l[j].seq = c.sno \/ (Succ(l[j].seq) = c.sno /\ y = c.sno)
      BY <3>1, <3>2 DEF DataFits
    <3>5. \A j, h \in DOMAIN l :
            j < h /\ IsData(l[j]) /\ IsData(l[h]) /\ l[j].ch = c.ch /\ l[h].ch = c.ch /\ l[j].seq = c.sno
              => l[h].seq = c.sno
      BY <3>1, <3>2, <3>3 DEF DataFits
    <3> QED
      BY <3>4, <3>5 DEF DataFits
  <2>4. y = c.sno => \A j \in DOMAIN l : IsData(l[j]) /\ l[j].seq = y /\ l[j].cemi # Marker =>
            \A h \in DOMAIN s.l3 : Later(s.l3[h], s.births, l[j].cemi)
    BY <1>7, <1>9 DEF UpGoes, l
  <2>5. chg = 0 => Losses(c.q, s.l3, l, c.sno, y, c.dropped, que)
    BY <1>7, <1>9 DEF UpGoes, Losses, l
  <2> QED
    BY <2>2, <2>3, <2>4, <2>5, <1>7 DEF UpGoes, l
<1>11. Confirmed(s.chans, s.chans)
  BY DEF Confirmed
<1>12. UpContents(c.q, s.l3, Tail(n), que, s.births) /\ L3InOrder(s.l3)
  BY <1>6 DEF LinkInv
<1>13. LinkInv(c, s, Tail(n), k, que, ind, chg)
  BY <1>1, <1>4, <1>10, <1>11, <1>12, Replies
<1> QED
  BY <1>13 DEF p

(* A new request is accepted: z is the server after it.  Its telegram goes *)
(* to Layer3 if the channel is one for telegrams.                          *)
LEMMA Takes ==
  ASSUME NEW c, NEW s, NEW n, NEW m, NEW que, NEW ind \in Nat, NEW chg,
         LinkInv(c, s, n, m, que, ind, chg), n # <<>>, IsData(Head(n)), Head(n).cemi # Marker,
         NEW i \in DOMAIN s.chans, s.chans[i].ch = Head(n).ch, s.chans[i].rno = Head(n).seq,
         NEW p \in ToClient, IsAck(p), p.ch = Head(n).ch, p.seq = Head(n).seq,
         NEW z \in Servers, z.births = s.births, z.reg = s.reg, z.count = s.count,
         Confirmed(z.chans, s.chans), z.chans[i].rno = Succ(s.chans[i].rno),
         \/ z.l3 = Append(s.l3, <<s.chans[i].birth, Head(n).cemi>>)
         \/ z.l3 = s.l3 /\ s.chans[i].type # 0
  PROVE  LinkInv(c, z, Tail(n), Append(m, p), que, ind, chg)
<1> DEFINE v == Head(n).cemi
           l == Tail(n)
           k == Append(m, p)
           x == c.sno
           g == <<s.births, v>>
<1>1. n \in Seq(ToServer) /\ m \in Seq(ToClient) /\ s \in Servers /\ s.l3 \in Seq(Nat \X Telegram)
      /\ s.births \in Nat /\ x \in Number
  BY DEF LinkInv, Types, Servers, Tunnels
<1>2. Head(n) = n[1] /\ 1 \in DOMAIN n /\ Head(n) \in ToServer
  BY <1>1, Tailed
<1>3. Head(n).ch \in Channel /\ Head(n).seq \in Number /\ v \in Telegram
  BY <1>2, UpPackets DEF IsData
<1>4. Head(n).ch = c.ch
  BY <1>2 DEF LinkInv, Mine
<1>5. LinkInv(c, s, l, m, que, ind, chg)
  BY NextUp
<1>6. PICK y \in Number : UpGoes(c, s, n, m, y, que, chg)
  BY <1>2 DEF LinkInv, UpLink, NoData
<1>7. y = Head(n).seq /\ s.chans[i].birth = s.births
  BY <1>4, <1>6 DEF UpGoes
<1>8. Follows(x, y) /\ DataFits(n, 0, c.ch, x, y) /\ AcksFit(m, c.ch, x, y)
  BY <1>6 DEF UpGoes
<1>9. y = x /\ DataFits(l, 0, c.ch, x, Succ(x))
  BY <1>1, <1>3, <1>4, <1>7, <1>8, InHand
<1>10. Succ(x) \in Number /\ Succ(x) # x
  BY <1>1, SuccFacts
<1>11. AcksFit(k, c.ch, x, Succ(x))
  BY <1>1, <1>3, <1>4, <1>7, <1>8, <1>9, AckSent
<1>12. \A j \in DOMAIN l : j + 1 \in DOMAIN n /\ l[j] = n[j + 1]
  BY <1>1, Tailed
<1>13. Before(v, c.q, que) /\ \A j \in DOMAIN s.l3 : Later(s.l3[j], s.births, v)
  <2>1. Before(v, c.q, que)
    BY <1>2 DEF LinkInv, UpContents
  <2>2. \A j \in DOMAIN s.l3 : Later(s.l3[j], s.births, v)
    BY <1>2, <1>6, <1>7, <1>9 DEF UpGoes
  <2> QED
    BY <2>1, <2>2
<1>14. z.l3 = Append(s.l3, g) \/ (z.l3 = s.l3 /\ s.chans[i].type # 0)
  BY <1>7
<1>15. g \in Nat \X Telegram /\ g[1] = s.births /\ g[2] = v
  BY <1>1, <1>3
<1> HIDE DEF g, l, k, v
<1>16. \A j \in DOMAIN s.l3 : j \in DOMAIN z.l3 /\ z.l3[j] = s.l3[j]
  BY <1>1, <1>14, <1>15, Appended
<1>17. \A j \in DOMAIN z.l3 : (j \in DOMAIN s.l3 /\ z.l3[j] = s.l3[j])
                               \/ (z.l3[j] = g /\ \A h \in DOMAIN z.l3 : ~(j < h))
  <2>1. CASE z.l3 = s.l3
    BY <2>1
  <2>2. CASE z.l3 = Append(s.l3, g)
    <3>1. \A j \in DOMAIN z.l3 : (j \in DOMAIN s.l3 /\ z.l3[j] = s.l3[j]) \/ (j = Len(s.l3) + 1 /\ z.l3[j] = g)
      BY <2>2, <1>1, <1>15, Appended
    <3>2. \A h \in DOMAIN z.l3 : ~(Len(s.l3) + 1 < h)
      BY <2>2, <1>1, <1>15, Appended
    <3> QED
      BY <3>1, <3>2
  <2> QED
    BY <2>1, <2>2, <1>14
<1>18. UpContents(c.q, z.l3, l, que, z.births)
  <2>1. UpContents(c.q, s.l3, l, que, s.births)
    BY <1>5 DEF LinkInv
  <2>2. \A j \in DOMAIN z.l3 : Before(z.l3[j][2], c.q, que) /\ z.l3[j][1] <= z.births
    <3> SUFFICES ASSUME NEW j \in DOMAIN z.l3 PROVE Before(z.l3[j][2], c.q, que) /\ z.l3[j][1] <= z.births
      OBVIOUS
    <3>1. CASE j \in DOMAIN s.l3 /\ z.l3[j] = s.l3[j]
      BY <2>1, <3>1 DEF UpContents
    <3>2. CASE z.l3[j] = g
      <4>1. s.births <= s.births
        BY <1>1
      <4> QED
        BY <3>2, <4>1, <1>13, <1>15
    <3> QED
      BY <3>1, <3>2, <1>17
  <2> QED
    BY <2>1, <2>2 DEF UpContents
<1>19. L3InOrder(z.l3)
  <2>1. L3InOrder(s.l3)
    BY <1>5 DEF LinkInv
  <2> SUFFICES ASSUME NEW a \in DOMAIN z.l3, NEW b \in DOMAIN z.l3, a < b
               PROVE  Later(z.l3[a], z.l3[b][1], z.l3[b][2])
    BY DEF L3InOrder
  <2>2. a \in DOMAIN s.l3 /\ z.l3[a] = s.l3[a]
    BY <1>17
  <2>3. CASE b \in DOMAIN s.l3 /\ z.l3[b] = s.l3[b]
    BY <2>1, <2>2, <2>3 DEF L3InOrder
  <2>4. CASE z.l3[b] = g
    BY <2>2, <2>4, <1>13, <1>15
  <2> QED
    BY <2>3, <2>4, <1>17
<1>20. DeliveredOf(s.l3) \subseteq DeliveredOf(z.l3)
  BY <1>16 DEF DeliveredOf
<1>21. UpGoes(c, z, l, k, Succ(x), que, chg)
  <2>1. \A j \in DOMAIN z.chans : z.chans[j].ch = c.ch => z.chans[j].rno = Succ(x) /\ z.chans[j].birth = z.births
    <3> SUFFICES ASSUME NEW j \in DOMAIN z.chans, z.chans[j].ch = c.ch
                 PROVE  z.chans[j].rno = Succ(x) /\ z.chans[j].birth = z.births
      OBVIOUS
    <3>1. j \in DOMAIN s.chans /\ s.chans[j].ch = c.ch /\ z.chans[j].birth = s.chans[j].birth
      BY DEF Confirmed
    <3>2. j = i
      BY <3>1, <1>4 DEF LinkInv, Table
    <3> QED
      BY <3>1, <3>2, <1>7, <1>9
  <2>2. Follows(x, Succ(x))
    BY DEF Follows
  <2>3. ASSUME chg = 0 PROVE Losses(c.q, z.l3, l, x, Succ(x), c.dropped, que)
    <3>1. Losses(c.q, s.l3, n, x, y, c.dropped, que)
      BY <2>3, <1>6 DEF UpGoes
    <3>2. z.l3 = Append(s.l3, g)
      BY <2>3, <1>14 DEF LinkInv, Undisturbed
    <3>3. v \in DeliveredOf(z.l3)
      <4>1. Len(s.l3) + 1 \in DOMAIN z.l3 /\ z.l3[Len(s.l3) + 1] = g
        BY <3>2, <1>1, <1>15, Appended
      <4> QED
        BY <4>1, <1>15 DEF DeliveredOf
    <3>4. v = FirstOf(c.q, que) \/ Lost(FirstOf(c.q, que), c.dropped)
      BY <3>1, <1>2, <1>7, <1>9 DEF Losses, v
    <3>5. \A j \in DOMAIN l : IsData(l[j]) /\ l[j].seq = x =>
             l[j].cemi = FirstOf(c.q, que) \/ Lost(FirstOf(c.q, que), c.dropped)
      BY <3>1, <1>12 DEF Losses
    <3> QED
      BY <3>3, <3>4, <3>5 DEF Losses
  <2> HIDE DEF x
  <2> QED
    BY <2>1, <2>2, <2>3, <1>9, <1>10, <1>11 DEF UpGoes, x
<1>22. LinkInv(c, z, Tail(n), Append(m, p), que, ind, chg)
  <2>1. UpGoes(c, z, Tail(n), Append(m, p), Succ(x), que, chg)
    BY <1>21 DEF l, k
  <2>2. UpContents(c.q, z.l3, Tail(n), que, z.births)
    BY <1>18 DEF l
  <2> QED
    BY <2>1, <2>2, <1>1, <1>10, <1>19, <1>20, Replies
<1> QED
  BY <1>22

(* AcceptRequest, for a channel for telegrams and for a monitor.           *)
LEMMA Accepting ==
  ASSUME NEW s \in Servers, NEW i \in DOMAIN s.chans, NEW p, p.seq \in Number, p.ch \in Channel, p.cemi \in Telegram
  PROVE  LET z == AcceptRequest(s, i, p)
             a == TunnelACK(p.ch, p.seq, IF s.chans[i].type = 0 THEN 0 ELSE WrongType)
         IN /\ z \in Servers /\ z.births = s.births /\ z.reg = s.reg /\ z.count = s.count
            /\ Confirmed(z.chans, s.chans) /\ z.chans[i].rno = Succ(s.chans[i].rno)
            /\ \/ z.l3 = Append(s.l3, <<s.chans[i].birth, p.cemi>>)
               \/ z.l3 = s.l3 /\ s.chans[i].type # 0
            /\ a \in ToClient /\ z.sent = Append(s.sent, a)
<1> DEFINE k == s.chans[i]
           a == TunnelACK(p.ch, p.seq, IF k.type = 0 THEN 0 ELSE WrongType)
           g == <<k.birth, p.cemi>>
           k1 == [k EXCEPT !.rno = Succ(k.rno)]
           k2 == [k1 EXCEPT !.out = Append(k.out, Confirmation)]
           d == IF k.type = 0 THEN k2 ELSE k1
           t == [s.chans EXCEPT ![i] = d]
           b1 == [s EXCEPT !.chans = t]
           b2 == [b1 EXCEPT !.l3 = Append(s.l3, g)]
           b == IF k.type = 0 THEN b2 ELSE b1
<1>1. s.chans \in Seq(Chan) /\ k \in Chan /\ s.l3 \in Seq(Nat \X Telegram)
  BY Elements DEF Servers
<1>2. k.rno \in Number /\ k.out \in Seq(0 .. MaxInd) /\ k.birth \in Nat
  BY <1>1 DEF Chan
<1>3. AcceptRequest(s, i, p) = Out(b, a)
  <2>1. CASE k.type = 0
    <3> DEFINE e == [s EXCEPT !.chans[i].rno = Succ(k.rno),
                              !.chans[i].out = Append(@, Confirmation),
                              !.l3 = Append(@, <<k.birth, p.cemi>>)]
    <3>1. AcceptRequest(s, i, p) = Out(e, a)
      BY <2>1 DEF AcceptRequest
    <3>2. e = b2
      BY <1>1, <2>1 DEF Servers, Chan
    <3> QED
      BY <2>1, <3>1, <3>2
  <2>2. CASE k.type # 0
    <3> DEFINE e == [s EXCEPT !.chans[i].rno = Succ(k.rno)]
    <3>1. AcceptRequest(s, i, p) = Out(e, a)
      BY <2>2 DEF AcceptRequest
    <3>2. e = b1
      BY <1>1, <2>2 DEF Servers, Chan
    <3> QED
      BY <2>2, <3>1, <3>2
  <2> QED
    BY <2>1, <2>2
<1>4. k1 \in Chan /\ k1.out = k.out
  <2>1. Succ(k.rno) \in Number
    BY <1>2, SuccFacts
  <2> QED
    BY <1>1, <2>1, ChannelUpdates DEF Chan
<1>5. k2 \in Chan
  <2>1. 0 \in 0 .. MaxInd
    BY LinkAssumption
  <2>2. Append(k.out, Confirmation) \in Seq(0 .. MaxInd)
    BY <1>2, <2>1, Appended DEF Confirmation
  <2> HIDE DEF k1
  <2> QED
    BY <1>4, <2>2, ChannelUpdates
<1>6. /\ d.ch = k.ch /\ d.type = k.type /\ d.sno = k.sno /\ d.birth = k.birth /\ d.state = k.state
      /\ d.out = k.out \/ d.out = Append(k.out, Confirmation)
      /\ d.rno = Succ(k.rno)
  <2>1. /\ k1.ch = k.ch /\ k1.type = k.type /\ k1.sno = k.sno /\ k1.birth = k.birth /\ k1.state = k.state
        /\ k1.out = k.out /\ k1.rno = Succ(k.rno)
    BY <1>1 DEF Chan
  <2>2. /\ k2.ch = k.ch /\ k2.type = k.type /\ k2.sno = k.sno /\ k2.birth = k.birth /\ k2.state = k.state
        /\ k2.out = Append(k.out, Confirmation) /\ k2.rno = Succ(k.rno)
    BY <1>1 DEF Chan
  <2> HIDE DEF k1, k2
  <2> QED
    BY <2>1, <2>2
<1>7. d \in Chan
  BY <1>4, <1>5
<1> HIDE DEF d
<1>8. /\ t \in Seq(Chan) /\ DOMAIN t = DOMAIN s.chans /\ t[i] = d
      /\ \A j \in DOMAIN s.chans : j # i => t[j] = s.chans[j]
  BY <1>1, <1>7, Puts
<1> HIDE DEF t
<1>9. b1 \in Servers
  BY <1>8, ServerUpdates
<1>10. b2 \in Servers
  <2>1. g \in Nat \X Telegram
    BY <1>2
  <2>2. Append(s.l3, g) \in Seq(Nat \X Telegram)
    <3> HIDE DEF g
    <3> QED
      BY <1>1, <2>1, Appended
  <2> HIDE DEF b1
  <2> QED
    BY <1>9, <2>2, ServerUpdates
<1>11. /\ b.births = s.births /\ b.reg = s.reg /\ b.count = s.count /\ b.chans = t /\ b.sent = s.sent
       /\ b.l3 = IF k.type = 0 THEN Append(s.l3, g) ELSE s.l3
  BY DEF Servers
<1>12. b \in Servers
  BY <1>9, <1>10
<1> HIDE DEF b
<1>13. Confirmed(t, s.chans) /\ t[i].rno = Succ(k.rno)
  BY <1>6, <1>8 DEF Confirmed
<1>14. a \in ToClient
  BY DEF ToClient
<1> DEFINE z == Out(b, a)
<1> HIDE DEF a
<1>15. /\ z \in Servers /\ z.sent = Append(s.sent, a) /\ z.chans = t /\ z.count = s.count /\ z.reg = s.reg
       /\ z.l3 = b.l3 /\ z.births = s.births
  BY <1>11, <1>12, <1>14, Outs
<1> HIDE DEF z
<1>16. AcceptRequest(s, i, p) = z
  BY <1>3 DEF z
<1> HIDE DEF k, g
<1>17. /\ z \in Servers /\ z.births = s.births /\ z.reg = s.reg /\ z.count = s.count
       /\ Confirmed(z.chans, s.chans) /\ z.chans[i].rno = Succ(k.rno)
       /\ \/ z.l3 = Append(s.l3, g)
          \/ z.l3 = s.l3 /\ k.type # 0
       /\ a \in ToClient /\ z.sent = Append(s.sent, a)
  BY <1>11, <1>13, <1>14, <1>15
<1> QED
  BY <1>16, <1>17 DEF k, g, a

(* OnClientRequest: a request of the client is dropped, acknowledged       *)
(* again, or accepted.                                                     *)
LEMMA RequestsHandled ==
  ASSUME NEW c, NEW s, NEW n, NEW m, NEW que, NEW ind \in Nat, NEW chg,
         LinkInv(c, s, n, m, que, ind, chg), n # <<>>, IsData(Head(n)), s.sent = <<>>
  PROVE  LET z == OnClientRequest(s, Head(n)) IN LinkInv(c, z, Tail(n), m \o z.sent, que, ind, chg)
<1> DEFINE p == Head(n)
           i == At(s, p.ch)
           z == OnClientRequest(s, p)
<1>1. n \in Seq(ToServer) /\ m \in Seq(ToClient) /\ s \in Servers
  BY DEF LinkInv, Types
<1>2. p \in ToServer
  BY <1>1, Tailed
<1>3. p.ch \in Channel /\ p.seq \in Number /\ p.cemi \in Telegram \cup {Marker}
  BY <1>2, UpPackets DEF IsData
<1>4. LinkInv(c, s, Tail(n), m, que, ind, chg)
  BY NextUp
<1>5. m \o <<>> = m /\ \A a \in ToClient : m \o Append(<<>>, a) = Append(m, a)
  BY <1>1, Concats
<1>6. CASE ~Has(s, p.ch) \/ p.cemi = Empty
  <2>1. z = s
    BY <1>6 DEF OnClientRequest
  <2> HIDE DEF z
  <2> QED
    BY <2>1, <1>4, <1>5 DEF z
<1>7. CASE Has(s, p.ch) /\ p.cemi # Empty
  <2>1. i \in DOMAIN s.chans /\ s.chans[i].ch = p.ch
    BY <1>7 DEF Has, Numbers, At
  <2>2. p.cemi \in Telegram /\ p.cemi # Marker
    BY <1>3, <1>7 DEF Empty, Marker
  <2>3. CASE SeenBefore(s.chans[i], p)
    <3> DEFINE a == TunnelACK(p.ch, p.seq, 0)
    <3>1. z = Out(s, a)
      BY <1>7, <2>3 DEF OnClientRequest
    <3>2. a \in ToClient
      BY <1>3 DEF ToClient
    <3>3. LinkInv(c, s, Tail(n), Append(m, a), que, ind, chg)
      BY <2>1, <2>3, AcknowledgesAgain DEF SeenBefore
    <3> HIDE DEF a, z
    <3>4. /\ z \in Servers /\ z.sent = Append(<<>>, a) /\ z.chans = s.chans /\ z.count = s.count
          /\ z.reg = s.reg /\ z.l3 = s.l3 /\ z.births = s.births
      BY <3>1, <3>2, <1>1, Outs
    <3>5. LinkInv(c, z, Tail(n), Append(m, a), que, ind, chg)
      BY <3>3, <3>4, Unsent
    <3> QED
      BY <3>2, <3>4, <3>5, <1>5 DEF z
  <2>4. CASE ~SeenBefore(s.chans[i], p) /\ s.chans[i].rno = p.seq
    <3> DEFINE a == TunnelACK(p.ch, p.seq, IF s.chans[i].type = 0 THEN 0 ELSE WrongType)
    <3>1. z = AcceptRequest(s, i, p)
      BY <1>7, <2>4 DEF OnClientRequest
    <3>2. IsAck(a) /\ a.ch = p.ch /\ a.seq = p.seq
      BY DEF TunnelACK, IsAck
    <3> HIDE DEF a, z, i
    <3>3. /\ z \in Servers /\ z.births = s.births /\ z.reg = s.reg /\ z.count = s.count
          /\ Confirmed(z.chans, s.chans) /\ z.chans[i].rno = Succ(s.chans[i].rno)
          /\ \/ z.l3 = Append(s.l3, <<s.chans[i].birth, p.cemi>>)
             \/ z.l3 = s.l3 /\ s.chans[i].type # 0
          /\ a \in ToClient /\ z.sent = Append(s.sent, a)
      BY <3>1, <1>1, <1>3, <2>1, <2>2, Accepting DEF a
    <3>4. LinkInv(c, z, Tail(n), Append(m, a), que, ind, chg)
      BY <2>1, <2>2, <2>4, <3>2, <3>3, Takes
    <3> QED
      BY <3>3, <3>4, <1>5 DEF z
  <2>5. CASE ~SeenBefore(s.chans[i], p) /\ s.chans[i].rno # p.seq
    <3>1. z = s
      BY <1>7, <2>5 DEF OnClientRequest
    <3> HIDE DEF z
    <3> QED
      BY <3>1, <1>4, <1>5 DEF z
  <2> QED
    BY <2>3, <2>4, <2>5
<1> QED
  BY <1>6, <1>7

(* An acknowledgement of the outstanding request of a channel.             *)
LEMMA AcksHandled ==
  ASSUME NEW c, NEW s, NEW n, NEW m, NEW que, NEW ind, NEW chg,
         LinkInv(c, s, n, m, que, ind, chg), n # <<>>, IsAck(Head(n)), s.sent = <<>>
  PROVE  LET z == OnClientAck(s, Head(n)) IN LinkInv(c, z, Tail(n), m \o z.sent, que, ind, chg)
<1> DEFINE p == Head(n)
           i == At(s, p.ch)
           z == OnClientAck(s, p)
           l == Tail(n)
           k == s.chans[i]
           x == k.sno
<1>1. n \in Seq(ToServer) /\ m \in Seq(ToClient) /\ s \in Servers /\ s.chans \in Seq(Chan)
  BY DEF LinkInv, Types, Servers
<1>2. p \in ToServer /\ p = n[1] /\ 1 \in DOMAIN n
  BY <1>1, Tailed
<1>3. p.ch \in Channel /\ p.seq \in Number
  BY <1>2, UpPackets DEF IsAck
<1>4. LinkInv(c, s, l, m, que, ind, chg)
  BY NextUp
<1>5. m \o <<>> = m
  BY <1>1, Concats
<1>6. CASE ~(Has(s, p.ch) /\ AckAccepted(k, p))
  <2>1. z = s
    BY <1>6 DEF OnClientAck
  <2> HIDE DEF z
  <2> QED
    BY <2>1, <1>4, <1>5 DEF z, l
<1>7. CASE Has(s, p.ch) /\ AckAccepted(k, p)
  <2>1. i \in DOMAIN s.chans /\ k.ch = p.ch
    BY <1>7 DEF Has, Numbers, At
  <2>2. k \in Chan /\ k.out \in Seq(0 .. MaxInd) /\ x \in Number
    <3>1. k \in Chan
      BY <1>1, <2>1, Elements
    <3> QED
      BY <3>1 DEF Chan
  <2>3. k.state # 0 /\ x = p.seq
    BY <1>7 DEF AckAccepted
  <2>4. k.out # <<>>
    BY <2>1, <2>3 DEF LinkInv, Table
  <2> DEFINE k1 == [k EXCEPT !.sno = Succ(x)]
             k2 == [k1 EXCEPT !.state = 0]
             d == [k2 EXCEPT !.out = Tail(k.out)]
             t == [s.chans EXCEPT ![i] = d]
             b == [s EXCEPT !.chans = t]
  <2>5. z = b
    <3> DEFINE e == [s EXCEPT !.chans[i].sno = Succ(@),
                              !.chans[i].state = 0, !.chans[i].out = Tail(@)]
    <3>1. z = e
      BY <1>7 DEF OnClientAck
    <3>2. e = b
      BY <1>1, <2>1, <2>2 DEF Servers, Chan
    <3> QED
      BY <3>1, <3>2
  <2>6. Succ(x) \in Number /\ Succ(x) # x /\ \A w \in Number : Succ(w) = Succ(x) => w = x
    BY <2>2, SuccFacts
  <2>7. Tail(k.out) \in Seq(0 .. MaxInd) /\ \A j \in DOMAIN Tail(k.out) : j + 1 \in DOMAIN k.out /\ Tail(k.out)[j] = k.out[j + 1] /\ j + 1 # 1
    BY <2>2, <2>4, Tailed
  <2>8. k1 \in Chan
    BY <2>2, <2>6, ChannelUpdates
  <2>9. k2 \in Chan
    <3>1. 0 \in 0 .. MaxSend
      BY ServerAssumption
    <3> HIDE DEF k1
    <3> QED
      BY <2>8, <3>1, ChannelUpdates
  <2>10. d \in Chan
    <3> HIDE DEF k2
    <3> QED
      BY <2>7, <2>9, ChannelUpdates
  <2>11. /\ d.ch = k.ch /\ d.type = k.type /\ d.rno = k.rno /\ d.birth = k.birth
         /\ d.sno = Succ(x) /\ d.state = 0 /\ d.out = Tail(k.out)
    BY <2>2 DEF Chan
  <2> HIDE DEF d
  <2>12. /\ t \in Seq(Chan) /\ DOMAIN t = DOMAIN s.chans /\ t[i] = d
         /\ \A j \in DOMAIN s.chans : j # i => t[j] = s.chans[j]
    BY <1>1, <2>1, <2>10, Puts
  <2> HIDE DEF t
  <2>13. b \in Servers
    BY <1>1, <2>12, ServerUpdates
  <2>14. /\ b.chans = t /\ b.l3 = s.l3 /\ b.births = s.births /\ b.reg = s.reg /\ b.count = s.count /\ b.sent = <<>>
    BY <1>1 DEF Servers
  <2> HIDE DEF b, z
  <2>15. SameTable(b, s)
    <3>1. \A j \in DOMAIN s.chans : s.chans[j].state # 0 => s.chans[j].out # <<>>
      BY DEF LinkInv, Table
    <3>2. \A j \in DOMAIN s.chans :
           /\ t[j].ch = s.chans[j].ch /\ t[j].type = s.chans[j].type
           /\ t[j].rno = s.chans[j].rno /\ t[j].birth = s.chans[j].birth
           /\ t[j].state # 0 => t[j].out # <<>>
      BY <3>1, <2>11, <2>12
    <3> QED
      BY <3>2, <2>12, <2>14 DEF SameTable
  <2>16. p.ch = c.ch /\ Asks(n) = {} /\ Answers(m) = {}
    <3>1. p.ch = c.ch
      BY <1>2 DEF LinkInv, Mine
    <3>2. ~NoData(n)
      BY <1>2 DEF NoData
    <3> QED
      BY <3>1, <3>2 DEF LinkInv, Connecting
  <2>17. DownContents(c.up, s.chans, m, ind)
    BY DEF LinkInv
  <2>18. DownContents(c.up, t, m, ind)
    <3> DEFINE o == k.out
    <3>1. \A j \in DOMAIN o : o[j] <= ind
      BY <2>1, <2>17 DEF DownContents
    <3>2. \A j, h \in DOMAIN o : j < h /\ o[j] # 0 /\ o[h] # 0 => o[j] < o[h]
      BY <2>1, <2>17 DEF DownContents
    <3> DEFINE r == Tail(o)
    <3>3. \A j \in DOMAIN r : j \in Nat /\ j + 1 \in DOMAIN o /\ r[j] = o[j + 1]
      BY <2>7
    <3> HIDE DEF o, r
    <3>4. \A j \in DOMAIN r : r[j] <= ind
      BY <3>1, <3>3
    <3>5. ASSUME NEW j \in DOMAIN r, NEW h \in DOMAIN r, j < h /\ r[j] # 0 /\ r[h] # 0 PROVE r[j] < r[h]
      <4>1. j + 1 < h + 1
        BY <3>3, <3>5
      <4> QED
        BY <4>1, <3>2, <3>3, <3>5
    <3>6. t[i].out = r
      BY <2>11, <2>12 DEF o, r
    <3>7. \A q \in DOMAIN t :
            LET out == t[q].out IN
            /\ \A j \in DOMAIN out : out[j] <= ind
            /\ \A j, h \in DOMAIN out : j < h /\ out[j] # 0 /\ out[h] # 0 => out[j] < out[h]
      <4> SUFFICES ASSUME NEW q \in DOMAIN t
                   PROVE
            LET out == t[q].out IN
            /\ \A j \in DOMAIN out : out[j] <= ind
            /\ \A j, h \in DOMAIN out : j < h /\ out[j] # 0 /\ out[h] # 0 => out[j] < out[h]
        OBVIOUS
      <4>1. CASE q = i
        BY <3>4, <3>5, <3>6, <4>1
      <4>2. CASE q # i
        BY <2>12, <2>17, <4>2 DEF DownContents
      <4> QED
        BY <4>1, <4>2
    <3> QED
      BY <3>7, <2>17 DEF DownContents
  <2>19. ASSUME c.mod # 0 PROVE DownGoes(c.up, t, l, m, 0, c.ch, Succ(x), c.rno)
    <3> DEFINE y == c.rno
    <3>1. PICK x0 \in Number : DownGoes(c.up, s.chans, n, m, 0, c.ch, x0, y)
      BY <2>19 DEF LinkInv, DownLink
    <3>2. x0 = x
      BY <2>1, <2>16, <3>1 DEF DownGoes
    <3>3. DataFits(m, 0, c.ch, x, y) /\ AcksFit(n, c.ch, x, y)
      BY <3>1, <3>2 DEF DownGoes
    <3>4. y = Succ(x)
      BY <1>2, <2>3, <2>6, <2>16, <3>3 DEF AcksFit
    <3>5. \A j \in DOMAIN m : j > 0 /\ IsData(m[j]) /\ m[j].ch = c.ch => m[j].seq = x
      BY <3>3, <3>4, <2>6 DEF DataFits
    <3>6. DataFits(m, 0, c.ch, Succ(x), Succ(x))
      BY <3>5, <2>6 DEF DataFits
    <3>7. AcksFit(l, c.ch, Succ(x), Succ(x))
      <4>1. \A j \in DOMAIN l : j + 1 \in DOMAIN n /\ l[j] = n[j + 1] /\ 1 < j + 1
        BY <1>1, Tailed
      <4>2. \A j \in DOMAIN n : 1 < j /\ IsAck(n[j]) /\ n[j].ch = c.ch => n[j].seq = x
        BY <1>2, <2>3, <2>16, <3>3 DEF AcksFit
      <4> HIDE DEF l
      <4>3. \A j \in DOMAIN l : IsAck(l[j]) /\ l[j].ch = c.ch => l[j].seq = x
        BY <4>1, <4>2
      <4> QED
        BY <4>3, <2>6 DEF AcksFit
    <3>8. \A j \in DOMAIN m : j > 0 /\ IsData(m[j]) /\ m[j].ch = c.ch => m[j].seq # y
      BY <3>4, <3>5, <2>6
    <3>9. ASSUME NEW h \in DOMAIN t, t[h].ch = c.ch
          PROVE  /\ t[h].sno = Succ(x)
                 /\ \A j \in DOMAIN t[h].out : t[h].out[j] # 0 =>
                      /\ \A q \in DOMAIN c.up :
                           c.up[q] < t[h].out[j] \/ (j = 1 /\ c.up[q] = t[h].out[1] /\ y = Succ(Succ(x)))
                      /\ \A q \in DOMAIN m : q > 0 /\ IsData(m[q]) /\ m[q].ch = c.ch =>
                           m[q].cemi < t[h].out[j] \/ (j = 1 /\ m[q].cemi = t[h].out[1])
      <4>1. h = i
        <5>1. h \in DOMAIN s.chans /\ s.chans[h].ch = s.chans[i].ch
          BY <3>9, <2>1, <2>11, <2>12, <2>16
        <5> QED
          BY <5>1, <2>1 DEF LinkInv, Table
      <4>2. t[h].out = Tail(k.out) /\ t[h].sno = Succ(x)
        BY <4>1, <2>11, <2>12
      <4>3. \A j \in DOMAIN k.out : k.out[j] # 0 /\ j # 1 =>
              /\ \A q \in DOMAIN c.up : c.up[q] < k.out[j]
              /\ \A q \in DOMAIN m : q > 0 /\ IsData(m[q]) /\ m[q].ch = c.ch => m[q].cemi < k.out[j]
        BY <2>1, <2>16, <3>1 DEF DownGoes
      <4> QED
        BY <4>2, <4>3, <2>7
    <3>10. Follows(Succ(x), y)
      BY <3>4 DEF Follows
    <3> HIDE DEF x, k, l
    <3> QED
      BY <3>4, <3>6, <3>7, <3>8, <3>9, <3>10 DEF DownGoes
  <2>20. DownLink(c, b, l, m)
    BY <2>6, <2>14, <2>19 DEF DownLink
  <2> DEFINE f == <<>>
  <2>21. m \o f = m /\ OnlyData(f) /\ f \in Seq(ToClient)
    BY <1>5 DEF OnlyData
  <2> HIDE DEF f, l
  <2>22. LinkInv(c, b, l, m \o f, que, ind, chg)
    BY <2>21, <1>4, <2>13, <2>14, <2>15, <2>16, <2>18, <2>20, Downward
  <2> QED
    BY <2>5, <2>14, <2>21, <2>22, <1>5 DEF z, l
<1> QED
  BY <1>6, <1>7

(* addClient: a free number, if there is one.                              *)
LEMMA FreeNumbers ==
  ASSUME NEW s
  PROVE  FreeNumber(s) = 0 \/ FreeNumber(s) \in Channel \ Numbers(s)
<1> DEFINE free == (1 .. MaxChannel) \ Numbers(s)
<1>1. CASE free = {}
  BY <1>1 DEF FreeNumber
<1>2. CASE free # {}
  <2>1. free \in SUBSET Nat
    BY ServerAssumption
  <2>2. FreeNumber(s) = CHOOSE k \in free : \A j \in free : k <= j
    BY <1>2 DEF FreeNumber
  <2>3. free \subseteq Channel \ Numbers(s)
    BY DEF Channel
  <2> HIDE DEF free
  <2>4. \E k \in free : \A j \in free : k <= j
    BY <1>2, <2>1, LeastNatural
  <2> QED
    BY <2>2, <2>3, <2>4
<1> QED
  BY <1>1, <1>2

(* OnConnectRequest: a channel is opened, for telegrams or as a monitor,   *)
(* or refused.                                                             *)
LEMMA ConnectsHandled ==
  ASSUME NEW c, NEW s, NEW n, NEW m, NEW que, NEW ind \in Nat, NEW chg,
         LinkInv(c, s, n, m, que, ind, chg), n # <<>>, Head(n).t = "connreq", s.sent = <<>>
  PROVE  LET z == OnConnectRequest(s, Head(n)) IN LinkInv(c, z, Tail(n), m \o z.sent, que, ind, chg)
<1> DEFINE p == Head(n)
           id == FreeNumber(s)
           z == OnConnectRequest(s, p)
           l == Tail(n)
<1>1. n \in Seq(ToServer) /\ m \in Seq(ToClient) /\ s \in Servers /\ s.chans \in Seq(Chan) /\ s.births \in Nat
      /\ s.count \in Int /\ s.reg \in BOOLEAN
  BY DEF LinkInv, Types, Servers
<1>2. p \in ToServer
  BY <1>1, Tailed
<1>3. p.mon \in BOOLEAN
  BY <1>2, UpPackets
<1>4. \A a \in ToClient : m \o Append(<<>>, a) = Append(m, a)
  BY <1>1, Concats
<1>5. CASE id = 0
  <2> DEFINE a == ConnectResponse(0, ConnectError)
  <2>1. z = Out(s, a)
    BY <1>5 DEF OnConnectRequest
  <2>2. a \in ToClient /\ a.t = "connres" /\ a.status # 0
    BY DEF ToClient, ConnectResponse, ConnectError
  <2> HIDE DEF a, z
  <2>3. LinkInv(c, s, l, Append(m, a), que, ind, chg)
    BY <2>2, Refuses
  <2>4. /\ z \in Servers /\ z.sent = Append(<<>>, a) /\ z.chans = s.chans /\ z.count = s.count
        /\ z.reg = s.reg /\ z.l3 = s.l3 /\ z.births = s.births
    BY <2>1, <2>2, <1>1, Outs
  <2>5. LinkInv(c, z, l, Append(m, a), que, ind, chg)
    BY <2>3, <2>4, Unsent
  <2> QED
    BY <2>2, <2>4, <2>5, <1>4 DEF z, l
<1>6. CASE id # 0
  <2> DEFINE a == ConnectResponse(id, 0)
             type == IF p.mon THEN 1 ELSE 0
             e == [ch |-> id, type |-> type, state |-> 0, sno |-> 0, rno |-> 0, out |-> <<>>, birth |-> s.births + 1]
             t == Append(s.chans, e)
             b1 == [s EXCEPT !.births = s.births + 1]
             b2 == [b1 EXCEPT !.chans = t]
             d == IF p.mon THEN AddBusmonitor(b2) ELSE b2
  <2>1. id \in Channel /\ id \notin Numbers(s)
    BY <1>6, FreeNumbers
  <2>2. z = Out(d, a)
    <3> DEFINE added == [s EXCEPT !.births = @ + 1,
                 !.chans = Append(@, [ch |-> id, type |-> type, state |-> 0, sno |-> 0,
                                      rno |-> 0, out |-> <<>>, birth |-> s.births + 1])]
    <3>1. z = Out(IF p.mon THEN AddBusmonitor(added) ELSE added, a)
      BY <1>6 DEF OnConnectRequest
    <3>2. added = b2
      BY <1>1 DEF Servers
    <3> QED
      BY <3>1, <3>2
  <2>3. a \in ToClient /\ a.t = "connres" /\ a.ch = id
    BY <2>1 DEF ToClient, ConnectResponse
  <2>4. e \in Chan
    <3>1. 0 \in 0 .. MaxSend /\ 0 \in Number /\ <<>> \in Seq(0 .. MaxInd) /\ s.births + 1 \in Nat /\ type \in {0, 1}
      BY <1>1, SuccFacts, ServerAssumption
    <3> HIDE DEF id, type
    <3> QED
      BY <2>1, <3>1 DEF Chan
  <2>5. /\ e.ch = id /\ e.type = type /\ e.state = 0 /\ e.sno = 0 /\ e.rno = 0 /\ e.out = <<>> /\ e.birth = s.births + 1
    OBVIOUS
  <2> HIDE DEF e, id
  <2>6. t \in Seq(Chan) /\ s.births + 1 \in Nat
    BY <1>1, <2>4, Appended
  <2> HIDE DEF t
  <2>7. b1 \in Servers
    BY <1>1, <2>6, ServerUpdates
  <2>8. b2 \in Servers
    <3> HIDE DEF b1
    <3> QED
      BY <2>6, <2>7, ServerUpdates
  <2>9. /\ b2.births = s.births + 1 /\ b2.chans = t /\ b2.l3 = s.l3 /\ b2.reg = s.reg /\ b2.count = s.count
        /\ b2.sent = <<>>
    BY <1>1 DEF Servers
  <2> HIDE DEF b2
  <2>10. /\ d \in Servers /\ d.births = s.births + 1 /\ d.chans = t /\ d.l3 = s.l3 /\ d.sent = <<>>
         /\ (d.reg = s.reg /\ d.count = s.count) \/ (p.mon /\ d.count = 1)
    <3>1. CASE ~(p.mon /\ s.count = 0)
      <4>1. d = b2
        BY <2>9, <3>1 DEF AddBusmonitor
      <4> QED
        BY <4>1, <2>8, <2>9
    <3>2. CASE p.mon /\ s.count = 0
      <4> DEFINE g1 == [b2 EXCEPT !.reg = TRUE]
                 g2 == [g1 EXCEPT !.count = 1]
      <4>1. d = g2
        BY <2>8, <2>9, <3>2 DEF AddBusmonitor, Servers
      <4>2. g1 \in Servers
        BY <2>8, ServerUpdates
      <4>3. g2 \in Servers
        <5> HIDE DEF g1
        <5> QED
          BY <4>2, ServerUpdates
      <4>4. /\ g2.births = b2.births /\ g2.chans = b2.chans /\ g2.l3 = b2.l3 /\ g2.sent = b2.sent /\ g2.count = 1
        BY <2>8 DEF Servers
      <4> HIDE DEF g2, d
      <4> QED
        BY <4>1, <4>3, <4>4, <2>9, <3>2
    <3> QED
      BY <3>1, <3>2
  <2> HIDE DEF a, d, z
  <2>11. /\ z \in Servers /\ z.sent = Append(<<>>, a) /\ z.chans = t /\ z.count = d.count
         /\ z.reg = d.reg /\ z.l3 = s.l3 /\ z.births = s.births + 1
    BY <2>2, <2>3, <2>10, Outs
  <2>12. /\ a.ch \in Channel /\ a.ch \notin Numbers(s) /\ e.ch = a.ch
         /\ e.type = (IF Head(n).mon THEN 1 ELSE 0)
         /\ z.chans = Append(s.chans, e)
         /\ (z.reg = s.reg /\ z.count = s.count) \/ (Head(n).mon /\ z.count = 1)
    BY <2>1, <2>3, <2>5, <2>10, <2>11 DEF t
  <2>13. LinkInv(c, z, l, Append(m, a), que, ind, chg)
    BY <2>3, <2>4, <2>5, <2>11, <2>12, Grants
  <2> QED
    BY <2>3, <2>11, <2>13, <1>4 DEF z, l
<1> QED
  BY <1>5, <1>6

(* A datagram that carries nothing of the link's state.                    *)
LEMMA PlainAnswer ==
  ASSUME NEW c, NEW s, NEW n, NEW m, NEW que, NEW ind, NEW chg,
         LinkInv(c, s, n, m, que, ind, chg), s.sent = <<>>,
         NEW a \in ToClient, a.t \in {"stateres", "discres"}
  PROVE  LET z == Out(s, a) IN LinkInv(c, z, n, m \o z.sent, que, ind, chg)
<1> DEFINE z == Out(s, a)
           f == <<a>>
<1>1. m \in Seq(ToClient) /\ s \in Servers
  BY DEF LinkInv, Types
<1>2. f \in Seq(ToClient) /\ f = Append(<<>>, a) /\ Plain(f)
  BY DEF Plain, IsData, IsAck
<1> HIDE DEF f, z
<1>3. LinkInv(c, s, n, m \o f, que, ind, chg)
  BY <1>2, SendsDown
<1>4. /\ z \in Servers /\ z.sent = f /\ z.chans = s.chans /\ z.count = s.count
      /\ z.reg = s.reg /\ z.l3 = s.l3 /\ z.births = s.births
  BY <1>1, <1>2, Outs DEF z
<1>5. LinkInv(c, z, n, m \o f, que, ind, chg)
  BY <1>3, <1>4, Unsent
<1> QED
  BY <1>4, <1>5 DEF z

(* HandlePacket, on any datagram of the client or none.                    *)
LEMMA PacketsHandled ==
  ASSUME NEW c, NEW s, NEW n, NEW m, NEW que, NEW ind \in Nat, NEW chg,
         LinkInv(c, s, n, m, que, ind, chg), s.sent = <<>>,
         NEW p, p = NoPacket \/ (n # <<>> /\ p = Head(n))
  PROVE  LET z == HandlePacket(s, p) IN LinkInv(c, z, Remaining(n, p), m \o z.sent, que, ind, chg)
<1> DEFINE z == HandlePacket(s, p)
           l == Tail(n)
<1>1. n \in Seq(ToServer) /\ m \in Seq(ToClient) /\ s \in Servers
  BY DEF LinkInv, Types
<1>2. m \o <<>> = m
  BY <1>1, Concats
<1>3. CASE p = NoPacket
  <2>1. z = s
    BY <1>3 DEF HandlePacket, NoPacket
  <2> QED
    BY <2>1, <1>2, <1>3 DEF Remaining
<1>4. CASE n # <<>> /\ p = Head(n)
  <2>1. p \in ToServer
    BY <1>1, <1>4, Tailed
  <2>2. p.t \in {"connreq", "statereq", "discreq", "discres", "tunreq", "ack"}
    BY <2>1, UpPackets
  <2>3. Remaining(n, p) = l
    BY <1>4, <2>2 DEF Remaining, NoPacket
  <2>4. LinkInv(c, s, l, m, que, ind, chg)
    BY <1>4, NextUp
  <2>5. CASE p.t = "connreq"
    <3>1. z = OnConnectRequest(s, p)
      BY <2>5 DEF HandlePacket
    <3> HIDE DEF z, l
    <3>2. LinkInv(c, z, Tail(n), m \o z.sent, que, ind, chg)
      BY <1>4, <2>5, <3>1, ConnectsHandled
    <3> QED
      BY <3>2, <2>3 DEF z, l
  <2>6. CASE p.t = "discreq"
    <3>1. z = OnClientDisconnect(s, p)
      BY <2>6 DEF HandlePacket
    <3>2. p.ch \in Channel \cup {-1}
      BY <2>1, <2>6, UpPackets
    <3>3. CASE Has(s, p.ch)
      <4> DEFINE b == RemoveChannel(s, p.ch)
                 a == DisconnectResponse(p.ch, 0)
      <4>1. z = Out(b, a)
        BY <3>1, <3>3 DEF OnClientDisconnect
      <4>2. a \in ToClient /\ a.t \in {"stateres", "discres"}
        BY <3>2 DEF ToClient, DisconnectResponse
      <4> HIDE DEF a, b, l
      <4>3. LinkInv(c, b, l, m, que, ind, chg) /\ b.sent = <<>>
        BY <2>4, <3>3, Removes DEF b
      <4>4. LinkInv(c, Out(b, a), l, m \o Out(b, a).sent, que, ind, chg)
        BY <4>2, <4>3, PlainAnswer
      <4> HIDE DEF z
      <4>5. LinkInv(c, z, l, m \o z.sent, que, ind, chg)
        BY <4>1, <4>4
      <4> QED
        BY <4>5, <2>3 DEF z
    <3>4. CASE ~Has(s, p.ch)
      <4> DEFINE a == DisconnectResponse(p.ch, NotConnectedRes)
      <4>1. z = Out(s, a)
        BY <3>1, <3>4 DEF OnClientDisconnect
      <4>2. a \in ToClient /\ a.t \in {"stateres", "discres"}
        BY <3>2 DEF ToClient, DisconnectResponse
      <4> HIDE DEF a, l
      <4>3. LinkInv(c, Out(s, a), l, m \o Out(s, a).sent, que, ind, chg)
        BY <4>2, <2>4, PlainAnswer
      <4> HIDE DEF z
      <4>4. LinkInv(c, z, l, m \o z.sent, que, ind, chg)
        BY <4>1, <4>3
      <4> QED
        BY <4>4, <2>3 DEF z
    <3> QED
      BY <3>3, <3>4
  <2>7. CASE p.t = "statereq"
    <3> DEFINE a == ConnectionStateResponse(p.ch, IF Has(s, p.ch) THEN 0 ELSE UnknownChannel)
    <3>1. z = Out(s, a)
      BY <2>7 DEF HandlePacket, OnStateRequest
    <3>2. p.ch \in Channel
      BY <2>1, <2>7, UpPackets
    <3>3. a \in ToClient /\ a.t \in {"stateres", "discres"}
      BY <3>2 DEF ToClient, ConnectionStateResponse
    <3> HIDE DEF a, l
    <3>4. LinkInv(c, Out(s, a), l, m \o Out(s, a).sent, que, ind, chg)
      BY <3>3, <2>4, PlainAnswer
    <3> HIDE DEF z
    <3>5. LinkInv(c, z, l, m \o z.sent, que, ind, chg)
      BY <3>1, <3>4
    <3> QED
      BY <3>5, <2>3 DEF z
  <2>8. CASE p.t = "tunreq"
    <3>1. z = OnClientRequest(s, p) /\ IsData(p)
      BY <2>8 DEF HandlePacket, IsData
    <3> HIDE DEF z, l
    <3>2. LinkInv(c, z, Tail(n), m \o z.sent, que, ind, chg)
      BY <1>4, <3>1, RequestsHandled
    <3> QED
      BY <3>2, <2>3 DEF z, l
  <2>9. CASE p.t = "ack"
    <3>1. z = OnClientAck(s, p) /\ IsAck(p)
      BY <2>9 DEF HandlePacket, IsAck
    <3> HIDE DEF z, l
    <3>2. LinkInv(c, z, Tail(n), m \o z.sent, que, ind, chg)
      BY <1>4, <3>1, AcksHandled
    <3> QED
      BY <3>2, <2>3 DEF z, l
  <2>10. CASE p.t = "discres"
    <3>1. z = s
      BY <2>10 DEF HandlePacket
    <3> QED
      BY <3>1, <2>3, <2>4, <1>2
  <2> QED
    BY <2>2, <2>5, <2>6, <2>7, <2>8, <2>9, <2>10
<1> QED
  BY <1>3, <1>4

(* ExpireChannel: channels whose time is up go.                            *)
LEMMA Expires ==
  ASSUME NEW c, NEW s, NEW n, NEW m, NEW que, NEW ind, NEW chg,
         LinkInv(c, s, n, m, que, ind, chg), NEW expired, NEW p
  PROVE  LET z == ExpireChannel(s, expired, p) IN
         LinkInv(c, z, n, m, que, ind, chg) /\ z.sent = s.sent
<1> DEFINE old == {i \in DOMAIN s.chans : s.chans[i].ch \in expired}
                    \ (IF p.t = "statereq" /\ Has(s, p.ch) THEN {At(s, p.ch)} ELSE {})
           j == CHOOSE i \in old : \A h \in old : i <= h
           z == ExpireChannel(s, expired, p)
<1>1. z = IF old = {} THEN s ELSE RemoveChannel(s, s.chans[j].ch)
  BY DEF ExpireChannel
<1>2. CASE old = {}
  BY <1>1, <1>2
<1>3. CASE old # {}
  <2>1. s.chans \in Seq(Chan)
    BY DEF LinkInv, Types, Servers
  <2>2. old \subseteq DOMAIN s.chans /\ DOMAIN s.chans \subseteq Nat
    BY <2>1
  <2> HIDE DEF old, z
  <2>3. \E i \in old : \A h \in old : i <= h
    BY <1>3, <2>2, LeastNatural
  <2>4. j \in old
    BY <2>3
  <2>5. Has(s, s.chans[j].ch)
    BY <2>2, <2>4 DEF Has, Numbers
  <2> HIDE DEF j
  <2>6. LinkInv(c, RemoveChannel(s, s.chans[j].ch), n, m, que, ind, chg)
        /\ RemoveChannel(s, s.chans[j].ch).sent = s.sent
    BY <2>5, Removes
  <2> QED
    BY <1>1, <1>3, <2>6 DEF z
<1> QED
  BY <1>2, <1>3

(* A turn of the server, from the datagram it takes to what it sends.      *)
LEMMA ServerTurns ==
  ASSUME NEW c, NEW s, NEW n, NEW m, NEW que, NEW ind \in Nat, NEW chg,
         LinkInv(c, s, n, m, que, ind, chg),
         NEW p, p = NoPacket \/ (n # <<>> /\ p = Head(n)), NEW expired, NEW late
  PROVE  LET e == ServerTurn(s, p, expired, late) IN
         LinkInv(c, [e EXCEPT !.sent = <<>>], Remaining(n, p), m \o e.sent, que, ind, chg)
<1> DEFINE b == [s EXCEPT !.sent = <<>>]
           h == HandlePacket(b, p)
           x == ExpireChannel(h, expired, p)
           e == SendAll(x, late)
           z == [e EXCEPT !.sent = <<>>]
           l == Remaining(n, p)
<1>1. s \in Servers /\ m \in Seq(ToClient) /\ <<>> \in Seq(ToClient)
  BY DEF LinkInv, Types
<1>2. ServerTurn(s, p, expired, late) = e
  BY DEF ServerTurn
<1>3. b \in Servers
  BY <1>1, ServerUpdates
<1>4. /\ b.sent = <<>> /\ b.chans = s.chans /\ b.count = s.count
      /\ b.reg = s.reg /\ b.l3 = s.l3 /\ b.births = s.births
  BY <1>1 DEF Servers
<1> HIDE DEF b
<1>5. LinkInv(c, b, n, m, que, ind, chg)
  BY <1>3, <1>4, Unsent
<1>6. LinkInv(c, h, l, m \o h.sent, que, ind, chg)
  BY <1>4, <1>5, PacketsHandled
<1> HIDE DEF h, l
<1>7. LinkInv(c, x, l, m \o h.sent, que, ind, chg) /\ x.sent = h.sent
  BY <1>6, Expires
<1> HIDE DEF x
<1>8. LinkInv(c, x, l, m \o x.sent, que, ind, chg)
  BY <1>7
<1>9. LinkInv(c, e, l, m \o e.sent, que, ind, chg)
  BY <1>1, <1>8, Resends
<1> HIDE DEF e
<1>10. e \in Servers
  BY <1>9 DEF LinkInv, Types
<1>11. z \in Servers
  BY <1>1, <1>10, ServerUpdates
<1>12. /\ z.chans = e.chans /\ z.count = e.count /\ z.reg = e.reg /\ z.l3 = e.l3 /\ z.births = e.births
  BY <1>10 DEF Servers
<1> HIDE DEF z
<1>13. LinkInv(c, z, l, m \o e.sent, que, ind, chg)
  BY <1>9, <1>11, <1>12, Unsent
<1> QED
  BY <1>2, <1>13 DEF z, l

(* The server stops, and may tell its clients.                             *)
LEMMA Stops ==
  ASSUME NEW c, NEW s, NEW n, NEW m, NEW que, NEW ind, NEW chg,
         LinkInv(c, s, n, m, que, ind, chg)
  PROVE  LET e == StopServer(s)
             z == [e EXCEPT !.sent = <<>>]
         IN LinkInv(c, z, <<>>, m, que, ind, chg) /\ LinkInv(c, z, <<>>, m \o e.sent, que, ind, chg)
<1> DEFINE e == StopServer(s)
           z == [e EXCEPT !.sent = <<>>]
           f == [i \in DOMAIN s.chans |-> DisconnectRequest(s.chans[i].ch)]
           a1 == [ServerInit EXCEPT !.births = s.births]
           a2 == [a1 EXCEPT !.l3 = s.l3]
           a3 == [a2 EXCEPT !.sent = f]
           v == [a3 EXCEPT !.sent = <<>>]
<1>1. s \in Servers /\ m \in Seq(ToClient) /\ s.chans \in Seq(Chan)
      /\ s.births \in Nat /\ s.l3 \in Seq(Nat \X Telegram)
  BY DEF LinkInv, Types, Servers
<1>2. e = a3 /\ z = v
  BY DEF StopServer
<1>5. f \in Seq(ToClient) /\ Plain(f)
  <2>1. DOMAIN s.chans = 1 .. Len(s.chans) /\ Len(s.chans) \in Nat
    BY <1>1
  <2>2. ASSUME NEW i \in DOMAIN s.chans
        PROVE  f[i] \in ToClient /\ f[i].t = "discreq"
    <3>1. s.chans[i] \in Chan
      BY <1>1, Elements
    <3>2. s.chans[i].ch \in Channel
      BY <3>1 DEF Chan
    <3> QED
      BY <3>2 DEF ToClient, DisconnectRequest
  <2>3. f = [i \in 1 .. Len(s.chans) |-> f[i]] /\ DOMAIN f = DOMAIN s.chans
    BY <2>1
  <2> HIDE DEF f
  <2>4. f \in [1 .. Len(s.chans) -> ToClient]
    BY <2>1, <2>2, <2>3
  <2>5. Plain(f)
    BY <2>2, <2>3 DEF Plain, IsData, IsAck
  <2> QED
    BY <2>1, <2>4, <2>5
<1>3. v \in Servers /\ e.sent = f
  <2> HIDE DEF f
  <2>1. <<>> \in Seq(Chan) /\ <<>> \in Seq(ToClient) /\ 0 \in Int /\ <<>> \in Seq(Nat \X Telegram) /\ 0 \in Nat
    OBVIOUS
  <2>2. ServerInit \in Servers
    BY <2>1 DEF ServerInit, Servers
  <2>3. a1 \in Servers
    BY <1>1, <2>2, ServerUpdates
  <2> HIDE DEF a1
  <2>4. a2 \in Servers
    BY <1>1, <2>3, ServerUpdates
  <2> HIDE DEF a2
  <2>5. a3 \in Servers /\ a3.sent = f
    BY <1>5, <2>4, ServerUpdates DEF Servers
  <2> HIDE DEF a3
  <2>6. v \in Servers
    BY <2>1, <2>5, ServerUpdates
  <2> QED
    BY <1>2, <2>5, <2>6
<1>4. v.chans = <<>> /\ v.l3 = s.l3 /\ v.births = s.births /\ v.reg = FALSE
  <2> HIDE DEF f
  <2>1. ServerInit.chans = <<>> /\ ServerInit.reg = FALSE /\ DOMAIN ServerInit = {"chans", "count", "reg", "l3", "births", "sent"}
    BY DEF ServerInit
  <2> QED
    BY <2>1
<1> HIDE DEF v, f
<1>6. Table(v) /\ DOMAIN v.chans = {}
  BY <1>4 DEF Table
<1>7. LinkInv(c, v, n, m, que, ind, chg)
  BY <1>3, <1>4, <1>6, Fewer
<1>8. LinkInv(c, v, <<>>, m, que, ind, chg)
  BY <1>7, Silence
<1>9. LinkInv(c, v, <<>>, m \o f, que, ind, chg)
  BY <1>5, <1>8, SendsDown
<1> HIDE DEF e
<1> QED
  BY <1>2, <1>8, <1>9 DEF e

(* A telegram of the server's bus is queued for tunnels and monitors.      *)
LEMMA Hears ==
  ASSUME NEW c, NEW s, NEW n, NEW m, NEW que, NEW ind \in Nat, NEW chg,
         LinkInv(c, s, n, m, que, ind, chg), ind < MaxInd
  PROVE  LinkInv(c, GetLBusmonitor(GetLData(s, ind + 1), ind + 1), n, m, que, ind + 1, chg)
<1> DEFINE item == ind + 1
           b == GetLData(s, item)
           z == GetLBusmonitor(b, item)
<1>1. item \in 1 .. MaxInd /\ ind < item /\ item \in Nat
  BY LinkAssumption
<1>2. /\ c.up \in Seq((-MaxTel) .. MaxInd) /\ m \in Seq(ToClient) /\ s.chans \in Seq(Chan)
      /\ DownContents(c.up, s.chans, m, ind)
  BY DEF LinkInv, Types, Tunnels, Servers
<1>3. \A i \in DOMAIN c.up : c.up[i] < item
  <2> SUFFICES ASSUME NEW i \in DOMAIN c.up PROVE c.up[i] < item
    OBVIOUS
  <2>1. c.up[i] \in (-MaxTel) .. MaxInd /\ c.up[i] <= ind
    BY <1>2, Elements DEF DownContents
  <2> QED
    BY <2>1
<1>4. \A i \in DOMAIN m : IsData(m[i]) => m[i].cemi < item
  <2> SUFFICES ASSUME NEW i \in DOMAIN m, IsData(m[i]) PROVE m[i].cemi < item
    OBVIOUS
  <2>1. m[i] \in ToClient /\ m[i].cemi <= ind
    BY <1>2, Elements DEF DownContents
  <2>2. m[i].cemi \in 0 .. MaxInd
    BY <2>1, DownPackets DEF IsData
  <2> QED
    BY <2>1, <2>2
<1>5. \A i \in DOMAIN s.chans : \A j \in DOMAIN s.chans[i].out : s.chans[i].out[j] < item
  <2> SUFFICES ASSUME NEW i \in DOMAIN s.chans, NEW j \in DOMAIN s.chans[i].out PROVE s.chans[i].out[j] < item
    OBVIOUS
  <2>1. s.chans[i] \in Chan /\ s.chans[i].out[j] <= ind
    BY <1>2, Elements DEF DownContents
  <2>2. s.chans[i].out \in Seq(0 .. MaxInd)
    BY <2>1 DEF Chan
  <2>3. s.chans[i].out[j] \in 0 .. MaxInd
    BY <2>2, Elements
  <2> QED
    BY <2>1, <2>3
<1>6. b = Queued(s, 0, item)
  BY DEF GetLData
<1> HIDE DEF item, b
<1>0. \A i \in DOMAIN s.chans : s.chans[i].type = 0 =>
        \A j \in DOMAIN s.chans[i].out : s.chans[i].out[j] < item
  BY <1>5
<1>7. /\ LinkInv(c, b, n, m, que, item, chg) /\ SameTable(b, s)
      /\ \A i \in DOMAIN s.chans : s.chans[i].type # 0 => b.chans[i] = s.chans[i]
  <2> DEFINE r == Queued(s, 0, item)
  <2>1. /\ LinkInv(c, r, n, m, que, item, chg) /\ SameTable(r, s)
        /\ \A i \in DOMAIN s.chans : s.chans[i].type # 0 => r.chans[i] = s.chans[i]
    <3> USE <1>0, <1>1, <1>3, <1>4
    <3> QED
      BY Indicates
  <2> HIDE DEF r
  <2> QED
    BY <1>6, <2>1 DEF r
<1>8. CASE ~b.reg
  BY <1>7, <1>8 DEF GetLBusmonitor, item, b
<1>9. CASE b.reg
  <2>1. z = Queued(b, 1, item)
    BY <1>9 DEF GetLBusmonitor
  <2>2. \A i \in DOMAIN b.chans : b.chans[i].type = 1 =>
          \A j \in DOMAIN b.chans[i].out : b.chans[i].out[j] < item
    BY <1>5, <1>7 DEF SameTable
  <2> HIDE DEF z
  <2>3. LinkInv(c, z, n, m, que, item, chg)
    BY <2>1, <2>2, <1>1, <1>3, <1>4, <1>7, Indicates
  <2> QED
    BY <2>3 DEF z, item, b
<1> QED
  BY <1>8, <1>9

(* Both ends start apart, with one connection request under way.           *)
LEMMA Starts == Init => TunnelInv
<1> SUFFICES ASSUME Init PROVE TunnelInv
  OBVIOUS
<1> DEFINE c == TunnelInit
           s == ServerInit
           n == <<ConnectRequest(FALSE)>>
<1>1. /\ tun = c /\ srv = s /\ toServer = n /\ toClient = <<>>
      /\ queued = 0 /\ indicated = 0 /\ changes = 0
  BY DEF Init
<1>2. /\ 0 \in Nat /\ 0 <= MaxTel /\ 0 <= MaxInd /\ 0 \in Number /\ 0 \in 0 .. MaxRetry /\ 0 \in 0 .. MaxBeat
  BY LinkAssumption, TunnelAssumption, NumModAssumption DEF Number
<1>3. n \in Seq(ToServer) /\ DOMAIN n = {1} /\ n[1].t = "connreq" /\ n[1].mon = FALSE
  <2> DEFINE p == ConnectRequest(FALSE)
  <2>1. p \in ToServer
    <3>1. p \in {ConnectRequest(b) : b \in BOOLEAN}
      BY Zenon
    <3> QED
      BY <3>1 DEF ToServer, ConnectRequest
  <2>2. p.t = "connreq" /\ p.mon = FALSE
    BY DEF ConnectRequest
  <2> HIDE DEF p
  <2>3. <<p>> \in Seq(ToServer) /\ DOMAIN <<p>> = {1} /\ <<p>>[1] = p
    BY <2>1
  <2> QED
    BY <2>2, <2>3 DEF p
<1>4. s.chans = <<>> /\ s.l3 = <<>> /\ s.births = 0 /\ s.reg = FALSE
  BY DEF ServerInit
<1>5. c \in Tunnels
  <2>1. <<>> \in Seq(Telegram \cup {Marker}) /\ <<>> \in Seq((-MaxTel) .. MaxInd) /\ <<>> \in Seq(ToServer)
    OBVIOUS
  <2>2. {} \in SUBSET Telegram /\ -1 \in {-1} \cup Channel /\ 0 \in 0 .. 3
    OBVIOUS
  <2> QED
    BY <1>2, <2>1, <2>2 DEF Tunnels, TunnelInit
<1>6. s \in Servers
  <2>1. <<>> \in Seq(Chan) /\ <<>> \in Seq(ToClient) /\ 0 \in Int /\ <<>> \in Seq(Nat \X Telegram) /\ 0 \in Nat
    OBVIOUS
  <2> QED
    BY <2>1 DEF Servers, ServerInit
<1>7. c.mod = 0 /\ c.q = <<>> /\ c.up = <<>> /\ c.want = FALSE /\ c.acked = {}
  BY DEF TunnelInit
<1> HIDE DEF c, s, n
<1>8. DOMAIN <<>> = {}
  OBVIOUS
<1>9. \A i \in DOMAIN n : n[i].t = "connreq" /\ ~n[i].mon
  BY <1>3
<1>10. Types(c, s, n, <<>>)
  BY <1>3, <1>5, <1>6, <1>7 DEF Types
<1>11. Table(s)
  BY <1>4, <1>8 DEF Table
<1>12. NoData(n)
  BY <1>9 DEF NoData, IsData, IsAck
<1>13. Connecting(c.mod, n, <<>>)
  <2>1. Answers(<<>>) = {} /\ \A i, j \in Asks(n) : i = j
    BY <1>3, <1>8 DEF Answers, Asks
  <2>2. NoAcks(<<>>)
    BY <1>8 DEF NoAcks
  <2> QED
    BY <1>7, <1>12, <2>1, <2>2 DEF Connecting
<1>14. Mine(c.ch, n)
  BY <1>9 DEF Mine, IsData, IsAck
<1>15. UpContents(c.q, s.l3, n, 0, s.births) /\ L3InOrder(s.l3)
  BY <1>4, <1>7, <1>8, <1>9 DEF UpContents, L3InOrder, Queue, IsData
<1>16. UpLink(c, s, n, <<>>, 0, 0)
  BY <1>7, <1>12 DEF UpLink
<1>17. DownContents(c.up, s.chans, <<>>, 0)
  BY <1>4, <1>7, <1>8 DEF DownContents
<1>18. DownLink(c, s, n, <<>>) /\ Answered(c, s, n, <<>>)
  BY <1>7, <1>8 DEF DownLink, Answered, Answers
<1>19. Heads(c.mod, c.q, 0)
  BY <1>7, <1>8 DEF Heads, OneMarker
<1>20. Undisturbed(c, s, n, 0, 0)
  <2>1. Len(c.q) = 0
    BY <1>7
  <2> QED
    BY <1>4, <1>7, <1>8, <1>9, <2>1 DEF Undisturbed, Asks
<1>21. LinkInv(c, s, n, <<>>, 0, 0, 0)
  BY <1>10, <1>11, <1>13, <1>14, <1>15, <1>16, <1>17, <1>18, <1>19, <1>20 DEF LinkInv
<1> QED
  BY <1>1, <1>2, <1>21 DEF TunnelInv

(* Every step of the two ends and of the path between them.                *)
LEMMA LinkSteps == TunnelInv /\ [Next]_vars => TunnelInv'
<1> SUFFICES ASSUME TunnelInv, [Next]_vars PROVE TunnelInv'
  OBVIOUS
<1> DEFINE Then(c, s, n, m, que, ind, chg) ==
             /\ que \in Nat /\ que <= MaxTel /\ ind \in Nat /\ ind <= MaxInd /\ chg \in Nat
             /\ LinkInv(c, s, n, m, que, ind, chg)
<1>1. Then(tun, srv, toServer, toClient, queued, indicated, changes)
  BY DEF TunnelInv
<1>2. SUFFICES Then(tun', srv', toServer', toClient', queued', indicated', changes')
  BY DEF TunnelInv
<1>3. CASE TunnelStep
  <2> PICK p \in Arriving(toClient), to \in BOOLEAN, t1 \in BOOLEAN : TunnelTurns(p, to, t1)
    BY <1>3 DEF TunnelStep
  <2> DEFINE e == Turn(tun, p, to, t1)
  <2>1. /\ tun' = [e EXCEPT !.sent = <<>>] /\ toServer' = toServer \o e.sent
        /\ toClient' = Remaining(toClient, p)
        /\ UNCHANGED <<srv, bounds>> /\ (t1 => Quiet)
    BY DEF TunnelTurns
  <2>2. p = NoPacket \/ (toClient # <<>> /\ p = Head(toClient) /\ ~t1)
    BY <2>1 DEF Arriving, Quiet
  <2>3. t1 => toServer = <<>> /\ toClient = <<>>
    BY <2>1 DEF Quiet
  <2>4. LinkInv([e EXCEPT !.sent = <<>>], srv, toServer \o e.sent, Remaining(toClient, p), queued, indicated, changes)
    BY <1>1, <2>2, <2>3, Turns
  <2> HIDE DEF e
  <2> QED
    BY <1>1, <2>1, <2>4 DEF bounds
<1>4. CASE ServerStep
  <2> PICK p \in Arriving(toServer), late \in SUBSET Numbers(srv) :
        /\ srv' = [ServerTurn(srv, p, {}, late) EXCEPT !.sent = <<>>]
        /\ toClient' = toClient \o ServerTurn(srv, p, {}, late).sent
        /\ toServer' = Remaining(toServer, p)
        /\ UNCHANGED <<tun, bounds>>
    BY <1>4 DEF ServerStep
  <2> DEFINE e == ServerTurn(srv, p, {}, late)
  <2>1. p = NoPacket \/ (toServer # <<>> /\ p = Head(toServer))
    BY DEF Arriving
  <2>2. LinkInv(tun, [e EXCEPT !.sent = <<>>], Remaining(toServer, p), toClient \o e.sent, queued, indicated, changes)
    BY <1>1, <2>1, ServerTurns
  <2> QED
    BY <1>1, <2>2 DEF bounds
<1>5. CASE ChannelExpires
  <2> PICK ch \in Numbers(srv) :
        /\ srv' = [ServerTurn(srv, NoPacket, {ch}, {}) EXCEPT !.sent = <<>>]
        /\ toClient' = toClient \o ServerTurn(srv, NoPacket, {ch}, {}).sent
        /\ UNCHANGED <<tun, toServer, queued, indicated, changes>>
    BY <1>5 DEF ChannelExpires
  <2> DEFINE e == ServerTurn(srv, NoPacket, {ch}, {})
  <2>1. LinkInv(tun, [e EXCEPT !.sent = <<>>], Remaining(toServer, NoPacket), toClient \o e.sent, queued, indicated, changes)
    BY <1>1, ServerTurns
  <2>2. Remaining(toServer, NoPacket) = toServer
    BY DEF Remaining
  <2> QED
    BY <1>1, <2>1, <2>2
<1>6. CASE Send
  <2>1. /\ queued' = queued + 1 /\ queued < MaxTel /\ tun' = SendLData(tun, queued')
        /\ UNCHANGED <<srv, toServer, toClient, indicated, changes>>
    BY <1>6 DEF Send
  <2>2. queued + 1 \in Telegram /\ queued + 1 \in Nat /\ queued + 1 <= MaxTel
    BY <1>1, <2>1, LinkAssumption DEF Telegram
  <2>3. LinkInv(SendLData(tun, queued + 1), srv, toServer, toClient, queued + 1, indicated, changes)
    BY <1>1, <2>2, Sends
  <2> QED
    BY <1>1, <2>1, <2>2, <2>3
<1>7. CASE SwitchMonitor
  <2>1. /\ changes' = changes + 1
        /\ Overlap \/ Marker \notin {tun.q[i] : i \in DOMAIN tun.q}
        /\ tun' = EnterBusmonitor(tun) \/ tun' = LeaveBusmonitor(tun)
        /\ UNCHANGED <<srv, toServer, toClient, queued, indicated>>
    BY <1>7 DEF SwitchMonitor
  <2>2. LinkInv(tun', srv, toServer, toClient, queued, indicated, changes + 1)
    BY <1>1, <2>1, Switches
  <2> QED
    BY <1>1, <2>1, <2>2
<1>8. CASE Indicate
  <2>1. /\ indicated' = indicated + 1 /\ indicated < MaxInd
        /\ srv' = GetLBusmonitor(GetLData(srv, indicated + 1), indicated + 1)
        /\ UNCHANGED <<tun, toServer, toClient, queued, changes>>
    BY <1>8 DEF Indicate
  <2>2. LinkInv(tun, srv', toServer, toClient, queued, indicated + 1, changes)
    BY <1>1, <2>1, Hears
  <2>3. indicated + 1 \in Nat /\ indicated + 1 <= MaxInd
    BY <1>1, <2>1, LinkAssumption
  <2> QED
    BY <1>1, <2>1, <2>2, <2>3
<1>9. CASE LoseToServer
  <2>1. /\ toServer # <<>> /\ toServer' = Tail(toServer)
        /\ UNCHANGED <<tun, srv, toClient, queued, indicated, changes>>
    BY <1>9 DEF LoseToServer
  <2>2. LinkInv(tun, srv, Tail(toServer), toClient, queued, indicated, changes)
    BY <1>1, <2>1, NextUp
  <2> QED
    BY <1>1, <2>1, <2>2
<1>10. CASE LoseToClient
  <2>1. /\ toClient # <<>> /\ toClient' = Tail(toClient)
        /\ UNCHANGED <<tun, srv, toServer, queued, indicated, changes>>
    BY <1>10 DEF LoseToClient
  <2>2. LinkInv(tun, srv, toServer, Tail(toClient), queued, indicated, changes)
    BY <1>1, <2>1, NextDown
  <2> QED
    BY <1>1, <2>1, <2>2
<1>11. CASE Restart
  <2> DEFINE e == StopServer(srv)
  <2>1. /\ srv' = [e EXCEPT !.sent = <<>>]
        /\ toClient' = toClient \o e.sent \/ toClient' = toClient
        /\ toServer' = <<>> /\ UNCHANGED <<tun, queued, indicated, changes>>
    BY <1>11 DEF Restart
  <2>2. /\ LinkInv(tun, [e EXCEPT !.sent = <<>>], <<>>, toClient, queued, indicated, changes)
        /\ LinkInv(tun, [e EXCEPT !.sent = <<>>], <<>>, toClient \o e.sent, queued, indicated, changes)
    BY <1>1, Stops
  <2> HIDE DEF e
  <2> QED
    BY <1>1, <2>1, <2>2
<1>12. CASE UNCHANGED vars
  BY <1>1, <1>12 DEF vars, bounds
<1> HIDE DEF Then
<1> QED
  BY <1>3, <1>4, <1>5, <1>6, <1>7, <1>8, <1>9, <1>10, <1>11, <1>12 DEF Next

(* The inductive invariant of the tunnel, for every bound on work, faults  *)
(* and repetitions.                                                        *)
THEOREM TunnelInvariance == Spec => []TunnelInv
BY Starts, LinkSteps, PTL DEF Spec

(* Unique channel numbers, no registration without its channel, and a      *)
(* queue that is not empty where one of its requests is outstanding.       *)
THEOREM TableOfChannelsAgrees == Spec => []ChannelsAgree
<1>1. TunnelInv => ChannelsAgree
  <2> SUFFICES ASSUME TunnelInv PROVE ChannelsAgree
    OBVIOUS
  <2>1. tun \in Tunnels /\ srv \in Servers /\ Table(srv)
    BY DEF TunnelInv, LinkInv, Types
  <2>2. NumbersUnique /\ NoIdleMonitor
    BY <2>1 DEF NumbersUnique, NoIdleMonitor, Table
  <2>3. ASSUME NEW i \in DOMAIN srv.chans
        PROVE  LET k == srv.chans[i] IN
               /\ k.ch \in 1 .. MaxChannel /\ k.type \in {0, 1} /\ k.state \in 0 .. MaxSend
               /\ k.sno \in Number /\ k.rno \in Number
               /\ k.out \in Seq((1 .. MaxInd) \cup {Confirmation})
               /\ k.state # 0 => k.out # <<>>
    <3>1. srv.chans[i] \in Chan
      BY <2>1, Elements DEF Servers
    <3>2. (1 .. MaxInd) \cup {Confirmation} = 0 .. MaxInd
      BY LinkAssumption DEF Confirmation
    <3> QED
      BY <2>1, <3>1, <3>2 DEF Chan, Table, Channel
  <2>4. TypeOK
    BY <2>1, <2>3 DEF TypeOK, Tunnels, Channel
  <2> QED
    BY <2>2, <2>4 DEF ChannelsAgree
<1> QED
  BY <1>1, TunnelInvariance, PTL

(* Telegrams keep their order in both directions, whatever is lost or      *)
(* repeated, and an acknowledgement takes only its own telegram from the   *)
(* queue, if the mode is not changed again while a change is queued.       *)
THEOREM TelegramsKeepOrder ==
  ASSUME ~Overlap
  PROVE  Spec => []TelegramsInOrder
<1>1. TunnelInv => TelegramsInOrder
  <2> SUFFICES ASSUME TunnelInv PROVE TelegramsInOrder
    OBVIOUS
  <2>1. /\ Heads(tun.mod, tun.q, changes) /\ L3InOrder(srv.l3)
        /\ DownContents(tun.up, srv.chans, toClient, indicated)
    BY DEF TunnelInv, LinkInv
  <2>2. OutstandingIsHead
    BY <2>1 DEF OutstandingIsHead, Heads
  <2>3. UpInOrder
    BY <2>1, <2>2 DEF UpInOrder, L3InOrder, Later
  <2>4. DownInOrder
    BY <2>1 DEF DownInOrder, DownContents
  <2> QED
    BY <2>3, <2>4 DEF TelegramsInOrder
<1> QED
  BY <1>1, TunnelInvariance, PTL

(* The order does not need that assumption; what does is that the head of  *)
(* the queue is the outstanding telegram.                                  *)
THEOREM OrderUnderOverlap == Spec => [](L3InOrder(srv.l3) /\ DownInOrder)
<1>1. TunnelInv => L3InOrder(srv.l3) /\ DownInOrder
  BY DEF TunnelInv, LinkInv, DownInOrder, DownContents
<1> QED
  BY <1>1, TunnelInvariance, PTL

(* While the tunnel stays a tunnel, an acknowledged telegram has reached   *)
(* the server's bus, except the one after a dropped one.                   *)
THEOREM LostOnlyAfterDrop == Spec => []LossOnlyAfterDrop
<1>1. TunnelInv => LossOnlyAfterDrop
  BY DEF TunnelInv, LinkInv, Undisturbed, LossOnlyAfterDrop, Delivered, DeliveredOf
<1> QED
  BY <1>1, TunnelInvariance, PTL
=============================================================================
