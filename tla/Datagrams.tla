----------------------------- MODULE Datagrams -----------------------------
(***************************************************************************)
(* A socket for KNXnet/IP datagrams (eibnetip.cpp in src/eibd/libserver):  *)
(* each kind is written by its ToPacket and read by its parse function,    *)
(* and the thread of the socket sends what is queued, gives up a datagram  *)
(* that cannot be sent, and passes up what comes from a wanted address.    *)
(* An IP address and a port are one octet each, a multi-octet name or      *)
(* number that is copied as a whole is one octet repeated.                 *)
(***************************************************************************)
EXTENDS Integers, Sequences

CONSTANTS
  Bodies,     \* octets of CRI, CRD and cEMI frames
  MaxErrors   \* errors after which a datagram is dropped: 5 in the code

ASSUME DatagramsAssumption == Bodies \subseteq Nat \ {0} /\ MaxErrors \in Nat

VARIABLES
  inqueue,   \* datagrams to be sent (at most one here)
  error,     \* errors in a row with the first of them
  flying,    \* octets on the way, and where they come from
  passed,    \* what the reader of the other socket was given last
  original   \* history: the datagram that is on the way or was read

dgvars == <<inqueue, error, flying, passed, original>>

----------------------------------------------------------------------------
(* EIBnet_...Request and Response: service; length without the body;       *)
(* whether a 4, the length of the connection header, comes first; places   *)
(* of numbers and of addresses; how the body ends the datagram.            *)
Layout(service, size, four, numbers, addrs, body) ==
  [service |-> service, size |-> size, four |-> four, numbers |-> numbers,
   addrs |-> addrs, body |-> body]

Numbered(service, numbers, body) == Layout(service, 4, TRUE, numbers, <<>>, body)
ChannelAt(k) == [channel |-> k]

ConnectRequest == Layout(517, 16, FALSE, <<>>, <<0, 8>>, "counted")
ConnectResponse == Layout(518, 10, FALSE, [channel |-> 0, status |-> 1], <<2>>, "counted")
ConnectionStateRequest == Layout(519, 10, FALSE, ChannelAt(0), <<2>>, "none")
ConnectionStateResponse == Layout(520, 2, FALSE, [channel |-> 0, status |-> 1], <<>>, "none")
DisconnectRequest == Layout(521, 10, FALSE, ChannelAt(0), <<2>>, "none")
DisconnectResponse == Layout(522, 2, FALSE, [channel |-> 0, status |-> 1], <<>>, "none")
TunnelRequest == Numbered(1056, [channel |-> 1, seqno |-> 2], "cemi")
TunnelACK == Numbered(1057, [channel |-> 1, seqno |-> 2, status |-> 3], "none")
ConfigRequest == Numbered(784, [channel |-> 1, seqno |-> 2], "cemi")
ConfigACK == Numbered(785, [channel |-> 1, seqno |-> 2, status |-> 3], "none")
SearchRequest == Layout(513, 8, FALSE, <<>>, <<0>>, "none")
SearchResponse == Layout(514, 8, FALSE, <<>>, <<0>>, "device")
DescriptionRequest == Layout(515, 8, FALSE, <<>>, <<0>>, "none")
DescriptionResponse == Layout(516, 0, FALSE, <<>>, <<>>, "device")

Layouts ==
  [ConnectRequest |-> ConnectRequest, ConnectResponse |-> ConnectResponse,
   ConnectionStateRequest |-> ConnectionStateRequest,
   ConnectionStateResponse |-> ConnectionStateResponse,
   DisconnectRequest |-> DisconnectRequest, DisconnectResponse |-> DisconnectResponse,
   TunnelRequest |-> TunnelRequest, TunnelACK |-> TunnelACK,
   ConfigRequest |-> ConfigRequest, ConfigACK |-> ConfigACK,
   SearchRequest |-> SearchRequest, SearchResponse |-> SearchResponse,
   DescriptionRequest |-> DescriptionRequest, DescriptionResponse |-> DescriptionResponse]

Same(n, v) == [i \in 1 .. n |-> v]
Two(v) == <<v \div 256, v % 256>>

(* What a device says of itself: KNXmedium, devicestatus, individual_addr, *)
(* installid, serial, multicastaddr, MAC and name, then its services.  The *)
(* serial number of a description is written where the MAC comes, and six  *)
(* octets stay as resize left them.                                        *)
Self == [first |-> 2, status |-> 1, address |-> 4353, install |-> 258, serial |-> 7,
           multicast |-> 224, mac |-> 9, name |-> 65, services |-> 2]
DeviceInfo(d, serial) ==
  <<54, 1, d.first, d.status>> \o Two(d.address) \o Two(d.install) \o Same(6, serial)
    \o Same(4, d.multicast) \o Same(6, d.mac) \o Same(29, d.name) \o <<0>>
    \o <<2 * d.services + 2, 2>> \o Same(2 * d.services, 1)
DeviceRead(c) ==
  [first |-> c[3], status |-> c[4], address |-> c[5] * 256 + c[6], install |-> c[7] * 256 + c[8],
   serial |-> c[9], multicast |-> c[15], mac |-> c[19], name |-> c[25],
   services |-> c[55] \div 2 - 1]
DeviceFits(c) ==
  /\ Len(c) >= 56 /\ c[1] = 54 /\ c[2] = 1 /\ c[56] = 2
  /\ c[55] % 2 = 0 /\ c[55] + 54 <= Len(c)

(* IPtoEIBNetIP and EIBnettoIP: behind NAT the sender leaves its address   *)
(* open, and the reader takes the source of the datagram.                  *)
EIBnettoIPAsWritten(c, src) == [ip |-> c[6], port |-> c[8]]
IPtoEIBNetIP(a, nat) == <<8, 1>> \o Same(3, 0) \o <<IF nat THEN 0 ELSE a.ip, 0, IF nat THEN 0 ELSE a.port>>
EIBnettoIP(c, src) ==
  [ip |-> IF c[6] = 0 THEN src.ip ELSE c[6], port |-> IF c[8] = 0 THEN src.port ELSE c[8]]

----------------------------------------------------------------------------
Refused(d) == d.kind = "ConnectResponse" /\ d.numbers["status"] # 0

DataOf(d, junk) ==
  LET l == Layouts[d.kind]
      at(k) == {n \in DOMAIN l.numbers : l.numbers[n] = k}
      in(k) == {i \in DOMAIN l.addrs : l.addrs[i] <= k /\ k < l.addrs[i] + 8}
      octet(k) ==
        IF l.four /\ k = 0 THEN 4
        ELSE IF at(k) # {} THEN d.numbers[CHOOSE n \in at(k) : TRUE]
        ELSE IF in(k) # {}
        THEN LET i == CHOOSE i \in in(k) : TRUE IN
             IPtoEIBNetIP(d.addrs[i], d.nat)[k - l.addrs[i] + 1]
        ELSE 0
      head == [k \in 1 .. l.size |-> octet(k - 1)]
  IN IF Refused(d) THEN SubSeq(head, 1, 2)
     ELSE CASE l.body = "counted" -> head \o <<d.body + 1>> \o Same(d.body, 5)
            [] l.body = "cemi" -> head \o Same(d.body, 5)
            [] l.body = "device" ->
                 head \o DeviceInfo(Self, IF d.kind = "DescriptionResponse" THEN junk ELSE Self.serial)
            [] OTHER -> head

(* EIBNetIPPacket::ToPacket. *)
ToDatagram(d, junk) ==
  LET data == DataOf(d, junk) IN
  <<6, 16>> \o Two(Layouts[d.kind].service) \o Two(Len(data) + 6) \o data

NoDatagram == [kind |-> "none"]
Ignored == [kind |-> "ignored"]

WellFormed(l, c) ==
  /\ CASE l.body = "counted" -> Len(c) >= l.size + 2 /\ Len(c) - l.size = c[l.size + 1]
       [] l.body = "cemi" -> Len(c) >= 6
       [] l.body = "device" -> DeviceFits(SubSeq(c, l.size + 1, Len(c)))
       [] OTHER -> Len(c) = l.size
  /\ l.four => c[1] = 4
  /\ \A i \in DOMAIN l.addrs : c[l.addrs[i] + 1] = 8 /\ c[l.addrs[i] + 2] = 1

(* parseEIBnet_..., for the kind whose service it is; junk is nat before,  *)
(* which the constructor of a SearchResponse leaves as it is.              *)
Parse(t, c, src, junk) ==
  LET l == Layouts[t]
      numbers == [n \in DOMAIN l.numbers |-> c[l.numbers[n] + 1]]
      hpai(i) == SubSeq(c, l.addrs[i] + 1, l.addrs[i] + 8)
  IN IF t = "ConnectResponse" /\ Len(c) >= 2 /\ c[2] # 0
     THEN IF Len(c) = 2 THEN [kind |-> t, numbers |-> numbers, refused |-> TRUE] ELSE NoDatagram
     ELSE IF ~WellFormed(l, c) THEN NoDatagram
     ELSE [kind |-> t, numbers |-> numbers, refused |-> FALSE,
           addrs |-> [i \in DOMAIN l.addrs |-> EIBnettoIP(hpai(i), src)],
           nat |-> (t = "SearchResponse" /\ junk) \/ \E i \in DOMAIN l.addrs : hpai(i)[6] = 0,
           body |-> CASE l.body = "counted" -> Len(c) - l.size - 1
                      [] l.body = "cemi" -> Len(c) - 4
                      [] OTHER -> 0,
           device |-> IF l.body = "device" THEN DeviceRead(SubSeq(c, l.size + 1, Len(c))) ELSE Self]

(* EIBNetIPPacket::fromPacket, of what fits into the buffer of the socket. *)
FromDatagram(datagram, src, junk) ==
  LET c == SubSeq(datagram, 1, IF Len(datagram) < 255 THEN Len(datagram) ELSE 255)
      kinds == {t \in DOMAIN Layouts : Two(Layouts[t].service) = <<c[3], c[4]>>}
  IN IF Len(c) < 6 \/ c[1] # 6 \/ c[2] # 16 \/ c[5] * 256 + c[6] # Len(c) \/ kinds = {} THEN NoDatagram
     ELSE Parse(CHOOSE t \in kinds : TRUE, SubSeq(c, 7, Len(c)), src, junk)

----------------------------------------------------------------------------
(* Source addresses, and which of them Run takes.                          *)
Source == [recvaddr |-> [ip |-> 1, port |-> 11], recvaddr2 |-> [ip |-> 2, port |-> 11],
           localaddr |-> [ip |-> 3, port |-> 11], other |-> [ip |-> 4, port |-> 12]]
Wanted(recvall, from) ==
  \/ recvall = 1 \/ from = "recvaddr"
  \/ recvall = 2 /\ from # "localaddr"
  \/ recvall = 3 /\ from = "recvaddr2"

Contents(t) ==
  LET numbers == [DOMAIN Layouts[t].numbers -> {0, 34}]
      places == DOMAIN Layouts[t].addrs
  IN {[kind |-> t, numbers |-> n, nat |-> nat, body |-> b,
       addrs |-> [i \in places |-> [ip |-> 20 + i, port |-> 30 + i]]] :
        n \in {n \in numbers : \A x \in DOMAIN n : x # "status" => n[x] = 34},
        nat \in IF places = {} THEN {FALSE} ELSE BOOLEAN,
        b \in IF Layouts[t].body \in {"counted", "cemi"} THEN Bodies ELSE {1}}

DatagramsInit ==
  inqueue = <<>> /\ error = 0 /\ flying = <<>> /\ passed = NoDatagram /\ original = NoDatagram

SendDatagram ==
  /\ inqueue = <<>> /\ flying = <<>>
  /\ \E t \in DOMAIN Layouts : \E d \in Contents(t) : inqueue' = Append(inqueue, d)
  /\ passed' = NoDatagram /\ original' = NoDatagram
  /\ UNCHANGED <<error, flying>>

(* Run: what is queued is tried again and again; success starts anew. *)
SendTo ==
  /\ inqueue # <<>> /\ flying = <<>>
  /\ \E junk \in {0, 255}, from \in DOMAIN Source :
       flying' = <<[c |-> ToDatagram(Head(inqueue), junk), from |-> from]>>
  /\ original' = Head(inqueue)
  /\ inqueue' = Tail(inqueue) /\ error' = 0 /\ UNCHANGED passed

SendFails ==
  /\ inqueue # <<>>
  /\ IF error + 1 > MaxErrors
     THEN inqueue' = Tail(inqueue) /\ error' = 0
     ELSE error' = error + 1 /\ UNCHANGED inqueue
  /\ UNCHANGED <<flying, passed, original>>

Receive ==
  /\ flying # <<>>
  /\ \E recvall \in 0 .. 3, junk \in BOOLEAN :
       passed' = IF Wanted(recvall, flying[1].from)
                 THEN FromDatagram(flying[1].c, Source[flying[1].from], junk)
                 ELSE Ignored
  /\ flying' = <<>>
  /\ UNCHANGED <<inqueue, error, original>>

DatagramsNext == SendDatagram \/ SendTo \/ SendFails \/ Receive

----------------------------------------------------------------------------
Fields(d, p) ==
  /\ d.nat => p.nat
  /\ p.nat /\ p.kind # "SearchResponse" => d.nat
  /\ IF d.nat THEN \E s \in DOMAIN Source : \A i \in DOMAIN p.addrs : p.addrs[i] = Source[s]
     ELSE p.addrs = d.addrs
  /\ Layouts[p.kind].body \in {"counted", "cemi"} => p.body = d.body
  /\ [p.device EXCEPT !.serial = Self.serial] = Self
  /\ p.kind = "SearchResponse" => p.device.serial = Self.serial

(* What the daemon writes as a datagram it reads as it was written, with   *)
(* the addresses of the sender or, behind NAT, with where the datagram     *)
(* came from; only what is longer than the buffer of the socket is         *)
(* refused.                                                                *)
DatagramKept ==
  /\ passed \notin {NoDatagram, Ignored} =>
       /\ passed.kind = original.kind /\ passed.numbers = original.numbers
       /\ passed.refused = Refused(original)
       /\ ~passed.refused => Fields(original, passed)
  /\ passed = NoDatagram /\ original # NoDatagram /\ flying = <<>> =>
       original.body + Layouts[original.kind].size + 6 > 250

DatagramsSpec == DatagramsInit /\ [][DatagramsNext]_dgvars
=============================================================================
