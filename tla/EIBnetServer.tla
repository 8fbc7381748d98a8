---------------------------- MODULE EIBnetServer ----------------------------
(***************************************************************************)
(* The tunnelling part of EIBnetServer (src/eibd/libserver/                *)
(* eibnetserver.cpp): the table of channels that clients open, the         *)
(* acknowledged sequence numbers of each of them in both directions, and   *)
(* the registration as bus monitor.  One turn of EIBnetServer::Run is a    *)
(* pipeline over the record                                                *)
(*   chans   state: per channel its number ch, its type (0 telegrams, 1    *)
(*           bus monitor, 2 configuration), state (transmissions of the    *)
(*           head of out), sno, rno, out                                   *)
(*   count, reg   busmoncount; registered as bus monitor at Layer3         *)
(*   l3      telegrams handed to Layer3: <<birth of the channel, telegram>>*)
(*           (history); births counts the channels opened                  *)
(*   sent    datagrams sent in this turn                                   *)
(***************************************************************************)
EXTENDS EIBNetIP, SequencesExt

CONSTANTS
  MaxChannel,    \* channel numbers: 255
  MaxSend        \* transmissions of a request to a client: 10

ASSUME ServerAssumption ==
  MaxChannel \in Nat \ {0} /\ MaxSend \in Nat \ {0}

UnknownChannel == 21      \* decimal in the code, unlike the 0x21 of DISCONNECT
NotConnectedRes == 33     \* 0x21
ConnectError == 34        \* 0x22
WrongType == 41           \* 0x29

Out(s, m) == [s EXCEPT !.sent = Append(@, m)]

ServerInit == [chans |-> <<>>, count |-> 0, reg |-> FALSE, l3 |-> <<>>, births |-> 0,
               sent |-> <<>>]

Numbers(s) == {s.chans[i].ch : i \in DOMAIN s.chans}
Empty == 0                \* a request without contents is not parsed
Has(s, ch) == ch \in Numbers(s)
At(s, ch) == CHOOSE i \in DOMAIN s.chans : s.chans[i].ch = ch

----------------------------------------------------------------------------
(* addBusmonitor, delBusmonitor.  Only the first monitor is counted.       *)
AddBusmonitor(s) == IF s.count = 0 THEN [s EXCEPT !.reg = TRUE, !.count = 1] ELSE s

DelBusmonitor(s) ==
  [s EXCEPT !.count = @ - 1, !.reg = IF s.count = 1 THEN FALSE ELSE @]

(* addClient: the lowest number that is free, or 0 when none is.           *)
FreeSkippingFirst(s) ==
  LET free == (1 .. MaxChannel) \ {s.chans[i].ch : i \in DOMAIN s.chans \ {1}}
  IN IF free = {} THEN 0 ELSE CHOOSE n \in free : \A m \in free : n <= m
FreeNumber(s) ==
  LET free == (1 .. MaxChannel) \ Numbers(s)
  IN IF free = {} THEN 0 ELSE CHOOSE n \in free : \A m \in free : n <= m

OnConnectRequest(s, p) ==
  LET id == FreeNumber(s)
      type == IF p.mon THEN 1 ELSE 0
      added == [s EXCEPT !.births = @ + 1,
                 !.chans = Append(@, [ch |-> id, type |-> type, state |-> 0, sno |-> 0,
                                      rno |-> 0, out |-> <<>>, birth |-> s.births + 1])]
  IN IF id = 0 THEN Out(s, ConnectResponse(0, ConnectError))
     ELSE Out(IF p.mon THEN AddBusmonitor(added) ELSE added,
              ConnectResponse(id, 0))

RemoveChannel(s, ch) ==
  LET k == At(s, ch)
      d == IF s.chans[k].type = 1 THEN DelBusmonitor(s) ELSE s
  IN [d EXCEPT !.chans = RemoveAt(@, k)]

OnClientDisconnect(s, p) ==
  IF Has(s, p.ch)
  THEN Out(RemoveChannel(s, p.ch), DisconnectResponse(p.ch, 0))
  ELSE Out(s, DisconnectResponse(p.ch, NotConnectedRes))

OnStateRequest(s, p) ==
  Out(s, ConnectionStateResponse(p.ch, IF Has(s, p.ch) THEN 0 ELSE UnknownChannel))

AcceptAnew(s, i, p) ==
  Out([s EXCEPT !.chans[i].out = Append(@, Confirmation),
                !.l3 = Append(@, <<s.chans[i].birth, p.cemi>>)],
      TunnelACK(p.ch, p.seq, 0))

(* A new request is acknowledged whatever its channel's type; a telegram   *)
(* goes to Layer3 and its confirmation back to the client.                 *)
AcceptRequest(s, i, p) ==
  LET k == s.chans[i]
      next == Succ(k.rno)
  IN IF k.type = 0
     THEN Out([s EXCEPT !.chans[i].rno = next,
                        !.chans[i].out = Append(@, Confirmation),
                        !.l3 = Append(@, <<k.birth, p.cemi>>)],
              TunnelACK(p.ch, p.seq, 0))
     ELSE Out([s EXCEPT !.chans[i].rno = next],
              TunnelACK(p.ch, p.seq, WrongType))

SeenBefore(k, p) == k.rno = Succ(p.seq)

OnClientRequest(s, p) ==
  IF ~Has(s, p.ch) \/ p.cemi = Empty THEN s
  ELSE LET i == At(s, p.ch) IN
       IF SeenBefore(s.chans[i], p)
       THEN Out(s, TunnelACK(p.ch, p.seq, 0))
       ELSE IF s.chans[i].rno = p.seq THEN AcceptRequest(s, i, p) ELSE s

AckAccepted(k, p) == k.sno = p.seq /\ p.status = 0 /\ k.state # 0 /\ k.type \in {0, 1}

OnClientAck(s, p) ==
  IF ~Has(s, p.ch) THEN s
  ELSE LET i == At(s, p.ch) IN
       IF AckAccepted(s.chans[i], p)
       THEN [s EXCEPT !.chans[i].sno = Succ(@),
                      !.chans[i].state = 0, !.chans[i].out = Tail(@)]
       ELSE s

HandlePacket(s, p) ==
  CASE p.t = "none" -> s
    [] p.t = "connreq" -> OnConnectRequest(s, p)
    [] p.t = "discreq" -> OnClientDisconnect(s, p)
    [] p.t = "statereq" -> OnStateRequest(s, p)
    [] p.t = "tunreq" -> OnClientRequest(s, p)
    [] p.t = "ack" -> OnClientAck(s, p)
    [] p.t = "discres" -> s

(* A channel not heard of for 120 s goes, one in a turn; a state request   *)
(* starts the time anew.                                                   *)
ExpireChannel(s, expired, p) ==
  LET old == {i \in DOMAIN s.chans : s.chans[i].ch \in expired}
               \ (IF p.t = "statereq" /\ Has(s, p.ch) THEN {At(s, p.ch)} ELSE {})
  IN IF old = {} THEN s
     ELSE RemoveChannel(s, s.chans[CHOOSE i \in old : \A j \in old : i <= j].ch)

(* The head of out is sent when nothing is outstanding and again each time *)
(* its second has passed, MaxSend times in all; then it is dropped and     *)
(* sno stays: the next request has the number of the dropped one.          *)
Due(k, late) == (k.state # 0 /\ k.ch \in late) \/ (k.state = 0 /\ k.out # <<>>)

GiveUp(k) == k.state >= MaxSend

AfterSend(k, late) ==
  IF ~Due(k, late) THEN k
  ELSE IF GiveUp(k) THEN [k EXCEPT !.state = 0, !.out = Tail(@)]
  ELSE [k EXCEPT !.state = @ + 1]

Requests(k, late) ==
  IF Due(k, late) /\ ~GiveUp(k)
  THEN <<TunnelRequest(k.ch, k.sno, Head(k.out))>>
  ELSE <<>>

SendAll(s, late) ==
  [s EXCEPT !.chans = [i \in DOMAIN @ |-> AfterSend(@[i], late)],
            !.sent = @ \o FlattenSeq([i \in DOMAIN s.chans |-> Requests(s.chans[i], late)])]

(* One turn of the loop on packet p: the channels whose time is up, those  *)
(* whose request is due again.                                             *)
ServerTurn(s, p, expired, late) ==
  SendAll(ExpireChannel(HandlePacket([s EXCEPT !.sent = <<>>], p), expired, p), late)

MayServe(s, p, expired, late) ==
  \/ p.t # "none"
  \/ \E i \in DOMAIN s.chans :
       \/ s.chans[i].ch \in expired
       \/ Due(s.chans[i], late)

(* Get_L_Data and Get_L_Busmonitor, in the thread of Layer3.               *)
Queued(s, type, item) ==
  LET enqueued(k) == IF k.type = type THEN [k EXCEPT !.out = Append(@, item)] ELSE k
  IN [s EXCEPT !.chans = [i \in DOMAIN s.chans |-> enqueued(s.chans[i])]]
GetLData(s, item) == Queued(s, 0, item)
GetLBusmonitor(s, item) == IF s.reg THEN Queued(s, 1, item) ELSE s

(* The loop's end when the server is stopped: every client is told.        *)
StopServer(s) ==
  [ServerInit EXCEPT !.births = s.births, !.l3 = s.l3,
     !.sent = [i \in DOMAIN s.chans |-> DisconnectRequest(s.chans[i].ch)]]
=============================================================================
