--------------------------- MODULE EIBNetIPTunnel ---------------------------
(***************************************************************************)
(* EIBNetIPTunnel::Run (src/eibd/backend/eibnettunnel.cpp): the layer 2    *)
(* driver that reaches the bus through the tunnel of a KNXnet/IP server.   *)
(* It connects, keeps the connection alive, sends queued telegrams one at  *)
(* a time under an acknowledged sequence number, and connects again when   *)
(* the connection is gone or is to become a bus monitor.                   *)
(*                                                                         *)
(* One turn of the loop is one step: the thread is the only one to touch   *)
(* its variables, and what other threads put into inqueue while it yields  *)
(* goes behind what it looks at.  A turn is a pipeline of the blocks of    *)
(* the loop's body over the record of the loop's variables:                *)
(*   mod       0 not connected, 1 idle, 2 waiting for an acknowledgement,  *)
(*             3 waiting for a confirmation                                *)
(*   ch sno rno retry beat drop    as in the code (beat: heartbeat)        *)
(*   data      sock->recvall = 3: the data endpoint is listened to         *)
(*   support, want   support_busmonitor, connect_busmonitor                *)
(*   monitorReq      creq.CRI[1] = 0x80                                    *)
(*   q         inqueue: telegrams, and Marker for "reconnect"              *)
(*   failed    an assertion of the queue has failed: the program is gone   *)
(*   up        what went to outqueue: indications, and the local copies of *)
(*             sent telegrams, with a minus sign (history)                 *)
(*   acked dropped   telegrams that left inqueue acknowledged, or given up *)
(*   to, t1    timeout and timeout1 have occurred in this turn             *)
(*   sent      datagrams sent in this turn                                 *)
(***************************************************************************)
EXTENDS EIBNetIP

CONSTANTS
  Ahead,         \* a request this far ahead ends the connection: 5
  MaxRetry,      \* repetitions of a request: 3
  MaxDrop,       \* telegrams dropped in a row before disconnecting: 3
  MaxBeat,       \* unanswered heartbeats: 5
  NoQueue        \* option --no-tunnel-client-queuing

ASSUME TunnelAssumption ==
  /\ Ahead \in 2 .. NumMod - 1
  /\ MaxRetry \in Nat /\ MaxDrop \in Nat \ {0} /\ MaxBeat \in Nat /\ NoQueue \in BOOLEAN

Marker == 0
NoMoreMonitors == 35      \* 0x23
NotConnected == 33        \* 0x21

Snd(c, m) == [c EXCEPT !.sent = Append(@, m)]

Closed(c) == [c EXCEPT !.data = FALSE, !.mod = 0]
Disconnect(c) == Closed(Snd(c, DisconnectRequest(c.ch)))

TunnelInit ==
  [mod |-> 0, ch |-> -1, sno |-> 0, rno |-> 0, retry |-> 0, beat |-> 0, drop |-> 0,
   data |-> FALSE, support |-> TRUE, want |-> FALSE, monitorReq |-> FALSE,
   q |-> <<>>, failed |-> FALSE, up |-> <<>>, acked |-> {}, dropped |-> {}, to |-> FALSE, t1 |-> FALSE, sent |-> <<>>]

(* inqueue.get (), which asserts that there is something to get.           *)
Get(c) == IF c.q = <<>> THEN [c EXCEPT !.failed = TRUE] ELSE [c EXCEPT !.q = Tail(@)]
HeadTelegram(c) == IF c.q = <<>> THEN {} ELSE {Head(c.q)} \ {Marker}

----------------------------------------------------------------------------
(* The handlers of the packets.                                            *)

OnConnectResponse(c, p) ==
  IF c.mod # 0 THEN c
  ELSE IF p.status = 0 THEN
    [c EXCEPT !.ch = p.ch, !.mod = 1, !.sno = 0, !.rno = 0, !.data = TRUE,
              !.t1 = FALSE, !.beat = 0]
  ELSE IF p.status = NoMoreMonitors /\ c.support /\ c.want THEN
    Snd([c EXCEPT !.support = FALSE, !.want = FALSE, !.monitorReq = FALSE, !.t1 = FALSE],
        ConnectRequest(FALSE))
  ELSE c

Acknowledge(c, p) == Snd(c, TunnelACK(c.ch, p.seq, 0))

Repeated(c, p) == Succ(p.seq) = c.rno

(* seqno is a uchar: seqno += 0x100 leaves it as it is.                    *)
TooFarAhead(c, p) ==
  (IF p.seq < c.rno THEN (p.seq + NumMod) % NumMod ELSE p.seq) >= c.rno + Ahead

(* A confirmation releases the next request; an indication goes up.        *)
Accept(c, p) ==
  LET d == Acknowledge([c EXCEPT !.rno = Succ(@)], p) IN
  IF p.cemi = Confirmation
  THEN IF c.mod = 3 THEN [d EXCEPT !.mod = 1] ELSE d
  ELSE [d EXCEPT !.up = Append(@, p.cemi)]

OnTunnelRequest(c, p) ==
  IF c.mod = 0 \/ p.ch # c.ch THEN c
  ELSE IF Repeated(c, p) THEN [Acknowledge(c, p) EXCEPT !.data = FALSE]
  ELSE IF p.seq = c.rno THEN Accept(c, p)
  ELSE IF TooFarAhead(c, p) THEN Disconnect(c) ELSE c

AnyAck(c, p) == c.mod = 2 /\ p.status = 0
AckFits(c, p) == c.mod = 2 /\ p.ch = c.ch /\ p.seq = c.sno /\ p.status = 0

OnAck(c, p) ==
  IF AckFits(c, p)
  THEN [Get(c) EXCEPT !.sno = Succ(@), !.retry = 0, !.drop = 0,
                      !.mod = IF NoQueue THEN 3 ELSE 1, !.to = FALSE,
                      !.acked = @ \cup HeadTelegram(c)]
  ELSE c

OnStateResponse(c, p) ==
  IF p.ch # c.ch THEN c
  ELSE IF p.status = 0 THEN [c EXCEPT !.beat = IF @ > 0 THEN @ - 1 ELSE 0]
  ELSE IF p.status = NotConnected THEN Disconnect(c)
  ELSE c

OnDisconnectRequest(c, p) ==
  IF c.mod = 0 \/ p.ch # c.ch THEN c
  ELSE Closed(Snd(c, DisconnectResponse(c.ch, 0)))

(* timeout1 is set to 100 us: the reconnection follows in a later turn.    *)
OnDisconnectResponse(c, p) ==
  IF c.mod = 0 \/ p.ch # c.ch THEN c ELSE [Closed(c) EXCEPT !.t1 = FALSE]

Handle(c, p) ==
  CASE p.t = "none" -> c
    [] p.t = "connres" -> OnConnectResponse(c, p)
    [] p.t = "tunreq" -> OnTunnelRequest(c, p)
    [] p.t = "ack" -> OnAck(c, p)
    [] p.t = "stateres" -> OnStateResponse(c, p)
    [] p.t = "discreq" -> OnDisconnectRequest(c, p)
    [] p.t = "discres" -> OnDisconnectResponse(c, p)

----------------------------------------------------------------------------
(* The blocks after the switch.                                            *)

RetryOrDrop(c) ==
  IF ~(c.mod = 2 /\ c.to) THEN c
  ELSE IF c.retry < MaxRetry THEN [c EXCEPT !.mod = 1, !.retry = @ + 1]
  ELSE LET d == [Get(c) EXCEPT !.mod = 1, !.retry = 0, !.drop = @ + 1,
                               !.dropped = @ \cup HeadTelegram(c)]
       IN IF d.drop >= MaxDrop THEN Disconnect(d) ELSE d

ConfirmForEver(c) == c
ConfirmTimeout(c) == IF c.mod = 3 /\ c.to THEN [c EXCEPT !.mod = 1] ELSE c

BeatUnlimited(c) ==
  IF c.mod = 0 \/ ~c.t1 THEN c
  ELSE Snd([c EXCEPT !.t1 = FALSE], ConnectionStateRequest(c.ch))
Heartbeat(c) ==
  IF c.mod = 0 \/ ~c.t1 THEN c
  ELSE IF c.beat < MaxBeat
  THEN Snd([c EXCEPT !.t1 = FALSE, !.beat = @ + 1], ConnectionStateRequest(c.ch))
  ELSE Disconnect([c EXCEPT !.t1 = FALSE])

Reconnect(c) ==
  IF c.mod # 0 \/ ~c.t1 THEN c
  ELSE LET m == c.want /\ c.support
       IN Snd([c EXCEPT !.t1 = FALSE, !.monitorReq = m], ConnectRequest(m))

ProcessMarker(c) ==
  IF c.q = <<>> \/ Head(c.q) # Marker THEN c
  ELSE LET d == Get(c)
       IN IF c.support THEN Snd(d, DisconnectRequest(c.ch)) ELSE d

SendHead(c) ==
  IF c.q = <<>> \/ c.mod # 1 THEN c
  ELSE Snd([c EXCEPT !.mod = 2],
           TunnelRequest(c.ch, c.sno, Head(c.q)))

(* One turn of the loop on packet p, with the timers that occurred; timeout *)
(* is waited for only in mod 2 and 3.                                       *)
Turn(c, p, to, t1) ==
  LET start == [c EXCEPT !.to = to /\ c.mod \in {2, 3}, !.t1 = t1, !.sent = <<>>]
      end == SendHead(ProcessMarker(Reconnect(Heartbeat(
               ConfirmTimeout(RetryOrDrop(Handle(start, p)))))))
  IN [end EXCEPT !.to = FALSE, !.t1 = FALSE]

(* pth_wait returns for a packet, for a timer, and in mod 1 for inqueue.    *)
MayTurn(c, p, to, t1) ==
  \/ p # NoPacket
  \/ to /\ c.mod \in {2, 3}
  \/ t1
  \/ c.mod = 1 /\ c.q # <<>>

(* The interface for Layer3, in other threads.                              *)
SendLData(c, telegram) ==
  [c EXCEPT !.q = Append(@, telegram), !.up = Append(@, -telegram)]
EnterBusmonitor(c) == [c EXCEPT !.want = (c.support \/ @), !.q = Append(@, Marker)]
LeaveBusmonitor(c) == [c EXCEPT !.want = FALSE, !.q = Append(@, Marker)]
=============================================================================
