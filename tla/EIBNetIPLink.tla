---------------------------- MODULE EIBNetIPLink ----------------------------
(***************************************************************************)
(* EIBNetIPTunnel and the channel table of EIBnetServer at the two ends of *)
(* a UDP path that keeps the order of datagrams and may lose them.  One    *)
(* eibd uses another one as its bus interface; both repeat unacknowledged  *)
(* requests, number them, drop what is not acknowledged in time, and       *)
(* reconnect.  The server may be stopped or killed and started again.      *)
(***************************************************************************)
EXTENDS EIBNetIPTunnel, EIBnetServer

CONSTANTS
  MaxTel,        \* bound: telegrams queued at the client, 1 .. MaxTel
  MaxInd,        \* bound: telegrams from the server's bus
  MaxMonitor,    \* bound: changes to bus monitor mode and back
  MaxWork,       \* bound: the three together
  Overlap,       \* the mode may change again while the last change is queued
  MaxFault,      \* bound: lost datagrams, restarts and premature expiries
  MaxNet         \* bound: nothing is repeated while so many are under way

ASSUME LinkAssumption ==
  /\ MaxTel \in Nat /\ MaxInd \in Nat /\ MaxMonitor \in Nat /\ MaxWork \in Nat
  /\ Overlap \in BOOLEAN /\ MaxFault \in Nat /\ MaxNet \in Nat

VARIABLES
  tun, srv,              \* the two records
  toServer, toClient,
  monitoring,            \* the client's Layer3 has it in bus monitor mode
  (* history and bounds *)
  queued, indicated, changes, faults

bounds == <<queued, indicated, changes, faults>>
vars == <<tun, srv, toServer, toClient, monitoring, bounds>>

Telegram == 1 .. MaxTel

Init ==
  /\ tun = TunnelInit /\ srv = ServerInit
  /\ toServer = <<ConnectRequest(FALSE)>> /\ toClient = <<>>
  /\ monitoring = FALSE
  /\ queued = 0 /\ indicated = 0 /\ changes = 0 /\ faults = 0

(* The next datagram of a direction, or none.                              *)
Arriving(net) == {NoPacket} \cup (IF net = <<>> THEN {} ELSE {Head(net)})
Remaining(net, p) == IF p = NoPacket THEN net ELSE Tail(net)

(* The 10 and 30 s of timeout1 and the 120 s of a channel are long against *)
(* the time a datagram is under way.                                       *)
Quiet == toServer = <<>> /\ toClient = <<>>

TunnelTurns(p, to, t1) ==
  LET c == Turn(tun, p, to, t1) IN
  /\ ~tun.failed /\ MayTurn(tun, p, to, t1)
  /\ t1 => Quiet
  /\ to => Len(toServer) < MaxNet
  /\ tun' = [c EXCEPT !.sent = <<>>]
  /\ toServer' = toServer \o c.sent
  /\ toClient' = Remaining(toClient, p)
  /\ UNCHANGED <<srv, monitoring, bounds>>

TunnelStep ==
  \E p \in Arriving(toClient), to, t1 \in BOOLEAN : TunnelTurns(p, to, t1)

ServerStep ==
  \E p \in Arriving(toServer), late \in SUBSET Numbers(srv) :
    LET s == ServerTurn(srv, p, {}, late) IN
    /\ MayServe(srv, p, {}, late)
    /\ late # {} => Len(toClient) < MaxNet
    /\ srv' = [s EXCEPT !.sent = <<>>]
    /\ toClient' = toClient \o s.sent
    /\ toServer' = Remaining(toServer, p)
    /\ UNCHANGED <<tun, monitoring, bounds>>

(* A channel expires that the client has not got, or has (its heartbeats   *)
(* were lost).                                                             *)
ChannelExpires ==
  \E ch \in Numbers(srv) :
    LET s == ServerTurn(srv, NoPacket, {ch}, {}) IN
    /\ Quiet
    /\ IF tun.mod # 0 /\ tun.ch = ch
       THEN faults < MaxFault /\ faults' = faults + 1
       ELSE UNCHANGED faults
    /\ srv' = [s EXCEPT !.sent = <<>>]
    /\ toClient' = toClient \o s.sent
    /\ UNCHANGED <<tun, toServer, monitoring, queued, indicated, changes>>

MoreWork == queued + indicated + changes < MaxWork

(* Layer3 of the client: a telegram, bus monitor mode on, and off again.   *)
Send ==
  /\ queued < MaxTel /\ ~monitoring /\ MoreWork
  /\ queued' = queued + 1
  /\ tun' = SendLData(tun, queued')
  /\ UNCHANGED <<srv, toServer, toClient, monitoring, indicated, changes, faults>>

SwitchMonitor ==
  /\ changes < MaxMonitor /\ MoreWork
  /\ Overlap \/ Marker \notin {tun.q[i] : i \in DOMAIN tun.q}
  /\ changes' = changes + 1
  /\ monitoring' = ~monitoring
  /\ tun' = IF monitoring THEN LeaveBusmonitor(tun) ELSE EnterBusmonitor(tun)
  /\ UNCHANGED <<srv, toServer, toClient, queued, indicated, faults>>

(* A telegram on the server's bus, for tunnels and for monitors.           *)
Indicate ==
  /\ indicated < MaxInd /\ MoreWork
  /\ indicated' = indicated + 1
  /\ srv' = GetLBusmonitor(GetLData(srv, indicated'), indicated')
  /\ UNCHANGED <<tun, toServer, toClient, monitoring, queued, changes, faults>>

LoseToServer ==
  /\ faults < MaxFault /\ toServer # <<>>
  /\ faults' = faults + 1
  /\ toServer' = Tail(toServer)
  /\ UNCHANGED <<tun, srv, toClient, monitoring, queued, indicated, changes>>

LoseToClient ==
  /\ faults < MaxFault /\ toClient # <<>>
  /\ faults' = faults + 1
  /\ toClient' = Tail(toClient)
  /\ UNCHANGED <<tun, srv, toServer, monitoring, queued, indicated, changes>>

(* The server is stopped, and tells its clients, or dies.                  *)
Restart ==
  /\ faults < MaxFault
  /\ faults' = faults + 1
  /\ LET s == StopServer(srv) IN
     /\ srv' = [s EXCEPT !.sent = <<>>]
     /\ \E told \in BOOLEAN : toClient' = IF told THEN toClient \o s.sent ELSE toClient
  /\ toServer' = <<>>
  /\ UNCHANGED <<tun, monitoring, queued, indicated, changes>>

Next ==
  \/ TunnelStep \/ ServerStep \/ ChannelExpires
  \/ Send \/ SwitchMonitor \/ Indicate
  \/ LoseToServer \/ LoseToClient \/ Restart

Spec == Init /\ [][Next]_vars

(* Each thread goes on, datagrams that are not lost arrive, and the timers *)
(* of the tunnel run out, the short one also between two of the long one.  *)
FairSpec ==
  /\ Spec
  /\ WF_vars(TunnelStep) /\ WF_vars(ServerStep)
  /\ SF_vars(\E p \in Arriving(toClient) : p # NoPacket /\ TunnelTurns(p, FALSE, FALSE))
  /\ SF_vars(TunnelTurns(NoPacket, TRUE, FALSE))
  /\ SF_vars(TunnelTurns(NoPacket, FALSE, TRUE))

----------------------------------------------------------------------------
Delivered == {srv.l3[i][2] : i \in DOMAIN srv.l3}

(* Type invariant. *)
TypeOK ==
  /\ tun.mod \in 0 .. 3 /\ tun.ch \in {-1} \cup 1 .. MaxChannel
  /\ tun.sno \in Number /\ tun.rno \in Number
  /\ tun.retry \in 0 .. MaxRetry /\ tun.beat \in 0 .. MaxBeat
  /\ tun.q \in Seq(Telegram \cup {Marker}) /\ tun.up \in Seq((-MaxTel) .. MaxInd)
  /\ \A i \in DOMAIN srv.chans :
       LET k == srv.chans[i] IN
       /\ k.ch \in 1 .. MaxChannel /\ k.type \in {0, 1} /\ k.state \in 0 .. MaxSend
       /\ k.sno \in Number /\ k.rno \in Number
       /\ k.out \in Seq((1 .. MaxInd) \cup {Confirmation})
       /\ k.state # 0 => k.out # <<>>
  /\ tun.acked \subseteq Telegram /\ tun.dropped \subseteq Telegram

(* Two channels never share a number, however they come and go.            *)
NumbersUnique ==
  \A i, j \in DOMAIN srv.chans : srv.chans[i].ch = srv.chans[j].ch => i = j

(* The request waiting for an acknowledgement is the one at the head of the    *)
(* queue, if the mode is not changed twice in a row.                           *)
OutstandingIsHead == tun.mod = 2 => tun.q # <<>> /\ Head(tun.q) # Marker

(* Telegrams reach the server's bus in the order they were queued, and a   *)
(* second time only through another channel, after a reconnection; a       *)
(* telegram leaves the queue only by its own acknowledgement.              *)
UpInOrder ==
  /\ OutstandingIsHead
  /\ \A i, j \in DOMAIN srv.l3 :
       i < j => \/ srv.l3[i][2] < srv.l3[j][2]
                \/ srv.l3[i][2] = srv.l3[j][2] /\ srv.l3[i][1] < srv.l3[j][1]

(* No queue is asked for an element it does not have (queue.h:                 *)
(* "assert (akt != 0)").                                                       *)
NoAssertion == ~tun.failed

(* While the tunnel is used as a tunnel, an acknowledged telegram is on    *)
(* the server's bus, except that the one after a dropped telegram, which   *)
(* has the number of the dropped one, may be taken for its repetition.  (A *)
(* telegram queued before a change to monitor mode may be lost as well:    *)
(* the monitor channel refuses it and acknowledges its repetition.)        *)
LossOnlyAfterDrop ==
  changes = 0 => tun.acked \ Delivered \subseteq {k + 1 : k \in tun.dropped}

(* The indications that the client passes up keep the order of the bus,    *)
(* without repetitions, whatever is lost and repeated on the way.          *)
DownInOrder ==
  \A i, j \in DOMAIN tun.up :
    i < j /\ tun.up[i] > 0 /\ tun.up[j] > 0 => tun.up[i] < tun.up[j]

TelegramsInOrder == UpInOrder /\ DownInOrder

(* With one client, the server is registered as bus monitor only while it  *)
(* has a monitor channel.                                                  *)
NoIdleMonitor == srv.reg => \E i \in DOMAIN srv.chans : srv.chans[i].type = 1

(* The table of channels, under any order of connects, expiries and        *)
(* disconnects: unique numbers, and no registration without its channel.   *)
ChannelsAgree == TypeOK /\ NumbersUnique /\ NoIdleMonitor

(* After any finite number of faults, a restart of the server among them,  *)
(* the tunnel comes to be connected by a channel the server knows.         *)
Recovers == []<>(tun.mod # 0 /\ Has(srv, tun.ch))

(* And no telegram waits for ever.                                         *)
Drains == []<>(tun.q = <<>>)
=============================================================================
