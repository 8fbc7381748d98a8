--------------------------- MODULE ConfigChannel ----------------------------
(***************************************************************************)
(* The configuration channel of EIBnetServer (eibnetserver.cpp in          *)
(* src/eibd/libserver): a tool opens it and reads properties of the        *)
(* daemon.  Questions and answers are requests with numbers of their own   *)
(* in each direction, acknowledged and repeated over a network that loses, *)
(* repeats and reorders.  The tool is not part of the repository: it asks  *)
(* one question after the other and gives up when one is not acknowledged. *)
(***************************************************************************)
EXTENDS Integers, Sequences

CONSTANTS
  Questions,      \* contents of requests, sequences of octets
  MaxQuestions,   \* bound: questions of the tool
  Attempts        \* transmissions of an answer: 10

(* No datagram stays under way until its number comes round again: numbers *)
(* are octets, and what is under way here may stay so for ever.            *)
ASSUME ConfigChannelAssumption ==
  MaxQuestions \in Nat /\ MaxQuestions < 256 /\ Attempts \in Nat \ {0}

VARIABLES
  channel,    \* state[i] of the server, or NoChannel
  tool,       \* its numbers, the question that is not acknowledged, what it got
  cables,     \* datagrams under way
  agreed,     \* history: questions acknowledged without an error
  dropped     \* history: the server gave up an answer

ccvars == <<channel, tool, cables, agreed, dropped>>

NoChannel == [type |-> 0, sno |-> 0, rno |-> 0, state |-> 0, out |-> <<>>]
NoQuestion == <<>>
Following(n) == (n + 1) % 256

ToServer(kind, seqno, data) == [to |-> "server", kind |-> kind, seqno |-> seqno, data |-> data]
ToTool(kind, seqno, data) == [to |-> "tool", kind |-> kind, seqno |-> seqno, data |-> data]

ConfigChannelInit ==
  /\ channel = NoChannel
  /\ tool = [sno |-> 0, rno |-> 0, open |-> NoQuestion, asked |-> 0, got |-> <<>>, gone |-> FALSE]
  /\ cables = {} /\ agreed = <<>> /\ dropped = FALSE

----------------------------------------------------------------------------
(* The server.                                                             *)

(* addClient, when the connect request says 0x03.                          *)
OpenChannel ==
  /\ channel = NoChannel /\ ~tool.gone
  /\ channel' = [NoChannel EXCEPT !.type = 2]
  /\ UNCHANGED <<tool, cables, agreed, dropped>>

BitOf(n, k) == (n \div k) % 2
OrOctet(n, low) ==   \* n | low, of an octet and a nibble
  n + (1 - BitOf(n, 1)) * BitOf(low, 1) + (1 - BitOf(n, 2)) * BitOf(low, 2) * 2
    + (1 - BitOf(n, 4)) * BitOf(low, 4) * 4 + (1 - BitOf(n, 8)) * BitOf(low, 8) * 8

(* What the property of an object is: only property 0 of object 0 is known.*)
KnownProperty(q) == q[2] = 0 /\ q[3] = 0 /\ q[4] = 0 /\ q[5] = 0
AnswerTo(q) ==
  IF KnownProperty(q) THEN <<251, 0, 0, 0, 0, (q[6] \div 16) * 16, 0, 0, 0>>
  ELSE <<251, q[2], q[3], q[4], q[5], 0, OrOctet(q[7], q[6] % 16), 0>>

StatusOf(q) ==
  IF channel.type # 2 \/ Len(q) <= 1 THEN 41
  ELSE IF q[1] # 252 \/ Len(q) # 7 THEN 38
  ELSE 0

IsRepeated(p) == channel.rno = Following(p.seqno)
IsNext(p) == channel.rno = p.seqno

(* DEVICE_CONFIGURATION_REQUEST: the acknowledgement goes out at once, the *)
(* answer waits for its turn.                                              *)
Question(p) ==
  /\ p.to = "server" /\ p.kind = "request" /\ channel # NoChannel
  /\ \/ /\ IsRepeated(p) /\ cables' = cables \cup {ToTool("ack", p.seqno, 0)}
        /\ UNCHANGED <<channel, agreed>>
     \/ /\ IsNext(p) /\ ~IsRepeated(p)
        /\ cables' = cables \cup {ToTool("ack", p.seqno, StatusOf(p.data))}
        /\ channel' = [channel EXCEPT !.rno = Following(@),
                         !.out = IF StatusOf(p.data) = 0 THEN Append(@, AnswerTo(p.data)) ELSE @]
        /\ agreed' = IF StatusOf(p.data) = 0 THEN Append(agreed, p.data) ELSE agreed
  /\ UNCHANGED <<tool, dropped>>

(* DEVICE_CONFIGURATION_ACK.                                               *)
Acknowledged(p) ==
  /\ p.to = "server" /\ p.kind = "ack" /\ channel # NoChannel
  /\ channel.sno = p.seqno /\ p.data = 0 /\ channel.state # 0 /\ channel.type = 2
  /\ channel' = [channel EXCEPT !.sno = Following(@), !.state = 0, !.out = Tail(@)]
  /\ UNCHANGED <<tool, cables, agreed, dropped>>

(* The head of the queue is sent when it gets there and every second; it   *)
(* is dropped, without a step of the number, after ten times.              *)
Transmission ==
  /\ channel.out # <<>>
  /\ IF channel.state = Attempts
     THEN /\ channel' = [channel EXCEPT !.out = Tail(@), !.state = 0]
          /\ dropped' = TRUE /\ UNCHANGED cables
     ELSE /\ channel' = [channel EXCEPT !.state = @ + 1]
          /\ cables' = cables \cup {ToTool("request", channel.sno, Head(channel.out))}
          /\ UNCHANGED dropped
  /\ UNCHANGED <<tool, agreed>>

(* 120 s without a word, or a disconnect request.                          *)
CloseChannel ==
  /\ channel # NoChannel /\ channel' = NoChannel /\ tool' = [tool EXCEPT !.gone = TRUE]
  /\ UNCHANGED <<cables, agreed, dropped>>

----------------------------------------------------------------------------
(* The tool, and the network.                                              *)
PutQuestion(q) ==
  /\ channel # NoChannel /\ ~tool.gone /\ tool.open = NoQuestion /\ tool.asked < MaxQuestions
  /\ tool' = [tool EXCEPT !.open = q, !.asked = @ + 1]
  /\ cables' = cables \cup {ToServer("request", tool.sno, q)}
  /\ UNCHANGED <<channel, agreed, dropped>>

PutAgain ==
  /\ tool.open # NoQuestion /\ ~tool.gone
  /\ cables' = cables \cup {ToServer("request", tool.sno, tool.open)}
  /\ UNCHANGED <<channel, tool, agreed, dropped>>

ToolHears(p) ==
  /\ p.to = "tool" /\ ~tool.gone
  /\ CASE p.kind = "ack" ->
            /\ tool.open # NoQuestion /\ p.seqno = tool.sno /\ UNCHANGED cables
            /\ tool' = [tool EXCEPT !.open = NoQuestion, !.sno = Following(@)]
       [] OTHER ->
            /\ p.seqno = tool.rno \/ Following(p.seqno) = tool.rno
            /\ cables' = cables \cup {ToServer("ack", p.seqno, 0)}
            /\ tool' = IF p.seqno = tool.rno
                       THEN [tool EXCEPT !.rno = Following(@), !.got = Append(@, p.data)] ELSE tool
  /\ UNCHANGED <<channel, agreed, dropped>>

(* A datagram under way arrives any number of times, or never.             *)
ConfigChannelNext ==
  \/ OpenChannel \/ Transmission \/ CloseChannel \/ PutAgain
  \/ \E q \in Questions : PutQuestion(q)
  \/ \E p \in cables : Question(p) \/ Acknowledged(p) \/ ToolHears(p)

ConfigChannelSpec == ConfigChannelInit /\ [][ConfigChannelNext]_ccvars
----------------------------------------------------------------------------
(* A question whose acknowledgement says so is answered once, in the order *)
(* of the questions, however often either side repeats: what the tool does *)
(* not have yet is in the queue, of which it may have the head already.    *)
(* Only an answer that was given up is missing (eibnetserver.cpp:620-689,  *)
(* 758-765).                                                               *)
AnswersDue == [i \in DOMAIN agreed |-> AnswerTo(agreed[i])]
AnsweredOnce == ~dropped =>
  /\ Len(tool.got) <= Len(agreed) /\ tool.got = SubSeq(AnswersDue, 1, Len(tool.got))
  /\ channel # NoChannel =>
       \E k \in {0, 1} : AnswersDue = tool.got \o SubSeq(channel.out, 1 + k, Len(channel.out))
=============================================================================
