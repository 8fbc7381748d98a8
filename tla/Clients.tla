------------------------------ MODULE Clients ------------------------------
(***************************************************************************)
(* The clients of eibd (server.cpp, client.cpp, connection.cpp and         *)
(* busmonitor.cpp in src/eibd/libserver).  Each has a thread that serves   *)
(* its requests; an open connection (one of the A_ classes) adds a thread  *)
(* that forwards what comes from the bus.  Both write to the same socket,  *)
(* each message as a head, its length, and a body, and wait only when the  *)
(* socket takes no more: until then no other thread runs (GNU Pth).        *)
(*                                                                         *)
(* A program that uses the client library (src/eibd/client) is modelled    *)
(* with them: it asks one thing at a time, reads when it likes, and may    *)
(* close at any time.                                                      *)
(***************************************************************************)
EXTENDS Integers, Sequences, FiniteSets

CONSTANTS
  Peer,       \* the programs
  Room,       \* pieces of messages a socket holds
  MaxAsks,    \* bound: messages a program sends
  MaxWaiting  \* bound: frames from the bus waiting to be forwarded

(* The answer to a request to open fits a socket that holds nothing else.  *)
ASSUME ClientsAssumption == Room \in Nat /\ Room >= 2 /\ MaxAsks \in Nat

VARIABLES
  server,    \* "up", "ending", "stopping", "ended"
  main,      \* the thread of a client: "off", "read", "do", "write", "join", "end", "gone"
  then,      \* where it goes on after "write" or "join"
  stopped,   \* its stop semaphore
  inp, sock, \* requests and pieces of messages on the way
  kind,      \* the open connection: "none", "apdu", "monitor"
  fwd,       \* its thread: "none", "register", "idle", "write", "refused", "done"
  fstop,     \* the stop semaphore of that thread
  left,      \* pieces of a message a thread has still to write
  waiting,   \* frames waiting to be forwarded
  reg,       \* registered with Layer3
  app, half, \* the program: what it does, and a head whose body it has not read
  sent       \* history: messages sent

daemon == <<main, then, kind, fwd, fstop, left, waiting, reg, stopped>>
program == <<app, half, sent>>
clvars == <<server, daemon, inp, sock, program>>

Request == {"apdu", "monitor", "command"}
Piece == [what : {"answer", "refusal", "data", "reset"}, part : {"head", "body"}]
Message(w) == <<[what |-> w, part |-> "head"], [what |-> w, part |-> "body"]>>

ClientsInit ==
  /\ server = "up"
  /\ main = [p \in Peer |-> "off"] /\ then = [p \in Peer |-> "read"]
  /\ stopped = [p \in Peer |-> FALSE]
  /\ inp = [p \in Peer |-> <<>>] /\ sock = [p \in Peer |-> <<>>]
  /\ kind = [p \in Peer |-> "none"]
  /\ fwd = [p \in Peer |-> "none"] /\ fstop = [p \in Peer |-> FALSE]
  /\ left = [p \in Peer |-> [main |-> <<>>, fwd |-> <<>>]]
  /\ waiting = [p \in Peer |-> 0] /\ reg = {}
  /\ app = [p \in Peer |-> "off"] /\ half = [p \in Peer |-> "none"]
  /\ sent = [p \in Peer |-> 0]

----------------------------------------------------------------------------
WriteHeadFirst(p, t, pieces) ==
  /\ Len(sock[p]) < Room /\ sock' = [sock EXCEPT ![p] = Append(@, Head(pieces))]
  /\ left' = [left EXCEPT ![p][t] = Tail(pieces)]

(* sendmessage: what fits is written at once, the thread waits with the    *)
(* rest.  Nothing is left when all is written, the stop event has occurred *)
(* or the program has closed its end.                                      *)
sendmessage(p, t, pieces) ==
  LET free == Room - Len(sock[p])
      k == IF Len(pieces) <= free THEN Len(pieces) ELSE free
  IN /\ sock' = [sock EXCEPT ![p] = @ \o SubSeq(pieces, 1, k)]
     /\ left' = [left EXCEPT ![p][t] =
          IF app[p] = "closed" THEN <<>> ELSE SubSeq(pieces, k + 1, Len(pieces))]

InterruptedNot(p, t) == t = "main" /\ stopped[p]
Interrupted(p, t) == IF t = "main" THEN stopped[p] ELSE fstop[p]

WriteOn(p, t) ==
  /\ left[p][t] # <<>>
  /\ \/ Len(sock[p]) < Room /\ sendmessage(p, t, left[p][t])
     \/ /\ Interrupted(p, t) \/ app[p] = "closed"
        /\ left' = [left EXCEPT ![p][t] = <<>>] /\ UNCHANGED sock

(* The loop of Run looks at the stop event before it reads again.          *)
Goes(p, s) == main' = [main EXCEPT ![p] = IF s = "read" /\ stopped[p] THEN "end" ELSE s]

(* The thread of the client sends an answer and goes on at s.              *)
Say(p, w, s) ==
  /\ sendmessage(p, "main", Message(w))
  /\ Goes(p, IF left'[p]["main"] = <<>> THEN s ELSE "write")
  /\ then' = [then EXCEPT ![p] = s]

SayOn(p) ==
  /\ main[p] = "write"
  /\ IF left[p]["main"] # <<>>
     THEN WriteOn(p, "main") /\ UNCHANGED main
     ELSE Goes(p, then[p]) /\ UNCHANGED <<left, sock>>
  /\ UNCHANGED <<then, kind, fwd, fstop, waiting, reg, stopped, inp, program, server>>

(* The loop of Run: one request.  Opening a connection to the bus may fail *)
(* (it is registered in the constructor); a busmonitor is registered by    *)
(* its own thread.                                                         *)
Took(p) == inp' = [inp EXCEPT ![p] = Tail(@)]

Opens(p) ==
  /\ Head(inp[p]) = "apdu"
  /\ kind' = [kind EXCEPT ![p] = "apdu"]
  /\ reg' = reg \cup {p}
  /\ fwd' = [fwd EXCEPT ![p] = "idle"] /\ fstop' = [fstop EXCEPT ![p] = FALSE]
  /\ Say(p, "answer", "do")
  /\ UNCHANGED waiting

OpenFails(p) ==
  /\ Head(inp[p]) = "apdu"
  /\ Say(p, "refusal", "read")
  /\ UNCHANGED <<kind, reg, fwd, fstop, waiting>>

OpensMonitor(p) ==
  /\ Head(inp[p]) = "monitor"
  /\ kind' = [kind EXCEPT ![p] = "monitor"]
  /\ fwd' = [fwd EXCEPT ![p] = "register"] /\ fstop' = [fstop EXCEPT ![p] = FALSE]
  /\ main' = [main EXCEPT ![p] = "do"]
  /\ UNCHANGED <<then, reg, sock, left, waiting>>

Answers(p) ==
  /\ Head(inp[p]) \in {"command", "data"} /\ Say(p, "answer", "read")
  /\ UNCHANGED <<kind, reg, fwd, fstop, waiting>>

(* The type is overwritten, or the end of the loop would answer again.     *)
AnswersReset(p) ==
  /\ Head(inp[p]) = "reset"
  /\ Say(p, "reset", "read")
  /\ UNCHANGED <<kind, reg, fwd, fstop, waiting>>

ServeRequest(p) ==
  /\ main[p] = "read" /\ inp[p] # <<>> /\ Head(inp[p]) # "eof"
  /\ Took(p)
  /\ Opens(p) \/ OpenFails(p) \/ OpensMonitor(p) \/ Answers(p) \/ AnswersReset(p)
  /\ UNCHANGED <<stopped, program, server>>

(* readmessage fails when there is nothing to read and the stop event has  *)
(* occurred, or at the end of the stream.  Run ends, and the thread deletes *)
(* its object.                                                             *)
Unread(p) == IF inp[p] = <<>> THEN stopped[p] ELSE Head(inp[p]) = "eof"

EndClient(p) ==
  /\ main[p] = "end" \/ (main[p] = "read" /\ Unread(p))
  /\ main' = [main EXCEPT ![p] = "gone"]
  /\ UNCHANGED <<then, kind, fwd, fstop, left, waiting, reg, stopped, inp, sock, program, server>>

----------------------------------------------------------------------------
(* Do of an open connection: APDUs are passed on; a reset, any other type  *)
(* (A_ classes), the end of the stream or the stop event leave it.         *)
Passes(p) ==
  IF kind[p] = "apdu" THEN Head(inp[p]) = "data" ELSE Head(inp[p]) \notin {"reset", "eof"}

PassOn(p) ==
  /\ main[p] = "do" /\ inp[p] # <<>> /\ Passes(p)
  /\ Took(p)
  /\ UNCHANGED <<daemon, sock, program, server>>

(* The destructor begins with Stop: the semaphore, and the join below.     *)
LeaveDo(p, s) ==
  /\ main' = [main EXCEPT ![p] = "join"]
  /\ then' = [then EXCEPT ![p] = s]
  /\ fstop' = [fstop EXCEPT ![p] = TRUE]
  /\ UNCHANGED <<kind, fwd, left, waiting, reg, stopped, sock, program, server>>

Close(p) ==
  /\ main[p] = "do"
  /\ \/ /\ Unread(p) \/ (kind[p] = "apdu" /\ stopped[p])
        /\ LeaveDo(p, "read") /\ UNCHANGED inp
     \/ /\ inp[p] # <<>> /\ Head(inp[p]) # "eof" /\ ~Passes(p)
        /\ LeaveDo(p, IF Head(inp[p]) = "reset" THEN "reset" ELSE "read")
        /\ Took(p)

(* When the forwarder has ended the destructor deregisters; a reset that   *)
(* closed the connection is answered after that.                           *)
JoinableAtOnce(p) == TRUE
Joinable(p) == fwd[p] \in {"none", "done"}

Join(p) ==
  /\ main[p] = "join" /\ Joinable(p)
  /\ reg' = reg \ {p}
  /\ kind' = [kind EXCEPT ![p] = "none"]
  /\ waiting' = [waiting EXCEPT ![p] = 0]
  /\ IF then[p] = "reset" THEN Say(p, "reset", "read")
     ELSE Goes(p, "read") /\ UNCHANGED <<then, left, sock>>
  /\ UNCHANGED <<fwd, fstop, stopped, inp, program, server>>

----------------------------------------------------------------------------
(* The forwarder.  Registering a busmonitor waits for the driver and knows *)
(* no stop event; a refused one says so and ends.                          *)
Forward(p, w) == sendmessage(p, "fwd", Message(w))
ForwarderUnchanged == UNCHANGED <<main, then, kind, fstop, stopped, inp, program, server>>

RegisterMonitor(p) ==
  /\ fwd[p] = "register"
  /\ \/ reg' = reg \cup {p} /\ Forward(p, "answer") /\ fwd' = [fwd EXCEPT ![p] = "write"]
     \/ /\ UNCHANGED reg /\ Forward(p, "refusal")
        /\ fwd' = [fwd EXCEPT ![p] = IF left'[p]["fwd"] = <<>> THEN "done" ELSE "refused"]
  /\ UNCHANGED waiting /\ ForwarderUnchanged

TakeFrame(p) ==
  /\ fwd[p] = "idle" /\ waiting[p] > 0
  /\ waiting' = [waiting EXCEPT ![p] = @ - 1]
  /\ Forward(p, "data")
  /\ fwd' = [fwd EXCEPT ![p] = "write"]
  /\ UNCHANGED reg /\ ForwarderUnchanged

ForwardOn(p) ==
  /\ fwd[p] \in {"write", "refused"}
  /\ IF left[p]["fwd"] # <<>>
     THEN WriteOn(p, "fwd") /\ UNCHANGED fwd
     ELSE /\ fwd' = [fwd EXCEPT ![p] =
               IF fwd[p] = "write" /\ ~fstop[p] THEN "idle" ELSE "done"]
          /\ UNCHANGED <<left, sock>>
  /\ UNCHANGED <<waiting, reg>> /\ ForwarderUnchanged

(* The stop event, or for a busmonitor a write that failed.                *)
EndForwarder(p) ==
  /\ fwd[p] = "idle"
  /\ fstop[p] \/ (kind[p] = "monitor" /\ app[p] = "closed")
  /\ fwd' = [fwd EXCEPT ![p] = "done"]
  /\ UNCHANGED <<waiting, reg, left, sock>> /\ ForwarderUnchanged

(* Layer3 calls the registered object.                                     *)
BusFrame(p) ==
  /\ p \in reg /\ waiting[p] < MaxWaiting
  /\ waiting' = [waiting EXCEPT ![p] = @ + 1]
  /\ UNCHANGED <<main, then, kind, fwd, fstop, left, reg, stopped, inp, sock, program, server>>

----------------------------------------------------------------------------
(* The server accepts; its destructor stops that thread, then the clients, *)
(* and waits until the last of them has taken itself off the list.         *)
Accept(p) ==
  /\ server \in {"up", "ending"} /\ main[p] = "off" /\ app[p] # "off"
  /\ main' = [main EXCEPT ![p] = "read"]
  /\ UNCHANGED <<then, kind, fwd, fstop, left, waiting, reg, stopped, inp, sock, program, server>>

StopServer ==
  /\ server = "up" /\ server' = "ending"
  /\ UNCHANGED <<daemon, inp, sock, program>>

StopClients ==
  /\ server = "ending" /\ server' = "stopping"
  /\ stopped' = [p \in Peer |-> main[p] \notin {"off", "gone"}]
  /\ UNCHANGED <<main, then, kind, fwd, fstop, left, waiting, reg, inp, sock, program>>

EndServer ==
  /\ server = "stopping" /\ \A p \in Peer : main[p] \in {"off", "gone"}
  /\ server' = "ended"
  /\ UNCHANGED <<daemon, inp, sock, program>>

----------------------------------------------------------------------------
(* The program.  EIBSocketURL connects, EIBOpen... and EIBReset send a     *)
(* request and read the answer, EIBGetAPDU and the like read data.         *)
ConnectDaemon(p) ==
  /\ app[p] = "off" /\ app' = [app EXCEPT ![p] = "pristine"]
  /\ UNCHANGED <<daemon, inp, sock, half, sent, server>>

Sends(p, r, s) ==
  /\ sent[p] < MaxAsks /\ sent' = [sent EXCEPT ![p] = @ + 1]
  /\ inp' = [inp EXCEPT ![p] = Append(@, r)]
  /\ app' = [app EXCEPT ![p] = s]
  /\ UNCHANGED <<daemon, sock, half, server>>

AskDaemon(p) ==
  /\ app[p] = "pristine"
  /\ \E r \in Request : Sends(p, r, IF r = "command" THEN "asking" ELSE "opening")

SendData(p) == app[p] = "open" /\ Sends(p, "data", "open")
Reset(p) == app[p] \in {"open", "refused", "pristine"} /\ Sends(p, "reset", "resetting")
Hangup(p) ==
  /\ app[p] \notin {"off", "closed"}
  /\ inp' = [inp EXCEPT ![p] = Append(@, "eof")]
  /\ app' = [app EXCEPT ![p] = "closed"]
  /\ UNCHANGED <<daemon, sock, half, sent, server>>

(* What a message means to it.  EIBReset reads one message and fails when  *)
(* it is not its answer: data on the way, or a message cut off by the end  *)
(* of its forwarder, leave a stream that can only be closed ("broken").    *)
(* A refused busmonitor needs a reset.                                     *)
Understands(p, w) ==
  CASE app[p] = "opening" /\ w = "answer" -> "open"
    [] app[p] = "opening" /\ w = "refusal" -> IF kind[p] = "monitor" THEN "refused" ELSE "pristine"
    [] app[p] = "asking" /\ w = "answer" -> "pristine"
    [] app[p] = "resetting" /\ w = "reset" -> "pristine"
    [] app[p] = "resetting" /\ w = "data" -> "broken"
    [] app[p] = "open" /\ w = "data" -> "open"
    [] OTHER -> "confused"

ReadPiece(p) ==
  /\ app[p] \notin {"closed", "broken"} /\ sock[p] # <<>>
  /\ LET x == Head(sock[p]) IN
     \/ /\ x.part = "head" /\ half[p] = "none"
        /\ half' = [half EXCEPT ![p] = x.what] /\ UNCHANGED app
     \/ /\ x.part = "body" /\ half[p] = x.what
        /\ half' = [half EXCEPT ![p] = "none"]
        /\ app' = [app EXCEPT ![p] = Understands(p, x.what)]
     \/ /\ IF x.part = "head" THEN half[p] # "none" ELSE half[p] # x.what
        /\ app' = [app EXCEPT ![p] =
             IF x.what = "reset" /\ half[p] = "data" THEN "broken" ELSE "confused"]
        /\ UNCHANGED half
  /\ sock' = [sock EXCEPT ![p] = Tail(@)]
  /\ UNCHANGED <<daemon, inp, sent, server>>

----------------------------------------------------------------------------
MainStep(p) ==
  SayOn(p) \/ ServeRequest(p) \/ EndClient(p) \/ PassOn(p) \/ Close(p) \/ Join(p)
ForwarderStep(p) == RegisterMonitor(p) \/ TakeFrame(p) \/ ForwardOn(p) \/ EndForwarder(p)
ServerStep == StopClients \/ EndServer
ProgramStep(p) == ConnectDaemon(p) \/ AskDaemon(p) \/ SendData(p) \/ Reset(p) \/ Hangup(p) \/ ReadPiece(p)

ClientsNext ==
  \/ \E p \in Peer :
       MainStep(p) \/ ForwarderStep(p) \/ ProgramStep(p) \/ Accept(p) \/ BusFrame(p)
  \/ StopServer \/ ServerStep

----------------------------------------------------------------------------
(* A connection that is registered, or whose forwarder still runs, exists. *)
Exists(p) == kind[p] # "none"
NoDangling == \A p \in Peer : p \in reg \/ fwd[p] \notin {"none", "done"} => Exists(p)

(* The program and the daemon agree where they are: the first message of a *)
(* connection is its answer, data comes only while one is open, messages   *)
(* do not run into each other, and after a reset the stream is silent.     *)
InStep ==
  \A p \in Peer :
    /\ app[p] # "confused"
    /\ app[p] = "pristine" => sock[p] = <<>> /\ p \notin reg

(* The destructor of the server returns whatever the programs do: they may *)
(* not read, and leave half a request or a full socket behind.             *)
ServerEnds == server = "ending" ~> server = "ended"
=============================================================================
