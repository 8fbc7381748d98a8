------------------------------- MODULE Daemon -------------------------------
(***************************************************************************)
(* The main program of eibd (eibd.cpp in src/eibd/server): it builds the   *)
(* parts of the daemon one after the other, waits for a signal and takes   *)
(* them down, while programs ask for the group cache                       *)
(* (groupcacheclient.cpp in src/eibd/libserver, the EIB_Cache functions of *)
(* src/eibd/client).  The threads of Pth run only where main gives way:    *)
(* in the wait, and where a destructor waits for another thread.           *)
(***************************************************************************)
EXTENDS Clients, Connectionless, ConfigChannel

CONSTANTS
  CommandLines,   \* a command line is a function from its options to their values
  MaxRequests     \* bound: requests for the cache

ASSUME DaemonAssumption == MaxRequests \in Nat

VARIABLES
  options,     \* the command line
  reached,       \* where main is
  parts,       \* the objects that exist
  pidfile,     \* whose number the file holds
  socketfile,  \* whose socket the path leads to
  output,      \* the file that is written to: the one under the name, or an older one
  filling,     \* the cache is registered at Layer3
  monitors,    \* the clients that have the driver in bus monitor mode
  caller,      \* a client of each server, and what it asks
  requestsMade

dmvars == <<options, reached, parts, pidfile, socketfile, output, filling, monitors, caller, requestsMade>>

Servers == {"inet", "local"}
NoCaller == [at |-> "none"]
Idle == [at |-> "idle"]

----------------------------------------------------------------------------
(* The command line.                                                       *)
(* atoi makes 0 of what is no number, and port 0 is no port.               *)
Listening ==
  {o \in {"listen-tcp", "listen-local", "Server"} \cap DOMAIN options :
     o = "listen-tcp" => options[o] # "no number"}
IsWanted(p) ==
  CASE p = "inet" -> "listen-tcp" \in Listening
    [] p = "local" -> "listen-local" \in Listening
    [] p = "netip" -> "Server" \in Listening
    [] p = "log" -> "daemon" \in DOMAIN options
    [] p = "pidfile" -> "pid-file" \in DOMAIN options
    [] p = "start" -> "GroupCache" \in DOMAIN options
    [] OTHER -> TRUE
Usable == "URL" \in DOMAIN options /\ "more" \notin DOMAIN options /\ Listening # {}
(* A URL is known by the part in front of the colon.                       *)
Known == options["URL"] = "known"

(* The order of building, and of taking down.                              *)
Course ==
  <<"arguments", "log", "pidfile", "backend", "layer3", "inet", "local", "netip",
    "cache", "start", "wait",
    "close_inet", "close_local", "close_netip", "close_cache", "close_layer3", "unlink", "gone">>
After(p) == Course[1 + CHOOSE i \in DOMAIN Course : Course[i] = p]

DaemonInit ==
  /\ options \in CommandLines
  /\ reached = "arguments" /\ parts = {}
  /\ pidfile \in {"none", "other"} /\ socketfile \in {"none", "other"} /\ output = "terminal"
  /\ filling = FALSE /\ monitors = {}
  /\ caller = [s \in Servers |-> NoCaller] /\ requestsMade = 0

----------------------------------------------------------------------------
(* main up to the wait.                                                    *)

(* die: the file goes, whoever wrote it.                                   *)
Die ==
  /\ reached' = "died"
  /\ pidfile' = IF "pid-file" \in DOMAIN options THEN "none" ELSE pidfile
  /\ UNCHANGED <<options, parts, socketfile, output, filling, monitors, caller, requestsMade>>

Makes(p) == parts' = parts \cup ({p} \cap {"backend", "layer3", "inet", "local", "netip", "cache"})

StartUp ==
  /\ reached \in {"arguments", "log", "pidfile", "backend", "layer3", "netip", "cache", "start"}
  /\ ~IsWanted(reached)
       \/ /\ reached = "arguments" => Usable
          /\ reached = "backend" => Known
          /\ reached = "start" => monitors = {}
  /\ reached' = After(reached)
  /\ IF IsWanted(reached) THEN Makes(reached) ELSE UNCHANGED parts
  /\ pidfile' \in IF reached = "pidfile" /\ IsWanted(reached) THEN {"own", pidfile} ELSE {pidfile}
  /\ output' = IF reached = "log" /\ IsWanted(reached) THEN "file" ELSE output
  /\ filling' = (reached = "start" /\ IsWanted(reached))
  /\ UNCHANGED <<options, socketfile, monitors, caller, requestsMade>>

(* A file, an interface or a port that cannot be had.                      *)
Fails ==
  /\ \/ reached = "arguments" /\ ~Usable
     \/ reached \in {"log", "backend", "inet"} /\ IsWanted(reached)
     \/ reached = "start" /\ IsWanted(reached) /\ monitors # {}
     \/ reached = "given_up"
  /\ Die

(* The EIBnet/IP server gives its socket back before main dies.            *)
ServerFails ==
  /\ reached = "netip" /\ IsWanted("netip") /\ reached' = "given_up"
  /\ UNCHANGED <<options, parts, pidfile, socketfile, output, filling, monitors, caller, requestsMade>>

OpenInet ==
  /\ reached = "inet" /\ reached' = After("inet")
  /\ IF IsWanted("inet") THEN Makes("inet") ELSE UNCHANGED parts
  /\ UNCHANGED <<options, pidfile, socketfile, output, filling, monitors, caller, requestsMade>>

(* The path is taken from whoever listens there.                           *)
OpenLocal ==
  /\ reached = "local"
  /\ IF ~IsWanted("local") THEN reached' = After("local") /\ UNCHANGED <<parts, pidfile, socketfile>>
     ELSE \/ reached' = After("local") /\ Makes("local") /\ socketfile' = "own" /\ UNCHANGED pidfile
          \/ /\ reached' = "died" /\ socketfile' \in {socketfile, "none", "own"} /\ UNCHANGED parts
             /\ pidfile' = IF "pid-file" \in DOMAIN options THEN "none" ELSE pidfile
  /\ UNCHANGED <<options, output, filling, monitors, caller, requestsMade>>

----------------------------------------------------------------------------
(* The wait, and the way down.                                             *)
StopSignal ==
  /\ reached = "wait" /\ reached' = After("wait")
  /\ UNCHANGED <<options, parts, pidfile, socketfile, output, filling, monitors, caller, requestsMade>>

(* SIGHUP: the file is opened again under its name, if it can be.          *)
Hangs ==
  /\ reached = "wait" /\ "daemon" \in DOMAIN options /\ output' = "file"
  /\ UNCHANGED <<options, reached, parts, pidfile, socketfile, filling, monitors, caller, requestsMade>>

MoveLog ==
  /\ reached = "wait" /\ output = "file" /\ output' = "old file"
  /\ UNCHANGED <<options, reached, parts, pidfile, socketfile, filling, monitors, caller, requestsMade>>

(* Anywhere else a signal has its default effect.                          *)
Killed ==
  /\ reached \notin {"wait", "gone", "died", "killed"}
  /\ reached' = "killed"
  /\ UNCHANGED <<options, parts, pidfile, socketfile, output, filling, monitors, caller, requestsMade>>

(* A server is gone when its clients are; each part waits for its threads. *)
Closing(p) ==
  CASE p = "close_inet" -> {"inet"} [] p = "close_local" -> {"local"}
    [] p = "close_netip" -> {"netip"} [] p = "close_cache" -> {"cache"}
    [] p = "close_layer3" -> {"layer3", "backend"} [] OTHER -> {}
TakeDown ==
  /\ reached \in {"close_inet", "close_local", "close_netip", "close_cache", "close_layer3", "unlink"}
  /\ \A s \in Servers \cap Closing(reached) : caller[s] = NoCaller
  /\ reached' = After(reached)
  /\ parts' = parts \ Closing(reached)
  /\ filling' = (filling /\ "cache" \in parts')
  /\ pidfile' = IF reached = "unlink" /\ "pid-file" \in DOMAIN options THEN "none" ELSE pidfile
  /\ UNCHANGED <<options, socketfile, output, monitors, caller, requestsMade>>

----------------------------------------------------------------------------
(* Requests for the group cache.                                           *)
High(n) == n \div 256
Low(n) == n % 256
Number16(o, i) == o[i] * 256 + o[i + 1]
CacheMessage(type, octets) == [type |-> type, octets |-> octets]
RejectIt == CacheMessage("EIB_INVALID_REQUEST", <<>>)

Asked == 4369   \* the group address that is asked for
RequestsOf ==
  {CacheMessage(t, <<>>) : t \in {"EIB_CACHE_ENABLE", "EIB_CACHE_DISABLE", "EIB_CACHE_CLEAR"}}
    \cup {CacheMessage(t, o) : t \in {"EIB_CACHE_REMOVE", "EIB_CACHE_READ_NOWAIT", "EIB_CACHE_READ",
                                       "EIB_CACHE_LAST_UPDATES"},
                               o \in {<<17>>, <<17, 17>>, <<17, 17, 1>>, <<17, 17, 1, 0>>}}
LeastOf(type) ==
  CASE type \in {"EIB_CACHE_REMOVE", "EIB_CACHE_READ_NOWAIT"} -> 2
    [] type = "EIB_CACHE_READ" -> 4 [] type = "EIB_CACHE_LAST_UPDATES" -> 3 [] OTHER -> 0

(* What the cache says: an entry, none (from nobody), or that it is off.   *)
SaysOf(r, on) ==
  CASE r.type \in {"EIB_CACHE_READ_NOWAIT", "EIB_CACHE_READ"} ->
         IF on THEN {[src |-> 0, dst |-> Asked, data |-> <<>>],
                     [src |-> 258, dst |-> Asked, data |-> <<0, 129>>]}
         ELSE {[src |-> 0, dst |-> 0, data |-> <<>>]}
    [] r.type = "EIB_CACHE_LAST_UPDATES" ->
         {[end |-> 259, addrs |-> <<>>], [end |-> 513, addrs |-> <<Asked, 258>>]}
    [] OTHER -> {[works |-> r.type # "EIB_CACHE_ENABLE" \/ filling \/ monitors = {}]}

(* GroupCacheRequest.                                                      *)
GroupCacheRequest(r, says) ==
  CASE r.type \in {"EIB_CACHE_READ_NOWAIT", "EIB_CACHE_READ"} ->
         CacheMessage(r.type, <<High(says.src), Low(says.src), High(says.dst), Low(says.dst)>> \o says.data)
    [] r.type = "EIB_CACHE_LAST_UPDATES" ->
         CacheMessage(r.type, <<High(says.end), Low(says.end)>>
                            \o [i \in 1 .. 2 * Len(says.addrs) |->
                                  LET a == says.addrs[(i + 1) \div 2]
                                  IN IF i % 2 = 1 THEN High(a) ELSE Low(a)])
    [] OTHER -> IF says.works THEN CacheMessage(r.type, <<>>) ELSE CacheMessage("EIB_CONNECTION_INUSE", <<>>)

(* The client library reads the answer.                                    *)
ReadSync(r, m) ==
  IF m.type # r.type THEN [error |-> "ECONNRESET"]
  ELSE IF Number16(m.octets, 3) = 0 THEN [error |-> "ENODEV"]
  ELSE IF Len(m.octets) <= 4 THEN [error |-> "ENOENT"]
  ELSE [src |-> Number16(m.octets, 1), data |-> SubSeq(m.octets, 5, Len(m.octets))]
LastUpdatesRead(r, m) ==
  IF m.type # r.type THEN [error |-> "ECONNRESET"]
  ELSE [end |-> Number16(m.octets, 1),
        addrs |-> [i \in 1 .. (Len(m.octets) - 2) \div 2 |-> Number16(m.octets, 1 + 2 * i)]]
EnableRead(r, m) ==
  IF m.type = "EIB_CONNECTION_INUSE" THEN [error |-> "EBUSY"]
  ELSE IF m.type # r.type THEN [error |-> "ECONNRESET"] ELSE [works |-> TRUE]

Serving == reached \in {"wait", "given_up", "close_inet", "close_local"}
Called(s, c, n) ==
  /\ caller' = [caller EXCEPT ![s] = c] /\ requestsMade' = n
  /\ UNCHANGED <<options, reached, parts, pidfile, socketfile, output>>

Arrive(s) ==
  /\ Serving /\ s \in parts /\ caller[s] = NoCaller /\ reached \in {"wait", "given_up"}
  /\ Called(s, Idle, requestsMade) /\ UNCHANGED <<filling, monitors>>

(* No cache yet, or octets are missing: the request is rejected.           *)
RequestCache(s) == \E r \in RequestsOf :
  /\ Serving /\ caller[s] = Idle /\ requestsMade < MaxRequests
  /\ Called(s, IF "cache" \notin parts \/ Len(r.octets) < LeastOf(r.type)
               THEN [at |-> "answered", request |-> r, says |-> [rejected |-> TRUE], answer |-> RejectIt]
               ELSE [at |-> "inside", request |-> r, on |-> filling], requestsMade + 1)
  /\ UNCHANGED <<filling, monitors>>

(* Whether the cache is on is looked at before a read waits.               *)
CacheReturns(s) ==
  /\ Serving /\ caller[s].at = "inside"
  /\ LET r == caller[s].request IN \E says \in SaysOf(r, caller[s].on) :
       /\ Called(s, [at |-> "answered", request |-> r, says |-> says, answer |-> GroupCacheRequest(r, says)],
                 requestsMade)
       /\ filling' = IF r.type = "EIB_CACHE_ENABLE" THEN says.works ELSE filling /\ r.type # "EIB_CACHE_DISABLE"
  /\ UNCHANGED monitors

(* The program reads the answer, or leaves; a client that is stopped ends. *)
Proceed(s) ==
  /\ Serving /\ caller[s].at \in {"answered", "idle"}
  /\ Called(s, IF caller[s] = Idle \/ reached \notin {"wait", "given_up"} THEN NoCaller ELSE Idle, requestsMade)
  /\ monitors' = IF caller'[s] = NoCaller THEN monitors \ {s} ELSE monitors
  /\ UNCHANGED filling

(* A bus monitor needs a Layer3 at which nothing else is registered.       *)
Registered ==
  filling \/ ("netip" \in parts /\ {"Tunnelling", "Routing"} \cap DOMAIN options # {})
Monitor(s) ==
  /\ Serving /\ caller[s] = Idle
  /\ monitors' = IF s \in monitors THEN monitors \ {s} ELSE monitors \cup {s}
  /\ s \in monitors \/ ~Registered
  /\ Called(s, Idle, requestsMade) /\ UNCHANGED filling

DaemonNext ==
  \/ StartUp \/ Fails \/ ServerFails \/ OpenInet \/ OpenLocal
  \/ StopSignal \/ Hangs \/ MoveLog \/ Killed \/ TakeDown
  \/ \E s \in Servers :
       Arrive(s) \/ RequestCache(s) \/ CacheReturns(s) \/ Proceed(s) \/ Monitor(s)

DaemonSpec == DaemonInit /\ [][DaemonNext]_dmvars
----------------------------------------------------------------------------
(* A part exists as long as a thread is in it or another part calls it: a  *)
(* call of the cache finds it there, whatever main takes down meanwhile,   *)
(* and at the regular end nothing is left behind (eibd.cpp:429-444).       *)
PartsOutlast ==
  /\ \A s \in Servers :
       /\ caller[s] # NoCaller => {s, "layer3", "backend"} \subseteq parts
       /\ caller[s].at = "inside" => "cache" \in parts
  /\ "cache" \in parts \/ "netip" \in parts \/ filling => "layer3" \in parts
  /\ "layer3" \in parts => "backend" \in parts
  /\ reached = "gone" => /\ parts = {} /\ ~filling
                       /\ \A s \in Servers : caller[s] = NoCaller
                       /\ pidfile = "own" => "pid-file" \notin DOMAIN options

(* A program learns what the cache said: the entry, that there is none,    *)
(* or that the cache is off; the updates with the position; that it may    *)
(* not be enabled.  Only what was rejected tells nothing                   *)
(* (groupcacheclient.cpp:100-135 against groupcachereadsync.inc:30-37).    *)
CacheUnderstood == \A s \in Servers : caller[s].at = "answered" =>
  LET r == caller[s].request
      says == caller[s].says
      answer == caller[s].answer
  IN IF answer = RejectIt THEN "cache" \notin parts \/ Len(r.octets) < LeastOf(r.type)
     ELSE CASE r.type \in {"EIB_CACHE_READ_NOWAIT", "EIB_CACHE_READ"} ->
                 ReadSync(r, answer) =
                   IF says.dst = 0 THEN [error |-> "ENODEV"]
                   ELSE IF says.data = <<>> THEN [error |-> "ENOENT"]
                   ELSE [src |-> says.src, data |-> says.data]
            [] r.type = "EIB_CACHE_LAST_UPDATES" -> LastUpdatesRead(r, answer) = says
            [] OTHER -> EnableRead(r, answer) = IF says.works THEN says ELSE [error |-> "EBUSY"]

(* A client gets what it is sent, in the order it was sent: answers of the *)
(* daemon, frames for its endpoint, answers on a configuration channel;    *)
(* from parts of the daemon that exist.                                    *)
Ordered == InStep /\ Delivered /\ PartsOutlast /\ AnsweredOnce
=============================================================================
