------------------------- MODULE GroupCacheUpdates -------------------------
(***************************************************************************)
(* GroupCache::LastUpdates (src/eibd/libserver/groupcache.cpp): clients    *)
(* poll the ring of the most recently updated group addresses.  pos counts *)
(* updates and wraps; the ring holds the last Ring of them; a zero slot    *)
(* has never been written.  The k-th update writes the address k, so that  *)
(* the history of updates is just their number.                            *)
(***************************************************************************)
EXTENDS Integers, Sequences

CONSTANTS
  Ring,      \* slots: 0x100 in the code
  Wrap,      \* values of pos: 2^16 in the code
  Client,
  MaxUpd     \* bound: updates

ASSUME RingAssumption ==
  Ring \in Nat \ {0} /\ Wrap \in Nat /\ Wrap % Ring = 0 /\ Wrap > 2 * Ring

VARIABLES
  pos, updates,
  poll,      \* per client: "idle", "run", "waiting"
  start,     \* per client: the position asked for; the end of the last answer
  expired,
  answer,    \* per client: the addresses of the last answer
  (* history *)
  n,         \* updates so far
  seen       \* per client: how many updates there were at its last answer

polls == <<poll, start, expired, answer, seen>>
upvars == <<pos, updates, polls, n>>

Position == 0 .. Wrap - 1
Mod(x) == x % Wrap      \* & 0xffff

UpdatesInit ==
  /\ pos = 0 /\ updates = [i \in 0 .. Ring - 1 |-> 0]
  /\ poll = [c \in Client |-> "idle"]
  /\ start = [c \in Client |-> 0]
  /\ expired = [c \in Client |-> FALSE]
  /\ answer = [c \in Client |-> <<>>]
  /\ n = 0
  /\ seen = [c \in Client |-> 0]

----------------------------------------------------------------------------
(* Where the search begins: not before the oldest slot still in the ring. *)
ClampNoWrap(s) == IF s < Mod(pos - Ring) \/ s > pos THEN Mod(pos - Ring) ELSE s
Clamp(s) ==
  IF pos < Ring
  THEN IF pos < s /\ s < Mod(pos - Ring) THEN Mod(pos - Ring) ELSE s
  ELSE IF s < Mod(pos - Ring) \/ s > pos THEN Mod(pos - Ring) ELSE s

(* The addresses in the slots from s up to pos that have been written. *)
Collect(s) ==
  LET d == Mod(pos - s)
      slots == [i \in 1 .. d |-> updates[Mod(s + i - 1) % Ring]]
  IN SelectSeq(slots, LAMBDA a : a # 0)

Fetch(s) == Collect(Clamp(s))

(* The same by counting: the last d updates, or as many as the ring holds. *)
LastOf(s) ==
  LET d == Mod(pos - s)
      k == IF d < Ring THEN d ELSE Ring
      m == IF k < n THEN k ELSE n
  IN [i \in 1 .. m |-> n - m + i]

----------------------------------------------------------------------------
NotifyWaiting == poll' = [c \in Client |-> IF poll[c] = "waiting" THEN "run" ELSE poll[c]]

Update ==
  /\ n < MaxUpd
  /\ updates' = [updates EXCEPT ![pos % Ring] = n + 1]
  /\ pos' = Mod(pos + 1)
  /\ n' = n + 1
  /\ NotifyWaiting
  /\ UNCHANGED <<start, expired, answer, seen>>

(* A client asks for what is new since its last answer. *)
Call(c) ==
  /\ poll[c] = "idle"
  /\ poll' = [poll EXCEPT ![c] = "run"]
  /\ expired' = [expired EXCEPT ![c] = FALSE]
  /\ UNCHANGED <<pos, updates, start, answer, n, seen>>

EndPosition == pos

PollGivesUp(c) == expired[c]

(* One turn of the loop.  The code goes on from the clamped and advanced start *)
(* it has computed; with nothing collected that is pos, or start is pos.       *)
Turn(c) ==
  /\ poll[c] = "run"
  /\ LET a == Fetch(start[c]) IN
     \/ /\ a # <<>> \/ PollGivesUp(c)
        /\ answer' = [answer EXCEPT ![c] = a]
        /\ start' = [start EXCEPT ![c] = EndPosition]
        /\ seen' = [seen EXCEPT ![c] = n]
        /\ poll' = [poll EXCEPT ![c] = "idle"]
     \/ /\ a = <<>> /\ ~PollGivesUp(c)
        /\ start' = [start EXCEPT ![c] = EndPosition]
        /\ poll' = [poll EXCEPT ![c] = "waiting"]
        /\ UNCHANGED <<answer, seen>>
  /\ UNCHANGED <<pos, updates, expired, n>>

PollTimesOut(c) ==
  /\ poll[c] = "waiting"
  /\ poll' = [poll EXCEPT ![c] = "run"]
  /\ expired' = [expired EXCEPT ![c] = TRUE]
  /\ UNCHANGED <<pos, updates, start, answer, n, seen>>

UpdatesNext == Update \/ \E c \in Client : Call(c) \/ Turn(c) \/ PollTimesOut(c)

----------------------------------------------------------------------------

(* The comparisons around 0xffff select, for every start a client may send     *)
(* (0, the end of an earlier answer, or one from before a restart of the       *)
(* daemon), exactly the updates since then that the ring still holds.          *)
FetchIsExact == \A s \in Position : Fetch(s) = LastOf(s)

(* A client that is never more than Ring updates behind sees each update once: *)
(* an answer continues where the one before it ended.                          *)
NothingMissed ==
  [][\A c \in Client :
       seen'[c] # seen[c] /\ n - seen[c] <= Ring
         => answer'[c] = [i \in 1 .. n - seen[c] |-> seen[c] + i]]_upvars

(* A waiting client hears of an update: it does not sit out its timeout.       *)
UpdateWakes ==
  \A c \in Client : poll[c] = "waiting" => seen[c] = n \/ n - seen[c] >= Wrap

(* Together: polling is exact, misses nothing and is not late.                 *)
PollsExact == [](FetchIsExact /\ UpdateWakes) /\ NothingMissed
=============================================================================
