------------------------ MODULE ReliableConnection ------------------------
(***************************************************************************)
(* What a user of T_Connection may rely on, whatever the bus does: in each *)
(* direction the receiver gets, in order and without gaps or repetitions,  *)
(* a prefix of what was submitted; an APDU leaves the sender's queue only  *)
(* when the receiver has it, and the next one is not delivered before.     *)
(* Which prefix that is when the connection ends is left open.             *)
(***************************************************************************)
EXTENDS Naturals, Sequences

CONSTANTS Side,      \* the two ends
          Payload    \* what they exchange

VARIABLES submitted,  \* per side, what its user handed over
          delivered,  \* per side, how much of it the other side's user got
          confirmed   \* per side, how much of it is known to be delivered

rvars == <<submitted, delivered, confirmed>>

RInit ==
  /\ submitted \in [Side -> Seq(Payload)]   \* a peer may have its data ready
  /\ delivered = [s \in Side |-> 0]
  /\ confirmed = [s \in Side |-> 0]

Submit(s) ==
  /\ \E c \in Payload : submitted' = [submitted EXCEPT ![s] = Append(@, c)]
  /\ UNCHANGED <<delivered, confirmed>>

DeliverNext(s) ==
  /\ delivered[s] < Len(submitted[s])
  /\ delivered[s] = confirmed[s]
  /\ delivered' = [delivered EXCEPT ![s] = @ + 1]
  /\ UNCHANGED <<submitted, confirmed>>

Confirm(s) ==
  /\ confirmed[s] < delivered[s]
  /\ confirmed' = [confirmed EXCEPT ![s] = @ + 1]
  /\ UNCHANGED <<submitted, delivered>>

RNext == \E s \in Side : Submit(s) \/ DeliverNext(s) \/ Confirm(s)

RSpec == RInit /\ [][RNext]_rvars
=============================================================================
