-------------------------- MODULE TConnectionBus --------------------------
(***************************************************************************)
(* T_Connection talking to a bus device over the EIB.  The bus keeps the   *)
(* order of the frames of one sender, loses them, and repeats a frame      *)
(* whose link layer acknowledgement got lost.  The device (not part of     *)
(* the repository) obeys the rules T_Connection obeys itself; it may       *)
(* answer NACK, and it gives up after the same number of repetitions.      *)
(***************************************************************************)
EXTENDS TConnection

CONSTANTS MaxDup,    \* bound: repeated frames, of both directions together
          Exchanges  \* [user, peer]: what the two ends have to say

ASSUME BusAssumption ==
  /\ \A x \in Exchanges : x.user \in Seq(Apdu) /\ x.peer \in Seq(Apdu)
  /\ MaxDup \in Nat

VARIABLES
  exchange,    \* the one of Exchanges that takes place
  pmode,       \* the device: "closed", "idle", "wait" (for an ACK) or "over"
  psend, precv, preps,
  packed,      \* how many of its APDUs the device knows delivered
  pgot,        \* what the device got
  l2in,        \* frames from the device on their way to Layer3
  dups

pvars   == <<exchange, pmode, psend, precv, preps, packed, pgot>>
busvars == <<vars, pvars, l2in, dups>>

UserData == exchange.user
PeerData == exchange.peer

BusInit ==
  /\ Init
  /\ exchange \in Exchanges
  /\ pmode = "closed" /\ psend = 0 /\ precv = 0 /\ preps = 0
  /\ packed = 0 /\ pgot = <<>>
  /\ l2in = <<>> /\ dups = 0

----------------------------------------------------------------------------
(* The bus. *)

FromBus ==
  /\ l2in # <<>>
  /\ Get_L_Data(Head(l2in))
  /\ l2in' = Tail(l2in)
  /\ UNCHANGED <<pvars, dups>>

(* Lost, or not for a callback: Layer3 has no one to give it to. *)
LoseFromPeer ==
  /\ l2in # <<>>
  /\ l2in' = Tail(l2in)
  /\ UNCHANGED <<vars, pvars, dups>>

LoseToPeer == BusTakes /\ UNCHANGED <<pvars, l2in, dups>>

RepeatToPeer ==
  /\ l3out # <<>> /\ Len(l3out) < MaxOut /\ dups < MaxDup
  /\ l3out' = <<Head(l3out)>> \o l3out
  /\ dups' = dups + 1
  /\ UNCHANGED <<pc, conn, occurred, userq, buf, bufsem, stop, user, registered, hist,
                 pvars, l2in>>

RepeatFromPeer ==
  /\ l2in # <<>> /\ Len(l2in) < MaxOut /\ dups < MaxDup
  /\ l2in' = <<Head(l2in)>> \o l2in
  /\ dups' = dups + 1
  /\ UNCHANGED <<vars, pvars>>

----------------------------------------------------------------------------
(* The device. *)

Reply(f) == Len(l2in) < MaxOut /\ l2in' = Append(l2in, f)

Hangup ==
  /\ Reply([type |-> "DISCONNECT"])
  /\ pmode' = "over"
  /\ UNCHANGED <<psend, precv, preps, packed, pgot>>

PeerOpen == pmode \in {"idle", "wait"}

PeerTake(type) ==
  /\ l3out # <<>>
  /\ Head(l3out).type = type
  /\ BusTakes
  /\ UNCHANGED dups

PeerConnect ==
  /\ PeerTake("CONNECT")
  /\ pmode' = IF pmode = "closed" THEN "idle" ELSE pmode
  /\ UNCHANGED <<psend, precv, preps, packed, pgot, l2in>>

PeerDisconnect ==
  /\ PeerTake("DISCONNECT")
  /\ pmode' = "over"
  /\ UNCHANGED <<psend, precv, preps, packed, pgot, l2in>>

PeerRecv ==
  /\ PeerOpen
  /\ PeerTake("DATA")
  /\ LET f == Head(l3out) IN
     \/ /\ f.serno = precv
        /\ pgot' = Append(pgot, f.apdu)
        /\ precv' = NextNo(precv)
        /\ Reply([type |-> "ACK", serno |-> f.serno])
        /\ UNCHANGED <<pmode, psend, preps, packed>>
     \/ /\ f.serno = precv                      \* no buffer: try again
        /\ Reply([type |-> "NACK", serno |-> f.serno])
        /\ UNCHANGED pvars
     \/ /\ f.serno = PrevNo(precv)
        /\ Reply([type |-> "ACK", serno |-> f.serno])
        /\ UNCHANGED pvars
     \/ f.serno \notin {precv, PrevNo(precv)} /\ Hangup

PeerAck ==
  /\ PeerOpen
  /\ PeerTake("ACK")
  /\ \/ /\ pmode = "wait" /\ Head(l3out).serno = psend
        /\ pmode' = "idle"
        /\ psend' = NextNo(psend)
        /\ packed' = packed + 1
        /\ UNCHANGED <<precv, preps, pgot, l2in>>
     \/ ~(pmode = "wait" /\ Head(l3out).serno = psend) /\ Hangup

PeerTransmit == Reply([type |-> "DATA", serno |-> psend, apdu |-> PeerData[packed + 1]])

PeerSend ==
  /\ pmode = "idle"
  /\ packed < Len(PeerData)
  /\ PeerTransmit
  /\ pmode' = "wait" /\ preps' = 0
  /\ UNCHANGED <<psend, precv, packed, pgot, vars, dups>>

PeerTimeout ==
  /\ pmode = "wait"
  /\ \/ preps < MaxRep /\ PeerTransmit /\ preps' = preps + 1
        /\ UNCHANGED <<pmode, psend, precv, packed, pgot>>
     \/ preps = MaxRep /\ Hangup
  /\ UNCHANGED <<vars, dups>>

Peer ==
  /\ PeerConnect \/ PeerDisconnect \/ PeerRecv \/ PeerAck \/ PeerSend \/ PeerTimeout
  /\ UNCHANGED exchange

----------------------------------------------------------------------------
(* Get is left to TConnection: nothing here depends on when the user reads. *)
BusUser ==
  \/ Delete \/ Joined
  \/ Len(sent) < Len(UserData) /\ Send(UserData[Len(sent) + 1])

Bus == FromBus \/ LoseFromPeer \/ LoseToPeer \/ RepeatToPeer \/ RepeatFromPeer

BusNext ==
  \/ (Run \/ BusUser \/ Expire) /\ UNCHANGED <<pvars, l2in, dups>>
  \/ Bus
  \/ Peer

BusSpec == BusInit /\ [][BusNext]_busvars

(* The thread runs, time passes, and the bus moves frames on or loses them. *)
BusFairSpec ==
  /\ BusSpec
  /\ WF_busvars(Run /\ UNCHANGED <<pvars, l2in, dups>>)
  /\ WF_busvars(Expire /\ UNCHANGED <<pvars, l2in, dups>>)
  /\ WF_busvars(LoseToPeer)
  /\ WF_busvars(LoseFromPeer)

----------------------------------------------------------------------------

IsPrefixOf(s, t) == Len(s) <= Len(t) /\ s = SubSeq(t, 1, Len(s))

(* Retransmissions, repeated frames and late acknowledgements neither lose,    *)
(* repeat nor reorder an APDU, in either direction.                            *)
EndToEnd == IsPrefixOf(pgot, sent) /\ IsPrefixOf(received, PeerData)

(* T_Connection implements the contract: "user" submits through Send, "peer"   *)
(* has PeerData submitted from the start.                                      *)
Contract == INSTANCE ReliableConnection WITH
  Side <- {"user", "peer"},
  Payload <- Apdu,
  submitted <- [s \in {"user", "peer"} |-> IF s = "user" THEN sent ELSE PeerData],
  delivered <- [s \in {"user", "peer"} |-> IF s = "user" THEN Len(pgot) ELSE Len(received)],
  confirmed <- [s \in {"user", "peer"} |-> IF s = "user" THEN acked ELSE packed]

ContractSpec == Contract!RSpec

(* Every APDU handed to Send reaches the device unless the connection ends,    *)
(* and the user learns of that end: Run never sits on an APDU.                 *)
SentOrClosed ==
  \A k \in 1 .. MaxSend : (Len(sent) >= k) ~> (acked >= k \/ pc = "done")
=============================================================================
