------------------------------ MODULE EIBNetIP ------------------------------
(***************************************************************************)
(* What the two ends of a KNXnet/IP tunnel share: the datagrams of         *)
(* src/eibd/libserver/eibnetip.cpp, as records, and their numbers.         *)
(***************************************************************************)
EXTENDS Integers, Sequences

CONSTANT NumMod          \* sequence numbers are modulo 256

ASSUME NumModAssumption == NumMod \in Nat \ {0, 1}

Number == 0 .. NumMod - 1
Succ(n) == (n + 1) % NumMod

(* The contents of a request: a telegram, by its number from 1 on, or the  *)
(* confirmation (cEMI code 0x2E) of one.                                   *)
Confirmation == 0

NoPacket == [t |-> "none"]

ConnectRequest(mon) == [t |-> "connreq", mon |-> mon]
ConnectResponse(ch, status) == [t |-> "connres", ch |-> ch, status |-> status]
ConnectionStateRequest(ch) == [t |-> "statereq", ch |-> ch]
ConnectionStateResponse(ch, status) == [t |-> "stateres", ch |-> ch, status |-> status]
DisconnectRequest(ch) == [t |-> "discreq", ch |-> ch]
DisconnectResponse(ch, status) == [t |-> "discres", ch |-> ch, status |-> status]
TunnelRequest(ch, seq, cemi) == [t |-> "tunreq", ch |-> ch, seq |-> seq, cemi |-> cemi]
TunnelACK(ch, seq, status) == [t |-> "ack", ch |-> ch, seq |-> seq, status |-> status]
=============================================================================
