-------------------------------- MODULE Apdu --------------------------------
(***************************************************************************)
(* The protocol data units of the application layer and of the transport   *)
(* layer (apdu.cpp and tpdu.cpp in src/eibd/libserver).  An APDU has one of *)
(* 39 classes, each with a ToPacket that writes it as octets, and APDU::      *)
(* fromPacket, which chooses the class by the first two octets and lets    *)
(* its init read the rest.  A class is described by where its fields lie.  *)
(* Numbers wider than an octet are split.  TLC's numbers have 31 bits and  *)
(* a sign: a key is taken without its highest bit, and a serial number as  *)
(* two fields.                                                             *)
(***************************************************************************)
EXTENDS Integers, Sequences, FiniteSetsExt

CONSTANT Values   \* the values a field is tried with, cut to its width

VARIABLES
  tpdu,    \* what is sent: a TPDU
  apdu,    \* and the APDU in it
  wire,    \* their octets, <<>> before
  heard    \* what the other side makes of them

apvars == <<tpdu, apdu, wire, heard>>

----------------------------------------------------------------------------
(* width bits of field f, from bit `from' on, are the bits low .. of octet *)
(* at (counted from 0, as in the code).                                    *)
Bits(f, at, low, width) ==
  {[f |-> f, at |-> at, low |-> low, width |-> width, from |-> 0]}
Byte(f, at) == Bits(f, at, 0, 8)
Word(f, at) == {[f |-> f, at |-> at, low |-> 0, width |-> 8, from |-> 8]} \cup Byte(f, at + 1)
Long(f, at) ==
  {[f |-> f, at |-> at, low |-> 0, width |-> 7, from |-> 24],
   [f |-> f, at |-> at + 1, low |-> 0, width |-> 8, from |-> 16]} \cup Word(f, at + 2)
SerialNumber == Word("serno", 2) \cup Long("serno4", 4)
PropertyValue ==
  Byte("obj", 2) \cup Byte("prop", 3) \cup Bits("count", 4, 4, 4)
    \cup {[f |-> "start", at |-> 4, low |-> 0, width |-> 4, from |-> 8]} \cup Byte("start", 5)
UserMemory == Bits("addr_extension", 2, 4, 4) \cup Bits("count", 2, 0, 4) \cup Word("addr", 3)
Memory == Bits("count", 1, 0, 4) \cup Word("addr", 2)

(* code: the first two octets; whole: the second has no data; len octets,  *)
(* and what follows them: "none", "data", "counted" (count octets),        *)
(* "masks" (twice count), "small" (data, or 6 bits in the second octet).   *)
Pdu(first, second, len, fields, tail) ==
  [code |-> <<first, second>>, whole |-> second >= 192 /\ first >= 2,
   len |-> len, fields |-> fields, tail |-> tail]

A_GroupValue_Read == Pdu(0, 0, 2, {}, "none")
A_GroupValue_Response == Pdu(0, 64, 2, {}, "small")
A_GroupValue_Write == Pdu(0, 128, 2, {}, "small")
A_IndividualAddress_Write == Pdu(0, 192, 4, Word("addr", 2), "none")
A_IndividualAddress_Read == Pdu(1, 0, 2, {}, "none")
A_IndividualAddress_Response == Pdu(1, 64, 2, {}, "none")
A_ADC_Read == Pdu(1, 128, 3, Bits("channel", 1, 0, 6) \cup Byte("count", 2), "none")
A_ADC_Response ==
  Pdu(1, 192, 5, Bits("channel", 1, 0, 6) \cup Byte("count", 2) \cup Word("val", 3), "none")
A_Memory_Read == Pdu(2, 0, 4, Memory, "none")
A_Memory_Response == Pdu(2, 64, 4, Memory, "counted")
A_Memory_Write == Pdu(2, 128, 4, Memory, "counted")
A_UserMemory_Read == Pdu(2, 192, 5, UserMemory, "none")
A_UserMemory_Response == Pdu(2, 193, 5, UserMemory, "counted")
A_UserMemory_Write == Pdu(2, 194, 5, UserMemory, "counted")
A_UserMemoryBit_Write == Pdu(2, 196, 5, Byte("count", 2) \cup Word("addr", 3), "masks")
A_UserManufacturerInfo_Read == Pdu(2, 197, 2, {}, "none")
A_UserManufacturerInfo_Response ==
  Pdu(2, 198, 5, Byte("manufacturerid", 2) \cup Word("data", 3), "none")
A_DeviceDescriptor_Read == Pdu(3, 0, 2, Bits("type", 1, 0, 6), "none")
A_DeviceDescriptor_Response ==
  Pdu(3, 64, 4, Bits("type", 1, 0, 6) \cup Word("descriptor", 2), "none")
A_Restart == Pdu(3, 128, 2, {}, "none")
A_MemoryBit_Write == Pdu(3, 208, 5, Byte("count", 2) \cup Word("addr", 3), "masks")
A_Authorize_Request == Pdu(3, 209, 7, Long("key", 3), "none")
A_Authorize_Response == Pdu(3, 210, 3, Byte("level", 2), "none")
A_Key_Write == Pdu(3, 211, 7, Byte("level", 2) \cup Long("key", 3), "none")
A_Key_Response == Pdu(3, 212, 3, Byte("level", 2), "none")
A_PropertyValue_Read == Pdu(3, 213, 6, PropertyValue, "none")
A_PropertyValue_Response == Pdu(3, 214, 6, PropertyValue, "data")
A_PropertyValue_Write == Pdu(3, 215, 6, PropertyValue, "data")
PropertyDescription == Byte("obj", 2) \cup Byte("prop", 3) \cup Byte("property_index", 4)
A_PropertyDescription_Read == Pdu(3, 216, 5, PropertyDescription, "none")
A_PropertyDescription_Response ==
  Pdu(3, 217, 9, PropertyDescription \cup Byte("type", 5) \cup Word("count", 6)
                   \cup Byte("access", 8), "none")
A_IndividualAddressSerialNumber_Read == Pdu(3, 220, 8, SerialNumber, "none")
A_IndividualAddressSerialNumber_Response ==
  Pdu(3, 221, 12, SerialNumber \cup Word("addr", 8), "none")
A_IndividualAddressSerialNumber_Write ==
  Pdu(3, 222, 14, SerialNumber \cup Word("addr", 8), "none")
A_ServiceInformation_Indication_Write ==
  Pdu(3, 223, 5, Bits("verify_mode", 2, 2, 1) \cup Bits("duplicate_address", 3, 1, 1)
                   \cup Bits("appl_stopped", 2, 0, 1), "none")
A_DomainAddress_Write == Pdu(3, 224, 4, Word("addr", 2), "none")
A_DomainAddress_Read == Pdu(3, 225, 2, {}, "none")
A_DomainAddress_Response == Pdu(3, 226, 4, Word("addr", 2), "none")
A_DomainAddressSelective_Read ==
  Pdu(3, 227, 7, Word("domainaddr", 2) \cup Word("addr", 4) \cup Byte("range", 6), "none")

(* The classes as init reads them. *)
Class ==
  [GroupValue_Read |-> A_GroupValue_Read,
   GroupValue_Response |-> A_GroupValue_Response,
   GroupValue_Write |-> A_GroupValue_Write,
   IndividualAddress_Write |-> A_IndividualAddress_Write,
   IndividualAddress_Read |-> A_IndividualAddress_Read,
   IndividualAddress_Response |-> A_IndividualAddress_Response,
   ADC_Read |-> A_ADC_Read, ADC_Response |-> A_ADC_Response,
   Memory_Read |-> A_Memory_Read, Memory_Response |-> A_Memory_Response,
   Memory_Write |-> A_Memory_Write, MemoryBit_Write |-> A_MemoryBit_Write,
   UserMemory_Read |-> A_UserMemory_Read,
   UserMemory_Response |-> A_UserMemory_Response,
   UserMemory_Write |-> A_UserMemory_Write,
   UserMemoryBit_Write |-> A_UserMemoryBit_Write,
   UserManufacturerInfo_Read |-> A_UserManufacturerInfo_Read,
   UserManufacturerInfo_Response |-> A_UserManufacturerInfo_Response,
   DeviceDescriptor_Read |-> A_DeviceDescriptor_Read,
   DeviceDescriptor_Response |-> A_DeviceDescriptor_Response,
   Restart |-> A_Restart,
   Authorize_Request |-> A_Authorize_Request,
   Authorize_Response |-> A_Authorize_Response,
   Key_Write |-> A_Key_Write, Key_Response |-> A_Key_Response,
   PropertyValue_Read |-> A_PropertyValue_Read,
   PropertyValue_Response |-> A_PropertyValue_Response,
   PropertyValue_Write |-> A_PropertyValue_Write,
   PropertyDescription_Read |-> A_PropertyDescription_Read,
   PropertyDescription_Response |-> A_PropertyDescription_Response,
   IndividualAddressSerialNumber_Read |-> A_IndividualAddressSerialNumber_Read,
   IndividualAddressSerialNumber_Response |-> A_IndividualAddressSerialNumber_Response,
   IndividualAddressSerialNumber_Write |-> A_IndividualAddressSerialNumber_Write,
   ServiceInformation_Indication_Write |-> A_ServiceInformation_Indication_Write,
   DomainAddress_Write |-> A_DomainAddress_Write,
   DomainAddress_Read |-> A_DomainAddress_Read,
   DomainAddress_Response |-> A_DomainAddress_Response,
   DomainAddressSelective_Read |-> A_DomainAddressSelective_Read]

(* Where ToPacket does not write what init reads.  The lowest bit of a     *)
(* descriptor's type is lost in the constant that should be its code.      *)
SerialNumberWritten == [A_IndividualAddressSerialNumber_Write EXCEPT !.code = <<3, 221>>]
DescriptorWritten ==
  [A_DeviceDescriptor_Response EXCEPT !.code = <<3, 1>>,
     !.fields = {[f |-> "type", at |-> 1, low |-> 1, width |-> 5, from |-> 1]}
                  \cup Word("descriptor", 2)]
ServiceInformationWritten ==
  [A_ServiceInformation_Indication_Write EXCEPT
     !.fields = Bits("verify_mode", 2, 2, 1) \cup Bits("duplicate_address", 2, 1, 1)
                  \cup Bits("appl_stopped", 2, 0, 1)]
SelectiveWritten ==
  [A_DomainAddressSelective_Read EXCEPT !.code = <<3, 226>>,
     !.fields = Word("addr", 2) \cup Byte("range", 6)]

Written ==
  [Class EXCEPT !.IndividualAddressSerialNumber_Write = SerialNumberWritten,
                !.DeviceDescriptor_Response = DescriptorWritten,
                !.ServiceInformation_Indication_Write = ServiceInformationWritten,
                !.DomainAddressSelective_Read = SelectiveWritten]

----------------------------------------------------------------------------
(* junk stands for octets the array had before: resize does not clear them, *)
(* and one ToPacket leaves two of them as they are.                        *)
Part(v, p) == (v[p.f] \div 2^p.from) % 2^p.width
IsSmall(a) == a.type \in {"GroupValue_Response", "GroupValue_Write"} /\ a.issmall

ToPacket(a, junk) ==
  LET w == Written[a.type]
      octet(k) ==
        (IF k < 2 THEN w.code[k + 1]
         ELSE IF a.type = "DomainAddressSelective_Read" /\ k \in {4, 5} THEN junk ELSE 0)
        + MapThenSumSet(LAMBDA p : Part(a.v, p) * 2^p.low, {p \in w.fields : p.at = k})
  IN IF IsSmall(a) THEN <<w.code[1], w.code[2] + a.data[1]>>
     ELSE [k \in 1 .. w.len |-> octet(k - 1)] \o a.data

(* The class whose code the two octets have, if there is one. *)
Codes(c) ==
  {t \in DOMAIN Class :
     /\ c[1] % 4 = Class[t].code[1]
     /\ IF Class[t].whole THEN c[2] = Class[t].code[2]
        ELSE (c[2] \div 64) * 64 = Class[t].code[2]}

Field(w, c, f) ==
  MapThenSumSet(LAMBDA p : ((c[p.at + 1] \div 2^p.low) % 2^p.width) * 2^p.from,
                {p \in w.fields : p.f = f})

Names(w) == {p.f : p \in w.fields}

Accepts(w, c) ==
  LET n == Field(w, c, "count") IN
  /\ Len(c) >= w.len
  /\ CASE w.tail = "none" -> Len(c) = w.len
       [] w.tail = "counted" -> Len(c) = w.len + n
       [] w.tail = "masks" -> Len(c) = w.len + 2 * n
       [] OTHER -> TRUE

Unknown(c) == [type |-> "Unknown", v |-> <<>>, issmall |-> FALSE, data |-> c]

FromPacket(c) ==
  IF Len(c) < 2 \/ Codes(c) = {} THEN Unknown(c)
  ELSE LET t == CHOOSE t \in Codes(c) : TRUE
           w == Class[t]
           small == w.tail = "small" /\ Len(c) = 2
       IN IF ~Accepts(w, c) THEN Unknown(c)
          ELSE [type |-> t, v |-> [f \in Names(w) |-> Field(w, c, f)], issmall |-> small,
                data |-> IF small THEN <<c[2] % 64>> ELSE SubSeq(c, w.len + 1, Len(c))]

----------------------------------------------------------------------------
(* The TPDUs: the number of a T_ACK, T_NACK or numbered datum is in bits 2 *)
(* to 5 of the first octet, whose two lowest bits belong to the APDU.      *)
Tpdu(t, n) == [type |-> t, serno |-> n]

TToPacket(t, data) ==
  CASE t.type = "T_DATA_XXX_REQ" -> <<data[1] % 4>> \o Tail(data)
    [] t.type = "T_DATA_CONNECTED_REQ" -> <<64 + 4 * t.serno + (data[1] % 4)>> \o Tail(data)
    [] t.type = "T_CONNECT_REQ" -> <<128>>
    [] t.type = "T_DISCONNECT_REQ" -> <<129>>
    [] t.type = "T_ACK" -> <<194 + 4 * t.serno>>
    [] t.type = "T_NACK" -> <<195 + 4 * t.serno>>

TFromPacket(c) ==
  LET o == c[1]
      n == (o \div 4) % 16
      control == Len(c) = 1
  IN CASE o < 4 -> Tpdu("T_DATA_XXX_REQ", 0)
       [] o = 128 /\ control -> Tpdu("T_CONNECT_REQ", 0)
       [] o = 129 /\ control -> Tpdu("T_DISCONNECT_REQ", 0)
       [] o >= 192 /\ o % 4 = 2 /\ control -> Tpdu("T_ACK", n)
       [] o >= 192 /\ o % 4 = 3 /\ control -> Tpdu("T_NACK", n)
       [] o \in 64 .. 127 -> Tpdu("T_DATA_CONNECTED_REQ", n)
       [] OTHER -> Tpdu("T_UNKNOWN", 0)

HasApdu(t) == t.type \in {"T_DATA_XXX_REQ", "T_DATA_CONNECTED_REQ"}

----------------------------------------------------------------------------
(* What a program may ask for.  The number of octets is given by count     *)
(* where there is one (assertions in ToPacket).                            *)
Width(w, f) == MapThenSumSet(LAMBDA p : p.width, {p \in w.fields : p.f = f})
Assigned(w) ==
  {v \in [Names(w) -> Values] :
     /\ \A f \in Names(w) : Width(w, f) > 30 \/ v[f] < 2^Width(w, f)
     /\ w.tail \in {"counted", "masks"} => v["count"] <= 2}

Data(w, v) ==
  CASE w.tail = "none" -> {<<>>}
    [] w.tail = "small" -> {<<x>> : x \in {0, 64, 255}} \cup {<<1, 255>>}
    [] w.tail = "data" -> {<<>>, <<0, 255>>}
    [] w.tail = "counted" -> [1 .. v["count"] -> {7, 255}]
    [] w.tail = "masks" -> [1 .. 2 * v["count"] -> {7, 255}]

Apdus(t) ==
  UNION {{[type |-> t, v |-> v, issmall |-> FALSE, data |-> d] : d \in Data(Class[t], v)} :
           v \in Assigned(Class[t])}
    \cup IF Class[t].tail = "small"
         THEN {[type |-> t, v |-> <<>>, issmall |-> TRUE, data |-> <<x>>] : x \in {0, 1, 63}}
         ELSE {}

Nothing == [type |-> "none", v |-> <<>>, issmall |-> FALSE, data |-> <<>>]
Silence == [tpdu |-> Tpdu("none", 0), apdu |-> Nothing]

ApduInit == tpdu = Tpdu("none", 0) /\ apdu = Nothing /\ wire = <<>> /\ heard = Silence

Transmit(t) ==
  /\ wire = <<>>
  /\ \E a \in Apdus(t), junk \in {0, 255},
       u \in {Tpdu("T_DATA_XXX_REQ", 0), Tpdu("T_DATA_CONNECTED_REQ", 9)} :
       tpdu' = u /\ apdu' = a /\ wire' = TToPacket(u, ToPacket(a, junk))
  /\ UNCHANGED heard

TransmitControl ==
  /\ wire = <<>>
  /\ \E u \in {Tpdu("T_CONNECT_REQ", 0), Tpdu("T_DISCONNECT_REQ", 0)}
            \cup {Tpdu(k, n) : k \in {"T_ACK", "T_NACK"}, n \in 0 .. 15} :
       tpdu' = u /\ wire' = TToPacket(u, <<>>)
  /\ UNCHANGED <<apdu, heard>>

(* The four classes whose ToPacket and init do not agree. *)
Misspelt(a) ==
  \/ a.type \in {"IndividualAddressSerialNumber_Write", "DeviceDescriptor_Response",
                 "DomainAddressSelective_Read"}
  \/ a.type = "ServiceInformation_Indication_Write" /\ a.v["duplicate_address"] = 1

(* What arrives may be cut short or have an octet too many. *)
Garble ==
  /\ apdu # Nothing /\ ~Misspelt(apdu) /\ heard = Silence
  /\ tpdu' = Tpdu("none", 0) /\ apdu' = Nothing
  /\ wire' \in {SubSeq(wire, 1, Len(wire) - 1), Append(wire, 9)}
  /\ UNCHANGED heard

Hear ==
  /\ wire # <<>> /\ heard = Silence
  /\ LET t == TFromPacket(wire) IN
     heard' = [tpdu |-> t, apdu |-> IF HasApdu(t) THEN FromPacket(wire) ELSE Nothing]
  /\ UNCHANGED <<tpdu, apdu, wire>>

ApduNext == Hear \/ Garble \/ TransmitControl \/ \E t \in DOMAIN Class : Transmit(t)

----------------------------------------------------------------------------
(* The other side hears what was said: the TPDU and its number, the class  *)
(* of the APDU, fields and data; and what it takes for an APDU after a     *)
(* fault on the way is that, behind the code, to the last octet.  The      *)
(* daemon itself sends none of the misspelt classes.                       *)
Garbled == wire # <<>> /\ tpdu.type = "none"

RoundTrip ==
  heard # Silence =>
    IF ~Garbled THEN heard.tpdu = tpdu /\ (Misspelt(apdu) \/ heard.apdu = apdu)
    ELSE \/ heard.apdu.type \in {"Unknown", "none"}
         \/ Tail(Tail(ToPacket(heard.apdu, 0))) = Tail(Tail(wire))
=============================================================================
