------------------------------- MODULE Codec --------------------------------
(***************************************************************************)
(* The byte codecs of src/ipmi_utils.c (little-endian 16- and 32-bit get  *)
(* and set) and ipmb_checksum of src/lanserv/serv.c, as operators on      *)
(* sequences of bytes (0..255), with the C arithmetic they use:           *)
(*   - a shift of an int to the right is arithmetic (floor division);     *)
(*   - & 0xff keeps the low byte (mod 256);                               *)
(*   - uint8_t addition wraps mod 256;                                    *)
(*   - a 32-bit unsigned int is represented by its bit pattern read as a  *)
(*     32-bit two's-complement int (TLC's integers are 32-bit).           *)
(* data[3] << 24 overflows int for data[3] >= 0x80, which is undefined;   *)
(* the builds this code is compiled with produce the two's-complement bit *)
(* pattern, which the return keeps as the unsigned value.                 *)
(***************************************************************************)
EXTENDS Integers, Sequences, SequencesExt

\* Mutant: the high byte shifted by 16 instead of 8.
GetUint16WrongShift(d) == d[1] + d[2] * 2^16

\* ipmi_get_uint16: data[0] | (data[1] << 8).
GetUint16(d) == d[1] + d[2] * 2^8

\* ipmi_get_uint32: data[0] | data[1] << 8 | data[2] << 16 | data[3] << 24.
\* The top byte carries the sign bit of the int the expression yields.
Signed8(b) == IF b >= 128 THEN b - 256 ELSE b
GetUint32(d) == d[1] + d[2] * 2^8 + d[3] * 2^16 + Signed8(d[4]) * 2^24

\* ipmi_set_uint16 and ipmi_set_uint32: byte k is (val >> 8k) & 0xff.
SetUint16(val) == [k \in 1..2 |-> (val \div 2^(8 * (k - 1))) % 256]
SetUint32(val) == [k \in 1..4 |-> (val \div 2^(8 * (k - 1))) % 256]

\* Mutant: the negated sum returned as an int, without the uint8_t wrap.
IpmbChecksumNoWrap(data, start) ==
  LET sum == FoldLeft(LAMBDA c, b : (c + b) % 256, start, data)
  IN 256 - sum

\* ipmb_checksum(data, size, start): add the bytes into a uint8_t starting
\* at start, return its negation as a uint8_t.
IpmbChecksum(data, start) ==
  LET sum == FoldLeft(LAMBDA c, b : (c + b) % 256, start, data)
  IN (256 - sum) % 256

-----------------------------------------------------------------------------
(* The ipmi_addr_t helpers of src/ipmi_utils.c.  An address is a record of *)
(* the fields the structs of its type have (ipmi_ipmb_addr_t: channel,     *)
(* slave_addr, lun; ipmi_system_interface_addr_t: channel, lun); the      *)
(* slave field of a system interface address is bytes that struct does   *)
(* not have.  The type codes are those of OpenIPMI's ipmi_addr.h.         *)

IPMB_ADDR_TYPE             == 1      \* IPMI_IPMB_ADDR_TYPE
SYSTEM_INTERFACE_ADDR_TYPE == 12     \* IPMI_SYSTEM_INTERFACE_ADDR_TYPE
LAN_ADDR_TYPE              == 4      \* IPMI_LAN_ADDR_TYPE, not handled
EINVAL                     == 22

\* Mutant: the IPMB case compares the slave address only.
IpmiAddrEqualNoLun(a1, len1, a2, len2) ==
  /\ len1 = len2 /\ a1.type = a2.type /\ a1.channel = a2.channel
  /\ CASE a1.type = IPMB_ADDR_TYPE -> a1.slave = a2.slave
       [] a1.type = SYSTEM_INTERFACE_ADDR_TYPE -> a1.lun = a2.lun
       [] OTHER -> FALSE

\* ipmi_addr_equal: lengths, types and channels first, then the fields of
\* the type; any other type compares unequal, even to itself.
IpmiAddrEqual(a1, len1, a2, len2) ==
  /\ len1 = len2 /\ a1.type = a2.type /\ a1.channel = a2.channel
  /\ CASE a1.type = IPMB_ADDR_TYPE -> a1.slave = a2.slave /\ a1.lun = a2.lun
       [] a1.type = SYSTEM_INTERFACE_ADDR_TYPE -> a1.lun = a2.lun
       [] OTHER -> FALSE

LunTypes == {IPMB_ADDR_TYPE, SYSTEM_INTERFACE_ADDR_TYPE}

\* ipmi_addr_get_lun: 0 for a type without a LUN.
IpmiAddrGetLun(a) == IF a.type \in LunTypes THEN a.lun ELSE 0

\* ipmi_addr_set_lun: EINVAL for a LUN of 4 or more or a type without one,
\* the address then unchanged.
IpmiAddrSetLun(a, lun) ==
  IF lun >= 4 \/ a.type \notin LunTypes
  THEN [rc |-> EINVAL, addr |-> a]
  ELSE [rc |-> 0, addr |-> [a EXCEPT !.lun = lun]]

\* ipmi_addr_get_slave_addr: 0 for anything but an IPMB address.
IpmiAddrGetSlaveAddr(a) == IF a.type = IPMB_ADDR_TYPE THEN a.slave ELSE 0

-----------------------------------------------------------------------------
(* Reference definitions, from the IPMI encoding rather than the code.    *)

\* The fields an address of a type that has a LUN is made of.
AddrFields(a) ==
  IF a.type = IPMB_ADDR_TYPE
  THEN <<a.type, a.channel, a.slave, a.lun>>
  ELSE <<a.type, a.channel, a.lun>>

\* Sample addresses: the two types with a LUN and one without, two
\* channels, two slave addresses and LUNs 0 and 3.
AddrSamples ==
  [type : {IPMB_ADDR_TYPE, SYSTEM_INTERFACE_ADDR_TYPE, LAN_ADDR_TYPE},
   channel : {0, 1}, slave : {32, 130}, lun : {0, 3}]

\* Two addresses of the same length and of a type with a LUN are equal
\* exactly when their fields are; setting a LUN below 4 on such an address
\* changes that LUN only and reads back; anything else is EINVAL and
\* changes nothing; only an IPMB address has a slave address.
AddrHelpersAgree ==
  /\ \A a1, a2 \in AddrSamples, len1, len2 \in {8, 12} :
       a1.type \in LunTypes =>
         (IpmiAddrEqual(a1, len1, a2, len2)
            <=> len1 = len2 /\ AddrFields(a1) = AddrFields(a2))
  /\ \A a \in AddrSamples, lun \in 0..4 :
       LET r == IpmiAddrSetLun(a, lun) IN
       IF lun < 4 /\ a.type \in LunTypes
       THEN /\ r.rc = 0 /\ IpmiAddrGetLun(r.addr) = lun
            /\ IpmiAddrGetSlaveAddr(r.addr) = IpmiAddrGetSlaveAddr(a)
            /\ IpmiAddrEqual(r.addr, 8, a, 8) = (a.lun = lun)
       ELSE r = [rc |-> EINVAL, addr |-> a]
  /\ \A a \in AddrSamples :
       (IpmiAddrGetSlaveAddr(a) # 0) <=> (a.type = IPMB_ADDR_TYPE)

\* The base-256 digits of v mod 2^16, least significant first.
LittleEndian16(v) == <<(v % 2^16) % 256, (v % 2^16) \div 256>>

\* An IPMB checksum makes the covered bytes sum to 0 mod 256.
SumsToZero(bytes) == FoldLeft(LAMBDA a, b : a + b, 0, bytes) % 256 = 0

\* For every sample int (negative ones included, which the setters take
\* as int): the 16-bit setter writes the little-endian digits of v mod
\* 2^16 and its getter reads v mod 2^16 back; the 32-bit setter writes
\* four bytes and its getter reads back the bit pattern of v.
CodecRoundTrip(Samples) ==
  \A v \in Samples :
    /\ SetUint16(v) = LittleEndian16(v)
    /\ GetUint16(SetUint16(v)) = v % 2^16
    /\ \A k \in 1..4 : SetUint32(v)[k] \in 0..255
    /\ GetUint32(SetUint32(v)) = v

=============================================================================
