------------------------------ MODULE Dispatcher -----------------------------
(***************************************************************************)
(* ipmi_emu_handle_msg of src/lanserv/serv.c: the entry point that takes  *)
(* one request, unwraps a bridged SEND_MSG request (the IPMB frame after  *)
(* a channel byte and an optional broadcast byte), finds the target MC,   *)
(* dispatches on netfn, and wraps the response of a SEND_MSG request in   *)
(* an IPMB response frame with both checksums.                            *)
(*                                                                         *)
(* The handlers are modelled in their own modules; here a handler answers *)
(* with any response of Responses (completion code first), and an         *)
(* unknown netfn with INVALID_CMD.  A request is [netfn, cmd, data]; its  *)
(* bytes and those of the response are sequences of 0..255.               *)
(***************************************************************************)
EXTENDS Integers, Sequences, SequencesExt, Codec

CONSTANTS
  BmcAddr,      \* emu->bmc_mc
  McAddrs,      \* slave addresses of the MCs in emu->ipmb
  Responses,    \* handler responses (byte sequences, completion code first)
  Requests,     \* direct requests: [netfn, cmd, data]
  ChanBytes,    \* SEND_MSG channel bytes
  Slaves,       \* responder slave addresses in the IPMB frame
  NetFnLuns,    \* netfn << 2 | lun bytes in the IPMB frame
  SeqLuns,      \* rqSeq << 2 | rqLUN bytes
  InnerData,    \* inner request data (byte sequences)
  Cuts,         \* how many trailing bytes a truncated request lacks
  CodecSamples, \* values for the codec round trip
  RdataCap      \* *rdata_len on entry: the capacity of rdata

\* A handler is passed *rdata_len as the capacity of rdata and answers
\* within it (handle_read_fru_data and handle_get_sdr check count + 2
\* and count + 3 against it).
ASSUME \A r \in Responses : Len(r) <= RdataCap

VARIABLES
  msg,          \* the last request handled
  rdata         \* its response

vars == <<msg, rdata>>

APP_NETFN == 6
SENSOR_EVENT_NETFN == 4
STORAGE_NETFN == 10
OEM0_NETFN == 48
SEND_MSG_CMD == 52              \* 0x34
RqSA == 129                     \* 0x81: the requester of the IPMB frame

INVALID_CMD_CC == 193           \* 0xc1
REQUEST_DATA_LENGTH_INVALID_CC == 199 \* 0xc7
INVALID_DATA_FIELD_CC == 204    \* 0xcc
NAK_ON_WRITE_CC == 131          \* 0x83
UNSPECIFIED_CC == 255           \* 0xff

Routed == {APP_NETFN, SENSOR_EVENT_NETFN, STORAGE_NETFN, OEM0_NETFN}

\* The SEND_MSG data a client builds: channel byte, broadcast byte, IPMB
\* request frame with its two checksums, less the last cut bytes.
Frame(chan, bc, slave, nl, sl, cmd, d, cut) ==
  LET body  == <<RqSA, sl, cmd>> \o d
      frame == <<slave, nl, IpmbChecksum(<<slave, nl>>, 0)>> \o body
                 \o <<IpmbChecksum(body, 0)>>
      all   == <<chan>> \o (IF bc THEN <<0>> ELSE <<>>) \o frame
  IN SubSeq(all, 1, Len(all) - cut)

SendMsgs ==
  {[netfn |-> n, cmd |-> SEND_MSG_CMD,
    data |-> Frame(chan, bc, slave, nl, sl, 1, d, cut)] :
     n \in {APP_NETFN, STORAGE_NETFN}, chan \in ChanBytes, bc \in BOOLEAN,
     slave \in Slaves, nl \in NetFnLuns, sl \in SeqLuns, d \in InnerData,
     cut \in Cuts}

-----------------------------------------------------------------------------

\* The switch on netfn: a handler's response, or handle_invalid_cmd.
Dispatch(netfn, resp) == IF netfn \in Routed THEN resp ELSE <<INVALID_CMD_CC>>

\* netfn | 1: the response netfn of a request netfn.
OrOne(n) == n + 1 - (n % 2)

\* Mutant: the header checksum taken over three bytes from rdata+1.
WrapHeaderOverrun(r, d, netfn) ==
  LET hdr == <<0, BmcAddr, (OrOne(netfn) * 4) + (d[5] % 4)>>
      h   == hdr \o <<IpmbChecksum(<<hdr[2], hdr[3], r[1]>>, 0)>>
             \o <<d[1], (d[5] - (d[5] % 4)) + (d[2] % 4), d[6]>> \o r
  IN h \o <<IpmbChecksum(h, 0)>>

\* Mutant: the two LUNs of the response header swapped.
WrapLunsSwapped(r, d, netfn) ==
  LET hdr == <<0, BmcAddr, (OrOne(netfn) * 4) + (d[2] % 4)>>
      h   == hdr \o <<IpmbChecksum(<<hdr[2], hdr[3]>>, 0)>>
             \o <<d[1], (d[5] - (d[5] % 4)) + (d[5] % 4), d[6]>> \o r
  IN h \o <<IpmbChecksum(h, 0)>>

\* The tail of ipmi_emu_handle_msg for SEND_MSG: shift the response by 7,
\* write the IPMB response header (d is the frame: d[1] the responder,
\* d[2] netFn/LUN, d[5] rqSeq/rqLUN, d[6] cmd), checksum rdata[1..2], and
\* append a checksum over everything before it.
Wrap(r, d, netfn) ==
  LET hdr == <<0, BmcAddr, (OrOne(netfn) * 4) + (d[5] % 4)>>
      h   == hdr \o <<IpmbChecksum(<<hdr[2], hdr[3]>>, 0)>>
             \o <<d[1], (d[5] - (d[5] % 4)) + (d[2] % 4), d[6]>> \o r
  IN h \o <<IpmbChecksum(h, 0)>>

\* The IPMB frame of a SEND_MSG request: after the channel byte and, when
\* the next byte is 0, after that broadcast byte too.
FrameOf(m) ==
  IF m.data[2] = 0 THEN SubSeq(m.data, 3, Len(m.data))
  ELSE SubSeq(m.data, 2, Len(m.data))

\* Mutant: the broadcast byte skipped without the length check.
HandleSendMsgNoBcCheck(m, resp) ==
  LET d == FrameOf(m) IN
  CASE Len(m.data) < 8         -> <<REQUEST_DATA_LENGTH_INVALID_CC>>
    [] m.data[1] % 64 # 0       -> <<INVALID_DATA_FIELD_CC>>
    [] d[1] \div 2 \notin {a \div 2 : a \in McAddrs} -> <<NAK_ON_WRITE_CC>>
    [] OTHER -> Wrap(Dispatch(d[2] \div 4, resp), d, d[2] \div 4)

\* ipmi_emu_handle_msg for a SEND_MSG request, in the order of its checks.
HandleSendMsg(m, resp) ==
  LET d == FrameOf(m) IN
  CASE Len(m.data) < 8         -> <<REQUEST_DATA_LENGTH_INVALID_CC>>
    [] m.data[1] % 64 # 0       -> <<INVALID_DATA_FIELD_CC>>
    [] m.data[2] = 0 /\ Len(d) < 7 -> <<REQUEST_DATA_LENGTH_INVALID_CC>>
    [] d[1] \div 2 \notin {a \div 2 : a \in McAddrs} -> <<NAK_ON_WRITE_CC>>
    [] OTHER -> Wrap(Dispatch(d[2] \div 4, resp), d, d[2] \div 4)

\* The inner request a SEND_MSG request is turned into (smsg): netfn and
\* cmd from the frame, data after the 6 header bytes, less the trailing
\* checksum.  data_len is an unsigned int, represented as in Codec by its
\* bit pattern read as an int: a wrapped subtraction is negative here.
InnerLen(m) == Len(FrameOf(m)) - 7

\* One request handled.
HandleMsg(m, resp) ==
  /\ msg' = m
  /\ rdata' = IF m.cmd = SEND_MSG_CMD THEN HandleSendMsg(m, resp)
              ELSE IF BmcAddr \notin McAddrs THEN <<UNSPECIFIED_CC>>
              ELSE Dispatch(m.netfn, resp)

Init == msg = [netfn |-> 0, cmd |-> 0, data |-> <<>>] /\ rdata = <<>>

Next == \E m \in Requests \cup SendMsgs, resp \in Responses : HandleMsg(m, resp)

Spec == Init /\ [][Next]_vars

-----------------------------------------------------------------------------
(* Properties                                                              *)

Wrapped == msg.cmd = SEND_MSG_CMD /\ Len(rdata) > 1

TypeOK ==
  /\ msg \in Requests \cup SendMsgs \cup {[netfn |-> 0, cmd |-> 0, data |-> <<>>]}
  /\ rdata \in Seq(0..255)

\* A SEND_MSG response is a valid IPMB frame: the header checksum makes
\* rqSA and netFn/rqLUN sum to 0, and the trailing checksum, which the code
\* takes over the whole buffer from the completion code on, makes the
\* frame from rsSA to the end sum to 0, as IPMB requires.
WrappedChecksumsValid ==
  Wrapped => /\ SumsToZero(SubSeq(rdata, 2, 4))
             /\ SumsToZero(SubSeq(rdata, 5, Len(rdata)))

\* A SEND_MSG request is only unwrapped when its IPMB frame holds the
\* 6 header bytes and the trailing checksum, broadcast or not: the
\* unsigned inner data_len handed to the handler does not wrap and lies
\* within the request.
InnerRequestWithinFrame ==
  Wrapped => InnerLen(msg) \in 0..Len(msg.data)

\* The helpers of ipmi_utils.c: the byte codecs round-trip and agree with
\* the little-endian encoding, for 16- and 32-bit values and negative ints,
\* the ipmi_addr_t helpers agree with the fields of the address types
\* they handle, and the bit fields ipmi_emu_handle_msg packs into the
\* IPMB response header decode to those of the request it answers: rsSA
\* is the slave the request addressed, netFn the request's netFn | 1 with
\* the requester's LUN, rqSeq the request's with the responder's LUN, and
\* cmd the request's.
CodecOK ==
  /\ CodecRoundTrip(CodecSamples)
  /\ AddrHelpersAgree
  /\ Wrapped =>
       LET d == FrameOf(msg) IN
       /\ rdata[3] \div 4 = OrOne(d[2] \div 4) /\ rdata[3] % 4 = d[5] % 4
       /\ rdata[5] = d[1]
       /\ rdata[6] \div 4 = d[5] \div 4 /\ rdata[6] % 4 = d[2] % 4
       /\ rdata[7] = d[6]

\* The response ipmi_emu_handle_msg writes stays within the buffer its
\* caller passed, of *rdata_len bytes: also when a SEND_MSG response,
\* which the inner handler sized against that same *rdata_len, is shifted
\* by 7 and given a trailing checksum.
ResponseFitsBuffer == Len(rdata) <= RdataCap

\* Spec 4.6 step 1: SEND_MSG is recognised under the APP netfn; a request
\* of another netfn is never unwrapped.
SendMsgOnlyUnderApp == Wrapped => msg.netfn = APP_NETFN

=============================================================================
