------------------------------- MODULE FruStore -------------------------------
(***************************************************************************)
(* The FRU inventory areas of one emulated MC, as kept by                  *)
(* src/lanserv/serv.c: mc->frus[255] (fru_data_t: length and a malloc'd    *)
(* data buffer), the three Storage-netfn FRU handlers and the              *)
(* configuration call ipmi_mc_add_fru_data.                                *)
(*                                                                         *)
(* Requests are the data bytes of the message; 16-bit offsets are read     *)
(* with the Codec of ipmi_get_uint16.  RdataCap is the *rdata_len the      *)
(* handler is called with, the capacity of the response buffer.  A        *)
(* malloc that fails is a nondeterministic outcome when AllocFails holds  *)
(* TRUE.                                                                   *)
(***************************************************************************)
EXTENDS Integers, Sequences, SequencesExt, Codec

CONSTANTS
  DevIds,       \* the device ids below 255 the configuration may use
  RdataCap,     \* *rdata_len on entry: the response buffer capacity
  Requests,     \* Storage requests: [cmd, data]
  Adds,         \* ipmi_mc_add_fru_data calls: [dev, length, data]
  AllocFails    \* the outcomes of malloc: FALSE (succeeds), TRUE (fails)

ASSUME /\ DevIds \subseteq 0..254
       /\ RdataCap \in Nat
       /\ AllocFails \subseteq BOOLEAN

VARIABLES
  fruDevice,    \* mc->device_support & IPMI_DEVID_FRU_INVENTORY_DEV
  frus,         \* mc->frus[d] for d in DevIds: [length, data]
  last          \* the last request and its response, or configuration call

vars == <<fruDevice, frus, last>>

NULL == <<-1>>

INVALID_DATA_FIELD_CC == 204
PARAMETER_OUT_OF_RANGE_CC == 201
REQUESTED_DATA_LENGTH_EXCEEDED_CC == 202
REQUEST_DATA_LENGTH_INVALID_CC == 199

\* The data pointer of frus[d]; the entries outside DevIds are never set.
Data(d) == IF d \in DevIds THEN frus[d].data ELSE NULL

\* (devid >= 255) || (!mc->frus[devid].data), shared by the handlers.
NoFru(d) == d >= 255 \/ Data(d) = NULL

Zeros(n) == [i \in 1..n |-> 0]

-----------------------------------------------------------------------------
(* The handlers, as the response they write.                               *)

\* handle_get_fru_inventory_area_info.
HandleGetFruInventoryAreaInfo(data) ==
  CASE Len(data) < 1     -> <<REQUEST_DATA_LENGTH_INVALID_CC>>
    [] NoFru(data[1])    -> <<INVALID_DATA_FIELD_CC>>
    [] OTHER             -> <<0>> \o SetUint16(frus[data[1]].length) \o <<0>>

\* Mutant: the range check that lets an offset equal to the length pass.
ReadFruDataAtEnd(data) ==
  LET d      == data[1]
      offset == GetUint16(SubSeq(data, 2, 3))
      length == frus[d].length
      count  == IF offset + data[4] > length THEN length - offset ELSE data[4]
  IN CASE Len(data) < 4            -> <<REQUEST_DATA_LENGTH_INVALID_CC>>
       [] NoFru(d)                 -> <<INVALID_DATA_FIELD_CC>>
       [] offset > length          -> <<PARAMETER_OUT_OF_RANGE_CC>>
       [] count + 2 > RdataCap     -> <<REQUESTED_DATA_LENGTH_EXCEEDED_CC>>
       [] OTHER -> <<0, count>> \o SubSeq(frus[d].data, offset + 1, offset + count)

\* handle_read_fru_data: count clamped to the end of the area, refused
\* when it does not fit the response buffer.
HandleReadFruData(data) ==
  LET d      == data[1]
      offset == GetUint16(SubSeq(data, 2, 3))
      length == frus[d].length
      count  == IF offset + data[4] > length THEN length - offset ELSE data[4]
  IN CASE Len(data) < 4            -> <<REQUEST_DATA_LENGTH_INVALID_CC>>
       [] NoFru(d)                 -> <<INVALID_DATA_FIELD_CC>>
       [] offset >= length         -> <<PARAMETER_OUT_OF_RANGE_CC>>
       [] count + 2 > RdataCap     -> <<REQUESTED_DATA_LENGTH_EXCEEDED_CC>>
       [] OTHER -> <<0, count>> \o SubSeq(frus[d].data, offset + 1, offset + count)

\* handle_write_fru_data: count = data_len - 3, no truncation.
HandleWriteFruData(data) ==
  LET d      == data[1]
      offset == GetUint16(SubSeq(data, 2, 3))
      count  == Len(data) - 3
  IN CASE Len(data) < 3                -> <<REQUEST_DATA_LENGTH_INVALID_CC>>
       [] NoFru(d)                     -> <<INVALID_DATA_FIELD_CC>>
       [] offset >= frus[d].length     -> <<PARAMETER_OUT_OF_RANGE_CC>>
       [] offset + count > frus[d].length -> <<REQUESTED_DATA_LENGTH_EXCEEDED_CC>>
       [] OTHER                        -> <<0, count>>

\* Mutant: the bytes copied from msg->data + 2, one before the payload.
FruBytesFromOffsetHi(data) == SubSeq(data, 3, Len(data) - 1)

\* The payload of a Write FRU Data request: msg->data + 3.
FruBytes(data) == SubSeq(data, 4, Len(data))

\* memcpy(mc->frus[devid].data + offset, msg->data + 3, count).
FruCopy(buf, offset, bytes) ==
  [i \in DOMAIN buf |->
     IF i > offset /\ i <= offset + Len(bytes) THEN bytes[i - offset] ELSE buf[i]]

-----------------------------------------------------------------------------
(* The actions.                                                            *)

\* One request of handle_storage_netfn to a FRU command.
StorageRequest(r) ==
  LET rsp == CASE r.cmd = "GetFruInventoryAreaInfo" -> HandleGetFruInventoryAreaInfo(r.data)
               [] r.cmd = "ReadFruData"             -> HandleReadFruData(r.data)
               [] r.cmd = "WriteFruData"            -> HandleWriteFruData(r.data)
  IN /\ last' = [op |-> r.cmd, req |-> r.data, rsp |-> rsp]
     /\ frus' = IF r.cmd = "WriteFruData" /\ rsp[1] = 0
                THEN [frus EXCEPT ![r.data[1]].data =
                        FruCopy(@, GetUint16(SubSeq(r.data, 2, 3)), FruBytes(r.data))]
                ELSE frus
     /\ UNCHANGED fruDevice

\* Mutant: the area's length taken from data_len rather than length.
NewAreaDataLen(c) ==
  [length |-> Len(c.data), data |-> c.data \o Zeros(c.length - Len(c.data))]

\* The area malloc(length), memset to 0 and filled from data, gives.
NewArea(c) ==
  [length |-> c.length, data |-> c.data \o Zeros(c.length - Len(c.data))]

\* ipmi_mc_add_fru_data(mc, c.dev, c.length, c.data, len(c.data)); fail
\* is the outcome of its malloc.  An existing buffer is freed (and the
\* length zeroed) before the new one is allocated.
AddFruData(c, fail) ==
  LET rv == CASE ~fruDevice               -> "ENOSYS"
              [] c.dev >= 255             -> "EINVAL"
              [] Len(c.data) > c.length   -> "EINVAL"
              [] fail                     -> "ENOMEM"
              [] OTHER                    -> "ok"
  IN /\ last' = [op |-> "AddFruData", rv |-> rv]
     /\ frus' = CASE rv = "ENOMEM" ->
                       [frus EXCEPT ![c.dev] =
                          [length |-> IF @.data # NULL THEN 0 ELSE @.length,
                           data   |-> NULL]]
                  [] rv = "ok" -> [frus EXCEPT ![c.dev] = NewArea(c)]
                  [] OTHER -> frus
     /\ UNCHANGED fruDevice

\* ipmi_emu_add_mc zeroes the MC: no FRU has data.
Init ==
  /\ fruDevice \in BOOLEAN
  /\ frus = [d \in DevIds |-> [length |-> 0, data |-> NULL]]
  /\ last = [op |-> "none"]

Next ==
  \/ \E r \in Requests : StorageRequest(r)
  \/ \E c \in Adds, fail \in AllocFails : AddFruData(c, fail)

Spec == Init /\ [][Next]_vars

-----------------------------------------------------------------------------
(* Properties                                                              *)

TypeOK ==
  /\ fruDevice \in BOOLEAN
  /\ \A d \in DevIds :
       \/ frus[d].data = NULL
       \/ /\ frus[d].data \in Seq(0..255)
          /\ Len(frus[d].data) = frus[d].length

\* The area a client sees: none where the data pointer is NULL.
AbsArea == [d \in DevIds |-> frus[d].data]

AbsLast ==
  IF last.op = "AddFruData"
  THEN [op |-> "AddFruData", rv |-> IF last.rv = "ok" THEN "ok" ELSE "error"]
  ELSE last

Abstract == INSTANCE FruArea WITH area <- AbsArea, last <- AbsLast

\* The FRU handlers and ipmi_mc_add_fru_data implement the byte areas of
\* FruArea: an area read back gives what was configured and written, the
\* clamping and the error answers are those of spec 4.4, and a failed
\* configuration call leaves the areas as they were.
FruAreaSpec == Abstract!Spec

=============================================================================
