------------------------------- MODULE FruArea -------------------------------
(***************************************************************************)
(* What the FRU store promises (spec sections 4.4 and 5): a fixed-length  *)
(* byte area per device id below 255, read and written at a 16-bit        *)
(* offset, and set up by the configuration API.                            *)
(*                                                                         *)
(*   - Get area info answers the area's length (16 bits) and byte access. *)
(*   - Read (device, offset lo, offset hi, count) answers the bytes from  *)
(*     offset, count clamped to the end of the area; an offset at or past *)
(*     the end is out of range; an answer that does not fit the response  *)
(*     buffer is refused.                                                  *)
(*   - Write (device, offset lo, offset hi, data...) stores the data at   *)
(*     offset and answers its length; data past the end is refused.       *)
(*   - Adding FRU data gives the device a zero-filled area of the given   *)
(*     length that starts with the given bytes.  An add that fails leaves *)
(*     the areas as they were; when an add fails is left open.            *)
(*                                                                         *)
(* last records the last operation: a request and its response bytes, or  *)
(* a configuration call and whether it succeeded.                          *)
(***************************************************************************)
EXTENDS Integers, Sequences, SequencesExt

CONSTANTS
  DevIds,       \* the device ids that may hold an area (all below 255)
  RdataCap,     \* capacity of the response buffer
  Requests,     \* request data: [cmd, data]
  Adds          \* configuration calls: [dev, length, data]

ASSUME DevIds \subseteq 0..254 /\ RdataCap \in Nat

VARIABLES
  area,         \* device id -> its bytes, or Absent
  last          \* the last operation

vars == <<area, last>>

Absent == <<-1>>

INVALID_DATA_FIELD_CC == 204
PARAMETER_OUT_OF_RANGE_CC == 201
REQUESTED_DATA_LENGTH_EXCEEDED_CC == 202
REQUEST_DATA_LENGTH_INVALID_CC == 199

Zeros(n) == [i \in 1..n |-> 0]

Has(d) == d \in DevIds /\ area[d] # Absent

Offset(data) == data[2] + 256 * data[3]

\* The answer to a request of at least n data bytes for device data[1].
Checked(data, n, ok) ==
  CASE Len(data) < n    -> <<REQUEST_DATA_LENGTH_INVALID_CC>>
    [] ~Has(data[1])    -> <<INVALID_DATA_FIELD_CC>>
    [] OTHER            -> ok

Info(data) ==
  Checked(data, 1, LET n == Len(area[data[1]])
                   IN <<0, n % 256, (n \div 256) % 256, 0>>)

Read(data) ==
  Checked(data, 4,
    LET a == area[data[1]]
        o == Offset(data)
        c == IF o + data[4] > Len(a) THEN Len(a) - o ELSE data[4]
    IN CASE o >= Len(a)    -> <<PARAMETER_OUT_OF_RANGE_CC>>
         [] c + 2 > RdataCap -> <<REQUESTED_DATA_LENGTH_EXCEEDED_CC>>
         [] OTHER          -> <<0, c>> \o SubSeq(a, o + 1, o + c))

WriteAnswer(data) ==
  Checked(data, 3,
    LET a == area[data[1]]
        o == Offset(data)
        b == SubSeq(data, 4, Len(data))
    IN CASE o >= Len(a)          -> <<PARAMETER_OUT_OF_RANGE_CC>>
         [] o + Len(b) > Len(a)  -> <<REQUESTED_DATA_LENGTH_EXCEEDED_CC>>
         [] OTHER                -> <<0, Len(b)>>)

Init == area = [d \in DevIds |-> Absent] /\ last = [op |-> "none"]

Answer(r) ==
  /\ last' = [op |-> r.cmd, req |-> r.data,
              rsp |-> CASE r.cmd = "GetFruInventoryAreaInfo" -> Info(r.data)
                        [] r.cmd = "ReadFruData"             -> Read(r.data)
                        [] r.cmd = "WriteFruData"            -> WriteAnswer(r.data)]

Request(r) ==
  /\ Answer(r)
  /\ area' = IF r.cmd = "WriteFruData" /\ last'.rsp[1] = 0
             THEN LET d == r.data[1]
                      o == Offset(r.data)
                      b == SubSeq(r.data, 4, Len(r.data))
                  IN [area EXCEPT ![d] = [i \in DOMAIN @ |->
                        IF i > o /\ i <= o + Len(b) THEN b[i - o] ELSE @[i]]]
             ELSE area

Add(c) ==
  /\ c.dev \in DevIds
  /\ Len(c.data) <= c.length
  /\ area' = [area EXCEPT ![c.dev] = c.data \o Zeros(c.length - Len(c.data))]
  /\ last' = [op |-> "AddFruData", rv |-> "ok"]

AddFails(c) ==
  /\ area' = area
  /\ last' = [op |-> "AddFruData", rv |-> "error"]

Next ==
  \/ \E r \in Requests : Request(r)
  \/ \E c \in Adds : Add(c) \/ AddFails(c)

Spec == Init /\ [][Next]_vars

=============================================================================
