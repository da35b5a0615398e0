----------------------------- MODULE MC_FruStore -----------------------------
(***************************************************************************)
(* FruStore for TLC.  Devices 0 and 1 may get an area of 0 or 3 bytes,    *)
(* from configuration data of 0, 1 or 4 bytes (4 is too long for either); *)
(* requests go to device 0 and to 255.  Offsets 0, 2, 3 (the end of a     *)
(* 3-byte area) and 256 (only the high byte set); reads of 1, 2 and 255   *)
(* bytes into a buffer of 4, so that a 3-byte answer is refused and a     *)
(* read from offset 2 is clamped; writes of 0, 1 and 2 bytes, so that a   *)
(* write from offset 2 overruns the end.                                   *)
(***************************************************************************)
EXTENDS FruStore

MCOffsets == {<<0, 0>>, <<2, 0>>, <<3, 0>>, <<0, 1>>}

MCRequests ==
  {[cmd |-> "GetFruInventoryAreaInfo", data |-> d] : d \in {<<>>, <<0>>, <<255>>}}
  \cup {[cmd |-> "ReadFruData", data |-> <<0, 0, 0>>]}
  \cup {[cmd |-> "ReadFruData", data |-> <<d>> \o o \o <<c>>] :
          d \in {0, 255}, o \in MCOffsets, c \in {1, 2, 255}}
  \cup {[cmd |-> "WriteFruData", data |-> <<0, 0>>]}
  \cup {[cmd |-> "WriteFruData", data |-> <<0>> \o o \o b] :
          o \in MCOffsets, b \in {<<>>, <<7>>, <<7, 7>>}}

MCAdds ==
  [dev : {0, 1, 255}, length : {0, 3}, data : {<<>>, <<5>>, <<5, 5, 5, 5>>}]

==============================================================================
