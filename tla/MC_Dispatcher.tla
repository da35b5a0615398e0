---------------------------- MODULE MC_Dispatcher ----------------------------
(***************************************************************************)
(* Dispatcher for TLC: the BMC at 0x20 and an MC at 0x82; SEND_MSG frames  *)
(* to 0x82, to 0x83 (the same MC: the table is indexed by slave >> 1) and  *)
(* to 0x84 (no MC), for the APP, STORAGE and an unknown netfn, whole or    *)
(* cut by 1 byte (a broadcast frame of 8 bytes, one short) or by 3.        *)
(***************************************************************************)
EXTENDS Dispatcher

MCBmcAddr   == 32
MCMcAddrs   == {32, 130}
MCResponses == {<<0>>, <<0, 121>>, <<203>>}  \* 121: a frame whose bytes sum to 0
MCRequests  == {[netfn |-> n, cmd |-> 1, data |-> <<>>] : n \in {6, 10, 17}}
MCChanBytes == {0, 64}
MCSlaves    == {130, 131, 132}
MCNetFnLuns == {24, 41, 68}          \* APP lun 0, STORAGE lun 1, netfn 0x11
MCSeqLuns   == {5, 254}
MCInnerData == {<<>>, <<255>>}
MCCuts      == {0, 1, 3}
\* A buffer of 12 bytes: every response of MCResponses fits it wrapped.
MCRdataCap  == 12

\* With the answer of Read FRU Data for 10 bytes, which fills the buffer.
MCFullResponses == MCResponses \cup {<<0, 10>> \o [i \in 1..10 |-> 5]}

MCCodecSamples == {0, 1, 255, 256, 65535, 65536, 2147483647, -1, -256, -2147483647 - 1}

==============================================================================
