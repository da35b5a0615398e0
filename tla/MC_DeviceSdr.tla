---------------------------- MODULE MC_DeviceSdr ----------------------------
(***************************************************************************)
(* DeviceSdr for TLC: two LUNs, record ids scaled to 2 bits (so the id     *)
(* space of a LUN fills up and the search runs out or loops), 2-bit        *)
(* reservations (so the reservation wraps past 0), and mallocs that may   *)
(* fail.                                                                   *)
(***************************************************************************)
EXTENDS DeviceSdr

=============================================================================
