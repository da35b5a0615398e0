------------------------------- MODULE MC_Emu -------------------------------
(***************************************************************************)
(* Emu for TLC.  The BMC at 0x20, an MC at 0x82 and the odd address 0x83  *)
(* (refused by every call, and the slot of 0x82 for a request).  Up to    *)
(* three MCs, so that both slots are filled and one is replaced.  An MC    *)
(* either supports everything (device id 1) or nothing (device id 2).     *)
(* The SEL is enabled with 2 entries over an id space of 1 (the scaled    *)
(* proportions of max_entries > 0xfffe), so the id search runs out.       *)
(***************************************************************************)
EXTENDS Emu

MCConfigs ==
  {[sel |-> b, sdr |-> b, fru |-> b, hasDeviceSdrs |-> b, deviceId |-> IF b THEN 1 ELSE 2] :
     b \in BOOLEAN}

=============================================================================
