---------------------------- MODULE MC_SelStore ----------------------------
(***************************************************************************)
(* SelStore for TLC.  Ids are 2 bits wide and a log holds up to 4 records, *)
(* the proportions of a 16-bit id space and max_entries >= 65535, so that *)
(* next_entry wraps and collides with ids in use.                          *)
(***************************************************************************)
EXTENDS SelStore

MCMaxCounts == {2, 4}

\* One system event record type and one OEM (non-timestamped) type.
MCRecordTypes == {2, 224}

=============================================================================
