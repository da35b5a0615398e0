------------------------------ MODULE DeviceSdr ------------------------------
(***************************************************************************)
(* The per-LUN device SDR repositories of one emulated MC, as kept by      *)
(* src/lanserv/serv.c: mc->device_sdrs[lun] (an sdrs_t each), the          *)
(* sensor population fields num_sensors_per_lun and lun_has_sensors, the   *)
(* Sensor/Event-netfn handlers that read them, and the configuration call  *)
(* ipmi_mc_add_device_sdr that fills them.                                 *)
(*                                                                         *)
(* Records are abstracted to their record ids, head first.  The record id *)
(* search of new_sdr_entry is the one of SdrStore, on the LUN's list; a    *)
(* search that never ends is the fault "hang", after which nothing         *)
(* happens.  Which of the MC's support bits are set is chosen in Init.     *)
(* Time (sensor_population_change_time) is not modelled.                   *)
(***************************************************************************)
EXTENDS Integers, Sequences, SequencesExt

CONSTANTS
  IdBits,       \* width of record_id and next_entry (uint16_t)
  ResvBits,     \* width of the reservation (uint16_t)
  CountBits,    \* width of num_sensors_per_lun (unsigned char)
  Luns,         \* the LUNs of the model (the code has 0..3)
  Fails         \* outcomes of a malloc: FALSE (succeeds), TRUE (fails)

ASSUME /\ IdBits \in 2..16 /\ ResvBits \in 1..16 /\ CountBits \in 1..8
       /\ Luns \subseteq 0..3 /\ Fails \subseteq BOOLEAN

VARIABLES
  hasDeviceSdrs, \* mc->has_device_sdrs
  dynamicPop,    \* mc->dynamic_sensor_population
  sensorDev,     \* mc->device_support & IPMI_DEVID_SENSOR_DEV
  devSdrs,       \* devSdrs[l]: the record ids of mc->device_sdrs[l].sdrs
  nextEntry,     \* mc->device_sdrs[l].next_entry
  reservation,   \* mc->device_sdrs[l].reservation
  numSensors,    \* mc->num_sensors_per_lun[l]
  lunHasSensors, \* the LUNs l with mc->lun_has_sensors[l] set
  fault,         \* "none", or "hang" when new_sdr_entry loops for ever
  last           \* the last call or request and its answer

config == <<hasDeviceSdrs, dynamicPop, sensorDev>>
repo   == <<devSdrs, nextEntry, reservation, numSensors, lunHasSensors>>
vars   == <<config, repo, fault, last>>

NumIds == 2^IdBits
Ids    == 0 .. NumIds - 1
LastId == NumIds - 1             \* 0xffff
NoId   == -1
Hang   == -2

OK_CC                 == 0
INVALID_CMD_CC        == 193     \* 0xc1
INVALID_RESERVATION_CC == 197    \* 0xc5
REQUEST_DATA_LENGTH_INVALID_CC == 199 \* 0xc7
PARAMETER_OUT_OF_RANGE_CC == 201 \* 0xc9
REQUESTED_DATA_LENGTH_EXCEEDED_CC == 202 \* 0xca
NOT_PRESENT_CC        == 203     \* 0xcb

Answer(cmd, l, cc, val) ==
  last' = [cmd |-> cmd, lun |-> l, cc |-> cc, val |-> val]

-----------------------------------------------------------------------------
(* Helpers of the code.                                                    *)

IdInc(x) == (x + 1) % NumIds

\* Mutant: the search that takes next_entry whether or not it is in use.
SdrProbeNoFind(l, n, start, k) == n

\* The id search of new_sdr_entry on the list of LUN l (see SdrStore).
RECURSIVE SdrProbe(_, _, _, _)
SdrProbe(l, n, start, k) ==
  IF n \notin Range(devSdrs[l]) THEN n
  ELSE LET n1 == IF IdInc(n) = LastId THEN 1 ELSE IdInc(n) IN
       CASE n1 = start  -> NoId
         [] k >= NumIds -> Hang
         [] OTHER       -> SdrProbe(l, n1, start, k + 1)

\* handle_reserve_device_sdr_repository: reservation++, once more past 0.
NextReservation(r) ==
  LET r1 == (r + 1) % 2^ResvBits IN IF r1 = 0 THEN 1 ELSE r1

\* The entry of LUN l a Get Device SDR names (0: the first, 0xffff: the
\* last, else find_sdr_by_recid); 0 when there is none.
SdrIndex(l, rid) ==
  CASE rid = 0      -> IF devSdrs[l] = <<>> THEN 0 ELSE 1
    [] rid = LastId -> Len(devSdrs[l])
    [] OTHER        -> SelectInSeq(devSdrs[l], LAMBDA e : e = rid)

\* The next record id field: the following record's id, or 0xffff.
NextIdField(l, i) == IF i < Len(devSdrs[l]) THEN devSdrs[l][i + 1] ELSE LastId

-----------------------------------------------------------------------------
(* The configuration call.                                                 *)

\* Mutant: num_sensors_per_lun counted also when no entry was added.
PopulationCountAlways(n, ok) == (n + 1) % 2^CountBits

\* num_sensors_per_lun[lun]++, reached only when new_sdr_entry succeeded.
PopulationCount(n, ok) == IF ok THEN (n + 1) % 2^CountBits ELSE n

\* ipmi_mc_add_device_sdr(mc, l, ...): fail1 and fail2 are the outcomes of
\* the two mallocs of new_sdr_entry.  The id search leaves next_entry at
\* the id it found also when a malloc then fails.
AddDeviceSdr(l, fail1, fail2) ==
  LET id == SdrProbe(l, nextEntry[l], nextEntry[l], 0)
      ok == id \notin {NoId, Hang} /\ ~fail1 /\ ~fail2
  IN /\ CASE l >= 4 ->
               /\ Answer("AddDeviceSdr", l, "EINVAL", NoId)
               /\ UNCHANGED <<repo, fault>>
          [] ~hasDeviceSdrs ->
               /\ Answer("AddDeviceSdr", l, "ENOSYS", NoId)
               /\ UNCHANGED <<repo, fault>>
          [] id = Hang ->
               /\ fault' = "hang"
               /\ UNCHANGED <<repo, last>>
          [] OTHER ->
               /\ devSdrs' = IF ok THEN [devSdrs EXCEPT ![l] = Append(@, id)] ELSE devSdrs
               /\ nextEntry' = CASE ok        -> [nextEntry EXCEPT ![l] = IdInc(id)]
                                 [] id # NoId -> [nextEntry EXCEPT ![l] = id]
                                 [] OTHER     -> nextEntry
               /\ numSensors' = [numSensors EXCEPT ![l] = PopulationCount(@, ok)]
               /\ lunHasSensors' = IF ok THEN lunHasSensors \cup {l} ELSE lunHasSensors
               /\ Answer("AddDeviceSdr", l, IF ok THEN "ok" ELSE "ENOMEM", IF ok THEN id ELSE NoId)
               /\ UNCHANGED <<reservation, fault>>
     /\ UNCHANGED config

-----------------------------------------------------------------------------
(* The handlers, for a request on LUN l.                                   *)

\* handle_get_device_sdr_info: the LUN's count and the LUNs with sensors.
GetDeviceSdrInfo(l) ==
  /\ IF ~sensorDev
     THEN Answer("GetDeviceSdrInfo", l, INVALID_CMD_CC, NoId)
     ELSE Answer("GetDeviceSdrInfo", l, OK_CC,
                 [count |-> numSensors[l], luns |-> lunHasSensors])
  /\ UNCHANGED <<config, repo, fault>>

\* handle_reserve_device_sdr_repository.
ReserveDeviceSdr(l) ==
  /\ IF hasDeviceSdrs /\ dynamicPop
     THEN /\ reservation' = [reservation EXCEPT ![l] = NextReservation(@)]
          /\ Answer("ReserveDeviceSdr", l, OK_CC, reservation'[l])
     ELSE /\ Answer("ReserveDeviceSdr", l, INVALID_CMD_CC, NoId)
          /\ UNCHANGED reservation
  /\ UNCHANGED <<config, devSdrs, nextEntry, numSensors, lunHasSensors, fault>>

\* handle_get_device_sdr: short is a request of fewer than 6 bytes;
\* offsetOk, the offset is below the record length; fits, the clamped
\* count plus 3 fits the response buffer.  The answer's value is the
\* record read and its next record id field.
GetDeviceSdr(l, res, rid, short, offsetOk, fits) ==
  LET i == SdrIndex(l, rid) IN
  /\ CASE ~hasDeviceSdrs -> Answer("GetDeviceSdr", l, INVALID_CMD_CC, NoId)
       [] short          -> Answer("GetDeviceSdr", l, REQUEST_DATA_LENGTH_INVALID_CC, NoId)
       [] dynamicPop /\ res # 0 /\ res # reservation[l] ->
                            Answer("GetDeviceSdr", l, INVALID_RESERVATION_CC, NoId)
       [] i = 0          -> Answer("GetDeviceSdr", l, NOT_PRESENT_CC, NoId)
       [] ~offsetOk      -> Answer("GetDeviceSdr", l, PARAMETER_OUT_OF_RANGE_CC, NoId)
       [] ~fits          -> Answer("GetDeviceSdr", l, REQUESTED_DATA_LENGTH_EXCEEDED_CC, NoId)
       [] OTHER          -> Answer("GetDeviceSdr", l, OK_CC,
                              [rid |-> rid, res |-> res, id |-> devSdrs[l][i],
                               next |-> NextIdField(l, i)])
  /\ UNCHANGED <<config, repo, fault>>

-----------------------------------------------------------------------------

\* ipmi_emu_add_mc zeroes the MC: every list empty, next_entry and the
\* reservations 0, no sensors; the support bits are its arguments.
Init ==
  /\ hasDeviceSdrs \in BOOLEAN /\ dynamicPop \in BOOLEAN /\ sensorDev \in BOOLEAN
  /\ devSdrs = [l \in Luns |-> <<>>]
  /\ nextEntry = [l \in Luns |-> 0]
  /\ reservation = [l \in Luns |-> 0]
  /\ numSensors = [l \in Luns |-> 0]
  /\ lunHasSensors = {}
  /\ fault = "none"
  /\ last = [cmd |-> "none", lun |-> 0, cc |-> OK_CC, val |-> NoId]

Halted == fault # "none" /\ UNCHANGED vars

Next ==
  \/ Halted
  \/ fault = "none" /\
     \/ \E l \in Luns \cup {4}, f1, f2 \in Fails : AddDeviceSdr(l, f1, f2)
     \/ \E l \in Luns : GetDeviceSdrInfo(l) \/ ReserveDeviceSdr(l)
     \/ \E l \in Luns, res \in 0 .. 2^ResvBits - 1, rid \in Ids,
           short, o, f \in BOOLEAN : GetDeviceSdr(l, res, rid, short, o, f)

Spec == Init /\ [][Next]_vars

-----------------------------------------------------------------------------
(* Properties.                                                             *)

\* The types of the state, the next_entry of every LUN a 16-bit (scaled)
\* id, and no record id used twice in a LUN.
TypeOK ==
  /\ config \in BOOLEAN \X BOOLEAN \X BOOLEAN
  /\ \A l \in Luns : /\ devSdrs[l] \in Seq(Ids) /\ IsInjective(devSdrs[l])
                     /\ nextEntry[l] \in Ids
                     /\ reservation[l] \in 0 .. 2^ResvBits - 1
                     /\ numSensors[l] \in 0 .. 2^CountBits - 1
  /\ lunHasSensors \subseteq Luns
  /\ fault \in {"none", "hang"}

\* Spec 4.5 (Get Device SDR Info): the answer gives the number of SDRs of
\* the LUN asked about and the LUNs that have any, however
\* ipmi_mc_add_device_sdr calls on several LUNs succeeded or failed on an
\* exhausted id space or a malloc.
PopulationReported ==
  (last.cmd = "GetDeviceSdrInfo" /\ last.cc = OK_CC) =>
    /\ last.val.count = Len(devSdrs[last.lun])
    /\ last.val.luns = {l \in Luns : devSdrs[l] # <<>>}

\* Spec 4.3, for the device repositories of Get Device SDR: the next record
\* id field is 0xffff exactly when the record read is the LUN's last, so
\* a reader walking a LUN from record 0 stops at its end and not before.
NextIdEndsWalk ==
  (last.cmd = "GetDeviceSdr" /\ last.cc = OK_CC) =>
    (last.val.next = LastId <=> last.val.id = Last(devSdrs[last.lun]))

=============================================================================
