------------------------------ MODULE SdrStore ------------------------------
(***************************************************************************)
(* The main Sensor Data Record repository of one emulated MC, as kept by   *)
(* src/lanserv/serv.c: mc->main_sdrs (an sdrs_t) and the Storage-netfn    *)
(* SDR handlers.  Records are abstracted to their record ids; the list    *)
(* is a sequence, head first.                                              *)
(*                                                                         *)
(* Nothing in the source writes main_sdrs.flags, which ipmi_emu_add_mc    *)
(* zeroes: reservation, partial add, allocation info and the modal        *)
(* update mode are never supported, and their handlers can only answer   *)
(* INVALID_CMD.  The handlers that touch the list are modelled in full.  *)
(*                                                                         *)
(* Time: now is the wall clock of gettimeofday, in seconds; it moves    *)
(* on by Tick between requests.  The repository clock is now plus        *)
(* main_sdrs.time_offset, sent as a uint32 and scaled here to TimeBits.  *)
(*                                                                         *)
(* fault records how the process left defined behaviour: "ub" when a    *)
(* handler walks nodes already freed, "hang" when the id search of       *)
(* new_sdr_entry loops for ever.  Nothing happens after a fault.         *)
(***************************************************************************)
EXTENDS Integers, Sequences, SequencesExt

CONSTANTS
  IdBits,       \* width of record_id and next_entry (uint16_t)
  ConfigSdrs,   \* numbers of SDRs the configuration may add at start-up
  TimeBits,     \* width of the times on the wire (uint32)
  MaxTime,      \* bound on the wall clock, in seconds
  BootTimes,    \* wall-clock times at which ipmi_emu_add_mc may run
  MaxNumSdrs,   \* MAX_NUM_SDRS
  Fails,        \* outcomes of a malloc: FALSE (succeeds), TRUE (fails)
  ClearOps      \* the op bytes Clear SDR Repository requests carry

ASSUME IdBits \in 2..16 /\ ConfigSdrs \subseteq 0 .. 2^IdBits - 1
ASSUME TimeBits \in 1..16 /\ MaxTime \in Nat /\ BootTimes \subseteq 0..MaxTime
ASSUME MaxNumSdrs \in Nat \ {0} /\ Fails \subseteq BOOLEAN
ASSUME ClearOps \subseteq 0..255

VARIABLES
  sdrDevice,    \* mc->device_support & IPMI_DEVID_SDR_REPOSITORY_DEV
  sdrs,         \* mc->main_sdrs.sdrs: record ids, head first
  sdrCount,     \* mc->main_sdrs.sdr_count
  nextEntry,    \* mc->main_sdrs.next_entry
  freed,        \* the nodes main_sdrs.sdrs points to have been freed
  now,          \* the wall clock, t.tv_sec
  timeOffset,   \* mc->main_sdrs.time_offset (a long: no wrap)
  lastAddTime,  \* mc->main_sdrs.last_add_time (uint32_t)
  lastEraseTime,\* mc->main_sdrs.last_erase_time (uint32_t)
  timeSet,      \* history: the repository time last given, and when
  fault,        \* "none", "ub" or "hang"
  last          \* the last request handled and the response it got

store == <<sdrs, sdrCount, nextEntry, freed>>
times == <<timeOffset, lastAddTime, lastEraseTime, timeSet>>
vars  == <<sdrDevice, store, now, times, fault, last>>

NumIds == 2^IdBits
Ids    == 0 .. NumIds - 1
LastId == NumIds - 1             \* 0xffff
NoId   == -1
Hang   == -2

TimeRange == 2^TimeBits          \* 2^32
MAX_SDR_LENGTH == 261
SpaceClamp == 65534              \* 0xfffe

OK_CC                 == 0
LENGTH_INVALID_CC     == 128     \* 0x80, "Length is invalid"
INVALID_CMD_CC        == 193     \* 0xc1
OUT_OF_SPACE_CC       == 196     \* 0xc4
REQUEST_DATA_LENGTH_INVALID_CC == 199 \* 0xc7
PARAMETER_OUT_OF_RANGE_CC == 201 \* 0xc9
REQUESTED_DATA_LENGTH_EXCEEDED_CC == 202 \* 0xca
NOT_PRESENT_CC        == 203     \* 0xcb
INVALID_DATA_FIELD_CC == 204     \* 0xcc

\* Handlers gated by a main_sdrs.flags bit or by a modal mode.
FlagGated == {"GetSdrAllocInfo", "ReserveSdr", "PartialAddSdr",
              "EnterSdrUpdate", "ExitSdrUpdate"}
Cmds == FlagGated \cup {"GetSdrInfo", "GetSdr", "AddSdr", "DeleteSdr",
                        "ClearSdr", "GetSdrTime", "SetSdrTime"}
LengthChecked == {"GetSdr", "AddSdr", "DeleteSdr", "ClearSdr", "SetSdrTime"}

\* The response: completion code, the record id it names (id), the other
\* fields it carries (data) and the wall-clock time it was sent (at).
ReplyData(cmd, rid, cc, id, data) ==
  last' = [cmd |-> cmd, rid |-> rid, cc |-> cc, id |-> id, data |-> data,
           at |-> now]

Reply(cmd, rid, cc, id) == ReplyData(cmd, rid, cc, id, <<>>)

-----------------------------------------------------------------------------
(* Helpers of the code.                                                    *)

\* Mutant: next_entry++ computed without the 16-bit wrap.
IdIncNoWrap(x) == x + 1

IdInc(x) == (x + 1) % NumIds

InUse == Range(sdrs)

\* t.tv_sec + mc->main_sdrs.time_offset, as stored in a uint32_t or sent
\* by ipmi_set_uint32.
RepoTime == (now + timeOffset) % TimeRange

\* The free space of Get SDR Repository Info: MAX_SDR_LENGTH * (MAX_NUM_SDRS
\* - sdr_count) in unsigned int, clamped to 0xfffe.  Past MAX_NUM_SDRS the
\* difference wraps to at least 2^32 - 261 * 65535, above the clamp.
FreeSpace ==
  LET space == MAX_SDR_LENGTH * (MaxNumSdrs - sdrCount) IN
  IF space < 0 \/ space > SpaceClamp THEN SpaceClamp ELSE space

\* The entry a Get/Delete SDR request names (0: the first, 0xffff: the
\* last, else find_sdr_by_recid); 0 when there is none.
SdrIndex(rid) ==
  CASE rid = 0      -> IF sdrs = <<>> THEN 0 ELSE 1
    [] rid = LastId -> Len(sdrs)
    [] OTHER        -> SelectInSeq(sdrs, LAMBDA e : e = rid)

\* The "next record id" field of a Get SDR response.
NextIdField(i) == IF i < Len(sdrs) THEN sdrs[i+1] ELSE LastId

\* Mutant: the search that takes next_entry whether or not it is in use.
SdrProbeNoFind(n, start, k) == n

\* The id search of new_sdr_entry: while next_entry is in use, advance it,
\* jumping from 0xffff to 1, and give up on coming back to the start.  The
\* jump means that a start of 0 or 0xffff is never met again: after NumIds
\* probes the loop is cycling.
RECURSIVE SdrProbe(_, _, _)
SdrProbe(n, start, k) ==
  IF n \notin InUse THEN n
  ELSE LET n1 == IF IdInc(n) = LastId THEN 1 ELSE IdInc(n) IN
       CASE n1 = start  -> NoId
         [] k >= NumIds -> Hang
         [] OTHER       -> SdrProbe(n1, start, k + 1)

\* add_sdr_entry: link at the tail and count it.  sdr_count is a
\* uint16_t, as wide as a record id, and is scaled with the ids.
LinkSdr(id) ==
  /\ sdrs' = Append(sdrs, id)
  /\ sdrCount' = (sdrCount + 1) % NumIds

\* handle_delete_sdr: unlink, free, and sdr_count-- (uint16_t).
UnlinkSdr(i) ==
  /\ sdrs' = RemoveAt(sdrs, i)
  /\ sdrCount' = (sdrCount - 1) % NumIds

-----------------------------------------------------------------------------
(* The handlers.                                                           *)

\* Every SDR handler answers INVALID_CMD when the MC is not an SDR
\* repository device.
SdrNotSupported(cmd) ==
  /\ ~sdrDevice
  /\ Reply(cmd, 0, INVALID_CMD_CC, NoId)
  /\ UNCHANGED <<sdrDevice, store, now, times, fault>>

\* check_msg_length failing.
ShortRequest(cmd) ==
  /\ sdrDevice
  /\ Reply(cmd, 0, REQUEST_DATA_LENGTH_INVALID_CC, NoId)
  /\ UNCHANGED <<sdrDevice, store, now, times, fault>>

\* Handlers whose capability bit is never set: Get SDR Repository
\* Allocation Info, Reserve SDR Repository and Partial Add SDR test a
\* flags bit, Enter/Exit SDR Repository Update need a modal mode.
FlagNotSet(cmd) ==
  /\ sdrDevice
  /\ Reply(cmd, 0, INVALID_CMD_CC, NoId)
  /\ UNCHANGED <<sdrDevice, store, now, times, fault>>

\* handle_get_sdr_repository_alloc_info: no IPMI_SDR_GET_SDR_ALLOC_INFO bit.
GetSdrAllocInfo == FlagNotSet("GetSdrAllocInfo")

\* handle_reserve_sdr_repository: no IPMI_SDR_RESERVE_SDR_SUPPORTED bit, so
\* the reservation never moves and no partial add is ever dropped.
ReserveSdr == FlagNotSet("ReserveSdr")

\* handle_partial_add_sdr: no IPMI_SDR_PARTIAL_ADD_SDR_SUPPORTED bit, so
\* part_add_sdr and part_add_next are never touched.
PartialAddSdr == FlagNotSet("PartialAddSdr")

\* handle_enter_sdr_repository_update and handle_exit_sdr_repository_update:
\* the modal field is IPMI_SDR_MODAL_UNSPECIFIED, so in_update_mode stays 0
\* (and handle_add_sdr's NON_MODAL_ONLY test never rejects).
EnterSdrUpdate == FlagNotSet("EnterSdrUpdate")

ExitSdrUpdate == FlagNotSet("ExitSdrUpdate")

\* handle_get_sdr_repository_info: read only; the count, the free space
\* and the two time stamps (the version and flags bytes are constant).
GetSdrInfo ==
  /\ sdrDevice
  /\ ReplyData("GetSdrInfo", 0, OK_CC, NoId,
               <<sdrCount % 2^16, FreeSpace, lastAddTime, lastEraseTime>>)
  /\ UNCHANGED <<sdrDevice, store, now, times, fault>>

\* handle_get_sdr_repository_time.
GetSdrTime ==
  /\ sdrDevice
  /\ ReplyData("GetSdrTime", 0, OK_CC, NoId, <<RepoTime>>)
  /\ UNCHANGED <<sdrDevice, store, now, times, fault>>

\* handle_set_sdr_repository_time: time_offset = ipmi_get_uint32(data) -
\* t.tv_sec, in long arithmetic.  v is the uint32 the request carries.
SetSdrTime(v) ==
  /\ sdrDevice
  /\ timeOffset' = v - now
  /\ timeSet' = [v |-> v, at |-> now, by |-> "set"]
  /\ Reply("SetSdrTime", 0, OK_CC, NoId)
  /\ UNCHANGED <<sdrDevice, store, now, lastAddTime, lastEraseTime, fault>>

\* The wall clock moves on between two requests.
Tick ==
  /\ now < MaxTime
  /\ now' = now + 1
  /\ UNCHANGED <<sdrDevice, store, times, fault, last>>

\* handle_get_sdr.  offsetOk: the offset is below the record length;
\* fits: the clamped count plus 3 fits the response buffer.
GetSdr(rid, offsetOk, fits) ==
  /\ sdrDevice
  /\ \/ /\ freed
        /\ fault' = "ub" /\ UNCHANGED last
     \/ /\ ~freed
        /\ LET i == SdrIndex(rid) IN
             CASE i = 0     -> Reply("GetSdr", rid, NOT_PRESENT_CC, NoId)
               [] ~offsetOk -> Reply("GetSdr", rid, PARAMETER_OUT_OF_RANGE_CC, NoId)
               [] ~fits     -> Reply("GetSdr", rid, REQUESTED_DATA_LENGTH_EXCEEDED_CC, NoId)
               [] OTHER     -> Reply("GetSdr", rid, OK_CC, sdrs[i])
        /\ UNCHANGED fault
  /\ UNCHANGED <<sdrDevice, store, now, times>>

\* handle_add_sdr with new_sdr_entry and add_sdr_entry (which also stamps
\* last_add_time); lenOk: the request length matches its length byte;
\* fail1 and fail2, the outcomes of the two mallocs of new_sdr_entry.  A
\* failed malloc answers OUT_OF_SPACE with next_entry left at the id the
\* search found (the entry the second failure leaks is Emu's concern).
AddSdr(lenOk, fail1, fail2) ==
  /\ sdrDevice
  /\ \/ /\ ~lenOk
        /\ Reply("AddSdr", 0, LENGTH_INVALID_CC, NoId)
        /\ UNCHANGED <<store, lastAddTime, fault>>
     \/ /\ lenOk /\ freed
        /\ fault' = "ub"
        /\ UNCHANGED <<store, lastAddTime, last>>
     \/ /\ lenOk /\ ~freed
        /\ LET id == SdrProbe(nextEntry, nextEntry, 0) IN
             CASE id = Hang ->
                    /\ fault' = "hang"
                    /\ UNCHANGED <<store, lastAddTime, last>>
               [] id = NoId ->
                    /\ Reply("AddSdr", 0, OUT_OF_SPACE_CC, NoId)
                    /\ UNCHANGED <<store, lastAddTime, fault>>
               [] fail1 \/ fail2 ->
                    /\ nextEntry' = id
                    /\ Reply("AddSdr", 0, OUT_OF_SPACE_CC, NoId)
                    /\ UNCHANGED <<sdrs, sdrCount, freed, lastAddTime, fault>>
               [] OTHER ->
                    /\ LinkSdr(id)
                    /\ nextEntry' = IdInc(id)
                    /\ lastAddTime' = RepoTime
                    /\ Reply("AddSdr", 0, OK_CC, id)
                    /\ UNCHANGED <<freed, fault>>
  /\ UNCHANGED <<sdrDevice, now, timeOffset, lastEraseTime, timeSet>>

\* handle_delete_sdr.  The record id is read from rdata+2, the response
\* buffer, which holds whatever it held: garbage is that value, rid is the
\* id the request carried.
DeleteSdr(rid, garbage) ==
  /\ sdrDevice
  /\ \/ /\ freed
        /\ fault' = "ub"
        /\ UNCHANGED <<store, lastEraseTime, last>>
     \/ /\ ~freed
        /\ LET i == SdrIndex(garbage) IN
             IF i = 0
             THEN /\ Reply("DeleteSdr", rid, NOT_PRESENT_CC, NoId)
                  /\ UNCHANGED <<store, lastEraseTime>>
             ELSE /\ UnlinkSdr(i)
                  /\ lastEraseTime' = RepoTime
                  /\ Reply("DeleteSdr", rid, OK_CC, sdrs[i])
                  /\ UNCHANGED <<nextEntry, freed>>
        /\ UNCHANGED fault
  /\ UNCHANGED <<sdrDevice, now, timeOffset, lastAddTime, timeSet>>

\* handle_clear_sdr_repository; the erase (op 0) frees every node but
\* leaves main_sdrs.sdrs and sdr_count as they were.  Both accepted ops,
\* the status query 0xaa included, stamp last_erase_time.
ClearSdr(magicOk, op) ==
  /\ sdrDevice
  /\ \/ /\ ~magicOk \/ op \notin {0, 170}
        /\ Reply("ClearSdr", 0, INVALID_DATA_FIELD_CC, NoId)
        /\ UNCHANGED <<freed, lastEraseTime, fault>>
     \/ /\ magicOk /\ op = 170
        /\ lastEraseTime' = RepoTime
        /\ Reply("ClearSdr", 0, OK_CC, NoId)
        /\ UNCHANGED <<freed, fault>>
     \/ /\ magicOk /\ op = 0 /\ freed
        /\ fault' = "ub"
        /\ UNCHANGED <<freed, lastEraseTime, last>>
     \/ /\ magicOk /\ op = 0 /\ ~freed
        /\ freed' = (sdrs # <<>>)
        /\ lastEraseTime' = RepoTime
        /\ Reply("ClearSdr", 0, OK_CC, NoId)
        /\ UNCHANGED fault
  /\ UNCHANGED <<sdrDevice, sdrs, sdrCount, nextEntry, now, timeOffset,
                 lastAddTime, timeSet>>

-----------------------------------------------------------------------------

\* After ipmi_emu_add_mc (which zeroes main_sdrs, next_entry included, and
\* sets time_offset to the wall clock "to start the time at zero") and k
\* calls of ipmi_mc_add_main_sdr by the configuration in the same second,
\* which fail with ENOSYS on an MC that is not an SDR repository device.
\* timeSet records the time the comment intends: 0 at boot.
Init ==
  /\ sdrDevice \in BOOLEAN
  /\ now \in BootTimes
  /\ \E k \in ConfigSdrs :
       LET n == IF sdrDevice THEN k ELSE 0 IN
       /\ sdrs = [i \in 1 .. n |-> i - 1]
       /\ sdrCount = n
       /\ nextEntry = n
       /\ lastAddTime = IF n > 0 THEN (2 * now) % TimeRange ELSE 0
  /\ freed = FALSE
  /\ timeOffset = now
  /\ lastEraseTime = 0
  /\ timeSet = [v |-> 0, at |-> now, by |-> "start"]
  /\ fault = "none"
  /\ last = [cmd |-> "none", rid |-> 0, cc |-> OK_CC, id |-> NoId,
             data |-> <<>>, at |-> now]

Halted == fault # "none" /\ UNCHANGED vars

Next ==
  \/ Halted
  \/ fault = "none" /\
     \/ \E cmd \in Cmds : SdrNotSupported(cmd)
     \/ \E cmd \in LengthChecked : ShortRequest(cmd)
     \/ GetSdrAllocInfo \/ ReserveSdr \/ PartialAddSdr
     \/ EnterSdrUpdate \/ ExitSdrUpdate
     \/ GetSdrInfo
     \/ GetSdrTime
     \/ \E v \in 0 .. TimeRange - 1 : SetSdrTime(v)
     \/ Tick
     \/ \E rid \in Ids, o, f \in BOOLEAN : GetSdr(rid, o, f)
     \/ \E ok \in BOOLEAN, f1, f2 \in Fails : AddSdr(ok, f1, f2)
     \/ \E rid, g \in Ids : DeleteSdr(rid, g)
     \/ \E ok \in BOOLEAN, op \in ClearOps : ClearSdr(ok, op)

Spec == Init /\ [][Next]_vars

-----------------------------------------------------------------------------
(* Properties.                                                             *)

TypeOK ==
  /\ sdrDevice \in BOOLEAN
  /\ sdrs \in Seq(Ids) /\ sdrCount \in Ids /\ nextEntry \in Ids
  /\ freed \in BOOLEAN /\ fault \in {"none", "ub", "hang"}
  /\ now \in 0..MaxTime /\ timeOffset \in Int
  /\ {lastAddTime, lastEraseTime} \subseteq 0 .. TimeRange - 1
  /\ timeSet \in [v : 0 .. TimeRange - 1, at : 0..MaxTime,
                  by : {"start", "set"}]
  /\ last \in [cmd : Cmds \cup {"none"}, rid : Ids, cc : 0..255,
               id : {NoId} \cup Nat, data : Seq(Nat), at : 0..MaxTime]

\* No two records share a record id, however next_entry has wrapped (the
\* collision search of new_sdr_entry).
SdrIdsDistinct == IsInjective(sdrs)

\* The number of records the repository holds: none after an erase.
Records == IF freed THEN 0 ELSE Len(sdrs)

\* Spec section 3 (the SEL invariant count == length(entries), which the
\* SDR repository shares "same shape as SEL"): sdr_count, which
\* Get SDR Repository Info answers, is the number of records, through
\* add_sdr_entry's sdr_count++ (a uint16_t) and handle_delete_sdr's
\* sdr_count--, up to a repository using every record id.
SdrCountTracksList == sdrCount = Records

\* The comment of ipmi_emu_add_mc, "Start the time at zero": before any Set
\* SDR Repository Time, Get SDR Repository Time answers the seconds since
\* the MC was added.
SdrTimeStartsAtZero ==
  (last.cmd = "GetSdrTime" /\ last.cc = OK_CC /\ timeSet.by = "start")
    => last.data[1] = (last.at - timeSet.at) % TimeRange

\* Spec 4.2 and 4.3: the free space Get SDR Repository Info reports is the
\* room left for records of MAX_SDR_LENGTH below MAX_NUM_SDRS, none once
\* handle_add_sdr has gone past it.
SdrFreeSpaceSound ==
  (last.cmd = "GetSdrInfo" /\ last.cc = OK_CC)
    => last.data[2] <= MAX_SDR_LENGTH *
                       (IF Records < MaxNumSdrs THEN MaxNumSdrs - Records ELSE 0)

\* Spec 8.5: record-id allocation never returns 0 (here: no record of the
\* repository has id 0).
SdrIdsNonzero == 0 \notin InUse

RECURSIVE WalkFrom(_, _)
WalkFrom(rid, k) ==
  LET i == SdrIndex(rid) IN
  IF k = 0 \/ i = 0 THEN {}
  ELSE {sdrs[i]} \cup
       (IF NextIdField(i) = LastId THEN {} ELSE WalkFrom(NextIdField(i), k - 1))

\* Spec 4.3: allocation skips 0 and 0xffff, so a reader starting at record
\* 0 and following the next-record-id field reaches every record.
SdrWalkComplete == ~freed => WalkFrom(0, Len(sdrs)) = InUse

\* Spec 9: the id allocation loop is bounded and ends in out-of-space;
\* new_sdr_entry never loops for ever.
SdrAllocTerminates == fault # "hang"

\* Spec 4.3 and 7: Clear drops the records; no handler reads a node that
\* handle_clear_sdr_repository freed.
SdrNoUseAfterFree == fault # "ub"

\* Spec 4.3: Delete SDR removes the record the request names.
DeleteSdrRemovesNamed ==
  (last.cmd = "DeleteSdr" /\ last.cc = OK_CC /\ last.rid \notin {0, LastId})
    => last.id = last.rid

=============================================================================
