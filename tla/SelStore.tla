------------------------------ MODULE SelStore ------------------------------
(***************************************************************************)
(* The System Event Log (SEL) of one emulated management controller, as    *)
(* kept by the BMC emulator in src/lanserv/serv.c (the emu.c part): the    *)
(* sel_t of an lmc_data_t and the Storage-netfn handlers that act on it.   *)
(*                                                                         *)
(* The linked list mc->sel.entries is a sequence of records; the 16 data  *)
(* bytes of a record are abstracted to its id, its record type and the    *)
(* offset, in the caller's buffer, of the byte that lands at record byte  *)
(* 7 (what the copy in ipmi_mc_add_to_sel does).  Ids and the reservation  *)
(* are unsigned counters of width IdBits and ResvBits (16 in the code).   *)
(*                                                                         *)
(* Every handler is one action whose disjuncts are its outcomes, in the   *)
(* order of the code's early returns.  A step that would read memory the  *)
(* code has already freed sets ub; nothing happens after it.              *)
(***************************************************************************)
EXTENDS Integers, Sequences, SequencesExt

CONSTANTS
  IdBits,       \* width of record_id and next_entry (uint16_t)
  ResvBits,     \* width of the reservation (uint16_t)
  MaxCounts,    \* the max_entries values the configuration may give
  RecordTypes   \* record types carried by Add SEL Entry requests

ASSUME IdBits \in 2..16 /\ ResvBits \in 1..16
ASSUME MaxCounts \subseteq Nat /\ RecordTypes \subseteq 0..255

VARIABLES
  selDevice,    \* mc->device_support & IPMI_DEVID_SEL_DEVICE
  entries,      \* mc->sel.entries, head first
  count,        \* mc->sel.count
  maxCount,     \* mc->sel.max_count
  flags,        \* mc->sel.flags, as the set of its bits' names
  reservation,  \* mc->sel.reservation
  nextEntry,    \* mc->sel.next_entry
  freed,        \* the nodes mc->sel.entries points to have been freed
  adds,         \* ghost: number of records appended so far
  last,         \* the last request handled and the response it got
  ub            \* a step read freed memory: behaviour is undefined

store == <<entries, count, maxCount, flags, reservation, nextEntry, freed, adds>>
vars  == <<selDevice, store, last, ub>>

NumIds   == 2^IdBits
Ids      == 0 .. NumIds - 1
LastId   == NumIds - 1            \* 0xffff: "the last record"
Resvs    == 0 .. 2^ResvBits - 1
NoId     == -1                    \* no record id in the response

\* Completion codes of include/OpenIPMI/ipmi_err.h.
OK_CC                == 0
OUT_OF_SPACE_CC      == 196       \* 0xc4
INVALID_RESERVATION_CC == 197     \* 0xc5
NOT_PRESENT_CC       == 203       \* 0xcb
INVALID_DATA_FIELD_CC == 204      \* 0xcc
INVALID_CMD_CC       == 193       \* 0xc1
REQUEST_DATA_LENGTH_INVALID_CC == 199 \* 0xc7

Cmds == {"GetSelInfo", "GetSelAllocInfo", "ReserveSel", "GetSelEntry",
         "AddSelEntry", "DeleteSelEntry", "ClearSel"}
\* Commands whose handler calls check_msg_length.
LengthChecked == {"GetSelEntry", "AddSelEntry", "DeleteSelEntry", "ClearSel"}

Entry == [id : Ids, type : RecordTypes, from : 0..32, n : Nat]

Reply(cmd, res, rid, cc, id) ==
  last' = [cmd |-> cmd, res |-> res, rid |-> rid, cc |-> cc, id |-> id]

-----------------------------------------------------------------------------
(* Helpers of the code.                                                    *)

\* Mutant: next_entry++ computed without the 16-bit wrap.
IdIncNoWrap(x) == x + 1

\* A 16-bit increment (uint16_t ++).
IdInc(x) == (x + 1) % NumIds

\* handle_reserve_sel: reservation++ and once more if it wrapped to 0.
NextReservation(r) ==
  LET r1 == (r + 1) % 2^ResvBits IN IF r1 = 0 THEN r1 + 1 ELSE r1

\* Mutant: a handler that forgets the reservation test.
ResvRejectsDropped(res) == FALSE

\* The reservation test of the reserved commands: a nonzero reservation
\* that is not the current one is refused when RESERVE is supported.
ResvRejects(res) ==
  "reserve" \in flags /\ res # 0 /\ res # reservation

\* find_sel_event_by_recid and the 0 / 0xffff cases of the handlers: the
\* index of the entry a request names, 0 when there is none.
EntryIndex(rid) ==
  CASE rid = 0      -> IF entries = <<>> THEN 0 ELSE 1
    [] rid = LastId -> Len(entries)
    [] OTHER        -> SelectInSeq(entries, LAMBDA e : e.id = rid)

\* The "next record id" field of a Get SEL Entry response.
NextIdField(i) == IF i < Len(entries) THEN entries[i+1].id ELSE LastId

InUse == {entries[i].id : i \in DOMAIN entries}

\* The part of the SEL that ipmi_mc_add_to_sel changes, as a record, so
\* that one step can add several records (check_thresholds may emit an
\* event per threshold).  rv is the function's result, id the new record.
Log == [entries |-> entries, count |-> count, nextEntry |-> nextEntry,
        adds |-> adds, ub |-> ub, rv |-> "none", id |-> NoId]

SetLog(l) ==
  /\ entries' = l.entries /\ count' = l.count /\ nextEntry' = l.nextEntry
  /\ adds' = l.adds /\ ub' = l.ub

IdsOf(es) == {es[i].id : i \in DOMAIN es}

\* Mutant: allocation that only skips next_entry == 0, never a used id.
RECURSIVE AllocSelNoFind(_, _, _)
AllocSelNoFind(used, rid, start) ==
  IF IdInc(rid) = 0
  THEN IF IdInc(rid) = start THEN NoId
       ELSE AllocSelNoFind(used, IdInc(rid), start)
  ELSE rid

\* Allocation of ipmi_mc_add_to_sel: record_id starts at next_entry, and
\* record_id and next_entry = record_id + 1 advance together while
\* next_entry is 0 or record_id is in use; coming back to the start fails
\* and leaves next_entry where it was.
RECURSIVE AllocSel(_, _, _)
AllocSel(used, rid, start) ==
  IF IdInc(rid) = 0 \/ rid \in used
  THEN IF IdInc(rid) = start THEN NoId ELSE AllocSel(used, IdInc(rid), start)
  ELSE rid

\* handle_add_sel_entry passes the request bytes from offset 6 for a
\* system event record (type < 0xe0) and from offset 3 for an OEM one;
\* ipmi_mc_add_to_sel copies record byte 7 from event+4 for a system
\* record, from event+4 as well for an OEM one (it copies event[0..12] to
\* bytes 3..15).
EventOffset(type) == IF type < 224 THEN 6 ELSE 3

\* The new record; from is the offset, in the buffer handed to
\* ipmi_mc_add_to_sel's caller, of the byte stored at record byte 7.
NewEntry(l, id, type, from) == [id |-> id, type |-> type, from |-> from,
                                n |-> l.adds + 1]

\* Mutant: the new record linked at the head instead of the tail.
AddToSelAtHead(l, id, type, from) == <<NewEntry(l, id, type, from)>> \o l.entries

\* The tail walk of ipmi_mc_add_to_sel.
AddToSel(l, id, type, from) == Append(l.entries, NewEntry(l, id, type, from))

\* ipmi_mc_add_to_sel(mc, type, event) on the log l.  The id search walks
\* the list, so it reads freed nodes after an erase.
McAddToSel(l, type, from) ==
  CASE ~selDevice          -> [l EXCEPT !.rv = "ENOTSUP"]
    [] l.count >= maxCount -> [l EXCEPT !.rv = "EAGAIN"]
    [] freed               -> [l EXCEPT !.rv = "ub", !.ub = TRUE]
    [] OTHER ->
         LET id == AllocSel(IdsOf(l.entries), l.nextEntry, l.nextEntry) IN
         IF id = NoId THEN [l EXCEPT !.rv = "EAGAIN"]
         ELSE [l EXCEPT !.entries = AddToSel(l, id, type, from),
                        !.count = @ + 1, !.nextEntry = IdInc(id),
                        !.adds = @ + 1, !.rv = "ok", !.id = id]

-----------------------------------------------------------------------------
(* The handlers.                                                           *)

\* handle_invalid_cmd, as every SEL handler calls it when the MC is not a
\* SEL device.
SelNotSupported(cmd) ==
  /\ ~selDevice
  /\ Reply(cmd, 0, 0, INVALID_CMD_CC, NoId)
  /\ UNCHANGED <<selDevice, store, ub>>

\* check_msg_length failing: a request shorter than the handler needs.
ShortRequest(cmd) ==
  /\ selDevice
  /\ cmd = "DeleteSelEntry" => "delete" \in flags
  /\ Reply(cmd, 0, 0, REQUEST_DATA_LENGTH_INVALID_CC, NoId)
  /\ UNCHANGED <<selDevice, store, ub>>

\* handle_get_sel_info: the response reports count; the overflow bit is
\* cleared as a side effect.
GetSelInfo ==
  /\ selDevice
  /\ flags' = flags \ {"overflow"}
  /\ Reply("GetSelInfo", 0, 0, OK_CC, count)
  /\ UNCHANGED <<selDevice, entries, count, maxCount, reservation,
                 nextEntry, freed, adds, ub>>

\* handle_get_sel_allocation_info: read only.
GetSelAllocInfo ==
  /\ selDevice
  /\ IF "alloc" \in flags
     THEN Reply("GetSelAllocInfo", 0, 0, OK_CC, maxCount - count)
     ELSE Reply("GetSelAllocInfo", 0, 0, INVALID_CMD_CC, NoId)
  /\ UNCHANGED <<selDevice, store, ub>>

\* handle_reserve_sel.
ReserveSel ==
  /\ selDevice
  /\ \/ /\ "reserve" \notin flags
        /\ Reply("ReserveSel", 0, 0, INVALID_CMD_CC, NoId)
        /\ UNCHANGED reservation
     \/ /\ "reserve" \in flags
        /\ reservation' = NextReservation(reservation)
        /\ Reply("ReserveSel", 0, 0, OK_CC, reservation')
  /\ UNCHANGED <<selDevice, entries, count, maxCount, flags, nextEntry,
                 freed, adds, ub>>

\* handle_get_sel_entry; offsetOk is whether the offset byte is < 16.
GetSelEntry(res, rid, offsetOk) ==
  /\ selDevice
  /\ \/ /\ ResvRejects(res)
        /\ Reply("GetSelEntry", res, rid, INVALID_RESERVATION_CC, NoId)
        /\ UNCHANGED ub
     \/ /\ ~ResvRejects(res) /\ ~offsetOk
        /\ Reply("GetSelEntry", res, rid, INVALID_DATA_FIELD_CC, NoId)
        /\ UNCHANGED ub
     \/ /\ ~ResvRejects(res) /\ offsetOk /\ freed
        /\ ub' = TRUE /\ UNCHANGED last
     \/ /\ ~ResvRejects(res) /\ offsetOk /\ ~freed
        /\ LET i == EntryIndex(rid) IN
             IF i = 0
             THEN Reply("GetSelEntry", res, rid, NOT_PRESENT_CC, NoId)
             ELSE Reply("GetSelEntry", res, rid, OK_CC, entries[i].id)
        /\ UNCHANGED ub
  /\ UNCHANGED <<selDevice, store>>

\* handle_add_sel_entry and the ipmi_mc_add_to_sel it calls.  EAGAIN, from
\* a full log or an exhausted id space, is OUT_OF_SPACE; on success the
\* response is the completion code alone.
AddSelEntry(type) ==
  /\ selDevice
  /\ LET l == McAddToSel(Log, type, EventOffset(type) + 4) IN
       /\ SetLog(l)
       /\ CASE l.rv = "ub" -> UNCHANGED last
            [] l.rv = "ok" -> Reply("AddSelEntry", 0, 0, OK_CC, NoId)
            [] OTHER       -> Reply("AddSelEntry", 0, 0, OUT_OF_SPACE_CC, NoId)
  /\ UNCHANGED <<selDevice, maxCount, flags, reservation, freed>>

\* handle_delete_sel_entry: unlinks and frees the entry; count is left.
DeleteSelEntry(res, rid) ==
  /\ selDevice
  /\ \/ /\ "delete" \notin flags
        /\ Reply("DeleteSelEntry", res, rid, INVALID_CMD_CC, NoId)
        /\ UNCHANGED <<entries, ub>>
     \/ /\ "delete" \in flags /\ ResvRejects(res)
        /\ Reply("DeleteSelEntry", res, rid, INVALID_RESERVATION_CC, NoId)
        /\ UNCHANGED <<entries, ub>>
     \/ /\ "delete" \in flags /\ ~ResvRejects(res) /\ freed
        /\ ub' = TRUE
        /\ UNCHANGED <<entries, last>>
     \/ /\ "delete" \in flags /\ ~ResvRejects(res) /\ ~freed
        /\ LET i == EntryIndex(rid) IN
             IF i = 0
             THEN /\ Reply("DeleteSelEntry", res, rid, NOT_PRESENT_CC, NoId)
                  /\ UNCHANGED entries
             ELSE /\ entries' = RemoveAt(entries, i)
                  /\ Reply("DeleteSelEntry", res, rid, OK_CC, entries[i].id)
        /\ UNCHANGED ub
  /\ UNCHANGED <<selDevice, count, maxCount, flags, reservation, nextEntry,
                 freed, adds>>

\* handle_clear_sel; magicOk is whether the request carries "CLR".  The
\* erase (op 0) frees every node but leaves sel.entries and sel.count.
ClearSel(res, magicOk, op) ==
  /\ selDevice
  /\ \/ /\ ResvRejects(res)
        /\ Reply("ClearSel", res, 0, INVALID_RESERVATION_CC, NoId)
        /\ UNCHANGED <<freed, ub>>
     \/ /\ ~ResvRejects(res) /\ (~magicOk \/ op \notin {0, 170})
        /\ Reply("ClearSel", res, 0, INVALID_DATA_FIELD_CC, NoId)
        /\ UNCHANGED <<freed, ub>>
     \/ /\ ~ResvRejects(res) /\ magicOk /\ op = 170
        /\ Reply("ClearSel", res, 0, OK_CC, NoId)
        /\ UNCHANGED <<freed, ub>>
     \/ /\ ~ResvRejects(res) /\ magicOk /\ op = 0 /\ freed
        /\ ub' = TRUE
        /\ UNCHANGED <<freed, last>>
     \/ /\ ~ResvRejects(res) /\ magicOk /\ op = 0 /\ ~freed
        /\ freed' = (entries # <<>>)
        /\ Reply("ClearSel", res, 0, OK_CC, NoId)
        /\ UNCHANGED ub
  /\ UNCHANGED <<selDevice, entries, count, maxCount, flags, reservation,
                 nextEntry, adds>>

-----------------------------------------------------------------------------

\* The state after ipmi_emu_add_mc and ipmi_mc_enable_sel: flags are
\* masked with 0xb (delete, reserve, get-alloc-info).
Init ==
  /\ selDevice \in BOOLEAN
  /\ entries = <<>>
  /\ count = 0
  /\ maxCount \in MaxCounts
  /\ flags \in SUBSET {"delete", "reserve", "alloc"}
  /\ reservation = 0
  /\ nextEntry = 1
  /\ freed = FALSE
  /\ adds = 0
  /\ last = [cmd |-> "none", res |-> 0, rid |-> 0, cc |-> OK_CC, id |-> NoId]
  /\ ub = FALSE

\* Once behaviour is undefined nothing more is modelled.
Halted == ub /\ UNCHANGED vars

Next ==
  \/ Halted
  \/ ~ub /\ \E cmd \in Cmds : SelNotSupported(cmd)
  \/ ~ub /\ \E cmd \in LengthChecked : ShortRequest(cmd)
  \/ ~ub /\ GetSelInfo
  \/ ~ub /\ GetSelAllocInfo
  \/ ~ub /\ ReserveSel
  \/ ~ub /\ \E res \in Resvs, rid \in Ids, ok \in BOOLEAN : GetSelEntry(res, rid, ok)
  \/ ~ub /\ \E type \in RecordTypes : AddSelEntry(type)
  \/ ~ub /\ \E res \in Resvs, rid \in Ids : DeleteSelEntry(res, rid)
  \/ ~ub /\ \E res \in Resvs, ok \in BOOLEAN, op \in {0, 170, 1} : ClearSel(res, ok, op)

Spec == Init /\ [][Next]_vars

-----------------------------------------------------------------------------
(* Properties.                                                             *)

TypeOK ==
  /\ selDevice \in BOOLEAN
  /\ entries \in Seq(Entry)
  /\ count \in Nat /\ maxCount \in MaxCounts
  /\ flags \subseteq {"delete", "reserve", "alloc", "overflow"}
  /\ reservation \in Resvs /\ nextEntry \in Ids
  /\ freed \in BOOLEAN /\ adds \in Nat /\ ub \in BOOLEAN
  /\ last \in [cmd : Cmds \cup {"none"}, res : Resvs, rid : Ids,
               cc : 0..255, id : {NoId} \cup Nat]

\* No two records of the log share a record id, however next_entry has
\* wrapped (the collision walk of ipmi_mc_add_to_sel).
SelIdsDistinct == IsInjective([i \in DOMAIN entries |-> entries[i].id])

\* The log the SEL presents to its clients: empty once Clear SEL has freed
\* the list (sel.entries still points at it), else the records in list
\* order, each with its id and contents.
AbsLog ==
  IF freed THEN <<>>
  ELSE [i \in DOMAIN entries |->
          [id |-> entries[i].id, rec |-> <<entries[i].type, entries[i].from>>]]

\* The record a successful Delete SEL Entry request named and removed.
AbsDeleted ==
  IF last.cmd = "DeleteSelEntry" /\ last.cc = OK_CC
  THEN [rid |-> last.rid, id |-> last.id] ELSE [rid |-> -1, id |-> -1]

Abstract == INSTANCE SelLog WITH log <- AbsLog, deleted <- AbsDeleted,
                                 Records <- RecordTypes \X {4, 7, 10}

\* The SEL handlers implement the abstract log of SelLog: Add SEL Entry
\* appends one record with a fresh id at the tail, Delete SEL Entry
\* removes exactly the record its request names (first, last or by id) and
\* answers with its id, leaving the others in order, the erase of Clear
\* SEL empties the log, and every other request leaves it alone.
SelLogSpec == Abstract!Spec

ReservedCmds == {"GetSelEntry", "DeleteSelEntry", "ClearSel"}

\* Spec 8.4: a reserved command given a nonzero reservation other than the
\* current one, on a log that supports reservations, changes nothing and
\* answers INVALID_RESERVATION.
ReservationGuardsMutation ==
  [][ ( /\ ~ub'
        /\ last'.cmd \in ReservedCmds /\ last'.cc # INVALID_CMD_CC
        /\ last'.cc # REQUEST_DATA_LENGTH_INVALID_CC
        /\ "reserve" \in flags /\ last'.res \notin {0, reservation} )
      => last'.cc = INVALID_RESERVATION_CC /\ UNCHANGED store ]_vars

\* Spec section 3: count equals the number of records in the log
\* (handle_delete_sel_entry and handle_clear_sel never decrement it).
SelCountMatches == count = Len(entries)

\* Spec 4.2: Clear drops every entry; no handler ever reads a node that
\* handle_clear_sel freed (it leaves sel.entries pointing at them).
NoUseAfterFree == ~ub

\* The ids the Get SEL Entry "next record id" field leads a reader to,
\* starting from record id 0 (the first entry), for at most k steps.
RECURSIVE WalkFrom(_, _)
WalkFrom(rid, k) ==
  LET i == EntryIndex(rid) IN
  IF k = 0 \/ i = 0 THEN {}
  ELSE {entries[i].id} \cup
       (IF NextIdField(i) = LastId THEN {} ELSE WalkFrom(NextIdField(i), k - 1))

\* Spec 8.5 and 4.3: allocation never hands out 0 or 0xffff, so a reader
\* that starts at record 0 and follows the next-record-id field reaches
\* every record of the log.
SelWalkComplete == ~freed => WalkFrom(0, Len(entries)) = InUse

\* Spec 8, round trip: a record read back carries the bytes its Add SEL
\* Entry request gave, so request byte 7 is record byte 7.
SelRoundTrip == \A i \in DOMAIN entries : entries[i].from = 7

\* Spec 4.2: a successful Add SEL Entry returns the new record id.
AddSelReturnsId ==
  (last.cmd = "AddSelEntry" /\ last.cc = OK_CC)
    => last.id = entries[Len(entries)].id

=============================================================================
