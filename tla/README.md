# TLA+ models of the OpenIPMI LAN-server MC emulator

This directory models `src/lanserv/serv.c`, the emulator of IPMI
management controllers (MCs) behind the OpenIPMI LAN server, using TLA+
and the TLC model checker.

## The system

`ipmi_emu_handle_msg` (serv.c 2921-3019) is the single entry point. It runs
one request at a time, synchronously, with no threads and no callbacks.

1. It picks the target MC: the BMC, or for a bridged `SEND_MSG` the MC at
   the encapsulated IPMB address.
2. It dispatches on netfn and command to a handler.
3. The handler writes the response into `rdata`.
4. For `SEND_MSG`, it wraps the response in an IPMB header and checksum.

Each MC (`lmc_data_t`) owns several stores:

| Part | State in serv.c | Handlers |
|---|---|---|
| System Event Log | `mc->sel` (`sel_t`, linked list of `sel_entry_t`) | 483-970, `ipmi_mc_add_to_sel` |
| Main SDR repository | `mc->main_sdrs` (`sdrs_t`), `part_add_sdr`, `in_update_mode` | 972-1647 |
| Device SDR repositories | `mc->device_sdrs[4]` | 1977-2110 |
| FRU inventory | `mc->frus[]` | 1649-1786 |
| Sensors | `mc->sensors[4][]` | 2113-2820 |
| Power (OEM netfn 0x30) | `mc->power_value` | 2821-2908 |
| MC table | `emu->ipmb[128]`, `emu->bmc_mc` | 3021-3213 |

The stores interact in one place. A sensor state change (`check_thresholds`
or `set_bit`), or a power change, calls `do_event`. `do_event` appends a
record to the SEL of the MC named by `event_receiver`, which may be another
MC. Everything else stays inside a single MC.

Lines 66-269 connect the LAN server to a system interface: OEM
Get-Device-ID discovery and SMI responses. `src/ipmi_utils.c` holds
byte-order codecs and address helpers.

Requests from several LAN sessions interleave at the granularity of whole
requests. This is the concurrency that matters here, and it is what the SEL
reservation protocol guards against. Each model therefore has one action
per handler, and the actions interleave freely.

## Modules

### SelStore, MC_SelStore: the SEL of one MC

State:

- `entries`: the list, head first. A record is reduced to its id, its type,
  the request offset its event bytes were copied from, and its position in
  add order.
- `count`, `maxCount`, `flags`, `reservation` and `nextEntry`: the fields of
  `sel_t`.
- `freed`: true when `sel.entries` points at freed nodes.
- `last`: the last request and its response.

Init is the state after `ipmi_mc_enable_sel`. The flags are masked with 0xb,
so "overflow" is never set.

There is one action per Storage-netfn SEL handler: Get Info, Get Allocation
Info, Reserve, Get Entry, Add Entry, Delete Entry and Clear. There are also
actions for the "not a SEL device" and "request too short" early returns.
Each action follows the handler's guards in the order the code tests them.

`AllocSel` is the record-id search of `ipmi_mc_add_to_sel`. `EntryIndex` is
the 0 / 0xffff / `find_sel_event_by_recid` lookup.

A handler that walks freed nodes sets `ub`, after which the model stutters
(`Halted`). A use after free is undefined behaviour, and the model does not
guess what follows it.

### SelLog: what the SEL promises

`SelLog` is the abstract log of spec section 4.2. It is a sequence of
records with distinct ids, and it has four actions:

- `Add` appends a record with a fresh id.
- `Delete(rid)` removes the record that `rid` names (0 the first, 0xffff
  the last, else by id) and records `[rid, id]` in `deleted`.
- `Clear` empties the log.
- `Other` leaves it alone.

Capacity, reservations and failures are not in it: a refused request is
an `Other` step.

`SelStore` instantiates it with a refinement mapping:

- `AbsLog` is the list of (id, contents), or the empty log once the erase
  has freed the list.
- `AbsDeleted` is the id a successful Delete SEL Entry answered with.

`SelLogSpec == Abstract!Spec` is checked as a PROPERTY of `sel_safety`. It
states in one formula what separate invariants would state only in part:

- ids stay distinct;
- records keep their add order;
- a delete removes exactly the named record and answers with its id;
- an erase empties the log, and nothing later brings a freed record back.

### SdrStore, MC_SdrStore: the main SDR repository of one MC

State:

- `sdrs`: the record ids.
- `sdrCount`, `nextEntry` and `freed`.
- `fault`: `"ub"` for a use after free, `"hang"` for the endless id search.
- `now`: the wall clock (`gettimeofday`'s `tv_sec`), which `Tick` moves on
  between requests up to `MaxTime`.
- `timeOffset`, `lastAddTime`, `lastEraseTime`: the time fields of
  `main_sdrs`. The repository clock is `now + timeOffset`, sent as a
  `uint32` (`RepoTime`, `TimeBits` wide).
- `timeSet`: a history variable, the repository time last given and the
  wall clock at that moment: 0 at boot (what the comment of
  `ipmi_emu_add_mc` intends), then each Set SDR Repository Time.

`sdrCount` keeps the code's width: it is a 16-bit counter scaled, like the
record ids, to `IdBits`. The id search admits every id from 0 to 0xffff
(the skip of 0xffff happens only inside the search, and the increment
after an allocation has none), so a full id space holds one record more
than `sdr_count` can count. `AddSdr` also takes the outcomes of the two
mallocs of `new_sdr_entry` from `Fails`. A failed malloc answers
OUT_OF_SPACE, and `next_entry` keeps the id the search found.

Init is `ipmi_emu_add_mc` (which zeroes `main_sdrs` and sets `time_offset`
to the wall clock) followed by k calls of `ipmi_mc_add_main_sdr` from the
configuration, in the same second.

`GetSdrTime` and `SetSdrTime` are `handle_get/set_sdr_repository_time`.
`AddSdr` stamps `last_add_time` (in `add_sdr_entry`), `DeleteSdr` and both
accepted operations of `ClearSdr` stamp `last_erase_time`. `GetSdrInfo`
answers the count, the free space (`FreeSpace`: `MAX_SDR_LENGTH *
(MAX_NUM_SDRS - sdr_count)` in unsigned arithmetic, clamped to 0xfffe) and
both stamps.

`SdrView` (in `MC_SdrStore`) drops what no property of the run reads:
the two stamps, which reach only the Get SDR Repository Info answer, and
every answer but Get SDR Repository Time's.

**No code ever writes `main_sdrs.flags`.** It is zeroed, and `lmc_data_t` is
private to serv.c. As a result:

- Reserve SDR Repository, Partial Add SDR, Get Allocation Info and
  Enter/Exit Update always answer INVALID_CMD. They are modelled that way.
- The reservation checks of Get, Delete and Clear never apply.
- `handle_add_sdr`'s modal check never rejects.

The defects of the partial-add state machine are unreachable in this
program. They include the record id read from `rdata+2` at line 1355 and
`part_add_next`, which is never reset.

`SdrProbe` is the while loop of `new_sdr_entry`, including its 0xffff→1
jump. It returns `Hang` when it cycles without meeting its start again.

`DeleteSdr` reads the record id from the response buffer. The model takes
that id nondeterministically (`garbage`), because the buffer content is
undefined.

### SensorEvents, MC_SensorEvents: a sensor, power control and the event path

`SensorEvents` composes one threshold sensor of an MC, the MC's power value
and event receiver, and the SEL of the MC that receives its events.
`Sel == INSTANCE SelStore` brings in the SEL, and `ipmi_mc_add_to_sel` is
the pure operator `Sel!McAddToSel`. `do_event` folds it over the events of
one `check_thresholds` call (`DeliverAll`). Clients delete and erase records
of that SEL in between (`SelClient`).

Sensor state is the reading, the thresholds of the supported indices, both
hysteresis values, and the sets of event-status, assertion-enable and
deassertion-enable bits. `emitted` is a ghost: the events handed to
`ipmi_mc_add_to_sel` in the last step. `reply` is the last sensor-side
response.

The actions are:

- `SetValue`: `ipmi_mc_sensor_set_value`.
- `SetThresholds`, `SetHysteresis` and `SetEventEnable`: the Sensor-netfn
  handlers.
- `SetEventReceiver`.
- `SetPower`: `handle_set_power` with `ipmi_mc_set_power`.

`check_thresholds` is split into `AssertCond`/`ClearCond` (the two tests),
`EnableIndex` (the `i*2` / `i*2+1` index) and `ThresholdEvents`, which lists
the events in loop order.

`SetEventEnable` keeps the out-of-bounds writes. Rows are 15 entries long,
so mask bit 15 of the assertion row lands in `event_enabled[1][0]`, and bit
15 of the deassertion row in `event_status[0]`.

Init is `ipmi_mc_add_sensor` (reading 0, status clear) followed by the
configuration's setters, which evaluate nothing. `MC_SensorEvents`:

- uses thresholds 0 (lower non-critical) and 3 (upper non-critical);
- uses readings and thresholds 0..2 and hysteresis 0..1, enough for every
  assert, deassert and hysteresis-blocked case;
- gives a receiver SEL of one record, so two events of one step overflow it;
- tries two configurations: everything settable with per-event enables, or
  nothing settable with entire-sensor enables and no event generation;
- uses addresses 0x21 (masked to the receiver 0x20) and 0x22 (no MC there).

A `VIEW` leaves out the response and ghost variables. Every step writes
them and none reads them.

### Dispatcher, MC_Dispatcher: `ipmi_emu_handle_msg`

`Dispatcher` models one request through `ipmi_emu_handle_msg`
(serv.c 2909-3019). Its state is the last request (`msg`) and the response
bytes (`rdata`). `HandleMsg` is the whole function:

- A `SEND_MSG` request goes through `HandleSendMsg`. That is the length
  check, the channel check, the skip of a broadcast byte with its own
  length check, and the lookup of the responder (`slave >> 1`).
- The inner request is dispatched on its netfn (`Dispatch`: a routed netfn
  answers with any of `Responses`, any other with INVALID_CMD).
- `Wrap` then shifts the response by 7 and writes the IPMB response
  header. It adds the header checksum over `rdata[1..2]` and a trailing
  checksum over everything before it.
- A direct request is dispatched the same way. If the BMC has no MC, it
  is answered with 0xff.

The handlers are abstracted to their responses, since they have modules of
their own. Requests are built the way a client builds them (`Frame`), whole
or cut short. The MC has the BMC at 0x20 and an MC at 0x82. Frames go to
0x82, to 0x83 (the same table slot) and to 0x84 (no MC), under APP,
STORAGE and an unknown netfn. One response is chosen so that a wrapped
frame's bytes sum to 0 mod 256, which is the case where the checksum must
wrap.

`RdataCap` is the capacity `*rdata_len` has when the request is handed on.
The inner handler sizes its answer against it (for example
`handle_read_fru_data` refuses a count with `count + 2 > *rdata_len`), so
every `Responses` member fits it. `ResponseFitsBuffer` says the wrapped
answer fits as well. `MC_Dispatch_Overflow.cfg` adds an answer of exactly
12 bytes to the capacity 12.

### Codec: `ipmi_utils.c` and `ipmb_checksum`

`Codec` holds pure operators:

- `GetUint16`, `GetUint32`, `SetUint16` and `SetUint32` model
  `ipmi_utils.c`. A 32-bit unsigned value is represented by its bit pattern
  read as a 32-bit int.
- `IpmbChecksum` is the `uint8_t` negated sum.

They are checked against reference definitions (`LittleEndian16`,
`SumsToZero`). `CodecRoundTrip` holds over sample values at every edge:
0, 255/256, 0xffff/0x10000, INT_MAX, -1, -256 and INT_MIN.

`IpmiAddrEqual`, `IpmiAddrGetLun`, `IpmiAddrSetLun` and
`IpmiAddrGetSlaveAddr` are the `ipmi_addr_*` helpers. An address is a
record of its type's fields. `AddrHelpersAgree` checks them over 24 sample
addresses (IPMB, system interface and LAN types) against the fields of
each type: equality is field equality, `set_lun` then `get_lun` reads the
LUN back, and an unsupported LUN or type is EINVAL with nothing changed.
`ipmi_addr_equal` answers "unequal" for two identical addresses of any
other type, such as LAN. Nothing in `src/` calls these helpers, so no
spec statement says otherwise. The reference is therefore limited to the
two types they handle. `CodecOK` of the dispatch run includes the check. It also decodes the bit
fields of each wrapped response header (netFn | 1 with the requester's LUN,
rqSeq with the responder's LUN, rsSA and cmd) and compares them with those
of the request.

### FruStore, MC_FruStore: the FRU inventory of one MC

`FruStore` models `mc->frus` (serv.c 1649-1787): per device id a `length`
and a malloc'd `data` buffer, with `NULL` for none. `StorageRequest` is one
request of `handle_storage_netfn` to a FRU command, and answers what the
handler writes:

- `HandleGetFruInventoryAreaInfo` answers the length through `SetUint16`.
- `HandleReadFruData` refuses an offset at or past the end, clamps the
  count to the end, and refuses an answer that does not fit `RdataCap`
  (`*rdata_len`).
- `HandleWriteFruData` refuses data past the end; when it succeeds the
  action also copies the bytes (`FruCopy`, the `memcpy` from
  `msg->data + 3`).

`AddFruData` is `ipmi_mc_add_fru_data`, malloc failure included
(`AllocFails`). The old buffer is freed before the new malloc.

`FruArea` states what spec 4.4 promises: a zero-filled byte area per device,
read and written at a 16-bit offset, that a failed configuration call leaves
as it was. `FruStore` is checked to implement it
(`FruAreaSpec == Abstract!Spec`, with `AbsArea` the buffers and `AbsLast`
the result reduced to ok or error). The requests cover short requests,
device 255, offsets 0, 2, 3 and 256, counts 1, 2 and 255, and writes of 0 to
2 bytes. The areas have lengths 0 and 3, with data of 0, 1 and 4 bytes (too
long). The response capacity of 4 makes a read of 3 bytes too long for the
buffer.

### Emu, MC_Emu: the MC table and the configuration API

`Emu` models `emu_data_t` and how MCs are created and freed:

- `bmcMc` and `ipmb` (the slot table, `address >> 1`).
- `mcs`: the MC objects allocated so far, with their configuration.
- `alive`: the objects not freed.
- `owned[m][k]`: how many objects of kind k (SEL entry, SDR, device SDR,
  FRU buffer, sensor) were allocated for m and not freed. An MC keeps its
  row after it is freed, so what it still owns then is leaked.
- `lost`: an object was dropped with no pointer left to it.

The actions:

- `EmuAddMc` (with `McDestroy`) replaces the MC at a slot.
- `EmuSetBmcMc`, and `NoMc` for a failed `ipmi_emu_get_mc_by_addr`.
- The configuration calls that allocate: `McEnableSel`, `McAddToSel`
  (including the EAGAIN of the id search, which leaks its entry),
  `McAddMainSdr` and `McAddDeviceSdr` through `NewSdrEntry` (a failing
  second malloc leaks the entry), `McAddFruData` and `McAddSensor`.
- `HandleMsg`: the routing of `ipmi_emu_handle_msg` to the MC of a slot.

The contents of each repository are modelled in the modules above; here a
repository is a count. `MC_Emu` uses the addresses 0x20, 0x82 and 0x83 and
up to three MCs, so that both slots are filled and one is replaced. An MC
supports everything or nothing. The SEL is enabled with room for 2 entries
over an id space of 1, the scaled form of `max_entries` above 0xfffe, so the
id search runs out. `EmuView` leaves out `last`, and also `bmcMc`, which only
`HandleMsg` reads, and that action writes only `last`. A freed MC never
changes again, and the invariants ask only whether what it still owns is
zero. So `EmuView` keeps just that for a freed MC.

### DeviceSdr, MC_DeviceSdr: the device SDR repositories

`DeviceSdr` models the four per-LUN `device_sdrs` lists of an MC (two LUNs
in the model). Its state is:

- the record ids of each list, with `next_entry` and the reservation;
- `num_sensors_per_lun` (an `unsigned char`, `CountBits` wide);
- `lun_has_sensors`;
- the support bits, chosen in `Init`.

The actions:

- `AddDeviceSdr` is `ipmi_mc_add_device_sdr`. It includes the id search of
  `new_sdr_entry`, a search that never ends (the fault "hang", after which
  the model stutters), and the two mallocs. The search leaves
  `next_entry` at the id it found even when a malloc then fails.
- `GetDeviceSdrInfo`, `ReserveDeviceSdr` and `GetDeviceSdr` are the three
  Sensor/Event handlers (serv.c 1977-2111). The reservation is checked
  only under dynamic sensor population.

`MC_DeviceSdr.cfg` keeps the 8-bit count with 2-bit ids, so a LUN fills
its id space, but the count cannot wrap.
`MC_DeviceSdr_CountWrap.cfg` keeps the ratio of the two widths (3-bit ids,
a 2-bit count) and shows the wrap.

### Scaling

Record ids and reservations are `uint16_t`. The models keep them modular
but at `IdBits = 2` and `ResvBits = 2` bits. The arithmetic is the code's
(`% 2^w`) with the width reduced, so every wrap the code can reach
(0xffff→0, and the skips of 0 and 0xffff) happens within a few steps.

`MaxCounts = {2, 4}`. Since the SEL count never decreases, a maximum of 4
with 4 ids lets the ids wrap before the log is full. A maximum of 2
exercises the out-of-space path early.

`ConfigSdrs = {0, 2}` starts the repository empty or holding two configured
records.

Time is 2 bits wide on the wire (`TimeBits = 2`). The MC is added at wall
clock 1 (`BootTimes = {1}`), so its initial offset is not 0, and the clock
runs to `MaxTime = 2`. The repository clock therefore wraps past 3
through Set and Tick. `MAX_NUM_SDRS` keeps its value of 1024 in
`sdr_safety`. `MC_Sdr_FreeSpace.cfg` sets it to 2, below the three usable
ids, because `handle_add_sdr` has no limit of its own.

## Runs

| Run | Expect | What it shows |
|---|---|---|
| sel_safety | pass | The SEL handlers implement `SelLog` (`SelLogSpec`) through id wrap, deletes, erases and reservation wrap. Ids stay distinct, and a stale reservation changes nothing. 190k states. |
| sdr_safety | pass | Distinct record ids through the id wrap, deletes, erases and failed mallocs. 12k states distinct under `SdrView`. |
| sdr_count | violation | Two configured SDRs, then two adds: the fourth record uses the last id, and the 16-bit (here 2-bit) `sdr_count` wraps to 0 while the list holds four records. Spec section 3 says the count equals the length of the list. The run's clears carry only the op bytes 0xaa and 0x01, so that no erase intervenes before the wrap. |
| sdr_time | violation | At start-up Get SDR Repository Time answers 2 at wall clock 1, when the comment of `ipmi_emu_add_mc` ("Start the time at zero") says 0. `time_offset` is set to `tv_sec` instead of `-tv_sec`. The same line sets the SEL's and the device repositories' offsets. |
| sdr_alloc_hang | violation | With every id in use and `next_entry` at 0, `new_sdr_entry` loops for ever. |
| sensor_events | pass | After every value or threshold change, crossed thresholds are asserted. The receiver is handed exactly the enabled status changes, with IPMI's offsets. 256k states. |
| fru | pass | With malloc succeeding, the FRU handlers and `ipmi_mc_add_fru_data` implement `FruArea`: reads give back what was configured and written, clamped at the end of the area, with the error answers of spec 4.4. |
| emu | pass | However MCs are replaced and whichever mallocs fail, the MCs not freed are exactly those in the slot table, each in one slot. The SEL never holds more than `max_count`. 414k states (distinct under `EmuView`). |
| mc_leak | violation | Add an MC, give it a sensor, and add another MC at the same address: `ipmi_mc_destroy` frees only the SEL entries and the MC, so the sensor is leaked (spec 3 and 5 say the MC and all its children are destroyed). `ChildrenOwned` also catches the entry leaked by `ipmi_mc_add_to_sel`'s EAGAIN, by `new_sdr_entry`'s second malloc and by `ipmi_mc_enable_sel`. |
| dispatch_overflow | violation | An inner answer that fills the response buffer (12 bytes here) is wrapped by `SEND_MSG` into 20 bytes: the 8 bytes of the IPMB header and checksum are written past `rdata`. |
| device_sdr | pass | On two LUNs, through id exhaustion, the looping id search and malloc failures, device SDR ids stay distinct per LUN. 30k states. |
| dispatch | pass | A bridged `SEND_MSG` response is a valid IPMB frame with both checksums summing to 0. The inner request handed on lies within the frame, broadcast or not. The response header's netFn, LUN, rqSeq and cmd fields decode to the request's. The byte codecs round-trip, and the `ipmi_addr_*` helpers agree with the fields of each address type. |

Each violation corresponds to a finding in `PROJECT.json`.

Some findings are shown within one or two requests: a unit test would
reach them as well. Their configurations are kept beside the runs, and
TLC reports each property violated at once. Their findings in
`PROJECT.json` name no run.

| Configuration | What it shows |
|---|---|
| `MC_Sel_SelRoundTrip.cfg` | A system record's bytes come from request offset 10, not 7. |
| `MC_Sel_AddSelReturnsId.cfg` | Add SEL Entry answers without the record id. |
| `MC_Sdr_SdrIdsNonzero.cfg` | The first SDR gets record id 0 (in the initial state). |
| `MC_Sdr_SdrNoUseAfterFree.cfg` | Clear SDR Repository frees the list and leaves the pointer. |
| `MC_Sdr_CountWrap.cfg` | The configuration of the sdr_count run. |
| `MC_Sdr_DeleteSdrRemovesNamed.cfg` | Delete SDR removes the record named by the response buffer. |
| `MC_Sensor_EnableAnswers.cfg` | Set Sensor Event Enable with operation 0 writes no completion code. |
| `MC_Sel_SelCountMatches.cfg` | Delete leaves `sel.count` unchanged (add, delete). |
| `MC_Sensor_EnableOob.cfg` | Enable mask bit 15 of the deassertion row rewrites `event_status[0]`, so a status changes with no reading behind it (`StatusTransitionsJustified`). |
| `MC_Sensor_EventsStored.cfg` | Two events of one reading into a SEL with room for one: the second is lost. |
| `MC_Sensor_Monotone.cfg` | Thresholds from the configuration are never evaluated, so raising the reading from 0 sets a lower assertion (spec property 8). |
| `MC_Fru_FailedAdd.cfg` | An `ipmi_mc_add_fru_data` whose malloc fails after the old buffer was freed leaves no FRU area: `FruAreaSpec` is violated. |
| `MC_Sel_NoUseAfterFree.cfg` | Clear SEL frees the list and leaves the pointer (add, clear, clear). |
| `MC_DeviceSdr_CountWrap.cfg` | `num_sensors_per_lun` is 8 bits: past 255 device SDRs in a LUN, Get Device SDR Info reports the count modulo 256 (widths scaled; `PopulationReported`). |
| `MC_DeviceSdr_Walk.cfg` | The device repositories get record id 0xffff from the shared `new_sdr_entry`, so the next-record-id field says "last" one record early. |
| `MC_Sel_SelWalkComplete.cfg` | After the wrap, record id 0 is allocated, and the next-record-id walk from 0 loops back to the head. |
| `MC_Sdr_SdrWalkComplete.cfg` | `new_sdr_entry` hands out id 0xffff, which ends the walk early. |
| `MC_Sdr_FreeSpace.cfg` | With `MAX_NUM_SDRS` scaled to 2, a third add succeeds. Get SDR Repository Info then reports 0xfffe bytes free, because the unsigned difference wraps. |
| `MC_Dispatch_AppOnly.cfg` | A request with command 0x34 is unwrapped as `SEND_MSG` whatever its netfn, because the code tests only the command. That includes STORAGE, where spec 4.6 says APP. |

Each property of a passing run has a mutant: an operator defined just before the one it
replaces, which reproduces a plausible coding error (a dropped collision
check, a missing decrement, a missing wrap), and TLC detects it.

## Fairness

No liveness property is checked yet. The emulator is driven entirely by
incoming requests and promises nothing about progress between them. The one
progress question, whether the id search of `new_sdr_entry` terminates, is
a step that either returns or does not. It is therefore checked as the
safety property `SdrAllocTerminates`.

## Not modelled yet

The following are planned for later modules:

- SEL time (Get/Set SEL Time and the SEL's add and erase stamps). The
  handlers are line for line those of the SDR repository, which
  `SdrStore` checks. Adding a clock to `SelStore` would multiply the state
  space of the `sel_safety` refinement run, the heaviest run but one.
- `sensor_population_change_time` in Get Device SDR Info. It is stamped
  with the main repository's offset, and `DeviceSdr` has no clock.
- `set_bit` (discrete sensors) and the sensor Get handlers. The Get
  handlers only read, and `handle_get_sensor_reading` reads one byte past
  `event_status`, which affects only the reply.
- The `ipmi_mc_set_*` setters that store a field and allocate nothing.
- The FRU area length above 0xffff, which Get FRU Inventory Area Info
  truncates to 16 bits: an area that large is beyond enumeration.

The channel and OEM glue (lines 66-269), the utility header and the Perl
build file are listed in `PROJECT.json` with their reasons. So is the
uninitialised timestamp at line 558.

## Plan

1. **Discrete sensors.** `set_bit` in `SensorEvents`.
2. **SEL time**, once `sel_safety` has room for a clock.
