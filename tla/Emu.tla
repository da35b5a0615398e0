--------------------------------- MODULE Emu ---------------------------------
(***************************************************************************)
(* The emulator domain of src/lanserv/serv.c (emu_data_t: the BMC address  *)
(* and the table of MCs indexed by slave address >> 1), the configuration  *)
(* calls that create MCs and give them SEL entries, SDRs, FRU areas and    *)
(* sensors, and the routing of a request to an MC.                         *)
(*                                                                         *)
(* Memory is modelled by ownership: an MC object is alive from its malloc  *)
(* to its free, and owned[m][k] counts the objects of kind k allocated for *)
(* MC m and not freed, whether or not m is still alive.  lost records    *)
(* that an object was allocated and dropped without a free.  The         *)
(* contents of the repositories are modelled in SelStore, SdrStore,      *)
(* FruStore and SensorEvents; here a repository is the number of objects *)
(* it holds.                                                               *)
(* A malloc that fails is a nondeterministic outcome (Fails).              *)
(***************************************************************************)
EXTENDS Integers, FiniteSets, Functions, TLC

CONSTANTS
  Addrs,        \* slave addresses used by the configuration and requests
  Configs,      \* MC configurations: device support bits and device id
  MaxMcs,       \* bound on the MCs the configuration creates
  SelIdSpace,   \* record ids the SEL id search can hand out (0xffff)
  SelMax,       \* max_entries the SEL is enabled with
  MaxSdrs,      \* bound on the SDRs added per repository
  Fails         \* outcomes of a malloc: FALSE (succeeds), TRUE (fails)

ASSUME /\ Addrs \subseteq 0..255
       /\ MaxMcs \in Nat \ {0}
       /\ SelIdSpace \in Nat /\ SelMax \in Nat /\ MaxSdrs \in Nat
       /\ Fails \subseteq BOOLEAN

VARIABLES
  bmcMc,        \* emu->bmc_mc
  ipmb,         \* emu->ipmb[slot]: an MC object, or NULL
  mcs,          \* the MC objects allocated so far: id -> configuration
  alive,        \* the MC objects not freed
  selMax,       \* mc->sel.max_count, per MC object
  owned,        \* owned[m][k]: objects of kind k allocated for m, not freed
  lost,         \* an object was allocated and dropped without a free
  last          \* the last call or request and its result

vars == <<bmcMc, ipmb, mcs, alive, selMax, owned, lost, last>>

NULL  == 0
McIds == 1..MaxMcs
Slots == {a \div 2 : a \in Addrs \cup {0}}
Kinds == {"sel", "sdr", "devsdr", "fru", "sensor"}

NoneOwned == [k \in Kinds |-> 0]

Result(op, a, rv) == last' = [op |-> op, addr |-> a, rv |-> rv]

\* ipmi_emu_get_mc_by_addr, by which the configuration finds the MC a call
\* is for: EINVAL for an odd address, ENOSYS for an empty slot.
McAt(a) == IF a % 2 = 1 THEN NULL ELSE ipmb[a \div 2]

GetMcByAddrRv(a) ==
  CASE a % 2 = 1             -> "EINVAL"
    [] ipmb[a \div 2] = NULL -> "ENOSYS"
    [] OTHER                 -> "ok"

-----------------------------------------------------------------------------
(* The MC table.                                                           *)

\* Mutant: the MC at the slot is not destroyed at all.
McDestroyNone(heap, m) == heap

\* ipmi_mc_destroy on heap = [alive, owned]: free every SEL entry, then
\* the MC.  The SDR lists, device SDR lists, FRU buffers, sensors and the
\* partial-add SDR the MC owns are not freed.
McDestroy(heap, m) ==
  [heap EXCEPT !.alive = @ \ {m}, !.owned[m]["sel"] = 0]

\* ipmi_emu_add_mc: an odd address is refused; otherwise a new, zeroed MC
\* is allocated, and installed in its slot after the MC there is
\* destroyed.
EmuAddMc(a, c, fail) ==
  LET n    == Cardinality(DOMAIN mcs) + 1
      old  == ipmb[a \div 2]
      heap == [alive |-> alive \cup {n}, owned |-> owned @@ (n :> NoneOwned)]
      next == IF old = NULL THEN heap ELSE McDestroy(heap, old)
  IN /\ CASE a % 2 = 1 ->
               /\ Result("AddMc", a, "EINVAL")
               /\ UNCHANGED <<ipmb, mcs, alive, selMax, owned>>
          [] fail ->
               /\ Result("AddMc", a, "ENOMEM")
               /\ UNCHANGED <<ipmb, mcs, alive, selMax, owned>>
          [] OTHER ->
               /\ n <= MaxMcs
               /\ mcs' = mcs @@ (n :> c)
               /\ selMax' = selMax @@ (n :> 0)
               /\ alive' = next.alive
               /\ owned' = next.owned
               /\ ipmb' = [ipmb EXCEPT ![a \div 2] = n]
               /\ Result("AddMc", a, "ok")
     /\ UNCHANGED <<bmcMc, lost>>

\* ipmi_emu_set_bmc_mc.
EmuSetBmcMc(a) ==
  /\ IF a % 2 = 1 THEN Result("SetBmcMc", a, "EINVAL") /\ UNCHANGED bmcMc
     ELSE bmcMc' = a /\ Result("SetBmcMc", a, "ok")
  /\ UNCHANGED <<ipmb, mcs, alive, selMax, owned, lost>>

-----------------------------------------------------------------------------
(* The configuration calls on one MC, found by ipmi_emu_get_mc_by_addr.    *)

\* The lookup fails: the call is not made.
NoMc(a) ==
  /\ GetMcByAddrRv(a) # "ok"
  /\ Result("GetMcByAddr", a, GetMcByAddrRv(a))
  /\ UNCHANGED <<bmcMc, ipmb, mcs, alive, selMax, owned, lost>>

\* A call on the MC at a that changes what it owns and its result rv.
Owns(a, k, n, rv) ==
  /\ owned' = [owned EXCEPT ![McAt(a)][k] = n]
  /\ Result(k, a, rv)
  /\ UNCHANGED <<bmcMc, ipmb, mcs, alive, selMax>>

\* ipmi_mc_enable_sel: the list head is set to NULL and count to 0; the
\* entries it held are no longer reachable.
McEnableSel(a) ==
  LET m == McAt(a) IN
  /\ m # NULL
  /\ selMax' = [selMax EXCEPT ![m] = SelMax]
  /\ lost' = (lost \/ owned[m]["sel"] > 0)
  /\ owned' = [owned EXCEPT ![m]["sel"] = 0]
  /\ Result("EnableSel", a, "ok")
  /\ UNCHANGED <<bmcMc, ipmb, mcs, alive>>

\* Mutant: the max_count check left out.
McAddToSelNoMax(a, fail) ==
  LET m == McAt(a)
      n == owned[m]["sel"]
  IN /\ m # NULL
     /\ CASE ~mcs[m].sel         -> Owns(a, "sel", n, "ENOTSUP") /\ UNCHANGED lost
          [] fail                 -> Owns(a, "sel", n, "ENOMEM") /\ UNCHANGED lost
          [] n >= SelIdSpace      -> Owns(a, "sel", n, "EAGAIN") /\ lost' = TRUE
          [] OTHER                -> Owns(a, "sel", n + 1, "ok") /\ UNCHANGED lost

\* ipmi_mc_add_to_sel, as the configuration, handle_add_sel_entry and
\* do_event call it.  No entry is deleted here, so sel.count is the number
\* of entries; the id search fails when every id it can hand out is in
\* use (SelStore), and returns EAGAIN without freeing the new entry.
McAddToSel(a, fail) ==
  LET m == McAt(a)
      n == owned[m]["sel"]
  IN /\ m # NULL
     /\ CASE ~mcs[m].sel         -> Owns(a, "sel", n, "ENOTSUP") /\ UNCHANGED lost
          [] n >= selMax[m]       -> Owns(a, "sel", n, "EAGAIN") /\ UNCHANGED lost
          [] fail                 -> Owns(a, "sel", n, "ENOMEM") /\ UNCHANGED lost
          [] n >= SelIdSpace      -> Owns(a, "sel", n, "EAGAIN") /\ lost' = TRUE
          [] OTHER                -> Owns(a, "sel", n + 1, "ok") /\ UNCHANGED lost

\* new_sdr_entry and add_sdr_entry, for a repository of kind k: the entry
\* is allocated, then its data; when the second malloc fails the entry is
\* dropped without a free.  The id search always succeeds below MaxSdrs
\* (it is modelled in SdrStore).
NewSdrEntry(a, k, fail1, fail2) ==
  LET n == owned[McAt(a)][k] IN
  /\ n < MaxSdrs
  /\ CASE fail1 -> Owns(a, k, n, "ENOMEM") /\ UNCHANGED lost
       [] fail2 -> Owns(a, k, n, "ENOMEM") /\ lost' = TRUE
       [] OTHER -> Owns(a, k, n + 1, "ok") /\ UNCHANGED lost

\* ipmi_mc_add_main_sdr.
McAddMainSdr(a, fail1, fail2) ==
  LET m == McAt(a) IN
  /\ m # NULL
  /\ IF ~mcs[m].sdr THEN Owns(a, "sdr", owned[m]["sdr"], "ENOSYS") /\ UNCHANGED lost
     ELSE NewSdrEntry(a, "sdr", fail1, fail2)

\* ipmi_mc_add_device_sdr, for LUN 0.
McAddDeviceSdr(a, fail1, fail2) ==
  LET m == McAt(a) IN
  /\ m # NULL
  /\ IF ~mcs[m].hasDeviceSdrs
     THEN Owns(a, "devsdr", owned[m]["devsdr"], "ENOSYS") /\ UNCHANGED lost
     ELSE NewSdrEntry(a, "devsdr", fail1, fail2)

\* ipmi_mc_add_fru_data for one device id: the old buffer is freed before
\* the new one is allocated.
McAddFruData(a, fail) ==
  LET m == McAt(a) IN
  /\ m # NULL
  /\ UNCHANGED lost
  /\ CASE ~mcs[m].fru -> Owns(a, "fru", owned[m]["fru"], "ENOSYS")
       [] fail         -> Owns(a, "fru", 0, "ENOMEM")
       [] OTHER        -> Owns(a, "fru", 1, "ok")

\* ipmi_mc_add_sensor for one LUN and sensor number.
McAddSensor(a, fail) ==
  LET m == McAt(a) IN
  /\ m # NULL
  /\ UNCHANGED lost
  /\ CASE owned[m]["sensor"] = 1 -> Owns(a, "sensor", 1, "EINVAL")
       [] fail                    -> Owns(a, "sensor", 0, "ENOMEM")
       [] OTHER                   -> Owns(a, "sensor", 1, "ok")

-----------------------------------------------------------------------------
(* Requests.                                                               *)

\* The MC ipmi_emu_handle_msg hands a request to: for a direct request the
\* MC at emu->bmc_mc (0xff when there is none), for SEND_MSG the MC at the
\* frame's responder address (0x83 when there is none).  Get Device ID
\* reads the MC's fields.
HandleMsg(a, bridged) ==
  LET to == IF bridged THEN a ELSE bmcMc
      m  == ipmb[to \div 2]
  IN /\ last' = [op |-> "GetDeviceId", addr |-> to, mc |-> m,
                 rv |-> IF m # NULL THEN "ok" ELSE IF bridged THEN "NAK" ELSE "UNSPECIFIED"]
     /\ UNCHANGED <<bmcMc, ipmb, mcs, alive, selMax, owned, lost>>

-----------------------------------------------------------------------------

Init ==
  /\ bmcMc = 0
  /\ ipmb = [s \in Slots |-> NULL]
  /\ mcs = [m \in {} |-> 0]
  /\ alive = {}
  /\ selMax = [m \in {} |-> 0]
  /\ owned = [m \in {} |-> NoneOwned]
  /\ lost = FALSE
  /\ last = [op |-> "none", addr |-> 0, rv |-> "none"]

Next ==
  \/ \E a \in Addrs, c \in Configs, f \in Fails : EmuAddMc(a, c, f)
  \/ \E a \in Addrs : EmuSetBmcMc(a) \/ NoMc(a) \/ McEnableSel(a)
  \/ \E a \in Addrs, f \in Fails :
       McAddToSel(a, f) \/ McAddFruData(a, f) \/ McAddSensor(a, f)
  \/ \E a \in Addrs, f1, f2 \in Fails :
       McAddMainSdr(a, f1, f2) \/ McAddDeviceSdr(a, f1, f2)
  \/ \E a \in Addrs, b \in BOOLEAN : HandleMsg(a, b)

Spec == Init /\ [][Next]_vars

-----------------------------------------------------------------------------
(* Properties                                                              *)

\* The types of the emulator state, and the SEL of every MC holding no more
\* entries than the max_count ipmi_mc_add_to_sel checks against (none
\* before ipmi_mc_enable_sel).
TypeOK ==
  /\ bmcMc \in Addrs \cup {0}
  /\ ipmb \in [Slots -> (DOMAIN mcs) \cup {NULL}]
  /\ DOMAIN mcs \subseteq McIds /\ alive \subseteq DOMAIN mcs
  /\ \A m \in DOMAIN mcs : \A k \in Kinds : owned[m][k] \in Nat
  /\ \A m \in DOMAIN mcs : owned[m]["sel"] <= selMax[m]
  /\ lost \in BOOLEAN

\* Spec 3: an MC slot is either empty or owns exactly one MC.  The MCs
\* not freed are exactly those in the table, each in one slot, however
\* ipmi_emu_add_mc calls replace one another; so every request is handed
\* to an MC that is alive.
SlotsOwnMcs ==
  /\ alive = Range(ipmb) \ {NULL}
  /\ \A s, t \in Slots : ipmb[s] = ipmb[t] /\ ipmb[s] # NULL => s = t

\* The state TLC compares.  last is written by every step and read by no
\* invariant; bmcMc is read only by HandleMsg, which writes only last.  A
\* freed MC is never changed again and the invariants ask only whether
\* what it still owns is zero, so its configuration, SEL size and counts
\* are reduced to that.
EmuView ==
  <<ipmb, alive, lost, DOMAIN mcs,
    [m \in alive |-> <<mcs[m], selMax[m], owned[m]>>],
    [m \in DOMAIN mcs \ alive |-> [k \in Kinds |-> owned[m][k] > 0]]>>

\* Spec 5 (memory discipline): every record is owned by its repository,
\* and replacing an MC at a slot destroys it and all its children.  No
\* object is dropped without a free, and no SDR, FRU area or sensor of a
\* replaced MC survives it.
ChildrenOwned ==
  /\ ~lost
  /\ \A m \in DOMAIN mcs \ alive : \A k \in Kinds : owned[m][k] = 0

=============================================================================
