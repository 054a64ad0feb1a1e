-------------------------------- MODULE Hotplug --------------------------------
(***************************************************************************)
(* Modem detection: modeswitch.sh, proto.sh, the boot-time initialize.sh   *)
(* and the modem restart luci/restartrun.sh.                               *)
(*                                                                         *)
(* Every USB event starts a modeswitch.sh of its own in the background, so *)
(* the handlers of several events run concurrently.  They share the modem  *)
(* table (uci modem.modem<N>), the file /tmp/usbwait that is meant to let  *)
(* one add handler in at a time, and the file /tmp/proto through which     *)
(* proto.sh returns its result.  A handler that found a modem starts       *)
(* create_proto<N> (create_connect.sh), modelled here by what it does to   *)
(* the shared files; it goes on under the identity of its handler.         *)
(*                                                                         *)
(* A slot's `empty' flag and device are one variable: device[s] = NoDev    *)
(* is empty=1 (every reader of the device tests `empty' first).  PCIe      *)
(* modems (gotpcie, MHI, proto 91) are not modelled.                       *)
(***************************************************************************)
EXTENDS Naturals, FiniteSets

CONSTANTS Devices,     \* USB port names ($DEVICENAME)
          Kind,        \* what proto.sh makes of the device at each port
          Installed,   \* which of "camera", "printer" have their package installed
          MaxSlot,     \* MODCNTX: the modem table has slots 1..MaxSlot
          MaxEvents,   \* bound: number of USB events, and so of handlers
          GateTries,   \* how often an add handler polls usbwait (34 in the code)
          Restarters,  \* the restartrun.sh processes of a behaviour
          NoDev

\* "wdm" is QMI and MBIM, "net" every other modem protocol, "other" is retval 0.
\* "storage" has no switch data in /etc/usb-mode.json; a modem that shows up as a
\* storage device first has the kind it is switched to.
Kinds == {"hub", "camera", "printer", "storage", "other", "wdm", "net"}
NoKind == "none"
NoSlot == 0

ASSUME DevicesAssumption == NoDev \notin Devices
ASSUME KindAssumption == Kind \in [Devices -> Kinds]
ASSUME InstalledAssumption == Installed \subseteq {"camera", "printer"}
ASSUME BoundsAssumption == /\ MaxSlot \in Nat \ {0}
                           /\ MaxEvents \in Nat
                           /\ GateTries \in Nat

Slots == 1..MaxSlot
Handlers == 1..MaxEvents

VARIABLES files,       \* which of /tmp/bootend.file and /tmp/usbwait exist
          present,     \* the devices on the bus
          started,     \* number of events so far: handlers 1..started exist
          pc,          \* where each handler is
          dev,         \* $DEVICENAME of each handler
          tries,       \* DELAY
          slot,        \* CURRMODEM (add), retresult (remove)
          retval,      \* what the handler sourced from /tmp/proto
          device,      \* modem table: empty and device
          proto,       \* modem table: proto
          active,      \* modem table: the slots with active=1
          protofile,   \* /tmp/proto
          rpc, rslot,  \* restartrun.sh: control point and CURRMODEM
          anomaly      \* history: what went wrong between concurrent scripts

bus == <<present, started>>
table == <<device, proto, active>>
restart == <<rpc, rslot>>
vars == <<bus, pc, dev, tries, slot, retval, table, files, protofile, restart, anomaly>>

booted == "bootend" \in files
usbwait == "usbwait" \in files

AddPCs == {"add", "gate", "enter", "proto0", "source0", "pick",
           "switch", "proto1", "source1", "record", "activate", "open",
           "launch", "create", "connect"}
RemovePCs == {"remove", "free", "kill", "scan", "wipe", "clean"}
PCs == AddPCs \cup RemovePCs \cup {"none", "done", "hung"}

\* Between line 274 and line 507 an add handler counts on being alone.
Inside == {"proto0", "source0", "pick", "switch", "proto1",
           "source1", "record", "activate", "open"}

\* overlap: an add handler entered while another was inside; missed: a remove
\* handler ran before the slot it should free was filled; outrun: a slot was
\* filled that the remove handler of an earlier departure is still going to free;
\* wiped: check_all_empty emptied a slot in use; duplicate, full, leftopen, aborted:
\* an add handler left with /tmp/usbwait in place; hung: proto.sh loops over a device
\* that is gone.
Anomalies == {"overlap", "missed", "outrun", "wiped", "duplicate", "full", "leftopen",
              "aborted", "hung"}

Init ==
  /\ files = {} /\ present = {} /\ started = 0
  /\ pc = [h \in Handlers |-> "none"]
  /\ dev = [h \in Handlers |-> NoDev]
  /\ tries = [h \in Handlers |-> 0]
  /\ slot = [h \in Handlers |-> NoSlot]
  /\ retval = [h \in Handlers |-> NoKind]
  \* The table is kept in flash: what the previous boot left is still in it.
  /\ device \in {f \in [Slots -> Devices \cup {NoDev}] :
                   \A s, t \in Slots : f[s] = f[t] => s = t \/ f[s] = NoDev}
  /\ proto = [s \in Slots |-> IF device[s] = NoDev THEN NoKind ELSE Kind[device[s]]]
  /\ active = {s \in Slots : device[s] # NoDev}
  /\ protofile = NoKind
  /\ rpc = [r \in Restarters |-> "idle"]
  /\ rslot = [r \in Restarters |-> NoSlot]
  /\ anomaly = {}

Goto(h, p) == pc' = [pc EXCEPT ![h] = p]

\* A script ends: its shell variables are gone.
Forget(h) ==
  /\ dev' = [dev EXCEPT ![h] = NoDev]
  /\ slot' = [slot EXCEPT ![h] = NoSlot]
  /\ retval' = [retval EXCEPT ![h] = NoKind]
Exit(h) == Goto(h, "done") /\ Forget(h)

Blame(what, cond) == anomaly' = IF cond THEN anomaly \cup {what} ELSE anomaly

-------------------------------------------------------------------------------
(***************************************************************************)
(* The environment: boot and the USB bus.                                  *)
(***************************************************************************)

\* initialize.sh empties the table and lets the add handlers go.
Boot ==
  /\ ~ booted
  /\ files' = files \cup {"bootend"}
  /\ device' = [s \in Slots |-> NoDev]
  /\ proto' = [s \in Slots |-> NoKind]
  /\ active' = {}
  /\ UNCHANGED <<bus, pc, dev, tries, slot, retval, protofile, restart, anomaly>>

Event(d, script) ==
  /\ started < MaxEvents
  /\ started' = started + 1
  /\ pc' = [pc EXCEPT ![started + 1] = script]
  /\ dev' = [dev EXCEPT ![started + 1] = d]
  /\ UNCHANGED <<tries, slot, retval, table, files, protofile, restart, anomaly>>

PlugIn(d) ==
  /\ d \notin present
  /\ present' = present \cup {d}
  /\ Event(d, "add")

Unplug(d) ==
  /\ d \in present
  /\ present' = present \ {d}
  /\ Event(d, "remove")

-------------------------------------------------------------------------------
(***************************************************************************)
(* The add handler.                                                        *)
(***************************************************************************)

\* After bootdelay, hubs and the adapters on the ignore list are left alone.  When
\* the device is gone already find_usb_attrs falls back to the hub it was on.
Ignore(h) ==
  /\ pc[h] = "add"
  /\ booted
  /\ Kind[dev[h]] = "hub" \/ dev[h] \notin present
  /\ Exit(h)
  /\ UNCHANGED <<bus, tries, table, files, protofile, restart, anomaly>>

Identify(h) ==
  /\ pc[h] = "add"
  /\ booted
  /\ Kind[dev[h]] # "hub" /\ dev[h] \in present
  /\ Goto(h, "gate")
  /\ UNCHANGED <<bus, dev, tries, slot, retval, table, files, protofile, restart, anomaly>>

\* Wait until /tmp/usbwait is gone, but not for ever.
GateWait(h) ==
  /\ pc[h] = "gate"
  /\ usbwait
  /\ tries[h] < GateTries
  /\ tries' = [tries EXCEPT ![h] = @ + 1]
  /\ UNCHANGED <<bus, pc, dev, slot, retval, table, files, protofile, restart, anomaly>>

\* Mutant: the wait for /tmp/usbwait has no limit.
GatePassPatient(h) ==
  /\ pc[h] = "gate"
  /\ ~ usbwait
  /\ tries' = [tries EXCEPT ![h] = 0]
  /\ Goto(h, "enter")
  /\ UNCHANGED <<bus, dev, slot, retval, table, files, protofile, restart, anomaly>>

GatePass(h) ==
  /\ pc[h] = "gate"
  /\ ~ usbwait \/ tries[h] = GateTries
  /\ tries' = [tries EXCEPT ![h] = 0]
  /\ Goto(h, "enter")
  /\ UNCHANGED <<bus, dev, slot, retval, table, files, protofile, restart, anomaly>>

\* The file is created in a step of its own, after the test.
GateEnter(h) ==
  /\ pc[h] = "enter"
  /\ files' = files \cup {"usbwait"}
  /\ Goto(h, "proto0")
  /\ Blame("overlap", \E g \in Handlers \ {h} : pc[g] \in Inside)
  /\ UNCHANGED <<bus, dev, tries, slot, retval, table, protofile, restart>>

\* proto.sh looks for the interfaces of the device in sysfs.  When the device
\* is gone it never finds one and loops for ever.
RunProto(h, from, to) ==
  /\ pc[h] = from
  /\ IF dev[h] \in present
       THEN /\ protofile' = Kind[dev[h]]
            /\ Goto(h, to)
            /\ UNCHANGED anomaly
       ELSE /\ Goto(h, "hung")
            /\ Blame("hung", TRUE)
            /\ UNCHANGED protofile
  /\ UNCHANGED <<bus, dev, tries, slot, retval, table, files, restart>>

Proto0(h) == RunProto(h, "proto0", "source0")
Proto1(h) == RunProto(h, "proto1", "source1")

\* Mutant: a storage device leaves without removing /tmp/usbwait.
Source0Keeps(h) ==
  /\ pc[h] = "source0"
  /\ protofile' = NoKind
  /\ IF protofile \in Installed \cup {"storage", NoKind}
       THEN Exit(h) ELSE Goto(h, "pick") /\ UNCHANGED <<dev, slot, retval>>
  /\ anomaly' = anomaly \cup (IF protofile = NoKind THEN {"aborted"} ELSE {})
                        \cup (IF protofile \in Installed THEN {"leftopen"} ELSE {})
  /\ UNCHANGED <<bus, tries, table, files, restart>>

\* `source /tmp/proto; rm -f /tmp/proto': without the file the shell exits.
\* Cameras and printers then leave with /tmp/usbwait in place, storage removes it.
Source0(h) ==
  /\ pc[h] = "source0"
  /\ protofile' = NoKind
  /\ IF protofile \in Installed \cup {"storage", NoKind}
       THEN Exit(h) ELSE Goto(h, "pick") /\ UNCHANGED <<dev, slot, retval>>
  /\ files' = IF protofile = "storage" THEN files \ {"usbwait"} ELSE files
  /\ anomaly' = anomaly \cup (IF protofile = NoKind THEN {"aborted"} ELSE {})
                        \cup (IF protofile \in Installed THEN {"leftopen"} ELSE {})
  /\ UNCHANGED <<bus, tries, table, restart>>

Source1(h) ==
  /\ pc[h] = "source1"
  /\ protofile' = NoKind
  /\ IF protofile = NoKind
       THEN Exit(h)
       ELSE /\ retval' = [retval EXCEPT ![h] = protofile]
            /\ Goto(h, "record")
            /\ UNCHANGED <<dev, slot>>
  /\ Blame("aborted", protofile = NoKind)
  /\ UNCHANGED <<bus, tries, table, files, restart>>

FreeSlots == {s \in Slots : device[s] = NoDev}

\* Mutant: no check whether the device is in the table already.
PickTwice(h) ==
  /\ pc[h] = "pick"
  /\ \E s \in FreeSlots :
       /\ \A t \in FreeSlots : s <= t
       /\ slot' = [slot EXCEPT ![h] = s]
  /\ Goto(h, "switch")
  /\ UNCHANGED <<bus, dev, tries, retval, table, files, protofile, restart, anomaly>>

\* Mutant: find_empty does not look at the `empty' flag.
PickFirst(h) ==
  /\ pc[h] = "pick"
  /\ slot' = [slot EXCEPT ![h] = 1]
  /\ Goto(h, "switch")
  /\ UNCHANGED <<bus, dev, tries, retval, table, files, protofile, restart, anomaly>>

\* find_empty and find_devicen: the lowest empty slot, unless the table is
\* full or has the device already; both exits leave /tmp/usbwait in place.
Pick(h) ==
  /\ pc[h] = "pick"
  /\ IF FreeSlots = {}
       THEN Exit(h) /\ Blame("full", TRUE)
       ELSE IF \E s \in Slots : device[s] = dev[h]
         THEN Exit(h) /\ Blame("duplicate", TRUE)
         ELSE /\ \E s \in FreeSlots :
                   /\ \A t \in FreeSlots : s <= t
                   /\ slot' = [slot EXCEPT ![h] = s]
              /\ Goto(h, "switch")
              /\ UNCHANGED <<dev, retval, anomaly>>
  /\ UNCHANGED <<bus, tries, table, files, protofile, restart>>

\* The handler reads the configuration of the device until it gets one, switches
\* the mode, writes /tmp/usbwait again and sleeps ten seconds.
Switch(h) ==
  /\ pc[h] = "switch"
  /\ dev[h] \in present
  /\ files' = files \cup {"usbwait"}
  /\ Goto(h, "proto1")
  /\ UNCHANGED <<bus, dev, tries, slot, retval, table, protofile, restart, anomaly>>

\* Mutant: the protocol is not stored.
RecordNoProto(h) ==
  /\ pc[h] = "record"
  /\ IF retval[h] = "other"
       THEN Goto(h, "open") /\ UNCHANGED device
       ELSE /\ device' = [device EXCEPT ![slot[h]] = dev[h]]
            /\ Goto(h, "activate")
  /\ UNCHANGED <<bus, dev, tries, slot, retval, proto, active, files, protofile, restart, anomaly>>

\* The slot chosen before the sleep is filled now.
Record(h) ==
  /\ pc[h] = "record"
  /\ IF retval[h] = "other"
       THEN Goto(h, "open") /\ UNCHANGED <<device, proto>>
       ELSE /\ device' = [device EXCEPT ![slot[h]] = dev[h]]
            /\ proto' = [proto EXCEPT ![slot[h]] = retval[h]]
            /\ Goto(h, "activate")
  /\ Blame("outrun", \E g \in Handlers :
                       \/ pc[g] = "remove" /\ dev[g] = dev[h] /\ g < h
                       \/ pc[g] = "free" /\ slot[g] = slot[h])
  /\ UNCHANGED <<bus, dev, tries, slot, retval, active, files, protofile, restart>>

Activate(h) ==
  /\ pc[h] = "activate"
  /\ active' = active \cup {slot[h]}
  /\ Goto(h, "open")
  /\ UNCHANGED <<bus, dev, tries, slot, retval, device, proto, files, protofile, restart, anomaly>>

\* Mutant: /tmp/usbwait is not removed.
OpenKeeps(h) ==
  /\ pc[h] = "open"
  /\ Goto(h, "launch")
  /\ UNCHANGED <<bus, dev, tries, slot, retval, table, files, protofile, restart, anomaly>>

Open(h) ==
  /\ pc[h] = "open"
  /\ files' = files \ {"usbwait"}
  /\ Goto(h, "launch")
  /\ UNCHANGED <<bus, dev, tries, slot, retval, table, protofile, restart, anomaly>>

\* Only modem protocols have a create_proto script.  For retval 0 the file is
\* removed a second time, although another handler may be inside by now.
Launch(h) ==
  /\ pc[h] = "launch"
  /\ files' = IF retval[h] = "other" THEN files \ {"usbwait"} ELSE files
  /\ IF retval[h] \in {"wdm", "net"}
       THEN Goto(h, "create") /\ UNCHANGED <<dev, slot, retval>>
       ELSE Exit(h)
  /\ UNCHANGED <<bus, tries, table, protofile, restart, anomaly>>

\* create_connect.sh removes /tmp/usbwait when it starts ...
CreateBegin(h) ==
  /\ pc[h] = "create"
  /\ files' = files \ {"usbwait"}
  /\ Goto(h, "connect")
  /\ UNCHANGED <<bus, dev, tries, slot, retval, table, protofile, restart, anomaly>>

\* ... and again whenever it brings the interface up: for QMI and MBIM in
\* create_connect.sh, in every branch of create_hostless.sh.
CreateMore(h) ==
  /\ pc[h] = "connect"
  /\ files' = files \ {"usbwait"}
  /\ UNCHANGED <<bus, pc, dev, tries, slot, retval, table, protofile, restart, anomaly>>

CreateEnd(h) ==
  /\ pc[h] = "connect"
  /\ Exit(h)
  /\ UNCHANGED <<bus, tries, table, files, protofile, restart, anomaly>>

-------------------------------------------------------------------------------
(***************************************************************************)
(* The remove handler.                                                     *)
(***************************************************************************)

\* find_device.  An add handler of the device that has looked at the bus for
\* the last time and not yet filled its slot is missed.
RemoveFind(h) ==
  /\ pc[h] = "remove"
  /\ IF \E s \in Slots : device[s] = dev[h]
       THEN /\ \E s \in Slots :
                 /\ device[s] = dev[h]
                 /\ \A t \in Slots : device[t] = dev[h] => s <= t
                 /\ slot' = [slot EXCEPT ![h] = s]
            /\ Goto(h, "free")
            /\ UNCHANGED <<dev, retval, anomaly>>
       ELSE /\ Exit(h)
            /\ Blame("missed", \E g \in Handlers : dev[g] = dev[h] /\ pc[g] \in {"source1", "record"})
  /\ UNCHANGED <<bus, tries, table, files, protofile, restart>>

\* Mutant: the slot is made inactive but not empty.
RemoveFreeInactive(h) ==
  /\ pc[h] = "free"
  /\ active' = active \ {slot[h]}
  /\ Goto(h, "kill")
  /\ UNCHANGED <<bus, dev, tries, slot, retval, device, proto, files, protofile, restart, anomaly>>

RemoveFree(h) ==
  /\ pc[h] = "free"
  /\ device' = [device EXCEPT ![slot[h]] = NoDev]
  /\ active' = active \ {slot[h]}
  /\ Goto(h, "kill")
  /\ UNCHANGED <<bus, dev, tries, slot, retval, proto, files, protofile, restart, anomaly>>

\* The first create_proto<N> found is killed, if there is one.
Creating(s) == {g \in Handlers : pc[g] \in {"create", "connect"} /\ slot[g] = s}

RemoveKill(h) ==
  /\ pc[h] = "kill"
  /\ \/ /\ Creating(slot[h]) = {}
        /\ Goto(h, "scan")
        /\ UNCHANGED <<dev, slot, retval>>
     \/ \E g \in Creating(slot[h]) :
          /\ pc' = [pc EXCEPT ![g] = "done", ![h] = "scan"]
          /\ Forget(g)
  /\ UNCHANGED <<bus, tries, table, files, protofile, restart, anomaly>>

\* check_all_empty: look for a slot in use ...
RemoveScan(h) ==
  /\ pc[h] = "scan"
  /\ Goto(h, IF \E s \in Slots : device[s] # NoDev /\ s \in active THEN "clean" ELSE "wipe")
  /\ UNCHANGED <<bus, dev, tries, slot, retval, table, files, protofile, restart, anomaly>>

\* ... and empty the whole table when there was none.
RemoveWipe(h) ==
  /\ pc[h] = "wipe"
  /\ device' = [s \in Slots |-> NoDev]
  /\ proto' = [s \in Slots |-> NoKind]
  /\ active' = {}
  /\ Blame("wiped", \E s \in Slots : device[s] # NoDev)
  /\ Goto(h, "clean")
  /\ UNCHANGED <<bus, dev, tries, slot, retval, files, protofile, restart>>

\* Mutant: the removal leaves /tmp/usbwait in place.
RemoveCleanKeeps(h) ==
  /\ pc[h] = "clean"
  /\ Exit(h)
  /\ UNCHANGED <<bus, tries, table, files, protofile, restart, anomaly>>

RemoveClean(h) ==
  /\ pc[h] = "clean"
  /\ files' = files \ {"usbwait"}
  /\ Exit(h)
  /\ UNCHANGED <<bus, tries, table, protofile, restart, anomaly>>

-------------------------------------------------------------------------------
(***************************************************************************)
(* restartrun.sh.  The AT reset makes the device leave and come back,      *)
(* which are events of the bus.                                            *)
(***************************************************************************)

RestartBegin(r, s) ==
  /\ rpc[r] = "idle"
  /\ booted
  /\ device[s] # NoDev
  /\ rpc' = [rpc EXCEPT ![r] = "mark"]
  /\ rslot' = [rslot EXCEPT ![r] = s]
  /\ UNCHANGED <<bus, pc, dev, tries, slot, retval, table, files, protofile, anomaly>>

RestartMark(r) ==
  /\ rpc[r] = "mark"
  /\ files' = files \cup {"usbwait"}
  /\ rpc' = [rpc EXCEPT ![r] = "wait"]
  /\ UNCHANGED <<bus, pc, dev, tries, slot, retval, table, protofile, rslot, anomaly>>

RestartDone(r) ==
  /\ rpc[r] = "wait"
  /\ ~ usbwait
  /\ rpc' = [rpc EXCEPT ![r] = "done"]
  /\ UNCHANGED <<bus, pc, dev, tries, slot, retval, table, files, protofile, rslot, anomaly>>

-------------------------------------------------------------------------------
Handler(h) ==
  \/ Ignore(h) \/ Identify(h) \/ GateWait(h) \/ GatePass(h) \/ GateEnter(h)
  \/ Proto0(h) \/ Source0(h) \/ Pick(h) \/ Switch(h)
  \/ Proto1(h) \/ Source1(h) \/ Record(h) \/ Activate(h) \/ Open(h)
  \/ Launch(h) \/ CreateBegin(h) \/ CreateMore(h) \/ CreateEnd(h)
  \/ RemoveFind(h) \/ RemoveFree(h) \/ RemoveKill(h) \/ RemoveScan(h)
  \/ RemoveWipe(h) \/ RemoveClean(h)

Restart(r) == (\E s \in Slots : RestartBegin(r, s)) \/ RestartMark(r) \/ RestartDone(r)

Next ==
  \/ Boot
  \/ \E d \in Devices : PlugIn(d) \/ Unplug(d)
  \/ \E h \in Handlers : Handler(h)
  \/ \E r \in Restarters : Restart(r)

Spec == Init /\ [][Next]_vars

\* initialize.sh ends and the kernel schedules every script; nobody plugs devices.
FairSpec == Spec /\ WF_vars(Boot)
                 /\ \A h \in Handlers : WF_vars(Handler(h))
                 /\ \A r \in Restarters : WF_vars(RestartMark(r) \/ RestartDone(r))

-------------------------------------------------------------------------------
(***************************************************************************)
(* Properties.                                                             *)
(***************************************************************************)

\* Every variable has its type.
TypeOK ==
  /\ files \in SUBSET {"bootend", "usbwait"}
  /\ present \in SUBSET Devices /\ started \in 0..MaxEvents
  /\ pc \in [Handlers -> PCs]
  /\ dev \in [Handlers -> Devices \cup {NoDev}]
  /\ tries \in [Handlers -> 0..GateTries]
  /\ slot \in [Handlers -> Slots \cup {NoSlot}]
  /\ retval \in [Handlers -> Kinds \cup {NoKind}]
  /\ device \in [Slots -> Devices \cup {NoDev}]
  /\ proto \in [Slots -> Kinds \cup {NoKind}]
  /\ active \in SUBSET (Slots \cup {NoSlot})
  /\ protofile \in Kinds \cup {NoKind}
  /\ rpc \in [Restarters -> {"idle", "mark", "wait", "done"}]
  /\ rslot \in [Restarters -> Slots \cup {NoSlot}]
  /\ anomaly \in SUBSET Anomalies

\* The modem table (lines 325-343 and 463-494): as long as no add handler enters
\* while another one is inside, no device is in two slots, however removals,
\* restarts and the ten seconds between choosing and filling a slot interleave.
OneSlotPerDevice ==
  "overlap" \notin anomaly =>
    \A s, t \in Slots : device[s] = device[t] => s = t \/ device[s] = NoDev

\* ... and no slot in use is given to another device (line 472 fills a slot that
\* was found empty before the sleep).
NoSlotOverwritten ==
  [][\A s \in Slots :
       (device[s] # NoDev /\ device'[s] # device[s])
          => device'[s] = NoDev \/ "overlap" \in anomaly]_vars

\* The result of proto.sh comes through one file for all handlers (lines 282-284,
\* 435-437): a slot has the protocol of its own device unless handlers overlapped.
ProtoOfItsDevice ==
  "overlap" \notin anomaly =>
    \A s \in Slots : device[s] # NoDev => proto[s] = Kind[device[s]]

\* /tmp/usbwait delays every later modem and blocks every restart: it exists only
\* while a handler is inside or a restart waits, unless a handler left through one
\* of the exits that do not remove it (lines 294, 306, 330, 335) or never returned
\* from proto.sh.
UsbwaitHasOwner ==
  usbwait =>
    \/ \E h \in Handlers : pc[h] \in Inside
    \/ \E r \in Restarters : rpc[r] = "wait"
    \/ anomaly \cap {"duplicate", "full", "leftopen", "aborted", "hung"} # {}

\* Devices that get a slot when they are found.
Modem(d) == Kind[d] \in {"wdm", "net", "camera", "printer"} \ Installed
Known(d) == \E s \in Slots : device[s] = d

\* The meetings of handlers that lose a modem or leave one behind.  None of them
\* can be dropped from the list.
Lost == anomaly \cap {"overlap", "missed", "outrun", "wiped", "duplicate", "full"} # {}

\* What the whole script is for: a modem that stays plugged in is eventually in the
\* table for good, and one that stays away eventually is not, unless the handlers
\* met in one of those ways.
TableFollowsBus ==
  \A d \in Devices :
    Modem(d) =>
      /\ <>[](d \in present) => <>[](Known(d) \/ Lost)
      /\ <>[](d \notin present) => <>[](~ Known(d) \/ Lost)

\* An add handler always ends, whatever the state of /tmp/usbwait, if its device
\* stays plugged in (lines 263-273 give up, lines 366-374 wait for the device).
AddHandlerEnds ==
  \A h \in Handlers :
    pc[h] = "add" ~> (pc[h] \in {"done", "hung"} \/ dev[h] \notin present)

\* A restart waits for /tmp/usbwait to go (restartrun.sh lines 222-225).  It ends
\* once the removal of a modem is handled (line 683), unless a handler left the
\* file behind or waits inside for a device that is gone, or another restart waits.
RestartEnds ==
  \A r \in Restarters :
    (rpc[r] = "wait" /\ \E h \in Handlers : pc[h] = "clean")
      ~> \/ rpc[r] = "done"
         \/ anomaly \cap {"duplicate", "full", "leftopen", "aborted", "hung"} # {}
         \/ \E h \in Handlers : pc[h] = "switch" /\ dev[h] \notin present
         \/ \E q \in Restarters \ {r} : rpc[q] = "wait"

\* What the comment above check_all_empty says (lines 122-125, "delete all if nothing
\* active"): the table is emptied only while no slot is in use.
DeletesOnlyInactive ==
  [][\A h \in Handlers :
       (pc[h] = "wipe" /\ pc'[h] = "clean")
          => \A s \in active : device[s] = NoDev]_vars
===============================================================================
