# Verification of ROOter's modem management

ROOter turns an OpenWrt router into a router for USB (and PCIe) cellular modems.
This directory holds TLA+ models of the scripts that find modems, talk to them,
connect them, keep them connected and restart them, of its SMS store and of the
TR-069 client it ships, TLC configurations that check the models on small
instances, and TLAPS proofs for instances of any size.

The repository is mostly the OpenWrt build tree with vendored packages. ROOter's
own logic is in `src/package/rooter/`, nearly all of it shell scripts under
`ext-rooter-basic/files/usr/lib/rooter/` (written `R/` below). The scripts run as
many concurrent processes that share files in `/tmp` and the UCI configuration.
There is no daemon that owns the state and hardly any locking; the order in which
the scripts meet is where things can go wrong, and what most models are about. The
one C program with state of its own is `easycwmpd`
(`0optionalapps/ext-easycwmp/easycwmp/src/`, written `E/`), where the order of saves
and crashes is.

## Components

| Component | State | Operations | Hard part |
|---|---|---|---|
| AT command lock `R/gcom/gcom-locked` | `/tmp/lockgcom<N>/PID`, `/tmp/timecnt` | one process per AT command: lock, run gcom, count timeouts, unlock | recovery of a dead holder's lock, kill between two system calls |
| Modem detection `20-usb_mode`, `R/modeswitch.sh`, `R/proto.sh` | modem table `modem.modem<N>`, `/tmp/usbwait`, `/tmp/proto`, `/tmp/bootend.file` | one handler per USB event: add, remove | concurrent handlers, a gate that is not atomic and times out, slots chosen before and filled after a 10 s sleep |
| Boot `R/initialize.sh` | empties the table, writes `bootend.file` | once | remove handlers do not wait for it |
| Restart `R/luci/restart.sh`, `restartrun.sh` | `/tmp/usbwait`, a network section | called by the monitor, the watchdog, the ping test and LuCI | waits without limit for `/tmp/usbwait`; takes the modem's number for its interface |
| Connecting `R/connect/create_connect.sh`, `create_hostless.sh`, `R/ppp/create_ppp.sh` | `modem.modem<N>`, network config, `/tmp/usbwait` | started by detection | WAN interface choice by two modems, APN loop, killed at any time |
| QMI and MBIM handlers `0drivers/rqmi`, `0drivers/rmbim` | netifd | setup, teardown | restart the modem on their own |
| Connection monitor `R/connect/conmon.sh` | counters in the process | one per connected modem | three ways of testing that change during a run |
| Watchdog `R/connect/chkconn.sh`, `chkconn1.sh` | a countdown | one per connecting modem | both are killed for any modem by restarts, add and remove handlers |
| Custom ping test `0optionalapps/pingtest` | `ping.ping.conn` | test, restart, reboot | escalation while other scripts restart the same modem |
| SMS `0basicsupport/ext-sms` | `/tmp/smslock<N>`, message stores | list, migrate, delete, send | lock taken from living processes, several AT commands per migration |
| TR-069 client `E/` | event list, timers, transfers, the backup XML file | sessions with the ACS, transfers, reboots | crash between two saves, events and reports that must meet, retry decisions |
| Profiles, band masks | none | pure functions | arithmetic on masks, precedence of profiles |
| Signal reporting, bandwidth monitor, LuCI | status files | periodic | not safety relevant for the rest |

How they interact: the kernel's hotplug event starts a handler; an add handler
fills a slot of the table and starts `create_proto<N>` (the connect script), which
starts the watchdog, the signal reporter, the SMS poller and the monitor; the
monitor, the watchdog, the ping test, netifd's handlers and the user call
`restart.sh`, which resets the modem so that it leaves the bus and comes back as new
events; the remove handler frees the slot, kills the scripts of the modem and
removes `/tmp/usbwait`. All of them use `gcom-locked` for AT commands. `easycwmpd`
runs beside them and reaches the rest only through scripts.

What makes each component correct:

* lock: AT commands of one modem do not overlap; a dead holder's lock is recovered;
* detection: the table follows the bus; one slot per device with its own protocol;
  handlers end; `/tmp/usbwait` is there only while someone needs it;
* restart: it ends, and touches the modem it is for;
* connecting: two modems have different interfaces and keep their sections; a dial
  ends, and is watched while it lasts;
* monitor and ping test: they act on a dead link, and only on enough evidence;
* SMS: no message is lost, the list shows what is there, a dead owner's lock goes;
* TR-069: no accepted transfer is forgotten, or run or reported again but after a crash
  that came before the save; list and file agree, what is to be told to the ACS is told.

## Modules

| Module | Models | Extends / uses |
|---|---|---|
| `GcomLock`, `GcomLockProofs` | `gcom-locked`, its theorems | |
| `Hotplug`, `HotplugProofs` | `modeswitch.sh`, `proto.sh`, the table part of `initialize.sh`, `restartrun.sh`, their theorems | |
| `LinkVerdict` | abstract: what "Interface down/up" in `profiles.lua` promises | |
| `ConnMonitor`, `ConnMonitorProofs` | `conmon.sh`, its theorems | instance of `LinkVerdict` |
| `Watchdog`, `WatchdogProofs` | the APN loop of `create_connect.sh`, `chkconn.sh`, `chkconn1.sh`, the netifd handlers, restart and removal around them, their theorems | |
| `WanChoice`, `WanChoiceProofs` | the interface choice of `create_connect.sh`, the network part of `restartrun.sh` and of the remove handler, their theorems | |
| `PingTest`, `PingTestProofs` | `test_ping.sh`, `johns_ping.sh`, their theorems | |
| `SmsStore`, `SmsStoreProofs` | `processsms`, `delsms.sh`, `delall.sh`, their theorems | |
| `TransferLedger` | abstract: what an ACS may rely on for a Download or Upload it was told is accepted | |
| `Cwmp`, `CwmpProofs` | `easycwmpd`, its theorems | instance of `TransferLedger` |
| `MC...` | instances for TLC | |

Definitions whose comment begins with "Mutant" are changed versions of an action, as a
plausible mistake in the code would make it. They are not part of any
specification; each shows that a property can fail.

### GcomLock

A process of `Callers` is one `gcom-locked`. `dir[m]` is the lock directory of modem
`m` (named by the process that made it), `pidfile[m]` the content of its PID file.
Each system call that others can see is a step: `mkdir`; opening and writing the PID
file; `cat`; `kill -0`; the two halves of `rm -rf`. `Kill` may hit any process
anywhere; the gcom child of a killed process goes on to its end. `breached` records
that a process removed the directory of another live process.

The model shows two ways to lose the lock: the PID file is empty for a moment
(lines 24-25), and a process id may be probed after its lock passed to another
process (lines 53-56). So plain mutual exclusion does not hold, and the properties
say exactly what does.

### Hotplug

`Handlers` are the `modeswitch.sh` processes in the order of their events. The
control points follow the script: `add` (boot delay, ignore list), `gate` and
`enter` (the test of `/tmp/usbwait` and its creation are two steps), `proto0`,
`source0`, `pick`, `switch`, `proto1`, `source1`, `record`, `activate`, `open`,
`launch`, then `create` and `connect` for the connect script; `remove`, `free`,
`kill`, `scan`, `wipe`, `clean` for a remove handler. `restartrun.sh` processes are
`Restarters`. The device that leaves and comes back after a reset is the
environment's `Unplug` and `PlugIn`.

The table is kept in flash, so `Init` starts from whatever an earlier boot left and
`Boot` empties it. `proto.sh` never ends for a device that has left, as its loop
has no other exit: the handler is then `hung`.

`anomaly` collects the meetings that lose information: `overlap` (an add handler
entered while another was inside, possible because the gate is test-then-set and
gives up after 34 polls), `missed` and `outrun` (a remove handler looked before the
slot was filled, or frees a slot filled after its own device left), `wiped`
(`check_all_empty` deleted a slot in use), `duplicate`, `full`, `leftopen`,
`aborted` (exits that leave `/tmp/usbwait`), `hung`. `TableFollowsBus` names six of
them; with any one removed from the list TLC finds a counterexample, so the list is
the complete and minimal account, at these bounds, of how a modem can get lost.

Abstractions: the setting of the options of a slot (lines 472-486) is one step and
`active` another; the scan of `check_all_empty` is one step and the deletion
another; a connect script may remove `/tmp/usbwait` any number of times (once at its
start, again in some branches); the 10 s sleep is any amount of time, so a model
behaviour may need an unusually slow script where the code needs only bad luck.

### ConnMonitor and LinkVerdict

One monitor with its environment: the configured action and number of hosts (chosen
once), the link, the address of the interface, and
`owner`, who is in charge of testing (mwan3, the custom ping test, the monitor). One
round of pings is one step whose number of replies depends on the link. `LinkVerdict`
counts tests in a row upwards; `ConnMonitor` counts two scores down as the script
does, and implements it with `good = UP - score_up`, `bad = DOWN - score_dwn`.

### Watchdog

Several modems with their connect scripts, watchdogs and remove handlers. `checks` and
`dogs` are the lists of `chkconn.sh` and `chkconn1.sh` processes as `ps` shows them,
because they are killed by name. `chkconn.sh` is a process of its own: `Dial` starts it
and `Chkconn` is its one step, which starts a dog unless one runs. In between every
restart kills all of them (`restartrun.sh:142`), and every add handler
(`modeswitch.sh:500`, `Plug` and `OtherDevice`) and the wizard branch of `qmi.sh:199`
and `mbim.sh:234` the first. The remove handler kills the first dog
(`modeswitch.sh:676`). It frees the slot (`Free`) well before its kills (`Kill`), and a
new modem may be plugged into the slot in between. A modem is dialled by the script, by
netifd, or has no comm port and is not dialled at all (`kind`). One turn of the APN
loop is `Dial` with the outcome `AttemptFails` or `AttemptSucceeds`; the AT dialogues
are that outcome. `unwatched` and `spared` record who has lost a `chkconn.sh` or a dog
and which dogs are left over from before their modem was plugged in; the properties
hold but for those. A dog that still waits in `restartrun.sh` counts as running, and a
new dial then has no dog of its own.

### WanChoice

Two modems, as in the script (`MAXMODEM` is 2 there). Looking at the other modem's
`empty`, comparing with its `inter`, writing one's own and writing the network section
are four steps. The remove handler frees the slot first, resets the section next and
kills the script last, so a script may write for a modem that is gone. `hit` records
whose section or link another modem's restart, removal, late script or race took.

### PingTest

One ladder: test, test, restart, look, restart, longer look, reboot. `Fault` is what
other scripts do to the same modem. `re` is the option "Reboot Only", `enable` the
switch of the page. A modem may ignore the reset, and a dial may end without a
connection (`create_connect.sh:1428`): the modem is then `failed` until something
restarts it.

### SmsStore

`sm` and `me` are the stores of the SIM and the modem, `mem` the one that is selected
in the modem, which every AT client shares. Each AT command line is a step, so a
migration (select, read, select, write, delete) can be interleaved with a deletion
when the lock is lost. `lock` follows the directory and its file through `mkdir`,
creation, `echo`, `kill -0` and `rm -rf`. Any AT command may fail, time out or be obeyed
unseen (`Fail`): a selection leaves `mem` as it was, `AT+CMGR` then reads the other
store, `AT+CMGL` shows a part, a line of several commands stops halfway. A count that
failed is the empty word (`Blank`), for which every test of lines 89-105 takes the
branch the shell takes. `misread` and `cut` record the two failures the script cannot
make up for. A new list takes three steps: the answer of
`AT+CMGL` goes to a temporary file (`Cmgl`), the number of messages is set (`SetNum`,
lines 144-145), the file becomes the list (`Smsread`, 146-149). A `processsms` that is
killed between the last two leaves a number that fits and a list that does not; its
next start sets the number to 999 (43-44), so `ListFresh` speaks of a running one.

### Cwmp and TransferLedger

`easycwmpd` is one uloop process: a step is what happens between two saves of the
backup, two messages of a session or a script and the save after it. So a transfer goes
through `Launch`, `RunScript`, `RemoveTransfer`, `AddTransferComplete`, and its report
through `SendTransferComplete` (answered, still on file) and `RemoveTransferComplete`.
`Crash` may follow any step and `TornSave` is a
crash inside `backup_save_file`, which truncates first. `events` is the list in
memory, `tree` the parsed backup, equal to its file after every save. An event's node
is its `backup_node`; the n-th saved event with a code and key has the n-th node with
them (`IsNodeOf`), and `RemoveEvent` deletes that node. `LoadEvents` gives an event for
every node `cwmp_add_event` does not refuse (`Kept`), in the order of the file.
`FileMatchesList` counts: the i-th saved event of the list is like the i-th node, and
there are as many of one as of the other. `LoadedId` is `backup_load_event` with its variable that keeps the id of an
earlier node. `fate` records what became of a transfer, and `again` which of them a
crash brought back after the script or the answer. The status `TransferLedger` speaks
of is read off the file and the place of the process: queued, run, done, told,
reported, lost. A crash may take run back to queued and told back to done.
SOAP, JSON, HTTP and authentication are one outcome each: answered or failed.

## Runs

| Run | Instance | States | Shows |
|---|---|---|---|
| `gcom_lock` | 3 processes, 1 modem, 1 kill | 158 022 | serialisation unless breached, what a thief can know, the timeout count, progress unless wedged |
| `hotplug_replug` | 1 modem, 2 slots, 4 events | 153 304 | the handlers of plug, unplug, plug, unplug of one device in every order |
| `hotplug_two` | 2 modems, 2 slots, 3 events, 1 restart | 337 712 | two devices in the gate, the table and `/tmp/proto` |
| `hotplug_kinds` | 6 kinds of device, 1 slot, 2 events, 2 restarts | 39 692 | full table, camera, printer, storage, hub, unknown device; restarts end |
| `hotplug_wipe` | 2 modems, 3 events | | expected violation, see below |
| `conn_monitor` | 0 to 3 hosts, 2 needed, up 2, down 3, both actions | 3 312 | refinement, evidence, dead link noticed, test ends |
| `cwmp` | 1 download, 1 upload, 1 schedule, 1 crash, 2 troubles | 8 616 393 | transfers, list and file, timers, BOOTSTRAP |
| `cwmp_live` | 1 download, 1 schedule, 1 crash, 1 trouble | 67 037 | refinement of `TransferLedger`; reported and informed in the end |
| `watchdog` | 2 modems, 2 APNs, 1 look, 3 pluggings, 2 `chkconn.sh` at a time | 935 740 | no early restart, no unwatched dial, every dial ends, but for the cases named |
| `wan_choice` | 2 modems, profiles Auto, WAN1, WAN2 | 1 391 190 | interfaces differ unless raced, sections are kept but for the steps named |
| `ping_test` | 3 and 9 looks, 4 interferences | 7 240 | a reboot is earned, a dead connection is noticed |
| `sms_store` | 2 messages, 2 + 1 slots, 1 deletion, 1 kill, 2 failed AT commands | 2 036 657 | lock, no loss, fresh list, lock of the dead |

The properties of each run (stated in words above their definitions):

* `gcom_lock`: `MutexUnlessBreached`, `CountedTimeouts`, `NoInformedTheft`,
  `EndsOrWedged`.
* `hotplug_replug`: `OneSlotPerDevice`, `UsbwaitHasOwner`, `TableFollowsBus`,
  `AddHandlerEnds`.
* `hotplug_two`: `ProtoOfItsDevice`, `NoSlotOverwritten`, `TableFollowsBus`.
* `hotplug_kinds`: `UsbwaitHasOwner`, `RestartEnds`.
* `hotplug_wipe`: `DeletesOnlyInactive`.
* `conn_monitor`: `ActsOnEvidence`, `KeepsItsPromise`, `DeadLinkNoticed`,
  `SteadyTestEnds`.
* `cwmp`: `TypeOK`, `NothingForgotten`, `RunsOnce`, `ReportedEventsCleared`,
  `FileMatchesList`, `Scheduled`, `BootstrapOwed`.
* `cwmp_live`: `KeepsLedger`, `EventuallyReported`, `EventuallyInformed`.
* `watchdog`: `TypeOK`, `FullTime`, `Watched`, `DialEnds`.
* `wan_choice`: `WanNotShared`, `OwnSection`.
* `ping_test`: `RebootEarned`, `DeadIsNoticed`.
* `sms_store`: `LockExclusive`, `NothingLost`, `ListFresh`, `DeadLockEnds`.

Bounds. Three processes are what a theft needs (victim, thief, next holder); several
modems with one lock each differ only in the shared counter, and `Counted` is proved
for any number of them. Four events of one device let two add and two remove handlers
run at once; three events of two devices give every pair of handlers of different
devices together with a third. `GateTries` stands for the 34 polls: with 1 or 2 a
handler can still wait, be let in, or give up. In `cwmp` a trouble is a failed message
or script, a Reboot or FactoryReset, another ACS URL, a reload, a version change or an
unsaved event; every pair of them meets a crash. Periodic and scheduled informs are
not bounded. `Looks` stands for the 8 or 11 looks of the watchdog: a dog with one look
can be early, late or left over. Three pluggings are two modems and the return of one
before or after its remove handler has done its kills; two `chkconn.sh` at a time
(`MaxChecks`) are the first that `ps` shows and another. Two messages fill the SIM; a
failed count sends the second to the modem while the SIM has room, and with the second
failure the misreading happens. `MaxKills`, `MaxFails`, `MaxEvents`, `GateTries`,
`MaxCrash`, `MaxTrouble`, `MaxFaults`, `MaxChecks`, `MaxPlugs` are the artificial bounds
and none of them appears in a proof as more than a number.

`CHECK_DEADLOCK FALSE` is set for the hotplug runs and for `watchdog`: with no further
USB events, or with every modem out and no plugging left, the system rests.

Fairness. Every script is scheduled (weak fairness per process); nothing is assumed
about users, kills or the link. For the lock this includes that gcom ends: its scripts
have timeouts. For detection it includes that `initialize.sh` ends. For the monitor it
is weak fairness of the whole loop: a ping has a time limit. In `Watchdog` only
`chkconn.sh` and the dogs are fair: dials, netifd and handlers may take for ever. In
`PingTest` a modem that was reset leaves the bus and comes back, and a dial ends, well or
not; one that ignores the reset is a choice of its own. In `SmsStore` the modem need not come
back. In `Cwmp` the steps of a session and of a callback are weakly fair (they have
timeouts, and a failure is bounded trouble), and the timers are strongly fair: uloop
runs the callback of every timer that is due, however often others are served first.

Finding (`hotplug_wipe`). `check_all_empty` is commented "delete all if nothing
active" (`modeswitch.sh:123-124`). It looks first (128-137) and deletes later (139-144),
and an add handler may activate its slot in between (488). In TLC's trace one modem is
plugged in, pulled out and plugged in again while the router boots: the remove handler
finds the entry an earlier boot left for the modem before `initialize.sh` empties the
table, and scans it while the add handler of the first plugging records the modem. The
modem is plugged in then, and not in the table, so neither the LuCI pages nor a later
remove handler know of it.

### Observations

What the properties exempt, and why: in each case TLC shows the exempted behaviour as
soon as the exemption is taken out.

* `backup_load_event` (`E/backup.c:677, 696-698`) keeps `method_id` from one node to the
  next, so an event without one is loaded with the id of an earlier M Download. The
  event table marks it EVENT_REMOVE_AFTER_INFORM (`E/cwmp.c:30`), but
  `cwmp_remove_event(..., 0)` does not match it and it is reported again and again.
  `EventuallyInformed` and `Scheduled` speak of events with id 0.
* `method_id` starts anew in every process (`E/cwmp.c:462`), while reports of earlier
  ones keep theirs. Two reports can share an id, and the answer to the first removes
  the events of both (300-301). `ReportedEventsCleared` says only that no event
  outlives its report, and only as long as the process was not killed.
* A transfer is in no file between two saves of `cwmp_download_launch` (459-467), and
  everything is lost with a torn save (`E/backup.c:104`). `NothingForgotten` and
  `TransferLedger` name both as losses.
* A process that dies after the script of a transfer (`E/cwmp.c:457-458`) and before the
  save (459) runs it again after its restart; one that dies after the ACS has answered a
  report (294) and before the save (300) sends it again. `RunsOnce` allows one
  repetition for each such death (`again`), `TransferLedger` has `Forget`.
* A transfer whose script cannot be started has lost its timer and waits for the next
  start of the daemon (`E/cwmp.c:451`): `Stranded` in `EventuallyReported`.
* The watchdog's option is written to `modem.modeminfo<N>` and read from
  `modem.modem<N>` (`chkconn1.sh:11`), so "Disable Connection Watchdog"
  (`profiles.lua:169`) has no effect: `Chkconn` has no such branch.
* A `chkconn.sh` that is killed before it has started its watchdog leaves the dial
  unwatched, whichever modem's restart or plugging killed it; a dial that then fails is
  not restarted. `/etc/config/wizard`, which one of the kills asks for, is not part of
  this repository. `Watched` and `DialEnds` exempt what is in `unwatched`.
* An MBIM modem without a comm port skips the dial loop with BRK unset and is recorded
  as connected (`create_connect.sh:1050, 1428, 1462`): kind `noport`.
* `restartrun.sh:210-211` takes down the interface of the profile and resets the section
  with the number of the modem, and a modem removed before it has chosen resets the
  section with its number (`modeswitch.sh:611-657`): either may be the other modem's.
  `OwnSection` exempts what is in `hit`.
* The profile page offers 3 as "OFF" (`profiles.lua:610`), the script tests for 5
  (`create_connect.sh:872`): with 3 the modem uses WAN3.
* The page promises "Ping every 20 seconds and, if it fails, restart modem or reboot
  router" (`ping.lua:13`). A modem that ignores its reset keeps the test in
  `restartrun.sh:222` for ever, and no other test is started: `Stuck` in
  `DeadIsNoticed`. Nor is one started after a dial that failed (`test_ping.sh:23-31`):
  `Unconnected`.
* Every start of `processsms` removes the lock whoever holds it (17), and a blank or
  dead process id may be acted on late (153-157). A deletion can then select the SIM
  between two commands of a migration, and the message written is not the one deleted.
  `LockExclusive`, `NothingLost` and `ListFresh` hold until a lock was taken from a
  living process.
* `processsms` does not look at the answer to `AT+CPMS="ME"` (106-107). If it failed,
  `AT+CMGR` reads the slot of the SIM with that number, the copy is written to the SIM
  once more, and the message of the modem in that slot is deleted (124), copied nowhere:
  `misread` in `NothingLost`.
* An answer to `AT+CMGL` that is cut short (141) makes an incomplete list while `smsnum`
  is set to the full count: it stays until the number changes or the hour does. `cut` in
  `ListFresh`; the page then leaves messages out and shows none that is not there.
* A count that failed leaves an empty word. The test of line 94 is then true as well as
  that of line 89, so that new messages go to the modem while the SIM has room, until the
  next count.
* The page asks "Delete the selected message?" and passes a slot; `delsms.sh` deletes
  whatever the slot holds when it gets the lock. `NothingLost` counts it as deleted.

## Theorems

Proved with TLAPS for every value of the constants that meets the named assumptions
(`PortAssumption`, `CallersAssumption`, `MaxKillsAssumption`; `DevicesAssumption`,
`KindAssumption`, `BoundsAssumption`; `ScoreAssumption`, `TrackAssumption`;
`CwmpAssumption`; `IntersAssumption`; `PingAssumption`; `WatchdogAssumption`;
`SmsAssumption`). They say that numbers are numbers, that the sets of names are
disjoint and, where something is counted, finite; and that a SIM has room for fewer than
the 999 messages that `smsnum` says when the list is to be made anew. Every safety property that a run
checks is also a theorem. Type correctness is proved for every component
(`TypeCorrect` in each proof module) and repeated in a run only where it says more than
types: in `Cwmp` (single events, the saved URL) and `Watchdog` (one dog per modem).

* `GcomLockProofs`: `Mutex`, from the invariant `HolderOwnsDir` (a live
  process inside the lock of an unbreached modem is the maker of the directory that
  exists: the lock itself knows nothing of who is inside, so mutual exclusion is not
  inductive alone); `InformedTheft`, from `ProbedIsGone` (who is about to remove a
  directory has read an id whose process is gone, and gone processes stay gone);
  `Counted`, from `CountInv` (each process's own count is covered by timeouts that
  happened, although it may be read long before it is written).
* `HotplugProofs`: `UniqueSlots`, `OwnProtocol` and `NoOverwrite`, from
  `GateInv`: as long as no overlap happened, at most one handler is inside, the slot it
  chose is still empty and its device in no slot, and `/tmp/proto` holds its own result.
  `UsbwaitOwned`, from `OwnerInv`: the property, and that a handler that has not been
  started yet does nothing (`NotStarted`); that anomalies are never forgotten makes the
  exempted exits stay exempt.
* `ConnMonitorProofs`: `Evidence`, and `Promise` (the refinement of
  `LinkVerdict`), from `IInv`, which ties the scores to the history of tests.
* `CwmpProofs`: `TransfersNotForgotten`, `TransfersRunOnce` and `Promise` (the refinement
  of `TransferLedger`, with its repetitions after a crash), from `LedgerInv`: the two
  properties, the types they need, and `TimersOnFile`, that a timer and a running callback belong to a request that is on
  file. Without it a callback could remove a request twice. `AllInv` adds what the
  event list and the nodes hold (`EventInv`: a connection request is never saved, an M
  Download or M Upload always is, with an id; single events are single) and where the
  URL is saved; it gives `TypeCorrect`. On top of it:
  * `BootstrapKept`, from `BootInv`: a BOOTSTRAP that is owed is in the file as well, so
    that a restart finds it, and after the answer to an Inform it is owed no more;
  * `SessionScheduled`, from `TimerInv`: a report that waits always has company, a retry
    under way or an event worth one (`WorthRetry`), which is what
    `cwmp_retry_session` looks at; a session that went well has sent every report and
    cleared every event an Inform clears (`WentWell`, `Informed`);
  * `ReportsCleared`, from `MethodInv`: until the first kill every M Download and M
    Upload, in the list and in the file, belongs to a report with the same key and id or
    to the one being cleared, the file has none the list lacks, and none twice;
  * `FileKept`, from `FileInv`: outside a session that will reboot the device the nodes
    are the saved events, counted one by one (`Matches`); a reboot may only have added
    nodes at the end, and no single event has two nodes. `NodeIs` shows that the node
    with the same rank among its like is the one with the same count, so that a removal
    keeps list and file in step; `LoadMatches` that a restart brings them together.
* `WanChoiceProofs`: `WansDiffer`, from `IInv`: a script past its look has an interface
  the other modem does not use, or the race was seen (`ChoosersFirst`, `RaceSeen`,
  `WriteIsFree`); `SectionsKept`, from `SInv`, which adds that a modem records its
  interface before its section (`RecordedFirst`) and that a remove handler works for a
  modem that is gone (`HandlerOfGone`).
* `WatchdogProofs`: `TypeCorrect` includes that no modem has two watchdogs and that a
  dial has an APN left (`ApnLeft`). `FullTimeGiven`, from `TimeInv`: the looks a dog has
  left and those it has used add up (`Counted`), and a slot whose removal is over has no
  dog but a spared one (`Deserted`), so that a new modem in the slot gets a new dog.
  `DialWatched` is inductive with the types: no step takes a modem in use out of
  `Covered`, the modems with a `chkconn.sh`, a dog or an entry in `unwatched`
  (`KillChecksEffect` for the kills of `chkconn.sh`, `KillEffect` for those of dogs).
* `SmsStoreProofs`: `Exclusive`, from `LockInv` (the directory exists while somebody is
  inside); `NoneLost`, from `MoveInv` (what `processsms` is about to delete from the
  modem is what it has read there, and is on the SIM, or it was read from the SIM);
  `Listed`, from `FreshInv` (what is listed, as far as the answer went, is on the SIM, and
  the number that goes with a list is never larger than that of the SIM, for then an
  arrival could make it right while the list is old; both after every failed command).
  Each needs the one before: a move is safe because nobody else selects a store.
* `PingTestProofs`: `Earned`, from `Ladder`: at each point of the script, how many failed
  tests and restarts are behind it.

Only model-checked: the liveness properties (`EndsOrWedged`, `TableFollowsBus`,
`AddHandlerEnds`, `RestartEnds`, `DeadLinkNoticed`, `SteadyTestEnds`,
`EventuallyReported`, `EventuallyInformed`, `DialEnds`, `DeadIsNoticed`,
`DeadLockEnds`). They need fairness and ENABLED, which are out of the prover's reach.

## Not modelled

PCIe/MHI modems (`gotpcie`, proto 91), GPIO power toggling, serial port numbering,
LEDs, logging, signal parsing, the LuCI pages, the AT dialogues of the single
protocols, sending SMS and decoding PDUs, the text of SOAP and JSON messages, and
timer values (a delay above 24 days overflows at `E/cwmp.c:587`). Of `easycwmpd` also a
backup file that cannot be opened for writing (`E/backup.c:104`: memory then goes on with
an older file), and a configuration reload asked for by a download or upload script
(`json.c:42-46`): the scripts that are shipped never answer with it.

Almost all C code of the repository (kernel drivers, build tools, LuCI's parser,
patches of packages) is the vendored OpenWrt tree. It is not ROOter's own logic and is
left aside. What ROOter adds is shell and Lua, and the C programs under
`src/package/rooter/`, of which `easycwmpd` is the one with state and failures worth
a model. The others (`gcom` wrappers, `udp-tunnel`, small tools for modems) are
third-party or stateless.

## Plan

1. `GcomLock`, `Hotplug`, `ConnMonitor`, `Watchdog`, `WanChoice`, `PingTest`,
   `SmsStore`, `Cwmp` with the theorems above (done).
2. Proofs of every safety property of the runs (done).
3. Bandwidth accounting (`bwmon.sh`): counters that start anew with the link, the
   backup, and the change of day and month.
4. Band mask encoding and decoding as operators against a reference definition.
5. An abstract lock that `GcomLock` implements when no breach happens.
