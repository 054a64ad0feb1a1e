----------------------------- MODULE HotplugProofs -----------------------------
(***************************************************************************)
(* Theorems about modem detection, for any number of ports, slots, events  *)
(* and restarts.                                                           *)
(***************************************************************************)
EXTENDS Hotplug, TLAPS

\* From the choice of a slot to its filling.
Chosen == {"switch", "proto1", "source1", "record"}

\* As long as add handlers do not overlap, the one that is inside is alone, ...
Alone == \A g, h \in Handlers : pc[g] \in Inside /\ pc[h] \in Inside => g = h

HasDevice == \A h \in Handlers : pc[h] \in {"add", "gate", "enter"} \cup Inside => dev[h] \in Devices

\* ... its slot stays empty and its device out of the table, ...
ChosenIsFree ==
  \A h \in Handlers : pc[h] \in Chosen =>
    /\ slot[h] \in Slots
    /\ device[slot[h]] = NoDev
    /\ \A s \in Slots : device[s] # dev[h]

\* ... and what is in /tmp/proto is meant for it.
ResultIsOwn ==
  \A h \in Handlers :
    /\ pc[h] \in {"source0", "source1"} => protofile = Kind[dev[h]]
    /\ pc[h] = "record" => retval[h] = Kind[dev[h]]

TableOK ==
  /\ \A s, t \in Slots : device[s] = device[t] => s = t \/ device[s] = NoDev
  /\ \A s \in Slots : device[s] # NoDev => proto[s] = Kind[device[s]]

GateInv ==
  "overlap" \notin anomaly => Alone /\ HasDevice /\ ChosenIsFree /\ ResultIsOwn /\ TableOK

-------------------------------------------------------------------------------
\* Typing of modem detection and restart.
THEOREM TypeCorrect == Spec => []TypeOK
<1> USE DevicesAssumption, KindAssumption, BoundsAssumption
<1>1. Init => TypeOK
  BY DEF Init, TypeOK, PCs, Kinds, NoKind, NoSlot, Anomalies
<1>2. TypeOK /\ [Next]_vars => TypeOK'
  <2> SUFFICES ASSUME TypeOK, [Next]_vars PROVE TypeOK'
    OBVIOUS
  <2>a. /\ "add" \in PCs /\ "gate" \in PCs /\ "enter" \in PCs /\ "proto0" \in PCs /\ "source0" \in PCs
        /\ "pick" \in PCs /\ "switch" \in PCs /\ "proto1" \in PCs /\ "source1" \in PCs
        /\ "record" \in PCs /\ "activate" \in PCs /\ "open" \in PCs /\ "launch" \in PCs
        /\ "create" \in PCs /\ "connect" \in PCs /\ "remove" \in PCs /\ "free" \in PCs
        /\ "kill" \in PCs /\ "scan" \in PCs /\ "wipe" \in PCs /\ "clean" \in PCs
        /\ "done" \in PCs /\ "hung" \in PCs
    BY DEF PCs, AddPCs, RemovePCs
  <2>b. /\ "overlap" \in Anomalies /\ "outrun" \in Anomalies /\ "missed" \in Anomalies /\ "wiped" \in Anomalies
        /\ "duplicate" \in Anomalies /\ "full" \in Anomalies /\ "leftopen" \in Anomalies
        /\ "aborted" \in Anomalies /\ "hung" \in Anomalies
    BY DEF Anomalies
  <2> USE <2>a, <2>b DEF TypeOK, bus, table, restart, Goto, Exit, Forget, Blame
  <2>1. CASE Boot
    BY <2>1 DEF Boot
  <2>2. ASSUME NEW d \in Devices, PlugIn(d) PROVE TypeOK'
    BY <2>2 DEF PlugIn, Event, Handlers
  <2>3. ASSUME NEW d \in Devices, Unplug(d) PROVE TypeOK'
    BY <2>3 DEF Unplug, Event, Handlers
  <2>4. ASSUME NEW h \in Handlers, Ignore(h) PROVE TypeOK'
    BY <2>4 DEF Ignore
  <2>5. ASSUME NEW h \in Handlers, GateWait(h) PROVE TypeOK'
    BY <2>5 DEF GateWait
  <2>6. ASSUME NEW h \in Handlers, GatePass(h) PROVE TypeOK'
    BY <2>6 DEF GatePass
  <2>7. ASSUME NEW h \in Handlers, GateEnter(h) PROVE TypeOK'
    BY <2>7 DEF GateEnter
  <2>8. ASSUME NEW h \in Handlers, Proto0(h) PROVE TypeOK'
    BY <2>8 DEF Proto0, RunProto
  <2>9. ASSUME NEW h \in Handlers, Proto1(h) PROVE TypeOK'
    BY <2>9 DEF Proto1, RunProto
  <2>10. ASSUME NEW h \in Handlers, Source0(h) PROVE TypeOK'
    BY <2>10 DEF Source0
  <2>11. ASSUME NEW h \in Handlers, Source1(h) PROVE TypeOK'
    BY <2>11 DEF Source1
  <2>12. ASSUME NEW h \in Handlers, Pick(h) PROVE TypeOK'
    BY <2>12 DEF Pick, FreeSlots
  <2>13. ASSUME NEW h \in Handlers, Switch(h) PROVE TypeOK'
    BY <2>13 DEF Switch
  <2>14. ASSUME NEW h \in Handlers, Record(h) PROVE TypeOK'
    BY <2>14 DEF Record
  <2>15. ASSUME NEW h \in Handlers, Activate(h) PROVE TypeOK'
    BY <2>15 DEF Activate
  <2>16. ASSUME NEW h \in Handlers, Open(h) PROVE TypeOK'
    BY <2>16 DEF Open
  <2>17. ASSUME NEW h \in Handlers, Launch(h) PROVE TypeOK'
    BY <2>17 DEF Launch
  <2>18. ASSUME NEW h \in Handlers, CreateBegin(h) PROVE TypeOK'
    BY <2>18 DEF CreateBegin
  <2>19. ASSUME NEW h \in Handlers, CreateEnd(h) PROVE TypeOK'
    BY <2>19 DEF CreateEnd
  <2>20. ASSUME NEW h \in Handlers, RemoveFind(h) PROVE TypeOK'
    BY <2>20 DEF RemoveFind
  <2>21. ASSUME NEW h \in Handlers, RemoveFree(h) PROVE TypeOK'
    BY <2>21 DEF RemoveFree
  <2>22. ASSUME NEW h \in Handlers, RemoveKill(h) PROVE TypeOK'
    BY <2>22 DEF RemoveKill, Creating
  <2>23. ASSUME NEW h \in Handlers, RemoveScan(h) PROVE TypeOK'
    BY <2>23 DEF RemoveScan
  <2>24. ASSUME NEW h \in Handlers, RemoveWipe(h) PROVE TypeOK'
    BY <2>24 DEF RemoveWipe
  <2>25. ASSUME NEW h \in Handlers, RemoveClean(h) PROVE TypeOK'
    BY <2>25 DEF RemoveClean
  <2>26. ASSUME NEW r \in Restarters, Restart(r) PROVE TypeOK'
    <3>1. CASE \E q \in Slots : RestartBegin(r, q)
      BY <3>1 DEF RestartBegin
    <3>2. CASE RestartMark(r)
      BY <3>2 DEF RestartMark
    <3>3. CASE RestartDone(r)
      BY <3>3 DEF RestartDone
    <3> QED
      BY <2>26, <3>1, <3>2, <3>3 DEF Restart
  <2>27. ASSUME NEW h \in Handlers, Identify(h) PROVE TypeOK'
    BY <2>27 DEF Identify
  <2>28. ASSUME NEW h \in Handlers, CreateMore(h) PROVE TypeOK'
    BY <2>28 DEF CreateMore
  <2>29. CASE UNCHANGED vars
    BY <2>29 DEF vars
  <2> QED
    BY <2>1, <2>2, <2>3, <2>4, <2>5, <2>6, <2>7, <2>8, <2>9, <2>10, <2>11, <2>12,
       <2>13, <2>14, <2>15, <2>16, <2>17, <2>18, <2>19, <2>20, <2>21, <2>22, <2>23,
       <2>24, <2>25, <2>26, <2>27, <2>28, <2>29 DEF Next, Handler
<1> QED
  BY <1>1, <1>2, PTL DEF Spec

-------------------------------------------------------------------------------
\* The key step (lines 263-507): every step of every script keeps GateInv.
LEMMA GateStep ==
  ASSUME TypeOK, TypeOK', GateInv, [Next]_vars
  PROVE  GateInv'
<1> SUFFICES ASSUME "overlap" \notin anomaly'
             PROVE  Alone' /\ HasDevice' /\ ChosenIsFree' /\ ResultIsOwn' /\ TableOK'
  BY DEF GateInv
<1> DEFINE Goal == Alone' /\ HasDevice' /\ ChosenIsFree' /\ ResultIsOwn' /\ TableOK'
<1> USE DevicesAssumption, KindAssumption DEF TypeOK, bus, table, restart, Goto,
        Exit, Forget, Blame, Inside, Chosen, GateInv, Alone, HasDevice,
        ChosenIsFree, ResultIsOwn, TableOK
<1>1. CASE Boot
  BY <1>1 DEF Boot
<1>2. ASSUME NEW d \in Devices, PlugIn(d) PROVE Goal
  BY <1>2 DEF PlugIn, Event, Handlers
<1>3. ASSUME NEW d \in Devices, Unplug(d) PROVE Goal
  BY <1>3 DEF Unplug, Event, Handlers
<1>4. ASSUME NEW h \in Handlers, Ignore(h) PROVE Goal
  BY <1>4 DEF Ignore
<1>5. ASSUME NEW h \in Handlers, GateWait(h) PROVE Goal
  BY <1>5 DEF GateWait
<1>6. ASSUME NEW h \in Handlers, GatePass(h) PROVE Goal
  BY <1>6 DEF GatePass
<1>7. ASSUME NEW h \in Handlers, GateEnter(h) PROVE Goal
  BY <1>7 DEF GateEnter
<1>8. ASSUME NEW h \in Handlers, Proto0(h) PROVE Goal
  BY <1>8 DEF Proto0, RunProto
<1>9. ASSUME NEW h \in Handlers, Proto1(h) PROVE Goal
  BY <1>9 DEF Proto1, RunProto
<1>10. ASSUME NEW h \in Handlers, Source0(h) PROVE Goal
  BY <1>10 DEF Source0
<1>11. ASSUME NEW h \in Handlers, Source1(h) PROVE Goal
  BY <1>11 DEF Source1
<1>12. ASSUME NEW h \in Handlers, Pick(h) PROVE Goal
  BY <1>12 DEF Pick, FreeSlots
<1>13. ASSUME NEW h \in Handlers, Switch(h) PROVE Goal
  BY <1>13 DEF Switch
<1>14. ASSUME NEW h \in Handlers, Record(h) PROVE Goal
  BY <1>14 DEF Record
<1>15. ASSUME NEW h \in Handlers, Activate(h) PROVE Goal
  BY <1>15 DEF Activate
<1>16. ASSUME NEW h \in Handlers, Open(h) PROVE Goal
  BY <1>16 DEF Open
<1>17. ASSUME NEW h \in Handlers, Launch(h) PROVE Goal
  BY <1>17 DEF Launch
<1>18. ASSUME NEW h \in Handlers, CreateBegin(h) PROVE Goal
  BY <1>18 DEF CreateBegin
<1>19. ASSUME NEW h \in Handlers, CreateEnd(h) PROVE Goal
  BY <1>19 DEF CreateEnd
<1>20. ASSUME NEW h \in Handlers, RemoveFind(h) PROVE Goal
  BY <1>20 DEF RemoveFind
<1>21. ASSUME NEW h \in Handlers, RemoveFree(h) PROVE Goal
  BY <1>21 DEF RemoveFree
<1>22. ASSUME NEW h \in Handlers, RemoveKill(h) PROVE Goal
  BY <1>22 DEF RemoveKill, Creating
<1>23. ASSUME NEW h \in Handlers, RemoveScan(h) PROVE Goal
  BY <1>23 DEF RemoveScan
<1>24. ASSUME NEW h \in Handlers, RemoveWipe(h) PROVE Goal
  BY <1>24 DEF RemoveWipe
<1>25. ASSUME NEW h \in Handlers, RemoveClean(h) PROVE Goal
  BY <1>25 DEF RemoveClean
<1>26. ASSUME NEW r \in Restarters, Restart(r) PROVE Goal
  BY <1>26 DEF Restart, RestartBegin, RestartMark, RestartDone
<1>27. ASSUME NEW h \in Handlers, Identify(h) PROVE Goal
  BY <1>27 DEF Identify
<1>28. ASSUME NEW h \in Handlers, CreateMore(h) PROVE Goal
  BY <1>28 DEF CreateMore
<1>29. CASE UNCHANGED vars
  BY <1>29 DEF vars
<1> QED
  BY <1>1, <1>2, <1>3, <1>4, <1>5, <1>6, <1>7, <1>8, <1>9, <1>10, <1>11, <1>12,
     <1>13, <1>14, <1>15, <1>16, <1>17, <1>18, <1>19, <1>20, <1>21, <1>22, <1>23,
     <1>24, <1>25, <1>26, <1>27, <1>28, <1>29 DEF Next, Handler

\* GateInv is an invariant of modem detection.
LEMMA GateInvariant == Spec => []GateInv
<1>1. Init => GateInv
  BY DevicesAssumption DEF Init, GateInv, Alone, HasDevice, ChosenIsFree, ResultIsOwn,
     TableOK, Inside, Chosen
<1>2. TypeOK /\ TypeOK' /\ GateInv /\ [Next]_vars => GateInv'
  BY GateStep
<1> QED
  BY <1>1, <1>2, TypeCorrect, PTL DEF Spec

\* While add handlers do not overlap no device is in two slots, for any number of
\* ports, slots, events and restarts.
THEOREM UniqueSlots == Spec => []OneSlotPerDevice
<1>1. GateInv => OneSlotPerDevice
  BY DEF GateInv, TableOK, OneSlotPerDevice
<1> QED
  BY <1>1, GateInvariant, PTL

\* ... and every slot has the protocol proto.sh found for its own device.
THEOREM OwnProtocol == Spec => []ProtoOfItsDevice
<1>1. GateInv => ProtoOfItsDevice
  BY DEF GateInv, TableOK, ProtoOfItsDevice
<1> QED
  BY <1>1, GateInvariant, PTL

\* ... and the slot filled ten seconds after it was chosen is still empty: no
\* modem is ever replaced in the table by another one.
THEOREM NoOverwrite == Spec => NoSlotOverwritten
<1> USE DevicesAssumption DEF TypeOK, bus, table, restart
<1>1. ASSUME TypeOK, GateInv, [Next]_vars, NEW s \in Slots,
             device[s] # NoDev, device'[s] # device[s], "overlap" \notin anomaly
      PROVE  device'[s] = NoDev
  <2>1. CASE Boot
    BY <2>1 DEF Boot
  <2>2. ASSUME NEW d \in Devices, PlugIn(d) \/ Unplug(d) PROVE FALSE
    BY <1>1, <2>2 DEF PlugIn, Unplug, Event
  <2>3. ASSUME NEW h \in Handlers, Record(h) PROVE FALSE
    BY <1>1, <2>3 DEF Record, GateInv, ChosenIsFree, Chosen
  <2>4. ASSUME NEW h \in Handlers, RemoveFree(h) PROVE device'[s] = NoDev
    BY <1>1, <2>4 DEF RemoveFree
  <2>5. ASSUME NEW h \in Handlers, RemoveWipe(h) PROVE device'[s] = NoDev
    BY <1>1, <2>5 DEF RemoveWipe
  <2>6. ASSUME NEW h \in Handlers, Handler(h) PROVE device'[s] = NoDev
    <3>1. Record(h) \/ RemoveFree(h) \/ RemoveWipe(h)
      BY <1>1, <2>6 DEF Handler, Ignore, Identify, GateWait, GatePass, GateEnter, Proto0, Proto1,
         RunProto, Source0, Source1, Pick, Switch, Activate, Open, Launch, CreateBegin,
         CreateMore, CreateEnd, RemoveFind, RemoveKill, RemoveScan, RemoveClean
    <3> QED
      BY <3>1, <2>3, <2>4, <2>5
  <2>7. ASSUME NEW r \in Restarters, Restart(r) PROVE FALSE
    BY <1>1, <2>7 DEF Restart, RestartBegin, RestartMark, RestartDone
  <2>8. ~ UNCHANGED vars
    BY <1>1 DEF vars
  <2> QED
    BY <1>1, <2>1, <2>2, <2>6, <2>7, <2>8 DEF Next
<1>2. TypeOK /\ GateInv /\ [Next]_vars =>
        [\A s \in Slots :
           (device[s] # NoDev /\ device'[s] # device[s])
              => device'[s] = NoDev \/ "overlap" \in anomaly]_vars
  BY <1>1
<1> QED
  BY <1>2, TypeCorrect, GateInvariant, PTL DEF Spec, NoSlotOverwritten
-------------------------------------------------------------------------------
(***************************************************************************)
(* /tmp/usbwait.  Whoever leaves the inside removes the file or leaves an  *)
(* anomaly behind; that an event does not start a handler that is inside   *)
(* already has to be known as well.                                        *)
(***************************************************************************)
NotStarted == \A h \in Handlers : h > started => pc[h] = "none"

\* The exits that leave the file, and those who may own it.
LeftBehind == anomaly \cap {"duplicate", "full", "leftopen", "aborted", "hung"} # {}
Owned == \/ \E h \in Handlers : pc[h] \in Inside
         \/ \E r \in Restarters : rpc[r] = "wait"

OwnerInv == NotStarted /\ UsbwaitHasOwner

\* Anomalies are never forgotten.
LEMMA AnomaliesStay ==
  ASSUME [Next]_vars, LeftBehind
  PROVE  LeftBehind'
<1>1. anomaly \subseteq anomaly'
  <2> USE DEF bus, table, restart, Exit, Forget, Blame
  <2>1. CASE Boot  BY <2>1 DEF Boot
  <2>2. ASSUME NEW d \in Devices, PlugIn(d) \/ Unplug(d) PROVE anomaly \subseteq anomaly'
    BY <2>2 DEF PlugIn, Unplug, Event
  <2>3. ASSUME NEW h \in Handlers, Handler(h) PROVE anomaly \subseteq anomaly'
    BY <2>3 DEF Handler, Ignore, Identify, GateWait, GatePass, GateEnter, Proto0, Proto1,
       RunProto, Source0, Source1, Pick, Switch, Record, Activate, Open, Launch,
       CreateBegin, CreateMore, CreateEnd, RemoveFind, RemoveFree, RemoveKill,
       RemoveScan, RemoveWipe, RemoveClean
  <2>4. ASSUME NEW r \in Restarters, Restart(r) PROVE anomaly \subseteq anomaly'
    BY <2>4 DEF Restart, RestartBegin, RestartMark, RestartDone
  <2>5. CASE UNCHANGED vars  BY <2>5 DEF vars
  <2> QED  BY <2>1, <2>2, <2>3, <2>4, <2>5 DEF Next
<1> QED  BY <1>1 DEF LeftBehind

\* An event takes the next number, and every other step is of a handler that runs.
LEMMA NotStartedStep ==
  ASSUME TypeOK, NotStarted, [Next]_vars
  PROVE  NotStarted'
<1> USE BoundsAssumption DEF TypeOK, NotStarted, Handlers, bus, table, restart, Goto, Exit
<1>1. CASE Boot  BY <1>1 DEF Boot
<1>2. ASSUME NEW d \in Devices, PlugIn(d) \/ Unplug(d) PROVE NotStarted'
  BY <1>2 DEF PlugIn, Unplug, Event
<1>3. ASSUME NEW h \in Handlers, Handler(h) PROVE NotStarted'
  <2>1. started' = started  BY <1>3 DEF Handler, Ignore, Identify, GateWait, GatePass,
       GateEnter, Proto0, Proto1,
       RunProto, Source0, Source1, Pick, Switch, Record, Activate, Open, Launch,
       CreateBegin, CreateMore, CreateEnd, RemoveFind, RemoveFree, RemoveKill,
       RemoveScan, RemoveWipe, RemoveClean
  <2>2. CASE RemoveKill(h)  BY <2>1, <2>2 DEF RemoveKill, Creating
  <2>3. CASE ~RemoveKill(h)
    <3>1. /\ pc[h] # "none"
          /\ \E l \in PCs : pc' = [pc EXCEPT ![h] = l] \/ pc' = pc
      BY <1>3, <2>3 DEF Handler, Ignore, Identify, GateWait, GatePass, GateEnter, Proto0,
         Proto1, RunProto, Source0, Source1, Pick, Switch, Record, Activate, Open, Launch,
         CreateBegin, CreateMore, CreateEnd, RemoveFind, RemoveFree,
         RemoveScan, RemoveWipe, RemoveClean, PCs, AddPCs, RemovePCs
    <3> QED  BY <2>1, <3>1
  <2> QED  BY <2>2, <2>3
<1>4. ASSUME NEW r \in Restarters, Restart(r) PROVE NotStarted'
  BY <1>4 DEF Restart, RestartBegin, RestartMark, RestartDone
<1>5. CASE UNCHANGED vars  BY <1>5 DEF vars
<1> QED  BY <1>1, <1>2, <1>3, <1>4, <1>5 DEF Next

\* The file has an owner after every step (modeswitch.sh 263-274, 314, 422, 507,
\* 525, 683; restartrun.sh 144, 222-225; create_connect.sh 455).
LEMMA OwnerStep ==
  ASSUME TypeOK, OwnerInv, [Next]_vars, usbwait'
  PROVE  Owned' \/ LeftBehind'
<1> DEFINE Goal == Owned' \/ LeftBehind'
<1>a. CASE LeftBehind  BY <1>a, AnomaliesStay
<1>b. CASE ~LeftBehind
  <2>1. usbwait => Owned
    BY <1>b DEF OwnerInv, UsbwaitHasOwner, Owned, LeftBehind
  <2> USE <2>1 DEF TypeOK, Owned, Inside, usbwait, bus, table, restart, Goto, Exit
  <2>2. CASE Boot  BY <2>2 DEF Boot
  <2>3. ASSUME NEW d \in Devices, PlugIn(d) \/ Unplug(d) PROVE Goal
    BY <2>3, BoundsAssumption DEF PlugIn, Unplug, Event, Handlers, OwnerInv, NotStarted
  <2>4. ASSUME NEW h \in Handlers, Handler(h) PROVE Goal
    <3>1. CASE \/ Ignore(h) \/ Identify(h) \/ GateWait(h) \/ GatePass(h)
               \/ Activate(h) \/ RemoveFind(h) \/ RemoveFree(h) \/ RemoveScan(h)
               \/ RemoveWipe(h) \/ CreateEnd(h)
      BY <3>1 DEF Ignore, Identify, GateWait, GatePass, Activate, RemoveFind, RemoveFree,
                  RemoveScan, RemoveWipe, CreateEnd
    <3>2. CASE GateEnter(h) \/ Switch(h)  BY <3>2 DEF GateEnter, Switch
    <3>3. CASE Proto0(h)  BY <3>3 DEF Proto0, RunProto, Blame, LeftBehind
    <3>4. CASE Proto1(h)  BY <3>4 DEF Proto1, RunProto, Blame, LeftBehind
    <3>5. CASE Source0(h)  BY <3>5 DEF Source0, LeftBehind
    <3>6. CASE Source1(h)  BY <3>6 DEF Source1, Blame, LeftBehind
    <3>7. CASE Pick(h)  BY <3>7 DEF Pick, Blame, LeftBehind
    <3>8. CASE Record(h)  BY <3>8 DEF Record
    <3>9. CASE Open(h) \/ CreateBegin(h) \/ CreateMore(h) \/ RemoveClean(h)
      BY <3>9 DEF Open, CreateBegin, CreateMore, RemoveClean
    <3>10. CASE Launch(h)  BY <3>10 DEF Launch
    <3>11. CASE RemoveKill(h)  BY <3>11 DEF RemoveKill, Creating
    <3> QED
      BY <2>4, <3>1, <3>2, <3>3, <3>4, <3>5, <3>6, <3>7, <3>8, <3>9, <3>10, <3>11
         DEF Handler
  <2>5. ASSUME NEW r \in Restarters, Restart(r) PROVE Goal
    BY <2>5 DEF Restart, RestartBegin, RestartMark, RestartDone
  <2>6. CASE UNCHANGED vars  BY <2>6 DEF vars
  <2> QED  BY <2>2, <2>3, <2>4, <2>5, <2>6 DEF Next
<1> QED  BY <1>a, <1>b

\* /tmp/usbwait never outlives whoever needs it, but for the exits that leave it
\* behind, for any number of ports, slots, events and restarts.
THEOREM UsbwaitOwned == Spec => []UsbwaitHasOwner
<1>1. Init => OwnerInv
  BY DEF Init, OwnerInv, NotStarted, UsbwaitHasOwner, usbwait
<1>2. TypeOK /\ OwnerInv /\ [Next]_vars => OwnerInv'
  BY NotStartedStep, OwnerStep DEF OwnerInv, UsbwaitHasOwner, Owned, LeftBehind
<1>3. OwnerInv => UsbwaitHasOwner  BY DEF OwnerInv
<1> QED  BY <1>1, <1>2, <1>3, TypeCorrect, PTL DEF Spec
===============================================================================
