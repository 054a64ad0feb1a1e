------------------------------- MODULE Watchdog -------------------------------
(***************************************************************************)
(* Dialling a modem under the connection watchdog: the APN loop of         *)
(* create_connect.sh, the netifd handlers qmi.sh and mbim.sh, chkconn.sh   *)
(* and chkconn1.sh, the restart of a modem and the handler of its removal. *)
(*                                                                         *)
(* chkconn.sh is a process of its own, which starts the watchdog,          *)
(* chkconn1.sh, unless one runs; `ps' lists each kind, those of all modems,*)
(* in the order they were started in.  All restarts share /tmp/usbwait.    *)
(***************************************************************************)
EXTENDS Naturals, Sequences, SequencesExt

CONSTANTS Modems,     \* the modem numbers, CURRMODEM
          Outfits,    \* how the modems of a router may be dialled, see Kinds
          Apns,       \* number of entries of isplist
          Looks,      \* how often the watchdog looks at `connected' (8 or 11)
          MaxChecks,  \* bound: how many chkconn.sh run at a time
          MaxPlugs    \* bound: how often modems are plugged in

\* "script": create_connect.sh dials (protocols 1, 4, 6, 7, 24, 26, 27, 28);
\* "netifd": netifd does (2, 30); "noport": MBIM without a comm port (3).
Kinds == {"script", "netifd", "noport"}

ASSUME WatchdogAssumption ==
  /\ Outfits \subseteq [Modems -> Kinds]
  /\ Apns \in Nat \ {0} /\ Looks \in Nat \ {0} /\ MaxChecks \in Nat \ {0}
  /\ MaxPlugs \in Nat

VARIABLES kind,       \* how each modem is dialled
          plugs,      \* how often modems have been plugged in
          bus,        \* is the device on the bus, or leaving it after a reset
          empty,      \* the modems with modem.modem<m>.empty=1
          connected,  \* the modems with connected=1
          pc,         \* create_connect.sh of each modem, "none" if it does not run
          apns,       \* how many entries of isplist it has not tried
          setup,      \* the modems netifd is setting up
          checks,     \* the modems of the running chkconn.sh, as ps lists them
          dogs,       \* the modems of the running chkconn1.sh, as ps lists them
          looks,      \* how many looks each of them has left
          waiting,    \* the dogs that wait in restartrun.sh
          usbwait,    \* /tmp/usbwait exists
          freeing,    \* the modems with a remove handler before its line 619
          killing,    \* the modems with one between lines 621 and 676
          seen,       \* history: looks at a modem in use since it was plugged in
          dialled,    \* history: the modems in use that have been dialled
          unwatched,  \* history: the modems in use whose watchdog was killed, before
                      \* or after it was started, was not started, or is done
          spared      \* history: the dogs left over from before their modem was
                      \* plugged in: a removal killed another one, or they were
                      \* started after it, or the modem was back before it

table == <<empty, connected>>
create == <<pc, apns>>
dog == <<checks, dogs, looks, waiting, seen, unwatched, spared>>
removal == <<freeing, killing>>
vars == <<kind, plugs, bus, table, create, setup, dog, usbwait, removal, dialled>>

Listed(ps) == {ps[i] : i \in DOMAIN ps}
Dogs == Listed(dogs)
Checks == Listed(checks)

Init ==
  /\ kind \in Outfits /\ plugs = 0
  /\ bus = [m \in Modems |-> "out"] /\ empty = Modems /\ connected = {}
  /\ pc = [m \in Modems |-> "none"] /\ apns = [m \in Modems |-> 0]
  /\ setup = {} /\ usbwait = FALSE /\ freeing = {} /\ killing = {}
  /\ checks = <<>> /\ dogs = <<>> /\ looks = [m \in Modems |-> 0] /\ waiting = {}
  /\ seen = [m \in Modems |-> 0] /\ dialled = {} /\ unwatched = {} /\ spared = {}

Goto(m, p) == pc' = [pc EXCEPT ![m] = p]

\* create_connect.sh of m ends, or is killed.
End(m) == Goto(m, "none") /\ apns' = [apns EXCEPT ![m] = 0]

\* All chkconn.sh but these are killed; the modems that lose theirs before it has
\* started a watchdog have none.
KillChecks(rest) ==
  /\ checks' = rest
  /\ unwatched' = unwatched \cup (Checks \ (Dogs \cup Listed(rest) \cup empty))

\* ps |grep "chkconn.sh" | head -n 1
AllButFirst == IF checks = <<>> THEN <<>> ELSE Tail(checks)

-----------------------------------------------------------------------------
(***************************************************************************)
(* modeswitch.sh records the modem, kills the first chkconn.sh, whosever   *)
(* it is, and starts create_connect.sh, which finds its ports and its      *)
(* profile first.  The handler of an earlier removal from the slot may not *)
(* have come to its kills yet.                                             *)
(***************************************************************************)
Plug(m) ==
  /\ bus[m] = "out" /\ m \in empty
  /\ plugs < MaxPlugs /\ plugs' = plugs + 1
  /\ bus' = [bus EXCEPT ![m] = "in"]
  /\ empty' = empty \ {m} /\ connected' = connected \ {m}
  /\ KillChecks(AllButFirst)
  /\ usbwait' = FALSE
  /\ Goto(m, "prepare")
  /\ spared' = spared \cup (Dogs \cap killing \cap {m})
  /\ UNCHANGED <<kind, apns, setup, dogs, looks, waiting, seen, removal, dialled>>

\* A device that is no modem: the handler kills the first chkconn.sh all the same.
OtherDevice ==
  /\ KillChecks(AllButFirst)
  /\ usbwait' = FALSE
  /\ UNCHANGED <<kind, plugs, bus, table, create, setup, dogs, looks, waiting, seen, spared,
                 removal, dialled>>

\* Without a comm port lines 835 to 1035 are skipped: isplist is empty, and so
\* is the loop, and BRK has no value.
Prepare(m) ==
  /\ pc[m] = "prepare"
  /\ \/ kind[m] = "noport" /\ Goto(m, "up") /\ UNCHANGED apns
     \/ /\ kind[m] # "noport" /\ Goto(m, "dial")
        /\ apns' = [apns EXCEPT ![m] = Apns]
     \* detect=1, a SIM error, a disabled modem, a refused PIN
     \/ End(m)
  /\ UNCHANGED <<kind, plugs, bus, table, setup, dog, usbwait, removal, dialled>>

\* chkconn.sh is started in the background.
Dial(m) ==
  /\ pc[m] = "dial" /\ Len(checks) < MaxChecks
  /\ checks' = Append(checks, m)
  /\ dialled' = dialled \cup ({m} \ empty)
  /\ \/ /\ kind[m] = "script"
        /\ Goto(m, "attempt")
        /\ UNCHANGED <<apns, connected, setup, usbwait>>
     \/ /\ kind[m] = "netifd"
        /\ usbwait' = FALSE
        /\ setup' = setup \cup {m} /\ connected' = connected \ {m}
        /\ End(m)
  /\ UNCHANGED <<kind, plugs, bus, empty, dogs, looks, waiting, seen, unwatched, spared,
                 removal>>

\* BRK=1: the next entry of isplist, or the end of the script.
AttemptFails(m) ==
  /\ pc[m] = "attempt"
  /\ \/ apns[m] > 1 /\ Goto(m, "dial") /\ apns' = [apns EXCEPT ![m] = @ - 1]
     \/ apns[m] = 1 /\ End(m)
  /\ UNCHANGED <<kind, plugs, bus, table, setup, dog, usbwait, removal, dialled>>

AttemptSucceeds(m) ==
  /\ pc[m] = "attempt" /\ bus[m] = "in"
  /\ Goto(m, "up")
  /\ UNCHANGED <<kind, plugs, bus, table, apns, setup, dog, usbwait, removal, dialled>>

\* The monitors are started and connected=1 is set.
Up(m) ==
  /\ pc[m] = "up"
  /\ End(m)
  /\ connected' = connected \cup {m}
  /\ UNCHANGED <<kind, plugs, bus, empty, setup, dog, usbwait, removal, dialled>>

-----------------------------------------------------------------------------
(***************************************************************************)
(* luci/restart.sh and restartrun.sh, by whatever calls them: every        *)
(* chkconn.sh is killed.  The reset takes the modem off the bus, unless    *)
(* the modem ignores it.                                                   *)
(***************************************************************************)
Restart(m) ==
  /\ m \notin empty
  /\ KillChecks(<<>>)
  /\ usbwait' = TRUE
  /\ setup' = setup \ {m}
  /\ \/ bus[m] = "in" /\ bus' = [bus EXCEPT ![m] = "leaving"]
     \/ UNCHANGED bus

\* conmon.sh, the ping test or the user.
Reconnect(m) ==
  /\ Restart(m)
  /\ UNCHANGED <<kind, plugs, table, create, dogs, looks, waiting, seen, spared, removal,
                 dialled>>

(***************************************************************************)
(* proto_qmi_setup and proto_mbim_setup.                                   *)
(***************************************************************************)
SetupSucceeds(m) ==
  /\ m \in setup /\ bus[m] = "in"
  /\ connected' = connected \cup {m}
  /\ setup' = setup \ {m}
  /\ usbwait' = FALSE
  /\ UNCHANGED <<kind, plugs, bus, empty, create, dog, removal, dialled>>

\* netifd sets the interface up anew after a drop; a failed call it repeats.
SetupAgain(m) ==
  /\ kind[m] = "netifd" /\ m \in dialled \ setup /\ m \notin empty
  /\ setup' = setup \cup {m} /\ connected' = connected \ {m}
  /\ UNCHANGED <<kind, plugs, bus, empty, create, dog, usbwait, removal, dialled>>

RegistrationFails(m) ==
  /\ m \in setup
  /\ \/ Restart(m)
     \* While the setup wizard runs: the first chkconn.sh is killed instead, and
     \* the interface wan1, whichever modem n has it, is taken down.
     \/ /\ \E n \in Modems : setup' = setup \ {m, n}
        /\ KillChecks(AllButFirst)
        /\ UNCHANGED <<bus, usbwait>>
  /\ UNCHANGED <<kind, plugs, table, create, dogs, looks, waiting, seen, spared, removal,
                 dialled>>

-----------------------------------------------------------------------------
(***************************************************************************)
(* chkconn.sh and chkconn1.sh.                                             *)
(***************************************************************************)
EndCheck(m) == \E i \in DOMAIN checks : checks[i] = m /\ checks' = RemoveAt(checks, i)

\* chkconn1.sh reads an option modem.modem<m>.watchdog, which nothing sets, and
\* goes on.
StartDog(m) ==
  /\ dogs' = Append(dogs, m) /\ looks' = [looks EXCEPT ![m] = Looks]
  /\ unwatched' = unwatched \ {m}
  /\ spared' = spared \cup ({m} \cap (empty \ killing))
  /\ UNCHANGED <<kind, plugs, bus, table, create, setup, waiting, seen, usbwait, removal, dialled>>

\* Mutant: chkconn.sh counts the watchdogs of all modems.
ChkconnAny(m) ==
  /\ EndCheck(m)
  /\ \/ /\ dogs # <<>>
        /\ UNCHANGED <<dogs, looks, unwatched, spared, kind, plugs, bus, table, create, setup,
                       waiting, seen, usbwait, removal, dialled>>
     \/ dogs = <<>> /\ StartDog(m)

\* Mutant: chkconn.sh does not look for a running one.
ChkconnAlways(m) == EndCheck(m) /\ StartDog(m)

\* chkconn.sh starts chkconn1.sh <m> unless one runs; a dog that is just
\* restarting the modem counts as running.
Chkconn(m) ==
  /\ EndCheck(m)
  /\ \/ /\ m \in Dogs
        /\ unwatched' = unwatched \cup (({m} \cap waiting) \ empty)
        /\ UNCHANGED <<dogs, looks, spared, kind, plugs, bus, table, create, setup, waiting, seen,
                       usbwait, removal, dialled>>
     \/ m \notin Dogs /\ StartDog(m)

EndDog(m) ==
  /\ \E i \in DOMAIN dogs : dogs[i] = m /\ dogs' = RemoveAt(dogs, i)
  /\ looks' = [looks EXCEPT ![m] = 0]
  /\ waiting' = waiting \ {m} /\ spared' = spared \ {m}

\* Mutant: the looks are not counted.
DogLookForever(m) ==
  /\ m \in Dogs \ waiting /\ looks[m] > 0
  /\ \/ /\ m \in connected
        /\ EndDog(m)
        /\ unwatched' = unwatched \cup ({m} \ empty)
        /\ UNCHANGED seen
     \/ /\ m \notin connected
        /\ seen' = [seen EXCEPT ![m] = IF m \in empty \/ @ = Looks THEN @ ELSE @ + 1]
        /\ UNCHANGED <<dogs, looks, waiting, spared, unwatched>>
  /\ UNCHANGED <<kind, plugs, bus, table, create, setup, checks, usbwait, removal, dialled>>

DogLook(m) ==
  /\ m \in Dogs \ waiting /\ looks[m] > 0
  /\ \/ /\ m \in connected
        /\ EndDog(m)
        /\ unwatched' = unwatched \cup ({m} \ empty)
        /\ UNCHANGED seen
     \/ /\ m \notin connected
        /\ looks' = [looks EXCEPT ![m] = @ - 1]
        /\ seen' = [seen EXCEPT ![m] = IF m \in empty \/ @ = Looks THEN @ ELSE @ + 1]
        /\ UNCHANGED <<dogs, waiting, spared, unwatched>>
  /\ UNCHANGED <<kind, plugs, bus, table, create, setup, checks, usbwait, removal, dialled>>

\* After the last sleep the modem is restarted without another look.
DogRestarts(m) ==
  /\ m \in Dogs \ waiting /\ looks[m] = 0
  /\ \/ /\ m \in empty
        /\ EndDog(m)
        /\ UNCHANGED <<bus, setup, usbwait, checks, unwatched>>
     \/ /\ Restart(m)
        /\ waiting' = waiting \cup {m}
        /\ UNCHANGED <<dogs, looks, spared>>
  /\ UNCHANGED <<kind, plugs, table, create, seen, removal, dialled>>

\* restartrun.sh ends when usbwait is gone.
DogEnds(m) ==
  /\ m \in waiting /\ ~usbwait
  /\ EndDog(m)
  /\ unwatched' = unwatched \cup ({m} \ empty)
  /\ UNCHANGED <<kind, plugs, bus, table, create, setup, checks, seen, usbwait, removal, dialled>>

-----------------------------------------------------------------------------
(***************************************************************************)
(* A modem goes: the remove handler of modeswitch.sh.                      *)
(***************************************************************************)
Unplug(m) ==
  /\ bus[m] \in {"in", "leaving"} /\ m \notin empty
  /\ bus' = [bus EXCEPT ![m] = "out"]
  /\ freeing' = freeing \cup {m}
  /\ UNCHANGED <<kind, plugs, table, create, setup, dog, usbwait, killing, dialled>>

\* Of two handlers of one slot the earlier one is ahead.
Free(m) ==
  /\ m \in freeing \ killing
  /\ freeing' = freeing \ {m} /\ killing' = killing \cup {m}
  /\ empty' = empty \cup {m} /\ connected' = connected \ {m}
  /\ setup' = setup \ {m}
  /\ seen' = [seen EXCEPT ![m] = 0]
  /\ dialled' = dialled \ {m} /\ unwatched' = unwatched \ {m}
  /\ UNCHANGED <<kind, plugs, bus, create, checks, dogs, looks, waiting, spared, usbwait>>

\* Mutant: the watchdog is not killed.
KillNoDog(m) ==
  /\ m \in killing
  /\ killing' = killing \ {m}
  /\ End(m)
  /\ usbwait' = FALSE
  /\ UNCHANGED <<kind, plugs, bus, table, setup, dog, freeing, dialled>>

\* create_proto<m> and the first chkconn1.sh that ps shows are killed.
Kill(m) ==
  /\ m \in killing
  /\ killing' = killing \ {m}
  /\ End(m)
  /\ \/ dogs = <<>> /\ UNCHANGED <<dogs, looks, waiting, unwatched, spared>>
     \/ /\ dogs # <<>>
        /\ dogs' = Tail(dogs) /\ waiting' = waiting \ {Head(dogs)}
        /\ looks' = [looks EXCEPT ![Head(dogs)] = 0]
        /\ unwatched' = unwatched \cup ({Head(dogs)} \ empty)
        /\ spared' = (spared \cup (Dogs \cap empty \cap {m})) \ {Head(dogs)}
  /\ usbwait' = FALSE
  /\ UNCHANGED <<kind, plugs, bus, table, setup, checks, seen, freeing, dialled>>

-----------------------------------------------------------------------------
Connecting(m) == \/ Prepare(m) \/ Dial(m) \/ AttemptFails(m)
                 \/ AttemptSucceeds(m) \/ Up(m)
Netifd(m) == SetupSucceeds(m) \/ SetupAgain(m) \/ RegistrationFails(m)
Watching(m) == Chkconn(m) \/ DogLook(m) \/ DogRestarts(m) \/ DogEnds(m)
Removing(m) == Free(m) \/ Kill(m)

Next == \/ \E m \in Modems : \/ Plug(m) \/ Connecting(m) \/ Netifd(m)
                             \/ Reconnect(m) \/ Watching(m) \/ Unplug(m)
                             \/ Removing(m)
        \/ OtherDevice

Spec == Init /\ [][Next]_vars

\* chkconn.sh and the watchdogs go on.
Fairness == \A m \in Modems : WF_vars(Watching(m))

FairSpec == Spec /\ Fairness

-----------------------------------------------------------------------------
\* Types; no modem has two watchdogs, and only a running one waits or was
\* spared (chkconn.sh 7-10).
TypeOK ==
  /\ kind \in Outfits /\ plugs \in 0..MaxPlugs
  /\ bus \in [Modems -> {"out", "in", "leaving"}]
  /\ empty \subseteq Modems /\ connected \subseteq Modems
  /\ pc \in [Modems -> {"none", "prepare", "dial", "attempt", "up"}]
  /\ apns \in [Modems -> 0..Apns] /\ setup \subseteq Modems
  /\ checks \in Seq(Modems) /\ Len(checks) <= MaxChecks
  /\ dogs \in Seq(Modems) /\ \A i, j \in DOMAIN dogs : dogs[i] = dogs[j] => i = j
  /\ looks \in [Modems -> 0..Looks] /\ seen \in [Modems -> 0..Looks]
  /\ waiting \subseteq Dogs /\ spared \subseteq Dogs
  /\ unwatched \subseteq Modems /\ dialled \subseteq Modems
  /\ usbwait \in BOOLEAN
  /\ freeing \subseteq Modems /\ killing \subseteq Modems

\* The watchdog restarts a modem only after it has seen it unconnected for the
\* whole of its time since the modem was plugged in, unless it is left over
\* from before that because the remove handler killed another one, or came
\* before it was started or after the modem was back (chkconn1.sh 26-37,
\* modeswitch.sh 676).
FullTime ==
  \A m \in Dogs \ (waiting \cup empty \cup spared) : looks[m] = 0 => seen[m] = Looks

\* A modem that is being dialled has a watchdog or a chkconn.sh that is about to
\* start one, unless either was killed, the watchdog has restarted the modem or
\* seen it connected, or was busy restarting it when chkconn.sh looked
\* (create_connect.sh 1142, chkconn.sh 7-10, modeswitch.sh 500 and 676, restartrun.sh 142).
Watched ==
  \A m \in Modems : (pc[m] = "attempt" /\ m \notin empty)
                       => m \in Checks \cup Dogs \cup unwatched

\* A modem that is dialled is eventually connected, gone or reset, unless it
\* has lost its watchdog or the chkconn.sh that was to start it, or has been seen
\* connected by it (chkconn.sh, chkconn1.sh, restartrun.sh).
DialEnds ==
  \A m \in Modems :
    m \in dialled ~> (m \in connected \cup empty \cup waiting \cup unwatched
                        \/ bus[m] # "in")
=============================================================================
