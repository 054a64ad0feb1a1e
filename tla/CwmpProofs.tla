----------------------------- MODULE CwmpProofs -----------------------------
(***************************************************************************)
(* Proofs about Cwmp, for all sets of requests and all bounds: no accepted *)
(* transfer is forgotten, none is run or answered again unless the process *)
(* died before it saved that, and the daemon implements TransferLedger;    *)
(* then, with the list of events and its nodes in the file, the types, the *)
(* BOOTSTRAP that is owed, the timer of an idle daemon, the events of      *)
(* reported transfers, and that the file agrees with the list.             *)
(***************************************************************************)
EXTENDS Cwmp, SequenceTheorems, FiniteSetTheorems, TLAPS

\* The part of the types the argument needs; what the lists of events hold
\* plays no role in it.
LedgerTypes ==
  /\ tree = [acs |-> tree.acs, events |-> tree.events,
             transfers |-> tree.transfers, tcs |-> tree.tcs]
  /\ tree.transfers \subseteq Transfers
  /\ tree.tcs \subseteq Report
  /\ fate \in [Transfers -> {"none", "reported", "lost"} \cup Underway]
  /\ again \subseteq Transfers
  /\ methodId \in Nat
  /\ ret \in {"start", "reload", "session"}

\* A timer belongs to a request on file; a callback that has not yet removed
\* its request still finds it there and has no timer left; and so does a
\* session with the report it is about to remove.
TimersOnFile ==
  /\ armed \subseteq tree.transfers
  /\ pc \in Launching => cur \in Transfers
  /\ pc \in {"launch", "ran"} => cur \in tree.transfers /\ cur \notin armed
  /\ pc \in {"ran", "report"} => fate[cur] = "ran"
  /\ pc = "answered" => [key |-> cur, id |-> ackId] \in tree.tcs

LedgerInv == LedgerTypes /\ TimersOnFile /\ NothingForgotten /\ RunsOnce

\* The points where what is being done with a transfer is not yet on file.
Unsettled == Launching \cup {"answered"}

\* A step outside those points that leaves requests, reports and fates alone.
Quiet ==
  /\ tree' = [acs |-> tree'.acs, events |-> tree'.events,
              transfers |-> tree.transfers, tcs |-> tree.tcs]
  /\ tree'.transfers = tree.transfers /\ tree'.tcs = tree.tcs
  /\ fate' = fate /\ again' = again /\ methodId' = methodId /\ armed' = armed
  /\ pc \notin Unsettled /\ pc' \notin Unsettled
  /\ ret' \in {"start", "reload", "session"}

-----------------------------------------------------------------------------
\* The steps of a session, of the start and of an idle daemon that only touch
\* events, timers and flags.
LEMMA QuietSteps ==
  ASSUME LedgerInv,
         \/ SendInform \/ ClearInformed \/ ClearReported \/ SendGetRpcMethods
         \/ GetRpcMethodsAnswered \/ EmptyMessage \/ Ended \/ Bootstrap
         \/ CheckVersion \/ Started \/ ScheduledMethod
         \/ HandleReboot \/ HandleFactoryReset \/ HandleSetParameter
         \/ \E s \in Schedules : HandleScheduleInform(s)
         \/ \E c \in Unsaved : AddUnsaved(c)
         \/ PassiveNotification \/ PeriodicInform \/ Reload
         \/ \E timer \in {"inform", "retry"} : DoInform(timer)
         \/ \E s \in Schedules : ScheduledInform(s)
         \/ Fail
  PROVE  Quiet
<1> USE DEF LedgerInv, LedgerTypes, Quiet, Launching, Unsettled, mem, loop, sess, ctl,
            hist
<1>1. CASE SendInform  BY <1>1 DEF SendInform
<1>2. CASE ClearInformed  BY <1>2 DEF ClearInformed, RemoveEvent
<1>3. CASE ClearReported  BY <1>3 DEF ClearReported, RemoveEvent
<1>4. CASE SendGetRpcMethods  BY <1>4 DEF SendGetRpcMethods
<1>5. CASE GetRpcMethodsAnswered  BY <1>5 DEF GetRpcMethodsAnswered
<1>6. CASE EmptyMessage  BY <1>6 DEF EmptyMessage
<1>7. CASE Ended  BY <1>7 DEF Ended
<1>8. CASE Bootstrap  BY <1>8 DEF Bootstrap, AddSaved
<1>9. CASE CheckVersion  BY <1>9 DEF CheckVersion
<1>10. CASE Started  BY <1>10 DEF Started, AddSaved
<1>11. CASE ScheduledMethod  BY <1>11 DEF ScheduledMethod, AddSaved
<1>12. CASE HandleReboot  BY <1>12 DEF HandleReboot
<1>13. CASE HandleFactoryReset  BY <1>13 DEF HandleFactoryReset
<1>14. CASE HandleSetParameter  BY <1>14 DEF HandleSetParameter
<1>15. CASE \E s \in Schedules : HandleScheduleInform(s)
  BY <1>15 DEF HandleScheduleInform
<1>16. CASE \E c \in Unsaved : AddUnsaved(c)  BY <1>16 DEF AddUnsaved
<1>17. CASE PassiveNotification  BY <1>17 DEF PassiveNotification
<1>18. CASE PeriodicInform  BY <1>18 DEF PeriodicInform, AddSaved
<1>19. CASE Reload  BY <1>19 DEF Reload
<1>20. CASE \E timer \in {"inform", "retry"} : DoInform(timer)
  BY <1>20 DEF DoInform
<1>21. CASE \E s \in Schedules : ScheduledInform(s)
  BY <1>21 DEF ScheduledInform, AddSaved
<1>22. CASE Fail  BY <1>22 DEF Fail
<1> QED  BY <1>1, <1>2, <1>3, <1>4, <1>5, <1>6, <1>7, <1>8, <1>9, <1>10, <1>11,
            <1>12, <1>13, <1>14, <1>15, <1>16, <1>17, <1>18, <1>19, <1>20,
            <1>21, <1>22

\* Nothing of the file changes when the process ends, and the transfer
\* between its two saves is lost.
LEMMA CrashKeepsInv ==
  ASSUME LedgerInv, Crash
  PROVE  LedgerInv'
<1> USE DEF LedgerInv, LedgerTypes, TimersOnFile, Crash, Exit, Launching
<1>0. InWindow \subseteq Transfers /\ Midway \subseteq Transfers
  BY DEF InWindow, Midway, Report
<1>1. /\ InWindow' = {} /\ Midway' = {} /\ tree' = tree
      /\ fate' = Lost(InWindow) /\ again' = again \cup Midway
  BY DEF InWindow, Midway
<1>2. \A t \in Transfers : /\ t \notin InWindow => fate'[t] = fate[t]
                           /\ t \in InWindow => fate'[t] = "lost"
  BY <1>1 DEF Lost
<1>3. LedgerTypes'
  BY <1>0, <1>1 DEF Lost
<1>4. TimersOnFile'  OBVIOUS
<1>5. NothingForgotten'
  <2>1. Pending' = Pending \ InWindow
    BY <1>2 DEF Pending, Underway
  <2> QED  BY <1>1, <2>1 DEF NothingForgotten, RunsOnce
<1>6. RunsOnce'
  <2>1. /\ \A t \in tree.transfers : fate'[t] = fate[t]
        /\ \A r \in tree.tcs : fate'[r.key] = fate[r.key]
    BY <1>2 DEF RunsOnce, Report
  <2> QED  BY <1>1, <2>1 DEF RunsOnce
<1> QED  BY <1>3, <1>4, <1>5, <1>6

\* A new or an unreadable file: everything pending is lost.
Wiped ==
  /\ \E u : tree' = EmptyTree(u)
  /\ fate' = Lost(Pending) /\ again' = again
  /\ armed' = {}
  /\ pc' \notin Unsettled
  /\ methodId' \in Nat /\ ret' \in {"start", "reload", "session"}

LEMMA WipedKeepsInv ==
  ASSUME LedgerInv, Wiped
  PROVE  LedgerInv'
<1> USE DEF LedgerInv, LedgerTypes, Wiped, EmptyTree, Unsettled, Launching
<1>1. Pending' = {}  BY DEF Pending, Lost, Underway
<1>2. InWindow' = {}  BY DEF InWindow
<1>3. LedgerTypes'  BY DEF Lost
<1>4. TimersOnFile'  BY DEF TimersOnFile
<1> QED  BY <1>1, <1>2, <1>3, <1>4 DEF NothingForgotten, RunsOnce

\* A step that leaves requests, reports and fates alone wherever it is.
Calm ==
  /\ tree' = [acs |-> tree'.acs, events |-> tree'.events,
              transfers |-> tree.transfers, tcs |-> tree.tcs]
  /\ tree'.transfers = tree.transfers /\ tree'.tcs = tree.tcs
  /\ fate' = fate /\ again' = again
  /\ methodId' \in Nat /\ armed' \subseteq tree.transfers
  /\ InWindow' = InWindow /\ Midway' = Midway
  /\ pc' \in {"ran", "report", "answered"} =>
       pc' = pc /\ cur' = cur /\ ackId' = ackId
  /\ pc' \in Launching => cur' \in Transfers
  /\ pc' \in {"launch", "ran"} => cur' \in tree.transfers /\ cur' \notin armed'
  /\ ret' \in {"start", "reload", "session"}

LEMMA CalmKeepsInv ==
  ASSUME LedgerInv, Calm
  PROVE  LedgerInv'
<1>1. LedgerTypes' /\ TimersOnFile'
  BY DEF LedgerInv, LedgerTypes, TimersOnFile, Calm
<1>2. NothingForgotten'  BY DEF LedgerInv, NothingForgotten, Calm, Pending
<1>3. RunsOnce'  BY DEF LedgerInv, RunsOnce, Calm
<1> QED  BY <1>1, <1>2, <1>3 DEF LedgerInv

LEMMA CalmSteps ==
  ASSUME LedgerInv,
         \/ UNCHANGED vars \/ Quiet \/ Start \/ ChangeUrl \/ Applied
         \/ AddTransferEvent \/ AddMethodEvent
         \/ \E t \in Transfers : Launch(t)
  PROVE  Calm
<1> USE DEF LedgerInv, LedgerTypes, TimersOnFile, Calm, InWindow, Midway, Launching,
            mem, loop, sess, ctl, hist
<1>1. CASE UNCHANGED vars  BY <1>1 DEF vars
<1>2. CASE Quiet  BY <1>2 DEF Quiet, Unsettled
<1>3. CASE Start  BY <1>3 DEF Start
<1>4. CASE ChangeUrl  BY <1>4 DEF ChangeUrl
<1>5. CASE Applied  BY <1>5 DEF Applied, Exit
<1>6. CASE AddTransferEvent  BY <1>6 DEF AddTransferEvent, AddSaved
<1>7. CASE AddMethodEvent  BY <1>7 DEF AddMethodEvent, AddSaved
<1>8. CASE \E t \in Transfers : Launch(t)  BY <1>8 DEF Launch
<1> QED  BY <1>1, <1>2, <1>3, <1>4, <1>5, <1>6, <1>7, <1>8

\* Every step leaves the ledger alone, loses the file, dies between two saves,
\* or is one of the six that write to it.
LEMMA StepKinds ==
  ASSUME LedgerInv, [Next]_vars
  PROVE  \/ Calm \/ Wiped \/ Crash
         \/ RunScript \/ RemoveTransfer \/ AddTransferComplete
         \/ SendTransferComplete \/ RemoveTransferComplete
         \/ \E t \in Transfers : HandleTransfer(t)
<1>1. TornSave => Wiped
  BY DEF TornSave, Wiped, Exit, Unsettled, Launching
<1>2. CheckAcsUrl => Calm \/ Wiped
  <2> SUFFICES ASSUME CheckAcsUrl PROVE Calm \/ Wiped
    OBVIOUS
  <2>1. CASE SavedUrl
    BY <2>1 DEF CheckAcsUrl, Calm, InWindow, Midway, Launching, LedgerInv, LedgerTypes,
                TimersOnFile, mem, hist
  <2>2. CASE ~SavedUrl
    BY <2>2 DEF CheckAcsUrl, Wiped, Unsettled, Launching, LedgerInv, LedgerTypes
  <2> QED  BY <2>1, <2>2
<1>3. HandleEndSession => Calm \/ Wiped
  <2> SUFFICES ASSUME HandleEndSession PROVE Calm \/ Wiped
    OBVIOUS
  <2>1. CASE "factory" \in ends
    BY <2>1 DEF HandleEndSession, Wiped, Exit, Unsettled, Launching
  <2>2. CASE "factory" \notin ends
    BY <2>2 DEF HandleEndSession, Exit, Calm, InWindow, Midway, Launching, LedgerInv,
                LedgerTypes, TimersOnFile, mem, hist
  <2> QED  BY <2>1, <2>2
<1> QED  BY QuietSteps, CalmSteps, <1>1, <1>2, <1>3
            DEF Next, Session, Running, Request, Stimulus, Timer

-----------------------------------------------------------------------------
(***************************************************************************)
(* The six steps that write to the ledger.                                 *)
(***************************************************************************)
LEMMA KeysOfUnion ==
  ASSUME NEW S, NEW k, NEW n
  PROVE  {r.key : r \in S \cup {[key |-> k, id |-> n]}}
           = {r.key : r \in S} \cup {k}
<1> DEFINE new == [key |-> k, id |-> n]
<1>1. new.key = k  OBVIOUS
<1> HIDE DEF new
<1>2. {r.key : r \in S \cup {new}} = {r.key : r \in S} \cup {k}
  BY <1>1
<1> QED  BY <1>2 DEF new

\* What such a step does to the fate of the one transfer it is about.
FateOf(t, f) == /\ fate'[t] = f
                /\ \A u \in Transfers \ {t} : fate'[u] = fate[u]

LEMMA FateChanges ==
  ASSUME LedgerTypes, NEW t \in Transfers, NEW f, fate' = [fate EXCEPT ![t] = f]
  PROVE  /\ FateOf(t, f)
         /\ f \in {"none", "reported", "lost"} \cup Underway =>
              fate' \in [Transfers -> {"none", "reported", "lost"} \cup Underway]
BY DEF LedgerTypes, FateOf

LEMMA RunScriptKeepsInv ==
  ASSUME LedgerInv, RunScript
  PROVE  LedgerInv'
<1> USE DEF LedgerInv, LedgerTypes, TimersOnFile, Launching, mem
<1>1. /\ cur \in tree.transfers /\ cur \in Transfers /\ cur \notin armed
      /\ pc' = "ran" /\ cur' = cur /\ tree' = tree /\ armed' = armed
      /\ again' = again \ {cur} /\ fate' = [fate EXCEPT ![cur] = "ran"]
      /\ methodId' = methodId /\ ret' = ret
  BY DEF RunScript
<1>2. FateOf(cur, "ran")  BY <1>1, FateChanges
<1>3. InWindow = {} /\ InWindow' = {} /\ Midway = {} /\ Midway' = {cur}
  BY <1>1 DEF InWindow, Midway, RunScript
<1>4. LedgerTypes' /\ TimersOnFile'
  BY <1>1, <1>2, FateChanges DEF Underway, FateOf
<1>5. Pending' = Pending
  BY <1>1, <1>2 DEF Pending, Underway, FateOf, NothingForgotten
<1>6. NothingForgotten'  BY <1>1, <1>3, <1>5 DEF NothingForgotten
<1>7. \A r \in tree.tcs : r.key \in Transfers \ {cur}
  BY <1>1 DEF RunsOnce, Report
<1>8. RunsOnce'  BY <1>1, <1>2, <1>3, <1>7 DEF RunsOnce, FateOf
<1> QED  BY <1>4, <1>6, <1>8

LEMMA RemoveTransferKeepsInv ==
  ASSUME LedgerInv, RemoveTransfer
  PROVE  LedgerInv'
<1> USE DEF LedgerInv, LedgerTypes, TimersOnFile, RemoveTransfer, Launching,
            mem, hist
<1>1. InWindow = {} /\ InWindow' = {cur} /\ Midway = {cur} /\ Midway' = {}
  BY DEF InWindow, Midway
<1>2. /\ cur \in tree.transfers
      /\ tree'.transfers = tree.transfers \ {cur} /\ tree'.tcs = tree.tcs
      /\ fate' = fate /\ again' = again
  OBVIOUS
<1>3. LedgerTypes' /\ TimersOnFile'  OBVIOUS
<1>4. NothingForgotten'  BY <1>1, <1>2 DEF NothingForgotten, Pending
<1>5. RunsOnce'  BY <1>1, <1>2 DEF RunsOnce
<1> QED  BY <1>3, <1>4, <1>5

LEMMA AddTransferCompleteKeepsInv ==
  ASSUME LedgerInv, AddTransferComplete
  PROVE  LedgerInv'
<1> USE DEF LedgerInv, LedgerTypes, TimersOnFile, AddTransferComplete,
            Launching, hist
<1>1. /\ InWindow = {cur} /\ InWindow' = {} /\ Midway = {} /\ Midway' = {}
      /\ fate[cur] = "ran"
  BY DEF InWindow, Midway
<1> DEFINE n == methodId + 1
<1>2. /\ tree'.tcs = tree.tcs \cup {[key |-> cur, id |-> n]} /\ n \in Nat
      /\ tree'.transfers = tree.transfers
  BY DEF AddTransferComplete
<1> HIDE DEF n
<1>3. LedgerTypes' /\ TimersOnFile'
  <2>1. tree'.tcs \subseteq Report
    <3>1. pc = "report" /\ cur \in Transfers  BY DEF AddTransferComplete
    <3>2. [key |-> cur, id |-> n] \in Report  BY ONLY <1>2, <3>1 DEF Report
    <3> QED  BY <1>2, <3>2
  <2>2. TimersOnFile'  BY <1>2
  <2>3. fate' = fate /\ again' = again /\ methodId' \in Nat /\ ret' = ret
    OBVIOUS
  <2>4. tree' = [acs |-> tree'.acs, events |-> tree'.events,
                 transfers |-> tree'.transfers, tcs |-> tree'.tcs]
    OBVIOUS
  <2> QED  BY <1>2, <2>1, <2>2, <2>3, <2>4
<1>4. NothingForgotten'
  <2>1. {r.key : r \in tree'.tcs} = {r.key : r \in tree.tcs} \cup {cur}
    <3>1. {r.key : r \in tree.tcs \cup {[key |-> cur, id |-> n]}}
            = {r.key : r \in tree.tcs} \cup {cur}
      BY ONLY KeysOfUnion, Zenon
    <3> QED  BY ONLY <1>2, <3>1, Zenon
  <2> QED  BY <1>1, <1>2, <2>1 DEF NothingForgotten, Pending
<1>5. fate' = fate /\ again' = again  OBVIOUS
<1>6. RunsOnce'  BY <1>1, <1>2, <1>5 DEF RunsOnce
<1> QED  BY <1>3, <1>4, <1>6

LEMMA SendTransferCompleteKeepsInv ==
  ASSUME LedgerInv, SendTransferComplete
  PROVE  LedgerInv'
<1> USE DEF LedgerInv, LedgerTypes, TimersOnFile, Launching, mem
<1>1. PICK r \in tree.tcs : /\ cur' = r.key /\ ackId' = r.id
                            /\ fate' = [fate EXCEPT ![r.key] = "told"]
                            /\ again' = again \ {r.key}
  BY DEF SendTransferComplete
<1>2. /\ pc' = "answered" /\ tree' = tree /\ armed' = armed
      /\ methodId' = methodId /\ ret' = ret
  BY DEF SendTransferComplete
<1>3. r.key \in Transfers /\ r = [key |-> r.key, id |-> r.id]  BY DEF Report
<1>4. FateOf(r.key, "told")  BY <1>1, <1>3, FateChanges
<1>5. InWindow = {} /\ InWindow' = {} /\ Midway = {} /\ Midway' = {r.key}
  BY <1>1 DEF InWindow, Midway, SendTransferComplete
<1>6. LedgerTypes'  BY <1>1, <1>2, <1>3, FateChanges DEF Underway
<1>7. TimersOnFile'  BY <1>1, <1>2, <1>3
<1>8. Pending' = Pending
  BY <1>3, <1>4 DEF Pending, Underway, FateOf, NothingForgotten
<1>9. NothingForgotten'  BY <1>2, <1>5, <1>8 DEF NothingForgotten
<1>10. \A t \in tree.transfers : t \in Transfers \ {r.key}
  BY <1>3 DEF RunsOnce
<1>11. \A q \in tree.tcs : q.key \in Transfers  BY DEF Report
<1>12. RunsOnce'
  BY <1>1, <1>2, <1>4, <1>5, <1>10, <1>11 DEF RunsOnce, FateOf
<1> QED  BY <1>6, <1>7, <1>9, <1>12

LEMMA RemoveTransferCompleteKeepsInv ==
  ASSUME LedgerInv, RemoveTransferComplete
  PROVE  LedgerInv'
<1> USE DEF LedgerInv, LedgerTypes, TimersOnFile, Launching, mem
<1> DEFINE r == [key |-> cur, id |-> ackId]
<1>1. r \in tree.tcs /\ r.key = cur  BY DEF RemoveTransferComplete
<1>2. /\ pc' = "cleartc" /\ tree' = [tree EXCEPT !.tcs = @ \ {r}]
      /\ armed' = armed /\ again' = again /\ methodId' = methodId /\ ret' = ret
      /\ fate' = [fate EXCEPT ![cur] = "reported"]
  BY DEF RemoveTransferComplete
<1>3. cur \in Transfers  BY <1>1 DEF Report
<1>4. FateOf(cur, "reported")  BY <1>2, <1>3, FateChanges
<1>5. InWindow = {} /\ InWindow' = {} /\ Midway = {cur} /\ Midway' = {}
  BY <1>2 DEF InWindow, Midway, RemoveTransferComplete
<1> HIDE DEF r
<1>6. tree'.transfers = tree.transfers /\ tree'.tcs = tree.tcs \ {r}
  BY <1>2
<1>7. LedgerTypes' /\ TimersOnFile'
  BY <1>2, <1>3, <1>6, FateChanges DEF Underway
<1>8. Pending' = Pending \ {cur}
  BY <1>3, <1>4 DEF Pending, Underway, FateOf
<1>9. {q.key : q \in tree'.tcs} = {q.key : q \in tree.tcs} \ {cur}
  BY <1>1, <1>6 DEF RunsOnce
<1>10. cur \notin tree.transfers  BY <1>1 DEF RunsOnce
<1>11. NothingForgotten'
  BY <1>5, <1>6, <1>8, <1>9, <1>10 DEF NothingForgotten
<1>12. /\ \A t \in tree.transfers : t \in Transfers \ {cur}
       /\ \A q \in tree'.tcs : q \in tree.tcs /\ q.key \in Transfers \ {cur}
  BY <1>1, <1>6, <1>10 DEF RunsOnce, Report
<1>13. RunsOnce'
  BY <1>2, <1>4, <1>5, <1>6, <1>12 DEF RunsOnce, FateOf
<1> QED  BY <1>7, <1>11, <1>13

LEMMA HandleTransferKeepsInv ==
  ASSUME LedgerInv, NEW t \in Transfers, HandleTransfer(t)
  PROVE  LedgerInv'
<1> USE DEF LedgerInv, LedgerTypes, TimersOnFile, Launching, ctl, hist
<1>1. /\ fate[t] = "none" /\ fate' = [fate EXCEPT ![t] = "pending"]
      /\ tree'.transfers = tree.transfers \cup {t} /\ tree'.tcs = tree.tcs
      /\ again' = again /\ pc = "msgs" /\ pc' = "msgs"
  BY DEF HandleTransfer
<1>2. InWindow = {} /\ InWindow' = {} /\ Midway = {} /\ Midway' = {}
  BY <1>1 DEF InWindow, Midway
<1>3. FateOf(t, "pending")  BY <1>1, FateChanges
<1>4. t \notin Pending /\ Pending' = Pending \cup {t}
  BY <1>1, <1>3 DEF Pending, Underway, FateOf
<1>5. LedgerTypes' /\ TimersOnFile'
  BY <1>1, FateChanges DEF HandleTransfer, Underway
<1>6. NothingForgotten'  BY <1>1, <1>2, <1>4 DEF NothingForgotten
<1>7. \A q \in tree.tcs : q.key \in Transfers \ {t}
  BY <1>4 DEF NothingForgotten, Report
<1>8. RunsOnce'
  BY <1>1, <1>2, <1>3, <1>7 DEF RunsOnce, FateOf
<1> QED  BY <1>5, <1>6, <1>8

LEMMA LedgerInvariant == Spec => []LedgerInv
<1>1. Init => LedgerInv
  BY DEF Init, LedgerInv, LedgerTypes, TimersOnFile, NothingForgotten, RunsOnce,
         Pending, Underway, InWindow, EmptyTree, Launching
<1>2. LedgerInv /\ [Next]_vars => LedgerInv'
  BY StepKinds, CalmKeepsInv, WipedKeepsInv, CrashKeepsInv, RunScriptKeepsInv,
     RemoveTransferKeepsInv, AddTransferCompleteKeepsInv,
     SendTransferCompleteKeepsInv, RemoveTransferCompleteKeepsInv,
     HandleTransferKeepsInv
<1> QED  BY <1>1, <1>2, PTL DEF Spec

\* No crash, torn save, failed session or change of the ACS lets the daemon
\* forget a transfer it has accepted before the removal of its report is on
\* file, short of losing it with the file or between two saves.
THEOREM TransfersNotForgotten == Spec => []NothingForgotten
<1>1. LedgerInv => NothingForgotten  BY DEF LedgerInv
<1> QED  BY <1>1, LedgerInvariant, PTL

\* A transfer that has run is not on file as still to be run, and a report that
\* was answered is not on file, but for the transfer in hand and those whose
\* process died between the script or the answer and the save.
THEOREM TransfersRunOnce == Spec => []RunsOnce
<1>1. LedgerInv => RunsOnce  BY DEF LedgerInv
<1> QED  BY <1>1, LedgerInvariant, PTL

-----------------------------------------------------------------------------
(***************************************************************************)
(* The daemon implements TransferLedger.                                   *)
(***************************************************************************)
Reported(t) == \E r \in tree.tcs : r.key = t
Absent(t)   == t \notin tree.transfers \cup InWindow /\ ~Reported(t)

\* What NothingForgotten and RunsOnce say of a transfer's status.
LEMMA StatusOf ==
  ASSUME LedgerInv, NEW t \in Transfers
  PROVE  /\ Absent(t) <=> fate[t] \notin Underway
         /\ fate[t] \notin Underway => Status(t) = fate[t]
         /\ fate[t] \in Underway => Status(t) \in {"queued", "run", "done", "told"}
         /\ Reported(t) => Status(t) = IF t \in Midway THEN "told" ELSE "done"
         /\ t \in tree.transfers => Status(t) = IF t \in Midway THEN "run" ELSE "queued"
         /\ t \in InWindow => Status(t) = "run"
<1>1. Absent(t) <=> fate[t] \notin Underway
  BY DEF LedgerInv, NothingForgotten, Pending, Absent, Reported
<1>2. ~(t \in tree.transfers \cup InWindow /\ Reported(t))
  BY DEF LedgerInv, RunsOnce, Reported
<1>3. ~(t \in tree.transfers /\ t \in InWindow)  BY DEF LedgerInv, RunsOnce
<1> QED  BY <1>1, <1>2, <1>3 DEF Status, Absent, Reported

\* The status of one transfer changes and that of the others does not.
LEMMA OneChanges ==
  ASSUME NEW t \in Transfers, NEW s, Status(t)' = s,
         \A u \in Transfers \ {t} : Status(u)' = Status(u)
  PROVE  [u \in Transfers |-> Status(u)]'
           = [[u \in Transfers |-> Status(u)] EXCEPT ![t] = s]
OBVIOUS

LEMMA Moves ==
  ASSUME NEW t \in Transfers, NEW from, NEW to, Status(t) = from, Status(t)' = to,
         \A u \in Transfers \ {t} : Status(u)' = Status(u)
  PROVE  Ledger!Becomes(t, from, to)
BY OneChanges DEF Ledger!Becomes

\* Losing a set of pending transfers is a step of the ledger.
LEMMA LosingIsALedgerStep ==
  ASSUME LedgerInv, LedgerInv', NEW S, S \subseteq Pending, fate' = Lost(S),
         \A u \in Transfers \ S : Status(u)' = Status(u)
  PROVE  Ledger!LNext
<1>1. S \subseteq Transfers  BY DEF Pending
<1>2. \A u \in S : Status(u) \in {"queued", "run", "done", "told"}
  BY StatusOf DEF Pending
<1>3. \A u \in S : fate'[u] = "lost"  BY <1>1 DEF Lost
<1>4. ASSUME NEW u \in S PROVE Status(u)' = "lost"
  <2>1. u \in Transfers /\ fate'[u] = "lost"  BY <1>1, <1>3
  <2>2. Absent(u)'
    BY <2>1 DEF LedgerInv, NothingForgotten, Pending, Underway, Absent, Reported
  <2> QED  BY <2>1, <2>2 DEF Status, Absent, Reported
<1>5. Ledger!Lose(S)
  BY <1>1, <1>2, <1>4 DEF Ledger!Lose
<1> QED  BY <1>1, <1>5 DEF Ledger!LNext

\* easycwmpd keeps its promise about transfers, for every set of requests,
\* every number of crashes, torn saves and failed sessions.
THEOREM Promise == Spec => KeepsLedger
<1>1. Init => Ledger!LInit
  BY DEF Init, Ledger!LInit, Status, EmptyTree, InWindow
<1>2. LedgerInv /\ LedgerInv' /\ [Next]_vars
        => [Ledger!LNext]_([t \in Transfers |-> Status(t)])
  <2> SUFFICES ASSUME LedgerInv, LedgerInv', [Next]_vars
               PROVE  \/ Ledger!LNext
                      \/ \A u \in Transfers : Status(u)' = Status(u)
    BY DEF Ledger!LNext
  <2>1. CASE Calm
    BY <2>1 DEF Calm, Status
  <2>2. CASE Wiped
    <3>1. ASSUME NEW u \in Transfers \ Pending PROVE Status(u)' = Status(u)
      <4>1. fate'[u] = fate[u] /\ fate[u] \notin Underway
        BY <2>2 DEF Wiped, Lost, Pending
      <4>2. Status(u) = fate[u]  BY StatusOf, <4>1
      <4>3. Absent(u)'
        BY <4>1 DEF LedgerInv, NothingForgotten, Pending, Absent, Reported
      <4> QED  BY <4>1, <4>2, <4>3 DEF Status, Absent, Reported
    <3>2. fate' = Lost(Pending)  BY <2>2 DEF Wiped
    <3> QED  BY <3>1, <3>2, LosingIsALedgerStep
  <2>3. CASE Crash /\ Midway = {}
    <3>1. InWindow \subseteq Pending
      BY DEF LedgerInv, NothingForgotten
    <3>2. fate' = Lost(InWindow) /\ tree' = tree /\ InWindow' = {} /\ Midway' = {}
      BY <2>3 DEF Crash, Exit, InWindow, Midway
    <3>3. ASSUME NEW u \in Transfers \ InWindow PROVE Status(u)' = Status(u)
      BY <2>3, <3>2 DEF Status, Lost
    <3> QED  BY <3>1, <3>2, <3>3, LosingIsALedgerStep
  <2>4. CASE Crash /\ Midway # {}
    <3>1. PICK t \in Transfers : t = cur
      BY <2>4 DEF Midway, LedgerInv, LedgerTypes, TimersOnFile, Launching, Report
    <3>2. /\ pc \in {"ran", "answered"} /\ Midway = {t} /\ Midway' = {}
          /\ InWindow = {} /\ InWindow' = {} /\ tree' = tree
      BY <2>4, <3>1 DEF Crash, Exit, Midway, InWindow
    <3>3. \A u \in Transfers : fate'[u] = fate[u]
      BY <2>4, <3>2 DEF Crash, Lost
    <3>4. \A u \in Transfers \ {t} : Status(u)' = Status(u)
      BY <3>2, <3>3 DEF Status
    <3>5. CASE pc = "ran"
      <4>1. t \in tree.transfers
        BY <3>1, <3>5 DEF LedgerInv, TimersOnFile
      <4>2. Status(t) = "run"  BY <3>2, <4>1, StatusOf
      <4>3. ~Reported(t)  BY <4>1 DEF LedgerInv, RunsOnce, Reported
      <4>4. Status(t)' = "queued"  BY <3>2, <4>1, <4>3 DEF Status, Reported
      <4>5. Ledger!Forget(t)
        BY <3>4, <4>2, <4>4, Moves DEF Ledger!Forget
      <4> QED  BY <4>5 DEF Ledger!LNext
    <3>6. CASE pc = "answered"
      <4>1. Reported(t)
        <5>1. [key |-> t, id |-> ackId] \in tree.tcs
          BY <3>1, <3>6 DEF LedgerInv, TimersOnFile
        <5> QED  BY <5>1 DEF Reported
      <4>2. Status(t) = "told"  BY <3>2, <4>1, StatusOf
      <4>3. Status(t)' = "done"  BY <3>2, <4>1 DEF Status, Reported
      <4>4. Ledger!Forget(t)
        BY <3>4, <4>2, <4>3, Moves DEF Ledger!Forget
      <4> QED  BY <4>4 DEF Ledger!LNext
    <3> QED  BY <3>2, <3>5, <3>6
  <2>5. CASE RunScript
    <3>1. PICK t \in Transfers : t = cur
      BY <2>5 DEF RunScript, LedgerInv, TimersOnFile, Launching
    <3>2. /\ t \in tree.transfers /\ Midway = {} /\ Midway' = {t}
          /\ InWindow = {} /\ InWindow' = {} /\ tree' = tree
      BY <2>5, <3>1 DEF RunScript, Midway, InWindow, LedgerInv, TimersOnFile
    <3>3. FateOf(t, "ran")
      BY <2>5, <3>1, FateChanges DEF RunScript, LedgerInv
    <3>4. ~Reported(t)  BY <3>2 DEF LedgerInv, RunsOnce, Reported
    <3>5. Status(t) = "queued"  BY <3>2, StatusOf
    <3>6. Status(t)' = "run"  BY <3>2, <3>4 DEF Status, Reported
    <3>7. \A u \in Transfers \ {t} : Status(u)' = Status(u)
      BY <3>2, <3>3 DEF Status, FateOf
    <3>8. Ledger!Run(t)  BY <3>5, <3>6, <3>7, Moves DEF Ledger!Run
    <3> QED  BY <3>8 DEF Ledger!LNext
  <2>6. CASE RemoveTransfer
    <3>1. /\ InWindow = {} /\ InWindow' = {cur} /\ cur \in tree.transfers
          /\ Midway = {cur} /\ Midway' = {}
      BY <2>6 DEF RemoveTransfer, InWindow, Midway, LedgerInv, TimersOnFile
    <3>2. /\ tree'.transfers = tree.transfers \ {cur} /\ tree'.tcs = tree.tcs
          /\ fate' = fate
      BY <2>6 DEF RemoveTransfer, LedgerInv, LedgerTypes, hist
    <3>3. ~Reported(cur)  BY <3>1 DEF LedgerInv, RunsOnce, Reported
    <3> QED  BY <3>1, <3>2, <3>3 DEF Status, Reported
  <2>7. CASE AddTransferComplete
    <3>1. PICK t \in Transfers : t = cur
      BY <2>7 DEF AddTransferComplete, LedgerInv, TimersOnFile, Launching
    <3>2. InWindow = {t} /\ InWindow' = {} /\ Midway = {} /\ Midway' = {}
      BY <2>7, <3>1 DEF AddTransferComplete, InWindow, Midway
    <3>3. /\ tree'.tcs = tree.tcs \cup {[key |-> t, id |-> methodId']}
          /\ tree'.transfers = tree.transfers /\ fate' = fate
      BY <2>7, <3>1 DEF AddTransferComplete, LedgerInv, LedgerTypes, hist
    <3>4. \A u : (\E r \in tree'.tcs : r.key = u)
                   <=> (u = t \/ \E r \in tree.tcs : r.key = u)
      <4> DEFINE new == [key |-> t, id |-> methodId']
      <4>1. new.key = t  OBVIOUS
      <4>2. tree'.tcs = tree.tcs \cup {new}  BY <3>3
      <4> HIDE DEF new
      <4> QED  BY ONLY <4>1, <4>2
    <3>5. Status(t) = "run"  BY <3>2, StatusOf
    <3>6. Status(t)' = "done"  BY <3>2, <3>4 DEF Status
    <3>7. \A u \in Transfers \ {t} : Status(u)' = Status(u)
      BY <3>2, <3>3, <3>4 DEF Status
    <3>8. Ledger!Finish(t)
      BY <3>5, <3>6, <3>7, Moves DEF Ledger!Finish
    <3> QED  BY <3>8 DEF Ledger!LNext
  <2>8. CASE SendTransferComplete
    <3>1. PICK r \in tree.tcs : /\ cur' = r.key
                                /\ fate' = [fate EXCEPT ![r.key] = "told"]
      BY <2>8 DEF SendTransferComplete
    <3>2. PICK t \in Transfers : t = r.key
      BY DEF Report, LedgerInv, LedgerTypes
    <3>3. FateOf(t, "told")  BY <3>1, <3>2, FateChanges DEF LedgerInv
    <3>4. /\ InWindow = {} /\ InWindow' = {} /\ Midway = {} /\ Midway' = {t}
          /\ tree' = tree /\ Reported(t)
      BY <2>8, <3>1, <3>2 DEF InWindow, Midway, SendTransferComplete, Reported
    <3>5. Status(t) = "done"  BY <3>4, StatusOf
    <3>6. Status(t)' = "told"  BY <3>4 DEF Status, Reported
    <3>7. \A u \in Transfers \ {t} : Status(u)' = Status(u)
      BY <3>3, <3>4 DEF Status, FateOf
    <3>8. Ledger!Acknowledge(t)
      BY <3>5, <3>6, <3>7, Moves DEF Ledger!Acknowledge
    <3> QED  BY <3>8 DEF Ledger!LNext
  <2>9. CASE RemoveTransferComplete
    <3>1. PICK r \in tree.tcs : r.key = cur /\ r = [key |-> cur, id |-> ackId]
      BY <2>9 DEF RemoveTransferComplete, LedgerInv, TimersOnFile
    <3>2. PICK t \in Transfers : t = cur
      BY <3>1 DEF Report, LedgerInv, LedgerTypes
    <3>3. FateOf(t, "reported")
      BY <2>9, <3>2, FateChanges DEF RemoveTransferComplete, LedgerInv
    <3>4. InWindow = {} /\ InWindow' = {} /\ Midway = {t} /\ Midway' = {}
      BY <2>9, <3>2 DEF InWindow, Midway, RemoveTransferComplete
    <3>5. tree'.transfers = tree.transfers /\ tree'.tcs = tree.tcs \ {r}
      BY <2>9, <3>1 DEF RemoveTransferComplete, LedgerInv, LedgerTypes
    <3>6. Status(t) = "told"
      BY <3>1, <3>2, <3>4, StatusOf DEF Reported
    <3>7. Status(t)' = "reported"
      <4>1. fate'[t] = "reported"  BY <3>3 DEF FateOf
      <4>2. Absent(t)'
        BY <4>1 DEF LedgerInv, NothingForgotten, Pending, Underway, Absent, Reported
      <4> QED  BY <4>1, <4>2 DEF Status, Absent, Reported
    <3>8. \A u \in Transfers \ {t} : Status(u)' = Status(u)
      BY <3>1, <3>2, <3>3, <3>4, <3>5 DEF Status, FateOf
    <3>9. Ledger!Settle(t)
      BY <3>6, <3>7, <3>8, Moves DEF Ledger!Settle
    <3> QED  BY <3>9 DEF Ledger!LNext
  <2>10. ASSUME NEW t \in Transfers, HandleTransfer(t) PROVE Ledger!LNext
    <3>1. fate[t] = "none" /\ Status(t) = "none" /\ Absent(t)
      BY <2>10, StatusOf DEF HandleTransfer, Underway
    <3>2. FateOf(t, "pending")
      BY <2>10, FateChanges DEF HandleTransfer, LedgerInv
    <3>3. /\ tree'.transfers = tree.transfers \cup {t} /\ tree'.tcs = tree.tcs
          /\ InWindow' = InWindow /\ Midway = {} /\ Midway' = {}
      BY <2>10 DEF HandleTransfer, LedgerInv, LedgerTypes, InWindow, Midway, ctl
    <3>4. Status(t)' = "queued"  BY <3>1, <3>3 DEF Status, Absent, Reported
    <3>5. \A u \in Transfers \ {t} : Status(u)' = Status(u)
      BY <3>2, <3>3 DEF Status, FateOf
    <3>6. Ledger!Accept(t)
      BY <3>1, <3>4, <3>5, Moves DEF Ledger!Accept
    <3> QED  BY <3>6 DEF Ledger!LNext
  <2> QED  BY StepKinds, <2>1, <2>2, <2>3, <2>4, <2>5, <2>6, <2>7, <2>8, <2>9, <2>10
<1> QED  BY <1>1, <1>2, LedgerInvariant, PTL DEF Spec, KeepsLedger, Ledger!LSpec

-----------------------------------------------------------------------------
(***************************************************************************)
(* Numbers and lists.                                                      *)
(***************************************************************************)
Elems(seq) == {seq[i] : i \in DOMAIN seq}

LEMMA Least ==
  ASSUME NEW S, S \subseteq Nat, S # {}
  PROVE  \E x \in S : \A y \in S : x <= y
<1>1. \E x \in S : \A y \in S : ~(<<y, x>> \in OpToRel(<, Nat))
  BY NatLessThanWellFounded, WFMin
<1>2. PICK x \in S : \A y \in S : ~(<<y, x>> \in OpToRel(<, Nat))  BY <1>1
<1>3. \A y \in S : ~(y < x)  BY <1>2 DEF OpToRel
<1> QED  BY <1>3

\* Counting the elements of a set up to a number.
UpTo(S, i) == {j \in S : j <= i}

LEMMA UpToFacts ==
  ASSUME NEW N \in Nat, NEW S, S \subseteq 1..N
  PROVE  /\ IsFiniteSet(S) /\ Cardinality(S) \in Nat
         /\ \A i \in Nat : /\ IsFiniteSet(UpTo(S, i)) /\ Cardinality(UpTo(S, i)) \in Nat
                           /\ Cardinality(UpTo(S, i)) <= Cardinality(S)
         /\ Cardinality(UpTo(S, 0)) = 0 /\ UpTo(S, N) = S
         /\ \A i \in Nat : Cardinality(UpTo(S, i + 1)) =
              IF i + 1 \in S THEN Cardinality(UpTo(S, i)) + 1 ELSE Cardinality(UpTo(S, i))
         /\ \A i \in Nat, j \in S : i < j => Cardinality(UpTo(S, i)) < Cardinality(UpTo(S, j))
<1>0. \A x \in S : x \in Nat /\ 1 <= x /\ x <= N  OBVIOUS
<1>a. /\ \A i \in Nat, x \in 1..N : x \in UpTo(S, i) <=> x \in S /\ x <= i
      /\ \A i \in Nat : UpTo(S, i) \subseteq S /\ UpTo(S, i) \subseteq 1..N
  BY DEF UpTo
<1>1. IsFiniteSet(1..N)  BY FS_Interval
<1>2. IsFiniteSet(S) /\ Cardinality(S) \in Nat  BY <1>1, FS_Subset, FS_CardinalityType
<1>3. ASSUME NEW i \in Nat
      PROVE  /\ IsFiniteSet(UpTo(S, i)) /\ Cardinality(UpTo(S, i)) \in Nat
             /\ Cardinality(UpTo(S, i)) <= Cardinality(S)
  <2>1. UpTo(S, i) \in SUBSET S  BY DEF UpTo
  <2> QED  BY <1>2, <2>1, FS_Subset, FS_CardinalityType
<1>4. Cardinality(UpTo(S, 0)) = 0
  <2>1. UpTo(S, 0) = {}  BY <1>a, <1>0
  <2> QED  BY <2>1, FS_EmptySet
<1>5. UpTo(S, N) = S  BY <1>a, <1>0
<1>6. ASSUME NEW i \in Nat
      PROVE  Cardinality(UpTo(S, i + 1)) =
               IF i + 1 \in S THEN Cardinality(UpTo(S, i)) + 1 ELSE Cardinality(UpTo(S, i))
  <2>1. CASE i + 1 \in S
    <3>1. UpTo(S, i + 1) = UpTo(S, i) \cup {i + 1} /\ i + 1 \notin UpTo(S, i)
      BY <1>a, <1>0, <2>1
    <3> QED  BY <1>3, <2>1, <3>1, FS_AddElement
  <2>2. CASE i + 1 \notin S
    <3>1. UpTo(S, i + 1) = UpTo(S, i)  BY <1>a, <1>0, <2>2
    <3> QED  BY <2>2, <3>1
  <2> QED  BY <2>1, <2>2
<1>7. ASSUME NEW i \in Nat, NEW j \in S, i < j
      PROVE  Cardinality(UpTo(S, i)) < Cardinality(UpTo(S, j))
  <2>1. UpTo(S, i) \in SUBSET UpTo(S, j) /\ j \in UpTo(S, j) /\ j \notin UpTo(S, i) /\ j \in Nat
    BY <1>a, <1>0, <1>7
  <2>2. Cardinality(UpTo(S, i)) <= Cardinality(UpTo(S, j))
        /\ Cardinality(UpTo(S, i)) # Cardinality(UpTo(S, j))
    BY <1>3, <2>1, FS_Subset
  <2>3. Cardinality(UpTo(S, i)) \in Nat /\ Cardinality(UpTo(S, j)) \in Nat  BY <1>3, <2>1
  <2> QED  BY <2>2, <2>3
<1> QED  BY <1>2, <1>3, <1>4, <1>5, <1>6, <1>7

\* How the count grows.
Counts(S) ==
  /\ \A i \in Nat : /\ Cardinality(UpTo(S, i)) \in Nat
                    /\ Cardinality(UpTo(S, i + 1)) =
                         IF i + 1 \in S THEN Cardinality(UpTo(S, i)) + 1
                         ELSE Cardinality(UpTo(S, i))
  /\ Cardinality(UpTo(S, 0)) = 0

LEMMA UpToCounts ==
  ASSUME NEW N \in Nat, NEW S, S \subseteq 1..N
  PROVE  Counts(S)
<1>1. /\ \A i \in Nat : /\ IsFiniteSet(UpTo(S, i)) /\ Cardinality(UpTo(S, i)) \in Nat
                        /\ Cardinality(UpTo(S, i)) <= Cardinality(S)
      /\ Cardinality(UpTo(S, 0)) = 0
      /\ \A i \in Nat : Cardinality(UpTo(S, i + 1)) =
           IF i + 1 \in S THEN Cardinality(UpTo(S, i)) + 1 ELSE Cardinality(UpTo(S, i))
  BY UpToFacts, Zenon
<1> QED  BY <1>1, Zenon DEF Counts

\* The n-th smallest element exists, and there is one of them.
LEMMA NthFacts ==
  ASSUME NEW N \in Nat, NEW S, S \subseteq 1..N
  PROVE  /\ \A n \in 1..Cardinality(S) :
              Nth(S, n) \in S /\ Cardinality(UpTo(S, Nth(S, n))) = n
         /\ \A i \in S : /\ Cardinality(UpTo(S, i)) \in 1..Cardinality(S)
                         /\ Nth(S, Cardinality(UpTo(S, i))) = i
<1> DEFINE c(i) == Cardinality(UpTo(S, i))
<1>1. /\ Cardinality(S) \in Nat
      /\ \A i \in Nat : c(i) \in Nat /\ c(i) <= Cardinality(S)
      /\ c(0) = 0 /\ c(N) = Cardinality(S)
      /\ \A i \in Nat : c(i + 1) = IF i + 1 \in S THEN c(i) + 1 ELSE c(i)
      /\ \A i \in Nat, j \in S : i < j => c(i) < c(j)
  BY UpToFacts, Zenon
<1>2. \A n : Nth(S, n) = CHOOSE i \in S : c(i) = n
  BY DEF Nth, UpTo
<1> HIDE DEF c
<1>3. ASSUME NEW n \in 1..Cardinality(S) PROVE \E i \in S : c(i) = n
  <2> DEFINE T == {i \in Nat : c(i) >= n}
  <2>1. N \in T  BY <1>1
  <2>2. PICK x \in T : \A y \in T : x <= y
    <3>1. T \subseteq Nat /\ T # {}  BY <2>1
    <3> HIDE DEF T
    <3> QED  BY <3>1, Least
  <2>3. x \in Nat /\ x # 0 /\ c(x) >= n  BY <1>1
  <2>4. x - 1 \in Nat /\ x - 1 \notin T  BY <2>2, <2>3
  <2>5. c(x - 1) < n  BY <1>1, <2>4
  <2>6. c(x) = IF x \in S THEN c(x - 1) + 1 ELSE c(x - 1)
    <3>1. (x - 1) + 1 = x  BY <2>3
    <3> QED  BY <1>1, <2>4, <3>1
  <2>7. c(x - 1) \in Nat  BY <1>1, <2>4
  <2> QED  BY <2>3, <2>5, <2>6, <2>7
<1>4. \A i, j \in S : c(i) = c(j) => i = j
  <2>1. \A i \in S : i \in Nat  OBVIOUS
  <2> QED  BY <1>1, <2>1
<1>5. \A i \in S : c(i) \in 1..Cardinality(S)
  <2>1. \A i \in S : i \in Nat /\ 0 < i  OBVIOUS
  <2> QED  BY <1>1, <2>1
<1>6. ASSUME NEW n \in 1..Cardinality(S) PROVE Nth(S, n) \in S /\ c(Nth(S, n)) = n
  BY <1>2, <1>3, Zenon
<1>7. ASSUME NEW i \in S PROVE Nth(S, c(i)) = i
  BY <1>4, <1>5, <1>6
<1> QED  BY <1>5, <1>6, <1>7 DEF c

LEMMA Greatest ==
  ASSUME NEW N \in Nat, NEW S, S \subseteq 1..N, S # {}
  PROVE  \E x \in S : \A y \in S : y <= x
<1> DEFINE T == {m \in 0..N : \E y \in S : m = N - y}
<1>1. T \subseteq Nat  OBVIOUS
<1>2. \A y \in S : y \in 1..N /\ N - y \in T  OBVIOUS
<1>3. T # {}  BY <1>2
<1>4. PICK m \in T : \A n \in T : m <= n
  <2> HIDE DEF T
  <2> QED  BY <1>1, <1>3, Least
<1>5. PICK x \in S : m = N - x  OBVIOUS
<1>6. \A y \in S : N - x <= N - y  BY <1>2, <1>4, <1>5
<1> QED  BY <1>2, <1>6

LEMMA RemoveFacts ==
  ASSUME NEW S, NEW seq \in Seq(S), NEW k \in DOMAIN seq
  PROVE  /\ Len(seq) \in Nat /\ k \in 1..Len(seq) /\ DOMAIN seq = 1..Len(seq)
         /\ RemoveAt(seq, k) \in Seq(S) /\ Len(RemoveAt(seq, k)) = Len(seq) - 1
         /\ DOMAIN RemoveAt(seq, k) = 1..(Len(seq) - 1)
         /\ \A i \in 1..(Len(seq) - 1) :
              RemoveAt(seq, k)[i] = IF i < k THEN seq[i] ELSE seq[i + 1]
<1> DEFINE new == RemoveAt(seq, k)
           l == SubSeq(seq, 1, k - 1)
           r == SubSeq(seq, k + 1, Len(seq))
<1>1. /\ Len(seq) \in Nat /\ DOMAIN seq = 1..Len(seq) /\ k \in 1..Len(seq)
      /\ \A i \in 1..Len(seq) : seq[i] \in S
  BY LenProperties
<1>2. /\ l \in Seq(S) /\ Len(l) = k - 1
      /\ \A i \in 1..(k - 1) : l[i] = seq[i]
  <2>1. \A i \in 1..(k - 1) : seq[i] \in S  BY <1>1
  <2>2. 1 \in Int /\ k - 1 \in Int  BY <1>1
  <2>3. /\ l \in Seq(S) /\ Len(l) = IF 1 <= k - 1 THEN k - 1 - 1 + 1 ELSE 0
        /\ \A i \in 1..(k - 1 - 1 + 1) : l[i] = seq[1 + i - 1]
    BY ONLY <2>1, <2>2, SubSeqProperties
  <2> HIDE DEF l
  <2> QED  BY <1>1, <2>3
<1>3. /\ r \in Seq(S) /\ Len(r) = Len(seq) - k
      /\ \A i \in 1..(Len(seq) - k) : r[i] = seq[k + i]
  <2>1. \A i \in (k + 1)..Len(seq) : seq[i] \in S  BY <1>1
  <2>2. k + 1 \in Int /\ Len(seq) \in Int  BY <1>1
  <2>3. /\ r \in Seq(S)
        /\ Len(r) = IF k + 1 <= Len(seq) THEN Len(seq) - (k + 1) + 1 ELSE 0
        /\ \A i \in 1..(Len(seq) - (k + 1) + 1) : r[i] = seq[k + 1 + i - 1]
    BY ONLY <2>1, <2>2, SubSeqProperties
  <2> HIDE DEF r
  <2>4. Len(r) = Len(seq) - k  BY <1>1, <2>3
  <2>5. ASSUME NEW i \in 1..(Len(seq) - k) PROVE r[i] = seq[k + i]
    <3>1. i \in 1..(Len(seq) - (k + 1) + 1) /\ k + 1 + i - 1 = k + i  BY <1>1
    <3>2. r[i] = seq[k + 1 + i - 1]  BY <2>3, <3>1
    <3> QED  BY <3>1, <3>2
  <2> QED  BY <2>3, <2>4, <2>5
<1> HIDE DEF l, r
<1>4. new = l \o r  BY DEF RemoveAt, l, r
<1>5. /\ new \in Seq(S) /\ Len(new) = Len(l) + Len(r)
      /\ \A i \in 1..(Len(l) + Len(r)) :
           new[i] = IF i <= Len(l) THEN l[i] ELSE r[i - Len(l)]
  BY <1>2, <1>3, <1>4, ConcatProperties
<1> HIDE DEF new
<1>6. Len(new) = Len(seq) - 1  BY <1>1, <1>2, <1>3, <1>5
<1>7. ASSUME NEW i \in 1..(Len(seq) - 1)
      PROVE  new[i] = IF i < k THEN seq[i] ELSE seq[i + 1]
  <2>1. i \in 1..(Len(l) + Len(r)) /\ Len(l) = k - 1  BY <1>1, <1>2, <1>3
  <2>2. CASE i < k  BY <1>1, <1>2, <1>5, <2>1, <2>2
  <2>3. CASE ~(i < k)
    <3>1. i - Len(l) \in 1..(Len(seq) - k) /\ ~(i <= Len(l)) /\ k + (i - Len(l)) = i + 1
      BY <1>1, <2>1, <2>3
    <3>2. new[i] = r[i - Len(l)]  BY <1>5, <2>1, <3>1
    <3>3. r[i - Len(l)] = seq[k + (i - Len(l))]  BY <1>3, <3>1
    <3> QED  BY <2>3, <3>1, <3>2, <3>3
  <2> QED  BY <2>2, <2>3
<1>8. DOMAIN new = 1..(Len(seq) - 1)  BY <1>5, <1>6, LenProperties
<1> QED  BY <1>1, <1>5, <1>6, <1>7, <1>8 DEF new

\* What leaves the list is one element.
LEMMA RemoveElems ==
  ASSUME NEW S, NEW seq \in Seq(S), NEW k \in DOMAIN seq
  PROVE  /\ Elems(RemoveAt(seq, k)) \subseteq Elems(seq)
         /\ \A i \in DOMAIN seq : i # k => seq[i] \in Elems(RemoveAt(seq, k))
<1> DEFINE new == RemoveAt(seq, k)
<1>1. /\ Len(seq) \in Nat /\ k \in 1..Len(seq) /\ DOMAIN seq = 1..Len(seq)
      /\ DOMAIN new = 1..(Len(seq) - 1)
      /\ \A i \in 1..(Len(seq) - 1) : new[i] = IF i < k THEN seq[i] ELSE seq[i + 1]
  BY RemoveFacts
<1> HIDE DEF new
<1>2. Elems(new) \subseteq Elems(seq)  BY <1>1 DEF Elems
<1>3. ASSUME NEW i \in 1..Len(seq), i # k PROVE seq[i] \in Elems(new)
  <2>1. CASE i < k
    <3>1. i \in 1..(Len(seq) - 1) /\ new[i] = seq[i]  BY <1>1, <2>1
    <3> QED  BY <1>1, <3>1 DEF Elems
  <2>2. CASE i > k
    <3>1. i - 1 \in 1..(Len(seq) - 1) /\ new[i - 1] = seq[i]  BY <1>1, <2>2
    <3> QED  BY <1>1, <3>1 DEF Elems
  <2> QED  BY <1>1, <1>3, <2>1, <2>2
<1> QED  BY <1>1, <1>2, <1>3 DEF new

LEMMA AppendElems ==
  ASSUME NEW S, NEW seq \in Seq(S), NEW e \in S
  PROVE  /\ Append(seq, e) \in Seq(S) /\ Elems(Append(seq, e)) = Elems(seq) \cup {e}
         /\ Len(seq) \in Nat /\ DOMAIN seq = 1..Len(seq)
         /\ DOMAIN Append(seq, e) = 1..(Len(seq) + 1)
         /\ \A i \in 1..Len(seq) : Append(seq, e)[i] = seq[i]
         /\ Append(seq, e)[Len(seq) + 1] = e
<1> DEFINE new == Append(seq, e)
<1>1. /\ new \in Seq(S) /\ Len(new) = Len(seq) + 1 /\ new[Len(seq) + 1] = e
      /\ \A i \in 1..Len(seq) : new[i] = seq[i]
  BY AppendProperties
<1> HIDE DEF new
<1>2. Len(seq) \in Nat /\ DOMAIN seq = 1..Len(seq) /\ DOMAIN new = 1..(Len(seq) + 1)
  BY <1>1, LenProperties
<1>3. Elems(new) = Elems(seq) \cup {e}
  <2>1. \A x \in Elems(seq) : x \in Elems(new)  BY <1>1, <1>2 DEF Elems
  <2>2. e \in Elems(new)  BY <1>1, <1>2 DEF Elems
  <2>3. \A x \in Elems(new) : x \in Elems(seq) \cup {e}  BY <1>1, <1>2 DEF Elems
  <2> QED  BY <2>1, <2>2, <2>3
<1> QED  BY <1>1, <1>2, <1>3 DEF new

\* The first event cwmp_remove_event meets.
LEMMA FirstOfFacts ==
  ASSUME NEW S, events \in Seq(S), NEW policy, NEW n
  PROVE  /\ FirstOf(policy, n) = 0
              => \A e \in Elems(events) : ~(e.code \in policy /\ e.id = n)
         /\ FirstOf(policy, n) # 0
              => /\ FirstOf(policy, n) \in DOMAIN events
                 /\ events[FirstOf(policy, n)].code \in policy
                 /\ events[FirstOf(policy, n)].id = n
<1> DEFINE I == {i \in 1..Len(events) : events[i].code \in policy /\ events[i].id = n}
<1>1. Len(events) \in Nat /\ DOMAIN events = 1..Len(events)  BY LenProperties
<1>2. FirstOf(policy, n) = IF I # {} THEN Min(I) ELSE 0
  BY DEF FirstOf, SelectInSeq
<1>3. CASE I = {}
  BY <1>1, <1>2, <1>3 DEF Elems
<1>4. CASE I # {}
  <2>1. I \subseteq Nat /\ 0 \notin I  BY <1>1
  <2>2. Min(I) \in I
    <3> HIDE DEF I
    <3>1. \E x \in I : \A y \in I : x <= y  BY <1>4, <2>1, Least
    <3> QED  BY <3>1 DEF Min
  <2> QED  BY <1>1, <1>2, <1>4, <2>1, <2>2
<1> QED  BY <1>3, <1>4

-----------------------------------------------------------------------------
(***************************************************************************)
(* The list of events and the event nodes of the file.  A connection       *)
(* request is never saved; an M Download or M Upload always is, with the   *)
(* id of its report.                                                       *)
(***************************************************************************)
Methods == {"M_DOWNLOAD", "M_UPLOAD"}

GoodEvent == {e \in Event : /\ e.code \in NoRetry => ~e.saved /\ e.id = 0
                            /\ e.code \in Methods => e.saved /\ e.id # 0}

GoodNode == {x \in Node : /\ x.code \notin NoRetry
                          /\ x.code \in Methods => x.id # 0}

SinglesOnce(evs) ==
  \A i, j \in DOMAIN evs : evs[i].code = evs[j].code /\ evs[i].code \notin Multiple => i = j

\* backup_load_event: a node keeps its id, and one without an id gets some id.
LEMMA LoadedIdFacts ==
  ASSUME NEW nodes \in Seq(Node), NEW i \in DOMAIN nodes
  PROVE  /\ LoadedId(nodes, i) \in Nat
         /\ nodes[i].id # 0 => LoadedId(nodes, i) = nodes[i].id
<1> DEFINE W == {j \in 1..i : nodes[j].id # 0}
           top == CHOOSE j \in W : \A k \in W : k <= j
<1>1. /\ Len(nodes) \in Nat /\ DOMAIN nodes = 1..Len(nodes) /\ i \in 1..Len(nodes)
      /\ \A j \in 1..Len(nodes) : nodes[j] \in Node
  BY LenProperties
<1>2. LoadedId(nodes, i) = IF W = {} THEN 0 ELSE nodes[top].id  BY DEF LoadedId
<1>3. CASE W = {}
  <2>1. nodes[i].id = 0  BY <1>1, <1>3
  <2> QED  BY <1>2, <1>3, <2>1
<1>4. CASE W # {}
  <2>1. W \subseteq 1..i /\ i \in Nat  BY <1>1
  <2>2. top \in W /\ \A k \in W : k <= top
    <3> HIDE DEF W
    <3>1. \E j \in W : \A k \in W : k <= j  BY <1>4, <2>1, Greatest
    <3> QED  BY <3>1
  <2>3. nodes[top].id \in Nat
    <3>1. nodes[top] \in Node  BY <1>1, <2>1, <2>2
    <3> QED  BY <3>1 DEF Node
  <2>4. nodes[i].id # 0 => top = i
    <3>1. nodes[i].id # 0 => i \in W  BY <1>1
    <3> HIDE DEF top
    <3> QED  BY <1>1, <2>1, <2>2, <3>1
  <2> HIDE DEF top, W
  <2> QED  BY <1>2, <1>4, <2>3, <2>4
<1> QED  BY <1>3, <1>4

\* What backup_load_event makes of the nodes, in their order.
LEMMA LoadFacts ==
  ASSUME NEW nodes \in Seq(GoodNode)
  PROVE  /\ LoadEvents(nodes) \in Seq(GoodEvent)
         /\ \A n \in DOMAIN LoadEvents(nodes) : \E i \in Kept(nodes) :
              /\ LoadEvents(nodes)[n] = Loaded(nodes, i)
              /\ n = Cardinality(UpTo(Kept(nodes), i))
         /\ \A i \in Kept(nodes) : Loaded(nodes, i) \in Elems(LoadEvents(nodes))
         /\ \A i \in DOMAIN nodes : nodes[i].code \in Multiple => i \in Kept(nodes)
         /\ \A i \in DOMAIN nodes : \E j \in Kept(nodes) : nodes[j].code = nodes[i].code
<1> DEFINE K == Kept(nodes)
           evs == LoadEvents(nodes)
<1>1. /\ Len(nodes) \in Nat /\ DOMAIN nodes = 1..Len(nodes)
      /\ \A i \in 1..Len(nodes) : nodes[i] \in GoodNode /\ nodes[i] \in Node
  BY LenProperties DEF GoodNode
<1>2. nodes \in Seq(Node)  BY SeqMonotonic DEF GoodNode
<1>3. K \subseteq 1..Len(nodes)  BY <1>1 DEF Kept
<1>4. /\ Cardinality(K) \in Nat
      /\ \A n \in 1..Cardinality(K) : Nth(K, n) \in K /\ Cardinality(UpTo(K, Nth(K, n))) = n
      /\ \A i \in K : /\ Cardinality(UpTo(K, i)) \in 1..Cardinality(K)
                      /\ Nth(K, Cardinality(UpTo(K, i))) = i
  <2> HIDE DEF K
  <2> QED  BY <1>1, <1>3, UpToFacts, NthFacts
<1>5. evs = [n \in 1..Cardinality(K) |-> Loaded(nodes, Nth(K, n))]  BY DEF LoadEvents
<1>6. \A i \in K : Loaded(nodes, i) \in GoodEvent
  <2> SUFFICES ASSUME NEW i \in K PROVE Loaded(nodes, i) \in GoodEvent  OBVIOUS
  <2>1. nodes[i] \in GoodNode /\ i \in DOMAIN nodes  BY <1>1, <1>3
  <2>2. LoadedId(nodes, i) \in Nat /\ (nodes[i].id # 0 => LoadedId(nodes, i) = nodes[i].id)
    BY <1>2, <2>1, LoadedIdFacts
  <2> QED  BY <2>1, <2>2 DEF Loaded, GoodNode, GoodEvent, Node, Event
<1> HIDE DEF K, evs
<1>7. evs \in Seq(GoodEvent)
  <2>1. evs \in [1..Cardinality(K) -> GoodEvent]  BY <1>4, <1>5, <1>6
  <2> QED  BY <1>4, <2>1
<1>8. DOMAIN evs = 1..Cardinality(K)  BY <1>5
<1>9. \A n \in DOMAIN evs : \E i \in K : evs[n] = Loaded(nodes, i) /\ n = Cardinality(UpTo(K, i))
  BY <1>4, <1>5, <1>8
<1>10. \A i \in K : Loaded(nodes, i) \in Elems(evs)
  <2> SUFFICES ASSUME NEW i \in K PROVE Loaded(nodes, i) \in Elems(evs)  OBVIOUS
  <2>1. PICK n \in 1..Cardinality(K) : Nth(K, n) = i  BY <1>4
  <2>2. n \in DOMAIN evs /\ evs[n] = Loaded(nodes, i)  BY <1>5, <1>8, <2>1
  <2> QED  BY <2>2 DEF Elems
<1>11. \A i \in DOMAIN nodes : nodes[i].code \in Multiple => i \in K  BY DEF Kept, K
<1>12. ASSUME NEW i \in DOMAIN nodes PROVE \E j \in K : nodes[j].code = nodes[i].code
  <2> DEFINE T == {j \in 1..Len(nodes) : nodes[j].code = nodes[i].code}
  <2>1. T \subseteq Nat /\ T # {}  BY <1>1
  <2>2. PICK j \in T : \A k \in T : j <= k
    <3> HIDE DEF T
    <3> QED  BY <2>1, Least
  <2>3. j \in 1..Len(nodes) /\ nodes[j].code = nodes[i].code  OBVIOUS
  <2>4. \A k \in 1..(j - 1) : nodes[k].code # nodes[j].code
    <3> SUFFICES ASSUME NEW k \in 1..(j - 1), nodes[k].code = nodes[j].code PROVE FALSE
      OBVIOUS
    <3>1. k \in T  BY <1>1, <2>3
    <3> QED  BY <2>2, <2>3, <3>1
  <2> QED  BY <1>1, <2>3, <2>4 DEF Kept, K
<1> QED  BY <1>7, <1>9, <1>10, <1>11, <1>12 DEF K, evs

\* The list and the nodes are well formed; a report's id is never 0.
EventInv ==
  /\ events \in Seq(GoodEvent) /\ SinglesOnce(events)
  /\ tree.events \in Seq(GoodNode)
  /\ pc \in {"event", "method"} => methodId # 0

\* Nothing but the nodes of the tree changes.
OnlyNodes == tree' = [acs |-> tree.acs, events |-> tree'.events,
                      transfers |-> tree.transfers, tcs |-> tree.tcs]

LEMMA AddEventEffect ==
  ASSUME EventInv, NEW c \in Codes, NEW k \in Keys, NEW n \in Nat, NEW saved \in BOOLEAN,
         [code |-> c, key |-> k, id |-> n, saved |-> saved] \in GoodEvent,
         events' = AddEvent(events, c, k, n, saved)
  PROVE  /\ events' \in Seq(GoodEvent) /\ SinglesOnce(events') /\ Has(events', c)
         /\ Elems(events) \subseteq Elems(events')
         /\ Elems(events') \subseteq Elems(events)
                              \cup {[code |-> c, key |-> k, id |-> n, saved |-> saved]}
<1> DEFINE e == [code |-> c, key |-> k, id |-> n, saved |-> saved]
<1>1. e.code = c /\ e \in GoodEvent  OBVIOUS
<1>2. CASE ~Adds(events, c)
  BY <1>2 DEF AddEvent, Adds, EventInv
<1>3. CASE Adds(events, c)
  <2>1. events' = Append(events, e)  BY <1>3 DEF AddEvent
  <2> HIDE DEF e
  <2>2. /\ Append(events, e) \in Seq(GoodEvent)
        /\ Elems(Append(events, e)) = Elems(events) \cup {e}
        /\ Len(events) \in Nat /\ DOMAIN events = 1..Len(events)
        /\ DOMAIN Append(events, e) = 1..(Len(events) + 1)
        /\ \A i \in 1..Len(events) : Append(events, e)[i] = events[i]
        /\ Append(events, e)[Len(events) + 1] = e
    BY <1>1, AppendElems DEF EventInv
  <2>3. Has(events', c)  BY <1>1, <2>1, <2>2 DEF Has
  <2>4. SinglesOnce(events')
    <3> SUFFICES ASSUME NEW i \in 1..(Len(events) + 1), NEW j \in 1..(Len(events) + 1),
                        events'[i].code = events'[j].code, events'[i].code \notin Multiple
                 PROVE  i = j
      BY <2>1, <2>2 DEF SinglesOnce
    <3>1. CASE i \in 1..Len(events) /\ j \in 1..Len(events)
      BY <2>1, <2>2, <3>1 DEF EventInv, SinglesOnce
    <3>2. CASE i = Len(events) + 1 /\ j \in 1..Len(events)
      BY <1>1, <1>3, <2>1, <2>2, <3>2 DEF Adds, Has
    <3>3. CASE j = Len(events) + 1 /\ i \in 1..Len(events)
      BY <1>1, <1>3, <2>1, <2>2, <3>3 DEF Adds, Has
    <3> QED  BY <2>2, <3>1, <3>2, <3>3
  <2> QED  BY <2>1, <2>2, <2>3, <2>4 DEF e
<1> QED  BY <1>2, <1>3

\* cwmp_add_event with EVENT_BACKUP.
LEMMA AddSavedEffect ==
  ASSUME EventInv, LedgerTypes, NEW c \in Codes \ NoRetry, NEW k \in Keys, NEW n \in Nat,
         c \in Methods => n # 0, AddSaved(c, k, n)
  PROVE  /\ events' \in Seq(GoodEvent) /\ SinglesOnce(events') /\ Has(events', c)
         /\ Elems(events) \subseteq Elems(events')
         /\ Elems(events') \subseteq Elems(events)
                              \cup {[code |-> c, key |-> k, id |-> n, saved |-> TRUE]}
         /\ OnlyNodes /\ tree'.events \in Seq(GoodNode)
         /\ \/ c \notin Multiple /\ Has(events, c) /\ UNCHANGED <<events, tree>>
            \/ /\ c \in Multiple \/ ~Has(events, c)
               /\ events' = Append(events, [code |-> c, key |-> k, id |-> n, saved |-> TRUE])
               /\ tree'.events = Append(tree.events, [code |-> c, key |-> k, id |-> n])
<1> DEFINE e == [code |-> c, key |-> k, id |-> n, saved |-> TRUE]
           x == [code |-> c, key |-> k, id |-> n]
<1>1. e \in GoodEvent /\ x \in GoodNode
  BY DEF GoodEvent, GoodNode, Event, Node
<1>2. events' = AddEvent(events, c, k, n, TRUE)  BY DEF AddSaved
<1>3. /\ events' \in Seq(GoodEvent) /\ SinglesOnce(events') /\ Has(events', c)
      /\ Elems(events) \subseteq Elems(events') /\ Elems(events') \subseteq Elems(events) \cup {e}
  BY <1>1, <1>2, AddEventEffect
<1>4. CASE Adds(events, c)
  <2>1. tree' = [tree EXCEPT !.events = Append(@, x)] /\ events' = Append(events, e)
    BY <1>4 DEF AddSaved, AddEvent
  <2> HIDE DEF e, x
  <2>2. OnlyNodes /\ tree'.events = Append(tree.events, x)  BY <2>1 DEF OnlyNodes, LedgerTypes
  <2>3. tree'.events \in Seq(GoodNode)  BY <1>1, <2>2, AppendProperties DEF EventInv
  <2> QED  BY <1>3, <1>4, <2>1, <2>2, <2>3 DEF Adds, e, x
<1>5. CASE ~Adds(events, c)
  <2>1. tree' = tree /\ events' = events  BY <1>5 DEF AddSaved, AddEvent
  <2> QED  BY <1>3, <1>5, <2>1 DEF Adds, OnlyNodes, LedgerTypes, EventInv
<1> QED  BY <1>4, <1>5

\* A turn of the loop of cwmp_remove_event.
LEMMA RemoveEventEffect ==
  ASSUME EventInv, LedgerTypes, NEW policy, NEW n, RemoveEvent(policy, n)
  PROVE  \E i \in DOMAIN events :
           /\ i = FirstOf(policy, n) /\ events[i].code \in policy /\ events[i].id = n
           /\ events' = RemoveAt(events, i)
           /\ \/ ~events[i].saved /\ tree' = tree
              \/ /\ events[i].saved /\ OnlyNodes
                 /\ \E j \in DOMAIN tree.events :
                      /\ IsNodeOf(j, i) /\ tree'.events = RemoveAt(tree.events, j)
<1> DEFINE i == FirstOf(policy, n)
<1>1. i \in DOMAIN events /\ events[i].code \in policy /\ events[i].id = n
  BY FirstOfFacts DEF RemoveEvent, EventInv
<1>2. /\ events' = RemoveAt(events, i)
      /\ \/ ~events[i].saved /\ UNCHANGED tree
         \/ /\ events[i].saved
            /\ \E j \in DOMAIN tree.events :
                 IsNodeOf(j, i) /\ tree' = [tree EXCEPT !.events = RemoveAt(@, j)]
  BY DEF RemoveEvent
<1> HIDE DEF i
<1>3. ASSUME NEW j \in DOMAIN tree.events, tree' = [tree EXCEPT !.events = RemoveAt(@, j)]
      PROVE  OnlyNodes /\ tree'.events = RemoveAt(tree.events, j)
  BY <1>3 DEF OnlyNodes, LedgerTypes
<1>4. i = FirstOf(policy, n)  BY DEF i
<1> QED  BY <1>1, <1>2, <1>3, <1>4

\* Removing an event leaves the single ones single.
LEMMA RemoveAtKeeps ==
  ASSUME EventInv, NEW i \in DOMAIN events
  PROVE  RemoveAt(events, i) \in Seq(GoodEvent) /\ SinglesOnce(RemoveAt(events, i))
<1> DEFINE new == RemoveAt(events, i)
<1>1. /\ Len(events) \in Nat /\ i \in 1..Len(events) /\ DOMAIN events = 1..Len(events)
      /\ new \in Seq(GoodEvent) /\ DOMAIN new = 1..(Len(events) - 1)
      /\ \A k \in 1..(Len(events) - 1) : new[k] = IF k < i THEN events[k] ELSE events[k + 1]
  BY RemoveFacts DEF EventInv
<1> HIDE DEF new
<1>2. SinglesOnce(new)
  <2> SUFFICES ASSUME NEW k \in 1..(Len(events) - 1), NEW l \in 1..(Len(events) - 1),
                      new[k].code = new[l].code, new[k].code \notin Multiple
               PROVE  k = l
    BY <1>1 DEF SinglesOnce
  <2> DEFINE f(q) == IF q < i THEN q ELSE q + 1
  <2>1. /\ f(k) \in 1..Len(events) /\ f(l) \in 1..Len(events)
        /\ new[k] = events[f(k)] /\ new[l] = events[f(l)]
    BY <1>1
  <2>2. f(k) = f(l)
    <3> HIDE DEF f
    <3> QED  BY <1>1, <2>1 DEF EventInv, SinglesOnce
  <2> QED  BY <1>1, <2>2
<1> QED  BY <1>1, <1>2 DEF new

\* The steps that leave the list and the nodes alone.
Still == events' = events /\ tree'.events = tree.events

LEMMA StillSteps ==
  ASSUME LedgerTypes, pc \in {"event", "method"} => methodId # 0,
         \/ UNCHANGED vars \/ (CheckAcsUrl /\ SavedUrl) \/ ChangeUrl \/ Reload
         \/ \E t \in Transfers : Launch(t)
         \/ RunScript \/ RemoveTransfer \/ AddTransferComplete
         \/ RemoveTransferComplete \/ (Applied /\ pc' = "idle")
         \/ \E timer \in {"inform", "retry"} : DoInform(timer)
         \/ Fail \/ SendInform \/ SendTransferComplete \/ SendGetRpcMethods
         \/ GetRpcMethodsAnswered \/ \E t \in Transfers : HandleTransfer(t)
         \/ HandleFactoryReset \/ \E s \in Schedules : HandleScheduleInform(s)
         \/ HandleSetParameter \/ EmptyMessage
         \/ (HandleEndSession /\ pc' # "down") \/ (Ended /\ ok)
  PROVE  /\ Still
         /\ pc' \in {"event", "method"} => methodId' # 0
<1> USE DEF LedgerTypes, Still, mem, loop, sess, ctl, hist
<1>1. CASE UNCHANGED vars  BY <1>1 DEF vars
<1>2. CASE CheckAcsUrl /\ SavedUrl  BY <1>2 DEF CheckAcsUrl
<1>3. CASE ChangeUrl  BY <1>3 DEF ChangeUrl
<1>4. CASE Reload  BY <1>4 DEF Reload
<1>5. CASE \E t \in Transfers : Launch(t)  BY <1>5 DEF Launch
<1>6. CASE RemoveTransfer  BY <1>6 DEF RemoveTransfer
<1>7. CASE AddTransferComplete  BY <1>7 DEF AddTransferComplete
<1>8. CASE Applied /\ pc' = "idle"  BY <1>8 DEF Applied, Exit
<1>9. CASE \E timer \in {"inform", "retry"} : DoInform(timer)  BY <1>9 DEF DoInform
<1>10. CASE Fail  BY <1>10 DEF Fail
<1>11. CASE SendInform  BY <1>11 DEF SendInform
<1>12. CASE SendTransferComplete  BY <1>12 DEF SendTransferComplete
<1>13. CASE SendGetRpcMethods  BY <1>13 DEF SendGetRpcMethods
<1>14. CASE GetRpcMethodsAnswered  BY <1>14 DEF GetRpcMethodsAnswered
<1>15. CASE \E t \in Transfers : HandleTransfer(t)  BY <1>15 DEF HandleTransfer
<1>16. CASE HandleFactoryReset  BY <1>16 DEF HandleFactoryReset
<1>17. CASE \E s \in Schedules : HandleScheduleInform(s)  BY <1>17 DEF HandleScheduleInform
<1>18. CASE HandleSetParameter  BY <1>18 DEF HandleSetParameter
<1>19. CASE EmptyMessage  BY <1>19 DEF EmptyMessage
<1>20. CASE HandleEndSession /\ pc' # "down"  BY <1>20 DEF HandleEndSession, Exit
<1>21. CASE Ended /\ ok  BY <1>21 DEF Ended
<1>22. CASE RunScript  BY <1>22 DEF RunScript
<1>23. CASE RemoveTransferComplete  BY <1>23 DEF RemoveTransferComplete
<1> QED  BY <1>1, <1>2, <1>3, <1>4, <1>5, <1>6, <1>7, <1>8, <1>9, <1>10, <1>11,
            <1>12, <1>13, <1>14, <1>15, <1>16, <1>17, <1>18, <1>19, <1>20, <1>21,
            <1>22, <1>23

\* The steps that add a saved event, and the event they add.
LEMMA SavingSteps ==
  ASSUME LedgerInv, cur \in Keys, EventInv,
         \/ Bootstrap \/ Started \/ PeriodicInform \/ ScheduledMethod
         \/ \E s \in Schedules : ScheduledInform(s)
         \/ AddTransferEvent \/ AddMethodEvent
  PROVE  \E c \in Codes \ NoRetry, k \in Keys, n \in Nat :
           /\ AddSaved(c, k, n) /\ (c \in Methods => n # 0)
           /\ pc' \in {"event", "method"} => methodId' # 0
           /\ c \in Methods => AddMethodEvent /\ k = cur /\ n = methodId
<1> USE DEF Codes, AfterInform, AfterTransferComplete, NoRetry, Methods, Keys
<1>1. CASE Bootstrap
  <2>1. AddSaved("BOOTSTRAP", None, 0) /\ pc' = "version"  BY <1>1 DEF Bootstrap
  <2> QED  BY <2>1
<1>2. CASE Started
  <2>1. (AddSaved("BOOT", None, 0) \/ AddSaved("PERIODIC", None, 0)) /\ pc' = "idle"
    BY <1>2 DEF Started
  <2> QED  BY <2>1
<1>3. CASE PeriodicInform
  <2>1. AddSaved("PERIODIC", None, 0) /\ pc' = "idle"  BY <1>3 DEF PeriodicInform, ctl
  <2> QED  BY <2>1
<1>4. CASE ScheduledMethod
  <2>1. AddSaved("M_SCHEDULEINFORM", cur, 0) /\ pc' = "idle"  BY <1>4 DEF ScheduledMethod
  <2> QED  BY <2>1
<1>5. CASE \E s \in Schedules : ScheduledInform(s)
  <2>1. AddSaved("SCHEDULED", None, 0) /\ pc' = "schedule"  BY <1>5 DEF ScheduledInform
  <2> QED  BY <2>1
<1>6. CASE AddTransferEvent
  <2>1. AddSaved("TRANSFER_COMPLETE", None, 0) /\ methodId' = methodId /\ methodId # 0
    BY <1>6 DEF AddTransferEvent, EventInv
  <2> QED  BY <2>1
<1>7. CASE AddMethodEvent
  <2> DEFINE c == IF cur \in Downloads THEN "M_DOWNLOAD" ELSE "M_UPLOAD"
  <2>1. AddSaved(c, cur, methodId) /\ methodId # 0 /\ methodId \in Nat /\ pc' = "apply"
    BY <1>7 DEF AddMethodEvent, EventInv, LedgerInv, LedgerTypes
  <2>2. c \in Codes \ NoRetry  OBVIOUS
  <2> QED  BY <1>7, <2>1, <2>2
<1> QED  BY <1>1, <1>2, <1>3, <1>4, <1>5, <1>6, <1>7

\* The steps that add an event without saving it.
LEMMA UnsavedSteps ==
  ASSUME LedgerTypes,
         \/ \E c \in Unsaved : AddUnsaved(c)
         \/ PassiveNotification \/ (CheckVersion /\ events' # events)
  PROVE  \E c \in Unsaved : /\ events' = AddEvent(events, c, None, 0, FALSE)
                            /\ tree' = tree /\ pc' \notin {"event", "method"}
<1>1. CASE \E c \in Unsaved : AddUnsaved(c)  BY <1>1 DEF AddUnsaved, ctl
<1>2. CASE PassiveNotification
  <2>1. "VALUE_CHANGE" \in Unsaved  BY DEF Unsaved
  <2> QED  BY <1>2, <2>1 DEF PassiveNotification, ctl
<1>3. CASE CheckVersion /\ events' # events
  <2>1. "VALUE_CHANGE" \in Unsaved  BY DEF Unsaved
  <2>2. pc' \notin {"event", "method"}  BY <1>3 DEF CheckVersion, LedgerTypes
  <2> QED  BY <1>3, <2>1, <2>2 DEF CheckVersion
<1> QED  BY <1>1, <1>2, <1>3

\* Every step keeps the list and the nodes well formed.
LEMMA EventStep ==
  ASSUME LedgerInv, cur \in Keys, EventInv, [Next]_vars
  PROVE  EventInv'
<1> USE DEF LedgerInv
<1>0. LedgerTypes /\ (pc \in {"event", "method"} => methodId # 0)  BY DEF EventInv
<1>1. ASSUME Still, pc' \in {"event", "method"} => methodId' # 0 PROVE EventInv'
  BY <1>1 DEF Still, EventInv, SinglesOnce
<1>2. ASSUME NEW c \in Codes \ NoRetry, NEW k \in Keys, NEW n \in Nat, AddSaved(c, k, n),
             c \in Methods => n # 0, pc' \in {"event", "method"} => methodId' # 0
      PROVE  EventInv'
  <2>1. events' \in Seq(GoodEvent) /\ SinglesOnce(events') /\ tree'.events \in Seq(GoodNode)
    BY <1>2, AddSavedEffect
  <2> QED  BY <1>2, <2>1 DEF EventInv, SinglesOnce
<1>3. ASSUME NEW c \in Unsaved, events' = AddEvent(events, c, None, 0, FALSE),
             tree' = tree, pc' \notin {"event", "method"}
      PROVE  EventInv'
  <2>1. /\ c \in Codes /\ None \in Keys /\ 0 \in Nat /\ FALSE \in BOOLEAN
        /\ [code |-> c, key |-> None, id |-> 0, saved |-> FALSE] \in GoodEvent
    BY DEF Unsaved, Codes, AfterInform, GoodEvent, Event, Keys, Methods
  <2>2. events' \in Seq(GoodEvent) /\ SinglesOnce(events')  BY <1>3, <2>1, AddEventEffect
  <2> QED  BY <1>3, <2>2 DEF EventInv, SinglesOnce
<1>4. ASSUME NEW policy, NEW n, RemoveEvent(policy, n), pc' \notin {"event", "method"}
      PROVE  EventInv'
  <2>1. PICK i \in DOMAIN events :
          /\ events' = RemoveAt(events, i)
          /\ \/ tree' = tree
             \/ \E j \in DOMAIN tree.events : tree'.events = RemoveAt(tree.events, j)
    BY <1>4, RemoveEventEffect
  <2>2. events' \in Seq(GoodEvent) /\ SinglesOnce(events')  BY <2>1, RemoveAtKeeps
  <2>3. tree'.events \in Seq(GoodNode)  BY <2>1, RemoveFacts DEF EventInv
  <2> QED  BY <1>4, <2>2, <2>3 DEF EventInv, SinglesOnce
<1>5. ASSUME events' = <<>>, tree'.events \in Seq(GoodNode), pc' \notin {"event", "method"}
      PROVE  EventInv'
  <2>1. <<>> \in Seq(GoodEvent) /\ DOMAIN <<>> = 1..0  BY EmptySeq, LenProperties
  <2> QED  BY <1>5, <2>1 DEF EventInv, SinglesOnce
<1>6. EmptyTree(None).events = <<>> /\ EmptyTree(url).events = <<>> /\ <<>> \in Seq(GoodNode)
  BY EmptySeq DEF EmptyTree
<1>7. ClearInformed => EventInv'
  <2> SUFFICES ASSUME ClearInformed PROVE EventInv'  OBVIOUS
  <2>1. pc' \notin {"event", "method"}  BY DEF ClearInformed
  <2>2. RemoveEvent(AfterInform, 0) \/ Still  BY DEF ClearInformed, Still
  <2> QED  BY <1>1, <1>4, <2>1, <2>2
<1>8. ClearReported => EventInv'
  <2> SUFFICES ASSUME ClearReported PROVE EventInv'  OBVIOUS
  <2>1. pc' \notin {"event", "method"}  BY DEF ClearReported
  <2>2. RemoveEvent(AfterTransferComplete, ackId) \/ Still  BY DEF ClearReported, Still
  <2> QED  BY <1>1, <1>4, <2>1, <2>2
<1>9. Start => EventInv'
  <2> SUFFICES ASSUME Start PROVE EventInv'  OBVIOUS
  <2>1. events' = LoadEvents(tree.events) /\ tree' = tree /\ pc' = "config"  BY DEF Start
  <2> DEFINE K == Kept(tree.events)
  <2>2. /\ events' \in Seq(GoodEvent)
        /\ \A n \in DOMAIN events' : \E i \in K :
             events'[n] = Loaded(tree.events, i) /\ n = Cardinality(UpTo(K, i))
    BY <2>1, LoadFacts DEF EventInv
  <2>3. \A i, j \in K : tree.events[i].code = tree.events[j].code
                          /\ tree.events[i].code \notin Multiple => i = j
    <3> SUFFICES ASSUME NEW i \in K, NEW j \in K, tree.events[i].code = tree.events[j].code,
                        tree.events[i].code \notin Multiple
                 PROVE  i = j
      OBVIOUS
    <3>1. DOMAIN tree.events = 1..Len(tree.events) /\ Len(tree.events) \in Nat
      BY LenProperties DEF EventInv
    <3>2. i \in 1..Len(tree.events) /\ j \in 1..Len(tree.events)  BY <3>1 DEF Kept
    <3>3. ~(i \in 1..(j - 1)) /\ ~(j \in 1..(i - 1))  BY DEF Kept
    <3> QED  BY <3>1, <3>2, <3>3
  <2>4. SinglesOnce(events')
    <3> SUFFICES ASSUME NEW n \in DOMAIN events', NEW m \in DOMAIN events',
                        events'[n].code = events'[m].code, events'[n].code \notin Multiple
                 PROVE  n = m
      BY DEF SinglesOnce
    <3>1. PICK i \in K : events'[n] = Loaded(tree.events, i) /\ n = Cardinality(UpTo(K, i))
      BY <2>2
    <3>2. PICK j \in K : events'[m] = Loaded(tree.events, j) /\ m = Cardinality(UpTo(K, j))
      BY <2>2
    <3>3. events'[n].code = tree.events[i].code /\ events'[m].code = tree.events[j].code
      BY <3>1, <3>2 DEF Loaded
    <3> HIDE DEF K
    <3>4. i = j  BY <2>3, <3>3
    <3> QED  BY <3>1, <3>2, <3>4
  <2> QED  BY <2>1, <2>2, <2>4 DEF EventInv, SinglesOnce
<1>10. Ended => EventInv'
  <2> SUFFICES ASSUME Ended PROVE EventInv'  OBVIOUS
  <2>1. tree' = tree /\ pc' = "idle"  BY DEF Ended
  <2>2. \/ events' = events
        \/ FirstOf(NoRetry, 0) # 0 /\ events' = RemoveAt(events, FirstOf(NoRetry, 0))
    BY DEF Ended
  <2>3. CASE events' = events  BY <1>1, <2>1, <2>3 DEF Still
  <2>4. CASE FirstOf(NoRetry, 0) # 0 /\ events' = RemoveAt(events, FirstOf(NoRetry, 0))
    <3>1. FirstOf(NoRetry, 0) \in DOMAIN events  BY <2>4, FirstOfFacts DEF EventInv
    <3>2. events' \in Seq(GoodEvent) /\ SinglesOnce(events')  BY <2>4, <3>1, RemoveAtKeeps
    <3> QED  BY <2>1, <3>2 DEF EventInv, SinglesOnce
  <2> QED  BY <2>2, <2>3, <2>4
<1>11. HandleReboot => EventInv'
  <2> SUFFICES ASSUME HandleReboot PROVE EventInv'  OBVIOUS
  <2> DEFINE x == [code |-> "M_REBOOT", key |-> None, id |-> 0]
  <2>1. x \in GoodNode
    BY DEF GoodNode, Node, Codes, AfterInform, Keys, NoRetry, Methods
  <2>2. events' = events /\ tree'.events = Append(tree.events, x) /\ pc' = "msgs"
    BY DEF HandleReboot, LedgerTypes, mem, ctl
  <2> HIDE DEF x
  <2>3. tree'.events \in Seq(GoodNode)  BY <2>1, <2>2, AppendProperties DEF EventInv
  <2> QED  BY <2>2, <2>3 DEF EventInv, SinglesOnce
<1>12. Crash \/ TornSave \/ (CheckAcsUrl /\ ~SavedUrl) => EventInv'
  BY <1>5, <1>6 DEF Crash, TornSave, Exit, CheckAcsUrl, EventInv
<1>13. Applied => EventInv'
  <2> SUFFICES ASSUME Applied PROVE EventInv'  OBVIOUS
  <2>1. CASE pc' = "idle"
    <3>1. Still  BY <1>0, <2>1, StillSteps
    <3> QED  BY <1>1, <2>1, <3>1
  <2>2. CASE pc' # "idle"  BY <1>5, <2>2 DEF Applied, Exit, EventInv
  <2> QED  BY <2>1, <2>2
<1>14. HandleEndSession => EventInv'
  <2> SUFFICES ASSUME HandleEndSession PROVE EventInv'  OBVIOUS
  <2>1. CASE pc' # "down"
    <3>1. Still /\ (pc' \in {"event", "method"} => methodId' # 0)  BY <1>0, <2>1, StillSteps
    <3> QED  BY <1>1, <3>1
  <2>2. CASE pc' = "down"
    BY <1>5, <1>6, <2>2 DEF HandleEndSession, Exit, EventInv, hist
  <2> QED  BY <2>1, <2>2
<1>15. CheckVersion => EventInv'
  <2> SUFFICES ASSUME CheckVersion PROVE EventInv'  OBVIOUS
  <2>1. CASE events' = events
    <3>1. tree' = tree /\ pc' \notin {"event", "method"}
      BY DEF CheckVersion, LedgerTypes
    <3> QED  BY <1>1, <2>1, <3>1 DEF Still
  <2>2. CASE events' # events  BY <1>3, <2>2, UnsavedSteps
  <2> QED  BY <2>1, <2>2
<1>16. ASSUME (\E c \in Unsaved : AddUnsaved(c)) \/ PassiveNotification PROVE EventInv'
  <2>1. PICK c \in Unsaved : /\ events' = AddEvent(events, c, None, 0, FALSE)
                             /\ tree' = tree /\ pc' \notin {"event", "method"}
    BY <1>0, <1>16, UnsavedSteps
  <2> QED  BY <1>3, <2>1
<1>17. ASSUME \/ Bootstrap \/ Started \/ PeriodicInform \/ ScheduledMethod
              \/ \E s \in Schedules : ScheduledInform(s)
              \/ AddTransferEvent \/ AddMethodEvent
       PROVE  EventInv'
  <2>1. PICK c \in Codes \ NoRetry, k \in Keys, n \in Nat :
          /\ AddSaved(c, k, n) /\ (c \in Methods => n # 0)
          /\ pc' \in {"event", "method"} => methodId' # 0
    BY <1>17, SavingSteps
  <2> QED  BY <1>2, <2>1
<1>18. ASSUME \/ UNCHANGED vars \/ (CheckAcsUrl /\ SavedUrl) \/ ChangeUrl \/ Reload
              \/ \E t \in Transfers : Launch(t)
              \/ RunScript \/ RemoveTransfer \/ AddTransferComplete \/ RemoveTransferComplete
              \/ \E timer \in {"inform", "retry"} : DoInform(timer)
              \/ Fail \/ SendInform \/ SendTransferComplete \/ SendGetRpcMethods
              \/ GetRpcMethodsAnswered \/ \E t \in Transfers : HandleTransfer(t)
              \/ HandleFactoryReset \/ \E s \in Schedules : HandleScheduleInform(s)
              \/ HandleSetParameter \/ EmptyMessage
       PROVE  EventInv'
  <2>1. Still /\ (pc' \in {"event", "method"} => methodId' # 0)  BY <1>0, <1>18, StillSteps
  <2> QED  BY <1>1, <2>1
<1> QED
  BY <1>7, <1>8, <1>9, <1>10, <1>11, <1>12, <1>13, <1>14, <1>15, <1>16, <1>17, <1>18
     DEF Next, Session, Running, Request, Stimulus, Timer

-----------------------------------------------------------------------------
(***************************************************************************)
(* Type correctness.                                                       *)
(***************************************************************************)
FlagTypes ==
  /\ pc \in Points /\ cur \in Keys /\ sched \subseteq Schedules /\ ackId \in Nat
  /\ timers \subseteq {"inform", "retry"} /\ retrying \in BOOLEAN
  /\ hold \in BOOLEAN /\ getRpc \in BOOLEAN /\ ok \in BOOLEAN
  /\ ends \subseteq {"factory", "reboot", "reload"}
  /\ url \in Nat /\ boot \in {"none", "owed", "told", "skipped"}
  /\ left \in [{"crash", "trouble"} -> Nat]

\* Where the saved URL is known.
UrlSaved == /\ tree.acs \in Nat \cup {None}
            /\ tree.acs = None => pc \in {"down", "config"}

AllInv == LedgerInv /\ FlagTypes /\ UrlSaved /\ EventInv

LEMMA SpendTypes ==
  ASSUME left \in [{"crash", "trouble"} -> Nat], NEW what \in {"crash", "trouble"}, Spend(what)
  PROVE  left' \in [{"crash", "trouble"} -> Nat]
<1>1. left[what] \in Nat /\ left[what] > 0 /\ left' = [left EXCEPT ![what] = left[what] - 1]
  BY DEF Spend
<1>2. left[what] - 1 \in Nat  BY <1>1
<1> QED  BY <1>1, <1>2

\* The types of what the end of the process resets.
LoopTypes ==
  /\ pc \in Points /\ cur \in Keys /\ sched \subseteq Schedules /\ ackId \in Nat
  /\ timers \subseteq {"inform", "retry"} /\ retrying \in BOOLEAN
  /\ hold \in BOOLEAN /\ getRpc \in BOOLEAN /\ ok \in BOOLEAN
  /\ ends \subseteq {"factory", "reboot", "reload"}

LEMMA ExitTypes == Exit => LoopTypes'
<1> SUFFICES ASSUME Exit PROVE LoopTypes'  OBVIOUS
<1>1. pc' \in Points /\ cur' \in Keys  BY DEF Exit, Points, Keys
<1>2. sched' \subseteq Schedules /\ ackId' \in Nat /\ timers' \subseteq {"inform", "retry"}
      /\ ends' \subseteq {"factory", "reboot", "reload"}
  BY DEF Exit
<1>3. retrying' \in BOOLEAN /\ hold' \in BOOLEAN /\ getRpc' \in BOOLEAN /\ ok' \in BOOLEAN
  BY DEF Exit
<1> QED  BY <1>1, <1>2, <1>3 DEF LoopTypes

LEMMA FlagStep ==
  ASSUME LedgerInv, FlagTypes, [Next]_vars
  PROVE  FlagTypes'
<1> USE DEF mem, loop, sess, ctl, hist
<1>0. LoopTypes /\ url \in Nat /\ boot \in {"none", "owed", "told", "skipped"}
      /\ left \in [{"crash", "trouble"} -> Nat]
  BY DEF FlagTypes, LoopTypes
<1>a. ASSUME LoopTypes', url' \in Nat, boot' \in {"none", "owed", "told", "skipped"},
             left' = left \/ Spend("crash") \/ Spend("trouble")
      PROVE  FlagTypes'
  <2>1. left' \in [{"crash", "trouble"} -> Nat]  BY <1>0, <1>a, SpendTypes
  <2> QED  BY <1>a, <2>1 DEF FlagTypes, LoopTypes
<1>b. ASSUME UNCHANGED <<url, boot>>, left' = left \/ Spend("trouble"), LoopTypes'
      PROVE  FlagTypes'
  BY <1>0, <1>a, <1>b
<1>1. CASE UNCHANGED vars
  BY <1>1 DEF vars, FlagTypes
<1>2. CASE Session
  <2>1. CASE SendInform  BY <2>1 DEF SendInform, FlagTypes, Points
  <2>2. CASE ClearInformed  BY <2>2 DEF ClearInformed, FlagTypes, Points
  <2>3. CASE SendTransferComplete
    <3>1. PICK r \in tree.tcs : cur' = r.key /\ ackId' = r.id
      BY <2>3 DEF SendTransferComplete
    <3>2. r.key \in Transfers /\ r.id \in Nat  BY DEF LedgerInv, LedgerTypes, Report
    <3>3. /\ UNCHANGED <<url, boot, left, sched, timers, retrying, getRpc, ok, ends>>
          /\ pc' = "answered" /\ hold' \in BOOLEAN
      BY <2>3 DEF SendTransferComplete
    <3>4. LoopTypes'  BY <1>0, <3>1, <3>2, <3>3 DEF LoopTypes, Points, Keys
    <3> QED  BY <1>b, <3>3, <3>4
  <2>10. CASE RemoveTransferComplete
    <3>1. /\ UNCHANGED <<url, boot, left, sched, timers, retrying, getRpc, sess>>
          /\ pc' = "cleartc" /\ cur' = None
      BY <2>10 DEF RemoveTransferComplete
    <3>2. LoopTypes'  BY <1>0, <3>1 DEF LoopTypes, Points, Keys
    <3> QED  BY <1>b, <3>1, <3>2
  <2>4. CASE ClearReported  BY <2>4 DEF ClearReported, FlagTypes, Points
  <2>5. CASE SendGetRpcMethods  BY <2>5 DEF SendGetRpcMethods, FlagTypes, Points
  <2>6. CASE GetRpcMethodsAnswered  BY <2>6 DEF GetRpcMethodsAnswered, FlagTypes, Points
  <2>7. CASE EmptyMessage  BY <2>7 DEF EmptyMessage, FlagTypes, Points
  <2>8. CASE HandleEndSession
    <3>1. url' = url /\ left' = left /\ (boot' = boot \/ boot' = "none")
      BY <2>8 DEF HandleEndSession
    <3>2. url' \in Nat /\ boot' \in {"none", "owed", "told", "skipped"}  BY <1>0, <3>1
    <3>3. CASE Exit  BY <1>a, <3>1, <3>2, <3>3, ExitTypes
    <3>4. CASE ~Exit
      <4>1. pc' \in {"config", "ended"} /\ UNCHANGED <<cur, mem, loop, hold, ok, ackId>>
            /\ ends' = {}
        BY <2>8, <3>4 DEF HandleEndSession
      <4>2. LoopTypes'  BY <1>0, <4>1 DEF LoopTypes, Points
      <4> QED  BY <1>a, <3>1, <3>2, <4>2
    <3> QED  BY <3>3, <3>4
  <2>9. CASE Ended  BY <2>9 DEF Ended, FlagTypes, Points
  <2> QED  BY <1>2, <2>1, <2>2, <2>3, <2>4, <2>5, <2>6, <2>7, <2>8, <2>9, <2>10 DEF Session
<1>3. CASE Running
  <2>1. CASE Start  BY <2>1 DEF Start, FlagTypes, Points
  <2>2. CASE CheckAcsUrl  BY <2>2 DEF CheckAcsUrl, FlagTypes, Points
  <2>3. CASE Bootstrap  BY <2>3 DEF Bootstrap, FlagTypes, Points
  <2>4. CASE CheckVersion
    <3>1. UNCHANGED <<url, boot>> /\ (left' = left \/ Spend("trouble"))
      BY <2>4 DEF CheckVersion
    <3>2. pc' \in Points  BY <2>4 DEF CheckVersion, LedgerInv, LedgerTypes, Points
    <3>3. UNCHANGED <<cur, sched, getRpc, retrying, sess>> /\ timers' = timers \cup {"inform"}
      BY <2>4 DEF CheckVersion
    <3>4. LoopTypes'  BY <1>0, <3>2, <3>3 DEF LoopTypes
    <3> QED  BY <1>b, <3>1, <3>4
  <2>5. CASE Started  BY <2>5 DEF Started, FlagTypes, Points
  <2>6. CASE ScheduledMethod  BY <2>6 DEF ScheduledMethod, Keys, FlagTypes, Points
  <2>7. CASE RemoveTransfer  BY <2>7 DEF RemoveTransfer, FlagTypes, Points
  <2>12. CASE RunScript  BY <2>12 DEF RunScript, FlagTypes, Points
  <2>8. CASE AddTransferComplete  BY <2>8 DEF AddTransferComplete, FlagTypes, Points
  <2>9. CASE AddTransferEvent  BY <2>9 DEF AddTransferEvent, FlagTypes, Points
  <2>10. CASE AddMethodEvent  BY <2>10 DEF AddMethodEvent, FlagTypes, Points
  <2>11. CASE Applied
    <3>1. UNCHANGED <<url, boot, left>>  BY <2>11 DEF Applied
    <3>2. CASE Exit  BY <1>b, <3>1, <3>2, ExitTypes
    <3>3. CASE ~Exit
      <4>1. pc' = "idle" /\ cur' = None /\ timers' = timers \cup {"inform"}
            /\ UNCHANGED <<mem, retrying, sess>>
        BY <2>11, <3>3 DEF Applied
      <4>2. LoopTypes'  BY <1>0, <4>1 DEF LoopTypes, Points, Keys
      <4> QED  BY <1>b, <3>1, <4>2
    <3> QED  BY <3>2, <3>3
  <2> QED  BY <1>3, <2>1, <2>2, <2>3, <2>4, <2>5, <2>6, <2>7, <2>8, <2>9, <2>10, <2>11, <2>12
              DEF Running
<1>4. CASE Request
  <2>1. UNCHANGED <<url, boot>> /\ (left' = left \/ Spend("trouble"))
    BY <1>4 DEF Request, HandleTransfer, HandleReboot, HandleFactoryReset, HandleSetParameter,
                HandleScheduleInform
  <2>2. /\ UNCHANGED <<pc, cur, loop, getRpc, hold, ok, ackId>>
        /\ \/ ends' = ends
           \/ \E x \in {"factory", "reboot", "reload"} : ends' = ends \cup {x}
        /\ \/ sched' = sched
           \/ \E s \in Schedules : sched' = sched \cup {s}
    BY <1>4 DEF Request, HandleTransfer, HandleReboot, HandleFactoryReset, HandleSetParameter,
                HandleScheduleInform
  <2>3. LoopTypes'  BY <1>0, <2>2 DEF LoopTypes
  <2> QED  BY <1>b, <2>1, <2>3
<1>5. CASE Stimulus
  <2>1. boot' = boot /\ (left' = left \/ Spend("trouble")) /\ (url' = url \/ url' = url + 1)
    BY <1>5 DEF Stimulus, AddUnsaved, PassiveNotification, PeriodicInform, Reload, ChangeUrl
  <2>2. /\ pc' \in {pc, "config"} /\ (timers' = timers \/ timers' = timers \cup {"inform"})
        /\ UNCHANGED <<cur, sched, getRpc, retrying, sess>>
    BY <1>5 DEF Stimulus, AddUnsaved, PassiveNotification, PeriodicInform, Reload, ChangeUrl
  <2>3. LoopTypes'  BY <1>0, <2>2 DEF LoopTypes, Points
  <2> QED  BY <1>0, <1>a, <2>1, <2>3
<1>6. CASE Timer
  <2>1. UNCHANGED <<url, boot>> /\ (left' = left \/ Spend("trouble"))
    BY <1>6 DEF Timer, DoInform, Launch, ScheduledInform
  <2>2. /\ pc' \in {pc, "inform", "launch", "schedule"} /\ cur' \in {cur} \cup Transfers \cup Schedules
        /\ timers' \subseteq timers /\ UNCHANGED <<sched, getRpc, retrying, sess>>
    BY <1>6 DEF Timer, DoInform, Launch, ScheduledInform
  <2>3. LoopTypes'  BY <1>0, <2>2 DEF LoopTypes, Points, Keys
  <2> QED  BY <1>b, <2>1, <2>3
<1>7. CASE Fail
  <2>1. UNCHANGED <<url, boot>> /\ (left' = left \/ Spend("trouble"))  BY <1>7 DEF Fail
  <2>2. pc' = "end" /\ ok' = FALSE /\ UNCHANGED <<cur, mem, loop, hold, ends, ackId>>
    BY <1>7 DEF Fail
  <2>3. LoopTypes'  BY <1>0, <2>2 DEF LoopTypes, Points
  <2> QED  BY <1>b, <2>1, <2>3
<1>8. CASE Crash \/ TornSave
  <2>1. Exit /\ url' = url /\ Spend("crash") /\ boot' \in {boot, "skipped", "none"}
    BY <1>8 DEF Crash, TornSave
  <2> QED  BY <1>0, <1>a, <2>1, ExitTypes
<1> QED  BY <1>1, <1>2, <1>3, <1>4, <1>5, <1>6, <1>7, <1>8 DEF Next

LEMMA UrlStep ==
  ASSUME AllInv, [Next]_vars
  PROVE  UrlSaved'
<1> USE DEF AllInv, LedgerInv
<1>0. LedgerTypes /\ cur \in Keys  BY DEF FlagTypes
<1>1. ASSUME tree'.acs = tree.acs, pc' \in {"down", "config"} \/ pc \notin {"down", "config"}
      PROVE  UrlSaved'
  BY <1>1 DEF UrlSaved
<1>2. ASSUME NEW policy, NEW n, RemoveEvent(policy, n) PROVE tree'.acs = tree.acs
  <2>1. tree' = tree \/ OnlyNodes  BY <1>0, <1>2, RemoveEventEffect
  <2> QED  BY <1>0, <2>1 DEF OnlyNodes, LedgerTypes
<1>3. ASSUME \/ Bootstrap \/ Started \/ PeriodicInform \/ ScheduledMethod
             \/ \E s \in Schedules : ScheduledInform(s)
             \/ AddTransferEvent \/ AddMethodEvent
      PROVE  UrlSaved'
  <2>1. PICK c, k, n : AddSaved(c, k, n)  BY <1>0, <1>3, SavingSteps
  <2>2. tree'.acs = tree.acs  BY <1>0, <2>1 DEF AddSaved, LedgerTypes
  <2>3. pc \notin {"down", "config"}
    BY <1>3 DEF Bootstrap, Started, PeriodicInform, ScheduledMethod, ScheduledInform,
                AddTransferEvent, AddMethodEvent
  <2> QED  BY <1>1, <2>2, <2>3
<1>4. CASE UNCHANGED vars  BY <1>4 DEF vars, ctl, UrlSaved
<1>5. CASE ClearInformed \/ ClearReported
  <2>1. pc \notin {"down", "config"}  BY <1>5 DEF ClearInformed, ClearReported
  <2>2. tree'.acs = tree.acs  BY <1>2, <1>5 DEF ClearInformed, ClearReported
  <2> QED  BY <1>1, <2>1, <2>2
<1>6. CASE CheckAcsUrl
  <2>1. None \notin Nat  BY CwmpAssumption
  <2> QED  BY <1>6, <2>1 DEF CheckAcsUrl, SavedUrl, EmptyTree, UrlSaved, FlagTypes, mem, hist
<1>7. CASE HandleEndSession \/ TornSave
  BY <1>7 DEF HandleEndSession, TornSave, Exit, EmptyTree, UrlSaved, hist
<1>8. CASE Start \/ Crash \/ Applied
  BY <1>8 DEF Start, Crash, Applied, Exit, UrlSaved
<1>9. CASE ChangeUrl  BY <1>9 DEF ChangeUrl, ctl, UrlSaved
<1>10. CASE RemoveTransferComplete
  <2>1. tree'.acs = tree.acs  BY <1>0, <1>10 DEF RemoveTransferComplete, LedgerTypes
  <2> QED  BY <1>1, <1>10, <2>1 DEF RemoveTransferComplete
<1>11. CASE \/ SendInform \/ SendGetRpcMethods \/ GetRpcMethodsAnswered \/ EmptyMessage \/ Ended
            \/ CheckVersion \/ (\E c \in Unsaved : AddUnsaved(c)) \/ PassiveNotification
            \/ Reload \/ Fail \/ HandleFactoryReset \/ HandleSetParameter
            \/ SendTransferComplete \/ RunScript
            \/ \E s \in Schedules : HandleScheduleInform(s)
            \/ \E timer \in {"inform", "retry"} : DoInform(timer)
            \/ \E t \in Transfers : Launch(t)
  <2>1. tree' = tree /\ pc \notin {"down", "config"}
    BY <1>11 DEF SendInform, SendGetRpcMethods, GetRpcMethodsAnswered, EmptyMessage, Ended,
                 CheckVersion, AddUnsaved, PassiveNotification, Reload, Fail,
                 HandleFactoryReset, HandleSetParameter, HandleScheduleInform, DoInform, Launch,
                 SendTransferComplete, RunScript
  <2> QED  BY <1>1, <2>1
<1>12. CASE RemoveTransfer \/ AddTransferComplete \/ HandleReboot
            \/ \E t \in Transfers : HandleTransfer(t)
  <2>1. tree'.acs = tree.acs /\ pc \notin {"down", "config"}
    BY <1>0, <1>12 DEF RemoveTransfer, AddTransferComplete, HandleReboot, HandleTransfer,
                       LedgerTypes
  <2> QED  BY <1>1, <2>1
<1> QED
  BY <1>3, <1>4, <1>5, <1>6, <1>7, <1>8, <1>9, <1>10, <1>11, <1>12
     DEF Next, Session, Running, Request, Stimulus, Timer

LEMMA AllInvariant == Spec => []AllInv
<1>1. Init => FlagTypes /\ UrlSaved /\ EventInv
  <2> SUFFICES ASSUME Init PROVE FlagTypes /\ UrlSaved /\ EventInv  OBVIOUS
  <2>1. FlagTypes
    <3>1. pc \in Points /\ cur \in Keys /\ sched \subseteq Schedules /\ ackId \in Nat
      BY DEF Init, Points, Keys
    <3>2. /\ timers \subseteq {"inform", "retry"} /\ ends \subseteq {"factory", "reboot", "reload"}
          /\ url \in Nat /\ boot \in {"none", "owed", "told", "skipped"}
      BY DEF Init
    <3>3. retrying \in BOOLEAN /\ hold \in BOOLEAN /\ getRpc \in BOOLEAN /\ ok \in BOOLEAN
      BY DEF Init
    <3>4. left \in [{"crash", "trouble"} -> Nat]  BY CwmpAssumption DEF Init
    <3> QED  BY <3>1, <3>2, <3>3, <3>4 DEF FlagTypes
  <2>2. UrlSaved  BY DEF Init, UrlSaved, EmptyTree
  <2>3. EventInv
    <3>1. events = <<>> /\ tree.events = <<>> /\ pc = "down"  BY DEF Init, EmptyTree
    <3>2. <<>> \in Seq(GoodEvent) /\ <<>> \in Seq(GoodNode) /\ DOMAIN <<>> = 1..0
      BY EmptySeq, LenProperties
    <3> QED  BY <3>1, <3>2 DEF EventInv, SinglesOnce
  <2> QED  BY <2>1, <2>2, <2>3
<1>2. LedgerInv /\ LedgerInv' /\ FlagTypes /\ UrlSaved /\ EventInv /\ [Next]_vars
        => FlagTypes' /\ UrlSaved' /\ EventInv'
  <2>1. FlagTypes => cur \in Keys  BY DEF FlagTypes
  <2> QED  BY <2>1, FlagStep, UrlStep, EventStep DEF AllInv
<1> QED  BY <1>1, <1>2, LedgerInvariant, PTL DEF Spec, AllInv

\* A single event is never twice in the list, every node of the file is one the
\* next start can read, and the daemon never works without a saved ACS URL
\* (cwmp.c 613-658, backup.c 120-143 and 629-715).
THEOREM TypeCorrect == Spec => []TypeOK
<1>1. AllInv => TypeOK
  <2> SUFFICES ASSUME AllInv PROVE TypeOK  OBVIOUS
  <2> USE DEF AllInv
  <2>1. events \in Seq(Event) /\ tree.events \in Seq(Node)
    BY SeqMonotonic DEF EventInv, GoodEvent, GoodNode
  <2>2. tree \in Tree
    BY <2>1 DEF LedgerInv, LedgerTypes, UrlSaved, Tree
  <2>3. armed \subseteq Transfers  BY DEF LedgerInv, LedgerTypes, TimersOnFile
  <2> QED
    BY <2>1, <2>2, <2>3
       DEF TypeOK, FlagTypes, UrlSaved, EventInv, SinglesOnce, LedgerInv, LedgerTypes, TimersOnFile
<1> QED  BY <1>1, AllInvariant, PTL

-----------------------------------------------------------------------------
(***************************************************************************)
(* The BOOTSTRAP event.  Until the ACS has been told, it is in the file,   *)
(* from where a restart takes it back into the list; an Inform that is     *)
(* answered tells the ACS before the event is removed.                     *)
(***************************************************************************)
AfterAnswer == {"clear", "tc", "answered", "cleartc", "methods", "msgs"}

BootInv ==
  /\ pc = "bootstrap" => events = <<>>
  /\ (boot = "owed" /\ pc # "bootstrap") => Has(tree.events, "BOOTSTRAP")
  /\ (boot = "owed" /\ pc \notin {"down", "bootstrap"}) => Has(events, "BOOTSTRAP")
  /\ pc \in AfterAnswer => boot # "owed"

LEMMA AppendHas ==
  ASSUME NEW S, NEW seq \in Seq(S), NEW e \in S, NEW c
  PROVE  /\ Has(seq, c) => Has(Append(seq, e), c)
         /\ Has(Append(seq, e), e.code)
<1>1. /\ Len(seq) \in Nat /\ DOMAIN seq = 1..Len(seq)
      /\ DOMAIN Append(seq, e) = 1..(Len(seq) + 1)
      /\ \A i \in 1..Len(seq) : Append(seq, e)[i] = seq[i]
      /\ Append(seq, e)[Len(seq) + 1] = e
  BY AppendElems
<1> QED  BY <1>1 DEF Has

LEMMA BootStep ==
  ASSUME AllInv, BootInv, [Next]_vars
  PROVE  BootInv'
<1>0. LedgerInv /\ LedgerTypes /\ EventInv /\ cur \in Keys
      /\ events \in Seq(GoodEvent) /\ tree.events \in Seq(GoodNode)
      /\ (pc \in {"event", "method"} => methodId # 0)
  BY DEF AllInv, LedgerInv, FlagTypes, EventInv
<1>1. ASSUME boot' = boot, pc \notin {"down", "bootstrap"}, pc' # "bootstrap",
             pc' \in AfterAnswer => pc \in AfterAnswer,
             Has(events, "BOOTSTRAP") => Has(events', "BOOTSTRAP"),
             Has(tree.events, "BOOTSTRAP") => Has(tree'.events, "BOOTSTRAP")
      PROVE  BootInv'
  BY <1>1 DEF BootInv
<1>2. ASSUME pc' \in AfterAnswer, boot' # "owed"
      PROVE  BootInv'
  BY <1>2 DEF BootInv, AfterAnswer
<1>3. CASE UNCHANGED vars \/ ChangeUrl
  BY <1>3 DEF vars, ChangeUrl, ctl, mem, hist, BootInv, Has
<1>4. CASE Start
  <2>1. events' = LoadEvents(tree.events) /\ tree' = tree /\ boot' = boot /\ pc' = "config" /\ pc = "down"
    BY <1>4 DEF Start, hist
  <2>2. ASSUME boot = "owed" PROVE Has(events', "BOOTSTRAP")
    <3>1. PICK i \in DOMAIN tree.events : tree.events[i].code = "BOOTSTRAP"
      BY <2>1, <2>2 DEF BootInv, Has
    <3>2. PICK j \in Kept(tree.events) : tree.events[j].code = "BOOTSTRAP"
      BY <1>0, <3>1, LoadFacts
    <3>3. Loaded(tree.events, j) \in Elems(events')  BY <1>0, <2>1, LoadFacts
    <3>4. Loaded(tree.events, j).code = "BOOTSTRAP"  BY <3>2 DEF Loaded
    <3> QED  BY <3>3, <3>4 DEF Elems, Has
  <2> QED  BY <2>1, <2>2 DEF BootInv, AfterAnswer, Has
<1>5. CASE CheckAcsUrl /\ ~SavedUrl
  BY <1>5 DEF CheckAcsUrl, BootInv, AfterAnswer
<1>6. CASE Bootstrap
  <2>1. /\ AddSaved("BOOTSTRAP", None, 0) /\ boot' = boot /\ pc' = "version" /\ pc = "bootstrap"
        /\ "BOOTSTRAP" \in Codes \ NoRetry /\ None \in Keys
    BY <1>6 DEF Bootstrap, hist, Codes, AfterInform, NoRetry, Keys
  <2>2. events = <<>> /\ DOMAIN <<>> = {}  BY <2>1, EmptySeq, LenProperties DEF BootInv
  <2>3. /\ Has(events', "BOOTSTRAP")
        /\ \/ Has(events, "BOOTSTRAP")
           \/ tree'.events = Append(tree.events, [code |-> "BOOTSTRAP", key |-> None, id |-> 0])
    BY <1>0, <2>1, AddSavedEffect DEF Methods
  <2>4. Has(tree'.events, "BOOTSTRAP")
    <3> DEFINE x == [code |-> "BOOTSTRAP", key |-> None, id |-> 0]
    <3>1. tree'.events = Append(tree.events, x)  BY <2>2, <2>3 DEF Has
    <3>2. x.code = "BOOTSTRAP" /\ x \in GoodNode  BY <2>1 DEF GoodNode, Node, Methods
    <3> HIDE DEF x
    <3> QED  BY <1>0, <3>1, <3>2, AppendHas
  <2> QED  BY <2>1, <2>3, <2>4 DEF BootInv, AfterAnswer
<1>7. CASE \/ Started \/ PeriodicInform \/ ScheduledMethod
           \/ \E s \in Schedules : ScheduledInform(s)
           \/ AddTransferEvent \/ AddMethodEvent
  <2>1. PICK c \in Codes \ NoRetry, k \in Keys, n \in Nat :
          AddSaved(c, k, n) /\ (c \in Methods => n # 0)
    BY <1>0, <1>7, SavingSteps
  <2>2. boot' = boot /\ pc \notin {"down", "bootstrap"} /\ pc' # "bootstrap" /\ pc' \notin AfterAnswer
    BY <1>7 DEF Started, PeriodicInform, ScheduledMethod, ScheduledInform, AddTransferEvent,
                AddMethodEvent, hist, ctl, AfterAnswer
  <2>3. /\ Elems(events) \subseteq Elems(events')
        /\ \/ tree' = tree
           \/ tree'.events = Append(tree.events, [code |-> c, key |-> k, id |-> n])
    BY <1>0, <2>1, AddSavedEffect
  <2>4. Has(events, "BOOTSTRAP") => Has(events', "BOOTSTRAP")  BY <2>3 DEF Has, Elems
  <2>5. Has(tree.events, "BOOTSTRAP") => Has(tree'.events, "BOOTSTRAP")
    <3> DEFINE x == [code |-> c, key |-> k, id |-> n]
    <3>1. tree' = tree \/ tree'.events = Append(tree.events, x)  BY <2>3
    <3>2. x \in GoodNode  BY <2>1 DEF GoodNode, Node
    <3> HIDE DEF x
    <3> QED  BY <1>0, <3>1, <3>2, AppendHas
  <2> QED  BY <1>1, <2>2, <2>4, <2>5
<1>8. CASE (\E c \in Unsaved : AddUnsaved(c)) \/ PassiveNotification
           \/ (CheckVersion /\ events' # events)
  <2>1. PICK c \in Unsaved : events' = AddEvent(events, c, None, 0, FALSE) /\ tree' = tree
    BY <1>0, <1>8, UnsavedSteps
  <2>2. /\ c \in Codes /\ None \in Keys /\ 0 \in Nat /\ FALSE \in BOOLEAN
        /\ [code |-> c, key |-> None, id |-> 0, saved |-> FALSE] \in GoodEvent
    BY DEF Unsaved, Codes, AfterInform, GoodEvent, Event, Keys, Methods
  <2>3. Elems(events) \subseteq Elems(events')  BY <1>0, <2>1, <2>2, AddEventEffect
  <2>4. boot' = boot /\ pc \notin {"down", "bootstrap"} /\ pc' # "bootstrap" /\ pc' \notin AfterAnswer
    BY <1>0, <1>8 DEF AddUnsaved, PassiveNotification, CheckVersion, hist, ctl, AfterAnswer, LedgerTypes
  <2>5. Has(events, "BOOTSTRAP") => Has(events', "BOOTSTRAP")  BY <2>3 DEF Has, Elems
  <2> QED  BY <1>1, <2>1, <2>4, <2>5
<1>9. CASE CheckVersion /\ events' = events
  <2>1. boot' = boot /\ tree' = tree /\ pc = "version" /\ pc' \in {"started", "idle", "ended"}
    BY <1>0, <1>9 DEF CheckVersion, hist, LedgerTypes
  <2> QED  BY <1>1, <1>9, <2>1 DEF AfterAnswer
<1>10. CASE ClearInformed \/ ClearReported
  <2>1. boot' = boot /\ pc \in AfterAnswer /\ pc' \in AfterAnswer
    BY <1>10 DEF ClearInformed, ClearReported, hist, AfterAnswer
  <2> QED  BY <1>2, <2>1 DEF BootInv
<1>11. CASE SendInform
  <2>1. pc = "inform" /\ pc' = "clear" /\ boot' = IF Has(events, "BOOTSTRAP") THEN "told" ELSE boot
    BY <1>11 DEF SendInform
  <2>2. boot' # "owed"  BY <2>1 DEF BootInv
  <2> QED  BY <1>2, <2>1, <2>2 DEF AfterAnswer
<1>12. CASE Ended
  <2>1. boot' = boot /\ tree' = tree /\ pc = "ended" /\ pc' = "idle"  BY <1>12 DEF Ended, hist
  <2>2. Has(events, "BOOTSTRAP") => Has(events', "BOOTSTRAP")
    <3>1. CASE events' = events  BY <3>1
    <3>2. CASE FirstOf(NoRetry, 0) # 0 /\ events' = RemoveAt(events, FirstOf(NoRetry, 0))
      <4>1. FirstOf(NoRetry, 0) \in DOMAIN events /\ events[FirstOf(NoRetry, 0)].code \in NoRetry
        BY <1>0, <3>2, FirstOfFacts
      <4>2. \A i \in DOMAIN events : i # FirstOf(NoRetry, 0) => events[i] \in Elems(events')
        BY <1>0, <3>2, <4>1, RemoveElems
      <4>3. "BOOTSTRAP" \notin NoRetry  BY DEF NoRetry
      <4> QED  BY <4>1, <4>2, <4>3 DEF Has, Elems
    <3> QED  BY <1>12, <3>1, <3>2 DEF Ended
  <2> QED  BY <1>1, <2>1, <2>2 DEF AfterAnswer
<1>13. CASE HandleReboot
  <2>1. pc = "msgs" /\ pc' = "msgs" /\ boot' = boot  BY <1>13 DEF HandleReboot, hist, ctl
  <2> QED  BY <1>2, <2>1 DEF BootInv, AfterAnswer
<1>14. CASE Crash \/ TornSave
  <2>1. /\ pc' = "down" /\ events' = <<>>
        /\ \/ boot' # "owed"
           \/ pc \notin {"down", "bootstrap"} /\ boot' = boot /\ tree' = tree
    BY <1>14 DEF Crash, TornSave, Exit
  <2> QED  BY <2>1 DEF BootInv, AfterAnswer
<1>15. CASE Applied \/ HandleEndSession
  <2>1. /\ pc \in {"apply", "end"}
        /\ \/ pc' = "down" /\ (boot' = "none" \/ (boot' = boot /\ tree' = tree))
           \/ /\ pc' \in {"idle", "config", "ended"} /\ boot' = boot /\ tree' = tree /\ events' = events
    BY <1>15 DEF Applied, HandleEndSession, Exit, hist, mem
  <2> QED  BY <2>1 DEF BootInv, AfterAnswer
<1>16. CASE \/ (CheckAcsUrl /\ SavedUrl) \/ Reload
            \/ \E t \in Transfers : Launch(t)
            \/ RunScript \/ RemoveTransfer \/ AddTransferComplete \/ RemoveTransferComplete
            \/ \E timer \in {"inform", "retry"} : DoInform(timer)
            \/ Fail \/ SendTransferComplete \/ SendGetRpcMethods
            \/ GetRpcMethodsAnswered \/ \E t \in Transfers : HandleTransfer(t)
            \/ HandleFactoryReset \/ \E s \in Schedules : HandleScheduleInform(s)
            \/ HandleSetParameter \/ EmptyMessage
  <2>1. Still  BY <1>0, <1>16, StillSteps
  <2>2. boot' = boot /\ pc \notin {"down", "bootstrap"} /\ pc' # "bootstrap"
        /\ (pc' \in AfterAnswer => pc \in AfterAnswer)
    BY <1>16 DEF CheckAcsUrl, Reload, Launch, RemoveTransfer, AddTransferComplete, DoInform, Fail,
                 SendTransferComplete, SendGetRpcMethods, GetRpcMethodsAnswered, HandleTransfer,
                 HandleFactoryReset, HandleScheduleInform, HandleSetParameter, EmptyMessage,
                 RunScript, RemoveTransferComplete, AfterAnswer, hist, ctl
  <2> QED  BY <1>1, <2>1, <2>2 DEF Still
<1> QED
  BY <1>3, <1>4, <1>5, <1>6, <1>7, <1>8, <1>9, <1>10, <1>11, <1>12, <1>13, <1>14, <1>15, <1>16
     DEF Next, Session, Running, Request, Stimulus, Timer

\* A new ACS that has not been told of the device finds a BOOTSTRAP in the list,
\* whatever crashes, restarts and failed sessions came in between
\* (backup_add_acsurl, backup.c 120-143; cwmp_inform).
THEOREM BootstrapKept == Spec => []BootstrapOwed
<1>1. Init => BootInv  BY DEF Init, BootInv, AfterAnswer
<1>2. AllInv /\ BootInv /\ [Next]_vars => BootInv'  BY BootStep
<1>3. BootInv => BootstrapOwed  BY DEF BootInv, BootstrapOwed
<1> QED  BY <1>1, <1>2, <1>3, AllInvariant, PTL DEF Spec

-----------------------------------------------------------------------------
(***************************************************************************)
(* The timers.  While there is a report to send, either a retry is under   *)
(* way or the list has an event that is worth one: so a session that fails *)
(* arms the retry timer.  A session that goes well has sent every report   *)
(* and cleared every event an Inform clears.                               *)
(***************************************************************************)
\* The points of config_load, and those where the daemon waits for a session.
Loading == {"config", "bootstrap", "version"}
Quietly == {"idle", "inform", "schedule", "launch", "ran", "report", "method", "apply"}
Answered == {"tc", "answered", "cleartc", "methods", "msgs"}

Before  == pc \in Quietly \/ (pc \in Loading /\ ret = "reload")
Closing == pc \in {"end", "ended"} \/ (pc \in Loading /\ ret = "session")

\* An event an Inform would clear; an event worth a retry.
Owing(evs)  == \E e \in Elems(evs) : e.saved /\ e.id = 0 /\ e.code \in AfterInform
Worthy(evs) == \E e \in Elems(evs) : e.code \notin NoRetry

Due == pc = "idle" => ((tree.tcs # {} \/ Owing(events)) => timers # {})
WorthRetry == Before => (tree.tcs = {} \/ retrying \/ Worthy(events))
WentWell == (Closing /\ ok) => (tree.tcs = {} /\ (Owing(events) => timers # {}))
WentWrong == (Closing /\ ~ok) => (tree.tcs = {} \/ retrying \/ events = <<>> \/ Worthy(events))
Informed == pc \in Answered => \A e \in Elems(events) : ~(e.code \in AfterInform /\ e.id = 0)

TimerInv == Due /\ WorthRetry /\ WentWell /\ WentWrong /\ Informed

LEMMA DueIsScheduled == Due <=> Scheduled
BY DEF Due, Scheduled, Owing, Elems

LEMMA OnlyNoRetryFact == OnlyNoRetry <=> (events # <<>> /\ ~Worthy(events))
BY DEF OnlyNoRetry, Worthy, Elems

\* Without events there is nothing to clear and nothing worth a retry.
LEMMA NoElems == Elems(<<>>) = {}
<1>1. DOMAIN <<>> = {}  BY EmptySeq, LenProperties
<1> QED  BY <1>1 DEF Elems

LEMMA TimerStep ==
  ASSUME AllInv, TimerInv, [Next]_vars
  PROVE  TimerInv'
<1>0. LedgerInv /\ LedgerTypes /\ EventInv /\ cur \in Keys
      /\ events \in Seq(GoodEvent) /\ tree.events \in Seq(GoodNode)
      /\ (pc \in {"event", "method"} => methodId # 0) /\ ok \in BOOLEAN
  BY DEF AllInv, LedgerInv, FlagTypes, EventInv
<1> USE DEF Before, Closing, Quietly, Loading, Answered
\* A step that leaves list, reports and timers alone, and stays in its group.
<1>1. ASSUME events' = events, tree'.tcs = tree.tcs, timers' = timers, retrying' = retrying,
             ok' = ok, pc' = "idle" => pc = "idle", Before' => Before, Closing' => Closing,
             pc' \in Answered => pc \in Answered
      PROVE  TimerInv'
  BY <1>1 DEF TimerInv, Due, WorthRetry, WentWell, WentWrong, Informed, Owing, Worthy
\* A step that sets the inform timer, and may add an event.
<1>2. ASSUME tree'.tcs = tree.tcs, "inform" \in timers', retrying' = retrying, ok' = ok,
             Worthy(events) => Worthy(events'), pc' \notin Answered,
             Before' => (Before \/ Worthy(events')),
             Closing' => (Closing /\ (Worthy(events') \/ events' = events))
      PROVE  TimerInv'
  <2>1. timers' # {}  BY <1>2
  <2>2. Due' /\ Informed'  BY <1>2, <2>1 DEF Due, Informed
  <2>3. WorthRetry'  BY <1>2 DEF WorthRetry, TimerInv, Worthy
  <2>4. WentWell' /\ WentWrong'  BY <1>2, <2>1 DEF WentWell, WentWrong, TimerInv, Worthy
  <2> QED  BY <2>2, <2>3, <2>4 DEF TimerInv
<1>3. ASSUME pc' \in {"down", "started", "event", "clear"} \/ (pc' \in Loading /\ ret' = "start")
      PROVE  TimerInv'
  BY <1>3 DEF TimerInv, Due, WorthRetry, WentWell, WentWrong, Informed
<1>4. CASE UNCHANGED vars \/ ChangeUrl \/ Reload \/ RunScript \/ RemoveTransfer
  <2>1. events' = events /\ timers' = timers /\ retrying' = retrying /\ ok' = ok
        /\ tree'.tcs = tree.tcs
    BY <1>0, <1>4 DEF vars, ChangeUrl, Reload, RunScript, RemoveTransfer, ctl, mem, loop, sess,
                     LedgerTypes
  <2>2. (pc' = "idle" => pc = "idle") /\ (Before' => Before) /\ (Closing' => Closing)
        /\ (pc' \in Answered => pc \in Answered)
    BY <1>4 DEF vars, ChangeUrl, Reload, RunScript, RemoveTransfer, ctl
  <2> QED  BY <1>1, <2>1, <2>2
<1>5. CASE Start \/ Crash \/ TornSave \/ AddTransferComplete \/ SendInform
  BY <1>3, <1>5 DEF Start, Crash, TornSave, Exit, AddTransferComplete, SendInform
\* A step of a callback or at the start of a session.
<1>6. ASSUME pc' \in Quietly \ {"idle"}, tree'.tcs = tree.tcs, retrying' = retrying,
             Worthy(events') \/ (Before /\ events' = events)
      PROVE  TimerInv'
  BY <1>6 DEF TimerInv, Due, WorthRetry, WentWell, WentWrong, Informed, Worthy
\* A step of a session whose Inform has been answered.
<1>7. ASSUME pc \in Answered, pc' \in Answered, Elems(events') \subseteq Elems(events)
      PROVE  TimerInv'
  BY <1>7 DEF TimerInv, Due, WorthRetry, WentWell, WentWrong, Informed
\* What cwmp_add_event does to the list.
<1>8. ASSUME NEW c \in Codes \ NoRetry, NEW k \in Keys, NEW n \in Nat, c \in Methods => n # 0,
             AddSaved(c, k, n)
      PROVE  Worthy(events') /\ tree'.tcs = tree.tcs
  <2>1. Has(events', c) /\ OnlyNodes  BY <1>0, <1>8, AddSavedEffect
  <2> QED  BY <1>0, <2>1 DEF Has, Worthy, Elems, OnlyNodes, LedgerTypes
<1>9. ASSUME NEW c \in Unsaved, events' = AddEvent(events, c, None, 0, FALSE)
      PROVE  /\ Worthy(events) => Worthy(events')
             /\ c \notin NoRetry => Worthy(events')
             /\ Owing(events') => Owing(events)
  <2> DEFINE e == [code |-> c, key |-> None, id |-> 0, saved |-> FALSE]
  <2>1. /\ c \in Codes /\ None \in Keys /\ 0 \in Nat /\ FALSE \in BOOLEAN /\ e \in GoodEvent
        /\ e.saved = FALSE
    BY DEF Unsaved, Codes, AfterInform, GoodEvent, Event, Keys, Methods
  <2>2. Has(events', c) /\ Elems(events) \subseteq Elems(events')
        /\ Elems(events') \subseteq Elems(events) \cup {e}
    BY <1>0, <1>9, <2>1, AddEventEffect
  <2> HIDE DEF e
  <2>3. c \notin NoRetry => Worthy(events')  BY <2>2 DEF Has, Worthy, Elems
  <2>4. Worthy(events) => Worthy(events')  BY <2>2 DEF Worthy
  <2>5. Owing(events') => Owing(events)  BY <2>1, <2>2 DEF Owing
  <2> QED  BY <2>3, <2>4, <2>5
<1>10. CASE CheckAcsUrl
  <2>1. CASE SavedUrl
    BY <1>1, <1>10, <2>1 DEF CheckAcsUrl, mem
  <2>2. CASE ~SavedUrl
    <3>1. pc' = "bootstrap" /\ events' = <<>> /\ tree'.tcs = {} /\ Elems(events') = {}
      BY <1>10, <2>2, NoElems DEF CheckAcsUrl, EmptyTree
    <3> QED  BY <3>1 DEF TimerInv, Due, WorthRetry, WentWell, WentWrong, Informed, Owing
  <2> QED  BY <2>1, <2>2
<1>11. CASE Bootstrap \/ Started \/ PeriodicInform \/ ScheduledMethod
  <2>1. PICK c \in Codes \ NoRetry, k \in Keys, n \in Nat :
          AddSaved(c, k, n) /\ (c \in Methods => n # 0)
    BY <1>0, <1>11, SavingSteps
  <2>2. Worthy(events') /\ tree'.tcs = tree.tcs  BY <1>8, <2>1
  <2>3. "inform" \in timers' /\ retrying' = retrying /\ ok' = ok /\ pc' \notin Answered
        /\ (Closing' => Closing)
    BY <1>11 DEF Bootstrap, Started, PeriodicInform, ScheduledMethod, sess, ctl
  <2> QED  BY <1>2, <2>2, <2>3
<1>12. CASE (\E s \in Schedules : ScheduledInform(s)) \/ AddTransferEvent \/ AddMethodEvent
  <2>1. PICK c \in Codes \ NoRetry, k \in Keys, n \in Nat :
          AddSaved(c, k, n) /\ (c \in Methods => n # 0)
    BY <1>0, <1>12, SavingSteps
  <2>2. Worthy(events') /\ tree'.tcs = tree.tcs  BY <1>8, <2>1
  <2>3. retrying' = retrying /\ pc' \in Quietly \ {"idle"}
    BY <1>12 DEF ScheduledInform, AddTransferEvent, AddMethodEvent, loop
  <2> QED  BY <1>6, <2>2, <2>3
<1>13. CASE CheckVersion
  <2>1. /\ tree' = tree /\ "inform" \in timers' /\ retrying' = retrying /\ ok' = ok /\ ret' = ret
        /\ pc = "version" /\ pc' = CASE ret = "start" -> "started"
                                     [] ret = "reload" -> "idle"
                                     [] ret = "session" -> "ended"
        /\ \/ events' = events
           \/ events' = AddEvent(events, "VALUE_CHANGE", None, 0, FALSE)
    BY <1>13 DEF CheckVersion, sess
  <2>2. "VALUE_CHANGE" \in Unsaved /\ "VALUE_CHANGE" \notin NoRetry  BY DEF Unsaved, NoRetry
  <2>3. (Worthy(events) => Worthy(events')) /\ (Worthy(events') \/ events' = events)
    BY <1>9, <2>1, <2>2
  <2>4. pc' \notin Answered /\ (Before' => Before) /\ (Closing' => Closing)
    BY <1>0, <2>1 DEF LedgerTypes
  <2> QED  BY <1>2, <2>1, <2>3, <2>4
<1>14. CASE \E c \in Unsaved : AddUnsaved(c)
  <2>1. PICK c \in Unsaved : AddUnsaved(c)  BY <1>14
  <2>2. /\ events' = AddEvent(events, c, None, 0, FALSE) /\ "inform" \in timers'
        /\ retrying' = retrying /\ ok' = ok /\ tree' = tree /\ pc = "idle" /\ pc' = "idle"
    BY <2>1 DEF AddUnsaved, sess, ctl
  <2>3. Worthy(events) => Worthy(events')  BY <1>9, <2>2
  <2> QED  BY <1>2, <2>2, <2>3
<1>15. CASE PassiveNotification
  <2>1. /\ events' = AddEvent(events, "VALUE_CHANGE", None, 0, FALSE) /\ timers' = timers
        /\ retrying' = retrying /\ tree' = tree /\ pc = "idle" /\ pc' = "idle"
    BY <1>15 DEF PassiveNotification, sess, ctl, loop
  <2>2. (Worthy(events) => Worthy(events')) /\ (Owing(events') => Owing(events))
    BY <1>9, <2>1 DEF Unsaved
  <2> QED  BY <2>1, <2>2 DEF TimerInv, Due, WorthRetry, WentWell, WentWrong, Informed, Worthy, Owing
<1>16. CASE Applied
  <2>1. CASE Exit  BY <1>3, <2>1 DEF Exit
  <2>2. CASE ~Exit
    <3>1. /\ pc = "apply" /\ pc' = "idle" /\ "inform" \in timers' /\ events' = events /\ tree' = tree
          /\ retrying' = retrying /\ ok' = ok
      BY <1>16, <2>2 DEF Applied, mem, sess
    <3> QED  BY <1>2, <3>1
  <2> QED  BY <2>1, <2>2
<1>17. CASE \E timer \in {"inform", "retry"} : DoInform(timer)
  <2>1. events' = events /\ tree' = tree /\ retrying' = retrying /\ pc = "idle" /\ pc' = "inform"
    BY <1>17 DEF DoInform, mem
  <2> QED  BY <1>6, <2>1
<1>18. CASE \E t \in Transfers : Launch(t)
  <2>1. /\ events' = events /\ tree' = tree /\ timers' = timers /\ retrying' = retrying /\ ok' = ok
        /\ pc = "idle" /\ pc' \in {"idle", "launch"}
    BY <1>18 DEF Launch, loop, sess
  <2> QED  BY <1>1, <2>1
<1>19. CASE Fail
  <2>1. /\ events' = events /\ tree' = tree /\ retrying' = retrying /\ ok' = FALSE /\ pc' = "end"
        /\ pc = "inform" \/ pc \in Answered
    BY <1>19 DEF Fail, mem, loop
  <2>2. tree.tcs = {} \/ retrying \/ events = <<>> \/ Worthy(events)
    <3>1. CASE pc = "inform"  BY <3>1 DEF TimerInv, WorthRetry
    <3>2. CASE pc \in Answered /\ events # <<>> /\ ~Worthy(events)
      <4>1. Len(events) \in Nat /\ Len(events) # 0 /\ DOMAIN events = 1..Len(events)
        BY <1>0, <3>2, EmptySeq, LenProperties
      <4>2. 1 \in DOMAIN events /\ events[1] \in GoodEvent  BY <1>0, <4>1
      <4>3. events[1] \in Elems(events)  BY <4>2 DEF Elems
      <4>4. events[1].code \in NoRetry  BY <3>2, <4>3 DEF Worthy
      <4>5. events[1].id = 0 /\ events[1].code \in AfterInform
        BY <4>2, <4>4 DEF GoodEvent, NoRetry, AfterInform
      <4> QED  BY <3>2, <4>3, <4>5 DEF TimerInv, Informed
    <3> QED  BY <2>1, <3>1, <3>2
  <2> QED  BY <2>1, <2>2 DEF TimerInv, Due, WorthRetry, WentWell, WentWrong, Informed, Worthy
<1>20. CASE ClearInformed
  <2>1. CASE pc' = "clear"  BY <1>3, <2>1
  <2>2. CASE pc' # "clear"
    <3>1. FirstOf(AfterInform, 0) = 0 /\ events' = events /\ pc' = "tc"
      BY <1>20, <2>2 DEF ClearInformed
    <3>2. \A e \in Elems(events) : ~(e.code \in AfterInform /\ e.id = 0)
      BY <1>0, <3>1, FirstOfFacts
    <3> QED  BY <3>1, <3>2 DEF TimerInv, Due, WorthRetry, WentWell, WentWrong, Informed
  <2> QED  BY <2>1, <2>2
<1>21. CASE ClearReported
  <2>1. pc = "cleartc" /\ pc' \in {"cleartc", "tc"}  BY <1>21 DEF ClearReported
  <2>2. Elems(events') \subseteq Elems(events)
    <3>1. CASE events' = events  BY <3>1
    <3>2. CASE RemoveEvent(AfterTransferComplete, ackId)
      BY <1>0, <3>2, RemoveEventEffect, RemoveElems
    <3> QED  BY <1>21, <3>1, <3>2 DEF ClearReported
  <2> QED  BY <1>7, <2>1, <2>2
<1>22. CASE \/ SendTransferComplete \/ RemoveTransferComplete \/ SendGetRpcMethods
            \/ GetRpcMethodsAnswered \/ Request \/ (EmptyMessage /\ pc' = "tc")
  <2>1. pc \in Answered /\ pc' \in Answered /\ events' = events
    BY <1>22 DEF SendTransferComplete, RemoveTransferComplete, SendGetRpcMethods,
                 GetRpcMethodsAnswered, Request, HandleTransfer, HandleReboot, HandleFactoryReset, HandleSetParameter,
                 HandleScheduleInform, EmptyMessage, mem, ctl
  <2> QED  BY <1>7, <2>1
<1>23. CASE EmptyMessage /\ pc' # "tc"
  <2>1. pc = "msgs" /\ pc' = "end" /\ tree' = tree /\ tree.tcs = {} /\ events' = events /\ ok' = TRUE
    BY <1>23 DEF EmptyMessage, mem
  <2>2. ~Owing(events)  BY <2>1 DEF TimerInv, Informed, Owing
  <2> QED  BY <2>1, <2>2 DEF TimerInv, Due, WorthRetry, WentWell, WentWrong, Informed, Owing
<1>24. CASE HandleEndSession
  <2>1. CASE Exit  BY <1>3, <2>1 DEF Exit
  <2>2. CASE ~Exit
    <3>1. /\ pc = "end" /\ (pc' = "ended" \/ (pc' = "config" /\ ret' = "session"))
          /\ events' = events /\ tree' = tree /\ timers' = timers /\ retrying' = retrying /\ ok' = ok
      BY <1>24, <2>2 DEF HandleEndSession, mem, loop, sess
    <3> QED  BY <1>1, <3>1
  <2> QED  BY <2>1, <2>2
<1>25. CASE Ended
  <2>1. pc = "ended" /\ pc' = "idle" /\ tree' = tree  BY <1>25 DEF Ended
  <2>2. CASE ok
    <3>1. events' = events /\ timers' = timers  BY <1>25, <2>2 DEF Ended
    <3>2. tree.tcs = {} /\ (Owing(events) => timers # {})  BY <2>1, <2>2 DEF TimerInv, WentWell
    <3> QED
      BY <2>1, <3>1, <3>2 DEF TimerInv, Due, WorthRetry, WentWell, WentWrong, Informed, Owing
  <2>3. CASE ~ok /\ (~OnlyNoRetry \/ retrying) /\ retrying' = TRUE /\ timers' = timers \cup {"retry"}
    <3>1. timers' # {}  BY <2>3
    <3> QED
      BY <2>1, <2>3, <3>1 DEF TimerInv, Due, WorthRetry, WentWell, WentWrong, Informed
  <2>4. CASE ~ok /\ OnlyNoRetry /\ ~retrying
    <3>1. ~Worthy(events) /\ events # <<>>  BY <2>4, OnlyNoRetryFact
    <3>2. tree.tcs = {}  BY <2>1, <2>4, <3>1 DEF TimerInv, WentWrong
    <3>3. Elems(events') \subseteq Elems(events)
      <4>1. CASE events' = events  BY <4>1
      <4>2. CASE FirstOf(NoRetry, 0) # 0 /\ events' = RemoveAt(events, FirstOf(NoRetry, 0))
        BY <1>0, <4>2, FirstOfFacts, RemoveElems
      <4> QED  BY <1>25, <4>1, <4>2 DEF Ended
    <3>4. ~Owing(events')
      <4> SUFFICES ASSUME NEW e \in Elems(events), e.saved PROVE FALSE  BY <3>3 DEF Owing
      <4>1. e \in GoodEvent  BY <1>0 DEF Elems
      <4>2. e.code \in NoRetry  BY <3>1 DEF Worthy
      <4> QED  BY <4>1, <4>2 DEF GoodEvent
    <3> QED
      BY <2>1, <3>2, <3>4 DEF TimerInv, Due, WorthRetry, WentWell, WentWrong, Informed, Owing
  <2> QED  BY <1>25, <2>2, <2>3, <2>4 DEF Ended
<1> QED
  BY <1>4, <1>5, <1>10, <1>11, <1>12, <1>13, <1>14, <1>15, <1>16, <1>17, <1>18, <1>19, <1>20,
     <1>21, <1>22, <1>23, <1>24, <1>25
     DEF Next, Session, Running, Stimulus, Timer

\* An idle daemon with a report to send, or with a saved event that an Inform
\* would clear, has a timer pending (cwmp_add_inform_timer, cwmp_retry_session,
\* cwmp.c).
THEOREM SessionScheduled == Spec => []Scheduled
<1>1. Init => TimerInv
  BY DEF Init, TimerInv, Due, WorthRetry, WentWell, WentWrong, Informed, Before, Closing,
         Quietly, Loading, Answered
<1>2. AllInv /\ TimerInv /\ [Next]_vars => TimerInv'  BY TimerStep
<1>3. TimerInv => Scheduled  BY DueIsScheduled DEF TimerInv
<1> QED  BY <1>1, <1>2, <1>3, AllInvariant, PTL DEF Spec

-----------------------------------------------------------------------------
(***************************************************************************)
(* The M Download and M Upload events.  Until the process has been killed, *)
(* every one of them has its report in the file or is being cleared, in    *)
(* the list and in the file alike: its node is the only one with its key,  *)
(* so that removing the event removes that node and no other.              *)
(***************************************************************************)
Backed(x) == \/ [key |-> x.key, id |-> x.id] \in tree.tcs
             \/ pc = "cleartc" /\ x.id = ackId

IsMethod(x) == x.code \in Methods

NodesBacked  == \A x \in Elems(tree.events) : IsMethod(x) => Backed(x)
EventsBacked == \A e \in Elems(events) : IsMethod(e) => Backed(e)

\* A node that a restart would load has its event in the list.
InList(x) == \E e \in Elems(events) : e.code = x.code /\ e.key = x.key /\ e.id = x.id
NodesListed == pc # "down" => \A x \in Elems(tree.events) : IsMethod(x) => InList(x)

OneNode == \A i, j \in DOMAIN tree.events :
  (/\ IsMethod(tree.events[i]) /\ IsMethod(tree.events[j])
   /\ tree.events[i].key = tree.events[j].key) => i = j

NotYet == pc \in {"launch", "ran", "report", "event", "method"} =>
            \A x \in Elems(tree.events) : IsMethod(x) => x.key # cur

Filed == pc \in {"event", "method"} => [key |-> cur, id |-> methodId] \in tree.tcs

MethodInv == NodesBacked /\ EventsBacked /\ NodesListed /\ OneNode /\ NotYet /\ Filed

Unkilled == left["crash"] = MaxCrash

ReportInv == left["crash"] <= MaxCrash /\ (Unkilled => MethodInv)

\* A step that changes neither an M event nor an M node.
SameMethods ==
  /\ \A e \in Elems(events') : IsMethod(e) => e \in Elems(events)
  /\ \A e \in Elems(events) : IsMethod(e) => e \in Elems(events')
  /\ \A x \in Elems(tree'.events) : IsMethod(x) => x \in Elems(tree.events)
  /\ OneNode'

LEMMA SameMethodsKeep ==
  ASSUME MethodInv, SameMethods, pc # "down", tree.tcs \subseteq tree'.tcs,
         pc # "cleartc" \/ (pc' = "cleartc" /\ ackId' = ackId),
         NotYet', Filed'
  PROVE  MethodInv'
<1>1. NodesBacked' /\ EventsBacked'
  BY DEF MethodInv, NodesBacked, EventsBacked, SameMethods, Backed
<1>2. NodesListed'
  BY DEF MethodInv, NodesListed, SameMethods, InList, IsMethod
<1> QED  BY <1>1, <1>2 DEF MethodInv, SameMethods

\* The nodes but one, and the nodes with one more.
LEMMA OneNodeRemoved ==
  ASSUME EventInv, OneNode, NEW j \in DOMAIN tree.events, tree'.events = RemoveAt(tree.events, j)
  PROVE  /\ OneNode'
         /\ \A x \in Elems(tree'.events) :
              \E m \in DOMAIN tree.events : m # j /\ x = tree.events[m]
<1> DEFINE new == tree'.events
           old == tree.events
<1>1. /\ Len(old) \in Nat /\ j \in 1..Len(old) /\ DOMAIN old = 1..Len(old)
      /\ DOMAIN new = 1..(Len(old) - 1)
      /\ \A i \in 1..(Len(old) - 1) : new[i] = IF i < j THEN old[i] ELSE old[i + 1]
  BY RemoveFacts DEF EventInv
<1>2. \A i, k \in DOMAIN old :
        (IsMethod(old[i]) /\ IsMethod(old[k]) /\ old[i].key = old[k].key) => i = k
  BY DEF OneNode
<1>3. OneNode' <=> \A i, k \in DOMAIN new :
        (IsMethod(new[i]) /\ IsMethod(new[k]) /\ new[i].key = new[k].key) => i = k
  BY DEF OneNode
<1> HIDE DEF new, old
<1> DEFINE f(i) == IF i < j THEN i ELSE i + 1
<1>4. \A i \in 1..(Len(old) - 1) : f(i) \in 1..Len(old) /\ f(i) # j /\ new[i] = old[f(i)]
  BY <1>1
<1>5. \A i, k \in 1..(Len(old) - 1) : f(i) = f(k) => i = k  BY <1>1
<1> HIDE DEF f
<1>6. OneNode'  BY <1>1, <1>2, <1>3, <1>4, <1>5
<1>7. \A x \in Elems(new) : \E m \in DOMAIN old : m # j /\ x = old[m]
  BY <1>1, <1>4 DEF Elems
<1> QED  BY <1>6, <1>7 DEF new, old

LEMMA OneNodeAdded ==
  ASSUME EventInv, OneNode, NEW x \in GoodNode, tree'.events = Append(tree.events, x),
         IsMethod(x) => \A y \in Elems(tree.events) : IsMethod(y) => y.key # x.key
  PROVE  OneNode' /\ Elems(tree'.events) = Elems(tree.events) \cup {x}
<1> DEFINE new == tree'.events
           old == tree.events
<1>1. /\ Len(old) \in Nat /\ DOMAIN old = 1..Len(old) /\ DOMAIN new = 1..(Len(old) + 1)
      /\ \A i \in 1..Len(old) : new[i] = old[i]
      /\ new[Len(old) + 1] = x /\ Elems(new) = Elems(old) \cup {x}
  BY AppendElems DEF EventInv
<1>2. \A i, k \in DOMAIN old :
        (IsMethod(old[i]) /\ IsMethod(old[k]) /\ old[i].key = old[k].key) => i = k
  BY DEF OneNode
<1>3. OneNode' <=> \A i, k \in DOMAIN new :
        (IsMethod(new[i]) /\ IsMethod(new[k]) /\ new[i].key = new[k].key) => i = k
  BY DEF OneNode
<1>4. IsMethod(x) => \A i \in 1..Len(old) : IsMethod(old[i]) => old[i].key # x.key
  BY <1>1 DEF Elems
<1> HIDE DEF new, old
<1>5. OneNode'
  <2> SUFFICES ASSUME NEW i \in 1..(Len(old) + 1), NEW k \in 1..(Len(old) + 1),
                      IsMethod(new[i]), IsMethod(new[k]), new[i].key = new[k].key
               PROVE  i = k
    BY <1>1, <1>3
  <2>1. CASE i \in 1..Len(old) /\ k \in 1..Len(old)  BY <1>1, <1>2, <2>1
  <2>2. CASE i = Len(old) + 1 /\ k \in 1..Len(old)  BY <1>1, <1>4, <2>2
  <2>3. CASE k = Len(old) + 1 /\ i \in 1..Len(old)  BY <1>1, <1>4, <2>3
  <2> QED  BY <1>1, <2>1, <2>2, <2>3
<1> QED  BY <1>1, <1>5 DEF new, old

\* Only the end of the process by a signal counts as being killed.
LEMMA CrashCount ==
  ASSUME FlagTypes, left["crash"] <= MaxCrash, [Next]_vars
  PROVE  /\ left'["crash"] <= MaxCrash
         /\ Unkilled' => Unkilled /\ ~Crash /\ ~TornSave
<1>1. left \in [{"crash", "trouble"} -> Nat] /\ left["crash"] \in Nat /\ MaxCrash \in Nat
  BY CwmpAssumption DEF FlagTypes
<1>2. ASSUME left' = left \/ Spend("trouble") PROVE left'["crash"] = left["crash"]
  BY <1>1, <1>2 DEF Spend
<1>3. ASSUME Spend("crash") PROVE left'["crash"] = left["crash"] - 1 /\ left["crash"] > 0
  BY <1>1, <1>3 DEF Spend
<1>4. Crash \/ TornSave => Spend("crash")  BY DEF Crash, TornSave
<1>5. left' = left \/ Spend("trouble") \/ Crash \/ TornSave
  <2>1. Session \/ UNCHANGED vars => left' = left
    BY DEF vars, Session, SendInform, ClearInformed, SendTransferComplete,
           RemoveTransferComplete, ClearReported, SendGetRpcMethods, GetRpcMethodsAnswered, EmptyMessage, HandleEndSession, Ended
  <2>2. Running => left' = left \/ Spend("trouble")
    BY DEF Running, Start, CheckAcsUrl, Bootstrap, CheckVersion, Started, ScheduledMethod,
           RunScript, RemoveTransfer, AddTransferComplete, AddTransferEvent, AddMethodEvent,
           Applied
  <2>3. Request \/ Stimulus => left' = left \/ Spend("trouble")
    BY DEF Request, HandleTransfer, HandleReboot, HandleFactoryReset, HandleSetParameter,
           HandleScheduleInform, Stimulus, AddUnsaved, PassiveNotification, PeriodicInform,
           Reload, ChangeUrl
  <2>4. Timer \/ Fail => left' = left \/ Spend("trouble")
    BY DEF Timer, DoInform, Launch, ScheduledInform, Fail
  <2> QED  BY <2>1, <2>2, <2>3, <2>4 DEF Next
<1> QED  BY <1>1, <1>2, <1>3, <1>4, <1>5 DEF Unkilled

LEMMA MethodStep ==
  ASSUME AllInv, MethodInv, [Next]_vars, ~Crash, ~TornSave
  PROVE  MethodInv'
<1>0. /\ LedgerInv /\ LedgerTypes /\ EventInv /\ cur \in Keys /\ RunsOnce /\ TimersOnFile
      /\ events \in Seq(GoodEvent) /\ tree.events \in Seq(GoodNode) /\ methodId \in Nat
      /\ (pc \in {"event", "method"} => methodId # 0)
      /\ NodesBacked /\ EventsBacked /\ NodesListed /\ OneNode /\ NotYet /\ Filed
  BY DEF AllInv, LedgerInv, LedgerTypes, FlagTypes, EventInv, MethodInv
<1> DEFINE Early == {"launch", "ran", "report", "event", "method"}
<1>1. ASSUME Still PROVE SameMethods
  BY <1>0, <1>1 DEF Still, SameMethods, OneNode
<1>2. ASSUME NEW c \in Unsaved, events' = AddEvent(events, c, None, 0, FALSE), tree' = tree
      PROVE  SameMethods
  <2> DEFINE e == [code |-> c, key |-> None, id |-> 0, saved |-> FALSE]
  <2>1. /\ c \in Codes /\ None \in Keys /\ 0 \in Nat /\ FALSE \in BOOLEAN /\ e \in GoodEvent
        /\ ~IsMethod(e)
    BY DEF Unsaved, Codes, AfterInform, GoodEvent, Event, Keys, Methods, IsMethod
  <2>2. Elems(events) \subseteq Elems(events') /\ Elems(events') \subseteq Elems(events) \cup {e}
    BY <1>0, <1>2, <2>1, AddEventEffect
  <2> HIDE DEF e
  <2> QED  BY <1>0, <1>2, <2>1, <2>2 DEF SameMethods, OneNode
<1>3. ASSUME NEW c \in Codes \ NoRetry, NEW k \in Keys, NEW n \in Nat, c \notin Methods,
             AddSaved(c, k, n)
      PROVE  SameMethods /\ tree'.tcs = tree.tcs
  <2> DEFINE e == [code |-> c, key |-> k, id |-> n, saved |-> TRUE]
             x == [code |-> c, key |-> k, id |-> n]
  <2>1. /\ Elems(events) \subseteq Elems(events') /\ Elems(events') \subseteq Elems(events) \cup {e}
        /\ OnlyNodes /\ (tree' = tree \/ tree'.events = Append(tree.events, x))
    BY <1>0, <1>3, AddSavedEffect
  <2>2. ~IsMethod(e) /\ ~IsMethod(x) /\ x \in GoodNode
    BY <1>3 DEF IsMethod, GoodNode, Node
  <2> HIDE DEF e, x
  <2>3. OneNode' /\ Elems(tree'.events) \subseteq Elems(tree.events) \cup {x}
    <3>1. CASE tree' = tree  BY <1>0, <3>1 DEF OneNode
    <3>2. CASE tree'.events = Append(tree.events, x)  BY <1>0, <2>2, <3>2, OneNodeAdded
    <3> QED  BY <2>1, <3>1, <3>2
  <2>4. tree'.tcs = tree.tcs  BY <1>0, <2>1 DEF OnlyNodes, LedgerTypes
  <2> QED  BY <2>1, <2>2, <2>3, <2>4 DEF SameMethods
<1>4. ASSUME pc' \notin Early PROVE NotYet' /\ Filed'
  BY <1>4 DEF NotYet, Filed
<1>5. ASSUME Elems(events') = {}, Elems(tree'.events) = {}, pc' \notin Early, tree'.events = <<>>
      PROVE  MethodInv'
  <2>1. OneNode'
    <3>1. DOMAIN tree'.events = {}  BY <1>5, EmptySeq, LenProperties
    <3> QED  BY <3>1 DEF OneNode
  <2> QED  BY <1>4, <1>5, <2>1 DEF MethodInv, NodesBacked, EventsBacked, NodesListed
<1>6. ASSUME events' = <<>>, tree' = tree, pc' = "down", pc # "cleartc"
      PROVE  MethodInv'
  <2>1. Elems(events') = {}  BY <1>6, NoElems
  <2>2. NodesBacked'  BY <1>0, <1>6 DEF NodesBacked, Backed
  <2>3. OneNode'  BY <1>0, <1>6 DEF OneNode
  <2> QED  BY <1>4, <1>6, <2>1, <2>2, <2>3 DEF MethodInv, EventsBacked, NodesListed
<1>7. CASE UNCHANGED vars \/ ChangeUrl
  <2>1. UNCHANGED <<pc, cur, events, methodId, ackId, tree>>
    BY <1>7 DEF vars, ChangeUrl, ctl, mem, sess
  <2> QED
    BY <1>0, <2>1 DEF MethodInv, NodesBacked, EventsBacked, NodesListed, OneNode, NotYet, Filed,
                      Backed, InList
<1>8. CASE \/ (CheckAcsUrl /\ SavedUrl) \/ Reload
           \/ \E timer \in {"inform", "retry"} : DoInform(timer)
           \/ Fail \/ SendInform \/ SendTransferComplete \/ SendGetRpcMethods
           \/ GetRpcMethodsAnswered \/ \E t \in Transfers : HandleTransfer(t)
           \/ HandleFactoryReset \/ \E s \in Schedules : HandleScheduleInform(s)
           \/ HandleSetParameter \/ EmptyMessage
  <2>1. SameMethods  BY <1>0, <1>1, <1>8, StillSteps
  <2>2. pc \notin {"down", "cleartc"} /\ pc' \notin Early
    BY <1>8 DEF CheckAcsUrl, Reload, DoInform, Fail, SendInform, SendTransferComplete,
                SendGetRpcMethods, GetRpcMethodsAnswered, HandleTransfer, HandleFactoryReset, HandleScheduleInform,
                HandleSetParameter, EmptyMessage, ctl
  <2>3. tree'.tcs = tree.tcs
    BY <1>0, <1>8 DEF CheckAcsUrl, Reload, DoInform, Fail, SendInform, SendTransferComplete,
                SendGetRpcMethods, GetRpcMethodsAnswered, HandleTransfer, HandleFactoryReset, HandleScheduleInform,
                HandleSetParameter, EmptyMessage, LedgerTypes
  <2> QED  BY <1>4, <2>1, <2>2, <2>3, SameMethodsKeep
<1>9. CASE Applied \/ HandleEndSession
  <2>1. pc \in {"apply", "end"}  BY <1>9 DEF Applied, HandleEndSession
  <2>2. CASE pc' # "down"
    <3>1. Still /\ tree' = tree /\ pc' \notin Early
      BY <1>9, <2>2 DEF Applied, HandleEndSession, Exit, mem, Still
    <3> QED  BY <1>1, <1>4, <2>1, <3>1, SameMethodsKeep
  <2>3. CASE pc' = "down" /\ tree' = tree
    <3>1. events' = <<>>  BY <1>9, <2>3 DEF Applied, HandleEndSession, Exit
    <3> QED  BY <1>6, <2>1, <2>3, <3>1
  <2>4. CASE pc' = "down" /\ tree' # tree
    <3>1. events' = <<>> /\ tree'.events = <<>>
      BY <1>9, <2>4 DEF Applied, HandleEndSession, Exit, EmptyTree
    <3> QED  BY <1>5, <2>4, <3>1, NoElems
  <2> QED  BY <2>2, <2>3, <2>4
<1>10. CASE CheckAcsUrl /\ ~SavedUrl
  <2>1. events' = <<>> /\ tree'.events = <<>> /\ pc' = "bootstrap"
    BY <1>10 DEF CheckAcsUrl, EmptyTree
  <2> QED  BY <1>5, <2>1, NoElems
<1>11. CASE \/ \E c \in Unsaved : AddUnsaved(c)
            \/ PassiveNotification \/ (CheckVersion /\ events' # events)
  <2>1. SameMethods /\ tree' = tree  BY <1>0, <1>2, <1>11, UnsavedSteps
  <2>2. pc \notin {"down", "cleartc"} /\ pc' \notin Early
    BY <1>0, <1>11 DEF AddUnsaved, PassiveNotification, CheckVersion, ctl, LedgerTypes
  <2> QED  BY <1>4, <2>1, <2>2, SameMethodsKeep
<1>12. CASE CheckVersion /\ events' = events
  <2>1. SameMethods /\ tree' = tree  BY <1>1, <1>12 DEF CheckVersion, Still
  <2>2. pc \notin {"down", "cleartc"} /\ pc' \notin Early
    BY <1>0, <1>12 DEF CheckVersion, LedgerTypes
  <2> QED  BY <1>4, <2>1, <2>2, SameMethodsKeep
<1>13. CASE \/ Bootstrap \/ Started \/ PeriodicInform \/ ScheduledMethod
            \/ \E s \in Schedules : ScheduledInform(s)
            \/ AddTransferEvent
  <2>0. ~AddMethodEvent
    BY <1>13 DEF Bootstrap, Started, PeriodicInform, ScheduledMethod, ScheduledInform,
                 AddTransferEvent, AddMethodEvent
  <2>1. PICK c \in Codes \ NoRetry, k \in Keys, n \in Nat : AddSaved(c, k, n) /\ c \notin Methods
    BY <1>0, <1>13, <2>0, SavingSteps
  <2>2. SameMethods /\ tree'.tcs = tree.tcs  BY <1>3, <2>1
  <2>3. pc \notin {"down", "cleartc"}
        /\ (pc' \notin Early
             \/ (pc = "event" /\ pc' = "method" /\ cur' = cur /\ methodId' = methodId))
    BY <1>13 DEF Bootstrap, Started, PeriodicInform, ScheduledMethod, ScheduledInform,
                 AddTransferEvent, ctl
  <2>4. NotYet' /\ Filed'
    <3>1. CASE pc' \notin Early  BY <1>4, <3>1
    <3>2. CASE pc = "event" /\ pc' = "method" /\ cur' = cur /\ methodId' = methodId
      BY <1>0, <2>2, <3>2 DEF NotYet, Filed, SameMethods
    <3> QED  BY <2>3, <3>1, <3>2
  <2> QED  BY <2>2, <2>3, <2>4, SameMethodsKeep
<1>14. CASE RunScript \/ RemoveTransfer \/ AddTransferComplete
  <2>1. Still  BY <1>0, <1>14, StillSteps
  <2>2. tree.tcs \subseteq tree'.tcs
        /\ pc \in {"launch", "ran", "report"} /\ pc' \in {"ran", "report", "event"}
        /\ cur' = cur /\ (pc' = "event" => [key |-> cur, id |-> methodId'] \in tree'.tcs)
    BY <1>0, <1>14 DEF RunScript, RemoveTransfer, AddTransferComplete, LedgerTypes
  <2>3. NotYet' /\ Filed'  BY <1>0, <2>1, <2>2 DEF NotYet, Filed, Still
  <2> QED  BY <1>1, <2>1, <2>2, <2>3, SameMethodsKeep
<1>15. CASE \E t \in Transfers : Launch(t)
  <2>1. PICK t \in Transfers : Launch(t)  BY <1>15
  <2>2. Still /\ tree' = tree /\ pc = "idle" /\ t \in armed /\ UNCHANGED <<events, methodId>>
        /\ ((pc' = "launch" /\ cur' = t) \/ (pc' = pc /\ cur' = cur))
    BY <2>1 DEF Launch, Still
  <2>3. \A x \in Elems(tree.events) : IsMethod(x) => x.key # t
    <3> SUFFICES ASSUME NEW x \in Elems(tree.events), IsMethod(x), x.key = t PROVE FALSE
      OBVIOUS
    <3>1. [key |-> t, id |-> x.id] \in tree.tcs  BY <1>0, <2>2 DEF NodesBacked, Backed
    <3>2. t \in tree.transfers  BY <1>0, <2>2 DEF TimersOnFile
    <3> QED  BY <1>0, <3>1, <3>2 DEF RunsOnce
  <2>4. NotYet' /\ Filed'  BY <2>2, <2>3 DEF NotYet, Filed
  <2> QED  BY <1>1, <2>2, <2>4, SameMethodsKeep
<1>16. CASE AddMethodEvent
  <2> DEFINE c == IF cur \in Downloads THEN "M_DOWNLOAD" ELSE "M_UPLOAD"
             e == [code |-> c, key |-> cur, id |-> methodId, saved |-> TRUE]
             x == [code |-> c, key |-> cur, id |-> methodId]
  <2>1. /\ AddSaved(c, cur, methodId) /\ pc = "method" /\ pc' = "apply" /\ methodId # 0
        /\ c \in Codes \ NoRetry /\ c \in Multiple
    BY <1>0, <1>16 DEF AddMethodEvent, Codes, AfterInform, AfterTransferComplete, NoRetry, Multiple
  <2> HIDE DEF c
  <2>2. /\ Elems(events) \subseteq Elems(events') /\ Elems(events') \subseteq Elems(events) \cup {e}
        /\ OnlyNodes /\ events' = Append(events, e) /\ tree'.events = Append(tree.events, x)
    BY <1>0, <2>1, AddSavedEffect
  <2>3. e.code = c /\ e.key = cur /\ e.id = methodId /\ x.code = c /\ x.key = cur /\ x.id = methodId
        /\ x \in GoodNode /\ e \in GoodEvent
    BY <1>0, <2>1 DEF GoodNode, Node, GoodEvent, Event
  <2> HIDE DEF e, x
  <2>4. tree'.tcs = tree.tcs  BY <1>0, <2>2 DEF OnlyNodes, LedgerTypes
  <2>5. \A y \in Elems(tree.events) : IsMethod(y) => y.key # cur  BY <1>0, <2>1 DEF NotYet
  <2>6. OneNode' /\ Elems(tree'.events) = Elems(tree.events) \cup {x}
    BY <1>0, <2>2, <2>3, <2>5, OneNodeAdded
  <2>7. Backed(e) /\ Backed(x)  BY <1>0, <2>1, <2>3 DEF Filed, Backed
  <2>8. \A y : Backed(y) => Backed(y)'  BY <2>1, <2>4 DEF Backed
  <2>9. NodesBacked' /\ EventsBacked'
    <3>1. \A y \in Elems(tree'.events) : IsMethod(y) => Backed(y)'
      BY <1>0, <2>6, <2>7, <2>8 DEF NodesBacked
    <3>2. \A y \in Elems(events') : IsMethod(y) => Backed(y)'
      BY <1>0, <2>2, <2>7, <2>8 DEF EventsBacked
    <3> QED  BY <3>1, <3>2 DEF NodesBacked, EventsBacked
  <2>10. NodesListed'
    <3>1. e \in Elems(events')  BY <1>0, <2>2, <2>3, AppendElems
    <3>2. \A y \in Elems(tree.events) : IsMethod(y) => InList(y)  BY <1>0, <2>1 DEF NodesListed
    <3>3. \A y \in Elems(tree'.events) : IsMethod(y) => InList(y)'
      BY <2>2, <2>3, <2>6, <3>1, <3>2 DEF InList
    <3> QED  BY <3>3 DEF NodesListed
  <2> QED  BY <1>4, <2>1, <2>6, <2>9, <2>10 DEF MethodInv
<1>17. CASE RemoveTransferComplete
  <2>1. PICK r \in tree.tcs : /\ tree' = [tree EXCEPT !.tcs = @ \ {r}] /\ ackId' = ackId
                              /\ r = [key |-> cur, id |-> ackId] /\ r.id = ackId
    BY <1>0, <1>17 DEF RemoveTransferComplete, TimersOnFile, sess
  <2>2. pc = "answered" /\ pc' = "cleartc" /\ events' = events
    BY <1>17 DEF RemoveTransferComplete, mem
  <2>3. tree'.events = tree.events /\ tree'.tcs = tree.tcs \ {r}  BY <1>0, <2>1 DEF LedgerTypes
  <2>4. \A y : Backed(y) => Backed(y)'
    <3> SUFFICES ASSUME NEW y, Backed(y) PROVE Backed(y)'  OBVIOUS
    <3>1. [key |-> y.key, id |-> y.id] \in tree.tcs  BY <2>2 DEF Backed
    <3>2. CASE [key |-> y.key, id |-> y.id] = r  BY <2>1, <2>2, <3>2 DEF Backed
    <3>3. CASE [key |-> y.key, id |-> y.id] # r  BY <2>3, <3>1, <3>3 DEF Backed
    <3> QED  BY <3>2, <3>3
  <2>5. NodesBacked' /\ EventsBacked'
    BY <1>0, <2>2, <2>3, <2>4 DEF NodesBacked, EventsBacked
  <2>6. NodesListed' /\ OneNode'  BY <1>0, <2>2, <2>3 DEF NodesListed, InList, OneNode
  <2> QED  BY <1>4, <2>2, <2>5, <2>6 DEF MethodInv
\* An event and its node leave: of the nodes that stay, none was its own.
<1>18. ASSUME NEW policy, NEW n, RemoveEvent(policy, n), pc # "down",
              pc' = pc, ackId' = ackId, pc' \notin Early
       PROVE  MethodInv'
  <2>1. PICK i \in DOMAIN events :
          /\ events' = RemoveAt(events, i)
          /\ \/ ~events[i].saved /\ tree' = tree
             \/ /\ OnlyNodes
                /\ \E j \in DOMAIN tree.events :
                     IsNodeOf(j, i) /\ tree'.events = RemoveAt(tree.events, j)
    BY <1>0, <1>18, RemoveEventEffect
  <2>2. /\ Elems(events') \subseteq Elems(events)
        /\ \A k \in DOMAIN events : k # i => events[k] \in Elems(events')
    BY <1>0, <2>1, RemoveElems
  <2>3. tree'.tcs = tree.tcs  BY <1>0, <2>1 DEF OnlyNodes, LedgerTypes
  <2>4. \A y : Backed(y) => Backed(y)'  BY <1>18, <2>3 DEF Backed
  <2>5. OneNode' /\ \A x \in Elems(tree'.events) :
          /\ x \in Elems(tree.events)
          /\ IsMethod(x) => ~(x.code = events[i].code /\ x.key = events[i].key)
    <3>1. CASE ~events[i].saved /\ tree' = tree
      <4>1. events[i] \in GoodEvent  BY <1>0
      <4>2. ~IsMethod(events[i])  BY <3>1, <4>1 DEF GoodEvent, IsMethod
      <4> QED  BY <1>0, <3>1, <4>2 DEF OneNode, IsMethod
    <3>2. CASE \E j \in DOMAIN tree.events : IsNodeOf(j, i) /\ tree'.events = RemoveAt(tree.events, j)
      <4>1. PICK j \in DOMAIN tree.events : IsNodeOf(j, i) /\ tree'.events = RemoveAt(tree.events, j)
        BY <3>2
      <4>2. tree.events[j].code = events[i].code /\ tree.events[j].key = events[i].key
        BY <4>1 DEF IsNodeOf, Alike
      <4>3. OneNode' /\ \A x \in Elems(tree'.events) :
              \E m \in DOMAIN tree.events : m # j /\ x = tree.events[m]
        BY <1>0, <4>1, OneNodeRemoved
      <4>4. ASSUME NEW x \in Elems(tree'.events), IsMethod(x),
                   x.code = events[i].code, x.key = events[i].key
            PROVE  FALSE
        <5>1. PICK m \in DOMAIN tree.events : m # j /\ x = tree.events[m]  BY <4>3
        <5>2. IsMethod(tree.events[j])  BY <4>2, <4>4 DEF IsMethod
        <5> QED  BY <1>0, <4>2, <4>4, <5>1, <5>2 DEF OneNode
      <4> QED  BY <4>3, <4>4 DEF Elems
    <3> QED  BY <2>1, <3>1, <3>2
  <2>6. NodesBacked' /\ EventsBacked'
    <3>1. \A y \in Elems(tree'.events) : IsMethod(y) => Backed(y)'
      BY <1>0, <2>4, <2>5 DEF NodesBacked
    <3>2. \A y \in Elems(events') : IsMethod(y) => Backed(y)'
      BY <1>0, <2>2, <2>4 DEF EventsBacked
    <3> QED  BY <3>1, <3>2 DEF NodesBacked, EventsBacked
  <2>7. NodesListed'
    <3> SUFFICES ASSUME NEW x \in Elems(tree'.events), IsMethod(x)
                 PROVE  \E e \in Elems(events') : e.code = x.code /\ e.key = x.key /\ e.id = x.id
      BY DEF NodesListed, InList
    <3>1. InList(x)  BY <1>0, <1>18, <2>5 DEF NodesListed
    <3>2. PICK k \in DOMAIN events :
            events[k].code = x.code /\ events[k].key = x.key /\ events[k].id = x.id
      BY <3>1 DEF InList, Elems
    <3>3. k # i  BY <2>5, <3>2
    <3> QED  BY <2>2, <3>2, <3>3
  <2> QED  BY <1>4, <1>18, <2>5, <2>6, <2>7 DEF MethodInv
<1>19. CASE ClearInformed
  <2>1. CASE RemoveEvent(AfterInform, 0) /\ pc' = pc
    <3>1. pc = "clear" /\ ackId' = ackId  BY <1>19 DEF ClearInformed, sess
    <3> QED  BY <1>18, <2>1, <3>1
  <2>2. CASE pc' = "tc" /\ UNCHANGED <<events, tree>>
    <3>1. pc = "clear"  BY <1>19 DEF ClearInformed
    <3> QED  BY <1>1, <1>4, <2>2, <3>1, SameMethodsKeep DEF Still
  <2> QED  BY <1>19, <2>1, <2>2 DEF ClearInformed
<1>20. CASE ClearReported
  <2>1. pc = "cleartc"  BY <1>20 DEF ClearReported
  <2>2. CASE RemoveEvent(AfterTransferComplete, ackId) /\ UNCHANGED <<pc, ackId>>
    BY <1>18, <2>1, <2>2
  <2>3. CASE /\ FirstOf(AfterTransferComplete, ackId) = 0 /\ UNCHANGED <<events, tree>>
             /\ pc' \in {"cleartc", "tc"}
    <3>1. \A e \in Elems(events) : IsMethod(e) => e.id # ackId
      BY <1>0, <2>3, FirstOfFacts DEF IsMethod, Methods, AfterTransferComplete
    <3>2. \A e \in Elems(events) : IsMethod(e) => [key |-> e.key, id |-> e.id] \in tree.tcs
      BY <1>0, <3>1 DEF EventsBacked, Backed
    <3>3. \A x \in Elems(tree.events) : IsMethod(x) => [key |-> x.key, id |-> x.id] \in tree.tcs
      BY <1>0, <2>1, <3>2 DEF NodesListed, InList, IsMethod
    <3>4. NodesBacked' /\ EventsBacked'  BY <2>3, <3>2, <3>3 DEF NodesBacked, EventsBacked, Backed
    <3>5. NodesListed' /\ OneNode'  BY <1>0, <2>1, <2>3 DEF NodesListed, InList, OneNode
    <3> QED  BY <1>4, <2>3, <3>4, <3>5 DEF MethodInv
  <2> QED  BY <1>20, <2>2, <2>3 DEF ClearReported
<1>21. CASE Ended
  <2>1. pc = "ended" /\ pc' = "idle" /\ tree' = tree  BY <1>21 DEF Ended
  <2>2. SameMethods
    <3>1. CASE events' = events  BY <1>1, <2>1, <3>1 DEF Still
    <3>2. CASE FirstOf(NoRetry, 0) # 0 /\ events' = RemoveAt(events, FirstOf(NoRetry, 0))
      <4>1. FirstOf(NoRetry, 0) \in DOMAIN events /\ events[FirstOf(NoRetry, 0)].code \in NoRetry
        BY <1>0, <3>2, FirstOfFacts
      <4>2. /\ Elems(events') \subseteq Elems(events)
            /\ \A k \in DOMAIN events : k # FirstOf(NoRetry, 0) => events[k] \in Elems(events')
        BY <1>0, <3>2, <4>1, RemoveElems
      <4>3. ~IsMethod(events[FirstOf(NoRetry, 0)])  BY <4>1 DEF NoRetry, IsMethod, Methods
      <4>4. \A e \in Elems(events) : IsMethod(e) => e \in Elems(events')
        BY <4>2, <4>3 DEF Elems
      <4> QED  BY <1>0, <2>1, <4>2, <4>4 DEF SameMethods, OneNode
    <3> QED  BY <1>21, <3>1, <3>2 DEF Ended
  <2> QED  BY <1>4, <2>1, <2>2, SameMethodsKeep
<1>22. CASE HandleReboot
  <2> DEFINE x == [code |-> "M_REBOOT", key |-> None, id |-> 0]
  <2>1. x \in GoodNode /\ ~IsMethod(x)
    BY DEF GoodNode, Node, Codes, AfterInform, Keys, NoRetry, Methods, IsMethod
  <2>2. /\ events' = events /\ tree'.events = Append(tree.events, x) /\ tree'.tcs = tree.tcs
        /\ pc = "msgs" /\ pc' = "msgs"
    BY <1>0, <1>22 DEF HandleReboot, LedgerTypes, mem, ctl
  <2> HIDE DEF x
  <2>3. OneNode' /\ Elems(tree'.events) = Elems(tree.events) \cup {x}
    BY <1>0, <2>1, <2>2, OneNodeAdded
  <2>4. SameMethods  BY <2>1, <2>2, <2>3 DEF SameMethods
  <2> QED  BY <1>4, <2>2, <2>4, SameMethodsKeep
<1>23. CASE Start
  <2>1. events' = LoadEvents(tree.events) /\ tree' = tree /\ pc = "down" /\ pc' = "config"
    BY <1>23 DEF Start
  <2>2. tree.events \in Seq(Node)  BY <1>0, SeqMonotonic DEF GoodNode
  <2>3. \A i \in DOMAIN tree.events : IsMethod(tree.events[i]) =>
          /\ Loaded(tree.events, i).code = tree.events[i].code
          /\ Loaded(tree.events, i).key = tree.events[i].key
          /\ Loaded(tree.events, i).id = tree.events[i].id
    <3> SUFFICES ASSUME NEW i \in DOMAIN tree.events, IsMethod(tree.events[i])
                 PROVE  LoadedId(tree.events, i) = tree.events[i].id
      BY DEF Loaded
    <3>1. tree.events[i] \in GoodNode  BY <1>0
    <3>2. tree.events[i].id # 0  BY <3>1 DEF GoodNode, IsMethod
    <3> QED  BY <2>2, <3>2, LoadedIdFacts
  <2>4. \A i \in Kept(tree.events) : i \in DOMAIN tree.events /\ tree.events[i] \in Elems(tree.events)
    BY DEF Kept, Elems
  <2>5. \A x \in Elems(tree.events) : IsMethod(x) => [key |-> x.key, id |-> x.id] \in tree.tcs
    BY <1>0, <2>1 DEF NodesBacked, Backed
  <2>6. \A e \in Elems(events') : IsMethod(e) => [key |-> e.key, id |-> e.id] \in tree.tcs
    <3> SUFFICES ASSUME NEW n \in DOMAIN events', IsMethod(events'[n])
                 PROVE  [key |-> events'[n].key, id |-> events'[n].id] \in tree.tcs
      BY DEF Elems
    <3>1. PICK i \in Kept(tree.events) : events'[n] = Loaded(tree.events, i)
      BY <1>0, <2>1, LoadFacts
    <3>2. IsMethod(tree.events[i])  BY <3>1 DEF Loaded, IsMethod
    <3> QED  BY <2>3, <2>4, <2>5, <3>1, <3>2
  <2>7. \A x \in Elems(tree.events) : IsMethod(x) => InList(x)'
    <3> SUFFICES ASSUME NEW i \in DOMAIN tree.events, IsMethod(tree.events[i])
                 PROVE  InList(tree.events[i])'
      BY <2>1 DEF Elems, InList
    <3>1. tree.events[i].code \in Multiple  BY DEF IsMethod, Methods, Multiple
    <3>2. Loaded(tree.events, i) \in Elems(events')  BY <1>0, <2>1, <3>1, LoadFacts
    <3> QED  BY <2>1, <2>3, <3>2 DEF InList
  <2>8. NodesBacked' /\ EventsBacked'  BY <2>1, <2>5, <2>6 DEF NodesBacked, EventsBacked, Backed
  <2>9. NodesListed' /\ OneNode'  BY <1>0, <2>1, <2>7 DEF NodesListed, OneNode
  <2> QED  BY <1>4, <2>1, <2>8, <2>9 DEF MethodInv
<1> QED
  BY <1>7, <1>8, <1>9, <1>10, <1>11, <1>12, <1>13, <1>14, <1>15, <1>16, <1>17, <1>19, <1>20,
     <1>21, <1>22, <1>23
     DEF Next, Session, Running, Request, Stimulus, Timer

\* As long as the process has not been killed, an idle daemon lists an M Download
\* or M Upload only while its report is to be sent (cwmp_inform and
\* cwmp_remove_event, cwmp.c; backup.c 629-715).
THEOREM ReportsCleared == Spec => []ReportedEventsCleared
<1>1. Init => ReportInv
  <2> SUFFICES ASSUME Init PROVE ReportInv  OBVIOUS
  <2>1. events = <<>> /\ tree.events = <<>> /\ pc = "down" /\ left["crash"] = MaxCrash
    BY DEF Init, EmptyTree
  <2>2. Elems(events) = {} /\ Elems(tree.events) = {} /\ DOMAIN tree.events = {}
    BY <2>1, NoElems, EmptySeq, LenProperties
  <2>3. MethodInv
    BY <2>1, <2>2 DEF MethodInv, NodesBacked, EventsBacked, NodesListed, OneNode, NotYet, Filed
  <2> QED  BY <2>1, <2>3, CwmpAssumption DEF ReportInv
<1>2. AllInv /\ ReportInv /\ [Next]_vars => ReportInv'
  <2> SUFFICES ASSUME AllInv, ReportInv, [Next]_vars PROVE ReportInv'  OBVIOUS
  <2>1. left'["crash"] <= MaxCrash /\ (Unkilled' => Unkilled /\ ~Crash /\ ~TornSave)
    BY CrashCount DEF ReportInv, AllInv
  <2>2. Unkilled' => MethodInv'  BY <2>1, MethodStep DEF ReportInv
  <2> QED  BY <2>1, <2>2 DEF ReportInv
<1>3. ReportInv => ReportedEventsCleared
  <2> SUFFICES ASSUME ReportInv, pc = "idle", Unkilled, NEW i \in DOMAIN events,
                      events[i].code \in {"M_DOWNLOAD", "M_UPLOAD"}
               PROVE  \E r \in tree.tcs : r.key = events[i].key
    BY DEF ReportedEventsCleared, Unkilled
  <2>1. events[i] \in Elems(events) /\ IsMethod(events[i])  BY DEF Elems, IsMethod, Methods
  <2>2. [key |-> events[i].key, id |-> events[i].id] \in tree.tcs
    BY <2>1 DEF ReportInv, MethodInv, EventsBacked, Backed
  <2> QED  BY <2>2
<1> QED  BY <1>1, <1>2, <1>3, AllInvariant, PTL DEF Spec

-----------------------------------------------------------------------------
(***************************************************************************)
(* The list and the file.  The n-th saved event of the list has the n-th   *)
(* node of the file, and the file has no other node except in a session    *)
(* that will end in a reboot.                                              *)
(***************************************************************************)
SavedIn(evs) == {i \in 1..Len(evs) : evs[i].saved}
Count(evs, i) == Cardinality(UpTo(SavedIn(evs), i))

Matches(evs, nodes) ==
  /\ Count(evs, Len(evs)) <= Len(nodes)
  /\ \A i \in SavedIn(evs) : Alike(evs[i], nodes[Count(evs, i)])

InSession == Answered \cup {"end"}

FileInv ==
  /\ SinglesOnce(tree.events)
  /\ pc \notin InSession => ends = {}
  /\ pc # "down" => Matches(events, tree.events)
  /\ (pc # "down" /\ "reboot" \notin ends) => Count(events, Len(events)) = Len(tree.events)

\* Induction up to a number, over a set.
LEMMA UpToInduction ==
  ASSUME NEW N \in Nat, NEW G, 0 \in G, \A k \in 0..(N - 1) : k \in G => k + 1 \in G
  PROVE  0..N \subseteq G
<1> DEFINE T == {k \in 0..N : k \notin G}
<1>1. CASE T = {}  BY <1>1
<1>2. CASE T # {}
  <2>1. T \subseteq Nat  OBVIOUS
  <2>2. PICK k \in T : \A m \in T : k <= m
    <3> HIDE DEF T
    <3> QED  BY <1>2, <2>1, Least
  <2>3. k \in 0..N /\ k \notin G /\ k # 0  OBVIOUS
  <2>4. k - 1 \in 0..(N - 1) /\ k - 1 \notin T  BY <2>2, <2>3
  <2>5. k - 1 \in G  BY <2>3, <2>4
  <2>6. (k - 1) + 1 \in G  BY <2>4, <2>5
  <2> QED  BY <2>3, <2>6
<1> QED  BY <1>1, <1>2

\* Counting after the element at position i has left: R is what S becomes.
Shifted(S, R, i, N) ==
  /\ \A k \in 1..(i - 1) : k \in R <=> k \in S
  /\ \A k \in i..(N - 1) : k \in R <=> k + 1 \in S

CountShifted(S, R, i, N) ==
  \A k \in 0..(N - 1) :
    Cardinality(UpTo(R, k)) =
      IF k < i THEN Cardinality(UpTo(S, k))
      ELSE IF i \in S THEN Cardinality(UpTo(S, k + 1)) - 1
      ELSE Cardinality(UpTo(S, k + 1))

LEMMA CountRemoved ==
  ASSUME NEW N \in Nat, NEW i \in 1..N, NEW S, S \subseteq 1..N, NEW R, R \subseteq 1..(N - 1),
         Shifted(S, R, i, N)
  PROVE  CountShifted(S, R, i, N)
<1> DEFINE c(k) == Cardinality(UpTo(S, k))
           d(k) == Cardinality(UpTo(R, k))
           G == {k \in 0..(N - 1) : d(k) = IF k < i THEN c(k)
                                           ELSE IF i \in S THEN c(k + 1) - 1 ELSE c(k + 1)}
<1>0. /\ \A k \in 1..(i - 1) : k \in R <=> k \in S
      /\ \A k \in i..(N - 1) : k \in R <=> k + 1 \in S
  BY DEF Shifted
<1>1. /\ \A k \in Nat : c(k) \in Nat /\ c(k + 1) = IF k + 1 \in S THEN c(k) + 1 ELSE c(k)
      /\ c(0) = 0
  <2>1. Counts(S)  BY UpToCounts
  <2> QED  BY <2>1 DEF Counts
<1>2. /\ \A k \in Nat : d(k) \in Nat /\ d(k + 1) = IF k + 1 \in R THEN d(k) + 1 ELSE d(k)
      /\ d(0) = 0
  <2>1. N - 1 \in Nat  OBVIOUS
  <2>2. Counts(R)  BY <2>1, UpToCounts
  <2> QED  BY <2>2 DEF Counts
<1> HIDE DEF c, d
<1>3. 0 \in G  BY <1>1, <1>2
<1>4. ASSUME NEW k \in 0..(N - 1 - 1), k \in G PROVE k + 1 \in G
  <2>1. k + 1 \in 1..(N - 1) /\ k \in Nat /\ k + 1 \in Nat  OBVIOUS
  <2>2. k + 1 \in R <=> IF k + 1 < i THEN k + 1 \in S ELSE (k + 1) + 1 \in S
    <3>1. CASE k + 1 < i
      <4>1. k + 1 \in 1..(i - 1)  BY <3>1
      <4> QED  BY <1>0, <3>1, <4>1
    <3>2. CASE ~(k + 1 < i)
      <4>1. k + 1 \in i..(N - 1)  BY <3>2
      <4> QED  BY <1>0, <3>2, <4>1
    <3> QED  BY <3>1, <3>2
  <2>3. /\ c(k + 1) = IF k + 1 \in S THEN c(k) + 1 ELSE c(k)
        /\ c((k + 1) + 1) = IF (k + 1) + 1 \in S THEN c(k + 1) + 1 ELSE c(k + 1)
        /\ d(k + 1) = IF k + 1 \in R THEN d(k) + 1 ELSE d(k)
        /\ c(k) \in Nat /\ d(k) \in Nat /\ c(k + 1) \in Nat
    BY <1>1, <1>2, <2>1
  <2>4. d(k) = IF k < i THEN c(k) ELSE IF i \in S THEN c(k + 1) - 1 ELSE c(k + 1)  BY <1>4
  <2>5. CASE k + 1 < i
    <3>1. d(k + 1) = c(k + 1)  BY <2>1, <2>2, <2>3, <2>4, <2>5
    <3> QED  BY <2>1, <2>5, <3>1
  <2>6. CASE k + 1 = i
    <3>1. d(k + 1) = IF i \in S THEN c((k + 1) + 1) - 1 ELSE c((k + 1) + 1)
      BY <2>1, <2>2, <2>3, <2>4, <2>6
    <3> QED  BY <2>1, <2>6, <3>1
  <2>7. CASE k + 1 > i
    <3>1. d(k + 1) = IF i \in S THEN c((k + 1) + 1) - 1 ELSE c((k + 1) + 1)
      BY <2>1, <2>2, <2>3, <2>4, <2>7
    <3> QED  BY <2>1, <2>7, <3>1
  <2> QED  BY <2>5, <2>6, <2>7
<1>5. 0..(N - 1) \subseteq G
  <2>1. N - 1 \in Nat  OBVIOUS
  <2> HIDE DEF G
  <2> QED  BY <1>3, <1>4, <2>1, UpToInduction
<1> QED  BY <1>5 DEF c, d, CountShifted

LEMMA CountFacts ==
  ASSUME NEW E, NEW evs \in Seq(E)
  PROVE  /\ Len(evs) \in Nat /\ DOMAIN evs = 1..Len(evs) /\ SavedIn(evs) \subseteq 1..Len(evs)
         /\ \A k \in Nat : Count(evs, k) \in Nat /\ Count(evs, k) <= Count(evs, Len(evs))
         /\ Count(evs, 0) = 0
         /\ \A k \in Nat : Count(evs, k + 1) =
              IF k + 1 \in SavedIn(evs) THEN Count(evs, k) + 1 ELSE Count(evs, k)
         /\ \A i \in Nat, j \in SavedIn(evs) : i < j => Count(evs, i) < Count(evs, j)
         /\ \A i \in SavedIn(evs) : Count(evs, i) \in 1..Count(evs, Len(evs))
         /\ \A n \in 1..Count(evs, Len(evs)) : \E i \in SavedIn(evs) : Count(evs, i) = n
<1>1. Len(evs) \in Nat /\ DOMAIN evs = 1..Len(evs)  BY LenProperties
<1>2. SavedIn(evs) \subseteq 1..Len(evs)  BY DEF SavedIn
<1> DEFINE S == SavedIn(evs)
<1>3. \A k : Count(evs, k) = Cardinality(UpTo(S, k))  BY DEF Count
<1> HIDE DEF S
<1>4. S \subseteq 1..Len(evs)  BY <1>2 DEF S
<1>5. /\ \A k \in Nat : /\ Cardinality(UpTo(S, k)) \in Nat
                        /\ Cardinality(UpTo(S, k)) <= Cardinality(S)
      /\ Cardinality(UpTo(S, 0)) = 0 /\ UpTo(S, Len(evs)) = S
      /\ \A k \in Nat : Cardinality(UpTo(S, k + 1)) =
           IF k + 1 \in S THEN Cardinality(UpTo(S, k)) + 1 ELSE Cardinality(UpTo(S, k))
      /\ \A i \in Nat, j \in S : i < j => Cardinality(UpTo(S, i)) < Cardinality(UpTo(S, j))
  <2> DEFINE N == Len(evs)
  <2>1. N \in Nat /\ S \subseteq 1..N  BY <1>1, <1>4
  <2> HIDE DEF N
  <2>2. /\ \A k \in Nat : /\ Cardinality(UpTo(S, k)) \in Nat
                          /\ Cardinality(UpTo(S, k)) <= Cardinality(S)
        /\ Cardinality(UpTo(S, 0)) = 0 /\ UpTo(S, N) = S
    BY <2>1, UpToFacts
  <2>3. \A k \in Nat : Cardinality(UpTo(S, k + 1)) =
           IF k + 1 \in S THEN Cardinality(UpTo(S, k)) + 1 ELSE Cardinality(UpTo(S, k))
    BY <2>1, UpToFacts
  <2>4. \A i \in Nat, j \in S : i < j => Cardinality(UpTo(S, i)) < Cardinality(UpTo(S, j))
    BY <2>1, UpToFacts
  <2> QED  BY <2>2, <2>3, <2>4 DEF N
<1>6. /\ \A n \in 1..Cardinality(S) : Nth(S, n) \in S /\ Cardinality(UpTo(S, Nth(S, n))) = n
      /\ \A i \in S : Cardinality(UpTo(S, i)) \in 1..Cardinality(S)
  BY <1>1, <1>4, NthFacts
<1>7. Count(evs, Len(evs)) = Cardinality(S)  BY <1>3, <1>5
<1>8. /\ \A k \in Nat : Count(evs, k) \in Nat /\ Count(evs, k) <= Count(evs, Len(evs))
      /\ Count(evs, 0) = 0
  BY <1>3, <1>5, <1>7
<1>9. \A k \in Nat : Count(evs, k + 1) = IF k + 1 \in S THEN Count(evs, k) + 1 ELSE Count(evs, k)
  BY <1>3, <1>5
<1>10. \A i \in Nat, j \in S : i < j => Count(evs, i) < Count(evs, j)  BY <1>3, <1>5
<1>11. \A i \in S : Count(evs, i) \in 1..Count(evs, Len(evs))  BY <1>3, <1>6, <1>7
<1>12. \A n \in 1..Count(evs, Len(evs)) : \E i \in S : Count(evs, i) = n
  BY <1>3, <1>6, <1>7
<1> QED  BY <1>1, <1>2, <1>8, <1>9, <1>10, <1>11, <1>12 DEF S

\* cwmp_add_event, with and without EVENT_BACKUP.
LEMMA MatchAdded ==
  ASSUME NEW E, NEW evs \in Seq(E), NEW e \in E, e.saved \in BOOLEAN, NEW X, NEW nodes \in Seq(X),
         NEW x \in X, Alike(e, x), Matches(evs, nodes)
  PROVE  /\ ~e.saved => /\ Matches(Append(evs, e), nodes)
                        /\ Count(Append(evs, e), Len(Append(evs, e))) = Count(evs, Len(evs))
         /\ (e.saved /\ Count(evs, Len(evs)) = Len(nodes))
              => /\ Matches(Append(evs, e), Append(nodes, x))
                 /\ Count(Append(evs, e), Len(Append(evs, e))) = Len(Append(nodes, x))
<1> DEFINE new == Append(evs, e)
           N == Len(evs)
<1>1. /\ new \in Seq(E) /\ N \in Nat /\ Len(new) = N + 1 /\ new[N + 1] = e
      /\ \A i \in 1..N : new[i] = evs[i]
  BY AppendProperties, LenProperties
<1>2. /\ SavedIn(evs) \subseteq 1..N
      /\ \A k \in Nat : Count(evs, k) \in Nat
      /\ Count(evs, 0) = 0
      /\ \A k \in Nat : Count(evs, k + 1) =
           IF k + 1 \in SavedIn(evs) THEN Count(evs, k) + 1 ELSE Count(evs, k)
      /\ \A i \in SavedIn(evs) : Count(evs, i) \in 1..Count(evs, N)
  BY CountFacts
<1>3. /\ SavedIn(new) \subseteq 1..(N + 1)
      /\ Count(new, 0) = 0
      /\ \A k \in Nat : Count(new, k + 1) =
           IF k + 1 \in SavedIn(new) THEN Count(new, k) + 1 ELSE Count(new, k)
  <2> HIDE DEF new
  <2> QED  BY <1>1, CountFacts
<1> HIDE DEF new
<1>4. /\ \A k \in 1..N : k \in SavedIn(new) <=> k \in SavedIn(evs)
      /\ N + 1 \in SavedIn(new) <=> e.saved
  BY <1>1 DEF SavedIn
<1>5. \A k \in 0..N : Count(new, k) = Count(evs, k)
  <2> DEFINE G == {k \in 0..N : Count(new, k) = Count(evs, k)}
  <2>1. 0 \in G  BY <1>1, <1>2, <1>3
  <2>2. ASSUME NEW k \in 0..(N - 1), k \in G PROVE k + 1 \in G
    <3>1. k \in Nat /\ k + 1 \in 1..N  BY <1>1
    <3>2. Count(new, k) = Count(evs, k)  BY <2>2
    <3>3. Count(new, k + 1) = Count(evs, k + 1)  BY <1>2, <1>3, <1>4, <3>1, <3>2
    <3> QED  BY <1>1, <3>1, <3>3
  <2>3. 0..N \subseteq G
    <3> HIDE DEF G
    <3> QED  BY <1>1, <2>1, <2>2, UpToInduction
  <2> QED  BY <2>3
<1>6. Count(new, N + 1) = IF e.saved THEN Count(evs, N) + 1 ELSE Count(evs, N)
  <2>1. N \in 0..N  BY <1>1
  <2> QED  BY <1>1, <1>3, <1>4, <1>5, <2>1
<1>7. Count(evs, N) <= Len(nodes) /\ Len(nodes) \in Nat
      /\ \A i \in SavedIn(evs) : Alike(evs[i], nodes[Count(evs, i)])
  BY LenProperties DEF Matches
<1>8. ASSUME ~e.saved
      PROVE  Matches(new, nodes) /\ Count(new, Len(new)) = Count(evs, N)
  <2>1. \A i \in SavedIn(new) : i \in SavedIn(evs) /\ i \in 1..N
    <3> SUFFICES ASSUME NEW i \in SavedIn(new) PROVE i \in SavedIn(evs) /\ i \in 1..N  OBVIOUS
    <3>1. i \in 1..(N + 1) /\ i # N + 1  BY <1>3, <1>4, <1>8
    <3>2. i \in 1..N  BY <1>1, <3>1
    <3> QED  BY <1>4, <3>2
  <2>2. \A i \in 1..N : i \in 0..N  BY <1>1
  <2>3. \A i \in SavedIn(new) : Alike(new[i], nodes[Count(new, i)])
    BY <1>1, <1>5, <1>7, <2>1, <2>2
  <2> QED  BY <1>1, <1>6, <1>7, <1>8, <2>3 DEF Matches
<1>9. ASSUME e.saved, Count(evs, N) = Len(nodes)
      PROVE  Matches(new, Append(nodes, x)) /\ Count(new, Len(new)) = Len(Append(nodes, x))
  <2>1. /\ Len(Append(nodes, x)) = Len(nodes) + 1 /\ Append(nodes, x)[Len(nodes) + 1] = x
        /\ \A i \in 1..Len(nodes) : Append(nodes, x)[i] = nodes[i]
    BY AppendProperties
  <2>2. ASSUME NEW i \in SavedIn(new) PROVE Alike(new[i], Append(nodes, x)[Count(new, i)])
    <3>1. CASE i = N + 1
      BY <1>1, <1>6, <1>9, <2>1, <3>1
    <3>2. CASE i # N + 1
      <4>0. i \in 1..(N + 1)  BY <1>3
      <4>1. i \in 1..N /\ i \in 0..N  BY <1>1, <3>2, <4>0
      <4>2. i \in SavedIn(evs) /\ Count(new, i) = Count(evs, i)  BY <1>4, <1>5, <4>1
      <4>3. Count(evs, i) \in 1..Len(nodes)  BY <1>2, <1>9, <4>2
      <4> QED  BY <1>1, <1>7, <2>1, <4>1, <4>2, <4>3
    <3> QED  BY <3>1, <3>2
  <2>3. Count(new, Len(new)) = Len(Append(nodes, x))  BY <1>1, <1>6, <1>9, <2>1
  <2>4. Count(new, Len(new)) <= Len(Append(nodes, x))  BY <1>7, <2>1, <2>3
  <2> QED  BY <2>2, <2>3, <2>4 DEF Matches
<1> QED  BY <1>8, <1>9 DEF new

\* An event leaves the list; when it is saved, its node leaves the file.
LEMMA MatchRemoved ==
  ASSUME NEW E, NEW evs \in Seq(E), NEW i \in DOMAIN evs, evs[i].saved \in BOOLEAN,
         NEW X, NEW nodes \in Seq(X), Matches(evs, nodes)
  PROVE  /\ ~evs[i].saved => /\ Matches(RemoveAt(evs, i), nodes)
                             /\ Count(RemoveAt(evs, i), Len(RemoveAt(evs, i))) = Count(evs, Len(evs))
         /\ evs[i].saved => /\ Count(evs, i) \in DOMAIN nodes
                            /\ Matches(RemoveAt(evs, i), RemoveAt(nodes, Count(evs, i)))
                            /\ Count(RemoveAt(evs, i), Len(RemoveAt(evs, i))) = Count(evs, Len(evs)) - 1
<1> DEFINE new == RemoveAt(evs, i)
           N == Len(evs)
           f(k) == IF k < i THEN k ELSE k + 1
<1>1. /\ N \in Nat /\ i \in 1..N /\ DOMAIN evs = 1..N
      /\ new \in Seq(E) /\ Len(new) = N - 1
      /\ \A k \in 1..(N - 1) : new[k] = IF k < i THEN evs[k] ELSE evs[k + 1]
  BY RemoveFacts
<1> HIDE DEF new
<1>2. /\ SavedIn(evs) \subseteq 1..N
      /\ \A k \in Nat : Count(evs, k) \in Nat
      /\ \A k \in Nat, j \in SavedIn(evs) : k < j => Count(evs, k) < Count(evs, j)
      /\ \A k \in SavedIn(evs) : Count(evs, k) \in 1..Count(evs, N)
      /\ \A k \in Nat : Count(evs, k + 1) =
           IF k + 1 \in SavedIn(evs) THEN Count(evs, k) + 1 ELSE Count(evs, k)
  BY CountFacts
<1>3. SavedIn(new) \subseteq 1..(N - 1)  BY <1>1 DEF SavedIn
<1>4. \A k \in 1..(N - 1) : /\ f(k) \in 1..N /\ f(k) # i /\ new[k] = evs[f(k)]
                            /\ k \in SavedIn(new) <=> f(k) \in SavedIn(evs)
  BY <1>1 DEF SavedIn
<1>5. i \in SavedIn(evs) <=> evs[i].saved  BY <1>1 DEF SavedIn
<1>6. \A k \in 0..(N - 1) :
        Count(new, k) = IF k < i THEN Count(evs, k)
                        ELSE IF i \in SavedIn(evs) THEN Count(evs, k + 1) - 1 ELSE Count(evs, k + 1)
  <2>1. Shifted(SavedIn(evs), SavedIn(new), i, N)  BY <1>1, <1>4 DEF Shifted
  <2>2. CountShifted(SavedIn(evs), SavedIn(new), i, N)
    BY <1>1, <1>2, <1>3, <2>1, CountRemoved
  <2> QED  BY <2>2 DEF Count, CountShifted
<1>7. Count(new, N - 1) = IF i \in SavedIn(evs) THEN Count(evs, N) - 1 ELSE Count(evs, N)
  <2>1. N - 1 \in 0..(N - 1) /\ (N - 1) + 1 = N  BY <1>1
  <2>2. CASE i = N
    <3>1. N - 1 \in Nat /\ N - 1 < i  BY <1>1, <2>2
    <3>2. Count(new, N - 1) = Count(evs, N - 1)  BY <1>6, <2>1, <3>1
    <3>3. Count(evs, N) = IF N \in SavedIn(evs) THEN Count(evs, N - 1) + 1 ELSE Count(evs, N - 1)
      BY <1>2, <2>1, <3>1
    <3>4. Count(evs, N - 1) \in Nat  BY <1>2, <3>1
    <3> QED  BY <2>2, <3>2, <3>3, <3>4
  <2>3. CASE i # N
    <3>1. ~(N - 1 < i)  BY <1>1, <2>3
    <3> QED  BY <1>6, <2>1, <3>1
  <2> QED  BY <2>2, <2>3
<1>8. Count(evs, N) <= Len(nodes) /\ Len(nodes) \in Nat /\ Count(evs, N) \in Nat
      /\ \A k \in SavedIn(evs) : Alike(evs[k], nodes[Count(evs, k)])
  BY <1>1, <1>2, LenProperties DEF Matches
<1>9. ASSUME NEW k \in SavedIn(new)
      PROVE  /\ f(k) \in SavedIn(evs) /\ f(k) # i /\ new[k] = evs[f(k)] /\ f(k) \in Nat
             /\ Count(new, k) = IF f(k) > i /\ i \in SavedIn(evs) THEN Count(evs, f(k)) - 1
                                ELSE Count(evs, f(k))
  <2>1. k \in 1..(N - 1) /\ k \in 0..(N - 1) /\ k \in Nat  BY <1>1, <1>3
  <2>2. f(k) > i <=> ~(k < i)  BY <1>1, <2>1
  <2>3. Count(new, k) = IF k < i THEN Count(evs, f(k))
                        ELSE IF i \in SavedIn(evs) THEN Count(evs, f(k)) - 1 ELSE Count(evs, f(k))
    BY <1>6, <2>1
  <2>4. f(k) \in SavedIn(evs) /\ f(k) # i /\ new[k] = evs[f(k)] /\ f(k) \in Nat  BY <1>1, <1>4, <2>1
  <2> HIDE DEF f
  <2> QED  BY <2>2, <2>3, <2>4
<1> HIDE DEF f
<1>10. ASSUME ~evs[i].saved
       PROVE  Matches(new, nodes) /\ Count(new, Len(new)) = Count(evs, N)
  <2>1. \A k \in SavedIn(new) : Alike(new[k], nodes[Count(new, k)])
    BY <1>5, <1>8, <1>9, <1>10
  <2> QED  BY <1>1, <1>5, <1>7, <1>8, <1>10, <2>1 DEF Matches
<1>11. ASSUME evs[i].saved
       PROVE  /\ Count(evs, i) \in DOMAIN nodes
              /\ Matches(new, RemoveAt(nodes, Count(evs, i)))
              /\ Count(new, Len(new)) = Count(evs, N) - 1
  <2> DEFINE j == Count(evs, i)
             rest == RemoveAt(nodes, j)
  <2>1. i \in SavedIn(evs)  BY <1>5, <1>11
  <2>2. j \in 1..Count(evs, N)  BY <1>2, <2>1
  <2>3. j \in 1..Len(nodes) /\ DOMAIN nodes = 1..Len(nodes)  BY <1>8, <2>2, LenProperties
  <2> HIDE DEF j
  <2>4. /\ Len(rest) = Len(nodes) - 1
        /\ \A n \in 1..(Len(nodes) - 1) : rest[n] = IF n < j THEN nodes[n] ELSE nodes[n + 1]
    BY <2>3, RemoveFacts
  <2> HIDE DEF rest
  <2>5. ASSUME NEW k \in SavedIn(new) PROVE Alike(new[k], rest[Count(new, k)])
    <3> DEFINE m == f(k)
               n == Count(evs, m)
    <3>1. m \in SavedIn(evs) /\ m # i /\ new[k] = evs[m] /\ m \in Nat
          /\ Count(new, k) = IF m > i THEN n - 1 ELSE n
      BY <1>9, <2>1
    <3> HIDE DEF m
    <3>2. Alike(evs[m], nodes[n]) /\ n \in 1..Len(nodes)
      <4>1. n \in 1..Count(evs, N)  BY <1>2, <3>1
      <4> QED  BY <1>8, <3>1, <4>1
    <3>3. (m > i => n > j) /\ (m < i => n < j)
      <4>1. i \in Nat  BY <1>1
      <4> QED  BY <1>2, <2>1, <3>1, <4>1 DEF j
    <3> HIDE DEF n
    <3>4. rest[Count(new, k)] = nodes[n]
      <4>1. CASE m > i
        <5>1. n > j /\ Count(new, k) = n - 1  BY <3>1, <3>3, <4>1
        <5>2. n - 1 \in 1..(Len(nodes) - 1) /\ ~(n - 1 < j) /\ (n - 1) + 1 = n
          BY <1>8, <2>3, <3>2, <5>1
        <5> QED  BY <2>4, <5>1, <5>2
      <4>2. CASE m < i
        <5>1. n < j /\ Count(new, k) = n  BY <1>1, <3>1, <3>3, <4>2
        <5>2. n \in 1..(Len(nodes) - 1)  BY <1>8, <2>3, <3>2, <5>1
        <5> QED  BY <2>4, <5>1, <5>2
      <4> QED  BY <1>1, <3>1, <4>1, <4>2
    <3> QED  BY <3>1, <3>2, <3>4
  <2>6. Count(new, Len(new)) = Count(evs, N) - 1 /\ Count(new, Len(new)) <= Len(rest)
    BY <1>1, <1>7, <1>8, <2>1, <2>4
  <2> QED  BY <2>3, <2>5, <2>6 DEF Matches, j, rest
<1> QED  BY <1>10, <1>11 DEF new

\* The node that cwmp_remove_event deletes is the one of the event.
LEMMA NodeIs ==
  ASSUME NEW E, events \in Seq(E), NEW X, tree.events \in Seq(X), Matches(events, tree.events),
         NEW i \in DOMAIN events, events[i].saved, NEW j \in DOMAIN tree.events, IsNodeOf(j, i)
  PROVE  j = Count(events, i)
<1> DEFINE N == Len(events)
           nodes == tree.events
           e == events[i]
           j0 == Count(events, i)
           A == {k \in 1..N : events[k].saved /\ Alike(events[k], e)}
           T == {n \in 1..Len(nodes) : Alike(nodes[n], e)}
<1>1. /\ N \in Nat /\ DOMAIN events = 1..N /\ i \in 1..N
      /\ Len(nodes) \in Nat /\ DOMAIN nodes = 1..Len(nodes) /\ j \in 1..Len(nodes)
  BY LenProperties
<1>2. /\ \A k \in Nat : Count(events, k) \in Nat /\ Count(events, k) <= Count(events, N)
      /\ Count(events, 0) = 0
      /\ \A k \in Nat : Count(events, k + 1) =
           IF k + 1 \in SavedIn(events) THEN Count(events, k) + 1 ELSE Count(events, k)
      /\ \A k \in SavedIn(events) : Count(events, k) \in 1..Count(events, N)
  BY CountFacts
<1>3. Count(events, N) <= Len(nodes)
      /\ \A k \in SavedIn(events) : Alike(events[k], nodes[Count(events, k)])
  BY DEF Matches
<1>4. \A k \in 1..N : k \in SavedIn(events) <=> events[k].saved  BY DEF SavedIn
<1>5. i \in SavedIn(events) /\ j0 \in T
  <2>1. i \in SavedIn(events)  BY <1>1, <1>4
  <2>2. j0 \in 1..Count(events, N) /\ Alike(e, nodes[j0]) /\ Count(events, N) \in Nat
    BY <1>1, <1>2, <1>3, <2>1
  <2>3. j0 \in 1..Len(nodes)
    <3> HIDE DEF j0
    <3> QED  BY <1>1, <1>3, <2>2
  <2> QED  BY <2>1, <2>2, <2>3 DEF Alike
<1>6. j \in T  BY <1>1 DEF IsNodeOf
<1>7. Cardinality(UpTo(T, j)) = Cardinality(UpTo(A, i))
  <2>1. Rank(nodes, j, e) = SavedRank(i)  BY DEF IsNodeOf
  <2>2. {k \in 1..j : Alike(nodes[k], e)} = UpTo(T, j)  BY <1>1 DEF UpTo
  <2>3. {k \in 1..i : events[k].saved /\ Alike(events[k], e)} = UpTo(A, i)  BY <1>1 DEF UpTo
  <2> QED  BY <2>1, <2>2, <2>3 DEF Rank, SavedRank
<1>8. A \subseteq 1..N /\ T \subseteq 1..Len(nodes)  OBVIOUS
<1>9. Counts(A) /\ Counts(T)
  <2> HIDE DEF A, T
  <2> QED  BY <1>1, <1>8, UpToCounts
<1>10. ASSUME NEW k \in 0..(N - 1),
              Cardinality(UpTo(A, k)) = Cardinality(UpTo(T, Count(events, k)))
       PROVE  Cardinality(UpTo(A, k + 1)) = Cardinality(UpTo(T, Count(events, k + 1)))
  <2> DEFINE n == Count(events, k)
  <2>0. k \in Nat /\ k + 1 \in 1..N  BY <1>1
  <2>1. k \in Nat /\ k + 1 \in 1..N /\ n \in Nat  BY <1>2, <2>0
  <2>2. Cardinality(UpTo(A, k + 1)) =
          IF k + 1 \in A THEN Cardinality(UpTo(A, k)) + 1 ELSE Cardinality(UpTo(A, k))
    <3> HIDE DEF A
    <3> QED  BY <1>9, <2>1 DEF Counts
  <2>3. CASE k + 1 \in SavedIn(events)
    <3>1. Count(events, k + 1) = n + 1 /\ Alike(events[k + 1], nodes[n + 1])
      BY <1>2, <1>3, <2>1, <2>3
    <3>2. n + 1 \in 1..Len(nodes)
      <4>1. Count(events, k + 1) \in 1..Count(events, N) /\ Count(events, N) \in Nat
        BY <1>1, <1>2, <2>3
      <4> HIDE DEF n
      <4> QED  BY <1>1, <1>3, <2>1, <3>1, <4>1
    <3>3. k + 1 \in A <=> n + 1 \in T
      <4>1. k + 1 \in A <=> Alike(events[k + 1], e)  BY <1>4, <2>1, <2>3
      <4>2. n + 1 \in T <=> Alike(nodes[n + 1], e)
        <5> HIDE DEF n
        <5> QED  BY <3>2
      <4> QED  BY <3>1, <4>1, <4>2 DEF Alike
    <3>4. Cardinality(UpTo(T, n + 1)) =
            IF n + 1 \in T THEN Cardinality(UpTo(T, n)) + 1 ELSE Cardinality(UpTo(T, n))
      <4> HIDE DEF T, n
      <4> QED  BY <1>9, <2>1 DEF Counts
    <3> HIDE DEF A, T
    <3> QED  BY <1>10, <2>2, <3>1, <3>3, <3>4
  <2>4. CASE k + 1 \notin SavedIn(events)
    <3>1. Count(events, k + 1) = n  BY <1>2, <2>1, <2>4
    <3>2. k + 1 \notin A  BY <1>4, <2>1, <2>4
    <3> HIDE DEF A, T
    <3> QED  BY <1>10, <2>2, <3>1, <3>2
  <2> QED  BY <2>3, <2>4
<1> DEFINE G == {k \in 0..N : Cardinality(UpTo(A, k)) = Cardinality(UpTo(T, Count(events, k)))}
<1>11. 0..N \subseteq G
  <2> HIDE DEF A, T
  <2>1. 0 \in G  BY <1>1, <1>2, <1>9 DEF Counts
  <2>2. ASSUME NEW k \in 0..(N - 1), k \in G PROVE k + 1 \in G
    <3>1. Cardinality(UpTo(A, k)) = Cardinality(UpTo(T, Count(events, k)))  BY <2>2
    <3>2. k + 1 \in 0..N  BY <1>1
    <3> QED  BY <1>10, <3>1, <3>2
  <2> HIDE DEF G
  <2> QED  BY <1>1, <2>1, <2>2, UpToInduction
<1>12. Cardinality(UpTo(A, i)) = Cardinality(UpTo(T, j0))
  <2>1. i \in 0..N  BY <1>1
  <2> HIDE DEF A, T
  <2> QED  BY <1>11, <2>1
<1>13. \A m \in T : Nth(T, Cardinality(UpTo(T, m))) = m
  <2> HIDE DEF T
  <2> QED  BY <1>1, <1>8, NthFacts
<1> QED
  <2> HIDE DEF T, A, j0
  <2>1. j = j0  BY <1>5, <1>6, <1>7, <1>12, <1>13
  <2> QED  BY <2>1 DEF j0

\* A file without a double single event is read event by event.
LEMMA LoadMatches ==
  ASSUME NEW nodes \in Seq(GoodNode), SinglesOnce(nodes)
  PROVE  /\ Matches(LoadEvents(nodes), nodes)
         /\ Count(LoadEvents(nodes), Len(LoadEvents(nodes))) = Len(nodes)
<1> DEFINE evs == LoadEvents(nodes)
           N == Len(nodes)
<1>1. N \in Nat /\ DOMAIN nodes = 1..N  BY LenProperties
<1>2. Kept(nodes) = 1..N
  <2>1. \A i \in 1..N : \A j \in 1..(i - 1) : j \in 1..N /\ i # j  BY <1>1
  <2>2. \A i \in 1..N : i \in Kept(nodes)  BY <1>1, <2>1 DEF Kept, SinglesOnce
  <2> QED  BY <1>1, <2>2 DEF Kept
<1>3. \A i \in 0..N : UpTo(1..N, i) = 1..i /\ Cardinality(1..i) = i
  <2> SUFFICES ASSUME NEW i \in 0..N PROVE UpTo(1..N, i) = 1..i /\ Cardinality(1..i) = i
    OBVIOUS
  <2>1. UpTo(1..N, i) = 1..i  BY <1>1 DEF UpTo
  <2>2. Cardinality(1..i) = IF 1 > i THEN 0 ELSE i - 1 + 1  BY FS_Interval
  <2>3. (IF 1 > i THEN 0 ELSE i - 1 + 1) = i  BY <1>1
  <2> QED  BY <2>1, <2>2, <2>3
<1>4. /\ evs \in Seq(GoodEvent)
      /\ \A n \in DOMAIN evs : \E i \in 1..N : evs[n] = Loaded(nodes, i)
                                             /\ n = Cardinality(UpTo(1..N, i))
  BY <1>2, LoadFacts
<1>5. DOMAIN evs = 1..N
  <2>1. DOMAIN evs = 1..Cardinality(1..N)  BY <1>2 DEF LoadEvents
  <2>2. N \in 0..N  BY <1>1
  <2> QED  BY <1>3, <2>1, <2>2
<1> HIDE DEF evs
<1>6. \A n \in 1..N : evs[n] = Loaded(nodes, n)
  <2> SUFFICES ASSUME NEW n \in 1..N PROVE evs[n] = Loaded(nodes, n)  OBVIOUS
  <2>1. PICK i \in 1..N : evs[n] = Loaded(nodes, i) /\ n = Cardinality(UpTo(1..N, i))
    BY <1>4, <1>5
  <2>2. i \in 0..N  BY <1>1
  <2>3. n = i  BY <1>3, <2>1, <2>2
  <2> QED  BY <2>1, <2>3
<1>7. Len(evs) = N
  <2>1. Len(evs) \in Nat /\ DOMAIN evs = 1..Len(evs)  BY <1>4, LenProperties
  <2> QED  BY <1>1, <1>5, <2>1
<1>8. SavedIn(evs) = 1..N
  <2>1. \A n \in 1..N : evs[n].saved
    <3> SUFFICES ASSUME NEW n \in 1..N PROVE evs[n].saved  OBVIOUS
    <3>1. evs[n] = Loaded(nodes, n)  BY <1>6
    <3>2. Loaded(nodes, n).saved = TRUE  BY DEF Loaded
    <3> QED  BY <3>1, <3>2
  <2>2. \A n \in SavedIn(evs) : n \in 1..N  BY <1>7 DEF SavedIn
  <2>3. \A n \in 1..N : n \in SavedIn(evs)  BY <1>7, <2>1 DEF SavedIn
  <2> QED  BY <2>2, <2>3
<1>9. \A n \in 0..N : Count(evs, n) = n  BY <1>3, <1>8 DEF Count
<1>10. \A n \in 1..N : Alike(evs[n], nodes[n])
  <2>1. \A n \in 1..N : evs[n].code = nodes[n].code /\ evs[n].key = nodes[n].key
    <3> SUFFICES ASSUME NEW n \in 1..N
                 PROVE  evs[n].code = nodes[n].code /\ evs[n].key = nodes[n].key
      OBVIOUS
    <3>1. evs[n] = [code |-> nodes[n].code, key |-> nodes[n].key,
                    id |-> LoadedId(nodes, n), saved |-> TRUE]
      BY <1>6 DEF Loaded
    <3> QED  BY <3>1
  <2> QED  BY <2>1 DEF Alike
<1>11. \A n \in 1..N : n \in 0..N  BY <1>1
<1>12. N \in 0..N  BY <1>1
<1> QED  BY <1>1, <1>7, <1>8, <1>9, <1>10, <1>11, <1>12 DEF Matches, evs

\* The single nodes stay single.
LEMMA SingleNodeRemoved ==
  ASSUME NEW X, NEW nodes \in Seq(X), NEW j \in DOMAIN nodes, SinglesOnce(nodes)
  PROVE  SinglesOnce(RemoveAt(nodes, j))
<1> DEFINE new == RemoveAt(nodes, j)
           f(q) == IF q < j THEN q ELSE q + 1
<1>1. /\ Len(nodes) \in Nat /\ j \in 1..Len(nodes) /\ DOMAIN nodes = 1..Len(nodes)
      /\ DOMAIN new = 1..(Len(nodes) - 1)
      /\ \A k \in 1..(Len(nodes) - 1) : new[k] = IF k < j THEN nodes[k] ELSE nodes[k + 1]
  BY RemoveFacts
<1> HIDE DEF new
<1>2. /\ \A k \in 1..(Len(nodes) - 1) : f(k) \in 1..Len(nodes) /\ new[k] = nodes[f(k)]
      /\ \A k, l \in 1..(Len(nodes) - 1) : f(k) = f(l) => k = l
  BY <1>1
<1> HIDE DEF f
<1>3. SinglesOnce(new)  BY <1>1, <1>2 DEF SinglesOnce
<1> QED  BY <1>3 DEF new

LEMMA SingleNodeAdded ==
  ASSUME NEW X, NEW nodes \in Seq(X), NEW x \in X, SinglesOnce(nodes),
         x.code \in Multiple \/ ~Has(nodes, x.code)
  PROVE  SinglesOnce(Append(nodes, x))
<1> DEFINE new == Append(nodes, x)
           N == Len(nodes)
<1>1. /\ N \in Nat /\ DOMAIN nodes = 1..N /\ DOMAIN new = 1..(N + 1)
      /\ \A i \in 1..N : new[i] = nodes[i]
      /\ new[N + 1] = x
  BY AppendElems
<1> HIDE DEF new
<1>2. \A i, j \in 1..N : nodes[i].code = nodes[j].code /\ nodes[i].code \notin Multiple => i = j
  BY <1>1 DEF SinglesOnce
<1>3. x.code \in Multiple \/ \A i \in 1..N : nodes[i].code # x.code  BY <1>1 DEF Has
<1>4. SinglesOnce(new)
  <2> SUFFICES ASSUME NEW i \in 1..(N + 1), NEW j \in 1..(N + 1),
                      new[i].code = new[j].code, new[i].code \notin Multiple
               PROVE  i = j
    BY <1>1 DEF SinglesOnce
  <2>1. CASE i \in 1..N /\ j \in 1..N  BY <1>1, <1>2, <2>1
  <2>2. CASE i = N + 1 /\ j \in 1..N  BY <1>1, <1>3, <2>2
  <2>3. CASE j = N + 1 /\ i \in 1..N  BY <1>1, <1>3, <2>3
  <2> QED  BY <1>1, <2>1, <2>2, <2>3
<1> QED  BY <1>4 DEF new

\* A code that is not in the list is not in a file that matches it.
LEMMA HasNode ==
  ASSUME NEW E, NEW evs \in Seq(E), NEW X, NEW nodes \in Seq(X), Matches(evs, nodes),
         Count(evs, Len(evs)) = Len(nodes), NEW c, Has(nodes, c)
  PROVE  Has(evs, c)
<1>1. Len(nodes) \in Nat /\ DOMAIN nodes = 1..Len(nodes)  BY LenProperties
<1>2. PICK n \in 1..Len(nodes) : nodes[n].code = c  BY <1>1 DEF Has
<1>3. /\ SavedIn(evs) \subseteq 1..Len(evs) /\ DOMAIN evs = 1..Len(evs)
      /\ \A m \in 1..Count(evs, Len(evs)) : \E i \in SavedIn(evs) : Count(evs, i) = m
  BY CountFacts
<1>4. PICK i \in SavedIn(evs) : Count(evs, i) = n  BY <1>2, <1>3
<1>5. evs[i].code = c  BY <1>2, <1>4 DEF Matches, Alike
<1> QED  BY <1>3, <1>4, <1>5 DEF Has

LEMMA EmptyMatches == Matches(<<>>, <<>>) /\ Count(<<>>, Len(<<>>)) = Len(<<>>) /\ SinglesOnce(<<>>)
<1>1. <<>> \in Seq({}) /\ Len(<<>>) = 0 /\ DOMAIN <<>> = {}  BY EmptySeq, LenProperties
<1>2. SavedIn(<<>>) = {} /\ Count(<<>>, 0) = 0
  <2>1. SavedIn(<<>>) \subseteq 1..Len(<<>>) /\ Count(<<>>, 0) = 0  BY <1>1, CountFacts
  <2> QED  BY <1>1, <2>1
<1> QED  BY <1>1, <1>2 DEF Matches, SinglesOnce

\* A saved event is added outside a session.
LEMMA FileAdded ==
  ASSUME AllInv, FileInv, NEW c \in Codes \ NoRetry, NEW k \in Keys, NEW n \in Nat,
         c \in Methods => n # 0, AddSaved(c, k, n),
         pc # "down", pc \notin InSession, pc' \notin InSession, ends' = ends
  PROVE  FileInv'
<1> DEFINE e == [code |-> c, key |-> k, id |-> n, saved |-> TRUE]
           x == [code |-> c, key |-> k, id |-> n]
<1>1. LedgerTypes /\ EventInv /\ events \in Seq(GoodEvent) /\ tree.events \in Seq(GoodNode)
  BY DEF AllInv, LedgerInv, EventInv
<1>2. /\ ends' = {} /\ "reboot" \notin ends /\ SinglesOnce(tree.events)
      /\ Matches(events, tree.events) /\ Count(events, Len(events)) = Len(tree.events)
  BY DEF FileInv
<1>3. \/ UNCHANGED <<events, tree>>
      \/ /\ c \in Multiple \/ ~Has(events, c)
         /\ events' = Append(events, e) /\ tree'.events = Append(tree.events, x)
  BY <1>1, AddSavedEffect
<1>4. e \in GoodEvent /\ x \in GoodNode  BY DEF GoodEvent, GoodNode, Event, Node
<1>5. e.saved = TRUE /\ x.code = c /\ Alike(e, x)  BY DEF Alike
<1> HIDE DEF e, x
<1>6. CASE UNCHANGED <<events, tree>>
  BY <1>2, <1>6 DEF FileInv
<1>7. CASE /\ c \in Multiple \/ ~Has(events, c)
           /\ events' = Append(events, e) /\ tree'.events = Append(tree.events, x)
  <2>1. c \in Multiple \/ ~Has(tree.events, c)  BY <1>1, <1>2, <1>7, HasNode
  <2>2. SinglesOnce(Append(tree.events, x))
    BY <1>1, <1>2, <1>4, <1>5, <2>1, SingleNodeAdded
  <2>3. /\ Matches(Append(events, e), Append(tree.events, x))
        /\ Count(Append(events, e), Len(Append(events, e))) = Len(Append(tree.events, x))
    <3>1. e.saved \in BOOLEAN  BY <1>5
    <3> QED  BY <1>1, <1>2, <1>4, <1>5, <3>1, MatchAdded
  <2>4. SinglesOnce(tree'.events)  BY <1>7, <2>2
  <2>5. Matches(events', tree'.events) /\ Count(events', Len(events')) = Len(tree'.events)
    BY <1>7, <2>3
  <2> QED  BY <1>2, <2>4, <2>5 DEF FileInv
<1> QED  BY <1>3, <1>6, <1>7

\* An event that is not saved is added.
LEMMA FileUntouched ==
  ASSUME AllInv, FileInv, NEW c \in Unsaved, events' = AddEvent(events, c, None, 0, FALSE),
         tree' = tree, pc # "down", pc' \notin InSession => ends' = {}, ends' = ends
  PROVE  FileInv'
<1> DEFINE e == [code |-> c, key |-> None, id |-> 0, saved |-> FALSE]
           x == [code |-> c, key |-> None]
<1>1. events \in Seq(GoodEvent) /\ tree.events \in Seq(GoodNode)  BY DEF AllInv, EventInv
<1>2. /\ SinglesOnce(tree.events) /\ Matches(events, tree.events)
      /\ "reboot" \notin ends => Count(events, Len(events)) = Len(tree.events)
  BY DEF FileInv
<1>3. events' = events \/ events' = Append(events, e)  BY DEF AddEvent
<1>4. e \in GoodEvent
  BY DEF GoodEvent, Event, Unsaved, Codes, AfterInform, Keys, Methods
<1>5. e.saved = FALSE /\ Alike(e, x)  BY DEF Alike
<1> HIDE DEF e, x
<1>6. CASE events' = events  BY <1>2, <1>6 DEF FileInv
<1>7. CASE events' = Append(events, e)
  <2>1. /\ Matches(Append(events, e), tree.events)
        /\ Count(Append(events, e), Len(Append(events, e))) = Count(events, Len(events))
    <3>1. e.saved \in BOOLEAN  BY <1>5
    <3>2. tree.events \in Seq(GoodNode \cup {x}) /\ x \in GoodNode \cup {x}
      BY <1>1, LenProperties
    <3> QED  BY <1>1, <1>2, <1>4, <1>5, <3>1, <3>2, MatchAdded
  <2>2. Matches(events', tree'.events) /\ Count(events', Len(events')) = Count(events, Len(events))
    BY <1>7, <2>1
  <2> QED  BY <1>2, <2>2 DEF FileInv
<1> QED  BY <1>3, <1>6, <1>7

\* An event is removed, its node with it.
LEMMA FileRemoved ==
  ASSUME AllInv, FileInv, NEW policy, NEW n, RemoveEvent(policy, n),
         pc # "down", pc' = pc, ends' = ends
  PROVE  FileInv'
<1>1. LedgerTypes /\ EventInv /\ events \in Seq(GoodEvent) /\ tree.events \in Seq(GoodNode)
  BY DEF AllInv, LedgerInv, EventInv
<1>2. /\ SinglesOnce(tree.events) /\ Matches(events, tree.events)
      /\ "reboot" \notin ends => Count(events, Len(events)) = Len(tree.events)
  BY DEF FileInv
<1>3. PICK i \in DOMAIN events :
        /\ events' = RemoveAt(events, i)
        /\ \/ ~events[i].saved /\ tree' = tree
           \/ /\ events[i].saved
              /\ \E j \in DOMAIN tree.events :
                   /\ IsNodeOf(j, i) /\ tree'.events = RemoveAt(tree.events, j)
  BY <1>1, RemoveEventEffect
<1>4. events[i].saved \in BOOLEAN
  <2>1. events[i] \in GoodEvent  BY <1>1, LenProperties
  <2> QED  BY <2>1 DEF GoodEvent, Event
<1>5. CASE ~events[i].saved /\ tree' = tree
  <2>1. /\ Matches(RemoveAt(events, i), tree.events)
        /\ Count(RemoveAt(events, i), Len(RemoveAt(events, i))) = Count(events, Len(events))
    BY <1>1, <1>2, <1>4, <1>5, MatchRemoved
  <2>2. Matches(events', tree'.events) /\ Count(events', Len(events')) = Count(events, Len(events))
    BY <1>3, <1>5, <2>1
  <2> QED  BY <1>2, <1>5, <2>2 DEF FileInv
<1>6. CASE events[i].saved
  <2>1. PICK j \in DOMAIN tree.events : IsNodeOf(j, i) /\ tree'.events = RemoveAt(tree.events, j)
    BY <1>3, <1>6
  <2>2. j = Count(events, i)  BY <1>1, <1>2, <1>6, <2>1, NodeIs
  <2>3. /\ Matches(RemoveAt(events, i), RemoveAt(tree.events, j))
        /\ Count(RemoveAt(events, i), Len(RemoveAt(events, i))) = Count(events, Len(events)) - 1
    BY <1>1, <1>2, <1>4, <1>6, <2>2, MatchRemoved
  <2>4. Len(RemoveAt(tree.events, j)) = Len(tree.events) - 1  BY <1>1, RemoveFacts
  <2>5. SinglesOnce(RemoveAt(tree.events, j))  BY <1>1, <1>2, SingleNodeRemoved
  <2>6. Matches(events', tree'.events) /\ SinglesOnce(tree'.events)  BY <1>3, <2>1, <2>3, <2>5
  <2>7. "reboot" \notin ends => Count(events', Len(events')) = Len(tree'.events)
    BY <1>2, <1>3, <2>1, <2>3, <2>4
  <2> QED  BY <1>2, <2>6, <2>7 DEF FileInv
<1>7. events[i].saved \/ (~events[i].saved /\ tree' = tree)  BY <1>3
<1> QED  BY <1>5, <1>6, <1>7

LEMMA FileStep ==
  ASSUME AllInv, FileInv, [Next]_vars
  PROVE  FileInv'
<1>0. LedgerInv /\ LedgerTypes /\ EventInv /\ cur \in Keys
      /\ events \in Seq(GoodEvent) /\ tree.events \in Seq(GoodNode)
      /\ (pc \in {"event", "method"} => methodId # 0)
  BY DEF AllInv, LedgerInv, FlagTypes, EventInv
<1>1. ASSUME Still, pc # "down", pc' \notin InSession => ends' = {},
             "reboot" \in ends => "reboot" \in ends'
      PROVE  FileInv'
  BY <1>1 DEF Still, FileInv
<1>2. ASSUME pc' = "down", ends' = {}, tree' = tree \/ tree'.events = <<>>
      PROVE  FileInv'
  <2>1. SinglesOnce(tree'.events)
    <3>1. CASE tree' = tree  BY <3>1 DEF FileInv
    <3>2. CASE tree'.events = <<>>  BY <3>2, EmptyMatches
    <3> QED  BY <1>2, <3>1, <3>2
  <2> QED  BY <1>2, <2>1 DEF FileInv
<1>3. CASE UNCHANGED vars \/ ChangeUrl
  <2>1. events' = events /\ tree' = tree /\ pc' = pc /\ ends' = ends
    BY <1>3 DEF vars, ChangeUrl, ctl, mem, sess
  <2> QED  BY <2>1 DEF FileInv
<1>4. CASE Start
  <2>1. events' = LoadEvents(tree.events) /\ tree' = tree /\ ends' = ends /\ pc' = "config" /\ pc = "down"
    BY <1>4 DEF Start, sess
  <2>2. SinglesOnce(tree.events) /\ ends = {}
    BY <2>1 DEF FileInv, InSession, Answered
  <2>3. Matches(events', tree'.events) /\ Count(events', Len(events')) = Len(tree'.events)
    BY <1>0, <2>1, <2>2, LoadMatches
  <2> QED  BY <2>1, <2>2, <2>3 DEF FileInv
<1>5. CASE CheckAcsUrl /\ ~SavedUrl
  <2>1. events' = <<>> /\ tree'.events = <<>> /\ ends' = {}
    BY <1>5 DEF CheckAcsUrl, EmptyTree
  <2>2. SinglesOnce(tree'.events)  BY <2>1, EmptyMatches
  <2>3. Matches(events', tree'.events) /\ Count(events', Len(events')) = Len(tree'.events)
    BY <2>1, EmptyMatches
  <2> QED  BY <2>1, <2>2, <2>3 DEF FileInv
<1>6. CASE \/ Bootstrap \/ Started \/ PeriodicInform \/ ScheduledMethod
           \/ \E s \in Schedules : ScheduledInform(s)
           \/ AddTransferEvent \/ AddMethodEvent
  <2>1. PICK c \in Codes \ NoRetry, k \in Keys, n \in Nat :
          AddSaved(c, k, n) /\ (c \in Methods => n # 0)
    BY <1>0, <1>6, SavingSteps
  <2>2. ends' = ends /\ pc # "down" /\ pc \notin InSession /\ pc' \notin InSession
    BY <1>6 DEF Bootstrap, Started, PeriodicInform, ScheduledMethod, ScheduledInform,
                AddTransferEvent, AddMethodEvent, sess, ctl, InSession, Answered
  <2> QED  BY <2>1, <2>2, FileAdded
<1>7. CASE (\E c \in Unsaved : AddUnsaved(c)) \/ PassiveNotification
           \/ (CheckVersion /\ events' # events)
  <2>1. PICK c \in Unsaved : events' = AddEvent(events, c, None, 0, FALSE) /\ tree' = tree
    BY <1>0, <1>7, UnsavedSteps
  <2>2. ends' = ends /\ pc # "down" /\ pc \notin InSession
    BY <1>7 DEF AddUnsaved, PassiveNotification, CheckVersion, sess, InSession, Answered
  <2>3. ends' = {}  BY <2>2 DEF FileInv
  <2> QED  BY <2>1, <2>2, <2>3, FileUntouched
<1>8. CASE CheckVersion /\ events' = events
  <2>1. tree' = tree /\ ends' = ends /\ pc # "down" /\ pc \notin InSession
    BY <1>8 DEF CheckVersion, sess, InSession, Answered
  <2>2. ends' = {}  BY <2>1 DEF FileInv
  <2> QED  BY <1>1, <1>8, <2>1, <2>2 DEF Still
<1>9. CASE ClearInformed \/ ClearReported
  <2>1. /\ ends' = ends /\ pc \in {"clear", "cleartc"}
        /\ \/ pc' = pc /\ RemoveEvent(AfterInform, 0)
           \/ pc' = pc /\ RemoveEvent(AfterTransferComplete, ackId)
           \/ pc' \in {"cleartc", "tc"} /\ events' = events /\ tree' = tree
    BY <1>9 DEF ClearInformed, ClearReported, sess
  <2>2. CASE pc' = pc /\ RemoveEvent(AfterInform, 0)  BY <2>1, <2>2, FileRemoved
  <2>3. CASE pc' = pc /\ RemoveEvent(AfterTransferComplete, ackId)  BY <2>1, <2>3, FileRemoved
  <2>4. CASE pc' \in {"cleartc", "tc"} /\ events' = events /\ tree' = tree
    <3>1. pc' \in InSession  BY <2>4 DEF InSession, Answered
    <3> QED  BY <1>1, <2>1, <2>4, <3>1 DEF Still
  <2> QED  BY <2>1, <2>2, <2>3, <2>4
<1>10. CASE Ended
  <2> DEFINE i == FirstOf(NoRetry, 0)
  <2>1. /\ tree' = tree /\ ends' = ends /\ pc = "ended"
        /\ \/ events' = events
           \/ i # 0 /\ events' = RemoveAt(events, i)
    BY <1>10 DEF Ended
  <2>2. ends' = {}  BY <2>1 DEF FileInv, InSession, Answered
  <2>3. CASE events' = events  BY <1>1, <2>1, <2>2, <2>3 DEF Still
  <2>4. CASE i # 0 /\ events' = RemoveAt(events, i)
    <3>1. i \in DOMAIN events /\ events[i].code \in NoRetry  BY <1>0, <2>4, FirstOfFacts
    <3> HIDE DEF i
    <3>2. events[i] \in GoodEvent  BY <1>0, <3>1, LenProperties
    <3>3. ~events[i].saved /\ events[i].saved \in BOOLEAN  BY <3>1, <3>2 DEF GoodEvent, Event
    <3>4. /\ SinglesOnce(tree.events) /\ Matches(events, tree.events)
          /\ Count(events, Len(events)) = Len(tree.events)
      BY <2>1, <2>2 DEF FileInv
    <3>5. /\ Matches(RemoveAt(events, i), tree.events)
          /\ Count(RemoveAt(events, i), Len(RemoveAt(events, i))) = Count(events, Len(events))
      BY <1>0, <3>1, <3>3, <3>4, MatchRemoved
    <3>6. Matches(events', tree'.events) /\ Count(events', Len(events')) = Len(tree'.events)
      BY <2>1, <2>4, <3>4, <3>5
    <3> QED  BY <2>1, <2>2, <3>4, <3>6 DEF FileInv
  <2> QED  BY <2>1, <2>3, <2>4
<1>11. CASE HandleReboot
  <2> DEFINE x == [code |-> "M_REBOOT", key |-> None, id |-> 0]
  <2>1. /\ pc = "msgs" /\ pc' = "msgs" /\ events' = events /\ "reboot" \in ends'
        /\ tree'.events = Append(tree.events, x)
    BY <1>0, <1>11 DEF HandleReboot, ctl, mem, LedgerTypes
  <2>2. x \in GoodNode /\ x.code \in Multiple
    BY DEF GoodNode, Node, Codes, AfterInform, NoRetry, Methods, Keys, Multiple
  <2> HIDE DEF x
  <2>3. SinglesOnce(tree.events) /\ Matches(events, tree.events)  BY <2>1 DEF FileInv
  <2>4. SinglesOnce(Append(tree.events, x))  BY <1>0, <2>2, <2>3, SingleNodeAdded
  <2>5. Matches(events, Append(tree.events, x))
    <3>1. /\ Len(tree.events) \in Nat /\ Len(Append(tree.events, x)) = Len(tree.events) + 1
          /\ \A i \in 1..Len(tree.events) : Append(tree.events, x)[i] = tree.events[i]
      BY <1>0, <2>2, AppendProperties, LenProperties
    <3>2. /\ \A i \in SavedIn(events) : Count(events, i) \in 1..Count(events, Len(events))
          /\ Len(events) \in Nat /\ Count(events, Len(events)) \in Nat
      BY <1>0, CountFacts
    <3>3. \A i \in SavedIn(events) : Count(events, i) \in 1..Len(tree.events)
      BY <2>3, <3>1, <3>2 DEF Matches
    <3> QED  BY <2>3, <3>1, <3>2, <3>3 DEF Matches
  <2>6. SinglesOnce(tree'.events)  BY <2>1, <2>4
  <2>7. Matches(events', tree'.events)  BY <2>1, <2>5
  <2>8. pc' \in InSession  BY <2>1 DEF InSession, Answered
  <2> QED  BY <2>1, <2>6, <2>7, <2>8 DEF FileInv
<1>12. CASE Crash \/ TornSave
  <2>1. pc' = "down" /\ ends' = {} /\ (tree' = tree \/ tree'.events = <<>>)
    BY <1>12 DEF Crash, TornSave, Exit, EmptyTree
  <2> QED  BY <1>2, <2>1
<1>13. CASE Applied \/ HandleEndSession
  <2>1. \/ pc' = "down" /\ ends' = {} /\ (tree' = tree \/ tree'.events = <<>>)
        \/ /\ pc \in {"apply", "end"} /\ Still
           /\ \/ pc = "apply" /\ ends' = ends
              \/ ends \subseteq {"reload"} /\ ends' = {}
    BY <1>13 DEF Applied, HandleEndSession, Exit, mem, sess, Still, EmptyTree
  <2>2. pc = "apply" => ends = {}  BY DEF FileInv, InSession, Answered
  <2> QED  BY <1>1, <1>2, <2>1, <2>2
<1>14. CASE \/ (CheckAcsUrl /\ SavedUrl) \/ Reload
            \/ \E t \in Transfers : Launch(t)
            \/ RunScript \/ RemoveTransfer \/ AddTransferComplete \/ RemoveTransferComplete
            \/ \E timer \in {"inform", "retry"} : DoInform(timer)
            \/ Fail \/ SendInform \/ SendTransferComplete \/ SendGetRpcMethods
            \/ GetRpcMethodsAnswered \/ \E t \in Transfers : HandleTransfer(t)
            \/ HandleFactoryReset \/ \E s \in Schedules : HandleScheduleInform(s)
            \/ HandleSetParameter \/ EmptyMessage
  <2>1. Still  BY <1>0, <1>14, StillSteps
  <2>2. /\ pc # "down" /\ (pc \in InSession => pc' \in InSession)
        /\ \/ ends' = ends
           \/ pc \in InSession /\ \E what \in {"factory", "reload"} : ends' = ends \cup {what}
    BY <1>14 DEF CheckAcsUrl, Reload, Launch, RemoveTransfer, AddTransferComplete, DoInform, Fail,
                 SendInform, SendTransferComplete, SendGetRpcMethods, GetRpcMethodsAnswered,
                 HandleTransfer, HandleFactoryReset, HandleScheduleInform, HandleSetParameter,
                 EmptyMessage, RunScript, RemoveTransferComplete, InSession, Answered, sess, ctl
  <2>3. pc' \notin InSession => ends' = {}  BY <2>2 DEF FileInv
  <2>4. "reboot" \in ends => "reboot" \in ends'  BY <2>2
  <2> QED  BY <1>1, <2>1, <2>2, <2>3, <2>4
<1> QED
  BY <1>3, <1>4, <1>5, <1>6, <1>7, <1>8, <1>9, <1>10, <1>11, <1>12, <1>13, <1>14
     DEF Next, Session, Running, Request, Stimulus, Timer

\* The file an idle daemon keeps has a node for every saved event of the list,
\* in the same order, and no other, whatever crashes, restarts, removals and
\* failed sessions came before: a node that cwmp_remove_event deletes is the
\* node of the event it removes (cwmp_add_event, cwmp_remove_event, cwmp.c
\* 613-658; backup_load_event, backup.c 629-715).
THEOREM FileKept == Spec => []FileMatchesList
<1>1. Init => FileInv
  BY EmptyMatches DEF Init, FileInv, EmptyTree
<1>2. AllInv /\ FileInv /\ [Next]_vars => FileInv'  BY FileStep
<1>3. AllInv /\ FileInv => FileMatchesList
  <2> SUFFICES ASSUME AllInv, FileInv, pc = "idle"
               PROVE  /\ SavedUpTo(Len(events)) = Len(tree.events)
                      /\ \A i \in DOMAIN events :
                           events[i].saved => Alike(events[i], tree.events[SavedUpTo(i)])
    BY DEF FileMatchesList
  <2>1. events \in Seq(GoodEvent)  BY DEF AllInv, EventInv
  <2>2. Len(events) \in Nat /\ DOMAIN events = 1..Len(events)  BY <2>1, LenProperties
  <2>3. \A i \in 0..Len(events) : SavedUpTo(i) = Count(events, i)
    <3> SUFFICES ASSUME NEW i \in 0..Len(events)
                 PROVE  {k \in 1..i : events[k].saved} = UpTo(SavedIn(events), i)
      BY DEF SavedUpTo, Count
    <3> QED  BY <2>2 DEF UpTo, SavedIn
  <2>4. /\ Matches(events, tree.events) /\ Count(events, Len(events)) = Len(tree.events)
    BY DEF FileInv, InSession, Answered
  <2>5. Len(events) \in 0..Len(events) /\ \A i \in DOMAIN events : i \in 0..Len(events)
    BY <2>2
  <2> QED  BY <2>2, <2>3, <2>4, <2>5 DEF Matches, SavedIn
<1> QED  BY <1>1, <1>2, <1>3, AllInvariant, PTL DEF Spec
=============================================================================
