-------------------------------- MODULE Cwmp --------------------------------
(***************************************************************************)
(* easycwmpd, the TR-069 client: one uloop process that collects events,   *)
(* opens a session with the ACS when a timer fires, runs the transfers the *)
(* ACS asked for and reports them.  What must survive a restart is kept in *)
(* an XML tree that backup_save_file writes out after every change.        *)
(*                                                                         *)
(* The process is single-threaded, so a step of the model is what happens  *)
(* between two saves of the tree or two messages to the ACS; the process   *)
(* may die after any step (Crash) and in the middle of a save (TornSave).  *)
(***************************************************************************)
EXTENDS Naturals, FiniteSets, Sequences, SequencesExt

CONSTANTS Downloads,    \* the Download requests the ACS may send
          Uploads,      \* the Upload requests the ACS may send
          Schedules,    \* the ScheduleInform requests the ACS may send
          MaxTransfer,  \* MAX_DOWNLOAD and MAX_UPLOAD, 10 in cwmp.h
          MaxCrash,     \* bound: how often the process dies
          MaxTrouble,   \* bound: how often the ACS or a script fails, the ACS resets
                        \* or configures the device, or something happens to it
          None          \* no key, no URL

Transfers == Downloads \cup Uploads

ASSUME CwmpAssumption ==
  /\ Downloads \cap Uploads = {}
  /\ Transfers \cap Schedules = {}
  /\ None \notin Transfers \cup Schedules \cup Nat
  /\ MaxTransfer \in Nat /\ MaxCrash \in Nat /\ MaxTrouble \in Nat

VARIABLES pc,       \* where the process is
          ret,      \* what called config_load: "start", "reload" or "session"
          cur,      \* the transfer or schedule a timer callback works on, the transfer
                    \* whose report the ACS has just answered
          events,   \* cwmp->events
          armed,    \* the transfers whose handler_timer is pending
          sched,    \* cwmp->scheduled_informs, timers included
          methodId, \* cwmp->method_id
          timers,   \* which of inform_timer and inform_timer_retry are pending
          retrying, \* cwmp->retry_count # 0
          hold,     \* cwmp->hold_requests
          getRpc,   \* cwmp->get_rpc_methods
          ends,     \* cwmp->end_session
          ok,       \* the session that is ending went well
          ackId,    \* the method id of the report the ACS has just answered
          tree,     \* the backup: the parsed tree, and the file it is saved to
          url,      \* the ACS URL in the UCI configuration
          fate,     \* history: what became of each request of the ACS
          again,    \* history: transfers whose process died before it had saved what
                    \* it had just done with them
          boot,     \* history: does the ACS know that this is a new device
          left      \* what is left of each bound

ctl  == <<pc, ret, cur>>
mem  == <<events, armed, sched, methodId, getRpc>>
loop == <<timers, retrying>>
sess == <<hold, ends, ok, ackId>>
hist == <<fate, again, boot>>
vars == <<ctl, mem, loop, sess, tree, url, hist, left>>

-----------------------------------------------------------------------------
(***************************************************************************)
(* The event table of cwmp.c: what a code's remove_policy and type say.    *)
(***************************************************************************)
AfterInform == {"BOOTSTRAP", "BOOT", "PERIODIC", "SCHEDULED", "VALUE_CHANGE",
                "CONNECTION_REQUEST", "DIAGNOSTICS_COMPLETE", "M_REBOOT",
                "M_SCHEDULEINFORM"}
AfterTransferComplete == {"TRANSFER_COMPLETE", "M_DOWNLOAD", "M_UPLOAD"}
NoRetry  == {"CONNECTION_REQUEST"}
Multiple == {"M_REBOOT", "M_SCHEDULEINFORM", "M_DOWNLOAD", "M_UPLOAD"}
Codes    == AfterInform \cup AfterTransferComplete

Keys == Transfers \cup Schedules \cup {None}
Node  == [code : Codes, key : Keys, id : Nat]
Event == [code : Codes, key : Keys, id : Nat, saved : BOOLEAN]

Has(evs, c) == \E i \in DOMAIN evs : evs[i].code = c

\* cwmp_add_event leaves a list that already has a single event alone.
Adds(evs, c) == c \in Multiple \/ ~Has(evs, c)

AddEvent(evs, c, k, n, saved) ==
  IF Adds(evs, c)
    THEN Append(evs, [code |-> c, key |-> k, id |-> n, saved |-> saved])
    ELSE evs

\* cwmp_add_event with EVENT_BACKUP: the list and the saved tree.
AddSaved(c, k, n) ==
  /\ events' = AddEvent(events, c, k, n, TRUE)
  /\ tree' = IF Adds(events, c)
               THEN [tree EXCEPT !.events =
                       Append(@, [code |-> c, key |-> k, id |-> n])]
               ELSE tree

\* The first event cwmp_remove_event(policy, n) meets, 0 when there is none.
FirstOf(policy, n) ==
  SelectInSeq(events, LAMBDA e : e.code \in policy /\ e.id = n)

\* The backup_node of an event: the n-th saved event with a code and a key has
\* the n-th node with them.
Alike(x, y) == x.code = y.code /\ x.key = y.key
Rank(seq, i, e) == Cardinality({k \in 1..i : Alike(seq[k], e)})
SavedRank(i) == Cardinality({k \in 1..i : events[k].saved /\ Alike(events[k], events[i])})
IsNodeOf(j, i) == /\ Alike(tree.events[j], events[i])
                  /\ Rank(tree.events, j, events[i]) = SavedRank(i)

\* Mutant: the node stays in the file.
RemoveEventKeepsNode(policy, n) ==
  LET i == FirstOf(policy, n)
  IN  /\ i # 0
      /\ events' = RemoveAt(events, i)
      /\ UNCHANGED tree

\* One turn of cwmp_remove_event's loop: the event goes, and its node with it.
RemoveEvent(policy, n) ==
  LET i == FirstOf(policy, n)
  IN  /\ i # 0
      /\ events' = RemoveAt(events, i)
      /\ \/ ~events[i].saved /\ UNCHANGED tree
         \/ /\ events[i].saved
            /\ \E j \in DOMAIN tree.events :
                 IsNodeOf(j, i) /\ tree' = [tree EXCEPT !.events = RemoveAt(@, j)]

\* A file that is missing or cannot be parsed is a tree without an ACS URL.
EmptyTree(u) == [acs |-> u, events |-> <<>>, transfers |-> {}, tcs |-> {}]

Lost(S) == [t \in Transfers |-> IF t \in S THEN "lost" ELSE fate[t]]

\* A request the ACS was told is accepted: not yet run, run, or run and its
\* report answered.
Underway == {"pending", "ran", "told"}
Pending  == {t \in Transfers : fate[t] \in Underway}
Spend(what) == /\ left[what] > 0
               /\ left' = [left EXCEPT ![what] = @ - 1]

-----------------------------------------------------------------------------
Init ==
  /\ pc = "down" /\ ret = "start" /\ cur = None
  /\ events = <<>> /\ armed = {} /\ sched = {} /\ methodId = 0
  /\ getRpc = FALSE /\ timers = {} /\ retrying = FALSE
  /\ hold = FALSE /\ ends = {} /\ ok = FALSE /\ ackId = 0
  /\ tree = EmptyTree(None) /\ url = 0
  /\ fate = [t \in Transfers |-> "none"] /\ again = {} /\ boot = "none"
  /\ left = [crash |-> MaxCrash, trouble |-> MaxTrouble]

-----------------------------------------------------------------------------
(***************************************************************************)
(* The end of the process.  Memory goes, the file stays; procd respawns.   *)
(***************************************************************************)
Exit ==
  /\ pc' = "down" /\ ret' = "start" /\ cur' = None
  /\ events' = <<>> /\ armed' = {} /\ sched' = {} /\ methodId' = 0
  /\ getRpc' = FALSE /\ timers' = {} /\ retrying' = FALSE
  /\ hold' = FALSE /\ ends' = {} /\ ok' = FALSE /\ ackId' = 0

\* A transfer between backup_remove_download and backup_add_transfer_complete
\* is in no file; one whose script has run, or whose report the ACS has
\* answered, is still on file as if neither had happened.
Crash ==
  /\ pc # "down" /\ Spend("crash")
  /\ Exit
  /\ fate' = Lost(IF pc = "report" THEN {cur} ELSE {})
  /\ again' = IF pc \in {"ran", "answered"} THEN again \cup {cur} ELSE again
  /\ boot' = IF pc = "bootstrap" THEN "skipped" ELSE boot
  /\ UNCHANGED <<tree, url>>

\* backup_save_file truncates the file before it writes the new text.
TornSave ==
  /\ pc # "down" /\ Spend("crash")
  /\ Exit
  /\ tree' = EmptyTree(None)
  /\ fate' = Lost(Pending) /\ boot' = "none"
  /\ UNCHANGED <<url, again>>

-----------------------------------------------------------------------------
(***************************************************************************)
(* Starting, and config_load.                                              *)
(***************************************************************************)
\* backup_load_event declares method_id once and sets it only for a node that
\* has one, so a node without one gets the id of a node before it.
LoadedId(nodes, i) ==
  LET withId == {j \in 1..i : nodes[j].id # 0}
  IN  IF withId = {} THEN 0
      ELSE nodes[CHOOSE j \in withId : \A k \in withId : k <= j].id

\* cwmp_add_event takes every node but the later ones of a single event.
Kept(nodes) == {i \in DOMAIN nodes : \/ nodes[i].code \in Multiple
                                     \/ \A j \in 1..(i - 1) : nodes[j].code # nodes[i].code}

\* The n-th smallest element of a set of numbers.
Nth(S, n) == CHOOSE i \in S : Cardinality({j \in S : j <= i}) = n

Loaded(nodes, i) == [code |-> nodes[i].code, key |-> nodes[i].key,
                     id |-> LoadedId(nodes, i), saved |-> TRUE]

LoadEvents(nodes) ==
  [n \in 1..Cardinality(Kept(nodes)) |-> Loaded(nodes, Nth(Kept(nodes), n))]

\* main up to config_load: the backup is read, every transfer gets its timer.
Start ==
  /\ pc = "down"
  /\ pc' = "config" /\ ret' = "start"
  /\ events' = LoadEvents(tree.events)
  /\ armed' = tree.transfers
  /\ timers' = IF events' = <<>> THEN {} ELSE {"inform"}
  /\ UNCHANGED <<cur, sched, methodId, getRpc, retrying, sess, tree, url,
                 hist, left>>

\* Mutant: a backup without an ACS URL passes the test.
SavedUrlMissing == tree.acs \in {None, url}

SavedUrl == tree.acs = url

\* backup_check_acs_url: another URL than the saved one starts a new tree.
CheckAcsUrl ==
  /\ pc = "config"
  /\ \/ /\ SavedUrl
        /\ pc' = "version"
        /\ UNCHANGED <<mem, retrying, hold, ends, tree, hist>>
     \/ /\ ~SavedUrl
        /\ pc' = "bootstrap"
        /\ tree' = EmptyTree(url)
        /\ events' = <<>> /\ armed' = {} /\ sched' = {} /\ getRpc' = FALSE
        /\ retrying' = FALSE /\ hold' = FALSE /\ ends' = {}
        /\ fate' = Lost(Pending) /\ boot' = "owed"
        /\ UNCHANGED <<methodId, again>>
  /\ UNCHANGED <<ret, cur, timers, ok, ackId, url, left>>

\* Mutant: EVENT_NO_BACKUP.
BootstrapUnsaved ==
  /\ pc = "bootstrap"
  /\ pc' = "version"
  /\ events' = AddEvent(events, "BOOTSTRAP", None, 0, FALSE)
  /\ timers' = timers \cup {"inform"}
  /\ UNCHANGED <<ret, cur, armed, sched, methodId, getRpc, retrying, sess,
                 tree, url, hist, left>>

Bootstrap ==
  /\ pc = "bootstrap"
  /\ pc' = "version"
  /\ AddSaved("BOOTSTRAP", None, 0)
  /\ timers' = timers \cup {"inform"}
  /\ UNCHANGED <<ret, cur, armed, sched, methodId, getRpc, retrying, sess,
                 url, hist, left>>

\* backup_check_software_version, and the return of config_load.
CheckVersion ==
  /\ pc = "version"
  /\ pc' = CASE ret = "start" -> "started"
             [] ret = "reload" -> "idle"
             [] ret = "session" -> "ended"
  /\ \/ UNCHANGED <<events, left>>
     \/ /\ Spend("trouble")
        /\ events' = AddEvent(events, "VALUE_CHANGE", None, 0, FALSE)
  /\ timers' = timers \cup {"inform"}
  /\ UNCHANGED <<ret, cur, armed, sched, methodId, getRpc, retrying, sess,
                 tree, url, hist>>

\* The init script passes --boot or --getrpcmethod.
Started ==
  /\ pc = "started"
  /\ pc' = "idle"
  /\ \/ AddSaved("BOOT", None, 0) /\ UNCHANGED getRpc
     \/ AddSaved("PERIODIC", None, 0) /\ getRpc' = TRUE
  /\ timers' = timers \cup {"inform"}
  /\ UNCHANGED <<ret, cur, armed, sched, methodId, retrying, sess, url, hist,
                 left>>

\* Another URL is written to the configuration: by the ACS or by hand.
ChangeUrl ==
  /\ Spend("trouble")
  /\ url' = url + 1
  /\ UNCHANGED <<ctl, mem, loop, sess, tree, hist>>

\* ubus "command reload".
Reload ==
  /\ pc = "idle" /\ Spend("trouble")
  /\ pc' = "config" /\ ret' = "reload"
  /\ UNCHANGED <<cur, mem, loop, sess, tree, url, hist>>

-----------------------------------------------------------------------------
(***************************************************************************)
(* What happens to an idle daemon.                                         *)
(***************************************************************************)
\* cwmp_connection_request (an HTTP request, or ubus "inform" with a code) and
\* cwmp_add_notification: events that are not saved.
Unsaved == {"BOOTSTRAP", "BOOT", "PERIODIC", "SCHEDULED", "VALUE_CHANGE",
            "CONNECTION_REQUEST", "DIAGNOSTICS_COMPLETE"}

AddUnsaved(c) ==
  /\ pc = "idle" /\ Spend("trouble")
  /\ events' = AddEvent(events, c, None, 0, FALSE)
  /\ timers' = timers \cup {"inform"}
  /\ UNCHANGED <<ctl, armed, sched, methodId, getRpc, retrying, sess, tree,
                 url, hist>>

\* A passive notification ('1') does not set the timer.
PassiveNotification ==
  /\ pc = "idle" /\ Spend("trouble")
  /\ events' = AddEvent(events, "VALUE_CHANGE", None, 0, FALSE)
  /\ UNCHANGED <<ctl, armed, sched, methodId, getRpc, loop, sess, tree, url,
                 hist>>

\* Mutant: the event is added and the inform timer is not set.
PeriodicInformQuiet ==
  /\ pc = "idle"
  /\ AddSaved("PERIODIC", None, 0)
  /\ UNCHANGED <<ctl, armed, sched, methodId, getRpc, loop, sess, url, hist,
                 left>>

PeriodicInform ==
  /\ pc = "idle"
  /\ AddSaved("PERIODIC", None, 0)
  /\ timers' = timers \cup {"inform"}
  /\ UNCHANGED <<ctl, armed, sched, methodId, getRpc, retrying, sess, url,
                 hist, left>>

\* cwmp_scheduled_inform adds two events, each with a save of its own.
ScheduledInform(s) ==
  /\ pc = "idle" /\ s \in sched
  /\ pc' = "schedule" /\ cur' = s
  /\ AddSaved("SCHEDULED", None, 0)
  /\ UNCHANGED <<ret, armed, sched, methodId, getRpc, loop, sess, url, hist,
                 left>>

ScheduledMethod ==
  /\ pc = "schedule"
  /\ pc' = "idle" /\ cur' = None
  /\ AddSaved("M_SCHEDULEINFORM", cur, 0)
  /\ timers' = timers \cup {"inform"}
  /\ sched' = sched \ {cur}
  /\ UNCHANGED <<ret, armed, methodId, getRpc, retrying, sess, url, hist,
                 left>>

-----------------------------------------------------------------------------
(***************************************************************************)
(* cwmp_download_launch and cwmp_upload_launch.                            *)
(***************************************************************************)
Launch(t) ==
  /\ pc = "idle" /\ t \in armed
  /\ armed' = armed \ {t}
  /\ \/ pc' = "launch" /\ cur' = t /\ UNCHANGED left
     \/ Spend("trouble") /\ UNCHANGED <<pc, cur>>     \* external_init fails
  /\ UNCHANGED <<ret, events, sched, methodId, getRpc, loop, sess, tree, url,
                 hist>>

\* The download or upload script has returned; nothing is saved yet.
RunScript ==
  /\ pc = "launch"
  /\ pc' = "ran"
  /\ fate' = [fate EXCEPT ![cur] = "ran"]
  /\ again' = again \ {cur}
  /\ UNCHANGED <<ret, cur, mem, loop, sess, tree, url, boot, left>>

\* Mutant: the request leaves the list and stays in the file.
RemoveTransferUnsaved ==
  /\ pc = "ran"
  /\ pc' = "report"
  /\ UNCHANGED <<ret, cur, mem, loop, sess, tree, url, hist, left>>

\* The request leaves the list and the file.
RemoveTransfer ==
  /\ pc = "ran"
  /\ pc' = "report"
  /\ tree' = [tree EXCEPT !.transfers = @ \ {cur}]
  /\ UNCHANGED <<ret, cur, mem, loop, sess, url, hist, left>>

\* Mutant: the report is added to the tree and the tree is not saved.
AddTransferCompleteUnsaved ==
  /\ pc = "report"
  /\ pc' = "event"
  /\ methodId' = methodId + 1
  /\ UNCHANGED <<ret, cur, events, armed, sched, getRpc, loop, sess, tree, url,
                 hist, left>>

AddTransferComplete ==
  /\ pc = "report"
  /\ pc' = "event"
  /\ methodId' = methodId + 1
  /\ tree' = [tree EXCEPT !.tcs = @ \cup {[key |-> cur, id |-> methodId']}]
  /\ UNCHANGED <<ret, cur, events, armed, sched, getRpc, loop, sess, url,
                 hist, left>>

AddTransferEvent ==
  /\ pc = "event"
  /\ pc' = "method"
  /\ AddSaved("TRANSFER_COMPLETE", None, 0)
  /\ UNCHANGED <<ret, cur, armed, sched, methodId, getRpc, loop, sess, url,
                 hist, left>>

AddMethodEvent ==
  /\ pc = "method"
  /\ pc' = "apply"
  /\ AddSaved(IF cur \in Downloads THEN "M_DOWNLOAD" ELSE "M_UPLOAD",
              cur, methodId)
  /\ UNCHANGED <<ret, cur, armed, sched, methodId, getRpc, loop, sess, url,
                 hist, left>>

\* Mutant: a failed transfer does not set the inform timer.
AppliedQuietly ==
  /\ pc = "apply"
  /\ \/ cur \in Downloads /\ Exit
     \/ /\ pc' = "idle" /\ cur' = None
        /\ UNCHANGED <<ret, mem, loop, sess>>
  /\ UNCHANGED <<tree, url, hist, left>>

\* A download that was applied ends the process; a fault, and every upload,
\* sets the inform timer.
Applied ==
  /\ pc = "apply"
  /\ \/ /\ cur \in Downloads
        /\ Exit
     \/ /\ pc' = "idle" /\ cur' = None
        /\ timers' = timers \cup {"inform"}
        /\ UNCHANGED <<ret, mem, retrying, sess>>
  /\ UNCHANGED <<tree, url, hist, left>>

-----------------------------------------------------------------------------
(***************************************************************************)
(* cwmp_inform: a session.                                                 *)
(***************************************************************************)
\* cwmp_do_inform cancels the retry timer, whichever timer called it.
DoInform(timer) ==
  /\ pc = "idle" /\ timer \in timers
  /\ pc' = "inform"
  /\ timers' = timers \ {timer, "retry"}
  /\ UNCHANGED <<ret, cur, mem, retrying, sess, tree, url, hist, left>>

\* An initialisation, a message or an answer fails: goto error.
Fail ==
  /\ \/ pc \in {"inform", "methods", "msgs"}
     \/ pc = "tc" /\ tree.tcs # {} /\ ~hold
  /\ Spend("trouble")
  /\ pc' = "end" /\ ok' = FALSE
  /\ UNCHANGED <<ret, cur, mem, loop, hold, ends, ackId, tree, url, hist>>

\* rpc_inform, every answer of the ACS setting hold_requests.
SendInform ==
  /\ pc = "inform"
  /\ pc' = "clear"
  /\ hold' \in BOOLEAN
  /\ boot' = IF Has(events, "BOOTSTRAP") THEN "told" ELSE boot
  /\ UNCHANGED <<ret, cur, mem, loop, ends, ok, ackId, tree, url, fate, again,
                 left>>

ClearInformed ==
  /\ pc = "clear"
  /\ \/ /\ RemoveEvent(AfterInform, 0)
        /\ UNCHANGED pc
     \/ /\ FirstOf(AfterInform, 0) = 0
        /\ pc' = "tc"
        /\ UNCHANGED <<events, tree>>
  /\ UNCHANGED <<ret, cur, armed, sched, methodId, getRpc, loop, sess, url,
                 hist, left>>

\* rpc_transfer_complete is answered; the report is still on file.
SendTransferComplete ==
  /\ pc = "tc" /\ tree.tcs # {} /\ ~hold
  /\ pc' = "answered"
  /\ hold' \in BOOLEAN
  /\ \E r \in tree.tcs :
       /\ cur' = r.key /\ ackId' = r.id
       /\ fate' = [fate EXCEPT ![r.key] = "told"]
       /\ again' = again \ {r.key}
  /\ UNCHANGED <<ret, mem, loop, ends, ok, tree, url, boot, left>>

\* Mutant: the report leaves the parsed tree and the tree is not saved.
RemoveTransferCompleteUnsaved ==
  /\ pc = "answered"
  /\ pc' = "cleartc" /\ cur' = None
  /\ UNCHANGED <<ret, mem, loop, sess, tree, url, hist, left>>

\* backup_remove_transfer_complete saves the tree without the report.
RemoveTransferComplete ==
  /\ pc = "answered"
  /\ pc' = "cleartc" /\ cur' = None
  /\ tree' = [tree EXCEPT !.tcs = @ \ {[key |-> cur, id |-> ackId]}]
  /\ fate' = [fate EXCEPT ![cur] = "reported"]
  /\ UNCHANGED <<ret, mem, loop, sess, url, again, boot, left>>

\* Mutant: only the events without an id are removed.
ClearReportedSingle ==
  /\ pc = "cleartc"
  /\ \/ /\ tree.tcs = {} /\ RemoveEvent(AfterTransferComplete, 0)
        /\ UNCHANGED <<pc, ackId>>
     \/ /\ tree.tcs # {} \/ FirstOf(AfterTransferComplete, 0) = 0
        /\ ackId' = 0 /\ pc' = "tc"
        /\ UNCHANGED <<events, tree>>
  /\ UNCHANGED <<ret, cur, armed, sched, methodId, getRpc, loop, hold, ends,
                 ok, url, hist, left>>

\* The events of the report, and those without an id after the last report.
ClearReported ==
  /\ pc = "cleartc"
  /\ \/ /\ RemoveEvent(AfterTransferComplete, ackId)
        /\ UNCHANGED <<pc, ackId>>
     \/ /\ FirstOf(AfterTransferComplete, ackId) = 0
        /\ \/ /\ ackId # 0 /\ tree.tcs = {}
              /\ ackId' = 0 /\ UNCHANGED pc
           \/ /\ ackId = 0 \/ tree.tcs # {}
              /\ ackId' = 0 /\ pc' = "tc"
        /\ UNCHANGED <<events, tree>>
  /\ UNCHANGED <<ret, cur, armed, sched, methodId, getRpc, loop, hold, ends,
                 ok, url, hist, left>>

SendGetRpcMethods ==
  /\ pc = "tc" /\ (tree.tcs = {} \/ hold)
  /\ \/ /\ getRpc /\ ~hold
        /\ pc' = "methods"
     \/ /\ ~getRpc \/ hold
        /\ pc' = "msgs"
  /\ UNCHANGED <<ret, cur, mem, loop, sess, tree, url, hist, left>>

GetRpcMethodsAnswered ==
  /\ pc = "methods"
  /\ pc' = "msgs"
  /\ getRpc' = FALSE
  /\ hold' \in BOOLEAN
  /\ UNCHANGED <<ret, cur, events, armed, sched, methodId, loop, ends, ok,
                 ackId, tree, url, hist, left>>

(***************************************************************************)
(* cwmp_handle_messages: one action per request that changes state.        *)
(***************************************************************************)
SameKind(t) == IF t \in Downloads THEN Downloads ELSE Uploads

\* xml_handle_download and xml_handle_upload; a full list is fault 9004.
HandleTransfer(t) ==
  /\ pc = "msgs" /\ fate[t] = "none"
  /\ Cardinality(tree.transfers \cap SameKind(t)) < MaxTransfer
  /\ tree' = [tree EXCEPT !.transfers = @ \cup {t}]
  /\ armed' = armed \cup {t}
  /\ fate' = [fate EXCEPT ![t] = "pending"]
  /\ UNCHANGED <<ctl, events, sched, methodId, getRpc, loop, sess, url, again,
                 boot, left>>

\* xml_handle_reboot saves the event for the next start and only for that.
HandleReboot ==
  /\ pc = "msgs" /\ Spend("trouble")
  /\ tree' = [tree EXCEPT !.events =
                Append(@, [code |-> "M_REBOOT", key |-> None, id |-> 0])]
  /\ ends' = ends \cup {"reboot"}
  /\ UNCHANGED <<ctl, mem, loop, hold, ok, ackId, url, hist>>

HandleFactoryReset ==
  /\ pc = "msgs" /\ Spend("trouble")
  /\ ends' = ends \cup {"factory"}
  /\ UNCHANGED <<ctl, mem, loop, hold, ok, ackId, tree, url, hist>>

HandleScheduleInform(s) ==
  /\ pc = "msgs"
  /\ sched' = sched \cup {s}
  /\ UNCHANGED <<ctl, events, armed, methodId, getRpc, loop, sess, tree, url,
                 hist, left>>

\* A script whose answer asks for config_load (SetParameterValues, json.c 65-67).
HandleSetParameter ==
  /\ pc = "msgs" /\ Spend("trouble")
  /\ ends' = ends \cup {"reload"}
  /\ UNCHANGED <<ctl, mem, loop, hold, ok, ackId, tree, url, hist>>

\* The ACS sends an empty message: another round, or the end of the session.
EmptyMessage ==
  /\ pc = "msgs"
  /\ hold' = FALSE
  /\ \/ (getRpc \/ tree.tcs # {}) /\ pc' = "tc" /\ UNCHANGED ok
     \/ ~(getRpc \/ tree.tcs # {}) /\ pc' = "end" /\ ok' = TRUE
  /\ UNCHANGED <<ret, cur, mem, loop, ends, ackId, tree, url, hist, left>>

\* cwmp_handle_end_session, on the error path as well.
HandleEndSession ==
  /\ pc = "end"
  /\ \/ /\ "factory" \in ends
        /\ Exit
        /\ tree' = EmptyTree(None) /\ fate' = Lost(Pending) /\ boot' = "none"
        /\ UNCHANGED again
     \/ /\ "factory" \notin ends /\ "reboot" \in ends
        /\ Exit
        /\ UNCHANGED <<tree, hist>>
     \/ /\ ends = {"reload"}
        /\ pc' = "config" /\ ret' = "session" /\ ends' = {}
        /\ UNCHANGED <<cur, mem, loop, hold, ok, ackId, tree, hist>>
     \/ /\ ends = {}
        /\ pc' = "ended"
        /\ UNCHANGED <<ret, cur, mem, loop, sess, tree, hist>>
  /\ UNCHANGED <<url, left>>

\* Mutant: the loop does not stop at the first event worth a retry.
OnlyNoRetryLast == events # <<>> /\ events[Len(events)].code \in NoRetry

\* retry_count = 0 after success, cwmp_retry_session after a failure.  There is
\* never more than one "6 CONNECTION REQUEST" to remove, and it is not saved.
OnlyNoRetry == events # <<>> /\ \A i \in DOMAIN events :
                                   events[i].code \in NoRetry

Ended ==
  /\ pc = "ended"
  /\ pc' = "idle"
  /\ \/ /\ ok
        /\ retrying' = FALSE
        /\ UNCHANGED <<events, timers>>
     \/ /\ ~ok
        /\ events' = IF FirstOf(NoRetry, 0) = 0 THEN events
                     ELSE RemoveAt(events, FirstOf(NoRetry, 0))
        /\ \/ OnlyNoRetry /\ ~retrying /\ UNCHANGED loop
           \/ /\ ~OnlyNoRetry \/ retrying
              /\ retrying' = TRUE
              /\ timers' = timers \cup {"retry"}
  /\ ok' = FALSE
  /\ UNCHANGED <<ret, cur, armed, sched, methodId, getRpc, hold, ends, ackId,
                 tree, url, hist, left>>

-----------------------------------------------------------------------------
Session ==
  \/ SendInform \/ ClearInformed \/ SendTransferComplete
  \/ RemoveTransferComplete \/ ClearReported \/ SendGetRpcMethods
  \/ GetRpcMethodsAnswered \/ EmptyMessage \/ HandleEndSession \/ Ended

Running ==
  \/ Start \/ CheckAcsUrl \/ Bootstrap \/ CheckVersion \/ Started
  \/ ScheduledMethod \/ RunScript \/ RemoveTransfer
  \/ AddTransferComplete \/ AddTransferEvent \/ AddMethodEvent \/ Applied

Request ==
  \/ \E t \in Transfers : HandleTransfer(t)
  \/ HandleReboot \/ HandleFactoryReset \/ HandleSetParameter
  \/ \E s \in Schedules : HandleScheduleInform(s)

Stimulus ==
  \/ \E c \in Unsaved : AddUnsaved(c)
  \/ PassiveNotification \/ PeriodicInform \/ Reload \/ ChangeUrl

Timer ==
  \/ \E timer \in {"inform", "retry"} : DoInform(timer)
  \/ \E t \in Transfers : Launch(t)
  \/ \E s \in Schedules : ScheduledInform(s)

Next == Session \/ Running \/ Request \/ Stimulus \/ Timer
        \/ Fail \/ Crash \/ TornSave

Spec == Init /\ [][Next]_vars

\* uloop runs the callback of every timer that is due, and what a callback
\* started it finishes; the ACS answers when it does not fail.
Fairness ==
  /\ WF_vars(Session) /\ WF_vars(Running)
  /\ \A timer \in {"inform", "retry"} : SF_vars(DoInform(timer))
  /\ \A t \in Transfers : SF_vars(Launch(t))
  /\ \A s \in Schedules : SF_vars(ScheduledInform(s))

FairSpec == Spec /\ Fairness

-----------------------------------------------------------------------------
Points == {"down", "config", "bootstrap", "version", "started", "idle",
           "schedule", "launch", "ran", "report", "event", "method", "apply",
           "inform", "clear", "tc", "answered", "cleartc", "methods", "msgs",
           "end", "ended"}

\* The points where a transfer's callback is under way.
Launching == {"launch", "ran", "report", "event", "method", "apply"}

Report == [key : Transfers, id : Nat]
Tree   == [acs : Nat \cup {None}, events : Seq(Node), transfers : SUBSET Transfers,
           tcs : SUBSET Report]

\* Types; a single event is in the list at most once; and where the backup must
\* exist: everywhere between the check of the ACS URL at the start and the end
\* of the process (cwmp.c 613-641, backup.c 120-143).
TypeOK ==
  /\ pc \in Points /\ ret \in {"start", "reload", "session"}
  /\ cur \in Keys
  /\ pc \in Launching => cur \in Transfers
  /\ events \in Seq(Event)
  /\ \A i, j \in DOMAIN events :
       events[i].code = events[j].code /\ events[i].code \notin Multiple => i = j
  /\ armed \subseteq Transfers /\ sched \subseteq Schedules
  /\ methodId \in Nat /\ ackId \in Nat
  /\ timers \subseteq {"inform", "retry"} /\ retrying \in BOOLEAN
  /\ hold \in BOOLEAN /\ getRpc \in BOOLEAN /\ ok \in BOOLEAN
  /\ ends \subseteq {"factory", "reboot", "reload"}
  /\ tree \in Tree
  /\ tree.acs = None => pc \in {"down", "config"}
  /\ url \in Nat
  /\ fate \in [Transfers -> {"none", "reported", "lost"} \cup Underway]
  /\ again \subseteq Transfers
  /\ boot \in {"none", "owed", "told", "skipped"}
  /\ left \in [{"crash", "trouble"} -> Nat]

\* Every Download and Upload the ACS was told is accepted is in the backup as a
\* request or as a report until the removal of its report has been saved, or is
\* lost: with the file, or between the two saves of its own callback.  Once the
\* removal of the report is on file, or the request is lost, it never comes
\* back; a report that was only answered is still there
\* (cwmp_download_launch, cwmp_inform, backup.c).
InWindow == IF pc = "report" THEN {cur} ELSE {}

NothingForgotten ==
  Pending = tree.transfers \cup {r.key : r \in tree.tcs} \cup InWindow

\* A transfer is run once and its report answered once, unless the process died
\* between the script or the answer and the save that follows it: on file as a
\* request it has not run, on file as a report it has run and was not answered,
\* but for the transfer that is between the two and those in again.  Each death
\* allows one repetition.  And no transfer is on file twice
\* (cwmp_download_launch 457-463, cwmp_inform 293-304).
Midway == IF pc \in {"ran", "answered"} THEN {cur} ELSE {}

RunsOnce ==
  /\ \A t \in tree.transfers : fate[t] = "pending" \/ t \in Midway \cup again
  /\ \A r \in tree.tcs :
       /\ fate[r.key] = "ran" \/ r.key \in Midway \cup again
       /\ fate[r.key] # "pending"
       /\ r.key \notin tree.transfers \cup InWindow
  /\ InWindow \cap tree.transfers = {}
  /\ \A r1, r2 \in tree.tcs : r1.key = r2.key => r1 = r2

\* An idle daemon that has a report to send, or a saved event that an Inform
\* would clear, has a timer pending that will open a session
\* (cwmp_add_inform_timer, cwmp_retry_session).
Scheduled ==
  (/\ pc = "idle"
   /\ \/ tree.tcs # {}
      \/ \E i \in DOMAIN events : /\ events[i].saved /\ events[i].id = 0
                                  /\ events[i].code \in AfterInform)
    => timers # {}

\* While the daemon is idle the event nodes of the file are exactly the saved
\* events of the list, in the same order: no node is left that nothing in
\* memory will ever remove (cwmp_add_event, cwmp_remove_event, backup.c).
SavedUpTo(i) == Cardinality({k \in 1..i : events[k].saved})

FileMatchesList ==
  pc = "idle" =>
    /\ SavedUpTo(Len(events)) = Len(tree.events)
    /\ \A i \in DOMAIN events :
         events[i].saved => Alike(events[i], tree.events[SavedUpTo(i)])

\* As long as the process has not been killed, an M Download or M Upload event
\* is in the list of an idle daemon only while its report is to be sent: the
\* ACS is not told of a transfer it has already acknowledged (cwmp_inform).
ReportedEventsCleared ==
  (pc = "idle" /\ left["crash"] = MaxCrash) =>
    \A i \in DOMAIN events :
      events[i].code \in {"M_DOWNLOAD", "M_UPLOAD"} =>
        \E r \in tree.tcs : r.key = events[i].key

\* A new ACS is owed a BOOTSTRAP: until an Inform with it has been answered
\* it is in the list, unless the process died between saving the URL and
\* saving the event (backup_add_acsurl).
BootstrapOwed ==
  (boot = "owed" /\ pc \notin {"down", "config", "bootstrap"})
    => Has(events, "BOOTSTRAP")

\* The daemon keeps the promise of TransferLedger: a transfer's status is read
\* off the backup file, whatever crashes and failed sessions come in between.
Status(t) ==
  IF \E r \in tree.tcs : r.key = t
    THEN IF t \in Midway THEN "told" ELSE "done"
  ELSE IF t \in tree.transfers
    THEN IF t \in Midway THEN "run" ELSE "queued"
  ELSE IF t \in InWindow THEN "run"
  ELSE fate[t]

Ledger == INSTANCE TransferLedger
            WITH status <- [t \in Transfers |-> Status(t)]

KeepsLedger == Ledger!LSpec

\* Every accepted transfer is eventually reported or lost with the file,
\* unless its script could not be started: then it waits for a restart
\* (cwmp_download_launch, cwmp_inform).
Stranded(t) == pc = "idle" /\ t \in tree.transfers \ armed

EventuallyReported ==
  \A t \in Transfers :
    fate[t] \in Underway ~> (fate[t] \notin Underway \/ Stranded(t))

\* A saved event that an Inform clears is eventually cleared, whatever fails
\* on the way (cwmp_inform, cwmp_retry_session, backup_load_event).
Waiting(c) == \E i \in DOMAIN events : /\ events[i].code = c /\ events[i].saved
                                       /\ events[i].id = 0

EventuallyInformed == \A c \in AfterInform : Waiting(c) ~> ~Waiting(c)
=============================================================================
