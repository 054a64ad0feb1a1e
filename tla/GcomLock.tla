------------------------------- MODULE GcomLock -------------------------------
(***************************************************************************)
(* The AT-command serialiser of ROOter, gcom/gcom-locked.                  *)
(*                                                                         *)
(* Every script that talks to a modem runs one gcom-locked process per AT  *)
(* command.  The process takes the directory /tmp/lockgcom<modem> as a     *)
(* lock (mkdir is the atomic test-and-set), leaves its process id in       *)
(* <lock>/PID, runs gcom on the port, counts consecutive timeouts in       *)
(* /tmp/timecnt and removes the directory.  A process that finds the       *)
(* directory probes the recorded process and removes the directory of one  *)
(* that no longer exists.                                                  *)
(*                                                                         *)
(* A process is a member of Callers and is its own process id (ids are not *)
(* reused within a behaviour).  Every system call that another process can *)
(* observe is a step of its own: the PID file is opened (truncated) and    *)
(* then written, `rm -rf' unlinks the file and then removes the directory. *)
(***************************************************************************)
EXTENDS Naturals, FiniteSets

CONSTANTS Callers,    \* the gcom-locked processes of a behaviour
          Modems,     \* modem numbers: one lock directory each
          Port,       \* the modem each caller addresses ($CURRMODEM)
          MaxKills,   \* bound: how many processes may be killed
          NoOne,      \* no directory / no file
          EmptyPid    \* the PID file exists but nothing is written to it yet

ASSUME PortAssumption == Port \in [Callers -> Modems]
ASSUME CallersAssumption == /\ IsFiniteSet(Callers)
                            /\ NoOne \notin Callers
                            /\ EmptyPid \notin Callers
                            /\ NoOne # EmptyPid
ASSUME MaxKillsAssumption == MaxKills \in Nat

VARIABLES pc,         \* where each process is in the script
          dir,        \* per modem: who made the lock directory that exists now
          pidfile,    \* per modem: the content of <lock>/PID
          fd,         \* the directory whose PID file a process has open
          seen,       \* OTHERPID: what a waiting process read and still uses
          killed,     \* processes that were killed
          timecnt,    \* /tmp/timecnt
          count,      \* the shell variable timecnt of each process
          timeouts,   \* history: processes whose gcom printed TIMEOUT ERROR
          breached    \* history: modems whose lock was taken from a live maker

vars == <<pc, dir, pidfile, fd, seen, killed, timecnt, count, timeouts, breached>>

PCs == {"start", "try", "cat", "probe", "stealfile", "stealdir", "made",
        "opened", "gcom", "count", "relfile", "reldir", "done"}

\* kill -0 succeeds: the process was started and has not ended.
Exists(c) == c \notin killed /\ pc[c] \notin {"start", "done"}

Running(c) == c \notin killed /\ pc[c] # "done"

Init ==
  /\ pc = [c \in Callers |-> "start"]
  /\ dir = [m \in Modems |-> NoOne]
  /\ pidfile = [m \in Modems |-> NoOne]
  /\ fd = [c \in Callers |-> NoOne]
  /\ seen = [c \in Callers |-> NoOne]
  /\ killed = {}
  /\ timecnt = 0
  /\ count = [c \in Callers |-> 0]
  /\ timeouts = {}
  /\ breached = {}

At(c, p) == c \notin killed /\ pc[c] = p
Goto(c, p) == pc' = [pc EXCEPT ![c] = p]

-------------------------------------------------------------------------------
(***************************************************************************)
(* The steps of one process.                                               *)
(***************************************************************************)

\* /tmp/timecnt is read before the lock is taken.  A process that is about
\* to rewrite the file may have truncated it already: it then reads as 0.
ReadTimecnt(c) ==
  /\ At(c, "start")
  /\ \E v \in {timecnt} \cup {0 : d \in {d \in Callers : At(d, "count")}} :
        count' = [count EXCEPT ![c] = v]
  /\ Goto(c, "try")
  /\ UNCHANGED <<dir, pidfile, fd, seen, killed, timecnt, timeouts, breached>>

\* Mutant: `mkdir -p', which succeeds on a directory that exists.
MkdirParents(c) ==
  /\ At(c, "try")
  /\ dir' = [dir EXCEPT ![Port[c]] = c]
  /\ pidfile' = [pidfile EXCEPT ![Port[c]] = NoOne]
  /\ Goto(c, "made")
  /\ UNCHANGED <<fd, seen, killed, timecnt, count, timeouts, breached>>

MkdirOk(c) ==
  /\ At(c, "try")
  /\ dir[Port[c]] = NoOne
  /\ dir' = [dir EXCEPT ![Port[c]] = c]
  /\ pidfile' = [pidfile EXCEPT ![Port[c]] = NoOne]
  /\ Goto(c, "made")
  /\ UNCHANGED <<fd, seen, killed, timecnt, count, timeouts, breached>>

MkdirFails(c) ==
  /\ At(c, "try")
  /\ dir[Port[c]] # NoOne
  /\ Goto(c, "cat")
  /\ UNCHANGED <<dir, pidfile, fd, seen, killed, timecnt, count, timeouts, breached>>

\* `echo "$$" > PID', first half: the shell opens and truncates the file of
\* whatever directory is there now.  Without one the redirection fails and
\* the script goes on all the same.
OpenPid(c) ==
  LET m == Port[c] IN
  /\ At(c, "made")
  /\ IF dir[m] = NoOne
       THEN Goto(c, "gcom") /\ UNCHANGED <<pidfile, fd>>
       ELSE /\ pidfile' = [pidfile EXCEPT ![m] = EmptyPid]
            /\ fd' = [fd EXCEPT ![c] = dir[m]]
            /\ Goto(c, "opened")
  /\ UNCHANGED <<dir, seen, killed, timecnt, count, timeouts, breached>>

\* Second half: the id goes to the opened file, which the path may no longer name.
WritePid(c) ==
  LET m == Port[c] IN
  /\ At(c, "opened")
  /\ pidfile' = IF dir[m] = fd[c] /\ pidfile[m] # NoOne
                  THEN [pidfile EXCEPT ![m] = c] ELSE pidfile
  /\ fd' = [fd EXCEPT ![c] = NoOne]
  /\ Goto(c, "gcom")
  /\ UNCHANGED <<dir, seen, killed, timecnt, count, timeouts, breached>>

\* gcom, a child process, ends.  It goes on when gcom-locked is killed.
GcomEnds(c) ==
  /\ pc[c] = "gcom"
  /\ timeouts' \in {timeouts, timeouts \cup {c}}
  /\ Goto(c, IF c \in killed THEN "done" ELSE "count")
  /\ UNCHANGED <<dir, pidfile, fd, seen, killed, timecnt, count, breached>>

\* Mutant: the counter is incremented whatever gcom printed.
CountEverything(c) ==
  /\ At(c, "count")
  /\ count' = [count EXCEPT ![c] = @ + 1]
  /\ timecnt' = count'[c]
  /\ Goto(c, "relfile")
  /\ UNCHANGED <<dir, pidfile, fd, seen, killed, timeouts, breached>>

\* The test `[ "$timecnt" gt 4 ]' names no operator of test(1): it fails for
\* every count, so neither the reboot nor the reset of lines 38-45 happens.
CountTimeout(c) ==
  /\ At(c, "count")
  /\ count' = [count EXCEPT ![c] = IF c \in timeouts THEN @ + 1 ELSE 0]
  /\ timecnt' = count'[c]
  /\ Goto(c, "relfile")
  /\ UNCHANGED <<dir, pidfile, fd, seen, killed, timeouts, breached>>

\* `cat PID' fails when the file or its directory is not there: sleep, retry.
CatPid(c) ==
  /\ At(c, "cat")
  /\ seen' = [seen EXCEPT ![c] = pidfile[Port[c]]]
  /\ Goto(c, IF pidfile[Port[c]] = NoOne THEN "try" ELSE "probe")
  /\ UNCHANGED <<dir, pidfile, fd, killed, timecnt, count, timeouts, breached>>

\* Mutant: the result of kill -0 is inverted.
ProbeInverted(c) ==
  /\ At(c, "probe")
  /\ IF seen[c] \in Callers /\ Exists(seen[c])
       THEN Goto(c, "stealfile") /\ UNCHANGED seen
       ELSE Goto(c, "try") /\ seen' = [seen EXCEPT ![c] = NoOne]
  /\ UNCHANGED <<dir, pidfile, fd, killed, timecnt, count, timeouts, breached>>

\* Mutant: a dead holder is waited for like a live one.
ProbeNever(c) ==
  /\ At(c, "probe")
  /\ Goto(c, "try") /\ seen' = [seen EXCEPT ![c] = NoOne]
  /\ UNCHANGED <<dir, pidfile, fd, killed, timecnt, count, timeouts, breached>>

\* kill -0 fails for a process that is gone, and for an empty argument.
Probe(c) ==
  /\ At(c, "probe")
  /\ IF seen[c] \in Callers /\ Exists(seen[c])
       THEN Goto(c, "try") /\ seen' = [seen EXCEPT ![c] = NoOne]
       ELSE Goto(c, "stealfile") /\ UNCHANGED seen
  /\ UNCHANGED <<dir, pidfile, fd, killed, timecnt, count, timeouts, breached>>

(***************************************************************************)
(* `rm -rf <lock>', by a waiting process (line 56) and by every process    *)
(* that leaves the loop (line 63): unlink the PID file, then remove the    *)
(* directory, which fails when a PID file appeared in between.             *)
(***************************************************************************)
Unlink(c, from, to) ==
  /\ At(c, from)
  /\ pidfile' = [pidfile EXCEPT ![Port[c]] = NoOne]
  /\ Goto(c, to)
  /\ UNCHANGED <<dir, fd, seen, killed, timecnt, count, timeouts, breached>>

Rmdir(c, from, to) ==
  LET m == Port[c] IN
  /\ At(c, from)
  /\ IF pidfile[m] = NoOne
       THEN /\ dir' = [dir EXCEPT ![m] = NoOne]
            /\ breached' = IF dir[m] \notin {NoOne, c} /\ Exists(dir[m])
                             THEN breached \cup {m} ELSE breached
       ELSE UNCHANGED <<dir, breached>>
  /\ Goto(c, to)
  /\ seen' = [seen EXCEPT ![c] = NoOne]
  /\ UNCHANGED <<pidfile, fd, killed, timecnt, count, timeouts>>

StealUnlink(c) == Unlink(c, "stealfile", "stealdir")
StealRmdir(c) == Rmdir(c, "stealdir", "try")
ReleaseUnlink(c) == Unlink(c, "relfile", "reldir")
ReleaseRmdir(c) == Rmdir(c, "reldir", "done")

\* The process is killed, wherever it is.
Kill(c) ==
  /\ Exists(c)
  /\ Cardinality(killed) < MaxKills
  /\ killed' = killed \cup {c}
  /\ UNCHANGED <<pc, dir, pidfile, fd, seen, timecnt, count, timeouts, breached>>

Step(c) ==
  \/ ReadTimecnt(c) \/ MkdirOk(c) \/ MkdirFails(c) \/ OpenPid(c) \/ WritePid(c)
  \/ GcomEnds(c) \/ CountTimeout(c) \/ CatPid(c) \/ Probe(c)
  \/ StealUnlink(c) \/ StealRmdir(c) \/ ReleaseUnlink(c) \/ ReleaseRmdir(c)

\* Every process has ended: the system may stop here.
Finished == (\A c \in Callers : ~ Running(c)) /\ UNCHANGED vars

Next == (\E c \in Callers : Step(c) \/ Kill(c)) \/ Finished

Spec == Init /\ [][Next]_vars

\* The kernel schedules every process, and gcom's scripts carry their own timeouts.
FairSpec == Spec /\ \A c \in Callers : WF_vars(Step(c))

-------------------------------------------------------------------------------
(***************************************************************************)
(* Properties.                                                             *)
(***************************************************************************)

\* Every variable has its type.
TypeOK ==
  /\ pc \in [Callers -> PCs]
  /\ dir \in [Modems -> Callers \cup {NoOne}]
  /\ pidfile \in [Modems -> Callers \cup {NoOne, EmptyPid}]
  /\ fd \in [Callers -> Callers \cup {NoOne}]
  /\ seen \in [Callers -> Callers \cup {NoOne, EmptyPid}]
  /\ killed \in SUBSET Callers
  /\ timecnt \in Nat
  /\ count \in [Callers -> Nat]
  /\ timeouts \in SUBSET Callers
  /\ breached \in SUBSET Modems

\* Inside the lock: from mkdir to the end of the final rm -rf.
Holding == {"made", "opened", "gcom", "count", "relfile", "reldir"}

\* Serialisation of AT commands (lines 24-51): two live processes are inside
\* the lock of one modem only if, before, a waiting process removed the
\* directory of a live holder (lines 55-56).
MutexUnlessBreached ==
  \A c, d \in Callers :
    (/\ c # d /\ Port[c] = Port[d]
     /\ c \notin killed /\ d \notin killed
     /\ pc[c] \in Holding /\ pc[d] \in Holding) => Port[c] \in breached

\* What a waiting process may remove (lines 53-56): the directory of a live
\* holder is never removed by a process that read that holder's id.  A lock is
\* lost only to a process that saw an empty PID file or an older holder's id.
NoInformedTheft ==
  [][\A c \in Callers : \A m \in Modems :
       (/\ pc[c] = "stealdir" /\ pc'[c] = "try" /\ Port[c] = m
        /\ dir[m] \notin {NoOne, c} /\ dir'[m] = NoOne /\ Exists(dir[m]))
          => seen[c] # dir[m]]_vars

\* The timeout counter (lines 9-13, 33-50): it never exceeds the number of
\* commands that timed out, although it is read before the lock is taken and
\* shared by the processes of all modems.
CountedTimeouts == timecnt <= Cardinality(timeouts)

\* A lock directory without a PID file and without a live maker: every
\* process that meets it fails at `cat' (line 53) and sleeps.
Wedged(m) == dir[m] # NoOne /\ pidfile[m] = NoOne /\ ~ Exists(dir[m])

\* Progress (lines 23-61): every process ends, unless somebody was killed
\* while a directory had no PID file and the modem's lock is wedged for good.
EndsOrWedged ==
  \A c \in Callers :
    \/ <>(~ Running(c))
    \/ <>[](/\ Wedged(Port[c])
            /\ \E d \in killed : pc[d] \in {"made", "stealdir", "reldir"})
===============================================================================
