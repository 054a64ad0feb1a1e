---------------------------- MODULE GcomLockProofs ----------------------------
(***************************************************************************)
(* Theorems about gcom-locked, for any number of processes and modems.     *)
(***************************************************************************)
EXTENDS GcomLock, FiniteSetTheorems, TLAPS

\* While a modem's lock was never taken from a live holder, the directory that
\* exists is the one made by the process inside the lock.
HolderOwnsDir ==
  \A c \in Callers :
    (c \notin killed /\ pc[c] \in Holding /\ Port[c] \notin breached)
       => dir[Port[c]] = c

\* Ids found in PID files belong to processes that were started, and a process
\* that decided to remove a directory did so because the id it read was gone.
ProbedIsGone ==
  /\ \A m \in Modems : pidfile[m] \in Callers => pc[pidfile[m]] # "start"
  /\ \A c \in Callers : seen[c] \in Callers => pc[seen[c]] # "start"
  /\ \A c \in Callers :
       (pc[c] \in {"stealfile", "stealdir"} /\ seen[c] \in Callers)
          => ~ Exists(seen[c])

-------------------------------------------------------------------------------
\* Typing (all of gcom-locked): every step keeps every variable in its type.
THEOREM TypeCorrect == Spec => []TypeOK
<1>1. Init => TypeOK
  BY PortAssumption DEF Init, TypeOK, PCs
<1>2. TypeOK /\ [Next]_vars => TypeOK'
  <2> SUFFICES ASSUME TypeOK, [Next]_vars PROVE TypeOK'
    OBVIOUS
  <2> USE PortAssumption DEF TypeOK, PCs, At, Goto
  <2>1. ASSUME NEW c \in Callers, ReadTimecnt(c) PROVE TypeOK'
    <3>1. PICK v \in {timecnt} \cup {0 : d \in {d \in Callers : At(d, "count")}} :
             count' = [count EXCEPT ![c] = v]
      BY <2>1 DEF ReadTimecnt
    <3>2. v \in Nat
      OBVIOUS
    <3> QED
      BY <2>1, <3>1, <3>2 DEF ReadTimecnt
  <2>2. ASSUME NEW c \in Callers, MkdirOk(c) PROVE TypeOK'
    BY <2>2 DEF MkdirOk
  <2>3. ASSUME NEW c \in Callers, MkdirFails(c) PROVE TypeOK'
    BY <2>3 DEF MkdirFails
  <2>4. ASSUME NEW c \in Callers, OpenPid(c) PROVE TypeOK'
    BY <2>4 DEF OpenPid
  <2>5. ASSUME NEW c \in Callers, WritePid(c) PROVE TypeOK'
    BY <2>5 DEF WritePid
  <2>6. ASSUME NEW c \in Callers, GcomEnds(c) PROVE TypeOK'
    BY <2>6 DEF GcomEnds
  <2>7. ASSUME NEW c \in Callers, CountTimeout(c) PROVE TypeOK'
    BY <2>7 DEF CountTimeout
  <2>8. ASSUME NEW c \in Callers, CatPid(c) PROVE TypeOK'
    BY <2>8 DEF CatPid
  <2>9. ASSUME NEW c \in Callers, Probe(c) PROVE TypeOK'
    BY <2>9 DEF Probe
  <2>10. ASSUME NEW c \in Callers, StealUnlink(c) \/ ReleaseUnlink(c) PROVE TypeOK'
    BY <2>10 DEF StealUnlink, ReleaseUnlink, Unlink
  <2>11. ASSUME NEW c \in Callers, StealRmdir(c) \/ ReleaseRmdir(c) PROVE TypeOK'
    BY <2>11 DEF StealRmdir, ReleaseRmdir, Rmdir
  <2>12. ASSUME NEW c \in Callers, Kill(c) PROVE TypeOK'
    BY <2>12 DEF Kill
  <2>13. CASE UNCHANGED vars
    BY <2>13 DEF vars
  <2> QED
    BY <2>1, <2>2, <2>3, <2>4, <2>5, <2>6, <2>7, <2>8, <2>9, <2>10, <2>11,
       <2>12, <2>13 DEF Next, Step, Finished
<1> QED
  BY <1>1, <1>2, PTL DEF Spec

-------------------------------------------------------------------------------
\* The key step of mutual exclusion (lines 23-63): only the removal of a live
\* holder's directory, which sets `breached', separates a holder from its lock.
LEMMA HolderStep ==
  ASSUME TypeOK, TypeOK', HolderOwnsDir, [Next]_vars
  PROVE  HolderOwnsDir'
<1> SUFFICES ASSUME NEW c \in Callers,
                    c \notin killed', pc'[c] \in Holding, Port[c] \notin breached'
             PROVE  dir'[Port[c]] = c
  BY DEF HolderOwnsDir
<1> USE PortAssumption, CallersAssumption DEF TypeOK, At, Goto, Holding, HolderOwnsDir
<1>1. ASSUME NEW d \in Callers, MkdirOk(d) PROVE dir'[Port[c]] = c
  BY <1>1 DEF MkdirOk
<1>2. ASSUME NEW d \in Callers, ReadTimecnt(d) \/ MkdirFails(d) \/ CatPid(d)
      PROVE dir'[Port[c]] = c
  BY <1>2 DEF ReadTimecnt, MkdirFails, CatPid
<1>3. ASSUME NEW d \in Callers, OpenPid(d) \/ WritePid(d) PROVE dir'[Port[c]] = c
  BY <1>3 DEF OpenPid, WritePid
<1>4. ASSUME NEW d \in Callers, GcomEnds(d) \/ CountTimeout(d) \/ Probe(d)
      PROVE dir'[Port[c]] = c
  BY <1>4 DEF GcomEnds, CountTimeout, Probe
<1>5. ASSUME NEW d \in Callers, StealUnlink(d) \/ ReleaseUnlink(d)
      PROVE dir'[Port[c]] = c
  BY <1>5 DEF StealUnlink, ReleaseUnlink, Unlink
<1>6. ASSUME NEW d \in Callers, StealRmdir(d) \/ ReleaseRmdir(d)
      PROVE dir'[Port[c]] = c
  <2>1. c # d
    BY <1>6 DEF StealRmdir, ReleaseRmdir, Rmdir
  <2>2. pc[c] = pc'[c] /\ c \notin killed /\ breached \subseteq breached'
    BY <1>6, <2>1 DEF StealRmdir, ReleaseRmdir, Rmdir
  <2>3. dir[Port[c]] = c
    BY <2>2
  <2>4. Exists(c)
    BY <2>2 DEF Exists
  <2> QED
    BY <1>6, <2>1, <2>2, <2>3, <2>4 DEF StealRmdir, ReleaseRmdir, Rmdir
<1>7. ASSUME NEW d \in Callers, Kill(d) PROVE dir'[Port[c]] = c
  BY <1>7 DEF Kill
<1>8. CASE UNCHANGED vars
  BY <1>8 DEF vars
<1> QED
  BY <1>1, <1>2, <1>3, <1>4, <1>5, <1>6, <1>7, <1>8 DEF Next, Step, Finished

\* Serialisation of AT commands, for every number of processes: two live
\* processes are inside one modem's lock only after a live holder's directory
\* was removed by somebody else.
THEOREM Mutex == Spec => []MutexUnlessBreached
<1>1. Init => HolderOwnsDir
  BY DEF Init, HolderOwnsDir, Holding
<1>2. TypeOK /\ TypeOK' /\ HolderOwnsDir /\ [Next]_vars => HolderOwnsDir'
  BY HolderStep
<1>3. TypeOK /\ HolderOwnsDir => MutexUnlessBreached
  BY DEF HolderOwnsDir, MutexUnlessBreached
<1> QED
  BY <1>1, <1>2, <1>3, TypeCorrect, PTL DEF Spec

-------------------------------------------------------------------------------
\* A process once started never returns to "start", and one that is gone stays gone.
LEMMA GoneStaysGone ==
  ASSUME TypeOK, [Next]_vars, NEW p \in Callers, pc[p] # "start"
  PROVE  pc'[p] # "start" /\ (~ Exists(p) => ~ Exists(p)')
<1> USE PortAssumption DEF TypeOK, At, Goto, Exists
<1>1. ASSUME NEW d \in Callers, ReadTimecnt(d) \/ MkdirOk(d) \/ MkdirFails(d) \/ CatPid(d)
      PROVE pc'[p] # "start" /\ (~ Exists(p) => ~ Exists(p)')
  BY <1>1 DEF ReadTimecnt, MkdirOk, MkdirFails, CatPid
<1>2. ASSUME NEW d \in Callers, OpenPid(d) \/ WritePid(d)
      PROVE pc'[p] # "start" /\ (~ Exists(p) => ~ Exists(p)')
  BY <1>2 DEF OpenPid, WritePid
<1>3. ASSUME NEW d \in Callers, GcomEnds(d) \/ CountTimeout(d) \/ Probe(d)
      PROVE pc'[p] # "start" /\ (~ Exists(p) => ~ Exists(p)')
  BY <1>3 DEF GcomEnds, CountTimeout, Probe
<1>4. ASSUME NEW d \in Callers, StealUnlink(d) \/ ReleaseUnlink(d) \/ StealRmdir(d) \/ ReleaseRmdir(d)
      PROVE pc'[p] # "start" /\ (~ Exists(p) => ~ Exists(p)')
  BY <1>4 DEF StealUnlink, ReleaseUnlink, Unlink, StealRmdir, ReleaseRmdir, Rmdir
<1>5. ASSUME NEW d \in Callers, Kill(d)
      PROVE pc'[p] # "start" /\ (~ Exists(p) => ~ Exists(p)')
  BY <1>5 DEF Kill
<1>6. CASE UNCHANGED vars
  BY <1>6 DEF vars
<1> QED
  BY <1>1, <1>2, <1>3, <1>4, <1>5, <1>6 DEF Next, Step, Finished

\* What a waiting process knows when it removes a directory (lines 53-56).
LEMMA ProbedStep ==
  ASSUME TypeOK, TypeOK', ProbedIsGone, [Next]_vars
  PROVE  ProbedIsGone'
<1> USE PortAssumption, CallersAssumption DEF TypeOK, At, Goto
<1>1. \A p \in Callers : pc[p] # "start" =>
         pc'[p] # "start" /\ (~ Exists(p) => ~ Exists(p)')
  BY GoneStaysGone
<1>2. \A m \in Modems : pidfile'[m] \in Callers => pc'[pidfile'[m]] # "start"
  <2> SUFFICES ASSUME NEW m \in Modems, pidfile'[m] \in Callers
               PROVE  pc'[pidfile'[m]] # "start"
    OBVIOUS
  <2>1. CASE pidfile'[m] = pidfile[m]
    BY <2>1, <1>1 DEF ProbedIsGone
  <2>2. CASE pidfile'[m] # pidfile[m]
    <3>1. PICK d \in Callers : WritePid(d)
      BY <2>2 DEF Next, Step, Finished, vars, ReadTimecnt, MkdirOk, MkdirFails,
         OpenPid, GcomEnds, CountTimeout, CatPid, Probe, StealUnlink, Unlink,
         ReleaseUnlink, StealRmdir, ReleaseRmdir, Rmdir, Kill
    <3> QED
      BY <3>1, <2>2 DEF WritePid
  <2> QED
    BY <2>1, <2>2
<1>3. \A c \in Callers : seen'[c] \in Callers => pc'[seen'[c]] # "start"
  <2> SUFFICES ASSUME NEW c \in Callers, seen'[c] \in Callers
               PROVE  pc'[seen'[c]] # "start"
    OBVIOUS
  <2>1. CASE seen'[c] = seen[c]
    BY <2>1, <1>1 DEF ProbedIsGone
  <2>2. CASE seen'[c] # seen[c]
    <3>1. PICK d \in Callers : CatPid(d)
      BY <2>2 DEF Next, Step, Finished, vars, ReadTimecnt, MkdirOk, MkdirFails,
         OpenPid, WritePid, GcomEnds, CountTimeout, Probe, StealUnlink, Unlink,
         ReleaseUnlink, StealRmdir, ReleaseRmdir, Rmdir, Kill
    <3> QED
      BY <3>1, <2>2, <1>1 DEF CatPid, ProbedIsGone
  <2> QED
    BY <2>1, <2>2
<1>4. \A c \in Callers :
        (pc'[c] \in {"stealfile", "stealdir"} /\ seen'[c] \in Callers)
           => ~ Exists(seen[c])'
  <2> SUFFICES ASSUME NEW c \in Callers, pc'[c] \in {"stealfile", "stealdir"},
                      seen'[c] \in Callers
               PROVE  ~ Exists(seen[c])'
    OBVIOUS
  <2>1. seen'[c] = seen[c] /\ pc[c] \in {"probe", "stealfile", "stealdir"}
    BY DEF Next, Step, Finished, vars, ReadTimecnt, MkdirOk, MkdirFails,
       OpenPid, WritePid, GcomEnds, CountTimeout, CatPid, Probe, StealUnlink,
       Unlink, ReleaseUnlink, StealRmdir, ReleaseRmdir, Rmdir, Kill
  <2>2. ~ Exists(seen[c])
    <3>1. CASE pc[c] = "probe"
      <4>1. PICK d \in Callers : Probe(d) /\ d = c
        BY <3>1 DEF Next, Step, Finished, vars, ReadTimecnt, MkdirOk, MkdirFails,
           OpenPid, WritePid, GcomEnds, CountTimeout, CatPid, Probe, StealUnlink,
           Unlink, ReleaseUnlink, StealRmdir, ReleaseRmdir, Rmdir, Kill
      <4> QED
        BY <4>1, <2>1 DEF Probe
    <3> QED
      BY <3>1, <2>1 DEF ProbedIsGone
  <2>3. pc[seen[c]] # "start"
    BY <2>1 DEF ProbedIsGone
  <2> QED
    BY <1>1, <2>1, <2>2, <2>3 DEF Exists
<1> QED
  BY <1>2, <1>3, <1>4 DEF ProbedIsGone

\* A live holder's lock is never removed by a process that read that holder's
\* own id from the PID file (lines 53-56), whatever the number of processes.
THEOREM InformedTheft == Spec => NoInformedTheft
<1>1. Init => ProbedIsGone
  BY CallersAssumption DEF Init, ProbedIsGone
<1>2. TypeOK /\ TypeOK' /\ ProbedIsGone /\ [Next]_vars => ProbedIsGone'
  BY ProbedStep
<1>3. TypeOK /\ ProbedIsGone /\ [Next]_vars =>
        [\A c \in Callers : \A m \in Modems :
           (/\ pc[c] = "stealdir" /\ pc'[c] = "try" /\ Port[c] = m
            /\ dir[m] \notin {NoOne, c} /\ dir'[m] = NoOne /\ Exists(dir[m]))
              => seen[c] # dir[m]]_vars
  BY DEF TypeOK, ProbedIsGone
<1> QED
  BY <1>1, <1>2, <1>3, TypeCorrect, PTL DEF Spec, NoInformedTheft

-------------------------------------------------------------------------------
\* No process adds to the counter a command that did not time out.
CountInv ==
  /\ timecnt <= Cardinality(timeouts)
  /\ \A c \in Callers :
       /\ pc[c] \in {"start", "try", "cat", "probe", "stealfile", "stealdir",
                     "made", "opened", "gcom"}
            => c \notin timeouts /\ count[c] <= Cardinality(timeouts)
       /\ (pc[c] = "count" /\ c \in timeouts) => count[c] + 1 <= Cardinality(timeouts)

\* The counting of timeouts (lines 9-13 and 33-50) keeps CountInv.
LEMMA CountStep ==
  ASSUME TypeOK, TypeOK', CountInv, [Next]_vars
  PROVE  CountInv'
<1> USE PortAssumption, CallersAssumption DEF TypeOK, PCs, At, Goto, CountInv
<1>1. Cardinality(timeouts) \in Nat
  BY FS_Subset, FS_CardinalityType
<1>2. ASSUME NEW d \in Callers, ReadTimecnt(d) PROVE CountInv'
  <2>1. PICK v \in {timecnt} \cup {0 : e \in {e \in Callers : At(e, "count")}} :
           count' = [count EXCEPT ![d] = v]
    BY <1>2 DEF ReadTimecnt
  <2>2. v \in Nat /\ v <= Cardinality(timeouts)
    BY <1>1
  <2> QED
    BY <1>1, <1>2, <2>1, <2>2 DEF ReadTimecnt
<1>3. ASSUME NEW d \in Callers, MkdirOk(d) \/ MkdirFails(d) \/ CatPid(d) PROVE CountInv'
  BY <1>3 DEF MkdirOk, MkdirFails, CatPid
<1>4. ASSUME NEW d \in Callers, OpenPid(d) \/ WritePid(d) \/ Probe(d) PROVE CountInv'
  BY <1>4 DEF OpenPid, WritePid, Probe
<1>5. ASSUME NEW d \in Callers, GcomEnds(d) PROVE CountInv'
  <2>1. CASE timeouts' = timeouts
    BY <1>5, <2>1 DEF GcomEnds
  <2>2. CASE timeouts' = timeouts \cup {d}
    <3>1. d \notin timeouts
      BY <1>5 DEF GcomEnds
    <3>2. Cardinality(timeouts') = Cardinality(timeouts) + 1
      BY <2>2, <3>1, FS_Subset, FS_AddElement
    <3>3. /\ pc' = [pc EXCEPT ![d] = IF d \in killed THEN "done" ELSE "count"]
          /\ UNCHANGED <<timecnt, count>>
      BY <1>5 DEF GcomEnds
    <3>4. timecnt' <= Cardinality(timeouts')
      BY <1>1, <3>2, <3>3
    <3>5. ASSUME NEW c \in Callers, c # d
          PROVE  /\ pc'[c] = pc[c] /\ count'[c] = count[c]
                 /\ c \in timeouts' <=> c \in timeouts
      BY <2>2, <3>3, <3>5
    <3>6. pc[d] = "gcom" /\ pc'[d] \in {"done", "count"} /\ count'[d] = count[d]
      BY <1>5, <3>3 DEF GcomEnds
    <3> QED
      BY <1>1, <3>2, <3>4, <3>5, <3>6
  <2> QED
    BY <1>5, <2>1, <2>2 DEF GcomEnds
<1>6. ASSUME NEW d \in Callers, CountTimeout(d) PROVE CountInv'
  BY <1>1, <1>6 DEF CountTimeout
<1>7. ASSUME NEW d \in Callers, StealUnlink(d) \/ ReleaseUnlink(d) PROVE CountInv'
  BY <1>7 DEF StealUnlink, ReleaseUnlink, Unlink
<1>8. ASSUME NEW d \in Callers, StealRmdir(d) \/ ReleaseRmdir(d) PROVE CountInv'
  BY <1>8 DEF StealRmdir, ReleaseRmdir, Rmdir
<1>9. ASSUME NEW d \in Callers, Kill(d) PROVE CountInv'
  BY <1>9 DEF Kill
<1>10. CASE UNCHANGED vars
  BY <1>10 DEF vars
<1> QED
  BY <1>2, <1>3, <1>4, <1>5, <1>6, <1>7, <1>8, <1>9, <1>10 DEF Next, Step, Finished

\* The shared counter never exceeds the number of commands that timed out, for
\* any number of processes and modems, whatever stale value each one started from.
THEOREM Counted == Spec => []CountedTimeouts
<1>1. Init => CountInv
  <2>1. Cardinality({}) = 0
    BY FS_EmptySet
  <2> QED
    BY <2>1 DEF Init, CountInv
<1>2. TypeOK /\ TypeOK' /\ CountInv /\ [Next]_vars => CountInv'
  BY CountStep
<1>3. CountInv => CountedTimeouts
  BY DEF CountInv, CountedTimeouts
<1> QED
  BY <1>1, <1>2, <1>3, TypeCorrect, PTL DEF Spec
===============================================================================
