--------------------------- MODULE WanChoiceProofs ---------------------------
(***************************************************************************)
(* Two modems get different WAN interfaces whatever their profiles ask for,*)
(* as long as they do not look at each other at the same time.             *)
(***************************************************************************)
EXTENDS WanChoice, TLAPS

Window == {"compare", "write"}

\* A modem that has yet to write its interface has not chosen.
ChoosersFirst ==
  \A m \in Modems : pc[m] \in {"profile", "look", "compare", "write"} => m \notin chosen

\* Two modems between look and write: the later one has seen the race.
RaceSeen == (pc[1] \in Window /\ pc[2] \in Window) => raced

\* What is about to be written is not what the other modem uses.
WriteIsFree ==
  \A m \in Modems :
    (~raced /\ pc[m] = "write" /\ Other(m) \in chosen \ empty) => my[m] # inter[Other(m)]

\* The script of a modem in use has recorded the interface it configures.
RecordedFirst ==
  \A m \in Modems \ empty : pc[m] = "network" => inter[m] = my[m] /\ m \in chosen

\* The remove handler works for a modem that has gone.
HandlerOfGone == \A m \in Modems : rpc[m] # "none" => m \in empty

IInv == TypeOK /\ ChoosersFirst /\ RaceSeen /\ WriteIsFree /\ WanNotShared

\* The interfaces that can be meant.
LEMMA WanFacts ==
  /\ Modems \subseteq Wans /\ 0 \notin Wans /\ 0 \notin Modems
  /\ \A i \in Inters : i # 0 => i \in Wans
BY IntersAssumption DEF Wans, Modems

\* The types hold initially and are kept.
LEMMA TypeInit == Init => TypeOK
BY DEF Init, TypeOK

LEMMA TypeStep == TypeOK /\ [Next]_vars => TypeOK'
<1> SUFFICES ASSUME TypeOK, [Next]_vars PROVE TypeOK'
  OBVIOUS
<1> USE WanFacts
<1>1. ASSUME NEW m \in Modems, Plug(m) PROVE TypeOK'
  BY <1>1 DEF TypeOK, Plug, Goto, handler
<1>2. ASSUME NEW m \in Modems, GetProfile(m) PROVE TypeOK'
  BY <1>2 DEF TypeOK, GetProfile, Goto, handler, history
<1>3. ASSUME NEW m \in Modems, Look(m) PROVE TypeOK'
  BY <1>3 DEF TypeOK, Look, Goto, table, handler
<1>4. ASSUME NEW m \in Modems, Compare(m) PROVE TypeOK'
  <2>1. 1 \in Wans /\ 2 \in Wans
    BY DEF Wans
  <2> QED
    BY <1>4, <2>1 DEF TypeOK, Compare, Goto, table, handler, history
<1>5. ASSUME NEW m \in Modems, WriteInter(m) PROVE TypeOK'
  BY <1>5 DEF TypeOK, WriteInter, Goto, handler
<1>6. ASSUME NEW m \in Modems, WriteNetwork(m) PROVE TypeOK'
  <2>1. hit' \subseteq Modems
    BY <1>6 DEF TypeOK, WriteNetwork, Hits
  <2> QED
    BY <1>6, <2>1 DEF TypeOK, WriteNetwork, Goto, table, handler
<1>7. ASSUME NEW m \in Modems, Restart(m) PROVE TypeOK'
  <2>1. hit' \subseteq Modems
    BY <1>7 DEF TypeOK, Restart, Hits
  <2> QED
    BY <1>7, <2>1 DEF TypeOK, Restart, script, handler
<1>8. ASSUME NEW m \in Modems, Remove(m) PROVE TypeOK'
  BY <1>8 DEF TypeOK, Remove, script, history
<1>9. ASSUME NEW m \in Modems, ResetNetwork(m) PROVE TypeOK'
  <2>1. hit' \subseteq Modems
    BY <1>9 DEF TypeOK, ResetNetwork, Hits
  <2> QED
    BY <1>9, <2>1 DEF TypeOK, ResetNetwork, table, script
<1>10. ASSUME NEW m \in Modems, Kill(m) PROVE TypeOK'
  BY <1>10 DEF TypeOK, Kill, Goto, history
<1>11. CASE UNCHANGED vars
  BY <1>11 DEF TypeOK, vars, table, script, handler, history
<1> QED
  BY <1>1, <1>2, <1>3, <1>4, <1>5, <1>6, <1>7, <1>8, <1>9, <1>10, <1>11 DEF Next

-----------------------------------------------------------------------------
\* The invariant of the choice holds initially.
LEMMA ChoiceInit == Init => IInv
BY TypeInit DEF Init, IInv, ChoosersFirst, RaceSeen, WriteIsFree, WanNotShared, Modems, Window

\* No step makes the interfaces of the two modems meet.
LEMMA ChoiceStep == IInv /\ [Next]_vars => IInv'
<1> SUFFICES ASSUME IInv, [Next]_vars PROVE IInv'
  OBVIOUS
<1>0. TypeOK'
  BY TypeStep DEF IInv
<1> DEFINE Rest == ChoosersFirst /\ RaceSeen /\ WriteIsFree /\ WanNotShared
<1> USE DEF IInv, TypeOK, ChoosersFirst, RaceSeen, WriteIsFree, WanNotShared,
            Modems, Other, Window
<1>1. ASSUME NEW m \in Modems, Plug(m) PROVE Rest'
  BY <1>1 DEF Plug, Goto, handler
<1>2. ASSUME NEW m \in Modems, GetProfile(m) PROVE Rest'
  BY <1>2 DEF GetProfile, Goto, handler, history
<1>3. ASSUME NEW m \in Modems, Look(m) PROVE Rest'
  <2>1. raced' <=> pc[Other(m)] \in {"compare", "write"}
    BY <1>3, Zenon DEF Look
  <2>2. pc' = [pc EXCEPT ![m] = IF Other(m) \in empty THEN "write" ELSE "compare"]
        /\ UNCHANGED <<empty, inter, my, chosen>> /\ pc[m] = "look"
    BY <1>3 DEF Look, Goto, table
  <2> QED
    BY <2>1, <2>2
<1>4. ASSUME NEW m \in Modems, Compare(m) PROVE Rest'
  BY <1>4 DEF Compare, Goto, table, handler, history
<1>5. ASSUME NEW m \in Modems, WriteInter(m) PROVE Rest'
  BY <1>5 DEF WriteInter, Goto, handler
<1>6. ASSUME NEW m \in Modems, WriteNetwork(m) PROVE Rest'
  BY <1>6 DEF WriteNetwork, Goto, table, handler
<1>7. ASSUME NEW m \in Modems, Restart(m) PROVE Rest'
  BY <1>7 DEF Restart, script, handler
<1>8. ASSUME NEW m \in Modems, Remove(m) PROVE Rest'
  BY <1>8 DEF Remove, script, history
<1>9. ASSUME NEW m \in Modems, ResetNetwork(m) PROVE Rest'
  BY <1>9 DEF ResetNetwork, table, script
<1>10. ASSUME NEW m \in Modems, Kill(m) PROVE Rest'
  BY <1>10 DEF Kill, Goto, history
<1>11. CASE UNCHANGED vars
  BY <1>11 DEF vars, table, script, handler, history
<1> QED
  BY <1>0, <1>1, <1>2, <1>3, <1>4, <1>5, <1>6, <1>7, <1>8, <1>9, <1>10, <1>11 DEF Next

\* Typing (create_connect.sh 846-930, modeswitch.sh 603-682): among it that a
\* script and a handler never work on an interface that is not set.
THEOREM TypeCorrect == Spec => []TypeOK
<1> QED
  BY TypeInit, TypeStep, PTL DEF Spec

\* Two modems in use never have the same WAN interface unless they raced
\* (create_connect.sh 887-900), whatever the profiles ask for.
THEOREM WansDiffer == Spec => []WanNotShared
<1>1. Init => IInv
  BY ChoiceInit
<1>2. IInv /\ [Next]_vars => IInv'
  BY ChoiceStep
<1>3. IInv => WanNotShared
  BY DEF IInv
<1> QED
  BY <1>1, <1>2, <1>3, PTL DEF Spec

-----------------------------------------------------------------------------
SInv == IInv /\ RecordedFirst /\ HandlerOfGone /\ OwnSection

\* No step takes a section from a modem without being recorded.
LEMMA SectionStep == SInv /\ [Next]_vars => SInv'
<1> SUFFICES ASSUME SInv, [Next]_vars PROVE SInv'
  OBVIOUS
<1>0. IInv'
  BY ChoiceStep DEF SInv
<1> DEFINE Rest == RecordedFirst /\ HandlerOfGone /\ OwnSection
<1> USE WanFacts DEF SInv, IInv, TypeOK, RecordedFirst, HandlerOfGone, OwnSection
<1>1. ASSUME NEW m \in Modems, Plug(m) PROVE Rest'
  BY <1>1 DEF Plug, Goto, handler
<1>2. ASSUME NEW m \in Modems, GetProfile(m) PROVE Rest'
  BY <1>2 DEF GetProfile, Goto, handler, history, ChoosersFirst
<1>3. ASSUME NEW m \in Modems, Look(m) PROVE Rest'
  BY <1>3 DEF Look, Goto, table, handler
<1>4. ASSUME NEW m \in Modems, Compare(m) PROVE Rest'
  BY <1>4 DEF Compare, Goto, table, handler, history
<1>5. ASSUME NEW m \in Modems, WriteInter(m) PROVE Rest'
  BY <1>5 DEF WriteInter, Goto, handler
<1>6. ASSUME NEW m \in Modems, WriteNetwork(m) PROVE Rest'
  <2>1. RecordedFirst' /\ HandlerOfGone'
    BY <1>6 DEF WriteNetwork, Goto, table, handler
  <2>2. ASSUME NEW n \in chosen' \ empty', pc'[n] = "done",
               n \notin hit'
        PROVE  net'[inter'[n]] = n
    <3>1. CASE n = m
      BY <1>6, <2>2, <3>1 DEF WriteNetwork, table
    <3>2. CASE n # m
      <4>1. n \in chosen \ empty /\ pc[n] = "done" /\ n \notin hit
        BY <1>6, <2>2, <3>2 DEF WriteNetwork, Goto, table
      <4>2. inter[n] # my[m]
        <5>1. CASE m \in empty \/ raced
          <6>1. Hits(m, {my[m]}) \subseteq hit'
            BY <1>6, <5>1, Zenon DEF WriteNetwork
          <6> QED
            BY <6>1, <2>2, <3>2, <4>1, Zenon DEF Hits
        <5>2. CASE m \notin empty /\ ~raced
          <6>1. empty = {} /\ inter[1] # inter[2] /\ {m, n} = {1, 2}
            BY <1>6, <3>2, <4>1, <5>2 DEF WriteNetwork, WanNotShared, Modems
          <6> QED
            BY <1>6, <6>1, <5>2 DEF WriteNetwork
        <5> QED
          BY <5>1, <5>2
      <4> QED
        BY <1>6, <4>1, <4>2 DEF WriteNetwork, table
    <3> QED
      BY <3>1, <3>2
  <2> QED
    BY <2>1, <2>2
<1>7. ASSUME NEW m \in Modems, Restart(m) PROVE Rest'
  <2>1. RecordedFirst' /\ HandlerOfGone'
    BY <1>7 DEF Restart, script, handler
  <2>2. ASSUME NEW n \in chosen' \ empty', pc'[n] = "done",
               n \notin hit'
        PROVE  net'[inter'[n]] = n
    <3>1. hit \subseteq hit' /\ m \in hit'
          /\ Hits(m, {m, info[m]}) \subseteq hit' /\ UNCHANGED <<chosen, empty>>
      BY <1>7, Zenon DEF Restart
    <3>2. n # m /\ n \notin hit
      BY <2>2, <3>1
    <3>3. inter[n] # m
      BY <2>2, <3>1, <3>2, Zenon DEF Hits
    <3> QED
      BY <1>7, <2>2, <3>1, <3>2, <3>3 DEF Restart, script
  <2> QED
    BY <2>1, <2>2
<1>8. ASSUME NEW m \in Modems, Remove(m) PROVE Rest'
  BY <1>8 DEF Remove, script, history
<1>9. ASSUME NEW m \in Modems, ResetNetwork(m) PROVE Rest'
  <2>1. RecordedFirst' /\ HandlerOfGone'
    BY <1>9 DEF ResetNetwork, table, script
  <2>2. ASSUME NEW n \in chosen' \ empty', pc'[n] = "done",
               n \notin hit'
        PROVE  net'[inter'[n]] = n
    <3>1. hit \subseteq hit' /\ Hits(m, {gone[m]}) \subseteq hit'
          /\ UNCHANGED <<chosen, empty>>
      BY <1>9, Zenon DEF ResetNetwork, table
    <3>2. n # m /\ n \notin hit
      BY <1>9, <2>2, <3>1 DEF ResetNetwork
    <3>3. inter[n] # gone[m]
      BY <2>2, <3>1, <3>2, Zenon DEF Hits
    <3> QED
      BY <1>9, <2>2, <3>1, <3>2, <3>3 DEF ResetNetwork, table, script
  <2> QED
    BY <2>1, <2>2
<1>10. ASSUME NEW m \in Modems, Kill(m) PROVE Rest'
  BY <1>10 DEF Kill, Goto, history
<1>11. CASE UNCHANGED vars
  <2>1. UNCHANGED <<empty, inter, net, pc, my, rpc, chosen, hit>>
    BY <1>11 DEF vars, table, script, handler, history
  <2>2. RecordedFirst' /\ HandlerOfGone'
    BY <2>1
  <2>3. ASSUME NEW n \in chosen' \ empty', pc'[n] = "done",
               n \notin hit'
        PROVE  net'[inter'[n]] = n
    <3>1. chosen' = chosen /\ empty' = empty /\ pc' = pc /\ hit' = hit
      BY <2>1
    <3>2. n \notin hit
      BY <2>3, <3>1, Zenon
    <3> QED
      BY <2>1, <2>3, <3>1, <3>2
  <2> QED
    BY <1>0, <2>2, <2>3
<1> QED
  BY <1>0, <1>1, <1>2, <1>3, <1>4, <1>5, <1>6, <1>7, <1>8, <1>9, <1>10, <1>11 DEF Next

\* A modem in use keeps the section it configured until it is restarted, or the
\* other modem is restarted, removed or raced with it (create_connect.sh 922,
\* restartrun.sh 211, modeswitch.sh 636).
THEOREM SectionsKept == Spec => []OwnSection
<1>1. Init => SInv
  BY ChoiceInit DEF Init, SInv, RecordedFirst, HandlerOfGone, OwnSection
<1>2. SInv /\ [Next]_vars => SInv'
  BY SectionStep
<1>3. SInv => OwnSection
  BY DEF SInv
<1> QED
  BY <1>1, <1>2, <1>3, PTL DEF Spec
=============================================================================
