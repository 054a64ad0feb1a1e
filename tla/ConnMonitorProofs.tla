--------------------------- MODULE ConnMonitorProofs ---------------------------
(***************************************************************************)
(* Theorems about the connection monitor, for every configuration of its   *)
(* scores, reliability and tracking hosts.                                 *)
(***************************************************************************)
EXTENDS ConnMonitor, TLAPS

\* What ties the count-down scores and the poll counter to what was observed.
ScoreInv ==
  /\ pc \in {"loop", "round"} => acted = "nothing" /\ polls = cnt - 1
  /\ pc = "loop" => verdict = "up"
  /\ pc = "round" =>
       /\ verdict = "testing"
       /\ score_up \in 1..UP /\ score_dwn \in 1..DOWN
       /\ fails = DOWN - score_dwn
  /\ ActsOnEvidence

IInv == TypeOK /\ ScoreInv

\* Every step of the monitor and of its environment keeps the counters honest.
LEMMA IInvStep ==
  ASSUME IInv, [Next]_vars
  PROVE  IInv'
<1> USE ScoreAssumption, TrackAssumption
        DEF IInv, TypeOK, ScoreInv, ActsOnEvidence, conf, env, scores, Act
<1>1. CASE LinkChanges \/ AddressChanges \/ OwnerChanges
  BY <1>1 DEF LinkChanges, AddressChanges, OwnerChanges
<1>2. CASE PollGood
  BY <1>2 DEF PollGood
<1>3. CASE PollBad
  BY <1>3 DEF PollBad
<1>4. CASE NoAddress
  BY <1>4 DEF NoAddress
<1>5. CASE PingBegin
  BY <1>5 DEF PingBegin
<1>6. CASE NoTracks
  BY <1>6 DEF NoTracks
<1>7. CASE RoundFails
  BY <1>7 DEF RoundFails
<1>8. CASE RoundSucceeds
  BY <1>8 DEF RoundSucceeds
<1>9. CASE UNCHANGED vars
  BY <1>9 DEF vars
<1> QED
  BY <1>1, <1>2, <1>3, <1>4, <1>5, <1>6, <1>7, <1>8, <1>9
     DEF Next, Monitor, StandBack, Gone

\* IInv is an invariant of the monitor (conmon.sh lines 12-57 and 98-162).
LEMMA IInvariant == Spec => []IInv
<1>1. Init => IInv
  BY ScoreAssumption, TrackAssumption
     DEF Init, IInv, TypeOK, ScoreInv, ActsOnEvidence
<1>2. IInv /\ [Next]_vars => IInv'
  BY IInvStep
<1> QED
  BY <1>1, <1>2, PTL DEF Spec

\* Typing of the monitor: in particular no score ever passes zero.
THEOREM TypeCorrect == Spec => []TypeOK
<1>1. IInv => TypeOK
  BY DEF IInv
<1> QED
  BY <1>1, IInvariant, PTL

\* A modem is restarted only after DOWN failed tests or three bad polls, with no
\* good one in between, for every configuration.
THEOREM Evidence == Spec => []ActsOnEvidence
<1>1. IInv => ActsOnEvidence
  BY DEF IInv, ScoreInv
<1> QED
  BY <1>1, IInvariant, PTL

-------------------------------------------------------------------------------
\* The monitor implements the promise about ping tests: its two count-down scores
\* give the verdict that counting tests in a row gives.
THEOREM Promise == Spec => KeepsItsPromise
<1>1. Init => Link!Init
  BY ScoreAssumption DEF Init, Link!Init
<1>2. IInv /\ [Next]_vars => [Link!Next]_(Link!lvars)
  <2> SUFFICES ASSUME IInv, [Next]_vars PROVE [Link!Next]_(Link!lvars)
    OBVIOUS
  <2> USE ScoreAssumption DEF IInv, TypeOK, ScoreInv, conf, env, scores, Act
  <2>1. CASE PingBegin
    <3>1. Link!Begin
      BY <2>1 DEF PingBegin, Link!Begin
    <3> QED
      BY <3>1 DEF Link!Next
  <2>2. CASE RoundFails
    <3>1. Link!Failure
      BY <2>2 DEF RoundFails, Link!Failure
    <3> QED
      BY <3>1 DEF Link!Next
  <2>3. CASE RoundSucceeds
    <3>1. Link!Success
      BY <2>3 DEF RoundSucceeds, Link!Success
    <3> QED
      BY <3>1 DEF Link!Next
  <2>4. CASE UNCHANGED scores
    BY <2>4 DEF Link!lvars
  <2> QED
    BY <2>1, <2>2, <2>3, <2>4 DEF Next, Monitor, LinkChanges, AddressChanges,
       OwnerChanges, PollGood, PollBad, StandBack, NoAddress, NoTracks, Gone, vars
<1> QED
  BY <1>1, <1>2, IInvariant, PTL DEF Spec, KeepsItsPromise, Link!Spec
===============================================================================
