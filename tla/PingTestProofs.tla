---------------------------- MODULE PingTestProofs ----------------------------
(***************************************************************************)
(* The ladder of johns_ping.sh is climbed rung by rung, for any number of  *)
(* looks and of restarts by others.                                        *)
(***************************************************************************)
EXTENDS PingTest, TLAPS

\* What the script has behind it at each of its points: a failed test before the
\* second one, and one test and one restart more with every rung.
Ladder ==
  /\ pc \in {"idle", "first", "second"} => rung = 0
  /\ pc = "second" => failed >= 1
  /\ pc = "act" => failed >= 2 + rung /\ restarts >= rung
  /\ pc \in {"wait", "look"} => failed >= 1 + rung /\ restarts >= rung

IInv == TypeOK /\ Ladder /\ RebootEarned

\* The looks after a restart are a positive number within the bound.
LEMMA TriesFacts ==
  /\ Tries[1] \in Nat \ {0} /\ Tries[2] \in Nat \ {0}
  /\ \A k \in 1..2 : Tries[k] \in 1..(Tries[1] + Tries[2])
<1>1. Tries[1] \in Nat \ {0} /\ Tries[2] \in Nat \ {0}
  BY PingAssumption
<1> QED
  BY <1>1

\* A verdict counts, up to four.
LEMMA VerdictFacts ==
  ASSUME TypeOK, NEW good \in BOOLEAN, Verdict(good)
  PROVE  /\ failed' \in 0..4 /\ restarts' \in 0..2
         /\ ~good => /\ restarts' = restarts
                     /\ failed' >= failed /\ (failed < 4 => failed' = failed + 1)
BY DEF TypeOK, Verdict

-----------------------------------------------------------------------------
LEMMA LadderInit == Init => IInv
<1> SUFFICES ASSUME Init PROVE IInv
  OBVIOUS
<1>1. /\ internet \in BOOLEAN /\ connected \in BOOLEAN /\ usbwait \in BOOLEAN
      /\ re \in BOOLEAN /\ enable \in BOOLEAN
  BY Zenon DEF Init
<1>2. tries \in 0..(Tries[1] + Tries[2]) /\ faults \in 0..MaxFaults
  BY TriesFacts, PingAssumption DEF Init
<1>3. Ladder /\ RebootEarned
  BY DEF Init, Ladder, RebootEarned
<1> QED
  BY <1>1, <1>2, <1>3 DEF Init, IInv, TypeOK

LEMMA LadderStep == IInv /\ [Next]_vars => IInv'
<1> SUFFICES ASSUME IInv, [Next]_vars PROVE IInv'
  OBVIOUS
<1> USE TriesFacts, PingAssumption DEF IInv, TypeOK, Ladder, RebootEarned
<1>1. CASE Device
  BY <1>1 DEF Device, Leave, Return, DialDone
<1>2. CASE Fault
  <2>1. connected' \in BOOLEAN /\ usbwait' \in BOOLEAN
    BY <1>2, Zenon DEF Fault
  <2>2. modem' \in {"up", "dialling", "failed", "reset", "gone"} /\ faults' \in 0..MaxFaults
    BY <1>2 DEF Fault
  <2> QED
    BY <1>2, <2>1, <2>2 DEF Fault
<1>3. CASE Internet \/ Toggle
  <2>1. internet' \in BOOLEAN /\ enable' \in BOOLEAN
    BY <1>3, Zenon DEF Internet, Toggle
  <2>2. UNCHANGED <<modem, connected, usbwait, pc, re, rung, tries, page, faults, failed, restarts>>
    BY <1>3 DEF Internet, Toggle, device
  <2> QED
    BY <2>1, <2>2
<1>4. CASE Tick
  BY <1>4 DEF Tick, device
<1>5. CASE FirstTest
  <2>1. PICK good \in BOOLEAN :
          /\ Verdict(good)
          /\ \/ good /\ page' = 2 /\ pc' = "idle"
             \/ ~good /\ UNCHANGED page /\ pc' = "second"
    BY <1>5 DEF FirstTest
  <2> QED
    BY <1>5, <2>1, VerdictFacts DEF FirstTest, device
<1>6. CASE SecondTest
  <2>1. PICK good \in BOOLEAN :
          /\ Verdict(good)
          /\ \/ good /\ UNCHANGED page /\ pc' = "idle"
             \/ ~good /\ page' = 3 /\ pc' = "act"
    BY <1>6 DEF SecondTest
  <2> QED
    BY <1>6, <2>1, VerdictFacts DEF SecondTest, device
<1>7. CASE Act
  <2>1. CASE pc' = "rebooted"
    BY <1>7, <2>1 DEF Act, Restart
  <2>2. CASE pc' = "wait"
    <3>1. /\ rung < 2 /\ rung' = rung + 1 /\ pc = "act"
          /\ restarts' = IF restarts < 2 THEN restarts + 1 ELSE restarts
          /\ UNCHANGED <<internet, connected, enable, re, tries, page, faults, failed>>
      BY <1>7, <2>2 DEF Act, Restart
    <3>2. modem' \in {"up", "dialling", "failed", "reset", "gone"} /\ usbwait' \in BOOLEAN
      BY <1>7, <2>2, Zenon DEF Act, Restart
    <3> QED
      BY <2>2, <3>1, <3>2
  <2> QED
    BY <1>7, <2>1, <2>2 DEF Act, Restart
<1>8. CASE WaitOver
  BY <1>8 DEF WaitOver, device
<1>9. CASE Ptest
  <2>1. CASE connected
    <3>1. PICK good \in BOOLEAN :
            /\ Verdict(good)
            /\ \/ good /\ page' = 2 /\ pc' = "idle" /\ rung' = 0 /\ tries' = 0
               \/ ~good /\ page' = 1 /\ pc' = "act" /\ tries' = 0 /\ UNCHANGED rung
      BY <1>9, <2>1 DEF Ptest
    <3> QED
      BY <1>9, <3>1, VerdictFacts DEF Ptest, device
  <2>2. CASE ~connected
    <3>1. pc = "look" /\ tries' = tries - 1 /\ rung' = rung
          /\ UNCHANGED <<internet, modem, connected, usbwait, enable, re, faults, page>>
      BY <1>9, <2>2 DEF Ptest, device
    <3>2. CASE tries > 1 /\ UNCHANGED <<pc, failed, restarts>>
      BY <3>1, <3>2
    <3>3. CASE tries = 1 /\ Verdict(FALSE) /\ pc' = "act"
      <4>1. /\ failed' \in 0..4 /\ restarts' \in 0..2 /\ restarts' = restarts
            /\ failed' >= failed /\ (failed < 4 => failed' = failed + 1)
        BY <3>3, VerdictFacts
      <4> QED
        BY <3>1, <3>3, <4>1
    <3> QED
      BY <1>9, <2>2, <3>2, <3>3 DEF Ptest
  <2> QED
    BY <2>1, <2>2
<1>10. CASE UNCHANGED vars
  BY <1>10 DEF vars, device
<1> QED
  BY <1>1, <1>2, <1>3, <1>4, <1>5, <1>6, <1>7, <1>8, <1>9, <1>10 DEF Next, Test

\* Typing (test_ping.sh, johns_ping.sh): among it that a script never looks
\* without looks left, and is never past its second restart.
THEOREM TypeCorrect == Spec => []TypeOK
<1>1. IInv => TypeOK
  BY DEF IInv
<1> QED
  BY LadderInit, LadderStep, <1>1, PTL DEF Spec

\* The router is never rebooted for less than the whole ladder of failed tests
\* and restarts, whoever else restarts the modem (johns_ping.sh 97-143).
THEOREM Earned == Spec => []RebootEarned
<1>1. IInv => RebootEarned
  BY DEF IInv
<1> QED
  BY LadderInit, LadderStep, <1>1, PTL DEF Spec
===============================================================================
