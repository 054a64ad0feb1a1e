------------------------------- MODULE PingTest -------------------------------
(***************************************************************************)
(* The custom ping test: test_ping.sh starts johns_ping.sh, which goes up  *)
(* a ladder of two tests, a restart of modem 1, a look for its connection, *)
(* a second restart, a longer look, and a reboot of the router.  The modem *)
(* is seen as the scripts see it: its `connected', its `empty' and         *)
(* /tmp/usbwait, which other scripts that restart it change as well.       *)
(***************************************************************************)
EXTENDS Naturals

CONSTANTS Tries,        \* looks after the first and after the second restart
          MaxFaults     \* bound: how often others interfere

ASSUME PingAssumption ==
  /\ MaxFaults \in Nat
  /\ Tries \in [1..2 -> Nat \ {0}]

VARIABLES internet,   \* the servers answer through a connected modem
          modem,      \* "up", "dialling", "failed" (the dial ended without a
                      \* connection), "reset" (about to leave) or "gone"
          connected,  \* modem.modem1.connected
          usbwait,    \* /tmp/usbwait exists
          enable,     \* ping.ping.enable
          pc,         \* johns_ping.sh
          re,         \* its $RE: ping.ping.reboot, "Reboot Only" on the page
          rung,       \* which restart it is at
          tries,      \* the looks left
          page,       \* ping.ping.conn
          faults,     \* faults so far
          failed,     \* history: failed tests since the last good one
          restarts    \* history: restarts among them

device == <<modem, connected, usbwait>>
vars == <<internet, device, enable, pc, re, rung, tries, page, faults, failed, restarts>>

Init ==
  /\ internet \in BOOLEAN /\ enable \in BOOLEAN
  /\ modem = "gone" /\ connected = FALSE /\ usbwait = FALSE
  /\ pc = "idle" /\ re = FALSE /\ rung = 0 /\ tries = 0 /\ page = 1
  /\ faults = 0 /\ failed = 0 /\ restarts = 0

-----------------------------------------------------------------------------
\* The modem and the scripts around it: a reset modem leaves, the remove handler
\* runs; it comes back and is dialled.
Leave ==
  /\ modem = "reset"
  /\ modem' = "gone" /\ connected' = FALSE /\ usbwait' = FALSE
  /\ UNCHANGED <<internet, enable, pc, re, rung, tries, page, faults, failed, restarts>>

Return ==
  /\ modem = "gone"
  /\ modem' = "dialling" /\ usbwait' = FALSE
  /\ UNCHANGED <<internet, connected, enable, pc, re, rung, tries, page, faults, failed, restarts>>

\* create_connect.sh ends after its last APN: connected=1, or BRK=1.
DialDone ==
  /\ modem = "dialling"
  /\ \/ modem' = "up" /\ connected' = TRUE
     \/ modem' = "failed" /\ UNCHANGED connected
  /\ UNCHANGED <<internet, usbwait, enable, pc, re, rung, tries, page, faults, failed, restarts>>

\* Others: the watchdog, the connection monitor or the user restarts the modem,
\* netifd loses the link and dials anew, another modem is plugged in.
Fault ==
  /\ faults < MaxFaults /\ faults' = faults + 1
  /\ \/ /\ modem \in {"up", "dialling", "failed"}
        /\ modem' = "reset" /\ usbwait' = TRUE
        /\ UNCHANGED connected
     \/ /\ modem = "up"
        /\ modem' = "dialling" /\ connected' = FALSE
        /\ UNCHANGED usbwait
     \/ usbwait' = FALSE /\ UNCHANGED <<modem, connected>>
  /\ UNCHANGED <<internet, enable, pc, re, rung, tries, page, failed, restarts>>

Internet ==
  /\ internet' = ~internet
  /\ UNCHANGED <<device, enable, pc, re, rung, tries, page, faults, failed, restarts>>

\* The page of the test.
Toggle ==
  /\ enable' = ~enable
  /\ UNCHANGED <<internet, device, pc, re, rung, tries, page, faults, failed, restarts>>

-----------------------------------------------------------------------------
\* doping: any of the three servers answers.  A test may fail by itself.
Doping(good) == good => internet /\ modem = "up"

\* The ladder needs four; more failures than that are not told apart.
Verdict(good) ==
  /\ failed' = IF good THEN 0 ELSE IF failed < 4 THEN failed + 1 ELSE failed
  /\ restarts' = IF good THEN 0 ELSE restarts

\* restart.sh: restartrun.sh ends at once without a modem, else it waits; the
\* modem is reset, or ignores the command.
Restart ==
  /\ rung' = rung + 1
  /\ restarts' = IF restarts < 2 THEN restarts + 1 ELSE restarts
  /\ pc' = "wait"
  /\ \/ /\ modem = "gone"
        /\ UNCHANGED <<modem, usbwait>>
     \/ /\ modem # "gone"
        /\ usbwait' = TRUE
        /\ \/ modem' = "reset"
           \/ UNCHANGED modem

\* test_ping.sh: once an interval; a test that is under way is left alone, and one
\* that is not enabled is not begun.
Tick ==
  /\ pc # "rebooted" /\ enable
  /\ \/ /\ connected /\ pc = "idle"
        /\ pc' = "first" /\ page' = 4 /\ re' \in BOOLEAN
     \/ ~connected /\ page' = 1 /\ UNCHANGED <<pc, re>>
  /\ UNCHANGED <<internet, device, enable, rung, tries, faults, failed, restarts>>

\* Mutant: one failed test is enough.
FirstTestOnly ==
  /\ pc = "first"
  /\ \E good \in BOOLEAN :
       /\ Doping(good) /\ Verdict(good)
       /\ \/ good /\ page' = 2 /\ pc' = "idle"
          \/ ~good /\ page' = 3 /\ pc' = "act"
  /\ UNCHANGED <<internet, device, enable, re, rung, tries, faults>>

FirstTest ==
  /\ pc = "first"
  /\ \E good \in BOOLEAN :
       /\ Doping(good) /\ Verdict(good)
       /\ \/ good /\ page' = 2 /\ pc' = "idle"
          \/ ~good /\ UNCHANGED page /\ pc' = "second"
  /\ UNCHANGED <<internet, device, enable, re, rung, tries, faults>>

\* A good second test ends the script and leaves the page as it is.
SecondTest ==
  /\ pc = "second"
  /\ \E good \in BOOLEAN :
       /\ Doping(good) /\ Verdict(good)
       /\ \/ good /\ UNCHANGED page /\ pc' = "idle"
          \/ ~good /\ page' = 3 /\ pc' = "act"
  /\ UNCHANGED <<internet, device, enable, re, rung, tries, faults>>

\* After two failed tests, and after the first look, the modem is restarted;
\* after the second look, or with "Reboot Only", the router.
Act ==
  /\ pc = "act"
  /\ \/ /\ re \/ rung = 2
        /\ pc' = "rebooted"
        /\ UNCHANGED <<modem, usbwait, rung, restarts>>
     \/ /\ ~re /\ rung < 2
        /\ Restart
  /\ UNCHANGED <<internet, connected, enable, re, tries, page, faults, failed>>

\* restartrun.sh ends when usbwait is gone; the looks begin.
WaitOver ==
  /\ pc = "wait" /\ ~usbwait
  /\ pc' = "look" /\ tries' = Tries[rung]
  /\ UNCHANGED <<internet, device, enable, re, rung, page, faults, failed, restarts>>

\* Mutant: without a connection ptest leaves status at 0.
PtestForgives ==
  /\ pc = "look"
  /\ \/ /\ connected
        /\ \E good \in BOOLEAN :
             /\ Doping(good) /\ Verdict(good)
             /\ \/ good /\ page' = 2 /\ pc' = "idle" /\ rung' = 0 /\ tries' = 0
                \/ ~good /\ page' = 1 /\ pc' = "act" /\ tries' = 0 /\ UNCHANGED rung
     \/ /\ ~connected /\ tries' = tries - 1
        /\ \/ tries > 1 /\ UNCHANGED <<pc, rung, page, failed, restarts>>
           \/ /\ tries = 1
              /\ pc' = "idle" /\ rung' = 0 /\ page' = 2
              /\ UNCHANGED <<failed, restarts>>
  /\ UNCHANGED <<internet, device, enable, re, faults>>

\* ptest: the test is made once, as soon as the modem is connected.
Ptest ==
  /\ pc = "look"
  /\ \/ /\ connected
        /\ \E good \in BOOLEAN :
             /\ Doping(good) /\ Verdict(good)
             /\ \/ good /\ page' = 2 /\ pc' = "idle" /\ rung' = 0 /\ tries' = 0
                \/ ~good /\ page' = 1 /\ pc' = "act" /\ tries' = 0 /\ UNCHANGED rung
     \/ /\ ~connected /\ tries' = tries - 1
        /\ \/ tries > 1 /\ UNCHANGED <<pc, page, failed, restarts>>
           \/ tries = 1 /\ Verdict(FALSE) /\ pc' = "act" /\ UNCHANGED page
        /\ UNCHANGED rung
  /\ UNCHANGED <<internet, device, enable, re, faults>>

-----------------------------------------------------------------------------
Device == Leave \/ Return \/ DialDone
Test == FirstTest \/ SecondTest \/ Act \/ WaitOver \/ Ptest

Next == Device \/ Fault \/ Internet \/ Toggle \/ Tick \/ Test

Spec == Init /\ [][Next]_vars

\* The scripts run, create_connect.sh among them, whatever comes of its dial; a
\* reset modem leaves the bus and comes back.
Fairness == WF_vars(Leave) /\ WF_vars(Return) /\ WF_vars(DialDone)
            /\ WF_vars(Tick) /\ WF_vars(Test)

FairSpec == Spec /\ Fairness

-----------------------------------------------------------------------------
\* Types; a script that waits has restarted the modem.
TypeOK ==
  /\ internet \in BOOLEAN /\ connected \in BOOLEAN /\ usbwait \in BOOLEAN
  /\ re \in BOOLEAN /\ enable \in BOOLEAN
  /\ modem \in {"up", "dialling", "failed", "reset", "gone"}
  /\ pc \in {"idle", "first", "second", "act", "wait", "look", "rebooted"}
  /\ rung \in 0..2 /\ (pc \in {"wait", "look"} => rung > 0)
  /\ tries \in 0..(Tries[1] + Tries[2]) /\ (pc = "look" => tries > 0)
  /\ page \in 1..4 /\ faults \in 0..MaxFaults
  /\ failed \in 0..4 /\ restarts \in 0..2

\* The router is rebooted only after tests that failed in a row, without a good
\* one in between: two with "Reboot Only", else two, a restart, a third, a
\* restart and a fourth (johns_ping.sh 97-143).
RebootEarned ==
  pc = "rebooted" => \/ re /\ failed >= 2
                     \/ failed = 4 /\ restarts = 2

\* A modem that ignored its reset keeps the script waiting for ever.
Stuck == pc = "wait" /\ usbwait /\ modem # "reset"

\* No test is begun with a modem whose dial failed, until something restarts it.
Unconnected == pc = "idle" /\ modem = "failed"

\* A dead connection is noticed while the test is enabled: in the end a test is
\* good or the router is rebooted, unless a modem that ignored its reset keeps the
\* script waiting, or one that could not be dialled keeps it from being started
\* (test_ping.sh 16-35, johns_ping.sh 97-143, restartrun.sh 222-225).
DeadIsNoticed ==
  (enable /\ ~internet) ~> (~enable \/ internet \/ pc = "rebooted" \/ Stuck \/ Unconnected)
=============================================================================
