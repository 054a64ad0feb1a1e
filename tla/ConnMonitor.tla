------------------------------ MODULE ConnMonitor ------------------------------
(***************************************************************************)
(* The connection monitor of one modem, connect/conmon.sh.                 *)
(*                                                                         *)
(* Once a modem is connected the monitor watches its link in one of three  *)
(* ways, chosen anew in every round of its loop: it polls the status file  *)
(* of mwan3track when mwan3 manages the interface, it stands back when the *)
(* custom ping test is enabled, and otherwise it looks for an IP address   *)
(* and runs its own ping test.  A bad link ends in a restart of the modem  *)
(* or a reboot of the router.  The link, the mwan3 configuration and the   *)
(* custom ping switch change under its feet.                               *)
(***************************************************************************)
EXTENDS Integers

CONSTANTS UP, DOWN,   \* pinginfo.up, pinginfo.down
          RELIAB,     \* pinginfo.reliability
          MaxTracks   \* bound: number of tracking IP addresses

ASSUME ScoreAssumption == UP \in Nat \ {0} /\ DOWN \in Nat \ {0}
ASSUME TrackAssumption == RELIAB \in Nat \ {0} /\ MaxTracks \in Nat

VARIABLES tracks,     \* number of tracking IP addresses, read at the start
          alive,      \* pinginfo.alive, read at the start: "0" off, "2" reboot the
                      \* router, "3" restart the modem
          link,       \* the link: "up" (all hosts answer), "flaky", "down"
          address,    \* "yes" or "no": the interface has an IP address
          owner,      \* who tests: mwan3 if it is enabled, else the custom ping
                      \* test if that is enabled, else the monitor itself
          pc,         \* control point
          cnt,        \* bad mwan3 polls so far, plus one
          score_up, score_dwn,
          verdict,    \* result of the last ping test, or "testing"
          acted,      \* what the monitor did about a bad link, and why
          fails,      \* history: failed ping tests in a row
          polls       \* history: bad mwan3 polls in a row

conf == <<tracks, alive>>
env == <<conf, link, address, owner>>
scores == <<score_up, score_dwn, verdict, fails>>
vars == <<env, pc, cnt, scores, acted, polls>>

Statuses == {"nil", "connecting", "online", "disconnecting", "offline"}
BadStatuses == {"disconnecting", "offline"}

Init ==
  /\ tracks \in 0..MaxTracks /\ alive \in {"0", "2", "3"}
  /\ link = "up" /\ address = "yes"
  /\ owner \in {"mwan3", "custom", "monitor"}
  /\ pc = IF alive = "0" THEN "exit" ELSE "loop"
  /\ cnt = 1
  /\ score_up = UP /\ score_dwn = DOWN /\ verdict = "up"
  /\ acted = "nothing"
  /\ fails = 0 /\ polls = 0

-------------------------------------------------------------------------------
(***************************************************************************)
(* The environment.                                                        *)
(***************************************************************************)
LinkChanges ==
  /\ link' \in {"up", "flaky", "down"} \ {link}
  /\ UNCHANGED <<conf, address, owner, pc, cnt, scores, acted, polls>>

AddressChanges ==
  /\ address' \in {"yes", "no"} \ {address}
  /\ UNCHANGED <<conf, link, owner, pc, cnt, scores, acted, polls>>

OwnerChanges ==
  /\ owner' \in {"mwan3", "custom", "monitor"} \ {owner}
  /\ UNCHANGED <<conf, link, address, pc, cnt, scores, acted, polls>>

\* The status mwan3track (external) shows; it has noticed a dead link.
Status == CASE link = "up" -> Statuses \ BadStatuses
            [] link = "flaky" -> Statuses
            [] link = "down" -> BadStatuses

\* How many tracking hosts answer a test.
Replies == CASE link = "up" -> {tracks}
             [] link = "flaky" -> 0..tracks
             [] link = "down" -> {0}

-------------------------------------------------------------------------------
(***************************************************************************)
(* The monitor.                                                            *)
(***************************************************************************)

\* restart(): reboot the router, or restart the modem and exit.
Act(why) ==
  /\ acted' = why
  /\ pc' = IF alive = "2" THEN "reboot" ELSE "exit"

\* One poll of the mwan3 status: the third bad one in a row counts.  mwan3 is
\* switched off for the interface before the modem is restarted.
PollGood ==
  /\ pc = "loop" /\ owner = "mwan3"
  /\ Status \ BadStatuses # {}
  /\ cnt' = 1 /\ polls' = 0
  /\ UNCHANGED <<env, pc, scores, acted>>

\* Mutant: the poll counter is tested before the third bad poll.
PollBadEarly ==
  /\ pc = "loop" /\ owner = "mwan3"
  /\ Status \cap BadStatuses # {}
  /\ polls' = polls + 1
  /\ IF cnt > 1
       THEN Act("mwan3") /\ owner' \in {"custom", "monitor"} /\ cnt' = 1
       ELSE cnt' = cnt + 1 /\ UNCHANGED <<pc, acted, owner>>
  /\ UNCHANGED <<conf, link, address, scores>>

\* Mutant: a bad poll is logged but not counted.
PollBadIgnored ==
  /\ pc = "loop" /\ owner = "mwan3"
  /\ Status \cap BadStatuses # {}
  /\ UNCHANGED vars

PollBad ==
  /\ pc = "loop" /\ owner = "mwan3"
  /\ Status \cap BadStatuses # {}
  /\ polls' = polls + 1
  /\ IF cnt > 2
       THEN Act("mwan3") /\ owner' \in {"custom", "monitor"} /\ cnt' = 1
       ELSE cnt' = cnt + 1 /\ UNCHANGED <<pc, acted, owner>>
  /\ UNCHANGED <<conf, link, address, scores>>

\* The custom ping test does the watching: sleep and look again.
StandBack ==
  /\ pc = "loop" /\ owner = "custom"
  /\ UNCHANGED vars

\* Without an address the modem is restarted, whatever `alive' says.
NoAddress ==
  /\ pc = "loop" /\ owner = "monitor"
  /\ address = "no"
  /\ acted' = "address"
  /\ pc' = "exit"
  /\ UNCHANGED <<env, cnt, scores, polls>>

PingBegin ==
  /\ pc = "loop" /\ owner = "monitor"
  /\ address = "yes"
  /\ score_up' = UP /\ score_dwn' = DOWN /\ verdict' = "testing" /\ fails' = 0
  /\ pc' = "round"
  /\ UNCHANGED <<env, cnt, acted, polls>>

\* Nothing to ping: the monitor ends.
NoTracks ==
  /\ pc = "round"
  /\ tracks = 0
  /\ pc' = "exit"
  /\ UNCHANGED <<env, cnt, scores, acted, polls>>

\* Mutant: every failed test starts the count again.
RoundFailsRestarts ==
  /\ pc = "round"
  /\ tracks > 0
  /\ \E r \in Replies : r < RELIAB
  /\ UNCHANGED vars

RoundFails ==
  /\ pc = "round"
  /\ tracks > 0
  /\ \E r \in Replies : r < RELIAB
  /\ score_dwn' = score_dwn - 1
  /\ score_up' = UP
  /\ fails' = fails + 1
  /\ IF score_dwn' = 0
       THEN verdict' = "down" /\ Act("ping")
       ELSE UNCHANGED <<verdict, acted, pc>>
  /\ UNCHANGED <<env, cnt, polls>>

\* Mutant: a successful test does not take back the failures before it.
RoundSucceedsKeepsDown ==
  /\ pc = "round"
  /\ tracks > 0
  /\ \E r \in Replies : r >= RELIAB
  /\ score_up' = score_up - 1
  /\ fails' = 0
  /\ IF score_up' = 0
       THEN verdict' = "up" /\ pc' = "loop"
       ELSE UNCHANGED <<verdict, pc>>
  /\ UNCHANGED <<env, cnt, acted, polls, score_dwn>>

RoundSucceeds ==
  /\ pc = "round"
  /\ tracks > 0
  /\ \E r \in Replies : r >= RELIAB
  /\ score_up' = score_up - 1
  /\ score_dwn' = DOWN
  /\ fails' = 0
  /\ IF score_up' = 0
       THEN verdict' = "up" /\ pc' = "loop"
       ELSE UNCHANGED <<verdict, pc>>
  /\ UNCHANGED <<env, cnt, acted, polls>>

Monitor == PollGood \/ PollBad \/ StandBack \/ NoAddress \/ PingBegin
             \/ NoTracks \/ RoundFails \/ RoundSucceeds

\* The monitor is gone: what happens next belongs to the restarted modem.
Gone == pc \in {"exit", "reboot"} /\ UNCHANGED vars

Next == LinkChanges \/ AddressChanges \/ OwnerChanges \/ Monitor \/ Gone

Spec == Init /\ [][Next]_vars

\* The loop only sleeps between its rounds, and a ping has a time limit (-W).
FairSpec == Spec /\ WF_vars(Monitor)

-------------------------------------------------------------------------------
(***************************************************************************)
(* Properties.                                                             *)
(***************************************************************************)

\* Every variable has its type.
TypeOK ==
  /\ tracks \in 0..MaxTracks /\ alive \in {"0", "2", "3"}
  /\ link \in {"up", "flaky", "down"}
  /\ address \in {"yes", "no"}
  /\ owner \in {"mwan3", "custom", "monitor"}
  /\ pc \in {"loop", "round", "exit", "reboot"}
  /\ cnt \in 1..3
  /\ score_up \in 0..UP /\ score_dwn \in 0..DOWN
  /\ verdict \in {"testing", "up", "down"}
  /\ acted \in {"nothing", "mwan3", "address", "ping"}
  /\ fails \in 0..DOWN /\ polls \in 0..3

\* The modem is restarted or the router rebooted only on evidence that is complete
\* and recent: exactly DOWN failed ping tests (lines 28-34) or three bad mwan3 polls
\* (lines 111-117) with no good one in between, however the link, the address and
\* the owner of the test change meanwhile.
ActsOnEvidence ==
  /\ acted = "ping" => fails = DOWN
  /\ acted = "mwan3" => polls = 3

\* The ping test, seen as consecutive good and bad tests.
Link == INSTANCE LinkVerdict WITH good <- UP - score_up, bad <- DOWN - score_dwn

\* The two count-down scores implement the promise made for `Interface down' and
\* `Interface up'.
KeepsItsPromise == Link!Spec

\* A link that stays dead is noticed: unless the custom ping test has taken over,
\* the monitor acts or has ended, whether it is in the middle of a ping test or of
\* a series of mwan3 polls, and whoever else switches mwan3 on and off.
DeadLinkNoticed ==
  <>[](link = "down" /\ owner # "custom") => <>(pc \in {"exit", "reboot"})

\* A ping test comes to an end once the link no longer changes (lines 18-50): the
\* two scores reset each other, so only a link that goes on flapping keeps it going.
SteadyTestEnds == (<>[](link = "up") \/ <>[](link = "down")) => []<>(pc # "round")
===============================================================================
