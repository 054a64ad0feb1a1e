------------------------------ MODULE WanChoice ------------------------------
(***************************************************************************)
(* The choice of a WAN interface by two modems (create_connect.sh 846-931) *)
(* and the two other scripts that touch the network sections: the restart  *)
(* of a modem (restartrun.sh) and the handler of its removal               *)
(* (modeswitch.sh 596-690).                                                *)
(*                                                                         *)
(* A modem asks for the interface of its profile and takes another one if  *)
(* the other modem uses that one; no lock covers the look and the write.   *)
(* 0 is an interface that is not set.                                      *)
(***************************************************************************)
EXTENDS Integers

CONSTANT Inters       \* the values of `inter' in the profiles: 0 is Auto

ASSUME IntersAssumption == Inters \subseteq Nat

Modems == {1, 2}
Other(m) == IF m = 1 THEN 2 ELSE 1

\* A profile asks for any number; a modem that was refused takes WAN1 or WAN2.
Wans == {1, 2} \cup (Inters \ {0})

VARIABLES empty,      \* the modems with modem.modem<m>.empty=1
          info,       \* modem.modeminfo<m>.inter, from the profile
          inter,      \* modem.modem<m>.inter
          net,        \* the modem that network.wan<w> is configured for
          pc,         \* create_connect.sh of each modem
          my,         \* its $INTER
          rpc,        \* the remove handler of each modem
          gone,       \* and its $INTER
          chosen,     \* history: the modems that chose since they were plugged in
          raced,      \* history: the last look was at a modem that was choosing
          hit         \* history: the modems in use whose section or link was taken,
                      \* until they are plugged in or configured anew

table == <<empty, info, inter>>
script == <<pc, my>>
handler == <<rpc, gone>>
history == <<chosen, raced, hit>>
vars == <<table, net, script, handler, history>>

Init ==
  /\ empty = Modems
  /\ info = [m \in Modems |-> 0] /\ inter = [m \in Modems |-> 0]
  /\ net = [w \in Wans |-> 0]
  /\ pc = [m \in Modems |-> "none"] /\ my = [m \in Modems |-> 0]
  /\ rpc = [m \in Modems |-> "none"] /\ gone = [m \in Modems |-> 0]
  /\ chosen = {} /\ raced = FALSE /\ hit = {}

Goto(m, p) == pc' = [pc EXCEPT ![m] = p]

\* The modem in use, other than m, whose interface is one of W.
Hits(m, W) == {n \in chosen \ (empty \cup {m}) : inter[n] \in W}

-----------------------------------------------------------------------------
\* modeswitch.sh records the modem and starts create_connect.sh.
Plug(m) ==
  /\ m \in empty /\ rpc[m] = "none"
  /\ empty' = empty \ {m}
  /\ Goto(m, "profile")
  /\ chosen' = chosen \ {m} /\ hit' = hit \ {m}
  /\ UNCHANGED <<info, inter, net, my, handler, raced>>

\* get_profile.sh; the value 5 disables the modem, 0 is its own number.  The
\* script also ends here if the SIM, the profile or the port says so.
GetProfile(m) ==
  /\ pc[m] = "profile"
  /\ \/ Goto(m, "done") /\ UNCHANGED <<info, my>>
     \/ \E i \in Inters :
          /\ info' = [info EXCEPT ![m] = i]
          /\ \/ Goto(m, "done") /\ UNCHANGED my
             \/ /\ i # 5
                /\ Goto(m, "look")
                /\ my' = [my EXCEPT ![m] = IF i = 0 THEN m ELSE i]
  /\ UNCHANGED <<empty, inter, net, handler, history>>

\* Is the other modem there?
Look(m) ==
  /\ pc[m] = "look"
  /\ Goto(m, IF Other(m) \in empty THEN "write" ELSE "compare")
  /\ raced' = (pc[Other(m)] \in {"compare", "write"})
  /\ UNCHANGED <<table, net, my, handler, chosen, hit>>

\* Mutant: the interface of the other modem is read from its profile.
CompareProfile(m) ==
  /\ pc[m] = "compare"
  /\ my' = [my EXCEPT ![m] = IF @ # info[Other(m)] THEN @ ELSE IF @ = 1 THEN 2 ELSE 1]
  /\ Goto(m, "write")
  /\ UNCHANGED <<table, net, handler, history>>

\* WAN2 if the other modem uses the WAN1 this one wants, else WAN1.
Compare(m) ==
  /\ pc[m] = "compare"
  /\ my' = [my EXCEPT ![m] = IF @ # inter[Other(m)] THEN @ ELSE IF @ = 1 THEN 2 ELSE 1]
  /\ Goto(m, "write")
  /\ UNCHANGED <<table, net, handler, history>>

WriteInter(m) ==
  /\ pc[m] = "write"
  /\ inter' = [inter EXCEPT ![m] = my[m]]
  /\ Goto(m, "network")
  /\ chosen' = chosen \cup {m}
  /\ UNCHANGED <<empty, info, net, my, handler, raced, hit>>

\* network.wan<INTER> is made anew, here or with the protocol of netifd.  The
\* script of a modem that has gone runs until the remove handler kills it.
WriteNetwork(m) ==
  /\ pc[m] = "network"
  /\ net' = [net EXCEPT ![my[m]] = m]
  /\ Goto(m, "done")
  /\ my' = [my EXCEPT ![m] = 0]
  /\ hit' = (hit \ {m}) \cup (IF m \in empty \/ raced THEN Hits(m, {my[m]}) ELSE {})
  /\ UNCHANGED <<table, handler, chosen, raced>>

-----------------------------------------------------------------------------
\* restartrun.sh takes the link of the profile down, and makes the section with
\* the number of the modem anew.
Restart(m) ==
  /\ m \notin empty
  /\ info' = [info EXCEPT ![m] = 0]
  /\ net' = [net EXCEPT ![m] = 0]
  /\ hit' = hit \cup {m} \cup Hits(m, {m, info[m]})
  /\ UNCHANGED <<empty, inter, script, handler, chosen, raced>>

-----------------------------------------------------------------------------
\* The remove handler: the table first.
Remove(m) ==
  /\ m \notin empty
  /\ gone' = [gone EXCEPT ![m] = IF inter[m] = 0 THEN m ELSE inter[m]]
  /\ empty' = empty \cup {m}
  /\ rpc' = [rpc EXCEPT ![m] = "network"]
  /\ UNCHANGED <<info, inter, net, script, history>>

\* Mutant: the section with the number of the modem is taken to be its own.
ResetNetworkNumber(m) ==
  /\ rpc[m] = "network"
  /\ net' = [net EXCEPT ![m] = 0]
  /\ rpc' = [rpc EXCEPT ![m] = "kill"]
  /\ hit' = hit \cup Hits(m, {gone[m]})
  /\ UNCHANGED <<table, script, gone, chosen, raced>>

\* Then the section of the interface it is taken to have had.
ResetNetwork(m) ==
  /\ rpc[m] = "network"
  /\ net' = [net EXCEPT ![gone[m]] = 0]
  /\ rpc' = [rpc EXCEPT ![m] = "kill"]
  /\ hit' = hit \cup Hits(m, {gone[m]})
  /\ UNCHANGED <<table, script, gone, chosen, raced>>

\* Then the script, with its variables.  With no modem left the table is made
\* anew.
Kill(m) ==
  /\ rpc[m] = "kill"
  /\ rpc' = [rpc EXCEPT ![m] = "none"]
  /\ Goto(m, "none")
  /\ my' = [my EXCEPT ![m] = 0] /\ gone' = [gone EXCEPT ![m] = 0]
  /\ inter' = IF empty = Modems THEN [n \in Modems |-> 0] ELSE inter
  /\ UNCHANGED <<empty, info, net, history>>

Next == \E m \in Modems : \/ Plug(m) \/ GetProfile(m) \/ Look(m) \/ Compare(m)
                          \/ WriteInter(m) \/ WriteNetwork(m) \/ Restart(m)
                          \/ Remove(m) \/ ResetNetwork(m) \/ Kill(m)

Spec == Init /\ [][Next]_vars

-----------------------------------------------------------------------------
TypeOK ==
  /\ empty \subseteq Modems /\ chosen \subseteq Modems /\ raced \in BOOLEAN
  /\ info \in [Modems -> Inters \cup {0}] /\ inter \in [Modems -> Wans \cup {0}]
  /\ net \in [Wans -> Modems \cup {0}]
  /\ pc \in [Modems -> {"none", "profile", "look", "compare", "write", "network", "done"}]
  /\ my \in [Modems -> Wans \cup {0}] /\ gone \in [Modems -> Wans \cup {0}]
  /\ \A m \in Modems : pc[m] \in {"look", "compare", "write", "network"} => my[m] # 0
  /\ rpc \in [Modems -> {"none", "network", "kill"}]
  /\ \A m \in Modems : rpc[m] = "network" => gone[m] # 0
  /\ hit \subseteq Modems

\* Two modems in use have different interfaces, unless the later one looked
\* while the earlier one was between its look and its write
\* (create_connect.sh 887-900).
WanNotShared ==
  (~raced /\ Modems \ empty \subseteq chosen /\ empty = {}) => inter[1] # inter[2]

\* A modem in use keeps the section it has configured until it is restarted,
\* unless the other modem is restarted or removed or raced with it
\* (create_connect.sh 922, restartrun.sh 211, modeswitch.sh 636).
OwnSection ==
  \A m \in chosen \ empty :
    (pc[m] = "done" /\ m \notin hit) => net[inter[m]] = m
=============================================================================
