------------------------------- MODULE SmsStore -------------------------------
(***************************************************************************)
(* The text messages of one modem: processsms, which polls the store of    *)
(* the SIM, lists it for the web page and moves messages over from the     *)
(* memory of the modem, and the scripts delsms.sh and delall.sh that the   *)
(* page starts.  They share the directory /tmp/smslock<m> as a lock, with  *)
(* the process number of its owner in a file, and the options smsnum (the  *)
(* number of messages last listed, 999 for "list them anew").              *)
(*                                                                         *)
(* A store maps slots to messages, None where a slot is free.  The SIM has *)
(* storage and the modem has, too (SMSLOC=SM, METC not 0).  Any AT command *)
(* may fail, time out, or be obeyed without an answer that is seen; what   *)
(* the scripts do not check they do not notice.                            *)
(***************************************************************************)
EXTENDS Naturals, FiniteSets

CONSTANTS Dels,         \* runs of delsms.sh and delall.sh, each started once
          Msgs,         \* the messages
          SmSlots,      \* the slots of the SIM, numbers from 1
          MeSlots,      \* the slots of the modem; MESLOT starts at 0
          MaxKills,     \* bound: how often the remove handler kills processsms
          MaxFails,     \* bound: how often an AT command fails
          P, None

Procs == Dels \cup {P}
Stale == 999
Blank == 1000           \* a number that is no word at all: the count has failed

\* No SIM has room for as many messages as smsnum says when it asks for a list,
\* and process numbers are not words.
ASSUME SmsAssumption ==
  /\ SmSlots \subseteq Nat \ {0} /\ MeSlots \subseteq Nat \ {0}
  /\ IsFiniteSet(SmSlots) /\ IsFiniteSet(MeSlots)
  /\ MaxKills \in Nat /\ MaxFails \in Nat
  /\ Cardinality(SmSlots) < Stale
  /\ P \notin Dels /\ None \notin Msgs
  /\ Procs \cap {"free", "bare", "blank", "dead"} = {}

NoMsgs(S) == [s \in S |-> None]
Held(store) == {s \in DOMAIN store : store[s] # None}
Texts(store) == {store[s] : s \in Held(store)}

VARIABLES sm, me,     \* the two stores
          mem,        \* the one AT+CMGR and AT+CMGL read: "SM" or "ME"
          mem3,       \* the one new messages go to
          MEM3,       \* the one processsms takes mem3 to be
          smsnum,     \* modem.modem<m>.smsnum
          list,       \* /tmp/smstext<m>, what the page shows
          lock,       \* "free"; a directory "bare", with a "blank" file, or with
                      \* the number of a process, "dead" if that is no more
          pc,         \* each process
          used,       \* $USED of processsms while it makes a list, else 0
          mesc, meslot, pdu, \* its $MESC, $MESLOT and $PDU
          temp,       \* /tmp/smstemp<m>, its answer to AT+CMGL
          want,       \* the slot the page asked each Del to empty, 0 for all
          kills, fails, \* how often processsms was killed, and an AT command failed
          arrived,    \* history: the messages that came in
          deleted,    \* history: the messages the page had deleted
          broken,     \* history: a lock was taken from a living process
          from,       \* history: the store pdu was read from
          misread,    \* history: the messages that were deleted in the modem after
                      \* one of the SIM was read in their stead
          cut         \* history: the last answer to AT+CMGL was not complete

stores == <<sm, me, mem, mem3>>
proc == <<MEM3, used, mesc, meslot, pdu, temp>>
reads == <<from, misread, cut>>
history == <<arrived, deleted, broken, reads>>
vars == <<stores, smsnum, list, lock, pc, proc, want, kills, fails, history>>

Init ==
  /\ sm = NoMsgs(SmSlots) /\ me = NoMsgs(MeSlots) /\ mem = "ME" /\ mem3 = "SM"
  /\ smsnum = Stale /\ list = NoMsgs(SmSlots) /\ lock = "free"
  /\ pc = [p \in Procs |-> IF p = P THEN "try" ELSE "none"]
  /\ MEM3 = "SM" /\ used = 0 /\ mesc = 0 /\ meslot = 0 /\ pdu = None
  /\ temp = NoMsgs(SmSlots)
  /\ want = [d \in Dels |-> 0] /\ kills = 0 /\ fails = 0
  /\ arrived = {} /\ deleted = {} /\ broken = FALSE
  /\ from = "ME" /\ misread = {} /\ cut = FALSE

Goto(p, l) == pc' = [pc EXCEPT ![p] = l]
Fail == fails < MaxFails /\ fails' = fails + 1
Work == UNCHANGED fails

\* The modem stores a message that comes in; a full store takes none.
Arrive ==
  /\ \E m \in Msgs \ arrived :
       /\ arrived' = arrived \cup {m}
       /\ \/ /\ mem3 = "SM" /\ UNCHANGED me
             /\ \E s \in SmSlots \ Held(sm) : sm' = [sm EXCEPT ![s] = m]
          \/ /\ mem3 = "ME" /\ UNCHANGED sm
             /\ \E s \in MeSlots \ Held(me) : me' = [me EXCEPT ![s] = m]
  /\ UNCHANGED <<mem, mem3, smsnum, list, lock, pc, proc, want, kills, fails,
                 deleted, broken, reads>>

-----------------------------------------------------------------------------
(***************************************************************************)
(* The lock, the same in all scripts: mkdir and echo $$ > PID, and if the  *)
(* directory exists, cat PID, kill -0 and rm -rf.                          *)
(***************************************************************************)
rest == <<stores, smsnum, list, proc, want, kills, fails, arrived, deleted, reads>>

\* Mutant: mkdir -p does not fail.
MkdirP(p) ==
  /\ pc[p] = "try"
  /\ lock' = "bare" /\ Goto(p, "create")
  /\ UNCHANGED <<rest, broken>>

Mkdir(p) ==
  /\ pc[p] = "try"
  /\ \/ lock = "free" /\ lock' = "bare" /\ Goto(p, "create")
     \/ lock # "free" /\ UNCHANGED lock /\ Goto(p, "peek")
  /\ UNCHANGED <<rest, broken>>

\* The shell makes an empty file and echo fills it; without the directory there
\* is no file, and the script goes on.
EchoPid(p) ==
  /\ \/ pc[p] = "create" /\ Goto(p, "echo")
        /\ lock' = IF lock = "free" THEN lock ELSE "blank"
     \/ pc[p] = "echo" /\ Goto(p, "in")
        /\ lock' = IF lock = "blank" THEN p ELSE lock
  /\ UNCHANGED <<rest, broken>>

\* Mutant: the owner is always taken to be alive.
PeekAlive(p) ==
  /\ pc[p] = "peek"
  /\ Goto(p, "try")
  /\ UNCHANGED <<rest, lock, broken>>

Peek(p) ==
  /\ pc[p] = "peek"
  /\ Goto(p, IF lock \in {"blank", "dead"} THEN "break" ELSE "try")
  /\ UNCHANGED <<rest, lock, broken>>

\* Is a process that lives between mkdir and rm -rf?
Inside(p) == pc[p] \notin {"none", "done", "gone", "start", "try", "peek", "break"}

Break(p) ==
  /\ pc[p] = "break"
  /\ lock' = "free" /\ Goto(p, "try")
  /\ broken' = (broken \/ \E q \in Procs : Inside(q))
  /\ UNCHANGED rest

Release(p) ==
  /\ pc[p] = "out"
  /\ lock' = "free" /\ Goto(p, IF p = P THEN "try" ELSE "done")
  /\ UNCHANGED <<rest, broken>>

-----------------------------------------------------------------------------
(***************************************************************************)
(* processsms.                                                             *)
(***************************************************************************)
\* The lock is removed, whoever has it; SM is selected for everything, then ME
\* to count its messages.
Start ==
  /\ pc[P] = "start"
  /\ lock' = "free"
  /\ broken' = (broken \/ \E q \in Procs : Inside(q))
  /\ \/ mem' = "ME" /\ mem3' = "SM" /\ mesc' = Cardinality(Held(me)) /\ Work
     \/ /\ mem' \in {"SM", "ME"} /\ mem3' \in {mem3, "SM"}
        /\ mesc' \in {0, Cardinality(Held(me))} /\ Fail
  /\ smsnum' = Stale /\ Goto(P, "try")
  /\ UNCHANGED <<sm, me, list, MEM3, used, meslot, pdu, temp, want, kills,
                 arrived, deleted, reads>>

\* The store of the modem is counted; without an answer the old count stays.
CountMe ==
  /\ pc[P] = "in"
  /\ \/ mem' = "ME" /\ mem3' = MEM3 /\ mesc' = Cardinality(Held(me)) /\ Work
     \/ mem' = "ME" /\ mem3' = MEM3 /\ UNCHANGED mesc /\ Fail
     \/ UNCHANGED <<mem, mem3, mesc>> /\ Fail
  /\ Goto(P, "count")
  /\ UNCHANGED <<sm, me, smsnum, list, lock, MEM3, used, meslot, pdu, temp, want, kills,
                 history>>

\* When the SIM is full new messages are to go to the modem, but not those of an
\* L860.  Of an empty count all tests are true: MEM3 changes each time.
Full == Cardinality(SmSlots)
Turn(n) ==
  \/ MEM3 = "SM" /\ n \in {Full, Blank} /\ MEM3' = "ME"
  \/ MEM3 = "ME" /\ n # Full /\ MEM3' = "SM"
  \/ (MEM3 = "SM" \/ n = Full) /\ UNCHANGED MEM3

\* The store of the SIM is counted, to n.  A list is made if the number has
\* changed, and once an hour.
Poll ==
  /\ pc[P] = "count"
  /\ \E n \in {Cardinality(Held(sm)), Blank} :
       /\ Turn(n)
       /\ \/ n # Blank /\ mem' = "SM" /\ mem3' = MEM3' /\ Work
          \/ mem' = "SM" /\ mem3' \in {MEM3, MEM3'} /\ Fail
          \/ n = Blank /\ UNCHANGED <<mem, mem3>> /\ Fail
       /\ \/ used' = n /\ Goto(P, "cmgl")
          \/ /\ n = smsnum /\ UNCHANGED used
             /\ \/ MEM3' = "SM" /\ n # Full /\ mesc > 0 /\ Goto(P, "cpms")
                \/ Goto(P, "out")
  /\ UNCHANGED <<sm, me, smsnum, list, lock, mesc, meslot, pdu, temp, want, kills, history>>

\* AT+CMGL=4 lists the selected store, or as much of it as is seen.
Cmgl ==
  /\ pc[P] = "cmgl"
  /\ LET store == IF mem = "SM" THEN sm ELSE me
     IN \E seen \in SUBSET Held(store) :
          /\ temp' = [s \in SmSlots |-> IF s \in seen THEN store[s] ELSE None]
          /\ \/ seen = Held(store) /\ cut' = FALSE /\ Work
             \/ seen # Held(store) /\ cut' = TRUE /\ Fail
  /\ Goto(P, "num")
  /\ UNCHANGED <<stores, smsnum, list, lock, MEM3, used, mesc, meslot, pdu, want, kills,
                 arrived, deleted, broken, from, misread>>

\* Mutant: the messages are counted anew after they were listed.
SetNumCounts ==
  /\ pc[P] = "num"
  /\ smsnum' = Cardinality(Held(sm)) /\ used' = 0 /\ Goto(P, "smsread")
  /\ UNCHANGED <<stores, list, lock, MEM3, mesc, meslot, pdu, temp, want, kills, fails, history>>

\* The number is committed before the list of the page is made.
SetNum ==
  /\ pc[P] = "num"
  /\ smsnum' = used /\ used' = 0 /\ Goto(P, "smsread")
  /\ UNCHANGED <<stores, list, lock, MEM3, mesc, meslot, pdu, temp, want, kills, fails, history>>

Smsread ==
  /\ pc[P] = "smsread"
  /\ list' = temp /\ temp' = NoMsgs(SmSlots)
  /\ Goto(P, "out")
  /\ UNCHANGED <<stores, smsnum, lock, MEM3, used, mesc, meslot, pdu, want, kills, fails, history>>

\* One message of the modem is read: select ME, read, select SM.  The three
\* answers are looked at together, and only for a message.
SelectMe ==
  /\ pc[P] = "cpms"
  /\ \/ mem' = "ME" /\ Work
     \/ UNCHANGED mem /\ Fail
  /\ Goto(P, "cmgr")
  /\ UNCHANGED <<sm, me, mem3, smsnum, list, lock, proc, want, kills, history>>

Cmgr ==
  /\ pc[P] = "cmgr"
  /\ LET store == IF mem = "ME" THEN me ELSE sm
     IN \/ pdu' = (IF meslot \in DOMAIN store THEN store[meslot] ELSE None) /\ Work
        \/ pdu' = None /\ Fail
  /\ from' = (IF pdu' = None THEN "ME" ELSE mem) /\ Goto(P, "select")
  /\ UNCHANGED <<stores, smsnum, list, lock, MEM3, used, mesc, meslot, temp, want, kills,
                 arrived, deleted, broken, misread, cut>>

\* MESLOT goes round the slots, and starts anew when no message is left.
NextSlot(left) == meslot' = IF left # 0 /\ meslot + 1 \in MeSlots THEN meslot + 1 ELSE 0

\* A move has ended, well or not: one less.
Moved == /\ mesc' = mesc - 1 /\ NextSlot(mesc - 1) /\ Goto(P, "out")
         /\ pdu' = None /\ from' = "ME"

SelectSm ==
  /\ pc[P] = "select"
  /\ \/ mem' = "SM" /\ Work
     \/ UNCHANGED mem /\ Fail
  /\ \/ pdu = None /\ Goto(P, "out") /\ NextSlot(mesc)
     \/ pdu # None /\ Goto(P, "cmgw") /\ UNCHANGED meslot
  /\ UNCHANGED <<sm, me, mem3, smsnum, list, lock, MEM3, used, mesc, pdu, temp, want, kills,
                 history>>

\* Mutant: a write that failed counts as done.
CmgwAnyway ==
  /\ pc[P] = "cmgw"
  /\ mem' = "SM" /\ Goto(P, "cmgd")
  /\ \/ UNCHANGED sm /\ Fail
     \/ \E s \in SmSlots \ Held(sm) : sm' = [sm EXCEPT ![s] = pdu] /\ Work
  /\ UNCHANGED <<me, mem3, smsnum, list, lock, proc, want, kills, history>>

\* smswrite.gcom selects SM; the message is written, or not, and the answer with
\* its slot is seen, or not.
Cmgw ==
  /\ pc[P] = "cmgw"
  /\ \/ mem' \in {mem, "SM"} /\ UNCHANGED sm /\ Moved /\ Fail
     \/ /\ mem' = "SM"
        /\ \E s \in SmSlots \ Held(sm) : sm' = [sm EXCEPT ![s] = pdu]
        /\ \/ Goto(P, "cmgd") /\ UNCHANGED <<mesc, meslot, pdu, from>> /\ Work
           \/ Moved /\ Fail
     \/ Held(sm) = SmSlots /\ mem' = "SM" /\ UNCHANGED sm /\ Moved /\ Work
  /\ UNCHANGED <<me, mem3, smsnum, list, lock, MEM3, used, temp, want, kills,
                 arrived, deleted, broken, misread, cut>>

\* One command line selects ME, deletes and selects SM, as far as it gets.
Cmgd ==
  /\ pc[P] = "cmgd"
  /\ \/ mem' \in {mem, "ME"} /\ UNCHANGED <<me, misread>> /\ Fail
     \/ /\ (mem' = "SM" /\ Work) \/ (mem' = "ME" /\ Fail)
        /\ me' = [s \in MeSlots |-> IF s = meslot THEN None ELSE me[s]]
        /\ misread' = IF from = "ME" THEN misread
                      ELSE misread \cup {me[s] : s \in {meslot} \cap Held(me)}
  /\ Moved
  /\ UNCHANGED <<sm, mem3, smsnum, list, lock, MEM3, used, temp, want, kills,
                 arrived, deleted, broken, cut>>

\* The modem goes, and the remove handler kills processsms; perhaps the modem
\* comes back, and create_connect.sh starts it anew, with its variables as at first.
Kill ==
  /\ kills < MaxKills /\ kills' = kills + 1
  /\ pc[P] \notin {"start", "gone"}
  /\ Goto(P, "gone")
  /\ lock' = IF lock = P THEN "dead" ELSE lock
  /\ MEM3' = "SM" /\ used' = 0 /\ mesc' = 0 /\ meslot' = 0 /\ pdu' = None /\ from' = "ME"
  /\ temp' = NoMsgs(SmSlots)
  /\ UNCHANGED <<stores, smsnum, list, want, fails, arrived, deleted, broken, misread, cut>>

Replug ==
  /\ pc[P] = "gone"
  /\ Goto(P, "start")
  /\ UNCHANGED <<stores, smsnum, list, lock, proc, want, kills, fails, history>>

-----------------------------------------------------------------------------
(***************************************************************************)
(* delsms.sh and delall.sh.                                                *)
(***************************************************************************)
\* The page asks for a message it shows, or for all: slot 0.
Ask(d) ==
  /\ pc[d] = "none"
  /\ \/ \E s \in Held(list) : want' = [want EXCEPT ![d] = s]
     \/ want' = [want EXCEPT ![d] = 0]
  /\ Goto(d, "try")
  /\ UNCHANGED <<stores, smsnum, list, lock, proc, kills, fails, history>>

\* AT+CPMS="SM";+CMGD=<slot>, or ...;+CMGD=1,4 for all, as far as it gets.
Delete(d) ==
  /\ pc[d] = "in"
  /\ \/ mem' \in {mem, "SM"} /\ UNCHANGED <<sm, deleted>> /\ Fail
     \/ LET slots == IF want[d] = 0 THEN SmSlots ELSE {want[d]}
        IN /\ mem' = "SM" /\ Work
           /\ sm' = [s \in SmSlots |-> IF s \in slots THEN None ELSE sm[s]]
           /\ deleted' = deleted \cup {sm[s] : s \in slots \cap Held(sm)}
  /\ Goto(d, "set")
  /\ UNCHANGED <<me, mem3, smsnum, list, lock, proc, want, kills, arrived, broken, reads>>

SetStale(d) ==
  /\ pc[d] = "set"
  /\ smsnum' = Stale
  /\ want' = [want EXCEPT ![d] = 0] /\ Goto(d, "out")
  /\ UNCHANGED <<stores, list, lock, proc, kills, fails, history>>

-----------------------------------------------------------------------------
Locking(p) == Mkdir(p) \/ EchoPid(p) \/ Peek(p) \/ Break(p) \/ Release(p)
Processsms == \/ Start \/ CountMe \/ Poll \/ Cmgl \/ SetNum \/ Smsread
              \/ SelectMe \/ Cmgr \/ SelectSm \/ Cmgw \/ Cmgd
Deleting(d) == Delete(d) \/ SetStale(d)

Next == \/ Arrive \/ Processsms \/ Kill \/ Replug
        \/ \E p \in Procs : Locking(p)
        \/ \E d \in Dels : Ask(d) \/ Deleting(d)

Spec == Init /\ [][Next]_vars

\* Every script runs.
Fairness == /\ WF_vars(Processsms \/ Locking(P))
            /\ \A d \in Dels : WF_vars(Deleting(d) \/ Locking(d))

FairSpec == Spec /\ Fairness

-----------------------------------------------------------------------------
TypeOK ==
  /\ sm \in [SmSlots -> Msgs \cup {None}] /\ me \in [MeSlots -> Msgs \cup {None}]
  /\ list \in [SmSlots -> Msgs \cup {None}]
  /\ {mem, mem3, MEM3, from} \subseteq {"SM", "ME"}
  /\ smsnum \in 0..Full \cup {Stale, Blank} /\ used \in 0..Full \cup {Blank}
  /\ mesc \in 0..Cardinality(MeSlots) /\ meslot \in MeSlots \cup {0}
  /\ lock \in {"free", "bare", "blank", "dead"} \cup Procs
  /\ kills \in 0..MaxKills /\ fails \in 0..MaxFails
  /\ broken \in BOOLEAN /\ cut \in BOOLEAN
  /\ arrived \subseteq Msgs /\ deleted \subseteq arrived /\ misread \subseteq arrived

\* At most one process is inside, as long as no lock was taken from a living
\* one: by a start of processsms, or by a script that saw a dead or a blank
\* number in it before (processsms 17, 153-157, delsms.sh 34-38).
LockExclusive ==
  ~broken => \A p, q \in Procs : Inside(p) /\ Inside(q) => p = q

\* As long as the lock is exclusive, no failure loses a message but one: each is
\* in one of the stores or was deleted by the page, unless it was in the slot of the
\* modem that processsms emptied after a failed AT+CPMS="ME" had made it read, and
\* copy, a message of the SIM (processsms 105-136).
NothingLost ==
  ~broken => arrived \subseteq Texts(sm) \cup Texts(me) \cup deleted \cup misread

\* As long as the lock is exclusive, the page shows what the SIM holds or
\* processsms will notice: its count differs (processsms 104, 144-147, delsms.sh
\* 30).  One that was killed between the number and the list notices at its next
\* start (43-44).  If the answer to AT+CMGL was not complete, which it does not
\* notice, the page leaves messages out, but shows none that is not there.
ListFresh ==
  (~broken /\ pc[P] \notin {"gone", "start"} /\ \A p \in Procs : ~Inside(p))
     => \/ list = sm \/ smsnum # Cardinality(Held(sm))
        \/ cut /\ \A s \in SmSlots : list[s] \in {None, sm[s]}

\* A lock whose owner was killed does not stay while a script waits for it
\* (delsms.sh 33-41).
DeadLockEnds == \A d \in Dels : (pc[d] = "try" /\ lock = "dead") ~> lock # "dead"
=============================================================================
