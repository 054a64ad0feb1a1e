---------------------------- MODULE SmsStoreProofs ----------------------------
(***************************************************************************)
(* Theorems about the message store, for any number of messages, slots,    *)
(* deleting scripts, kills and failed AT commands.                         *)
(***************************************************************************)
EXTENDS SmsStore, FiniteSetTheorems, TLAPS

Points == {"none", "done", "gone", "start", "try", "peek", "break", "create", "echo",
           "in", "count", "cmgl", "num", "smsread", "cpms", "cmgr", "select", "cmgw",
           "cmgd", "set", "out"}

\* The rest of the types, and that only messages that came in are anywhere.
AllTypes ==
  /\ TypeOK
  /\ pc \in [Procs -> Points]
  /\ temp \in [SmSlots -> Msgs \cup {None}]
  /\ pdu \in arrived \cup {None}
  /\ want \in [Dels -> Nat]
  /\ \A s \in SmSlots : sm[s] # None => sm[s] \in arrived
  /\ \A s \in MeSlots : me[s] # None => me[s] \in arrived
  /\ pc[P] \in {"cpms", "cmgr", "select", "cmgw", "cmgd"} => mesc > 0

-----------------------------------------------------------------------------
(***************************************************************************)
(* Counting the messages of a store.                                       *)
(***************************************************************************)
\* A store holds at most as many messages as it has slots.
LEMMA HeldFinite ==
  ASSUME NEW S, IsFiniteSet(S), NEW st \in [S -> Msgs \cup {None}]
  PROVE  /\ Held(st) \subseteq S /\ IsFiniteSet(Held(st))
         /\ Cardinality(Held(st)) \in 0..Cardinality(S)
<1>1. Held(st) \subseteq S  BY DEF Held
<1>2. /\ IsFiniteSet(Held(st)) /\ Cardinality(Held(st)) <= Cardinality(S)
  BY <1>1, FS_Subset
<1>3. Cardinality(Held(st)) \in Nat /\ Cardinality(S) \in Nat
  BY <1>2, FS_CardinalityType
<1> QED  BY <1>1, <1>2, <1>3

-----------------------------------------------------------------------------
\* Every step of every script keeps the types.
LEMMA TypeStep ==
  ASSUME AllTypes, [Next]_vars
  PROVE  AllTypes'
<1>e. /\ Full \in Nat /\ Cardinality(MeSlots) \in Nat
      /\ Cardinality(Held(sm)) \in 0..Full /\ Cardinality(Held(me)) \in 0..Cardinality(MeSlots)
  BY SmsAssumption, FS_CardinalityType, HeldFinite DEF AllTypes, TypeOK, Full
<1> USE SmsAssumption DEF AllTypes, TypeOK, stores, proc, reads, history, rest, Goto, Held,
                          Fail, Work
<1>a. /\ "none" \in Points /\ "gone" \in Points /\ "start" \in Points /\ "try" \in Points
      /\ "peek" \in Points /\ "break" \in Points /\ "create" \in Points
      /\ "echo" \in Points /\ "in" \in Points /\ "count" \in Points /\ "cmgl" \in Points
      /\ "num" \in Points /\ "smsread" \in Points /\ "cpms" \in Points /\ "cmgr" \in Points
      /\ "select" \in Points /\ "cmgw" \in Points /\ "cmgd" \in Points
      /\ "set" \in Points /\ "out" \in Points /\ "done" \in Points
  BY DEF Points
<1>b. P \in Procs /\ Dels \subseteq Procs /\ P \notin Dels  BY DEF Procs
<1>c. ASSUME NEW left \in Nat, NextSlot(left) PROVE meslot' \in MeSlots \cup {0}
  BY <1>c DEF NextSlot
<1>d. ASSUME Moved, mesc > 0
      PROVE  /\ mesc' \in 0..Cardinality(MeSlots) /\ meslot' \in MeSlots \cup {0}
             /\ pc' \in [Procs -> Points] /\ pc'[P] = "out" /\ pdu' = None /\ from' = "ME"
  <2>1. mesc - 1 \in Nat /\ mesc - 1 \in 0..Cardinality(MeSlots)  BY <1>d, <1>e
  <2> QED  BY <1>a, <1>b, <1>c, <1>d, <2>1 DEF Moved
<1> USE <1>a, <1>b, <1>e
<1>1. CASE Arrive  BY <1>1 DEF Arrive
<1>2. CASE Start
  <2> HIDE DEF Held
  <2> QED  BY <1>2 DEF Start, Inside
<1>3. CASE CountMe
  <2> HIDE DEF Held
  <2> QED  BY <1>3 DEF CountMe
<1>4. CASE Poll
  <2>1. PICK n \in {Cardinality(Held(sm)), Blank} :
          /\ Turn(n)
          /\ mem' \in {mem, "SM"} /\ mem3' \in {mem3, MEM3, MEM3'} /\ fails' \in 0..MaxFails
          /\ \/ used' = n /\ Goto(P, "cmgl")
             \/ used' = used /\ ((mesc > 0 /\ Goto(P, "cpms")) \/ Goto(P, "out"))
    <3> HIDE DEF Held
    <3> QED  BY <1>4 DEF Poll
  <2>2. used' \in 0..Full \cup {Blank}  BY <2>1
  <2>3. {mem', mem3', MEM3'} \subseteq {"SM", "ME"}  BY <2>1 DEF Turn
  <2> HIDE DEF Held
  <2> QED  BY <1>4, <2>1, <2>2, <2>3 DEF Poll
<1>5. CASE Cmgl
  <2> DEFINE store == IF mem = "SM" THEN sm ELSE me
  <2>1. PICK seen \in SUBSET Held(store) :
          temp' = [s \in SmSlots |-> IF s \in seen THEN store[s] ELSE None]
    <3> HIDE DEF Held
    <3> QED  BY <1>5 DEF Cmgl
  <2>2. cut' \in BOOLEAN /\ fails' \in 0..MaxFails
    <3> HIDE DEF Held, AllTypes, TypeOK
    <3>1. cut' = TRUE \/ cut' = FALSE  BY ONLY <1>5 DEF Cmgl
    <3>2. Work \/ Fail  BY ONLY <1>5 DEF Cmgl
    <3>3. fails \in 0..MaxFails  BY DEF AllTypes, TypeOK
    <3>4. fails' \in 0..MaxFails  BY ONLY <3>2, <3>3, SmsAssumption DEF Work, Fail
    <3>5. cut' \in BOOLEAN  BY ONLY <3>1, Zenon
    <3> QED  BY ONLY <3>4, <3>5
  <2>3. temp' \in [SmSlots -> Msgs \cup {None}]  BY <2>1
  <2> QED  BY <1>5, <2>2, <2>3 DEF Cmgl
<1>6. CASE SetNum \/ Smsread  BY <1>6 DEF SetNum, Smsread, NoMsgs
<1>7. CASE SelectMe  BY <1>7 DEF SelectMe
<1>8. CASE Cmgr
  <2>1. pdu' \in arrived \cup {None}  BY <1>8 DEF Cmgr
  <2>2. from' \in {"SM", "ME"}  BY <1>8 DEF Cmgr
  <2>3. fails' \in 0..MaxFails  BY <1>8 DEF Cmgr
  <2> QED  BY <1>8, <2>1, <2>2, <2>3 DEF Cmgr
<1>9. CASE SelectSm
  <2>1. meslot' \in MeSlots \cup {0}  BY <1>9, <1>c DEF SelectSm
  <2>2. fails' \in 0..MaxFails /\ mem' \in {"SM", "ME"}  BY <1>9 DEF SelectSm
  <2> QED  BY <1>9, <2>1, <2>2 DEF SelectSm
<1>10. CASE Cmgw
  <2>1. /\ mesc' \in 0..Cardinality(MeSlots) /\ meslot' \in MeSlots \cup {0}
        /\ pc' \in [Procs -> Points] /\ pdu' \in {pdu, None} /\ from' \in {from, "ME"}
        /\ pc'[P] = "out" \/ (pc'[P] = "cmgd" /\ mesc' = mesc)
    BY <1>10, <1>d DEF Cmgw
  <2>2. fails' \in 0..MaxFails /\ mem' \in {"SM", "ME"}  BY <1>10 DEF Cmgw
  <2>3. sm' = sm \/ \E s \in SmSlots : sm' = [sm EXCEPT ![s] = pdu]  BY <1>10 DEF Cmgw
  <2>4. /\ sm' \in [SmSlots -> Msgs \cup {None}]
        /\ \A s \in SmSlots : sm'[s] # None => sm'[s] \in arrived
    BY <2>3
  <2> QED  BY <1>10, <2>1, <2>2, <2>4 DEF Cmgw
<1>11. CASE Cmgd
  <2>1. /\ mesc' \in 0..Cardinality(MeSlots) /\ meslot' \in MeSlots \cup {0}
        /\ pc' \in [Procs -> Points] /\ pc'[P] = "out" /\ pdu' = None /\ from' = "ME"
    BY <1>11, <1>d DEF Cmgd
  <2>2. fails' \in 0..MaxFails /\ mem' \in {"SM", "ME"}  BY <1>11 DEF Cmgd
  <2>3. misread' \subseteq arrived  BY <1>11 DEF Cmgd
  <2>4. /\ me' \in [MeSlots -> Msgs \cup {None}]
        /\ \A s \in MeSlots : me'[s] # None => me'[s] \in arrived
    BY <1>11 DEF Cmgd
  <2> QED  BY <1>11, <2>1, <2>2, <2>3, <2>4 DEF Cmgd
<1>12. CASE Kill  BY <1>12 DEF Kill, NoMsgs
<1>13. CASE Replug  BY <1>13 DEF Replug
<1>14. ASSUME NEW p \in Procs, Locking(p) PROVE AllTypes'
  <2>1. CASE Mkdir(p)  BY <2>1 DEF Mkdir
  <2>2. CASE EchoPid(p)  BY <2>2 DEF EchoPid
  <2>3. CASE Peek(p)  BY <2>3 DEF Peek
  <2>4. CASE Break(p)  BY <2>4 DEF Break, Inside
  <2>5. CASE Release(p)  BY <2>5 DEF Release
  <2> QED  BY <1>14, <2>1, <2>2, <2>3, <2>4, <2>5 DEF Locking
<1>15. ASSUME NEW d \in Dels, Ask(d) PROVE AllTypes'  BY <1>15 DEF Ask
<1>16. ASSUME NEW d \in Dels, Delete(d) PROVE AllTypes'
  <2>1. fails' \in 0..MaxFails /\ mem' \in {"SM", "ME"}  BY <1>16 DEF Delete
  <2>2. deleted' \subseteq arrived  BY <1>16 DEF Delete
  <2>3. /\ sm' \in [SmSlots -> Msgs \cup {None}]
        /\ \A s \in SmSlots : sm'[s] # None => sm'[s] \in arrived
    BY <1>16 DEF Delete
  <2> QED  BY <1>16, <2>1, <2>2, <2>3 DEF Delete
<1>17. ASSUME NEW d \in Dels, SetStale(d) PROVE AllTypes'  BY <1>17 DEF SetStale
<1>18. CASE UNCHANGED vars  BY <1>18 DEF vars
<1> QED  BY <1>1, <1>2, <1>3, <1>4, <1>5, <1>6, <1>7, <1>8, <1>9, <1>10, <1>11, <1>12,
            <1>13, <1>14, <1>15, <1>16, <1>17, <1>18 DEF Next, Processsms, Deleting

\* ... so they are an invariant.
LEMMA AllTypesInvariant == Spec => []AllTypes
<1>1. Init => AllTypes
  <2>1. Full \in Nat /\ Cardinality(MeSlots) \in Nat
    BY SmsAssumption, FS_CardinalityType DEF Full
  <2>2. Init => pc \in [Procs -> Points]  BY DEF Init, Points
  <2>3. Init => /\ sm \in [SmSlots -> Msgs \cup {None}]
                /\ me \in [MeSlots -> Msgs \cup {None}]
                /\ list \in [SmSlots -> Msgs \cup {None}]
                /\ temp \in [SmSlots -> Msgs \cup {None}] /\ want \in [Dels -> Nat]
    BY DEF Init, NoMsgs
  <2>4. Init => /\ {mem, mem3, MEM3, from} \subseteq {"SM", "ME"}
                /\ smsnum \in 0..Full \cup {Stale, Blank} /\ used \in 0..Full \cup {Blank}
                /\ mesc \in 0..Cardinality(MeSlots) /\ meslot \in MeSlots \cup {0}
                /\ lock \in {"free", "bare", "blank", "dead"} \cup Procs
                /\ kills \in 0..MaxKills /\ fails \in 0..MaxFails
    BY <2>1, SmsAssumption DEF Init
  <2>5. Init => /\ broken \in BOOLEAN /\ cut \in BOOLEAN
                /\ arrived \subseteq Msgs /\ deleted \subseteq arrived /\ misread \subseteq arrived
    BY DEF Init
  <2>6. Init => TypeOK
    BY <2>3, <2>4, <2>5, Zenon DEF TypeOK
  <2> QED  BY <2>2, <2>3, <2>6, SmsAssumption DEF Init, AllTypes, NoMsgs, Procs
<1> QED  BY <1>1, TypeStep, PTL DEF Spec

\* Typing of the message store and of the scripts around it (processsms,
\* delsms.sh): the slot that is moved next exists and the count of the SIM fits it.
THEOREM TypeCorrect == Spec => []TypeOK
<1>1. AllTypes => TypeOK  BY DEF AllTypes
<1> QED  BY <1>1, AllTypesInvariant, PTL
-----------------------------------------------------------------------------
(***************************************************************************)
(* The lock.  The directory does not know who is inside: what makes it     *)
(* exclusive is that it exists while somebody is.                          *)
(***************************************************************************)
LockInv ==
  ~broken => /\ \A p, q \in Procs : Inside(p) /\ Inside(q) => p = q
             /\ \A p \in Procs : Inside(p) => lock # "free"

\* Nobody enters or leaves, and the directory stays.
LEMMA LockAlone ==
  ASSUME LockInv, lock' = lock, broken' = broken,
         \A p \in Procs : Inside(p)' => Inside(p)
  PROVE  LockInv'
BY DEF LockInv

\* The steps of the scripts that have nothing to do with the lock.
Working == \/ Arrive \/ CountMe \/ Poll \/ Cmgl \/ SetNum \/ Smsread \/ SelectMe \/ Cmgr
           \/ SelectSm \/ Cmgw \/ Cmgd \/ Replug \/ UNCHANGED vars
           \/ \E d \in Dels : Ask(d) \/ Delete(d) \/ SetStale(d)

\* They leave the directory alone, and nobody enters.
LEMMA WorkingStep ==
  ASSUME AllTypes, Working
  PROVE  /\ lock' = lock /\ broken' = broken
         /\ \A p \in Procs : Inside(p)' => Inside(p)
<1> USE SmsAssumption DEF AllTypes, stores, proc, reads, history, rest, Goto, Procs, Inside
<1>1. CASE Arrive \/ UNCHANGED vars  BY <1>1 DEF Arrive, vars
<1>2. CASE CountMe \/ Poll  BY <1>2 DEF CountMe, Poll
<1>3. CASE Cmgl \/ SetNum \/ Smsread  BY <1>3 DEF Cmgl, SetNum, Smsread
<1>4. CASE SelectMe \/ Cmgr  BY <1>4 DEF SelectMe, Cmgr
<1>5. CASE SelectSm  BY <1>5 DEF SelectSm, NextSlot
<1>6. CASE Cmgw  BY <1>6 DEF Cmgw, Moved
<1>7. CASE Cmgd \/ Replug  BY <1>7 DEF Cmgd, Replug, Moved
<1>8. ASSUME NEW d \in Dels, Ask(d) \/ Delete(d) \/ SetStale(d)
      PROVE  /\ lock' = lock /\ broken' = broken
             /\ \A p \in Procs : Inside(p)' => Inside(p)
  BY <1>8 DEF Ask, Delete, SetStale
<1> QED  BY <1>1, <1>2, <1>3, <1>4, <1>5, <1>6, <1>7, <1>8 DEF Working

\* mkdir, echo, cat, kill -0 and rm -rf (processsms 17, 70-71, 153-162) keep LockInv.
LEMMA LockStep ==
  ASSUME AllTypes, LockInv, [Next]_vars
  PROVE  LockInv'
<1> USE SmsAssumption DEF AllTypes, stores, proc, reads, history, rest, Goto, Procs
<1>1. CASE Working  BY <1>1, WorkingStep, LockAlone
<1>2. CASE Start  BY <1>2 DEF Start, LockInv, Inside
<1>3. CASE Kill  BY <1>3 DEF Kill, LockInv, Inside
<1>4. ASSUME NEW p \in Procs, Locking(p) PROVE LockInv'
  <2>1. CASE Mkdir(p)  BY <2>1 DEF Mkdir, LockInv, Inside
  <2>2. CASE EchoPid(p)  BY <2>2 DEF EchoPid, LockInv, Inside
  <2>3. CASE Peek(p)  BY <2>3 DEF Peek, LockInv, Inside
  <2>4. CASE Break(p)  BY <2>4 DEF Break, LockInv, Inside
  <2>5. CASE Release(p)  BY <2>5 DEF Release, LockInv, Inside
  <2> QED  BY <1>4, <2>1, <2>2, <2>3, <2>4, <2>5 DEF Locking
<1> QED  BY <1>1, <1>2, <1>3, <1>4 DEF Next, Processsms, Deleting, Working

\* ... which is therefore an invariant.
LEMMA LockInvariant == Spec => [](AllTypes /\ LockInv)
<1>1. Init => LockInv  BY DEF Init, LockInv, Inside
<1>2. AllTypes /\ LockInv /\ [Next]_vars => LockInv'  BY LockStep
<1> QED  BY <1>1, <1>2, AllTypesInvariant, PTL DEF Spec

\* Until a lock is taken from a living process, processsms and any number of
\* deleting scripts exclude each other, wherever processsms is killed (processsms
\* 70-71, 153-162, delsms.sh 22-23, 34-43).
THEOREM Exclusive == Spec => []LockExclusive
<1>1. LockInv => LockExclusive  BY DEF LockInv, LockExclusive
<1> QED  BY <1>1, LockInvariant, PTL
-----------------------------------------------------------------------------
(***************************************************************************)
(* Moving a message from the modem to the SIM.  What is deleted in the     *)
(* modem is what was read there, and it has been written to the SIM: for   *)
(* that the store and the slot must be those of the reading, which they    *)
(* are as long as no other script is inside and ME was selected.           *)
(***************************************************************************)
MoveInv ==
  ~broken =>
    /\ pc[P] \in {"cmgw", "cmgd"} => pdu # None
    /\ (pc[P] \in {"select", "cmgw", "cmgd"} /\ pdu # None /\ from = "ME")
          => meslot \in MeSlots /\ me[meslot] = pdu
    /\ pc[P] = "cmgd" => pdu \in Texts(sm)
    /\ arrived \subseteq Texts(sm) \cup Texts(me) \cup deleted \cup misread

\* Only what is in the emptied slots leaves a store.
LEMMA EmptyKeeps ==
  ASSUME NEW S, NEW st \in [S -> Msgs \cup {None}], NEW out
  PROVE  Texts(st) \subseteq Texts([s \in S |-> IF s \in out THEN None ELSE st[s]])
                               \cup {st[s] : s \in out \cap Held(st)}
BY DEF Texts, Held

\* No step breaks a move (processsms 105-136, delsms.sh 24-29).
LEMMA MoveStep ==
  ASSUME AllTypes, LockInv, MoveInv, [Next]_vars
  PROVE  MoveInv'
<1> USE SmsAssumption DEF stores, proc, reads, history, rest, Goto, Procs
<1>t. /\ sm \in [SmSlots -> Msgs \cup {None}] /\ me \in [MeSlots -> Msgs \cup {None}]
      /\ pc \in [Procs -> Points] /\ arrived \subseteq Msgs /\ pdu \in arrived \cup {None}
      /\ mem \in {"SM", "ME"}
  BY DEF AllTypes, TypeOK
<1> USE <1>t
<1>1. CASE Arrive
  <2>1. PICK m \in Msgs : arrived' = arrived \cup {m}
                          /\ \/ /\ me' = me
                                /\ \E s \in SmSlots \ Held(sm) : sm' = [sm EXCEPT ![s] = m]
                             \/ /\ sm' = sm
                                /\ \E s \in MeSlots \ Held(me) : me' = [me EXCEPT ![s] = m]
    BY <1>1 DEF Arrive
  <2>a. ASSUME NEW s \in SmSlots \ Held(sm), sm' = [sm EXCEPT ![s] = m]
        PROVE  Texts(sm') = Texts(sm) \cup {m}
    <3>1. /\ sm' \in [SmSlots -> Msgs \cup {None}] /\ sm'[s] = m
          /\ \A q \in SmSlots \ {s} : sm'[q] = sm[q]
      BY <2>a
    <3> QED  BY <3>1, <2>a DEF Texts, Held
  <2>b. ASSUME NEW s \in MeSlots \ Held(me), me' = [me EXCEPT ![s] = m]
        PROVE  Texts(me') = Texts(me) \cup {m}
    <3>1. /\ me' \in [MeSlots -> Msgs \cup {None}] /\ me'[s] = m
          /\ \A q \in MeSlots \ {s} : me'[q] = me[q]
      BY <2>b
    <3> QED  BY <3>1, <2>b DEF Texts, Held
  <2>2. Texts(sm') \cup Texts(me') = Texts(sm) \cup Texts(me) \cup {m}
    BY <2>1, <2>a, <2>b
  <2>3. Texts(sm) \subseteq Texts(sm')  BY <2>1, <2>a
  <2>4. pdu # None /\ meslot \in MeSlots /\ me[meslot] = pdu => me'[meslot] = pdu
    BY <2>1 DEF Held
  <2>5. /\ pc' = pc /\ pdu' = pdu /\ meslot' = meslot /\ from' = from
        /\ deleted' = deleted /\ misread' = misread /\ broken' = broken
    BY <1>1 DEF Arrive
  <2> QED  BY <2>1, <2>2, <2>3, <2>4, <2>5 DEF MoveInv
<1>2. CASE Start  BY <1>2 DEF Start, MoveInv
<1>3. CASE CountMe \/ Poll  BY <1>3 DEF CountMe, Poll, MoveInv
<1>4. CASE Cmgl  BY <1>4 DEF Cmgl, MoveInv
<1>5. CASE SetNum \/ Smsread  BY <1>5 DEF SetNum, Smsread, MoveInv
<1>6. CASE SelectMe  BY <1>6 DEF SelectMe, MoveInv
<1>7. CASE Cmgr  BY <1>7 DEF Cmgr, MoveInv
<1>8. CASE SelectSm  BY <1>8 DEF SelectSm, NextSlot, MoveInv
<1>9. CASE Cmgw
  <2>1. CASE broken  BY <1>9, <2>1 DEF Cmgw, MoveInv
  <2>2. CASE ~broken
    <3>1. /\ pdu \in Msgs
          /\ from = "ME" => meslot \in MeSlots /\ me[meslot] = pdu
          /\ me' = me /\ arrived' = arrived /\ deleted' = deleted /\ misread' = misread
          /\ pc[P] = "cmgw"
      BY <1>9, <2>2 DEF Cmgw, MoveInv
    <3>2. \/ pc'[P] = "out" /\ Texts(sm) \subseteq Texts(sm')
          \/ /\ pc'[P] = "cmgd" /\ pdu' = pdu /\ meslot' = meslot /\ from' = from
             /\ Texts(sm') = Texts(sm) \cup {pdu}
      <4>1. CASE UNCHANGED sm /\ Moved
        BY <4>1 DEF Texts, Held, Moved
      <4>2. ASSUME NEW s \in SmSlots \ Held(sm), sm' = [sm EXCEPT ![s] = pdu]
            PROVE  Texts(sm') = Texts(sm) \cup {pdu}
        <5>1. /\ sm' \in [SmSlots -> Msgs \cup {None}] /\ sm'[s] = pdu
              /\ \A q \in SmSlots \ {s} : sm'[q] = sm[q]
          BY <3>1, <4>2
        <5> QED  BY <3>1, <4>2, <5>1 DEF Texts, Held
      <4> QED  BY <1>9, <4>1, <4>2 DEF Cmgw, Moved
    <3>3. broken' = broken  BY <1>9 DEF Cmgw
    <3> QED  BY <2>2, <3>1, <3>2, <3>3 DEF MoveInv
  <2> QED  BY <2>1, <2>2
<1>10. CASE Cmgd
  <2>1. CASE broken  BY <1>10, <2>1 DEF Cmgd, MoveInv
  <2>2. CASE ~broken
    <3>1. /\ pc'[P] = "out" /\ sm' = sm /\ arrived' = arrived /\ deleted' = deleted
          /\ broken' = broken
      BY <1>10 DEF Cmgd, Moved
    <3>2. from = "ME" => meslot \in MeSlots /\ me[meslot] \in Texts(sm)
      BY <1>10, <2>2 DEF Cmgd, MoveInv
    <3>3. Texts(me) \cup misread \subseteq Texts(me') \cup misread' \cup Texts(sm)
      <4> DEFINE gone == {me[s] : s \in {meslot} \cap Held(me)}
      <4>1. CASE UNCHANGED <<me, misread>>  BY <4>1
      <4>2. CASE /\ me' = [s \in MeSlots |-> IF s = meslot THEN None ELSE me[s]]
                 /\ misread' = IF from = "ME" THEN misread ELSE misread \cup gone
        <5>1. me' = [s \in MeSlots |-> IF s \in {meslot} THEN None ELSE me[s]]
          BY <4>2
        <5>2. Texts(me) \subseteq
                 Texts([s \in MeSlots |-> IF s \in {meslot} THEN None ELSE me[s]]) \cup gone
          BY ONLY <1>t, EmptyKeeps
        <5>3. Texts(me) \subseteq Texts(me') \cup gone  BY ONLY <5>1, <5>2
        <5>4. from = "ME" => gone \subseteq Texts(sm)  BY ONLY <3>2
        <5>5. misread' = IF from = "ME" THEN misread ELSE misread \cup gone  BY <4>2
        <5> HIDE DEF gone
        <5> QED  BY ONLY <5>3, <5>4, <5>5
      <4> QED  BY <1>10, <4>1, <4>2 DEF Cmgd
    <3> QED  BY <2>2, <3>1, <3>3 DEF MoveInv
  <2> QED  BY <2>1, <2>2
<1>11. CASE Kill  BY <1>11 DEF Kill, MoveInv
<1>12. CASE Replug  BY <1>12 DEF Replug, MoveInv
<1>13. ASSUME NEW p \in Procs, Locking(p) PROVE MoveInv'
  BY <1>13 DEF Locking, Mkdir, EchoPid, Peek, Break, Release, MoveInv
<1>14. ASSUME NEW d \in Dels, Ask(d) \/ SetStale(d) PROVE MoveInv'
  BY <1>14 DEF Ask, SetStale, MoveInv
<1>15. ASSUME NEW d \in Dels, Delete(d) PROVE MoveInv'
  <2>1. CASE broken  BY <1>15, <2>1 DEF Delete, MoveInv
  <2>2. CASE ~broken
    <3> DEFINE slots == IF want[d] = 0 THEN SmSlots ELSE {want[d]}
    <3>1. me' = me /\ arrived' = arrived /\ misread' = misread /\ broken' = broken
      BY <1>15 DEF Delete
    <3>2. pc'[P] \notin {"select", "cmgw", "cmgd"}
      BY <1>15, <2>2 DEF Delete, LockInv, Inside
    <3>3. Texts(sm) \cup deleted \subseteq Texts(sm') \cup deleted'
      <4>1. CASE UNCHANGED <<sm, deleted>>  BY <4>1
      <4>2. CASE /\ sm' = [s \in SmSlots |-> IF s \in slots THEN None ELSE sm[s]]
                 /\ deleted' = deleted \cup {sm[s] : s \in slots \cap Held(sm)}
        <5> HIDE DEF slots
        <5>1. Texts(sm) \subseteq
                 Texts([s \in SmSlots |-> IF s \in slots THEN None ELSE sm[s]])
                   \cup {sm[s] : s \in slots \cap Held(sm)}
          BY ONLY <1>t, EmptyKeeps
        <5>2. Texts(sm) \subseteq Texts(sm') \cup {sm[s] : s \in slots \cap Held(sm)}
          BY ONLY <4>2, <5>1
        <5> QED  BY ONLY <4>2, <5>2
      <4> QED  BY <1>15, <4>1, <4>2 DEF Delete
    <3> HIDE DEF slots
    <3> QED  BY <2>2, <3>1, <3>2, <3>3 DEF MoveInv
  <2> QED  BY <2>1, <2>2
<1>16. CASE UNCHANGED vars  BY <1>16 DEF vars, MoveInv
<1> QED  BY <1>1, <1>2, <1>3, <1>4, <1>5, <1>6, <1>7, <1>8, <1>9, <1>10, <1>11,
            <1>12, <1>13, <1>14, <1>15, <1>16 DEF Next, Processsms, Deleting

\* While the lock is exclusive no message is lost between the stores but by a
\* message of the SIM being read in its stead, for any number of messages and
\* slots, whatever AT commands fail and wherever processsms is killed (processsms
\* 105-136, delsms.sh 24-29).
THEOREM NoneLost == Spec => []NothingLost
<1>1. Init => MoveInv  BY SmsAssumption DEF Init, MoveInv, Procs
<1>2. AllTypes /\ LockInv /\ MoveInv /\ [Next]_vars => MoveInv'  BY MoveStep
<1>3. MoveInv => NothingLost  BY DEF MoveInv, NothingLost
<1> QED  BY <1>1, <1>2, <1>3, LockInvariant, PTL DEF Spec
-----------------------------------------------------------------------------
(***************************************************************************)
(* The list.  Messages are only compared by their number, so the number    *)
(* that goes with a list must never be larger than that of the SIM:        *)
(* arrivals would make it right while the list is old.  A number that      *)
(* could not be read goes with no list.                                    *)
(***************************************************************************)
Count == Cardinality(Held(sm))

Shows(texts) == \/ texts = sm
                \/ cut /\ \A s \in SmSlots : texts[s] \in {None, sm[s]}

Fresh(n, texts) == n \in {Stale, Blank} \/ (n <= Count /\ (n = Count => Shows(texts)))

FreshInv ==
  ~broken =>
    /\ (pc[P] \notin {"num", "smsread", "gone", "start"} /\ \A d \in Dels : pc[d] # "set")
          => Fresh(smsnum, list)
    /\ pc[P] = "cmgl" => used = Blank \/ (mem = "SM" /\ used <= Count)
    /\ pc[P] = "num" => Fresh(used, temp)
    /\ pc[P] = "smsread" => Fresh(smsnum, temp)

\* What a part of the SIM shows.
LEMMA CmglShows ==
  ASSUME AllTypes, Cmgl, mem = "SM"
  PROVE  Shows(temp)'
<1> USE SmsAssumption DEF AllTypes, TypeOK
<1>1. sm' = sm  BY DEF Cmgl, stores
<1>2. PICK seen \in SUBSET Held(sm) :
        /\ temp' = [s \in SmSlots |-> IF s \in seen THEN sm[s] ELSE None]
        /\ seen = Held(sm) \/ cut' = TRUE
  BY DEF Cmgl
<1>3. \A s \in SmSlots : temp'[s] \in {None, sm[s]}  BY <1>2
<1>4. CASE seen = Held(sm)
  <2>1. \A s \in SmSlots : temp'[s] = sm[s]  BY <1>2, <1>4 DEF Held
  <2>2. temp' = [s \in SmSlots |-> temp'[s]] /\ sm = [s \in SmSlots |-> sm[s]]  BY <1>2
  <2>3. temp' = sm  BY ONLY <2>1, <2>2
  <2> QED  BY <1>1, <2>3 DEF Shows
<1>5. CASE cut' = TRUE  BY <1>1, <1>3, <1>5 DEF Shows
<1> QED  BY <1>2, <1>4, <1>5

\* No step makes an old list look new (processsms 85-104, 138-147, delsms.sh 30).
LEMMA FreshStep ==
  ASSUME AllTypes, LockInv, FreshInv, [Next]_vars
  PROVE  FreshInv'
<1> USE SmsAssumption DEF stores, proc, reads, history, rest, Goto, Procs
<1>t. /\ sm \in [SmSlots -> Msgs \cup {None}] /\ me \in [MeSlots -> Msgs \cup {None}]
      /\ pc \in [Procs -> Points] /\ pdu \in Msgs \cup {None}
      /\ used \in Nat /\ Count \in Nat /\ Count < Stale /\ Stale < Blank
      /\ smsnum \in Nat /\ Stale \in Nat /\ Blank \in Nat
  <2>1. Count \in 0..Full /\ Full \in Nat
    BY HeldFinite, FS_CardinalityType DEF AllTypes, TypeOK, Count, Full
  <2>2. Stale \in Nat /\ Blank \in Nat /\ Stale < Blank /\ Full < Stale
    BY DEF Stale, Blank, Full
  <2> QED  BY <2>1, <2>2 DEF AllTypes, TypeOK
<1> USE <1>t
\* Steps that leave the SIM alone, or add a message to it, keep what is fresh.
<1>a. ASSUME sm' = sm PROVE Count' = Count  BY <1>a DEF Count
<1>c. ASSUME sm' = sm, cut' = cut PROVE \A x : Shows(x)' = Shows(x)
  BY <1>c DEF Shows
<1>b. ASSUME NEW m \in Msgs, NEW s \in SmSlots \ Held(sm), sm' = [sm EXCEPT ![s] = m]
      PROVE  Count' = Count + 1
  <2>1. Held(sm') = Held(sm) \cup {s}  BY <1>b DEF Held
  <2>2. IsFiniteSet(Held(sm)) /\ s \notin Held(sm)  BY HeldFinite
  <2> QED  BY <2>1, <2>2, FS_AddElement DEF Count
<1>k. ASSUME UNCHANGED <<smsnum, list, used, temp, mem, cut, broken>>,
             \/ sm' = sm \/ Count' = Count + 1,
             pc'[P] = pc[P], \A d \in Dels : pc[d] = "set" => pc'[d] = "set"
      PROVE  FreshInv'
  BY <1>a, <1>c, <1>k DEF FreshInv, Fresh
\* ... and so does processsms where it has no list at hand.
<1>m. ASSUME UNCHANGED <<smsnum, list, cut, broken>>, \/ sm' = sm \/ Count' = Count + 1,
             pc[P] \notin {"num", "smsread", "gone", "start"},
             pc'[P] \notin {"cmgl", "num", "smsread"},
             \A d \in Dels : pc'[d] = pc[d]
      PROVE  FreshInv'
  BY <1>a, <1>c, <1>m DEF FreshInv, Fresh
<1>1. CASE Arrive
  <2>1. sm' = sm \/ Count' = Count + 1  BY <1>1, <1>b DEF Arrive
  <2>2. UNCHANGED <<pc, mem, used, temp, smsnum, list, cut, broken>>  BY <1>1 DEF Arrive
  <2> QED  BY <1>k, <2>1, <2>2
<1>2. CASE Start  BY <1>2 DEF Start, FreshInv, Fresh
<1>3. CASE CountMe
  <2>1. /\ UNCHANGED <<sm, smsnum, list, cut, broken>> /\ pc[P] = "in"
        /\ pc' = [pc EXCEPT ![P] = "count"]
    BY <1>3 DEF CountMe
  <2> QED  BY <1>m, <2>1
<1>4. CASE Poll
  <2>1. /\ UNCHANGED <<sm, smsnum, list, cut, broken>> /\ pc[P] = "count"
        /\ \/ used' \in {Count, Blank} /\ pc' = [pc EXCEPT ![P] = "cmgl"]
              /\ (used' = Blank \/ mem' = "SM")
           \/ pc' = [pc EXCEPT ![P] = "cpms"]
           \/ pc' = [pc EXCEPT ![P] = "out"]
    BY <1>4 DEF Poll, Count
  <2>2. CASE pc'[P] = "cmgl"
    <3>1. pc' = [pc EXCEPT ![P] = "cmgl"] /\ used' \in {Count, Blank}
          /\ (used' = Blank \/ mem' = "SM")
      BY <2>1, <2>2
    <3> QED  BY <1>a, <1>c, <2>1, <3>1 DEF FreshInv, Fresh
  <2>3. CASE pc'[P] # "cmgl"  BY <1>m, <2>1, <2>3
  <2> QED  BY <2>2, <2>3
<1>5. CASE Cmgl
  <2>1. /\ UNCHANGED <<sm, used, broken>> /\ pc[P] = "cmgl"
        /\ pc' = [pc EXCEPT ![P] = "num"]
    BY <1>5 DEF Cmgl
  <2>2. mem = "SM" => Shows(temp)'  BY <1>5, CmglShows
  <2> QED  BY <1>a, <2>1, <2>2 DEF FreshInv, Fresh
<1>6. CASE SetNum \/ Smsread
  <2>1. UNCHANGED <<sm, cut, broken>>  BY <1>6 DEF SetNum, Smsread
  <2> QED  BY <1>6, <1>a, <1>c, <2>1 DEF SetNum, Smsread, FreshInv, Fresh
<1>7. CASE SelectMe \/ Cmgr
  <2>1. /\ UNCHANGED <<sm, smsnum, list, cut, broken>> /\ pc[P] \in {"cpms", "cmgr"}
        /\ Goto(P, "cmgr") \/ Goto(P, "select")
    BY <1>7 DEF SelectMe, Cmgr
  <2> QED  BY <1>m, <2>1
<1>8. CASE SelectSm
  <2>1. /\ UNCHANGED <<sm, smsnum, list, cut, broken>>
        /\ pc[P] = "select" /\ (Goto(P, "out") \/ Goto(P, "cmgw"))
    BY <1>8 DEF SelectSm
  <2> QED  BY <1>m, <2>1
<1>9. CASE Cmgw
  <2>1. sm' = sm \/ Count' = Count + 1
    <3>1. ASSUME NEW s \in SmSlots \ Held(sm), sm' = [sm EXCEPT ![s] = pdu], pdu = None
          PROVE  sm' = sm
      BY <3>1 DEF Held
    <3> QED  BY <1>9, <1>b, <3>1 DEF Cmgw
  <2>2. /\ UNCHANGED <<smsnum, list, cut, broken>>
        /\ pc[P] = "cmgw" /\ (Goto(P, "out") \/ Goto(P, "cmgd"))
    BY <1>9 DEF Cmgw, Moved
  <2> QED  BY <1>m, <2>1, <2>2
<1>10. CASE Cmgd
  <2>1. /\ UNCHANGED <<sm, smsnum, list, cut, broken>> /\ Goto(P, "out") /\ pc[P] = "cmgd"
    BY <1>10 DEF Cmgd, Moved
  <2> QED  BY <1>m, <2>1
<1>11. CASE Kill  BY <1>11 DEF Kill, FreshInv
<1>12. CASE Replug  BY <1>12 DEF Replug, FreshInv
<1>13. ASSUME NEW p \in Procs, Locking(p) PROVE FreshInv'
  <2>1. UNCHANGED rest
    BY <1>13 DEF Locking, Mkdir, EchoPid, Peek, Break, Release
  <2>2. broken => broken'
    <3>1. CASE Break(p)  BY <3>1, Zenon DEF Break
    <3>2. CASE ~Break(p)  BY <1>13, <3>2 DEF Locking, Mkdir, EchoPid, Peek, Release
    <3> QED  BY <3>1, <3>2
  <2>3. /\ pc[p] \in {"try", "create", "echo", "peek", "break", "out"}
        /\ \E l \in {"done", "try", "create", "echo", "peek", "break", "in"} :
             pc' = [pc EXCEPT ![p] = l]
    BY <1>13 DEF Locking, Mkdir, EchoPid, Peek, Break, Release
  <2> QED  BY <1>a, <1>c, <2>1, <2>2, <2>3 DEF FreshInv, Fresh
<1>14. ASSUME NEW d \in Dels, Ask(d) PROVE FreshInv'
  <2>1. /\ UNCHANGED <<smsnum, list, sm, used, temp, mem, cut, broken>> /\ pc[d] = "none"
        /\ pc' = [pc EXCEPT ![d] = "try"]
    BY <1>14 DEF Ask
  <2> QED  BY <1>k, <2>1
<1>15. ASSUME NEW d \in Dels, Delete(d) PROVE FreshInv'
  <2>1. ~broken => pc[P] \notin {"cmgl", "num", "smsread"}
    BY <1>15 DEF Delete, LockInv, Inside
  <2> QED  BY <1>15, <2>1 DEF Delete, FreshInv
<1>16. ASSUME NEW d \in Dels, SetStale(d) PROVE FreshInv'
  <2>1. UNCHANGED <<sm, mem, used, temp, cut, broken>> /\ smsnum' = Stale
    BY <1>16 DEF SetStale
  <2>2. pc'[P] = pc[P]  BY <1>16 DEF SetStale
  <2> QED  BY <1>a, <1>c, <2>1, <2>2 DEF FreshInv, Fresh
<1>17. CASE UNCHANGED vars  BY <1>17, <1>k DEF vars
<1> QED  BY <1>1, <1>2, <1>3, <1>4, <1>5, <1>6, <1>7, <1>8, <1>9, <1>10, <1>11,
            <1>12, <1>13, <1>14, <1>15, <1>16, <1>17 DEF Next, Processsms, Deleting

\* The page shows what the SIM holds, or leaves out what a failed AT+CMGL had not
\* listed, or processsms will list it anew, as long as the lock is exclusive, for any
\* number of messages, slots and scripts, whatever AT commands fail (processsms 104,
\* 138-147, delsms.sh 30).
THEOREM Listed == Spec => []ListFresh
<1>1. Init => FreshInv  BY SmsAssumption DEF Init, FreshInv, Fresh, Procs
<1>2. AllTypes /\ LockInv /\ FreshInv /\ [Next]_vars => FreshInv'  BY FreshStep
<1>3. AllTypes /\ FreshInv => ListFresh
  <2>1. AllTypes => Count \in Nat /\ Count < Stale /\ Count < Blank
    <3>1. AllTypes => Count \in 0..Full /\ Full \in Nat
      BY HeldFinite, SmsAssumption, FS_CardinalityType DEF AllTypes, TypeOK, Count, Full
    <3>2. Full < 999 /\ Stale = 999 /\ Blank = 1000
      BY SmsAssumption DEF Full, Stale, Blank
    <3> QED  BY <3>1, <3>2
  <2>2. FreshInv /\ ~broken /\ pc[P] \notin {"gone", "start"} /\ (\A p \in Procs : ~Inside(p))
          => Fresh(smsnum, list)
    BY DEF FreshInv, Inside, Procs
  <2> QED  BY <2>1, <2>2 DEF Fresh, Shows, ListFresh, Count
<1> QED  BY <1>1, <1>2, <1>3, LockInvariant, PTL DEF Spec

=============================================================================
