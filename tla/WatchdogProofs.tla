---------------------------- MODULE WatchdogProofs ----------------------------
(***************************************************************************)
(* Theorems about the watchdogs, for any number of modems, APNs and looks. *)
(***************************************************************************)
EXTENDS Watchdog, SequenceTheorems, TLAPS

\* No element is in a list twice.
Once(seq) == \A i, j \in DOMAIN seq : seq[i] = seq[j] => i = j

-----------------------------------------------------------------------------
(***************************************************************************)
(* What starting, ending and killing a process does to the list of ps.     *)
(***************************************************************************)
LEMMA AppendListed ==
  ASSUME NEW seq \in Seq(Modems), NEW m \in Modems
  PROVE  /\ Append(seq, m) \in Seq(Modems) /\ Len(Append(seq, m)) = Len(seq) + 1
         /\ Listed(Append(seq, m)) = Listed(seq) \cup {m}
         /\ Once(seq) /\ m \notin Listed(seq) => Once(Append(seq, m))
<1> DEFINE new == Append(seq, m)
<1>1. /\ new \in Seq(Modems) /\ Len(new) = Len(seq) + 1 /\ new[Len(seq) + 1] = m
      /\ \A i \in 1..Len(seq) : new[i] = seq[i]
  OBVIOUS
<1>2. Len(seq) \in Nat /\ DOMAIN seq = 1..Len(seq) /\ DOMAIN new = 1..(Len(seq) + 1)
  BY <1>1
<1> HIDE DEF new
<1>3. Listed(new) = Listed(seq) \cup {m}
  <2>1. \A x \in Listed(seq) : x \in Listed(new)  BY <1>1, <1>2 DEF Listed
  <2>2. m \in Listed(new)  BY <1>1, <1>2 DEF Listed
  <2>3. \A x \in Listed(new) : x \in Listed(seq) \cup {m}  BY <1>1, <1>2 DEF Listed
  <2> QED  BY <2>1, <2>2, <2>3
<1>4. Once(seq) /\ m \notin Listed(seq) => Once(new)  BY <1>1, <1>2 DEF Once, Listed
<1> QED  BY <1>1, <1>3, <1>4 DEF new

LEMMA TailListed ==
  ASSUME NEW seq \in Seq(Modems), Once(seq), seq # <<>>
  PROVE  /\ Tail(seq) \in Seq(Modems) /\ Once(Tail(seq)) /\ Head(seq) \in Listed(seq)
         /\ Listed(Tail(seq)) = Listed(seq) \ {Head(seq)}
<1> DEFINE new == Tail(seq)
<1>1. /\ new \in Seq(Modems) /\ Len(new) = Len(seq) - 1
      /\ \A i \in 1..Len(new) : new[i] = seq[i + 1]
  OBVIOUS
<1>2. /\ Len(seq) \in Nat \ {0} /\ DOMAIN seq = 1..Len(seq) /\ DOMAIN new = 1..Len(new)
      /\ Head(seq) = seq[1]
  BY <1>1
<1> HIDE DEF new
<1>3. Once(new)  BY <1>1, <1>2 DEF Once
<1>4. Listed(new) = Listed(seq) \ {Head(seq)}
  <2>1. \A x \in Listed(new) : x \in Listed(seq) /\ x # seq[1]
    BY <1>1, <1>2 DEF Listed, Once
  <2>2. ASSUME NEW i \in 1..Len(seq), i # 1 PROVE seq[i] \in Listed(new)
    <3>1. i - 1 \in 1..Len(new) /\ new[i - 1] = seq[i]  BY <1>1, <1>2, <2>2
    <3> QED  BY <1>2, <3>1 DEF Listed
  <2> QED  BY <1>2, <2>1, <2>2 DEF Listed
<1>5. Head(seq) \in Listed(seq)  BY <1>2 DEF Listed
<1> QED  BY <1>1, <1>3, <1>4, <1>5 DEF new

LEMMA RemoveListed ==
  ASSUME NEW seq \in Seq(Modems), NEW k \in DOMAIN seq
  PROVE  /\ RemoveAt(seq, k) \in Seq(Modems) /\ Len(RemoveAt(seq, k)) = Len(seq) - 1
         /\ Listed(seq) \subseteq Listed(RemoveAt(seq, k)) \cup {seq[k]}
         /\ Once(seq) => /\ Once(RemoveAt(seq, k))
                         /\ Listed(RemoveAt(seq, k)) = Listed(seq) \ {seq[k]}
<1> DEFINE new == RemoveAt(seq, k)
           l == SubSeq(seq, 1, k - 1)
           r == SubSeq(seq, k + 1, Len(seq))
<1>0. /\ Len(seq) \in Nat /\ DOMAIN seq = 1..Len(seq) /\ k \in 1..Len(seq)
      /\ \A i \in 1..Len(seq) : seq[i] \in Modems
  BY LenProperties
<1>1. /\ l \in Seq(Modems) /\ Len(l) = k - 1
      /\ \A i \in 1..(k - 1) : l[i] = seq[i]
  <2>1. \A i \in 1..(k - 1) : seq[i] \in Modems  BY <1>0
  <2>2. 1 \in Int /\ k - 1 \in Int  BY <1>0
  <2>3. /\ l \in Seq(Modems) /\ Len(l) = IF 1 <= k - 1 THEN k - 1 - 1 + 1 ELSE 0
        /\ \A i \in 1..(k - 1 - 1 + 1) : l[i] = seq[1 + i - 1]
    BY ONLY <2>1, <2>2, SubSeqProperties
  <2> HIDE DEF l
  <2> QED  BY <1>0, <2>3
<1>2. /\ r \in Seq(Modems) /\ Len(r) = Len(seq) - k
      /\ \A i \in 1..(Len(seq) - k) : r[i] = seq[k + i]
  <2>1. \A i \in (k + 1)..Len(seq) : seq[i] \in Modems  BY <1>0
  <2>2. k + 1 \in Int /\ Len(seq) \in Int  BY <1>0
  <2>3. /\ r \in Seq(Modems)
        /\ Len(r) = IF k + 1 <= Len(seq) THEN Len(seq) - (k + 1) + 1 ELSE 0
        /\ \A i \in 1..(Len(seq) - (k + 1) + 1) : r[i] = seq[k + 1 + i - 1]
    BY ONLY <2>1, <2>2, SubSeqProperties
  <2> HIDE DEF r
  <2>4. Len(r) = Len(seq) - k  BY <1>0, <2>3
  <2>5. ASSUME NEW i \in 1..(Len(seq) - k) PROVE r[i] = seq[k + i]
    <3>1. i \in 1..(Len(seq) - (k + 1) + 1) /\ k + 1 + i - 1 = k + i  BY <1>0
    <3>2. r[i] = seq[k + 1 + i - 1]  BY <2>3, <3>1
    <3> QED  BY <3>1, <3>2
  <2> QED  BY <2>3, <2>4, <2>5
<1> HIDE DEF l, r
<1>3. /\ new \in Seq(Modems) /\ Len(new) = Len(seq) - 1
      /\ \A i \in 1..(Len(seq) - 1) : new[i] = IF i < k THEN seq[i] ELSE seq[i + 1]
  <2>1. new = l \o r  BY DEF RemoveAt, l, r
  <2>2. /\ new \in Seq(Modems) /\ Len(new) = Len(l) + Len(r)
        /\ \A i \in 1..(Len(l) + Len(r)) :
             new[i] = IF i <= Len(l) THEN l[i] ELSE r[i - Len(l)]
    BY <1>1, <1>2, <2>1, ConcatProperties
  <2> HIDE DEF new
  <2>3. Len(new) = Len(seq) - 1  BY <1>0, <1>1, <1>2, <2>2
  <2>4. ASSUME NEW i \in 1..(Len(seq) - 1)
        PROVE  new[i] = IF i < k THEN seq[i] ELSE seq[i + 1]
    <3>1. i \in 1..(Len(l) + Len(r)) /\ Len(l) = k - 1  BY <1>0, <1>1, <1>2
    <3>2. CASE i < k  BY <1>0, <1>1, <2>2, <3>1, <3>2
    <3>3. CASE ~(i < k)
      <4>1. i - Len(l) \in 1..(Len(seq) - k) /\ ~(i <= Len(l)) /\ k + (i - Len(l)) = i + 1
        BY <1>0, <3>1, <3>3
      <4>2. new[i] = r[i - Len(l)]  BY <2>2, <3>1, <4>1
      <4>3. r[i - Len(l)] = seq[k + (i - Len(l))]  BY <1>2, <4>1
      <4> QED  BY <3>3, <4>1, <4>2, <4>3
    <3> QED  BY <3>2, <3>3
  <2> QED  BY <2>2, <2>3, <2>4
<1>4. DOMAIN new = 1..(Len(seq) - 1)  BY <1>3
<1> HIDE DEF new
<1>5. ASSUME Once(seq) PROVE Once(new)
  <2> SUFFICES ASSUME NEW i \in 1..(Len(seq) - 1), NEW j \in 1..(Len(seq) - 1), new[i] = new[j]
               PROVE  i = j
    BY <1>4 DEF Once
  <2> DEFINE at(x) == IF x < k THEN x ELSE x + 1
  <2>1. at(i) \in DOMAIN seq /\ at(j) \in DOMAIN seq  BY <1>0
  <2>2. new[i] = seq[at(i)] /\ new[j] = seq[at(j)]  BY <1>0, <1>3
  <2>3. at(i) = at(j)  BY <1>5, <2>1, <2>2 DEF Once
  <2> QED  BY <1>0, <2>3
<1>6. ASSUME NEW i \in 1..Len(seq), i # k PROVE seq[i] \in Listed(new)
  <2>1. CASE i < k
    <3>1. i \in 1..(Len(seq) - 1) /\ new[i] = seq[i]  BY <1>0, <1>3, <2>1
    <3> QED  BY <1>4, <3>1 DEF Listed
  <2>2. CASE i > k
    <3>1. i - 1 \in 1..(Len(seq) - 1) /\ new[i - 1] = seq[i]  BY <1>0, <1>3, <2>2
    <3> QED  BY <1>4, <3>1 DEF Listed
  <2> QED  BY <1>0, <1>6, <2>1, <2>2
<1>7. Listed(seq) \subseteq Listed(new) \cup {seq[k]}  BY <1>0, <1>6 DEF Listed
<1>8. ASSUME Once(seq) PROVE Listed(new) = Listed(seq) \ {seq[k]}
  <2>1. \A x \in Listed(new) : x \in Listed(seq) /\ x # seq[k]
    BY <1>0, <1>3, <1>4, <1>8 DEF Listed, Once
  <2> QED  BY <1>7, <2>1
<1> QED  BY <1>3, <1>5, <1>7, <1>8 DEF new

\* The lists of ps are as TypeOK says.
LEMMA DogsListed ==
  ASSUME TypeOK
  PROVE  /\ Once(dogs) /\ Dogs = Listed(dogs) /\ Dogs \subseteq Modems
         /\ Checks = Listed(checks) /\ Checks \subseteq Modems
<1>1. dogs \in Seq(Modems) /\ \A i \in DOMAIN dogs : dogs[i] \in Modems  BY DEF TypeOK
<1>2. checks \in Seq(Modems) /\ \A i \in DOMAIN checks : checks[i] \in Modems  BY DEF TypeOK
<1> QED  BY <1>1, <1>2 DEF TypeOK, Once, Listed, Dogs, Checks

\* A modem has a watchdog, is about to get one, or has been noted as having none.
Covered == Checks \cup Dogs \cup unwatched

\* The modems in use that lose their chkconn.sh are noted (restartrun.sh 142,
\* modeswitch.sh 500).
LEMMA KillChecksEffect ==
  ASSUME TypeOK, NEW rest, KillChecks(rest), rest \in {<<>>, AllButFirst}, dogs' = dogs
  PROVE  /\ checks' \in Seq(Modems) /\ Len(checks') <= MaxChecks
         /\ unwatched' \subseteq Modems /\ Dogs' = Dogs
         /\ Covered \ empty \subseteq Covered'
<1>1. checks \in Seq(Modems) /\ Len(checks) <= MaxChecks /\ Len(checks) \in Nat /\ MaxChecks \in Nat
  BY WatchdogAssumption DEF TypeOK
<1>2. rest \in Seq(Modems) /\ Len(rest) <= MaxChecks
  <2>1. <<>> \in Seq(Modems) /\ Len(<<>>) <= MaxChecks  BY <1>1
  <2>2. ASSUME checks # <<>> PROVE Tail(checks) \in Seq(Modems) /\ Len(Tail(checks)) <= MaxChecks
    BY <1>1, <2>2
  <2> QED  BY <2>1, <2>2 DEF AllButFirst
<1>3. checks' = rest /\ unwatched' = unwatched \cup (Checks \ (Dogs \cup Listed(rest) \cup empty))
  BY DEF KillChecks
<1>4. Dogs' = Dogs /\ Checks' = Listed(rest)  BY <1>3 DEF Dogs, Checks, Listed
<1>5. unwatched' \subseteq Modems  BY <1>3, DogsListed DEF TypeOK
<1> QED  BY <1>2, <1>3, <1>4, <1>5 DEF Covered

\* chkconn1.sh ends: its modem has no watchdog then (chkconn1.sh 26-37).
LEMMA EndDogEffect ==
  ASSUME TypeOK, NEW m \in Modems, EndDog(m)
  PROVE  /\ dogs' \in Seq(Modems) /\ Once(dogs)' /\ Dogs' = Dogs \ {m}
         /\ waiting' = waiting \ {m} /\ spared' = spared \ {m}
         /\ waiting' \subseteq Dogs' /\ spared' \subseteq Dogs'
         /\ looks' = [looks EXCEPT ![m] = 0] /\ looks' \in [Modems -> 0..Looks]
<1>1. PICK i \in DOMAIN dogs : dogs[i] = m /\ dogs' = RemoveAt(dogs, i)  BY DEF EndDog
<1>2. dogs \in Seq(Modems) /\ Once(dogs) /\ Dogs = Listed(dogs)  BY DogsListed DEF TypeOK
<1>3. dogs' \in Seq(Modems) /\ Once(dogs)' /\ Listed(dogs)' = Listed(dogs) \ {m}
  <2>1. /\ RemoveAt(dogs, i) \in Seq(Modems) /\ Once(RemoveAt(dogs, i))
        /\ Listed(RemoveAt(dogs, i)) = Listed(dogs) \ {dogs[i]}
    BY <1>2, RemoveListed
  <2>2. Once(dogs)' = Once(RemoveAt(dogs, i)) /\ Listed(dogs)' = Listed(RemoveAt(dogs, i))
    BY <1>1 DEF Once, Listed
  <2> QED  BY <1>1, <2>1, <2>2
<1>4. Dogs' = Dogs \ {m}  BY <1>2, <1>3 DEF Dogs, Listed
<1>5. looks' = [looks EXCEPT ![m] = 0] /\ looks' \in [Modems -> 0..Looks]
  BY WatchdogAssumption DEF EndDog, TypeOK
<1> QED  BY <1>3, <1>4, <1>5 DEF EndDog, TypeOK

\* chkconn.sh ends (chkconn.sh 10).
LEMMA EndCheckEffect ==
  ASSUME TypeOK, NEW m \in Modems, EndCheck(m)
  PROVE  /\ checks' \in Seq(Modems) /\ Len(checks') <= MaxChecks
         /\ Checks \subseteq Checks' \cup {m}
<1>1. PICK i \in DOMAIN checks : checks[i] = m /\ checks' = RemoveAt(checks, i)
  BY DEF EndCheck
<1>2. checks \in Seq(Modems) /\ Len(checks) <= MaxChecks /\ Len(checks) \in Nat /\ MaxChecks \in Nat
  BY WatchdogAssumption DEF TypeOK
<1>3. /\ RemoveAt(checks, i) \in Seq(Modems) /\ Len(RemoveAt(checks, i)) = Len(checks) - 1
      /\ Listed(checks) \subseteq Listed(RemoveAt(checks, i)) \cup {checks[i]}
  BY <1>2, RemoveListed
<1>4. Checks = Listed(checks) /\ Checks' = Listed(RemoveAt(checks, i))
  BY <1>1 DEF Checks, Listed
<1>5. Len(checks') <= MaxChecks  BY <1>1, <1>2, <1>3
<1> QED  BY <1>1, <1>3, <1>4, <1>5

\* chkconn.sh leaves its modem with a watchdog (chkconn.sh 7-10).
LEMMA ChkconnEffect ==
  ASSUME TypeOK, NEW m \in Modems, Chkconn(m)
  PROVE  /\ dogs' \in Seq(Modems) /\ Once(dogs)' /\ Dogs' = Dogs \cup {m}
         /\ waiting' = waiting /\ seen' = seen
         /\ empty' = empty /\ pc' = pc /\ killing' = killing
         /\ unwatched \ {m} \subseteq unwatched' /\ unwatched' \subseteq Modems
         /\ spared' \subseteq Dogs' /\ spared \subseteq spared'
         /\ \/ m \in Dogs /\ looks' = looks /\ spared' = spared
            \/ /\ m \notin Dogs /\ looks' = [looks EXCEPT ![m] = Looks]
               /\ m \in empty \ killing => m \in spared'
<1>1. dogs \in Seq(Modems) /\ Once(dogs) /\ Dogs = Listed(dogs)  BY DogsListed DEF TypeOK
<1>2. CASE m \in Dogs
  <2>1. /\ dogs' = dogs /\ looks' = looks /\ spared' = spared /\ waiting' = waiting
        /\ unwatched' = unwatched \cup (({m} \cap waiting) \ empty)
        /\ seen' = seen /\ empty' = empty /\ pc' = pc /\ killing' = killing
    BY <1>2 DEF Chkconn, table, create, removal
  <2>2. Once(dogs)' /\ Dogs' = Dogs \cup {m}  BY <1>1, <1>2, <2>1 DEF Once, Dogs, Listed
  <2> QED  BY <1>1, <1>2, <2>1, <2>2 DEF TypeOK
<1>3. CASE m \notin Dogs
  <2>1. /\ dogs' = Append(dogs, m) /\ looks' = [looks EXCEPT ![m] = Looks]
        /\ unwatched' = unwatched \ {m} /\ spared' = spared \cup ({m} \cap (empty \ killing))
        /\ waiting' = waiting /\ seen' = seen /\ empty' = empty /\ pc' = pc /\ killing' = killing
    BY <1>3 DEF Chkconn, StartDog, table, create, removal
  <2>2. /\ Append(dogs, m) \in Seq(Modems) /\ Once(Append(dogs, m))
        /\ Listed(Append(dogs, m)) = Listed(dogs) \cup {m}
    BY <1>1, <1>3, AppendListed
  <2>3. Once(dogs)' = Once(Append(dogs, m)) /\ Dogs' = Listed(Append(dogs, m))
    BY <2>1 DEF Once, Listed, Dogs
  <2> QED  BY <1>1, <1>3, <2>1, <2>2, <2>3 DEF TypeOK
<1> QED  BY <1>2, <1>3

\* The remove handler kills the first watchdog of ps (modeswitch.sh 676).
LEMMA KillEffect ==
  ASSUME TypeOK, NEW m \in Modems, Kill(m)
  PROVE  /\ dogs' \in Seq(Modems) /\ Once(dogs)' /\ Dogs' \subseteq Dogs
         /\ waiting' \subseteq Dogs' /\ spared' \subseteq Dogs'
         /\ spared \cap Dogs' \subseteq spared' /\ (m \in Dogs' \cap empty => m \in spared')
         /\ unwatched \subseteq unwatched' /\ unwatched' \subseteq Modems
         /\ \A d \in Dogs \ Dogs' : d \in empty \cup unwatched'
         /\ looks' \in [Modems -> 0..Looks] /\ \A d \in Dogs' : looks'[d] = looks[d]
<1>1. dogs \in Seq(Modems) /\ Once(dogs) /\ Dogs = Listed(dogs) /\ Dogs \subseteq Modems
  BY DogsListed DEF TypeOK
<1>2. CASE dogs = <<>>
  <2>1. /\ dogs' = dogs /\ waiting' = waiting /\ spared' = spared /\ unwatched' = unwatched
        /\ looks' = looks
    BY <1>2 DEF Kill
  <2>2. Dogs = {} /\ Dogs' = Dogs /\ Once(dogs)'  BY <1>1, <1>2, <2>1 DEF Dogs, Once, Listed
  <2> QED  BY <1>1, <2>1, <2>2 DEF TypeOK
<1>3. CASE dogs # <<>>
  <2>1. /\ dogs' = Tail(dogs) /\ waiting' = waiting \ {Head(dogs)}
        /\ unwatched' = unwatched \cup ({Head(dogs)} \ empty)
        /\ spared' = (spared \cup (Dogs \cap empty \cap {m})) \ {Head(dogs)}
        /\ looks' = [looks EXCEPT ![Head(dogs)] = 0]
    BY <1>3 DEF Kill
  <2>2. /\ Tail(dogs) \in Seq(Modems) /\ Once(Tail(dogs)) /\ Head(dogs) \in Listed(dogs)
        /\ Listed(Tail(dogs)) = Listed(dogs) \ {Head(dogs)}
    BY <1>1, <1>3, TailListed
  <2>3. Once(dogs)' = Once(Tail(dogs)) /\ Dogs' = Listed(Tail(dogs))
    BY <2>1 DEF Once, Listed, Dogs
  <2>4. Dogs' = Dogs \ {Head(dogs)} /\ Head(dogs) \in Modems  BY <1>1, <2>2, <2>3
  <2>5. looks' \in [Modems -> 0..Looks] /\ \A d \in Dogs' : looks'[d] = looks[d]
    BY <1>1, <2>1, <2>4, WatchdogAssumption DEF TypeOK
  <2>6. /\ dogs' \in Seq(Modems) /\ Once(dogs)' /\ Dogs' \subseteq Dogs
        /\ unwatched \subseteq unwatched' /\ unwatched' \subseteq Modems
        /\ \A d \in Dogs \ Dogs' : d \in empty \cup unwatched'
    BY <2>1, <2>2, <2>3, <2>4 DEF TypeOK
  <2>7. /\ waiting' \subseteq Dogs' /\ spared' \subseteq Dogs'
        /\ spared \cap Dogs' \subseteq spared' /\ (m \in Dogs' \cap empty => m \in spared')
    BY <2>1, <2>4 DEF TypeOK
  <2> QED  BY <2>5, <2>6, <2>7
<1> QED  BY <1>2, <1>3

-----------------------------------------------------------------------------
(***************************************************************************)
(* Type correctness.  create_connect.sh dials only with an APN left, which *)
(* is what keeps the count of the rest from going below zero.              *)
(***************************************************************************)
ApnLeft == \A m \in Modems : pc[m] \in {"dial", "attempt"} => apns[m] > 0

TypeInv == TypeOK /\ ApnLeft

\* The part of TypeOK that is about the watchdogs.
DogType ==
  /\ checks \in Seq(Modems) /\ Len(checks) <= MaxChecks
  /\ dogs \in Seq(Modems) /\ Once(dogs)
  /\ looks \in [Modems -> 0..Looks] /\ seen \in [Modems -> 0..Looks]
  /\ waiting \subseteq Dogs /\ spared \subseteq Dogs /\ unwatched \subseteq Modems

\* The part of TypeOK and ApnLeft that is about the rest.
RestType ==
  /\ kind \in Outfits /\ plugs \in 0..MaxPlugs
  /\ bus \in [Modems -> {"out", "in", "leaving"}]
  /\ empty \subseteq Modems /\ connected \subseteq Modems
  /\ pc \in [Modems -> {"none", "prepare", "dial", "attempt", "up"}]
  /\ apns \in [Modems -> 0..Apns] /\ setup \subseteq Modems
  /\ dialled \subseteq Modems /\ usbwait \in BOOLEAN
  /\ freeing \subseteq Modems /\ killing \subseteq Modems
  /\ ApnLeft

LEMMA TypeParts == TypeInv <=> DogType /\ RestType
  BY DEF TypeInv, TypeOK, DogType, RestType, Once

\* Every step keeps the watchdogs' part: chkconn.sh starts no second one.
LEMMA DogTypeStep ==
  ASSUME TypeOK, [Next]_vars
  PROVE  DogType'
<1> USE WatchdogAssumption
<1>1. DogType  BY TypeOK DEF TypeOK, DogType, Once
<1>2. ASSUME UNCHANGED dog PROVE DogType'  BY <1>1, <1>2 DEF dog, DogType, Once, Dogs, Listed
<1>3. CASE UNCHANGED vars  BY <1>2, <1>3 DEF vars
<1>4. ASSUME NEW rest \in {<<>>, AllButFirst}, KillChecks(rest),
             UNCHANGED <<dogs, looks, seen>>, waiting' \subseteq Dogs, spared' \subseteq Dogs
      PROVE  DogType'
  <2>1. Once(dogs)' /\ dogs' = dogs  BY <1>1, <1>4 DEF DogType, Once
  <2> QED  BY <1>1, <1>4, <2>1, KillChecksEffect DEF DogType
<1>5. ASSUME NEW m \in Modems, Plug(m) PROVE DogType'
  <2>1. /\ KillChecks(AllButFirst) /\ UNCHANGED <<dogs, looks, seen, waiting>>
        /\ spared' = spared \cup (Dogs \cap killing \cap {m})
    BY <1>5 DEF Plug
  <2> QED  BY <1>1, <1>4, <2>1 DEF DogType
<1>6. CASE OtherDevice  BY <1>1, <1>4, <1>6 DEF OtherDevice, DogType
<1>7. ASSUME NEW m \in Modems, Connecting(m) PROVE DogType'
  <2>1. CASE Prepare(m)  BY <1>2, <2>1 DEF Prepare
  <2>2. CASE Dial(m)
    <3>1. /\ checks' = Append(checks, m) /\ Len(checks) < MaxChecks
          /\ UNCHANGED <<dogs, looks, waiting, seen, unwatched, spared>>
      BY <2>2 DEF Dial
    <3>2. checks' \in Seq(Modems) /\ Len(checks') = Len(checks) + 1 /\ Len(checks) \in Nat
      BY <1>1, <3>1, AppendListed DEF DogType
    <3>3. Len(checks') <= MaxChecks  BY <3>1, <3>2
    <3> QED  BY <1>1, <3>1, <3>2, <3>3 DEF DogType, Once, Dogs, Listed
  <2>3. CASE AttemptFails(m)  BY <1>2, <2>3 DEF AttemptFails
  <2>4. CASE AttemptSucceeds(m)  BY <1>2, <2>4 DEF AttemptSucceeds
  <2>5. CASE Up(m)  BY <1>2, <2>5 DEF Up
  <2> QED  BY <1>7, <2>1, <2>2, <2>3, <2>4, <2>5 DEF Connecting
<1>8. ASSUME NEW m \in Modems, Netifd(m) \/ Reconnect(m) PROVE DogType'
  <2>1. CASE SetupSucceeds(m) \/ SetupAgain(m)  BY <1>2, <2>1 DEF SetupSucceeds, SetupAgain
  <2>2. CASE RegistrationFails(m) \/ Reconnect(m)
    <3>1. /\ KillChecks(<<>>) \/ KillChecks(AllButFirst)
          /\ UNCHANGED <<dogs, looks, seen, waiting, spared>>
      BY <2>2 DEF RegistrationFails, Reconnect, Restart
    <3> QED  BY <1>1, <1>4, <3>1 DEF DogType
  <2> QED  BY <1>8, <2>1, <2>2 DEF Netifd
<1>9. ASSUME NEW m \in Modems, Watching(m) PROVE DogType'
  <2>1. CASE Chkconn(m)
    <3>1. looks' \in [Modems -> 0..Looks]
      <4>1. CASE looks' = looks  BY <1>1, <4>1 DEF DogType
      <4>2. CASE looks' = [looks EXCEPT ![m] = Looks]  BY <1>1, <4>2 DEF DogType
      <4> QED  BY <2>1, <4>1, <4>2, ChkconnEffect
    <3>2. EndCheck(m)  BY <2>1 DEF Chkconn
    <3>3. checks' \in Seq(Modems) /\ Len(checks') <= MaxChecks  BY <3>2, EndCheckEffect
    <3> QED  BY <1>1, <2>1, <3>1, <3>3, ChkconnEffect DEF DogType
  <2>2. CASE DogLook(m)
    <3>1. CASE m \in connected
      <4>1. /\ EndDog(m) /\ unwatched' = unwatched \cup ({m} \ empty)
            /\ UNCHANGED <<seen, checks>>
        BY <2>2, <3>1 DEF DogLook
      <4> QED  BY <1>1, <4>1, EndDogEffect DEF DogType
    <3>2. CASE m \notin connected
      <4>1. /\ looks' = [looks EXCEPT ![m] = @ - 1] /\ looks[m] > 0
            /\ seen' = [seen EXCEPT ![m] = IF m \in empty \/ @ = Looks THEN @ ELSE @ + 1]
            /\ UNCHANGED <<checks, dogs, waiting, spared, unwatched>>
        BY <2>2, <3>2 DEF DogLook
      <4>2. looks' \in [Modems -> 0..Looks] /\ seen' \in [Modems -> 0..Looks]
        BY <1>1, <4>1 DEF DogType
      <4> QED  BY <1>1, <4>1, <4>2 DEF DogType, Once, Dogs, Listed
    <3> QED  BY <3>1, <3>2
  <2>3. CASE DogRestarts(m)
    <3>1. UNCHANGED seen /\ m \in Dogs  BY <2>3 DEF DogRestarts
    <3>2. CASE EndDog(m) /\ UNCHANGED <<checks, unwatched>>
      BY <1>1, <3>1, <3>2, EndDogEffect DEF DogType
    <3>3. CASE Restart(m) /\ waiting' = waiting \cup {m} /\ UNCHANGED <<dogs, looks, spared>>
      <4>1. KillChecks(<<>>)  BY <3>3 DEF Restart
      <4> QED  BY <1>1, <1>4, <3>1, <3>3, <4>1 DEF DogType
    <3> QED  BY <2>3, <3>2, <3>3 DEF DogRestarts
  <2>4. CASE DogEnds(m)
    <3>1. EndDog(m) /\ unwatched' = unwatched \cup ({m} \ empty) /\ UNCHANGED <<seen, checks>>
      BY <2>4 DEF DogEnds
    <3> QED  BY <1>1, <3>1, EndDogEffect DEF DogType
  <2> QED  BY <1>9, <2>1, <2>2, <2>3, <2>4 DEF Watching
<1>10. ASSUME NEW m \in Modems, Unplug(m) PROVE DogType'  BY <1>2, <1>10 DEF Unplug
<1>11. ASSUME NEW m \in Modems, Removing(m) PROVE DogType'
  <2>1. CASE Free(m)
    <3>1. /\ seen' = [seen EXCEPT ![m] = 0] /\ unwatched' = unwatched \ {m}
          /\ UNCHANGED <<checks, dogs, looks, waiting, spared>>
      BY <2>1 DEF Free
    <3>2. seen' \in [Modems -> 0..Looks]  BY <1>1, <3>1 DEF DogType
    <3> QED  BY <1>1, <3>1, <3>2 DEF DogType, Once, Dogs, Listed
  <2>2. CASE Kill(m)
    <3>1. UNCHANGED <<checks, seen>>  BY <2>2 DEF Kill
    <3> QED  BY <1>1, <2>2, <3>1, KillEffect DEF DogType
  <2> QED  BY <1>11, <2>1, <2>2 DEF Removing
<1> QED  BY <1>3, <1>5, <1>6, <1>7, <1>8, <1>9, <1>10, <1>11 DEF Next

\* Every step keeps the rest.
LEMMA RestTypeStep ==
  ASSUME RestType, [Next]_vars
  PROVE  RestType'
<1> USE WatchdogAssumption
<1>1. CASE UNCHANGED vars
  BY <1>1 DEF vars, table, create, removal, RestType, ApnLeft
<1>2. ASSUME NEW m \in Modems, Plug(m) PROVE RestType'
  <2>1. pc' \in [Modems -> {"none", "prepare", "dial", "attempt", "up"}]
    BY <1>2 DEF RestType, Plug, Goto
  <2>2. apns' \in [Modems -> 0..Apns] /\ ApnLeft'
    BY <1>2 DEF RestType, ApnLeft, Plug, Goto
  <2>3. /\ kind' \in Outfits /\ bus' \in [Modems -> {"out", "in", "leaving"}]
        /\ empty' \subseteq Modems /\ connected' \subseteq Modems /\ setup' \subseteq Modems
        /\ dialled' \subseteq Modems /\ freeing' \subseteq Modems /\ killing' \subseteq Modems
    BY <1>2 DEF RestType, Plug, removal
  <2>4. plugs' \in 0..MaxPlugs
    <3>1. plugs \in 0..MaxPlugs /\ plugs < MaxPlugs /\ plugs' = plugs + 1
      BY <1>2 DEF RestType, Plug
    <3> QED  BY <3>1
  <2>5. usbwait' \in BOOLEAN  BY <1>2 DEF Plug
  <2> QED  BY <2>1, <2>2, <2>3, <2>4, <2>5 DEF RestType
<1>3. CASE OtherDevice
  BY <1>3 DEF RestType, ApnLeft, OtherDevice, table, create, removal
<1>4. ASSUME NEW m \in Modems, Connecting(m) PROVE RestType'
  <2>1. CASE Prepare(m)  BY <2>1 DEF RestType, ApnLeft, Prepare, Goto, End, table, removal
  <2>2. CASE Dial(m)
    <3>1. pc' \in [Modems -> {"none", "prepare", "dial", "attempt", "up"}]
      BY <2>2 DEF RestType, Dial, Goto, End
    <3>2. apns' \in [Modems -> 0..Apns] /\ ApnLeft'
      <4>1. pc[m] = "dial" /\ apns[m] > 0  BY <2>2 DEF RestType, ApnLeft, Dial
      <4>2. CASE Goto(m, "attempt") /\ apns' = apns  BY <4>1, <4>2 DEF RestType, ApnLeft, Goto
      <4>3. CASE End(m)  BY <4>3 DEF RestType, ApnLeft, Goto, End
      <4> QED  BY <2>2, <4>2, <4>3 DEF Dial
    <3>3. /\ kind' \in Outfits /\ plugs' \in 0..MaxPlugs
          /\ bus' \in [Modems -> {"out", "in", "leaving"}]
          /\ empty' \subseteq Modems /\ connected' \subseteq Modems /\ setup' \subseteq Modems
          /\ dialled' \subseteq Modems /\ usbwait' \in BOOLEAN
          /\ freeing' \subseteq Modems /\ killing' \subseteq Modems
      BY <2>2 DEF RestType, Dial, removal
    <3> QED  BY <3>1, <3>2, <3>3 DEF RestType
  <2>3. CASE AttemptFails(m)
    BY <2>3 DEF RestType, ApnLeft, AttemptFails, Goto, End, table, removal
  <2>4. CASE AttemptSucceeds(m)
    BY <2>4 DEF RestType, ApnLeft, AttemptSucceeds, Goto, table, removal
  <2>5. CASE Up(m)  BY <2>5 DEF RestType, ApnLeft, Up, Goto, End, removal
  <2> QED  BY <1>4, <2>1, <2>2, <2>3, <2>4, <2>5 DEF Connecting
<1>5. ASSUME NEW m \in Modems, Netifd(m) PROVE RestType'
  BY <1>5 DEF RestType, ApnLeft, Netifd, SetupSucceeds, SetupAgain, RegistrationFails,
              Restart, table, create, removal
<1>6. ASSUME NEW m \in Modems, Reconnect(m) PROVE RestType'
  BY <1>6 DEF RestType, ApnLeft, Reconnect, Restart, table, create, removal
<1>7. ASSUME NEW m \in Modems, Watching(m) PROVE RestType'
  <2>1. CASE Chkconn(m)
    BY <2>1 DEF RestType, ApnLeft, Chkconn, StartDog, table, create, removal
  <2>2. CASE DogLook(m)  BY <2>2 DEF RestType, ApnLeft, DogLook, table, create, removal
  <2>3. CASE DogRestarts(m)
    BY <2>3 DEF RestType, ApnLeft, DogRestarts, Restart, table, create, removal
  <2>4. CASE DogEnds(m)  BY <2>4 DEF RestType, ApnLeft, DogEnds, table, create, removal
  <2> QED  BY <1>7, <2>1, <2>2, <2>3, <2>4 DEF Watching
<1>8. ASSUME NEW m \in Modems, Unplug(m) PROVE RestType'
  BY <1>8 DEF RestType, ApnLeft, Unplug, table, create
<1>9. ASSUME NEW m \in Modems, Removing(m) PROVE RestType'
  <2>1. CASE Free(m)  BY <2>1 DEF RestType, ApnLeft, Free, create
  <2>2. CASE Kill(m)
    <3>1. pc' \in [Modems -> {"none", "prepare", "dial", "attempt", "up"}]
      BY <2>2 DEF RestType, Kill, Goto, End
    <3>2. apns' \in [Modems -> 0..Apns] /\ ApnLeft'
      BY <2>2 DEF RestType, ApnLeft, Kill, Goto, End
    <3>3. /\ kind' \in Outfits /\ plugs' \in 0..MaxPlugs
          /\ bus' \in [Modems -> {"out", "in", "leaving"}]
          /\ empty' \subseteq Modems /\ connected' \subseteq Modems /\ setup' \subseteq Modems
          /\ dialled' \subseteq Modems /\ usbwait' \in BOOLEAN
          /\ freeing' \subseteq Modems /\ killing' \subseteq Modems
      BY <2>2 DEF RestType, Kill, table
    <3> QED  BY <3>1, <3>2, <3>3 DEF RestType
  <2> QED  BY <1>9, <2>1, <2>2 DEF Removing
<1> QED  BY <1>1, <1>2, <1>3, <1>4, <1>5, <1>6, <1>7, <1>8, <1>9 DEF Next

LEMMA TypeInitially == Init => TypeInv
<1> SUFFICES ASSUME Init PROVE DogType /\ RestType  BY TypeParts
<1>1. /\ dogs = <<>> /\ dogs \in Seq(Modems) /\ DOMAIN dogs = 1..0
      /\ checks \in Seq(Modems) /\ Len(checks) <= MaxChecks
  BY EmptySeq, LenProperties, WatchdogAssumption DEF Init
<1>2. DogType
  <2>1. Once(dogs)  BY <1>1 DEF Once
  <2>2. looks \in [Modems -> 0..Looks] /\ seen \in [Modems -> 0..Looks]
    BY WatchdogAssumption DEF Init
  <2>3. waiting = {} /\ spared = {} /\ unwatched = {}  BY DEF Init
  <2> QED  BY <1>1, <2>1, <2>2, <2>3 DEF DogType
<1>3. RestType
  <2>1. pc = [m \in Modems |-> "none"] /\ apns = [m \in Modems |-> 0]  BY DEF Init
  <2>2. apns \in [Modems -> 0..Apns] /\ plugs \in 0..MaxPlugs
    BY WatchdogAssumption, <2>1 DEF Init
  <2>3. ApnLeft  BY <2>1 DEF ApnLeft
  <2> QED  BY <2>1, <2>2, <2>3 DEF Init, RestType
<1> QED  BY <1>2, <1>3

\* No modem ever has two watchdogs, only a running watchdog waits for a restart
\* or was spared by a removal, and the APN loop never runs past its list
\* (chkconn.sh 7-10, create_connect.sh 1127-1430).
THEOREM TypeCorrect == Spec => [](TypeOK /\ ApnLeft)
<1>1. TypeInv /\ [Next]_vars => TypeInv'
  <2>1. TypeInv /\ [Next]_vars => DogType'  BY DogTypeStep DEF TypeInv
  <2>2. TypeInv /\ [Next]_vars => RestType'  BY TypeParts, RestTypeStep
  <2>3. DogType' /\ RestType' => TypeInv'
    BY DEF TypeInv, TypeOK, DogType, RestType, Once
  <2> QED  BY <2>1, <2>2, <2>3
<1>2. TypeInv <=> TypeOK /\ ApnLeft  BY DEF TypeInv
<1> QED  BY <1>1, <1>2, TypeInitially, PTL DEF Spec

-----------------------------------------------------------------------------
(***************************************************************************)
(* A watchdog gives a modem its full time.  Any watchdog of an empty slot  *)
(* whose removal has been handled is left over; so the modem that comes    *)
(* next finds no other, and the looks that are left and those done since   *)
(* it was plugged in add up.                                               *)
(***************************************************************************)
Deserted == \A m \in empty \ killing : m \notin Dogs \ spared

Counted == \A m \in Dogs \ (spared \cup empty) : looks[m] + seen[m] >= Looks

TimeInv == Deserted /\ Counted

\* A removal kills the watchdog of its modem or leaves it over; one that chkconn.sh
\* starts later is left over from the start.
LEMMA TimeStep ==
  ASSUME TypeOK, TypeOK', TimeInv, [Next]_vars
  PROVE  TimeInv'
<1> USE WatchdogAssumption
<1>0. Dogs \subseteq Modems /\ Dogs' \subseteq Modems /\ empty \subseteq Modems
  <2>1. dogs' \in Seq(Modems) /\ \A i \in DOMAIN dogs' : dogs'[i] \in Modems  BY DEF TypeOK
  <2> QED  BY <2>1, DogsListed DEF TypeOK, Dogs, Listed
<1>1. ASSUME UNCHANGED <<dogs, spared, looks, seen, empty, killing>> PROVE TimeInv'
  BY <1>1 DEF TimeInv, Deserted, Counted, Dogs, Listed
<1>2. CASE UNCHANGED vars \/ OtherDevice
  BY <1>1, <1>2 DEF vars, dog, table, removal, OtherDevice
<1>3. ASSUME NEW m \in Modems, Plug(m) PROVE TimeInv'
  <2>1. /\ Dogs' = Dogs /\ looks' = looks /\ seen' = seen /\ killing' = killing
        /\ empty' = empty \ {m} /\ spared' = spared \cup (Dogs \cap killing \cap {m})
        /\ m \in empty
    BY <1>3 DEF Plug, Dogs, Listed, removal
  <2>2. m \notin Dogs \ spared'  BY <2>1 DEF TimeInv, Deserted
  <2>3. Counted'
    <3> SUFFICES ASSUME NEW n \in Dogs \ (spared' \cup (empty \ {m}))
                 PROVE  looks[n] + seen[n] >= Looks
      BY <2>1 DEF Counted
    <3>1. n \in Dogs \ (spared \cup empty)  BY <2>1, <2>2
    <3> QED  BY <3>1 DEF TimeInv, Counted
  <2>4. Deserted'  BY <2>1 DEF TimeInv, Deserted
  <2> QED  BY <2>3, <2>4 DEF TimeInv
<1>4. ASSUME NEW m \in Modems, Connecting(m) PROVE TimeInv'
  <2>1. UNCHANGED <<dogs, spared, looks, seen, empty, killing>>
    BY <1>4 DEF Connecting, Prepare, Dial, AttemptFails, AttemptSucceeds, Up, table, dog, removal
  <2> QED  BY <1>1, <2>1
<1>5. ASSUME NEW m \in Modems, Netifd(m) \/ Reconnect(m) PROVE TimeInv'
  <2>1. UNCHANGED <<dogs, spared, looks, seen, empty, killing>>
    BY <1>5 DEF Netifd, SetupSucceeds, SetupAgain, RegistrationFails, Reconnect, table, dog, removal
  <2> QED  BY <1>1, <2>1
<1>6. ASSUME NEW m \in Modems, Watching(m) PROVE TimeInv'
  <2>0. UNCHANGED <<empty, killing>>
    BY <1>6 DEF Watching, Chkconn, StartDog, DogLook, DogRestarts, DogEnds, table, removal
  <2>1. CASE EndDog(m) /\ seen' = seen
    <3>1. Dogs' \ spared' = (Dogs \ spared) \ {m} /\ looks' = [looks EXCEPT ![m] = 0]
      BY <2>1, EndDogEffect
    <3>2. ASSUME NEW n \in Dogs' \ (spared' \cup empty) PROVE looks'[n] + seen'[n] >= Looks
      <4>1. n \in Dogs \ (spared \cup empty) /\ looks'[n] = looks[n] /\ seen'[n] = seen[n]
        BY <1>0, <2>1, <3>1 DEF TypeOK
      <4> QED  BY <4>1 DEF TimeInv, Counted
    <3> QED  BY <2>0, <3>1, <3>2 DEF TimeInv, Deserted, Counted
  <2>2. CASE UNCHANGED <<dogs, spared, looks, seen>>  BY <1>1, <2>0, <2>2
  <2>3. CASE Chkconn(m)
    <3>1. Dogs' = Dogs \cup {m} /\ seen' = seen /\ spared \subseteq spared'
      BY <2>3, ChkconnEffect
    <3>2. CASE m \in Dogs
      <4>1. looks' = looks /\ spared' = spared /\ Dogs' = Dogs  BY <2>3, <3>1, <3>2, ChkconnEffect
      <4> QED  BY <2>0, <3>1, <4>1 DEF TimeInv, Deserted, Counted
    <3>3. CASE m \notin Dogs
      <4>1. looks' = [looks EXCEPT ![m] = Looks] /\ (m \in empty \ killing => m \in spared')
        BY <2>3, <3>3, ChkconnEffect
      <4>2. Deserted'  BY <2>0, <3>1, <4>1 DEF TimeInv, Deserted
      <4>3. ASSUME NEW n \in Dogs' \ (spared' \cup empty) PROVE looks'[n] + seen'[n] >= Looks
        <5>1. CASE n = m
          <6>1. looks'[m] = Looks /\ seen'[m] \in 0..Looks  BY <4>1 DEF TypeOK
          <6> QED  BY <5>1, <6>1
        <5>2. CASE n # m
          <6>1. n \in Dogs \ (spared \cup empty) /\ looks'[n] = looks[n] /\ seen'[n] = seen[n]
            BY <1>0, <3>1, <4>1, <5>2 DEF TypeOK
          <6> QED  BY <6>1 DEF TimeInv, Counted
        <5> QED  BY <5>1, <5>2
      <4> QED  BY <2>0, <4>2, <4>3 DEF TimeInv, Counted
    <3> QED  BY <3>2, <3>3
  <2>4. CASE DogLook(m) /\ m \notin connected
    <3>1. /\ looks[m] > 0 /\ looks' = [looks EXCEPT ![m] = @ - 1]
          /\ seen' = [seen EXCEPT ![m] = IF m \in empty \/ @ = Looks THEN @ ELSE @ + 1]
          /\ UNCHANGED <<dogs, spared>>
      BY <2>4 DEF DogLook
    <3>2. Dogs' = Dogs /\ spared' = spared  BY <3>1 DEF Dogs, Listed
    <3>3. ASSUME NEW n \in Dogs \ (spared \cup empty) PROVE looks'[n] + seen'[n] >= Looks
      <4>1. looks[n] \in 0..Looks /\ seen[n] \in 0..Looks /\ looks[n] + seen[n] >= Looks
        BY <1>0 DEF TypeOK, TimeInv, Counted
      <4>2. CASE n = m
        <5>1. /\ looks'[m] = looks[m] - 1
              /\ seen'[m] = IF seen[m] = Looks THEN seen[m] ELSE seen[m] + 1
          BY <3>1, <3>3, <4>2 DEF TypeOK
        <5> QED  BY <3>1, <4>1, <4>2, <5>1
      <4>3. CASE n # m
        <5>1. looks'[n] = looks[n] /\ seen'[n] = seen[n]  BY <1>0, <3>1, <4>3 DEF TypeOK
        <5> QED  BY <4>1, <5>1
      <4> QED  BY <4>2, <4>3
    <3> QED  BY <2>0, <3>2, <3>3 DEF TimeInv, Deserted, Counted
  <2> QED  BY <1>6, <2>1, <2>2, <2>3, <2>4 DEF Watching, DogLook, DogRestarts, DogEnds
<1>7. ASSUME NEW m \in Modems, Unplug(m) PROVE TimeInv'
  BY <1>1, <1>7 DEF Unplug, dog, table
<1>8. ASSUME NEW m \in Modems, Free(m) PROVE TimeInv'
  <2>1. /\ UNCHANGED <<dogs, spared, looks>> /\ empty' = empty \cup {m}
        /\ killing' = killing \cup {m} /\ seen' = [seen EXCEPT ![m] = 0]
    BY <1>8 DEF Free
  <2>2. Dogs' = Dogs  BY <2>1 DEF Dogs, Listed
  <2>3. \A n \in Dogs \ empty' : seen'[n] = seen[n]  BY <1>0, <2>1 DEF TypeOK
  <2>4. Counted'  BY <2>1, <2>2, <2>3 DEF TimeInv, Counted
  <2>5. Deserted'  BY <2>1, <2>2 DEF TimeInv, Deserted
  <2> QED  BY <2>4, <2>5 DEF TimeInv
<1>9. ASSUME NEW m \in Modems, Kill(m) PROVE TimeInv'
  <2>1. UNCHANGED <<seen, empty>> /\ killing' = killing \ {m}  BY <1>9 DEF Kill, table
  <2>2. /\ Dogs' \subseteq Dogs /\ spared \cap Dogs' \subseteq spared'
        /\ (m \in Dogs' \cap empty => m \in spared')
        /\ \A d \in Dogs' : looks'[d] = looks[d]
    BY <1>9, KillEffect
  <2>3. Counted'  BY <2>1, <2>2 DEF TimeInv, Counted
  <2>4. Deserted'  BY <2>1, <2>2 DEF TimeInv, Deserted
  <2> QED  BY <2>3, <2>4 DEF TimeInv
<1> QED
  BY <1>2, <1>3, <1>4, <1>5, <1>6, <1>7, <1>8, <1>9 DEF Next, Removing

\* The watchdog restarts a modem only after it has seen it unconnected for the
\* whole of its time since the modem was plugged in, unless it is left
\* over from before that (chkconn1.sh 26-37, modeswitch.sh 661-690).
THEOREM FullTimeGiven == Spec => []FullTime
<1>1. Init => TimeInv
  <2>1. ASSUME Init PROVE Dogs = {}
    <3>1. DOMAIN dogs = 1..0  BY <2>1, EmptySeq, LenProperties DEF Init
    <3> QED  BY <3>1 DEF Dogs, Listed
  <2> QED  BY <2>1 DEF Init, TimeInv, Deserted, Counted
<1>2. TypeOK /\ TimeInv => FullTime
  <2> SUFFICES ASSUME TypeOK, TimeInv, NEW m \in Dogs \ (waiting \cup empty \cup spared),
                      looks[m] = 0
               PROVE  seen[m] = Looks
    BY DEF FullTime
  <2>1. m \in Modems  BY DogsListed
  <2>2. seen[m] \in 0..Looks /\ looks[m] + seen[m] >= Looks  BY <2>1 DEF TypeOK, TimeInv, Counted
  <2> QED  BY <2>2, WatchdogAssumption
<1>3. TypeOK /\ TypeOK' /\ TimeInv /\ [Next]_vars => TimeInv'  BY TimeStep
<1> QED  BY <1>1, <1>2, <1>3, TypeCorrect, PTL DEF Spec

-----------------------------------------------------------------------------
(***************************************************************************)
(* A modem that is being dialled is watched.                               *)
(***************************************************************************)

\* A watchdog that ends leaves its modem unwatched or finds it gone, and so does a
\* watchdog or a chkconn.sh that is killed.
LEMMA WatchedStep ==
  ASSUME TypeOK, Watched, [Next]_vars
  PROVE  Watched'
<1>1. ASSUME Covered \ empty' \subseteq Covered',
             \A n \in Modems : pc'[n] = "attempt" /\ n \notin empty'
                                 => pc[n] = "attempt" /\ n \notin empty
      PROVE  Watched'
  BY <1>1 DEF Watched, Covered
<1>2. ASSUME UNCHANGED dog PROVE Covered' = Covered
  BY <1>2 DEF dog, Covered, Dogs, Checks, Listed
<1>3. CASE UNCHANGED vars  BY <1>1, <1>2, <1>3 DEF vars, table, create
<1>4. ASSUME NEW m \in Modems, Plug(m) PROVE Watched'
  <2>1. KillChecks(AllButFirst) /\ dogs' = dogs  BY <1>4 DEF Plug
  <2>2. Covered \ empty \subseteq Covered'  BY <2>1, KillChecksEffect
  <2>3. pc'[m] = "prepare" /\ \A n \in Modems \ {m} : pc'[n] = pc[n] /\ (n \in empty' <=> n \in empty)
    BY <1>4 DEF Plug, Goto, TypeOK
  <2> QED  BY <2>2, <2>3 DEF Watched, Covered
<1>5. CASE OtherDevice
  <2>1. KillChecks(AllButFirst) /\ dogs' = dogs /\ pc' = pc /\ empty' = empty
    BY <1>5 DEF OtherDevice, table, create
  <2> QED  BY <1>1, <2>1, KillChecksEffect
<1>6. ASSUME NEW m \in Modems, Connecting(m) PROVE Watched'
  <2>1. CASE Dial(m)
    <3>1. checks' = Append(checks, m) /\ UNCHANGED <<dogs, unwatched>>  BY <2>1 DEF Dial
    <3>2. Listed(Append(checks, m)) = Listed(checks) \cup {m}  BY AppendListed DEF TypeOK
    <3>3. Covered' = Covered \cup {m}  BY <3>1, <3>2 DEF Covered, Checks, Dogs, Listed
    <3>4. empty' = empty /\ \A n \in Modems \ {m} : pc'[n] = pc[n]
      BY <2>1 DEF Dial, Goto, End, TypeOK
    <3> QED  BY <3>3, <3>4 DEF Watched, Covered
  <2>2. CASE Prepare(m) \/ AttemptFails(m) \/ AttemptSucceeds(m) \/ Up(m)
    <3>1. UNCHANGED dog /\ empty' = empty
      BY <2>2 DEF Prepare, AttemptFails, AttemptSucceeds, Up, table
    <3>2. \A n \in Modems : pc'[n] = "attempt" => pc[n] = "attempt"
      BY <2>2 DEF Prepare, AttemptFails, AttemptSucceeds, Up, Goto, End, TypeOK
    <3> QED  BY <1>1, <1>2, <3>1, <3>2
  <2> QED  BY <1>6, <2>1, <2>2 DEF Connecting
<1>7. ASSUME NEW m \in Modems, Netifd(m) \/ Reconnect(m) PROVE Watched'
  <2>1. pc' = pc /\ empty' = empty
    BY <1>7 DEF Netifd, SetupSucceeds, SetupAgain, RegistrationFails, Reconnect, table, create
  <2>2. CASE SetupSucceeds(m) \/ SetupAgain(m)
    BY <1>1, <1>2, <2>1, <2>2 DEF SetupSucceeds, SetupAgain
  <2>3. CASE RegistrationFails(m) \/ Reconnect(m)
    <3>1. (KillChecks(<<>>) \/ KillChecks(AllButFirst)) /\ dogs' = dogs
      BY <2>3 DEF RegistrationFails, Reconnect, Restart
    <3> QED  BY <1>1, <2>1, <3>1, KillChecksEffect
  <2> QED  BY <1>7, <2>2, <2>3 DEF Netifd
<1>8. ASSUME NEW m \in Modems, Unplug(m) \/ Free(m) PROVE Watched'
  <2>1. pc' = pc /\ empty \subseteq empty'  BY <1>8 DEF Unplug, Free, table, create
  <2>2. Covered \ empty' \subseteq Covered'
    <3>1. CASE Unplug(m)  BY <1>2, <3>1 DEF Unplug
    <3>2. CASE Free(m)
      <4>1. UNCHANGED <<checks, dogs>> /\ unwatched' = unwatched \ {m} /\ m \in empty'
        BY <3>2 DEF Free
      <4> QED  BY <4>1 DEF Covered, Checks, Dogs, Listed
    <3> QED  BY <1>8, <3>1, <3>2
  <2> QED  BY <1>1, <2>1, <2>2
<1>9. ASSUME NEW m \in Modems, Watching(m) PROVE Watched'
  <2>1. pc' = pc /\ empty' = empty
    BY <1>9 DEF Watching, Chkconn, StartDog, DogLook, DogRestarts, DogEnds, table, create
  <2>2. CASE /\ EndDog(m) /\ checks' = checks
             /\ \/ m \in empty /\ unwatched' = unwatched
                \/ unwatched' = unwatched \cup ({m} \ empty)
    <3>1. Dogs' = Dogs \ {m} /\ Checks' = Checks  BY <2>2, EndDogEffect DEF Checks
    <3>2. Covered \ empty' \subseteq Covered'  BY <2>1, <2>2, <3>1 DEF Covered
    <3> QED  BY <1>1, <2>1, <3>2
  <2>3. CASE UNCHANGED <<checks, dogs, unwatched>>
    BY <1>1, <2>1, <2>3 DEF Covered, Checks, Dogs, Listed
  <2>4. CASE Chkconn(m)
    <3>1. EndCheck(m)  BY <2>4 DEF Chkconn
    <3>2. Checks \subseteq Checks' \cup {m}  BY <3>1, EndCheckEffect
    <3>3. Dogs' = Dogs \cup {m} /\ unwatched \ {m} \subseteq unwatched'  BY <2>4, ChkconnEffect
    <3> QED  BY <1>1, <2>1, <3>2, <3>3 DEF Covered
  <2>5. CASE Restart(m) /\ dogs' = dogs
    <3>1. KillChecks(<<>>)  BY <2>5 DEF Restart
    <3> QED  BY <1>1, <2>1, <2>5, <3>1, KillChecksEffect
  <2> QED  BY <1>9, <2>2, <2>3, <2>4, <2>5 DEF Watching, DogLook, DogRestarts, DogEnds
<1>10. ASSUME NEW m \in Modems, Kill(m) PROVE Watched'
  <2>1. pc'[m] = "none" /\ empty' = empty /\ checks' = checks /\ \A n \in Modems \ {m} : pc'[n] = pc[n]
    BY <1>10 DEF Kill, Goto, End, TypeOK, table
  <2>2. Covered \ empty' \subseteq Covered'  BY <1>10, <2>1, KillEffect DEF Covered, Checks
  <2> QED  BY <1>1, <2>1, <2>2
<1> QED  BY <1>3, <1>4, <1>5, <1>6, <1>7, <1>8, <1>9, <1>10 DEF Next, Removing

\* A modem that create_connect.sh dials has a watchdog or a chkconn.sh about to
\* start one, unless either was killed, or the watchdog has restarted the modem or
\* seen it connected, or was busy restarting it
\* (create_connect.sh 1142, chkconn.sh 7-10, modeswitch.sh 500, restartrun.sh 142).
THEOREM DialWatched == Spec => []Watched
<1>1. Init => Watched  BY DEF Init, Watched
<1>2. TypeOK /\ Watched /\ [Next]_vars => Watched'  BY WatchedStep
<1> QED  BY <1>1, <1>2, TypeCorrect, PTL DEF Spec
=============================================================================
