----------------------- MODULE UniverseOutput_proofs -----------------------
(* The numbering of Art-Net packets, and which device an id belongs to, for *)
(* any number of ids, objects, calls and pushes.                            *)
EXTENDS UniverseOutput, FiniteSetTheorems, SequenceTheorems, WellFoundedInduction, TLAPS

(* A node is a record in which the number can be changed.                   *)
NodeOK(n) == "sequence_number" \in DOMAIN n

(* What was sent last for an id carries the number of its node: a packet    *)
(* and its node are changed together, and a node that goes takes the memory *)
(* of its packets with it.  SequenceAdvances follows from this alone.       *)
Numbered ==
  /\ DOMAIN sent = Ids
  /\ \A i \in DOMAIN nodes : NodeOK(nodes[i])
  /\ \A i \in Ids : sent[i].at # 0 => i \in DOMAIN nodes /\ sent[i].at = nodes[i].sequence_number

LEMMA NumberedInit == Init => Numbered
  BY DEF Init, Numbered, Unsent

(* The steps that send nothing and do not take a node away.                 *)
LEMMA NumberedQuiet ==
  ASSUME Numbered, sent' = sent,
         \A i \in DOMAIN nodes : i \in DOMAIN nodes' /\ nodes'[i].sequence_number = nodes[i].sequence_number,
         \A i \in DOMAIN nodes' : NodeOK(nodes'[i])
  PROVE  Numbered'
  BY DEF Numbered, NodeOK

LEMMA NumberedRegister ==
  ASSUME Numbered, NEW id \in Ids, NEW d, NEW dummy, RegisterArtNet(id, d, dummy)
  PROVE  Numbered'
<1>1. CASE id \notin DOMAIN nodes
  <2>1. nodes' = Put(nodes, id, [device |-> d, sequence_number |-> 1, ptr |-> Len(universes')])
    BY <1>1 DEF RegisterArtNet
  <2>2. \A i \in DOMAIN nodes : i \in DOMAIN nodes' /\ nodes'[i] = nodes[i]
    BY <1>1, <2>1 DEF Put
  <2>3. \A i \in DOMAIN nodes' : NodeOK(nodes'[i])
    BY <1>1, <2>1 DEF Put, NodeOK, Numbered
  <2> QED  BY <2>2, <2>3, NumberedQuiet DEF RegisterArtNet
<1>2. CASE id \in DOMAIN nodes
  <2>1. nodes' = [nodes EXCEPT ![id] = [nodes[id] EXCEPT !.device = d]]
    BY <1>2 DEF RegisterArtNet
  <2>2. \A i \in DOMAIN nodes : i \in DOMAIN nodes' /\ nodes'[i].sequence_number = nodes[i].sequence_number
    BY <2>1 DEF Numbered, NodeOK
  <2>3. \A i \in DOMAIN nodes' : NodeOK(nodes'[i])
    BY <2>1 DEF Numbered, NodeOK
  <2> QED  BY <2>2, <2>3, NumberedQuiet DEF RegisterArtNet
<1> QED  BY <1>1, <1>2

(* A node that goes.                                                        *)
LEMMA NumberedDrop ==
  ASSUME Numbered, NEW id, nodes' = Drop(nodes, id), sent' = [sent EXCEPT ![id] = Unsent]
  PROVE  Numbered'
<1>1. DOMAIN nodes' = DOMAIN nodes \ {id} /\ \A i \in DOMAIN nodes' : nodes'[i] = nodes[i]
  BY DEF Drop
<1>2. DOMAIN sent' = Ids /\ \A i \in Ids : sent'[i] = IF i = id THEN Unsent ELSE sent[i]
  BY DEF Numbered
<1> QED  BY <1>1, <1>2 DEF Numbered, Unsent

LEMMA NumberedPush ==
  ASSUME Numbered, NEW u, u.id \in DOMAIN nodes, PushUniverse(u)
  PROVE  /\ Numbered'
         /\ \A i \in Ids : sent'[i] # sent[i] /\ sent[i].at # 0 /\ sent'[i].at # 0
                           => sent'[i].at = Following(sent[i].at)
<1> DEFINE n == Following(nodes[u.id].sequence_number)
<1>1. nodes' = [nodes EXCEPT ![u.id] = [nodes[u.id] EXCEPT !.sequence_number = n]]
  BY DEF PushUniverse
<1>2. sent' = [sent EXCEPT ![u.id] = [at |-> nodes'[u.id].sequence_number, device |-> u.device]]
  BY DEF PushUniverse
<1> HIDE DEF n
<1>3. /\ DOMAIN nodes' = DOMAIN nodes
      /\ nodes'[u.id].sequence_number = n /\ NodeOK(nodes'[u.id])
      /\ \A i \in DOMAIN nodes \ {u.id} : nodes'[i] = nodes[i]
  BY <1>1 DEF Numbered, NodeOK
<1>4. /\ DOMAIN sent' = Ids
      /\ \A i \in Ids \ {u.id} : sent'[i] = sent[i]
      /\ u.id \in Ids => sent'[u.id].at = n
  BY <1>2, <1>3 DEF Numbered
<1>5. Numbered'
  BY <1>3, <1>4 DEF Numbered
<1>6. ASSUME NEW i \in Ids, sent'[i] # sent[i], sent[i].at # 0
      PROVE  sent'[i].at = Following(sent[i].at)
  BY <1>4, <1>6 DEF Numbered, n
<1> QED  BY <1>5, <1>6

LEMMA NumberedPublish ==
  ASSUME Numbered, Publish
  PROVE  /\ Numbered'
         /\ \A i \in Ids : sent'[i] # sent[i] /\ sent[i].at # 0 /\ sent'[i].at # 0
                           => sent'[i].at = Following(sent[i].at)
<1> DEFINE u == universes[push.ptr]
<1>1. CASE UNCHANGED <<nodes, sent>>
  BY <1>1 DEF Numbered
<1>2. CASE SendData(u)
  <2>1. nodes' = nodes /\ sent' = [sent EXCEPT ![u.id] = Unsent]
    BY <1>2 DEF SendData
  <2> HIDE DEF u
  <2>2. DOMAIN sent' = Ids /\ \A i \in Ids : sent'[i] = Unsent \/ sent'[i] = sent[i]
    BY <2>1 DEF Numbered
  <2> QED  BY <2>1, <2>2 DEF Numbered, Unsent
<1>3. CASE u.id \in DOMAIN nodes /\ PushUniverse(u)
  <2> HIDE DEF u
  <2> QED  BY <1>3, NumberedPush
<1> QED  BY <1>1, <1>2, <1>3 DEF Publish, Crash, registry

(* The packets of the others are not touched.                               *)
OtherSteps ==
  \/ \E id \in Ids, dummy \in BOOLEAN : RegisterFtdi(id, dummy)
  \/ DropDongle \/ CheckUpdate \/ EraseActive \/ ReleaseShow \/ RegistrarCrash
  \/ StartPush \/ TornPush \/ TestCount \/ Lock \/ HouseKeeping
  \/ UNCHANGED vars

LEMMA OthersSendNothing == OtherSteps => UNCHANGED <<nodes, sent>>
<1>1. CASE \E id \in Ids, dummy \in BOOLEAN : RegisterFtdi(id, dummy)
  BY <1>1 DEF RegisterFtdi
<1>2. CASE DropDongle \/ CheckUpdate \/ EraseActive \/ ReleaseShow \/ RegistrarCrash
  BY <1>2 DEF DropDongle, CheckUpdate, EraseActive, ReleaseShow, RegistrarCrash, Crash, registry
<1>3. CASE StartPush \/ TornPush \/ TestCount \/ Lock \/ HouseKeeping
  BY <1>3 DEF StartPush, TornPush, TestCount, Lock, HouseKeeping, Crash, registry
<1>4. CASE UNCHANGED vars
  BY <1>4 DEF vars, registry
<1> QED  BY <1>1, <1>2, <1>3, <1>4 DEF OtherSteps

LEMMA NumberedStep ==
  ASSUME Numbered, [Next]_vars
  PROVE  /\ Numbered'
         /\ \A i \in Ids : sent'[i] # sent[i] /\ sent[i].at # 0 /\ sent'[i].at # 0
                           => sent'[i].at = Following(sent[i].at)
<1>1. CASE OtherSteps
  BY <1>1, OthersSendNothing DEF Numbered
<1>2. ASSUME NEW id \in Ids, NEW d \in Devices, NEW dummy \in BOOLEAN, RegisterArtNet(id, d, dummy)
      PROVE  Numbered' /\ sent' = sent
  BY <1>2, NumberedRegister DEF RegisterArtNet
<1>3. ASSUME NEW id, nodes' = Drop(nodes, id), sent' = [sent EXCEPT ![id] = Unsent]
      PROVE  Numbered' /\ \A i \in Ids : sent'[i] = Unsent \/ sent'[i] = sent[i]
  BY <1>3, NumberedDrop DEF Numbered
<1>4. Unsent.at = 0
  BY DEF Unsent
<1>5. CASE UnlinkNode
  BY <1>3, <1>4, <1>5 DEF UnlinkNode
<1>6. ASSUME NEW id \in Ids, Unregister(id)
      PROVE  Numbered' /\ \A i \in Ids : sent'[i] = Unsent \/ sent'[i] = sent[i]
  BY <1>3, <1>6 DEF Unregister
<1>7. CASE Publish
  BY <1>7, NumberedPublish
<1> QED  BY <1>1, <1>2, <1>4, <1>5, <1>6, <1>7 DEF Next, Registrar, Main, OtherSteps

(* Whatever the registrar and the main thread do to an id, as long as it    *)
(* keeps its node its packets are numbered one after the other, without     *)
(* zero (artnet_handler.cpp:46-56).                                         *)
THEOREM SequenceAdvancesAlways == Spec => SequenceAdvances
<1> DEFINE Advances == \A i \in Ids : sent'[i] # sent[i] /\ sent[i].at # 0 /\ sent'[i].at # 0
                                      => sent'[i].at = Following(sent[i].at)
<1>1. Init => Numbered
  BY NumberedInit
<1>2. Numbered /\ [Next]_vars => Numbered' /\ [Advances]_sent
  BY NumberedStep
<1> QED  BY <1>1, <1>2, PTL DEF Spec, SequenceAdvances
-----------------------------------------------------------------------------
(* An id belongs to a node or to a dongle, except while a call that has     *)
(* registered one of the two is about to drop the other.                    *)
DropsOther ==
  \A i \in DOMAIN nodes \intersect DOMAIN dongle_map :
    call.pc \in {"drop dongle", "unlink node"} /\ call.id = i

CallShaped == call = [pc |-> call.pc, id |-> call.id, candidate |-> call.candidate]

KindInv == DropsOther /\ CallShaped

LEMMA KindRegisters ==
  ASSUME KindInv, NEW id \in Ids,
         (\E d \in Devices, dummy \in BOOLEAN : RegisterArtNet(id, d, dummy))
           \/ (\E dummy \in BOOLEAN : RegisterFtdi(id, dummy)) \/ Unregister(id)
  PROVE  KindInv'
<1> USE DEF KindInv, DropsOther, CallShaped, Begins
<1>1. ASSUME NEW d \in Devices, NEW dummy \in BOOLEAN, RegisterArtNet(id, d, dummy)
      PROVE  KindInv'
  <2>1. DOMAIN nodes' \subseteq DOMAIN nodes \union {id} /\ dongle_map' = dongle_map
    BY <1>1 DEF RegisterArtNet, Put
  <2>2. call' = [pc |-> "drop dongle", id |-> id, candidate |-> nodes'[id].ptr]
    BY <1>1 DEF RegisterArtNet
  <2>3. call'.pc = "drop dongle" /\ call'.id = id /\ CallShaped'
    BY <2>2
  <2>4. DOMAIN nodes \intersect DOMAIN dongle_map = {}
    BY <1>1 DEF RegisterArtNet
  <2> QED  BY <2>1, <2>3, <2>4
<1>2. ASSUME NEW dummy \in BOOLEAN, RegisterFtdi(id, dummy)
      PROVE  KindInv'
  <2>1. CASE UNCHANGED <<universes, dongle_map, call>>
    BY <1>2, <2>1 DEF RegisterFtdi
  <2>2. CASE ~ UNCHANGED <<universes, dongle_map, call>>
    <3>1. DOMAIN dongle_map' \subseteq DOMAIN dongle_map \union {id} /\ nodes' = nodes
      BY <1>2, <2>2 DEF RegisterFtdi, Put
    <3>2. call' = [pc |-> "unlink node", id |-> id, candidate |-> Len(universes')]
      BY <1>2, <2>2 DEF RegisterFtdi
    <3>3. call'.pc = "unlink node" /\ call'.id = id /\ CallShaped'
      BY <3>2
    <3>4. DOMAIN nodes \intersect DOMAIN dongle_map = {}
      BY <1>2 DEF RegisterFtdi
    <3> QED  BY <3>1, <3>3, <3>4
  <2> QED  BY <2>1, <2>2
<1>3. CASE Unregister(id)
  <2>1. /\ DOMAIN nodes' \subseteq DOMAIN nodes /\ DOMAIN dongle_map' \subseteq DOMAIN dongle_map
        /\ call' = [pc |-> "erase", id |-> id, candidate |-> None]
    BY <1>3 DEF Unregister, Drop
  <2> QED  BY <1>3, <2>1 DEF Unregister
<1> QED  BY <1>1, <1>2, <1>3

LEMMA KindStep == KindInv /\ [Next]_vars => KindInv'
<1> SUFFICES ASSUME KindInv, [Next]_vars  PROVE KindInv'
  OBVIOUS
<1> USE DEF KindInv, DropsOther, CallShaped
<1>1. CASE DropDongle
  <2>1. DOMAIN dongle_map' = DOMAIN dongle_map \ {call.id} /\ nodes' = nodes
    BY <1>1 DEF DropDongle, Drop
  <2>2. call' = [call EXCEPT !.pc = "check"]
    BY <1>1 DEF DropDongle
  <2> QED  BY <2>1, <2>2
<1>2. CASE UnlinkNode
  <2>1. DOMAIN nodes' = DOMAIN nodes \ {call.id} /\ dongle_map' = dongle_map
    BY <1>2 DEF UnlinkNode, Drop
  <2>2. call' = [call EXCEPT !.pc = "check"]
    BY <1>2 DEF UnlinkNode
  <2> QED  BY <2>1, <2>2
<1>3. CASE CheckUpdate \/ EraseActive
  BY <1>3 DEF CheckUpdate, EraseActive, Idle
<1>4. CASE ReleaseShow \/ RegistrarCrash \/ StartPush \/ TornPush \/ TestCount \/ Lock \/ HouseKeeping
  <2>1. UNCHANGED <<nodes, dongle_map, call>>
    BY <1>4 DEF ReleaseShow, RegistrarCrash, StartPush, TornPush, TestCount, Lock, HouseKeeping,
       Crash, registry
  <2> QED  BY <2>1
<1>5. CASE Publish
  <2>1. DOMAIN nodes' = DOMAIN nodes /\ UNCHANGED <<dongle_map, call>>
    BY <1>5 DEF Publish, Crash, registry, SendData, PushUniverse
  <2> QED  BY <2>1
<1>6. CASE UNCHANGED vars
  BY <1>6 DEF vars, registry
<1> QED  BY <1>1, <1>2, <1>3, <1>4, <1>5, <1>6, KindRegisters DEF Next, Registrar, Main
-----------------------------------------------------------------------------
(* Induction, and what std::erase_if leaves of a vector.                     *)

(* A set of natural numbers has a least element.                          *)
LEMMA LeastNatural ==
  ASSUME NEW T \in SUBSET Nat, T # {}
  PROVE  \E x \in T : \A y \in T : x <= y
<1> DEFINE R == OpToRel(<, Nat)
<1>1. IsWellFoundedOn(R, Nat)
  BY NatLessThanWellFounded
<1>2. \A y, x \in Nat : y < x => <<y, x>> \in R
  BY DEF OpToRel
<1> HIDE DEF R
<1>3. PICK x \in T : \A y \in T : ~(<<y, x>> \in R)
  BY <1>1, WFMin, Zenon
<1>4. ASSUME NEW y \in T PROVE x <= y
  <2>1. x \in Nat /\ y \in Nat
    OBVIOUS
  <2>2. ~(y < x)
    BY <1>2, <1>3, <2>1, Zenon
  <2> QED
    BY <2>1, <2>2
<1> QED
  BY <1>4

(* Induction over the natural numbers, for a set of them.                  *)
LEMMA NaturalInduction ==
  ASSUME NEW T, 0 \in T, \A n \in Nat : n \in T => n + 1 \in T
  PROVE  Nat \subseteq T
<1> SUFFICES ASSUME Nat \ T # {} PROVE FALSE
  OBVIOUS
<1>1. PICK x \in Nat \ T : \A y \in Nat \ T : x <= y
  BY LeastNatural
<1>2. x # 0 /\ x - 1 \in Nat /\ ~(x <= x - 1)
  BY <1>1
<1>3. x - 1 \in T
  BY <1>1, <1>2
<1> QED
  BY <1>1, <1>2, <1>3

Staying(list, gone, f, n) ==
  IF n = 0 THEN <<>> ELSE IF list[n] \in gone THEN f[n - 1] ELSE Append(f[n - 1], list[n])

LEMMA StaysExists ==
  ASSUME NEW list, Len(list) \in Nat, NEW gone
  PROVE  \E f : f = [n \in 0..Len(list) |-> Staying(list, gone, f, n)]
<1> DEFINE T == {m \in Nat : \E f : f = [n \in 0..m |-> Staying(list, gone, f, n)]}
<1>1. 0 \in T
  <2> DEFINE f == [n \in 0..0 |-> <<>>]
  <2>1. f = [n \in 0..0 |-> Staying(list, gone, f, n)]
    BY DEF Staying
  <2> QED
    BY <2>1
<1>2. ASSUME NEW m \in Nat, m \in T PROVE m + 1 \in T
  <2>1. PICK f : f = [n \in 0..m |-> Staying(list, gone, f, n)]
    BY <1>2
  <2> DEFINE g == [n \in 0..(m + 1) |-> IF n = m + 1 THEN Staying(list, gone, f, n) ELSE f[n]]
  <2>2. \A n \in 0..(m + 1) : g[n] = Staying(list, gone, g, n)
    <3>1. \A n \in 0..m : g[n] = f[n]
      OBVIOUS
    <3> HIDE DEF g
    <3>2. \A n \in 0..(m + 1) : Staying(list, gone, g, n) = Staying(list, gone, f, n)
      BY <3>1 DEF Staying
    <3>3. \A n \in 0..m : f[n] = Staying(list, gone, f, n)
      BY <2>1
    <3>4. g[m + 1] = Staying(list, gone, f, m + 1)
      BY DEF g
    <3> QED
      BY <3>1, <3>2, <3>3, <3>4
  <2>3. g = [n \in 0..(m + 1) |-> g[n]]
    OBVIOUS
  <2> HIDE DEF g
  <2>4. g = [n \in 0..(m + 1) |-> Staying(list, gone, g, n)]
    BY <2>2, <2>3
  <2> QED
    BY <2>4
<1> HIDE DEF T
<1>3. Len(list) \in T
  BY <1>1, <1>2, NaturalInduction
<1> QED
  BY <1>3 DEF T

(* What is left of a prefix: its elements that are not gone, each once.    *)
Remains(list, gone, n, r) ==
  /\ \A k \in DOMAIN r : \E i \in 1..n : r[k] = list[i] /\ list[i] \notin gone
  /\ \A k, l \in DOMAIN r : k # l => \E i, j \in 1..n : i # j /\ r[k] = list[i] /\ r[l] = list[j]
  /\ \A i \in 1..n : list[i] \notin gone => \E k \in DOMAIN r : r[k] = list[i]

LEMMA WithoutFacts ==
  ASSUME NEW S, NEW list \in Seq(S), NEW gone
  PROVE  /\ Without(list, gone) \in Seq(S)
         /\ Remains(list, gone, Len(list), Without(list, gone))
<1> DEFINE f == CHOOSE f : f = [n \in 0..Len(list) |-> Staying(list, gone, f, n)]
<1>1. Without(list, gone) = f[Len(list)]
  BY DEF Without, Staying
<1>2. f = [n \in 0..Len(list) |-> Staying(list, gone, f, n)]
  BY StaysExists
<1> HIDE DEF f
<1>3. /\ f[0] = <<>>
      /\ \A n \in 1..Len(list) :
           f[n] = IF list[n] \in gone THEN f[n - 1] ELSE Append(f[n - 1], list[n])
  <2>1. \A n \in 0..Len(list) : f[n] = Staying(list, gone, f, n)
    BY <1>2
  <2> QED
    BY <2>1 DEF Staying
<1> DEFINE T == {n \in Nat : n <= Len(list) => f[n] \in Seq(S) /\ Remains(list, gone, n, f[n])}
<1>4. 0 \in T
  <2>1. f[0] \in Seq(S) /\ DOMAIN f[0] = {}
    BY <1>3
  <2> QED
    BY <2>1 DEF Remains
<1>5. ASSUME NEW m \in Nat, m \in T PROVE m + 1 \in T
  <2> SUFFICES ASSUME m + 1 <= Len(list)
               PROVE  f[m + 1] \in Seq(S) /\ Remains(list, gone, m + 1, f[m + 1])
    OBVIOUS
  <2> DEFINE r == f[m]
             e == list[m + 1]
  <2>1. r \in Seq(S) /\ Remains(list, gone, m, r) /\ e \in S
    BY <1>5
  <2>2. f[m + 1] = IF e \in gone THEN r ELSE Append(r, e)
    BY <1>3
  <2> HIDE DEF r, e
  <2>3. CASE e \in gone
    BY <2>1, <2>2, <2>3 DEF Remains, e
  <2>4. CASE e \notin gone
    <3>1. /\ Append(r, e) \in Seq(S) /\ DOMAIN Append(r, e) = 1..(Len(r) + 1) /\ DOMAIN r = 1..Len(r)
          /\ \A k \in 1..Len(r) : Append(r, e)[k] = r[k]
          /\ Append(r, e)[Len(r) + 1] = e /\ Len(r) \in Nat
      BY <2>1
    <3> DEFINE a == Append(r, e)
    <3>2. f[m + 1] = a
      BY <2>2, <2>4
    <3> HIDE DEF a
    <3>3. /\ a \in Seq(S) /\ DOMAIN a = 1..(Len(r) + 1) /\ DOMAIN r = 1..Len(r)
          /\ \A k \in 1..Len(r) : a[k] = r[k]
          /\ a[Len(r) + 1] = e /\ Len(r) \in Nat
      BY <3>1 DEF a
    <3>4. \A k \in DOMAIN a : \E i \in 1..(m + 1) : a[k] = list[i] /\ list[i] \notin gone
      BY <2>1, <2>4, <3>3 DEF Remains, e
    <3>5. ASSUME NEW k \in DOMAIN a, NEW l \in DOMAIN a, k # l
          PROVE  \E i, j \in 1..(m + 1) : i # j /\ a[k] = list[i] /\ a[l] = list[j]
      <4>1. CASE k \in 1..Len(r) /\ l \in 1..Len(r)
        <5>1. k \in DOMAIN r /\ l \in DOMAIN r /\ a[k] = r[k] /\ a[l] = r[l]
          BY <3>3, <4>1
        <5>2. PICK i, j \in 1..m : i # j /\ r[k] = list[i] /\ r[l] = list[j]
          BY <2>1, <3>5, <5>1 DEF Remains
        <5> QED
          BY <5>1, <5>2
      <4>2. CASE k = Len(r) + 1
        <5>1. l \in 1..Len(r) /\ a[k] = list[m + 1]
          BY <3>3, <3>5, <4>2 DEF e
        <5>2. PICK j \in 1..m : a[l] = list[j]
          BY <2>1, <3>3, <5>1 DEF Remains
        <5> QED
          BY <5>1, <5>2
      <4>3. CASE l = Len(r) + 1
        <5>1. k \in 1..Len(r) /\ a[l] = list[m + 1]
          BY <3>3, <3>5, <4>3 DEF e
        <5>2. PICK j \in 1..m : a[k] = list[j]
          BY <2>1, <3>3, <5>1 DEF Remains
        <5> QED
          BY <5>1, <5>2
      <4> QED
        BY <3>3, <4>1, <4>2, <4>3
    <3>6. ASSUME NEW i \in 1..(m + 1), list[i] \notin gone PROVE \E k \in DOMAIN a : a[k] = list[i]
      <4>1. CASE i = m + 1
        BY <3>3, <4>1 DEF e
      <4>2. CASE i \in 1..m
        BY <2>1, <3>3, <3>6, <4>2 DEF Remains
      <4> QED
        BY <4>1, <4>2
    <3> QED
      BY <3>2, <3>3, <3>4, <3>5, <3>6 DEF Remains
  <2> QED
    BY <2>3, <2>4
<1> HIDE DEF T
<1>6. Len(list) \in T
  BY <1>4, <1>5, NaturalInduction
<1>7. f[Len(list)] \in Seq(S) /\ Remains(list, gone, Len(list), f[Len(list)])
  BY <1>6 DEF T
<1> QED
  BY <1>1, <1>7
-----------------------------------------------------------------------------
(* The registry as a whole.  UniversesSound speaks of the moments between   *)
(* two calls of the registrar; inductive is what holds inside a call too.   *)
Objects == DOMAIN universes
Universe == [id : Ids, kind : {"artnet", "ftdi"}, device : Devices \union {-1}, dummy : BOOLEAN]
Alive == Kept \union {push.ptr}
Calling == call.pc \in {"drop dongle", "unlink node", "check"}

\* What the two threads hold are objects.
Shapes ==
  /\ active_universes \in Seq(Objects)
  /\ \A i \in DOMAIN dongle_map : dongle_map[i] \in Objects
  /\ call \in [pc : {"idle", "drop dongle", "unlink node", "check", "erase"},
               id : Ids \union {None}, candidate : Objects \union {None}]
  /\ push \in [pc : {"idle", "test", "lock", "send"}, at : Nat, weak : Objects \union {None},
               ptr : Objects \union {None}, housekeeping : BOOLEAN, torn : BOOLEAN]
  /\ push.pc # "idle" => push.at # 0
  /\ push.pc = "send" => push.ptr # None
  /\ push.pc = "lock" => push.weak # None

\* The id a universe is registered for is its own.
Names ==
  /\ \A i \in DOMAIN nodes : universes[nodes[i].ptr].id = i
  /\ \A i \in DOMAIN dongle_map : universes[dongle_map[i]].id = i

\* What a call has done so far, by the place where it is.
Progress ==
  /\ call.pc = "idle" => call = Idle
  /\ call.pc # "idle" => call.id \in Ids
  /\ call.pc = "drop dongle" => call.id \in DOMAIN nodes /\ call.candidate = nodes[call.id].ptr
  /\ call.pc = "unlink node" => call.id \in DOMAIN dongle_map /\ call.candidate = dongle_map[call.id]
  /\ call.pc = "check" => call.candidate \in Owned /\ universes[call.candidate].id = call.id
  /\ call.pc = "erase" => /\ call.id \notin DOMAIN nodes \union DOMAIN dongle_map
                          /\ call.candidate = None

\* Among the objects that live the list has one of each id.
LiveOnce ==
  \A k, l \in DOMAIN active_universes :
    /\ active_universes[k] \in Alive /\ active_universes[l] \in Alive
    /\ universes[active_universes[k]].id = universes[active_universes[l]].id
    => k = l

\* An owned object is in the list, except one of the id of a call that has
\* not come to it yet.
Listed ==
  \A u \in Owned :
    \/ u \in ToSet(active_universes)
    \/ Calling /\ universes[u].id = call.id

\* An object of the list that lives is owned, with the same exception.
Sendable ==
  \A u \in ToSet(active_universes) :
    \/ u \notin Alive
    \/ u \in Owned
    \/ call.pc # "idle" /\ universes[u].id = call.id

RegistryInv == TypeOK /\ Shapes /\ Names /\ KindInv /\ Progress /\ LiveOnce /\ Listed /\ Sendable

LEMMA OwnedAre ==
  /\ \A u : u \in Owned <=> \/ \E i \in DOMAIN nodes : u = nodes[i].ptr
                            \/ \E i \in DOMAIN dongle_map : u = dongle_map[i]
  /\ \A u \in Owned : u \in Alive
  /\ \A u : Expired(u) <=> u \notin Alive
BY DEF Owned, Alive, Kept, Expired

LEMMA ListSet ==
  ASSUME NEW S, NEW s \in Seq(S)
  PROVE  /\ ToSet(s) \subseteq S
         /\ \A x : x \in ToSet(s) <=> \E i \in DOMAIN s : s[i] = x
BY DEF ToSet

LEMMA SeqWider ==
  ASSUME NEW S, NEW T, S \subseteq T, NEW s \in Seq(S)
  PROVE  s \in Seq(T)
OBVIOUS

LEMMA ListTyped ==
  ASSUME TypeOK, Shapes
  PROVE  /\ \A k \in DOMAIN active_universes : active_universes[k] \in Objects
         /\ ToSet(active_universes) \subseteq Objects
         /\ None \notin Objects
<1>1. active_universes \in Seq(Objects) /\ universes \in Seq(Universe)
  BY DEF Shapes, TypeOK, Universe
<1> DEFINE o == Objects
<1>2. active_universes \in Seq(o)
  BY <1>1
<1>3. None \notin o
  BY <1>1 DEF Objects, None
<1> HIDE DEF o
<1>4. \A k \in DOMAIN active_universes : active_universes[k] \in o
  BY <1>2
<1> QED
  BY <1>3, <1>4 DEF o, ToSet

(* What is between two calls follows from it.                               *)
LEMMA RegistryIsSound == RegistryInv => UniversesSound
<1> SUFFICES ASSUME RegistryInv PROVE OnePerId /\ SendableAtRest
  BY DEF RegistryInv, UniversesSound
<1>1. OnePerId
  <2> SUFFICES ASSUME call.pc = "idle", NEW u \in Owned
               PROVE  Cardinality({k \in DOMAIN active_universes : active_universes[k] = u}) = 1
    BY DEF OnePerId, RegistryInv, KindInv, DropsOther
  <2>1. PICK k \in DOMAIN active_universes : active_universes[k] = u
    BY ListSet, ZenonT(60) DEF RegistryInv, Listed, Calling, Shapes
  <2>2. {l \in DOMAIN active_universes : active_universes[l] = u} = {k}
    BY <2>1, OwnedAre DEF RegistryInv, LiveOnce
  <2> QED
    BY <2>2, FS_Singleton
<1>2. SendableAtRest
  BY OwnedAre DEF SendableAtRest, RegistryInv, Sendable
<1> QED
  BY <1>1, <1>2

LEMMA RegistryInit == Init => RegistryInv
<1> SUFFICES ASSUME Init PROVE RegistryInv
  OBVIOUS
<1>1. DOMAIN <<>> = {} /\ <<>> \in Seq(Objects) /\ <<>> \in Seq(Universe)
  OBVIOUS
<1>2. DOMAIN nodes = {} /\ DOMAIN dongle_map = {} /\ DOMAIN active_universes = {} /\ ToSet(active_universes) = {}
  BY <1>1 DEF Init, ToSet
<1>3. Owned = {}
  BY <1>2 DEF Owned
<1>4. sent \in [Ids -> [at : 0..(SequenceSpan - 1), device : Devices \union {-1}]]
  BY OutputAssumption DEF Init, Unsent
<1>5. TypeOK
  BY <1>1, <1>2, <1>4 DEF Init, TypeOK, Universe, Waiting
<1>6. Shapes
  BY <1>1, <1>2 DEF Init, Shapes, Waiting, Idle
<1>7. KindInv
  BY <1>2 DEF KindInv, DropsOther, CallShaped, Init, Idle
<1> QED
  BY <1>2, <1>3, <1>5, <1>6, <1>7
  DEF Init, RegistryInv, Names, Progress, LiveOnce, Listed, Sendable, Idle
-----------------------------------------------------------------------------
(* Three kinds of steps, by what they do to the registry.                   *)

(* An id gets an object, a new one or its own.                              *)
LEMMA RegistryGrows ==
  ASSUME RegistryInv, call.pc = "idle", call'.pc \in {"drop dongle", "unlink node"},
         active_universes' = active_universes, held' = held, push' = push,
         Owned \subseteq Owned', Owned' \subseteq Owned \union {call'.candidate},
         call'.candidate \in Owned \/ call'.candidate \notin Objects, call'.candidate \in Owned',
         Objects \subseteq Objects', \A u \in Objects : universes'[u].id = universes[u].id,
         universes'[call'.candidate].id = call'.id
  PROVE  LiveOnce' /\ Listed' /\ Sendable'
<1> DEFINE n == call'.candidate
<1>1. ToSet(active_universes) \subseteq Objects /\ ToSet(active_universes') = ToSet(active_universes)
  BY ListSet DEF RegistryInv, Shapes
<1>2. \A k \in DOMAIN active_universes : active_universes[k] \in Objects
  BY ListTyped DEF RegistryInv
<1>3. Alive' = Owned' \union held \union {n} \union {push.ptr}
  BY DEF Alive, Kept
<1>4. Alive = Owned \union held \union {call.candidate} \union {push.ptr}
  BY DEF Alive, Kept
<1>5. \A u \in Objects : u \in Alive' => u \in Alive
  BY <1>3, <1>4
<1>6. LiveOnce'
  BY <1>2, <1>5, ZenonT(60) DEF LiveOnce, RegistryInv
<1>7. Listed'
  <2> SUFFICES ASSUME NEW u \in Owned', u # n PROVE u \in ToSet(active_universes')
    BY DEF Listed, Calling
  <2> QED
    BY <1>1 DEF RegistryInv, Listed, Calling
<1>8. Sendable'
  BY <1>1, <1>5 DEF RegistryInv, Sendable
<1> QED
  BY <1>6, <1>7, <1>8

(* Objects of the id of the call lose an owner.                             *)
LEMMA RegistryShrinks ==
  ASSUME RegistryInv, UNCHANGED <<universes, active_universes, held, push>>,
         Owned' \subseteq Owned, \A u \in Owned \ Owned' : universes[u].id = call'.id,
         call'.pc # "idle", call.pc = "idle" \/ call'.id = call.id, Calling => Calling',
         call'.candidate \in {None, call.candidate}
  PROVE  LiveOnce' /\ Listed' /\ Sendable'
<1>1. ToSet(active_universes) \subseteq Objects /\ ToSet(active_universes') = ToSet(active_universes)
  BY ListSet DEF RegistryInv, Shapes
<1>2. \A k \in DOMAIN active_universes : active_universes[k] \in Objects
  BY ListTyped DEF RegistryInv
<1>3. \A u \in Objects : u \in Alive' => u \in Alive
  <2>1. None \notin Objects
    BY ListTyped DEF RegistryInv
  <2> QED
    BY <2>1 DEF Alive, Kept
<1>4. LiveOnce'
  BY <1>2, <1>3 DEF LiveOnce, RegistryInv
<1>5. Listed'
  BY <1>1 DEF RegistryInv, Listed, Calling
<1>6. Sendable'
  BY <1>1, <1>3 DEF RegistryInv, Sendable
<1> QED
  BY <1>4, <1>5, <1>6

(* The registry stays, and nothing comes back to life.                      *)
LEMMA RegistryQuiet ==
  ASSUME RegistryInv, UNCHANGED <<universes, active_universes, call>>,
         Owned' = Owned, Alive' \subseteq Alive
  PROVE  LiveOnce' /\ Listed' /\ Sendable'
BY DEF RegistryInv, LiveOnce, Listed, Sendable, Calling
-----------------------------------------------------------------------------
(* The steps of the registrar.                                              *)
Node == [device : Devices, sequence_number : 1..(SequenceSpan - 1), ptr : Objects]

LEMMA NewObject ==
  ASSUME TypeOK, NEW id \in Ids, NEW kind \in {"artnet", "ftdi"},
         NEW device \in Devices \union {-1}, NEW dummy \in BOOLEAN,
         Create(id, kind, device, dummy)
  PROVE  /\ universes' \in Seq(Universe) /\ Objects \subseteq Objects'
         /\ \A u \in Objects : universes'[u] = universes[u]
         /\ Len(universes') \in Objects' /\ Len(universes') \notin Objects
         /\ universes'[Len(universes')].id = id
<1> DEFINE e == [id |-> id, kind |-> kind, device |-> device, dummy |-> dummy]
<1>1. e \in Universe /\ e.id = id
  BY DEF Universe
<1>2. universes' = Append(universes, e) /\ universes \in Seq(Universe)
  BY DEF Create, TypeOK, Universe
<1> HIDE DEF e
<1> QED
  BY <1>1, <1>2 DEF Objects

LEMMA RegistersArtNet ==
  ASSUME RegistryInv, NEW id \in Ids, NEW d \in Devices, NEW dummy \in BOOLEAN,
         RegisterArtNet(id, d, dummy)
  PROVE  RegistryInv'
<1> DEFINE n == nodes'[id].ptr
<1>1. /\ call.pc = "idle"
      /\ call' = [pc |-> "drop dongle", id |-> id, candidate |-> n]
      /\ UNCHANGED <<dongle_map, held, active_universes, push, sent>>
  BY DEF RegisterArtNet, Begins
<1>0. /\ universes \in Seq(Universe) /\ DOMAIN nodes \subseteq Ids
      /\ \A i \in DOMAIN nodes : nodes[i] \in Node /\ nodes[i].ptr \in Objects
  BY DEF RegistryInv, TypeOK, Universe, Node, Objects
<1>2. /\ universes' \in Seq(Universe) /\ Objects \subseteq Objects'
      /\ \A u \in Objects : universes'[u].id = universes[u].id
      /\ DOMAIN nodes' = DOMAIN nodes \union {id}
      /\ \A i \in DOMAIN nodes' : nodes'[i] \in Node'
      /\ \A i \in DOMAIN nodes : nodes'[i].ptr = nodes[i].ptr
      /\ n \in Objects' /\ universes'[n].id = id
      /\ n \in Owned \/ n \notin Objects
  <2>1. CASE id \notin DOMAIN nodes
    <3> DEFINE e == [device |-> d, sequence_number |-> 1, ptr |-> Len(universes')]
    <3>1. Create(id, "artnet", d, dummy) /\ nodes' = Put(nodes, id, e)
      BY <2>1 DEF RegisterArtNet
    <3>2. /\ universes' \in Seq(Universe) /\ Objects \subseteq Objects'
          /\ \A u \in Objects : universes'[u] = universes[u]
          /\ Len(universes') \in Objects' /\ Len(universes') \notin Objects
          /\ universes'[Len(universes')].id = id
      BY <3>1, NewObject DEF RegistryInv
    <3>3. e \in Node' /\ e.ptr = Len(universes')
      BY <3>2, OutputAssumption DEF Node
    <3> HIDE DEF e
    <3>4. /\ DOMAIN nodes' = DOMAIN nodes \union {id} /\ nodes'[id] = e
          /\ \A i \in DOMAIN nodes : nodes'[i] = nodes[i]
      BY <2>1, <3>1 DEF Put
    <3>5. \A i \in DOMAIN nodes : nodes[i] \in Node'
      BY <1>0, <3>2 DEF Node
    <3> QED
      BY <3>2, <3>3, <3>4, <3>5
  <2>2. CASE id \in DOMAIN nodes
    <3> DEFINE p == nodes[id].ptr
               e == [nodes[id] EXCEPT !.device = d]
               o == [universes[p] EXCEPT !.dummy = dummy]
    <3>1. nodes' = [nodes EXCEPT ![id] = e] /\ universes' = [universes EXCEPT ![p] = o]
      BY <2>2 DEF RegisterArtNet
    <3>2. p \in Objects /\ universes[p] \in Universe /\ p \in 1..Len(universes)
      BY <1>0, <2>2 DEF Objects
    <3>3. o \in Universe /\ o.id = universes[p].id
      BY <3>2 DEF Universe
    <3>4. e \in Node /\ e.ptr = p
      BY <1>0, <2>2 DEF Node
    <3>5. universes[p].id = id /\ p \in Owned
      BY <2>2, OwnedAre DEF RegistryInv, Names
    <3> HIDE DEF e, o, p
    <3>6. universes' \in Seq(Universe) /\ Objects' = Objects /\ \A u \in Objects : universes'[u].id = universes[u].id
      BY <1>0, <3>1, <3>2, <3>3 DEF Objects
    <3>7. /\ DOMAIN nodes' = DOMAIN nodes /\ nodes'[id] = e
          /\ \A i \in DOMAIN nodes \ {id} : nodes'[i] = nodes[i]
      BY <2>2, <3>1
    <3>8. Node' = Node /\ nodes[id].ptr = p
      BY <3>6 DEF Node, p
    <3>9. /\ \A i \in DOMAIN nodes' : nodes'[i] \in Node'
          /\ \A i \in DOMAIN nodes : nodes'[i].ptr = nodes[i].ptr
      BY <1>0, <3>4, <3>7, <3>8
    <3> QED
      BY <2>2, <3>2, <3>3, <3>4, <3>5, <3>6, <3>7, <3>9
  <2> QED
    BY <2>1, <2>2
<1> HIDE DEF n
<1>3. call'.pc = "drop dongle" /\ call'.id = id /\ call'.candidate = n
  BY <1>1
<1>4. Owned \subseteq Owned' /\ Owned' \subseteq Owned \union {n} /\ n \in Owned'
  BY <1>1, <1>2, ZenonT(60) DEF Owned, n
<1>5. LiveOnce' /\ Listed' /\ Sendable'
  <2>1. call'.pc \in {"drop dongle", "unlink node"}
    BY <1>3
  <2>2. /\ \A u \in Objects : universes'[u].id = universes[u].id
        /\ UNCHANGED <<active_universes, held, push>>
        /\ Owned' \subseteq Owned \union {call'.candidate} /\ call'.candidate \in Owned'
        /\ call'.candidate \in Owned \/ call'.candidate \notin Objects
        /\ universes'[call'.candidate].id = call'.id
    BY <1>1, <1>2, <1>3, <1>4
  <2> QED
    BY <1>1, <1>2, <1>4, <2>1, <2>2, RegistryGrows
<1>6. TypeOK'
  <2>1. ToSet(active_universes') \subseteq Objects'
    BY <1>1, <1>2, ListTyped DEF RegistryInv, ToSet
  <2>2. push'.ptr \in {None} \union Objects' /\ sent' = sent
    BY <1>1, <1>2 DEF RegistryInv, TypeOK, Objects
  <2> QED
    BY <1>0, <1>1, <1>2, <2>1, <2>2 DEF RegistryInv, TypeOK, Universe, Node, Objects
<1>7. Shapes'
  <2>1. active_universes' \in Seq(Objects')
    <3>1. active_universes \in Seq(Objects) /\ active_universes' = active_universes
      BY <1>1 DEF RegistryInv, Shapes
    <3> QED
      BY <1>2, <3>1, SeqWider, Zenon
  <2>2. call' \in [pc : {"idle", "drop dongle", "unlink node", "check", "erase"},
                   id : Ids \union {None}, candidate : Objects' \union {None}]
    BY <1>1, <1>2
  <2>3. push' \in [pc : {"idle", "test", "lock", "send"}, at : Nat, weak : Objects' \union {None},
                   ptr : Objects' \union {None}, housekeeping : BOOLEAN, torn : BOOLEAN]
    BY <1>1, <1>2 DEF RegistryInv, Shapes
  <2> QED
    BY <1>1, <1>2, <2>1, <2>2, <2>3 DEF RegistryInv, Shapes
<1>8. Names'
  <2>1. \A i \in DOMAIN nodes : universes'[nodes'[i].ptr].id = i
    BY <1>0, <1>2 DEF RegistryInv, Names
  <2>2. \A i \in DOMAIN dongle_map : universes'[dongle_map[i]].id = i
    BY <1>2 DEF RegistryInv, Names, Shapes
  <2>3. universes'[nodes'[id].ptr].id = id
    BY <1>2 DEF n
  <2> QED
    BY <1>1, <1>2, <2>1, <2>2, <2>3 DEF Names
<1>9. KindInv'
  BY KindRegisters DEF RegistryInv
<1>10. Progress'
  BY <1>2, <1>3 DEF Progress, n
<1> QED
  BY <1>5, <1>6, <1>7, <1>8, <1>9, <1>10 DEF RegistryInv

LEMMA RegistersFtdi ==
  ASSUME RegistryInv, NEW id \in Ids, NEW dummy \in BOOLEAN, RegisterFtdi(id, dummy),
         call' # call
  PROVE  RegistryInv'
<1> DEFINE n == Len(universes')
<1>1. /\ call.pc = "idle" /\ id \notin DOMAIN dongle_map
      /\ Create(id, "ftdi", -1, dummy)
      /\ dongle_map' = Put(dongle_map, id, n)
      /\ call' = [pc |-> "unlink node", id |-> id, candidate |-> n]
      /\ UNCHANGED <<nodes, held, active_universes, push, sent>>
  BY DEF RegisterFtdi, Begins
<1>0. /\ universes \in Seq(Universe) /\ DOMAIN nodes \subseteq Ids
      /\ \A i \in DOMAIN nodes : nodes[i] \in Node /\ nodes[i].ptr \in Objects
      /\ \A i \in DOMAIN dongle_map : dongle_map[i] \in Objects
  BY DEF RegistryInv, TypeOK, Universe, Node, Objects, Shapes
<1>2. /\ universes' \in Seq(Universe) /\ Objects \subseteq Objects'
      /\ \A u \in Objects : universes'[u] = universes[u]
      /\ n \in Objects' /\ n \notin Objects
      /\ universes'[n].id = id
  BY <1>1, NewObject DEF RegistryInv
<1> HIDE DEF n
<1>2a. /\ DOMAIN dongle_map' = DOMAIN dongle_map \union {id} /\ dongle_map'[id] = n
       /\ \A i \in DOMAIN dongle_map : dongle_map'[i] = dongle_map[i]
  BY <1>1 DEF Put
<1>2b. \A i \in DOMAIN nodes : nodes'[i] \in Node'
  BY <1>0, <1>1, <1>2 DEF Node
<1>3. call'.pc = "unlink node" /\ call'.id = id /\ call'.candidate = n
  BY <1>1
<1>4. Owned \subseteq Owned' /\ Owned' \subseteq Owned \union {n} /\ n \in Owned'
  BY <1>1, <1>2a, ZenonT(60) DEF Owned
<1>5. LiveOnce' /\ Listed' /\ Sendable'
  <2>1. call'.pc \in {"drop dongle", "unlink node"}
    BY <1>3
  <2>2. /\ \A u \in Objects : universes'[u].id = universes[u].id
        /\ UNCHANGED <<active_universes, held, push>>
        /\ Owned' \subseteq Owned \union {call'.candidate} /\ call'.candidate \in Owned'
        /\ call'.candidate \in Owned \/ call'.candidate \notin Objects
        /\ universes'[call'.candidate].id = call'.id
    BY <1>1, <1>2, <1>3, <1>4
  <2> QED
    BY <1>1, <1>2, <1>4, <2>1, <2>2, RegistryGrows
<1>6. TypeOK'
  <2>1. ToSet(active_universes') \subseteq Objects'
    BY <1>1, <1>2, ListTyped DEF RegistryInv, ToSet
  <2>2. push'.ptr \in {None} \union Objects' /\ sent' = sent
    BY <1>1, <1>2 DEF RegistryInv, TypeOK, Objects
  <2>3. DOMAIN dongle_map' \subseteq Ids
    BY <1>2a DEF RegistryInv, TypeOK
  <2> QED
    BY <1>0, <1>1, <1>2, <1>2b, <2>1, <2>2, <2>3 DEF RegistryInv, TypeOK, Universe, Node, Objects
<1>7. Shapes'
  <2>1. active_universes' \in Seq(Objects')
    <3>1. active_universes \in Seq(Objects) /\ active_universes' = active_universes
      BY <1>1 DEF RegistryInv, Shapes
    <3> QED
      BY <1>2, <3>1, SeqWider, Zenon
  <2>2. call' \in [pc : {"idle", "drop dongle", "unlink node", "check", "erase"},
                   id : Ids \union {None}, candidate : Objects' \union {None}]
    BY <1>1, <1>2
  <2>3. push' \in [pc : {"idle", "test", "lock", "send"}, at : Nat, weak : Objects' \union {None},
                   ptr : Objects' \union {None}, housekeeping : BOOLEAN, torn : BOOLEAN]
    BY <1>1, <1>2 DEF RegistryInv, Shapes
  <2> QED
    BY <1>0, <1>1, <1>2, <1>2a, <2>1, <2>2, <2>3, ZenonT(60) DEF RegistryInv, Shapes
<1>8. Names'
  BY <1>0, <1>1, <1>2, <1>2a, ZenonT(60) DEF RegistryInv, Names
<1>9. KindInv'
  BY KindRegisters DEF RegistryInv
<1>10. Progress'
  BY <1>2a, <1>3 DEF Progress
<1> QED
  BY <1>5, <1>6, <1>7, <1>8, <1>9, <1>10 DEF RegistryInv

CallShape == [pc : {"idle", "drop dongle", "unlink node", "check", "erase"},
              id : Ids \union {None}, candidate : Objects \union {None}]

(* A step that takes ids out of the maps, or nothing.                       *)
LEMMA DropsTyped ==
  ASSUME RegistryInv, UNCHANGED <<universes, active_universes, push>>,
         DOMAIN nodes' \subseteq DOMAIN nodes, DOMAIN dongle_map' \subseteq DOMAIN dongle_map,
         \A i \in DOMAIN nodes' : nodes'[i] = nodes[i],
         \A i \in DOMAIN dongle_map' : dongle_map'[i] = dongle_map[i],
         sent' = sent \/ \E id : sent' = [sent EXCEPT ![id] = Unsent],
         call' \in CallShape
  PROVE  TypeOK' /\ Shapes' /\ Names' /\ Owned' \subseteq Owned /\ Objects' = Objects
<1>1. Objects' = Objects
  BY DEF Objects
<1>2. TypeOK'
  <2>1. sent' \in [Ids -> [at : 0..(SequenceSpan - 1), device : Devices \union {-1}]]
    <3>1. Unsent \in [at : 0..(SequenceSpan - 1), device : Devices \union {-1}]
      BY OutputAssumption DEF Unsent
    <3> QED
      BY <3>1 DEF RegistryInv, TypeOK
  <2>2. ToSet(active_universes') = ToSet(active_universes)
    OBVIOUS
  <2>3. \A i \in DOMAIN nodes' : nodes'[i] \in Node
    BY DEF RegistryInv, TypeOK, Node, Objects
  <2> QED
    BY <2>1, <2>2, <2>3 DEF RegistryInv, TypeOK, Node, Objects
<1>3. Shapes'
  BY <1>1 DEF RegistryInv, Shapes, CallShape
<1>4. Names' /\ Owned' \subseteq Owned
  BY DEF RegistryInv, Names, Owned
<1> QED
  BY <1>1, <1>2, <1>3, <1>4

LEMMA DropFacts ==
  ASSUME NEW f, NEW id
  PROVE  DOMAIN Drop(f, id) = DOMAIN f \ {id} /\ \A i \in DOMAIN f \ {id} : Drop(f, id)[i] = f[i]
BY DEF Drop

\* A registering call takes the id out of the other map.
LEMMA DropsStep ==
  ASSUME RegistryInv, DropDongle \/ UnlinkNode
  PROVE  RegistryInv'
<1>1. /\ call.pc \in {"drop dongle", "unlink node"} /\ call \in CallShape
      /\ call' = [call EXCEPT !.pc = "check"]
      /\ UNCHANGED <<universes, active_universes, held, push>>
  BY DEF DropDongle, UnlinkNode, RegistryInv, Shapes, CallShape
<1>2. call' \in CallShape /\ call'.pc = "check" /\ call'.id = call.id /\ call'.candidate = call.candidate
  BY <1>1 DEF CallShape
<1>3. /\ DOMAIN nodes' \subseteq DOMAIN nodes /\ DOMAIN dongle_map' \subseteq DOMAIN dongle_map
      /\ \A i \in DOMAIN nodes' : nodes'[i] = nodes[i]
      /\ \A i \in DOMAIN dongle_map' : dongle_map'[i] = dongle_map[i]
      /\ \A i \in DOMAIN nodes \ DOMAIN nodes' : i = call.id
      /\ \A i \in DOMAIN dongle_map \ DOMAIN dongle_map' : i = call.id
      /\ sent' = sent \/ \E id : sent' = [sent EXCEPT ![id] = Unsent]
      /\ call.pc = "drop dongle" => nodes' = nodes
      /\ call.pc = "unlink node" => dongle_map' = dongle_map
  <2>1. CASE DropDongle
    <3>1. /\ call.pc = "drop dongle" /\ nodes' = nodes /\ sent' = sent
          /\ DOMAIN dongle_map' = DOMAIN dongle_map \ {call.id}
          /\ \A i \in DOMAIN dongle_map \ {call.id} : dongle_map'[i] = dongle_map[i]
      BY <2>1, DropFacts DEF DropDongle
    <3> QED
      BY <3>1
  <2>2. CASE UnlinkNode
    <3>1. /\ call.pc = "unlink node" /\ dongle_map' = dongle_map
          /\ sent' = [sent EXCEPT ![call.id] = Unsent]
          /\ DOMAIN nodes' = DOMAIN nodes \ {call.id}
          /\ \A i \in DOMAIN nodes \ {call.id} : nodes'[i] = nodes[i]
      <4>1. /\ call.pc = "unlink node" /\ dongle_map' = dongle_map
            /\ sent' = [sent EXCEPT ![call.id] = Unsent] /\ nodes' = Drop(nodes, call.id)
        BY <2>2 DEF UnlinkNode
      <4> QED
        BY <4>1, DropFacts
    <3>2. \E id : sent' = [sent EXCEPT ![id] = Unsent]
      BY <3>1
    <3> HIDE <3>2
    <3> QED
      BY <3>1, <3>2
  <2> QED
    BY <2>1, <2>2
<1>4. TypeOK' /\ Shapes' /\ Names' /\ Owned' \subseteq Owned /\ Objects' = Objects
  BY <1>1, <1>2, <1>3, DropsTyped
<1>5. ASSUME NEW u \in Owned, u \notin Owned' PROVE universes[u].id = call'.id
  <2>1. \A i \in DOMAIN nodes : u = nodes[i].ptr => i \notin DOMAIN nodes'
    BY <1>3, <1>5 DEF Owned
  <2>2. \A i \in DOMAIN dongle_map : u = dongle_map[i] => i \notin DOMAIN dongle_map'
    BY <1>3, <1>5 DEF Owned
  <2>3. ASSUME NEW i \in DOMAIN nodes, u = nodes[i].ptr PROVE universes[u].id = call'.id
    BY <1>2, <1>3, <2>1, <2>3 DEF RegistryInv, Names
  <2>4. ASSUME NEW i \in DOMAIN dongle_map, u = dongle_map[i] PROVE universes[u].id = call'.id
    BY <1>2, <1>3, <2>2, <2>4 DEF RegistryInv, Names
  <2> QED
    BY <2>3, <2>4 DEF Owned
<1>6. LiveOnce' /\ Listed' /\ Sendable'
  <2>1. /\ call'.pc # "idle" /\ (Calling => Calling') /\ call'.candidate \in {None, call.candidate}
        /\ call.pc = "idle" \/ call'.id = call.id
    BY <1>2 DEF Calling
  <2> QED
    BY <1>1, <1>4, <1>5, <2>1, RegistryShrinks
<1>7. Progress'
  <2>1. call.candidate \in Owned' /\ universes[call.candidate].id = call.id /\ call.id \in Ids
    <3>1. CASE call.pc = "drop dongle"
      <4>1. nodes' = nodes /\ call.id \in DOMAIN nodes /\ call.candidate = nodes[call.id].ptr
        BY <1>3, <3>1 DEF RegistryInv, Progress
      <4> QED
        BY <1>1, <4>1 DEF RegistryInv, Names, Owned, Progress
    <3>2. CASE call.pc = "unlink node"
      <4>1. /\ dongle_map' = dongle_map /\ call.id \in DOMAIN dongle_map
            /\ call.candidate = dongle_map[call.id]
        BY <1>3, <3>2 DEF RegistryInv, Progress
      <4> QED
        BY <1>1, <4>1 DEF RegistryInv, Names, Owned, Progress
    <3> QED
      BY <1>1, <3>1, <3>2
  <2> QED
    BY <1>1, <1>2, <2>1 DEF Progress
<1>8. KindInv'
  BY KindStep DEF RegistryInv, Next, Registrar
<1> QED
  BY <1>4, <1>6, <1>7, <1>8 DEF RegistryInv

LEMMA UnregisterStep ==
  ASSUME RegistryInv, NEW id \in Ids, Unregister(id)
  PROVE  RegistryInv'
<1>1. /\ call.pc = "idle"
      /\ call' = [pc |-> "erase", id |-> id, candidate |-> None]
      /\ UNCHANGED <<universes, active_universes, held, push>>
      /\ sent' = [sent EXCEPT ![id] = Unsent]
  BY DEF Unregister, Begins
<1>2. call' \in CallShape /\ call'.pc = "erase" /\ call'.id = id /\ call'.candidate = None
  BY <1>1 DEF CallShape
<1>3. /\ DOMAIN nodes' \subseteq DOMAIN nodes \ {id} /\ DOMAIN dongle_map' \subseteq DOMAIN dongle_map \ {id}
      /\ \A i \in DOMAIN nodes' : nodes'[i] = nodes[i]
      /\ \A i \in DOMAIN dongle_map' : dongle_map'[i] = dongle_map[i]
      /\ \A i \in DOMAIN nodes \ DOMAIN nodes' : i = id
      /\ \A i \in DOMAIN dongle_map \ DOMAIN dongle_map' : i = id
  <2>1. id \in DOMAIN nodes => id \notin DOMAIN dongle_map
    BY <1>1 DEF RegistryInv, KindInv, DropsOther
  <2> QED
    BY <2>1, DropFacts, ZenonT(60) DEF Unregister
<1>4. TypeOK' /\ Shapes' /\ Names' /\ Owned' \subseteq Owned /\ Objects' = Objects
  BY <1>1, <1>2, <1>3, DropsTyped
<1>5. ASSUME NEW u \in Owned, u \notin Owned' PROVE universes[u].id = call'.id
  <2>1. \A i \in DOMAIN nodes : u = nodes[i].ptr => i \notin DOMAIN nodes'
    BY <1>3, <1>5 DEF Owned
  <2>2. \A i \in DOMAIN dongle_map : u = dongle_map[i] => i \notin DOMAIN dongle_map'
    BY <1>3, <1>5 DEF Owned
  <2>3. ASSUME NEW i \in DOMAIN nodes, u = nodes[i].ptr PROVE universes[u].id = call'.id
    BY <1>2, <1>3, <2>1, <2>3 DEF RegistryInv, Names
  <2>4. ASSUME NEW i \in DOMAIN dongle_map, u = dongle_map[i] PROVE universes[u].id = call'.id
    BY <1>2, <1>3, <2>2, <2>4 DEF RegistryInv, Names
  <2> QED
    BY <2>3, <2>4 DEF Owned
<1>6. LiveOnce' /\ Listed' /\ Sendable'
  <2>1. /\ call'.pc # "idle" /\ (Calling => Calling') /\ call'.candidate \in {None, call.candidate}
        /\ call.pc = "idle" \/ call'.id = call.id
    BY <1>1, <1>2 DEF Calling
  <2> QED
    BY <1>1, <1>4, <1>5, <2>1, RegistryShrinks
<1>7. Progress'
  BY <1>2, <1>3 DEF Progress
<1>8. KindInv'
  BY KindRegisters DEF RegistryInv
<1> QED
  BY <1>4, <1>6, <1>7, <1>8 DEF RegistryInv
-----------------------------------------------------------------------------
(* check_update_required_from_registration and the erase of a call.         *)
Same == SelectInSeq(active_universes, LAMBDA u : ~Expired(u) /\ universes[u].id = call.id)

LEMMA SameFacts ==
  ASSUME TypeOK, Shapes
  PROVE  \/ /\ Same = 0
            /\ \A k \in DOMAIN active_universes :
                 ~(active_universes[k] \in Alive /\ universes[active_universes[k]].id = call.id)
         \/ /\ Same \in DOMAIN active_universes
            /\ active_universes[Same] \in Alive /\ universes[active_universes[Same]].id = call.id
<1> DEFINE I == {i \in 1..Len(active_universes) :
                   ~Expired(active_universes[i]) /\ universes[active_universes[i]].id = call.id}
<1>1. Same = IF I # {} THEN Min(I) ELSE 0
  BY DEF Same, SelectInSeq
<1>0. DOMAIN active_universes = 1..Len(active_universes) /\ Len(active_universes) \in Nat
  <2>1. active_universes \in Seq(Objects)
    BY DEF Shapes
  <2> QED
    BY <2>1
<1>2. I \in SUBSET Nat
  BY <1>0
<1>3. I # {} => Min(I) \in I
  <2> SUFFICES ASSUME I # {} PROVE Min(I) \in I
    OBVIOUS
  <2> HIDE DEF I
  <2>1. \E x \in I : \A y \in I : x <= y
    BY <1>2, LeastNatural
  <2> QED
    BY <2>1 DEF Min
<1> QED
  BY <1>0, <1>1, <1>3, OwnedAre

LEMMA CheckStep ==
  ASSUME RegistryInv, CheckUpdate
  PROVE  RegistryInv'
<1> DEFINE c == call.candidate
           a == active_universes
<1>1. /\ call.pc = "check" /\ call' = Idle
      /\ c \in Owned /\ c \in Objects /\ universes[c].id = call.id
      /\ held' \in {held, held \union {c}}
      /\ UNCHANGED <<universes, nodes, dongle_map, sent>>
      /\ push' = push \/ push' = [push EXCEPT !.torn = @ \/ push.pc # "idle"]
      /\ \/ Same # 0 /\ active_universes' = [a EXCEPT ![Same] = c]
         \/ Same = 0 /\ active_universes' = Append(a, c)
  <2>1. c \in Owned /\ universes[c].id = call.id
    BY DEF CheckUpdate, RegistryInv, Progress
  <2>2. c \in Objects
    BY <2>1 DEF Owned, RegistryInv, TypeOK, Shapes, Objects
  <2> QED
    BY <2>1, <2>2 DEF CheckUpdate, Same, Touch
<1>2. Objects' = Objects /\ Owned' = Owned
  BY <1>1 DEF Objects, Owned
<1>3. push'.ptr = push.ptr /\ push' \in [pc : {"idle", "test", "lock", "send"}, at : Nat,
         weak : Objects \union {None}, ptr : Objects \union {None}, housekeeping : BOOLEAN, torn : BOOLEAN]
      /\ push'.pc = push.pc /\ push'.at = push.at /\ push'.weak = push.weak
  BY <1>1 DEF RegistryInv, Shapes
<1>4. a \in Seq(Objects) /\ \A k \in DOMAIN a : a[k] \in Objects
  BY ListTyped DEF RegistryInv, Shapes
<1>5. \A u \in Objects : u \in Alive' => u \in Alive
  BY <1>1, <1>2, <1>3, ListTyped DEF Alive, Kept, Idle, RegistryInv
<1>6. /\ active_universes' \in Seq(Objects)
      /\ \E s \in DOMAIN active_universes' :
           /\ active_universes'[s] = c
           /\ DOMAIN active_universes' \ {s} \subseteq DOMAIN a
           /\ \A k \in DOMAIN active_universes' \ {s} :
                /\ active_universes'[k] = a[k]
                /\ a[k] \in Alive => universes[a[k]].id # call.id
           /\ \A k \in DOMAIN a : universes[a[k]].id # call.id =>
                k \in DOMAIN active_universes' \ {s}
  <2>1. CASE Same = 0
    <3>1. active_universes' = Append(a, c) /\ \A k \in DOMAIN a : a[k] \in Alive => universes[a[k]].id # call.id
      BY <1>1, <2>1, SameFacts DEF RegistryInv
    <3>2. /\ active_universes' \in Seq(Objects)
          /\ DOMAIN active_universes' = 1..(Len(a) + 1) /\ DOMAIN a = 1..Len(a) /\ Len(a) \in Nat
          /\ active_universes'[Len(a) + 1] = c
          /\ \A k \in DOMAIN a : active_universes'[k] = a[k]
      <4> HIDE DEF a, c
      <4> QED
        BY <1>1, <1>4, <3>1
    <3> QED
      BY <3>1, <3>2
  <2>2. CASE Same # 0
    <3>1. /\ Same \in DOMAIN a /\ a[Same] \in Alive /\ universes[a[Same]].id = call.id
          /\ active_universes' = [a EXCEPT ![Same] = c]
      BY <1>1, <2>2, SameFacts DEF RegistryInv
    <3>2. \A k \in DOMAIN a \ {Same} : a[k] \in Alive => universes[a[k]].id # call.id
      BY <3>1 DEF RegistryInv, LiveOnce
    <3>3. /\ active_universes' \in Seq(Objects) /\ DOMAIN active_universes' = DOMAIN a
          /\ active_universes'[Same] = c
          /\ \A k \in DOMAIN a \ {Same} : active_universes'[k] = a[k]
      <4> HIDE DEF a, c
      <4> QED
        BY <1>1, <1>4, <3>1
    <3> QED
      BY <3>1, <3>2, <3>3
  <2> QED
    BY <2>1, <2>2
<1>7. PICK s \in DOMAIN active_universes' :
           /\ active_universes'[s] = c
           /\ DOMAIN active_universes' \ {s} \subseteq DOMAIN a
           /\ \A k \in DOMAIN active_universes' \ {s} :
                /\ active_universes'[k] = a[k]
                /\ a[k] \in Alive => universes[a[k]].id # call.id
           /\ \A k \in DOMAIN a : universes[a[k]].id # call.id =>
                k \in DOMAIN active_universes' \ {s}
  BY <1>6
<1>8. call'.pc = "idle" /\ call' = Idle /\ ~Calling'
  BY <1>1 DEF Idle, Calling
<1>9. LiveOnce'
  <2>1. \A k \in DOMAIN active_universes' \ {s} :
          active_universes'[k] \in Alive' => a[k] \in Alive /\ active_universes'[k] = a[k]
    BY <1>4, <1>5, <1>7
  <2>2. \A k, l \in DOMAIN a :
    /\ a[k] \in Alive /\ a[l] \in Alive
    /\ universes[a[k]].id = universes[a[l]].id
    => k = l
    BY DEF RegistryInv, LiveOnce
  <2> HIDE DEF a, c
  <2> QED
    BY <1>1, <1>7, <2>1, <2>2 DEF LiveOnce
<1>10. Listed'
  <2> SUFFICES ASSUME NEW u \in Owned, u # c PROVE \E k \in DOMAIN active_universes' : active_universes'[k] = u
    BY <1>2, <1>7, ListSet DEF Listed, ToSet
  <2>1. universes[u].id # call.id
    BY <1>1 DEF RegistryInv, Names, Owned, KindInv, DropsOther
  <2>2. PICK k \in DOMAIN a : a[k] = u
    BY <2>1 DEF RegistryInv, Listed, ToSet
  <2> QED
    BY <1>7, <2>1, <2>2
<1>11. Sendable'
  <2> SUFFICES ASSUME NEW k \in DOMAIN active_universes', k # s, active_universes'[k] \in Alive'
               PROVE  active_universes'[k] \in Owned
    BY <1>1, <1>2, <1>7 DEF Sendable, ToSet
  <2>1. k \in DOMAIN a /\ active_universes'[k] = a[k] /\ a[k] \in Alive /\ universes[a[k]].id # call.id
    BY <1>4, <1>5, <1>7
  <2> QED
    BY <2>1 DEF RegistryInv, Sendable, ToSet
<1>12. TypeOK'
  <2>1. ToSet(active_universes') \subseteq Objects
    <3> DEFINE b == active_universes'
    <3>1. b \in Seq(Objects)
      BY <1>6
    <3> HIDE DEF b
    <3>2. ToSet(b) \subseteq Objects
      BY <3>1, ListSet
    <3> QED
      BY <3>2 DEF b
  <2> QED
    BY <1>1, <1>2, <1>3, <2>1 DEF RegistryInv, TypeOK, Objects
<1>13. Shapes'
  <2>1. call' \in CallShape'
    BY <1>8 DEF CallShape, Idle
  <2> QED
    BY <1>1, <1>2, <1>3, <1>6, <2>1 DEF RegistryInv, Shapes, CallShape
<1>14. Names' /\ Progress'
  BY <1>1, <1>8 DEF RegistryInv, Names, Progress
<1>15. KindInv'
  BY KindStep DEF RegistryInv, Next, Registrar
<1> QED
  BY <1>9, <1>10, <1>11, <1>12, <1>13, <1>14, <1>15 DEF RegistryInv

(* An erase leaves the owned objects that it is not for.                    *)
LEMMA ErasedList ==
  ASSUME RegistryInv, NEW gone, active_universes' = Without(active_universes, gone)
  PROVE  /\ active_universes' \in Seq(Objects)
         /\ ToSet(active_universes') = ToSet(active_universes) \ gone
         /\ \A k, l \in DOMAIN active_universes' : k # l =>
              \E i, j \in DOMAIN active_universes :
                /\ i # j
                /\ active_universes'[k] = active_universes[i]
                /\ active_universes'[l] = active_universes[j]
<1> DEFINE a == active_universes
           b == Without(active_universes, gone)
<1>1. a \in Seq(Objects)
  BY DEF RegistryInv, Shapes
<1>2. b \in Seq(Objects) /\ Remains(a, gone, Len(a), b)
  BY <1>1, WithoutFacts
<1>3. active_universes' = b /\ DOMAIN a = 1..Len(a)
  BY <1>1
<1> HIDE DEF a, b
<1>4. ToSet(b) = ToSet(a) \ gone
  <2>1. ASSUME NEW x \in ToSet(b) PROVE x \in ToSet(a) \ gone
    <3>1. PICK k \in DOMAIN b : b[k] = x
      BY <2>1 DEF ToSet
    <3>2. PICK i \in 1..Len(a) : b[k] = a[i] /\ a[i] \notin gone
      BY <1>2, <3>1 DEF Remains
    <3> QED
      BY <1>3, <3>1, <3>2 DEF ToSet
  <2>2. ASSUME NEW x \in ToSet(a), x \notin gone PROVE x \in ToSet(b)
    <3>1. PICK i \in DOMAIN a : a[i] = x
      BY <2>2 DEF ToSet
    <3>2. PICK k \in DOMAIN b : b[k] = a[i]
      BY <1>2, <1>3, <2>2, <3>1 DEF Remains
    <3> QED
      BY <3>1, <3>2 DEF ToSet
  <2> QED
    BY <2>1, <2>2
<1>5. \A k, l \in DOMAIN b : k # l => \E i, j \in DOMAIN a : i # j /\ b[k] = a[i] /\ b[l] = a[j]
  <2>1. \A k, l \in DOMAIN b : k # l => \E i, j \in 1..Len(a) : i # j /\ b[k] = a[i] /\ b[l] = a[j]
    BY <1>2 DEF Remains
  <2> QED
    BY <1>3, <2>1
<1> QED
  BY <1>2, <1>3, <1>4, <1>5 DEF a

LEMMA EraseStep ==
  ASSUME RegistryInv, EraseActive
  PROVE  RegistryInv'
<1> DEFINE gone == Gone \union Named(call.id)
<1>1. /\ call.pc = "erase" /\ call' = Idle
      /\ active_universes' = Without(active_universes, gone)
      /\ push' = [push EXCEPT !.torn = @ \/ push.pc # "idle"]
      /\ UNCHANGED <<universes, nodes, dongle_map, held, sent>>
  BY DEF EraseActive, Touch
<1> HIDE DEF gone
<1>2. Objects' = Objects /\ Owned' = Owned
  BY <1>1 DEF Objects, Owned
<1>3. push'.ptr = push.ptr /\ push' \in [pc : {"idle", "test", "lock", "send"}, at : Nat,
         weak : Objects \union {None}, ptr : Objects \union {None}, housekeeping : BOOLEAN, torn : BOOLEAN]
      /\ push'.pc = push.pc /\ push'.at = push.at /\ push'.weak = push.weak
  BY <1>1 DEF RegistryInv, Shapes
<1>4. \A u \in Objects : u \in Alive' => u \in Alive
  BY <1>1, <1>2, <1>3, ListTyped DEF Alive, Kept, Idle, RegistryInv
<1>5. /\ active_universes' \in Seq(Objects)
      /\ ToSet(active_universes') = ToSet(active_universes) \ gone
      /\ \A k, l \in DOMAIN active_universes' : k # l =>
           \E i, j \in DOMAIN active_universes :
             /\ i # j
             /\ active_universes'[k] = active_universes[i]
             /\ active_universes'[l] = active_universes[j]
  BY <1>1, ErasedList
<1>6. call'.pc = "idle" /\ call' = Idle /\ ~Calling'
  BY <1>1 DEF Idle, Calling
<1>7. LiveOnce'
  BY <1>1, <1>4, <1>5, ListTyped DEF LiveOnce, RegistryInv
<1>8. ASSUME NEW u \in Owned PROVE u \in ToSet(active_universes')
  <2>1. universes[u].id # call.id
    BY <1>1 DEF RegistryInv, Names, Owned, Progress
  <2>2. u \in ToSet(active_universes) /\ u \notin gone
    BY <1>1, <2>1, OwnedAre DEF RegistryInv, Listed, Calling, gone, Gone, Named
  <2> QED
    BY <1>5, <2>2
<1>9. ASSUME NEW u \in ToSet(active_universes'), u \in Alive' PROVE u \in Owned
  <2>1. u \in ToSet(active_universes) /\ u \notin gone /\ u \in Objects
    BY <1>5, ListTyped DEF RegistryInv
  <2>2. u \in Alive /\ universes[u].id # call.id
    BY <1>4, <1>9, <2>1 DEF gone, Named
  <2> QED
    BY <2>1, <2>2 DEF RegistryInv, Sendable
<1>10. Listed' /\ Sendable'
  BY <1>2, <1>8, <1>9 DEF Listed, Sendable
<1>11. TypeOK'
  <2>1. ToSet(active_universes') \subseteq Objects
    BY <1>5, ListTyped DEF RegistryInv
  <2> QED
    BY <1>1, <1>2, <1>3, <2>1 DEF RegistryInv, TypeOK, Objects
<1>12. Shapes'
  <2>1. call' \in CallShape'
    BY <1>6 DEF CallShape, Idle
  <2> QED
    BY <1>1, <1>2, <1>3, <1>5, <2>1 DEF RegistryInv, Shapes, CallShape
<1>13. Names' /\ Progress'
  BY <1>1, <1>6 DEF RegistryInv, Names, Progress
<1>14. KindInv'
  BY KindStep DEF RegistryInv, Next, Registrar
<1> QED
  BY <1>7, <1>10, <1>11, <1>12, <1>13, <1>14 DEF RegistryInv
-----------------------------------------------------------------------------
(* The steps that leave the maps and the list as they are: a replaced show, *)
(* a crash, and the loop of the main thread.                                *)
PushShape == [pc : {"idle", "test", "lock", "send"}, at : Nat, weak : Objects \union {None},
              ptr : Objects \union {None}, housekeeping : BOOLEAN, torn : BOOLEAN]

LEMMA LoopStep ==
  ASSUME RegistryInv, UNCHANGED <<universes, dongle_map, active_universes, call>>,
         DOMAIN nodes' = DOMAIN nodes,
         \A i \in DOMAIN nodes : nodes'[i] \in Node /\ nodes'[i].ptr = nodes[i].ptr,
         sent' \in [Ids -> [at : 0..(SequenceSpan - 1), device : Devices \union {-1}]],
         push' \in PushShape, push'.pc # "idle" => push'.at # 0,
         push'.pc = "send" => push'.ptr # None, push'.pc = "lock" => push'.weak # None,
         held' \subseteq held, push'.ptr \in Alive \union {None}
  PROVE  RegistryInv'
<1>1. Objects' = Objects /\ Owned' = Owned
  BY DEF Objects, Owned
<1>2. TypeOK'
  <2>1. push'.ptr \in {None} \union Objects
    BY DEF PushShape
  <2>2. ToSet(active_universes') = ToSet(active_universes)
    OBVIOUS
  <2> QED
    BY <1>1, <2>1, <2>2 DEF RegistryInv, TypeOK, Node, Objects
<1>3. Shapes'
  BY <1>1 DEF RegistryInv, Shapes, PushShape
<1>4. Names'
  BY DEF RegistryInv, Names
<1>5. KindInv'
  BY DEF RegistryInv, KindInv, DropsOther, CallShaped
<1>6. Progress'
  BY <1>1 DEF RegistryInv, Progress
<1>7. \A u \in Objects : u \in Alive' => u \in Alive
  BY <1>1, ListTyped DEF Alive, Kept, RegistryInv
<1>8. LiveOnce' /\ Listed' /\ Sendable'
  <2>1. LiveOnce'
    BY <1>7, ListTyped DEF RegistryInv, LiveOnce
  <2>2. Listed'
    BY <1>1 DEF RegistryInv, Listed, Calling
  <2>3. Sendable'
    BY <1>1, <1>7, ListTyped DEF RegistryInv, Sendable
  <2> QED
    BY <2>1, <2>2, <2>3
<1> QED
  BY <1>2, <1>3, <1>4, <1>5, <1>6, <1>8 DEF RegistryInv

LEMMA NodesTyped ==
  ASSUME RegistryInv
  PROVE  /\ \A i \in DOMAIN nodes : nodes[i] \in Node
         /\ sent \in [Ids -> [at : 0..(SequenceSpan - 1), device : Devices \union {-1}]]
         /\ push \in PushShape /\ push.ptr \in Alive
         /\ push.pc # "idle" => push.at # 0
         /\ push.pc = "send" => push.ptr # None
         /\ push.pc = "lock" => push.weak # None
BY DEF RegistryInv, TypeOK, Node, Objects, Shapes, PushShape, Alive

LEMMA FollowingTyped ==
  ASSUME NEW n \in 1..(SequenceSpan - 1)
  PROVE  Following(n) \in 1..(SequenceSpan - 1)
<1>1. SequenceSpan \in Nat /\ SequenceSpan >= 2
  BY OutputAssumption
<1>2. (n + 1) % SequenceSpan \in 0..(SequenceSpan - 1)
  BY <1>1
<1> QED
  BY <1>1, <1>2 DEF Following

LEMMA CountStep ==
  ASSUME RegistryInv, TestCount
  PROVE  RegistryInv'
<1> DEFINE w == active_universes[push.at]
<1>1. /\ push.pc = "test" /\ push.at <= Len(active_universes)
      /\ push' = IF Expired(w)
                 THEN [push EXCEPT !.at = @ + 1, !.housekeeping = TRUE]
                 ELSE [push EXCEPT !.pc = "lock", !.weak = w]
      /\ UNCHANGED <<universes, nodes, dongle_map, held, active_universes, call, sent>>
  BY DEF TestCount, registry
<1>2. push \in PushShape /\ push.at # 0
  BY <1>1, NodesTyped
<1>3. w \in Objects
  <2>1. push.at \in Nat \ {0} /\ active_universes \in Seq(Objects)
    BY <1>2 DEF PushShape, RegistryInv, Shapes
  <2>2. push.at \in DOMAIN active_universes
    BY <1>1, <2>1
  <2> QED
    BY <2>2, ListTyped DEF RegistryInv
<1> HIDE DEF w
<1>4. /\ push' \in PushShape /\ push'.at # 0 /\ push'.ptr = push.ptr /\ push'.pc # "send"
      /\ push'.pc = "lock" => push'.weak # None
  <2>1. w # None
    BY <1>3, ListTyped DEF RegistryInv
  <2>2. CASE Expired(w)
    <3> DEFINE next == push.at + 1
    <3>1. push' = [push EXCEPT !.at = next, !.housekeeping = TRUE]
      BY <1>1, <2>2
    <3>2. next \in Nat /\ next # 0
      BY <1>2 DEF PushShape
    <3> HIDE DEF next
    <3> QED
      BY <1>1, <1>2, <3>1, <3>2 DEF PushShape
  <2>3. CASE ~Expired(w)
    <3>1. push' = [push EXCEPT !.pc = "lock", !.weak = w]
      BY <1>1, <2>3
    <3> QED
      BY <1>2, <1>3, <2>1, <3>1 DEF PushShape
  <2> QED
    BY <2>2, <2>3
<1> QED
  BY <1>1, <1>4, LoopStep, NodesTyped

LEMMA LockStep ==
  ASSUME RegistryInv, Lock, ~Expired(push.weak)
  PROVE  RegistryInv'
<1>1. /\ push' = [push EXCEPT !.pc = "send", !.weak = None, !.ptr = push.weak]
      /\ push.pc = "lock"
      /\ UNCHANGED <<universes, nodes, dongle_map, held, active_universes, call, sent>>
  BY DEF Lock, registry
<1>2. push \in PushShape /\ push.at # 0 /\ push.weak \in Alive /\ push.weak \in Objects
  BY <1>1, NodesTyped, OwnedAre DEF PushShape
<1>3. push' \in PushShape /\ push'.at # 0 /\ push'.ptr \in Alive /\ push'.ptr # None
      /\ push'.pc = "send"
  <2>1. push.weak # None
    BY <1>2, ListTyped DEF RegistryInv
  <2>2. push' \in PushShape
    BY <1>1, <1>2 DEF PushShape
  <2> QED
    BY <1>1, <1>2, <2>1, <2>2 DEF PushShape
<1> QED
  BY <1>1, <1>3, LoopStep, NodesTyped

LEMMA PublishStep ==
  ASSUME RegistryInv, Publish, ~Crash
  PROVE  RegistryInv'
<1> DEFINE u == universes[push.ptr]
<1>1. /\ push.pc = "send"
      /\ push' = [push EXCEPT !.pc = "test", !.at = @ + 1, !.ptr = None]
      /\ \/ UNCHANGED <<nodes, sent>>
         \/ SendData(u)
         \/ u.id \in DOMAIN nodes /\ PushUniverse(u)
      /\ UNCHANGED <<universes, dongle_map, held, active_universes, call, calls, crashed>>
  BY DEF Publish
<1>2. u.id \in Ids /\ u.device \in Devices \union {-1}
  <2>1. push.ptr \in Objects
    BY <1>1, NodesTyped DEF PushShape
  <2>2. universes \in Seq(Universe)
    BY DEF RegistryInv, TypeOK, Universe
  <2>3. u \in Universe
    BY <2>1, <2>2 DEF Objects
  <2> QED
    BY <2>3 DEF Universe
<1> HIDE DEF u
<1>3. /\ DOMAIN nodes' = DOMAIN nodes
      /\ \A i \in DOMAIN nodes : nodes'[i] \in Node /\ nodes'[i].ptr = nodes[i].ptr
      /\ sent' \in [Ids -> [at : 0..(SequenceSpan - 1), device : Devices \union {-1}]]
  <2>1. CASE UNCHANGED <<nodes, sent>>
    BY <2>1, NodesTyped
  <2>2. CASE SendData(u)
    <3>1. Unsent \in [at : 0..(SequenceSpan - 1), device : Devices \union {-1}]
      BY OutputAssumption DEF Unsent
    <3> QED
      BY <1>2, <2>2, <3>1, NodesTyped DEF SendData
  <2>3. CASE u.id \in DOMAIN nodes /\ PushUniverse(u)
    <3> DEFINE m == Following(nodes[u.id].sequence_number)
               e == [nodes[u.id] EXCEPT !.sequence_number = m]
               x == [at |-> nodes'[u.id].sequence_number, device |-> u.device]
    <3>1. nodes' = [nodes EXCEPT ![u.id] = e] /\ sent' = [sent EXCEPT ![u.id] = x]
      BY <2>3 DEF PushUniverse
    <3>2. nodes[u.id] \in Node
      BY <2>3, NodesTyped
    <3>3. m \in 1..(SequenceSpan - 1)
      BY <3>2, FollowingTyped DEF Node
    <3> HIDE DEF m
    <3>4. e \in Node /\ e.ptr = nodes[u.id].ptr /\ e.sequence_number = m
      BY <3>2, <3>3 DEF Node
    <3> HIDE DEF e
    <3>5. /\ DOMAIN nodes' = DOMAIN nodes /\ nodes'[u.id] = e
          /\ \A i \in DOMAIN nodes \ {u.id} : nodes'[i] = nodes[i]
      BY <2>3, <3>1
    <3>6. x \in [at : 0..(SequenceSpan - 1), device : Devices \union {-1}]
      BY <1>2, <3>3, <3>4, <3>5
    <3> HIDE DEF x
    <3>7. sent' \in [Ids -> [at : 0..(SequenceSpan - 1), device : Devices \union {-1}]]
      BY <3>1, <3>6, NodesTyped
    <3> QED
      BY <3>4, <3>5, <3>7, NodesTyped
  <2> QED
    BY <1>1, <2>1, <2>2, <2>3
<1>4. /\ push' \in PushShape /\ push'.at # 0 /\ push'.ptr = None /\ push'.pc = "test"
  <2> DEFINE next == push.at + 1
  <2>1. push \in PushShape /\ push' = [push EXCEPT !.pc = "test", !.at = next, !.ptr = None]
    BY <1>1, NodesTyped
  <2>2. next \in Nat /\ next # 0
    BY <2>1 DEF PushShape
  <2> HIDE DEF next
  <2> QED
    BY <2>1, <2>2 DEF PushShape
<1> QED
  BY <1>1, <1>3, <1>4, LoopStep

LEMMA HouseKeepingStep ==
  ASSUME RegistryInv, HouseKeeping, push.housekeeping
  PROVE  RegistryInv'
<1>1. /\ active_universes' = Without(active_universes, Gone)
      /\ push' = Waiting
      /\ UNCHANGED <<universes, nodes, dongle_map, held, call, sent>>
  BY DEF HouseKeeping
<1>2. Objects' = Objects /\ Owned' = Owned
  BY <1>1 DEF Objects, Owned
<1>3. /\ active_universes' \in Seq(Objects)
      /\ ToSet(active_universes') = ToSet(active_universes) \ Gone
      /\ \A k, l \in DOMAIN active_universes' : k # l =>
           \E i, j \in DOMAIN active_universes :
             /\ i # j
             /\ active_universes'[k] = active_universes[i]
             /\ active_universes'[l] = active_universes[j]
  BY <1>1, ErasedList
<1>4. push' \in PushShape /\ push'.ptr = None /\ push'.pc = "idle"
  BY <1>1 DEF Waiting, PushShape
<1>5. \A u \in Objects : u \in Alive' => u \in Alive
  BY <1>1, <1>2, <1>4, ListTyped DEF Alive, Kept, RegistryInv
<1>6. LiveOnce'
  BY <1>1, <1>3, <1>5, ListTyped DEF LiveOnce, RegistryInv
<1>7. Listed'
  <2>1. \A u \in Owned : u \notin Gone
    BY OwnedAre DEF Gone
  <2> QED
    BY <1>1, <1>2, <1>3, <2>1 DEF Listed, Calling, RegistryInv
<1>8. Sendable'
  BY <1>1, <1>2, <1>3, <1>5, ListTyped DEF Sendable, RegistryInv
<1>9. TypeOK'
  <2>1. ToSet(active_universes') \subseteq Objects
    BY <1>3, ListTyped DEF RegistryInv
  <2> QED
    BY <1>1, <1>2, <1>4, <2>1 DEF RegistryInv, TypeOK, Objects
<1>10. Shapes'
  BY <1>1, <1>2, <1>3, <1>4 DEF RegistryInv, Shapes, PushShape
<1>11. Names' /\ Progress'
  BY <1>1, <1>2 DEF RegistryInv, Names, Progress
<1>12. KindInv'
  BY <1>1 DEF RegistryInv, KindInv, DropsOther, CallShaped
<1> QED
  BY <1>6, <1>7, <1>8, <1>9, <1>10, <1>11, <1>12 DEF RegistryInv

LEMMA QuietStep ==
  ASSUME RegistryInv, UNCHANGED <<registry, call, push, sent>> 
  PROVE  RegistryInv'
BY LoopStep, NodesTyped DEF registry

LEMMA RegistryStep == RegistryInv /\ [Next]_vars => RegistryInv'
<1> SUFFICES ASSUME RegistryInv, [Next]_vars PROVE RegistryInv'
  OBVIOUS
<1>1. ASSUME NEW id \in Ids, NEW dummy \in BOOLEAN, RegisterFtdi(id, dummy)
      PROVE  RegistryInv'
  <2>1. CASE call' # call
    BY <1>1, <2>1, RegistersFtdi
  <2>2. CASE call' = call
    <3>1. UNCHANGED <<universes, dongle_map, call>>
      <4>1. call.pc = "idle"
        BY <1>1 DEF RegisterFtdi, Begins
      <4>2. call' # [pc |-> "unlink node", id |-> id, candidate |-> Len(universes')]
        <5> DEFINE r == [pc |-> "unlink node", id |-> id, candidate |-> Len(universes')]
        <5>1. r.pc = "unlink node"
          OBVIOUS
        <5> HIDE DEF r
        <5>2. call' # r
          BY <2>2, <4>1, <5>1
        <5> QED
          BY <5>2 DEF r
      <4> QED
        BY <1>1, <4>2 DEF RegisterFtdi
    <3> QED
      BY <1>1, <3>1, QuietStep DEF RegisterFtdi, registry
  <2> QED
    BY <2>1, <2>2
<1>2. ASSUME NEW id \in Ids, NEW d \in Devices, NEW dummy \in BOOLEAN, RegisterArtNet(id, d, dummy)
      PROVE  RegistryInv'
  BY <1>2, RegistersArtNet
<1>3. ASSUME NEW id \in Ids, Unregister(id) PROVE RegistryInv'
  BY <1>3, UnregisterStep
<1>4. CASE DropDongle \/ UnlinkNode
  BY <1>4, DropsStep
<1>5. CASE CheckUpdate
  BY <1>5, CheckStep
<1>6. CASE EraseActive
  BY <1>6, EraseStep
<1>7. CASE ReleaseShow
  BY <1>7, LoopStep, NodesTyped DEF ReleaseShow
<1>8. CASE Crash
  BY <1>8, QuietStep DEF Crash
<1>9. CASE RegistrarCrash
  BY <1>8, <1>9 DEF RegistrarCrash
<1>10. CASE StartPush
  <2>1. /\ push' = [Waiting EXCEPT !.pc = "test", !.at = 1]
        /\ UNCHANGED <<universes, nodes, dongle_map, held, active_universes, call, sent>>
    BY <1>10 DEF StartPush, registry
  <2>2. push' \in PushShape /\ push'.pc = "test" /\ push'.at = 1 /\ push'.ptr = None
    BY <2>1 DEF Waiting, PushShape
  <2> QED
    BY <2>1, <2>2, LoopStep, NodesTyped
<1>11. CASE TornPush
  <2> SUFFICES ASSUME NEW i \in 1..(Len(active_universes) + 1),
                      push' = [push EXCEPT !.at = i, !.torn = FALSE], push.pc = "test",
                      UNCHANGED <<universes, nodes, dongle_map, held, active_universes, call, sent>>
               PROVE  RegistryInv'
    BY <1>8, <1>11 DEF TornPush, registry
  <2>1. push' \in PushShape /\ push'.pc = "test" /\ push'.at = i /\ push'.ptr = push.ptr /\ i \in Nat /\ i # 0
    <3>1. i \in Nat /\ i # 0
      <4>1. active_universes \in Seq(Objects)
        BY DEF RegistryInv, Shapes
      <4> QED
        BY <4>1
    <3> QED
      BY <3>1, NodesTyped DEF PushShape
  <2> QED
    BY <2>1, LoopStep, NodesTyped
<1>12. CASE TestCount
  BY <1>12, CountStep
<1>13. CASE Lock
  BY <1>8, <1>13, LockStep DEF Lock
<1>14. CASE Publish
  BY <1>8, <1>14, PublishStep
<1>15. CASE HouseKeeping
  <2>1. CASE push.housekeeping
    BY <1>15, <2>1, HouseKeepingStep
  <2>2. CASE ~push.housekeeping
    <3>1. push' = Waiting /\ UNCHANGED <<universes, nodes, dongle_map, held, active_universes, call, sent>>
      BY <1>15, <2>2 DEF HouseKeeping
    <3>2. push' \in PushShape /\ push'.ptr = None /\ push'.pc = "idle"
      BY <3>1 DEF Waiting, PushShape
    <3> QED
      BY <3>1, <3>2, LoopStep, NodesTyped
  <2> QED
    BY <2>1, <2>2
<1>16. CASE UNCHANGED vars
  BY <1>16, QuietStep DEF vars
<1> QED
  BY <1>1, <1>2, <1>3, <1>4, <1>5, <1>6, <1>7, <1>9, <1>10, <1>11, <1>12, <1>13, <1>14, <1>15, <1>16
  DEF Next, Registrar, Main

(* Whatever the registrar and the main thread do in between, between two    *)
(* calls the list of active universes and the maps of the registry agree:   *)
(* every owned universe is in the list once, no id has a node and a dongle, *)
(* and every universe of the list that is still alive is registered         *)
(* (universe_sender.cpp:46-154).                                            *)
THEOREM UniversesAlwaysSound == Spec => []UniversesSound
<1>1. RegistryInv /\ [Next]_vars => RegistryInv'
  BY RegistryStep
<1> QED
  BY <1>1, RegistryInit, RegistryIsSound, PTL DEF Spec
=============================================================================
