------------------------ MODULE EventStorage_proofs ------------------------
(***************************************************************************)
(* Proofs about EventStorage, for any set of producers, any set of event   *)
(* sources and any number of events.                                       *)
(***************************************************************************)
EXTENDS EventStorage, SequenceTheorems, TLAPS

USE EventStorageAssumption DEF EventStorageAssumption

(* The type invariant holds initially and every step preserves it.         *)
LEMMA TypeInit == Init => TypeOK
<1> SUFFICES ASSUME Init PROVE TypeOK
  OBVIOUS
<1>1. Empty \in BufferContent
  BY DEF Empty, BufferContent
<1>2. storage \in [Buffers -> BufferContent]
  BY <1>1 DEF Init
<1>3. senders \in Seq(Names \cup {NoName})
  BY DEF Init
<1>4. /\ pc \in [Threads -> {"idle", "locked"}]
      /\ arg \in [Threads -> Seq(Event)]
      /\ target \in [Threads -> Buffers]
  BY DEF Init, Buffers
<1>5. ongoing_events \in [Key -> 0 .. MaxEvents]
  BY DEF Init, NoEvent
<1>6. accepted \in Seq(Event) /\ delivered \in Seq(Event)
  BY DEF Init
<1>7. issued \in 0 .. MaxEvents /\ scan \in Nat \ {0}
  BY DEF Init
<1>8. /\ current_read_storage_is_a \in BOOLEAN
      /\ mutex \in Threads \cup {Nobody}
      /\ phase \in {"cycle", "lock", "flip", "scan"}
  BY DEF Init
<1> QED
  BY <1>2, <1>3, <1>4, <1>5, <1>6, <1>7, <1>8 DEF TypeOK

LEMMA TypeStep == TypeOK /\ [Next]_vars => TypeOK'
<1> SUFFICES ASSUME TypeOK, [Next]_vars PROVE TypeOK'
  OBVIOUS
<1> USE DEF TypeOK, swapVars
<1>1. CASE \E name \in Names \cup {NoName} : ConstructOrUpdateSource(name)
  BY <1>1 DEF ConstructOrUpdateSource
<1>2. ASSUME NEW t \in Threads, NEW e \in Event, InsertRefused(t, e)
      PROVE TypeOK'
  BY <1>2 DEF InsertRefused, Construct
<1>3. ASSUME NEW t \in Threads, NEW e \in Event, InsertLock(t, e)
      PROVE TypeOK'
  BY <1>3 DEF InsertLock, Construct, WriteBuffer, Buffers
<1>4. ASSUME NEW t \in Threads, InsertStore(t) PROVE TypeOK'
  <2>1. arg[t] \in Seq(Event) /\ target[t] \in Buffers
    OBVIOUS
  <2>2. storage[target[t]] \in BufferContent
    BY <2>1
  <2>3. storage[target[t]].inserted \o arg[t] \in Seq(Event)
    BY <2>1, <2>2 DEF BufferContent
  <2>4. storage' \in [Buffers -> BufferContent]
    BY <1>4, <2>1, <2>2, <2>3 DEF InsertStore, BufferContent
  <2>5. accepted' \in Seq(Event)
    BY <1>4, <2>1 DEF InsertStore
  <2> QED
    BY <1>4, <2>4, <2>5 DEF InsertStore
<1>5. CASE SwapClear
  <2>1. Empty \in BufferContent
    BY DEF Empty, BufferContent
  <2>2. storage' \in [Buffers -> BufferContent]
    BY <1>5, <2>1 DEF SwapClear
  <2> QED
    BY <1>5, <2>2 DEF SwapClear
<1>6. CASE SwapLock
  BY <1>6 DEF SwapLock, Threads
<1>7. CASE SwapFlip
  BY <1>7 DEF SwapFlip
<1>8. CASE ScanEvent
  <2> DEFINE e == storage[ReadBuffer].inserted[scan]
  <2>1. storage[ReadBuffer] \in BufferContent
    BY DEF ReadBuffer, Buffers
  <2>2. scan >= 1 => e \in Event
    BY <1>8, <2>1, ElementOfSeq DEF ScanEvent, BufferContent
  <2>3. ongoing_events' \in [Key -> 0 .. MaxEvents]
    <3> HIDE DEF e
    <3>0. /\ ongoing_events' = Track(ongoing_events, e)
          /\ ongoing_events \in [Key -> 0 .. MaxEvents]
          /\ e.id \in 0 .. MaxEvents
      <4>1. ongoing_events' = Track(ongoing_events, e) /\ scan >= 1
        BY <1>8 DEF ScanEvent, e
      <4>2. e \in Event
        BY <4>1, <2>2
      <4>3. e.id \in 0 .. MaxEvents
        BY <4>2 DEF Event
      <4> QED BY <4>1, <4>3
    <3>1. CASE e.type = "START"
      BY <3>0, <3>1 DEF Track
    <3>2. CASE e.type = "RELEASE"
      <4>1. NoEvent \in 0 .. MaxEvents
        BY EventStorageAssumption DEF NoEvent
      <4> QED BY <3>0, <3>2, <4>1 DEF Track
    <3>3. CASE e.type \notin {"START", "RELEASE"}
      BY <3>0, <3>3 DEF Track
    <3> QED BY <3>1, <3>2, <3>3
  <2> QED
    BY <1>8, <2>3 DEF ScanEvent
<1>9. CASE AppendOngoing
  <2>1. Lasting(ongoing_events) \in SUBSET Holding
    BY DEF Lasting, Holding, NoEvent
  <2>2. ReadBuffer \in Buffers /\ storage[ReadBuffer] \in BufferContent
    BY DEF ReadBuffer, Buffers
  <2>3. storage' \in [Buffers -> BufferContent]
    BY <1>9, <2>1, <2>2 DEF AppendOngoing, BufferContent
  <2>4. delivered' \in Seq(Event)
    BY <1>9, <2>2 DEF AppendOngoing, BufferContent
  <2> QED
    BY <1>9, <2>3, <2>4 DEF AppendOngoing
<1>10. CASE UNCHANGED vars
  BY <1>10 DEF vars
<1> QED
  BY <1>1, <1>2, <1>3, <1>4, <1>5, <1>6, <1>7, <1>8, <1>9, <1>10
  DEF Next, Insert, Swap

(* Every value the storage handles stays in its type.                      *)
THEOREM TypeCorrect == Spec => []TypeOK
BY TypeInit, TypeStep, PTL DEF Spec
-----------------------------------------------------------------------------
(***************************************************************************)
(* ExactlyOnce is not inductive.  It needs what the mutex is for: while a  *)
(* thread is inside insert_event it holds the mutex and the buffer it      *)
(* chose is the write buffer; while the main thread is about to flip it    *)
(* holds the mutex, and the buffer that becomes writable is empty.         *)
(***************************************************************************)
InsertInv ==
  /\ \A t \in Threads : pc[t] = "locked" => mutex = t /\ target[t] = WriteBuffer
  /\ pc[Main] = "locked" => phase = "cycle"

SwapInv ==
  /\ phase = "flip" => mutex = Main
  /\ phase \in {"lock", "flip"} => storage[ReadBuffer].inserted = <<>>

DeliveryInv == TypeOK /\ InsertInv /\ SwapInv /\ ExactlyOnce

(* The two buffers are never the same.                                     *)
LEMMA BuffersDiffer ==
  /\ ReadBuffer \in Buffers /\ WriteBuffer \in Buffers
  /\ ReadBuffer # WriteBuffer
BY DEF ReadBuffer, WriteBuffer, Buffers

(* Concatenation of sequences of events is associative.                    *)
LEMMA EventsAssociate ==
  \A r, s, u \in Seq(Event) : (r \o s) \o u = r \o (s \o u)
BY ConcatAssociative

(* Whoever inserts keeps the main thread from flipping.                    *)
LEMMA NoFlipDuringInsert ==
  ASSUME DeliveryInv, NEW t \in Threads, pc[t] = "locked"
  PROVE  phase # "flip"
BY DEF DeliveryInv, InsertInv, SwapInv

LEMMA DeliveryInit == Init => DeliveryInv
<1> SUFFICES ASSUME Init PROVE DeliveryInv
  OBVIOUS
<1>1. TypeOK
  BY TypeInit
<1>2. \A b \in Buffers : storage[b].inserted = <<>>
  BY DEF Init, Empty
<1>3. InsertInv /\ SwapInv
  BY <1>2, BuffersDiffer DEF Init, InsertInv, SwapInv, Threads
<1>4. <<>> \o <<>> = <<>>
  OBVIOUS
<1>5. ExactlyOnce
  BY <1>2, <1>4, BuffersDiffer DEF Init, ExactlyOnce
<1> QED
  BY <1>1, <1>3, <1>5 DEF DeliveryInv

LEMMA DeliveryStep == DeliveryInv /\ [Next]_vars => DeliveryInv'
<1> SUFFICES ASSUME DeliveryInv, [Next]_vars PROVE DeliveryInv'
  OBVIOUS
<1>1. TypeOK /\ TypeOK'
  BY TypeStep DEF DeliveryInv
<1>2. ASSUME UNCHANGED <<storage, mutex, pc, target, accepted, swapVars>>
      PROVE  DeliveryInv'
  BY <1>1, <1>2 DEF DeliveryInv, InsertInv, SwapInv, ExactlyOnce, ReadBuffer,
                    WriteBuffer, swapVars
<1>3. ASSUME NEW t \in Threads, NEW e \in Event, InsertLock(t, e)
      PROVE  DeliveryInv'
  <2> USE <1>3 DEF InsertLock, Construct, swapVars
  <2>1. ReadBuffer' = ReadBuffer /\ WriteBuffer' = WriteBuffer
    BY DEF ReadBuffer, WriteBuffer
  <2>2. \A u \in Threads : pc[u] # "locked"
    BY DEF DeliveryInv, InsertInv, Threads
  <2>3. InsertInv'
    <3>1. \A u \in Threads : pc'[u] = "locked" => u = t
      BY <1>1, <2>2 DEF TypeOK
    <3>2. mutex' = t /\ target'[t] = WriteBuffer'
      BY <1>1, <2>1 DEF TypeOK
    <3>3. t = Main => phase' = "cycle"
      OBVIOUS
    <3>4. Main \in Threads
      BY DEF Threads
    <3> QED
      BY ONLY <3>1, <3>2, <3>3, <3>4 DEF InsertInv
  <2>4. SwapInv'
    <3>1. phase # "flip"
      BY DEF DeliveryInv, SwapInv
    <3> QED
      BY <2>1, <3>1 DEF DeliveryInv, SwapInv
  <2>5. ExactlyOnce'
    BY <2>1 DEF DeliveryInv, ExactlyOnce
  <2> QED
    BY <1>1, <2>3, <2>4, <2>5 DEF DeliveryInv
<1>4. ASSUME NEW t \in Threads, InsertStore(t)
      PROVE  DeliveryInv'
  <2> USE <1>4 DEF InsertStore, swapVars
  <2>1. ReadBuffer' = ReadBuffer /\ WriteBuffer' = WriteBuffer
    BY DEF ReadBuffer, WriteBuffer
  <2>2. target[t] = WriteBuffer /\ phase # "flip"
    BY NoFlipDuringInsert DEF DeliveryInv, InsertInv
  <2>3. \A u \in Threads : pc'[u] # "locked"
    BY <1>1 DEF DeliveryInv, InsertInv, TypeOK
  <2>4. InsertInv'
    BY <1>1, <2>3 DEF InsertInv, Threads
  <2>5. /\ storage'[ReadBuffer] = storage[ReadBuffer]
        /\ storage'[WriteBuffer].inserted = storage[WriteBuffer].inserted \o arg[t]
    <3> USE DEF TypeOK
    <3>1. storage' = [storage EXCEPT ![WriteBuffer].inserted = @ \o arg[t]]
      BY <2>2
    <3>2. /\ storage \in [Buffers -> BufferContent]
          /\ ReadBuffer \in Buffers /\ WriteBuffer \in Buffers
          /\ ReadBuffer # WriteBuffer
      BY <1>1, BuffersDiffer
    <3>3. storage[WriteBuffer] \in [inserted : Seq(Event), lasting : SUBSET Holding]
      BY <3>2 DEF BufferContent
    <3> QED BY ONLY <3>1, <3>2, <3>3
  <2>6. SwapInv'
    BY <2>1, <2>2, <2>5 DEF DeliveryInv, SwapInv
  <2> DEFINE shown == IF phase = "scan" THEN storage[ReadBuffer].inserted ELSE <<>>
             waiting == storage[WriteBuffer].inserted
  <2>7. /\ delivered \in Seq(Event) /\ shown \in Seq(Event)
        /\ waiting \in Seq(Event) /\ arg[t] \in Seq(Event)
    BY <1>1, BuffersDiffer DEF TypeOK, BufferContent
  <2>8. delivered \o shown \in Seq(Event)
    BY <2>7, ConcatProperties
  <2>9. ((delivered \o shown) \o waiting) \o arg[t]
          = (delivered \o shown) \o (waiting \o arg[t])
    <3> DEFINE before == delivered \o shown
    <3>1. before \in Seq(Event) /\ waiting \in Seq(Event) /\ arg[t] \in Seq(Event)
      BY <2>7, <2>8
    <3> HIDE DEF before, waiting
    <3>2. (before \o waiting) \o arg[t] = before \o (waiting \o arg[t])
      BY ONLY <3>1, EventsAssociate
    <3> QED
      BY ONLY <3>2 DEF before, waiting
  <2>10. accepted' = (delivered \o shown) \o (waiting \o arg[t])
    <3>1. accepted = (delivered \o shown) \o waiting
      BY ONLY DeliveryInv DEF DeliveryInv, ExactlyOnce
    <3>2. accepted' = accepted \o arg[t]
      OBVIOUS
    <3> QED
      BY ONLY <2>9, <3>1, <3>2
  <2>11. ExactlyOnce'
    BY <2>1, <2>5, <2>10 DEF ExactlyOnce
  <2> QED
    BY <1>1, <2>4, <2>6, <2>11 DEF DeliveryInv
<1>5. CASE SwapClear
  <2> USE <1>5 DEF SwapClear
  <2>1. ReadBuffer' = ReadBuffer /\ WriteBuffer' = WriteBuffer
    BY DEF ReadBuffer, WriteBuffer
  <2>2. /\ storage'[ReadBuffer].inserted = <<>>
        /\ storage'[WriteBuffer] = storage[WriteBuffer]
    BY <1>1, BuffersDiffer DEF TypeOK, Empty
  <2>3. InsertInv' /\ SwapInv'
    BY <2>1, <2>2 DEF DeliveryInv, InsertInv, SwapInv
  <2>4. ExactlyOnce'
    BY <2>1, <2>2 DEF DeliveryInv, ExactlyOnce
  <2> QED
    BY <1>1, <2>3, <2>4 DEF DeliveryInv
<1>6. CASE SwapLock
  <2> USE <1>6 DEF SwapLock
  <2>1. ReadBuffer' = ReadBuffer /\ WriteBuffer' = WriteBuffer
    BY DEF ReadBuffer, WriteBuffer
  <2>2. \A u \in Threads : pc[u] # "locked"
    BY DEF DeliveryInv, InsertInv, Threads
  <2>3. InsertInv' /\ SwapInv'
    BY <2>1, <2>2 DEF DeliveryInv, InsertInv, SwapInv, Threads
  <2>4. ExactlyOnce'
    BY <2>1 DEF DeliveryInv, ExactlyOnce
  <2> QED
    BY <1>1, <2>3, <2>4 DEF DeliveryInv
<1>7. CASE SwapFlip
  <2> USE <1>7 DEF SwapFlip
  <2>1. ReadBuffer' = WriteBuffer /\ WriteBuffer' = ReadBuffer
    BY <1>1 DEF ReadBuffer, WriteBuffer, TypeOK
  <2>2. \A u \in Threads : pc[u] # "locked"
    BY NoFlipDuringInsert
  <2>3. InsertInv' /\ SwapInv'
    BY <2>2 DEF InsertInv, SwapInv, Threads
  <2>4. storage[ReadBuffer].inserted = <<>>
    BY DEF DeliveryInv, SwapInv
  <2> DEFINE w == storage[WriteBuffer].inserted
  <2>5. w \in Seq(Event) /\ delivered \in Seq(Event) /\ delivered \o w \in Seq(Event)
    BY <1>1, BuffersDiffer, ConcatProperties DEF TypeOK, BufferContent
  <2>6. /\ delivered \o <<>> = delivered
        /\ (delivered \o w) \o <<>> = delivered \o w
    BY <2>5, ConcatEmptySeq
  <2>7. accepted = (delivered \o w) \o <<>>
    BY <2>6 DEF DeliveryInv, ExactlyOnce
  <2>8. ExactlyOnce'
    BY <2>1, <2>4, <2>7 DEF ExactlyOnce
  <2> QED
    BY <1>1, <2>3, <2>8 DEF DeliveryInv
<1>8. CASE ScanEvent
  BY <1>1, <1>8 DEF ScanEvent, DeliveryInv, InsertInv, SwapInv, ExactlyOnce,
                    ReadBuffer, WriteBuffer
<1>9. CASE AppendOngoing
  <2> USE <1>9 DEF AppendOngoing
  <2>1. ReadBuffer' = ReadBuffer /\ WriteBuffer' = WriteBuffer
    BY DEF ReadBuffer, WriteBuffer
  <2>2. /\ storage'[ReadBuffer].inserted = storage[ReadBuffer].inserted
        /\ storage'[WriteBuffer] = storage[WriteBuffer]
    BY <1>1, BuffersDiffer DEF TypeOK, BufferContent
  <2>3. InsertInv' /\ SwapInv'
    BY <2>1 DEF DeliveryInv, InsertInv, SwapInv
  <2>4. delivered' \in Seq(Event) /\ delivered' \o <<>> = delivered'
    BY <1>1, ConcatEmptySeq DEF TypeOK
  <2>5. ExactlyOnce'
    BY <2>1, <2>2, <2>4 DEF DeliveryInv, ExactlyOnce
  <2> QED
    BY <1>1, <2>3, <2>5 DEF DeliveryInv
<1>10. ASSUME NEW name, ConstructOrUpdateSource(name) PROVE DeliveryInv'
  BY <1>2, <1>10 DEF ConstructOrUpdateSource
<1>11. ASSUME NEW t \in Threads, NEW e \in Event, InsertRefused(t, e)
       PROVE  DeliveryInv'
  BY <1>2, <1>11 DEF InsertRefused
<1>12. CASE UNCHANGED vars
  BY <1>2, <1>12 DEF vars, swapVars
<1> QED
  BY <1>3, <1>4, <1>5, <1>6, <1>7, <1>8, <1>9, <1>10, <1>11, <1>12
  DEF Next, Insert, Swap

(* No accepted event is lost, doubled or reordered, whatever the threads   *)
(* do while the buffers are exchanged (event_storage.cpp:34-94).           *)
THEOREM DeliveredExactlyOnce == Spec => []ExactlyOnce
<1>1. DeliveryInv => ExactlyOnce
  BY DEF DeliveryInv
<1> QED
  BY <1>1, DeliveryInit, DeliveryStep, PTL DEF Spec
-----------------------------------------------------------------------------
(***************************************************************************)
(* EventStorage implements EventDelivery.  The map of ongoing events is    *)
(* kept event by event while the new read buffer is scanned; what it must  *)
(* agree with at each moment is the log of the events looked at so far.    *)
(***************************************************************************)
Opened(log, i) == Delivery!OpenedLast(log, i)

(* A key is held by the START that opened it last, or by nobody.           *)
HeldBy(log, held) ==
  \A k \in Key :
    \/ /\ held[k] = NoEvent
       /\ \A i \in DOMAIN log : Opened(log, i) => log[i].key # k
    \/ \E i \in DOMAIN log : Opened(log, i) /\ log[i].key = k /\ held[k] = log[i].id

(* The new read buffer, and the part of it that was looked at.             *)
Fresh == storage[ReadBuffer].inserted
Scanned == IF phase = "scan" THEN SubSeq(Fresh, 1, scan - 1) ELSE <<>>

OngoingInv ==
  /\ \A t \in Threads : pc[t] = "locked" => \E e \in Event : arg[t] = <<e>>
  /\ phase = "scan" => scan <= Len(Fresh) + 1
  /\ HeldBy(delivered \o Scanned, ongoing_events)

RefinementInv == DeliveryInv /\ OngoingInv

(* A key is opened last by one event only.                                 *)
LEMMA OpenedOnce ==
  ASSUME NEW log \in Seq(Event), NEW i \in DOMAIN log, NEW j \in DOMAIN log,
         Opened(log, i), Opened(log, j), log[i].key = log[j].key
  PROVE  i = j
<1>1. ASSUME i < j PROVE FALSE
  BY <1>1 DEF Opened, Delivery!OpenedLast
<1>2. ASSUME j < i PROVE FALSE
  BY <1>2 DEF Opened, Delivery!OpenedLast
<1> QED
  BY <1>1, <1>2

(* What the map says is what the log leaves held.                          *)
LEMMA HeldIsLasting ==
  ASSUME NEW log \in Seq(Event), NEW held \in [Key -> 0 .. MaxEvents], HeldBy(log, held)
  PROVE  Delivery!Held(log) = Lasting(held)
<1>0. \A i \in DOMAIN log : log[i] \in Event /\ log[i].key \in Key /\ log[i].id # NoEvent
  <2>1. \A i \in DOMAIN log : log[i] \in Event
    OBVIOUS
  <2>2. \A e \in Event : e.key \in Key /\ e.id # NoEvent
    BY DEF Event, NoEvent
  <2> QED
    BY <2>1, <2>2
<1>1. ASSUME NEW i \in DOMAIN log, Opened(log, i)
      PROVE  held[log[i].key] = log[i].id
  <2>1. PICK j \in DOMAIN log : Opened(log, j) /\ log[j].key = log[i].key
                                /\ held[log[i].key] = log[j].id
    BY <1>0, <1>1 DEF HeldBy
  <2> QED
    BY <1>1, <2>1, OpenedOnce
<1>2. ASSUME NEW x \in Delivery!Held(log) PROVE x \in Lasting(held)
  <2>1. PICK i \in DOMAIN log : Opened(log, i) /\ x = [key |-> log[i].key, start |-> log[i].id]
    BY DEF Delivery!Held, Opened
  <2>2. log[i].key \in Key /\ held[log[i].key] # NoEvent /\ x = [key |-> log[i].key, start |-> held[log[i].key]]
    BY <1>0, <1>1, <2>1
  <2> QED
    BY <2>2 DEF Lasting
<1>3. ASSUME NEW x \in Lasting(held) PROVE x \in Delivery!Held(log)
  <2>1. PICK k \in Key : held[k] # NoEvent /\ x = [key |-> k, start |-> held[k]]
    BY DEF Lasting
  <2>2. PICK i \in DOMAIN log : Opened(log, i) /\ log[i].key = k /\ held[k] = log[i].id
    BY <2>1 DEF HeldBy
  <2> QED
    BY <2>1, <2>2 DEF Delivery!Held, Opened
<1> QED
  BY <1>2, <1>3

(* One event more: who is opened last among them.                          *)
LEMMA OpenedAppend ==
  ASSUME NEW log \in Seq(Event), NEW e \in Event
  PROVE  LET long == Append(log, e) IN
         /\ DOMAIN long = DOMAIN log \cup {Len(log) + 1}
         /\ \A i \in DOMAIN log : long[i] = log[i]
         /\ long[Len(log) + 1] = e
         /\ \A i \in DOMAIN log :
              Opened(long, i) <=> Opened(log, i) /\ (e.key = log[i].key => e.type \notin {"START", "RELEASE"})
         /\ Opened(long, Len(log) + 1) <=> e.type = "START"
<1> DEFINE long == Append(log, e)
<1>1. /\ long \in Seq(Event) /\ Len(long) = Len(log) + 1
      /\ DOMAIN log = 1 .. Len(log) /\ DOMAIN long = 1 .. Len(log) + 1
      /\ Len(log) \in Nat
      /\ \A i \in 1 .. Len(log) : long[i] = log[i]
      /\ long[Len(log) + 1] = e
  OBVIOUS
<1> HIDE DEF long
<1>2. ASSUME NEW i \in DOMAIN log
      PROVE  Opened(long, i) <=> Opened(log, i) /\ (e.key = log[i].key => e.type \notin {"START", "RELEASE"})
  <2>1. i + 1 .. Len(long) = (i + 1 .. Len(log)) \cup {Len(log) + 1}
    BY <1>1
  <2>2. \A j \in i + 1 .. Len(log) : long[j] = log[j]
    BY <1>1
  <2> QED
    BY <1>1, <2>1, <2>2 DEF Opened, Delivery!OpenedLast
<1>3. Opened(long, Len(log) + 1) <=> e.type = "START"
  BY <1>1 DEF Opened, Delivery!OpenedLast
<1> QED
  BY <1>1, <1>2, <1>3 DEF long

LEMMA TrackKeepsHeld ==
  ASSUME NEW log \in Seq(Event), NEW e \in Event, NEW held \in [Key -> 0 .. MaxEvents],
         HeldBy(log, held)
  PROVE  HeldBy(Append(log, e), Track(held, e))
<1> DEFINE long == Append(log, e)
           now == Track(held, e)
           n == Len(log) + 1
<1>1. /\ DOMAIN long = DOMAIN log \cup {n}
      /\ \A i \in DOMAIN log : long[i] = log[i]
      /\ long[n] = e
      /\ \A i \in DOMAIN log :
           Opened(long, i) <=> Opened(log, i) /\ (e.key = log[i].key => e.type \notin {"START", "RELEASE"})
      /\ Opened(long, n) <=> e.type = "START"
  BY OpenedAppend
<1>2. e.key \in Key /\ e.type \in TypesSent
  BY DEF Event
<1>3. /\ e.type = "START" => now = [held EXCEPT ![e.key] = e.id]
      /\ e.type = "RELEASE" => now = [held EXCEPT ![e.key] = NoEvent]
      /\ e.type \notin {"START", "RELEASE"} => now = held
  BY DEF Track
<1> HIDE DEF long, now, n
<1>4. ASSUME NEW k \in Key
      PROVE  \/ /\ now[k] = NoEvent
                /\ \A i \in DOMAIN long : Opened(long, i) => long[i].key # k
             \/ \E i \in DOMAIN long : Opened(long, i) /\ long[i].key = k /\ now[k] = long[i].id
  <2>1. CASE e.key = k /\ e.type = "START"
    BY <1>1, <1>3, <2>1
  <2>2. CASE e.key = k /\ e.type = "RELEASE"
    BY <1>1, <1>3, <2>2
  <2>3. CASE e.key # k \/ e.type \notin {"START", "RELEASE"}
    <3>1. now[k] = held[k]
      BY <1>2, <1>3, <2>3
    <3>2. \A i \in DOMAIN log : log[i].key = k => (Opened(long, i) <=> Opened(log, i))
      BY <1>1, <2>3
    <3>3. Opened(long, n) => long[n].key # k
      BY <1>1, <2>3
    <3> QED
      BY <1>1, <3>1, <3>2, <3>3 DEF HeldBy
  <2> QED
    BY <1>2, <2>1, <2>2, <2>3
<1> QED
  BY <1>4 DEF HeldBy, long, now

LEMMA OngoingInit == Init => OngoingInv
<1> SUFFICES ASSUME Init PROVE OngoingInv
  OBVIOUS
<1>1. delivered \o Scanned = <<>>
  BY DEF Init, Scanned
<1>2. HeldBy(<<>>, ongoing_events)
  BY DEF Init, HeldBy
<1> QED
  BY <1>1, <1>2 DEF Init, OngoingInv

(* The steps that neither show nor look at an event.                       *)
LEMMA OngoingQuiet ==
  ASSUME OngoingInv, delivered' = delivered, Scanned' = Scanned,
         UNCHANGED ongoing_events,
         \A t \in Threads : pc'[t] = "locked" => \E e \in Event : arg'[t] = <<e>>,
         phase' = "scan" => scan' <= Len(Fresh') + 1
  PROVE  OngoingInv'
BY DEF OngoingInv, HeldBy

LEMMA FreshTyped == TypeOK => Fresh \in Seq(Event) /\ storage[WriteBuffer].inserted \in Seq(Event)
BY BuffersDiffer DEF TypeOK, BufferContent, Fresh

LEMMA OngoingStep ==
  ASSUME DeliveryInv, OngoingInv, [Next]_vars
  PROVE  OngoingInv'
<1>0. TypeOK /\ TypeOK' /\ Fresh \in Seq(Event)
  BY TypeStep, FreshTyped DEF DeliveryInv
<1>1. ASSUME UNCHANGED <<storage, pc, arg, swapVars>>
      PROVE  OngoingInv'
  <2>1. Fresh' = Fresh /\ Scanned' = Scanned
    BY <1>1 DEF Fresh, Scanned, ReadBuffer, swapVars
  <2> QED
    BY <1>1, <2>1, OngoingQuiet DEF swapVars, OngoingInv
<1>2. ASSUME NEW t \in Threads, NEW e \in Event, InsertLock(t, e)
      PROVE  OngoingInv'
  <2>1. Fresh' = Fresh /\ Scanned' = Scanned
    BY <1>2 DEF InsertLock, Fresh, Scanned, ReadBuffer, swapVars
  <2>2. \A u \in Threads : pc'[u] = "locked" => \E d \in Event : arg'[u] = <<d>>
    BY <1>0, <1>2 DEF InsertLock, OngoingInv, TypeOK
  <2> QED
    BY <1>2, <2>1, <2>2, OngoingQuiet DEF InsertLock, swapVars, OngoingInv
<1>3. ASSUME NEW t \in Threads, InsertStore(t)
      PROVE  OngoingInv'
  <2>1. target[t] = WriteBuffer /\ ReadBuffer' = ReadBuffer
    BY <1>3 DEF InsertStore, DeliveryInv, InsertInv, ReadBuffer, swapVars
  <2>2. Fresh' = Fresh
    BY <1>0, <1>3, <2>1, BuffersDiffer DEF InsertStore, Fresh, TypeOK
  <2>3. Scanned' = Scanned
    BY <1>3, <2>2 DEF InsertStore, Scanned, swapVars
  <2>4. \A u \in Threads : pc'[u] = "locked" => \E d \in Event : arg'[u] = <<d>>
    BY <1>0, <1>3 DEF InsertStore, OngoingInv, TypeOK
  <2> QED
    BY <1>3, <2>2, <2>3, <2>4, OngoingQuiet DEF InsertStore, swapVars, OngoingInv
<1>4. CASE SwapClear \/ SwapLock
  <2>1. Scanned' = Scanned /\ phase' # "scan"
    BY <1>4 DEF SwapClear, SwapLock, Scanned
  <2> QED
    BY <1>4, <2>1, OngoingQuiet DEF SwapClear, SwapLock, OngoingInv
<1>5. CASE SwapFlip
  <2>1. Fresh' = storage[WriteBuffer].inserted /\ Fresh' \in Seq(Event)
    BY <1>0, <1>5, FreshTyped DEF SwapFlip, Fresh, ReadBuffer, WriteBuffer, TypeOK
  <2>2. Scanned = <<>> /\ phase' = "scan" /\ scan' = 1
    BY <1>5 DEF SwapFlip, Scanned
  <2>3. Scanned' = <<>>
    BY <2>1, <2>2 DEF Scanned
  <2> QED
    BY <1>5, <2>1, <2>2, <2>3, OngoingQuiet DEF SwapFlip, OngoingInv
<1>6. CASE ScanEvent
  <2> DEFINE e == Fresh[scan]
             before == SubSeq(Fresh, 1, scan - 1)
             log == delivered \o before
  <2>1. /\ phase = "scan" /\ phase' = "scan" /\ scan' = scan + 1
        /\ scan \in 1 .. Len(Fresh)
        /\ Fresh' = Fresh /\ delivered' = delivered
        /\ ongoing_events' = Track(ongoing_events, e)
    BY <1>0, <1>6 DEF ScanEvent, Fresh, ReadBuffer, TypeOK
  <2>2. e \in Event /\ before \in Seq(Event)
    BY <1>0, <2>1
  <2>3. SubSeq(Fresh, 1, scan) = Append(before, e)
    BY <1>0, <2>1
  <2>4. Scanned = before /\ Scanned' = Append(before, e)
    BY <1>0, <2>1, <2>3 DEF Scanned, TypeOK
  <2>5. delivered \in Seq(Event) /\ log \in Seq(Event)
    BY <1>0, <2>2 DEF TypeOK
  <2>6. delivered \o Append(before, e) = Append(log, e)
    <3> HIDE DEF before, e
    <3> QED
      BY <2>2, <2>5 DEF log
  <2>7. HeldBy(Append(log, e), Track(ongoing_events, e))
    <3>1. HeldBy(log, ongoing_events) /\ ongoing_events \in [Key -> 0 .. MaxEvents]
      BY <1>0, <2>4 DEF OngoingInv, TypeOK
    <3> HIDE DEF before, e, log
    <3> QED
      BY <2>2, <2>5, <3>1, TrackKeepsHeld
  <2>8. delivered' \o Scanned' = Append(log, e)
    BY <2>1, <2>4, <2>6
  <2>9. HeldBy(delivered \o Scanned, ongoing_events)'
    <3>1. HeldBy(delivered' \o Scanned', ongoing_events')
      BY <2>1, <2>7, <2>8
    <3> QED
      BY <3>1
  <2>10. UNCHANGED <<pc, arg>>
    BY <1>6 DEF ScanEvent
  <2> QED
    BY <1>0, <2>1, <2>9, <2>10 DEF OngoingInv
<1>7. CASE AppendOngoing
  <2>1. /\ phase = "scan" /\ phase' = "cycle" /\ scan = Len(Fresh) + 1
        /\ delivered' = delivered \o Fresh
        /\ UNCHANGED <<ongoing_events, pc, arg>>
    BY <1>7 DEF AppendOngoing, Fresh
  <2>2. Scanned = Fresh /\ Scanned' = <<>>
    BY <1>0, <2>1 DEF Scanned
  <2>3. delivered' \o Scanned' = delivered \o Scanned
    BY <1>0, <2>1, <2>2 DEF TypeOK
  <2>4. HeldBy(delivered \o Scanned, ongoing_events)'
    <3>1. HeldBy(delivered' \o Scanned', ongoing_events')
      BY <2>1, <2>3 DEF OngoingInv
    <3> QED
      BY <3>1
  <2> QED
    BY <2>1, <2>4 DEF OngoingInv
<1>8. ASSUME NEW name, ConstructOrUpdateSource(name) PROVE OngoingInv'
  BY <1>1, <1>8 DEF ConstructOrUpdateSource
<1>9. ASSUME NEW t \in Threads, NEW e \in Event, InsertRefused(t, e)
      PROVE  OngoingInv'
  BY <1>0, <1>9, <1>1 DEF InsertRefused, Construct
<1>10. CASE UNCHANGED vars
  BY <1>1, <1>10 DEF vars, swapVars
<1> QED
  BY <1>2, <1>3, <1>4, <1>5, <1>6, <1>7, <1>8, <1>9, <1>10 DEF Next, Insert, Swap
-----------------------------------------------------------------------------
(* The values of EventDelivery's variables, as the refinement maps them.   *)
Sealed == Len(delivered) + (IF phase = "scan" THEN Len(Fresh) ELSE 0)
Stage == CASE phase = "cycle" -> "shown"
           [] phase = "scan"  -> "sealed"
           [] OTHER           -> "retired"
Batch == IF phase = "cycle" THEN Fresh ELSE <<>>
Shown == IF phase = "cycle" THEN storage[ReadBuffer].lasting ELSE {}

LEMMA MappedVars ==
  Delivery!vars = <<accepted, Len(delivered), Sealed, Stage, Batch, Shown>>
BY DEF Delivery!vars, Sealed, Stage, Batch, Shown, Visible, Fresh

(* A step that changes none of them stutters.                              *)
LEMMA DeliveryStutter ==
  ASSUME UNCHANGED <<accepted, delivered, Sealed, Stage, Batch, Shown>>
  PROVE  UNCHANGED Delivery!vars
<1>1. Delivery!vars' = <<accepted', Len(delivered'), Sealed', Stage', Batch', Shown'>>
  BY DEF Delivery!vars, Sealed, Stage, Batch, Shown, Visible, Fresh
<1> QED
  BY <1>1, MappedVars

(* What is accepted falls into what was shown, what is looked at and what  *)
(* waits.                                                                  *)
LEMMA AcceptedParts ==
  ASSUME TypeOK, ExactlyOnce, phase = "scan"
  PROVE  /\ Sealed \in Nat /\ Sealed <= Len(accepted)
         /\ SubSeq(accepted, Len(delivered) + 1, Sealed) = Fresh
         /\ SubSeq(accepted, 1, Sealed) = delivered \o Fresh
<1> DEFINE w == storage[WriteBuffer].inserted
           d == delivered
           f == Fresh
<1>1. d \in Seq(Event) /\ f \in Seq(Event) /\ w \in Seq(Event)
  BY FreshTyped DEF TypeOK
<1>2. accepted = (d \o f) \o w /\ Sealed = Len(d) + Len(f)
  BY DEF ExactlyOnce, Fresh, Sealed
<1> HIDE DEF d, f, w
<1>3. /\ accepted \in Seq(Event) /\ Len(accepted) = Len(d) + Len(f) + Len(w)
      /\ \A i \in 1 .. Len(d) : accepted[i] = d[i]
      /\ \A i \in 1 .. Len(f) : accepted[Len(d) + i] = f[i]
      /\ Len(d) \in Nat /\ Len(f) \in Nat /\ Len(w) \in Nat
  BY <1>1, <1>2
<1>4. SubSeq(accepted, Len(d) + 1, Sealed) = f
  BY <1>1, <1>2, <1>3
<1>5. SubSeq(accepted, 1, Sealed) = d \o f
  <2>1. /\ d \o f \in Seq(Event) /\ Len(d \o f) = Sealed
        /\ \A i \in 1 .. Sealed : accepted[i] = (d \o f)[i]
    BY <1>1, <1>2, <1>3
  <2> DEFINE df == d \o f
  <2> HIDE DEF df
  <2>2. SubSeq(accepted, 1, Sealed) = df
    BY <1>2, <1>3, <2>1 DEF df
  <2> QED
    BY <2>2 DEF df
<1> QED
  BY <1>2, <1>3, <1>4, <1>5 DEF d, f

LEMMA DeliveryInitMapped == Init => Delivery!Init
<1> SUFFICES ASSUME Init PROVE Delivery!Init
  OBVIOUS
<1>1. storage[ReadBuffer].inserted = <<>> /\ storage[ReadBuffer].lasting = {}
  BY BuffersDiffer DEF Init, Empty
<1> QED
  BY <1>1 DEF Init, Delivery!Init, Visible

LEMMA DeliveryStepMapped ==
  ASSUME RefinementInv, [Next]_vars
  PROVE  [Delivery!Next]_(Delivery!vars)
<1> USE DEF Stage
<1>0. TypeOK /\ TypeOK' /\ DeliveryInv' /\ ExactlyOnce /\ ExactlyOnce' /\ Fresh \in Seq(Event)
  BY TypeStep, DeliveryStep, FreshTyped DEF RefinementInv, DeliveryInv
<1>1. ASSUME UNCHANGED <<storage, accepted, delivered, phase, current_read_storage_is_a>>
      PROVE  UNCHANGED Delivery!vars
  BY <1>1, DeliveryStutter DEF Sealed, Stage, Batch, Shown, Fresh, ReadBuffer
<1>2. ASSUME NEW t \in Threads, InsertStore(t) PROVE Delivery!Accept
  <2>1. target[t] = WriteBuffer /\ ReadBuffer' = ReadBuffer
    BY <1>2 DEF InsertStore, RefinementInv, DeliveryInv, InsertInv, ReadBuffer, swapVars
  <2>2. storage'[ReadBuffer] = storage[ReadBuffer]
    BY <1>0, <1>2, <2>1, BuffersDiffer DEF InsertStore, TypeOK
  <2>3. PICK e \in Event : arg[t] = <<e>>
    BY <1>2 DEF InsertStore, RefinementInv, OngoingInv
  <2>4. accepted' = Append(accepted, e)
    <3>1. accepted \in Seq(Event) /\ accepted' = accepted \o <<e>>
      BY <1>0, <1>2, <2>3 DEF InsertStore, TypeOK
    <3> QED
      BY <3>1
  <2>5. /\ phase' = phase /\ delivered' = delivered
        /\ \A f \in {"inserted", "lasting"} : storage'[ReadBuffer'][f] = storage[ReadBuffer][f]
    BY <1>2, <2>1, <2>2 DEF InsertStore, swapVars
  <2>6. Sealed' = Sealed /\ Stage' = Stage /\ Batch' = Batch /\ Shown' = Shown
    BY <2>5 DEF Sealed, Batch, Shown, Fresh
  <2>7. /\ (Len(delivered))' = Len(delivered) /\ Sealed' = Sealed /\ Stage' = Stage
        /\ Visible("inserted", <<>>)' = Visible("inserted", <<>>)
        /\ Visible("lasting", {})' = Visible("lasting", {})
    BY <2>5, <2>6 DEF Visible
  <2> QED
    BY <2>4, <2>7 DEF Delivery!Accept, Sealed, Fresh
<1>3. CASE SwapClear
  BY <1>3 DEF SwapClear, Delivery!Next, Delivery!Retire, Visible
<1>4. CASE SwapLock
  BY <1>4, DeliveryStutter DEF SwapLock, Sealed, Batch, Shown
<1>5. CASE SwapFlip
  <2>1. Len(accepted) = Len(delivered) + Len(Fresh')
    <3>1. Fresh' = storage[WriteBuffer].inserted /\ storage[ReadBuffer].inserted = <<>>
      BY <1>0, <1>5 DEF SwapFlip, Fresh, ReadBuffer, WriteBuffer, TypeOK, RefinementInv, DeliveryInv, SwapInv
    <3>2. accepted = delivered \o <<>> \o Fresh'
      BY <1>0, <1>5, <3>1 DEF SwapFlip, ExactlyOnce
    <3>3. delivered \in Seq(Event) /\ Fresh' \in Seq(Event)
      BY <1>0, <3>1, FreshTyped DEF TypeOK
    <3> QED
      BY <3>2, <3>3
  <2>2. phase = "flip" /\ phase' = "scan" /\ UNCHANGED <<accepted, delivered>>
    BY <1>5 DEF SwapFlip
  <2> QED
    BY <2>1, <2>2 DEF Delivery!Next, Delivery!Seal, Visible, Fresh
<1>6. CASE ScanEvent
  BY <1>6, <1>1 DEF ScanEvent
<1>7. CASE AppendOngoing
  <2>1. /\ phase = "scan" /\ phase' = "cycle" /\ scan = Len(Fresh) + 1
        /\ delivered' = delivered \o Fresh /\ accepted' = accepted
        /\ ReadBuffer' = ReadBuffer
        /\ storage' = [storage EXCEPT ![ReadBuffer] = [storage[ReadBuffer] EXCEPT !.lasting = Lasting(ongoing_events)]]
    BY <1>7 DEF AppendOngoing, Fresh, ReadBuffer
  <2>2. /\ storage'[ReadBuffer].inserted = Fresh
        /\ storage'[ReadBuffer].lasting = Lasting(ongoing_events)
    <3>1. ReadBuffer \in DOMAIN storage /\ storage[ReadBuffer] \in [inserted : Seq(Event), lasting : SUBSET Holding]
      BY <1>0, BuffersDiffer DEF TypeOK, BufferContent
    <3>2. storage'[ReadBuffer] = [storage[ReadBuffer] EXCEPT !.lasting = Lasting(ongoing_events)]
      BY <2>1, <3>1
    <3> QED
      BY <3>1, <3>2 DEF Fresh
  <2>3. Scanned = Fresh
    BY <1>0, <2>1 DEF Scanned
  <2>4. Len(delivered') = Sealed
    BY <1>0, <2>1 DEF Sealed, TypeOK
  <2>5. Delivery!Held(SubSeq(accepted, 1, Sealed)) = Lasting(ongoing_events)
    <3>1. /\ delivered \o Fresh \in Seq(Event)
          /\ HeldBy(delivered \o Fresh, ongoing_events)
          /\ ongoing_events \in [Key -> 0 .. MaxEvents]
      BY <1>0, <2>3 DEF TypeOK, RefinementInv, OngoingInv
    <3> QED
      BY <1>0, <2>1, <3>1, HeldIsLasting, AcceptedParts
  <2>6. SubSeq(accepted, Len(delivered) + 1, Sealed) = Fresh
    BY <1>0, <2>1, AcceptedParts
  <2>7. Delivery!Present
    <3>1. Sealed = Len(delivered) + Len(Fresh)
      BY <2>1 DEF Sealed
    <3> QED
      BY <2>1, <2>2, <2>4, <2>5, <2>6, <3>1 DEF Delivery!Present, Visible, Fresh
  <2> QED
    BY <2>7 DEF Delivery!Next
<1>8. ASSUME NEW name, ConstructOrUpdateSource(name) PROVE UNCHANGED Delivery!vars
  BY <1>1, <1>8 DEF ConstructOrUpdateSource, swapVars
<1>9. ASSUME NEW t \in Threads, NEW e \in Event, InsertRefused(t, e) \/ InsertLock(t, e)
      PROVE  UNCHANGED Delivery!vars
  BY <1>1, <1>9 DEF InsertRefused, InsertLock, swapVars
<1>10. CASE UNCHANGED vars
  BY <1>1, <1>10 DEF vars
<1> QED
  BY <1>2, <1>3, <1>4, <1>5, <1>6, <1>7, <1>8, <1>9, <1>10
  DEF Next, Insert, Swap, Delivery!Next

(* The storage keeps the promise of EventDelivery, for any number of       *)
(* threads and events: every accepted event is shown in one cycle and in   *)
(* order, and the ONGOING events of a cycle are the functions whose last   *)
(* START was not followed by a RELEASE (event_storage.cpp:34-120).         *)
THEOREM StorageImplementsDelivery == Spec => ImplementsDelivery
<1>1. Init => RefinementInv
  BY DeliveryInit, OngoingInit DEF RefinementInv
<1>2. RefinementInv /\ [Next]_vars => RefinementInv'
  BY DeliveryStep, OngoingStep DEF RefinementInv
<1>3. RefinementInv /\ [Next]_vars => [Delivery!Next]_(Delivery!vars)
  BY DeliveryStepMapped
<1> QED
  BY <1>1, <1>2, <1>3, DeliveryInitMapped, PTL DEF Spec, ImplementsDelivery, Delivery!Spec
=============================================================================
