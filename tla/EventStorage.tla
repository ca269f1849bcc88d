---------------------------- MODULE EventStorage ----------------------------
(***************************************************************************)
(* events/event_storage: two buffers of events, one being filled by every  *)
(* thread that calls insert_event and one being read by the filters of the *)
(* running scene; swap_buffers exchanges them once per main loop cycle.    *)
(* insert_event never waits: it gives up when the mutex is taken.          *)
(*                                                                         *)
(* The main thread swaps, runs the cycle and may insert during it (control *)
(* desk, Lua filters); Producers are the other inserting threads (libev    *)
(* thread for GUI messages, audio analysis threads).                       *)
(***************************************************************************)
EXTENDS Naturals, Sequences

CONSTANTS
  Producers,         \* threads other than Main that insert events
  Main,              \* the thread of perform_main_update
  Nobody,            \* value of mutex while it is free
  Names, NoName,     \* names of event sources; NoName stands for ""
  DeskSource,        \* name under which the control desk registers first
  SenderFunctions,   \* sender_function values of an event
  TypesSent,         \* event types the events have
  MaxSources,        \* bound: number of registered event sources
  MaxEvents          \* bound: number of events constructed

(* A client's message may carry any of them, ONGOING_EVENT and INVALID too. *)
EventType == {"START", "RELEASE", "SINGLE_TRIGGER", "ONGOING_EVENT", "INVALID"}

ASSUME EventStorageAssumption ==
  /\ TypesSent \subseteq EventType
  /\ Main \notin Producers
  /\ Nobody \notin Producers \cup {Main}
  /\ NoName \notin Names /\ DeskSource \in Names
  /\ MaxSources \in Nat /\ MaxEvents \in Nat

Threads == Producers \cup {Main}
Buffers == {"a", "b"}

(* event_sender_t: the registered source and one of its functions.  A      *)
(* client may name a sender that was never registered.                     *)
Key == [sender : 0 .. MaxSources, fn : SenderFunctions]

Event == [id : 1 .. MaxEvents, type : TypesSent, key : Key]

NoEvent == 0          \* no START holds this key

VARIABLES
  senders,              \* names of the registered sources, by sender id
  storage,              \* storage_a, storage_b: inserted events, ONGOING copies
  current_read_storage_is_a,
  mutex,                \* holder of storage_swap_mutex
  ongoing_events,       \* key -> id of the START it is held by, or NoEvent
  pc, arg, target,      \* insertion in progress: place, event, chosen buffer
  phase,                \* where the main thread is in its cycle
  scan,                 \* next event of the new read buffer to look at
  issued,               \* events constructed so far (next_event_id - 1)
  accepted,             \* history: events insert_event returned true for
  delivered             \* history: inserted events shown to a finished swap

vars == <<senders, storage, current_read_storage_is_a, mutex, ongoing_events,
          pc, arg, target, phase, scan, issued, accepted, delivered>>

swapVars == <<current_read_storage_is_a, ongoing_events, phase, scan, delivered>>

ReadBuffer == IF current_read_storage_is_a THEN "a" ELSE "b"
WriteBuffer == IF current_read_storage_is_a THEN "b" ELSE "a"

(* A buffer: the events inserted into it and, once swap_buffers has made   *)
(* it readable, the ONGOING copies appended (their order is left out).     *)
Holding == [key : Key, start : 1 .. MaxEvents]

BufferContent == [inserted : Seq(Event), lasting : SUBSET Holding]

Empty == [inserted |-> <<>>, lasting |-> {}]

Init ==
  /\ senders = <<DeskSource>>
  /\ storage = [b \in Buffers |-> Empty]
  /\ current_read_storage_is_a = FALSE
  /\ mutex = Nobody
  /\ ongoing_events = [k \in Key |-> NoEvent]
  /\ pc = [t \in Threads |-> "idle"]
  /\ arg = [t \in Threads |-> <<>>]
  /\ target = [t \in Threads |-> "a"]
  /\ phase = "cycle"
  /\ scan = 1
  /\ issued = 0
  /\ accepted = <<>>
  /\ delivered = <<>>
-----------------------------------------------------------------------------
(***************************************************************************)
(* Event sources.  They are never removed, so a sender id stays valid.     *)
(***************************************************************************)

(* find_source_by_name: the empty name finds nothing.                      *)
FindSource(name) == { i \in DOMAIN senders : name # NoName /\ senders[i] = name }

(* construct_or_update_event_source_from_message: update the source of     *)
(* that name, or create and register one.                                  *)
ConstructOrUpdateSource(name) ==
  /\ FindSource(name) = {}
  /\ Len(senders) < MaxSources
  /\ senders' = Append(senders, name)
  /\ UNCHANGED <<storage, mutex, pc, arg, target, issued, accepted, swapVars>>
-----------------------------------------------------------------------------
(***************************************************************************)
(* insert_event.                                                           *)
(***************************************************************************)

(* A thread constructs its next event; Main only does so inside its cycle. *)
Construct(t, e) ==
  /\ pc[t] = "idle"
  /\ t = Main => phase = "cycle"
  /\ issued < MaxEvents
  /\ e.id = issued + 1
  /\ issued' = issued + 1

(* sender < senders.size(), the id coming from the client unchecked.       *)
KnownSender(e) == e.key.sender < Len(senders)

(* insert_event returns false: unknown sender, or the mutex is taken.      *)
InsertRefused(t, e) ==
  /\ Construct(t, e)
  /\ ~KnownSender(e) \/ mutex # Nobody
  /\ UNCHANGED <<senders, storage, mutex, pc, arg, target, accepted, swapVars>>

(* try_lock succeeds; the buffer to fill is chosen under the lock.         *)
InsertLock(t, e) ==
  /\ Construct(t, e)
  /\ KnownSender(e)
  /\ mutex = Nobody
  /\ mutex' = t
  /\ pc' = [pc EXCEPT ![t] = "locked"]
  /\ arg' = [arg EXCEPT ![t] = <<e>>]
  /\ target' = [target EXCEPT ![t] = WriteBuffer]
  /\ UNCHANGED <<senders, storage, accepted, swapVars>>

(* Mutant: the mutex is not released.                                      *)
InsertStoreNoUnlock(t) ==
  /\ pc[t] = "locked"
  /\ storage' = [storage EXCEPT ![target[t]].inserted = @ \o arg[t]]
  /\ pc' = [pc EXCEPT ![t] = "idle"]
  /\ arg' = [arg EXCEPT ![t] = <<>>]
  /\ accepted' = accepted \o arg[t]
  /\ UNCHANGED <<senders, mutex, target, issued, swapVars>>

(* emplace_back, unlock, return true.                                      *)
InsertStore(t) ==
  /\ pc[t] = "locked"
  /\ storage' = [storage EXCEPT ![target[t]].inserted = @ \o arg[t]]
  /\ mutex' = Nobody
  /\ pc' = [pc EXCEPT ![t] = "idle"]
  /\ arg' = [arg EXCEPT ![t] = <<>>]
  /\ accepted' = accepted \o arg[t]
  /\ UNCHANGED <<senders, target, issued, swapVars>>
-----------------------------------------------------------------------------
(***************************************************************************)
(* swap_buffers, by the main thread between two cycles.                    *)
(***************************************************************************)

SwapClear ==
  /\ phase = "cycle"
  /\ pc[Main] = "idle"
  /\ storage' = [storage EXCEPT ![ReadBuffer] = Empty]
  /\ phase' = "lock"
  /\ UNCHANGED <<senders, current_read_storage_is_a, mutex, ongoing_events, pc,
                 arg, target, scan, issued, accepted, delivered>>

(* Mutant: the buffers are exchanged without waiting for the mutex.        *)
SwapLockUnguarded ==
  /\ phase = "lock"
  /\ phase' = "flip"
  /\ UNCHANGED <<senders, storage, current_read_storage_is_a, mutex,
                 ongoing_events, pc, arg, target, scan, issued, accepted,
                 delivered>>

SwapLock ==
  /\ phase = "lock"
  /\ mutex = Nobody
  /\ mutex' = Main
  /\ phase' = "flip"
  /\ UNCHANGED <<senders, storage, current_read_storage_is_a, ongoing_events, pc,
                 arg, target, scan, issued, accepted, delivered>>

SwapFlip ==
  /\ phase = "flip"
  /\ current_read_storage_is_a' = ~current_read_storage_is_a
  /\ mutex' = Nobody
  /\ phase' = "scan"
  /\ scan' = 1
  /\ UNCHANGED <<senders, storage, ongoing_events, pc, arg, target, issued,
                 accepted, delivered>>

(* Mutant: a RELEASE is ignored.                                           *)
TrackNoRelease(held, e) ==
  IF e.type = "START" THEN [held EXCEPT ![e.key] = e.id] ELSE held

(* What one event does to the map of ongoing events.                       *)
Track(held, e) ==
  CASE e.type = "START"   -> [held EXCEPT ![e.key] = e.id]
    [] e.type = "RELEASE" -> [held EXCEPT ![e.key] = NoEvent]
    [] OTHER              -> held

(* One iteration of the loop over the new read buffer.                     *)
ScanEvent ==
  /\ phase = "scan"
  /\ scan <= Len(storage[ReadBuffer].inserted)
  /\ ongoing_events' = Track(ongoing_events, storage[ReadBuffer].inserted[scan])
  /\ scan' = scan + 1
  /\ UNCHANGED <<senders, storage, current_read_storage_is_a, mutex, pc, arg,
                 target, phase, issued, accepted, delivered>>

Lasting(held) ==
  { [key |-> k, start |-> held[k]] : k \in { k \in Key : held[k] # NoEvent } }

(* Append a copy of every ongoing event; the next cycle may begin.         *)
AppendOngoing ==
  /\ phase = "scan"
  /\ scan = Len(storage[ReadBuffer].inserted) + 1
  /\ storage' = [storage EXCEPT ![ReadBuffer].lasting = Lasting(ongoing_events)]
  /\ delivered' = delivered \o storage[ReadBuffer].inserted
  /\ phase' = "cycle"
  /\ UNCHANGED <<senders, current_read_storage_is_a, mutex, ongoing_events, pc,
                 arg, target, scan, issued, accepted>>
-----------------------------------------------------------------------------
Insert(t) == \E e \in Event : InsertRefused(t, e) \/ InsertLock(t, e)

Swap == SwapClear \/ SwapLock \/ SwapFlip \/ ScanEvent \/ AppendOngoing

Next ==
  \/ \E name \in Names \cup {NoName} : ConstructOrUpdateSource(name)
  \/ \E t \in Threads : Insert(t) \/ InsertStore(t)
  \/ Swap

(* A thread inside insert_event goes on, the main loop runs its cycles.    *)
(* SwapLock waits for a mutex that inserters keep taking: std::mutex makes *)
(* no promise, but their critical section is a few instructions and they   *)
(* do not loop on it, so it is assumed to be obtained eventually.          *)
Fairness ==
  /\ \A t \in Threads : WF_vars(InsertStore(t))
  /\ WF_vars(SwapClear) /\ SF_vars(SwapLock) /\ WF_vars(SwapFlip)
  /\ WF_vars(ScanEvent) /\ WF_vars(AppendOngoing)

Spec == Init /\ [][Next]_vars /\ Fairness
-----------------------------------------------------------------------------
TypeOK ==
  /\ senders \in Seq(Names \cup {NoName})
  /\ storage \in [Buffers -> BufferContent]
  /\ current_read_storage_is_a \in BOOLEAN
  /\ mutex \in Threads \cup {Nobody}
  /\ ongoing_events \in [Key -> 0 .. MaxEvents]
  /\ pc \in [Threads -> {"idle", "locked"}]
  /\ arg \in [Threads -> Seq(Event)]
  /\ target \in [Threads -> Buffers]
  /\ phase \in {"cycle", "lock", "flip", "scan"}
  /\ scan \in Nat \ {0}
  /\ issued \in 0 .. MaxEvents
  /\ accepted \in Seq(Event)
  /\ delivered \in Seq(Event)

(* Every event insert_event returned true for is, exactly once and in its  *)
(* order, in one of three places: shown to an earlier or the current       *)
(* cycle, in the new read buffer being scanned, or waiting in the write    *)
(* buffer.  Nothing is lost, doubled or reordered by a swap that meets an  *)
(* insertion half done (event_storage.cpp:34-94).                          *)
ExactlyOnce ==
  accepted = delivered \o (IF phase = "scan" THEN storage[ReadBuffer].inserted
                                             ELSE <<>>)
                       \o storage[WriteBuffer].inserted

(* What filters may read: the current buffer during the cycle.             *)
Visible(field, none) ==
  IF phase = "cycle" THEN storage[ReadBuffer][field] ELSE none

Delivery == INSTANCE EventDelivery WITH
  presented <- Len(delivered),
  sealed <- Len(delivered) + (IF phase = "scan"
                                THEN Len(storage[ReadBuffer].inserted) ELSE 0),
  stage <- CASE phase = "cycle" -> "shown"
             [] phase = "scan"  -> "sealed"
             [] OTHER           -> "retired",
  batch <- Visible("inserted", <<>>),
  lasting <- Visible("lasting", {})

(* The storage implements EventDelivery: batches are shown once, in order, *)
(* and the ONGOING copies swap_buffers appends for a cycle are exactly the  *)
(* functions whose last START among all delivered events was not followed  *)
(* by a RELEASE.  An event inserted as ONGOING is shown once, as any other.*)
ImplementsDelivery == Delivery!Spec

(* An accepted event is shown to the filters eventually: no insertion can  *)
(* make swap_buffers wait forever or slip into a buffer that is dropped.   *)
AcceptedIsShown ==
  \A n \in 1 .. MaxEvents : Len(accepted) >= n ~> Len(delivered) >= n
=============================================================================
