--------------------------- MODULE UniverseOutput ---------------------------
(* The registry of DMX universes and the thread that sends them:           *)
(* io/universe_sender.cpp with the Art-Net handler, the FTDI dongles and   *)
(* the universe objects.  A client or a show defines and deletes universes *)
(* on one thread (the registrar), call by call and statement by statement; *)
(* the main thread pushes all of them once per cycle.  Nothing is locked.  *)
(*                                                                         *)
(* Objects are reference counted: the Art-Net nodes, the dongle map and    *)
(* the shows own them, a running call holds one, and active_universes      *)
(* refers to them weakly.                                                  *)
EXTENDS Integers, FiniteSets, SequencesExt

CONSTANTS
  Ids,          \* ids of universes
  Devices,      \* numbers of a universe on an Art-Net device
  SequenceSpan, \* values of a sequence number (256)
  MaxObjects,   \* bound: universe objects created
  MaxCalls      \* bound: calls of the registrar

ASSUME OutputAssumption ==
  /\ SequenceSpan \in Nat \ {0, 1} /\ {MaxObjects, MaxCalls} \subseteq Nat \ {0}

VARIABLES
  universes, \* every object created: id, kind, the packet's device, dummy
  nodes,     \* artnet_handler: id -> [device, sequence_number, ptr]
  dongle_map,
  held,      \* the objects in project_configuration::universes of the shows
  active_universes,
  call,      \* the registrar: [pc, id, candidate]
  calls,
  push,      \* the main thread in push_all_registered_universes:
             \* [pc, at, weak, ptr, housekeeping, torn]
  sent,      \* id -> what was sent last for its node or dongle
  crashed

registry == <<universes, nodes, dongle_map, held, active_universes>>
vars == <<registry, call, calls, push, sent, crashed>>

None == 0
Idle == [pc |-> "idle", id |-> None, candidate |-> None]
Waiting == [pc |-> "idle", at |-> 0, weak |-> None, ptr |-> None, housekeeping |-> FALSE, torn |-> FALSE]

Unsent == [at |-> 0, device |-> -1]
Drop(f, id) == [i \in DOMAIN f \ {id} |-> f[i]]
Put(f, id, v) == [i \in DOMAIN f \union {id} |-> IF i = id THEN v ELSE f[i]]

\* std::erase_if and std::remove_if: the entries that stay keep their order.
Without(list, gone) ==
  LET stays[n \in 0..Len(list)] ==
        IF n = 0 THEN <<>>
        ELSE IF list[n] \in gone THEN stays[n - 1] ELSE Append(stays[n - 1], list[n])
  IN stays[Len(list)]

Owned == {nodes[i].ptr : i \in DOMAIN nodes} \union {dongle_map[i] : i \in DOMAIN dongle_map}
Kept == Owned \union held \union {call.candidate}
Expired(u) == u \notin Kept \union {push.ptr}
Gone == {u \in ToSet(active_universes) : Expired(u)}
Named(id) == {u \in ToSet(active_universes) : universes[u].id = id}

\* The main thread may let go of the last reference to an object between
\* the registrar's look at its count and the use of the pointer.
LastRef == push.ptr # None /\ push.ptr \notin Kept

Init ==
  /\ universes = <<>> /\ nodes = <<>> /\ dongle_map = <<>> /\ held = {} /\ active_universes = <<>>
  /\ call = Idle /\ calls = 0
  /\ push = Waiting
  /\ sent = [i \in Ids |-> Unsent]
  /\ crashed = FALSE

Crash == crashed' = TRUE /\ UNCHANGED <<registry, call, calls, push, sent>>

-----------------------------------------------------------------------------
(* The registrar *)

Create(id, kind, device, dummy) ==
  /\ Len(universes) < MaxObjects
  /\ universes' = Append(universes, [id |-> id, kind |-> kind, device |-> device,
                                     dummy |-> dummy])

Begins == ~crashed /\ call.pc = "idle" /\ calls < MaxCalls /\ calls' = calls + 1

\* Mutant: the number of the old record is not carried over.
RegisterArtNetRestart(id, device, dummy) ==
  /\ Begins
  /\ \/ id \notin DOMAIN nodes /\ Create(id, "artnet", device, dummy)
     \/ id \in DOMAIN nodes /\ UNCHANGED universes
  /\ nodes' = Put(nodes, id, [device |-> device, sequence_number |-> 1,
                              ptr |-> IF id \in DOMAIN nodes THEN nodes[id].ptr ELSE Len(universes')])
  /\ call' = [pc |-> "drop dongle", id |-> id, candidate |-> nodes'[id].ptr]
  /\ UNCHANGED <<dongle_map, held, active_universes, push, sent, crashed>>

\* artnet_handler::get_or_create_universe.  A new address or device changes
\* the registry's record, not the packet of the universe.
RegisterArtNet(id, device, dummy) ==
  /\ Begins
  /\ \/ /\ id \notin DOMAIN nodes
        /\ Create(id, "artnet", device, dummy)
        /\ nodes' = Put(nodes, id, [device |-> device, sequence_number |-> 1,
                                    ptr |-> Len(universes')])
     \/ /\ id \in DOMAIN nodes
        /\ nodes' = [nodes EXCEPT ![id].device = device]
        /\ universes' = [universes EXCEPT ![nodes[id].ptr].dummy = dummy]
  /\ call' = [pc |-> "drop dongle", id |-> id, candidate |-> nodes'[id].ptr]
  /\ UNCHANGED <<dongle_map, held, active_universes, push, sent, crashed>>

DropDongle ==
  /\ ~crashed /\ call.pc = "drop dongle"
  /\ dongle_map' = Drop(dongle_map, call.id)
  /\ call' = [call EXCEPT !.pc = "check"]
  /\ UNCHANGED <<universes, nodes, held, active_universes, calls, push, sent, crashed>>

\* The dongle that is there is kept as it is.  The constructor may fail at
\* every step of opening the device: nothing has changed then.
RegisterFtdi(id, dummy) ==
  /\ Begins
  /\ \/ UNCHANGED <<universes, dongle_map, call>>
     \/ /\ id \notin DOMAIN dongle_map
        /\ Create(id, "ftdi", -1, dummy)
        /\ dongle_map' = Put(dongle_map, id, Len(universes'))
        /\ call' = [pc |-> "unlink node", id |-> id, candidate |-> Len(universes')]
  /\ UNCHANGED <<nodes, held, active_universes, push, sent, crashed>>

UnlinkNode ==
  /\ ~crashed /\ call.pc = "unlink node"
  /\ nodes' = Drop(nodes, call.id)
  /\ sent' = [sent EXCEPT ![call.id] = Unsent]
  /\ call' = [call EXCEPT !.pc = "check"]
  /\ UNCHANGED <<universes, dongle_map, held, active_universes, calls, push, crashed>>

Touch(list) ==
  /\ active_universes' = list
  /\ push' = [push EXCEPT !.torn = @ \/ push.pc # "idle"]

\* check_update_required_from_registration; a show keeps what it registers.
CheckUpdate ==
  /\ ~crashed /\ call.pc = "check"
  /\ LET same == SelectInSeq(active_universes,
                   LAMBDA u : ~Expired(u) /\ universes[u].id = call.id)
     IN IF same # 0
        THEN /\ active_universes' = [active_universes EXCEPT ![same] = call.candidate]
             /\ UNCHANGED push
        ELSE Touch(Append(active_universes, call.candidate))
  /\ held' \in {held, held \union {call.candidate}}
  /\ call' = Idle
  /\ UNCHANGED <<universes, nodes, dongle_map, calls, sent, crashed>>

Unregister(id) ==
  /\ Begins
  /\ nodes' = Drop(nodes, id)
  /\ dongle_map' = IF id \in DOMAIN nodes THEN dongle_map ELSE Drop(dongle_map, id)
  /\ sent' = [sent EXCEPT ![id] = Unsent]
  /\ call' = [pc |-> "erase", id |-> id, candidate |-> None]
  /\ UNCHANGED <<universes, held, active_universes, push, crashed>>

\* Mutant: only what has expired is erased.
EraseExpired ==
  /\ ~crashed /\ call.pc = "erase"
  /\ Touch(Without(active_universes, Gone))
  /\ call' = Idle
  /\ UNCHANGED <<universes, nodes, dongle_map, held, calls, sent, crashed>>

EraseActive ==
  /\ ~crashed /\ call.pc = "erase"
  /\ Touch(Without(active_universes, Gone \union Named(call.id)))
  /\ call' = Idle
  /\ UNCHANGED <<universes, nodes, dongle_map, held, calls, sent, crashed>>

\* A show that has been replaced is destroyed.
ReleaseShow ==
  /\ ~crashed /\ call.pc = "idle" /\ held # {}
  /\ held' = {}
  /\ UNCHANGED <<universes, nodes, dongle_map, active_universes, call, calls, push, sent, crashed>>

\* The registrar locks a pointer whose last owner has just gone.
RegistrarCrash == ~crashed /\ call.pc \in {"check", "erase"} /\ LastRef /\ Crash

-----------------------------------------------------------------------------
(* push_all_registered_universes on the main thread *)

StartPush ==
  /\ ~crashed /\ push.pc = "idle"
  /\ push' = [Waiting EXCEPT !.pc = "test", !.at = 1]
  /\ UNCHANGED <<registry, call, calls, sent, crashed>>

\* The vector was changed under the loop: it goes on anywhere in what it
\* takes for the vector, or crashes.
TornPush ==
  /\ ~crashed /\ push.pc = "test" /\ push.torn
  /\ \/ Crash
     \/ /\ \E i \in 1..(Len(active_universes) + 1) : push' = [push EXCEPT !.at = i, !.torn = FALSE]
        /\ UNCHANGED <<registry, call, calls, sent, crashed>>

TestCount ==
  /\ ~crashed /\ push.pc = "test" /\ ~push.torn /\ push.at <= Len(active_universes)
  /\ push' = IF Expired(active_universes[push.at])
             THEN [push EXCEPT !.at = @ + 1, !.housekeeping = TRUE]
             ELSE [push EXCEPT !.pc = "lock", !.weak = active_universes[push.at]]
  /\ UNCHANGED <<registry, call, calls, sent, crashed>>

\* lock() of a universe that has expired since yields a null pointer, which
\* publish_universe_update uses.
Lock ==
  /\ ~crashed /\ push.pc = "lock"
  /\ IF Expired(push.weak) THEN Crash
     ELSE /\ push' = [push EXCEPT !.pc = "send", !.weak = None, !.ptr = push.weak]
          /\ UNCHANGED <<registry, call, calls, sent, crashed>>

\* artnet_handler::push_universe: zero is skipped.
Following(n) == IF (n + 1) % SequenceSpan = 0 THEN 1 ELSE (n + 1) % SequenceSpan

PushUniverse(u) ==
  /\ nodes' = [nodes EXCEPT ![u.id].sequence_number = Following(@)]
  /\ sent' = [sent EXCEPT ![u.id] = [at |-> nodes'[u.id].sequence_number, device |-> u.device]]

\* ftdi_universe::send_data: one write of all the channels, without a number.
SendData(u) == sent' = [sent EXCEPT ![u.id] = Unsent] /\ UNCHANGED nodes

\* publish_universe_update.  The exception of an Art-Net universe without a
\* node is not caught on the main thread.
Publish ==
  /\ ~crashed /\ push.pc = "send"
  /\ LET u == universes[push.ptr]
     IN \/ ~u.dummy /\ u.kind = "artnet" /\ u.id \notin DOMAIN nodes /\ Crash
        \/ /\ \/ u.dummy /\ UNCHANGED <<nodes, sent>>
              \/ ~u.dummy /\ u.kind = "ftdi" /\ SendData(u)
              \/ ~u.dummy /\ u.kind = "artnet" /\ u.id \in DOMAIN nodes /\ PushUniverse(u)
           /\ push' = [push EXCEPT !.pc = "test", !.at = @ + 1, !.ptr = None]
           /\ UNCHANGED <<universes, dongle_map, held, active_universes, call, calls, crashed>>

\* Mutant: the test of the use count is inverted.
HouseKeepingInverted ==
  /\ ~crashed /\ push.pc = "test" /\ ~push.torn /\ push.at > Len(active_universes)
  /\ active_universes' = IF push.housekeeping
                         THEN Without(active_universes, ToSet(active_universes) \ Gone)
                         ELSE active_universes
  /\ push' = Waiting
  /\ UNCHANGED <<universes, nodes, dongle_map, held, call, calls, sent, crashed>>

\* The erase of the vector is taken as one step.
HouseKeeping ==
  /\ ~crashed /\ push.pc = "test" /\ ~push.torn /\ push.at > Len(active_universes)
  /\ active_universes' = IF push.housekeeping
                         THEN Without(active_universes, Gone)
                         ELSE active_universes
  /\ push' = Waiting
  /\ UNCHANGED <<universes, nodes, dongle_map, held, call, calls, sent, crashed>>

-----------------------------------------------------------------------------
Registrar ==
  \/ \E id \in Ids : \/ \E d \in Devices, dummy \in BOOLEAN : RegisterArtNet(id, d, dummy)
                     \/ \E dummy \in BOOLEAN : RegisterFtdi(id, dummy)
                     \/ Unregister(id)
  \/ DropDongle \/ UnlinkNode \/ CheckUpdate \/ EraseActive \/ ReleaseShow \/ RegistrarCrash
Main == StartPush \/ TornPush \/ TestCount \/ Lock \/ Publish \/ HouseKeeping
Next == Registrar \/ Main

\* Both threads go on; the main loop pushes in every cycle.
Fairness == /\ WF_vars(Main)
            /\ WF_call(DropDongle \/ UnlinkNode \/ CheckUpdate \/ EraseActive)
Spec == Init /\ [][Next]_vars /\ Fairness

-----------------------------------------------------------------------------
(* Values the variables can take. *)
TypeOK ==
  /\ universes \in Seq([id : Ids, kind : {"artnet", "ftdi"},
                        device : Devices \union {-1}, dummy : BOOLEAN])
  /\ DOMAIN nodes \subseteq Ids /\ DOMAIN dongle_map \subseteq Ids
  /\ \A i \in DOMAIN nodes : nodes[i] \in [device : Devices, sequence_number : 1..(SequenceSpan - 1),
                                           ptr : DOMAIN universes]
  /\ ToSet(active_universes) \subseteq DOMAIN universes
  /\ push.ptr \in {None} \union DOMAIN universes
  /\ sent \in [Ids -> [at : 0..(SequenceSpan - 1), device : Devices \union {-1}]]

(* Between two calls of the registrar an id names one universe only, the    *)
(* one that get_universe returns to the filters is the one that is sent,    *)
(* and it is sent once per cycle: every owned object is in active_universes *)
(* exactly once, and no id has an Art-Net node and a dongle.                *)
OnePerId ==
  call.pc = "idle" =>
    /\ DOMAIN nodes \intersect DOMAIN dongle_map = {}
    /\ \A u \in Owned : Cardinality({k \in DOMAIN active_universes :
                                       active_universes[k] = u}) = 1

(* push_universe throws for a universe without a node, and nobody catches   *)
(* it.  Only a call that is under way can cause that: between two calls     *)
(* every universe of the list that is still alive, a show may be holding it *)
(* after its id was deleted or given to a dongle, is the one registered.    *)
SendableAtRest ==
  call.pc = "idle" => \A u \in ToSet(active_universes) : Expired(u) \/ u \in Owned

(* Art-Net receivers drop packets whose sequence number does not advance,   *)
(* and take zero for "not sequenced": as long as an id keeps its node its   *)
(* packets are numbered one after the other, across every change of device  *)
(* and every call that comes in between.                                    *)
SequenceAdvances ==
  [][\A i \in Ids :
       sent'[i] # sent[i] /\ sent[i].at # 0 /\ sent'[i].at # 0
       => sent'[i].at = Following(sent[i].at)]_sent

Sending(i) == push.ptr # None /\ universes[push.ptr].id = i
Registered(i) == call.pc = "idle" /\ i \in DOMAIN nodes \union DOMAIN dongle_map

(* A universe that is registered and is not a dummy is sent again, unless   *)
(* it is deleted or changed, or a race has ended the process: the registrar *)
(* cannot keep the loop of the main thread from reaching it.                *)
KeepsSending ==
  \A i \in Ids : []<>(Sending(i) \/ ~Registered(i) \/ crashed)

(* Registration and housekeeping agree about the universes, whatever calls, *)
(* releases and cycles come in between (universe_sender.cpp:46-154).        *)
UniversesSound == TypeOK /\ OnePerId /\ SendableAtRest
=============================================================================
