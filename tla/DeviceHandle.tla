----------------------------- MODULE DeviceHandle -----------------------------
(* The connection to one MIDI device of the control desk:                   *)
(* control_desk/device_handle.cpp and .hpp, with the encodings of           *)
(* command.hpp.  The main thread and the io thread both compose commands    *)
(* and schedule their transmission; the event loop on the io thread writes  *)
(* them as far as the driver takes them and decodes what the device sends.  *)
(*                                                                          *)
(* A byte is known by the message it belongs to and its place in it.  Every *)
(* access to a buffer or a queue is one step; what two accesses do that     *)
(* overlap is not modelled.  The queues of the network library drop a       *)
(* record of which nothing is left.                                         *)
EXTENDS Integers, FiniteSets, SequencesExt

CONSTANTS
  DeskThreads, \* threads that compose commands
  Room,        \* bytes the driver takes before the device has taken some
  ReadSize,    \* bytes that one read returns at most (48)
  Budgets      \* bounds: [event, sysex, reports], commands composed and
               \* messages of the device; one of them in each behaviour

ASSUME HandleAssumption ==
  /\ {Room, ReadSize} \subseteq Nat \ {0} /\ Budgets \subseteq [event : Nat, sysex : Nat, reports : Nat]

VARIABLES
  construction, \* event_construction and sysex_construction
  queues,       \* event_queue and sysex_queue: records, what is left of each
  scheduling,   \* thread -> place in schedule_transmission
  io,           \* the event loop: place in cb_io_handler, watched flags, async
  input,        \* [line, in_construction, incomming_queue]
  failure,      \* "no", "error" (in_error_state), "popped" (an empty deque)
  driver,       \* bytes the driver can take
  budget,       \* the bounds of this behaviour
  told          \* history: [sent, written, overlap, reported, received]

handleVars == <<construction, queues, scheduling, io, input, failure, driver, budget, told>>

Kinds == {"event", "sysex"}

\* midi_command::encode and sysex_command::encode: a status byte, two bytes
\* of data; a status byte, data, and a byte that ends it.
Encode(kind, n) == [k \in 1..(IF kind = "event" THEN 3 ELSE 4) |-> [kind |-> kind, n |-> n, at |-> k]]
Status(byte) == byte.at = 1 \/ (byte.kind = "sysex" /\ byte.at = 4)

HandleInit ==
  /\ construction = [k \in Kinds |-> <<>>] /\ queues = [k \in Kinds |-> <<>>]
  /\ scheduling = [t \in DeskThreads |-> "idle"]
  /\ io = [pc |-> "idle", flags |-> {}, async |-> FALSE]
  /\ input = [line |-> <<>>, in_construction |-> <<>>, incomming_queue |-> <<>>]
  /\ failure = "no" /\ driver = Room /\ budget \in Budgets
  /\ told = [sent |-> [k \in Kinds |-> 0], written |-> <<>>, overlap |-> FALSE,
             reported |-> <<>>, received |-> <<>>]

-----------------------------------------------------------------------------
(* Composing and scheduling, on any thread *)

Others(t) == {u \in DeskThreads \ {t} : scheduling[u] # "idle"}
Overlapping(t) == told.overlap \/ Others(t) # {}

\* send_command and send_sysex_command
SendCommand(t, kind) ==
  /\ scheduling[t] = "idle" /\ failure # "popped"
  /\ told.sent[kind] < budget[kind]
  /\ construction' = [construction EXCEPT ![kind] = @ \o Encode(kind, told.sent[kind] + 1)]
  /\ told' = [told EXCEPT !.sent[kind] = @ + 1, !.overlap = Overlapping(t)]
  /\ UNCHANGED <<queues, scheduling, io, input, failure, driver, budget>>

Schedule(t) ==
  /\ scheduling[t] = "idle" /\ failure # "popped"
  /\ \/ /\ failure = "error"
        /\ construction' = [k \in Kinds |-> <<>>] /\ UNCHANGED <<scheduling, told>>
     \/ /\ failure = "no" /\ \E k \in Kinds : construction[k] # <<>>
        /\ scheduling' = [scheduling EXCEPT ![t] = "copy event"]
        /\ told' = [told EXCEPT !.overlap = Overlapping(t)] /\ UNCHANGED construction
  /\ UNCHANGED <<queues, io, input, failure, driver, budget>>

\* One buffer is copied to a record, then cleared.
CopyOf(kind) == IF kind = "event" THEN "copy event" ELSE "copy sysex"
ClearOf(kind) == IF kind = "event" THEN "clear event" ELSE "clear sysex"
AfterBuffer(kind) == IF kind = "event" THEN "copy sysex" ELSE "wake"

CopyBuffer(t, kind) ==
  /\ scheduling[t] = CopyOf(kind) /\ failure # "popped"
  /\ \/ /\ construction[kind] # <<>>
        /\ queues' = [queues EXCEPT ![kind] = Append(@, construction[kind])]
        /\ scheduling' = [scheduling EXCEPT ![t] = ClearOf(kind)]
     \/ /\ construction[kind] = <<>>
        /\ scheduling' = [scheduling EXCEPT ![t] = AfterBuffer(kind)] /\ UNCHANGED queues
  /\ UNCHANGED <<construction, io, input, failure, driver, told, budget>>

ClearBuffer(t, kind) ==
  /\ scheduling[t] = ClearOf(kind) /\ failure # "popped"
  /\ construction' = [construction EXCEPT ![kind] = <<>>]
  /\ scheduling' = [scheduling EXCEPT ![t] = AfterBuffer(kind)]
  /\ UNCHANGED <<queues, io, input, failure, driver, told, budget>>

\* async.send
Wake(t) ==
  /\ scheduling[t] = "wake" /\ failure # "popped"
  /\ io' = [io EXCEPT !.async = TRUE]
  /\ scheduling' = [scheduling EXCEPT ![t] = "idle"]
  /\ UNCHANGED <<construction, queues, input, failure, driver, told, budget>>

-----------------------------------------------------------------------------
(* The event loop *)

Flags(q) == IF failure # "no" THEN {}
            ELSE {"READ"} \union {f \in {"WRITE"} : \E k \in Kinds : q[k] # <<>>}

\* Mutant: the flags are left as they are.
AsyncScheduleDeaf ==
  /\ io.pc = "idle" /\ io.async /\ failure # "popped"
  /\ io' = [io EXCEPT !.async = FALSE]
  /\ UNCHANGED <<construction, queues, scheduling, input, failure, driver, budget, told>>

\* cb_async_schedule
AsyncSchedule ==
  /\ io.pc = "idle" /\ io.async /\ failure # "popped"
  /\ io' = [io EXCEPT !.async = FALSE, !.flags = Flags(queues)]
  /\ UNCHANGED <<construction, queues, scheduling, input, failure, driver, told, budget>>

Min2(a, b) == IF a < b THEN a ELSE b

\* The statuses among the bytes from place p on, and the first of them.
Statuses(bytes, p) == {i \in p..Len(bytes) : Status(bytes[i])}
FirstStatus(bytes, p) == CHOOSE i \in Statuses(bytes, p) : \A j \in Statuses(bytes, p) : i <= j

\* decode_incomming_event as long as it decodes something, with n bytes to go:
\* data in front of a status byte is skipped, also when there is none, and
\* after the status byte of a sysex message its data stay.  A command is
\* known by its status byte.
Decoded(bytes) ==
  LET end == Len(bytes)
      toGo[n \in 0..end] ==
        LET s == FirstStatus(bytes, end - n + 1)
            sysex == bytes[s].kind = "sysex"
            rest == toGo[end - s - (IF sysex THEN 0 ELSE 2)]
        IN IF n = 0 THEN [left |-> <<>>, commands |-> <<>>, popped |-> FALSE]
           ELSE IF Statuses(bytes, end - n + 1) = {}
           THEN [left |-> <<>>, commands |-> <<>>, popped |-> TRUE]
           ELSE IF end - s < 2 THEN [left |-> SubSeq(bytes, s, end), commands |-> <<>>, popped |-> FALSE]
           ELSE [rest EXCEPT !.commands = IF sysex THEN @ ELSE <<bytes[s]>> \o @]
  IN toGo[end]

\* The first part of cb_io_handler: what can be read is read and decoded.
ReadDevice ==
  /\ io.pc = "idle" /\ failure = "no" /\ "READ" \in io.flags /\ input.line # <<>>
  /\ LET n == Min2(Len(input.line), ReadSize)
         decoded == Decoded(input.in_construction \o SubSeq(input.line, 1, n))
     IN /\ input' = [line |-> SubSeq(input.line, n + 1, Len(input.line)),
                     in_construction |-> decoded.left,
                     incomming_queue |-> input.incomming_queue \o decoded.commands]
        /\ failure' = IF decoded.popped THEN "popped" ELSE failure
  /\ io' = IF "WRITE" \in io.flags /\ driver > 0 THEN [io EXCEPT !.pc = "event"]
           ELSE [io EXCEPT !.flags = Flags(queues)]
  /\ UNCHANGED <<construction, queues, scheduling, driver, told, budget>>

\* Nothing to read: the handler is called for writing.
WriteReady ==
  /\ io.pc = "idle" /\ failure = "no" /\ "WRITE" \in io.flags /\ driver > 0 /\ input.line = <<>>
  /\ io' = [io EXCEPT !.pc = "event"]
  /\ UNCHANGED <<construction, queues, scheduling, input, failure, driver, told, budget>>

\* One turn of a loop: a record is taken, written in part, what is left of it
\* goes back to the front.
Write(kind) ==
  /\ io.pc = kind /\ failure = "no" /\ queues[kind] # <<>> /\ driver > 0
  /\ \E n \in 1..Min2(driver, Len(Head(queues[kind]))) :
       LET rest == SubSeq(Head(queues[kind]), n + 1, Len(Head(queues[kind])))
       IN /\ queues' = [queues EXCEPT ![kind] = IF rest = <<>> THEN Tail(@) ELSE <<rest>> \o Tail(@)]
          /\ told' = [told EXCEPT !.written = @ \o SubSeq(Head(queues[kind]), 1, n)]
          /\ driver' = driver - n
  /\ UNCHANGED <<construction, scheduling, io, input, failure, budget>>

\* Mutant: the second loop runs though the driver has refused the first.
WriteEndsEager(kind) ==
  /\ io.pc = kind /\ failure = "no" /\ (queues[kind] = <<>> \/ driver = 0)
  /\ io' = IF kind = "event" THEN [io EXCEPT !.pc = "sysex"]
           ELSE [io EXCEPT !.pc = "idle", !.flags = Flags(queues)]
  /\ UNCHANGED <<construction, queues, scheduling, input, failure, driver, told, budget>>

\* A loop ends with its queue or with EAGAIN; then the second is left out.
WriteEnds(kind) ==
  /\ io.pc = kind /\ failure = "no" /\ (queues[kind] = <<>> \/ driver = 0)
  /\ io' = IF kind = "event" /\ queues[kind] = <<>> THEN [io EXCEPT !.pc = "sysex"]
           ELSE [io EXCEPT !.pc = "idle", !.flags = Flags(queues)]
  /\ UNCHANGED <<construction, queues, scheduling, input, failure, driver, told, budget>>

\* An error of the file or of a write: nothing is watched from then on.
Fail ==
  /\ failure = "no" /\ io.flags # {}
  /\ failure' = "error"
  /\ io' = [io EXCEPT !.pc = "idle"]
  /\ UNCHANGED <<construction, queues, scheduling, input, driver, told, budget>>

-----------------------------------------------------------------------------
(* The desk takes commands; the device takes and sends bytes *)

\* get_next_command_from_desk
NextCommand ==
  /\ failure # "popped" /\ input.incomming_queue # <<>>
  /\ told' = [told EXCEPT !.received = Append(@, Head(input.incomming_queue))]
  /\ input' = [input EXCEPT !.incomming_queue = Tail(@)]
  /\ UNCHANGED <<construction, queues, scheduling, io, failure, driver, budget>>

Drain ==
  /\ driver < Room /\ driver' = driver + 1
  /\ UNCHANGED <<construction, queues, scheduling, io, input, failure, told, budget>>

Report(kind) ==
  /\ Len(told.reported) < budget.reports
  /\ LET n == Len(told.reported) + 1
     IN /\ told' = [told EXCEPT !.reported = Append(@, Encode(kind, n)[1])]
        /\ input' = [input EXCEPT !.line = @ \o Encode(kind, n)]
  /\ UNCHANGED <<construction, queues, scheduling, io, failure, driver, budget>>

-----------------------------------------------------------------------------
Buffers == \E t \in DeskThreads :
  Schedule(t) \/ Wake(t) \/ \E k \in Kinds : CopyBuffer(t, k) \/ ClearBuffer(t, k)
EventLoop == AsyncSchedule \/ ReadDevice \/ WriteReady \/ \E k \in Kinds : Write(k) \/ WriteEnds(k)
HandleNext ==
  \/ \E t \in DeskThreads, k \in Kinds : SendCommand(t, k)
  \/ Buffers \/ EventLoop \/ Fail \/ NextCommand \/ Drain \/ \E k \in Kinds : Report(k)

\* The threads and the event loop go on, the device takes what it is sent.
HandleFairness ==
  /\ \A t \in DeskThreads : WF_handleVars(Wake(t) \/ \E k \in Kinds : CopyBuffer(t, k) \/ ClearBuffer(t, k))
  /\ WF_handleVars(AsyncSchedule) /\ WF_handleVars(ReadDevice \/ WriteReady)
  /\ WF_handleVars(\E k \in Kinds : Write(k) \/ WriteEnds(k)) /\ WF_handleVars(Drain)
HandleSpec == HandleInit /\ [][HandleNext]_handleVars /\ HandleFairness

-----------------------------------------------------------------------------
DeviceByte(kind) == [kind : {kind}, n : Nat, at : 1..4]
Command == [kind : {"event"}, n : Nat, at : {1}]

\* The members of S in a sequence, in their order.
Within(s, S) ==
  LET upTo[n \in 0..Len(s)] ==
        IF n = 0 THEN <<>> ELSE IF s[n] \in S THEN Append(upTo[n - 1], s[n]) ELSE upTo[n - 1]
  IN upTo[Len(s)]

Bytes(kind) == Within(told.written, DeviceByte(kind))
Left(kind) == FlattenSeq(queues[kind])
UpTo(kind, n) == FlattenSeq([i \in 1..n |-> Encode(kind, i)])

(* The device gets a channel command in one piece, however short the writes  *)
(* are and whatever is queued meanwhile: nothing comes between its bytes.   *)
CommandsWhole ==
  \A i \in DOMAIN told.written : LET b == told.written[i] IN
    b.kind = "event" /\ b.at > 1 => told.written[i - 1] = [b EXCEPT !.at = @ - 1]

(* As long as no thread has used the buffers while another one was between   *)
(* copying and clearing them, what was written, what is queued and what is  *)
(* being composed are all commands sent, once each and in order.            *)
NothingLost ==
  /\ ~told.overlap /\ failure = "no"
  /\ \A t \in DeskThreads : scheduling[t] \notin {"clear event", "clear sysex"}
  => \A k \in Kinds : Bytes(k) \o Left(k) \o construction[k] = UpTo(k, told.sent[k])

(* However the reads cut the bytes of the device, and whether or not it      *)
(* sends sysex messages, the desk is given its channel commands in order.   *)
ReportsInOrder ==
  failure # "popped" =>
    IsPrefix(told.received \o input.incomming_queue, Within(told.reported, Command))

(* What is sent to the device and comes from it keeps its order              *)
(* (device_handle.cpp:32-136).                                              *)
HandleSound == CommandsWhole /\ NothingLost /\ ReportsInOrder

(* What is queued is written unless the device has failed: no queue is left  *)
(* without the event loop watching for room (set_io_flags).                 *)
QueuedIsWritten == []<>((\A k \in Kinds : queues[k] = <<>>) \/ failure # "no")
=============================================================================
