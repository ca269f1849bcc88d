---------------------------- MODULE ClientStream ----------------------------
(* One connection of a client as the io thread sees it: the bytes of the   *)
(* stream arrive in records of any size (client_input_buffer), a state     *)
(* machine cuts them into messages (client_handler), and the handler of a  *)
(* message (IOManager::parse_message_cb) reads its payload through the     *)
(* same buffer.  An exception of a handler ends the event loop, which is   *)
(* started again once (IOManager::run).                                    *)
(*                                                                         *)
(* A byte is a number below 2 * Base, and one of at least Base says that   *)
(* more bytes of the same number follow: Base is 128 in the code.          *)
EXTENDS Integers, FiniteSets, SequencesExt

CONSTANTS
  Base,        \* values of a byte without its continuation bit
  VarintLimit, \* bytes a number may take (5)
  Messages,    \* what a client may send: [type, payload]
  Unruly,      \* types that are unknown, or whose handler may refuse a payload or throw
  MaxMessages, \* bound: messages sent
  MaxRecord    \* bound: bytes received at once

VARIABLES
  sent,       \* messages the client has sent
  wire,       \* bytes under way
  buf,        \* client_input_buffer
  multiplier, \* read_var_int_multiplier
  internal_state, msg_type, msg_length,
  task,       \* what the io thread does: "idle", "framing" or "parsing"
  payload,    \* what the running handler has read
  handled,    \* what the handlers were given
  crashes,    \* exceptions that have left the event loop
  ghosts, framing \* history, see MessageStream

handlerVars == <<internal_state, msg_type, msg_length>>
history == <<ghosts, framing>>
vars == <<sent, wire, buf, multiplier, handlerVars, task, payload, handled,
          crashes, history>>

-----------------------------------------------------------------------------
(* client_output_buffer and client_handler::write_message *)

Varint[n \in Nat] ==
  IF n < Base THEN <<n>> ELSE <<Base + (n % Base)>> \o Varint[n \div Base]

Power[k \in Nat] == IF k = 0 THEN 1 ELSE Base * Power[k - 1]

\* The logarithm of n + 1 to the base Base, rounded up.
LengthOfVarint(n) ==
  IF n = 0 THEN 1 ELSE CHOOSE k \in 1..n : Power[k] >= n + 1 /\ Power[k - 1] < n + 1

\* The buffer is allocated first: what does not fit is not sent at all, and
\* what is left of it is sent as zeros.
WriteMessage(m) ==
  LET bytes == Varint[m.type] \o Varint[Len(m.payload)] \o m.payload
      room == LengthOfVarint(m.type) + LengthOfVarint(Len(m.payload)) + Len(m.payload)
  IN IF Len(bytes) > room THEN <<>>
     ELSE bytes \o [i \in 1..(room - Len(bytes)) |-> 0]

Byte == 0 .. 2 * Base - 1

\* What does not fit into VarintLimit bytes cannot be told to the other side.
ASSUME FramingAssumption ==
  /\ Base \in Nat \ {0, 1} /\ VarintLimit \in Nat \ {0}
  /\ {MaxMessages, MaxRecord} \subseteq Nat \ {0}
  /\ Messages \subseteq [type : Nat, payload : Seq(Byte)]
  /\ \A m \in Messages : \A n \in {m.type, Len(m.payload)} : Len(Varint[n]) <= VarintLimit

-----------------------------------------------------------------------------
(* client_input_buffer *)

EmptyBuffer == [records |-> <<>>, record |-> <<>>, offset |-> 0,
                limit |-> VarintLimit, streamsize |-> 0]

AppendData(b, data) == [b EXCEPT !.records = Append(@, data), !.streamsize = @ + Len(data)]
UpdateLimit(b, n) == [b EXCEPT !.limit = n]

HasNext(b) ==
  /\ b.limit > 0 /\ b.streamsize > 0
  /\ b.offset < Len(b.record) \/ b.records # <<>>

\* The record Next reads from: another one when the last is used up.
Fetched(b) ==
  IF b.offset < Len(b.record) THEN b
  ELSE [b EXCEPT !.record = Head(b.records), !.records = Tail(b.records), !.offset = 0]

ChunkSize(f) == LET left == Len(f.record) - f.offset
                IN IF f.limit < left THEN f.limit ELSE left
Chunk(b) == LET f == Fetched(b) IN SubSeq(f.record, f.offset + 1, f.offset + ChunkSize(f))

\* The whole rest of the record is charged to the limit, which may become
\* negative; only the chunk is given out.
AfterNext(b) ==
  LET f == Fetched(b)
      size == ChunkSize(f)
  IN [f EXCEPT !.limit = @ - (Len(f.record) - f.offset),
               !.offset = @ + size, !.streamsize = @ - size]

BackUp(b, count) ==
  [b EXCEPT !.record = SubSeq(@, b.offset - count + 1, Len(@)),
            !.offset = 0,
            !.streamsize = @ + count,
            !.limit = IF @ < 0 THEN count ELSE @ + count]

\* One round of ReadVarint32's loop on the number read so far: the bytes of a
\* chunk up to the first that says that none follows.
ReadVarint(number) ==
  LET chunk == Chunk(buf)
      last == SelectInSeq(chunk, LAMBDA x : x < Base)
      read[i \in 0..Len(chunk)] ==
        IF i = 0 THEN [number |-> number, multiplier |-> multiplier]
        ELSE LET r == read[i - 1]
             IN [number |-> r.number + (chunk[i] % Base) * r.multiplier,
                 multiplier |-> r.multiplier * Base]
  IN IF last = 0 THEN [done |-> FALSE, number |-> read[Len(chunk)].number,
                       multiplier |-> read[Len(chunk)].multiplier, buf |-> AfterNext(buf)]
     ELSE [done |-> TRUE, number |-> read[last].number, multiplier |-> 1,
           buf |-> BackUp(AfterNext(buf), Len(chunk) - last)]

-----------------------------------------------------------------------------
Init ==
  /\ sent = <<>> /\ wire = <<>>
  /\ buf = EmptyBuffer /\ multiplier = 1
  /\ internal_state = "NEXT_MSG" /\ msg_type = 0 /\ msg_length = 0
  /\ task = "idle" /\ payload = <<>> /\ handled = <<>>
  /\ crashes = 0
  /\ ghosts = 0 /\ framing = "kept"

Send ==
  /\ Len(sent) < MaxMessages
  /\ \E m \in Messages : /\ sent' = Append(sent, m)
                         /\ wire' = wire \o WriteMessage(m)
  /\ UNCHANGED <<buf, multiplier, handlerVars, task, payload, handled, crashes, history>>

\* incomming_data_callback: the event loop has read some bytes.
Receive ==
  /\ task = "idle" /\ crashes < 2
  /\ \E n \in 1..MaxRecord :
       /\ n <= Len(wire)
       /\ buf' = AppendData(buf, SubSeq(wire, 1, n))
       /\ wire' = SubSeq(wire, n + 1, Len(wire))
  /\ task' = "framing"
  /\ UNCHANGED <<sent, multiplier, handlerVars, payload, handled, crashes, history>>

NextMsg ==
  /\ task = "framing" /\ internal_state = "NEXT_MSG" /\ HasNext(buf)
  /\ \E r \in {ReadVarint(msg_type)} :
        /\ msg_type' = r.number
        /\ multiplier' = r.multiplier
        /\ buf' = IF r.done THEN UpdateLimit(r.buf, VarintLimit) ELSE r.buf
        /\ internal_state' = IF r.done THEN "GETLENGTH" ELSE internal_state
        /\ msg_length' = IF r.done THEN 0 ELSE msg_length
  /\ UNCHANGED <<sent, wire, task, payload, handled, crashes, history>>

GetLength ==
  /\ task = "framing" /\ internal_state = "GETLENGTH" /\ HasNext(buf)
  /\ \E r \in {ReadVarint(msg_length)} :
        /\ msg_length' = r.number
        /\ multiplier' = r.multiplier
        /\ buf' = IF r.done THEN UpdateLimit(r.buf, r.number) ELSE r.buf
        /\ internal_state' = IF r.done THEN "READ_MSG" ELSE internal_state
  /\ UNCHANGED <<sent, wire, msg_type, task, payload, handled, crashes, history>>

\* handle_messages returns: the number, or the payload, is not complete.
AwaitData ==
  /\ task = "framing"
  /\ IF internal_state = "READ_MSG" THEN buf.streamsize < msg_length ELSE ~HasNext(buf)
  /\ task' = "idle"
  /\ UNCHANGED <<sent, wire, buf, multiplier, handlerVars, payload, handled, crashes, history>>

ReadMsg ==
  /\ task = "framing" /\ internal_state = "READ_MSG" /\ buf.streamsize >= msg_length
  /\ task' = "parsing" /\ payload' = <<>>
  /\ UNCHANGED <<sent, wire, buf, multiplier, handlerVars, handled, crashes, history>>

Parse ==
  /\ task = "parsing" /\ HasNext(buf)
  /\ payload' = payload \o Chunk(buf)
  /\ buf' = AfterNext(buf)
  /\ UNCHANGED <<sent, wire, multiplier, handlerVars, task, handled, crashes, history>>

GiveToHandler ==
  /\ handled' = Append(handled, [type |-> msg_type, payload |-> payload])
  /\ ghosts' = IF framing = "ghost" THEN ghosts + 1 ELSE ghosts

\* Mutant: the number of the type is not started afresh.
HandleKeepsType ==
  /\ task = "parsing" /\ ~HasNext(buf)
  /\ GiveToHandler
  /\ framing' = IF framing = "lost" THEN "lost" ELSE "kept"
  /\ internal_state' = "NEXT_MSG"
  /\ buf' = UpdateLimit(buf, VarintLimit)
  /\ task' = "framing"
  /\ UNCHANGED <<sent, wire, multiplier, msg_type, msg_length, payload, crashes>>

\* Of a message of an unknown type nothing is read: the loop that would do it
\* stands behind the last break.
RestIsKept == msg_type \in Unruly

\* The handler returns, having read everything or, for an unruly message, as
\* soon as a chunk of it could not be parsed.
Handle ==
  /\ task = "parsing"
  /\ ~HasNext(buf) \/ RestIsKept
  /\ GiveToHandler
  /\ framing' = IF framing = "lost" \/ HasNext(buf) THEN "lost" ELSE "kept"
  /\ msg_type' = 0 /\ internal_state' = "NEXT_MSG"
  /\ buf' = UpdateLimit(buf, VarintLimit)
  /\ task' = "framing"
  /\ UNCHANGED <<sent, wire, multiplier, msg_length, payload, crashes>>

\* The handler throws: the state is left as it is, and the data that is
\* already buffered waits for the next call.
Throw ==
  /\ task = "parsing" /\ ~HasNext(buf) /\ msg_type \in Unruly
  /\ GiveToHandler
  /\ framing' = IF framing = "lost" THEN "lost" ELSE "ghost"
  /\ crashes' = crashes + 1
  /\ task' = "idle"
  /\ UNCHANGED <<sent, wire, buf, multiplier, handlerVars, payload>>

Work == NextMsg \/ GetLength \/ AwaitData \/ ReadMsg \/ Parse \/ Handle \/ Throw
Next == Send \/ Receive \/ Work

\* The event loop reads what has arrived and runs its callbacks to the end.
Fairness == WF_vars(Receive) /\ WF_vars(Work)
Spec == Init /\ [][Next]_vars /\ Fairness

-----------------------------------------------------------------------------
(* Values the variables can take. *)
TypeOK ==
  /\ sent \in Seq(Messages) /\ {wire, payload, buf.record} \subseteq Seq(Byte)
  /\ buf.records \in Seq(Seq(Byte)) /\ handled \in Seq([type : Nat, payload : Seq(Byte)])
  /\ internal_state \in {"NEXT_MSG", "GETLENGTH", "READ_MSG"}
  /\ {msg_type, msg_length, multiplier, buf.offset, buf.streamsize} \subseteq Nat
  /\ buf.limit \in Int /\ buf.offset <= Len(buf.record)
  /\ task \in {"idle", "framing", "parsing"}
  /\ crashes \in 0..2 /\ ghosts \in 0..Len(handled)

(* streamsize, by which READ_MSG decides that a payload is complete, counts *)
(* exactly the bytes that are buffered and not yet read, however they were  *)
(* cut into records, given out, cut off by the limit and backed up.         *)
StreamSizeExact ==
  buf.streamsize = Len(buf.record) - buf.offset + Len(FlattenSeq(buf.records))

Stream == INSTANCE MessageStream

(* The framing of client_handler and client_input_buffer hands the handlers *)
(* the messages of the client in order, once and whole, whatever records    *)
(* the bytes arrive in; only a handler that throws or that does not read    *)
(* its whole payload disturbs that, in the way MessageStream says.          *)
ImplementsStream == Stream!StreamSpec

(* Every message that was sent is handled although the bytes of the next    *)
(* one may never come, unless a handler has thrown or a payload was cut.    *)
EverythingHandled ==
  \A k \in 1..MaxMessages :
    Len(sent) >= k ~> Len(handled) >= k \/ framing # "kept" \/ crashes > 0

(* The bookkeeping of the input buffer, between any two steps of the socket *)
(* and the parser (client_input_buffer.cpp).                                *)
StreamSound == TypeOK /\ StreamSizeExact
=============================================================================
