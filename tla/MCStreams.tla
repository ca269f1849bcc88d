----------------------------- MODULE MCStreams -----------------------------
(* What the program listens to, one at a time since they share nothing: a    *)
(* client's socket, a MIDI device of the desk, or a sound device.            *)
(*                                                                           *)
(* ClientStream has bytes of two bits: numbers of one and of two bytes, and  *)
(* payloads that look like numbers that go on.  DeviceHandle is used by two  *)
(* threads, with a channel command and a sysex command, two channel          *)
(* commands, or one and three messages of the device, which a read may cut   *)
(* anywhere.  The sound device is recorded with one and two channels, with   *)
(* blocks that are shorter and longer than a window, with numbers that do    *)
(* not fit, and with messages that leave entries out.                        *)
EXTENDS ClientStream, DeviceHandle, AudioExtract

EmptyMessage == [type |-> 2, payload |-> <<>>]
ShortMessage == [type |-> 1, payload |-> <<3>>]
LongMessage == [type |-> 3, payload |-> <<2, 0, 3>>]
MCMessages == {EmptyMessage, ShortMessage, LongMessage}

Budget(e, s, r) == [event |-> e, sysex |-> s, reports |-> r]
MCBudgets == {Budget(0, 0, 0), Budget(1, 1, 0), Budget(2, 0, 0), Budget(1, 0, 3)}

NoDevice == budget = Budget(0, 0, 0)

Entries(d, c, r, a) == [dev |-> d, channels |-> c, rate |-> r, alsa |-> a]
MCConfigurations == {
  Entries("card", 1, 5, TRUE), Entries("card", 2, 5, TRUE), Entries("card", 2, 3, FALSE),
  Entries("card", 1, 13, TRUE), Entries("card", 64, Absent, TRUE), Entries(Absent, Absent, 5, TRUE),
  Entries(NoSound, Absent, Absent, Absent)}

Silence ==
  /\ io_step = [pc |-> "idle", next |-> {}] /\ conf = Entries(NoSound, 1, 0, FALSE)
  /\ running = FALSE /\ thread = NoThread /\ buffer = Empty /\ ended = "destroyed"
Silent == conf.rate = 0

StreamsInit == Init /\ HandleInit /\ (Silence \/ (NoDevice /\ AudioInit))
StreamsNext ==
  \/ Silent /\ NoDevice /\ Next /\ UNCHANGED <<handleVars, audioVars>>
  \/ Silent /\ ~NoDevice /\ HandleNext /\ UNCHANGED <<vars, audioVars>>
  \/ ~Silent /\ AudioNext /\ UNCHANGED <<vars, handleVars>>
StreamsSpec ==
  /\ StreamsInit /\ [][StreamsNext]_<<vars, handleVars, audioVars>>
  /\ Fairness /\ HandleFairness /\ AudioFairness

(* What comes in is taken apart as it was put together, from the socket of  *)
(* a client and from a device of the desk (client_input_buffer.cpp,         *)
(* device_handle.cpp).                                                      *)
InputsSound == StreamSound /\ HandleSound

(* Every listener goes on: what a client has sent is handled, what is       *)
(* queued for a device is written, and whoever configures a sound device    *)
(* gets away (client_handler.cpp, device_handle.cpp,                        *)
(* audioinput_event_source.cpp).                                            *)
InputsAnswered == EverythingHandled /\ QueuedIsWritten /\ AudioAnswers
=============================================================================
