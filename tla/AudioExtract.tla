---------------------------- MODULE AudioExtract ----------------------------
(* The event source that listens to a sound device:                        *)
(* sound/audioinput_event_source.cpp and .hpp.                             *)
(*                                                                         *)
(* The io thread configures the source for clients and destroys it; a      *)
(* thread of the source's own records blocks of frames, analyses them and  *)
(* inserts events.  The two share the configuration without a lock and the *)
(* flag running.  The devices and what is heard in a block are external.   *)
(* A block lasts one unit of time: it has as many frames as the rate.      *)
EXTENDS Integers, FiniteSets

CONSTANTS
  Configurations,   \* configurations clients send: [dev, channels, rate, alsa]
  Short,      \* values of an unsigned short (2^16)
  Window,     \* fft_size
  NoSound,   \* the empty name of a device
  Absent      \* an entry the message does not have

ASSUME AudioAssumption ==
  /\ {Short, Window} \subseteq Nat \ {0}
  /\ \A m \in Configurations : {m.channels, m.rate} \subseteq Nat \union {Absent}
                         /\ m.alsa \in BOOLEAN \union {Absent}

VARIABLES
  io_step,   \* the io thread: [pc, next], the configuration it is about to set
  conf,      \* of the source
  running,
  thread,    \* the thread object: [pc, used], used is the configuration it has read
  buffer,    \* of the analysis: the position in fft_buffer, and what the last block did
  ended      \* "no", "destroyed", "terminated"

audioVars == <<io_step, conf, running, thread, buffer, ended>>

Size == 2 * Window      \* of fft_buffer, whose entries are complex
NoThread == [pc |-> "none", used |-> {}]
Empty == [pos |-> 0, windows |-> 0, lost |-> 0, beyond |-> 0]
AtLeast(a, b) == IF a < b THEN b ELSE a

-----------------------------------------------------------------------------
(* The io thread                                                           *)

Idle == ended = "no" /\ io_step.pc = "idle"

\* The message's own map is read with operator[], so that a message without
\* a device names the empty one; one without use_alsa_directly turns it off.
Requested(m) ==
  [dev |-> IF m.dev = Absent THEN NoSound ELSE m.dev,
   channels |-> IF m.channels = Absent THEN conf.channels ELSE m.channels,
   rate |-> IF m.rate = Absent THEN conf.rate ELSE m.rate,
   alsa |-> m.alsa # Absent /\ m.alsa]

\* Numbers are narrowed when they are stored, and compared before.
Stored(c) == [c EXCEPT !.channels = @ % Short, !.rate = @ % Short]

HasThread == thread.pc # "none"

UpdateConf(m) ==
  /\ Idle
  /\ IF Requested(m) = conf THEN UNCHANGED <<io_step, running>>
     ELSE /\ running' = FALSE
          /\ io_step' = [pc |-> IF HasThread THEN "join" ELSE "apply", next |-> Stored(Requested(m))]
  /\ UNCHANGED <<conf, thread, buffer, ended>>

\* Mutant: the thread is not waited for.
JoinImpatient ==
  /\ io_step.pc = "join"
  /\ io_step' = [io_step EXCEPT !.pc = "apply"]
  /\ UNCHANGED <<conf, running, thread, buffer, ended>>

Join ==
  /\ io_step.pc = "join" /\ thread.pc = "ended"
  /\ thread' = [thread EXCEPT !.pc = "joined"]
  /\ io_step' = [io_step EXCEPT !.pc = "apply"]
  /\ UNCHANGED <<conf, running, buffer, ended>>

\* A thread object must not be replaced while its thread is not joined.
Apply ==
  /\ io_step.pc = "apply"
  /\ io_step' = [pc |-> "idle", next |-> {}]
  /\ conf' = io_step.next
  /\ IF thread.pc \notin {"none", "joined"} THEN ended' = "terminated" /\ UNCHANGED <<running, thread>>
     ELSE /\ UNCHANGED ended
          /\ running' = (io_step.next.dev # NoSound)
          /\ thread' = IF io_step.next.dev = NoSound THEN NoThread ELSE [pc |-> "start", used |-> {}]
  /\ UNCHANGED buffer

Destroy ==
  /\ Idle
  /\ running' = FALSE
  /\ io_step' = [pc |-> IF HasThread THEN "last" ELSE "idle", next |-> {}]
  /\ ended' = IF HasThread THEN "no" ELSE "destroyed"
  /\ UNCHANGED <<conf, thread, buffer>>

LastJoin ==
  /\ io_step.pc = "last" /\ thread.pc = "ended"
  /\ io_step' = [pc |-> "idle", next |-> {}] /\ thread' = NoThread /\ ended' = "destroyed"
  /\ UNCHANGED <<conf, running, buffer>>

-----------------------------------------------------------------------------
(* The thread of the source                                                *)

At(place) == ended = "no" /\ thread.pc = place

CommonInit ==
  /\ At("start")
  /\ thread' = [thread EXCEPT !.pc = IF running /\ conf.channels >= 1 THEN "open" ELSE "ended"]
  /\ UNCHANGED <<io_step, conf, running, buffer, ended>>

\* The device is opened with the configuration, or cannot be.
Open ==
  /\ At("open")
  /\ thread' \in {[pc |-> "test", used |-> conf], [pc |-> "ended", used |-> {}]}
  /\ buffer' = Empty
  /\ UNCHANGED <<io_step, conf, running, ended>>

TestRunning ==
  /\ At("test")
  /\ thread' = [thread EXCEPT !.pc = IF running THEN "record" ELSE "ended"]
  /\ UNCHANGED <<io_step, conf, running, buffer, ended>>

\* What a block of so many frames leaves when every window starts at 0: one
\* is filled as long as the rest does not fit.
Filled(frames) ==
  LET fill[r \in 0..frames] ==
        IF r <= Size THEN [left |-> r, windows |-> 0]
        ELSE [left |-> fill[r - Window].left, windows |-> fill[r - Window].windows + 1]
  IN fill[frames]

\* The first window starts where the last block ended.  Every channel of a
\* frame kept for the next block counts as a frame.
Process(frames, channels) ==
  LET full == frames + buffer.pos > Size
      first == IF full THEN AtLeast(Window - buffer.pos, 0) ELSE 0
      start == IF full THEN 0 ELSE buffer.pos
      f == Filled(frames - first)
      windows == IF full THEN f.windows + 1 ELSE 0
      kept == (f.left + channels - 1) \div channels
  IN [pos |-> start + kept, windows |-> windows,
      lost |-> frames - Window * windows - (start + kept - buffer.pos),
      beyond |-> kept * channels - f.left]

\* ALSA: one event for each window that is loud enough.
RecordAlsa ==
  /\ At("record") /\ thread.used.alsa
  /\ buffer' = Process(thread.used.rate, thread.used.channels)
  /\ thread' = [thread EXCEPT !.pc = "test"]
  /\ UNCHANGED <<io_step, conf, running, ended>>

\* PulseAudio: the beat tracker takes the block as it is; an error of the
\* stream ends the thread.
RecordPulse ==
  /\ At("record") /\ ~thread.used.alsa
  /\ \E pc \in {"test", "ended"} : thread' = [thread EXCEPT !.pc = pc]
  /\ UNCHANGED <<io_step, conf, running, buffer, ended>>

-----------------------------------------------------------------------------
AudioInit ==
  /\ io_step = [pc |-> "idle", next |-> {}]
  /\ conf = [dev |-> NoSound, channels |-> 1, rate |-> 2, alsa |-> FALSE]
  /\ running = FALSE /\ thread = NoThread /\ buffer = Empty /\ ended = "no"

ThreadSteps == CommonInit \/ Open \/ TestRunning \/ RecordAlsa \/ RecordPulse
IoGoesOn == Join \/ Apply \/ LastJoin

AudioNext ==
  \/ \E m \in Configurations : UpdateConf(m)
  \/ Join \/ Apply \/ Destroy \/ LastJoin
  \/ CommonInit \/ Open \/ TestRunning \/ RecordAlsa \/ RecordPulse

AudioFairness == WF_audioVars(ThreadSteps) /\ WF_audioVars(IoGoesOn)

AudioSpec == AudioInit /\ [][AudioNext]_audioVars /\ AudioFairness

-----------------------------------------------------------------------------
(* The analysis works with the configuration that the source has: it is    *)
(* not changed under a thread that has read it, nor does an analysis that  *)
(* was stopped or destroyed go on (the thread would use a source that is   *)
(* gone); no thread object is replaced before its thread has been joined.  *)
OneAnalysis ==
  /\ ended # "terminated"
  /\ thread.pc \in {"test", "record"} => thread.used = conf
  /\ io_step.pc = "idle" /\ conf.dev = NoSound => thread = NoThread
  /\ ended = "destroyed" => thread = NoThread

(* The position stays in the buffer, no window is made of more frames than *)
(* were recorded, and no frame beyond a block is read if it has a single   *)
(* channel.                                                                *)
WindowsSound ==
  /\ buffer.pos \in 0..Size /\ buffer.lost >= 0
  /\ thread.pc \in {"test", "record"} /\ thread.used.channels = 1 => buffer.beyond = 0

(* The configuration of a source and the thread that records for it agree   *)
(* about what is recorded (audioinput_event_source.cpp:58-265).             *)
AudioSound == OneAnalysis /\ WindowsSound

(* A client that configures the source, and the end of the program, wait   *)
(* for the thread only as long as the device takes to deliver a block.     *)
AudioAnswers == io_step.pc # "idle" ~> io_step.pc = "idle"
=============================================================================
