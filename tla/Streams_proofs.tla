--------------------------- MODULE Streams_proofs ---------------------------
(* What comes in, for every value of the constants.                        *)
(*                                                                         *)
(* The sound device: there is never more than one analysis, and the one    *)
(* there is works with the configuration that the source has, for every    *)
(* set of configurations; and what a block leaves in the buffer fits into  *)
(* it, for every size of the window, every rate and every number of        *)
(* channels.                                                               *)
(*                                                                         *)
(* The connection of a client: the buffer counts its bytes exactly, and    *)
(* the framing hands the handlers what the client has sent, as             *)
(* MessageStream promises, for every base of the numbers, every set of     *)
(* messages and every cut of the bytes into records.                       *)
(*                                                                         *)
(* A device of the desk: what is written to it and what it sends stays     *)
(* whole, complete and in order, for every set of threads, every room of   *)
(* the driver and every cut of the bytes into reads.                       *)
EXTENDS MCStreams, SequenceTheorems, WellFoundedInduction, TLAPS

Alive == {"start", "open", "test", "record", "ended"}

(* The shapes of the two records that change with EXCEPT. *)
Shapes ==
  /\ io_step = [pc |-> io_step.pc, next |-> io_step.next]
  /\ thread = [pc |-> thread.pc, used |-> thread.used]
  /\ io_step.pc \in {"idle", "join", "apply", "last"}
  /\ thread.pc \in Alive \union {"none", "joined"}

(* OneAnalysis is not inductive: that a thread object is not replaced too   *)
(* early follows from where the io thread is.  It waits for a thread that   *)
(* lives, it applies a configuration when none does, and a thread is joined *)
(* only between the two; an object without a thread is the one of a source  *)
(* that listens to nothing.                                                 *)
ThreadFollowsIo ==
  /\ io_step.pc \in {"join", "last"} => thread.pc \in Alive
  /\ io_step.pc = "apply" => thread.pc \in {"none", "joined"}
  /\ io_step.pc = "idle" => thread.pc # "joined"
  /\ thread.pc = "none" => thread = NoThread
  /\ ended = "destroyed" => io_step.pc = "idle"

AudioInv == Shapes /\ ThreadFollowsIo /\ OneAnalysis

(* The source starts without a thread (audioinput_event_source.cpp:26-33). *)
LEMMA AudioInvInit == AudioInit => AudioInv
  BY DEF AudioInit, AudioInv, Shapes, ThreadFollowsIo, OneAnalysis, NoThread, Alive

(* The io thread stops and joins before it applies (lines 35-95).           *)
LEMMA IoKeepsAudioInv ==
  ASSUME AudioInv,
         (\E m \in Configurations : UpdateConf(m)) \/ Join \/ Apply \/ Destroy \/ LastJoin
  PROVE  AudioInv'
<1> USE DEF AudioInv, Shapes, ThreadFollowsIo, OneAnalysis, NoThread, Alive
<1>1. ASSUME NEW m \in Configurations, UpdateConf(m)  PROVE AudioInv'
  <2>1. CASE Requested(m) = conf
    BY <1>1, <2>1 DEF UpdateConf, Idle
  <2>2. CASE Requested(m) # conf
    <3> DEFINE next == Stored(Requested(m))
    <3>1. /\ io_step' = [pc |-> IF HasThread THEN "join" ELSE "apply", next |-> next]
          /\ io_step.pc = "idle" /\ ended = "no"
          /\ UNCHANGED <<conf, thread, buffer, ended>>
      BY <1>1, <2>2 DEF UpdateConf, Idle
    <3> HIDE DEF next
    <3> QED  BY <3>1 DEF HasThread
  <2> QED  BY <2>1, <2>2
<1>2. CASE Join
  BY <1>2 DEF Join
<1>3. CASE Apply
  BY <1>3 DEF Apply
<1>4. CASE Destroy
  BY <1>4 DEF Destroy, Idle, HasThread
<1>5. CASE LastJoin
  BY <1>5 DEF LastJoin
<1> QED  BY <1>1, <1>2, <1>3, <1>4, <1>5

(* The thread reads the configuration once and then only the flag (97-265). *)
LEMMA ThreadKeepsAudioInv ==
  ASSUME AudioInv, ThreadSteps
  PROVE  AudioInv'
<1> USE DEF AudioInv, Shapes, ThreadFollowsIo, OneAnalysis, NoThread, Alive, At
<1>1. CASE CommonInit
  BY <1>1 DEF CommonInit
<1>2. CASE Open
  BY <1>2 DEF Open
<1>3. CASE TestRunning
  BY <1>3 DEF TestRunning
<1>4. CASE RecordAlsa
  BY <1>4 DEF RecordAlsa
<1>5. CASE RecordPulse
  BY <1>5 DEF RecordPulse
<1> QED  BY <1>1, <1>2, <1>3, <1>4, <1>5 DEF ThreadSteps

LEMMA AudioStutter == AudioInv /\ UNCHANGED audioVars => AudioInv'
  BY DEF AudioInv, Shapes, ThreadFollowsIo, OneAnalysis, NoThread, Alive, audioVars

-----------------------------------------------------------------------------
(* Windows and frames                                                      *)

(* A set of natural numbers that is not empty has a least member.           *)
LEMMA LeastNatural ==
  ASSUME NEW T \in SUBSET Nat, T # {}
  PROVE  \E x \in T : \A y \in T : x <= y
<1> DEFINE R == OpToRel(<, Nat)
<1>1. IsWellFoundedOn(R, Nat)
  BY NatLessThanWellFounded
<1>2. \A y, x \in Nat : y < x => <<y, x>> \in R
  BY DEF OpToRel
<1> HIDE DEF R
<1>3. PICK x \in T : \A y \in T : ~(<<y, x>> \in R)
  BY <1>1, WFMin, Zenon
<1>4. ASSUME NEW y \in T PROVE x <= y
  <2>1. x \in Nat /\ y \in Nat
    OBVIOUS
  <2>2. ~(y < x)
    BY <1>2, <1>3, <2>1, Zenon
  <2> QED
    BY <2>1, <2>2
<1> QED
  BY <1>4

(* Induction over the natural numbers, for a set of them.                  *)
LEMMA NaturalInduction ==
  ASSUME NEW T, 0 \in T, \A n \in Nat : n \in T => n + 1 \in T
  PROVE  Nat \subseteq T
<1> SUFFICES ASSUME Nat \ T # {} PROVE FALSE
  OBVIOUS
<1>1. PICK x \in Nat \ T : \A y \in Nat \ T : x <= y
  BY LeastNatural
<1>2. x # 0 /\ x - 1 \in Nat /\ ~(x <= x - 1)
  BY <1>1
<1>3. x - 1 \in T
  BY <1>1, <1>2
<1> QED
  BY <1>1, <1>2, <1>3

(* What is left of r frames when f says it of fewer.                       *)
Filling(f, r) ==
  IF r <= Size THEN [left |-> r, windows |-> 0]
  ELSE [left |-> f[r - Window].left, windows |-> f[r - Window].windows + 1]

Fills(f, n) == f = [r \in 0..n |-> Filling(f, r)]

(* The function that Filled defines by recursion exists, because a window  *)
(* is not empty: what is left is less.                                     *)
LEMMA FillExists ==
  ASSUME NEW frames \in Nat
  PROVE  \E f : Fills(f, frames)
<1> DEFINE T == {n \in Nat : \E f : Fills(f, n)}
<1>1. 0 \in T
  <2> DEFINE f == [r \in 0..0 |-> [left |-> r, windows |-> 0]]
  <2>1. f = [r \in 0..0 |-> Filling(f, r)]
    BY AudioAssumption DEF Filling, Size
  <2> QED
    BY <2>1 DEF Fills
<1>2. ASSUME NEW n \in Nat, n \in T PROVE n + 1 \in T
  <2>1. PICK f : f = [r \in 0..n |-> Filling(f, r)]
    BY <1>2 DEF Fills
  <2> DEFINE g == [r \in 0..(n + 1) |-> IF r = n + 1 THEN Filling(f, r) ELSE f[r]]
  <2>2. \A r \in 0..(n + 1) : g[r] = Filling(g, r)
    <3>1. \A r \in 0..n : g[r] = f[r]
      OBVIOUS
    <3>2. g[n + 1] = Filling(f, n + 1)
      OBVIOUS
    <3> HIDE DEF g
    <3>3. \A r \in 0..(n + 1) : ~(r <= Size) => r - Window \in 0..n
      BY AudioAssumption DEF Size
    <3>4. \A r \in 0..(n + 1) : Filling(g, r) = Filling(f, r)
      BY <3>1, <3>3 DEF Filling
    <3>5. \A r \in 0..n : f[r] = Filling(f, r)
      BY <2>1
    <3> QED
      BY <3>1, <3>2, <3>4, <3>5
  <2>3. g = [r \in 0..(n + 1) |-> g[r]]
    OBVIOUS
  <2> HIDE DEF g
  <2>4. g = [r \in 0..(n + 1) |-> Filling(g, r)]
    BY <2>2, <2>3
  <2> QED
    BY <2>4 DEF Fills
<1> HIDE DEF T
<1>3. frames \in T
  BY <1>1, <1>2, NaturalInduction
<1> QED
  BY <1>3 DEF T

(* A window takes Window frames and leaves less than two of them behind.   *)
Rest(w, r) ==
  /\ w.windows \in Nat /\ w.left \in 0..Size /\ w.left <= r
  /\ w.left = r - Window * w.windows

LEMMA FilledFacts ==
  ASSUME NEW frames \in Nat
  PROVE  Rest(Filled(frames), frames)
<1> DEFINE f == CHOOSE f : f = [r \in 0..frames |-> Filling(f, r)]
<1>1. Filled(frames) = f[frames]
  BY DEF Filled, Filling
<1>2. f = [r \in 0..frames |-> Filling(f, r)]
  BY FillExists DEF Fills
<1> HIDE DEF f
<1>3. \A r \in 0..frames : f[r] = Filling(f, r)
  BY <1>2
<1> DEFINE T == {n \in Nat : \A r \in 0..n : r <= frames => Rest(f[r], r)}
<1>4. ASSUME NEW n \in Nat, n + 1 <= frames, \A r \in 0..n : Rest(f[r], r)
      PROVE  Rest(f[n + 1], n + 1)
  <2>0. Window \in Nat \ {0} /\ Size = 2 * Window /\ n + 1 \in 0..frames
    BY <1>4, AudioAssumption DEF Size
  <2>1. CASE n + 1 <= Size
    <3>1. f[n + 1] = [left |-> n + 1, windows |-> 0]
      BY <1>3, <2>0, <2>1 DEF Filling
    <3>2. Window * 0 = 0
      BY <2>0
    <3> QED
      BY <2>0, <2>1, <3>1, <3>2 DEF Rest
  <2>2. CASE ~(n + 1 <= Size)
    <3> DEFINE b == f[n + 1 - Window]
    <3>1. f[n + 1] = [left |-> b.left, windows |-> b.windows + 1]
      <4>1. f[n + 1] = Filling(f, n + 1)
        BY <1>3, <2>0
      <4> QED
        BY <2>0, <2>2, <4>1 DEF Filling, b
    <3>2. n + 1 - Window \in 0..n
      BY <2>0, <2>2
    <3>3. Rest(b, n + 1 - Window)
      BY <1>4, <3>2
    <3> HIDE DEF b
    <3>4. Window * (b.windows + 1) = Window * b.windows + Window
      BY <2>0, <3>3 DEF Rest
    <3>5. /\ f[n + 1].left = b.left /\ f[n + 1].windows = b.windows + 1
      BY <3>1
    <3>6. Window * b.windows \in Nat
      BY <2>0, <3>3 DEF Rest
    <3> QED
      BY <2>0, <3>2, <3>3, <3>4, <3>5, <3>6 DEF Rest
  <2> QED
    BY <2>1, <2>2
<1>5. 0 \in T
  <2>1. 0 \in 0..frames /\ 0 <= Size /\ Size \in Nat /\ Window \in Nat
    BY AudioAssumption DEF Size
  <2>2. f[0] = [left |-> 0, windows |-> 0]
    BY <1>3, <2>1 DEF Filling
  <2>3. Window * 0 = 0
    BY <2>1
  <2>4. Rest(f[0], 0)
    BY <2>1, <2>2, <2>3 DEF Rest
  <2> QED
    BY <2>4
<1>6. ASSUME NEW n \in Nat, n \in T PROVE n + 1 \in T
  <2> SUFFICES ASSUME NEW r \in 0..(n + 1), r <= frames
               PROVE  Rest(f[r], r)
    OBVIOUS
  <2>1. CASE r \in 0..n
    BY <1>6, <2>1
  <2>2. CASE r = n + 1
    <3>1. n + 1 <= frames /\ \A i \in 0..n : Rest(f[i], i)
      BY <1>6, <2>2
    <3> QED
      BY <1>4, <2>2, <3>1
  <2> QED
    BY <2>1, <2>2
<1> HIDE DEF T
<1>7. frames \in T
  BY <1>5, <1>6, NaturalInduction
<1>8. frames \in 0..frames /\ frames <= frames
  OBVIOUS
<1> QED
  BY <1>1, <1>7, <1>8 DEF T

(* What is kept of the rest, a frame for every channel, is no more than it. *)
LEMMA KeptFacts ==
  ASSUME NEW left \in Nat, NEW channels \in Nat, channels >= 1
  PROVE  LET kept == (left + channels - 1) \div channels
         IN /\ kept \in 0..left /\ kept * channels - left \in Int
            /\ channels = 1 => kept * channels - left = 0
<1> DEFINE kept == (left + channels - 1) \div channels
<1>1. left + channels - 1 \in Nat /\ kept \in Nat
  OBVIOUS
<1>2. kept * channels <= left + channels - 1
  OBVIOUS
<1>3. ASSUME kept > left PROVE FALSE
  <2>1. kept * channels >= (left + 1) * channels
    BY <1>1, <1>3
  <2>2. (left + 1) * channels >= left + channels
    <3>1. (left + 1) * channels = left * channels + channels
      OBVIOUS
    <3>2. left * channels >= left
      OBVIOUS
    <3> QED
      BY <3>1, <3>2
  <2> QED
    BY <1>2, <2>1, <2>2
<1>4. channels = 1 => kept * channels - left = 0
  OBVIOUS
<1> HIDE DEF kept
<1>5. kept * channels - left \in Int
  BY <1>1
<1>6. kept \in 0..left
  BY <1>1, <1>3
<1> QED
  BY <1>4, <1>5, <1>6 DEF kept

(* The buffer after a block.                                               *)
BufferOK(b) == b.pos \in 0..Size /\ b.lost \in Nat

LEMMA ProcessFacts ==
  ASSUME BufferOK(buffer), NEW frames \in Nat, NEW channels \in Nat, channels >= 1
  PROVE  /\ BufferOK(Process(frames, channels))
         /\ channels = 1 => Process(frames, channels).beyond = 0
<1> DEFINE full == frames + buffer.pos > Size
           first == IF full THEN AtLeast(Window - buffer.pos, 0) ELSE 0
           start == IF full THEN 0 ELSE buffer.pos
           f == Filled(frames - first)
           windows == IF full THEN f.windows + 1 ELSE 0
           kept == (f.left + channels - 1) \div channels
           p == Process(frames, channels)
<1>1. /\ p.pos = start + kept
      /\ p.lost = frames - Window * windows - (start + kept - buffer.pos)
      /\ p.beyond = kept * channels - f.left
  BY DEF Process
<1>2. Window \in Nat \ {0} /\ Size = 2 * Window /\ buffer.pos \in 0..Size
  BY AudioAssumption DEF Size, BufferOK
<1>3. /\ first \in Nat /\ frames - first \in Nat
      /\ full => first >= Window - buffer.pos
      /\ ~full => first = 0
  BY <1>2 DEF AtLeast
<1>4. full \in BOOLEAN /\ start \in Nat /\ (full => start = 0) /\ (~full => start = buffer.pos)
  BY <1>2
<1>5. Rest(f, frames - first)
  BY <1>3, FilledFacts
<1>6. (full => windows = f.windows + 1) /\ (~full => windows = 0)
  OBVIOUS
<1>7. f.left \in Nat
  BY <1>2, <1>5 DEF Rest
<1>8. /\ kept \in 0..f.left /\ kept * channels - f.left \in Int
      /\ channels = 1 => kept * channels - f.left = 0
  BY <1>7, KeptFacts
<1>9. (~full <=> frames + buffer.pos <= Size)
  BY <1>2
<1> HIDE DEF first, start, f, windows, kept, p, full
<1>10. CASE full
  <2>1. p.pos = kept /\ kept \in 0..Size
    BY <1>1, <1>2, <1>4, <1>5, <1>7, <1>8, <1>10 DEF Rest
  <2>2. /\ f.windows \in Nat /\ Window * f.windows \in Nat
        /\ Window * (f.windows + 1) = Window * f.windows + Window
    BY <1>2, <1>5 DEF Rest
  <2>3. p.lost = frames - (Window * f.windows + Window) - (kept - buffer.pos)
    BY <1>1, <1>2, <1>4, <1>6, <1>8, <1>10, <2>2
  <2>4. f.left = frames - first - Window * f.windows
    BY <1>5 DEF Rest
  <2>5. p.lost = (f.left - kept) + (first - (Window - buffer.pos))
    <3> DEFINE taken == Window * f.windows
    <3>1. /\ taken \in Nat /\ f.left = frames - first - taken
          /\ p.lost = frames - (taken + Window) - (kept - buffer.pos)
      BY <2>2, <2>3, <2>4
    <3> HIDE DEF taken
    <3>2. kept \in Int /\ buffer.pos \in Int /\ Window \in Int /\ first \in Int /\ f.left \in Int
      BY <1>2, <1>3, <1>7, <1>8
    <3> QED
      BY <3>1, <3>2
  <2>6. p.lost \in Nat
    BY <1>2, <1>3, <1>7, <1>8, <1>10, <2>5
  <2> QED
    BY <1>1, <1>8, <2>1, <2>6 DEF BufferOK, p
<1>11. CASE ~full
  <2>1. Window * windows = 0
    BY <1>2, <1>6, <1>11
  <2>2. f.left <= frames
    BY <1>3, <1>5, <1>11 DEF Rest
  <2>3. p.pos = buffer.pos + kept /\ kept <= frames
    BY <1>1, <1>4, <1>7, <1>8, <1>11, <2>2
  <2>4. p.pos \in 0..Size
    BY <1>2, <1>7, <1>8, <1>9, <1>11, <2>3
  <2>5. p.lost = frames - kept
    BY <1>1, <1>2, <1>4, <1>7, <1>8, <1>11, <2>1
  <2>6. p.lost \in Nat
    BY <1>7, <1>8, <2>3, <2>5
  <2> QED
    BY <1>1, <1>8, <2>4, <2>6 DEF BufferOK, p
<1> QED
  BY <1>10, <1>11

(* WindowsSound is not inductive: a rest is divided by the number of       *)
(* channels, which common_init has tested before the device was opened; the *)
(* thread reads it again later, and the configuration stays because it is   *)
(* only replaced when the thread has been joined.                          *)
Numbers(c) == c.channels \in Nat /\ c.rate \in Nat

Fits(b, c, step, th) ==
  /\ b.pos \in 0..Size /\ b.lost \in Nat
  /\ th.pc \in {"test", "record"} /\ th.used.channels = 1 => b.beyond = 0
  /\ Numbers(c)
  /\ step.pc \in {"join", "apply"} => Numbers(step.next)
  /\ th.pc \in {"open", "test", "record"} => c.channels >= 1

WindowInv == AudioInv /\ Fits(buffer, conf, io_step, thread)

(* What clients send for numbers is narrowed to an unsigned short (58-83).  *)
LEMMA StoredNumbers ==
  ASSUME NEW m \in Configurations, Numbers(conf)
  PROVE  Numbers(Stored(Requested(m)))
<1> DEFINE r == Requested(m)
<1>1. {m.channels, m.rate} \subseteq Nat \union {Absent} /\ Short \in Nat \ {0}
  BY AudioAssumption
<1>2. /\ r = [dev |-> r.dev, channels |-> r.channels, rate |-> r.rate, alsa |-> r.alsa]
      /\ r.channels = (IF m.channels = Absent THEN conf.channels ELSE m.channels)
      /\ r.rate = (IF m.rate = Absent THEN conf.rate ELSE m.rate)
  BY DEF Requested
<1>3. r.channels \in Nat /\ r.rate \in Nat
  BY <1>1, <1>2 DEF Numbers
<1> HIDE DEF r
<1>4. Stored(r).channels = r.channels % Short /\ Stored(r).rate = r.rate % Short
  BY <1>2 DEF Stored
<1>5. r.channels % Short \in Nat /\ r.rate % Short \in Nat
  BY <1>1, <1>3
<1> QED
  BY <1>4, <1>5 DEF Numbers, r

LEMMA WindowInvInit == AudioInit => WindowInv
<1> SUFFICES ASSUME AudioInit PROVE WindowInv
  OBVIOUS
<1>1. AudioInv
  BY AudioInvInit
<1>2. Window \in Nat /\ 0 \in 0..Size
  BY AudioAssumption DEF Size
<1> QED
  BY <1>1, <1>2 DEF AudioInit, WindowInv, Fits, Numbers, Empty, NoThread

LEMMA WindowInvStep == WindowInv /\ [AudioNext]_audioVars => WindowInv'
<1> SUFFICES ASSUME WindowInv, [AudioNext]_audioVars PROVE WindowInv'
  OBVIOUS
<1>1. AudioInv /\ AudioInv'
  BY IoKeepsAudioInv, ThreadKeepsAudioInv, AudioStutter DEF AudioNext, ThreadSteps, WindowInv
<1>2. /\ Fits(buffer, conf, io_step, thread)
      /\ thread = [pc |-> thread.pc, used |-> thread.used]
      /\ io_step = [pc |-> io_step.pc, next |-> io_step.next]
      /\ thread.pc \in {"test", "record"} => thread.used = conf
      /\ io_step.pc = "apply" => thread.pc \in {"none", "joined"}
      /\ ended # "terminated"
  BY <1>1 DEF WindowInv, AudioInv, Shapes, ThreadFollowsIo, OneAnalysis
<1> USE DEF Fits
<1> DEFINE Goal == Fits(buffer', conf', io_step', thread')
<1>3. SUFFICES Goal
  <2> SUFFICES ASSUME Goal PROVE WindowInv'
    OBVIOUS
  <2> QED
    BY <1>1 DEF WindowInv, Numbers, Size
<1>4. ASSUME NEW m \in Configurations, UpdateConf(m) PROVE Goal
  <2>1. CASE Requested(m) = conf
    BY <1>2, <1>4, <2>1 DEF UpdateConf, Idle
  <2>2. CASE Requested(m) # conf
    <3> DEFINE next == Stored(Requested(m))
    <3>1. /\ io_step' = [pc |-> IF HasThread THEN "join" ELSE "apply", next |-> next]
          /\ UNCHANGED <<conf, thread, buffer, ended>>
      BY <1>4, <2>2 DEF UpdateConf, Idle
    <3>2. Numbers(next)
      BY <1>2, StoredNumbers
    <3> HIDE DEF next
    <3>3. io_step'.next = next
      BY <3>1
    <3> QED
      BY <1>2, <3>1, <3>2, <3>3
  <2> QED
    BY <2>1, <2>2
<1>5. CASE Join
  BY <1>2, <1>5 DEF Join
<1>6. CASE Apply
  BY <1>2, <1>6 DEF Apply, NoThread
<1>7. CASE Destroy
  BY <1>2, <1>7 DEF Destroy, Idle
<1>8. CASE LastJoin
  BY <1>2, <1>8 DEF LastJoin, NoThread
<1>9. CASE CommonInit
  BY <1>2, <1>9 DEF CommonInit, At
<1>10. CASE Open
  <2>1. Empty.pos = 0 /\ Empty.lost = 0 /\ Empty.beyond = 0 /\ 0 \in 0..Size
    BY AudioAssumption DEF Empty, Size
  <2>2. buffer' = Empty /\ thread.pc = "open" /\ UNCHANGED <<io_step, conf>>
    BY <1>10 DEF Open, At
  <2> QED
    BY <1>2, <2>1, <2>2
<1>11. CASE TestRunning
  BY <1>2, <1>11 DEF TestRunning, At
<1>12. CASE RecordAlsa
  <2> DEFINE frames == thread.used.rate
             channels == thread.used.channels
             p == Process(frames, channels)
  <2>1. /\ buffer' = p /\ UNCHANGED <<io_step, conf>>
        /\ thread.pc = "record" /\ thread'.used = thread.used /\ thread'.pc = "test"
    BY <1>2, <1>12 DEF RecordAlsa, At
  <2>2. frames \in Nat /\ channels \in Nat /\ channels >= 1
    BY <1>2, <2>1 DEF Numbers
  <2>3. BufferOK(p) /\ (channels = 1 => p.beyond = 0)
    BY <1>2, <2>2, ProcessFacts DEF BufferOK
  <2> HIDE DEF p
  <2> QED
    BY <1>2, <2>1, <2>3 DEF BufferOK
<1>13. CASE RecordPulse
  BY <1>2, <1>13 DEF RecordPulse, At
<1>14. CASE UNCHANGED audioVars
  BY <1>2, <1>14 DEF audioVars
<1> QED
  BY <1>4, <1>5, <1>6, <1>7, <1>8, <1>9, <1>10, <1>11, <1>12, <1>13, <1>14 DEF AudioNext

(* However a source is configured and destroyed, and whatever the rates,    *)
(* channels and windows are: one analysis, with the configuration of its    *)
(* source; a position that stays in the buffer, no window of more frames    *)
(* than were recorded, and nothing read beyond a block of one channel       *)
(* (audioinput_event_source.cpp:58-265).                                    *)
THEOREM AudioAlwaysSound == AudioSpec => []AudioSound
<1>1. AudioInit => WindowInv
  BY WindowInvInit
<1>2. WindowInv /\ [AudioNext]_audioVars => WindowInv'
  BY WindowInvStep
<1>3. WindowInv => AudioSound
  <2>1. Fits(buffer, conf, io_step, thread) => WindowsSound
    BY DEF Fits, WindowsSound
  <2> QED
    BY <2>1 DEF WindowInv, AudioInv, AudioSound
<1> QED
  BY <1>1, <1>2, <1>3, PTL DEF AudioSpec

-----------------------------------------------------------------------------
(* Sequences                                                               *)

(* What is cut off in front of two equal sequences.                        *)
CutOff(S, c, x, r, y) ==
  LET rest == SubSeq(r, Len(c) + 1, Len(r))
  IN rest \in Seq(S) /\ Len(rest) = Len(r) - Len(c) /\ r = c \o rest /\ x = rest \o y

LEMMA CutFront ==
  ASSUME NEW S, NEW c \in Seq(S), NEW x \in Seq(S), NEW r \in Seq(S), NEW y \in Seq(S),
         c \o x = r \o y, Len(c) <= Len(r)
  PROVE  CutOff(S, c, x, r, y)
<1> DEFINE rest == SubSeq(r, Len(c) + 1, Len(r))
           z == rest \o y
<1>1. /\ rest \in Seq(S) /\ Len(rest) = Len(r) - Len(c)
      /\ \A i \in 1..Len(rest) : rest[i] = r[Len(c) + i]
  <2>1. \A i \in Len(c) + 1 .. Len(r) : r[i] \in S
    OBVIOUS
  <2>2. /\ rest \in Seq(S)
        /\ Len(rest) = IF Len(c) + 1 <= Len(r) THEN Len(r) - (Len(c) + 1) + 1 ELSE 0
        /\ \A i \in 1 .. Len(r) - (Len(c) + 1) + 1 : rest[i] = r[Len(c) + 1 + i - 1]
    BY <2>1, SubSeqProperties
  <2> HIDE DEF rest, z
  <2>3. Len(c) \in Nat /\ Len(r) \in Nat
    BY LenProperties
  <2>4. Len(rest) = Len(r) - Len(c)
    BY <2>2, <2>3
  <2>5. ASSUME NEW i \in 1..Len(rest) PROVE rest[i] = r[Len(c) + i]
    <3>1. i \in 1 .. Len(r) - (Len(c) + 1) + 1
      BY <2>3, <2>4
    <3>2. rest[i] = r[Len(c) + 1 + i - 1]
      BY <2>2, <3>1
    <3>3. Len(c) + 1 + i - 1 = Len(c) + i
      BY <2>3
    <3> QED
      BY <3>2, <3>3
  <2> QED
    BY <2>2, <2>4, <2>5
<1> HIDE DEF rest
<1>2. /\ c \o x \in Seq(S) /\ Len(c \o x) = Len(c) + Len(x)
      /\ \A i \in 1..(Len(c) + Len(x)) : (c \o x)[i] = IF i <= Len(c) THEN c[i] ELSE x[i - Len(c)]
      /\ r \o y \in Seq(S) /\ Len(r \o y) = Len(r) + Len(y)
      /\ \A i \in 1..(Len(r) + Len(y)) : (r \o y)[i] = IF i <= Len(r) THEN r[i] ELSE y[i - Len(r)]
  BY ConcatProperties
<1>3. /\ c \o rest \in Seq(S) /\ Len(c \o rest) = Len(r)
      /\ \A i \in 1..Len(r) : (c \o rest)[i] = IF i <= Len(c) THEN c[i] ELSE rest[i - Len(c)]
  BY <1>1, ConcatProperties
<1>4. /\ z \in Seq(S) /\ Len(z) = Len(rest) + Len(y)
      /\ \A i \in 1..(Len(rest) + Len(y)) : z[i] = IF i <= Len(rest) THEN rest[i] ELSE y[i - Len(rest)]
  BY <1>1, ConcatProperties
<1> HIDE DEF z
<1>5. Len(c) + Len(x) = Len(r) + Len(y)
  BY <1>2
<1>6. \A i \in 1..(Len(c) + Len(x)) :
        (IF i <= Len(c) THEN c[i] ELSE x[i - Len(c)]) = (IF i <= Len(r) THEN r[i] ELSE y[i - Len(r)])
  BY <1>2, <1>5
<1>7. ASSUME NEW i \in 1..Len(r) PROVE (c \o rest)[i] = r[i]
  <2>1. i \in 1..(Len(c) + Len(x))
    BY <1>5
  <2>2. CASE i <= Len(c)
    BY <1>3, <1>6, <2>1, <2>2
  <2>3. CASE ~(i <= Len(c))
    <3>1. i - Len(c) \in 1..Len(rest)
      BY <1>1, <2>3
    <3> QED
      BY <1>1, <1>3, <2>3, <3>1
  <2> QED
    BY <2>2, <2>3
<1>8. c \o rest = r
  BY <1>3, <1>7, SeqEqual
<1>9. Len(x) = Len(z)
  BY <1>1, <1>4, <1>5
<1>10. ASSUME NEW i \in 1..Len(x) PROVE x[i] = z[i]
  <2> DEFINE n == Len(c) + i
  <2>1. n \in 1..(Len(c) + Len(x)) /\ ~(n <= Len(c)) /\ n - Len(c) = i
    OBVIOUS
  <2>2. x[i] = IF n <= Len(r) THEN r[n] ELSE y[n - Len(r)]
    BY <1>6, <2>1
  <2>3. CASE n <= Len(r)
    <3>1. i \in 1..Len(rest) /\ i <= Len(rest) /\ i \in 1..(Len(rest) + Len(y))
      BY <1>1, <2>3
    <3>2. z[i] = rest[i]
      BY <1>4, <3>1
    <3>3. rest[i] = r[Len(c) + i]
      BY <1>1, <3>1
    <3> QED
      BY <2>2, <2>3, <3>2, <3>3
  <2>4. CASE ~(n <= Len(r))
    <3>1. ~(i <= Len(rest)) /\ i - Len(rest) = n - Len(r) /\ i \in 1..(Len(rest) + Len(y))
      BY <1>1, <1>4, <1>9, <2>4
    <3> QED
      BY <1>4, <2>2, <2>4, <3>1
  <2> QED
    BY <2>3, <2>4
<1>11. x = z
  BY <1>4, <1>9, <1>10, SeqEqual
<1> QED
  BY <1>1, <1>8, <1>11 DEF CutOff, rest, z

(* A sequence in two parts.                                                *)
LEMMA SplitAt ==
  ASSUME NEW S, NEW s \in Seq(S), NEW n \in 0..Len(s)
  PROVE  /\ SubSeq(s, 1, n) \in Seq(S) /\ Len(SubSeq(s, 1, n)) = n
         /\ SubSeq(s, n + 1, Len(s)) \in Seq(S) /\ Len(SubSeq(s, n + 1, Len(s))) = Len(s) - n
         /\ s = SubSeq(s, 1, n) \o SubSeq(s, n + 1, Len(s))
<1>1. \A i \in 1..Len(s) : s[i] \in S
  OBVIOUS
<1>2. /\ SubSeq(s, 1, n) \in Seq(S)
      /\ Len(SubSeq(s, 1, n)) = IF 1 <= n THEN n - 1 + 1 ELSE 0
  BY <1>1, SubSeqProperties
<1>3. /\ SubSeq(s, n + 1, Len(s)) \in Seq(S)
      /\ Len(SubSeq(s, n + 1, Len(s))) = IF n + 1 <= Len(s) THEN Len(s) - (n + 1) + 1 ELSE 0
  <2>1. \A i \in n + 1 .. Len(s) : s[i] \in S
    BY <1>1
  <2> QED
    BY <2>1, SubSeqProperties
<1>4. SubSeq(s, 1, n) \o SubSeq(s, n + 1, Len(s)) = SubSeq(s, 1, Len(s))
  <2>1. 1 \in 1..Len(s) + 1 /\ n \in 1 - 1 .. Len(s) /\ Len(s) \in n..Len(s)
    OBVIOUS
  <2> QED
    BY <2>1, ConcatAdjacentSubSeq
<1>5. SubSeq(s, 1, Len(s)) = s
  BY SubSeqFull
<1>6. n \in Nat /\ Len(s) \in Nat /\ n <= Len(s)
  OBVIOUS
<1>7. Len(SubSeq(s, 1, n)) = n /\ Len(SubSeq(s, n + 1, Len(s))) = Len(s) - n
  BY <1>2, <1>3, <1>6
<1> QED
  BY <1>2, <1>3, <1>4, <1>5, <1>7

(* A part of a sequence, and the part after it.                            *)
LEMMA Cuts ==
  ASSUME NEW S, NEW s \in Seq(S), NEW i \in Nat, NEW j \in Nat, i <= j, j <= Len(s)
  PROVE  /\ SubSeq(s, i + 1, j) \in Seq(S) /\ Len(SubSeq(s, i + 1, j)) = j - i
         /\ \A n \in 1..(j - i) : SubSeq(s, i + 1, j)[n] = s[i + n]
         /\ SubSeq(s, i + 1, Len(s)) = SubSeq(s, i + 1, j) \o SubSeq(s, j + 1, Len(s))
<1> DEFINE c == SubSeq(s, i + 1, j)
<1>1. Len(s) \in Nat /\ \A n \in 1..Len(s) : s[n] \in S
  OBVIOUS
<1>2. \A n \in i + 1 .. j : s[n] \in S
  BY <1>1
<1>3. /\ c \in Seq(S) /\ Len(c) = IF i + 1 <= j THEN j - (i + 1) + 1 ELSE 0
      /\ \A n \in 1 .. j - (i + 1) + 1 : c[n] = s[i + 1 + n - 1]
  BY <1>2, SubSeqProperties
<1> HIDE DEF c
<1>4. \A n \in 1..(j - i) : n \in 1 .. j - (i + 1) + 1 /\ i + 1 + n - 1 = i + n
  OBVIOUS
<1>5. c \in Seq(S) /\ Len(c) = j - i /\ \A n \in 1..(j - i) : c[n] = s[i + n]
  BY <1>3, <1>4
<1>6. i + 1 \in 1..Len(s) + 1 /\ j \in (i + 1) - 1 .. Len(s) /\ Len(s) \in j..Len(s)
  BY <1>1
<1>7. SubSeq(s, i + 1, j) \o SubSeq(s, j + 1, Len(s)) = SubSeq(s, i + 1, Len(s))
  BY <1>6, ConcatAdjacentSubSeq
<1> QED
  BY <1>5, <1>7 DEF c

LEMMA CutTwice ==
  ASSUME NEW S, NEW s \in Seq(S), NEW i \in Nat, NEW j \in Nat, i <= j, j <= Len(s),
         NEW k \in Nat, i + k <= j
  PROVE  LET c == SubSeq(s, i + 1, j)
         IN SubSeq(c, k + 1, Len(c)) = SubSeq(s, (i + k) + 1, j)
<1> DEFINE c == SubSeq(s, i + 1, j)
           d == SubSeq(c, k + 1, Len(c))
           e == SubSeq(s, (i + k) + 1, j)
<1>1. c \in Seq(S) /\ Len(c) = j - i /\ \A n \in 1..(j - i) : c[n] = s[i + n]
  BY Cuts
<1> HIDE DEF c
<1>2. Len(c) \in Nat /\ k <= Len(c) /\ i + k \in Nat
  BY <1>1
<1>3. d \in Seq(S) /\ Len(d) = Len(c) - k /\ \A n \in 1..(Len(c) - k) : d[n] = c[k + n]
  BY <1>1, <1>2, Cuts
<1>4. e \in Seq(S) /\ Len(e) = j - (i + k) /\ \A n \in 1..(j - (i + k)) : e[n] = s[(i + k) + n]
  BY <1>2, Cuts
<1> HIDE DEF d, e
<1>5. ASSUME NEW n \in 1..(Len(c) - k) PROVE d[n] = e[n]
  <2>1. k + n \in 1..(j - i) /\ i + (k + n) = (i + k) + n /\ n \in 1..(j - (i + k))
    BY <1>1, <1>2
  <2> QED
    BY <1>1, <1>3, <1>4, <2>1
<1>6. Len(d) = Len(e)
  BY <1>1, <1>3, <1>4
<1>7. d = e
  BY <1>3, <1>4, <1>5, <1>6, SeqEqual
<1> QED
  BY <1>7 DEF c, d, e

(* The rest after the first of some elements.                              *)
LEMMA FirstOff ==
  ASSUME NEW S, NEW s \in Seq(S), s # <<>>
  PROVE  /\ s = <<s[1]>> \o Tail(s) /\ Head(s) = s[1]
         /\ Tail(s) = SubSeq(s, 2, Len(s)) /\ Tail(s) \in Seq(S)
<1>1. Len(s) \in Nat \ {0}
  BY EmptySeq
<1>2. 1 \in 1..Len(s) /\ Len(s) \in 1..Len(s)
  BY <1>1
<1>3. SubSeq(s, 1, Len(s)) = <<s[1]>> \o SubSeq(s, 1 + 1, Len(s))
  BY <1>2, SubSeqRecursiveFirst
<1>4. Tail(s) = SubSeq(s, 2, Len(s)) /\ Tail(s) \in Seq(S)
  BY TailIsSubSeq, HeadTailProperties
<1>5. SubSeq(s, 1, Len(s)) = s
  BY SubSeqFull
<1> QED
  BY <1>3, <1>4, <1>5

-----------------------------------------------------------------------------
(* FlattenSeq, which is defined by recursion                               *)

Flattening(s, f, i) == IF i = 1 THEN s[i] ELSE f[i - 1] \o s[i]

Flattens(s, f, n) == f = [i \in 1..n |-> Flattening(s, f, i)]

LEMMA FlattenExists ==
  ASSUME NEW s, NEW n \in Nat
  PROVE  \E f : Flattens(s, f, n)
<1> DEFINE T == {m \in Nat : \E f : Flattens(s, f, m)}
<1>1. 0 \in T
  <2> DEFINE f == [i \in 1..0 |-> s[i]]
  <2>1. f = [i \in 1..0 |-> Flattening(s, f, i)]
    OBVIOUS
  <2> QED
    BY <2>1 DEF Flattens
<1>2. ASSUME NEW m \in Nat, m \in T PROVE m + 1 \in T
  <2>1. PICK f : f = [i \in 1..m |-> Flattening(s, f, i)]
    BY <1>2 DEF Flattens
  <2> DEFINE g == [i \in 1..(m + 1) |-> IF i = m + 1 THEN Flattening(s, f, i) ELSE f[i]]
  <2>2. \A i \in 1..(m + 1) : g[i] = Flattening(s, g, i)
    <3>1. \A i \in 1..m : g[i] = f[i]
      OBVIOUS
    <3>2. g[m + 1] = Flattening(s, f, m + 1)
      OBVIOUS
    <3> HIDE DEF g
    <3>3. \A i \in 1..(m + 1) : i # 1 => i - 1 \in 1..m
      OBVIOUS
    <3>4. \A i \in 1..(m + 1) : Flattening(s, g, i) = Flattening(s, f, i)
      BY <3>1, <3>3 DEF Flattening
    <3>5. \A i \in 1..m : f[i] = Flattening(s, f, i)
      BY <2>1
    <3> QED
      BY <3>1, <3>2, <3>4, <3>5
  <2>3. g = [i \in 1..(m + 1) |-> g[i]]
    OBVIOUS
  <2> HIDE DEF g
  <2>4. g = [i \in 1..(m + 1) |-> Flattening(s, g, i)]
    BY <2>2, <2>3
  <2> QED
    BY <2>4 DEF Flattens
<1> HIDE DEF T
<1>3. n \in T
  BY <1>1, <1>2, NaturalInduction
<1> QED
  BY <1>3 DEF T

(* FlattenSeq by its steps.                                                *)
Stepwise(S, s, f) ==
  /\ \A i \in 1..Len(s) : f[i] \in Seq(S)
  /\ Len(s) # 0 => f[1] = s[1]
  /\ \A i \in 1..(Len(s) - 1) : f[i + 1] = f[i] \o s[i + 1]
  /\ FlattenSeq(s) = IF Len(s) = 0 THEN <<>> ELSE f[Len(s)]

LEMMA FlattenSteps ==
  ASSUME NEW S, NEW s \in Seq(Seq(S))
  PROVE  \E f : Stepwise(S, s, f)
<1> DEFINE f == CHOOSE f : f = [i \in 1..Len(s) |-> Flattening(s, f, i)]
<1>1. FlattenSeq(s) = IF Len(s) = 0 THEN s ELSE f[Len(s)]
  BY DEF FlattenSeq, Flattening
<1>2. f = [i \in 1..Len(s) |-> Flattening(s, f, i)]
  <2>1. Len(s) \in Nat
    OBVIOUS
  <2>2. \E g : g = [i \in 1..Len(s) |-> Flattening(s, g, i)]
    BY <2>1, FlattenExists DEF Flattens
  <2> QED
    BY <2>2
<1> HIDE DEF f
<1>3. \A i \in 1..Len(s) : f[i] = Flattening(s, f, i)
  BY <1>2
<1>4. Len(s) # 0 => f[1] = s[1]
  BY <1>3 DEF Flattening
<1>5. ASSUME NEW i \in 1..(Len(s) - 1) PROVE f[i + 1] = f[i] \o s[i + 1]
  <2> DEFINE k == i + 1
  <2>1. k \in 1..Len(s) /\ k # 1 /\ k - 1 = i
    OBVIOUS
  <2> HIDE DEF k
  <2>2. f[k] = f[k - 1] \o s[k]
    BY <1>3, <2>1 DEF Flattening
  <2>3. f[k] = f[i] \o s[k]
    BY <2>1, <2>2
  <2> QED
    BY <2>3 DEF k
<1> DEFINE T == {n \in Nat : n \in 1..Len(s) => f[n] \in Seq(S)}
<1>6. 0 \in T
  OBVIOUS
<1>7. ASSUME NEW n \in Nat, n \in T PROVE n + 1 \in T
  <2> SUFFICES ASSUME n + 1 \in 1..Len(s) PROVE f[n + 1] \in Seq(S)
    OBVIOUS
  <2>1. s[n + 1] \in Seq(S)
    OBVIOUS
  <2>2. CASE n = 0
    BY <1>4, <2>1, <2>2
  <2>3. CASE n # 0
    <3>1. n \in 1..Len(s) /\ n \in 1..(Len(s) - 1)
      BY <2>3
    <3>2. f[n] \in Seq(S)
      BY <1>7, <3>1
    <3>3. f[n + 1] = f[n] \o s[n + 1]
      BY <1>5, <3>1
    <3> QED
      BY <2>1, <3>2, <3>3
  <2> QED
    BY <2>2, <2>3
<1> HIDE DEF T
<1>8. \A i \in 1..Len(s) : f[i] \in Seq(S)
  <2>1. Nat \subseteq T
    BY <1>6, <1>7, NaturalInduction
  <2> QED
    BY <2>1 DEF T
<1>9. Len(s) = 0 => s = <<>>
  BY EmptySeq
<1> QED
  BY <1>1, <1>4, <1>5, <1>8, <1>9 DEF Stepwise

LEMMA FlattenType ==
  ASSUME NEW S, NEW s \in Seq(Seq(S))
  PROVE  FlattenSeq(s) \in Seq(S)
<1>1. PICK f : Stepwise(S, s, f)
  BY FlattenSteps
<1>2. Len(s) # 0 => Len(s) \in 1..Len(s)
  OBVIOUS
<1> QED
  BY <1>1, <1>2 DEF Stepwise

(* A record is added at the end.                                           *)
LEMMA FlattenAppend ==
  ASSUME NEW S, NEW s \in Seq(Seq(S)), NEW d \in Seq(S)
  PROVE  FlattenSeq(Append(s, d)) = FlattenSeq(s) \o d
<1> DEFINE t == Append(s, d)
<1>1. /\ t \in Seq(Seq(S)) /\ Len(t) = Len(s) + 1 /\ Len(s) \in Nat
      /\ \A i \in 1..Len(s) : t[i] = s[i]
      /\ t[Len(s) + 1] = d
  OBVIOUS
<1> HIDE DEF t
<1>2. PICK f : Stepwise(S, s, f)
  BY FlattenSteps
<1>3. PICK g : Stepwise(S, t, g)
  BY <1>1, FlattenSteps
<1> DEFINE T == {n \in Nat : n \in 1..Len(s) => g[n] = f[n]}
<1>4. 0 \in T
  OBVIOUS
<1>5. ASSUME NEW n \in Nat, n \in T PROVE n + 1 \in T
  <2> SUFFICES ASSUME n + 1 \in 1..Len(s) PROVE g[n + 1] = f[n + 1]
    OBVIOUS
  <2>1. t[n + 1] = s[n + 1] /\ Len(t) # 0 /\ Len(s) # 0 /\ t[1] = s[1]
    BY <1>1
  <2>2. CASE n = 0
    BY <1>2, <1>3, <2>1, <2>2 DEF Stepwise
  <2>3. CASE n # 0
    <3>1. n \in 1..Len(s) /\ n \in 1..(Len(s) - 1) /\ n \in 1..(Len(t) - 1)
      BY <1>1, <2>3
    <3>2. g[n + 1] = g[n] \o t[n + 1] /\ f[n + 1] = f[n] \o s[n + 1] /\ g[n] = f[n]
      BY <1>2, <1>3, <1>5, <3>1 DEF Stepwise
    <3> QED
      BY <2>1, <3>2
  <2> QED
    BY <2>2, <2>3
<1> HIDE DEF T
<1>6. \A i \in 1..Len(s) : g[i] = f[i]
  <2>1. Nat \subseteq T
    BY <1>4, <1>5, NaturalInduction
  <2> QED
    BY <2>1 DEF T
<1>7. FlattenSeq(t) = g[Len(s) + 1]
  BY <1>1, <1>3 DEF Stepwise
<1>8. CASE Len(s) = 0
  <2>1. FlattenSeq(t) = d /\ FlattenSeq(s) = <<>>
    BY <1>1, <1>2, <1>3, <1>7, <1>8 DEF Stepwise
  <2> QED
    BY <2>1, ConcatEmptySeq DEF t
<1>9. CASE Len(s) # 0
  <2>1. Len(s) \in 1..Len(s) /\ Len(s) \in 1..(Len(t) - 1)
    BY <1>1, <1>9
  <2>2. g[Len(s) + 1] = g[Len(s)] \o t[Len(s) + 1] /\ FlattenSeq(s) = f[Len(s)]
    BY <1>2, <1>3, <1>9, <2>1 DEF Stepwise
  <2>3. g[Len(s)] = f[Len(s)]
    BY <1>6, <2>1
  <2>4. FlattenSeq(t) = FlattenSeq(s) \o d
    BY <1>1, <1>7, <2>2, <2>3
  <2> QED
    BY <2>4 DEF t
<1> QED
  BY <1>8, <1>9

Grouped(x, y, z) == (x \o y) \o z = x \o (y \o z)
LEMMA Associative == \A S : \A x, y, z \in Seq(S) : (x \o y) \o z = x \o (y \o z)
  BY ConcatAssociative

LEMMA BytesAssociative == \A x, y, z \in Seq(Byte) : (x \o y) \o z = x \o (y \o z)
  BY Associative

LEMMA BytesGrouped ==
  ASSUME NEW x \in Seq(Byte), NEW y \in Seq(Byte), NEW z \in Seq(Byte)
  PROVE  Grouped(x, y, z)
  BY BytesAssociative, Zenon DEF Grouped

LEMMA Positions ==
  \A a, b \in Nat : a = b - 1 =>
    \A n \in Nat : n + 1 \in 1..a =>
      /\ n + 1 \in 1..(b - 1) /\ a # 0
      /\ n # 0 => n \in 1..a /\ n \in 1..(a - 1)
  OBVIOUS

(* A record is taken from the front.                                       *)
LEMMA FlattenHead ==
  ASSUME NEW S, NEW s \in Seq(Seq(S)), s # <<>>
  PROVE  FlattenSeq(s) = Head(s) \o FlattenSeq(Tail(s))
<1> DEFINE t == Tail(s)
           h == Head(s)
<1>1. /\ t \in Seq(Seq(S)) /\ Len(t) = Len(s) - 1 /\ Len(s) \in Nat \ {0}
      /\ \A i \in 1..Len(t) : t[i] = s[i + 1]
      /\ h = s[1] /\ h \in Seq(S)
  <2>1. t \in Seq(Seq(S)) /\ Len(t) = Len(s) - 1 /\ \A i \in 1..Len(t) : t[i] = s[i + 1]
    BY HeadTailProperties
  <2>2. Len(s) \in Nat \ {0}
    BY EmptySeq
  <2>3. h = s[1] /\ h \in Seq(S)
    BY HeadTailProperties, FirstOff
  <2> QED
    BY <2>1, <2>2, <2>3
<1> HIDE DEF t, h
<1>10. \A n \in Nat : n + 1 \in 1..Len(t) =>
        /\ n + 1 \in 1..(Len(s) - 1) /\ Len(t) # 0
        /\ n # 0 => n \in 1..Len(t) /\ n \in 1..(Len(t) - 1)
  <2>1. Len(t) \in Nat /\ Len(s) \in Nat /\ Len(t) = Len(s) - 1
    BY <1>1
  <2> QED
    BY <2>1, Positions, Zenon
<1>11. \A n \in Nat : n + 1 \in 1..Len(t) => t[n + 1] = s[n + 1 + 1] /\ t[n + 1] \in Seq(S)
  BY <1>1
<1>12. \A x, y \in Seq(S) : (h \o x) \o y = h \o (x \o y)
  <2>1. h \in Seq(S)
    BY <1>1
  <2>2. \A x, y, z \in Seq(S) : (x \o y) \o z = x \o (y \o z)
    BY Associative, SMTT(30)
  <2> QED
    BY <2>1, <2>2, Zenon
<1>2. PICK f : Stepwise(S, s, f)
  BY FlattenSteps
<1>3. PICK g : Stepwise(S, t, g)
  BY <1>1, FlattenSteps
<1>4. f[1] = h
  BY <1>1, <1>2 DEF Stepwise
<1>5. ASSUME NEW n \in Nat, n \in 1..Len(t) => f[n + 1] = h \o g[n], n + 1 \in 1..Len(t)
      PROVE  f[n + 1 + 1] = h \o g[n + 1]
  <2>1. n + 1 \in 1..(Len(s) - 1) /\ Len(t) # 0
    BY <1>5, <1>10, Zenon
  <2>2. t[n + 1] = s[n + 1 + 1] /\ t[n + 1] \in Seq(S)
    BY <1>5, <1>11, Zenon
  <2>3. f[n + 1 + 1] = f[n + 1] \o t[n + 1]
    <3>1. f[n + 1 + 1] = f[n + 1] \o s[n + 1 + 1]
      BY <1>2, <2>1 DEF Stepwise
    <3> QED
      BY <2>2, <3>1
  <2>4. CASE n = 0
    <3>1. g[1] = t[1] /\ n + 1 = 1
      BY <1>3, <2>1, <2>4 DEF Stepwise
    <3>2. f[n + 1] = h /\ g[n + 1] = t[n + 1]
      BY <1>4, <3>1
    <3> QED
      BY <2>3, <3>2
  <2>5. CASE n # 0
    <3>1. n \in 1..Len(t) /\ n \in 1..(Len(t) - 1)
      BY <1>5, <1>10, <2>5, Zenon
    <3>2. f[n + 1] = h \o g[n]
      BY <1>5, <3>1
    <3>3. g[n + 1] = g[n] \o t[n + 1] /\ g[n] \in Seq(S)
      BY <1>3, <3>1 DEF Stepwise
    <3>4. (h \o g[n]) \o t[n + 1] = h \o (g[n] \o t[n + 1])
      BY <1>12, <2>2, <3>3, Zenon
    <3> QED
      BY <2>3, <3>2, <3>3, <3>4
  <2> QED
    BY <2>4, <2>5
<1> DEFINE T == {n \in Nat : n \in 1..Len(t) => f[n + 1] = h \o g[n]}
<1>6. 0 \in T /\ \A n \in Nat : n \in T => n + 1 \in T
  <2>1. ~(0 \in 1..Len(t))
    OBVIOUS
  <2>2. ASSUME NEW n \in Nat, n \in T PROVE n + 1 \in T
    <3>1. n \in 1..Len(t) => f[n + 1] = h \o g[n]
      BY <2>2, Zenon
    <3>2. n + 1 \in 1..Len(t) => f[n + 1 + 1] = h \o g[n + 1]
      BY <1>5, <3>1, Zenon
    <3> QED
      BY <3>2
  <2> QED
    BY <2>1, <2>2
<1> HIDE DEF T
<1>7. \A i \in 1..Len(t) : f[i + 1] = h \o g[i]
  <2>1. Nat \subseteq T
    BY <1>6, NaturalInduction
  <2>2. \A i \in 1..Len(t) : i \in T
    BY <2>1
  <2> QED
    BY <2>2 DEF T
<1>8. CASE Len(t) = 0
  <2>1. Len(s) = 1
    BY <1>1, <1>8
  <2>2. FlattenSeq(s) = h /\ FlattenSeq(t) = <<>>
    BY <1>2, <1>3, <1>4, <1>8, <2>1 DEF Stepwise
  <2> QED
    BY <1>1, <2>2, ConcatEmptySeq DEF t, h
<1>9. CASE Len(t) # 0
  <2>1. Len(t) \in 1..Len(t) /\ Len(t) + 1 = Len(s)
    BY <1>1, <1>9
  <2>2. FlattenSeq(s) = f[Len(s)] /\ FlattenSeq(t) = g[Len(t)]
    BY <1>1, <1>2, <1>3, <1>9 DEF Stepwise
  <2>3. FlattenSeq(s) = h \o FlattenSeq(t)
    BY <1>7, <2>1, <2>2
  <2> QED
    BY <2>3 DEF t, h
<1> QED
  BY <1>8, <1>9

-----------------------------------------------------------------------------
(* Numbers of several bytes                                                *)

LEMMA Division ==
  ASSUME NEW n \in Nat
  PROVE  /\ n \div Base \in Nat /\ n % Base \in 0..(Base - 1)
         /\ n = Base * (n \div Base) + (n % Base)
         /\ n >= Base => n \div Base \in 1..(n - 1)
<1>1. Base \in Nat \ {0, 1}
  BY FramingAssumption
<1>2. n % Base = n - Base * (n \div Base)
  BY <1>1, SMTT(60)
<1>3. n \div Base \in Nat /\ n % Base \in 0..(Base - 1)
  BY <1>1
<1>4. n >= Base => n \div Base \in 1..(n - 1)
  BY <1>1
<1>5. Base * (n \div Base) \in Nat
  BY <1>1, <1>3
<1> QED
  BY <1>2, <1>3, <1>4, <1>5

LEMMA Continued ==
  ASSUME NEW r \in 0..(Base - 1)
  PROVE  (Base + r) % Base = r /\ r % Base = r /\ Base + r \in Byte /\ r \in Byte
<1>1. Base \in Nat \ {0, 1}
  BY FramingAssumption
<1>2. (Base + r) % Base = r
  BY <1>1
<1>3. r % Base = r
  BY <1>1
<1> QED
  BY <1>1, <1>2, <1>3 DEF Byte

(* What Varint and Power say of a number when f says it of smaller ones.   *)
Encoding(f, n) == IF n < Base THEN <<n>> ELSE <<Base + (n % Base)>> \o f[n \div Base]

Encodes(f, n) == f = [i \in 0..n |-> Encoding(f, i)]

LEMMA EncodesExists ==
  ASSUME NEW n \in Nat
  PROVE  \E f : Encodes(f, n)
<1> DEFINE T == {m \in Nat : \E f : Encodes(f, m)}
<1>0. Base \in Nat \ {0, 1}
  BY FramingAssumption
<1>1. 0 \in T
  <2> DEFINE f == [i \in 0..0 |-> <<i>>]
  <2>1. f = [i \in 0..0 |-> Encoding(f, i)]
    BY <1>0 DEF Encoding
  <2> QED
    BY <2>1 DEF Encodes
<1>2. ASSUME NEW m \in Nat, m \in T PROVE m + 1 \in T
  <2>1. PICK f : f = [i \in 0..m |-> Encoding(f, i)]
    BY <1>2 DEF Encodes
  <2> DEFINE g == [i \in 0..(m + 1) |-> IF i = m + 1 THEN Encoding(f, i) ELSE f[i]]
  <2>2. \A i \in 0..(m + 1) : g[i] = Encoding(g, i)
    <3>1. \A i \in 0..m : g[i] = f[i]
      OBVIOUS
    <3>2. g[m + 1] = Encoding(f, m + 1)
      OBVIOUS
    <3> HIDE DEF g
    <3>3. \A i \in 0..(m + 1) : ~(i < Base) => i \div Base \in 0..m
      <4> TAKE i \in 0..(m + 1)
      <4>1. i \in Nat /\ (i >= Base => i \div Base \in 1..(i - 1))
        BY Division
      <4> QED
        BY <1>0, <4>1
    <3>4. \A i \in 0..(m + 1) : Encoding(g, i) = Encoding(f, i)
      BY <3>1, <3>3 DEF Encoding
    <3>5. \A i \in 0..m : f[i] = Encoding(f, i)
      BY <2>1
    <3> QED
      BY <3>1, <3>2, <3>4, <3>5
  <2>3. g = [i \in 0..(m + 1) |-> g[i]]
    OBVIOUS
  <2> HIDE DEF g
  <2>4. g = [i \in 0..(m + 1) |-> Encoding(g, i)]
    BY <2>2, <2>3
  <2> QED
    BY <2>4 DEF Encodes
<1> HIDE DEF T
<1>3. n \in T
  BY <1>1, <1>2, NaturalInduction
<1> QED
  BY <1>3 DEF T

(* Two of these functions agree as far as both go.                         *)
LEMMA EncodesAgree ==
  ASSUME NEW m \in Nat, NEW f, Encodes(f, m), NEW n \in Nat, NEW g, Encodes(g, n),
         NEW i \in Nat, i <= m, i <= n
  PROVE  f[i] = g[i]
<1> DEFINE T == {k \in Nat : \A j \in 0..k : j <= m /\ j <= n => f[j] = g[j]}
<1>1. \A j \in 0..m : f[j] = Encoding(f, j)
  BY DEF Encodes
<1>2. \A j \in 0..n : g[j] = Encoding(g, j)
  BY DEF Encodes
<1>3. Base \in Nat \ {0, 1}
  BY FramingAssumption
<1>4. 0 \in T
  <2>1. 0 \in 0..m /\ 0 \in 0..n /\ 0 < Base
    BY <1>3
  <2>2. f[0] = <<0>> /\ g[0] = <<0>>
    BY <1>1, <1>2, <2>1 DEF Encoding
  <2> QED
    BY <2>2
<1>5. ASSUME NEW k \in Nat, \A j \in 0..k : j <= m /\ j <= n => f[j] = g[j],
             NEW j \in 0..(k + 1), j <= m, j <= n
      PROVE  f[j] = g[j]
  <2>1. f[j] = Encoding(f, j) /\ g[j] = Encoding(g, j)
    BY <1>1, <1>2, <1>5
  <2>2. CASE j < Base
    BY <2>1, <2>2 DEF Encoding
  <2>3. CASE ~(j < Base)
    <3>1. j \in Nat
      OBVIOUS
    <3>5. j >= Base
      BY <1>3, <2>3, <3>1
    <3>2. j \div Base \in 1..(j - 1)
      BY <3>1, <3>5, Division
    <3>3. j \div Base \in 0..k /\ j \div Base <= m /\ j \div Base <= n
      BY <1>5, <3>2
    <3>4. f[j \div Base] = g[j \div Base]
      BY <1>5, <3>3
    <3> QED
      BY <2>1, <2>3, <3>4 DEF Encoding
  <2> QED
    BY <2>2, <2>3
<1>6. ASSUME NEW k \in Nat, k \in T PROVE k + 1 \in T
  BY <1>5, <1>6
<1> HIDE DEF T
<1>7. i \in T
  BY <1>4, <1>6, NaturalInduction
<1> QED
  BY <1>7 DEF T

(* The function that Varint defines by recursion exists.                   *)
LEMMA VarintFunction == Varint = [n \in Nat |-> Encoding(Varint, n)]
<1> DEFINE F == [n \in Nat |-> (CHOOSE f : Encodes(f, n))[n]]
<1>1. ASSUME NEW n \in Nat PROVE F[n] = Encoding(F, n)
  <2> DEFINE f == CHOOSE f : Encodes(f, n)
  <2>1. Encodes(f, n)
    BY EncodesExists
  <2>2. F[n] = f[n]
    OBVIOUS
  <2> HIDE DEF f
  <2>3. f[n] = Encoding(f, n)
    BY <2>1 DEF Encodes
  <2>4. CASE n < Base
    BY <2>2, <2>3, <2>4 DEF Encoding
  <2>5. CASE ~(n < Base)
    <3> DEFINE k == n \div Base
               g == CHOOSE h : Encodes(h, k)
    <3>1. k \in 1..(n - 1)
      <4>1. n >= Base
        BY <2>5, FramingAssumption
      <4> QED
        BY <4>1, Division
    <3>2. Encodes(g, k)
      <4>1. k \in Nat
        BY <3>1
      <4> QED
        BY <4>1, EncodesExists
    <3>3. F[k] = g[k]
      BY <3>1
    <3> HIDE DEF g, k
    <3>4. k \in Nat /\ k <= n /\ k <= k
      BY <3>1
    <3>5. f[k] = g[k]
      BY <2>1, <3>2, <3>4, EncodesAgree
    <3>6. f[k] = F[k]
      BY <3>3, <3>5
    <3> HIDE DEF F
    <3> QED
      BY <2>2, <2>3, <2>5, <3>6 DEF Encoding, k
  <2> QED
    BY <2>4, <2>5
<1>2. F = [n \in Nat |-> F[n]]
  OBVIOUS
<1> HIDE DEF F
<1>3. F = [n \in Nat |-> Encoding(F, n)]
  BY <1>1, <1>2
<1>4. \E f : f = [n \in Nat |-> Encoding(f, n)]
  BY <1>3
<1>5. Varint = CHOOSE f : f = [n \in Nat |-> Encoding(f, n)]
  BY DEF Varint, Encoding
<1> QED
  BY <1>4, <1>5

LEMMA VarintSteps ==
  ASSUME NEW n \in Nat
  PROVE  /\ n < Base => Varint[n] = <<n>>
         /\ n >= Base => Varint[n] = <<Base + (n % Base)>> \o Varint[n \div Base]
<1>1. Varint[n] = Encoding(Varint, n)
  BY VarintFunction
<1>2. Base \in Nat
  BY FramingAssumption
<1>3. n >= Base <=> ~(n < Base)
  BY <1>2
<1> QED
  BY <1>1, <1>2, <1>3 DEF Encoding

(* An encoding has bytes, at least one and at most as many as it counts.   *)
LEMMA VarintBytes ==
  ASSUME NEW n \in Nat
  PROVE  Varint[n] \in Seq(Byte) /\ Len(Varint[n]) \in Nat \ {0} /\ (n # 0 => Len(Varint[n]) <= n)
<1> DEFINE P(k) == /\ Varint[k] \in Seq(Byte) /\ Len(Varint[k]) \in Nat \ {0}
                   /\ k # 0 => Len(Varint[k]) <= k
<1>0. Base \in Nat \ {0, 1}
  BY FramingAssumption
<1>1. ASSUME NEW k \in Nat, \A j \in Nat : j < k => P(j) PROVE P(k)
  <2>1. CASE k < Base
    <3>1. Varint[k] = <<k>>
      BY <2>1, VarintSteps
    <3>2. k \in Byte
      BY <1>0, <2>1 DEF Byte
    <3>3. Len(Varint[k]) = 1 /\ Varint[k] \in Seq(Byte)
      BY <3>1, <3>2
    <3> QED
      BY <3>3
  <2>2. CASE ~(k < Base)
    <3> DEFINE q == k \div Base
               b == Base + (k % Base)
               v == Varint[q]
    <3>6. k >= Base
      BY <1>0, <2>2
    <3>7. q \in 1..(k - 1) /\ k % Base \in 0..(Base - 1)
      BY <3>6, Division
    <3>1. q \in 1..(k - 1) /\ b \in Byte
      BY <3>7, Continued
    <3>2. Varint[k] = <<b>> \o v
      BY <1>0, <2>2, VarintSteps
    <3>3. v \in Seq(Byte) /\ Len(v) \in Nat \ {0} /\ Len(v) <= q
      BY <1>1, <3>1
    <3> HIDE DEF q, b, v
    <3>4. <<b>> \in Seq(Byte) /\ Len(<<b>>) = 1
      BY <3>1
    <3>5. <<b>> \o v \in Seq(Byte) /\ Len(<<b>> \o v) = 1 + Len(v)
      BY <3>3, <3>4, ConcatProperties
    <3> QED
      BY <3>1, <3>2, <3>3, <3>5
  <2> QED
    BY <2>1, <2>2
<1> HIDE DEF P
<1> DEFINE T == {m \in Nat : \A k \in 0..m : P(k)}
<1>2. 0 \in T
  <2>1. P(0)
    BY <1>1
  <2> QED
    BY <2>1
<1>3. ASSUME NEW m \in Nat, m \in T PROVE m + 1 \in T
  <2>1. \A j \in Nat : j < m + 1 => P(j)
    BY <1>3
  <2>2. P(m + 1)
    BY <1>1, <2>1
  <2> QED
    BY <2>1, <2>2
<1> HIDE DEF T
<1>4. n \in T
  BY <1>2, <1>3, NaturalInduction
<1>5. P(n)
  BY <1>4 DEF T
<1> QED
  BY <1>5 DEF P

(* The powers of Base, and where the length of an encoding lies between    *)
(* them: client_handler::get_length_of_varint is exact.                    *)
Powers(f, k) == IF k = 0 THEN 1 ELSE Base * f[k - 1]

LEMMA PowersExist ==
  ASSUME NEW n \in Nat
  PROVE  \E f : f = [i \in 0..n |-> Powers(f, i)]
<1> DEFINE T == {m \in Nat : \E f : f = [i \in 0..m |-> Powers(f, i)]}
<1>1. 0 \in T
  <2> DEFINE f == [i \in 0..0 |-> 1]
  <2>1. f = [i \in 0..0 |-> Powers(f, i)]
    BY DEF Powers
  <2> QED
    BY <2>1
<1>2. ASSUME NEW m \in Nat, m \in T PROVE m + 1 \in T
  <2>1. PICK f : f = [i \in 0..m |-> Powers(f, i)]
    BY <1>2
  <2> DEFINE g == [i \in 0..(m + 1) |-> IF i = m + 1 THEN Powers(f, i) ELSE f[i]]
  <2>2. \A i \in 0..(m + 1) : g[i] = Powers(g, i)
    <3>1. \A i \in 0..m : g[i] = f[i]
      OBVIOUS
    <3>2. g[m + 1] = Powers(f, m + 1)
      OBVIOUS
    <3> HIDE DEF g
    <3>3. \A i \in 0..(m + 1) : i # 0 => i - 1 \in 0..m
      OBVIOUS
    <3>4. \A i \in 0..(m + 1) : Powers(g, i) = Powers(f, i)
      BY <3>1, <3>3 DEF Powers
    <3>5. \A i \in 0..m : f[i] = Powers(f, i)
      BY <2>1
    <3> QED
      BY <3>1, <3>2, <3>4, <3>5
  <2>3. g = [i \in 0..(m + 1) |-> g[i]]
    OBVIOUS
  <2> HIDE DEF g
  <2>4. g = [i \in 0..(m + 1) |-> Powers(g, i)]
    BY <2>2, <2>3
  <2> QED
    BY <2>4
<1> HIDE DEF T
<1>3. n \in T
  BY <1>1, <1>2, NaturalInduction
<1> QED
  BY <1>3 DEF T

LEMMA PowersAgree ==
  ASSUME NEW m \in Nat, NEW f, f = [i \in 0..m |-> Powers(f, i)],
         NEW n \in Nat, NEW g, g = [i \in 0..n |-> Powers(g, i)],
         NEW i \in Nat, i <= m, i <= n
  PROVE  f[i] = g[i]
<1> DEFINE T == {k \in Nat : k <= m /\ k <= n => f[k] = g[k]}
<1>1. \A j \in 0..m : f[j] = Powers(f, j)
  OBVIOUS
<1>2. \A j \in 0..n : g[j] = Powers(g, j)
  OBVIOUS
<1>3. 0 \in T
  BY <1>1, <1>2 DEF Powers
<1>4. ASSUME NEW k \in Nat, k \in T, k + 1 <= m, k + 1 <= n PROVE f[k + 1] = g[k + 1]
  <2>1. f[k] = g[k] /\ k + 1 # 0 /\ k + 1 \in 0..m /\ k + 1 \in 0..n /\ k + 1 - 1 = k
    BY <1>4
  <2>2. Powers(f, k + 1) = Powers(g, k + 1)
    BY <2>1 DEF Powers
  <2> QED
    BY <1>1, <1>2, <2>1, <2>2
<1>5. ASSUME NEW k \in Nat, k \in T PROVE k + 1 \in T
  <2>1. k + 1 \in Nat
    OBVIOUS
  <2>2. k + 1 <= m /\ k + 1 <= n => f[k + 1] = g[k + 1]
    BY <1>4, <1>5
  <2> QED
    BY <2>1, <2>2
<1> HIDE DEF T
<1>6. i \in T
  BY <1>3, <1>5, NaturalInduction
<1> QED
  BY <1>6 DEF T

LEMMA PowerFunction == Power = [k \in Nat |-> Powers(Power, k)]
<1> DEFINE Up(f, n) == f = [i \in 0..n |-> Powers(f, i)]
           F == [n \in Nat |-> (CHOOSE f : Up(f, n))[n]]
<1>1. ASSUME NEW n \in Nat PROVE F[n] = Powers(F, n)
  <2> DEFINE f == CHOOSE f : Up(f, n)
  <2>1. Up(f, n)
    BY PowersExist
  <2>2. F[n] = f[n]
    OBVIOUS
  <2> HIDE DEF f
  <2>3. f[n] = Powers(f, n)
    BY <2>1
  <2>4. CASE n = 0
    BY <2>2, <2>3, <2>4 DEF Powers
  <2>5. CASE n # 0
    <3> DEFINE k == n - 1
               g == CHOOSE h : Up(h, k)
    <3>1. k \in Nat /\ k <= n /\ k <= k
      BY <2>5
    <3>2. Up(g, k)
      BY <3>1, PowersExist
    <3>3. F[k] = g[k]
      BY <3>1
    <3> HIDE DEF g, k
    <3>4. f[k] = g[k]
      BY <2>1, <3>1, <3>2, PowersAgree
    <3>5. f[k] = F[k]
      BY <3>3, <3>4
    <3> HIDE DEF F
    <3> QED
      BY <2>2, <2>3, <2>5, <3>5 DEF Powers, k
  <2> QED
    BY <2>4, <2>5
<1>2. F = [n \in Nat |-> F[n]]
  OBVIOUS
<1> HIDE DEF F
<1>3. F = [n \in Nat |-> Powers(F, n)]
  BY <1>1, <1>2
<1>4. \E f : f = [n \in Nat |-> Powers(f, n)]
  BY <1>3
<1>5. Power = CHOOSE f : f = [n \in Nat |-> Powers(f, n)]
  BY DEF Power, Powers
<1> QED
  BY <1>4, <1>5

LEMMA PowerSteps ==
  /\ Power[0] = 1
  /\ \A k \in Nat : Power[k + 1] = Base * Power[k]
<1>1. \A k \in Nat : Power[k] = Powers(Power, k)
  BY PowerFunction
<1>2. Power[0] = 1
  BY <1>1 DEF Powers
<1>3. ASSUME NEW k \in Nat PROVE Power[k + 1] = Base * Power[k]
  <2>1. k + 1 # 0 /\ k + 1 - 1 = k /\ k + 1 \in Nat
    OBVIOUS
  <2> QED
    BY <1>1, <2>1 DEF Powers
<1> QED
  BY <1>2, <1>3

LEMMA PowerGrows ==
  /\ \A k \in Nat : Power[k] \in Nat
  /\ \A k \in Nat, d \in Nat : Power[k] <= Power[k + d]
<1>0. Base \in Nat \ {0, 1}
  BY FramingAssumption
<1> DEFINE T == {k \in Nat : Power[k] \in Nat}
<1>1. 0 \in T
  BY PowerSteps
<1>2. ASSUME NEW k \in Nat, k \in T PROVE k + 1 \in T
  <2>1. Base * Power[k] \in Nat
    BY <1>0, <1>2
  <2> QED
    BY <2>1, PowerSteps
<1> HIDE DEF T
<1>3. \A k \in Nat : Power[k] \in Nat
  <2>1. Nat \subseteq T
    BY <1>1, <1>2, NaturalInduction
  <2> QED
    BY <2>1 DEF T
<1>4. ASSUME NEW k \in Nat PROVE \A d \in Nat : Power[k] <= Power[k + d]
  <2> DEFINE U == {d \in Nat : Power[k] <= Power[k + d]}
  <2>1. 0 \in U
    BY <1>3
  <2>2. ASSUME NEW d \in Nat, Power[k] <= Power[k + d] PROVE Power[k] <= Power[k + (d + 1)]
    <3>1. k + (d + 1) = (k + d) + 1 /\ k + d \in Nat
      OBVIOUS
    <3>2. Power[k + (d + 1)] = Base * Power[k + d]
      BY <3>1, PowerSteps
    <3> DEFINE p == Power[k + d]
               q == Power[k]
    <3>3. p \in Nat /\ q \in Nat /\ q <= p
      BY <1>3, <2>2, <3>1
    <3> HIDE DEF p, q
    <3>4. q <= Base * p
      BY <1>0, <3>3
    <3> QED
      BY <3>2, <3>4 DEF p, q
  <2>3. ASSUME NEW d \in Nat, d \in U PROVE d + 1 \in U
    BY <2>2, <2>3
  <2> HIDE DEF U
  <2>4. Nat \subseteq U
    BY <2>1, <2>3, NaturalInduction
  <2> QED
    BY <2>4 DEF U
<1> QED
  BY <1>3, <1>4

LEMMA VarintBetweenPowers ==
  ASSUME NEW n \in Nat, n # 0
  PROVE  Power[Len(Varint[n])] >= n + 1 /\ Power[Len(Varint[n]) - 1] < n + 1
<1> DEFINE P(k) == Power[Len(Varint[k])] >= k + 1 /\ Power[Len(Varint[k]) - 1] < k + 1
<1>0. Base \in Nat \ {0, 1}
  BY FramingAssumption
<1>1. ASSUME NEW k \in Nat, k # 0, \A j \in Nat : j # 0 /\ j < k => P(j) PROVE P(k)
  <2>1. CASE k < Base
    <3>1. Len(Varint[k]) = 1
      <4>1. Varint[k] = <<k>>
        BY <2>1, VarintSteps
      <4> QED
        BY <4>1
    <3>2. Power[1] = Base /\ Power[0] = 1
      <4>1. Power[0] = 1 /\ Power[0 + 1] = Base * Power[0]
        BY PowerSteps
      <4> QED
        BY <1>0, <4>1
    <3>3. Power[1] >= k + 1 /\ Power[1 - 1] < k + 1
      BY <1>0, <1>1, <2>1, <3>2
    <3> QED
      BY <3>1, <3>3
  <2>2. CASE ~(k < Base)
    <3> DEFINE q == k \div Base
               l == Len(Varint[q])
               r == k % Base
    <3>1. k >= Base
      BY <1>0, <2>2
    <3>2. q \in 1..(k - 1) /\ r \in 0..(Base - 1) /\ k = Base * q + r
      BY <3>1, Division
    <3>3. P(q)
      BY <1>1, <3>2
    <3>4. l \in Nat \ {0} /\ Len(Varint[k]) = 1 + l
      <4>1. q \in Nat
        BY <3>2
      <4>2. Varint[q] \in Seq(Byte) /\ Len(Varint[q]) \in Nat \ {0}
        BY <4>1, VarintBytes
      <4>3. Varint[k] = <<Base + r>> \o Varint[q]
        BY <3>1, VarintSteps
      <4>4. <<Base + r>> \in Seq(Byte) /\ Len(<<Base + r>>) = 1
        BY <3>2, Continued
      <4>5. Len(<<Base + r>> \o Varint[q]) = 1 + Len(Varint[q])
        <5> DEFINE a == <<Base + r>>
        <5>1. a \in Seq(Byte) /\ Len(a) = 1
          BY <4>4
        <5> HIDE DEF a
        <5>2. Len(a \o Varint[q]) = Len(a) + Len(Varint[q])
          BY <4>2, <5>1, ConcatProperties
        <5> QED
          BY <5>1, <5>2 DEF a
      <4> QED
        BY <4>2, <4>3, <4>5
    <3> DEFINE u == Power[l]
               d == Power[l - 1]
    <3>5. u \in Nat /\ d \in Nat /\ u >= q + 1 /\ d < q + 1
      BY <3>3, <3>4, PowerGrows
    <3>6. Power[1 + l] = Base * u /\ Power[l] = Base * d
      <4>1. 1 + l = l + 1 /\ l - 1 \in Nat /\ (l - 1) + 1 = l /\ l \in Nat
        BY <3>4
      <4>2. Power[l + 1] = Base * Power[l] /\ Power[(l - 1) + 1] = Base * Power[l - 1]
        BY <4>1, PowerSteps
      <4> QED
        BY <4>1, <4>2
    <3>7. Len(Varint[k]) - 1 = l
      BY <3>4
    <3> HIDE DEF q, l, r, u, d
    <3>8. Base * u >= Base * (q + 1) /\ Base * d <= Base * q
      BY <1>0, <3>2, <3>5
    <3>9. Base * (q + 1) = Base * q + Base
      BY <1>0, <3>2
    <3>10. Base * u >= k + 1 /\ Base * d < k + 1
      <4> DEFINE x == Base * u
                 y == Base * d
                 z == Base * q
      <4>1. x \in Nat /\ y \in Nat /\ z \in Nat
        BY <1>0, <3>2, <3>5
      <4>2. x >= z + Base /\ y <= z /\ k = z + r
        BY <3>2, <3>8, <3>9
      <4> HIDE DEF x, y, z
      <4>3. x >= k + 1 /\ y < k + 1
        BY <1>0, <3>2, <4>1, <4>2
      <4> QED
        BY <4>3 DEF x, y
    <3> QED
      BY <3>4, <3>6, <3>7, <3>10
  <2> QED
    BY <2>1, <2>2
<1> HIDE DEF P
<1> DEFINE T == {m \in Nat : \A k \in 0..m : k # 0 => P(k)}
<1>2. 0 \in T
  OBVIOUS
<1>3. ASSUME NEW m \in Nat, m \in T PROVE m + 1 \in T
  <2>1. \A j \in Nat : j # 0 /\ j < m + 1 => P(j)
    BY <1>3
  <2>2. P(m + 1)
    BY <1>1, <2>1
  <2> QED
    BY <2>1, <2>2
<1> HIDE DEF T
<1>4. n \in T
  BY <1>2, <1>3, NaturalInduction
<1>5. P(n)
  BY <1>4 DEF T
<1> QED
  BY <1>5 DEF P

LEMMA LengthExact ==
  ASSUME NEW n \in Nat
  PROVE  LengthOfVarint(n) = Len(Varint[n])
<1>1. CASE n = 0
  <2>1. n < Base
    BY <1>1, FramingAssumption
  <2>2. Varint[n] = <<n>>
    BY <2>1, VarintSteps
  <2> QED
    BY <1>1, <2>2 DEF LengthOfVarint
<1>2. CASE n # 0
  <2> DEFINE l == Len(Varint[n])
             k == CHOOSE k \in 1..n : Power[k] >= n + 1 /\ Power[k - 1] < n + 1
  <2>1. l \in 1..n /\ Power[l] >= n + 1 /\ Power[l - 1] < n + 1
    BY <1>2, VarintBytes, VarintBetweenPowers, SMTT(30)
  <2> HIDE DEF l
  <2>2. k \in 1..n /\ Power[k] >= n + 1 /\ Power[k - 1] < n + 1
    BY <2>1
  <2>3. LengthOfVarint(n) = k
    BY <1>2 DEF LengthOfVarint
  <2> HIDE DEF k
  <2>4. ASSUME NEW a \in 1..n, NEW b \in 1..n, a < b,
               Power[a] >= n + 1, Power[b - 1] < n + 1
        PROVE FALSE
    <3>1. a \in Nat /\ (b - 1) - a \in Nat /\ a + ((b - 1) - a) = b - 1 /\ b - 1 \in Nat
      BY <2>4
    <3>2. Power[a] <= Power[a + ((b - 1) - a)]
      BY <3>1, PowerGrows
    <3>3. Power[a] \in Nat /\ Power[b - 1] \in Nat /\ Power[a] <= Power[b - 1]
      BY <3>1, <3>2, PowerGrows
    <3> QED
      BY <2>4, <3>3
  <2>5. ~(k < l) /\ ~(l < k)
    BY <2>1, <2>2, <2>4
  <2>6. k = l
    BY <2>1, <2>2, <2>5
  <2> QED
    BY <2>3, <2>6 DEF l
<1> QED
  BY <1>1, <1>2

(* The two numbers of a message fit into their room: write_message sends   *)
(* exactly the message.                                                    *)
Encoded(m) == Varint[m.type] \o Varint[Len(m.payload)] \o m.payload

LEMMA WritesMessage ==
  ASSUME NEW m \in Messages
  PROVE  /\ WriteMessage(m) = Encoded(m)
         /\ m.type \in Nat /\ m.payload \in Seq(Byte) /\ Len(m.payload) \in Nat
         /\ Len(Varint[m.type]) <= VarintLimit /\ Len(Varint[Len(m.payload)]) <= VarintLimit
         /\ m = [type |-> m.type, payload |-> m.payload]
<1>1. /\ m.type \in Nat /\ m.payload \in Seq(Byte)
      /\ Len(Varint[m.type]) <= VarintLimit /\ Len(Varint[Len(m.payload)]) <= VarintLimit
      /\ m = [type |-> m.type, payload |-> m.payload]
  <2>1. m \in [type : Nat, payload : Seq(Byte)]
    BY FramingAssumption
  <2>2. \A n \in {m.type, Len(m.payload)} : Len(Varint[n]) <= VarintLimit
    BY FramingAssumption
  <2> QED
    BY <2>1, <2>2
<1> DEFINE t == Varint[m.type]
           l == Varint[Len(m.payload)]
           p == m.payload
<1>2. Len(m.payload) \in Nat
  BY <1>1
<1>3. t \in Seq(Byte) /\ l \in Seq(Byte) /\ p \in Seq(Byte)
  BY <1>1, <1>2, VarintBytes
<1>4. LengthOfVarint(m.type) = Len(t) /\ LengthOfVarint(Len(m.payload)) = Len(l)
  BY <1>1, <1>2, LengthExact
<1> DEFINE bytes == t \o l \o p
           room == LengthOfVarint(m.type) + LengthOfVarint(Len(m.payload)) + Len(m.payload)
<1>5. bytes \in Seq(Byte) /\ Len(bytes) = room
  <2> HIDE DEF t, l, p
  <2>1. t \o l \in Seq(Byte) /\ Len(t \o l) = Len(t) + Len(l)
    BY <1>3, ConcatProperties
  <2>2. Len((t \o l) \o p) = Len(t) + Len(l) + Len(p) /\ (t \o l) \o p \in Seq(Byte)
    BY <1>3, <2>1, ConcatProperties
  <2> QED
    BY <1>4, <2>2 DEF p
<1>6. WriteMessage(m) = IF Len(bytes) > room THEN <<>>
                        ELSE bytes \o [i \in 1..(room - Len(bytes)) |-> 0]
  BY DEF WriteMessage
<1> HIDE DEF bytes, room, t, l, p
<1>7. Len(bytes) \in Nat /\ ~(Len(bytes) > room) /\ room - Len(bytes) = 0
  BY <1>5
<1>8. [i \in 1..(room - Len(bytes)) |-> 0] = <<>>
  BY <1>7
<1>9. WriteMessage(m) = bytes
  BY <1>5, <1>6, <1>7, <1>8, ConcatEmptySeq
<1> QED
  BY <1>1, <1>2, <1>9 DEF Encoded, bytes, t, l, p

-----------------------------------------------------------------------------
(* The input buffer                                                        *)

(* What is buffered and not read yet.                                      *)
Unread(b) == SubSeq(b.record, b.offset + 1, Len(b.record)) \o FlattenSeq(b.records)

InputShape(b) ==
  /\ b = [records |-> b.records, record |-> b.record, offset |-> b.offset,
          limit |-> b.limit, streamsize |-> b.streamsize]
  /\ b.records \in Seq(Seq(Byte)) /\ b.record \in Seq(Byte)
  /\ b.offset \in 0..Len(b.record) /\ b.limit \in Int

InputOK(b) ==
  /\ InputShape(b)
  /\ b.streamsize = Len(b.record) - b.offset + Len(FlattenSeq(b.records))

LEMMA UnreadFacts ==
  ASSUME NEW b, InputShape(b)
  PROVE  /\ FlattenSeq(b.records) \in Seq(Byte)
         /\ Unread(b) \in Seq(Byte)
         /\ Len(Unread(b)) = Len(b.record) - b.offset + Len(FlattenSeq(b.records))
<1> DEFINE s == SubSeq(b.record, b.offset + 1, Len(b.record))
           f == FlattenSeq(b.records)
<1>1. s \in Seq(Byte) /\ Len(s) = Len(b.record) - b.offset
  BY SplitAt DEF InputShape
<1>2. f \in Seq(Byte)
  BY FlattenType DEF InputShape
<1> HIDE DEF s, f
<1>3. s \o f \in Seq(Byte) /\ Len(s \o f) = Len(s) + Len(f)
  BY <1>1, <1>2, ConcatProperties
<1> QED
  BY <1>1, <1>2, <1>3 DEF Unread, s, f

LEMMA SizeExact ==
  ASSUME NEW b, InputOK(b)
  PROVE  b.streamsize = Len(Unread(b)) /\ b.streamsize \in Nat
<1>1. b.streamsize = Len(Unread(b)) /\ Unread(b) \in Seq(Byte)
  BY UnreadFacts DEF InputOK
<1> QED
  BY <1>1

LEMMA FlattenNothing == FlattenSeq(<<>>) = <<>>
<1>1. <<>> \in Seq(Seq(Byte)) /\ Len(<<>>) = 0
  OBVIOUS
<1>2. \E f : Stepwise(Byte, <<>>, f)
  BY <1>1, FlattenSteps
<1> QED
  BY <1>1, <1>2 DEF Stepwise

LEMMA EmptyOK ==
  InputOK(EmptyBuffer) /\ Unread(EmptyBuffer) = <<>> /\ EmptyBuffer.limit = VarintLimit
<1>1. VarintLimit \in Nat
  BY FramingAssumption
<1>2. InputOK(EmptyBuffer)
  BY <1>1, FlattenNothing DEF InputOK, InputShape, EmptyBuffer
<1>3. EmptyBuffer.streamsize = 0
  BY DEF EmptyBuffer
<1>4. Unread(EmptyBuffer) \in Seq(Byte) /\ Len(Unread(EmptyBuffer)) = 0
  BY <1>2, <1>3, SizeExact, UnreadFacts DEF InputOK
<1> QED
  BY <1>2, <1>4, EmptySeq DEF EmptyBuffer

(* next says that there is something exactly when there is, and it may be  *)
(* read.                                                                   *)
LEMMA HasNextExact ==
  ASSUME NEW b, InputOK(b)
  PROVE  HasNext(b) <=> b.limit > 0 /\ b.streamsize > 0
<1>1. b.offset < Len(b.record) \/ b.records # <<>> \/ b.streamsize = 0
  <2> SUFFICES ASSUME ~(b.offset < Len(b.record)), b.records = <<>> PROVE b.streamsize = 0
    OBVIOUS
  <2>1. b.offset = Len(b.record) /\ b.offset \in Nat
    BY DEF InputOK, InputShape
  <2>2. Len(FlattenSeq(b.records)) = 0
    BY FlattenNothing
  <2> QED
    BY <2>1, <2>2 DEF InputOK
<1>2. b.limit \in Int /\ b.streamsize \in Nat
  BY SizeExact DEF InputOK, InputShape
<1> QED
  BY <1>1, <1>2 DEF HasNext

LEMMA BufferChanges ==
  ASSUME NEW b, NEW r, NEW s, NEW o, NEW l, NEW n,
         b = [records |-> r, record |-> s, offset |-> o, limit |-> l, streamsize |-> n],
         NEW u, NEW v, NEW w, NEW y
  PROVE  /\ [b EXCEPT !.records = u, !.streamsize = v] =
              [records |-> u, record |-> s, offset |-> o, limit |-> l, streamsize |-> v]
         /\ [b EXCEPT !.record = u, !.records = v, !.offset = w] =
              [records |-> v, record |-> u, offset |-> w, limit |-> l, streamsize |-> n]
         /\ [b EXCEPT !.limit = u, !.offset = v, !.streamsize = w] =
              [records |-> r, record |-> s, offset |-> v, limit |-> u, streamsize |-> w]
         /\ [b EXCEPT !.record = u, !.offset = v, !.streamsize = w, !.limit = y] =
              [records |-> r, record |-> u, offset |-> v, limit |-> y, streamsize |-> w]
<1>1. [b EXCEPT !.records = u, !.streamsize = v] =
        [records |-> u, record |-> s, offset |-> o, limit |-> l, streamsize |-> v]
  <2> DEFINE b1 == [b EXCEPT !.records = u]
             b2 == [b1 EXCEPT !.streamsize = v]
  <2>3. [b EXCEPT !.records = u, !.streamsize = v] = b2
    OBVIOUS
  <2>1. b1 = [records |-> u, record |-> s, offset |-> o, limit |-> l, streamsize |-> n]
    OBVIOUS
  <2> HIDE DEF b1
  <2>2. b2 = [records |-> u, record |-> s, offset |-> o, limit |-> l, streamsize |-> v]
    BY <2>1
  <2> HIDE DEF b2
  <2> QED
    BY <2>2, <2>3
<1>2. [b EXCEPT !.record = u, !.records = v, !.offset = w] =
        [records |-> v, record |-> u, offset |-> w, limit |-> l, streamsize |-> n]
  <2> DEFINE b1 == [b EXCEPT !.record = u]
             b2 == [b1 EXCEPT !.records = v]
             b3 == [b2 EXCEPT !.offset = w]
  <2>4. [b EXCEPT !.record = u, !.records = v, !.offset = w] = b3
    OBVIOUS
  <2>1. b1 = [records |-> r, record |-> u, offset |-> o, limit |-> l, streamsize |-> n]
    OBVIOUS
  <2> HIDE DEF b1
  <2>2. b2 = [records |-> v, record |-> u, offset |-> o, limit |-> l, streamsize |-> n]
    BY <2>1
  <2> HIDE DEF b2
  <2>3. b3 = [records |-> v, record |-> u, offset |-> w, limit |-> l, streamsize |-> n]
    BY <2>2
  <2> HIDE DEF b3
  <2> QED
    BY <2>3, <2>4
<1>3. [b EXCEPT !.limit = u, !.offset = v, !.streamsize = w] =
        [records |-> r, record |-> s, offset |-> v, limit |-> u, streamsize |-> w]
  <2> DEFINE b1 == [b EXCEPT !.limit = u]
             b2 == [b1 EXCEPT !.offset = v]
             b3 == [b2 EXCEPT !.streamsize = w]
  <2>4. [b EXCEPT !.limit = u, !.offset = v, !.streamsize = w] = b3
    OBVIOUS
  <2>1. b1 = [records |-> r, record |-> s, offset |-> o, limit |-> u, streamsize |-> n]
    OBVIOUS
  <2> HIDE DEF b1
  <2>2. b2 = [records |-> r, record |-> s, offset |-> v, limit |-> u, streamsize |-> n]
    BY <2>1
  <2> HIDE DEF b2
  <2>3. b3 = [records |-> r, record |-> s, offset |-> v, limit |-> u, streamsize |-> w]
    BY <2>2
  <2> HIDE DEF b3
  <2> QED
    BY <2>3, <2>4
<1>4. [b EXCEPT !.record = u, !.offset = v, !.streamsize = w, !.limit = y] =
        [records |-> r, record |-> u, offset |-> v, limit |-> y, streamsize |-> w]
  <2> DEFINE b1 == [b EXCEPT !.record = u]
             b2 == [b1 EXCEPT !.offset = v]
             b3 == [b2 EXCEPT !.streamsize = w]
             b4 == [b3 EXCEPT !.limit = y]
  <2>5. [b EXCEPT !.record = u, !.offset = v, !.streamsize = w, !.limit = y] = b4
    OBVIOUS
  <2>1. b1 = [records |-> r, record |-> u, offset |-> o, limit |-> l, streamsize |-> n]
    OBVIOUS
  <2> HIDE DEF b1
  <2>2. b2 = [records |-> r, record |-> u, offset |-> v, limit |-> l, streamsize |-> n]
    BY <2>1
  <2> HIDE DEF b2
  <2>3. b3 = [records |-> r, record |-> u, offset |-> v, limit |-> l, streamsize |-> w]
    BY <2>2
  <2> HIDE DEF b3
  <2>4. b4 = [records |-> r, record |-> u, offset |-> v, limit |-> y, streamsize |-> w]
    BY <2>3
  <2> HIDE DEF b4
  <2> QED
    BY <2>4, <2>5
<1> QED
  BY <1>1, <1>2, <1>3, <1>4

LEMMA LimitKeepsBuffer ==
  ASSUME NEW b, InputOK(b), NEW n \in Int
  PROVE  /\ InputOK(UpdateLimit(b, n)) /\ UpdateLimit(b, n).limit = n
         /\ Unread(UpdateLimit(b, n)) = Unread(b)
<1>1. UpdateLimit(b, n) = [records |-> b.records, record |-> b.record, offset |-> b.offset,
                           limit |-> n, streamsize |-> b.streamsize]
  BY DEF InputOK, InputShape, UpdateLimit
<1> DEFINE a == UpdateLimit(b, n)
<1> HIDE DEF a
<1>2. /\ a.records = b.records /\ a.record = b.record /\ a.offset = b.offset
      /\ a.limit = n /\ a.streamsize = b.streamsize
      /\ a = [records |-> a.records, record |-> a.record, offset |-> a.offset,
              limit |-> a.limit, streamsize |-> a.streamsize]
  BY <1>1 DEF a
<1>3. InputOK(a) /\ Unread(a) = Unread(b)
  BY <1>2 DEF InputOK, InputShape, Unread
<1> QED
  BY <1>2, <1>3 DEF a

(* put_data: a record comes behind what is there.                          *)
LEMMA AppendKeepsBuffer ==
  ASSUME NEW b, InputOK(b), NEW d \in Seq(Byte)
  PROVE  /\ InputOK(AppendData(b, d)) /\ AppendData(b, d).limit = b.limit
         /\ Unread(AppendData(b, d)) = Unread(b) \o d
<1> DEFINE a == AppendData(b, d)
           s == SubSeq(b.record, b.offset + 1, Len(b.record))
           f == FlattenSeq(b.records)
<1>1. a = [records |-> Append(b.records, d), record |-> b.record, offset |-> b.offset,
           limit |-> b.limit, streamsize |-> b.streamsize + Len(d)]
  <2>1. b = [records |-> b.records, record |-> b.record, offset |-> b.offset,
             limit |-> b.limit, streamsize |-> b.streamsize]
    BY DEF InputOK, InputShape
  <2>2. a = [b EXCEPT !.records = Append(b.records, d), !.streamsize = b.streamsize + Len(d)]
    BY DEF AppendData
  <2> HIDE DEF a, s, f
  <2> QED
    BY <2>1, <2>2, BufferChanges
<1>2. Append(b.records, d) \in Seq(Seq(Byte))
  BY DEF InputOK, InputShape
<1> HIDE DEF a
<1>3. InputShape(a)
  BY <1>1, <1>2 DEF InputOK, InputShape
<1>4. f \in Seq(Byte) /\ b.records \in Seq(Seq(Byte))
  BY UnreadFacts DEF InputOK, InputShape
<1>5. FlattenSeq(a.records) = f \o d
  BY <1>1, <1>4, FlattenAppend
<1>6. s \in Seq(Byte)
  BY SplitAt DEF InputOK, InputShape
<1> HIDE DEF s, f
<1>7. Len(f \o d) = Len(f) + Len(d)
  BY <1>4, ConcatProperties
<1>8. a.streamsize = Len(a.record) - a.offset + Len(FlattenSeq(a.records))
  <2>1. /\ a.streamsize = b.streamsize + Len(d) /\ a.record = b.record /\ a.offset = b.offset
    BY <1>1
  <2>2. b.streamsize = Len(b.record) - b.offset + Len(f) /\ b.record \in Seq(Byte) /\ b.offset \in Nat
    BY DEF InputOK, InputShape, f
  <2>3. Len(d) \in Nat /\ Len(f) \in Nat /\ Len(b.record) \in Nat
    BY <1>4, <2>2
  <2> QED
    BY <1>5, <1>7, <2>1, <2>2, <2>3
<1>9. Unread(a) = s \o (f \o d)
  BY <1>1, <1>5 DEF Unread, s
<1>10. (s \o f) \o d = s \o (f \o d)
  <2>1. Grouped(s, f, d)
    BY <1>4, <1>6, BytesGrouped
  <2> QED
    BY <2>1 DEF Grouped
<1>11. InputOK(a)
  BY <1>3, <1>8 DEF InputOK
<1>12. Unread(a) = Unread(b) \o d
  BY <1>9, <1>10 DEF Unread, s, f
<1>13. a.limit = b.limit
  BY <1>1
<1> QED
  BY <1>11, <1>12, <1>13 DEF a

(* A used up record makes room for the next one.                           *)
LEMMA FetchedFacts ==
  ASSUME NEW b, InputOK(b), HasNext(b)
  PROVE  LET f == Fetched(b)
         IN InputOK(f) /\ f.limit = b.limit /\ Unread(f) = Unread(b)
<1> DEFINE f == Fetched(b)
<1>1. CASE b.offset < Len(b.record)
  BY <1>1 DEF Fetched
<1>2. CASE ~(b.offset < Len(b.record))
  <2>1. b.records # <<>> /\ b.records \in Seq(Seq(Byte))
    BY <1>2 DEF HasNext, InputOK, InputShape
  <2>2. f = [records |-> Tail(b.records), record |-> Head(b.records), offset |-> 0,
             limit |-> b.limit, streamsize |-> b.streamsize]
    BY <1>2, BufferChanges DEF Fetched, InputOK, InputShape
  <2>3. Head(b.records) \in Seq(Byte) /\ Tail(b.records) \in Seq(Seq(Byte))
    BY <2>1, HeadTailProperties
  <2> HIDE DEF f
  <2>4. InputShape(f)
    BY <2>2, <2>3 DEF InputOK, InputShape
  <2>5. FlattenSeq(b.records) = Head(b.records) \o FlattenSeq(Tail(b.records))
    BY <2>1, FlattenHead
  <2>6. b.offset = Len(b.record)
    BY <1>2 DEF InputOK, InputShape
  <2>7. Unread(b) = FlattenSeq(b.records)
    <3>1. SubSeq(b.record, b.offset + 1, Len(b.record)) \in Seq(Byte)
      BY SplitAt DEF InputOK, InputShape
    <3>2. Len(SubSeq(b.record, b.offset + 1, Len(b.record))) = Len(b.record) - b.offset
      BY SplitAt DEF InputOK, InputShape
    <3>3. b.offset \in Nat
      BY DEF InputOK, InputShape
    <3>4. SubSeq(b.record, b.offset + 1, Len(b.record)) = <<>>
      BY <2>6, <3>1, <3>2, <3>3, EmptySeq
    <3>5. FlattenSeq(b.records) \in Seq(Byte)
      BY UnreadFacts DEF InputOK
    <3> QED
      BY <3>4, <3>5, ConcatEmptySeq DEF Unread
  <2>8. Unread(f) = Head(b.records) \o FlattenSeq(Tail(b.records))
    <3>1. SubSeq(f.record, f.offset + 1, Len(f.record)) = Head(b.records)
      <4>1. f.record = Head(b.records) /\ f.offset + 1 = 1
        BY <2>2
      <4>2. SubSeq(Head(b.records), 1, Len(Head(b.records))) = Head(b.records)
        BY <2>3, SubSeqFull
      <4> QED
        BY <4>1, <4>2
    <3>2. f.records = Tail(b.records)
      BY <2>2
    <3> QED
      BY <3>1, <3>2 DEF Unread
  <2>9. Unread(f) = Unread(b)
    BY <2>5, <2>7, <2>8
  <2>10. f.streamsize = Len(Unread(f))
    BY <2>2, <2>9, SizeExact
  <2>11. InputOK(f)
    BY <2>4, <2>10, UnreadFacts DEF InputOK
  <2> QED
    BY <2>2, <2>9, <2>11 DEF f
<1> QED
  BY <1>1, <1>2

(* ... and Next gives out what comes first, never more than the limit.  A  *)
(* limit that is left is what was not given out.                           *)
LEMMA GivenOut ==
  ASSUME NEW limit \in Int, limit > 0, NEW left \in Nat, NEW n,
         n = IF limit < left THEN limit ELSE left
  PROVE  /\ n \in Nat /\ n <= left /\ n <= limit
         /\ limit - left > 0 => limit - left = limit - n
         /\ limit - left <= 0 => n = limit
  OBVIOUS

LEMMA Counted ==
  ASSUME NEW length \in Nat, NEW o \in Nat, NEW n \in Nat, NEW more \in Nat, NEW size,
         size = (length - o) + more
  PROVE  size - n = (length - (o + n)) + more
  OBVIOUS

\* What Next gives out, where it stands in the record.
Given(a, c) == Len(c) <= a.offset /\ c = SubSeq(a.record, (a.offset - Len(c)) + 1, a.offset)

LEMMA NextFacts ==
  ASSUME NEW b, InputOK(b), HasNext(b)
  PROVE  LET c == Chunk(b)
             a == AfterNext(b)
         IN /\ c \in Seq(Byte) /\ InputOK(a) /\ Unread(b) = c \o Unread(a)
            /\ Len(c) <= b.limit
            /\ a.limit > 0 => a.limit = b.limit - Len(c)
            /\ a.limit <= 0 => Len(c) = b.limit
            /\ Given(a, c)
<1> DEFINE f == Fetched(b)
           c == Chunk(b)
           a == AfterNext(b)
           n == ChunkSize(f)
           o == f.offset
           r == f.record
           left == Len(r) - o
           x == FlattenSeq(f.records)
           y == SubSeq(r, (o + n) + 1, Len(r))
           z == SubSeq(r, o + 1, Len(r))
<1>1. InputOK(f) /\ f.limit = b.limit /\ Unread(f) = Unread(b)
  BY FetchedFacts
<1>2. f.limit > 0
  BY <1>1, HasNextExact
<1>3. c = SubSeq(r, o + 1, o + n)
  BY DEF Chunk
<1>4. a = [records |-> f.records, record |-> f.record, offset |-> o + n,
           limit |-> f.limit - left, streamsize |-> f.streamsize - n]
  <2>1. f = [records |-> f.records, record |-> f.record, offset |-> f.offset,
             limit |-> f.limit, streamsize |-> f.streamsize]
    BY <1>1 DEF InputOK, InputShape
  <2>2. a = [f EXCEPT !.limit = f.limit - left, !.offset = o + n, !.streamsize = f.streamsize - n]
    BY DEF AfterNext
  <2> HIDE DEF f
  <2> QED
    BY <2>1, <2>2, BufferChanges
<1>5. n = IF f.limit < left THEN f.limit ELSE left
  BY DEF ChunkSize
<1>6. /\ r \in Seq(Byte) /\ o \in 0..Len(r) /\ f.limit \in Int /\ f.records \in Seq(Seq(Byte))
      /\ f.streamsize = (Len(r) - o) + Len(x)
  BY <1>1 DEF InputOK, InputShape
<1>7. x \in Seq(Byte)
  BY <1>1, UnreadFacts DEF InputOK
<1>8. Unread(f) = z \o x
  BY DEF Unread
<1>9. b.limit = f.limit /\ Unread(b) = Unread(f)
  BY <1>1
<1>10. /\ a.records = f.records /\ a.record = r /\ a.offset = o + n /\ a.limit = f.limit - left
       /\ a.streamsize = f.streamsize - n
       /\ a = [records |-> a.records, record |-> a.record, offset |-> a.offset,
               limit |-> a.limit, streamsize |-> a.streamsize]
  <2> HIDE DEF a, n, f
  <2> QED
    BY <1>4
<1>11. left \in Nat /\ o \in Nat /\ Len(r) \in Nat /\ Len(x) \in Nat
  BY <1>6, <1>7
<1> HIDE DEF a, n, left
<1>12. /\ n \in Nat /\ n <= left /\ n <= f.limit
       /\ f.limit - left > 0 => f.limit - left = f.limit - n
       /\ f.limit - left <= 0 => n = f.limit
  <2>1. f.limit \in Int /\ f.limit > 0
    BY <1>2, <1>6
  <2>2. left \in Nat
    BY <1>11
  <2> HIDE DEF f
  <2> QED
    BY <1>5, <2>1, <2>2, GivenOut
<1> HIDE DEF o, r, f, c
<1>13. o + n \in Nat /\ o <= o + n /\ o + n <= Len(r) /\ (o + n) - o = n
  BY <1>11, <1>12 DEF left
<1>14. /\ SubSeq(r, o + 1, o + n) \in Seq(Byte) /\ Len(SubSeq(r, o + 1, o + n)) = (o + n) - o
       /\ SubSeq(r, o + 1, Len(r)) = SubSeq(r, o + 1, o + n) \o SubSeq(r, (o + n) + 1, Len(r))
  <2> DEFINE j == o + n
  <2>1. r \in Seq(Byte) /\ o \in Nat /\ j \in Nat /\ o <= j /\ j <= Len(r)
    BY <1>6, <1>11, <1>13
  <2> HIDE DEF j
  <2>2. /\ SubSeq(r, o + 1, j) \in Seq(Byte) /\ Len(SubSeq(r, o + 1, j)) = j - o
        /\ SubSeq(r, o + 1, Len(r)) = SubSeq(r, o + 1, j) \o SubSeq(r, j + 1, Len(r))
    BY <2>1, Cuts, ZenonT(60)
  <2> QED
    BY <2>2 DEF j
<1>15. c \in Seq(Byte) /\ Len(c) = n /\ z = c \o y
  BY <1>3, <1>13, <1>14
<1>16. y \in Seq(Byte)
  <2>1. o + n \in 0..Len(r)
    BY <1>11, <1>13
  <2> QED
    BY <1>6, <2>1, SplitAt
<1>17. Unread(a) = y \o x
  BY <1>10 DEF Unread
<1>18. InputOK(a)
  <2>1. f.streamsize - n = (Len(r) - (o + n)) + Len(x)
    BY <1>6, <1>11, <1>12, Counted
  <2>2. o + n \in 0..Len(r) /\ f.limit - left \in Int
    BY <1>6, <1>11, <1>13
  <2>3. a.streamsize = Len(a.record) - a.offset + Len(FlattenSeq(a.records))
    BY <1>10, <2>1
  <2>4. InputShape(a)
    BY <1>6, <1>10, <2>2 DEF InputShape
  <2> QED
    BY <2>3, <2>4 DEF InputOK
<1> HIDE DEF x, y, z
<1>19. (c \o y) \o x = c \o (y \o x)
  <2>1. Grouped(c, y, x)
    BY <1>7, <1>15, <1>16, BytesGrouped
  <2> QED
    BY <2>1 DEF Grouped
<1>20. Unread(b) = c \o Unread(a)
  BY <1>8, <1>9, <1>15, <1>17, <1>19
<1>21. /\ Len(c) <= b.limit
       /\ a.limit > 0 => a.limit = b.limit - Len(c)
       /\ a.limit <= 0 => Len(c) = b.limit
  BY <1>9, <1>10, <1>12, <1>15
<1>22. Given(a, c)
  <2>1. n <= o + n /\ (o + n) - n = o
    BY <1>11, <1>12
  <2> QED
    BY <1>3, <1>10, <1>15, <2>1 DEF Given
<1> QED
  BY <1>15, <1>18, <1>20, <1>21, <1>22 DEF c, a

(* BackUp gives the end of the chunk back.                                 *)
LEMMA Returned ==
  ASSUME NEW length \in Nat, NEW o \in Nat, NEW l \in Nat, NEW k \in Nat, k <= l, l <= o,
         o <= length, NEW more \in Nat, NEW size, size = (length - o) + more
  PROVE  /\ l - k \in Nat /\ o - (l - k) = (o - l) + k /\ o - l \in Nat
         /\ (o - l) + k \in Nat /\ (o - l) + k <= o /\ (o - l) + k \in 0..length /\ o - l <= o
         /\ size + (l - k) = (length - ((o - l) + k)) - 0 + more
  OBVIOUS

LEMMA BackUpFacts ==
  ASSUME NEW a, InputOK(a), NEW c \in Seq(Byte), Given(a, c), NEW k \in 0..Len(c)
  PROVE  LET b == BackUp(a, Len(c) - k)
         IN InputOK(b) /\ Unread(b) = SubSeq(c, k + 1, Len(c)) \o Unread(a)
<1> DEFINE n == Len(c) - k
           b == BackUp(a, n)
           r == a.record
           o == a.offset
           x == FlattenSeq(a.records)
           i == o - Len(c)
           h == SubSeq(r, (i + k) + 1, o)
           y == SubSeq(r, o + 1, Len(r))
           s == SubSeq(r, (i + k) + 1, Len(r))
           e == SubSeq(c, k + 1, Len(c))
           limit == IF a.limit < 0 THEN n ELSE a.limit + n
<1>1. /\ r \in Seq(Byte) /\ o \in 0..Len(r) /\ a.limit \in Int /\ a.records \in Seq(Seq(Byte))
      /\ a.streamsize = (Len(r) - o) + Len(x)
      /\ a = [records |-> a.records, record |-> a.record, offset |-> a.offset,
              limit |-> a.limit, streamsize |-> a.streamsize]
  BY DEF InputOK, InputShape
<1>2. c = SubSeq(r, i + 1, o) /\ Len(c) <= o
  BY DEF Given
<1>3. x \in Seq(Byte)
  BY UnreadFacts DEF InputOK
<1>4. Len(c) \in Nat /\ k \in Nat /\ k <= Len(c) /\ o \in Nat /\ Len(r) \in Nat /\ o <= Len(r)
      /\ Len(x) \in Nat
  BY <1>1, <1>3
<1>5. b = [a EXCEPT !.record = SubSeq(r, (o - n) + 1, Len(r)), !.offset = 0,
                    !.streamsize = a.streamsize + n, !.limit = limit]
  BY DEF BackUp
<1>6. Unread(a) = y \o x
  BY DEF Unread
<1> HIDE DEF b
<1>7. /\ n \in Nat /\ o - n = i + k /\ i \in Nat
      /\ i + k \in Nat /\ i + k <= o /\ i + k \in 0..Len(r) /\ i <= o
      /\ a.streamsize + n = (Len(r) - (i + k)) - 0 + Len(x)
  <2>1. Len(c) <= o /\ a.streamsize = (Len(r) - o) + Len(x)
    BY <1>1, <1>2
  <2> HIDE DEF x, r, o
  <2>2. /\ Len(c) - k \in Nat /\ o - (Len(c) - k) = (o - Len(c)) + k /\ o - Len(c) \in Nat
        /\ (o - Len(c)) + k \in Nat /\ (o - Len(c)) + k <= o
        /\ (o - Len(c)) + k \in 0..Len(r) /\ o - Len(c) <= o
        /\ a.streamsize + (Len(c) - k) = (Len(r) - ((o - Len(c)) + k)) - 0 + Len(x)
    BY <1>4, <2>1, Returned
  <2> QED
    BY <2>2
<1>8. limit \in Int
  BY <1>1, <1>7
<1> HIDE DEF limit
<1>9. b = [records |-> a.records, record |-> s, offset |-> 0, limit |-> limit,
           streamsize |-> a.streamsize + n]
  <2>1. b = [a EXCEPT !.record = s, !.offset = 0,
                      !.streamsize = a.streamsize + n, !.limit = limit]
    BY <1>5, <1>7
  <2> HIDE DEF s, n
  <2> QED
    BY <1>1, <2>1, BufferChanges
<1>10. /\ b.records = a.records /\ b.record = s /\ b.offset = 0 /\ b.limit = limit
       /\ b.streamsize = a.streamsize + n
       /\ b = [records |-> b.records, record |-> b.record, offset |-> b.offset,
               limit |-> b.limit, streamsize |-> b.streamsize]
  <2> HIDE DEF s, n
  <2> QED
    BY <1>9
<1> HIDE DEF n, i, r, o
<1>11. s \in Seq(Byte) /\ Len(s) = Len(r) - (i + k)
  BY <1>1, <1>7, SplitAt
<1>12. y \in Seq(Byte)
  BY <1>1, SplitAt
<1>13. h \in Seq(Byte) /\ s = h \o y
  <2> DEFINE j == i + k
  <2>1. r \in Seq(Byte) /\ o \in Nat /\ j \in Nat /\ j <= o /\ o <= Len(r)
    BY <1>1, <1>4, <1>7
  <2> HIDE DEF j
  <2>2. /\ SubSeq(r, j + 1, o) \in Seq(Byte)
        /\ SubSeq(r, j + 1, Len(r)) = SubSeq(r, j + 1, o) \o SubSeq(r, o + 1, Len(r))
    BY <2>1, Cuts, ZenonT(60)
  <2> QED
    BY <2>2 DEF j
<1>14. e = h
  <2>1. SubSeq(SubSeq(r, i + 1, o), k + 1, Len(SubSeq(r, i + 1, o))) = SubSeq(r, (i + k) + 1, o)
    <3>1. r \in Seq(Byte) /\ i \in Nat /\ o \in Nat /\ i <= o /\ o <= Len(r) /\ k \in Nat /\ i + k <= o
      BY <1>1, <1>4, <1>7
    <3> HIDE DEF x, h, y, s, e
    <3> QED
      BY <3>1, CutTwice
  <2> QED
    BY <1>2, <2>1
<1>15. InputOK(b)
  <2>1. InputShape(b)
    <3>1. 0 \in 0..Len(s)
      BY <1>11
    <3> QED
      BY <1>1, <1>8, <1>10, <1>11, <3>1 DEF InputShape
  <2>2. b.streamsize = Len(b.record) - b.offset + Len(FlattenSeq(b.records))
    BY <1>7, <1>10, <1>11 DEF x
  <2> QED
    BY <2>1, <2>2 DEF InputOK
<1> HIDE DEF h, y, s, e
<1>16. Unread(b) = s \o x
  <2>1. SubSeq(b.record, b.offset + 1, Len(b.record)) = s
    <3>1. SubSeq(s, 1, Len(s)) = s
      BY <1>11, SubSeqFull
    <3> QED
      BY <1>10, <3>1
  <2> QED
    BY <1>10, <2>1 DEF Unread
<1> HIDE DEF x
<1>17. (h \o y) \o x = h \o (y \o x)
  <2>1. Grouped(h, y, x)
    BY <1>3, <1>12, <1>13, BytesGrouped
  <2> QED
    BY <2>1 DEF Grouped
<1>18. Unread(b) = e \o Unread(a)
  BY <1>6, <1>13, <1>14, <1>16, <1>17
<1> QED
  BY <1>15, <1>18 DEF b, e, n

-----------------------------------------------------------------------------
(* ReadVarint32: the number is put together byte by byte.                  *)
ReadTo(c, n, m, f, i) ==
  IF i = 0 THEN [number |-> n, multiplier |-> m]
  ELSE [number |-> f[i - 1].number + (c[i] % Base) * f[i - 1].multiplier,
        multiplier |-> f[i - 1].multiplier * Base]

Reads(c, n, m, f, l) == f = [i \in 0..l |-> ReadTo(c, n, m, f, i)]

LEMMA ReadExists ==
  ASSUME NEW c, NEW n, NEW m, NEW l \in Nat
  PROVE  \E f : Reads(c, n, m, f, l)
<1> DEFINE T == {x \in Nat : \E f : Reads(c, n, m, f, x)}
<1>1. 0 \in T
  <2> DEFINE f == [i \in 0..0 |-> [number |-> n, multiplier |-> m]]
  <2>1. f = [i \in 0..0 |-> ReadTo(c, n, m, f, i)]
    BY DEF ReadTo
  <2> QED
    BY <2>1 DEF Reads
<1>2. ASSUME NEW x \in Nat, x \in T PROVE x + 1 \in T
  <2>1. PICK f : f = [i \in 0..x |-> ReadTo(c, n, m, f, i)]
    BY <1>2 DEF Reads
  <2> DEFINE g == [i \in 0..(x + 1) |-> IF i = x + 1 THEN ReadTo(c, n, m, f, i) ELSE f[i]]
  <2>2. \A i \in 0..(x + 1) : g[i] = ReadTo(c, n, m, g, i)
    <3>1. \A i \in 0..x : g[i] = f[i]
      OBVIOUS
    <3>2. g[x + 1] = ReadTo(c, n, m, f, x + 1)
      OBVIOUS
    <3> HIDE DEF g
    <3>3. \A i \in 0..(x + 1) : i # 0 => i - 1 \in 0..x
      OBVIOUS
    <3>4. \A i \in 0..(x + 1) : ReadTo(c, n, m, g, i) = ReadTo(c, n, m, f, i)
      BY <3>1, <3>3 DEF ReadTo
    <3>5. \A i \in 0..x : f[i] = ReadTo(c, n, m, f, i)
      BY <2>1
    <3>6. \A i \in 0..(x + 1) : i \in 0..x \/ i = x + 1
      OBVIOUS
    <3> QED
      BY <3>1, <3>2, <3>4, <3>5, <3>6
  <2>3. g = [i \in 0..(x + 1) |-> g[i]]
    OBVIOUS
  <2> HIDE DEF g
  <2>4. g = [i \in 0..(x + 1) |-> ReadTo(c, n, m, g, i)]
    BY <2>2, <2>3
  <2> QED
    BY <2>4 DEF Reads
<1> HIDE DEF T
<1>3. l \in T
  BY <1>1, <1>2, NaturalInduction
<1> QED
  BY <1>3 DEF T

Read(c, n, m) == CHOOSE f : f = [i \in 0..Len(c) |-> ReadTo(c, n, m, f, i)]

LEMMA Multiplied ==
  \A n, m, x, b \in Nat : n + x * m \in Nat /\ m * b \in Nat
  OBVIOUS

LEMMA ReadSteps ==
  ASSUME NEW c \in Seq(Byte), NEW n \in Nat, NEW m \in Nat
  PROVE  LET read == Read(c, n, m)
         IN /\ read[0] = [number |-> n, multiplier |-> m]
            /\ \A i \in 0..Len(c) : read[i].number \in Nat /\ read[i].multiplier \in Nat
            /\ \A i \in 0..(Len(c) - 1) :
                 /\ read[i + 1].number = read[i].number + (c[i + 1] % Base) * read[i].multiplier
                 /\ read[i + 1].multiplier = read[i].multiplier * Base
<1> DEFINE read == Read(c, n, m)
<1>1. read = [i \in 0..Len(c) |-> ReadTo(c, n, m, read, i)]
  <2>1. \E f : f = [i \in 0..Len(c) |-> ReadTo(c, n, m, f, i)]
    <3>1. Len(c) \in Nat
      OBVIOUS
    <3>2. \E f : Reads(c, n, m, f, Len(c))
      BY <3>1, ReadExists
    <3> QED
      BY <3>2 DEF Reads
  <2> QED
    BY <2>1 DEF Read
<1> HIDE DEF read
<1>2. \A i \in 0..Len(c) : read[i] = ReadTo(c, n, m, read, i)
  BY <1>1
<1>3. read[0] = [number |-> n, multiplier |-> m]
  <2>1. 0 \in 0..Len(c)
    OBVIOUS
  <2> QED
    BY <1>2, <2>1 DEF ReadTo
<1>4. ASSUME NEW i \in 0..(Len(c) - 1)
      PROVE  /\ read[i + 1].number = read[i].number + (c[i + 1] % Base) * read[i].multiplier
             /\ read[i + 1].multiplier = read[i].multiplier * Base
  <2> DEFINE k == i + 1
  <2>1. k \in 0..Len(c) /\ k # 0 /\ k - 1 = i
    OBVIOUS
  <2> HIDE DEF k
  <2>2. read[k] = [number |-> read[k - 1].number + (c[k] % Base) * read[k - 1].multiplier,
                   multiplier |-> read[k - 1].multiplier * Base]
    BY <1>2, <2>1 DEF ReadTo
  <2>3. /\ read[k].number = read[i].number + (c[k] % Base) * read[i].multiplier
        /\ read[k].multiplier = read[i].multiplier * Base
    BY <2>1, <2>2
  <2> QED
    BY <2>3 DEF k
<1> DEFINE T == {i \in Nat : i \in 0..Len(c) => read[i].number \in Nat /\ read[i].multiplier \in Nat}
<1>5. 0 \in T
  BY <1>3
<1>6. ASSUME NEW i \in Nat, i \in 0..Len(c) => read[i].number \in Nat /\ read[i].multiplier \in Nat,
             i + 1 \in 0..Len(c)
      PROVE  read[i + 1].number \in Nat /\ read[i + 1].multiplier \in Nat
  <2>1. i \in 0..(Len(c) - 1) /\ i \in 0..Len(c) /\ i + 1 \in 1..Len(c)
    BY <1>6
  <2>2. read[i].number \in Nat /\ read[i].multiplier \in Nat
    BY <1>6, <2>1
  <2>3. c[i + 1] % Base \in Nat /\ Base \in Nat
    <3>1. c[i + 1] \in Byte
      BY <2>1
    <3>2. c[i + 1] \in Nat /\ Base \in Nat \ {0, 1}
      BY <3>1, FramingAssumption DEF Byte
    <3> QED
      BY <3>2
  <2> DEFINE x == c[i + 1] % Base
             r == read[i].number
             s == read[i].multiplier
  <2>4. /\ read[i + 1].number = r + x * s
        /\ read[i + 1].multiplier = s * Base
    BY <1>4, <2>1
  <2>5. r \in Nat /\ x \in Nat /\ s \in Nat /\ Base \in Nat
    BY <2>2, <2>3
  <2> HIDE DEF x, r, s
  <2> QED
    BY <2>4, <2>5, Multiplied
<1>7. ASSUME NEW i \in Nat, i \in T PROVE i + 1 \in T
  BY <1>6, <1>7
<1> HIDE DEF T
<1>8. \A i \in 0..Len(c) : read[i].number \in Nat /\ read[i].multiplier \in Nat
  <2>1. Nat \subseteq T
    BY <1>5, <1>7, NaturalInduction
  <2>2. \A i \in 0..Len(c) : i \in T
    BY <2>1
  <2> QED
    BY <2>2 DEF T
<1> QED
  BY <1>3, <1>4, <1>8 DEF read

(* The number whose encoding stands in v behind the first i bytes.         *)
Behind(v, i, q) ==
  /\ Len(v) = i + Len(Varint[q])
  /\ \A j \in 1..Len(Varint[q]) : v[i + j] = Varint[q][j]

LEMMA NextByte ==
  ASSUME NEW v \in Seq(Byte), NEW i \in Nat, NEW q \in Nat, Behind(v, i, q)
  PROVE  /\ q < Base => Len(v) = i + 1 /\ v[i + 1] = q /\ q % Base = q
         /\ q >= Base => /\ Len(v) > i + 1 /\ v[i + 1] = Base + (q % Base)
                         /\ v[i + 1] % Base = q % Base
                         /\ q \div Base \in Nat /\ Behind(v, i + 1, q \div Base)
<1> DEFINE w == Varint[q]
           d == q \div Base
           u == Varint[d]
           b == Base + (q % Base)
<1>0. Base \in Nat \ {0, 1}
  BY FramingAssumption
<1>1. Len(v) = i + Len(w) /\ \A j \in 1..Len(w) : v[i + j] = w[j]
  BY DEF Behind
<1>2. CASE q < Base
  <2>1. w = <<q>>
    BY <1>2, VarintSteps
  <2> HIDE DEF w
  <2>2. Len(w) = 1 /\ w[1] = q
    BY <2>1
  <2>3. q % Base = q
    <3>1. q \in 0..(Base - 1)
      BY <1>0, <1>2
    <3> QED
      BY <3>1, Continued
  <2> QED
    BY <1>0, <1>1, <1>2, <2>2, <2>3
<1>3. CASE q >= Base
  <2>1. w = <<b>> \o u
    BY <1>3, VarintSteps
  <2>2. d \in Nat /\ q % Base \in 0..(Base - 1)
    BY Division
  <2>3. b \in Byte /\ b % Base = q % Base
    BY <2>2, Continued
  <2>4. u \in Seq(Byte) /\ Len(u) \in Nat \ {0}
    BY <2>2, VarintBytes
  <2> HIDE DEF w, u
  <2>5. Len(w) = 1 + Len(u) /\ w[1] = b /\ \A j \in 1..Len(u) : w[j + 1] = u[j]
    <3> DEFINE a == <<b>>
    <3>1. a \in Seq(Byte) /\ Len(a) = 1 /\ a[1] = b
      BY <2>3
    <3> HIDE DEF a, b
    <3>2. /\ Len(a \o u) = Len(a) + Len(u)
          /\ \A j \in 1..(Len(a) + Len(u)) : (a \o u)[j] = IF j <= Len(a) THEN a[j] ELSE u[j - Len(a)]
      BY <2>4, <3>1, ConcatProperties
    <3>3. w = a \o u
      BY <2>1 DEF a
    <3>4. \A j \in 1..Len(u) : j + 1 \in 1..(1 + Len(u)) /\ ~(j + 1 <= 1) /\ (j + 1) - 1 = j
      BY <2>4
    <3>5. 1 \in 1..(1 + Len(u))
      BY <2>4
    <3> QED
      BY <3>1, <3>2, <3>3, <3>4, <3>5
  <2> HIDE DEF b, d
  <2>6. v[i + 1] = b /\ Len(v) > i + 1 /\ Len(v) = (i + 1) + Len(u)
    BY <1>1, <2>4, <2>5
  <2>7. ASSUME NEW j \in 1..Len(u) PROVE v[(i + 1) + j] = u[j]
    <3>1. j + 1 \in 1..Len(w) /\ i + (j + 1) = (i + 1) + j
      BY <2>4, <2>5
    <3>2. v[i + (j + 1)] = w[j + 1]
      BY <1>1, <3>1
    <3> QED
      BY <2>5, <3>1, <3>2
  <2>8. Behind(v, i + 1, d)
    BY <2>6, <2>7 DEF Behind, u
  <2>9. ~(q < Base)
    BY <1>0, <1>3
  <2> QED
    BY <2>2, <2>3, <2>6, <2>8, <2>9 DEF b, d
<1> QED
  BY <1>0, <1>2, <1>3

LEMMA Distribute ==
  \A n, m, b, d, r \in Nat : (n + r * m) + (m * b) * d = n + m * (b * d + r)
  OBVIOUS

(* As long as the chunk is within an encoding, what is read and what is    *)
(* still to come make up the number.                                       *)
LEMMA ReadAlong ==
  ASSUME NEW k \in Nat, NEW c \in Seq(Byte), NEW n \in Nat, NEW m \in Nat,
         \A i \in 1..Len(c) : i <= Len(Varint[k]) => c[i] = Varint[k][i]
  PROVE  \A i \in 0..Len(c) : i < Len(Varint[k]) =>
           \E q \in Nat : /\ Behind(Varint[k], i, q)
                          /\ Read(c, n, m)[i].number + Read(c, n, m)[i].multiplier * q = n + m * k
<1> DEFINE v == Varint[k]
           read == Read(c, n, m)
           P(i) == \E q \in Nat : /\ Behind(v, i, q)
                                  /\ read[i].number + read[i].multiplier * q = n + m * k
           T == {i \in Nat : i \in 0..Len(c) /\ i < Len(v) => P(i)}
<1>1. v \in Seq(Byte) /\ Len(v) \in Nat \ {0}
  BY VarintBytes
<1>2. /\ read[0] = [number |-> n, multiplier |-> m]
      /\ \A i \in 0..Len(c) : read[i].number \in Nat /\ read[i].multiplier \in Nat
      /\ \A i \in 0..(Len(c) - 1) :
           /\ read[i + 1].number = read[i].number + (c[i + 1] % Base) * read[i].multiplier
           /\ read[i + 1].multiplier = read[i].multiplier * Base
  BY ReadSteps
<1> HIDE DEF read
<1>3. P(0)
  <2>1. Behind(v, 0, k)
    BY <1>1 DEF Behind
  <2>2. read[0].number + read[0].multiplier * k = n + m * k
    BY <1>2
  <2> QED
    BY <2>1, <2>2
<1>4. ASSUME NEW i \in Nat, i \in 0..Len(c) /\ i < Len(v) => P(i),
             i + 1 \in 0..Len(c), i + 1 < Len(v)
      PROVE  P(i + 1)
  <2>1. /\ i \in 0..Len(c) /\ i < Len(v) /\ i \in 0..(Len(c) - 1)
        /\ i + 1 \in 1..Len(c) /\ i + 1 <= Len(v)
    BY <1>1, <1>4
  <2>2. PICK q \in Nat : Behind(v, i, q) /\ read[i].number + read[i].multiplier * q = n + m * k
    BY <1>4, <2>1
  <2>3. q >= Base
    <3>1. ~(q < Base)
      BY <1>1, <1>4, <2>2, NextByte
    <3> QED
      BY <3>1, FramingAssumption
  <2>4. /\ v[i + 1] % Base = q % Base
        /\ q \div Base \in Nat /\ Behind(v, i + 1, q \div Base)
    BY <1>1, <2>2, <2>3, NextByte
  <2>5. c[i + 1] = v[i + 1]
    BY <2>1
  <2> DEFINE d == q \div Base
             r == q % Base
             x == read[i].number
             y == read[i].multiplier
  <2>6. read[i + 1].number = x + r * y /\ read[i + 1].multiplier = y * Base
    BY <1>2, <2>1, <2>4, <2>5
  <2>7. d \in Nat /\ r \in Nat /\ Base \in Nat /\ x \in Nat /\ y \in Nat /\ q = Base * d + r
    <3>1. x \in Nat /\ y \in Nat
      BY <1>2, <2>1
    <3>2. d \in Nat /\ r \in 0..(Base - 1) /\ q = Base * d + r
      BY Division
    <3>3. Base \in Nat
      BY FramingAssumption
    <3> QED
      BY <3>1, <3>2, <3>3
  <2>8. x + y * q = n + m * k
    BY <2>2
  <2>9. d \in Nat /\ Behind(v, i + 1, d)
    BY <2>4
  <2> HIDE DEF d, r, x, y, v
  <2>10. (x + r * y) + (y * Base) * d = x + y * (Base * d + r)
    BY <2>7, Distribute
  <2>11. read[i + 1].number + read[i + 1].multiplier * d = n + m * k
    BY <2>6, <2>7, <2>8, <2>10
  <2> QED
    BY <2>9, <2>11
<1> HIDE DEF P
<1>5. 0 \in T
  BY <1>3
<1>6. ASSUME NEW i \in Nat, i \in T PROVE i + 1 \in T
  BY <1>4, <1>6
<1> HIDE DEF T
<1>7. ASSUME NEW i \in 0..Len(c), i < Len(v) PROVE P(i)
  <2>1. i \in T
    BY <1>5, <1>6, NaturalInduction
  <2> QED
    BY <1>7, <2>1 DEF T
<1> QED
  BY <1>7 DEF P, read, v

(* The first byte that says that none follows.                             *)
LEMMA FirstEnd ==
  ASSUME NEW c \in Seq(Byte)
  PROVE  LET last == SelectInSeq(c, LAMBDA x : x < Base)
         IN \/ last = 0 /\ \A i \in 1..Len(c) : ~(c[i] < Base)
            \/ /\ last \in 1..Len(c) /\ c[last] < Base
               /\ \A i \in 1..Len(c) : c[i] < Base => last <= i
<1> DEFINE I == {i \in 1..Len(c) : c[i] < Base}
           last == SelectInSeq(c, LAMBDA x : x < Base)
           least == CHOOSE x \in I : \A y \in I : x <= y
<1>1. last = IF I # {} THEN least ELSE 0
  BY DEF SelectInSeq, Min
<1>2. CASE I = {}
  BY <1>1, <1>2
<1>3. CASE I # {}
  <2>1. I \in SUBSET Nat
    OBVIOUS
  <2>2. \E x \in I : \A y \in I : x <= y
    <3> HIDE DEF I
    <3> QED
      BY <1>3, <2>1, LeastNatural
  <2>3. least \in I /\ \A y \in I : least <= y
    BY <2>2
  <2> HIDE DEF least
  <2> QED
    BY <1>1, <1>3, <2>3
<1> QED
  BY <1>2, <1>3

LEMMA ReadVarintShape ==
  ASSUME NEW n
  PROVE  LET c == Chunk(buf)
             a == AfterNext(buf)
             last == SelectInSeq(c, LAMBDA x : x < Base)
             read == Read(c, n, multiplier)
         IN ReadVarint(n) =
              IF last = 0 THEN [done |-> FALSE, number |-> read[Len(c)].number,
                                multiplier |-> read[Len(c)].multiplier, buf |-> a]
              ELSE [done |-> TRUE, number |-> read[last].number, multiplier |-> 1,
                    buf |-> BackUp(a, Len(c) - last)]
  BY DEF ReadVarint, Read, ReadTo

(* Two sequences that begin a longer one agree as far as both go.          *)
LEMMA AgreeInFront ==
  ASSUME NEW S, NEW c \in Seq(S), NEW x \in Seq(S), NEW v \in Seq(S), NEW y \in Seq(S), c \o x = v \o y
  PROVE  \A i \in 1..Len(c) : i <= Len(v) => c[i] = v[i]
<1>1. \A i \in 1..(Len(c) + Len(x)) : (c \o x)[i] = IF i <= Len(c) THEN c[i] ELSE x[i - Len(c)]
  BY ConcatProperties
<1>2. \A i \in 1..(Len(v) + Len(y)) : (v \o y)[i] = IF i <= Len(v) THEN v[i] ELSE y[i - Len(v)]
  BY ConcatProperties
<1>3. Len(c) \in Nat /\ Len(x) \in Nat /\ Len(v) \in Nat /\ Len(y) \in Nat
  OBVIOUS
<1>4. ASSUME NEW i \in 1..Len(c), i <= Len(v) PROVE c[i] = v[i]
  <2>1. i \in 1..(Len(c) + Len(x)) /\ i \in 1..(Len(v) + Len(y)) /\ i <= Len(c)
    BY <1>3, <1>4
  <2>2. (c \o x)[i] = c[i] /\ (v \o y)[i] = v[i]
    BY <1>1, <1>2, <1>4, <2>1
  <2> QED
    BY <2>2
<1> QED
  BY <1>4

\* What is left to be read of a number k, when R follows it and w is on its way.
NumberAhead(b, w, k, R) ==
  /\ Unread(b) \o w = Varint[k] \o R
  /\ Len(Varint[k]) <= b.limit

\* A round of ReadVarint32 that began with the number n and the multiplier m.
RoundOf(r, w, n, m, k, R) ==
  /\ r.done => r.number = n + m * k /\ r.multiplier = 1 /\ Unread(r.buf) \o w = R
  /\ ~r.done => \E q \in Nat : /\ r.number + r.multiplier * q = n + m * k
                               /\ NumberAhead(r.buf, w, q, R)

LEMMA ReadVarintTypes ==
  ASSUME InputOK(buf), HasNext(buf), multiplier \in Nat, NEW n \in Nat
  PROVE  LET r == ReadVarint(n)
         IN r.done \in BOOLEAN /\ r.number \in Nat /\ r.multiplier \in Nat /\ InputOK(r.buf)
<1> DEFINE c == Chunk(buf)
           a == AfterNext(buf)
           last == SelectInSeq(c, LAMBDA x : x < Base)
           read == Read(c, n, multiplier)
           r == ReadVarint(n)
<1>1. c \in Seq(Byte) /\ InputOK(a) /\ Given(a, c)
  BY NextFacts
<1>2. r = IF last = 0 THEN [done |-> FALSE, number |-> read[Len(c)].number,
                            multiplier |-> read[Len(c)].multiplier, buf |-> a]
          ELSE [done |-> TRUE, number |-> read[last].number, multiplier |-> 1,
                buf |-> BackUp(a, Len(c) - last)]
  BY ReadVarintShape
<1> HIDE DEF r
<1>3. last = 0 \/ last \in 1..Len(c)
  BY <1>1, FirstEnd
<1> HIDE DEF last, a
<1>4. \A i \in 0..Len(c) : read[i].number \in Nat /\ read[i].multiplier \in Nat
  <2> HIDE DEF c
  <2> QED
    BY <1>1, ReadSteps
<1> HIDE DEF read, c
<1>5. CASE last = 0
  <2>1. Len(c) \in 0..Len(c)
    BY <1>1
  <2> QED
    BY <1>1, <1>2, <1>4, <1>5, <2>1 DEF r
<1>6. CASE last # 0
  <2>1. last \in 0..Len(c)
    BY <1>3, <1>6
  <2>2. InputOK(BackUp(a, Len(c) - last))
    BY <1>1, <2>1, BackUpFacts
  <2> QED
    BY <1>2, <1>4, <1>6, <2>1, <2>2 DEF r
<1> QED
  BY <1>5, <1>6

LEMMA ReadVarintRounds ==
  ASSUME InputOK(buf), HasNext(buf), multiplier \in Nat, NEW n \in Nat,
         NEW w \in Seq(Byte), NEW k \in Nat, NEW R \in Seq(Byte), NumberAhead(buf, w, k, R)
  PROVE  RoundOf(ReadVarint(n), w, n, multiplier, k, R)
<1> DEFINE c == Chunk(buf)
           a == AfterNext(buf)
           last == SelectInSeq(c, LAMBDA x : x < Base)
           read == Read(c, n, multiplier)
           r == ReadVarint(n)
           v == Varint[k]
           ua == Unread(a)
           m == multiplier
<1>1. /\ c \in Seq(Byte) /\ InputOK(a) /\ Given(a, c) /\ Unread(buf) = c \o ua
      /\ Len(c) <= buf.limit
      /\ a.limit > 0 => a.limit = buf.limit - Len(c)
      /\ a.limit <= 0 => Len(c) = buf.limit
  BY NextFacts
<1>2. r = IF last = 0 THEN [done |-> FALSE, number |-> read[Len(c)].number,
                            multiplier |-> read[Len(c)].multiplier, buf |-> a]
          ELSE [done |-> TRUE, number |-> read[last].number, multiplier |-> 1,
                buf |-> BackUp(a, Len(c) - last)]
  BY ReadVarintShape
<1> HIDE DEF r
<1>3. \/ last = 0 /\ \A i \in 1..Len(c) : ~(c[i] < Base)
      \/ /\ last \in 1..Len(c) /\ c[last] < Base
         /\ \A i \in 1..Len(c) : c[i] < Base => last <= i
  BY <1>1, FirstEnd
<1>4. v \in Seq(Byte) /\ Len(v) \in Nat \ {0}
  BY VarintBytes
<1>5. ua \in Seq(Byte)
  BY <1>1, UnreadFacts DEF InputOK
<1>6. Unread(buf) \o w = v \o R /\ Len(v) <= buf.limit /\ buf.limit \in Int /\ a.limit \in Int
  BY <1>1 DEF NumberAhead, InputOK, InputShape
<1> HIDE DEF last, a, ua, c, v
<1>7. c \o (ua \o w) = v \o R /\ ua \o w \in Seq(Byte)
  <2>1. (c \o ua) \o w = c \o (ua \o w)
    <3>1. Grouped(c, ua, w)
      BY <1>1, <1>5, BytesGrouped
    <3> QED
      BY <3>1 DEF Grouped
  <2>2. ua \o w \in Seq(Byte)
    BY <1>5, ConcatProperties
  <2> QED
    BY <1>1, <1>6, <2>1, <2>2
<1>8. \A i \in 1..Len(c) : i <= Len(v) => c[i] = v[i]
  BY <1>1, <1>4, <1>7, AgreeInFront
<1>9. \A i \in 0..Len(c) : i < Len(v) =>
        \E q \in Nat : /\ Behind(v, i, q)
                       /\ read[i].number + read[i].multiplier * q = n + m * k
  BY <1>1, <1>8, ReadAlong, ZenonT(60) DEF v
<1>10. /\ \A i \in 0..Len(c) : read[i].number \in Nat /\ read[i].multiplier \in Nat
       /\ \A i \in 0..(Len(c) - 1) :
            read[i + 1].number = read[i].number + (c[i + 1] % Base) * read[i].multiplier
  BY <1>1, ReadSteps, ZenonT(60)
<1> HIDE DEF read
<1>11. ASSUME NEW i \in 1..Len(c), i < Len(v) PROVE ~(c[i] < Base)
  <2>1. i - 1 \in 0..Len(c) /\ i - 1 \in Nat /\ i - 1 < Len(v) /\ (i - 1) + 1 = i /\ i <= Len(v)
    BY <1>1, <1>4, <1>11
  <2>2. PICK q \in Nat : Behind(v, i - 1, q)
    BY <1>9, <2>1
  <2>3. Base \in Nat \ {0, 1}
    BY FramingAssumption
  <2>4. ~(q < Base)
    <3>1. Len(v) # (i - 1) + 1
      BY <1>4, <1>11
    <3> QED
      BY <1>4, <2>1, <2>2, <3>1, NextByte
  <2>5. q >= Base
    BY <2>3, <2>4
  <2>6. v[(i - 1) + 1] = Base + (q % Base)
    BY <1>4, <2>1, <2>2, <2>5, NextByte
  <2>7. q % Base \in 0..(Base - 1)
    BY Division
  <2>8. c[i] = Base + (q % Base)
    BY <1>8, <1>11, <2>1, <2>6
  <2> QED
    BY <2>3, <2>7, <2>8
<1>12. CASE Len(c) < Len(v)
  <2>1. last = 0
    <3>1. ASSUME last \in 1..Len(c), c[last] < Base PROVE FALSE
      <4>1. last < Len(v)
        BY <1>1, <1>4, <1>12, <3>1
      <4> QED
        BY <1>11, <3>1, <4>1
    <3> QED
      BY <1>3, <3>1
  <2>2. ~r.done /\ r.number = read[Len(c)].number /\ r.multiplier = read[Len(c)].multiplier /\ r.buf = a
    BY <1>2, <2>1
  <2>3. Len(c) \in 0..Len(c) /\ Len(c) \in Nat
    BY <1>1
  <2>4. PICK q \in Nat : /\ Behind(v, Len(c), q)
                         /\ read[Len(c)].number + read[Len(c)].multiplier * q = n + m * k
    BY <1>9, <1>12, <2>3
  <2> DEFINE rest == SubSeq(v, Len(c) + 1, Len(v))
  <2>5. rest \in Seq(Byte) /\ Len(rest) = Len(v) - Len(c) /\ v = c \o rest /\ ua \o w = rest \o R
    <3> DEFINE z == ua \o w
    <3>1. z \in Seq(Byte) /\ c \o z = v \o R /\ Len(c) <= Len(v) /\ c \in Seq(Byte) /\ v \in Seq(Byte)
      BY <1>1, <1>4, <1>7, <1>12, <2>3
    <3> HIDE DEF z
    <3>2. CutOff(Byte, c, z, v, R)
      BY <3>1, CutFront
    <3> QED
      BY <3>2 DEF z, CutOff
  <2>6. \A i \in 1..(Len(v) - Len(c)) : rest[i] = v[Len(c) + i]
    BY <1>4, <1>12, <2>3, Cuts
  <2>7. Varint[q] \in Seq(Byte)
    BY VarintBytes
  <2>8. Len(v) = Len(c) + Len(Varint[q]) /\ \A j \in 1..Len(Varint[q]) : v[Len(c) + j] = Varint[q][j]
    BY <2>4 DEF Behind
  <2> HIDE DEF rest
  <2>9. rest = Varint[q]
    <3> DEFINE u == Varint[q]
    <3>1. u \in Seq(Byte) /\ Len(v) = Len(c) + Len(u) /\ \A j \in 1..Len(u) : v[Len(c) + j] = u[j]
      BY <2>7, <2>8
    <3> HIDE DEF u
    <3>2. Len(rest) = Len(u)
      BY <1>4, <2>3, <2>5, <3>1
    <3>3. \A j \in 1..Len(rest) : rest[j] = u[j]
      BY <1>4, <2>3, <2>5, <2>6, <3>1, <3>2
    <3>4. rest = u
      BY <2>5, <3>1, <3>2, <3>3, SeqEqual
    <3> QED
      BY <3>4 DEF u
  <2>10. Len(Varint[q]) <= a.limit
    <3>1. a.limit > 0
      BY <1>1, <1>4, <1>6, <1>12, <2>3
    <3> QED
      BY <1>1, <1>4, <1>6, <2>3, <2>5, <2>9, <3>1, SMTT(30)
  <2>11. NumberAhead(r.buf, w, q, R)
    BY <2>2, <2>5, <2>9, <2>10 DEF NumberAhead, ua
  <2>12. r.number + r.multiplier * q = n + m * k
    BY <2>2, <2>4
  <2> QED
    BY <2>2, <2>11, <2>12 DEF RoundOf, r
<1>13. CASE Len(v) <= Len(c)
  <2> DEFINE l == Len(v)
  <2>1. l - 1 \in 0..Len(c) /\ l - 1 \in Nat /\ l - 1 < Len(v) /\ (l - 1) + 1 = l /\ l \in 1..Len(c)
        /\ l - 1 \in 0..(Len(c) - 1) /\ l \in 0..Len(c) /\ l <= Len(v)
    BY <1>1, <1>4, <1>13
  <2>2. PICK q \in Nat : /\ Behind(v, l - 1, q)
                         /\ read[l - 1].number + read[l - 1].multiplier * q = n + m * k
    BY <1>9, <2>1
  <2>3. Base \in Nat \ {0, 1}
    BY FramingAssumption
  <2>4. q < Base
    <3>1. q >= Base => Len(v) > (l - 1) + 1
      BY <1>4, <2>1, <2>2, NextByte
    <3>2. ~(Len(v) > (l - 1) + 1)
      BY <1>4, <2>1
    <3>3. ~(q >= Base)
      BY <3>1, <3>2
    <3> QED
      BY <2>3, <3>3
  <2>5. v[(l - 1) + 1] = q /\ q % Base = q
    BY <1>4, <2>1, <2>2, <2>4, NextByte
  <2>6. c[l] = q
    BY <1>8, <2>1, <2>5
  <2>7. last = l
    <3>1. last \in 1..Len(c) /\ c[last] < Base /\ last <= l
      BY <1>3, <2>1, <2>4, <2>6
    <3>2. ~(last < Len(v))
      BY <1>11, <3>1
    <3> QED
      BY <1>4, <3>1, <3>2
  <2> HIDE DEF l
  <2>8. r = [done |-> TRUE, number |-> read[l].number, multiplier |-> 1,
             buf |-> BackUp(a, Len(c) - l)]
    BY <1>2, <2>1, <2>7
  <2>9. read[l].number = read[l - 1].number + q * read[l - 1].multiplier
    <3>1. \A i \in 0..(Len(c) - 1) :
            read[i + 1].number = read[i].number + (c[i + 1] % Base) * read[i].multiplier
      BY <1>10
    <3>2. read[(l - 1) + 1].number = read[l - 1].number + (c[(l - 1) + 1] % Base) * read[l - 1].multiplier
      BY <2>1, <3>1
    <3> QED
      BY <2>1, <2>5, <2>6, <3>2
  <2>10. read[l].number = n + m * k
    <3> DEFINE x == read[l - 1].number
               y == read[l - 1].multiplier
    <3>1. x \in Nat /\ y \in Nat
      BY <1>10, <2>1
    <3>2. read[l].number = x + q * y /\ x + y * q = n + m * k
      BY <2>2, <2>9
    <3> HIDE DEF x, y
    <3>3. q * y = y * q
      BY <3>1
    <3> QED
      BY <3>2, <3>3
  <2> DEFINE rest == SubSeq(c, l + 1, Len(c))
  <2>11. rest \in Seq(Byte) /\ c = v \o rest /\ R = rest \o (ua \o w)
    <3> DEFINE z == ua \o w
    <3>1. z \in Seq(Byte) /\ v \o R = c \o z /\ Len(v) <= Len(c) /\ c \in Seq(Byte) /\ v \in Seq(Byte)
      BY <1>1, <1>4, <1>7, <1>13
    <3>2. rest = SubSeq(c, Len(v) + 1, Len(c))
      BY DEF l
    <3> HIDE DEF z, rest
    <3>3. CutOff(Byte, v, R, c, z)
      BY <3>1, CutFront
    <3> QED
      BY <3>2, <3>3 DEF z, CutOff
  <2>12. Unread(BackUp(a, Len(c) - l)) = rest \o ua
    BY <1>1, <2>1, BackUpFacts DEF ua
  <2> HIDE DEF rest
  <2>13. (rest \o ua) \o w = rest \o (ua \o w)
    <3>1. Grouped(rest, ua, w)
      BY <1>5, <2>11, BytesGrouped
    <3> QED
      BY <3>1 DEF Grouped
  <2>14. Unread(r.buf) \o w = R
    BY <2>8, <2>11, <2>12, <2>13
  <2> QED
    BY <2>8, <2>10, <2>14 DEF RoundOf, r
<1> QED
  <2>1. Len(c) < Len(v) \/ Len(v) <= Len(c)
    BY <1>1, <1>4
  <2> QED
    BY <1>12, <1>13, <2>1

-----------------------------------------------------------------------------
(* What the client has sent and nobody has handled yet, from message i on. *)
Block(msgs, i) == [j \in 1..((Len(msgs) + 1) - i) |-> Encoded(msgs[(i + j) - 1])]
Outstanding(msgs, i) == FlattenSeq(Block(msgs, i))

Payload(msgs, i) == msgs[i].payload
AfterLength(msgs, i) == Payload(msgs, i) \o Outstanding(msgs, i + 1)
AfterType(msgs, i) == Varint[Len(Payload(msgs, i))] \o AfterLength(msgs, i)

LEMMA EncodedType ==
  ASSUME NEW m \in Messages
  PROVE  /\ Encoded(m) \in Seq(Byte)
         /\ \A y \in Seq(Byte) :
              Encoded(m) \o y = Varint[m.type] \o (Varint[Len(m.payload)] \o (m.payload \o y))
<1> DEFINE t == Varint[m.type]
           l == Varint[Len(m.payload)]
           p == m.payload
<1>1. t \in Seq(Byte) /\ l \in Seq(Byte) /\ p \in Seq(Byte)
  <2>1. m.type \in Nat /\ m.payload \in Seq(Byte) /\ Len(m.payload) \in Nat
    BY WritesMessage
  <2> QED
    BY <2>1, VarintBytes
<1>2. Encoded(m) = (t \o l) \o p
  BY DEF Encoded
<1> HIDE DEF t, l, p
<1>3. t \o l \in Seq(Byte) /\ (t \o l) \o p \in Seq(Byte)
  BY <1>1, ConcatProperties
<1>4. ASSUME NEW y \in Seq(Byte) PROVE ((t \o l) \o p) \o y = t \o (l \o (p \o y))
  <2>1. p \o y \in Seq(Byte)
    BY <1>1, ConcatProperties
  <2>2. ((t \o l) \o p) \o y = (t \o l) \o (p \o y)
    <3>1. Grouped(t \o l, p, y)
      BY <1>1, <1>3, BytesGrouped
    <3> QED
      BY <3>1 DEF Grouped
  <2>3. (t \o l) \o (p \o y) = t \o (l \o (p \o y))
    <3>1. Grouped(t, l, p \o y)
      BY <1>1, <2>1, BytesGrouped
    <3> QED
      BY <3>1 DEF Grouped
  <2> QED
    BY <2>2, <2>3
<1> QED
  BY <1>2, <1>3, <1>4 DEF t, l, p

LEMMA FunctionIsSeq ==
  ASSUME NEW S, NEW n \in Nat, NEW f \in [1..n -> S]
  PROVE  f \in Seq(S) /\ Len(f) = n
  OBVIOUS

LEMMA BlockType ==
  ASSUME NEW msgs \in Seq(Messages), NEW i \in 1..(Len(msgs) + 1)
  PROVE  Block(msgs, i) \in Seq(Seq(Byte)) /\ Len(Block(msgs, i)) = (Len(msgs) + 1) - i
<1> DEFINE n == (Len(msgs) + 1) - i
<1>1. n \in Nat
  OBVIOUS
<1>2. ASSUME NEW j \in 1..n PROVE Encoded(msgs[(i + j) - 1]) \in Seq(Byte)
  <2>1. msgs[(i + j) - 1] \in Messages
    OBVIOUS
  <2> QED
    BY <2>1, EncodedType
<1>3. Block(msgs, i) = [j \in 1..n |-> Encoded(msgs[(i + j) - 1])]
  BY DEF Block
<1> HIDE DEF n
<1>4. Block(msgs, i) \in [1..n -> Seq(Byte)]
  BY <1>2, <1>3
<1>5. Block(msgs, i) \in Seq(Seq(Byte)) /\ Len(Block(msgs, i)) = n
  BY <1>1, <1>4, FunctionIsSeq
<1> QED
  BY <1>5 DEF n

LEMMA OutstandingType ==
  ASSUME NEW msgs \in Seq(Messages), NEW i \in 1..(Len(msgs) + 1)
  PROVE  Outstanding(msgs, i) \in Seq(Byte)
  BY BlockType, FlattenType DEF Outstanding

LEMMA NothingOutstanding ==
  ASSUME NEW msgs \in Seq(Messages)
  PROVE  Outstanding(msgs, Len(msgs) + 1) = <<>>
<1> DEFINE i == Len(msgs) + 1
<1>1. i \in 1..(Len(msgs) + 1) /\ (Len(msgs) + 1) - i = 0
  OBVIOUS
<1>2. Block(msgs, i) = <<>>
  BY <1>1, BlockType, EmptySeq
<1> QED
  BY <1>2, FlattenNothing DEF Outstanding

LEMMA FirstOutstanding ==
  ASSUME NEW msgs \in Seq(Messages), NEW i \in 1..Len(msgs)
  PROVE  Outstanding(msgs, i) = Encoded(msgs[i]) \o Outstanding(msgs, i + 1)
<1> DEFINE s == Block(msgs, i)
           t == Block(msgs, i + 1)
<1>1. i \in 1..(Len(msgs) + 1) /\ i + 1 \in 1..(Len(msgs) + 1) /\ Len(msgs) \in Nat
  OBVIOUS
<1>2. /\ s \in Seq(Seq(Byte)) /\ Len(s) = (Len(msgs) + 1) - i
      /\ t \in Seq(Seq(Byte)) /\ Len(t) = (Len(msgs) + 1) - (i + 1)
  BY <1>1, BlockType
<1>3. /\ \A j \in 1..((Len(msgs) + 1) - i) : s[j] = Encoded(msgs[(i + j) - 1])
      /\ \A j \in 1..((Len(msgs) + 1) - (i + 1)) : t[j] = Encoded(msgs[((i + 1) + j) - 1])
  BY DEF Block
<1> HIDE DEF s, t
<1>4. s # <<>>
  BY <1>1, <1>2
<1>5. Head(s) = Encoded(msgs[i])
  <2>1. 1 \in 1..((Len(msgs) + 1) - i) /\ (i + 1) - 1 = i
    BY <1>1
  <2>2. Head(s) = s[1]
    BY <1>2, <1>4, FirstOff
  <2> QED
    BY <1>3, <2>1, <2>2
<1>6. Tail(s) = t
  <2>1. /\ Tail(s) \in Seq(Seq(Byte)) /\ Len(Tail(s)) = Len(s) - 1
        /\ \A j \in 1..Len(Tail(s)) : Tail(s)[j] = s[j + 1]
    BY <1>2, <1>4, HeadTailProperties
  <2> DEFINE u == Tail(s)
  <2> HIDE DEF u
  <2>2. u \in Seq(Seq(Byte)) /\ Len(u) = Len(t) /\ \A j \in 1..Len(u) : u[j] = s[j + 1]
    BY <1>1, <1>2, <2>1 DEF u
  <2>3. ASSUME NEW j \in 1..Len(u) PROVE u[j] = t[j]
    <3>1. /\ j \in 1..((Len(msgs) + 1) - (i + 1)) /\ j + 1 \in 1..((Len(msgs) + 1) - i)
          /\ ((i + 1) + j) - 1 = (i + (j + 1)) - 1
      BY <1>1, <1>2, <2>2
    <3> QED
      BY <1>3, <2>2, <3>1
  <2>4. u = t
    BY <1>2, <2>2, <2>3, SeqEqual
  <2> QED
    BY <2>4 DEF u
<1>7. FlattenSeq(s) = Head(s) \o FlattenSeq(Tail(s))
  BY <1>2, <1>4, FlattenHead
<1> QED
  BY <1>5, <1>6, <1>7 DEF Outstanding, s, t

LEMMA MoreOutstanding ==
  ASSUME NEW msgs \in Seq(Messages), NEW m \in Messages, NEW i \in 1..(Len(msgs) + 1)
  PROVE  Outstanding(Append(msgs, m), i) = Outstanding(msgs, i) \o Encoded(m)
<1> DEFINE next == Append(msgs, m)
           s == Block(msgs, i)
           t == Block(next, i)
           e == Encoded(m)
           u == Append(s, e)
<1>1. /\ next \in Seq(Messages) /\ Len(next) = Len(msgs) + 1 /\ Len(msgs) \in Nat
      /\ \A j \in 1..Len(msgs) : next[j] = msgs[j]
      /\ next[Len(msgs) + 1] = m
  OBVIOUS
<1> HIDE DEF next
<1>2. i \in 1..(Len(next) + 1)
  BY <1>1
<1>3. /\ s \in Seq(Seq(Byte)) /\ Len(s) = (Len(msgs) + 1) - i
      /\ t \in Seq(Seq(Byte)) /\ Len(t) = (Len(next) + 1) - i
  BY <1>1, <1>2, BlockType
<1>4. /\ \A j \in 1..((Len(msgs) + 1) - i) : s[j] = Encoded(msgs[(i + j) - 1])
      /\ \A j \in 1..((Len(next) + 1) - i) : t[j] = Encoded(next[(i + j) - 1])
  BY DEF Block
<1>5. e \in Seq(Byte)
  BY EncodedType
<1> HIDE DEF s, t
<1>6. /\ u \in Seq(Seq(Byte)) /\ Len(u) = Len(s) + 1 /\ u[Len(s) + 1] = e
      /\ \A j \in 1..Len(s) : u[j] = s[j]
  <2> HIDE DEF e
  <2> QED
    BY <1>3, <1>5, AppendProperties
<1> HIDE DEF u
<1>7. ASSUME NEW j \in 1..Len(u) PROVE u[j] = t[j]
  <2>1. j \in 1..((Len(next) + 1) - i)
    BY <1>1, <1>3, <1>6
  <2>2. CASE j \in 1..Len(s)
    <3>1. j \in 1..((Len(msgs) + 1) - i) /\ (i + j) - 1 \in 1..Len(msgs)
      BY <1>1, <1>3, <2>2
    <3> QED
      BY <1>1, <1>4, <1>6, <2>1, <2>2, <3>1
  <2>3. CASE ~(j \in 1..Len(s))
    <3>1. j = Len(s) + 1 /\ (i + j) - 1 = Len(msgs) + 1
      BY <1>1, <1>3, <1>6, <2>3
    <3> QED
      BY <1>1, <1>4, <1>6, <2>1, <3>1 DEF e
  <2> QED
    BY <2>2, <2>3
<1>8. u = t
  <2>1. Len(u) = Len(t)
    BY <1>1, <1>3, <1>6
  <2> QED
    BY <1>3, <1>6, <1>7, <2>1, SeqEqual
<1>9. FlattenSeq(u) = FlattenSeq(s) \o e
  BY <1>3, <1>5, FlattenAppend DEF u
<1> QED
  BY <1>8, <1>9 DEF Outstanding, s, t, e, next

-----------------------------------------------------------------------------
(* The bookkeeping of the buffer                                           *)

(* That a record is given out, cut off or backed up within its bounds      *)
(* needs the buffer as it is, and that the third exception cannot come     *)
(* needs to know that nothing runs after the second.                       *)
StreamInv ==
  /\ sent \in Seq(Messages) /\ wire \in Seq(Byte) /\ payload \in Seq(Byte)
  /\ handled \in Seq([type : Nat, payload : Seq(Byte)])
  /\ InputOK(buf)
  /\ internal_state \in {"NEXT_MSG", "GETLENGTH", "READ_MSG"}
  /\ msg_type \in Nat /\ msg_length \in Nat /\ multiplier \in Nat
  /\ task \in {"idle", "framing", "parsing"}
  /\ crashes \in 0..2 /\ (task # "idle" => crashes < 2)
  /\ task = "parsing" => internal_state = "READ_MSG"
  /\ ghosts \in 0..Len(handled) /\ framing \in {"kept", "ghost", "lost"}

LEMMA StreamInvInit == Init => StreamInv
<1> SUFFICES ASSUME Init PROVE StreamInv
  OBVIOUS
<1>1. InputOK(EmptyBuffer)
  BY EmptyOK
<1>2. \A S : <<>> \in Seq(S) /\ Len(<<>>) = 0
  OBVIOUS
<1> QED
  BY <1>1, <1>2 DEF Init, StreamInv

LEMMA StreamInvSound == StreamInv => StreamSound
<1> SUFFICES ASSUME StreamInv PROVE StreamSound
  OBVIOUS
<1>1. InputOK(buf)
  BY DEF StreamInv
<1>2. buf.streamsize \in Nat
  BY <1>1, SizeExact
<1>3. /\ buf.records \in Seq(Seq(Byte)) /\ buf.record \in Seq(Byte)
      /\ buf.offset \in 0..Len(buf.record) /\ buf.limit \in Int
      /\ buf.streamsize = Len(buf.record) - buf.offset + Len(FlattenSeq(buf.records))
  BY <1>1 DEF InputOK, InputShape
<1>4. buf.offset \in Nat /\ buf.offset <= Len(buf.record)
  BY <1>3
<1> QED
  BY <1>2, <1>3, <1>4 DEF StreamInv, StreamSound, TypeOK, StreamSizeExact

(* What a handler was given is appended once.                              *)
LEMMA GivenToHandler ==
  ASSUME StreamInv, GiveToHandler
  PROVE  /\ handled' \in Seq([type : Nat, payload : Seq(Byte)])
         /\ Len(handled') = Len(handled) + 1 /\ Len(handled) \in Nat
         /\ handled' = Append(handled, [type |-> msg_type, payload |-> payload])
         /\ handled'[Len(handled) + 1] = [type |-> msg_type, payload |-> payload]
         /\ ghosts' \in 0..Len(handled')
<1> DEFINE e == [type |-> msg_type, payload |-> payload]
           S == [type : Nat, payload : Seq(Byte)]
<1>1. handled \in Seq(S) /\ ghosts \in 0..Len(handled)
  BY DEF StreamInv
<1>2. e \in S
  BY DEF StreamInv
<1>3. handled' = Append(handled, e)
  BY DEF GiveToHandler
<1>4. ghosts' = ghosts \/ ghosts' = ghosts + 1
  BY DEF GiveToHandler
<1> HIDE DEF e, S
<1>5. /\ Append(handled, e) \in Seq(S) /\ Len(Append(handled, e)) = Len(handled) + 1
      /\ Append(handled, e)[Len(handled) + 1] = e /\ Len(handled) \in Nat
  BY <1>1, <1>2, AppendProperties
<1>6. ghosts' \in 0..Len(handled')
  BY <1>1, <1>3, <1>4, <1>5
<1> QED
  BY <1>3, <1>5, <1>6 DEF e, S

LEMMA StreamInvStep == StreamInv /\ [Next]_vars => StreamInv'
<1> SUFFICES ASSUME StreamInv, [Next]_vars PROVE StreamInv'
  OBVIOUS
<1>0. InputOK(buf) /\ VarintLimit \in Int
  BY FramingAssumption DEF StreamInv
<1>1. CASE Send
  <2>1. PICK m \in Messages : sent' = Append(sent, m) /\ wire' = wire \o WriteMessage(m)
    BY <1>1 DEF Send
  <2>2. WriteMessage(m) \in Seq(Byte)
    BY WritesMessage, EncodedType
  <2>3. wire' \in Seq(Byte) /\ sent' \in Seq(Messages)
    <3>1. wire \in Seq(Byte) /\ sent \in Seq(Messages)
      BY DEF StreamInv
    <3> HIDE DEF WriteMessage
    <3> QED
      BY <2>1, <2>2, <3>1, ConcatProperties, AppendProperties
  <2> QED
    BY <1>1, <2>3 DEF Send, StreamInv, handlerVars, history
<1>2. CASE Receive
  <2>1. PICK n \in 1..MaxRecord :
          /\ n <= Len(wire)
          /\ buf' = AppendData(buf, SubSeq(wire, 1, n))
          /\ wire' = SubSeq(wire, n + 1, Len(wire))
    BY <1>2 DEF Receive
  <2>2. n \in 0..Len(wire) /\ wire \in Seq(Byte)
    <3>1. MaxRecord \in Nat /\ wire \in Seq(Byte)
      BY FramingAssumption DEF StreamInv
    <3> QED
      BY <2>1, <3>1
  <2>3. SubSeq(wire, 1, n) \in Seq(Byte) /\ SubSeq(wire, n + 1, Len(wire)) \in Seq(Byte)
    BY <2>2, SplitAt
  <2>4. InputOK(buf')
    BY <1>0, <2>1, <2>3, AppendKeepsBuffer
  <2> QED
    BY <1>2, <2>1, <2>3, <2>4 DEF Receive, StreamInv, handlerVars, history
<1>3. CASE NextMsg
  <2> DEFINE r == ReadVarint(msg_type)
  <2>1. r.done \in BOOLEAN /\ r.number \in Nat /\ r.multiplier \in Nat /\ InputOK(r.buf)
    BY <1>0, <1>3, ReadVarintTypes DEF NextMsg, StreamInv
  <2>2. /\ msg_type' = r.number /\ multiplier' = r.multiplier
        /\ buf' = IF r.done THEN UpdateLimit(r.buf, VarintLimit) ELSE r.buf
        /\ internal_state' = IF r.done THEN "GETLENGTH" ELSE internal_state
        /\ msg_length' = IF r.done THEN 0 ELSE msg_length
    BY <1>3 DEF NextMsg
  <2> HIDE DEF r
  <2>3. InputOK(buf')
    BY <1>0, <2>1, <2>2, LimitKeepsBuffer
  <2> QED
    BY <1>3, <2>1, <2>2, <2>3 DEF NextMsg, StreamInv, history
<1>4. CASE GetLength
  <2> DEFINE r == ReadVarint(msg_length)
  <2>1. r.done \in BOOLEAN /\ r.number \in Nat /\ r.multiplier \in Nat /\ InputOK(r.buf)
    BY <1>0, <1>4, ReadVarintTypes DEF GetLength, StreamInv
  <2>2. /\ msg_length' = r.number /\ multiplier' = r.multiplier
        /\ buf' = IF r.done THEN UpdateLimit(r.buf, r.number) ELSE r.buf
        /\ internal_state' = IF r.done THEN "READ_MSG" ELSE internal_state
    BY <1>4 DEF GetLength
  <2> HIDE DEF r
  <2>3. InputOK(buf')
    <3>1. r.number \in Int
      BY <2>1
    <3> QED
      BY <2>1, <2>2, <3>1, LimitKeepsBuffer
  <2> QED
    BY <1>4, <2>1, <2>2, <2>3 DEF GetLength, StreamInv, history
<1>5. CASE AwaitData
  BY <1>5 DEF AwaitData, StreamInv, handlerVars, history
<1>6. CASE ReadMsg
  <2>1. <<>> \in Seq(Byte)
    OBVIOUS
  <2> QED
    BY <1>6, <2>1 DEF ReadMsg, StreamInv, handlerVars, history
<1>7. CASE Parse
  <2>1. Chunk(buf) \in Seq(Byte) /\ InputOK(AfterNext(buf))
    BY <1>0, <1>7, NextFacts DEF Parse
  <2>2. payload \o Chunk(buf) \in Seq(Byte)
    <3>1. payload \in Seq(Byte)
      BY DEF StreamInv
    <3> QED
      BY <2>1, <3>1, ConcatProperties
  <2> QED
    BY <1>7, <2>1, <2>2 DEF Parse, StreamInv, handlerVars, history
<1>8. CASE Handle
  <2>1. handled' \in Seq([type : Nat, payload : Seq(Byte)]) /\ ghosts' \in 0..Len(handled')
    BY <1>8, GivenToHandler DEF Handle
  <2>2. InputOK(buf')
    BY <1>0, <1>8, LimitKeepsBuffer DEF Handle
  <2>3. framing' \in {"kept", "lost"}
    BY <1>8 DEF Handle
  <2> QED
    BY <1>8, <2>1, <2>2, <2>3 DEF Handle, StreamInv
<1>9. CASE Throw
  <2>1. handled' \in Seq([type : Nat, payload : Seq(Byte)]) /\ ghosts' \in 0..Len(handled')
    BY <1>9, GivenToHandler DEF Throw
  <2>2. framing' \in {"ghost", "lost"}
    BY <1>9 DEF Throw
  <2>3. crashes' \in 0..2
    BY <1>9 DEF Throw, StreamInv
  <2> QED
    BY <1>9, <2>1, <2>2, <2>3 DEF Throw, StreamInv, handlerVars
<1>10. CASE UNCHANGED vars
  BY <1>10 DEF vars, handlerVars, history, StreamInv
<1> QED
  BY <1>1, <1>2, <1>3, <1>4, <1>5, <1>6, <1>7, <1>8, <1>9, <1>10 DEF Next, Work

(* streamsize counts exactly what is buffered and not yet read, for every  *)
(* base of the numbers, every message and every cut into records           *)
(* (client_input_buffer.cpp:30-108).                                       *)
THEOREM StreamAlwaysSound == Spec => []StreamSound
<1>1. Spec => []StreamInv
  BY StreamInvInit, StreamInvStep, PTL DEF Spec
<1> QED
  BY <1>1, StreamInvSound, PTL

-----------------------------------------------------------------------------
(* The messages reach the handlers                                         *)

Ahead(b, w) == Unread(b) \o w

\* Where the next message, i, is waited for or its type is being read.
InType(msgs, i, b, w, n, m) ==
  \/ /\ i = Len(msgs) + 1 /\ n = 0 /\ m = 1
     /\ b.limit = VarintLimit /\ Ahead(b, w) = <<>>
  \/ /\ i <= Len(msgs)
     /\ \E k \in Nat : n + m * k = msgs[i].type /\ NumberAhead(b, w, k, AfterType(msgs, i))

\* Where the length of its payload is being read.
InLength(msgs, i, b, w, n, m) ==
  /\ i <= Len(msgs)
  /\ \E k \in Nat : /\ n + m * k = Len(Payload(msgs, i))
                    /\ NumberAhead(b, w, k, AfterLength(msgs, i))

\* Where p has been read of its payload.
InPayload(msgs, i, b, w, p) ==
  /\ i <= Len(msgs)
  /\ \E rest \in Seq(Byte) :
       /\ Payload(msgs, i) = p \o rest
       /\ Ahead(b, w) = rest \o Outstanding(msgs, i + 1)
       /\ rest # <<>> => b.limit = Len(rest)
       /\ rest = <<>> => b.limit <= 0

Due == (Len(handled) - ghosts) + 1
PayloadRead == IF task = "parsing" THEN payload ELSE <<>>

Kept ==
  /\ internal_state = "NEXT_MSG" => InType(sent, Due, buf, wire, msg_type, multiplier)
  /\ internal_state = "GETLENGTH" =>
       /\ msg_type = sent[Due].type
       /\ InLength(sent, Due, buf, wire, msg_length, multiplier)
  /\ internal_state = "READ_MSG" =>
       /\ multiplier = 1 /\ msg_type = sent[Due].type
       /\ msg_length = Len(Payload(sent, Due))
       /\ InPayload(sent, Due, buf, wire, PayloadRead)
       /\ task = "parsing" => Len(Payload(sent, Due)) <= Len(payload) + Len(Unread(buf))

\* A handler has thrown: its message is used up, but not finished.
Ghosted ==
  /\ internal_state = "READ_MSG" /\ multiplier = 1
  /\ buf.limit <= 0 /\ Ahead(buf, wire) = Outstanding(sent, Due)
  /\ Len(handled) > 0 /\ handled[Len(handled)].type = msg_type
  /\ task = "parsing" => payload = <<>>

(* That a message arrives whole follows from what the bytes ahead are: the *)
(* rest of the message that is due, and the messages after it.  While a    *)
(* number is read, what has been read of it and what is still to come make *)
(* it up; while a payload is read, the limit is what is left of it.        *)
FramingInv ==
  /\ StreamInv
  /\ framing # "lost" => Due \in 1..(Len(sent) + 1)
  /\ framing = "kept" => Kept
  /\ framing = "ghost" => Ghosted

LEMMA MessageFacts ==
  ASSUME NEW msgs \in Seq(Messages), NEW i \in Nat, 1 <= i, i <= Len(msgs)
  PROVE  /\ i \in 1..Len(msgs) /\ i \in 1..(Len(msgs) + 1) /\ i + 1 \in 1..(Len(msgs) + 1)
         /\ msgs[i] \in Messages
         /\ msgs[i].type \in Nat /\ Len(Varint[msgs[i].type]) <= VarintLimit
         /\ Payload(msgs, i) \in Seq(Byte) /\ Len(Payload(msgs, i)) \in Nat
         /\ Len(Varint[Len(Payload(msgs, i))]) <= VarintLimit
         /\ Varint[Len(Payload(msgs, i))] \in Seq(Byte)
         /\ Outstanding(msgs, i) \in Seq(Byte) /\ Outstanding(msgs, i + 1) \in Seq(Byte)
         /\ AfterLength(msgs, i) \in Seq(Byte) /\ AfterType(msgs, i) \in Seq(Byte)
         /\ Outstanding(msgs, i) = Varint[msgs[i].type] \o AfterType(msgs, i)
         /\ msgs[i] = [type |-> msgs[i].type, payload |-> Payload(msgs, i)]
<1>1. i \in 1..Len(msgs) /\ i \in 1..(Len(msgs) + 1) /\ i + 1 \in 1..(Len(msgs) + 1)
  OBVIOUS
<1>2. msgs[i] \in Messages
  BY <1>1
<1> DEFINE m == msgs[i]
           l == Varint[Len(Payload(msgs, i))]
<1>3. /\ m.type \in Nat /\ Len(Varint[m.type]) <= VarintLimit
      /\ Payload(msgs, i) \in Seq(Byte) /\ Len(Payload(msgs, i)) \in Nat
      /\ Len(l) <= VarintLimit
      /\ m = [type |-> m.type, payload |-> Payload(msgs, i)]
  <2> HIDE DEF m
  <2>1. m \in Messages
    BY <1>2 DEF m
  <2>2. Payload(msgs, i) = m.payload
    BY DEF Payload, m
  <2>3. /\ m.type \in Nat /\ m.payload \in Seq(Byte) /\ Len(m.payload) \in Nat
        /\ Len(Varint[m.type]) <= VarintLimit /\ Len(Varint[Len(m.payload)]) <= VarintLimit
        /\ m = [type |-> m.type, payload |-> m.payload]
    BY <2>1, WritesMessage
  <2> QED
    BY <2>2, <2>3
<1>4. l \in Seq(Byte)
  BY <1>3, VarintBytes
<1>5. Outstanding(msgs, i) \in Seq(Byte) /\ Outstanding(msgs, i + 1) \in Seq(Byte)
  BY <1>1, OutstandingType
<1>6. AfterLength(msgs, i) \in Seq(Byte)
  BY <1>3, <1>5, ConcatProperties DEF AfterLength
<1>7. AfterType(msgs, i) \in Seq(Byte)
  BY <1>4, <1>6, ConcatProperties DEF AfterType
<1>8. Outstanding(msgs, i) = Varint[m.type] \o AfterType(msgs, i)
  <2>1. Outstanding(msgs, i) = Encoded(m) \o Outstanding(msgs, i + 1)
    BY <1>1, FirstOutstanding
  <2>2. Encoded(m) \o Outstanding(msgs, i + 1) =
          Varint[m.type] \o (Varint[Len(m.payload)] \o (m.payload \o Outstanding(msgs, i + 1)))
    BY <1>2, <1>5, EncodedType
  <2> QED
    BY <2>1, <2>2 DEF AfterType, AfterLength, Payload
<1> QED
  BY <1>1, <1>2, <1>3, <1>4, <1>5, <1>6, <1>7, <1>8

(* A message that nothing has been read of.                                *)
LEMMA FromTheStart ==
  ASSUME NEW msgs \in Seq(Messages), NEW i \in 1..(Len(msgs) + 1), NEW b, NEW w,
         b.limit = VarintLimit, Ahead(b, w) = Outstanding(msgs, i)
  PROVE  InType(msgs, i, b, w, 0, 1)
<1>1. CASE i = Len(msgs) + 1
  <2>1. Ahead(b, w) = <<>>
    BY <1>1, NothingOutstanding
  <2> QED
    BY <1>1, <2>1 DEF InType
<1>2. CASE i # Len(msgs) + 1
  <2>1. i \in Nat /\ 1 <= i /\ i <= Len(msgs)
    BY <1>2
  <2> DEFINE k == msgs[i].type
  <2>2. k \in Nat /\ Len(Varint[k]) <= b.limit /\ Ahead(b, w) = Varint[k] \o AfterType(msgs, i)
    BY <2>1, MessageFacts
  <2>3. NumberAhead(b, w, k, AfterType(msgs, i))
    BY <2>2 DEF NumberAhead, Ahead
  <2>4. 0 + 1 * k = k
    BY <2>2
  <2> QED
    BY <2>1, <2>2, <2>3, <2>4 DEF InType
<1> QED
  BY <1>1, <1>2

(* A message that is sent comes behind everything.                         *)
LEMMA SentBehind ==
  ASSUME NEW msgs \in Seq(Messages), NEW x \in Messages, NEW i \in 1..(Len(msgs) + 1),
         NEW b, InputOK(b), NEW w \in Seq(Byte)
  PROVE  LET more == Append(msgs, x)
             v == w \o Encoded(x)
         IN /\ Ahead(b, v) = Ahead(b, w) \o Encoded(x) /\ Ahead(b, w) \in Seq(Byte)
            /\ \A n, m \in Nat :
                 /\ InType(msgs, i, b, w, n, m) => InType(more, i, b, v, n, m)
                 /\ InLength(msgs, i, b, w, n, m) => InLength(more, i, b, v, n, m)
            /\ \A p \in Seq(Byte) : InPayload(msgs, i, b, w, p) => InPayload(more, i, b, v, p)
            /\ i <= Len(msgs) => more[i] = msgs[i] /\ Payload(more, i) = Payload(msgs, i)
<1> DEFINE more == Append(msgs, x)
           e == Encoded(x)
           v == w \o e
<1>1. e \in Seq(Byte)
  BY EncodedType
<1>2. Unread(b) \in Seq(Byte)
  BY UnreadFacts DEF InputOK
<1>3. /\ more \in Seq(Messages) /\ Len(more) = Len(msgs) + 1 /\ Len(msgs) \in Nat
      /\ \A j \in 1..Len(msgs) : more[j] = msgs[j]
  OBVIOUS
<1>4. Outstanding(more, i) = Outstanding(msgs, i) \o e
  BY MoreOutstanding
<1> HIDE DEF more, e
<1>5. Ahead(b, v) = Ahead(b, w) \o e /\ Ahead(b, w) \in Seq(Byte)
  <2>1. (Unread(b) \o w) \o e = Unread(b) \o (w \o e)
    <3>1. Grouped(Unread(b), w, e)
      BY <1>1, <1>2, BytesGrouped
    <3> QED
      BY <3>1 DEF Grouped
  <2>2. Unread(b) \o w \in Seq(Byte)
    BY <1>2, ConcatProperties
  <2> QED
    BY <2>1, <2>2 DEF Ahead
<1> HIDE DEF v
<1>6. i <= Len(msgs) =>
        /\ i <= Len(more) /\ more[i] = msgs[i] /\ Payload(more, i) = Payload(msgs, i)
        /\ Outstanding(more, i + 1) = Outstanding(msgs, i + 1) \o e
        /\ AfterLength(more, i) = AfterLength(msgs, i) \o e
        /\ AfterType(more, i) = AfterType(msgs, i) \o e
  <2> SUFFICES ASSUME i <= Len(msgs)
               PROVE  /\ i <= Len(more) /\ more[i] = msgs[i] /\ Payload(more, i) = Payload(msgs, i)
                      /\ Outstanding(more, i + 1) = Outstanding(msgs, i + 1) \o e
                      /\ AfterLength(more, i) = AfterLength(msgs, i) \o e
                      /\ AfterType(more, i) = AfterType(msgs, i) \o e
    OBVIOUS
  <2>1. /\ i \in Nat /\ 1 <= i /\ i \in 1..Len(msgs) /\ i + 1 \in 1..(Len(msgs) + 1)
        /\ i <= Len(more)
    BY <1>3
  <2>2. more[i] = msgs[i] /\ Payload(more, i) = Payload(msgs, i)
    BY <1>3, <2>1 DEF Payload
  <2> DEFINE p == Payload(msgs, i)
             l == Varint[Len(Payload(msgs, i))]
             o == Outstanding(msgs, i + 1)
  <2>3. /\ p \in Seq(Byte) /\ l \in Seq(Byte) /\ o \in Seq(Byte)
        /\ AfterLength(msgs, i) \in Seq(Byte)
    BY <2>1, MessageFacts
  <2>4. Outstanding(more, i + 1) = o \o e
    BY <2>1, MoreOutstanding DEF more, e
  <2>5. AfterLength(msgs, i) = p \o o /\ AfterType(msgs, i) = l \o AfterLength(msgs, i)
    BY DEF AfterLength, AfterType
  <2>6. AfterLength(more, i) = p \o (o \o e) /\ AfterType(more, i) = l \o AfterLength(more, i)
    BY <2>2, <2>4 DEF AfterLength, AfterType
  <2> HIDE DEF p, l, o
  <2>7. (p \o o) \o e = p \o (o \o e)
    <3>1. Grouped(p, o, e)
      BY <1>1, <2>3, BytesGrouped
    <3> QED
      BY <3>1 DEF Grouped
  <2>8. (l \o AfterLength(msgs, i)) \o e = l \o (AfterLength(msgs, i) \o e)
    <3>1. Grouped(l, AfterLength(msgs, i), e)
      BY <1>1, <2>3, BytesGrouped
    <3> QED
      BY <3>1 DEF Grouped
  <2> QED
    BY <2>1, <2>2, <2>4, <2>5, <2>6, <2>7, <2>8 DEF o
<1>7. ASSUME NEW k \in Nat, NEW R \in Seq(Byte), NumberAhead(b, w, k, R)
      PROVE  NumberAhead(b, v, k, R \o e)
  <2>1. Varint[k] \in Seq(Byte)
    BY VarintBytes
  <2>2. (Varint[k] \o R) \o e = Varint[k] \o (R \o e)
    <3>1. Grouped(Varint[k], R, e)
      BY <1>1, <2>1, BytesGrouped
    <3> QED
      BY <3>1 DEF Grouped
  <2> QED
    BY <1>5, <1>7, <2>2 DEF NumberAhead, Ahead
<1>8. ASSUME i <= Len(msgs)
      PROVE  /\ i \in Nat /\ 1 <= i
             /\ AfterType(msgs, i) \in Seq(Byte) /\ AfterLength(msgs, i) \in Seq(Byte)
             /\ Outstanding(msgs, i + 1) \in Seq(Byte)
  <2>1. i \in Nat /\ 1 <= i
    OBVIOUS
  <2> QED
    BY <1>8, <2>1, MessageFacts
<1>9. ASSUME NEW n \in Nat, NEW m \in Nat, InType(msgs, i, b, w, n, m)
      PROVE  InType(more, i, b, v, n, m)
  <2>1. CASE i = Len(msgs) + 1
    <3>1. ~(i <= Len(msgs)) /\ i \in 1..(Len(more) + 1)
      BY <1>3, <2>1
    <3>2. n = 0 /\ m = 1 /\ b.limit = VarintLimit /\ Ahead(b, w) = <<>>
      BY <1>9, <3>1 DEF InType
    <3>3. Outstanding(msgs, i) = <<>>
      BY <2>1, NothingOutstanding
    <3>4. Ahead(b, v) = Outstanding(more, i)
      BY <1>4, <1>5, <3>2, <3>3
    <3> QED
      BY <1>3, <3>1, <3>2, <3>4, FromTheStart
  <2>2. CASE i # Len(msgs) + 1
    <3>1. i <= Len(msgs)
      BY <1>3, <2>2
    <3>2. PICK k \in Nat : n + m * k = msgs[i].type /\ NumberAhead(b, w, k, AfterType(msgs, i))
      BY <1>9, <2>2 DEF InType
    <3>3. NumberAhead(b, v, k, AfterType(more, i))
      BY <1>6, <1>7, <1>8, <3>1, <3>2
    <3> QED
      BY <1>6, <3>1, <3>2, <3>3 DEF InType
  <2> QED
    BY <2>1, <2>2
<1>10. ASSUME NEW n \in Nat, NEW m \in Nat, InLength(msgs, i, b, w, n, m)
       PROVE  InLength(more, i, b, v, n, m)
  <2>1. i <= Len(msgs)
    BY <1>10 DEF InLength
  <2>2. PICK k \in Nat : /\ n + m * k = Len(Payload(msgs, i))
                         /\ NumberAhead(b, w, k, AfterLength(msgs, i))
    BY <1>10 DEF InLength
  <2>3. NumberAhead(b, v, k, AfterLength(more, i))
    BY <1>6, <1>7, <1>8, <2>1, <2>2
  <2> QED
    BY <1>6, <2>1, <2>2, <2>3 DEF InLength
<1>11. ASSUME NEW p \in Seq(Byte), InPayload(msgs, i, b, w, p)
       PROVE  InPayload(more, i, b, v, p)
  <2>1. i <= Len(msgs)
    BY <1>11 DEF InPayload
  <2>2. PICK rest \in Seq(Byte) :
          /\ Payload(msgs, i) = p \o rest
          /\ Ahead(b, w) = rest \o Outstanding(msgs, i + 1)
          /\ rest # <<>> => b.limit = Len(rest)
          /\ rest = <<>> => b.limit <= 0
    BY <1>11 DEF InPayload
  <2>3. Ahead(b, v) = rest \o Outstanding(more, i + 1)
    <3> DEFINE o == Outstanding(msgs, i + 1)
    <3>1. o \in Seq(Byte)
      BY <1>8, <2>1
    <3>2. Ahead(b, w) = rest \o o /\ Outstanding(more, i + 1) = o \o e
      BY <1>6, <2>1, <2>2
    <3> HIDE DEF o
    <3>3. (rest \o o) \o e = rest \o (o \o e)
      <4>1. Grouped(rest, o, e)
        BY <1>1, <3>1, BytesGrouped
      <4> QED
        BY <4>1 DEF Grouped
    <3> QED
      BY <1>5, <3>2, <3>3
  <2>4. i <= Len(more) /\ Payload(more, i) = p \o rest
    BY <1>6, <2>1, <2>2
  <2> QED
    BY <2>2, <2>3, <2>4 DEF InPayload
<1> QED
  BY <1>5, <1>6, <1>9, <1>10, <1>11 DEF more, v, e

(* The steps                                                               *)

LEMMA DueStays == UNCHANGED <<handled, ghosts>> => Due' = Due
  BY DEF Due

LEMMA StillFramed ==
  ASSUME FramingInv, StreamInv', UNCHANGED <<sent, handled, ghosts, framing>>
  PROVE  /\ Due' = Due /\ (framing # "lost" => Due \in 1..(Len(sent) + 1))
         /\ (framing = "kept" => Kept') /\ (framing = "ghost" => Ghosted') => FramingInv'
<1>1. Due' = Due
  BY DueStays
<1> QED
  BY <1>1 DEF FramingInv

LEMMA SendFraming ==
  ASSUME FramingInv, StreamInv', Send
  PROVE  FramingInv' /\ Stream!Submit
<1>1. PICK x \in Messages : sent' = Append(sent, x) /\ wire' = wire \o WriteMessage(x)
  BY DEF Send
<1>2. /\ Len(sent) < MaxMessages
      /\ UNCHANGED <<buf, multiplier, internal_state, msg_type, msg_length, task, payload,
                     handled, crashes, ghosts, framing>>
  BY DEF Send, handlerVars, history
<1>3. wire' = wire \o Encoded(x)
  BY <1>1, WritesMessage
<1>4. /\ sent \in Seq(Messages) /\ wire \in Seq(Byte) /\ InputOK(buf) /\ payload \in Seq(Byte)
      /\ msg_type \in Nat /\ msg_length \in Nat /\ multiplier \in Nat
  BY DEF FramingInv, StreamInv
<1>5. Due' = Due /\ PayloadRead' = PayloadRead
  BY <1>2, DueStays DEF PayloadRead
<1>6. PayloadRead \in Seq(Byte)
  <2>1. <<>> \in Seq(Byte)
    OBVIOUS
  <2> QED
    BY <1>4, <2>1 DEF PayloadRead
<1>7. framing # "lost" => Due \in 1..(Len(sent) + 1) /\ Due \in 1..(Len(sent') + 1)
  <2>1. Len(sent') = Len(sent) + 1
    BY <1>1, <1>4, AppendProperties
  <2> QED
    BY <1>4, <2>1 DEF FramingInv
<1>8. ASSUME framing # "lost"
      PROVE  /\ Ahead(buf, wire') = Ahead(buf, wire) \o Encoded(x)
             /\ \A n, m \in Nat :
                  /\ InType(sent, Due, buf, wire, n, m) => InType(sent', Due, buf, wire', n, m)
                  /\ InLength(sent, Due, buf, wire, n, m) => InLength(sent', Due, buf, wire', n, m)
             /\ \A p \in Seq(Byte) :
                  InPayload(sent, Due, buf, wire, p) => InPayload(sent', Due, buf, wire', p)
             /\ Due <= Len(sent) =>
                  sent'[Due] = sent[Due] /\ Payload(sent', Due) = Payload(sent, Due)
             /\ Outstanding(sent', Due) = Outstanding(sent, Due) \o Encoded(x)
  <2>1. Due \in 1..(Len(sent) + 1)
    BY <1>7, <1>8
  <2>2. Outstanding(sent', Due) = Outstanding(sent, Due) \o Encoded(x)
    BY <1>1, <1>4, <2>1, MoreOutstanding
  <2> QED
    BY <1>1, <1>3, <1>4, <2>1, <2>2, SentBehind
<1>9. framing = "kept" => Kept'
  <2> SUFFICES ASSUME framing = "kept" PROVE Kept'
    OBVIOUS
  <2>1. Kept
    BY DEF FramingInv
  <2>2. internal_state = "NEXT_MSG" => InType(sent', Due, buf, wire', msg_type, multiplier)
    BY <1>4, <1>8, <2>1 DEF Kept
  <2>3. internal_state = "GETLENGTH" =>
          msg_type = sent'[Due].type /\ InLength(sent', Due, buf, wire', msg_length, multiplier)
    BY <1>4, <1>8, <2>1 DEF Kept, InLength
  <2>4. internal_state = "READ_MSG" =>
          /\ multiplier = 1 /\ msg_type = sent'[Due].type
          /\ msg_length = Len(Payload(sent', Due))
          /\ InPayload(sent', Due, buf, wire', PayloadRead)
          /\ task = "parsing" => Len(Payload(sent', Due)) <= Len(payload) + Len(Unread(buf))
    <3> SUFFICES ASSUME internal_state = "READ_MSG"
                 PROVE  /\ multiplier = 1 /\ msg_type = sent'[Due].type
                        /\ msg_length = Len(Payload(sent', Due))
                        /\ InPayload(sent', Due, buf, wire', PayloadRead)
                        /\ task = "parsing" =>
                             Len(Payload(sent', Due)) <= Len(payload) + Len(Unread(buf))
      OBVIOUS
    <3>1. /\ multiplier = 1 /\ msg_type = sent[Due].type
          /\ msg_length = Len(Payload(sent, Due))
          /\ InPayload(sent, Due, buf, wire, PayloadRead)
          /\ task = "parsing" => Len(Payload(sent, Due)) <= Len(payload) + Len(Unread(buf))
      BY <2>1 DEF Kept
    <3>2. Due <= Len(sent)
      BY <3>1 DEF InPayload
    <3> QED
      BY <1>6, <1>8, <3>1, <3>2
  <2> QED
    BY <1>2, <1>5, <2>2, <2>3, <2>4 DEF Kept
<1>10. framing = "ghost" => Ghosted'
  <2> SUFFICES ASSUME framing = "ghost" PROVE Ghosted'
    OBVIOUS
  <2>1. Ghosted
    BY DEF FramingInv
  <2>2. Ahead(buf, wire') = Outstanding(sent', Due)
    BY <1>8, <2>1 DEF Ghosted
  <2> QED
    BY <1>2, <1>5, <2>1, <2>2 DEF Ghosted
<1>11. FramingInv'
  BY <1>2, <1>5, <1>7, <1>9, <1>10 DEF FramingInv
<1>12. Stream!Submit
  BY <1>1, <1>2 DEF Stream!Submit
<1> QED
  BY <1>11, <1>12

LEMMA ReceiveFraming ==
  ASSUME FramingInv, StreamInv', Receive
  PROVE  FramingInv' /\ UNCHANGED <<sent, handled, ghosts, framing>>
<1>1. PICK n \in 1..MaxRecord :
        /\ n <= Len(wire)
        /\ buf' = AppendData(buf, SubSeq(wire, 1, n))
        /\ wire' = SubSeq(wire, n + 1, Len(wire))
  BY DEF Receive
<1>2. /\ task = "idle" /\ task' = "framing"
      /\ UNCHANGED <<sent, multiplier, internal_state, msg_type, msg_length, payload,
                     handled, crashes, ghosts, framing>>
  BY DEF Receive, handlerVars, history
<1>3. n \in 0..Len(wire) /\ wire \in Seq(Byte) /\ InputOK(buf)
  <2>1. MaxRecord \in Nat /\ wire \in Seq(Byte) /\ InputOK(buf)
    BY FramingAssumption DEF FramingInv, StreamInv
  <2> QED
    BY <1>1, <2>1
<1> DEFINE d == SubSeq(wire, 1, n)
           e == SubSeq(wire, n + 1, Len(wire))
<1>4. d \in Seq(Byte) /\ e \in Seq(Byte) /\ wire = d \o e
  BY <1>3, SplitAt
<1>5. buf' = AppendData(buf, d) /\ wire' = e
  BY <1>1
<1>6. buf'.limit = buf.limit /\ Unread(buf') = Unread(buf) \o d
  BY <1>3, <1>4, <1>5, AppendKeepsBuffer
<1>7. Unread(buf) \in Seq(Byte)
  BY <1>3, UnreadFacts DEF InputOK
<1> HIDE DEF d, e
<1>8. Ahead(buf', wire') = Ahead(buf, wire)
  <2>1. (Unread(buf) \o d) \o e = Unread(buf) \o (d \o e)
    <3>1. Grouped(Unread(buf), d, e)
      BY <1>4, <1>7, BytesGrouped
    <3> QED
      BY <3>1 DEF Grouped
  <2> QED
    BY <1>4, <1>5, <1>6, <2>1 DEF Ahead
<1>9. /\ \A k \in Nat : \A R : NumberAhead(buf, wire, k, R) => NumberAhead(buf', wire', k, R)
      /\ PayloadRead = <<>> /\ PayloadRead' = <<>>
  BY <1>2, <1>6, <1>8 DEF NumberAhead, Ahead, PayloadRead
<1>10. Due' = Due
  BY <1>2, DueStays
<1>11. framing = "kept" => Kept'
  <2> SUFFICES ASSUME framing = "kept" PROVE Kept'
    OBVIOUS
  <2>1. Kept
    BY DEF FramingInv
  <2>2. internal_state = "NEXT_MSG" => InType(sent, Due, buf', wire', msg_type, multiplier)
    BY <1>6, <1>8, <1>9, <2>1 DEF Kept, InType
  <2>3. internal_state = "GETLENGTH" =>
          msg_type = sent[Due].type /\ InLength(sent, Due, buf', wire', msg_length, multiplier)
    BY <1>9, <2>1 DEF Kept, InLength
  <2>4. internal_state = "READ_MSG" =>
          /\ multiplier = 1 /\ msg_type = sent[Due].type
          /\ msg_length = Len(Payload(sent, Due))
          /\ InPayload(sent, Due, buf', wire', <<>>)
    BY <1>6, <1>8, <1>9, <2>1 DEF Kept, InPayload
  <2> QED
    BY <1>2, <1>9, <1>10, <2>2, <2>3, <2>4 DEF Kept
<1>12. framing = "ghost" => Ghosted'
  <2> SUFFICES ASSUME framing = "ghost" PROVE Ghosted'
    OBVIOUS
  <2>1. Ghosted
    BY DEF FramingInv
  <2> QED
    BY <1>2, <1>6, <1>8, <1>10, <2>1 DEF Ghosted
<1> QED
  BY <1>2, <1>10, <1>11, <1>12 DEF FramingInv

\* Something is ahead where something is buffered.
LEMMA SomethingAhead ==
  ASSUME NEW b, InputOK(b), HasNext(b), NEW w \in Seq(Byte)
  PROVE  Ahead(b, w) # <<>>
<1>1. Unread(b) \in Seq(Byte) /\ Len(Unread(b)) > 0
  BY HasNextExact, SizeExact, UnreadFacts DEF InputOK
<1>2. Len(Unread(b) \o w) = Len(Unread(b)) + Len(w)
  BY <1>1, ConcatProperties
<1>3. Len(Unread(b) \o w) > 0
  BY <1>1, <1>2
<1> QED
  BY <1>3 DEF Ahead

LEMMA NextMsgFraming ==
  ASSUME FramingInv, StreamInv', NextMsg
  PROVE  FramingInv' /\ UNCHANGED <<sent, handled, ghosts, framing>>
<1> DEFINE r == ReadVarint(msg_type)
<1>1. /\ task = "framing" /\ internal_state = "NEXT_MSG" /\ HasNext(buf)
      /\ msg_type' = r.number /\ multiplier' = r.multiplier
      /\ buf' = IF r.done THEN UpdateLimit(r.buf, VarintLimit) ELSE r.buf
      /\ internal_state' = IF r.done THEN "GETLENGTH" ELSE internal_state
      /\ msg_length' = IF r.done THEN 0 ELSE msg_length
      /\ UNCHANGED <<sent, wire, task, payload, handled, crashes, ghosts, framing>>
  BY DEF NextMsg, history
<1>2. /\ InputOK(buf) /\ sent \in Seq(Messages) /\ wire \in Seq(Byte)
      /\ msg_type \in Nat /\ multiplier \in Nat
  BY DEF FramingInv, StreamInv
<1>3. r.done \in BOOLEAN /\ r.number \in Nat /\ r.multiplier \in Nat /\ InputOK(r.buf)
  BY <1>1, <1>2, ReadVarintTypes
<1>4. Due' = Due
  BY <1>1, DueStays
<1>5. framing # "ghost"
  BY <1>1 DEF FramingInv, Ghosted
<1>6. ASSUME framing = "kept" PROVE Kept'
  <2>1. InType(sent, Due, buf, wire, msg_type, multiplier) /\ Due \in 1..(Len(sent) + 1)
    BY <1>1, <1>6 DEF FramingInv, Kept
  <2>2. /\ Due <= Len(sent)
        /\ \E k \in Nat : /\ msg_type + multiplier * k = sent[Due].type
                          /\ NumberAhead(buf, wire, k, AfterType(sent, Due))
    <3>1. Ahead(buf, wire) # <<>>
      BY <1>1, <1>2, SomethingAhead
    <3> QED
      BY <2>1, <3>1 DEF InType
  <2>3. PICK k \in Nat : /\ msg_type + multiplier * k = sent[Due].type
                         /\ NumberAhead(buf, wire, k, AfterType(sent, Due))
    BY <2>2
  <2>4. Due \in Nat /\ 1 <= Due /\ Due <= Len(sent)
    BY <1>2, <2>1, <2>2
  <2> DEFINE l == Len(Payload(sent, Due))
  <2>5. /\ AfterType(sent, Due) \in Seq(Byte) /\ l \in Nat /\ Len(Varint[l]) <= VarintLimit
        /\ AfterType(sent, Due) = Varint[l] \o AfterLength(sent, Due)
    BY <1>2, <2>4, MessageFacts DEF AfterType
  <2>6. RoundOf(r, wire, msg_type, multiplier, k, AfterType(sent, Due))
    BY <1>1, <1>2, <2>3, <2>5, ReadVarintRounds
  <2> HIDE DEF r, l
  <2>7. CASE r.done
    <3>1. /\ msg_type' = sent[Due].type /\ multiplier' = 1 /\ msg_length' = 0
          /\ internal_state' = "GETLENGTH" /\ buf' = UpdateLimit(r.buf, VarintLimit)
          /\ Unread(r.buf) \o wire = AfterType(sent, Due)
      BY <1>1, <2>3, <2>6, <2>7 DEF RoundOf
    <3>2. buf'.limit = VarintLimit /\ Unread(buf') = Unread(r.buf)
      <4>1. VarintLimit \in Int
        BY FramingAssumption
      <4> QED
        BY <1>3, <3>1, <4>1, LimitKeepsBuffer
    <3>3. NumberAhead(buf', wire, l, AfterLength(sent, Due))
      BY <2>5, <3>1, <3>2 DEF NumberAhead
    <3>4. 0 + 1 * l = l
      BY <2>5
    <3>5. InLength(sent, Due, buf', wire, 0, 1)
      BY <2>4, <2>5, <3>3, <3>4 DEF InLength, l
    <3> QED
      BY <1>1, <1>4, <3>1, <3>5 DEF Kept
  <2>8. CASE ~r.done
    <3>1. /\ internal_state' = "NEXT_MSG" /\ buf' = r.buf
          /\ \E q \in Nat : /\ msg_type' + multiplier' * q = sent[Due].type
                            /\ NumberAhead(buf', wire, q, AfterType(sent, Due))
      BY <1>1, <2>3, <2>6, <2>8 DEF RoundOf
    <3>2. InType(sent, Due, buf', wire, msg_type', multiplier')
      BY <2>4, <3>1 DEF InType
    <3> QED
      BY <1>1, <1>4, <3>1, <3>2 DEF Kept
  <2> QED
    BY <2>7, <2>8
<1> QED
  BY <1>1, <1>4, <1>5, <1>6, StillFramed

LEMMA GetLengthFraming ==
  ASSUME FramingInv, StreamInv', GetLength
  PROVE  FramingInv' /\ UNCHANGED <<sent, handled, ghosts, framing>>
<1> DEFINE r == ReadVarint(msg_length)
<1>1. /\ task = "framing" /\ internal_state = "GETLENGTH" /\ HasNext(buf)
      /\ msg_length' = r.number /\ multiplier' = r.multiplier
      /\ buf' = IF r.done THEN UpdateLimit(r.buf, r.number) ELSE r.buf
      /\ internal_state' = IF r.done THEN "READ_MSG" ELSE internal_state
      /\ UNCHANGED <<sent, wire, msg_type, task, payload, handled, crashes, ghosts, framing>>
  BY DEF GetLength, history
<1>2. /\ InputOK(buf) /\ sent \in Seq(Messages) /\ wire \in Seq(Byte)
      /\ msg_length \in Nat /\ multiplier \in Nat
  BY DEF FramingInv, StreamInv
<1>3. r.done \in BOOLEAN /\ r.number \in Nat /\ r.multiplier \in Nat /\ InputOK(r.buf)
  BY <1>1, <1>2, ReadVarintTypes
<1>4. Due' = Due
  BY <1>1, DueStays
<1>5. framing # "ghost"
  BY <1>1 DEF FramingInv, Ghosted
<1>6. ASSUME framing = "kept" PROVE Kept'
  <2>1. /\ msg_type = sent[Due].type /\ InLength(sent, Due, buf, wire, msg_length, multiplier)
        /\ Due \in 1..(Len(sent) + 1)
    BY <1>1, <1>6 DEF FramingInv, Kept
  <2> DEFINE l == Len(Payload(sent, Due))
             p == Payload(sent, Due)
  <2>2. PICK k \in Nat : /\ msg_length + multiplier * k = l
                         /\ NumberAhead(buf, wire, k, AfterLength(sent, Due))
    BY <2>1 DEF InLength
  <2>3. Due \in Nat /\ 1 <= Due /\ Due <= Len(sent)
    BY <1>2, <2>1 DEF InLength
  <2>4. /\ AfterLength(sent, Due) \in Seq(Byte) /\ l \in Nat /\ p \in Seq(Byte) /\ l = Len(p)
        /\ AfterLength(sent, Due) = p \o Outstanding(sent, Due + 1)
    BY <1>2, <2>3, MessageFacts DEF AfterLength
  <2>5. RoundOf(r, wire, msg_length, multiplier, k, AfterLength(sent, Due))
    BY <1>1, <1>2, <2>2, <2>4, ReadVarintRounds
  <2> HIDE DEF r, l
  <2>6. CASE r.done
    <3>1. /\ msg_length' = l /\ r.number = l /\ multiplier' = 1
          /\ internal_state' = "READ_MSG" /\ buf' = UpdateLimit(r.buf, r.number)
          /\ Unread(r.buf) \o wire = AfterLength(sent, Due)
      BY <1>1, <2>2, <2>5, <2>6 DEF RoundOf
    <3>2. buf'.limit = l /\ Unread(buf') = Unread(r.buf)
      <4>1. r.number \in Int
        BY <1>3
      <4> QED
        BY <1>3, <3>1, <4>1, LimitKeepsBuffer
    <3>3. PayloadRead' = <<>> /\ task' # "parsing"
      BY <1>1 DEF PayloadRead
    <3>4. InPayload(sent, Due, buf', wire, <<>>)
      <4>1. p = <<>> \o p
        BY <2>4, ConcatEmptySeq
      <4>2. Ahead(buf', wire) = p \o Outstanding(sent, Due + 1)
        BY <2>4, <3>1, <3>2 DEF Ahead
      <4>3. p = <<>> => l = 0
        BY <2>4
      <4> QED
        BY <2>3, <2>4, <3>2, <4>1, <4>2, <4>3 DEF InPayload
    <3> QED
      BY <1>1, <1>4, <2>1, <3>1, <3>3, <3>4 DEF Kept, l
  <2>7. CASE ~r.done
    <3>1. /\ internal_state' = "GETLENGTH" /\ buf' = r.buf
          /\ \E q \in Nat : /\ msg_length' + multiplier' * q = l
                            /\ NumberAhead(buf', wire, q, AfterLength(sent, Due))
      BY <1>1, <2>2, <2>5, <2>7 DEF RoundOf
    <3>2. InLength(sent, Due, buf', wire, msg_length', multiplier')
      BY <2>3, <3>1 DEF InLength, l
    <3> QED
      BY <1>1, <1>4, <2>1, <3>1, <3>2 DEF Kept
  <2> QED
    BY <2>6, <2>7
<1> QED
  BY <1>1, <1>4, <1>5, <1>6, StillFramed

LEMMA AwaitDataFraming ==
  ASSUME FramingInv, StreamInv', AwaitData
  PROVE  FramingInv' /\ UNCHANGED <<sent, handled, ghosts, framing>>
<1>1. /\ task = "framing" /\ task' = "idle"
      /\ UNCHANGED <<sent, wire, buf, multiplier, internal_state, msg_type, msg_length, payload,
                     handled, crashes, ghosts, framing>>
  BY DEF AwaitData, handlerVars, history
<1>2. Due' = Due /\ PayloadRead' = PayloadRead
  BY <1>1, DueStays DEF PayloadRead
<1>3. (framing = "kept" => Kept') /\ (framing = "ghost" => Ghosted')
  BY <1>1, <1>2 DEF FramingInv, Kept, Ghosted
<1> QED
  BY <1>1, <1>2, <1>3, StillFramed

LEMMA ReadMsgFraming ==
  ASSUME FramingInv, StreamInv', ReadMsg
  PROVE  FramingInv' /\ UNCHANGED <<sent, handled, ghosts, framing>>
<1>1. /\ task = "framing" /\ task' = "parsing" /\ payload' = <<>> /\ internal_state = "READ_MSG"
      /\ buf.streamsize >= msg_length
      /\ UNCHANGED <<sent, wire, buf, multiplier, internal_state, msg_type, msg_length,
                     handled, crashes, ghosts, framing>>
  BY DEF ReadMsg, handlerVars, history
<1>2. Due' = Due /\ PayloadRead' = <<>> /\ PayloadRead = <<>>
  BY <1>1, DueStays DEF PayloadRead
<1>3. InputOK(buf) /\ msg_length \in Nat
  BY DEF FramingInv, StreamInv
<1>4. framing = "kept" => msg_length <= Len(payload') + Len(Unread(buf))
  <2>1. buf.streamsize = Len(Unread(buf)) /\ buf.streamsize \in Nat
    BY <1>3, SizeExact
  <2>2. Len(payload') = 0
    BY <1>1
  <2> QED
    BY <1>1, <1>3, <2>1, <2>2
<1>5. framing = "kept" => Kept'
  BY <1>1, <1>2, <1>4 DEF FramingInv, Kept
<1>6. framing = "ghost" => Ghosted'
  BY <1>1, <1>2 DEF FramingInv, Ghosted
<1> QED
  BY <1>1, <1>2, <1>5, <1>6, StillFramed

LEMMA ParseFraming ==
  ASSUME FramingInv, StreamInv', Parse
  PROVE  FramingInv' /\ UNCHANGED <<sent, handled, ghosts, framing>>
<1> DEFINE c == Chunk(buf)
           a == AfterNext(buf)
<1>1. /\ task = "parsing" /\ HasNext(buf) /\ payload' = payload \o c /\ buf' = a
      /\ UNCHANGED <<sent, wire, multiplier, internal_state, msg_type, msg_length, task,
                     handled, crashes, ghosts, framing>>
  BY DEF Parse, handlerVars, history
<1>2. /\ InputOK(buf) /\ sent \in Seq(Messages) /\ wire \in Seq(Byte) /\ payload \in Seq(Byte)
      /\ internal_state = "READ_MSG"
  BY <1>1 DEF FramingInv, StreamInv
<1>3. buf.limit \in Int /\ buf.limit > 0
  BY <1>1, <1>2, HasNextExact DEF InputOK, InputShape
<1>4. framing # "ghost"
  BY <1>3 DEF FramingInv, Ghosted
<1>5. Due' = Due
  BY <1>1, DueStays
<1>6. /\ c \in Seq(Byte) /\ InputOK(a) /\ Unread(buf) = c \o Unread(a)
      /\ Len(c) <= buf.limit
      /\ a.limit > 0 => a.limit = buf.limit - Len(c)
      /\ a.limit <= 0 => Len(c) = buf.limit
  BY <1>1, <1>2, NextFacts
<1>7. Unread(a) \in Seq(Byte) /\ a.limit \in Int
  BY <1>6, UnreadFacts DEF InputOK, InputShape
<1> HIDE DEF a, c
<1>8. ASSUME framing = "kept" PROVE Kept'
  <2>1. /\ multiplier = 1 /\ msg_type = sent[Due].type
        /\ msg_length = Len(Payload(sent, Due))
        /\ InPayload(sent, Due, buf, wire, payload)
        /\ Len(Payload(sent, Due)) <= Len(payload) + Len(Unread(buf))
        /\ Due \in 1..(Len(sent) + 1)
    BY <1>1, <1>2, <1>8 DEF FramingInv, Kept, PayloadRead
  <2> DEFINE p == Payload(sent, Due)
             o == Outstanding(sent, Due + 1)
  <2>2. PICK rest \in Seq(Byte) :
          /\ p = payload \o rest /\ Ahead(buf, wire) = rest \o o
          /\ rest # <<>> => buf.limit = Len(rest)
          /\ rest = <<>> => buf.limit <= 0
    BY <2>1 DEF InPayload
  <2>3. buf.limit = Len(rest) /\ Len(rest) \in Nat
    BY <1>3, <2>2
  <2>4. Due \in Nat /\ 1 <= Due /\ Due <= Len(sent)
    BY <1>2, <2>1 DEF InPayload
  <2>5. o \in Seq(Byte) /\ p \in Seq(Byte)
    BY <1>2, <2>4, MessageFacts
  <2> HIDE DEF p, o
  <2>6. c \o (Unread(a) \o wire) = rest \o o /\ Unread(a) \o wire \in Seq(Byte)
    <3>1. (c \o Unread(a)) \o wire = c \o (Unread(a) \o wire)
      <4>1. Grouped(c, Unread(a), wire)
        BY <1>2, <1>6, <1>7, BytesGrouped
      <4> QED
        BY <4>1 DEF Grouped
    <3>2. Unread(a) \o wire \in Seq(Byte)
      BY <1>2, <1>7, ConcatProperties
    <3> QED
      BY <1>6, <2>2, <3>1, <3>2 DEF Ahead
  <2> DEFINE left == SubSeq(rest, Len(c) + 1, Len(rest))
             x == Unread(a) \o wire
  <2>7. CutOff(Byte, c, x, rest, o)
    <3>1. x \in Seq(Byte) /\ c \o x = rest \o o /\ c \in Seq(Byte) /\ Len(c) <= Len(rest)
      BY <1>6, <2>3, <2>6
    <3> HIDE DEF x
    <3> QED
      BY <2>5, <3>1, CutFront
  <2>8. /\ left \in Seq(Byte) /\ Len(left) = Len(rest) - Len(c) /\ rest = c \o left
        /\ x = left \o o
    BY <2>7 DEF CutOff
  <2> HIDE DEF left, x
  <2>9. p = payload' \o left
    <3>1. (payload \o c) \o left = payload \o (c \o left)
      <4>1. Grouped(payload, c, left)
        BY <1>2, <1>6, <2>8, BytesGrouped
      <4> QED
        BY <4>1 DEF Grouped
    <3> QED
      BY <1>1, <2>2, <2>8, <3>1
  <2>10. Len(c) \in Nat
    BY <1>6
  <2>11. left # <<>> => a.limit = Len(left)
    <3> SUFFICES ASSUME left # <<>> PROVE a.limit = Len(left)
      OBVIOUS
    <3>1. Len(left) > 0
      BY <2>8, EmptySeq
    <3>2. a.limit > 0
      BY <1>6, <1>7, <2>3, <2>8, <2>10, <3>1
    <3> QED
      BY <1>6, <2>3, <2>8, <3>2
  <2>12. left = <<>> => a.limit <= 0
    <3> SUFFICES ASSUME left = <<>> PROVE a.limit <= 0
      OBVIOUS
    <3>1. Len(left) = 0
      OBVIOUS
    <3>2. Len(rest) = Len(c)
      BY <2>3, <2>8, <2>10, <3>1
    <3> QED
      BY <1>6, <1>7, <2>3, <2>10, <3>2
  <2>13. InPayload(sent, Due, a, wire, payload')
    <3>1. Ahead(a, wire) = left \o o
      BY <2>8 DEF Ahead, x
    <3> QED
      BY <2>4, <2>8, <2>9, <2>11, <2>12, <3>1 DEF InPayload, p, o
  <2>14. Len(p) <= Len(payload') + Len(Unread(a))
    <3>1. Len(payload') = Len(payload) + Len(c) /\ Len(payload) \in Nat
      BY <1>1, <1>2, <1>6, ConcatProperties
    <3>2. Len(Unread(buf)) = Len(c) + Len(Unread(a)) /\ Len(Unread(a)) \in Nat
      BY <1>6, <1>7, ConcatProperties
    <3>3. Len(p) \in Nat /\ Len(p) <= Len(payload) + Len(Unread(buf))
      BY <2>1, <2>5 DEF p
    <3> QED
      BY <2>10, <3>1, <3>2, <3>3
  <2>15. PayloadRead' = payload'
    BY <1>1 DEF PayloadRead
  <2> QED
    BY <1>1, <1>2, <1>5, <2>1, <2>13, <2>14, <2>15 DEF Kept, p
<1> QED
  BY <1>1, <1>4, <1>5, <1>8, StillFramed


LEMMA FrontEqual ==
  ASSUME NEW S, NEW s \in Seq(S), NEW t \in Seq(S), Len(s) <= Len(t),
         \A i \in 1..Len(s) : s[i] = t[i]
  PROVE  s = SubSeq(t, 1, Len(s))
<1>1. Len(s) \in Nat /\ Len(s) \in 0..Len(t)
  OBVIOUS
<1> DEFINE u == SubSeq(t, 1, Len(s))
<1>2. u \in Seq(S) /\ Len(u) = Len(s)
  BY <1>1, SplitAt
<1>3. \A i \in 1..Len(s) : u[i] = t[i]
  BY <1>1
<1> HIDE DEF u
<1>4. u = s
  BY <1>2, <1>3, SeqEqual
<1> QED
  BY <1>4 DEF u

\* What is read of a payload before it is cut.
LEMMA ProperFront ==
  ASSUME NEW p \in Seq(Byte), NEW q \in Seq(Byte), NEW rest \in Seq(Byte),
         p = q \o rest, rest # <<>>
  PROVE  Len(q) \in 0..Len(p) /\ q = SubSeq(p, 1, Len(q)) /\ q # p
<1>1. Len(p) = Len(q) + Len(rest) /\ Len(q) \in Nat /\ Len(rest) \in Nat
  BY ConcatProperties
<1>2. Len(rest) > 0
  BY EmptySeq
<1>3. \A i \in 1..Len(q) : q[i] = p[i]
  BY ConcatProperties
<1>4. q = SubSeq(p, 1, Len(q))
  BY <1>1, <1>3, FrontEqual
<1>5. q # p
  BY <1>1, <1>2
<1>6. Len(q) \in 0..Len(p)
  BY <1>1
<1> QED
  BY <1>4, <1>5, <1>6

\* The call after an exception: the same type again, and nothing to parse.
LEMMA GhostGiven ==
  ASSUME StreamInv, Len(handled) > 0, handled[Len(handled)].type = msg_type, payload = <<>>
  PROVE  [type |-> msg_type, payload |-> payload] = [Last(handled) EXCEPT !.payload = <<>>]
<1> DEFINE l == handled[Len(handled)]
           S == [type : Nat, payload : Seq(Byte)]
<1>1. handled \in Seq(S)
  BY DEF StreamInv
<1>2. l \in S
  <2> HIDE DEF S
  <2>1. Len(handled) \in 1..Len(handled)
    BY <1>1
  <2> QED
    BY <1>1, <2>1
<1>3. l.type = msg_type /\ Last(handled) = l
  BY DEF Last
<1> HIDE DEF l
<1> QED
  BY <1>2, <1>3

LEMMA GarbageGiven ==
  ASSUME StreamInv, NEW e \in [type : Nat, payload : Seq(Byte)]
  PROVE  /\ Len(Append(handled, e)) = Len(handled) + 1
         /\ IsPrefix(handled, Append(handled, e))
<1> DEFINE S == [type : Nat, payload : Seq(Byte)]
<1>1. handled \in Seq(S)
  BY DEF StreamInv
<1> HIDE DEF S
<1>2. /\ Append(handled, e) \in Seq(S) /\ Len(Append(handled, e)) = Len(handled) + 1
      /\ \A i \in 1..Len(handled) : Append(handled, e)[i] = handled[i]
  BY <1>1, AppendProperties DEF S
<1> DEFINE a == Append(handled, e)
<1>3. Len(handled) \in 0..Len(a) /\ Len(handled) \in Nat /\ Len(handled) <= Len(a)
  BY <1>1, <1>2
<1>4. handled = SubSeq(a, 1, Len(handled))
  <2>1. a \in Seq(S) /\ \A i \in 1..Len(handled) : handled[i] = a[i]
    BY <1>2
  <2> HIDE DEF a
  <2> QED
    BY <1>1, <1>3, <2>1, FrontEqual
<1>5. handled = SubSeq(handled, 1, Len(handled))
  BY <1>1, SubSeqFull
<1> QED
  BY <1>2, <1>3, <1>4, <1>5 DEF IsPrefix


(* What the handler of the message that is due has in its hands.           *)
LEMMA DueFacts ==
  ASSUME FramingInv, framing = "kept", task = "parsing"
  PROVE  LET p == Payload(sent, Due)
         IN /\ Due \in Nat /\ 1 <= Due /\ Due <= Len(sent)
            /\ sent[Due] \in Messages /\ p = sent[Due].payload /\ p \in Seq(Byte)
            /\ msg_type = sent[Due].type
            /\ sent[Due] = [type |-> msg_type, payload |-> p]
            /\ \E rest \in Seq(Byte) :
                 /\ p = payload \o rest
                 /\ Ahead(buf, wire) = rest \o Outstanding(sent, Due + 1)
                 /\ HasNext(buf) => rest # <<>>
                 /\ ~HasNext(buf) => rest = <<>> /\ buf.limit <= 0
<1>1. /\ sent \in Seq(Messages) /\ internal_state = "READ_MSG" /\ InputOK(buf)
      /\ payload \in Seq(Byte) /\ PayloadRead = payload
  BY DEF FramingInv, StreamInv, PayloadRead
<1>2. /\ msg_type = sent[Due].type /\ InPayload(sent, Due, buf, wire, payload)
      /\ Len(Payload(sent, Due)) <= Len(payload) + Len(Unread(buf))
      /\ Due \in 1..(Len(sent) + 1)
  BY <1>1 DEF FramingInv, Kept
<1>3. Due \in Nat /\ 1 <= Due /\ Due <= Len(sent)
  BY <1>1, <1>2 DEF InPayload
<1> DEFINE p == Payload(sent, Due)
<1>4. /\ sent[Due] \in Messages /\ p \in Seq(Byte) /\ sent[Due] = [type |-> msg_type, payload |-> p]
  BY <1>1, <1>2, <1>3, MessageFacts
<1>5. p = sent[Due].payload
  BY DEF Payload
<1>6. PICK rest \in Seq(Byte) :
        /\ p = payload \o rest
        /\ Ahead(buf, wire) = rest \o Outstanding(sent, Due + 1)
        /\ rest # <<>> => buf.limit = Len(rest)
        /\ rest = <<>> => buf.limit <= 0
  BY <1>2 DEF InPayload
<1>7. /\ HasNext(buf) <=> buf.limit > 0 /\ Len(Unread(buf)) > 0
      /\ buf.limit \in Int /\ Len(Unread(buf)) \in Nat
  BY <1>1, HasNextExact, SizeExact DEF InputOK, InputShape
<1> HIDE DEF p
<1>8. HasNext(buf) => rest # <<>>
  BY <1>6, <1>7
<1>9. ASSUME ~HasNext(buf) PROVE rest = <<>>
  <2> SUFFICES ASSUME rest # <<>> PROVE FALSE
    OBVIOUS
  <2>1. Len(rest) > 0 /\ buf.limit = Len(rest) /\ Len(rest) \in Nat
    BY <1>6, EmptySeq
  <2>2. Len(p) = Len(payload) + Len(rest) /\ Len(payload) \in Nat
    BY <1>1, <1>6, ConcatProperties
  <2>3. Len(p) <= Len(payload) + Len(Unread(buf))
    BY <1>2 DEF p
  <2>4. Len(Unread(buf)) > 0
    BY <1>7, <2>1, <2>2, <2>3
  <2> QED
    BY <1>7, <1>9, <2>1, <2>4
<1> QED
  BY <1>3, <1>4, <1>5, <1>6, <1>8, <1>9, <1>2 DEF p

LEMMA StreamDue == Stream!Due = Due
  BY DEF Stream!Due, Due

\* The last of what the handlers were given is from the call just made.
LEMMA DueMoves ==
  ASSUME StreamInv, GiveToHandler
  PROVE  Due' = IF framing = "ghost" THEN Due ELSE Due + 1
<1>1. Len(handled') = Len(handled) + 1 /\ Len(handled) \in Nat
  BY GivenToHandler
<1>2. ghosts' = IF framing = "ghost" THEN ghosts + 1 ELSE ghosts
  BY DEF GiveToHandler
<1>3. ghosts \in Nat
  BY DEF StreamInv
<1>4. Due = (Len(handled) - ghosts) + 1 /\ Due' = (Len(handled') - ghosts') + 1
  BY DEF Due
<1> QED
  BY <1>1, <1>2, <1>3, <1>4

\* After a message, the next one.
LEMMA AfterMessage ==
  ASSUME FramingInv, StreamInv', Handle, framing' = "kept", Due' \in 1..(Len(sent) + 1),
         Ahead(buf, wire) = Outstanding(sent, Due')
  PROVE  FramingInv'
<1>1. /\ buf' = UpdateLimit(buf, VarintLimit) /\ multiplier' = multiplier
      /\ msg_type' = 0 /\ internal_state' = "NEXT_MSG" /\ sent' = sent /\ wire' = wire
      /\ task = "parsing"
  BY DEF Handle
<1>2. InputOK(buf) /\ sent \in Seq(Messages) /\ internal_state = "READ_MSG"
  BY <1>1 DEF FramingInv, StreamInv
<1>3. VarintLimit \in Int
  BY FramingAssumption
<1>4. buf'.limit = VarintLimit /\ Unread(buf') = Unread(buf)
  BY <1>1, <1>2, <1>3, LimitKeepsBuffer
<1>5. Ahead(buf', wire) = Outstanding(sent, Due')
  BY <1>4 DEF Ahead
<1>6. InType(sent, Due', buf', wire, 0, 1)
  BY <1>2, <1>4, <1>5, FromTheStart
<1>7. multiplier = 1
  <2>1. framing # "lost"
    BY DEF Handle
  <2> QED
    BY <1>2, <2>1 DEF FramingInv, StreamInv, Kept, Ghosted
<1>8. Kept'
  BY <1>1, <1>6, <1>7 DEF Kept
<1> QED
  BY <1>1, <1>8 DEF FramingInv

LEMMA HandleFraming ==
  ASSUME FramingInv, StreamInv', Handle
  PROVE  FramingInv' /\ Stream!StreamNext
<1>1. /\ task = "parsing" /\ GiveToHandler /\ (~HasNext(buf) \/ RestIsKept)
      /\ framing' = IF framing = "lost" \/ HasNext(buf) THEN "lost" ELSE "kept"
      /\ UNCHANGED <<sent, wire>>
  BY DEF Handle
<1>2. /\ StreamInv /\ framing \in {"kept", "ghost", "lost"} /\ payload \in Seq(Byte)
      /\ InputOK(buf) /\ internal_state = "READ_MSG" /\ ghosts \in Nat
      /\ sent \in Seq(Messages)
  BY <1>1 DEF FramingInv, StreamInv
<1>3. /\ handled' = Append(handled, [type |-> msg_type, payload |-> payload])
      /\ ghosts' = IF framing = "ghost" THEN ghosts + 1 ELSE ghosts
  BY <1>1 DEF GiveToHandler
<1>4. Due' = IF framing = "ghost" THEN Due ELSE Due + 1
  BY <1>1, <1>2, DueMoves
<1>5. ASSUME framing' = "lost" PROVE FramingInv'
  BY <1>5 DEF FramingInv
<1>6. CASE framing = "kept"
  <2> DEFINE p == Payload(sent, Due)
  <2>1. /\ Due \in Nat /\ 1 <= Due /\ Due <= Len(sent)
        /\ p = sent[Due].payload /\ p \in Seq(Byte)
        /\ sent[Due] = [type |-> msg_type, payload |-> p]
        /\ \E rest \in Seq(Byte) :
             /\ p = payload \o rest
             /\ Ahead(buf, wire) = rest \o Outstanding(sent, Due + 1)
             /\ HasNext(buf) => rest # <<>>
             /\ ~HasNext(buf) => rest = <<>> /\ buf.limit <= 0
    BY <1>1, <1>6, DueFacts
  <2>2. PICK rest \in Seq(Byte) :
             /\ p = payload \o rest
             /\ Ahead(buf, wire) = rest \o Outstanding(sent, Due + 1)
             /\ HasNext(buf) => rest # <<>>
             /\ ~HasNext(buf) => rest = <<>> /\ buf.limit <= 0
    BY <2>1
  <2> HIDE DEF p
  <2>3. CASE HasNext(buf)
    <3>1. framing' = "lost"
      BY <1>1, <2>3
    <3>2. Len(payload) \in 0..Len(p) /\ payload = SubSeq(p, 1, Len(payload)) /\ payload # p
      BY <1>2, <2>2, <2>3, ProperFront
    <3>3. payload \in Prefixes(p) \ {p}
      BY <3>2 DEF Prefixes
    <3>4. [sent[Due] EXCEPT !.payload = payload] = [type |-> msg_type, payload |-> payload]
      BY <2>1
    <3>5. Stream!Cut
      <4>1. handled' = Append(handled, [sent[Due] EXCEPT !.payload = payload])
        BY <1>3, <3>4
      <4>2. UNCHANGED <<sent, ghosts>> /\ payload \in Prefixes(sent[Due].payload) \ {sent[Due].payload}
        BY <1>1, <1>3, <1>6, <2>1, <3>3
      <4> QED
        BY <1>6, <2>1, <3>1, <4>1, <4>2, StreamDue, Zenon DEF Stream!Cut, Stream!Prefixes, Prefixes
    <3> QED
      BY <1>5, <3>1, <3>5 DEF Stream!StreamNext
  <2>4. CASE ~HasNext(buf)
    <3>1. framing' = "kept"
      BY <1>1, <1>6, <2>4
    <3>2. payload = p /\ Ahead(buf, wire) = Outstanding(sent, Due + 1)
      <4>1. rest = <<>>
        BY <2>2, <2>4
      <4>2. Outstanding(sent, Due + 1) \in Seq(Byte)
        BY <1>2, <2>1, MessageFacts
      <4>3. payload \o <<>> = payload /\ <<>> \o Outstanding(sent, Due + 1) = Outstanding(sent, Due + 1)
        BY <1>2, <4>2, ConcatEmptySeq
      <4> QED
        BY <2>2, <4>1, <4>3
    <3>3. handled' = Append(handled, sent[Due])
      BY <1>3, <2>1, <3>2
    <3>4. Stream!Deliver
      BY <1>1, <1>3, <1>6, <2>1, <3>1, <3>3, StreamDue DEF Stream!Deliver
    <3>5. Due' = Due + 1 /\ Due' \in 1..(Len(sent) + 1)
      BY <1>2, <1>4, <1>6, <2>1
    <3>6. FramingInv'
      BY <3>1, <3>2, <3>5, AfterMessage
    <3> QED
      BY <3>4, <3>6 DEF Stream!StreamNext
  <2> QED
    BY <2>3, <2>4
<1>7. CASE framing = "ghost"
  <2>1. /\ buf.limit <= 0 /\ Ahead(buf, wire) = Outstanding(sent, Due)
        /\ Len(handled) > 0 /\ handled[Len(handled)].type = msg_type /\ payload = <<>>
        /\ Due \in 1..(Len(sent) + 1)
    BY <1>1, <1>7 DEF FramingInv, Ghosted
  <2>2. ~HasNext(buf)
    <3>1. buf.limit \in Int
      BY <1>2 DEF InputOK, InputShape
    <3> QED
      BY <1>2, <2>1, <3>1, HasNextExact
  <2>3. framing' = "kept"
    BY <1>1, <1>7, <2>2
  <2>4. Stream!Ghost
    <3>1. handled' = Append(handled, [Last(handled) EXCEPT !.payload = <<>>])
      BY <1>2, <1>3, <2>1, GhostGiven
    <3>2. ghosts' = ghosts + 1 /\ sent' = sent /\ framing' \in {"kept", "ghost"}
      BY <1>1, <1>3, <1>7, <2>3
    <3> QED
      BY <1>7, <3>1, <3>2 DEF Stream!Ghost, Stream!Last, Last
  <2>5. FramingInv'
    BY <1>4, <1>7, <2>1, <2>3, AfterMessage
  <2> QED
    BY <2>4, <2>5 DEF Stream!StreamNext
<1>8. CASE framing = "lost"
  <2>1. framing' = "lost"
    BY <1>1, <1>8
  <2>2. Stream!Garbage
    <3>1. [type |-> msg_type, payload |-> payload] \in [type : Nat, payload : Seq(Byte)]
      BY <1>2 DEF StreamInv
    <3>2. Len(handled') = Len(handled) + 1 /\ IsPrefix(handled, handled')
      BY <1>2, <1>3, <3>1, GarbageGiven
    <3> QED
      BY <1>1, <1>3, <1>8, <2>1, <3>2 DEF Stream!Garbage, Stream!IsPrefix, IsPrefix
  <2> QED
    BY <1>5, <2>1, <2>2 DEF Stream!StreamNext
<1> QED
  BY <1>2, <1>6, <1>7, <1>8

LEMMA ThrowFraming ==
  ASSUME FramingInv, StreamInv', Throw
  PROVE  FramingInv' /\ Stream!StreamNext
<1>1. /\ task = "parsing" /\ task' = "idle" /\ GiveToHandler /\ ~HasNext(buf)
      /\ framing' = IF framing = "lost" THEN "lost" ELSE "ghost"
      /\ UNCHANGED <<sent, wire, buf, multiplier, internal_state, msg_type, msg_length, payload>>
  BY DEF Throw, handlerVars
<1>2. /\ StreamInv /\ framing \in {"kept", "ghost", "lost"} /\ payload \in Seq(Byte)
      /\ InputOK(buf) /\ internal_state = "READ_MSG" /\ ghosts \in Nat
      /\ sent \in Seq(Messages)
  BY <1>1 DEF FramingInv, StreamInv
<1>3. /\ handled' = Append(handled, [type |-> msg_type, payload |-> payload])
      /\ ghosts' = IF framing = "ghost" THEN ghosts + 1 ELSE ghosts
  BY <1>1 DEF GiveToHandler
<1>4. Due' = IF framing = "ghost" THEN Due ELSE Due + 1
  BY <1>1, <1>2, DueMoves
<1>5. /\ Len(handled') = Len(handled) + 1 /\ Len(handled) \in Nat
      /\ handled'[Len(handled')].type = msg_type
  BY <1>1, <1>2, GivenToHandler
<1>6. ASSUME framing # "lost", buf.limit <= 0, multiplier = 1, Due' \in 1..(Len(sent) + 1),
             Ahead(buf, wire) = Outstanding(sent, Due')
      PROVE  FramingInv'
  <2>1. Ghosted'
    BY <1>1, <1>2, <1>5, <1>6 DEF Ghosted
  <2>2. framing' = "ghost"
    BY <1>1, <1>6
  <2> QED
    BY <1>1, <1>6, <2>1, <2>2 DEF FramingInv
<1>7. CASE framing = "kept"
  <2> DEFINE p == Payload(sent, Due)
  <2>1. /\ Due \in Nat /\ 1 <= Due /\ Due <= Len(sent)
        /\ p = sent[Due].payload /\ p \in Seq(Byte)
        /\ sent[Due] = [type |-> msg_type, payload |-> p]
        /\ \E rest \in Seq(Byte) :
             /\ p = payload \o rest
             /\ Ahead(buf, wire) = rest \o Outstanding(sent, Due + 1)
             /\ HasNext(buf) => rest # <<>>
             /\ ~HasNext(buf) => rest = <<>> /\ buf.limit <= 0
    BY <1>1, <1>7, DueFacts
  <2> HIDE DEF p
  <2>2. p = payload \o <<>> /\ Ahead(buf, wire) = <<>> \o Outstanding(sent, Due + 1) /\ buf.limit <= 0
    BY <1>1, <2>1
  <2>3. payload = p /\ Ahead(buf, wire) = Outstanding(sent, Due + 1)
    <3>1. Outstanding(sent, Due + 1) \in Seq(Byte)
      BY <1>2, <2>1, MessageFacts
    <3>2. payload \o <<>> = payload /\ <<>> \o Outstanding(sent, Due + 1) = Outstanding(sent, Due + 1)
      BY <1>2, <3>1, ConcatEmptySeq
    <3> QED
      BY <2>2, <3>2
  <2>4. handled' = Append(handled, sent[Due])
    BY <1>3, <2>1, <2>3
  <2>5. Stream!Deliver
    BY <1>1, <1>3, <1>7, <2>1, <2>4, StreamDue DEF Stream!Deliver
  <2>6. Due' = Due + 1 /\ Due' \in 1..(Len(sent) + 1)
    BY <1>2, <1>4, <1>7, <2>1
  <2>7. multiplier = 1
    BY <1>2, <1>7 DEF FramingInv, Kept
  <2> QED
    BY <1>6, <1>7, <2>2, <2>3, <2>5, <2>6, <2>7 DEF Stream!StreamNext
<1>8. CASE framing = "ghost"
  <2>1. /\ buf.limit <= 0 /\ Ahead(buf, wire) = Outstanding(sent, Due) /\ multiplier = 1
        /\ Len(handled) > 0 /\ handled[Len(handled)].type = msg_type /\ payload = <<>>
        /\ Due \in 1..(Len(sent) + 1)
    BY <1>1, <1>8 DEF FramingInv, Ghosted
  <2>2. framing' = "ghost"
    BY <1>1, <1>8
  <2>3. Stream!Ghost
    <3>1. handled' = Append(handled, [Last(handled) EXCEPT !.payload = <<>>])
      BY <1>2, <1>3, <2>1, GhostGiven
    <3>2. ghosts' = ghosts + 1 /\ sent' = sent /\ framing' \in {"kept", "ghost"}
      BY <1>1, <1>3, <1>8, <2>2
    <3> QED
      BY <1>8, <3>1, <3>2 DEF Stream!Ghost, Stream!Last, Last
  <2>4. FramingInv'
    BY <1>4, <1>6, <1>8, <2>1
  <2> QED
    BY <2>3, <2>4 DEF Stream!StreamNext
<1>9. CASE framing = "lost"
  <2>1. framing' = "lost"
    BY <1>1, <1>9
  <2>2. Stream!Garbage
    <3>1. [type |-> msg_type, payload |-> payload] \in [type : Nat, payload : Seq(Byte)]
      BY <1>2 DEF StreamInv
    <3>2. Len(handled') = Len(handled) + 1 /\ IsPrefix(handled, handled')
      BY <1>2, <1>3, <3>1, GarbageGiven
    <3> QED
      BY <1>1, <1>3, <1>9, <2>1, <3>2 DEF Stream!Garbage, Stream!IsPrefix, IsPrefix
  <2>3. FramingInv'
    BY <2>1 DEF FramingInv
  <2> QED
    BY <2>2, <2>3 DEF Stream!StreamNext
<1> QED
  BY <1>2, <1>7, <1>8, <1>9

LEMMA FramingInit == Init => FramingInv /\ Stream!StreamInit
<1> SUFFICES ASSUME Init PROVE FramingInv /\ Stream!StreamInit
  OBVIOUS
<1>1. /\ sent = <<>> /\ wire = <<>> /\ buf = EmptyBuffer /\ multiplier = 1
      /\ internal_state = "NEXT_MSG" /\ msg_type = 0 /\ task = "idle" /\ handled = <<>>
      /\ ghosts = 0 /\ framing = "kept"
  BY DEF Init
<1>2. Len(sent) = 0 /\ Len(handled) = 0
  BY <1>1
<1>3. Due = 1
  BY <1>1, <1>2 DEF Due
<1>4. buf.limit = VarintLimit /\ Ahead(buf, wire) = <<>>
  <2>1. Unread(buf) = <<>> /\ buf.limit = VarintLimit
    BY <1>1, EmptyOK
  <2>2. <<>> \o <<>> = <<>>
    OBVIOUS
  <2> QED
    BY <1>1, <2>1, <2>2 DEF Ahead
<1>5. InType(sent, Due, buf, wire, 0, 1)
  BY <1>2, <1>3, <1>4 DEF InType
<1>6. Kept
  BY <1>1, <1>5 DEF Kept
<1>7. StreamInv
  BY StreamInvInit
<1>8. FramingInv
  BY <1>1, <1>2, <1>3, <1>6, <1>7 DEF FramingInv
<1> QED
  BY <1>1, <1>8 DEF Stream!StreamInit

LEMMA FramingStep ==
  FramingInv /\ [Next]_vars => FramingInv' /\ [Stream!StreamNext]_(Stream!streamVars)
<1> SUFFICES ASSUME FramingInv, [Next]_vars
             PROVE  FramingInv' /\ [Stream!StreamNext]_(Stream!streamVars)
  OBVIOUS
<1>1. StreamInv'
  BY StreamInvStep DEF FramingInv
<1>2. CASE Send
  BY <1>1, <1>2, SendFraming DEF Stream!StreamNext
<1>3. CASE Receive
  BY <1>1, <1>3, ReceiveFraming DEF Stream!streamVars
<1>4. CASE NextMsg
  BY <1>1, <1>4, NextMsgFraming DEF Stream!streamVars
<1>5. CASE GetLength
  BY <1>1, <1>5, GetLengthFraming DEF Stream!streamVars
<1>6. CASE AwaitData
  BY <1>1, <1>6, AwaitDataFraming DEF Stream!streamVars
<1>7. CASE ReadMsg
  BY <1>1, <1>7, ReadMsgFraming DEF Stream!streamVars
<1>8. CASE Parse
  BY <1>1, <1>8, ParseFraming DEF Stream!streamVars
<1>9. CASE Handle
  BY <1>1, <1>9, HandleFraming
<1>10. CASE Throw
  BY <1>1, <1>10, ThrowFraming
<1>11. CASE UNCHANGED vars
  <2>1. UNCHANGED <<sent, wire, buf, multiplier, internal_state, msg_type, msg_length, task,
                    payload, handled, crashes, ghosts, framing>>
    BY <1>11 DEF vars, handlerVars, history
  <2>2. Due' = Due /\ PayloadRead' = PayloadRead
    BY <2>1, DueStays DEF PayloadRead
  <2>3. (framing = "kept" => Kept') /\ (framing = "ghost" => Ghosted')
    BY <2>1, <2>2 DEF FramingInv, Kept, Ghosted
  <2> QED
    BY <1>1, <2>1, <2>2, <2>3, StillFramed DEF Stream!streamVars
<1> QED
  BY <1>2, <1>3, <1>4, <1>5, <1>6, <1>7, <1>8, <1>9, <1>10, <1>11 DEF Next, Work

(* The framing hands the handlers the messages of the client in order, once *)
(* and whole, for every base of the numbers, every set of messages that    *)
(* write_message can send and every cut of the bytes into records; only a  *)
(* handler that throws or that does not read its whole payload disturbs    *)
(* that, as MessageStream says (client_handler.cpp:22-122).                *)
THEOREM StreamRefined == Spec => ImplementsStream
<1>1. Spec => []FramingInv
  BY FramingInit, FramingStep, PTL DEF Spec
<1> QED
  BY <1>1, FramingInit, FramingStep, PTL DEF Spec, ImplementsStream, Stream!StreamSpec

-----------------------------------------------------------------------------
(* A device of the desk.                                                    *)

AnyByte == [kind : Kinds, n : Nat, at : 1..4]
Places == {"idle", "copy event", "clear event", "copy sysex", "clear sysex", "wake"}

(* What the parts of a handle hold: a buffer and its queue have the bytes   *)
(* of one kind of command, and no record of the queue is empty.             *)
HandleTypeOK ==
  /\ construction = [k \in Kinds |-> construction[k]]
  /\ queues = [k \in Kinds |-> queues[k]]
  /\ \A k \in Kinds : /\ construction[k] \in Seq(DeviceByte(k))
                      /\ queues[k] \in Seq(Seq(DeviceByte(k)) \ {<<>>})
  /\ scheduling \in [DeskThreads -> Places]
  /\ io \in [pc : {"idle", "event", "sysex"}, flags : SUBSET {"READ", "WRITE"}, async : BOOLEAN]
  /\ input \in [line : Seq(AnyByte), in_construction : Seq(AnyByte), incomming_queue : Seq(AnyByte)]
  /\ failure \in {"no", "error", "popped"} /\ driver \in Nat
  /\ told \in [sent : [Kinds -> Nat], written : Seq(AnyByte), overlap : BOOLEAN,
               reported : Seq(AnyByte), received : Seq(AnyByte)]

(* Every byte of a channel command but the first follows the one before it. *)
Chained(s) ==
  \A i \in 1..Len(s) :
    s[i].kind = "event" /\ s[i].at > 1 => i > 1 /\ s[i - 1] = [s[i] EXCEPT !.at = @ - 1]

(* CommandsWhole looks back only; what comes next fits to what was written: *)
(* the first record of the queue goes on with the command that was cut, and *)
(* it starts one when the event loop has gone over to the sysex messages.   *)
Whole(w, c, q, pc) ==
  /\ Chained(w) /\ Chained(c)
  /\ \A j \in 2..Len(q) : Chained(q[j])
  /\ q # <<>> => Chained(w \o q[1])
  /\ pc = "sysex" /\ q # <<>> => Chained(q[1])
WholeInv == Whole(told.written, construction["event"], queues["event"], io.pc)

(* NothingLost says nothing while a thread has copied a buffer and not yet  *)
(* cleared it: then the buffer is in the queue already.                     *)
Cleared(k, places) == \E t \in DeskThreads : places[t] = ClearOf(k)
Alone(t, places) == \A u \in DeskThreads : u # t => places[u] = "idle"
OneThread(places) == \A t \in DeskThreads : places[t] # "idle" => Alone(t, places)
Accounted(gone, composed, cleared, all) == IF cleared THEN gone = all ELSE gone \o composed = all
LostInv ==
  ~ told.overlap /\ failure = "no" =>
    /\ OneThread(scheduling)
    /\ \A k \in Kinds : Accounted(Bytes(k) \o Left(k), construction[k], Cleared(k, scheduling),
                                  UpTo(k, told.sent[k]))

(* Every byte of a channel command but the last is followed by the next.    *)
Finished(s) ==
  \A i \in 1..Len(s) :
    s[i].kind = "event" /\ s[i].at < 3 => i < Len(s) /\ s[i + 1] = [s[i] EXCEPT !.at = @ + 1]

(* What the desk was given, what waits for it and what the bytes to be      *)
(* decoded begin are the channel commands of the device.                    *)
ReportInv ==
  LET ahead == input.in_construction \o input.line
  IN failure # "popped" =>
       /\ Finished(ahead)
       /\ (told.received \o input.incomming_queue) \o Within(ahead, Command)
            = Within(told.reported, Command)

HandleInv == HandleTypeOK /\ WholeInv /\ LostInv /\ ReportInv

-----------------------------------------------------------------------------
(* Within, which is defined by recursion                                    *)

Picking(s, S, f, n) ==
  IF n = 0 THEN <<>> ELSE IF s[n] \in S THEN Append(f[n - 1], s[n]) ELSE f[n - 1]
Picks(s, S, f, m) == f = [n \in 0..m |-> Picking(s, S, f, n)]

(* What is picked is a function of how far one has come.                    *)
LEMMA PickingExists ==
  ASSUME NEW s, NEW S, NEW m \in Nat
  PROVE  \E f : Picks(s, S, f, m)
<1> DEFINE T == {k \in Nat : \E f : Picks(s, S, f, k)}
<1>1. 0 \in T
  <2> DEFINE f == [n \in 0..0 |-> <<>>]
  <2>1. f = [n \in 0..0 |-> Picking(s, S, f, n)]
    BY DEF Picking
  <2> HIDE DEF f
  <2> QED
    BY <2>1 DEF Picks
<1>2. ASSUME NEW k \in Nat, k \in T PROVE k + 1 \in T
  <2>1. PICK f : f = [n \in 0..k |-> Picking(s, S, f, n)]
    BY <1>2 DEF Picks
  <2> DEFINE g == [n \in 0..(k + 1) |-> IF n = k + 1 THEN Picking(s, S, f, n) ELSE f[n]]
  <2>2. \A n \in 0..(k + 1) : g[n] = Picking(s, S, g, n)
    <3>1. \A n \in 0..k : g[n] = f[n]
      OBVIOUS
    <3>2. g[k + 1] = Picking(s, S, f, k + 1)
      OBVIOUS
    <3> HIDE DEF g
    <3>3. \A n \in 0..(k + 1) : n # 0 => n - 1 \in 0..k
      OBVIOUS
    <3>4. \A n \in 0..(k + 1) : Picking(s, S, g, n) = Picking(s, S, f, n)
      BY <3>1, <3>3 DEF Picking
    <3>5. \A n \in 0..k : f[n] = Picking(s, S, f, n)
      BY <2>1
    <3> QED
      BY <3>1, <3>2, <3>4, <3>5
  <2>3. g = [n \in 0..(k + 1) |-> g[n]]
    OBVIOUS
  <2> HIDE DEF g
  <2>4. g = [n \in 0..(k + 1) |-> Picking(s, S, g, n)]
    BY <2>2, <2>3
  <2> QED
    BY <2>4 DEF Picks
<1> HIDE DEF T
<1>3. m \in T
  BY <1>1, <1>2, NaturalInduction
<1> QED
  BY <1>3 DEF T

(* Within by its steps.                                                     *)
LEMMA WithinSteps ==
  ASSUME NEW s, NEW S, Len(s) \in Nat
  PROVE  \E f : /\ \A n \in 0..Len(s) : f[n] = Picking(s, S, f, n)
                /\ Within(s, S) = f[Len(s)]
<1> DEFINE f == CHOOSE f : f = [n \in 0..Len(s) |-> Picking(s, S, f, n)]
<1>1. Within(s, S) = f[Len(s)]
  BY DEF Within, Picking
<1>2. f = [n \in 0..Len(s) |-> Picking(s, S, f, n)]
  <2>1. \E g : g = [n \in 0..Len(s) |-> Picking(s, S, g, n)]
    BY PickingExists DEF Picks
  <2> QED
    BY <2>1
<1> HIDE DEF f
<1>3. \A n \in 0..Len(s) : f[n] = Picking(s, S, f, n)
  BY <1>2
<1> QED
  BY <1>1, <1>3

LEMMA WithinNothing == \A S : Within(<<>>, S) = <<>>
<1> SUFFICES ASSUME NEW S PROVE Within(<<>>, S) = <<>>
  OBVIOUS
<1>1. Len(<<>>) = 0
  OBVIOUS
<1>2. PICK f : /\ \A n \in 0..Len(<<>>) : f[n] = Picking(<<>>, S, f, n)
               /\ Within(<<>>, S) = f[Len(<<>>)]
  BY <1>1, WithinSteps
<1> QED
  BY <1>1, <1>2 DEF Picking

(* One more element.                                                        *)
LEMMA WithinAppend ==
  ASSUME NEW T, NEW s \in Seq(T), NEW e \in T, NEW S
  PROVE  Within(Append(s, e), S) = IF e \in S THEN Append(Within(s, S), e) ELSE Within(s, S)
<1> DEFINE t == Append(s, e)
<1>1. /\ Len(s) \in Nat /\ Len(t) = Len(s) + 1
      /\ \A i \in 1..Len(s) : t[i] = s[i]
      /\ t[Len(s) + 1] = e
  OBVIOUS
<1> HIDE DEF t
<1>2. PICK f : /\ \A n \in 0..Len(s) : f[n] = Picking(s, S, f, n)
               /\ Within(s, S) = f[Len(s)]
  BY <1>1, WithinSteps
<1>3. PICK g : /\ \A n \in 0..Len(t) : g[n] = Picking(t, S, g, n)
               /\ Within(t, S) = g[Len(t)]
  BY <1>1, WithinSteps
<1> DEFINE Q == {n \in Nat : n \in 0..Len(s) => g[n] = f[n]}
<1>4. 0 \in Q
  <2>1. 0 \in 0..Len(s) /\ 0 \in 0..Len(t)
    BY <1>1
  <2> QED
    BY <1>2, <1>3, <2>1 DEF Picking
<1>5. ASSUME NEW n \in Nat, n \in Q PROVE n + 1 \in Q
  <2> SUFFICES ASSUME n + 1 \in 0..Len(s) PROVE g[n + 1] = f[n + 1]
    OBVIOUS
  <2>1. /\ n \in 0..Len(s) /\ n + 1 \in 0..Len(t) /\ n + 1 # 0 /\ n + 1 - 1 = n
        /\ n + 1 \in 1..Len(s)
    BY <1>1
  <2>2. g[n] = f[n] /\ t[n + 1] = s[n + 1]
    BY <1>1, <1>5, <2>1
  <2>3. g[n + 1] = Picking(t, S, g, n + 1) /\ f[n + 1] = Picking(s, S, f, n + 1)
    BY <1>2, <1>3, <2>1
  <2> QED
    BY <2>1, <2>2, <2>3 DEF Picking
<1> HIDE DEF Q
<1>6. g[Len(s)] = f[Len(s)]
  <2>1. Len(s) \in Q
    BY <1>1, <1>4, <1>5, NaturalInduction
  <2> QED
    BY <1>1, <2>1 DEF Q
<1>7. Len(t) \in 0..Len(t) /\ Len(t) # 0 /\ Len(t) - 1 = Len(s)
  BY <1>1
<1>8. g[Len(t)] = Picking(t, S, g, Len(t))
  BY <1>3, <1>7
<1>9. Within(t, S) = IF e \in S THEN Append(Within(s, S), e) ELSE Within(s, S)
  BY <1>1, <1>2, <1>3, <1>6, <1>7, <1>8 DEF Picking
<1> QED
  BY <1>9 DEF t

(* A property of all sequences over T that one more element does not break  *)
(* is shown along the beginnings of a sequence.                             *)
LEMMA Beginnings ==
  ASSUME NEW T, NEW s \in Seq(T), NEW n \in Nat, n + 1 <= Len(s)
  PROVE  /\ SubSeq(s, 1, n) \in Seq(T) /\ s[n + 1] \in T
         /\ SubSeq(s, 1, n + 1) = Append(SubSeq(s, 1, n), s[n + 1])
<1>1. Len(s) \in Nat /\ n + 1 \in 1..Len(s) /\ n \in 0..Len(s) /\ n + 1 \in 0..Len(s)
  OBVIOUS
<1>2. SubSeq(s, 1, n) \in Seq(T) /\ s[n + 1] \in T
  BY <1>1, SplitAt
<1> DEFINE a == SubSeq(s, 1, n)  b == SubSeq(s, 1, n + 1)
<1>3. /\ a \in Seq(T) /\ Len(a) = n - 0 /\ \A i \in 1..(n - 0) : a[i] = s[0 + i]
      /\ b \in Seq(T) /\ Len(b) = n + 1 - 0 /\ \A i \in 1..(n + 1 - 0) : b[i] = s[0 + i]
  <2>1. 0 + 1 = 1 /\ 0 <= n /\ n <= Len(s) /\ 0 <= n + 1 /\ n + 1 \in Nat
    BY <1>1
  <2> HIDE DEF a, b
  <2>2. /\ SubSeq(s, 0 + 1, n) \in Seq(T) /\ Len(SubSeq(s, 0 + 1, n)) = n - 0
        /\ \A i \in 1..(n - 0) : SubSeq(s, 0 + 1, n)[i] = s[0 + i]
    BY <2>1, Cuts
  <2>3. /\ SubSeq(s, 0 + 1, n + 1) \in Seq(T) /\ Len(SubSeq(s, 0 + 1, n + 1)) = n + 1 - 0
        /\ \A i \in 1..(n + 1 - 0) : SubSeq(s, 0 + 1, n + 1)[i] = s[0 + i]
    BY <2>1, Cuts
  <2> QED
    BY <2>1, <2>2, <2>3 DEF a, b
<1> HIDE DEF a, b
<1> DEFINE c == Append(a, s[n + 1])
<1>4. c \in Seq(T) /\ Len(c) = n + 1 /\ \A i \in 1..(n + 1) : c[i] = IF i = n + 1 THEN s[n + 1] ELSE a[i]
  BY <1>2, <1>3
<1> HIDE DEF c
<1>5. b = c
  <2>1. Len(b) = Len(c)
    BY <1>3, <1>4
  <2>2. \A i \in 1..Len(b) : b[i] = c[i]
    BY <1>3, <1>4
  <2> QED
    BY <1>3, <1>4, <2>1, <2>2, SeqEqual
<1> QED
  BY <1>2, <1>5 DEF a, b, c

LEMMA WithinType ==
  ASSUME NEW T, NEW s \in Seq(T), NEW S
  PROVE  Within(s, S) \in Seq(T)
<1> DEFINE Q == {n \in Nat : n <= Len(s) => Within(SubSeq(s, 1, n), S) \in Seq(T)}
<1>0. Len(s) \in Nat /\ SubSeq(s, 1, Len(s)) = s
  BY SubSeqFull
<1>1. 0 \in Q
  <2>1. SubSeq(s, 1, 0) = <<>> /\ <<>> \in Seq(T)
    OBVIOUS
  <2> QED
    BY <2>1, WithinNothing
<1>2. ASSUME NEW n \in Nat, n \in Q PROVE n + 1 \in Q
  <2> SUFFICES ASSUME n + 1 <= Len(s) PROVE Within(SubSeq(s, 1, n + 1), S) \in Seq(T)
    OBVIOUS
  <2> DEFINE a == SubSeq(s, 1, n)  e == s[n + 1]
  <2>1. a \in Seq(T) /\ e \in T /\ SubSeq(s, 1, n + 1) = Append(a, e)
    BY Beginnings
  <2>2. Within(a, S) \in Seq(T)
    BY <1>0, <1>2
  <2> HIDE DEF a, e
  <2>3. Within(Append(a, e), S) = IF e \in S THEN Append(Within(a, S), e) ELSE Within(a, S)
    BY <2>1, WithinAppend
  <2> QED
    <3>1. Within(Append(a, e), S) \in Seq(T)
      BY <2>1, <2>2, <2>3
    <3> QED
      BY <2>1, <3>1
<1> HIDE DEF Q
<1>3. Len(s) \in Q
  BY <1>0, <1>1, <1>2, NaturalInduction
<1>4. Within(SubSeq(s, 1, Len(s)), S) \in Seq(T)
  BY <1>0, <1>3 DEF Q
<1> QED
  BY <1>0, <1>4

(* Two sequences, one behind the other.                                     *)
LEMMA WithinBehind ==
  ASSUME NEW T, NEW s \in Seq(T), NEW t \in Seq(T), NEW S
  PROVE  Within(s \o t, S) = Within(s, S) \o Within(t, S)
<1> DEFINE front(n) == SubSeq(t, 1, n)
           Q == {n \in Nat : n <= Len(t) => Within(s \o front(n), S) = Within(s, S) \o Within(front(n), S)}
<1>0. Len(t) \in Nat /\ SubSeq(t, 1, Len(t)) = t
  BY SubSeqFull
<1>a. Within(s, S) \in Seq(T)
  BY WithinType
<1>1. 0 \in Q
  <2>1. front(0) = <<>>
    OBVIOUS
  <2>2. s \o <<>> = s /\ Within(s, S) \o <<>> = Within(s, S)
    BY <1>a, ConcatEmptySeq
  <2> QED
    BY <2>1, <2>2, WithinNothing
<1>2. ASSUME NEW n \in Nat, n \in Q PROVE n + 1 \in Q
  <2> SUFFICES ASSUME n + 1 <= Len(t)
               PROVE  Within(s \o front(n + 1), S) = Within(s, S) \o Within(front(n + 1), S)
    OBVIOUS
  <2> DEFINE a == front(n)  e == t[n + 1]
  <2>1. a \in Seq(T) /\ e \in T /\ front(n + 1) = Append(a, e)
    BY Beginnings
  <2>2. Within(s \o a, S) = Within(s, S) \o Within(a, S)
    BY <1>0, <1>2
  <2> HIDE DEF a, e, front
  <2>3. s \o Append(a, e) = Append(s \o a, e) /\ s \o a \in Seq(T)
    BY <2>1
  <2>4. Within(Append(a, e), S) = IF e \in S THEN Append(Within(a, S), e) ELSE Within(a, S)
    BY <2>1, WithinAppend
  <2> DEFINE b == s \o a
  <2>b. b \in Seq(T)
    BY <2>3
  <2> HIDE DEF b
  <2>7. Within(Append(b, e), S) = IF e \in S THEN Append(Within(b, S), e) ELSE Within(b, S)
    BY <2>1, <2>b, WithinAppend
  <2>5. Within(a, S) \in Seq(T)
    BY <2>1, WithinType
  <2>6. Append(Within(s, S) \o Within(a, S), e) = Within(s, S) \o Append(Within(a, S), e)
    <3> DEFINE x == Within(s, S)  y == Within(a, S)
    <3>1. x \in Seq(T) /\ y \in Seq(T) /\ e \in T
      BY <1>a, <2>1, <2>5
    <3> HIDE DEF x, y
    <3>2. x \o y \in Seq(T) /\ <<e>> \in Seq(T)
      BY <3>1
    <3>3. Append(x \o y, e) = (x \o y) \o <<e>> /\ Append(y, e) = y \o <<e>>
      BY <3>1, <3>2, AppendIsConcat
    <3>4. (x \o y) \o <<e>> = x \o (y \o <<e>>)
      BY <3>1, <3>2, ConcatAssociative, SMTT(30)
    <3>5. Append(x \o y, e) = x \o Append(y, e)
      BY <3>3, <3>4
    <3> QED
      BY <3>5 DEF x, y
  <2>8. Within(Append(b, e), S) = Within(s, S) \o Within(Append(a, e), S)
    BY <2>2, <2>4, <2>6, <2>7 DEF b
  <2> QED
    BY <2>1, <2>3, <2>8 DEF b
<1> HIDE DEF Q
<1>3. Len(t) \in Q
  BY <1>0, <1>1, <1>2, NaturalInduction
<1>4. Within(s \o front(Len(t)), S) = Within(s, S) \o Within(front(Len(t)), S)
  BY <1>0, <1>3 DEF Q
<1> QED
  BY <1>0, <1>4

(* All or nothing.                                                          *)
LEMMA WithinAllOrNothing ==
  ASSUME NEW T, NEW s \in Seq(T), NEW S
  PROVE  /\ (\A i \in 1..Len(s) : s[i] \in S) => Within(s, S) = s
         /\ (\A i \in 1..Len(s) : s[i] \notin S) => Within(s, S) = <<>>
<1> DEFINE front(n) == SubSeq(s, 1, n)
           Q == {n \in Nat : n <= Len(s) =>
                   /\ (\A i \in 1..n : s[i] \in S) => Within(front(n), S) = front(n)
                   /\ (\A i \in 1..n : s[i] \notin S) => Within(front(n), S) = <<>>}
<1>0. Len(s) \in Nat /\ SubSeq(s, 1, Len(s)) = s
  BY SubSeqFull
<1>1. 0 \in Q
  <2>1. front(0) = <<>>
    OBVIOUS
  <2> QED
    BY <2>1, WithinNothing
<1>2. ASSUME NEW n \in Nat, n \in Q PROVE n + 1 \in Q
  <2> SUFFICES ASSUME n + 1 <= Len(s)
               PROVE  /\ (\A i \in 1..(n + 1) : s[i] \in S) => Within(front(n + 1), S) = front(n + 1)
                      /\ (\A i \in 1..(n + 1) : s[i] \notin S) => Within(front(n + 1), S) = <<>>
    OBVIOUS
  <2> DEFINE a == front(n)  e == s[n + 1]
  <2>1. a \in Seq(T) /\ e \in T /\ front(n + 1) = Append(a, e)
    BY Beginnings
  <2>2. /\ (\A i \in 1..n : s[i] \in S) => Within(a, S) = a
        /\ (\A i \in 1..n : s[i] \notin S) => Within(a, S) = <<>>
    BY <1>0, <1>2
  <2>3. n + 1 \in 1..(n + 1) /\ \A i \in 1..n : i \in 1..(n + 1)
    OBVIOUS
  <2>4. /\ (\A i \in 1..(n + 1) : s[i] \in S) => e \in S /\ Within(a, S) = a
        /\ (\A i \in 1..(n + 1) : s[i] \notin S) => e \notin S /\ Within(a, S) = <<>>
    BY <2>2, <2>3
  <2> HIDE DEF a, e, front
  <2>5. Within(Append(a, e), S) = IF e \in S THEN Append(Within(a, S), e) ELSE Within(a, S)
    BY <2>1, WithinAppend
  <2> QED
    BY <2>1, <2>4, <2>5
<1> HIDE DEF Q
<1>3. Len(s) \in Q
  BY <1>0, <1>1, <1>2, NaturalInduction
<1>4. /\ (\A i \in 1..Len(s) : s[i] \in S) => Within(front(Len(s)), S) = front(Len(s))
      /\ (\A i \in 1..Len(s) : s[i] \notin S) => Within(front(Len(s)), S) = <<>>
  <2> HIDE DEF front
  <2> QED
    BY <1>0, <1>3 DEF Q
<1>5. front(Len(s)) = s
  BY <1>0
<1> HIDE DEF front
<1> QED
  BY <1>4, <1>5

-----------------------------------------------------------------------------
(* Commands in pieces                                                       *)

(* Two sequences, one behind the other, as the lemmas below take them.      *)
Joined(s, t, u) ==
  /\ Len(s) \in Nat /\ Len(t) \in Nat /\ Len(u) = Len(s) + Len(t)
  /\ \A i \in 1..Len(s) : u[i] = s[i]
  /\ \A i \in 1..Len(t) : u[Len(s) + i] = t[i]
  /\ \A i \in 1..Len(u) : i \in 1..Len(s) \/ (i - Len(s) \in 1..Len(t) /\ u[i] = t[i - Len(s)])

LEMMA JoinedFacts ==
  ASSUME NEW T, NEW s \in Seq(T), NEW t \in Seq(T)
  PROVE  Joined(s, t, s \o t)
<1> DEFINE u == s \o t
<1>1. /\ u \in Seq(T) /\ Len(u) = Len(s) + Len(t)
      /\ \A i \in 1..(Len(s) + Len(t)) : u[i] = IF i <= Len(s) THEN s[i] ELSE t[i - Len(s)]
  BY ConcatProperties
<1>2. Len(s) \in Nat /\ Len(t) \in Nat
  OBVIOUS
<1> HIDE DEF u
<1>3. \A i \in 1..Len(s) : u[i] = s[i]
  BY <1>1, <1>2
<1>4. ASSUME NEW i \in 1..Len(t) PROVE u[Len(s) + i] = t[i]
  <2>1. Len(s) + i \in 1..(Len(s) + Len(t)) /\ ~(Len(s) + i <= Len(s)) /\ Len(s) + i - Len(s) = i
    BY <1>2
  <2> QED
    BY <1>1, <2>1
<1>5. ASSUME NEW i \in 1..Len(u), i \notin 1..Len(s)
      PROVE  i - Len(s) \in 1..Len(t) /\ u[i] = t[i - Len(s)]
  <2>1. i \in 1..(Len(s) + Len(t)) /\ ~(i <= Len(s))
    BY <1>1, <1>2, <1>5
  <2> QED
    BY <1>1, <1>2, <2>1
<1>6. Joined(s, t, u)
  BY <1>1, <1>2, <1>3, <1>4, <1>5 DEF Joined
<1> QED
  BY <1>6 DEF u

(* Commands that are whole so far, and those behind them.                   *)
LEMMA ChainedBehind ==
  ASSUME NEW s \in Seq(AnyByte), NEW t \in Seq(AnyByte), Chained(s), Chained(t)
  PROVE  Chained(s \o t)
<1> DEFINE u == s \o t
<1>1. Joined(s, t, u)
  BY JoinedFacts
<1> HIDE DEF u
<1>2. ASSUME NEW i \in 1..Len(u), u[i].kind = "event", u[i].at > 1
      PROVE  i > 1 /\ u[i - 1] = [u[i] EXCEPT !.at = @ - 1]
  <2>1. CASE i \in 1..Len(s)
    <3>1. u[i] = s[i] /\ i > 1 /\ s[i - 1] = [s[i] EXCEPT !.at = @ - 1]
      BY <1>1, <1>2, <2>1 DEF Chained, Joined
    <3>2. i - 1 \in 1..Len(s)
      BY <2>1, <3>1
    <3> QED
      BY <1>1, <3>1, <3>2 DEF Joined
  <2>2. CASE i \notin 1..Len(s)
    <3> DEFINE j == i - Len(s)
    <3>1. j \in 1..Len(t) /\ u[i] = t[j]
      BY <1>1, <2>2 DEF Joined
    <3>2. j > 1 /\ t[j - 1] = [t[j] EXCEPT !.at = @ - 1]
      BY <1>2, <3>1 DEF Chained
    <3>3. j - 1 \in 1..Len(t) /\ Len(s) + (j - 1) = i - 1 /\ i > 1
      <4>1. Len(s) \in Nat /\ Len(t) \in Nat /\ i \in Nat /\ j \in 1..Len(t) /\ j > 1
        BY <1>1, <3>1, <3>2 DEF Joined
      <4> QED
        BY <4>1
    <3>4. u[i - 1] = t[j - 1]
      BY <1>1, <3>3 DEF Joined
    <3> QED
      BY <3>1, <3>2, <3>3, <3>4
  <2> QED
    BY <2>1, <2>2
<1>3. Chained(u)
  BY <1>2 DEF Chained
<1> QED
  BY <1>3 DEF u

LEMMA ChainedFront ==
  ASSUME NEW s \in Seq(AnyByte), NEW t \in Seq(AnyByte), Chained(s \o t)
  PROVE  Chained(s)
<1> DEFINE u == s \o t
<1>1. Joined(s, t, u) /\ Chained(u)
  BY JoinedFacts
<1> HIDE DEF u
<1>2. ASSUME NEW i \in 1..Len(s), s[i].kind = "event", s[i].at > 1
      PROVE  i > 1 /\ s[i - 1] = [s[i] EXCEPT !.at = @ - 1]
  <2>1. u[i] = s[i] /\ i \in 1..Len(u)
    BY <1>1 DEF Joined
  <2>2. i > 1 /\ u[i - 1] = [u[i] EXCEPT !.at = @ - 1]
    BY <1>1, <1>2, <2>1 DEF Chained
  <2>3. i - 1 \in 1..Len(s)
    BY <2>2
  <2>4. u[i - 1] = s[i - 1]
    BY <1>1, <2>3 DEF Joined
  <2> QED
    BY <2>1, <2>2, <2>4
<1> QED
  BY <1>2 DEF Chained

(* Sysex bytes are no part of a channel command.                            *)
LEMMA SysexChained ==
  ASSUME NEW s \in Seq(DeviceByte("sysex"))
  PROVE  Chained(s)
<1>1. ASSUME NEW i \in 1..Len(s) PROVE s[i].kind # "event"
  <2>1. s[i] \in DeviceByte("sysex")
    OBVIOUS
  <2> QED
    BY <2>1 DEF DeviceByte
<1> QED
  BY <1>1 DEF Chained

(* What one command is encoded as.                                          *)
LEMMA EncodeFacts ==
  ASSUME NEW kind \in Kinds, NEW n \in Nat
  PROVE  LET e == Encode(kind, n)
         IN /\ e \in Seq(DeviceByte(kind)) /\ Len(e) \in {3, 4}
            /\ kind = "event" => Len(e) = 3
            /\ \A i \in 1..Len(e) : e[i] = [kind |-> kind, n |-> n, at |-> i]
<1> DEFINE m == IF kind = "event" THEN 3 ELSE 4
           e == [k \in 1..m |-> [kind |-> kind, n |-> n, at |-> k]]
<1>1. Encode(kind, n) = e
  BY DEF Encode
<1>2. m \in Nat /\ m \in {3, 4} /\ \A k \in 1..m : k \in 1..4
  OBVIOUS
<1>3. \A k \in 1..m : [kind |-> kind, n |-> n, at |-> k] \in DeviceByte(kind)
  BY <1>2 DEF DeviceByte
<1>4. kind = "event" => m = 3
  OBVIOUS
<1> HIDE DEF m
<1>5. e \in [1..m -> DeviceByte(kind)]
  BY <1>3
<1>6. e \in Seq(DeviceByte(kind)) /\ Len(e) = m
  BY <1>2, <1>5, FunctionIsSeq
<1>7. \A i \in 1..Len(e) : e[i] = [kind |-> kind, n |-> n, at |-> i]
  BY <1>6
<1> HIDE DEF e
<1> QED
  BY <1>1, <1>2, <1>4, <1>6, <1>7

LEMMA BytesAreBytes ==
  ASSUME NEW kind \in Kinds
  PROVE  DeviceByte(kind) \subseteq AnyByte /\ Seq(DeviceByte(kind)) \subseteq Seq(AnyByte)
<1>1. DeviceByte(kind) \subseteq AnyByte
  BY DEF DeviceByte, AnyByte
<1>2. ASSUME NEW s \in Seq(DeviceByte(kind)) PROVE s \in Seq(AnyByte)
  <2>1. Len(s) \in Nat /\ s \in [1..Len(s) -> DeviceByte(kind)]
    OBVIOUS
  <2>2. s \in [1..Len(s) -> AnyByte]
    BY <1>1, <2>1
  <2> QED
    BY <2>1, <2>2
<1> QED
  BY <1>1, <1>2

LEMMA EncodeChained ==
  ASSUME NEW kind \in Kinds, NEW n \in Nat
  PROVE  Chained(Encode(kind, n)) /\ Finished(Encode(kind, n))
<1> DEFINE e == Encode(kind, n)
<1>1. /\ Len(e) \in {3, 4}
      /\ kind = "event" => Len(e) = 3
      /\ \A i \in 1..Len(e) : e[i] = [kind |-> kind, n |-> n, at |-> i]
  BY EncodeFacts
<1> HIDE DEF e
<1>2. ASSUME NEW i \in 1..Len(e), e[i].at > 1
      PROVE  i > 1 /\ e[i - 1] = [e[i] EXCEPT !.at = @ - 1]
  <2>1. e[i] = [kind |-> kind, n |-> n, at |-> i]
    BY <1>1
  <2>2. i > 1 /\ i - 1 \in 1..Len(e)
    BY <1>1, <1>2, <2>1
  <2>3. e[i - 1] = [kind |-> kind, n |-> n, at |-> i - 1]
    BY <1>1, <2>2
  <2> QED
    BY <2>1, <2>2, <2>3
<1>3. ASSUME NEW i \in 1..Len(e), e[i].kind = "event", e[i].at < 3
      PROVE  i < Len(e) /\ e[i + 1] = [e[i] EXCEPT !.at = @ + 1]
  <2>1. e[i] = [kind |-> kind, n |-> n, at |-> i]
    BY <1>1
  <2>2. Len(e) = 3 /\ i < 3
    <3>1. e[i].kind = kind /\ e[i].at = i
      BY <2>1
    <3> QED
      BY <1>1, <1>3, <3>1
  <2>3. i + 1 \in 1..Len(e)
    BY <2>2
  <2>4. e[i + 1] = [kind |-> kind, n |-> n, at |-> i + 1]
    BY <1>1, <2>3
  <2> QED
    BY <2>1, <2>2, <2>4
<1>4. Chained(e) /\ Finished(e)
  BY <1>2, <1>3 DEF Chained, Finished
<1> QED
  BY <1>4 DEF e

(* Every command that begins in two parts ends there.                       *)
LEMMA FinishedBehind ==
  ASSUME NEW s \in Seq(AnyByte), NEW t \in Seq(AnyByte), Finished(s), Finished(t)
  PROVE  Finished(s \o t)
<1> DEFINE u == s \o t
<1>1. Joined(s, t, u)
  BY JoinedFacts
<1> HIDE DEF u
<1>2. ASSUME NEW i \in 1..Len(u), u[i].kind = "event", u[i].at < 3
      PROVE  i < Len(u) /\ u[i + 1] = [u[i] EXCEPT !.at = @ + 1]
  <2>1. CASE i \in 1..Len(s)
    <3>1. u[i] = s[i] /\ i < Len(s) /\ s[i + 1] = [s[i] EXCEPT !.at = @ + 1]
      BY <1>1, <1>2, <2>1 DEF Finished, Joined
    <3>2. i + 1 \in 1..Len(s) /\ i < Len(u)
      BY <1>1, <2>1, <3>1 DEF Joined
    <3> QED
      BY <1>1, <3>1, <3>2 DEF Joined
  <2>2. CASE i \notin 1..Len(s)
    <3> DEFINE j == i - Len(s)
    <3>1. j \in 1..Len(t) /\ u[i] = t[j]
      BY <1>1, <2>2 DEF Joined
    <3>2. j < Len(t) /\ t[j + 1] = [t[j] EXCEPT !.at = @ + 1]
      BY <1>2, <3>1 DEF Finished
    <3>3. j + 1 \in 1..Len(t) /\ Len(s) + (j + 1) = i + 1 /\ i < Len(u)
      <4>1. /\ Len(s) \in Nat /\ Len(t) \in Nat /\ i \in Nat /\ j \in 1..Len(t) /\ j < Len(t)
            /\ Len(u) = Len(s) + Len(t)
        BY <1>1, <3>1, <3>2 DEF Joined
      <4> QED
        BY <4>1
    <3>4. u[i + 1] = t[j + 1]
      BY <1>1, <3>3 DEF Joined
    <3> QED
      BY <3>1, <3>2, <3>3, <3>4
  <2> QED
    BY <2>1, <2>2
<1>3. Finished(u)
  BY <1>2 DEF Finished
<1> QED
  BY <1>3 DEF u

LEMMA FinishedRest ==
  ASSUME NEW s \in Seq(AnyByte), NEW t \in Seq(AnyByte), Finished(s \o t)
  PROVE  Finished(t)
<1> DEFINE u == s \o t
<1>1. Joined(s, t, u) /\ Finished(u)
  BY JoinedFacts
<1> HIDE DEF u
<1>2. ASSUME NEW i \in 1..Len(t), t[i].kind = "event", t[i].at < 3
      PROVE  i < Len(t) /\ t[i + 1] = [t[i] EXCEPT !.at = @ + 1]
  <2>1. u[Len(s) + i] = t[i] /\ Len(s) + i \in 1..Len(u)
    BY <1>1 DEF Joined
  <2>2. Len(s) + i < Len(u) /\ u[(Len(s) + i) + 1] = [u[Len(s) + i] EXCEPT !.at = @ + 1]
    BY <1>1, <1>2, <2>1 DEF Finished
  <2>3. i < Len(t) /\ i + 1 \in 1..Len(t) /\ Len(s) + (i + 1) = (Len(s) + i) + 1
    BY <1>1, <2>2 DEF Joined
  <2>4. u[Len(s) + (i + 1)] = t[i + 1]
    BY <1>1, <2>3 DEF Joined
  <2> QED
    BY <2>1, <2>2, <2>3, <2>4
<1> QED
  BY <1>2 DEF Finished

-----------------------------------------------------------------------------
(* What the parts of a handle hold                                          *)

(* The types of the parts one by one.                                       *)
BuffersOK ==
  /\ construction = [k \in Kinds |-> construction[k]]
  /\ \A k \in Kinds : construction[k] \in Seq(DeviceByte(k))
QueuesOK ==
  /\ queues = [k \in Kinds |-> queues[k]]
  /\ \A k \in Kinds : queues[k] \in Seq(Seq(DeviceByte(k)) \ {<<>>})
PlacesOK == scheduling \in [DeskThreads -> Places]
LoopOK ==
  /\ io \in [pc : {"idle", "event", "sysex"}, flags : SUBSET {"READ", "WRITE"}, async : BOOLEAN]
  /\ failure \in {"no", "error", "popped"} /\ driver \in Nat
InputOfDesk == input \in [line : Seq(AnyByte), in_construction : Seq(AnyByte), incomming_queue : Seq(AnyByte)]
ToldOK ==
  told \in [sent : [Kinds -> Nat], written : Seq(AnyByte), overlap : BOOLEAN,
            reported : Seq(AnyByte), received : Seq(AnyByte)]

LEMMA HandleTypeParts ==
  /\ HandleTypeOK <=> BuffersOK /\ QueuesOK /\ PlacesOK /\ LoopOK /\ InputOfDesk /\ ToldOK
  /\ HandleTypeOK' <=> BuffersOK' /\ QueuesOK' /\ PlacesOK' /\ LoopOK' /\ InputOfDesk' /\ ToldOK'
BY DEF HandleTypeOK, BuffersOK, QueuesOK, PlacesOK, LoopOK, InputOfDesk, ToldOK

LEMMA PartsStay ==
  /\ BuffersOK /\ UNCHANGED construction => BuffersOK'
  /\ QueuesOK /\ UNCHANGED queues => QueuesOK'
  /\ PlacesOK /\ UNCHANGED scheduling => PlacesOK'
  /\ LoopOK /\ UNCHANGED <<io, failure, driver>> => LoopOK'
  /\ InputOfDesk /\ UNCHANGED input => InputOfDesk'
  /\ ToldOK /\ UNCHANGED told => ToldOK'
BY DEF BuffersOK, QueuesOK, PlacesOK, LoopOK, InputOfDesk, ToldOK

LEMMA HandleTypeInit == HandleInit => HandleTypeOK
<1> SUFFICES ASSUME HandleInit PROVE HandleTypeOK
  OBVIOUS
<1>1. /\ construction = [k \in Kinds |-> construction[k]]
      /\ queues = [k \in Kinds |-> queues[k]]
      /\ \A k \in Kinds : construction[k] = <<>> /\ queues[k] = <<>>
  BY DEF HandleInit
<1>2. \A S : <<>> \in Seq(S)
  OBVIOUS
<1>3. scheduling \in [DeskThreads -> Places]
  BY DEF HandleInit, Places
<1>4. io \in [pc : {"idle", "event", "sysex"}, flags : SUBSET {"READ", "WRITE"}, async : BOOLEAN]
  BY DEF HandleInit
<1>5. input \in [line : Seq(AnyByte), in_construction : Seq(AnyByte), incomming_queue : Seq(AnyByte)]
  BY <1>2 DEF HandleInit
<1>6. failure \in {"no", "error", "popped"} /\ driver \in Nat
  BY HandleAssumption DEF HandleInit
<1>7. told \in [sent : [Kinds -> Nat], written : Seq(AnyByte), overlap : BOOLEAN,
               reported : Seq(AnyByte), received : Seq(AnyByte)]
  BY <1>2 DEF HandleInit
<1>8. BuffersOK /\ QueuesOK
  BY <1>1, <1>2 DEF BuffersOK, QueuesOK
<1> QED
  BY <1>3, <1>4, <1>5, <1>6, <1>7, <1>8, HandleTypeParts
     DEF PlacesOK, LoopOK, InputOfDesk, ToldOK

LEMMA FlagsType == Flags(queues) \in SUBSET {"READ", "WRITE"} /\ Flags(queues') \in SUBSET {"READ", "WRITE"}
BY DEF Flags

(* Composing and scheduling (device_handle.cpp:32-59).                      *)
LEMMA BuffersKeepTypes ==
  ASSUME HandleTypeOK, NEW t \in DeskThreads,
         \/ \E k \in Kinds : SendCommand(t, k) \/ CopyBuffer(t, k) \/ ClearBuffer(t, k)
         \/ Schedule(t) \/ Wake(t)
  PROVE  HandleTypeOK'
<1>0. BuffersOK /\ QueuesOK /\ PlacesOK /\ LoopOK /\ InputOfDesk /\ ToldOK
  BY HandleTypeParts
<1>1. ASSUME NEW k \in Kinds, SendCommand(t, k) PROVE HandleTypeOK'
  <2>1. BuffersOK'
    <3> DEFINE n == told.sent[k] + 1
    <3>1. n \in Nat
      BY <1>0 DEF ToldOK
    <3>2. /\ construction' = [construction EXCEPT ![k] = construction[k] \o Encode(k, n)]
      BY <1>1 DEF SendCommand
    <3>3. Encode(k, n) \in Seq(DeviceByte(k))
      BY <3>1, EncodeFacts
    <3> HIDE DEF n
    <3>4. construction[k] \o Encode(k, n) \in Seq(DeviceByte(k))
      BY <1>0, <3>3, ConcatProperties DEF BuffersOK
    <3> QED
      BY <1>0, <3>2, <3>4 DEF BuffersOK
  <2>2. ToldOK'
    <3>1. told' = [told EXCEPT !.sent[k] = @ + 1, !.overlap = Overlapping(t)] /\ Overlapping(t) \in BOOLEAN
      BY <1>0, <1>1 DEF SendCommand, Overlapping, ToldOK
    <3> DEFINE s == [told.sent EXCEPT ![k] = @ + 1]
    <3>2. s \in [Kinds -> Nat]
      BY <1>0 DEF ToldOK
    <3>3. told' = [told EXCEPT !.sent = s, !.overlap = Overlapping(t)]
      BY <3>1
    <3> HIDE DEF s
    <3> QED
      BY <1>0, <3>1, <3>2, <3>3 DEF ToldOK
  <2> QED
    BY <1>0, <1>1, <2>1, <2>2, HandleTypeParts, PartsStay DEF SendCommand
<1>2. ASSUME NEW k \in Kinds, CopyBuffer(t, k) PROVE HandleTypeOK'
  <2>1. QueuesOK'
    <3>1. CASE construction[k] # <<>>
      <4>1. queues' = [queues EXCEPT ![k] = Append(queues[k], construction[k])]
        BY <1>2, <3>1 DEF CopyBuffer
      <4>2. construction[k] \in Seq(DeviceByte(k)) \ {<<>>}
        BY <1>0, <3>1 DEF BuffersOK
      <4> DEFINE R == Seq(DeviceByte(k)) \ {<<>>}
      <4>3. queues[k] \in Seq(R) /\ construction[k] \in R
        BY <1>0, <4>2 DEF QueuesOK
      <4> HIDE DEF R
      <4>4. Append(queues[k], construction[k]) \in Seq(R)
        BY <4>3, AppendProperties
      <4> QED
        BY <1>0, <4>1, <4>4 DEF QueuesOK, R
    <3>2. CASE construction[k] = <<>>
      BY <1>0, <1>2, <3>2, PartsStay DEF CopyBuffer
    <3> QED
      BY <3>1, <3>2
  <2>2. PlacesOK'
    BY <1>0, <1>2 DEF CopyBuffer, PlacesOK, Places, ClearOf, AfterBuffer
  <2> QED
    BY <1>0, <1>2, <2>1, <2>2, HandleTypeParts, PartsStay DEF CopyBuffer
<1>3. ASSUME NEW k \in Kinds, ClearBuffer(t, k) PROVE HandleTypeOK'
  <2>1. BuffersOK'
    <3>1. construction' = [construction EXCEPT ![k] = <<>>] /\ <<>> \in Seq(DeviceByte(k))
      BY <1>3 DEF ClearBuffer
    <3> QED
      BY <1>0, <3>1 DEF BuffersOK
  <2>2. PlacesOK'
    BY <1>0, <1>3 DEF ClearBuffer, PlacesOK, Places, AfterBuffer
  <2> QED
    BY <1>0, <1>3, <2>1, <2>2, HandleTypeParts, PartsStay DEF ClearBuffer
<1>4. CASE Schedule(t)
  <2>1. BuffersOK'
    <3>1. CASE failure = "error"
      <4>1. construction' = [k \in Kinds |-> <<>>] /\ \A k \in Kinds : <<>> \in Seq(DeviceByte(k))
        BY <1>4, <3>1 DEF Schedule
      <4> QED
        BY <4>1 DEF BuffersOK
    <3>2. CASE failure # "error"
      BY <1>0, <1>4, <3>2, PartsStay DEF Schedule
    <3> QED
      BY <3>1, <3>2
  <2>2. PlacesOK'
    BY <1>0, <1>4 DEF Schedule, PlacesOK, Places
  <2>3. ToldOK'
    <3>1. Overlapping(t) \in BOOLEAN
      BY <1>0 DEF Overlapping, ToldOK
    <3>2. told' = told \/ told' = [told EXCEPT !.overlap = Overlapping(t)]
      BY <1>4 DEF Schedule
    <3> QED
      BY <1>0, <3>1, <3>2 DEF ToldOK
  <2> QED
    BY <1>0, <1>4, <2>1, <2>2, <2>3, HandleTypeParts, PartsStay DEF Schedule
<1>5. CASE Wake(t)
  <2>1. PlacesOK' /\ LoopOK'
    BY <1>0, <1>5 DEF Wake, PlacesOK, Places, LoopOK
  <2> QED
    BY <1>0, <1>5, <2>1, HandleTypeParts, PartsStay DEF Wake
<1> QED
  BY <1>1, <1>2, <1>3, <1>4, <1>5

(* What an event loop writes is the beginning of the first record.          *)
WrittenFrom(kind, a, rest) ==
  LET q == queues[kind]
  IN /\ a \in Seq(DeviceByte(kind)) /\ rest \in Seq(DeviceByte(kind)) /\ q[1] = a \o rest
     /\ Tail(q) \in Seq(Seq(DeviceByte(kind)) \ {<<>>})
     /\ Len(q) \in Nat \ {0} /\ Len(Tail(q)) = Len(q) - 1
     /\ \A j \in 1..Len(Tail(q)) : Tail(q)[j] = q[j + 1]
     /\ queues' = [queues EXCEPT ![kind] = IF rest = <<>> THEN Tail(q) ELSE <<rest>> \o Tail(q)]
     /\ told' = [told EXCEPT !.written = told.written \o a]
     /\ driver' \in Nat /\ io.pc = kind
     /\ UNCHANGED <<construction, scheduling, io, input, failure, budget>>

LEMMA WriteFacts ==
  ASSUME HandleTypeOK, NEW kind \in Kinds, Write(kind)
  PROVE  \E a, rest : WrittenFrom(kind, a, rest)
<1> DEFINE q == queues[kind]  h == Head(q)  R == Seq(DeviceByte(kind)) \ {<<>>}
<1>1. q \in Seq(R) /\ q # <<>>
  BY HandleTypeParts DEF QueuesOK, Write
<1>2. /\ Tail(q) \in Seq(R) /\ h = q[1] /\ Len(Tail(q)) = Len(q) - 1 /\ h \in R
      /\ \A j \in 1..Len(Tail(q)) : Tail(q)[j] = q[j + 1]
  <2> HIDE DEF q, R
  <2>1. Tail(q) \in Seq(R) /\ Len(Tail(q)) = Len(q) - 1 /\ Head(q) \in R
    BY <1>1, HeadTailProperties
  <2>2. \A j \in 1..Len(Tail(q)) : Tail(q)[j] = q[j + 1]
    BY <1>1, HeadTailProperties
  <2>3. Head(q) = q[1]
    BY <1>1, FirstOff
  <2> QED
    BY <2>1, <2>2, <2>3
<1>3. Len(q) \in Nat \ {0}
  <2> HIDE DEF q, R
  <2> QED
    BY <1>1, EmptySeq
<1>4. PICK n \in 1..Min2(driver, Len(h)) :
        LET rest == SubSeq(h, n + 1, Len(h))
        IN /\ queues' = [queues EXCEPT ![kind] = IF rest = <<>> THEN Tail(@) ELSE <<rest>> \o Tail(@)]
           /\ told' = [told EXCEPT !.written = @ \o SubSeq(h, 1, n)]
           /\ driver' = driver - n
  BY DEF Write
<1> DEFINE a == SubSeq(h, 1, n)  rest == SubSeq(h, n + 1, Len(h))
<1>5. n \in 0..Len(h) /\ driver - n \in Nat
  <2>1. driver \in Nat /\ Len(h) \in Nat
    BY <1>2, HandleTypeParts DEF LoopOK
  <2> HIDE DEF h
  <2> QED
    BY <1>4, <2>1 DEF Min2
<1>6. a \in Seq(DeviceByte(kind)) /\ rest \in Seq(DeviceByte(kind)) /\ h = a \o rest
  <2>1. h \in Seq(DeviceByte(kind))
    BY <1>2
  <2> HIDE DEF h
  <2> QED
    BY <1>5, <2>1, SplitAt
<1>7. /\ queues' = [queues EXCEPT ![kind] = IF rest = <<>> THEN Tail(q) ELSE <<rest>> \o Tail(q)]
      /\ told' = [told EXCEPT !.written = told.written \o a]
      /\ driver' \in Nat
  BY <1>4, <1>5
<1>8. io.pc = kind /\ UNCHANGED <<construction, scheduling, io, input, failure, budget>>
  BY DEF Write
<1> HIDE DEF a, rest
<1>9. WrittenFrom(kind, a, rest)
  BY <1>2, <1>3, <1>6, <1>7, <1>8 DEF WrittenFrom
<1> QED
  BY <1>9

-----------------------------------------------------------------------------
(* What is decoded                                                          *)

ToGo(bytes, f, n) ==
  LET end == Len(bytes)
      s == FirstStatus(bytes, end - n + 1)
      sysex == bytes[s].kind = "sysex"
      rest == f[end - s - (IF sysex THEN 0 ELSE 2)]
  IN IF n = 0 THEN [left |-> <<>>, commands |-> <<>>, popped |-> FALSE]
     ELSE IF Statuses(bytes, end - n + 1) = {}
     THEN [left |-> <<>>, commands |-> <<>>, popped |-> TRUE]
     ELSE IF end - s < 2 THEN [left |-> SubSeq(bytes, s, end), commands |-> <<>>, popped |-> FALSE]
     ELSE [rest EXCEPT !.commands = IF sysex THEN @ ELSE <<bytes[s]>> \o @]
GoesOn(bytes, f, m) == f = [n \in 0..m |-> ToGo(bytes, f, n)]

(* The first status from some place on lies there or behind it.             *)
LEMMA FirstStatusFacts ==
  ASSUME NEW bytes, NEW p \in Nat, Len(bytes) \in Nat, Statuses(bytes, p) # {}
  PROVE  LET s == FirstStatus(bytes, p)
         IN s \in p..Len(bytes) /\ Status(bytes[s]) /\ \A j \in p..(s - 1) : ~ Status(bytes[j])
<1> DEFINE T == Statuses(bytes, p)
<1>1. T \in SUBSET Nat /\ T # {}
  BY DEF Statuses
<1>2. \E x \in T : \A y \in T : x <= y
  <2> HIDE DEF T
  <2> QED
    BY <1>1, LeastNatural
<1> DEFINE s == FirstStatus(bytes, p)
<1>3. s \in T /\ \A y \in T : s <= y
  BY <1>2 DEF FirstStatus
<1> HIDE DEF s
<1>4. s \in p..Len(bytes) /\ Status(bytes[s])
  BY <1>3 DEF Statuses
<1>5. ASSUME NEW j \in p..(s - 1), Status(bytes[j]) PROVE FALSE
  <2>1. j \in p..Len(bytes) /\ ~(s <= j)
    BY <1>4
  <2>2. j \in T
    BY <1>5, <2>1 DEF Statuses
  <2> QED
    BY <1>3, <2>1, <2>2
<1> QED
  BY <1>4, <1>5 DEF s

(* What is still to go is less.                                             *)
LEMMA LessToGo ==
  ASSUME NEW bytes, NEW n \in Nat, Len(bytes) \in Nat, n <= Len(bytes), n # 0,
         Statuses(bytes, Len(bytes) - n + 1) # {},
         ~(Len(bytes) - FirstStatus(bytes, Len(bytes) - n + 1) < 2)
  PROVE  LET s == FirstStatus(bytes, Len(bytes) - n + 1)
             less == Len(bytes) - s - (IF bytes[s].kind = "sysex" THEN 0 ELSE 2)
         IN less \in 0..(n - 1)
<1> DEFINE p == Len(bytes) - n + 1
           s == FirstStatus(bytes, p)
<1>1. p \in Nat
  OBVIOUS
<1> HIDE DEF p
<1>2. s \in p..Len(bytes)
  BY <1>1, FirstStatusFacts DEF p
<1>3. ~(Len(bytes) - s < 2)
  BY DEF p
<1> HIDE DEF s
<1>4. /\ Len(bytes) - s - 0 \in 0..(n - 1)
      /\ Len(bytes) - s - 2 \in 0..(n - 1)
  BY <1>1, <1>2, <1>3 DEF p
<1>5. Len(bytes) - s - (IF bytes[s].kind = "sysex" THEN 0 ELSE 2) \in 0..(n - 1)
  BY <1>4
<1> QED
  BY <1>5 DEF s, p

LEMMA ToGoExists ==
  ASSUME NEW bytes, Len(bytes) \in Nat
  PROVE  \E f : GoesOn(bytes, f, Len(bytes))
<1> DEFINE T == {m \in Nat : m <= Len(bytes) => \E f : GoesOn(bytes, f, m)}
<1>1. 0 \in T
  <2> DEFINE f == [n \in 0..0 |-> [left |-> <<>>, commands |-> <<>>, popped |-> FALSE]]
  <2>1. f = [n \in 0..0 |-> ToGo(bytes, f, n)]
    BY DEF ToGo
  <2> HIDE DEF f
  <2> QED
    BY <2>1 DEF GoesOn
<1>2. ASSUME NEW m \in Nat, m \in T PROVE m + 1 \in T
  <2> SUFFICES ASSUME m + 1 <= Len(bytes) PROVE \E f : GoesOn(bytes, f, m + 1)
    OBVIOUS
  <2>0. \E f : GoesOn(bytes, f, m)
    BY <1>2
  <2>1. PICK f : f = [n \in 0..m |-> ToGo(bytes, f, n)]
    BY <2>0 DEF GoesOn
  <2> DEFINE g == [n \in 0..(m + 1) |-> IF n = m + 1 THEN ToGo(bytes, f, n) ELSE f[n]]
  <2>2. \A n \in 0..(m + 1) : g[n] = ToGo(bytes, g, n)
    <3>1. \A n \in 0..m : g[n] = f[n]
      OBVIOUS
    <3>2. g[m + 1] = ToGo(bytes, f, m + 1)
      OBVIOUS
    <3> HIDE DEF g
    <3>3. ASSUME NEW n \in 0..(m + 1) PROVE ToGo(bytes, g, n) = ToGo(bytes, f, n)
      <4> DEFINE s == FirstStatus(bytes, Len(bytes) - n + 1)
                 less == Len(bytes) - s - (IF bytes[s].kind = "sysex" THEN 0 ELSE 2)
      <4>1. CASE n = 0 \/ Statuses(bytes, Len(bytes) - n + 1) = {} \/ Len(bytes) - s < 2
        BY <4>1 DEF ToGo
      <4>2. CASE ~(n = 0 \/ Statuses(bytes, Len(bytes) - n + 1) = {} \/ Len(bytes) - s < 2)
        <5>1. less \in 0..(n - 1)
          BY <4>2, LessToGo
        <5> HIDE DEF less
        <5>2. g[less] = f[less]
          BY <3>1, <5>1
        <5> QED
          BY <5>2 DEF ToGo, less
      <4> QED
        BY <4>1, <4>2
    <3>5. \A n \in 0..m : f[n] = ToGo(bytes, f, n)
      BY <2>1
    <3>6. ASSUME NEW n \in 0..(m + 1) PROVE g[n] = ToGo(bytes, g, n)
      <4>1. ToGo(bytes, g, n) = ToGo(bytes, f, n)
        BY <3>3
      <4>2. CASE n = m + 1
        BY <3>2, <4>1, <4>2
      <4>3. CASE n # m + 1
        <5>1. n \in 0..m
          BY <4>3
        <5> QED
          BY <3>1, <3>5, <4>1, <5>1
      <4> QED
        BY <4>2, <4>3
    <3> QED
      BY <3>6
  <2>3. g = [n \in 0..(m + 1) |-> g[n]]
    OBVIOUS
  <2> HIDE DEF g
  <2>4. g = [n \in 0..(m + 1) |-> ToGo(bytes, g, n)]
    BY <2>2, <2>3
  <2> QED
    BY <2>4 DEF GoesOn
<1> HIDE DEF T
<1>3. Len(bytes) \in T
  BY <1>1, <1>2, NaturalInduction
<1> QED
  BY <1>3 DEF T

LEMMA DecodedSteps ==
  ASSUME NEW bytes, Len(bytes) \in Nat
  PROVE  \E f : /\ \A n \in 0..Len(bytes) : f[n] = ToGo(bytes, f, n)
                /\ Decoded(bytes) = f[Len(bytes)]
<1> DEFINE f == CHOOSE f : f = [n \in 0..Len(bytes) |-> ToGo(bytes, f, n)]
<1>1. Decoded(bytes) = f[Len(bytes)]
  BY DEF Decoded, ToGo
<1>2. f = [n \in 0..Len(bytes) |-> ToGo(bytes, f, n)]
  <2>1. \E g : g = [n \in 0..Len(bytes) |-> ToGo(bytes, g, n)]
    BY ToGoExists DEF GoesOn
  <2> QED
    BY <2>1
<1> HIDE DEF f
<1>3. \A n \in 0..Len(bytes) : f[n] = ToGo(bytes, f, n)
  BY <1>2
<1> QED
  BY <1>1, <1>3

(* The bytes from some place on, and what is found among them.              *)
LEMMA WithinFrom ==
  ASSUME NEW bytes \in Seq(AnyByte), NEW p \in 1..(Len(bytes) + 1),
         NEW q \in p..(Len(bytes) + 1), NEW S
  PROVE  /\ SubSeq(bytes, p, Len(bytes)) \in Seq(AnyByte)
         /\ Within(SubSeq(bytes, p, Len(bytes)), S)
              = Within(SubSeq(bytes, p, q - 1), S) \o Within(SubSeq(bytes, q, Len(bytes)), S)
         /\ (\A i \in p..(q - 1) : bytes[i] \notin S) =>
              Within(SubSeq(bytes, p, Len(bytes)), S) = Within(SubSeq(bytes, q, Len(bytes)), S)
<1> DEFINE i == p - 1  j == q - 1  a == SubSeq(bytes, p, q - 1)  b == SubSeq(bytes, q, Len(bytes))
<1>0. Len(bytes) \in Nat
  OBVIOUS
<1>1. i \in Nat /\ j \in Nat /\ i <= j /\ j <= Len(bytes) /\ i + 1 = p /\ j + 1 = q
  BY <1>0
<1> HIDE DEF i, j
<1>2. /\ SubSeq(bytes, i + 1, j) \in Seq(AnyByte) /\ Len(SubSeq(bytes, i + 1, j)) = j - i
      /\ \A n \in 1..(j - i) : SubSeq(bytes, i + 1, j)[n] = bytes[i + n]
      /\ SubSeq(bytes, i + 1, Len(bytes)) = SubSeq(bytes, i + 1, j) \o SubSeq(bytes, j + 1, Len(bytes))
  BY <1>1, Cuts, ZenonT(60)
<1>3. j = q - 1
  BY <1>1
<1>4. /\ a \in Seq(AnyByte) /\ Len(a) = j - i /\ \A n \in 1..(j - i) : a[n] = bytes[i + n]
      /\ SubSeq(bytes, p, Len(bytes)) = a \o b
  BY <1>1, <1>2, <1>3
<1>5. SubSeq(bytes, j + 1, Len(bytes)) \in Seq(AnyByte)
  <2>1. Len(bytes) <= Len(bytes)
    BY <1>0
  <2> QED
    BY <1>0, <1>1, <2>1, Cuts
<1>6. b \in Seq(AnyByte)
  BY <1>1, <1>5
<1> HIDE DEF a, b
<1>7. a \o b \in Seq(AnyByte) /\ Within(a \o b, S) = Within(a, S) \o Within(b, S)
  BY <1>4, <1>6, WithinBehind, ConcatProperties, SMTT(30)
<1>8. ASSUME \A k \in p..(q - 1) : bytes[k] \notin S PROVE Within(a \o b, S) = Within(b, S)
  <2>1. \A n \in 1..Len(a) : a[n] \notin S
    <3>1. \A n \in 1..(j - i) : i + n \in p..(q - 1)
      BY <1>1
    <3> QED
      BY <1>4, <1>8, <3>1
  <2>2. Within(a, S) = <<>>
    BY <1>4, <2>1, WithinAllOrNothing
  <2>3. Within(b, S) \in Seq(AnyByte)
    BY <1>6, WithinType
  <2> QED
    BY <1>7, <2>2, <2>3, ConcatEmptySeq
<1> QED
  BY <1>4, <1>7, <1>8 DEF a, b

(* Finished, for bytes of which the last command may be cut.                *)
FinishedSoFar(s) ==
  \A i \in 1..(Len(s) - 1) :
    s[i].kind = "event" /\ s[i].at < 3 => s[i + 1] = [s[i] EXCEPT !.at = @ + 1]

(* What decoding has come to with n bytes to go: unless it has failed, it   *)
(* leaves an end of the bytes, and what it has found and what is left has   *)
(* the commands that these n bytes begin.                                   *)
DecodedRight(bytes, d, n) ==
  /\ d = [left |-> d.left, commands |-> d.commands, popped |-> d.popped]
  /\ d.left \in Seq(AnyByte) /\ d.commands \in Seq(AnyByte) /\ d.popped \in BOOLEAN
  /\ ~ d.popped =>
       /\ \E m \in 1..(Len(bytes) + 1) : d.left = SubSeq(bytes, m, Len(bytes))
       /\ d.commands \o Within(d.left, Command)
            = Within(SubSeq(bytes, Len(bytes) - n + 1, Len(bytes)), Command)

LEMMA NoCommand ==
  \A b \in AnyByte : /\ b \in Command <=> b.kind = "event" /\ b.at = 1
                     /\ ~ Status(b) => b \notin Command
BY DEF AnyByte, Command, Status, Kinds

LEMMA OneByte ==
  ASSUME NEW bytes \in Seq(AnyByte), NEW s \in 1..Len(bytes), bytes[s] \in Command
  PROVE  Within(SubSeq(bytes, s, s), Command) = <<bytes[s]>>
<1> DEFINE b == bytes[s]
<1>2. b \in AnyByte /\ b \in Command
  OBVIOUS
<1>1. SubSeq(bytes, s, s) = <<b>>
  <2> DEFINE i == s - 1
  <2>1. i \in Nat /\ i <= s /\ s <= Len(bytes) /\ i + 1 = s /\ s - i = 1 /\ s \in Nat
    OBVIOUS
  <2> HIDE DEF i
  <2>2. /\ SubSeq(bytes, i + 1, s) \in Seq(AnyByte) /\ Len(SubSeq(bytes, i + 1, s)) = s - i
        /\ \A n \in 1..(s - i) : SubSeq(bytes, i + 1, s)[n] = bytes[i + n]
    BY <2>1, Cuts
  <2> DEFINE c == SubSeq(bytes, s, s)
  <2>3. c \in Seq(AnyByte) /\ Len(c) = 1 /\ c[1] = b
    BY <2>1, <2>2
  <2> HIDE DEF c, b
  <2>4. c = <<b>>
    BY <2>3
  <2> QED
    BY <2>4 DEF c
<1> HIDE DEF b
<1>3. <<b>> \in Seq(AnyByte) /\ \A i \in 1..Len(<<b>>) : <<b>>[i] \in Command
  BY <1>2
<1>4. Within(<<b>>, Command) = <<b>>
  BY <1>3, WithinAllOrNothing
<1> QED
  BY <1>1, <1>4 DEF b

(* One turn of decode_incomming_event (device_handle.cpp:61-84).            *)
LEMMA DecodesOne ==
  ASSUME NEW bytes \in Seq(AnyByte), FinishedSoFar(bytes), NEW f,
         NEW n \in 1..Len(bytes), f[n] = ToGo(bytes, f, n),
         \A k \in 0..(n - 1) : DecodedRight(bytes, f[k], k)
  PROVE  DecodedRight(bytes, f[n], n)
<1> DEFINE end == Len(bytes)  p == end - n + 1  s == FirstStatus(bytes, p)
           from(q) == Within(SubSeq(bytes, q, end), Command)
<1>0. end \in Nat /\ p \in 1..end /\ p \in 1..(end + 1) /\ p \in Nat /\ n # 0
  OBVIOUS
<1>3. ASSUME NEW x \in 1..(end + 1), NEW y \in x..(end + 1), \A j \in x..(y - 1) : bytes[j] \notin Command
      PROVE  from(x) = from(y)
  BY <1>3, WithinFrom
<1>4. ASSUME NEW x \in 1..end
      PROVE  from(x) = Within(SubSeq(bytes, x, x), Command) \o from(x + 1)
  <2> DEFINE y == x + 1
  <2>1. x \in 1..(Len(bytes) + 1) /\ y \in x..(Len(bytes) + 1) /\ y - 1 = x
    BY <1>0
  <2> HIDE DEF y
  <2>2. Within(SubSeq(bytes, x, Len(bytes)), Command)
          = Within(SubSeq(bytes, x, y - 1), Command) \o Within(SubSeq(bytes, y, Len(bytes)), Command)
    BY <2>1, WithinFrom
  <2>3. from(x) = Within(SubSeq(bytes, x, x), Command) \o from(y)
    BY <2>1, <2>2
  <2> QED
    BY <2>3 DEF y
<1>5. ASSUME NEW x \in 1..end, bytes[x] \notin Command PROVE from(x) = from(x + 1)
  <2>1. x \in 1..(end + 1) /\ x + 1 \in x..(end + 1) /\ \A j \in x..(x + 1 - 1) : j = x
    BY <1>0
  <2> HIDE DEF from
  <2>2. \A j \in x..(x + 1 - 1) : bytes[j] \notin Command
    BY <1>5, <2>1
  <2> QED
    BY <1>3, <2>1, <2>2
<1>1. CASE Statuses(bytes, p) = {}
  <2>1. f[n] = [left |-> <<>>, commands |-> <<>>, popped |-> TRUE]
    BY <1>0, <1>1 DEF ToGo
  <2>2. <<>> \in Seq(AnyByte)
    OBVIOUS
  <2> QED
    BY <2>1, <2>2 DEF DecodedRight
<1>2. CASE Statuses(bytes, p) # {}
  <2> HIDE DEF p
  <2>1. s \in p..end /\ Status(bytes[s]) /\ \A j \in p..(s - 1) : ~ Status(bytes[j])
    BY <1>0, <1>2, FirstStatusFacts
  <2> HIDE DEF s
  <2>2. s \in 1..end /\ s \in p..(end + 1) /\ s \in 1..(end + 1)
    BY <1>0, <2>1
  <2>3. \A j \in 1..end : bytes[j] \in AnyByte
    OBVIOUS
  <2>4. SubSeq(bytes, p, end) \in Seq(AnyByte) /\ from(p) = from(s) /\ SubSeq(bytes, s, end) \in Seq(AnyByte)
    <3>1. \A j \in p..(s - 1) : bytes[j] \notin Command
      <4>1. \A j \in p..(s - 1) : j \in 1..end
        BY <1>0, <2>1
      <4> QED
        BY <2>1, <2>3, <4>1, NoCommand
    <3>2. from(p) = from(s) /\ SubSeq(bytes, p, end) \in Seq(AnyByte)
      BY <1>0, <2>2, <3>1, WithinFrom
    <3>3. s \in s..(end + 1)
      BY <2>2
    <3>4. SubSeq(bytes, s, end) \in Seq(AnyByte)
      BY <2>2, <3>3, WithinFrom
    <3> QED
      BY <3>2, <3>4
  <2>5. CASE end - s < 2
    <3>1. f[n] = [left |-> SubSeq(bytes, s, end), commands |-> <<>>, popped |-> FALSE]
      BY <1>0, <1>2, <2>5 DEF ToGo, s, p
    <3> DEFINE l == SubSeq(bytes, s, end)
    <3>2. <<>> \in Seq(AnyByte) /\ Within(l, Command) \in Seq(AnyByte)
      <4>1. l \in Seq(AnyByte)
        BY <2>4
      <4> HIDE DEF l
      <4> QED
        BY <4>1, WithinType
    <3>3. <<>> \o from(s) = from(s)
      <4> DEFINE x == Within(l, Command)
      <4>1. x \in Seq(AnyByte)
        BY <3>2
      <4> HIDE DEF x
      <4>2. <<>> \o x = x
        BY <4>1, ConcatEmptySeq
      <4> QED
        BY <4>2 DEF x
    <3>4. f[n].left = l /\ f[n].commands = <<>> /\ f[n].popped = FALSE
      <4> HIDE DEF l
      <4>1. f[n] = [left |-> l, commands |-> <<>>, popped |-> FALSE]
        BY <3>1 DEF l
      <4> QED
        BY <4>1
    <3>5. l \in Seq(AnyByte) /\ \E m \in 1..(end + 1) : l = SubSeq(bytes, m, end)
      BY <2>2, <2>4
    <3>6. <<>> \o Within(l, Command) = from(p)
      BY <2>4, <3>3
    <3> HIDE DEF l, from
    <3> QED
      BY <3>1, <3>2, <3>4, <3>5, <3>6 DEF DecodedRight, from, p, l
  <2>6. CASE ~(end - s < 2)
    <3>1. CASE bytes[s].kind = "sysex"
      <4> DEFINE k == end - s - 0  rest == f[k]
      <4>1. f[n] = [rest EXCEPT !.commands = @]
        BY <1>0, <1>2, <2>6, <3>1 DEF ToGo, s, p
      <4>2. k \in 0..(n - 1) /\ end - k + 1 = s + 1
        BY <1>0, <2>1, <2>6 DEF p
      <4>3. DecodedRight(bytes, rest, k)
        BY <4>2
      <4> HIDE DEF k, rest
      <4>4. f[n] = rest
        BY <4>1, <4>3 DEF DecodedRight
      <4>5. from(s) = from(s + 1)
        <5>1. s + 1 \in s..(end + 1) /\ s + 1 - 1 = s
          BY <2>1
        <5>2. \A j \in s..s : bytes[j] \notin Command
          BY <2>2, <2>3, <3>1, NoCommand
        <5> QED
          BY <2>2, <5>1, <5>2, WithinFrom
      <4>6. ~ rest.popped => rest.commands \o Within(rest.left, Command) = from(s + 1)
        BY <4>2, <4>3 DEF DecodedRight
      <4> QED
        BY <2>4, <4>3, <4>4, <4>5, <4>6 DEF DecodedRight, p
    <3>2. CASE bytes[s].kind # "sysex"
      <4> DEFINE k == end - s - 2  rest == f[k]  b == bytes[s]
      <4>1. f[n] = [rest EXCEPT !.commands = <<b>> \o @]
        BY <1>0, <1>2, <2>6, <3>2 DEF ToGo, s, p
      <4>2. /\ k \in 0..(n - 1) /\ end - k + 1 = s + 3 /\ s + 2 <= end
            /\ s + 1 \in 1..end /\ s + 2 \in 1..end
        BY <1>0, <2>1, <2>6 DEF p
      <4>3. DecodedRight(bytes, rest, k)
        BY <4>2
      <4> HIDE DEF k, rest
      <4>4. b \in AnyByte /\ b \in Command /\ b.kind = "event" /\ b.at = 1
        BY <2>1, <2>2, <2>3, <3>2, NoCommand DEF Status, AnyByte, Kinds
      <4>5. bytes[s + 1].at = 2 /\ bytes[s + 1].kind = "event"
        <5>0. s \in 1..(end - 1) /\ bytes[s].kind = "event" /\ bytes[s].at < 3
          BY <2>2, <4>2, <4>4
        <5>1. bytes[s + 1] = [b EXCEPT !.at = @ + 1]
          BY <5>0 DEF FinishedSoFar
        <5> QED
          BY <4>4, <5>1 DEF AnyByte
      <4>6. bytes[s + 2].at = 3
        <5>1. s + 1 \in 1..(end - 1) /\ s + 1 + 1 = s + 2
          BY <1>0, <2>2, <4>2
        <5>2. bytes[s + 1 + 1] = [bytes[s + 1] EXCEPT !.at = @ + 1]
          BY <4>5, <5>1 DEF FinishedSoFar
        <5>3. bytes[s + 1] \in AnyByte
          BY <2>3, <4>2
        <5> QED
          BY <4>5, <5>1, <5>2, <5>3 DEF AnyByte
      <4>7. from(s + 1) = from(s + 3) /\ from(s + 3) \in Seq(AnyByte)
        <5>1. bytes[s + 1] \notin Command /\ bytes[s + 2] \notin Command
          BY <2>3, <4>2, <4>5, <4>6, NoCommand
        <5>2. from(s + 1) = from(s + 1 + 1) /\ from(s + 2) = from(s + 2 + 1)
          <6> HIDE DEF from
          <6> QED
            BY <1>5, <4>2, <5>1
        <5>3. from(s + 1) = from(s + 3)
          <6>1. s + 1 + 1 = s + 2 /\ s + 2 + 1 = s + 3
            BY <2>2
          <6> HIDE DEF from
          <6> QED
            BY <5>2, <6>1
        <5>4. s + 3 \in 1..(end + 1) /\ s + 3 \in (s + 3)..(end + 1)
          BY <1>0, <2>2, <4>2
        <5>5. SubSeq(bytes, s + 3, end) \in Seq(AnyByte)
          BY <5>4, WithinFrom
        <5> QED
          BY <5>3, <5>5, WithinType
      <4>8. from(s) = <<b>> \o from(s + 3)
        <5>2. from(s) = Within(SubSeq(bytes, s, s), Command) \o from(s + 1)
          BY <1>4, <2>2
        <5>3. Within(SubSeq(bytes, s, s), Command) = <<b>>
          BY <2>2, <4>4, OneByte
        <5> QED
          BY <4>7, <5>2, <5>3
      <4>9. <<b>> \in Seq(AnyByte)
        BY <4>4
      <4> HIDE DEF b
      <4> DEFINE c == rest.commands
      <4>10. c \in Seq(AnyByte) /\ rest = [left |-> rest.left, commands |-> c, popped |-> rest.popped]
        BY <4>3 DEF DecodedRight
      <4>11. f[n] = [left |-> rest.left, commands |-> <<b>> \o c, popped |-> rest.popped]
        BY <4>1, <4>10
      <4>12. <<b>> \o c \in Seq(AnyByte)
        BY <4>9, <4>10, ConcatProperties
      <4>13. ASSUME ~ rest.popped PROVE (<<b>> \o c) \o Within(rest.left, Command) = from(p)
        <5>1. c \o Within(rest.left, Command) = from(s + 3)
          BY <4>2, <4>3, <4>13 DEF DecodedRight
        <5>2. rest.left \in Seq(AnyByte) /\ Within(rest.left, Command) \in Seq(AnyByte)
          BY <4>3, WithinType DEF DecodedRight
        <5>3. (<<b>> \o c) \o Within(rest.left, Command) = <<b>> \o (c \o Within(rest.left, Command))
          BY <4>9, <4>10, <5>2, ConcatAssociative, SMTT(30)
        <5> QED
          BY <2>4, <4>8, <5>1, <5>3
      <4>14. /\ rest.left \in Seq(AnyByte) /\ rest.popped \in BOOLEAN
             /\ ~ rest.popped => \E m \in 1..(end + 1) : rest.left = SubSeq(bytes, m, end)
        BY <4>3 DEF DecodedRight
      <4>15. f[n].left = rest.left /\ f[n].commands = <<b>> \o c /\ f[n].popped = rest.popped
        BY <4>11
      <4> HIDE DEF c, from
      <4> QED
        BY <4>11, <4>12, <4>13, <4>14, <4>15 DEF DecodedRight, from, p
    <3> QED
      BY <3>1, <3>2
  <2> QED
    BY <2>5, <2>6
<1> QED
  BY <1>1, <1>2

LEMMA DecodedFacts ==
  ASSUME NEW bytes \in Seq(AnyByte), FinishedSoFar(bytes)
  PROVE  DecodedRight(bytes, Decoded(bytes), Len(bytes))
<1>0. Len(bytes) \in Nat
  OBVIOUS
<1>1. PICK f : /\ \A n \in 0..Len(bytes) : f[n] = ToGo(bytes, f, n)
               /\ Decoded(bytes) = f[Len(bytes)]
  BY <1>0, DecodedSteps
<1> DEFINE T == {k \in Nat : \A n \in 0..k : n <= Len(bytes) => DecodedRight(bytes, f[n], n)}
<1>2. DecodedRight(bytes, f[0], 0)
  <2>1. f[0] = [left |-> <<>>, commands |-> <<>>, popped |-> FALSE]
    <3>1. 0 \in 0..Len(bytes)
      BY <1>0
    <3>2. f[0] = ToGo(bytes, f, 0)
      BY <1>1, <3>1
    <3> QED
      BY <3>2 DEF ToGo
  <2>2. SubSeq(bytes, Len(bytes) - 0 + 1, Len(bytes)) = <<>> /\ Len(bytes) - 0 + 1 \in 1..(Len(bytes) + 1)
    BY <1>0
  <2>3. Within(<<>>, Command) = <<>> /\ <<>> \in Seq(AnyByte) /\ <<>> \o <<>> = <<>>
    BY WithinNothing
  <2>4. f[0].left = <<>> /\ f[0].commands = <<>> /\ f[0].popped = FALSE
    BY <2>1
  <2> QED
    BY <2>1, <2>2, <2>3, <2>4 DEF DecodedRight
<1>3. 0 \in T
  BY <1>2
<1>4. ASSUME NEW k \in Nat, k \in T PROVE k + 1 \in T
  <2> SUFFICES ASSUME NEW n \in 0..(k + 1), n <= Len(bytes) PROVE DecodedRight(bytes, f[n], n)
    OBVIOUS
  <2>1. \A m \in 0..k : m <= Len(bytes) => DecodedRight(bytes, f[m], m)
    BY <1>4
  <2>2. CASE n \in 0..k
    BY <2>1, <2>2
  <2>3. CASE n \notin 0..k
    <3>1. n \in 1..Len(bytes) /\ n \in 0..Len(bytes)
      BY <1>0, <2>3
    <3>2. \A m \in 0..(n - 1) : m \in 0..k /\ m <= Len(bytes)
      BY <1>0
    <3>3. \A m \in 0..(n - 1) : DecodedRight(bytes, f[m], m)
      BY <2>1, <3>2
    <3>4. f[n] = ToGo(bytes, f, n)
      BY <1>1, <3>1
    <3> QED
      BY <3>1, <3>3, <3>4, DecodesOne
  <2> QED
    BY <2>2, <2>3
<1> HIDE DEF T
<1>5. Len(bytes) \in T
  BY <1>0, <1>3, <1>4, NaturalInduction
<1>6. DecodedRight(bytes, f[Len(bytes)], Len(bytes))
  BY <1>0, <1>5 DEF T
<1> QED
  BY <1>1, <1>6

-----------------------------------------------------------------------------
(* What comes in (device_handle.cpp:61-108)                                 *)

LEMMA JoinedBytes ==
  ASSUME NEW x \in Seq(AnyByte), NEW y \in Seq(AnyByte)
  PROVE  /\ x \o y \in Seq(AnyByte)
         /\ Within(x \o y, Command) = Within(x, Command) \o Within(y, Command)
         /\ Within(x, Command) \in Seq(AnyByte)
         /\ x \o <<>> = x
<1>1. x \o y \in Seq(AnyByte) /\ x \o <<>> = x
  BY ConcatProperties, ConcatEmptySeq
<1>2. Within(x \o y, Command) = Within(x, Command) \o Within(y, Command)
  BY WithinBehind
<1>3. Within(x, Command) \in Seq(AnyByte)
  BY WithinType
<1> QED
  BY <1>1, <1>2, <1>3

LEMMA AnyAssociative == \A x, y, z \in Seq(AnyByte) : (x \o y) \o z = x \o (y \o z)
BY Associative

LEMMA AnyGrouped ==
  ASSUME NEW x \in Seq(AnyByte), NEW y \in Seq(AnyByte), NEW z \in Seq(AnyByte)
  PROVE  Grouped(x, y, z)
BY AnyAssociative, Zenon DEF Grouped

Regroups(r, i, k, l, w) == (r \o (i \o k)) \o (l \o w) = (r \o i) \o ((k \o l) \o w)

LEMMA Regrouped ==
  ASSUME NEW r \in Seq(AnyByte), NEW i \in Seq(AnyByte), NEW k \in Seq(AnyByte),
         NEW l \in Seq(AnyByte), NEW w \in Seq(AnyByte)
  PROVE  Regroups(r, i, k, l, w)
<1>1. r \o i \in Seq(AnyByte) /\ l \o w \in Seq(AnyByte)
  BY ConcatProperties
<1>2. r \o (i \o k) = (r \o i) \o k
  <2>1. Grouped(r, i, k)
    BY AnyGrouped
  <2> QED
    BY <2>1 DEF Grouped
<1>3. k \o (l \o w) = (k \o l) \o w
  <2>1. Grouped(k, l, w)
    BY AnyGrouped
  <2> QED
    BY <2>1 DEF Grouped
<1>4. ((r \o i) \o k) \o (l \o w) = (r \o i) \o (k \o (l \o w))
  <2> DEFINE f == r \o i  g == l \o w
  <2>1. f \in Seq(AnyByte) /\ k \in Seq(AnyByte) /\ g \in Seq(AnyByte)
    BY <1>1
  <2> HIDE DEF f, g
  <2>2. Grouped(f, k, g)
    BY <2>1, AnyGrouped
  <2>3. (f \o k) \o g = f \o (k \o g)
    BY <2>2 DEF Grouped
  <2> QED
    BY <2>3 DEF f, g
<1> QED
  BY <1>2, <1>3, <1>4, Zenon DEF Regroups

(* Bytes of which only the first may begin a command.                       *)
LEMMA FirstOnly ==
  ASSUME NEW e \in Seq(AnyByte), Len(e) > 0, \A i \in 2..Len(e) : e[i] \notin Command
  PROVE  Within(e, Command) = IF e[1] \in Command THEN <<e[1]>> ELSE <<>>
<1> DEFINE b == e[1]  t == Tail(e)
<1>1. b \in AnyByte /\ e # <<>> /\ Len(e) \in Nat
  OBVIOUS
<1>2. t \in Seq(AnyByte) /\ Len(t) = Len(e) - 1 /\ \A i \in 1..Len(t) : t[i] = e[i + 1]
  BY <1>1, HeadTailProperties
<1>3. e = <<b>> \o t
  BY <1>1, FirstOff
<1> HIDE DEF b, t
<1>4. \A i \in 1..Len(t) : t[i] \notin Command
  <2>1. \A i \in 1..Len(t) : i + 1 \in 2..Len(e)
    BY <1>1, <1>2
  <2> QED
    BY <1>2, <2>1
<1>5. Within(t, Command) = <<>>
  BY <1>2, <1>4, WithinAllOrNothing
<1> DEFINE x == <<b>>
<1>6. x \in Seq(AnyByte) /\ Len(x) = 1 /\ \A i \in 1..Len(x) : x[i] = b
  BY <1>1
<1> HIDE DEF x
<1>7. Within(x, Command) = IF b \in Command THEN x ELSE <<>>
  <2>1. 1 \in 1..Len(x)
    BY <1>6
  <2> QED
    BY <1>6, <2>1, WithinAllOrNothing
<1> DEFINE w == Within(x, Command)
<1>8. w \in Seq(AnyByte) /\ Within(x \o t, Command) = w \o Within(t, Command)
  BY <1>2, <1>6, JoinedBytes
<1> HIDE DEF w
<1>10. w \o <<>> = w
  BY <1>8, ConcatEmptySeq
<1>9. Within(x \o t, Command) = w
  BY <1>5, <1>8, <1>10
<1> QED
  BY <1>3, <1>7, <1>9 DEF b, x, w

LEMMA EncodeCommands ==
  ASSUME NEW kind \in Kinds, NEW n \in Nat
  PROVE  LET e == Encode(kind, n)
         IN /\ e \in Seq(AnyByte) /\ e[1] \in AnyByte
            /\ Within(e, Command) = IF e[1] \in Command THEN <<e[1]>> ELSE <<>>
<1> DEFINE e == Encode(kind, n)
<1>1. /\ e \in Seq(DeviceByte(kind)) /\ Len(e) \in {3, 4}
      /\ \A i \in 1..Len(e) : e[i] = [kind |-> kind, n |-> n, at |-> i]
      /\ e \in Seq(AnyByte)
  BY EncodeFacts, BytesAreBytes
<1> HIDE DEF e
<1>2. \A i \in 2..Len(e) : e[i] \notin Command
  <2>1. \A i \in 2..Len(e) : i \in 1..Len(e) /\ e[i] \in AnyByte
    BY <1>1
  <2>2. ASSUME NEW i \in 2..Len(e) PROVE e[i].at = i /\ i # 1
    <3>1. e[i] = [kind |-> kind, n |-> n, at |-> i]
      BY <1>1, <2>1
    <3> QED
      BY <3>1
  <2> QED
    BY <2>1, <2>2, NoCommand
<1>3. Len(e) > 0 /\ 1 \in 1..Len(e)
  BY <1>1
<1>4. e[1] \in AnyByte
  BY <1>1, <1>3
<1> QED
  BY <1>1, <1>2, <1>3, <1>4, FirstOnly DEF e

(* One more message of the device.                                          *)
OneMoreOf(all, c, l, e, b, reported) ==
  all \o Within(c \o (l \o e), Command) = Within(Append(reported, b), Command)

LEMMA OneMore ==
  ASSUME NEW all \in Seq(AnyByte), NEW c \in Seq(AnyByte), NEW l \in Seq(AnyByte),
         NEW e \in Seq(AnyByte), NEW b \in AnyByte, NEW reported \in Seq(AnyByte),
         Within(e, Command) = IF b \in Command THEN <<b>> ELSE <<>>,
         all \o Within(c \o l, Command) = Within(reported, Command)
  PROVE  OneMoreOf(all, c, l, e, b, reported)
<1> DEFINE u == c \o l  w == Within(u, Command)  v == Within(e, Command)  z == Within(reported, Command)
<1>0. u \in Seq(AnyByte)
  BY ConcatProperties
<1>1. c \o (l \o e) = u \o e
  <2>1. Grouped(c, l, e)
    BY AnyGrouped
  <2> QED
    BY <2>1 DEF Grouped
<1> HIDE DEF u
<1>2. Within(u \o e, Command) = w \o v /\ w \in Seq(AnyByte)
  BY <1>0, JoinedBytes
<1>3. v \in Seq(AnyByte) /\ z \in Seq(AnyByte)
  BY WithinType
<1>4. Within(Append(reported, b), Command) = IF b \in Command THEN Append(z, b) ELSE z
  BY WithinAppend, ZenonT(60)
<1>5. all \o w = z
  BY DEF u
<1>6. v = IF b \in Command THEN <<b>> ELSE <<>>
  OBVIOUS
<1> HIDE DEF w, v, z
<1>7. z \o v = IF b \in Command THEN Append(z, b) ELSE z
  <2>1. Append(z, b) = z \o <<b>>
    BY <1>3, AppendIsConcat
  <2>2. z \o <<>> = z
    BY <1>3, ConcatEmptySeq
  <2> QED
    BY <1>6, <2>1, <2>2
<1>8. all \o (w \o v) = (all \o w) \o v
  <2>1. all \in Seq(AnyByte) /\ w \in Seq(AnyByte) /\ v \in Seq(AnyByte)
    BY <1>2, <1>3
  <2>2. Grouped(all, w, v)
    BY <2>1, AnyGrouped
  <2> QED
    BY <2>2 DEF Grouped
<1> QED
  BY <1>1, <1>2, <1>4, <1>5, <1>7, <1>8 DEF OneMoreOf

LEMMA FinishedCut ==
  ASSUME NEW s \in Seq(AnyByte), NEW t \in Seq(AnyByte), Finished(s \o t)
  PROVE  FinishedSoFar(s)
<1> DEFINE u == s \o t
<1>1. Joined(s, t, u) /\ Finished(u)
  BY JoinedFacts
<1> HIDE DEF u
<1>2. ASSUME NEW i \in 1..(Len(s) - 1), s[i].kind = "event", s[i].at < 3
      PROVE  s[i + 1] = [s[i] EXCEPT !.at = @ + 1]
  <2>1. i \in 1..Len(s) /\ i + 1 \in 1..Len(s)
    BY <1>1 DEF Joined
  <2>2. u[i] = s[i] /\ u[i + 1] = s[i + 1] /\ i \in 1..Len(u)
    BY <1>1, <2>1 DEF Joined
  <2> QED
    BY <1>1, <1>2, <2>2 DEF Finished
<1> QED
  BY <1>2 DEF FinishedSoFar

(* What a call of the handler reads, and what is left on the line.          *)
ReadParts(a, rest) ==
  LET bytes == input.in_construction \o a
      decoded == Decoded(bytes)
  IN /\ a \in Seq(AnyByte) /\ rest \in Seq(AnyByte) /\ input.line = a \o rest
     /\ bytes \in Seq(AnyByte)
     /\ input' = [line |-> rest, in_construction |-> decoded.left,
                  incomming_queue |-> input.incomming_queue \o decoded.commands]
     /\ failure' = IF decoded.popped THEN "popped" ELSE failure

LEMMA ReadFacts ==
  ASSUME HandleTypeOK, ReadDevice
  PROVE  \E a, rest : ReadParts(a, rest)
<1>1. /\ input.line \in Seq(AnyByte) /\ input.in_construction \in Seq(AnyByte)
      /\ input.incomming_queue \in Seq(AnyByte)
  BY HandleTypeParts DEF InputOfDesk
<1> DEFINE l == input.line  n == Min2(Len(l), ReadSize)
           a == SubSeq(l, 1, n)  rest == SubSeq(l, n + 1, Len(l))
<1>2. n \in 0..Len(l)
  <2>1. Len(l) \in Nat /\ ReadSize \in Nat
    BY <1>1, HandleAssumption
  <2> HIDE DEF l
  <2> QED
    BY <2>1 DEF Min2
<1> DEFINE bytes == input.in_construction \o a
<1>3. /\ input' = [line |-> rest, in_construction |-> Decoded(bytes).left,
                   incomming_queue |-> input.incomming_queue \o Decoded(bytes).commands]
      /\ failure' = IF Decoded(bytes).popped THEN "popped" ELSE failure
  BY DEF ReadDevice
<1> HIDE DEF n
<1>4. a \in Seq(AnyByte) /\ rest \in Seq(AnyByte) /\ l = a \o rest
  <2>1. l \in Seq(AnyByte)
    BY <1>1
  <2> HIDE DEF l
  <2> QED
    BY <1>2, <2>1, SplitAt
<1> HIDE DEF a, rest
<1>5. bytes \in Seq(AnyByte)
  BY <1>1, <1>4, ConcatProperties
<1>6. ReadParts(a, rest)
  BY <1>3, <1>4, <1>5 DEF ReadParts
<1> QED
  BY <1>6

LEMMA ReportInvInit == HandleInit => ReportInv
<1> SUFFICES ASSUME HandleInit PROVE ReportInv
  OBVIOUS
<1>1. /\ input.in_construction = <<>> /\ input.line = <<>> /\ input.incomming_queue = <<>>
      /\ told.received = <<>> /\ told.reported = <<>>
  BY DEF HandleInit
<1>2. <<>> \o <<>> = <<>> /\ Within(<<>>, Command) = <<>> /\ Finished(<<>>)
  BY WithinNothing DEF Finished
<1> QED
  BY <1>1, <1>2 DEF ReportInv

LEMMA ReportStays ==
  ASSUME ReportInv, UNCHANGED input, told'.received = told.received, told'.reported = told.reported,
         failure' # "popped" => failure # "popped"
  PROVE  ReportInv'
BY DEF ReportInv

LEMMA ReadKeepsReports ==
  ASSUME HandleTypeOK, ReportInv, ReadDevice
  PROVE  ReportInv' /\ InputOfDesk' /\ failure' \in {failure, "popped"}
<1>1. PICK a, rest : ReadParts(a, rest)
  BY ReadFacts
<1> DEFINE c == input.in_construction  i == input.incomming_queue  r == told.received
           bytes == c \o a  d == Decoded(bytes)
<1>2. /\ c \in Seq(AnyByte) /\ i \in Seq(AnyByte) /\ r \in Seq(AnyByte) /\ told' = told
      /\ failure = "no"
  BY HandleTypeParts DEF InputOfDesk, ToldOK, ReadDevice
<1>3. /\ a \in Seq(AnyByte) /\ rest \in Seq(AnyByte) /\ input.line = a \o rest /\ bytes \in Seq(AnyByte)
      /\ input' = [line |-> rest, in_construction |-> d.left, incomming_queue |-> i \o d.commands]
      /\ failure' = IF d.popped THEN "popped" ELSE failure
  BY <1>1 DEF ReadParts
<1>4. c \o (a \o rest) = bytes \o rest
  <2> HIDE DEF c, d
  <2> QED
    <3>1. Grouped(c, a, rest)
      BY <1>2, <1>3, AnyGrouped
    <3> QED
      BY <3>1 DEF Grouped, bytes
<1>5. /\ Finished(bytes \o rest)
      /\ (r \o i) \o Within(bytes \o rest, Command) = Within(told.reported, Command)
  <2>1. input.in_construction \o input.line = bytes \o rest
    BY <1>3, <1>4
  <2> HIDE DEF bytes
  <2> QED
    BY <1>2, <2>1 DEF ReportInv
<1> HIDE DEF bytes
<1>6. FinishedSoFar(bytes)
  BY <1>3, <1>5, FinishedCut
<1>7. DecodedRight(bytes, d, Len(bytes))
  BY <1>3, <1>6, DecodedFacts
<1> HIDE DEF d
<1>8. d.left \in Seq(AnyByte) /\ d.commands \in Seq(AnyByte)
  BY <1>7 DEF DecodedRight
<1>9. input'.in_construction = d.left /\ input'.line = rest /\ input'.incomming_queue = i \o d.commands
  BY <1>3
<1>10. InputOfDesk' /\ failure' \in {failure, "popped"}
  <2>1. i \o d.commands \in Seq(AnyByte)
    BY <1>2, <1>8, ConcatProperties
  <2> QED
    BY <1>3, <1>8, <2>1 DEF InputOfDesk
<1>11. ASSUME failure' # "popped"
       PROVE  /\ Finished(d.left \o rest)
              /\ (r \o (i \o d.commands)) \o Within(d.left \o rest, Command) = Within(told.reported, Command)
  <2>0. ~ d.popped
    BY <1>3, <1>11
  <2>1. PICK m \in 1..(Len(bytes) + 1) : d.left = SubSeq(bytes, m, Len(bytes))
    BY <1>7, <2>0 DEF DecodedRight
  <2> DEFINE front == SubSeq(bytes, 1, m - 1)
  <2>2. front \in Seq(AnyByte) /\ bytes = front \o d.left
    <3> DEFINE n == m - 1
    <3>1. n \in 0..Len(bytes) /\ n + 1 = m
      BY <1>3
    <3> HIDE DEF n
    <3>2. SubSeq(bytes, 1, n) \in Seq(AnyByte) /\ bytes = SubSeq(bytes, 1, n) \o SubSeq(bytes, n + 1, Len(bytes))
      BY <1>3, <3>1, SplitAt
    <3> QED
      BY <2>1, <3>1, <3>2 DEF n
  <2> HIDE DEF front
  <2> DEFINE x == d.left \o rest
  <2>3. x \in Seq(AnyByte) /\ bytes \o rest = front \o x
    <3>1. x \in Seq(AnyByte)
      BY <1>3, <1>8, ConcatProperties
    <3> DEFINE left == d.left
    <3>2. left \in Seq(AnyByte) /\ rest \in Seq(AnyByte) /\ front \in Seq(AnyByte)
      BY <1>3, <1>8, <2>2
    <3> HIDE DEF left
    <3>3. (front \o left) \o rest = front \o (left \o rest)
      <4>1. Grouped(front, left, rest)
        BY <3>2, AnyGrouped
      <4> QED
        BY <4>1 DEF Grouped
    <3>4. bytes \o rest = (front \o left) \o rest
      BY <2>2 DEF left
    <3> QED
      BY <3>1, <3>3, <3>4 DEF left
  <2> HIDE DEF x
  <2>4. Finished(x)
    <3>1. Finished(front \o x)
      BY <1>5, <2>3
    <3> QED
      BY <2>2, <2>3, <3>1, FinishedRest
  <2> DEFINE wl == Within(d.left, Command)  wr == Within(rest, Command)
  <2>5. Within(bytes \o rest, Command) = Within(bytes, Command) \o wr
    BY <1>3, JoinedBytes
  <2>6. Within(x, Command) = wl \o wr
    BY <1>3, <1>8, JoinedBytes DEF x
  <2>7. d.commands \o wl = Within(bytes, Command)
    <3>1. Len(bytes) \in Nat /\ Len(bytes) - Len(bytes) + 1 = 1 /\ SubSeq(bytes, 1, Len(bytes)) = bytes
      BY <1>3, SubSeqFull
    <3> QED
      BY <1>7, <2>0, <3>1 DEF DecodedRight
  <2>8. wl \in Seq(AnyByte) /\ wr \in Seq(AnyByte)
    BY <1>3, <1>8, WithinType
  <2> HIDE DEF wl, wr
  <2>9. (r \o (i \o d.commands)) \o (wl \o wr) = (r \o i) \o ((d.commands \o wl) \o wr)
    <3> DEFINE k == d.commands
    <3>1. r \in Seq(AnyByte) /\ i \in Seq(AnyByte) /\ k \in Seq(AnyByte)
      BY <1>2, <1>8
    <3> HIDE DEF r, i, k
    <3>2. (r \o (i \o k)) \o (wl \o wr) = (r \o i) \o ((k \o wl) \o wr)
      <4>1. Regroups(r, i, k, wl, wr)
        BY <2>8, <3>1, Regrouped
      <4> QED
        BY <4>1 DEF Regroups
    <3> QED
      BY <3>2 DEF k
  <2>10. (r \o (i \o d.commands)) \o Within(x, Command) = Within(told.reported, Command)
    BY <1>5, <2>5, <2>6, <2>7, <2>9
  <2> QED
    BY <2>4, <2>10 DEF x
<1>12. ReportInv'
  <2>1. told'.received = r /\ told'.reported = told.reported
    BY <1>2
  <2> HIDE DEF r, i
  <2> QED
    BY <1>9, <1>11, <2>1 DEF ReportInv
<1> QED
  BY <1>10, <1>12

(* The device sends a message: a command, or one of sysex.                  *)
LEMMA ReportKeepsReports ==
  ASSUME HandleTypeOK, ReportInv, NEW kind \in Kinds, Report(kind)
  PROVE  ReportInv' /\ InputOfDesk' /\ ToldOK'
<1> DEFINE n == Len(told.reported) + 1  e == Encode(kind, n)  b == e[1]
           c == input.in_construction  l == input.line  reported == told.reported
           all == told.received \o input.incomming_queue
<1>0. /\ c \in Seq(AnyByte) /\ l \in Seq(AnyByte) /\ reported \in Seq(AnyByte)
      /\ told.received \in Seq(AnyByte) /\ input.incomming_queue \in Seq(AnyByte)
  BY HandleTypeParts DEF InputOfDesk, ToldOK
<1>1. /\ told' = [told EXCEPT !.reported = Append(reported, b)]
      /\ input' = [input EXCEPT !.line = l \o e]
      /\ failure' = failure
  BY DEF Report
<1>2. n \in Nat
  BY <1>0
<1> HIDE DEF n
<1>3. /\ e \in Seq(AnyByte) /\ b \in AnyByte /\ Finished(e)
      /\ Within(e, Command) = IF b \in Command THEN <<b>> ELSE <<>>
  BY <1>2, EncodeCommands, EncodeChained
<1> HIDE DEF e, b
<1>4. /\ input'.in_construction = c /\ input'.line = l \o e
      /\ input'.incomming_queue = input.incomming_queue
      /\ told'.received = told.received /\ told'.reported = Append(reported, b)
  BY <1>1, HandleTypeParts DEF InputOfDesk, ToldOK
<1>5. ASSUME failure # "popped"
      PROVE  /\ Finished(c \o (l \o e))
             /\ all \o Within(c \o (l \o e), Command) = Within(Append(reported, b), Command)
  <2>1. Finished(c \o l) /\ all \o Within(c \o l, Command) = Within(reported, Command)
    BY <1>5 DEF ReportInv
  <2>2. all \in Seq(AnyByte)
    BY <1>0, JoinedBytes
  <2> HIDE DEF all, c, l, reported
  <2>3. all \o Within(c \o (l \o e), Command) = Within(Append(reported, b), Command)
    <3>1. c \in Seq(AnyByte) /\ l \in Seq(AnyByte) /\ reported \in Seq(AnyByte)
      BY <1>0 DEF c, l, reported
    <3> QED
      <4>1. all \o Within(c \o l, Command) = Within(reported, Command)
        BY <2>1
      <4>2. e \in Seq(AnyByte) /\ b \in AnyByte /\ Within(e, Command) = IF b \in Command THEN <<b>> ELSE <<>>
        BY <1>3
      <4>3. OneMoreOf(all, c, l, e, b, reported)
        BY <4>1, <4>2, <2>2, <3>1, OneMore
      <4> QED
        BY <4>3 DEF OneMoreOf
  <2> DEFINE u == c \o l
  <2>4. u \in Seq(AnyByte) /\ c \o (l \o e) = u \o e
    <3>1. c \in Seq(AnyByte) /\ l \in Seq(AnyByte) /\ e \in Seq(AnyByte)
      BY <1>0, <1>3 DEF c, l
    <3>2. c \o (l \o e) = (c \o l) \o e
      <4>1. Grouped(c, l, e)
        BY <3>1, AnyGrouped
      <4> QED
        BY <4>1 DEF Grouped
    <3>3. c \o l \in Seq(AnyByte)
      BY <3>1, ConcatProperties
    <3> QED
      BY <3>2, <3>3
  <2>5. Finished(u)
    BY <2>1
  <2> HIDE DEF u
  <2>6. Finished(u \o e)
    BY <1>3, <2>4, <2>5, FinishedBehind
  <2> QED
    BY <2>3, <2>4, <2>6
<1>6. ReportInv'
  <2> HIDE DEF c, l, reported
  <2> QED
    BY <1>1, <1>4, <1>5 DEF ReportInv
<1>7. InputOfDesk' /\ ToldOK'
  <2>1. Append(reported, b) \in Seq(AnyByte) /\ l \o e \in Seq(AnyByte)
    <3> HIDE DEF l, reported
    <3> QED
      BY <1>0, <1>3, AppendProperties, JoinedBytes
  <2> QED
    BY <1>1, <2>1, HandleTypeParts DEF InputOfDesk, ToldOK
<1> QED
  BY <1>6, <1>7

(* The desk takes a command (device_handle.hpp:44-51).                      *)
LEMMA NextKeepsReports ==
  ASSUME HandleTypeOK, ReportInv, NextCommand
  PROVE  ReportInv' /\ InputOfDesk' /\ ToldOK'
<1> DEFINE q == input.incomming_queue  r == told.received
<1>0. q \in Seq(AnyByte) /\ r \in Seq(AnyByte) /\ q # <<>>
  BY HandleTypeParts DEF InputOfDesk, ToldOK, NextCommand
<1>1. /\ told' = [told EXCEPT !.received = Append(r, Head(q))]
      /\ input' = [input EXCEPT !.incomming_queue = Tail(q)]
      /\ failure' = failure
  BY DEF NextCommand
<1>2. /\ input'.in_construction = input.in_construction /\ input'.line = input.line
      /\ input'.incomming_queue = Tail(q)
      /\ told'.received = Append(r, Head(q)) /\ told'.reported = told.reported
  BY <1>1, HandleTypeParts DEF InputOfDesk, ToldOK
<1> DEFINE h == Head(q)  t == Tail(q)
<1>3. h \in AnyByte /\ t \in Seq(AnyByte) /\ q = <<h>> \o t
  <2> HIDE DEF q
  <2>1. Head(q) \in AnyByte
    BY <1>0, HeadTailProperties
  <2>2. q = <<q[1]>> \o Tail(q) /\ Head(q) = q[1] /\ Tail(q) \in Seq(AnyByte)
    BY <1>0, FirstOff
  <2> QED
    BY <2>1, <2>2
<1>4. Append(r, h) \in Seq(AnyByte) /\ Append(r, h) \o t = r \o q
  <2> HIDE DEF r, h, t
  <2>1. Append(r, h) = r \o <<h>> /\ <<h>> \in Seq(AnyByte) /\ Append(r, h) \in Seq(AnyByte)
    BY <1>0, <1>3, AppendIsConcat, AppendProperties
  <2>2. (r \o <<h>>) \o t = r \o (<<h>> \o t)
    BY <1>0, <1>3, <2>1, ConcatAssociative
  <2> QED
    BY <1>3, <2>1, <2>2
<1>5. ReportInv'
  <2> HIDE DEF r, q
  <2> QED
    BY <1>1, <1>2, <1>4 DEF ReportInv, r, q
<1>6. InputOfDesk' /\ ToldOK'
  BY <1>1, <1>3, <1>4, HandleTypeParts DEF InputOfDesk, ToldOK
<1> QED
  BY <1>5, <1>6

-----------------------------------------------------------------------------
(* The steps of the event loop, the desk and the device keep the types.     *)

LEMMA LoopKeepsTypes ==
  ASSUME HandleTypeOK,
         AsyncSchedule \/ WriteReady \/ (\E k \in Kinds : WriteEnds(k)) \/ Fail \/ Drain
  PROVE  HandleTypeOK'
<1>0. BuffersOK /\ QueuesOK /\ PlacesOK /\ LoopOK /\ InputOfDesk /\ ToldOK
  BY HandleTypeParts
<1>1. /\ UNCHANGED <<construction, scheduling, input, told>> /\ UNCHANGED queues
      /\ failure' \in {failure, "error"} /\ driver' \in Nat
  BY <1>0 DEF AsyncSchedule, WriteReady, WriteEnds, Fail, Drain, LoopOK
<1>2. io' \in [pc : {"idle", "event", "sysex"}, flags : SUBSET {"READ", "WRITE"}, async : BOOLEAN]
  <2>1. io \in [pc : {"idle", "event", "sysex"}, flags : SUBSET {"READ", "WRITE"}, async : BOOLEAN]
    BY <1>0 DEF LoopOK
  <2>2. CASE AsyncSchedule
    BY <2>1, <2>2, FlagsType DEF AsyncSchedule
  <2>3. CASE WriteReady
    BY <2>1, <2>3 DEF WriteReady
  <2>4. ASSUME NEW k \in Kinds, WriteEnds(k)
        PROVE  io' \in [pc : {"idle", "event", "sysex"}, flags : SUBSET {"READ", "WRITE"}, async : BOOLEAN]
    <3>1. io' = [io EXCEPT !.pc = "sysex"] \/ io' = [io EXCEPT !.pc = "idle", !.flags = Flags(queues)]
      BY <2>4 DEF WriteEnds
    <3> QED
      BY <2>1, <3>1, FlagsType
  <2>5. CASE Fail
    BY <2>1, <2>5 DEF Fail
  <2>6. CASE Drain
    BY <2>1, <2>6 DEF Drain
  <2> QED
    BY <2>2, <2>3, <2>4, <2>5, <2>6
<1>3. LoopOK'
  BY <1>0, <1>1, <1>2 DEF LoopOK
<1> QED
  BY <1>0, <1>1, <1>3, HandleTypeParts, PartsStay

LEMMA WriteKeepsTypes ==
  ASSUME HandleTypeOK, NEW kind \in Kinds, Write(kind)
  PROVE  HandleTypeOK'
<1>0. BuffersOK /\ QueuesOK /\ PlacesOK /\ LoopOK /\ InputOfDesk /\ ToldOK
  BY HandleTypeParts
<1>1. PICK a, rest : WrittenFrom(kind, a, rest)
  BY WriteFacts
<1> DEFINE q == queues[kind]  R == Seq(DeviceByte(kind)) \ {<<>>}
           left == IF rest = <<>> THEN Tail(q) ELSE <<rest>> \o Tail(q)
<1>2. /\ a \in Seq(DeviceByte(kind)) /\ rest \in Seq(DeviceByte(kind)) /\ Tail(q) \in Seq(R)
      /\ queues' = [queues EXCEPT ![kind] = left]
      /\ told' = [told EXCEPT !.written = told.written \o a]
      /\ driver' \in Nat /\ UNCHANGED <<construction, scheduling, io, input, failure>>
  BY <1>1 DEF WrittenFrom
<1>3. left \in Seq(R)
  <2> DEFINE t == Tail(q)
  <2>1. t \in Seq(R) /\ (rest # <<>> => rest \in R)
    BY <1>2
  <2> HIDE DEF t, R
  <2>2. rest # <<>> => <<rest>> \in Seq(R)
    BY <2>1
  <2>3. rest # <<>> => <<rest>> \o t \in Seq(R)
    BY <2>1, <2>2, ConcatProperties
  <2> QED
    BY <2>1, <2>3 DEF t
<1> HIDE DEF left
<1>4. QueuesOK'
  BY <1>0, <1>2, <1>3 DEF QueuesOK
<1>5. ToldOK'
  <2>1. a \in Seq(AnyByte) /\ told.written \in Seq(AnyByte)
    BY <1>0, <1>2, BytesAreBytes DEF ToldOK
  <2>2. told.written \o a \in Seq(AnyByte)
    BY <2>1, ConcatProperties
  <2> QED
    BY <1>0, <1>2, <2>2 DEF ToldOK
<1>6. LoopOK'
  BY <1>0, <1>2 DEF LoopOK
<1> QED
  BY <1>0, <1>2, <1>4, <1>5, <1>6, HandleTypeParts, PartsStay

LEMMA InputKeepsTypes ==
  ASSUME HandleTypeOK, ReportInv, ReadDevice \/ NextCommand \/ (\E k \in Kinds : Report(k))
  PROVE  HandleTypeOK'
<1>0. BuffersOK /\ QueuesOK /\ PlacesOK /\ LoopOK /\ InputOfDesk /\ ToldOK
  BY HandleTypeParts
<1>1. CASE ReadDevice
  <2>1. InputOfDesk' /\ failure' \in {failure, "popped"}
    BY <1>1, ReadKeepsReports
  <2>2. io' = [io EXCEPT !.pc = "event"] \/ io' = [io EXCEPT !.flags = Flags(queues)]
    BY <1>1 DEF ReadDevice
  <2>3. LoopOK'
    <3>1. driver' = driver
      BY <1>1 DEF ReadDevice
    <3>2. io' \in [pc : {"idle", "event", "sysex"}, flags : SUBSET {"READ", "WRITE"}, async : BOOLEAN]
      BY <1>0, <2>2, FlagsType DEF LoopOK
    <3> QED
      BY <1>0, <2>1, <3>1, <3>2 DEF LoopOK
  <2> QED
    BY <1>0, <1>1, <2>1, <2>3, HandleTypeParts, PartsStay DEF ReadDevice
<1>2. CASE NextCommand
  <2>1. InputOfDesk' /\ ToldOK'
    BY <1>2, NextKeepsReports
  <2> QED
    BY <1>0, <1>2, <2>1, HandleTypeParts, PartsStay DEF NextCommand
<1>3. ASSUME NEW k \in Kinds, Report(k) PROVE HandleTypeOK'
  <2>1. InputOfDesk' /\ ToldOK'
    BY <1>3, ReportKeepsReports
  <2> QED
    BY <1>0, <1>3, <2>1, HandleTypeParts, PartsStay DEF Report
<1> QED
  BY <1>1, <1>2, <1>3

(* The steps of a handle, as the invariant takes them.                      *)
OfThread(t) ==
  \/ \E k \in Kinds : SendCommand(t, k) \/ CopyBuffer(t, k) \/ ClearBuffer(t, k)
  \/ Schedule(t) \/ Wake(t)

LEMMA HandleSteps ==
  HandleNext <=>
    \/ \E t \in DeskThreads : OfThread(t)
    \/ AsyncSchedule \/ WriteReady \/ (\E k \in Kinds : WriteEnds(k)) \/ Fail \/ Drain
    \/ \E k \in Kinds : Write(k)
    \/ ReadDevice \/ NextCommand \/ \E k \in Kinds : Report(k)
BY Zenon DEF HandleNext, Buffers, EventLoop, OfThread

LEMMA HandleTypeStep ==
  ASSUME HandleTypeOK, ReportInv, [HandleNext]_handleVars
  PROVE  HandleTypeOK'
<1>1. ASSUME NEW t \in DeskThreads, OfThread(t) PROVE HandleTypeOK'
  BY <1>1, BuffersKeepTypes DEF OfThread
<1>2. CASE AsyncSchedule \/ WriteReady \/ (\E k \in Kinds : WriteEnds(k)) \/ Fail \/ Drain
  BY <1>2, LoopKeepsTypes
<1>3. ASSUME NEW k \in Kinds, Write(k) PROVE HandleTypeOK'
  BY <1>3, WriteKeepsTypes
<1>4. CASE ReadDevice \/ NextCommand \/ \E k \in Kinds : Report(k)
  BY <1>4, InputKeepsTypes
<1>5. CASE UNCHANGED handleVars
  BY <1>5, HandleTypeParts, PartsStay DEF handleVars
<1> QED
  BY <1>1, <1>2, <1>3, <1>4, <1>5, HandleSteps

LEMMA ReportInvStep ==
  ASSUME HandleTypeOK, ReportInv, [HandleNext]_handleVars
  PROVE  ReportInv'
<1>1. CASE ReadDevice \/ NextCommand \/ \E k \in Kinds : Report(k)
  BY <1>1, ReadKeepsReports, NextKeepsReports, ReportKeepsReports
<1>2. ASSUME UNCHANGED input, told'.received = told.received, told'.reported = told.reported,
             failure' # "popped" => failure # "popped"
      PROVE  ReportInv'
  BY <1>2, ReportStays
<1>0. ToldOK
  BY HandleTypeParts
<1>3. ASSUME NEW t \in DeskThreads, OfThread(t)
      PROVE  ReportInv'
  <2>1. /\ UNCHANGED <<input, failure>>
        /\ told' = told \/ told' = [told EXCEPT !.overlap = Overlapping(t)]
           \/ \E k \in Kinds : told' = [told EXCEPT !.sent[k] = @ + 1, !.overlap = Overlapping(t)]
    BY <1>3 DEF OfThread, SendCommand, CopyBuffer, ClearBuffer, Schedule, Wake
  <2>2. told'.received = told.received /\ told'.reported = told.reported
    BY <1>0, <2>1 DEF ToldOK
  <2> QED
    BY <1>2, <2>1, <2>2
<1>4. CASE AsyncSchedule \/ WriteReady \/ (\E k \in Kinds : WriteEnds(k)) \/ Fail \/ Drain
  <2>1. UNCHANGED <<input, told>> /\ (failure' = failure \/ (failure' = "error" /\ failure = "no"))
    BY <1>4 DEF AsyncSchedule, WriteReady, WriteEnds, Fail, Drain
  <2> QED
    BY <1>2, <2>1
<1>5. ASSUME NEW k \in Kinds, Write(k)
      PROVE  ReportInv'
  <2>1. PICK a, rest : WrittenFrom(k, a, rest)
    BY <1>5, WriteFacts
  <2>2. UNCHANGED <<input, failure>> /\ told' = [told EXCEPT !.written = told.written \o a]
    BY <2>1 DEF WrittenFrom
  <2>3. told'.received = told.received /\ told'.reported = told.reported
    BY <1>0, <2>2 DEF ToldOK
  <2> QED
    BY <1>2, <2>2, <2>3
<1>6. CASE UNCHANGED handleVars
  BY <1>2, <1>6 DEF handleVars
<1> QED
  BY <1>1, <1>3, <1>4, <1>5, <1>6, HandleSteps

-----------------------------------------------------------------------------
(* A command stays in one piece (device_handle.cpp:32-59, 109-136).         *)

EventRecord == Seq(DeviceByte("event")) \ {<<>>}

LEMMA EventRecords == EventRecord \subseteq Seq(AnyByte) /\ <<>> \notin EventRecord
BY BytesAreBytes DEF EventRecord, Kinds

LEMMA WholeQueued ==
  ASSUME NEW w \in Seq(AnyByte), NEW c \in EventRecord, NEW q \in Seq(EventRecord), NEW pc,
         Whole(w, c, q, pc)
  PROVE  Whole(w, c, Append(q, c), pc)
<1> DEFINE r == Append(q, c)
<1>1. /\ Len(q) \in Nat /\ Len(r) = Len(q) + 1 /\ r[Len(q) + 1] = c
      /\ \A j \in 1..Len(q) : r[j] = q[j]
      /\ q # <<>> => Len(q) # 0
  OBVIOUS
<1>2. Chained(w) /\ Chained(c) /\ c \in Seq(AnyByte)
  BY EventRecords DEF Whole
<1>3. Chained(w \o c)
  BY <1>2, ChainedBehind
<1>4. r[1] = IF q = <<>> THEN c ELSE q[1]
  <2>1. CASE q = <<>>
    <3>1. Len(q) = 0
      BY <2>1
    <3> QED
      BY <1>1, <2>1, <3>1
  <2>2. CASE q # <<>>
    <3>1. 1 \in 1..Len(q)
      BY <1>1, <2>2
    <3> QED
      BY <1>1, <2>2, <3>1
  <2> QED
    BY <2>1, <2>2
<1> HIDE DEF r
<1>5. ASSUME NEW j \in 2..Len(r) PROVE Chained(r[j])
  <2>1. j = Len(q) + 1 \/ (j \in 2..Len(q) /\ j \in 1..Len(q))
    BY <1>1
  <2> QED
    BY <1>1, <1>2, <2>1 DEF Whole
<1>6. Chained(w \o r[1])
  BY <1>3, <1>4 DEF Whole
<1>7. pc = "sysex" => Chained(r[1])
  BY <1>2, <1>4 DEF Whole
<1>8. Whole(w, c, r, pc)
  BY <1>2, <1>5, <1>6, <1>7 DEF Whole
<1> QED
  BY <1>8 DEF r

(* The beginning of the first record is written.                            *)
LEMMA WholeWritten ==
  ASSUME NEW w \in Seq(AnyByte), NEW c, NEW q \in Seq(EventRecord), q # <<>>, Whole(w, c, q, "event"),
         NEW a \in Seq(AnyByte), NEW rest \in Seq(AnyByte), q[1] = a \o rest,
         NEW t \in Seq(EventRecord), Len(q) \in Nat \ {0}, Len(t) = Len(q) - 1,
         \A j \in 1..Len(t) : t[j] = q[j + 1]
  PROVE  Whole(w \o a, c, IF rest = <<>> THEN t ELSE <<rest>> \o t, "event")
<1> DEFINE v == w \o a
<1>1. Chained(w \o (a \o rest)) /\ Chained(c)
  BY DEF Whole
<1>2. v \in Seq(AnyByte)
  BY ConcatProperties
<1>3. w \o (a \o rest) = v \o rest
  <2>1. Grouped(w, a, rest)
    BY AnyGrouped
  <2> QED
    BY <2>1 DEF Grouped
<1> HIDE DEF v
<1>4. Chained(v \o rest) /\ Chained(v)
  BY <1>1, <1>2, <1>3, ChainedFront
<1>5. ASSUME NEW j \in 1..Len(t) PROVE Chained(t[j]) /\ t[j] \in Seq(AnyByte)
  <2>1. j + 1 \in 2..Len(q) /\ t[j] = q[j + 1] /\ t[j] \in EventRecord
    OBVIOUS
  <2> QED
    BY <2>1, EventRecords DEF Whole
<1>6. CASE rest = <<>>
  <2>1. t # <<>> => 1 \in 1..Len(t)
    OBVIOUS
  <2>2. t # <<>> => Chained(v \o t[1])
    BY <1>2, <1>4, <1>5, <2>1, ChainedBehind
  <2>3. \A j \in 2..Len(t) : j \in 1..Len(t)
    OBVIOUS
  <2>4. Whole(v, c, t, "event")
    BY <1>1, <1>4, <1>5, <2>2, <2>3 DEF Whole
  <2> QED
    BY <1>6, <2>4 DEF v
<1>7. CASE rest # <<>>
  <2> DEFINE S == {rest} \union EventRecord
             x == <<rest>>  r == x \o t
  <2>0. x \in Seq(S) /\ t \in Seq(S) /\ Len(x) = 1 /\ x[1] = rest
    <3>1. t \in [1..Len(t) -> S] /\ Len(t) \in Nat
      OBVIOUS
    <3> QED
      BY <3>1
  <2> HIDE DEF S, x
  <2>1. Joined(x, t, r)
    BY <2>0, JoinedFacts
  <2> HIDE DEF r
  <2>2. r[1] = rest
    <3>1. 1 \in 1..Len(x)
      BY <2>0
    <3> QED
      BY <2>0, <2>1, <3>1 DEF Joined
  <2>3. ASSUME NEW j \in 2..Len(r) PROVE Chained(r[j])
    <3>1. j \in 1..Len(r) /\ j \notin 1..Len(x)
      BY <2>0
    <3>2. j - Len(x) \in 1..Len(t) /\ r[j] = t[j - Len(x)]
      BY <2>1, <3>1 DEF Joined
    <3> QED
      BY <1>5, <3>2
  <2>4. Whole(v, c, r, "event")
    BY <1>1, <1>4, <2>2, <2>3 DEF Whole
  <2> QED
    BY <1>7, <2>4 DEF v, r, x
<1> QED
  BY <1>6, <1>7

LEMMA WholeTypes ==
  ASSUME HandleTypeOK
  PROVE  /\ told.written \in Seq(AnyByte) /\ construction["event"] \in Seq(DeviceByte("event"))
         /\ construction["event"] \in Seq(AnyByte)
         /\ queues["event"] \in Seq(EventRecord)
<1>1. /\ told.written \in Seq(AnyByte) /\ construction["event"] \in Seq(DeviceByte("event"))
      /\ queues["event"] \in Seq(EventRecord)
  BY HandleTypeParts DEF ToldOK, BuffersOK, QueuesOK, EventRecord, Kinds
<1>2. construction["event"] \in Seq(AnyByte)
  BY <1>1, BytesAreBytes DEF Kinds
<1> QED
  BY <1>1, <1>2

LEMMA WholeInvInit == HandleInit => WholeInv
<1> SUFFICES ASSUME HandleInit PROVE WholeInv
  OBVIOUS
<1>1. told.written = <<>> /\ construction["event"] = <<>> /\ queues["event"] = <<>>
  BY DEF HandleInit, Kinds
<1>2. Len(<<>>) = 0 /\ Chained(<<>>)
  BY DEF Chained
<1>3. \A j \in 2..Len(<<>>) : FALSE
  BY <1>2
<1> QED
  BY <1>1, <1>2, <1>3 DEF WholeInv, Whole

(* Composing and scheduling.                                                *)
LEMMA ThreadsKeepWhole ==
  ASSUME HandleTypeOK, WholeInv, NEW t \in DeskThreads, OfThread(t)
  PROVE  WholeInv'
<1> DEFINE w == told.written  c == construction["event"]  q == queues["event"]
<1>0. /\ w \in Seq(AnyByte) /\ c \in Seq(DeviceByte("event")) /\ c \in Seq(AnyByte)
      /\ q \in Seq(EventRecord) /\ Whole(w, c, q, io.pc) /\ "event" \in Kinds
  BY WholeTypes DEF WholeInv, Kinds
<1>t. /\ construction = [k \in Kinds |-> construction[k]] /\ queues = [k \in Kinds |-> queues[k]]
      /\ ToldOK
  BY HandleTypeParts DEF BuffersOK, QueuesOK
<1>c. Whole(w, <<>>, q, io.pc)
  <2>1. Chained(<<>>)
    BY DEF Chained
  <2> QED
    BY <1>0, <2>1 DEF Whole
<1>1. ASSUME NEW k \in Kinds, SendCommand(t, k) PROVE WholeInv'
  <2> DEFINE n == told.sent[k] + 1
  <2>1. /\ construction' = [construction EXCEPT ![k] = construction[k] \o Encode(k, n)]
        /\ told' = [told EXCEPT !.sent[k] = @ + 1, !.overlap = Overlapping(t)]
        /\ UNCHANGED <<queues, io>>
    BY <1>1 DEF SendCommand
  <2>2. n \in Nat
    BY <1>t DEF ToldOK
  <2> HIDE DEF n
  <2>3. told'.written = w
    BY <1>t, <2>1 DEF ToldOK
  <2>4. CASE k = "event"
    <3> DEFINE e == Encode("event", n)
    <3>1. e \in Seq(AnyByte) /\ Chained(e)
      BY <1>0, <2>2, EncodeCommands, EncodeChained
    <3> HIDE DEF e
    <3>2. Chained(c \o e)
      <4> HIDE DEF c
      <4> QED
        BY <1>0, <3>1, ChainedBehind DEF Whole
    <3>3. construction'["event"] = c \o e
      BY <1>0, <1>t, <2>1, <2>4 DEF e
    <3>4. Whole(w, c \o e, q, io.pc)
      BY <1>0, <3>2 DEF Whole
    <3> QED
      BY <2>1, <2>3, <3>3, <3>4 DEF WholeInv
  <2>5. CASE k # "event"
    <3>1. construction'["event"] = c
      BY <1>t, <2>1, <2>5
    <3> QED
      BY <1>0, <2>1, <2>3, <3>1 DEF WholeInv
  <2> QED
    BY <2>4, <2>5
<1>2. ASSUME NEW k \in Kinds, CopyBuffer(t, k) PROVE WholeInv'
  <2>1. UNCHANGED <<construction, told, io>>
    BY <1>2 DEF CopyBuffer
  <2>2. CASE k = "event" /\ c # <<>>
    <3>1. c \in EventRecord
      BY <1>0, <2>2 DEF EventRecord
    <3>2. queues'["event"] = Append(q, c)
      BY <1>0, <1>2, <1>t, <2>2 DEF CopyBuffer
    <3> DEFINE pc == io.pc
    <3>3. Whole(w, c, q, pc)
      BY <1>0
    <3> HIDE DEF w, c, q, pc
    <3>4. Whole(w, c, Append(q, c), pc)
      BY <1>0, <3>1, <3>3, WholeQueued
    <3> QED
      BY <2>1, <3>2, <3>4 DEF WholeInv, w, c, pc
  <2>3. CASE ~(k = "event" /\ c # <<>>)
    <3>1. queues'["event"] = q
      BY <1>0, <1>2, <1>t, <2>3 DEF CopyBuffer
    <3> QED
      BY <1>0, <2>1, <3>1 DEF WholeInv
  <2> QED
    BY <2>2, <2>3
<1>3. ASSUME NEW k \in Kinds, ClearBuffer(t, k) PROVE WholeInv'
  <2>1. UNCHANGED <<queues, told, io>> /\ construction'["event"] \in {c, <<>>}
    BY <1>0, <1>3, <1>t DEF ClearBuffer
  <2> QED
    BY <1>0, <1>c, <2>1 DEF WholeInv
<1>4. CASE Schedule(t)
  <2>1. UNCHANGED <<queues, io>> /\ construction'["event"] \in {c, <<>>}
    BY <1>0, <1>4, <1>t DEF Schedule
  <2>2. told' = told \/ told' = [told EXCEPT !.overlap = Overlapping(t)]
    BY <1>4 DEF Schedule
  <2>3. told'.written = w
    BY <1>t, <2>2 DEF ToldOK
  <2> QED
    BY <1>0, <1>c, <2>1, <2>3 DEF WholeInv
<1>5. CASE Wake(t)
  <2>1. UNCHANGED <<queues, construction, told>> /\ io' = [io EXCEPT !.async = TRUE]
    BY <1>5 DEF Wake
  <2>2. io'.pc = io.pc
    BY <2>1, HandleTypeParts DEF LoopOK
  <2> QED
    BY <1>0, <2>1, <2>2 DEF WholeInv
<1> QED
  BY <1>1, <1>2, <1>3, <1>4, <1>5 DEF OfThread

(* The event loop writes; a command that is cut goes on before it turns to  *)
(* the sysex messages.                                                      *)
LEMMA WritesKeepWhole ==
  ASSUME HandleTypeOK, WholeInv, NEW k \in Kinds, Write(k)
  PROVE  WholeInv'
<1> DEFINE w == told.written  c == construction["event"]  q == queues["event"]
<1>0. /\ w \in Seq(AnyByte) /\ c \in Seq(AnyByte)
      /\ q \in Seq(EventRecord) /\ Whole(w, c, q, io.pc) /\ "event" \in Kinds
  BY WholeTypes DEF WholeInv, Kinds
<1>t. queues = [i \in Kinds |-> queues[i]] /\ ToldOK
  BY HandleTypeParts DEF QueuesOK
<1>1. PICK a, rest : WrittenFrom(k, a, rest)
  BY WriteFacts
<1> DEFINE t == Tail(queues[k])
<1>2. /\ a \in Seq(DeviceByte(k)) /\ rest \in Seq(DeviceByte(k)) /\ queues[k][1] = a \o rest
      /\ t \in Seq(Seq(DeviceByte(k)) \ {<<>>})
      /\ Len(queues[k]) \in Nat \ {0} /\ Len(t) = Len(queues[k]) - 1
      /\ \A j \in 1..Len(t) : t[j] = queues[k][j + 1]
      /\ queues' = [queues EXCEPT ![k] = IF rest = <<>> THEN t ELSE <<rest>> \o t]
      /\ told' = [told EXCEPT !.written = told.written \o a]
      /\ io.pc = k /\ UNCHANGED <<construction, io>>
  BY <1>1 DEF WrittenFrom
<1>3. a \in Seq(AnyByte) /\ rest \in Seq(AnyByte)
  BY <1>2, BytesAreBytes
<1>4. told'.written = w \o a
  BY <1>2, <1>t DEF ToldOK
<1>5. CASE k = "event"
  <2>1. /\ q[1] = a \o rest /\ t \in Seq(EventRecord)
        /\ Len(q) \in Nat \ {0} /\ Len(t) = Len(q) - 1
        /\ \A j \in 1..Len(t) : t[j] = q[j + 1]
        /\ Whole(w, c, q, "event")
    BY <1>0, <1>2, <1>5 DEF EventRecord
  <2>2. queues'["event"] = IF rest = <<>> THEN t ELSE <<rest>> \o t
    BY <1>0, <1>2, <1>t, <1>5
  <2>3. q # <<>>
    BY <2>1
  <2> HIDE DEF w, c, q, t
  <2>4. Whole(w \o a, c, IF rest = <<>> THEN t ELSE <<rest>> \o t, "event")
    BY <1>0, <1>3, <2>1, <2>3, WholeWritten
  <2>5. io'.pc = "event" /\ construction'["event"] = c
    BY <1>2, <1>5 DEF c
  <2> QED
    BY <1>4, <2>2, <2>4, <2>5 DEF WholeInv
<1>6. CASE k = "sysex"
  <2>1. queues'["event"] = q
    BY <1>2, <1>t, <1>6
  <2>2. Chained(a)
    BY <1>2, <1>6, SysexChained
  <2>3. Chained(w) /\ Chained(w \o a)
    <3> HIDE DEF w
    <3> QED
      BY <1>0, <1>3, <2>2, ChainedBehind DEF Whole
  <2>4. q # <<>> => Chained(q[1]) /\ q[1] \in Seq(AnyByte)
    <3>1. q # <<>> => q[1] \in EventRecord
      BY <1>0
    <3> QED
      BY <1>0, <1>2, <1>6, <3>1, EventRecords DEF Whole
  <2> DEFINE v == w \o a
  <2>5. v \in Seq(AnyByte)
    BY <1>0, <1>3, ConcatProperties
  <2>6. q # <<>> => Chained(v \o q[1])
    <3> HIDE DEF v, q
    <3> QED
      BY <2>3, <2>4, <2>5, ChainedBehind DEF v
  <2>7. Whole(v, c, q, io.pc)
    <3> HIDE DEF v
    <3> QED
      BY <1>0, <2>3, <2>6 DEF Whole, v
  <2> QED
    BY <1>2, <1>4, <2>1, <2>7 DEF WholeInv
<1> QED
  BY <1>5, <1>6 DEF Kinds

LEMMA WholeInvStep ==
  ASSUME HandleTypeOK, WholeInv, [HandleNext]_handleVars
  PROVE  WholeInv'
<1>1. ASSUME UNCHANGED <<told, construction, queues>>,
             io'.pc = io.pc \/ io'.pc # "sysex" \/ queues["event"] = <<>>
      PROVE  WholeInv'
  BY <1>1 DEF WholeInv, Whole
<1>0. io \in [pc : {"idle", "event", "sysex"}, flags : SUBSET {"READ", "WRITE"}, async : BOOLEAN]
  BY HandleTypeParts DEF LoopOK
<1>2. ASSUME NEW t \in DeskThreads, OfThread(t) PROVE WholeInv'
  BY <1>2, ThreadsKeepWhole
<1>3. ASSUME NEW k \in Kinds, Write(k) PROVE WholeInv'
  BY <1>3, WritesKeepWhole
<1>4. CASE AsyncSchedule \/ WriteReady \/ Fail \/ Drain \/ ReadDevice
  <2>1. UNCHANGED <<told, construction, queues>>
    BY <1>4 DEF AsyncSchedule, WriteReady, Fail, Drain, ReadDevice
  <2>2. io'.pc = io.pc \/ io'.pc # "sysex"
    BY <1>0, <1>4 DEF AsyncSchedule, WriteReady, Fail, Drain, ReadDevice
  <2> QED
    BY <1>1, <2>1, <2>2
<1>5. ASSUME NEW k \in Kinds, WriteEnds(k) PROVE WholeInv'
  <2>1. UNCHANGED <<told, construction, queues>>
    BY <1>5 DEF WriteEnds
  <2>2. io'.pc # "sysex" \/ queues["event"] = <<>>
    BY <1>0, <1>5 DEF WriteEnds
  <2> QED
    BY <1>1, <2>1, <2>2
<1>6. ASSUME told'.written = told.written, UNCHANGED <<construction, queues, io>> PROVE WholeInv'
  BY <1>6 DEF WholeInv
<1>7. CASE NextCommand \/ \E k \in Kinds : Report(k)
  <2>1. UNCHANGED <<construction, queues, io>>
    BY <1>7 DEF NextCommand, Report
  <2>2. ToldOK
    BY HandleTypeParts
  <2>3. told'.written = told.written
    BY <1>7, <2>2 DEF NextCommand, Report, ToldOK
  <2> QED
    BY <1>6, <2>1, <2>3
<1>8. CASE UNCHANGED handleVars
  BY <1>6, <1>8 DEF handleVars
<1> QED
  BY <1>2, <1>3, <1>4, <1>5, <1>7, <1>8, HandleSteps

LEMMA WholeInvSound == HandleTypeOK /\ WholeInv => CommandsWhole
<1> SUFFICES ASSUME HandleTypeOK, WholeInv PROVE CommandsWhole
  OBVIOUS
<1>1. told.written \in Seq(AnyByte)
  BY WholeTypes
<1>2. DOMAIN told.written = 1..Len(told.written)
  BY <1>1
<1> QED
  BY <1>2 DEF WholeInv, Whole, Chained, CommandsWhole

-----------------------------------------------------------------------------
(* Nothing is lost (device_handle.cpp:32-59, 109-136)                       *)

LEMMA UpToMore ==
  ASSUME NEW k \in Kinds, NEW n \in Nat
  PROVE  /\ UpTo(k, n) \in Seq(AnyByte) /\ UpTo(k, 0) = <<>>
         /\ UpTo(k, n + 1) = UpTo(k, n) \o Encode(k, n + 1)
<1> DEFINE S == Seq(AnyByte)
           e == Encode(k, n + 1)
           f == [i \in 1..n |-> Encode(k, i)]
           g == [i \in 1..(n + 1) |-> Encode(k, i)]
<1>1. \A i \in Nat : Encode(k, i) \in S
  BY EncodeCommands
<1>2. f \in [1..n -> S] /\ g \in [1..(n + 1) -> S] /\ e \in S
  BY <1>1
<1>3. /\ UpTo(k, n) = FlattenSeq(f) /\ UpTo(k, n + 1) = FlattenSeq(g)
      /\ \A i \in 1..n : g[i] = f[i]
      /\ g[n + 1] = e
  BY DEF UpTo
<1> HIDE DEF f, g, e, S
<1>4. f \in Seq(S) /\ Len(f) = n /\ g \in Seq(S) /\ Len(g) = n + 1
  BY <1>2, FunctionIsSeq
<1> DEFINE h == Append(f, e)
<1>5. h \in Seq(S) /\ Len(h) = n + 1 /\ \A i \in 1..(n + 1) : h[i] = IF i = n + 1 THEN e ELSE f[i]
  BY <1>2, <1>4
<1> HIDE DEF h
<1>6. g = h
  <2>1. \A i \in 1..Len(g) : g[i] = h[i]
    BY <1>3, <1>4, <1>5
  <2> QED
    BY <1>4, <1>5, <2>1, SeqEqual
<1>7. FlattenSeq(f) \in Seq(AnyByte) /\ FlattenSeq(h) = FlattenSeq(f) \o e
  <2>1. f \in Seq(Seq(AnyByte)) /\ e \in Seq(AnyByte)
    BY <1>2, <1>4 DEF S
  <2> QED
    BY <2>1, FlattenType, FlattenAppend DEF h
<1>8. UpTo(k, 0) = <<>>
  <2>1. [i \in 1..0 |-> Encode(k, i)] = <<>>
    OBVIOUS
  <2> QED
    BY <2>1, FlattenNothing DEF UpTo
<1> QED
  BY <1>3, <1>6, <1>7, <1>8 DEF e

LEMMA SentTypes ==
  ASSUME HandleTypeOK, NEW k \in Kinds
  PROVE  /\ told.written \in Seq(AnyByte) /\ Bytes(k) \in Seq(AnyByte)
         /\ queues[k] \in Seq(Seq(AnyByte)) /\ Left(k) \in Seq(AnyByte)
         /\ construction[k] \in Seq(AnyByte) /\ told.sent[k] \in Nat
<1>1. told.written \in Seq(AnyByte) /\ told.sent[k] \in Nat
  BY HandleTypeParts DEF ToldOK
<1>2. Bytes(k) \in Seq(AnyByte)
  BY <1>1, WithinType DEF Bytes
<1>3. construction[k] \in Seq(AnyByte)
  BY HandleTypeParts, BytesAreBytes DEF BuffersOK
<1> DEFINE q == queues[k]  R == Seq(DeviceByte(k)) \ {<<>>}  S == Seq(AnyByte)
<1>4. q \in Seq(R) /\ R \subseteq S
  BY HandleTypeParts, BytesAreBytes DEF QueuesOK
<1> HIDE DEF q, R, S
<1>5. q \in Seq(S)
  <2>1. Len(q) \in Nat /\ q \in [1..Len(q) -> R]
    BY <1>4
  <2>2. q \in [1..Len(q) -> S]
    BY <1>4, <2>1
  <2> QED
    BY <2>1, <2>2
<1>6. queues[k] \in Seq(Seq(AnyByte))
  BY <1>5 DEF q, S
<1>7. Left(k) \in Seq(AnyByte)
  BY <1>6, FlattenType DEF Left
<1> QED
  BY <1>1, <1>2, <1>3, <1>6, <1>7

LEMMA ClearedAlone ==
  ASSUME NEW places, NEW t \in DeskThreads, Alone(t, places)
  PROVE  /\ \A k \in Kinds : Cleared(k, places) <=> places[t] = ClearOf(k)
         /\ OneThread(places)
<1>1. ASSUME NEW k \in Kinds PROVE Cleared(k, places) <=> places[t] = ClearOf(k)
  <2>1. ClearOf(k) # "idle"
    BY DEF ClearOf
  <2> QED
    BY <2>1 DEF Cleared, Alone
<1>2. OneThread(places)
  BY DEF OneThread, Alone
<1> QED
  BY <1>1, <1>2

LEMMA OtherKinds == \A j, k \in Kinds : k # j => ClearOf(j) # ClearOf(k)
<1> SUFFICES ASSUME NEW j \in Kinds, NEW k \in Kinds, k # j PROVE ClearOf(j) # ClearOf(k)
  OBVIOUS
<1>1. CASE j = "event"
  <2>1. k = "sysex"
    BY <1>1 DEF Kinds
  <2> QED
    BY <1>1, <2>1 DEF ClearOf
<1>2. CASE j # "event"
  <2>1. k = "event"
    BY <1>2 DEF Kinds
  <2> QED
    BY <1>2, <2>1 DEF ClearOf
<1> QED
  BY <1>1, <1>2

LEMMA LostInvInit == HandleInit => LostInv
<1> SUFFICES ASSUME HandleInit PROVE LostInv
  OBVIOUS
<1>1. /\ \A k \in Kinds : construction[k] = <<>> /\ queues[k] = <<>> /\ told.sent[k] = 0
      /\ told.written = <<>> /\ \A t \in DeskThreads : scheduling[t] = "idle"
  BY DEF HandleInit
<1>2. ASSUME NEW k \in Kinds
      PROVE  Accounted(Bytes(k) \o Left(k), construction[k], Cleared(k, scheduling), UpTo(k, told.sent[k]))
  <2>1. Bytes(k) = <<>> /\ Left(k) = <<>> /\ UpTo(k, told.sent[k]) = <<>>
    <3>1. UpTo(k, 0) = <<>>
      BY UpToMore
    <3> QED
      BY <1>1, <3>1, WithinNothing, FlattenNothing DEF Bytes, Left
  <2>2. <<>> \o <<>> = <<>>
    OBVIOUS
  <2> QED
    BY <1>1, <2>1, <2>2 DEF Accounted
<1>3. OneThread(scheduling)
  BY <1>1 DEF OneThread
<1> QED
  BY <1>2, <1>3 DEF LostInv

LEMMA LostStays ==
  ASSUME LostInv, UNCHANGED <<scheduling, construction, queues>>,
         told'.written = told.written, told'.sent = told.sent, told'.overlap = told.overlap,
         failure' = "no" => failure = "no"
  PROVE  LostInv'
BY DEF LostInv, Bytes, Left

(* The thread that composes and schedules is the only one between its steps. *)
LEMMA ThreadAlone ==
  ASSUME HandleTypeOK, LostInv, NEW t \in DeskThreads, OfThread(t), ~ told'.overlap, failure' = "no"
  PROVE  /\ failure = "no" /\ ~ told.overlap
         /\ Alone(t, scheduling) /\ Alone(t, scheduling')
<1>0. ToldOK /\ PlacesOK
  BY HandleTypeParts
<1>1. failure = "no"
  BY DEF OfThread, SendCommand, CopyBuffer, ClearBuffer, Schedule, Wake
<1>2. CASE Schedule(t) \/ \E k \in Kinds : SendCommand(t, k)
  <2>1. /\ \/ told' = [told EXCEPT !.overlap = Overlapping(t)]
           \/ \E k \in Kinds : told' = [told EXCEPT !.sent[k] = @ + 1, !.overlap = Overlapping(t)]
    BY <1>1, <1>2 DEF Schedule, SendCommand
  <2>2. told'.overlap = Overlapping(t)
    BY <1>0, <2>1 DEF ToldOK
  <2>3. ~ told.overlap /\ Others(t) = {}
    BY <2>2 DEF Overlapping
  <2> QED
    <3>1. Alone(t, scheduling)
      BY <2>3 DEF Others, Alone
    <3>2. \A u \in DeskThreads : u # t => scheduling'[u] = scheduling[u]
      BY <1>0, <1>2 DEF Schedule, SendCommand, PlacesOK
    <3> QED
      BY <1>1, <2>3, <3>1, <3>2 DEF Alone
<1>3. CASE Wake(t) \/ \E k \in Kinds : CopyBuffer(t, k) \/ ClearBuffer(t, k)
  <2>1. told' = told /\ scheduling[t] # "idle"
    BY <1>3 DEF Wake, CopyBuffer, ClearBuffer, CopyOf, ClearOf
  <2>2. Alone(t, scheduling)
    BY <1>1, <2>1 DEF LostInv, OneThread
  <2>3. \A u \in DeskThreads : u # t => scheduling'[u] = scheduling[u]
    BY <1>0, <1>3 DEF Wake, CopyBuffer, ClearBuffer, PlacesOK
  <2> QED
    BY <1>1, <2>1, <2>2, <2>3 DEF Alone
<1> QED
  BY <1>2, <1>3 DEF OfThread

LEMMA ThreadsKeepSent ==
  ASSUME HandleTypeOK, LostInv, NEW t \in DeskThreads, OfThread(t)
  PROVE  LostInv'
<1> SUFFICES ASSUME ~ told'.overlap, failure' = "no" PROVE LostInv'
  BY DEF LostInv
<1>1. failure = "no" /\ ~ told.overlap /\ Alone(t, scheduling) /\ Alone(t, scheduling')
  BY ThreadAlone
<1>2. /\ \A k \in Kinds : Cleared(k, scheduling) <=> scheduling[t] = ClearOf(k)
      /\ \A k \in Kinds : Cleared(k, scheduling') <=> scheduling'[t] = ClearOf(k)
      /\ OneThread(scheduling')
  BY <1>1, ClearedAlone
<1>3. \A k \in Kinds : Accounted(Bytes(k) \o Left(k), construction[k], scheduling[t] = ClearOf(k),
                                 UpTo(k, told.sent[k]))
  BY <1>1, <1>2 DEF LostInv, Accounted
<1>4. SUFFICES ASSUME NEW k \in Kinds
               PROVE  Accounted(Bytes(k)' \o Left(k)', construction'[k], scheduling'[t] = ClearOf(k),
                                UpTo(k, told'.sent[k]))
  BY <1>2 DEF LostInv, Accounted
<1>t. /\ construction = [i \in Kinds |-> construction[i]] /\ queues = [i \in Kinds |-> queues[i]]
      /\ ToldOK /\ PlacesOK
  BY HandleTypeParts DEF BuffersOK, QueuesOK
<1> DEFINE b == Bytes(k)  l == Left(k)  c == construction[k]  all == UpTo(k, told.sent[k])
<1>5. /\ b \in Seq(AnyByte) /\ l \in Seq(AnyByte) /\ c \in Seq(AnyByte) /\ all \in Seq(AnyByte)
      /\ b \o l \in Seq(AnyByte)
  <2>1. b \in Seq(AnyByte) /\ l \in Seq(AnyByte) /\ c \in Seq(AnyByte) /\ told.sent[k] \in Nat
    BY SentTypes
  <2> QED
    BY <2>1, UpToMore, ConcatProperties
<1>6. Accounted(b \o l, c, scheduling[t] = ClearOf(k), all)
  BY <1>3
<1>7. CASE \E j \in Kinds : SendCommand(t, j)
  <2>1. PICK j \in Kinds : SendCommand(t, j)
    BY <1>7
  <2> DEFINE n == told.sent[j] + 1
  <2>2. /\ construction' = [construction EXCEPT ![j] = construction[j] \o Encode(j, n)]
        /\ told' = [told EXCEPT !.sent[j] = @ + 1, !.overlap = Overlapping(t)]
        /\ UNCHANGED <<queues, scheduling>> /\ scheduling[t] = "idle"
    BY <2>1 DEF SendCommand
  <2>3. /\ told'.written = told.written /\ told.sent[j] \in Nat
        /\ told'.sent[k] = IF k = j THEN told.sent[k] + 1 ELSE told.sent[k]
    BY <1>t, <2>2 DEF ToldOK
  <2>4. Bytes(k)' = b /\ Left(k)' = l
    BY <2>2, <2>3 DEF Bytes, Left
  <2>5. "idle" # ClearOf(k)
    BY DEF ClearOf
  <2>6. (b \o l) \o c = all
    BY <1>6, <2>2, <2>5 DEF Accounted
  <2>7. (b \o l) \o construction'[k] = UpTo(k, told'.sent[k])
    <3>1. CASE k = j
      <4> DEFINE e == Encode(j, n)  g == b \o l
      <4>1. construction'[k] = c \o e
        BY <1>t, <2>2, <3>1
      <4>2. UpTo(k, told'.sent[k]) = all \o e /\ e \in Seq(AnyByte)
        <5> DEFINE m == told.sent[j]
        <5>1. m \in Nat /\ told'.sent[k] = m + 1 /\ n = m + 1 /\ all = UpTo(j, m)
          BY <2>3, <3>1
        <5> HIDE DEF m, n, all, e
        <5>2. UpTo(j, m + 1) = UpTo(j, m) \o Encode(j, m + 1)
          BY <5>1, UpToMore
        <5>3. m + 1 \in Nat
          BY <5>1
        <5>4. Encode(j, m + 1) \in Seq(AnyByte)
          BY <5>3, EncodeCommands
        <5>5. e = Encode(j, m + 1)
          BY <5>1 DEF e
        <5> QED
          BY <3>1, <5>1, <5>2, <5>4, <5>5
      <4> HIDE DEF e, c, all, b, l
      <4>3. g \in Seq(AnyByte) /\ c \in Seq(AnyByte) /\ e \in Seq(AnyByte)
        BY <1>5, <4>2
      <4> HIDE DEF g
      <4>4. g \o (c \o e) = (g \o c) \o e
        <5>1. Grouped(g, c, e)
          BY <4>3, AnyGrouped
        <5> QED
          BY <5>1 DEF Grouped
      <4>5. g \o c = all
        BY <2>6 DEF g
      <4>6. g \o construction'[k] = UpTo(k, told'.sent[k])
        BY <4>1, <4>2, <4>4, <4>5
      <4> QED
        BY <4>6 DEF g
    <3>2. CASE k # j
      BY <1>t, <2>2, <2>3, <2>6, <3>2
    <3> QED
      BY <3>1, <3>2
  <2> QED
    BY <2>2, <2>4, <2>5, <2>7 DEF Accounted
<1>8. CASE Schedule(t)
  <2>1. /\ UNCHANGED <<construction, queues>> /\ scheduling[t] = "idle"
        /\ scheduling'[t] = "copy event"
        /\ told' = [told EXCEPT !.overlap = Overlapping(t)]
    BY <1>1, <1>8, <1>t DEF Schedule, PlacesOK
  <2>2. told'.written = told.written /\ told'.sent = told.sent
    BY <1>t, <2>1 DEF ToldOK
  <2>3. Bytes(k)' = b /\ Left(k)' = l
    BY <2>1, <2>2 DEF Bytes, Left
  <2>4. "idle" # ClearOf(k) /\ "copy event" # ClearOf(k)
    BY DEF ClearOf
  <2> QED
    BY <1>6, <2>1, <2>2, <2>3, <2>4 DEF Accounted
<1>9. CASE Wake(t)
  <2>1. /\ UNCHANGED <<construction, queues, told>> /\ scheduling[t] = "wake"
        /\ scheduling'[t] = "idle"
    BY <1>9, <1>t DEF Wake, PlacesOK
  <2>2. Bytes(k)' = b /\ Left(k)' = l
    BY <2>1 DEF Bytes, Left
  <2>3. "idle" # ClearOf(k) /\ "wake" # ClearOf(k)
    BY DEF ClearOf
  <2> QED
    BY <1>6, <2>1, <2>2, <2>3 DEF Accounted
<1>10. CASE \E j \in Kinds : CopyBuffer(t, j)
  <2>1. PICK j \in Kinds : CopyBuffer(t, j)
    BY <1>10
  <2>2. /\ UNCHANGED <<construction, told>> /\ scheduling[t] = CopyOf(j)
    BY <2>1 DEF CopyBuffer
  <2>3. Bytes(k)' = b /\ CopyOf(j) # ClearOf(k)
    BY <2>2 DEF Bytes, CopyOf, ClearOf
  <2>4. (b \o l) \o c = all
    BY <1>6, <2>2, <2>3 DEF Accounted
  <2>5. CASE construction[j] # <<>>
    <3>1. /\ queues' = [queues EXCEPT ![j] = Append(queues[j], construction[j])]
          /\ scheduling'[t] = ClearOf(j)
      BY <1>t, <2>1, <2>5 DEF CopyBuffer, PlacesOK
    <3>2. CASE k = j
      <4>1. queues'[k] = Append(queues[k], c)
        BY <1>t, <3>1, <3>2
      <4> DEFINE q == queues[k]
      <4>2. q \in Seq(Seq(AnyByte))
        BY SentTypes
      <4>3. Left(k)' = FlattenSeq(Append(q, c)) /\ l = FlattenSeq(q)
        BY <4>1 DEF Left
      <4> HIDE DEF q, c, l, b, all
      <4>4. FlattenSeq(Append(q, c)) = FlattenSeq(q) \o c
        BY <1>5, <4>2, FlattenAppend
      <4>5. Left(k)' = l \o c
        BY <4>3, <4>4
      <4>6. b \o (l \o c) = (b \o l) \o c
        <5>1. Grouped(b, l, c)
          BY <1>5, AnyGrouped
        <5> QED
          BY <5>1 DEF Grouped
      <4>7. Bytes(k)' \o Left(k)' = all
        BY <2>3, <2>4, <4>5, <4>6
      <4>8. scheduling'[t] = ClearOf(k) /\ UpTo(k, told'.sent[k]) = all
        BY <2>2, <3>1, <3>2 DEF all
      <4> QED
        BY <4>7, <4>8 DEF Accounted
    <3>3. CASE k # j
      <4>1. queues'[k] = queues[k]
        BY <1>t, <3>1, <3>3
      <4>2. Left(k)' = l
        BY <4>1 DEF Left
      <4>3. ClearOf(j) # ClearOf(k)
        BY <3>3, OtherKinds
      <4> QED
        BY <2>2, <2>3, <2>4, <3>1, <4>2, <4>3 DEF Accounted
    <3> QED
      BY <3>2, <3>3
  <2>6. CASE construction[j] = <<>>
    <3>1. queues' = queues /\ scheduling'[t] = AfterBuffer(j)
      BY <1>t, <2>1, <2>6 DEF CopyBuffer, PlacesOK
    <3>2. Left(k)' = l /\ AfterBuffer(j) # ClearOf(k)
      BY <3>1 DEF Left, AfterBuffer, ClearOf
    <3> QED
      BY <2>2, <2>3, <2>4, <3>1, <3>2 DEF Accounted
  <2> QED
    BY <2>5, <2>6
<1>11. CASE \E j \in Kinds : ClearBuffer(t, j)
  <2>1. PICK j \in Kinds : ClearBuffer(t, j)
    BY <1>11
  <2>2. /\ UNCHANGED <<queues, told>> /\ scheduling[t] = ClearOf(j)
        /\ construction' = [construction EXCEPT ![j] = <<>>]
        /\ scheduling'[t] = AfterBuffer(j)
    BY <1>t, <2>1 DEF ClearBuffer, PlacesOK
  <2>3. Bytes(k)' = b /\ Left(k)' = l /\ AfterBuffer(j) # ClearOf(k)
    BY <2>2 DEF Bytes, Left, AfterBuffer, ClearOf
  <2>4. (b \o l) \o construction'[k] = all
    <3>1. CASE k = j
      <4>1. b \o l = all /\ construction'[k] = <<>>
        BY <1>6, <1>t, <2>2, <3>1 DEF Accounted
      <4>2. all \o <<>> = all
        BY <1>5, ConcatEmptySeq
      <4> QED
        BY <4>1, <4>2
    <3>2. CASE k # j
      <4>1. ClearOf(j) # ClearOf(k)
        BY <3>2, OtherKinds
      <4> QED
        BY <1>6, <1>t, <2>2, <3>2, <4>1 DEF Accounted
    <3> QED
      BY <3>1, <3>2
  <2> QED
    BY <2>2, <2>3, <2>4 DEF Accounted
<1> QED
  BY <1>7, <1>8, <1>9, <1>10, <1>11 DEF OfThread

(* The bytes of one kind are none of the other.                             *)
LEMMA OtherBytes ==
  ASSUME NEW j \in Kinds, NEW k \in Kinds, NEW a \in Seq(DeviceByte(j))
  PROVE  Within(a, DeviceByte(k)) = IF k = j THEN a ELSE <<>>
<1>1. CASE k = j
  <2>1. \A i \in 1..Len(a) : a[i] \in DeviceByte(k)
    BY <1>1
  <2> QED
    BY <1>1, <2>1, WithinAllOrNothing
<1>2. CASE k # j
  <2>1. \A i \in 1..Len(a) : a[i] \in DeviceByte(j)
    OBVIOUS
  <2>2. \A x \in DeviceByte(j) : x \notin DeviceByte(k)
    BY <1>2 DEF DeviceByte
  <2>3. \A i \in 1..Len(a) : a[i] \notin DeviceByte(k)
    BY <2>1, <2>2
  <2> QED
    BY <1>2, <2>3, WithinAllOrNothing
<1> QED
  BY <1>1, <1>2

(* What is written goes from the queue to what was written.                 *)
LEMMA WritesKeepSent ==
  ASSUME HandleTypeOK, LostInv, NEW j \in Kinds, Write(j)
  PROVE  LostInv'
<1>1. PICK a, rest : WrittenFrom(j, a, rest)
  BY WriteFacts
<1> DEFINE t == Tail(queues[j])
<1>2. /\ a \in Seq(DeviceByte(j)) /\ rest \in Seq(DeviceByte(j)) /\ queues[j][1] = a \o rest
      /\ t \in Seq(Seq(DeviceByte(j)) \ {<<>>}) /\ Len(queues[j]) \in Nat \ {0}
      /\ queues' = [queues EXCEPT ![j] = IF rest = <<>> THEN t ELSE <<rest>> \o t]
      /\ told' = [told EXCEPT !.written = told.written \o a]
      /\ UNCHANGED <<construction, scheduling, failure>>
  BY <1>1 DEF WrittenFrom
<1>3. a \in Seq(AnyByte) /\ rest \in Seq(AnyByte)
  BY <1>2, BytesAreBytes
<1>4. /\ told'.written = told.written \o a /\ told'.sent = told.sent /\ told'.overlap = told.overlap
      /\ told.written \in Seq(AnyByte) /\ queues = [i \in Kinds |-> queues[i]]
  BY <1>2, HandleTypeParts DEF ToldOK, QueuesOK
<1>5. ASSUME NEW k \in Kinds PROVE Bytes(k)' \o Left(k)' = Bytes(k) \o Left(k)
  <2> DEFINE b == Bytes(k)  l == Left(k)
  <2>1. b \in Seq(AnyByte) /\ l \in Seq(AnyByte)
    BY SentTypes
  <2>2. Bytes(k)' = b \o (IF k = j THEN a ELSE <<>>)
    <3>1. Within(a, DeviceByte(k)) = IF k = j THEN a ELSE <<>>
      BY <1>2, OtherBytes
    <3>2. Within(told.written \o a, DeviceByte(k)) = b \o Within(a, DeviceByte(k))
      <4> DEFINE w == told.written
      <4>1. w \in Seq(AnyByte)
        BY <1>4
      <4>2. b = Within(w, DeviceByte(k))
        BY DEF Bytes
      <4> HIDE DEF w, b
      <4>3. Within(w \o a, DeviceByte(k)) = Within(w, DeviceByte(k)) \o Within(a, DeviceByte(k))
        BY <1>3, <4>1, WithinBehind
      <4> QED
        BY <4>2, <4>3 DEF w
    <3> QED
      BY <1>4, <3>1, <3>2 DEF Bytes
  <2>3. CASE k # j
    <3>1. Left(k)' = l
      BY <1>2, <1>4, <2>3 DEF Left
    <3>2. b \o <<>> = b
      BY <2>1, ConcatEmptySeq
    <3> QED
      BY <2>2, <2>3, <3>1, <3>2
  <2>4. CASE k = j
    <3> DEFINE q == queues[j]  S == Seq(AnyByte)
    <3>1. q \in Seq(S) /\ q # <<>>
      <4>1. queues[j] \in Seq(Seq(AnyByte))
        BY SentTypes
      <4>2. queues[j] # <<>>
        BY <1>2
      <4> QED
        BY <4>1, <4>2
    <3>2. Head(q) = q[1] /\ t = Tail(q) /\ t \in Seq(S)
      <4> HIDE DEF S, q
      <4>1. Head(q) = q[1] /\ Tail(q) \in Seq(S)
        BY <3>1, FirstOff
      <4> QED
        BY <4>1 DEF q
    <3>3. l = Head(q) \o FlattenSeq(Tail(q))
      <4>1. q \in Seq(Seq(AnyByte)) /\ q # <<>>
        BY <3>1
      <4>2. l = FlattenSeq(q)
        BY <2>4 DEF Left
      <4> HIDE DEF q, l
      <4> QED
        BY <4>1, <4>2, FlattenHead
    <3> DEFINE f == FlattenSeq(t)
    <3>4. l = (a \o rest) \o f
      BY <1>2, <3>2, <3>3
    <3>5. f \in Seq(AnyByte)
      BY <3>2, FlattenType
    <3>6. Left(k)' = rest \o f
      <4>1. queues'[k] = IF rest = <<>> THEN t ELSE <<rest>> \o t
        BY <1>2, <1>4, <2>4
      <4>2. t \in Seq(S) /\ rest \in S
        BY <1>3, <3>2
      <4>3. CASE rest = <<>>
        <5>1. <<>> \o f = f
          BY <3>5, ConcatEmptySeq
        <5> QED
          BY <4>1, <4>3, <5>1 DEF Left
      <4>4. CASE rest # <<>>
        <5> DEFINE r == <<rest>> \o t
        <5> HIDE DEF t, S
        <5>1. r \in Seq(S) /\ r # <<>> /\ Head(r) = rest /\ Tail(r) = t
          BY <4>2
        <5> HIDE DEF r
        <5>2. FlattenSeq(r) = Head(r) \o FlattenSeq(Tail(r))
          <6>1. r \in Seq(Seq(AnyByte))
            BY <5>1 DEF S
          <6> QED
            BY <5>1, <6>1, FlattenHead
        <5>3. Left(k)' = FlattenSeq(r)
          BY <4>1, <4>4 DEF Left, r
        <5> QED
          BY <5>1, <5>2, <5>3
      <4> QED
        BY <4>3, <4>4
    <3> HIDE DEF b, l, f, t
    <3>7. (b \o a) \o (rest \o f) = b \o ((a \o rest) \o f)
      <4>1. a \o rest \in Seq(AnyByte) /\ rest \o f \in Seq(AnyByte)
        BY <1>3, <3>5, ConcatProperties
      <4> DEFINE x == rest \o f
      <4>2. x \in Seq(AnyByte)
        BY <4>1
      <4>3. (a \o rest) \o f = a \o x
        <5>1. Grouped(a, rest, f)
          BY <1>3, <3>5, AnyGrouped
        <5> QED
          BY <5>1 DEF Grouped
      <4> HIDE DEF x
      <4>4. (b \o a) \o x = b \o (a \o x)
        <5>1. Grouped(b, a, x)
          BY <1>3, <2>1, <4>2, AnyGrouped
        <5> QED
          BY <5>1 DEF Grouped
      <4> QED
        BY <4>3, <4>4 DEF x
    <3>8. Bytes(k)' = b \o a
      BY <2>2, <2>4
    <3>9. Bytes(k)' \o Left(k)' = b \o l
      BY <3>4, <3>6, <3>7, <3>8
    <3> QED
      BY <3>9 DEF b, l
  <2> QED
    BY <2>3, <2>4
<1> QED
  BY <1>2, <1>4, <1>5 DEF LostInv

LEMMA LostInvStep ==
  ASSUME HandleTypeOK, LostInv, [HandleNext]_handleVars
  PROVE  LostInv'
<1>0. ToldOK
  BY HandleTypeParts
<1>1. ASSUME NEW t \in DeskThreads, OfThread(t) PROVE LostInv'
  BY <1>1, ThreadsKeepSent
<1>2. ASSUME NEW k \in Kinds, Write(k) PROVE LostInv'
  BY <1>2, WritesKeepSent
<1>3. CASE AsyncSchedule \/ WriteReady \/ (\E k \in Kinds : WriteEnds(k)) \/ Fail \/ Drain
  <2>1. /\ UNCHANGED <<scheduling, construction, queues, told>>
        /\ failure' = failure \/ failure' = "error"
    BY <1>3 DEF AsyncSchedule, WriteReady, WriteEnds, Fail, Drain
  <2> QED
    BY <2>1, LostStays
<1>4. CASE ReadDevice
  <2>1. /\ UNCHANGED <<scheduling, construction, queues, told>> /\ failure = "no"
    BY <1>4 DEF ReadDevice
  <2> QED
    BY <2>1, LostStays
<1>5. CASE NextCommand \/ \E k \in Kinds : Report(k)
  <2>1. UNCHANGED <<scheduling, construction, queues, failure>>
    BY <1>5 DEF NextCommand, Report
  <2>2. told'.written = told.written /\ told'.sent = told.sent /\ told'.overlap = told.overlap
    BY <1>0, <1>5 DEF NextCommand, Report, ToldOK
  <2> QED
    BY <2>1, <2>2, LostStays
<1>6. CASE UNCHANGED handleVars
  BY <1>6, LostStays DEF handleVars
<1> QED
  BY <1>1, <1>2, <1>3, <1>4, <1>5, <1>6, HandleSteps

LEMMA LostInvSound == LostInv => NothingLost
<1> SUFFICES ASSUME LostInv, ~told.overlap, failure = "no",
                    \A t \in DeskThreads : scheduling[t] \notin {"clear event", "clear sysex"},
                    NEW k \in Kinds
             PROVE  Bytes(k) \o Left(k) \o construction[k] = UpTo(k, told.sent[k])
  BY DEF NothingLost
<1>1. ~ Cleared(k, scheduling)
  BY DEF Cleared, ClearOf
<1> QED
  BY <1>1 DEF LostInv, Accounted

LEMMA ReportInvSound == HandleTypeOK /\ ReportInv => ReportsInOrder
<1> SUFFICES ASSUME HandleTypeOK, ReportInv, failure # "popped"
             PROVE  IsPrefix(told.received \o input.incomming_queue, Within(told.reported, Command))
  BY DEF ReportsInOrder
<1> DEFINE p == told.received \o input.incomming_queue
           ahead == input.in_construction \o input.line
           w == Within(ahead, Command)
<1>1. p \in Seq(AnyByte) /\ ahead \in Seq(AnyByte)
  <2>1. /\ told.received \in Seq(AnyByte) /\ input.incomming_queue \in Seq(AnyByte)
        /\ input.in_construction \in Seq(AnyByte) /\ input.line \in Seq(AnyByte)
    BY HandleTypeParts DEF ToldOK, InputOfDesk
  <2> QED
    BY <2>1, ConcatProperties
<1>2. p \o w = Within(told.reported, Command)
  BY DEF ReportInv
<1> HIDE DEF p, ahead
<1>3. w \in Seq(AnyByte)
  BY <1>1, WithinType
<1> HIDE DEF w
<1>4. IsPrefix(p, p \o w)
  <2> DEFINE u == p \o w
  <2>1. u \in Seq(AnyByte) /\ Joined(p, w, u)
    BY <1>1, <1>3, JoinedFacts, ConcatProperties
  <2> HIDE DEF u
  <2>2. Len(p) <= Len(u) /\ \A i \in 1..Len(p) : p[i] = u[i]
    BY <2>1 DEF Joined
  <2>3. p = SubSeq(u, 1, Len(p))
    BY <1>1, <2>1, <2>2, FrontEqual
  <2>4. SubSeq(p, 1, Len(p)) = p
    BY <1>1, SubSeqFull
  <2> QED
    BY <2>2, <2>3, <2>4 DEF IsPrefix, u
<1> QED
  BY <1>2, <1>4 DEF p

LEMMA HandleInvInit == HandleInit => HandleInv
BY HandleTypeInit, WholeInvInit, LostInvInit, ReportInvInit DEF HandleInv

LEMMA HandleInvStep == HandleInv /\ [HandleNext]_handleVars => HandleInv'
BY HandleTypeStep, WholeInvStep, LostInvStep, ReportInvStep DEF HandleInv

LEMMA HandleInvSound == HandleInv => HandleSound
BY WholeInvSound, LostInvSound, ReportInvSound DEF HandleInv, HandleSound

-----------------------------------------------------------------------------
(* What comes in is taken apart as it was put together, from the socket of  *)
(* a client and from a device of the desk, for every set of messages,       *)
(* threads and commands, and however the bytes are cut: StreamSound and     *)
(* HandleSound (client_input_buffer.cpp:18-170, client_handler.cpp:50-180,  *)
(* device_handle.cpp:32-136).                                               *)
THEOREM InputsSoundAlways == StreamsSpec => []InputsSound
<1>1. StreamsInit => StreamInv /\ HandleInv
  BY StreamInvInit, HandleInvInit DEF StreamsInit
<1>2. StreamInv /\ HandleInv /\ [StreamsNext]_<<vars, handleVars, audioVars>> => (StreamInv /\ HandleInv)'
  <2> SUFFICES ASSUME StreamInv, HandleInv, [StreamsNext]_<<vars, handleVars, audioVars>>
               PROVE  StreamInv' /\ HandleInv'
    OBVIOUS
  <2>1. [Next]_vars /\ [HandleNext]_handleVars
    BY DEF StreamsNext
  <2> QED
    BY <2>1, StreamInvStep, HandleInvStep
<1>3. StreamInv /\ HandleInv => InputsSound
  BY StreamInvSound, HandleInvSound DEF InputsSound
<1> QED
  BY <1>1, <1>2, <1>3, PTL DEF StreamsSpec
=============================================================================
