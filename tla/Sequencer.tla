----------------------------- MODULE Sequencer -----------------------------
(***************************************************************************)
(* The sequencer filter (filters/sequencer): events start transitions,     *)
(* each of which brings a sequence of key frames to some of the channels;  *)
(* every cycle moves the channels along, and the GUIs are told which       *)
(* transitions run.  Several transitions may drive one channel, whose      *)
(* interleaving method then decides.                                       *)
(*                                                                         *)
(* A channel holds a whole number, as the 8 and 16 bit channels do; the    *)
(* float and colour channels differ in the arithmetic only.  A number that *)
(* an eased frame takes out of the type's range is kept, as a float        *)
(* channel keeps it (the cast of an integer channel is undefined there).   *)
(* The sigmoidal interpolation is left out, it is an ease-in of another    *)
(* shape.  Time is counted in ticks, the duration MinFrame stands for the  *)
(* 40 milliseconds.                                                        *)
(*                                                                         *)
(* The code compares the time times the scale with start times, of which   *)
(* only that of a first frame is scaled.  To keep both whole, moments are  *)
(* counted in ticks by Unit, and a scale of Unit is the normal speed.      *)
(***************************************************************************)
EXTENDS Integers, Sequences, FiniteSets, FiniteSetsExt, Functions

CONSTANTS
  Channels,     \* the channels, by name: their configuration
  Transitions,  \* the transitions: trigger and list of key frames
  Unit,         \* the normal speed: scale / Unit is the time_scale
  Scales,       \* values of the time_scale input, one of them for a whole run
  MinFrame,     \* no key frame lasts less
  MaxValue,     \* bound: a frame that leads further than this is not followed
  MaxLag,       \* bound: longest time between two updates
  MaxTime       \* bound: time stops there

Names == DOMAIN Channels
Ids == DOMAIN Transitions
Triggers == {Transitions[t].trigger : t \in Ids}

ChannelType ==
  [default : Nat, on_empty : BOOLEAN, on_clear : BOOLEAN, i_method : {"AVERAGE", "MIN", "MAX"}]
KeyFrame ==
  [channel : Names, value : Nat, transition : {"EDGE", "LINEAR", "EASE_IN", "EASE_OUT"},
   duration : Nat \ {0}]

ASSUME ConfigurationAssumption ==
  /\ \A c \in Names : Channels[c] \in ChannelType
  /\ \A t \in Ids : Transitions[t].frames \in Seq(KeyFrame)
  /\ Scales \subseteq Nat
  /\ {Unit, MinFrame, MaxValue, MaxLag, MaxTime} \subseteq Nat \ {0}

\* The key frames of a transition for one channel, in the order they are listed.
Frames(t, c) == SelectSeq(Transitions[t].frames, LAMBDA f : f.channel = c)
Touched(t) == {Transitions[t].frames[i].channel : i \in DOMAIN Transitions[t].frames}

VARIABLES
  value,    \* current_value of each channel
  queues,   \* upcomming_keyframes of each channel, by transition
  active,   \* active_transitions
  told,     \* the last list of active transitions sent to the GUIs
  now,      \* the time input
  scale,    \* the time_scale input
  started   \* ghost: when each of the active transitions was last started

vars == <<value, queues, active, told, now, scale, started>>

NoQueue == [t \in {} |-> {}]
NotStarted == -1

Init ==
  /\ value = [c \in Names |-> Channels[c].default]
  /\ queues = [c \in Names |-> NoQueue]
  /\ active = {}
  /\ told = {}
  /\ now = 0
  /\ scale \in Scales
  /\ started = [t \in Ids |-> NotStarted]

-----------------------------------------------------------------------------
(* Starting transitions: one that runs already starts again.               *)

NewQueue(c) == [position |-> 1, start_time |-> NotStarted, start_value |-> value[c]]

InsertKeyframes(c, new) ==
  [t \in DOMAIN queues[c] \cup {u \in new : c \in Touched(u)} |->
     IF t \in new THEN NewQueue(c) ELSE queues[c][t]]

-----------------------------------------------------------------------------
(* One channel in one cycle at time at: q is a queue of transition t, start *)
(* and since are moments by Unit.                                          *)

Lasts(f) == Max({f.duration, MinFrame})

\* Mutant: a frame lasts one moment too long.
EndedLate(f, start, at) == at * scale > start + Lasts(f) * Unit

Ended(f, start, at) == at * scale >= start + Lasts(f) * Unit

\* Where the loop of apply_update leaves a queue: its first frame is measured
\* from the scaled time it started at, the ones it moves on to from this time.
Moved(q, t, c, at) ==
  LET n == Len(Frames(t, c))
      start == IF q.start_time < 0 THEN at * scale ELSE q.start_time
      Stays(p) == p > n \/ ~ Ended(Frames(t, c)[p], at * Unit, at)
  IN IF q.position <= n /\ Ended(Frames(t, c)[q.position], start, at)
     THEN [position |-> Min({p \in q.position + 1 .. n + 1 : Stays(p)}),
           start_time |-> at * Unit, start_value |-> value[c]]
     ELSE [q EXCEPT !.start_time = start]

\* The point between 0 and 1 a frame has reached, as a fraction.
Point(f, since) ==
  LET e == since * scale
      d == f.duration * Unit * Unit
  IN CASE f.transition = "LINEAR"   -> <<Max({Min({e, d}), 0}), d>>
       [] f.transition = "EDGE"     -> <<IF e + MinFrame * Unit * Unit >= d THEN 1 ELSE 0, 1>>
       [] f.transition = "EASE_IN"  -> <<e * e, d * d>>
       [] f.transition = "EASE_OUT" -> <<d * d - (d - e) * (d - e), d * d>>


CalculateUpdate(f, since, from) ==
  LET p == Point(f, since)
  IN (from * (p[2] - p[1]) + f.value * p[1]) \div p[2]

\* What several transitions ask for, as a function from transition to value.
Arbitrated(c, asked) ==
  CASE Channels[c].i_method = "AVERAGE" ->
         FoldFunction(LAMBDA x, y : x + y, 0, asked) \div Cardinality(DOMAIN asked)
    [] Channels[c].i_method = "MIN" -> Min({asked[t] : t \in DOMAIN asked})
    [] Channels[c].i_method = "MAX" -> Max({asked[t] : t \in DOMAIN asked})

\* qs are the queues of the channel after the insertions of this cycle.
ApplyUpdate(c, qs, at) ==
  LET moved == [t \in DOMAIN qs |-> Moved(qs[t], t, c, at)]
      left == {t \in DOMAIN qs : moved[t].position <= Len(Frames(t, c))}
      asked == [t \in left |->
                  CalculateUpdate(Frames(t, c)[moved[t].position],
                                  at * Unit - moved[t].start_time, moved[t].start_value)]
  IN [queues |-> [t \in left |-> moved[t]],
      value |-> IF DOMAIN qs = {} /\ Channels[c].on_empty THEN Channels[c].default
                ELSE IF left = {} THEN value[c]
                ELSE Arbitrated(c, asked),
      removed |-> left # DOMAIN qs]

-----------------------------------------------------------------------------
(* The cycle and the activation of the scene.                              *)

\* Mutant: one finished channel ends it.
TransitionGcEvery(candidates, qs) ==
  {t \in candidates : \A c \in Touched(t) : t \in DOMAIN qs[c]}

\* A transition that runs in no channel any more is no longer active.
TransitionGc(candidates, qs) == {t \in candidates : \E c \in Names : t \in DOMAIN qs[c]}

Update ==
  \E lag \in 1 .. MaxLag, events \in SUBSET Triggers :
    /\ now + lag <= MaxTime
    /\ now' = now + lag
    /\ LET new == {t \in Ids : Transitions[t].trigger \in events}
       IN \E done \in {[c \in Names |-> ApplyUpdate(c, InsertKeyframes(c, new), now')]} :
            LET after == [c \in Names |-> done[c].queues]
                removed == \E c \in Names : done[c].removed
            IN /\ queues' = after
               /\ value' = [c \in Names |-> done[c].value]
               /\ \A c \in Names : value'[c] \in -MaxValue .. MaxValue
               /\ active' = IF removed THEN TransitionGc(active \cup new, after)
                                       ELSE active \cup new
               /\ told' = IF new # {} \/ removed THEN active' ELSE told
               /\ started' = [t \in Ids |-> IF t \in new THEN now' ELSE started[t]]
    /\ UNCHANGED scale

SceneActivated ==
  /\ queues' = [c \in Names |-> NoQueue]
  /\ value' = [c \in Names |->
                 IF Channels[c].on_clear THEN Channels[c].default ELSE value[c]]
  /\ active' = {}
  /\ told' = {}
  /\ started' = [t \in Ids |-> NotStarted]
  /\ UNCHANGED <<now, scale>>

Next == Update \/ SceneActivated
Spec == Init /\ [][Next]_vars

-----------------------------------------------------------------------------
(* Properties.                                                             *)

\* The transitions listed as active, and those the GUIs were told of, are at
\* the end of every cycle those that still have a queue in a channel.  A
\* transition without key frames has no queue: it is listed until the next
\* other one leaves a channel, or the scene is activated.
ActiveExact ==
  /\ {t \in active : Touched(t) # {}} = {t \in Ids : \E c \in Names : t \in DOMAIN queues[c]}
  /\ told = active

\* The position of an eased frame is not bounded.  It is between start and end
\* as long as the frame ends no later than its duration and its start is not
\* in the future: at other speeds than the normal one that depends on which of
\* the two clocks its start was taken from.
Bounded(f, position) ==
  \/ f.transition \in {"LINEAR", "EDGE"}
  \/ f.duration >= MinFrame /\ (scale = Unit \/ (scale > Unit /\ position > 1))


\* The time a transition takes on its slowest channel, and how much longer it
\* may take because time is looked at once per cycle only.
Duration(t) ==
  Max({total : total \in
        {FoldFunction(LAMBDA f, s : Lasts(f) + s, 0, Frames(t, c)) : c \in Touched(t)}})
MostFrames(t) == Max({Len(Frames(t, c)) : c \in Touched(t)})

\* A transition that is not started again nor cleared ends when the time its
\* key frames are configured for is over, at the speed time_scale gives, if no
\* channel gets more than one frame.  The start of a later frame is measured on
\* the other clock: above the normal speed it ends too early and below too late.
LastsAsConfigured ==
  [][\A t \in active \ active' :
       (started'[t] # NotStarted /\ Touched(t) # {}) =>
         LET took == (now' - started[t]) * scale
             lasts == Duration(t) * Unit
             slack == MaxLag * MostFrames(t) * scale
         IN /\ (scale <= Unit \/ MostFrames(t) = 1) => took >= lasts
            /\ (scale >= Unit \/ MostFrames(t) = 1) => took < lasts + slack]_vars
=============================================================================
