------------------------------ MODULE CueList ------------------------------
(***************************************************************************)
(* The cue list filter (filters/filter_cue.cpp) between the main loop,     *)
(* which updates it while its scene is active, the operator, who plays,    *)
(* pauses, stops and selects cues at any moment, its time_scale input, and *)
(* the scene that is left and entered again, with the part of the state    *)
(* registry that keeps a persistent list over such an absence, and that    *)
(* clients write too (executioners/state_registry.cpp).                    *)
(*                                                                         *)
(* The filter is one record, changed by operators named for its methods.   *)
(* Its moments start_time, pause_time and last_values.time_stamp are kept  *)
(* as their age at current_time, times time_scale: elapsed, paused and     *)
(* since.  A new time_scale changes none of the three: update moves the    *)
(* moments so that exactly these products stay (lines 806 to 808).         *)
(* current_time itself lags the clock by lag.                              *)
(***************************************************************************)
EXTENDS Integers, Sequences

CONSTANTS
  NCues,        \* cues.size()
  Cues,         \* the parsed cues, by number
  DefaultCues,  \* values the default cue takes
  Scales,       \* values the time_scale input takes
  StateLists,   \* the states that clients send for this filter
  MaxLag,       \* bound: longest time between two updates
  MaxAge,       \* bound: time stands still for a cue older than this
  MaxCommands   \* bound: commands, activations and deactivations

Handling == {"HOLD", "START_AGAIN", "NEXT_CUE", "HOLDING"}
CueType == [timestamps : Seq(Nat),
            end_handling : Handling \ {"HOLDING"},
            restart_handling : {"DO_NOTHING", "START_FROM_BEGIN"}]

Cue == 0 .. NCues - 1

\* Even an empty text is parsed to a list of one, empty, cue.
ASSUME CuesAssumption ==
  /\ NCues \in 1 .. 65534
  /\ Cues \in [Cue -> CueType]
ASSUME BoundsAssumption ==
  /\ Scales \subseteq Nat /\ DefaultCues \subseteq Cue \cup {-1}
  /\ MaxLag \in Nat /\ MaxAge \in Nat /\ MaxCommands \in Nat

None == 65535                      \* no cue, no frame, no next cue
CueOrOne == 0 .. NCues             \* run_cue and next_cue accept NCues
RunState == {"STOP", "PLAY", "PAUSE"}

\* The entries of the registry: some of these keys, or none, have a value.
StateType == [running_state |-> RunState, cue |-> CueOrOne \cup {None},
              frame |-> Nat, time |-> Int]
AreStates(states) ==
  /\ DOMAIN states \subseteq DOMAIN StateType
  /\ \A key \in DOMAIN states : states[key] \in StateType[key]
ASSUME StatesAssumption == \A states \in StateLists : AreStates(states)

Stamps(c) == Cues[c].timestamps
Frames(c) == Len(Stamps(c))
Stamp(c, i) == Stamps(c)[i + 1]
EndHandling(c) == Cues[c].end_handling

\* What the outputs show: the values of a key frame, all zero, a value on the
\* way between two of those, or one outside of them.
Key(c, i) == <<c, i>>
Shown == (Cue \X Nat) \cup {<<"dark">>, <<"between">>, <<"beyond">>}

VARIABLES
  list,         \* the filter's members
  lag,          \* how long ago current_time was read
  active,       \* the scene is the active one
  registry,     \* what the state registry holds for this filter
  commands      \* commands given so far

vars == <<list, lag, active, registry, commands>>

Constructed(d, h, p) ==
  [default_cue |-> d, handle_end |-> h, persistent |-> p,
   running |-> "STOP", cue |-> None, frame |-> None, next_cue |-> None,
   end_real |-> "START_AGAIN", scale |-> 1, scale_valid |-> TRUE,
   elapsed |-> 0, paused |-> 0, since |-> 0,
   last |-> [value |-> <<"dark">>, cue |-> None, frame |-> None, updated |-> FALSE],
   out |-> <<"dark">>, held |-> FALSE]

Init ==
  /\ \E d \in DefaultCues, h \in {"HOLD", "START_AGAIN"}, p \in BOOLEAN :
       list = Constructed(d, h, p)
  /\ lag = 0
  /\ active = FALSE
  /\ registry = <<>>
  /\ commands = 0

-----------------------------------------------------------------------------
(* The private methods, as operators on the record. *)

Valid(f) == f.cue \in Cue
LastFrame(f) == Frames(f.cue) - 1

UpdateLastValues(f) ==
  [f EXCEPT !.since = 0,
            !.last = IF @.updated THEN @
                     ELSE [value |-> f.out, cue |-> f.cue, frame |-> f.frame,
                           updated |-> TRUE]]

ValuesFromCue(f) ==
  [f EXCEPT !.last = [value |-> Key(f.cue, f.frame), cue |-> f.cue,
                      frame |-> f.frame, updated |-> TRUE]]

ResetForStartingCue(f) ==
  LET c == IF Valid(f) THEN f.cue ELSE NCues - 1
  IN  [UpdateLastValues(f) EXCEPT !.elapsed = 0, !.frame = 0, !.cue = c,
                                  !.end_real = EndHandling(c)]

\* actual_values.updated, here held, says that the outputs are held already.
HoldValues(f) ==
  IF f.held THEN f ELSE [f EXCEPT !.out = f.last.value, !.held = TRUE]

\* A next cue the operator has chosen takes precedence over c, once.
Select(f, c) ==
  IF f.next_cue \in Cue THEN [f EXCEPT !.cue = f.next_cue, !.next_cue = None]
                        ELSE [f EXCEPT !.cue = c]

\* last_frame_handling: either the list rests, or a cue starts.
Rests(f) ==
  \/ f.end_real \in {"HOLD", "HOLDING"}
  \/ f.end_real = "NEXT_CUE" /\ f.cue = NCues - 1 /\ f.handle_end = "HOLD"

\* Mutant: a cue that holds leaves the list playing.
RestPlaying(f) ==
  CASE f.end_real = "HOLD" -> [HoldValues(f) EXCEPT !.end_real = "HOLDING"]
    [] f.end_real = "HOLDING" -> f
    [] f.end_real = "NEXT_CUE" -> [HoldValues(f) EXCEPT !.running = "STOP"]

Rest(f) ==
  CASE f.end_real = "HOLD" ->
         [HoldValues(f) EXCEPT !.paused = 0, !.running = "PAUSE", !.end_real = "HOLDING"]
    [] f.end_real = "HOLDING" -> f
    [] f.end_real = "NEXT_CUE" -> [HoldValues(f) EXCEPT !.running = "STOP"]

Following(c) == IF c = NCues - 1 THEN 0 ELSE c + 1

StartNext(f) ==
  ResetForStartingCue(
    Select(f, IF f.end_real = "START_AGAIN" THEN f.cue ELSE Following(f.cue)))

\* calc_transition for every channel, with rel_time = since / span.
Interpolate(f) ==
  IF f.frame >= Frames(f.cue) THEN f
  ELSE LET span == Stamp(f.cue, f.frame) - f.elapsed + f.since
       IN  [f EXCEPT !.last.updated = FALSE, !.held = FALSE,
              !.out = CASE span <= 0 \/ f.since = span -> Key(f.cue, f.frame)
                        [] span > 0 /\ f.since = 0 -> f.last.value
                        [] span > 0 /\ 0 < f.since /\ f.since < span -> <<"between">>
                        [] span > 0 /\ (f.since < 0 \/ span < f.since) -> <<"beyond">>]

\* Mutant: the time stamp is the time of the update, not the frame's.
PassFrameNow(f) ==
  LET g == IF f.last.updated THEN f ELSE ValuesFromCue(f)
  IN  [g EXCEPT !.since = 0]

\* The frame's time has come: the next transition starts from its key frame.
PassFrame(f) ==
  LET g == IF f.last.updated THEN f ELSE ValuesFromCue(f)
  IN  [g EXCEPT !.since = f.elapsed - Stamp(f.cue, f.frame)]

CalcValues(f) ==
  IF f.frame >= Frames(f.cue)
  THEN IF Rests(f) THEN Rest(f) ELSE StartNext(f)
  ELSE LET following == f.last.frame = f.frame - 1 /\ f.last.cue = f.cue
           g == IF following THEN f ELSE [f EXCEPT !.last.updated = FALSE]
           p == PassFrame(g)
       IN  CASE f.elapsed < Stamp(f.cue, f.frame) -> Interpolate(g)
             [] f.elapsed >= Stamp(f.cue, f.frame) /\ f.frame < LastFrame(f) ->
                  Interpolate([p EXCEPT !.frame = @ + 1])
             [] f.elapsed >= Stamp(f.cue, f.frame) /\ f.frame = LastFrame(f) ->
                  IF Rests(p) THEN Rest(p) ELSE Interpolate(StartNext(p))

-----------------------------------------------------------------------------
(* run_mode: play, to_next_cue, pause, stop.  A call that throws out of   *)
(* cues.at or timestamps.at keeps what it had assigned before.            *)

\* Mutant: only the time stamp of the last values is moved.
ShiftByPauseForgotten(f) == [f EXCEPT !.since = @ - f.paused]

ShiftByPause(f) == [f EXCEPT !.elapsed = @ - f.paused, !.since = @ - f.paused]

\* Line 641 compares unscaled time, (current_time - start_time), with the
\* last time stamp of the cue.
Finished(f) == f.elapsed >= Stamp(f.cue, LastFrame(f)) * f.scale

Continue(f) ==
  IF ~Finished(f) THEN f
  ELSE IF EndHandling(f.cue) \in {"NEXT_CUE", "HOLD"}
       THEN ResetForStartingCue(Select(f, Following(f.cue)))
       ELSE ResetForStartingCue(f)

Playing(f, mode) ==
  [f EXCEPT !.running = "PLAY",
            !.end_real = IF mode = "to_next_cue" THEN "HOLD" ELSE EndHandling(f.cue)]

PlayThrows(f) ==
  \/ f.running = "PLAY" /\ ~Valid(f)
  \/ f.running = "PAUSE" /\ (~Valid(f) \/ Frames(f.cue) = 0)

Play(f, mode) ==
  CASE f.running = "STOP" -> Playing(ResetForStartingCue(Select(f, 0)), mode)
    [] f.running = "PLAY" /\ ~PlayThrows(f) ->
         Playing(IF Cues[f.cue].restart_handling = "START_FROM_BEGIN"
                 THEN ResetForStartingCue(f) ELSE f, mode)
    [] f.running = "PAUSE" /\ ~PlayThrows(f) -> Playing(Continue(ShiftByPause(f)), mode)
    [] f.running = "PAUSE" /\ PlayThrows(f) -> ShiftByPause(f)
    [] f.running = "PLAY" /\ PlayThrows(f) -> f

Pause(f) ==
  IF f.running = "PLAY" THEN [f EXCEPT !.running = "PAUSE", !.paused = 0] ELSE f

Stop(f) == [f EXCEPT !.running = "STOP"]

\* run_cue accepts one number too many: with n = NCues the filter is left
\* playing a cue that does not exist when cues.at throws.
RunCue(f, n) ==
  LET g == [ResetForStartingCue(f) EXCEPT !.cue = n, !.running = "PLAY"]
  IN  IF n \in Cue THEN [g EXCEPT !.end_real = EndHandling(n)] ELSE g

-----------------------------------------------------------------------------
(* Time *)

\* current_time = *time: the clock has moved on by lag.  Where MaxAge bounds a
\* list it stands still: the same list in a show where less time has passed.
\* pause_time is aged where it may still be read.
AgedEnough(f) ==
  \/ f.running = "STOP"
  \/ f.running = "PAUSE" /\ f.paused > MaxAge
  \/ f.elapsed > MaxAge

ReadTime(f) ==
  LET d == IF AgedEnough(f) THEN 0 ELSE lag * f.scale
  IN  [f EXCEPT !.elapsed = @ + d, !.since = @ + d,
                !.paused = IF f.running = "PAUSE" \/ (f.persistent /\ @ <= MaxAge)
                           THEN @ + d ELSE @]

\* The end of update: the input is compared with the scale in use.
TakeScale(f, input) ==
  CASE input = f.scale \/ (input = 0 /\ ~f.scale_valid) -> f
    [] input = 0 /\ input # f.scale /\ f.scale_valid ->
         [Pause(f) EXCEPT !.scale_valid = FALSE]
    [] input > 0 /\ input # f.scale /\ f.scale_valid -> [f EXCEPT !.scale = input]
    [] input > 0 /\ input # f.scale /\ ~f.scale_valid ->
         LET g == [f EXCEPT !.scale_valid = TRUE]
         IN  IF PlayThrows(g) THEN Play(g, "play")
             ELSE [Play(g, "play") EXCEPT !.scale = input]

CalcThrows(f) == f.running = "PLAY" /\ ~Valid(f)

UpdateFilter(f, input) ==
  LET g == ReadTime(f)
  IN  IF CalcThrows(g) THEN g
      ELSE TakeScale(IF g.running = "PLAY" THEN CalcValues(g) ELSE g, input)

Tick ==
  /\ lag < MaxLag
  /\ lag' = lag + 1
  /\ UNCHANGED <<list, active, registry, commands>>

\* A cycle of the main loop takes at least one unit of time.  The last guard is
\* a bound: a paused cue without frames drifts back each time play throws.
Update ==
  /\ active /\ lag > 0
  /\ list.elapsed >= -3 * MaxAge
  /\ \E input \in Scales : list' = UpdateFilter(list, input)
  /\ lag' = 0
  /\ UNCHANGED <<active, registry, commands>>

-----------------------------------------------------------------------------
(* Commands come from the event loop, whether the scene is active or not,  *)
(* and use the current_time of the last update.                            *)

Count ==
  /\ commands < MaxCommands
  /\ commands' = commands + 1

Command(f) ==
  /\ Count
  /\ list' = f
  /\ UNCHANGED <<lag, active, registry>>

RunModePlay ==
  /\ list.scale_valid
  /\ \E mode \in {"play", "to_next_cue"} : Command(Play(list, mode))

RunModePause == list.running = "PLAY" /\ Command(Pause(list))

RunModeStop == Command(Stop(list))

\* next > cues.size() is refused, next = cues.size() is not.
RunCueCommand == \E n \in 0 .. NCues : Command(RunCue(list, n))

NextCueCommand == \E n \in 0 .. NCues : Command([list EXCEPT !.next_cue = n])

\* A number that is too large takes the default cue away.
SetDefaultCue == \E d \in DefaultCues : Command([list EXCEPT !.default_cue = d])

-----------------------------------------------------------------------------
(* The scene *)

Stored(f) ==
  [running_state |-> f.running, cue |-> f.cue, frame |-> f.frame, time |-> f.elapsed]

\* scene_activated of a persistent list: every entry there is is taken over,
\* also when others are missing.
Loaded(f) ==
  LET Entry(key, otherwise) == IF key \in DOMAIN registry THEN registry[key] ELSE otherwise
      g == IF "time" \in DOMAIN registry THEN ReadTime(f) ELSE f
  IN [g EXCEPT !.running = Entry("running_state", @), !.cue = Entry("cue", @),
               !.frame = Entry("frame", @), !.elapsed = Entry("time", @)]

\* All of them were there.  pause_time and the time stamp of the last values
\* are not stored; a list that was never started throws on a frame that does
\* not exist, one frame before it.
Resume(f) ==
  LET c == IF f.cue \in Cue THEN f.cue ELSE NCues - 1
      g == [f EXCEPT !.cue = c, !.end_real = EndHandling(c)]
  IN  CASE g.frame = 0 -> g
        [] g.frame > 0 /\ g.frame <= Frames(c) ->
             [ValuesFromCue([g EXCEPT !.frame = @ - 1]) EXCEPT !.frame = g.frame]
        [] g.frame > Frames(c) -> [g EXCEPT !.frame = @ - 1]

AutoPlay(f) ==
  ResetForStartingCue([f EXCEPT !.running = "PLAY", !.cue = f.default_cue])

SceneActivated ==
  /\ ~active /\ Count
  /\ active' = TRUE
  /\ LET f == IF list.persistent THEN Loaded(list) ELSE list
         complete == list.persistent /\ DOMAIN registry = DOMAIN StateType
     IN list' = IF complete THEN Resume(f)
                ELSE IF f.default_cue \in Cue THEN AutoPlay(f) ELSE f
  /\ lag' = IF list.persistent /\ "time" \in DOMAIN registry THEN 0 ELSE lag
  /\ UNCHANGED registry

SceneDeactivated ==
  /\ active /\ Count
  /\ active' = FALSE
  /\ registry' = IF list.persistent THEN Stored(list) ELSE registry
  /\ UNCHANGED <<list, lag>>

\* update_states_from_message: the entries that a client sends replace those
\* with the same key.  A list that is not persistent never reads them.
UpdateStates ==
  /\ list.persistent /\ Count
  /\ \E states \in StateLists :
       registry' = [key \in DOMAIN states \cup DOMAIN registry |->
                      IF key \in DOMAIN states THEN states[key] ELSE registry[key]]
  /\ UNCHANGED <<list, lag, active>>

-----------------------------------------------------------------------------
Operator ==
  \/ RunModePlay \/ RunModePause \/ RunModeStop
  \/ RunCueCommand \/ NextCueCommand \/ SetDefaultCue

Next == Tick \/ Update \/ Operator \/ SceneActivated \/ SceneDeactivated \/ UpdateStates

Spec == Init /\ [][Next]_vars

\* The clock runs, and the main loop updates the active scene in every cycle:
\* only Update takes lag to 0 there.
CycleEnds ==
  /\ active /\ lag > 0
  /\ list.elapsed >= -3 * MaxAge
  /\ lag' = 0

FairSpec == Spec /\ WF_vars(Tick) /\ WF_lag(CycleEnds)

-----------------------------------------------------------------------------
(* Properties *)

LastType == [value : Shown, cue : CueOrOne \cup {None}, frame : Nat, updated : BOOLEAN]

ListType ==
  [default_cue : Cue \cup {-1}, handle_end : {"HOLD", "START_AGAIN"}, persistent : BOOLEAN,
   running : RunState, cue : CueOrOne \cup {None}, frame : Nat,
   next_cue : CueOrOne \cup {None}, end_real : Handling,
   scale : Nat \ {0}, scale_valid : BOOLEAN, elapsed : Int, paused : Int, since : Int,
   last : LastType, out : Shown, held : BOOLEAN]

\* Every member has its type: in particular a cue number is one of the list, the
\* one past its end that run_cue lets through, or none, and time_scale > 0.
TypeOK ==
  /\ list \in ListType
  /\ lag \in 0 .. MaxLag
  /\ active \in BOOLEAN
  /\ AreStates(registry)
  /\ commands \in 0 .. MaxCommands

\* How long the current cue has been played, pauses not counted.
Played(f) == IF f.running = "PAUSE" THEN f.elapsed - f.paused ELSE f.elapsed

\* The cue rests on its last frame, whose time has come.
Over(f) == f.last.cue = f.cue /\ f.last.frame = f.frame

\* While a cue plays on from one of its key frames (calc_values), the
\* transition starts at exactly that frame's values and its time, and that time
\* is not in the future: after any mix of pauses, changes of speed, commands
\* and absences of the scene.  Persistent lists are left out: what the registry
\* keeps of them is less than this.
TransitionInPlace ==
  list.running = "PLAY" /\ ~list.persistent /\ Valid(list) /\ ~Over(list)
    /\ list.frame \in 1 .. LastFrame(list) =>
      /\ list.last.value = Key(list.cue, list.frame - 1)
      /\ list.since = list.elapsed - Stamp(list.cue, list.frame - 1)
      /\ list.since >= 0

\* A list that plays is never in the state in which the end of its cue is
\* ignored (HOLDING, last_frame_handling): every way back to PLAY, by command,
\* by scale, by default cue or from the registry, sets the handling anew.
NeverStuckHolding ==
  list.running = "PLAY" => list.end_real # "HOLDING"

\* The time spent in a pause does not count, whatever happens in it: a list
\* that was paused continues where it was, or starts a cue from its beginning.
\* (A cue without frames cannot be continued: timestamps.at throws.)
PausedTimeDoesNotCount ==
  [][list.running = "PAUSE" /\ list'.running # "STOP" /\ ~list.persistent
       /\ Valid(list) /\ Frames(list.cue) > 0 =>
         Played(list') \in {0, Played(list)}]_vars

\* While its scene stays active, a list plays on for ever only where it says
\* so: it comes again and again to a state in which it does not play, or plays
\* a cue that starts again, or would start again as a whole.
EndsUnlessRepeated ==
  (<>[]active) =>
    []<>(\/ list.running # "PLAY"
         \/ ~Valid(list)
         \/ EndHandling(list.cue) = "START_AGAIN"
         \/ list.handle_end = "START_AGAIN")

\* What commands, updates and scene changes keep true of a list in any order
\* (filter_cue.cpp:337-882).
ListSound == TypeOK /\ TransitionInPlace /\ NeverStuckHolding

\* A default cue starts when the scene becomes active (scene_activated): no time
\* of it has passed then.
DefaultCueStartsNow ==
  [][~active /\ active' /\ list.default_cue \in Cue /\ ~list.persistent =>
       Played(list') + lag' * list'.scale = 0]_vars
=============================================================================
