--------------------------- MODULE CueList_proofs ---------------------------
(***************************************************************************)
(* Proofs about CueList, for every list of cues: a cue that plays on is    *)
(* always on its way from the key frame it passed last, a list that plays  *)
(* is never one that ignores the end of its cue, and the time of a pause   *)
(* does not count.  And proofs about its parser, CueConfiguration, for any *)
(* mapping and texts: what a text says reaches the cues, or is refused.    *)
(***************************************************************************)
EXTENDS CueList, CueConfiguration, FiniteSetTheorems, WellFoundedInduction, TLAPS

(* What TransitionInPlace says, of any list that is not stopped: in a      *)
(* pause the time stamp of the last values ages with the pause.  The last  *)
(* values are exactly the key frame's, and not held (updated): otherwise   *)
(* the next frame would be passed with values that are not its own.        *)
Located(f) ==
  ~f.persistent /\ Valid(f) /\ ~Over(f) /\ f.frame \in 1 .. LastFrame(f) =>
    /\ f.last.value = Key(f.cue, f.frame - 1) /\ f.last.cue = f.cue
    /\ f.last.frame = f.frame - 1 /\ ~f.last.updated
    /\ f.since = f.elapsed - Stamp(f.cue, f.frame - 1)
    /\ IF f.running = "PAUSE" THEN f.since - f.paused >= 0 ELSE f.since >= 0

HandlingSet(f) == f.running = "PLAY" => f.end_real # "HOLDING"

Good(f) ==
  /\ f \in ListType
  /\ f.running # "STOP" => Located(f)
  /\ HandlingSet(f)

(* The registry lets a list play without setting its handling only while   *)
(* some entry is missing (Loaded), so a list that rests must not wait for  *)
(* its scene with such a registry: leaving the scene has filled it.        *)
HoldingIsStored ==
  ~active /\ list.persistent /\ list.end_real = "HOLDING" =>
    DOMAIN registry = DOMAIN StateType

CueInv == TypeOK /\ Good(list) /\ HoldingIsStored

-----------------------------------------------------------------------------
(* Types of single members. *)

LEMMA CuesTyped ==
  ASSUME NEW c \in Cue
  PROVE  /\ c \in Nat /\ c # None /\ c \in CueOrOne
         /\ Frames(c) \in Nat
         /\ EndHandling(c) \in Handling /\ EndHandling(c) # "HOLDING"
         /\ \A i \in 0 .. Frames(c) - 1 : Stamp(c, i) \in Nat
<1>1. c \in Nat /\ c # None /\ c \in CueOrOne
  BY CuesAssumption, SMTT(60) DEF Cue, CueOrOne, None
<1>2. Cues[c] \in CueType
  BY CuesAssumption, SMTT(60)
<1>3. Stamps(c) \in Seq(Nat)
  BY <1>2 DEF CueType, Stamps
<1>4. Cues[c].end_handling \in Handling \ {"HOLDING"}
  BY <1>2 DEF CueType
<1>5. EndHandling(c) \in Handling /\ EndHandling(c) # "HOLDING"
  BY <1>4 DEF EndHandling
<1>6. Frames(c) \in Nat
  BY <1>3 DEF Frames
<1>7. \A i \in 0 .. Frames(c) - 1 : Stamp(c, i) \in Nat
  BY <1>3 DEF Frames, Stamp
<1> QED BY <1>1, <1>5, <1>6, <1>7

LEMMA LastCue == NCues - 1 \in Cue /\ 0 \in Cue
  BY CuesAssumption, SMTT(60) DEF Cue

LEMMA SetRunning ==
  /\ \A f \in ListType, x \in RunState : [f EXCEPT !.running = x] \in ListType
  /\ \A f \in ListType : [f EXCEPT !.running = "STOP"] \in ListType
  /\ \A f \in ListType : [f EXCEPT !.running = "PLAY"] \in ListType
  /\ \A f \in ListType : [f EXCEPT !.running = "PAUSE"] \in ListType
  BY DEF ListType, RunState

LEMMA SetCue ==
  /\ \A f \in ListType, x \in CueOrOne \cup {None} : [f EXCEPT !.cue = x] \in ListType
  BY DEF ListType

LEMMA SetNext ==
  /\ \A f \in ListType, x \in CueOrOne \cup {None} : [f EXCEPT !.next_cue = x] \in ListType
  /\ \A f \in ListType : [f EXCEPT !.next_cue = None] \in ListType
  BY DEF ListType

LEMMA SetFrame ==
  /\ \A f \in ListType, x \in Nat : [f EXCEPT !.frame = x] \in ListType
  /\ \A f \in ListType : [f EXCEPT !.frame = 0] \in ListType
  BY DEF ListType

LEMMA SetEnd ==
  /\ \A f \in ListType, x \in Handling : [f EXCEPT !.end_real = x] \in ListType
  /\ \A f \in ListType : [f EXCEPT !.end_real = "HOLD"] \in ListType
  /\ \A f \in ListType : [f EXCEPT !.end_real = "HOLDING"] \in ListType
  BY DEF ListType, Handling

LEMMA SetScale ==
  /\ \A f \in ListType, x \in Nat \ {0} : [f EXCEPT !.scale = x] \in ListType
  BY DEF ListType

LEMMA SetScaleValid ==
  /\ \A f \in ListType, x \in BOOLEAN : [f EXCEPT !.scale_valid = x] \in ListType
  /\ \A f \in ListType : [f EXCEPT !.scale_valid = TRUE] \in ListType
  /\ \A f \in ListType : [f EXCEPT !.scale_valid = FALSE] \in ListType
  BY SMTT(30), ZenonT(60) DEF ListType

LEMMA SetElapsed ==
  /\ \A f \in ListType, x \in Int : [f EXCEPT !.elapsed = x] \in ListType
  /\ \A f \in ListType : [f EXCEPT !.elapsed = 0] \in ListType
  BY DEF ListType

LEMMA SetPaused ==
  /\ \A f \in ListType, x \in Int : [f EXCEPT !.paused = x] \in ListType
  /\ \A f \in ListType : [f EXCEPT !.paused = 0] \in ListType
  BY DEF ListType

LEMMA SetSince ==
  /\ \A f \in ListType, x \in Int : [f EXCEPT !.since = x] \in ListType
  /\ \A f \in ListType : [f EXCEPT !.since = 0] \in ListType
  BY DEF ListType

LEMMA SetLast ==
  /\ \A f \in ListType, x \in LastType : [f EXCEPT !.last = x] \in ListType
  BY DEF ListType

LEMMA SetOut ==
  /\ \A f \in ListType, x \in Shown : [f EXCEPT !.out = x] \in ListType
  BY DEF ListType

LEMMA SetHeld ==
  /\ \A f \in ListType, x \in BOOLEAN : [f EXCEPT !.held = x] \in ListType
  /\ \A f \in ListType : [f EXCEPT !.held = TRUE] \in ListType
  /\ \A f \in ListType : [f EXCEPT !.held = FALSE] \in ListType
  BY SMTT(30), ZenonT(60) DEF ListType

LEMMA SetDefault ==
  /\ \A f \in ListType, x \in Cue \cup {-1} : [f EXCEPT !.default_cue = x] \in ListType
  BY DEF ListType

(* Several members at once.                                               *)
LEMMA SetBeginning ==
  ASSUME NEW f \in ListType, NEW c \in CueOrOne \cup {None}, NEW e \in Handling
  PROVE  [f EXCEPT !.elapsed = 0, !.frame = 0, !.cue = c, !.end_real = e] \in ListType
  BY SetElapsed, SetFrame, SetCue, SetEnd

LEMMA SetOutputs ==
  ASSUME NEW f \in ListType, NEW l \in LastType, NEW o \in Shown
  PROVE  [f EXCEPT !.last = l, !.held = FALSE, !.out = o] \in ListType
  BY SetLast, SetHeld, SetOut

LEMMA SetMoments ==
  ASSUME NEW f \in ListType, NEW e \in Int, NEW s \in Int, NEW p \in Int
  PROVE  /\ [f EXCEPT !.elapsed = e, !.since = s] \in ListType
         /\ [f EXCEPT !.elapsed = e, !.since = s, !.paused = p] \in ListType
  BY SetElapsed, SetSince, SetPaused

LEMMA Members ==
  ASSUME NEW f \in ListType
  PROVE  /\ f.running \in RunState /\ f.cue \in CueOrOne \cup {None} /\ f.frame \in Nat
         /\ f.next_cue \in CueOrOne \cup {None} /\ f.end_real \in Handling
         /\ f.scale \in Nat \ {0} /\ f.elapsed \in Int /\ f.paused \in Int
         /\ f.since \in Int /\ f.last \in LastType /\ f.out \in Shown
         /\ f.held \in BOOLEAN /\ f.persistent \in BOOLEAN /\ f.scale_valid \in BOOLEAN
         /\ f.default_cue \in Cue \cup {-1}
  BY DEF ListType

LEMMA LastUnset ==
  ASSUME NEW f \in ListType
  PROVE  /\ [f EXCEPT !.last.updated = FALSE] = [f EXCEPT !.last = [f.last EXCEPT !.updated = FALSE]]
         /\ [f.last EXCEPT !.updated = FALSE] \in LastType
         /\ \A m \in {"value", "cue", "frame"} : [f.last EXCEPT !.updated = FALSE][m] = f.last[m]
         /\ ~[f.last EXCEPT !.updated = FALSE].updated
         /\ [f EXCEPT !.last.updated = FALSE] \in ListType
<1>1. [f EXCEPT !.last.updated = FALSE] = [f EXCEPT !.last = [f.last EXCEPT !.updated = FALSE]]
  BY DEF ListType
<1>2. /\ [f.last EXCEPT !.updated = FALSE] \in LastType
      /\ \A m \in {"value", "cue", "frame"} : [f.last EXCEPT !.updated = FALSE][m] = f.last[m]
      /\ ~[f.last EXCEPT !.updated = FALSE].updated
  BY DEF ListType, LastType
<1> QED BY <1>1, <1>2, SetLast

-----------------------------------------------------------------------------
(* The private methods. *)

LEMMA UpdateLastValuesTyped ==
  ASSUME NEW f \in ListType
  PROVE  UpdateLastValues(f) \in ListType
<1> DEFINE l == IF f.last.updated THEN f.last
                ELSE [value |-> f.out, cue |-> f.cue, frame |-> f.frame, updated |-> TRUE]
<1>1. l \in LastType
  BY DEF ListType, LastType
<1>2. UpdateLastValues(f) = [f EXCEPT !.since = 0, !.last = l]
  BY DEF UpdateLastValues, ListType
<1> HIDE DEF l
<1> QED BY <1>1, <1>2, SetSince, SetLast, ZenonT(60)

(* A list whose cue begins: whatever it was before, nothing is pending.    *)
Begun(g, f) ==
  /\ g \in ListType
  /\ g.cue \in Cue /\ g.frame = 0 /\ g.elapsed = 0
  /\ g.end_real # "HOLDING"
  /\ g.running = f.running /\ g.persistent = f.persistent /\ g.scale_valid = f.scale_valid

LEMMA ResetBegins ==
  ASSUME NEW f \in ListType
  PROVE  /\ Begun(ResetForStartingCue(f), f)
         /\ Valid(f) => ResetForStartingCue(f).cue = f.cue
<1> DEFINE c == IF Valid(f) THEN f.cue ELSE NCues - 1
           g == UpdateLastValues(f)
           e == EndHandling(c)
           h == ResetForStartingCue(f)
<1>1. c \in Cue /\ (Valid(f) => c = f.cue)
  BY LastCue DEF Valid
<1>2. e \in Handling /\ c \in CueOrOne \cup {None} /\ e # "HOLDING"
  BY <1>1, CuesTyped
<1>3. g \in ListType
  BY UpdateLastValuesTyped
<1>4. /\ g.running = f.running /\ g.persistent = f.persistent
      /\ g.scale_valid = f.scale_valid
  BY DEF UpdateLastValues, ListType
<1>5. h = [g EXCEPT !.elapsed = 0, !.frame = 0, !.cue = c, !.end_real = e]
  BY DEF ResetForStartingCue
<1> HIDE DEF c, g, e, h
<1>6. h \in ListType
  BY <1>2, <1>3, <1>5, SetBeginning
<1>7. /\ h.cue = c /\ h.frame = 0 /\ h.elapsed = 0 /\ h.end_real = e
      /\ h.running = g.running /\ h.persistent = g.persistent
      /\ h.scale_valid = g.scale_valid
  BY <1>3, <1>5 DEF ListType
<1>8. Begun(h, f) /\ (Valid(f) => h.cue = f.cue)
  BY <1>1, <1>2, <1>4, <1>6, <1>7 DEF Begun
<1> QED BY <1>8 DEF h

LEMMA BegunIsGood ==
  ASSUME NEW f, NEW g, Begun(g, f)
  PROVE  Good(g) /\ Located(g) /\ Valid(g)
  BY DEF Begun, Good, Located, HandlingSet, Valid

LEMMA SelectTyped ==
  ASSUME NEW f \in ListType, NEW c \in Cue
  PROVE  /\ Select(f, c) \in ListType
         /\ Select(f, c).running = f.running /\ Select(f, c).persistent = f.persistent
         /\ Select(f, c).scale_valid = f.scale_valid
         /\ Valid(Select(f, c))
<1>1. CASE f.next_cue \in Cue
  <2>1. f.next_cue \in CueOrOne \cup {None} /\ None \in CueOrOne \cup {None}
    BY <1>1, CuesTyped
  <2>2. Select(f, c) = [f EXCEPT !.cue = f.next_cue, !.next_cue = None]
    BY <1>1 DEF Select
  <2>3. Select(f, c) \in ListType
    BY <2>1, <2>2, SetCue, SetNext
  <2> QED BY <1>1, <2>2, <2>3 DEF ListType, Valid
<1>2. CASE f.next_cue \notin Cue
  <2>1. Select(f, c) = [f EXCEPT !.cue = c] /\ c \in CueOrOne
    BY <1>2, CuesTyped DEF Select
  <2>2. Select(f, c) \in ListType
    BY <2>1, SetCue
  <2> QED BY <2>1, <2>2 DEF ListType, Valid
<1> QED BY <1>1, <1>2

LEMMA HoldValuesTyped ==
  ASSUME NEW f \in ListType
  PROVE  /\ HoldValues(f) \in ListType
         /\ \A m \in {"running", "cue", "frame", "persistent", "end_real", "elapsed",
                      "paused", "since", "last", "scale_valid"} : HoldValues(f)[m] = f[m]
<1>1. f.last.value \in Shown
  BY DEF ListType, LastType
<1>2. HoldValues(f) \in ListType
  BY <1>1, SetOut, SetHeld DEF HoldValues
<1> QED BY <1>1, <1>2 DEF HoldValues, ListType

(* Only the outputs follow the transition: its start, kept as the last     *)
(* values, stays where it is.                                              *)
LEMMA InterpolateKeeps ==
  ASSUME NEW f \in ListType, f.cue \in Cue
  PROVE  /\ Interpolate(f) \in ListType
         /\ \A m \in {"running", "cue", "frame", "persistent", "end_real", "elapsed",
                      "paused", "since", "scale_valid"} : Interpolate(f)[m] = f[m]
         /\ f.frame \in 0 .. LastFrame(f) =>
              Interpolate(f).last = [f.last EXCEPT !.updated = FALSE]
<1>1. CASE f.frame >= Frames(f.cue)
  <2>1. Interpolate(f) = f
    BY <1>1 DEF Interpolate
  <2>2. Frames(f.cue) \in Nat /\ f.frame \in Nat
    BY CuesTyped, Members
  <2> QED BY <1>1, <2>1, <2>2 DEF LastFrame
<1>2. CASE ~(f.frame >= Frames(f.cue))
  <2> DEFINE span == Stamp(f.cue, f.frame) - f.elapsed + f.since
             o == CASE span <= 0 \/ f.since = span -> Key(f.cue, f.frame)
                    [] span > 0 /\ f.since = 0 -> f.last.value
                    [] span > 0 /\ 0 < f.since /\ f.since < span -> <<"between">>
                    [] span > 0 /\ (f.since < 0 \/ span < f.since) -> <<"beyond">>
             l == [f.last EXCEPT !.updated = FALSE]
  <2>1. f.frame \in Nat /\ f.frame < Frames(f.cue) /\ f.elapsed \in Int /\ f.since \in Int
    BY <1>2, CuesTyped, Members
  <2>2. Stamp(f.cue, f.frame) \in Nat
    BY <2>1, CuesTyped
  <2>3. span \in Int
    BY <2>1, <2>2
  <2>4. o \in Shown
    <3>1. Key(f.cue, f.frame) \in Shown /\ f.last.value \in Shown
      BY <2>1 DEF Key, Shown, ListType, LastType
    <3>2. <<"between">> \in Shown /\ <<"beyond">> \in Shown
      BY DEF Shown
    <3> HIDE DEF span
    <3> QED BY <2>1, <2>3, <3>1, <3>2
  <2>5. l \in LastType
    BY LastUnset
  <2>6. Interpolate(f) = [f EXCEPT !.last.updated = FALSE, !.held = FALSE, !.out = o]
    BY <1>2 DEF Interpolate
  <2>7. Interpolate(f) = [f EXCEPT !.last = l, !.held = FALSE, !.out = o]
    <3> HIDE DEF o
    <3> QED BY <2>6, LastUnset
  <2> HIDE DEF o, l
  <2>8. Interpolate(f) \in ListType
    BY <2>4, <2>5, <2>7, SetOutputs, ZenonT(60)
  <2>9. Interpolate(f).last = l
    BY <2>7 DEF ListType
  <2> QED BY <2>7, <2>8, <2>9 DEF ListType, l
<1> QED BY <1>1, <1>2

LEMMA ValuesFromCueTyped ==
  ASSUME NEW f \in ListType, f.cue \in Cue
  PROVE  /\ ValuesFromCue(f) \in ListType
         /\ \A m \in {"running", "cue", "frame", "persistent", "end_real", "elapsed",
                      "paused", "since", "scale_valid"} : ValuesFromCue(f)[m] = f[m]
         /\ ValuesFromCue(f).last = [value |-> Key(f.cue, f.frame), cue |-> f.cue,
                                     frame |-> f.frame, updated |-> TRUE]
<1> DEFINE l == [value |-> Key(f.cue, f.frame), cue |-> f.cue, frame |-> f.frame,
                 updated |-> TRUE]
<1>1. l \in LastType
  BY Members DEF Key, Shown, LastType
<1>2. ValuesFromCue(f) = [f EXCEPT !.last = l]
  BY DEF ValuesFromCue
<1> HIDE DEF l
<1>3. ValuesFromCue(f) \in ListType
  BY <1>1, <1>2, SetLast
<1> QED BY <1>2, <1>3 DEF ListType, l

(* A frame is passed at its own time, with its own values unless others    *)
(* are held.                                                               *)
LEMMA PassFrameTyped ==
  ASSUME NEW f \in ListType, f.cue \in Cue, f.frame \in 0 .. LastFrame(f)
  PROVE  /\ PassFrame(f) \in ListType
         /\ \A m \in {"running", "cue", "frame", "persistent", "end_real", "elapsed",
                      "paused", "scale_valid"} : PassFrame(f)[m] = f[m]
         /\ PassFrame(f).since = f.elapsed - Stamp(f.cue, f.frame)
         /\ ~f.last.updated => PassFrame(f).last = [value |-> Key(f.cue, f.frame),
                   cue |-> f.cue, frame |-> f.frame, updated |-> TRUE]
<1> DEFINE g == IF f.last.updated THEN f ELSE ValuesFromCue(f)
           s == f.elapsed - Stamp(f.cue, f.frame)
<1>1. g \in ListType
  BY ValuesFromCueTyped
<1>2. \A m \in {"running", "cue", "frame", "persistent", "end_real", "elapsed",
                "paused", "scale_valid"} : g[m] = f[m]
  <2>1. CASE f.last.updated
    BY <2>1
  <2>2. CASE ~f.last.updated
    BY <2>2, ValuesFromCueTyped, ZenonT(60)
  <2> QED BY <2>1, <2>2
<1>3. ~f.last.updated => g.last = [value |-> Key(f.cue, f.frame), cue |-> f.cue,
                                    frame |-> f.frame, updated |-> TRUE]
  BY ValuesFromCueTyped
<1>4. s \in Int
  BY CuesTyped, Members DEF LastFrame
<1>5. PassFrame(f) = [g EXCEPT !.since = s]
  BY DEF PassFrame
<1> HIDE DEF g, s
<1>6. PassFrame(f) \in ListType
  BY <1>1, <1>4, <1>5, SetSince
<1> QED BY <1>1, <1>2, <1>3, <1>5, <1>6 DEF ListType, s

-----------------------------------------------------------------------------
(* calc_values. *)

(* A list that rests keeps its place, and plays no more.                   *)
LEMMA RestStops ==
  ASSUME NEW f \in ListType, Rests(f), f.end_real # "HOLDING"
  PROVE  /\ Rest(f) \in ListType
         /\ Rest(f).running \in {"STOP", "PAUSE"}
         /\ Rest(f).persistent = f.persistent /\ Rest(f).cue = f.cue
         /\ Rest(f).frame = f.frame /\ Rest(f).last = f.last
<1> DEFINE h == HoldValues(f)
<1>1. /\ h \in ListType
      /\ h.persistent = f.persistent /\ h.cue = f.cue
      /\ h.frame = f.frame /\ h.last = f.last
  BY HoldValuesTyped
<1>2. CASE f.end_real = "HOLD"
  <2> DEFINE r == Rest(f)
  <2>1. r = [h EXCEPT !.paused = 0, !.running = "PAUSE", !.end_real = "HOLDING"]
    BY <1>2 DEF Rest
  <2> HIDE DEF h, r
  <2>2. r \in ListType
    BY <1>1, <2>1, SetPaused, SetRunning, SetEnd
  <2>3. /\ r.running = "PAUSE" /\ r.persistent = h.persistent /\ r.cue = h.cue
        /\ r.frame = h.frame /\ r.last = h.last
    BY <1>1, <2>1 DEF ListType
  <2> QED BY <1>1, <2>2, <2>3 DEF r
<1>3. CASE f.end_real = "NEXT_CUE"
  <2> DEFINE r == Rest(f)
  <2>1. r = [h EXCEPT !.running = "STOP"]
    BY <1>3 DEF Rest
  <2> HIDE DEF h, r
  <2>2. r \in ListType
    BY <1>1, <2>1, SetRunning
  <2>3. /\ r.running = "STOP" /\ r.persistent = h.persistent /\ r.cue = h.cue
        /\ r.frame = h.frame /\ r.last = h.last
    BY <1>1, <2>1 DEF ListType
  <2> QED BY <1>1, <2>2, <2>3 DEF r
<1> QED BY <1>2, <1>3 DEF Rests

LEMMA StartNextBegins ==
  ASSUME NEW f \in ListType, f.cue \in Cue
  PROVE  Begun(StartNext(f), f)
<1> DEFINE c == IF f.end_real = "START_AGAIN" THEN f.cue ELSE Following(f.cue)
<1>1. c \in Cue
  BY LastCue, CuesAssumption, SMTT(60) DEF Following, Cue
<1>2. Select(f, c) \in ListType
      /\ Select(f, c).running = f.running /\ Select(f, c).persistent = f.persistent
      /\ Select(f, c).scale_valid = f.scale_valid
  BY <1>1, SelectTyped
<1>3. StartNext(f) = ResetForStartingCue(Select(f, c))
  BY DEF StartNext
<1> HIDE DEF c
<1>4. Begun(ResetForStartingCue(Select(f, c)), Select(f, c))
  BY <1>2, ResetBegins
<1> QED BY <1>2, <1>3, <1>4 DEF Begun

LEMMA InterpolateBegun ==
  ASSUME NEW f, NEW g \in ListType, Begun(g, f)
  PROVE  Begun(Interpolate(g), f)
<1>1. g.cue \in Cue
  BY DEF Begun
<1> QED BY <1>1, InterpolateKeeps DEF Begun

(* What a playing list becomes in calc_values.                             *)
LEMMA CalcValuesGood ==
  ASSUME NEW f, Good(f), f.running = "PLAY", Valid(f)
  PROVE  Good(CalcValues(f)) /\ CalcValues(f).persistent = f.persistent
<1>1. /\ f \in ListType /\ f.cue \in Cue /\ f.frame \in Nat /\ Frames(f.cue) \in Nat
      /\ f.last \in LastType /\ f.last.frame \in Nat /\ f.elapsed \in Int
  BY CuesTyped, Members DEF Good, Valid, LastType
<1>2. Located(f) /\ f.end_real # "HOLDING"
  BY DEF Good, HandlingSet
<1>3. CASE f.frame >= Frames(f.cue)
  <2>1. CASE Rests(f)
    <3>1. CalcValues(f) = Rest(f)
      BY <1>3, <2>1 DEF CalcValues
    <3>2. Good(Rest(f)) /\ Rest(f).persistent = f.persistent
      BY <1>1, <1>2, <1>3, <2>1, RestStops DEF Good, Located, HandlingSet, LastFrame
    <3> QED BY <3>1, <3>2
  <2>2. CASE ~Rests(f)
    BY <1>1, <1>3, <2>2, StartNextBegins, BegunIsGood DEF CalcValues, Begun
  <2> QED BY <2>1, <2>2
<1>4. CASE f.frame < Frames(f.cue)
  <2> DEFINE following == f.last.frame = f.frame - 1 /\ f.last.cue = f.cue
             g == IF following THEN f ELSE [f EXCEPT !.last.updated = FALSE]
             l == IF following THEN f.last ELSE [f.last EXCEPT !.updated = FALSE]
             p == PassFrame(g)
  <2>1. /\ g \in ListType /\ g.last = l
        /\ \A m \in {"running", "cue", "frame", "persistent", "end_real", "elapsed",
                     "paused", "since", "scale_valid"} : g[m] = f[m]
    <3>1. CASE following
      BY <1>1, <3>1
    <3>2. CASE ~following
      BY <1>1, <3>2, LastUnset DEF ListType
    <3> QED BY <3>1, <3>2
  <2>2. f.frame \in 0 .. LastFrame(f)
    BY <1>1, <1>4 DEF LastFrame
  <2>3. ~f.persistent => ~l.updated
    <3>1. CASE following
      BY <1>1, <1>2, <2>2, <3>1 DEF Located, Over, Valid
    <3>2. CASE ~following
      BY <1>1, <3>2 DEF LastType
    <3> QED BY <3>1, <3>2
  <2>4. /\ p \in ListType
        /\ \A m \in {"running", "cue", "frame", "persistent", "end_real", "elapsed",
                     "paused", "scale_valid"} : p[m] = f[m]
        /\ p.since = f.elapsed - Stamp(f.cue, f.frame)
        /\ ~f.persistent => p.last = [value |-> Key(f.cue, f.frame), cue |-> f.cue,
                                      frame |-> f.frame, updated |-> TRUE]
    <3> HIDE DEF g, l
    <3>1. g \in ListType /\ g.cue \in Cue /\ g.frame \in 0 .. LastFrame(g)
      BY <1>1, <2>1, <2>2 DEF LastFrame
    <3> QED BY <2>1, <2>3, <3>1, PassFrameTyped
  <2>5. Stamp(f.cue, f.frame) \in Nat
    BY <1>1, <1>4, CuesTyped
  <2>6. CASE f.elapsed < Stamp(f.cue, f.frame)
    <3> DEFINE h == Interpolate(g)
    <3>1. CalcValues(f) = h
      BY <1>1, <1>4, <2>5, <2>6 DEF CalcValues
    <3>2. /\ h \in ListType
          /\ \A m \in {"running", "cue", "frame", "persistent", "end_real", "elapsed",
                       "paused", "since", "scale_valid"} : h[m] = f[m]
          /\ h.last = [g.last EXCEPT !.updated = FALSE]
      <4> HIDE DEF g, l
      <4>1. g \in ListType /\ g.cue \in Cue /\ g.frame \in 0 .. LastFrame(g)
        BY <1>1, <2>1, <2>2 DEF LastFrame
      <4> QED BY <2>1, <4>1, InterpolateKeeps
    <3>3. /\ h.last.cue = f.last.cue /\ h.last.frame = f.last.frame
          /\ h.last.value = f.last.value /\ ~h.last.updated
      <4>1. \A m \in {"value", "cue", "frame"} : l[m] = f.last[m]
        BY <1>1, LastUnset
      <4> HIDE DEF g, l, h
      <4> QED BY <2>1, <3>2, <4>1, LastUnset
    <3> HIDE DEF h
    <3>4. Good(h)
      BY <1>2, <3>2, <3>3 DEF Good, Located, HandlingSet, Over, Valid, LastFrame
    <3> QED BY <3>1, <3>2, <3>4
  <2>7. CASE f.elapsed >= Stamp(f.cue, f.frame) /\ f.frame < LastFrame(f)
    <3> DEFINE q == [p EXCEPT !.frame = f.frame + 1]
               h == Interpolate(q)
    <3>1. CalcValues(f) = h
      <4>1. CalcValues(f) = Interpolate([p EXCEPT !.frame = @ + 1])
        BY <1>1, <1>4, <2>5, <2>7 DEF CalcValues
      <4>2. [p EXCEPT !.frame = @ + 1] = q
        <5> HIDE DEF p
        <5> QED BY <2>4 DEF ListType
      <4> QED BY <4>1, <4>2
    <3> HIDE DEF p
    <3>2. /\ q \in ListType /\ q.frame = f.frame + 1 /\ q.last = p.last
          /\ \A m \in {"running", "cue", "persistent", "end_real", "elapsed", "paused",
                       "since", "scale_valid"} : q[m] = p[m]
      <4>1. f.frame + 1 \in Nat
        BY <1>1
      <4>2. q \in ListType
        BY <2>4, <4>1, SetFrame
      <4> QED BY <2>4, <4>2 DEF ListType
    <3> HIDE DEF q
    <3>3. q.cue \in Cue /\ q.frame \in 0 .. LastFrame(q)
      BY <1>1, <2>4, <2>7, <3>2 DEF LastFrame
    <3>4. /\ h \in ListType
          /\ \A m \in {"running", "cue", "frame", "persistent", "end_real", "elapsed",
                       "paused", "since", "scale_valid"} : h[m] = q[m]
          /\ h.last = [q.last EXCEPT !.updated = FALSE]
      BY <3>2, <3>3, InterpolateKeeps
    <3> HIDE DEF h
    <3>5. ~f.persistent => /\ h.last.value = Key(f.cue, f.frame) /\ h.last.cue = f.cue
                           /\ h.last.frame = f.frame /\ ~h.last.updated
      BY <2>4, <3>2, <3>4, LastUnset
    <3>6. h.since = h.elapsed - Stamp(h.cue, h.frame - 1) /\ h.since >= 0
      BY <1>1, <2>4, <2>5, <2>7, <3>2, <3>4
    <3>7. h.frame - 1 = f.frame /\ h.cue = f.cue /\ h.running = "PLAY" /\ h.persistent = f.persistent
          /\ h.end_real # "HOLDING"
      BY <1>1, <1>2, <2>4, <3>2, <3>4
    <3>8. Good(h)
      BY <3>4, <3>5, <3>6, <3>7 DEF Good, Located, HandlingSet
    <3> QED BY <3>1, <3>7, <3>8
  <2>8. CASE f.elapsed >= Stamp(f.cue, f.frame) /\ f.frame = LastFrame(f)
    <3>1. CalcValues(f) = IF Rests(p) THEN Rest(p) ELSE Interpolate(StartNext(p))
      BY <1>1, <1>4, <2>5, <2>8 DEF CalcValues, LastFrame
    <3> HIDE DEF p
    <3>2. CASE Rests(p)
      <4>1. /\ Rest(p) \in ListType /\ Rest(p).running \in {"STOP", "PAUSE"}
            /\ Rest(p).persistent = f.persistent /\ Rest(p).cue = f.cue
            /\ Rest(p).frame = f.frame /\ Rest(p).last = p.last
        BY <1>2, <2>4, <3>2, RestStops
      <4>2. ~f.persistent => Over(Rest(p))
        BY <2>4, <4>1 DEF Over
      <4> QED BY <3>1, <3>2, <4>1, <4>2 DEF Good, Located, HandlingSet
    <3>3. CASE ~Rests(p)
      <4>1. Begun(StartNext(p), p)
        BY <1>1, <2>4, StartNextBegins
      <4>2. Begun(Interpolate(StartNext(p)), p)
        BY <4>1, InterpolateBegun DEF Begun
      <4> QED BY <2>4, <3>1, <3>3, <4>2, BegunIsGood DEF Begun
    <3> QED BY <3>2, <3>3
  <2>9. f.elapsed < Stamp(f.cue, f.frame) \/ f.elapsed >= Stamp(f.cue, f.frame)
    BY <1>1, <2>5
  <2> QED BY <1>1, <2>2, <2>6, <2>7, <2>8, <2>9 DEF LastFrame
<1> QED BY <1>1, <1>3, <1>4

-----------------------------------------------------------------------------
(* Time and commands. *)

LEMMA ReadTimeGood ==
  ASSUME NEW f, Good(f), lag \in Nat
  PROVE  /\ Good(ReadTime(f))
         /\ \A m \in {"running", "cue", "frame", "persistent", "end_real", "scale_valid"} :
              ReadTime(f)[m] = f[m]
         /\ f.running = "PAUSE" =>
              ReadTime(f).elapsed - ReadTime(f).paused = f.elapsed - f.paused
<1> DEFINE d == IF AgedEnough(f) THEN 0 ELSE lag * f.scale
           p == IF f.running = "PAUSE" \/ (f.persistent /\ f.paused <= MaxAge)
                THEN f.paused + d ELSE f.paused
           r == ReadTime(f)
<1>1. /\ f \in ListType /\ f.elapsed \in Int /\ f.since \in Int /\ f.paused \in Int
      /\ f.scale \in Nat
  BY Members DEF Good
<1>2. d \in Nat
  BY <1>1
<1>3. r = [f EXCEPT !.elapsed = f.elapsed + d, !.since = f.since + d, !.paused = p]
  BY <1>1 DEF ReadTime, ListType
<1> HIDE DEF d
<1>4. p \in Int /\ f.elapsed + d \in Int /\ f.since + d \in Int
  BY <1>1, <1>2
<1>5. f.running = "PAUSE" => p = f.paused + d
  OBVIOUS
<1> HIDE DEF r, p
<1>6. r \in ListType
  BY <1>1, <1>3, <1>4, SetMoments
<1>7. /\ r.running = f.running /\ r.cue = f.cue /\ r.frame = f.frame
      /\ r.persistent = f.persistent /\ r.end_real = f.end_real
      /\ r.scale_valid = f.scale_valid /\ r.last = f.last
      /\ r.elapsed = f.elapsed + d /\ r.since = f.since + d /\ r.paused = p
  BY <1>1, <1>3 DEF ListType
<1>8. f.running # "STOP" => Located(r)
  <2> SUFFICES ASSUME f.running # "STOP", ~r.persistent, Valid(r), ~Over(r),
                      r.frame \in 1 .. LastFrame(r)
               PROVE  /\ r.last.value = Key(r.cue, r.frame - 1) /\ r.last.cue = r.cue
                      /\ r.last.frame = r.frame - 1 /\ ~r.last.updated
                      /\ r.since = r.elapsed - Stamp(r.cue, r.frame - 1)
                      /\ IF r.running = "PAUSE" THEN r.since - r.paused >= 0 ELSE r.since >= 0
    BY DEF Located
  <2>1. /\ f.last.value = Key(f.cue, f.frame - 1) /\ f.last.cue = f.cue
        /\ f.last.frame = f.frame - 1 /\ ~f.last.updated
        /\ f.since = f.elapsed - Stamp(f.cue, f.frame - 1)
        /\ IF f.running = "PAUSE" THEN f.since - f.paused >= 0 ELSE f.since >= 0
    BY <1>7 DEF Good, Located, Valid, Over, LastFrame
  <2>2. Stamp(f.cue, f.frame - 1) \in Nat
    BY <1>7, CuesTyped DEF Valid, LastFrame
  <2> QED BY <1>1, <1>2, <1>4, <1>5, <1>7, <2>1, <2>2
<1>9. Good(r)
  BY <1>6, <1>7, <1>8 DEF Good, HandlingSet
<1> QED BY <1>1, <1>2, <1>5, <1>7, <1>9 DEF r

LEMMA ShiftTyped ==
  ASSUME NEW f \in ListType
  PROVE  /\ ShiftByPause(f) \in ListType
         /\ \A m \in {"running", "cue", "frame", "persistent", "end_real", "scale_valid",
                      "last"} : ShiftByPause(f)[m] = f[m]
         /\ ShiftByPause(f).elapsed = f.elapsed - f.paused
         /\ ShiftByPause(f).since = f.since - f.paused
<1> DEFINE r == ShiftByPause(f)
           e == f.elapsed - f.paused
           s == f.since - f.paused
<1>1. e \in Int /\ s \in Int
  BY Members
<1>2. r = [f EXCEPT !.elapsed = e, !.since = s]
  BY DEF ShiftByPause, ListType
<1> HIDE DEF r, e, s
<1>3. r \in ListType
  BY <1>1, <1>2, SetMoments
<1> QED BY <1>2, <1>3 DEF ListType, r, e, s

(* A command may end the list's ignoring of the end of its cue, not begin  *)
(* it.                                                                     *)
Commanded(g, f) ==
  /\ Good(g) /\ g.persistent = f.persistent
  /\ g.end_real = "HOLDING" => f.end_real = "HOLDING"

LEMMA PlayingGood ==
  ASSUME NEW g \in ListType, Valid(g), NEW mode,
         ~g.persistent => Located([g EXCEPT !.running = "PLAY"])
  PROVE  /\ Good(Playing(g, mode)) /\ Playing(g, mode).persistent = g.persistent
         /\ Playing(g, mode).end_real # "HOLDING" /\ Playing(g, mode).elapsed = g.elapsed
         /\ Playing(g, mode).running = "PLAY"
<1> DEFINE e == IF mode = "to_next_cue" THEN "HOLD" ELSE EndHandling(g.cue)
           r == Playing(g, mode)
           h == [g EXCEPT !.running = "PLAY"]
<1>1. e \in Handling /\ e # "HOLDING"
  BY CuesTyped DEF Valid, Handling
<1>2. r = [g EXCEPT !.running = "PLAY", !.end_real = e]
  BY DEF Playing
<1>3. h \in ListType
  BY SetRunning
<1>4. r = [h EXCEPT !.end_real = e]
  BY <1>2
<1>5. h.running = "PLAY" /\ h.persistent = g.persistent /\ h.elapsed = g.elapsed
  BY DEF ListType
<1>6. h.persistent \/ Located(h)
  BY <1>5
<1> HIDE DEF e, r, h
<1>7. r \in ListType
  BY <1>1, <1>3, <1>4, SetEnd
<1>8. /\ r.end_real = e
      /\ \A m \in {"running", "cue", "frame", "persistent", "elapsed", "paused", "since",
                   "last"} : r[m] = h[m]
  BY <1>3, <1>4 DEF ListType
<1>9. Located(r)
  BY <1>6, <1>8 DEF Located, Valid, Over, LastFrame
<1> QED BY <1>1, <1>5, <1>7, <1>8, <1>9 DEF Good, HandlingSet, r

LEMMA PlayingBegun ==
  ASSUME NEW f, NEW g, Begun(g, f), NEW mode
  PROVE  /\ Good(Playing(g, mode)) /\ Playing(g, mode).persistent = f.persistent
         /\ Playing(g, mode).end_real # "HOLDING" /\ Playing(g, mode).elapsed = 0
         /\ Playing(g, mode).running = "PLAY"
<1>1. g \in ListType /\ g.cue \in Cue /\ g.frame = 0
  BY DEF Begun
<1>2. [g EXCEPT !.running = "PLAY"].frame = 0
  BY <1>1 DEF ListType
<1>3. Located([g EXCEPT !.running = "PLAY"])
  BY <1>2 DEF Located
<1> QED BY <1>1, <1>3, PlayingGood DEF Begun, Valid

(* A list that goes on after a pause is where it was, or at the beginning  *)
(* of a cue.                                                               *)
LEMMA ContinuePlays ==
  ASSUME NEW f, Good(f), f.running = "PAUSE", Valid(f), NEW mode
  PROVE  LET r == Playing(Continue(ShiftByPause(f)), mode) IN
         /\ Good(r) /\ r.persistent = f.persistent /\ r.end_real # "HOLDING"
         /\ r.running = "PLAY" /\ r.elapsed \in {0, f.elapsed - f.paused}
<1> DEFINE h == ShiftByPause(f)
<1>1. /\ f \in ListType
      /\ h \in ListType /\ h.cue = f.cue /\ h.frame = f.frame /\ h.last = f.last
      /\ h.persistent = f.persistent
      /\ h.elapsed = f.elapsed - f.paused /\ h.since = f.since - f.paused
  BY ShiftTyped DEF Good
<1> HIDE DEF h
<1>2. Valid(h)
  BY <1>1 DEF Valid
<1>3. CASE ~Finished(h)
  <2> DEFINE k == [h EXCEPT !.running = "PLAY"]
  <2>1. /\ k.running = "PLAY" /\ k.cue = f.cue /\ k.frame = f.frame /\ k.last = f.last
        /\ k.persistent = f.persistent
        /\ k.elapsed = f.elapsed - f.paused /\ k.since = f.since - f.paused
    BY <1>1 DEF ListType
  <2>2. Located(k)
    <3> HIDE DEF k
    <3> SUFFICES ASSUME ~k.persistent, ~Over(k), k.frame \in 1 .. LastFrame(k)
                 PROVE  /\ k.last.value = Key(k.cue, k.frame - 1) /\ k.last.cue = k.cue
                        /\ k.last.frame = k.frame - 1 /\ ~k.last.updated
                        /\ k.since = k.elapsed - Stamp(k.cue, k.frame - 1)
                        /\ k.since >= 0
      BY <2>1 DEF Located
    <3>1. /\ f.last.value = Key(f.cue, f.frame - 1) /\ f.last.cue = f.cue
          /\ f.last.frame = f.frame - 1 /\ ~f.last.updated
          /\ f.since = f.elapsed - Stamp(f.cue, f.frame - 1)
          /\ f.since - f.paused >= 0
      BY <2>1 DEF Good, Located, Over, LastFrame
    <3>2. Stamp(f.cue, f.frame - 1) \in Nat
      BY <2>1, CuesTyped DEF Valid, LastFrame
    <3>3. f.since \in Int /\ f.elapsed \in Int /\ f.paused \in Int
      BY <1>1, Members
    <3> QED BY <2>1, <3>1, <3>2, <3>3
  <2>3. Continue(h) = h
    BY <1>3 DEF Continue
  <2>4. /\ Good(Playing(h, mode)) /\ Playing(h, mode).persistent = h.persistent
        /\ Playing(h, mode).end_real # "HOLDING" /\ Playing(h, mode).elapsed = h.elapsed
        /\ Playing(h, mode).running = "PLAY"
    BY <1>1, <1>2, <2>2, PlayingGood
  <2> QED BY <1>1, <2>3, <2>4 DEF h
<1>4. CASE Finished(h)
  <2> DEFINE s == Select(h, Following(h.cue))
             c == Continue(h)
  <2>1. Following(h.cue) \in Cue
    BY <1>2, LastCue, CuesAssumption, SMTT(60) DEF Following, Cue, Valid
  <2>2. s \in ListType /\ s.persistent = h.persistent
    BY <1>1, <2>1, SelectTyped
  <2> HIDE DEF s
  <2>3. c = ResetForStartingCue(s) \/ c = ResetForStartingCue(h)
    BY <1>4 DEF Continue, s
  <2>4. Begun(c, s) \/ Begun(c, h)
    BY <1>1, <2>2, <2>3, ResetBegins
  <2> HIDE DEF c
  <2>5. /\ Good(Playing(c, mode)) /\ Playing(c, mode).persistent = h.persistent
        /\ Playing(c, mode).end_real # "HOLDING" /\ Playing(c, mode).elapsed = 0
        /\ Playing(c, mode).running = "PLAY"
    BY <2>2, <2>4, PlayingBegun
  <2> QED BY <1>1, <2>5 DEF h, c
<1> QED BY <1>3, <1>4

LEMMA PlayGood ==
  ASSUME NEW f, Good(f), NEW mode
  PROVE  /\ Commanded(Play(f, mode), f)
         /\ f.running = "PAUSE" /\ ~PlayThrows(f) =>
              /\ Play(f, mode).running = "PLAY"
              /\ Play(f, mode).elapsed \in {0, f.elapsed - f.paused}
<1>1. f \in ListType /\ f.running \in RunState
  BY Members DEF Good
<1>2. CASE f.running = "STOP"
  <2> DEFINE s == Select(f, 0)
             c == ResetForStartingCue(s)
  <2>1. s \in ListType /\ s.persistent = f.persistent
    BY <1>1, LastCue, SelectTyped
  <2>2. Begun(c, s)
    BY <2>1, ResetBegins
  <2>3. Play(f, mode) = Playing(c, mode)
    BY <1>2 DEF Play
  <2> HIDE DEF c, s
  <2> QED BY <1>2, <2>1, <2>2, <2>3, PlayingBegun DEF Commanded
<1>3. CASE f.running = "PLAY" /\ ~PlayThrows(f)
  <2>1. Valid(f)
    BY <1>3 DEF PlayThrows
  <2>2. CASE Cues[f.cue].restart_handling = "START_FROM_BEGIN"
    <3>1. Begun(ResetForStartingCue(f), f)
      BY <1>1, ResetBegins
    <3>2. Play(f, mode) = Playing(ResetForStartingCue(f), mode)
      BY <1>3, <2>2 DEF Play
    <3> QED BY <1>3, <3>1, <3>2, PlayingBegun DEF Commanded
  <2>3. CASE Cues[f.cue].restart_handling # "START_FROM_BEGIN"
    <3>1. Play(f, mode) = Playing(f, mode)
      BY <1>3, <2>3 DEF Play
    <3>2. \A m \in {"running", "cue", "frame", "persistent", "elapsed", "paused", "since",
                    "last"} : [f EXCEPT !.running = "PLAY"][m] = f[m]
      BY <1>1, <1>3 DEF ListType
    <3>3. Located([f EXCEPT !.running = "PLAY"])
      BY <1>3, <3>2 DEF Located, Valid, Over, LastFrame, Good
    <3> QED BY <1>1, <1>3, <2>1, <3>1, <3>3, PlayingGood DEF Commanded
  <2> QED BY <2>2, <2>3
<1>4. CASE f.running = "PAUSE" /\ ~PlayThrows(f)
  <2>1. Valid(f)
    BY <1>4 DEF PlayThrows
  <2>2. Play(f, mode) = Playing(Continue(ShiftByPause(f)), mode)
    BY <1>4 DEF Play
  <2> QED BY <1>4, <2>1, <2>2, ContinuePlays DEF Commanded
<1>5. CASE f.running = "PAUSE" /\ PlayThrows(f)
  <2>1. Play(f, mode) = ShiftByPause(f)
    BY <1>5 DEF Play
  <2>2. ~(Valid(f) /\ f.frame \in 1 .. LastFrame(f))
    BY <1>5 DEF PlayThrows, LastFrame
  <2> QED
    BY <1>1, <1>5, <2>1, <2>2, ShiftTyped
       DEF Commanded, Good, Located, Valid, LastFrame, HandlingSet
<1>6. CASE f.running = "PLAY" /\ PlayThrows(f)
  BY <1>6 DEF Play, Commanded
<1> QED BY <1>1, <1>2, <1>3, <1>4, <1>5, <1>6 DEF RunState

LEMMA PauseGood ==
  ASSUME NEW f, Good(f)
  PROVE  /\ Commanded(Pause(f), f)
         /\ f.running # "PLAY" => Pause(f) = f
<1>1. CASE f.running = "PLAY"
  <2> DEFINE r == Pause(f)
  <2>1. f \in ListType
    BY DEF Good
  <2>2. r = [f EXCEPT !.running = "PAUSE", !.paused = 0]
    BY <1>1 DEF Pause
  <2> HIDE DEF r
  <2>3. r \in ListType
    BY <2>1, <2>2, SetRunning, SetPaused
  <2>4. /\ r.running = "PAUSE" /\ r.paused = 0
        /\ \A m \in {"cue", "frame", "persistent", "end_real", "elapsed", "since", "last"} :
             r[m] = f[m]
    BY <2>1, <2>2 DEF ListType
  <2>5. r.since \in Int
    BY <2>3, Members
  <2>6. Located(r)
    BY <1>1, <2>4, <2>5 DEF Good, Located, Valid, Over, LastFrame
  <2>7. Commanded(r, f)
    BY <2>3, <2>4, <2>6 DEF Commanded, Good, HandlingSet
  <2> QED BY <1>1, <2>7 DEF r
<1>2. CASE f.running # "PLAY"
  BY <1>2 DEF Pause, Commanded
<1> QED BY <1>1, <1>2

LEMMA StopGood ==
  ASSUME NEW f, Good(f)
  PROVE  Commanded(Stop(f), f) /\ Stop(f).running = "STOP"
<1>1. f \in ListType
  BY DEF Good
<1>2. Stop(f) \in ListType
  BY <1>1, SetRunning DEF Stop
<1>3. /\ Stop(f).running = "STOP" /\ Stop(f).persistent = f.persistent
      /\ Stop(f).end_real = f.end_real
  BY <1>1 DEF Stop, ListType
<1> QED BY <1>2, <1>3 DEF Commanded, Good, HandlingSet

LEMMA RunCueGood ==
  ASSUME NEW f, Good(f), NEW n \in 0 .. NCues
  PROVE  /\ Commanded(RunCue(f, n), f)
         /\ RunCue(f, n).running = "PLAY" /\ RunCue(f, n).elapsed = 0
<1> DEFINE b == ResetForStartingCue(f)
           g == [b EXCEPT !.cue = n, !.running = "PLAY"]
           r == RunCue(f, n)
<1>1. b \in ListType /\ b.frame = 0 /\ b.elapsed = 0 /\ b.end_real # "HOLDING"
      /\ b.persistent = f.persistent
  BY ResetBegins DEF Good, Begun
<1> HIDE DEF b
<1>2. n \in CueOrOne \cup {None}
  BY DEF CueOrOne
<1>3. g \in ListType
  BY <1>1, <1>2, SetCue, SetRunning
<1>4. /\ g.frame = 0 /\ g.elapsed = 0 /\ g.end_real # "HOLDING"
      /\ g.persistent = f.persistent /\ g.running = "PLAY"
  BY <1>1 DEF ListType
<1>5. CASE n \in Cue
  <2> DEFINE e == EndHandling(n)
  <2>1. e \in Handling /\ e # "HOLDING"
    BY <1>5, CuesTyped
  <2>2. r = [g EXCEPT !.end_real = e]
    BY <1>5 DEF RunCue, b
  <2> HIDE DEF e, g, r
  <2>3. r \in ListType
    BY <1>3, <2>1, <2>2, SetEnd
  <2>4. /\ r.frame = 0 /\ r.elapsed = 0 /\ r.end_real = e
        /\ r.persistent = f.persistent /\ r.running = "PLAY"
    BY <1>3, <1>4, <2>2 DEF ListType
  <2>5. Commanded(r, f)
    BY <2>1, <2>3, <2>4 DEF Commanded, Good, Located, HandlingSet
  <2> QED BY <2>4, <2>5 DEF r
<1>6. CASE n \notin Cue
  <2>1. r = g
    BY <1>6 DEF RunCue, b
  <2> HIDE DEF g, r
  <2>2. Commanded(r, f)
    BY <1>3, <1>4, <2>1 DEF Commanded, Good, Located, HandlingSet
  <2> QED BY <1>4, <2>1, <2>2 DEF r
<1> QED BY <1>5, <1>6

(* Members that neither a place in the list nor its end depends on.        *)
Alike(g, f) ==
  \A m \in {"running", "cue", "frame", "persistent", "end_real", "elapsed", "paused",
            "since", "last"} : g[m] = f[m]

LEMMA AlikeIsGood ==
  ASSUME NEW f, NEW g \in ListType, Good(f), Alike(g, f)
  PROVE  Commanded(g, f)
  BY DEF Alike, Good, Commanded, Located, HandlingSet, Valid, Over, LastFrame

LEMMA TakeScaleGood ==
  ASSUME NEW f, Good(f), NEW input \in Nat
  PROVE  /\ Good(TakeScale(f, input)) /\ TakeScale(f, input).persistent = f.persistent
         /\ f.running = "PAUSE" /\ Valid(f) /\ Frames(f.cue) > 0 =>
              LET r == TakeScale(f, input) IN
              \/ r.running = "PAUSE" /\ r.elapsed - r.paused = f.elapsed - f.paused
              \/ r.running = "PLAY" /\ r.elapsed \in {0, f.elapsed - f.paused}
<1> DEFINE r == TakeScale(f, input)
<1>1. f \in ListType /\ f.scale_valid \in BOOLEAN /\ f.scale \in Nat
  BY Members DEF Good
<1>2. CASE input = f.scale \/ (input = 0 /\ ~f.scale_valid)
  <2>1. r = f
    BY <1>2 DEF TakeScale
  <2> QED BY <2>1
<1>3. CASE input = 0 /\ input # f.scale /\ f.scale_valid
  <2> DEFINE p == Pause(f)
  <2>1. r = [p EXCEPT !.scale_valid = FALSE]
    BY <1>3 DEF TakeScale
  <2>2. Good(p) /\ p.persistent = f.persistent /\ (f.running # "PLAY" => p = f)
    BY PauseGood DEF Commanded
  <2> HIDE DEF p, r
  <2>3. r \in ListType /\ Alike(r, p)
    BY <2>1, <2>2, SetScaleValid DEF Good, Alike, ListType
  <2>4. Good(r) /\ r.persistent = f.persistent
    BY <2>2, <2>3, AlikeIsGood DEF Commanded
  <2> QED BY <2>2, <2>3, <2>4 DEF Alike, r
<1>4. CASE input > 0 /\ input # f.scale /\ f.scale_valid
  <2>1. r = [f EXCEPT !.scale = input]
    BY <1>4 DEF TakeScale
  <2>2. input \in Nat \ {0}
    BY <1>4
  <2> HIDE DEF r
  <2>3. r \in ListType
    BY <1>1, <2>1, <2>2, SetScale
  <2>4. Alike(r, f)
    BY <1>1, <2>1 DEF Alike, ListType
  <2>5. Good(r) /\ r.persistent = f.persistent
    BY <2>3, <2>4, AlikeIsGood DEF Commanded
  <2> QED BY <2>4, <2>5 DEF Alike, r
<1>5. CASE input > 0 /\ input # f.scale /\ ~f.scale_valid
  <2> DEFINE g == [f EXCEPT !.scale_valid = TRUE]
             p == Play(g, "play")
             q == [p EXCEPT !.scale = input]
  <2>1. r = IF PlayThrows(g) THEN p ELSE q
    BY <1>5 DEF TakeScale
  <2>2. g \in ListType /\ Alike(g, f)
    BY <1>1, SetScaleValid DEF Alike, ListType
  <2> HIDE DEF g
  <2>3. Good(g) /\ g.persistent = f.persistent
    BY <2>2, AlikeIsGood DEF Commanded
  <2>4. /\ Good(p) /\ p.persistent = g.persistent
        /\ g.running = "PAUSE" /\ ~PlayThrows(g) =>
             p.running = "PLAY" /\ p.elapsed \in {0, g.elapsed - g.paused}
    BY <2>3, PlayGood DEF Commanded
  <2> HIDE DEF p
  <2>5. input \in Nat \ {0}
    BY <1>5
  <2>6. q \in ListType /\ Alike(q, p)
    BY <2>4, <2>5, SetScale DEF Good, Alike, ListType
  <2>7. Good(q) /\ q.persistent = p.persistent
    BY <2>4, <2>6, AlikeIsGood DEF Commanded
  <2>8. f.running = "PAUSE" /\ Valid(f) /\ Frames(f.cue) > 0 => ~PlayThrows(g)
    BY <2>2, CuesTyped DEF PlayThrows, Alike, Valid
  <2> HIDE DEF q, r
  <2>9. q.running = p.running /\ q.elapsed = p.elapsed
    BY <2>6 DEF Alike
  <2>10. g.running = f.running /\ g.elapsed = f.elapsed /\ g.paused = f.paused
    BY <2>2 DEF Alike
  <2> QED BY <2>1, <2>3, <2>4, <2>7, <2>8, <2>9, <2>10 DEF r
<1> QED BY <1>1, <1>2, <1>3, <1>4, <1>5

LEMMA UpdateFilterGood ==
  ASSUME NEW f, Good(f), lag \in Nat, NEW input \in Nat
  PROVE  /\ Good(UpdateFilter(f, input)) /\ UpdateFilter(f, input).persistent = f.persistent
         /\ f.running = "PAUSE" /\ Valid(f) /\ Frames(f.cue) > 0 =>
              LET r == UpdateFilter(f, input) IN
              \/ r.running = "PAUSE" /\ r.elapsed - r.paused = f.elapsed - f.paused
              \/ r.running = "PLAY" /\ r.elapsed \in {0, f.elapsed - f.paused}
<1> DEFINE g == ReadTime(f)
           c == IF g.running = "PLAY" THEN CalcValues(g) ELSE g
           r == UpdateFilter(f, input)
<1>1. /\ Good(g)
      /\ g.running = f.running /\ g.cue = f.cue /\ g.persistent = f.persistent
      /\ f.running = "PAUSE" => g.elapsed - g.paused = f.elapsed - f.paused
  BY ReadTimeGood
<1>2. CASE CalcThrows(g)
  <2>1. r = g /\ g.running = "PLAY"
    BY <1>2 DEF UpdateFilter, CalcThrows
  <2> HIDE DEF r, g
  <2> QED BY <1>1, <2>1 DEF r
<1>3. CASE ~CalcThrows(g)
  <2>1. r = TakeScale(c, input)
    BY <1>3 DEF UpdateFilter
  <2>2. Good(c) /\ c.persistent = g.persistent
    BY <1>1, <1>3, CalcValuesGood DEF CalcThrows
  <2>3. f.running = "PAUSE" => c = g
    BY <1>1
  <2> HIDE DEF c, g, r
  <2>4. /\ Good(r) /\ r.persistent = c.persistent
        /\ c.running = "PAUSE" /\ Valid(c) /\ Frames(c.cue) > 0 =>
             \/ r.running = "PAUSE" /\ r.elapsed - r.paused = c.elapsed - c.paused
             \/ r.running = "PLAY" /\ r.elapsed \in {0, c.elapsed - c.paused}
    BY <2>1, <2>2, TakeScaleGood
  <2> QED BY <1>1, <2>2, <2>3, <2>4 DEF Valid, r
<1> QED BY <1>2, <1>3

-----------------------------------------------------------------------------
(* The scene. *)

LEMMA AutoPlayBegins ==
  ASSUME NEW f \in ListType, f.default_cue \in Cue
  PROVE  /\ Good(AutoPlay(f)) /\ AutoPlay(f).persistent = f.persistent
         /\ AutoPlay(f).running = "PLAY" /\ AutoPlay(f).elapsed = 0
<1> DEFINE d == f.default_cue
           g == [f EXCEPT !.running = "PLAY", !.cue = d]
<1>1. d \in CueOrOne \cup {None}
  BY CuesTyped
<1> HIDE DEF d
<1>2. g \in ListType
  BY <1>1, SetRunning, SetCue
<1>3. g.running = "PLAY" /\ g.persistent = f.persistent
  BY DEF ListType
<1>4. AutoPlay(f) = ResetForStartingCue(g)
  BY DEF AutoPlay, d
<1> HIDE DEF g
<1>5. Begun(AutoPlay(f), g)
  BY <1>2, <1>4, ResetBegins
<1> QED BY <1>3, <1>5, BegunIsGood DEF Begun

LEMMA LoadedTyped ==
  ASSUME NEW f, Good(f), f.persistent, lag \in Nat, AreStates(registry)
  PROVE  /\ Loaded(f) \in ListType
         /\ Loaded(f).persistent = f.persistent /\ Loaded(f).end_real = f.end_real
<1> DEFINE Entry(key, otherwise) == IF key \in DOMAIN registry THEN registry[key] ELSE otherwise
           g == IF "time" \in DOMAIN registry THEN ReadTime(f) ELSE f
           a == Entry("running_state", g.running)
           b == Entry("cue", g.cue)
           c == Entry("frame", g.frame)
           d == Entry("time", g.elapsed)
           r == Loaded(f)
<1>1. g \in ListType /\ g.persistent = f.persistent /\ g.end_real = f.end_real
  BY ReadTimeGood DEF Good
<1>2. /\ "running_state" \in DOMAIN registry => registry["running_state"] \in RunState
      /\ "cue" \in DOMAIN registry => registry["cue"] \in CueOrOne \cup {None}
      /\ "frame" \in DOMAIN registry => registry["frame"] \in Nat
      /\ "time" \in DOMAIN registry => registry["time"] \in Int
  BY DEF AreStates, StateType
<1>3. /\ g.running \in RunState /\ g.cue \in CueOrOne \cup {None} /\ g.frame \in Nat
      /\ g.elapsed \in Int
  BY <1>1, Members
<1> HIDE DEF g
<1>4. a \in RunState /\ b \in CueOrOne \cup {None} /\ c \in Nat /\ d \in Int
  BY <1>2, <1>3
<1>5. r = [g EXCEPT !.running = a, !.cue = b, !.frame = c, !.elapsed = d]
  BY <1>1 DEF Loaded, g, ListType
<1> HIDE DEF a, b, c, d, r
<1>6. [g EXCEPT !.running = a, !.cue = b] \in ListType
  BY <1>1, <1>4, SetRunning, SetCue
<1>7. r \in ListType
  BY <1>4, <1>5, <1>6, SetFrame, SetElapsed
<1>8. r.persistent = g.persistent /\ r.end_real = g.end_real
  BY <1>1, <1>5 DEF ListType
<1> QED BY <1>1, <1>7, <1>8 DEF r

LEMMA ResumeGood ==
  ASSUME NEW f \in ListType, f.persistent
  PROVE  Good(Resume(f)) /\ Resume(f).persistent
<1> DEFINE c == IF f.cue \in Cue THEN f.cue ELSE NCues - 1
           e == EndHandling(c)
           g == [f EXCEPT !.cue = c, !.end_real = e]
           r == Resume(f)
<1>1. c \in Cue
  BY LastCue
<1>2. c \in CueOrOne \cup {None} /\ e \in Handling /\ e # "HOLDING" /\ Frames(c) \in Nat
  BY <1>1, CuesTyped
<1>3. r = CASE g.frame = 0 -> g
            [] g.frame > 0 /\ g.frame <= Frames(c) ->
                 [ValuesFromCue([g EXCEPT !.frame = @ - 1]) EXCEPT !.frame = g.frame]
            [] g.frame > Frames(c) -> [g EXCEPT !.frame = @ - 1]
  BY DEF Resume
<1> HIDE DEF c, e, r
<1>4. g \in ListType
  BY <1>2, SetCue, SetEnd
<1>5. g.end_real = e /\ g.persistent /\ g.cue = c /\ g.frame = f.frame
  BY DEF ListType
<1> HIDE DEF g
<1>6. g.frame \in Nat
  BY <1>4, Members
<1>7. /\ g.frame > 0 => [g EXCEPT !.frame = g.frame - 1] \in ListType
      /\ [g EXCEPT !.frame = g.frame - 1].end_real = e
      /\ [g EXCEPT !.frame = g.frame - 1].persistent = g.persistent
      /\ [g EXCEPT !.frame = g.frame - 1].cue = c
  <2>1. g.frame > 0 => g.frame - 1 \in Nat
    BY <1>6
  <2> DEFINE n == g.frame - 1
  <2> HIDE DEF n
  <2>2. n \in Nat => [g EXCEPT !.frame = n] \in ListType
    BY <1>4, SetFrame
  <2>3. /\ [g EXCEPT !.frame = n].end_real = e
        /\ [g EXCEPT !.frame = n].persistent = g.persistent
        /\ [g EXCEPT !.frame = n].cue = c
    BY <1>4, <1>5 DEF ListType
  <2> QED BY <2>1, <2>2, <2>3 DEF n
<1>8. CASE g.frame = 0
  BY <1>2, <1>3, <1>4, <1>5, <1>8 DEF Good, Located, HandlingSet, r
<1>9. CASE g.frame > 0 /\ g.frame <= Frames(c)
  <2> DEFINE h == [g EXCEPT !.frame = g.frame - 1]
             v == ValuesFromCue(h)
  <2>1. r = [v EXCEPT !.frame = g.frame]
    <3>1. r = [ValuesFromCue([g EXCEPT !.frame = @ - 1]) EXCEPT !.frame = g.frame]
      BY <1>2, <1>3, <1>6, <1>9
    <3>2. [g EXCEPT !.frame = @ - 1] = h
      BY <1>4 DEF ListType
    <3> QED BY <3>1, <3>2
  <2>2. v \in ListType /\ v.end_real = e /\ v.persistent = g.persistent
    <3>1. h \in ListType /\ h.cue \in Cue
      BY <1>1, <1>7, <1>9
    <3> QED BY <1>7, <3>1, ValuesFromCueTyped
  <2> HIDE DEF v
  <2>3. r \in ListType
    BY <1>6, <2>1, <2>2, SetFrame
  <2>4. r.end_real = e /\ r.persistent = g.persistent
    BY <2>1, <2>2 DEF ListType
  <2> QED BY <1>2, <1>5, <2>3, <2>4 DEF Good, Located, HandlingSet, r
<1>10. CASE g.frame > Frames(c)
  <2>1. r = [g EXCEPT !.frame = g.frame - 1] /\ g.frame > 0
    BY <1>2, <1>3, <1>4, <1>6, <1>10 DEF ListType
  <2> QED BY <1>2, <1>5, <1>7, <2>1 DEF Good, Located, HandlingSet, r
<1> QED BY <1>2, <1>6, <1>8, <1>9, <1>10

-----------------------------------------------------------------------------
(* The invariant, step by step. *)

LEMMA CueInvInit == Init => CueInv
<1> SUFFICES ASSUME Init PROVE CueInv
  OBVIOUS
<1>1. PICK d \in DefaultCues, h \in {"HOLD", "START_AGAIN"}, p \in BOOLEAN :
        list = Constructed(d, h, p)
  BY DEF Init
<1>2. list \in ListType
  <2>1. d \in Cue \cup {-1}
    BY BoundsAssumption
  <2>2. <<"dark">> \in Shown
    BY DEF Shown
  <2>3. [value |-> <<"dark">>, cue |-> None, frame |-> None, updated |-> FALSE] \in LastType
    BY <2>2 DEF LastType, None
  <2> QED
    BY <1>1, <2>1, <2>2, <2>3 DEF Constructed, ListType, RunState, Handling, None
<1>3. list.running = "STOP" /\ list.end_real = "START_AGAIN"
  BY <1>1 DEF Constructed
<1>4. AreStates(registry)
  <2>1. registry = <<>> /\ <<>> \in Seq({}) /\ Len(<<>>) = 0
    BY DEF Init
  <2>2. DOMAIN registry = {}
    BY <2>1
  <2> QED BY <2>2 DEF AreStates
<1>5. lag \in 0 .. MaxLag /\ active \in BOOLEAN /\ commands \in 0 .. MaxCommands
  <2>1. lag = 0 /\ active = FALSE /\ commands = 0
    BY DEF Init
  <2>2. MaxLag \in Nat /\ MaxCommands \in Nat
    BY BoundsAssumption
  <2>3. lag \in 0 .. MaxLag /\ commands \in 0 .. MaxCommands
    BY <2>1, <2>2
  <2>4. active \in BOOLEAN
    BY <2>1
  <2> QED BY <2>3, <2>4
<1>6. TypeOK
  BY <1>2, <1>4, <1>5 DEF TypeOK
<1>7. Good(list)
  BY <1>2, <1>3 DEF Good, HandlingSet
<1>8. HoldingIsStored
  BY <1>3 DEF HoldingIsStored
<1> QED BY <1>6, <1>7, <1>8 DEF CueInv

LEMMA CommandKeeps ==
  ASSUME CueInv, NEW f, Commanded(f, list), Command(f)
  PROVE  CueInv'
<1>1. list' = f /\ UNCHANGED <<lag, active, registry>>
  BY DEF Command
<1>2. commands' \in 0 .. MaxCommands
  BY BoundsAssumption DEF Command, Count, CueInv, TypeOK
<1>3. Good(list')
  BY <1>1 DEF Commanded
<1>4. HoldingIsStored'
  BY <1>1 DEF CueInv, HoldingIsStored, Commanded
<1>5. TypeOK'
  BY <1>1, <1>2, <1>3 DEF CueInv, TypeOK, Good, AreStates
<1> QED BY <1>3, <1>4, <1>5 DEF CueInv

(* The other members a command may set.                                    *)
LEMMA NextCueGood ==
  ASSUME NEW f, Good(f), NEW n \in 0 .. NCues
  PROVE  Commanded([f EXCEPT !.next_cue = n], f) /\ Alike([f EXCEPT !.next_cue = n], f)
<1>1. n \in CueOrOne \cup {None} /\ f \in ListType
  BY DEF CueOrOne, Good
<1>2. [f EXCEPT !.next_cue = n] \in ListType /\ Alike([f EXCEPT !.next_cue = n], f)
  BY <1>1, SetNext DEF Alike, ListType
<1> QED BY <1>2, AlikeIsGood

LEMMA DefaultCueGood ==
  ASSUME NEW f, Good(f), NEW d \in DefaultCues
  PROVE  Commanded([f EXCEPT !.default_cue = d], f) /\ Alike([f EXCEPT !.default_cue = d], f)
<1>1. d \in Cue \cup {-1} /\ f \in ListType
  BY BoundsAssumption DEF Good
<1>2. [f EXCEPT !.default_cue = d] \in ListType /\ Alike([f EXCEPT !.default_cue = d], f)
  BY <1>1, SetDefault DEF Alike, ListType
<1> QED BY <1>2, AlikeIsGood

LEMMA OperatorKeeps == CueInv /\ Operator => CueInv'
<1> SUFFICES ASSUME CueInv, Operator PROVE CueInv'
  OBVIOUS
<1>1. Good(list)
  BY DEF CueInv
<1>2. CASE RunModePlay
  BY <1>1, <1>2, PlayGood, CommandKeeps DEF RunModePlay
<1>3. CASE RunModePause
  BY <1>1, <1>3, PauseGood, CommandKeeps DEF RunModePause
<1>4. CASE RunModeStop
  BY <1>1, <1>4, StopGood, CommandKeeps DEF RunModeStop
<1>5. CASE RunCueCommand
  BY <1>1, <1>5, RunCueGood, CommandKeeps DEF RunCueCommand
<1>6. CASE NextCueCommand
  BY <1>1, <1>6, NextCueGood, CommandKeeps DEF NextCueCommand
<1>7. CASE SetDefaultCue
  BY <1>1, <1>7, DefaultCueGood, CommandKeeps DEF SetDefaultCue
<1> QED BY <1>2, <1>3, <1>4, <1>5, <1>6, <1>7 DEF Operator

LEMMA UpdateKeeps == CueInv /\ Update => CueInv'
<1> SUFFICES ASSUME CueInv, Update PROVE CueInv'
  OBVIOUS
<1>1. PICK input \in Scales : list' = UpdateFilter(list, input)
  BY DEF Update
<1>2. input \in Nat /\ lag \in Nat /\ Good(list)
  BY BoundsAssumption DEF CueInv, TypeOK
<1>3. Good(list') /\ active /\ UNCHANGED <<active, registry, commands>>
  BY <1>1, <1>2, UpdateFilterGood DEF Update
<1>4. lag' \in 0 .. MaxLag
  BY BoundsAssumption DEF Update
<1>5. TypeOK'
  BY <1>3, <1>4 DEF CueInv, TypeOK, Good, AreStates
<1>6. HoldingIsStored'
  BY <1>3 DEF HoldingIsStored
<1> QED BY <1>3, <1>5, <1>6 DEF CueInv

LEMMA ActivatedKeeps == CueInv /\ SceneActivated => CueInv'
<1> SUFFICES ASSUME CueInv, SceneActivated PROVE CueInv'
  OBVIOUS
<1> DEFINE f == IF list.persistent THEN Loaded(list) ELSE list
           complete == list.persistent /\ DOMAIN registry = DOMAIN StateType
<1>1. /\ Good(list) /\ list \in ListType /\ lag \in Nat /\ AreStates(registry)
      /\ ~active /\ active' = TRUE /\ registry' = registry
  BY BoundsAssumption DEF SceneActivated, CueInv, TypeOK
<1>2. list' = IF complete THEN Resume(f)
              ELSE IF f.default_cue \in Cue THEN AutoPlay(f) ELSE f
  BY DEF SceneActivated
<1>3. f \in ListType /\ f.persistent = list.persistent /\ f.end_real = list.end_real
  BY <1>1, LoadedTyped
<1>4. ~complete /\ f.default_cue \notin Cue => Good(f)
  <2>1. CASE list.persistent
    <3> SUFFICES ASSUME ~complete PROVE Good(f)
      OBVIOUS
    <3>1. list.end_real # "HOLDING"
      BY <1>1, <2>1 DEF CueInv, HoldingIsStored
    <3> QED BY <1>3, <2>1, <3>1 DEF Good, Located, HandlingSet
  <2>2. CASE ~list.persistent
    BY <1>1, <2>2
  <2> QED BY <2>1, <2>2
<1> HIDE DEF f
<1>5. complete => Good(Resume(f))
  BY <1>3, ResumeGood
<1>6. ~complete /\ f.default_cue \in Cue => Good(AutoPlay(f))
  BY <1>3, AutoPlayBegins
<1>7. Good(list')
  BY <1>2, <1>4, <1>5, <1>6
<1>8. commands' \in 0 .. MaxCommands /\ lag' \in 0 .. MaxLag
  BY BoundsAssumption DEF SceneActivated, Count, CueInv, TypeOK
<1>9. TypeOK' /\ HoldingIsStored'
  BY <1>1, <1>7, <1>8 DEF TypeOK, Good, AreStates, HoldingIsStored
<1> QED BY <1>7, <1>9 DEF CueInv

LEMMA DeactivatedKeeps == CueInv /\ SceneDeactivated => CueInv'
<1> SUFFICES ASSUME CueInv, SceneDeactivated PROVE CueInv'
  OBVIOUS
<1>1. /\ Good(list) /\ list' = list /\ lag' = lag /\ active' = FALSE
      /\ registry' = IF list.persistent THEN Stored(list) ELSE registry
      /\ list \in ListType
  BY DEF SceneDeactivated, CueInv, TypeOK
<1>2. DOMAIN Stored(list) = DOMAIN StateType
  BY DEF Stored, StateType
<1>3. AreStates(Stored(list))
  <2>1. /\ list.running \in RunState /\ list.cue \in CueOrOne \cup {None}
        /\ list.frame \in Nat /\ list.elapsed \in Int
    BY <1>1, Members
  <2> QED BY <2>1 DEF AreStates, Stored, StateType
<1>4. AreStates(registry')
  BY <1>1, <1>3 DEF CueInv, TypeOK
<1>5. commands' \in 0 .. MaxCommands
  BY BoundsAssumption DEF SceneDeactivated, Count, CueInv, TypeOK
<1>6. TypeOK'
  BY <1>1, <1>4, <1>5 DEF CueInv, TypeOK, AreStates
<1>7. HoldingIsStored'
  BY <1>1, <1>2 DEF HoldingIsStored
<1> QED BY <1>1, <1>6, <1>7 DEF CueInv

LEMMA UpdateStatesKeeps == CueInv /\ UpdateStates => CueInv'
<1> SUFFICES ASSUME CueInv, UpdateStates PROVE CueInv'
  OBVIOUS
<1>1. PICK states \in StateLists :
        registry' = [key \in DOMAIN states \cup DOMAIN registry |->
                       IF key \in DOMAIN states THEN states[key] ELSE registry[key]]
  BY DEF UpdateStates
<1>2. Good(list) /\ UNCHANGED <<list, lag, active>>
  BY DEF UpdateStates, CueInv
<1>3. AreStates(registry) /\ AreStates(states)
  BY StatesAssumption DEF CueInv, TypeOK
<1>4. DOMAIN registry' = DOMAIN states \cup DOMAIN registry
  BY <1>1
<1>5. AreStates(registry')
  BY <1>1, <1>3, <1>4 DEF AreStates
<1>6. commands' \in 0 .. MaxCommands
  BY BoundsAssumption DEF UpdateStates, Count, CueInv, TypeOK
<1>7. TypeOK'
  BY <1>2, <1>5, <1>6 DEF CueInv, TypeOK, AreStates
<1>8. HoldingIsStored'
  BY <1>2, <1>3, <1>4 DEF HoldingIsStored, AreStates, CueInv
<1> QED BY <1>2, <1>7, <1>8 DEF CueInv

LEMMA CueInvStep == CueInv /\ [Next]_vars => CueInv'
<1> SUFFICES ASSUME CueInv, [Next]_vars PROVE CueInv'
  OBVIOUS
<1>1. CASE Tick
  <2>1. lag' \in 0 .. MaxLag /\ UNCHANGED <<list, active, registry, commands>>
    BY <1>1, BoundsAssumption DEF Tick, CueInv, TypeOK
  <2> QED BY <2>1 DEF CueInv, TypeOK, AreStates, HoldingIsStored
<1>2. CASE UNCHANGED vars
  BY <1>2 DEF vars, CueInv, TypeOK, AreStates, HoldingIsStored
<1> QED
  BY <1>1, <1>2, UpdateKeeps, OperatorKeeps, ActivatedKeeps, DeactivatedKeeps,
     UpdateStatesKeeps DEF Next

LEMMA CueInvAlways == Spec => []CueInv
  BY CueInvInit, CueInvStep, PTL DEF Spec

(* Commands, pauses, changes of speed, updates and absences of the scene,  *)
(* in any order: types, the place of a transition and the handling of the  *)
(* end of a cue are right for every list (filter_cue.cpp:337-882).         *)
THEOREM ListSoundAlways == Spec => []ListSound
<1>1. CueInv => ListSound
  <2> SUFFICES ASSUME CueInv PROVE TransitionInPlace /\ NeverStuckHolding
    BY DEF ListSound, CueInv
  <2> QED BY DEF CueInv, Good, Located, HandlingSet, TransitionInPlace, NeverStuckHolding
<1> QED BY <1>1, CueInvAlways, PTL

-----------------------------------------------------------------------------
(* The time of a pause. *)

LEMMA PauseStep ==
  ASSUME CueInv, Next, list.running = "PAUSE", list'.running # "STOP", ~list.persistent,
         Valid(list), Frames(list.cue) > 0
  PROVE  Played(list') \in {0, Played(list)}
<1>1. Good(list) /\ list \in ListType /\ Played(list) = list.elapsed - list.paused
  BY DEF CueInv, TypeOK, Played
<1>2. CASE Update
  <2>1. PICK input \in Scales : list' = UpdateFilter(list, input)
    BY <1>2 DEF Update
  <2>2. input \in Nat /\ lag \in Nat
    BY BoundsAssumption DEF CueInv, TypeOK
  <2> QED BY <1>1, <2>1, <2>2, UpdateFilterGood DEF Played
<1>3. CASE RunModePlay
  <2>1. PICK mode \in {"play", "to_next_cue"} : list' = Play(list, mode)
    BY <1>3 DEF RunModePlay, Command
  <2>2. ~PlayThrows(list)
    BY CuesTyped DEF PlayThrows, Valid
  <2> QED BY <1>1, <2>1, <2>2, PlayGood DEF Played
<1>4. CASE RunModePause
  BY <1>4 DEF RunModePause
<1>5. CASE RunModeStop
  BY <1>1, <1>5, StopGood DEF RunModeStop, Command
<1>6. CASE RunCueCommand
  BY <1>1, <1>6, RunCueGood DEF RunCueCommand, Command, Played
<1>7. CASE NextCueCommand
  BY <1>1, <1>7, NextCueGood DEF NextCueCommand, Command, Played, Alike
<1>8. CASE SetDefaultCue
  BY <1>1, <1>8, DefaultCueGood DEF SetDefaultCue, Command, Played, Alike
<1>9. CASE SceneActivated
  <2>1. list' = IF list.default_cue \in Cue THEN AutoPlay(list) ELSE list
    BY <1>9 DEF SceneActivated
  <2> QED BY <1>1, <2>1, AutoPlayBegins DEF Played
<1>10. CASE Tick \/ SceneDeactivated \/ UpdateStates
  BY <1>10 DEF Tick, SceneDeactivated, UpdateStates
<1> QED
  BY <1>2, <1>3, <1>4, <1>5, <1>6, <1>7, <1>8, <1>9, <1>10 DEF Next, Operator

(* A list that was paused goes on where it was, or starts a cue: however   *)
(* long the pause, whatever the speed did meanwhile (filter_cue.cpp:638).  *)
THEOREM PausedTimeNeverCounts == Spec => PausedTimeDoesNotCount
<1>1. CueInv /\ [Next]_vars =>
        [list.running = "PAUSE" /\ list'.running # "STOP" /\ ~list.persistent
           /\ Valid(list) /\ Frames(list.cue) > 0 =>
             Played(list') \in {0, Played(list)}]_vars
  BY PauseStep
<1> QED BY <1>1, CueInvAlways, PTL DEF Spec, PausedTimeDoesNotCount

-----------------------------------------------------------------------------
(* Counting: how many members a set has up to a number.                    *)

Counted(S, j) == Cardinality(S \intersect (1 .. j))

(* A set of natural numbers that is not empty has a least member.           *)
LEMMA LeastNatural ==
  ASSUME NEW T \in SUBSET Nat, T # {}
  PROVE  \E x \in T : \A y \in T : x <= y
<1> DEFINE R == OpToRel(<, Nat)
<1>1. IsWellFoundedOn(R, Nat)
  BY NatLessThanWellFounded
<1>2. \A y, x \in Nat : y < x => <<y, x>> \in R
  BY DEF OpToRel
<1> HIDE DEF R
<1>3. PICK x \in T : \A y \in T : ~(<<y, x>> \in R)
  BY <1>1, WFMin, Zenon
<1>4. ASSUME NEW y \in T PROVE x <= y
  <2>1. x \in Nat /\ y \in Nat
    OBVIOUS
  <2>2. ~(y < x)
    BY <1>2, <1>3, <2>1, Zenon
  <2> QED
    BY <2>1, <2>2
<1> QED
  BY <1>4

(* Induction over the natural numbers, for a set of them.                  *)
LEMMA NaturalInduction ==
  ASSUME NEW T, 0 \in T, \A n \in Nat : n \in T => n + 1 \in T
  PROVE  Nat \subseteq T
<1> SUFFICES ASSUME Nat \ T # {} PROVE FALSE
  OBVIOUS
<1>1. PICK x \in Nat \ T : \A y \in Nat \ T : x <= y
  BY LeastNatural
<1>2. x # 0 /\ x - 1 \in Nat /\ ~(x <= x - 1)
  BY <1>1
<1>3. x - 1 \in T
  BY <1>1, <1>2
<1> QED
  BY <1>1, <1>2, <1>3

(* Induction up to a number.                                                *)
LEMMA UpToAll ==
  ASSUME NEW m \in Nat, NEW T, 0 \in T, \A k \in 1 .. m : k - 1 \in T => k \in T
  PROVE  \A k \in 0 .. m : k \in T
<1> DEFINE U == {k \in Nat : k <= m => k \in T}
<1>1. 0 \in U  OBVIOUS
<1>2. ASSUME NEW n \in Nat, n \in U PROVE n + 1 \in U
  <2>1. CASE n + 1 <= m
    <3>1. n + 1 \in 1 .. m /\ n + 1 - 1 = n /\ n \in T  BY <1>2, <2>1
    <3> QED  BY <3>1
  <2>2. CASE ~(n + 1 <= m)  BY <2>2
  <2> QED  BY <2>1, <2>2
<1> HIDE DEF U
<1>3. Nat \subseteq U  BY <1>1, <1>2, NaturalInduction
<1> QED  BY <1>3 DEF U

(* One more number is one more member or none.                              *)
LEMMA CountedFacts ==
  ASSUME NEW S
  PROVE  /\ Counted(S, 0) = 0
         /\ \A j \in Nat : Counted(S, j) \in Nat
         /\ \A j \in Nat : Counted(S, j + 1) = IF j + 1 \in S THEN Counted(S, j) + 1 ELSE Counted(S, j)
         /\ \A i, j \in Nat : i <= j => Counted(S, i) <= Counted(S, j)
<1>1. Counted(S, 0) = 0
  <2>1. S \intersect (1 .. 0) = {}  OBVIOUS
  <2> QED  BY <2>1, FS_EmptySet DEF Counted
<1>2. \A j \in Nat : IsFiniteSet(S \intersect (1 .. j)) /\ Counted(S, j) \in Nat
  <2> TAKE j \in Nat
  <2>1. IsFiniteSet(1 .. j)  BY FS_Interval
  <2>2. IsFiniteSet(S \intersect (1 .. j))  BY <2>1, FS_Subset
  <2> QED  BY <2>2, FS_CardinalityType DEF Counted
<1>3. ASSUME NEW j \in Nat
      PROVE  Counted(S, j + 1) = IF j + 1 \in S THEN Counted(S, j) + 1 ELSE Counted(S, j)
  <2>1. CASE j + 1 \in S
    <3>1. S \intersect (1 .. (j + 1)) = (S \intersect (1 .. j)) \union {j + 1}  BY <2>1
    <3>2. j + 1 \notin S \intersect (1 .. j)  OBVIOUS
    <3> QED  BY <1>2, <2>1, <3>1, <3>2, FS_AddElement DEF Counted
  <2>2. CASE j + 1 \notin S
    <3>1. S \intersect (1 .. (j + 1)) = S \intersect (1 .. j)  BY <2>2
    <3> QED  BY <2>2, <3>1 DEF Counted
  <2> QED  BY <2>1, <2>2
<1>4. ASSUME NEW i \in Nat, NEW j \in Nat, i <= j PROVE Counted(S, i) <= Counted(S, j)
  <2>1. S \intersect (1 .. i) \subseteq S \intersect (1 .. j)  BY <1>4
  <2> QED  BY <1>2, <2>1, FS_Subset DEF Counted
<1> QED  BY <1>1, <1>2, <1>3, <1>4

(* A member is counted.                                                     *)
LEMMA CountedMember ==
  ASSUME NEW S, NEW n \in Nat, NEW k \in 1 .. n, k \in S
  PROVE  Counted(S, k) \in 1 .. Counted(S, n)
<1>1. k - 1 \in Nat /\ k \in Nat /\ k <= n /\ k - 1 + 1 = k  OBVIOUS
<1>2. Counted(S, k) <= Counted(S, n) /\ Counted(S, k - 1) \in Nat /\ Counted(S, k) \in Nat /\ Counted(S, n) \in Nat
  BY <1>1, CountedFacts
<1>3. Counted(S, k - 1 + 1) = IF k - 1 + 1 \in S THEN Counted(S, k - 1) + 1 ELSE Counted(S, k - 1)
  BY <1>1, CountedFacts
<1>4. Counted(S, k) = Counted(S, k - 1) + 1  BY <1>1, <1>3
<1> QED  BY <1>2, <1>4

-----------------------------------------------------------------------------
(* What is built.                                                           *)

KeyMade == [value : Seq(Int), transition : Transitions \union {"lin"}]
Channel == [name : STRING, type : ChannelTypes, index : Nat]
CueMade == [timestamps : Seq(Int), frames : [ChannelTypes -> Seq(KeyMade)],
            end_handling : {"hold", "start_again", "next_cue"}, restart_handling : {"do_nothing", "restart"}]
Setups == [ok : BOOLEAN, channels : Seq(Channel), cues : Seq(CueMade), default_cue : Int,
           elsewhere : BOOLEAN]

(* A key frame has numbers, whatever the type of its channel.               *)
LEMMA KeyFrameTyped ==
  ASSUME NEW type \in ChannelTypes, NEW value \in Value, value.numbers # <<>>
  PROVE  KeyFrame(type, value) \in KeyMade
<1>1. value.numbers \in Seq(Int) /\ Len(value.numbers) >= 1 /\ value.numbers[1] \in Int  BY DEF Value
<1>2. type \in {"8bit", "16bit"} => Clamped(value.numbers[1], Limits[type]) \in Int
  BY <1>1, ConfigurationAssumption DEF Clamped
<1>3. \A n \in Int : <<n>> \in Seq(Int)  OBVIOUS
<1>4. <<>> \in Seq(Int)  OBVIOUS
<1> DEFINE v == IF type \in {"8bit", "16bit"} THEN <<Clamped(value.numbers[1], Limits[type])>>
             ELSE IF type = "float" THEN <<value.numbers[1]>>
             ELSE IF Len(value.numbers) = 3 THEN value.numbers ELSE <<>>
           t == IF value.transition \in Transitions THEN value.transition ELSE "lin"
<1>5. v \in Seq(Int)
  <2>1. CASE type \in {"8bit", "16bit"}
    <3>1. v = <<Clamped(value.numbers[1], Limits[type])>>  BY <2>1
    <3> HIDE DEF v
    <3> QED  BY <1>2, <1>3, <2>1, <3>1
  <2>2. CASE type \notin {"8bit", "16bit"}
    <3>1. v \in {<<value.numbers[1]>>, value.numbers, <<>>}  BY <2>2
    <3> HIDE DEF v
    <3> QED  BY <1>1, <1>3, <1>4, <3>1
  <2> QED  BY <2>1, <2>2
<1>6. t \in Transitions \union {"lin"}  OBVIOUS
<1>7. KeyFrame(type, value) = [value |-> v, transition |-> t]  BY DEF KeyFrame
<1> HIDE DEF v, t
<1> QED  BY <1>5, <1>6, <1>7 DEF KeyMade

-----------------------------------------------------------------------------
(* The loops.                                                               *)

Turn(kind, a, s, i) ==
  IF ~s.ok THEN s
  ELSE CASE kind = "mapping" -> IF a[i].type \in ChannelTypes THEN InitValuesOut(s, a[i]) ELSE Refused(s)
         [] kind = "values" -> HandleChannelFrame(s, a.cue, a.parts[i], i)
         [] kind = "frames" -> HandleTimestamps(s, a.cue, a.parts[i])
         [] kind = "words" -> HandleCueConf(s, a.cue, a.parts[i], i)
         [] kind = "cues" -> HandleCue(s, a[i], i)

Turns(u, n, st, kind, a) == u = [i \in 0 .. n |-> IF i = 0 THEN st ELSE Turn(kind, a, u[i - 1], i)]
Ended(s, n, min_loops) == IF s.ok /\ n < min_loops THEN Refused(s) ELSE s

(* What a loop makes in turns exists.                                       *)
LEMMA TurnsExist ==
  ASSUME NEW n \in Nat, NEW st, NEW kind, NEW a
  PROVE  \E u : Turns(u, n, st, kind, a)
<1> DEFINE Unrolled(f, m) == /\ f = [i \in 0 .. m |-> f[i]] /\ f[0] = st
                         /\ \A i \in 1 .. m : f[i] = Turn(kind, a, f[i - 1], i)
           T == {m \in 0 .. n : \E f : Unrolled(f, m)}
<1>1. 0 \in T
  <2> DEFINE f == [i \in 0 .. 0 |-> st]
  <2>1. Unrolled(f, 0)  OBVIOUS
  <2> HIDE DEF f, Unrolled
  <2> QED  BY <2>1
<1>2. ASSUME NEW m \in 1 .. n, m - 1 \in T PROVE m \in T
  <2>1. PICK f : Unrolled(f, m - 1)  BY <1>2
  <2> DEFINE g == [i \in 0 .. m |-> IF i = m THEN Turn(kind, a, f[m - 1], m) ELSE f[i]]
  <2>2. g = [i \in 0 .. m |-> g[i]] /\ g[0] = st  BY <2>1
  <2>3. ASSUME NEW i \in 1 .. m PROVE g[i] = Turn(kind, a, g[i - 1], i)
    <3>1. g[i - 1] = f[i - 1]  OBVIOUS
    <3>0. m \in Nat /\ i \in 1 .. m  OBVIOUS
    <3>2. i # m => g[i] = f[i] /\ f[i] = Turn(kind, a, f[i - 1], i)
      <4>1. i # m => g[i] = f[i] /\ i \in 1 .. m - 1  BY <3>0
      <4> QED  BY <2>1, <4>1
    <3>3. i = m => g[i] = Turn(kind, a, f[m - 1], m)  OBVIOUS
    <3> HIDE DEF g
    <3> QED  BY <3>1, <3>2, <3>3
  <2> HIDE DEF g
  <2>4. Unrolled(g, m)  BY <2>2, <2>3
  <2> HIDE DEF Unrolled
  <2> QED  BY <2>4
<1> HIDE DEF T
<1>3. n \in T  BY <1>1, <1>2, UpToAll
<1>4. PICK f : Unrolled(f, n)  BY <1>3 DEF T
<1>5. \A i \in 0 .. n : f[i] = IF i = 0 THEN st ELSE Turn(kind, a, f[i - 1], i)
  <2> TAKE i \in 0 .. n
  <2>1. CASE i = 0  BY <1>4, <2>1
  <2>2. CASE i # 0
    <3>1. i \in 1 .. n  BY <2>2
    <3> QED  BY <1>4, <2>2, <3>1
  <2> QED  BY <2>1, <2>2
<1>6. f = [i \in 0 .. n |-> IF i = 0 THEN st ELSE Turn(kind, a, f[i - 1], i)]  BY <1>4, <1>5
<1> QED  BY <1>6 DEF Turns

-----------------------------------------------------------------------------
(* The values of a frame.                                                   *)

Of(channels, type) == {k \in DOMAIN channels : channels[k].type = type}

(* A value can be read for a channel; a colour has all its numbers.         *)
Readable(channels, values, k) == k \in DOMAIN channels /\ values[k].numbers # <<>>
Lacking(channels, values, k) ==
  k \in DOMAIN channels /\ channels[k].type = "color" /\ Len(values[k].numbers) # 3

SameSetup(s, st) == s.channels = st.channels /\ s.elsewhere = st.elsewhere /\ s.default_cue = st.default_cue

\* What the first i values have added to the frames of a cue.
Extended(new, old, channels, values, i) ==
  /\ \A t \in ChannelTypes :
       /\ Len(new[t]) = Len(old[t]) + Counted(Of(channels, t), i)
       /\ \A p \in DOMAIN old[t] : new[t][p] = old[t][p]
  /\ \A k \in 1 .. i : LET t == channels[k].type IN
       new[t][Len(old[t]) + Counted(Of(channels, t), k)] = KeyFrame(t, values[k])

ValuesRead(s, st, cue, values, i) ==
  /\ s \in Setups /\ SameSetup(s, st)
  /\ IF s.ok
     THEN /\ \A k \in 1 .. i : Readable(st.channels, values, k)
          /\ s.cues = [st.cues EXCEPT ![cue].frames = s.cues[cue].frames]
          /\ Extended(s.cues[cue].frames, st.cues[cue].frames, st.channels, values, i)
     ELSE \E k \in 1 .. i : ~Readable(st.channels, values, k) \/ Lacking(st.channels, values, k)

(* One more value is one more key frame of the type of its channel.         *)
LEMMA ValueRead ==
  ASSUME NEW st \in Setups, NEW cue \in DOMAIN st.cues, NEW values \in Seq(Value),
         NEW i \in 1 .. Len(values), NEW s, ValuesRead(s, st, cue, values, i - 1), s.ok
  PROVE  ValuesRead(HandleChannelFrame(s, cue, values[i], i), st, cue, values, i)
<1> DEFINE channels == st.channels
           z == HandleChannelFrame(s, cue, values[i], i)
           t == channels[i].type
           x == KeyFrame(t, values[i])
           old == st.cues[cue].frames
           mid == s.cues[cue].frames
           new == [mid EXCEPT ![t] = Append(@, x)]
           c == [s.cues[cue] EXCEPT !.frames = new]
           cs == [s.cues EXCEPT ![cue] = c]
<1> SUFFICES ValuesRead(z, st, cue, values, i)  OBVIOUS
<1>0. /\ s \in Setups /\ SameSetup(s, st) /\ s.channels = channels
      /\ \A k \in 1 .. i - 1 : Readable(channels, values, k)
      /\ s.cues = [st.cues EXCEPT ![cue].frames = mid]
      /\ Extended(mid, old, channels, values, i - 1)
  BY DEF ValuesRead, SameSetup
<1>1. /\ i \in Nat \ {0} /\ i \in 1 .. i /\ \A k \in 1 .. i : k = i \/ k \in 1 .. i - 1
      /\ values[i] \in Value /\ channels \in Seq(Channel)
  BY DEF Setups
<1>2. Len(values[i].numbers) \in Nat  BY <1>1 DEF Value
<1> HIDE DEF z, new, c, cs
<1>3. CASE ~Readable(channels, values, i)
  <2>1. i > Len(s.channels) \/ values[i].numbers = <<>>  BY <1>0, <1>1, <1>3 DEF Readable
  <2>2. z = [s EXCEPT !.ok = FALSE]  BY <2>1 DEF HandleChannelFrame, Refused, z
  <2>3. z \in Setups /\ ~z.ok /\ SameSetup(z, st)  BY <1>0, <2>2 DEF Setups, SameSetup
  <2> QED  BY <1>1, <1>3, <2>3 DEF ValuesRead
<1>4. CASE Readable(channels, values, i)
  <2>1. i \in DOMAIN channels /\ ~(i > Len(s.channels)) /\ values[i].numbers # <<>>
    BY <1>0, <1>1, <1>4 DEF Readable
  <2>2. t \in ChannelTypes
    <3>1. channels[i] \in Channel
      <4> HIDE DEF channels
      <4> QED  BY <1>1, <2>1
    <3> QED  BY <3>1 DEF Channel
  <2>3. CASE t = "color" /\ Len(values[i].numbers) < 3 /\ ~s.elsewhere
    <3>1. z = [s EXCEPT !.ok = FALSE]  BY <1>0, <2>1, <2>3 DEF HandleChannelFrame, Refused, z
    <3>2. z \in Setups /\ ~z.ok /\ SameSetup(z, st)  BY <1>0, <3>1 DEF Setups, SameSetup
    <3>3. Lacking(channels, values, i)
      <4>1. t = "color" /\ Len(values[i].numbers) < 3  BY <2>3, Zenon
      <4>2. Len(values[i].numbers) # 3
        <5> DEFINE y == Len(values[i].numbers)
        <5>1. y \in Nat /\ y < 3  BY <1>2, <4>1
        <5> HIDE DEF y
        <5>2. y # 3  BY <5>1
        <5> QED  BY <5>2 DEF y
      <4> QED  BY <2>1, <4>1, <4>2 DEF Lacking
    <3> QED  BY <1>1, <3>2, <3>3 DEF ValuesRead
  <2>4. CASE ~(t = "color" /\ Len(values[i].numbers) < 3 /\ ~s.elsewhere)
    <3>1. z = [s EXCEPT !.cues[cue].frames[t] = Append(@, x)]
      BY <1>0, <2>1, <2>4 DEF HandleChannelFrame, z
    <3>2. x \in KeyMade  BY <1>1, <2>1, <2>2, KeyFrameTyped
    <3>3. st.cues \in Seq(CueMade) /\ st.cues[cue] \in CueMade
          /\ s.cues \in Seq(CueMade) /\ DOMAIN s.cues = DOMAIN st.cues
      BY <1>0 DEF Setups
    <3>4. s.cues[cue] \in CueMade  BY <3>3
    <3>5. mid \in [ChannelTypes -> Seq(KeyMade)] /\ old \in [ChannelTypes -> Seq(KeyMade)]
      BY <3>3, <3>4 DEF CueMade
    <3> HIDE DEF mid, old, x, t
    <3>6. new \in [ChannelTypes -> Seq(KeyMade)]
      <4>1. mid[t] \in Seq(KeyMade)  BY <2>2, <3>5
      <4>2. Append(mid[t], x) \in Seq(KeyMade)  BY <3>2, <4>1
      <4> QED  BY <2>2, <3>5, <4>2 DEF new
    <3>7. c \in CueMade /\ c.frames = new  BY <3>4, <3>6 DEF CueMade, c
    <3>8. cs \in Seq(CueMade) /\ cs[cue] = c  BY <3>3, <3>7 DEF cs
    <3>9. z = [s EXCEPT !.cues = cs]  BY <1>0, <3>1, <3>3, <3>4 DEF Setups, cs, c, new, mid, CueMade
    <3>10. z \in Setups /\ z.ok /\ SameSetup(z, st) /\ z.cues = cs
      BY <1>0, <3>8, <3>9 DEF Setups, SameSetup
    <3>11. cs = [st.cues EXCEPT ![cue].frames = new]
      <4>1. s.cues[cue] = [st.cues[cue] EXCEPT !.frames = mid]  BY <1>0, <3>3
      <4>2. c = [st.cues[cue] EXCEPT !.frames = new]  BY <3>3, <3>4, <4>1 DEF CueMade, c
      <4> QED  BY <1>0, <3>3, <4>2 DEF cs
    <3>12. \A u \in ChannelTypes : /\ new[u] = IF u = t THEN Append(mid[u], x) ELSE mid[u]
                                   /\ mid[u] \in Seq(KeyMade) /\ old[u] \in Seq(KeyMade)
      BY <3>5 DEF new
    <3>13. \A k \in 1 .. i : k \in DOMAIN channels /\ channels[k].type \in ChannelTypes
      <4> TAKE k \in 1 .. i
      <4>1. k \in DOMAIN channels  BY <1>1, <2>1
      <4>2. channels[k] \in Channel
        <5> HIDE DEF channels
        <5> QED  BY <1>1, <4>1
      <4> QED  BY <4>1, <4>2 DEF Channel
    <3> DEFINE n(u, k) == Counted(Of(channels, u), k)
    <3>14. ASSUME NEW u \in ChannelTypes, NEW k \in 1 .. i
           PROVE  /\ n(u, k) \in Nat /\ n(u, k - 1) \in Nat
                  /\ n(u, k) = n(u, k - 1) + IF channels[k].type = u THEN 1 ELSE 0
                  /\ k # i => n(u, k) <= n(u, i - 1)
      <4>1. k \in Of(channels, u) <=> channels[k].type = u  BY <3>13 DEF Of
      <4>2. k - 1 \in Nat /\ k \in Nat /\ k - 1 + 1 = k /\ i - 1 \in Nat /\ (k # i => k <= i - 1)  BY <1>1
      <4> DEFINE S == Of(channels, u)
      <4> HIDE DEF S
      <4>3. Counted(S, k) \in Nat /\ Counted(S, k - 1) \in Nat  BY <4>2, CountedFacts
      <4>4. Counted(S, k - 1 + 1) = IF k - 1 + 1 \in S THEN Counted(S, k - 1) + 1 ELSE Counted(S, k - 1)
        BY <4>2, CountedFacts
      <4>5. k # i => Counted(S, k) <= Counted(S, i - 1)  BY <4>2, CountedFacts
      <4>6. Counted(S, k) = IF k \in S THEN Counted(S, k - 1) + 1 ELSE Counted(S, k - 1)  BY <4>2, <4>4
      <4> QED  BY <4>1, <4>3, <4>5, <4>6 DEF S
    <3>15. \A u \in ChannelTypes : /\ Len(mid[u]) = Len(old[u]) + n(u, i - 1)
                                   /\ \A p \in DOMAIN old[u] : mid[u][p] = old[u][p]
      BY <1>0 DEF Extended
    <3>16. \A k \in 1 .. i - 1 : LET u == channels[k].type IN
             mid[u][Len(old[u]) + n(u, k)] = KeyFrame(u, values[k])
      BY <1>0 DEF Extended
    <3>17. n(t, i) = n(t, i - 1) + 1 /\ \A u \in ChannelTypes : u # t => n(u, i) = n(u, i - 1)
      BY <1>1, <2>2, <3>14, SMTT(60) DEF t
    <3>18. i - 1 \in Nat /\ \A u \in ChannelTypes : n(u, i - 1) \in Nat  BY <1>1, <3>14
    <3> HIDE DEF n, channels
    <3>19. ASSUME NEW u \in ChannelTypes
           PROVE  /\ Len(new[u]) = Len(old[u]) + n(u, i)
                  /\ \A p \in DOMAIN old[u] : new[u][p] = old[u][p]
      <4> DEFINE m == mid[u]
                 o == old[u]
                 w == new[u]
      <4>1. m \in Seq(KeyMade) /\ o \in Seq(KeyMade) /\ w = IF u = t THEN Append(m, x) ELSE m  BY <3>12
      <4>2. Len(m) = Len(o) + n(u, i - 1) /\ \A p \in DOMAIN o : m[p] = o[p]  BY <3>15
      <4>3. n(u, i - 1) \in Nat /\ n(u, i) = n(u, i - 1) + IF u = t THEN 1 ELSE 0  BY <3>17, <3>18
      <4> HIDE DEF m, o, w
      <4>4. Len(w) = Len(o) + n(u, i) /\ \A p \in DOMAIN o : w[p] = o[p]
        BY <3>2, <4>1, <4>2, <4>3
      <4> QED  BY <4>4 DEF o, w
    <3>20. ASSUME NEW k \in 1 .. i
           PROVE  LET u == channels[k].type IN
                  new[u][Len(old[u]) + n(u, k)] = KeyFrame(u, values[k])
      <4> DEFINE u == channels[k].type
                 m == mid[u]
                 o == old[u]
                 w == new[u]
                 q == Len(o) + n(u, k)
      <4>0. u \in ChannelTypes  BY <3>13
      <4>1. m \in Seq(KeyMade) /\ o \in Seq(KeyMade) /\ w = IF u = t THEN Append(m, x) ELSE m  BY <3>12, <4>0
      <4>2. Len(m) = Len(o) + n(u, i - 1)  BY <3>15, <4>0
      <4>3. n(u, i - 1) \in Nat  BY <3>18, <4>0
      <4>4. CASE k = i
        <5>1. u = t /\ x = KeyFrame(u, values[k])  BY <4>4 DEF t, x
        <5>2. q = Len(m) + 1
          <6> HIDE DEF u, m, o, w
          <6> QED  BY <3>17, <4>1, <4>2, <4>3, <4>4, <5>1
        <5> HIDE DEF u, m, o, w, q
        <5>3. w[q] = x  BY <3>2, <4>1, <5>1, <5>2
        <5> QED  BY <5>1, <5>3 DEF u, o, w, q
      <4>5. CASE k # i
        <5>1. k \in 1 .. i - 1  BY <1>1, <4>5
        <5>2. m[q] = KeyFrame(u, values[k])  BY <3>16, <5>1
        <5>3. n(u, k) = n(u, k - 1) + 1 /\ n(u, k - 1) \in Nat /\ n(u, k) <= n(u, i - 1)
          BY <3>14, <4>0, <4>5 DEF n, channels
        <5> HIDE DEF u, m, o, w
        <5>4. Len(o) \in Nat  BY <4>1
        <5>5. q \in 1 .. Len(m)  BY <4>2, <4>3, <5>3, <5>4
        <5> HIDE DEF q
        <5>6. w[q] = m[q]  BY <3>2, <4>1, <5>5
        <5> QED  BY <5>2, <5>6 DEF u, o, w, q
      <4> QED  BY <4>4, <4>5
    <3>21. Extended(new, old, channels, values, i)
      <4> HIDE DEF new
      <4> QED  BY <3>19, <3>20 DEF Extended, n
    <3>22. \A k \in 1 .. i : Readable(channels, values, k)  BY <1>0, <1>1, <1>4
    <3>23. z.cues[cue].frames = new  BY <3>7, <3>8, <3>10
    <3>24. z.cues = [st.cues EXCEPT ![cue].frames = z.cues[cue].frames]  BY <3>10, <3>11, <3>23
    <3> QED  BY <3>10, <3>21, <3>22, <3>23, <3>24 DEF ValuesRead, old, channels
  <2> QED  BY <2>3, <2>4
<1> QED  BY <1>3, <1>4

(* Which frames a cue gets from its text: those that are not empty.         *)
Written(frames) == {p \in DOMAIN frames : frames[p].values # <<>>}

(* The frames read so far, each where calc_values looks for it.             *)
Holds(cue, channels, frames, i) ==
  LET n == Len(channels)
      W == Written(frames)
  IN /\ Len(cue.timestamps) = Counted(W, i)
     /\ \A t \in ChannelTypes : Len(cue.frames[t]) = Counted(W, i) * Counted(Of(channels, t), n)
     /\ \A p \in W \intersect (1 .. i) :
          /\ cue.timestamps[Counted(W, p)] = frames[p].time[1]
          /\ \A k \in 1 .. n : LET t == channels[k].type IN
               cue.frames[t][(Counted(W, p) - 1) * Counted(Of(channels, t), n) + Counted(Of(channels, t), k)]
                 = KeyFrame(t, frames[p].values[k])

Usable(channels, frame) ==
  frame.values # <<>> =>
    /\ frame.time # <<>> /\ Len(frame.values) = Len(channels)
    /\ \A k \in 1 .. Len(frame.values) : frame.values[k].numbers # <<>>
Pale(channels, frame) == \E k \in 1 .. Len(frame.values) : Lacking(channels, frame.values, k)

\* s is st with the first i frames of a text in its cue.
FramesRead(s, st, cue, frames, i) ==
  /\ s \in Setups /\ SameSetup(s, st)
  /\ IF s.ok
     THEN /\ \A p \in 1 .. i : Usable(st.channels, frames[p])
          /\ Len(s.cues) = Len(st.cues) /\ \A d \in DOMAIN st.cues : d # cue => s.cues[d] = st.cues[d]
          /\ Holds(s.cues[cue], st.channels, frames, i)
     ELSE \E p \in 1 .. i : ~Usable(st.channels, frames[p]) \/ Pale(st.channels, frames[p])

(* Before the first value.                                                  *)
LEMMA NothingRead ==
  ASSUME NEW b \in Setups, b.ok, NEW cue \in DOMAIN b.cues, NEW values
  PROVE  ValuesRead(b, b, cue, values, 0)
<1>1. b.cues \in Seq(CueMade) /\ b.cues[cue] \in CueMade  BY DEF Setups
<1>2. [b.cues[cue] EXCEPT !.frames = b.cues[cue].frames] = b.cues[cue]  BY <1>1 DEF CueMade
<1>3. b.cues = [b.cues EXCEPT ![cue].frames = b.cues[cue].frames]  BY <1>1, <1>2
<1>4. b.cues[cue].frames \in [ChannelTypes -> Seq(KeyMade)]  BY <1>1 DEF CueMade
<1>5. Extended(b.cues[cue].frames, b.cues[cue].frames, b.channels, values, 0)
  <2> DEFINE f == b.cues[cue].frames
  <2> HIDE DEF f
  <2>1. f \in [ChannelTypes -> Seq(KeyMade)]  BY <1>4 DEF f
  <2>2. \A t \in ChannelTypes : Len(f[t]) \in Nat /\ Counted(Of(b.channels, t), 0) = 0
    BY <2>1, CountedFacts
  <2>3. Extended(f, f, b.channels, values, 0)  BY <2>2 DEF Extended
  <2> QED  BY <2>3 DEF f
<1> QED  BY <1>3, <1>5 DEF ValuesRead, SameSetup

(* The loop over the values of a frame.                                     *)
LEMMA ValuesLoop ==
  ASSUME NEW st \in Setups, st.ok, NEW cue \in DOMAIN st.cues, NEW frame \in Frame,
         frame.values # <<>>, frame.time # <<>>,
         NEW b, b = [st EXCEPT !.cues[cue].timestamps = Append(@, frame.time[1])], b \in Setups
  PROVE  \E s : /\ ValuesRead(s, b, cue, frame.values, Len(frame.values))
                /\ HandleTimestamps(st, cue, frame) = Ended(s, Len(frame.values), Len(st.channels))
<1> DEFINE values == frame.values
           n == Len(values)
           a == [cue |-> cue, parts |-> values]
           u == CHOOSE f : f = [i \in 0 .. Len(values) |->
                  IF i = 0 THEN [st EXCEPT !.cues[cue].timestamps = Append(@, frame.time[1])]
                  ELSE IF f[i - 1].ok THEN HandleChannelFrame(f[i - 1], cue, values[i], i) ELSE f[i - 1]]
<1>1. values \in Seq(Value) /\ n \in Nat  BY DEF Frame
<1>2. u = [i \in 0 .. n |-> IF i = 0 THEN b
             ELSE IF u[i - 1].ok THEN HandleChannelFrame(u[i - 1], cue, values[i], i) ELSE u[i - 1]]
  <2>1. PICK f : Turns(f, n, b, "values", a)  BY <1>1, TurnsExist
  <2>2. \A s, i : Turn("values", a, s, i) = IF s.ok THEN HandleChannelFrame(s, cue, values[i], i) ELSE s
    BY DEF Turn
  <2> HIDE DEF a
  <2>3. f = [i \in 0 .. Len(values) |->
                  IF i = 0 THEN [st EXCEPT !.cues[cue].timestamps = Append(@, frame.time[1])]
                  ELSE IF f[i - 1].ok THEN HandleChannelFrame(f[i - 1], cue, values[i], i) ELSE f[i - 1]]
    <3>1. f = [i \in 0 .. n |-> IF i = 0 THEN b ELSE Turn("values", a, f[i - 1], i)]  BY <2>1 DEF Turns
    <3>2. \A i : (IF i = 0 THEN b ELSE Turn("values", a, f[i - 1], i))
               = IF i = 0 THEN [st EXCEPT !.cues[cue].timestamps = Append(@, frame.time[1])]
                 ELSE IF f[i - 1].ok THEN HandleChannelFrame(f[i - 1], cue, values[i], i) ELSE f[i - 1]
      BY <2>2
    <3> QED  BY <3>1, <3>2, Zenon
  <2> QED  BY <2>3, Zenon
<1>3. HandleTimestamps(st, cue, frame) = Ended(u[n], n, Len(st.channels))
  BY DEF HandleTimestamps, DoWithSubstr, Ended
<1> HIDE DEF u
<1> DEFINE T == {i \in 0 .. n : ValuesRead(u[i], b, cue, values, i)}
<1>4. 0 \in T
  <2>1. b.ok /\ cue \in DOMAIN b.cues  BY DEF Setups
  <2>2. 0 \in 0 .. n  BY <1>1
  <2>3. u[0] = b  BY <1>2, <2>2
  <2>4. ValuesRead(b, b, cue, values, 0)  BY <2>1, NothingRead
  <2> QED  BY <2>2, <2>3, <2>4
<1>5. ASSUME NEW i \in 1 .. n, i - 1 \in T PROVE i \in T
  <2>1. ValuesRead(u[i - 1], b, cue, values, i - 1)  BY <1>5
  <2>2. u[i] = IF u[i - 1].ok THEN HandleChannelFrame(u[i - 1], cue, values[i], i) ELSE u[i - 1]
    <3>1. i \in 0 .. n /\ i # 0  BY <1>1
    <3> QED  BY <1>2, <3>1
  <2>3. cue \in DOMAIN b.cues  BY DEF Setups
  <2>4. CASE u[i - 1].ok
    <3>1. u[i] = HandleChannelFrame(u[i - 1], cue, values[i], i)  BY <2>2, <2>4
    <3>2. ValuesRead(u[i], b, cue, values, i)  BY <1>1, <2>1, <2>3, <2>4, <3>1, ValueRead
    <3> QED  BY <3>2
  <2>5. CASE ~u[i - 1].ok
    <3>1. u[i] = u[i - 1]  BY <2>2, <2>5
    <3>2. \A k \in 1 .. i - 1 : k \in 1 .. i  BY <1>1
    <3>3. ValuesRead(u[i], b, cue, values, i)  BY <2>1, <2>5, <3>1, <3>2 DEF ValuesRead
    <3> QED  BY <3>3
  <2> QED  BY <2>4, <2>5
<1> HIDE DEF T
<1>6. n \in T  BY <1>1, <1>4, <1>5, UpToAll
<1> QED  BY <1>3, <1>6 DEF T

(* A product of numbers grows with each.                                    *)
LEMMA Rows ==
  ASSUME NEW w \in Nat, NEW q \in 1 .. w, NEW n \in Nat, NEW e \in 1 .. n
  PROVE  (q - 1) * n + e \in 1 .. w * n
<1>1. PICK d \in Nat : w = q + d
  <2>1. w - q \in Nat /\ w = q + (w - q)  OBVIOUS
  <2> QED  BY <2>1
<1>2. w * n = (q - 1) * n + n + d * n  BY <1>1
<1>3. (q - 1) * n \in Nat /\ d * n \in Nat  BY <1>1
<1> QED  BY <1>2, <1>3

(* A frame that extends what was read is found, and so are those before it. *)
LEMMA HoldsMore ==
  ASSUME NEW cue \in CueMade, NEW more \in CueMade, NEW channels \in Seq(Channel), NEW frames \in Seq(Frame),
         NEW i \in 1 .. Len(frames), frames[i].values # <<>>, Holds(cue, channels, frames, i - 1),
         more.timestamps = Append(cue.timestamps, frames[i].time[1]), frames[i].time # <<>>,
         Extended(more.frames, cue.frames, channels, frames[i].values, Len(channels))
  PROVE  Holds(more, channels, frames, i)
<1> DEFINE n == Len(channels)
           W == Written(frames)
           w == Counted(W, i - 1)
           size(t) == Counted(Of(channels, t), n)
<1>1. n \in Nat /\ i - 1 \in Nat /\ i \in Nat \ {0} /\ i \in W  BY DEF Written
<1>2. /\ w \in Nat /\ Counted(W, i) = w + 1 /\ \A t : size(t) \in Nat
  <2>1. i - 1 + 1 = i  BY <1>1
  <2>2. Counted(W, i - 1 + 1) = IF i - 1 + 1 \in W THEN w + 1 ELSE w  BY <1>1, CountedFacts
  <2> QED  BY <1>1, <2>1, <2>2, CountedFacts
<1>3. \A p \in W \intersect (1 .. i) : p = i \/ (p \in W \intersect (1 .. i - 1) /\ Counted(W, p) \in 1 .. w)
  <2> SUFFICES ASSUME NEW p \in W, p \in 1 .. i, p # i PROVE p \in 1 .. i - 1 /\ Counted(W, p) \in 1 .. w
    OBVIOUS
  <2>1. p \in 1 .. i - 1 /\ p - 1 \in Nat /\ p \in Nat /\ p <= i - 1 /\ p - 1 + 1 = p  BY <1>1
  <2>2. Counted(W, p) <= w /\ Counted(W, p - 1) \in Nat /\ Counted(W, p) \in Nat  BY <1>1, <2>1, CountedFacts
  <2>3. Counted(W, p - 1 + 1) = IF p - 1 + 1 \in W THEN Counted(W, p - 1) + 1 ELSE Counted(W, p - 1)
    BY <2>1, CountedFacts
  <2>4. Counted(W, p) = Counted(W, p - 1) + 1  BY <2>1, <2>3
  <2> QED  BY <1>2, <2>1, <2>2, <2>4
<1>4. ASSUME NEW k \in 1 .. n
      PROVE  channels[k].type \in ChannelTypes
             /\ Counted(Of(channels, channels[k].type), k) \in 1 .. size(channels[k].type)
  <2> DEFINE t == channels[k].type
             S == Of(channels, t)
  <2>1. k \in DOMAIN channels /\ channels[k] \in Channel  BY <1>1
  <2>2. t \in ChannelTypes /\ k \in S  BY <2>1 DEF Channel, Of
  <2> HIDE DEF S
  <2>7. Counted(S, k) \in 1 .. Counted(S, n)  BY <1>1, <2>2, CountedMember
  <2> QED  BY <2>2, <2>7 DEF S
<1>5. cue.timestamps \in Seq(Int) /\ cue.frames \in [ChannelTypes -> Seq(KeyMade)] /\ more.frames \in [ChannelTypes -> Seq(KeyMade)]
  BY DEF CueMade
<1>6. frames[i].time[1] \in Int
  <2>1. frames[i] \in Frame  OBVIOUS
  <2>2. frames[i].time \in Seq(Int) /\ Len(frames[i].time) >= 1  BY <2>1 DEF Frame
  <2> QED  BY <2>2
<1>7. /\ Len(cue.timestamps) = w
      /\ \A t \in ChannelTypes : Len(cue.frames[t]) = w * size(t)
      /\ \A p \in W \intersect (1 .. i - 1) :
           /\ cue.timestamps[Counted(W, p)] = frames[p].time[1]
           /\ \A k \in 1 .. n : LET t == channels[k].type IN
                cue.frames[t][(Counted(W, p) - 1) * size(t) + Counted(Of(channels, t), k)]
                  = KeyFrame(t, frames[p].values[k])
  BY DEF Holds
<1>8. /\ \A t \in ChannelTypes : /\ Len(more.frames[t]) = Len(cue.frames[t]) + size(t)
                                /\ \A q \in DOMAIN cue.frames[t] : more.frames[t][q] = cue.frames[t][q]
      /\ \A k \in 1 .. n : LET t == channels[k].type IN
           more.frames[t][Len(cue.frames[t]) + Counted(Of(channels, t), k)] = KeyFrame(t, frames[i].values[k])
  BY DEF Extended
<1> HIDE DEF n, W, w, size
<1>9. Len(more.timestamps) = w + 1 /\ more.timestamps[w + 1] = frames[i].time[1]
      /\ \A q \in 1 .. w : more.timestamps[q] = cue.timestamps[q]
  BY <1>2, <1>5, <1>6, <1>7
<1>10. ASSUME NEW t \in ChannelTypes PROVE Len(more.frames[t]) = (w + 1) * size(t)
  <2>1. Len(more.frames[t]) = w * size(t) + size(t)  BY <1>7, <1>8
  <2>2. size(t) \in Nat  BY <1>2
  <2> HIDE DEF size
  <2>3. w * size(t) + size(t) = (w + 1) * size(t)  BY <1>2, <2>2
  <2> QED  BY <2>1, <2>3
<1>11. ASSUME NEW p \in W \intersect (1 .. i)
       PROVE  /\ more.timestamps[Counted(W, p)] = frames[p].time[1]
              /\ \A k \in 1 .. n : LET t == channels[k].type IN
                   more.frames[t][(Counted(W, p) - 1) * size(t) + Counted(Of(channels, t), k)]
                     = KeyFrame(t, frames[p].values[k])
  <2>1. CASE p = i
    <3>1. Counted(W, p) = w + 1 /\ w + 1 - 1 = w  BY <1>2, <2>1
    <3>2. ASSUME NEW k \in 1 .. n
          PROVE  LET t == channels[k].type IN
                 more.frames[t][(Counted(W, p) - 1) * size(t) + Counted(Of(channels, t), k)]
                   = KeyFrame(t, frames[p].values[k])
      <4> DEFINE t == channels[k].type
      <4>1. t \in ChannelTypes  BY <1>4
      <4>2. Len(cue.frames[t]) = w * size(t)  BY <1>7, <4>1
      <4>3. (Counted(W, p) - 1) * size(t) = Len(cue.frames[t])
        <5> HIDE DEF t
        <5>1. Counted(W, p) - 1 = w  BY <1>2, <3>1
        <5> QED  BY <4>2, <5>1
      <4> QED  BY <1>8, <2>1, <4>3
    <3> QED  BY <1>9, <2>1, <3>1, <3>2
  <2>2. CASE p # i
    <3>1. p \in W \intersect (1 .. i - 1) /\ Counted(W, p) \in 1 .. w  BY <1>3, <2>2
    <3>2. ASSUME NEW k \in 1 .. n
          PROVE  LET t == channels[k].type IN
                 more.frames[t][(Counted(W, p) - 1) * size(t) + Counted(Of(channels, t), k)]
                   = KeyFrame(t, frames[p].values[k])
      <4> DEFINE t == channels[k].type
                 at == (Counted(W, p) - 1) * size(t) + Counted(Of(channels, t), k)
      <4>1. t \in ChannelTypes /\ Counted(Of(channels, t), k) \in 1 .. size(t)  BY <1>4
      <4>2. Len(cue.frames[t]) = w * size(t) /\ cue.frames[t] \in Seq(KeyMade)  BY <1>5, <1>7, <4>1
      <4>3. at \in 1 .. w * size(t)  BY <1>2, <3>1, <4>1, Rows
      <4> HIDE DEF at
      <4>4. at \in DOMAIN cue.frames[t]  BY <4>2, <4>3
      <4>5. more.frames[t][at] = cue.frames[t][at]  BY <1>8, <4>1, <4>4
      <4>6. cue.frames[t][at] = KeyFrame(t, frames[p].values[k])  BY <1>7, <3>1 DEF at
      <4> QED  BY <4>5, <4>6 DEF at
    <3> QED  BY <1>7, <1>9, <3>1, <3>2
  <2> QED  BY <2>1, <2>2
<1> QED  BY <1>2, <1>9, <1>10, <1>11 DEF Holds, n, W, w, size

(* Sequences with one domain have one length.                               *)
LEMMA SameLength ==
  ASSUME NEW S, NEW a \in Seq(S), NEW b \in Seq(S), DOMAIN a = DOMAIN b
  PROVE  Len(a) = Len(b)
<1>1. Len(a) \in Nat /\ Len(b) \in Nat /\ 1 .. Len(a) = 1 .. Len(b)  OBVIOUS
<1>2. Len(a) # 0 => Len(a) \in 1 .. Len(b)  BY <1>1
<1>3. Len(b) # 0 => Len(b) \in 1 .. Len(a)  BY <1>1
<1> QED  BY <1>1, <1>2, <1>3

(* One more frame.                                                          *)
LEMMA FrameRead ==
  ASSUME NEW st \in Setups, NEW cue \in DOMAIN st.cues, NEW frames \in Seq(Frame),
         NEW i \in 1 .. Len(frames), NEW s, FramesRead(s, st, cue, frames, i - 1), s.ok
  PROVE  FramesRead(HandleTimestamps(s, cue, frames[i]), st, cue, frames, i)
<1> DEFINE channels == st.channels
           n == Len(channels)
           frame == frames[i]
           values == frame.values
           z == HandleTimestamps(s, cue, frame)
           b == [s EXCEPT !.cues[cue].timestamps = Append(@, frame.time[1])]
<1> SUFFICES FramesRead(z, st, cue, frames, i)  OBVIOUS
<1>0. /\ s \in Setups /\ SameSetup(s, st) /\ s.channels = channels
      /\ \A p \in 1 .. i - 1 : Usable(channels, frames[p])
      /\ Len(s.cues) = Len(st.cues) /\ \A d \in DOMAIN st.cues : d # cue => s.cues[d] = st.cues[d]
      /\ Holds(s.cues[cue], channels, frames, i - 1)
  BY DEF FramesRead, SameSetup
<1>1. /\ i \in Nat \ {0} /\ i \in 1 .. i /\ \A p \in 1 .. i : p = i \/ p \in 1 .. i - 1
      /\ frame \in Frame /\ channels \in Seq(Channel) /\ values \in Seq(Value) /\ frame.time \in Seq(Int)
  <2>1. frame \in Frame  OBVIOUS
  <2> QED  BY <2>1 DEF Setups, Frame
<1>2. n \in Nat /\ Len(values) \in Nat /\ DOMAIN channels = 1 .. n
  <2> HIDE DEF channels, values
  <2> QED  BY <1>1
<1>3. s.cues \in Seq(CueMade) /\ st.cues \in Seq(CueMade) /\ DOMAIN s.cues = DOMAIN st.cues /\ s.cues[cue] \in CueMade
  BY <1>0 DEF Setups
<1> HIDE DEF z, b
<1>4. ASSUME z = [s EXCEPT !.ok = FALSE], ~Usable(channels, frame) PROVE FramesRead(z, st, cue, frames, i)
  <2>1. z \in Setups /\ ~z.ok /\ SameSetup(z, st)  BY <1>0, <1>4 DEF Setups, SameSetup
  <2> QED  BY <1>1, <1>4, <2>1 DEF FramesRead
<1>5. CASE values = <<>>
  <2>1. z = s  BY <1>5 DEF HandleTimestamps, z
  <2>2. i - 1 \in Nat /\ i - 1 + 1 = i /\ i \notin Written(frames)  BY <1>1, <1>5 DEF Written
  <2>3. Counted(Written(frames), i) = Counted(Written(frames), i - 1)
    <3> DEFINE W == Written(frames)
    <3> HIDE DEF W
    <3>1. Counted(W, i - 1 + 1) = IF i - 1 + 1 \in W THEN Counted(W, i - 1) + 1 ELSE Counted(W, i - 1)
      BY <2>2, CountedFacts
    <3>2. i \notin W  BY <2>2 DEF W
    <3>3. Counted(W, i) = Counted(W, i - 1)  BY <2>2, <3>1, <3>2
    <3> QED  BY <3>3 DEF W
  <2>4. Written(frames) \intersect (1 .. i) = Written(frames) \intersect (1 .. i - 1)  BY <1>1, <2>2
  <2>5. Holds(s.cues[cue], channels, frames, i)  BY <1>0, <2>3, <2>4 DEF Holds
  <2>6. \A p \in 1 .. i : Usable(channels, frames[p])  BY <1>0, <1>1, <1>5 DEF Usable
  <2> QED  BY <1>0, <2>1, <2>5, <2>6 DEF FramesRead
<1>6. CASE values # <<>> /\ frame.time = <<>>
  <2>1. z = [s EXCEPT !.ok = FALSE]  BY <1>6 DEF HandleTimestamps, Refused, z
  <2>2. ~Usable(channels, frame)  BY <1>6 DEF Usable
  <2> QED  BY <1>4, <2>1, <2>2
<1>7. CASE values # <<>> /\ frame.time # <<>>
  <2> DEFINE c == [s.cues[cue] EXCEPT !.timestamps = Append(@, frame.time[1])]
             cs == [s.cues EXCEPT ![cue] = c]
  <2>1. c \in CueMade /\ c.frames = s.cues[cue].frames /\ c.timestamps = Append(s.cues[cue].timestamps, frame.time[1])
    <3>1. frame.time[1] \in Int  BY <1>1, <1>7
    <3> HIDE DEF frame
    <3>2. Append(s.cues[cue].timestamps, frame.time[1]) \in Seq(Int)  BY <1>3, <3>1 DEF CueMade
    <3> QED  BY <1>3, <3>2 DEF CueMade
  <2> HIDE DEF c
  <2>2. /\ cs \in Seq(CueMade) /\ cs[cue] = c
        /\ Len(cs) = Len(st.cues) /\ DOMAIN cs = DOMAIN st.cues
        /\ \A d \in DOMAIN st.cues : d # cue => cs[d] = s.cues[d]
    <3>1. cs \in Seq(CueMade)  BY <1>3, <2>1
    <3>2. DOMAIN cs = DOMAIN st.cues /\ cs[cue] = c  BY <1>3, <2>1
    <3> QED  BY <1>3, <3>1, <3>2, SameLength
  <2>3. b = [s EXCEPT !.cues = cs]  BY <1>0, <1>3 DEF Setups, b, c, CueMade
  <2> HIDE DEF cs
  <2>4. b \in Setups /\ b.ok /\ SameSetup(b, st) /\ b.cues = cs /\ b.channels = channels
    BY <1>0, <2>2, <2>3 DEF Setups, SameSetup
  <2>5. PICK r : /\ ValuesRead(r, b, cue, values, Len(values))
                 /\ z = Ended(r, Len(values), Len(s.channels))
    <3>1. cue \in DOMAIN s.cues  BY <1>3
    <3> HIDE DEF frame
    <3> QED  BY <1>0, <1>1, <1>7, <2>4, <3>1, ValuesLoop DEF b, z
  <2>6. r \in Setups /\ SameSetup(r, st)  BY <2>4, <2>5 DEF ValuesRead, SameSetup
  <2>7. CASE ~r.ok
    <3>1. z = r  BY <2>5, <2>7 DEF Ended
    <3>2. PICK k \in 1 .. Len(values) : ~Readable(channels, values, k) \/ Lacking(channels, values, k)
      BY <2>4, <2>5, <2>7 DEF ValuesRead
    <3>3. ~Usable(channels, frame) \/ Pale(channels, frame)
      BY <1>2, <1>7, <3>2 DEF Usable, Pale, Readable
    <3> QED  BY <1>1, <2>6, <2>7, <3>1, <3>3 DEF FramesRead
  <2>8. CASE r.ok
    <3>1. /\ \A k \in 1 .. Len(values) : Readable(channels, values, k)
          /\ r.cues = [cs EXCEPT ![cue].frames = r.cues[cue].frames]
          /\ Extended(r.cues[cue].frames, c.frames, channels, values, Len(values))
      BY <2>2, <2>4, <2>5, <2>8 DEF ValuesRead
    <3>2. Len(values) <= n
      <4>1. Len(values) \in 1 .. Len(values) \/ Len(values) = 0  BY <1>2
      <4> QED  BY <1>2, <3>1, <4>1 DEF Readable
    <3>3. CASE Len(values) < n
      <4>1. z = [r EXCEPT !.ok = FALSE]  BY <1>0, <2>5, <2>8, <3>3 DEF Ended, Refused
      <4>2. z \in Setups /\ ~z.ok /\ SameSetup(z, st)  BY <2>6, <4>1 DEF Setups, SameSetup
      <4>3. ~Usable(channels, frame)  BY <1>2, <1>7, <3>3 DEF Usable
      <4> QED  BY <1>1, <4>2, <4>3 DEF FramesRead
    <3>4. CASE Len(values) = n
      <4>1. z = r  BY <1>0, <1>2, <2>5, <3>4 DEF Ended
      <4>2. Usable(channels, frame)  BY <1>7, <3>1, <3>4 DEF Usable, Readable
      <4>3. \A p \in 1 .. i : Usable(channels, frames[p])  BY <1>0, <1>1, <4>2
      <4>4. r.cues[cue] \in CueMade /\ r.cues[cue].timestamps = c.timestamps
            /\ Len(r.cues) = Len(cs) /\ \A d \in DOMAIN cs : d # cue => r.cues[d] = cs[d]
        <5> DEFINE rs == r.cues
        <5>1. rs \in Seq(CueMade)  BY <2>6 DEF Setups
        <5>2. PICK f : f = rs[cue].frames  OBVIOUS
        <5>3. rs = [cs EXCEPT ![cue].frames = f]  BY <3>1, <5>2
        <5> HIDE DEF rs
        <5>4. rs[cue] = [c EXCEPT !.frames = f] /\ DOMAIN rs = DOMAIN cs /\ cue \in DOMAIN rs
          BY <2>2, <5>3
        <5>7. \A d \in DOMAIN cs : d # cue => rs[d] = cs[d]  BY <5>3
        <5>5. rs[cue].timestamps = c.timestamps  BY <2>1, <5>4 DEF CueMade
        <5>6. rs[cue] \in CueMade /\ Len(rs) = Len(cs)  BY <2>2, <5>1, <5>4, SameLength
        <5> QED  BY <5>5, <5>6, <5>7 DEF rs
      <4>5. Holds(r.cues[cue], channels, frames, i)
        <5>1. Extended(r.cues[cue].frames, s.cues[cue].frames, channels, frames[i].values, Len(channels))
          BY <2>1, <3>1, <3>4
        <5>2. r.cues[cue].timestamps = Append(s.cues[cue].timestamps, frames[i].time[1])  BY <2>1, <4>4
        <5> HIDE DEF channels
        <5> QED  BY <1>0, <1>1, <1>3, <1>7, <4>4, <5>1, <5>2, HoldsMore
      <4>6. Len(z.cues) = Len(st.cues) /\ \A d \in DOMAIN st.cues : d # cue => z.cues[d] = st.cues[d]
        <5>1. \A d \in DOMAIN st.cues : d # cue => r.cues[d] = cs[d] /\ cs[d] = s.cues[d] /\ s.cues[d] = st.cues[d]
          BY <1>0, <2>2, <4>4, Zenon
        <5>2. Len(r.cues) = Len(st.cues)  BY <2>2, <4>4
        <5> QED  BY <4>1, <5>1, <5>2
      <4> QED  BY <2>6, <2>8, <4>1, <4>3, <4>5, <4>6 DEF FramesRead
    <3> QED  BY <1>2, <3>2, <3>3, <3>4
  <2> QED  BY <2>7, <2>8
<1> QED  BY <1>5, <1>6, <1>7

FramesMade(u, st, cue, frames) ==
  u = [i \in 0 .. Len(frames) |-> IF i = 0 THEN st
        ELSE IF u[i - 1].ok THEN HandleTimestamps(u[i - 1], cue, frames[i]) ELSE u[i - 1]]

(* The loop over the frames of a cue.                                       *)
LEMMA FramesTurns ==
  ASSUME NEW st, NEW cue, NEW frames, Len(frames) \in Nat
  PROVE  \E u : /\ FramesMade(u, st, cue, frames)
                /\ HandleFrames(st, cue, frames) = Ended(u[Len(frames)], Len(frames), 1)
<1> DEFINE n == Len(frames)
           a == [cue |-> cue, parts |-> frames]
           u == CHOOSE f : f = [i \in 0 .. Len(frames) |-> IF i = 0 THEN st
                  ELSE IF f[i - 1].ok THEN HandleTimestamps(f[i - 1], cue, frames[i]) ELSE f[i - 1]]
<1>1. PICK f : Turns(f, n, st, "frames", a)  BY TurnsExist
<1>2. \A s, i : Turn("frames", a, s, i) = IF s.ok THEN HandleTimestamps(s, cue, frames[i]) ELSE s
  BY DEF Turn
<1> HIDE DEF a
<1>3. f = [i \in 0 .. Len(frames) |-> IF i = 0 THEN st
             ELSE IF f[i - 1].ok THEN HandleTimestamps(f[i - 1], cue, frames[i]) ELSE f[i - 1]]
  <2>1. f = [i \in 0 .. n |-> IF i = 0 THEN st ELSE Turn("frames", a, f[i - 1], i)]  BY <1>1 DEF Turns
  <2>2. \A i : (IF i = 0 THEN st ELSE Turn("frames", a, f[i - 1], i))
             = IF i = 0 THEN st
               ELSE IF f[i - 1].ok THEN HandleTimestamps(f[i - 1], cue, frames[i]) ELSE f[i - 1]
    BY <1>2
  <2> QED  BY <2>1, <2>2, Zenon
<1>4. u = [i \in 0 .. Len(frames) |-> IF i = 0 THEN st
             ELSE IF u[i - 1].ok THEN HandleTimestamps(u[i - 1], cue, frames[i]) ELSE u[i - 1]]
  BY <1>3, Zenon
<1>5. HandleFrames(st, cue, frames) = Ended(u[n], n, 1)
  BY DEF HandleFrames, DoWithSubstr, Ended
<1>6. FramesMade(u, st, cue, frames)  BY <1>4 DEF FramesMade
<1> HIDE DEF u
<1> QED  BY <1>5, <1>6

(* A cue that was empty holds its frames when the loop has ended.           *)
LEMMA FramesLoop ==
  ASSUME NEW st \in Setups, st.ok, NEW cue \in DOMAIN st.cues, NEW frames \in Seq(Frame), frames # <<>>,
         st.cues[cue].timestamps = <<>>, st.cues[cue].frames = [t \in ChannelTypes |-> <<>>]
  PROVE  FramesRead(HandleFrames(st, cue, frames), st, cue, frames, Len(frames))
<1> DEFINE n == Len(frames)
<1>1. n \in Nat \ {0}  OBVIOUS
<1>2. PICK u : /\ FramesMade(u, st, cue, frames)
               /\ HandleFrames(st, cue, frames) = Ended(u[n], n, 1)
  <2>1. Len(frames) \in Nat  BY <1>1
  <2> QED  BY <2>1, FramesTurns
<1>9. u = [i \in 0 .. n |-> IF i = 0 THEN st
               ELSE IF u[i - 1].ok THEN HandleTimestamps(u[i - 1], cue, frames[i]) ELSE u[i - 1]]
  BY <1>2 DEF FramesMade
<1>3. HandleFrames(st, cue, frames) = u[n]
  <2>1. ~(n < 1)  BY <1>1
  <2> QED  BY <1>2, <2>1 DEF Ended
<1> HIDE DEF n
<1> DEFINE T == {i \in 0 .. n : FramesRead(u[i], st, cue, frames, i)}
<1>4. 0 \in T
  <2>1. 0 \in 0 .. n  BY <1>1
  <2>2. u[0] = st  BY <1>2, <1>9, <2>1
  <2>3. Counted(Written(frames), 0) = 0 /\ \A t : Counted(Of(st.channels, t), Len(st.channels)) \in Nat
    <3>1. Len(st.channels) \in Nat  BY DEF Setups
    <3> QED  BY <3>1, CountedFacts
  <2>4. \A m \in Nat : 0 * m = 0  OBVIOUS
  <2>5. Holds(st.cues[cue], st.channels, frames, 0)
    <3>1. Len(st.cues[cue].timestamps) = 0  OBVIOUS
    <3>2. \A t \in ChannelTypes : Len(st.cues[cue].frames[t]) = 0  OBVIOUS
    <3>3. \A t \in ChannelTypes : 0 * Counted(Of(st.channels, t), Len(st.channels)) = 0  BY <2>3, <2>4
    <3>4. Written(frames) \intersect (1 .. 0) = {}  OBVIOUS
    <3> QED  BY <2>3, <3>1, <3>2, <3>3, <3>4 DEF Holds
  <2>6. FramesRead(st, st, cue, frames, 0)  BY <2>5 DEF FramesRead, SameSetup
  <2> QED  BY <2>1, <2>2, <2>6
<1>5. ASSUME NEW i \in 1 .. n, i - 1 \in T PROVE i \in T
  <2>1. FramesRead(u[i - 1], st, cue, frames, i - 1)  BY <1>5
  <2>2. i \in 0 .. n /\ i # 0  BY <1>1
  <2>3. u[i] = IF u[i - 1].ok THEN HandleTimestamps(u[i - 1], cue, frames[i]) ELSE u[i - 1]
    BY <1>2, <1>9, <2>2
  <2>4. CASE u[i - 1].ok
    <3>1. u[i] = HandleTimestamps(u[i - 1], cue, frames[i])  BY <2>3, <2>4
    <3>2. FramesRead(u[i], st, cue, frames, i)  BY <2>1, <2>4, <3>1, FrameRead DEF n
    <3> QED  BY <2>2, <3>2
  <2>5. CASE ~u[i - 1].ok
    <3>1. u[i] = u[i - 1]  BY <2>3, <2>5
    <3>2. \A k \in 1 .. i - 1 : k \in 1 .. i  BY <1>1
    <3>3. FramesRead(u[i], st, cue, frames, i)  BY <2>1, <2>5, <3>1, <3>2 DEF FramesRead
    <3> QED  BY <2>2, <3>3
  <2> QED  BY <2>4, <2>5
<1> HIDE DEF T
<1>6. n \in T
  <2>1. n \in Nat /\ n \in 0 .. n  BY <1>1
  <2>2. \A k \in 0 .. n : k \in T  BY <1>4, <1>5, <2>1, UpToAll
  <2> QED  BY <2>1, <2>2
<1> QED  BY <1>3, <1>6 DEF T, n

(* The words of a cue: only the first two count.                            *)
Known(word) == word \in {"hold", "start_again", "next_cue", "do_nothing", "restart"}

WordsRead(s, st, cue, words, i) ==
  /\ s \in Setups /\ SameSetup(s, st)
  /\ IF s.ok
     THEN /\ \A k \in 1 .. i : k <= 2 => Known(words[k])
          /\ Len(s.cues) = Len(st.cues)
          /\ s.cues[cue].timestamps = st.cues[cue].timestamps /\ s.cues[cue].frames = st.cues[cue].frames
          /\ \A d \in DOMAIN st.cues : d # cue => s.cues[d] = st.cues[d]
     ELSE \E k \in 1 .. i : k <= 2 /\ ~Known(words[k])

(* One more word sets how the cue ends or restarts, and nothing else.       *)
LEMMA WordRead ==
  ASSUME NEW st \in Setups, NEW cue \in DOMAIN st.cues, NEW words, NEW i \in Nat \ {0},
         NEW s, WordsRead(s, st, cue, words, i - 1), s.ok
  PROVE  WordsRead(HandleCueConf(s, cue, words[i], i), st, cue, words, i)
<1> DEFINE z == HandleCueConf(s, cue, words[i], i)
           word == words[i]
<1> SUFFICES WordsRead(z, st, cue, words, i)  OBVIOUS
<1>0. /\ s \in Setups /\ SameSetup(s, st)
      /\ \A k \in 1 .. i - 1 : k <= 2 => Known(words[k])
      /\ Len(s.cues) = Len(st.cues)
      /\ s.cues[cue].timestamps = st.cues[cue].timestamps /\ s.cues[cue].frames = st.cues[cue].frames
      /\ \A d \in DOMAIN st.cues : d # cue => s.cues[d] = st.cues[d]
  BY DEF WordsRead
<1>1. i \in 1 .. i /\ \A k \in 1 .. i : k = i \/ k \in 1 .. i - 1  OBVIOUS
<1>2. s.cues \in Seq(CueMade) /\ st.cues \in Seq(CueMade) /\ DOMAIN s.cues = DOMAIN st.cues /\ s.cues[cue] \in CueMade
  BY <1>0 DEF Setups
<1>3. ASSUME NEW c \in CueMade, c.timestamps = s.cues[cue].timestamps, c.frames = s.cues[cue].frames,
             z = [s EXCEPT !.cues = [s.cues EXCEPT ![cue] = c]], Known(word)
      PROVE  WordsRead(z, st, cue, words, i)
  <2> DEFINE cs == [s.cues EXCEPT ![cue] = c]
  <2>1. cs \in Seq(CueMade) /\ DOMAIN cs = DOMAIN st.cues  BY <1>2
  <2>2. cs[cue] = c /\ \A d \in DOMAIN st.cues : d # cue => cs[d] = s.cues[d]  BY <1>2
  <2>3. Len(cs) = Len(st.cues)  BY <1>2, <2>1, SameLength
  <2> HIDE DEF cs, z
  <2>4. z = [s EXCEPT !.cues = cs]  BY <1>3 DEF cs
  <2>5. z \in Setups /\ z.ok /\ SameSetup(z, st) /\ z.cues = cs  BY <1>0, <2>1, <2>4 DEF Setups, SameSetup
  <2>6. \A d \in DOMAIN st.cues : d # cue => cs[d] = st.cues[d]  BY <1>0, <2>2
  <2>7. \A k \in 1 .. i : k <= 2 => Known(words[k])  BY <1>0, <1>1, <1>3
  <2>8. cs[cue].timestamps = st.cues[cue].timestamps /\ cs[cue].frames = st.cues[cue].frames
    BY <1>0, <1>3, <2>2
  <2> QED  BY <2>3, <2>5, <2>6, <2>7, <2>8 DEF WordsRead
<1> HIDE DEF z
<1>4. CASE i > 2
  <2>1. z = s  BY <1>4 DEF HandleCueConf, z
  <2>2. \A k \in 1 .. i : k <= 2 => k \in 1 .. i - 1  BY <1>4
  <2> QED  BY <1>0, <2>1, <2>2 DEF WordsRead
<1>5. CASE i <= 2 /\ ~Known(word)
  <2>1. z = [s EXCEPT !.ok = FALSE]  BY <1>5 DEF HandleCueConf, Known, Refused, z
  <2>2. z \in Setups /\ ~z.ok /\ SameSetup(z, st)  BY <1>0, <2>1 DEF Setups, SameSetup
  <2> QED  BY <1>1, <1>5, <2>2 DEF WordsRead
<1>6. CASE i <= 2 /\ word \in {"hold", "start_again", "next_cue"}
  <2> DEFINE c == [s.cues[cue] EXCEPT !.end_handling = word]
  <2>1. c \in CueMade /\ c.timestamps = s.cues[cue].timestamps /\ c.frames = s.cues[cue].frames
    BY <1>2, <1>6 DEF CueMade
  <2>2. z = [s EXCEPT !.cues[cue].end_handling = word]  BY <1>6 DEF HandleCueConf, z
  <2>3. z = [s EXCEPT !.cues = [s.cues EXCEPT ![cue] = c]]  BY <1>0, <1>2, <2>2 DEF Setups
  <2> HIDE DEF c
  <2> QED  BY <1>3, <1>6, <2>1, <2>3 DEF Known
<1>7. CASE i <= 2 /\ word \in {"do_nothing", "restart"} /\ word \notin {"hold", "start_again", "next_cue"}
  <2> DEFINE c == [s.cues[cue] EXCEPT !.restart_handling = word]
  <2>1. c \in CueMade /\ c.timestamps = s.cues[cue].timestamps /\ c.frames = s.cues[cue].frames
    BY <1>2, <1>7 DEF CueMade
  <2>2. z = [s EXCEPT !.cues[cue].restart_handling = word]  BY <1>7 DEF HandleCueConf, z
  <2>3. z = [s EXCEPT !.cues = [s.cues EXCEPT ![cue] = c]]  BY <1>0, <1>2, <2>2 DEF Setups
  <2> HIDE DEF c
  <2> QED  BY <1>3, <1>7, <2>1, <2>3 DEF Known
<1> QED  BY <1>4, <1>5, <1>6, <1>7 DEF Known

WordsMade(u, st, cue, words) ==
  u = [i \in 0 .. Len(words) |-> IF i = 0 THEN st
        ELSE IF u[i - 1].ok THEN HandleCueConf(u[i - 1], cue, words[i], i) ELSE u[i - 1]]

(* The loop over the words of a cue.                                        *)
LEMMA WordsTurns ==
  ASSUME NEW st, NEW cue, NEW words, Len(words) \in Nat
  PROVE  \E u : /\ WordsMade(u, st, cue, words)
                /\ HandleConf(st, cue, words) = Ended(u[Len(words)], Len(words), 0)
<1> DEFINE n == Len(words)
           a == [cue |-> cue, parts |-> words]
           u == CHOOSE f : f = [i \in 0 .. Len(words) |-> IF i = 0 THEN st
                  ELSE IF f[i - 1].ok THEN HandleCueConf(f[i - 1], cue, words[i], i) ELSE f[i - 1]]
<1>1. PICK f : Turns(f, n, st, "words", a)  BY TurnsExist
<1>2. \A s, i : Turn("words", a, s, i) = IF s.ok THEN HandleCueConf(s, cue, words[i], i) ELSE s
  BY DEF Turn
<1> HIDE DEF a
<1>3. f = [i \in 0 .. Len(words) |-> IF i = 0 THEN st
             ELSE IF f[i - 1].ok THEN HandleCueConf(f[i - 1], cue, words[i], i) ELSE f[i - 1]]
  <2>1. f = [i \in 0 .. n |-> IF i = 0 THEN st ELSE Turn("words", a, f[i - 1], i)]  BY <1>1 DEF Turns
  <2>2. \A i : (IF i = 0 THEN st ELSE Turn("words", a, f[i - 1], i))
             = IF i = 0 THEN st
               ELSE IF f[i - 1].ok THEN HandleCueConf(f[i - 1], cue, words[i], i) ELSE f[i - 1]
    BY <1>2
  <2> QED  BY <2>1, <2>2, Zenon
<1>4. u = [i \in 0 .. Len(words) |-> IF i = 0 THEN st
             ELSE IF u[i - 1].ok THEN HandleCueConf(u[i - 1], cue, words[i], i) ELSE u[i - 1]]
  BY <1>3, Zenon
<1>5. HandleConf(st, cue, words) = Ended(u[n], n, 0)
  BY DEF HandleConf, DoWithSubstr, Ended
<1>6. WordsMade(u, st, cue, words)  BY <1>4 DEF WordsMade
<1> HIDE DEF u
<1> QED  BY <1>5, <1>6

(* Nothing is done to what is refused already.                              *)
LEMMA WordsUnread ==
  ASSUME NEW st, ~st.ok, NEW cue, NEW words, Len(words) \in Nat
  PROVE  HandleConf(st, cue, words) = st
<1> DEFINE n == Len(words)
<1>1. PICK u : /\ WordsMade(u, st, cue, words)
               /\ HandleConf(st, cue, words) = Ended(u[n], n, 0)
  BY WordsTurns, Zenon
<1>9. u = [i \in 0 .. n |-> IF i = 0 THEN st
               ELSE IF u[i - 1].ok THEN HandleCueConf(u[i - 1], cue, words[i], i) ELSE u[i - 1]]
  BY <1>1 DEF WordsMade
<1>2. n \in Nat /\ n \in 0 .. n /\ 0 \in 0 .. n  OBVIOUS
<1> HIDE DEF n
<1> DEFINE T == {i \in 0 .. n : u[i] = st}
<1>3. 0 \in T  BY <1>1, <1>9, <1>2
<1>4. ASSUME NEW i \in 1 .. n, i - 1 \in T PROVE i \in T
  <2>1. i \in 0 .. n /\ i # 0 /\ u[i - 1] = st  BY <1>2, <1>4
  <2> QED  BY <1>1, <1>9, <2>1
<1> HIDE DEF T
<1>5. \A k \in 0 .. n : k \in T  BY <1>2, <1>3, <1>4, UpToAll
<1>6. u[n] = st  BY <1>2, <1>5 DEF T
<1> QED  BY <1>1, <1>6 DEF Ended

(* The frames of a cue stay when its words are read.                        *)
LEMMA WordsLoop ==
  ASSUME NEW st \in Setups, st.ok, NEW cue \in DOMAIN st.cues, NEW words, Len(words) \in Nat
  PROVE  WordsRead(HandleConf(st, cue, words), st, cue, words, Len(words))
<1> DEFINE n == Len(words)
<1>1. PICK u : /\ WordsMade(u, st, cue, words)
               /\ HandleConf(st, cue, words) = Ended(u[n], n, 0)
  BY WordsTurns, Zenon
<1>9. u = [i \in 0 .. n |-> IF i = 0 THEN st
               ELSE IF u[i - 1].ok THEN HandleCueConf(u[i - 1], cue, words[i], i) ELSE u[i - 1]]
  BY <1>1 DEF WordsMade
<1>2. HandleConf(st, cue, words) = u[n]
  <2>1. ~(n < 0)  OBVIOUS
  <2> QED  BY <1>1, <2>1 DEF Ended
<1>3. n \in Nat /\ n \in 0 .. n /\ 0 \in 0 .. n  OBVIOUS
<1> HIDE DEF n
<1> DEFINE T == {i \in 0 .. n : WordsRead(u[i], st, cue, words, i)}
<1>4. 0 \in T
  <2>1. WordsRead(st, st, cue, words, 0)  BY DEF WordsRead, SameSetup
  <2>2. u[0] = st  BY <1>1, <1>9, <1>3
  <2> QED  BY <1>3, <2>1, <2>2
<1>5. ASSUME NEW i \in 1 .. n, i - 1 \in T PROVE i \in T
  <2>1. i \in 0 .. n /\ i # 0 /\ WordsRead(u[i - 1], st, cue, words, i - 1) /\ i \in Nat \ {0}  BY <1>3, <1>5
  <2>2. u[i] = IF u[i - 1].ok THEN HandleCueConf(u[i - 1], cue, words[i], i) ELSE u[i - 1]
    BY <1>1, <1>9, <2>1
  <2>3. CASE u[i - 1].ok
    <3>1. WordsRead(u[i], st, cue, words, i)  BY <2>1, <2>2, <2>3, WordRead
    <3> QED  BY <2>1, <3>1
  <2>4. CASE ~u[i - 1].ok
    <3>1. u[i] = u[i - 1]  BY <2>2, <2>4
    <3>2. \A k \in 1 .. i - 1 : k \in 1 .. i  BY <2>1
    <3>3. WordsRead(u[i], st, cue, words, i)  BY <2>1, <2>4, <3>1, <3>2 DEF WordsRead
    <3> QED  BY <2>1, <3>3
  <2> QED  BY <2>3, <2>4
<1> HIDE DEF T
<1>6. \A k \in 0 .. n : k \in T  BY <1>3, <1>4, <1>5, UpToAll
<1>7. WordsRead(u[n], st, cue, words, n)  BY <1>3, <1>6 DEF T
<1> QED  BY <1>2, <1>7 DEF n

-----------------------------------------------------------------------------
(* A cue of the text.                                                       *)

CueRight(channels, text) ==
  /\ \A p \in 1 .. Len(text.frames) : Usable(channels, text.frames[p])
  /\ \A k \in 1 .. Len(text.conf) : k <= 2 => Known(text.conf[k])
CuePale(channels, text) == \E p \in 1 .. Len(text.frames) : Pale(channels, text.frames[p])

(* One more cue holds its frames, unless its text is not right.             *)
LEMMA CueRead ==
  ASSUME NEW st \in Setups, st.ok, NEW text \in CueText, text.frames # <<>>,
         NEW cue, cue = Len(st.cues) + 1, NEW z, z = HandleCue(st, text, cue)
  PROVE  /\ z \in Setups /\ SameSetup(z, st)
         /\ z.ok => /\ Len(z.cues) = cue
                    /\ \A d \in 1 .. Len(st.cues) : z.cues[d] = st.cues[d]
                    /\ Holds(z.cues[cue], st.channels, text.frames, Len(text.frames))
                    /\ CueRight(st.channels, text)
         /\ ~z.ok => ~CueRight(st.channels, text) \/ CuePale(st.channels, text)
<1> DEFINE none == [timestamps |-> <<>>, frames |-> [t \in ChannelTypes |-> <<>>],
                    end_handling |-> "next_cue", restart_handling |-> "do_nothing"]
           b == [st EXCEPT !.cues = Append(@, none)]
           y == HandleFrames(b, cue, text.frames)
<1>1. none \in CueMade
  <2>1. <<>> \in Seq(Int) /\ [t \in ChannelTypes |-> <<>>] \in [ChannelTypes -> Seq(KeyMade)]  OBVIOUS
  <2> QED  BY <2>1 DEF CueMade
<1>2. none.timestamps = <<>> /\ none.frames = [t \in ChannelTypes |-> <<>>]  OBVIOUS
<1>3. z = HandleConf(y, cue, text.conf)  BY DEF HandleCue
<1> HIDE DEF none
<1>4. st.cues \in Seq(CueMade) /\ Len(st.cues) \in Nat /\ cue \in Nat  BY DEF Setups
<1>5. /\ Append(st.cues, none) \in Seq(CueMade) /\ Len(Append(st.cues, none)) = cue
      /\ Append(st.cues, none)[cue] = none
      /\ \A d \in 1 .. Len(st.cues) : Append(st.cues, none)[d] = st.cues[d] /\ d # cue
  <2> DEFINE q == st.cues
  <2>1. q \in Seq(CueMade) /\ Len(q) \in Nat /\ cue = Len(q) + 1  BY <1>4
  <2> HIDE DEF q
  <2>2. /\ Append(q, none) \in Seq(CueMade) /\ Len(Append(q, none)) = cue
        /\ Append(q, none)[cue] = none
        /\ \A d \in 1 .. Len(q) : Append(q, none)[d] = q[d] /\ d # cue
    BY <1>1, <2>1
  <2> QED  BY <2>2 DEF q
<1>6. b \in Setups /\ b.ok /\ SameSetup(b, st) /\ b.cues = Append(st.cues, none)
  BY <1>5 DEF Setups, SameSetup
<1>7. cue \in DOMAIN b.cues /\ b.cues[cue] = none /\ DOMAIN b.cues = 1 .. cue  BY <1>4, <1>5, <1>6
<1>8. text.frames \in Seq(Frame) /\ text.conf \in Seq(STRING) /\ Len(text.conf) \in Nat  BY DEF CueText
<1> HIDE DEF b
<1>9. FramesRead(y, b, cue, text.frames, Len(text.frames))  BY <1>2, <1>6, <1>7, <1>8, FramesLoop
<1> HIDE DEF y
<1>10. y \in Setups /\ SameSetup(y, st) /\ b.channels = st.channels  BY <1>6, <1>9 DEF FramesRead, SameSetup
<1>11. CASE ~y.ok
  <2>1. \E p \in 1 .. Len(text.frames) : ~Usable(st.channels, text.frames[p]) \/ Pale(st.channels, text.frames[p])
    BY <1>9, <1>10, <1>11 DEF FramesRead
  <2>2. z = y  BY <1>3, <1>8, <1>11, WordsUnread
  <2> QED  BY <1>10, <1>11, <2>1, <2>2 DEF CueRight, CuePale
<1>12. CASE y.ok
  <2>1. /\ \A p \in 1 .. Len(text.frames) : Usable(st.channels, text.frames[p])
        /\ Len(y.cues) = cue /\ \A d \in 1 .. cue : d # cue => y.cues[d] = b.cues[d]
        /\ Holds(y.cues[cue], st.channels, text.frames, Len(text.frames))
    BY <1>5, <1>6, <1>7, <1>9, <1>10, <1>12 DEF FramesRead
  <2>2. y.cues \in Seq(CueMade) /\ cue \in DOMAIN y.cues /\ DOMAIN y.cues = 1 .. cue
    BY <1>4, <1>10, <2>1 DEF Setups
  <2>3. WordsRead(z, y, cue, text.conf, Len(text.conf))  BY <1>3, <1>8, <1>10, <1>12, <2>2, WordsLoop
  <2>4. z \in Setups /\ SameSetup(z, st)  BY <1>10, <2>3 DEF WordsRead, SameSetup
  <2>5. CASE ~z.ok
    <3>1. ~CueRight(st.channels, text)  BY <2>3, <2>5 DEF WordsRead, CueRight
    <3> QED  BY <2>4, <2>5, <3>1
  <2>6. CASE z.ok
    <3>1. /\ \A k \in 1 .. Len(text.conf) : k <= 2 => Known(text.conf[k])
          /\ Len(z.cues) = cue
          /\ z.cues[cue].timestamps = y.cues[cue].timestamps /\ z.cues[cue].frames = y.cues[cue].frames
          /\ \A d \in 1 .. cue : d # cue => z.cues[d] = y.cues[d]
      BY <2>1, <2>2, <2>3, <2>6 DEF WordsRead
    <3>2. CueRight(st.channels, text)  BY <2>1, <3>1 DEF CueRight
    <3>3. Holds(z.cues[cue], st.channels, text.frames, Len(text.frames))
      <4> DEFINE was == y.cues[cue]
                 is == z.cues[cue]
      <4>1. is.timestamps = was.timestamps /\ is.frames = was.frames  BY <3>1
      <4>2. Holds(was, st.channels, text.frames, Len(text.frames))  BY <2>1
      <4> HIDE DEF was, is
      <4>3. Holds(is, st.channels, text.frames, Len(text.frames))  BY <4>1, <4>2 DEF Holds
      <4> QED  BY <4>3 DEF is
    <3>4. \A d \in 1 .. Len(st.cues) : z.cues[d] = st.cues[d]
      <4> TAKE d \in 1 .. Len(st.cues)
      <4>1. d \in 1 .. cue /\ d # cue /\ b.cues[d] = st.cues[d]  BY <1>4, <1>5, <1>6
      <4> QED  BY <2>1, <3>1, <4>1
    <3> QED  BY <2>4, <2>6, <3>1, <3>2, <3>3, <3>4
  <2> QED  BY <2>5, <2>6
<1> QED  BY <1>11, <1>12

(* The cues read so far.                                                    *)
CuesRead(s, st, texts, i) ==
  /\ s \in Setups /\ SameSetup(s, st)
  /\ IF s.ok
     THEN /\ Len(s.cues) = i
          /\ \A c \in 1 .. i : /\ CueRight(st.channels, texts[c])
                               /\ Holds(s.cues[c], st.channels, texts[c].frames, Len(texts[c].frames))
     ELSE \E c \in 1 .. i : ~CueRight(st.channels, texts[c]) \/ CuePale(st.channels, texts[c])

(* One more cue leaves those before it alone.                               *)
LEMMA NextCueRead ==
  ASSUME NEW st \in Setups, NEW texts, NEW i \in Nat \ {0}, texts[i] \in CueText, texts[i].frames # <<>>,
         NEW s, CuesRead(s, st, texts, i - 1), s.ok
  PROVE  CuesRead(HandleCue(s, texts[i], i), st, texts, i)
<1> DEFINE text == texts[i]
           z == HandleCue(s, text, i)
<1> SUFFICES CuesRead(z, st, texts, i)  OBVIOUS
<1>0. /\ s \in Setups /\ SameSetup(s, st) /\ s.channels = st.channels /\ Len(s.cues) = i - 1
      /\ \A c \in 1 .. i - 1 : /\ CueRight(st.channels, texts[c])
                               /\ Holds(s.cues[c], st.channels, texts[c].frames, Len(texts[c].frames))
  BY DEF CuesRead, SameSetup
<1>1. i \in 1 .. i /\ i = Len(s.cues) + 1 /\ \A c \in 1 .. i : c = i \/ c \in 1 .. i - 1  BY <1>0
<1>2. text \in CueText /\ text.frames # <<>>  OBVIOUS
<1> HIDE DEF z, text
<1>3. /\ z \in Setups /\ SameSetup(z, s)
      /\ z.ok => /\ Len(z.cues) = i
                 /\ \A d \in 1 .. i - 1 : z.cues[d] = s.cues[d]
                 /\ Holds(z.cues[i], st.channels, text.frames, Len(text.frames))
                 /\ CueRight(st.channels, text)
      /\ ~z.ok => ~CueRight(st.channels, text) \/ CuePale(st.channels, text)
  <2>1. z = HandleCue(s, text, i)  BY DEF z
  <2>2. /\ z \in Setups /\ SameSetup(z, s)
        /\ z.ok => /\ Len(z.cues) = i
                   /\ \A d \in 1 .. Len(s.cues) : z.cues[d] = s.cues[d]
                   /\ Holds(z.cues[i], s.channels, text.frames, Len(text.frames))
                   /\ CueRight(s.channels, text)
        /\ ~z.ok => ~CueRight(s.channels, text) \/ CuePale(s.channels, text)
    BY <1>0, <1>1, <1>2, <2>1, CueRead
  <2> QED  BY <1>0, <2>2
<1>4. SameSetup(z, st)  BY <1>0, <1>3 DEF SameSetup
<1>5. CASE ~z.ok  BY <1>1, <1>3, <1>4, <1>5 DEF CuesRead, text
<1>6. CASE z.ok
  <2>1. \A c \in 1 .. i : /\ CueRight(st.channels, texts[c])
                          /\ Holds(z.cues[c], st.channels, texts[c].frames, Len(texts[c].frames))
    <3> TAKE c \in 1 .. i
    <3>1. CASE c = i  BY <1>3, <1>6, <3>1 DEF text
    <3>2. CASE c \in 1 .. i - 1
      <4>1. z.cues[c] = s.cues[c]  BY <1>3, <1>6, <3>2
      <4> QED  BY <1>0, <3>2, <4>1
    <3> QED  BY <1>1, <3>1, <3>2
  <2> QED  BY <1>3, <1>4, <1>6, <2>1 DEF CuesRead
<1> QED  BY <1>5, <1>6

CuesMade(u, st, texts) ==
  u = [i \in 0 .. Len(texts) |-> IF i = 0 THEN st
        ELSE IF u[i - 1].ok THEN HandleCue(u[i - 1], texts[i], i) ELSE u[i - 1]]

(* The loop over the cues, turn by turn.                                    *)
LEMMA CuesTurns ==
  ASSUME NEW st, NEW texts, Len(texts) \in Nat
  PROVE  \E u : /\ CuesMade(u, st, texts)
                /\ HandleCues(st, texts) = Ended(u[Len(texts)], Len(texts), 1)
<1> DEFINE n == Len(texts)
           u == CHOOSE f : f = [i \in 0 .. Len(texts) |-> IF i = 0 THEN st
                  ELSE IF f[i - 1].ok THEN HandleCue(f[i - 1], texts[i], i) ELSE f[i - 1]]
<1>1. PICK f : Turns(f, n, st, "cues", texts)  BY TurnsExist
<1>2. \A s, i : Turn("cues", texts, s, i) = IF s.ok THEN HandleCue(s, texts[i], i) ELSE s
  BY DEF Turn
<1>3. f = [i \in 0 .. Len(texts) |-> IF i = 0 THEN st
             ELSE IF f[i - 1].ok THEN HandleCue(f[i - 1], texts[i], i) ELSE f[i - 1]]
  <2>1. f = [i \in 0 .. n |-> IF i = 0 THEN st ELSE Turn("cues", texts, f[i - 1], i)]  BY <1>1 DEF Turns
  <2>2. \A i : (IF i = 0 THEN st ELSE Turn("cues", texts, f[i - 1], i))
             = IF i = 0 THEN st
               ELSE IF f[i - 1].ok THEN HandleCue(f[i - 1], texts[i], i) ELSE f[i - 1]
    BY <1>2
  <2> QED  BY <2>1, <2>2, Zenon
<1>4. u = [i \in 0 .. Len(texts) |-> IF i = 0 THEN st
             ELSE IF u[i - 1].ok THEN HandleCue(u[i - 1], texts[i], i) ELSE u[i - 1]]
  BY <1>3, Zenon
<1>5. HandleCues(st, texts) = Ended(u[n], n, 1)
  BY DEF HandleCues, DoWithSubstr, Ended
<1>6. CuesMade(u, st, texts)  BY <1>4 DEF CuesMade
<1> HIDE DEF u
<1> QED  BY <1>5, <1>6

(* The loop over the cues.                                                  *)
LEMMA CuesLoop ==
  ASSUME NEW st \in Setups, st.ok, st.cues = <<>>, NEW texts \in Seq(CueText), texts # <<>>,
         \A c \in DOMAIN texts : texts[c].frames # <<>>
  PROVE  CuesRead(HandleCues(st, texts), st, texts, Len(texts))
<1> DEFINE n == Len(texts)
<1>1. PICK u : /\ CuesMade(u, st, texts)
               /\ HandleCues(st, texts) = Ended(u[n], n, 1)
  <2>1. Len(texts) \in Nat  OBVIOUS
  <2> QED  BY <2>1, CuesTurns, Zenon
<1>9. u = [i \in 0 .. n |-> IF i = 0 THEN st
               ELSE IF u[i - 1].ok THEN HandleCue(u[i - 1], texts[i], i) ELSE u[i - 1]]
  BY <1>1 DEF CuesMade
<1>2. n \in Nat /\ n \in 0 .. n /\ 0 \in 0 .. n /\ n # 0  OBVIOUS
<1>3. HandleCues(st, texts) = u[n]
  <2>1. ~(n < 1)  BY <1>2
  <2> QED  BY <1>1, <2>1 DEF Ended
<1>0. \A i \in 1 .. n : texts[i] \in CueText /\ texts[i].frames # <<>>  OBVIOUS
<1> HIDE DEF n
<1> DEFINE T == {i \in 0 .. n : CuesRead(u[i], st, texts, i)}
<1>4. 0 \in T
  <2>1. CuesRead(st, st, texts, 0)  BY DEF CuesRead, SameSetup
  <2>2. u[0] = st  BY <1>1, <1>9, <1>2
  <2> QED  BY <1>2, <2>1, <2>2
<1>5. ASSUME NEW i \in 1 .. n, i - 1 \in T PROVE i \in T
  <2>1. i \in 0 .. n /\ i # 0 /\ CuesRead(u[i - 1], st, texts, i - 1) /\ i \in Nat \ {0}  BY <1>2, <1>5
  <2>2. u[i] = IF u[i - 1].ok THEN HandleCue(u[i - 1], texts[i], i) ELSE u[i - 1]
    BY <1>1, <1>9, <2>1
  <2>3. CASE u[i - 1].ok
    <3>1. CuesRead(u[i], st, texts, i)  BY <1>0, <2>1, <2>2, <2>3, NextCueRead
    <3> QED  BY <2>1, <3>1
  <2>4. CASE ~u[i - 1].ok
    <3>1. u[i] = u[i - 1]  BY <2>2, <2>4
    <3>2. \A k \in 1 .. i - 1 : k \in 1 .. i  BY <2>1
    <3>3. CuesRead(u[i], st, texts, i)  BY <2>1, <2>4, <3>1, <3>2 DEF CuesRead
    <3> QED  BY <2>1, <3>3
  <2> QED  BY <2>3, <2>4
<1> HIDE DEF T
<1>6. \A k \in 0 .. n : k \in T  BY <1>2, <1>4, <1>5, UpToAll
<1>7. CuesRead(u[n], st, texts, n)  BY <1>2, <1>6 DEF T
<1> QED  BY <1>3, <1>7 DEF n

-----------------------------------------------------------------------------
(* The channels.                                                            *)

Channelled(s, elsewhere, mapping, i) ==
  /\ s \in Setups /\ s.cues = <<>> /\ s.elsewhere = elsewhere /\ s.default_cue = -1
  /\ IF s.ok
     THEN /\ Len(s.channels) = i
          /\ \A k \in 1 .. i : /\ mapping[k].type \in ChannelTypes
                               /\ s.channels[k] = [name |-> mapping[k].name, type |-> mapping[k].type,
                                                   index |-> Counted(Of(mapping, mapping[k].type), k)]
     ELSE \E k \in 1 .. i : mapping[k].type \notin ChannelTypes

(* One more channel takes the next place of its type.                       *)
LEMMA ChannelAdded ==
  ASSUME NEW elsewhere, NEW mapping \in Seq(ChannelText), NEW i \in 1 .. Len(mapping),
         NEW s, Channelled(s, elsewhere, mapping, i - 1), s.ok
  PROVE  Channelled(IF mapping[i].type \in ChannelTypes THEN InitValuesOut(s, mapping[i]) ELSE Refused(s),
                    elsewhere, mapping, i)
<1> DEFINE t == mapping[i].type
           old == s.channels
           x == [name |-> mapping[i].name, type |-> t, index |-> PlaceOf(old, t) + 1]
           z == IF mapping[i].type \in ChannelTypes THEN InitValuesOut(s, mapping[i]) ELSE Refused(s)
<1> SUFFICES Channelled(z, elsewhere, mapping, i)  OBVIOUS
<1>0. /\ s \in Setups /\ s.cues = <<>> /\ s.elsewhere = elsewhere /\ s.default_cue = -1
      /\ Len(old) = i - 1 /\ old \in Seq(Channel)
      /\ \A k \in 1 .. i - 1 : /\ mapping[k].type \in ChannelTypes
                               /\ old[k] = [name |-> mapping[k].name, type |-> mapping[k].type,
                                            index |-> Counted(Of(mapping, mapping[k].type), k)]
  BY DEF Channelled, Setups
<1>1. /\ i \in Nat \ {0} /\ i \in 1 .. i /\ \A k \in 1 .. i : k = i \/ k \in 1 .. i - 1
      /\ mapping[i] \in ChannelText /\ Len(mapping) \in Nat
  OBVIOUS
<1> HIDE DEF z
<1>2. CASE t \notin ChannelTypes
  <2>1. z = [s EXCEPT !.ok = FALSE]  BY <1>2 DEF z, Refused
  <2>2. z \in Setups /\ ~z.ok /\ z.cues = <<>> /\ z.elsewhere = elsewhere /\ z.default_cue = -1
    BY <1>0, <2>1 DEF Setups
  <2> QED  BY <1>1, <1>2, <2>2 DEF Channelled
<1>3. CASE t \in ChannelTypes
  <2>1. PlaceOf(old, t) + 1 = Counted(Of(mapping, t), i)
    <3> DEFINE S == Of(mapping, t)
    <3>1. {k \in DOMAIN old : old[k].type = t} = S \intersect (1 .. i - 1)
      <4>1. DOMAIN old = 1 .. i - 1  BY <1>0, <1>1
      <4>2. \A k \in 1 .. i - 1 : k \in DOMAIN mapping /\ old[k].type = mapping[k].type
        <5> TAKE k \in 1 .. i - 1
        <5>1. k \in DOMAIN mapping  BY <1>1
        <5>2. PICK r : r = old[k]  OBVIOUS
        <5> HIDE DEF old
        <5>3. r = [name |-> mapping[k].name, type |-> mapping[k].type,
                   index |-> Counted(Of(mapping, mapping[k].type), k)]
          BY <1>0, <5>2
        <5>4. old[k].type = mapping[k].type  BY <5>2, <5>3
        <5> QED  BY <5>1, <5>4
      <4> HIDE DEF old, t
      <4> QED  BY <4>1, <4>2 DEF Of
    <3>2. PlaceOf(old, t) = Counted(S, i - 1)  BY <3>1 DEF PlaceOf, Counted
    <3>3. i \in S /\ i - 1 \in Nat /\ i - 1 + 1 = i  BY <1>1 DEF Of
    <3> HIDE DEF S
    <3>4. Counted(S, i - 1 + 1) = IF i - 1 + 1 \in S THEN Counted(S, i - 1) + 1 ELSE Counted(S, i - 1)
      BY <3>3, CountedFacts
    <3>5. Counted(S, i) = Counted(S, i - 1) + 1  BY <3>3, <3>4
    <3> QED  BY <3>2, <3>5 DEF S
  <2>2. Counted(Of(mapping, t), i) \in Nat  BY <1>1, CountedFacts
  <2>3. x \in Channel /\ x = [name |-> mapping[i].name, type |-> t, index |-> Counted(Of(mapping, t), i)]
    BY <1>1, <1>3, <2>1, <2>2 DEF Channel, ChannelText
  <2>4. z = [s EXCEPT !.channels = Append(@, x)]  BY <1>0, <1>3 DEF z, InitValuesOut
  <2> HIDE DEF x, old, t
  <2>5. /\ Append(old, x) \in Seq(Channel) /\ Len(Append(old, x)) = i /\ Append(old, x)[i] = x
        /\ \A k \in 1 .. i - 1 : Append(old, x)[k] = old[k]
    BY <1>0, <1>1, <2>3
  <2>6. z \in Setups /\ z.ok /\ z.cues = <<>> /\ z.elsewhere = elsewhere /\ z.default_cue = -1
        /\ z.channels = Append(old, x)
    BY <1>0, <2>4, <2>5 DEF Setups, old
  <2>7. \A k \in 1 .. i : /\ mapping[k].type \in ChannelTypes
                          /\ z.channels[k] = [name |-> mapping[k].name, type |-> mapping[k].type,
                                              index |-> Counted(Of(mapping, mapping[k].type), k)]
    <3> TAKE k \in 1 .. i
    <3>1. CASE k = i  BY <1>3, <2>3, <2>5, <2>6, <3>1 DEF t
    <3>2. CASE k \in 1 .. i - 1  BY <1>0, <2>5, <2>6, <3>2
    <3> QED  BY <1>1, <3>1, <3>2
  <2> QED  BY <2>5, <2>6, <2>7 DEF Channelled
<1> QED  BY <1>2, <1>3

MappingMade(u, st, mapping) ==
  u = [i \in 0 .. Len(mapping) |-> IF i = 0 THEN st
        ELSE IF u[i - 1].ok
             THEN IF mapping[i].type \in ChannelTypes THEN InitValuesOut(u[i - 1], mapping[i])
                  ELSE Refused(u[i - 1])
             ELSE u[i - 1]]

(* The loop over the mapping, turn by turn.                                 *)
LEMMA MappingTurns ==
  ASSUME NEW st, NEW mapping, Len(mapping) \in Nat
  PROVE  \E u : /\ MappingMade(u, st, mapping)
                /\ InitMapping(st, mapping) = Ended(u[Len(mapping)], Len(mapping), 0)
<1> DEFINE n == Len(mapping)
           u == CHOOSE f : f = [i \in 0 .. Len(mapping) |-> IF i = 0 THEN st
                  ELSE IF f[i - 1].ok
                       THEN IF mapping[i].type \in ChannelTypes THEN InitValuesOut(f[i - 1], mapping[i])
                            ELSE Refused(f[i - 1])
                       ELSE f[i - 1]]
<1>1. PICK f : Turns(f, n, st, "mapping", mapping)  BY TurnsExist
<1>2. \A s, i : Turn("mapping", mapping, s, i)
              = IF s.ok THEN IF mapping[i].type \in ChannelTypes THEN InitValuesOut(s, mapping[i]) ELSE Refused(s)
                ELSE s
  BY DEF Turn
<1>3. f = [i \in 0 .. Len(mapping) |-> IF i = 0 THEN st
                  ELSE IF f[i - 1].ok
                       THEN IF mapping[i].type \in ChannelTypes THEN InitValuesOut(f[i - 1], mapping[i])
                            ELSE Refused(f[i - 1])
                       ELSE f[i - 1]]
  <2>1. f = [i \in 0 .. n |-> IF i = 0 THEN st ELSE Turn("mapping", mapping, f[i - 1], i)]  BY <1>1 DEF Turns
  <2>2. \A i : (IF i = 0 THEN st ELSE Turn("mapping", mapping, f[i - 1], i))
             = IF i = 0 THEN st
               ELSE IF f[i - 1].ok
                       THEN IF mapping[i].type \in ChannelTypes THEN InitValuesOut(f[i - 1], mapping[i])
                            ELSE Refused(f[i - 1])
                       ELSE f[i - 1]
    BY <1>2
  <2> QED  BY <2>1, <2>2, Zenon
<1>4. u = [i \in 0 .. Len(mapping) |-> IF i = 0 THEN st
                  ELSE IF u[i - 1].ok
                       THEN IF mapping[i].type \in ChannelTypes THEN InitValuesOut(u[i - 1], mapping[i])
                            ELSE Refused(u[i - 1])
                       ELSE u[i - 1]]
  BY <1>3, Zenon
<1>5. InitMapping(st, mapping) = Ended(u[n], n, 0)
  BY DEF InitMapping, DoWithSubstr, Ended
<1>6. MappingMade(u, st, mapping)  BY <1>4 DEF MappingMade
<1> HIDE DEF u
<1> QED  BY <1>5, <1>6

(* The loop over the mapping.                                               *)
LEMMA MappingLoop ==
  ASSUME NEW elsewhere \in BOOLEAN, NEW mapping \in Seq(ChannelText)
  PROVE  Channelled(InitMapping(Unconfigured(elsewhere), mapping), elsewhere, mapping, Len(mapping))
<1> DEFINE n == Len(mapping)
           st == Unconfigured(elsewhere)
<1>1. PICK u : /\ MappingMade(u, st, mapping)
               /\ InitMapping(st, mapping) = Ended(u[n], n, 0)
  <2>1. Len(mapping) \in Nat  OBVIOUS
  <2> QED  BY <2>1, MappingTurns, Zenon
<1>9. u = [i \in 0 .. n |-> IF i = 0 THEN st
               ELSE IF u[i - 1].ok
                    THEN IF mapping[i].type \in ChannelTypes THEN InitValuesOut(u[i - 1], mapping[i])
                         ELSE Refused(u[i - 1])
                    ELSE u[i - 1]]
  BY <1>1 DEF MappingMade
<1>2. n \in Nat /\ n \in 0 .. n /\ 0 \in 0 .. n  OBVIOUS
<1>3. InitMapping(st, mapping) = u[n]
  <2>1. ~(n < 0)  BY <1>2
  <2> QED  BY <1>1, <2>1 DEF Ended
<1>0. Channelled(st, elsewhere, mapping, 0)
  <2>1. <<>> \in Seq(Channel) /\ <<>> \in Seq(CueMade) /\ -1 \in Int  OBVIOUS
  <2>2. st \in Setups  BY <2>1 DEF Setups, Unconfigured
  <2> QED  BY <2>2 DEF Channelled, Unconfigured
<1> HIDE DEF n, st
<1> DEFINE T == {i \in 0 .. n : Channelled(u[i], elsewhere, mapping, i)}
<1>4. 0 \in T
  <2>1. u[0] = st  BY <1>1, <1>9, <1>2
  <2> QED  BY <1>0, <1>2, <2>1
<1>5. ASSUME NEW i \in 1 .. n, i - 1 \in T PROVE i \in T
  <2>1. i \in 0 .. n /\ i # 0 /\ Channelled(u[i - 1], elsewhere, mapping, i - 1) /\ i \in Nat \ {0}  BY <1>2, <1>5
  <2>2. u[i] = IF u[i - 1].ok
               THEN IF mapping[i].type \in ChannelTypes THEN InitValuesOut(u[i - 1], mapping[i]) ELSE Refused(u[i - 1])
               ELSE u[i - 1]
    BY <1>1, <1>9, <2>1
  <2>3. CASE u[i - 1].ok
    <3>1. Channelled(u[i], elsewhere, mapping, i)  BY <2>1, <2>2, <2>3, ChannelAdded DEF n
    <3> QED  BY <2>1, <3>1
  <2>4. CASE ~u[i - 1].ok
    <3>1. u[i] = u[i - 1]  BY <2>2, <2>4
    <3>2. \A k \in 1 .. i - 1 : k \in 1 .. i  BY <2>1
    <3>3. Channelled(u[i], elsewhere, mapping, i)  BY <2>1, <2>4, <3>1, <3>2 DEF Channelled
    <3> QED  BY <2>1, <3>3
  <2> QED  BY <2>3, <2>4
<1> HIDE DEF T
<1>6. \A k \in 0 .. n : k \in T  BY <1>2, <1>4, <1>5, UpToAll
<1>7. Channelled(u[n], elsewhere, mapping, n)  BY <1>2, <1>6 DEF T
<1> QED  BY <1>3, <1>7 DEF n, st

-----------------------------------------------------------------------------
(* The configuration.                                                       *)

Texts == [mapping : Seq(ChannelText), cuelist : Seq(CueText), default_cue : Seq(Int), elsewhere : BOOLEAN]

HasText(c) == c.cuelist # <<>> /\ \A d \in DOMAIN c.cuelist : c.cuelist[d].frames # <<>>

(* What setting up makes of the texts, loop by loop.                        *)
LEMMA ParsedRead ==
  ASSUME NEW c \in Texts, HasText(c)
  PROVE  \E m : /\ Channelled(m, c.elsewhere, c.mapping, Len(c.mapping))
                /\ ~m.ok => Parsed(c) = m
                /\ m.ok => \E r : /\ CuesRead(r, m, c.cuelist, Len(c.cuelist))
                                  /\ Parsed(c) = IF ~r.ok THEN r
                                                 ELSE IF c.default_cue = <<>> THEN Refused(r)
                                                 ELSE [r EXCEPT !.default_cue = DefaultCueOf(r, c.default_cue[1])]
<1> DEFINE m == InitMapping(Unconfigured(c.elsewhere), c.mapping)
           r == HandleCues(m, c.cuelist)
<1>1. c.mapping \in Seq(ChannelText) /\ c.cuelist \in Seq(CueText) /\ c.elsewhere \in BOOLEAN  BY DEF Texts
<1>2. Channelled(m, c.elsewhere, c.mapping, Len(c.mapping))  BY <1>1, MappingLoop
<1>3. Parsed(c) = IF m.ok THEN SetupCues(m, c) ELSE m  BY DEF Parsed
<1> HIDE DEF m
<1>4. ASSUME m.ok
      PROVE  /\ CuesRead(r, m, c.cuelist, Len(c.cuelist))
             /\ Parsed(c) = IF ~r.ok THEN r
                            ELSE IF c.default_cue = <<>> THEN Refused(r)
                            ELSE [r EXCEPT !.default_cue = DefaultCueOf(r, c.default_cue[1])]
  <2>1. m \in Setups /\ m.cues = <<>>  BY <1>2 DEF Channelled
  <2>2. CuesRead(r, m, c.cuelist, Len(c.cuelist))  BY <1>1, <1>4, <2>1, CuesLoop DEF HasText
  <2>3. Parsed(c) = SetupCues(m, c)  BY <1>3, <1>4
  <2> QED  BY <2>2, <2>3 DEF SetupCues
<1> QED  BY <1>2, <1>3, <1>4

(* A configuration that is set up.                                          *)
LEMMA ReadWell ==
  ASSUME NEW c \in Texts, HasText(c), NEW s, s = Parsed(c), s.ok
  PROVE  /\ s \in Setups /\ Len(s.channels) = Len(c.mapping) /\ Len(s.cues) = Len(c.cuelist)
         /\ \A k \in 1 .. Len(c.mapping) :
              /\ c.mapping[k].type \in ChannelTypes
              /\ s.channels[k] = [name |-> c.mapping[k].name, type |-> c.mapping[k].type,
                                  index |-> Counted(Of(c.mapping, c.mapping[k].type), k)]
         /\ \A d \in 1 .. Len(c.cuelist) :
              /\ CueRight(s.channels, c.cuelist[d])
              /\ Holds(s.cues[d], s.channels, c.cuelist[d].frames, Len(c.cuelist[d].frames))
         /\ c.default_cue # <<>> /\ s.default_cue < Len(s.cues)
<1>1. PICK m : /\ Channelled(m, c.elsewhere, c.mapping, Len(c.mapping))
               /\ ~m.ok => s = m
               /\ m.ok => \E r : /\ CuesRead(r, m, c.cuelist, Len(c.cuelist))
                                  /\ s = IF ~r.ok THEN r
                                         ELSE IF c.default_cue = <<>> THEN Refused(r)
                                         ELSE [r EXCEPT !.default_cue = DefaultCueOf(r, c.default_cue[1])]
  BY ParsedRead
<1>2. m.ok  BY <1>1
<1>3. PICK r : /\ CuesRead(r, m, c.cuelist, Len(c.cuelist))
               /\ s = IF ~r.ok THEN r
                      ELSE IF c.default_cue = <<>> THEN Refused(r)
                      ELSE [r EXCEPT !.default_cue = DefaultCueOf(r, c.default_cue[1])]
  BY <1>1, <1>2
<1>4. r \in Setups /\ r.ok  BY <1>3 DEF CuesRead
<1>5. c.default_cue # <<>> /\ s = [r EXCEPT !.default_cue = DefaultCueOf(r, c.default_cue[1])]
  <2>1. r \in Setups  BY <1>3 DEF CuesRead
  <2>2. ~Refused(r).ok  BY <2>1 DEF Refused, Setups
  <2> QED  BY <1>3, <1>4, <2>2
<1>6. r.channels = m.channels /\ Len(r.cues) = Len(c.cuelist)
      /\ \A d \in 1 .. Len(c.cuelist) :
              /\ CueRight(m.channels, c.cuelist[d])
              /\ Holds(r.cues[d], m.channels, c.cuelist[d].frames, Len(c.cuelist[d].frames))
  BY <1>3, <1>4 DEF CuesRead, SameSetup
<1>7. s.channels = r.channels /\ s.cues = r.cues /\ s.default_cue = DefaultCueOf(r, c.default_cue[1])
  BY <1>4, <1>5 DEF Setups
<1>8. DefaultCueOf(r, c.default_cue[1]) \in Int /\ DefaultCueOf(r, c.default_cue[1]) < Len(r.cues)
  <2>1. c.default_cue[1] \in Int  BY <1>5 DEF Texts
  <2>2. Len(r.cues) \in Nat /\ Len(r.cues) # 0
    <3>1. c.cuelist \in Seq(CueText) /\ c.cuelist # <<>>  BY DEF Texts, HasText
    <3> QED  BY <1>6, <3>1
  <2> QED  BY <2>1, <2>2 DEF DefaultCueOf
<1>9. s \in Setups  BY <1>4, <1>5, <1>8 DEF Setups
<1>10. Len(m.channels) = Len(c.mapping)
       /\ \A k \in 1 .. Len(c.mapping) :
              /\ c.mapping[k].type \in ChannelTypes
              /\ m.channels[k] = [name |-> c.mapping[k].name, type |-> c.mapping[k].type,
                                  index |-> Counted(Of(c.mapping, c.mapping[k].type), k)]
  BY <1>1, <1>2 DEF Channelled
<1> QED  BY <1>5, <1>6, <1>7, <1>8, <1>9, <1>10

(* A configuration that is refused.                                         *)
LEMMA ReadIll ==
  ASSUME NEW c \in Texts, HasText(c), ~Parsed(c).ok
  PROVE  \/ \E k \in 1 .. Len(c.mapping) : c.mapping[k].type \notin ChannelTypes
         \/ c.default_cue = <<>>
         \/ \E channels \in Seq(Channel) :
              /\ Len(channels) = Len(c.mapping)
              /\ \A k \in 1 .. Len(c.mapping) : channels[k].type = c.mapping[k].type
              /\ \E d \in 1 .. Len(c.cuelist) : ~CueRight(channels, c.cuelist[d]) \/ CuePale(channels, c.cuelist[d])
<1> DEFINE s == Parsed(c)
<1>1. PICK m : /\ Channelled(m, c.elsewhere, c.mapping, Len(c.mapping))
               /\ ~m.ok => s = m
               /\ m.ok => \E r : /\ CuesRead(r, m, c.cuelist, Len(c.cuelist))
                                  /\ s = IF ~r.ok THEN r
                                         ELSE IF c.default_cue = <<>> THEN Refused(r)
                                         ELSE [r EXCEPT !.default_cue = DefaultCueOf(r, c.default_cue[1])]
  BY ParsedRead
<1>0. ~s.ok  OBVIOUS
<1> HIDE DEF s
<1>2. CASE ~m.ok  BY <1>1, <1>2 DEF Channelled
<1>3. CASE m.ok /\ c.default_cue # <<>>
  <2>1. PICK r : /\ CuesRead(r, m, c.cuelist, Len(c.cuelist))
                 /\ s = IF ~r.ok THEN r ELSE [r EXCEPT !.default_cue = DefaultCueOf(r, c.default_cue[1])]
    BY <1>1, <1>3
  <2>2. r \in Setups  BY <2>1 DEF CuesRead
  <2>3. ~r.ok
    <3> SUFFICES ASSUME r.ok PROVE s.ok  BY <1>0
    <3> QED  BY <2>1, <2>2 DEF Setups
  <2>4. \E d \in 1 .. Len(c.cuelist) : ~CueRight(m.channels, c.cuelist[d]) \/ CuePale(m.channels, c.cuelist[d])
    BY <2>1, <2>3 DEF CuesRead
  <2>5. m.channels \in Seq(Channel) /\ Len(m.channels) = Len(c.mapping)  BY <1>1, <1>3 DEF Channelled, Setups
  <2>6. \A k \in 1 .. Len(c.mapping) : m.channels[k].type = c.mapping[k].type
    <3> TAKE k \in 1 .. Len(c.mapping)
    <3>1. m.channels[k] = [name |-> c.mapping[k].name, type |-> c.mapping[k].type,
                           index |-> Counted(Of(c.mapping, c.mapping[k].type), k)]
      BY <1>1, <1>3 DEF Channelled
    <3> QED  BY <3>1
  <2> QED  BY <2>4, <2>5, <2>6
<1> QED  BY <1>2, <1>3

(* A set of numbers up to some number that is not empty has a greatest one. *)
LEMMA GreatestNumber ==
  ASSUME NEW n \in Nat, NEW I \in SUBSET (1 .. n), I # {}
  PROVE  Max(I) \in I /\ \A i \in I : i <= Max(I)
<1> DEFINE T == {n - i : i \in I}
<1>1. T \in SUBSET Nat /\ T # {}
  <2>1. \A i \in I : n - i \in Nat  OBVIOUS
  <2>2. T \subseteq Nat  BY <2>1
  <2>3. PICK i \in I : TRUE  OBVIOUS
  <2>4. n - i \in T  OBVIOUS
  <2> QED  BY <2>2, <2>4
<1>2. PICK x \in T : \A y \in T : x <= y  BY <1>1, LeastNatural
<1>3. PICK k \in I : x = n - k  BY <1>2
<1>4. ASSUME NEW i \in I PROVE k >= i
  <2>1. n - k <= n - i  BY <1>2, <1>3
  <2> QED  BY <2>1
<1> DEFINE g == CHOOSE j \in I : \A i \in I : j >= i
<1>5. g \in I /\ \A i \in I : g >= i  BY <1>4
<1>6. Max(I) = g  BY DEF Max
<1> HIDE DEF g
<1> QED  BY <1>5, <1>6

-----------------------------------------------------------------------------
(* The parser keeps its promises.                                           *)

ConfigInv ==
  /\ config \in Texts /\ HasText(config)
  /\ parsed = Unconfigured(config.elsewhere) \/ parsed = Parsed(config)

(* What was set up plays what the text says.                                *)
LEMMA SetFrames ==
  ASSUME config \in Texts, HasText(config), parsed = Parsed(config)
  PROVE  FramesFound
<1> SUFFICES ASSUME parsed.ok
             PROVE  /\ Len(parsed.cues) = Len(config.cuelist)
                    /\ \A c \in DOMAIN parsed.cues : LET cue == parsed.cues[c] IN
                         /\ Len(cue.timestamps) = Cardinality(WrittenFrames(c))
                         /\ \A p \in WrittenFrames(c) :
                              /\ cue.timestamps[Place(c, p)] = config.cuelist[c].frames[p].time[1]
                              /\ \A k \in DOMAIN parsed.channels :
                                   LET channel == parsed.channels[k]
                                       count == PlaceOf(parsed.channels, channel.type)
                                       at == (Place(c, p) - 1) * count + channel.index
                                   IN /\ at \in DOMAIN cue.frames[channel.type]
                                      /\ cue.frames[channel.type][at] = Meant(c, p, k)
  BY DEF FramesFound
<1> DEFINE channels == parsed.channels
           mapping == config.mapping
           n == Len(mapping)
<1>1. /\ parsed \in Setups /\ Len(channels) = n /\ Len(parsed.cues) = Len(config.cuelist)
      /\ \A k \in 1 .. n :
              /\ mapping[k].type \in ChannelTypes
              /\ channels[k] = [name |-> mapping[k].name, type |-> mapping[k].type,
                                index |-> Counted(Of(mapping, mapping[k].type), k)]
      /\ \A d \in 1 .. Len(config.cuelist) :
              /\ CueRight(channels, config.cuelist[d])
              /\ Holds(parsed.cues[d], channels, config.cuelist[d].frames, Len(config.cuelist[d].frames))
  BY ReadWell
<1>2. /\ mapping \in Seq(ChannelText) /\ channels \in Seq(Channel) /\ n \in Nat /\ DOMAIN channels = 1 .. n
      /\ DOMAIN mapping = 1 .. n /\ config.cuelist \in Seq(CueText) /\ parsed.cues \in Seq(CueMade)
      /\ DOMAIN parsed.cues = 1 .. Len(config.cuelist)
  <2>1. config.mapping \in Seq(ChannelText) /\ config.cuelist \in Seq(CueText)  BY DEF Texts
  <2>2. parsed.channels \in Seq(Channel) /\ parsed.cues \in Seq(CueMade)  BY <1>1 DEF Setups
  <2> QED  BY <1>1, <2>1, <2>2
<1>3. \A k \in 1 .. n : channels[k].type = mapping[k].type
                        /\ channels[k].index = Counted(Of(mapping, mapping[k].type), k)
  <2> TAKE k \in 1 .. n
  <2>1. channels[k] = [name |-> mapping[k].name, type |-> mapping[k].type,
                       index |-> Counted(Of(mapping, mapping[k].type), k)]
    BY <1>1
  <2> HIDE DEF channels, mapping
  <2> QED  BY <2>1
<1> HIDE DEF channels, mapping, n
<1>4. \A t : Of(channels, t) = Of(mapping, t)  BY <1>2, <1>3 DEF Of
<1>5. ASSUME NEW t PROVE PlaceOf(channels, t) = Counted(Of(channels, t), n)
  <2>1. {k \in DOMAIN channels : channels[k].type = t} = Of(channels, t) \intersect (1 .. n)  BY <1>2 DEF Of
  <2> QED  BY <2>1 DEF PlaceOf, Counted
<1>6. ASSUME NEW c \in DOMAIN parsed.cues
      PROVE  LET cue == parsed.cues[c] IN
             /\ Len(cue.timestamps) = Cardinality(WrittenFrames(c))
             /\ \A p \in WrittenFrames(c) :
                  /\ cue.timestamps[Place(c, p)] = config.cuelist[c].frames[p].time[1]
                  /\ \A k \in DOMAIN channels :
                       LET channel == channels[k]
                           count == PlaceOf(channels, channel.type)
                           at == (Place(c, p) - 1) * count + channel.index
                       IN /\ at \in DOMAIN cue.frames[channel.type]
                          /\ cue.frames[channel.type][at] = Meant(c, p, k)
  <2> DEFINE cue == parsed.cues[c]
             frames == config.cuelist[c].frames
             W == Written(frames)
             m == Len(frames)
  <2>1. c \in 1 .. Len(config.cuelist) /\ cue \in CueMade /\ config.cuelist[c] \in CueText  BY <1>2
  <2>2. CueRight(channels, config.cuelist[c]) /\ Holds(cue, channels, frames, m)  BY <1>1, <2>1 DEF channels
  <2>3. frames \in Seq(Frame) /\ m \in Nat /\ DOMAIN frames = 1 .. m
    <3>1. frames \in Seq(Frame)  BY <2>1 DEF CueText
    <3> HIDE DEF frames
    <3> QED  BY <3>1
  <2>4. WrittenFrames(c) = W  BY DEF WrittenFrames, Written
  <2> HIDE DEF frames, m
  <2>5. W = W \intersect (1 .. m)  BY <2>3 DEF Written
  <2>6. \A p \in W : p \in 1 .. m /\ Place(c, p) = Counted(W, p)
    <3> TAKE p \in W
    <3>1. p \in 1 .. m  BY <2>5
    <3>2. {q \in W : q <= p} = W \intersect (1 .. p)  BY <2>3, <2>5, <3>1
    <3> HIDE DEF W
    <3> QED  BY <2>4, <3>1, <3>2 DEF Place, Counted
  <2>7. Cardinality(W) = Counted(W, m)
    <3> HIDE DEF W
    <3> QED  BY <2>5 DEF Counted
  <2>8. Len(cue.timestamps) = Cardinality(WrittenFrames(c))  BY <2>2, <2>4, <2>7 DEF Holds
  <2>9. ASSUME NEW p \in W
        PROVE  /\ cue.timestamps[Place(c, p)] = frames[p].time[1]
               /\ \A k \in 1 .. n : LET t == channels[k].type IN
                    cue.frames[t][(Place(c, p) - 1) * PlaceOf(channels, t) + channels[k].index]
                      = KeyFrame(t, frames[p].values[k])
    <3>1. p \in W \intersect (1 .. m) /\ Place(c, p) = Counted(W, p)  BY <2>6
    <3>2. Len(channels) = n  BY <1>1 DEF channels, n
    <3>3. /\ cue.timestamps[Counted(W, p)] = frames[p].time[1]
          /\ \A k \in 1 .. n : LET t == channels[k].type IN
               cue.frames[t][(Counted(W, p) - 1) * Counted(Of(channels, t), n) + Counted(Of(channels, t), k)]
                 = KeyFrame(t, frames[p].values[k])
      BY <2>2, <3>1, <3>2 DEF Holds
    <3>4. \A k \in 1 .. n : channels[k].index = Counted(Of(channels, channels[k].type), k)  BY <1>3, <1>4
    <3> QED  BY <1>5, <3>1, <3>3, <3>4
  <2>10. ASSUME NEW p \in W, NEW k \in 1 .. n
         PROVE  (Place(c, p) - 1) * PlaceOf(channels, channels[k].type) + channels[k].index
                  \in DOMAIN cue.frames[channels[k].type]
    <3> DEFINE t == channels[k].type
               S == Of(channels, t)
               size == Counted(S, n)
    <3>1. p \in 1 .. m /\ Place(c, p) = Counted(W, p)  BY <2>6
    <3>2. Counted(W, p) \in 1 .. Counted(W, m)  BY <2>3, <3>1, CountedMember
    <3>3. t \in ChannelTypes /\ k \in S  BY <1>1, <1>2, <1>3 DEF Of, channels, mapping, n
    <3> HIDE DEF S
    <3>4. Counted(S, k) \in 1 .. size  BY <1>2, <3>3, CountedMember
    <3>5. size \in Nat /\ Counted(W, m) \in Nat  BY <1>2, <2>3, CountedFacts
    <3>6. channels[k].index = Counted(S, k)  BY <1>3, <1>4 DEF S
    <3>7. Len(channels) = n  BY <1>1 DEF channels, n
    <3>8. Len(cue.frames[t]) = Counted(W, m) * size  BY <2>2, <3>3, <3>7 DEF Holds, S
    <3>9. cue.frames[t] \in Seq(KeyMade)  BY <2>1, <3>3 DEF CueMade
    <3>10. PlaceOf(channels, t) = size  BY <1>5 DEF S
    <3> HIDE DEF t, size, W
    <3>11. (Counted(W, p) - 1) * size + Counted(S, k) \in 1 .. Counted(W, m) * size
      BY <3>2, <3>4, <3>5, Rows
    <3>12. (Counted(W, p) - 1) * size + Counted(S, k) \in DOMAIN cue.frames[t]  BY <3>8, <3>9, <3>11
    <3> QED  BY <3>1, <3>6, <3>10, <3>12 DEF t
  <2>11. \A p \in W : \A k \in 1 .. n : Meant(c, p, k) = KeyFrame(channels[k].type, frames[p].values[k])
    BY <1>3 DEF Meant, frames, mapping
  <2> HIDE DEF W, cue
  <2> QED  BY <1>2, <2>4, <2>8, <2>9, <2>10, <2>11, ZenonT(60) DEF cue, frames
<1> QED  BY <1>1, <1>6 DEF channels

(* What is asked of the text of one cue.                                    *)
WellWritten(c) ==
  /\ \A p \in WrittenFrames(c) : LET frame == config.cuelist[c].frames[p] IN
       /\ frame.time # <<>> /\ Len(frame.values) = Len(config.mapping)
       /\ \A k \in DOMAIN frame.values : frame.values[k].numbers # <<>>
  /\ \A i \in DOMAIN config.cuelist[c].conf \intersect 1..2 : config.cuelist[c].conf[i] \in
       {"hold", "start_again", "next_cue", "do_nothing", "restart"}

(* It is what its loops ask for.                                            *)
LEMMA RightIsWell ==
  ASSUME config \in Texts, NEW c \in DOMAIN config.cuelist, NEW channels, Len(channels) = Len(config.mapping)
  PROVE  CueRight(channels, config.cuelist[c]) <=> WellWritten(c)
<1> DEFINE text == config.cuelist[c]
           frames == text.frames
           conf == text.conf
<1>1. text \in CueText  BY DEF Texts
<1>2. frames \in Seq(Frame) /\ conf \in Seq(STRING)  BY <1>1 DEF CueText
<1> HIDE DEF text, frames, conf
<1>3. DOMAIN frames = 1 .. Len(frames) /\ DOMAIN conf = 1 .. Len(conf) /\ Len(conf) \in Nat  BY <1>2
<1>4. \A p \in DOMAIN frames : DOMAIN frames[p].values = 1 .. Len(frames[p].values)
  <2> TAKE p \in DOMAIN frames
  <2>1. frames[p] \in Frame  BY <1>2
  <2>2. frames[p].values \in Seq(Value)  BY <2>1 DEF Frame
  <2> QED  BY <2>2
<1>5. \A p : p \in WrittenFrames(c) <=> p \in DOMAIN frames /\ frames[p].values # <<>>
  BY DEF WrittenFrames, frames, text
<1>6. (\A p \in 1 .. Len(frames) : Usable(channels, frames[p]))
      <=> \A p \in WrittenFrames(c) :
            /\ frames[p].time # <<>> /\ Len(frames[p].values) = Len(config.mapping)
            /\ \A k \in DOMAIN frames[p].values : frames[p].values[k].numbers # <<>>
  BY <1>3, <1>4, <1>5 DEF Usable
<1>7. (\A k \in 1 .. Len(conf) : k <= 2 => Known(conf[k]))
      <=> \A i \in DOMAIN conf \intersect 1 .. 2 : Known(conf[i])
  BY <1>3
<1> QED  BY <1>6, <1>7 DEF CueRight, WellWritten, Known, frames, conf, text

(* What is refused is not well formed, or lacks a number of a colour.       *)
LEMMA SetRefuses ==
  ASSUME config \in Texts, HasText(config), parsed = Parsed(config)
  PROVE  RefusesMalformed
<1> DEFINE mapping == config.mapping
           n == Len(mapping)
           texts == config.cuelist
<1>1. texts \in Seq(CueText) /\ n \in Nat /\ DOMAIN mapping = 1 .. n /\ DOMAIN texts = 1 .. Len(texts)
  <2>1. mapping \in Seq(ChannelText) /\ texts \in Seq(CueText)  BY DEF Texts
  <2> QED  BY <2>1
<1>2. WellFormed <=> /\ \A k \in DOMAIN mapping : mapping[k].type \in ChannelTypes
                     /\ config.default_cue # <<>>
                     /\ \A c \in DOMAIN texts : WellWritten(c)
  BY DEF WellFormed, WellWritten
<1>3. ASSUME parsed.ok PROVE WellFormed
  <2>1. /\ Len(parsed.channels) = n
        /\ \A k \in 1 .. n : mapping[k].type \in ChannelTypes
        /\ \A d \in 1 .. Len(texts) : CueRight(parsed.channels, texts[d])
        /\ config.default_cue # <<>>
    BY <1>3, ReadWell
  <2>2. \A c \in DOMAIN texts : WellWritten(c)  BY <1>1, <2>1, RightIsWell
  <2> QED  BY <1>1, <1>2, <2>1, <2>2
<1>4. ASSUME ~parsed.ok, WellFormed, ColoursComplete PROVE FALSE
  <2>1. PICK channels \in Seq(Channel) :
              /\ Len(channels) = n
              /\ \A k \in 1 .. n : channels[k].type = mapping[k].type
              /\ \E d \in 1 .. Len(texts) : ~CueRight(channels, texts[d]) \/ CuePale(channels, texts[d])
    BY <1>1, <1>2, <1>4, ReadIll
  <2>2. PICK d \in 1 .. Len(texts) : ~CueRight(channels, texts[d]) \/ CuePale(channels, texts[d])  BY <2>1
  <2>3. CueRight(channels, texts[d])  BY <1>1, <1>2, <1>4, <2>1, RightIsWell
  <2>4. PICK p \in 1 .. Len(texts[d].frames) : Pale(channels, texts[d].frames[p])  BY <2>2, <2>3 DEF CuePale
  <2> DEFINE values == texts[d].frames[p].values
  <2>5. PICK k \in 1 .. Len(values) : Lacking(channels, values, k)  BY <2>4 DEF Pale
  <2>6. DOMAIN values = 1 .. Len(values) /\ p \in DOMAIN texts[d].frames /\ values # <<>>
    <3>1. texts[d] \in CueText  BY <1>1
    <3>2. texts[d].frames \in Seq(Frame)  BY <3>1 DEF CueText
    <3>3. texts[d].frames[p] \in Frame  BY <3>2
    <3>4. values \in Seq(Value)  BY <3>3 DEF Frame
    <3> HIDE DEF values, texts
    <3> QED  BY <2>5, <3>2, <3>4
  <2>7. p \in WrittenFrames(d) /\ d \in DOMAIN texts  BY <1>1, <2>6 DEF WrittenFrames
  <2>8. k \in 1 .. n /\ channels[k].type = "color" /\ Len(values[k].numbers) # 3
    BY <1>1, <2>1, <2>5 DEF Lacking
  <2>9. mapping[k].type = "color" /\ k \in DOMAIN values \intersect DOMAIN mapping  BY <1>1, <2>1, <2>6, <2>8
  <2> QED  BY <1>4, <2>7, <2>8, <2>9 DEF ColoursComplete
<1> QED  BY <1>3, <1>4 DEF RefusesMalformed

(* What is offered is the last channel of a name and type.                  *)
LEMMA SetOffers ==
  ASSUME config \in Texts, HasText(config), parsed = Parsed(config)
  PROVE  OutputsOffered
<1> SUFFICES ASSUME parsed.ok PROVE OutputsOffered  BY DEF OutputsOffered
<1> DEFINE channels == parsed.channels
           key(k) == <<channels[k].name, channels[k].type>>
<1>1. channels \in Seq(Channel) /\ parsed.default_cue < Len(parsed.cues)
  BY ReadWell DEF Setups
<1>2. ASSUME NEW k \in DOMAIN channels
      PROVE  \/ OutputChannels(parsed)[key(k)] = k
             \/ \E l \in (k + 1) .. Len(channels) : key(l) = key(k)
  <2> DEFINE I == {i \in 1 .. Len(channels) : <<channels[i].name, channels[i].type>> = key(k)}
  <2>1. Len(channels) \in Nat /\ k \in 1 .. Len(channels)  BY <1>1
  <2>2. k \in I /\ I \in SUBSET (1 .. Len(channels))  BY <2>1
  <2>3. key(k) \in {<<c.name, c.type>> : c \in ToSet(channels)}
    <3>1. channels[k] \in ToSet(channels)  BY DEF ToSet
    <3> QED  BY <3>1
  <2>4. SelectLastInSeq(channels, LAMBDA c : <<c.name, c.type>> = key(k)) = IF I # {} THEN Max(I) ELSE 0
    BY DEF SelectLastInSeq
  <2>5. OutputChannels(parsed)[key(k)] = SelectLastInSeq(channels, LAMBDA c : <<c.name, c.type>> = key(k))
    BY <2>3 DEF OutputChannels
  <2> HIDE DEF I
  <2>6. Max(I) \in I /\ k <= Max(I)  BY <2>1, <2>2, GreatestNumber
  <2>7. OutputChannels(parsed)[key(k)] = Max(I)  BY <2>2, <2>4, <2>5
  <2>8. Max(I) \in 1 .. Len(channels) /\ key(Max(I)) = key(k)  BY <2>6 DEF I
  <2>9. Max(I) = k \/ Max(I) \in (k + 1) .. Len(channels)  BY <2>1, <2>6, <2>8
  <2> QED  BY <2>7, <2>8, <2>9
<1> QED  BY <1>1, <1>2 DEF OutputsOffered

(* What the parser makes of a configuration is right, whatever its texts.   *)
THEOREM ConfigurationSoundAlways == ConfigSpec => []ConfigurationSound
<1>1. ConfigInit => ConfigInv
  <2> SUFFICES ASSUME ConfigInit PROVE ConfigInv  OBVIOUS
  <2>1. config \in Texts  BY ConfigurationAssumption DEF ConfigInit, Texts
  <2>2. config.cuelist \in CueTexts  BY DEF ConfigInit
  <2>3. HasText(config)  BY <2>2, ConfigurationAssumption DEF HasText
  <2> QED  BY <2>1, <2>3 DEF ConfigInit, ConfigInv
<1>2. ConfigInv /\ [Configure]_configVars => ConfigInv'
  BY DEF ConfigInv, Configure, configVars
<1>3. ConfigInv => ConfigurationSound
  <2> SUFFICES ASSUME ConfigInv PROVE ConfigurationSound  OBVIOUS
  <2>1. CASE parsed = Parsed(config)
    BY <2>1, SetFrames, SetRefuses, SetOffers DEF ConfigInv, ConfigurationSound
  <2>2. CASE parsed = Unconfigured(config.elsewhere)
    <3>1. ~Configured  BY <2>2 DEF Configured, Unconfigured
    <3> QED  BY <3>1 DEF ConfigurationSound, FramesFound, RefusesMalformed, OutputsOffered
  <2> QED  BY <2>1, <2>2 DEF ConfigInv
<1> QED  BY <1>1, <1>2, <1>3, PTL DEF ConfigSpec
=============================================================================
