--------------------------- MODULE CueConfiguration ---------------------------
(* How the configuration of a cue list becomes its channels and cues:       *)
(* pre_setup and setup_filter of filters/filter_cue.cpp with the parser     *)
(* above them, and filters/util.cpp, which reads the channels.  A handler   *)
(* is an operator on what has been built so far; it ends with ok false      *)
(* where the code returns false or throws.                                  *)
(*                                                                          *)
(* The texts are given cut at their separators, the @ and : of every value  *)
(* and frame in place: a mapping is a sequence of [name, type]; a cue list  *)
(* one of [frames, conf]; frames of [time, values], a frame without values  *)
(* standing for an empty one; values of [numbers, transition].  A number    *)
(* that cannot be read is missing.  Even an empty text has one part.        *)
EXTENDS Integers, FiniteSets, SequencesExt

CONSTANTS
  Mappings,   \* mappings of channels
  CueTexts,   \* cue lists
  Defaults,   \* values of default_cue: one number, or none that can be read
  Limits      \* type -> largest number: 8bit and 16bit

ChannelText == [name : STRING, type : STRING]
Value == [numbers : Seq(Int), transition : STRING]
Frame == [time : Seq(Int), values : Seq(Value)]
CueText == [frames : Seq(Frame), conf : Seq(STRING)]

ASSUME ConfigurationAssumption ==
  /\ Mappings \subseteq Seq(ChannelText) /\ CueTexts \subseteq Seq(CueText) /\ Defaults \subseteq Seq(Int)
  /\ \A text \in CueTexts : text # <<>> /\ \A c \in DOMAIN text : text[c].frames # <<>>
  /\ Limits \in [{"8bit", "16bit"} -> Nat]

VARIABLES
  config,     \* [mapping, cuelist, default_cue, elsewhere]
  parsed      \* [ok, channels, cues, default_cue, elsewhere]

configVars == <<config, parsed>>

\* elsewhere: there are numbers to be read where the code looks for those a
\* colour lacks, which is behind the next comma or at the start of the text.
Unconfigured(elsewhere) ==
  [ok |-> TRUE, channels |-> <<>>, cues |-> <<>>, default_cue |-> -1, elsewhere |-> elsewhere]
Refused(st) == [st EXCEPT !.ok = FALSE]

\* do_with_substr: the handler is given every part and its number, until one
\* is refused; there have to be min_loops of them.
DoWithSubstr(st, parts, min_loops, Func(_, _, _)) ==
  LET upTo[i \in 0..Len(parts)] ==
        IF i = 0 THEN st
        ELSE IF upTo[i - 1].ok THEN Func(upTo[i - 1], parts[i], i) ELSE upTo[i - 1]
      done == upTo[Len(parts)]
  IN IF done.ok /\ Len(parts) < min_loops THEN Refused(done) ELSE done

ChannelTypes == {"8bit", "16bit", "float", "color"}

\* util::init_mapping with init_values_out: a channel knows its type and its
\* place among the channels of that type.
PlaceOf(channels, type) == Cardinality({k \in DOMAIN channels : channels[k].type = type})

InitValuesOut(st, entry) ==
  [st EXCEPT !.channels = Append(@, [name |-> entry.name, type |-> entry.type,
                                     index |-> PlaceOf(@, entry.type) + 1])]
InitMapping(st, mapping) ==
  DoWithSubstr(st, mapping, 0,
    LAMBDA s, entry, i : IF entry.type \in ChannelTypes THEN InitValuesOut(s, entry) ELSE Refused(s))

\* Numbers are clamped to the width of their channel; any transition that is
\* not known is linear.
Transitions == {"edg", "sig", "e_i", "e_o"}
Clamped(n, limit) == IF n < 0 THEN 0 ELSE IF n > limit THEN limit ELSE n

\* What a colour gets for the numbers it lacks is left open.
KeyFrame(type, value) ==
  [value |-> IF type \in {"8bit", "16bit"} THEN <<Clamped(value.numbers[1], Limits[type])>>
             ELSE IF type = "float" THEN <<value.numbers[1]>>
             ELSE IF Len(value.numbers) = 3 THEN value.numbers ELSE <<>>,
   transition |-> IF value.transition \in Transitions THEN value.transition ELSE "lin"]

\* Mutant: key frames of all types go to one list.
HandleChannelFrameMixed(st, cue, value, nr_channel) ==
  IF nr_channel > Len(st.channels) \/ value.numbers = <<>> THEN Refused(st)
  ELSE [st EXCEPT !.cues[cue].frames["8bit"] =
          Append(@, KeyFrame(st.channels[nr_channel].type, value))]

HandleChannelFrame(st, cue, value, nr_channel) ==
  IF nr_channel > Len(st.channels) \/ value.numbers = <<>> THEN Refused(st)
  ELSE LET type == st.channels[nr_channel].type
       IN IF type = "color" /\ Len(value.numbers) < 3 /\ ~st.elsewhere THEN Refused(st)
          ELSE [st EXCEPT !.cues[cue].frames[type] = Append(@, KeyFrame(type, value))]

\* An empty frame is passed over; one that is not has to give every channel
\* a value.
HandleTimestamps(st, cue, frame) ==
  IF frame.values = <<>> THEN st
  ELSE IF frame.time = <<>> THEN Refused(st)
  ELSE DoWithSubstr([st EXCEPT !.cues[cue].timestamps = Append(@, frame.time[1])],
         frame.values, Len(st.channels),
         LAMBDA s, value, k : HandleChannelFrame(s, cue, value, k))

\* Only the first two words count, in any order.
HandleCueConf(st, cue, word, number) ==
  IF number > 2 THEN st
  ELSE IF word \in {"hold", "start_again", "next_cue"}
  THEN [st EXCEPT !.cues[cue].end_handling = word]
  ELSE IF word \in {"do_nothing", "restart"} THEN [st EXCEPT !.cues[cue].restart_handling = word]
  ELSE Refused(st)

HandleFrames(st, cue, frames) ==
  DoWithSubstr(st, frames, 1, LAMBDA s, frame, i : HandleTimestamps(s, cue, frame))
HandleConf(st, cue, words) ==
  DoWithSubstr(st, words, 0, LAMBDA s, word, i : HandleCueConf(s, cue, word, i))

HandleCue(st, text, cue) ==
  LET added == [st EXCEPT !.cues = Append(@,
                 [timestamps |-> <<>>, frames |-> [t \in ChannelTypes |-> <<>>],
                  end_handling |-> "next_cue", restart_handling |-> "do_nothing"])]
  IN HandleConf(HandleFrames(added, cue, text.frames), cue, text.conf)

HandleCues(st, cuelist) ==
  DoWithSubstr(st, cuelist, 1, LAMBDA s, text, i : HandleCue(s, text, i))

DefaultCueOf(st, n) == IF n >= Len(st.cues) THEN -1 ELSE n

\* setup_filter
SetupCues(st, c) ==
  LET read == HandleCues(st, c.cuelist)
  IN IF ~read.ok THEN read
     ELSE IF c.default_cue = <<>> THEN Refused(read)
     ELSE [read EXCEPT !.default_cue = DefaultCueOf(read, c.default_cue[1])]

\* pre_setup, then, if nothing was thrown, setup_filter
Parsed(c) ==
  LET channelled == InitMapping(Unconfigured(c.elsewhere), c.mapping)
  IN IF channelled.ok THEN SetupCues(channelled, c) ELSE channelled

\* get_output_channels: of the channels of one type and one name, the last.
OutputChannels(st) ==
  [o \in {<<c.name, c.type>> : c \in ToSet(st.channels)} |->
     SelectLastInSeq(st.channels, LAMBDA c : <<c.name, c.type>> = o)]

ConfigInit ==
  /\ config \in [mapping : Mappings, cuelist : CueTexts, default_cue : Defaults, elsewhere : BOOLEAN]
  /\ parsed = Unconfigured(config.elsewhere)

Configured == parsed.cues # <<>> \/ ~parsed.ok
Configure ==
  /\ ~Configured
  /\ parsed' = Parsed(config)
  /\ UNCHANGED config

ConfigSpec == ConfigInit /\ [][Configure]_configVars

-----------------------------------------------------------------------------
(* What the texts mean: read without the parser. *)

\* A frame that is empty is not counted.
WrittenFrames(c) == {p \in DOMAIN config.cuelist[c].frames : config.cuelist[c].frames[p].values # <<>>}
Place(c, p) == Cardinality({q \in WrittenFrames(c) : q <= p})
Meant(c, p, k) == KeyFrame(config.mapping[k].type, config.cuelist[c].frames[p].values[k])

WellFormed ==
  /\ \A k \in DOMAIN config.mapping : config.mapping[k].type \in ChannelTypes
  /\ config.default_cue # <<>>
  /\ \A c \in DOMAIN config.cuelist :
       /\ \A p \in WrittenFrames(c) : LET frame == config.cuelist[c].frames[p] IN
            /\ frame.time # <<>> /\ Len(frame.values) = Len(config.mapping)
            /\ \A k \in DOMAIN frame.values : frame.values[k].numbers # <<>>
       /\ \A i \in DOMAIN config.cuelist[c].conf \intersect 1..2 : config.cuelist[c].conf[i] \in
            {"hold", "start_again", "next_cue", "do_nothing", "restart"}

(* A cue list that is set up plays what its text says: the key frame that    *)
(* calc_values takes for a channel of some type at some frame, computed from *)
(* the number of channels of that type, is there and is the one written for *)
(* that channel in that frame, whatever channels of other types the mapping  *)
(* puts in between and whatever empty frames the text has.                  *)
FramesFound ==
  Configured /\ parsed.ok =>
    /\ Len(parsed.cues) = Len(config.cuelist)
    /\ \A c \in DOMAIN parsed.cues : LET cue == parsed.cues[c] IN
         /\ Len(cue.timestamps) = Cardinality(WrittenFrames(c))
         /\ \A p \in WrittenFrames(c) :
              /\ cue.timestamps[Place(c, p)] = config.cuelist[c].frames[p].time[1]
              /\ \A k \in DOMAIN parsed.channels :
                   LET channel == parsed.channels[k]
                       count == PlaceOf(parsed.channels, channel.type)
                       at == (Place(c, p) - 1) * count + channel.index
                   IN /\ at \in DOMAIN cue.frames[channel.type]
                      /\ cue.frames[channel.type][at] = Meant(c, p, k)

ColoursComplete ==
  \A c \in DOMAIN config.cuelist : \A p \in WrittenFrames(c) :
    LET values == config.cuelist[c].frames[p].values
    IN \A k \in DOMAIN values \intersect DOMAIN config.mapping :
         config.mapping[k].type = "color" => Len(values[k].numbers) = 3

(* A configuration is refused exactly when it is not well formed: with a     *)
(* frame that gives a channel no value or gives one too many, with a word   *)
(* that is not known, or with a number that cannot be read.  Only a colour  *)
(* that lacks a number may pass.                                            *)
RefusesMalformed == Configured /\ ColoursComplete => (parsed.ok <=> WellFormed)

(* Every output the filter offers is a channel, and every channel can be     *)
(* linked unless its name is used again; a default cue that is not negative *)
(* is one of the list.                                                      *)
OutputsOffered ==
  Configured /\ parsed.ok =>
    /\ \A k \in DOMAIN parsed.channels : LET c == parsed.channels[k] IN
         \/ OutputChannels(parsed)[<<c.name, c.type>>] = k
         \/ \E l \in (k + 1)..Len(parsed.channels) : <<parsed.channels[l].name, parsed.channels[l].type>> = <<c.name, c.type>>
    /\ parsed.default_cue < Len(parsed.cues)

(* The parser of the cue list (filter_cue.cpp:64-277, filters/util.cpp).      *)
ConfigurationSound == FramesFound /\ RefusesMalformed /\ OutputsOffered
=============================================================================
