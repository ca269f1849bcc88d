------------------------------ MODULE LuaScript ------------------------------
(* The filter that runs a Lua script: filters/lua/filter_lua_script.cpp,   *)
(* with init_lua of filter_lua_functions.cpp.                              *)
(*                                                                         *)
(* The main thread sets the filter up and runs update in cycle after cycle *)
(* of its scene; the io thread runs the script's receive_update_from_gui   *)
(* for clients, between any two steps of the main thread.  There is no     *)
(* lock, and what two threads inside one Lua state do is not defined: a    *)
(* call into Lua is one step here.  The language is external: a call       *)
(* changes one thing the script can change, and returns or fails.          *)
(*                                                                         *)
(* A value of Lua is a kind with numbers: one number, or the h, s and i of *)
(* a table, each of which may be nil.  A reference is to the pixel of      *)
(* another filter.  Numbers are whole; in "output", what is not a number    *)
(* counts as nil, which the code treats alike but for a line in the log.   *)
EXTENDS Integers, FiniteSets, SequencesExt

CONSTANTS
  ShowFiles,    \* what a show may say of the filter: [in, out, script, linked]
  Bytes,         \* values of a byte (256)
  Fed,        \* numbers on the inputs
  Assigned,     \* numbers the script assigns
  Registered,   \* ids of the universes that exist
  UniverseSize,     \* number of channels of a universe (512)
  Nil           \* no value

LuaTypes == {"8bit", "16bit", "float", "color"}
Words == Bytes * Bytes
Functions == {"update", "scene_activated", "receive_update_from_gui"}

ASSUME LuaAssumption ==
  /\ Bytes \in Nat \ {0, 1} /\ UniverseSize \in Nat \ {0} /\ Registered \subseteq Nat
  /\ Fed \subseteq 0 .. Bytes - 1 /\ Assigned \subseteq Int
  /\ \A s \in ShowFiles : \A m \in {s.in, s.out} \ {Nil} :
       \A i, j \in DOMAIN m : m[i][1] = m[j][1] => i = j
  /\ \A s \in {x.script : x \in ShowFiles} \ {Nil} :
       /\ s.functions \in [Functions -> {"function", "untouched", "other"}]
       /\ s.tables \subseteq Seq(Seq(Int \union {Nil}) \union {Nil})

VARIABLES
  show,       \* the mappings, sequences of <<name, type>>; the script: whether it fails,
              \* which functions it defines, and the tables it assigns to "output",
              \* sequences of universes; and the inputs that other filters offer
  stage,      \* of the filter: "new", "named", "ready", "refused"
  lua,        \* globals of the script, "output", and the values fed to the filter
  outputs,        \* values of the output channels
  universes,
  cycle,      \* place of the main thread: "idle", "send", "run", "get", "direct"
  called      \* the io thread has called the script since the last "send"

luaVars == <<show, stage, lua, outputs, universes, cycle, called>>

-----------------------------------------------------------------------------
(* Construction                                                            *)

\* A missing entry of the configuration is Nil; a channel of an unknown type
\* refuses the whole mapping.
Understood(mapping) == mapping # Nil /\ \A i \in DOMAIN mapping : mapping[i][2] \in LuaTypes
Named(mapping) == {mapping[i] : i \in DOMAIN mapping}
NamedAs(mapping, t) == {p[1] : p \in {q \in Named(mapping) : q[2] = t}}
Numeric(mapping) == {p \in Named(mapping) : p[2] # "color"}

NilValue == [kind |-> "nil", v |-> <<>>]
Number(n) == [kind |-> "number", v |-> <<n>>]
Reference == [kind |-> "reference", v |-> <<>>]
Initial(t) == IF t = "color" THEN <<0, 0, 0>> ELSE <<0>>

\* Every channel that is announced under the name of the filter.
OutputChannels == [p \in Named(show.out) |-> Initial(p[2])]

PreSetup ==
  /\ stage = "new"
  /\ IF Understood(show.out) /\ Understood(show.in)
     THEN stage' = "named" /\ outputs' = OutputChannels
     ELSE stage' = "refused" /\ UNCHANGED outputs
  /\ UNCHANGED <<show, lua, universes, cycle, called>>

\* init_lua defines the three functions, which the script may replace.
InitLua == [f \in Functions |-> "function"]
Defined == [f \in Functions |-> IF show.script.functions[f] = "untouched" THEN InitLua[f]
                                ELSE show.script.functions[f]]

\* What a call into Lua may leave behind: a global, a pixel changed through
\* its reference, or the table "output".
Globals == DOMAIN lua.g
Run(l) ==
  {l} \union {[l EXCEPT !.g[n] = v] : n \in Globals,
                v \in {NilValue, [kind |-> "table", v |-> <<1, Nil, 1>>]} \union {Number(k) : k \in Assigned}}
      \union {[l EXCEPT !.direct = d] : d \in show.script.tables}
      \union {[l EXCEPT !.feed[p] = <<k, k, k>>] : k \in Fed,
                p \in {q \in Named(show.in) : l.g[q[1]] = Reference}}

Setup ==
  /\ stage = "named"
  /\ IF /\ Named(show.in) \subseteq show.linked
        /\ show.script # Nil /\ ~show.script.fails /\ \A f \in Functions : Defined[f] = "function"
     THEN /\ stage' = "ready"
          /\ lua' \in Run([lua EXCEPT !.g = [n \in DOMAIN @ |->
                        IF n \in NamedAs(show.in, "color") THEN Reference ELSE @[n]]])
     ELSE stage' = "refused" /\ UNCHANGED lua
  /\ UNCHANGED <<show, outputs, universes, cycle, called>>

-----------------------------------------------------------------------------
(* The main thread                                                         *)

Place(here, next) == stage = "ready" /\ cycle = here /\ cycle' = next

\* The filters before this one have calculated their values.
Begin ==
  /\ Place("idle", "send")
  /\ \E k \in Fed : lua' = [lua EXCEPT !.feed = [p \in DOMAIN @ |-> IF p[2] = "color" THEN <<k, k, k>> ELSE <<k>>]]
  /\ UNCHANGED <<show, stage, outputs, universes, called>>

\* Colours are not sent: their references were set once.
SendInputValues ==
  /\ Place("send", "run")
  /\ lua' = [lua EXCEPT !.g = [n \in DOMAIN @ |->
              IF \E p \in Numeric(show.in) : p[1] = n
              THEN Number(lua.feed[CHOOSE p \in Numeric(show.in) : p[1] = n][1]) ELSE @[n]]]
  /\ called' = FALSE
  /\ UNCHANGED <<show, stage, outputs, universes>>

\* Mutant: the values are read although the script has failed.
UpdateLuaAnyway ==
  /\ stage = "ready" /\ cycle = "run"
  /\ lua' \in Run(lua)
  /\ \/ cycle' = "get" /\ UNCHANGED outputs
     \/ /\ cycle' = "idle"
        /\ outputs' = [p \in DOMAIN outputs |-> IF lua'.g[p[1]].kind = "number" /\ p[2] = "float"
                                                THEN lua'.g[p[1]].v ELSE outputs[p]]
  /\ UNCHANGED <<show, stage, universes, called>>

\* A script that fails is told to the scene, which gives up the cycle.
UpdateLua ==
  /\ stage = "ready" /\ cycle = "run"
  /\ lua' \in Run(lua)
  /\ cycle' \in {"get", "idle"}
  /\ UNCHANGED <<show, stage, outputs, universes, called>>

Largest(t) == IF t = "8bit" THEN Bytes - 1 ELSE Words - 1
Clamped(t, n) == IF t \notin {"8bit", "16bit"} THEN n
                 ELSE IF n < 0 THEN 0 ELSE IF n > Largest(t) THEN Largest(t) ELSE n

\* Mutant: the limits of a word for both integer types.
ReceivedWord(t, old, value) ==
  IF t # "color" THEN IF value.kind = "number" THEN <<Clamped("16bit", value.v[1])>> ELSE old
  ELSE IF value.kind # "table" THEN old
  ELSE [i \in 1..3 |-> IF value.v[i] = Nil THEN old[i] ELSE value.v[i]]

\* The value of a global for a channel of the type t that had the value old:
\* what is not a number leaves it, each component of a colour on its own.
Received(t, old, value) ==
  IF t # "color" THEN IF value.kind = "number" THEN <<Clamped(t, value.v[1])>> ELSE old
  ELSE IF value.kind # "table" THEN old
  ELSE [i \in 1..3 |-> IF value.v[i] = Nil THEN old[i] ELSE value.v[i]]

Pixel(n) == lua.feed[CHOOSE p \in Named(show.in) : p[1] = n /\ p[2] = "color"]
Global(n) == IF lua.g[n] = Reference THEN [kind |-> "table", v |-> Pixel(n)] ELSE lua.g[n]

GetOutputValues ==
  /\ Place("get", "direct")
  /\ outputs' = [p \in DOMAIN outputs |-> Received(p[2], outputs[p], Global(p[1]))]
  /\ UNCHANGED <<show, stage, lua, universes, called>>

\* The length of a table with holes is any of its borders.
Entry(table, i) == IF i \in DOMAIN table THEN table[i] ELSE Nil
Borders(table) == {n \in 0 .. Len(table) : /\ n > 0 => Entry(table, n) # Nil
                                          /\ Entry(table, n + 1) = Nil}

\* The universe u is the entry u + 1; a byte wraps here.
GetDirectOutChannels ==
  /\ Place("direct", "idle")
  /\ \E n \in Borders(lua.direct) :
       universes' = [u \in Registered |->
         LET entry == Entry(lua.direct, u + 1)
         IN [c \in 1..UniverseSize |->
               IF u > 2 * n \/ entry = Nil \/ Entry(entry, c) = Nil THEN universes[u][c]
               ELSE entry[c] % Bytes]]
  /\ UNCHANGED <<show, stage, lua, outputs, called>>

\* scene::on_start logs an exception of scene_activated.
ScriptActivated ==
  /\ stage = "ready" /\ cycle = "idle"
  /\ lua' \in Run(lua)
  /\ UNCHANGED <<show, stage, outputs, universes, cycle, called>>

-----------------------------------------------------------------------------
(* The io thread: an exception is logged and the client told.              *)

ReceiveUpdateFromGui ==
  /\ stage = "ready"
  /\ lua' \in Run(lua) /\ called' = TRUE
  /\ UNCHANGED <<show, stage, outputs, universes, cycle>>

-----------------------------------------------------------------------------
NamesIn(s) == {p[1] : p \in UNION {Named(m) : m \in {x \in {s.in, s.out} : x # Nil}}}

LuaInit ==
  /\ show \in ShowFiles
  /\ lua = [g |-> [n \in NamesIn(show) |-> NilValue], direct |-> <<>>,
            feed |-> [p \in IF show.in = Nil THEN {} ELSE Named(show.in) |-> Initial(p[2])]]
  /\ stage = "new" /\ outputs = [p \in {} |-> <<>>] /\ cycle = "idle" /\ called = FALSE
  /\ universes = [u \in Registered |-> [c \in 1..UniverseSize |-> 0]]

LuaNext ==
  \/ PreSetup \/ Setup
  \/ Begin \/ SendInputValues \/ UpdateLua \/ GetOutputValues \/ GetDirectOutChannels
  \/ ScriptActivated \/ ReceiveUpdateFromGui

LuaSpec == LuaInit /\ [][LuaNext]_luaVars

-----------------------------------------------------------------------------
(* The values of channels and universes are in the range of their type,    *)
(* whatever the script assigns.                                            *)
InRange ==
  /\ \A p \in DOMAIN outputs :
       /\ p[2] = "8bit" => outputs[p][1] \in 0 .. Bytes - 1
       /\ p[2] = "16bit" => outputs[p][1] \in 0 .. Words - 1
       /\ p[2] = "color" => outputs[p] \in [1..3 -> Int]
  /\ \A u \in Registered : \A c \in 1..UniverseSize : universes[u][c] \in 0 .. Bytes - 1

Loadable == /\ \A m \in {show.in, show.out} : Understood(m)
            /\ Named(show.in) \subseteq show.linked
            /\ show.script # Nil /\ ~show.script.fails
            /\ \A f \in Functions : show.script.functions[f] # "other"

(* A filter that is set up dereferences no missing input and calls no      *)
(* function the script took away, and a sound filter is not refused.       *)
LoadedIfLoadable == (stage = "ready" => Loadable) /\ (stage = "refused" => ~Loadable)

(* update sees the numbers of this cycle on its inputs, also on one that   *)
(* shares its name with an output, unless a client has been let in between.*)
InputsAreFresh ==
  cycle = "run" /\ ~called => \A p \in Numeric(show.in) : lua.g[p[1]] = Number(lua.feed[p][1])

(* What passes between the channels and the script is what belongs there    *)
(* (filter_lua_script.cpp:45-109, 181-324).                                 *)
LuaSound == InRange /\ LoadedIfLoadable /\ InputsAreFresh

(* A cycle in which the script fails, and a call of a client on the other  *)
(* thread, change neither channel nor universe: these go from the values   *)
(* of one cycle that succeeded to those of another.  The universes are     *)
(* given what belongs to the channels' values, unless a client has been    *)
(* let in (filter_lua_script.cpp:351-369).                                 *)
OnlyWholeCyclesShow ==
  [][/\ stage = "ready" /\ outputs' # outputs => cycle = "get"
     /\ universes' # universes => cycle = "direct"
     /\ cycle = "direct" /\ cycle' = "idle" /\ ~called =>
          \A p \in DOMAIN outputs : outputs[p] = Received(p[2], outputs[p], Global(p[1]))]_luaVars
=============================================================================
