---------------------------- MODULE ShowControl ----------------------------
(***************************************************************************)
(* The life of a show: io/iomanager loads show files on a thread of their  *)
(* own, the io thread switches scenes and run modes, the main loop runs    *)
(* the active show and rolls back when the OOPS button is pressed.  The    *)
(* three threads share active_show, last_active_show, the apply state and  *)
(* the scene indices of the shows without a lock; here each access of one  *)
(* of these is a step.  (The C++ memory model gives such races no meaning; *)
(* the steps are what word-sized loads and stores do.)                     *)
(***************************************************************************)
EXTENDS Naturals, Sequences, FiniteSets

CONSTANTS
  File,           \* show files a client may send
  Broken,         \* those that do not parse or whose filters do not schedule
  SceneId,        \* ids of scenes
  Scenes,         \* the scene ids a file defines
  DefaultScene,   \* its default_active_scene, of which nothing is checked
  MaxLoads,       \* bound: MSGT_LOAD_SHOW_FILE messages
  MaxInputs       \* bound: MSGT_ENTER_SCENE, OOPS presses, switches by scripts

ASSUME ShowControlAssumption ==
  /\ Broken \subseteq File
  /\ SceneId \subseteq Nat
  /\ Scenes \in [File -> SUBSET SceneId]
  /\ \A f \in File : IsFiniteSet(Scenes[f])
  /\ DefaultScene \in [File -> Nat \ {0}]
  /\ MaxLoads \in Nat /\ MaxInputs \in Nat

Null == 0         \* nullptr; a show is its position in shows

VARIABLES
  shows,                   \* the project_configuration objects ever built
  active_show, last_active_show,
  show_file_apply_state,
  is_direct_mode, running, \* run_time_state
  manager_running,         \* IOManager::running
  show_loading_thread,     \* a std::thread is held, and so joinable
  pc,                      \* where each thread is
  call,                    \* the set_active_scene call of a thread
  msg,                     \* the load the io thread is about to start
  load,                    \* the load the loading thread works on
  inputs,                  \* inputs so far
  sent, applied,           \* history: files sent, and those dealt with
  before                   \* history: what was active before active_show

runVars == <<is_direct_mode, running, manager_running>>
historyVars == <<sent, applied, before>>
vars == <<shows, active_show, last_active_show, show_file_apply_state,
          is_direct_mode, running, manager_running, show_loading_thread, pc,
          call, msg, load, inputs, sent, applied, before>>

NoLoad == [file |-> "none", goto_default |-> TRUE, candidate |-> Null]
NoCall == [show |-> Null, id |-> 0, index |-> 0, back |-> "none"]

Init ==
  /\ shows = <<>>
  /\ active_show = Null /\ last_active_show = Null
  /\ show_file_apply_state = "INVALID"
  /\ is_direct_mode = TRUE /\ running = TRUE /\ manager_running = TRUE
  /\ show_loading_thread = FALSE
  /\ pc = [main |-> "desk", io |-> "idle", loader |-> "ended"]
  /\ call = [main |-> NoCall, io |-> NoCall]
  /\ msg = NoLoad /\ load = NoLoad
  /\ inputs = 0
  /\ sent = <<>> /\ applied = <<>> /\ before = Null

(* The process has not ended: no thread takes a step after that.           *)
Alive == pc["main"] \notin {"exited", "terminated", "crashed"}

Goto(t, place) == pc' = [pc EXCEPT ![t] = place]

Input == inputs < MaxInputs /\ inputs' = inputs + 1
-----------------------------------------------------------------------------
(***************************************************************************)
(* project_configuration.  ids is the inverse of scene_id_mapping, indices *)
(* start at 1, started holds the scenes between on_start and on_stop.      *)
(***************************************************************************)

(* The order of the scenes is the order in which their tasks finished.     *)
Orders(f) ==
  { ids \in [1 .. Cardinality(Scenes[f]) -> Scenes[f]] :
      \A i, j \in DOMAIN ids : ids[i] = ids[j] => i = j }

IndicesOf(show, id) == { i \in DOMAIN show.ids : show.ids[i] = id }

(* The scene with the current index, or none: scene_index < scenes.size(). *)
CurrentScene(show) == {show.current_active_scene} \cap DOMAIN show.ids

(* on_start and on_stop of the scene with the current index.               *)
StartScene(show) == [show EXCEPT !.started = @ \cup CurrentScene(show)]
StopScene(show) == [show EXCEPT !.started = @ \ CurrentScene(show)]

NewShow(ids, default) ==
  StartScene([ids |-> ids, current_active_scene |-> default,
              current_scene_id |-> 0, started |-> {}])

(* set_active_scene on a show no other thread can see.                     *)
SwitchedTo(show, id) ==
  { StartScene([StopScene(show) EXCEPT !.current_active_scene = i,
                                       !.current_scene_id = id]) :
      i \in IndicesOf(show, id) \ {show.current_active_scene} }

(* set_active_scene on a shared show: an unknown scene and the scene that  *)
(* is active already return at once.                                       *)
Switch(t, s, id, back) ==
  LET targets == IndicesOf(shows[s], id) \ {shows[s].current_active_scene}
  IN  \/ /\ targets = {}
         /\ Goto(t, back) /\ UNCHANGED call
      \/ \E i \in targets :
           /\ Goto(t, "stop")
           /\ call' = [call EXCEPT ![t] =
                         [show |-> s, id |-> id, index |-> i, back |-> back]]

switchUnchanged ==
  <<active_show, last_active_show, show_file_apply_state, runVars,
    show_loading_thread, msg, load, inputs, historyVars>>

SwitchStop(t) ==
  /\ pc[t] = "stop"
  /\ shows' = [shows EXCEPT ![call[t].show] = StopScene(@)]
  /\ Goto(t, "index")
  /\ UNCHANGED <<call, switchUnchanged>>

SwitchIndex(t) ==
  /\ pc[t] = "index"
  /\ shows' = [shows EXCEPT ![call[t].show].current_active_scene = call[t].index]
  /\ Goto(t, "id")
  /\ UNCHANGED <<call, switchUnchanged>>

SwitchId(t) ==
  /\ pc[t] = "id"
  /\ shows' = [shows EXCEPT ![call[t].show].current_scene_id = call[t].id]
  /\ Goto(t, "start")
  /\ UNCHANGED <<call, switchUnchanged>>

(* Mutant: on_start is forgotten.                                          *)
SwitchStartForgotten(t) ==
  /\ pc[t] = "start"
  /\ Goto(t, call[t].back)
  /\ call' = [call EXCEPT ![t] = NoCall]
  /\ UNCHANGED <<shows, switchUnchanged>>

(* The index is read again: another thread may have stored another one.    *)
SwitchStart(t) ==
  /\ pc[t] = "start"
  /\ shows' = [shows EXCEPT ![call[t].show] = StartScene(@)]
  /\ Goto(t, call[t].back)
  /\ call' = [call EXCEPT ![t] = NoCall]
  /\ UNCHANGED switchUnchanged

SwitchStep(t) == SwitchStop(t) \/ SwitchIndex(t) \/ SwitchId(t) \/ SwitchStart(t)
-----------------------------------------------------------------------------
(***************************************************************************)
(* IOManager::parse_message_cb on the io thread.                           *)
(***************************************************************************)

UpdateState(direct) ==
  /\ pc["io"] = "idle" /\ manager_running
  /\ is_direct_mode' = direct
  /\ UNCHANGED <<shows, active_show, last_active_show, show_file_apply_state,
                 running, manager_running, show_loading_thread, pc, call, msg,
                 load, inputs, historyVars>>

(* RM_STOP, CTRL-C or ENTER on the console.                                *)
Stop ==
  /\ running
  /\ running' = FALSE
  /\ UNCHANGED <<shows, active_show, last_active_show, show_file_apply_state,
                 is_direct_mode, manager_running, show_loading_thread, pc, call,
                 msg, load, inputs, historyVars>>

(* An exception of a handler ends the event loop's run; after the second   *)
(* in a row the io thread gives up and stops the program.                  *)
EventLoopCrashes ==
  /\ pc["io"] = "idle" /\ manager_running
  /\ manager_running' = FALSE /\ running' = FALSE
  /\ UNCHANGED <<shows, active_show, last_active_show, show_file_apply_state,
                 is_direct_mode, show_loading_thread, pc, call, msg, load,
                 inputs, historyVars>>

(* Without a show the request is refused.                                  *)
EnterScene ==
  /\ pc["io"] = "idle" /\ manager_running /\ Input
  /\ IF active_show = Null THEN UNCHANGED pc ELSE Goto("io", "enter")
  /\ UNCHANGED <<shows, active_show, last_active_show, show_file_apply_state,
                 runVars, show_loading_thread, call, msg, load, historyVars>>

EnterSceneCall(id) ==
  /\ pc["io"] = "enter"
  /\ Switch("io", active_show, id, "idle")
  /\ UNCHANGED <<shows, switchUnchanged>>

(* The apply state changes before the io thread waits for a previous load. *)
LoadShowFile(f, goto_default) ==
  /\ pc["io"] = "idle" /\ manager_running /\ Len(sent) < MaxLoads
  /\ show_file_apply_state' = IF active_show = Null THEN "SHOW_LOADING"
                                                    ELSE "SHOW_UPDATING"
  /\ msg' = [file |-> f, goto_default |-> goto_default, candidate |-> Null]
  /\ sent' = Append(sent, f)
  /\ Goto("io", "join")
  /\ UNCHANGED <<shows, active_show, last_active_show, runVars,
                 show_loading_thread, call, load, inputs, applied, before>>

(* Mutant: a show that arrives during a load is dropped.                   *)
StartLoadingDropped ==
  /\ pc["io"] = "join"
  /\ msg' = NoLoad
  /\ IF pc["loader"] = "ended"
       THEN /\ load' = msg /\ show_loading_thread' = TRUE
            /\ pc' = [pc EXCEPT !["io"] = "idle", !["loader"] = "construct"]
       ELSE Goto("io", "idle") /\ UNCHANGED <<load, show_loading_thread>>
  /\ UNCHANGED <<shows, active_show, last_active_show, show_file_apply_state,
                 runVars, call, inputs, historyVars>>

(* Mutant: a load that is still under way is not waited for.               *)
StartLoadingUnjoined ==
  /\ pc["io"] = "join"
  /\ load' = msg /\ msg' = NoLoad
  /\ show_loading_thread' = TRUE
  /\ pc' = [pc EXCEPT !["io"] = "idle", !["loader"] = "construct"]
  /\ UNCHANGED <<shows, active_show, last_active_show, show_file_apply_state,
                 runVars, call, inputs, historyVars>>

StartLoading ==
  /\ pc["io"] = "join"
  /\ pc["loader"] = "ended"
  /\ load' = msg /\ msg' = NoLoad
  /\ show_loading_thread' = TRUE
  /\ pc' = [pc EXCEPT !["io"] = "idle", !["loader"] = "construct"]
  /\ UNCHANGED <<shows, active_show, last_active_show, show_file_apply_state,
                 runVars, call, inputs, historyVars>>

(* The event loop ends after the message it is handling.                   *)
LeaveEventLoop ==
  /\ pc["io"] = "idle" /\ ~manager_running
  /\ Goto("io", "ended")
  /\ UNCHANGED <<shows, call, switchUnchanged>>
-----------------------------------------------------------------------------
(***************************************************************************)
(* IOManager::load_show_file on the loading thread.                        *)
(***************************************************************************)

(* The constructor of project_configuration ends with on_start of the      *)
(* default scene, if there is such a scene, or it throws.                  *)
Construct ==
  /\ pc["loader"] = "construct"
  /\ \/ /\ load.file \in Broken
        /\ Goto("loader", "fail")
        /\ UNCHANGED <<shows, load>>
     \/ \E ids \in Orders(load.file) :
          /\ load.file \notin Broken
          /\ shows' = Append(shows, NewShow(ids, DefaultScene[load.file]))
          /\ load' = [load EXCEPT !.candidate = Len(shows) + 1]
          /\ Goto("loader", IF load.goto_default THEN "retain" ELSE "resume")
  /\ UNCHANGED <<active_show, last_active_show, show_file_apply_state, runVars,
                 show_loading_thread, call, msg, inputs, historyVars>>

(* Take over the scene of the running show, if the new one has it.         *)
Resume ==
  /\ pc["loader"] = "resume"
  /\ LET id == shows[active_show].current_scene_id
         switched == SwitchedTo(shows[load.candidate], id)
     IN IF active_show = Null \/ switched = {}
          THEN UNCHANGED shows
          ELSE \E show \in switched :
                 shows' = [shows EXCEPT ![load.candidate] = show]
  /\ Goto("loader", "retain")
  /\ UNCHANGED <<call, switchUnchanged>>

Retain ==
  /\ pc["loader"] = "retain"
  /\ last_active_show' = active_show
  /\ Goto("loader", "activate")
  /\ UNCHANGED <<shows, active_show, show_file_apply_state, runVars,
                 show_loading_thread, call, msg, load, inputs, historyVars>>

Activate ==
  /\ pc["loader"] = "activate"
  /\ active_show' = load.candidate
  /\ before' = active_show
  /\ Goto("loader", "report")
  /\ UNCHANGED <<shows, last_active_show, show_file_apply_state, runVars,
                 show_loading_thread, call, msg, load, inputs, sent, applied>>

LoadEnds(state) ==
  /\ show_file_apply_state' = state
  /\ applied' = Append(applied, load.file)
  /\ load' = NoLoad
  /\ Goto("loader", "ended")
  /\ UNCHANGED <<shows, active_show, last_active_show, runVars,
                 show_loading_thread, call, msg, inputs, sent, before>>

ReportSuccess == pc["loader"] = "report" /\ LoadEnds("SHOW_ACTIVE")

(* Mutant: a failed load leaves the apply state of its start.              *)
ReportFailureSilent ==
  pc["loader"] = "fail" /\ LoadEnds(show_file_apply_state)

ReportFailure ==
  /\ pc["loader"] = "fail"
  /\ LoadEnds(IF active_show = Null THEN "NO_SHOW_ERROR" ELSE "SHOW_ACTIVE")
-----------------------------------------------------------------------------
(***************************************************************************)
(* perform_main_update on the main thread.                                 *)
(***************************************************************************)

(* update_control_desk handles the buttons pressed since the last cycle.   *)
PressOops ==
  /\ pc["main"] = "desk" /\ running /\ Input
  /\ IF last_active_show = Null THEN UNCHANGED pc ELSE Goto("main", "rb_scene")
  /\ UNCHANGED <<shows, active_show, last_active_show, show_file_apply_state,
                 runVars, show_loading_thread, call, msg, load, historyVars>>

RollbackScene ==
  /\ pc["main"] = "rb_scene"
  /\ IF active_show = Null
       THEN Goto("main", "rb_active") /\ UNCHANGED call
       ELSE Switch("main", last_active_show,
                   shows[active_show].current_scene_id, "rb_active")
  /\ UNCHANGED <<shows, switchUnchanged>>

RollbackActive ==
  /\ pc["main"] = "rb_active"
  /\ active_show' = last_active_show
  /\ before' = IF active_show = last_active_show THEN before ELSE active_show
  /\ Goto("main", "rb_clear")
  /\ UNCHANGED <<shows, last_active_show, show_file_apply_state, runVars,
                 show_loading_thread, call, msg, load, inputs, sent, applied>>

(* Mutant: the show rolled back to stays the one to roll back to.          *)
RollbackKeep ==
  /\ pc["main"] = "rb_clear"
  /\ Goto("main", "desk")
  /\ UNCHANGED <<shows, call, switchUnchanged>>

RollbackClear ==
  /\ pc["main"] = "rb_clear"
  /\ last_active_show' = Null
  /\ Goto("main", "desk")
  /\ UNCHANGED <<shows, active_show, show_file_apply_state, runVars,
                 show_loading_thread, call, msg, load, inputs, historyVars>>

DeskDone ==
  /\ pc["main"] = "desk"
  /\ Goto("main", "cycle")
  /\ UNCHANGED <<shows, call, switchUnchanged>>

(* run_cycle_update of the active show, unless filters are bypassed.       *)
RunCycle ==
  /\ pc["main"] = "cycle"
  /\ Goto("main", "push")
  /\ UNCHANGED <<shows, call, switchUnchanged>>

RunCycleFails ==
  /\ pc["main"] = "cycle" /\ ~is_direct_mode /\ active_show # Null
  /\ show_file_apply_state' = "ERROR_SHOW_RUNNING"
  /\ Goto("main", "push")
  /\ UNCHANGED <<shows, active_show, last_active_show, runVars,
                 show_loading_thread, call, msg, load, inputs, historyVars>>

(* run_cycle_update does not test the index: a default_active_scene that   *)
(* no scene has is used past the end of the vector, and what that does is  *)
(* undefined.  The cycle may go on (RunCycle), fail, or end the process.   *)
RunCycleCrashes ==
  /\ pc["main"] = "cycle" /\ ~is_direct_mode /\ active_show # Null
  /\ CurrentScene(shows[active_show]) = {}
  /\ Goto("main", "crashed")
  /\ UNCHANGED <<shows, call, switchUnchanged>>

(* A script of the show calls switch_to_scene.                             *)
RunCycleSwitches(id) ==
  /\ pc["main"] = "cycle" /\ ~is_direct_mode /\ active_show # Null /\ Input
  /\ Switch("main", active_show, id, "push")
  /\ UNCHANGED <<shows, active_show, last_active_show, show_file_apply_state,
                 runVars, show_loading_thread, msg, load, historyVars>>

(* push_updates_to_ui, and the test of the loop.                           *)
CycleDone ==
  /\ pc["main"] = "push"
  /\ Goto("main", IF running THEN "desk" ELSE "destruct")
  /\ UNCHANGED <<shows, call, switchUnchanged>>

(* Mutant: the io thread is interrupted but not told to end.               *)
DestructDeaf ==
  /\ pc["main"] = "destruct"
  /\ Goto("main", "join_io")
  /\ UNCHANGED <<shows, call, switchUnchanged>>

(* destruct_managers, ~IOManager: the io thread is joined, the loading     *)
(* thread is not, and a std::thread destroyed joinable is std::terminate.  *)
Destruct ==
  /\ pc["main"] = "destruct"
  /\ manager_running' = FALSE
  /\ Goto("main", "join_io")
  /\ UNCHANGED <<shows, active_show, last_active_show, show_file_apply_state,
                 is_direct_mode, running, show_loading_thread, call, msg, load,
                 inputs, historyVars>>

DestructDone ==
  /\ pc["main"] = "join_io" /\ pc["io"] = "ended"
  /\ Goto("main", IF show_loading_thread THEN "terminated" ELSE "exited")
  /\ UNCHANGED <<shows, call, switchUnchanged>>
-----------------------------------------------------------------------------
(* What each thread does on its own; the rest is input.                    *)
IoStep ==
  \/ \E id \in SceneId : EnterSceneCall(id)
  \/ SwitchStep("io")
  \/ StartLoading
  \/ LeaveEventLoop

LoaderStep ==
  Construct \/ Resume \/ Retain \/ Activate \/ ReportSuccess \/ ReportFailure

MainStep ==
  \/ RollbackScene \/ RollbackActive \/ RollbackClear
  \/ DeskDone \/ RunCycle \/ RunCycleFails \/ RunCycleCrashes \/ CycleDone
  \/ SwitchStep("main")
  \/ Destruct \/ DestructDone

InputStep ==
  \/ \E direct \in BOOLEAN : UpdateState(direct)
  \/ EnterScene
  \/ \E f \in File, goto_default \in BOOLEAN : LoadShowFile(f, goto_default)
  \/ PressOops
  \/ \E id \in SceneId : RunCycleSwitches(id)
  \/ Stop \/ EventLoopCrashes

Next == Alive /\ (IoStep \/ LoaderStep \/ MainStep \/ InputStep)

(* The operating system runs every thread that can run.                    *)
Spec ==
  /\ Init /\ [][Next]_vars
  /\ WF_vars(Alive /\ IoStep)
  /\ WF_vars(Alive /\ LoaderStep)
  /\ WF_vars(Alive /\ MainStep)
-----------------------------------------------------------------------------
Index == UNION { 1 .. Cardinality(Scenes[f]) : f \in File }

Show ==
  [ids : UNION { Orders(f) : f \in File },
   current_active_scene : Nat \ {0},
   current_scene_id : SceneId \cup {0},
   started : SUBSET Index]

Pointer == 0 .. Len(shows)

Call ==
  [show : Pointer \ {Null}, id : SceneId \cup {0}, index : Index,
   back : {"idle", "push", "rb_active"}]

Load == [file : File, goto_default : BOOLEAN, candidate : Pointer]

ShowsTyped ==
  /\ shows \in Seq(Show)
  /\ active_show \in Pointer /\ last_active_show \in Pointer /\ before \in Pointer

FlagsTyped ==
  /\ show_file_apply_state \in {"INVALID", "SHOW_LOADING", "SHOW_UPDATING",
       "SHOW_ACTIVE", "NO_SHOW_ERROR", "ERROR_SHOW_RUNNING"}
  /\ is_direct_mode \in BOOLEAN /\ running \in BOOLEAN
  /\ manager_running \in BOOLEAN /\ show_loading_thread \in BOOLEAN
  /\ inputs \in 0 .. MaxInputs

MainPlace ==
  {"desk", "rb_scene", "rb_active", "rb_clear", "cycle", "push", "stop", "index",
   "id", "start", "destruct", "join_io", "exited", "terminated", "crashed"}
IoPlace == {"idle", "enter", "join", "stop", "index", "id", "start", "ended"}
LoaderPlace ==
  {"construct", "resume", "retain", "activate", "report", "fail", "ended"}

PlacesTyped ==
  /\ pc \in [{"main", "io", "loader"} -> MainPlace \cup IoPlace \cup LoaderPlace]
  /\ pc["main"] \in MainPlace
  /\ pc["io"] \in IoPlace
  /\ pc["loader"] \in LoaderPlace

CallsTyped == call \in [{"main", "io"} -> Call \cup {NoCall}]

LoadsTyped ==
  /\ msg \in Load \cup {NoLoad} /\ load \in Load \cup {NoLoad}
  /\ sent \in Seq(File) /\ applied \in Seq(File)

TypeOK == ShowsTyped /\ FlagsTyped /\ PlacesTyped /\ CallsTyped /\ LoadsTyped

(* A show that runs is replaced, never lost: neither a failed load nor a   *)
(* rollback, in whatever order their accesses of last_active_show and      *)
(* active_show fall, leaves the program without one; the accesses of       *)
(* active_show that follow a test rely on it (iomanager.cpp:478-499).      *)
ShowNeverLost == [][active_show # Null => active_show' # Null]_vars

(* Shows are dealt with in the order in which they were sent, one at a     *)
(* time, however many are sent while one is loading (iomanager.cpp:500).   *)
LoadsInOrder ==
  /\ Len(applied) <= Len(sent)
  /\ applied = SubSeq(sent, 1, Len(applied))
  /\ pc["loader"] # "ended" =>
       Len(applied) < Len(sent) /\ load.file = sent[Len(applied) + 1]

(* What the clients are told: loading or updating only while a load waits  *)
(* or runs, no show only when there is none, active or failing only when   *)
(* there is one; three threads write the state.                            *)
ApplyStateTruthful ==
  /\ show_file_apply_state \in {"SHOW_LOADING", "SHOW_UPDATING"} =>
       pc["io"] = "join" \/ pc["loader"] # "ended"
  /\ show_file_apply_state = "NO_SHOW_ERROR" =>
       active_show = Null \/ pc["loader"] = "report"
  /\ show_file_apply_state \in {"SHOW_ACTIVE", "ERROR_SHOW_RUNNING"} =>
       active_show # Null

(* Outside of a load's and a rollback's own assignments the show to roll   *)
(* back to is the one that ran before the active one, or none.             *)
RollbackTarget ==
  pc["loader"] # "activate" /\ pc["main"] # "rb_clear" =>
    last_active_show \in {Null, before} /\ (active_show # Null => last_active_show # active_show)

Switching(s) ==
  \E t \in {"main", "io"} :
    pc[t] \in {"stop", "index", "id", "start"} /\ call[t].show = s

(* A show that no switch has left its default_active_scene, and that has   *)
(* no scene with this index.                                               *)
WithoutScene(show) == CurrentScene(show) = {} /\ show.current_scene_id = 0

(* When no switch is under way, the current scene of every show has been   *)
(* started since it was last stopped, however the switches of clients,     *)
(* scripts and rollbacks interleaved.  The exception is a show that begins *)
(* without a current scene (project_configuration.cpp:25-31): it has none  *)
(* until the first switch, and no longer.                                  *)
CurrentSceneStarted ==
  \A s \in DOMAIN shows :
    ~Switching(s) => \/ shows[s].current_active_scene \in shows[s].started
                     \/ WithoutScene(shows[s])

(* Every show that was sent is answered, unless the process ends: the      *)
(* answers catch up with the loads, of which there are MaxLoads at most.   *)
LoadAnswered ==
  Len(sent) > Len(applied) ~> (Len(sent) = Len(applied) \/ ~Alive)

(* A stop ends the process: no thread waits for another one for ever.      *)
StopEnds == ~running ~> ~Alive
-----------------------------------------------------------------------------
(* "Stopping server gently now" (main_loop.cpp:48): a stop is no abort.    *)
GentleStop == pc["main"] # "terminated"
=============================================================================
