------------------------ MODULE ShowControl_proofs ------------------------
(***************************************************************************)
(* Proofs about ShowControl, for any show files, any number of loads and   *)
(* any number of inputs.                                                   *)
(***************************************************************************)
EXTENDS ShowControl, SequenceTheorems, FiniteSetTheorems, TLAPS

InSwitch(t) == pc[t] \in {"stop", "index", "id", "start"}

(* A thread inside set_active_scene has a call to carry out.               *)
CallOK ==
  /\ InSwitch("main") => /\ call["main"].show \in DOMAIN shows
                         /\ call["main"].index \in Index
                         /\ call["main"].back \in {"push", "rb_active"}
  /\ InSwitch("io") => /\ call["io"].show \in DOMAIN shows
                       /\ call["io"].index \in Index
                       /\ call["io"].back = "idle"

(* A thread that loads or starts a load has one in its hands.              *)
LoadOK ==
  /\ pc["io"] = "join" => msg \in Load
  /\ pc["loader"] # "ended" => load \in Load
  /\ pc["loader"] \in {"resume", "retain", "activate"} => load.candidate # Null

InRollback ==
  \/ pc["main"] \in {"rb_scene", "rb_active"}
  \/ InSwitch("main") /\ call["main"].back = "rb_active"

(* What the unlocked accesses of the two pointers rely on.                 *)
PointersOK ==
  /\ last_active_show # Null => active_show # Null
  /\ InRollback => last_active_show # Null
  /\ pc["io"] = "enter" => active_show # Null

Inv == TypeOK /\ CallOK /\ LoadOK /\ PointersOK
-----------------------------------------------------------------------------
(***************************************************************************)
(* Which parts of the invariant a step can disturb.                        *)
(***************************************************************************)

LEMMA SameShowsTyped ==
  ASSUME ShowsTyped, UNCHANGED <<shows, active_show, last_active_show, before>>
  PROVE  ShowsTyped'
  BY DEF ShowsTyped, Pointer

LEMMA SameCalls ==
  ASSUME CallsTyped, UNCHANGED <<shows, call>>
  PROVE  CallsTyped'
  BY DEF CallsTyped, Call, Pointer

LEMMA SameLoads ==
  ASSUME LoadsTyped, UNCHANGED <<shows, msg, load, sent, applied>>
  PROVE  LoadsTyped'
  BY DEF LoadsTyped, Load, Pointer

LEMMA SameFlags ==
  ASSUME FlagsTyped,
         UNCHANGED <<show_file_apply_state, runVars, show_loading_thread, inputs>>
  PROVE  FlagsTyped'
  BY DEF FlagsTyped, runVars

(* One thread goes to another place.                                       *)
LEMMA MainGoes ==
  ASSUME PlacesTyped,
         NEW p \in MainPlace,
         Goto("main", p)
  PROVE  /\ PlacesTyped'
         /\ pc'["main"] = p /\ pc'["io"] = pc["io"] /\ pc'["loader"] = pc["loader"]
  BY DEF PlacesTyped, Goto

LEMMA IoGoes ==
  ASSUME PlacesTyped,
         NEW p \in IoPlace,
         Goto("io", p)
  PROVE  /\ PlacesTyped'
         /\ pc'["io"] = p /\ pc'["main"] = pc["main"] /\ pc'["loader"] = pc["loader"]
  BY DEF PlacesTyped, Goto

LEMMA LoaderGoes ==
  ASSUME PlacesTyped,
         NEW p \in LoaderPlace,
         Goto("loader", p)
  PROVE  /\ PlacesTyped'
         /\ pc'["loader"] = p /\ pc'["main"] = pc["main"] /\ pc'["io"] = pc["io"]
  BY DEF PlacesTyped, Goto

LEMMA InvInit == Init => Inv
<1> SUFFICES ASSUME Init PROVE Inv
  OBVIOUS
<1>1. shows \in Seq(Show) /\ Len(shows) = 0
  BY DEF Init
<1>2. ShowsTyped
  BY <1>1 DEF Init, ShowsTyped, Pointer, Null
<1>3. FlagsTyped
  <2>1. MaxInputs \in Nat
    BY ShowControlAssumption DEF ShowControlAssumption
  <2>2. /\ show_file_apply_state = "INVALID" /\ inputs = 0
        /\ is_direct_mode = TRUE /\ running = TRUE
        /\ manager_running = TRUE /\ show_loading_thread = FALSE
    BY DEF Init
  <2>3. inputs \in 0 .. MaxInputs
    BY <2>1, <2>2
  <2>4. /\ is_direct_mode \in BOOLEAN /\ running \in BOOLEAN
        /\ manager_running \in BOOLEAN /\ show_loading_thread \in BOOLEAN
    BY <2>2, Zenon
  <2> QED
    BY <2>2, <2>3, <2>4 DEF FlagsTyped
<1>4. /\ pc \in [{"main", "io", "loader"} -> MainPlace \cup IoPlace \cup LoaderPlace]
      /\ pc["main"] = "desk" /\ pc["io"] = "idle" /\ pc["loader"] = "ended"
  <2>1. pc = [t \in {"main", "io", "loader"} |->
                IF t = "main" THEN "desk" ELSE IF t = "io" THEN "idle" ELSE "ended"]
    BY DEF Init
  <2> QED
    BY <2>1 DEF MainPlace, IoPlace, LoaderPlace
<1>5. PlacesTyped
  BY <1>4 DEF PlacesTyped, MainPlace, IoPlace, LoaderPlace
<1>6. CallsTyped
  <2>1. call = [t \in {"main", "io"} |-> NoCall]
    BY DEF Init
  <2> QED
    BY <2>1 DEF CallsTyped
<1>7. LoadsTyped
  BY DEF Init, LoadsTyped
<1>8. CallOK /\ LoadOK /\ PointersOK
  BY <1>4 DEF Init, CallOK, LoadOK, PointersOK, InRollback, InSwitch, Null
<1> QED
  BY <1>2, <1>3, <1>5, <1>6, <1>7, <1>8 DEF Inv, TypeOK
-----------------------------------------------------------------------------
(***************************************************************************)
(* Steps of which only one thread's place and the flags matter.            *)
(***************************************************************************)

quietVars == <<shows, active_show, last_active_show, call, msg, load, sent,
               applied, before>>

LEMMA InvStay ==
  ASSUME Inv, FlagsTyped', UNCHANGED <<quietVars, pc>>
  PROVE  Inv'
<1>1. ShowsTyped' /\ CallsTyped' /\ LoadsTyped'
  BY SameShowsTyped, SameCalls, SameLoads DEF Inv, TypeOK, quietVars
<1>2. PlacesTyped' /\ CallOK' /\ PointersOK'
  BY DEF Inv, TypeOK, PlacesTyped, CallOK, PointersOK, InRollback, InSwitch, quietVars
<1>3. LoadOK'
  BY DEF Inv, LoadOK, Load, Pointer, quietVars
<1> QED
  BY <1>1, <1>2, <1>3 DEF Inv, TypeOK

LEMMA InvMainGoes ==
  ASSUME Inv, FlagsTyped', UNCHANGED quietVars,
         NEW p \in MainPlace \ {"stop", "index", "id", "start"},
         Goto("main", p),
         p \in {"rb_scene", "rb_active"} => last_active_show # Null
  PROVE  Inv'
<1>1. ShowsTyped' /\ CallsTyped' /\ LoadsTyped'
  BY SameShowsTyped, SameCalls, SameLoads DEF Inv, TypeOK, quietVars
<1>2. /\ PlacesTyped'
      /\ pc'["main"] = p /\ pc'["io"] = pc["io"] /\ pc'["loader"] = pc["loader"]
  BY MainGoes DEF Inv, TypeOK
<1>3. CallOK' /\ PointersOK'
  BY <1>2 DEF Inv, CallOK, PointersOK, InRollback, InSwitch, quietVars
<1>4. LoadOK'
  BY <1>2 DEF Inv, LoadOK, Load, Pointer, quietVars
<1> QED
  BY <1>1, <1>2, <1>3, <1>4 DEF Inv, TypeOK

LEMMA InvIoGoes ==
  ASSUME Inv, FlagsTyped', UNCHANGED quietVars,
         NEW p \in {"idle", "enter", "ended"},
         Goto("io", p),
         p = "enter" => active_show # Null
  PROVE  Inv'
<1>1. ShowsTyped' /\ CallsTyped' /\ LoadsTyped'
  BY SameShowsTyped, SameCalls, SameLoads DEF Inv, TypeOK, quietVars
<1>2. /\ PlacesTyped'
      /\ pc'["io"] = p /\ pc'["main"] = pc["main"] /\ pc'["loader"] = pc["loader"]
  BY IoGoes DEF Inv, TypeOK, IoPlace
<1>3. CallOK' /\ PointersOK'
  BY <1>2 DEF Inv, CallOK, PointersOK, InRollback, InSwitch, quietVars
<1>4. LoadOK'
  BY <1>2 DEF Inv, LoadOK, Load, Pointer, quietVars
<1> QED
  BY <1>1, <1>2, <1>3, <1>4 DEF Inv, TypeOK

LEMMA FlagsInput ==
  ASSUME FlagsTyped, Input,
         UNCHANGED <<show_file_apply_state, runVars, show_loading_thread>>
  PROVE  FlagsTyped'
<1>1. MaxInputs \in Nat
  BY ShowControlAssumption DEF ShowControlAssumption
<1> QED
  BY <1>1 DEF FlagsTyped, Input, runVars

LEMMA InvUpdateState ==
  ASSUME Inv, NEW direct \in BOOLEAN, UpdateState(direct) PROVE Inv'
<1>1. FlagsTyped'
  BY DEF Inv, TypeOK, FlagsTyped, UpdateState
<1> QED
  BY <1>1, InvStay DEF UpdateState, quietVars, historyVars

LEMMA InvStop == ASSUME Inv, Stop \/ EventLoopCrashes PROVE Inv'
<1>1. FlagsTyped'
  BY DEF Inv, TypeOK, FlagsTyped, Stop, EventLoopCrashes
<1> QED
  BY <1>1, InvStay DEF Stop, EventLoopCrashes, quietVars, historyVars

LEMMA InvEnterScene == ASSUME Inv, EnterScene PROVE Inv'
<1>1. FlagsTyped'
  BY FlagsInput DEF Inv, TypeOK, EnterScene
<1>2. UNCHANGED quietVars
  BY DEF EnterScene, quietVars, historyVars
<1>3. CASE active_show = Null
  BY <1>1, <1>2, <1>3, InvStay DEF EnterScene
<1>4. CASE active_show # Null
  BY <1>1, <1>2, <1>4, InvIoGoes DEF EnterScene
<1> QED
  BY <1>3, <1>4

LEMMA InvPressOops == ASSUME Inv, PressOops PROVE Inv'
<1>1. FlagsTyped'
  BY FlagsInput DEF Inv, TypeOK, PressOops
<1>2. UNCHANGED quietVars
  BY DEF PressOops, quietVars, historyVars
<1>3. CASE last_active_show = Null
  BY <1>1, <1>2, <1>3, InvStay DEF PressOops
<1>4. CASE last_active_show # Null
  BY <1>1, <1>2, <1>4, InvMainGoes DEF PressOops, MainPlace
<1> QED
  BY <1>3, <1>4

(* The steps of the main loop outside of a rollback, and the end of the    *)
(* event loop.                                                             *)
LEMMA InvCycle ==
  ASSUME Inv,
         DeskDone \/ RunCycle \/ RunCycleFails \/ RunCycleCrashes \/ CycleDone \/ Destruct
           \/ DestructDone \/ LeaveEventLoop
  PROVE  Inv'
<1>1. UNCHANGED quietVars
  BY DEF DeskDone, RunCycle, RunCycleFails, RunCycleCrashes, CycleDone, Destruct,
         DestructDone, LeaveEventLoop, quietVars, historyVars, switchUnchanged
<1>2. FlagsTyped'
  <2>1. CASE RunCycleFails
    BY <2>1 DEF Inv, TypeOK, FlagsTyped, RunCycleFails, runVars
  <2>2. CASE Destruct
    BY <2>2 DEF Inv, TypeOK, FlagsTyped, Destruct
  <2>3. ASSUME UNCHANGED switchUnchanged PROVE FlagsTyped'
    BY <2>3, SameFlags DEF Inv, TypeOK, switchUnchanged
  <2> QED
    BY <2>1, <2>2, <2>3
    DEF DeskDone, RunCycle, RunCycleCrashes, CycleDone, DestructDone, LeaveEventLoop
<1>3. CASE LeaveEventLoop
  BY <1>1, <1>2, <1>3, InvIoGoes DEF LeaveEventLoop
<1>4. ASSUME ~LeaveEventLoop
      PROVE  \E p \in {"cycle", "push", "desk", "destruct", "join_io", "terminated",
                       "exited", "crashed"} : Goto("main", p)
  BY <1>4 DEF DeskDone, RunCycle, RunCycleFails, RunCycleCrashes, CycleDone, Destruct,
              DestructDone
<1> QED
  BY <1>1, <1>2, <1>3, <1>4, InvMainGoes DEF MainPlace
-----------------------------------------------------------------------------
(***************************************************************************)
(* The steps of a load.                                                    *)
(***************************************************************************)

LEMMA InvLoadShowFile ==
  ASSUME Inv, NEW f \in File, NEW goto_default \in BOOLEAN,
         LoadShowFile(f, goto_default)
  PROVE  Inv'
<1>1. ShowsTyped' /\ CallsTyped'
  BY SameShowsTyped, SameCalls DEF Inv, TypeOK, LoadShowFile
<1>2. FlagsTyped'
  BY DEF Inv, TypeOK, FlagsTyped, LoadShowFile, runVars
<1>3. /\ PlacesTyped'
      /\ pc'["io"] = "join" /\ pc'["main"] = pc["main"]
      /\ pc'["loader"] = pc["loader"]
  BY IoGoes DEF Inv, TypeOK, IoPlace, LoadShowFile
<1>4. msg' \in Load' /\ (load \in Load => load' \in Load')
  BY DEF LoadShowFile, Load, Pointer, Null, Inv, TypeOK, ShowsTyped
<1>5. LoadsTyped'
  BY <1>4 DEF Inv, TypeOK, LoadsTyped, LoadShowFile
<1>6. CallOK' /\ PointersOK'
  BY <1>3 DEF Inv, CallOK, PointersOK, InRollback, InSwitch, LoadShowFile
<1>7. LoadOK'
  BY <1>3, <1>4 DEF Inv, LoadOK, LoadShowFile
<1> QED
  BY <1>1, <1>2, <1>3, <1>5, <1>6, <1>7 DEF Inv, TypeOK

LEMMA InvStartLoading == ASSUME Inv, StartLoading PROVE Inv'
<1>1. ShowsTyped' /\ CallsTyped'
  BY SameShowsTyped, SameCalls DEF Inv, TypeOK, StartLoading, historyVars
<1>2. FlagsTyped'
  BY DEF Inv, TypeOK, FlagsTyped, StartLoading, runVars
<1>3. /\ PlacesTyped'
      /\ pc'["io"] = "idle" /\ pc'["main"] = pc["main"]
      /\ pc'["loader"] = "construct"
  BY DEF Inv, TypeOK, PlacesTyped, IoPlace, LoaderPlace, StartLoading
<1>4. load' \in Load' /\ msg' = NoLoad
  BY DEF StartLoading, Load, Pointer, Inv, LoadOK
<1>5. LoadsTyped'
  BY <1>4 DEF Inv, TypeOK, LoadsTyped, StartLoading, historyVars
<1>6. CallOK' /\ PointersOK'
  BY <1>3 DEF Inv, CallOK, PointersOK, InRollback, InSwitch, StartLoading
<1>7. LoadOK'
  BY <1>3, <1>4 DEF LoadOK
<1> QED
  BY <1>1, <1>2, <1>3, <1>5, <1>6, <1>7 DEF Inv, TypeOK

(* The loading thread goes to another place with the same load.            *)
LEMMA InvRetain == ASSUME Inv, Retain PROVE Inv'
<1>1. /\ PlacesTyped'
      /\ pc'["loader"] = "activate" /\ pc'["main"] = pc["main"]
      /\ pc'["io"] = pc["io"]
  BY LoaderGoes DEF Inv, TypeOK, LoaderPlace, Retain
<1>2. ShowsTyped'
  BY DEF Inv, TypeOK, ShowsTyped, Pointer, Retain, historyVars
<1>3. CallsTyped' /\ LoadsTyped' /\ FlagsTyped'
  BY SameCalls, SameLoads, SameFlags DEF Inv, TypeOK, Retain, historyVars
<1>4. CallOK' /\ LoadOK'
  BY <1>1 DEF Inv, CallOK, LoadOK, InSwitch, Load, Pointer, Retain
<1>5. PointersOK'
  BY <1>1 DEF Inv, PointersOK, InRollback, InSwitch, Retain
<1> QED
  BY <1>1, <1>2, <1>3, <1>4, <1>5 DEF Inv, TypeOK

LEMMA InvActivate == ASSUME Inv, Activate PROVE Inv'
<1>1. /\ PlacesTyped'
      /\ pc'["loader"] = "report" /\ pc'["main"] = pc["main"]
      /\ pc'["io"] = pc["io"]
  BY LoaderGoes DEF Inv, TypeOK, LoaderPlace, Activate
<1>a. load \in Load /\ load.candidate # Null
  BY DEF Inv, LoadOK, Activate
<1>2. ShowsTyped'
  BY <1>a DEF Inv, TypeOK, ShowsTyped, Pointer, Load, Activate
<1>3. CallsTyped' /\ LoadsTyped' /\ FlagsTyped'
  BY SameCalls, SameLoads, SameFlags DEF Inv, TypeOK, Activate
<1>4. CallOK' /\ LoadOK'
  BY <1>1 DEF Inv, CallOK, LoadOK, InSwitch, Load, Pointer, Activate
<1>5. PointersOK'
  BY <1>1, <1>a DEF Inv, PointersOK, InRollback, InSwitch, Activate
<1> QED
  BY <1>1, <1>2, <1>3, <1>4, <1>5 DEF Inv, TypeOK

LEMMA InvReport == ASSUME Inv, ReportSuccess \/ ReportFailure PROVE Inv'
<1>1. PICK state \in {"SHOW_ACTIVE", "NO_SHOW_ERROR"} : LoadEnds(state)
  BY DEF ReportSuccess, ReportFailure
<1>2. pc["loader"] # "ended"
  BY DEF ReportSuccess, ReportFailure
<1>3. /\ PlacesTyped'
      /\ pc'["loader"] = "ended" /\ pc'["main"] = pc["main"]
      /\ pc'["io"] = pc["io"]
  BY <1>1, LoaderGoes DEF Inv, TypeOK, LoaderPlace, LoadEnds
<1>4. ShowsTyped' /\ CallsTyped'
  BY <1>1, SameShowsTyped, SameCalls DEF Inv, TypeOK, LoadEnds
<1>5. FlagsTyped'
  BY <1>1 DEF Inv, TypeOK, FlagsTyped, LoadEnds, runVars
<1>6. load \in Load /\ load.file \in File
  BY <1>2 DEF Inv, LoadOK, Load
<1>7. LoadsTyped'
  BY <1>1, <1>6 DEF Inv, TypeOK, LoadsTyped, LoadEnds, Load, Pointer
<1>8. CallOK' /\ LoadOK' /\ PointersOK'
  BY <1>1, <1>3 DEF Inv, CallOK, LoadOK, PointersOK, InRollback, InSwitch, Load,
                    Pointer, LoadEnds
<1> QED
  BY <1>3, <1>4, <1>5, <1>7, <1>8 DEF Inv, TypeOK

(* The operators on a show give a show.                                    *)
LEMMA IdsTyped ==
  ASSUME NEW show \in Show
  PROVE  DOMAIN show.ids \subseteq Index
<1>1. PICK f \in File : show.ids \in Orders(f)
  BY DEF Show
<1>2. DOMAIN show.ids = 1 .. Cardinality(Scenes[f])
  BY <1>1 DEF Orders
<1> QED
  BY <1>2 DEF Index

LEMMA StartStopTyped ==
  ASSUME NEW show \in Show
  PROVE  /\ StartScene(show) \in Show
         /\ StopScene(show) \in Show
<1>1. CurrentScene(show) \subseteq Index
  BY IdsTyped DEF CurrentScene
<1> QED
  BY <1>1 DEF StartScene, StopScene, Show

LEMMA IndicesTyped ==
  ASSUME NEW show \in Show, NEW id
  PROVE  IndicesOf(show, id) \subseteq Index
  BY IdsTyped DEF IndicesOf

LEMMA IndexTyped == Index \subseteq Nat \ {0}
<1>1. \A f \in File : Cardinality(Scenes[f]) \in Nat
  BY FS_CardinalityType, ShowControlAssumption DEF ShowControlAssumption
<1> QED
  BY <1>1 DEF Index

(* The candidate is appended; what was there stays where it was.           *)
LEMMA NewShowTyped ==
  ASSUME NEW f \in File \ Broken, NEW ids \in Orders(f)
  PROVE  NewShow(ids, DefaultScene[f]) \in Show
<1> DEFINE show == [ids |-> ids, current_active_scene |-> DefaultScene[f],
                    current_scene_id |-> 0, started |-> {}]
<1>1. DefaultScene[f] \in Nat \ {0}
  BY ShowControlAssumption DEF ShowControlAssumption
<1>2. ids \in UNION { Orders(g) : g \in File }
  OBVIOUS
<1>3. show \in Show
  BY <1>1, <1>2 DEF Show
<1> QED
  BY <1>3, StartStopTyped DEF NewShow

LEMMA InvConstruct == ASSUME Inv, Construct PROVE Inv'
<1>a. load \in Load /\ load.file \in File /\ shows \in Seq(Show)
  BY DEF Inv, TypeOK, ShowsTyped, LoadOK, Construct, Load
<1>1. CASE load.file \in Broken /\ Goto("loader", "fail") /\ UNCHANGED <<shows, load>>
  <2>1. /\ PlacesTyped'
        /\ pc'["loader"] = "fail" /\ pc'["main"] = pc["main"]
        /\ pc'["io"] = pc["io"]
    BY <1>1, LoaderGoes DEF Inv, TypeOK, LoaderPlace
  <2>2. ShowsTyped' /\ CallsTyped' /\ LoadsTyped' /\ FlagsTyped'
    BY <1>1, SameShowsTyped, SameCalls, SameLoads, SameFlags
    DEF Inv, TypeOK, Construct, historyVars
  <2>3. CallOK' /\ LoadOK' /\ PointersOK'
    BY <1>1, <2>1 DEF Inv, CallOK, LoadOK, PointersOK, InRollback, InSwitch, Load,
                      Pointer, Construct
  <2> QED
    BY <2>1, <2>2, <2>3 DEF Inv, TypeOK
<1>2. ASSUME NEW ids \in Orders(load.file),
             load.file \notin Broken,
             shows' = Append(shows, NewShow(ids, DefaultScene[load.file])),
             load' = [load EXCEPT !.candidate = Len(shows) + 1],
             Goto("loader", IF load.goto_default THEN "retain" ELSE "resume")
      PROVE  Inv'
  <2>1. /\ PlacesTyped'
        /\ pc'["loader"] \in {"retain", "resume"} /\ pc'["main"] = pc["main"]
        /\ pc'["io"] = pc["io"]
    BY <1>2, LoaderGoes DEF Inv, TypeOK, LoaderPlace
  <2>2. shows' \in Seq(Show) /\ Len(shows') = Len(shows) + 1 /\ Len(shows) \in Nat
    BY <1>a, <1>2, NewShowTyped
  <2>3. Pointer \subseteq Pointer' /\ DOMAIN shows \subseteq DOMAIN shows'
    BY <1>a, <2>2 DEF Pointer
  <2>4. ShowsTyped'
    BY <2>2, <2>3 DEF Inv, TypeOK, ShowsTyped, Construct, historyVars
  <2>5. CallsTyped'
    <3>1. Call \subseteq Call'
      BY <2>3 DEF Call, Null
    <3> QED
      BY <3>1 DEF Inv, TypeOK, CallsTyped, Construct
  <2>6. load' \in Load' /\ load'.candidate # Null
    BY <1>a, <1>2, <2>2 DEF Load, Pointer, Null
  <2>7. msg \in Load => msg' \in Load'
    BY <2>3 DEF Load, Construct
  <2>8. LoadsTyped'
    BY <2>6, <2>7 DEF Inv, TypeOK, LoadsTyped, Construct, historyVars
  <2>9. FlagsTyped'
    BY SameFlags DEF Inv, TypeOK, Construct
  <2>10. CallOK' /\ PointersOK'
    BY <2>1, <2>3 DEF Inv, CallOK, PointersOK, InRollback, InSwitch, Construct
  <2>11. LoadOK'
    BY <2>1, <2>6, <2>7 DEF Inv, LoadOK
  <2> QED
    BY <2>1, <2>4, <2>5, <2>8, <2>9, <2>10, <2>11 DEF Inv, TypeOK
<1> QED
  BY <1>1, <1>2 DEF Construct

(* The two assignments of a rollback.                                      *)
LEMMA InvRollback == ASSUME Inv, RollbackActive \/ RollbackClear PROVE Inv'
<1>1. PICK p \in {"rb_clear", "desk"} : Goto("main", p)
  BY DEF RollbackActive, RollbackClear
<1>2. /\ PlacesTyped'
      /\ pc'["main"] = p /\ pc'["io"] = pc["io"] /\ pc'["loader"] = pc["loader"]
  BY <1>1, MainGoes DEF Inv, TypeOK, MainPlace
<1>3. UNCHANGED <<shows, call, msg, load, sent, applied, show_file_apply_state,
                  runVars, show_loading_thread, inputs>>
  BY DEF RollbackActive, RollbackClear, historyVars
<1>4. ShowsTyped'
  <2>1. CASE RollbackActive
    BY <2>1 DEF Inv, TypeOK, ShowsTyped, Pointer, RollbackActive
  <2>2. CASE RollbackClear
    BY <2>2 DEF Inv, TypeOK, ShowsTyped, Pointer, RollbackClear, historyVars, Null
  <2> QED
    BY <2>1, <2>2
<1>5. CallsTyped' /\ LoadsTyped' /\ FlagsTyped'
  BY <1>3, SameCalls, SameLoads, SameFlags DEF Inv, TypeOK
<1>6. CallOK' /\ LoadOK'
  BY <1>2, <1>3 DEF Inv, CallOK, LoadOK, InSwitch, Load, Pointer
<1>7. PointersOK'
  BY <1>1, <1>2, <1>3 DEF Inv, PointersOK, InRollback, InSwitch, RollbackActive,
                          RollbackClear
<1> QED
  BY <1>2, <1>4, <1>5, <1>6, <1>7 DEF Inv, TypeOK
-----------------------------------------------------------------------------
(***************************************************************************)
(* The steps of set_active_scene.                                          *)
(***************************************************************************)

LEMMA SwitchedTyped ==
  ASSUME NEW show \in Show, NEW id \in SceneId \cup {0}
  PROVE  SwitchedTo(show, id) \subseteq Show
<1> SUFFICES ASSUME NEW i \in IndicesOf(show, id)
             PROVE  StartScene([StopScene(show) EXCEPT !.current_active_scene = i,
                                                       !.current_scene_id = id])
                      \in Show
  BY DEF SwitchedTo
<1>1. i \in Index
  BY IndicesTyped
<1>2. StopScene(show) \in Show
  BY StartStopTyped
<1>3. [StopScene(show) EXCEPT !.current_active_scene = i,
                              !.current_scene_id = id] \in Show
  BY <1>1, <1>2, IndexTyped DEF Show
<1> QED
  BY <1>3, StartStopTyped

(* One show changes, in place.                                             *)
LEMMA InvShowChanges ==
  ASSUME Inv, NEW s \in DOMAIN shows, NEW show \in Show,
         shows' = [shows EXCEPT ![s] = show]
  PROVE  shows' \in Seq(Show) /\ Len(shows') = Len(shows) /\ DOMAIN shows' = DOMAIN shows
  BY DEF Inv, TypeOK, ShowsTyped

LEMMA ShowAt ==
  ASSUME Inv, NEW s \in DOMAIN shows
  PROVE  shows[s] \in Show /\ shows[s].current_scene_id \in SceneId \cup {0}
<1>1. shows[s] \in Show
  BY DEF Inv, TypeOK, ShowsTyped
<1> QED
  BY <1>1 DEF Show

LEMMA InvResume == ASSUME Inv, Resume PROVE Inv'
<1>1. /\ PlacesTyped'
      /\ pc'["loader"] = "retain" /\ pc'["main"] = pc["main"]
      /\ pc'["io"] = pc["io"]
  BY LoaderGoes DEF Inv, TypeOK, LoaderPlace, Resume
<1>2. shows' \in Seq(Show) /\ Len(shows') = Len(shows) /\ DOMAIN shows' = DOMAIN shows
  <2>1. CASE UNCHANGED shows
    BY <2>1 DEF Inv, TypeOK, ShowsTyped
  <2>2. CASE ~UNCHANGED shows
    <3>1. active_show # Null /\ active_show \in DOMAIN shows
      BY <2>2 DEF Resume, Inv, TypeOK, ShowsTyped, Pointer, Null
    <3>2. load.candidate \in DOMAIN shows
      BY DEF Resume, Inv, TypeOK, ShowsTyped, LoadOK, Load, Pointer, Null
    <3>3. /\ shows[load.candidate] \in Show
          /\ shows[active_show].current_scene_id \in SceneId \cup {0}
      BY <3>1, <3>2, ShowAt
    <3>4. PICK show \in SwitchedTo(shows[load.candidate],
                                   shows[active_show].current_scene_id) :
            shows' = [shows EXCEPT ![load.candidate] = show]
      BY <2>2 DEF Resume
    <3>5. show \in Show
      BY <3>3, <3>4, SwitchedTyped
    <3> QED
      BY <3>2, <3>4, <3>5, InvShowChanges
  <2> QED
    BY <2>1, <2>2
<1>3. ShowsTyped'
  BY <1>2 DEF Inv, TypeOK, ShowsTyped, Pointer, Resume, switchUnchanged, historyVars
<1>4. CallsTyped'
  BY <1>2 DEF Inv, TypeOK, CallsTyped, Call, Pointer, Resume
<1>5. LoadsTyped' /\ LoadOK'
  BY <1>1, <1>2 DEF Inv, TypeOK, LoadsTyped, LoadOK, Load, Pointer, Resume,
                    switchUnchanged, historyVars
<1>6. FlagsTyped'
  BY SameFlags DEF Inv, TypeOK, Resume, switchUnchanged
<1>7. CallOK' /\ PointersOK'
  BY <1>1, <1>2 DEF Inv, CallOK, PointersOK, InRollback, InSwitch, Resume,
                    switchUnchanged
<1> QED
  BY <1>1, <1>3, <1>4, <1>5, <1>6, <1>7 DEF Inv, TypeOK

(* A thread begins set_active_scene, or finds it has nothing to do.        *)
LEMMA SwitchBegins ==
  ASSUME Inv, NEW t \in {"main", "io"}, NEW s \in DOMAIN shows,
         NEW id \in SceneId \cup {0}, NEW back \in {"idle", "push", "rb_active"},
         Switch(t, s, id, back), UNCHANGED shows
  PROVE  /\ CallsTyped'
         /\ \/ Goto(t, back) /\ UNCHANGED call
            \/ /\ Goto(t, "stop")
               /\ call'[t].show = s /\ call'[t].index \in Index
               /\ call'[t].back = back
               /\ \A u \in {"main", "io"} \ {t} : call'[u] = call[u]
<1>1. CASE Goto(t, back) /\ UNCHANGED call
  BY <1>1, SameCalls DEF Inv, TypeOK
<1>2. ASSUME NEW i \in IndicesOf(shows[s], id), Goto(t, "stop"),
             call' = [call EXCEPT ![t] =
                        [show |-> s, id |-> id, index |-> i, back |-> back]]
      PROVE  /\ CallsTyped' /\ Goto(t, "stop")
             /\ call'[t].show = s /\ call'[t].index \in Index
             /\ call'[t].back = back
             /\ \A u \in {"main", "io"} \ {t} : call'[u] = call[u]
  <2>1. shows[s] \in Show /\ s \in Pointer \ {Null}
    BY DEF Inv, TypeOK, ShowsTyped, Pointer, Null
  <2>2. i \in Index
    BY <2>1, IndicesTyped
  <2> DEFINE c == [show |-> s, id |-> id, index |-> i, back |-> back]
  <2>3. c \in Call' /\ Call' = Call
    BY <2>1, <2>2 DEF Call, Pointer
  <2>4. c.show = s /\ c.index = i /\ c.back = back
    OBVIOUS
  <2> HIDE DEF c
  <2>5. call' = [call EXCEPT ![t] = c] /\ call \in [{"main", "io"} -> Call \cup {NoCall}]
    BY <1>2 DEF c, Inv, TypeOK, CallsTyped
  <2>6. CallsTyped' /\ call'[t] = c /\ \A u \in {"main", "io"} \ {t} : call'[u] = call[u]
    BY <2>3, <2>5 DEF CallsTyped
  <2> QED
    BY <1>2, <2>2, <2>4, <2>6
<1> QED
  BY <1>1, <1>2 DEF Switch

(* What is left of the invariant when the caller's place is known.         *)
LEMMA InvSwitchBegins ==
  ASSUME Inv, UNCHANGED <<shows, active_show, last_active_show, msg, load, sent,
                          applied, before>>,
         FlagsTyped', NEW t \in {"main", "io"}, NEW s \in DOMAIN shows,
         NEW id \in SceneId \cup {0}, NEW back \in {"idle", "push", "rb_active"},
         Switch(t, s, id, back),
         back = "idle" <=> t = "io",
         back = "rb_active" => last_active_show # Null
  PROVE  Inv'
<1>1. ShowsTyped' /\ LoadsTyped'
  BY SameShowsTyped, SameLoads DEF Inv, TypeOK
<1>2. CallsTyped'
  BY SwitchBegins
<1>3. CASE Goto(t, back) /\ UNCHANGED call
  <2>1. CASE t = "io"
    BY <1>3, <2>1, InvIoGoes DEF quietVars
  <2>2. CASE t = "main"
    BY <1>3, <2>2, InvMainGoes DEF quietVars, MainPlace
  <2> QED
    BY <2>1, <2>2
<1>4. ASSUME Goto(t, "stop"),
             call'[t].show = s /\ call'[t].index \in Index /\ call'[t].back = back,
             \A u \in {"main", "io"} \ {t} : call'[u] = call[u]
      PROVE  Inv'
  <2>1. CASE t = "io"
    <3>1. /\ PlacesTyped' /\ pc'["io"] = "stop"
          /\ pc'["main"] = pc["main"] /\ pc'["loader"] = pc["loader"]
      BY <1>4, <2>1, IoGoes DEF Inv, TypeOK, IoPlace
    <3>2. CallOK' /\ PointersOK'
      BY <1>4, <2>1, <3>1 DEF Inv, CallOK, PointersOK, InRollback, InSwitch
    <3>3. LoadOK'
      BY <3>1 DEF Inv, LoadOK, Load, Pointer
    <3> QED
      BY <1>1, <1>2, <3>1, <3>2, <3>3 DEF Inv, TypeOK
  <2>2. CASE t = "main"
    <3>1. /\ PlacesTyped' /\ pc'["main"] = "stop"
          /\ pc'["io"] = pc["io"] /\ pc'["loader"] = pc["loader"]
      BY <1>4, <2>2, MainGoes DEF Inv, TypeOK, MainPlace
    <3>2. CallOK' /\ PointersOK'
      BY <1>4, <2>2, <3>1 DEF Inv, CallOK, PointersOK, InRollback, InSwitch
    <3>3. LoadOK'
      BY <3>1 DEF Inv, LoadOK, Load, Pointer
    <3> QED
      BY <1>1, <1>2, <3>1, <3>2, <3>3 DEF Inv, TypeOK
  <2> QED
    BY <2>1, <2>2
<1> QED
  BY <1>3, <1>4, SwitchBegins

LEMMA InvCallers ==
  ASSUME Inv,
         \/ \E id \in SceneId : EnterSceneCall(id)
         \/ \E id \in SceneId : RunCycleSwitches(id)
         \/ RollbackScene
  PROVE  Inv'
<1>a. active_show # Null => active_show \in DOMAIN shows
  BY DEF Inv, TypeOK, ShowsTyped, Pointer, Null
<1>1. ASSUME NEW id \in SceneId, EnterSceneCall(id) PROVE Inv'
  <2>1. active_show \in DOMAIN shows
    BY <1>1, <1>a DEF EnterSceneCall, Inv, PointersOK
  <2>2. FlagsTyped'
    BY <1>1, SameFlags DEF EnterSceneCall, Inv, TypeOK, switchUnchanged
  <2> QED
    BY <1>1, <2>1, <2>2, InvSwitchBegins DEF EnterSceneCall, switchUnchanged, historyVars
<1>2. ASSUME NEW id \in SceneId, RunCycleSwitches(id) PROVE Inv'
  <2>1. active_show \in DOMAIN shows
    BY <1>2, <1>a DEF RunCycleSwitches
  <2>2. FlagsTyped'
    BY <1>2, FlagsInput DEF RunCycleSwitches, Inv, TypeOK
  <2> QED
    BY <1>2, <2>1, <2>2, InvSwitchBegins DEF RunCycleSwitches, historyVars
<1>3. CASE RollbackScene
  <2>1. last_active_show # Null /\ last_active_show \in DOMAIN shows
    BY <1>3 DEF RollbackScene, Inv, TypeOK, ShowsTyped, Pointer, Null, PointersOK,
                InRollback
  <2>2. active_show \in DOMAIN shows /\ active_show # Null
    BY <2>1, <1>a DEF Inv, PointersOK
  <2>3. shows[active_show].current_scene_id \in SceneId \cup {0}
    BY <2>2, ShowAt
  <2>5. FlagsTyped'
    BY <1>3, SameFlags DEF RollbackScene, Inv, TypeOK, switchUnchanged
  <2>6. Switch("main", last_active_show, shows[active_show].current_scene_id,
               "rb_active")
    BY <1>3, <2>2 DEF RollbackScene
  <2>7. UNCHANGED <<shows, active_show, last_active_show, msg, load, sent, applied,
                    before>>
    BY <1>3 DEF RollbackScene, switchUnchanged, historyVars
  <2> QED
    BY <2>1, <2>3, <2>5, <2>6, <2>7, InvSwitchBegins
<1> QED
  BY <1>1, <1>2, <1>3

(* A step inside set_active_scene changes its show, and moves on.          *)
LEMMA InvSwitchInside ==
  ASSUME Inv, NEW t \in {"main", "io"}, SwitchStop(t) \/ SwitchIndex(t) \/ SwitchId(t)
  PROVE  Inv'
<1>1. InSwitch(t)
  BY DEF SwitchStop, SwitchIndex, SwitchId, InSwitch
<1>2. call[t].show \in DOMAIN shows /\ call[t].index \in Index /\ call[t] \in Call
  BY <1>1 DEF Inv, TypeOK, CallOK, CallsTyped, Call, NoCall, ShowsTyped, Null
<1>3. shows' \in Seq(Show) /\ Len(shows') = Len(shows) /\ DOMAIN shows' = DOMAIN shows
  <2>1. shows[call[t].show] \in Show
    BY <1>2, ShowAt
  <2>2. CASE SwitchStop(t)
    <3>1. StopScene(shows[call[t].show]) \in Show
      BY <2>1, StartStopTyped
    <3> QED
      BY <1>2, <2>2, <3>1, InvShowChanges DEF SwitchStop
  <2>3. CASE SwitchIndex(t)
    <3>1. [shows[call[t].show] EXCEPT !.current_active_scene = call[t].index] \in Show
      BY <1>2, <2>1, IndexTyped DEF Show
    <3> QED
      BY <1>2, <2>3, <3>1, InvShowChanges DEF SwitchIndex
  <2>4. CASE SwitchId(t)
    <3>1. [shows[call[t].show] EXCEPT !.current_scene_id = call[t].id] \in Show
      BY <1>2, <2>1 DEF Show, Call
    <3> QED
      BY <1>2, <2>4, <3>1, InvShowChanges DEF SwitchId
  <2> QED
    BY <2>2, <2>3, <2>4
<1>4. UNCHANGED <<call, switchUnchanged>>
  BY DEF SwitchStop, SwitchIndex, SwitchId
<1>5. PICK p \in {"index", "id", "start"} : Goto(t, p)
  BY DEF SwitchStop, SwitchIndex, SwitchId
<1>6. /\ PlacesTyped'
      /\ pc'[t] = p
      /\ \A u \in {"main", "io", "loader"} \ {t} : pc'[u] = pc[u]
  BY <1>5, MainGoes, IoGoes DEF Inv, TypeOK, MainPlace, IoPlace
<1>7. ShowsTyped'
  BY <1>3, <1>4 DEF Inv, TypeOK, ShowsTyped, Pointer, switchUnchanged, historyVars
<1>8. CallsTyped'
  BY <1>3, <1>4 DEF Inv, TypeOK, CallsTyped, Call, Pointer
<1>9. LoadsTyped' /\ LoadOK'
  BY <1>3, <1>4, <1>6 DEF Inv, TypeOK, LoadsTyped, LoadOK, Load, Pointer,
                           switchUnchanged, historyVars
<1>10. FlagsTyped'
  BY <1>4, SameFlags DEF Inv, TypeOK, switchUnchanged
<1>11. CallOK' /\ PointersOK'
  BY <1>1, <1>3, <1>4, <1>6 DEF Inv, CallOK, PointersOK, InRollback, InSwitch,
                                 switchUnchanged
<1> QED
  BY <1>6, <1>7, <1>8, <1>9, <1>10, <1>11 DEF Inv, TypeOK

(* The last step of set_active_scene returns to where it was called.       *)
LEMMA InvSwitchStart ==
  ASSUME Inv, NEW t \in {"main", "io"}, SwitchStart(t)
  PROVE  Inv'
<1>1. InSwitch(t)
  BY DEF SwitchStart, InSwitch
<1>2. call[t].show \in DOMAIN shows
  BY <1>1 DEF Inv, CallOK
<1>3. shows' \in Seq(Show) /\ Len(shows') = Len(shows) /\ DOMAIN shows' = DOMAIN shows
  <2>1. StartScene(shows[call[t].show]) \in Show
    BY <1>2, ShowAt, StartStopTyped
  <2> QED
    BY <1>2, <2>1, InvShowChanges DEF SwitchStart
<1>4. UNCHANGED switchUnchanged /\ call' = [call EXCEPT ![t] = NoCall]
  BY DEF SwitchStart
<1>5. \A u \in {"main", "io"} \ {t} : call'[u] = call[u]
  BY <1>4 DEF Inv, TypeOK, CallsTyped
<1>6. /\ PlacesTyped'
      /\ pc'[t] = call[t].back
      /\ \A u \in {"main", "io", "loader"} \ {t} : pc'[u] = pc[u]
  BY <1>1, MainGoes, IoGoes DEF SwitchStart, Inv, TypeOK, CallOK, MainPlace, IoPlace
<1>7. call[t].back \in IF t = "io" THEN {"idle"} ELSE {"push", "rb_active"}
  BY <1>1 DEF Inv, CallOK
<1>8. ShowsTyped'
  BY <1>3, <1>4 DEF Inv, TypeOK, ShowsTyped, Pointer, switchUnchanged, historyVars
<1>9. CallsTyped'
  <2>1. Call' = Call
    BY <1>3 DEF Call, Pointer
  <2> QED
    BY <1>4, <2>1 DEF Inv, TypeOK, CallsTyped
<1>10. LoadsTyped' /\ LoadOK'
  BY <1>3, <1>4, <1>6, <1>7 DEF Inv, TypeOK, LoadsTyped, LoadOK, Load, Pointer,
                                 switchUnchanged, historyVars
<1>11. FlagsTyped'
  BY <1>4, SameFlags DEF Inv, TypeOK, switchUnchanged
<1>12. CallOK' /\ PointersOK'
  BY <1>1, <1>3, <1>4, <1>5, <1>6, <1>7
  DEF Inv, CallOK, PointersOK, InRollback, InSwitch, switchUnchanged
<1> QED
  BY <1>6, <1>8, <1>9, <1>10, <1>11, <1>12 DEF Inv, TypeOK
-----------------------------------------------------------------------------
LEMMA InvStep == Inv /\ [Next]_vars => Inv'
<1> SUFFICES ASSUME Inv, [Next]_vars PROVE Inv'
  OBVIOUS
<1>1. CASE UNCHANGED vars
  <2>1. UNCHANGED <<quietVars, pc, show_file_apply_state, runVars,
                    show_loading_thread, inputs>>
    BY <1>1 DEF vars, quietVars, runVars
  <2>2. FlagsTyped'
    BY <2>1, SameFlags DEF Inv, TypeOK
  <2> QED
    BY <2>1, <2>2, InvStay
<1>2. CASE IoStep
  BY <1>2, InvCallers, InvSwitchInside, InvSwitchStart, InvStartLoading, InvCycle
  DEF IoStep, SwitchStep
<1>3. CASE LoaderStep
  BY <1>3, InvConstruct, InvResume, InvRetain, InvActivate, InvReport DEF LoaderStep
<1>4. CASE MainStep
  <2>1. CASE RollbackActive \/ RollbackClear
    BY <2>1, InvRollback
  <2> QED
    BY <1>4, <2>1, InvCallers, InvCycle, InvSwitchInside, InvSwitchStart
    DEF MainStep, SwitchStep
<1>5. CASE InputStep
  BY <1>5, InvUpdateState, InvEnterScene, InvLoadShowFile, InvPressOops, InvCallers,
     InvStop DEF InputStep
<1> QED
  BY <1>1, <1>2, <1>3, <1>4, <1>5 DEF Next

LEMMA InvAlways == Spec => []Inv
  BY InvInit, InvStep, PTL DEF Spec

(* Every variable keeps its type, whatever the interleaving.               *)
THEOREM TypeCorrect == Spec => []TypeOK
<1>1. Inv => TypeOK
  BY DEF Inv
<1> QED
  BY <1>1, InvAlways, PTL

(* Only the end of a load and a rollback assign active_show.               *)
LEMMA WhoAssignsActive ==
  [Next]_vars => UNCHANGED active_show \/ Activate \/ RollbackActive
<1> SUFFICES ASSUME [Next]_vars, ~Activate, ~RollbackActive
             PROVE  UNCHANGED active_show
  OBVIOUS
<1>1. CASE UNCHANGED vars
  BY <1>1 DEF vars
<1>2. CASE IoStep
  BY <1>2 DEF IoStep, EnterSceneCall, SwitchStep, SwitchStop, SwitchIndex, SwitchId,
              SwitchStart, StartLoading, LeaveEventLoop, switchUnchanged
<1>3. CASE LoaderStep
  BY <1>3 DEF LoaderStep, Construct, Resume, Retain, ReportSuccess, ReportFailure,
              LoadEnds, switchUnchanged
<1>4. CASE MainStep
  BY <1>4 DEF MainStep, RollbackScene, RollbackClear, DeskDone, RunCycle,
              RunCycleFails, RunCycleCrashes, CycleDone, SwitchStep, SwitchStop, SwitchIndex,
              SwitchId, SwitchStart, Destruct, DestructDone, switchUnchanged
<1>5. CASE InputStep
  BY <1>5 DEF InputStep, UpdateState, EnterScene, LoadShowFile, PressOops,
              RunCycleSwitches, EventLoopCrashes, Stop
<1> QED
  BY <1>1, <1>2, <1>3, <1>4, <1>5 DEF Next

(* A show that runs is never lost: the loading thread may store both       *)
(* pointers at any moment of a rollback, but it never makes                *)
(* last_active_show null while there is an active show.                    *)
THEOREM ActiveShowNeverLost == Spec => ShowNeverLost
<1>1. Inv /\ [Next]_vars => [active_show # Null => active_show' # Null]_vars
  <2> SUFFICES ASSUME Inv, [Next]_vars, active_show # Null PROVE active_show' # Null
    OBVIOUS
  <2>1. CASE Activate
    BY <2>1 DEF Inv, LoadOK, Activate
  <2>2. CASE RollbackActive
    BY <2>2 DEF Inv, PointersOK, InRollback, RollbackActive
  <2> QED
    BY <2>1, <2>2, WhoAssignsActive
<1> QED
  BY <1>1, InvAlways, PTL DEF Spec, ShowNeverLost
-----------------------------------------------------------------------------
(***************************************************************************)
(* The scene a show is in has been started.  Between a thread's on_stop    *)
(* and its on_start the scene may be stopped, and then that thread is the  *)
(* one that will start whatever scene is current by then.                  *)
(***************************************************************************)

SceneHeld ==
  \A s \in DOMAIN shows :
    \/ shows[s].current_active_scene \in shows[s].started
    \/ CurrentScene(shows[s]) = {}
    \/ \E t \in {"main", "io"} :
         pc[t] \in {"index", "id", "start"} /\ call[t].show = s

(* The steps of the others keep the shows, the calls and who is in one.    *)
LEMMA WhoSwitches ==
  ASSUME Inv, [Next]_vars,
         \A t \in {"main", "io"} : ~SwitchStep(t), ~Construct, ~Resume
  PROVE  /\ UNCHANGED shows
         /\ \A t \in {"main", "io"} :
              pc[t] \in {"index", "id", "start"} => pc'[t] = pc[t] /\ call'[t] = call[t]
<1>a. pc \in [{"main", "io", "loader"} -> MainPlace \cup IoPlace \cup LoaderPlace]
  BY DEF Inv, TypeOK, PlacesTyped
<1>b. call \in [{"main", "io"} -> Call \cup {NoCall}]
  BY DEF Inv, TypeOK, CallsTyped
<1>1. CASE UNCHANGED vars
  BY <1>1 DEF vars
<1>2. CASE IoStep
  BY <1>2, <1>a, <1>b DEF IoStep, EnterSceneCall, Switch, StartLoading,
              LeaveEventLoop, Goto
<1>3. CASE LoaderStep
  BY <1>3, <1>a, <1>b DEF LoaderStep, Retain, Activate, ReportSuccess, ReportFailure,
              LoadEnds, Goto
<1>4. CASE MainStep
  <2>1. CASE RollbackScene
    BY <2>1, <1>a, <1>b DEF RollbackScene, Switch, Goto
  <2>2. CASE ~RollbackScene
    BY <1>4, <2>2, <1>a, <1>b DEF MainStep, RollbackActive, RollbackClear, DeskDone,
              RunCycle, RunCycleFails, RunCycleCrashes, CycleDone, Destruct, DestructDone, Goto
  <2> QED
    BY <2>1, <2>2
<1>5. CASE InputStep
  BY <1>5, <1>a, <1>b DEF InputStep, UpdateState, EnterScene, LoadShowFile, PressOops,
              RunCycleSwitches, EventLoopCrashes, Stop, Switch, Goto
<1> QED
  BY <1>1, <1>2, <1>3, <1>4, <1>5 DEF Next

LEMMA SceneHeldSwitch ==
  ASSUME Inv, SceneHeld, NEW t \in {"main", "io"}, SwitchStep(t)
  PROVE  SceneHeld'
<1>1. InSwitch(t)
  BY DEF SwitchStep, SwitchStop, SwitchIndex, SwitchId, SwitchStart, InSwitch
<1> DEFINE s == call[t].show
<1>2. s \in DOMAIN shows
  BY <1>1 DEF Inv, CallOK
<1>3. pc \in [{"main", "io", "loader"} -> MainPlace \cup IoPlace \cup LoaderPlace]
  BY DEF Inv, TypeOK, PlacesTyped
<1>4. call \in [{"main", "io"} -> Call \cup {NoCall}]
  BY DEF Inv, TypeOK, CallsTyped
<1>5. /\ DOMAIN shows' = DOMAIN shows
      /\ \A r \in DOMAIN shows \ {s} : shows'[r] = shows[r]
      /\ \A u \in {"main", "io"} \ {t} : pc'[u] = pc[u] /\ call'[u] = call[u]
  <2>1. shows \in Seq(Show)
    BY DEF Inv, TypeOK, ShowsTyped
  <2> QED
    BY <1>2, <1>3, <1>4, <2>1
    DEF SwitchStep, SwitchStop, SwitchIndex, SwitchId, SwitchStart, Goto
<1>6. CASE SwitchStart(t)
  <2>1. shows[s] \in Show /\ shows \in Seq(Show)
    BY <1>2, ShowAt DEF Inv, TypeOK, ShowsTyped
  <2>2. shows'[s] = StartScene(shows[s])
    BY <1>2, <1>6, <2>1 DEF SwitchStart
  <2>3. shows'[s].current_active_scene \in shows'[s].started \/ CurrentScene(shows'[s]) = {}
    BY <2>1, <2>2 DEF StartScene, Show, CurrentScene
  <2>4. ASSUME NEW r \in DOMAIN shows \ {s}
        PROVE  \/ shows'[r].current_active_scene \in shows'[r].started
               \/ CurrentScene(shows'[r]) = {}
               \/ \E u \in {"main", "io"} :
                    pc'[u] \in {"index", "id", "start"} /\ call'[u].show = r
    <3>1. CASE \/ shows[r].current_active_scene \in shows[r].started
               \/ CurrentScene(shows[r]) = {}
      BY <1>5, <3>1
    <3>2. ASSUME NEW u \in {"main", "io"}, pc[u] \in {"index", "id", "start"},
                 call[u].show = r
          PROVE  pc'[u] \in {"index", "id", "start"} /\ call'[u].show = r
      BY <1>5, <3>2
    <3> QED
      BY <3>1, <3>2 DEF SceneHeld
  <2> QED
    BY <1>5, <2>3, <2>4 DEF SceneHeld
<1>7. CASE ~SwitchStart(t)
  <2>1. pc'[t] \in {"index", "id", "start"} /\ call' = call
    BY <1>3, <1>7 DEF SwitchStep, SwitchStop, SwitchIndex, SwitchId, Goto
  <2>2. ASSUME NEW r \in DOMAIN shows \ {s}
        PROVE  \/ shows'[r].current_active_scene \in shows'[r].started
               \/ CurrentScene(shows'[r]) = {}
               \/ \E u \in {"main", "io"} :
                    pc'[u] \in {"index", "id", "start"} /\ call'[u].show = r
    <3>1. CASE \/ shows[r].current_active_scene \in shows[r].started
               \/ CurrentScene(shows[r]) = {}
      BY <1>5, <3>1
    <3>2. ASSUME NEW u \in {"main", "io"}, pc[u] \in {"index", "id", "start"},
                 call[u].show = r
          PROVE  pc'[u] \in {"index", "id", "start"} /\ call'[u].show = r
      BY <1>5, <2>1, <3>2
    <3> QED
      BY <3>1, <3>2 DEF SceneHeld
  <2> QED
    BY <1>5, <2>1, <2>2 DEF SceneHeld
<1> QED
  BY <1>6, <1>7

(* A new show starts its default scene; a switch on a show that no other   *)
(* thread can see ends with on_start.                                      *)
LEMMA SceneHeldLoad ==
  ASSUME Inv, SceneHeld, Construct \/ Resume
  PROVE  SceneHeld'
<1>1. shows \in Seq(Show) /\ load \in Load
  BY DEF Inv, TypeOK, ShowsTyped, LoadOK, Construct, Resume
<1>2. /\ call' = call
      /\ \A t \in {"main", "io"} : pc'[t] = pc[t]
  BY DEF Construct, Resume, Goto, Inv, TypeOK, PlacesTyped
<1>3. CASE UNCHANGED shows
  BY <1>2, <1>3 DEF SceneHeld
<1>4. ASSUME NEW ids, NEW default, shows' = Append(shows, NewShow(ids, default)),
             shows' \in Seq(Show)
      PROVE  SceneHeld'
  <2>1. /\ DOMAIN shows' = DOMAIN shows \cup {Len(shows) + 1}
        /\ \A r \in DOMAIN shows : shows'[r] = shows[r]
        /\ shows'[Len(shows) + 1] = NewShow(ids, default)
    BY <1>1, <1>4
  <2>2. \/ NewShow(ids, default).current_active_scene \in NewShow(ids, default).started
        \/ CurrentScene(NewShow(ids, default)) = {}
    BY DEF NewShow, StartScene, CurrentScene
  <2> QED
    BY <1>2, <2>1, <2>2 DEF SceneHeld
<1>5. ASSUME NEW show \in Show,
             show.current_active_scene \in show.started \/ CurrentScene(show) = {},
             shows' = [shows EXCEPT ![load.candidate] = show]
      PROVE  SceneHeld'
  <2>1. /\ DOMAIN shows' = DOMAIN shows
        /\ \A r \in DOMAIN shows : shows'[r] = IF r = load.candidate THEN show
                                                                   ELSE shows[r]
    BY <1>1, <1>5
  <2> QED
    BY <1>2, <1>5, <2>1 DEF SceneHeld
<1>6. CASE Construct
  <2>1. ASSUME ~UNCHANGED shows
        PROVE  \E ids \in Orders(load.file) :
                 /\ shows' = Append(shows, NewShow(ids, DefaultScene[load.file]))
                 /\ load.file \in File \ Broken
    BY <1>1, <1>6, <2>1 DEF Construct, Load
  <2>2. ASSUME ~UNCHANGED shows PROVE shows' \in Seq(Show)
    BY <1>1, <2>1, <2>2, NewShowTyped
  <2> QED
    BY <1>3, <1>4, <2>1, <2>2
<1>7. CASE Resume /\ ~UNCHANGED shows
  <2>1. active_show \in DOMAIN shows /\ load.candidate \in DOMAIN shows
    BY <1>7 DEF Resume, Inv, TypeOK, ShowsTyped, LoadOK, Load, Pointer, Null
  <2>2. PICK show \in SwitchedTo(shows[load.candidate],
                                 shows[active_show].current_scene_id) :
          shows' = [shows EXCEPT ![load.candidate] = show]
    BY <1>7 DEF Resume
  <2>3. shows[load.candidate] \in Show
        /\ shows[active_show].current_scene_id \in SceneId \cup {0}
    BY <2>1, ShowAt
  <2>4. show \in Show
    BY <2>2, <2>3, SwitchedTyped
  <2>5. PICK old \in Show : show = StartScene(old)
    <3>1. PICK i \in IndicesOf(shows[load.candidate],
                               shows[active_show].current_scene_id) :
            show = StartScene([StopScene(shows[load.candidate]) EXCEPT
                                 !.current_active_scene = i,
                                 !.current_scene_id =
                                    shows[active_show].current_scene_id])
      BY <2>2 DEF SwitchedTo
    <3>2. i \in Index /\ StopScene(shows[load.candidate]) \in Show
      BY <2>3, <3>1, IndicesTyped, StartStopTyped
    <3>3. [StopScene(shows[load.candidate]) EXCEPT
             !.current_active_scene = i,
             !.current_scene_id = shows[active_show].current_scene_id] \in Show
      BY <2>3, <3>2, IndexTyped DEF Show
    <3> QED
      BY <3>1, <3>3
  <2>6. show.current_active_scene \in show.started \/ CurrentScene(show) = {}
    BY <2>5 DEF StartScene, Show, CurrentScene
  <2> QED
    BY <1>5, <2>2, <2>4, <2>6
<1> QED
  BY <1>3, <1>6, <1>7

(***************************************************************************)
(* Only a default scene is ever missing: the index a switch stores is one  *)
(* of the show's, and it stores it before the id.                          *)
(***************************************************************************)

SceneFound ==
  /\ \A s \in DOMAIN shows :
       CurrentScene(shows[s]) # {} \/ shows[s].current_scene_id = 0
  /\ \A t \in {"main", "io"} :
       /\ InSwitch(t) => call[t].index \in DOMAIN shows[call[t].show].ids
       /\ pc[t] \in {"id", "start"} => CurrentScene(shows[call[t].show]) # {}

(* Outside of the steps of a switch a thread is in the switch it was in,   *)
(* or at the beginning of one to a scene that the show has.                *)
LEMMA SwitchesKept ==
  ASSUME Inv, [Next]_vars,
         \A t \in {"main", "io"} : ~SwitchStep(t), ~Construct, ~Resume
  PROVE  \A t \in {"main", "io"} :
           InSwitch(t)' => \/ pc[t] = pc'[t] /\ call'[t] = call[t]
                           \/ /\ pc'[t] = "stop"
                              /\ call'[t].index \in DOMAIN shows[call'[t].show].ids
<1> SUFFICES ASSUME NEW t \in {"main", "io"}, InSwitch(t)'
             PROVE  \/ pc[t] = pc'[t] /\ call'[t] = call[t]
                    \/ /\ pc'[t] = "stop"
                       /\ call'[t].index \in DOMAIN shows[call'[t].show].ids
  OBVIOUS
<1> USE DEF InSwitch
<1>a. pc \in [{"main", "io", "loader"} -> MainPlace \cup IoPlace \cup LoaderPlace]
  BY DEF Inv, TypeOK, PlacesTyped
<1>b. call \in [{"main", "io"} -> Call \cup {NoCall}]
  BY DEF Inv, TypeOK, CallsTyped
<1>1. ASSUME NEW u \in {"main", "io"}, NEW s, NEW id,
             NEW back \in {"idle", "push", "rb_active"}, Switch(u, s, id, back)
      PROVE  \/ pc[t] = pc'[t] /\ call'[t] = call[t]
             \/ /\ pc'[t] = "stop"
                /\ call'[t].index \in DOMAIN shows[call'[t].show].ids
  BY <1>1, <1>a, <1>b DEF Switch, Goto, IndicesOf
<1>2. CASE UNCHANGED vars
  BY <1>2 DEF vars
<1>3. CASE IoStep
  BY <1>1, <1>3, <1>a DEF IoStep, EnterSceneCall, StartLoading, LeaveEventLoop, Goto,
              switchUnchanged
<1>4. CASE LoaderStep
  BY <1>4, <1>a DEF LoaderStep, Retain, Activate, ReportSuccess, ReportFailure,
              LoadEnds, Goto
<1>5. CASE MainStep
  BY <1>1, <1>5, <1>a DEF MainStep, RollbackScene, RollbackActive, RollbackClear,
              DeskDone, RunCycle, RunCycleFails, RunCycleCrashes, CycleDone, Destruct,
              DestructDone, Goto
<1>6. CASE InputStep
  BY <1>1, <1>6, <1>a DEF InputStep, UpdateState, EnterScene, LoadShowFile, PressOops,
              RunCycleSwitches, EventLoopCrashes, Stop, Goto
<1> QED
  BY <1>2, <1>3, <1>4, <1>5, <1>6 DEF Next

LEMMA SceneFoundSwitch ==
  ASSUME Inv, SceneFound, NEW t \in {"main", "io"}, SwitchStep(t)
  PROVE  SceneFound'
<1> DEFINE s == call[t].show
<1>1. InSwitch(t)
  BY DEF SwitchStep, SwitchStop, SwitchIndex, SwitchId, SwitchStart, InSwitch
<1>2. s \in DOMAIN shows /\ shows \in Seq(Show) /\ shows[s] \in Show
  BY <1>1, ShowAt DEF Inv, CallOK, TypeOK, ShowsTyped
<1>3. /\ pc \in [{"main", "io", "loader"} -> MainPlace \cup IoPlace \cup LoaderPlace]
      /\ call \in [{"main", "io"} -> Call \cup {NoCall}]
  BY DEF Inv, TypeOK, PlacesTyped, CallsTyped
<1>4. /\ DOMAIN shows' = DOMAIN shows
      /\ \A r \in DOMAIN shows : shows'[r].ids = shows[r].ids
      /\ \A r \in DOMAIN shows \ {s} : shows'[r] = shows[r]
      /\ \A u \in {"main", "io"} \ {t} : pc'[u] = pc[u] /\ call'[u] = call[u]
  <2>1. PICK show : shows' = [shows EXCEPT ![s] = show] /\ show.ids = shows[s].ids
    <3>1. /\ StopScene(shows[s]).ids = shows[s].ids
          /\ StartScene(shows[s]).ids = shows[s].ids
          /\ [shows[s] EXCEPT !.current_active_scene = call[t].index].ids = shows[s].ids
          /\ [shows[s] EXCEPT !.current_scene_id = call[t].id].ids = shows[s].ids
      BY <1>2 DEF StartScene, StopScene, Show
    <3> QED
      BY <1>2, <3>1 DEF SwitchStep, SwitchStop, SwitchIndex, SwitchId, SwitchStart
  <2>2. \A u \in {"main", "io"} \ {t} : pc'[u] = pc[u] /\ call'[u] = call[u]
    BY <1>3 DEF SwitchStep, SwitchStop, SwitchIndex, SwitchId, SwitchStart, Goto
  <2> QED
    BY <1>2, <2>1, <2>2
<1>5. call[t].index \in DOMAIN shows[s].ids
  BY <1>1 DEF SceneFound
<1>6. \A r \in DOMAIN shows : CurrentScene(shows[r]) # {} => CurrentScene(shows'[r]) # {}
  <2>1. shows'[s].current_active_scene \in {shows[s].current_active_scene, call[t].index}
    BY <1>2 DEF SwitchStep, SwitchStop, SwitchIndex, SwitchId, SwitchStart, StartScene,
                StopScene, Show
  <2> QED
    BY <1>4, <1>5, <2>1 DEF CurrentScene
<1>7. ASSUME NEW r \in DOMAIN shows
      PROVE  CurrentScene(shows'[r]) # {} \/ shows'[r].current_scene_id = 0
  <2>1. CASE shows'[r].current_scene_id = shows[r].current_scene_id
    BY <1>6, <2>1 DEF SceneFound
  <2>2. CASE shows'[r].current_scene_id # shows[r].current_scene_id
    <3>1. SwitchId(t) /\ r = s
      BY <1>2, <1>4, <2>2 DEF SwitchStep, SwitchStop, SwitchIndex, SwitchStart,
                              StartScene, StopScene, Show
    <3>2. CurrentScene(shows[s]) # {}
      BY <3>1 DEF SwitchId, SceneFound
    <3> QED
      BY <1>6, <3>1, <3>2
  <2> QED
    BY <2>1, <2>2
<1>8. ASSUME NEW u \in {"main", "io"} \ {t}
      PROVE  /\ InSwitch(u)' => call'[u].index \in DOMAIN shows'[call'[u].show].ids
             /\ pc'[u] \in {"id", "start"} => CurrentScene(shows'[call'[u].show]) # {}
  <2>1. InSwitch(u) => call[u].show \in DOMAIN shows
    BY DEF Inv, CallOK
  <2> QED
    BY <1>4, <1>6, <2>1 DEF SceneFound, InSwitch
<1>9. /\ InSwitch(t)' => call'[t].index \in DOMAIN shows'[call'[t].show].ids
      /\ pc'[t] \in {"id", "start"} => CurrentScene(shows'[call'[t].show]) # {}
  <2>1. CASE SwitchStart(t)
    <3>1. call[t].back \in {"idle", "push", "rb_active"}
      BY <1>1 DEF Inv, CallOK
    <3> QED
      BY <1>3, <2>1, <3>1 DEF SwitchStart, Goto, InSwitch
  <2>2. CASE SwitchStop(t)
    BY <1>2, <1>3, <1>4, <1>5, <2>2 DEF SwitchStop, Goto
  <2>3. CASE SwitchIndex(t)
    <3>1. CurrentScene(shows'[s]) # {}
      BY <1>2, <1>4, <1>5, <2>3 DEF SwitchIndex, CurrentScene, Show
    <3> QED
      BY <1>2, <1>4, <1>5, <2>3, <3>1 DEF SwitchIndex
  <2>4. CASE SwitchId(t)
    <3>1. CurrentScene(shows[s]) # {}
      BY <2>4 DEF SwitchId, SceneFound
    <3> QED
      BY <1>2, <1>4, <1>5, <1>6, <2>4, <3>1 DEF SwitchId
  <2> QED
    BY <2>1, <2>2, <2>3, <2>4 DEF SwitchStep
<1> QED
  BY <1>4, <1>7, <1>8, <1>9 DEF SceneFound

(* A new show has entered no scene; Resume takes one that the show has.    *)
LEMMA SceneFoundLoad ==
  ASSUME Inv, SceneFound, Construct \/ Resume
  PROVE  SceneFound'
<1>1. shows \in Seq(Show) /\ load \in Load
  BY DEF Inv, TypeOK, ShowsTyped, LoadOK, Construct, Resume
<1>2. /\ call' = call
      /\ \A t \in {"main", "io"} : pc'[t] = pc[t]
  BY DEF Construct, Resume, Goto, Inv, TypeOK, PlacesTyped
<1>3. \A t \in {"main", "io"} : InSwitch(t) => call[t].show \in DOMAIN shows
  BY DEF Inv, CallOK
<1>4. SUFFICES /\ DOMAIN shows \subseteq DOMAIN shows'
               /\ \A r \in DOMAIN shows :
                    \/ shows'[r] = shows[r]
                    \/ /\ shows'[r].ids = shows[r].ids
                       /\ CurrentScene(shows'[r]) # {}
               /\ \A r \in DOMAIN shows' \ DOMAIN shows : shows'[r].current_scene_id = 0
  BY <1>2, <1>3, <1>4 DEF SceneFound, InSwitch
<1>5. CASE UNCHANGED shows
  BY <1>5
<1>6. CASE Construct /\ ~UNCHANGED shows
  <2>1. load.file \in File \ Broken
    BY <1>1, <1>6 DEF Construct, Load
  <2>2. PICK ids \in Orders(load.file) :
          shows' = Append(shows, NewShow(ids, DefaultScene[load.file]))
    BY <1>6 DEF Construct
  <2>3. NewShow(ids, DefaultScene[load.file]).current_scene_id = 0
    BY DEF NewShow, StartScene
  <2> QED
    BY <1>1, <2>1, <2>2, <2>3, NewShowTyped
<1>7. CASE Resume /\ ~UNCHANGED shows
  <2>1. active_show \in DOMAIN shows /\ load.candidate \in DOMAIN shows
    BY <1>7 DEF Resume, Inv, TypeOK, ShowsTyped, LoadOK, Load, Pointer, Null
  <2> DEFINE old == shows[load.candidate]
             id == shows[active_show].current_scene_id
  <2>2. PICK show \in SwitchedTo(old, id) :
          shows' = [shows EXCEPT ![load.candidate] = show]
    BY <1>7 DEF Resume
  <2>3. old \in Show
    BY <2>1, ShowAt
  <2>4. PICK i \in IndicesOf(old, id) :
          show = StartScene([StopScene(old) EXCEPT !.current_active_scene = i,
                                                   !.current_scene_id = id])
    BY <2>2 DEF SwitchedTo
  <2>5. show.ids = old.ids /\ show.current_active_scene = i
    BY <2>3, <2>4 DEF StartScene, StopScene, Show
  <2>6. CurrentScene(show) # {}
    BY <2>4, <2>5 DEF CurrentScene, IndicesOf
  <2> QED
    BY <1>1, <2>1, <2>2, <2>5, <2>6
<1> QED
  BY <1>5, <1>6, <1>7

(* However the switches of clients, scripts and rollbacks interleave, the  *)
(* scene a show ends up in has been started; there is none only until the  *)
(* first switch away from a default that the show does not have.           *)
THEOREM CurrentSceneIsStarted == Spec => []CurrentSceneStarted
<1>1. Init => SceneHeld /\ SceneFound
  BY DEF Init, SceneHeld, SceneFound, InSwitch
<1>2. Inv /\ (SceneHeld /\ SceneFound) /\ [Next]_vars => (SceneHeld /\ SceneFound)'
  <2> SUFFICES ASSUME Inv, SceneHeld, SceneFound, [Next]_vars
               PROVE  SceneHeld' /\ SceneFound'
    OBVIOUS
  <2>1. CASE \E t \in {"main", "io"} : SwitchStep(t)
    BY <2>1, SceneHeldSwitch, SceneFoundSwitch
  <2>2. CASE Construct \/ Resume
    BY <2>2, SceneHeldLoad, SceneFoundLoad
  <2>3. CASE /\ \A t \in {"main", "io"} : ~SwitchStep(t)
             /\ ~Construct /\ ~Resume
    <3>1. /\ UNCHANGED shows
          /\ \A t \in {"main", "io"} :
               pc[t] \in {"index", "id", "start"} =>
                 pc'[t] = pc[t] /\ call'[t] = call[t]
      BY <2>3, WhoSwitches
    <3>2. SceneHeld'
      BY <3>1 DEF SceneHeld
    <3>3. \A t \in {"main", "io"} :
            InSwitch(t)' => \/ pc[t] = pc'[t] /\ call'[t] = call[t]
                            \/ /\ pc'[t] = "stop"
                               /\ call'[t].index \in DOMAIN shows[call'[t].show].ids
      BY <2>3, SwitchesKept
    <3>4. SceneFound'
      BY <3>1, <3>3 DEF SceneFound, InSwitch
    <3> QED
      BY <3>2, <3>4
  <2> QED
    BY <2>1, <2>2, <2>3
<1>3. SceneHeld /\ SceneFound => CurrentSceneStarted
  BY DEF SceneHeld, SceneFound, CurrentSceneStarted, WithoutScene, Switching
<1> QED
  BY <1>1, <1>2, <1>3, InvAlways, PTL DEF Spec
-----------------------------------------------------------------------------
(***************************************************************************)
(* Loads end in the order in which they were sent: what was sent is what   *)
(* was dealt with, then the load under way, then the one that waits.       *)
(***************************************************************************)

Loading == IF pc["loader"] # "ended" THEN 1 ELSE 0
Waiting == IF pc["io"] = "join" THEN 1 ELSE 0

LoadQueue ==
  /\ Len(sent) = Len(applied) + Loading + Waiting
  /\ \A i \in 1 .. Len(applied) : applied[i] = sent[i]
  /\ pc["loader"] # "ended" => load.file = sent[Len(applied) + 1]
  /\ pc["io"] = "join" => msg.file = sent[Len(sent)]

LEMMA WhoQueues ==
  ASSUME Inv, [Next]_vars,
         ~\E f \in File, goto_default \in BOOLEAN : LoadShowFile(f, goto_default),
         ~StartLoading, ~ReportSuccess, ~ReportFailure
  PROVE  /\ UNCHANGED <<sent, applied, msg>> /\ load'.file = load.file
         /\ pc'["loader"] = "ended" <=> pc["loader"] = "ended"
         /\ pc'["io"] = "join" <=> pc["io"] = "join"
<1>a. pc \in [{"main", "io", "loader"} -> MainPlace \cup IoPlace \cup LoaderPlace]
  BY DEF Inv, TypeOK, PlacesTyped
<1>b. InSwitch("io") => call["io"].back = "idle"
  BY DEF Inv, CallOK
<1> USE DEF switchUnchanged, historyVars
<1>1. CASE UNCHANGED vars
  BY <1>1 DEF vars
<1>2. CASE IoStep
  BY <1>2, <1>a, <1>b DEF IoStep, EnterSceneCall, Switch, SwitchStep, SwitchStop,
              SwitchIndex, SwitchId, SwitchStart, LeaveEventLoop, Goto, InSwitch
<1>3. CASE LoaderStep
  <2>1. CASE Construct
    <3>1. load \in Load
      BY <2>1 DEF Inv, LoadOK, Construct
    <3> QED
      BY <2>1, <3>1, <1>a DEF Construct, Goto, Load
  <2> QED
    BY <1>3, <2>1, <1>a DEF LoaderStep, Resume, Retain, Activate, Goto
<1>4. CASE MainStep
  BY <1>4, <1>a DEF MainStep, RollbackScene, RollbackActive, RollbackClear, DeskDone,
              RunCycle, RunCycleFails, RunCycleCrashes, CycleDone, Destruct, DestructDone, Goto,
              Switch, SwitchStep, SwitchStop, SwitchIndex, SwitchId, SwitchStart
<1>5. CASE InputStep
  BY <1>5, <1>a DEF InputStep, UpdateState, EnterScene, PressOops,
              RunCycleSwitches, EventLoopCrashes, Stop, Switch, Goto
<1> QED
  BY <1>1, <1>2, <1>3, <1>4, <1>5 DEF Next

LEMMA LoadQueueStep == Inv /\ LoadQueue /\ [Next]_vars => LoadQueue'
<1> SUFFICES ASSUME Inv, LoadQueue, [Next]_vars PROVE LoadQueue'
  OBVIOUS
<1>a. sent \in Seq(File) /\ applied \in Seq(File)
  BY DEF Inv, TypeOK, LoadsTyped
<1>b. pc \in [{"main", "io", "loader"} -> MainPlace \cup IoPlace \cup LoaderPlace]
  BY DEF Inv, TypeOK, PlacesTyped
<1>1. ASSUME NEW f \in File, NEW goto_default \in BOOLEAN, LoadShowFile(f, goto_default)
      PROVE  LoadQueue'
  <2>1. sent' = Append(sent, f) /\ msg'.file = f /\ UNCHANGED <<applied, load>>
        /\ pc["io"] = "idle" /\ pc'["io"] = "join" /\ pc'["loader"] = pc["loader"]
    BY <1>1, <1>b DEF LoadShowFile, Goto
  <2>2. /\ Len(sent') = Len(sent) + 1 /\ sent'[Len(sent')] = f
        /\ \A i \in 1 .. Len(sent) : sent'[i] = sent[i]
    BY <1>a, <2>1
  <2>3. /\ Len(sent) = Len(applied) + Loading
        /\ Len(sent) \in Nat /\ Len(applied) \in Nat
    BY <1>a, <2>1 DEF LoadQueue, Loading, Waiting
  <2>4. Loading' = Loading /\ Waiting' = 1 /\ Loading \in {0, 1}
    <3>1. Loading' = Loading
      BY <2>1 DEF Loading
    <3>2. Waiting' = 1
      BY <2>1 DEF Waiting
    <3>3. Loading \in {0, 1}
      BY DEF Loading
    <3> QED
      BY <3>1, <3>2, <3>3
  <2>5. \A i \in 1 .. Len(applied) : applied'[i] = sent'[i]
    <3> SUFFICES ASSUME NEW i \in 1 .. Len(applied) PROVE applied'[i] = sent'[i]
      BY <2>1
    <3>1. i \in 1 .. Len(sent)
      BY <2>3, <2>4
    <3> QED
      BY <2>1, <2>2, <3>1 DEF LoadQueue
  <2>6. pc["loader"] # "ended" => load.file = sent'[Len(applied) + 1]
    BY <2>2, <2>3 DEF LoadQueue, Loading
  <2> QED
    BY <2>1, <2>2, <2>3, <2>4, <2>5, <2>6 DEF LoadQueue
<1>2. CASE StartLoading
  <2>1. /\ UNCHANGED <<sent, applied>> /\ load' = msg
        /\ pc["io"] = "join" /\ pc["loader"] = "ended"
        /\ pc'["io"] = "idle" /\ pc'["loader"] = "construct"
    BY <1>2, <1>b DEF StartLoading, historyVars
  <2> QED
    BY <1>a, <2>1 DEF LoadQueue, Loading, Waiting
<1>3. CASE ReportSuccess \/ ReportFailure
  <2>1. /\ applied' = Append(applied, load.file) /\ UNCHANGED <<sent, msg>>
        /\ pc["loader"] # "ended" /\ pc'["loader"] = "ended"
        /\ pc'["io"] = pc["io"]
    BY <1>3, <1>b DEF ReportSuccess, ReportFailure, LoadEnds, Goto
  <2>2. load.file \in File
    BY <2>1 DEF Inv, LoadOK, Load
  <2>3. /\ Len(applied') = Len(applied) + 1
        /\ applied'[Len(applied) + 1] = load.file
        /\ \A i \in 1 .. Len(applied) : applied'[i] = applied[i]
    BY <1>a, <2>1, <2>2
  <2> QED
    BY <1>a, <2>1, <2>3 DEF LoadQueue, Loading, Waiting
<1>4. CASE /\ ~\E f \in File, goto_default \in BOOLEAN : LoadShowFile(f, goto_default)
           /\ ~StartLoading /\ ~ReportSuccess /\ ~ReportFailure
  BY <1>4, WhoQueues DEF LoadQueue, Loading, Waiting
<1> QED
  BY <1>1, <1>2, <1>3, <1>4

(* Shows are dealt with one at a time, in the order in which they were     *)
(* sent.                                                                   *)
THEOREM LoadsEndInOrder == Spec => []LoadsInOrder
<1>1. Init => LoadQueue
  BY DEF Init, LoadQueue, Loading, Waiting
<1>2. Inv /\ LoadQueue => LoadsInOrder
  <2> SUFFICES ASSUME Inv, LoadQueue PROVE LoadsInOrder
    OBVIOUS
  <2>1. sent \in Seq(File) /\ applied \in Seq(File)
    BY DEF Inv, TypeOK, LoadsTyped
  <2>a. Loading \in {0, 1} /\ Waiting \in {0, 1}
    BY DEF Loading, Waiting
  <2>b. Len(sent) \in Nat /\ Len(applied) \in Nat
    BY <2>1
  <2>2. Len(applied) <= Len(sent)
    BY <2>a, <2>b DEF LoadQueue
  <2>3. applied = SubSeq(sent, 1, Len(applied))
    BY <2>1, <2>2 DEF LoadQueue
  <2>4. pc["loader"] # "ended" => Len(applied) < Len(sent)
    BY <2>a, <2>b DEF LoadQueue, Loading
  <2> QED
    BY <2>2, <2>3, <2>4 DEF LoadsInOrder, LoadQueue
<1> QED
  BY <1>1, <1>2, LoadQueueStep, InvAlways, PTL DEF Spec
-----------------------------------------------------------------------------
(***************************************************************************)
(* The show to roll back to.  A candidate is none of the shows the         *)
(* pointers know, and between a load's two assignments last_active_show is *)
(* the active show unless a rollback has cleared it.                       *)
(***************************************************************************)

PointersApart ==
  /\ pc["loader"] \in {"resume", "retain", "activate"} =>
       load.candidate \notin {active_show, last_active_show}
  /\ pc["loader"] = "activate" => last_active_show \in {Null, active_show}
  /\ pc["loader"] # "activate" /\ pc["main"] # "rb_clear" =>
       /\ last_active_show \in {Null, before}
       /\ last_active_show # Null => last_active_show # active_show

LEMMA WhoPoints ==
  ASSUME Inv, [Next]_vars,
         ~Construct, ~Retain, ~Activate, ~RollbackActive, ~RollbackClear
  PROVE  /\ UNCHANGED <<active_show, last_active_show, before>>
         /\ pc'["loader"] \in {"resume", "retain", "activate"} =>
              /\ pc["loader"] \in {"resume", "retain", "activate"}
              /\ load'.candidate = load.candidate
         /\ pc'["loader"] = "activate" <=> pc["loader"] = "activate"
         /\ pc'["main"] = "rb_clear" <=> pc["main"] = "rb_clear"
<1>a. pc \in [{"main", "io", "loader"} -> MainPlace \cup IoPlace \cup LoaderPlace]
  BY DEF Inv, TypeOK, PlacesTyped
<1>b. InSwitch("main") => call["main"].back \in {"push", "rb_active"}
  BY DEF Inv, CallOK
<1> USE DEF switchUnchanged, historyVars
<1>1. CASE UNCHANGED vars
  BY <1>1 DEF vars
<1>2. CASE IoStep
  BY <1>2, <1>a DEF IoStep, EnterSceneCall, Switch, SwitchStep, SwitchStop,
              SwitchIndex, SwitchId, SwitchStart, StartLoading, LeaveEventLoop, Goto
<1>3. CASE LoaderStep
  BY <1>3, <1>a DEF LoaderStep, Resume, ReportSuccess, ReportFailure, LoadEnds, Goto
<1>4. CASE MainStep
  BY <1>4, <1>a, <1>b DEF MainStep, RollbackScene, DeskDone, RunCycle, RunCycleFails,
              RunCycleCrashes,
              CycleDone, Destruct, DestructDone, Goto, Switch, SwitchStep, SwitchStop,
              SwitchIndex, SwitchId, SwitchStart, InSwitch
<1>5. CASE InputStep
  BY <1>5, <1>a DEF InputStep, UpdateState, EnterScene, LoadShowFile, PressOops,
              RunCycleSwitches, EventLoopCrashes, Stop, Switch, Goto
<1> QED
  BY <1>1, <1>2, <1>3, <1>4, <1>5 DEF Next

LEMMA PointersApartStep == Inv /\ PointersApart /\ [Next]_vars => PointersApart'
<1> SUFFICES ASSUME Inv, PointersApart, [Next]_vars PROVE PointersApart'
  OBVIOUS
<1>a. pc \in [{"main", "io", "loader"} -> MainPlace \cup IoPlace \cup LoaderPlace]
  BY DEF Inv, TypeOK, PlacesTyped
<1>b. active_show \in 0 .. Len(shows) /\ last_active_show \in 0 .. Len(shows)
      /\ Len(shows) \in Nat
  BY DEF Inv, TypeOK, ShowsTyped, Pointer
<1>1. CASE Construct
  <2>1. UNCHANGED <<active_show, last_active_show, before>>
        /\ pc["loader"] = "construct" /\ pc'["main"] = pc["main"]
        /\ pc'["loader"] \in {"fail", "retain", "resume"}
    BY <1>1, <1>a DEF Construct, Goto, historyVars
  <2>2. pc'["loader"] # "fail" => load'.candidate = Len(shows) + 1
    <3>1. load \in Load
      BY <2>1 DEF Inv, LoadOK
    <3> QED
      BY <1>1, <1>a, <3>1 DEF Construct, Goto, Load
  <2> QED
    BY <1>b, <2>1, <2>2 DEF PointersApart
<1>2. CASE Retain
  <2>1. UNCHANGED <<active_show, before, load>> /\ last_active_show' = active_show
        /\ pc["loader"] = "retain" /\ pc'["main"] = pc["main"]
        /\ pc'["loader"] = "activate"
    BY <1>2, <1>a DEF Retain, Goto, historyVars
  <2> QED
    BY <2>1 DEF PointersApart
<1>3. CASE Activate
  <2>1. UNCHANGED <<last_active_show>> /\ active_show' = load.candidate
        /\ before' = active_show
        /\ pc["loader"] = "activate" /\ pc'["main"] = pc["main"]
        /\ pc'["loader"] = "report"
    BY <1>3, <1>a DEF Activate, Goto
  <2> QED
    BY <2>1 DEF PointersApart
<1>4. CASE RollbackActive
  <2>1. UNCHANGED <<last_active_show, load>> /\ active_show' = last_active_show
        /\ before' = (IF active_show = last_active_show THEN before ELSE active_show)
        /\ pc["main"] = "rb_active" /\ pc'["loader"] = pc["loader"]
        /\ pc'["main"] = "rb_clear"
    BY <1>4, <1>a DEF RollbackActive, Goto
  <2> QED
    BY <2>1 DEF PointersApart
<1>5. CASE RollbackClear
  <2>1. UNCHANGED <<active_show, before, load>> /\ last_active_show' = Null
        /\ pc["main"] = "rb_clear" /\ pc'["loader"] = pc["loader"]
        /\ pc'["main"] = "desk"
    BY <1>5, <1>a DEF RollbackClear, Goto, historyVars
  <2>2. pc["loader"] \in {"resume", "retain", "activate"} => load.candidate # Null
    BY DEF Inv, LoadOK
  <2> QED
    BY <2>1, <2>2 DEF PointersApart
<1>6. CASE ~Construct /\ ~Retain /\ ~Activate /\ ~RollbackActive /\ ~RollbackClear
  BY <1>6, WhoPoints DEF PointersApart
<1> QED
  BY <1>1, <1>2, <1>3, <1>4, <1>5, <1>6

(* Rolling back leads to the show that ran before, whatever a load does to *)
(* the two pointers in the meantime.                                       *)
THEOREM RollbackTargetKept == Spec => []RollbackTarget
<1>1. Init => PointersApart
  BY DEF Init, PointersApart
<1>2. Inv /\ PointersApart => RollbackTarget
  BY DEF Inv, PointersOK, PointersApart, RollbackTarget
<1> QED
  BY <1>1, <1>2, PointersApartStep, InvAlways, PTL DEF Spec
-----------------------------------------------------------------------------
(***************************************************************************)
(* The apply state.                                                        *)
(***************************************************************************)

ApplyState ==
  /\ ApplyStateTruthful
  /\ pc["loader"] = "report" => active_show # Null

LEMMA WhoApplies ==
  ASSUME Inv, [Next]_vars,
         ~\E f \in File, goto_default \in BOOLEAN : LoadShowFile(f, goto_default),
         ~StartLoading, ~Activate, ~ReportSuccess, ~ReportFailure, ~RunCycleFails,
         ~RollbackActive
  PROVE  /\ UNCHANGED <<active_show, show_file_apply_state>>
         /\ pc["loader"] # "ended" => pc'["loader"] # "ended"
         /\ pc'["loader"] = "report" <=> pc["loader"] = "report"
         /\ pc["io"] = "join" => pc'["io"] = "join"
<1>a. pc \in [{"main", "io", "loader"} -> MainPlace \cup IoPlace \cup LoaderPlace]
  BY DEF Inv, TypeOK, PlacesTyped
<1> USE DEF switchUnchanged, historyVars
<1>1. CASE UNCHANGED vars
  BY <1>1 DEF vars
<1>2. CASE IoStep
  BY <1>2, <1>a DEF IoStep, EnterSceneCall, Switch, SwitchStep, SwitchStop,
              SwitchIndex, SwitchId, SwitchStart, LeaveEventLoop, Goto
<1>3. CASE LoaderStep
  BY <1>3, <1>a DEF LoaderStep, Construct, Resume, Retain, Goto
<1>4. CASE MainStep
  BY <1>4, <1>a DEF MainStep, RollbackScene, RollbackClear, DeskDone, RunCycle,
              RunCycleCrashes, CycleDone, Destruct, DestructDone, Goto, Switch, SwitchStep,
              SwitchStop, SwitchIndex, SwitchId, SwitchStart
<1>5. CASE InputStep
  BY <1>5, <1>a DEF InputStep, UpdateState, EnterScene, PressOops,
              RunCycleSwitches, EventLoopCrashes, Stop, Switch, Goto
<1> QED
  BY <1>1, <1>2, <1>3, <1>4, <1>5 DEF Next

LEMMA ApplyStateStep == Inv /\ ApplyState /\ [Next]_vars => ApplyState'
<1> SUFFICES ASSUME Inv, ApplyState, [Next]_vars PROVE ApplyState'
  OBVIOUS
<1>a. pc \in [{"main", "io", "loader"} -> MainPlace \cup IoPlace \cup LoaderPlace]
  BY DEF Inv, TypeOK, PlacesTyped
<1> USE DEF ApplyState, ApplyStateTruthful, Goto
<1>1. ASSUME NEW f \in File, NEW goto_default \in BOOLEAN, LoadShowFile(f, goto_default)
      PROVE  ApplyState'
  BY <1>1, <1>a DEF LoadShowFile
<1>2. CASE StartLoading
  BY <1>2, <1>a DEF StartLoading
<1>3. CASE Activate
  BY <1>3, <1>a DEF Activate, Inv, LoadOK
<1>4. CASE ReportSuccess
  BY <1>4, <1>a DEF ReportSuccess, LoadEnds
<1>5. CASE ReportFailure
  BY <1>5, <1>a DEF ReportFailure, LoadEnds
<1>6. CASE RunCycleFails
  BY <1>6, <1>a DEF RunCycleFails
<1>7. CASE RollbackActive
  BY <1>7, <1>a DEF RollbackActive, Inv, PointersOK, InRollback
<1>8. CASE /\ ~\E f \in File, goto_default \in BOOLEAN : LoadShowFile(f, goto_default)
           /\ ~StartLoading /\ ~Activate /\ ~ReportSuccess /\ ~ReportFailure
           /\ ~RunCycleFails /\ ~RollbackActive
  BY <1>8, WhoApplies
<1> QED
  BY <1>1, <1>2, <1>3, <1>4, <1>5, <1>6, <1>7, <1>8

(* What the clients are told of loads and shows is so, although three      *)
(* threads write it.                                                       *)
THEOREM ApplyStateIsTruthful == Spec => []ApplyStateTruthful
<1>1. Init => ApplyState
  BY DEF Init, ApplyState, ApplyStateTruthful
<1>2. ApplyState => ApplyStateTruthful
  BY DEF ApplyState
<1> QED
  BY <1>1, <1>2, ApplyStateStep, InvAlways, PTL DEF Spec
=============================================================================
