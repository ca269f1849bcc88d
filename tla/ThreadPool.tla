----------------------------- MODULE ThreadPool -----------------------------
(***************************************************************************)
(* executioners/threadpool: one thread (the caller) enqueues tasks 1 ..    *)
(* NTasks, joins and destroys the pool; enque starts a worker whenever     *)
(* fewer than cpu_count are counted as active, and a worker leaves as soon *)
(* as it finds the queue empty.  The queues are locked_queue: each of      *)
(* push_back, empty and pop_front is one step under the queue's mutex, but *)
(* empty followed by pop_front is two.                                     *)
(***************************************************************************)
EXTENDS Naturals, Sequences, FiniteSets

CONSTANTS
  NTasks,      \* bound: number of tasks the caller enqueues
  CpuCount,    \* std::thread::hardware_concurrency(), 0 when unknown
  Throwing,    \* the tasks that end with a std::exception
  Modulus      \* active_threads counts modulo this (2^64 in the code)

Task == 1 .. NTasks
Worker == 1 .. NTasks      \* enque starts at most one worker

ASSUME ThreadPoolAssumption ==
  /\ NTasks \in Nat \ {0} /\ CpuCount \in Nat /\ Modulus \in Nat
  /\ Throwing \subseteq Task
  /\ CpuCount < Modulus

VARIABLES
  tasks,            \* queue of tasks not yet taken
  stopped_threads,  \* workers that announced their end
  threads,          \* workers in the forward_list
  joined,           \* those of them that are no longer joinable
  active_threads,
  wpc, wtask,       \* per worker: place in its loop, task in its hands
  cpc,              \* place of the caller
  next,             \* next task to enqueue
  ctask,            \* task the caller itself runs inside join
  unwinding,        \* the destructor runs (after join, or after an exception)
  ran               \* history: how often each task was run

poolVars == <<tasks, stopped_threads, threads, joined, active_threads,
              wpc, wtask, cpc, next, ctask, unwinding, ran>>

NoTask == 0

Init ==
  /\ tasks = <<>>
  /\ stopped_threads = {} /\ threads = {} /\ joined = {}
  /\ active_threads = 0
  /\ wpc = [w \in Worker |-> "unborn"]
  /\ wtask = [w \in Worker |-> NoTask]
  /\ cpc = "enque"
  /\ next = 1
  /\ ctask = NoTask
  /\ unwinding = FALSE
  /\ ran = [t \in Task |-> 0]

(* The arithmetic of std::atomic_uint64_t.                                 *)
Increment(n) == IF n + 1 = Modulus THEN 0 ELSE n + 1
Decrement(n) == IF n = 0 THEN Modulus - 1 ELSE n - 1
-----------------------------------------------------------------------------
(***************************************************************************)
(* enque, cleanup: the caller.                                             *)
(***************************************************************************)

Push ==
  /\ cpc = "enque" /\ next \in Task
  /\ tasks' = Append(tasks, next)
  /\ cpc' = "test"
  /\ UNCHANGED <<stopped_threads, threads, joined, active_threads, wpc, wtask,
                 next, ctask, unwinding, ran>>

TestActive ==
  /\ cpc = "test"
  /\ cpc' = IF active_threads < CpuCount THEN "spawn" ELSE "cleanup"
  /\ UNCHANGED <<tasks, stopped_threads, threads, joined, active_threads, wpc,
                 wtask, next, ctask, unwinding, ran>>

(* threads.emplace_front: the worker runs from here on.                    *)
Spawn ==
  /\ cpc = "spawn"
  /\ wpc' = [wpc EXCEPT ![next] = "test"]
  /\ threads' = threads \cup {next}
  /\ cpc' = "count"
  /\ UNCHANGED <<tasks, stopped_threads, joined, active_threads, wtask, next,
                 ctask, unwinding, ran>>

(* Mutant: the started worker is not counted.                              *)
CountForgotten ==
  /\ cpc = "count"
  /\ cpc' = "cleanup"
  /\ UNCHANGED <<tasks, stopped_threads, threads, joined, active_threads, wpc,
                 wtask, next, ctask, unwinding, ran>>

(* active_threads++ comes after the start: a fast worker decrements first. *)
Count ==
  /\ cpc = "count"
  /\ active_threads' = Increment(active_threads)
  /\ cpc' = "cleanup"
  /\ UNCHANGED <<tasks, stopped_threads, threads, joined, wpc, wtask, next,
                 ctask, unwinding, ran>>

(* Join every worker that announced its end.  get_id() of a joined thread  *)
(* is the id of no thread, so remove_if matches those not joined only.     *)
Reap ==
  /\ joined' = joined \cup (stopped_threads \cap threads)
  /\ threads' = { w \in threads : w \in joined' \/ w \notin stopped_threads }
  /\ stopped_threads' = {}

Cleanup ==
  /\ cpc = "cleanup"
  /\ Reap
  /\ next' = next + 1
  /\ cpc' = IF next + 1 \in Task THEN "enque" ELSE "join"
  /\ UNCHANGED <<tasks, active_threads, wpc, wtask, ctask, unwinding, ran>>
-----------------------------------------------------------------------------
(***************************************************************************)
(* join and the destructor: the caller helps to empty the queue, then      *)
(* waits for the workers.                                                  *)
(***************************************************************************)

JoinTest ==
  /\ cpc = "join"
  /\ cpc' = IF tasks = <<>> THEN "wait" ELSE "pop"
  /\ UNCHANGED <<tasks, stopped_threads, threads, joined, active_threads, wpc,
                 wtask, next, ctask, unwinding, ran>>

JoinPop ==
  /\ cpc = "pop"
  /\ IF tasks = <<>>
       THEN cpc' = "join" /\ UNCHANGED <<tasks, ctask>>
       ELSE /\ cpc' = "run"
            /\ ctask' = Head(tasks)
            /\ tasks' = Tail(tasks)
  /\ UNCHANGED <<stopped_threads, threads, joined, active_threads, wpc, wtask,
                 next, unwinding, ran>>

(* Here nothing catches an exception of the task: it leaves join, the      *)
(* destructor runs join again, and a second exception is std::terminate.   *)
JoinRun ==
  /\ cpc = "run"
  /\ ran' = [ran EXCEPT ![ctask] = @ + 1]
  /\ ctask' = NoTask
  /\ IF ctask \notin Throwing
       THEN cpc' = "join" /\ UNCHANGED unwinding
       ELSE IF unwinding
         THEN cpc' = "terminated" /\ UNCHANGED unwinding
         ELSE cpc' = "join" /\ unwinding' = TRUE
  /\ UNCHANGED <<tasks, stopped_threads, threads, joined, active_threads, wpc,
                 wtask, next>>

(* t.join() on every joinable worker.                                      *)
JoinWait ==
  /\ cpc = "wait"
  /\ \A w \in threads : wpc[w] = "finished"
  /\ joined' = threads
  /\ cpc' = IF unwinding THEN "reap" ELSE "returned"
  /\ UNCHANGED <<tasks, stopped_threads, threads, active_threads, wpc, wtask,
                 next, ctask, unwinding, ran>>

(* join returned normally; the pool goes out of scope.                     *)
Destroy ==
  /\ cpc = "returned"
  /\ unwinding' = TRUE
  /\ cpc' = "join"
  /\ UNCHANGED <<tasks, stopped_threads, threads, joined, active_threads, wpc,
                 wtask, next, ctask, ran>>

DestroyCleanup ==
  /\ cpc = "reap"
  /\ Reap
  /\ cpc' = "destroyed"
  /\ UNCHANGED <<tasks, active_threads, wpc, wtask, next, ctask, unwinding, ran>>
-----------------------------------------------------------------------------
(***************************************************************************)
(* The worker's loop.                                                      *)
(***************************************************************************)

WorkerTest(w) ==
  /\ wpc[w] = "test"
  /\ wpc' = [wpc EXCEPT ![w] = IF tasks = <<>> THEN "leave" ELSE "pop"]
  /\ UNCHANGED <<tasks, stopped_threads, threads, joined, active_threads, wtask,
                 cpc, next, ctask, unwinding, ran>>

(* Another thread may have emptied the queue since the test.               *)
WorkerPop(w) ==
  /\ wpc[w] = "pop"
  /\ IF tasks = <<>>
       THEN wpc' = [wpc EXCEPT ![w] = "test"] /\ UNCHANGED <<tasks, wtask>>
       ELSE /\ wpc' = [wpc EXCEPT ![w] = "run"]
            /\ wtask' = [wtask EXCEPT ![w] = Head(tasks)]
            /\ tasks' = Tail(tasks)
  /\ UNCHANGED <<stopped_threads, threads, joined, active_threads, cpc, next,
                 ctask, unwinding, ran>>

(* The task runs; an exception is logged and the loop goes on.             *)
WorkerRun(w) ==
  /\ wpc[w] = "run"
  /\ ran' = [ran EXCEPT ![wtask[w]] = @ + 1]
  /\ wtask' = [wtask EXCEPT ![w] = NoTask]
  /\ wpc' = [wpc EXCEPT ![w] = "test"]
  /\ UNCHANGED <<tasks, stopped_threads, threads, joined, active_threads, cpc,
                 next, ctask, unwinding>>

WorkerLeave(w) ==
  /\ wpc[w] = "leave"
  /\ active_threads' = Decrement(active_threads)
  /\ wpc' = [wpc EXCEPT ![w] = "stop"]
  /\ UNCHANGED <<tasks, stopped_threads, threads, joined, wtask, cpc, next,
                 ctask, unwinding, ran>>

WorkerStop(w) ==
  /\ wpc[w] = "stop"
  /\ stopped_threads' = stopped_threads \cup {w}
  /\ wpc' = [wpc EXCEPT ![w] = "finished"]
  /\ UNCHANGED <<tasks, threads, joined, active_threads, wtask, cpc, next, ctask,
                 unwinding, ran>>
-----------------------------------------------------------------------------
CallerStep ==
  \/ Push \/ TestActive \/ Spawn \/ Count \/ Cleanup
  \/ JoinTest \/ JoinPop \/ JoinRun \/ JoinWait \/ Destroy \/ DestroyCleanup

WorkerStep(w) ==
  WorkerTest(w) \/ WorkerPop(w) \/ WorkerRun(w) \/ WorkerLeave(w) \/ WorkerStop(w)

Next == CallerStep \/ \E w \in Worker : WorkerStep(w)

(* Every thread runs until it ends: the scheduler of the operating system. *)
Spec ==
  /\ Init /\ [][Next]_poolVars
  /\ WF_poolVars(CallerStep)
  /\ \A w \in Worker : WF_poolVars(WorkerStep(w))
-----------------------------------------------------------------------------
TypeOK ==
  /\ tasks \in Seq(Task)
  /\ stopped_threads \subseteq Worker /\ threads \subseteq Worker
  /\ joined \subseteq Worker
  /\ active_threads \in 0 .. Modulus - 1
  /\ wpc \in [Worker -> {"unborn", "test", "pop", "run", "leave", "stop",
                         "finished"}]
  /\ wtask \in [Worker -> Task \cup {NoTask}]
  /\ cpc \in {"enque", "test", "spawn", "count", "cleanup", "join", "pop", "run",
              "wait", "returned", "reap", "destroyed", "terminated"}
  /\ next \in 1 .. NTasks + 1
  /\ ctask \in Task \cup {NoTask}
  /\ unwinding \in BOOLEAN
  /\ ran \in [Task -> Nat]

(* The workers that still take tasks.                                      *)
Live == { w \in Worker : wpc[w] \in {"test", "pop", "run", "leave"} }

(* Never more than cpu_count workers take tasks at the same time, although *)
(* the counter lags behind the threads and wraps below zero when a worker  *)
(* leaves before it was counted (threadpool.cpp:27-46).                    *)
AtMostCpuCount == Cardinality(Live) <= CpuCount

(* Where the caller decides on a new worker the counter is exact: the wrap *)
(* below zero is never what it reads.                                      *)
CounterExactWhenRead == cpc = "test" => active_threads = Cardinality(Live)

(* The places a task is in: queued, in some thread's hands.                *)
QueuePlaces(t) == { i \in DOMAIN tasks : tasks[i] = t }
Holders(t) == { w \in Worker : wtask[w] = t }

Enqueued(t) == t < next \/ (t = next /\ cpc \in {"test", "spawn", "count", "cleanup"})

(* An enqueued task is queued, being run by one thread, or was run once:   *)
(* no race between the last test of a leaving worker, enque and the caller *)
(* emptying the queue in join loses a task or runs it twice.               *)
TaskExactlyOnce ==
  \A t \in Task :
    Cardinality(QueuePlaces(t)) + Cardinality(Holders(t))
      + (IF ctask = t THEN 1 ELSE 0) + ran[t] = (IF Enqueued(t) THEN 1 ELSE 0)

(* When join returns, or the pool is gone after an exception, every task   *)
(* ran, no worker is alive, and no std::thread that is still joinable is   *)
(* destroyed, which would be std::terminate (threadpool.cpp:9-25).         *)
JoinMeansDone ==
  cpc \in {"returned", "reap", "destroyed"} =>
    /\ \A t \in Task : ran[t] = 1
    /\ \A w \in threads : wpc[w] = "finished" /\ w \in joined

(* The pool always comes to its end.                                       *)
PoolEnds == <>(cpc \in {"destroyed", "terminated"})

(* The pool as a whole, between any two steps of its threads: enque, the   *)
(* workers and join agree on every task (threadpool.cpp:9-64).             *)
PoolSound == TaskExactlyOnce /\ JoinMeansDone
=============================================================================
