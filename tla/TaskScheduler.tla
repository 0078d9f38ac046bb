---------------------------- MODULE TaskScheduler ----------------------------
(***************************************************************************)
(* scheduler.py and its one kind of work, reindex_all of tools.py.         *)
(*                                                                         *)
(* The loop thread enqueues tasks, drives _runner, collects old records    *)
(* and shuts down.  The blocking half of a task is a worker in the thread  *)
(* pool; it takes the corpus mutex, wipes the tables, recreates and fills  *)
(* them.  task_cancel is a pool thread too, so the statements of           *)
(* Scheduler.cancel interleave with the loop's, although the module says   *)
(* that its methods are called from the loop thread: OnLoop are the        *)
(* callers that do as it says.                                             *)
(*                                                                         *)
(* The loop's own steps are atomic between two awaits.  A record's age is  *)
(* not modelled: a finished one may be collected at any time.              *)
(***************************************************************************)
EXTENDS FiniteSets, Naturals

CONSTANTS
    Task, Canceller, Writer,   \* one call each
    PoolSize,                  \* SMALT_THREAD_POOL_WORKERS
    OnLoop,                    \* cancellers that call from the loop thread
    None                       \* nobody holds the mutex, nothing is targeted

ASSUME SchedulerAssumption ==
    /\ None \notin Task \cup Canceller \cup Writer
    /\ Task \cap Canceller = {} /\ Task \cap Writer = {} /\ Canceller \cap Writer = {}
    /\ PoolSize \in Nat \ {0}
    /\ OnLoop \subseteq Canceller

VARIABLES
    state,            \* Task.state, "none" before enqueue
    cancelRequested,  \* tasks with the flag
    finished,         \* tasks whose finished_at is set
    registered,       \* Scheduler._tasks
    runner,           \* the asyncio.Task of each task
    interrupted,      \* asyncio.Task.cancel() was called, not yet delivered
    worker,           \* the blocking half of each task
    lock,             \* the corpus mutex
    tables,           \* the LanceDB tables
    canceller, target,\* each task_cancel call, and its task
    writer,           \* each write tool's call
    stopping          \* shutdown() has run

loopVars == <<runner, interrupted, stopping>>
recordVars == <<state, cancelRequested, finished, registered>>
cancelVars == <<canceller, target>>
vars == <<state, cancelRequested, finished, registered, runner, interrupted, worker,
          lock, tables, canceller, target, writer, stopping>>

TERMINAL_STATES == {"succeeded", "failed", "cancelled"}
Rebuilding == {"holding", "wiped", "recreated"}
WorkerDone == {"returned", "raised", "bailed"}
Cancelled == {"marked", "interrupting", "toldPending", "toldRunning", "noop"}

TypeOK ==
    /\ state \in [Task -> TERMINAL_STATES \cup {"none", "pending", "running"}]
    /\ cancelRequested \subseteq Task /\ finished \subseteq Task
    /\ registered \subseteq Task /\ interrupted \subseteq Task
    /\ runner \in [Task -> {"none", "scheduled", "awaiting", "done"}]
    /\ worker \in [Task -> {"none", "queued", "waiting"} \cup Rebuilding
                              \cup WorkerDone \cup {"never"}]
    /\ lock \in Task \cup Writer \cup {None}
    /\ tables \in {"full", "absent", "empty"}
    /\ canceller \in [Canceller -> {"idle", "asked", "flagged", "sawPending"} \cup Cancelled]
    /\ target \in [Canceller -> Task \cup {None}]
    /\ writer \in [Writer -> {"idle", "waiting", "holding", "done"}]
    /\ stopping \in BOOLEAN

Init ==
    /\ state = [t \in Task |-> "none"]
    /\ cancelRequested = {} /\ finished = {} /\ registered = {} /\ interrupted = {}
    /\ runner = [t \in Task |-> "none"]
    /\ worker = [t \in Task |-> "none"]
    /\ lock = None
    /\ tables = "full"
    /\ canceller = [k \in Canceller |-> "idle"]
    /\ target = [k \in Canceller |-> None]
    /\ writer = [w \in Writer |-> "idle"]
    /\ stopping = FALSE

\* Threads of the pool that are taken.
Busy ==
    {t \in Task : worker[t] \in {"waiting"} \cup Rebuilding}
      \cup {k \in Canceller : canceller[k] \in {"asked", "flagged", "sawPending", "marked",
                                                "interrupting"}}
      \cup {w \in Writer : writer[w] \in {"waiting", "holding"}}
ThreadFree == Cardinality(Busy) < PoolSize

-----------------------------------------------------------------------------
(* The loop thread                                                          *)

\* reindex_all: enqueue() and an immediate answer.
Enqueue(t) ==
    /\ ~stopping
    /\ state[t] = "none"
    /\ state' = [state EXCEPT ![t] = "pending"]
    /\ registered' = registered \cup {t}
    /\ runner' = [runner EXCEPT ![t] = "scheduled"]
    /\ UNCHANGED <<cancelRequested, finished, interrupted, worker, lock, tables,
                   cancelVars, writer, stopping>>

\* The first step of _runner: RUNNING, and the work is handed to the pool.
Start(t) ==
    /\ runner[t] = "scheduled"
    /\ t \notin interrupted
    /\ state' = [state EXCEPT ![t] = "running"]
    /\ runner' = [runner EXCEPT ![t] = "awaiting"]
    /\ worker' = [worker EXCEPT ![t] = "queued"]
    /\ UNCHANGED <<cancelRequested, finished, registered, interrupted, lock, tables,
                   cancelVars, writer, stopping>>

\* An asyncio task cancelled before its first step never runs its body.
NeverStart(t) ==
    /\ runner[t] = "scheduled"
    /\ t \in interrupted
    /\ runner' = [runner EXCEPT ![t] = "done"]
    /\ interrupted' = interrupted \ {t}
    /\ UNCHANGED <<recordVars, worker, lock, tables, cancelVars, writer, stopping>>

Settle(t, outcome) ==
    /\ state' = [state EXCEPT ![t] = outcome]
    /\ finished' = finished \cup {t}
    /\ runner' = [runner EXCEPT ![t] = "done"]
    /\ interrupted' = interrupted \ {t}
    /\ UNCHANGED <<cancelRequested, registered, lock, tables, cancelVars, writer, stopping>>

\* Mutant: `except Exception` alone, which CancelledError passes by.
InterruptUncaught(t) ==
    /\ runner[t] = "awaiting"
    /\ t \in interrupted
    /\ worker' = IF worker[t] = "queued" THEN [worker EXCEPT ![t] = "never"] ELSE worker
    /\ Settle(t, state[t])

\* Mutant: the worker is stopped along with the task, whatever it is doing.
InterruptStopsWorker(t) ==
    /\ runner[t] = "awaiting"
    /\ t \in interrupted
    /\ worker' = [worker EXCEPT ![t] = "never"]
    /\ lock' = IF lock = t THEN None ELSE lock
    /\ state' = [state EXCEPT ![t] = "cancelled"]
    /\ finished' = finished \cup {t}
    /\ runner' = [runner EXCEPT ![t] = "done"]
    /\ interrupted' = interrupted \ {t}
    /\ UNCHANGED <<cancelRequested, registered, tables, cancelVars, writer, stopping>>

\* CancelledError at the await: work the pool has not begun is dropped, work
\* it has begun goes on without anybody waiting for it.
Interrupt(t) ==
    /\ runner[t] = "awaiting"
    /\ t \in interrupted
    /\ worker' = IF worker[t] = "queued" THEN [worker EXCEPT ![t] = "never"] ELSE worker
    /\ Settle(t, "cancelled")

\* Mutant: the outcome of the worker is stored as the state.
FinishStoresOutcome(t) ==
    /\ runner[t] = "awaiting"
    /\ t \notin interrupted
    /\ worker[t] \in WorkerDone
    /\ Settle(t, worker[t])
    /\ UNCHANGED worker

\* The await returns or raises; a result counts only without cancel_requested.
Finish(t) ==
    /\ runner[t] = "awaiting"
    /\ t \notin interrupted
    /\ worker[t] \in WorkerDone
    /\ Settle(t, CASE worker[t] = "raised" -> "failed"
                   [] worker[t] = "returned" /\ t \notin cancelRequested -> "succeeded"
                   [] OTHER -> "cancelled")
    /\ UNCHANGED worker

\* _gc_once
Collect(t) ==
    /\ t \in registered
    /\ state[t] \in TERMINAL_STATES
    /\ t \in finished
    /\ registered' = registered \ {t}
    /\ UNCHANGED <<state, cancelRequested, finished, loopVars, worker, lock, tables,
                   cancelVars, writer>>

\* The flag and the asyncio cancel, but no state: a pending task stays so.
Shutdown ==
    /\ ~stopping
    /\ stopping' = TRUE
    /\ LET live == {t \in registered : state[t] \notin TERMINAL_STATES} IN
         /\ cancelRequested' = cancelRequested \cup live
         /\ interrupted' = interrupted \cup {t \in live : runner[t] # "done"}
    /\ UNCHANGED <<state, finished, registered, runner, worker, lock, tables,
                   cancelVars, writer>>

-----------------------------------------------------------------------------
(* Scheduler.cancel                                                         *)

\* Mutant: a task cancelled while pending is left to the loop.
CancelWithoutInterrupt(k) ==
    /\ canceller[k] = "idle"
    /\ k \in OnLoop
    /\ \E t \in registered :
         /\ state[t] \notin TERMINAL_STATES
         /\ target' = [target EXCEPT ![k] = t]
         /\ cancelRequested' = cancelRequested \cup {t}
         /\ IF state[t] = "pending"
              THEN /\ state' = [state EXCEPT ![t] = "cancelled"]
                   /\ finished' = finished \cup {t}
                   /\ canceller' = [canceller EXCEPT ![k] = "toldPending"]
              ELSE /\ UNCHANGED <<state, finished>>
                   /\ canceller' = [canceller EXCEPT ![k] = "toldRunning"]
    /\ UNCHANGED <<registered, loopVars, worker, lock, tables, writer>>

\* Mutant: no `if task.state in TERMINAL_STATES: return task`.
CancelAnyState(k) ==
    /\ canceller[k] = "idle"
    /\ k \in OnLoop
    /\ \E t \in registered :
         /\ target' = [target EXCEPT ![k] = t]
         /\ cancelRequested' = cancelRequested \cup {t}
         /\ interrupted' = IF runner[t] = "done" THEN interrupted ELSE interrupted \cup {t}
         /\ IF state[t] = "pending"
              THEN /\ state' = [state EXCEPT ![t] = "cancelled"]
                   /\ finished' = finished \cup {t}
                   /\ canceller' = [canceller EXCEPT ![k] = "toldPending"]
              ELSE /\ UNCHANGED <<state, finished>>
                   /\ canceller' = [canceller EXCEPT ![k] = "toldRunning"]
    /\ UNCHANGED <<registered, runner, stopping, worker, lock, tables, writer>>

\* As the module's docstring has it: one call on the loop thread.
CancelAtOnce(k) ==
    /\ canceller[k] = "idle"
    /\ k \in OnLoop
    /\ \E t \in registered :
         /\ state[t] \notin TERMINAL_STATES
         /\ target' = [target EXCEPT ![k] = t]
         /\ cancelRequested' = cancelRequested \cup {t}
         /\ interrupted' = IF runner[t] = "done" THEN interrupted ELSE interrupted \cup {t}
         /\ IF state[t] = "pending"
              THEN /\ state' = [state EXCEPT ![t] = "cancelled"]
                   /\ finished' = finished \cup {t}
                   /\ canceller' = [canceller EXCEPT ![k] = "toldPending"]
              ELSE /\ UNCHANGED <<state, finished>>
                   /\ canceller' = [canceller EXCEPT ![k] = "toldRunning"]
    /\ UNCHANGED <<registered, runner, stopping, worker, lock, tables, writer>>

\* As task_cancel calls it: statement by statement, on a pool thread.
\* `if task.state in TERMINAL_STATES: return task`
Ask(k) ==
    /\ canceller[k] = "idle"
    /\ k \notin OnLoop
    /\ ThreadFree
    /\ \E t \in registered :
         /\ target' = [target EXCEPT ![k] = t]
         /\ canceller' = [canceller EXCEPT
                            ![k] = IF state[t] \in TERMINAL_STATES THEN "noop" ELSE "asked"]
    /\ UNCHANGED <<recordVars, loopVars, worker, lock, tables, writer>>

\* Mutant: the flag is set for running tasks only.
FlagRunningOnly(k) ==
    /\ canceller[k] = "asked"
    /\ cancelRequested' = IF state[target[k]] = "running"
                            THEN cancelRequested \cup {target[k]} ELSE cancelRequested
    /\ canceller' = [canceller EXCEPT ![k] = "flagged"]
    /\ UNCHANGED <<state, finished, registered, loopVars, worker, lock, tables, target, writer>>

\* `task.cancel_requested = True`
Flag(k) ==
    /\ canceller[k] = "asked"
    /\ cancelRequested' = cancelRequested \cup {target[k]}
    /\ canceller' = [canceller EXCEPT ![k] = "flagged"]
    /\ UNCHANGED <<state, finished, registered, loopVars, worker, lock, tables, target, writer>>

\* `if task.state == TaskState.PENDING`
LookAtState(k) ==
    /\ canceller[k] = "flagged"
    /\ canceller' = [canceller EXCEPT
                       ![k] = IF state[target[k]] = "pending" THEN "sawPending" ELSE "interrupting"]
    /\ UNCHANGED <<recordVars, loopVars, worker, lock, tables, target, writer>>

\* `task.state = TaskState.CANCELLED`, and finished_at
MarkCancelled(k) ==
    /\ canceller[k] = "sawPending"
    /\ state' = [state EXCEPT ![target[k]] = "cancelled"]
    /\ finished' = finished \cup {target[k]}
    /\ canceller' = [canceller EXCEPT ![k] = "marked"]
    /\ UNCHANGED <<cancelRequested, registered, loopVars, worker, lock, tables, target, writer>>

\* `task._asyncio_task.cancel()` unless it is done
InterruptRunner(k) ==
    /\ canceller[k] \in {"marked", "interrupting"}
    /\ interrupted' = IF runner[target[k]] = "done"
                        THEN interrupted ELSE interrupted \cup {target[k]}
    /\ canceller' = [canceller EXCEPT
                       ![k] = IF canceller[k] = "marked" THEN "toldPending" ELSE "toldRunning"]
    /\ UNCHANGED <<recordVars, runner, stopping, worker, lock, tables, target, writer>>

-----------------------------------------------------------------------------
(* _do_reindex, in a pool thread                                            *)

WorkerAt(t, from, to) ==
    /\ worker[t] = from
    /\ worker' = [worker EXCEPT ![t] = to]
    /\ UNCHANGED <<recordVars, loopVars, cancelVars, writer>>

Dispatch(t) == ThreadFree /\ WorkerAt(t, "queued", "waiting") /\ UNCHANGED <<lock, tables>>

Acquire(t) ==
    /\ lock = None
    /\ lock' = t
    /\ WorkerAt(t, "waiting", "holding")
    /\ UNCHANGED tables

\* Mutant: the mutex is not a context manager.
BailKeepsLock(t) ==
    /\ t \in cancelRequested
    /\ \E at \in {"holding", "wiped"} : WorkerAt(t, at, "bailed")
    /\ UNCHANGED <<lock, tables>>

\* Both looks at cancel_requested raise out of the `with`.
Bail(t) ==
    /\ t \in cancelRequested
    /\ \E at \in {"holding", "wiped"} : WorkerAt(t, at, "bailed")
    /\ lock' = None
    /\ UNCHANGED tables

\* drop_table on every table
Wipe(t) ==
    /\ t \notin cancelRequested
    /\ WorkerAt(t, "holding", "wiped")
    /\ tables' = "absent"
    /\ UNCHANGED lock

\* lance.ensure_tables
Recreate(t) ==
    /\ t \notin cancelRequested
    /\ WorkerAt(t, "wiped", "recreated")
    /\ tables' = "empty"
    /\ UNCHANGED lock

\* Indexer.run(full=True)
Rebuild(t) ==
    /\ WorkerAt(t, "recreated", "returned")
    /\ tables' = "full"
    /\ lock' = None

\* The store or the embedder raises.
Raise(t) ==
    /\ worker[t] = "wiped" => t \notin cancelRequested
    /\ \E at \in {"wiped", "recreated"} : WorkerAt(t, at, "raised")
    /\ lock' = None
    /\ UNCHANGED tables

Work(t) == Dispatch(t) \/ Acquire(t) \/ Bail(t) \/ Wipe(t) \/ Recreate(t) \/ Rebuild(t) \/ Raise(t)

-----------------------------------------------------------------------------
(* A write tool: its incremental pass fills empty tables and raises without *)
(* tables.                                                                  *)

WriterAt(w, from, to) ==
    /\ writer[w] = from
    /\ writer' = [writer EXCEPT ![w] = to]
    /\ UNCHANGED <<recordVars, loopVars, worker, cancelVars>>

StartWrite(w) == ThreadFree /\ WriterAt(w, "idle", "waiting") /\ UNCHANGED <<lock, tables>>
EnterWrite(w) == lock = None /\ lock' = w /\ WriterAt(w, "waiting", "holding") /\ UNCHANGED tables
EndWrite(w) ==
    /\ WriterAt(w, "holding", "done")
    /\ lock' = None
    /\ tables' = IF tables = "absent" THEN "absent" ELSE "full"

-----------------------------------------------------------------------------
Loop(t) == Start(t) \/ NeverStart(t) \/ Interrupt(t) \/ Finish(t)
Cancel(k) == Flag(k) \/ LookAtState(k) \/ MarkCancelled(k) \/ InterruptRunner(k)
Write(w) == EnterWrite(w) \/ EndWrite(w)

Next ==
    \/ \E t \in Task : Enqueue(t) \/ Loop(t) \/ Collect(t) \/ Work(t)
    \/ \E k \in Canceller : CancelAtOnce(k) \/ Ask(k) \/ Cancel(k)
    \/ \E w \in Writer : StartWrite(w) \/ Write(w)
    \/ Shutdown

Spec == Init /\ [][Next]_vars

\* The loop and the threads that have begun a call go on; no call has to come.
FairSpec ==
    /\ Spec
    /\ \A t \in Task : WF_vars(Loop(t)) /\ WF_vars(Work(t))
    /\ \A k \in Canceller : WF_vars(Cancel(k))
    /\ \A w \in Writer : WF_vars(Write(w))

-----------------------------------------------------------------------------
(* Properties                                                               *)

\* "Set of states that mean task is done, won't change further"
\* (scheduler.py, TERMINAL_STATES): no step of the loop or of a cancel moves a
\* task out of a terminal state.
TerminalIsFinal ==
    [][\A t \in Task : state[t] \in TERMINAL_STATES => state'[t] = state[t]]_vars

\* Nobody has called cancel for t from a pool thread.
KeptToLoop(t) == \A k \in Canceller \ OnLoop : target[k] # t

\* The same of tasks that are cancelled from the loop thread only, as the
\* module's contract asks, whatever pool threads do to other tasks.
FinalIfKeptToLoop ==
    [][\A t \in Task :
         state[t] \in TERMINAL_STATES /\ KeptToLoop(t) => state'[t] = state[t]]_vars

\* _runner's exit check: under that contract a task that was asked to stop is
\* never reported as succeeded, however late the request came.
CancelIsAuthoritative ==
    \A t \in Task : t \in cancelRequested /\ KeptToLoop(t) => state[t] # "succeeded"

\* A task whose cancel found it pending drops no table, although the loop may
\* start it between any two statements of that cancel: the flag is set before
\* the state is looked at, and the worker looks at the flag before it wipes.
EarlyCancelDestroysNothing ==
    \A k \in Canceller :
        canceller[k] \in {"sawPending", "marked", "toldPending"} =>
            worker[target[k]] \notin {"wiped", "recreated", "returned", "raised"}

\* When its asyncio task is over a task has a terminal state, whoever wrote it
\* last; only a shutdown may leave it pending.
DoneIsTerminal ==
    \A t \in Task :
        runner[t] = "done" =>
            state[t] \in TERMINAL_STATES \/ (stopping /\ state[t] = "pending")

\* "Hard mid-LanceDB-write cancellation would leave the index in a half-state":
\* the worker of an interrupted task is never stopped half way, so tables that
\* are missing or empty while nobody holds the mutex are the work of a rebuild
\* that raised, or that saw the cancel itself after it had wiped them.
NoHalfState ==
    lock = None /\ tables # "full" => \E t \in Task : worker[t] \in {"raised", "bailed"}

\* Every task comes to its end, also when writers fill the pool, when it is
\* cancelled at any moment, and when a rebuild before it bailed out or raised.
TaskEnds == \A t \in Task : runner[t] = "scheduled" ~> runner[t] = "done"

\* Every rebuild gives the corpus mutex back, whether or not anybody waits for
\* its result.
RebuildEnds == \A t \in Task : lock = t ~> lock # t

\* task_cancel: a RUNNING task's "state stays RUNNING until" its work function
\* bails out at a safe boundary.  So a task that a cancel found running is not
\* shown as cancelled while its worker is between the wipe and the end of the
\* rebuild: nothing but the end of the worker ends the wait for it.
CancelledHasStopped ==
    ~stopping =>
        \A k \in Canceller :
            canceller[k] = "toldRunning" /\ state[target[k]] = "cancelled" =>
                worker[target[k]] \notin {"wiped", "recreated"}
=============================================================================
