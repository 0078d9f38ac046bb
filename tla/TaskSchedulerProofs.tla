------------------------- MODULE TaskSchedulerProofs -------------------------
(***************************************************************************)
(* What a cancel on a pool thread can and cannot do, for any number of     *)
(* tasks, cancels, writers and pool threads, and whichever thread cancel   *)
(* runs on; and that waiters never leave the holder without a thread.      *)
(***************************************************************************)
EXTENDS TaskScheduler, FiniteSetTheorems, TLAPS

(* A cancel past its first look at the registry has a task in hand.        *)
TargetInv ==
    \A k \in Canceller : IF canceller[k] = "idle" THEN target[k] = None ELSE target[k] \in Task

(* Every variable has its type in every reachable state, and every cancel  *)
(* under way is about a task.                                              *)
LEMMA Typed == Spec => [](TypeOK /\ TargetInv)
<1> USE DEF TypeOK, TargetInv, TERMINAL_STATES, Rebuilding, WorkerDone, Cancelled,
            loopVars, recordVars, cancelVars
<1>1. Init => TypeOK /\ TargetInv
  <2> SUFFICES ASSUME Init
               PROVE  TypeOK /\ TargetInv
    OBVIOUS
  <2>1. state \in [Task -> TERMINAL_STATES \cup {"none", "pending", "running"}]
    BY DEF Init
  <2>2. worker \in [Task -> {"none", "queued", "waiting"} \cup Rebuilding
                              \cup WorkerDone \cup {"never"}]
    BY DEF Init
  <2>3. canceller \in [Canceller -> {"idle", "asked", "flagged", "sawPending"} \cup Cancelled]
    BY DEF Init
  <2>4. runner \in [Task -> {"none", "scheduled", "awaiting", "done"}]
    BY DEF Init
  <2>5. writer \in [Writer -> {"idle", "waiting", "holding", "done"}]
    BY DEF Init
  <2>6. target \in [Canceller -> Task \cup {None}] /\ TargetInv
    BY DEF Init
  <2>7. QED
    BY <2>1, <2>2, <2>3, <2>4, <2>5, <2>6 DEF Init
<1>2. TypeOK /\ TargetInv /\ [Next]_vars => TypeOK' /\ TargetInv'
  <2> SUFFICES ASSUME TypeOK, TargetInv, [Next]_vars
               PROVE  TypeOK' /\ TargetInv'
    OBVIOUS
  <2>1. CASE UNCHANGED vars
    BY <2>1 DEF vars
  <2>2. ASSUME NEW t \in Task, Enqueue(t)
        PROVE  TypeOK' /\ TargetInv'
    BY <2>2 DEF Enqueue
  <2>3. ASSUME NEW t \in Task, Loop(t)
        PROVE  TypeOK' /\ TargetInv'
    <3>1. CASE Start(t)
      BY <3>1 DEF Start
    <3>2. CASE NeverStart(t)
      BY <3>2 DEF NeverStart
    <3>3. CASE Interrupt(t)
      BY <3>3 DEF Interrupt, Settle
    <3>4. CASE Finish(t)
      BY <3>4 DEF Finish, Settle
    <3>5. QED
      BY <2>3, <3>1, <3>2, <3>3, <3>4 DEF Loop
  <2>4. ASSUME NEW t \in Task, Collect(t)
        PROVE  TypeOK' /\ TargetInv'
    BY <2>4 DEF Collect
  <2>5. ASSUME NEW t \in Task, Work(t)
        PROVE  TypeOK' /\ TargetInv'
    BY <2>5 DEF Work, Dispatch, Acquire, Bail, Wipe, Recreate, Rebuild, Raise, WorkerAt
  <2>6. ASSUME NEW k \in Canceller, CancelAtOnce(k)
        PROVE  TypeOK' /\ TargetInv'
    BY <2>6 DEF CancelAtOnce
  <2>7. ASSUME NEW k \in Canceller, Ask(k)
        PROVE  TypeOK' /\ TargetInv'
    BY <2>7 DEF Ask
  <2>8. ASSUME NEW k \in Canceller, Cancel(k)
        PROVE  TypeOK' /\ TargetInv'
    <3>1. CASE Flag(k)
      BY <3>1 DEF Flag
    <3>2. CASE LookAtState(k)
      BY <3>2 DEF LookAtState
    <3>3. CASE MarkCancelled(k)
      BY <3>3 DEF MarkCancelled
    <3>4. CASE InterruptRunner(k)
      BY <3>4 DEF InterruptRunner
    <3>5. QED
      BY <2>8, <3>1, <3>2, <3>3, <3>4 DEF Cancel
  <2>9. ASSUME NEW w \in Writer, StartWrite(w) \/ Write(w)
        PROVE  TypeOK' /\ TargetInv'
    BY <2>9 DEF StartWrite, Write, EnterWrite, EndWrite, WriterAt
  <2>10. CASE Shutdown
    BY <2>10 DEF Shutdown
  <2>11. QED
    BY <2>1, <2>2, <2>3, <2>4, <2>5, <2>6, <2>7, <2>8, <2>9, <2>10 DEF Next
<1>3. QED
  BY <1>1, <1>2, PTL DEF Spec

(* Every variable has its type in every reachable state.                   *)
THEOREM TypeCorrect == Spec => []TypeOK
BY Typed, PTL

(* Why a cancel that saw its task pending is in time: no worker exists     *)
(* while the task is pending, and from the look at the state on the flag   *)
(* is set, which every worker reads before it wipes.                       *)
EarlyInv ==
    /\ \A t \in Task : state[t] \in {"none", "pending"} => worker[t] = "none"
    /\ \A k \in Canceller :
          canceller[k] \notin {"idle", "asked", "noop"} => target[k] \in cancelRequested
    /\ \A k \in Canceller :
          canceller[k] \in {"sawPending", "marked", "toldPending"} =>
              worker[target[k]] \notin {"wiped", "recreated", "returned", "raised"}

(* EarlyInv is preserved: only the loop hands work to the pool, and it      *)
(* makes the task RUNNING in the same step.                                *)
LEMMA EarlyInvHolds == Spec => []EarlyInv
<1> USE DEF EarlyInv, TypeOK, TargetInv, TERMINAL_STATES, Rebuilding, WorkerDone, Cancelled,
            loopVars, recordVars, cancelVars
<1>1. Init => EarlyInv
  BY DEF Init
<1>2. TypeOK /\ TargetInv /\ EarlyInv /\ [Next]_vars => EarlyInv'
  <2> SUFFICES ASSUME TypeOK, TargetInv, EarlyInv, [Next]_vars
               PROVE  EarlyInv'
    OBVIOUS
  <2>1. CASE UNCHANGED vars
    BY <2>1 DEF vars
  <2>2. ASSUME NEW t \in Task, Enqueue(t)
        PROVE  EarlyInv'
    BY <2>2 DEF Enqueue
  <2>3. ASSUME NEW t \in Task, Loop(t)
        PROVE  EarlyInv'
    <3>1. CASE Start(t)
      BY <3>1 DEF Start
    <3>2. CASE NeverStart(t)
      BY <3>2 DEF NeverStart
    <3>3. CASE Interrupt(t)
      BY <3>3 DEF Interrupt, Settle
    <3>4. CASE Finish(t)
      BY <3>4 DEF Finish, Settle
    <3>5. QED
      BY <2>3, <3>1, <3>2, <3>3, <3>4 DEF Loop
  <2>4. ASSUME NEW t \in Task, Collect(t)
        PROVE  EarlyInv'
    BY <2>4 DEF Collect
  <2>5. ASSUME NEW t \in Task, Work(t)
        PROVE  EarlyInv'
    BY <2>5 DEF Work, Dispatch, Acquire, Bail, Wipe, Recreate, Rebuild, Raise, WorkerAt
  <2>6. ASSUME NEW k \in Canceller, CancelAtOnce(k)
        PROVE  EarlyInv'
    BY <2>6 DEF CancelAtOnce
  <2>7. ASSUME NEW k \in Canceller, Ask(k)
        PROVE  EarlyInv'
    BY <2>7 DEF Ask
  <2>8. ASSUME NEW k \in Canceller, Cancel(k)
        PROVE  EarlyInv'
    <3>1. CASE Flag(k)
      BY <3>1 DEF Flag
    <3>2. CASE LookAtState(k)
      BY <3>2 DEF LookAtState
    <3>3. CASE MarkCancelled(k)
      BY <3>3 DEF MarkCancelled
    <3>4. CASE InterruptRunner(k)
      BY <3>4 DEF InterruptRunner
    <3>5. QED
      BY <2>8, <3>1, <3>2, <3>3, <3>4 DEF Cancel
  <2>9. ASSUME NEW w \in Writer, StartWrite(w) \/ Write(w)
        PROVE  EarlyInv'
    BY <2>9 DEF StartWrite, Write, EnterWrite, EndWrite, WriterAt
  <2>10. CASE Shutdown
    BY <2>10 DEF Shutdown
  <2>11. QED
    BY <2>1, <2>2, <2>3, <2>4, <2>5, <2>6, <2>7, <2>8, <2>9, <2>10 DEF Next
<1>3. QED
  BY <1>1, <1>2, Typed, PTL DEF Spec

(* A task whose cancel found it pending never has its tables dropped by    *)
(* its worker, at whatever statement of that cancel the loop started it.   *)
THEOREM EarlyCancelIsSafe == Spec => []EarlyCancelDestroysNothing
<1>1. EarlyInv => EarlyCancelDestroysNothing
  BY DEF EarlyInv, EarlyCancelDestroysNothing
<1>2. QED
  BY <1>1, EarlyInvHolds, PTL

(* Why no task is left without an end: an unstarted task is pending or     *)
(* cancelled, a cancel interrupts an asyncio task only once its record is  *)
(* not pending any more, and a record never becomes pending again.         *)
DoneInv ==
    /\ \A t \in Task : t \in registered => state[t] # "none"
    /\ \A t \in Task : runner[t] = "scheduled" => state[t] \in {"pending", "cancelled"}
    /\ \A t \in Task : t \in interrupted /\ state[t] = "pending" => stopping
    /\ \A k \in Canceller : canceller[k] # "idle" => state[target[k]] # "none"
    /\ \A k \in Canceller :
          canceller[k] \in {"marked", "interrupting"} => state[target[k]] # "pending"
    /\ \A t \in Task : state[t] = "none" => t \notin interrupted
    /\ DoneIsTerminal

(* DoneInv is preserved by the loop and by every statement of a cancel.    *)
LEMMA DoneInvHolds == Spec => []DoneInv
<1> USE DEF DoneInv, DoneIsTerminal, TypeOK, TargetInv, TERMINAL_STATES, Rebuilding, WorkerDone, Cancelled,
            loopVars, recordVars, cancelVars
<1>1. Init => DoneInv
  BY DEF Init
<1>2. TypeOK /\ TargetInv /\ DoneInv /\ [Next]_vars => DoneInv'
  <2> SUFFICES ASSUME TypeOK, TargetInv, DoneInv, [Next]_vars
               PROVE  DoneInv'
    OBVIOUS
  <2>1. CASE UNCHANGED vars
    BY <2>1 DEF vars
  <2>2. ASSUME NEW t \in Task, Enqueue(t)
        PROVE  DoneInv'
    BY <2>2 DEF Enqueue
  <2>3. ASSUME NEW t \in Task, Loop(t)
        PROVE  DoneInv'
    <3>1. CASE Start(t)
      BY <3>1 DEF Start
    <3>2. CASE NeverStart(t)
      BY <3>2 DEF NeverStart
    <3>3. CASE Interrupt(t)
      BY <3>3 DEF Interrupt, Settle
    <3>4. CASE Finish(t)
      BY <3>4 DEF Finish, Settle
    <3>5. QED
      BY <2>3, <3>1, <3>2, <3>3, <3>4 DEF Loop
  <2>4. ASSUME NEW t \in Task, Collect(t)
        PROVE  DoneInv'
    BY <2>4 DEF Collect
  <2>5. ASSUME NEW t \in Task, Work(t)
        PROVE  DoneInv'
    BY <2>5 DEF Work, Dispatch, Acquire, Bail, Wipe, Recreate, Rebuild, Raise, WorkerAt
  <2>6. ASSUME NEW k \in Canceller, CancelAtOnce(k)
        PROVE  DoneInv'
    BY <2>6 DEF CancelAtOnce
  <2>7. ASSUME NEW k \in Canceller, Ask(k)
        PROVE  DoneInv'
    BY <2>7 DEF Ask
  <2>8. ASSUME NEW k \in Canceller, Cancel(k)
        PROVE  DoneInv'
    <3>1. CASE Flag(k)
      BY <3>1 DEF Flag
    <3>2. CASE LookAtState(k)
      BY <3>2 DEF LookAtState
    <3>3. CASE MarkCancelled(k)
      BY <3>3 DEF MarkCancelled
    <3>4. CASE InterruptRunner(k)
      BY <3>4 DEF InterruptRunner
    <3>5. QED
      BY <2>8, <3>1, <3>2, <3>3, <3>4 DEF Cancel
  <2>9. ASSUME NEW w \in Writer, StartWrite(w) \/ Write(w)
        PROVE  DoneInv'
    BY <2>9 DEF StartWrite, Write, EnterWrite, EndWrite, WriterAt
  <2>10. CASE Shutdown
    BY <2>10 DEF Shutdown
  <2>11. QED
    BY <2>1, <2>2, <2>3, <2>4, <2>5, <2>6, <2>7, <2>8, <2>9, <2>10 DEF Next
<1>3. QED
  BY <1>1, <1>2, Typed, PTL DEF Spec

(* When its asyncio task is over, a task's record says how it ended, unless *)
(* a shutdown left it pending.                                             *)
THEOREM EveryEndIsRecorded == Spec => []DoneIsTerminal
<1>1. DoneInv => DoneIsTerminal
  BY DEF DoneInv
<1>2. QED
  BY <1>1, DoneInvHolds, PTL

(* A rebuild that has dropped or recreated the tables either still holds    *)
(* the mutex or has ended by itself; no task is handed to the pool twice.  *)
RebuildInv ==
    /\ \A t \in Task : worker[t] \in Rebuilding => lock = t
    /\ \A w \in Writer : writer[w] = "holding" => lock = w
    /\ \A t \in Task : runner[t] \in {"none", "scheduled"} => worker[t] = "none"
    /\ tables # "full" =>
          \E t \in Task : worker[t] \in {"wiped", "recreated", "raised", "bailed"}

(* RebuildInv is preserved: an interrupted task leaves its worker running.  *)
LEMMA RebuildInvHolds == Spec => []RebuildInv
<1> USE SchedulerAssumption DEF RebuildInv, TypeOK, TargetInv, TERMINAL_STATES, Rebuilding, WorkerDone, Cancelled,
            loopVars, recordVars, cancelVars
<1>1. Init => RebuildInv
  BY DEF Init
<1>2. TypeOK /\ TargetInv /\ EarlyInv /\ RebuildInv /\ [Next]_vars => RebuildInv'
  <2> SUFFICES ASSUME TypeOK, TargetInv, EarlyInv, RebuildInv, [Next]_vars
               PROVE  RebuildInv'
    OBVIOUS
  <2>1. CASE UNCHANGED vars
    BY <2>1 DEF vars
  <2>2. ASSUME NEW t \in Task, Enqueue(t)
        PROVE  RebuildInv'
    BY <2>2 DEF Enqueue, EarlyInv
  <2>3. ASSUME NEW t \in Task, Loop(t)
        PROVE  RebuildInv'
    <3>1. CASE Start(t)
      BY <3>1 DEF Start
    <3>2. CASE NeverStart(t)
      BY <3>2 DEF NeverStart
    <3>3. CASE Interrupt(t)
      BY <3>3 DEF Interrupt, Settle
    <3>4. CASE Finish(t)
      BY <3>4 DEF Finish, Settle
    <3>5. QED
      BY <2>3, <3>1, <3>2, <3>3, <3>4 DEF Loop
  <2>4. ASSUME NEW t \in Task, Collect(t)
        PROVE  RebuildInv'
    BY <2>4 DEF Collect
  <2>5. ASSUME NEW t \in Task, Work(t)
        PROVE  RebuildInv'
    BY <2>5 DEF Work, Dispatch, Acquire, Bail, Wipe, Recreate, Rebuild, Raise, WorkerAt
  <2>6. ASSUME NEW k \in Canceller, CancelAtOnce(k)
        PROVE  RebuildInv'
    BY <2>6 DEF CancelAtOnce
  <2>7. ASSUME NEW k \in Canceller, Ask(k)
        PROVE  RebuildInv'
    BY <2>7 DEF Ask
  <2>8. ASSUME NEW k \in Canceller, Cancel(k)
        PROVE  RebuildInv'
    <3>1. CASE Flag(k)
      BY <3>1 DEF Flag
    <3>2. CASE LookAtState(k)
      BY <3>2 DEF LookAtState
    <3>3. CASE MarkCancelled(k)
      BY <3>3 DEF MarkCancelled
    <3>4. CASE InterruptRunner(k)
      BY <3>4 DEF InterruptRunner
    <3>5. QED
      BY <2>8, <3>1, <3>2, <3>3, <3>4 DEF Cancel
  <2>9. ASSUME NEW w \in Writer, StartWrite(w) \/ Write(w)
        PROVE  RebuildInv'
    BY <2>9 DEF StartWrite, Write, EnterWrite, EndWrite, WriterAt
  <2>10. CASE Shutdown
    BY <2>10 DEF Shutdown
  <2>11. QED
    BY <2>1, <2>2, <2>3, <2>4, <2>5, <2>6, <2>7, <2>8, <2>9, <2>10 DEF Next
<1>3. QED
  BY <1>1, <1>2, Typed, EarlyInvHolds, PTL DEF Spec

(* Tables that are missing or empty while the mutex is free are the work of *)
(* a rebuild that raised or bailed out, never of an interrupted task.      *)
THEOREM RebuildsFinish == Spec => []NoHalfState
<1>1. TypeOK /\ RebuildInv => NoHalfState
  BY SchedulerAssumption DEF TypeOK, RebuildInv, Rebuilding, NoHalfState
<1>2. QED
  BY <1>1, RebuildInvHolds, TypeCorrect, PTL

(* What the contract buys a task that is cancelled from the loop thread    *)
(* only: its record says what its asyncio task is doing, whatever pool     *)
(* threads do to other tasks.                                              *)
ContractInv ==
    /\ \A k \in OnLoop : canceller[k] \in {"idle", "toldPending", "toldRunning"}
    /\ \A t \in Task : KeptToLoop(t) =>
          /\ runner[t] = "scheduled" /\ t \notin interrupted => state[t] = "pending"
          /\ runner[t] = "awaiting" => state[t] = "running"
    /\ CancelIsAuthoritative

(* ContractInv is preserved.                                               *)
LEMMA ContractInvHolds == Spec => []ContractInv
<1> USE SchedulerAssumption DEF ContractInv, KeptToLoop, CancelIsAuthoritative, TypeOK, TargetInv, TERMINAL_STATES, Rebuilding, WorkerDone, Cancelled,
            loopVars, recordVars, cancelVars
<1>1. Init => ContractInv
  BY DEF Init
<1>2. TypeOK /\ TargetInv /\ ContractInv /\ [Next]_vars => ContractInv'
  <2> SUFFICES ASSUME TypeOK, TargetInv, ContractInv, [Next]_vars
               PROVE  ContractInv'
    OBVIOUS
  <2>1. CASE UNCHANGED vars
    BY <2>1 DEF vars
  <2>2. ASSUME NEW t \in Task, Enqueue(t)
        PROVE  ContractInv'
    BY <2>2 DEF Enqueue
  <2>3. ASSUME NEW t \in Task, Loop(t)
        PROVE  ContractInv'
    <3>1. CASE Start(t)
      BY <3>1 DEF Start
    <3>2. CASE NeverStart(t)
      BY <3>2 DEF NeverStart
    <3>3. CASE Interrupt(t)
      BY <3>3 DEF Interrupt, Settle
    <3>4. CASE Finish(t)
      BY <3>4 DEF Finish, Settle
    <3>5. QED
      BY <2>3, <3>1, <3>2, <3>3, <3>4 DEF Loop
  <2>4. ASSUME NEW t \in Task, Collect(t)
        PROVE  ContractInv'
    BY <2>4 DEF Collect
  <2>5. ASSUME NEW t \in Task, Work(t)
        PROVE  ContractInv'
    BY <2>5 DEF Work, Dispatch, Acquire, Bail, Wipe, Recreate, Rebuild, Raise, WorkerAt
  <2>6. ASSUME NEW k \in Canceller, CancelAtOnce(k)
        PROVE  ContractInv'
    BY <2>6 DEF CancelAtOnce
  <2>7. ASSUME NEW k \in Canceller, Ask(k)
        PROVE  ContractInv'
    BY <2>7 DEF Ask
  <2>8. ASSUME NEW k \in Canceller, Cancel(k)
        PROVE  ContractInv'
    <3>1. CASE Flag(k)
      BY <3>1 DEF Flag
    <3>2. CASE LookAtState(k)
      BY <3>2 DEF LookAtState
    <3>3. CASE MarkCancelled(k)
      BY <3>3 DEF MarkCancelled
    <3>4. CASE InterruptRunner(k)
      BY <3>4 DEF InterruptRunner
    <3>5. QED
      BY <2>8, <3>1, <3>2, <3>3, <3>4 DEF Cancel
  <2>9. ASSUME NEW w \in Writer, StartWrite(w) \/ Write(w)
        PROVE  ContractInv'
    BY <2>9 DEF StartWrite, Write, EnterWrite, EndWrite, WriterAt
  <2>10. CASE Shutdown
    BY <2>10 DEF Shutdown
  <2>11. QED
    BY <2>1, <2>2, <2>3, <2>4, <2>5, <2>6, <2>7, <2>8, <2>9, <2>10 DEF Next
<1>3. QED
  BY <1>1, <1>2, Typed, PTL DEF Spec

(* A task that is cancelled from the loop thread only, and was asked to    *)
(* stop, is never reported as succeeded, whatever pool threads do to others *)
THEOREM ContractMakesCancelAuthoritative ==
  Spec => []CancelIsAuthoritative
<1>1. ContractInv => CancelIsAuthoritative
  BY DEF ContractInv
<1>2. QED
  BY <1>1, ContractInvHolds, PTL

(* No step moves a task that is cancelled from the loop thread only out of *)
(* a terminal state: the property that a cancel on a pool thread loses.    *)
THEOREM ContractMakesStatesFinal ==
  Spec => FinalIfKeptToLoop
<1> DEFINE Final == \A t \in Task : state[t] \in TERMINAL_STATES /\ KeptToLoop(t) => state'[t] = state[t]
<1> USE SchedulerAssumption DEF ContractInv, KeptToLoop, TypeOK, TargetInv, TERMINAL_STATES, Rebuilding, WorkerDone, Cancelled,
            loopVars, recordVars, cancelVars
<1>1. TypeOK /\ TargetInv /\ ContractInv /\ [Next]_vars => [Final]_vars
  <2> SUFFICES ASSUME TypeOK, TargetInv, ContractInv, Next
               PROVE  Final
    BY DEF vars
  <2>1. ASSUME NEW t \in Task, Enqueue(t)
        PROVE  Final
    BY <2>1 DEF Enqueue
  <2>2. ASSUME NEW t \in Task, Loop(t)
        PROVE  Final
    <3>1. CASE Start(t)
      BY <3>1 DEF Start
    <3>2. CASE NeverStart(t)
      BY <3>2 DEF NeverStart
    <3>3. CASE Interrupt(t)
      BY <3>3 DEF Interrupt, Settle
    <3>4. CASE Finish(t)
      BY <3>4 DEF Finish, Settle
    <3>5. QED
      BY <2>2, <3>1, <3>2, <3>3, <3>4 DEF Loop
  <2>3. ASSUME NEW t \in Task, Collect(t)
        PROVE  Final
    BY <2>3 DEF Collect
  <2>4. ASSUME NEW t \in Task, Work(t)
        PROVE  Final
    BY <2>4 DEF Work, Dispatch, Acquire, Bail, Wipe, Recreate, Rebuild, Raise, WorkerAt
  <2>5. ASSUME NEW k \in Canceller, CancelAtOnce(k)
        PROVE  Final
    BY <2>5 DEF CancelAtOnce
  <2>6. ASSUME NEW k \in Canceller, Ask(k)
        PROVE  Final
    BY <2>6 DEF Ask
  <2>7. ASSUME NEW k \in Canceller, Cancel(k)
        PROVE  Final
    <3>1. CASE Flag(k)
      BY <3>1 DEF Flag
    <3>2. CASE LookAtState(k)
      BY <3>2 DEF LookAtState
    <3>3. CASE MarkCancelled(k)
      BY <3>3 DEF MarkCancelled
    <3>4. CASE InterruptRunner(k)
      BY <3>4 DEF InterruptRunner
    <3>5. QED
      BY <2>7, <3>1, <3>2, <3>3, <3>4 DEF Cancel
  <2>8. ASSUME NEW w \in Writer, StartWrite(w) \/ Write(w)
        PROVE  Final
    BY <2>8 DEF StartWrite, Write, EnterWrite, EndWrite, WriterAt
  <2>9. CASE Shutdown
    BY <2>9 DEF Shutdown
  <2>10. QED
    BY <2>1, <2>2, <2>3, <2>4, <2>5, <2>6, <2>7, <2>8, <2>9 DEF Next
<1>2. QED
  BY <1>1, Typed, ContractInvHolds, PTL DEF Spec, FinalIfKeptToLoop

(* Whoever holds the mutex is in the middle of its section.                *)
HolderInv ==
    lock # None => \/ lock \in Task /\ worker[lock] \in Rebuilding
                   \/ lock \in Writer /\ writer[lock] = "holding"

(* The pool is never asked for more threads than it has, and whoever holds *)
(* the mutex has one of them.                                              *)
PoolIsNotExhausted ==
    /\ IsFiniteSet(Busy) /\ Cardinality(Busy) <= PoolSize
    /\ lock # None => lock \in Busy

(* HolderInv is preserved: an interrupt takes the work from a queue, never *)
(* from a thread.                                                          *)
LEMMA HolderInvHolds == Spec => []HolderInv
<1> USE SchedulerAssumption DEF HolderInv, TypeOK, TargetInv, TERMINAL_STATES, Rebuilding, WorkerDone, Cancelled,
            loopVars, recordVars, cancelVars
<1>1. Init => HolderInv
  BY DEF Init
<1>2. TypeOK /\ TargetInv /\ RebuildInv /\ HolderInv /\ [Next]_vars => HolderInv'
  <2> SUFFICES ASSUME TypeOK, TargetInv, RebuildInv, HolderInv, [Next]_vars
               PROVE  HolderInv'
    OBVIOUS
  <2>1. CASE UNCHANGED vars
    BY <2>1 DEF vars
  <2>2. ASSUME NEW t \in Task, Enqueue(t) \/ Collect(t)
        PROVE  HolderInv'
    BY <2>2 DEF Enqueue, Collect
  <2>3. ASSUME NEW t \in Task, Loop(t)
        PROVE  HolderInv'
    <3>1. CASE Start(t)
      <4>1. worker[t] = "none"
        BY <3>1 DEF Start, RebuildInv
      <4>2. QED
        BY <3>1, <4>1 DEF Start
    <3>2. CASE NeverStart(t)
      BY <3>2 DEF NeverStart
    <3>3. CASE Interrupt(t)
      BY <3>3 DEF Interrupt, Settle
    <3>4. CASE Finish(t)
      BY <3>4 DEF Finish, Settle
    <3>5. QED
      BY <2>3, <3>1, <3>2, <3>3, <3>4 DEF Loop
  <2>4. ASSUME NEW t \in Task, Work(t)
        PROVE  HolderInv'
    BY <2>4 DEF Work, Dispatch, Acquire, Bail, Wipe, Recreate, Rebuild, Raise, WorkerAt
  <2>5. ASSUME NEW k \in Canceller, CancelAtOnce(k) \/ Ask(k)
        PROVE  HolderInv'
    BY <2>5 DEF CancelAtOnce, Ask
  <2>6. ASSUME NEW k \in Canceller, Cancel(k)
        PROVE  HolderInv'
    BY <2>6 DEF Cancel, Flag, LookAtState, MarkCancelled, InterruptRunner
  <2>7. ASSUME NEW w \in Writer, StartWrite(w) \/ Write(w)
        PROVE  HolderInv'
    BY <2>7 DEF StartWrite, Write, EnterWrite, EndWrite, WriterAt
  <2>8. CASE Shutdown
    BY <2>8 DEF Shutdown
  <2>9. QED
    BY <2>1, <2>2, <2>3, <2>4, <2>5, <2>6, <2>7, <2>8 DEF Next
<1>3. QED
  BY <1>1, <1>2, Typed, RebuildInvHolds, PTL DEF Spec

(* A step takes at most one more thread, and only when one is free.        *)
LEMMA OneThreadAtATime ==
  ASSUME TypeOK, RebuildInv, [Next]_vars
  PROVE  \/ Busy' \subseteq Busy
         \/ ThreadFree /\ \E x : Busy' \subseteq Busy \cup {x}
<1> USE DEF Busy, TypeOK, Rebuilding, WorkerDone, Cancelled, loopVars, recordVars, cancelVars
<1> DEFINE Goal == \/ Busy' \subseteq Busy
                   \/ ThreadFree /\ \E x : Busy' \subseteq Busy \cup {x}
<1>1. CASE UNCHANGED vars
  BY <1>1 DEF vars
<1>2. ASSUME NEW t \in Task, Enqueue(t) \/ Collect(t)
      PROVE  Goal
  BY <1>2 DEF Enqueue, Collect
<1>3. ASSUME NEW t \in Task, Loop(t)
      PROVE  Goal
  <2>1. CASE Start(t)
    BY <2>1 DEF Start
  <2>2. CASE NeverStart(t)
    BY <2>2 DEF NeverStart
  <2>3. CASE Interrupt(t)
    BY <2>3 DEF Interrupt, Settle
  <2>4. CASE Finish(t)
    BY <2>4 DEF Finish, Settle
  <2>5. QED
    BY <1>3, <2>1, <2>2, <2>3, <2>4 DEF Loop
<1>4. ASSUME NEW t \in Task, Work(t)
      PROVE  Goal
  <2>1. CASE Dispatch(t)
    <3>1. ThreadFree /\ Busy' \subseteq Busy \cup {t}
      BY <2>1 DEF Dispatch, WorkerAt
    <3>2. QED
      BY <3>1
  <2>2. CASE ~Dispatch(t)
    <3>1. Busy' \subseteq Busy
      BY <1>4, <2>2 DEF Work, Acquire, Bail, Wipe, Recreate, Rebuild, Raise, WorkerAt
    <3>2. QED
      BY <3>1
  <2>3. QED
    BY <2>1, <2>2
<1>5. ASSUME NEW k \in Canceller, CancelAtOnce(k)
      PROVE  Goal
  BY <1>5 DEF CancelAtOnce
<1>6. ASSUME NEW k \in Canceller, Ask(k)
      PROVE  Goal
  <2>1. ThreadFree /\ Busy' \subseteq Busy \cup {k}
    BY <1>6 DEF Ask
  <2>2. QED
    BY <2>1
<1>7. ASSUME NEW k \in Canceller, Cancel(k)
      PROVE  Goal
  <2>1. Busy' \subseteq Busy
    BY <1>7 DEF Cancel, Flag, LookAtState, MarkCancelled, InterruptRunner
  <2>2. QED
    BY <2>1
<1>8. ASSUME NEW w \in Writer, StartWrite(w)
      PROVE  Goal
  <2>1. ThreadFree /\ Busy' \subseteq Busy \cup {w}
    BY <1>8 DEF StartWrite, WriterAt
  <2>2. QED
    BY <2>1
<1>9. ASSUME NEW w \in Writer, Write(w)
      PROVE  Goal
  BY <1>9 DEF Write, EnterWrite, EndWrite, WriterAt
<1>10. CASE Shutdown
  BY <1>10 DEF Shutdown
<1>11. QED
  BY <1>1, <1>2, <1>3, <1>4, <1>5, <1>6, <1>7, <1>8, <1>9, <1>10 DEF Next

(* Threads that wait for the mutex cannot starve the thread that holds it: *)
(* reindex_all, task_cancel and the write tools share one pool, and a full *)
(* pool always contains somebody whose next step waits for nobody.         *)
THEOREM PoolHasAThreadForTheHolder == Spec => []PoolIsNotExhausted
<1> DEFINE Bounded == IsFiniteSet(Busy) /\ Cardinality(Busy) <= PoolSize
<1>1. Init => Bounded
  <2> SUFFICES ASSUME Init
               PROVE  Bounded
    OBVIOUS
  <2>1. Busy = {}
    BY DEF Init, Busy, Rebuilding
  <2>2. QED
    BY <2>1, FS_EmptySet, SchedulerAssumption
<1>2. TypeOK /\ RebuildInv /\ Bounded /\ [Next]_vars => Bounded'
  <2> SUFFICES ASSUME TypeOK, RebuildInv, Bounded, [Next]_vars
               PROVE  IsFiniteSet(Busy') /\ Cardinality(Busy') <= PoolSize
    OBVIOUS
  <2>1. Cardinality(Busy) \in Nat /\ PoolSize \in Nat
    BY FS_CardinalityType, SchedulerAssumption
  <2>2. CASE Busy' \subseteq Busy
    <3>1. IsFiniteSet(Busy') /\ Cardinality(Busy') <= Cardinality(Busy)
      BY <2>2, FS_Subset
    <3>2. Cardinality(Busy') \in Nat
      BY <3>1, FS_CardinalityType
    <3>3. QED
      BY <2>1, <3>1, <3>2
  <2>3. ASSUME ThreadFree, NEW x, Busy' \subseteq Busy \cup {x}
        PROVE  IsFiniteSet(Busy') /\ Cardinality(Busy') <= PoolSize
    <3>1. /\ IsFiniteSet(Busy \cup {x})
          /\ Cardinality(Busy \cup {x}) <= Cardinality(Busy) + 1
      <4>1. /\ IsFiniteSet(Busy \cup {x})
            /\ Cardinality(Busy \cup {x}) =
                 IF x \in Busy THEN Cardinality(Busy) ELSE Cardinality(Busy) + 1
        BY FS_AddElement
      <4>2. QED
        BY <2>1, <4>1
    <3>2. IsFiniteSet(Busy') /\ Cardinality(Busy') <= Cardinality(Busy \cup {x})
      BY <2>3, <3>1, FS_Subset
    <3>3. Cardinality(Busy') \in Nat /\ Cardinality(Busy \cup {x}) \in Nat
      BY <3>1, <3>2, FS_CardinalityType
    <3>4. QED
      BY <2>1, <2>3, <3>1, <3>2, <3>3 DEF ThreadFree
  <2>4. QED
    BY <2>2, <2>3, OneThreadAtATime
<1>3. TypeOK /\ HolderInv /\ Bounded => PoolIsNotExhausted
  BY SchedulerAssumption DEF TypeOK, HolderInv, Busy, PoolIsNotExhausted
<1>4. QED
  BY <1>1, <1>2, <1>3, TypeCorrect, RebuildInvHolds, HolderInvHolds, PTL DEF Spec
=============================================================================
