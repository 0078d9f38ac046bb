---------------------------- MODULE AppResources -----------------------------
(***************************************************************************)
(* The state all handler threads share (app.py, App): the corpus mutex,    *)
(* the connection and the embedder, built on first use under a lock of     *)
(* their own with a check before and a check after it, and the last_*      *)
(* fields, which a pass writes and a status call reads under _obs_lock.    *)
(* One action per statement that another thread can come between.          *)
(***************************************************************************)
EXTENDS CorpusMutex, Sequences

CONSTANTS
    Resource,   \* db() and embedder()
    User,       \* threads that ask for a resource
    Reader,     \* threads that assemble a status payload
    MaxUses, MaxRuns   \* bounds, for TLC only

ASSUME AppAssumption ==
    /\ None \notin User \cup Reader
    /\ Thread \cap Reader = {}
    /\ MaxUses \in Nat /\ MaxRuns \in Nat

\* The last_* fields, in the order of the assignments: run_at, run_duration,
\* result, fts_status, vector_status.
Field == 1..5
\* Those that a pass which changed no page leaves as they are.
IndexField == {4, 5}

VARIABLES
    object,    \* the connection or embedder, as its number; 0 is None
    made,      \* how many objects of each kind were ever constructed
    initLock,  \* who holds each init lock
    upc, want, got,   \* where a user is, what it asked for, what it was given
    uses,
    last,      \* the last_* fields, as the number of the run they came from
    obsLock,   \* who holds _obs_lock
    rec,       \* the field a pass records next; 0: it is not recording
    fresh,     \* whether the recording pass refreshed the indexes
    history,   \* for each run, the run that last refreshed the indexes by then
    rpc,       \* the field a status call reads next; 0: it is not reading
    seen       \* what it has read

resourceVars == <<object, made, initLock, upc, want, got, uses>>
statusVars == <<last, obsLock, rec, fresh, history, rpc, seen>>
appVars == <<vars, resourceVars, statusVars>>

NoFields == [f \in Field |-> 0]

AppTypeOK ==
    /\ object \in [Resource -> Nat]
    /\ made \in [Resource -> Nat]
    /\ initLock \in [Resource -> User \cup {None}]
    /\ upc \in [User -> {"idle", "looking", "waiting", "locked", "building", "leaving", "given"}]
    /\ want \in [User -> Resource]
    /\ got \in [User -> Nat]
    /\ uses \in Nat
    /\ last \in [Field -> Nat]
    /\ obsLock \in Thread \cup Reader \cup {None}
    /\ rec \in [Thread -> 0..6]
    /\ fresh \in [Thread -> BOOLEAN]
    /\ history \in Seq(Nat)
    /\ rpc \in [Reader -> 0..6]
    /\ seen \in [Reader -> [Field -> Nat]]

AppInit ==
    /\ Init
    /\ object = [x \in Resource |-> 0]
    /\ made = [x \in Resource |-> 0]
    /\ initLock = [x \in Resource |-> None]
    /\ upc = [u \in User |-> "idle"]
    /\ want \in [User -> Resource]
    /\ got = [u \in User |-> 0]
    /\ uses = 0
    /\ last = NoFields
    /\ obsLock = None
    /\ rec = [t \in Thread |-> 0]
    /\ fresh = [t \in Thread |-> FALSE]
    /\ history = <<>>
    /\ rpc = [r \in Reader |-> 0]
    /\ seen = [r \in Reader |-> NoFields]

-----------------------------------------------------------------------------
(* db() and embedder()                                                      *)

UserGoto(u, where) == upc' = [upc EXCEPT ![u] = where]

Ask(u, x) ==
    /\ upc[u] = "idle"
    /\ uses < MaxUses
    /\ uses' = uses + 1
    /\ want' = [want EXCEPT ![u] = x]
    /\ UserGoto(u, "looking")
    /\ UNCHANGED <<object, made, initLock, got>>

\* `if self._db is not None: return self._db`.
Look(u) ==
    /\ upc[u] = "looking"
    /\ UserGoto(u, IF object[want[u]] # 0 THEN "given" ELSE "waiting")
    /\ got' = [got EXCEPT ![u] = object[want[u]]]
    /\ UNCHANGED <<object, made, initLock, want, uses>>

LockInit(u) ==
    /\ upc[u] = "waiting"
    /\ initLock[want[u]] = None
    /\ initLock' = [initLock EXCEPT ![want[u]] = u]
    /\ UserGoto(u, "locked")
    /\ UNCHANGED <<object, made, want, got, uses>>

\* Mutant: the thread that waited builds without looking again.
BuildAnyway(u) ==
    /\ upc[u] = "locked"
    /\ UserGoto(u, "building")
    /\ UNCHANGED <<object, made, initLock, want, got, uses>>

\* The second check.
LookAgain(u) ==
    /\ upc[u] = "locked"
    /\ UserGoto(u, IF object[want[u]] = 0 THEN "building" ELSE "leaving")
    /\ UNCHANGED <<object, made, initLock, want, got, uses>>

Build(u) ==
    /\ upc[u] = "building"
    /\ made' = [made EXCEPT ![want[u]] = made[want[u]] + 1]
    /\ object' = [object EXCEPT ![want[u]] = made[want[u]] + 1]
    /\ UserGoto(u, "leaving")
    /\ UNCHANGED <<initLock, want, got, uses>>

\* Mutant: a failed construction leaves what it was given behind.
BuildFailsStored(u) ==
    /\ upc[u] = "building"
    /\ object' = [object EXCEPT ![want[u]] = None]
    /\ initLock' = [initLock EXCEPT ![want[u]] = None]
    /\ UserGoto(u, "idle")
    /\ UNCHANGED <<made, want, got, uses>>

\* Mutant: the lock is taken and given back by hand, without a finally.
BuildFailsLocked(u) ==
    /\ upc[u] = "building"
    /\ UserGoto(u, "idle")
    /\ UNCHANGED <<object, made, initLock, want, got, uses>>

\* No Smalt directory yet, or the model cannot be loaded: the next user tries.
BuildFails(u) ==
    /\ upc[u] = "building"
    /\ initLock' = [initLock EXCEPT ![want[u]] = None]
    /\ UserGoto(u, "idle")
    /\ UNCHANGED <<object, made, want, got, uses>>

\* Out of the `with`, and `return self._db`.
Unlock(u) ==
    /\ upc[u] = "leaving"
    /\ initLock' = [initLock EXCEPT ![want[u]] = None]
    /\ got' = [got EXCEPT ![u] = object[want[u]]]
    /\ UserGoto(u, "given")
    /\ UNCHANGED <<object, made, want, uses>>

Done(u) ==
    /\ upc[u] = "given"
    /\ got' = [got EXCEPT ![u] = 0]
    /\ UserGoto(u, "idle")
    /\ UNCHANGED <<object, made, initLock, want, uses>>

Use(u) ==
    \/ Look(u) \/ LockInit(u) \/ LookAgain(u) \/ Build(u) \/ BuildFails(u)
    \/ Unlock(u) \/ Done(u)

-----------------------------------------------------------------------------
(* record_indexer_run, inside the section whose pass has ended              *)

\* The last run that refreshed the indexes, before the one being recorded.
LastRefresh == IF history = <<>> THEN 0 ELSE history[Len(history)]

BeginRecord(t) ==
    /\ pc[t] = "section"
    /\ rec[t] = 0
    /\ Len(history) < MaxRuns
    /\ obsLock = None
    /\ obsLock' = t
    /\ \E b \in BOOLEAN :
          /\ fresh' = [fresh EXCEPT ![t] = b]
          /\ history' = Append(history, IF b THEN Len(history) + 1 ELSE LastRefresh)
    /\ rec' = [rec EXCEPT ![t] = 1]
    /\ UNCHANGED <<last, rpc, seen>>

\* Mutant: a pass that refreshed nothing stores its (empty) statuses as well.
RecordEveryField(t) ==
    /\ rec[t] \in Field
    /\ last' = [last EXCEPT ![rec[t]] = Len(history)]
    /\ rec' = [rec EXCEPT ![t] = rec[t] + 1]
    /\ UNCHANGED <<obsLock, fresh, history, rpc, seen>>

RecordField(t) ==
    /\ rec[t] \in Field
    /\ last' = IF rec[t] \in IndexField /\ ~fresh[t]
               THEN last ELSE [last EXCEPT ![rec[t]] = Len(history)]
    /\ rec' = [rec EXCEPT ![t] = rec[t] + 1]
    /\ UNCHANGED <<obsLock, fresh, history, rpc, seen>>

EndRecord(t) ==
    /\ rec[t] = 6
    /\ rec' = [rec EXCEPT ![t] = 0]
    /\ obsLock' = None
    /\ UNCHANGED <<last, fresh, history, rpc, seen>>

-----------------------------------------------------------------------------
(* index_status_payload                                                     *)

\* Mutant: the fields are read without the lock.
SnapshotUnlocked(r) ==
    /\ rpc[r] = 0
    /\ rpc' = [rpc EXCEPT ![r] = 1]
    /\ UNCHANGED <<last, obsLock, rec, fresh, history, seen>>

BeginSnapshot(r) ==
    /\ rpc[r] = 0
    /\ obsLock = None
    /\ obsLock' = r
    /\ rpc' = [rpc EXCEPT ![r] = 1]
    /\ UNCHANGED <<last, rec, fresh, history, seen>>

ReadField(r) ==
    /\ rpc[r] \in Field
    /\ seen' = [seen EXCEPT ![r] = [seen[r] EXCEPT ![rpc[r]] = last[rpc[r]]]]
    /\ rpc' = [rpc EXCEPT ![r] = rpc[r] + 1]
    /\ UNCHANGED <<last, obsLock, rec, fresh, history>>

\* The lock is left and the payload returned; what is read in between is not
\* part of the snapshot.
Reply(r) ==
    /\ rpc[r] = 6
    /\ rpc' = [rpc EXCEPT ![r] = 0]
    /\ obsLock' = IF obsLock = r THEN None ELSE obsLock
    /\ seen' = [seen EXCEPT ![r] = NoFields]
    /\ UNCHANGED <<last, rec, fresh, history>>

-----------------------------------------------------------------------------
\* A section that is recording does not end.
MutexStep(t) ==
    /\ Call(t) \/ Enter(t) \/ (rec[t] = 0 /\ Leave(t))
    /\ UNCHANGED <<resourceVars, statusVars>>
UserStep(u) ==
    /\ Use(u) \/ \E x \in Resource : Ask(u, x)
    /\ UNCHANGED <<vars, statusVars>>
Record(t) == RecordField(t) \/ EndRecord(t)
RecordStep(t) ==
    /\ BeginRecord(t) \/ Record(t)
    /\ UNCHANGED <<vars, resourceVars>>
Snapshot(r) == ReadField(r) \/ Reply(r)
ReadStep(r) ==
    /\ BeginSnapshot(r) \/ Snapshot(r)
    /\ UNCHANGED <<vars, resourceVars>>

AppNext ==
    \/ \E t \in Thread : MutexStep(t) \/ RecordStep(t)
    \/ \E u \in User : UserStep(u)
    \/ \E r \in Reader : ReadStep(r)

AppSpec == AppInit /\ [][AppNext]_appVars

\* A thread that is scheduled keeps running and every section ends, each one a
\* finite piece of file and table work.  The blocks under _obs_lock and the init
\* locks are finite and wait for nothing.  Nothing is assumed of which waiter a
\* lock admits, and no pass need be recorded.
AppFairness ==
    /\ \A t \in Thread : WF_appVars(Enter(t) /\ UNCHANGED <<resourceVars, statusVars>>)
    /\ \A t \in Thread : WF_appVars(rec[t] = 0 /\ Leave(t) /\ UNCHANGED <<resourceVars, statusVars>>)
    /\ \A t \in Thread : WF_appVars(Record(t) /\ UNCHANGED <<vars, resourceVars>>)
    /\ \A u \in User : WF_appVars(Use(u) /\ UNCHANGED <<vars, statusVars>>)

AppFairSpec == AppSpec /\ AppFairness

-----------------------------------------------------------------------------
(* Properties                                                               *)

\* However many threads meet at the first use, one connection and one embedder
\* are made, and nobody is given None or another object.
BuiltOnce ==
    /\ \A x \in Resource : made[x] <= 1
    /\ \A u \in User : upc[u] = "given" => got[u] = 1 /\ object[want[u]] = 1

\* "Some fields are from indexer run N and others from N+1" never shows in a
\* status reply: the run fields are of one run, and the index fields of the last
\* run up to it that refreshed the indexes.
SnapshotIsOneRun ==
    \A r \in Reader : rpc[r] = 6 =>
        LET s == seen[r] IN
        /\ s[1] = s[2] /\ s[2] = s[3] /\ s[1] <= Len(history)
        /\ \A f \in IndexField : s[f] = IF s[1] = 0 THEN 0 ELSE history[s[1]]

\* No lock is kept, also when a construction raises or a section is left by an
\* error: whoever has an init lock or the corpus mutex gives it back.
LocksAreGivenBack ==
    /\ \A t \in Thread : lock = t ~> lock # t
    /\ \A u \in User, x \in Resource : initLock[x] = u ~> initLock[x] # u
=============================================================================
