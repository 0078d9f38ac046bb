------------------------- MODULE AppResourcesProofs --------------------------
(***************************************************************************)
(* For any threads, users, status calls and recorded passes: the corpus    *)
(* mutex keeps its promises inside the App, each resource is built once,   *)
(* and a status reply is of one run.                                       *)
(***************************************************************************)
EXTENDS AppResources, CorpusMutexProofs

(* The App runs the mutex of CorpusMutex: every other step leaves it alone.*)
THEOREM AppRunsMutex == AppSpec => Spec
<1>1. AppInit => Init
  BY DEF AppInit
<1>2. [AppNext]_appVars => [Next]_vars
  BY DEF AppNext, appVars, MutexStep, RecordStep, UserStep, ReadStep, Next
<1>3. QED
  BY <1>1, <1>2, PTL DEF AppSpec, Spec

(* Hence the App's writers exclude one another, and the holder a status    *)
(* call reads is the section that is open.                                 *)
THEOREM AppWritersExclude == AppSpec => [](MutualExclusion /\ HolderNamesOpenSection)
BY AppRunsMutex, MutexExcludes, HolderIsTruthful, PTL

-----------------------------------------------------------------------------
(* Types                                                                    *)

(* Every variable of the App has its type in every reachable state.        *)
THEOREM AppTypeCorrect == AppSpec => []AppTypeOK
<1>1. AppInit => AppTypeOK
  BY DEF AppInit, AppTypeOK, NoFields, Field
<1>2. AppTypeOK /\ [AppNext]_appVars => AppTypeOK'
  <2> SUFFICES ASSUME AppTypeOK, [AppNext]_appVars
               PROVE  AppTypeOK'
    OBVIOUS
  <2> USE DEF AppTypeOK
  <2>1. CASE UNCHANGED appVars
    BY <2>1 DEF appVars, resourceVars, statusVars
  <2>2. ASSUME NEW t \in Thread, MutexStep(t)
        PROVE  AppTypeOK'
    BY <2>2 DEF MutexStep, resourceVars, statusVars
  <2>3. ASSUME NEW u \in User, UserStep(u)
        PROVE  AppTypeOK'
    <3> USE <2>3 DEF statusVars, UserGoto
    <3>1. ASSUME NEW x \in Resource, Ask(u, x)
          PROVE  AppTypeOK'
      BY <3>1 DEF UserStep, Ask
    <3>2. CASE Look(u)
      BY <3>2 DEF UserStep, Look
    <3>3. CASE LockInit(u)
      BY <3>3 DEF UserStep, LockInit
    <3>4. CASE LookAgain(u)
      BY <3>4 DEF UserStep, LookAgain
    <3>5. CASE Build(u)
      BY <3>5 DEF UserStep, Build
    <3>6. CASE BuildFails(u)
      BY <3>6 DEF UserStep, BuildFails
    <3>7. CASE Unlock(u)
      BY <3>7 DEF UserStep, Unlock
    <3>8. CASE Done(u)
      BY <3>8 DEF UserStep, Done
    <3>9. QED
      BY <2>3, <3>1, <3>2, <3>3, <3>4, <3>5, <3>6, <3>7, <3>8 DEF UserStep, Use
  <2>4. ASSUME NEW t \in Thread, RecordStep(t)
        PROVE  AppTypeOK'
    <3> USE <2>4 DEF RecordStep, resourceVars
    <3>1. CASE BeginRecord(t)
      <4>1. LastRefresh \in Nat
        BY DEF LastRefresh
      <4>2. PICK b \in BOOLEAN :
              /\ fresh' = [fresh EXCEPT ![t] = b]
              /\ history' = Append(history, IF b THEN Len(history) + 1 ELSE LastRefresh)
        BY <3>1 DEF BeginRecord
      <4>3. history' \in Seq(Nat)
        BY <4>1, <4>2
      <4>4. fresh' \in [Thread -> BOOLEAN]
        BY <4>2
      <4>5. QED
        BY <3>1, <4>3, <4>4 DEF BeginRecord
    <3>2. CASE RecordField(t)
      <4>1. rec[t] \in Field /\ rec[t] + 1 \in 0..6
        BY <3>2 DEF RecordField, Field
      <4>2. last' \in [Field -> Nat]
        BY <3>2 DEF RecordField
      <4>3. rec' \in [Thread -> 0..6]
        BY <3>2, <4>1 DEF RecordField
      <4>4. QED
        BY <3>2, <4>2, <4>3 DEF RecordField
    <3>3. CASE EndRecord(t)
      BY <3>3 DEF EndRecord
    <3>4. QED
      BY <2>4, <3>1, <3>2, <3>3 DEF Record
  <2>5. ASSUME NEW r \in Reader, ReadStep(r)
        PROVE  AppTypeOK'
    <3> USE <2>5 DEF ReadStep, resourceVars
    <3>1. CASE BeginSnapshot(r)
      BY <3>1 DEF BeginSnapshot
    <3>2. CASE ReadField(r)
      <4>1. rpc[r] \in Field /\ rpc[r] + 1 \in 0..6
        BY <3>2 DEF ReadField, Field
      <4>2. [seen[r] EXCEPT ![rpc[r]] = last[rpc[r]]] \in [Field -> Nat]
        BY <4>1
      <4>3. seen' \in [Reader -> [Field -> Nat]]
        BY <3>2, <4>2 DEF ReadField
      <4>4. rpc' \in [Reader -> 0..6]
        BY <3>2, <4>1 DEF ReadField
      <4>5. QED
        BY <3>2, <4>3, <4>4 DEF ReadField
    <3>3. CASE Reply(r)
      BY <3>3 DEF Reply, NoFields
    <3>4. QED
      BY <2>5, <3>1, <3>2, <3>3 DEF Snapshot
  <2>6. QED
    BY <2>1, <2>2, <2>3, <2>4, <2>5 DEF AppNext
<1>3. QED
  BY <1>1, <1>2, PTL DEF AppSpec

-----------------------------------------------------------------------------
(* The resources                                                            *)

(* Whoever is past an init lock holds it, and sees what the second look    *)
(* saw; an object, once made, is the only one and stays.                   *)
BuildInv ==
    /\ \A x \in Resource : made[x] = object[x] /\ made[x] \in {0, 1}
    /\ \A u \in User :
          /\ upc[u] \in {"locked", "building", "leaving"} => initLock[want[u]] = u
          /\ upc[u] = "building" => object[want[u]] = 0
          /\ upc[u] = "leaving" => object[want[u]] = 1
          /\ upc[u] = "given" => got[u] = 1 /\ object[want[u]] = 1

(* However many threads meet at the first use, and however many            *)
(* constructions fail before, one object is made and everybody gets it.    *)
THEOREM ResourcesAreBuiltOnce == AppSpec => []BuiltOnce
<1>1. AppInit => BuildInv
  BY DEF AppInit, BuildInv
<1>2. AppTypeOK /\ BuildInv /\ [AppNext]_appVars => BuildInv'
  <2> SUFFICES ASSUME AppTypeOK, BuildInv, [AppNext]_appVars
               PROVE  BuildInv'
    OBVIOUS
  <2> USE AppAssumption DEF AppTypeOK, BuildInv
  <2>1. CASE UNCHANGED resourceVars
    BY <2>1 DEF resourceVars
  <2>2. ASSUME NEW u \in User, UserStep(u)
        PROVE  BuildInv'
    <3> USE <2>2 DEF UserGoto
    <3>1. ASSUME NEW x \in Resource, Ask(u, x)
          PROVE  BuildInv'
      BY <3>1 DEF Ask
    <3>2. CASE Look(u)
      BY <3>2 DEF Look
    <3>3. CASE LockInit(u)
      BY <3>3 DEF LockInit
    <3>4. CASE LookAgain(u)
      BY <3>4 DEF LookAgain
    <3>5. CASE Build(u)
      BY <3>5 DEF Build
    <3>6. CASE BuildFails(u)
      BY <3>6 DEF BuildFails
    <3>7. CASE Unlock(u)
      BY <3>7 DEF Unlock
    <3>8. CASE Done(u)
      BY <3>8 DEF Done
    <3>9. QED
      BY <2>2, <3>1, <3>2, <3>3, <3>4, <3>5, <3>6, <3>7, <3>8 DEF UserStep, Use
  <2>3. QED
    BY <2>1, <2>2 DEF AppNext, appVars, MutexStep, RecordStep, ReadStep
<1>3. AppTypeOK /\ BuildInv => BuiltOnce
  BY DEF BuildInv, BuiltOnce
<1>4. QED
  BY <1>1, <1>2, <1>3, AppTypeCorrect, PTL DEF AppSpec

-----------------------------------------------------------------------------
(* The status                                                               *)

(* The run that had last refreshed the indexes by run n.                   *)
RefreshedBy(n) == IF n = 0 THEN 0 ELSE history[n]

(* Field f is that of the last recorded run.                               *)
UpToRun(f) == last[f] = IF f \in IndexField THEN RefreshedBy(Len(history)) ELSE Len(history)

(* Field f, if it is an index field, is that of the run before.            *)
BeforeRun(f) == f \in IndexField => last[f] = RefreshedBy(Len(history) - 1)

(* What a recording thread has left behind and ahead of it.                *)
Recording(t) ==
    /\ Len(history) > 0
    /\ history[Len(history)] =
          IF fresh[t] THEN Len(history) ELSE RefreshedBy(Len(history) - 1)
    /\ \A f \in Field : IF f < rec[t] THEN UpToRun(f) ELSE BeforeRun(f)

(* Whoever records or reads the fields has _obs_lock; while nobody records,*)
(* every field is of the last run; what has been read is what is there.    *)
StatusInv ==
    /\ \A t \in Thread : rec[t] # 0 => obsLock = t
    /\ \A r \in Reader : rpc[r] # 0 => obsLock = r
    /\ \A t \in Thread : rec[t] # 0 => Recording(t)
    /\ (\A t \in Thread : rec[t] = 0) => \A f \in Field : UpToRun(f)
    /\ \A r \in Reader : \A f \in Field : f < rpc[r] => seen[r][f] = last[f]

(* A status call has the lock to itself.                                   *)
LEMMA ReaderIsAlone ==
  ASSUME StatusInv, NEW r \in Reader, rpc[r] # 0 \/ obsLock = None
  PROVE  /\ \A t \in Thread : rec[t] = 0
         /\ \A q \in Reader \ {r} : rpc[q] = 0
<1>1. obsLock \in {r, None}
  BY DEF StatusInv
<1>2. \A t \in Thread : t # r /\ t # None
  BY AppAssumption, MutexAssumption
<1>3. \A q \in Reader : q # None
  BY AppAssumption
<1>4. QED
  BY <1>1, <1>2, <1>3 DEF StatusInv

(* Only the holder of _obs_lock writes or reads a field, one at a time.    *)
LEMMA StatusInvHolds == AppSpec => []StatusInv
<1>1. AppInit => StatusInv
  BY DEF AppInit, StatusInv, UpToRun, RefreshedBy, NoFields
<1>2. AppTypeOK /\ StatusInv /\ [AppNext]_appVars => StatusInv'
  <2> SUFFICES ASSUME AppTypeOK, StatusInv, [AppNext]_appVars
               PROVE  StatusInv'
    OBVIOUS
  <2> USE AppAssumption, MutexAssumption DEF AppTypeOK
  <2>1. CASE UNCHANGED statusVars
    BY <2>1 DEF statusVars, StatusInv, Recording, UpToRun, BeforeRun, RefreshedBy
  <2>2. ASSUME NEW t \in Thread, BeginRecord(t)
        PROVE  StatusInv'
    <3>1. \A s \in Thread : rec[s] = 0
      BY <2>2 DEF BeginRecord, StatusInv
    <3>2. \A r \in Reader : rpc[r] = 0
      BY <2>2 DEF BeginRecord, StatusInv
    <3>3. PICK b \in BOOLEAN :
            /\ fresh' = [fresh EXCEPT ![t] = b]
            /\ history' = Append(history, IF b THEN Len(history) + 1 ELSE LastRefresh)
      BY <2>2 DEF BeginRecord
    <3>4. LastRefresh = RefreshedBy(Len(history)) /\ LastRefresh \in Nat
      BY DEF LastRefresh, RefreshedBy
    <3>5. /\ Len(history') = Len(history) + 1
          /\ history'[Len(history')] = IF fresh'[t] THEN Len(history') ELSE LastRefresh
          /\ RefreshedBy(Len(history) - 1)' = LastRefresh
      BY <3>3, <3>4 DEF RefreshedBy
    <3>6. Recording(t)'
      <4>1. \A f \in Field : f \in IndexField => last'[f] = LastRefresh
        BY <2>2, <3>1, <3>4 DEF BeginRecord, StatusInv, UpToRun
      <4>2. \A f \in Field : ~(f < rec'[t])
        BY <2>2 DEF BeginRecord, Field
      <4>3. \A f \in Field : BeforeRun(f)'
        BY <3>5, <4>1 DEF BeforeRun
      <4>4. QED
        BY <3>5, <4>2, <4>3 DEF Recording
    <3>7. QED
      BY <2>2, <3>1, <3>2, <3>6 DEF BeginRecord, StatusInv
  <2>3. ASSUME NEW t \in Thread, RecordField(t)
        PROVE  StatusInv'
    <3>1. rec[t] \in Field /\ rec[t] # 0 /\ obsLock = t /\ Recording(t)
      BY <2>3 DEF RecordField, StatusInv, Field
    <3>2. /\ \A s \in Thread \ {t} : rec[s] = 0
          /\ \A r \in Reader : rpc[r] = 0
      BY <3>1 DEF StatusInv
    <3>3. UNCHANGED <<history, fresh, obsLock, rpc>> /\ rec'[t] = rec[t] + 1
      BY <2>3 DEF RecordField
    <3>4. PICK k \in Field : k = rec[t]
      BY <3>1
    <3>5. UpToRun(k)'
      <4>1. CASE k \in IndexField /\ ~fresh[t]
        <5>1. last' = last /\ BeforeRun(k) /\ history' = history
          BY <2>3, <3>4, <3>1, <4>1 DEF RecordField, Recording, Field
        <5>2. QED
          BY <3>1, <4>1, <5>1 DEF Recording, UpToRun, BeforeRun, RefreshedBy
      <4>2. CASE ~(k \in IndexField /\ ~fresh[t])
        <5>1. last'[k] = Len(history) /\ history' = history
          BY <2>3, <3>4, <4>2 DEF RecordField
        <5>2. QED
          BY <3>1, <4>2, <5>1 DEF Recording, UpToRun, RefreshedBy
      <4>3. QED
        BY <4>1, <4>2
    <3>6. \A f \in Field : f # k => last'[f] = last[f]
      BY <2>3, <3>4 DEF RecordField
    <3>7. Recording(t)'
      <4>1. ASSUME NEW f \in Field, f < rec'[t]
            PROVE  UpToRun(f)'
        <5>1. CASE f = k
          BY <3>5, <5>1
        <5>2. CASE f # k
          <6>1. f < rec[t]
            BY <3>4, <3>3, <4>1, <5>2 DEF Field
          <6>2. UpToRun(f) /\ last'[f] = last[f]
            BY <3>1, <3>6, <5>2, <6>1 DEF Recording
          <6>3. QED
            BY <3>3, <6>2 DEF UpToRun, RefreshedBy
        <5>3. QED
          BY <5>1, <5>2
      <4>2. ASSUME NEW f \in Field, ~(f < rec'[t])
            PROVE  BeforeRun(f)'
        <5>1. ~(f < rec[t]) /\ f # k
          BY <3>4, <3>3, <4>2 DEF Field
        <5>2. BeforeRun(f) /\ last'[f] = last[f]
          BY <3>1, <3>6, <5>1 DEF Recording
        <5>3. QED
          BY <3>3, <5>2 DEF BeforeRun, RefreshedBy
      <4>3. QED
        BY <3>1, <3>3, <4>1, <4>2 DEF Recording, RefreshedBy
    <3>8. QED
      BY <2>3, <3>1, <3>2, <3>3, <3>7 DEF RecordField, StatusInv, Field
  <2>4. ASSUME NEW t \in Thread, EndRecord(t)
        PROVE  StatusInv'
    <3>1. rec[t] = 6 /\ obsLock = t /\ Recording(t)
      BY <2>4 DEF EndRecord, StatusInv
    <3>2. /\ \A s \in Thread \ {t} : rec[s] = 0
          /\ \A r \in Reader : rpc[r] = 0
      BY <3>1 DEF StatusInv
    <3>3. \A f \in Field : UpToRun(f)'
      BY <2>4, <3>1 DEF EndRecord, Recording, UpToRun, RefreshedBy, Field
    <3>4. QED
      BY <2>4, <3>2, <3>3 DEF EndRecord, StatusInv
  <2>5. ASSUME NEW r \in Reader, ReadStep(r)
        PROVE  StatusInv'
    <3>1. rpc[r] # 0 \/ obsLock = None
      <4>1. 0 \notin Field /\ 6 # 0
        BY DEF Field
      <4>2. CASE BeginSnapshot(r)
        BY <4>2 DEF BeginSnapshot
      <4>3. CASE ReadField(r)
        BY <4>1, <4>3 DEF ReadField
      <4>4. CASE Reply(r)
        BY <4>1, <4>4 DEF Reply
      <4>5. QED
        BY <2>5, <4>2, <4>3, <4>4 DEF ReadStep, Snapshot
    <3>2. (\A t \in Thread : rec[t] = 0) /\ \A q \in Reader \ {r} : rpc[q] = 0
      BY <3>1, ReaderIsAlone
    <3>3. (\A t \in Thread : rec'[t] = 0) /\ \A f \in Field : UpToRun(f)'
      BY <2>5, <3>2
         DEF ReadStep, BeginSnapshot, Snapshot, ReadField, Reply, StatusInv, UpToRun, RefreshedBy
    <3>4. CASE BeginSnapshot(r)
      BY <3>2, <3>3, <3>4 DEF BeginSnapshot, StatusInv, Field
    <3>5. CASE ReadField(r)
      <4>1. PICK k \in Field : k = rpc[r]
        BY <3>5 DEF ReadField
      <4>2. /\ rpc'[r] = k + 1 /\ obsLock = r
            /\ \A q \in Reader \ {r} : rpc'[q] = 0 /\ seen'[q] = seen[q]
            /\ seen'[r] = [seen[r] EXCEPT ![k] = last[k]]
            /\ UNCHANGED <<last, obsLock, rec>>
        BY <3>2, <3>5, <4>1 DEF ReadField, StatusInv, Field
      <4>3. \A f \in Field : f < k + 1 => seen'[r][f] = last[f]
        BY <4>1, <4>2 DEF StatusInv, Field
      <4>4. \A q \in Reader : \A f \in Field : f < rpc'[q] => seen'[q][f] = last'[f]
        <5> SUFFICES ASSUME NEW q \in Reader, NEW f \in Field, f < rpc'[q]
                     PROVE  seen'[q][f] = last'[f]
          OBVIOUS
        <5>1. \A g \in Field : ~(g < 0)
          BY DEF Field
        <5>2. q = r
          BY <4>2, <5>1
        <5>3. QED
          BY <4>2, <4>3, <5>2
      <4>5. QED
        BY <3>2, <3>3, <4>2, <4>4 DEF StatusInv
    <3>6. CASE Reply(r)
      <4>1. \A q \in Reader : rpc'[q] = 0
        BY <3>2, <3>6 DEF Reply
      <4>2. \A q \in Reader : \A f \in Field : ~(f < rpc'[q])
        <5>1. \A f \in Field : ~(f < 0)
          BY DEF Field
        <5>2. QED
          BY <4>1, <5>1
      <4>3. QED
        BY <3>3, <4>1, <4>2 DEF StatusInv
    <3>7. QED
      BY <2>5, <3>4, <3>5, <3>6 DEF ReadStep, Snapshot
  <2>6. QED
    BY <2>1, <2>2, <2>3, <2>4, <2>5
       DEF AppNext, appVars, MutexStep, UserStep, RecordStep, Record
<1>3. QED
  BY <1>1, <1>2, AppTypeCorrect, PTL DEF AppSpec

(* No status reply mixes two runs: a reader that has all the fields still  *)
(* has the lock, so they are what the last recorded run left.              *)
THEOREM SnapshotsAreConsistent == AppSpec => []SnapshotIsOneRun
<1>1. AppTypeOK /\ StatusInv => SnapshotIsOneRun
  <2> SUFFICES ASSUME AppTypeOK, StatusInv, NEW r \in Reader, rpc[r] = 6
               PROVE  /\ seen[r][1] = seen[r][2] /\ seen[r][2] = seen[r][3]
                      /\ seen[r][1] <= Len(history)
                      /\ \A f \in IndexField : seen[r][f] =
                            IF seen[r][1] = 0 THEN 0 ELSE history[seen[r][1]]
    BY DEF SnapshotIsOneRun
  <2>1. \A t \in Thread : rec[t] = 0
    BY ReaderIsAlone
  <2>2. \A f \in Field : UpToRun(f) /\ seen[r][f] = last[f]
    BY <2>1 DEF StatusInv, Field
  <2>3. QED
    BY <2>2 DEF UpToRun, RefreshedBy, Field, IndexField, AppTypeOK
<1>2. QED
  BY <1>1, StatusInvHolds, AppTypeCorrect, PTL
=============================================================================
