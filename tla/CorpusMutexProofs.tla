-------------------------- MODULE CorpusMutexProofs --------------------------
(***************************************************************************)
(* Mutual exclusion of corpus writers, and the truth of the `holder` name, *)
(* for any set of threads and names.                                       *)
(***************************************************************************)
EXTENDS CorpusMutex, TLAPS

(* Every variable has its type in every reachable state.                   *)
THEOREM TypeCorrect == Spec => []TypeOK
<1>1. Init => TypeOK
  BY MutexAssumption DEF Init, TypeOK, ThreadPC
<1>2. TypeOK /\ [Next]_vars => TypeOK'
  <2> SUFFICES ASSUME TypeOK, [Next]_vars
               PROVE  TypeOK'
    OBVIOUS
  <2> USE DEF TypeOK, ThreadPC
  <2>1. CASE UNCHANGED vars
    BY <2>1 DEF vars
  <2>2. ASSUME NEW t \in Thread, Call(t)
        PROVE  TypeOK'
    BY <2>2 DEF Call, Request
  <2>3. ASSUME NEW t \in Thread, Enter(t)
        PROVE  TypeOK'
    <3>1. CASE TakeLock(t)
      BY <3>1 DEF TakeLock
    <3>2. CASE Register(t)
      BY <3>2 DEF Register
    <3>3. QED
      BY <2>3, <3>1, <3>2 DEF Enter
  <2>4. ASSUME NEW t \in Thread, Leave(t)
        PROVE  TypeOK'
    BY <2>4 DEF Leave, Unregister, Release
  <2>5. QED
    BY <2>1, <2>2, <2>3, <2>4 DEF Next
<1>3. QED
  BY <1>1, <1>2, PTL DEF Spec

(* Whoever is between acquire and release of `_lock` owns it, so two       *)
(* threads never are: the guard of TakeLock and the single release keep it.*)
THEOREM MutexExcludes == Spec => []MutualExclusion
<1>1. Init => MutualExclusion
  BY DEF Init, MutualExclusion, Holding
<1>2. TypeOK /\ MutualExclusion /\ [Next]_vars => MutualExclusion'
  <2> SUFFICES ASSUME TypeOK, MutualExclusion, [Next]_vars
               PROVE  MutualExclusion'
    OBVIOUS
  <2> USE MutexAssumption DEF MutualExclusion, Holding, TypeOK, ThreadPC
  <2>1. CASE UNCHANGED vars
    BY <2>1 DEF vars
  <2>2. ASSUME NEW t \in Thread, Call(t)
        PROVE  MutualExclusion'
    BY <2>2 DEF Call, Request
  <2>3. ASSUME NEW t \in Thread, Enter(t)
        PROVE  MutualExclusion'
    BY <2>3 DEF Enter, TakeLock, Register
  <2>4. ASSUME NEW t \in Thread, Leave(t)
        PROVE  MutualExclusion'
    BY <2>4 DEF Leave, Unregister, Release
  <2>5. QED
    BY <2>1, <2>2, <2>3, <2>4 DEF Next
<1>3. QED
  BY <1>1, <1>2, TypeCorrect, PTL DEF Spec

(* The strengthening of HolderNamesOpenSection that a step preserves: the  *)
(* name is the open section's, None when no section is open, and a thread  *)
(* inside acquire() carries a real name.                                   *)
HolderInv ==
    /\ \A t \in Thread : pc[t] = "section" => holder = name[t]
    /\ (\A t \in Thread : pc[t] # "section") => holder = None
    /\ \A t \in Thread : pc[t] # "outside" => name[t] \in HolderName

(* HolderInv is preserved: only the owner of `_lock` opens or closes a     *)
(* section, so no other section's name is overwritten or cleared.          *)
LEMMA HolderInvHolds == Spec => []HolderInv
<1>1. Init => HolderInv
  BY DEF Init, HolderInv
<1>2. TypeOK /\ MutualExclusion /\ HolderInv /\ [Next]_vars => HolderInv'
  <2> SUFFICES ASSUME TypeOK, MutualExclusion, HolderInv, [Next]_vars
               PROVE  HolderInv'
    OBVIOUS
  <2> USE MutexAssumption
          DEF MutualExclusion, Holding, HolderInv, TypeOK, ThreadPC
  <2>1. CASE UNCHANGED vars
    BY <2>1 DEF vars
  <2>2. ASSUME NEW t \in Thread, Call(t)
        PROVE  HolderInv'
    BY <2>2 DEF Call, Request
  <2>3. ASSUME NEW t \in Thread, TakeLock(t)
        PROVE  HolderInv'
    BY <2>3 DEF TakeLock
  <2>4. ASSUME NEW t \in Thread, Register(t)
        PROVE  HolderInv'
    BY <2>4 DEF Register
  <2>5. ASSUME NEW t \in Thread, Unregister(t)
        PROVE  HolderInv'
    BY <2>5 DEF Unregister
  <2>6. ASSUME NEW t \in Thread, Release(t)
        PROVE  HolderInv'
    BY <2>6 DEF Release
  <2>7. QED
    BY <2>1, <2>2, <2>3, <2>4, <2>5, <2>6 DEF Next, Enter, Leave
<1>3. QED
  BY <1>1, <1>2, TypeCorrect, MutexExcludes, PTL DEF Spec

(* A status call that reads `holder` gets the name of the section that is  *)
(* open at that moment, and None only when none is.                        *)
THEOREM HolderIsTruthful == Spec => []HolderNamesOpenSection
<1>1. HolderInv => HolderNamesOpenSection
  BY MutexAssumption DEF HolderInv, HolderNamesOpenSection
<1>2. QED
  BY <1>1, HolderInvHolds, PTL
=============================================================================
