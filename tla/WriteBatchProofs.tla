-------------------------- MODULE WriteBatchProofs ---------------------------
(***************************************************************************)
(* For any batches, clients, hand edits and crashes: that a batch which    *)
(* commits is its entries one by one, what one that fails can have         *)
(* written, and when it can fail at all once its entries have been checked.*)
(***************************************************************************)
EXTENDS WriteBatch, NaturalsInduction, WellFoundedInduction, TLAPS

-----------------------------------------------------------------------------
(* Entries and what they make of a page                                     *)

(* What an entry is, by its kind.                                          *)
LEMMA EntryFacts ==
  ASSUME NEW op \in BatchOp, op.kind # "invalid"
  PROVE  /\ op.kind \in {"create", "upsert", "update", "addLinks", "addClaims", "updateClaim"}
         /\ op.id \in Id
         /\ op.kind = "create" => op.id \in SlugId
         /\ op.kind \in WriteKinds => op.page \in PageContent
         /\ op.kind = "addLinks" => op.links \subseteq Link
         /\ op.kind = "addClaims" => op.claims \in Claims
         /\ op.kind = "updateClaim" => op.claim \in ClaimId /\ op.to \in ClaimText
<1> USE DEF BatchOp, WriteOp, WriteKinds, Id
<1>1. CASE op \in InvalidOp
  BY <1>1 DEF InvalidOp
<1>2. CASE op \in CreateOp
  BY <1>2 DEF CreateOp
<1>3. CASE op \in UpsertOp
  BY <1>3 DEF UpsertOp
<1>4. CASE op \in UpdateOp
  BY <1>4 DEF UpdateOp
<1>5. CASE op \in AddLinksOp
  BY <1>5 DEF AddLinksOp
<1>6. CASE op \in AddClaimsOp
  BY <1>6 DEF AddClaimsOp
<1>7. CASE op \in UpdateClaimOp
  BY <1>7 DEF UpdateClaimOp
<1>8. QED
  BY <1>1, <1>2, <1>3, <1>4, <1>5, <1>6, <1>7

(* Every entry makes a page, of a page if it is an edit.                   *)
LEMMA EditedIsPage ==
  ASSUME NEW op \in BatchOp, op.kind # "invalid",
         NEW p, op.kind \in WriteKinds \/ p \in PageContent
  PROVE  Edited(op, p) \in PageContent
<1> USE EntryFacts DEF Edited, WriteKinds
<1>1. CASE op.kind \in WriteKinds
  BY <1>1
<1>2. CASE op.kind = "addLinks" /\ p \in PageContent
  BY <1>2 DEF WithLinks, PageContent
<1>3. CASE op.kind = "addClaims" /\ p \in PageContent
  BY <1>3 DEF WithClaims, PageContent, Claims
<1>4. CASE op.kind = "updateClaim" /\ p \in PageContent
  BY <1>4 DEF WithClaim, PageContent, Claims
<1>5. QED
  BY <1>1, <1>2, <1>3, <1>4

(* No edit of a batch takes a claim off a page.                            *)
LEMMA EditsKeepClaims ==
  ASSUME NEW op \in BatchOp, op.kind # "invalid", op.kind \notin WriteKinds,
         NEW p \in PageContent, NEW k \in ClaimId, p.claims[k] # NoClaim
  PROVE  Edited(op, p).claims[k] # NoClaim
<1> USE EntryFacts, OpsAssumption DEF Edited, WriteKinds
<1>1. CASE op.kind = "addLinks"
  BY <1>1 DEF WithLinks, PageContent
<1>2. CASE op.kind = "addClaims"
  BY <1>2 DEF WithClaims, PageContent, Claims
<1>3. CASE op.kind = "updateClaim"
  BY <1>3 DEF WithClaim, PageContent, Claims
<1>4. QED
  BY <1>1, <1>2, <1>3

-----------------------------------------------------------------------------
(* Types and places                                                         *)

(* A handler is where its place says: past the mutex it is the one that    *)
(* holds it, its entries are valid, and it answers only when it is done.   *)
HandlerInv ==
    \A c \in Client :
        /\ pc[c] \in {"checking", "committing"} =>
              lock = c /\ reply[c] = "pending" /\ Valid(batch[c])
        /\ pc[c] = "checking" => at[c] <= Len(batch[c]) + 1
        /\ pc[c] = "leaving" => reply[c] = "invalid" \/ lock = c
        /\ pc[c] \in {"idle", "validating"} => lock # c /\ reply[c] = "pending" /\ at[c] = 1
        /\ reply[c] \in {"notFound", "parseError", "claimNotFound", "lookupRaised"} =>
              at[c] \in DOMAIN batch[c] /\ Entry(c).kind # "invalid"

(* A batch is a sequence of entries.                                       *)
LEMMA BatchIsSeq ==
  ASSUME TypeOK, NEW c \in Client
  PROVE  batch[c] \in Seq(BatchOp) /\ Len(batch[c]) \in Nat /\ at[c] \in Nat \ {0}
<1>1. batch[c] \in Batches \cup {<<>>} /\ at[c] \in Nat \ {0}
  BY DEF TypeOK
<1>2. <<>> \in Seq(BatchOp)
  OBVIOUS
<1>3. batch[c] \in Seq(BatchOp)
  BY <1>1, <1>2, BatchAssumption, Zenon
<1>4. QED
  BY <1>1, <1>3

(* The entries of a batch are entries.                                     *)
LEMMA EntryIsOp ==
  ASSUME TypeOK, NEW c \in Client, Valid(batch[c]), NEW n \in DOMAIN batch[c]
  PROVE  batch[c][n] \in BatchOp /\ batch[c][n].kind # "invalid"
<1>1. batch[c] \in Seq(BatchOp)
  BY BatchIsSeq
<1>2. QED
  BY <1>1 DEF Valid

(* The entry a handler is at.                                              *)
LEMMA CurrentEntry ==
  ASSUME TypeOK, HandlerInv, NEW c \in Client,
         pc[c] \in {"checking", "committing"}, at[c] <= Len(batch[c])
  PROVE  /\ at[c] \in DOMAIN batch[c]
         /\ Entry(c) \in BatchOp
         /\ Entry(c).kind # "invalid"
<1>1. batch[c] \in Seq(BatchOp) /\ at[c] \in Nat \ {0}
  BY BatchIsSeq
<1>2. at[c] \in DOMAIN batch[c]
  BY <1>1
<1>3. QED
  BY <1>2, EntryIsOp DEF HandlerInv, Entry

(* A verdict is a reply, one that is not final when it passes the entry.   *)
LEMMA VerdictIsReply ==
  ASSUME NEW op
  PROVE  Verdict(op) \in {"passed", "notFound", "parseError", "claimNotFound"}
BY DEF Verdict

(* So is the answer of the third phase.                                    *)
LEMMA CommitErrorIsReply ==
  ASSUME NEW op
  PROVE  CommitError(op) \in {"passed", "collision", "claimNotFound"}
BY DEF CommitError

(* Types are kept, and the handlers keep their places.                     *)
LEMMA WellTyped == Spec => [](TypeOK /\ HandlerInv)
<1> USE BatchAssumption DEF HandlerInv, handlerVars, ghostVars
<1>1. Init => TypeOK /\ HandlerInv
  <2> SUFFICES ASSUME Init
               PROVE  TypeOK /\ HandlerInv
    OBVIOUS
  <2>1. results = [c \in Client |-> <<>>] /\ <<>> \in Seq({"written", "duplicate"})
    BY DEF Init
  <2>2. results \in [Client -> Seq({"written", "duplicate"})]
    BY <2>1
  <2>3. disk \in [Id -> FileContent] /\ base \in [Id -> FileContent]
    BY DEF Init, FileContent
  <2>4. rows \in [Id -> PageContent \cup {NoPage}]
    BY DEF Init
  <2>5. batch \in [Client -> Batches \cup {<<>>}]
    BY Zenon DEF Init
  <2>6. reply \in [Client -> Replies]
    BY DEF Init, Replies
  <2>7. /\ pc \in [Client -> {"idle", "validating", "checking", "committing", "leaving"}]
         /\ lock \in Client \cup {None} /\ used \subseteq SlugId
         /\ touched \in BOOLEAN /\ handmade \in BOOLEAN /\ behind \in BOOLEAN
    BY DEF Init
  <2>8. at \in [Client -> Nat \ {0}] /\ sent \in Nat /\ handEdits \in Nat /\ crashes \in Nat
    BY DEF Init
  <2>9. TypeOK
    BY <2>2, <2>3, <2>4, <2>5, <2>6, <2>7, <2>8 DEF TypeOK
  <2>10. HandlerInv
    BY DEF Init
  <2>11. QED
    BY <2>9, <2>10
<1>2. TypeOK /\ HandlerInv /\ [Next]_vars => (TypeOK /\ HandlerInv)'
  <2> SUFFICES ASSUME TypeOK, HandlerInv, [Next]_vars
               PROVE  (TypeOK /\ HandlerInv)'
    OBVIOUS
  <2> USE DEF TypeOK, Replies, FileContent
  <2>1. CASE UNCHANGED vars
    BY <2>1 DEF vars, Entry, Valid
  <2>2. ASSUME NEW c \in Client, NEW b \in Batches, Send(c, b)
        PROVE  (TypeOK /\ HandlerInv)'
    <3>1. b \in Seq(BatchOp)
      OBVIOUS
    <3>2. Created(b) \subseteq SlugId
      <4>1. ASSUME NEW op \in ToSet(b), op.kind = "create"
            PROVE  op.id \in SlugId
        <5>1. op \in BatchOp
          BY <3>1 DEF ToSet
        <5>2. QED
          BY <5>1, <4>1, EntryFacts
      <4>2. QED
        BY <4>1 DEF Created
    <3>3. TypeOK'
      BY <2>2, <3>2 DEF Send, Goto
    <3>4. HandlerInv'
      BY <2>2 DEF Send, Goto, Entry, Valid
    <3>5. QED
      BY <3>3, <3>4
  <2>3. ASSUME NEW c \in Client, Handle(c)
        PROVE  (TypeOK /\ HandlerInv)'
    <3> USE DEF End, Goto
    <3>1. CASE Reject(c)
      <4>1. TypeOK'
        BY <3>1 DEF Reject
      <4>2. HandlerInv'
        BY <3>1 DEF Reject, Entry, Valid
      <4>3. QED
        BY <4>1, <4>2
    <3>2. CASE Enter(c)
      <4>1. TypeOK'
        BY <3>2 DEF Enter
      <4>2. Len(batch[c]) \in Nat /\ at[c] = 1
        BY <3>2, BatchIsSeq DEF Enter
      <4>3. HandlerInv'
        BY <3>2, <4>2 DEF Enter, Entry, Valid
      <4>4. QED
        BY <4>1, <4>3
    <3>3. CASE Refuse(c)
      <4>1. Verdict(Entry(c)) \in {"notFound", "parseError", "claimNotFound"}
        BY <3>3, VerdictIsReply DEF Refuse
      <4>2. at[c] \in DOMAIN batch[c] /\ Entry(c).kind # "invalid"
        BY <3>3, CurrentEntry DEF Refuse
      <4>3. TypeOK'
        BY <3>3, <4>1 DEF Refuse
      <4>4. HandlerInv'
        BY <3>3, <4>1, <4>2 DEF Refuse, Entry, Valid
      <4>5. QED
        BY <4>3, <4>4
    <3>4. CASE Check(c)
      <4>1. Len(batch[c]) \in Nat /\ at[c] \in Nat
        BY BatchIsSeq
      <4>2. TypeOK'
        BY <3>4 DEF Check
      <4>3. HandlerInv'
        BY <3>4, <4>1 DEF Check, Entry, Valid
      <4>4. QED
        BY <4>2, <4>3
    <3>5. CASE BeginCommit(c)
      <4>1. TypeOK'
        BY <3>5 DEF BeginCommit
      <4>2. HandlerInv'
        BY <3>5 DEF BeginCommit, Entry, Valid
      <4>3. QED
        BY <4>1, <4>2
    <3>6. CASE Commit(c)
      <4>1. Entry(c) \in BatchOp /\ Entry(c).kind # "invalid"
        BY <3>6, CurrentEntry DEF Commit, Committing
      <4>2. Edited(Entry(c), disk[Entry(c).id]) \in PageContent
        BY <3>6, <4>1, EditedIsPage DEF Commit, Found
      <4>3. results[c] \in Seq({"written", "duplicate"})
        OBVIOUS
      <4>4. Append(results[c], "written") \in Seq({"written", "duplicate"})
        BY <4>3
      <4>8. disk' \in [Id -> FileContent]
        BY <3>6, <4>2 DEF Commit
      <4>9. results' \in [Client -> Seq({"written", "duplicate"})]
        BY <3>6, <4>4 DEF Commit, Advance
      <4>5. TypeOK'
        BY <3>6, <4>8, <4>9 DEF Commit, Committing, Advance
      <4>6. HandlerInv'
        BY <3>6 DEF Commit, Committing, Advance, Entry, Valid
      <4>7. QED
        BY <4>5, <4>6
    <3>7. CASE Skip(c)
      <4>1. results[c] \in Seq({"written", "duplicate"})
        OBVIOUS
      <4>2. Append(results[c], "duplicate") \in Seq({"written", "duplicate"})
        BY <4>1
      <4>3. TypeOK'
        BY <3>7, <4>2 DEF Skip, Committing, Advance
      <4>4. HandlerInv'
        BY <3>7 DEF Skip, Committing, Advance, Entry, Valid
      <4>5. QED
        BY <4>3, <4>4
    <3>8. CASE Abandon(c)
      <4>1. CommitError(Entry(c)) \in {"collision", "claimNotFound"}
        BY <3>8, CommitErrorIsReply DEF Abandon
      <4>2. at[c] \in DOMAIN batch[c] /\ Entry(c).kind # "invalid"
        BY <3>8, CurrentEntry DEF Abandon, Committing
      <4>3. TypeOK'
        BY <3>8, <4>1 DEF Abandon
      <4>4. HandlerInv'
        BY <3>8, <4>1, <4>2 DEF Abandon, Committing, Entry, Valid
      <4>5. QED
        BY <4>3, <4>4
    <3>9. CASE LookupRaises(c)
      <4>1. at[c] \in DOMAIN batch[c] /\ Entry(c).kind # "invalid"
        BY <3>9, CurrentEntry DEF LookupRaises, Committing
      <4>2. TypeOK'
        BY <3>9 DEF LookupRaises
      <4>3. HandlerInv'
        BY <3>9, <4>1 DEF LookupRaises, Committing, Entry, Valid
      <4>4. QED
        BY <4>2, <4>3
    <3>10. CASE WriteRaises(c)
      <4>1. TypeOK'
        BY <3>10 DEF WriteRaises
      <4>2. HandlerInv'
        BY <3>10 DEF WriteRaises, Committing, Entry, Valid
      <4>3. QED
        BY <4>1, <4>2
    <3>11. CASE Pass(c)
      <4>1. Projected \in [Id -> PageContent \cup {NoPage}]
        BY DEF Projected
      <4>2. TypeOK'
        BY <3>11, <4>1 DEF Pass
      <4>3. HandlerInv'
        BY <3>11 DEF Pass, Entry, Valid
      <4>4. QED
        BY <4>2, <4>3
    <3>12. CASE PassRaises(c)
      <4>1. TypeOK'
        BY <3>12 DEF PassRaises
      <4>2. HandlerInv'
        BY <3>12 DEF PassRaises, Entry, Valid
      <4>3. QED
        BY <4>1, <4>2
    <3>13. CASE Leave(c)
      <4>1. TypeOK'
        BY <3>13 DEF Leave
      <4>2. HandlerInv'
        BY <3>13 DEF Leave, Entry, Valid
      <4>3. QED
        BY <4>1, <4>2
    <3>14. QED
      BY <2>3, <3>1, <3>2, <3>3, <3>4, <3>5, <3>6, <3>7, <3>8, <3>9, <3>10,
         <3>11, <3>12, <3>13 DEF Handle
  <2>4. ASSUME NEW i \in Id, HandEdit(i)
        PROVE  (TypeOK /\ HandlerInv)'
    <3>1. TypeOK'
      BY <2>4 DEF HandEdit
    <3>2. HandlerInv'
      BY <2>4 DEF HandEdit, Entry, Valid
    <3>3. QED
      BY <3>1, <3>2
  <2>5. CASE Crash
    <3>1. TypeOK'
      BY <2>5 DEF Crash
    <3>2. HandlerInv'
      BY <2>5 DEF Crash, Entry, Valid
    <3>3. QED
      BY <3>1, <3>2
  <2>6. QED
    BY <2>1, <2>2, <2>3, <2>4, <2>5 DEF Next
<1>3. QED
  BY <1>1, <1>2, PTL DEF Spec

(* Every variable has its type in every reachable state.                   *)
THEOREM TypeCorrect == Spec => []TypeOK
BY WellTyped, PTL

-----------------------------------------------------------------------------
(* Entries whose page is not there                                          *)

(* From the mutex to the first write the files are as they were, unless    *)
(* edited by hand; the batches that end in between keep this.              *)
CleanInv ==
    ~touched =>
        \A c \in Client :
            pc[c] = "checking" \/ Ended(c, {"notFound", "parseError"}) => disk = base

(* No entry is written before all have been checked.                       *)
LEMMA CheckingWritesNothing == Spec => []CleanInv
<1>1. Init => CleanInv
  BY DEF Init, CleanInv
<1>2. TypeOK /\ HandlerInv /\ CleanInv /\ [Next]_vars => CleanInv'
  <2> SUFFICES ASSUME TypeOK, HandlerInv, CleanInv, [Next]_vars
               PROVE  CleanInv'
    OBVIOUS
  <2> USE DEF CleanInv, Ended, handlerVars, ghostVars
  <2>1. CASE UNCHANGED vars
    BY <2>1 DEF vars
  <2>2. ASSUME NEW c \in Client, NEW b \in Batches, Send(c, b)
        PROVE  CleanInv'
    BY <2>2 DEF Send, Goto, TypeOK
  <2>3. ASSUME NEW c \in Client, Handle(c)
        PROVE  CleanInv'
    <3> USE DEF End, Goto, TypeOK
    <3>1. CASE Reject(c) \/ PassRaises(c)
      BY <3>1 DEF Reject, PassRaises
    <3>2. CASE Enter(c)
      BY <3>2 DEF Enter, HandlerInv
    <3>3. CASE Refuse(c) \/ Check(c) \/ BeginCommit(c)
      BY <3>3 DEF Refuse, Check, BeginCommit
    <3>4. CASE Commit(c)
      <4>1. ASSUME NEW d \in Client
            PROVE  ~(pc'[d] = "checking" \/ Ended(d, {"notFound", "parseError"})')
        <5>1. pc' = pc /\ reply' = reply /\ pc[c] = "committing" /\ lock = c
          BY <3>4 DEF Commit, Committing, Advance, HandlerInv
        <5>2. QED
          BY <5>1 DEF HandlerInv
      <4>2. QED
        BY <4>1
    <3>5. CASE Skip(c)
      BY <3>5 DEF Skip, Advance
    <3>6. CASE Abandon(c)
      <4>1. CommitError(Entry(c)) \notin {"notFound", "parseError"}
        BY CommitErrorIsReply
      <4>2. QED
        BY <3>6, <4>1 DEF Abandon
    <3>7. CASE LookupRaises(c) \/ WriteRaises(c)
      BY <3>7 DEF LookupRaises, WriteRaises
    <3>8. CASE Pass(c)
      BY <3>8 DEF Pass
    <3>9. CASE Leave(c)
      BY <3>9 DEF Leave
    <3>10. QED
      BY <2>3, <3>1, <3>2, <3>3, <3>4, <3>5, <3>6, <3>7, <3>8, <3>9 DEF Handle
  <2>4. ASSUME NEW i \in Id, HandEdit(i)
        PROVE  CleanInv'
    BY <2>4 DEF HandEdit
  <2>5. CASE Crash
    BY <2>5 DEF Crash
  <2>6. QED
    BY <2>1, <2>2, <2>3, <2>4, <2>5 DEF Next
<1>3. QED
  BY <1>1, <1>2, WellTyped, PTL DEF Spec

(* A batch that reports a missing page has written nothing.                *)
THEOREM MissingPageAborts == Spec => []MissingPageWritesNothing
<1>1. CleanInv => MissingPageWritesNothing
  BY DEF CleanInv, MissingPageWritesNothing
<1>2. QED
  BY <1>1, CheckingWritesNothing, PTL

-----------------------------------------------------------------------------
(* Lookups that fail after the check                                        *)

(* Without hand edits every row has its file; the entries that have been   *)
(* checked have rows, and those stay while the batch holds the mutex.      *)
CheckedInv ==
    /\ ~handmade => \A i \in Id : rows[i] # NoPage => disk[i] \in PageContent
    /\ \A c \in Client : \A n \in DOMAIN batch[c] :
          /\ pc[c] = "committing" \/ (pc[c] = "checking" /\ n < at[c])
          /\ batch[c][n].kind \notin {"create", "upsert"}
          => rows[batch[c][n].id] # NoPage
    /\ \A c \in Client : Ended(c, {"lookupRaised"}) => handmade

(* A verdict passes only entries whose row is there.                       *)
LEMMA PassedHasRow ==
  ASSUME NEW op, Verdict(op) = "passed", op.kind \notin {"create", "upsert"}
  PROVE  rows[op.id] # NoPage
<1>1. rows[op.id] = NoPage => Verdict(op) = "notFound"
  BY DEF Verdict
<1>2. QED
  BY <1>1

(* The rows of a batch's entries are its own from check to commit.         *)
LEMMA CheckedStays == Spec => []CheckedInv
<1>1. Init => CheckedInv
  BY DEF Init, CheckedInv, Ended
<1>2. TypeOK /\ HandlerInv /\ CheckedInv /\ [Next]_vars => CheckedInv'
  <2> SUFFICES ASSUME TypeOK, HandlerInv, CheckedInv, [Next]_vars
               PROVE  CheckedInv'
    OBVIOUS
  <2> USE DEF CheckedInv, Ended, handlerVars, ghostVars
  <2>1. CASE UNCHANGED vars
    BY <2>1 DEF vars
  <2>2. ASSUME NEW c \in Client, NEW b \in Batches, Send(c, b)
        PROVE  CheckedInv'
    BY <2>2 DEF Send, Goto, TypeOK
  <2>3. ASSUME NEW c \in Client, Handle(c)
        PROVE  CheckedInv'
    <3> USE DEF End, Goto, TypeOK
    <3>1. CASE Reject(c)
      BY <3>1 DEF Reject
    <3>2. CASE Enter(c)
      <4>1. at[c] = 1
        BY <3>2 DEF Enter, HandlerInv
      <4>2. ASSUME NEW n \in DOMAIN batch[c]
            PROVE  ~(n < at[c])
        BY <4>1, BatchIsSeq
      <4>3. QED
        BY <3>2, <4>2 DEF Enter
    <3>3. CASE Refuse(c)
      <4>1. Verdict(Entry(c)) # "lookupRaised"
        BY VerdictIsReply
      <4>2. QED
        BY <3>3, <4>1 DEF Refuse
    <3>4. CASE Check(c)
      <4>1. ASSUME NEW n \in DOMAIN batch[c], n < at[c] + 1,
                   batch[c][n].kind \notin {"create", "upsert"}
            PROVE  rows[batch[c][n].id] # NoPage
        <5>1. CASE n = at[c]
          BY <3>4, <4>1, <5>1, PassedHasRow DEF Check, Entry
        <5>2. CASE n < at[c]
          BY <3>4, <4>1, <5>2 DEF Check
        <5>3. n \in Nat /\ at[c] \in Nat
          BY BatchIsSeq
        <5>4. QED
          BY <5>1, <5>2, <5>3, <4>1
      <4>2. QED
        BY <3>4, <4>1 DEF Check
    <3>5. CASE BeginCommit(c)
      <4>1. ASSUME NEW n \in DOMAIN batch[c]
            PROVE  n < at[c]
        BY <3>5, BatchIsSeq DEF BeginCommit
      <4>2. QED
        BY <3>5, <4>1 DEF BeginCommit
    <3>6. CASE Commit(c)
      <4>1. Entry(c) \in BatchOp /\ Entry(c).kind # "invalid"
        BY <3>6, CurrentEntry DEF Commit, Committing
      <4>2. Edited(Entry(c), disk[Entry(c).id]) \in PageContent
        BY <3>6, <4>1, EditedIsPage DEF Commit, Found
      <4>3. \A i \in Id : disk'[i] = disk[i] \/ disk'[i] \in PageContent
        BY <3>6, <4>2 DEF Commit
      <4>4. UNCHANGED <<rows, handmade, pc, batch, reply>> /\ pc[c] = "committing"
        BY <3>6 DEF Commit, Committing, Advance
      <4>5. \A d \in Client : pc[d] # "checking"
        BY <3>6 DEF Commit, Committing, HandlerInv
      <4>6. ~handmade' => \A i \in Id : rows'[i] # NoPage => disk'[i] \in PageContent
        BY <4>3, <4>4
      <4>7. QED
        BY <4>4, <4>5, <4>6
    <3>7. CASE Skip(c)
      <4>1. UNCHANGED <<disk, rows, handmade, pc, batch, reply>> /\ pc[c] = "committing"
        BY <3>7 DEF Skip, Committing, Advance
      <4>2. \A d \in Client : pc[d] # "checking"
        BY <3>7 DEF Skip, Committing, HandlerInv
      <4>3. QED
        BY <4>1, <4>2
    <3>8. CASE Abandon(c)
      <4>1. CommitError(Entry(c)) # "lookupRaised"
        BY CommitErrorIsReply
      <4>2. QED
        BY <3>8, <4>1 DEF Abandon, Committing
    <3>9. CASE LookupRaises(c)
      <4>1. at[c] \in DOMAIN batch[c] /\ Entry(c) \in BatchOp /\ Entry(c).kind # "invalid"
        BY <3>9, CurrentEntry DEF LookupRaises, Committing
      <4>2. Entry(c).kind \notin {"create", "upsert"}
        BY <3>9 DEF LookupRaises, Found, WriteKinds
      <4>3. rows[Entry(c).id] # NoPage
        BY <3>9, <4>1, <4>2 DEF LookupRaises, Committing, Entry
      <4>4. handmade
        BY <3>9, <4>1, <4>3, EntryFacts DEF LookupRaises, Found
      <4>5. QED
        BY <3>9, <4>4 DEF LookupRaises
    <3>10. CASE WriteRaises(c)
      BY <3>10 DEF WriteRaises
    <3>14. CASE PassRaises(c)
      BY <3>14 DEF PassRaises
    <3>11. CASE Pass(c)
      <4>1. \A i \in Id : rows'[i] # NoPage => disk'[i] \in PageContent
        BY <3>11 DEF Pass, Projected, FileContent
      <4>2. ASSUME NEW d \in Client
            PROVE  pc'[d] \notin {"checking", "committing"} /\ ~Ended(d, {"lookupRaised"})'
        <5>1. lock = c
          BY <3>11 DEF Pass, HandlerInv
        <5>2. CASE d = c
          BY <3>11, <5>2 DEF Pass
        <5>3. CASE d # c
          BY <3>11, <5>1, <5>3 DEF Pass, HandlerInv
        <5>4. QED
          BY <5>2, <5>3
      <4>3. QED
        BY <4>1, <4>2
    <3>12. CASE Leave(c)
      <4>1. ASSUME NEW d \in Client, d # c
            PROVE  pc'[d] = pc[d] /\ batch'[d] = batch[d] /\ at'[d] = at[d] /\ reply'[d] = reply[d]
        BY <3>12, <4>1 DEF Leave
      <4>2. pc'[c] = "idle"
        BY <3>12 DEF Leave
      <4>3. UNCHANGED <<disk, rows, handmade>>
        BY <3>12 DEF Leave
      <4>4. ASSUME NEW d \in Client, NEW n \in DOMAIN batch'[d],
                   pc'[d] = "committing" \/ (pc'[d] = "checking" /\ n < at'[d]),
                   batch'[d][n].kind \notin {"create", "upsert"}
            PROVE  rows'[batch'[d][n].id] # NoPage
        <5>1. d # c
          BY <4>2, <4>4
        <5>2. QED
          BY <4>1, <4>3, <4>4, <5>1
      <4>5. ASSUME NEW d \in Client, Ended(d, {"lookupRaised"})'
            PROVE  handmade'
        BY <4>1, <4>2, <4>3, <4>5
      <4>6. QED
        BY <4>3, <4>4, <4>5
    <3>13. QED
      BY <2>3, <3>1, <3>2, <3>3, <3>4, <3>5, <3>6, <3>7, <3>8, <3>9, <3>10,
         <3>11, <3>12, <3>14 DEF Handle
  <2>4. ASSUME NEW i \in Id, HandEdit(i)
        PROVE  CheckedInv'
    BY <2>4 DEF HandEdit
  <2>5. CASE Crash
    BY <2>5 DEF Crash
  <2>6. QED
    BY <2>1, <2>2, <2>3, <2>4, <2>5 DEF Next
<1>3. QED
  BY <1>1, <1>2, WellTyped, PTL DEF Spec

(* Phase 3 fails to find or read a page only after a hand edit.            *)
THEOREM LookupsSucceed == Spec => []LookupFindsWhatWasChecked
<1>1. CheckedInv => LookupFindsWhatWasChecked
  BY DEF CheckedInv, LookupFindsWhatWasChecked
<1>2. QED
  BY <1>1, CheckedStays, PTL

-----------------------------------------------------------------------------
(* Claims that are gone after the check                                     *)

(* The claim an update_claim entry wants is on the page.                   *)
HasClaim(op) == disk[op.id] \in PageContent /\ disk[op.id].claims[op.claim] # NoClaim

(* Once checked, a claim stays until its own entry, unless an entry before *)
(* that one rewrites the page.                                             *)
ClaimInv ==
    ~touched =>
        \A c \in Client :
            /\ pc[c] = "checking" =>
                  \A n \in DOMAIN batch[c] :
                      n < at[c] /\ batch[c][n].kind = "updateClaim" => HasClaim(batch[c][n])
            /\ pc[c] = "committing" =>
                  \A n \in DOMAIN batch[c] :
                      n >= at[c] /\ batch[c][n].kind = "updateClaim" =>
                          \/ HasClaim(batch[c][n])
                          \/ \E j \in 1..(at[c] - 1) : Rewrites(batch[c], j, batch[c][n].id)
            /\ Ended(c, {"claimNotFound"}) /\ disk # base =>
                  \E j \in 1..(at[c] - 1) : Rewrites(batch[c], j, Entry(c).id)

(* A verdict passes an update_claim entry only if its claim is there.      *)
LEMMA PassedHasClaim ==
  ASSUME TypeOK, NEW op \in BatchOp, op.kind = "updateClaim", Verdict(op) = "passed"
  PROVE  HasClaim(op)
<1>1. op.id \in Id
  BY EntryFacts
<1>2. /\ disk[op.id] # NoPage /\ disk[op.id] # Unreadable
      /\ ~NothingToDo(op, disk[op.id])
  BY DEF Verdict
<1>3. disk[op.id] \in PageContent
  BY <1>1, <1>2 DEF TypeOK, FileContent
<1>4. QED
  BY <1>2, <1>3 DEF NothingToDo, HasClaim

(* What one committed entry does to a claim a later entry wants.           *)
LEMMA CommitKeepsClaim ==
  ASSUME TypeOK, HandlerInv, CheckedInv, NEW c \in Client, Commit(c),
         NEW n \in DOMAIN batch[c], batch[c][n].kind = "updateClaim", HasClaim(batch[c][n])
  PROVE  HasClaim(batch[c][n])' \/ Rewrites(batch[c], at[c], batch[c][n].id)
<1> DEFINE op == Entry(c)
           want == batch[c][n]
<1>1. op \in BatchOp /\ op.kind # "invalid" /\ op.id \in Id
  BY CurrentEntry, EntryFacts DEF Commit, Committing
<1>2. want \in BatchOp /\ want.id \in Id /\ want.claim \in ClaimId
  <2>1. Valid(batch[c])
    BY DEF HandlerInv, Commit, Committing
  <2>2. QED
    BY <2>1, EntryIsOp, EntryFacts
<1>3. UNCHANGED batch /\ disk' = [disk EXCEPT ![op.id] = Edited(op, disk[op.id])]
  BY DEF Commit, Advance
<1>4. disk'[op.id] = Edited(op, disk[op.id])
  BY <1>1, <1>3 DEF TypeOK
<1>5. CASE op.id # want.id
  <2>1. disk'[want.id] = disk[want.id]
    BY <1>1, <1>2, <1>3, <1>5 DEF TypeOK
  <2>2. QED
    BY <2>1, <1>3 DEF HasClaim
<1>6. CASE op.id = want.id /\ op.kind \in {"upsert", "update"}
  BY <1>6 DEF Rewrites, Entry
<1>7. CASE op.id = want.id /\ op.kind = "create"
  <2>1. rows[want.id] # NoPage
    BY DEF CheckedInv, Commit, Committing
  <2>2. rows[op.id] = NoPage
    BY <1>7 DEF Commit, CommitError
  <2>3. QED
    BY <2>1, <2>2, <1>7
<1>8. CASE op.id = want.id /\ op.kind \notin WriteKinds
  <2>1. disk[op.id] \in PageContent /\ disk[op.id].claims[want.claim] # NoClaim
    BY <1>8 DEF HasClaim
  <2>2. Edited(op, disk[op.id]) \in PageContent
    BY <1>1, <2>1, EditedIsPage
  <2>3. Edited(op, disk[op.id]).claims[want.claim] # NoClaim
    BY <1>1, <1>2, <1>8, <2>1, EditsKeepClaims
  <2>4. QED
    BY <1>3, <1>4, <1>8, <2>2, <2>3 DEF HasClaim
<1>9. QED
  BY <1>5, <1>6, <1>7, <1>8 DEF WriteKinds

(* The claims stay: other batches wait for the mutex.                      *)
LEMMA ClaimsStay == Spec => []ClaimInv
<1>1. Init => ClaimInv
  BY DEF Init, ClaimInv, Ended
<1>2. TypeOK /\ HandlerInv /\ CleanInv /\ CheckedInv /\ ClaimInv /\ [Next]_vars => ClaimInv'
  <2> SUFFICES ASSUME TypeOK, HandlerInv, CleanInv, CheckedInv, ClaimInv, [Next]_vars
               PROVE  ClaimInv'
    OBVIOUS
  <2> USE DEF ClaimInv, Ended, handlerVars, ghostVars
  <2>1. CASE UNCHANGED vars
    BY <2>1 DEF vars, HasClaim, Rewrites, Entry
  <2>2. ASSUME NEW c \in Client, NEW b \in Batches, Send(c, b)
        PROVE  ClaimInv'
    BY <2>2 DEF Send, Goto, TypeOK, HasClaim, Entry
  <2>3. ASSUME NEW c \in Client, Handle(c)
        PROVE  ClaimInv'
    <3> USE DEF End, Goto, TypeOK
    <3>1. CASE Reject(c)
      BY <3>1 DEF Reject, HasClaim, Entry
    <3>2. CASE Enter(c)
      <4>1. ASSUME NEW n \in DOMAIN batch[c]
            PROVE  ~(n < at[c])
        BY <3>2, BatchIsSeq DEF Enter, HandlerInv
      <4>2. ASSUME NEW d \in Client
            PROVE  ~Ended(d, {"claimNotFound"})' /\ pc'[d] # "committing"
                   /\ (d # c => pc'[d] # "checking")
        BY <3>2, BatchAssumption DEF Enter, HandlerInv
      <4>3. QED
        BY <3>2, <4>1, <4>2 DEF Enter
    <3>3. CASE Refuse(c)
      <4>1. ~touched => disk = base
        BY <3>3 DEF Refuse, CleanInv
      <4>2. ASSUME NEW d \in Client, d # c
            PROVE  pc'[d] \notin {"checking", "committing"} /\ ~Ended(d, {"claimNotFound"})'
        BY <3>3, <4>2 DEF Refuse, HandlerInv
      <4>3. pc'[c] = "leaving" /\ UNCHANGED <<disk, base, touched>>
        BY <3>3 DEF Refuse
      <4>4. QED
        BY <4>1, <4>2, <4>3
    <3>4. CASE Check(c)
      <4>1. at[c] \in DOMAIN batch[c] /\ Entry(c) \in BatchOp
        BY <3>4, CurrentEntry DEF Check
      <4>2. ASSUME NEW n \in DOMAIN batch[c], n < at[c] + 1, ~touched,
                   batch[c][n].kind = "updateClaim"
            PROVE  HasClaim(batch[c][n])
        <5>1. CASE n = at[c]
          BY <3>4, <4>1, <4>2, <5>1, PassedHasClaim DEF Check, Entry
        <5>2. CASE n < at[c]
          BY <3>4, <4>2, <5>2 DEF Check
        <5>3. n \in Nat /\ at[c] \in Nat
          BY BatchIsSeq
        <5>4. QED
          BY <5>1, <5>2, <5>3, <4>2
      <4>3. ASSUME NEW d \in Client, d # c
            PROVE  pc'[d] \notin {"checking", "committing"} /\ ~Ended(d, {"claimNotFound"})'
        BY <3>4, <4>3 DEF Check, HandlerInv
      <4>4. pc'[c] = "checking" /\ at'[c] = at[c] + 1 /\ UNCHANGED <<disk, batch, touched>>
        BY <3>4 DEF Check
      <4>5. QED
        BY <4>2, <4>3, <4>4 DEF HasClaim
    <3>5. CASE BeginCommit(c)
      <4>1. ASSUME NEW n \in DOMAIN batch[c]
            PROVE  n < at[c]
        BY <3>5, BatchIsSeq DEF BeginCommit
      <4>2. ASSUME NEW d \in Client, d # c
            PROVE  pc'[d] \notin {"checking", "committing"} /\ ~Ended(d, {"claimNotFound"})'
        BY <3>5, <4>2 DEF BeginCommit, HandlerInv
      <4>3. pc[c] = "checking" /\ pc'[c] = "committing" /\ UNCHANGED <<disk, batch, touched>>
        BY <3>5 DEF BeginCommit
      <4>4. QED
        BY <4>1, <4>2, <4>3 DEF HasClaim
    <3>6. CASE Commit(c) \/ Skip(c)
      <4>1. /\ pc[c] = "committing" /\ at'[c] = at[c] + 1
            /\ UNCHANGED <<pc, batch, reply, touched>>
        BY <3>6 DEF Commit, Skip, Committing, Advance
      <4>2. at[c] \in Nat \ {0} /\ (\A n \in DOMAIN batch[c] : n \in Nat)
        BY BatchIsSeq
      <4>3. ASSUME NEW d \in Client, d # c
            PROVE  pc'[d] \notin {"checking", "committing"} /\ ~Ended(d, {"claimNotFound"})'
        BY <4>1, <4>3 DEF HandlerInv
      <4>4. ASSUME NEW n \in DOMAIN batch[c], n >= at[c] + 1, ~touched,
                   batch[c][n].kind = "updateClaim"
            PROVE  \/ HasClaim(batch[c][n])'
                   \/ \E j \in 1..at[c] : Rewrites(batch[c], j, batch[c][n].id)
        <5>1. CASE \E j \in 1..(at[c] - 1) : Rewrites(batch[c], j, batch[c][n].id)
          BY <5>1, <4>2
        <5>2. CASE HasClaim(batch[c][n]) /\ Commit(c)
          <6>1. HasClaim(batch[c][n])' \/ Rewrites(batch[c], at[c], batch[c][n].id)
            BY <4>4, <5>2, CommitKeepsClaim
          <6>2. at[c] \in 1..at[c]
            BY <4>2
          <6>3. QED
            BY <6>1, <6>2
        <5>3. CASE HasClaim(batch[c][n]) /\ Skip(c)
          BY <5>3, <4>1 DEF Skip, HasClaim
        <5>4. n >= at[c]
          BY <4>2, <4>4
        <5>5. QED
          BY <3>6, <4>1, <4>4, <5>1, <5>2, <5>3, <5>4
      <4>5. at'[c] = at[c] + 1 /\ at'[c] - 1 = at[c] /\ batch' = batch /\ touched' = touched
        BY <4>1, <4>2
      <4>6. ASSUME NEW n \in DOMAIN batch'[c], n >= at'[c], ~touched',
                   batch'[c][n].kind = "updateClaim"
            PROVE  \/ HasClaim(batch[c][n])'
                   \/ \E j \in 1..(at'[c] - 1) : Rewrites(batch[c], j, batch[c][n].id)'
        BY <4>4, <4>5, <4>6 DEF Rewrites
      <4>7. pc'[c] = "committing"
        BY <4>1
      <4>8. QED
        BY <4>3, <4>6, <4>7
    <3>7. CASE Abandon(c)
      <4>1. at[c] \in DOMAIN batch[c] /\ pc[c] = "committing" /\ at[c] \in Nat
        BY <3>7, CurrentEntry DEF Abandon, Committing
      <4>2. ASSUME NEW d \in Client, d # c
            PROVE  pc'[d] \notin {"checking", "committing"} /\ ~Ended(d, {"claimNotFound"})'
        BY <3>7, <4>1, <4>2 DEF Abandon, HandlerInv
      <4>3. /\ pc'[c] = "leaving" /\ reply'[c] = CommitError(Entry(c))
            /\ UNCHANGED <<disk, batch, at, base, touched>>
        BY <3>7 DEF Abandon
      <4>4. ASSUME CommitError(Entry(c)) = "claimNotFound"
            PROVE  Entry(c).kind = "updateClaim" /\ ~HasClaim(Entry(c))
        BY <4>4 DEF CommitError, NothingToDo, HasClaim
      <4>5. ASSUME CommitError(Entry(c)) = "claimNotFound", ~touched
            PROVE  \E j \in 1..(at[c] - 1) : Rewrites(batch[c], j, Entry(c).id)
        <5>1. at[c] >= at[c]
          BY <4>1
        <5>2. \/ HasClaim(batch[c][at[c]])
              \/ \E j \in 1..(at[c] - 1) : Rewrites(batch[c], j, batch[c][at[c]].id)
          BY <4>1, <4>4, <4>5, <5>1 DEF Entry
        <5>3. QED
          BY <4>4, <4>5, <5>2 DEF Entry
      <4>6. QED
        BY <4>2, <4>3, <4>5 DEF Entry
    <3>8. CASE LookupRaises(c) \/ WriteRaises(c) \/ PassRaises(c) \/ Pass(c)
      <4>1. pc[c] = "committing" /\ pc'[c] = "leaving" /\ reply'[c] # "claimNotFound"
        BY <3>8 DEF LookupRaises, WriteRaises, PassRaises, Pass, Committing
      <4>2. ASSUME NEW d \in Client, d # c
            PROVE  pc'[d] \notin {"checking", "committing"} /\ ~Ended(d, {"claimNotFound"})'
        BY <3>8, <4>1, <4>2 DEF LookupRaises, WriteRaises, PassRaises, Pass, HandlerInv
      <4>3. QED
        BY <4>1, <4>2
    <3>9. CASE Leave(c)
      <4>1. pc'[c] = "idle" /\ UNCHANGED <<disk, base, touched>>
        BY <3>9 DEF Leave
      <4>2. ASSUME NEW d \in Client, d # c
            PROVE  /\ pc'[d] = pc[d] /\ batch'[d] = batch[d]
                   /\ at'[d] = at[d] /\ reply'[d] = reply[d]
        BY <3>9, <4>2 DEF Leave
      <4>3. ASSUME NEW d \in Client, ~touched', NEW n \in DOMAIN batch'[d],
                   pc'[d] = "checking", n < at'[d], batch'[d][n].kind = "updateClaim"
            PROVE  HasClaim(batch[d][n])'
        <5>1. HasClaim(batch[d][n])
          BY <4>1, <4>2, <4>3
        <5>2. QED
          BY <4>1, <4>2, <4>3, <5>1 DEF HasClaim
      <4>4. ASSUME NEW d \in Client, ~touched', NEW n \in DOMAIN batch'[d],
                   pc'[d] = "committing", n >= at'[d], batch'[d][n].kind = "updateClaim"
            PROVE  \/ HasClaim(batch[d][n])'
                   \/ \E j \in 1..(at'[d] - 1) : Rewrites(batch[d], j, batch[d][n].id)'
        <5>1. d # c /\ batch'[d] = batch[d] /\ at'[d] = at[d] /\ pc'[d] = pc[d]
          BY <4>1, <4>2, <4>4
        <5>2. \/ HasClaim(batch[d][n])
              \/ \E j \in 1..(at[d] - 1) : Rewrites(batch[d], j, batch[d][n].id)
          BY <4>1, <4>4, <5>1
        <5>3. HasClaim(batch[d][n]) => HasClaim(batch[d][n])'
          BY <4>1, <5>1 DEF HasClaim
        <5>4. ASSUME NEW j
              PROVE  Rewrites(batch[d], j, batch[d][n].id)
                       => Rewrites(batch[d], j, batch[d][n].id)'
          BY <5>1 DEF Rewrites
        <5>5. QED
          BY <5>1, <5>2, <5>3, <5>4
      <4>5. ASSUME NEW d \in Client, ~touched', Ended(d, {"claimNotFound"})', disk' # base'
            PROVE  \E j \in 1..(at'[d] - 1) : Rewrites(batch[d], j, Entry(d).id)'
        <5>1. d # c /\ batch'[d] = batch[d] /\ at'[d] = at[d] /\ pc'[d] = pc[d]
              /\ reply'[d] = reply[d]
          BY <4>1, <4>2, <4>5
        <5>2. \E j \in 1..(at[d] - 1) : Rewrites(batch[d], j, Entry(d).id)
          BY <4>1, <4>5, <5>1
        <5>3. ASSUME NEW j
              PROVE  Rewrites(batch[d], j, Entry(d).id) => Rewrites(batch[d], j, Entry(d).id)'
          BY <5>1 DEF Rewrites, Entry
        <5>4. QED
          BY <5>1, <5>2, <5>3
      <4>6. QED
        BY <4>3, <4>4, <4>5
    <3>10. QED
      BY <2>3, <3>1, <3>2, <3>3, <3>4, <3>5, <3>6, <3>7, <3>8, <3>9 DEF Handle
  <2>4. ASSUME NEW i \in Id, HandEdit(i)
        PROVE  ClaimInv'
    BY <2>4 DEF HandEdit
  <2>5. CASE Crash
    BY <2>5 DEF Crash
  <2>6. QED
    BY <2>1, <2>2, <2>3, <2>4, <2>5 DEF Next
<1>3. QED
  BY <1>1, <1>2, WellTyped, CheckingWritesNothing, CheckedStays, PTL DEF Spec

(* A batch that wrote something and then missed a claim lost it to one of  *)
(* its own entries, never to another batch.                                *)
THEOREM OnlyOwnRewritesDropClaims == Spec => []ClaimVanishesByOwnRewrite
<1>1. ClaimInv => ClaimVanishesByOwnRewrite
  BY DEF ClaimInv, ClaimVanishesByOwnRewrite
<1>2. QED
  BY <1>1, ClaimsStay, PTL

-----------------------------------------------------------------------------
(* The index of a corpus at rest                                            *)

(* The tables are those of the files, or something went wrong, or a batch  *)
(* is between its first write and its pass.                                *)
RowsInv ==
    \/ behind
    \/ rows = Projected
    \/ \E c \in Client :
          lock = c /\ pc[c] = "committing" /\ "written" \in ToSet(results[c])

(* The list of results only grows.                                         *)
LEMMA ResultsGrow ==
  ASSUME NEW s \in Seq({"written", "duplicate"}), NEW r \in {"written", "duplicate"}
  PROVE  /\ r \in ToSet(Append(s, r))
         /\ "written" \in ToSet(s) => "written" \in ToSet(Append(s, r))
<1>1. Append(s, r)[Len(s) + 1] = r /\ Len(s) + 1 \in DOMAIN Append(s, r)
  OBVIOUS
<1>2. \A n \in DOMAIN s : Append(s, r)[n] = s[n] /\ n \in DOMAIN Append(s, r)
  OBVIOUS
<1>3. QED
  BY <1>1, <1>2 DEF ToSet

(* Only a failure, a crash or a hand edit leaves the index behind.         *)
THEOREM IndexFollowsBatches == Spec => []RowsMatchFiles
<1>1. Init => RowsInv
  BY BatchAssumption, NoPageAssumption DEF Init, RowsInv, Projected
<1>2. TypeOK /\ HandlerInv /\ RowsInv /\ [Next]_vars => RowsInv'
  <2> SUFFICES ASSUME TypeOK, HandlerInv, RowsInv, [Next]_vars
               PROVE  RowsInv'
    OBVIOUS
  <2> USE DEF RowsInv, Projected, handlerVars, ghostVars
  <2>1. CASE UNCHANGED vars
    BY <2>1 DEF vars
  <2>2. ASSUME NEW c \in Client, NEW b \in Batches, Send(c, b)
        PROVE  RowsInv'
    BY <2>2 DEF Send, Goto, TypeOK
  <2>3. ASSUME NEW c \in Client, Handle(c)
        PROVE  RowsInv'
    <3> USE DEF End, Goto
    <3>1. CASE Reject(c)
      BY <3>1 DEF Reject, TypeOK
    <3>2. CASE Enter(c)
      BY <3>2, BatchAssumption DEF Enter
    <3>3. CASE Refuse(c) \/ Check(c) \/ BeginCommit(c)
      <4>1. UNCHANGED <<disk, rows, lock, results, behind>> /\ pc[c] = "checking"
            /\ \A d \in Client : d # c => pc'[d] = pc[d]
        BY <3>3 DEF Refuse, Check, BeginCommit, TypeOK
      <4>2. QED
        BY <4>1
    <3>4. CASE Commit(c)
      <4>1. results'[c] = Append(results[c], "written") /\ pc'[c] = "committing"
            /\ lock' = c
        BY <3>4 DEF Commit, Committing, Advance, TypeOK, HandlerInv
      <4>2. results[c] \in Seq({"written", "duplicate"})
        BY DEF TypeOK
      <4>3. QED
        BY <4>1, <4>2, ResultsGrow
    <3>5. CASE Skip(c)
      <4>1. /\ results'[c] = Append(results[c], "duplicate")
            /\ pc[c] = "committing" /\ lock = c
            /\ UNCHANGED <<disk, rows, lock, pc, behind>>
        BY <3>5 DEF Skip, Committing, Advance, TypeOK, HandlerInv
      <4>2. results[c] \in Seq({"written", "duplicate"})
        BY DEF TypeOK
      <4>3. "written" \in ToSet(results[c]) => "written" \in ToSet(results'[c])
        BY <4>1, <4>2, ResultsGrow
      <4>4. QED
        BY <4>1, <4>3
    <3>6. CASE Abandon(c)
      <4>1. lock = c
        BY <3>6 DEF Abandon, Committing, HandlerInv
      <4>2. QED
        BY <3>6, <4>1 DEF Abandon
    <3>7. CASE LookupRaises(c) \/ WriteRaises(c) \/ PassRaises(c)
      BY <3>7 DEF LookupRaises, WriteRaises, PassRaises
    <3>8. CASE Pass(c)
      BY <3>8 DEF Pass
    <3>9. CASE Leave(c)
      <4>1. pc[c] = "leaving" /\ UNCHANGED <<disk, rows, behind>>
            /\ (lock # c => lock' = lock)
        BY <3>9 DEF Leave
      <4>2. \A d \in Client : d # c => pc'[d] = pc[d] /\ results'[d] = results[d]
        BY <3>9 DEF Leave, TypeOK
      <4>3. QED
        BY <4>1, <4>2
    <3>10. QED
      BY <2>3, <3>1, <3>2, <3>3, <3>4, <3>5, <3>6, <3>7, <3>8, <3>9 DEF Handle
  <2>4. ASSUME NEW i \in Id, HandEdit(i)
        PROVE  RowsInv'
    BY <2>4 DEF HandEdit
  <2>5. CASE Crash
    BY <2>5 DEF Crash
  <2>6. QED
    BY <2>1, <2>2, <2>3, <2>4, <2>5 DEF Next
<1>3. RowsInv => RowsMatchFiles
  BY BatchAssumption DEF RowsInv, RowsMatchFiles
<1>4. QED
  BY <1>1, <1>2, <1>3, WellTyped, PTL DEF Spec

-----------------------------------------------------------------------------
(* A batch and the same calls made singly                                   *)

(* A set of numbers has a least one.                                       *)
LEMMA LeastNat ==
  ASSUME NEW T \in SUBSET Nat, T # {}
  PROVE  \E m \in T : \A n \in T : m <= n
<1> DEFINE Less == {ss \in Nat \X Nat : ss[1] < ss[2]}
<1>1. IsWellFoundedOn(Less, Nat)
  BY NatLessThanWellFounded DEF OpToRel
<1>2. PICK m \in T : \A n \in T : ~(<<n, m>> \in Less)
  BY <1>1, WFMin
<1>3. \A n \in T : ~(n < m)
  BY <1>2
<1>4. QED
  BY <1>3

\* The equation SerialRun is defined by, up to entry m.
SolvesSerial(f, m, b, d) ==
    f = [n \in 0..m |-> IF n = 0 THEN [disk |-> d, results |-> <<>>] ELSE Single(f[n - 1], b[n])]

(* Some function satisfies it.                                             *)
LEMMA SerialRunExists ==
  ASSUME NEW b \in Seq(BatchOp), NEW d
  PROVE  \E f : SolvesSerial(f, Len(b), b, d)
<1> DEFINE start == [disk |-> d, results |-> <<>>]
           Bad == {m \in Nat : ~(\E f : SolvesSerial(f, m, b, d))}
<1> USE DEF SolvesSerial
<1>1. Len(b) \in Nat
  OBVIOUS
<1>2. ASSUME Bad # {}
      PROVE  FALSE
  <2>1. PICK m \in Bad : \A n \in Bad : m <= n
    BY <1>2, LeastNat
  <2>2. m \in Nat
    BY <2>1
  <2>3. CASE m = 0
    <3> DEFINE g == [n \in 0..0 |-> start]
    <3>1. SolvesSerial(g, 0, b, d)
      OBVIOUS
    <3>2. QED
      BY <2>1, <2>3, <3>1
  <2>4. CASE m # 0
    <3>1. m - 1 \in Nat /\ ~(m <= m - 1)
      BY <2>2, <2>4
    <3>2. m - 1 \notin Bad
      BY <2>1, <3>1
    <3>3. PICK f : SolvesSerial(f, m - 1, b, d)
      BY <3>1, <3>2
    <3> DEFINE g == [n \in 0..m |-> IF n = m THEN Single(f[m - 1], b[m]) ELSE f[n]]
    <3>4. ASSUME NEW n \in 0..m
          PROVE  g[n] = IF n = 0 THEN start ELSE Single(g[n - 1], b[n])
      <4>1. CASE n = 0
        <5>1. g[0] = f[0] /\ 0 \in 0..(m - 1)
          BY <2>2, <2>4
        <5>2. f[0] = start
          BY <3>3, <5>1
        <5>3. QED
          BY <4>1, <5>1, <5>2
      <4>2. CASE n = m
        <5>1. n - 1 \in 0..m /\ n - 1 # m
          BY <2>2, <2>4, <4>2
        <5>2. g[n - 1] = f[m - 1] /\ g[n] = Single(f[m - 1], b[m])
          BY <4>2, <5>1
        <5>3. QED
          BY <2>4, <4>2, <5>2
      <4>3. CASE n # 0 /\ n # m
        <5>1. n \in 0..(m - 1) /\ n - 1 \in 0..m /\ n - 1 # m
          BY <2>2, <4>3
        <5>2. g[n] = f[n] /\ g[n - 1] = f[n - 1]
          BY <4>3, <5>1
        <5>3. f[n] = Single(f[n - 1], b[n])
          BY <3>3, <4>3, <5>1
        <5>4. QED
          BY <4>3, <5>2, <5>3
      <4>4. QED
        BY <4>1, <4>2, <4>3
    <3>5. g = [n \in 0..m |-> g[n]]
      OBVIOUS
    <3> HIDE DEF g
    <3>6. SolvesSerial(g, m, b, d)
      BY <3>4, <3>5
    <3>7. QED
      BY <2>1, <3>6
  <2>5. QED
    BY <2>3, <2>4
<1>3. QED
  BY <1>1, <1>2

(* The single calls: from the files, one after another.                    *)
LEMMA SerialSteps ==
  ASSUME NEW b \in Seq(BatchOp), NEW d
  PROVE  /\ SerialRun(b, d)[0] = [disk |-> d, results |-> <<>>]
         /\ \A n \in 1..Len(b) : SerialRun(b, d)[n] = Single(SerialRun(b, d)[n - 1], b[n])
<1>1. PICK f : SolvesSerial(f, Len(b), b, d)
  BY SerialRunExists
<1>2. SerialRun(b, d) = [n \in 0..Len(b) |->
                           IF n = 0 THEN [disk |-> d, results |-> <<>>]
                           ELSE Single(SerialRun(b, d)[n - 1], b[n])]
  BY <1>1, Zenon DEF SerialRun, SolvesSerial
<1>3. Len(b) \in Nat /\ 0 \in 0..Len(b) /\ \A n \in 1..Len(b) : n \in 0..Len(b) /\ n # 0
  OBVIOUS
<1>4. SerialRun(b, d)[0] = [disk |-> d, results |-> <<>>]
  BY <1>2, <1>3, Zenon
<1>5. ASSUME NEW n \in 1..Len(b)
      PROVE  SerialRun(b, d)[n] = Single(SerialRun(b, d)[n - 1], b[n])
  BY <1>2, <1>3, Zenon
<1>6. QED
  BY <1>4, <1>5

(* The files and the results so far are those of the entries so far, each  *)
(* made singly, from the files the batch found when it took the mutex.     *)
SerialInv ==
    /\ \A c \in Client : pc[c] \in {"idle", "validating", "checking"} => results[c] = <<>>
    /\ \A c \in Client : pc[c] = "committing" => at[c] - 1 \in 0..Len(batch[c])
    /\ \A c \in Client : pc[c] = "committing" /\ ~touched =>
          SerialRun(batch[c], base)[at[c] - 1] = [disk |-> disk, results |-> results[c]]
    /\ CommittedIsSerial

(* One committed or skipped entry is one single call.                      *)
LEMMA AdvanceIsSingle ==
  ASSUME TypeOK, HandlerInv, SerialInv, NEW c \in Client, Commit(c) \/ Skip(c), ~touched
  PROVE  SerialRun(batch[c], base)[at[c]] = [disk |-> disk', results |-> results'[c]]
<1> DEFINE op == Entry(c)
           so == SerialRun(batch[c], base)[at[c] - 1]
<1>1. pc[c] = "committing" /\ batch[c] \in Seq(BatchOp) /\ at[c] \in 1..Len(batch[c])
  BY BatchIsSeq DEF Commit, Skip, Committing
<1>2. SerialRun(batch[c], base)[at[c]] = Single(so, op)
  BY <1>1, SerialSteps DEF Entry
<1>3. so = [disk |-> disk, results |-> results[c]]
  BY <1>1 DEF SerialInv
<1>4. so.disk = disk /\ so.results = results[c]
  BY <1>3
<1>5. CASE Commit(c)
  <2>1. ~NothingToDo(op, disk[op.id])
    BY <1>5 DEF Commit
  <2>2. Single(so, op) = [disk |-> [disk EXCEPT ![op.id] = Edited(op, disk[op.id])],
                          results |-> Append(results[c], "written")]
    BY <1>4, <2>1 DEF Single
  <2>3. /\ disk' = [disk EXCEPT ![op.id] = Edited(op, disk[op.id])]
        /\ results'[c] = Append(results[c], "written")
    BY <1>5 DEF Commit, Advance, TypeOK
  <2>4. QED
    BY <1>2, <2>2, <2>3
<1>6. CASE Skip(c)
  <2>1. op.kind \notin WriteKinds /\ NothingToDo(op, disk[op.id])
    BY <1>6 DEF Skip, WriteKinds
  <2>2. Single(so, op) = [disk |-> disk, results |-> Append(results[c], "duplicate")]
    BY <1>4, <2>1 DEF Single
  <2>3. disk' = disk /\ results'[c] = Append(results[c], "duplicate")
    BY <1>6 DEF Skip, Advance, TypeOK
  <2>4. QED
    BY <1>2, <2>2, <2>3
<1>7. QED
  BY <1>5, <1>6

(* Every entry that was done was done on what the ones before it left.     *)
LEMMA SerialInvHolds == Spec => []SerialInv
<1>1. Init => SerialInv
  BY DEF Init, SerialInv, CommittedIsSerial, Ended
<1>2. TypeOK /\ HandlerInv /\ CleanInv /\ SerialInv /\ [Next]_vars => SerialInv'
  <2> SUFFICES ASSUME TypeOK, HandlerInv, CleanInv, SerialInv, [Next]_vars
               PROVE  SerialInv'
    OBVIOUS
  <2> USE DEF SerialInv, CommittedIsSerial, Ended, handlerVars, ghostVars
  <2>1. CASE UNCHANGED vars
    BY <2>1 DEF vars
  <2>2. ASSUME NEW c \in Client, NEW b \in Batches, Send(c, b)
        PROVE  SerialInv'
    BY <2>2 DEF Send, Goto, TypeOK
  <2>3. ASSUME NEW c \in Client, Handle(c)
        PROVE  SerialInv'
    <3> USE DEF End, Goto, TypeOK
    <3>1. CASE Reject(c)
      BY <3>1 DEF Reject
    <3>2. CASE Enter(c)
      <4>1. ASSUME NEW d \in Client
            PROVE  pc'[d] # "committing" /\ ~Ended(d, {"committed"})'
        BY <3>2, BatchAssumption DEF Enter, HandlerInv
      <4>2. QED
        BY <3>2, <4>1 DEF Enter
    <3>3. CASE Refuse(c)
      <4>1. Verdict(Entry(c)) # "committed"
        BY VerdictIsReply
      <4>2. QED
        BY <3>3, <4>1 DEF Refuse
    <3>4. CASE Check(c)
      BY <3>4 DEF Check
    <3>5. CASE BeginCommit(c)
      <4>1. /\ pc[c] = "checking" /\ at'[c] = 1 /\ results[c] = <<>>
            /\ UNCHANGED <<disk, batch, reply, results, base, touched>>
        BY <3>5 DEF BeginCommit
      <4>2. ~touched => disk = base
        BY <4>1 DEF CleanInv
      <4>3. batch[c] \in Seq(BatchOp) /\ Len(batch[c]) \in Nat
        BY BatchIsSeq
      <4>4. ~touched => SerialRun(batch[c], base)[0] = [disk |-> disk, results |-> results[c]]
        BY <4>1, <4>2, <4>3, SerialSteps
      <4>5. at'[c] - 1 = 0 /\ 0 \in 0..Len(batch[c])
        BY <4>1, <4>3
      <4>6. ASSUME NEW d \in Client, d # c
            PROVE  pc'[d] = pc[d] /\ at'[d] = at[d]
        BY <3>5, <4>6 DEF BeginCommit
      <4>7. pc'[c] = "committing"
        BY <3>5 DEF BeginCommit
      <4>8. QED
        BY <4>1, <4>4, <4>5, <4>6, <4>7
    <3>6. CASE Commit(c) \/ Skip(c)
      <4>1. /\ pc[c] = "committing" /\ lock = c /\ at'[c] = at[c] + 1
            /\ UNCHANGED <<pc, batch, reply, base, touched>>
        BY <3>6 DEF Commit, Skip, Committing, Advance, HandlerInv
      <4>2. ASSUME NEW d \in Client, d # c
            PROVE  /\ pc'[d] \in {"idle", "validating"} \/ ~Ended(d, {"committed"})'
                   /\ pc'[d] \notin {"checking", "committing"}
                   /\ results'[d] = results[d]
        BY <3>6, <4>1, <4>2 DEF Commit, Skip, Advance, HandlerInv
      <4>3. ~touched => SerialRun(batch[c], base)[at[c]] = [disk |-> disk', results |-> results'[c]]
        BY <3>6, AdvanceIsSingle
      <4>4. at'[c] - 1 = at[c] /\ at[c] \in 0..Len(batch[c])
        BY <3>6, <4>1, BatchIsSeq DEF Commit, Skip, Committing
      <4>5. ~Ended(c, {"committed"})' /\ pc'[c] = "committing"
        BY <4>1
      <4>6. ASSUME NEW d \in Client
            PROVE  ~Ended(d, {"committed"})'
        BY <4>1, <4>5, <4>6, BatchAssumption DEF HandlerInv
      <4>7. QED
        BY <4>1, <4>2, <4>3, <4>4, <4>5, <4>6
    <3>7. CASE Abandon(c)
      <4>1. CommitError(Entry(c)) # "committed"
        BY CommitErrorIsReply
      <4>2. QED
        BY <3>7, <4>1 DEF Abandon
    <3>8. CASE LookupRaises(c) \/ WriteRaises(c) \/ PassRaises(c)
      BY <3>8 DEF LookupRaises, WriteRaises, PassRaises
    <3>9. CASE Pass(c)
      <4>1. /\ pc[c] = "committing" /\ at[c] > Len(batch[c]) /\ pc'[c] = "leaving"
            /\ UNCHANGED <<disk, batch, at, results, base, touched>>
        BY <3>9 DEF Pass
      <4>2. at[c] - 1 = Len(batch[c])
        BY <4>1, BatchIsSeq
      <4>3. ~touched => Serially(batch[c], base) = [disk |-> disk, results |-> results[c]]
        BY <4>1, <4>2 DEF Serially
      <4>4. ASSUME NEW d \in Client, d # c
            PROVE  pc'[d] = pc[d] /\ reply'[d] = reply[d]
        BY <3>9, <4>4 DEF Pass
      <4>5. QED
        BY <4>1, <4>3, <4>4
    <3>10. CASE Leave(c)
      <4>1. ASSUME NEW d \in Client, d # c
            PROVE  /\ pc'[d] = pc[d] /\ batch'[d] = batch[d] /\ at'[d] = at[d]
                   /\ reply'[d] = reply[d] /\ results'[d] = results[d]
        BY <3>10, <4>1 DEF Leave
      <4>2. pc'[c] = "idle" /\ results'[c] = <<>> /\ UNCHANGED <<disk, base, touched>>
        BY <3>10 DEF Leave
      <4>3. QED
        BY <4>1, <4>2
    <3>11. QED
      BY <2>3, <3>1, <3>2, <3>3, <3>4, <3>5, <3>6, <3>7, <3>8, <3>9, <3>10 DEF Handle
  <2>4. ASSUME NEW i \in Id, HandEdit(i)
        PROVE  SerialInv'
    BY <2>4 DEF HandEdit
  <2>5. CASE Crash
    BY <2>5 DEF Crash
  <2>6. QED
    BY <2>1, <2>2, <2>3, <2>4, <2>5 DEF Next
<1>3. QED
  BY <1>1, <1>2, WellTyped, CheckingWritesNothing, PTL DEF Spec

(* A batch that is committed is its entries, made singly and in order.     *)
THEOREM BatchesAreSerial == Spec => []CommittedIsSerial
<1>1. SerialInv => CommittedIsSerial
  BY DEF SerialInv
<1>2. QED
  BY <1>1, SerialInvHolds, PTL

\* The files and the results are those of some first entries of client c's batch.
DoneInOrder(c) ==
    \E n \in 0..Len(batch[c]) :
        SerialRun(batch[c], base)[n] = [disk |-> disk, results |-> results[c]]

\* So it is whenever a batch has the mutex: before its first write, between any
\* two, and after the last one, whatever it is going to answer.
FirstEntriesOnly == \A c \in Client : lock = c /\ ~touched => DoneInOrder(c)

(* It follows from what is done so far, until the handler ends.            *)
LEMMA DoneWhileWorking ==
  ASSUME TypeOK, CleanInv, SerialInv, NEW c \in Client, pc[c] \in {"checking", "committing"}, ~touched
  PROVE  DoneInOrder(c)
<1>1. batch[c] \in Seq(BatchOp) /\ 0 \in 0..Len(batch[c])
  BY BatchIsSeq
<1>2. CASE pc[c] = "checking"
  <2>1. disk = base /\ results[c] = <<>>
    BY <1>2 DEF CleanInv, SerialInv
  <2>2. SerialRun(batch[c], base)[0] = [disk |-> disk, results |-> results[c]]
    BY <1>1, <2>1, SerialSteps
  <2>3. QED
    BY <1>1, <2>2 DEF DoneInOrder
<1>3. CASE pc[c] = "committing"
  BY <1>3 DEF SerialInv, DoneInOrder
<1>4. QED
  BY <1>2, <1>3

(* A handler that ends, and one that has ended, writes no more.            *)
LEMMA EndedWritesNothing ==
  ASSUME TypeOK, HandlerInv, [Next]_vars, NEW c \in Client,
         lock' = c, pc'[c] = "leaving", ~touched'
  PROVE  lock = c /\ ~touched /\ batch'[c] = batch[c] /\ results'[c] = results[c]
         /\ UNCHANGED <<disk, base>>
<1> USE BatchAssumption DEF TypeOK, End, Goto, handlerVars, ghostVars
<1>1. CASE UNCHANGED vars
  BY <1>1 DEF vars
<1>2. ASSUME NEW d \in Client, NEW b \in Batches, Send(d, b)
      PROVE  lock = c /\ ~touched /\ batch'[c] = batch[c] /\ results'[c] = results[c]
             /\ UNCHANGED <<disk, base>>
  BY <1>2 DEF Send
<1>3. ASSUME NEW d \in Client, Handle(d)
      PROVE  lock = c /\ ~touched /\ batch'[c] = batch[c] /\ results'[c] = results[c]
             /\ UNCHANGED <<disk, base>>
  <2>1. CASE Reject(d)
    BY <1>3, <2>1 DEF Reject
  <2>2. CASE Enter(d)
    BY <1>3, <2>2 DEF Enter
  <2>3. CASE Refuse(d)
    BY <1>3, <2>3 DEF Refuse
  <2>4. CASE Check(d) \/ BeginCommit(d)
    BY <1>3, <2>4 DEF Check, BeginCommit
  <2>5. CASE Commit(d) \/ Skip(d)
    <3>1. lock = d /\ pc[d] = "committing" /\ pc' = pc /\ lock' = lock
      BY <1>3, <2>5 DEF Commit, Skip, Advance, Committing, HandlerInv
    <3>2. QED
      BY <3>1
  <2>6. CASE Abandon(d) \/ LookupRaises(d) \/ WriteRaises(d)
    BY <1>3, <2>6 DEF Abandon, LookupRaises, WriteRaises
  <2>7. CASE Pass(d) \/ PassRaises(d)
    BY <1>3, <2>7 DEF Pass, PassRaises
  <2>8. CASE Leave(d)
    BY <1>3, <2>8 DEF Leave
  <2>9. QED
    BY <1>3, <2>1, <2>2, <2>3, <2>4, <2>5, <2>6, <2>7, <2>8 DEF Handle
<1>4. ASSUME NEW i \in Id, HandEdit(i)
      PROVE  FALSE
  BY <1>4 DEF HandEdit
<1>5. CASE Crash
  BY <1>5 DEF Crash
<1>6. QED
  BY <1>1, <1>2, <1>3, <1>4, <1>5 DEF Next

(* However a batch ends, by an error, an exception, a crash or a commit,   *)
(* what it leaves in the files is that of its first entries made singly:   *)
(* none is left out before one that is done, none is done half or twice.   *)
THEOREM EveryEndLeavesAPrefix == Spec => []FirstEntriesOnly
<1> DEFINE Working == \A c \in Client : lock = c /\ ~touched =>
                          pc[c] = "leaving" \/ DoneInOrder(c)
<1>1. Init => FirstEntriesOnly
  BY BatchAssumption DEF Init, FirstEntriesOnly
<1>2. TypeOK /\ HandlerInv /\ CleanInv /\ SerialInv => Working
  <2> SUFFICES ASSUME TypeOK, HandlerInv, CleanInv, SerialInv,
                      NEW c \in Client, lock = c, ~touched, pc[c] # "leaving"
               PROVE  DoneInOrder(c)
    OBVIOUS
  <2>1. pc[c] \notin {"idle", "validating"}
    BY DEF HandlerInv
  <2>2. pc[c] \in {"checking", "committing"}
    BY <2>1 DEF TypeOK
  <2>3. QED
    BY <2>2, DoneWhileWorking
<1>3. TypeOK /\ HandlerInv /\ FirstEntriesOnly /\ [Next]_vars /\ Working' => FirstEntriesOnly'
  <2> SUFFICES ASSUME TypeOK, HandlerInv, FirstEntriesOnly, [Next]_vars, Working',
                      NEW c \in Client, lock' = c, ~touched'
               PROVE  DoneInOrder(c)'
    BY DEF FirstEntriesOnly
  <2>1. CASE pc'[c] = "leaving"
    <3>1. lock = c /\ ~touched /\ batch'[c] = batch[c] /\ results'[c] = results[c]
          /\ UNCHANGED <<disk, base>>
      BY <2>1, EndedWritesNothing
    <3>2. DoneInOrder(c)
      BY <3>1 DEF FirstEntriesOnly
    <3>3. QED
      BY <3>1, <3>2 DEF DoneInOrder
  <2>2. QED
    BY <2>1
<1>4. QED
  BY <1>1, <1>2, <1>3, WellTyped, CheckingWritesNothing, SerialInvHolds, PTL DEF Spec
=============================================================================
