------------------------- MODULE CorpusWritesProofs --------------------------
(***************************************************************************)
(* For any pages, calls, clients and crashes: no page is ever half         *)
(* written, the index of a corpus at rest is that of its files, and every  *)
(* call takes effect at one instant (SmaltCorpus).                         *)
(***************************************************************************)
EXTENDS CorpusWrites, TLAPS

-----------------------------------------------------------------------------
(* Calls and what they make of a page                                       *)

(* What a call is, by its kind.                                            *)
LEMMA OpFacts ==
  ASSUME NEW op \in Op
  PROVE  /\ op.kind \in WriteKinds \cup EditKinds \cup IndexKinds \cup {"removePage"}
         /\ op.kind = "create" => op \in CreateOp
         /\ op.kind = "upsert" => op \in UpsertOp
         /\ op.kind \in WriteKinds => op \in WriteOp /\ op.page \in PageContent
         /\ op.kind \in EditKinds => op \in EditOp
         /\ op.kind \notin IndexKinds => op.id \in Id
<1> USE DEF Op, WriteOp, EditOp, IndexOp, WriteKinds, EditKinds, IndexKinds, Id
<1>1. CASE op \in CreateOp
  BY <1>1 DEF CreateOp
<1>2. CASE op \in UpsertOp
  BY <1>2 DEF UpsertOp
<1>3. CASE op \in UpdateOp
  BY <1>3 DEF UpdateOp
<1>4. CASE op \in AddLinksOp
  BY <1>4 DEF AddLinksOp
<1>5. CASE op \in AddClaimsOp
  BY <1>5 DEF AddClaimsOp
<1>6. CASE op \in UpdateClaimOp
  BY <1>6 DEF UpdateClaimOp
<1>7. CASE op \in RemoveClaimOp
  BY <1>7 DEF RemoveClaimOp
<1>8. CASE op \in RemoveLinkOp
  BY <1>8 DEF RemoveLinkOp
<1>9. CASE op \in RemovePageOp
  BY <1>9 DEF RemovePageOp
<1>10. CASE op \in IndexOp
  BY <1>10
<1>11. QED
  BY <1>1, <1>2, <1>3, <1>4, <1>5, <1>6, <1>7, <1>8, <1>9, <1>10

(* An edit makes a page of a page.                                         *)
LEMMA EditMakesPage ==
  ASSUME NEW op \in EditOp, NEW p \in PageContent
  PROVE  Edited(op, p) \in PageContent
<1> USE DEF PageContent, Edited, WriteKinds
<1>1. CASE op \in AddLinksOp
  BY <1>1 DEF AddLinksOp, WithLinks
<1>2. CASE op \in AddClaimsOp
  BY <1>2 DEF AddClaimsOp, WithClaims, Claims
<1>3. CASE op \in UpdateClaimOp
  BY <1>3 DEF UpdateClaimOp, WithClaim, Claims
<1>4. CASE op \in RemoveClaimOp
  BY <1>4 DEF RemoveClaimOp, WithClaim, Claims
<1>5. CASE op \in RemoveLinkOp
  BY <1>5 DEF RemoveLinkOp, WithoutLinks
<1>6. QED
  BY <1>1, <1>2, <1>3, <1>4, <1>5 DEF EditOp

(* Every write, edit included, makes a page.                               *)
LEMMA EditedIsPage ==
  ASSUME NEW op \in Op, op.kind \in WriteKinds \cup EditKinds,
         NEW p \in PageContent \cup {NoPage}, op.kind \in EditKinds => p # NoPage
  PROVE  Edited(op, p) \in PageContent
<1>1. CASE op.kind \in WriteKinds
  BY <1>1, OpFacts DEF Edited, WriteKinds
<1>2. CASE op.kind \in EditKinds
  BY <1>2, OpFacts, EditMakesPage
<1>3. QED
  BY <1>1, <1>2

(* What a handler knows of the page once its existence check has passed.   *)
LEMMA ExistsFacts ==
  ASSUME NEW op \in Op, Exists(op)
  PROVE  /\ op.kind = "create" => rows[op.id] = NoPage
         /\ op.kind \in {"update", "removePage"} => rows[op.id] # NoPage
         /\ op.kind \in EditKinds => rows[op.id] # NoPage /\ disk[op.id] # NoPage
BY DEF Exists, EditKinds

-----------------------------------------------------------------------------
(* The inductive invariant                                                  *)

Writing == {"parsed", "torn", "written"}
Removing == {"rowGone", "rowsGone"}

(* TypeOK, and more: no file is torn, and what is renamed over one is a    *)
(* page.                                                                   *)
Typed ==
    /\ TypeOK
    /\ disk \in [Id -> PageOrNone]
    /\ \A c \in Client :
          /\ pc[c] \in Writing /\ call[c].kind \in EditKinds => snap[c] # NoPage
          /\ pc[c] = "written" => tmp[call[c].id] \in PageContent

(* Where a handler is tells whether it has the mutex, what it was called   *)
(* for and whether it has decided.                                         *)
HandlerInv ==
    \A c \in Client :
        /\ pc[c] \notin {"idle", "waiting"} => lock = c
        /\ pc[c] = "idle" <=> call[c] = NoCall
        /\ pc[c] \in Writing => call[c].kind \in WriteKinds \cup EditKinds
        /\ pc[c] \in Removing => call[c].kind = "removePage"
        /\ pc[c] \in {"idle", "waiting", "inside"} \cup Writing \cup Removing
             => reply[c] = "pending"
        /\ pc[c] = "replaced" => reply[c] = "ok"
        /\ pc[c] = "leaving" => reply[c] # "pending"

(* A call that is open is an Op, of the kind its handler works on.         *)
LEMMA CallIsOp ==
  ASSUME Typed, HandlerInv, NEW c \in Client, pc[c] # "idle"
  PROVE  call[c] \in Op
BY WritesAssumption DEF Typed, TypeOK, HandlerInv

(* The handlers keep their places, and types are kept: the mutex keeps a   *)
(* second writer away from the temporary file between its two writes.      *)
LEMMA WellTyped == Spec => [](Typed /\ HandlerInv)
<1> USE WritesAssumption
        DEF Typed, TypeOK, PageOrNone, HandlerInv, Writing, Removing,
            callVars, indexVars, ghostVars
<1>1. Init => Typed /\ HandlerInv
  <2> SUFFICES ASSUME Init
               PROVE  Typed /\ HandlerInv
    OBVIOUS
  <2>1. disk \in [Id -> PageOrNone \cup {Torn}] /\ tmp \in [Id -> PageOrNone \cup {Torn}]
    BY DEF Init
  <2>2. disk \in [Id -> PageOrNone] /\ rows \in [Id -> PageOrNone]
    BY DEF Init
  <2>3. pc \in [Client -> {"idle", "waiting", "inside", "parsed", "torn", "written",
                          "replaced", "rowGone", "rowsGone", "leaving"}]
    BY DEF Init
  <2>4. call \in [Client -> Calls \cup {NoCall}] /\ snap \in [Client -> PageOrNone]
    BY DEF Init
  <2>5. reply \in [Client -> {"pending", "ok", "nothing", "refused", "failed"}]
    BY DEF Init
  <2>6. HandlerInv
    BY DEF Init
  <2>7. QED
    BY <2>1, <2>2, <2>3, <2>4, <2>5, <2>6 DEF Init
<1>2. Typed /\ HandlerInv /\ [Next]_vars => Typed' /\ HandlerInv'
  <2> SUFFICES ASSUME Typed, HandlerInv, [Next]_vars
               PROVE  Typed' /\ HandlerInv'
    OBVIOUS
  <2>1. CASE UNCHANGED vars
    BY <2>1 DEF vars
  <2>2. ASSUME NEW c \in Client, NEW op \in Calls, Request(c, op)
        PROVE  Typed' /\ HandlerInv'
    <3>1. /\ op \in Op /\ op # NoCall
          /\ op.kind = "create" => op.id \in SlugId
      BY OpFacts DEF CreateOp
    <3>2. Typed'
      BY <2>2, <3>1 DEF Request, Goto
    <3>3. HandlerInv'
      BY <2>2, <3>1 DEF Request, Goto
    <3>4. QED
      BY <3>2, <3>3
  <2>3. ASSUME NEW c \in Client, Enter(c)
        PROVE  Typed' /\ HandlerInv'
    BY <2>3 DEF Enter, Goto
  <2>4. ASSUME NEW c \in Client, Refuse(c)
        PROVE  Typed' /\ HandlerInv'
    BY <2>4 DEF Refuse, Goto, Decide, Exists
  <2>5. ASSUME NEW c \in Client, Decline(c)
        PROVE  Typed' /\ HandlerInv'
    BY <2>5 DEF Decline, Goto, Decide, Exists
  <2>6. ASSUME NEW c \in Client, Parse(c)
        PROVE  Typed' /\ HandlerInv'
    <3>1. call[c] \in Op /\ call[c].id \in Id
      BY <2>6, CallIsOp, OpFacts DEF Parse, WriteKinds, EditKinds, IndexKinds
    <3>2. call[c].kind \in EditKinds => disk[call[c].id] # NoPage
      BY <2>6, <3>1, ExistsFacts DEF Parse
    <3>3. Typed'
      BY <2>6, <3>1, <3>2 DEF Parse, Goto
    <3>4. HandlerInv'
      BY <2>6, <3>1 DEF Parse, Goto
    <3>5. QED
      BY <3>3, <3>4
  <2>7. ASSUME NEW c \in Client, OpenTmp(c)
        PROVE  Typed' /\ HandlerInv'
    BY <2>7, CallIsOp, OpFacts DEF OpenTmp, Goto
  <2>8. ASSUME NEW c \in Client, FinishTmp(c)
        PROVE  Typed' /\ HandlerInv'
    <3>1. call[c] \in Op /\ call[c].kind \in WriteKinds \cup EditKinds
      BY <2>8, CallIsOp DEF FinishTmp
    <3>2. call[c].id \in Id
      BY <3>1, OpFacts DEF WriteKinds, EditKinds, IndexKinds
    <3>3. Edited(call[c], snap[c]) \in PageContent
      BY <2>8, <3>1, EditedIsPage DEF FinishTmp
    <3>4. Typed'
      BY <2>8, <3>2, <3>3 DEF FinishTmp, Goto
    <3>5. HandlerInv'
      BY <2>8 DEF FinishTmp, Goto
    <3>6. QED
      BY <3>4, <3>5
  <2>9. ASSUME NEW c \in Client, Replace(c)
        PROVE  Typed' /\ HandlerInv'
    BY <2>9, CallIsOp, OpFacts DEF Replace, Goto, Decide
  <2>10. ASSUME NEW c \in Client, Pass(c)
        PROVE  Typed' /\ HandlerInv'
    <3>1. linkRows' \subseteq Id \X Link
      BY <2>10 DEF Pass, LinksOf, Changed
    <3>2. Typed'
      BY <2>10, <3>1 DEF Pass, Goto
    <3>3. HandlerInv'
      BY <2>10 DEF Pass, Goto
    <3>4. QED
      BY <3>2, <3>3
  <2>11. ASSUME NEW c \in Client, PassRaises(c)
        PROVE  Typed' /\ HandlerInv'
    BY <2>11 DEF PassRaises, Goto, Decide
  <2>12. ASSUME NEW c \in Client, DeleteRow(c)
        PROVE  Typed' /\ HandlerInv'
    BY <2>12, CallIsOp, OpFacts DEF DeleteRow, Goto, Exists
  <2>13. ASSUME NEW c \in Client, DeleteLinks(c)
        PROVE  Typed' /\ HandlerInv'
    <3>1. call[c].id \in Id
      BY <2>13, CallIsOp, OpFacts DEF DeleteLinks, IndexKinds
    <3>2. linkRows' \subseteq Id \X Link
      BY <2>13 DEF DeleteLinks
    <3>3. Typed'
      BY <2>13, <3>1, <3>2 DEF DeleteLinks, Goto
    <3>4. HandlerInv'
      BY <2>13 DEF DeleteLinks, Goto
    <3>5. QED
      BY <3>3, <3>4
  <2>14. ASSUME NEW c \in Client, Unlink(c)
        PROVE  Typed' /\ HandlerInv'
    BY <2>14, CallIsOp, OpFacts DEF Unlink, Goto, Decide
  <2>15. ASSUME NEW c \in Client, Bootstrap(c)
        PROVE  Typed' /\ HandlerInv'
    BY <2>15 DEF Bootstrap, Goto, Decide
  <2>16. ASSUME NEW c \in Client, Wipe(c)
        PROVE  Typed' /\ HandlerInv'
    BY <2>16 DEF Wipe, Goto, Decide
  <2>17. ASSUME NEW c \in Client, Leave(c)
        PROVE  Typed' /\ HandlerInv'
    BY <2>17 DEF Leave, Goto
  <2>18. CASE Crash
    BY <2>18 DEF Crash
  <2>19. QED
    BY <2>1, <2>2, <2>3, <2>4, <2>5, <2>6, <2>7, <2>8, <2>9, <2>10, <2>11,
       <2>12, <2>13, <2>14, <2>15, <2>16, <2>17, <2>18 DEF Next, Handle
<1>3. QED
  BY <1>1, <1>2, PTL DEF Spec

(* Every variable keeps its type, for any number of clients and crashes.   *)
THEOREM TypeCorrect == Spec => []TypeOK
BY WellTyped, PTL DEF Typed

(* No reader, and no restarted process, ever finds a half-written page: the *)
(* rename in _serialize_and_write_page only ever moves a finished file.    *)
THEOREM PagesAreWhole == Spec => []NeverHalfWritten
<1>1. Typed => NeverHalfWritten
  BY WritesAssumption DEF Typed, PageOrNone, NeverHalfWritten
<1>2. QED
  BY <1>1, WellTyped, PTL

-----------------------------------------------------------------------------
(* The page a handler works from is the page that is there                  *)

(* A handler's snapshot is the file, from the parse to the rename.         *)
SnapshotInv ==
    \A c \in Client :
        /\ pc[c] \in Writing =>
             /\ snap[c] = disk[call[c].id]
             /\ call[c].kind \in EditKinds => ~NothingToDo(call[c], snap[c])
             /\ call[c].kind \in EditKinds \cup {"update"} => rows[call[c].id] # NoPage
        /\ pc[c] = "written" => tmp[call[c].id] = Edited(call[c], snap[c])

(* A client whose create has not yet taken effect.                         *)
Creating(c) ==
    pc[c] \in {"waiting", "inside"} \cup Writing /\ call[c].kind = "create"

(* A mangled id is nobody else's, and there is no page under it.           *)
FreshInv ==
    /\ \A i \in SlugId : disk[i] # NoPage \/ rows[i] # NoPage => i \in used
    /\ \A c \in Client : Creating(c) =>
          LET i == call[c].id IN i \in used /\ disk[i] = NoPage /\ rows[i] = NoPage
    /\ \A c, d \in Client :
          Creating(c) /\ Creating(d) /\ call[c].id = call[d].id => c = d

LEMMA SnapshotIsCurrent == Spec => []SnapshotInv
<1> USE WritesAssumption
        DEF Typed, TypeOK, PageOrNone, HandlerInv, Writing, Removing, SnapshotInv,
            callVars, indexVars, ghostVars
<1>1. Init => SnapshotInv
  BY DEF Init
<1>2. Typed /\ HandlerInv /\ SnapshotInv /\ [Next]_vars => SnapshotInv'
  <2> SUFFICES ASSUME Typed, HandlerInv, SnapshotInv, [Next]_vars
               PROVE  SnapshotInv'
    OBVIOUS
  <2>1. CASE UNCHANGED vars
    BY <2>1 DEF vars
  <2>2. ASSUME NEW c \in Client, NEW op \in Calls, Request(c, op)
        PROVE  SnapshotInv'
    BY <2>2 DEF Request, Goto
  <2>3. ASSUME NEW c \in Client, Enter(c)
        PROVE  SnapshotInv'
    BY <2>3 DEF Enter, Goto
  <2>4. ASSUME NEW c \in Client, Refuse(c)
        PROVE  SnapshotInv'
    BY <2>4 DEF Refuse, Goto, Decide, Exists
  <2>5. ASSUME NEW c \in Client, Decline(c)
        PROVE  SnapshotInv'
    BY <2>5 DEF Decline, Goto, Decide, Exists
  <2>6. ASSUME NEW c \in Client, Parse(c)
        PROVE  SnapshotInv'
    <3>1. call[c] \in Op /\ call[c].id \in Id
      BY <2>6, CallIsOp, OpFacts DEF Parse, WriteKinds, EditKinds, IndexKinds
    <3>2. call[c].kind \in EditKinds \cup {"update"} => rows[call[c].id] # NoPage
      BY <2>6, <3>1, ExistsFacts DEF Parse
    <3>3. QED
      BY <2>6, <3>1, <3>2 DEF Parse, Goto
  <2>7. ASSUME NEW c \in Client, OpenTmp(c)
        PROVE  SnapshotInv'
    BY <2>7 DEF OpenTmp, Goto
  <2>8. ASSUME NEW c \in Client, FinishTmp(c)
        PROVE  SnapshotInv'
    <3>1. call[c].id \in Id
      BY <2>8, CallIsOp, OpFacts DEF FinishTmp, WriteKinds, EditKinds, IndexKinds
    <3>2. QED
      BY <2>8, <3>1 DEF FinishTmp, Goto
  <2>9. ASSUME NEW c \in Client, Replace(c)
        PROVE  SnapshotInv'
    BY <2>9 DEF Replace, Goto, Decide
  <2>10. ASSUME NEW c \in Client, Pass(c)
        PROVE  SnapshotInv'
    BY <2>10 DEF Pass, Goto
  <2>11. ASSUME NEW c \in Client, PassRaises(c)
        PROVE  SnapshotInv'
    BY <2>11 DEF PassRaises, Goto, Decide
  <2>12. ASSUME NEW c \in Client, DeleteRow(c)
        PROVE  SnapshotInv'
    BY <2>12 DEF DeleteRow, Goto, Exists
  <2>13. ASSUME NEW c \in Client, DeleteLinks(c)
        PROVE  SnapshotInv'
    BY <2>13 DEF DeleteLinks, Goto
  <2>14. ASSUME NEW c \in Client, Unlink(c)
        PROVE  SnapshotInv'
    BY <2>14 DEF Unlink, Goto, Decide
  <2>15. ASSUME NEW c \in Client, Bootstrap(c)
        PROVE  SnapshotInv'
    BY <2>15 DEF Bootstrap, Goto, Decide
  <2>16. ASSUME NEW c \in Client, Wipe(c)
        PROVE  SnapshotInv'
    BY <2>16 DEF Wipe, Goto, Decide
  <2>17. ASSUME NEW c \in Client, Leave(c)
        PROVE  SnapshotInv'
    BY <2>17 DEF Leave, Goto
  <2>18. CASE Crash
    BY <2>18 DEF Crash
  <2>19. QED
    BY <2>1, <2>2, <2>3, <2>4, <2>5, <2>6, <2>7, <2>8, <2>9, <2>10, <2>11,
       <2>12, <2>13, <2>14, <2>15, <2>16, <2>17, <2>18 DEF Next, Handle
<1>3. QED
  BY <1>1, <1>2, WellTyped, PTL DEF Spec

LEMMA CreatesAreFresh == Spec => []FreshInv
<1> USE WritesAssumption, OpsAssumption
        DEF Typed, TypeOK, PageOrNone, HandlerInv, Writing, Removing, FreshInv,
            Creating, callVars, indexVars, ghostVars
<1>1. Init => FreshInv
  BY DEF Init, Id
<1>2. Typed /\ HandlerInv /\ SnapshotInv /\ FreshInv /\ [Next]_vars => FreshInv'
  <2> SUFFICES ASSUME Typed, HandlerInv, SnapshotInv, FreshInv, [Next]_vars
               PROVE  FreshInv'
    OBVIOUS
  <2>1. CASE UNCHANGED vars
    BY <2>1 DEF vars
  <2>2. ASSUME NEW c \in Client, NEW op \in Calls, Request(c, op)
        PROVE  FreshInv'
    <3>1. op \in Op /\ op # NoCall /\ (op.kind = "create" => op.id \in SlugId)
      BY OpFacts DEF CreateOp
    <3>2. QED
      BY <2>2, <3>1 DEF Request, Goto
  <2>3. ASSUME NEW c \in Client, Enter(c)
        PROVE  FreshInv'
    BY <2>3 DEF Enter, Goto
  <2>4. ASSUME NEW c \in Client, Refuse(c)
        PROVE  FreshInv'
    BY <2>4 DEF Refuse, Goto, Decide, Exists
  <2>5. ASSUME NEW c \in Client, Decline(c)
        PROVE  FreshInv'
    BY <2>5 DEF Decline, Goto, Decide, Exists
  <2>6. ASSUME NEW c \in Client, Parse(c)
        PROVE  FreshInv'
    BY <2>6 DEF Parse, Goto, Exists
  <2>7. ASSUME NEW c \in Client, OpenTmp(c)
        PROVE  FreshInv'
    BY <2>7 DEF OpenTmp, Goto
  <2>8. ASSUME NEW c \in Client, FinishTmp(c)
        PROVE  FreshInv'
    BY <2>8 DEF FinishTmp, Goto
  <2>9. ASSUME NEW c \in Client, Replace(c)
        PROVE  FreshInv'
    <3>1. /\ call[c] \in Op /\ call[c].id \in Id
          /\ call[c].kind \in WriteKinds \cup EditKinds
      BY <2>9, CallIsOp, OpFacts DEF Replace, WriteKinds, EditKinds, IndexKinds
    <3>2. call[c].kind = "upsert" => call[c].id \in SectionId
      BY <3>1, OpFacts DEF UpsertOp
    <3>3. call[c].id \in SlugId => call[c].id \in used
      BY <2>9, <3>1, <3>2 DEF Replace, WriteKinds, SnapshotInv
    <3>4. ASSUME NEW d \in Client, d # c, Creating(d)
          PROVE  call[d].id \in SlugId /\ call[d].id # call[c].id
      <4>1. call[d].id \in SlugId
        BY <3>4, CallIsOp, OpFacts DEF CreateOp
      <4>2. QED
        BY <2>9, <3>1, <3>2, <3>4, <4>1 DEF Replace, WriteKinds, SnapshotInv
    <3>5. QED
      BY <2>9, <3>1, <3>3, <3>4 DEF Replace, Goto, Decide, Id
  <2>10. ASSUME NEW c \in Client, Pass(c)
        PROVE  FreshInv'
    <3>1. rows' = disk /\ disk' = disk
      BY <2>10 DEF Pass
    <3>2. QED
      BY <2>10, <3>1 DEF Pass, Goto, Id
  <2>11. ASSUME NEW c \in Client, PassRaises(c)
        PROVE  FreshInv'
    BY <2>11 DEF PassRaises, Goto, Decide
  <2>12. ASSUME NEW c \in Client, DeleteRow(c)
        PROVE  FreshInv'
    <3>1. call[c].id \in Id
      BY <2>12, CallIsOp, OpFacts DEF DeleteRow, IndexKinds
    <3>2. QED
      BY <2>12, <3>1 DEF DeleteRow, Goto, Id
  <2>13. ASSUME NEW c \in Client, DeleteLinks(c)
        PROVE  FreshInv'
    BY <2>13 DEF DeleteLinks, Goto
  <2>14. ASSUME NEW c \in Client, Unlink(c)
        PROVE  FreshInv'
    <3>1. call[c].id \in Id
      BY <2>14, CallIsOp, OpFacts DEF Unlink, IndexKinds
    <3>2. QED
      BY <2>14, <3>1 DEF Unlink, Goto, Decide, Id
  <2>15. ASSUME NEW c \in Client, Bootstrap(c)
        PROVE  FreshInv'
    BY <2>15 DEF Bootstrap, Goto, Decide
  <2>16. ASSUME NEW c \in Client, Wipe(c)
        PROVE  FreshInv'
    <3>1. \A i \in Id : rows'[i] = NoPage
      BY <2>16 DEF Wipe
    <3>2. \A d \in Client : Creating(d) => call[d].id \in Id
      BY CallIsOp, OpFacts DEF CreateOp, Id
    <3>3. QED
      BY <2>16, <3>1, <3>2 DEF Wipe, Goto, Decide, Id
  <2>17. ASSUME NEW c \in Client, Leave(c)
        PROVE  FreshInv'
    BY <2>17 DEF Leave, Goto
  <2>18. CASE Crash
    BY <2>18 DEF Crash
  <2>19. QED
    BY <2>1, <2>2, <2>3, <2>4, <2>5, <2>6, <2>7, <2>8, <2>9, <2>10, <2>11,
       <2>12, <2>13, <2>14, <2>15, <2>16, <2>17, <2>18 DEF Next, Handle
<1>3. QED
  BY <1>1, <1>2, WellTyped, SnapshotIsCurrent, PTL DEF Spec

-----------------------------------------------------------------------------
(* The index at rest                                                        *)

(* Only a handler in the middle of remove_page may leave a row and its file *)
(* apart, unless the index is behind.                                      *)
RowsInv ==
    /\ \A c \in Client : pc[c] \in Removing => rows[call[c].id] = NoPage
    /\ \A i \in Id : rows[i] # NoPage => disk[i] # NoPage
    /\ ~behind => \A i \in Id :
          rows[i] = disk[i] \/ \E c \in Client : pc[c] \in Removing /\ call[c].id = i

(* The links table holds the links of the indexed pages, and at most the    *)
(* edges of a page whose row remove_page has just deleted.                 *)
LinksInv ==
    /\ \A r \in linkRows : IF rows[r[1]] # NoPage THEN r[2] \in rows[r[1]].links
                                                ELSE disk[r[1]] # NoPage
    /\ \A c \in Client : pc[c] = "rowsGone" => \A r \in linkRows : r[1] # call[c].id
    /\ \A i \in Id : rows[i] # NoPage =>
          \A l \in rows[i].links : <<i, l>> \in linkRows \/ l[1] \in removed

LEMMA RowsInvHolds == Spec => []RowsInv
<1> USE WritesAssumption
        DEF Typed, TypeOK, PageOrNone, HandlerInv, Writing, Removing, RowsInv,
            callVars, indexVars, ghostVars
<1>1. Init => RowsInv
  BY DEF Init
<1>2. Typed /\ HandlerInv /\ RowsInv /\ [Next]_vars => RowsInv'
  <2> SUFFICES ASSUME Typed, HandlerInv, RowsInv, [Next]_vars
               PROVE  RowsInv'
    OBVIOUS
  <2>1. CASE UNCHANGED vars
    BY <2>1 DEF vars
  <2>2. ASSUME NEW c \in Client, NEW op \in Calls, Request(c, op)
        PROVE  RowsInv'
    BY <2>2 DEF Request, Goto
  <2>3. ASSUME NEW c \in Client, Enter(c)
        PROVE  RowsInv'
    BY <2>3 DEF Enter, Goto
  <2>4. ASSUME NEW c \in Client, Refuse(c)
        PROVE  RowsInv'
    BY <2>4 DEF Refuse, Goto, Decide, Exists
  <2>5. ASSUME NEW c \in Client, Decline(c)
        PROVE  RowsInv'
    BY <2>5 DEF Decline, Goto, Decide, Exists
  <2>6. ASSUME NEW c \in Client, Parse(c)
        PROVE  RowsInv'
    BY <2>6 DEF Parse, Goto, Exists
  <2>7. ASSUME NEW c \in Client, OpenTmp(c)
        PROVE  RowsInv'
    BY <2>7 DEF OpenTmp, Goto
  <2>8. ASSUME NEW c \in Client, FinishTmp(c)
        PROVE  RowsInv'
    BY <2>8 DEF FinishTmp, Goto
  <2>9. ASSUME NEW c \in Client, Replace(c)
        PROVE  RowsInv'
    <3>1. /\ call[c].id \in Id /\ tmp[call[c].id] # NoPage
      BY <2>9, CallIsOp, OpFacts, NoPageAssumption DEF Replace, WriteKinds, EditKinds, IndexKinds
    <3>2. QED
      BY <2>9, <3>1 DEF Replace, Goto, Decide
  <2>10. ASSUME NEW c \in Client, Pass(c)
        PROVE  RowsInv'
    <3>1. rows' = disk /\ disk' = disk
      BY <2>10 DEF Pass
    <3>2. \A d \in Client : pc'[d] \notin Removing
      BY <2>10 DEF Pass, Goto
    <3>3. QED
      BY <3>1, <3>2
  <2>11. ASSUME NEW c \in Client, PassRaises(c)
        PROVE  RowsInv'
    BY <2>11 DEF PassRaises, Goto, Decide
  <2>12. ASSUME NEW c \in Client, DeleteRow(c)
        PROVE  RowsInv'
    <3>1. call[c].id \in Id
      BY <2>12, CallIsOp, OpFacts DEF DeleteRow, IndexKinds
    <3>2. QED
      BY <2>12, <3>1 DEF DeleteRow, Goto
  <2>13. ASSUME NEW c \in Client, DeleteLinks(c)
        PROVE  RowsInv'
    <3>1. UNCHANGED <<disk, rows, call, behind>>
      BY <2>13 DEF DeleteLinks
    <3>2. \A d \in Client : pc'[d] \in Removing <=> pc[d] \in Removing
      BY <2>13 DEF DeleteLinks, Goto
    <3>3. QED
      BY <3>1, <3>2
  <2>14. ASSUME NEW c \in Client, Unlink(c)
        PROVE  RowsInv'
    <3>1. call[c].id \in Id
      BY <2>14, CallIsOp, OpFacts DEF Unlink, IndexKinds
    <3>2. \A d \in Client : pc[d] \in Removing => d = c
      BY <2>14 DEF Unlink
    <3>3. QED
      BY <2>14, <3>1, <3>2 DEF Unlink, Goto, Decide
  <2>15. ASSUME NEW c \in Client, Bootstrap(c)
        PROVE  RowsInv'
    BY <2>15 DEF Bootstrap, Goto, Decide
  <2>16. ASSUME NEW c \in Client, Wipe(c)
        PROVE  RowsInv'
    BY <2>16 DEF Wipe, Goto, Decide
  <2>17. ASSUME NEW c \in Client, Leave(c)
        PROVE  RowsInv'
    BY <2>17 DEF Leave, Goto
  <2>18. CASE Crash
    BY <2>18 DEF Crash
  <2>19. QED
    BY <2>1, <2>2, <2>3, <2>4, <2>5, <2>6, <2>7, <2>8, <2>9, <2>10, <2>11,
       <2>12, <2>13, <2>14, <2>15, <2>16, <2>17, <2>18 DEF Next, Handle
<1>3. QED
  BY <1>1, <1>2, WellTyped, PTL DEF Spec

LEMMA LinksInvHolds == Spec => []LinksInv
<1> USE WritesAssumption
        DEF Typed, TypeOK, PageOrNone, HandlerInv, Writing, Removing, LinksInv,
            callVars, indexVars, ghostVars
<1>1. Init => LinksInv
  BY DEF Init
<1>2. Typed /\ HandlerInv /\ RowsInv /\ LinksInv /\ [Next]_vars => LinksInv'
  <2> SUFFICES ASSUME Typed, HandlerInv, RowsInv, LinksInv, [Next]_vars
               PROVE  LinksInv'
    OBVIOUS
  <2>1. CASE UNCHANGED vars
    BY <2>1 DEF vars
  <2>2. ASSUME NEW c \in Client, NEW op \in Calls, Request(c, op)
        PROVE  LinksInv'
    BY <2>2 DEF Request, Goto
  <2>3. ASSUME NEW c \in Client, Enter(c)
        PROVE  LinksInv'
    BY <2>3 DEF Enter, Goto
  <2>4. ASSUME NEW c \in Client, Refuse(c)
        PROVE  LinksInv'
    BY <2>4 DEF Refuse, Goto, Decide, Exists
  <2>5. ASSUME NEW c \in Client, Decline(c)
        PROVE  LinksInv'
    BY <2>5 DEF Decline, Goto, Decide, Exists
  <2>6. ASSUME NEW c \in Client, Parse(c)
        PROVE  LinksInv'
    BY <2>6 DEF Parse, Goto, Exists
  <2>7. ASSUME NEW c \in Client, OpenTmp(c)
        PROVE  LinksInv'
    BY <2>7 DEF OpenTmp, Goto
  <2>8. ASSUME NEW c \in Client, FinishTmp(c)
        PROVE  LinksInv'
    BY <2>8 DEF FinishTmp, Goto
  <2>9. ASSUME NEW c \in Client, Replace(c)
        PROVE  LinksInv'
    <3>1. /\ call[c].id \in Id /\ tmp[call[c].id] # NoPage
      BY <2>9, CallIsOp, OpFacts, NoPageAssumption DEF Replace, WriteKinds, EditKinds, IndexKinds
    <3>2. QED
      BY <2>9, <3>1 DEF Replace, Goto, Decide
  <2>10. ASSUME NEW c \in Client, Pass(c)
        PROVE  LinksInv'
    <3>1. /\ rows' = disk /\ disk' = disk /\ removed' = removed
          /\ linkRows' = {r \in linkRows : r[1] \notin Changed} \cup LinksOf(Changed)
      BY <2>10 DEF Pass
    <3>2. ASSUME NEW r \in linkRows'
          PROVE  disk[r[1]] # NoPage /\ r[2] \in disk[r[1]].links
      <4>1. CASE r \in linkRows /\ r[1] \notin Changed
        BY <4>1 DEF Changed
      <4>2. CASE r \in LinksOf(Changed)
        BY <4>2 DEF LinksOf
      <4>3. QED
        BY <3>1, <4>1, <4>2
    <3>3. ASSUME NEW i \in Id, disk[i] # NoPage, NEW l \in disk[i].links
          PROVE  <<i, l>> \in linkRows' \/ l[1] \in removed
      <4>1. CASE i \in Changed
        <5>1. l \in Link
          BY <3>3 DEF PageContent
        <5>2. <<i, l>> \in LinksOf(Changed)
          BY <3>3, <4>1, <5>1 DEF LinksOf
        <5>3. QED
          BY <3>1, <5>2
      <4>2. CASE i \notin Changed
        BY <3>1, <3>3, <4>2 DEF Changed
      <4>3. QED
        BY <4>1, <4>2
    <3>4. \A d \in Client : pc'[d] \notin Removing
      BY <2>10 DEF Pass, Goto
    <3>5. QED
      BY <3>1, <3>2, <3>3, <3>4
  <2>11. ASSUME NEW c \in Client, PassRaises(c)
        PROVE  LinksInv'
    BY <2>11 DEF PassRaises, Goto, Decide
  <2>12. ASSUME NEW c \in Client, DeleteRow(c)
        PROVE  LinksInv'
    <3>1. call[c].id \in Id
      BY <2>12, CallIsOp, OpFacts DEF DeleteRow, IndexKinds
    <3>2. disk[call[c].id] # NoPage
      BY <2>12, <3>1, ExistsFacts DEF DeleteRow, RowsInv
    <3>3. QED
      BY <2>12, <3>1, <3>2 DEF DeleteRow, Goto
  <2>13. ASSUME NEW c \in Client, DeleteLinks(c)
        PROVE  LinksInv'
    <3>1. call[c].id \in Id /\ rows[call[c].id] = NoPage
      BY <2>13, CallIsOp, OpFacts DEF DeleteLinks, IndexKinds, RowsInv
    <3>2. /\ UNCHANGED <<disk, rows, call>>
          /\ linkRows' = {r \in linkRows : r[1] # call[c].id /\ r[2][1] # call[c].id}
          /\ removed' = removed \cup {call[c].id}
      BY <2>13 DEF DeleteLinks
    <3>3. \A d \in Client : pc'[d] = "rowsGone" => d = c
      BY <2>13 DEF DeleteLinks, Goto
    <3>4. ASSUME NEW i \in Id, rows[i] # NoPage, NEW l \in rows[i].links
          PROVE  <<i, l>> \in linkRows' \/ l[1] \in removed'
      BY <3>1, <3>2, <3>4
    <3>5. QED
      BY <3>2, <3>3, <3>4
  <2>14. ASSUME NEW c \in Client, Unlink(c)
        PROVE  LinksInv'
    <3>1. call[c].id \in Id /\ rows[call[c].id] = NoPage
      BY <2>14, CallIsOp, OpFacts DEF Unlink, IndexKinds, RowsInv
    <3>2. QED
      BY <2>14, <3>1 DEF Unlink, Goto, Decide
  <2>15. ASSUME NEW c \in Client, Bootstrap(c)
        PROVE  LinksInv'
    BY <2>15 DEF Bootstrap, Goto, Decide
  <2>16. ASSUME NEW c \in Client, Wipe(c)
        PROVE  LinksInv'
    BY <2>16 DEF Wipe, Goto, Decide
  <2>17. ASSUME NEW c \in Client, Leave(c)
        PROVE  LinksInv'
    BY <2>17 DEF Leave, Goto
  <2>18. CASE Crash
    BY <2>18 DEF Crash
  <2>19. QED
    BY <2>1, <2>2, <2>3, <2>4, <2>5, <2>6, <2>7, <2>8, <2>9, <2>10, <2>11,
       <2>12, <2>13, <2>14, <2>15, <2>16, <2>17, <2>18 DEF Next, Handle
<1>3. QED
  BY <1>1, <1>2, WellTyped, RowsInvHolds, PTL DEF Spec

(* A corpus nobody is writing to, and that no crash or raising pass has left *)
(* behind, has exactly the rows of its files.                              *)
THEOREM IndexFollowsFiles == Spec => []RowsMatchFiles
<1>1. Typed /\ HandlerInv /\ RowsInv => RowsMatchFiles
  BY WritesAssumption
     DEF Typed, TypeOK, HandlerInv, RowsInv, Removing, RowsMatchFiles
<1>2. QED
  BY <1>1, WellTyped, RowsInvHolds, PTL

(* Its links table has no edge the markdown does not have.                 *)
THEOREM NoPhantomEdges == Spec => []LinkRowsAreReal
<1>1. RowsMatchFiles /\ LinksInv /\ Typed => LinkRowsAreReal
  BY DEF Typed, TypeOK, LinksInv, RowsMatchFiles, LinkRowsAreReal
<1>2. QED
  BY <1>1, IndexFollowsFiles, LinksInvHolds, WellTyped, PTL

(* And every edge of the markdown, but those remove_page has deleted along *)
(* with their target.                                                      *)
THEOREM OnlyRemovedEdgesAreMissing == Spec => []LinksAreIndexed
<1>1. RowsMatchFiles /\ LinksInv => LinksAreIndexed
  BY DEF LinksInv, RowsMatchFiles, LinksAreIndexed
<1>2. QED
  BY <1>1, IndexFollowsFiles, LinksInvHolds, PTL

(* A handler that answers not_found, or refuses a create, was right about    *)
(* the file: it looked at the row while it had the mutex, and no other     *)
(* handler can have parted the row from its file then.                     *)
THEOREM RefusalsAreHonest == Spec => NotFoundIsHonest
<1> USE DEF Typed, TypeOK, HandlerInv
<1>1. ASSUME Typed, HandlerInv, RowsInv, NEW c \in Client, Refuse(c), ~behind
      PROVE  (call[c].kind # "create") = (disk[call[c].id] = NoPage)
  <2>1. call[c] \in Op /\ lock = c /\ pc[c] = "inside" /\ ~Exists(call[c])
    BY <1>1, CallIsOp DEF Refuse
  <2>2. call[c].kind \in {"create", "update", "removePage"} \cup EditKinds
    BY <2>1, OpFacts DEF Exists, WriteKinds, IndexKinds
  <2>3. call[c].id \in Id
    BY <2>1, <2>2, OpFacts DEF IndexKinds, EditKinds
  <2>4. \A d \in Client : pc[d] \notin Removing
    BY <1>1, <2>1 DEF Removing
  <2>5. rows[call[c].id] = disk[call[c].id]
    BY <1>1, <2>3, <2>4 DEF RowsInv
  <2>6. CASE call[c].kind = "create"
    <3>1. rows[call[c].id] # NoPage
      BY <2>1, <2>6 DEF Exists, EditKinds
    <3>2. QED
      BY <2>5, <2>6, <3>1
  <2>7. CASE call[c].kind # "create"
    <3>1. disk[call[c].id] = NoPage
      BY <2>1, <2>2, <2>5, <2>7 DEF Exists, EditKinds
    <3>2. QED
      BY <2>7, <3>1
  <2>8. QED
    BY <2>6, <2>7
<1>2. ASSUME Typed, HandlerInv, RowsInv, [Next]_vars, NEW c \in Client,
             reply'[c] = "refused", reply[c] = "pending"
      PROVE  Refuse(c)
  <2>1. reply'[c] # reply[c]
    BY <1>2
  <2>2. ~UNCHANGED reply
    BY <2>1
  <2>3. ASSUME NEW d \in Client, Handle(d)
        PROVE  Refuse(d) \/ reply'[c] # "refused" \/ reply'[c] = reply[c]
    BY <1>2, <2>2, <2>3 DEF Handle, Enter, Decline, Parse, OpenTmp, FinishTmp, Replace, Pass,
       PassRaises, DeleteRow, DeleteLinks, Unlink, Bootstrap, Wipe, Leave, Decide, callVars
  <2>4. ASSUME NEW d \in Client, Refuse(d) PROVE d = c
    BY <1>2, <2>1, <2>4 DEF Refuse, Decide
  <2>5. QED
    BY <1>2, <2>1, <2>2, <2>3, <2>4 DEF Next, Request, Crash, vars
<1>3. Typed /\ HandlerInv /\ RowsInv /\ [Next]_vars =>
        [\A c \in Client :
            reply'[c] = "refused" /\ reply[c] = "pending" /\ ~behind =>
              (call[c].kind # "create") = (disk[call[c].id] = NoPage)]_vars
  BY <1>1, <1>2
<1>4. QED
  BY <1>3, WellTyped, RowsInvHolds, PTL DEF Spec, NotFoundIsHonest

-----------------------------------------------------------------------------
(* Every call takes effect at one instant                                   *)

LEMMA SameOps ==
  /\ Atomic!WriteKinds = WriteKinds /\ Atomic!EditKinds = EditKinds
  /\ Atomic!IndexKinds = IndexKinds /\ Atomic!Id = Id
  /\ \A op, p : Atomic!NothingToDo(op, p) <=> NothingToDo(op, p)
  /\ \A op, p : Atomic!Edited(op, p) = Edited(op, p)
BY DEF WriteKinds, EditKinds, IndexKinds, Id, NothingToDo, Edited, WithLinks,
       WithClaims, WithClaim, WithoutLinks,
       Atomic!WriteKinds, Atomic!EditKinds, Atomic!IndexKinds, Atomic!Id,
       Atomic!NothingToDo, Atomic!Edited, Atomic!WithLinks, Atomic!WithClaims,
       Atomic!WithClaim, Atomic!WithoutLinks

(* The handlers of tools.py implement SmaltCorpus: the parse under the mutex *)
(* is what an edit is computed from, the rename is where it takes effect,  *)
(* and every other step is invisible.                                      *)
THEOREM HandlersAreAtomic == Spec => AtomicCalls
<1> USE WritesAssumption
        DEF Typed, TypeOK, PageOrNone, HandlerInv, Writing, Removing,
            callVars, indexVars, ghostVars, Atomic!Decide, Atomic!Pending
<1>1. Init => Atomic!Init
  BY SameOps DEF Init, Atomic!Init
<1>2. /\ Typed /\ HandlerInv /\ SnapshotInv /\ FreshInv /\ [Next]_vars
      => [Atomic!Next]_(Atomic!vars)
  <2> SUFFICES ASSUME Typed, HandlerInv, SnapshotInv, FreshInv, [Next]_vars
               PROVE  [Atomic!Next]_(Atomic!vars)
    OBVIOUS
  <2> USE DEF Atomic!vars
  <2>1. CASE UNCHANGED vars
    BY <2>1 DEF vars
  <2>2. ASSUME NEW c \in Client, NEW op \in Calls, Request(c, op)
        PROVE  [Atomic!Next]_(Atomic!vars)
    <3>1. Atomic!Request(c)
      BY <2>2 DEF Request, Atomic!Request
    <3>2. QED
      BY <3>1 DEF Atomic!Next
  <2>3. ASSUME NEW c \in Client, Enter(c)
        PROVE  [Atomic!Next]_(Atomic!vars)
    BY <2>3 DEF Enter, Goto
  <2>4. ASSUME NEW c \in Client, Refuse(c)
        PROVE  [Atomic!Next]_(Atomic!vars)
    <3>1. Atomic!Refuse(c)
      BY <2>4 DEF Refuse, Decide, Atomic!Refuse
    <3>2. QED
      BY <3>1 DEF Atomic!Next
  <2>5. ASSUME NEW c \in Client, Decline(c)
        PROVE  [Atomic!Next]_(Atomic!vars)
    <3>1. disk[call[c].id] # NoPage
      BY <2>5, ExistsFacts DEF Decline
    <3>2. Atomic!Decline(c)
      BY <2>5, <3>1, SameOps DEF Decline, Decide, Atomic!Decline
    <3>3. QED
      BY <3>2 DEF Atomic!Next
  <2>6. ASSUME NEW c \in Client, Parse(c)
        PROVE  [Atomic!Next]_(Atomic!vars)
    BY <2>6 DEF Parse, Goto, Exists
  <2>7. ASSUME NEW c \in Client, OpenTmp(c)
        PROVE  [Atomic!Next]_(Atomic!vars)
    BY <2>7 DEF OpenTmp, Goto
  <2>8. ASSUME NEW c \in Client, FinishTmp(c)
        PROVE  [Atomic!Next]_(Atomic!vars)
    BY <2>8 DEF FinishTmp, Goto
  <2>9. ASSUME NEW c \in Client, Replace(c)
        PROVE  [Atomic!Next]_(Atomic!vars)
    <3>1. /\ snap[c] = disk[call[c].id]
          /\ call[c].kind \in EditKinds => ~NothingToDo(call[c], snap[c]) /\ snap[c] # NoPage
          /\ tmp[call[c].id] = Edited(call[c], snap[c])
          /\ call[c].kind \in WriteKinds \cup EditKinds
          /\ pc[c] # "idle" /\ reply[c] = "pending"
      BY <2>9 DEF Replace, SnapshotInv
    <3>2. call[c].kind = "create" => disk[call[c].id] = NoPage
      BY <2>9 DEF Replace, FreshInv, Creating
    <3>3. Atomic!Write(c)
      BY <2>9, <3>1, <3>2, SameOps DEF Replace, Decide, Atomic!Write
    <3>4. QED
      BY <3>3 DEF Atomic!Next
  <2>10. ASSUME NEW c \in Client, Pass(c)
        PROVE  [Atomic!Next]_(Atomic!vars)
    BY <2>10 DEF Pass, Goto
  <2>11. ASSUME NEW c \in Client, PassRaises(c)
        PROVE  [Atomic!Next]_(Atomic!vars)
    <3>1. Atomic!Fail(c)
      BY <2>11 DEF PassRaises, Decide, Atomic!Fail
    <3>2. QED
      BY <3>1 DEF Atomic!Next
  <2>12. ASSUME NEW c \in Client, DeleteRow(c)
        PROVE  [Atomic!Next]_(Atomic!vars)
    BY <2>12 DEF DeleteRow, Goto, Exists
  <2>13. ASSUME NEW c \in Client, DeleteLinks(c)
        PROVE  [Atomic!Next]_(Atomic!vars)
    BY <2>13 DEF DeleteLinks, Goto
  <2>14. ASSUME NEW c \in Client, Unlink(c)
        PROVE  [Atomic!Next]_(Atomic!vars)
    <3>1. Atomic!Remove(c)
      BY <2>14 DEF Unlink, Decide, Atomic!Remove
    <3>2. QED
      BY <3>1 DEF Atomic!Next
  <2>15. ASSUME NEW c \in Client, Bootstrap(c)
        PROVE  [Atomic!Next]_(Atomic!vars)
    <3>1. Atomic!Maintain(c)
      BY <2>15, SameOps DEF Bootstrap, Decide, Atomic!Maintain, IndexKinds
    <3>2. QED
      BY <3>1 DEF Atomic!Next
  <2>16. ASSUME NEW c \in Client, Wipe(c)
        PROVE  [Atomic!Next]_(Atomic!vars)
    <3>1. Atomic!Maintain(c)
      BY <2>16, SameOps DEF Wipe, Decide, Atomic!Maintain, IndexKinds
    <3>2. QED
      BY <3>1 DEF Atomic!Next
  <2>17. ASSUME NEW c \in Client, Leave(c)
        PROVE  [Atomic!Next]_(Atomic!vars)
    <3>1. Atomic!Return(c)
      BY <2>17 DEF Leave, Atomic!Return
    <3>2. QED
      BY <3>1 DEF Atomic!Next
  <2>18. CASE Crash
    <3>1. Atomic!Crash
      BY <2>18 DEF Crash, Atomic!Crash
    <3>2. QED
      BY <3>1 DEF Atomic!Next
  <2>19. QED
    BY <2>1, <2>2, <2>3, <2>4, <2>5, <2>6, <2>7, <2>8, <2>9, <2>10, <2>11,
       <2>12, <2>13, <2>14, <2>15, <2>16, <2>17, <2>18 DEF Next, Handle
<1>3. QED
  BY <1>1, <1>2, WellTyped, SnapshotIsCurrent, CreatesAreFresh, PTL
     DEF Spec, AtomicCalls, Atomic!Spec
=============================================================================
