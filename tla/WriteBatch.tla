----------------------------- MODULE WriteBatch ------------------------------
(***************************************************************************)
(* write_batch and write_pages: many calls in one, in three phases.  Every *)
(* entry is validated; then, under the corpus mutex, every entry's page is *)
(* looked up in the index; then every entry reads and rewrites its file in *)
(* turn, and one indexer pass ends the batch.  The docs call this an       *)
(* atomic transaction; the module says what it is when an entry fails in   *)
(* the third phase, the process dies, or somebody edits a file by hand.    *)
(*                                                                         *)
(* A batch of write_pages is one whose entries are write_page entries of   *)
(* one mode.  _serialize_and_write_page is one step: CorpusWrites takes it *)
(* apart.                                                                  *)
(***************************************************************************)
EXTENDS CorpusOps, Naturals, SequencesExt

CONSTANTS
    Client,       \* threads that run handlers
    Batches,      \* the batches clients send
    None,         \* nobody holds the mutex
    Unreadable,   \* a file that does not parse
    MaxBatches, MaxHandEdits, MaxCrashes   \* bounds, for TLC only

\* An entry that fails validation in the first phase.
InvalidOp == [kind : {"invalid"}]
\* The four kinds of entry; remove_* and the bulk forms are not accepted.
BatchOp == InvalidOp \cup WriteOp \cup AddLinksOp \cup AddClaimsOp \cup UpdateClaimOp

ASSUME BatchAssumption ==
    /\ Batches \subseteq Seq(BatchOp)
    /\ None \notin Client
    /\ Unreadable \notin PageContent \cup {NoPage}
    /\ MaxBatches \in Nat /\ MaxHandEdits \in Nat /\ MaxCrashes \in Nat

VARIABLES
    disk,     \* the file of each id
    rows,     \* what the tables hold for each id
    lock,     \* who holds the corpus mutex
    pc, batch, reply,
    at,       \* the entry a handler is about to check or commit
    results,  \* its `results` or `written` list
    used,     \* mangled ids handed out
    base,     \* the files when the present section began
    touched,  \* a file was edited by hand since then
    handmade, \* one was since the last pass
    behind,   \* a failure left the index behind the files
    sent, handEdits, crashes

handlerVars == <<lock, pc, batch, reply, at, results, used, sent>>
ghostVars == <<base, touched, handmade, behind, handEdits, crashes>>
vars == <<disk, rows, handlerVars, ghostVars>>

Replies == {"pending", "committed", "invalid", "notFound", "parseError",
            "claimNotFound", "collision", "lookupRaised", "writeRaised", "passRaised"}

FileContent == PageContent \cup {NoPage, Unreadable}

TypeOK ==
    /\ disk \in [Id -> FileContent]
    /\ rows \in [Id -> PageContent \cup {NoPage}]
    /\ lock \in Client \cup {None}
    /\ pc \in [Client -> {"idle", "validating", "checking", "committing", "leaving"}]
    /\ batch \in [Client -> Batches \cup {<<>>}]
    /\ reply \in [Client -> Replies]
    /\ at \in [Client -> Nat \ {0}]
    /\ results \in [Client -> Seq({"written", "duplicate"})]
    /\ used \subseteq SlugId
    /\ base \in [Id -> FileContent]
    /\ touched \in BOOLEAN /\ handmade \in BOOLEAN /\ behind \in BOOLEAN
    /\ sent \in Nat /\ handEdits \in Nat /\ crashes \in Nat

Init ==
    /\ disk = [i \in Id |-> NoPage]
    /\ rows = [i \in Id |-> NoPage]
    /\ lock = None
    /\ pc = [c \in Client |-> "idle"]
    /\ batch = [c \in Client |-> <<>>]
    /\ reply = [c \in Client |-> "pending"]
    /\ at = [c \in Client |-> 1]
    /\ results = [c \in Client |-> <<>>]
    /\ used = {}
    /\ base = disk
    /\ touched = FALSE /\ handmade = FALSE /\ behind = FALSE
    /\ sent = 0 /\ handEdits = 0 /\ crashes = 0

Goto(c, where) == pc' = [pc EXCEPT ![c] = where]
Entry(c) == batch[c][at[c]]

\* The handler returns or raises; `with app.mutex.acquire(...)` ends either way.
End(c, r) ==
    /\ reply' = [reply EXCEPT ![c] = r]
    /\ Goto(c, "leaving")
    /\ UNCHANGED <<lock, batch, at, results, used, sent>>

-----------------------------------------------------------------------------
(* Phase 1, without the mutex.                                              *)

Created(b) == {op.id : op \in {o \in ToSet(b) : o.kind = "create"}}
Valid(b) == \A n \in DOMAIN b : b[n].kind # "invalid"

Send(c, b) ==
    /\ pc[c] = "idle"
    /\ sent < MaxBatches
    /\ Created(b) \cap used = {}
    /\ used' = used \cup Created(b)
    /\ batch' = [batch EXCEPT ![c] = b]
    /\ sent' = sent + 1
    /\ Goto(c, "validating")
    /\ UNCHANGED <<disk, rows, lock, reply, at, results, ghostVars>>

Reject(c) ==
    /\ pc[c] = "validating"
    /\ ~Valid(batch[c])
    /\ End(c, "invalid")
    /\ UNCHANGED <<disk, rows, ghostVars>>

\* Mutant: the batch does not take the mutex.
EnterWithoutMutex(c) ==
    /\ pc[c] = "validating"
    /\ Valid(batch[c])
    /\ lock' = c
    /\ base' = disk
    /\ touched' = FALSE
    /\ Goto(c, "checking")
    /\ UNCHANGED <<disk, rows, batch, reply, at, results, used, sent,
                   handmade, behind, handEdits, crashes>>

Enter(c) ==
    /\ pc[c] = "validating"
    /\ Valid(batch[c])
    /\ lock = None
    /\ lock' = c
    /\ base' = disk
    /\ touched' = FALSE
    /\ Goto(c, "checking")
    /\ UNCHANGED <<disk, rows, batch, reply, at, results, used, sent,
                   handmade, behind, handEdits, crashes>>

-----------------------------------------------------------------------------
(* Phase 2: one lookup per entry, before the first write.                   *)

\* What the lookup answers.  add_link and add_claim ask the pages table only;
\* update_claim also opens the file.
Verdict(op) ==
    IF op.kind \in {"create", "upsert"} THEN "passed"
    ELSE IF rows[op.id] = NoPage THEN "notFound"
    ELSE IF op.kind # "updateClaim" THEN "passed"
    ELSE IF disk[op.id] = NoPage THEN "notFound"
    ELSE IF disk[op.id] = Unreadable THEN "parseError"
    ELSE IF NothingToDo(op, disk[op.id]) THEN "claimNotFound"
    ELSE "passed"

Refuse(c) ==
    /\ pc[c] = "checking"
    /\ at[c] <= Len(batch[c])
    /\ Verdict(Entry(c)) # "passed"
    /\ End(c, Verdict(Entry(c)))
    /\ UNCHANGED <<disk, rows, ghostVars>>

\* Mutant: the pages table is asked, the claim ids of the page are not.
CheckRowOnly(c) ==
    /\ pc[c] = "checking"
    /\ at[c] <= Len(batch[c])
    /\ Verdict(Entry(c)) \in {"passed", "claimNotFound"}
    /\ at' = [at EXCEPT ![c] = at[c] + 1]
    /\ UNCHANGED <<disk, rows, lock, pc, batch, reply, results, used, sent, ghostVars>>

\* Mutant: the two loops are one, an entry is written as soon as it is checked.
CheckAndCommit(c) ==
    /\ pc[c] = "checking"
    /\ at[c] <= Len(batch[c])
    /\ Verdict(Entry(c)) = "passed"
    /\ disk' = [disk EXCEPT ![Entry(c).id] = Edited(Entry(c), disk[Entry(c).id])]
    /\ at' = [at EXCEPT ![c] = at[c] + 1]
    /\ UNCHANGED <<rows, lock, pc, batch, reply, results, used, sent, ghostVars>>

\* Mutant: the lookup of the first entry stands for all.
CheckFirstOnly(c) ==
    /\ pc[c] = "checking"
    /\ at[c] <= Len(batch[c])
    /\ Verdict(Entry(c)) = "passed"
    /\ at' = [at EXCEPT ![c] = Len(batch[c]) + 1]
    /\ UNCHANGED <<disk, rows, lock, pc, batch, reply, results, used, sent, ghostVars>>

Check(c) ==
    /\ pc[c] = "checking"
    /\ at[c] <= Len(batch[c])
    /\ Verdict(Entry(c)) = "passed"
    /\ at' = [at EXCEPT ![c] = at[c] + 1]
    /\ UNCHANGED <<disk, rows, lock, pc, batch, reply, results, used, sent, ghostVars>>

BeginCommit(c) ==
    /\ pc[c] = "checking"
    /\ at[c] > Len(batch[c])
    /\ at' = [at EXCEPT ![c] = 1]
    /\ Goto(c, "committing")
    /\ UNCHANGED <<disk, rows, lock, batch, reply, results, used, sent, ghostVars>>

-----------------------------------------------------------------------------
(* Phase 3: one read-modify-write per entry.                                *)

Committing(c) == pc[c] = "committing" /\ at[c] <= Len(batch[c])

\* parse_page finds a page; a write_page entry does not look.
Found(op) == op.kind \in WriteKinds \/ disk[op.id] \in PageContent

\* The failures the code foresees at this point.
CommitError(op) ==
    CASE op.kind = "create" /\ rows[op.id] # NoPage -> "collision"
      [] op.kind = "updateClaim" /\ NothingToDo(op, disk[op.id]) -> "claimNotFound"
      [] OTHER -> "passed"

Advance(c, result) ==
    /\ at' = [at EXCEPT ![c] = at[c] + 1]
    /\ results' = [results EXCEPT ![c] = Append(results[c], result)]
    /\ UNCHANGED <<lock, pc, batch, reply, used, sent>>

\* Mutant: an edit starts from the page phase 2 saw, not from the present one.
CommitStale(c) ==
    LET op == Entry(c) IN
    /\ Committing(c)
    /\ Found(op)
    /\ CommitError(op) = "passed"
    /\ ~NothingToDo(op, disk[op.id])
    /\ disk' = [disk EXCEPT ![op.id] =
                    Edited(op, IF base[op.id] \in PageContent THEN base[op.id] ELSE disk[op.id])]
    /\ Advance(c, "written")
    /\ UNCHANGED <<rows, ghostVars>>

Commit(c) ==
    LET op == Entry(c) IN
    /\ Committing(c)
    /\ Found(op)
    /\ CommitError(op) = "passed"
    /\ ~NothingToDo(op, disk[op.id])
    /\ disk' = [disk EXCEPT ![op.id] = Edited(op, disk[op.id])]
    /\ Advance(c, "written")
    /\ UNCHANGED <<rows, ghostVars>>

Skip(c) ==
    /\ Committing(c)
    /\ Entry(c).kind \in {"addLinks", "addClaims"}
    /\ Found(Entry(c))
    /\ NothingToDo(Entry(c), disk[Entry(c).id])
    /\ Advance(c, "duplicate")
    /\ UNCHANGED <<disk, rows, ghostVars>>

\* `return {"error": ...}` in the middle of the third phase: no pass is run for
\* the entries that are written.
Abandon(c) ==
    /\ Committing(c)
    /\ Found(Entry(c))
    /\ CommitError(Entry(c)) # "passed"
    /\ End(c, CommitError(Entry(c)))
    /\ behind' = (behind \/ "written" \in ToSet(results[c]))
    /\ UNCHANGED <<disk, rows, base, touched, handmade, handEdits, crashes>>

\* parse_page raises, and nothing catches it here.
LookupRaises(c) ==
    /\ Committing(c)
    /\ ~Found(Entry(c))
    /\ End(c, "lookupRaised")
    /\ behind' = TRUE
    /\ UNCHANGED <<disk, rows, base, touched, handmade, handEdits, crashes>>

\* The disk is full, the directory not writable.
WriteRaises(c) ==
    /\ Committing(c)
    /\ Found(Entry(c))
    /\ CommitError(Entry(c)) = "passed"
    /\ ~NothingToDo(Entry(c), disk[Entry(c).id])
    /\ End(c, "writeRaised")
    /\ behind' = TRUE
    /\ UNCHANGED <<disk, rows, base, touched, handmade, handEdits, crashes>>

-----------------------------------------------------------------------------
(* The one pass at the end.                                                 *)

\* Mutant: a file that does not parse is indexed all the same.
ProjectedUnparsed == disk

\* Rows an incremental pass leaves: those of the files that parse.
Projected == [i \in Id |-> IF disk[i] = Unreadable THEN NoPage ELSE disk[i]]

\* Mutant: no pass when the last entry was a duplicate.
PassIfLastWritten(c) ==
    /\ pc[c] = "committing"
    /\ at[c] > Len(batch[c])
    /\ rows' = IF Last(results[c]) = "written" THEN Projected ELSE rows
    /\ handmade' = FALSE
    /\ behind' = FALSE
    /\ End(c, "committed")
    /\ UNCHANGED <<disk, base, touched, handEdits, crashes>>

Pass(c) ==
    /\ pc[c] = "committing"
    /\ at[c] > Len(batch[c])
    /\ rows' = Projected
    /\ handmade' = FALSE
    /\ behind' = FALSE
    /\ End(c, "committed")
    /\ UNCHANGED <<disk, base, touched, handEdits, crashes>>

PassRaises(c) ==
    /\ pc[c] = "committing"
    /\ at[c] > Len(batch[c])
    /\ End(c, "passRaised")
    /\ behind' = TRUE
    /\ UNCHANGED <<disk, rows, base, touched, handmade, handEdits, crashes>>

Leave(c) ==
    /\ pc[c] = "leaving"
    /\ lock' = IF lock = c THEN None ELSE lock
    /\ batch' = [batch EXCEPT ![c] = <<>>]
    /\ reply' = [reply EXCEPT ![c] = "pending"]
    /\ at' = [at EXCEPT ![c] = 1]
    /\ results' = [results EXCEPT ![c] = <<>>]
    /\ Goto(c, "idle")
    /\ UNCHANGED <<disk, rows, used, sent, ghostVars>>

-----------------------------------------------------------------------------
(* What comes from outside.                                                 *)

\* Somebody deletes a page's file or breaks its frontmatter.
HandEdit(i) ==
    /\ handEdits < MaxHandEdits
    /\ disk[i] \in PageContent
    /\ \E f \in {NoPage, Unreadable} : disk' = [disk EXCEPT ![i] = f]
    /\ handEdits' = handEdits + 1
    /\ touched' = TRUE /\ handmade' = TRUE /\ behind' = TRUE
    /\ UNCHANGED <<rows, handlerVars, base, crashes>>

Crash ==
    /\ crashes < MaxCrashes
    /\ crashes' = crashes + 1
    /\ behind' = (behind \/ \E c \in Client :
                              pc[c] = "committing" /\ "written" \in ToSet(results[c]))
    /\ lock' = None
    /\ pc' = [c \in Client |-> "idle"]
    /\ batch' = [c \in Client |-> <<>>]
    /\ reply' = [c \in Client |-> "pending"]
    /\ at' = [c \in Client |-> 1]
    /\ results' = [c \in Client |-> <<>>]
    /\ UNCHANGED <<disk, rows, used, sent, base, touched, handmade, handEdits>>

Handle(c) ==
    \/ Reject(c) \/ Enter(c)
    \/ Refuse(c) \/ Check(c) \/ BeginCommit(c)
    \/ Commit(c) \/ Skip(c) \/ Abandon(c) \/ LookupRaises(c) \/ WriteRaises(c)
    \/ Pass(c) \/ PassRaises(c)
    \/ Leave(c)

Next ==
    \/ \E c \in Client, b \in Batches : Send(c, b)
    \/ \E c \in Client : Handle(c)
    \/ \E i \in Id : HandEdit(i)
    \/ Crash

Spec == Init /\ [][Next]_vars

-----------------------------------------------------------------------------
(* Properties                                                               *)

Ended(c, replies) == pc[c] = "leaving" /\ reply[c] \in replies

\* One single call after another, from the files d: what each makes of its page.
Single(s, op) ==
    LET dup == op.kind \notin WriteKinds /\ NothingToDo(op, s.disk[op.id]) IN
    [disk |-> IF dup THEN s.disk
              ELSE [s.disk EXCEPT ![op.id] = Edited(op, s.disk[op.id])],
     results |-> Append(s.results, IF dup THEN "duplicate" ELSE "written")]
\* The files and the results after each number of the calls b, from the files d.
SerialRun(b, d) ==
    LET run[n \in 0..Len(b)] ==
            IF n = 0 THEN [disk |-> d, results |-> <<>>] ELSE Single(run[n - 1], b[n])
    IN  run
Serially(b, d) == SerialRun(b, d)[Len(b)]

\* A batch that answers `committed` leaves the files, and lists the results,
\* that its entries would if they were single calls made in that order: entries
\* on the same page build on one another, and nobody else's call comes between.
CommittedIsSerial ==
    \A c \in Client : Ended(c, {"committed"}) /\ ~touched =>
        Serially(batch[c], base) = [disk |-> disk, results |-> results[c]]

\* "Any failure aborts": a batch with an entry whose page is not there writes
\* nothing, wherever in the batch that entry is.
MissingPageWritesNothing ==
    \A c \in Client : Ended(c, {"notFound", "parseError"}) /\ ~touched => disk = base

\* Entry j of batch b writes page i as a whole.
Rewrites(b, j, i) == b[j].kind \in {"upsert", "update"} /\ b[j].id = i

\* Phase 3 finds a claim missing only where an earlier entry of the same batch
\* rewrote the page: otherwise phase 2 has found it, and nothing was written.
ClaimVanishesByOwnRewrite ==
    \A c \in Client : Ended(c, {"claimNotFound"}) /\ ~touched /\ disk # base =>
        \E j \in 1..(at[c] - 1) : Rewrites(batch[c], j, Entry(c).id)

\* "page_path can't be None, phase 2 verified existence": nor does parse_page
\* fail in phase 3, unless a file was edited by hand since the last pass.
LookupFindsWhatWasChecked ==
    \A c \in Client : Ended(c, {"lookupRaised"}) => handmade

\* At rest the tables are those of the files, unless a failure, a crash or a
\* hand edit came after the last pass.
RowsMatchFiles == lock = None /\ ~behind => rows = Projected

\* "Mixed-op atomic transaction": a batch that answers with an error of its own
\* has written nothing.
AllOrNothing ==
    \A c \in Client :
        Ended(c, {"notFound", "parseError", "claimNotFound"}) /\ ~touched => disk = base
=============================================================================
