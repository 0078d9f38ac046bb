---------------------------- MODULE CorpusWrites -----------------------------
(***************************************************************************)
(* The write tools of tools.py on a thread pool: each handler takes the    *)
(* corpus mutex, looks the page up in the index, parses its file, writes   *)
(* the new page to a sibling .tmp file, renames it over the old one and    *)
(* runs an incremental indexer pass before it lets the mutex go.           *)
(*                                                                         *)
(* The pass is one step here, or raises before it writes, as the embedder  *)
(* does; IndexerRun takes it apart and has what a pass cut short half way  *)
(* leaves.  The process may die between any two steps.  Nobody else edits  *)
(* the files (IndexerRun has hand edits), each id has one file, and a      *)
(* mangled id is new (the UUID4 suffix).                                   *)
(***************************************************************************)
EXTENDS CorpusOps, Naturals

CONSTANTS
    Client,      \* threads that run handlers
    Calls,       \* the calls clients make
    NoCall,
    None,        \* nobody holds the mutex
    Torn,        \* a temporary file that is partly written
    MaxCalls,    \* bound on calls, for TLC only
    MaxCrashes   \* bound on crashes, for TLC only

ASSUME WritesAssumption ==
    /\ Calls \subseteq Op
    /\ NoCall \notin Op
    /\ None \notin Client
    /\ Torn \notin PageContent \cup {NoPage}
    /\ MaxCalls \in Nat /\ MaxCrashes \in Nat

VARIABLES
    disk,      \* the .md file of each id
    tmp,       \* its .md.tmp sibling
    rows,      \* what the pages, embeddings and claims tables hold for each id
    linkRows,  \* the links table: <<from_id, link>>
    lock,      \* who holds the corpus mutex
    pc, call, reply,
    snap,      \* the page a handler parsed
    used,      \* mangled ids handed out so far
    calls, crashes,
    behind,    \* a crash or a raising pass left the index behind the files
    removed    \* ids whose edges remove_page has deleted

callVars == <<call, reply, used, calls>>
indexVars == <<rows, linkRows>>
ghostVars == <<crashes, behind, removed>>
vars == <<disk, tmp, rows, linkRows, lock, pc, call, reply, snap, used, calls,
          crashes, behind, removed>>

PageOrNone == PageContent \cup {NoPage}

TypeOK ==
    /\ disk \in [Id -> PageOrNone \cup {Torn}]
    /\ tmp \in [Id -> PageOrNone \cup {Torn}]
    /\ rows \in [Id -> PageOrNone]
    /\ linkRows \subseteq Id \X Link
    /\ lock \in Client \cup {None}
    /\ pc \in [Client -> {"idle", "waiting", "inside", "parsed", "torn", "written",
                          "replaced", "rowGone", "rowsGone", "leaving"}]
    /\ call \in [Client -> Calls \cup {NoCall}]
    /\ reply \in [Client -> {"pending", "ok", "nothing", "refused", "failed"}]
    /\ snap \in [Client -> PageOrNone]
    /\ used \subseteq SlugId
    /\ calls \in Nat /\ crashes \in Nat
    /\ behind \in BOOLEAN
    /\ removed \subseteq Id

Init ==
    /\ disk = [i \in Id |-> NoPage]
    /\ tmp = [i \in Id |-> NoPage]
    /\ rows = [i \in Id |-> NoPage]
    /\ linkRows = {}
    /\ lock = None
    /\ pc = [c \in Client |-> "idle"]
    /\ call = [c \in Client |-> NoCall]
    /\ reply = [c \in Client |-> "pending"]
    /\ snap = [c \in Client |-> NoPage]
    /\ used = {}
    /\ calls = 0 /\ crashes = 0
    /\ behind = FALSE
    /\ removed = {}

Goto(c, where) == pc' = [pc EXCEPT ![c] = where]
Decide(c, r) == reply' = [reply EXCEPT ![c] = r]

-----------------------------------------------------------------------------
(* A call arrives; the create flavour mangles its id before it waits.       *)

Request(c, op) ==
    /\ pc[c] = "idle"
    /\ calls < MaxCalls
    /\ op.kind = "create" => op.id \notin used
    /\ used' = IF op.kind = "create" THEN used \cup {op.id} ELSE used
    /\ call' = [call EXCEPT ![c] = op]
    /\ calls' = calls + 1
    /\ Goto(c, "waiting")
    /\ UNCHANGED <<disk, tmp, indexVars, lock, reply, snap, ghostVars>>

\* Mutant: the handler does not take the mutex.
EnterWithoutMutex(c) ==
    /\ pc[c] = "waiting"
    /\ lock' = c
    /\ Goto(c, "inside")
    /\ UNCHANGED <<disk, tmp, indexVars, callVars, snap, ghostVars>>

\* `with app.mutex.acquire(...)`.
Enter(c) ==
    /\ pc[c] = "waiting"
    /\ lock = None
    /\ lock' = c
    /\ Goto(c, "inside")
    /\ UNCHANGED <<disk, tmp, indexVars, callVars, snap, ghostVars>>

\* The existence check of each tool.  write_page asks the pages table only
\* (create wants no row, update wants one, a section id asks nothing that
\* matters); the edits want the row and the file.
Exists(op) ==
    CASE op.kind = "create" -> rows[op.id] = NoPage
      [] op.kind = "upsert" -> TRUE
      [] op.kind = "update" -> rows[op.id] # NoPage
      [] op.kind \in EditKinds -> rows[op.id] # NoPage /\ disk[op.id] # NoPage
      [] op.kind = "removePage" -> rows[op.id] # NoPage
      [] OTHER -> TRUE

\* not_found, or uuid_collision for a create.
Refuse(c) ==
    /\ pc[c] = "inside"
    /\ ~Exists(call[c])
    /\ Decide(c, "refused")
    /\ Goto(c, "leaving")
    /\ UNCHANGED <<disk, tmp, indexVars, lock, call, used, calls, snap, ghostVars>>

\* An edit finds its link or claim there, or not there: it writes nothing.
Decline(c) ==
    /\ pc[c] = "inside"
    /\ call[c].kind \in EditKinds
    /\ Exists(call[c])
    /\ NothingToDo(call[c], disk[call[c].id])
    /\ Decide(c, "nothing")
    /\ Goto(c, "leaving")
    /\ UNCHANGED <<disk, tmp, indexVars, lock, call, used, calls, snap, ghostVars>>

\* parse_page of the file an edit is about to rewrite.
Parse(c) ==
    /\ pc[c] = "inside"
    /\ call[c].kind \in WriteKinds \cup EditKinds
    /\ Exists(call[c])
    /\ call[c].kind \in EditKinds => ~NothingToDo(call[c], disk[call[c].id])
    /\ snap' = [snap EXCEPT ![c] = disk[call[c].id]]
    /\ Goto(c, "parsed")
    /\ UNCHANGED <<disk, tmp, indexVars, lock, callVars, ghostVars>>

-----------------------------------------------------------------------------
(* _serialize_and_write_page                                                *)

\* Mutant: the page is written in place.
OpenInPlace(c) ==
    /\ pc[c] = "parsed"
    /\ disk' = [disk EXCEPT ![call[c].id] = Torn]
    /\ Goto(c, "torn")
    /\ UNCHANGED <<tmp, indexVars, lock, callVars, snap, ghostVars>>

OpenTmp(c) ==
    /\ pc[c] = "parsed"
    /\ tmp' = [tmp EXCEPT ![call[c].id] = Torn]
    /\ Goto(c, "torn")
    /\ UNCHANGED <<disk, indexVars, lock, callVars, snap, ghostVars>>

FinishTmp(c) ==
    /\ pc[c] = "torn"
    /\ tmp' = [tmp EXCEPT ![call[c].id] = Edited(call[c], snap[c])]
    /\ Goto(c, "written")
    /\ UNCHANGED <<disk, indexVars, lock, callVars, snap, ghostVars>>

\* os.replace: from here on the call has taken effect.
Replace(c) ==
    /\ pc[c] = "written"
    /\ disk' = [disk EXCEPT ![call[c].id] = tmp[call[c].id]]
    /\ tmp' = [tmp EXCEPT ![call[c].id] = NoPage]
    /\ Decide(c, "ok")
    /\ Goto(c, "replaced")
    /\ behind' = TRUE
    /\ UNCHANGED <<indexVars, lock, call, used, calls, snap, crashes, removed>>

-----------------------------------------------------------------------------
(* _run_indexer                                                             *)

\* Pages whose file and row differ: what an incremental pass projects or sweeps.
Changed == {i \in Id : rows[i] # disk[i]}

LinksOf(ids) ==
    {r \in ids \X Link : disk[r[1]] # NoPage /\ r[2] \in disk[r[1]].links}

\* Mutant: the links of a page are added without deleting its old ones.
PassKeepsOldLinks(c) ==
    /\ pc[c] = "replaced"
    /\ rows' = disk
    /\ linkRows' = linkRows \cup LinksOf(Changed)
    /\ behind' = FALSE
    /\ Goto(c, "leaving")
    /\ UNCHANGED <<disk, tmp, lock, callVars, snap, crashes, removed>>

\* Mutant: the links of a page that is there already are left as they are.
PassSkipsLinksOfKnownPages(c) ==
    /\ pc[c] = "replaced"
    /\ rows' = disk
    /\ linkRows' = {r \in linkRows : rows[r[1]] # NoPage /\ disk[r[1]] # NoPage
                                       /\ r[2] \in disk[r[1]].links}
                     \cup LinksOf({i \in Id : rows[i] = NoPage})
    /\ behind' = FALSE
    /\ Goto(c, "leaving")
    /\ UNCHANGED <<disk, tmp, lock, callVars, snap, crashes, removed>>

\* The links of a page that changed are replaced; the others are left alone.
Pass(c) ==
    /\ pc[c] = "replaced"
    /\ rows' = disk
    /\ linkRows' = {r \in linkRows : r[1] \notin Changed} \cup LinksOf(Changed)
    /\ behind' = FALSE
    /\ Goto(c, "leaving")
    /\ UNCHANGED <<disk, tmp, lock, callVars, snap, crashes, removed>>

\* The embedder raises: the handler propagates it, the mutex is released, the
\* page stays on disk.
PassRaises(c) ==
    /\ pc[c] = "replaced"
    /\ Decide(c, "failed")
    /\ Goto(c, "leaving")
    /\ behind' = TRUE
    /\ UNCHANGED <<disk, tmp, indexVars, lock, call, used, calls, snap, crashes, removed>>

-----------------------------------------------------------------------------
(* remove_page: rows first, then the file, and no indexer pass              *)

\* Mutant: the pages row is left for the next sweep to find.
KeepRow(c) ==
    /\ pc[c] = "inside"
    /\ call[c].kind = "removePage"
    /\ Exists(call[c])
    /\ Goto(c, "rowGone")
    /\ UNCHANGED <<disk, tmp, indexVars, lock, callVars, snap, ghostVars>>

\* The rows that are the page's own, the pages row first.
DeleteRow(c) ==
    /\ pc[c] = "inside"
    /\ call[c].kind = "removePage"
    /\ Exists(call[c])
    /\ rows' = [rows EXCEPT ![call[c].id] = NoPage]
    /\ Goto(c, "rowGone")
    /\ UNCHANGED <<disk, tmp, linkRows, lock, callVars, snap, ghostVars>>

\* Every edge that leaves the page and every edge that points at it.
DeleteLinks(c) ==
    /\ pc[c] = "rowGone"
    /\ linkRows' = {r \in linkRows : r[1] # call[c].id /\ r[2][1] # call[c].id}
    /\ removed' = removed \cup {call[c].id}
    /\ Goto(c, "rowsGone")
    /\ UNCHANGED <<disk, tmp, rows, lock, callVars, snap, crashes, behind>>

\* Mutant: the file is looked for under another path, and not found.
UnlinkElsewhere(c) ==
    /\ pc[c] = "rowsGone"
    /\ Decide(c, "ok")
    /\ Goto(c, "leaving")
    /\ UNCHANGED <<disk, tmp, indexVars, lock, call, used, calls, snap, ghostVars>>

\* `if abs_path.exists(): abs_path.unlink()`.
Unlink(c) ==
    /\ pc[c] = "rowsGone"
    /\ disk' = [disk EXCEPT ![call[c].id] = NoPage]
    /\ Decide(c, "ok")
    /\ Goto(c, "leaving")
    /\ UNCHANGED <<tmp, indexVars, lock, call, used, calls, snap, ghostVars>>

-----------------------------------------------------------------------------
(* bootstrap runs a pass; reindex_all drops every row before it.            *)

Bootstrap(c) ==
    /\ pc[c] = "inside"
    /\ call[c].kind = "bootstrap"
    /\ Decide(c, "ok")
    /\ Goto(c, "replaced")
    /\ UNCHANGED <<disk, tmp, indexVars, lock, call, used, calls, snap, ghostVars>>

Wipe(c) ==
    /\ pc[c] = "inside"
    /\ call[c].kind = "reindexAll"
    /\ rows' = [i \in Id |-> NoPage]
    /\ linkRows' = {}
    /\ behind' = TRUE
    /\ Decide(c, "ok")
    /\ Goto(c, "replaced")
    /\ UNCHANGED <<disk, tmp, lock, call, used, calls, snap, crashes, removed>>

\* The handler leaves the mutex and answers.
Leave(c) ==
    /\ pc[c] = "leaving"
    /\ lock' = None
    /\ call' = [call EXCEPT ![c] = NoCall]
    /\ reply' = [reply EXCEPT ![c] = "pending"]
    /\ snap' = [snap EXCEPT ![c] = NoPage]
    /\ Goto(c, "idle")
    /\ UNCHANGED <<disk, tmp, indexVars, used, calls, ghostVars>>

\* The process dies and is started again.  Nothing of it is persistent but the
\* files and the tables; no pass runs at start.
Crash ==
    /\ crashes < MaxCrashes
    /\ crashes' = crashes + 1
    /\ behind' = (behind \/ \E c \in Client : pc[c] \in {"rowGone", "rowsGone"})
    /\ lock' = None
    /\ pc' = [c \in Client |-> "idle"]
    /\ call' = [c \in Client |-> NoCall]
    /\ reply' = [c \in Client |-> "pending"]
    /\ snap' = [c \in Client |-> NoPage]
    /\ UNCHANGED <<disk, tmp, indexVars, used, calls, removed>>

-----------------------------------------------------------------------------
Handle(c) ==
    \/ Enter(c) \/ Refuse(c) \/ Decline(c) \/ Parse(c)
    \/ OpenTmp(c) \/ FinishTmp(c) \/ Replace(c)
    \/ Pass(c) \/ PassRaises(c)
    \/ DeleteRow(c) \/ DeleteLinks(c) \/ Unlink(c)
    \/ Bootstrap(c) \/ Wipe(c)
    \/ Leave(c)

Next ==
    \/ \E c \in Client, op \in Calls : Request(c, op)
    \/ \E c \in Client : Handle(c)
    \/ Crash

Spec == Init /\ [][Next]_vars

-----------------------------------------------------------------------------
(* Properties                                                               *)

\* Every call takes effect at one instant on what the page holds then, or not
\* at all: no add_link or add_claim is lost to a concurrent one, a create never
\* overwrites a page, and a crash loses or keeps a call as a whole.
Atomic == INSTANCE SmaltCorpus WITH pages <- disk
AtomicCalls == Atomic!Spec

\* "A reader never sees a half-written page": two writers share the name of the
\* temporary file, and a crash may leave it torn.
NeverHalfWritten == \A i \in Id : disk[i] # Torn

\* While nobody holds the mutex the index rows are those of the files, unless
\* a crash or a raising pass left it behind; the next pass of any tool makes
\* up for that.
RowsMatchFiles == lock = None /\ ~behind => rows = disk

\* No edge in the links table that the markdown of its page does not have.
LinkRowsAreReal ==
    lock = None /\ ~behind =>
        \A r \in linkRows : disk[r[1]] # NoPage /\ r[2] \in disk[r[1]].links

\* And every edge in the markdown is in the table, unless its target was once
\* removed by remove_page.
LinksAreIndexed ==
    lock = None /\ ~behind =>
        \A i \in Id : disk[i] # NoPage =>
            \A l \in disk[i].links : <<i, l>> \in linkRows \/ l[1] \in removed

\* A tool that answers not_found does so for a page that is not there; one that
\* refuses a create, for a page that is.
NotFoundIsHonest ==
    [][\A c \in Client :
          reply'[c] = "refused" /\ reply[c] = "pending" /\ ~behind =>
              (call[c].kind # "create") = (disk[call[c].id] = NoPage)]_vars

\* "Any state that cannot be rebuilt from pages/ is a bug": the links table is
\* a function of the markdown, also for a target that was removed and written
\* again.
LinkTableIsProjection ==
    lock = None /\ ~behind =>
        \A i \in Id : disk[i] # NoPage =>
            \A l \in disk[i].links : disk[l[1]] # NoPage => <<i, l>> \in linkRows
=============================================================================
