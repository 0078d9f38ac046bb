------------------------------ MODULE IndexerRun ------------------------------
(***************************************************************************)
(* One indexer pass over the corpus (storage/indexer.py, Indexer.run), one *)
(* action per write it makes to a LanceDB table or to an index page, with  *)
(* hand edits of the markdown at any moment and with passes that end half  *)
(* way: a crash, an exception of the store or of the embedder, or a        *)
(* cancelled reindex_all.  Passes exclude one another (CorpusMutex).       *)
(*                                                                         *)
(* Contents are abstracted to versions.  The four rows or row sets of a    *)
(* page (its pages row, its embedding, its links, its claims) are each     *)
(* named by the version they were computed from, so "the row is up to      *)
(* date" is equality with the file.  A page id and its file are one thing  *)
(* here: files with a duplicate id are outside this module.                *)
(***************************************************************************)
EXTENDS Naturals, Sequences, FiniteSets

CONSTANTS
    Page,           \* ordinary page files
    IndexPage,      \* the pages the indexer writes: glossary.md, domains.md
    Version,        \* contents of an ordinary page that parse_page accepts
    Flagged,        \* [IndexPage -> SUBSET Version]: concept pages listed on it
    Scribble,       \* a hand-edited index page that still parses
    Broken,         \* contents parse_page rejects
    Absent,         \* no file, no row
    HandEdits,      \* what an editor may leave in a file
    DropMayFail,    \* may drop_table raise something reindex_all only logs?
    CancelWired,    \* is an is_cancelled callback given to the Indexer?
    MaxEdits,       \* bound on edits, for TLC only
    MaxInterrupts   \* bound on faults: passes cut short, failed drops; for TLC only

ASSUME IndexerAssumption ==
    /\ IsFiniteSet(Page) /\ IsFiniteSet(IndexPage) /\ Page \cap IndexPage = {}
    /\ Flagged \in [IndexPage -> SUBSET Version]
    /\ HandEdits \subseteq Version \cup {Absent, Broken}
    /\ {Absent, Broken, Scribble} \cap Version = {}
    /\ Absent # Broken /\ Absent # Scribble /\ Broken # Scribble
    /\ Absent \notin Page \cup IndexPage
    /\ \A listing \in SUBSET (Page \X Version) : listing \notin {Absent, Broken}
    /\ DropMayFail \in BOOLEAN /\ CancelWired \in BOOLEAN
    /\ MaxEdits \in Nat /\ MaxInterrupts \in Nat

VARIABLES
    disk,        \* what each file holds
    tables,      \* the LanceDB tables that exist
    tab,         \* tab[T][f]: the version table T's rows for f come from
    pc, mode,    \* where the pass is, and what kind of pass it is
    todo,        \* files still to be scanned
    old,         \* existing_hashes
    seen,        \* seen_ids
    batch,       \* to_index, and later the regenerated index pages
    work, at, step,  \* the loop over pages inside sweep and _project
    second,      \* is _project working on the regenerated index pages?
    edits, interrupts,  \* how many there have been
    damaged,     \* a pass was cut short between two table writes
    kept,        \* a drop of the last rebuild failed: its table kept its rows
    last         \* kind of the last pass, if nothing was edited since it began

scanVars == <<todo, old, seen>>
loopVars == <<work, at, step>>
ghostVars == <<edits, interrupts, damaged, kept, last>>
vars == <<disk, tables, tab, pc, mode, todo, old, seen, batch, work, at, step,
          second, edits, interrupts, damaged, kept, last>>

File == Page \cup IndexPage
TableOrder == <<"pages", "embeddings", "links", "claims">>
Table == {TableOrder[k] : k \in 1..4}

Parses(c) == c \notin {Absent, Broken}
NoRows == [f \in File |-> Absent]

\* The body of index page i for the concept rows of the pages table: sorted
\* bullets in the code, the set of what they list here.
Rendered(i, rows) == {<<p, rows[p]>> : p \in {q \in Page : rows[q] \in Flagged[i]}}

Listing == SUBSET (Page \X Version)
Content == Version \cup {Absent, Broken, Scribble} \cup Listing
Row == Content \ {Broken}

TypeOK ==
    /\ disk \in [File -> Content]
    /\ tables \subseteq Table
    /\ tab \in [Table -> [File -> Row]]
    /\ pc \in {"idle", "drop", "ensure", "scan", "sweep", "delete",
               "upsertPages", "upsertEmbeddings", "replace", "regenerate"}
    /\ mode \in {"incremental", "targeted", "rebuild"}
    /\ todo \subseteq File /\ seen \subseteq File /\ work \subseteq File
    /\ old \in [File -> Row] /\ batch \in [File -> Row]
    /\ at \in File \cup {Absent}
    /\ step \in 1..4
    /\ second \in BOOLEAN /\ damaged \in BOOLEAN /\ kept \in BOOLEAN
    /\ edits \in 0..MaxEdits /\ interrupts \in 0..MaxInterrupts
    /\ last \in {"none", "incremental", "targeted", "rebuild"}

\* An empty corpus just after ensure_tables.
Init ==
    /\ disk = NoRows
    /\ tables = Table
    /\ tab = [T \in Table |-> NoRows]
    /\ pc = "idle" /\ mode = "incremental"
    /\ todo = {} /\ old = NoRows /\ seen = {} /\ batch = NoRows
    /\ work = {} /\ at = Absent /\ step = 1
    /\ second = FALSE
    /\ edits = 0 /\ interrupts = 0
    /\ damaged = FALSE /\ kept = FALSE /\ last = "none"

-----------------------------------------------------------------------------
(* The world around a pass                                                  *)

\* An editor, or the tool that is about to run the pass, leaves c in f.
Edit(f, c) ==
    /\ edits < MaxEdits
    /\ disk[f] # c
    /\ disk' = [disk EXCEPT ![f] = c]
    /\ edits' = edits + 1
    /\ last' = "none"
    /\ UNCHANGED <<tables, tab, pc, mode, scanVars, batch, loopVars, second,
                   interrupts, damaged, kept>>

\* bootstrap's ensure_tables: outside the mutex, hence at any moment.  A table
\* that is created starts empty (a dropped one already is, in `tab`).
CreateMissingTables ==
    /\ tables # Table
    /\ tables' = Table
    /\ UNCHANGED <<disk, tab, pc, mode, scanVars, batch, loopVars, second, ghostVars>>

\* The pass is over; its local variables are gone.
Return ==
    /\ pc' = "idle"
    /\ todo' = {} /\ old' = NoRows /\ seen' = {} /\ batch' = NoRows
    /\ work' = {} /\ at' = Absent /\ step' = 1
    /\ second' = FALSE

\* Cut short between the writes that belong together?
MidWrite ==
    \/ pc \in {"drop", "delete"} /\ step > 1
    \/ pc = "upsertEmbeddings"
    \/ pc = "replace" /\ work # {}

\* The process dies, a store or embedder call raises, or reindex_all finds
\* cancel_requested after the wipe.
Interrupt ==
    /\ pc # "idle"
    /\ interrupts < MaxInterrupts
    /\ Return
    /\ interrupts' = interrupts + 1
    /\ damaged' = (damaged \/ MidWrite)
    /\ last' = "none"
    /\ UNCHANGED <<disk, tables, tab, mode, edits, kept>>

-----------------------------------------------------------------------------
(* Starting a pass                                                          *)

Existing == {f \in File : disk[f] # Absent}

Begin(m, files, hashes) ==
    /\ mode' = m
    /\ pc' = "scan"
    /\ todo' = files
    /\ old' = hashes
    /\ UNCHANGED <<seen, batch, loopVars, second>>

\* run() as every write tool calls it.  `last` becomes "incremental" at once
\* and stays so only if no edit or interrupt follows: it is read when idle.
StartIncremental ==
    /\ pc = "idle"
    /\ "pages" \in tables
    /\ Begin("incremental", Existing, tab["pages"])
    /\ last' = "incremental"
    /\ UNCHANGED <<disk, tables, tab, edits, interrupts, damaged, kept>>

\* run(only_paths=[f]), as reindex_page calls it: the path of an indexed page
\* if that file exists, else the file the walk over pages/ finds for the id.
StartTargeted(f) ==
    /\ pc = "idle"
    /\ "pages" \in tables
    /\ IF tab["pages"][f] # Absent THEN disk[f] # Absent ELSE Parses(disk[f])
    /\ Begin("targeted", {f}, NoRows)
    /\ last' = "targeted"
    /\ UNCHANGED <<disk, tables, tab, edits, interrupts, damaged, kept>>

\* reindex_all: wipe, recreate, run(full=True).
StartRebuild ==
    /\ pc = "idle"
    /\ mode' = "rebuild"
    /\ pc' = "drop"
    /\ step' = 1
    /\ last' = "rebuild"
    /\ kept' = FALSE
    /\ UNCHANGED <<disk, tables, tab, scanVars, batch, work, at, second,
                   edits, interrupts, damaged>>

\* Next round of a loop over TableOrder, then on to `after`.
NextTable(after) ==
    IF step < 4
      THEN step' = step + 1 /\ UNCHANGED pc
      ELSE step' = 1 /\ pc' = after

\* Mutant: the wipe forgets the links table.
DropAllButLinks ==
    /\ pc = "drop"
    /\ LET T == TableOrder[step] IN
         IF T = "links"
           THEN UNCHANGED <<tables, tab>>
           ELSE /\ tables' = tables \ {T}
                /\ tab' = [tab EXCEPT ![T] = NoRows]
    /\ NextTable("ensure")
    /\ UNCHANGED <<disk, mode, scanVars, batch, work, at, second, ghostVars>>

\* One db.drop_table.
Drop ==
    /\ pc = "drop"
    /\ tables' = tables \ {TableOrder[step]}
    /\ tab' = [tab EXCEPT ![TableOrder[step]] = NoRows]
    /\ NextTable("ensure")
    /\ UNCHANGED <<disk, mode, scanVars, batch, work, at, second, ghostVars>>

\* drop_table raised: the loop logs it and goes on, the table keeps its rows.
DropFails ==
    /\ DropMayFail
    /\ pc = "drop"
    /\ TableOrder[step] \in tables
    /\ interrupts < MaxInterrupts
    /\ interrupts' = interrupts + 1
    /\ damaged' = TRUE
    /\ kept' = TRUE
    /\ NextTable("ensure")
    /\ UNCHANGED <<disk, tables, tab, mode, scanVars, batch, work, at, second,
                   edits, last>>

\* ensure_tables and the start of run(full=True): no hashes, every file.
EnsureAndRun ==
    /\ pc = "ensure"
    /\ tables' = Table
    /\ Begin("rebuild", Existing, NoRows)
    /\ UNCHANGED <<disk, tab, ghostVars>>

-----------------------------------------------------------------------------
(* The scan                                                                 *)

\* Mutant: the hash is not compared, so no file is ever up to date.
ScanAlwaysIndexes(f) ==
    /\ pc = "scan"
    /\ f \in todo
    /\ todo' = todo \ {f}
    /\ IF Parses(disk[f])
         THEN /\ seen' = seen \cup {f}
              /\ batch' = [batch EXCEPT ![f] = disk[f]]
         ELSE UNCHANGED <<seen, batch>>
    /\ UNCHANGED <<disk, tables, tab, pc, mode, old, loopVars, second, ghostVars>>

\* Mutant: a file that exists is taken for a page.
ScanWithoutValidation(f) ==
    /\ pc = "scan"
    /\ f \in todo
    /\ todo' = todo \ {f}
    /\ IF disk[f] # Absent
         THEN /\ seen' = seen \cup {f}
              /\ batch' = [batch EXCEPT ![f] = IF old[f] = disk[f] THEN @ ELSE disk[f]]
         ELSE UNCHANGED <<seen, batch>>
    /\ UNCHANGED <<disk, tables, tab, pc, mode, old, loopVars, second, ghostVars>>

\* Mutant: a file that fails to parse is tried again.
ScanRetriesFailures(f) ==
    /\ pc = "scan"
    /\ f \in todo
    /\ IF Parses(disk[f])
         THEN /\ todo' = todo \ {f}
              /\ seen' = seen \cup {f}
              /\ batch' = [batch EXCEPT ![f] = IF old[f] = disk[f] THEN @ ELSE disk[f]]
         ELSE UNCHANGED <<todo, seen, batch>>
    /\ UNCHANGED <<disk, tables, tab, pc, mode, old, loopVars, second, ghostVars>>

\* parse_page on one file: a failure is counted and skipped; a page whose hash
\* is the indexed one is only marked as seen.
Scan(f) ==
    /\ pc = "scan"
    /\ f \in todo
    /\ todo' = todo \ {f}
    /\ IF Parses(disk[f])
         THEN /\ seen' = seen \cup {f}
              /\ batch' = [batch EXCEPT ![f] = IF old[f] = disk[f] THEN @ ELSE disk[f]]
         ELSE UNCHANGED <<seen, batch>>
    /\ UNCHANGED <<disk, tables, tab, pc, mode, old, loopVars, second, ghostVars>>

\* is_cancelled() is True: leave the loop, and go on with the pass.
CancelScan ==
    /\ CancelWired
    /\ pc = "scan"
    /\ todo # {}
    /\ interrupts < MaxInterrupts
    /\ interrupts' = interrupts + 1
    /\ todo' = {}
    /\ last' = "none"
    /\ UNCHANGED <<disk, tables, tab, pc, mode, old, seen, batch, loopVars, second,
                   edits, damaged, kept>>

\* set(existing_hashes) - seen_ids.  `old` is empty in a rebuild and in a
\* targeted pass; the latter does not sweep anyway.
Stale == {f \in File : old[f] # Absent} \ seen

EndScan ==
    /\ pc = "scan"
    /\ todo = {}
    /\ work' = IF mode = "targeted" THEN {} ELSE Stale
    /\ pc' = "sweep"
    /\ UNCHANGED <<disk, tables, tab, mode, scanVars, batch, at, step, second, ghostVars>>

-----------------------------------------------------------------------------
(* The sweep                                                                *)

SweepNext(f) ==
    /\ pc = "sweep"
    /\ f \in work
    /\ at' = f
    /\ work' = work \ {f}
    /\ pc' = "delete"
    /\ UNCHANGED <<disk, tables, tab, mode, scanVars, batch, step, second, ghostVars>>

\* Mutant: the claims of a deleted page stay.
DeletePageKeepsClaims ==
    /\ pc = "delete"
    /\ TableOrder[step] \in tables
    /\ tab' = [tab EXCEPT ![TableOrder[step]][at] = IF step = 4 THEN @ ELSE Absent]
    /\ NextTable("sweep")
    /\ at' = IF step = 4 THEN Absent ELSE at
    /\ UNCHANGED <<disk, tables, mode, scanVars, batch, work, second, ghostVars>>

\* _delete_page, one table at a time.
DeletePage ==
    /\ pc = "delete"
    /\ TableOrder[step] \in tables
    /\ tab' = [tab EXCEPT ![TableOrder[step]][at] = Absent]
    /\ NextTable("sweep")
    /\ at' = IF step = 4 THEN Absent ELSE at
    /\ UNCHANGED <<disk, tables, mode, scanVars, batch, work, second, ghostVars>>

Batched == {f \in File : batch[f] # Absent}

\* Mutant: the index pages are regenerated only when a page was projected.
SkipRegeneration ==
    /\ pc = "sweep"
    /\ work = {}
    /\ IF Batched # {}
         THEN /\ pc' = "upsertPages"
              /\ UNCHANGED <<scanVars, batch, loopVars, second>>
         ELSE Return
    /\ UNCHANGED <<disk, tables, tab, mode, ghostVars>>

EndSweep ==
    /\ pc = "sweep"
    /\ work = {}
    /\ IF Batched # {}
         THEN pc' = "upsertPages" /\ UNCHANGED work
         ELSE pc' = "regenerate" /\ work' = IndexPage
    /\ UNCHANGED <<disk, tables, tab, mode, scanVars, batch, at, step, second, ghostVars>>

-----------------------------------------------------------------------------
(* _project                                                                 *)

Upserted(rows) == [f \in File |-> IF batch[f] # Absent THEN batch[f] ELSE rows[f]]

\* The pages rows of the whole batch, content_hash included, in one merge.
UpsertPages ==
    /\ pc = "upsertPages"
    /\ "pages" \in tables
    /\ tab' = [tab EXCEPT !["pages"] = Upserted(@)]
    /\ pc' = "upsertEmbeddings"
    /\ UNCHANGED <<disk, tables, mode, scanVars, batch, loopVars, second, ghostVars>>

UpsertEmbeddings ==
    /\ pc = "upsertEmbeddings"
    /\ "embeddings" \in tables
    /\ tab' = [tab EXCEPT !["embeddings"] = Upserted(@)]
    /\ pc' = "replace"
    /\ work' = Batched
    /\ UNCHANGED <<disk, tables, mode, scanVars, batch, at, step, second, ghostVars>>

\* The page's links are deleted, added, then its claims deleted, added.
ReplaceTable == IF step \in {1, 2} THEN "links" ELSE "claims"

ReplaceRows(f) ==
    /\ pc = "replace"
    /\ f \in work
    /\ at \in {Absent, f}
    /\ ReplaceTable \in tables
    /\ tab' = [tab EXCEPT ![ReplaceTable][f] = IF step \in {1, 3} THEN Absent ELSE batch[f]]
    /\ IF step < 4
         THEN at' = f /\ step' = step + 1 /\ UNCHANGED work
         ELSE at' = Absent /\ step' = 1 /\ work' = work \ {f}
    /\ UNCHANGED <<disk, tables, pc, mode, scanVars, batch, second, ghostVars>>

\* After the pages, the index pages; after the index pages, the end.
EndProject ==
    /\ pc = "replace"
    /\ work = {}
    /\ IF second
         THEN Return
         ELSE /\ pc' = "regenerate"
              /\ work' = IndexPage
              /\ batch' = NoRows
              /\ UNCHANGED <<scanVars, at, step, second>>
    /\ damaged' = (damaged /\ ~(second /\ mode = "rebuild" /\ ~kept))
    /\ UNCHANGED <<disk, tables, tab, mode, edits, interrupts, kept, last>>

-----------------------------------------------------------------------------
(* _regenerate_index_pages                                                  *)

\* Rewrites the file unless it already says what the pages table implies.
Regenerate(i) ==
    /\ pc = "regenerate"
    /\ "pages" \in tables
    /\ i \in work
    /\ work' = work \ {i}
    /\ IF disk[i] = Rendered(i, tab["pages"])
         THEN UNCHANGED <<disk, batch>>
         ELSE /\ disk' = [disk EXCEPT ![i] = Rendered(i, tab["pages"])]
              /\ batch' = [batch EXCEPT ![i] = Rendered(i, tab["pages"])]
    /\ UNCHANGED <<tables, tab, pc, mode, scanVars, at, step, second, ghostVars>>

EndRegenerate ==
    /\ pc = "regenerate"
    /\ work = {}
    /\ IF Batched = {}
         THEN Return
         ELSE /\ pc' = "upsertPages"
              /\ second' = TRUE
              /\ UNCHANGED <<scanVars, batch, loopVars>>
    /\ damaged' = (damaged /\ ~(Batched = {} /\ mode = "rebuild" /\ ~kept))
    /\ UNCHANGED <<disk, tables, tab, mode, edits, interrupts, kept, last>>

\* The table the next step opens is missing: open_table raises.
NeededTable ==
    CASE pc \in {"upsertPages", "regenerate"} -> "pages"
      [] pc = "upsertEmbeddings" -> "embeddings"
      [] pc = "replace" -> ReplaceTable
      [] pc = "delete" -> TableOrder[step]

MissingTable ==
    /\ pc \in {"upsertPages", "upsertEmbeddings", "replace", "delete", "regenerate"}
    /\ NeededTable \notin tables
    /\ Return
    /\ damaged' = (damaged \/ MidWrite)
    /\ last' = "none"
    /\ UNCHANGED <<disk, tables, tab, mode, edits, interrupts, kept>>

-----------------------------------------------------------------------------
Start == StartIncremental \/ StartRebuild \/ \E f \in File : StartTargeted(f)

\* What a pass does by itself once started.
Proceed ==
    \/ Drop \/ EnsureAndRun
    \/ (\E f \in File : Scan(f)) \/ EndScan
    \/ (\E f \in File : SweepNext(f)) \/ DeletePage \/ EndSweep
    \/ UpsertPages \/ UpsertEmbeddings
    \/ (\E f \in File : ReplaceRows(f)) \/ EndProject
    \/ (\E i \in IndexPage : Regenerate(i)) \/ EndRegenerate
    \/ MissingTable

Environment ==
    \/ \E p \in Page, c \in HandEdits : Edit(p, c)
    \/ \E i \in IndexPage, c \in {Absent, Broken, Scribble} : Edit(i, c)
    \/ CreateMissingTables
    \/ DropFails
    \/ CancelScan
    \/ Interrupt

Next == Start \/ Proceed \/ Environment

Spec == Init /\ [][Next]_vars

\* A pass that runs is executed by one thread that holds the corpus mutex and
\* waits for nobody.  No tool call is assumed ever to come.
FairSpec == Spec /\ WF_vars(Proceed)

-----------------------------------------------------------------------------
(* Properties.  `last` is the kind of the last pass if the files are as they *)
(* were when it began; `damaged` remembers a pass that was cut short between *)
(* two table writes, until a rebuild completes.                              *)

WalkedAll == pc = "idle" /\ last \in {"incremental", "rebuild"}

Projected(f) == \A T \in Table : tab[T][f] = disk[f]
Unindexed(f) == \A T \in Table : tab[T][f] = Absent

\* "Markdown is canonical; the index is disposable": a walk of the corpus that
\* nothing disturbed leaves each table equal to the projection of the files
\* that parse, and no row of a file that is gone.  A rebuild achieves it from
\* any state; an incremental pass, which skips files by the hash in the pages
\* table alone, from any state that no half-done pass left behind.
WalkProjectsFiles ==
    WalkedAll /\ ~damaged =>
        \A f \in File : disk[f] # Broken => Projected(f)

\* "glossary.md and domains.md are always consistent with the corpus that was
\* just indexed": even when the concept was removed, when somebody edited or
\* deleted the index page, when only one page was re-indexed, and when the
\* pass found nothing else to do.
IndexPagesListConcepts ==
    pc = "idle" /\ last # "none" =>
        \A i \in IndexPage : disk[i] = Rendered(i, tab["pages"])

\* Between passes the four tables describe the same version of each page,
\* whatever was edited while the pass ran.
TablesAgree ==
    pc = "idle" /\ ~damaged =>
        \A f \in File, T \in Table : tab[T][f] = tab["pages"][f]

UpToDate ==
    /\ \A f \in File : IF disk[f] = Broken THEN Unindexed(f) ELSE Projected(f)
    /\ \A i \in IndexPage : disk[i] = Rendered(i, tab["pages"])

\* Incremental means incremental: over an index that is up to date a pass
\* writes no row and no file.  (The index pages it wrote itself at the end of
\* the pass before must not look changed to it.)
PassOverUpToDateWritesNothing ==
    [][mode = "incremental" /\ pc # "idle" /\ last = "incremental" /\ ~damaged /\ UpToDate
       /\ edits' = edits
       => UNCHANGED <<disk, tab>>]_vars

\* A pass ends: every loop consumes what it iterates over, a file that fails
\* to parse included.
PassEnds == pc # "idle" ~> pc = "idle"

\* "Every write triggers the indexer.  This is what keeps the index consistent
\* with the markdown": after an undisturbed walk a page that is there has all
\* its rows, also when an earlier pass was cut short.
WalkRepairsPages ==
    WalkedAll => \A f \in Page : Parses(disk[f]) => Projected(f)
=============================================================================
