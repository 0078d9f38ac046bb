# smalt-mcp in TLA+

smalt-mcp serves a corpus of markdown pages (the *Smalt*) over MCP. The files under
`pages/` are canonical; a LanceDB index of four tables is derived from them and can be
thrown away. Handlers run on a bounded thread pool, one mutex admits one writer at a time,
every write ends in an indexer pass, and one long job (`reindex_all`) runs as an asyncio
task. These modules model that machinery, check it with TLC and prove part of it with TLAPS.

Source paths below are relative to `src/src/smalt_mcp/`.

## Inventory

| Component | State it keeps | Operations | What makes it correct |
|---|---|---|---|
| Corpus mutex (`mutex.py`) | the lock, the holder's name, counters | `acquire`, `locked`, `holder` | one section at a time; the name is the open section's; the lock always comes back |
| Write tools (`tools.py`) | none of their own: the page files and the tables | `write_page` (create, section upsert, update), `add_link(s)`, `add_claim(s)`, `update_claim`, `remove_claim`, `remove_link`, `remove_page`, `bootstrap`; `write_pages`, `write_batch`; `reindex_page`, `reindex_all` | each call is atomic on the markdown; no lost update; no half-written file; the index follows |
| Indexer pass (`storage/indexer.py`) | local to a pass: hashes, ids seen, the batch | incremental, targeted and full `run`; sweep, projection, regeneration of `glossary.md` and `domains.md` | tables are a projection of the files; the pass ends; nothing is written when nothing changed |
| Tables (`storage/lance.py`) | pages, embeddings, links, claims | drop, ensure, upsert, replace, delete | the four agree on every page |
| Markdown (`storage/markdown.py`) | none | parse, hash, walk | a bad file fails alone |
| Task scheduler (`scheduler.py`) | task records, their asyncio tasks | `enqueue`, `_runner`, `cancel`, `shutdown`, `_gc_once` | terminal is final; cancel wins; every task ends |
| Shared resources (`app.py`) | connection, embedder, last-run fields | lazy construction, `record_indexer_run`, `index_status_payload` | built once; no torn snapshot |
| Read tools (`tools.py`) | none | `read_page`, `find_by_alias`, `traverse`, `incoming_links`, `list_pages`, `list_domains`, `search`, `source_similarity` | an answer put together from several opened tables is one the corpus justifies; a walk is reachability; a short list is complete or says it is not |
| Page schema and paths (`schema.py`, `_page_target_path`) | none | id validation, path of a page | different pages have different files; a page has one file, and its row knows it |
| Permissions (`permissions.py`), server (`server.py`), embedder, configuration | configuration | filtering by scope, wiring | out of scope, see below |

How they meet: a write handler runs in a pool thread, takes the mutex, asks the pages table
where the page is, reads and rewrites its file, and runs a pass that reads all files and
writes all tables, before it lets the mutex go. `reindex_all` answers at once; the loop runs
`_runner`, whose blocking half takes the mutex in the same pool. `task_cancel` is a handler
like any other and so also runs in that pool. Readers and `bootstrap`'s table creation take
no mutex: a read tool opens tables, each a snapshot of that moment, while a writer commits.

What is hard to test is listed under `hazards` in `PROJECT.json`, each at its line. In short:
statements of `cancel` between statements of `_runner`; a pass cut short between two tables
that record the same page; a sweep that infers "gone" from "not seen"; check-then-write
across threads; a crash between the rows and the file; a batch that fails with half of it
written; an index page regenerated from a table a moment later than the scan; a status reply
put together while a pass is being recorded; an answer put together from tables opened at
different moments; a second file of a page whose type changed, or that somebody moved.

## Modules

| Module | Models | Composes |
|---|---|---|
| `CorpusMutex` | `mutex.py`, block by block | |
| `AppResources` | `app.py`: connection and embedder on first use, the recorded pass, the status payload | `CorpusMutex` |
| `CorpusOps` | the calls of the write tools and what each makes of a page, as operators | |
| `SmaltCorpus` | what the write tools promise: an object whose calls take effect at one instant | `CorpusOps` |
| `CorpusWrites` | how they do it: mutex, lookup, parse, `.tmp`, `os.replace`, pass, with crashes | `CorpusOps`, refines `SmaltCorpus` |
| `WriteBatch` | `write_batch` and `write_pages`, three phases, with hand edits and crashes | `CorpusOps` |
| `IndexerRun` | one pass, table write by table write, with edits and interruptions | |
| `TaskScheduler` | `scheduler.py`, `task_cancel`, `_do_reindex`, the thread pool, a writer | |
| `PageIds` | which ids `schema.py` accepts and which file a page gets, as operators | |
| `PageFiles` | files at paths against rows by id: writes with a change of type, removal, passes and rebuilds commit by commit, crashes, hand moves | `PageIds` |
| `ReadAnswers` | what the read tools make of the rows they fetched, as operators | `PageFiles` |
| `CorpusReads` | the read tools, one step per open, beside that writer | `PageFiles`, `ReadAnswers` |
| `MCCorpusWrites`, `MCWriteBatch`, `MCIndexerRun`, `MCCorpusReads` | instances for TLC | |
| `CorpusMutexProofs`, `AppResourcesProofs`, `CorpusWritesProofs`, `WriteBatchProofs`, `IndexerRunProofs`, `TaskSchedulerProofs`, `PageFilesProofs`, `CorpusReadsProofs` | theorems | |

### CorpusMutex

One action per statement of `acquire()`: `Request`, `TakeLock` (`_lock.acquire`), `Register`
(the first block under `_holder_lock`), `Unregister` (the block in `finally`), `Release`. A
section that raises leaves by the same `finally`, so there is one way out. `_holder_lock` is
not a variable: the blocks under it touch nothing outside, so each is one action. A status
call reads `locked` without `_holder_lock`, before it reads `holder`: between `TakeLock` and
`Register` that gives a locked mutex with no holder, the reply the comment at `mutex.py:59`
wants to avoid. It is harmless and follows from the two reads, so it is not a run.
`MaxAcquires` bounds the counter.

### AppResources

`db()` and `embedder()` are the same code over two resources: `Look` is the check without the
lock, `LookAgain` the one with it, and `Build` may fail (`BuildFails`: no Smalt directory yet,
a model that cannot be loaded), which leaves the `with` and lets the next thread try. An object
is the number of its construction. `record_indexer_run` is called in a section of the corpus
mutex, the status payload from any thread; both go field by field under `_obs_lock`, so that a
torn snapshot would be reachable without it. A field holds the number of the run it came from.
A pass that changed no page has no index statuses and leaves the two fields of an earlier run
(`fresh`); `history` remembers which, for the property.

### CorpusWrites and SmaltCorpus

A page is `[text, links, claims]`; an id is a slug id (mangled on create) or a section id. A
client goes `idle, waiting, inside, parsed, torn, written, replaced, leaving`: one action per
statement that other threads or a crash can come between. `remove_page` goes `inside,
rowGone, rowsGone, leaving` instead, rows first and then the file as in the code. `rows`
stands for the pages, embeddings and claims rows of a page (a page's own tables); the links
table is separate because `remove_page` also deletes other pages' rows of it. `Pass` is an
incremental pass in one step: rows become the files, and the links are replaced for the pages
that *changed* only. `PassRaises` is a pass whose embedder fails, which happens before its
first write. `IndexerRun` has what lies between.

`behind` and `removed` record history for the properties: that a crash or a raising pass left
the index behind the files, and for which ids `remove_page` has deleted edges. No action's
guard reads them.

The refinement maps `pages` to `disk`, and `call` and `reply` to themselves. `Replace` is
where a write takes effect, `Unlink` where a removal does.

### WriteBatch

A batch is a sequence of entries of the kinds `write_batch` accepts; one of `write_pages` is
a sequence of `write_page` entries of one mode. Phase 1 is `Send`, `Reject` and `Enter`; phase
2 is one `Check` or `Refuse` per entry; phase 3 is one `Commit` (a read-modify-write), `Skip`
(a duplicate), `Abandon` (the claim is gone, an id collides), `LookupRaises` (`parse_page`) or
`WriteRaises` per entry; then `Pass`. Phase 2 asks the pages table, phase 3 the file: `Verdict`
and `CommitError` are the two sides, and what may differ between them is what the
properties are about. `HandEdit` deletes or breaks a page at any moment. `base` is what the
files were when the section began, `touched` and `handmade` whether somebody edited since then
or since the last pass, `behind` whether a failure left the index behind.

### IndexerRun

File contents are versions; a row is named by the version it came from. `tab[T][f]` is what
table `T` holds for file `f`, so agreement of tables is equality. A rebuild drops tables one
by one, an incremental pass compares with the pages table (`old`), a targeted one takes one
file and does not sweep. `_delete_page` and `_project` are one action per table write.
`Interrupt` ends a pass anywhere: a crash, an exception, or the cancel of `reindex_all` after
the wipe. `Edit` is an editor, or the tool that is about to call the pass, at any moment.
`damaged` remembers that a pass was cut short between two writes that belong together, `last`
which kind of pass ran last with nothing edited since it began.

`CancelWired` turns on the `is_cancelled` callback of the `Indexer` constructor, which no tool
passes. `DropMayFail` is the logged exception in the wipe loop; `kept` remembers that the
last rebuild had one. An interruption, a cancelled scan and a failing drop each use up one
of `MaxInterrupts` faults.

### TaskScheduler

A task has a record (`state`, flag, `finished_at`), an asyncio task (`runner`, `interrupted`)
and a worker thread. `Start` and `Finish` are the two halves of `_runner` around its await;
`Interrupt` is the `CancelledError` there, which abandons a worker that has begun and drops
one that has not. An asyncio task cancelled before its first step never runs (`NeverStart`).
`OnLoop` are the cancellers that keep the module's thread-safety contract: `cancel` as one
step of the loop (`CancelAtOnce`). The others are the code as it is wired, where `task_cancel`
is wrapped by `_wrap_sync_in_thread`: `Ask`, `Flag`, `LookAtState`, `MarkCancelled`,
`InterruptRunner`, statement by statement. `CancelIsAuthoritative` and `FinalIfKeptToLoop` are
claimed of the tasks that only cancellers in `OnLoop` were asked to stop (`KeptToLoop`), with
the others racing on other tasks. The loop's steps are atomic between two awaits; finer steps
would only add ways to break what is claimed under the contract.
Threads of the pool are counted (`Busy`), so calls that find it full wait. A record's age is
not modelled: a terminal one may be collected whenever.

### PageIds, PageFiles

An id is taken apart at `::` and `/` as the validators do; what a regular expression matches is
a set of names. `Target` is `_page_target_path`, name by name. (`$` in the two expressions also
matches before a trailing newline; the names are opaque, so that is inside the sets.)

`PageFiles` drops what the other modules take for granted, one file per page: files are at
paths, rows are rows with an id and a path, and two rows with one id are possible, since
`merge_insert` puts both in when neither is there (`Merged`). One writer at a time holds the
mutex; what it has still to commit is `plan`, a sequence of commits that a pass or a rebuild
extends when it has looked at the files. So readers and crashes (`Cut`) fall between any two
commits: after the pages rows and before the links, between the delete and the add of
`replace_links_for_page`, between the drops. An action chooses how the loops over sets go
(`NextSwept`, `NextRelinked`). Claims follow the links commit for commit and are left out, and
so is the regeneration of index pages, which `IndexerRun` has.

`strayed` are the ids whose file changed its path or was copied: by an update or upsert with
another type, or by hand. `removed` are the ids `remove_page` removed and nobody brought back.
No guard reads either.

### ReadAnswers, CorpusReads

The reader's handler goes from open to open; a query that follows its open at once is one step
with it. `read_page` goes `exact, alias, fuzzy, canon`, `search` `open, vec, aliases, hydrate`
(with `snap`, the handle it opened first), `source_similarity` `open, meta`, `traverse` `open`
and then one step per level over `graph`, the snapshot. `Raise` is a table that is not there,
or was dropped under the handle. Where the store may order rows or a limit may leave some
out, every choice is possible. `moments` are the pages tables there were since a lookup began,
`still` says whether anything was committed, `dropped` which tables were dropped since. One reader
is enough: readers change nothing (`ReadingChangesNothing`), so they do not meet.

`FetchCap` is the code's 10,000: of rows in `list_pages`, in the alias query (`FindAlias`), in
`search`'s list of aliases, in `incoming_links`, and of concepts in `list_domains`, before the code
looks which of them are domains. In the fuzzy lookup it limits the rows that are *scanned*
(`FindFuzzy`): in a larger corpus any of them may be left out, a page whose alias resembles the
argument among them, and the answer does not say so.

`search` fetches `Metadata` for its candidates, makes a dict of it (`ById`: of two rows with one
id, either may be the later) and appends hits in the order of the fused ranking (`WithRow`,
`Hits`). `Fusions` is that ranking: the candidates by falling score, equal scores in the order
the dict got them (`ComesFirst`). Scores are sums of multiples of 1/`Scale`, which is exact if
`Scale` is a multiple of every `RankOffset` + rank; the code's floats may part scores that are
equal here. `FetchDepth` is what each tool asks the store for, assumed to be at least
`top_k`, as `tools.py` computes it. Ids, labels and page types are assumed finite.

## Runs

| Run | Question | Instance |
|---|---|---|
| `app` | exclusion, truthful holder, progress; one construction, untorn replies, every lock given back | 2 writers, 2 names, 2 users with 2 calls, 1 reader, 2 recorded passes |
| `indexer` | does every pass end, and is the index then a projection of the files? | 2 pages, 1 index page, 2 edits, 1 fault: interruption, cancelled scan or failing drop |
| `indexer_repair` | does the next pass repair an interrupted one? **No** | 1 page, 1 interruption |
| `writes` | are calls atomic, and does the index follow? | 2 clients, 12 calls, 2 ids, 1 crash |
| `writes_links` | is the links table a function of the markdown? **No** | 2 clients, create, upsert, remove |
| `batch` | is a committed batch its entries one by one, and when may a failing one have written? | 2 clients, 3 batches of 7 kinds, 1 hand edit, 1 crash |
| `batch_atomic` | does a batch that answers with an error write nothing? **No** | 2 clients, 3 batches of 2 kinds |
| `scheduler` | with a cancel on a pool thread, does an early one still prevent the wipe, does an interrupted rebuild still finish, does every task end? Is a cancel on the loop final and authoritative beside it? | 2 tasks, 1 cancel on a pool thread, 1 on the loop, 1 writer, 2 threads |
| `scheduler_final` | on pool threads, are terminal states final? **No** | 2 tasks, 2 cancels, 1 writer, 2 threads |
| `scheduler_stopped` | has a running task that a cancel marks cancelled stopped? **No** | 2 tasks, 1 cancel on a pool thread, 1 writer, 2 threads |
| `reads` | has a page one home; are lookups, walks, search and similarity right between any two commits? | 3 pages (one a section), 2 types, 2 calls or hand moves, crashes at any commit, 1 read of 15 kinds |
| `removed` | does a removed page stay removed? **No** | as `reads`, 3 calls, no reader |

The runs answered **No** are the `findings` of `PROJECT.json`, each with the sentence of the
repository it contradicts. More consequences of the code show up when the properties
are taken without their premises: the sweep deletes the rows of a page whose file is there but
does not parse at the moment, of which `WalkProjectsFiles` claims nothing; after a failing drop
(`kept`, which counts as `damaged`) stale rows survive a rebuild, since a full pass has no hashes and
so sweeps nothing; a deletion cut short after the pages row leaves
rows no later sweep finds (`damaged` excuses it in `WalkProjectsFiles` and `TablesAgree`); and
a cancel that `reindex_all` notices after the wipe leaves a corpus without tables (the
`bailed` in `NoHalfState`). In `scheduler_stopped` the cancel finds the task running and past its wipe: it interrupts the await,
`_runner` stores CANCELLED, and the worker goes on.

A lookup opens the pages table up to four times, so its answer may mix moments. `LookupIsHonest`
says which mixtures there are: the id wins; an alias counts only if the page was not there at some
moment of the call, and likeness only if nothing had the alias at some moment of it, so an alias
that appears between the two queries may be answered as a likeness; what is named is told as of
one moment, all of it up to the row limits. A single page that a writer removes before it is read
is not found, under its own id. `SearchFillsTopK` and `SimilarityIsComplete` have a part for any
commits between the opens, that every hit is a page of the table its metadata came from and passes, and a
part for calls without such commits, that no hit is missing.

Why the bounds are enough. Two pages let a pass stop between them and let one page's rows
disturb another's; a version a page may have and one that is listed on the index page are the
two kinds of change; two edits are a page and its change, corruption or removal, and one
interrupted pass leaves any half-done state there is, since `damaged` state is cleared by a
rebuild. Two clients meet on a page in every way two calls can; the mutex makes a third wait
like the second; four calls are enough for create, link, remove, and write again. Two
cancels and two tasks that share two threads cover the races of
`cancel` with itself and with `_runner`; the proofs of the safety properties hold for any
number of both. No run uses symmetry. In `reads`, two calls are a commit sequence that leaves
something behind and one that meets it while the reader is between two opens; the corpus has
a cycle, a self-link, two labels, an exact alias and one near it, and the section lets a
page's file be below another's directory; `FetchCap`, `ListFloor` and `HopLimit` are small
enough to be reached (three pages can have an alias, or one near it, and two are fetched); `Fetch` is scaled down, below the number of neighbours when similarity is
narrowed by type and above the number of candidates in search, where the code's is far above.
`removed` takes three calls: change the type, remove, any pass. `CHECK_DEADLOCK FALSE` is set where calls are bounded, so that the system
stops when they are spent. The batches of `batch` are chosen so that two entries meet on one
page (`add_link` twice around an `update_claim`, a rewrite before an `update_claim`), one
refers to a page of its own batch, one is invalid, and one misses its page; three batches in
sequence or at once give each of them a corpus another one left. In `app`, one resource is
enough since the two share nothing, and two recorded passes are the fewest a torn reply
needs. The artificial bounds are `MaxCalls`, `MaxCrashes`, `MaxEdits`, `MaxInterrupts`,
`MaxBatches`, `MaxHandEdits`, `MaxUses`, `MaxRuns`, `MaxReads` and `MaxAcquires`; they appear in guards
of what comes from outside (`MaxAcquires` where a thread asks for the mutex, `MaxRuns` where a
pass is recorded), never inside a handler.

### Fairness

`AppResources`: a thread that entered `acquire` or `db()` goes on, and sections end. Which
waiter a `threading.Lock` admits is left open, so only "some waiter enters" is claimed. No
pass need be recorded and no status call come, and `WriteBatch` needs no fairness: what it
claims is safety.
`IndexerRun`: a pass is one thread's work and waits for nobody, hence weak fairness of
`Proceed`; no call is assumed to come. `TaskScheduler`: the loop and the threads that have
begun a call go on; nobody is obliged to enqueue, cancel or write. A `cancel` on a pool
thread does not wake the event loop by itself, but the end of that handler does, and the
loop's steps only need to happen eventually.

## Proofs

All theorems hold for every value of the constants that meets the modules' assumptions, with
any number of threads, clients, tasks, pages and crashes.

`CorpusMutexProofs`. Exclusion follows from "who is between acquire and release is `lock`".
`HolderIsTruthful` needs `HolderInv`: while a section is open, the holder is the name
its thread came with, and otherwise it is None; this is inductive because only the
thread that has the lock writes the name.

`AppResourcesProofs`. `AppRunsMutex`: the App is an instance of the mutex's specification with
other state beside it, so what is proved of the mutex holds in it (`AppWritersExclude`).
`ResourcesAreBuiltOnce` needs `BuildInv`: past an init lock a thread holds it, so what its
second look saw is still so when it builds, however many constructions failed before.
`SnapshotsAreConsistent` needs `StatusInv`: whoever records or reads has `_obs_lock`; the
fields behind a recording thread are of the new run and the index fields ahead of it of the
one before; what a reader has read is what is there.

`CorpusWritesProofs`.
- `Typed /\ HandlerInv` strengthens `TypeOK`: files are never torn, and a handler past the
  mutex is the one that holds it. Without the second part a second writer could reopen the
  shared `.tmp` between `FinishTmp` and `Replace`, so `NeverHalfWritten` is not inductive
  alone.
- `SnapshotInv`: from the parse to the rename, the snapshot *is* the file. `FreshInv`: the id
  of a create that has not yet happened has neither file nor row and belongs to nobody else;
  it needs the mangled ids to be new, which is the code's own UUID4 argument.
- `HandlersAreAtomic`: with those two, `Replace` is `SmaltCorpus!Write`, and every other step
  is one of its actions or a stutter. `SameOps` says that the operators reached through the
  instance are the module's own.
- `RowsInv` and `LinksInv` describe the tables at every moment, also within `remove_page` and
  after a crash; at rest they give `RowsMatchFiles`, `LinkRowsAreReal`, `LinksAreIndexed`.
  `RefusalsAreHonest` follows too: only `remove_page` parts a row from its file while the index
  is not behind, and the handler that refuses is the one that has the mutex.

`WriteBatchProofs`, for any batches and clients. In phase 2 no file changes but by hand
(`CleanInv`), hence `MissingPageAborts`. `CheckedInv` says that an entry which passed phase 2
had a row, that rows are not touched in phase 3, and that rows and files agree unless edited by
hand: so phase 3 finds the page (`LookupsSucceed`). `ClaimInv` keeps for each `update_claim`
entry ahead the claim that phase 2 saw; adding links and claims preserves it and a rewrite of
the page is recorded as such (`OnlyOwnRewritesDropClaims`). `RowsInv` gives
`IndexFollowsBatches`. `BatchesAreSerial` needs `SerialInv`: throughout phase 3 the files are what the entries
done so far make, one by one, of those the section began with (`SerialRun`), unless edited by hand. `SerialRun` is a
recursive function, so the proof works with its defining equation, and that there is one
is shown by taking the least prefix of the batch that has no result. `EveryEndLeavesAPrefix` is what a batch
that is *not* atomic (the run `batch_atomic`) still promises: however a section ends, by an error, an
exception, a crash or a commit, the files are those its first n entries make, for some n
(`FirstEntriesOnly`); both leave aside sections during which a file was edited by hand.

`IndexerRunProofs`, for any pages, index pages, edits and interruptions. The invariant `Inv` says
for every place in a pass what the tables hold, and each step has a lemma that it is kept.
- `Clean`: nothing was cut short, or the wipe of the rebuild that is running has removed what was.
  Then the tables agree (`RestInv`) but for the page a loop is at: `DeleteInv`, `EmbedInv` and
  `ReplaceInv` say by how much. An interruption between two rounds of these loops leaves agreed
  tables, one inside sets `damaged`; that split is `InterruptKeeps`, and at rest it is
  `TablesAgreeBetweenPasses`.
- `ScanInv` and `WalkInv` are what a walk knows of the files as long as nobody edits them: a
  file is in the batch, or its row is right already (`Pending`), or it is stale and waits in the
  sweep. The regeneration writes files itself, and keeps `Pending` because it batches each file
  it writes. With the agreement of the tables this is `WalkIsAProjection`.
- `ListInv` follows the index pages: the pass over them cannot change what they list
  (`RenderedFromPages`), which is why one round is enough. Hence `IndexPagesAreCurrent`.
- `FreshInv`, what is batched differs from the row the page had, makes `UpToDateIsLeftAlone`: over an
  index that is up to date the batch is empty.
- `PassesMoveOn` is the part of `PassEnds` that needs no fairness: `StepsLeft`, a number computed
  from where the pass is and what is still in its sets, falls with each step of the pass and with
  no other step rises, whatever is edited, interrupted or fails. So a pass over N files takes
  at most 15 N + 21 steps. It needs types and finite sets of files only.

`TaskSchedulerProofs`. `EarlyCancelIsSafe` holds on pool threads too. Its invariant says that
the flag is set before the state is looked at, and that a worker which has wiped belongs to a
task that was running before, so a cancel that saw it pending came earlier. `DoneInv` follows
each runner to its end. `RebuildsFinish` follows the worker instead: from the wipe on it is
the holder of the mutex, and no step of the loop or of a cancel changes that. The two `Contract...` theorems are
about tasks that only cancellers in `OnLoop` asked to stop, whatever the others do to other
tasks (`ContractInv`); the run `scheduler_final` shows that the contract is needed.
`PoolHasAThreadForTheHolder`: waiters for the mutex sit on pool threads, but whoever gets the mutex
has one too (`HolderInv`), and a step takes one thread at most, and only a free one
(`OneThreadAtATime`).

`PageFilesProofs`, for any ids, types, contents and calls.
- `TargetsDiffer`: two pages with one file are one page of one type. Slugs and sections never
  meet, because `.md` is appended to a name without a dot in the one case and a directory
  stands there in the other.
- `OneHome` needs `HomeInv`: the plan, too, must be sound. Until a page strays, every row a
  commit still carries was computed from the page's one file and names it, and a file commit
  goes to the page's place (`PlanInv`); a crash drops the plan and keeps the rest. Without
  `PlanInv`, a pass could commit a row its file no longer justifies.
- `RemovalsStick`: a page whose removal ran to its end has no file, row, embedding or outgoing link
  until somebody brings it back. It needs `RemovalPlan`: the plan is what is left of a removal,
  and the commits before have done their part (`Erased`), or the write of a page that is not
  away, or `Calm`, without a commit that would bring such a page back. Strayed pages are
  excluded, because for them it is false, as the run `removed` shows.

`CorpusReadsProofs`.
- `ReadingChangesNothing` is the refinement of `PageFiles`, hence `ReadersFindOneHome`.
- `LookupsAreHonest` needs `LookupInv`: the table as it is now is among `moments`; past the exact id
  one of them lacks it, past the exact alias one of them has nothing with it; and on its way to the page,
  `canon` is the only page that some moment's table named (`Led`). What the limits leave is `AliasesFetched`
  and `AliasesScanned`: all rows, or as many as the cap, or a scan of fewer rows than there are. That
  rests on `TablesAreFinite`. No writer is excluded and the corpus may be of any size.
- `TraverseIsBoundedReach` needs `WalkInv`: after n levels `visited` is what n edges reach and
  `frontier` what n edges reach and n - 1 do not. That what n + 1 edges reach is that and one
  edge more is shown by taking the least walk that is not (`WithinStep`), and an empty
  frontier ends every longer walk (`WithinClosed`).
- `ListIsComplete` is about one answer of `list_pages`: under its limit and not marked truncated,
  it has every page that passes. It assumes that a list without filters asks for no more than
  `FetchCap` rows, because above that the code cuts the list and does not say so.

- `ReadsTypeCorrect` says of rankings that they are sequences of ids; it rests on `TablesAreFinite`,
  without which a limit or an order of rows need not exist, and on which step has which
  kind of ranking in hand (`StageInv`).
- `SearchIsFilled` needs `SearchInv`: as long as nothing was committed since `search` opened its
  first table, that snapshot is the pages table, and every ranked id is in the pages or the
  embeddings table. `HitsAreKept` says what the loop over the hits leaves out, and
  `HydrateFills` puts the two together. `SimilarityCompletes` is the same argument with `SimilarInv`.
  That hits pass the filters, whatever was committed, follows from the last step alone.
- `FusionIsOneOrder`: `ComesFirst` is a strict total order of the candidates, hence so is `Before`,
  and the place of a candidate is the number of those before it (`SortedOnce`).
- `EveryCallCanBeAnswered`: wherever a step of a reader picks one of the possible answers of the
  store or of a sort, there is one. Otherwise the theorems about answers could hold
  because some answer is never given.

Only model-checked: liveness under fairness, `PassEnds`, `SomeWaiterEnters`, `LocksAreGivenBack`,
`TaskEnds` and `RebuildEnds`. The prover has no rule for WF and none of its backends reasons about
ENABLED. What of these is safety is proved: that passes move on, and that the holder of the
mutex always has a thread. Every other property of a passing run is a theorem.

## Not modelled

What is left has no behaviour over time, or none the code promises anything about.

- Permissions: `permissions.py` looks a scope up in a constant table, once per call, and keeps no
  state. A specification would be that table again, and its property the table once more.
- Embedder, configuration, server and transport: a pure function of a text, values read once
  before anything runs, and the wiring of libraries. Their failures are modelled where they
  are felt: a pass that raises, a construction that is tried again, a pool that is full, a
  shutdown.
- The field declarations of `schema.py`: data. Its id rules are in `PageIds`; the longest
  section id is not.
- Argument checks, wording, snippets, and the result records of the tools: pure formatting. A
  `limit` or `top_k` below 1 is one of these checks.
- FTS and ANN refresh: they change no row, and their failure is caught and reported; only
  whether a pass did one is modelled, in `AppResources`.
- Approximate search: a vector query returns the nearest rows there are, up to its limit. An ANN index
  may skip some, and then an answer is incomplete in ways `SearchFillsTopK` and
  `SimilarityIsComplete` do not have.
- The `sources` table: the indexer never writes it. Its drop and creation go with the others.
- The `aliases` migration of `ensure_tables`: it adds an empty column once, before any reader. So the
  scans for tables without that column (`_find_pages_by_alias_legacy_scan`, which has no limit) are left out.
- The limit of 100,000 concepts of an index page (`storage/indexer.py:434`): `Rendered` takes all, so
  `IndexPagesListConcepts` is about corpora with fewer.
- `created_at` and other timestamps, progress messages, counters, and the remaining parts of a
  status reply: nothing branches on them. That a rebuild resets `created_at` is listed as a
  hazard without a property.
- A hand edit between a handler's parse and its `os.replace`: the mutex does not bind editors, so
  the edit is lost, and the code makes no claim to the contrary.
- A crash inside `remove_page` between the pages row and the claims rows: in `CorpusWrites` `rows`
  moves as one; the file is still there then, so the next pass writes all of them again.
  `PageFiles` has it commit by commit.

## Plan

Done: the mutex, the write tools and their abstract specification, the pass, the scheduler, the
batch tools, the shared resources; identity (ids, paths, files with one id, rows by id); the
read side, beside a writer that commits table by table; the theorems above.

Left, should the code or the provers change: the five liveness properties as theorems, once
ENABLED can be reasoned about; `created_at`, if a tool starts to rely on it; concurrent
hand edits inside a handler, if the tools start to guard against them.
