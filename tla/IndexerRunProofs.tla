-------------------------- MODULE IndexerRunProofs --------------------------
(***************************************************************************)
(* Proofs about IndexerRun: its types, the agreement of the four tables,   *)
(* the index pages, that a walk nobody disturbed leaves the tables equal   *)
(* to the projection of the files, that a pass over an index that is up to *)
(* date writes nothing, and that every pass moves on to its end.           *)
(***************************************************************************)
EXTENDS IndexerRun, FiniteSetTheorems, TLAPS

(* The four tables, in the order of the loops over them.                   *)
LEMMA FourTables ==
  /\ Table = {"pages", "embeddings", "links", "claims"}
  /\ TableOrder[1] = "pages" /\ TableOrder[2] = "embeddings"
  /\ TableOrder[3] = "links" /\ TableOrder[4] = "claims"
  /\ \A k \in 1..4 : TableOrder[k] \in Table
<1>1. /\ TableOrder[1] = "pages" /\ TableOrder[2] = "embeddings"
      /\ TableOrder[3] = "links" /\ TableOrder[4] = "claims"
  BY DEF TableOrder
<1>2. 1..4 = {1, 2, 3, 4}
  OBVIOUS
<1>3. QED
  BY <1>1, <1>2 DEF Table

(* What a row may be, and that a regenerated index page is one.            *)
LEMMA RowFacts ==
  /\ NoRows \in [File -> Row]
  /\ Absent \in Row /\ Absent \in Content /\ Broken \in Content
  /\ Row \subseteq Content
  /\ \A c \in Content : Parses(c) => c \in Row
<1>1. Absent # Broken
  BY IndexerAssumption
<1>2. QED
  BY <1>1 DEF NoRows, Row, Content, Parses

(* A regenerated index page is a row, and it parses.                       *)
LEMMA RenderedIsARow ==
  ASSUME NEW i \in IndexPage, NEW rows \in [File -> Row]
  PROVE  Rendered(i, rows) \in Row /\ Parses(Rendered(i, rows))
<1>1. \A q \in Page : rows[q] \in Flagged[i] => rows[q] \in Version
  BY IndexerAssumption
<1>2. Rendered(i, rows) \subseteq Page \X Version
  BY <1>1 DEF Rendered
<1>3. Rendered(i, rows) \in Listing /\ Rendered(i, rows) \notin {Absent, Broken}
  BY <1>2, IndexerAssumption DEF Listing
<1>4. QED
  BY <1>3 DEF Row, Content, Parses

(* The pass keeps the batch and the tables functions from files to rows.   *)
LEMMA OneRow ==
  ASSUME TypeOK, NEW T \in Table, NEW f, NEW r \in Row
  PROVE  [tab EXCEPT ![T][f] = r] \in [Table -> [File -> Row]]
<1>1. tab[T] \in [File -> Row]
  BY DEF TypeOK
<1>2. [tab[T] EXCEPT ![f] = r] \in [File -> Row]
  BY <1>1
<1>3. QED
  BY <1>2 DEF TypeOK

(* Merging the batch into a table keeps its rows rows.                     *)
LEMMA UpsertedRows ==
  ASSUME TypeOK, NEW T \in Table
  PROVE  /\ Upserted(tab[T]) \in [File -> Row]
         /\ [tab EXCEPT ![T] = Upserted(@)] \in [Table -> [File -> Row]]
<1>1. tab[T] \in [File -> Row] /\ batch \in [File -> Row]
  BY DEF TypeOK
<1>2. Upserted(tab[T]) \in [File -> Row]
  BY <1>1 DEF Upserted
<1>3. QED
  BY <1>2 DEF TypeOK

(* The state a pass leaves its variables in when it ends.                  *)
LEMMA ReturnTypes ==
  ASSUME TypeOK, Return
  PROVE  /\ pc' \in {"idle", "drop", "ensure", "scan", "sweep", "delete",
                     "upsertPages", "upsertEmbeddings", "replace", "regenerate"}
         /\ todo' \subseteq File /\ seen' \subseteq File /\ work' \subseteq File
         /\ old' \in [File -> Row] /\ batch' \in [File -> Row]
         /\ at' \in File \cup {Absent} /\ step' \in 1..4 /\ second' \in BOOLEAN
<1>1. pc' = "idle" /\ at' = Absent /\ step' = 1 /\ second' = FALSE
  BY DEF Return
<1>2. todo' = {} /\ seen' = {} /\ work' = {} /\ old' = NoRows /\ batch' = NoRows
  BY DEF Return
<1>3. NoRows \in [File -> Row]
  BY RowFacts
<1>4. 1 \in 1..4 /\ FALSE \in BOOLEAN
  OBVIOUS
<1>5. QED
  BY <1>1, <1>2, <1>3, <1>4

(* Every variable keeps its type.                                          *)
THEOREM TypeCorrect == Spec => []TypeOK
<1>1. Init => TypeOK
  <2> SUFFICES ASSUME Init PROVE TypeOK
    OBVIOUS
  <2>1. [T \in Table |-> NoRows] \in [Table -> [File -> Row]] /\ NoRows \in [File -> Content]
    BY RowFacts
  <2>2. 0 \in 0..MaxEdits /\ 0 \in 0..MaxInterrupts
    BY IndexerAssumption
  <2>3. tables \subseteq Table /\ pc = "idle" /\ mode = "incremental" /\ last = "none"
    BY DEF Init
  <2>4. disk \in [File -> Content] /\ tab \in [Table -> [File -> Row]]
    BY <2>1 DEF Init
  <2>5. /\ todo \subseteq File /\ seen \subseteq File /\ work \subseteq File
        /\ at \in File \cup {Absent} /\ step \in 1..4
    BY DEF Init
  <2>6. old \in [File -> Row] /\ batch \in [File -> Row]
    BY RowFacts DEF Init
  <2>7. /\ second \in BOOLEAN /\ damaged \in BOOLEAN /\ kept \in BOOLEAN
        /\ edits \in 0..MaxEdits /\ interrupts \in 0..MaxInterrupts
    BY <2>2 DEF Init
  <2>8. QED
    BY <2>3, <2>4, <2>5, <2>6, <2>7 DEF TypeOK
<1>2. TypeOK /\ [Next]_vars => TypeOK'
  <2> SUFFICES ASSUME TypeOK, [Next]_vars PROVE TypeOK'
    OBVIOUS
  <2>1. CASE UNCHANGED vars
    BY <2>1 DEF TypeOK, vars
  <2>2. CASE StartIncremental
    <3>1. tab["pages"] \in [File -> Row] /\ Existing \subseteq File
      BY FourTables DEF TypeOK, Existing
    <3>2. QED
      BY <2>2, <3>1 DEF StartIncremental, Begin, TypeOK, scanVars, loopVars
  <2>3. CASE StartRebuild
    <3>1. UNCHANGED <<disk, tables, tab, todo, old, seen, batch, work, at, second, edits,
                      interrupts, damaged>>
      BY <2>3 DEF StartRebuild, scanVars
    <3>2. pc' = "drop" /\ mode' = "rebuild" /\ step' = 1 /\ last' = "rebuild" /\ kept' = FALSE
      BY <2>3 DEF StartRebuild
    <3>3. kept' \in BOOLEAN
      BY <3>2
    <3>6. step' \in 1..4
      <4>1. step' = 1
        BY <3>2
      <4>2. QED
        BY <4>1
    <3>4. last' \in {"none", "incremental", "targeted", "rebuild"}
          /\ mode' \in {"incremental", "targeted", "rebuild"}
          /\ pc' \in {"idle", "drop", "ensure", "scan", "sweep", "delete",
                     "upsertPages", "upsertEmbeddings", "replace", "regenerate"}
      BY <3>2
    <3>5. QED
      BY <3>1, <3>3, <3>4, <3>6 DEF TypeOK
  <2>4. ASSUME NEW f \in File, StartTargeted(f) PROVE TypeOK'
    BY <2>4, RowFacts DEF StartTargeted, Begin, TypeOK, loopVars
  <2>5. CASE Drop
    <3>1. [tab EXCEPT ![TableOrder[step]] = NoRows] \in [Table -> [File -> Row]]
      BY RowFacts DEF TypeOK
    <3>2. QED
      BY <2>5, <3>1 DEF Drop, NextTable, TypeOK, scanVars, ghostVars
  <2>6. CASE EnsureAndRun
    BY <2>6, RowFacts DEF EnsureAndRun, Begin, TypeOK, Existing, loopVars, ghostVars
  <2>7. ASSUME NEW f \in File, Scan(f) PROVE TypeOK'
    <3>1. Parses(disk[f]) => disk[f] \in Row
      BY RowFacts DEF TypeOK
    <3>2. batch' \in [File -> Row]
      BY <2>7, <3>1 DEF Scan, TypeOK
    <3>3. seen' \subseteq File /\ todo' \subseteq File
      BY <2>7 DEF Scan, TypeOK
    <3>4. QED
      BY <2>7, <3>2, <3>3 DEF Scan, TypeOK, loopVars, ghostVars
  <2>8. CASE EndScan
    BY <2>8 DEF EndScan, Stale, TypeOK, scanVars, ghostVars
  <2>9. ASSUME NEW f \in File, SweepNext(f) PROVE TypeOK'
    BY <2>9 DEF SweepNext, TypeOK, scanVars, ghostVars
  <2>10. CASE DeletePage
    <3>1. tab' \in [Table -> [File -> Row]]
      BY <2>10, OneRow, RowFacts DEF DeletePage, TypeOK
    <3>2. QED
      BY <2>10, <3>1 DEF DeletePage, NextTable, TypeOK, scanVars, ghostVars
  <2>11. CASE EndSweep
    BY <2>11 DEF EndSweep, TypeOK, File, scanVars, ghostVars
  <2>12. CASE UpsertPages
    <3>1. tab' \in [Table -> [File -> Row]]
      BY <2>12, UpsertedRows, FourTables DEF UpsertPages
    <3>2. QED
      BY <2>12, <3>1 DEF UpsertPages, TypeOK, scanVars, loopVars, ghostVars
  <2>13. CASE UpsertEmbeddings
    <3>1. tab' \in [Table -> [File -> Row]]
      BY <2>13, UpsertedRows, FourTables DEF UpsertEmbeddings
    <3>2. QED
      BY <2>13, <3>1 DEF UpsertEmbeddings, Batched, TypeOK, scanVars, ghostVars
  <2>14. ASSUME NEW f \in File, ReplaceRows(f) PROVE TypeOK'
    <3>1. ReplaceTable \in Table /\ batch[f] \in Row
      BY FourTables DEF ReplaceTable, TypeOK
    <3>2. tab' \in [Table -> [File -> Row]]
      BY <2>14, <3>1, OneRow, RowFacts DEF ReplaceRows
    <3>3. QED
      BY <2>14, <3>2 DEF ReplaceRows, TypeOK, scanVars, ghostVars
  <2>15. CASE EndProject
    <3>1. damaged' \in BOOLEAN
      BY <2>15 DEF EndProject
    <3>2. CASE second
      BY <2>15, <3>1, <3>2, ReturnTypes DEF EndProject, TypeOK
    <3>3. CASE ~second
      <4>1. IndexPage \subseteq File
        BY DEF File
      <4>2. QED
        BY <2>15, <3>1, <3>3, <4>1, RowFacts DEF EndProject, TypeOK, scanVars
    <3>4. QED
      BY <3>2, <3>3
  <2>16. ASSUME NEW i \in IndexPage, Regenerate(i) PROVE TypeOK'
    <3>1. Rendered(i, tab["pages"]) \in Row /\ i \in File
      BY RenderedIsARow, FourTables DEF TypeOK, File
    <3>2. disk' \in [File -> Content] /\ batch' \in [File -> Row]
      BY <2>16, <3>1, RowFacts DEF Regenerate, TypeOK
    <3>3. QED
      BY <2>16, <3>2 DEF Regenerate, TypeOK, scanVars, ghostVars
  <2>17. CASE EndRegenerate
    <3>1. damaged' \in BOOLEAN
      BY <2>17 DEF EndRegenerate
    <3>2. CASE Return
      BY <2>17, <3>1, <3>2, ReturnTypes DEF EndRegenerate, TypeOK
    <3>3. CASE ~Return
      BY <2>17, <3>1, <3>3 DEF EndRegenerate, TypeOK, scanVars, loopVars
    <3>4. QED
      BY <3>2, <3>3
  <2>18. CASE MissingTable
    <3>1. damaged' \in BOOLEAN
      BY <2>18 DEF MissingTable
    <3>2. QED
      BY <2>18, <3>1, ReturnTypes DEF MissingTable, TypeOK
  <2>19. ASSUME NEW f \in File, NEW c \in Content, Edit(f, c) PROVE TypeOK'
    BY <2>19, IndexerAssumption DEF Edit, TypeOK, scanVars, loopVars
  <2>20. CASE CreateMissingTables
    BY <2>20 DEF CreateMissingTables, TypeOK, scanVars, loopVars, ghostVars
  <2>21. CASE DropFails
    BY <2>21, IndexerAssumption DEF DropFails, NextTable, TypeOK, scanVars
  <2>22. CASE CancelScan
    BY <2>22, IndexerAssumption DEF CancelScan, TypeOK, loopVars
  <2>23. CASE Interrupt
    <3>1. damaged' \in BOOLEAN
      BY <2>23 DEF Interrupt
    <3>2. interrupts' \in 0..MaxInterrupts
      BY <2>23, IndexerAssumption DEF Interrupt, TypeOK
    <3>3. QED
      BY <2>23, <3>1, <3>2, ReturnTypes DEF Interrupt, TypeOK
  <2>24. HandEdits \subseteq Content /\ {Absent, Broken, Scribble} \subseteq Content
    BY IndexerAssumption DEF Content
  <2>25. QED
    BY <2>1, <2>2, <2>3, <2>4, <2>5, <2>6, <2>7, <2>8, <2>9, <2>10, <2>11, <2>12, <2>13, <2>14,
       <2>15, <2>16, <2>17, <2>18, <2>19, <2>20, <2>21, <2>22, <2>23, <2>24
       DEF Next, Start, Proceed, Environment, File
<1>3. QED
  BY <1>1, <1>2, PTL DEF Spec

-----------------------------------------------------------------------------
(* The inductive invariant                                                 *)

pages == tab["pages"]
embeddings == tab["embeddings"]
links == tab["links"]
claims == tab["claims"]

\* The rows are those of whole passes: nothing was cut short, or the wipe of
\* the rebuild that is running has removed what was.
Clean == ~damaged \/ (mode = "rebuild" /\ ~kept /\ pc \notin {"idle", "drop"})

Agreed(f) == embeddings[f] = pages[f] /\ links[f] = pages[f] /\ claims[f] = pages[f]

\* The loops of a pass start at their first table and leave nothing behind.
LoopInv ==
    /\ pc \notin {"drop", "delete", "replace"} => step = 1
    /\ pc = "replace" /\ step > 1 => at \in work
    /\ pc = "delete" => at \in File
    /\ pc \in {"idle", "drop", "ensure"} => seen = {} /\ batch = NoRows
    /\ pc \in {"drop", "ensure"} => mode = "rebuild"
    /\ second => pc \in {"upsertPages", "upsertEmbeddings", "replace"}
    /\ second \/ pc = "regenerate" => Batched \subseteq IndexPage
    /\ pc = "regenerate" => \A i \in work : batch[i] = Absent
    /\ last # "none" => last = mode

\* The wipe empties one table after the other.
WipeInv ==
    /\ kept => damaged
    /\ pc = "drop" /\ ~kept =>
         /\ step > 1 => pages = NoRows
         /\ step > 2 => embeddings = NoRows
         /\ step > 3 => links = NoRows
    /\ pc = "drop" /\ step = 1 /\ ~damaged => \A f \in File : Agreed(f)
    /\ pc = "ensure" /\ ~kept =>
         pages = NoRows /\ embeddings = NoRows /\ links = NoRows /\ claims = NoRows

\* Where no write is half done the four tables agree.
RestInv ==
    pc \in {"idle", "scan", "sweep", "upsertPages", "regenerate"} /\ Clean =>
        \A f \in File : Agreed(f)

\* A page being deleted is gone from the tables the loop has passed.
DeleteInv ==
    pc = "delete" /\ Clean =>
        /\ \A f \in File \ {at} : Agreed(f)
        /\ pages[at] = IF step > 1 THEN Absent ELSE claims[at]
        /\ embeddings[at] = IF step > 2 THEN Absent ELSE claims[at]
        /\ links[at] = IF step > 3 THEN Absent ELSE claims[at]

\* The pages rows are ahead of the other tables by the batch.
EmbedInv ==
    pc = "upsertEmbeddings" /\ Clean =>
        \A f \in File :
            /\ pages[f] = IF batch[f] # Absent THEN batch[f] ELSE embeddings[f]
            /\ links[f] = embeddings[f] /\ claims[f] = embeddings[f]

\* Pages still to be done have their batch row in two tables, the page at hand
\* in three once its links are replaced; the others agree.
ReplaceInv ==
    pc = "replace" /\ Clean =>
        /\ \A f \in File \ work : Agreed(f)
        /\ \A f \in work : batch[f] # Absent /\ pages[f] = batch[f] /\ embeddings[f] = batch[f]
        /\ step > 2 => links[at] = batch[at]

\* The index pages that were regenerated list what the pages table says.
ListInv ==
    last # "none" =>
        /\ pc = "regenerate" => \A i \in IndexPage \ work : disk[i] = Rendered(i, pages)
        /\ second \/ pc = "idle" => \A i \in IndexPage : disk[i] = Rendered(i, pages)

\* The pages row of f is the projection of its file, or the batch will make it so.
RowOf(f) == IF Parses(disk[f]) THEN disk[f] ELSE Absent
Pending(f) == IF batch[f] # Absent THEN batch[f] = disk[f] ELSE pages[f] = RowOf(f)

Undisturbed == last \in {"incremental", "rebuild"} /\ Clean

\* What a walk that nothing disturbed has established so far.
ScanInv ==
    Undisturbed /\ pc = "scan" =>
        /\ old = pages
        /\ \A f \in todo : f \notin seen /\ batch[f] = Absent
        /\ \A f \in File \ todo :
             /\ f \in seen <=> Parses(disk[f])
             /\ batch[f] = Absent /\ f \in seen => old[f] = disk[f]
             /\ batch[f] # Absent => f \in seen /\ batch[f] = disk[f]

WalkInv ==
    Undisturbed =>
        /\ pc \in {"sweep", "delete"} => \A f \in File :
             IF f \in work \/ (pc = "delete" /\ f = at /\ step = 1)
               THEN batch[f] = Absent /\ ~Parses(disk[f])
               ELSE Pending(f)
        /\ pc = "delete" => batch[at] = Absent /\ ~Parses(disk[at])
        /\ pc \in {"upsertPages", "regenerate"} => \A f \in File : Pending(f)
        /\ pc \in {"upsertEmbeddings", "replace", "idle"} => \A f \in File : pages[f] = RowOf(f)

\* What is batched differs from the row the page had.
FreshInv ==
    Undisturbed =>
        /\ pc \in {"scan", "sweep", "delete", "upsertPages", "upsertEmbeddings", "regenerate"} =>
             \A f \in File : batch[f] # Absent => claims[f] # batch[f]
        /\ pc = "replace" => \A f \in work : claims[f] # batch[f]

Inv == LoopInv /\ WipeInv /\ RestInv /\ DeleteInv /\ EmbedInv /\ ReplaceInv /\ ListInv
       /\ ScanInv /\ WalkInv /\ FreshInv

-----------------------------------------------------------------------------
(* Every step keeps the invariant                                          *)

(* The four tables have rows for the files, and are all there is to `tab`. *)
LEMMA TablesTyped ==
  ASSUME TypeOK
  PROVE  /\ pages \in [File -> Row] /\ embeddings \in [File -> Row]
         /\ links \in [File -> Row] /\ claims \in [File -> Row]
BY FourTables DEF TypeOK, pages, embeddings, links, claims

(* A step that leaves `tab` alone leaves each table alone.                 *)
LEMMA SameTables ==
  ASSUME UNCHANGED tab
  PROVE  UNCHANGED <<pages, embeddings, links, claims>>
BY DEF pages, embeddings, links, claims

(* What is batched at no file, and which files an empty batch names.       *)
LEMMA EmptyBatch ==
  /\ \A f \in File : NoRows[f] = Absent
  /\ batch = NoRows => Batched = {}
  /\ Batched = {} => \A f \in File : batch[f] = Absent
BY DEF NoRows, Batched

(* An index page depends on the rows of the ordinary pages alone.          *)
LEMMA RenderedFromPages ==
  ASSUME NEW i \in IndexPage, NEW r1, NEW r2, \A p \in Page : r1[p] = r2[p]
  PROVE  Rendered(i, r1) = Rendered(i, r2)
BY DEF Rendered

(* A pass that ends over rows of whole passes keeps the invariant, however  *)
(* it ends.                                                                *)
LEMMA ReturnKeeps ==
  ASSUME TypeOK, Inv, Return, UNCHANGED <<disk, tab, mode, kept>>,
         last' = last \/ last' = "none",
         kept' => damaged',
         ~damaged' => \A f \in File : Agreed(f),
         last' # "none" => \A i \in IndexPage : disk[i] = Rendered(i, pages),
         Undisturbed' => \A f \in File : pages[f] = RowOf(f)
  PROVE  Inv'
<1>1. UNCHANGED <<pages, embeddings, links, claims>>
  BY SameTables
<1>2. batch' = NoRows /\ \A f \in File : batch'[f] = Absent
  BY EmptyBatch DEF Return
<1>3. LoopInv' /\ WipeInv'
  BY <1>1, <1>2 DEF Inv, Return, LoopInv, WipeInv
<1>4. RestInv' /\ DeleteInv' /\ EmbedInv' /\ ReplaceInv'
  BY <1>1 DEF Return, RestInv, Clean, Agreed, DeleteInv, EmbedInv, ReplaceInv
<1>5. ListInv' /\ ScanInv' /\ WalkInv' /\ FreshInv'
  BY <1>1, <1>2 DEF Return, ListInv, ScanInv, WalkInv, FreshInv, RowOf
<1>6. QED
  BY <1>3, <1>4, <1>5 DEF Inv

(* A row parses.                                                           *)
LEMMA BatchParses ==
  ASSUME TypeOK, NEW f \in File, batch[f] # Absent
  PROVE  Parses(batch[f])
BY DEF TypeOK, Row, Parses

(* An incremental pass starts from the hashes in the pages table.          *)
LEMMA StartIncrementalKeeps ==
  ASSUME TypeOK, Inv, StartIncremental
  PROVE  Inv'
<1>1. UNCHANGED <<pages, embeddings, links, claims>>
  BY SameTables DEF StartIncremental
<1>2. WipeInv' /\ DeleteInv' /\ EmbedInv' /\ ReplaceInv' /\ ListInv' /\ WalkInv'
  BY <1>1 DEF Inv, StartIncremental, Begin, loopVars, WipeInv, Agreed, DeleteInv, Clean,
     EmbedInv, ReplaceInv, ListInv, LoopInv, WalkInv, Undisturbed, Pending, RowOf
<1>3. LoopInv'
  BY <1>1 DEF Inv, StartIncremental, Begin, loopVars, LoopInv
<1>4. RestInv'
  BY <1>1 DEF Inv, StartIncremental, Begin, loopVars, RestInv, Clean, Agreed
<1>5. ScanInv'
  BY <1>1, EmptyBatch DEF Inv, LoopInv, StartIncremental, Begin, loopVars, ScanInv, Existing,
     Parses, pages
<1>6. FreshInv'
  BY <1>1, EmptyBatch DEF Inv, LoopInv, StartIncremental, Begin, loopVars, FreshInv
<1>7. QED
  BY <1>2, <1>3, <1>4, <1>5, <1>6 DEF Inv

(* A targeted pass walks over one file.                                    *)
LEMMA StartTargetedKeeps ==
  ASSUME TypeOK, Inv, NEW f \in File, StartTargeted(f)
  PROVE  Inv'
<1>1. UNCHANGED <<pages, embeddings, links, claims>>
  BY SameTables DEF StartTargeted
<1>2. /\ WipeInv' /\ DeleteInv' /\ EmbedInv' /\ ReplaceInv' /\ ListInv'
      /\ ScanInv' /\ WalkInv' /\ FreshInv'
  BY <1>1 DEF Inv, StartTargeted, Begin, loopVars, WipeInv, Agreed, DeleteInv, Clean, EmbedInv,
     ReplaceInv, ListInv, LoopInv, ScanInv, Undisturbed, WalkInv, Pending, RowOf, FreshInv
<1>3. LoopInv'
  BY <1>1 DEF Inv, StartTargeted, Begin, loopVars, LoopInv
<1>4. RestInv'
  BY <1>1 DEF Inv, StartTargeted, Begin, loopVars, RestInv, Clean, Agreed
<1>5. QED
  BY <1>2, <1>3, <1>4 DEF Inv

(* A rebuild starts with the wipe.                                         *)
LEMMA StartRebuildKeeps ==
  ASSUME TypeOK, Inv, StartRebuild
  PROVE  Inv'
<1>1. UNCHANGED <<pages, embeddings, links, claims>>
  BY SameTables DEF StartRebuild
<1>2. /\ RestInv' /\ DeleteInv' /\ EmbedInv' /\ ReplaceInv' /\ ListInv'
      /\ ScanInv' /\ WalkInv' /\ FreshInv'
  BY <1>1 DEF Inv, StartRebuild, scanVars, RestInv, Clean, Agreed, DeleteInv, EmbedInv,
     ReplaceInv, ListInv, LoopInv, ScanInv, Undisturbed, WalkInv, Pending, RowOf, FreshInv
<1>3. LoopInv'
  BY <1>1 DEF Inv, StartRebuild, scanVars, LoopInv
<1>4. WipeInv'
  BY <1>1 DEF Inv, StartRebuild, scanVars, WipeInv, Agreed, RestInv, Clean
<1>5. QED
  BY <1>2, <1>3, <1>4 DEF Inv

(* One table is dropped.                                                   *)
LEMMA DropKeeps ==
  ASSUME TypeOK, Inv, Drop
  PROVE  Inv'
<1>1. /\ pages' = IF step = 1 THEN NoRows ELSE pages
      /\ embeddings' = IF step = 2 THEN NoRows ELSE embeddings
      /\ links' = IF step = 3 THEN NoRows ELSE links
      /\ claims' = IF step = 4 THEN NoRows ELSE claims
  BY FourTables DEF TypeOK, Drop, pages, embeddings, links, claims
<1>2. step \in {1, 2, 3, 4}
  BY DEF TypeOK
<1>3. /\ RestInv' /\ DeleteInv' /\ EmbedInv' /\ ReplaceInv' /\ ListInv'
      /\ ScanInv' /\ WalkInv' /\ FreshInv'
  BY <1>1, <1>2 DEF Inv, Drop, NextTable, scanVars, ghostVars, RestInv, Clean, Agreed,
     DeleteInv, EmbedInv, ReplaceInv, ListInv, LoopInv, ScanInv, Undisturbed, WalkInv, Pending,
     RowOf, FreshInv
<1>4. LoopInv'
  BY <1>1, <1>2 DEF Inv, Drop, NextTable, scanVars, ghostVars, LoopInv
<1>5. WipeInv'
  BY <1>1, <1>2 DEF Inv, Drop, NextTable, scanVars, ghostVars, WipeInv, Agreed
<1>6. QED
  BY <1>3, <1>4, <1>5 DEF Inv

(* A drop that fails leaves its table: the rebuild is not a clean one.     *)
LEMMA DropFailsKeeps ==
  ASSUME TypeOK, Inv, DropFails
  PROVE  Inv'
<1>1. UNCHANGED <<pages, embeddings, links, claims>>
  BY SameTables DEF DropFails
<1>2. /\ RestInv' /\ DeleteInv' /\ EmbedInv' /\ ReplaceInv' /\ ListInv'
      /\ ScanInv' /\ WalkInv' /\ FreshInv'
  BY <1>1 DEF Inv, DropFails, NextTable, scanVars, RestInv, Clean, Agreed, DeleteInv, EmbedInv,
     ReplaceInv, ListInv, LoopInv, ScanInv, Undisturbed, WalkInv, Pending, RowOf, FreshInv
<1>3. LoopInv'
  BY <1>1 DEF Inv, DropFails, NextTable, scanVars, LoopInv
<1>4. WipeInv'
  BY <1>1 DEF Inv, DropFails, NextTable, scanVars, WipeInv, Agreed
<1>5. QED
  BY <1>2, <1>3, <1>4 DEF Inv

(* After the wipe every table is empty, and so is the batch.               *)
LEMMA EnsureAndRunKeeps ==
  ASSUME TypeOK, Inv, EnsureAndRun
  PROVE  Inv'
<1>1. UNCHANGED <<pages, embeddings, links, claims>>
  BY SameTables DEF EnsureAndRun
<1>2. WipeInv' /\ DeleteInv' /\ EmbedInv' /\ ReplaceInv' /\ ListInv' /\ WalkInv'
  BY <1>1 DEF Inv, EnsureAndRun, Begin, loopVars, ghostVars, WipeInv, Agreed, DeleteInv, Clean,
     EmbedInv, ReplaceInv, ListInv, LoopInv, WalkInv, Undisturbed, Pending, RowOf
<1>3. LoopInv'
  BY <1>1 DEF Inv, EnsureAndRun, Begin, loopVars, ghostVars, LoopInv
<1>4. RestInv'
  BY <1>1 DEF Inv, EnsureAndRun, Begin, loopVars, ghostVars, RestInv, Clean, Agreed, WipeInv
<1>5. ScanInv'
  BY <1>1, EmptyBatch DEF Inv, LoopInv, WipeInv, EnsureAndRun, Begin, loopVars, ghostVars,
     ScanInv, Undisturbed, Clean, Existing, Parses
<1>6. FreshInv'
  BY <1>1, EmptyBatch DEF Inv, LoopInv, EnsureAndRun, Begin, loopVars, ghostVars, FreshInv
<1>7. QED
  BY <1>2, <1>3, <1>4, <1>5, <1>6 DEF Inv

(* A file looked at is seen if it parses, and batched if its hash differs. *)
LEMMA ScanKeeps ==
  ASSUME TypeOK, Inv, NEW f \in File, Scan(f)
  PROVE  Inv'
<1>1. UNCHANGED <<pages, embeddings, links, claims>>
  BY SameTables DEF Scan
<1>2. batch \in [File -> Row]
  BY DEF TypeOK
<1>3. WipeInv' /\ DeleteInv' /\ EmbedInv' /\ ReplaceInv' /\ ListInv' /\ WalkInv'
  BY <1>1, <1>2 DEF Inv, Scan, loopVars, ghostVars, WipeInv, Agreed, DeleteInv, Clean, EmbedInv,
     ReplaceInv, ListInv, LoopInv, WalkInv, Undisturbed, Pending, RowOf
<1>4. LoopInv'
  BY <1>1, <1>2 DEF Inv, Scan, loopVars, ghostVars, LoopInv
<1>5. RestInv'
  BY <1>1, <1>2 DEF Inv, Scan, loopVars, ghostVars, RestInv, Clean, Agreed
<1>6. ScanInv'
  <2> SUFFICES ASSUME Undisturbed
               PROVE  /\ old' = pages'
                      /\ \A g \in todo' : g \notin seen' /\ batch'[g] = Absent
                      /\ \A g \in File \ todo' :
                           /\ g \in seen' <=> Parses(disk'[g])
                           /\ batch'[g] = Absent /\ g \in seen' => old'[g] = disk'[g]
                           /\ batch'[g] # Absent => g \in seen' /\ batch'[g] = disk'[g]
    BY DEF Scan, loopVars, ghostVars, ScanInv, Undisturbed, Clean, Parses
  <2>1. ScanInv /\ pc = "scan" /\ UNCHANGED <<disk, old>> /\ todo' = todo \ {f}
    BY DEF Inv, Scan
  <2>2. \A g \in File \ {f} : batch'[g] = batch[g] /\ (g \in seen' <=> g \in seen)
    BY <1>2 DEF Scan
  <2>3. f \in todo /\ f \notin seen /\ batch[f] = Absent
    BY <2>1 DEF Scan, ScanInv
  <2>4. /\ f \in seen' <=> Parses(disk[f])
        /\ batch'[f] = IF Parses(disk[f]) /\ old[f] # disk[f] THEN disk[f] ELSE Absent
    BY <1>2, <2>3 DEF Scan
  <2>5. Parses(disk[f]) => disk[f] # Absent
    BY DEF Parses
  <2>6. todo \subseteq File
    BY DEF TypeOK
  <2>7. QED
    BY <1>1, <2>1, <2>2, <2>4, <2>5, <2>6 DEF ScanInv
<1>7. FreshInv'
  BY <1>1, <1>2 DEF Inv, Scan, loopVars, ghostVars, FreshInv, Undisturbed, Clean, ScanInv,
     RestInv, Agreed, Parses
<1>8. QED
  BY <1>3, <1>4, <1>5, <1>6, <1>7 DEF Inv

(* What was indexed and not seen is stale.                                 *)
LEMMA EndScanKeeps ==
  ASSUME TypeOK, Inv, EndScan
  PROVE  Inv'
<1>1. UNCHANGED <<pages, embeddings, links, claims>>
  BY SameTables DEF EndScan
<1>2. WipeInv' /\ DeleteInv' /\ EmbedInv' /\ ReplaceInv' /\ ListInv' /\ ScanInv'
  BY <1>1 DEF Inv, EndScan, scanVars, ghostVars, WipeInv, Agreed, DeleteInv, Clean, EmbedInv,
     ReplaceInv, ListInv, LoopInv, ScanInv, Undisturbed
<1>3. LoopInv'
  BY <1>1 DEF Inv, EndScan, scanVars, ghostVars, LoopInv
<1>4. RestInv'
  BY <1>1 DEF Inv, EndScan, scanVars, ghostVars, RestInv, Clean, Agreed
<1>5. WalkInv'
  BY <1>1 DEF Inv, EndScan, scanVars, ghostVars, WalkInv, Undisturbed, Clean, Pending, RowOf,
     ScanInv, Stale, LoopInv
<1>6. FreshInv'
  BY <1>1 DEF Inv, EndScan, scanVars, ghostVars, FreshInv, Undisturbed, Clean
<1>7. QED
  BY <1>2, <1>3, <1>4, <1>5, <1>6 DEF Inv

(* A cancelled scan goes on to the sweep, and the walk no longer counts.   *)
LEMMA CancelScanKeeps ==
  ASSUME TypeOK, Inv, CancelScan
  PROVE  Inv'
<1>1. UNCHANGED <<pages, embeddings, links, claims>>
  BY SameTables DEF CancelScan
<1>2. /\ WipeInv' /\ DeleteInv' /\ EmbedInv' /\ ReplaceInv' /\ ListInv'
      /\ ScanInv' /\ WalkInv' /\ FreshInv'
  BY <1>1 DEF Inv, CancelScan, loopVars, WipeInv, Agreed, DeleteInv, Clean, EmbedInv,
     ReplaceInv, ListInv, LoopInv, ScanInv, Undisturbed, WalkInv, Pending, RowOf, FreshInv
<1>3. LoopInv'
  BY <1>1 DEF Inv, CancelScan, loopVars, LoopInv
<1>4. RestInv'
  BY <1>1 DEF Inv, CancelScan, loopVars, RestInv, Clean, Agreed
<1>5. QED
  BY <1>2, <1>3, <1>4 DEF Inv

(* The sweep takes a stale page.                                           *)
LEMMA SweepNextKeeps ==
  ASSUME TypeOK, Inv, NEW f \in File, SweepNext(f)
  PROVE  Inv'
<1>1. UNCHANGED <<pages, embeddings, links, claims>>
  BY SameTables DEF SweepNext
<1>2. WipeInv' /\ RestInv' /\ EmbedInv' /\ ReplaceInv' /\ ListInv' /\ ScanInv'
  BY <1>1 DEF Inv, SweepNext, scanVars, ghostVars, WipeInv, Agreed, RestInv, Clean, EmbedInv,
     ReplaceInv, ListInv, LoopInv, ScanInv, Undisturbed
<1>3. LoopInv'
  BY <1>1 DEF Inv, SweepNext, scanVars, ghostVars, LoopInv
<1>4. DeleteInv'
  BY <1>1 DEF Inv, SweepNext, scanVars, ghostVars, DeleteInv, Clean, Agreed, LoopInv, RestInv
<1>5. WalkInv'
  BY <1>1 DEF Inv, SweepNext, scanVars, ghostVars, WalkInv, Undisturbed, Clean, Pending, RowOf,
     LoopInv
<1>6. FreshInv'
  BY <1>1 DEF Inv, SweepNext, scanVars, ghostVars, FreshInv, Undisturbed, Clean
<1>7. QED
  BY <1>2, <1>3, <1>4, <1>5, <1>6 DEF Inv

(* The stale page is removed from one table.                               *)
LEMMA DeletePageKeeps ==
  ASSUME TypeOK, Inv, DeletePage
  PROVE  Inv'
<1>1. at \in File /\ step \in {1, 2, 3, 4}
  BY DEF Inv, LoopInv, DeletePage, TypeOK
<1>2. /\ pages' = IF step = 1 THEN [pages EXCEPT ![at] = Absent] ELSE pages
      /\ embeddings' = IF step = 2 THEN [embeddings EXCEPT ![at] = Absent] ELSE embeddings
      /\ links' = IF step = 3 THEN [links EXCEPT ![at] = Absent] ELSE links
      /\ claims' = IF step = 4 THEN [claims EXCEPT ![at] = Absent] ELSE claims
  BY <1>1, FourTables DEF TypeOK, DeletePage, pages, embeddings, links, claims
<1>3. /\ pages \in [File -> Row] /\ embeddings \in [File -> Row]
      /\ links \in [File -> Row] /\ claims \in [File -> Row]
  BY TablesTyped
<1>4. WipeInv' /\ EmbedInv' /\ ReplaceInv' /\ ListInv' /\ ScanInv'
  BY <1>1, <1>2, <1>3 DEF Inv, DeletePage, NextTable, scanVars, ghostVars, WipeInv, Agreed,
     EmbedInv, Clean, ReplaceInv, ListInv, LoopInv, ScanInv, Undisturbed
<1>5. LoopInv'
  BY <1>1, <1>2, <1>3 DEF Inv, DeletePage, NextTable, scanVars, ghostVars, LoopInv
<1>6. RestInv'
  BY <1>1, <1>2, <1>3 DEF Inv, DeletePage, NextTable, scanVars, ghostVars, RestInv, Clean,
     Agreed, DeleteInv
<1>7. DeleteInv'
  BY <1>1, <1>2, <1>3 DEF Inv, DeletePage, NextTable, scanVars, ghostVars, DeleteInv, Clean,
     Agreed
<1>8. WalkInv'
  BY <1>1, <1>2, <1>3 DEF Inv, DeletePage, NextTable, scanVars, ghostVars, WalkInv, Undisturbed,
     Clean, Pending, RowOf
<1>9. FreshInv'
  BY <1>1, <1>2, <1>3 DEF Inv, DeletePage, NextTable, scanVars, ghostVars, FreshInv,
     Undisturbed, Clean, WalkInv, Parses
<1>10. QED
  BY <1>4, <1>5, <1>6, <1>7, <1>8, <1>9 DEF Inv

(* The sweep is over: the batch is projected, or the index pages are next. *)
LEMMA EndSweepKeeps ==
  ASSUME TypeOK, Inv, EndSweep
  PROVE  Inv'
<1>1. UNCHANGED <<pages, embeddings, links, claims>>
  BY SameTables DEF EndSweep
<1>2. IndexPage \subseteq File /\ (Batched = {} => \A f \in File : batch[f] = Absent)
  BY EmptyBatch DEF File
<1>3. WipeInv' /\ DeleteInv' /\ EmbedInv' /\ ReplaceInv' /\ ListInv' /\ ScanInv'
  BY <1>1, <1>2 DEF Inv, EndSweep, scanVars, ghostVars, WipeInv, Agreed, DeleteInv, Clean,
     EmbedInv, ReplaceInv, ListInv, LoopInv, ScanInv, Undisturbed
<1>4. LoopInv'
  BY <1>1, <1>2 DEF Inv, EndSweep, scanVars, ghostVars, LoopInv, Batched
<1>5. RestInv'
  BY <1>1, <1>2 DEF Inv, EndSweep, scanVars, ghostVars, RestInv, Clean, Agreed
<1>6. WalkInv'
  BY <1>1, <1>2 DEF Inv, EndSweep, scanVars, ghostVars, WalkInv, Undisturbed, Clean, Pending,
     RowOf
<1>7. FreshInv'
  BY <1>1, <1>2 DEF Inv, EndSweep, scanVars, ghostVars, FreshInv, Undisturbed, Clean
<1>8. QED
  BY <1>3, <1>4, <1>5, <1>6, <1>7 DEF Inv

(* The pages rows become those of the batch.                               *)
LEMMA UpsertPagesKeeps ==
  ASSUME TypeOK, Inv, UpsertPages
  PROVE  Inv'
<1>1. pages' = Upserted(pages) /\ UNCHANGED <<embeddings, links, claims>>
  BY FourTables DEF TypeOK, UpsertPages, pages, embeddings, links, claims
<1>2. \A f \in File : pages'[f] = IF batch[f] # Absent THEN batch[f] ELSE pages[f]
  BY <1>1 DEF Upserted
<1>3. \A i \in IndexPage : second => Rendered(i, pages') = Rendered(i, pages)
  <2> SUFFICES ASSUME NEW i \in IndexPage, second, NEW p \in Page
               PROVE  pages'[p] = pages[p]
    BY RenderedFromPages
  <2>1. p \in File /\ p \notin Batched
    BY IndexerAssumption DEF Inv, LoopInv, File
  <2>2. QED
    BY <1>2, <2>1 DEF Batched
<1>4. \A f \in File : batch[f] # Absent => Parses(batch[f])
  BY BatchParses
<1>5. WipeInv' /\ RestInv' /\ DeleteInv' /\ ReplaceInv' /\ ScanInv'
  BY <1>1, <1>2, <1>3, <1>4 DEF Inv, UpsertPages, scanVars, loopVars, ghostVars, WipeInv,
     Agreed, RestInv, Clean, DeleteInv, ReplaceInv, ScanInv, Undisturbed
<1>6. LoopInv'
  BY <1>1, <1>2, <1>3, <1>4 DEF Inv, UpsertPages, scanVars, loopVars, ghostVars, LoopInv,
     Batched
<1>7. EmbedInv'
  BY <1>1, <1>2, <1>3, <1>4 DEF Inv, UpsertPages, scanVars, loopVars, ghostVars, EmbedInv,
     Clean, RestInv, Agreed
<1>8. ListInv'
  BY <1>1, <1>2, <1>3, <1>4 DEF Inv, UpsertPages, scanVars, loopVars, ghostVars, ListInv,
     LoopInv
<1>9. WalkInv'
  BY <1>1, <1>2, <1>3, <1>4 DEF Inv, UpsertPages, scanVars, loopVars, ghostVars, WalkInv,
     Undisturbed, Clean, Pending, RowOf
<1>10. FreshInv'
  BY <1>1, <1>2, <1>3, <1>4 DEF Inv, UpsertPages, scanVars, loopVars, ghostVars, FreshInv,
     Undisturbed, Clean
<1>11. QED
  BY <1>5, <1>6, <1>7, <1>8, <1>9, <1>10 DEF Inv

(* The embeddings follow; the pages of the batch are now to have the rest. *)
LEMMA UpsertEmbeddingsKeeps ==
  ASSUME TypeOK, Inv, UpsertEmbeddings
  PROVE  Inv'
<1>1. embeddings' = Upserted(embeddings) /\ UNCHANGED <<pages, links, claims>>
  BY FourTables DEF TypeOK, UpsertEmbeddings, pages, embeddings, links, claims
<1>2. \A f \in File : embeddings'[f] = IF batch[f] # Absent THEN batch[f] ELSE embeddings[f]
  BY <1>1 DEF Upserted
<1>3. work' = Batched /\ \A f \in File : f \in Batched <=> batch[f] # Absent
  BY DEF UpsertEmbeddings, Batched
<1>4. Batched \subseteq File
  BY DEF Batched
<1>5. WipeInv' /\ RestInv' /\ DeleteInv' /\ EmbedInv' /\ ScanInv'
  BY <1>1, <1>2, <1>3, <1>4 DEF Inv, UpsertEmbeddings, scanVars, ghostVars, WipeInv, Agreed,
     RestInv, Clean, DeleteInv, EmbedInv, ScanInv, Undisturbed
<1>6. LoopInv'
  BY <1>1, <1>2, <1>3, <1>4 DEF Inv, UpsertEmbeddings, scanVars, ghostVars, LoopInv, Batched
<1>7. ReplaceInv'
  BY <1>1, <1>2, <1>3, <1>4 DEF Inv, UpsertEmbeddings, scanVars, ghostVars, ReplaceInv, Clean,
     Agreed, EmbedInv, LoopInv
<1>8. ListInv'
  BY <1>1, <1>2, <1>3, <1>4 DEF Inv, UpsertEmbeddings, scanVars, ghostVars, ListInv, LoopInv
<1>9. WalkInv'
  BY <1>1, <1>2, <1>3, <1>4 DEF Inv, UpsertEmbeddings, scanVars, ghostVars, WalkInv,
     Undisturbed, Clean, Pending, RowOf
<1>10. FreshInv'
  BY <1>1, <1>2, <1>3, <1>4 DEF Inv, UpsertEmbeddings, scanVars, ghostVars, FreshInv,
     Undisturbed, Clean
<1>11. QED
  BY <1>5, <1>6, <1>7, <1>8, <1>9, <1>10 DEF Inv

(* A page loses and gets its links, then its claims.                       *)
LEMMA ReplaceRowsKeeps ==
  ASSUME TypeOK, Inv, NEW f \in File, ReplaceRows(f)
  PROVE  Inv'
<1>1. /\ step \in {1, 2, 3, 4} /\ f \in work /\ batch[f] \in Row
      /\ Absent \notin File /\ work \subseteq File
  BY IndexerAssumption DEF ReplaceRows, TypeOK, File
<1>2. /\ UNCHANGED <<pages, embeddings>>
      /\ \A g \in File \ {f} : links'[g] = links[g] /\ claims'[g] = claims[g]
      /\ links'[f] = IF step = 1 THEN Absent ELSE IF step = 2 THEN batch[f] ELSE links[f]
      /\ claims'[f] = IF step = 3 THEN Absent ELSE IF step = 4 THEN batch[f] ELSE claims[f]
  <2>1. CASE step \in {1, 2}
    <3>0. ReplaceTable = "links" /\ (step \in {1, 3} <=> step = 1)
      BY <2>1 DEF ReplaceTable
    <3>1. tab' = [tab EXCEPT !["links"][f] = IF step = 1 THEN Absent ELSE batch[f]]
      BY <2>1, <3>0 DEF ReplaceRows
    <3>2. QED
      BY <2>1, <3>1, FourTables DEF TypeOK, pages, embeddings, links, claims
  <2>2. CASE step \in {3, 4}
    <3>0. ReplaceTable = "claims" /\ (step \in {1, 3} <=> step = 3)
      BY <2>2 DEF ReplaceTable
    <3>1. tab' = [tab EXCEPT !["claims"][f] = IF step = 3 THEN Absent ELSE batch[f]]
      BY <2>2, <3>0 DEF ReplaceRows
    <3>2. QED
      BY <2>2, <3>1, FourTables DEF TypeOK, pages, embeddings, links, claims
  <2>3. QED
    BY <1>1, <2>1, <2>2
<1>3. step > 1 => at = f
  BY <1>1 DEF Inv, LoopInv, ReplaceRows
<1>4. WipeInv' /\ RestInv' /\ DeleteInv' /\ EmbedInv' /\ ScanInv'
  BY <1>1, <1>2, <1>3 DEF Inv, ReplaceRows, scanVars, ghostVars, WipeInv, Agreed, RestInv,
     Clean, DeleteInv, EmbedInv, ScanInv, Undisturbed
<1>5. LoopInv'
  BY <1>1, <1>2, <1>3 DEF Inv, ReplaceRows, scanVars, ghostVars, LoopInv, Batched
<1>6. ReplaceInv'
  BY <1>1, <1>2, <1>3 DEF Inv, ReplaceRows, scanVars, ghostVars, ReplaceInv, Clean, Agreed
<1>7. ListInv'
  BY <1>1, <1>2, <1>3 DEF Inv, ReplaceRows, scanVars, ghostVars, ListInv, LoopInv
<1>8. WalkInv'
  BY <1>1, <1>2, <1>3 DEF Inv, ReplaceRows, scanVars, ghostVars, WalkInv, Undisturbed, Clean,
     Pending, RowOf
<1>9. FreshInv'
  BY <1>1, <1>2, <1>3 DEF Inv, ReplaceRows, scanVars, ghostVars, FreshInv, Undisturbed, Clean,
     ReplaceInv
<1>10. QED
  BY <1>4, <1>5, <1>6, <1>7, <1>8, <1>9 DEF Inv

(* An index page that does not list what it should is written and batched. *)
LEMMA RegenerateKeeps ==
  ASSUME TypeOK, Inv, NEW i \in IndexPage, Regenerate(i)
  PROVE  Inv'
<1>1. UNCHANGED <<pages, embeddings, links, claims>>
  BY SameTables DEF Regenerate
<1>2. /\ i \in File /\ IndexPage \subseteq File /\ work \subseteq File
      /\ disk \in [File -> Content] /\ batch \in [File -> Row]
  BY DEF TypeOK, File
<1>3. Parses(Rendered(i, pages)) /\ Rendered(i, pages) # Absent
  BY RenderedIsARow, TablesTyped DEF Parses
<1>4. /\ disk'[i] = Rendered(i, pages)
      /\ batch'[i] = IF disk[i] = Rendered(i, pages) THEN batch[i] ELSE Rendered(i, pages)
      /\ \A f \in File \ {i} : disk'[f] = disk[f] /\ batch'[f] = batch[f]
  BY <1>2 DEF Regenerate, pages
<1>5. WipeInv' /\ DeleteInv' /\ EmbedInv' /\ ReplaceInv' /\ ScanInv'
  BY <1>1, <1>2, <1>3, <1>4 DEF Inv, Regenerate, scanVars, ghostVars, WipeInv, Agreed,
     DeleteInv, Clean, EmbedInv, ReplaceInv, ScanInv, Undisturbed
<1>6. LoopInv'
  BY <1>1, <1>2, <1>3, <1>4 DEF Inv, Regenerate, scanVars, ghostVars, LoopInv, Batched
<1>7. RestInv'
  BY <1>1, <1>2, <1>3, <1>4 DEF Inv, Regenerate, scanVars, ghostVars, RestInv, Clean, Agreed
<1>8. ListInv'
  BY <1>1, <1>2, <1>3, <1>4 DEF Inv, Regenerate, scanVars, ghostVars, ListInv, LoopInv
<1>9. WalkInv'
  BY <1>1, <1>2, <1>3, <1>4 DEF Inv, Regenerate, scanVars, ghostVars, WalkInv, Undisturbed,
     Clean, Pending, RowOf
<1>10. FreshInv'
  BY <1>1, <1>2, <1>3, <1>4 DEF Inv, Regenerate, scanVars, ghostVars, FreshInv, Undisturbed,
     Clean, WalkInv, Pending, RowOf, RestInv, Agreed, LoopInv
<1>11. QED
  BY <1>5, <1>6, <1>7, <1>8, <1>9, <1>10 DEF Inv

(* An edit, at any moment: nothing is known of the walk any more.          *)
LEMMA EditKeeps ==
  ASSUME TypeOK, Inv, NEW f \in File, NEW c \in Content, Edit(f, c)
  PROVE  Inv'
<1>1. UNCHANGED <<pages, embeddings, links, claims>>
  BY SameTables DEF Edit
<1>2. /\ WipeInv' /\ RestInv' /\ DeleteInv' /\ EmbedInv' /\ ReplaceInv'
      /\ ListInv' /\ ScanInv' /\ WalkInv' /\ FreshInv'
  BY <1>1 DEF Inv, Edit, scanVars, loopVars, WipeInv, Agreed, RestInv, Clean, DeleteInv,
     EmbedInv, ReplaceInv, ListInv, LoopInv, ScanInv, Undisturbed, WalkInv, Pending, RowOf,
     FreshInv
<1>3. LoopInv'
  BY <1>1 DEF Inv, Edit, scanVars, loopVars, LoopInv, Batched
<1>4. QED
  BY <1>2, <1>3 DEF Inv

(* A table that is created is empty.                                       *)
LEMMA CreateMissingTablesKeeps ==
  ASSUME TypeOK, Inv, CreateMissingTables
  PROVE  Inv'
<1>1. UNCHANGED <<pages, embeddings, links, claims>>
  BY SameTables DEF CreateMissingTables
<1>2. /\ WipeInv' /\ RestInv' /\ DeleteInv' /\ EmbedInv' /\ ReplaceInv'
      /\ ListInv' /\ ScanInv' /\ WalkInv' /\ FreshInv'
  BY <1>1 DEF Inv, CreateMissingTables, scanVars, loopVars, ghostVars, WipeInv, Agreed, RestInv,
     Clean, DeleteInv, EmbedInv, ReplaceInv, ListInv, LoopInv, ScanInv, Undisturbed, WalkInv,
     Pending, RowOf, FreshInv
<1>3. LoopInv'
  BY <1>1 DEF Inv, CreateMissingTables, scanVars, loopVars, ghostVars, LoopInv, Batched
<1>4. QED
  BY <1>2, <1>3 DEF Inv

(* A pass cut short: the tables agree unless the cut fell between two      *)
(* writes that belong together.                                            *)
LEMMA InterruptKeeps ==
  ASSUME TypeOK, Inv, Interrupt
  PROVE  Inv'
<1>1. Return /\ UNCHANGED <<disk, tab, mode, kept>> /\ last' = "none"
      /\ damaged' = (damaged \/ MidWrite)
  BY DEF Interrupt
<1>2. kept' => damaged'
  BY <1>1 DEF Inv, WipeInv
<1>3. ASSUME ~damaged' PROVE \A f \in File : Agreed(f)
  <2>1. ~damaged /\ ~MidWrite /\ ~kept
    BY <1>1, <1>2, <1>3
  <2>2. CASE pc \in {"idle", "scan", "sweep", "upsertPages", "regenerate"}
    BY <2>1, <2>2 DEF Inv, RestInv, Clean
  <2>3. CASE pc = "drop"
    <3>1. step = 1
      BY <2>1, <2>3 DEF MidWrite, TypeOK
    <3>2. QED
      BY <2>1, <2>3, <3>1 DEF Inv, WipeInv
  <2>4. CASE pc = "ensure"
    BY <2>1, <2>4, EmptyBatch DEF Inv, WipeInv, Agreed
  <2>5. CASE pc = "delete"
    <3>1. step = 1
      BY <2>1, <2>5 DEF MidWrite, TypeOK
    <3>2. QED
      BY <2>1, <2>5, <3>1 DEF Inv, DeleteInv, Clean, Agreed
  <2>6. CASE pc = "replace"
    <3>1. work = {}
      BY <2>1, <2>6 DEF MidWrite
    <3>2. QED
      BY <2>1, <2>6, <3>1 DEF Inv, ReplaceInv, Clean
  <2>7. pc # "upsertEmbeddings"
    BY <2>1 DEF MidWrite
  <2>8. QED
    BY <2>2, <2>3, <2>4, <2>5, <2>6, <2>7 DEF TypeOK
<1>4. ~Undisturbed'
  BY <1>1 DEF Undisturbed
<1>5. QED
  BY <1>1, <1>2, <1>3, <1>4, ReturnKeeps

(* A missing table ends the pass as an interrupt does.                     *)
LEMMA MissingTableKeeps ==
  ASSUME TypeOK, Inv, MissingTable
  PROVE  Inv'
<1>1. Return /\ UNCHANGED <<disk, tab, mode, kept>> /\ last' = "none"
      /\ damaged' = (damaged \/ MidWrite)
      /\ pc \in {"upsertPages", "upsertEmbeddings", "replace", "delete", "regenerate"}
  BY DEF MissingTable
<1>2. kept' => damaged'
  BY <1>1 DEF Inv, WipeInv
<1>3. ASSUME ~damaged' PROVE \A f \in File : Agreed(f)
  <2>1. ~damaged /\ ~MidWrite
    BY <1>1, <1>3
  <2>2. CASE pc \in {"upsertPages", "regenerate"}
    BY <2>1, <2>2 DEF Inv, RestInv, Clean
  <2>3. CASE pc = "delete"
    <3>1. step = 1
      BY <2>1, <2>3 DEF MidWrite, TypeOK
    <3>2. QED
      BY <2>1, <2>3, <3>1 DEF Inv, DeleteInv, Clean, Agreed
  <2>4. CASE pc = "replace"
    <3>1. work = {}
      BY <2>1, <2>4 DEF MidWrite
    <3>2. QED
      BY <2>1, <2>4, <3>1 DEF Inv, ReplaceInv, Clean
  <2>5. pc # "upsertEmbeddings"
    BY <2>1 DEF MidWrite
  <2>6. QED
    BY <1>1, <2>2, <2>3, <2>4, <2>5
<1>4. ~Undisturbed'
  BY <1>1 DEF Undisturbed
<1>5. QED
  BY <1>1, <1>2, <1>3, <1>4, ReturnKeeps

(* The pages are projected: the index pages come next.  After the index    *)
(* pages the pass ends, and a rebuild has repaired what was damaged.       *)
LEMMA EndProjectKeeps ==
  ASSUME TypeOK, Inv, EndProject
  PROVE  Inv'
<1>1. Clean => \A f \in File : Agreed(f)
  BY DEF Inv, ReplaceInv, EndProject
<1>2. damaged' = (damaged /\ ~(second /\ mode = "rebuild" /\ ~kept))
      /\ UNCHANGED <<disk, tab, mode, kept, last>> /\ pc = "replace"
  BY DEF EndProject
<1>3. (kept' => damaged') /\ (~damaged' => Clean)
  BY <1>2 DEF Inv, WipeInv, Clean
<1>4. CASE second
  <2>1. Return
    BY <1>4 DEF EndProject
  <2>2. Undisturbed' => Undisturbed
    BY <1>2, <1>3, <2>1 DEF Undisturbed, Clean, Return
  <2>3. Undisturbed' => \A f \in File : pages[f] = RowOf(f)
    BY <1>2, <2>2 DEF Inv, WalkInv
  <2>4. last' # "none" => \A i \in IndexPage : disk[i] = Rendered(i, pages)
    BY <1>2, <1>4 DEF Inv, ListInv
  <2>5. QED
    BY <1>1, <1>2, <1>3, <2>1, <2>3, <2>4, ReturnKeeps
<1>5. CASE ~second
  <2>1. /\ pc' = "regenerate" /\ work' = IndexPage /\ batch' = NoRows
        /\ UNCHANGED <<todo, old, seen, at, step, second, damaged>>
    BY <1>2, <1>5 DEF EndProject, scanVars, TypeOK
  <2>2. UNCHANGED <<pages, embeddings, links, claims>>
    BY <1>2, SameTables
  <2>3. IndexPage \subseteq File /\ (\A f \in File : batch'[f] = Absent) /\ Batched' = {}
    BY <2>1, EmptyBatch DEF File, Batched
  <2>4. step = 1
    BY <1>2 DEF Inv, LoopInv, EndProject, TypeOK
  <2>5. LoopInv' /\ WipeInv'
    BY <1>2, <1>5, <2>1, <2>2, <2>3, <2>4 DEF Inv, LoopInv, WipeInv
  <2>6. RestInv' /\ DeleteInv' /\ EmbedInv' /\ ReplaceInv'
    BY <1>1, <1>2, <2>1, <2>2 DEF RestInv, Clean, Agreed, DeleteInv, EmbedInv, ReplaceInv
  <2>7. ListInv' /\ ScanInv' /\ FreshInv'
    BY <1>5, <2>1, <2>3 DEF ListInv, ScanInv, FreshInv
  <2>8. WalkInv'
    BY <1>2, <2>1, <2>2, <2>3 DEF Inv, WalkInv, Undisturbed, Clean, Pending, RowOf
  <2>9. QED
    BY <2>5, <2>6, <2>7, <2>8 DEF Inv
<1>6. QED
  BY <1>4, <1>5

(* No index page changed: the pass ends.  Else they are projected too.     *)
LEMMA EndRegenerateKeeps ==
  ASSUME TypeOK, Inv, EndRegenerate
  PROVE  Inv'
<1>1. Clean => \A f \in File : Agreed(f)
  BY DEF Inv, RestInv, EndRegenerate
<1>2. damaged' = (damaged /\ ~(Batched = {} /\ mode = "rebuild" /\ ~kept))
      /\ UNCHANGED <<disk, tab, mode, kept, last>> /\ pc = "regenerate" /\ work = {}
  BY DEF EndRegenerate
<1>3. (kept' => damaged') /\ (~damaged' => Clean)
  BY <1>2 DEF Inv, WipeInv, Clean
<1>4. last # "none" => \A i \in IndexPage : disk[i] = Rendered(i, pages)
  BY <1>2 DEF Inv, ListInv
<1>5. CASE Batched = {}
  <2>1. Return
    BY <1>5 DEF EndRegenerate
  <2>2. Undisturbed' => Undisturbed
    BY <1>2, <1>3, <2>1 DEF Undisturbed, Clean, Return
  <2>3. Undisturbed' => \A f \in File : pages[f] = RowOf(f)
    BY <1>2, <1>5, <2>2, EmptyBatch DEF Inv, WalkInv, Pending
  <2>4. QED
    BY <1>1, <1>2, <1>3, <1>4, <2>1, <2>3, ReturnKeeps
<1>6. CASE Batched # {}
  <2>1. /\ pc' = "upsertPages" /\ second' = TRUE
        /\ UNCHANGED <<todo, old, seen, batch, work, at, step, damaged>>
    BY <1>2, <1>6 DEF EndRegenerate, scanVars, loopVars, TypeOK
  <2>2. UNCHANGED <<pages, embeddings, links, claims, Batched>>
    BY <1>2, <2>1, SameTables DEF Batched
  <2>3. LoopInv' /\ WipeInv'
    BY <1>2, <2>1, <2>2 DEF Inv, LoopInv, WipeInv
  <2>4. RestInv' /\ DeleteInv' /\ EmbedInv' /\ ReplaceInv'
    BY <1>1, <1>2, <2>1, <2>2 DEF RestInv, Clean, Agreed, DeleteInv, EmbedInv, ReplaceInv
  <2>5. ListInv' /\ ScanInv'
    BY <1>2, <1>4, <2>1, <2>2 DEF ListInv, ScanInv
  <2>6. WalkInv' /\ FreshInv'
    BY <1>2, <2>1, <2>2 DEF Inv, WalkInv, FreshInv, Undisturbed, Clean, Pending, RowOf
  <2>7. QED
    BY <2>3, <2>4, <2>5, <2>6 DEF Inv
<1>7. QED
  BY <1>5, <1>6

(* The invariant holds in every state of every behaviour.                  *)
THEOREM Invariance == Spec => [](TypeOK /\ Inv)
<1>1. Init => Inv
  <2> SUFFICES ASSUME Init PROVE Inv
    OBVIOUS
  <2>1. pages = NoRows /\ embeddings = NoRows /\ links = NoRows /\ claims = NoRows
    BY FourTables DEF Init, pages, embeddings, links, claims
  <2>2. Batched = {} /\ \A f \in File : NoRows[f] = Absent
    BY EmptyBatch DEF Init
  <2>3. LoopInv /\ WipeInv /\ ListInv
    BY <2>2 DEF Init, LoopInv, WipeInv, ListInv
  <2>4. RestInv /\ DeleteInv /\ EmbedInv /\ ReplaceInv
    BY <2>1 DEF Init, RestInv, Agreed, DeleteInv, EmbedInv, ReplaceInv
  <2>5. ScanInv /\ WalkInv /\ FreshInv
    BY DEF Init, ScanInv, WalkInv, FreshInv, Undisturbed
  <2>6. QED
    BY <2>3, <2>4, <2>5 DEF Inv
<1>2. TypeOK /\ Inv /\ [Next]_vars => Inv'
  <2> SUFFICES ASSUME TypeOK, Inv, [Next]_vars PROVE Inv'
    OBVIOUS
  <2>1. CASE UNCHANGED vars
    <3>1. UNCHANGED <<pages, embeddings, links, claims, Batched>>
      BY <2>1, SameTables DEF vars, Batched
    <3>2. LoopInv' /\ WipeInv' /\ RestInv' /\ DeleteInv' /\ EmbedInv' /\ ReplaceInv'
      BY <2>1, <3>1 DEF vars, Inv, LoopInv, WipeInv, RestInv, Clean, Agreed, DeleteInv, EmbedInv,
         ReplaceInv
    <3>3. ListInv' /\ ScanInv' /\ WalkInv' /\ FreshInv'
      BY <2>1, <3>1 DEF vars, Inv, ListInv, ScanInv, WalkInv, Pending, RowOf, FreshInv,
         Undisturbed, Clean
    <3>4. QED
      BY <3>2, <3>3 DEF Inv
  <2>2. CASE Start
    BY <2>2, StartIncrementalKeeps, StartRebuildKeeps, StartTargetedKeeps DEF Start
  <2>3. CASE Proceed
    BY <2>3, DropKeeps, EnsureAndRunKeeps, ScanKeeps, EndScanKeeps, SweepNextKeeps,
       DeletePageKeeps, EndSweepKeeps, UpsertPagesKeeps, UpsertEmbeddingsKeeps, ReplaceRowsKeeps,
       EndProjectKeeps, RegenerateKeeps, EndRegenerateKeeps, MissingTableKeeps DEF Proceed
  <2>4. CASE Environment
    <3>1. /\ Page \subseteq File /\ IndexPage \subseteq File
          /\ HandEdits \subseteq Content /\ {Absent, Broken, Scribble} \subseteq Content
      BY IndexerAssumption DEF File, Content
    <3>2. QED
      BY <2>4, <3>1, EditKeeps, CreateMissingTablesKeeps, DropFailsKeeps, CancelScanKeeps,
         InterruptKeeps DEF Environment
  <2>5. QED
    BY <2>1, <2>2, <2>3, <2>4 DEF Next
<1>3. QED
  BY <1>1, <1>2, TypeCorrect, PTL DEF Spec

-----------------------------------------------------------------------------
(* What the invariant says of the pass                                     *)

(* Between passes the four tables describe the same version of every page, *)
(* whatever was edited while a pass ran, unless one was cut short.         *)
THEOREM TablesAgreeBetweenPasses == Spec => []TablesAgree
<1>1. RestInv => TablesAgree
  <2> SUFFICES ASSUME RestInv, pc = "idle", ~damaged, NEW f \in File, NEW T \in Table
               PROVE  tab[T][f] = tab["pages"][f]
    BY DEF TablesAgree
  <2>1. Agreed(f)
    BY DEF RestInv, Clean
  <2>2. QED
    BY <2>1, FourTables DEF Agreed, pages, embeddings, links, claims
<1>2. QED
  BY <1>1, Invariance, PTL DEF Inv

(* After a pass no edit disturbed, glossary.md and domains.md list what the *)
(* pages table says, whatever kind of pass it was.                         *)
THEOREM IndexPagesAreCurrent == Spec => []IndexPagesListConcepts
<1>1. ListInv => IndexPagesListConcepts
  BY DEF ListInv, IndexPagesListConcepts, pages
<1>2. QED
  BY <1>1, Invariance, PTL DEF Inv

(* After a walk that nothing disturbed, over tables of whole passes, every *)
(* row of every table is the projection of its file.                       *)
THEOREM WalkIsAProjection == Spec => []WalkProjectsFiles
<1>1. RestInv /\ WalkInv => WalkProjectsFiles
  <2> SUFFICES ASSUME RestInv, WalkInv, WalkedAll, ~damaged,
                      NEW f \in File, disk[f] # Broken, NEW T \in Table
               PROVE  tab[T][f] = disk[f]
    BY DEF WalkProjectsFiles, Projected
  <2>1. Agreed(f)
    BY DEF RestInv, Clean, WalkedAll
  <2>2. pages[f] = disk[f]
    BY DEF WalkInv, Undisturbed, Clean, WalkedAll, RowOf, Parses
  <2>3. QED
    BY <2>1, <2>2, FourTables DEF Agreed, pages, embeddings, links, claims
<1>2. QED
  BY <1>1, Invariance, PTL DEF Inv

(* The rows of a file in an index that is up to date.                      *)
LEMMA UpToDateRows ==
  ASSUME UpToDate, NEW f \in File
  PROVE  /\ \A T \in Table : tab[T][f] = IF disk[f] = Broken THEN Absent ELSE disk[f]
         /\ pages[f] = claims[f]
         /\ disk[f] # Broken => claims[f] = disk[f]
BY FourTables DEF UpToDate, Unindexed, Projected, pages, claims

(* Over an index that is up to date a pass batches no page.                *)
LEMMA NothingToUpsert ==
  ASSUME TypeOK, Inv, UpToDate, Undisturbed, pc \in {"upsertPages", "upsertEmbeddings"},
         NEW T \in Table
  PROVE  Upserted(tab[T]) = tab[T]
<1>1. \A f \in File : batch[f] = Absent
  <2> SUFFICES ASSUME NEW f \in File, batch[f] # Absent PROVE FALSE
    OBVIOUS
  <2>1. claims[f] # batch[f] /\ Parses(batch[f])
    BY BatchParses DEF Inv, FreshInv
  <2>2. CASE pc = "upsertPages"
    <3>1. batch[f] = disk[f]
      BY <2>2 DEF Inv, WalkInv, Pending
    <3>2. QED
      BY <2>1, <3>1, UpToDateRows DEF Parses
  <2>3. CASE pc = "upsertEmbeddings"
    <3>1. pages[f] = batch[f]
      BY <2>3 DEF Inv, EmbedInv, Undisturbed
    <3>2. QED
      BY <2>1, <3>1, UpToDateRows
  <2>4. QED
    BY <2>2, <2>3
<1>2. tab[T] \in [File -> Row]
  BY DEF TypeOK
<1>3. QED
  BY <1>1, <1>2 DEF Upserted

(* Incremental means incremental: over an index that is up to date a pass  *)
(* writes no row and no file.                                              *)
THEOREM UpToDateIsLeftAlone == Spec => PassOverUpToDateWritesNothing
<1>1. ASSUME TypeOK, Inv, [Next]_vars, mode = "incremental", pc # "idle", last = "incremental",
             ~damaged, UpToDate, edits' = edits
      PROVE  UNCHANGED <<disk, tab>>
  <2>1. Undisturbed
    BY <1>1 DEF Undisturbed, Clean
  <2>2. CASE UNCHANGED vars
    BY <2>2 DEF vars
  <2>3. ~Start /\ pc \notin {"drop", "ensure"}
    BY <1>1 DEF Start, StartIncremental, StartRebuild, StartTargeted, Inv, LoopInv
  <2>4. CASE Environment
    <3>1. edits' # edits + 1
      BY <1>1 DEF TypeOK
    <3>2. QED
      BY <2>4, <3>1 DEF Environment, Edit, CreateMissingTables, DropFails, CancelScan, Interrupt
  <2>5. CASE DeletePage
    <3>1. at \in File /\ ~Parses(disk[at]) /\ TableOrder[step] \in Table
      BY <1>1, <2>1, <2>5, FourTables DEF Inv, LoopInv, WalkInv, DeletePage, TypeOK
    <3>2. tab[TableOrder[step]][at] = Absent
      BY <1>1, <3>1, UpToDateRows DEF Parses
    <3>3. QED
      BY <1>1, <2>5, <3>1, <3>2 DEF DeletePage, TypeOK
  <2>6. CASE UpsertPages
    <3>1. Upserted(tab["pages"]) = tab["pages"]
      BY <1>1, <2>1, <2>6, NothingToUpsert, FourTables DEF UpsertPages
    <3>2. QED
      BY <1>1, <2>6, <3>1, FourTables DEF UpsertPages, TypeOK
  <2>7. CASE UpsertEmbeddings
    <3>1. Upserted(tab["embeddings"]) = tab["embeddings"]
      BY <1>1, <2>1, <2>7, NothingToUpsert, FourTables DEF UpsertEmbeddings
    <3>2. QED
      BY <1>1, <2>7, <3>1, FourTables DEF UpsertEmbeddings, TypeOK
  <2>8. ASSUME NEW f \in File PROVE ~ReplaceRows(f)
    <3> SUFFICES ASSUME ReplaceRows(f) PROVE FALSE
      OBVIOUS
    <3>1. pages[f] = batch[f] /\ claims[f] # batch[f]
      BY <1>1, <2>1 DEF ReplaceRows, Inv, ReplaceInv, FreshInv, Undisturbed
    <3>2. QED
      BY <1>1, <3>1, UpToDateRows
  <2>9. ASSUME NEW i \in IndexPage, Regenerate(i) PROVE UNCHANGED <<disk, tab>>
    BY <1>1, <2>9 DEF UpToDate, Regenerate
  <2>10. CASE Proceed
    BY <2>3, <2>5, <2>6, <2>7, <2>8, <2>9, <2>10 DEF Proceed, Drop, EnsureAndRun, Scan, EndScan,
       SweepNext, EndSweep, EndProject, EndRegenerate, MissingTable
  <2>11. QED
    BY <1>1, <2>2, <2>3, <2>4, <2>10 DEF Next
<1>2. QED
  BY <1>1, Invariance, PTL DEF Spec, PassOverUpToDateWritesNothing

-----------------------------------------------------------------------------
(* A pass comes to its end                                                  *)

(* How many files there can be.                                            *)
Many == Cardinality(File)

(* The steps a pass can still take: where it is, whether the index pages    *)
(* are done, and how much is left of the loop it is in, over w pages or     *)
(* t files, at the k-th table.                                              *)
Left(where, again, w, t, k) ==
    LET n == Many
    IN  CASE where = "idle" -> 0
          [] where = "replace" /\ again -> 4 * w + (5 - k)
          [] where = "upsertEmbeddings" /\ again -> 4 * n + 5
          [] where = "upsertPages" /\ again -> 4 * n + 6
          [] where = "regenerate" -> 4 * n + w + 7
          [] where = "replace" /\ ~again -> 5 * n + 4 * w + (13 - k)
          [] where = "upsertEmbeddings" /\ ~again -> 9 * n + 13
          [] where = "upsertPages" /\ ~again -> 9 * n + 14
          [] where = "sweep" -> 9 * n + 5 * w + 15
          [] where = "delete" -> 9 * n + 5 * w + (20 - k)
          [] where = "scan" -> 14 * n + t + 16
          [] where = "ensure" -> 15 * n + 17
          [] where = "drop" -> 15 * n + (22 - k)

StepsLeft == Left(pc, second, Cardinality(work), Cardinality(todo), step)

(* The most a pass can take, with a rebuild's drops and both projections.   *)
MostSteps == 15 * Many + 21

(* Whatever edits come meanwhile, and however tables come and go, each step *)
(* of a pass takes it nearer to its end, and no other step takes it back.   *)
MovesOn ==
    pc # "idle" => StepsLeft' <= StepsLeft /\ (Proceed => StepsLeft' < StepsLeft)

PassMovesOn == [][MovesOn]_vars

(* The count, place by place.                                              *)
LEMMA LeftAt ==
  ASSUME NEW again \in BOOLEAN, NEW w, NEW t, NEW k
  PROVE  LET n == Many IN
         /\ Left("idle", again, w, t, k) = 0
         /\ Left("replace", again, w, t, k) =
              IF again THEN 4 * w + (5 - k) ELSE 5 * n + 4 * w + (13 - k)
         /\ Left("upsertEmbeddings", again, w, t, k) = IF again THEN 4 * n + 5 ELSE 9 * n + 13
         /\ Left("upsertPages", again, w, t, k) = IF again THEN 4 * n + 6 ELSE 9 * n + 14
         /\ Left("regenerate", again, w, t, k) = 4 * n + w + 7
         /\ Left("sweep", again, w, t, k) = 9 * n + 5 * w + 15
         /\ Left("delete", again, w, t, k) = 9 * n + 5 * w + (20 - k)
         /\ Left("scan", again, w, t, k) = 14 * n + t + 16
         /\ Left("ensure", again, w, t, k) = 15 * n + 17
         /\ Left("drop", again, w, t, k) = 15 * n + (22 - k)
BY DEF Left

(* There are finitely many files, so the loops over some of them count.    *)
LEMMA Countable ==
  ASSUME NEW S \in SUBSET File
  PROVE  /\ IsFiniteSet(S) /\ Cardinality(S) \in Nat /\ Many \in Nat
         /\ Cardinality(S) <= Many
         /\ \A f \in S : Cardinality(S \ {f}) = Cardinality(S) - 1 /\ Cardinality(S) >= 1
<1>1. IsFiniteSet(File)
  BY IndexerAssumption, FS_Union DEF File
<1>2. IsFiniteSet(S) /\ Cardinality(S) <= Cardinality(File)
  BY <1>1, FS_Subset
<1>3. Cardinality(S) \in Nat /\ Cardinality(File) \in Nat
  BY <1>1, <1>2, FS_CardinalityType
<1>4. ASSUME NEW f \in S
      PROVE  Cardinality(S \ {f}) = Cardinality(S) - 1 /\ Cardinality(S) >= 1
  <2>1. Cardinality(S \ {f}) = Cardinality(S) - 1 /\ IsFiniteSet(S \ {f})
    BY <1>2, FS_RemoveElement
  <2>2. Cardinality(S \ {f}) \in Nat
    BY <2>1, FS_CardinalityType
  <2>3. QED
    BY <1>3, <2>1, <2>2
<1>5. QED
  BY <1>2, <1>3, <1>4 DEF Many

(* The count has a limit, and is zero between passes only.                 *)
LEMMA StepsLeftIsPositive ==
  ASSUME TypeOK
  PROVE  StepsLeft \in 0 .. MostSteps /\ (pc # "idle" => StepsLeft >= 1)
<1> DEFINE w == Cardinality(work)
           t == Cardinality(todo)
<1>1. Many \in Nat /\ w \in 0 .. Many /\ t \in 0 .. Many
  <2>1. work \in SUBSET File /\ todo \in SUBSET File
    BY DEF TypeOK
  <2>2. QED
    BY <2>1, Countable
<1>2. second \in BOOLEAN /\ step \in 1..4
  BY DEF TypeOK
<1>3. StepsLeft = Left(pc, second, w, t, step)
  BY DEF StepsLeft
<1> HIDE DEF w, t
<1>4. pc \in {"idle", "drop", "ensure", "scan", "sweep", "delete",
              "upsertPages", "upsertEmbeddings", "replace", "regenerate"}
  BY DEF TypeOK
<1>5. Left("idle", second, w, t, step) = 0
  BY <1>2, LeftAt
<1>6. /\ Left("replace", second, w, t, step) =
           IF second THEN 4 * w + (5 - step) ELSE 5 * Many + 4 * w + (13 - step)
      /\ Left("upsertEmbeddings", second, w, t, step) = IF second THEN 4 * Many + 5 ELSE 9 * Many + 13
      /\ Left("upsertPages", second, w, t, step) = IF second THEN 4 * Many + 6 ELSE 9 * Many + 14
      /\ Left("regenerate", second, w, t, step) = 4 * Many + w + 7
      /\ Left("sweep", second, w, t, step) = 9 * Many + 5 * w + 15
      /\ Left("delete", second, w, t, step) = 9 * Many + 5 * w + (20 - step)
      /\ Left("scan", second, w, t, step) = 14 * Many + t + 16
      /\ Left("ensure", second, w, t, step) = 15 * Many + 17
      /\ Left("drop", second, w, t, step) = 15 * Many + (22 - step)
  BY <1>2, LeftAt
<1>7. /\ 4 * w + (5 - step) \in 1 .. MostSteps /\ 5 * Many + 4 * w + (13 - step) \in 1 .. MostSteps
      /\ 9 * Many + 5 * w + (20 - step) \in 1 .. MostSteps
      /\ 15 * Many + (22 - step) \in 1 .. MostSteps
  BY <1>1, <1>2 DEF MostSteps
<1>8. /\ 4 * Many + 5 \in 1 .. MostSteps /\ 9 * Many + 13 \in 1 .. MostSteps
      /\ 4 * Many + 6 \in 1 .. MostSteps /\ 9 * Many + 14 \in 1 .. MostSteps
      /\ 4 * Many + w + 7 \in 1 .. MostSteps /\ 9 * Many + 5 * w + 15 \in 1 .. MostSteps
      /\ 14 * Many + t + 16 \in 1 .. MostSteps /\ 15 * Many + 17 \in 1 .. MostSteps
  BY <1>1 DEF MostSteps
<1>9. \A p \in {"drop", "ensure", "scan", "sweep", "delete", "upsertPages",
                "upsertEmbeddings", "replace", "regenerate"} :
         Left(p, second, w, t, step) \in 1 .. MostSteps
  BY <1>6, <1>7, <1>8
<1>10. MostSteps \in Nat
  BY <1>1 DEF MostSteps
<1>11. QED
  BY <1>3, <1>4, <1>5, <1>9, <1>10

(* This is what PassEnds rests on, for any number of files: with N files a  *)
(* pass takes at most 15 * N + 21 steps of its own.                         *)
THEOREM PassesMoveOn == Spec => [](StepsLeft \in 0 .. MostSteps) /\ PassMovesOn
<1> DEFINE n == Many
<1>1. TypeOK => StepsLeft \in 0 .. MostSteps
  BY StepsLeftIsPositive
<1>2. TypeOK /\ TypeOK' /\ (StepsLeft \in Nat)' /\ [Next]_vars => [MovesOn]_vars
  <2> SUFFICES ASSUME TypeOK, TypeOK', StepsLeft' \in Nat, Next, pc # "idle"
               PROVE  StepsLeft' <= StepsLeft /\ (Proceed => StepsLeft' < StepsLeft)
    BY DEF MovesOn
  <2> DEFINE w == Cardinality(work)
             t == Cardinality(todo)
             v == Cardinality(work')
             u == Cardinality(todo')
  <2>1. /\ n \in Nat /\ w \in 0..n /\ t \in 0..n /\ v \in 0..n /\ u \in 0..n
        /\ \A f \in work : Cardinality(work \ {f}) = w - 1 /\ w >= 1
        /\ \A f \in todo : Cardinality(todo \ {f}) = t - 1 /\ t >= 1
    <3>1. work \in SUBSET File /\ todo \in SUBSET File /\ work' \in SUBSET File /\ todo' \in SUBSET File
      BY DEF TypeOK
    <3>2. QED
      BY <3>1, Countable
  <2>2. second \in BOOLEAN /\ second' \in BOOLEAN /\ step \in 1..4 /\ step' \in 1..4
    BY DEF TypeOK
  <2>3. StepsLeft = Left(pc, second, w, t, step) /\ StepsLeft' = Left(pc', second', v, u, step')
    BY DEF StepsLeft, Left
  <2>4. StepsLeft \in Nat /\ StepsLeft >= 1
    BY StepsLeftIsPositive
  <2> DEFINE Here(p) == Left(p, second, w, t, step)
             There(p) == Left(p, second', v, u, step')
  <2>31. /\ Here("idle") = 0
         /\ Here("replace") = IF second THEN 4 * w + (5 - step) ELSE 5 * n + 4 * w + (13 - step)
         /\ Here("upsertEmbeddings") = IF second THEN 4 * n + 5 ELSE 9 * n + 13
         /\ Here("upsertPages") = IF second THEN 4 * n + 6 ELSE 9 * n + 14
         /\ Here("regenerate") = 4 * n + w + 7
         /\ Here("sweep") = 9 * n + 5 * w + 15
         /\ Here("delete") = 9 * n + 5 * w + (20 - step)
         /\ Here("scan") = 14 * n + t + 16
         /\ Here("ensure") = 15 * n + 17
         /\ Here("drop") = 15 * n + (22 - step)
    BY <2>2, LeftAt
  <2>32. /\ There("idle") = 0
         /\ There("replace") = IF second' THEN 4 * v + (5 - step') ELSE 5 * n + 4 * v + (13 - step')
         /\ There("upsertEmbeddings") = IF second' THEN 4 * n + 5 ELSE 9 * n + 13
         /\ There("upsertPages") = IF second' THEN 4 * n + 6 ELSE 9 * n + 14
         /\ There("regenerate") = 4 * n + v + 7
         /\ There("sweep") = 9 * n + 5 * v + 15
         /\ There("delete") = 9 * n + 5 * v + (20 - step')
         /\ There("scan") = 14 * n + u + 16
         /\ There("ensure") = 15 * n + 17
         /\ There("drop") = 15 * n + (22 - step')
    BY <2>2, LeftAt
  <2>33. StepsLeft = Here(pc) /\ StepsLeft' = There(pc')
    BY <2>3
  <2> HIDE DEF n, w, t, v, u, Here, There
  (* Leaving is the end. *)
  <2>5. ASSUME pc' = "idle"
        PROVE  StepsLeft' < StepsLeft
    BY <2>4, <2>5, <2>32, <2>33
  <2>6. ASSUME UNCHANGED <<pc, second, work, todo, step>>
        PROVE  StepsLeft' <= StepsLeft
    BY <2>4, <2>6 DEF StepsLeft
  <2>7. CASE Drop
    <3>1. pc = "drop" /\ second' = second
      BY <2>7 DEF Drop
    <3>2. (step < 4 /\ step' = step + 1 /\ pc' = "drop") \/ pc' = "ensure"
      BY <2>2, <2>7 DEF Drop, NextTable
    <3>3. QED
      BY <2>1, <2>2, <3>1, <3>2, <2>31, <2>32, <2>33
  <2>8. CASE EnsureAndRun
    <3>1. pc = "ensure" /\ pc' = "scan"
      BY <2>8 DEF EnsureAndRun, Begin
    <3>2. QED
      BY <2>1, <2>2, <3>1, <2>31, <2>32, <2>33
  <2>9. ASSUME NEW f \in File, Scan(f)
        PROVE  StepsLeft' < StepsLeft
    <3>1. pc = "scan" /\ pc' = "scan" /\ f \in todo /\ todo' = todo \ {f}
      BY <2>9 DEF Scan
    <3>2. u = t - 1
      BY <2>1, <3>1 DEF u
    <3>3. QED
      BY <2>1, <2>2, <3>1, <3>2, <2>31, <2>32, <2>33
  <2>10. CASE EndScan
    <3>1. pc = "scan" /\ pc' = "sweep"
      BY <2>10 DEF EndScan
    <3>2. QED
      BY <2>1, <2>2, <3>1, <2>31, <2>32, <2>33
  <2>11. ASSUME NEW f \in File, SweepNext(f)
         PROVE  StepsLeft' < StepsLeft
    <3>1. pc = "sweep" /\ pc' = "delete" /\ f \in work /\ work' = work \ {f}
      BY <2>11 DEF SweepNext
    <3>2. v = w - 1
      BY <2>1, <3>1 DEF v
    <3>3. QED
      BY <2>1, <2>2, <3>1, <3>2, <2>31, <2>32, <2>33
  <2>12. CASE DeletePage
    <3>1. pc = "delete" /\ work' = work
      BY <2>12 DEF DeletePage
    <3>2. v = w
      BY <3>1 DEF v, w
    <3>3. (step < 4 /\ step' = step + 1 /\ pc' = "delete") \/ pc' = "sweep"
      BY <2>2, <2>12, <3>1 DEF DeletePage, NextTable
    <3>4. QED
      BY <2>1, <2>2, <3>1, <3>2, <3>3, <2>31, <2>32, <2>33
  <2>13. CASE EndSweep
    <3>1. pc = "sweep" /\ pc' \in {"upsertPages", "regenerate"}
      BY <2>13 DEF EndSweep
    <3>2. QED
      BY <2>1, <2>2, <3>1, <2>31, <2>32, <2>33
  <2>14. CASE UpsertPages
    <3>1. pc = "upsertPages" /\ pc' = "upsertEmbeddings" /\ second' = second
      BY <2>14 DEF UpsertPages
    <3>2. QED
      BY <2>1, <2>2, <3>1, <2>31, <2>32, <2>33
  <2>15. CASE UpsertEmbeddings
    <3>1. pc = "upsertEmbeddings" /\ pc' = "replace" /\ second' = second
      BY <2>15 DEF UpsertEmbeddings
    <3>2. QED
      BY <2>1, <2>2, <3>1, <2>31, <2>32, <2>33
  <2>16. ASSUME NEW f \in File, ReplaceRows(f)
         PROVE  StepsLeft' < StepsLeft
    <3>1. pc = "replace" /\ pc' = "replace" /\ second' = second /\ f \in work
      BY <2>16 DEF ReplaceRows
    <3>2. \/ step' = step + 1 /\ work' = work
          \/ step = 4 /\ step' = 1 /\ work' = work \ {f}
      BY <2>2, <2>16 DEF ReplaceRows
    <3>3. \/ step' = step + 1 /\ v = w
          \/ step = 4 /\ step' = 1 /\ v = w - 1
      BY <2>1, <3>1, <3>2 DEF v, w
    <3>4. QED
      BY <2>1, <2>2, <3>1, <3>3, <2>31, <2>32, <2>33
  <2>17. CASE EndProject
    <3>1. CASE second
      <4>1. pc' = "idle"
        BY <2>17, <3>1 DEF EndProject, Return
      <4>2. QED
        BY <2>4, <2>5, <4>1
    <3>2. CASE ~second
      <4>1. pc = "replace" /\ pc' = "regenerate"
        BY <2>17, <3>2 DEF EndProject
      <4>2. QED
        BY <2>1, <2>2, <3>2, <4>1, <2>31, <2>32, <2>33
    <3>3. QED
      BY <3>1, <3>2
  <2>18. ASSUME NEW i \in IndexPage, Regenerate(i)
         PROVE  StepsLeft' < StepsLeft
    <3>1. pc = "regenerate" /\ pc' = "regenerate" /\ i \in work /\ work' = work \ {i}
      BY <2>18 DEF Regenerate
    <3>2. v = w - 1
      BY <2>1, <3>1 DEF v
    <3>3. QED
      BY <2>1, <2>2, <3>1, <3>2, <2>31, <2>32, <2>33
  <2>19. CASE EndRegenerate
    <3>1. CASE Batched = {}
      <4>1. pc' = "idle"
        BY <2>19, <3>1 DEF EndRegenerate, Return
      <4>2. QED
        BY <2>4, <2>5, <4>1
    <3>2. CASE Batched # {}
      <4>1. pc = "regenerate" /\ pc' = "upsertPages" /\ second' = TRUE
        BY <2>19, <3>2 DEF EndRegenerate
      <4>2. QED
        BY <2>1, <2>2, <4>1, <2>31, <2>32, <2>33
    <3>3. QED
      BY <3>1, <3>2
  <2>20. CASE MissingTable
    <3>1. pc' = "idle"
      BY <2>20 DEF MissingTable, Return
    <3>2. QED
      BY <2>4, <2>5, <3>1
  <2>21. ASSUME DropFails PROVE StepsLeft' <= StepsLeft
    <3>1. pc = "drop" /\ second' = second
      BY <2>21 DEF DropFails
    <3>2. (step < 4 /\ step' = step + 1 /\ pc' = "drop") \/ pc' = "ensure"
      BY <2>2, <2>21 DEF DropFails, NextTable
    <3>3. QED
      BY <2>1, <2>2, <3>1, <3>2, <2>31, <2>32, <2>33
  <2>22. ASSUME CancelScan PROVE StepsLeft' <= StepsLeft
    <3>1. pc = "scan" /\ pc' = "scan" /\ todo' = {}
      BY <2>22 DEF CancelScan
    <3>2. u = 0
      BY <3>1, FS_EmptySet DEF u
    <3>3. QED
      BY <2>1, <2>2, <3>1, <3>2, <2>31, <2>32, <2>33
  <2>23. ASSUME Interrupt PROVE StepsLeft' <= StepsLeft
    <3>1. pc' = "idle"
      BY <2>23 DEF Interrupt, Return
    <3>2. QED
      BY <2>4, <2>5, <3>1
  <2>24. ASSUME NEW f, NEW c, Edit(f, c)
         PROVE  StepsLeft' <= StepsLeft
    <3>1. UNCHANGED <<pc, second, work, todo, step>>
      BY <2>24 DEF Edit, scanVars, loopVars
    <3>2. QED
      BY <2>4, <2>6, <3>1
  <2>25. ASSUME CreateMissingTables PROVE StepsLeft' <= StepsLeft
    <3>1. UNCHANGED <<pc, second, work, todo, step>>
      BY <2>25 DEF CreateMissingTables, scanVars, loopVars
    <3>2. QED
      BY <2>4, <2>6, <3>1
  <2>26. ~Start
    BY DEF Start, StartIncremental, StartRebuild, StartTargeted
  <2>27. StepsLeft' \in Nat
    OBVIOUS
  <2>28. Proceed => StepsLeft' < StepsLeft
    BY <2>7, <2>8, <2>9, <2>10, <2>11, <2>12, <2>13, <2>14, <2>15, <2>16, <2>17, <2>18,
       <2>19, <2>20 DEF Proceed
  <2>29. Environment => StepsLeft' <= StepsLeft
    BY <2>4, <2>21, <2>22, <2>23, <2>24, <2>25, <2>27 DEF Environment
  <2>30. QED
    BY <2>4, <2>26, <2>27, <2>28, <2>29 DEF Next
<1>3. StepsLeft \in 0 .. MostSteps => StepsLeft \in Nat
  OBVIOUS
<1>4. QED
  BY <1>1, <1>2, <1>3, TypeCorrect, PTL DEF Spec, PassMovesOn
=============================================================================
