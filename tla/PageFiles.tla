----------------------------- MODULE PageFiles ------------------------------
(***************************************************************************)
(* Files at paths against rows by id: what the other modules take for one. *)
(* A row remembers the path of the file it was computed from; the tools    *)
(* that edit or remove a page go to the row's path, write_page goes to the *)
(* path the page's type and id imply, and the hash that decides whether a  *)
(* pass looks at a file again does not cover its path.  People move and    *)
(* copy files by hand.                                                     *)
(*                                                                         *)
(* Whoever writes holds the corpus mutex (CorpusMutex), so there is one    *)
(* writer, whose remaining commits are `plan`; every commit to a table or  *)
(* to a file is a step of its own, so that readers see what lies between.  *)
(* Contents are id, type and version: version stands for body, links_out   *)
(* and aliases.  Claims go with links, claim for claim, and are left out.  *)
(***************************************************************************)
EXTENDS PageIds

CONSTANTS
    Id,          \* the page ids in use
    Label,       \* link labels
    Version,
    LinksOf,     \* [Version -> SUBSET (Id \X Label)]: links_out
    Absent,      \* no file
    Corpus,      \* pages of the corpus at the start, each at its place
    Input,       \* pages callers may write
    Move,        \* <<path, path>>: hand copies and moves people may make
    MaxCalls     \* bound on calls and hand moves, for TLC only

ASSUME FilesAssumption ==
    /\ \A i \in Id : IsPageId(i)
    /\ LinksOf \in [Version -> SUBSET (Id \X Label)]
    /\ MaxCalls \in Nat

Content == [id : Id, type : PageType, ver : Version]
Home(c) == Target(c.type, c.id)
Path == {Target(t, i) : t \in PageType, i \in Id}
Row == [id : Id, type : PageType, ver : Version, path : Path]

ASSUME CorpusAssumption ==
    /\ Absent \notin Content
    /\ Corpus \subseteq Content /\ Input \subseteq Content
    /\ \A c, d \in Corpus : c.id = d.id => c = d
    /\ Move \subseteq Path \X Path

VARIABLES
    disk,     \* what each file holds
    exists,   \* the LanceDB tables there are
    pages,    \* the pages table: two rows of one id are possible
    embs,     \* embeddings: page id and the version embedded
    links,    \* links: <<from_id, to_id, label>>
    plan,     \* commits the running call has still to make
    calls,    \* how many calls and hand moves there have been
    strayed,  \* ids whose file changed its path, or was copied, since Init
    removed   \* ids remove_page removed and nobody brought back since

filesVars == <<disk, exists, pages, embs, links, plan, calls, strayed, removed>>

Table == {"pages", "embeddings", "links"}
Files == {p \in Path : disk[p] # Absent}
FilesOf(i) == {p \in Files : disk[p].id = i}
RowsOf(i) == {r \in pages : r.id = i}

RowOf(c, p) == [id |-> c.id, type |-> c.type, ver |-> c.ver, path |-> p]
Holds(r, p) == disk[p] = [id |-> r.id, type |-> r.type, ver |-> r.ver]
EdgesOf(i, v) == {<<i, e[1], e[2]>> : e \in LinksOf[v]}

\* One commit; which fields mean something depends on `do`.
Commit ==
    [do : {"file"}, id : Id, path : Path, to : Content \cup {Absent}]
    \cup [do : {"unindex", "unembed", "unlink", "unlinkTo"}, id : Id]
    \cup [do : {"index", "embed", "relink"}, rows : SUBSET Row]
    \cup [do : {"link"}, row : Row]
    \cup [do : {"sweep"}, ids : SUBSET Id]
    \cup [do : {"drop"}, table : Table]
    \cup [do : {"ensure", "pass", "rebuild"}]

FilesTypeOK ==
    /\ disk \in [Path -> Content \cup {Absent}]
    /\ exists \subseteq Table
    /\ pages \subseteq Row
    /\ embs \subseteq [id : Id, ver : Version]
    /\ links \subseteq Id \X Id \X Label
    /\ plan \in Seq(Commit)
    /\ calls \in 0..MaxCalls
    /\ strayed \subseteq Id /\ removed \subseteq Id

\* A corpus at rest, every page at its place and indexed.
FilesInit ==
    /\ disk = [p \in Path |->
                 IF \E c \in Corpus : Home(c) = p THEN CHOOSE c \in Corpus : Home(c) = p ELSE Absent]
    /\ exists = Table
    /\ pages = {RowOf(c, Home(c)) : c \in Corpus}
    /\ embs = {[id |-> c.id, ver |-> c.ver] : c \in Corpus}
    /\ links = UNION {EdgesOf(c.id, c.ver) : c \in Corpus}
    /\ plan = <<>>
    /\ calls = 0
    /\ strayed = {} /\ removed = {}

-----------------------------------------------------------------------------
(* The calls.  Each looks its page up and leaves the commits it will make.  *)

Call(commits) ==
    /\ plan = <<>>
    /\ "pages" \in exists
    /\ calls < MaxCalls
    /\ calls' = calls + 1
    /\ plan' = commits
    /\ UNCHANGED <<disk, exists, pages, embs, links>>

Write(i, c, p) == <<[do |-> "file", id |-> i, path |-> p, to |-> c], [do |-> "pass"]>>

\* A write whose path is not that of the page's file or row.
Strays(c) ==
    \/ FilesOf(c.id) \ {Home(c)} # {}
    \/ \E r \in RowsOf(c.id) : r.path # Home(c)

\* The caller writes page c at its place.
WritePage(c) ==
    /\ Call(Write(c.id, c, Home(c)))
    /\ strayed' = IF Strays(c) THEN strayed \cup {c.id} ELSE strayed
    /\ removed' = removed \ {c.id}

\* write_page(create) of a slug: the mangled id is new.
CreatePage(c) ==
    /\ ~IsSection(c.id)
    /\ FilesOf(c.id) = {} /\ RowsOf(c.id) = {}
    /\ WritePage(c)

\* write_page(create) of a section id: no check decides anything.
UpsertSection(c) ==
    /\ IsSection(c.id)
    /\ WritePage(c)

\* write_page(update): the row must be there; the path is that of the new type.
UpdatePage(c) ==
    /\ RowsOf(c.id) # {}
    /\ WritePage(c)

\* add_link and its kin: the file at the row's path is read and rewritten.
EditPage(r, v) ==
    /\ r \in pages
    /\ disk[r.path] # Absent
    /\ Call(Write(r.id, [disk[r.path] EXCEPT !.ver = v], r.path))
    /\ UNCHANGED <<strayed, removed>>

\* remove_page: rows first, then the file at the row's path.
RemovePage(r) ==
    /\ r \in pages
    /\ Call(<<[do |-> "unindex", id |-> r.id],
              [do |-> "unembed", id |-> r.id],
              [do |-> "unlink", id |-> r.id],
              [do |-> "unlinkTo", id |-> r.id],
              [do |-> "file", id |-> r.id, path |-> r.path, to |-> Absent]>>)
    /\ UNCHANGED <<strayed, removed>>

\* The commits of _project for a set of rows: pages and embeddings in one
\* merge each, then the links page by page.
Relink(rows) == IF rows = {} THEN <<>> ELSE <<[do |-> "relink", rows |-> rows]>>

Project(rows) ==
    IF rows = {} THEN <<>>
    ELSE <<[do |-> "index", rows |-> rows], [do |-> "embed", rows |-> rows]>> \o Relink(rows)

\* _delete_page for each id.
Sweep(ids) == IF ids = {} THEN <<>> ELSE <<[do |-> "sweep", ids |-> ids]>>

\* reindex_page: the file at the row's path, else one that the walk finds.
ReindexPage(i, p) ==
    /\ p \in Files
    /\ IF RowsOf(i) # {} THEN \E r \in RowsOf(i) : r.path = p ELSE disk[p].id = i
    /\ Call(Project({RowOf(disk[p], p)}))
    /\ UNCHANGED <<strayed, removed>>

\* reindex_all: tables are dropped and made again, then every file projected.
ReindexAll ==
    /\ Call(<<[do |-> "drop", table |-> "pages"], [do |-> "drop", table |-> "embeddings"],
              [do |-> "drop", table |-> "links"], [do |-> "ensure"], [do |-> "rebuild"]>>)
    /\ UNCHANGED <<strayed, removed>>

-----------------------------------------------------------------------------
(* The commits                                                              *)

Now(what) == plan # <<>> /\ Head(plan).do = what
Done(rest) == plan' = rest \o Tail(plan) /\ UNCHANGED <<calls, strayed>>
Quietly(rest) == Done(rest) /\ UNCHANGED removed

\* os.replace, or unlink if the file is there.
CommitFile ==
    /\ Now("file")
    /\ disk' = [disk EXCEPT ![Head(plan).path] = Head(plan).to]
    /\ removed' = IF Head(plan).to = Absent THEN removed \cup {Head(plan).id} ELSE removed
    /\ Done(<<>>)
    /\ UNCHANGED <<exists, pages, embs, links>>

CommitDelete ==
    /\ Now("unindex") \/ Now("unembed") \/ Now("unlink") \/ Now("unlinkTo")
    /\ LET i == Head(plan).id IN
         /\ pages' = IF Now("unindex") THEN {r \in pages : r.id # i} ELSE pages
         /\ embs' = IF Now("unembed") THEN {e \in embs : e.id # i} ELSE embs
         /\ links' = IF Now("unlink") THEN {e \in links : e[1] # i}
                     ELSE IF Now("unlinkTo") THEN {e \in links : e[2] # i}
                     ELSE links
    /\ Quietly(<<>>)
    /\ UNCHANGED <<disk, exists>>

\* The loops over stale ids and over projected pages: any order will do.
NextSwept ==
    /\ Now("sweep")
    /\ \E i \in Head(plan).ids :
         Quietly(<<[do |-> "unindex", id |-> i], [do |-> "unembed", id |-> i], [do |-> "unlink", id |-> i]>>
              \o Sweep(Head(plan).ids \ {i}))
    /\ UNCHANGED <<disk, exists, pages, embs, links>>

NextRelinked ==
    /\ Now("relink")
    /\ \E r \in Head(plan).rows :
         Quietly(<<[do |-> "unlink", id |-> r.id], [do |-> "link", row |-> r]>>
              \o Relink(Head(plan).rows \ {r}))
    /\ UNCHANGED <<disk, exists, pages, embs, links>>

\* merge_insert on the id.  Two new rows for one id both go in where none was;
\* where one was, which of them replaces it is the library's business.
Others(old, new) == {r \in old : \A n \in new : n.id # r.id}
Merged(old, new) ==
    {Others(old, new) \cup m : m \in
        {k \in SUBSET new : \A n \in new :
            IF \E r \in old : r.id = n.id THEN \E r \in k : r.id = n.id ELSE n \in k}}

\* Mutant: rows are added, not merged.
CommitIndexAdds ==
    /\ Now("index")
    /\ pages' = pages \cup Head(plan).rows
    /\ Quietly(<<>>)
    /\ UNCHANGED <<disk, exists, embs, links>>

CommitIndex ==
    /\ Now("index")
    /\ pages' \in Merged(pages, Head(plan).rows)
    /\ Quietly(<<>>)
    /\ UNCHANGED <<disk, exists, embs, links>>

CommitEmbed ==
    /\ Now("embed")
    /\ embs' \in Merged(embs, {[id |-> r.id, ver |-> r.ver] : r \in Head(plan).rows})
    /\ Quietly(<<>>)
    /\ UNCHANGED <<disk, exists, pages, links>>

CommitLinks ==
    /\ Now("link")
    /\ links' = links \cup EdgesOf(Head(plan).row.id, Head(plan).row.ver)
    /\ Quietly(<<>>)
    /\ UNCHANGED <<disk, exists, pages, embs>>

CommitDrop ==
    /\ Now("drop")
    /\ LET T == Head(plan).table IN
         /\ exists' = exists \ {T}
         /\ pages' = IF T = "pages" THEN {} ELSE pages
         /\ embs' = IF T = "embeddings" THEN {} ELSE embs
         /\ links' = IF T = "links" THEN {} ELSE links
    /\ Quietly(<<>>)
    /\ UNCHANGED disk

CommitEnsure ==
    /\ Now("ensure")
    /\ exists' = Table
    /\ Quietly(<<>>)
    /\ UNCHANGED <<disk, pages, embs, links>>

\* existing_page_hashes keeps one row's hash per id.
HashOf == {h \in [{r.id : r \in pages} -> pages] : \A i \in DOMAIN h : h[i].id = i}

\* The scan of an incremental pass: rows whose id no file has are swept, files
\* whose hash is not their id's are projected.  The path is not compared.
CommitPass ==
    /\ Now("pass")
    /\ \E hash \in HashOf :
         LET seen == {disk[p].id : p \in Files}
             toIndex == {p \in Files : disk[p].id \in DOMAIN hash => ~Holds(hash[disk[p].id], p)}
         IN  Quietly(Sweep(DOMAIN hash \ seen) \o Project({RowOf(disk[p], p) : p \in toIndex}))
    /\ UNCHANGED <<disk, exists, pages, embs, links>>

\* The scan of reindex_all: every file.
CommitRebuild ==
    /\ Now("rebuild")
    /\ Quietly(Project({RowOf(disk[p], p) : p \in Files}))
    /\ UNCHANGED <<disk, exists, pages, embs, links>>

WriterCommits ==
    \/ CommitFile \/ NextSwept \/ CommitDelete
    \/ CommitIndex \/ CommitEmbed \/ NextRelinked \/ CommitLinks
    \/ CommitDrop \/ CommitEnsure \/ CommitPass \/ CommitRebuild

\* The process dies, or a store or embedder call raises.
Cut ==
    /\ plan # <<>>
    /\ plan' = <<>>
    /\ UNCHANGED <<disk, exists, pages, embs, links, calls, strayed, removed>>

\* Somebody copies a file, or moves it, by hand.
HandMove(p, q, keep) ==
    /\ calls < MaxCalls
    /\ calls' = calls + 1
    /\ p \in Files /\ q \notin Files
    /\ disk' = [disk EXCEPT ![q] = disk[p], ![p] = IF keep THEN disk[p] ELSE Absent]
    /\ strayed' = strayed \cup {disk[p].id}
    /\ removed' = removed \ {disk[p].id}
    /\ UNCHANGED <<exists, pages, embs, links, plan>>

FilesNext ==
    \/ \E c \in Input : CreatePage(c) \/ UpsertSection(c) \/ UpdatePage(c)
    \/ \E r \in pages : RemovePage(r) \/ \E v \in Version : EditPage(r, v)
    \/ \E i \in Id, p \in Path : ReindexPage(i, p)
    \/ ReindexAll
    \/ WriterCommits
    \/ Cut
    \/ \E m \in Move, keep \in BOOLEAN : HandMove(m[1], m[2], keep)

FilesSpec == FilesInit /\ [][FilesNext]_filesVars

-----------------------------------------------------------------------------
(* Properties                                                               *)

\* What every other module takes for granted: a page is one file, at the path
\* its id and type imply, and its row knows that path.  It holds of a page
\* until an update or an upsert gives it another type's directory, or until
\* somebody moves or copies its file; crashes and rebuilds do not break it.
OneHomePerId ==
    \A i \in Id \ strayed :
        /\ \A p, q \in FilesOf(i) : p = q
        /\ \A p \in FilesOf(i) : p = Home(disk[p])
        /\ \A r \in RowsOf(i) : FilesOf(i) \subseteq {r.path}
        /\ \A r, s \in RowsOf(i) : r = s

\* "Cascading delete of a page by canonical id", its file included: nobody
\* brought it back, so the index does not show it again.
RemovedIsGone == \A i \in removed : RowsOf(i) = {}
=============================================================================
