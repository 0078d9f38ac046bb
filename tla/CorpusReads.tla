---------------------------- MODULE CorpusReads -----------------------------
(***************************************************************************)
(* The read tools over PageFiles: they take no lock, so the writer's       *)
(* commits fall between any two of their steps.  A table that is opened is *)
(* a snapshot of that moment (mutex.py:16); what makes the read tools hard *)
(* is that read_page, find_by_alias, search and source_similarity open     *)
(* tables several times and put together what they saw at each.            *)
(*                                                                         *)
(* One reader stands for all: readers share nothing.  A query that follows *)
(* its open at once is one step with it.  The tools that open one table    *)
(* once and query it once (list_pages, incoming_links, list_domains) are   *)
(* one step in all.                                                        *)
(***************************************************************************)
EXTENDS ReadAnswers

CONSTANTS
    Query,       \* what a caller may search for
    Mentions,    \* [Query -> SUBSET Version]: bodies full text search finds
    Needles,     \* [Query -> SUBSET Handle]: the query and its words
    Fetch,       \* [op, top_k, narrowed?] -> how deep the tool over-fetches
    MaxHops,     \* _MAX_TRAVERSE_HOPS
    HopLimit,    \* _PER_HOP_EDGE_LIMIT
    Request,     \* the calls readers make
    MaxReads     \* bound on calls, for TLC only

Filters == [glossary : BOOLEAN \cup {None}, isDomain : BOOLEAN \cup {None},
            domain : STRING \cup {None}, alias : Handle \cup {None},
            before : Nat \cup {None}, after : Nat \cup {None}]

RequestType ==
    [op : {"read", "find"}, arg : Handle, fuzzy : BOOLEAN]
    \cup [op : {"traverse"}, from : Id, label : Label \cup {None}, hops : 1..MaxHops]
    \cup [op : {"incoming"}, to : Id, label : Label \cup {None}]
    \cup [op : {"list"}, type : PageType \cup {None}, prefix : (SUBSET Id) \cup {None},
          filters : Filters, limit : Nat \ {0}]
    \cup [op : {"domains"}]
    \cup [op : {"search"}, query : Query, topK : Nat \ {0}, filters : Filters]
    \cup [op : {"similar"}, source : Id, topK : Nat \ {0}, types : (SUBSET PageType) \cup {None}]

\* How many rows a tool asks for, to have topK of them left.
FetchDepth(q) ==
    Fetch[<<q.op, q.topK, IF q.op = "search" THEN q.filters # NoFilters ELSE q.types # None>>]

ASSUME ReadsAssumption ==
    /\ Request \subseteq RequestType
    /\ MaxHops \in Nat /\ HopLimit \in Nat /\ MaxReads \in Nat
    /\ None \notin Label /\ None \notin RequestType
    /\ \A q \in Request : q.op \in {"search", "similar"} =>
          FetchDepth(q) \in Nat /\ FetchDepth(q) >= q.topK
    /\ IsFiniteSet(Id) /\ IsFiniteSet(Label) /\ IsFiniteSet(PageType)

VARIABLES
    req, at,      \* the call, and where its handler is
    snap,         \* the pages table as search opened it
    graph,        \* the links table as traverse opened it
    canon,        \* the id an alias led to
    lists,        \* ranked ids gathered so far
    visited, frontier, found, hop, truncated,   \* traverse's walk
    reply,
    reads,
    moments,      \* every pages table there was since a lookup began
    still,        \* is every table as it was when the call began?
    dropped       \* tables dropped since then

walkVars == <<graph, visited, frontier, found, hop, truncated>>
ghostVars == <<moments, still, dropped>>
readerVars == <<req, at, snap, canon, lists, walkVars, reply, reads, ghostVars>>
readsVars == <<filesVars, readerVars>>

NoReply == [kind |-> "none"]

IsLookup == req # None /\ req.op \in {"read", "find"}

ReadsTypeOK ==
    /\ FilesTypeOK
    /\ req \in Request \cup {None}
    /\ at \in {"idle", "exact", "alias", "canon", "fuzzy", "open", "hop",
               "vec", "aliases", "hydrate", "meta", "done"}
    /\ snap \subseteq Row
    /\ graph \subseteq Id \X Id \X Label /\ found \subseteq graph
    /\ canon \in Id \cup {None}
    /\ lists \in Seq(Seq(Id))
    /\ visited \subseteq Id /\ frontier \subseteq visited
    /\ hop \in 0..MaxHops /\ truncated \in BOOLEAN
    /\ reads \in 0..MaxReads
    /\ moments \subseteq SUBSET Row
    /\ still \in BOOLEAN /\ dropped \subseteq Table

ReadsInit ==
    /\ FilesInit
    /\ req = None /\ at = "idle"
    /\ snap = {} /\ canon = None /\ lists = <<>>
    /\ graph = {} /\ visited = {} /\ frontier = {} /\ found = {} /\ hop = 0
    /\ truncated = FALSE
    /\ reply = NoReply /\ reads = 0
    /\ moments = {} /\ still = TRUE /\ dropped = {}

-----------------------------------------------------------------------------
(* A call and its answer                                                    *)

Ask(q) ==
    /\ at = "idle"
    /\ reads < MaxReads
    /\ reads' = reads + 1
    /\ req' = q
    /\ at' = CASE q.op = "read" -> "exact"
               [] q.op = "find" -> "alias"
               [] OTHER -> "open"
    /\ moments' = IF q.op \in {"read", "find"} THEN {pages} ELSE {}
    /\ UNCHANGED <<filesVars, snap, canon, lists, walkVars, reply, still, dropped>>

Answer(r) ==
    /\ reply' = r
    /\ at' = "done"

\* The caller has its answer; the handler's locals are gone.
Deliver ==
    /\ at = "done"
    /\ req' = None /\ at' = "idle"
    /\ snap' = {} /\ canon' = None /\ lists' = <<>>
    /\ graph' = {} /\ visited' = {} /\ frontier' = {} /\ found' = {} /\ hop' = 0
    /\ truncated' = FALSE
    /\ reply' = NoReply
    /\ moments' = {} /\ still' = TRUE /\ dropped' = {}
    /\ UNCHANGED <<filesVars, reads>>

\* open_table of a dropped table raises, and so does a query through a handle
\* whose table was dropped since: the caller gets an exception.
Raise ==
    /\ at \notin {"idle", "done"}
    /\ dropped # {} \/ exists # Table
    /\ Answer([kind |-> "raised"])
    /\ UNCHANGED <<filesVars, req, snap, canon, lists, walkVars, reads, ghostVars>>

\* A query of the pages table.
Querying(step) == at = step /\ "pages" \in exists

-----------------------------------------------------------------------------
(* read_page and find_by_alias                                              *)

Page(i) == [kind |-> "page", id |-> i]
NotFound(i) == [kind |-> "not_found", id |-> i]
Matches(rows) == [kind |-> "matches", ids |-> {r.id : r \in rows}]

HasId(rows, i) == \E r \in rows : r.id = i
Only(rows) == \E r \in rows : rows = {r}

ReadExact ==
    /\ Querying("exact")
    /\ IF HasId(pages, req.arg)
         THEN Answer(Page(req.arg))
         ELSE at' = "alias" /\ UNCHANGED reply
    /\ UNCHANGED <<filesVars, req, snap, canon, lists, walkVars, reads, ghostVars>>

\* One match leads read_page to the page itself; several are listed.
Follow(rows) ==
    IF req.op = "read" /\ Only(rows)
      THEN at' = "canon" /\ (\E r \in rows : canon' = r.id) /\ UNCHANGED reply
      ELSE Answer(Matches(rows)) /\ UNCHANGED canon

\* Mutant: fuzzy matches are looked for although the alias is known.
AliasAlwaysFuzzy ==
    /\ Querying("alias")
    /\ \E rows \in FindFuzzy(pages, req.arg) :
         IF rows # {} THEN Follow(rows)
         ELSE Answer(NotFound(req.arg)) /\ UNCHANGED canon
    /\ UNCHANGED <<filesVars, req, snap, lists, walkVars, reads, ghostVars>>

ReadAlias ==
    /\ Querying("alias")
    /\ \E rows \in FindAlias(pages, req.arg) :
         IF rows # {} THEN Follow(rows)
         ELSE IF req.fuzzy THEN at' = "fuzzy" /\ UNCHANGED <<canon, reply>>
         ELSE Answer(NotFound(req.arg)) /\ UNCHANGED canon
    /\ UNCHANGED <<filesVars, req, snap, lists, walkVars, reads, ghostVars>>

ReadFuzzy ==
    /\ Querying("fuzzy")
    /\ \E rows \in FindFuzzy(pages, req.arg) :
         IF rows # {} THEN Follow(rows) ELSE Answer(NotFound(req.arg)) /\ UNCHANGED canon
    /\ UNCHANGED <<filesVars, req, snap, lists, walkVars, reads, ghostVars>>

\* The page the alias led to, in a table opened once more.
ReadCanon ==
    /\ Querying("canon")
    /\ Answer(IF HasId(pages, canon) THEN Page(canon) ELSE NotFound(canon))
    /\ UNCHANGED <<filesVars, req, snap, canon, lists, walkVars, reads, ghostVars>>

-----------------------------------------------------------------------------
(* traverse, incoming_links, list_pages, list_domains                       *)

Labelled(E) == {e \in E : req.label # None => e[3] = req.label}

OpenGraph ==
    /\ at = "open" /\ req.op = "traverse"
    /\ "links" \in exists
    /\ graph' = links
    /\ visited' = {req.from} /\ frontier' = {req.from}
    /\ at' = "hop"
    /\ UNCHANGED <<filesVars, req, snap, canon, lists, found, hop, truncated, reply, reads, ghostVars>>

\* Mutant: what a node leads to is looked up before it is marked as visited.
HopMarksFrontier ==
    /\ at = "hop" /\ hop < req.hops /\ frontier # {}
    /\ \E edges \in Limited({e \in Labelled(graph) : e[1] \in frontier}, HopLimit) :
         /\ found' = found \cup edges
         /\ visited' = visited \cup frontier
         /\ frontier' = {e[2] : e \in edges} \ visited
         /\ truncated' = (truncated \/ Cardinality(edges) >= HopLimit)
    /\ hop' = hop + 1
    /\ UNCHANGED <<filesVars, req, at, snap, canon, lists, graph, reply, reads, ghostVars>>

\* One level of the breadth-first walk.
Hop ==
    /\ at = "hop" /\ hop < req.hops /\ frontier # {}
    /\ \E edges \in Limited({e \in Labelled(graph) : e[1] \in frontier}, HopLimit) :
         /\ found' = found \cup edges
         /\ visited' = visited \cup {e[2] : e \in edges}
         /\ frontier' = {e[2] : e \in edges} \ visited
         /\ truncated' = (truncated \/ Cardinality(edges) >= HopLimit)
    /\ hop' = hop + 1
    /\ UNCHANGED <<filesVars, req, at, snap, canon, lists, graph, reply, reads, ghostVars>>

EndWalk ==
    /\ at = "hop" /\ (hop = req.hops \/ frontier = {})
    /\ Answer([kind |-> "walk"])
    /\ UNCHANGED <<filesVars, req, snap, canon, lists, walkVars, reads, ghostVars>>

IncomingLinks ==
    /\ at = "open" /\ req.op = "incoming"
    /\ "links" \in exists
    /\ \E edges \in Limited({e \in Labelled(links) : e[2] = req.to}, FetchCap) :
         Answer([kind |-> "edges", edges |-> edges])
    /\ UNCHANGED <<filesVars, req, snap, canon, lists, walkVars, reads, ghostVars>>

ListPages ==
    /\ Querying("open") /\ req.op = "list"
    /\ \E a \in ListAnswers(pages, req) :
         Answer([kind |-> "list", ids |-> {r.id : r \in a.listed}, truncated |-> a.truncated])
    /\ UNCHANGED <<filesVars, req, snap, canon, lists, walkVars, reads, ghostVars>>

ListDomains ==
    /\ Querying("open") /\ req.op = "domains"
    /\ \E domains \in Domains(pages) :
         Answer([kind |-> "list", ids |-> {r.id : r \in domains}, truncated |-> FALSE])
    /\ UNCHANGED <<filesVars, req, snap, canon, lists, walkVars, reads, ghostVars>>

-----------------------------------------------------------------------------
(* search                                                                   *)

HasFilters == req.filters # NoFilters
Depth == FetchDepth(req)

\* The handle of the pages table, and full text search through it; any
\* exception of the latter leaves vector and aliases.
OpenSearch ==
    /\ Querying("open") /\ req.op = "search"
    /\ snap' = pages
    /\ \E ranked \in Orders({r \in pages : r.ver \in Mentions[req.query]}) \cup {<<>>} :
         lists' = <<First(IdsOf(ranked), Depth)>>
    /\ at' = "vec"
    /\ UNCHANGED <<filesVars, req, canon, walkVars, reply, reads, ghostVars>>

\* Every embedding is at some distance.
RankVectors ==
    /\ at = "vec" /\ "embeddings" \in exists
    /\ \E ranked \in Orders(embs) \cup {<<>>} :
         lists' = Append(lists, First(IdsOf(ranked), Depth))
    /\ at' = "aliases"
    /\ UNCHANGED <<filesVars, req, snap, canon, walkVars, reply, reads, ghostVars>>

\* The aliases come from the pages table as it is now.
MatchAliases ==
    /\ Querying("aliases")
    /\ \E ranked \in Orders({r \in pages : Meta[r.ver].aliases \cap Needles[req.query] # {}}) :
         lists' = Append(lists, First(IdsOf(ranked), FetchCap))
    /\ at' = "hydrate"
    /\ UNCHANGED <<filesVars, req, snap, canon, walkVars, reply, reads, ghostVars>>

Pools == {First(fused, IF HasFilters THEN Depth ELSE req.topK) : fused \in Fusions(lists)}

Listed(hits, cut) == [kind |-> "hits", hits |-> hits, truncated |-> cut]

\* Mutant: the filters are applied to the first topK candidates only.
HydrateTopOnly ==
    /\ at = "hydrate"
    /\ \E pool \in Pools : \E m \in Metadata(snap, First(pool, req.topK)) :
         Answer(Listed(Hits(pool, Passing(m, req.filters), req.topK), FALSE))
    /\ UNCHANGED <<filesVars, req, snap, canon, lists, walkVars, reads, ghostVars>>

\* Metadata through the handle opened first.
Hydrate ==
    /\ at = "hydrate"
    /\ \E pool \in Pools : \E m \in Metadata(snap, pool) :
         Answer(Listed(Hits(pool, Passing(m, req.filters), req.topK), FALSE))
    /\ UNCHANGED <<filesVars, req, snap, canon, lists, walkVars, reads, ghostVars>>

-----------------------------------------------------------------------------
(* source_similarity                                                        *)

\* Mutant: the source is among its own neighbours, and takes a place.
NeighboursWithSource ==
    /\ at = "open" /\ req.op = "similar"
    /\ "embeddings" \in exists
    /\ IF \E e \in embs : e.id = req.source
         THEN \E ranked \in Orders(embs) :
                /\ lists' = <<First(IdsOf(ranked), Depth)>>
                /\ at' = "meta"
                /\ UNCHANGED reply
         ELSE Answer(NotFound(req.source)) /\ UNCHANGED lists
    /\ UNCHANGED <<filesVars, req, snap, canon, walkVars, reads, ghostVars>>

\* The source's own embedding, then its neighbours, from one handle.
Neighbours ==
    /\ at = "open" /\ req.op = "similar"
    /\ "embeddings" \in exists
    /\ IF \E e \in embs : e.id = req.source
         THEN \E ranked \in Orders({e \in embs : e.id # req.source}) :
                /\ lists' = <<First(IdsOf(ranked), Depth)>>
                /\ at' = "meta"
                /\ UNCHANGED reply
         ELSE Answer(NotFound(req.source)) /\ UNCHANGED lists
    /\ UNCHANGED <<filesVars, req, snap, canon, walkVars, reads, ghostVars>>

\* An empty list of types is no filter, although it widens the search.
OfTypes(rows) == {r \in rows : req.types \notin {None, {}} => r.type \in req.types}

\* Metadata from the pages table as it is now; a neighbour without a row is
\* skipped.
SimilarPages ==
    /\ Querying("meta")
    /\ \E rows \in Metadata(pages, lists[1]) : \E m \in ById(rows) :
         LET hits == Hits(lists[1], OfTypes(m), req.topK) IN
         Answer(Listed(hits, /\ req.types # None
                             /\ Len(hits) < req.topK
                             /\ Len(lists[1]) >= Depth))
    /\ UNCHANGED <<filesVars, req, snap, canon, lists, walkVars, reads, ghostVars>>

-----------------------------------------------------------------------------
ReaderStep ==
    \/ \E q \in Request : Ask(q)
    \/ ReadExact \/ ReadAlias \/ ReadFuzzy \/ ReadCanon
    \/ OpenGraph \/ Hop \/ EndWalk \/ IncomingLinks \/ ListPages \/ ListDomains
    \/ OpenSearch \/ RankVectors \/ MatchAliases \/ Hydrate
    \/ Neighbours \/ SimilarPages
    \/ Raise \/ Deliver

\* The writer, or somebody's hand; what the reader could have noticed of it.
\* An answer is taken at the moment it is given.
WriterStep ==
    /\ at # "done"
    /\ FilesNext
    /\ LET reading == at # "idle" IN
         /\ moments' = IF reading /\ IsLookup THEN moments \cup {pages'} ELSE moments
         /\ still' = (still /\ (reading => UNCHANGED <<pages, embs, links>>))
         /\ dropped' = IF reading THEN dropped \cup (exists \ exists') ELSE dropped
    /\ UNCHANGED <<req, at, snap, canon, lists, walkVars, reply, reads>>

ReadsNext == WriterStep \/ ReaderStep

ReadsSpec == ReadsInit /\ [][ReadsNext]_readsVars

-----------------------------------------------------------------------------
(* Properties                                                               *)

\* What a lookup answers when its argument led it to the pages m.  The page of
\* a single one is read from a table opened once more.
Tells(m) ==
    IF m = {} THEN reply = NotFound(req.arg)
    ELSE IF req.op = "read" /\ Only(m)
      THEN \E r \in m : reply = IF HasId(pages, r.id) THEN Page(r.id) ELSE NotFound(r.id)
    ELSE reply = Matches(m)

\* All of what is named, unless the query fetched as many rows as it may.
AllOrFull(m, named) == m \subseteq named /\ (m = named \/ Cardinality(m) = FetchCap)

\* All of what is named, unless there were more rows than one scan takes in.
AllOrUnscanned(m, named, rows) == m \subseteq named /\ (m = named \/ Cardinality(rows) > FetchCap)

\* read_page's docstring, "Lookup order", with writers at work between its
\* looks.  The id wins; an alias counts only if the page was not there at some
\* moment of the call, and likeness only if nothing had that alias at some
\* moment of it.  What is named is told as of one moment, in full up to the
\* 10,000 rows the queries stop at.  A single page that a writer removes before
\* it is read is not found under its own id, as it is by then.
LookupIsHonest ==
    at = "done" /\ IsLookup /\ reply.kind # "raised" =>
        \/ /\ req.op = "read" /\ reply = Page(req.arg)
           /\ \E rows \in moments : HasId(rows, req.arg)
        \/ /\ req.op = "read" => \E rows \in moments : ~HasId(rows, req.arg)
           /\ \/ \E rows \in moments : \E m \in SUBSET rows :
                   /\ AllOrFull(m, Carrying(rows, req.arg)) /\ Tells(m)
                   /\ m = {} => ~req.fuzzy
              \/ /\ req.fuzzy
                 /\ \E rows \in moments : Carrying(rows, req.arg) = {}
                 /\ \E rows \in moments : \E m \in SUBSET rows :
                      AllOrUnscanned(m, Resembling(rows, req.arg), rows) /\ Tells(m)

\* Nodes that a walk of at most n edges of E reaches.
Within(E, from, n) ==
    {m \in Id : \E k \in 0..n : \E p \in [0..k -> Id] :
        /\ p[0] = from /\ p[k] = m
        /\ \A j \in 1..k : \E e \in E : e[1] = p[j - 1] /\ e[2] = p[j]}

\* The breadth-first walk finds what is within `hops` edges, and the edges that
\* leave what is within one less: in cycles, from a page that links to itself,
\* over one label, unless it says it was truncated.
TraverseIsReachability ==
    at = "done" /\ reply.kind = "walk" /\ ~truncated =>
        LET E == Labelled(graph) IN
        /\ visited = Within(E, req.from, req.hops)
        /\ found = {e \in E : e[1] \in Within(E, req.from, req.hops - 1)}

\* The tables list the same pages, one row each: so they do at rest, unless a
\* crash came between two of them.
Agreeing ==
    /\ {r.id : r \in pages} = {e.id : e \in embs}
    /\ \A r, s \in pages : r.id = s.id => r = s
    /\ \A e, f \in embs : e.id = f.id => e = f

\* "The top_k you get back is top_k matches that pass the filter": whatever was
\* committed between the opens, every hit is a page of the table opened first
\* that passes.  Fewer hits than top_k are all the candidates of the three
\* rankings that pass, as long as nothing was committed between the opens and
\* the pool was deep enough.
SearchFillsTopK ==
    at = "done" /\ reply.kind = "hits" /\ req.op = "search" =>
        LET candidates == Candidates(lists) IN
        /\ ToSet(reply.hits) \subseteq {r.id : r \in Passing(snap, req.filters)}
        /\ still /\ Agreeing =>
           \/ HasFilters /\ Cardinality(candidates) > Depth
           \/ Len(reply.hits) = req.topK
           \/ ToSet(reply.hits) = {r.id : r \in {s \in Passing(pages, req.filters) : s.id \in candidates}}

\* source_similarity never lists the source itself, nor a page that is gone or
\* of another type by the time the metadata is read.  With fewer hits than top_k
\* it has listed every other page of the types, or says it was truncated, as
\* long as nothing was committed between its two opens.
SimilarityIsComplete ==
    at = "done" /\ reply.kind = "hits" /\ req.op = "similar" =>
        /\ ToSet(reply.hits) \subseteq {r.id : r \in OfTypes(pages)} \ {req.source}
        /\ still /\ Agreeing /\ ~reply.truncated /\ Len(reply.hits) < req.topK =>
             ToSet(reply.hits) = {r.id : r \in OfTypes(pages)} \ {req.source}
=============================================================================
