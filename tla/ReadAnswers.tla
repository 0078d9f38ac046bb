---------------------------- MODULE ReadAnswers -----------------------------
(***************************************************************************)
(* What the read tools of tools.py make of the rows they fetched, as       *)
(* operators over one snapshot: property filters, list_pages, alias and    *)
(* fuzzy matches, rank fusion, hydration.  Where the store may return rows *)
(* in any order, or a limit leaves out any of them, the operator is the    *)
(* set of possible answers.                                                *)
(***************************************************************************)
EXTENDS PageFiles, FiniteSets, SequencesExt

CONSTANTS
    None,        \* an argument or a field that is not there
    Concept,     \* the type of concept pages
    Handle,      \* texts callers may pass as an id or alias
    Meta,        \* [Version -> the frontmatter fields filters look at]
    Trigrams,    \* [Handle -> their character trigrams]
    Threshold,   \* _fuzzy_alias_threshold, in hundredths
    FetchCap,    \* the most rows that list_pages and every query of
                 \* aliases, domains and incoming links fetch (10_000)
    ListSpread, ListFloor,   \* its over-fetch under filters: 10 times, 1000
    RankOffset, Scale   \* k of rank fusion (60); a multiple of every rank + k

ASSUME AnswersAssumption ==
    /\ Id \subseteq Handle
    /\ \A v \in Version : Meta[v].aliases \subseteq Handle
    /\ Threshold \in 1..100
    /\ FetchCap \in Nat \ {0} /\ ListSpread \in Nat /\ ListFloor \in Nat
    /\ RankOffset \in Nat /\ Scale \in Nat

SmallerOf(a, b) == IF a <= b THEN a ELSE b
LargerOf(a, b) == IF a <= b THEN b ELSE a

\* What limit(n) may leave of S.
Limited(S, n) == {s \in SUBSET S : Cardinality(s) = SmallerOf(Cardinality(S), n)}

\* Every order the rows of S may come in.
Orders(S) == {s \in [1..Cardinality(S) -> S] : \A j, k \in DOMAIN s : s[j] = s[k] => j = k}
First(s, n) == SubSeq(s, 1, SmallerOf(Len(s), n))
IdsOf(s) == [k \in DOMAIN s |-> s[k].id]

-----------------------------------------------------------------------------
(* Property filters                                                         *)

NoFilters == [glossary |-> None, isDomain |-> None, domain |-> None, alias |-> None,
              before |-> None, after |-> None]

\* A filter on a field the page does not have fails.
Passes(fm, f) ==
    /\ f.glossary # None => fm.glossary = f.glossary
    /\ f.isDomain # None => fm.isDomain = f.isDomain
    /\ f.domain # None => f.domain \in fm.domains
    /\ f.alias # None => f.alias \in fm.aliases
    /\ f.before # None => fm.fetched # None /\ fm.fetched < f.before
    /\ f.after # None => fm.fetched # None /\ fm.fetched > f.after

Passing(rows, f) == {r \in rows : Passes(Meta[r.ver], f)}

-----------------------------------------------------------------------------
(* list_pages, list_domains                                                 *)

\* The WHERE clause; a prefix is the set of ids it is a prefix of.
Where(rows, q) ==
    {r \in rows : /\ q.type # None => r.type = q.type
                  /\ q.prefix # None => r.id \in q.prefix}

FetchLimit(q) ==
    SmallerOf(IF q.filters = NoFilters THEN q.limit ELSE LargerOf(q.limit * ListSpread, ListFloor),
              FetchCap)

\* Fetch at most FetchLimit rows, keep those that pass, stop at `limit`.
ListAnswers(rows, q) ==
    UNION {{[listed |-> out,
             truncated |-> /\ q.filters # NoFilters
                           /\ Cardinality(fetched) >= FetchLimit(q)
                           /\ Cardinality(out) < q.limit]
            : out \in Limited(Passing(fetched, q.filters), q.limit)}
           : fetched \in Limited(Where(rows, q), FetchLimit(q))}

\* Which concepts are domains is looked at among the rows that were fetched.
Domains(rows) ==
    {{r \in fetched : Meta[r.ver].isDomain = TRUE}
       : fetched \in Limited({r \in rows : r.type = Concept}, FetchCap)}

-----------------------------------------------------------------------------
(* Aliases                                                                  *)

\* The pages with alias a, and what a query for them may fetch.
Carrying(rows, a) == {r \in rows : a \in Meta[r.ver].aliases}
FindAlias(rows, a) == Limited(Carrying(rows, a), FetchCap)

\* _jaccard_trigram(a, b) reaches the threshold.
IsNear(a, b) ==
    /\ Trigrams[a] # {} /\ Trigrams[b] # {}
    /\ 100 * Cardinality(Trigrams[a] \cap Trigrams[b])
         >= Threshold * Cardinality(Trigrams[a] \cup Trigrams[b])

\* The pages with an alias near a, and which of them a scan may come upon: the
\* limit is on the rows that are scanned.
Resembling(rows, a) == {r \in rows : \E b \in Meta[r.ver].aliases : IsNear(a, b)}
FindFuzzy(rows, a) == {Resembling(scanned, a) : scanned \in Limited(rows, FetchCap)}

-----------------------------------------------------------------------------
(* search                                                                   *)

\* What the terms come to.
Total(terms) ==
    LET upTo[n \in 0..Len(terms)] == IF n = 0 THEN 0 ELSE upTo[n - 1] + terms[n]
    IN  upTo[Len(terms)]

\* _rrf_fuse: 1/(k + rank) summed over the rankings, as multiples of 1/Scale.
Share(ranks, pid) ==
    Total([rank \in DOMAIN ranks |->
             IF ranks[rank] = pid THEN Scale \div (RankOffset + rank) ELSE 0])
Score(rankings, pid) == Total([n \in DOMAIN rankings |-> Share(rankings[n], pid)])

\* The loops over the rankings come to a before they come to b.
ComesFirst(rankings, a, b) ==
    \E n \in DOMAIN rankings : \E k \in DOMAIN rankings[n] :
        /\ rankings[n][k] = a
        /\ \A m \in 1..n : \A j \in DOMAIN rankings[m] :
              m < n \/ j <= k => rankings[m][j] # b

\* Equal scores stay in the order the dict got them.
Before(rankings, a, b) ==
    \/ Score(rankings, a) > Score(rankings, b)
    \/ Score(rankings, a) = Score(rankings, b) /\ ComesFirst(rankings, a, b)

\* The ids that are in some ranking, and the order sorted() brings them into.
Candidates(rankings) == UNION {ToSet(rankings[n]) : n \in DOMAIN rankings}
Fusions(rankings) ==
    {s \in Orders(Candidates(rankings)) :
        \A j, k \in DOMAIN s : j < k => Before(rankings, s[j], s[k])}

\* The metadata query: as many rows as there are ids.
Metadata(rows, pids) == Limited({r \in rows : r.id \in ToSet(pids)}, Len(pids))

\* A dict of them: of two rows with one id, the later.
ById(rows) ==
    {m \in SUBSET rows : /\ \A r, s \in m : r.id = s.id => r = s
                        /\ \A r \in rows : \E s \in m : s.id = r.id}

\* The candidates that have a row in `kept`, in their order.
WithRow(pids, kept) ==
    LET keep[n \in 0..Len(pids)] ==
            IF n = 0 THEN <<>>
            ELSE IF \E r \in kept : r.id = pids[n] THEN Append(keep[n - 1], pids[n])
            ELSE keep[n - 1]
    IN  keep[Len(pids)]

\* Hits are appended until there are n of them.
Hits(pids, kept, n) == First(WithRow(pids, kept), n)
=============================================================================
