------------------------- MODULE CorpusReadsProofs --------------------------
(***************************************************************************)
(* Proofs about CorpusReads: reading changes nothing, traverse is bounded  *)
(* reachability, a lookup that opens four tables is honest, a list, a      *)
(* search or a similarity answer shorter than asked for is complete, and   *)
(* no call is without an answer.                                           *)
(***************************************************************************)
EXTENDS CorpusReads, PageFilesProofs, FiniteSetTheorems, WellFoundedInduction

(* Where the handler is, what its call was, and when it has a reply.       *)
CallInv ==
    /\ req \in Request \cup {None}
    /\ at = "idle" <=> req = None
    /\ at = "exact" => req.op = "read"
    /\ at \in {"alias", "fuzzy", "canon"} => req.op \in {"read", "find"}
    /\ at = "canon" => req.op = "read"
    /\ at = "hop" => req.op = "traverse"
    /\ at # "done" => reply = NoReply
    /\ reply.kind = "walk" => req.op = "traverse"
    /\ req # None /\ req.op \in {"read", "find"} => at \in {"exact", "alias", "canon", "fuzzy", "done"}

(* The tools that open one table once answer in the same step.             *)
LEMMA OneStepTools ==
  ASSUME IncomingLinks \/ ListPages \/ ListDomains
  PROVE  /\ at = "open" /\ req.op \in {"incoming", "list", "domains"}
         /\ at' = "done" /\ reply'.kind \in {"edges", "list"}
         /\ UNCHANGED <<filesVars, req, snap, canon, lists, walkVars, reads, ghostVars>>
<1>1. CASE IncomingLinks
  <2>1. PICK edges : Answer([kind |-> "edges", edges |-> edges])
    BY <1>1 DEF IncomingLinks
  <2>2. QED
    BY <1>1, <2>1 DEF IncomingLinks, Answer
<1>2. CASE ListPages
  BY <1>2 DEF ListPages, Querying, Answer
<1>3. CASE ListDomains
  <2>1. PICK domains : Answer([kind |-> "list", ids |-> {r.id : r \in domains}, truncated |-> FALSE])
    BY <1>3 DEF ListDomains
  <2>2. QED
    BY <1>3, <2>1 DEF ListDomains, Querying, Answer
<1>4. QED
  BY <1>1, <1>2, <1>3

(* It holds in every reachable state.                                      *)
LEMMA CallInvHolds == ReadsSpec => []CallInv
<1> USE ReadsAssumption DEF CallInv
<1>1. ReadsInit => CallInv
  BY DEF ReadsInit, NoReply
<1>2. CallInv /\ [ReadsNext]_readsVars => CallInv'
  <2> SUFFICES ASSUME CallInv, [ReadsNext]_readsVars
               PROVE  CallInv'
    OBVIOUS
  <2>1. CASE UNCHANGED readsVars
    BY <2>1 DEF readsVars, readerVars
  <2>2. ASSUME NEW q \in Request, Ask(q)
        PROVE  CallInv'
    <3>1. q # None /\ req' = q /\ reply' = reply /\ at = "idle"
          /\ at' = (CASE q.op = "read" -> "exact" [] q.op = "find" -> "alias" [] OTHER -> "open")
      BY <2>2 DEF Ask
    <3>2. CASE q.op = "read"
      BY <3>1, <3>2 DEF NoReply
    <3>3. CASE q.op = "find"
      BY <3>1, <3>3 DEF NoReply
    <3>4. CASE q.op \notin {"read", "find"}
      BY <3>1, <3>4 DEF NoReply
    <3>5. QED
      BY <3>2, <3>3, <3>4
  <2>3. CASE ReadExact \/ ReadAlias \/ ReadFuzzy \/ ReadCanon
    <3>1. ASSUME NEW rows, Follow(rows), req' = req, req.op \in {"read", "find"}, at \in {"alias", "fuzzy"}
          PROVE  CallInv'
      BY <3>1 DEF Follow, Answer, Matches, NoReply
    <3>2. CASE ReadExact \/ ReadCanon
      BY <3>2 DEF ReadExact, ReadCanon, Querying, Answer, Page, NotFound, NoReply
    <3>3. CASE ReadAlias
      <4>1. req' = req /\ at = "alias" /\ req.op \in {"read", "find"}
        BY <3>3 DEF ReadAlias, Querying
      <4>2. \/ \E rows : Follow(rows)
            \/ at' = "fuzzy" /\ reply' = reply
            \/ at' = "done" /\ reply' = NotFound(req.arg)
        BY <3>3 DEF ReadAlias, Answer
      <4>3. QED
        BY <3>1, <4>1, <4>2 DEF NotFound, NoReply
    <3>4. CASE ReadFuzzy
      <4>1. req' = req /\ at = "fuzzy" /\ req.op \in {"read", "find"}
        BY <3>4 DEF ReadFuzzy, Querying
      <4>2. (\E rows : Follow(rows)) \/ (at' = "done" /\ reply' = NotFound(req.arg))
        BY <3>4 DEF ReadFuzzy, Answer
      <4>3. QED
        BY <3>1, <4>1, <4>2 DEF NotFound, NoReply
    <3>5. QED
      BY <2>3, <3>2, <3>3, <3>4
  <2>4. CASE OpenGraph \/ Hop \/ EndWalk
    BY <2>4 DEF OpenGraph, Hop, EndWalk, Answer, NoReply
  <2>5. CASE IncomingLinks \/ ListPages \/ ListDomains
    <3>1. /\ at = "open" /\ req.op \in {"incoming", "list", "domains"} /\ req' = req
          /\ at' = "done" /\ reply'.kind \in {"edges", "list"}
      BY <2>5, OneStepTools
    <3>2. QED
      BY <3>1
  <2>6. CASE OpenSearch \/ RankVectors \/ MatchAliases \/ Hydrate
    BY <2>6 DEF OpenSearch, RankVectors, MatchAliases, Hydrate, Querying, Answer, Listed, NoReply
  <2>7. CASE Neighbours \/ SimilarPages
    <3>1. CASE Neighbours
      <4>1. req.op = "similar" /\ req' = req /\ at = "open"
        BY <3>1 DEF Neighbours
      <4>2. \/ at' = "meta" /\ reply' = reply
            \/ at' = "done" /\ reply' = NotFound(req.source)
        <5>1. CASE \E e \in embs : e.id = req.source
          <6>1. \E ranked \in Orders({e \in embs : e.id # req.source}) :
                   /\ lists' = <<First(IdsOf(ranked), Depth)>>
                   /\ at' = "meta"
                   /\ UNCHANGED reply
            BY <3>1, <5>1, Zenon DEF Neighbours
          <6>2. QED
            BY <6>1
        <5>2. CASE ~ \E e \in embs : e.id = req.source
          BY <3>1, <5>2, Zenon DEF Neighbours, Answer
        <5>3. QED
          BY <5>1, <5>2
      <4>3. QED
        BY <4>1, <4>2 DEF NotFound, NoReply
    <3>2. CASE SimilarPages
      BY <3>2 DEF SimilarPages, Querying, Answer, Listed, NoReply
    <3>3. QED
      BY <2>7, <3>1, <3>2
  <2>8. CASE Raise
    BY <2>8 DEF Raise, Answer, NoReply
  <2>9. CASE Deliver
    BY <2>9 DEF Deliver, NoReply
  <2>10. CASE WriterStep
    BY <2>10 DEF WriterStep
  <2>11. QED
    BY <2>1, <2>2, <2>3, <2>4, <2>5, <2>6, <2>7, <2>8, <2>9, <2>10 DEF ReadsNext, ReaderStep
<1>3. QED
  BY <1>1, <1>2, PTL DEF ReadsSpec

(* Whatever readers do, what happens to files and tables is what the       *)
(* writers do: CorpusReads implements PageFiles.                           *)
THEOREM ReadingChangesNothing == ReadsSpec => FilesSpec
<1>1. ReadsInit => FilesInit
  BY DEF ReadsInit
<1>2. [ReadsNext]_readsVars => [FilesNext]_filesVars
  <2> SUFFICES ASSUME [ReadsNext]_readsVars
               PROVE  FilesNext \/ UNCHANGED filesVars
    OBVIOUS
  <2>1. CASE UNCHANGED readsVars
    BY <2>1 DEF readsVars
  <2>2. CASE WriterStep
    BY <2>2 DEF WriterStep
  <2>3. CASE ReaderStep
    <3>1. CASE \E q \in Request : Ask(q)
      BY <3>1 DEF Ask
    <3>2. CASE ReadExact \/ ReadAlias \/ ReadFuzzy \/ ReadCanon
      BY <3>2 DEF ReadExact, ReadAlias, ReadFuzzy, ReadCanon
    <3>3. CASE OpenGraph \/ Hop \/ EndWalk \/ IncomingLinks \/ ListPages \/ ListDomains
      BY <3>3 DEF OpenGraph, Hop, EndWalk, IncomingLinks, ListPages, ListDomains
    <3>4. CASE OpenSearch \/ RankVectors \/ MatchAliases \/ Hydrate \/ Neighbours \/ SimilarPages
      BY <3>4 DEF OpenSearch, RankVectors, MatchAliases, Hydrate, Neighbours, SimilarPages
    <3>5. CASE Raise \/ Deliver
      BY <3>5 DEF Raise, Deliver
    <3>6. QED
      BY <2>3, <3>1, <3>2, <3>3, <3>4, <3>5 DEF ReaderStep
  <2>4. QED
    BY <2>1, <2>2, <2>3 DEF ReadsNext
<1>3. QED
  BY <1>1, <1>2, PTL DEF ReadsSpec, FilesSpec

(* A page has one home, also while readers are at it.                      *)
THEOREM ReadersFindOneHome == ReadsSpec => []OneHomePerId
BY ReadingChangesNothing, OneHome, PTL

-----------------------------------------------------------------------------
(* traverse                                                                 *)

(* A set of numbers has a least one: the least counterexample of a claim.  *)
LEMMA LeastNat ==
  ASSUME NEW T \in SUBSET Nat, T # {}
  PROVE  \E m \in T : \A n \in T : m <= n
<1> DEFINE Less == {ss \in Nat \X Nat : ss[1] < ss[2]}
<1>1. IsWellFoundedOn(Less, Nat)
  BY NatLessThanWellFounded DEF OpToRel
<1>2. PICK m \in T : \A n \in T : ~(<<n, m>> \in Less)
  BY <1>1, WFMin
<1>3. \A n \in T : ~(n < m)
  BY <1>2
<1>4. QED
  BY <1>3

(* What the argument check of traverse leaves of a call.                   *)
LEMMA TraverseFields ==
  ASSUME NEW q \in Request, q.op = "traverse"
  PROVE  q.from \in Id /\ q.hops \in 1..MaxHops
BY ReadsAssumption DEF RequestType

(* A walk of no edges stays where it is.                                   *)
LEMMA WithinZero ==
  ASSUME NEW E, NEW from \in Id
  PROVE  Within(E, from, 0) = {from}
<1>1. ASSUME NEW m \in Within(E, from, 0) PROVE m = from
  BY <1>1 DEF Within
<1>2. from \in Within(E, from, 0)
  <2> DEFINE p == [j \in 0..0 |-> from]
  <2>1. p \in [0..0 -> Id] /\ p[0] = from /\ \A j \in 1..0 : FALSE
    OBVIOUS
  <2>2. 0 \in 0..0
    OBVIOUS
  <2>3. QED
    BY <2>1, <2>2 DEF Within
<1>3. QED
  BY <1>1, <1>2

(* More edges reach at least as much.                                      *)
LEMMA WithinGrows ==
  ASSUME NEW E, NEW from \in Id, NEW m \in Nat, NEW n \in Nat, m <= n
  PROVE  Within(E, from, m) \subseteq Within(E, from, n)
<1>1. 0..m \subseteq 0..n
  OBVIOUS
<1>2. QED
  BY <1>1 DEF Within

(* One edge more: what was reached, and what it leads to.                  *)
LEMMA WithinStep ==
  ASSUME NEW E \in SUBSET (Id \X Id \X Label), NEW from \in Id, NEW n \in Nat
  PROVE  Within(E, from, n + 1) =
           Within(E, from, n) \cup {e[2] : e \in {d \in E : d[1] \in Within(E, from, n)}}
<1> DEFINE W == Within(E, from, n)
           S == {e[2] : e \in {d \in E : d[1] \in W}}
<1>1. ASSUME NEW m \in Within(E, from, n + 1), m \notin W
      PROVE  m \in S
  <2>1. m \in Id
    BY <1>1 DEF Within
  <2>2. PICK k \in 0..(n + 1) : \E p \in [0..k -> Id] :
           /\ p[0] = from /\ p[k] = m
           /\ \A j \in 1..k : \E e \in E : e[1] = p[j - 1] /\ e[2] = p[j]
    BY <1>1 DEF Within
  <2>3. PICK p \in [0..k -> Id] :
           /\ p[0] = from /\ p[k] = m
           /\ \A j \in 1..k : \E e \in E : e[1] = p[j - 1] /\ e[2] = p[j]
    BY <2>2
  <2>4. k = n + 1
    <3>1. k \notin 0..n
      BY <1>1, <2>1, <2>3 DEF Within
    <3>2. QED
      BY <3>1
  <2>5. PICK e \in E : e[1] = p[n] /\ e[2] = m
    BY <2>3, <2>4
  <2>6. p[n] \in W
    <3> DEFINE r == [j \in 0..n |-> p[j]]
    <3>1. r \in [0..n -> Id] /\ r[0] = from /\ r[n] = p[n]
      BY <2>3, <2>4
    <3>2. \A j \in 1..n : \E d \in E : d[1] = r[j - 1] /\ d[2] = r[j]
      BY <2>3, <2>4
    <3>3. n \in 0..n /\ p[n] \in Id
      BY <2>4
    <3> HIDE DEF r
    <3>4. QED
      BY <3>1, <3>2, <3>3 DEF Within
  <2>7. QED
    BY <2>5, <2>6
<1>2. ASSUME NEW e \in E, e[1] \in W
      PROVE  e[2] \in Within(E, from, n + 1)
  <2>1. e[2] \in Id
    OBVIOUS
  <2>2. PICK k \in 0..n : \E p \in [0..k -> Id] :
           /\ p[0] = from /\ p[k] = e[1]
           /\ \A j \in 1..k : \E d \in E : d[1] = p[j - 1] /\ d[2] = p[j]
    BY <1>2 DEF Within
  <2>3. PICK p \in [0..k -> Id] :
           /\ p[0] = from /\ p[k] = e[1]
           /\ \A j \in 1..k : \E d \in E : d[1] = p[j - 1] /\ d[2] = p[j]
    BY <2>2
  <2> DEFINE r == [j \in 0..(k + 1) |-> IF j <= k THEN p[j] ELSE e[2]]
  <2>4. r \in [0..(k + 1) -> Id] /\ r[k + 1] = e[2] /\ \A i \in 0..k : r[i] = p[i]
    BY <2>1, <2>3
  <2> HIDE DEF r
  <2>5. ASSUME NEW j \in 1..(k + 1)
        PROVE  \E d \in E : d[1] = r[j - 1] /\ d[2] = r[j]
    <3>1. CASE j \in 1..k
      <4>1. PICK d \in E : d[1] = p[j - 1] /\ d[2] = p[j]
        BY <2>3, <3>1
      <4>2. r[j - 1] = p[j - 1] /\ r[j] = p[j]
        BY <2>4, <3>1
      <4>3. QED
        BY <4>1, <4>2
    <3>2. CASE j = k + 1
      <4>1. r[j - 1] = e[1] /\ r[j] = e[2]
        BY <2>3, <2>4, <3>2
      <4>2. QED
        BY <4>1
    <3>3. QED
      BY <3>1, <3>2
  <2>6. k + 1 \in 0..(n + 1) /\ r[0] = from
    BY <2>3, <2>4
  <2>7. QED
    BY <2>1, <2>4, <2>5, <2>6 DEF Within
<1>3. W \subseteq Within(E, from, n + 1)
  BY WithinGrows
<1>4. QED
  BY <1>1, <1>2, <1>3

(* Walks do not leave a set that their edges do not leave.                 *)
LEMMA WithinClosed ==
  ASSUME NEW E, NEW from \in Id, NEW n \in Nat, NEW V, from \in V,
         \A e \in E : e[1] \in V => e[2] \in V
  PROVE  Within(E, from, n) \subseteq V
<1> SUFFICES ASSUME NEW m \in Within(E, from, n), m \notin V PROVE FALSE
  OBVIOUS
<1>1. PICK k \in 0..n : \E p \in [0..k -> Id] :
         /\ p[0] = from /\ p[k] = m
         /\ \A j \in 1..k : \E e \in E : e[1] = p[j - 1] /\ e[2] = p[j]
  BY DEF Within
<1>2. PICK p \in [0..k -> Id] :
         /\ p[0] = from /\ p[k] = m
         /\ \A j \in 1..k : \E e \in E : e[1] = p[j - 1] /\ e[2] = p[j]
  BY <1>1
<1> DEFINE out == {j \in 0..k : p[j] \notin V}
<1>3. out \in SUBSET Nat /\ k \in out
  BY <1>2
<1>4. PICK j \in out : \A i \in out : j <= i
  BY <1>3, LeastNat
<1>5. j \in 1..k
  BY <1>2, <1>4
<1>6. j - 1 \in 0..k /\ j - 1 \notin out
  BY <1>4, <1>5
<1>7. PICK e \in E : e[1] = p[j - 1] /\ e[2] = p[j]
  BY <1>2, <1>5
<1>8. QED
  BY <1>4, <1>6, <1>7

(* A limit that is not reached leaves everything.                          *)
LEMMA UnderLimit ==
  ASSUME NEW S, IsFiniteSet(S), NEW n \in Nat, NEW T \in Limited(S, n), ~(Cardinality(T) >= n)
  PROVE  T = S
<1>1. T \subseteq S /\ Cardinality(T) = SmallerOf(Cardinality(S), n) /\ Cardinality(S) \in Nat
  BY FS_CardinalityType DEF Limited
<1>2. Cardinality(T) = Cardinality(S)
  BY <1>1 DEF SmallerOf
<1>3. QED
  BY <1>1, <1>2, FS_Subset

(* A links table over finitely many pages and labels is finite.            *)
LEMMA FiniteEdges ==
  ASSUME NEW E, E \subseteq Id \X Id \X Label
  PROVE  IsFiniteSet(E)
<1>1. IsFiniteSet(Id \X Id)
  BY ReadsAssumption, FS_Product
<1>2. IsFiniteSet((Id \X Id) \X Label)
  BY <1>1, ReadsAssumption, FS_Product
<1> DEFINE f == [t \in (Id \X Id) \X Label |-> <<t[1][1], t[1][2], t[2]>>]
<1>3. \A e \in Id \X Id \X Label : \E t \in (Id \X Id) \X Label : e = f[t]
  <2> TAKE e \in Id \X Id \X Label
  <2>1. <<<<e[1], e[2]>>, e[3]>> \in (Id \X Id) \X Label
    OBVIOUS
  <2>2. f[<<<<e[1], e[2]>>, e[3]>>] = e
    BY <2>1
  <2>3. QED
    BY <2>1, <2>2
<1>4. f \in Surjection((Id \X Id) \X Label, Id \X Id \X Label)
  <2>1. f \in [(Id \X Id) \X Label -> Id \X Id \X Label]
    OBVIOUS
  <2> HIDE DEF f
  <2>2. QED
    BY <1>3, <2>1 DEF Surjection
<1>5. IsFiniteSet(Id \X Id \X Label)
  BY <1>2, <1>4, FS_Surjection
<1>6. QED
  BY <1>5, FS_Subset

(* While it has not been truncated, the walk has reached what is within    *)
(* `hop` edges, and has looked at the edges of all but the newest level.   *)
Walked ==
    LET E == Labelled(graph) IN
    /\ visited = Within(E, req.from, hop)
    /\ frontier \subseteq visited
    /\ visited \ frontier = IF hop = 0 THEN {} ELSE Within(E, req.from, hop - 1)
    /\ found = {e \in E : e[1] \in visited \ frontier}
    /\ \A e \in E : e[1] \in visited \ frontier => e[2] \in visited

WalkInv ==
    /\ at \notin {"hop", "done"} => hop = 0 /\ found = {} /\ ~truncated
    /\ at = "hop" \/ reply.kind = "walk" =>
          graph \subseteq Id \X Id \X Label /\ hop \in 0..req.hops /\ (~truncated => Walked)
    /\ reply.kind = "walk" => at = "done" /\ (hop = req.hops \/ frontier = {})

(* One level more.                                                         *)
LEMMA OneLevel ==
  ASSUME CallInv, WalkInv, Hop
  PROVE  WalkInv'
<1>1. /\ at = "hop" /\ at' = at /\ req' = req /\ graph' = graph /\ hop' = hop + 1 /\ reply' = reply
      /\ hop < req.hops /\ req.op = "traverse" /\ req \in Request /\ reply = NoReply
  BY ReadsAssumption DEF Hop, CallInv
<1> DEFINE E == Labelled(graph)
           S == {e \in E : e[1] \in frontier}
           reached == {e[2] : e \in S}
<1>2. PICK edges \in Limited(S, HopLimit) :
         /\ found' = found \cup edges
         /\ visited' = visited \cup {e[2] : e \in edges}
         /\ frontier' = {e[2] : e \in edges} \ visited
         /\ truncated' = (truncated \/ Cardinality(edges) >= HopLimit)
  BY DEF Hop
<1>3. req.from \in Id /\ req.hops \in Nat /\ hop \in Nat /\ hop + 1 \in 0..req.hops
  BY <1>1, TraverseFields DEF WalkInv
<1>4. E \subseteq Id \X Id \X Label /\ graph \subseteq Id \X Id \X Label
  BY <1>1 DEF WalkInv, Labelled
<1>5. (~truncated => Walked)'
  <2> SUFFICES ASSUME ~truncated' PROVE Walked'
    OBVIOUS
  <2>1. ~truncated /\ ~(Cardinality(edges) >= HopLimit)
    BY <1>2
  <2>2. edges = S
    <3>1. IsFiniteSet(S)
      BY <1>4, FiniteEdges
    <3>2. HopLimit \in Nat
      BY ReadsAssumption
    <3> HIDE DEF S
    <3>3. QED
      BY <2>1, <3>1, <3>2, UnderLimit
  <2>3. Walked
    BY <1>1, <2>1 DEF WalkInv
  <2>4. /\ visited = Within(E, req.from, hop) /\ frontier \subseteq visited
        /\ found = {e \in E : e[1] \in visited \ frontier}
        /\ \A e \in E : e[1] \in visited \ frontier => e[2] \in visited
    BY <2>3 DEF Walked
  <2>5. visited' = visited \cup {e[2] : e \in {d \in E : d[1] \in visited}}
    BY <1>2, <2>2, <2>4
  <2>6. Within(E, req.from, hop + 1) = Within(E, req.from, hop) \cup {e[2] : e \in {d \in E : d[1] \in Within(E, req.from, hop)}}
    <3> HIDE DEF E
    <3>1. E \in SUBSET (Id \X Id \X Label) /\ req.from \in Id /\ hop \in Nat
      BY <1>3, <1>4
    <3>2. QED
      BY <3>1, WithinStep
  <2>7. visited' = Within(E, req.from, hop + 1)
    BY <2>4, <2>5, <2>6
  <2>8. visited' \ frontier' = visited /\ frontier' \subseteq visited'
    BY <1>2
  <2>9. found' = {e \in E : e[1] \in visited}
    BY <1>2, <2>2, <2>4
  <2>10. \A e \in E : e[1] \in visited => e[2] \in visited'
    BY <2>5
  <2>11. hop' # 0 /\ hop' - 1 = hop
    BY <1>1, <1>3
  <2>12. Labelled(graph)' = E
    BY <1>1 DEF Labelled
  <2>13. Within(Labelled(graph), req.from, hop)' = Within(E, req.from, hop + 1)
    BY <1>1, <2>12
  <2>14. Within(Labelled(graph), req.from, hop - 1)' = Within(E, req.from, hop)
    BY <1>1, <2>11, <2>12
  <2> HIDE DEF E
  <2>15. QED
    BY <2>4, <2>7, <2>8, <2>9, <2>10, <2>11, <2>12, <2>13, <2>14 DEF Walked
<1>6. QED
  BY <1>1, <1>3, <1>4, <1>5 DEF WalkInv, NoReply

(* So it goes on, step by step.                                            *)
LEMMA WalkInvHolds == ReadsSpec => []WalkInv
<1> USE ReadsAssumption
<1>1. ReadsInit => WalkInv
  BY DEF ReadsInit, WalkInv, NoReply
<1>2. CallInv /\ FilesTypeOK /\ WalkInv /\ [ReadsNext]_readsVars => WalkInv'
  <2> SUFFICES ASSUME CallInv, FilesTypeOK, WalkInv, [ReadsNext]_readsVars
               PROVE  WalkInv'
    OBVIOUS
  <2>1. ASSUME UNCHANGED <<req, at, walkVars, reply>>
        PROVE  WalkInv'
    BY <2>1 DEF WalkInv, walkVars, Walked, Labelled
  <2>2. CASE UNCHANGED readsVars \/ WriterStep
    BY <2>1, <2>2 DEF readsVars, readerVars, WriterStep
  <2>3. ASSUME at \notin {"hop", "done"}, at' # "hop", UNCHANGED walkVars, reply'.kind # "walk"
        PROVE  WalkInv'
    BY <2>3 DEF WalkInv, walkVars
  <2>4. ASSUME NEW q \in Request, Ask(q)
        PROVE  WalkInv'
    <3>1. at = "idle" /\ UNCHANGED walkVars /\ reply' = NoReply
      BY <2>4 DEF Ask, CallInv
    <3>2. at' \in {"exact", "alias", "open"}
      BY <2>4 DEF Ask
    <3>3. QED
      BY <2>3, <3>1, <3>2 DEF NoReply
  <2>5. CASE ReadExact \/ ReadAlias \/ ReadFuzzy \/ ReadCanon
    <3>1. at \notin {"hop", "done"} /\ at' # "hop" /\ UNCHANGED walkVars
      BY <2>5 DEF ReadExact, ReadAlias, ReadFuzzy, ReadCanon, Querying, Follow, Answer
    <3>2. reply'.kind # "walk"
      BY <2>5, <3>1 DEF ReadExact, ReadAlias, ReadFuzzy, ReadCanon, Querying, Follow, Answer, Page, NotFound, Matches,
                        CallInv, NoReply
    <3>3. QED
      BY <2>3, <3>1, <3>2
  <2>6. CASE OpenGraph
    <3>1. /\ at' = "hop" /\ graph' = links /\ visited' = {req.from} /\ frontier' = {req.from}
          /\ found' = found /\ hop' = hop /\ truncated' = truncated /\ reply' = NoReply /\ req' = req
          /\ at = "open" /\ req.op = "traverse" /\ req \in Request
      BY <2>6 DEF OpenGraph, CallInv
    <3>2. hop = 0 /\ found = {} /\ ~truncated
      BY <3>1 DEF WalkInv
    <3>3. req.from \in Id /\ 0 \in 0..req.hops
      BY <3>1, TraverseFields
    <3>4. Within(Labelled(graph), req.from, hop)' = {req.from}
      BY <3>1, <3>2, <3>3, WithinZero
    <3>5. Walked'
      BY <3>1, <3>2, <3>4 DEF Walked
    <3>6. QED
      BY <3>1, <3>2, <3>3, <3>5 DEF WalkInv, FilesTypeOK, NoReply
  <2>7. CASE Hop
    BY <2>7, OneLevel
  <2>8. CASE EndWalk
    <3>1. UNCHANGED <<req, walkVars>> /\ at = "hop" /\ at' = "done" /\ (hop = req.hops \/ frontier = {})
      BY <2>8 DEF EndWalk, Answer
    <3>2. Walked => Walked'
      BY <3>1 DEF Walked, Labelled, walkVars
    <3>3. QED
      BY <3>1, <3>2 DEF WalkInv, walkVars
  <2>9. CASE IncomingLinks \/ ListPages \/ ListDomains
    BY <2>3, <2>9, OneStepTools
  <2>10. CASE OpenSearch \/ RankVectors \/ MatchAliases
    BY <2>3, <2>10 DEF OpenSearch, RankVectors, MatchAliases, Querying, CallInv, NoReply
  <2>11. CASE Hydrate
    BY <2>3, <2>11 DEF Hydrate, Answer, Listed
  <2>12. CASE Neighbours
    <3>1. at = "open" /\ UNCHANGED walkVars /\ reply = NoReply
      BY <2>12 DEF Neighbours, CallInv
    <3>2. \/ at' = "meta" /\ reply' = reply
          \/ at' = "done" /\ reply' = NotFound(req.source)
      <4>1. CASE \E e \in embs : e.id = req.source
        <5>1. \E ranked \in Orders({e \in embs : e.id # req.source}) :
                 /\ lists' = <<First(IdsOf(ranked), Depth)>>
                 /\ at' = "meta"
                 /\ UNCHANGED reply
          BY <2>12, <4>1, Zenon DEF Neighbours
        <5>2. QED
          BY <5>1
      <4>2. CASE ~ \E e \in embs : e.id = req.source
        BY <2>12, <4>2, Zenon DEF Neighbours, Answer
      <4>3. QED
        BY <4>1, <4>2
    <3>3. QED
      BY <2>3, <3>1, <3>2 DEF NotFound, NoReply
  <2>13. CASE SimilarPages
    BY <2>3, <2>13 DEF SimilarPages, Querying, Answer, Listed
  <2>14. CASE Raise
    <3>1. at' = "done" /\ reply'.kind = "raised"
      BY <2>14 DEF Raise, Answer
    <3>2. QED
      BY <3>1 DEF WalkInv
  <2>15. CASE Deliver
    BY <2>15 DEF Deliver, WalkInv, NoReply
  <2>16. QED
    BY <2>2, <2>4, <2>5, <2>6, <2>7, <2>8, <2>9, <2>10, <2>11, <2>12, <2>13, <2>14, <2>15 DEF ReadsNext, ReaderStep
<1>3. QED
  BY <1>1, <1>2, CallInvHolds, ReadingChangesNothing, FilesTypeCorrect, PTL DEF ReadsSpec

(* The walk of traverse, unless it says it was truncated, finds what is    *)
(* within `hops` edges, in any graph: with cycles, with pages that link to *)
(* themselves, over one label.                                             *)
THEOREM TraverseIsBoundedReach == ReadsSpec => []TraverseIsReachability
<1>1. CallInv /\ WalkInv => TraverseIsReachability
  <2> SUFFICES ASSUME CallInv, WalkInv, at = "done", reply.kind = "walk", ~truncated
               PROVE  LET E == Labelled(graph) IN
                      /\ visited = Within(E, req.from, req.hops)
                      /\ found = {e \in E : e[1] \in Within(E, req.from, req.hops - 1)}
    BY DEF TraverseIsReachability
  <2> DEFINE E == Labelled(graph)
  <2>1. Walked /\ hop \in 0..req.hops /\ (hop = req.hops \/ frontier = {})
    BY DEF WalkInv
  <2>2. req \in Request /\ req.op = "traverse"
    BY DEF CallInv
  <2>3. req.from \in Id /\ req.hops \in 1..MaxHops /\ req.hops \in Nat /\ req.hops - 1 \in Nat
    BY <2>2, TraverseFields
  <2>4. CASE hop = req.hops
    <3>1. hop # 0
      BY <2>3, <2>4
    <3>2. QED
      BY <2>1, <2>4, <3>1 DEF Walked
  <2>5. CASE frontier = {} /\ hop < req.hops
    <3>1. /\ visited = Within(E, req.from, hop)
          /\ found = {e \in E : e[1] \in visited}
          /\ \A e \in E : e[1] \in visited => e[2] \in visited
      BY <2>1, <2>5 DEF Walked
    <3> HIDE DEF E
    <3>2. hop \in Nat /\ hop <= req.hops - 1 /\ hop <= req.hops
      BY <2>1, <2>3, <2>5
    <3>3. req.from \in visited
      <4>1. req.from \in Within(E, req.from, 0)
        BY <2>3, WithinZero
      <4>2. 0 \in Nat /\ 0 <= hop
        BY <3>2
      <4>3. QED
        BY <2>3, <3>1, <3>2, <4>1, <4>2, WithinGrows
    <3>4. Within(E, req.from, req.hops) \subseteq visited /\ Within(E, req.from, req.hops - 1) \subseteq visited
      BY <2>3, <3>1, <3>3, WithinClosed
    <3>5. visited \subseteq Within(E, req.from, req.hops) /\ visited \subseteq Within(E, req.from, req.hops - 1)
      BY <2>3, <3>1, <3>2, WithinGrows
    <3>6. visited = Within(E, req.from, req.hops) /\ visited = Within(E, req.from, req.hops - 1)
      BY <3>4, <3>5
    <3>7. QED
      BY <3>1, <3>6 DEF E
  <2>6. QED
    BY <2>1, <2>3, <2>4, <2>5
<1>2. QED
  BY <1>1, CallInvHolds, WalkInvHolds, PTL

-----------------------------------------------------------------------------
(* list_pages                                                               *)

(* A list that is shorter than its limit, and does not say it is truncated,*)
(* is every page that passes: whatever rows the store left out.  A list    *)
(* without filters does not say so when its limit is above the cap.        *)
THEOREM ListIsComplete ==
  ASSUME NEW rows, IsFiniteSet(rows), NEW q, q.limit \in Nat, NEW a \in ListAnswers(rows, q),
         q.filters = NoFilters => q.limit <= FetchCap,
         ~a.truncated, ~(Cardinality(a.listed) >= q.limit)
  PROVE  a.listed = Passing(Where(rows, q), q.filters)
<1>1. PICK fetched \in Limited(Where(rows, q), FetchLimit(q)) :
         \E out \in Limited(Passing(fetched, q.filters), q.limit) :
            a = [listed |-> out,
                 truncated |-> /\ q.filters # NoFilters
                               /\ Cardinality(fetched) >= FetchLimit(q)
                               /\ Cardinality(out) < q.limit]
  BY DEF ListAnswers
<1>2. PICK out \in Limited(Passing(fetched, q.filters), q.limit) :
         a = [listed |-> out,
              truncated |-> /\ q.filters # NoFilters
                            /\ Cardinality(fetched) >= FetchLimit(q)
                            /\ Cardinality(out) < q.limit]
  BY <1>1
<1>3. a.listed = out /\ ~(Cardinality(out) >= q.limit)
  BY <1>2
<1>4. FetchLimit(q) \in Nat /\ (q.filters = NoFilters => FetchLimit(q) = q.limit)
  <2>1. q.limit * ListSpread \in Nat
    BY AnswersAssumption
  <2>2. LargerOf(q.limit * ListSpread, ListFloor) \in Nat
    BY <2>1, AnswersAssumption DEF LargerOf
  <2>3. QED
    BY <2>2, AnswersAssumption DEF FetchLimit, SmallerOf
<1>5. IsFiniteSet(Where(rows, q)) /\ fetched \subseteq Where(rows, q) /\ IsFiniteSet(fetched)
      /\ IsFiniteSet(Passing(fetched, q.filters))
  <2>1. Where(rows, q) \subseteq rows /\ fetched \subseteq Where(rows, q) /\ Passing(fetched, q.filters) \subseteq fetched
    BY DEF Where, Limited, Passing
  <2>2. QED
    BY <2>1, FS_Subset
<1>6. out = Passing(fetched, q.filters)
  BY <1>3, <1>5, UnderLimit
<1>7. ~(Cardinality(fetched) >= FetchLimit(q))
  <2>1. CASE q.filters = NoFilters
    <3>1. Passing(fetched, q.filters) = fetched
      BY <2>1 DEF Passing, Passes, NoFilters
    <3>2. QED
      BY <1>3, <1>4, <1>6, <2>1, <3>1
  <2>2. CASE q.filters # NoFilters
    <3>1. Cardinality(out) \in Nat
      BY <1>5, <1>6, FS_CardinalityType
    <3>2. ~(Cardinality(fetched) >= FetchLimit(q) /\ Cardinality(out) < q.limit)
      BY <1>2, <2>2
    <3>3. QED
      BY <1>3, <3>1, <3>2
  <2>3. QED
    BY <2>1, <2>2
<1>8. fetched = Where(rows, q)
  BY <1>4, <1>5, <1>7, UnderLimit
<1>9. QED
  BY <1>3, <1>6, <1>8

-----------------------------------------------------------------------------
(* Finite tables                                                            *)

(* What a function makes of a finite set is no larger.                     *)
LEMMA FiniteImage ==
  ASSUME NEW S, IsFiniteSet(S), NEW g
  PROVE  IsFiniteSet({g[s] : s \in S}) /\ Cardinality({g[s] : s \in S}) <= Cardinality(S)
<1> DEFINE h == [s \in S |-> g[s]]
           T == {g[s] : s \in S}
<1>1. h \in Surjection(S, T)
  BY DEF Surjection
<1> HIDE DEF h, T
<1>2. QED
  BY <1>1, FS_Surjection DEF T

(* There are finitely many places for pages.                               *)
LEMMA FinitePath == IsFiniteSet(Path)
<1> DEFINE g == [u \in PageType \X Id |-> Target(u[1], u[2])]
           T == {g[u] : u \in PageType \X Id}
<1>1. IsFiniteSet(PageType \X Id)
  BY ReadsAssumption, FS_Product
<1>2. IsFiniteSet(T)
  <2> HIDE DEF g
  <2>1. QED
    BY <1>1, FiniteImage
<1>3. \A t \in PageType, i \in Id : <<t, i>> \in PageType \X Id /\ g[<<t, i>>] = Target(t, i)
  OBVIOUS
<1>4. Path \subseteq T
  <2>1. ASSUME NEW t \in PageType, NEW i \in Id
        PROVE  Target(t, i) \in T
    <3> HIDE DEF g
    <3>1. <<t, i>> \in PageType \X Id /\ g[<<t, i>>] = Target(t, i)
      BY <1>3
    <3>2. g[<<t, i>>] \in T
      BY <3>1
    <3>3. QED
      BY <3>1, <3>2
  <2> HIDE DEF T
  <2>2. QED
    BY <2>1 DEF Path
<1>5. QED
  BY <1>2, <1>4, FS_Subset

(* The rows of finitely many files are finitely many.                      *)
LEMMA FiniteRows ==
  ASSUME NEW F, F \subseteq Path
  PROVE  IsFiniteSet({RowOf(disk[p], p) : p \in F})
<1> DEFINE g == [p \in F |-> RowOf(disk[p], p)]
<1>1. IsFiniteSet(F)
  BY FinitePath, FS_Subset
<1>2. {RowOf(disk[p], p) : p \in F} = {g[p] : p \in F}
  OBVIOUS
<1> HIDE DEF g
<1>3. QED
  BY <1>1, <1>2, FiniteImage

\* A commit that carries finitely many rows.
FiniteCommit == {c \in Commit : c.do \in {"index", "embed", "relink"} => IsFiniteSet(c.rows)}

(* The tables are finite: their rows come from files, and there are as many*)
(* files at most as places.                                                *)
FiniteInv ==
    /\ IsFiniteSet(pages) /\ IsFiniteSet(embs)
    /\ plan \in Seq(FiniteCommit)

(* The pieces of plans carry finitely many rows.                           *)
LEMMA FinitePieces ==
  /\ \A i \in Id, c \in Content, p \in Path : Write(i, c, p) \in Seq(FiniteCommit)
  /\ \A R \in SUBSET Row : IsFiniteSet(R) => Relink(R) \in Seq(FiniteCommit)
                                             /\ Project(R) \in Seq(FiniteCommit)
  /\ \A I \in SUBSET Id : Sweep(I) \in Seq(FiniteCommit)
<1>1. ASSUME NEW i \in Id, NEW c \in Content, NEW p \in Path
      PROVE  Write(i, c, p) \in Seq(FiniteCommit)
  <2>1. [do |-> "file", id |-> i, path |-> p, to |-> c] \in FiniteCommit
    BY DEF Commit, FiniteCommit
  <2>2. [do |-> "pass"] \in FiniteCommit
    BY DEF Commit, FiniteCommit
  <2>3. QED
    BY <2>1, <2>2 DEF Write
<1>2. ASSUME NEW R \in SUBSET Row, IsFiniteSet(R)
      PROVE  Relink(R) \in Seq(FiniteCommit)
  <2>1. [do |-> "relink", rows |-> R] \in FiniteCommit
    BY <1>2 DEF Commit, FiniteCommit
  <2>2. QED
    BY <2>1 DEF Relink
<1>3. ASSUME NEW R \in SUBSET Row, IsFiniteSet(R)
      PROVE  Project(R) \in Seq(FiniteCommit)
  <2>1. [do |-> "index", rows |-> R] \in FiniteCommit /\ [do |-> "embed", rows |-> R] \in FiniteCommit
    BY <1>3 DEF Commit, FiniteCommit
  <2>2. <<[do |-> "index", rows |-> R], [do |-> "embed", rows |-> R]>> \in Seq(FiniteCommit)
    BY <2>1
  <2>3. QED
    BY <1>2, <1>3, <2>2 DEF Project
<1>4. ASSUME NEW I \in SUBSET Id
      PROVE  Sweep(I) \in Seq(FiniteCommit)
  <2>1. [do |-> "sweep", ids |-> I] \in FiniteCommit
    BY DEF Commit, FiniteCommit
  <2>2. QED
    BY <2>1 DEF Sweep
<1>5. QED
  BY <1>1, <1>2, <1>3, <1>4

(* A corpus of one page per id is finite, and so are the tables indexed    *)
(* from it.                                                                *)
LEMMA FiniteCorpus ==
  /\ IsFiniteSet({RowOf(c, Home(c)) : c \in Corpus})
  /\ IsFiniteSet({[id |-> c.id, ver |-> c.ver] : c \in Corpus})
<1> DEFINE k == [c \in Corpus |-> c.id]
           g == [c \in Corpus |-> RowOf(c, Home(c))]
           h == [c \in Corpus |-> [id |-> c.id, ver |-> c.ver]]
<1>1. k \in Injection(Corpus, Id)
  BY CorpusAssumption DEF Injection, IsInjective, Content
<1>2. IsFiniteSet(Corpus)
  <2> HIDE DEF k
  <2>1. QED
    BY <1>1, ReadsAssumption, FS_Injection
<1>3. /\ {RowOf(c, Home(c)) : c \in Corpus} = {g[c] : c \in Corpus}
      /\ {[id |-> c.id, ver |-> c.ver] : c \in Corpus} = {h[c] : c \in Corpus}
  OBVIOUS
<1> HIDE DEF g, h
<1>4. IsFiniteSet({g[c] : c \in Corpus})
  BY <1>2, FiniteImage
<1>5. IsFiniteSet({h[c] : c \in Corpus})
  BY <1>2, FiniteImage
<1>6. QED
  BY <1>3, <1>4, <1>5

(* The tables stay finite.                                                 *)
LEMMA TablesAreFinite == FilesSpec => []FiniteInv
<1> USE FilesAssumption, CorpusAssumption
<1>1. FilesInit => FiniteInv
  BY FiniteCorpus DEF FilesInit, FiniteInv
<1>2. FilesTypeOK /\ FiniteInv /\ [FilesNext]_filesVars => FiniteInv'
  <2> SUFFICES ASSUME FilesTypeOK, FiniteInv, [FilesNext]_filesVars PROVE FiniteInv'
    OBVIOUS
  <2> USE DEF FiniteInv
  <2>1. CASE UNCHANGED filesVars
    BY <2>1 DEF filesVars
  <2>2. ASSUME NEW commits \in Seq(FiniteCommit), Call(commits)
        PROVE  FiniteInv'
    BY <2>2 DEF Call
  <2>3. ASSUME NEW c \in Input, CreatePage(c) \/ UpsertSection(c) \/ UpdatePage(c)
        PROVE  FiniteInv'
    <3>1. c \in Content /\ c.id \in Id
      BY DEF Content
    <3>2. Write(c.id, c, Home(c)) \in Seq(FiniteCommit)
      BY <3>1, RowsOfFiles, FinitePieces
    <3>3. WritePage(c)
      BY <2>3 DEF CreatePage, UpsertSection, UpdatePage
    <3>4. QED
      BY <2>2, <3>2, <3>3 DEF WritePage
  <2>4. ASSUME NEW r \in pages, NEW v \in Version, EditPage(r, v)
        PROVE  FiniteInv'
    <3>1. r.id \in Id /\ r.path \in Path
      BY DEF FilesTypeOK, Row
    <3>2. disk[r.path] \in Content
      BY <2>4, <3>1 DEF EditPage, FilesTypeOK
    <3>3. [disk[r.path] EXCEPT !.ver = v] \in Content
      BY <3>2 DEF Content
    <3>4. Write(r.id, [disk[r.path] EXCEPT !.ver = v], r.path) \in Seq(FiniteCommit)
      BY <3>1, <3>3, FinitePieces
    <3>5. QED
      BY <2>2, <2>4, <3>4 DEF EditPage
  <2>5. ASSUME NEW r \in pages, RemovePage(r)
        PROVE  FiniteInv'
    <3> DEFINE i == r.id
    <3>1. i \in Id /\ r.path \in Path
      BY DEF FilesTypeOK, Row
    <3>2. /\ [do |-> "unindex", id |-> i] \in FiniteCommit
          /\ [do |-> "unembed", id |-> i] \in FiniteCommit
          /\ [do |-> "unlink", id |-> i] \in FiniteCommit
          /\ [do |-> "unlinkTo", id |-> i] \in FiniteCommit
          /\ [do |-> "file", id |-> i, path |-> r.path, to |-> Absent] \in FiniteCommit
      BY <3>1 DEF Commit, FiniteCommit
    <3>3. <<[do |-> "unindex", id |-> i], [do |-> "unembed", id |-> i],
            [do |-> "unlink", id |-> i], [do |-> "unlinkTo", id |-> i],
            [do |-> "file", id |-> i, path |-> r.path, to |-> Absent]>> \in Seq(FiniteCommit)
      BY <3>2
    <3>4. QED
      BY <2>2, <2>5, <3>3 DEF RemovePage
  <2>6. ASSUME NEW i \in Id, NEW p \in Path, ReindexPage(i, p)
        PROVE  FiniteInv'
    <3>1. disk[p] \in Content
      BY <2>6 DEF ReindexPage, Files, FilesTypeOK
    <3>2. {RowOf(disk[p], p)} \in SUBSET Row
      BY <3>1, RowsOfFiles
    <3>3. Project({RowOf(disk[p], p)}) \in Seq(FiniteCommit)
      BY <3>2, FinitePieces, FS_Singleton
    <3>4. QED
      BY <2>2, <2>6, <3>3 DEF ReindexPage
  <2>7. CASE ReindexAll
    <3>1. /\ \A T \in Table : [do |-> "drop", table |-> T] \in FiniteCommit
          /\ [do |-> "ensure"] \in FiniteCommit /\ [do |-> "rebuild"] \in FiniteCommit
      BY DEF Commit, FiniteCommit
    <3>2. <<[do |-> "drop", table |-> "pages"], [do |-> "drop", table |-> "embeddings"],
            [do |-> "drop", table |-> "links"], [do |-> "ensure"], [do |-> "rebuild"]>>
              \in Seq(FiniteCommit)
      BY <3>1 DEF Table
    <3>3. QED
      BY <2>2, <2>7, <3>2 DEF ReindexAll
  <2>8. ASSUME NEW commits \in Seq(FiniteCommit), Done(commits), plan # <<>>,
               IsFiniteSet(pages'), IsFiniteSet(embs')
        PROVE  FiniteInv'
    BY <2>8, Spliced DEF Done
  <2>9. plan # <<>> => Head(plan) \in Commit /\ Head(plan) \in FiniteCommit
    BY DEF FiniteCommit
  <2>10. <<>> \in Seq(FiniteCommit)
    OBVIOUS
  <2>11. CASE CommitFile \/ CommitLinks \/ CommitEnsure
    BY <2>8, <2>10, <2>11 DEF CommitFile, CommitLinks, CommitEnsure, Now, Quietly
  <2>12. CASE CommitDelete
    <3>1. pages' \subseteq pages /\ embs' \subseteq embs
      BY <2>12 DEF CommitDelete
    <3>2. IsFiniteSet(pages') /\ IsFiniteSet(embs')
      BY <3>1, FS_Subset
    <3>3. QED
      BY <2>8, <2>10, <2>12, <3>2 DEF CommitDelete, Now, Quietly
  <2>13. CASE NextSwept
    <3>1. Head(plan).ids \in SUBSET Id
      BY <2>9, <2>13, CommitFields DEF NextSwept, Now
    <3>2. PICK i \in Head(plan).ids :
             Quietly(<<[do |-> "unindex", id |-> i], [do |-> "unembed", id |-> i], [do |-> "unlink", id |-> i]>>
                     \o Sweep(Head(plan).ids \ {i}))
      BY <2>13 DEF NextSwept
    <3>3. /\ [do |-> "unindex", id |-> i] \in FiniteCommit
          /\ [do |-> "unembed", id |-> i] \in FiniteCommit
          /\ [do |-> "unlink", id |-> i] \in FiniteCommit
      BY <3>1 DEF Commit, FiniteCommit
    <3>4. Sweep(Head(plan).ids \ {i}) \in Seq(FiniteCommit)
      BY <3>1, FinitePieces
    <3>5. <<[do |-> "unindex", id |-> i], [do |-> "unembed", id |-> i], [do |-> "unlink", id |-> i]>>
            \in Seq(FiniteCommit)
      BY <3>3
    <3>6. <<[do |-> "unindex", id |-> i], [do |-> "unembed", id |-> i], [do |-> "unlink", id |-> i]>>
             \o Sweep(Head(plan).ids \ {i}) \in Seq(FiniteCommit)
      BY <3>4, <3>5
    <3>7. QED
      BY <2>8, <2>13, <3>2, <3>6 DEF NextSwept, Now, Quietly
  <2>14. CASE NextRelinked
    <3>1. Head(plan).rows \in SUBSET Row /\ IsFiniteSet(Head(plan).rows)
      BY <2>9, <2>14, CommitFields DEF NextRelinked, Now, FiniteCommit
    <3>2. PICK r \in Head(plan).rows :
             Quietly(<<[do |-> "unlink", id |-> r.id], [do |-> "link", row |-> r]>>
                     \o Relink(Head(plan).rows \ {r}))
      BY <2>14 DEF NextRelinked
    <3>3. [do |-> "unlink", id |-> r.id] \in FiniteCommit /\ [do |-> "link", row |-> r] \in FiniteCommit
      BY <3>1 DEF Commit, FiniteCommit, Row
    <3>4. Relink(Head(plan).rows \ {r}) \in Seq(FiniteCommit)
      BY <3>1, FinitePieces, FS_RemoveElement
    <3>5. <<[do |-> "unlink", id |-> r.id], [do |-> "link", row |-> r]>> \in Seq(FiniteCommit)
      BY <3>3
    <3>6. <<[do |-> "unlink", id |-> r.id], [do |-> "link", row |-> r]>>
             \o Relink(Head(plan).rows \ {r}) \in Seq(FiniteCommit)
      BY <3>4, <3>5
    <3>7. QED
      BY <2>8, <2>14, <3>2, <3>6 DEF NextRelinked, Now, Quietly
  <2>15. CASE CommitIndex
    <3>1. IsFiniteSet(Head(plan).rows)
      BY <2>9, <2>15 DEF CommitIndex, Now, FiniteCommit
    <3>2. IsFiniteSet(pages \cup Head(plan).rows)
      BY <3>1, FS_Union
    <3>3. pages' \subseteq pages \cup Head(plan).rows
      BY <2>15, MergedRows DEF CommitIndex
    <3>4. IsFiniteSet(pages') /\ embs' = embs
      BY <2>15, <3>2, <3>3, FS_Subset DEF CommitIndex
    <3>5. QED
      BY <2>8, <2>10, <2>15, <3>4 DEF CommitIndex, Now, Quietly
  <2>16. CASE CommitEmbed
    <3> DEFINE new == {[id |-> r.id, ver |-> r.ver] : r \in Head(plan).rows}
               g == [r \in Head(plan).rows |-> [id |-> r.id, ver |-> r.ver]]
    <3>1. IsFiniteSet(Head(plan).rows)
      BY <2>9, <2>16 DEF CommitEmbed, Now, FiniteCommit
    <3>2. new = {g[r] : r \in Head(plan).rows}
      OBVIOUS
    <3>3. IsFiniteSet(new)
      <4> HIDE DEF g, new
      <4>1. QED
        BY <3>1, <3>2, FiniteImage
    <3>4. embs' \subseteq embs \cup new
      BY <2>16, MergedRows DEF CommitEmbed
    <3>5. IsFiniteSet(embs \cup new)
      BY <3>3, FS_Union
    <3>6. IsFiniteSet(embs') /\ pages' = pages
      BY <2>16, <3>4, <3>5, FS_Subset DEF CommitEmbed
    <3>7. QED
      BY <2>8, <2>10, <2>16, <3>6 DEF CommitEmbed, Now, Quietly
  <2>17. CASE CommitDrop
    <3>1. pages' \subseteq pages /\ embs' \subseteq embs
      BY <2>17 DEF CommitDrop
    <3>2. IsFiniteSet(pages') /\ IsFiniteSet(embs')
      BY <3>1, FS_Subset
    <3>3. QED
      BY <2>8, <2>10, <2>17, <3>2 DEF CommitDrop, Now, Quietly
  <2>18. CASE CommitPass
    <3>1. PICK hash \in HashOf :
             LET seen == {disk[p].id : p \in Files}
                 toIndex == {p \in Files : disk[p].id \in DOMAIN hash => ~Holds(hash[disk[p].id], p)}
             IN  Quietly(Sweep(DOMAIN hash \ seen) \o Project({RowOf(disk[p], p) : p \in toIndex}))
      BY <2>18 DEF CommitPass
    <3> DEFINE seen == {disk[p].id : p \in Files}
               toIndex == {p \in Files : disk[p].id \in DOMAIN hash => ~Holds(hash[disk[p].id], p)}
    <3>2. DOMAIN hash \ seen \in SUBSET Id
      BY DEF HashOf, Row, FilesTypeOK
    <3>3. {RowOf(disk[p], p) : p \in toIndex} \in SUBSET Row
      BY RowsOfFiles DEF Files, FilesTypeOK
    <3>4. toIndex \subseteq Path
      BY DEF Files
    <3>5. IsFiniteSet({RowOf(disk[p], p) : p \in toIndex})
      BY <3>4, FiniteRows
    <3>6. Sweep(DOMAIN hash \ seen) \o Project({RowOf(disk[p], p) : p \in toIndex}) \in Seq(FiniteCommit)
      BY <3>2, <3>3, <3>5, FinitePieces
    <3>7. QED
      BY <2>8, <2>18, <3>1, <3>6 DEF CommitPass, Now, Quietly
  <2>19. CASE CommitRebuild
    <3>1. {RowOf(disk[p], p) : p \in Files} \in SUBSET Row
      BY RowsOfFiles DEF Files, FilesTypeOK
    <3>2. IsFiniteSet({RowOf(disk[p], p) : p \in Files})
      BY FiniteRows DEF Files
    <3>3. Project({RowOf(disk[p], p) : p \in Files}) \in Seq(FiniteCommit)
      BY <3>1, <3>2, FinitePieces
    <3>4. QED
      BY <2>8, <2>19, <3>3 DEF CommitRebuild, Now, Quietly
  <2>20. CASE Cut
    BY <2>10, <2>20 DEF Cut
  <2>21. ASSUME NEW m \in Move, NEW keep \in BOOLEAN, HandMove(m[1], m[2], keep)
         PROVE  FiniteInv'
    BY <2>21 DEF HandMove
  <2>22. QED
    BY <2>1, <2>3, <2>4, <2>5, <2>6, <2>7, <2>11, <2>12, <2>13, <2>14, <2>15, <2>16, <2>17,
       <2>18, <2>19, <2>20, <2>21 DEF FilesNext, WriterCommits
<1>3. QED
  BY <1>1, <1>2, FilesTypeCorrect, PTL DEF FilesSpec

-----------------------------------------------------------------------------
(* read_page and find_by_alias                                              *)

\* What m is, when it is what the argument led to by an alias, or by likeness:
\* as of one table that there was since the call began.
NotById == req.op = "read" => \E rows \in moments : ~HasId(rows, req.arg)
ByAlias(m) ==
    /\ \E rows \in moments : m \in SUBSET rows /\ AllOrFull(m, Carrying(rows, req.arg))
    /\ m = {} => ~req.fuzzy
ByLikeness(m) ==
    /\ req.fuzzy
    /\ \E rows \in moments : Carrying(rows, req.arg) = {}
    /\ \E rows \in moments : m \in SUBSET rows /\ AllOrUnscanned(m, Resembling(rows, req.arg), rows)
Led(m) == NotById /\ (ByAlias(m) \/ ByLikeness(m))

(* At every step of a lookup, what rules out the means already tried, and  *)
(* where the page comes from that it is about to read.                     *)
LookupInv ==
    IsLookup =>
        /\ at # "done" => pages \in moments
        /\ at \in {"alias", "fuzzy"} => NotById
        /\ at = "fuzzy" => req.fuzzy /\ \E rows \in moments : Carrying(rows, req.arg) = {}
        /\ at = "canon" => \E rows \in moments : \E r \in rows : r.id = canon /\ Led({r})
        /\ at = "done" => LookupIsHonest

(* What a query for an alias fetches is all of it, or as much as it may.   *)
LEMMA AliasesFetched ==
  ASSUME NEW rows, IsFiniteSet(rows), NEW a, NEW m \in FindAlias(rows, a)
  PROVE  m \in SUBSET rows /\ AllOrFull(m, Carrying(rows, a))
         /\ (m = {} => Carrying(rows, a) = {})
<1>1. m \subseteq Carrying(rows, a) /\ Cardinality(m) = SmallerOf(Cardinality(Carrying(rows, a)), FetchCap)
  BY DEF FindAlias, Limited
<1>2. Carrying(rows, a) \subseteq rows
  BY DEF Carrying
<1>3. IsFiniteSet(Carrying(rows, a)) /\ IsFiniteSet(m) /\ Cardinality(Carrying(rows, a)) \in Nat
  BY <1>1, <1>2, FS_Subset, FS_CardinalityType
<1>4. CASE Cardinality(Carrying(rows, a)) <= FetchCap
  <2>1. Cardinality(m) = Cardinality(Carrying(rows, a))
    BY <1>1, <1>4 DEF SmallerOf
  <2>2. m = Carrying(rows, a)
    BY <1>1, <1>3, <2>1, FS_Subset
  <2>3. QED
    BY <1>2, <2>2 DEF AllOrFull
<1>5. CASE ~(Cardinality(Carrying(rows, a)) <= FetchCap)
  <2>1. Cardinality(m) = FetchCap /\ FetchCap # 0
    BY <1>1, <1>5, AnswersAssumption DEF SmallerOf
  <2>2. m # {}
    BY <2>1, FS_EmptySet
  <2>3. QED
    BY <1>1, <1>2, <2>1, <2>2 DEF AllOrFull
<1>6. QED
  BY <1>4, <1>5

(* What a scan comes upon is all that is alike, or there are rows it did   *)
(* not get to.                                                             *)
LEMMA AliasesScanned ==
  ASSUME NEW rows, IsFiniteSet(rows), NEW a, NEW m \in FindFuzzy(rows, a)
  PROVE  m \in SUBSET rows /\ AllOrUnscanned(m, Resembling(rows, a), rows)
<1>1. PICK scanned \in Limited(rows, FetchCap) : m = Resembling(scanned, a)
  BY DEF FindFuzzy
<1>2. scanned \subseteq rows /\ Cardinality(scanned) = SmallerOf(Cardinality(rows), FetchCap)
  BY DEF Limited
<1>3. m \subseteq Resembling(rows, a) /\ m \subseteq rows
  BY <1>1, <1>2 DEF Resembling
<1>4. CASE Cardinality(rows) <= FetchCap
  <2>1. scanned = rows
    <3>1. Cardinality(scanned) = Cardinality(rows)
      BY <1>2, <1>4 DEF SmallerOf
    <3>2. QED
      BY <1>2, <3>1, FS_Subset
  <2>2. QED
    BY <1>1, <1>3, <2>1 DEF AllOrUnscanned
<1>5. CASE ~(Cardinality(rows) <= FetchCap)
  <2>1. Cardinality(rows) \in Nat /\ FetchCap \in Nat
    BY FS_CardinalityType, AnswersAssumption
  <2>2. QED
    BY <1>3, <1>5, <2>1 DEF AllOrUnscanned
<1>6. QED
  BY <1>4, <1>5

(* What an argument led to, it led to for the rest of the call.            *)
LEMMA LedStays ==
  ASSUME req' = req, moments \subseteq moments'
  PROVE  /\ NotById => NotById'
         /\ (\E rows \in moments : Carrying(rows, req.arg) = {})
              => (\E rows \in moments : Carrying(rows, req.arg) = {})'
         /\ \A m : Led(m) => Led(m)'
<1>1. NotById => NotById'
  BY DEF NotById, HasId
<1>2. (\E rows \in moments : Carrying(rows, req.arg) = {}) => (\E rows \in moments : Carrying(rows, req.arg) = {})'
  BY DEF Carrying
<1>3. ASSUME NEW m, ByAlias(m)
      PROVE  ByAlias(m)'
  <2>1. PICK rows \in moments : m \in SUBSET rows /\ AllOrFull(m, Carrying(rows, req.arg))
    BY <1>3 DEF ByAlias
  <2>2. rows \in moments' /\ m \in SUBSET rows /\ AllOrFull(m, Carrying(rows, req'.arg))
    BY <2>1
  <2>3. m = {} => ~req'.fuzzy
    BY <1>3 DEF ByAlias
  <2>4. QED
    BY <2>2, <2>3 DEF ByAlias, AllOrFull, Carrying
<1>4. ASSUME NEW m, ByLikeness(m)
      PROVE  ByLikeness(m)'
  <2>1. PICK rows \in moments : m \in SUBSET rows /\ AllOrUnscanned(m, Resembling(rows, req.arg), rows)
    BY <1>4 DEF ByLikeness
  <2>2. rows \in moments' /\ m \in SUBSET rows /\ AllOrUnscanned(m, Resembling(rows, req'.arg), rows)
    BY <2>1
  <2>3. req'.fuzzy /\ (\E s \in moments : Carrying(s, req.arg) = {})'
    BY <1>2, <1>4 DEF ByLikeness
  <2>4. QED
    BY <2>2, <2>3 DEF ByLikeness, AllOrUnscanned, Resembling
<1>5. QED
  BY <1>1, <1>2, <1>3, <1>4 DEF Led

(* An answer that tells what the argument led to is honest.                *)
LEMMA TellingIsHonest ==
  ASSUME NEW m, Led(m)', Tells(m)'
  PROVE  LookupIsHonest'
<1>1. NotById' /\ (ByAlias(m)' \/ ByLikeness(m)')
  BY DEF Led
<1>2. CASE ByAlias(m)'
  <2>1. PICK rows \in moments' : m \in SUBSET rows /\ AllOrFull(m, Carrying(rows, req.arg))'
    BY <1>2 DEF ByAlias
  <2>2. m = {} => ~req'.fuzzy
    BY <1>2 DEF ByAlias
  <2>3. QED
    BY <1>1, <2>1, <2>2 DEF LookupIsHonest, NotById, AllOrFull, Carrying
<1>3. CASE ByLikeness(m)'
  <2>1. PICK rows \in moments' : m \in SUBSET rows /\ AllOrUnscanned(m, Resembling(rows, req.arg), rows)'
    BY <1>3 DEF ByLikeness
  <2>2. req'.fuzzy /\ (\E s \in moments : Carrying(s, req.arg) = {})'
    BY <1>3 DEF ByLikeness
  <2>3. QED
    BY <1>1, <2>1, <2>2 DEF LookupIsHonest, NotById, AllOrUnscanned, Resembling
<1>4. QED
  BY <1>1, <1>2, <1>3

(* What follows from a set of matches, whichever the means.                *)
LEMMA FollowIsHonest ==
  ASSUME IsLookup, req' = req, moments' = moments, pages' = pages, pages \in moments,
         NEW m, m # {}, Led(m), Follow(m)
  PROVE  LookupInv'
<1>1. Led(m)' /\ \A r \in m : Led({r}) => Led({r})'
  BY LedStays
<1>2. CASE req.op = "read" /\ Only(m)
  <2>1. at' = "canon" /\ \E r \in m : canon' = r.id
    BY <1>2 DEF Follow
  <2>2. PICK r \in m : m = {r} /\ canon' = r.id
    BY <1>2, <2>1 DEF Only
  <2>3. PICK rows \in moments : r \in rows
    BY DEF Led, ByAlias, ByLikeness
  <2>4. Led({r})'
    BY <1>1, <2>2
  <2>5. \E s \in moments' : \E t \in s : t.id = canon' /\ Led({t})'
    BY <2>2, <2>3, <2>4
  <2>6. QED
    BY <2>1, <2>5 DEF LookupInv
<1>3. CASE ~(req.op = "read" /\ Only(m))
  <2>1. at' = "done" /\ reply' = Matches(m)
    BY <1>3 DEF Follow, Answer
  <2>2. Tells(m)'
    BY <1>3, <2>1 DEF Tells, Only, Matches
  <2>3. LookupIsHonest'
    BY <1>1, <2>2, TellingIsHonest
  <2>4. QED
    BY <2>1, <2>3 DEF LookupInv
<1>4. QED
  BY <1>2, <1>3

(* Honesty looks at the call, its reply, and the tables, and nothing else. *)
LEMMA LookupAlike ==
  ASSUME UNCHANGED <<req, at, reply, moments, pages>>, LookupIsHonest
  PROVE  LookupIsHonest'
<1> SUFFICES ASSUME at = "done", IsLookup, reply.kind # "raised" PROVE LookupIsHonest'
  BY DEF LookupIsHonest, IsLookup
<1>1. CASE req.op = "read" /\ reply = Page(req.arg) /\ \E rows \in moments : HasId(rows, req.arg)
  BY <1>1 DEF LookupIsHonest, HasId, Page
<1>2. CASE ~(req.op = "read" /\ reply = Page(req.arg) /\ \E rows \in moments : HasId(rows, req.arg))
  <2>1. NotById
    BY <1>2 DEF LookupIsHonest, NotById
  <2>2. PICK m : (ByAlias(m) \/ ByLikeness(m)) /\ Tells(m)
    <3>1. CASE \E rows \in moments : \E m \in SUBSET rows :
                  /\ AllOrFull(m, Carrying(rows, req.arg)) /\ Tells(m)
                  /\ m = {} => ~req.fuzzy
      BY <3>1 DEF ByAlias
    <3>2. CASE /\ req.fuzzy
               /\ \E rows \in moments : Carrying(rows, req.arg) = {}
               /\ \E rows \in moments : \E m \in SUBSET rows :
                    AllOrUnscanned(m, Resembling(rows, req.arg), rows) /\ Tells(m)
      BY <3>2 DEF ByLikeness
    <3>3. QED
      BY <1>2, <3>1, <3>2 DEF LookupIsHonest
  <2>3. Led(m)'
    BY <2>1, <2>2, LedStays DEF Led
  <2>4. Tells(m)'
    BY <2>2 DEF Tells, Only, HasId, NotFound, Page, Matches
  <2>5. QED
    BY <2>3, <2>4, TellingIsHonest
<1>3. QED
  BY <1>1, <1>2

(* However many tables a lookup opens and whatever the writers commit      *)
(* between two of them, it answers as its order of looks has it: the id,   *)
(* then the alias, then likeness, each as of a moment of the call, and in  *)
(* full as long as no query met its limit.                                 *)
THEOREM LookupsAreHonest == ReadsSpec => []LookupIsHonest
<1> USE ReadsAssumption
<1>1. ReadsInit => LookupInv
  BY DEF ReadsInit, LookupInv, IsLookup
<1>2. CallInv /\ FiniteInv /\ LookupInv /\ [ReadsNext]_readsVars => LookupInv'
  <2> SUFFICES ASSUME CallInv, FiniteInv, LookupInv, [ReadsNext]_readsVars
               PROVE  LookupInv'
    OBVIOUS
  <2>0. IsFiniteSet(pages)
    BY DEF FiniteInv
  <2>1. ASSUME req' = req, at' = at, canon' = canon, reply' = reply, moments \subseteq moments',
               IsLookup /\ at # "done" => pages' \in moments',
               at = "done" => pages' = pages /\ moments' = moments
        PROVE  LookupInv'
    <3> SUFFICES ASSUME IsLookup PROVE LookupInv'
      BY <2>1 DEF LookupInv, IsLookup
    <3>1. CASE at = "done"
      <4>1. LookupIsHonest
        BY <3>1 DEF LookupInv
      <4>2. (LookupIsHonest)'
        BY <2>1, <3>1, <4>1, LookupAlike
      <4>3. QED
        BY <2>1, <3>1, <4>2 DEF LookupInv
    <3>2. CASE at # "done"
      <4>1. at = "canon" => (\E rows \in moments : \E r \in rows : r.id = canon /\ Led({r}))'
        <5> SUFFICES ASSUME at = "canon" PROVE (\E rows \in moments : \E r \in rows : r.id = canon /\ Led({r}))'
          OBVIOUS
        <5>1. PICK rows \in moments : \E r \in rows : r.id = canon /\ Led({r})
          BY DEF LookupInv
        <5>2. PICK r \in rows : r.id = canon /\ Led({r})
          BY <5>1
        <5>3. Led({r})'
          BY <2>1, <5>2, LedStays
        <5>4. QED
          BY <2>1, <5>1, <5>2, <5>3
      <4>2. at \in {"alias", "fuzzy"} => NotById'
        BY <2>1, LedStays DEF LookupInv
      <4>3. at = "fuzzy" => req'.fuzzy /\ (\E rows \in moments : Carrying(rows, req.arg) = {})'
        BY <2>1, LedStays DEF LookupInv
      <4>4. QED
        BY <2>1, <3>2, <4>1, <4>2, <4>3 DEF LookupInv
    <3>3. QED
      BY <3>1, <3>2
  <2>2. CASE UNCHANGED readsVars
    <3>1. UNCHANGED <<req, at, canon, reply, moments, pages>>
      BY <2>2 DEF readsVars, readerVars, ghostVars, filesVars
    <3>2. QED
      BY <2>1, <3>1 DEF LookupInv
  <2>3. ASSUME ~IsLookup, req' = req
        PROVE  LookupInv'
    BY <2>3 DEF LookupInv, IsLookup
  <2>4. ASSUME NEW q \in Request, Ask(q)
        PROVE  LookupInv'
    <3>1. CASE q.op = "read"
      BY <2>4, <3>1 DEF Ask, LookupInv, filesVars
    <3>2. CASE q.op = "find"
      <4>1. req' = q /\ at' = "alias" /\ moments' = {pages} /\ pages' = pages
        BY <2>4, <3>2 DEF Ask, filesVars
      <4>2. QED
        BY <3>2, <4>1 DEF LookupInv, NotById
    <3>3. CASE q.op \notin {"read", "find"}
      BY <2>4, <3>3 DEF Ask, LookupInv, IsLookup
    <3>4. QED
      BY <3>1, <3>2, <3>3
  <2>5. CASE ReadExact
    <3>1. /\ req' = req /\ pages' = pages /\ moments' = moments /\ at = "exact"
          /\ req.op = "read" /\ IsLookup
      BY <2>5 DEF ReadExact, Querying, filesVars, ghostVars, CallInv, IsLookup
    <3>2. pages \in moments
      BY <3>1 DEF LookupInv
    <3>3. CASE HasId(pages, req.arg)
      <4>1. at' = "done" /\ reply' = Page(req.arg)
        BY <2>5, <3>3 DEF ReadExact, Answer
      <4>2. (reply = Page(req.arg) /\ \E rows \in moments : HasId(rows, req.arg))'
        BY <3>1, <3>2, <3>3, <4>1 DEF Page, HasId
      <4>3. LookupIsHonest'
        BY <3>1, <4>2 DEF LookupIsHonest
      <4>4. QED
        BY <4>1, <4>3 DEF LookupInv
    <3>4. CASE ~HasId(pages, req.arg)
      <4>1. at' = "alias"
        BY <2>5, <3>4 DEF ReadExact
      <4>2. NotById
        BY <3>2, <3>4 DEF NotById
      <4>3. NotById'
        BY <3>1, <4>2, LedStays
      <4>4. QED
        BY <3>1, <3>2, <4>1, <4>3 DEF LookupInv
    <3>5. QED
      BY <3>3, <3>4
  <2>6. CASE ReadAlias
    <3>1. req' = req /\ pages' = pages /\ moments' = moments /\ at = "alias" /\ IsLookup
      BY <2>6 DEF ReadAlias, Querying, filesVars, ghostVars, CallInv, IsLookup
    <3>2. pages \in moments /\ NotById
      BY <3>1 DEF LookupInv
    <3>3. PICK rows \in FindAlias(pages, req.arg) :
             IF rows # {} THEN Follow(rows)
             ELSE IF req.fuzzy THEN at' = "fuzzy" /\ UNCHANGED <<canon, reply>>
             ELSE Answer(NotFound(req.arg)) /\ UNCHANGED canon
      BY <2>6 DEF ReadAlias
    <3>4. /\ rows \in SUBSET pages /\ AllOrFull(rows, Carrying(pages, req.arg))
          /\ rows = {} => Carrying(pages, req.arg) = {}
      BY <2>0, AliasesFetched
    <3>5. rows # {} \/ ~req.fuzzy => Led(rows)
      BY <3>2, <3>4 DEF Led, ByAlias
    <3>6. CASE rows # {}
      BY <3>1, <3>2, <3>3, <3>5, <3>6, FollowIsHonest
    <3>7. CASE rows = {} /\ req.fuzzy
      <4>1. at' = "fuzzy"
        BY <3>3, <3>7
      <4>2. NotById' /\ (\E s \in moments : Carrying(s, req.arg) = {})'
        BY <3>1, <3>2, <3>4, <3>7, LedStays
      <4>3. QED
        BY <3>1, <3>2, <3>7, <4>1, <4>2 DEF LookupInv
    <3>8. CASE rows = {} /\ ~req.fuzzy
      <4>1. at' = "done" /\ reply' = NotFound(req.arg)
        BY <3>3, <3>8 DEF Answer
      <4>2. Led(rows)' /\ Tells(rows)'
        BY <3>1, <3>5, <3>8, <4>1, LedStays DEF Tells, NotFound
      <4>3. LookupIsHonest'
        BY <4>2, TellingIsHonest
      <4>4. QED
        BY <4>1, <4>3 DEF LookupInv
    <3>9. QED
      BY <3>6, <3>7, <3>8
  <2>7. CASE ReadFuzzy
    <3>1. req' = req /\ pages' = pages /\ moments' = moments /\ at = "fuzzy" /\ IsLookup
      BY <2>7 DEF ReadFuzzy, Querying, filesVars, ghostVars, CallInv, IsLookup
    <3>2. pages \in moments /\ NotById /\ req.fuzzy /\ \E rows \in moments : Carrying(rows, req.arg) = {}
      BY <3>1 DEF LookupInv
    <3>3. PICK rows \in FindFuzzy(pages, req.arg) :
             IF rows # {} THEN Follow(rows) ELSE Answer(NotFound(req.arg)) /\ UNCHANGED canon
      BY <2>7 DEF ReadFuzzy
    <3>4. rows \in SUBSET pages /\ AllOrUnscanned(rows, Resembling(pages, req.arg), pages)
      BY <2>0, AliasesScanned
    <3>5. Led(rows)
      BY <3>2, <3>4 DEF Led, ByLikeness
    <3>6. CASE rows # {}
      BY <3>1, <3>2, <3>3, <3>5, <3>6, FollowIsHonest
    <3>7. CASE rows = {}
      <4>1. at' = "done" /\ reply' = NotFound(req.arg)
        BY <3>3, <3>7 DEF Answer
      <4>2. Led(rows)' /\ Tells(rows)'
        BY <3>1, <3>5, <3>7, <4>1, LedStays DEF Tells, NotFound
      <4>3. LookupIsHonest'
        BY <4>2, TellingIsHonest
      <4>4. QED
        BY <4>1, <4>3 DEF LookupInv
    <3>8. QED
      BY <3>6, <3>7
  <2>8. CASE ReadCanon
    <3>1. /\ req' = req /\ pages' = pages /\ moments' = moments /\ at = "canon"
          /\ req.op = "read" /\ IsLookup
      BY <2>8 DEF ReadCanon, Querying, filesVars, ghostVars, CallInv, IsLookup
    <3>2. PICK rows \in moments : \E r \in rows : r.id = canon /\ Led({r})
      BY <3>1 DEF LookupInv
    <3>3. PICK r \in rows : r.id = canon /\ Led({r})
      BY <3>2
    <3>4. at' = "done" /\ reply' = IF HasId(pages, canon) THEN Page(canon) ELSE NotFound(canon)
      BY <2>8 DEF ReadCanon, Answer
    <3>5. Tells({r})'
      BY <3>1, <3>3, <3>4 DEF Tells, Only, HasId, Page, NotFound
    <3>6. Led({r})'
      BY <3>1, <3>3, LedStays
    <3>7. LookupIsHonest'
      BY <3>5, <3>6, TellingIsHonest
    <3>8. QED
      BY <3>4, <3>7 DEF LookupInv
  <2>9. CASE OpenGraph \/ Hop \/ EndWalk \/ IncomingLinks \/ ListPages \/ ListDomains
    <3>1. ~IsLookup /\ req' = req
      BY <2>9 DEF OpenGraph, Hop, EndWalk, IncomingLinks, ListPages, ListDomains, Querying, IsLookup, CallInv
    <3>2. QED
      BY <2>3, <3>1
  <2>10. CASE OpenSearch \/ RankVectors \/ MatchAliases \/ Hydrate \/ Neighbours \/ SimilarPages
    <3>1. ~IsLookup /\ req' = req
      BY <2>10 DEF OpenSearch, RankVectors, MatchAliases, Hydrate, Neighbours, SimilarPages, Querying,
                   IsLookup, CallInv
    <3>2. QED
      BY <2>3, <3>1
  <2>11. CASE Raise
    <3>1. at' = "done" /\ reply'.kind = "raised"
      BY <2>11 DEF Raise, Answer
    <3>2. QED
      BY <3>1 DEF LookupInv, LookupIsHonest
  <2>12. CASE Deliver
    BY <2>12 DEF Deliver, LookupInv, IsLookup
  <2>13. CASE WriterStep
    <3>1. /\ req' = req /\ at' = at /\ canon' = canon /\ reply' = reply /\ at # "done"
          /\ moments' = IF at # "idle" /\ IsLookup THEN moments \cup {pages'} ELSE moments
      BY <2>13 DEF WriterStep
    <3>2. IsLookup => at # "idle"
      BY DEF IsLookup, CallInv
    <3>3. QED
      BY <2>1, <3>1, <3>2
  <2>14. QED
    BY <2>2, <2>4, <2>5, <2>6, <2>7, <2>8, <2>9, <2>10, <2>11, <2>12, <2>13 DEF ReadsNext, ReaderStep
<1>3. LookupInv => LookupIsHonest
  BY DEF LookupInv, LookupIsHonest
<1>4. QED
  BY <1>1, <1>2, <1>3, CallInvHolds, ReadingChangesNothing, TablesAreFinite, PTL DEF ReadsSpec

-----------------------------------------------------------------------------
(* Rankings                                                                 *)

(* An order of finitely many rows has each of them once.                   *)
LEMMA OrderIsOnto ==
  ASSUME NEW S, IsFiniteSet(S), NEW s \in Orders(S)
  PROVE  /\ s \in Seq(S) /\ Len(s) = Cardinality(S) /\ Len(s) \in Nat
         /\ \A j, k \in 1..Len(s) : s[j] = s[k] => j = k
         /\ \A r \in S : \E k \in 1..Len(s) : s[k] = r
<1> DEFINE n == Cardinality(S)
<1>1. n \in Nat
  BY FS_CardinalityType
<1>2. s \in [1..n -> S] /\ \A j, k \in 1..n : s[j] = s[k] => j = k
  BY DEF Orders
<1> HIDE DEF n
<1>3. s \in Injection(1..n, S)
  BY <1>2 DEF Injection, IsInjective
<1>4. IsFiniteSet(1..n) /\ Cardinality(1..n) = n
  BY <1>1, FS_Interval
<1>5. s \in Surjection(1..n, S)
  BY <1>3, <1>4, FS_Injection DEF n
<1>6. \A r \in S : \E k \in 1..n : s[k] = r
  BY <1>5 DEF Surjection
<1>7. s \in Seq(S) /\ Len(s) = n
  BY <1>1, <1>2
<1>8. QED
  BY <1>1, <1>2, <1>6, <1>7 DEF n

(* The first n of a sequence.                                              *)
LEMMA FirstOf ==
  ASSUME NEW S, NEW s \in Seq(S), NEW n \in Nat
  PROVE  /\ First(s, n) \in Seq(S) /\ Len(First(s, n)) \in Nat
         /\ Len(First(s, n)) = SmallerOf(Len(s), n)
         /\ \A k \in 1..Len(First(s, n)) : First(s, n)[k] = s[k] /\ k \in 1..Len(s)
         /\ Len(s) <= n => First(s, n) = s
<1> DEFINE m == SmallerOf(Len(s), n)
<1>1. Len(s) \in Nat /\ m \in 0..Len(s) /\ m <= n /\ (Len(s) <= n => m = Len(s))
  BY DEF SmallerOf
<1> HIDE DEF m
<1>2. First(s, n) = SubSeq(s, 1, m)
  BY DEF First, m
<1>3. /\ SubSeq(s, 1, m) \in Seq(S) /\ Len(SubSeq(s, 1, m)) = m
      /\ \A k \in 1..m : SubSeq(s, 1, m)[k] = s[k]
  BY <1>1, SubSeqProperties
<1>4. Len(s) <= n => SubSeq(s, 1, m) = s
  BY <1>1, <1>3, SeqEqual
<1>5. QED
  BY <1>1, <1>2, <1>3, <1>4 DEF m

(* The ids of a sequence of rows.                                          *)
LEMMA IdsAreIds ==
  ASSUME NEW S, \A r \in S : r.id \in Id, NEW s \in Seq(S)
  PROVE  /\ IdsOf(s) \in Seq(Id) /\ Len(IdsOf(s)) = Len(s) /\ Len(s) \in Nat
         /\ \A k \in 1..Len(s) : IdsOf(s)[k] = s[k].id
BY DEF IdsOf

(* The first ids of an order of finitely many rows: all of them, or as     *)
(* many as were asked for.                                                 *)
LEMMA RankedIds ==
  ASSUME NEW S, IsFiniteSet(S), \A r \in S : r.id \in Id, NEW s \in Orders(S), NEW n \in Nat
  PROVE  /\ First(IdsOf(s), n) \in Seq(Id)
         /\ ToSet(First(IdsOf(s), n)) \subseteq {r.id : r \in S}
         /\ Len(First(IdsOf(s), n)) < n => ToSet(First(IdsOf(s), n)) = {r.id : r \in S}
<1> DEFINE ids == IdsOf(s)
           f == First(ids, n)
<1>1. /\ s \in Seq(S) /\ Len(s) \in Nat
      /\ \A r \in S : \E k \in 1..Len(s) : s[k] = r
  BY OrderIsOnto
<1>2. /\ ids \in Seq(Id) /\ Len(ids) = Len(s)
      /\ \A k \in 1..Len(s) : ids[k] = s[k].id
  BY <1>1, IdsAreIds
<1> HIDE DEF ids
<1>3. /\ f \in Seq(Id) /\ Len(f) = SmallerOf(Len(ids), n)
      /\ \A k \in 1..Len(f) : f[k] = ids[k] /\ k \in 1..Len(ids)
      /\ Len(ids) <= n => f = ids
  BY <1>2, FirstOf
<1> HIDE DEF f
<1>4. DOMAIN f = 1..Len(f)
  BY <1>3
<1>5. ToSet(f) \subseteq {r.id : r \in S}
  <2>1. ASSUME NEW k \in 1..Len(f)
        PROVE  f[k] \in {r.id : r \in S}
    <3>1. k \in 1..Len(s) /\ f[k] = s[k].id
      BY <1>2, <1>3
    <3>2. s[k] \in S
      BY <1>1, <3>1
    <3>3. QED
      BY <3>1, <3>2
  <2>2. QED
    BY <1>4, <2>1 DEF ToSet
<1>6. ASSUME Len(f) < n
      PROVE  {r.id : r \in S} \subseteq ToSet(f)
  <2>1. f = ids
    BY <1>1, <1>2, <1>3, <1>6 DEF SmallerOf
  <2>2. ASSUME NEW r \in S
        PROVE  r.id \in ToSet(f)
    <3>1. PICK k \in 1..Len(s) : s[k] = r
      BY <1>1
    <3>2. k \in DOMAIN f /\ f[k] = r.id
      BY <1>2, <1>4, <2>1, <3>1
    <3>3. QED
      BY <3>2 DEF ToSet
  <2>3. QED
    BY <2>2
<1>7. QED
  BY <1>3, <1>5, <1>6 DEF f, ids

-----------------------------------------------------------------------------
(* Hydration                                                                *)

(* A sequence has no more members than places.                             *)
LEMMA MembersFit ==
  ASSUME NEW S, NEW s \in Seq(S)
  PROVE  IsFiniteSet(ToSet(s)) /\ Cardinality(ToSet(s)) <= Len(s) /\ Len(s) \in Nat
<1>1. Len(s) \in Nat /\ DOMAIN s = 1..Len(s)
  OBVIOUS
<1>2. IsFiniteSet(1..Len(s)) /\ Cardinality(1..Len(s)) = Len(s)
  BY <1>1, FS_Interval
<1>3. ToSet(s) = {s[k] : k \in 1..Len(s)}
  BY <1>1 DEF ToSet
<1>4. QED
  BY <1>1, <1>2, <1>3, FiniteImage

(* The metadata query returns rows of the candidates only; all of them, if *)
(* no id has two rows: its limit, the number of candidates, is then enough.*)
(* And a dict of them has them all.                                        *)
LEMMA MetadataIsComplete ==
  ASSUME NEW rows, IsFiniteSet(rows), NEW pids \in Seq(Id), NEW some \in Metadata(rows, pids),
         \A r, s \in rows : r.id = s.id => r = s
  PROVE  /\ some = {r \in rows : r.id \in ToSet(pids)}
         /\ \A m \in ById(some) : m = some
<1> DEFINE fo == {r \in rows : r.id \in ToSet(pids)}
           k == [r \in fo |-> r.id]
<1>1. IsFiniteSet(fo) /\ Cardinality(fo) \in Nat
  BY FS_Subset, FS_CardinalityType
<1>2. IsFiniteSet(ToSet(pids)) /\ Cardinality(ToSet(pids)) <= Len(pids) /\ Len(pids) \in Nat
  BY MembersFit
<1>3. k \in Injection(fo, ToSet(pids))
  BY DEF Injection, IsInjective
<1>4. Cardinality(fo) <= Cardinality(ToSet(pids)) /\ Cardinality(ToSet(pids)) \in Nat
  <2> HIDE DEF k, fo
  <2>1. QED
    BY <1>2, <1>3, FS_Injection, FS_CardinalityType
<1>5. some \in Limited(fo, Len(pids))
  BY DEF Metadata
<1>6. some = fo
  <2> HIDE DEF fo
  <2>1. some \subseteq fo /\ Cardinality(some) = SmallerOf(Cardinality(fo), Len(pids))
    BY <1>5 DEF Limited
  <2>2. Cardinality(some) = Cardinality(fo)
    BY <1>1, <1>2, <1>4, <2>1 DEF SmallerOf
  <2>3. QED
    BY <1>1, <2>1, <2>2, FS_Subset
<1>7. \A m \in ById(some) : m = some
  BY <1>6 DEF ById
<1>8. QED
  BY <1>6, <1>7

HasRow(kept, i) == \E r \in kept : r.id = i

\* The equation WithRow is defined by, up to candidate m.
SolvesKeep(f, m, pids, kept) ==
    f = [n \in 0..m |->
            IF n = 0 THEN <<>>
            ELSE IF \E r \in kept : r.id = pids[n] THEN Append(f[n - 1], pids[n])
            ELSE f[n - 1]]

(* Some function satisfies it.                                             *)
LEMMA KeepExists ==
  ASSUME NEW pids \in Seq(Id), NEW kept
  PROVE  \E f : SolvesKeep(f, Len(pids), pids, kept)
<1> DEFINE Bad == {m \in Nat : ~(\E f : SolvesKeep(f, m, pids, kept))}
           Step(x, n) == IF \E r \in kept : r.id = pids[n] THEN Append(x, pids[n]) ELSE x
<1> USE DEF SolvesKeep
<1>1. Len(pids) \in Nat
  OBVIOUS
<1>2. ASSUME Bad # {}
      PROVE  FALSE
  <2>1. PICK m \in Bad : \A n \in Bad : m <= n
    BY <1>2, LeastNat
  <2>2. m \in Nat
    BY <2>1
  <2>3. CASE m = 0
    <3> DEFINE g == [n \in 0..0 |-> <<>>]
    <3>1. SolvesKeep(g, 0, pids, kept)
      OBVIOUS
    <3>2. QED
      BY <2>1, <2>3, <3>1
  <2>4. CASE m # 0
    <3>1. m - 1 \in Nat /\ ~(m <= m - 1)
      BY <2>2, <2>4
    <3>2. m - 1 \notin Bad
      BY <2>1, <3>1
    <3>3. PICK f : SolvesKeep(f, m - 1, pids, kept)
      BY <3>1, <3>2
    <3> DEFINE g == [n \in 0..m |-> IF n = m THEN Step(f[m - 1], m) ELSE f[n]]
    <3>4. ASSUME NEW n \in 0..m
          PROVE  g[n] = IF n = 0 THEN <<>> ELSE Step(g[n - 1], n)
      <4>1. CASE n = 0
        <5>1. g[0] = f[0] /\ 0 \in 0..(m - 1)
          BY <2>2, <2>4
        <5>2. f[0] = <<>>
          BY <3>3, <5>1
        <5>3. QED
          BY <4>1, <5>1, <5>2
      <4>2. CASE n = m
        <5>1. n - 1 \in 0..m /\ n - 1 # m
          BY <2>2, <2>4, <4>2
        <5>2. g[n - 1] = f[m - 1] /\ g[n] = Step(f[m - 1], m)
          BY <4>2, <5>1
        <5>3. QED
          BY <2>4, <4>2, <5>2
      <4>3. CASE n # 0 /\ n # m
        <5>1. n \in 0..(m - 1) /\ n - 1 \in 0..m /\ n - 1 # m
          BY <2>2, <4>3
        <5>2. g[n] = f[n] /\ g[n - 1] = f[n - 1]
          BY <4>3, <5>1
        <5>3. f[n] = Step(f[n - 1], n)
          BY <3>3, <4>3, <5>1
        <5>4. QED
          BY <4>3, <5>2, <5>3
      <4>4. QED
        BY <4>1, <4>2, <4>3
    <3>5. g = [n \in 0..m |-> g[n]]
      OBVIOUS
    <3> HIDE DEF g
    <3>6. SolvesKeep(g, m, pids, kept)
      BY <3>4, <3>5
    <3>7. QED
      BY <2>1, <3>6
  <2>5. QED
    BY <2>3, <2>4
<1>3. QED
  BY <1>1, <1>2

(* WithRow goes through the candidates one by one.                         *)
LEMMA KeepSteps ==
  ASSUME NEW pids \in Seq(Id), NEW kept
  PROVE  \E f : /\ WithRow(pids, kept) = f[Len(pids)]
                /\ f[0] = <<>>
                /\ \A n \in 1..Len(pids) :
                      f[n] = IF HasRow(kept, pids[n]) THEN Append(f[n - 1], pids[n]) ELSE f[n - 1]
<1> DEFINE k == CHOOSE f : SolvesKeep(f, Len(pids), pids, kept)
<1>1. SolvesKeep(k, Len(pids), pids, kept)
  BY KeepExists
<1>2. WithRow(pids, kept) = k[Len(pids)]
  BY Zenon DEF WithRow, SolvesKeep
<1> HIDE DEF k
<1>3. Len(pids) \in Nat /\ 0 \in 0..Len(pids) /\ \A n \in 1..Len(pids) : n \in 0..Len(pids) /\ n # 0
  OBVIOUS
<1>4. k[0] = <<>>
  BY <1>1, <1>3, Zenon DEF SolvesKeep
<1>5. ASSUME NEW n \in 1..Len(pids)
      PROVE  k[n] = IF HasRow(kept, pids[n]) THEN Append(k[n - 1], pids[n]) ELSE k[n - 1]
  BY <1>1, <1>3, Zenon DEF SolvesKeep, HasRow
<1>6. QED
  BY <1>2, <1>4, <1>5

(* It keeps the candidates with a row, and nothing else; all of them, each *)
(* time it comes up, if all have one.                                      *)
LEMMA WithRowKeeps ==
  ASSUME NEW pids \in Seq(Id), NEW kept
  PROVE  /\ WithRow(pids, kept) \in Seq(Id)
         /\ ToSet(WithRow(pids, kept)) = {i \in ToSet(pids) : HasRow(kept, i)}
         /\ (\A i \in ToSet(pids) : HasRow(kept, i)) => Len(WithRow(pids, kept)) = Len(pids)
<1> DEFINE Upto(n) == {i \in {pids[j] : j \in 1..n} : HasRow(kept, i)}
           All == \A i \in ToSet(pids) : HasRow(kept, i)
<1>1. PICK f : /\ WithRow(pids, kept) = f[Len(pids)]
               /\ f[0] = <<>>
               /\ \A n \in 1..Len(pids) :
                     f[n] = IF HasRow(kept, pids[n]) THEN Append(f[n - 1], pids[n]) ELSE f[n - 1]
  BY KeepSteps
<1> DEFINE Good(n) == f[n] \in Seq(Id) /\ ToSet(f[n]) = Upto(n) /\ (All => Len(f[n]) = n)
           Bad == {n \in 0..Len(pids) : ~Good(n)}
<1>2. Len(pids) \in Nat /\ DOMAIN pids = 1..Len(pids)
  OBVIOUS
<1>3. ASSUME Bad # {}
      PROVE  FALSE
  <2>1. Bad \in SUBSET Nat
    BY <1>2
  <2>2. PICK n \in Bad : \A k \in Bad : n <= k
    BY <1>3, <2>1, LeastNat
  <2>3. n \in 0..Len(pids) /\ ~Good(n)
    BY <2>2
  <2>4. CASE n = 0
    <3>1. f[0] \in Seq(Id) /\ Len(f[0]) = 0
      BY <1>1
    <3>2. ToSet(f[0]) = {} /\ Upto(0) = {}
      BY <1>1 DEF ToSet
    <3>3. QED
      BY <2>3, <2>4, <3>1, <3>2
  <2>5. CASE n # 0
    <3>1. n - 1 \in 0..Len(pids) /\ n \in 1..Len(pids) /\ ~(n <= n - 1) /\ n \in Nat
      BY <1>2, <2>3, <2>5
    <3>2. Good(n - 1)
      BY <2>2, <3>1
    <3>3. pids[n] \in Id /\ pids[n] \in ToSet(pids)
      BY <3>1 DEF ToSet
    <3>4. {pids[j] : j \in 1..n} = {pids[j] : j \in 1..(n - 1)} \cup {pids[n]}
      BY <3>1
    <3>5. CASE HasRow(kept, pids[n])
      <4>1. f[n] = Append(f[n - 1], pids[n])
        BY <1>1, <3>1, <3>5
      <4>2. f[n] \in Seq(Id) /\ Len(f[n]) = Len(f[n - 1]) + 1 /\ Len(f[n - 1]) \in Nat
        BY <3>2, <3>3, <4>1
      <4>3. ToSet(f[n]) = ToSet(f[n - 1]) \cup {pids[n]}
        <5> DEFINE x == f[n - 1]
        <5>1. x \in Seq(Id)
          BY <3>2
        <5> HIDE DEF x
        <5>2. ToSet(Append(x, pids[n])) = ToSet(x) \cup {pids[n]}
          <6>1. /\ DOMAIN Append(x, pids[n]) = 1..(Len(x) + 1) /\ DOMAIN x = 1..Len(x)
                /\ Len(x) \in Nat /\ Append(x, pids[n])[Len(x) + 1] = pids[n]
                /\ \A j \in 1..Len(x) : Append(x, pids[n])[j] = x[j]
            BY <3>3, <5>1
          <6>2. 1..(Len(x) + 1) = 1..Len(x) \cup {Len(x) + 1}
            BY <6>1
          <6>3. QED
            BY <6>1, <6>2 DEF ToSet
        <5>3. QED
          BY <4>1, <5>2 DEF x
      <4>4. Upto(n) = Upto(n - 1) \cup {pids[n]}
        BY <3>4, <3>5
      <4>5. Good(n)
        BY <3>1, <3>2, <4>2, <4>3, <4>4
      <4>6. QED
        BY <2>3, <4>5
    <3>6. CASE ~HasRow(kept, pids[n])
      <4>1. f[n] = f[n - 1]
        BY <1>1, <3>1, <3>6
      <4>2. Upto(n) = Upto(n - 1)
        BY <3>4, <3>6
      <4>3. ~All
        BY <3>3, <3>6
      <4>4. Good(n)
        BY <3>2, <4>1, <4>2, <4>3
      <4>5. QED
        BY <2>3, <4>4
    <3>7. QED
      BY <3>5, <3>6
  <2>6. QED
    BY <2>4, <2>5
<1>4. Good(Len(pids))
  <2>1. Len(pids) \in 0..Len(pids)
    BY <1>2
  <2> HIDE DEF Good
  <2>2. QED
    BY <1>3, <2>1
<1>5. {pids[j] : j \in 1..Len(pids)} = ToSet(pids)
  BY <1>2 DEF ToSet
<1>6. QED
  BY <1>1, <1>4, <1>5

(* The hits: fewer than asked for, they are all the candidates with a row. *)
LEMMA HitsAreKept ==
  ASSUME NEW pids \in Seq(Id), NEW kept, NEW n \in Nat
  PROVE  /\ Len(Hits(pids, kept, n)) \in Nat /\ Len(Hits(pids, kept, n)) <= n
         /\ ToSet(Hits(pids, kept, n)) \subseteq {i \in ToSet(pids) : HasRow(kept, i)}
         /\ Len(Hits(pids, kept, n)) < n =>
               ToSet(Hits(pids, kept, n)) = {i \in ToSet(pids) : HasRow(kept, i)}
         /\ (\A i \in ToSet(pids) : HasRow(kept, i)) =>
               Len(Hits(pids, kept, n)) = SmallerOf(Len(pids), n)
<1> DEFINE w == WithRow(pids, kept)
           h == First(w, n)
<1>1. /\ w \in Seq(Id)
      /\ ToSet(w) = {i \in ToSet(pids) : HasRow(kept, i)}
      /\ (\A i \in ToSet(pids) : HasRow(kept, i)) => Len(w) = Len(pids)
  BY WithRowKeeps
<1> HIDE DEF w
<1>2. /\ h \in Seq(Id) /\ Len(h) \in Nat
      /\ Len(h) = SmallerOf(Len(w), n)
      /\ \A k \in 1..Len(h) : h[k] = w[k] /\ k \in 1..Len(w)
      /\ Len(w) <= n => h = w
  BY <1>1, FirstOf
<1> HIDE DEF h
<1>3. DOMAIN h = 1..Len(h) /\ DOMAIN w = 1..Len(w) /\ Len(w) \in Nat
  BY <1>1, <1>2
<1>4. ToSet(h) \subseteq ToSet(w)
  BY <1>2, <1>3 DEF ToSet
<1>5. Len(h) <= n /\ (Len(h) < n => h = w)
  BY <1>2, <1>3 DEF SmallerOf
<1>6. Hits(pids, kept, n) = h
  BY DEF Hits, h, w
<1>7. QED
  BY <1>1, <1>2, <1>4, <1>5, <1>6

-----------------------------------------------------------------------------
(* search and source_similarity                                             *)

(* What the argument checks of search and source_similarity leave of a call*)
(* and the depth they fetch to.                                            *)
LEMMA SearchFields ==
  ASSUME NEW q \in Request, q.op \in {"search", "similar"}
  PROVE  /\ q.topK \in Nat
         /\ FetchDepth(q) \in Nat /\ q.topK <= FetchDepth(q)
         /\ q.op = "similar" => q.types \in (SUBSET PageType) \cup {None}
<1>1. FetchDepth(q) \in Nat /\ FetchDepth(q) >= q.topK
  BY ReadsAssumption
<1>2. q.topK \in Nat /\ (q.op = "similar" => q.types \in (SUBSET PageType) \cup {None})
  BY ReadsAssumption DEF RequestType
<1>3. QED
  BY <1>1, <1>2

(* Which of the two a handler at their steps serves, and that what it has  *)
(* gathered are rankings of ids.                                           *)
StageInv ==
    /\ at \in {"idle", "exact", "alias", "canon", "fuzzy", "open", "hop",
               "vec", "aliases", "hydrate", "meta", "done"}
    /\ at \in {"vec", "aliases", "hydrate"} => req.op = "search"
    /\ at = "meta" => req.op = "similar" /\ Len(lists) = 1
    /\ snap \subseteq Row
    /\ lists \in Seq(Seq(Id))

(* Some rows in some order, or none of them, give a ranking of ids.        *)
LEMMA RankingOfIds ==
  ASSUME NEW S, IsFiniteSet(S), \A r \in S : r.id \in Id, NEW s \in Orders(S) \cup {<<>>}, NEW n \in Nat
  PROVE  IdsOf(s) \in Seq(Id) /\ First(IdsOf(s), n) \in Seq(Id)
<1>1. s \in Seq(S)
  <2>1. CASE s \in Orders(S)
    BY <2>1, OrderIsOnto
  <2>2. CASE s = <<>>
    BY <2>2
  <2>3. QED
    BY <2>1, <2>2
<1>2. IdsOf(s) \in Seq(Id)
  BY <1>1, IdsAreIds
<1>3. QED
  BY <1>2, FirstOf

(* What a step adds to the rankings, and where it leads.                   *)
LEMMA RankingSteps ==
  ASSUME CallInv, FilesTypeOK, FiniteInv
  PROVE  /\ OpenSearch => \E l \in Seq(Id) : lists' = <<l>>
         /\ RankVectors /\ req.op = "search" => \E l \in Seq(Id) : lists' = Append(lists, l)
         /\ MatchAliases => \E l \in Seq(Id) : lists' = Append(lists, l)
         /\ Neighbours => \/ at' = "meta" /\ reply' = reply /\ \E l \in Seq(Id) : lists' = <<l>>
                          \/ at' = "done" /\ reply' = NotFound(req.source) /\ lists' = lists
<1>1. /\ IsFiniteSet(pages) /\ \A r \in pages : r.id \in Id
      /\ IsFiniteSet(embs) /\ \A e \in embs : e.id \in Id
  BY DEF FiniteInv, FilesTypeOK, Row
<1>2. ASSUME req # None, req.op \in {"search", "similar"}
      PROVE  Depth \in Nat
  BY <1>2, SearchFields DEF CallInv, Depth
<1>3. ASSUME OpenSearch
      PROVE  \E l \in Seq(Id) : lists' = <<l>>
  <2> DEFINE S == {r \in pages : r.ver \in Mentions[req.query]}
  <2>1. PICK ranked \in Orders(S) \cup {<<>>} : lists' = <<First(IdsOf(ranked), Depth)>>
    BY <1>3 DEF OpenSearch
  <2>2. Depth \in Nat
    BY <1>2, <1>3 DEF OpenSearch, Querying, CallInv
  <2>3. IsFiniteSet(S) /\ \A r \in S : r.id \in Id
    BY <1>1, FS_Subset
  <2> HIDE DEF S
  <2>4. First(IdsOf(ranked), Depth) \in Seq(Id)
    BY <2>2, <2>3, RankingOfIds
  <2>5. QED
    BY <2>1, <2>4
<1>4. ASSUME RankVectors, req.op = "search"
      PROVE  \E l \in Seq(Id) : lists' = Append(lists, l)
  <2>1. PICK ranked \in Orders(embs) \cup {<<>>} : lists' = Append(lists, First(IdsOf(ranked), Depth))
    BY <1>4 DEF RankVectors
  <2>2. Depth \in Nat
    BY <1>2, <1>4 DEF RankVectors, CallInv
  <2>3. First(IdsOf(ranked), Depth) \in Seq(Id)
    BY <1>1, <2>2, RankingOfIds
  <2>4. QED
    BY <2>1, <2>3
<1>5. ASSUME MatchAliases
      PROVE  \E l \in Seq(Id) : lists' = Append(lists, l)
  <2> DEFINE S == {r \in pages : Meta[r.ver].aliases \cap Needles[req.query] # {}}
  <2>1. PICK ranked \in Orders(S) : lists' = Append(lists, First(IdsOf(ranked), FetchCap))
    BY <1>5 DEF MatchAliases
  <2>2. IsFiniteSet(S) /\ \A r \in S : r.id \in Id
    BY <1>1, FS_Subset
  <2> HIDE DEF S
  <2>3. First(IdsOf(ranked), FetchCap) \in Seq(Id)
    <3>1. ranked \in Orders(S) \cup {<<>>} /\ FetchCap \in Nat
      BY AnswersAssumption
    <3>2. QED
      BY <2>2, <3>1, RankingOfIds
  <2>4. QED
    BY <2>1, <2>3
<1>6. ASSUME Neighbours
      PROVE  \/ at' = "meta" /\ reply' = reply /\ \E l \in Seq(Id) : lists' = <<l>>
             \/ at' = "done" /\ reply' = NotFound(req.source) /\ lists' = lists
  <2> DEFINE S == {e \in embs : e.id # req.source}
  <2>1. CASE \E e \in embs : e.id = req.source
    <3>1. PICK ranked \in Orders(S) :
            /\ lists' = <<First(IdsOf(ranked), Depth)>>
            /\ at' = "meta"
            /\ UNCHANGED reply
      BY <1>6, <2>1, Zenon DEF Neighbours
    <3>2. Depth \in Nat
      BY <1>2, <1>6 DEF Neighbours, CallInv
    <3>3. IsFiniteSet(S) /\ \A r \in S : r.id \in Id
      BY <1>1, FS_Subset
    <3> HIDE DEF S
    <3>4. First(IdsOf(ranked), Depth) \in Seq(Id)
      <4>1. ranked \in Orders(S) \cup {<<>>}
        BY <3>1
      <4>2. QED
        BY <3>2, <3>3, <4>1, RankingOfIds
    <3>5. QED
      BY <3>1, <3>4
  <2>2. CASE ~ \E e \in embs : e.id = req.source
    BY <1>6, <2>2, Zenon DEF Neighbours, Answer
  <2>3. QED
    BY <2>1, <2>2
<1>7. QED
  BY <1>3, <1>4, <1>5, <1>6

(* The steps of a handler follow one another as its tool's.                *)
LEMMA StageInvHolds == ReadsSpec => []StageInv
<1> USE DEF StageInv
<1>1. ReadsInit => StageInv
  BY DEF ReadsInit
<1>2. CallInv /\ FilesTypeOK /\ FiniteInv /\ StageInv /\ [ReadsNext]_readsVars => StageInv'
  <2> SUFFICES ASSUME CallInv, FilesTypeOK, FiniteInv, StageInv, [ReadsNext]_readsVars
               PROVE  StageInv'
    OBVIOUS
  <2>1. ASSUME UNCHANGED <<req, at, snap, lists>>
        PROVE  StageInv'
    BY <2>1
  <2>2. CASE UNCHANGED readsVars \/ WriterStep
    BY <2>1, <2>2 DEF readsVars, readerVars, WriterStep
  <2>3. ASSUME UNCHANGED <<snap, lists>>,
               at' \in {"idle", "exact", "alias", "canon", "fuzzy", "open", "hop", "done"}
        PROVE  StageInv'
    BY <2>3
  <2>4. CASE \E q \in Request : Ask(q)
    <3>1. PICK q \in Request : Ask(q)
      BY <2>4
    <3>2. at' \in {"exact", "alias", "open"} /\ UNCHANGED <<snap, lists>>
      BY <3>1 DEF Ask
    <3>3. QED
      BY <2>3, <3>2
  <2>5. CASE ReadExact \/ ReadAlias \/ ReadFuzzy \/ ReadCanon
    BY <2>3, <2>5 DEF ReadExact, ReadAlias, ReadFuzzy, ReadCanon, Querying, Follow, Answer
  <2>6. CASE OpenGraph \/ Hop \/ EndWalk \/ IncomingLinks \/ ListPages \/ ListDomains
    BY <2>3, <2>6 DEF OpenGraph, Hop, EndWalk, IncomingLinks, ListPages, ListDomains, Answer
  <2>7. CASE OpenSearch
    <3>1. PICK l \in Seq(Id) : lists' = <<l>>
      BY <2>7, RankingSteps
    <3>2. snap' = pages /\ at' = "vec" /\ req' = req /\ req.op = "search"
      BY <2>7 DEF OpenSearch
    <3>3. QED
      BY <3>1, <3>2 DEF FilesTypeOK
  <2>8. CASE RankVectors \/ MatchAliases
    <3>1. req.op = "search" /\ req' = req /\ snap' = snap /\ at' \in {"aliases", "hydrate"}
      BY <2>8 DEF RankVectors, MatchAliases, Querying
    <3>2. PICK l \in Seq(Id) : lists' = Append(lists, l)
      BY <2>8, <3>1, RankingSteps
    <3>3. lists' \in Seq(Seq(Id))
      BY <3>2
    <3>4. QED
      BY <3>1, <3>3
  <2>9. CASE Neighbours
    <3>1. req.op = "similar" /\ req' = req /\ snap' = snap
      BY <2>9 DEF Neighbours
    <3>2. CASE at' = "done" /\ lists' = lists
      BY <2>3, <3>1, <3>2
    <3>3. CASE at' = "meta" /\ \E l \in Seq(Id) : lists' = <<l>>
      BY <3>1, <3>3
    <3>4. QED
      BY <2>9, <3>2, <3>3, RankingSteps
  <2>10. CASE Hydrate \/ SimilarPages
    BY <2>3, <2>10 DEF Hydrate, SimilarPages, Answer
  <2>11. CASE Raise
    BY <2>3, <2>11 DEF Raise, Answer
  <2>12. CASE Deliver
    BY <2>12 DEF Deliver
  <2>13. QED
    BY <2>2, <2>4, <2>5, <2>6, <2>7, <2>8, <2>9, <2>10, <2>11, <2>12 DEF ReadsNext, ReaderStep
<1>3. QED
  BY <1>1, <1>2, CallInvHolds, ReadingChangesNothing, FilesTypeCorrect, TablesAreFinite, PTL DEF ReadsSpec

(* Types are kept: what a handler holds is ids, rows and edges of tables   *)
(* that were there, and the walk's frontier is among what it has visited.  *)
THEOREM ReadsTypeCorrect == ReadsSpec => []ReadsTypeOK
<1> USE ReadsAssumption
<1>1. ReadsInit /\ CallInv /\ FilesTypeOK /\ StageInv => ReadsTypeOK
  <2>1. 0 \in 0..MaxHops /\ 0 \in 0..MaxReads
    OBVIOUS
  <2>2. QED
    BY <2>1 DEF ReadsInit, ReadsTypeOK, CallInv, StageInv
<1>2. CallInv /\ FilesTypeOK /\ StageInv /\ WalkInv /\ ReadsTypeOK /\ [ReadsNext]_readsVars
        /\ CallInv' /\ FilesTypeOK' /\ StageInv' => ReadsTypeOK'
  <2> SUFFICES ASSUME CallInv, FilesTypeOK, StageInv, WalkInv, ReadsTypeOK, [ReadsNext]_readsVars,
                      CallInv', FilesTypeOK', StageInv'
               PROVE  ReadsTypeOK'
    OBVIOUS
  <2>1. ASSUME canon' \in Id \cup {None},
               graph' \subseteq Id \X Id \X Label, found' \subseteq graph',
               visited' \subseteq Id, frontier' \subseteq visited',
               hop' \in 0..MaxHops, truncated' \in BOOLEAN, reads' \in 0..MaxReads,
               moments' \subseteq SUBSET Row, still' \in BOOLEAN, dropped' \subseteq Table
        PROVE  ReadsTypeOK'
    BY <2>1 DEF ReadsTypeOK, CallInv, StageInv
  <2>2. /\ canon \in Id \cup {None}
        /\ graph \subseteq Id \X Id \X Label /\ found \subseteq graph
        /\ visited \subseteq Id /\ frontier \subseteq visited
        /\ hop \in 0..MaxHops /\ truncated \in BOOLEAN /\ reads \in 0..MaxReads
        /\ moments \subseteq SUBSET Row /\ still \in BOOLEAN /\ dropped \subseteq Table
    BY DEF ReadsTypeOK
  <2>3. ASSUME UNCHANGED <<canon, walkVars, reads, ghostVars>>
        PROVE  ReadsTypeOK'
    BY <2>1, <2>2, <2>3 DEF walkVars, ghostVars
  <2>4. CASE UNCHANGED readsVars
    BY <2>3, <2>4 DEF readsVars, readerVars
  <2>5. CASE \E q \in Request : Ask(q)
    <3>1. reads < MaxReads /\ reads' = reads + 1 /\ UNCHANGED <<canon, walkVars, still, dropped>>
          /\ moments' \in {{}, {pages}}
      BY <2>5 DEF Ask
    <3>2. reads' \in 0..MaxReads
      BY <2>2, <3>1
    <3>3. moments' \subseteq SUBSET Row
      BY <3>1 DEF FilesTypeOK
    <3>4. QED
      BY <2>1, <2>2, <3>1, <3>2, <3>3 DEF walkVars
  <2>6. CASE ReadExact \/ ReadCanon
    BY <2>3, <2>6 DEF ReadExact, ReadCanon
  <2>7. ASSUME NEW rows, rows \subseteq pages, Follow(rows), UNCHANGED <<walkVars, reads, ghostVars>>
        PROVE  ReadsTypeOK'
    <3>1. canon' \in Id \cup {None}
      <4>1. CASE req.op = "read" /\ Only(rows)
        <5>1. PICK r \in rows : canon' = r.id
          BY <2>7, <4>1 DEF Follow
        <5>2. QED
          BY <2>7, <5>1 DEF FilesTypeOK, Row
      <4>2. CASE ~(req.op = "read" /\ Only(rows))
        BY <2>2, <2>7, <4>2 DEF Follow
      <4>3. QED
        BY <4>1, <4>2
    <3>2. QED
      BY <2>1, <2>2, <2>7, <3>1 DEF walkVars, ghostVars
  <2>8. CASE ReadAlias
    <3>1. UNCHANGED <<walkVars, reads, ghostVars>>
      BY <2>8 DEF ReadAlias
    <3>2. PICK rows \in FindAlias(pages, req.arg) :
             IF rows # {} THEN Follow(rows)
             ELSE IF req.fuzzy THEN at' = "fuzzy" /\ UNCHANGED <<canon, reply>>
             ELSE Answer(NotFound(req.arg)) /\ UNCHANGED canon
      BY <2>8 DEF ReadAlias
    <3>3. rows \subseteq pages
      BY DEF FindAlias, Limited, Carrying
    <3>4. CASE rows # {}
      BY <2>7, <3>1, <3>2, <3>3, <3>4
    <3>5. CASE rows = {}
      BY <2>3, <3>1, <3>2, <3>5
    <3>6. QED
      BY <3>4, <3>5
  <2>9. CASE ReadFuzzy
    <3>1. UNCHANGED <<walkVars, reads, ghostVars>>
      BY <2>9 DEF ReadFuzzy
    <3>2. PICK rows \in FindFuzzy(pages, req.arg) :
             IF rows # {} THEN Follow(rows) ELSE Answer(NotFound(req.arg)) /\ UNCHANGED canon
      BY <2>9 DEF ReadFuzzy
    <3>3. rows \subseteq pages
      BY DEF FindFuzzy, Limited, Resembling
    <3>4. CASE rows # {}
      BY <2>7, <3>1, <3>2, <3>3, <3>4
    <3>5. CASE rows = {}
      BY <2>3, <3>1, <3>2, <3>5
    <3>6. QED
      BY <3>4, <3>5
  <2>10. CASE OpenGraph
    <3>1. /\ graph' = links /\ found' = found /\ found = {} /\ visited' = {req.from} /\ frontier' = {req.from}
          /\ hop' = hop /\ truncated' = truncated /\ UNCHANGED <<canon, reads, ghostVars>>
          /\ req \in Request /\ req.op = "traverse"
      BY <2>10 DEF OpenGraph, WalkInv, CallInv
    <3>2. req.from \in Id
      BY <3>1, TraverseFields
    <3>3. links \subseteq Id \X Id \X Label
      BY DEF FilesTypeOK
    <3>4. QED
      BY <2>1, <2>2, <3>1, <3>2, <3>3 DEF ghostVars
  <2>11. CASE Hop
    <3> DEFINE S == {e \in Labelled(graph) : e[1] \in frontier}
    <3>1. /\ hop < req.hops /\ hop' = hop + 1 /\ graph' = graph /\ UNCHANGED <<canon, reads, ghostVars>>
          /\ req \in Request /\ req.op = "traverse"
      BY <2>11 DEF Hop, CallInv
    <3>2. PICK edges \in Limited(S, HopLimit) :
            /\ found' = found \cup edges
            /\ visited' = visited \cup {e[2] : e \in edges}
            /\ frontier' = {e[2] : e \in edges} \ visited
            /\ truncated' = (truncated \/ Cardinality(edges) >= HopLimit)
      BY <2>11 DEF Hop
    <3>3. edges \subseteq graph
      BY DEF Limited, Labelled
    <3>4. {e[2] : e \in edges} \subseteq Id
      BY <2>2, <3>3
    <3>5. hop' \in 0..MaxHops
      BY <2>2, <3>1, TraverseFields
    <3>6. truncated' \in BOOLEAN
      BY <3>2
    <3>7. found' \subseteq graph' /\ visited' \subseteq Id /\ frontier' \subseteq visited'
      <4> HIDE DEF S
      <4>1. QED
        BY <2>2, <3>1, <3>2, <3>3, <3>4
    <3>8. QED
      BY <2>1, <2>2, <3>1, <3>5, <3>6, <3>7 DEF ghostVars
  <2>12. CASE EndWalk \/ IncomingLinks \/ ListPages \/ ListDomains
    BY <2>3, <2>12 DEF EndWalk, IncomingLinks, ListPages, ListDomains
  <2>13. CASE OpenSearch \/ RankVectors \/ MatchAliases \/ Hydrate \/ Neighbours \/ SimilarPages
    BY <2>3, <2>13 DEF OpenSearch, RankVectors, MatchAliases, Hydrate, Neighbours, SimilarPages
  <2>14. CASE Raise
    BY <2>3, <2>14 DEF Raise
  <2>15. CASE Deliver
    <3>1. /\ canon' = None /\ graph' = {} /\ visited' = {} /\ frontier' = {} /\ found' = {} /\ hop' = 0
          /\ truncated' = FALSE /\ moments' = {} /\ still' = TRUE /\ dropped' = {} /\ reads' = reads
      BY <2>15 DEF Deliver
    <3>2. 0 \in 0..MaxHops
      OBVIOUS
    <3>3. QED
      BY <2>1, <2>2, <3>1, <3>2
  <2>16. CASE WriterStep
    <3>1. UNCHANGED <<canon, walkVars, reads>>
      BY <2>16 DEF WriterStep
    <3>2. moments' \subseteq SUBSET Row
      <4>1. moments' \subseteq moments \cup {pages'}
        BY <2>16 DEF WriterStep
      <4>2. QED
        BY <2>2, <4>1 DEF FilesTypeOK
    <3>3. still' \in BOOLEAN
      BY <2>16 DEF WriterStep
    <3>4. dropped' \subseteq Table
      BY <2>2, <2>16 DEF WriterStep, FilesTypeOK
    <3>5. QED
      BY <2>1, <2>2, <3>1, <3>2, <3>3, <3>4 DEF walkVars
  <2>17. QED
    BY <2>4, <2>5, <2>6, <2>8, <2>9, <2>10, <2>11, <2>12, <2>13, <2>14, <2>15, <2>16 DEF ReadsNext, ReaderStep
<1>3. QED
  BY <1>1, <1>2, CallInvHolds, StageInvHolds, WalkInvHolds, ReadingChangesNothing, FilesTypeCorrect, PTL
     DEF ReadsSpec

(* A ranking that writers did not disturb is of ids of one of the tables.  *)
Known == {r.id : r \in pages} \cup {e.id : e \in embs}

(* What search holds while no table has changed since its call began.      *)
SearchInv ==
    /\ at \in {"vec", "aliases", "hydrate"} /\ still =>
          snap = pages /\ \A n \in DOMAIN lists : ToSet(lists[n]) \subseteq Known
    /\ at = "done" => SearchFillsTopK

(* The candidates are the members of the rankings.                         *)
LEMMA CandidatesAreRanked ==
  ASSUME NEW rankings \in Seq(Seq(Id)), NEW T, \A n \in DOMAIN rankings : ToSet(rankings[n]) \subseteq T
  PROVE  Candidates(rankings) \subseteq Id /\ Candidates(rankings) \subseteq T
         /\ IsFiniteSet(Candidates(rankings))
<1>1. Candidates(rankings) \subseteq T
  BY DEF Candidates
<1>2. ASSUME NEW n \in DOMAIN rankings
      PROVE  ToSet(rankings[n]) \subseteq Id
  BY DEF ToSet
<1>3. Candidates(rankings) \subseteq Id
  BY <1>2 DEF Candidates
<1>4. QED
  BY <1>1, <1>3, ReadsAssumption, FS_Subset

(* One ranking more.                                                       *)
LEMMA OneRankingMore ==
  ASSUME NEW rankings \in Seq(Seq(Id)), NEW l \in Seq(Id), NEW T, ToSet(l) \subseteq T,
         \A n \in DOMAIN rankings : ToSet(rankings[n]) \subseteq T
  PROVE  \A n \in DOMAIN Append(rankings, l) : ToSet(Append(rankings, l)[n]) \subseteq T
<1>1. Len(rankings) \in Nat /\ DOMAIN rankings = 1..Len(rankings)
  OBVIOUS
<1>2. /\ DOMAIN Append(rankings, l) = 1..(Len(rankings) + 1)
      /\ \A n \in 1..Len(rankings) : Append(rankings, l)[n] = rankings[n]
      /\ Append(rankings, l)[Len(rankings) + 1] = l
  OBVIOUS
<1>3. TAKE n \in DOMAIN Append(rankings, l)
<1>4. n \in 1..Len(rankings) \/ n = Len(rankings) + 1
  BY <1>1, <1>2
<1>5. QED
  BY <1>1, <1>2, <1>4

(* What an order of rows, or nothing at all, adds to a ranking is ids of    *)
(* those rows.                                                             *)
LEMMA RankedMembers ==
  ASSUME NEW S, IsFiniteSet(S), \A r \in S : r.id \in Id, NEW s \in Orders(S) \cup {<<>>},
         NEW n \in Nat, NEW T, {r.id : r \in S} \subseteq T
  PROVE  ToSet(First(IdsOf(s), n)) \subseteq T
<1>1. CASE s \in Orders(S)
  BY <1>1, RankedIds
<1>2. CASE s = <<>>
  <2>1. s \in Seq(Id) /\ Len(s) = 0
    BY <1>2
  <2>2. IdsOf(s) = <<>>
    <3>1. s \in Seq(S)
      BY <1>2
    <3>2. IdsOf(s) \in Seq(Id) /\ Len(IdsOf(s)) = 0
      BY <2>1, <3>1, IdsAreIds
    <3>3. QED
      BY <3>2, EmptySeq
  <2>3. First(s, n) = s
    <3>1. Len(s) <= n
      BY <2>1
    <3>2. QED
      BY <2>1, <3>1, FirstOf
  <2>4. ToSet(<<>>) = {}
    BY DEF ToSet
  <2>5. QED
    BY <1>2, <2>2, <2>3, <2>4
<1>3. QED
  BY <1>1, <1>2

(* What fusing ranks has each candidate once.                              *)
LEMMA FusedIsOnto ==
  ASSUME NEW rankings \in Seq(Seq(Id)), NEW fused \in Fusions(rankings)
  PROVE  /\ fused \in Seq(Id) /\ Len(fused) = Cardinality(Candidates(rankings)) /\ Len(fused) \in Nat
         /\ ToSet(fused) = Candidates(rankings)
<1> DEFINE C == Candidates(rankings)
<1>1. IsFiniteSet(C) /\ C \subseteq Id
  <2>1. \A n \in DOMAIN rankings : ToSet(rankings[n]) \subseteq C
    BY DEF Candidates
  <2>2. QED
    BY <2>1, CandidatesAreRanked
<1>2. fused \in Orders(C)
  BY DEF Fusions
<1> HIDE DEF C
<1>3. /\ fused \in Seq(C) /\ Len(fused) = Cardinality(C) /\ Len(fused) \in Nat
      /\ \A c \in C : \E k \in 1..Len(fused) : fused[k] = c
  BY <1>1, <1>2, OrderIsOnto
<1>4. DOMAIN fused = 1..Len(fused) /\ fused \in Seq(Id)
  BY <1>1, <1>3
<1>5. ToSet(fused) \subseteq C
  BY <1>3, <1>4 DEF ToSet
<1>6. C \subseteq ToSet(fused)
  BY <1>3, <1>4, Zenon DEF ToSet
<1>7. QED
  BY <1>3, <1>4, <1>5, <1>6 DEF C

(* Hydration of candidates that rows of one snapshot back.                 *)
LEMMA HydrateFills ==
  ASSUME FilesTypeOK, FiniteInv, StageInv, req \in Request, req.op = "search", Agreeing,
         snap = pages, \A n \in DOMAIN lists : ToSet(lists[n]) \subseteq Known,
         NEW pool \in Pools, NEW m \in Metadata(snap, pool),
         ~(HasFilters /\ Cardinality(Candidates(lists)) > Depth),
         Len(Hits(pool, Passing(m, req.filters), req.topK)) # req.topK
  PROVE  ToSet(Hits(pool, Passing(m, req.filters), req.topK))
           = {r.id : r \in {s \in Passing(pages, req.filters) : s.id \in Candidates(lists)}}
<1> DEFINE C == Candidates(lists)
           depth == IF HasFilters THEN Depth ELSE req.topK
           kept == Passing(m, req.filters)
           hits == Hits(pool, kept, req.topK)
<1>1. req.topK \in Nat /\ Depth \in Nat /\ req.topK <= Depth /\ depth \in Nat
  BY SearchFields DEF Depth
<1>2. lists \in Seq(Seq(Id))
  BY DEF StageInv
<1>3. C \subseteq {r.id : r \in pages}
  <2>1. C \subseteq Known
    BY <1>2, CandidatesAreRanked
  <2>2. Known = {r.id : r \in pages}
    BY DEF Known, Agreeing
  <2>3. QED
    BY <2>1, <2>2
<1>4. PICK fused \in Fusions(lists) : pool = First(fused, depth)
  BY DEF Pools
<1>5. fused \in Seq(Id) /\ Len(fused) = Cardinality(C) /\ Len(fused) \in Nat /\ ToSet(fused) = C
  BY <1>2, FusedIsOnto
<1> HIDE DEF C, depth
<1>6. /\ pool \in Seq(Id) /\ Len(pool) \in Nat /\ Len(pool) = SmallerOf(Len(fused), depth)
      /\ \A k \in 1..Len(pool) : pool[k] = fused[k] /\ k \in 1..Len(fused)
      /\ Len(fused) <= depth => pool = fused
  BY <1>1, <1>4, <1>5, FirstOf
<1>7. ToSet(pool) \subseteq C
  <2>1. DOMAIN pool = 1..Len(pool) /\ DOMAIN fused = 1..Len(fused)
    BY <1>5, <1>6
  <2>2. ToSet(pool) \subseteq ToSet(fused)
    BY <1>6, <2>1 DEF ToSet
  <2>3. QED
    BY <1>5, <2>2
<1>8. m = {r \in pages : r.id \in ToSet(pool)}
  <2>1. IsFiniteSet(snap) /\ \A r, s \in snap : r.id = s.id => r = s
    BY DEF FiniteInv, Agreeing
  <2>2. m = {r \in snap : r.id \in ToSet(pool)}
    BY <1>6, <2>1, MetadataIsComplete
  <2>3. QED
    BY <2>2
<1>9. /\ Len(hits) \in Nat /\ Len(hits) <= req.topK
      /\ Len(hits) < req.topK => ToSet(hits) = {i \in ToSet(pool) : HasRow(kept, i)}
      /\ (\A i \in ToSet(pool) : HasRow(kept, i)) => Len(hits) = SmallerOf(Len(pool), req.topK)
  <2> HIDE DEF kept
  <2>1. QED
    BY <1>1, <1>6, HitsAreKept
<1>10. Len(hits) < req.topK /\ ToSet(hits) = {i \in ToSet(pool) : HasRow(kept, i)}
  BY <1>1, <1>9
<1>11. pool = fused
  <2>1. CASE HasFilters
    <3>1. Cardinality(C) <= Depth
      BY <1>1, <1>5, <2>1 DEF C
    <3>2. QED
      BY <1>5, <1>6, <2>1, <3>1 DEF depth
  <2>2. CASE ~HasFilters
    <3>1. kept = m
      BY <2>2 DEF HasFilters, Passing, Passes, NoFilters
    <3>2. \A i \in ToSet(pool) : HasRow(kept, i)
      BY <1>3, <1>7, <1>8, <3>1 DEF HasRow
    <3>3. SmallerOf(Len(pool), req.topK) < req.topK
      BY <1>9, <1>10, <3>2
    <3>4. Len(pool) < req.topK
      BY <1>1, <1>6, <3>3 DEF SmallerOf
    <3>5. depth = req.topK
      BY <2>2 DEF depth
    <3>6. Len(fused) <= depth
      BY <1>1, <1>5, <1>6, <3>4, <3>5 DEF SmallerOf
    <3>7. QED
      BY <1>6, <3>6
  <2>3. QED
    BY <2>1, <2>2
<1>12. ToSet(pool) = C
  BY <1>5, <1>11
<1>13. kept = {r \in pages : r.id \in C /\ Passes(Meta[r.ver], req.filters)}
  BY <1>8, <1>12 DEF Passing
<1>14. {i \in C : HasRow(kept, i)} = {r.id : r \in {s \in Passing(pages, req.filters) : s.id \in C}}
  <2> HIDE DEF kept
  <2>1. QED
    BY <1>13 DEF HasRow, Passing
<1>15. QED
  BY <1>10, <1>12, <1>14 DEF C

(* Hits are pages of the hydrated table that pass the filters.             *)
LEMMA HydratedPass ==
  ASSUME StageInv, req \in Request, req.op = "search", NEW pool \in Pools, NEW m \in Metadata(snap, pool)
  PROVE  ToSet(Hits(pool, Passing(m, req.filters), req.topK))
           \subseteq {r.id : r \in Passing(snap, req.filters)}
<1> DEFINE kept == Passing(m, req.filters)
<1>1. req.topK \in Nat /\ (IF HasFilters THEN Depth ELSE req.topK) \in Nat
  BY SearchFields DEF Depth
<1>2. PICK fused \in Fusions(lists) : pool = First(fused, IF HasFilters THEN Depth ELSE req.topK)
  BY DEF Pools
<1>3. pool \in Seq(Id)
  BY <1>1, <1>2, FusedIsOnto, FirstOf DEF StageInv
<1>4. kept \subseteq Passing(snap, req.filters)
  BY DEF Passing, Metadata, Limited
<1> HIDE DEF kept
<1>5. ToSet(Hits(pool, kept, req.topK)) \subseteq {i \in ToSet(pool) : HasRow(kept, i)}
  BY <1>1, <1>3, HitsAreKept
<1>6. QED
  BY <1>4, <1>5 DEF HasRow, kept

(* search is the only tool whose answer is its hits, or source_similarity; *)
(* the other steps end a call with something else.                         *)
LEMMA OtherReplies ==
  ASSUME ReadExact \/ ReadAlias \/ ReadFuzzy \/ ReadCanon \/ EndWalk \/ IncomingLinks \/ ListPages
           \/ ListDomains \/ Raise
  PROVE  at' \in {"alias", "fuzzy", "canon", "done"} /\ (at' = "done" => reply'.kind # "hits")
<1>1. CASE ReadExact \/ ReadAlias \/ ReadFuzzy \/ ReadCanon
  BY <1>1 DEF ReadExact, ReadAlias, ReadFuzzy, ReadCanon, Follow, Answer, Page, NotFound, Matches
<1>2. CASE EndWalk \/ IncomingLinks \/ ListPages \/ ListDomains \/ Raise
  BY <1>2, OneStepTools DEF EndWalk, Raise, Answer
<1>3. QED
  BY <1>1, <1>2

(* Every hit of a search is a page of one table that passes the filters.   *)
(* With fewer hits than top_k it has listed every candidate of its three   *)
(* rankings that passes, when nothing was committed between its opens and  *)
(* no more candidates were there than it fetched.                          *)
THEOREM SearchIsFilled == ReadsSpec => []SearchFillsTopK
<1>1. ReadsInit => SearchInv
  BY DEF ReadsInit, SearchInv
<1>2. CallInv /\ FilesTypeOK /\ FiniteInv /\ StageInv /\ SearchInv /\ [ReadsNext]_readsVars => SearchInv'
  <2> SUFFICES ASSUME CallInv, FilesTypeOK, FiniteInv, StageInv, SearchInv, [ReadsNext]_readsVars
               PROVE  SearchInv'
    OBVIOUS
  <2>1. ASSUME at' \notin {"vec", "aliases", "hydrate"}, at' = "done" => reply'.kind # "hits"
        PROVE  SearchInv'
    BY <2>1 DEF SearchInv, SearchFillsTopK
  <2>2. ASSUME UNCHANGED <<req, at, snap, lists, reply, still, pages, embs>>
        PROVE  SearchInv'
    BY <2>2 DEF SearchInv, SearchFillsTopK, Known, Agreeing, HasFilters, Depth, FetchDepth, Passing
  <2>3. CASE UNCHANGED readsVars
    BY <2>2, <2>3 DEF readsVars, readerVars, ghostVars, filesVars
  <2>4. CASE WriterStep
    <3>1. at' = at /\ at # "done" /\ snap' = snap /\ lists' = lists
      BY <2>4 DEF WriterStep
    <3>2. at # "idle" /\ still' => still /\ pages' = pages /\ embs' = embs
      BY <2>4 DEF WriterStep
    <3>3. QED
      BY <3>1, <3>2 DEF SearchInv, Known
  <2>5. CASE \E q \in Request : Ask(q)
    <3>1. at' \in {"exact", "alias", "open"}
      BY <2>5 DEF Ask
    <3>2. QED
      BY <2>1, <3>1
  <2>6. CASE ReadExact \/ ReadAlias \/ ReadFuzzy \/ ReadCanon \/ EndWalk \/ IncomingLinks \/ ListPages
               \/ ListDomains \/ Raise
    BY <2>1, <2>6, OtherReplies
  <2>7. CASE OpenGraph \/ Hop
    BY <2>1, <2>7 DEF OpenGraph, Hop
  <2>8. CASE OpenSearch
    <3> DEFINE S == {r \in pages : r.ver \in Mentions[req.query]}
    <3>1. /\ at' = "vec" /\ snap' = pages /\ pages' = pages /\ embs' = embs
          /\ req \in Request /\ req.op = "search"
      BY <2>8 DEF OpenSearch, Querying, filesVars, CallInv
    <3>2. PICK ranked \in Orders(S) \cup {<<>>} : lists' = <<First(IdsOf(ranked), Depth)>>
      BY <2>8 DEF OpenSearch
    <3>3. Depth \in Nat
      BY <3>1, SearchFields DEF Depth
    <3>4. IsFiniteSet(S) /\ \A r \in S : r.id \in Id
      BY FS_Subset DEF FiniteInv, FilesTypeOK, Row
    <3>5. {r.id : r \in S} \subseteq Known
      BY DEF Known
    <3> HIDE DEF S
    <3>6. ToSet(First(IdsOf(ranked), Depth)) \subseteq Known
      BY <3>3, <3>4, <3>5, RankedMembers
    <3>7. \A n \in DOMAIN lists' : ToSet(lists'[n]) \subseteq Known
      BY <3>2, <3>6
    <3>8. QED
      BY <3>1, <3>7 DEF SearchInv, Known
  <2>9. CASE RankVectors
    <3>1. /\ at = "vec" /\ at' = "aliases" /\ snap' = snap /\ pages' = pages /\ embs' = embs
          /\ still' = still /\ req \in Request /\ req.op = "search"
      BY <2>9 DEF RankVectors, filesVars, ghostVars, CallInv, StageInv
    <3>2. PICK ranked \in Orders(embs) \cup {<<>>} : lists' = Append(lists, First(IdsOf(ranked), Depth))
      BY <2>9 DEF RankVectors
    <3>3. Depth \in Nat
      BY <3>1, SearchFields DEF Depth
    <3>4. IsFiniteSet(embs) /\ \A e \in embs : e.id \in Id
      BY DEF FiniteInv, FilesTypeOK
    <3>5. {e.id : e \in embs} \subseteq Known
      BY DEF Known
    <3>6. ToSet(First(IdsOf(ranked), Depth)) \subseteq Known /\ First(IdsOf(ranked), Depth) \in Seq(Id)
      BY <3>3, <3>4, <3>5, RankedMembers, RankingOfIds
    <3>7. ASSUME still
          PROVE  \A n \in DOMAIN lists' : ToSet(lists'[n]) \subseteq Known
      <4>1. lists \in Seq(Seq(Id)) /\ \A n \in DOMAIN lists : ToSet(lists[n]) \subseteq Known
        BY <3>1, <3>7 DEF StageInv, SearchInv
      <4>2. QED
        BY <3>2, <3>6, <4>1, OneRankingMore
    <3>8. QED
      BY <3>1, <3>7 DEF SearchInv, Known
  <2>10. CASE MatchAliases
    <3> DEFINE S == {r \in pages : Meta[r.ver].aliases \cap Needles[req.query] # {}}
    <3>1. /\ at = "aliases" /\ at' = "hydrate" /\ snap' = snap /\ pages' = pages /\ embs' = embs
          /\ still' = still
      BY <2>10 DEF MatchAliases, Querying, filesVars, ghostVars
    <3>2. PICK ranked \in Orders(S) : lists' = Append(lists, First(IdsOf(ranked), FetchCap))
      BY <2>10 DEF MatchAliases
    <3>3. IsFiniteSet(S) /\ \A r \in S : r.id \in Id
      BY FS_Subset DEF FiniteInv, FilesTypeOK, Row
    <3>4. {r.id : r \in S} \subseteq Known
      BY DEF Known
    <3> HIDE DEF S
    <3>5. ranked \in Orders(S) \cup {<<>>} /\ FetchCap \in Nat
      BY AnswersAssumption
    <3>6. ToSet(First(IdsOf(ranked), FetchCap)) \subseteq Known /\ First(IdsOf(ranked), FetchCap) \in Seq(Id)
      BY <3>3, <3>4, <3>5, RankedMembers, RankingOfIds
    <3>7. ASSUME still
          PROVE  \A n \in DOMAIN lists' : ToSet(lists'[n]) \subseteq Known
      <4>1. lists \in Seq(Seq(Id)) /\ \A n \in DOMAIN lists : ToSet(lists[n]) \subseteq Known
        BY <3>1, <3>7 DEF StageInv, SearchInv
      <4>2. QED
        BY <3>2, <3>6, <4>1, OneRankingMore
    <3>8. QED
      BY <3>1, <3>7 DEF SearchInv, Known
  <2>11. CASE Hydrate
    <3>1. /\ at = "hydrate" /\ at' = "done" /\ UNCHANGED <<req, snap, lists, pages, embs, still>>
          /\ req \in Request /\ req.op = "search"
      BY <2>11 DEF Hydrate, Answer, filesVars, ghostVars, CallInv, StageInv
    <3>2. PICK pool \in Pools : \E m \in Metadata(snap, pool) :
            reply' = Listed(Hits(pool, Passing(m, req.filters), req.topK), FALSE)
      BY <2>11 DEF Hydrate, Answer
    <3>3. PICK m \in Metadata(snap, pool) :
            reply' = Listed(Hits(pool, Passing(m, req.filters), req.topK), FALSE)
      BY <3>2
    <3> DEFINE hits == Hits(pool, Passing(m, req.filters), req.topK)
               C == Candidates(lists)
    <3>4. ASSUME still, Agreeing, ~(HasFilters /\ Cardinality(C) > Depth), Len(hits) # req.topK
          PROVE  ToSet(hits) = {r.id : r \in {s \in Passing(pages, req.filters) : s.id \in C}}
      <4>1. snap = pages /\ \A n \in DOMAIN lists : ToSet(lists[n]) \subseteq Known
        BY <3>1, <3>4 DEF SearchInv
      <4>2. QED
        BY <3>1, <3>4, <4>1, HydrateFills
    <3>5. /\ reply'.hits = hits
          /\ ToSet(hits) \subseteq {r.id : r \in Passing(snap, req.filters)}
      BY <3>1, <3>3, HydratedPass DEF Listed
    <3> HIDE DEF hits
    <3>6. /\ Agreeing' = Agreeing /\ HasFilters' = HasFilters /\ Depth' = Depth /\ C' = C
          /\ Passing(pages, req.filters)' = Passing(pages, req.filters)
          /\ Passing(snap, req.filters)' = Passing(snap, req.filters)
      BY <3>1 DEF Agreeing, HasFilters, Depth, FetchDepth, Passing
    <3>7. SearchFillsTopK'
      <4> HIDE DEF C
      <4>1. ASSUME still', Agreeing', ~(HasFilters' /\ Cardinality(C') > Depth'), Len(reply'.hits) # req'.topK
            PROVE  ToSet(reply'.hits) = {r.id : r \in {s \in Passing(pages, req.filters)' : s.id \in C'}}
        BY <3>1, <3>4, <3>5, <3>6, <4>1
      <4>2. ToSet(reply'.hits) \subseteq {r.id : r \in Passing(snap, req.filters)'}
        BY <3>5, <3>6
      <4>3. QED
        BY <4>1, <4>2 DEF SearchFillsTopK, C
    <3>8. QED
      BY <3>1, <3>7 DEF SearchInv
  <2>12. CASE Neighbours
    BY <2>1, <2>12, RankingSteps DEF NotFound
  <2>13. CASE SimilarPages
    <3>1. req' = req /\ req.op = "similar" /\ at' = "done"
      BY <2>13 DEF SimilarPages, Querying, Answer, StageInv
    <3>2. QED
      BY <3>1 DEF SearchInv, SearchFillsTopK
  <2>14. CASE Deliver
    BY <2>1, <2>14 DEF Deliver
  <2>15. QED
    BY <2>3, <2>4, <2>5, <2>6, <2>7, <2>8, <2>9, <2>10, <2>11, <2>12, <2>13, <2>14 DEF ReadsNext, ReaderStep
<1>3. StageInv /\ CallInv /\ SearchInv => SearchFillsTopK
  BY DEF CallInv, SearchInv, SearchFillsTopK, NoReply
<1>4. QED
  BY <1>1, <1>2, <1>3, CallInvHolds, StageInvHolds, ReadingChangesNothing, FilesTypeCorrect, TablesAreFinite,
     PTL DEF ReadsSpec

-----------------------------------------------------------------------------
(* source_similarity                                                        *)

(* The neighbours source_similarity holds: never the source, and while no  *)
(* table has changed, other pages with an embedding; all, if there are     *)
(* fewer than were asked for.                                              *)
EmbeddedOthers == {e.id : e \in {f \in embs : f.id # req.source}}

SimilarInv ==
    /\ at = "meta" =>
          /\ req.source \notin ToSet(lists[1])
          /\ still => /\ ToSet(lists[1]) \subseteq EmbeddedOthers
                      /\ Len(lists[1]) < Depth => ToSet(lists[1]) = EmbeddedOthers
    /\ at = "done" => SimilarityIsComplete

(* Hits of neighbours that rows of the pages table back.                   *)
LEMMA NeighboursAreListed ==
  ASSUME FilesTypeOK, FiniteInv, StageInv, SimilarInv, at = "meta", req \in Request,
         NEW rows \in Metadata(pages, lists[1]), NEW m \in ById(rows)
  PROVE  LET hits == Hits(lists[1], OfTypes(m), req.topK) IN
         /\ ToSet(hits) \subseteq {r.id : r \in OfTypes(pages)} \ {req.source}
         /\ still /\ Agreeing /\ Len(hits) < req.topK
              /\ ~(req.types # None /\ Len(lists[1]) >= Depth) =>
              ToSet(hits) = {r.id : r \in OfTypes(pages)} \ {req.source}
<1> DEFINE l == lists[1]
           kept == OfTypes(m)
           hits == Hits(l, kept, req.topK)
<1>1. /\ req.op = "similar" /\ l \in Seq(Id) /\ Len(l) \in Nat
      /\ req.source \notin ToSet(l)
  BY DEF StageInv, SimilarInv
<1>2. req.topK \in Nat /\ Depth \in Nat /\ req.topK <= Depth
  BY <1>1, SearchFields DEF Depth
<1>3. /\ ToSet(hits) \subseteq {i \in ToSet(l) : HasRow(kept, i)}
      /\ Len(hits) < req.topK => ToSet(hits) = {i \in ToSet(l) : HasRow(kept, i)}
      /\ (\A i \in ToSet(l) : HasRow(kept, i)) => Len(hits) = SmallerOf(Len(l), req.topK)
  <2> HIDE DEF kept, l
  <2>1. QED
    BY <1>1, <1>2, HitsAreKept
<1>4. ASSUME still, Agreeing, Len(hits) < req.topK, ~(req.types # None /\ Len(l) >= Depth)
      PROVE  ToSet(hits) = {r.id : r \in OfTypes(pages)} \ {req.source}
  <2>1. EmbeddedOthers = {r.id : r \in pages} \ {req.source}
    BY <1>4 DEF EmbeddedOthers, Agreeing
  <2>2. m = {r \in pages : r.id \in ToSet(l)}
    <3>1. IsFiniteSet(pages) /\ \A r, s \in pages : r.id = s.id => r = s
      BY <1>4 DEF FiniteInv, Agreeing
    <3>2. QED
      BY <1>1, <3>1, MetadataIsComplete
  <2>3. ToSet(l) \subseteq EmbeddedOthers /\ (Len(l) < Depth => ToSet(l) = EmbeddedOthers)
    BY <1>4 DEF SimilarInv
  <2>4. Len(l) < Depth
    <3>1. CASE req.types # None
      BY <1>1, <1>2, <1>4, <3>1
    <3>2. CASE req.types = None
      <4>1. kept = m
        BY <3>2 DEF OfTypes
      <4>2. \A i \in ToSet(l) : HasRow(kept, i)
        BY <2>1, <2>2, <2>3, <4>1 DEF HasRow
      <4>3. SmallerOf(Len(l), req.topK) < req.topK
        BY <1>3, <1>4, <4>2
      <4>4. QED
        BY <1>1, <1>2, <4>3 DEF SmallerOf
    <3>3. QED
      BY <3>1, <3>2
  <2>5. ToSet(l) = {r.id : r \in pages} \ {req.source}
    BY <2>1, <2>3, <2>4
  <2>6. {i \in ToSet(l) : HasRow(kept, i)} = {r.id : r \in OfTypes(pages)} \ {req.source}
    <3> HIDE DEF l
    <3>1. kept = {r \in OfTypes(pages) : r.id # req.source}
      BY <2>2, <2>5 DEF OfTypes
    <3> HIDE DEF kept
    <3>2. OfTypes(pages) \subseteq pages
      BY DEF OfTypes
    <3>3. QED
      BY <2>5, <3>1, <3>2 DEF HasRow
  <2>7. QED
    BY <1>3, <1>4, <2>6
<1>5. ToSet(hits) \subseteq {r.id : r \in OfTypes(pages)} \ {req.source}
  <2>1. kept \subseteq OfTypes(pages)
    BY DEF OfTypes, Metadata, Limited, ById
  <2> HIDE DEF kept, hits
  <2>2. QED
    BY <1>1, <1>3, <2>1 DEF HasRow
<1>6. QED
  BY <1>4, <1>5

(* source_similarity lists other pages of the types asked for, as they are *)
(* when the metadata is read.  With fewer hits than top_k it has listed    *)
(* every one, or says it was truncated, when nothing was committed         *)
(* meanwhile and the tables agreed.                                        *)
THEOREM SimilarityCompletes == ReadsSpec => []SimilarityIsComplete
<1>1. ReadsInit => SimilarInv
  BY DEF ReadsInit, SimilarInv
<1>2. CallInv /\ FilesTypeOK /\ FiniteInv /\ StageInv /\ SimilarInv /\ [ReadsNext]_readsVars => SimilarInv'
  <2> SUFFICES ASSUME CallInv, FilesTypeOK, FiniteInv, StageInv, SimilarInv, [ReadsNext]_readsVars
               PROVE  SimilarInv'
    OBVIOUS
  <2>1. ASSUME at' # "meta", at' = "done" => reply'.kind # "hits"
        PROVE  SimilarInv'
    BY <2>1 DEF SimilarInv, SimilarityIsComplete
  <2>2. ASSUME UNCHANGED <<req, at, lists, reply, still, pages, embs>>
        PROVE  SimilarInv'
    BY <2>2 DEF SimilarInv, SimilarityIsComplete, EmbeddedOthers, Agreeing, Depth, FetchDepth, OfTypes
  <2>3. CASE UNCHANGED readsVars
    BY <2>2, <2>3 DEF readsVars, readerVars, ghostVars, filesVars
  <2>4. CASE WriterStep
    <3>1. at' = at /\ at # "done" /\ req' = req /\ lists' = lists
      BY <2>4 DEF WriterStep
    <3>2. at # "idle" /\ still' => still /\ pages' = pages /\ embs' = embs
      BY <2>4 DEF WriterStep
    <3>3. QED
      BY <3>1, <3>2 DEF SimilarInv, EmbeddedOthers, Depth, FetchDepth
  <2>5. CASE \E q \in Request : Ask(q)
    <3>1. at' \in {"exact", "alias", "open"}
      BY <2>5 DEF Ask
    <3>2. QED
      BY <2>1, <3>1
  <2>6. CASE ReadExact \/ ReadAlias \/ ReadFuzzy \/ ReadCanon \/ EndWalk \/ IncomingLinks \/ ListPages
               \/ ListDomains \/ Raise
    BY <2>1, <2>6, OtherReplies
  <2>7. CASE OpenGraph \/ Hop \/ OpenSearch \/ RankVectors \/ MatchAliases
    BY <2>1, <2>7 DEF OpenGraph, Hop, OpenSearch, RankVectors, MatchAliases
  <2>8. CASE Hydrate
    <3>1. req' = req /\ req.op = "search" /\ at' = "done"
      BY <2>8 DEF Hydrate, Answer, StageInv
    <3>2. QED
      BY <3>1 DEF SimilarInv, SimilarityIsComplete
  <2>9. CASE Neighbours
    <3> DEFINE S == {e \in embs : e.id # req.source}
    <3>1. /\ pages' = pages /\ embs' = embs /\ req' = req /\ req \in Request /\ req.op = "similar"
      BY <2>9 DEF Neighbours, filesVars, CallInv
    <3>2. CASE \E e \in embs : e.id = req.source
      <4>1. PICK ranked \in Orders(S) :
              /\ lists' = <<First(IdsOf(ranked), Depth)>>
              /\ at' = "meta"
              /\ UNCHANGED reply
        BY <2>9, <3>2, Zenon DEF Neighbours
      <4>2. Depth \in Nat /\ Depth' = Depth
        BY <3>1, SearchFields DEF Depth, FetchDepth
      <4>3. IsFiniteSet(S) /\ \A r \in S : r.id \in Id
        BY FS_Subset DEF FiniteInv, FilesTypeOK
      <4>4. EmbeddedOthers = {r.id : r \in S} /\ req.source \notin EmbeddedOthers
        BY DEF EmbeddedOthers
      <4> DEFINE l == First(IdsOf(ranked), Depth)
      <4>5. ToSet(l) \subseteq EmbeddedOthers /\ (Len(l) < Depth => ToSet(l) = EmbeddedOthers)
        <5> HIDE DEF S
        <5>1. QED
          BY <4>2, <4>3, <4>4, RankedIds
      <4>6. lists'[1] = l
        BY <4>1
      <4> HIDE DEF l
      <4>7. EmbeddedOthers' = EmbeddedOthers
        BY <3>1 DEF EmbeddedOthers
      <4>8. QED
        BY <3>1, <4>1, <4>2, <4>4, <4>5, <4>6, <4>7 DEF SimilarInv
    <3>3. CASE ~ \E e \in embs : e.id = req.source
      <4>1. at' = "done" /\ reply' = NotFound(req.source)
        BY <2>9, <3>3, Zenon DEF Neighbours, Answer
      <4>2. QED
        BY <2>1, <4>1 DEF NotFound
    <3>4. QED
      BY <3>2, <3>3
  <2>10. CASE SimilarPages
    <3>1. /\ at = "meta" /\ at' = "done" /\ UNCHANGED <<req, lists, pages, embs, still>>
          /\ req \in Request
      BY <2>10 DEF SimilarPages, Querying, Answer, filesVars, ghostVars, CallInv
    <3>2. PICK rows \in Metadata(pages, lists[1]) : \E m \in ById(rows) :
            reply' = Listed(Hits(lists[1], OfTypes(m), req.topK),
                            /\ req.types # None
                            /\ Len(Hits(lists[1], OfTypes(m), req.topK)) < req.topK
                            /\ Len(lists[1]) >= Depth)
      BY <2>10 DEF SimilarPages, Answer
    <3>3. PICK m \in ById(rows) :
            reply' = Listed(Hits(lists[1], OfTypes(m), req.topK),
                            /\ req.types # None
                            /\ Len(Hits(lists[1], OfTypes(m), req.topK)) < req.topK
                            /\ Len(lists[1]) >= Depth)
      BY <3>2
    <3> DEFINE hits == Hits(lists[1], OfTypes(m), req.topK)
               cut == req.types # None /\ Len(hits) < req.topK /\ Len(lists[1]) >= Depth
    <3>4. reply'.hits = hits /\ reply'.truncated = cut
      BY <3>3 DEF Listed
    <3>5. /\ ToSet(hits) \subseteq {r.id : r \in OfTypes(pages)} \ {req.source}
          /\ still /\ Agreeing /\ Len(hits) < req.topK
               /\ ~(req.types # None /\ Len(lists[1]) >= Depth) =>
               ToSet(hits) = {r.id : r \in OfTypes(pages)} \ {req.source}
      BY <3>1, NeighboursAreListed
    <3> HIDE DEF hits
    <3>6. /\ Agreeing' = Agreeing
          /\ {r.id : r \in OfTypes(pages)}' = {r.id : r \in OfTypes(pages)}
      BY <3>1 DEF Agreeing, OfTypes
    <3>7. /\ ToSet(reply'.hits) \subseteq {r.id : r \in OfTypes(pages)}' \ {req'.source}
          /\ still' /\ Agreeing' /\ ~reply'.truncated /\ Len(reply'.hits) < req'.topK =>
               ToSet(reply'.hits) = {r.id : r \in OfTypes(pages)}' \ {req'.source}
      BY <3>1, <3>4, <3>5, <3>6
    <3>8. SimilarityIsComplete'
      BY <3>7 DEF SimilarityIsComplete
    <3>9. QED
      BY <3>1, <3>8 DEF SimilarInv
  <2>11. CASE Deliver
    BY <2>1, <2>11 DEF Deliver
  <2>12. QED
    BY <2>3, <2>4, <2>5, <2>6, <2>7, <2>8, <2>9, <2>10, <2>11 DEF ReadsNext, ReaderStep
<1>3. CallInv /\ SimilarInv => SimilarityIsComplete
  BY DEF CallInv, SimilarInv, SimilarityIsComplete
<1>4. QED
  BY <1>1, <1>2, <1>3, CallInvHolds, StageInvHolds, ReadingChangesNothing, FilesTypeCorrect, TablesAreFinite,
     PTL DEF ReadsSpec

-----------------------------------------------------------------------------
(* Every question has an answer                                             *)

\* R puts the elements of C one before the other.
PutsInOrder(R, C) ==
    /\ \A a \in C : <<a, a>> \notin R
    /\ \A a, b, c \in C : <<a, b>> \in R /\ <<b, c>> \in R => <<a, c>> \in R
    /\ \A a, b \in C : a # b => <<a, b>> \in R \/ <<b, a>> \in R

\* The orders of C that respect R.
Respecting(R, C) ==
    {o \in Orders(C) : \A j, k \in DOMAIN o : j < k => <<o[j], o[k]>> \in R}

(* A finite set that is strictly and totally ordered can be listed in that *)
(* order, in one way: each element stands behind as many as precede it.    *)
LEMMA SortedOnce ==
  ASSUME NEW C, IsFiniteSet(C), NEW R, PutsInOrder(R, C)
  PROVE  \E s : Respecting(R, C) = {s}
<1> DEFINE n == Cardinality(C)
           Ahead(a) == {b \in C : <<b, a>> \in R}
           Place(a) == Cardinality(Ahead(a)) + 1
<1>1. n \in Nat
  BY FS_CardinalityType
<1>2. \A a \in C : Ahead(a) \subseteq C \ {a} /\ \A b \in C : b \in Ahead(a) <=> <<b, a>> \in R
  BY DEF PutsInOrder
<1> HIDE DEF n, Ahead
<1> USE DEF PutsInOrder
<1>3. ASSUME NEW a \in C
      PROVE  IsFiniteSet(Ahead(a)) /\ Cardinality(Ahead(a)) \in 0..(n - 1)
  <2>1. IsFiniteSet(C \ {a}) /\ Cardinality(C \ {a}) = n - 1
    BY FS_RemoveElement DEF n
  <2>2. Ahead(a) \subseteq C \ {a}
    BY <1>2
  <2>3. IsFiniteSet(Ahead(a)) /\ Cardinality(Ahead(a)) <= n - 1
    BY <2>1, <2>2, FS_Subset
  <2>4. Cardinality(Ahead(a)) \in Nat
    BY <2>3, FS_CardinalityType
  <2>5. QED
    BY <1>1, <2>3, <2>4
<1>4. ASSUME NEW a \in C, NEW b \in C, <<a, b>> \in R
      PROVE  Place(a) < Place(b)
  <2>1. a \in Ahead(b) /\ a \notin Ahead(a) /\ Ahead(a) \subseteq Ahead(b) \ {a}
    BY <1>4, <1>2
  <2>2. IsFiniteSet(Ahead(b) \ {a}) /\ Cardinality(Ahead(b) \ {a}) = Cardinality(Ahead(b)) - 1
    BY <1>3, <2>1, FS_RemoveElement
  <2>3. Cardinality(Ahead(a)) <= Cardinality(Ahead(b)) - 1
    BY <2>1, <2>2, FS_Subset
  <2>4. QED
    BY <1>3, <2>3
<1>5. \A a \in C : Place(a) \in 1..n
  BY <1>1, <1>3
<1> HIDE DEF Place
<1>6. \A a, b \in C : Place(a) = Place(b) => a = b
  <2>1. SUFFICES ASSUME NEW a \in C, NEW b \in C, Place(a) = Place(b), a # b
                 PROVE  FALSE
    OBVIOUS
  <2>2. Place(a) < Place(b) \/ Place(b) < Place(a)
    BY <1>4, <2>1
  <2>3. Place(a) \in 1..n /\ Place(b) \in 1..n
    BY <1>5
  <2>4. QED
    BY <1>1, <2>1, <2>2, <2>3
<1>7. \A k \in 1..n : \E a \in C : Place(a) = k
  <2> DEFINE p == [a \in C |-> Place(a)]
  <2>1. p \in Injection(C, 1..n)
    BY <1>5, <1>6 DEF Injection, IsInjective
  <2>2. IsFiniteSet(1..n) /\ Cardinality(1..n) = n
    BY <1>1, FS_Interval
  <2>3. p \in Surjection(C, 1..n)
    BY <2>1, <2>2, FS_Injection DEF n
  <2>4. QED
    BY <2>3 DEF Surjection
<1> DEFINE s == [k \in 1..n |-> CHOOSE a \in C : Place(a) = k]
<1>8. s \in [1..n -> C] /\ \A k \in 1..n : Place(s[k]) = k
  BY <1>7
<1> HIDE DEF s
<1>9. s \in Orders(C)
  BY <1>8 DEF Orders, n
<1>10. ASSUME NEW j \in DOMAIN s, NEW k \in DOMAIN s, j < k
      PROVE  <<s[j], s[k]>> \in R
  <2>1. j \in 1..n /\ k \in 1..n /\ s[j] \in C /\ s[k] \in C
    BY <1>8
  <2>2. Place(s[j]) = j /\ Place(s[k]) = k
    BY <1>8, <2>1
  <2>3. s[j] # s[k] /\ ~(Place(s[k]) < Place(s[j]))
    BY <1>1, <1>10, <2>1, <2>2
  <2>4. QED
    BY <1>4, <2>1, <2>3
<1>11. ASSUME NEW o \in Orders(C), \A j, k \in DOMAIN o : j < k => <<o[j], o[k]>> \in R
       PROVE  o = s
  <2>1. o \in [1..n -> C] /\ \A j, k \in 1..n : o[j] = o[k] => j = k
    BY DEF Orders, n
  <2>2. \A b \in C : \E j \in 1..n : o[j] = b
    <3>1. o \in Seq(C) /\ Len(o) = n /\ \A b \in C : \E j \in 1..Len(o) : o[j] = b
      BY OrderIsOnto DEF n
    <3>2. QED
      BY <3>1
  <2>3. ASSUME NEW k \in 1..n
        PROVE  Place(o[k]) = k
    <3> DEFINE f == [j \in 1..(k - 1) |-> o[j]]
    <3>1. k - 1 \in Nat /\ \A j \in 1..(k - 1) : j \in 1..n /\ j < k
      BY <1>1
    <3>2. IsFiniteSet(1..(k - 1)) /\ Cardinality(1..(k - 1)) = k - 1
      BY <3>1, FS_Interval
    <3>3. \A j \in 1..(k - 1) : o[j] \in Ahead(o[k])
      BY <1>11, <2>1, <3>1 DEF Ahead
    <3>4. ASSUME NEW b \in Ahead(o[k])
          PROVE  \E j \in 1..(k - 1) : o[j] = b
      <4>1. b \in C /\ o[k] \in C /\ <<b, o[k]>> \in R
        BY <2>1 DEF Ahead
      <4>2. PICK j \in 1..n : o[j] = b
        BY <2>2, <4>1
      <4>3. j # k
        BY <4>1, <4>2
      <4>4. ~(k < j)
        <5>1. SUFFICES ASSUME k < j
                       PROVE  FALSE
          OBVIOUS
        <5>2. <<o[k], b>> \in R
          BY <1>11, <2>1, <4>2, <5>1
        <5>3. QED
          BY <4>1, <5>2
      <4>5. j \in 1..(k - 1)
        BY <1>1, <4>3, <4>4
      <4>6. QED
        BY <4>2, <4>5
    <3>5. f \in Injection(1..(k - 1), Ahead(o[k]))
      BY <2>1, <3>1, <3>3 DEF Injection, IsInjective
    <3>6. f \in Surjection(1..(k - 1), Ahead(o[k]))
      BY <3>3, <3>4 DEF Surjection
    <3>7. Cardinality(Ahead(o[k])) = k - 1
      BY <3>2, <3>5, <3>6, FS_Surjection
    <3>8. QED
      BY <3>7 DEF Place
  <2>4. \A k \in 1..n : o[k] = s[k]
    BY <1>6, <1>8, <2>1, <2>3
  <2>5. o = [k \in 1..n |-> o[k]] /\ s = [k \in 1..n |-> s[k]]
    BY <1>8, <2>1
  <2>6. QED
    BY <2>4, <2>5
<1>12. QED
  BY <1>9, <1>10, <1>11 DEF Respecting

\* The equation Total is defined by, up to term m.
SolvesTotal(f, m, terms) ==
    f = [n \in 0..m |-> IF n = 0 THEN 0 ELSE f[n - 1] + terms[n]]

(* Some function satisfies it.                                             *)
LEMMA TotalExists ==
  ASSUME NEW terms, NEW last \in Nat
  PROVE  \E f : SolvesTotal(f, last, terms)
<1> DEFINE Bad == {m \in Nat : ~(\E f : SolvesTotal(f, m, terms))}
<1> USE DEF SolvesTotal
<1>1. ASSUME Bad # {}
      PROVE  FALSE
  <2>1. PICK m \in Bad : \A n \in Bad : m <= n
    BY <1>1, LeastNat
  <2>2. m \in Nat
    BY <2>1
  <2>3. CASE m = 0
    <3> DEFINE g == [n \in 0..0 |-> 0]
    <3>1. SolvesTotal(g, 0, terms)
      OBVIOUS
    <3>2. QED
      BY <2>1, <2>3, <3>1
  <2>4. CASE m # 0
    <3>1. m - 1 \in Nat /\ ~(m <= m - 1)
      BY <2>2, <2>4
    <3>2. m - 1 \notin Bad
      BY <2>1, <3>1
    <3>3. PICK f : SolvesTotal(f, m - 1, terms)
      BY <3>1, <3>2
    <3> DEFINE g == [n \in 0..m |-> IF n = m THEN f[m - 1] + terms[m] ELSE f[n]]
    <3>4. ASSUME NEW n \in 0..m
          PROVE  g[n] = IF n = 0 THEN 0 ELSE g[n - 1] + terms[n]
      <4>1. CASE n = 0
        <5>1. g[0] = f[0] /\ 0 \in 0..(m - 1)
          BY <2>2, <2>4
        <5>2. f[0] = 0
          BY <3>3, <5>1
        <5>3. QED
          BY <4>1, <5>1, <5>2
      <4>2. CASE n = m
        <5>1. n - 1 \in 0..m /\ n - 1 # m
          BY <2>2, <2>4, <4>2
        <5>2. g[n - 1] = f[m - 1] /\ g[n] = f[m - 1] + terms[m]
          BY <4>2, <5>1
        <5>3. QED
          BY <2>4, <4>2, <5>2
      <4>3. CASE n # 0 /\ n # m
        <5>1. n \in 0..(m - 1) /\ n - 1 \in 0..m /\ n - 1 # m
          BY <2>2, <4>3
        <5>2. g[n] = f[n] /\ g[n - 1] = f[n - 1]
          BY <4>3, <5>1
        <5>3. f[n] = f[n - 1] + terms[n]
          BY <3>3, <4>3, <5>1
        <5>4. QED
          BY <4>3, <5>2, <5>3
      <4>4. QED
        BY <4>1, <4>2, <4>3
    <3>5. g = [n \in 0..m |-> g[n]]
      OBVIOUS
    <3> HIDE DEF g
    <3>6. SolvesTotal(g, m, terms)
      BY <3>4, <3>5
    <3>7. QED
      BY <2>1, <3>6
  <2>5. QED
    BY <2>3, <2>4
<1>2. QED
  BY <1>1

(* A sum of numbers is a number.                                           *)
LEMMA TotalIsNat ==
  ASSUME NEW terms \in Seq(Nat)
  PROVE  Total(terms) \in Nat
<1> DEFINE f == CHOOSE g : SolvesTotal(g, Len(terms), terms)
<1>1. Len(terms) \in Nat /\ \A n \in 1..Len(terms) : terms[n] \in Nat
  OBVIOUS
<1>2. SolvesTotal(f, Len(terms), terms)
  BY <1>1, TotalExists
<1>3. Total(terms) = f[Len(terms)]
  BY Zenon DEF Total, SolvesTotal
<1> HIDE DEF f
<1>4. \A n \in 0..Len(terms) : f[n] = IF n = 0 THEN 0 ELSE f[n - 1] + terms[n]
  BY <1>2, Zenon DEF SolvesTotal
<1> DEFINE Bad == {n \in 0..Len(terms) : f[n] \notin Nat}
<1>5. ASSUME Bad # {}
      PROVE  FALSE
  <2>1. Bad \in SUBSET Nat
    BY <1>1
  <2>2. PICK n \in Bad : \A k \in Bad : n <= k
    BY <1>5, <2>1, LeastNat
  <2>3. n \in 0..Len(terms) /\ f[n] \notin Nat
    BY <2>2
  <2>4. n # 0
    BY <1>4, <2>3
  <2>5. n - 1 \in 0..Len(terms) /\ n \in 1..Len(terms) /\ ~(n <= n - 1)
    BY <1>1, <2>3, <2>4
  <2>6. f[n - 1] \in Nat
    BY <2>2, <2>5
  <2>7. f[n] = f[n - 1] + terms[n] /\ terms[n] \in Nat
    BY <1>1, <1>4, <2>3, <2>4, <2>5
  <2>8. QED
    BY <2>3, <2>6, <2>7
<1>6. f[Len(terms)] \in Nat
  BY <1>1, <1>5
<1>7. QED
  BY <1>3, <1>6

(* A quotient of numbers is a number.                                      *)
LEMMA Quotient ==
  ASSUME NEW x \in Nat, NEW y \in Nat, y > 0
  PROVE  x \div y \in Nat
OBVIOUS

(* A score is a number, also of an id in no ranking.                       *)
LEMMA ScoreIsNat ==
  ASSUME NEW rankings \in Seq(Seq(Id)), NEW pid
  PROVE  Score(rankings, pid) \in Nat
<1>1. ASSUME NEW ranks \in Seq(Id)
      PROVE  Share(ranks, pid) \in Nat
  <2> DEFINE terms == [rank \in DOMAIN ranks |->
                          IF ranks[rank] = pid THEN Scale \div (RankOffset + rank) ELSE 0]
  <2>1. DOMAIN ranks = 1..Len(ranks) /\ Len(ranks) \in Nat
    OBVIOUS
  <2>2. ASSUME NEW rank \in 1..Len(ranks)
        PROVE  Scale \div (RankOffset + rank) \in Nat
    <3>1. Scale \in Nat /\ RankOffset + rank \in Nat /\ RankOffset + rank > 0
      BY AnswersAssumption
    <3>2. QED
      BY <3>1, Quotient
  <2>3. terms \in Seq(Nat)
    BY <2>1, <2>2
  <2>4. QED
    BY <2>3, TotalIsNat DEF Share
<1>2. [n \in DOMAIN rankings |-> Share(rankings[n], pid)] \in Seq(Nat)
  BY <1>1
<1>3. QED
  BY <1>2, TotalIsNat DEF Score

\* The rankings come to a at the k-th place of the n-th, and not before.
FirstIn(rankings, a, n, k) ==
    /\ n \in 1..Len(rankings) /\ k \in DOMAIN rankings[n]
    /\ rankings[n][k] = a
    /\ \A m \in 1..n : \A j \in DOMAIN rankings[m] : rankings[m][j] = a => m = n /\ k <= j

(* Of two candidates the rankings come to one first, and to no other       *)
(* before itself.                                                          *)
LEMMA ComesFirstOrders ==
  ASSUME NEW rankings \in Seq(Seq(Id))
  PROVE  /\ \A a : ~ComesFirst(rankings, a, a)
         /\ \A a, b, c : ComesFirst(rankings, a, b) /\ ComesFirst(rankings, b, c)
                            => ComesFirst(rankings, a, c)
         /\ \A a, b \in Candidates(rankings) :
               a # b => ComesFirst(rankings, a, b) \/ ComesFirst(rankings, b, a)
<1>1. /\ DOMAIN rankings = 1..Len(rankings) /\ Len(rankings) \in Nat
      /\ \A n \in 1..Len(rankings) : DOMAIN rankings[n] \subseteq Nat
  <2>1. ASSUME NEW n \in 1..Len(rankings)
        PROVE  DOMAIN rankings[n] \subseteq Nat
    <3>1. rankings[n] \in Seq(Id)
      OBVIOUS
    <3>2. QED
      BY <3>1
  <2>2. QED
    BY <2>1
<1>2. ASSUME NEW a, ComesFirst(rankings, a, a)
      PROVE  FALSE
  <2>1. PICK n \in DOMAIN rankings : \E k \in DOMAIN rankings[n] :
              /\ rankings[n][k] = a
              /\ \A m \in 1..n : \A j \in DOMAIN rankings[m] : m < n \/ j <= k => rankings[m][j] # a
    BY <1>2, Zenon DEF ComesFirst
  <2>2. PICK k \in DOMAIN rankings[n] :
              /\ rankings[n][k] = a
              /\ \A m \in 1..n : \A j \in DOMAIN rankings[m] : m < n \/ j <= k => rankings[m][j] # a
    BY <2>1
  <2>3. n \in 1..n /\ k <= k
    BY <1>1, <2>1, <2>2
  <2>4. QED
    BY <2>2, <2>3
<1>3. ASSUME NEW a, NEW b, NEW c, ComesFirst(rankings, a, b), ComesFirst(rankings, b, c)
      PROVE  ComesFirst(rankings, a, c)
  <2>1. PICK n \in DOMAIN rankings : \E k \in DOMAIN rankings[n] :
              /\ rankings[n][k] = a
              /\ \A m \in 1..n : \A j \in DOMAIN rankings[m] : m < n \/ j <= k => rankings[m][j] # b
    BY <1>3, Zenon DEF ComesFirst
  <2>2. PICK k \in DOMAIN rankings[n] :
              /\ rankings[n][k] = a
              /\ \A m \in 1..n : \A j \in DOMAIN rankings[m] : m < n \/ j <= k => rankings[m][j] # b
    BY <2>1
  <2>3. PICK p \in DOMAIN rankings : \E q \in DOMAIN rankings[p] :
              /\ rankings[p][q] = b
              /\ \A m \in 1..p : \A j \in DOMAIN rankings[m] : m < p \/ j <= q => rankings[m][j] # c
    BY <1>3, Zenon DEF ComesFirst
  <2>4. PICK q \in DOMAIN rankings[p] :
              /\ rankings[p][q] = b
              /\ \A m \in 1..p : \A j \in DOMAIN rankings[m] : m < p \/ j <= q => rankings[m][j] # c
    BY <2>3
  <2>5. k \in Nat /\ q \in Nat /\ n \in 1..Len(rankings) /\ p \in 1..Len(rankings)
    BY <1>1
  <2>6. n < p \/ (n = p /\ k < q)
    <3>1. ~(p \in 1..n /\ (p < n \/ q <= k))
      BY <2>2, <2>4
    <3>2. QED
      BY <2>5, <3>1
  <2>7. ASSUME NEW m \in 1..n, NEW j \in DOMAIN rankings[m], m < n \/ j <= k
        PROVE  rankings[m][j] # c
    <3>1. m \in 1..Len(rankings) /\ m \in 1..p /\ j \in Nat
      BY <1>1, <2>5, <2>6
    <3>2. m < p \/ j <= q
      BY <2>5, <2>6, <2>7, <3>1
    <3>3. QED
      BY <2>4, <3>1, <3>2
  <2>8. QED
    BY <1>1, <2>2, <2>7 DEF ComesFirst
<1>4. ASSUME NEW a \in Candidates(rankings)
      PROVE  \E n, k : FirstIn(rankings, a, n, k)
  <2> DEFINE In == {n \in 1..Len(rankings) : \E k \in DOMAIN rankings[n] : rankings[n][k] = a}
  <2>1. In \in SUBSET Nat
    BY <1>1
  <2>2. In # {}
    BY <1>1 DEF Candidates, ToSet
  <2>3. PICK n \in In : \A m \in In : n <= m
    BY <2>1, <2>2, LeastNat
  <2> DEFINE At == {k \in DOMAIN rankings[n] : rankings[n][k] = a}
  <2>4. At \in SUBSET Nat /\ At # {}
    BY <1>1, <2>3
  <2>5. PICK k \in At : \A j \in At : k <= j
    BY <2>4, LeastNat
  <2>6. n \in 1..Len(rankings) /\ k \in DOMAIN rankings[n] /\ rankings[n][k] = a
    BY <2>3, <2>5
  <2>7. ASSUME NEW m \in 1..n, NEW j \in DOMAIN rankings[m], rankings[m][j] = a
        PROVE  m = n /\ k <= j
    <3>1. m \in 1..Len(rankings) /\ m <= n /\ m \in Nat /\ n \in Nat
      BY <1>1, <2>6
    <3>2. n <= m
      BY <2>3, <2>7, <3>1
    <3>3. m = n
      BY <3>1, <3>2
    <3>4. QED
      BY <2>5, <2>7, <3>3
  <2>8. FirstIn(rankings, a, n, k)
    BY <2>6, <2>7 DEF FirstIn
  <2>9. QED
    BY <2>8
<1>5. ASSUME NEW a \in Candidates(rankings), NEW b \in Candidates(rankings), a # b
      PROVE  ComesFirst(rankings, a, b) \/ ComesFirst(rankings, b, a)
  <2>1. PICK n, k : FirstIn(rankings, a, n, k)
    BY <1>4
  <2>2. PICK p, q : FirstIn(rankings, b, p, q)
    BY <1>4
  <2>3. /\ n \in 1..Len(rankings) /\ k \in DOMAIN rankings[n] /\ rankings[n][k] = a
        /\ \A m \in 1..n : \A j \in DOMAIN rankings[m] : rankings[m][j] = a => m = n /\ k <= j
    BY <2>1 DEF FirstIn
  <2>4. /\ p \in 1..Len(rankings) /\ q \in DOMAIN rankings[p] /\ rankings[p][q] = b
        /\ \A m \in 1..p : \A j \in DOMAIN rankings[m] : rankings[m][j] = b => m = p /\ q <= j
    BY <2>2 DEF FirstIn
  <2>5. k \in Nat /\ q \in Nat /\ n \in Nat /\ p \in Nat
    BY <1>1, <2>3, <2>4
  <2>6. ~(n = p /\ k = q)
    BY <1>5, <2>3, <2>4
  <2>7. CASE n < p \/ (n = p /\ k < q)
    <3>1. ASSUME NEW m \in 1..n, NEW j \in DOMAIN rankings[m], m < n \/ j <= k
          PROVE  rankings[m][j] # b
      <4>1. m \in 1..Len(rankings) /\ m \in 1..p /\ j \in Nat
        BY <1>1, <2>3, <2>4, <2>5, <2>7
      <4>2. ~(m = p /\ q <= j)
        BY <2>5, <2>7, <3>1, <4>1
      <4>3. QED
        BY <2>4, <4>1, <4>2
    <3>2. QED
      BY <1>1, <2>3, <3>1 DEF ComesFirst
  <2>8. CASE p < n \/ (p = n /\ q < k)
    <3>1. ASSUME NEW m \in 1..p, NEW j \in DOMAIN rankings[m], m < p \/ j <= q
          PROVE  rankings[m][j] # a
      <4>1. m \in 1..Len(rankings) /\ m \in 1..n /\ j \in Nat
        BY <1>1, <2>3, <2>4, <2>5, <2>8
      <4>2. ~(m = n /\ k <= j)
        BY <2>5, <2>8, <3>1, <4>1
      <4>3. QED
        BY <2>3, <4>1, <4>2
    <3>2. QED
      BY <1>1, <2>4, <3>1 DEF ComesFirst
  <2>9. QED
    BY <2>5, <2>6, <2>7, <2>8
<1>6. QED
  BY <1>2, <1>3, <1>5

(* _rrf_fuse gives one order, whatever the ranks and the ties: the scores   *)
(* (exact ones: the model does not round) are compared, and equal ones     *)
(* stay in the order in which the dict got them.                           *)
THEOREM FusionIsOneOrder ==
  ASSUME NEW rankings \in Seq(Seq(Id))
  PROVE  \E s : Fusions(rankings) = {s}
<1> DEFINE C == Candidates(rankings)
           R == {e \in C \X C : Before(rankings, e[1], e[2])}
<1>1. IsFiniteSet(C)
  <2>1. \A n \in DOMAIN rankings : ToSet(rankings[n]) \subseteq C
    BY DEF Candidates
  <2>2. QED
    BY <2>1, CandidatesAreRanked
<1>2. \A a : Score(rankings, a) \in Nat
  BY ScoreIsNat
<1>3. \A a : ~ComesFirst(rankings, a, a)
  BY ComesFirstOrders
<1>4. \A a, b, c : ComesFirst(rankings, a, b) /\ ComesFirst(rankings, b, c) => ComesFirst(rankings, a, c)
  BY ComesFirstOrders
<1>5. \A a, b \in C : a # b => ComesFirst(rankings, a, b) \/ ComesFirst(rankings, b, a)
  BY ComesFirstOrders
<1> HIDE DEF C
<1>6. \A a, b \in C : <<a, b>> \in R <=> Before(rankings, a, b)
  OBVIOUS
<1> HIDE DEF R
<1>7. ASSUME NEW a \in C, NEW b \in C, NEW c \in C, Before(rankings, a, b), Before(rankings, b, c)
      PROVE  Before(rankings, a, c)
  <2>1. Score(rankings, a) \in Nat /\ Score(rankings, b) \in Nat /\ Score(rankings, c) \in Nat
    BY <1>2
  <2>2. QED
    BY <1>4, <1>7, <2>1 DEF Before
<1>8. ASSUME NEW a \in C, NEW b \in C, a # b
      PROVE  Before(rankings, a, b) \/ Before(rankings, b, a)
  <2>1. Score(rankings, a) \in Nat /\ Score(rankings, b) \in Nat
    BY <1>2
  <2>2. QED
    BY <1>5, <1>8, <2>1 DEF Before
<1>9. \A a \in C : ~Before(rankings, a, a)
  BY <1>2, <1>3 DEF Before
<1>10. PutsInOrder(R, C)
  BY <1>6, <1>7, <1>8, <1>9 DEF PutsInOrder
<1>11. \E s : Respecting(R, C) = {s}
  BY <1>1, <1>10, SortedOnce
<1>12. Respecting(R, C) = Fusions(rankings)
  <2>1. \A o \in Orders(C) : \A j \in DOMAIN o : o[j] \in C
    BY DEF Orders
  <2>2. QED
    BY <1>6, <2>1 DEF Respecting, Fusions, C
<1>13. QED
  BY <1>11, <1>12

(* Finitely many rows can come in some order.                              *)
LEMMA SomeOrder ==
  ASSUME NEW S, IsFiniteSet(S)
  PROVE  Orders(S) # {}
<1>1. PICK f : f \in Bijection(1..Cardinality(S), S)
  BY FS_CardinalityType DEF ExistsBijection
<1>2. f \in Orders(S)
  BY <1>1 DEF Bijection, Injection, IsInjective, Orders
<1>3. QED
  BY <1>2

(* A limit leaves some of finitely many rows: there is a set of each size  *)
(* up to theirs.                                                           *)
LEMMA SomeUnderLimit ==
  ASSUME NEW S, IsFiniteSet(S), NEW n \in Nat
  PROVE  Limited(S, n) # {}
<1> DEFINE Size(m) == \E s \in SUBSET S : Cardinality(s) = m
           Bad == {m \in 0..Cardinality(S) : ~Size(m)}
<1>1. Cardinality(S) \in Nat
  BY FS_CardinalityType
<1>2. ASSUME Bad # {}
      PROVE  FALSE
  <2>1. Bad \in SUBSET Nat
    BY <1>1
  <2>2. PICK m \in Bad : \A k \in Bad : m <= k
    BY <1>2, <2>1, LeastNat
  <2>3. m \in 0..Cardinality(S) /\ ~Size(m)
    BY <2>2
  <2>4. m # 0
    <3>1. {} \in SUBSET S /\ Cardinality({}) = 0
      BY FS_EmptySet
    <3>2. QED
      BY <2>3, <3>1
  <2>5. m - 1 \in 0..Cardinality(S) /\ ~(m <= m - 1)
    BY <1>1, <2>3, <2>4
  <2>6. Size(m - 1)
    BY <2>2, <2>5
  <2>7. PICK s \in SUBSET S : Cardinality(s) = m - 1
    BY <2>6
  <2>8. Cardinality(s) # Cardinality(S)
    BY <1>1, <2>3, <2>5, <2>7
  <2>9. PICK x \in S : x \notin s
    BY <2>8
  <2>10. IsFiniteSet(s)
    BY FS_Subset
  <2>11. Cardinality(s \cup {x}) = m
    <3>1. Cardinality(s \cup {x}) = Cardinality(s) + 1
      BY <2>9, <2>10, FS_AddElement
    <3>2. QED
      BY <1>1, <2>3, <2>7, <3>1
  <2>12. s \cup {x} \in SUBSET S
    BY <2>9
  <2>13. QED
    BY <2>3, <2>11, <2>12
<1>3. SmallerOf(Cardinality(S), n) \in 0..Cardinality(S)
  BY <1>1 DEF SmallerOf
<1>4. Size(SmallerOf(Cardinality(S), n))
  <2> HIDE DEF Size
  <2>1. QED
    BY <1>2, <1>3
<1>5. QED
  BY <1>4 DEF Limited

(* Rows make some dict by id.                                              *)
LEMMA SomeById ==
  ASSUME NEW rows
  PROVE  ById(rows) # {}
<1> DEFINE the(i) == CHOOSE r \in rows : r.id = i
           m == {r \in rows : r = the(r.id)}
<1>1. \A r \in rows : the(r.id) \in rows /\ the(r.id).id = r.id
  OBVIOUS
<1> HIDE DEF the
<1>2. m \in SUBSET rows
  OBVIOUS
<1>3. \A r, s \in m : r.id = s.id => r = s
  OBVIOUS
<1>4. \A r \in rows : \E s \in m : s.id = r.id
  BY <1>1
<1> HIDE DEF m
<1>5. m \in ById(rows)
  BY <1>2, <1>3, <1>4 DEF ById
<1>6. QED
  BY <1>5

\* At every place where a handler picks from what the store and the sort may
\* give it, there is something to pick.
Answerable ==
    /\ at = "open" /\ req.op = "list" => ListAnswers(pages, req) # {}
    /\ at = "open" /\ req.op = "search" =>
          Orders({r \in pages : r.ver \in Mentions[req.query]}) # {}
    /\ at = "open" /\ req.op = "similar" => Orders({e \in embs : e.id # req.source}) # {}
    /\ at = "alias" => FindAlias(pages, req.arg) # {}
    /\ at = "fuzzy" => FindFuzzy(pages, req.arg) # {}
    /\ at = "open" /\ req.op = "domains" => Domains(pages) # {}
    /\ at = "open" /\ req.op = "incoming" =>
          Limited({e \in Labelled(links) : e[2] = req.to}, FetchCap) # {}
    /\ at = "hop" => Limited({e \in Labelled(graph) : e[1] \in frontier}, HopLimit) # {}
    /\ at = "vec" => Orders(embs) # {}
    /\ at = "aliases" =>
          Orders({r \in pages : Meta[r.ver].aliases \cap Needles[req.query] # {}}) # {}
    /\ at = "hydrate" => Pools # {} /\ \A pool \in Pools : Metadata(snap, pool) # {}
    /\ at = "meta" =>
          /\ Metadata(pages, lists[1]) # {}
          /\ \A rows \in Metadata(pages, lists[1]) : ById(rows) # {}

(* The rows behind a handle are finitely many.                             *)
LEMMA SnapIsFinite == ReadsSpec => []IsFiniteSet(snap)
<1> DEFINE Fin == IsFiniteSet(snap)
<1>1. ReadsInit => Fin
  BY FS_EmptySet DEF ReadsInit
<1>2. FiniteInv /\ Fin /\ [ReadsNext]_readsVars => Fin'
  <2> SUFFICES ASSUME FiniteInv, Fin, [ReadsNext]_readsVars
               PROVE  IsFiniteSet(snap')
    OBVIOUS
  <2>1. snap' \in {snap, pages, {}}
    <3>1. CASE UNCHANGED readsVars \/ WriterStep
      BY <3>1 DEF readsVars, readerVars, WriterStep
    <3>2. CASE \E q \in Request : Ask(q)
      BY <3>2 DEF Ask
    <3>3. CASE ReadExact \/ ReadAlias \/ ReadFuzzy \/ ReadCanon
      BY <3>3 DEF ReadExact, ReadAlias, ReadFuzzy, ReadCanon
    <3>4. CASE OpenGraph \/ Hop \/ EndWalk \/ IncomingLinks \/ ListPages \/ ListDomains
      BY <3>4 DEF OpenGraph, Hop, EndWalk, IncomingLinks, ListPages, ListDomains
    <3>5. CASE OpenSearch \/ RankVectors \/ MatchAliases \/ Hydrate
      BY <3>5 DEF OpenSearch, RankVectors, MatchAliases, Hydrate
    <3>6. CASE Neighbours \/ SimilarPages \/ Raise
      BY <3>6 DEF Neighbours, SimilarPages, Raise
    <3>7. CASE Deliver
      BY <3>7 DEF Deliver
    <3>8. QED
      BY <3>1, <3>2, <3>3, <3>4, <3>5, <3>6, <3>7 DEF ReadsNext, ReaderStep
  <2>2. QED
    BY <2>1, FS_EmptySet DEF FiniteInv
<1>3. QED
  BY <1>1, <1>2, ReadingChangesNothing, TablesAreFinite, PTL DEF ReadsSpec

(* No reader waits for an answer that does not exist: whatever was asked,   *)
(* and whatever a writer commits meanwhile, each pick has a candidate.  So  *)
(* what the theorems above say of answers is said of some.                 *)
THEOREM EveryCallCanBeAnswered == ReadsSpec => []Answerable
<1>1. CallInv /\ StageInv /\ FiniteInv /\ ReadsTypeOK /\ IsFiniteSet(snap) => Answerable
  <2> SUFFICES ASSUME CallInv, StageInv, FiniteInv, ReadsTypeOK, IsFiniteSet(snap)
               PROVE  Answerable
    OBVIOUS
  <2>1. IsFiniteSet(pages) /\ IsFiniteSet(embs)
    BY DEF FiniteInv
  <2>2. ASSUME at = "open", req.op = "list"
        PROVE  ListAnswers(pages, req) # {}
    <3>1. req \in Request
      BY <2>2 DEF CallInv
    <3>2. req.limit \in Nat
      BY <2>2, <3>1, ReadsAssumption DEF RequestType
    <3>3. FetchLimit(req) \in Nat
      <4>1. req.limit * ListSpread \in Nat
        BY <3>2, AnswersAssumption
      <4>2. LargerOf(req.limit * ListSpread, ListFloor) \in Nat
        BY <4>1, AnswersAssumption DEF LargerOf
      <4>3. QED
        BY <3>2, <4>2, AnswersAssumption DEF FetchLimit, SmallerOf
    <3>4. IsFiniteSet(Where(pages, req))
      BY <2>1, FS_Subset DEF Where
    <3>5. PICK fetched : fetched \in Limited(Where(pages, req), FetchLimit(req))
      BY <3>3, <3>4, SomeUnderLimit
    <3>6. IsFiniteSet(Passing(fetched, req.filters))
      <4>1. fetched \subseteq Where(pages, req) /\ Passing(fetched, req.filters) \subseteq fetched
        BY <3>5 DEF Limited, Passing
      <4>2. QED
        BY <3>4, <4>1, FS_Subset
    <3>7. PICK out : out \in Limited(Passing(fetched, req.filters), req.limit)
      BY <3>2, <3>6, SomeUnderLimit
    <3> DEFINE cut(f, o) == /\ req.filters # NoFilters
                            /\ Cardinality(f) >= FetchLimit(req)
                            /\ Cardinality(o) < req.limit
               Lists(f) == {[listed |-> o, truncated |-> cut(f, o)]
                              : o \in Limited(Passing(f, req.filters), req.limit)}
    <3>8. [listed |-> out, truncated |-> cut(fetched, out)] \in Lists(fetched)
      BY <3>7
    <3>9. ListAnswers(pages, req) = UNION {Lists(f) : f \in Limited(Where(pages, req), FetchLimit(req))}
      BY DEF ListAnswers
    <3> HIDE DEF cut, Lists
    <3>10. Lists(fetched) \subseteq ListAnswers(pages, req)
      BY <3>5, <3>9
    <3>11. QED
      BY <3>8, <3>10
  <2>3. Orders({r \in pages : r.ver \in Mentions[req.query]}) # {}
    <3>1. IsFiniteSet({r \in pages : r.ver \in Mentions[req.query]})
      BY <2>1, FS_Subset
    <3>2. QED
      BY <3>1, SomeOrder
  <2>4. Orders({e \in embs : e.id # req.source}) # {}
    <3>1. IsFiniteSet({e \in embs : e.id # req.source})
      BY <2>1, FS_Subset
    <3>2. QED
      BY <3>1, SomeOrder
  <2>5. Limited({e \in Labelled(graph) : e[1] \in frontier}, HopLimit) # {}
    <3>1. {e \in Labelled(graph) : e[1] \in frontier} \subseteq Id \X Id \X Label
      BY DEF ReadsTypeOK, Labelled
    <3>2. IsFiniteSet({e \in Labelled(graph) : e[1] \in frontier})
      BY <3>1, FiniteEdges
    <3>3. QED
      BY <3>2, ReadsAssumption, SomeUnderLimit
  <2>6. Orders(embs) # {}
    BY <2>1, SomeOrder
  <2>7. Orders({r \in pages : Meta[r.ver].aliases \cap Needles[req.query] # {}}) # {}
    <3>1. IsFiniteSet({r \in pages : Meta[r.ver].aliases \cap Needles[req.query] # {}})
      BY <2>1, FS_Subset
    <3>2. QED
      BY <3>1, SomeOrder
  <2>8. ASSUME NEW rows, IsFiniteSet(rows), NEW pids \in Seq(Id)
        PROVE  Metadata(rows, pids) # {}
    <3>1. Len(pids) \in Nat /\ IsFiniteSet({r \in rows : r.id \in ToSet(pids)})
      BY <2>8, FS_Subset
    <3>2. QED
      BY <3>1, SomeUnderLimit DEF Metadata
  <2>9. ASSUME at = "hydrate"
        PROVE  Pools # {} /\ \A pool \in Pools : Metadata(snap, pool) # {}
    <3>1. lists \in Seq(Seq(Id)) /\ req.op = "search" /\ req \in Request
      BY <2>9 DEF StageInv, CallInv
    <3>2. PICK s : Fusions(lists) = {s}
      BY <3>1, FusionIsOneOrder
    <3>3. Pools # {}
      BY <3>2 DEF Pools
    <3>4. ASSUME NEW pool \in Pools
          PROVE  Metadata(snap, pool) # {}
      <4>1. (IF HasFilters THEN Depth ELSE req.topK) \in Nat
        BY <3>1, SearchFields DEF Depth
      <4>2. PICK fused \in Fusions(lists) : pool = First(fused, IF HasFilters THEN Depth ELSE req.topK)
        BY DEF Pools
      <4>3. pool \in Seq(Id)
        BY <3>1, <4>1, <4>2, FusedIsOnto, FirstOf
      <4>4. QED
        BY <2>8, <4>3
    <3>5. QED
      BY <3>3, <3>4
  <2>10. ASSUME at = "meta"
         PROVE  Metadata(pages, lists[1]) # {} /\ \A rows \in Metadata(pages, lists[1]) : ById(rows) # {}
    <3>1. lists[1] \in Seq(Id)
      BY <2>10 DEF StageInv
    <3>2. QED
      BY <2>1, <2>8, <3>1, SomeById
  <2>11. FindAlias(pages, req.arg) # {} /\ FindFuzzy(pages, req.arg) # {} /\ Domains(pages) # {}
    <3>1. FetchCap \in Nat
      BY AnswersAssumption
    <3>2. FindAlias(pages, req.arg) # {}
      <4>1. IsFiniteSet(Carrying(pages, req.arg))
        BY <2>1, FS_Subset DEF Carrying
      <4>2. QED
        BY <3>1, <4>1, SomeUnderLimit DEF FindAlias
    <3>3. PICK scanned : scanned \in Limited(pages, FetchCap)
      BY <2>1, <3>1, SomeUnderLimit
    <3>4. FindFuzzy(pages, req.arg) # {}
      BY <3>3 DEF FindFuzzy
    <3>5. PICK fetched : fetched \in Limited({r \in pages : r.type = Concept}, FetchCap)
      <4>1. IsFiniteSet({r \in pages : r.type = Concept})
        BY <2>1, FS_Subset
      <4>2. QED
        BY <3>1, <4>1, SomeUnderLimit
    <3>6. Domains(pages) # {}
      BY <3>5 DEF Domains
    <3>7. QED
      BY <3>2, <3>4, <3>6
  <2>12. Limited({e \in Labelled(links) : e[2] = req.to}, FetchCap) # {}
    <3>1. {e \in Labelled(links) : e[2] = req.to} \subseteq Id \X Id \X Label
      BY DEF ReadsTypeOK, FilesTypeOK, Labelled
    <3>2. IsFiniteSet({e \in Labelled(links) : e[2] = req.to})
      BY <3>1, FiniteEdges
    <3>3. QED
      BY <3>2, AnswersAssumption, SomeUnderLimit
  <2>13. QED
    BY <2>2, <2>3, <2>4, <2>5, <2>6, <2>7, <2>9, <2>10, <2>11, <2>12 DEF Answerable
<1>2. QED
  BY <1>1, CallInvHolds, StageInvHolds, ReadsTypeCorrect, SnapIsFinite, ReadingChangesNothing, TablesAreFinite, PTL
=============================================================================
