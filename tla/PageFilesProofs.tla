-------------------------- MODULE PageFilesProofs ---------------------------
(***************************************************************************)
(* Proofs about PageFiles: its types, that a page has one home, and that a *)
(* removed page stays away.                                                *)
(***************************************************************************)
EXTENDS PageFiles, SequenceTheorems, TLAPS

(* Name by name, the path of a section's page.                             *)
LEMMA SectionTarget ==
  ASSUME NEW t \in PageType, NEW v, IsPageId(v), IsSection(v)
  PROVE  /\ v[1] \in Seq(Name) /\ Len(v[1]) = 1
         /\ v[2] \in Seq(Name) /\ Len(v[2]) \in Nat \ {0}
         /\ \A k \in 1..Len(v[2]) : v[2][k] \in Dotted
         /\ Len(Target(t, v)) = Len(v[2]) + 2
         /\ Target(t, v)[1] = SubDir[t] /\ Target(t, v)[2] = v[1][1]
         /\ \A k \in 1..(Len(v[2]) - 1) : Target(t, v)[k + 2] = v[2][k]
         /\ Target(t, v)[Len(v[2]) + 2] = Md[v[2][Len(v[2])]]
<1> DEFINE p == v[1]
           q == v[2]
           m == [q EXCEPT ![Len(q)] = Md[q[Len(q)]]]
<1>1. p \in Seq(Name) /\ Len(p) = 1 /\ q \in Seq(Name) /\ Len(q) \in Nat \ {0}
      /\ \A k \in 1..Len(q) : q[k] \in Dotted
  BY DEF IsPageId, IsSection, IsSlug, IsRelPath
<1>2. m \in Seq(Name) /\ Len(m) = Len(q) /\ m[Len(q)] = Md[q[Len(q)]]
      /\ \A k \in 1..(Len(q) - 1) : m[k] = q[k]
  <2>1. Md[q[Len(q)]] \in Name
    BY <1>1, IdAssumption
  <2> HIDE DEF q
  <2>2. QED
    BY <1>1, <2>1
<1>3. Target(t, v) = <<SubDir[t]>> \o (p \o m)
  BY DEF Target, IsSection
<1> HIDE DEF p, q, m
<1>4. p[1] \in Name /\ p = <<p[1]>>
  <2>1. p[1] \in Name
    BY IdAssumption DEF IsPageId, IsSection, IsSlug, p
  <2>2. PICK a \in Name : a = p[1]
    BY <2>1
  <2>3. <<a>> \in Seq(Name) /\ Len(<<a>>) = 1 /\ <<a>>[1] = a
    OBVIOUS
  <2>4. p = <<a>>
    BY <1>1, <2>2, <2>3, SeqEqual
  <2>5. QED
    BY <2>2, <2>4
<1>5. /\ p \o m \in Seq(Name) /\ Len(p \o m) = Len(q) + 1 /\ (p \o m)[1] = p[1]
      /\ \A k \in 1..Len(q) : (p \o m)[k + 1] = m[k]
  <2>1. PICK a \in Name : p = <<a>>
    BY <1>4
  <2>2. \A k \in 1..Len(m) : (<<a>> \o m)[k + 1] = m[k]
    BY <1>2
  <2>3. <<a>> \o m \in Seq(Name) /\ Len(<<a>> \o m) = Len(m) + 1 /\ (<<a>> \o m)[1] = a
    BY <1>2
  <2>4. QED
    BY <1>2, <2>1, <2>2, <2>3
<1>6. /\ Len(Target(t, v)) = Len(q) + 2
      /\ Target(t, v)[1] = SubDir[t] /\ Target(t, v)[2] = p[1]
      /\ \A k \in 1..Len(q) : Target(t, v)[k + 2] = m[k]
  <2> DEFINE rest == p \o m
             S == Name \cup {SubDir[t]}
  <2>1. rest \in Seq(S) /\ SubDir[t] \in S
    BY <1>5
  <2>2. Target(t, v) = <<SubDir[t]>> \o rest
    BY <1>3
  <2> HIDE DEF rest, S
  <2>3. Len(Target(t, v)) = Len(rest) + 1 /\ Target(t, v)[1] = SubDir[t]
    BY <2>1, <2>2
  <2>4. \A k \in 1..Len(rest) : Target(t, v)[k + 1] = rest[k]
    BY <2>1, <2>2
  <2>5. Len(rest) = Len(q) + 1 /\ rest[1] = p[1] /\ \A k \in 1..Len(q) : rest[k + 1] = m[k]
    BY <1>5 DEF rest
  <2>6. Len(q) \in Nat
    BY <1>1
  <2>7. \A k \in 1..Len(q) : k + 1 \in 1..Len(rest) /\ (k + 1) + 1 = k + 2
    BY <2>5, <2>6
  <2>8. 1 \in 1..Len(rest) /\ 1 + 1 = 2
    BY <2>5, <2>6
  <2>9. QED
    BY <2>3, <2>4, <2>5, <2>6, <2>7, <2>8
<1>7. QED
  BY <1>1, <1>2, <1>6 DEF p, q

(* The path of a slug's page.                                              *)
LEMMA SlugTarget ==
  ASSUME NEW t \in PageType, NEW v, IsPageId(v), ~IsSection(v)
  PROVE  /\ v \in Seq(Seq(Name)) /\ Len(v) = 1 /\ v[1] \in Seq(Name) /\ Len(v[1]) = 1
         /\ v[1][1] \in Dotted
         /\ Len(Target(t, v)) = 2 /\ Target(t, v)[1] = SubDir[t] /\ Target(t, v)[2] = Md[v[1][1]]
<1>1. v \in Seq(Seq(Name)) /\ Len(v) = 1 /\ v[1] \in Seq(Name) /\ Len(v[1]) = 1 /\ v[1][1] \in Dotted
  BY IdAssumption DEF IsPageId, IsSection, IsSlug
<1>2. Target(t, v) = <<SubDir[t]>> \o <<Md[v[1][1]]>>
  BY DEF Target
<1>3. QED
  BY <1>1, <1>2

(* No two pages, and no two types of one page, have the same file: writing *)
(* one never overwrites another, whatever `::` and `/` their ids hold.     *)
THEOREM TargetsDiffer ==
  ASSUME NEW t \in PageType, NEW u \in PageType, NEW v, NEW w,
         IsPageId(v), IsPageId(w), Target(t, v) = Target(u, w)
  PROVE  v = w /\ t = u
<1>1. CASE IsSection(v) /\ IsSection(w)
  <2>1. v[1] = w[1]
    BY <1>1, SectionTarget, SeqEqual
  <2>2. Len(v[2]) = Len(w[2])
    BY <1>1, SectionTarget
  <2>3. \A k \in 1..Len(v[2]) : v[2][k] = w[2][k]
    <3> TAKE k \in 1..Len(v[2])
    <3>1. CASE k = Len(v[2])
      BY <1>1, <2>2, <3>1, SectionTarget, IdAssumption
    <3>2. CASE k # Len(v[2])
      <4>1. k \in 1..(Len(v[2]) - 1)
        BY <1>1, <3>2, SectionTarget
      <4>2. QED
        BY <1>1, <2>2, <4>1, SectionTarget
    <3>3. QED
      BY <3>1, <3>2
  <2>4. v[2] = w[2]
    BY <1>1, <2>2, <2>3, SectionTarget, SeqEqual
  <2>5. v \in Seq(Seq(Name)) /\ w \in Seq(Seq(Name)) /\ Len(v) = 2 /\ Len(w) = 2
    BY <1>1 DEF IsPageId, IsSection
  <2>6. v = w
    <3>1. \A k \in 1..Len(v) : v[k] = w[k]
      BY <2>1, <2>4, <2>5
    <3>2. QED
      BY <2>5, <3>1, SeqEqual
  <2>7. SubDir[t] = SubDir[u]
    BY <1>1, SectionTarget
  <2>8. QED
    BY <2>6, <2>7, IdAssumption
<1>2. CASE ~IsSection(v) /\ ~IsSection(w)
  <2>1. SubDir[t] = SubDir[u] /\ v[1][1] = w[1][1]
    BY <1>2, SlugTarget, IdAssumption
  <2>2. v[1] = w[1]
    BY <1>2, <2>1, SlugTarget, SeqEqual
  <2>3. v = w
    BY <1>2, <2>2, SlugTarget, SeqEqual
  <2>4. QED
    BY <2>1, <2>3, IdAssumption
<1>3. CASE ~(IsSection(v) <=> IsSection(w))
  <2>1. CASE IsSection(v) /\ ~IsSection(w)
    <3>1. Len(Target(t, v)) # 2
      BY <2>1, SectionTarget
    <3>2. QED
      BY <2>1, <3>1, SlugTarget
  <2>2. CASE ~IsSection(v) /\ IsSection(w)
    <3>1. Len(Target(u, w)) # 2
      BY <2>2, SectionTarget
    <3>2. QED
      BY <2>2, <3>1, SlugTarget
  <2>3. QED
    BY <1>3, <2>1, <2>2
<1>4. QED
  BY <1>1, <1>2, <1>3

(* What a commit carries, by what it does.                                 *)
LEMMA CommitFields ==
  ASSUME NEW c \in Commit
  PROVE  /\ c.do = "file" => c.id \in Id /\ c.path \in Path /\ c.to \in Content \cup {Absent}
         /\ c.do \in {"unindex", "unembed", "unlink", "unlinkTo"} => c.id \in Id
         /\ c.do \in {"index", "embed", "relink"} => c.rows \in SUBSET Row
         /\ c.do = "link" => c.row \in Row
         /\ c.do = "sweep" => c.ids \in SUBSET Id
         /\ c.do = "drop" => c.table \in Table
BY DEF Commit

(* Rows computed from files are rows, and the page's place is a path.      *)
LEMMA RowsOfFiles ==
  /\ \A c \in Content, p \in Path : RowOf(c, p) \in Row
  /\ \A c \in Content : Home(c) \in Path
BY DEF RowOf, Row, Content, Path, Home

(* The remaining commits, once the head is replaced by others.             *)
LEMMA Spliced ==
  ASSUME NEW S, NEW s \in Seq(S), NEW t \in Seq(S), t # <<>>
  PROVE  s \o Tail(t) \in Seq(S)
<1>1. Tail(t) \in Seq(S)
  OBVIOUS
<1>2. QED
  BY <1>1

(* The pieces of plans have the type of plans.                             *)
LEMMA PlanPieces ==
  /\ \A i \in Id, c \in Content, p \in Path : Write(i, c, p) \in Seq(Commit)
  /\ \A R \in SUBSET Row : Relink(R) \in Seq(Commit) /\ Project(R) \in Seq(Commit)
  /\ \A I \in SUBSET Id : Sweep(I) \in Seq(Commit)
<1>1. ASSUME NEW i \in Id, NEW c \in Content, NEW p \in Path
      PROVE  Write(i, c, p) \in Seq(Commit)
  <2>1. [do |-> "file", id |-> i, path |-> p, to |-> c] \in Commit
    BY DEF Commit
  <2>2. [do |-> "pass"] \in Commit
    BY DEF Commit
  <2>3. QED
    BY <2>1, <2>2 DEF Write
<1>2. ASSUME NEW R \in SUBSET Row
      PROVE  Relink(R) \in Seq(Commit)
  <2>1. [do |-> "relink", rows |-> R] \in Commit
    BY DEF Commit
  <2>2. QED
    BY <2>1 DEF Relink
<1>3. ASSUME NEW R \in SUBSET Row
      PROVE  Project(R) \in Seq(Commit)
  <2>1. [do |-> "index", rows |-> R] \in Commit /\ [do |-> "embed", rows |-> R] \in Commit
    BY DEF Commit
  <2>2. <<[do |-> "index", rows |-> R], [do |-> "embed", rows |-> R]>> \in Seq(Commit)
    BY <2>1
  <2>3. QED
    BY <1>2, <2>2 DEF Project
<1>4. ASSUME NEW I \in SUBSET Id
      PROVE  Sweep(I) \in Seq(Commit)
  <2>1. [do |-> "sweep", ids |-> I] \in Commit
    BY DEF Commit
  <2>2. QED
    BY <2>1 DEF Sweep
<1>5. QED
  BY <1>1, <1>2, <1>3, <1>4

(* What Merged may leave.                                                  *)
LEMMA MergedRows ==
  ASSUME NEW old, NEW new, NEW m \in Merged(old, new)
  PROVE  m \subseteq old \cup new
BY DEF Merged, Others

(* Every variable keeps its type, the commits of the running call and the  *)
(* contents of the files included.                                         *)
THEOREM FilesTypeCorrect == FilesSpec => []FilesTypeOK
<1> USE FilesAssumption, CorpusAssumption DEF FilesTypeOK
<1>1. FilesInit => FilesTypeOK
  <2> SUFFICES ASSUME FilesInit PROVE FilesTypeOK
    OBVIOUS
  <2>1. disk \in [Path -> Content \cup {Absent}]
    BY DEF FilesInit
  <2>2. pages \subseteq Row
    BY RowsOfFiles DEF FilesInit
  <2>3. embs \subseteq [id : Id, ver : Version]
    BY DEF FilesInit, Content
  <2>4. links \subseteq Id \X Id \X Label
    BY DEF FilesInit, Content, EdgesOf
  <2>5. QED
    BY <2>1, <2>2, <2>3, <2>4 DEF FilesInit
<1>2. FilesTypeOK /\ [FilesNext]_filesVars => FilesTypeOK'
  <2> SUFFICES ASSUME FilesTypeOK, [FilesNext]_filesVars PROVE FilesTypeOK'
    OBVIOUS
  <2>1. CASE UNCHANGED filesVars
    BY <2>1 DEF filesVars
  <2>2. ASSUME NEW commits \in Seq(Commit), Call(commits), strayed' \subseteq Id, removed' \subseteq Id
        PROVE  FilesTypeOK'
    BY <2>2 DEF Call
  <2>3. ASSUME NEW c \in Input, CreatePage(c) \/ UpsertSection(c) \/ UpdatePage(c)
        PROVE  FilesTypeOK'
    <3>1. c \in Content /\ c.id \in Id
      BY DEF Content
    <3>2. Write(c.id, c, Home(c)) \in Seq(Commit)
      BY <3>1, RowsOfFiles, PlanPieces
    <3>3. WritePage(c)
      BY <2>3 DEF CreatePage, UpsertSection, UpdatePage
    <3>4. QED
      BY <2>2, <3>1, <3>2, <3>3 DEF WritePage
  <2>4. ASSUME NEW r \in pages, NEW v \in Version, EditPage(r, v)
        PROVE  FilesTypeOK'
    <3>1. r.id \in Id /\ r.path \in Path
      BY DEF Row
    <3>2. disk[r.path] \in Content
      BY <2>4, <3>1 DEF EditPage
    <3>3. [disk[r.path] EXCEPT !.ver = v] \in Content
      BY <3>2 DEF Content
    <3>4. Write(r.id, [disk[r.path] EXCEPT !.ver = v], r.path) \in Seq(Commit)
      BY <3>1, <3>3, PlanPieces
    <3>5. QED
      BY <2>2, <2>4, <3>4 DEF EditPage
  <2>5. ASSUME NEW r \in pages, RemovePage(r)
        PROVE  FilesTypeOK'
    <3> DEFINE i == r.id
    <3>1. i \in Id /\ r.path \in Path
      BY DEF Row
    <3>2. /\ [do |-> "unindex", id |-> i] \in Commit
          /\ [do |-> "unembed", id |-> i] \in Commit
          /\ [do |-> "unlink", id |-> i] \in Commit
          /\ [do |-> "unlinkTo", id |-> i] \in Commit
          /\ [do |-> "file", id |-> i, path |-> r.path, to |-> Absent] \in Commit
      BY <3>1 DEF Commit
    <3>3. <<[do |-> "unindex", id |-> i], [do |-> "unembed", id |-> i],
            [do |-> "unlink", id |-> i], [do |-> "unlinkTo", id |-> i],
            [do |-> "file", id |-> i, path |-> r.path, to |-> Absent]>> \in Seq(Commit)
      BY <3>2
    <3>4. QED
      BY <2>2, <2>5, <3>3 DEF RemovePage
  <2>6. ASSUME NEW i \in Id, NEW p \in Path, ReindexPage(i, p)
        PROVE  FilesTypeOK'
    <3>1. disk[p] \in Content
      BY <2>6 DEF ReindexPage, Files
    <3>2. Project({RowOf(disk[p], p)}) \in Seq(Commit)
      BY <3>1, RowsOfFiles, PlanPieces
    <3>3. QED
      BY <2>2, <2>6, <3>2 DEF ReindexPage
  <2>7. CASE ReindexAll
    <3>1. /\ \A T \in Table : [do |-> "drop", table |-> T] \in Commit
          /\ [do |-> "ensure"] \in Commit /\ [do |-> "rebuild"] \in Commit
      BY DEF Commit
    <3>2. <<[do |-> "drop", table |-> "pages"], [do |-> "drop", table |-> "embeddings"],
            [do |-> "drop", table |-> "links"], [do |-> "ensure"], [do |-> "rebuild"]>> \in Seq(Commit)
      BY <3>1 DEF Table
    <3>3. QED
      BY <2>2, <2>7, <3>2 DEF ReindexAll
  <2>8. ASSUME NEW commits \in Seq(Commit), Done(commits), plan # <<>>, removed' \subseteq Id,
               disk' \in [Path -> Content \cup {Absent}], exists' \subseteq Table,
               pages' \subseteq Row, embs' \subseteq [id : Id, ver : Version],
               links' \subseteq Id \X Id \X Label
        PROVE  FilesTypeOK'
    BY <2>8, Spliced DEF Done
  <2>9. plan # <<>> => Head(plan) \in Commit
    OBVIOUS
  <2>10. <<>> \in Seq(Commit)
    OBVIOUS
  <2>11. CASE CommitFile
    <3>1. /\ Head(plan).path \in Path /\ Head(plan).to \in Content \cup {Absent}
          /\ Head(plan).id \in Id
      BY <2>9, <2>11, CommitFields DEF CommitFile, Now
    <3>2. QED
      BY <2>8, <2>10, <2>11, <3>1 DEF CommitFile, Now
  <2>12. CASE CommitDelete
    BY <2>8, <2>10, <2>12 DEF CommitDelete, Now, Quietly
  <2>13. CASE NextSwept
    <3>1. Head(plan).ids \in SUBSET Id
      BY <2>9, <2>13, CommitFields DEF NextSwept, Now
    <3>2. PICK i \in Head(plan).ids :
             Quietly(<<[do |-> "unindex", id |-> i], [do |-> "unembed", id |-> i], [do |-> "unlink", id |-> i]>>
                     \o Sweep(Head(plan).ids \ {i}))
      BY <2>13 DEF NextSwept
    <3>3. /\ [do |-> "unindex", id |-> i] \in Commit
          /\ [do |-> "unembed", id |-> i] \in Commit
          /\ [do |-> "unlink", id |-> i] \in Commit
      BY <3>1 DEF Commit
    <3>4. Sweep(Head(plan).ids \ {i}) \in Seq(Commit)
      BY <3>1, PlanPieces
    <3>5. <<[do |-> "unindex", id |-> i], [do |-> "unembed", id |-> i], [do |-> "unlink", id |-> i]>>
            \in Seq(Commit)
      BY <3>3
    <3>6. <<[do |-> "unindex", id |-> i], [do |-> "unembed", id |-> i], [do |-> "unlink", id |-> i]>>
             \o Sweep(Head(plan).ids \ {i}) \in Seq(Commit)
      BY <3>4, <3>5
    <3>7. QED
      BY <2>8, <2>13, <3>2, <3>6 DEF NextSwept, Now, Quietly
  <2>14. CASE NextRelinked
    <3>1. Head(plan).rows \in SUBSET Row
      BY <2>9, <2>14, CommitFields DEF NextRelinked, Now
    <3>2. PICK r \in Head(plan).rows :
             Quietly(<<[do |-> "unlink", id |-> r.id], [do |-> "link", row |-> r]>>
                     \o Relink(Head(plan).rows \ {r}))
      BY <2>14 DEF NextRelinked
    <3>3. [do |-> "unlink", id |-> r.id] \in Commit /\ [do |-> "link", row |-> r] \in Commit
      BY <3>1 DEF Commit, Row
    <3>4. Relink(Head(plan).rows \ {r}) \in Seq(Commit)
      BY <3>1, PlanPieces
    <3>5. <<[do |-> "unlink", id |-> r.id], [do |-> "link", row |-> r]>> \in Seq(Commit)
      BY <3>3
    <3>6. <<[do |-> "unlink", id |-> r.id], [do |-> "link", row |-> r]>>
             \o Relink(Head(plan).rows \ {r}) \in Seq(Commit)
      BY <3>4, <3>5
    <3>7. QED
      BY <2>8, <2>14, <3>2, <3>6 DEF NextRelinked, Now, Quietly
  <2>15. CASE CommitIndex
    <3>1. Head(plan).rows \in SUBSET Row
      BY <2>9, <2>15, CommitFields DEF CommitIndex, Now
    <3>2. pages' \subseteq Row
      BY <2>15, <3>1, MergedRows DEF CommitIndex
    <3>3. QED
      BY <2>8, <2>10, <2>15, <3>2 DEF CommitIndex, Now, Quietly
  <2>16. CASE CommitEmbed
    <3> DEFINE new == {[id |-> r.id, ver |-> r.ver] : r \in Head(plan).rows}
    <3>1. Head(plan).rows \in SUBSET Row
      BY <2>9, <2>16, CommitFields DEF CommitEmbed, Now
    <3>2. new \subseteq [id : Id, ver : Version]
      BY <3>1 DEF Row
    <3>3. embs' \subseteq [id : Id, ver : Version]
      BY <2>16, <3>2, MergedRows DEF CommitEmbed
    <3>4. QED
      BY <2>8, <2>10, <2>16, <3>3 DEF CommitEmbed, Now, Quietly
  <2>17. CASE CommitLinks
    <3>1. Head(plan).row \in Row
      BY <2>9, <2>17, CommitFields DEF CommitLinks, Now
    <3>2. EdgesOf(Head(plan).row.id, Head(plan).row.ver) \subseteq Id \X Id \X Label
      BY <3>1 DEF Row, EdgesOf
    <3>3. QED
      BY <2>8, <2>10, <2>17, <3>2 DEF CommitLinks, Now, Quietly
  <2>18. CASE CommitDrop
    BY <2>8, <2>10, <2>18 DEF CommitDrop, Now, Quietly
  <2>19. CASE CommitEnsure
    BY <2>8, <2>10, <2>19 DEF CommitEnsure, Now, Quietly
  <2>20. CASE CommitPass
    <3>1. PICK hash \in HashOf :
             LET seen == {disk[p].id : p \in Files}
                 toIndex == {p \in Files : disk[p].id \in DOMAIN hash => ~Holds(hash[disk[p].id], p)}
             IN  Quietly(Sweep(DOMAIN hash \ seen) \o Project({RowOf(disk[p], p) : p \in toIndex}))
      BY <2>20 DEF CommitPass
    <3> DEFINE seen == {disk[p].id : p \in Files}
               toIndex == {p \in Files : disk[p].id \in DOMAIN hash => ~Holds(hash[disk[p].id], p)}
    <3>2. DOMAIN hash \ seen \in SUBSET Id
      BY DEF HashOf, Row
    <3>3. {RowOf(disk[p], p) : p \in toIndex} \in SUBSET Row
      BY RowsOfFiles DEF Files
    <3>4. Sweep(DOMAIN hash \ seen) \o Project({RowOf(disk[p], p) : p \in toIndex}) \in Seq(Commit)
      BY <3>2, <3>3, PlanPieces
    <3>5. QED
      BY <2>8, <2>20, <3>1, <3>4 DEF CommitPass, Now, Quietly
  <2>21. CASE CommitRebuild
    <3>1. {RowOf(disk[p], p) : p \in Files} \in SUBSET Row
      BY RowsOfFiles DEF Files
    <3>2. Project({RowOf(disk[p], p) : p \in Files}) \in Seq(Commit)
      BY <3>1, PlanPieces
    <3>3. QED
      BY <2>8, <2>21, <3>2 DEF CommitRebuild, Now, Quietly
  <2>22. CASE Cut
    BY <2>10, <2>22 DEF Cut
  <2>23. ASSUME NEW m \in Move, NEW keep \in BOOLEAN, HandMove(m[1], m[2], keep)
         PROVE  FilesTypeOK'
    <3>1. m[1] \in Path /\ m[2] \in Path
      OBVIOUS
    <3>2. disk[m[1]] \in Content
      BY <2>23 DEF HandMove, Files
    <3>3. QED
      BY <2>23, <3>1, <3>2 DEF HandMove, Content
  <2>24. QED
    BY <2>1, <2>3, <2>4, <2>5, <2>6, <2>7, <2>11, <2>12, <2>13, <2>14, <2>15, <2>16, <2>17,
       <2>18, <2>19, <2>20, <2>21, <2>22, <2>23 DEF FilesNext, WriterCommits
<1>3. QED
  BY <1>1, <1>2, PTL DEF FilesSpec

-----------------------------------------------------------------------------
(* A page has one home: what the commits still to be made must say.        *)

(* c may be written at p: it is its place, and no other file or row of the *)
(* page is elsewhere.                                                      *)
Placed(c, p) ==
    \/ c.id \in strayed
    \/ p = Home(c) /\ FilesOf(c.id) \subseteq {p} /\ \A r \in RowsOf(c.id) : r.path = p

(* Rows that may be merged: one for each page that has not strayed, with   *)
(* the path of its file.                                                   *)
Fresh(R) ==
    \A r \in R : r.id \notin strayed =>
        FilesOf(r.id) \subseteq {r.path} /\ \A s \in R : s.id = r.id => s = r

(* Commits that keep OneHomePerId wherever they stand in the plan.         *)
Sound == {c \in Commit : /\ c.do = "index" => Fresh(c.rows)
                         /\ c.do = "file" => c.to = Absent}

(* A file is written at the head of a plan only, just after its place was  *)
(* computed.                                                               *)
PlanInv ==
    \/ plan \in Seq(Sound)
    \/ \E i \in Id, c \in Content, p \in Path : plan = Write(i, c, p) /\ Placed(c, p)

HomeInv == OneHomePerId /\ PlanInv

(* Most steps add neither a file nor a row to a page that has not strayed: *)
(* they keep what was promised of it.                                      *)
LEMMA Shrinks ==
  ASSUME FilesTypeOK, FilesTypeOK', strayed \subseteq strayed',
         \A i \in Id \ strayed' :
            /\ FilesOf(i)' \subseteq FilesOf(i)
            /\ RowsOf(i)' \subseteq RowsOf(i)
            /\ \A p \in FilesOf(i)' : disk'[p] = disk[p]
  PROVE  /\ OneHomePerId => OneHomePerId'
         /\ \A c \in Content, p \in Path : Placed(c, p) => Placed(c, p)'
         /\ Sound \subseteq Sound'
         /\ plan' = plan /\ PlanInv => PlanInv'
<1>1. OneHomePerId => OneHomePerId'
  BY DEF OneHomePerId, FilesTypeOK
<1>2. ASSUME NEW c \in Content, NEW p \in Path, Placed(c, p)
      PROVE  Placed(c, p)'
  <2>1. c.id \in Id
    BY DEF Content
  <2>2. QED
    BY <1>2, <2>1 DEF Placed
<1>3. ASSUME NEW R \in SUBSET Row, Fresh(R)
      PROVE  Fresh(R)'
  <2>1. \A r \in R : r.id \in Id
    BY DEF Row
  <2>2. QED
    BY <1>3, <2>1 DEF Fresh
<1>4. Sound \subseteq Sound'
  <2> SUFFICES ASSUME NEW c \in Sound PROVE c \in Sound'
    OBVIOUS
  <2>1. c \in Commit
    BY DEF Sound
  <2>2. CASE c.do = "index"
    <3>1. c.rows \in SUBSET Row
      BY <2>1, <2>2, CommitFields
    <3>2. QED
      BY <1>3, <2>1, <2>2, <3>1 DEF Sound
  <2>3. CASE c.do # "index"
    BY <2>1, <2>3 DEF Sound
  <2>4. QED
    BY <2>2, <2>3
<1>5. ASSUME plan' = plan, PlanInv PROVE PlanInv'
  <2>1. CASE plan \in Seq(Sound)
    <3>1. plan \in Seq(Sound')
      BY <1>4, <2>1
    <3>2. QED
      BY <1>5, <3>1 DEF PlanInv
  <2>2. ASSUME NEW i \in Id, NEW c \in Content, NEW p \in Path, plan = Write(i, c, p), Placed(c, p)
        PROVE  PlanInv'
    BY <1>2, <1>5, <2>2 DEF PlanInv, Write
  <2>3. QED
    BY <1>5, <2>1, <2>2 DEF PlanInv
<1>6. QED
  BY <1>1, <1>2, <1>4, <1>5

(* A plan that has more to do, and what its head is replaced by.           *)
LEMMA PlanGoesOn ==
  ASSUME plan # <<>>, plan \in Seq(Sound), Sound \subseteq Sound',
         NEW rest \in Seq(Sound), Done(rest)
  PROVE  PlanInv'
<1>1. plan' \in Seq(Sound)
  BY Spliced DEF Done
<1>2. plan' \in Seq(Sound')
  BY <1>1
<1>3. QED
  BY <1>2 DEF PlanInv

(* A plan with something else at its head writes no page any more.         *)
LEMMA WriteIsAtHead ==
  ASSUME PlanInv, plan # <<>>, Head(plan).do # "file"
  PROVE  plan \in Seq(Sound)
BY DEF PlanInv, Write

(* Commits other than to the pages table and to files ask for nothing.     *)
LEMMA SoundPieces ==
  /\ \A R \in SUBSET Row : Relink(R) \in Seq(Sound) /\ (Fresh(R) => Project(R) \in Seq(Sound))
  /\ \A I \in SUBSET Id : Sweep(I) \in Seq(Sound)
  /\ \A i \in Id :
       <<[do |-> "unindex", id |-> i], [do |-> "unembed", id |-> i], [do |-> "unlink", id |-> i]>>
         \in Seq(Sound)
  /\ \A r \in Row : <<[do |-> "unlink", id |-> r.id], [do |-> "link", row |-> r]>> \in Seq(Sound)
<1>1. ASSUME NEW R \in SUBSET Row
      PROVE  Relink(R) \in Seq(Sound) /\ (Fresh(R) => Project(R) \in Seq(Sound))
  <2>1. [do |-> "relink", rows |-> R] \in Sound /\ [do |-> "embed", rows |-> R] \in Sound
    BY DEF Commit, Sound
  <2>2. Relink(R) \in Seq(Sound)
    BY <2>1 DEF Relink
  <2>3. ASSUME Fresh(R) PROVE Project(R) \in Seq(Sound)
    <3>1. [do |-> "index", rows |-> R] \in Sound
      BY <2>3 DEF Commit, Sound
    <3>2. <<[do |-> "index", rows |-> R], [do |-> "embed", rows |-> R]>> \in Seq(Sound)
      BY <2>1, <3>1
    <3>3. QED
      BY <2>2, <3>2 DEF Project
  <2>4. QED
    BY <2>2, <2>3
<1>2. ASSUME NEW I \in SUBSET Id
      PROVE  Sweep(I) \in Seq(Sound)
  <2>1. [do |-> "sweep", ids |-> I] \in Sound
    BY DEF Commit, Sound
  <2>2. QED
    BY <2>1 DEF Sweep
<1>3. ASSUME NEW i \in Id
      PROVE  <<[do |-> "unindex", id |-> i], [do |-> "unembed", id |-> i], [do |-> "unlink", id |-> i]>>
               \in Seq(Sound)
  <2>1. /\ [do |-> "unindex", id |-> i] \in Sound
        /\ [do |-> "unembed", id |-> i] \in Sound
        /\ [do |-> "unlink", id |-> i] \in Sound
    BY DEF Commit, Sound
  <2>2. QED
    BY <2>1
<1>4. ASSUME NEW r \in Row
      PROVE  <<[do |-> "unlink", id |-> r.id], [do |-> "link", row |-> r]>> \in Seq(Sound)
  <2>1. [do |-> "unlink", id |-> r.id] \in Sound /\ [do |-> "link", row |-> r] \in Sound
    BY DEF Commit, Sound, Row
  <2>2. QED
    BY <2>1
<1>5. QED
  BY <1>1, <1>2, <1>3, <1>4

(* A step that leaves disk alone and adds no row keeps what was promised.  *)
LEMMA Lessens ==
  ASSUME FilesTypeOK, FilesTypeOK', strayed \subseteq strayed',
         disk' = disk, pages' \subseteq pages
  PROVE  /\ OneHomePerId => OneHomePerId'
         /\ \A c \in Content, p \in Path : Placed(c, p) => Placed(c, p)'
         /\ Sound \subseteq Sound'
         /\ plan' = plan /\ PlanInv => PlanInv'
<1>1. \A i \in Id \ strayed' :
         /\ FilesOf(i)' \subseteq FilesOf(i)
         /\ RowsOf(i)' \subseteq RowsOf(i)
         /\ \A p \in FilesOf(i)' : disk'[p] = disk[p]
  BY DEF FilesOf, Files, RowsOf
<1>2. QED
  BY <1>1, Shrinks

(* The rows of files, one file each at most, are fresh.                    *)
LEMMA FreshRows ==
  ASSUME FilesTypeOK, OneHomePerId, NEW P \in SUBSET Files
  PROVE  Fresh({RowOf(disk[p], p) : p \in P})
<1> DEFINE R == {RowOf(disk[p], p) : p \in P}
<1> SUFFICES ASSUME NEW r \in R, r.id \notin strayed
             PROVE  FilesOf(r.id) \subseteq {r.path} /\ \A s \in R : s.id = r.id => s = r
  BY DEF Fresh
<1>1. PICK p \in P : r = RowOf(disk[p], p)
  OBVIOUS
<1>2. disk[p] \in Content /\ p \in FilesOf(r.id) /\ r.id \in Id /\ r.path = p
  BY <1>1 DEF RowOf, FilesOf, Files, FilesTypeOK, Content
<1>3. FilesOf(r.id) \subseteq {p}
  BY <1>2 DEF OneHomePerId
<1>4. ASSUME NEW s \in R, s.id = r.id PROVE s = r
  <2>1. PICK q \in P : s = RowOf(disk[q], q)
    OBVIOUS
  <2>2. q \in FilesOf(r.id)
    BY <1>4, <2>1 DEF RowOf, FilesOf, Files
  <2>3. QED
    BY <1>1, <1>3, <2>1, <2>2
<1>5. QED
  BY <1>2, <1>3, <1>4

(* Files and rows of a page agree on its place in every reachable state    *)
(* until it strays: through overwritten files, crashes between any two     *)
(* commits, rebuilds, and other pages' files copied onto its place.        *)
THEOREM OneHome == FilesSpec => []OneHomePerId
<1> USE FilesAssumption, CorpusAssumption
<1>1. FilesInit => HomeInv
  <2> SUFFICES ASSUME FilesInit PROVE HomeInv
    OBVIOUS
  <2>1. \A c \in Corpus : c \in Content
    OBVIOUS
  <2>2. \A p \in Files : disk[p] \in Corpus /\ p = Home(disk[p])
    BY <2>1 DEF FilesInit, Files
  <2>3. \A p, q \in Files : disk[p].id = disk[q].id => p = q
    BY <2>2
  <2>4. \A r \in pages : \E c \in Corpus : r = RowOf(c, Home(c))
    BY DEF FilesInit
  <2>5. \A r \in pages, p \in Files : r.id = disk[p].id => p = r.path
    BY <2>2, <2>4 DEF RowOf
  <2>6. \A r, s \in pages : r.id = s.id => r = s
    BY <2>4 DEF RowOf
  <2>7. OneHomePerId
    BY <2>2, <2>3, <2>5, <2>6 DEF OneHomePerId, FilesOf, RowsOf
  <2>8. PlanInv
    BY DEF FilesInit, PlanInv
  <2>9. QED
    BY <2>7, <2>8 DEF HomeInv
<1>2. FilesTypeOK /\ FilesTypeOK' /\ HomeInv /\ [FilesNext]_filesVars => HomeInv'
  <2> SUFFICES ASSUME FilesTypeOK, FilesTypeOK', HomeInv, [FilesNext]_filesVars
               PROVE  HomeInv'
    OBVIOUS
  <2> USE DEF HomeInv
  <2>1. CASE UNCHANGED filesVars
    <3>1. strayed \subseteq strayed' /\ disk' = disk /\ pages' \subseteq pages /\ plan' = plan
      BY <2>1 DEF filesVars
    <3>2. QED
      BY <3>1, Lessens
  <2>2. ASSUME NEW commits \in Seq(Sound), Call(commits), strayed' = strayed
        PROVE  HomeInv'
    <3>1. strayed \subseteq strayed' /\ disk' = disk /\ pages' \subseteq pages
      BY <2>2 DEF Call
    <3>2. OneHomePerId' /\ Sound \subseteq Sound'
      BY <3>1, Lessens
    <3>3. plan' \in Seq(Sound')
      BY <2>2, <3>2 DEF Call
    <3>4. QED
      BY <3>2, <3>3 DEF PlanInv
  <2>3. ASSUME NEW i \in Id, NEW c \in Content, NEW p \in Path, Call(Write(i, c, p)),
               strayed \subseteq strayed', Placed(c, p)'
        PROVE  HomeInv'
    <3>1. disk' = disk /\ pages' \subseteq pages /\ plan' = Write(i, c, p)
      BY <2>3 DEF Call
    <3>2. PlanInv'
      BY <2>3, <3>1 DEF PlanInv, Write
    <3>3. QED
      BY <2>3, <3>1, <3>2, Lessens
  <2>4. ASSUME NEW c \in Input, CreatePage(c) \/ UpsertSection(c) \/ UpdatePage(c)
        PROVE  HomeInv'
    <3>1. c \in Content /\ c.id \in Id /\ Home(c) \in Path
      BY RowsOfFiles DEF Content
    <3>2. WritePage(c)
      BY <2>4 DEF CreatePage, UpsertSection, UpdatePage
    <3>3. strayed \subseteq strayed' /\ Call(Write(c.id, c, Home(c))) /\ disk' = disk /\ pages' = pages
      BY <3>2 DEF WritePage, Call
    <3>4. Placed(c, Home(c))'
      BY <3>2, <3>3 DEF WritePage, Strays, Placed, FilesOf, Files, RowsOf, Home
    <3>5. QED
      BY <2>3, <3>1, <3>3, <3>4
  <2>5. ASSUME NEW r \in pages, NEW v \in Version, EditPage(r, v)
        PROVE  HomeInv'
    <3> DEFINE p == r.path
               old == disk[p]
    <3>1. r.id \in Id /\ p \in Path
      BY DEF FilesTypeOK, Row
    <3>2. old \in Content /\ p \in FilesOf(old.id) /\ old.id \in Id
      BY <2>5, <3>1 DEF EditPage, FilesTypeOK, FilesOf, Files, Content
    <3>3. PICK c \in Content : c = [old EXCEPT !.ver = v] /\ c.id = old.id /\ Home(c) = Home(old)
      <4>1. [old EXCEPT !.ver = v] \in Content
        BY <3>2 DEF Content
      <4>2. [old EXCEPT !.ver = v].id = old.id /\ [old EXCEPT !.ver = v].type = old.type
        BY <3>2 DEF Content
      <4>3. Home([old EXCEPT !.ver = v]) = Home(old)
        BY <4>2 DEF Home
      <4>4. QED
        BY <4>1, <4>2, <4>3
    <3>4. Call(Write(r.id, c, p)) /\ strayed' = strayed /\ disk' = disk /\ pages' = pages
      <4>1. Call(Write(r.id, [old EXCEPT !.ver = v], p)) /\ strayed' = strayed
        BY <2>5 DEF EditPage
      <4>2. QED
        BY <3>3, <4>1 DEF Call
    <3>5. Placed(c, p)
      BY <3>2, <3>3 DEF OneHomePerId, Placed, FilesOf
    <3>6. Placed(c, p)'
      BY <3>1, <3>4, <3>5, Lessens
    <3>7. QED
      BY <2>3, <3>1, <3>4, <3>6
  <2>6. ASSUME NEW r \in pages, RemovePage(r)
        PROVE  HomeInv'
    <3> DEFINE i == r.id
    <3>1. i \in Id /\ r.path \in Path
      BY DEF FilesTypeOK, Row
    <3>2. /\ [do |-> "unindex", id |-> i] \in Sound
          /\ [do |-> "unembed", id |-> i] \in Sound
          /\ [do |-> "unlink", id |-> i] \in Sound
          /\ [do |-> "unlinkTo", id |-> i] \in Sound
          /\ [do |-> "file", id |-> i, path |-> r.path, to |-> Absent] \in Sound
      BY <3>1 DEF Commit, Sound
    <3>3. <<[do |-> "unindex", id |-> i], [do |-> "unembed", id |-> i],
            [do |-> "unlink", id |-> i], [do |-> "unlinkTo", id |-> i],
            [do |-> "file", id |-> i, path |-> r.path, to |-> Absent]>> \in Seq(Sound)
      BY <3>2
    <3>4. QED
      BY <2>2, <2>6, <3>3 DEF RemovePage
  <2>7. ASSUME NEW i \in Id, NEW p \in Path, ReindexPage(i, p)
        PROVE  HomeInv'
    <3> DEFINE R == {RowOf(disk[q], q) : q \in {p}}
    <3>1. disk[p] \in Content /\ {p} \in SUBSET Files
      BY <2>7 DEF ReindexPage, Files, FilesTypeOK
    <3>2. R = {RowOf(disk[p], p)} /\ R \in SUBSET Row
      BY <3>1, RowsOfFiles
    <3>3. Fresh(R)
      BY <3>1, FreshRows
    <3>4. Project({RowOf(disk[p], p)}) \in Seq(Sound)
      BY <3>2, <3>3, SoundPieces
    <3>5. QED
      BY <2>2, <2>7, <3>4 DEF ReindexPage
  <2>8. CASE ReindexAll
    <3>1. /\ \A T \in Table : [do |-> "drop", table |-> T] \in Sound
          /\ [do |-> "ensure"] \in Sound /\ [do |-> "rebuild"] \in Sound
      BY DEF Commit, Sound
    <3>2. <<[do |-> "drop", table |-> "pages"], [do |-> "drop", table |-> "embeddings"],
            [do |-> "drop", table |-> "links"], [do |-> "ensure"], [do |-> "rebuild"]>> \in Seq(Sound)
      BY <3>1 DEF Table
    <3>3. QED
      BY <2>2, <2>8, <3>2 DEF ReindexAll
  <2>9. ASSUME NEW rest \in Seq(Sound), Done(rest), plan # <<>>, Head(plan).do # "file",
               disk' = disk, pages' \subseteq pages
        PROVE  HomeInv'
    <3>1. plan \in Seq(Sound)
      BY <2>9, WriteIsAtHead
    <3>2. strayed' = strayed
      BY <2>9 DEF Done
    <3>3. OneHomePerId' /\ Sound \subseteq Sound'
      BY <2>9, <3>2, Lessens
    <3>4. QED
      BY <2>9, <3>1, <3>3, PlanGoesOn
  <2>10. <<>> \in Seq(Sound)
    OBVIOUS
  <2>11. CASE CommitFile
    <3> DEFINE to == Head(plan).to
               p == Head(plan).path
    <3>1. plan \in Seq(Commit) /\ plan # <<>> /\ Head(plan) \in Commit /\ Head(plan).do = "file"
      BY <2>11 DEF CommitFile, Now, FilesTypeOK
    <3>2. p \in Path /\ to \in Content \cup {Absent}
      BY <3>1, CommitFields
    <3>3. disk' = [disk EXCEPT ![p] = to] /\ pages' = pages /\ strayed' = strayed /\ Done(<<>>)
      BY <2>11 DEF CommitFile, Done
    <3>4. CASE plan \in Seq(Sound)
      <4>1. Head(plan) \in Sound
        BY <3>1, <3>4
      <4>2. to = Absent
        BY <3>1, <4>1 DEF Sound
      <4>3. \A i \in Id \ strayed' :
               /\ FilesOf(i)' \subseteq FilesOf(i)
               /\ RowsOf(i)' \subseteq RowsOf(i)
               /\ \A q \in FilesOf(i)' : disk'[q] = disk[q]
        BY <3>2, <3>3, <4>2 DEF FilesOf, Files, RowsOf, FilesTypeOK
      <4>4. OneHomePerId' /\ Sound \subseteq Sound'
        BY <3>3, <4>3, Shrinks
      <4>5. QED
        BY <2>10, <3>1, <3>3, <3>4, <4>4, PlanGoesOn
    <3>5. ASSUME NEW i \in Id, NEW c \in Content, NEW q \in Path, plan = Write(i, c, q), Placed(c, q)
          PROVE  HomeInv'
      <4>1. p = q /\ to = c /\ Tail(plan) = <<[do |-> "pass"]>>
        BY <3>5 DEF Write
      <4>2. [do |-> "pass"] \in Sound'
        BY DEF Commit, Sound
      <4>3. plan' = <<[do |-> "pass"]>>
        BY <3>3, <4>1 DEF Done
      <4>4. PlanInv'
        BY <4>2, <4>3 DEF PlanInv
      <4>5. c.id \in Id /\ c # Absent
        BY DEF Content
      <4>6. ASSUME NEW j \in Id, j # c.id
            PROVE  FilesOf(j)' \subseteq FilesOf(j) /\ RowsOf(j)' = RowsOf(j)
                   /\ \A f \in FilesOf(j)' : disk'[f] = disk[f]
        BY <3>2, <3>3, <4>1, <4>6 DEF FilesOf, Files, RowsOf, FilesTypeOK
      <4>7. ASSUME c.id \notin strayed
            PROVE  /\ FilesOf(c.id)' = {q} /\ disk'[q] = c /\ q = Home(c)
                   /\ RowsOf(c.id)' = RowsOf(c.id)
                   /\ \A r \in RowsOf(c.id) : r.path = q
        BY <3>2, <3>3, <3>5, <4>1, <4>5, <4>7 DEF FilesOf, Files, RowsOf, Placed, FilesTypeOK
      <4>8. OneHomePerId'
        <5> SUFFICES ASSUME NEW j \in Id, j \notin strayed
                     PROVE  /\ \A f, g \in FilesOf(j)' : f = g
                            /\ \A f \in FilesOf(j)' : f = Home(disk'[f])
                            /\ \A r \in RowsOf(j)' : FilesOf(j)' \subseteq {r.path}
                            /\ \A r, s \in RowsOf(j)' : r = s
          BY <3>3 DEF OneHomePerId, Home
        <5>1. CASE j = c.id
          BY <4>7, <5>1 DEF OneHomePerId
        <5>2. CASE j # c.id
          BY <4>6, <5>2 DEF OneHomePerId
        <5>3. QED
          BY <5>1, <5>2
      <4>9. QED
        BY <4>4, <4>8
    <3>6. QED
      BY <3>4, <3>5 DEF PlanInv
  <2>12. CASE CommitDelete
    BY <2>9, <2>10, <2>12 DEF CommitDelete, Now, Quietly
  <2>13. CASE NextSwept
    <3>1. plan # <<>> /\ Head(plan).do = "sweep" /\ Head(plan) \in Commit
      BY <2>13 DEF NextSwept, Now, FilesTypeOK
    <3>2. Head(plan).ids \in SUBSET Id
      BY <3>1, CommitFields
    <3>3. PICK i \in Head(plan).ids :
             Quietly(<<[do |-> "unindex", id |-> i], [do |-> "unembed", id |-> i], [do |-> "unlink", id |-> i]>>
                     \o Sweep(Head(plan).ids \ {i}))
      BY <2>13 DEF NextSwept
    <3>4. <<[do |-> "unindex", id |-> i], [do |-> "unembed", id |-> i], [do |-> "unlink", id |-> i]>>
            \o Sweep(Head(plan).ids \ {i}) \in Seq(Sound)
      BY <3>2, SoundPieces
    <3>5. QED
      BY <2>9, <2>13, <3>1, <3>3, <3>4 DEF NextSwept, Quietly
  <2>14. CASE NextRelinked
    <3>1. plan # <<>> /\ Head(plan).do = "relink" /\ Head(plan) \in Commit
      BY <2>14 DEF NextRelinked, Now, FilesTypeOK
    <3>2. Head(plan).rows \in SUBSET Row
      BY <3>1, CommitFields
    <3>3. PICK r \in Head(plan).rows :
             Quietly(<<[do |-> "unlink", id |-> r.id], [do |-> "link", row |-> r]>>
                     \o Relink(Head(plan).rows \ {r}))
      BY <2>14 DEF NextRelinked
    <3>4. <<[do |-> "unlink", id |-> r.id], [do |-> "link", row |-> r]>>
            \o Relink(Head(plan).rows \ {r}) \in Seq(Sound)
      BY <3>2, SoundPieces
    <3>5. QED
      BY <2>9, <2>14, <3>1, <3>3, <3>4 DEF NextRelinked, Quietly
  <2>15. CASE CommitIndex
    <3> DEFINE R == Head(plan).rows
    <3>1. plan # <<>> /\ Head(plan).do = "index" /\ Head(plan) \in Commit
      BY <2>15 DEF CommitIndex, Now, FilesTypeOK
    <3>2. plan \in Seq(Sound)
      BY <3>1, WriteIsAtHead
    <3>3. R \in SUBSET Row /\ Fresh(R)
      <4>1. Head(plan) \in Sound
        BY <3>1, <3>2
      <4>2. QED
        BY <3>1, <4>1, CommitFields DEF Sound
    <3>4. PICK new \in SUBSET R : pages' = Others(pages, R) \cup new
      BY <2>15 DEF CommitIndex, Merged
    <3>5. disk' = disk /\ strayed' = strayed /\ Done(<<>>)
      BY <2>15 DEF CommitIndex, Quietly, Done
    <3>6. OneHomePerId'
      <4> SUFFICES ASSUME NEW j \in Id, j \notin strayed
                   PROVE  /\ \A f, g \in FilesOf(j) : f = g
                          /\ \A f \in FilesOf(j) : f = Home(disk[f])
                          /\ \A r \in RowsOf(j)' : FilesOf(j) \subseteq {r.path}
                          /\ \A r, s \in RowsOf(j)' : r = s
        BY <3>5 DEF OneHomePerId, FilesOf, Files, Home
      <4>1. CASE \E n \in R : n.id = j
        <5>1. RowsOf(j)' \subseteq R /\ \A r \in RowsOf(j)' : r.id = j
          BY <3>4, <4>1 DEF RowsOf, Others
        <5>2. QED
          BY <3>3, <5>1 DEF Fresh, OneHomePerId
      <4>2. CASE ~ \E n \in R : n.id = j
        <5>1. RowsOf(j)' \subseteq RowsOf(j)
          BY <3>4, <4>2 DEF RowsOf, Others
        <5>2. QED
          BY <5>1 DEF OneHomePerId
      <4>3. QED
        BY <4>1, <4>2
    <3>7. Sound \subseteq Sound'
      <4>1. \A Q : Fresh(Q) => Fresh(Q)'
        BY <3>5 DEF Fresh, FilesOf, Files
      <4>2. QED
        BY <4>1 DEF Sound
    <3>8. QED
      BY <2>10, <3>1, <3>2, <3>5, <3>6, <3>7, PlanGoesOn
  <2>16. CASE CommitEmbed
    BY <2>9, <2>10, <2>16 DEF CommitEmbed, Now, Quietly
  <2>17. CASE CommitLinks
    BY <2>9, <2>10, <2>17 DEF CommitLinks, Now, Quietly
  <2>18. CASE CommitDrop
    BY <2>9, <2>10, <2>18 DEF CommitDrop, Now, Quietly
  <2>19. CASE CommitEnsure
    BY <2>9, <2>10, <2>19 DEF CommitEnsure, Now, Quietly
  <2>20. CASE CommitPass
    <3>1. PICK hash \in HashOf :
             LET seen == {disk[p].id : p \in Files}
                 toIndex == {p \in Files : disk[p].id \in DOMAIN hash => ~Holds(hash[disk[p].id], p)}
             IN  Quietly(Sweep(DOMAIN hash \ seen) \o Project({RowOf(disk[p], p) : p \in toIndex}))
      BY <2>20 DEF CommitPass
    <3> DEFINE seen == {disk[p].id : p \in Files}
               toIndex == {p \in Files : disk[p].id \in DOMAIN hash => ~Holds(hash[disk[p].id], p)}
    <3>2. DOMAIN hash \ seen \in SUBSET Id
      BY DEF HashOf, Row, FilesTypeOK
    <3>3. {RowOf(disk[p], p) : p \in toIndex} \in SUBSET Row
      BY RowsOfFiles DEF Files, FilesTypeOK
    <3>4. toIndex \in SUBSET Files
      OBVIOUS
    <3>5. Fresh({RowOf(disk[p], p) : p \in toIndex})
      BY <3>4, FreshRows
    <3>6. Sweep(DOMAIN hash \ seen) \o Project({RowOf(disk[p], p) : p \in toIndex}) \in Seq(Sound)
      BY <3>2, <3>3, <3>5, SoundPieces
    <3>7. QED
      BY <2>9, <2>20, <3>1, <3>6 DEF CommitPass, Now, Quietly
  <2>21. CASE CommitRebuild
    <3>1. {RowOf(disk[p], p) : p \in Files} \in SUBSET Row
      BY RowsOfFiles DEF Files, FilesTypeOK
    <3>2. Files \in SUBSET Files
      OBVIOUS
    <3>3. Fresh({RowOf(disk[p], p) : p \in Files})
      BY <3>2, FreshRows
    <3>4. Project({RowOf(disk[p], p) : p \in Files}) \in Seq(Sound)
      BY <3>1, <3>3, SoundPieces
    <3>5. QED
      BY <2>9, <2>21, <3>4 DEF CommitRebuild, Now, Quietly
  <2>22. CASE Cut
    <3>1. strayed \subseteq strayed' /\ disk' = disk /\ pages' \subseteq pages
      BY <2>22 DEF Cut
    <3>2. PlanInv'
      BY <2>22 DEF Cut, PlanInv
    <3>3. QED
      BY <3>1, <3>2, Lessens
  <2>23. ASSUME NEW m \in Move, NEW keep \in BOOLEAN, HandMove(m[1], m[2], keep)
         PROVE  HomeInv'
    <3> DEFINE p == m[1]
               q == m[2]
    <3>1. p \in Path /\ q \in Path /\ p \in Files /\ q \notin Files
      BY <2>23 DEF HandMove
    <3>2. /\ disk' = [disk EXCEPT ![q] = disk[p], ![p] = IF keep THEN disk[p] ELSE Absent]
          /\ strayed' = strayed \cup {disk[p].id} /\ pages' = pages /\ plan' = plan
      BY <2>23 DEF HandMove
    <3>3. ASSUME NEW i \in Id \ strayed'
          PROVE  /\ FilesOf(i)' \subseteq FilesOf(i)
                 /\ RowsOf(i)' \subseteq RowsOf(i)
                 /\ \A f \in FilesOf(i)' : disk'[f] = disk[f]
      <4>1. i # disk[p].id /\ RowsOf(i)' = RowsOf(i)
        BY <3>2 DEF RowsOf
      <4>2. ASSUME NEW f \in FilesOf(i)'
            PROVE  f \in FilesOf(i) /\ disk'[f] = disk[f]
        <5>1. f \in Path /\ disk'[f] # Absent /\ disk'[f].id = i
          BY DEF FilesOf, Files
        <5>2. f # q /\ f # p
          BY <3>1, <3>2, <4>1, <5>1 DEF FilesTypeOK
        <5>3. disk'[f] = disk[f]
          BY <3>2, <5>1, <5>2 DEF FilesTypeOK
        <5>4. QED
          BY <5>1, <5>3 DEF FilesOf, Files
      <4>3. QED
        BY <4>1, <4>2
    <3>4. strayed \subseteq strayed'
      BY <3>2
    <3>5. QED
      BY <3>2, <3>3, <3>4, Shrinks
  <2>24. QED
    BY <2>1, <2>4, <2>5, <2>6, <2>7, <2>8, <2>11, <2>12, <2>13, <2>14, <2>15, <2>16, <2>17,
       <2>18, <2>19, <2>20, <2>21, <2>22, <2>23 DEF FilesNext, WriterCommits
<1>3. HomeInv => OneHomePerId
  BY DEF HomeInv
<1>4. QED
  BY <1>1, <1>2, <1>3, FilesTypeCorrect, PTL DEF FilesSpec

-----------------------------------------------------------------------------
(* remove_page                                                              *)

\* Pages that were removed, not brought back, and never had a second file.
Absentees == removed \ strayed

\* Nothing in files or tables tells that page i was there; the edges other
\* pages have to it are in their markdown, and come back with their rows.
Gone(i) ==
    /\ FilesOf(i) = {} /\ RowsOf(i) = {}
    /\ \A e \in embs : e.id # i
    /\ \A l \in links : l[1] # i

\* The doc string of remove_page is right about pages that did not stray.
RemovalSticks == \A i \in Absentees : Gone(i)

\* Commits that bring none of them back.
Calm == {c \in Commit :
            /\ c.do # "file"
            /\ c.do \in {"index", "embed", "relink"} => \A r \in c.rows : r.id \notin Absentees
            /\ c.do = "link" => c.row.id \notin Absentees}

\* What is left of a removal after n of its commits, and what they have done.
Removal(i, p, n) ==
    CASE n = 0 -> <<[do |-> "unindex", id |-> i], [do |-> "unembed", id |-> i], [do |-> "unlink", id |-> i],
                    [do |-> "unlinkTo", id |-> i], [do |-> "file", id |-> i, path |-> p, to |-> Absent]>>
      [] n = 1 -> <<[do |-> "unembed", id |-> i], [do |-> "unlink", id |-> i],
                    [do |-> "unlinkTo", id |-> i], [do |-> "file", id |-> i, path |-> p, to |-> Absent]>>
      [] n = 2 -> <<[do |-> "unlink", id |-> i], [do |-> "unlinkTo", id |-> i],
                    [do |-> "file", id |-> i, path |-> p, to |-> Absent]>>
      [] n = 3 -> <<[do |-> "unlinkTo", id |-> i], [do |-> "file", id |-> i, path |-> p, to |-> Absent]>>
      [] n = 4 -> <<[do |-> "file", id |-> i, path |-> p, to |-> Absent]>>

Erased(i, p, n) ==
    i \notin strayed =>
        /\ FilesOf(i) \subseteq {p}
        /\ n >= 1 => RowsOf(i) = {}
        /\ n >= 2 => \A e \in embs : e.id # i
        /\ n >= 3 => \A l \in links : l[1] # i

RemovalPlan ==
    \/ plan \in Seq(Calm)
    \/ \E i \in Id, c \in Content, p \in Path : plan = Write(i, c, p) /\ c.id \notin Absentees
    \/ \E i \in Id, p \in Path, n \in 0..4 : plan = Removal(i, p, n) /\ Erased(i, p, n)

(* While nobody else joins the absentees, calm commits stay calm.          *)
LEMMA CalmStays ==
  ASSUME Absentees' \subseteq Absentees
  PROVE  Calm \subseteq Calm'
<1> SUFFICES ASSUME NEW c \in Calm PROVE c \in Calm'
  OBVIOUS
<1>1. c \in Commit /\ c.do # "file"
  BY DEF Calm
<1>2. c.do \in {"index", "embed", "relink"} => \A r \in c.rows : r.id \notin Absentees'
  BY DEF Calm
<1>3. c.do = "link" => c.row.id \notin Absentees'
  BY DEF Calm
<1>4. QED
  BY <1>1, <1>2, <1>3 DEF Calm

(* Commits other than to a file, of rows of pages that are there.          *)
LEMMA CalmPieces ==
  /\ \A R \in SUBSET Row : (\A r \in R : r.id \notin Absentees) =>
        Relink(R) \in Seq(Calm) /\ Project(R) \in Seq(Calm)
  /\ \A I \in SUBSET Id : Sweep(I) \in Seq(Calm)
  /\ \A i \in Id :
       <<[do |-> "unindex", id |-> i], [do |-> "unembed", id |-> i], [do |-> "unlink", id |-> i]>>
         \in Seq(Calm)
  /\ \A r \in Row : r.id \notin Absentees =>
        <<[do |-> "unlink", id |-> r.id], [do |-> "link", row |-> r]>> \in Seq(Calm)
<1>1. ASSUME NEW R \in SUBSET Row, \A r \in R : r.id \notin Absentees
      PROVE  Relink(R) \in Seq(Calm) /\ Project(R) \in Seq(Calm)
  <2>1. [do |-> "relink", rows |-> R] \in Calm
    BY <1>1 DEF Commit, Calm
  <2>2. [do |-> "embed", rows |-> R] \in Calm
    BY <1>1 DEF Commit, Calm
  <2>3. [do |-> "index", rows |-> R] \in Calm
    BY <1>1 DEF Commit, Calm
  <2>4. Relink(R) \in Seq(Calm)
    BY <2>1 DEF Relink
  <2>5. <<[do |-> "index", rows |-> R], [do |-> "embed", rows |-> R]>> \in Seq(Calm)
    BY <2>2, <2>3
  <2>6. QED
    BY <2>4, <2>5 DEF Project
<1>2. ASSUME NEW I \in SUBSET Id
      PROVE  Sweep(I) \in Seq(Calm)
  <2>1. [do |-> "sweep", ids |-> I] \in Calm
    BY DEF Commit, Calm
  <2>2. QED
    BY <2>1 DEF Sweep
<1>3. ASSUME NEW i \in Id, NEW d \in {"unindex", "unembed", "unlink"}
      PROVE  [do |-> d, id |-> i] \in Calm
  <2>1. [do |-> d, id |-> i] \in Commit
    BY DEF Commit
  <2>2. d \notin {"file", "index", "embed", "relink", "link"}
    OBVIOUS
  <2>3. QED
    BY <2>1, <2>2 DEF Calm
<1>4. ASSUME NEW r \in Row, r.id \notin Absentees
      PROVE  <<[do |-> "unlink", id |-> r.id], [do |-> "link", row |-> r]>> \in Seq(Calm)
  <2>1. [do |-> "link", row |-> r] \in Calm
    BY <1>4 DEF Commit, Calm
  <2>2. [do |-> "unlink", id |-> r.id] \in Calm
    BY <1>3 DEF Row
  <2>3. QED
    BY <2>1, <2>2
<1>5. ASSUME NEW i \in Id
      PROVE  <<[do |-> "unindex", id |-> i], [do |-> "unembed", id |-> i], [do |-> "unlink", id |-> i]>>
               \in Seq(Calm)
  <2>1. [do |-> "unindex", id |-> i] \in Calm
    BY <1>3
  <2>2. [do |-> "unembed", id |-> i] \in Calm
    BY <1>3
  <2>3. [do |-> "unlink", id |-> i] \in Calm
    BY <1>3
  <2>4. QED
    BY <2>1, <2>2, <2>3
<1>6. QED
  BY <1>1, <1>2, <1>4, <1>5

(* A removal goes on commit by commit.                                     *)
LEMMA RemovalGoesOn ==
  ASSUME NEW i, NEW p
  PROVE  /\ \A n \in 0..4 : Removal(i, p, n) # <<>>
         /\ \A n \in 0..3 : Tail(Removal(i, p, n)) = Removal(i, p, n + 1)
         /\ Head(Removal(i, p, 0)) = [do |-> "unindex", id |-> i]
         /\ Head(Removal(i, p, 1)) = [do |-> "unembed", id |-> i]
         /\ Head(Removal(i, p, 2)) = [do |-> "unlink", id |-> i]
         /\ Head(Removal(i, p, 3)) = [do |-> "unlinkTo", id |-> i]
         /\ Removal(i, p, 4) = <<[do |-> "file", id |-> i, path |-> p, to |-> Absent]>>
<1>1. /\ Removal(i, p, 0) = <<[do |-> "unindex", id |-> i], [do |-> "unembed", id |-> i],
                              [do |-> "unlink", id |-> i], [do |-> "unlinkTo", id |-> i],
                              [do |-> "file", id |-> i, path |-> p, to |-> Absent]>>
      /\ Removal(i, p, 1) = <<[do |-> "unembed", id |-> i], [do |-> "unlink", id |-> i],
                              [do |-> "unlinkTo", id |-> i],
                              [do |-> "file", id |-> i, path |-> p, to |-> Absent]>>
      /\ Removal(i, p, 2) = <<[do |-> "unlink", id |-> i], [do |-> "unlinkTo", id |-> i],
                              [do |-> "file", id |-> i, path |-> p, to |-> Absent]>>
      /\ Removal(i, p, 3) = <<[do |-> "unlinkTo", id |-> i],
                              [do |-> "file", id |-> i, path |-> p, to |-> Absent]>>
      /\ Removal(i, p, 4) = <<[do |-> "file", id |-> i, path |-> p, to |-> Absent]>>
  BY DEF Removal
<1>2. \A n \in 0..4 : n \in {0, 1, 2, 3, 4}
  OBVIOUS
<1>3. \A n \in 0..3 : n \in {0, 1, 2, 3}
  OBVIOUS
<1>4. \A a, b, c, d, e :
         /\ Tail(<<a, b, c, d, e>>) = <<b, c, d, e>> /\ Tail(<<b, c, d, e>>) = <<c, d, e>>
         /\ Tail(<<c, d, e>>) = <<d, e>> /\ Tail(<<d, e>>) = <<e>>
  OBVIOUS
<1>5. \A a, b, c, d, e :
         /\ Head(<<a, b, c, d, e>>) = a /\ Head(<<b, c, d, e>>) = b
         /\ Head(<<c, d, e>>) = c /\ Head(<<d, e>>) = d
         /\ <<a, b, c, d, e>> # <<>> /\ <<b, c, d, e>> # <<>> /\ <<c, d, e>> # <<>>
         /\ <<d, e>> # <<>> /\ <<e>> # <<>>
  OBVIOUS
<1>6. /\ Tail(Removal(i, p, 0)) = Removal(i, p, 1)
      /\ Tail(Removal(i, p, 1)) = Removal(i, p, 2)
      /\ Tail(Removal(i, p, 2)) = Removal(i, p, 3)
      /\ Tail(Removal(i, p, 3)) = Removal(i, p, 4)
      /\ Head(Removal(i, p, 0)) = [do |-> "unindex", id |-> i]
      /\ Head(Removal(i, p, 1)) = [do |-> "unembed", id |-> i]
      /\ Head(Removal(i, p, 2)) = [do |-> "unlink", id |-> i]
      /\ Head(Removal(i, p, 3)) = [do |-> "unlinkTo", id |-> i]
      /\ Removal(i, p, 0) # <<>> /\ Removal(i, p, 1) # <<>> /\ Removal(i, p, 2) # <<>>
      /\ Removal(i, p, 3) # <<>> /\ Removal(i, p, 4) # <<>>
  <2> DEFINE c0 == [do |-> "unindex", id |-> i]
             c1 == [do |-> "unembed", id |-> i]
             c2 == [do |-> "unlink", id |-> i]
             c3 == [do |-> "unlinkTo", id |-> i]
             c4 == [do |-> "file", id |-> i, path |-> p, to |-> Absent]
  <2>1. /\ Removal(i, p, 0) = <<c0, c1, c2, c3, c4>> /\ Removal(i, p, 1) = <<c1, c2, c3, c4>>
        /\ Removal(i, p, 2) = <<c2, c3, c4>> /\ Removal(i, p, 3) = <<c3, c4>>
        /\ Removal(i, p, 4) = <<c4>>
    BY <1>1
  <2> HIDE DEF c0, c1, c2, c3, c4
  <2>2. /\ Tail(Removal(i, p, 0)) = Removal(i, p, 1)
        /\ Tail(Removal(i, p, 1)) = Removal(i, p, 2)
        /\ Tail(Removal(i, p, 2)) = Removal(i, p, 3)
        /\ Tail(Removal(i, p, 3)) = Removal(i, p, 4)
    <3>1. Tail(<<c0, c1, c2, c3, c4>>) = <<c1, c2, c3, c4>>
      OBVIOUS
    <3>2. Tail(<<c1, c2, c3, c4>>) = <<c2, c3, c4>>
      OBVIOUS
    <3>3. Tail(<<c2, c3, c4>>) = <<c3, c4>>
      BY <1>4, Zenon
    <3>4. Tail(<<c3, c4>>) = <<c4>>
      BY <1>4, Zenon
    <3>5. QED
      BY <2>1, <3>1, <3>2, <3>3, <3>4, Zenon
  <2>3. /\ Head(Removal(i, p, 0)) = c0 /\ Head(Removal(i, p, 1)) = c1
        /\ Head(Removal(i, p, 2)) = c2 /\ Head(Removal(i, p, 3)) = c3
    BY <1>5, <2>1
  <2>4. /\ Removal(i, p, 0) # <<>> /\ Removal(i, p, 1) # <<>> /\ Removal(i, p, 2) # <<>>
        /\ Removal(i, p, 3) # <<>> /\ Removal(i, p, 4) # <<>>
    BY <1>5, <2>1
  <2>5. QED
    BY <2>2, <2>3, <2>4 DEF c0, c1, c2, c3
<1>7. \A n \in 0..4 : Removal(i, p, n) # <<>>
  BY <1>2, <1>6
<1>8. \A n \in 0..3 : Tail(Removal(i, p, n)) = Removal(i, p, n + 1)
  BY <1>3, <1>6
<1>9. QED
  BY <1>1, <1>6, <1>7, <1>8

(* The plan after a commit that is not the last of a removal.              *)
LEMMA CalmGoesOn ==
  ASSUME plan \in Seq(Calm), plan # <<>>, Absentees' \subseteq Absentees,
         NEW rest \in Seq(Calm), Done(rest)
  PROVE  RemovalPlan'
<1>1. plan' \in Seq(Calm)
  BY Spliced DEF Done
<1>2. plan' \in Seq(Calm')
  BY <1>1, CalmStays
<1>3. QED
  BY <1>2 DEF RemovalPlan

(* What stands at the head of the plan tells the plans apart.              *)
LEMMA HeadTells ==
  ASSUME RemovalPlan, plan # <<>>
  PROVE  \/ plan \in Seq(Calm) /\ Head(plan) \in Calm
         \/ \E i \in Id, c \in Content, p \in Path : plan = Write(i, c, p) /\ c.id \notin Absentees
         \/ \E i \in Id, p \in Path, n \in 0..4 :
               /\ plan = Removal(i, p, n) /\ Erased(i, p, n)
               /\ Head(plan).id = i
               /\ n = 0 => Head(plan).do = "unindex"
               /\ n = 1 => Head(plan).do = "unembed"
               /\ n = 2 => Head(plan).do = "unlink"
               /\ n = 3 => Head(plan).do = "unlinkTo"
               /\ n = 4 => Head(plan).do = "file" /\ Head(plan).path = p
                           /\ Head(plan).to = Absent /\ Tail(plan) = <<>>
<1>1. CASE plan \in Seq(Calm)
  <2>1. Head(plan) \in Calm
    BY <1>1
  <2>2. QED
    BY <1>1, <2>1
<1>2. ASSUME NEW i \in Id, NEW p \in Path, NEW n \in 0..4, plan = Removal(i, p, n), Erased(i, p, n)
      PROVE  /\ Head(plan).id = i
             /\ n = 0 => Head(plan).do = "unindex"
             /\ n = 1 => Head(plan).do = "unembed"
             /\ n = 2 => Head(plan).do = "unlink"
             /\ n = 3 => Head(plan).do = "unlinkTo"
             /\ n = 4 => Head(plan).do = "file" /\ Head(plan).path = p
                         /\ Head(plan).to = Absent /\ Tail(plan) = <<>>
  <2>1. CASE n = 0
    BY <1>2, <2>1, RemovalGoesOn
  <2>2. CASE n = 1
    BY <1>2, <2>2, RemovalGoesOn
  <2>3. CASE n = 2
    BY <1>2, <2>3, RemovalGoesOn
  <2>4. CASE n = 3
    BY <1>2, <2>4, RemovalGoesOn
  <2>5. CASE n = 4
    <3>1. plan = <<[do |-> "file", id |-> i, path |-> p, to |-> Absent]>>
      BY <1>2, <2>5, RemovalGoesOn
    <3>2. QED
      BY <2>5, <3>1
  <2>6. QED
    BY <2>1, <2>2, <2>3, <2>4, <2>5
<1>3. CASE \E i \in Id, p \in Path, n \in 0..4 : plan = Removal(i, p, n) /\ Erased(i, p, n)
  <2>1. PICK i \in Id, p \in Path, n \in 0..4 : plan = Removal(i, p, n) /\ Erased(i, p, n)
    BY <1>3
  <2>2. /\ Head(plan).id = i
        /\ n = 0 => Head(plan).do = "unindex"
        /\ n = 1 => Head(plan).do = "unembed"
        /\ n = 2 => Head(plan).do = "unlink"
        /\ n = 3 => Head(plan).do = "unlinkTo"
        /\ n = 4 => Head(plan).do = "file" /\ Head(plan).path = p
                    /\ Head(plan).to = Absent /\ Tail(plan) = <<>>
    BY <1>2, <2>1
  <2>3. QED
    BY <2>1, <2>2
<1>4. QED
  BY <1>1, <1>3 DEF RemovalPlan

(* Most steps bring no absentee back and add nothing that names one.       *)
LEMMA AbsenteesStay ==
  ASSUME RemovalSticks, Absentees' \subseteq Absentees,
         \A i \in Absentees' :
            /\ FilesOf(i)' \subseteq FilesOf(i) /\ RowsOf(i)' \subseteq RowsOf(i)
            /\ \A e \in embs' : e.id = i => e \in embs
            /\ \A l \in links' : l[1] = i => l \in links
  PROVE  RemovalSticks'
<1> SUFFICES ASSUME NEW i \in Absentees' PROVE Gone(i)'
  BY DEF RemovalSticks
<1>1. Gone(i)
  BY DEF RemovalSticks
<1>2. FilesOf(i)' = {} /\ RowsOf(i)' = {}
  BY <1>1 DEF Gone
<1>3. \A e \in embs' : e.id # i
  BY <1>1 DEF Gone
<1>4. \A l \in links' : l[1] # i
  BY <1>1 DEF Gone
<1>5. QED
  BY <1>2, <1>3, <1>4 DEF Gone

(* What a removal has done stays done while nothing is added.              *)
LEMMA ErasedStays ==
  ASSUME strayed \subseteq strayed',
         NEW i, NEW p, NEW n, Erased(i, p, n),
         i \notin strayed' => FilesOf(i)' \subseteq FilesOf(i),
         pages' \subseteq pages, embs' \subseteq embs, links' \subseteq links
  PROVE  Erased(i, p, n)'
BY DEF Erased, RowsOf

(* Neither a write nor a removal is under way.                             *)
LEMMA CalmPlan ==
  ASSUME RemovalPlan, plan # <<>>,
         Head(plan).do \notin {"file", "unindex", "unembed", "unlink", "unlinkTo"}
  PROVE  plan \in Seq(Calm)
<1>1. CASE \E i \in Id, c \in Content, p \in Path : plan = Write(i, c, p) /\ c.id \notin Absentees
  <2>1. Head(plan).do = "file"
    BY <1>1 DEF Write
  <2>2. QED
    BY <2>1
<1>2. ASSUME NEW n \in 0..4,
             n = 0 => Head(plan).do = "unindex",
             n = 1 => Head(plan).do = "unembed",
             n = 2 => Head(plan).do = "unlink",
             n = 3 => Head(plan).do = "unlinkTo",
             n = 4 => Head(plan).do = "file"
      PROVE  FALSE
  <2>1. n \in {0, 1, 2, 3, 4}
    OBVIOUS
  <2>2. QED
    BY <1>2, <2>1
<1>3. QED
  BY <1>1, <1>2, HeadTells

(* A page whose removal ran to its end stays away, from files, rows,       *)
(* embeddings and outgoing edges, until a write or a copy brings it back,  *)
(* as remove_page says: all but the pages that strayed, whose second file  *)
(* the finding of MCCorpusRemoved shows.  A removal cut short proves       *)
(* nothing, and a pass may then restore the rows from the file.            *)
THEOREM RemovalsStick == FilesSpec => []RemovalSticks
<1> USE FilesAssumption, CorpusAssumption
<1> DEFINE RemovalInv == RemovalSticks /\ RemovalPlan
<1>1. FilesInit => RemovalInv
  BY DEF FilesInit, RemovalSticks, RemovalPlan, Absentees
<1>2. FilesTypeOK /\ FilesTypeOK' /\ OneHomePerId /\ RemovalInv /\ [FilesNext]_filesVars => RemovalInv'
  <2> SUFFICES ASSUME FilesTypeOK, FilesTypeOK', OneHomePerId, RemovalInv, [FilesNext]_filesVars
               PROVE  RemovalInv'
    OBVIOUS
  <2>1. Absentees \subseteq Id /\ \A i \in Absentees : Gone(i)
    BY DEF FilesTypeOK, RemovalSticks, Absentees
  <2>2. \A p \in Files : disk[p] \in Content /\ disk[p].id \in Id /\ disk[p].id \notin Absentees
    BY <2>1 DEF Files, FilesOf, FilesTypeOK, Content, Gone
  <2>3. CASE UNCHANGED filesVars
    <3>1. /\ Absentees' = Absentees /\ strayed' = strayed /\ plan' = plan
          /\ disk' = disk /\ pages' = pages /\ embs' = embs /\ links' = links
      BY <2>3 DEF filesVars, Absentees
    <3>2. \A i : FilesOf(i)' = FilesOf(i) /\ RowsOf(i)' = RowsOf(i)
      BY <3>1 DEF FilesOf, Files, RowsOf
    <3>3. RemovalSticks'
      BY <3>1, <3>2, AbsenteesStay
    <3>4. Calm' = Calm
      BY <3>1 DEF Calm
    <3>5. \A i, p, n : Erased(i, p, n)' <=> Erased(i, p, n)
      BY <3>1, <3>2 DEF Erased
    <3>6. RemovalPlan'
      BY <3>1, <3>4, <3>5 DEF RemovalPlan, Write, Removal
    <3>7. QED
      BY <3>3, <3>6
  (* Calls touch neither files nor tables. *)
  <2>4. ASSUME NEW commits, Call(commits), strayed \subseteq strayed', Absentees' \subseteq Absentees
        PROVE  /\ RemovalSticks' /\ plan' = commits
               /\ disk' = disk /\ pages' = pages /\ embs' = embs /\ links' = links
    <3>1. plan' = commits /\ disk' = disk /\ pages' = pages /\ embs' = embs /\ links' = links
      BY <2>4 DEF Call
    <3>2. \A i : FilesOf(i)' = FilesOf(i) /\ RowsOf(i)' = RowsOf(i)
      BY <3>1 DEF FilesOf, Files, RowsOf
    <3>3. QED
      BY <2>4, <3>1, <3>2, AbsenteesStay
  <2>5. ASSUME NEW commits \in Seq(Calm), Call(commits), UNCHANGED <<strayed, removed>>
        PROVE  RemovalInv'
    <3>1. Absentees' = Absentees
      BY <2>5 DEF Absentees
    <3>2. RemovalSticks' /\ plan' = commits
      BY <2>4, <2>5, <3>1
    <3>3. commits \in Seq(Calm')
      BY <2>5, <3>1, CalmStays
    <3>4. QED
      BY <3>2, <3>3 DEF RemovalPlan
  <2>6. ASSUME NEW c \in Input, CreatePage(c) \/ UpsertSection(c) \/ UpdatePage(c)
        PROVE  RemovalInv'
    <3>1. c \in Content /\ c.id \in Id /\ Home(c) \in Path
      BY RowsOfFiles DEF Content
    <3>2. WritePage(c)
      BY <2>6 DEF CreatePage, UpsertSection, UpdatePage
    <3>3. strayed \subseteq strayed' /\ Absentees' \subseteq Absentees /\ c.id \notin Absentees'
      BY <3>2 DEF WritePage, Absentees
    <3>4. Call(Write(c.id, c, Home(c)))
      BY <3>2 DEF WritePage
    <3>5. RemovalSticks' /\ plan' = Write(c.id, c, Home(c))
          /\ disk' = disk /\ pages' = pages /\ embs' = embs /\ links' = links
      BY <2>4, <3>3, <3>4
    <3>6. RemovalPlan'
      BY <3>1, <3>3, <3>5 DEF RemovalPlan, Write
    <3>7. QED
      BY <3>5, <3>6
  <2>7. ASSUME NEW r \in pages, NEW v \in Version, EditPage(r, v)
        PROVE  RemovalInv'
    <3> DEFINE c == [disk[r.path] EXCEPT !.ver = v]
    <3>1. r.id \in Id /\ r.path \in Path
      BY DEF FilesTypeOK, Row
    <3>2. r.path \in Files
      BY <2>7, <3>1 DEF EditPage, Files
    <3>3. c \in Content /\ c.id \notin Absentees
      BY <2>2, <3>2 DEF Content
    <3>4. Call(Write(r.id, c, r.path)) /\ UNCHANGED <<strayed, removed>>
      BY <2>7 DEF EditPage
    <3> HIDE DEF c
    <3>5. Absentees' = Absentees
      BY <3>4 DEF Absentees
    <3>6. RemovalSticks' /\ plan' = Write(r.id, c, r.path)
      BY <2>4, <3>4, <3>5
    <3>7. RemovalPlan'
      BY <3>1, <3>3, <3>5, <3>6 DEF RemovalPlan, Write
    <3>8. QED
      BY <3>6, <3>7
  <2>8. ASSUME NEW r \in pages, RemovePage(r)
        PROVE  RemovalInv'
    <3>1. r.id \in Id /\ r.path \in Path
      BY DEF FilesTypeOK, Row
    <3>2. Call(Removal(r.id, r.path, 0)) /\ UNCHANGED <<strayed, removed>>
      BY <2>8 DEF RemovePage, Removal
    <3>3. Absentees' = Absentees
      BY <3>2 DEF Absentees
    <3>4. RemovalSticks' /\ plan' = Removal(r.id, r.path, 0) /\ disk' = disk
      BY <2>4, <3>2, <3>3
    <3>5. r.id \notin strayed => FilesOf(r.id) \subseteq {r.path}
      BY <3>1 DEF OneHomePerId, RowsOf
    <3>6. Erased(r.id, r.path, 0)'
      BY <3>2, <3>4, <3>5 DEF Erased, FilesOf, Files
    <3>7. plan' = Removal(r.id, r.path, 0)'
      BY <3>4 DEF Removal
    <3>8. RemovalPlan'
      BY <3>1, <3>6, <3>7 DEF RemovalPlan
    <3>9. QED
      BY <3>4, <3>8
  <2>9. ASSUME NEW i \in Id, NEW p \in Path, ReindexPage(i, p)
        PROVE  RemovalInv'
    <3>1. p \in Files
      BY <2>9 DEF ReindexPage
    <3>2. {RowOf(disk[p], p)} \in SUBSET Row
      BY <2>2, <3>1, RowsOfFiles
    <3>3. \A r \in {RowOf(disk[p], p)} : r.id \notin Absentees
      BY <2>2, <3>1 DEF RowOf
    <3>4. Project({RowOf(disk[p], p)}) \in Seq(Calm)
      BY <3>2, <3>3, CalmPieces
    <3>5. QED
      BY <2>5, <2>9, <3>4 DEF ReindexPage
  <2>10. CASE ReindexAll
    <3>1. \A T \in Table : [do |-> "drop", table |-> T] \in Calm
      BY DEF Commit, Calm
    <3>2. [do |-> "ensure"] \in Calm
      BY DEF Commit, Calm
    <3>3. [do |-> "rebuild"] \in Calm
      BY DEF Commit, Calm
    <3>4. <<[do |-> "drop", table |-> "pages"], [do |-> "drop", table |-> "embeddings"],
            [do |-> "drop", table |-> "links"], [do |-> "ensure"], [do |-> "rebuild"]>> \in Seq(Calm)
      BY <3>1, <3>2, <3>3 DEF Table
    <3>5. QED
      BY <2>5, <2>10, <3>4 DEF ReindexAll
  (* The commits of other calls than a write or a removal. *)
  <2>11. ASSUME NEW rest \in Seq(Calm), Done(rest), plan # <<>>, UNCHANGED removed,
                Head(plan).do \notin {"file", "unindex", "unembed", "unlink", "unlinkTo"},
                disk' = disk,
                \A i \in Absentees :
                   /\ RowsOf(i)' \subseteq RowsOf(i)
                   /\ \A e \in embs' : e.id = i => e \in embs
                   /\ \A l \in links' : l[1] = i => l \in links
         PROVE  RemovalInv'
    <3>1. Absentees' = Absentees
      BY <2>11 DEF Absentees, Done
    <3>2. \A i : FilesOf(i)' = FilesOf(i)
      BY <2>11 DEF FilesOf, Files
    <3>3. RemovalSticks'
      BY <2>11, <3>1, <3>2, AbsenteesStay
    <3>4. plan \in Seq(Calm)
      BY <2>11, CalmPlan
    <3>5. RemovalPlan'
      BY <2>11, <3>1, <3>4, CalmGoesOn
    <3>6. QED
      BY <3>3, <3>5
  <2>12. <<>> \in Seq(Calm)
    OBVIOUS
  <2>13. CASE CommitFile
    <3> DEFINE to == Head(plan).to
               p == Head(plan).path
    <3>1. /\ plan # <<>> /\ Head(plan).do = "file" /\ disk' = [disk EXCEPT ![p] = to]
          /\ pages' = pages /\ embs' = embs /\ links' = links /\ strayed' = strayed
          /\ plan' = Tail(plan)
          /\ removed' = IF to = Absent THEN removed \cup {Head(plan).id} ELSE removed
      <4>1. Done(<<>>) /\ plan # <<>>
        BY <2>13 DEF CommitFile, Now
      <4>2. Tail(plan) \in Seq(Commit)
        BY <4>1 DEF FilesTypeOK
      <4>3. plan' = Tail(plan)
        BY <4>1, <4>2 DEF Done
      <4>4. QED
        BY <2>13, <4>1, <4>3 DEF CommitFile, Now, Done
    <3>2. \A i : RowsOf(i)' = RowsOf(i)
      BY <3>1 DEF RowsOf
    <3>3. ASSUME NEW i \in Id, NEW c \in Content, NEW q \in Path, plan = Write(i, c, q), c.id \notin Absentees
          PROVE  RemovalInv'
      <4>1. p = q /\ to = c /\ Tail(plan) = <<[do |-> "pass"]>>
        BY <3>3 DEF Write
      <4>2. Absentees' = Absentees
        BY <3>1, <4>1 DEF Absentees
      <4>3. \A j \in Absentees : FilesOf(j)' \subseteq FilesOf(j)
        BY <3>1, <3>3, <4>1 DEF FilesOf, Files, FilesTypeOK
      <4>4. RemovalSticks'
        BY <3>1, <3>2, <4>2, <4>3, AbsenteesStay
      <4>5. [do |-> "pass"] \in Calm'
        BY DEF Commit, Calm
      <4>6. plan' \in Seq(Calm')
        <5>1. plan' = <<[do |-> "pass"]>>
          BY <3>1, <4>1
        <5>2. \A x \in Calm' : <<x>> \in Seq(Calm')
          OBVIOUS
        <5>3. QED
          BY <4>5, <5>1, <5>2
      <4>7. QED
        BY <4>4, <4>6 DEF RemovalPlan
    <3>4. ASSUME NEW i \in Id, NEW q \in Path, Erased(i, q, 4), Head(plan).id = i, p = q, to = Absent,
                 Tail(plan) = <<>>
          PROVE  RemovalInv'
      <4>1. removed' = removed \cup {i}
        BY <3>1, <3>4
      <4>2. \A j : FilesOf(j)' \subseteq FilesOf(j) \ {q}
        BY <3>1, <3>4 DEF FilesOf, Files, FilesTypeOK
      <4>3. ASSUME NEW j \in Absentees' PROVE Gone(j)'
        <5>1. CASE j = i
          <6>1. i \notin strayed
            BY <3>1, <5>1 DEF Absentees
          <6>2. /\ FilesOf(i) \subseteq {q} /\ RowsOf(i) = {}
                /\ \A e \in embs : e.id # i
                /\ \A l \in links : l[1] # i
            BY <3>4, <6>1 DEF Erased
          <6>3. FilesOf(i)' = {} /\ RowsOf(i)' = {}
            BY <3>2, <4>2, <6>2
          <6>4. QED
            BY <3>1, <5>1, <6>2, <6>3 DEF Gone
        <5>2. CASE j # i
          <6>1. j \in Absentees
            BY <3>1, <4>1, <5>2 DEF Absentees
          <6>2. FilesOf(j) = {} /\ RowsOf(j) = {}
                /\ (\A e \in embs : e.id # j) /\ (\A l \in links : l[1] # j)
            BY <2>1, <6>1 DEF Gone
          <6>3. FilesOf(j)' = {} /\ RowsOf(j)' = {}
            BY <3>2, <4>2, <6>2
          <6>4. QED
            BY <3>1, <6>2, <6>3 DEF Gone
        <5>3. QED
          BY <5>1, <5>2
      <4>4. plan' = <<>>
        BY <3>1, <3>4
      <4>5. plan' \in Seq(Calm')
        BY <4>4
      <4>6. QED
        BY <4>3, <4>5 DEF RemovalSticks, RemovalPlan
    <3>5. CASE Head(plan) \in Calm
      BY <3>1, <3>5 DEF Calm
    <3>6. QED
      <4>1. CASE \E i \in Id, c \in Content, q \in Path : plan = Write(i, c, q) /\ c.id \notin Absentees
        BY <3>3, <4>1
      <4>2. ASSUME NEW i \in Id, NEW q \in Path, NEW n \in 0..4, Erased(i, q, n), Head(plan).id = i,
                   n = 0 => Head(plan).do = "unindex",
                   n = 1 => Head(plan).do = "unembed",
                   n = 2 => Head(plan).do = "unlink",
                   n = 3 => Head(plan).do = "unlinkTo",
                   n = 4 => p = q /\ to = Absent /\ Tail(plan) = <<>>
            PROVE  RemovalInv'
        <5>1. n # 0 /\ n # 1 /\ n # 2 /\ n # 3
          BY <3>1, <4>2
        <5>2. n = 4
          BY <5>1
        <5>3. QED
          BY <3>4, <4>2, <5>2
      <4>3. QED
        BY <3>1, <3>5, <4>1, <4>2, HeadTells
  <2>14. CASE CommitDelete
    <3> DEFINE j == Head(plan).id
    <3>1. /\ plan # <<>> /\ Head(plan).do # "file"
          /\ Done(<<>>) /\ removed' = removed /\ disk' = disk
      BY <2>14 DEF CommitDelete, Now, Quietly
    <3>2. plan' = Tail(plan) /\ strayed' = strayed
      <4>1. Tail(plan) \in Seq(Commit)
        BY <3>1 DEF FilesTypeOK
      <4>2. QED
        BY <3>1, <4>1 DEF Done
    <3>3. pages' \subseteq pages /\ embs' \subseteq embs /\ links' \subseteq links
      BY <2>14 DEF CommitDelete
    <3>4. /\ Head(plan).do = "unindex" => \A r \in pages' : r.id # j
          /\ Head(plan).do = "unembed" => \A e \in embs' : e.id # j
          /\ Head(plan).do = "unlink" => \A l \in links' : l[1] # j
      BY <2>14, <3>1 DEF CommitDelete, Now
    <3>5. Absentees' = Absentees
      BY <3>1, <3>2 DEF Absentees
    <3>6. \A i : FilesOf(i)' = FilesOf(i) /\ RowsOf(i)' \subseteq RowsOf(i)
      BY <3>1, <3>3 DEF FilesOf, Files, RowsOf
    <3>7. RemovalSticks'
      BY <3>3, <3>5, <3>6, AbsenteesStay
    <3>8. CASE plan \in Seq(Calm)
      BY <2>12, <3>1, <3>5, <3>7, <3>8, CalmGoesOn
    <3>9. ASSUME NEW i \in Id, NEW q \in Path, NEW n \in 0..4, plan = Removal(i, q, n), Erased(i, q, n),
                 j = i,
                 n = 0 => Head(plan).do = "unindex",
                 n = 1 => Head(plan).do = "unembed",
                 n = 2 => Head(plan).do = "unlink",
                 n = 3 => Head(plan).do = "unlinkTo",
                 n = 4 => Head(plan).do = "file"
          PROVE  RemovalInv'
      <4>1. n \in 0..3 /\ n + 1 \in 0..4
        BY <3>1, <3>9
      <4>2. plan' = Removal(i, q, n + 1)'
        <5>1. plan' = Removal(i, q, n + 1)
          BY <3>2, <3>9, <4>1, RemovalGoesOn
        <5>2. QED
          BY <5>1 DEF Removal
      <4>3. Erased(i, q, n)'
        BY <3>2, <3>3, <3>6, <3>9, ErasedStays
      <4>4. Erased(i, q, n + 1)'
        <5> SUFFICES ASSUME i \notin strayed'
                     PROVE  /\ FilesOf(i)' \subseteq {q}
                            /\ RowsOf(i)' = {}
                            /\ n + 1 >= 2 => \A e \in embs' : e.id # i
                            /\ n + 1 >= 3 => \A l \in links' : l[1] # i
          BY DEF Erased
        <5>1. FilesOf(i)' \subseteq {q}
          BY <4>3 DEF Erased
        <5>2. RowsOf(i)' = {}
          <6>1. CASE n = 0
            BY <3>4, <3>9, <6>1 DEF RowsOf
          <6>2. CASE n # 0
            <7>1. n >= 1
              BY <6>2
            <7>2. QED
              BY <4>3, <7>1 DEF Erased
          <6>3. QED
            BY <6>1, <6>2
        <5>3. n + 1 >= 2 => \A e \in embs' : e.id # i
          <6>1. CASE n = 1
            BY <3>4, <3>9, <6>1
          <6>2. CASE n >= 2
            BY <4>3, <6>2 DEF Erased
          <6>3. QED
            BY <6>1, <6>2
        <5>4. n + 1 >= 3 => \A l \in links' : l[1] # i
          <6>1. CASE n = 2
            BY <3>4, <3>9, <6>1
          <6>2. CASE n >= 3
            BY <4>3, <6>2 DEF Erased
          <6>3. QED
            BY <6>1, <6>2
        <5>5. QED
          BY <5>1, <5>2, <5>3, <5>4
      <4>5. RemovalPlan'
        BY <4>1, <4>2, <4>4 DEF RemovalPlan
      <4>6. QED
        BY <3>7, <4>5
    <3>10. CASE \E i \in Id, c \in Content, p \in Path : plan = Write(i, c, p) /\ c.id \notin Absentees
      <4>1. Head(plan).do = "file"
        BY <3>10 DEF Write
      <4>2. QED
        BY <3>1, <4>1
    <3>11. CASE \E i \in Id, p \in Path, n \in 0..4 :
                  /\ plan = Removal(i, p, n) /\ Erased(i, p, n)
                  /\ j = i
                  /\ n = 0 => Head(plan).do = "unindex"
                  /\ n = 1 => Head(plan).do = "unembed"
                  /\ n = 2 => Head(plan).do = "unlink"
                  /\ n = 3 => Head(plan).do = "unlinkTo"
                  /\ n = 4 => Head(plan).do = "file"
      BY <3>9, <3>11
    <3>12. QED
      <4>1. \/ plan \in Seq(Calm)
            \/ \E i \in Id, c \in Content, p \in Path : plan = Write(i, c, p) /\ c.id \notin Absentees
            \/ \E i \in Id, p \in Path, n \in 0..4 :
                  /\ plan = Removal(i, p, n) /\ Erased(i, p, n)
                  /\ j = i
                  /\ n = 0 => Head(plan).do = "unindex"
                  /\ n = 1 => Head(plan).do = "unembed"
                  /\ n = 2 => Head(plan).do = "unlink"
                  /\ n = 3 => Head(plan).do = "unlinkTo"
                  /\ n = 4 => Head(plan).do = "file"
        BY <3>1, HeadTells
      <4>2. QED
        BY <3>8, <3>10, <3>11, <4>1
  <2>15. CASE NextSwept
    <3>1. plan # <<>> /\ Head(plan).do = "sweep" /\ Head(plan) \in Commit
      BY <2>15 DEF NextSwept, Now, FilesTypeOK
    <3>2. Head(plan).ids \in SUBSET Id
      BY <3>1, CommitFields
    <3>3. PICK i \in Head(plan).ids :
             Quietly(<<[do |-> "unindex", id |-> i], [do |-> "unembed", id |-> i], [do |-> "unlink", id |-> i]>>
                     \o Sweep(Head(plan).ids \ {i}))
      BY <2>15 DEF NextSwept
    <3>4. <<[do |-> "unindex", id |-> i], [do |-> "unembed", id |-> i], [do |-> "unlink", id |-> i]>>
            \o Sweep(Head(plan).ids \ {i}) \in Seq(Calm)
      BY <3>2, CalmPieces
    <3>5. disk' = disk /\ pages' = pages /\ embs' = embs /\ links' = links
      BY <2>15 DEF NextSwept
    <3>6. \A i1 : RowsOf(i1)' = RowsOf(i1)
      BY <3>5 DEF RowsOf
    <3>7. QED
      BY <2>11, <3>1, <3>3, <3>4, <3>5, <3>6 DEF Quietly
  <2>16. CASE NextRelinked
    <3>1. plan # <<>> /\ Head(plan).do = "relink" /\ Head(plan) \in Commit
      BY <2>16 DEF NextRelinked, Now, FilesTypeOK
    <3>2. Head(plan).rows \in SUBSET Row /\ \A r \in Head(plan).rows : r.id \notin Absentees
      <4>1. Head(plan) \in Calm
        BY <3>1, CalmPlan
      <4>2. QED
        BY <3>1, <4>1, CommitFields DEF Calm
    <3>3. PICK r \in Head(plan).rows :
             Quietly(<<[do |-> "unlink", id |-> r.id], [do |-> "link", row |-> r]>>
                     \o Relink(Head(plan).rows \ {r}))
      BY <2>16 DEF NextRelinked
    <3>4. <<[do |-> "unlink", id |-> r.id], [do |-> "link", row |-> r]>>
            \o Relink(Head(plan).rows \ {r}) \in Seq(Calm)
      <4>1. Relink(Head(plan).rows \ {r}) \in Seq(Calm)
        BY <3>2, CalmPieces
      <4>2. <<[do |-> "unlink", id |-> r.id], [do |-> "link", row |-> r]>> \in Seq(Calm)
        BY <3>2, CalmPieces
      <4>3. QED
        BY <4>1, <4>2
    <3>5. disk' = disk /\ pages' = pages /\ embs' = embs /\ links' = links
      BY <2>16 DEF NextRelinked
    <3>6. \A i1 : RowsOf(i1)' = RowsOf(i1)
      BY <3>5 DEF RowsOf
    <3>7. QED
      BY <2>11, <3>1, <3>3, <3>4, <3>5, <3>6 DEF Quietly
  <2>17. CASE CommitIndex
    <3> DEFINE R == Head(plan).rows
    <3>1. plan # <<>> /\ Head(plan).do = "index" /\ Head(plan) \in Commit /\ Quietly(<<>>)
      BY <2>17 DEF CommitIndex, Now, FilesTypeOK
    <3>2. \A r \in R : r.id \notin Absentees
      <4>1. Head(plan) \in Calm
        BY <3>1, CalmPlan
      <4>2. QED
        BY <3>1, <4>1 DEF Calm
    <3>3. pages' \subseteq pages \cup R
      BY <2>17, MergedRows DEF CommitIndex
    <3>4. \A i \in Absentees : RowsOf(i)' \subseteq RowsOf(i)
      BY <3>2, <3>3 DEF RowsOf
    <3>5. disk' = disk /\ embs' = embs /\ links' = links
      BY <2>17 DEF CommitIndex
    <3>6. QED
      BY <2>11, <2>12, <3>1, <3>4, <3>5 DEF Quietly
  <2>18. CASE CommitEmbed
    <3> DEFINE new == {[id |-> r.id, ver |-> r.ver] : r \in Head(plan).rows}
    <3>1. plan # <<>> /\ Head(plan).do = "embed" /\ Head(plan) \in Commit /\ Quietly(<<>>)
      BY <2>18 DEF CommitEmbed, Now, FilesTypeOK
    <3>2. \A r \in Head(plan).rows : r.id \notin Absentees
      <4>1. Head(plan) \in Calm
        BY <3>1, CalmPlan
      <4>2. QED
        BY <3>1, <4>1 DEF Calm
    <3>3. \A e \in new : e.id \notin Absentees
      BY <3>2
    <3>4. embs' \subseteq embs \cup new
      BY <2>18, MergedRows DEF CommitEmbed
    <3>5. disk' = disk /\ pages' = pages /\ links' = links
      BY <2>18 DEF CommitEmbed
    <3>6. \A i : RowsOf(i)' = RowsOf(i)
      BY <3>5 DEF RowsOf
    <3>7. \A i \in Absentees, e \in embs' : e.id = i => e \in embs
      BY <3>3, <3>4
    <3> HIDE DEF new
    <3>8. QED
      BY <2>11, <2>12, <3>1, <3>5, <3>6, <3>7 DEF Quietly
  <2>19. CASE CommitLinks
    <3> DEFINE r == Head(plan).row
    <3>1. plan # <<>> /\ Head(plan).do = "link" /\ Head(plan) \in Commit /\ Quietly(<<>>)
      BY <2>19 DEF CommitLinks, Now, FilesTypeOK
    <3>2. r.id \notin Absentees
      <4>1. Head(plan) \in Calm
        BY <3>1, CalmPlan
      <4>2. QED
        BY <3>1, <4>1 DEF Calm
    <3>3. links' = links \cup EdgesOf(r.id, r.ver)
      BY <2>19 DEF CommitLinks
    <3>4. \A i \in Absentees, l \in links' : l[1] = i => l \in links
      BY <3>2, <3>3 DEF EdgesOf
    <3>5. disk' = disk /\ pages' = pages /\ embs' = embs
      BY <2>19 DEF CommitLinks
    <3>6. \A i : RowsOf(i)' = RowsOf(i)
      BY <3>5 DEF RowsOf
    <3>7. QED
      BY <2>11, <2>12, <3>1, <3>4, <3>5, <3>6 DEF Quietly
  <2>20. CASE CommitDrop
    <3>1. plan # <<>> /\ Head(plan).do = "drop" /\ Quietly(<<>>) /\ disk' = disk
      BY <2>20 DEF CommitDrop, Now
    <3>2. pages' \subseteq pages /\ embs' \subseteq embs /\ links' \subseteq links
      BY <2>20 DEF CommitDrop
    <3>3. \A i : RowsOf(i)' \subseteq RowsOf(i)
      BY <3>2 DEF RowsOf
    <3>4. QED
      BY <2>11, <2>12, <3>1, <3>2, <3>3 DEF Quietly
  <2>21. CASE CommitEnsure
    <3>1. plan # <<>> /\ Head(plan).do = "ensure" /\ Quietly(<<>>)
          /\ disk' = disk /\ pages' = pages /\ embs' = embs /\ links' = links
      BY <2>21 DEF CommitEnsure, Now
    <3>2. \A i : RowsOf(i)' = RowsOf(i)
      BY <3>1 DEF RowsOf
    <3>3. QED
      BY <2>11, <2>12, <3>1, <3>2 DEF Quietly
  <2>22. ASSUME NEW P \in SUBSET Files
         PROVE  Project({RowOf(disk[p], p) : p \in P}) \in Seq(Calm)
    <3>1. {RowOf(disk[p], p) : p \in P} \in SUBSET Row
      BY <2>2, RowsOfFiles DEF Files
    <3>2. \A r \in {RowOf(disk[p], p) : p \in P} : r.id \notin Absentees
      BY <2>2 DEF RowOf
    <3>3. QED
      BY <3>1, <3>2, CalmPieces
  <2>23. CASE CommitPass
    <3>1. PICK hash \in HashOf :
             LET seen == {disk[p].id : p \in Files}
                 toIndex == {p \in Files : disk[p].id \in DOMAIN hash => ~Holds(hash[disk[p].id], p)}
             IN  Quietly(Sweep(DOMAIN hash \ seen) \o Project({RowOf(disk[p], p) : p \in toIndex}))
      BY <2>23 DEF CommitPass
    <3> DEFINE seen == {disk[p].id : p \in Files}
               toIndex == {p \in Files : disk[p].id \in DOMAIN hash => ~Holds(hash[disk[p].id], p)}
    <3>2. DOMAIN hash \ seen \in SUBSET Id
      BY DEF HashOf, Row, FilesTypeOK
    <3>3. toIndex \in SUBSET Files
      OBVIOUS
    <3>4. Project({RowOf(disk[p], p) : p \in toIndex}) \in Seq(Calm)
      BY <2>22, <3>3
    <3>5. Sweep(DOMAIN hash \ seen) \o Project({RowOf(disk[p], p) : p \in toIndex}) \in Seq(Calm)
      BY <3>2, <3>4, CalmPieces
    <3>6. Quietly(Sweep(DOMAIN hash \ seen) \o Project({RowOf(disk[p], p) : p \in toIndex}))
      BY <3>1
    <3>7. plan # <<>> /\ Head(plan).do = "pass"
          /\ disk' = disk /\ pages' = pages /\ embs' = embs /\ links' = links
      BY <2>23 DEF CommitPass, Now
    <3>8. \A i : RowsOf(i)' = RowsOf(i)
      BY <3>7 DEF RowsOf
    <3>9. QED
      BY <2>11, <3>5, <3>6, <3>7, <3>8 DEF Quietly
  <2>24. CASE CommitRebuild
    <3>1. Files \in SUBSET Files
      OBVIOUS
    <3>2. Project({RowOf(disk[p], p) : p \in Files}) \in Seq(Calm)
      BY <2>22, <3>1
    <3>3. plan # <<>> /\ Head(plan).do = "rebuild"
          /\ Quietly(Project({RowOf(disk[p], p) : p \in Files}))
          /\ disk' = disk /\ pages' = pages /\ embs' = embs /\ links' = links
      BY <2>24 DEF CommitRebuild, Now
    <3>4. \A i : RowsOf(i)' = RowsOf(i)
      BY <3>3 DEF RowsOf
    <3>5. QED
      BY <2>11, <3>2, <3>3, <3>4 DEF Quietly
  <2>25. CASE Cut
    <3>1. plan' = <<>> /\ Absentees' = Absentees
          /\ disk' = disk /\ pages' = pages /\ embs' = embs /\ links' = links
      BY <2>25 DEF Cut, Absentees
    <3>2. \A i : FilesOf(i)' = FilesOf(i) /\ RowsOf(i)' = RowsOf(i)
      BY <3>1 DEF FilesOf, Files, RowsOf
    <3>3. RemovalSticks'
      BY <3>1, <3>2, AbsenteesStay
    <3>4. plan' \in Seq(Calm')
      BY <3>1
    <3>5. QED
      BY <3>3, <3>4 DEF RemovalPlan
  <2>26. ASSUME NEW m \in Move, NEW keep \in BOOLEAN, HandMove(m[1], m[2], keep)
         PROVE  RemovalInv'
    <3> DEFINE p == m[1]
               q == m[2]
    <3>1. p \in Path /\ q \in Path /\ p \in Files /\ q \notin Files
      BY <2>26 DEF HandMove
    <3>2. /\ disk' = [disk EXCEPT ![q] = disk[p], ![p] = IF keep THEN disk[p] ELSE Absent]
          /\ strayed' = strayed \cup {disk[p].id} /\ removed' = removed \ {disk[p].id}
          /\ pages' = pages /\ embs' = embs /\ links' = links /\ plan' = plan
      BY <2>26 DEF HandMove
    <3>3. Absentees' \subseteq Absentees /\ strayed \subseteq strayed' /\ disk[p].id \in strayed'
      BY <3>2 DEF Absentees
    <3>4. ASSUME NEW i, i # disk[p].id
          PROVE  FilesOf(i)' \subseteq FilesOf(i)
      <4> SUFFICES ASSUME NEW f \in FilesOf(i)' PROVE f \in FilesOf(i)
        OBVIOUS
      <4>1. f \in Path /\ disk'[f] # Absent /\ disk'[f].id = i
        BY DEF FilesOf, Files
      <4>2. f # q /\ f # p
        BY <3>1, <3>2, <3>4, <4>1 DEF FilesTypeOK
      <4>3. disk'[f] = disk[f]
        BY <3>2, <4>1, <4>2 DEF FilesTypeOK
      <4>4. QED
        BY <4>1, <4>3 DEF FilesOf, Files
    <3>5. \A i : RowsOf(i)' = RowsOf(i)
      BY <3>2 DEF RowsOf
    <3>6. \A i \in Absentees' : i # disk[p].id
      BY <3>2 DEF Absentees
    <3>7. RemovalSticks'
      BY <3>2, <3>3, <3>4, <3>5, <3>6, AbsenteesStay
    <3>8. \A i, x, n : Erased(i, x, n) => Erased(i, x, n)'
      BY <3>2, <3>3, <3>4, ErasedStays
    <3>9. Calm \subseteq Calm'
      BY <3>3, CalmStays
    <3>10. RemovalPlan'
      <4>1. CASE plan \in Seq(Calm)
        <5>1. plan' \in Seq(Calm')
          BY <3>2, <3>9, <4>1
        <5>2. QED
          BY <5>1 DEF RemovalPlan
      <4>2. CASE \E i \in Id, c \in Content, x \in Path : plan = Write(i, c, x) /\ c.id \notin Absentees
        BY <3>2, <3>3, <4>2 DEF RemovalPlan, Write
      <4>3. CASE \E i \in Id, x \in Path, n \in 0..4 : plan = Removal(i, x, n) /\ Erased(i, x, n)
        BY <3>2, <3>8, <4>3 DEF RemovalPlan, Removal
      <4>4. QED
        BY <4>1, <4>2, <4>3 DEF RemovalPlan
    <3>11. QED
      BY <3>7, <3>10
  <2>27. QED
    BY <2>3, <2>6, <2>7, <2>8, <2>9, <2>10, <2>13, <2>14, <2>15, <2>16, <2>17, <2>18,
       <2>19, <2>20, <2>21, <2>23, <2>24, <2>25, <2>26 DEF FilesNext, WriterCommits
<1>3. RemovalInv => RemovalSticks
  OBVIOUS
<1>4. QED
  BY <1>1, <1>2, <1>3, FilesTypeCorrect, OneHome, PTL DEF FilesSpec
=============================================================================
