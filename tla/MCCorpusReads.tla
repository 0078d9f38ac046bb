--------------------------- MODULE MCCorpusReads ----------------------------
(***************************************************************************)
(* Instances of CorpusReads and PageFiles.  Pages x, y and the section     *)
(* x::z; two types with a directory each.  Version "a" has the alias ax,   *)
(* "b" the alias ay, which is near ax; "a" links to y and to its own page, *)
(* "b" to the section and back to x.                                       *)
(***************************************************************************)
EXTENDS CorpusReads

x == <<<<"x">>>>
y == <<<<"y">>>>
z == <<<<"x">>, <<"z">>>>
ax == <<<<"ax">>>>
ay == <<<<"ay">>>>
MCId == {x, y, z}
MCName == {"x", "y", "z", "x.md", "y.md", "z.md"}
MCMd == [n \in {"x", "y", "z"} |-> CASE n = "x" -> "x.md" [] n = "y" -> "y.md" [] n = "z" -> "z.md"]
MCSubDir == [t \in {"source", "concept"} |-> IF t = "source" THEN "sources" ELSE "concepts"]
Pg(i, t, v) == [id |-> i, type |-> t, ver |-> v]

MCLinksOf == [v \in {"a", "b", "o"} |->
                CASE v = "a" -> {<<y, "l">>, <<x, "m">>}
                  [] v = "b" -> {<<z, "l">>, <<x, "m">>}
                  [] v = "o" -> {}]
MCMeta == [v \in {"a", "b", "o"} |->
                [glossary |-> None, isDomain |-> IF v = "b" THEN TRUE ELSE None,
                 domains |-> {}, fetched |-> IF v = "a" THEN 2 ELSE None,
                 aliases |-> CASE v = "a" -> {ax} [] v = "b" -> {ay} [] v = "o" -> {}]]
MCHandle == MCId \cup {ax, ay}
MCTrigrams == [h \in MCHandle |-> IF h \in {ax, ay} THEN {1, 2, 3} \cup (IF h = ax THEN {4} ELSE {}) ELSE {}]

MCCorpus == {Pg(x, "concept", "a"), Pg(y, "concept", "b")}
MCInput == {Pg(x, "source", "o"), Pg(y, "concept", "a"), Pg(z, "source", "a")}
MCMove == {<<Target("concept", x), Target("source", y)>>}

MCMentions == [q \in {"q"} |-> {"o"}]
MCNeedles == [q \in {"q"} |-> {ay}]
MCFetch == [op \in {"search", "similar"}, k \in 1..2, narrow \in BOOLEAN |->
              IF op = "search" THEN 6 ELSE IF narrow THEN 2 ELSE k + 1]
Fetched == [NoFilters EXCEPT !.after = 1]
MCRequest ==
    [op : {"read", "find"}, arg : {ax}, fuzzy : BOOLEAN]
    \cup [op : {"read"}, arg : {x}, fuzzy : {FALSE}]
    \cup [op : {"find"}, arg : {ay}, fuzzy : {TRUE}]
    \cup [op : {"traverse"}, from : {x}, label : {None}, hops : {2}]
    \cup [op : {"traverse"}, from : {x}, label : {"l"}, hops : {1}]
    \cup [op : {"search"}, query : {"q"}, topK : {2}, filters : {NoFilters}]
    \cup [op : {"search"}, query : {"q"}, topK : {1}, filters : {Fetched}]
    \cup [op : {"similar"}, source : {x}, topK : {2}, types : {None, {"concept"}}]
    \cup [op : {"list"}, type : {None}, prefix : {None}, filters : {Fetched}, limit : {1}]
    \cup [op : {"incoming"}, to : {x}, label : {None}]
    \cup [op : {"domains"}]
=============================================================================
