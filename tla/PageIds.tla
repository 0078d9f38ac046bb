------------------------------ MODULE PageIds -------------------------------
(***************************************************************************)
(* Which page ids schema.py accepts, and which file a page gets.           *)
(*                                                                         *)
(* A text that may be an id is taken apart as the code does: at `::`, and  *)
(* each piece at `/`.  So `src-a::lib/b.py` is <<<<src-a>>, <<lib, b.py>>>>*)
(* and a slug is <<<<slug>>>>.  Names (what is left between separators)    *)
(* are opaque; the two regular expressions are the sets of names they      *)
(* match.  The 254 characters a section id may have are left out: the slug *)
(* part's own limit is in Plain.                                           *)
(***************************************************************************)
EXTENDS Naturals, Sequences

CONSTANTS
    Name,        \* texts without `/` and `::`
    Plain,       \* those _PAGE_ID_RE matches
    Dotted,      \* those _SECTION_PATH_COMPONENT_RE matches: a dot is allowed
    Reserved,    \* those whose part before the first dot Windows reserves
    Md,          \* Md[n]: the name n with `.md` after it
    PageType,    \* entity, concept, source, synthesis
    SubDir       \* _TYPE_TO_SUBDIR

\* Appending `.md` is injective, and gives a name with a dot.
ASSUME IdAssumption ==
    /\ Plain \subseteq Dotted /\ Dotted \subseteq Name
    /\ Md \in [Dotted -> Name \ Plain]
    /\ \A m, n \in Dotted : Md[m] = Md[n] => m = n
    /\ \A t, u \in PageType : SubDir[t] = SubDir[u] => t = u

IsSlug(piece) == Len(piece) = 1 /\ piece[1] \in Plain \ Reserved

\* `/` does not lead, trail or repeat, no component is `.`, `..` or hidden:
\* the empty name and those are not in Dotted.
IsRelPath(piece) ==
    piece # <<>> /\ \A k \in 1..Len(piece) : piece[k] \in Dotted \ Reserved

\* _validate_id
IsPageId(v) ==
    /\ v \in Seq(Seq(Name))
    /\ \/ Len(v) = 1 /\ IsSlug(v[1])
       \/ Len(v) = 2 /\ IsSlug(v[1]) /\ IsRelPath(v[2])

IsSection(v) == Len(v) = 2

\* _page_target_path, as the names below pages/: `::` becomes `/`, the last
\* name gets `.md`.
Target(t, v) ==
    <<SubDir[t]>> \o
    (IF IsSection(v)
       THEN v[1] \o [v[2] EXCEPT ![Len(v[2])] = Md[v[2][Len(v[2])]]]
       ELSE <<Md[v[1][1]]>>)
=============================================================================
