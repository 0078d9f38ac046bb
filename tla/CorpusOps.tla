------------------------------ MODULE CorpusOps ------------------------------
(***************************************************************************)
(* What each write tool of tools.py asks for, and what it makes of a page, *)
(* as pure operators: the vocabulary that SmaltCorpus (what the tools      *)
(* promise) and CorpusWrites (how they do it) share.                       *)
(*                                                                         *)
(* A page is its body and scalar frontmatter (`text`), its links_out and   *)
(* its claims.  The order inside the two lists plays no part in any tool.  *)
(***************************************************************************)
CONSTANTS
    SlugId,      \* ids write_page mangles on create
    SectionId,   \* ids with `::`, written as they are
    Text,        \* bodies (and whatever else update replaces)
    Label,       \* link labels
    ClaimId, ClaimText,
    NoClaim,     \* no claim under that id
    NoPage       \* no file, no row

ASSUME OpsAssumption ==
    /\ SlugId \cap SectionId = {}
    /\ NoClaim \notin ClaimText

Id == SlugId \cup SectionId

\* An edge: its identity is (target, label).
Link == Id \X Label
Claims == [ClaimId -> ClaimText \cup {NoClaim}]
PageContent == [text : Text, links : SUBSET Link, claims : Claims]

ASSUME NoPageAssumption == NoPage \notin PageContent

\* write_page, in its three flavours: a slug id that was mangled, a section
\* id, an id that must exist.
CreateOp == [kind : {"create"}, id : SlugId, page : PageContent]
UpsertOp == [kind : {"upsert"}, id : SectionId, page : PageContent]
UpdateOp == [kind : {"update"}, id : Id, page : PageContent]
\* add_link(s), add_claim(s): the single forms pass a singleton.
AddLinksOp == [kind : {"addLinks"}, id : Id, links : SUBSET Link]
AddClaimsOp == [kind : {"addClaims"}, id : Id, claims : Claims]
UpdateClaimOp == [kind : {"updateClaim"}, id : Id, claim : ClaimId, to : ClaimText]
RemoveClaimOp == [kind : {"removeClaim"}, id : Id, claim : ClaimId]
\* remove_link(target, label), or every label of the target without a label.
RemoveLinkOp == [kind : {"removeLink"}, id : Id, links : SUBSET Link]
RemovePageOp == [kind : {"removePage"}, id : Id]

EditOp == AddLinksOp \cup AddClaimsOp \cup UpdateClaimOp \cup RemoveClaimOp \cup RemoveLinkOp
WriteOp == CreateOp \cup UpsertOp \cup UpdateOp
\* bootstrap and reindex_all touch no page of the caller's.
IndexOp == [kind : {"bootstrap", "reindexAll"}]
Op == WriteOp \cup EditOp \cup RemovePageOp \cup IndexOp

EditKinds == {"addLinks", "addClaims", "updateClaim", "removeClaim", "removeLink"}
WriteKinds == {"create", "upsert", "update"}
IndexKinds == {"bootstrap", "reindexAll"}

\* The links of p with those of the call that are not duplicates.
WithLinks(p, links) == [p EXCEPT !.links = p.links \cup links]

\* Claims keep their first text: a claim id that is there is skipped.
WithClaims(p, claims) ==
    [p EXCEPT !.claims =
        [k \in ClaimId |-> IF p.claims[k] = NoClaim THEN claims[k] ELSE p.claims[k]]]

WithClaim(p, k, text) == [p EXCEPT !.claims = [p.claims EXCEPT ![k] = text]]

WithoutLinks(p, links) == [p EXCEPT !.links = p.links \ links]

\* The page a call leaves, computed from the page p it read.
Edited(op, p) ==
    CASE op.kind \in WriteKinds -> op.page
      [] op.kind = "addLinks" -> WithLinks(p, op.links)
      [] op.kind = "addClaims" -> WithClaims(p, op.claims)
      [] op.kind = "updateClaim" -> WithClaim(p, op.claim, op.to)
      [] op.kind = "removeClaim" -> WithClaim(p, op.claim, NoClaim)
      [] op.kind = "removeLink" -> WithoutLinks(p, op.links)

\* The call finds nothing to change on page p: all its links or claims are
\* duplicates, the claim is not there, no link matches.
NothingToDo(op, p) ==
    \/ op.kind = "addLinks" /\ op.links \subseteq p.links
    \/ /\ op.kind = "addClaims"
       /\ \A k \in ClaimId : op.claims[k] # NoClaim => p.claims[k] # NoClaim
    \/ op.kind \in {"updateClaim", "removeClaim"} /\ p.claims[op.claim] = NoClaim
    \/ op.kind = "removeLink" /\ op.links \cap p.links = {}
=============================================================================
