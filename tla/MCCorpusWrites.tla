--------------------------- MODULE MCCorpusWrites ----------------------------
(***************************************************************************)
(* Instances of CorpusWrites: a mangled id, a section id that links and is *)
(* linked to, and one call of every tool that bears on them.  Two pages    *)
(* and two clients are enough for every pair of calls to meet on a page.   *)
(***************************************************************************)
EXTENDS CorpusWrites

CONSTANTS slug, section, label, k1, old, new

NoClaims == [k \in ClaimId |-> NoClaim]
Bare == [text |-> "body", links |-> {}, claims |-> NoClaims]
Linked == [text |-> "body", links |-> {<<section, label>>}, claims |-> NoClaims]
Claimed == [text |-> "revised", links |-> {}, claims |-> [k \in ClaimId |-> old]]

\* Every tool once.
AllCalls ==
    {[kind |-> "create", id |-> slug, page |-> Linked],
     [kind |-> "upsert", id |-> section, page |-> Bare],
     [kind |-> "update", id |-> slug, page |-> Claimed],
     [kind |-> "addLinks", id |-> slug, links |-> {<<section, label>>}],
     [kind |-> "addClaims", id |-> slug, claims |-> [k \in ClaimId |-> new]],
     [kind |-> "updateClaim", id |-> slug, claim |-> k1, to |-> new],
     [kind |-> "removeClaim", id |-> slug, claim |-> k1],
     [kind |-> "removeLink", id |-> slug, links |-> {<<section, label>>}],
     [kind |-> "removePage", id |-> slug],
     [kind |-> "removePage", id |-> section],
     [kind |-> "bootstrap"],
     [kind |-> "reindexAll"]}

\* A page that is linked to, removed, and written again.
RemovalCalls ==
    {[kind |-> "create", id |-> slug, page |-> Linked],
     [kind |-> "upsert", id |-> section, page |-> Bare],
     [kind |-> "removePage", id |-> section]}
=============================================================================
