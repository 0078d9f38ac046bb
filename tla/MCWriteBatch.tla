---------------------------- MODULE MCWriteBatch -----------------------------
(***************************************************************************)
(* Instances of WriteBatch: batches in which entries meet on a page, refer *)
(* to a page of the same batch, or fail in each of the three phases.       *)
(***************************************************************************)
EXTENDS WriteBatch

CONSTANTS slug, section, label, k1, old, new

NoClaims == [k \in ClaimId |-> NoClaim]
Claim(t) == [k \in ClaimId |-> t]
Bare == [text |-> "body", links |-> {}, claims |-> NoClaims]
Claimed == [text |-> "body", links |-> {}, claims |-> Claim(old)]

CreateSlug == [kind |-> "create", id |-> slug, page |-> Bare]
UpsertClaimed == [kind |-> "upsert", id |-> section, page |-> Claimed]
UpdateBare == [kind |-> "update", id |-> section, page |-> Bare]
UpdateSlug == [kind |-> "update", id |-> slug, page |-> Bare]
AddLink(i) == [kind |-> "addLinks", id |-> i, links |-> {<<section, label>>}]
AddClaim == [kind |-> "addClaims", id |-> section, claims |-> Claim(new)]
UpdateClaim == [kind |-> "updateClaim", id |-> section, claim |-> k1, to |-> new]

AllBatches ==
    {<<UpsertClaimed, CreateSlug>>,
     <<CreateSlug, AddLink(slug), AddLink(section)>>,
     <<UpdateBare, UpdateSlug>>,
     <<UpsertClaimed, [kind |-> "invalid"]>>,
     <<AddLink(section), UpdateClaim, AddLink(section)>>,
     <<AddClaim, UpdateClaim>>,
     <<UpdateBare, UpdateClaim>>}

\* A page with a claim, and a batch that replaces the page and then the claim.
RewriteBatches == {<<UpsertClaimed>>, <<UpdateBare, UpdateClaim>>}
=============================================================================
