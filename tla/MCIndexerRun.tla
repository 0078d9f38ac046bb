---------------------------- MODULE MCIndexerRun -----------------------------
(***************************************************************************)
(* Instances of IndexerRun: pages p1 and p2 with two contents, of which    *)
(* `concept` is a flagged concept page, and one index page.  Two edits are *)
(* a page and its change (or removal, or corruption); one fault (a pass    *)
(* cut short, a cancelled scan, a drop that fails) is enough to leave any  *)
(* half-done state behind.                                                 *)
(***************************************************************************)
EXTENDS IndexerRun

CONSTANTS p1, p2, plain, concept, glossary

ListedOn == [i \in IndexPage |-> {concept}]
=============================================================================
