----------------------------- MODULE MCCatalogue -----------------------------
EXTENDS Catalogue

Symmetry == Permutations(Products)

\* A batch is for all the sites, over all the products, and nothing is edited or fails
\* while it goes on, its own saves excepted.
Batches == {t \in Importers : imp[t].kind = "batch"}
Within ==
    /\ \A t \in Batches' \ Batches : imp'[t].left = Sites /\ DOMAIN imp'[t].copy = Products
    /\ Batches' # {} => edits' = 0 /\ (importFaults' > 0 => \E t \in Batches' : imp'[t].at = "done")
=============================================================================
