--------------------------- MODULE MCListingLife ---------------------------
\* ListingLife with its crawls and its prices interchangeable.
EXTENDS ListingLife, TLC

Symmetry == Permutations(Crawls) \cup Permutations(Prices)
=============================================================================
