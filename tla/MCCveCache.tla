----------------------------- MODULE MCCveCache -----------------------------
\* CveCache for TLC: advisories are interchangeable, so are lookups.
EXTENDS CveCache, TLC

Symmetry == Permutations(Cves) \union Permutations(Lookups)
=============================================================================
