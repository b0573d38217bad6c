----------------------------- MODULE MCRuleStore -----------------------------
\* RuleStore for TLC.
EXTENDS RuleStore, TLC

Symmetry == Permutations(Ids) \union Permutations(Patterns) \union Permutations(Clients)
=============================================================================
