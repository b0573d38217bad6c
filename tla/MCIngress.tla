----------------------------- MODULE MCIngress -----------------------------
\* Ingress for TLC: deliveries are interchangeable, so are commits.
EXTENDS Ingress, TLC

Symmetry == Permutations(Handlers) \union Permutations(Commits)
=============================================================================
