----------------------------- MODULE MCPipeline -----------------------------
\* Pipeline for TLC: the chains are interchangeable, so are the tasks.
EXTENDS Pipeline, TLC

\* Where two analyses share the worker, lists of packages make no difference to what is asked.
MCScannable == [truth : Truth, listing : {"scannable"}]

\* Where only progress is asked for, it makes none what is found, either.
MCBlocking == {[truth |-> "block", listing |-> "scannable"]}

\* A finding only a human may decide shows all that its parts do; of a clean repository there is
\* nothing to miss.
MCExtremes ==
    [truth : {"human"}, listing : {"scannable", "lock_only", "repeated"}]
    \union [truth : {"clean"}, listing : {"scannable", "repeated"}]

Symmetry == Permutations(Chains) \union Permutations(Tasks)
=============================================================================
