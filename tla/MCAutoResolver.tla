--------------------------- MODULE MCAutoResolver ---------------------------
\* AutoResolver for TLC: a CVE in both spellings, a tree with a test directory and a sibling whose
\* name begins alike.
EXTENDS AutoResolver

MCUpper == [c \in Cves |-> IF c = "cve-1" THEN "CVE-1" ELSE c]

MCPaths == {<<"test", "/", "a">>, <<"test", "ing", "/", "a">>, <<"src", "/", "a">>}

MCTestGlob == {[text |-> <<"test", "/">>, glob |-> TRUE]}

MCPatterns == MCTestGlob \union {[text |-> <<"src", "/", "a">>, glob |-> FALSE]}
=============================================================================
