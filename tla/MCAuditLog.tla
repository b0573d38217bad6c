----------------------------- MODULE MCAuditLog -----------------------------
\* AuditLog for TLC.  Seq(Data) is not enumerated: TypeOK only tests membership.
EXTENDS AuditLog, TLC

Symmetry == Permutations(Writers) \union Permutations(Data)
=============================================================================
