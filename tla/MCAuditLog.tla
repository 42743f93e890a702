----------------------------- MODULE MCAuditLog -----------------------------
(* AuditLog on small instances: writers are interchangeable, so they are a  *)
(* symmetry set wherever only safety is checked.                            *)
EXTENDS AuditLog, TLC

Symmetry == Permutations(Writer)
=============================================================================
