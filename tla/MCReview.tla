------------------------------ MODULE MCReview ------------------------------
(* Review on small instances. *)
EXTENDS Review

CONSTANTS s1, s2, c1, c2, pii
=============================================================================
