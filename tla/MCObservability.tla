--------------------------- MODULE MCObservability ---------------------------
(* Model-checking instance of Observability. *)
EXTENDS Observability

CONSTANTS s1, s2, s3, h1
=============================================================================
