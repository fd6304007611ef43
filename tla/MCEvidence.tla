----------------------------- MODULE MCEvidence -----------------------------
(* An instance of the evidence for TLC: a firmware that knows two names.    *)
EXTENDS Evidence

MCOrder == <<"a", "b">>
=============================================================================
