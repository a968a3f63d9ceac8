----------------------------- MODULE MCCascade -----------------------------
(***************************************************************************)
(* A cascade of two flights under requests that follow one another.        *)
(***************************************************************************)
EXTENDS Cascade

CONSTANTS r1

OneRequest == {r1}
=============================================================================
