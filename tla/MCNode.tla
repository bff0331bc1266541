------------------------------- MODULE MCNode -------------------------------
(* Node on a few commitments, which are ordered, and a kernel, a model value. *)
EXTENDS Node

CONSTANT k1

MCKernel == {k1}
=============================================================================
