----------------------------- MODULE MCAdmission -----------------------------
(***************************************************************************)
(* Four calls for two slots.                                               *)
(***************************************************************************)
EXTENDS Admission

CONSTANTS c1, c2, c3, c4

MCCalls == {c1, c2, c3, c4}
=============================================================================
