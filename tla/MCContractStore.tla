--------------------------- MODULE MCContractStore ---------------------------
(***************************************************************************)
(* Two sessions on a Contract of two clauses.                              *)
(***************************************************************************)
EXTENDS ContractStore, TLC

CONSTANTS a, b, m1, m2

Original == [meta |-> m1, text |-> a]
==============================================================================
