---------------------------- MODULE MCSourceCache ----------------------------
(***************************************************************************)
(* Instances of SourceCache for TLC.                                       *)
(***************************************************************************)
EXTENDS SourceCache, TLC

Same == [result |-> "r1", outcome |-> "r1"]
Other == [result |-> "r1", outcome |-> "r2"]
Contents == {Same, Other}
\* One version of the observation file declares the source, the other not.
DeclaresBySame == [c \in Contents |-> IF c = Same THEN Source ELSE {}]
Committed == [f \in File |-> Same]
Symmetry == Permutations(Process)
=============================================================================
