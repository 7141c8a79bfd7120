--------------------------- MODULE MCRuleMigration ---------------------------
(* A project with a legacy config and a decision root, and two actions. *)
EXTENDS RuleMigration, TLC
CONSTANTS legacy, oldDecisions, decisions, lockfile, newDecision, stored, release, b1, b2, p1, p2

MCAllowed == (release :> {"proceed"}) @@
             (decisions :> {"proceed", "retire", "preserve-history"})
MCLegacy == (legacy :> b1) @@ (oldDecisions :> b2)
MCCovers == {<<lockfile, release>>, <<newDecision, decisions>>}
MCHistory == {}
MCRank == (stored :> 0) @@ (Config :> 1) @@ (lockfile :> 2) @@ (newDecision :> 3) @@
          (oldDecisions :> 0) @@ (legacy :> 1)
MCInside == {<<newDecision, oldDecisions>>}
=============================================================================
