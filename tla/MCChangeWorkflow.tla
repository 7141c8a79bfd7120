--------------------------- MODULE MCChangeWorkflow ---------------------------
(* One signal found in one of the artifacts, and the Rules it activates. *)
EXTENDS ChangeWorkflow, TLC
CONSTANTS handler, rule, operation, writes, analysed, tested, challenged, question

Req(when, phase_, role, backed, needs, reads) ==
    [when |-> when, only |-> None, phase |-> phase_, role |-> role,
     backed |-> backed, needs |-> needs, reads |-> reads]

MCRule ==
    (analysed :> Req(writes, "before-build", "Analyst", FALSE, {}, {"change", "affected", "contract"}))
    @@ (tested :> Req(writes, "before-merge", "Builder", TRUE, {}, {"change", "affected", "contract"}))
    @@ (challenged :> Req(None, "before-merge", "Challenger", FALSE, {tested}, {"change", "code"}))
MCAppliesTo == [x \in {handler, rule} |-> {operation}]
MCBindsTo == writes :> operation
MCSeenIn == writes :> {handler}
MCMode == rule :> "direct"
=============================================================================
