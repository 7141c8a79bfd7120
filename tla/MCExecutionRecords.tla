-------------------------- MODULE MCExecutionRecords --------------------------
(* A Challenger's Action and another one after it; operators report that the *)
(* attempt was interrupted, or the Result the agent submitted.               *)
EXTENDS ExecutionRecords, TLC
CONSTANTS i1, i2, challenge, build
MCReportable == {<<"interrupted", None>>, <<"succeeded", i1>>}
MCRole == challenge :> "Challenger" @@ build :> "Builder"
=============================================================================
