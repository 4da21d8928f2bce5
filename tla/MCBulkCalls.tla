------------------------------ MODULE MCBulkCalls ------------------------------
(* Model values for BulkCalls: the middle finger (2), one joint of it masked. *)
EXTENDS BulkCalls

MCMasks == {{}, {9}}

MCCalls == {
    [mode |-> "WRITE", latched |-> FALSE, units |-> <<JointUnit("TargetPosition", 2, 1)>>],
    [mode |-> "WRITE", latched |-> TRUE, units |-> SubSeq(FingerUnits("TargetPosition", 2), 1, 2)],
    [mode |-> "READ", latched |-> TRUE,
     units |-> <<JointUnit("UpperLimit", 2, 0), JointUnit("LowerLimit", 2, 0)>>] }

================================================================================
