CONSTANT Tasks <- AllTasks
SPECIFICATION Spec
INVARIANTS AllOrNothing SuccessMeansWritten TempDropped PostHooksSeeStatus InterruptReported
PROPERTIES NoLateCommit CancelReturns
