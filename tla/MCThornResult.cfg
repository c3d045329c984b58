SPECIFICATION ThornSpec
CONSTANTS
    ThornNone = ThornNone
    ThornFiles <- MCThornFiles
    ThornCutFiles <- MCThornCutFiles
INVARIANT TokenCallsReturnResult
CHECK_DEADLOCK FALSE
