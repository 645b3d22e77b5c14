INIT Init
NEXT Next
CONSTANTS
    MaxRounds = 4
    MaxPlanRows = 3
INVARIANTS  PlansRight  GraphsRight RulesRight FilesRight
CHECK_DEADLOCK FALSE
