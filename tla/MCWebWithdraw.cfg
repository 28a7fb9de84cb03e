SPECIFICATION WebWithdrawSpec
CONSTANTS
    Withdrawals = {w1, w2}
    NoWithdrawal = NoWithdrawal
    MaxReloads = 1
    MaxGets = 1
INVARIANTS
    NoSecondWithdrawal
CHECK_DEADLOCK FALSE
