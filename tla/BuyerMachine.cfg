CONSTANTS
    Contents = {old, new}
    old = old
    new = new
    None = None
    Prices = {1, 2}
    MaxRuns = 2
    Interval = 1
    Starts = 2
    Others = FALSE
    Keys = {"mcpServers", "servers"}
    ClientKey = "mcpServers"
    Servers = {"own"}
    UserWaits = TRUE
    Installs = 3
CHECK_DEADLOCK FALSE
SPECIFICATION MachineSpec
INVARIANTS
    ReportsChanges
    KeepsTheUsers
    BackedUp
