CONSTANTS
    i1 = i1
    i2 = i2
    Installs = {i1, i2}
    Uv = FALSE
    Isolated = {i1}
    Earlier = {i2}
    Foreign = {8766}
    Wishes <- TwoUsers
    Minimal <- Setup
    MaxRestarts = 2
    MaxCommands = 2
    MaxFaults = 1
    EditPorts = {8769}
    MaxScripts = 1
SPECIFICATION Spec
CHECK_DEADLOCK FALSE
INVARIANT OneLoopPerService
