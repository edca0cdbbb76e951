SPECIFICATION Spec
CONSTANTS
    Proc = {"P0", "C1"}
    P0 = "P0"
    Confs <- MCConfs
    Tests <- MCTests
    AgentConf <- MCAgentConf
    Base = 20300
    MaxTests = 2
    MaxLost = 1
INVARIANTS EnvironmentIsLastSet SessionWhereDeclared
CHECK_DEADLOCK FALSE
