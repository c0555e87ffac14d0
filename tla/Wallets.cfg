SPECIFICATION Spec
CONSTANTS
    agent1 = agent1
    agent2 = agent2
    proc1 = proc1
    proc2 = proc2
    ethereum = ethereum
    base = base
    Agents = {agent1, agent2}
    Instances = {proc1, proc2}
    Callers = {1, 2}
    Chains = {ethereum, base}
    Ethereum = ethereum
    FactoryOf <- OwnFactories
    MaxKeys = 2
    MaxFaults = 1
    MaxRestarts = 1
INVARIANT OneWalletPerAgent
PROPERTY ImplementsWriteOnce
\* The calls, the keys and the restarts of a behaviour are bounded.
CHECK_DEADLOCK FALSE
