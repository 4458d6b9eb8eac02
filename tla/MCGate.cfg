\* Every loadable policy over two tools, one argument and two principals.
SPECIFICATION Spec
CONSTANTS
  agent = agent
  scheduler = scheduler
  k1 = k1
  k2 = k2
  a1 = a1
  v1 = v1
  Absent = Absent
  Names = {agent, scheduler}
  Agent = agent
  Keys = {k1, k2}
  Params = {a1}
  Values = {v1}
INVARIANT TypeOK
INVARIANT AgentAlwaysAsks
INVARIANT RulesGrant
INVARIANT ReachableIsVisible
INVARIANT ReadersAgree
