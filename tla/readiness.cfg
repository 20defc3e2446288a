SPECIFICATION Spec
CONSTANTS
  Agents = {"agent"}
  Caps = {"server", "skill", "plugin"}
  Servers = {"server"}
  Pulled = {"skill"}
  Referred = {"plugin"}
  Workspaces = {"repo-clone"}
  Repo = "repo"
  Absent = Absent
  Setups <- MCSetups
  Specs = {"spec", "invalid"}
  Valid = {"spec"}
INVARIANTS
  TypeOK
  CapabilitySettled
  AgentSettled
  WorkspaceIsDue
PROPERTIES
  MountsClonedOnly
CHECK_DEADLOCK FALSE
