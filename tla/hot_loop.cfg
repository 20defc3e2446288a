SPECIFICATION FairSpec
CONSTANTS
  Agents = {"agent"}
  Caps = {"server", "skill", "plugin"}
  Servers = {"server"}
  Pulled = {"skill"}
  Referred = {"plugin"}
  Workspaces = {"repo-clone"}
  Repo = "repo"
  Absent = Absent
  Setups <- MCOneClone
  Specs = {"spec", "invalid"}
  Valid = {"spec"}
PROPERTIES
  DiscoversOnTimer
CHECK_DEADLOCK FALSE
