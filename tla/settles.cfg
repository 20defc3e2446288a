SPECIFICATION FairSpecOfUsers
CONSTANTS
  Agents = {"one", "two"}
  Caps = {"server", "skill", "plugin"}
  Servers = {"server"}
  Pulled = {"skill"}
  Referred = {}
  Workspaces = {}
  Repo = "repo"
  Absent = Absent
  Setups <- MCUsers
  Specs = {"spec", "invalid"}
  Valid = {"spec"}
PROPERTIES
  Settles
CHECK_DEADLOCK FALSE
