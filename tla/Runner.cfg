SPECIFICATION Spec
CONSTANTS
  Modules = {"c2", "icmp", "ssh", "telegram"}
  NumOfHosts <- MCNumOfHosts
  FastModules = {"ssh"}
  Holders = {"icmp"}
  HostsMayFail = {"c2", "ssh"}
  Unbounded = {"telegram"}
  Quiet = {"icmp", "ssh", "telegram"}
  MaxSims = 3
  MaxHosts = 3
  Sizes = {0, 2}
INVARIANTS
  HandlesAreCurrent
  SuccessesAreHosts
PROPERTIES
  Paced
  Finishes
