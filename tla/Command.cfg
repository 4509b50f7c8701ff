SPECIFICATION CommandSpec
CONSTANTS
  Arguments <- MCArguments
  MaxArgs = 2
  Literals = {"10.0.0.1"}
  Interfaces <- MCInterfaces
  External = {"eth0ext1", "eth0ext2", "wlan0ext"}
  SizeFlags <- MCSizeFlags
INVARIANTS DefaultRunsAllOnce RunsWhatWasNamed BindIsBest
