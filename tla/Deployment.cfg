\* The manager on a host and in the launcher's guest, three kinds of host.
SPECIFICATION Spec
CONSTANTS
  Entries = 3
  Probed = {1, 2}
  Versions = 2
  None = None
  Hosts <- MCHosts
INVARIANTS TypeOK InstallWhole
PROPERTY LaunchServes
