SPECIFICATION Spec
CONSTANTS
  LocalRepos <- MCLocal
  RemoteRepos <- MCRemote
  Requests <- MCRequests
  MaxCommands = 3
  Seeds = {s1, s2}
SYMMETRY MCSymmetry
INVARIANTS
  TypeOK
  SignatureMatchesRelease
  IsoIsExact
  RequestedAreInstallable
