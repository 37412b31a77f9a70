SPECIFICATION Spec
SYMMETRY Symmetry
CONSTANTS
  Projects = {p1, p2}
  Refs <- MCRefs
  Requires <- MCRequires
  Manifests <- MCManifests
  Commands <- MCCommands
  Files = {tclpkg, body}
  OwnManifest = tclpkg
  None = None
  MaxIterations = 5
  MaxRuns = 2
  MaxEvents = 1
INVARIANTS
  SelectionSatisfies
  ResolverConverges
  TreesFill
PROPERTY LockIsWhole
CHECK_DEADLOCK FALSE
