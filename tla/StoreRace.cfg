SPECIFICATION Spec
CONSTANTS
    p1 = p1  p2 = p2
    lib = lib  mid = mid  app = app
    h0 = h0  h1 = h1  h2 = h2  h3 = h3
    Spock = Spock  NoHash = NoHash  NoPkg = NoPkg
    Proc = {p1, p2}
    Pkg = {lib}
    Hash = {h0, h1, h2}
    SelfAtFirst = {h0}
    InstallDeps <- NoDeps
    BuildDeps <- NoDeps
    Commands <- ShellsAndRm
    MaxCrashes = 1
SYMMETRY Symmetry
INVARIANTS TypeOK RegisteredHasPrefix OneCopier NoOrphanPrefix
PROPERTIES LifecycleSpec
CHECK_DEADLOCK FALSE
