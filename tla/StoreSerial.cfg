SPECIFICATION Spec
CONSTANTS
    p1 = p1  p2 = p2
    lib = lib  mid = mid  app = app
    h0 = h0  h1 = h1  h2 = h2  h3 = h3
    Spock = Spock  NoHash = NoHash  NoPkg = NoPkg
    Proc = {p1}
    Pkg = {lib, mid, app}
    Hash = {h0, h1, h2, h3}
    SelfAtFirst = {}
    InstallDeps <- ChainWithTool
    BuildDeps <- ToolForApp
    Commands <- AllCommands
    MaxCrashes = 1
SYMMETRY HashSymmetry
INVARIANTS DependenciesRegistered NoGhostDependency OneSelf
PROPERTIES StaleSparesYoung NoRebuildOfFailed
CHECK_DEADLOCK FALSE
