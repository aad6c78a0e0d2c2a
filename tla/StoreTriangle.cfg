SPECIFICATION Spec
CONSTANTS
    p1 = p1  p2 = p2
    lib = lib  mid = mid  app = app
    h0 = h0  h1 = h1  h2 = h2  h3 = h3
    Spock = Spock  NoHash = NoHash  NoPkg = NoPkg
    Proc = {p1}
    Pkg = {lib, app}
    Hash = {h0, h1, h2}
    SelfAtFirst = {h0}
    InstallDeps <- ChainDeps
    BuildDeps <- NoDeps
    Commands <- ShellsAndRm
    MaxCrashes = 1
INVARIANTS AlwaysRegistered
CHECK_DEADLOCK FALSE
