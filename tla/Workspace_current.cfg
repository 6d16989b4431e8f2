SPECIFICATION WorkspaceSpec
CONSTANTS
    app = app
    lib = lib
    reg = reg
    Pkgs <- Pkgs3
    Members <- Members2
    Deps <- DepsOf
    Versions <- Two
    Postures <- AllPostures
INVARIANTS
    PassIsCurrent
PROPERTIES
    DependenciesFirst
    BuildEnds
