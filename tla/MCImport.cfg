SPECIFICATION Spec
CONSTANTS
    Files = {f}
    Names = {m}
    NULL = NULL
    MaxDepth = 3
    MaxScopes = 8
INVARIANTS ScopesRestored SpecCurrent NamedByItself NamesStayLocked
