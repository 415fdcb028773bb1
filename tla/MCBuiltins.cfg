SPECIFICATION BuiltinSpec
CONSTANTS
    Funcs <- MCFuncs
    arity <- MCArity
    RestFuncs <- MCRestFuncs
    HostFuncs = {"host"}
    Values <- MCValues
    NULL = NULL
    MaxArgs = 3
    MaxClosures = 1
INVARIANT ReadsWhatItWasGiven
INVARIANT ArithmeticExact
INVARIANT ComparisonExact
