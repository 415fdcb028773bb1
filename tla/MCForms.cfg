SPECIFICATION Spec
CONSTANTS
    VALIDATOR_STACK_SIZE = 2
    LineLength = 2
    MaxTyped = 6
INVARIANTS VerdictExact CutsBetweenForms ValidIsEvaluated LosesLastOnly
