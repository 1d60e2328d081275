SPECIFICATION Spec
CONSTANTS
    Planners <- MCPlanners
    Suites <- MCSuites
    Nodes <- MCNodes
    Declarations <- MCDeclarations
    Invalid = 1
    MaxFaults = 2
    None = None
INVARIANTS ResourcesMade CombinationsComplete VerdictSound SuccessIsClean FailuresJustified
    BlameExplained
