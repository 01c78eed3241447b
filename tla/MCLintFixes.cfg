CONSTANTS
    Vars <- MCVars
    Calls <- MCCalls
    CallVar <- MCCallVar
    UnusedVarList <- MCUnused
    MaxDecls = 3
    Scripts = {"format"}
SPECIFICATION Spec
INVARIANT LintKeepsMeaning
