SPECIFICATION ProgramsSpec
INVARIANT StrongOverridesWeak
CHECK_DEADLOCK FALSE
