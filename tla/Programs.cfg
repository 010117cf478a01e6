SPECIFICATION ProgramsSpec
INVARIANTS FuturesKept RecordsTrue InterpretersExact HeapOwned LinkExact LookupsExact KernelsExact TraceOk
PROPERTIES ThrowsLeaveStacks ProgramsEnd
CHECK_DEADLOCK FALSE
