INIT AllInit
NEXT AllNext
CHECK_DEADLOCK FALSE
INVARIANTS CopiesExact TablesExact HeapExact MatchingLines StringsExact PathsExact PrintfExact ShellExact
