SPECIFICATION AllFair
CONSTANT NPROC = 3
INVARIANTS HolderExact NoLostWakeup
PROPERTIES ImplementsMutex ProcProgress UartwriteReturns BeginOpReturns
