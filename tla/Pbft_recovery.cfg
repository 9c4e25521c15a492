SPECIFICATION Spec
CONSTANTS N = 2  MaxBlocks = 2  MaxTimeouts = 1  MaxRestarts = 1
INVARIANTS TypeOK AgreementUndisturbed ChainLinked OneQuestion RelayedOnce 
PROPERTY ImplementsLog
CONSTRAINT OneFault
CHECK_DEADLOCK FALSE
