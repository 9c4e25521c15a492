SPECIFICATION Spec
CONSTANTS N = 4  MaxBlocks = 1  MaxTimeouts = 3  MaxRestarts = 0
INVARIANTS LeaderInStep CommitCertificate RoundCompletes NoSpuriousViewChange ViewChangeCompletes
CONSTRAINT BlockAndViewChange
CHECK_DEADLOCK FALSE
