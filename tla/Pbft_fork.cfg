SPECIFICATION Spec
CONSTANTS N = 4  MaxBlocks = 2  MaxTimeouts = 3  MaxRestarts = 0
INVARIANT Agreement
CONSTRAINT ForkSchedule
CHECK_DEADLOCK FALSE
