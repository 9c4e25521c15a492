SPECIFICATION StorageSpec
CONSTANTS Block <- Blocks  Genesis = "g"  Parent <- Parents  StateRoot <- Roots  None = None
INVARIANTS Recoverable ReportedKept
