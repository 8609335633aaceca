SPECIFICATION Spec
CONSTANTS
    Transfers <- MCTransfers
    Faults = {"none", "id", "rcode", "break", "slow"}
INVARIANTS
    CompleteOrError
    ErrorsHaveCauses
PROPERTIES
    ImplementsCopy
    TransferEnds
CHECK_DEADLOCK FALSE
