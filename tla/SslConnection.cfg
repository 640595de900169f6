SPECIFICATION Spec
CONSTANTS
    Hosts <- MCHosts
    Peers <- MCPeers
    Capacity = 3
    MaxWrite = 5
    MaxBytes = 7
INVARIANTS
    TypeOK
    PeerIsTrusted
    VerdictIsTold
    OutputInOrder
    NamesMatchAsLabels
CHECK_DEADLOCK FALSE
