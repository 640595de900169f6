SPECIFICATION Spec
CONSTANTS
    Hosts <- MCHosts
    Peers <- MCPeers
    Capacity = 3
    MaxWrite = 5
    MaxBytes = 7
INVARIANT
    ExcusedOnlyByInstalledLeaf
CHECK_DEADLOCK FALSE
