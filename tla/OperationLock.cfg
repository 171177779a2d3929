SPECIFICATION FairSpec
CONSTANTS
    Locking = {desktop, scheduled, diagnostics}
    Waiting = {diagnostics}
    Inodes = {i1, i2}
    NoInode = NoInode
    NoProc = NoProc
INVARIANTS MutualExclusion RunIsReported
PROPERTY WaiterServed
