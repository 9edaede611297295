\* In-order network, one tampered packet: does the receiver stay in step?
CONSTANTS
    SeqSpace <- MCSeqSpace
    RocSpace <- MCRocSpace
    ReplayWin <- MCReplayWin
    MaxReorder = 0
    MaxSend <- MCMaxSend
    MaxForge = 1
SPECIFICATION Spec
INVARIANT RocNeverAhead
