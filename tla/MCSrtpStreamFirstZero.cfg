\* Does a fresh stream accept a first packet whose index is 0?
CONSTANTS
    SeqSpace <- MCSeqSpace
    RocSpace <- MCRocSpace
    ReplayWin <- MCReplayWin
    MaxReorder <- MCMaxReorder
    MaxSend <- MCMaxSend
    MaxForge = 0
SPECIFICATION Spec
INVARIANT NoFalseReplay
