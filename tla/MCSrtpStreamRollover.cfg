\* Are packets reordered across a roll-over accepted?
CONSTANTS
    SeqSpace <- MCSeqSpace
    RocSpace <- MCRocSpace
    ReplayWin <- MCReplayWin
    MaxReorder <- MCMaxReorder
    MaxSend <- MCMaxSend
    MaxForge = 0
SPECIFICATION Spec
PROPERTY ReorderTolerance
