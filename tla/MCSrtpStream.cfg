\* Lossy, reordering network and an attacker who injects one packet.
CONSTANTS
    SeqSpace <- MCSeqSpace
    RocSpace <- MCRocSpace
    ReplayWin <- MCReplayWin
    MaxReorder <- MCMaxReorder
    MaxSend <- MCMaxSend
    MaxForge = 1
SPECIFICATION Spec
INVARIANTS TypeOK NoReplay IndexAgreement
PROPERTY ChannelRefined
