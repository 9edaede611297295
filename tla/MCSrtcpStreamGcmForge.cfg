\* AES-GCM suite: is an injected packet ever accepted?
CONSTANTS
    Mode = "GCM"
    Unencrypted = FALSE
    ReplayWin <- MCReplayWin
    IndexSpace <- MCIndexSpace
    MaxSend <- MCMaxSend
    MaxForge = 1
SPECIFICATION Spec
INVARIANT OnlyAuthentic
