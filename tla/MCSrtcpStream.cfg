\* AES-CM + HMAC suite, encrypted SRTCP, lossy reordering duplicating
\* network and an attacker injecting two packets.
CONSTANTS
    Mode = "CTR"
    Unencrypted = FALSE
    ReplayWin <- MCReplayWin
    IndexSpace <- MCIndexSpace
    MaxSend <- MCMaxSend
    MaxForge = 2
SPECIFICATION Spec
INVARIANTS TypeOK NoReplay
PROPERTY InOrderAccepted
