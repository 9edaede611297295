\* Two threads, one of them re_main, three messages, a pipe of 7 words:
\* the third push into a full pipe finds one free word.  The run ends when
\* the owner frees the queue, hence no deadlock check.
CONSTANTS
    Threads = {"main", "worker"}
    Main = "main"
    Msgs = {"m1", "m2", "m3"}
    PipeCap = 7
SPECIFICATION Spec
PROPERTIES FifoRefined PushCompletes
CHECK_DEADLOCK FALSE
