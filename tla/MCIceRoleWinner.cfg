\* Distinct tiebreakers: which agent ends up controlling.
CONSTANTS
    Agents <- MCAgents
    Tiebrk <- MCTiebrkDistinct
    MaxChecks = 2
SPECIFICATION Spec
PROPERTY LargerTiebreakerControls
CHECK_DEADLOCK FALSE
