\* Distinct tiebreakers, any initial roles, two checks per agent.
CONSTANTS
    Agents <- MCAgents
    Tiebrk <- MCTiebrkDistinct
    MaxChecks = 2
SPECIFICATION Spec
INVARIANT TypeOK
PROPERTIES RolesSettle ChecksComplete
CHECK_DEADLOCK FALSE
