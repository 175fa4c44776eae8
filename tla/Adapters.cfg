SPECIFICATION Spec
CONSTANTS
    Calls = {c1, c2}
    Lists <- MCLists
SYMMETRY CallSymmetry
INVARIANTS
    AnswersAsked
    DollarsAreDollars
    RequestsPaidFor
    ThrottlingSurfaces
    HealthTellsOutcome
\* All calls have come back.
CHECK_DEADLOCK FALSE
