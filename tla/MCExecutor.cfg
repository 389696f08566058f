\* A replay of every workflow, with the retries of the code: up to three POSTs of a run at work.
CONSTANTS
    r1 = r1
    r2 = r2
    Run = {r1, r2}
    Calls <- MCCalls
    MaxRetries = 2
SPECIFICATION Spec
INVARIANTS OutcomeTrue DuplicatesExplained ReplacedByRace
PROPERTY Ends
CHECK_DEADLOCK FALSE
