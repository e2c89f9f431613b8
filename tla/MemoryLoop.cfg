CONSTANTS
    a = a
    b = b
    f1 = f1
    f2 = f2
    g1 = g1
    NotANumber = NotANumber
    Machines = {a, b}
    Facts = {f1, f2, g1}
    Group <- MCGroup
    Legacy = {f2}
    MatchMachine <- MCMatchMachine
    Answers <- MCAnswers
    NaN = NotANumber
    MaxInterventions = 1
    MaxFacts = 1
    MaxRetries <- MCRetries
    MaxRepeats = 0
SPECIFICATION Spec
INVARIANT TypeOK
INVARIANT HistoryIsTwoTiers
INVARIANT HistoryStaysTrue
INVARIANT AlertsObeyTiers
INVARIANT LoweredIsFlagged
INVARIANT NoTopTierYet
INVARIANT RememberedWasRaised
INVARIANT OwnAlertMeansRetry
CHECK_DEADLOCK FALSE
