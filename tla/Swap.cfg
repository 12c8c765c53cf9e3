SPECIFICATION MCSpec
CONSTANTS
    Edition = {1, 2}
    s1 = s1
    s2 = s2
    discord = discord
    telegram = telegram
    Session <- MCSession
    Surface <- MCSurface
    First = first
    MaxFaults = 2
INVARIANTS OneTokenPerEdition BurialsAreTrue TraitsConserved JournalTellsOutcome
PROPERTIES SwapEnds
CHECK_DEADLOCK FALSE
