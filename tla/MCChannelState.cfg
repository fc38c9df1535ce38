CONSTANTS
    p1 = p1
    p2 = p2
    Peers = {p1, p2}
    Durations <- MCDurations
    Sifs = 2
    Period = 4
    Active = {"ownTx", "ownRx", "phyCS", "nav"}
SPECIFICATION ChannelSpec
INVARIANTS
    NavTimerMatches
    OwnNavRuns
    ObserversUpToDate
    BusyTimeExact
    ReservationKept
