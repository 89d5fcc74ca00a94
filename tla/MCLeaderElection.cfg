CONSTANTS
    MaxNode = 2
    MaxRounds = 2
    Followed <- MCFollowed
    NoRound = NoRound
    Interval = 4
    Loads = {0, 1}
    MaxStops = 1
SPECIFICATION FairSpec
INVARIANT TypeOK
PROPERTIES
    WatchIsCurrent
    LeadersFollowInTurn
    DeadLeaderReplaced
    LeaderWatched
