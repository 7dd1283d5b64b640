SPECIFICATION Spec
CONSTANTS
    Regions = {g1}
    Lives = {14, 40, 100}
    RefreshLives = {30, 100}
    Margin = 12
    MinSleep = 2
    MaxSleep = 60
    Renew = 24
    Retry = 6
INVARIANTS OneMissIsHarmless RefreshTokenLive
PROPERTIES RegionRecovers
