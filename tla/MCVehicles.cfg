CONSTANTS
    Players = {p, q}
    Nobody = nobody
    MaxVehicles = 2
    Models = {car, train}
    Trains = {train}
    NumScripts = 2
    Delay = 1
SPECIFICATION FairSpec
INVARIANTS TypeOK LivesAreApart
PROPERTY WrecksComeBack
