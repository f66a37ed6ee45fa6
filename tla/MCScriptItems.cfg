CONSTANTS
    MaxPlayers = 2
    MaxMail = 2
    MaxPickups = 2
    ScriptIds <- TopId
    MaxTextDraws = 1
    Strings = {a, b}
    NoText = NoText
SPECIFICATION MCSpec
INVARIANTS TypeOK ClientsShowPickups TextDrawsAreCurrent
