SPECIFICATION Spec
CONSTANTS
    Nicks = {"ada", "bob"}
    Admins = {"ada"}
    Channels = {"#tvl"}
    Direct = "paroxysm"
    General = "*"
    Words = {"bob", "b%"}
    Alike <- MCAlike
    Lowered <- MCLowered
    RECURSION_LIMIT = 5
    Messages <- MCMessages
    MaxCount = 2
    MaxEntries = 3
INVARIANTS FoundAsAnnounced DeletionKeepsOrder
PROPERTIES OnlyByThoseWhoMay
