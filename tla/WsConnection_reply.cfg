\* What a text answer carries.
SPECIFICATION WsFairSpec
CONSTANTS
    MaxMsg = 2
    IoTimeout = TRUE
    MayVeto = TRUE
CHECK_DEADLOCK FALSE
INVARIANTS
    TextReplyIsCallbacks
