\* A call to one address that is given up on before anything was heard of it.
SPECIFICATION SipSpec
CONSTANTS
    HostOf <- OneAddress
    Tags = {t1}
    CallConfigs <- Configs
    EventBuffer = 9
    ByeAnswers = {"bye_ok"}
    LingerSlots = 1
    MaxProvisionals = 1
    MaxPanics = 0
INVARIANTS
    RingingIsCancelled
CHECK_DEADLOCK FALSE
