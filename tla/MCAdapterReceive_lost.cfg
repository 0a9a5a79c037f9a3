SPECIFICATION LiveSpec
CONSTANTS
    Control = {3}
    DropInHandshake = TRUE
    MaxMessages = 4
    MaxDrops = 1
PROPERTY DataProcessed
CHECK_DEADLOCK FALSE
