\* The comment of setpoint_handler.c:143, against a frame that comes as the timer
\* expires.
CONSTANTS
    ValidFor = 3
    CmdLength = 5
SPECIFICATION PromptSpec
PROPERTY RemovedWhenExpired
