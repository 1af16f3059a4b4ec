\* A command queue that two setpoints fill.
CONSTANTS
    ValidFor = 3
    CmdLength = 3
SPECIFICATION FairSpec
INVARIANT TypeOK
INVARIANT SetpointExpires
INVARIANT QuietIsTold
PROPERTY NoFramesNoSetpoint
