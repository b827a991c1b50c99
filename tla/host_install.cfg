CONSTANTS
    None = None
    Part = Part
    Prefix = {usr, opt}
    UsrLocal = usr
    Uid = {u1, u2}
    Release = {1, 2}
    MaxCmds = 3
    MaxFaults = 2
SPECIFICATION Spec
SYMMETRY Symmetry
INVARIANT TypeOK
PROPERTIES SuccessIsTrue RetrySucceeds UnitHasBinary KeptUnlessPurged 
