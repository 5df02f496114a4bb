SPECIFICATION RleSpec
CONSTANTS
    Width = 5
    Height = 3
    Colours <- TwoColours
    EncodedLengths = {2, 5}
    AbsoluteRuns <- RunsReadRight
    Skips <- DeltasReadRight
    MaxCommands = 4
    MaxCut = 3
INVARIANTS
    WholeFilesAreRead
    DecodesPicture
    BadFilesDrawNothingElse
    OutsideOnlyUpsideDown
CHECK_DEADLOCK FALSE
