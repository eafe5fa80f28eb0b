SPECIFICATION Spec
CONSTANTS
    Streams <- MCStreams
    Arguments <- MCArguments
    SubTypes <- MCSubTypes
    Header = 2
    MaxReadErrors = 1
INVARIANT EachSoundMessageMet
INVARIANT NotWrittenIsReported
INVARIANT WrittenIsClean
PROPERTY ReadsOn
CHECK_DEADLOCK FALSE
