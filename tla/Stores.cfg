CONSTANTS
    Outputs <- MCOutputs
    Extension <- MCExtension
    OutputLists <- MCOutputLists
    RawFilters <- MCRawFilters
    Texts <- MCTexts
    Events <- MCEvents
    MaxEntries = 3
    MaxBuffer = 2
    None = None
SPECIFICATION Spec
INVARIANTS TypeOK RecordedAsBuilt OnlyAllowedDevices
CHECK_DEADLOCK FALSE
