CONSTANTS
    MaxKeywords = 3
    MaxRequests = 2
    Operations <- SampleOperations
    MaxElements = 3
CHECK_DEADLOCK FALSE
SPECIFICATION FairPartsSpec
INVARIANTS
    WholePipeline
    CodeIsNotLost
    ArchitectureIsPlanned
    AnswerAsPrescribed
PROPERTIES
    InDocumentOrder
    AllAnswered
