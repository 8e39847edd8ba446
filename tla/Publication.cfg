\* Two workers, so that the push and the withdrawal may overlap.
SPECIFICATION FairSpec
CONSTANTS
    MaxAttempts = 2
    MaxEvents = 2
    None = None
PROPERTIES WithdrawalConfirmed RollupComplete PublishedIsPublic PublicationAnswered RetractionAnswered
CHECK_DEADLOCK FALSE
