SPECIFICATION FairSpec
CONSTANTS
    Char = {3, 5, 7, 8}
    Texts <- MCTexts
    BlockSize = 2
    Chunk = 10
    DefaultVocab = 9
    MaxCrashes = 2
    MaxRuns = 2
INVARIANTS
    DatasetTypeOK
    FilesAgree
    RoundTrip
    TokensInVocabulary
    

    
CHECK_DEADLOCK FALSE
