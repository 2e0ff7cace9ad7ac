CONSTANT None = None
SPECIFICATION FairSpec
PROPERTIES
    FirstSignalEnds
