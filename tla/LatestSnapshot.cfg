CONSTANT MaxPublish = 5
SPECIFICATION FairSpec
INVARIANTS CompleteUnsharedRead NeverStale FinalPublicationSeen
PROPERTY EventuallySeen
