SPECIFICATION FairSpec
CONSTANT MaxStale = 2
PROPERTIES SignedInSeesMain
