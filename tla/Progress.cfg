SPECIFICATION FairSpec
CHECK_DEADLOCK FALSE
PROPERTY NothingStaysOwed
PROPERTY AskingHelps
