CONSTANT DrainPolls = 0
SPECIFICATION FairSpec
PROPERTY DeadSessionEnds
