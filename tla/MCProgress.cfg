SPECIFICATION FairSpec
PROPERTIES TreeSettles CallsReturn FollowersCatchUp
CHECK_DEADLOCK FALSE
