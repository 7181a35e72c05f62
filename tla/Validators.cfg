CONSTANTS
    Vals = {v1, v2}
    Nil = Nil
    MaxTokens = 1
SPECIFICATION FairSpec
INVARIANTS ListedMatchChain MaturedAreClosed
PROPERTIES StakedNeverWiped GivingUpIsSafe
