SPECIFICATION Spec
CONSTANTS
    s1 = s1  s2 = s2  w1 = w1  w2 = w2  lp = lp  nobody = nobody
    Order <- TwoServices
    GroupOf <- TwoGroups
    Thread = {w1, w2, lp}
    Runs <- EachItsOwn
    Sends <- ByGroups
    Nobody = nobody
    MaxSend <- FewSends
    MaxCycle = 1
INVARIANT CountsExact
 
CHECK_DEADLOCK FALSE
