SPECIFICATION Spec
CONSTANTS
    k1 = k1
    k2 = k2
    t1 = t1
    t2 = t2
    c1 = c1
    i1 = i1
    i2 = i2
    s1 = s1
    s2 = s2
    r1 = r1
    r2 = r2
    none = none
CHECK_DEADLOCK FALSE
INVARIANTS
    TokensNeedProof
    FailuresWithinBudget
    TokenMeansRules
    ChangedRulesTakeEffect
    ScrubMasksDeclared
    EachPaysForItself
    AnswersByPublished
PROPERTIES
    CopiesOneSnapshot
    
