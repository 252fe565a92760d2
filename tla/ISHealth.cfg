SPECIFICATION ISFairSpec
CONSTANTS
    Instances = {i1}
    Urls = {u1, u2}
    Secrets = {k1}
    Passwords = {p1}
    None = None
    Times = {t1, t2}
    ISBudget <- HealthBudget
INVARIANTS
    ISTypeOK
    ObservedIsTrue
    NeverForgotten
    StaleStatusIsPursued
PROPERTIES
    TransitionTimeHonest
    HealthFollows
CHECK_DEADLOCK FALSE
