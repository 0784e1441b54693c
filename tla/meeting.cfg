SPECIFICATION FairSpec
CONSTANTS
    t1 = t1
    t2 = t2
    ann = ann
    None = None
    Tabs = {t1, t2}
    Users = {ann}
    UserOf <- SameUser
    MaxRuns = 4
    MaxChanges = 3
    MaxEvents = 4
    MaxUpsets = 1
CHECK_DEADLOCK FALSE
INVARIANTS
    PresentIdentity
    CreatorsSceneOnly
    OneDrawer
PROPERTY DrawnGetsOut
