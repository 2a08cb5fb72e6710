SPECIFICATION FairSpec
CONSTANTS
    Envs <- MCEnvs
    Assets = {img}
    Anchors = {link1, link2}
    Entry = entry
    MaxPolls = 1
    MaxTimers = 2
INVARIANTS TypeOK NeverBlank LoadingMeansLoading
PROPERTIES BootAdvances BootSettles StartedIsShown
CHECK_DEADLOCK FALSE
