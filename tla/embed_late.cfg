\* A document that is swapped in while its parser waits for a script.
SPECIFICATION FairSpec
CONSTANTS
    Envs <- MCPlain
    Assets = {img}
    Anchors = {link1}
    Entry = entry
    MaxPolls = 1
    MaxTimers = 1
PROPERTIES SwappedInIsRewritten
CHECK_DEADLOCK FALSE
