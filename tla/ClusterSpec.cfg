\* Edits of the Instance, past a webhook that may be down, outages around it, a Restore.
SPECIFICATION FairSpec
CONSTANTS
    Storages = {s1, s2}
    NoStorage = NoStorage
    Versions = {v1, v2}
    Default = v1
    Nil = Nil
    MaxEdits = 2
    MaxOutages = 1
    MaxRestores = 1
    WebhookMayBeDown = TRUE
INVARIANTS TypeOK AppliedCanRun
PROPERTIES ClusterFollows
