\* What the webhook lets in cannot always be rendered.
SPECIFICATION Spec
CONSTANTS
    Storages = {s1, s2}
    NoStorage = NoStorage
    Versions = {v1, v2}
    Default = v1
    Nil = Nil
    MaxEdits = 1
    MaxOutages = 0
    MaxRestores = 0
    WebhookMayBeDown = FALSE
INVARIANT AdmittedIsRenderable
