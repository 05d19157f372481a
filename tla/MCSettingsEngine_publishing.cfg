\* Two managers edit, publish and roll back while builds change.
CONSTANTS
    fade = fade
    Keys = {fade}
    Values = {1, 2}
    Registries <- Builds
    Editors = {m1, m2}
    None = None
    MaxVersions = 2
    MaxDrafts = 2
    MaxRestarts = 1
SYMMETRY AnyManager
SPECIFICATION SettingsSpec
CHECK_DEADLOCK FALSE
INVARIANTS Inv EffectiveIsAllowed
