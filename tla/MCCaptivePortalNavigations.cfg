CONSTANTS
    Tabs = {t1}
    Handles = {h1, h2}
    None = None
    MaxReloadTasks = 2
    Schemes = {TRUE, FALSE}
    CertErrors = TRUE
SPECIFICATION Spec
INVARIANTS
    NeedsReloadIsDue
    LoadsTracked
PROPERTIES
    ReloadsWarranted
    TabsSettle
