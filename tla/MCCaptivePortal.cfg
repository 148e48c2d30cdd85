CONSTANTS
    Tabs = {t1, t2, t3}
    Handles = {h1}
    None = None
    MaxReloadTasks = 1
    Schemes = {TRUE}
    CertErrors = FALSE
SPECIFICATION Spec
SYMMETRY Symmetry
INVARIANTS
    TabsFollowService
    OneLoginTab
