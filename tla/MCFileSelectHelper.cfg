SPECIFICATION Spec
CONSTANTS
    Platforms = {"desktop", "mac", "chromeos"}
    SafeBrowsing = {TRUE, FALSE}
INVARIANTS
    HelperKeptAlive
    ChooserAnswered
PROPERTY HelperGoes
CHECK_DEADLOCK FALSE
