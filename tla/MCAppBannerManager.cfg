\* Three pages in a tab; three prompt requests, of this tab or of others.
CONSTANTS
    MaxPages = 3
    MaxRequestID = 2
SPECIFICATION Spec
INVARIANTS PipelineConsistent BannerWarranted
PROPERTY StatusOnce
CHECK_DEADLOCK FALSE
