\* Two urls, one of them cached at a time; two requests in flight make the third fail.
SPECIFICATION Spec
CONSTANTS
    Addresses = {a1, a2}
    Urls = {u1, u2}
    Images = {u1, u2}
    InvalidUrl = invalid
    kMaxRequests = 1
    kMaxCacheEntries = 1
    MaxRequestId = 4
    MaxDecodes = 3
INVARIANTS RequestsAttached ImagesMatch
PROPERTY RequestsEnd
