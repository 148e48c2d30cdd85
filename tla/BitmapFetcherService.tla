--------------------------- MODULE BitmapFetcherService ---------------------------
(***************************************************************************)
(* BitmapFetcherService (bitmap_fetcher_service.cc) with its BitmapFetcher *)
(* objects (bitmap_fetcher.cc) on the ImageDecoder: requests which share   *)
(* one fetcher for each url, an image cache, and fetchers which are        *)
(* ImageRequests of the decoder.                                           *)
(*                                                                         *)
(* Everything runs on the UI thread; fetches and decodes end at any time.  *)
(* An image is known by the url it was fetched from.  Observers, which are *)
(* not in this source tree, do not call the service from OnImageChanged.   *)
(* The service goes with its profile and the next profile's takes over, in *)
(* the same memory; other clients of the decoder share the memory as well. *)
(***************************************************************************)
EXTENDS ImageDecoder, SequencesExt, FiniteSets

CONSTANTS
    Urls,              \* valid urls
    InvalidUrl,
    kMaxRequests, kMaxCacheEntries,
    MaxRequestId       \* bound: requests made of one service

NoBitmap == "no bitmap"
Unserved == {"waiting", "cancelled", "nothing"}  \* what became of an observer not called

ASSUME FetcherAssumption ==
    /\ kMaxRequests \in Nat /\ kMaxCacheEntries \in Nat \ {0} /\ MaxRequestId \in Nat \ {0}
    /\ Images = Urls /\ InvalidUrl \notin Urls
    /\ Urls \cap (Unserved \cup {NoBitmap}) = {}

VARIABLES
    current_request_id_,
    requests_,          \* of [id, fetcher]
    active_fetchers_,   \* address -> [url, stage]
    cache_,             \* of [url, bitmap], most recently used first
    observers,          \* request id -> [url, told]: what became of its observer
    others              \* addresses of other clients' ImageRequests

serviceVars == <<current_request_id_, requests_, active_fetchers_, cache_, observers>>
vars == <<serviceVars, others, decoderVars>>

RequestIds == 2..MaxRequestId

TypeOK ==
    /\ DecoderTypeOK
    /\ current_request_id_ \in 1..MaxRequestId
    /\ requests_ \subseteq [id : RequestIds, fetcher : Addresses]
    /\ DOMAIN active_fetchers_ \subseteq Addresses
    /\ \A f \in DOMAIN active_fetchers_ :
           active_fetchers_[f] \in [url : Urls, stage : {"fetching", "decoding"}]
    /\ cache_ \in Seq([url : Urls, bitmap : Urls])
    /\ DOMAIN observers = 2..current_request_id_
    /\ \A id \in DOMAIN observers :
           observers[id] \in [url : Urls \cup {InvalidUrl},
                              told : Urls \cup Unserved]
    /\ others \subseteq Addresses

ServiceInit ==
    /\ current_request_id_ = 1
    /\ requests_ = {}
    /\ active_fetchers_ = <<>>
    /\ cache_ = <<>>
    /\ observers = <<>>

Init == ServiceInit /\ others = {} /\ DecoderInit

-----------------------------------------------------------------------------
(* Fetchers *)

Fetchers == DOMAIN active_fetchers_
FetchersFor(url) == {f \in Fetchers : active_fetchers_[f].url = url}
Fetching == {f \in Fetchers : active_fetchers_[f].stage = "fetching"}

Free == Addresses \ (Fetchers \cup others)

\* The bound on decodes leaves one for each fetch under way.
MayDecode == image_request_id_counter_ + Cardinality(Fetching) < MaxDecodes

CreateFetcher(url, f) ==
    /\ f \in Free /\ MayDecode
    /\ active_fetchers_' = With(active_fetchers_, f, [url |-> url, stage |-> "fetching"])

\* Faulty variant: every request has a fetcher of its own.
EnsureFetcherForUrl_Always(url, f) == CreateFetcher(url, f)

EnsureFetcherForUrl(url, f) ==
    IF FetchersFor(url) # {} THEN f \in FetchersFor(url) /\ UNCHANGED active_fetchers_
    ELSE CreateFetcher(url, f)

RemoveFetcher(f) ==
    /\ active_fetchers_' = Without(active_fetchers_, {f})
    /\ CancelImpl(f)

-----------------------------------------------------------------------------
(* Requests *)

Cached(url) == {i \in DOMAIN cache_ : cache_[i].url = url}
Entry(url) == CHOOSE i \in Cached(url) : TRUE

\* MRUCache::Get moves the entry to the front.
Touch(url) == cache_' = <<cache_[Entry(url)]>> \o RemoveAt(cache_, Entry(url))

\* MRUCache::Put replaces an entry of the same url and evicts the oldest one.
Put(url, bitmap) ==
    LET rest == IF Cached(url) = {} THEN cache_ ELSE RemoveAt(cache_, Entry(url))
        entries == <<[url |-> url, bitmap |-> bitmap]>> \o rest
    IN  cache_' = IF Len(entries) > kMaxCacheEntries
                  THEN SubSeq(entries, 1, kMaxCacheEntries) ELSE entries

\* What the new observer is told before RequestImage returns.
Observe(url, told) ==
    /\ current_request_id_' = current_request_id_ + 1
    /\ observers' = With(observers, current_request_id_', [url |-> url, told |-> told])

\* Invalid urls, and requests beyond the limit, lose their observer uncalled.
RejectRequest(url) ==
    /\ current_request_id_ < MaxRequestId
    /\ \/ url = InvalidUrl
       \/ url \in Urls /\ Cached(url) = {} /\ Cardinality(requests_) > kMaxRequests
    /\ Observe(url, "nothing")
    /\ UNCHANGED <<requests_, active_fetchers_, cache_, others, decoderVars>>

RequestCachedImage(url) ==
    /\ current_request_id_ < MaxRequestId
    /\ Cached(url) # {}
    /\ Observe(url, cache_[Entry(url)].bitmap)
    /\ Touch(url)
    /\ UNCHANGED <<requests_, active_fetchers_, others, decoderVars>>

RequestImage(url, f) ==
    /\ current_request_id_ < MaxRequestId
    /\ Cached(url) = {} /\ Cardinality(requests_) <= kMaxRequests
    /\ EnsureFetcherForUrl(url, f)
    /\ Observe(url, "waiting")
    /\ requests_' = requests_ \cup {[id |-> current_request_id_', fetcher |-> f]}
    /\ UNCHANGED <<cache_, others, decoderVars>>

\* Prefetch does not look into the cache: a cached image is fetched again.
Prefetch(url, f) ==
    /\ EnsureFetcherForUrl(url, f)
    /\ UNCHANGED <<current_request_id_, requests_, cache_, observers, others, decoderVars>>

\* The fetcher is left running to fill the cache.
CancelRequest(id) ==
    /\ \E request \in requests_ :
           /\ request.id = id
           /\ requests_' = requests_ \ {request}
    /\ observers' = [observers EXCEPT ![id].told = "cancelled"]
    /\ UNCHANGED <<current_request_id_, active_fetchers_, cache_, others, decoderVars>>

-----------------------------------------------------------------------------
(* Results *)

\* Faulty variant: the search ends at the first attached request.
Notify_First(f, bitmap) ==
    LET attached == {r \in requests_ : r.fetcher = f /\ \A other \in requests_ :
                                           other.fetcher = f => r.id <= other.id}
    IN  /\ requests_' = requests_ \ attached
        /\ observers' = [id \in DOMAIN observers |->
               IF \E r \in attached : r.id = id
               THEN [observers[id] EXCEPT !.told = IF bitmap = NoBitmap THEN "nothing" ELSE bitmap]
               ELSE observers[id]]

\* Every attached request goes; its observer is called if there is an image.
Notify(f, bitmap) ==
    LET attached == {r \in requests_ : r.fetcher = f}
    IN  /\ requests_' = requests_ \ attached
        /\ observers' = [id \in DOMAIN observers |->
               IF \E r \in attached : r.id = id
               THEN [observers[id] EXCEPT !.told = IF bitmap = NoBitmap THEN "nothing" ELSE bitmap]
               ELSE observers[id]]

OnFetchComplete(url, bitmap) ==
    \E f \in FetchersFor(url) :
        /\ Notify(f, bitmap)
        /\ IF bitmap = NoBitmap THEN UNCHANGED cache_ ELSE Put(url, bitmap)
        /\ RemoveFetcher(f)

OnURLFetchFailed(f) ==
    /\ f \in Fetching
    /\ OnFetchComplete(active_fetchers_[f].url, NoBitmap)
    /\ UNCHANGED <<current_request_id_, others, image_request_id_counter_, decoding>>

OnURLFetchSucceeded(f) ==
    /\ f \in Fetching
    /\ StartWithOptionsImpl(f, active_fetchers_[f].url)
    /\ active_fetchers_' = [active_fetchers_ EXCEPT ![f].stage = "decoding"]
    /\ UNCHANGED <<current_request_id_, requests_, cache_, observers, others>>

OnURLFetchComplete(f) == OnURLFetchFailed(f) \/ OnURLFetchSucceeded(f)

OnImageDecoded(f, image) == OnFetchComplete(active_fetchers_[f].url, image)

\* Faulty variant: the fetcher does not override ImageRequest's empty method.
OnDecodeImageFailed_Default(f) ==
    CancelImpl(f) /\ UNCHANGED <<requests_, observers, cache_, active_fetchers_>>

OnDecodeImageFailed(f) == OnFetchComplete(active_fetchers_[f].url, NoBitmap)

\* A result no request waits for is dropped.
DropResult(id) ==
    /\ id \in DOMAIN decoding /\ ~Waiting(id)
    /\ TakeResult(id)
    /\ UNCHANGED <<serviceVars, others, image_request_id_counter_, image_request_id_map_>>

\* The fetcher goes in the course of the call, and its id with it.
FetcherResult(id) ==
    /\ id \in DOMAIN decoding /\ Waiting(id)
    /\ LET f == image_request_id_map_[id]
       IN  /\ f \in Fetchers
           /\ OnImageDecoded(f, decoding[id]) \/ OnDecodeImageFailed(f)
    /\ TakeResult(id)
    /\ UNCHANGED <<current_request_id_, others, image_request_id_counter_>>

OtherResult(id) ==
    /\ id \in DOMAIN decoding /\ Waiting(id)
    /\ image_request_id_map_[id] \in others
    /\ image_request_id_map_' = Without(image_request_id_map_, {id})
    /\ TakeResult(id)
    /\ UNCHANGED <<serviceVars, others, image_request_id_counter_>>

OnDecodeImageDone(id) == DropResult(id) \/ FetcherResult(id) \/ OtherResult(id)

-----------------------------------------------------------------------------
(* Surroundings *)

\* The members go: requests with their observers, then every fetcher.
ReplaceService ==
    /\ current_request_id_' = 1
    /\ requests_' = {} /\ active_fetchers_' = <<>> /\ cache_' = <<>> /\ observers' = <<>>
    /\ image_request_id_map_' =
           Without(image_request_id_map_,
                   {id \in DOMAIN image_request_id_map_ : image_request_id_map_[id] \in Fetchers})
    /\ UNCHANGED <<others, image_request_id_counter_, decoding>>

\* Another client may start several decodes for one ImageRequest, and destroys
\* it at any time.
OtherStarts(a) ==
    /\ a \in Free \cup others /\ MayDecode
    /\ others' = others \cup {a}
    /\ \E image \in Images : StartWithOptionsImpl(a, image)
    /\ UNCHANGED serviceVars

OtherGoes(a) ==
    /\ a \in others
    /\ others' = others \ {a}
    /\ CancelImpl(a)
    /\ UNCHANGED <<serviceVars, image_request_id_counter_, decoding>>

Next ==
    \/ \E url \in Urls \cup {InvalidUrl} : RejectRequest(url)
    \/ \E url \in Urls : RequestCachedImage(url)
    \/ \E url \in Urls, f \in Addresses : RequestImage(url, f) \/ Prefetch(url, f)
    \/ \E id \in RequestIds : CancelRequest(id)
    \/ \E f \in Addresses : OnURLFetchComplete(f)
    \/ \E id \in Ids : OnDecodeImageDone(id)
    \/ ReplaceService
    \/ \E a \in Addresses : OtherStarts(a) \/ OtherGoes(a)

\* A URLFetcher reports in the end, and so does a decode, with an empty image when
\* the decoder's process dies.
Fairness ==
    /\ \A f \in Addresses : WF_vars(OnURLFetchComplete(f))
    /\ \A id \in Ids : WF_vars(OnDecodeImageDone(id))

Spec == Init /\ [][Next]_vars /\ Fairness

-----------------------------------------------------------------------------
(* Properties *)

\* One fetcher serves each url, with every request for it attached; a request is
\* on the list exactly while its observer waits, never for an image already
\* in the cache, and list and cache keep their limits, of which the one on requests
\* admits one more than kMaxRequests.
RequestsAttached ==
    /\ TypeOK
    /\ \A f, g \in Fetchers : active_fetchers_[f].url = active_fetchers_[g].url => f = g
    /\ \A r, s \in requests_ : r.id = s.id => r = s
    /\ \A id \in DOMAIN observers :
           observers[id].told = "waiting" <=> \E r \in requests_ : r.id = id
    /\ \A r \in requests_ :
           /\ r.fetcher \in Fetchers
           /\ active_fetchers_[r.fetcher].url = observers[r.id].url
           /\ Cached(observers[r.id].url) = {}
    /\ Cardinality(requests_) <= kMaxRequests + 1 /\ Len(cache_) <= kMaxCacheEntries

\* A result of the decoder reaches only the object it was started for, in time: the map
\* names living requests, each decoding fetcher once, and no image
\* gets to an observer or into the cache under another url than its own.
ImagesMatch ==
    /\ \A id \in DOMAIN image_request_id_map_ : image_request_id_map_[id] \in Fetchers \cup others
    /\ \A f \in Fetchers :
           Cardinality({id \in DOMAIN image_request_id_map_ : image_request_id_map_[id] = f})
               = IF active_fetchers_[f].stage = "decoding" THEN 1 ELSE 0
    /\ \A i \in DOMAIN cache_ : cache_[i].bitmap = cache_[i].url
    /\ \A id \in DOMAIN observers :
           observers[id].told \in Urls => observers[id].told = observers[id].url

\* Every request ends: its observer is called, cancelled or deleted uncalled.
RequestsEnd ==
    \A id \in RequestIds :
        (id \in DOMAIN observers /\ observers[id].told = "waiting")
            ~> ~(id \in DOMAIN observers /\ observers[id].told = "waiting")

===================================================================================
