---------------------- MODULE BitmapFetcherService_proofs ----------------------
(***************************************************************************)
(* For any number of urls, addresses and requests: requests are attached   *)
(* to the one fetcher of their url and leave with it, and no result of the *)
(* decoder reaches another object, observer or cache entry than its own.   *)
(***************************************************************************)
EXTENDS BitmapFetcherService, FiniteSetTheorems, SequenceTheorems, TLAPS

\* The invariant is cut along the state its parts read, so that a step need only
\* be looked at in the parts it touches.
ObserversInv ==
    /\ current_request_id_ \in 1..MaxRequestId
    /\ DOMAIN observers = 2..current_request_id_
    /\ \A id \in DOMAIN observers :
           /\ observers[id] \in [url : Urls \cup {InvalidUrl}, told : Urls \cup Unserved]
           /\ observers[id].told \in Urls => observers[id].told = observers[id].url

CacheInv ==
    /\ cache_ \in Seq([url : Urls, bitmap : Urls])
    /\ Len(cache_) <= kMaxCacheEntries
    /\ \A i \in DOMAIN cache_ : cache_[i].bitmap = cache_[i].url

\* A fetcher never shares its address with another client, and every fetch under
\* way has a decode left to it.
FetchersInv ==
    /\ Fetchers \subseteq Addresses /\ others \subseteq Addresses
    /\ Fetchers \cap others = {}
    /\ \A f \in Fetchers : active_fetchers_[f] \in [url : Urls, stage : {"fetching", "decoding"}]
    /\ \A f, g \in Fetchers : active_fetchers_[f].url = active_fetchers_[g].url => f = g
    /\ image_request_id_counter_ \in Nat
    /\ IsFiniteSet(Fetching)
    /\ image_request_id_counter_ + Cardinality(Fetching) <= MaxDecodes

\* The ids of the map belong to living objects; those of fetchers, one for each
\* that is decoding, to the decode of its own image.
DecodesInv ==
    /\ DOMAIN decoding \subseteq 0..(image_request_id_counter_ - 1)
    /\ DOMAIN image_request_id_map_ \subseteq DOMAIN decoding
    /\ \A id \in DOMAIN decoding : decoding[id] \in Images
    /\ \A id \in DOMAIN image_request_id_map_ : image_request_id_map_[id] \in Fetchers \cup others
    /\ \A id \in DOMAIN image_request_id_map_ : image_request_id_map_[id] \in Fetchers =>
           active_fetchers_[image_request_id_map_[id]] =
               [url |-> decoding[id], stage |-> "decoding"]
    /\ \A id, other \in DOMAIN image_request_id_map_ :
           /\ image_request_id_map_[id] \in Fetchers
           /\ image_request_id_map_[id] = image_request_id_map_[other]
           => id = other
    /\ \A f \in Fetchers : active_fetchers_[f].stage = "decoding" =>
           \E id \in DOMAIN image_request_id_map_ : image_request_id_map_[id] = f

\* Requests are the observers that wait, each attached to the fetcher of its url
\* while that url is not cached.
RequestsInv ==
    /\ requests_ \subseteq [id : RequestIds, fetcher : Addresses]
    /\ IsFiniteSet(requests_) /\ Cardinality(requests_) <= kMaxRequests + 1
    /\ \A r, s \in requests_ : r.id = s.id => r = s
    /\ \A r \in requests_ :
           /\ r.id \in DOMAIN observers /\ observers[r.id].told = "waiting"
           /\ r.fetcher \in Fetchers
           /\ active_fetchers_[r.fetcher].url = observers[r.id].url
           /\ \A i \in DOMAIN cache_ : cache_[i].url # observers[r.id].url
    /\ \A id \in DOMAIN observers :
           observers[id].told = "waiting" => \E r \in requests_ : r.id = id

\* The inductive invariant.
FetcherServiceInv == ObserversInv /\ CacheInv /\ FetchersInv /\ DecodesInv /\ RequestsInv

-----------------------------------------------------------------------------
(* What the operators of the module do to their part of the state *)

\* A new observer is the only change to the observers.
LEMMA ObserveEffect ==
    ASSUME ObserversInv, current_request_id_ < MaxRequestId,
           NEW url \in Urls \cup {InvalidUrl}, NEW told \in Urls \cup Unserved,
           told \in Urls => told = url, Observe(url, told)
    PROVE  /\ ObserversInv'
           /\ current_request_id_' \in RequestIds
           /\ current_request_id_' \notin DOMAIN observers
           /\ DOMAIN observers' = DOMAIN observers \cup {current_request_id_'}
           /\ observers'[current_request_id_'] = [url |-> url, told |-> told]
           /\ \A id \in DOMAIN observers : observers'[id] = observers[id]
<1> DEFINE new == current_request_id_ + 1
<1>1. /\ current_request_id_' = new
      /\ observers' = With(observers, new, [url |-> url, told |-> told])
  BY DEF Observe
<1>2. /\ new \in 2..MaxRequestId /\ new \notin DOMAIN observers
      /\ DOMAIN observers \cup {new} = 2..new
  BY FetcherAssumption DEF ObserversInv
<1>3. DOMAIN observers' = 2..new
  BY <1>1, <1>2 DEF With
<1>4. observers'[new] = [url |-> url, told |-> told]
  BY <1>1 DEF With
<1>5. \A id \in DOMAIN observers : observers'[id] = observers[id]
  BY <1>1, <1>2 DEF With
<1>6. new \in 1..MaxRequestId
  BY <1>2
<1> HIDE DEF new
<1>7. ObserversInv'
  <2>1. ASSUME NEW id \in DOMAIN observers'
        PROVE  /\ observers'[id] \in [url : Urls \cup {InvalidUrl}, told : Urls \cup Unserved]
               /\ observers'[id].told \in Urls => observers'[id].told = observers'[id].url
    <3>1. CASE id = new
      BY <1>4, <3>1
    <3>2. CASE id # new
      BY <1>2, <1>3, <1>5, <3>2 DEF ObserversInv
    <3> QED BY <3>1, <3>2
  <2> QED BY <1>1, <1>3, <1>6, <2>1 DEF ObserversInv
<1> QED BY <1>1, <1>2, <1>3, <1>4, <1>5, <1>7 DEF RequestIds

\* The cache holds no url it did not hold, or that was not put into it.
LEMMA RemoveEntry ==
    ASSUME CacheInv, NEW url, Cached(url) # {},
           NEW rest, rest = RemoveAt(cache_, Entry(url))
    PROVE  /\ rest \in Seq([url : Urls, bitmap : Urls])
           /\ Len(rest) + 1 = Len(cache_)
           /\ \A i \in DOMAIN rest : \E j \in DOMAIN cache_ : rest[i] = cache_[j]
           /\ Entry(url) \in DOMAIN cache_
           /\ cache_[Entry(url)].url = url
<1> DEFINE S == [url : Urls, bitmap : Urls]
           e == Entry(url)
           front == SubSeq(cache_, 1, e - 1)
           back == SubSeq(cache_, e + 1, Len(cache_))
<1>1. e \in Cached(url)
  BY DEF Entry
<1>2. /\ e \in 1..Len(cache_) /\ cache_[e].url = url
      /\ cache_ \in Seq(S) /\ Len(cache_) \in Nat
  BY <1>1 DEF Cached, CacheInv
<1> HIDE DEF S, e
<1>3. /\ front \in Seq(S) /\ Len(front) = e - 1
      /\ \A i \in 1..(e - 1) : front[i] = cache_[i]
  BY <1>2
<1>4. /\ back \in Seq(S) /\ Len(back) = Len(cache_) - e
      /\ \A i \in 1..(Len(cache_) - e) : back[i] = cache_[e + i]
  BY <1>2
<1>5. rest = front \o back
  BY DEF RemoveAt, e
<1> HIDE DEF front, back
<1>6. /\ rest \in Seq(S) /\ Len(rest) = Len(cache_) - 1
      /\ \A i \in 1..Len(rest) : rest[i] = IF i <= e - 1 THEN front[i] ELSE back[i - (e - 1)]
  <2>0. /\ front \o back \in Seq(S) /\ Len(front \o back) = Len(front) + Len(back)
        /\ \A i \in 1..Len(front) + Len(back) :
               (front \o back)[i] = IF i <= Len(front) THEN front[i] ELSE back[i - Len(front)]
    BY <1>3, <1>4, ConcatProperties
  <2>1. /\ rest \in Seq(S) /\ Len(rest) = Len(front) + Len(back)
        /\ \A i \in 1..Len(rest) :
               rest[i] = IF i <= Len(front) THEN front[i] ELSE back[i - Len(front)]
    BY <1>5, <2>0
  <2>2. Len(rest) = Len(cache_) - 1
    BY <1>2, <1>3, <1>4, <2>1
  <2> QED BY <1>3, <2>1, <2>2
<1>7. ASSUME NEW i \in DOMAIN rest PROVE \E j \in DOMAIN cache_ : rest[i] = cache_[j]
  <2>1. i \in 1..(Len(cache_) - 1)
    BY <1>2, <1>6
  <2>2. CASE i <= e - 1
    BY <1>2, <1>3, <1>6, <2>1, <2>2
  <2>3. CASE i > e - 1
    <3>1. i - (e - 1) \in 1..(Len(cache_) - e)
      BY <1>2, <2>1, <2>3
    <3>2. rest[i] = cache_[e + (i - (e - 1))]
      <4>1. i \in 1..Len(rest) /\ ~(i <= e - 1)
        BY <1>2, <1>6, <2>1, <2>3
      <4>2. rest[i] = back[i - (e - 1)]
        BY <1>6, <4>1
      <4> QED BY <1>4, <3>1, <4>2
    <3>3. e + (i - (e - 1)) \in DOMAIN cache_
      BY <1>2, <2>1, <2>3
    <3> QED BY <3>2, <3>3
  <2> QED BY <1>2, <2>1, <2>2, <2>3
<1> QED BY <1>2, <1>6, <1>7 DEF S, e

\* A move to the front adds no url.
LEMMA TouchEffect ==
    ASSUME CacheInv, NEW url, Cached(url) # {}, Touch(url)
    PROVE  /\ CacheInv'
           /\ \A i \in DOMAIN cache_' : \E j \in DOMAIN cache_ : cache_'[i].url = cache_[j].url
<1> DEFINE S == [url : Urls, bitmap : Urls]
           rest == RemoveAt(cache_, Entry(url))
           moved == cache_[Entry(url)]
<1>1. /\ rest \in Seq(S) /\ Len(rest) + 1 = Len(cache_)
      /\ \A i \in DOMAIN rest : \E j \in DOMAIN cache_ : rest[i] = cache_[j]
      /\ Entry(url) \in DOMAIN cache_
  <2>1. rest = RemoveAt(cache_, Entry(url))
    OBVIOUS
  <2> HIDE DEF rest
  <2>2. rest \in Seq([url : Urls, bitmap : Urls])
    BY <2>1, RemoveEntry
  <2> QED BY <2>1, <2>2, RemoveEntry
<1>2. moved \in S /\ cache_ \in Seq(S) /\ Len(cache_) \in Nat
  <2>1. cache_ \in Seq(S) /\ Len(cache_) \in Nat /\ DOMAIN cache_ = 1..Len(cache_)
    BY DEF CacheInv
  <2> HIDE DEF S, rest
  <2> QED BY <1>1, <2>1, ElementOfSeq
<1>3. cache_' = <<moved>> \o rest
  BY DEF Touch
<1> HIDE DEF S, rest, moved
<1>4. /\ cache_' \in Seq(S) /\ Len(cache_') = Len(cache_)
      /\ \A i \in 1..Len(cache_') : cache_'[i] = IF i = 1 THEN moved ELSE rest[i - 1]
  BY <1>1, <1>2, <1>3
<1>5. ASSUME NEW i \in DOMAIN cache_' PROVE \E j \in DOMAIN cache_ : cache_'[i] = cache_[j]
  <2>1. i \in 1..Len(cache_')
    BY <1>4
  <2>2. CASE i = 1
    BY <1>1, <1>4, <2>1, <2>2 DEF moved
  <2>3. CASE i # 1
    <3>1. i - 1 \in DOMAIN rest
      BY <1>1, <1>2, <1>4, <2>1, <2>3
    <3> QED BY <1>1, <1>4, <2>1, <2>3, <3>1
  <2> QED BY <2>2, <2>3
<1> QED BY <1>4, <1>5 DEF CacheInv, S

\* An image put into the cache is the only new one there.
LEMMA PutEffect ==
    ASSUME CacheInv, NEW url \in Urls, Put(url, url)
    PROVE  /\ CacheInv'
           /\ \A i \in DOMAIN cache_' :
                  cache_'[i].url = url \/ \E j \in DOMAIN cache_ : cache_'[i].url = cache_[j].url
<1> DEFINE S == [url : Urls, bitmap : Urls]
           new == [url |-> url, bitmap |-> url]
           rest == IF Cached(url) = {} THEN cache_ ELSE RemoveAt(cache_, Entry(url))
           entries == <<new>> \o rest
<1>1. /\ rest \in Seq(S) /\ Len(rest) \in Nat
      /\ \A i \in DOMAIN rest : \E j \in DOMAIN cache_ : rest[i] = cache_[j]
  BY RemoveEntry DEF CacheInv
<1>2. new \in S /\ new.url = url /\ new.bitmap = new.url /\ kMaxCacheEntries \in Nat \ {0}
  BY FetcherAssumption
<1>3. cache_' = IF Len(entries) > kMaxCacheEntries
                THEN SubSeq(entries, 1, kMaxCacheEntries) ELSE entries
  BY DEF Put
<1> HIDE DEF S, new, rest
<1>4. /\ entries \in Seq(S) /\ Len(entries) = Len(rest) + 1
      /\ \A i \in 1..Len(entries) : entries[i] = IF i = 1 THEN new ELSE rest[i - 1]
  BY <1>1, <1>2
<1> HIDE DEF entries
<1>5. ASSUME NEW i \in 1..Len(entries)
      PROVE  entries[i] = new \/ \E j \in DOMAIN cache_ : entries[i] = cache_[j]
  <2>1. CASE i = 1
    BY <1>4, <2>1
  <2>2. CASE i # 1
    <3>1. i - 1 \in DOMAIN rest
      BY <1>1, <1>4, <2>2
    <3> QED BY <1>1, <1>4, <2>2, <3>1
  <2> QED BY <2>1, <2>2
<1>6. /\ cache_' \in Seq(S) /\ Len(cache_') <= kMaxCacheEntries
      /\ Len(cache_') <= Len(entries) /\ Len(cache_') \in Nat
      /\ \A i \in 1..Len(cache_') : cache_'[i] = entries[i]
  BY <1>1, <1>2, <1>3, <1>4
<1>7. ASSUME NEW i \in DOMAIN cache_'
      PROVE  cache_'[i] = new \/ \E j \in DOMAIN cache_ : cache_'[i] = cache_[j]
  <2>1. i \in 1..Len(entries) /\ cache_'[i] = entries[i]
    <3>1. i \in 1..Len(cache_') /\ Len(entries) \in Nat
      BY <1>1, <1>4, <1>6
    <3> QED BY <1>6, <3>1
  <2> QED BY <1>5, <2>1
<1> QED BY <1>2, <1>6, <1>7 DEF CacheInv, S

\* A new fetcher takes a free address and one of the decodes left.
LEMMA CreateEffect ==
    ASSUME FetchersInv, DecodesInv, NEW url \in Urls, NEW f, FetchersFor(url) = {},
           CreateFetcher(url, f), UNCHANGED <<others, decoderVars>>
    PROVE  /\ FetchersInv' /\ DecodesInv'
           /\ f \in Fetchers' /\ active_fetchers_'[f].url = url
           /\ \A g \in Fetchers : g \in Fetchers' /\ active_fetchers_'[g] = active_fetchers_[g]
<1> DEFINE new == [url |-> url, stage |-> "fetching"]
<1>1. /\ f \in Addresses /\ f \notin Fetchers /\ f \notin others
      /\ active_fetchers_' = With(active_fetchers_, f, new)
      /\ image_request_id_counter_ + Cardinality(Fetching) < MaxDecodes
  BY DEF CreateFetcher, Free, MayDecode
<1>2. /\ Fetchers' = Fetchers \cup {f} /\ active_fetchers_'[f] = new
      /\ \A g \in Fetchers : active_fetchers_'[g] = active_fetchers_[g]
  BY <1>1 DEF With, Fetchers
<1>3. UNCHANGED <<others, image_request_id_counter_, image_request_id_map_, decoding>>
  BY DEF decoderVars
<1>4. /\ new \in [url : Urls, stage : {"fetching", "decoding"}]
      /\ new.url = url /\ new.stage = "fetching"
  OBVIOUS
<1> HIDE DEF new
<1>5. FetchersInv'
  <2>1. Fetching' = Fetching \cup {f} /\ f \notin Fetching
    BY <1>1, <1>2, <1>4 DEF Fetching
  <2>2. IsFiniteSet(Fetching') /\ Cardinality(Fetching') = Cardinality(Fetching) + 1
    BY <2>1, FS_AddElement DEF FetchersInv
  <2>3. Cardinality(Fetching) \in Nat
    BY FS_CardinalityType DEF FetchersInv
  <2>4. image_request_id_counter_' + Cardinality(Fetching') <= MaxDecodes
    BY <1>1, <1>3, <2>2, <2>3, DecoderAssumption DEF FetchersInv
  <2>5. \A g \in Fetchers : active_fetchers_[g].url # url
    BY DEF FetchersFor
  <2>6. \A g, h \in Fetchers' : active_fetchers_'[g].url = active_fetchers_'[h].url => g = h
    BY <1>2, <1>4, <2>5 DEF FetchersInv
  <2> QED BY <1>1, <1>2, <1>3, <1>4, <2>2, <2>4, <2>6 DEF FetchersInv
<1>6. DecodesInv'
  BY <1>1, <1>2, <1>3, <1>4 DEF DecodesInv
<1> QED BY <1>2, <1>4, <1>5, <1>6

\* Whether it is created or found, the fetcher of a url is there afterwards.
LEMMA EnsureEffect ==
    ASSUME FetchersInv, DecodesInv, NEW url \in Urls, NEW f,
           EnsureFetcherForUrl(url, f), UNCHANGED <<others, decoderVars>>
    PROVE  /\ FetchersInv' /\ DecodesInv'
           /\ f \in Fetchers' /\ active_fetchers_'[f].url = url
           /\ \A g \in Fetchers : g \in Fetchers' /\ active_fetchers_'[g] = active_fetchers_[g]
<1>1. CASE FetchersFor(url) = {}
  BY <1>1, CreateEffect DEF EnsureFetcherForUrl
<1>2. CASE FetchersFor(url) # {}
  <2>1. f \in Fetchers /\ active_fetchers_[f].url = url /\ UNCHANGED active_fetchers_
    BY <1>2 DEF EnsureFetcherForUrl, FetchersFor
  <2>2. UNCHANGED <<others, image_request_id_counter_, image_request_id_map_, decoding>>
    BY DEF decoderVars
  <2>3. Fetchers' = Fetchers /\ Fetching' = Fetching
    BY <2>1 DEF Fetchers, Fetching
  <2>4. FetchersInv'
    BY <2>1, <2>2, <2>3 DEF FetchersInv
  <2>5. DecodesInv'
    BY <2>1, <2>2, <2>3 DEF DecodesInv
  <2> QED BY <2>1, <2>3, <2>4, <2>5
<1> QED BY <1>1, <1>2

\* A fetcher that goes takes its ids with it; results taken meanwhile are its own.
LEMMA RemoveEffect ==
    ASSUME FetchersInv, DecodesInv, NEW f \in Fetchers, NEW taken, RemoveFetcher(f),
           UNCHANGED <<others, image_request_id_counter_>>,
           DOMAIN decoding' = DOMAIN decoding \ taken,
           \A id \in DOMAIN decoding' : decoding'[id] = decoding[id],
           \A id \in taken \cap DOMAIN image_request_id_map_ : image_request_id_map_[id] = f
    PROVE  /\ FetchersInv' /\ DecodesInv'
           /\ Fetchers' = Fetchers \ {f}
           /\ \A g \in Fetchers' : active_fetchers_'[g] = active_fetchers_[g]
<1>1. /\ Fetchers' = Fetchers \ {f}
      /\ \A g \in Fetchers' : active_fetchers_'[g] = active_fetchers_[g]
  BY DEF RemoveFetcher, Without, Fetchers
<1>2. /\ DOMAIN image_request_id_map_' =
             {id \in DOMAIN image_request_id_map_ : image_request_id_map_[id] # f}
      /\ \A id \in DOMAIN image_request_id_map_' :
             image_request_id_map_'[id] = image_request_id_map_[id]
  BY DEF RemoveFetcher, CancelImpl, Without
<1>3. Fetching' \subseteq Fetching
  BY <1>1 DEF Fetching
<1>4. FetchersInv'
  <2>1. IsFiniteSet(Fetching') /\ Cardinality(Fetching') <= Cardinality(Fetching)
    BY <1>3, FS_Subset DEF FetchersInv
  <2>2. Cardinality(Fetching) \in Nat /\ Cardinality(Fetching') \in Nat
    BY <2>1, FS_CardinalityType DEF FetchersInv
  <2>3. image_request_id_counter_' + Cardinality(Fetching') <= MaxDecodes
    BY <2>1, <2>2, DecoderAssumption DEF FetchersInv
  <2> QED BY <1>1, <2>1, <2>3 DEF FetchersInv
<1>5. DecodesInv'
  <2>1. /\ DOMAIN decoding' \subseteq 0..(image_request_id_counter_' - 1)
        /\ \A id \in DOMAIN decoding' : decoding'[id] \in Images
    BY DEF DecodesInv
  <2>2. DOMAIN image_request_id_map_' \subseteq DOMAIN decoding'
    BY <1>2 DEF DecodesInv
  <2>3. \A id \in DOMAIN image_request_id_map_' :
            image_request_id_map_'[id] \in Fetchers' \cup others'
    BY <1>1, <1>2 DEF DecodesInv
  <2>4. ASSUME NEW id \in DOMAIN image_request_id_map_', image_request_id_map_'[id] \in Fetchers'
        PROVE  active_fetchers_'[image_request_id_map_'[id]] =
                   [url |-> decoding'[id], stage |-> "decoding"]
    <3>1. /\ id \in DOMAIN image_request_id_map_
          /\ image_request_id_map_'[id] = image_request_id_map_[id]
          /\ decoding'[id] = decoding[id]
      BY <1>2, <2>2, <2>4
    <3> QED BY <1>1, <2>4, <3>1 DEF DecodesInv
  <2>5. \A id, other \in DOMAIN image_request_id_map_' :
            /\ image_request_id_map_'[id] \in Fetchers'
            /\ image_request_id_map_'[id] = image_request_id_map_'[other]
            => id = other
    BY <1>1, <1>2 DEF DecodesInv
  <2>6. \A g \in Fetchers' : active_fetchers_'[g].stage = "decoding" =>
            \E id \in DOMAIN image_request_id_map_' : image_request_id_map_'[id] = g
    BY <1>1, <1>2 DEF DecodesInv
  <2> QED BY <2>1, <2>2, <2>3, <2>4, <2>5, <2>6 DEF DecodesInv
<1> QED BY <1>1, <1>4, <1>5

-----------------------------------------------------------------------------
(* A fetch that ends: requests, observers, cache and fetcher change together *)

\* Whether with an image or without, a fetcher that reports takes its requests
\* with it, and only their observers are told, of their own image.
LEMMA CompleteEffect ==
    ASSUME FetcherServiceInv, NEW f \in Fetchers, NEW taken,
           NEW bitmap \in {NoBitmap, active_fetchers_[f].url},
           OnFetchComplete(active_fetchers_[f].url, bitmap),
           UNCHANGED <<current_request_id_, others, image_request_id_counter_>>,
           DOMAIN decoding' = DOMAIN decoding \ taken,
           \A id \in DOMAIN decoding' : decoding'[id] = decoding[id],
           \A id \in taken \cap DOMAIN image_request_id_map_ : image_request_id_map_[id] = f
    PROVE  FetcherServiceInv'
<1> DEFINE url == active_fetchers_[f].url
           attached == {r \in requests_ : r.fetcher = f}
           outcome == IF bitmap = NoBitmap THEN "nothing" ELSE bitmap
<1>0. ObserversInv /\ CacheInv /\ FetchersInv /\ DecodesInv /\ RequestsInv
  BY DEF FetcherServiceInv
<1>1. url \in Urls
  BY <1>0 DEF FetchersInv
<1>2. /\ Notify(f, bitmap) /\ RemoveFetcher(f)
      /\ IF bitmap = NoBitmap THEN UNCHANGED cache_ ELSE Put(url, bitmap)
  <2>1. PICK g \in FetchersFor(url) :
           /\ Notify(g, bitmap) /\ RemoveFetcher(g)
           /\ IF bitmap = NoBitmap THEN UNCHANGED cache_ ELSE Put(url, bitmap)
    BY DEF OnFetchComplete
  <2>2. g = f
    BY <1>0, <2>1 DEF FetchersFor, FetchersInv
  <2> QED BY <2>1, <2>2
<1>3. /\ FetchersInv' /\ DecodesInv'
      /\ Fetchers' = Fetchers \ {f}
      /\ \A g \in Fetchers' : active_fetchers_'[g] = active_fetchers_[g]
  BY <1>0, <1>2, RemoveEffect
<1>4. /\ CacheInv'
      /\ \A i \in DOMAIN cache_' :
             cache_'[i].url = url \/ \E j \in DOMAIN cache_ : cache_'[i].url = cache_[j].url
  <2>1. CASE bitmap = NoBitmap
    BY <1>0, <1>2, <2>1 DEF CacheInv
  <2>2. CASE bitmap # NoBitmap
    <3>1. bitmap = url /\ Put(url, url)
      BY <1>2, <2>2
    <3> HIDE DEF url
    <3> QED BY <1>0, <1>1, <3>1, PutEffect
  <2> QED BY <2>1, <2>2
<1>5. /\ requests_' = requests_ \ attached
      /\ DOMAIN observers' = DOMAIN observers
      /\ \A id \in DOMAIN observers :
             observers'[id] = IF \E r \in attached : r.id = id
                              THEN [observers[id] EXCEPT !.told = outcome] ELSE observers[id]
  BY <1>2 DEF Notify
<1>6. outcome \in {"nothing", url} /\ outcome \in Urls \cup Unserved /\ outcome # "waiting"
  BY <1>1, FetcherAssumption DEF Unserved
<1> HIDE DEF url, outcome
<1>7. ASSUME NEW id \in DOMAIN observers, \E r \in attached : r.id = id
      PROVE  /\ observers[id].url = url
             /\ observers'[id].url = url /\ observers'[id].told = outcome
             /\ observers'[id] \in [url : Urls \cup {InvalidUrl}, told : Urls \cup Unserved]
  <2>1. PICK r \in requests_ : r.id = id /\ r.fetcher = f
    BY <1>7
  <2>2. observers[id].url = url
    BY <1>0, <2>1 DEF RequestsInv, url
  <2>3. observers[id] \in [url : Urls \cup {InvalidUrl}, told : Urls \cup Unserved]
    BY <1>0 DEF ObserversInv
  <2>4. observers'[id] = [observers[id] EXCEPT !.told = outcome]
    BY <1>5, <1>7
  <2> QED BY <1>6, <2>2, <2>3, <2>4
<1>8. \A id \in DOMAIN observers : ~(\E r \in attached : r.id = id) => observers'[id] = observers[id]
  BY <1>5
<1>9. ObserversInv'
  <2>1. ASSUME NEW id \in DOMAIN observers'
        PROVE  /\ observers'[id] \in [url : Urls \cup {InvalidUrl}, told : Urls \cup Unserved]
               /\ observers'[id].told \in Urls => observers'[id].told = observers'[id].url
    <3>1. id \in DOMAIN observers
      BY <1>5, <2>1
    <3>2. CASE \E r \in attached : r.id = id
      <4>1. "nothing" \notin Urls
        BY FetcherAssumption DEF Unserved
      <4> QED BY <1>6, <1>7, <3>1, <3>2, <4>1
    <3>3. CASE ~(\E r \in attached : r.id = id)
      BY <1>0, <1>8, <3>1, <3>3 DEF ObserversInv
    <3> QED BY <3>2, <3>3
  <2> QED BY <1>0, <1>5, <2>1 DEF ObserversInv
<1>10. RequestsInv'
  <2>1. requests_' \subseteq requests_
    BY <1>5
  <2>2. /\ requests_' \subseteq [id : RequestIds, fetcher : Addresses]
        /\ IsFiniteSet(requests_') /\ Cardinality(requests_') <= kMaxRequests + 1
        /\ \A r, s \in requests_' : r.id = s.id => r = s
    <3>1. IsFiniteSet(requests_') /\ Cardinality(requests_') <= Cardinality(requests_)
      BY <1>0, <2>1, FS_Subset DEF RequestsInv
    <3>2. Cardinality(requests_) \in Nat /\ Cardinality(requests_') \in Nat
      BY <1>0, <3>1, FS_CardinalityType DEF RequestsInv
    <3> QED BY <1>0, <2>1, <3>1, <3>2, FetcherAssumption DEF RequestsInv
  <2>3. ASSUME NEW r \in requests_'
        PROVE  /\ r.id \in DOMAIN observers' /\ observers'[r.id].told = "waiting"
               /\ r.fetcher \in Fetchers'
               /\ active_fetchers_'[r.fetcher].url = observers'[r.id].url
               /\ \A i \in DOMAIN cache_' : cache_'[i].url # observers'[r.id].url
    <3>1. /\ r \in requests_ /\ r.fetcher # f
          /\ r.id \in DOMAIN observers /\ observers[r.id].told = "waiting"
          /\ r.fetcher \in Fetchers
          /\ active_fetchers_[r.fetcher].url = observers[r.id].url
          /\ \A i \in DOMAIN cache_ : cache_[i].url # observers[r.id].url
      BY <1>0, <1>5, <2>3 DEF RequestsInv
    <3>2. observers'[r.id] = observers[r.id]
      BY <1>0, <1>8, <3>1 DEF RequestsInv
    <3>3. observers[r.id].url # url
      BY <1>0, <3>1 DEF FetchersInv, url
    <3> QED BY <1>3, <1>4, <1>5, <3>1, <3>2, <3>3
  <2>4. ASSUME NEW id \in DOMAIN observers', observers'[id].told = "waiting"
        PROVE  \E r \in requests_' : r.id = id
    <3>1. id \in DOMAIN observers /\ ~(\E r \in attached : r.id = id)
      BY <1>5, <1>6, <1>7, <2>4
    <3>2. PICK r \in requests_ : r.id = id
      BY <1>0, <1>8, <2>4, <3>1 DEF RequestsInv
    <3> QED BY <1>5, <3>1, <3>2
  <2> QED BY <2>2, <2>3, <2>4 DEF RequestsInv
<1> QED BY <1>3, <1>4, <1>9, <1>10 DEF FetcherServiceInv

-----------------------------------------------------------------------------
(* Every step *)

\* Requests stay right under new observers that do not wait, new or changed
\* fetchers of the same urls, and a cache without new urls.
LEMMA RequestsKept ==
    ASSUME RequestsInv, UNCHANGED requests_,
           DOMAIN observers \subseteq DOMAIN observers',
           \A id \in DOMAIN observers : observers'[id] = observers[id],
           \A id \in DOMAIN observers' \ DOMAIN observers : observers'[id].told # "waiting",
           \A g \in Fetchers : g \in Fetchers' /\ active_fetchers_'[g].url = active_fetchers_[g].url,
           \A i \in DOMAIN cache_' : \E j \in DOMAIN cache_ : cache_'[i].url = cache_[j].url
    PROVE  RequestsInv'
<1>1. ASSUME NEW r \in requests_'
      PROVE  /\ r.id \in DOMAIN observers' /\ observers'[r.id].told = "waiting"
             /\ r.fetcher \in Fetchers'
             /\ active_fetchers_'[r.fetcher].url = observers'[r.id].url
             /\ \A i \in DOMAIN cache_' : cache_'[i].url # observers'[r.id].url
  <2>1. /\ r.id \in DOMAIN observers /\ observers[r.id].told = "waiting"
        /\ r.fetcher \in Fetchers
        /\ active_fetchers_[r.fetcher].url = observers[r.id].url
        /\ \A i \in DOMAIN cache_ : cache_[i].url # observers[r.id].url
    BY <1>1 DEF RequestsInv
  <2> QED BY <2>1
<1>2. \A id \in DOMAIN observers' :
          observers'[id].told = "waiting" => \E r \in requests_' : r.id = id
  BY DEF RequestsInv
<1>3. /\ requests_' \subseteq [id : RequestIds, fetcher : Addresses]
      /\ IsFiniteSet(requests_') /\ Cardinality(requests_') <= kMaxRequests + 1
      /\ \A r, s \in requests_' : r.id = s.id => r = s
  BY DEF RequestsInv
<1> QED BY <1>1, <1>2, <1>3 DEF RequestsInv

LEMMA InitInv == Init => FetcherServiceInv
<1> SUFFICES ASSUME Init PROVE FetcherServiceInv
  OBVIOUS
<1>1. /\ current_request_id_ = 1 /\ requests_ = {} /\ active_fetchers_ = <<>>
      /\ cache_ = <<>> /\ observers = <<>> /\ others = {}
      /\ image_request_id_counter_ = 0 /\ image_request_id_map_ = <<>> /\ decoding = <<>>
  BY DEF Init, ServiceInit, DecoderInit
<1>2. DOMAIN <<>> = {} /\ 2..1 = {}
  OBVIOUS
<1>3. ObserversInv
  BY <1>1, <1>2, FetcherAssumption DEF ObserversInv
<1>4. CacheInv
  BY <1>1, FetcherAssumption DEF CacheInv
<1>5. FetchersInv
  <2>1. Fetchers = {} /\ Fetching = {}
    BY <1>1, <1>2 DEF Fetchers, Fetching
  <2>2. IsFiniteSet({}) /\ Cardinality({}) = 0
    BY FS_EmptySet
  <2> QED BY <1>1, <2>1, <2>2, DecoderAssumption DEF FetchersInv
<1>6. DecodesInv
  BY <1>1, <1>2 DEF DecodesInv, Fetchers
<1>7. RequestsInv
  BY <1>1, <1>2, FS_EmptySet, FetcherAssumption DEF RequestsInv
<1> QED BY <1>3, <1>4, <1>5, <1>6, <1>7 DEF FetcherServiceInv

\* Calls of clients: requests of every kind, prefetches and cancellations.
LEMMA ClientInv ==
    ASSUME FetcherServiceInv,
           \/ \E url \in Urls \cup {InvalidUrl} : RejectRequest(url)
           \/ \E url \in Urls : RequestCachedImage(url)
           \/ \E url \in Urls, f \in Addresses : RequestImage(url, f) \/ Prefetch(url, f)
           \/ \E id \in RequestIds : CancelRequest(id)
    PROVE  FetcherServiceInv'
<1>0. ObserversInv /\ CacheInv /\ FetchersInv /\ DecodesInv /\ RequestsInv
  BY DEF FetcherServiceInv
<1>1. ASSUME NEW url \in Urls \cup {InvalidUrl}, RejectRequest(url) PROVE FetcherServiceInv'
  <2>1. /\ current_request_id_ < MaxRequestId /\ Observe(url, "nothing")
        /\ UNCHANGED <<requests_, active_fetchers_, cache_, others, image_request_id_counter_,
                       image_request_id_map_, decoding>>
    BY <1>1 DEF RejectRequest, decoderVars
  <2>2. "nothing" \in Urls \cup Unserved /\ "nothing" \notin Urls
    BY FetcherAssumption DEF Unserved
  <2>3. /\ ObserversInv'
        /\ DOMAIN observers' = DOMAIN observers \cup {current_request_id_'}
        /\ observers'[current_request_id_'] = [url |-> url, told |-> "nothing"]
        /\ \A id \in DOMAIN observers : observers'[id] = observers[id]
    BY <1>0, <2>1, <2>2, ObserveEffect
  <2>4. Fetchers' = Fetchers /\ Fetching' = Fetching
    BY <2>1 DEF Fetchers, Fetching
  <2>5. RequestsInv'
    BY <1>0, <2>1, <2>3, <2>4, RequestsKept
  <2>6. CacheInv' /\ FetchersInv' /\ DecodesInv'
    BY <1>0, <2>1, <2>4 DEF CacheInv, FetchersInv, DecodesInv
  <2> QED BY <2>3, <2>5, <2>6 DEF FetcherServiceInv
<1>2. ASSUME NEW url \in Urls, RequestCachedImage(url) PROVE FetcherServiceInv'
  <2> DEFINE image == cache_[Entry(url)].bitmap
  <2>1. /\ current_request_id_ < MaxRequestId /\ Observe(url, image)
        /\ Cached(url) # {} /\ Touch(url)
        /\ UNCHANGED <<requests_, active_fetchers_, others, image_request_id_counter_,
                       image_request_id_map_, decoding>>
    BY <1>2 DEF RequestCachedImage, decoderVars
  <2>2. image = url
    <3>1. Entry(url) \in DOMAIN cache_ /\ cache_[Entry(url)].url = url
      BY <2>1 DEF Entry, Cached
    <3> QED BY <1>0, <3>1 DEF CacheInv
  <2> HIDE DEF image
  <2>3. /\ ObserversInv'
        /\ DOMAIN observers' = DOMAIN observers \cup {current_request_id_'}
        /\ observers'[current_request_id_'] = [url |-> url, told |-> image]
        /\ \A id \in DOMAIN observers : observers'[id] = observers[id]
    BY <1>0, <2>1, <2>2, ObserveEffect
  <2>4. image # "waiting"
    BY <2>2, FetcherAssumption DEF Unserved
  <2>5. Fetchers' = Fetchers /\ Fetching' = Fetching
    BY <2>1 DEF Fetchers, Fetching
  <2>6. /\ CacheInv'
        /\ \A i \in DOMAIN cache_' : \E j \in DOMAIN cache_ : cache_'[i].url = cache_[j].url
    BY <1>0, <2>1, TouchEffect
  <2>7. RequestsInv'
    BY <1>0, <2>1, <2>3, <2>4, <2>5, <2>6, RequestsKept
  <2>8. FetchersInv' /\ DecodesInv'
    BY <1>0, <2>1, <2>5 DEF FetchersInv, DecodesInv
  <2> QED BY <2>3, <2>6, <2>7, <2>8 DEF FetcherServiceInv
<1>3. ASSUME NEW url \in Urls, NEW f \in Addresses, RequestImage(url, f) PROVE FetcherServiceInv'
  <2> DEFINE id == current_request_id_'
             new == [id |-> id, fetcher |-> f]
  <2>1. /\ current_request_id_ < MaxRequestId /\ Observe(url, "waiting")
        /\ Cached(url) = {} /\ Cardinality(requests_) <= kMaxRequests
        /\ EnsureFetcherForUrl(url, f)
        /\ requests_' = requests_ \cup {new}
        /\ UNCHANGED <<cache_, others, decoderVars>>
    BY <1>3 DEF RequestImage
  <2>2. "waiting" \in Urls \cup Unserved /\ "waiting" \notin Urls
    BY FetcherAssumption DEF Unserved
  <2>3. /\ ObserversInv' /\ id \in RequestIds /\ id \notin DOMAIN observers
        /\ DOMAIN observers' = DOMAIN observers \cup {id}
        /\ observers'[id] = [url |-> url, told |-> "waiting"]
        /\ \A old \in DOMAIN observers : observers'[old] = observers[old]
    BY <1>0, <2>1, <2>2, ObserveEffect
  <2>4. /\ FetchersInv' /\ DecodesInv'
        /\ f \in Fetchers' /\ active_fetchers_'[f].url = url
        /\ \A g \in Fetchers : g \in Fetchers' /\ active_fetchers_'[g] = active_fetchers_[g]
    BY <1>0, <2>1, EnsureEffect
  <2>5. CacheInv' /\ \A i \in DOMAIN cache_' : cache_'[i].url # url
    BY <1>0, <2>1 DEF CacheInv, Cached
  <2> HIDE DEF id
  <2>6. new \in [id : RequestIds, fetcher : Addresses] /\ new.id = id /\ new.fetcher = f
    BY <2>3
  <2> HIDE DEF new
  <2>7. RequestsInv'
    <3>1. /\ requests_' \subseteq [id : RequestIds, fetcher : Addresses]
          /\ IsFiniteSet(requests_') /\ Cardinality(requests_') <= kMaxRequests + 1
      <4>1. /\ IsFiniteSet(requests_')
            /\ Cardinality(requests_') \in {Cardinality(requests_), Cardinality(requests_) + 1}
        BY <1>0, <2>1, FS_AddElement DEF RequestsInv
      <4>2. Cardinality(requests_) \in Nat
        BY <1>0, FS_CardinalityType DEF RequestsInv
      <4> QED BY <1>0, <2>1, <2>6, <4>1, <4>2, FetcherAssumption DEF RequestsInv
    <3>2. \A r \in requests_ : r.id # id
      BY <1>0, <2>3 DEF RequestsInv
    <3>3. \A r, s \in requests_' : r.id = s.id => r = s
      BY <1>0, <2>1, <2>6, <3>2 DEF RequestsInv
    <3>4. ASSUME NEW r \in requests_'
          PROVE  /\ r.id \in DOMAIN observers' /\ observers'[r.id].told = "waiting"
                 /\ r.fetcher \in Fetchers'
                 /\ active_fetchers_'[r.fetcher].url = observers'[r.id].url
                 /\ \A i \in DOMAIN cache_' : cache_'[i].url # observers'[r.id].url
      <4>1. CASE r = new
        BY <2>3, <2>4, <2>5, <2>6, <4>1
      <4>2. CASE r \in requests_
        <5>1. /\ r.id \in DOMAIN observers /\ observers[r.id].told = "waiting"
              /\ r.fetcher \in Fetchers
              /\ active_fetchers_[r.fetcher].url = observers[r.id].url
              /\ \A i \in DOMAIN cache_ : cache_[i].url # observers[r.id].url
          BY <1>0, <4>2 DEF RequestsInv
        <5> QED BY <2>1, <2>3, <2>4, <5>1
      <4> QED BY <2>1, <4>1, <4>2
    <3>5. \A old \in DOMAIN observers' :
              observers'[old].told = "waiting" => \E r \in requests_' : r.id = old
      BY <1>0, <2>1, <2>3, <2>6 DEF RequestsInv
    <3> QED BY <3>1, <3>3, <3>4, <3>5 DEF RequestsInv
  <2> QED BY <2>3, <2>4, <2>5, <2>7 DEF FetcherServiceInv
<1>4. ASSUME NEW url \in Urls, NEW f \in Addresses, Prefetch(url, f) PROVE FetcherServiceInv'
  <2>1. /\ EnsureFetcherForUrl(url, f)
        /\ UNCHANGED <<current_request_id_, requests_, cache_, observers, others, decoderVars>>
    BY <1>4 DEF Prefetch
  <2>2. /\ FetchersInv' /\ DecodesInv'
        /\ \A g \in Fetchers : g \in Fetchers' /\ active_fetchers_'[g] = active_fetchers_[g]
    BY <1>0, <2>1, EnsureEffect
  <2>3. RequestsInv'
    BY <1>0, <2>1, <2>2, RequestsKept
  <2>4. ObserversInv' /\ CacheInv'
    BY <1>0, <2>1 DEF ObserversInv, CacheInv
  <2> QED BY <2>2, <2>3, <2>4 DEF FetcherServiceInv
<1>5. ASSUME NEW id \in RequestIds, CancelRequest(id) PROVE FetcherServiceInv'
  <2>1. PICK request \in requests_ : request.id = id /\ requests_' = requests_ \ {request}
    BY <1>5 DEF CancelRequest
  <2>2. /\ observers' = [observers EXCEPT ![id].told = "cancelled"]
        /\ UNCHANGED <<current_request_id_, active_fetchers_, cache_, others,
                       image_request_id_counter_, image_request_id_map_, decoding>>
    BY <1>5 DEF CancelRequest, decoderVars
  <2>3. /\ id \in DOMAIN observers
        /\ observers[id] \in [url : Urls \cup {InvalidUrl}, told : Urls \cup Unserved]
    BY <1>0, <2>1 DEF RequestsInv, ObserversInv
  <2>4. /\ DOMAIN observers' = DOMAIN observers
        /\ observers'[id] = [observers[id] EXCEPT !.told = "cancelled"]
        /\ \A other \in DOMAIN observers \ {id} : observers'[other] = observers[other]
    BY <2>2, <2>3
  <2>5. /\ observers'[id] \in [url : Urls \cup {InvalidUrl}, told : Urls \cup Unserved]
        /\ observers'[id].told = "cancelled"
    BY <2>3, <2>4 DEF Unserved
  <2>6. "cancelled" \notin Urls
    BY FetcherAssumption DEF Unserved
  <2>7. ObserversInv'
    BY <1>0, <2>2, <2>4, <2>5, <2>6 DEF ObserversInv
  <2>8. Fetchers' = Fetchers /\ Fetching' = Fetching
    BY <2>2 DEF Fetchers, Fetching
  <2>9. CacheInv' /\ FetchersInv' /\ DecodesInv'
    BY <1>0, <2>2, <2>8 DEF CacheInv, FetchersInv, DecodesInv
  <2>10. RequestsInv'
    <3>1. /\ requests_' \subseteq [id : RequestIds, fetcher : Addresses]
          /\ IsFiniteSet(requests_') /\ Cardinality(requests_') <= kMaxRequests + 1
      <4>1. IsFiniteSet(requests_') /\ Cardinality(requests_') <= Cardinality(requests_)
        BY <1>0, <2>1, FS_Subset DEF RequestsInv
      <4>2. Cardinality(requests_) \in Nat /\ Cardinality(requests_') \in Nat
        BY <1>0, <4>1, FS_CardinalityType DEF RequestsInv
      <4> QED BY <1>0, <2>1, <4>1, <4>2, FetcherAssumption DEF RequestsInv
    <3>2. \A r \in requests_' : r \in requests_ /\ r.id # id
      BY <1>0, <2>1 DEF RequestsInv
    <3>3. \A r \in requests_' :
              /\ r.id \in DOMAIN observers' /\ observers'[r.id].told = "waiting"
              /\ r.fetcher \in Fetchers'
              /\ active_fetchers_'[r.fetcher].url = observers'[r.id].url
              /\ \A i \in DOMAIN cache_' : cache_'[i].url # observers'[r.id].url
      BY <1>0, <2>2, <2>4, <2>8, <3>2 DEF RequestsInv
    <3>4. \A other \in DOMAIN observers' :
              observers'[other].told = "waiting" => \E r \in requests_' : r.id = other
      BY <1>0, <2>1, <2>4, <2>5 DEF RequestsInv
    <3> QED BY <1>0, <3>1, <3>2, <3>3, <3>4 DEF RequestsInv
  <2> QED BY <2>7, <2>9, <2>10 DEF FetcherServiceInv
<1> QED BY <1>1, <1>2, <1>3, <1>4, <1>5

\* Results of fetches and decodes, in any order.
LEMMA ResultInv ==
    ASSUME FetcherServiceInv,
           \/ \E f \in Addresses : OnURLFetchComplete(f)
           \/ \E id \in Ids : OnDecodeImageDone(id)
    PROVE  FetcherServiceInv'
<1>0. ObserversInv /\ CacheInv /\ FetchersInv /\ DecodesInv /\ RequestsInv
  BY DEF FetcherServiceInv
<1>1. ASSUME NEW f \in Addresses, OnURLFetchFailed(f) PROVE FetcherServiceInv'
  <2>1. /\ f \in Fetchers
        /\ OnFetchComplete(active_fetchers_[f].url, NoBitmap)
        /\ UNCHANGED <<current_request_id_, others, image_request_id_counter_>>
        /\ UNCHANGED decoding
    BY <1>1 DEF OnURLFetchFailed, Fetching
  <2>2. /\ DOMAIN decoding' = DOMAIN decoding \ {}
        /\ \A id \in DOMAIN decoding' : decoding'[id] = decoding[id]
        /\ \A id \in {} \cap DOMAIN image_request_id_map_ : image_request_id_map_[id] = f
    BY <2>1
  <2> QED BY <2>1, <2>2, CompleteEffect
<1>2. ASSUME NEW f \in Addresses, OnURLFetchSucceeded(f) PROVE FetcherServiceInv'
  <2> DEFINE url == active_fetchers_[f].url
             id == image_request_id_counter_
  <2>1. /\ f \in Fetchers /\ active_fetchers_[f].stage = "fetching"
        /\ image_request_id_counter_' = id + 1
        /\ image_request_id_map_' = With(image_request_id_map_, id, f)
        /\ decoding' = With(decoding, id, url)
        /\ active_fetchers_' = [active_fetchers_ EXCEPT ![f].stage = "decoding"]
        /\ UNCHANGED <<current_request_id_, requests_, cache_, observers, others>>
    BY <1>2 DEF OnURLFetchSucceeded, StartWithOptionsImpl, Fetching
  <2>2. /\ id \in Nat /\ id \notin DOMAIN decoding /\ id \notin DOMAIN image_request_id_map_
    BY <1>0 DEF FetchersInv, DecodesInv
  <2>3. /\ DOMAIN image_request_id_map_' = DOMAIN image_request_id_map_ \cup {id}
        /\ image_request_id_map_'[id] = f
        /\ \A i \in DOMAIN image_request_id_map_ :
               image_request_id_map_'[i] = image_request_id_map_[i]
        /\ DOMAIN decoding' = DOMAIN decoding \cup {id}
        /\ decoding'[id] = url
        /\ \A i \in DOMAIN decoding : decoding'[i] = decoding[i]
    BY <2>1, <2>2 DEF With
  <2>4. /\ Fetchers' = Fetchers
        /\ active_fetchers_'[f] = [url |-> url, stage |-> "decoding"]
        /\ \A g \in Fetchers \ {f} : active_fetchers_'[g] = active_fetchers_[g]
        /\ url \in Urls
    <3>1. active_fetchers_[f] \in [url : Urls, stage : {"fetching", "decoding"}]
      BY <1>0, <2>1 DEF FetchersInv
    <3> QED BY <2>1, <3>1 DEF Fetchers
  <2> HIDE DEF url, id
  <2>5. FetchersInv'
    <3>1. Fetching' = Fetching \ {f} /\ f \in Fetching
      BY <2>1, <2>4 DEF Fetching
    <3>2. IsFiniteSet(Fetching') /\ Cardinality(Fetching') = Cardinality(Fetching) - 1
      BY <1>0, <3>1, FS_RemoveElement DEF FetchersInv
    <3>3. Cardinality(Fetching) \in Nat
      BY <1>0, FS_CardinalityType DEF FetchersInv
    <3>4. /\ image_request_id_counter_' \in Nat
          /\ image_request_id_counter_' + Cardinality(Fetching') <= MaxDecodes
      BY <1>0, <2>1, <2>2, <3>2, <3>3, DecoderAssumption DEF FetchersInv, id
    <3>5. \A g \in Fetchers : active_fetchers_'[g].url = active_fetchers_[g].url
      BY <2>4 DEF url
    <3>6. \A g \in Fetchers :
              active_fetchers_'[g] \in [url : Urls, stage : {"fetching", "decoding"}]
      BY <1>0, <2>4 DEF FetchersInv
    <3> QED BY <1>0, <2>1, <2>4, <3>2, <3>4, <3>5, <3>6 DEF FetchersInv
  <2>6. DecodesInv'
    <3>1. ASSUME NEW i \in DOMAIN image_request_id_map_, image_request_id_map_[i] = f PROVE FALSE
      <4>1. active_fetchers_[f] = [url |-> decoding[i], stage |-> "decoding"]
        BY <1>0, <2>1, <3>1 DEF DecodesInv
      <4> QED BY <2>1, <4>1
    <3>2. /\ DOMAIN decoding' \subseteq 0..(image_request_id_counter_' - 1)
          /\ DOMAIN image_request_id_map_' \subseteq DOMAIN decoding'
      BY <1>0, <2>1, <2>2, <2>3 DEF DecodesInv, id
    <3>3. \A i \in DOMAIN decoding' : decoding'[i] \in Images
      BY <1>0, <2>3, <2>4, FetcherAssumption DEF DecodesInv
    <3>4. \A i \in DOMAIN image_request_id_map_' :
              image_request_id_map_'[i] \in Fetchers' \cup others'
      BY <1>0, <2>1, <2>3, <2>4 DEF DecodesInv
    <3>5. ASSUME NEW i \in DOMAIN image_request_id_map_', image_request_id_map_'[i] \in Fetchers'
          PROVE  active_fetchers_'[image_request_id_map_'[i]] =
                     [url |-> decoding'[i], stage |-> "decoding"]
      <4>1. CASE i = id
        BY <2>3, <2>4, <4>1
      <4>2. CASE i # id
        <5>1. /\ i \in DOMAIN image_request_id_map_ /\ i \in DOMAIN decoding
              /\ image_request_id_map_'[i] = image_request_id_map_[i]
              /\ image_request_id_map_[i] # f /\ decoding'[i] = decoding[i]
          BY <1>0, <2>3, <3>1, <3>5, <4>2 DEF DecodesInv
        <5> QED BY <1>0, <2>4, <3>5, <5>1 DEF DecodesInv
      <4> QED BY <4>1, <4>2
    <3>6. \A i, j \in DOMAIN image_request_id_map_' :
              /\ image_request_id_map_'[i] \in Fetchers'
              /\ image_request_id_map_'[i] = image_request_id_map_'[j]
              => i = j
      BY <1>0, <2>3, <2>4, <3>1 DEF DecodesInv
    <3>7. \A g \in Fetchers' : active_fetchers_'[g].stage = "decoding" =>
              \E i \in DOMAIN image_request_id_map_' : image_request_id_map_'[i] = g
      BY <1>0, <2>3, <2>4 DEF DecodesInv
    <3> QED BY <3>2, <3>3, <3>4, <3>5, <3>6, <3>7 DEF DecodesInv
  <2>7. \A g \in Fetchers : g \in Fetchers' /\ active_fetchers_'[g].url = active_fetchers_[g].url
    BY <2>4 DEF url
  <2>8. RequestsInv'
    BY <1>0, <2>1, <2>7, RequestsKept
  <2>9. ObserversInv' /\ CacheInv'
    BY <1>0, <2>1 DEF ObserversInv, CacheInv
  <2> QED BY <2>5, <2>6, <2>8, <2>9 DEF FetcherServiceInv
<1>3. ASSUME NEW id \in Ids, DropResult(id) PROVE FetcherServiceInv'
  <2>1. /\ id \notin DOMAIN image_request_id_map_
        /\ DOMAIN decoding' = DOMAIN decoding \ {id}
        /\ \A i \in DOMAIN decoding' : decoding'[i] = decoding[i]
        /\ UNCHANGED <<current_request_id_, requests_, active_fetchers_, cache_, observers, others,
                       image_request_id_counter_, image_request_id_map_>>
    BY <1>3 DEF DropResult, Waiting, TakeResult, Without, serviceVars
  <2>2. Fetchers' = Fetchers /\ Fetching' = Fetching
    BY <2>1 DEF Fetchers, Fetching
  <2>3. FetchersInv' /\ ObserversInv' /\ CacheInv' /\ RequestsInv'
    BY <1>0, <2>1, <2>2 DEF FetchersInv, ObserversInv, CacheInv, RequestsInv
  <2>4. DecodesInv'
    BY <1>0, <2>1, <2>2 DEF DecodesInv
  <2> QED BY <2>3, <2>4 DEF FetcherServiceInv
<1>4. ASSUME NEW id \in Ids, FetcherResult(id) PROVE FetcherServiceInv'
  <2> DEFINE f == image_request_id_map_[id]
             url == active_fetchers_[f].url
  <2>1. /\ id \in DOMAIN image_request_id_map_ /\ f \in Fetchers
        /\ OnFetchComplete(url, decoding[id]) \/ OnFetchComplete(url, NoBitmap)
        /\ DOMAIN decoding' = DOMAIN decoding \ {id}
        /\ \A i \in DOMAIN decoding' : decoding'[i] = decoding[i]
        /\ UNCHANGED <<current_request_id_, others, image_request_id_counter_>>
    BY <1>4 DEF FetcherResult, Waiting, TakeResult, Without, OnImageDecoded, OnDecodeImageFailed
  <2>2. decoding[id] = url
    <3>1. active_fetchers_[f] = [url |-> decoding[id], stage |-> "decoding"]
      BY <1>0, <2>1 DEF DecodesInv
    <3> HIDE DEF f
    <3> QED BY <3>1
  <2>3. \A i \in {id} \cap DOMAIN image_request_id_map_ : image_request_id_map_[i] = f
    OBVIOUS
  <2> HIDE DEF f
  <2>4. CASE OnFetchComplete(url, url)
    BY <2>1, <2>3, <2>4, CompleteEffect
  <2>5. CASE OnFetchComplete(url, NoBitmap)
    BY <2>1, <2>3, <2>5, CompleteEffect
  <2> QED BY <2>1, <2>2, <2>4, <2>5
<1>5. ASSUME NEW id \in Ids, OtherResult(id) PROVE FetcherServiceInv'
  <2>1. /\ id \in DOMAIN image_request_id_map_ /\ image_request_id_map_[id] \in others
        /\ DOMAIN image_request_id_map_' = DOMAIN image_request_id_map_ \ {id}
        /\ \A i \in DOMAIN image_request_id_map_' :
               image_request_id_map_'[i] = image_request_id_map_[i]
        /\ DOMAIN decoding' = DOMAIN decoding \ {id}
        /\ \A i \in DOMAIN decoding' : decoding'[i] = decoding[i]
        /\ UNCHANGED <<current_request_id_, requests_, active_fetchers_, cache_, observers, others,
                       image_request_id_counter_>>
    BY <1>5 DEF OtherResult, Waiting, TakeResult, Without, serviceVars
  <2>2. Fetchers' = Fetchers /\ Fetching' = Fetching
    BY <2>1 DEF Fetchers, Fetching
  <2>3. FetchersInv' /\ ObserversInv' /\ CacheInv' /\ RequestsInv'
    BY <1>0, <2>1, <2>2 DEF FetchersInv, ObserversInv, CacheInv, RequestsInv
  <2>4. image_request_id_map_[id] \notin Fetchers
    BY <1>0, <2>1 DEF FetchersInv
  <2>5. DecodesInv'
    BY <1>0, <2>1, <2>2, <2>4 DEF DecodesInv
  <2> QED BY <2>3, <2>5 DEF FetcherServiceInv
<1> QED BY <1>1, <1>2, <1>3, <1>4, <1>5 DEF OnURLFetchComplete, OnDecodeImageDone

\* The service goes; other clients of the decoder come and go.
LEMMA SurroundingsInv ==
    ASSUME FetcherServiceInv,
           ReplaceService \/ \E a \in Addresses : OtherStarts(a) \/ OtherGoes(a)
    PROVE  FetcherServiceInv'
<1>0. ObserversInv /\ CacheInv /\ FetchersInv /\ DecodesInv /\ RequestsInv
  BY DEF FetcherServiceInv
<1>1. CASE ReplaceService
  <2>1. /\ current_request_id_' = 1 /\ requests_' = {} /\ active_fetchers_' = <<>>
        /\ cache_' = <<>> /\ observers' = <<>>
        /\ UNCHANGED <<others, image_request_id_counter_, decoding>>
        /\ DOMAIN image_request_id_map_' =
               {id \in DOMAIN image_request_id_map_ : image_request_id_map_[id] \notin Fetchers}
        /\ \A id \in DOMAIN image_request_id_map_' :
               image_request_id_map_'[id] = image_request_id_map_[id]
    BY <1>1 DEF ReplaceService, Without
  <2>2. DOMAIN <<>> = {} /\ 2..1 = {}
    OBVIOUS
  <2>3. Fetchers' = {} /\ Fetching' = {}
    BY <2>1, <2>2 DEF Fetchers, Fetching
  <2>4. ObserversInv'
    BY <2>1, <2>2, FetcherAssumption DEF ObserversInv
  <2>5. CacheInv'
    BY <2>1, FetcherAssumption DEF CacheInv
  <2>6. FetchersInv'
    <3>1. IsFiniteSet({}) /\ Cardinality({}) = 0
      BY FS_EmptySet
    <3>2. Cardinality(Fetching) \in Nat
      BY <1>0, FS_CardinalityType DEF FetchersInv
    <3> QED BY <1>0, <2>1, <2>3, <3>1, <3>2, DecoderAssumption DEF FetchersInv
  <2>7. DecodesInv'
    BY <1>0, <2>1, <2>3 DEF DecodesInv
  <2>8. RequestsInv'
    BY <2>1, <2>2, FS_EmptySet, FetcherAssumption DEF RequestsInv
  <2> QED BY <2>4, <2>5, <2>6, <2>7, <2>8 DEF FetcherServiceInv
<1>2. ASSUME NEW a \in Addresses, OtherStarts(a) PROVE FetcherServiceInv'
  <2> DEFINE id == image_request_id_counter_
  <2>1. PICK image \in Images : StartWithOptionsImpl(a, image)
    BY <1>2 DEF OtherStarts
  <2>2. /\ a \notin Fetchers
        /\ id + Cardinality(Fetching) < MaxDecodes
        /\ others' = others \cup {a}
        /\ UNCHANGED <<current_request_id_, requests_, active_fetchers_, cache_, observers>>
    BY <1>0, <1>2 DEF OtherStarts, Free, MayDecode, serviceVars, FetchersInv
  <2>3. id \in Nat /\ id \notin DOMAIN decoding /\ id \notin DOMAIN image_request_id_map_
    BY <1>0 DEF FetchersInv, DecodesInv
  <2>4. /\ image_request_id_counter_' = id + 1
        /\ DOMAIN image_request_id_map_' = DOMAIN image_request_id_map_ \cup {id}
        /\ image_request_id_map_'[id] = a
        /\ \A i \in DOMAIN image_request_id_map_ :
               image_request_id_map_'[i] = image_request_id_map_[i]
        /\ DOMAIN decoding' = DOMAIN decoding \cup {id}
        /\ decoding'[id] = image
        /\ \A i \in DOMAIN decoding : decoding'[i] = decoding[i]
    BY <2>1, <2>3 DEF StartWithOptionsImpl, With
  <2> HIDE DEF id
  <2>5. Fetchers' = Fetchers /\ Fetching' = Fetching
    BY <2>2 DEF Fetchers, Fetching
  <2>6. FetchersInv'
    <3>1. Cardinality(Fetching) \in Nat
      BY <1>0, FS_CardinalityType DEF FetchersInv
    <3>2. /\ image_request_id_counter_' \in Nat
          /\ image_request_id_counter_' + Cardinality(Fetching) <= MaxDecodes
      BY <2>2, <2>3, <2>4, <3>1, DecoderAssumption
    <3> QED BY <1>0, <2>2, <2>5, <3>2 DEF FetchersInv
  <2>7. DecodesInv'
    <3>1. DOMAIN decoding' \subseteq 0..(image_request_id_counter_' - 1)
      BY <1>0, <2>3, <2>4 DEF DecodesInv, id
    <3>2. /\ DOMAIN image_request_id_map_' \subseteq DOMAIN decoding'
          /\ \A i \in DOMAIN decoding' : decoding'[i] \in Images
          /\ \A i \in DOMAIN image_request_id_map_' :
                 image_request_id_map_'[i] \in Fetchers' \cup others'
      BY <1>0, <2>2, <2>4, <2>5 DEF DecodesInv
    <3>3. \A i \in DOMAIN image_request_id_map_' : image_request_id_map_'[i] \in Fetchers' =>
              /\ i \in DOMAIN image_request_id_map_ /\ i \in DOMAIN decoding
              /\ image_request_id_map_'[i] = image_request_id_map_[i]
              /\ decoding'[i] = decoding[i]
      BY <1>0, <2>2, <2>4, <2>5 DEF DecodesInv
    <3>4. \A i \in DOMAIN image_request_id_map_' : image_request_id_map_'[i] \in Fetchers' =>
              active_fetchers_'[image_request_id_map_'[i]] =
                  [url |-> decoding'[i], stage |-> "decoding"]
      BY <1>0, <2>2, <2>5, <3>3 DEF DecodesInv
    <3>5. \A i, j \in DOMAIN image_request_id_map_' :
              /\ image_request_id_map_'[i] \in Fetchers'
              /\ image_request_id_map_'[i] = image_request_id_map_'[j]
              => i = j
      BY <1>0, <2>5, <3>3 DEF DecodesInv
    <3>6. \A g \in Fetchers' : active_fetchers_'[g].stage = "decoding" =>
              \E i \in DOMAIN image_request_id_map_' : image_request_id_map_'[i] = g
      BY <1>0, <2>2, <2>4, <2>5 DEF DecodesInv
    <3> QED BY <3>1, <3>2, <3>4, <3>5, <3>6 DEF DecodesInv
  <2>8. ObserversInv' /\ CacheInv' /\ RequestsInv'
    BY <1>0, <2>2, <2>5 DEF ObserversInv, CacheInv, RequestsInv
  <2> QED BY <2>6, <2>7, <2>8 DEF FetcherServiceInv
<1>3. ASSUME NEW a \in Addresses, OtherGoes(a) PROVE FetcherServiceInv'
  <2>1. /\ a \in others /\ others' = others \ {a}
        /\ UNCHANGED <<current_request_id_, requests_, active_fetchers_, cache_, observers,
                       image_request_id_counter_, decoding>>
        /\ DOMAIN image_request_id_map_' =
               {id \in DOMAIN image_request_id_map_ : image_request_id_map_[id] # a}
        /\ \A id \in DOMAIN image_request_id_map_' :
               image_request_id_map_'[id] = image_request_id_map_[id]
    BY <1>3 DEF OtherGoes, CancelImpl, Without, serviceVars
  <2>2. Fetchers' = Fetchers /\ Fetching' = Fetching /\ a \notin Fetchers
    BY <1>0, <2>1 DEF Fetchers, Fetching, FetchersInv
  <2>3. FetchersInv' /\ ObserversInv' /\ CacheInv' /\ RequestsInv'
    BY <1>0, <2>1, <2>2 DEF FetchersInv, ObserversInv, CacheInv, RequestsInv
  <2>4. DecodesInv'
    BY <1>0, <2>1, <2>2 DEF DecodesInv
  <2> QED BY <2>3, <2>4 DEF FetcherServiceInv
<1> QED BY <1>1, <1>2, <1>3

LEMMA NextInv == FetcherServiceInv /\ [Next]_vars => FetcherServiceInv'
<1> SUFFICES ASSUME FetcherServiceInv, [Next]_vars PROVE FetcherServiceInv'
  OBVIOUS
<1>1. CASE Next
  BY <1>1, ClientInv, ResultInv, SurroundingsInv DEF Next
<1>2. CASE UNCHANGED vars
  <2>1. UNCHANGED <<current_request_id_, requests_, active_fetchers_, cache_, observers, others,
                    image_request_id_counter_, image_request_id_map_, decoding>>
    BY <1>2 DEF vars, serviceVars, decoderVars
  <2>2. Fetchers' = Fetchers /\ Fetching' = Fetching
    BY <2>1 DEF Fetchers, Fetching
  <2> QED BY <2>1, <2>2
      DEF FetcherServiceInv, ObserversInv, CacheInv, FetchersInv, DecodesInv, RequestsInv
<1> QED BY <1>1, <1>2

LEMMA FetcherServiceInvariant == Spec => []FetcherServiceInv
BY InitInv, NextInv, PTL DEF Spec

-----------------------------------------------------------------------------
(* Theorems *)

\* For any number of urls and requests: one fetcher serves each url, requests are on
\* the list exactly while their observers wait, attached to a living fetcher of
\* their url, and list and cache keep their limits.
THEOREM RequestsStayAttached == Spec => []RequestsAttached
<1>1. ASSUME FetcherServiceInv PROVE RequestsAttached
  <2>0. ObserversInv /\ CacheInv /\ FetchersInv /\ DecodesInv /\ RequestsInv
    BY <1>1 DEF FetcherServiceInv
  <2>1. DecoderTypeOK
    <3>1. image_request_id_counter_ \in 0..MaxDecodes
      <4>1. Cardinality(Fetching) \in Nat
        BY <2>0, FS_CardinalityType DEF FetchersInv
      <4> QED BY <2>0, <4>1, DecoderAssumption DEF FetchersInv
    <3> QED BY <2>0, <3>1 DEF DecodesInv, FetchersInv, DecoderTypeOK
  <2>2. TypeOK
    <3>1. \A id \in DOMAIN observers :
              observers[id] \in [url : Urls \cup {InvalidUrl},
                                 told : Urls \cup Unserved]
      BY <2>0 DEF ObserversInv
    <3> QED BY <2>0, <2>1, <3>1
        DEF TypeOK, ObserversInv, CacheInv, FetchersInv, RequestsInv, Fetchers
  <2>3. \A id \in DOMAIN observers :
            observers[id].told = "waiting" <=> \E r \in requests_ : r.id = id
    BY <2>0 DEF RequestsInv
  <2>4. \A r \in requests_ :
            /\ r.fetcher \in Fetchers
            /\ active_fetchers_[r.fetcher].url = observers[r.id].url
            /\ Cached(observers[r.id].url) = {}
    BY <2>0 DEF RequestsInv, Cached
  <2> QED BY <2>0, <2>2, <2>3, <2>4 DEF RequestsAttached, FetchersInv, RequestsInv, CacheInv
<1> QED BY <1>1, FetcherServiceInvariant, PTL

\* Whoever else uses the decoder, and whatever memory is taken again: no result reaches
\* an object it was not started for, and no image another observer or cache entry.
THEOREM ImagesReachTheirs == Spec => []ImagesMatch
<1>1. ASSUME FetcherServiceInv PROVE ImagesMatch
  <2>0. ObserversInv /\ CacheInv /\ FetchersInv /\ DecodesInv /\ RequestsInv
    BY <1>1 DEF FetcherServiceInv
  <2>1. ASSUME NEW f \in Fetchers
        PROVE  Cardinality({id \in DOMAIN image_request_id_map_ : image_request_id_map_[id] = f})
                   = IF active_fetchers_[f].stage = "decoding" THEN 1 ELSE 0
    <3> DEFINE ids == {id \in DOMAIN image_request_id_map_ : image_request_id_map_[id] = f}
    <3>1. CASE active_fetchers_[f].stage = "decoding"
      <4>1. PICK id \in ids : TRUE
        BY <2>0, <3>1 DEF DecodesInv
      <4>2. ids = {id}
        BY <2>0, <4>1 DEF DecodesInv
      <4> HIDE DEF ids
      <4>3. Cardinality(ids) = 1
        BY <4>2, FS_Singleton
      <4> QED BY <3>1, <4>3 DEF ids
    <3>2. CASE active_fetchers_[f].stage # "decoding"
      <4>1. ids = {}
        <5>1. ASSUME NEW id \in ids PROVE FALSE
          <6>1. active_fetchers_[f] = [url |-> decoding[id], stage |-> "decoding"]
            BY <2>0, <5>1 DEF DecodesInv
          <6> QED BY <3>2, <6>1
        <5> QED BY <5>1
      <4> HIDE DEF ids
      <4>2. Cardinality(ids) = 0
        BY <4>1, FS_EmptySet
      <4> QED BY <3>2, <4>2 DEF ids
    <3> QED BY <3>1, <3>2
  <2> QED BY <2>0, <2>1 DEF ImagesMatch, DecodesInv, CacheInv, ObserversInv
<1> QED BY <1>1, FetcherServiceInvariant, PTL
================================================================================
