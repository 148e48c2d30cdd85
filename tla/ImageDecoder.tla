------------------------------- MODULE ImageDecoder -------------------------------
(***************************************************************************)
(* ImageDecoder (image_decoder.cc): the map from the ids of the decodes    *)
(* under way to the ImageRequest objects which wait for them.              *)
(*                                                                         *)
(* A decode runs in another process and its result is posted to the task   *)
(* runner of its request; both are one interval here, at the end of which  *)
(* OnDecodeImageDone looks the id up.  A request is destroyed on the same  *)
(* runner, so that nothing comes between the look-up, under map_lock_, and *)
(* the call after it.  Requests are known by their addresses, which other  *)
(* requests may take once they are gone.                                   *)
(***************************************************************************)
EXTENDS Naturals

CONSTANTS
    Addresses,   \* where an ImageRequest may be allocated
    Images,      \* what encoded image data stands for
    MaxDecodes   \* bound: decodes started

ASSUME DecoderAssumption == MaxDecodes \in Nat

VARIABLES
    image_request_id_counter_,
    image_request_id_map_,  \* decode id -> address of its request
    decoding                \* decode id -> the image in its data

decoderVars == <<image_request_id_counter_, image_request_id_map_, decoding>>

Ids == 0..(MaxDecodes - 1)

DecoderTypeOK ==
    /\ image_request_id_counter_ \in 0..MaxDecodes
    /\ DOMAIN decoding \subseteq 0..(image_request_id_counter_ - 1)
    /\ DOMAIN image_request_id_map_ \subseteq DOMAIN decoding
    /\ \A id \in DOMAIN decoding : decoding[id] \in Images
    /\ \A id \in DOMAIN image_request_id_map_ : image_request_id_map_[id] \in Addresses

DecoderInit ==
    /\ image_request_id_counter_ = 0
    /\ image_request_id_map_ = <<>>
    /\ decoding = <<>>

Without(f, keys) == [k \in DOMAIN f \ keys |-> f[k]]
With(f, key, value) == [k \in DOMAIN f \cup {key} |-> IF k = key THEN value ELSE f[k]]

StartWithOptionsImpl(request, data) ==
    /\ image_request_id_counter_' = image_request_id_counter_ + 1
    /\ image_request_id_map_' = With(image_request_id_map_, image_request_id_counter_, request)
    /\ decoding' = With(decoding, image_request_id_counter_, data)

\* Faulty variant: the search ends at the first id of the request.
CancelImpl_First(request) ==
    LET found == {id \in DOMAIN image_request_id_map_ : image_request_id_map_[id] = request}
    IN  image_request_id_map_' =
            Without(image_request_id_map_, {id \in found : \A other \in found : id <= other})

\* Every id of the request is erased; the decodes themselves go on.
CancelImpl(request) ==
    image_request_id_map_' =
        Without(image_request_id_map_,
                {id \in DOMAIN image_request_id_map_ : image_request_id_map_[id] = request})

Waiting(id) == id \in DOMAIN image_request_id_map_

\* Both handlers of a result erase its id before they call the request.
TakeResult(id) == decoding' = Without(decoding, {id})

===================================================================================
