------------------------------ MODULE Encoder -------------------------------
(***************************************************************************)
(* The video encoders (capture/encoder): the factory's choice, and what    *)
(* InitEncode, Encode and Release do to one encoder.  Bitrates and picture *)
(* types are data no property tells apart and are left out.                *)
(*                                                                         *)
(* An encoder is a record.  native is the set of native handles it holds,  *)
(* in the order the backend acquires them; lost is the set of handles no   *)
(* field points to any more.  Every operation that calls into the backend  *)
(* is the set of its outcomes.                                             *)
(*                                                                         *)
(* VA-API's VABuffers are held by locals only.  "parameters" stands for    *)
(* the sequence, rate, picture and slice buffers, "coded" for the buffer   *)
(* the bitstream comes back in.  SetRates calls SubmitSequenceParams again *)
(* on an initialised encoder, which loses nothing a set can tell from what *)
(* Initialize lost, and has no action.                                     *)
(***************************************************************************)
EXTENDS Naturals, Sequences

NoEncoder == "none"
Formats == {"VP9", "H264", "AV1"}
Backends == {"nvenc", "vaapi", "svt"}       \* the ones probed before use
Kinds == {"x264", "vp9"} \cup Backends

(* Hardware when preferred and probed, else software; AV1 has no software  *)
(* encoder that needs no probe.                                            *)
Create(format, prefer, probed) ==
    LET usable == prefer \cap probed
    IN  CASE format = "VP9" -> IF "vaapi" \in usable THEN "vaapi" ELSE "vp9"
          [] format = "H264" -> IF "nvenc" \in usable THEN "nvenc"
                                ELSE IF "vaapi" \in usable THEN "vaapi" ELSE "x264"
          [] format = "AV1" -> IF "nvenc" \in usable THEN "nvenc"
                               ELSE IF "vaapi" \in usable THEN "vaapi"
                               ELSE IF "svt" \in probed THEN "svt" ELSE NoEncoder

(* The native handles of the five encoders.                                *)
Handles ==
    {"encoder", "codec", "image", "handle", "running", "cuda", "session", "buffers",
     "fd", "display", "config", "surfaces", "context", "parameters", "coded"}

New(kind) ==
    [kind |-> kind, size |-> 0, initialized |-> FALSE, callback |-> FALSE,
     native |-> {}, lost |-> {}]

-----------------------------------------------------------------------------
(* InitEncode                                                              *)

Acquired(handles, k) == {handles[i] : i \in 1..k}

(* handles[1..k] acquired; what the fields pointed to before is gone.      *)
Reached(e, size, handles, k) ==
    [e EXCEPT !.size = size,
              !.native = @ \cup Acquired(handles, k),
              !.lost = @ \cup (e.native \cap Acquired(handles, k)),
              !.initialized = @ \/ k = Len(handles)]

(* A backend that keeps what it acquired before the failing call.          *)
Stepwise(e, size, handles) == {Reached(e, size, handles, k) : k \in 0..Len(handles)}

H264InitEncode(e, size) == Stepwise(e, size, <<"encoder">>)

SvtInitialize(e, size) == Stepwise(e, size, <<"handle", "running">>)

NvencInitialize(e, size) == Stepwise(e, size, <<"cuda", "session", "buffers">>)

(* A VABuffer is created and never given to vaDestroyBuffer.               *)
Undestroyed(e, buffers) == [e EXCEPT !.lost = @ \cup buffers]

(* The first buffer is refused, a later call fails, or all is submitted;   *)
(* no return destroys a buffer.                                            *)
SubmitSequenceParams(e) ==
    LET submitted == Undestroyed(e, {"parameters"})
    IN  {e, submitted, [submitted EXCEPT !.initialized = TRUE]}

VaapiInitialize(e, size) ==
    LET handles == <<"fd", "display", "config", "surfaces", "context">>
        open(k) == [Reached(e, size, handles, k) EXCEPT !.initialized = e.initialized]
    IN  {open(k) : k \in 0..4} \cup SubmitSequenceParams(open(5))

H264Release(e) ==
    [e EXCEPT !.native = {}, !.initialized = FALSE, !.callback = FALSE]

Vp9Release(e) ==
    [e EXCEPT !.native = {}, !.initialized = FALSE, !.callback = FALSE]

(* Mutant: a failing image allocation resets codec_ without destroying it. *)
Vp9InitEncodeForgets(e, size) ==
    LET opened == Reached(e, size, <<"codec", "image">>, 2)
        unopened == Reached(e, size, <<"codec", "image">>, 0)
    IN  {[unopened EXCEPT !.lost = @ \cup {"codec"}], opened, Vp9Release(opened)}

(* A failing image allocation destroys the codec; a failing control calls  *)
(* Release.                                                                *)
Vp9InitEncode(e, size) ==
    LET opened == Reached(e, size, <<"codec", "image">>, 2)
    IN  {Reached(e, size, <<"codec", "image">>, 0), opened, Vp9Release(opened)}

SvtDestroy(e) == [e EXCEPT !.native = {}]

(* Returns at once when no session was opened.                             *)
NvencDestroy(e) == IF "session" \in e.native THEN [e EXCEPT !.native = {}] ELSE e

(* The five fields; no VABuffer.                                           *)
VaapiDestroy(e) == [e EXCEPT !.native = {}]

InitEncode(e, size) ==
    CASE e.kind = "x264" -> H264InitEncode(e, size)
      [] e.kind = "vp9" -> Vp9InitEncode(e, size)
      [] e.kind = "svt" -> SvtInitialize(e, size)
      [] e.kind = "nvenc" -> NvencInitialize(e, size)
      [] e.kind = "vaapi" -> VaapiInitialize(e, size)

Cleared(e) == [e EXCEPT !.initialized = FALSE, !.callback = FALSE]

Release(e) ==
    CASE e.kind = "x264" -> H264Release(e)
      [] e.kind = "vp9" -> Vp9Release(e)
      [] e.kind = "svt" -> Cleared(SvtDestroy(e))
      [] e.kind = "nvenc" -> Cleared(NvencDestroy(e))
      [] e.kind = "vaapi" -> Cleared(VaapiDestroy(e))

(* The destructor releases; a handle still held then is lost.              *)
Destroyed(e) == [Release(e) EXCEPT !.lost = @ \cup Release(e).native]

RegisterEncodeCompleteCallback(e) == [e EXCEPT !.callback = TRUE]

-----------------------------------------------------------------------------
(* Encode                                                                  *)

(* Mutant: the callback is not saved across Release.                       *)
ResizedDropsCallback(e, size) ==
    IF e.size = size THEN {e} ELSE InitEncode(Release(e), size)

(* A frame of a new size: Release drops the callback, which is put back    *)
(* only when InitEncode succeeds.                                          *)
Resized(e, size) ==
    IF e.size = size THEN {e}
    ELSE {[r EXCEPT !.callback = r.initialized] : r \in InitEncode(Release(e), size)}

(* What came of a frame: nothing sent, an image sent, or the call through  *)
(* a null callback.                                                        *)
Nothing == "nothing"
Image == "image"
Null == "null"

Outcome(e, image, ok) == [enc |-> e, image |-> image, ok |-> ok]

(* The conversion or the backend fails, the backend keeps the frame, or it *)
(* gives an image for the callback, which may report an error.             *)
Deliver(e) ==
    {Outcome(e, Nothing, ok) : ok \in BOOLEAN}
        \cup {Outcome(e, IF e.callback THEN Image ELSE Null, ok) : ok \in BOOLEAN}

Guarded(e, ready) == IF ready THEN Deliver(e) ELSE {Outcome(e, Nothing, FALSE)}

(* Impl::Encode of each backend checks that it is open.                    *)
SvtImplEncode(e) == Guarded(e, "running" \in e.native)

NvencImplEncode(e) == Guarded(e, "session" \in e.native)

(* No image or no coded buffer; SubmitPictureAndSlice fails at its first   *)
(* or at a later call, or vaSyncSurface does, and the coded buffer stays;  *)
(* or the coded buffer is read and destroyed, the others are not.          *)
VaapiImplEncode(e) ==
    IF "display" \notin e.native THEN {Outcome(e, Nothing, FALSE)}
    ELSE {Outcome(e, Nothing, FALSE)}
            \cup {Outcome(Undestroyed(e, made), Nothing, FALSE)
                    : made \in {{"coded"}, {"coded", "parameters"}}}
            \cup Deliver(Undestroyed(e, {"parameters"}))

H264Encode(e, size) ==
    IF ~e.initialized \/ "encoder" \notin e.native \/ ~e.callback
    THEN {Outcome(e, Nothing, FALSE)}
    ELSE UNION {Guarded(r, r.initialized) : r \in Resized(e, size)}

Vp9Encode(e, size) ==
    IF ~e.initialized \/ ~e.callback \/ ~({"codec", "image"} \subseteq e.native)
    THEN {Outcome(e, Nothing, FALSE)}
    ELSE UNION {Guarded(r, r.initialized) : r \in Resized(e, size)}

SvtEncode(e, size) ==
    IF ~e.initialized \/ ~e.callback THEN {Outcome(e, Nothing, FALSE)}
    ELSE UNION {SvtImplEncode(r) : r \in Resized(e, size)}

NvencEncode(e, size) ==
    IF ~e.initialized \/ ~e.callback THEN {Outcome(e, Nothing, FALSE)}
    ELSE UNION {IF r.initialized THEN NvencImplEncode(r) ELSE {Outcome(r, Nothing, FALSE)}
                : r \in Resized(e, size)}

VaapiEncode(e, size) ==
    IF ~e.initialized \/ ~e.callback THEN {Outcome(e, Nothing, FALSE)}
    ELSE UNION {IF r.initialized THEN VaapiImplEncode(r) ELSE {Outcome(r, Nothing, FALSE)}
                : r \in Resized(e, size)}

Encode(e, size) ==
    CASE e.kind = "x264" -> H264Encode(e, size)
      [] e.kind = "vp9" -> Vp9Encode(e, size)
      [] e.kind = "svt" -> SvtEncode(e, size)
      [] e.kind = "nvenc" -> NvencEncode(e, size)
      [] e.kind = "vaapi" -> VaapiEncode(e, size)
=============================================================================
