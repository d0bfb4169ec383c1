----------------------------- MODULE MediaProofs -----------------------------
(***************************************************************************)
(* Proofs about the video path (Media) and its encoder (Encoder), for      *)
(* every size range, pool, set of targets and number of requests.          *)
(***************************************************************************)
EXTENDS Media, FiniteSetTheorems, TLAPS

(* What an encoder of this kind may still hold after Release: NVENC's      *)
(* destructor returns at once when no session was opened.                  *)
Kept(e) == IF e.kind = "nvenc" THEN {"cuda"} ELSE {}

EncodersOf(S) ==
    [kind : Kinds, size : S, initialized : BOOLEAN, callback : BOOLEAN,
     native : SUBSET Handles, lost : SUBSET Handles]

(* What every operation of the encoder keeps true of it.                   *)
Sound(e) ==
    /\ e.lost \subseteq Unfreed(e.kind)
    /\ e.kind = "nvenc" /\ "session" \notin e.native => e.native \subseteq {"cuda"}
    /\ e.kind = "svt" /\ "running" \in e.native => e.initialized

VaBuffers == {"parameters", "coded"}

Released(e) == ~e.initialized /\ e.native \subseteq Kept(e)

-----------------------------------------------------------------------------
(* The encoder                                                             *)

(* The fields of an encoder record after an update of some of them.        *)
LEMMA EncoderFields ==
    ASSUME NEW S, NEW e \in EncodersOf(S)
    PROVE  /\ e.kind \in Kinds /\ e.size \in S
           /\ e.initialized \in BOOLEAN /\ e.callback \in BOOLEAN
           /\ e.native \in SUBSET Handles /\ e.lost \in SUBSET Handles
BY DEF EncodersOf

(* Release leaves at most what the kind may keep, and no callback.         *)
LEMMA ReleaseSound ==
    ASSUME NEW S, NEW e \in EncodersOf(S), Sound(e)
    PROVE  /\ Release(e) \in EncodersOf(S)
           /\ Release(e).kind = e.kind /\ Release(e).lost = e.lost
           /\ Sound(Release(e)) /\ Released(Release(e)) /\ ~Release(e).callback
<1>1. CASE e.kind = "x264"
  <2>1. Release(e) = [e EXCEPT !.native = {}, !.initialized = FALSE, !.callback = FALSE]
    BY <1>1 DEF Release, H264Release
  <2> QED  BY <1>1, <2>1 DEF EncodersOf, Sound, Released, Kept
<1>2. CASE e.kind = "vp9"
  <2>1. Release(e) = [e EXCEPT !.native = {}, !.initialized = FALSE, !.callback = FALSE]
    BY <1>2 DEF Release, Vp9Release
  <2> QED  BY <1>2, <2>1 DEF EncodersOf, Sound, Released, Kept
<1>3. CASE e.kind \in {"svt", "vaapi"}
  <2>1. Release(e) = Cleared([e EXCEPT !.native = {}])
    BY <1>3 DEF Release, SvtDestroy, VaapiDestroy
  <2> QED  BY <1>3, <2>1 DEF Cleared, EncodersOf, Sound, Released, Kept
<1>4. CASE e.kind = "nvenc"
  <2>1. Release(e) = Cleared(NvencDestroy(e))
    BY <1>4 DEF Release
  <2>2. CASE "session" \in e.native
    BY <1>4, <2>1, <2>2 DEF NvencDestroy, Cleared, EncodersOf, Sound, Released, Kept
  <2>3. CASE "session" \notin e.native
    BY <1>4, <2>1, <2>3 DEF NvencDestroy, Cleared, EncodersOf, Sound, Released, Kept
  <2> QED  BY <2>2, <2>3
<1> QED  BY <1>1, <1>2, <1>3, <1>4, EncoderFields DEF Kinds, Backends

(* What Reached does to each field.                                        *)
LEMMA ReachedFields ==
    ASSUME NEW S, NEW e \in EncodersOf(S), NEW size \in S,
           NEW handles \in Seq(Handles), NEW k \in 0..Len(handles)
    PROVE  LET r == Reached(e, size, handles, k) IN
           /\ r \in EncodersOf(S)
           /\ r.kind = e.kind /\ r.callback = e.callback
           /\ r.native = e.native \cup Acquired(handles, k)
           /\ r.lost = e.lost \cup (e.native \cap Acquired(handles, k))
           /\ r.initialized <=> e.initialized \/ k = Len(handles)
<1> DEFINE A == Acquired(handles, k)
           full == e.initialized \/ k = Len(handles)
           r == Reached(e, size, handles, k)
           with(a, b, i) == [[[[e EXCEPT !.size = size] EXCEPT !.native = a] EXCEPT !.lost = b]
                                EXCEPT !.initialized = i]
<1>1. A \in SUBSET Handles
  BY DEF Acquired
<1>2. full \in BOOLEAN
  OBVIOUS
<1>3. r = with(e.native \cup A, e.lost \cup (e.native \cap A), full)
  BY DEF Reached, EncodersOf
<1>4. \A a \in SUBSET Handles, b \in SUBSET Handles, i \in BOOLEAN :
        /\ with(a, b, i) \in EncodersOf(S)
        /\ with(a, b, i).kind = e.kind /\ with(a, b, i).callback = e.callback
        /\ with(a, b, i).native = a /\ with(a, b, i).lost = b /\ with(a, b, i).initialized = i
  <2> TAKE a \in SUBSET Handles, b \in SUBSET Handles, i \in BOOLEAN
  <2>1. with(a, b, i) \in EncodersOf(S)
    BY DEF EncodersOf
  <2>2. /\ with(a, b, i).kind = e.kind /\ with(a, b, i).callback = e.callback
        /\ with(a, b, i).native = a /\ with(a, b, i).lost = b /\ with(a, b, i).initialized = i
    BY DEF EncodersOf
  <2> QED  BY <2>1, <2>2
<1>5. e.native \cup A \in SUBSET Handles /\ e.lost \cup (e.native \cap A) \in SUBSET Handles
  BY <1>1, EncoderFields
<1> HIDE DEF A, full, r, with
<1>6. /\ r \in EncodersOf(S)
      /\ r.kind = e.kind /\ r.callback = e.callback
      /\ r.native = e.native \cup A /\ r.lost = e.lost \cup (e.native \cap A)
      /\ r.initialized = full
  BY <1>2, <1>3, <1>4, <1>5
<1>7. (r.initialized = full) => (r.initialized <=> full)
  OBVIOUS
<1> QED  BY <1>6, <1>7 DEF A, full, r

(* A stepwise backend that starts from a released encoder loses at most    *)
(* what Release may keep.                                                  *)
LEMMA StepwiseSound ==
    ASSUME NEW S, NEW e \in EncodersOf(S), NEW size \in S,
           Sound(e), Released(e), NEW handles \in Seq(Handles),
           e.kind = "nvenc" => handles = <<"cuda", "session", "buffers">>,
           e.kind = "svt" => handles = <<"handle", "running">>,
           NEW r \in Stepwise(e, size, handles)
    PROVE  r \in EncodersOf(S) /\ r.kind = e.kind /\ Sound(r)
<1>1. PICK k \in 0..Len(handles) : r = Reached(e, size, handles, k)
  BY DEF Stepwise
<1>2. /\ r \in EncodersOf(S)
      /\ r.kind = e.kind /\ r.callback = e.callback
      /\ r.native = e.native \cup Acquired(handles, k)
      /\ r.lost = e.lost \cup (e.native \cap Acquired(handles, k))
      /\ r.initialized <=> e.initialized \/ k = Len(handles)
  BY <1>1, ReachedFields
<1>3. Kept(e) \subseteq Unfreed(r.kind)
  BY <1>2 DEF Kept, Unfreed
<1>4. r.lost \subseteq Unfreed(r.kind)
  BY <1>2, <1>3 DEF Sound, Released
<1>5. ASSUME r.kind = "nvenc", "session" \notin r.native
      PROVE  r.native \subseteq {"cuda"}
  <2>1. handles = <<"cuda", "session", "buffers">>
    BY <1>2, <1>5
  <2>2. k < 2
    <3>1. handles[2] = "session" /\ Len(handles) = 3
      BY <2>1
    <3>2. ASSUME k >= 2 PROVE "session" \in Acquired(handles, k)
      BY <3>1, <3>2 DEF Acquired
    <3> QED  BY <3>2, <1>2, <1>5
  <2>3. Acquired(handles, k) \subseteq {"cuda"}
    <3>1. handles[1] = "cuda"
      BY <2>1
    <3> QED  BY <2>2, <3>1 DEF Acquired
  <2> QED  BY <1>2, <1>5, <2>3 DEF Released, Kept
<1>6. ASSUME r.kind = "svt", "running" \in r.native
      PROVE  r.initialized
  <2>1. handles = <<"handle", "running">>
    BY <1>2, <1>6
  <2>2. Len(handles) = 2 /\ handles[1] = "handle"
    BY <2>1
  <2>3. "running" \in Acquired(handles, k)
    BY <1>2, <1>6 DEF Released, Kept
  <2>4. k # 0 /\ k # 1
    BY <2>2, <2>3 DEF Acquired
  <2> QED  BY <1>2, <2>2, <2>4
<1> QED  BY <1>2, <1>4, <1>5, <1>6 DEF Sound

(* Short sequences of handles.                                             *)
LEMMA HandleSequences ==
    /\ <<"encoder">> \in Seq(Handles) /\ <<"handle", "running">> \in Seq(Handles)
    /\ <<"codec", "image">> \in Seq(Handles)
    /\ <<"cuda", "session", "buffers">> \in Seq(Handles)
    /\ <<"fd", "display", "config", "surfaces", "context">> \in Seq(Handles)
<1>1. \A T : \A a \in T : <<a>> \in Seq(T)
  OBVIOUS
<1>2. \A T : \A a, b \in T : <<a, b>> \in Seq(T)
  OBVIOUS
<1>3. \A T : \A a, b, c \in T : <<a, b, c>> \in Seq(T)
  OBVIOUS
<1>4. \A T : \A a, b, c, d, e \in T : <<a, b, c, d, e>> \in Seq(T)
  OBVIOUS
<1>5. <<"encoder">> \in Seq(Handles)
  BY <1>1 DEF Handles
<1>6. <<"handle", "running">> \in Seq(Handles) /\ <<"codec", "image">> \in Seq(Handles)
  BY <1>2 DEF Handles
<1>7. <<"cuda", "session", "buffers">> \in Seq(Handles)
  BY <1>3 DEF Handles
<1>8. <<"fd", "display", "config", "surfaces", "context">> \in Seq(Handles)
  BY <1>4 DEF Handles
<1> QED  BY <1>5, <1>6, <1>7, <1>8

(* VA-API's buffers may be left undestroyed.                               *)
LEMMA UndestroyedSound ==
    ASSUME NEW S, NEW e \in EncodersOf(S), Sound(e), e.kind = "vaapi",
           NEW made \in SUBSET VaBuffers
    PROVE  LET u == Undestroyed(e, made) IN
           /\ u \in EncodersOf(S) /\ u.kind = "vaapi" /\ Sound(u)
           /\ u.initialized = e.initialized /\ u.callback = e.callback
<1> DEFINE u == Undestroyed(e, made)
<1>1. made \in SUBSET Handles /\ made \subseteq Unfreed("vaapi")
  BY DEF VaBuffers, Handles, Unfreed
<1>2. \A b \in SUBSET Handles :
        /\ [e EXCEPT !.lost = b] \in EncodersOf(S) /\ [e EXCEPT !.lost = b].kind = "vaapi"
        /\ [e EXCEPT !.lost = b].lost = b
        /\ [e EXCEPT !.lost = b].initialized = e.initialized
        /\ [e EXCEPT !.lost = b].callback = e.callback
  BY DEF EncodersOf
<1>3. e.lost \cup made \in SUBSET Handles
  BY <1>1, EncoderFields
<1>4. u = [e EXCEPT !.lost = e.lost \cup made]
  BY DEF Undestroyed
<1> HIDE DEF u
<1>5. /\ u \in EncodersOf(S) /\ u.kind = "vaapi" /\ u.lost = e.lost \cup made
      /\ u.initialized = e.initialized /\ u.callback = e.callback
  BY <1>2, <1>3, <1>4
<1>6. Sound(u)
  BY <1>1, <1>5 DEF Sound
<1> QED  BY <1>5, <1>6 DEF u

(* InitEncode of any kind, called on a released encoder, keeps it sound,   *)
(* however far the backend gets.                                           *)
LEMMA InitEncodeSound ==
    ASSUME NEW S, NEW e \in EncodersOf(S), NEW size \in S, Sound(e), Released(e),
           NEW r \in InitEncode(e, size)
    PROVE  r \in EncodersOf(S) /\ r.kind = e.kind /\ Sound(r)
<1>1. CASE e.kind = "x264"
  <2>1. r \in Stepwise(e, size, <<"encoder">>)
    BY <1>1 DEF InitEncode, H264InitEncode
  <2>2. <<"encoder">> \in Seq(Handles)
    BY HandleSequences
  <2> QED  BY <1>1, <2>1, <2>2, StepwiseSound
<1>2. CASE e.kind = "svt"
  <2>1. r \in Stepwise(e, size, <<"handle", "running">>)
    BY <1>2 DEF InitEncode, SvtInitialize
  <2>2. <<"handle", "running">> \in Seq(Handles)
    BY HandleSequences
  <2> QED  BY <1>2, <2>1, <2>2, StepwiseSound
<1>3. CASE e.kind = "nvenc"
  <2>1. r \in Stepwise(e, size, <<"cuda", "session", "buffers">>)
    BY <1>3 DEF InitEncode, NvencInitialize
  <2>2. <<"cuda", "session", "buffers">> \in Seq(Handles)
    BY HandleSequences
  <2> QED  BY <1>3, <2>1, <2>2, StepwiseSound
<1>4. CASE e.kind = "vaapi"
  <2> DEFINE handles == <<"fd", "display", "config", "surfaces", "context">>
             at(k) == Reached(e, size, handles, k)
             open(k) == [at(k) EXCEPT !.initialized = e.initialized]
  <2>1. (\E k \in 0..5 : r = open(k)) \/ r \in SubmitSequenceParams(open(5))
    BY <1>4 DEF InitEncode, VaapiInitialize, SubmitSequenceParams
  <2>2. handles \in Seq(Handles) /\ Len(handles) = 5
    BY HandleSequences
  <2> HIDE DEF handles
  <2>3. \A k \in 0..5 : at(k) \in EncodersOf(S) /\ at(k).kind = e.kind /\ Sound(at(k))
    <3> TAKE k \in 0..5
    <3>1. at(k) \in Stepwise(e, size, handles)
      BY <2>2 DEF Stepwise
    <3> QED  BY <1>4, <2>2, <3>1, StepwiseSound
  <2> HIDE DEF at
  <2>4. \A k \in 0..5 : open(k) \in EncodersOf(S) /\ open(k).kind = e.kind /\ Sound(open(k))
    BY <1>4, <2>3 DEF EncodersOf, Sound
  <2> HIDE DEF open
  <2> DEFINE q == open(5)
  <2>5. q \in EncodersOf(S) /\ q.kind = "vaapi" /\ Sound(q)
    BY <1>4, <2>4
  <2> HIDE DEF q
  <2>6. ASSUME r \in SubmitSequenceParams(q)
        PROVE  r \in EncodersOf(S) /\ r.kind = "vaapi" /\ Sound(r)
    <3> DEFINE u == Undestroyed(q, {"parameters"})
    <3>1. {"parameters"} \in SUBSET VaBuffers
      BY DEF VaBuffers
    <3>2. u \in EncodersOf(S) /\ u.kind = "vaapi" /\ Sound(u)
      BY <2>5, <3>1, UndestroyedSound
    <3> HIDE DEF u
    <3>3. /\ [u EXCEPT !.initialized = TRUE] \in EncodersOf(S)
          /\ [u EXCEPT !.initialized = TRUE].kind = "vaapi"
          /\ [u EXCEPT !.initialized = TRUE].lost = u.lost
      BY <3>2 DEF EncodersOf
    <3>4. Sound([u EXCEPT !.initialized = TRUE])
      BY <3>2, <3>3 DEF Sound
    <3> QED  BY <2>5, <2>6, <3>2, <3>3, <3>4 DEF SubmitSequenceParams, u
  <2> QED  BY <1>4, <2>1, <2>4, <2>6 DEF q
<1>5. CASE e.kind = "vp9"
  <2> DEFINE handles == <<"codec", "image">>
             opened == Reached(e, size, handles, 2)
             closed == Reached(e, size, handles, 0)
  <2>1. r \in {closed, opened, Vp9Release(opened)}
    BY <1>5 DEF InitEncode, Vp9InitEncode
  <2>2. handles \in Seq(Handles) /\ 2 \in 0..Len(handles) /\ 0 \in 0..Len(handles)
    BY HandleSequences
  <2> HIDE DEF handles
  <2>3. opened \in Stepwise(e, size, handles) /\ closed \in Stepwise(e, size, handles)
    BY <2>2 DEF Stepwise
  <2>4. /\ opened \in EncodersOf(S) /\ opened.kind = e.kind /\ Sound(opened)
        /\ closed \in EncodersOf(S) /\ closed.kind = e.kind /\ Sound(closed)
    BY <1>5, <2>2, <2>3, StepwiseSound
  <2> HIDE DEF opened, closed
  <2>5. Vp9Release(opened) = Release(opened)
    BY <1>5, <2>4 DEF Release
  <2>6. /\ Vp9Release(opened) \in EncodersOf(S)
        /\ Vp9Release(opened).kind = e.kind /\ Sound(Vp9Release(opened))
    BY <2>4, <2>5, ReleaseSound
  <2> QED  BY <2>1, <2>4, <2>6
<1> QED  BY <1>1, <1>2, <1>3, <1>4, <1>5, EncoderFields DEF Kinds, Backends

(* A frame of a new size leaves the encoder sound, and with its callback   *)
(* exactly when it is initialised again.                                   *)
LEMMA ResizedSound ==
    ASSUME NEW S, NEW e \in EncodersOf(S), NEW size \in S, Sound(e),
           e.initialized, e.callback, NEW r \in Resized(e, size)
    PROVE  /\ r \in EncodersOf(S) /\ r.kind = e.kind /\ Sound(r)
           /\ r.initialized => r.callback
<1>1. CASE e.size = size
  BY <1>1 DEF Resized
<1>2. CASE e.size # size
  <2>1. PICK q \in InitEncode(Release(e), size) : r = [q EXCEPT !.callback = q.initialized]
    BY <1>2 DEF Resized
  <2>2. /\ Release(e) \in EncodersOf(S) /\ Release(e).kind = e.kind
        /\ Sound(Release(e)) /\ Released(Release(e))
    BY ReleaseSound
  <2>3. q \in EncodersOf(S) /\ q.kind = e.kind /\ Sound(q)
    BY <2>2, InitEncodeSound
  <2>4. \A c \in BOOLEAN :
          /\ [q EXCEPT !.callback = c] \in EncodersOf(S)
          /\ [q EXCEPT !.callback = c].kind = q.kind
          /\ [q EXCEPT !.callback = c].initialized = q.initialized
          /\ [q EXCEPT !.callback = c].callback = c
          /\ [q EXCEPT !.callback = c].native = q.native
          /\ [q EXCEPT !.callback = c].lost = q.lost
    BY <2>3 DEF EncodersOf
  <2>5. q.initialized \in BOOLEAN
    BY <2>3, EncoderFields
  <2>6. /\ r \in EncodersOf(S) /\ r.kind = q.kind /\ r.initialized = q.initialized
        /\ r.callback = q.initialized /\ r.native = q.native /\ r.lost = q.lost
    BY <2>1, <2>4, <2>5
  <2>7. Sound(r)
    BY <2>3, <2>6 DEF Sound, Kept
  <2> QED  BY <2>3, <2>6, <2>7
<1> QED  BY <1>1, <1>2

(* With a callback no image goes through a null one.                       *)
LEMMA DeliverSound ==
    ASSUME NEW e, e.callback, NEW out \in Deliver(e)
    PROVE  out.enc = e /\ out.image # Null
BY DEF Deliver, Outcome, Null, Nothing, Image

(* Encode keeps an encoder sound, keeps its callback as long as it stays   *)
(* initialised, and never calls through a null callback.                   *)
LEMMA EncodeSound ==
    ASSUME NEW S, NEW e \in EncodersOf(S), NEW size \in S, Sound(e),
           e.initialized => e.callback, NEW out \in Encode(e, size)
    PROVE  /\ out.enc \in EncodersOf(S) /\ Sound(out.enc)
           /\ out.enc.initialized => out.enc.callback
           /\ out.image # Null
<1> DEFINE Refused == Outcome(e, Nothing, FALSE)
           Fine(o) == /\ o.enc \in EncodersOf(S) /\ Sound(o.enc)
                      /\ o.enc.initialized => o.enc.callback
                      /\ o.image # Null
<1> SUFFICES Fine(out)
  OBVIOUS
<1>1. Fine(Refused)
  BY DEF Outcome, Nothing, Null
<1>2. ASSUME e.initialized, e.callback, NEW r \in Resized(e, size), r.initialized,
             NEW o \in Deliver(r)
      PROVE  Fine(o)
  <2>1. /\ r \in EncodersOf(S) /\ r.kind = e.kind /\ Sound(r)
        /\ r.initialized => r.callback
    BY <1>2, ResizedSound
  <2>2. o.enc = r /\ o.image # Null
    BY <1>2, <2>1, DeliverSound
  <2> QED  BY <2>1, <2>2
<1>3. ASSUME e.initialized, e.callback, NEW r \in Resized(e, size)
      PROVE  Fine(Outcome(r, Nothing, FALSE))
  <2>1. /\ r \in EncodersOf(S) /\ Sound(r)
        /\ r.initialized => r.callback
    BY <1>3, ResizedSound
  <2> QED  BY <2>1 DEF Outcome, Nothing, Null
<1>4. ASSUME e.initialized, e.callback, NEW r \in Resized(e, size)
      PROVE  r.initialized \in BOOLEAN /\ r.kind = e.kind /\ Sound(r)
  BY <1>4, ResizedSound, EncoderFields
<1> HIDE DEF Refused, Fine
<1>5. CASE e.kind \in {"x264", "vp9"}
  <2>1. CASE out = Refused
    BY <1>1, <2>1
  <2>2. CASE out # Refused
    <3>1. /\ e.initialized /\ e.callback
          /\ \E r \in Resized(e, size) : out \in Guarded(r, r.initialized)
      BY <1>5, <2>2 DEF Encode, H264Encode, Vp9Encode, Refused
    <3>2. PICK r \in Resized(e, size) : out \in Guarded(r, r.initialized)
      BY <3>1
    <3>3. \/ r.initialized /\ out \in Deliver(r)
          \/ out = Outcome(r, Nothing, FALSE)
      BY <3>2 DEF Guarded
    <3> QED  BY <1>2, <1>3, <3>1, <3>3
  <2> QED  BY <2>1, <2>2
<1>6. CASE e.kind = "svt"
  <2>1. CASE out = Refused
    BY <1>1, <2>1
  <2>2. CASE out # Refused
    <3>1. /\ e.initialized /\ e.callback
          /\ \E r \in Resized(e, size) : out \in SvtImplEncode(r)
      BY <1>6, <2>2 DEF Encode, SvtEncode, Refused
    <3>2. PICK r \in Resized(e, size) : out \in SvtImplEncode(r)
      BY <3>1
    <3>3. "running" \in r.native => r.initialized
      BY <1>4, <1>6, <3>1 DEF Sound
    <3>4. \/ r.initialized /\ out \in Deliver(r)
          \/ out = Outcome(r, Nothing, FALSE)
      BY <3>2, <3>3 DEF Guarded, SvtImplEncode
    <3> QED  BY <1>2, <1>3, <3>1, <3>4
  <2> QED  BY <2>1, <2>2
<1>7. CASE e.kind = "nvenc"
  <2>1. CASE out = Refused
    BY <1>1, <2>1
  <2>2. CASE out # Refused
    <3>1. /\ e.initialized /\ e.callback
          /\ \E r \in Resized(e, size) :
               \/ out = Outcome(r, Nothing, FALSE)
               \/ r.initialized /\ out \in NvencImplEncode(r)
      BY <1>7, <2>2 DEF Encode, NvencEncode, Refused
    <3>2. PICK r \in Resized(e, size) :
            \/ out = Outcome(r, Nothing, FALSE)
            \/ r.initialized /\ out \in NvencImplEncode(r)
      BY <3>1
    <3>3. \/ r.initialized /\ out \in Deliver(r)
          \/ out = Outcome(r, Nothing, FALSE)
      BY <3>2 DEF Guarded, NvencImplEncode
    <3> QED  BY <1>2, <1>3, <3>1, <3>3
  <2> QED  BY <2>1, <2>2
<1>8. CASE e.kind = "vaapi"
  <2>1. CASE out = Refused
    BY <1>1, <2>1
  <2>2. CASE out # Refused
    <3>1. /\ e.initialized /\ e.callback
          /\ \E r \in Resized(e, size) :
               \/ out = Outcome(r, Nothing, FALSE)
               \/ r.initialized /\ out \in VaapiImplEncode(r)
      BY <1>8, <2>2 DEF Encode, VaapiEncode, Refused
    <3>2. PICK r \in Resized(e, size) :
            \/ out = Outcome(r, Nothing, FALSE)
            \/ r.initialized /\ out \in VaapiImplEncode(r)
      BY <3>1
    <3>3. CASE out = Outcome(r, Nothing, FALSE)
      BY <1>3, <3>1, <3>3
    <3>4. CASE r.initialized /\ out \in VaapiImplEncode(r) /\ out # Outcome(r, Nothing, FALSE)
      <4>1. PICK made \in SUBSET VaBuffers :
              LET u == Undestroyed(r, made)
              IN  out = Outcome(u, Nothing, FALSE) \/ out \in Deliver(u)
        BY <3>4 DEF VaapiImplEncode, VaBuffers
      <4> DEFINE u == Undestroyed(r, made)
      <4>2. /\ r \in EncodersOf(S) /\ r.kind = "vaapi" /\ Sound(r) /\ r.callback
        BY <1>8, <3>1, <3>4, ResizedSound
      <4>3. u \in EncodersOf(S) /\ Sound(u) /\ u.callback
        BY <4>2, UndestroyedSound
      <4> HIDE DEF u
      <4>4. CASE out = Outcome(u, Nothing, FALSE)
        BY <4>3, <4>4 DEF Outcome, Nothing, Null, Fine
      <4>5. CASE out \in Deliver(u)
        <5>1. out.enc = u /\ out.image # Null
          BY <4>3, <4>5, DeliverSound
        <5> QED  BY <4>3, <5>1 DEF Fine
      <4> QED  BY <4>1, <4>4, <4>5 DEF u
    <3> QED  BY <3>2, <3>3, <3>4
  <2> QED  BY <2>1, <2>2
<1> QED  BY <1>5, <1>6, <1>7, <1>8, EncoderFields DEF Kinds, Backends

-----------------------------------------------------------------------------
(* Sizes                                                                   *)

(* A viewport size times a scale is a pixel size, and aligning a pixel     *)
(* size changes nothing.                                                   *)
LEMMA SizeFacts ==
    /\ Boot \in Dims /\ Boot \in Sizes
    /\ \A s \in Dims, c \in 1..MaxScale : s * c \in Sizes
    /\ \A s \in Sizes : s \in Nat /\ s >= 2 /\ EvenAlignDown(s) = s
<1>1. \A s \in Nat, c \in Nat \ {0} : s * c \in Nat /\ s <= s * c
  <2> TAKE s \in Nat, c \in Nat \ {0}
  <2>1. c - 1 \in Nat /\ s * c = s * (c - 1) + s
    OBVIOUS
  <2>2. s * (c - 1) \in Nat
    BY <2>1
  <2> QED  BY <2>1, <2>2
<1>2. \A s, t, c, d \in Nat : s <= t /\ c <= d => s * c <= t * d
  <2> TAKE s, t, c, d \in Nat
  <2> HAVE s <= t /\ c <= d
  <2>1. t - s \in Nat /\ d - c \in Nat
    OBVIOUS
  <2>2. t * d = s * c + s * (d - c) + (t - s) * d
    OBVIOUS
  <2>3. \A a, b \in Nat : a * b \in Nat
    OBVIOUS
  <2>4. s * (d - c) \in Nat /\ (t - s) * d \in Nat /\ s * c \in Nat
    BY <2>1, <2>3
  <2> QED  BY <2>2, <2>4
<1>3. \A s, c \in Nat : s % 2 = 0 => (s * c) % 2 = 0
  <2> TAKE s, c \in Nat
  <2> HAVE s % 2 = 0
  <2>1. PICK k \in Nat : s = 2 * k
    <3>1. s = 2 * (s \div 2) /\ s \div 2 \in Nat
      OBVIOUS
    <3> QED  BY <3>1
  <2>2. k * c \in Nat /\ s * c = 2 * (k * c)
    BY <2>1
  <2>3. \A n \in Nat : (2 * n) % 2 = 0
    OBVIOUS
  <2> QED  BY <2>2, <2>3
<1>4. MaxDim <= MaxDim * MaxScale /\ MaxDim * MaxScale \in Nat
  BY <1>1, MediaAssumption
<1>5. Boot \in Dims /\ Boot \in Sizes
  BY <1>4, MediaAssumption DEF Dims, Sizes
<1>6. ASSUME NEW s \in Dims, NEW c \in 1..MaxScale
      PROVE  s * c \in Sizes
  <2>1. s \in Nat /\ MinDim <= s /\ s <= MaxDim /\ s % 2 = 0
    BY MediaAssumption DEF Dims
  <2>2. c \in Nat \ {0} /\ c <= MaxScale
    BY MediaAssumption
  <2>3. s * c \in Nat /\ s <= s * c /\ s * c <= MaxDim * MaxScale /\ (s * c) % 2 = 0
    BY <1>1, <1>2, <1>3, <2>1, <2>2, MediaAssumption
  <2> QED  BY <1>4, <2>1, <2>3, MediaAssumption DEF Sizes
<1>7. ASSUME NEW s \in Sizes
      PROVE  s \in Nat /\ s >= 2 /\ EvenAlignDown(s) = s
  BY <1>4, MediaAssumption DEF Sizes, EvenAlignDown
<1> QED  BY <1>5, <1>6, <1>7

(* Clamp gives a viewport within the limits, whatever was asked for.       *)
LEMMA ClampTyped ==
    ASSUME NEW size \in Nat, NEW scale \in Nat
    PROVE  Clamp([size |-> size, scale |-> scale]) \in [size : Dims, scale : 1..MaxScale]
<1>1. Between(size, MinDim, MaxDim) \in MinDim..MaxDim
  BY MediaAssumption DEF Between
<1>2. Between(scale, 1, MaxScale) \in 1..MaxScale
  BY MediaAssumption DEF Between
<1>3. \A v \in MinDim..MaxDim : EvenAlignDown(v) \in Dims
  <2> TAKE v \in MinDim..MaxDim
  <2>1. v \in Nat /\ MinDim <= v /\ v <= MaxDim
    BY MediaAssumption
  <2>2. CASE v % 2 = 0
    BY <2>1, <2>2, MediaAssumption DEF EvenAlignDown, Dims
  <2>3. CASE v % 2 = 1
    <3>1. MinDim # v
      BY <2>3, MediaAssumption
    <3>2. v - 1 \in MinDim..MaxDim /\ (v - 1) % 2 = 0
      BY <2>1, <2>3, <3>1, MediaAssumption
    <3> QED  BY <2>3, <3>2 DEF EvenAlignDown, Dims
  <2> QED  BY <2>1, <2>2, <2>3
<1> QED  BY <1>1, <1>2, <1>3 DEF Clamp

-----------------------------------------------------------------------------
(* The frames in the pipe                                                  *)

Live(p) == {i \in DOMAIN p : p[i] # Stopped}

(* They can be counted.                                                    *)
LEMMA LiveFinite ==
    ASSUME NEW T, NEW p \in Seq(T)
    PROVE  IsFiniteSet(Live(p)) /\ Cardinality(Live(p)) \in Nat
<1>1. IsFiniteSet(1..Len(p))
  BY FS_Interval
<1>2. Live(p) \subseteq 1..Len(p)
  BY DEF Live
<1>3. IsFiniteSet(Live(p))
  BY <1>1, <1>2, FS_Subset
<1> QED  BY <1>3, FS_CardinalityType

(* An empty pipe has none.                                                 *)
LEMMA LiveEmpty == Cardinality(Live(<<>>)) = 0
<1>1. Live(<<>>) = {}
  BY DEF Live
<1> QED  BY <1>1, FS_EmptySet

(* A message added to the pipe counts when it is a frame.                  *)
LEMMA LiveAppend ==
    ASSUME NEW T, NEW p \in Seq(T), NEW m \in T
    PROVE  Cardinality(Live(Append(p, m)))
             = Cardinality(Live(p)) + (IF m = Stopped THEN 0 ELSE 1)
<1>1. CASE m = Stopped
  <2>1. Live(Append(p, m)) = Live(p)
    BY <1>1 DEF Live
  <2> QED  BY <1>1, <2>1, LiveFinite
<1>2. CASE m # Stopped
  <2>1. Live(Append(p, m)) = Live(p) \cup {Len(p) + 1}
    BY <1>2 DEF Live
  <2>2. Len(p) + 1 \notin Live(p)
    BY DEF Live
  <2> QED  BY <1>2, <2>1, <2>2, LiveFinite, FS_AddElement
<1> QED  BY <1>1, <1>2

(* A message taken from the pipe counted when it was a frame.              *)
LEMMA LiveTail ==
    ASSUME NEW T, NEW p \in Seq(T), p # <<>>
    PROVE  Cardinality(Live(p))
             = Cardinality(Live(Tail(p))) + (IF Head(p) = Stopped THEN 0 ELSE 1)
<1> DEFINE Rest == Live(p) \ {1}
           shift == [i \in Live(Tail(p)) |-> i + 1]
<1>1. Tail(p) \in Seq(T) /\ Len(Tail(p)) = Len(p) - 1 /\ Head(p) = p[1] /\ Len(p) \in Nat \ {0}
      /\ \A i \in 1..Len(Tail(p)) : Tail(p)[i] = p[i + 1]
  OBVIOUS
<1>2. shift \in Bijection(Live(Tail(p)), Rest)
  <2>1. \A i \in Live(Tail(p)) : i \in Nat /\ i + 1 \in Rest
    BY <1>1 DEF Live
  <2>2. \A j \in Rest : j - 1 \in Live(Tail(p)) /\ j \in Nat /\ j = (j - 1) + 1
    BY <1>1 DEF Live
  <2>3. shift \in [Live(Tail(p)) -> Rest]
    BY <2>1
  <2>4. \A a, b \in Live(Tail(p)) : shift[a] = shift[b] => a = b
    BY <2>1
  <2>5. \A j \in Rest : \E i \in Live(Tail(p)) : shift[i] = j
    BY <2>2
  <2> QED  BY <2>3, <2>4, <2>5 DEF Bijection, Injection, Surjection, IsInjective
<1>3. ExistsBijection(Live(Tail(p)), Rest)
  BY <1>2 DEF ExistsBijection
<1>4. Cardinality(Rest) = Cardinality(Live(Tail(p)))
  BY <1>1, <1>3, LiveFinite, FS_Bijection
<1>5. CASE Head(p) = Stopped
  <2>1. Rest = Live(p)
    BY <1>1, <1>5 DEF Live
  <2>2. Cardinality(Live(Tail(p))) \in Nat
    BY <1>1, LiveFinite
  <2>3. Cardinality(Live(p)) = Cardinality(Live(Tail(p)))
    BY <1>4, <2>1
  <2> QED  BY <1>5, <2>2, <2>3
<1>6. CASE Head(p) # Stopped
  <2>1. 1 \in Live(p)
    BY <1>1, <1>6 DEF Live
  <2>2. IsFiniteSet(Live(p))
    BY LiveFinite
  <2>3. Cardinality(Rest) = Cardinality(Live(p)) - 1
    BY <2>1, <2>2, FS_RemoveElement
  <2> QED  BY <1>4, <1>6, <2>3, LiveFinite
<1> QED  BY <1>5, <1>6

-----------------------------------------------------------------------------
(* The inductive invariant                                                 *)

Layers ==
    /\ current \in [size : Dims, scale : 1..MaxScale]
    /\ screen \in Sizes /\ host \in Sizes /\ resolution \in Sizes
    /\ constraints \in Sizes \cup {0}

Flags ==
    /\ started \in BOOLEAN /\ idle_refresh_timer \in BOOLEAN /\ running \in BOOLEAN
    /\ refresh \in BOOLEAN /\ registered \in BOOLEAN /\ fresh \in BOOLEAN
    /\ key \in {NoKey, Posted, Asked} /\ changes \in 0..MaxChanges

(* A running viz is pinned to a size and pointed at a target.              *)
Pinned == running => constraints \in Sizes /\ target \in Targets

(* OnStopped is the last message of its session: once it is in the pipe    *)
(* viz does not run until the pipe is replaced.                            *)
LastWord == \A i \in DOMAIN pipe : pipe[i] = Stopped => ~running

PipeTyped == target \in Targets \cup {NoTarget} /\ pipe \in Seq(Frames \cup {Stopped})

Buffers == free \in Nat /\ posted \in Nat /\ queue \in Seq(Sizes) /\ PoolConserved

(* The encoder is sound; it has a callback while it is initialised, and    *)
(* holds nothing it could lose while libwebrtc is not registered with it.  *)
EncoderInv ==
    /\ enc \in EncodersOf(Sizes \cup {0}) /\ Sound(enc)
    /\ enc.initialized => enc.callback
    /\ ~registered => Released(enc)
    /\ crashed = FALSE

Inv ==
    /\ Layers /\ Flags /\ SizesAgree
    /\ PipeTyped /\ Pinned /\ LastWord /\ KnowsItRuns
    /\ Buffers /\ EncoderInv

(* The invariant gives the properties.                                     *)
LEMMA InvGives ==
    ASSUME Inv
    PROVE  TypeOK /\ SizesAgree /\ KnowsItRuns /\ SurvivesResize /\ NothingLost
<1>1. TypeOK
  BY DEF Inv, TypeOK, Layers, Flags, PipeTyped, Buffers, EncoderInv, EncodersOf
<1>2. SurvivesResize
  BY DEF Inv, EncoderInv, SurvivesResize
<1>3. NothingLost
  <2>1. enc \in EncodersOf(Sizes \cup {0}) /\ Sound(enc)
    BY DEF Inv, EncoderInv
  <2>2. /\ Release(enc) \in EncodersOf(Sizes \cup {0})
        /\ Release(enc).lost \subseteq Unfreed(enc.kind)
        /\ Release(enc).native \subseteq Kept(enc)
    BY <2>1, ReleaseSound DEF Sound, Released, Kept
  <2>3. Destroyed(enc).lost = Release(enc).lost \cup Release(enc).native
    BY <2>2 DEF Destroyed, EncodersOf
  <2>4. Kept(enc) \subseteq Unfreed(enc.kind)
    BY DEF Kept, Unfreed
  <2> QED  BY <2>2, <2>3, <2>4 DEF NothingLost
<1> QED  BY <1>1, <1>2, <1>3 DEF Inv

(* Initially the layers agree on the boot size, every buffer is free and   *)
(* the factory's encoder is new.                                           *)
LEMMA InitInv == Init => Inv
<1> SUFFICES ASSUME Init PROVE Inv
  OBVIOUS
<1>1. Layers /\ SizesAgree
  BY SizeFacts, MediaAssumption DEF Init, Layers, SizesAgree, Sizes
<1>2. Flags
  <2>1. /\ started = FALSE /\ idle_refresh_timer = FALSE /\ running = FALSE /\ refresh = FALSE
        /\ registered = FALSE /\ fresh = FALSE /\ key = NoKey
    BY DEF Init
  <2>2. changes \in 0..MaxChanges
    BY MediaAssumption DEF Init
  <2> QED  BY <2>1, <2>2, Zenon DEF Flags
<1>3. PipeTyped /\ Pinned /\ LastWord /\ KnowsItRuns
  <2>1. pipe = <<>> /\ started = FALSE /\ running = FALSE /\ target = NoTarget
    BY DEF Init
  <2>2. PipeTyped
    BY <2>1 DEF PipeTyped
  <2>3. Pinned /\ KnowsItRuns
    BY <2>1, Zenon DEF Pinned, KnowsItRuns
  <2>4. LastWord
    BY <2>1 DEF LastWord
  <2> QED  BY <2>2, <2>3, <2>4
<1>4. Buffers
  BY LiveEmpty, MediaAssumption DEF Init, Buffers, PoolConserved, InPipe, Live
<1>5. EncoderInv
  <2>1. PICK kind : kind \in Kinds /\ enc = New(kind)
    BY DEF Init, Create, Kinds, Backends, Formats, NoEncoder
  <2> QED  BY <2>1 DEF Init, EncoderInv, New, EncodersOf, Sound, Released, Kept
<1> QED  BY <1>1, <1>2, <1>3, <1>4, <1>5 DEF Inv

-----------------------------------------------------------------------------
(* One step at a time.  Each part of the invariant depends on few of the   *)
(* variables and survives a step that leaves those alone.                  *)

(* The agreement of the layers.                                            *)
LEMMA LayersKept ==
    ASSUME Layers, SizesAgree,
           UNCHANGED <<current, screen, host, resolution, constraints, started>>
    PROVE  Layers' /\ SizesAgree'
BY DEF Layers, SizesAgree

(* The messages in the pipe and what they say of viz.                      *)
LEMMA PipeKept ==
    ASSUME PipeTyped, Pinned, LastWord, KnowsItRuns,
           UNCHANGED <<constraints, target, running, pipe, started>>
    PROVE  PipeTyped' /\ Pinned' /\ LastWord' /\ KnowsItRuns'
BY DEF PipeTyped, Pinned, LastWord, KnowsItRuns

(* The count of buffers.                                                   *)
LEMMA BuffersKept ==
    ASSUME Buffers, UNCHANGED <<free, posted, queue, pipe>>
    PROVE  Buffers'
BY DEF Buffers, PoolConserved, InPipe

(* The encoder.                                                            *)
LEMMA EncoderKept ==
    ASSUME EncoderInv, UNCHANGED <<enc, crashed, registered>>
    PROVE  EncoderInv'
BY DEF EncoderInv

(* The buffers counted from the values after the step.                     *)
LEMMA BuffersNext ==
    ASSUME free' \in Nat, posted' \in Nat, queue' \in Seq(Sizes),
           free' + Cardinality(Live(pipe')) + Len(queue') + posted' = Pool
    PROVE  Buffers'
BY DEF Buffers, PoolConserved, InPipe, Live

(* The count before the step, in the same terms.                           *)
LEMMA BuffersNow ==
    ASSUME Buffers, PipeTyped
    PROVE  /\ free \in Nat /\ posted \in Nat /\ queue \in Seq(Sizes) /\ Len(queue) \in Nat
           /\ pipe \in Seq(Frames \cup {Stopped}) /\ Cardinality(Live(pipe)) \in Nat
           /\ free + Cardinality(Live(pipe)) + Len(queue) + posted = Pool
           /\ InPipe = Cardinality(Live(pipe))
<1>1. /\ free \in Nat /\ posted \in Nat /\ queue \in Seq(Sizes)
      /\ pipe \in Seq(Frames \cup {Stopped})
  BY DEF Buffers, PipeTyped
<1>2. Cardinality(Live(pipe)) \in Nat
  BY <1>1, LiveFinite
<1>3. InPipe = Cardinality(Live(pipe))
  BY DEF InPipe, Live
<1> QED  BY <1>1, <1>2, <1>3 DEF Buffers, PoolConserved

(* A viewport request moves every layer to the clamped size in one call.   *)
LEMMA SetViewportInv ==
    ASSUME Inv, SetViewport
    PROVE  Inv'
<1>1. PICK size \in Requests, scale \in Scales : Apply([size |-> size, scale |-> scale])
  BY DEF SetViewport
<1> DEFINE asked == [size |-> size, scale |-> scale]
           spec == IF scale = KeepCurrentScale THEN [asked EXCEPT !.scale = current.scale]
                                               ELSE asked
           to == Clamp(spec)
           px == to.size * to.scale
<1>2. to \in [size : Dims, scale : 1..MaxScale]
  <2>1. size \in Nat /\ scale \in Nat
    BY MediaAssumption
  <2>2. current.scale \in Nat
    BY MediaAssumption DEF Inv, Layers
  <2>3. CASE scale = KeepCurrentScale
    <3>1. spec = [size |-> size, scale |-> current.scale]
      BY <2>3
    <3> QED  BY <2>1, <2>2, <3>1, ClampTyped
  <2>4. CASE scale # KeepCurrentScale
    <3>1. spec = [size |-> size, scale |-> scale]
      BY <2>4
    <3> QED  BY <2>1, <3>1, ClampTyped
  <2> QED  BY <2>3, <2>4
<1>3. px \in Sizes /\ EvenAlignDown(px) = px /\ px # 0
  <2>1. px \in Sizes
    BY <1>2, SizeFacts
  <2> QED  BY <2>1, SizeFacts
<1>4. \/ UNCHANGED <<viewportVars, resolution, constraints, refresh, key, fresh>>
      \/ screen' = px /\ host' = px /\ SetCaptureResolution(px) /\ current' = to
  BY <1>1 DEF Apply
<1> HIDE DEF to, px
<1>5. SetCaptureResolution(px) =>
        \/ px = resolution /\ UNCHANGED <<resolution, constraints, refresh, key, fresh>>
        \/ resolution' = px /\ started /\ constraints' = px /\ refresh' = running
             /\ fresh' = FALSE /\ RequestVideoKeyFrame
        \/ resolution' = px /\ ~started /\ UNCHANGED <<constraints, refresh, key, fresh>>
  BY <1>3 DEF SetCaptureResolution
<1>6. /\ changes' = changes + 1 /\ changes < MaxChanges
      /\ UNCHANGED <<started, idle_refresh_timer, running, target, pipe, free, queue,
                     registered, enc, crashed, posted>>
  BY DEF SetViewport, encVars
<1>7. CASE UNCHANGED <<viewportVars, resolution, constraints, refresh, key, fresh>>
  <2>1. Layers' /\ SizesAgree'
    BY <1>6, <1>7, LayersKept DEF Inv, viewportVars
  <2>2. Flags'
    BY <1>6, <1>7, MediaAssumption DEF Inv, Flags
  <2>3. PipeTyped' /\ Pinned' /\ LastWord' /\ KnowsItRuns'
    BY <1>6, <1>7, PipeKept DEF Inv
  <2>4. Buffers' /\ EncoderInv'
    BY <1>6, BuffersKept, EncoderKept DEF Inv
  <2> QED  BY <2>1, <2>2, <2>3, <2>4 DEF Inv
<1>8. CASE /\ screen' = px /\ host' = px /\ SetCaptureResolution(px) /\ current' = to
  <2>1. Layers' /\ SizesAgree'
    <3>1. px = current'.size * current'.scale
      BY <1>8 DEF px
    <3>2. resolution' = px
      BY <1>5, <1>8
    <3>3. started' => constraints' = px
      BY <1>5, <1>6, <1>8 DEF Inv, SizesAgree
    <3>4. constraints' \in Sizes \cup {0}
      BY <1>3, <1>5, <1>8 DEF Inv, Layers
    <3> QED  BY <1>2, <1>3, <1>8, <3>1, <3>2, <3>3, <3>4 DEF Layers, SizesAgree
  <2>2. Flags'
    <3>1. refresh' \in BOOLEAN /\ fresh' \in BOOLEAN /\ key' \in {NoKey, Posted, Asked}
      BY <1>5, <1>8 DEF Inv, Flags, RequestVideoKeyFrame
    <3>2. changes' \in 0..MaxChanges
      BY <1>6, MediaAssumption DEF Inv, Flags
    <3> QED  BY <1>6, <3>1, <3>2 DEF Inv, Flags
  <2>3. PipeTyped' /\ LastWord' /\ KnowsItRuns'
    BY <1>6 DEF Inv, PipeTyped, LastWord, KnowsItRuns
  <2>4. Pinned'
    <3>1. constraints' = constraints \/ constraints' \in Sizes
      BY <1>3, <1>5, <1>8
    <3> QED  BY <1>6, <3>1 DEF Inv, Pinned
  <2>5. Buffers' /\ EncoderInv'
    BY <1>6, BuffersKept, EncoderKept DEF Inv
  <2> QED  BY <2>1, <2>2, <2>3, <2>4, <2>5 DEF Inv
<1> QED  BY <1>4, <1>7, <1>8

(* Start replaces the pipe of a session that ended, with the frames in it. *)
LEMMA StartCaptureInv ==
    ASSUME Inv, StartCapture
    PROVE  Inv'
<1>1. PICK t \in Targets : Start(t)
  BY DEF StartCapture
<1>2. /\ changes' = changes + 1 /\ changes < MaxChanges
      /\ UNCHANGED <<current, screen, host, resolution, queue, registered, enc, crashed, posted>>
  BY DEF StartCapture, viewportVars, encVars
<1>3. /\ constraints' = resolution /\ target' = t /\ fresh' = FALSE
      /\ started' = TRUE /\ idle_refresh_timer' = TRUE
  BY <1>1 DEF Start, Armed
<1>4. \/ started /\ RequestVideoKeyFrame /\ UNCHANGED <<running, pipe, free, refresh>>
      \/ /\ ~started /\ pipe' = <<>> /\ free' = free + InPipe
         /\ running' = TRUE /\ refresh' = FALSE /\ key' = key
  BY <1>1 DEF Start
<1>5. Layers' /\ SizesAgree'
  BY <1>2, <1>3 DEF Inv, Layers, SizesAgree
<1>6. Flags'
  <2>1. key' \in {NoKey, Posted, Asked}
    BY <1>4 DEF Inv, Flags, RequestVideoKeyFrame
  <2>2. running' \in BOOLEAN /\ refresh' \in BOOLEAN
    BY <1>4 DEF Inv, Flags
  <2>3. changes' \in 0..MaxChanges
    BY <1>2, MediaAssumption DEF Inv, Flags
  <2> QED  BY <1>2, <1>3, <2>1, <2>2, <2>3 DEF Inv, Flags
<1>7. PipeTyped' /\ Pinned' /\ LastWord'
  <2>1. Pinned'
    BY <1>2, <1>3 DEF Inv, Layers, Pinned
  <2>2. PipeTyped'
    <3>1. pipe' = pipe \/ pipe' = <<>>
      BY <1>4
    <3>2. \A T : <<>> \in Seq(T)
      OBVIOUS
    <3>3. pipe' \in Seq(Frames \cup {Stopped})
      BY <3>1, <3>2 DEF Inv, PipeTyped
    <3> QED  BY <1>3, <3>3 DEF PipeTyped
  <2>3. LastWord'
    BY <1>4 DEF Inv, LastWord
  <2> QED  BY <2>1, <2>2, <2>3
<1>8. KnowsItRuns'
  <2>1. CASE started
    BY <1>3, <1>4, <2>1 DEF Inv, Flags, KnowsItRuns
  <2>2. CASE ~started
    BY <1>3, <1>4, <2>2 DEF KnowsItRuns
  <2> QED  BY <2>1, <2>2
<1>9. Buffers'
  <2>1. CASE UNCHANGED <<running, pipe, free, refresh>>
    BY <1>2, <2>1, BuffersKept DEF Inv
  <2>2. CASE pipe' = <<>> /\ free' = free + InPipe
    <3>1. Cardinality(Live(pipe')) = 0
      BY <2>2, LiveEmpty
    <3> QED  BY <1>2, <2>2, <3>1, BuffersNow, BuffersNext DEF Inv
  <2> QED  BY <1>4, <2>1, <2>2
<1>10. EncoderInv'
  BY <1>2, EncoderKept DEF Inv
<1> QED  BY <1>5, <1>6, <1>7, <1>8, <1>9, <1>10 DEF Inv

(* The end of a session puts one OnStopped behind its frames.              *)
LEMMA StoppedAppended ==
    ASSUME Inv, pipe' = Append(pipe, Stopped), running' = FALSE,
           UNCHANGED <<constraints, target, free, queue, posted>>
    PROVE  PipeTyped' /\ Pinned' /\ LastWord' /\ KnowsItRuns' /\ Buffers'
<1>1. pipe \in Seq(Frames \cup {Stopped})
  BY DEF Inv, PipeTyped
<1>2. pipe' \in Seq(Frames \cup {Stopped}) /\ Len(pipe) + 1 \in DOMAIN pipe'
      /\ pipe'[Len(pipe) + 1] = Stopped
  BY <1>1
<1>3. PipeTyped' /\ Pinned' /\ LastWord' /\ KnowsItRuns'
  BY <1>2 DEF Inv, PipeTyped, Pinned, LastWord, KnowsItRuns
<1>4. Cardinality(Live(pipe')) = Cardinality(Live(pipe)) + 0
  BY <1>1, LiveAppend
<1>5. Buffers'
  BY <1>4, BuffersNow, BuffersNext DEF Inv
<1> QED  BY <1>3, <1>5

(* Stop: the capturer's own end of the session.                            *)
LEMMA StopInv ==
    ASSUME Inv, Stop
    PROVE  Inv'
<1>1. /\ changes' = changes + 1 /\ changes < MaxChanges
      /\ started' = FALSE /\ idle_refresh_timer' = FALSE
      /\ running' = FALSE /\ refresh' = FALSE /\ pipe' = Append(pipe, Stopped)
      /\ UNCHANGED <<current, screen, host, resolution, constraints, target, free, queue, key,
                     registered, enc, crashed, posted, fresh>>
  BY DEF Stop, viewportVars, rtcVars, encVars
<1>2. Layers' /\ SizesAgree'
  BY <1>1 DEF Inv, Layers, SizesAgree
<1>3. Flags'
  <2>1. changes' \in 0..MaxChanges
    BY <1>1, MediaAssumption DEF Inv, Flags
  <2> QED  BY <1>1, <2>1 DEF Inv, Flags
<1>4. PipeTyped' /\ Pinned' /\ LastWord' /\ KnowsItRuns' /\ Buffers'
  BY <1>1, StoppedAppended
<1>5. EncoderInv'
  BY <1>1, EncoderKept DEF Inv
<1> QED  BY <1>2, <1>3, <1>4, <1>5 DEF Inv

(* viz ends the session by itself.                                         *)
LEMMA VizStopsInv ==
    ASSUME Inv, VizStops
    PROVE  Inv'
<1>1. /\ changes' = changes + 1 /\ changes < MaxChanges
      /\ running' = FALSE /\ refresh' = FALSE /\ pipe' = Append(pipe, Stopped)
      /\ UNCHANGED <<current, screen, host, resolution, started, idle_refresh_timer, constraints,
                     target, free, queue, key, registered, enc, crashed, posted, fresh>>
  BY DEF VizStops, viewportVars, capturerVars, rtcVars, encVars
<1>2. Layers' /\ SizesAgree'
  BY <1>1, LayersKept DEF Inv
<1>3. Flags'
  <2>1. changes' \in 0..MaxChanges
    BY <1>1, MediaAssumption DEF Inv, Flags
  <2> QED  BY <1>1, <2>1 DEF Inv, Flags
<1>4. PipeTyped' /\ Pinned' /\ LastWord' /\ KnowsItRuns' /\ Buffers'
  BY <1>1, StoppedAppended
<1>5. EncoderInv'
  BY <1>1, EncoderKept DEF Inv
<1> QED  BY <1>2, <1>3, <1>4, <1>5 DEF Inv

(* OnStopped: viz does not run then, so the capturer is right to think so. *)
LEMMA OnStoppedInv ==
    ASSUME Inv, OnStopped
    PROVE  Inv'
<1>1. /\ pipe # <<>> /\ Head(pipe) = Stopped /\ pipe' = Tail(pipe)
      /\ started' = FALSE /\ idle_refresh_timer' = FALSE
      /\ UNCHANGED <<current, screen, host, resolution, running, constraints, target, refresh,
                     free, queue, key, registered, enc, crashed, posted, fresh, changes>>
  BY DEF OnStopped, viewportVars, rtcVars, encVars
<1>2. Layers' /\ SizesAgree'
  BY <1>1 DEF Inv, Layers, SizesAgree
<1>3. Flags'
  BY <1>1 DEF Inv, Flags
<1>4. pipe \in Seq(Frames \cup {Stopped})
  BY DEF Inv, PipeTyped
<1>5. /\ pipe' \in Seq(Frames \cup {Stopped}) /\ 1 \in DOMAIN pipe /\ pipe[1] = Stopped
      /\ \A i \in DOMAIN pipe' : i + 1 \in DOMAIN pipe /\ pipe'[i] = pipe[i + 1]
  BY <1>1, <1>4
<1>6. running = FALSE
  BY <1>5 DEF Inv, Flags, LastWord
<1>7. PipeTyped' /\ Pinned' /\ LastWord' /\ KnowsItRuns'
  BY <1>1, <1>5, <1>6 DEF Inv, PipeTyped, Pinned, LastWord, KnowsItRuns
<1>8. Cardinality(Live(pipe)) = Cardinality(Live(pipe')) + 0
  BY <1>1, <1>4, LiveTail
<1>9. Cardinality(Live(pipe')) \in Nat
  BY <1>5, LiveFinite
<1>10. Buffers'
  BY <1>1, <1>8, <1>9, BuffersNow, BuffersNext DEF Inv
<1>11. EncoderInv'
  BY <1>1, EncoderKept DEF Inv
<1> QED  BY <1>2, <1>3, <1>7, <1>10, <1>11 DEF Inv

(* The idle deadline only asks viz for a refresh.                          *)
LEMMA IdleRefreshInv ==
    ASSUME Inv, IdleRefresh
    PROVE  Inv'
<1>1. /\ idle_refresh_timer' = started /\ refresh' = (IF started THEN running ELSE refresh)
      /\ UNCHANGED <<current, screen, host, resolution, started, running, constraints, target,
                     pipe, free, queue, key, registered, enc, crashed, posted, fresh, changes>>
  BY DEF IdleRefresh, OnIdleRefreshDeadline, Armed, viewportVars, rtcVars, encVars
<1>2. Flags'
  BY <1>1 DEF Inv, Flags
<1> QED  BY <1>1, <1>2, LayersKept, PipeKept, BuffersKept, EncoderKept DEF Inv

(* A refresh request viz drops.                                            *)
LEMMA DropsRefreshInv ==
    ASSUME Inv, DropsRefresh
    PROVE  Inv'
<1>1. /\ refresh' = FALSE
      /\ UNCHANGED <<current, screen, host, resolution, started, idle_refresh_timer, running,
                     constraints, target, pipe, free, queue, key, registered, enc, crashed,
                     posted, fresh, changes>>
  BY DEF DropsRefresh, viewportVars, capturerVars, rtcVars, encVars
<1>2. Flags'
  BY <1>1 DEF Inv, Flags
<1> QED  BY <1>1, <1>2, LayersKept, PipeKept, BuffersKept, EncoderKept DEF Inv

(* A key frame request that libwebrtc takes.                               *)
LEMMA GenerateKeyFrameInv ==
    ASSUME Inv, GenerateKeyFrame
    PROVE  Inv'
<1>1. /\ key' = Asked
      /\ UNCHANGED <<current, screen, host, resolution, started, idle_refresh_timer, running,
                     constraints, target, refresh, pipe, free, queue, registered, enc, crashed,
                     posted, fresh, changes>>
  BY DEF GenerateKeyFrame, viewportVars, capturerVars, vizVars, encVars
<1>2. Flags'
  BY <1>1 DEF Inv, Flags
<1> QED  BY <1>1, <1>2, LayersKept, PipeKept, BuffersKept, EncoderKept DEF Inv

(* A frame handed to the capturer keeps its buffer in the encoder's queue  *)
(* or gives it back: every early return runs Done.                         *)
LEMMA ReceiveInv ==
    ASSUME Inv, NEW kind \in FrameKinds, Receive(kind)
    PROVE  Inv'
<1> DEFINE f == Head(pipe)
<1>1. /\ pipe # <<>> /\ f # Stopped /\ pipe' = Tail(pipe)
      /\ OnFrameCaptured(f, kind, registered)
      /\ UNCHANGED <<current, screen, host, resolution, started, running, constraints, target,
                     refresh, key, registered, enc, crashed, posted, changes>>
  BY DEF Receive, viewportVars, encVars
<1>2. pipe \in Seq(Frames \cup {Stopped})
  BY DEF Inv, PipeTyped
<1>3. /\ pipe' \in Seq(Frames \cup {Stopped}) /\ 1 \in DOMAIN pipe /\ pipe[1] = f
      /\ \A i \in DOMAIN pipe' : i + 1 \in DOMAIN pipe /\ pipe'[i] = pipe[i + 1]
      /\ \A i \in DOMAIN pipe : i # 1 => i - 1 \in DOMAIN pipe' /\ pipe'[i - 1] = pipe[i]
  BY <1>1, <1>2
<1>4. f.size \in Sizes
  BY <1>1, <1>2 DEF Frames
<1> HIDE DEF f
<1>5. /\ idle_refresh_timer' = (idle_refresh_timer \/ started)
      /\ \/ free' = free + 1 /\ queue' = queue
         \/ free' = free /\ queue' = Append(queue, f.size)
  <2>1. free + 0 = free
    BY DEF Inv, Buffers
  <2> QED  BY <1>1, <2>1 DEF OnFrameCaptured, OnCapturerFrame, RunDone, Armed
<1>6. fresh' \in BOOLEAN
  <2>1. fresh' = fresh \/ fresh' = (fresh \/ (f.target = target /\ f.size = resolution))
    BY <1>1 DEF OnFrameCaptured, OnCapturerFrame
  <2> QED  BY <2>1 DEF Inv, Flags
<1>7. Layers' /\ SizesAgree'
  BY <1>1, LayersKept DEF Inv
<1>8. Flags'
  <2>1. idle_refresh_timer' \in BOOLEAN
    BY <1>5
  <2> QED  BY <1>1, <1>6, <2>1 DEF Inv, Flags
<1>9. PipeTyped' /\ Pinned' /\ LastWord'
  BY <1>1, <1>3 DEF Inv, PipeTyped, Pinned, LastWord
<1>10. KnowsItRuns'
  <2>1. ASSUME started' # running'
        PROVE  \E i \in DOMAIN pipe' : pipe'[i] = Stopped
    <3>1. started # running
      BY <1>1, <2>1
    <3>2. PICK i \in DOMAIN pipe : pipe[i] = Stopped
      BY <3>1 DEF Inv, KnowsItRuns
    <3>3. i # 1
      BY <1>1, <1>3, <3>2
    <3> QED  BY <1>3, <3>2, <3>3
  <2> QED  BY <2>1 DEF KnowsItRuns
<1>11. Buffers'
  <2>1. Cardinality(Live(pipe)) = Cardinality(Live(pipe')) + 1
    BY <1>1, <1>2, LiveTail DEF f
  <2>2. Cardinality(Live(pipe')) \in Nat
    BY <1>3, LiveFinite
  <2>3. CASE free' = free + 1 /\ queue' = queue
    <3>1. /\ free \in Nat /\ posted \in Nat /\ queue \in Seq(Sizes) /\ Len(queue) \in Nat
          /\ Cardinality(Live(pipe)) \in Nat
          /\ free + Cardinality(Live(pipe)) + Len(queue) + posted = Pool
      BY BuffersNow DEF Inv
    <3>2. free' \in Nat /\ posted' \in Nat /\ queue' \in Seq(Sizes)
      BY <1>1, <2>3, <3>1
    <3>3. free' + Cardinality(Live(pipe')) + Len(queue') + posted' = Pool
      BY <1>1, <2>1, <2>2, <2>3, <3>1
    <3> QED  BY <3>2, <3>3, BuffersNext
  <2>4. CASE free' = free /\ queue' = Append(queue, f.size)
    <3>1. queue \in Seq(Sizes)
      BY DEF Inv, Buffers
    <3>2. queue' \in Seq(Sizes) /\ Len(queue') = Len(queue) + 1
      BY <1>4, <2>4, <3>1
    <3>3. /\ free \in Nat /\ posted \in Nat /\ queue \in Seq(Sizes) /\ Len(queue) \in Nat
          /\ Cardinality(Live(pipe)) \in Nat
          /\ free + Cardinality(Live(pipe)) + Len(queue) + posted = Pool
      BY BuffersNow DEF Inv
    <3>4. free' \in Nat /\ posted' \in Nat /\ queue' \in Seq(Sizes)
      BY <1>1, <2>4, <3>2, <3>3
    <3>5. free' + Cardinality(Live(pipe')) + Len(queue') + posted' = Pool
      BY <1>1, <2>1, <2>2, <2>4, <3>2, <3>3
    <3> QED  BY <3>4, <3>5, BuffersNext
  <2> QED  BY <1>5, <2>3, <2>4
<1>12. EncoderInv'
  BY <1>1, EncoderKept DEF Inv
<1> QED  BY <1>7, <1>8, <1>9, <1>10, <1>11, <1>12 DEF Inv

(* viz emits a frame of the size and target it is pinned to.               *)
LEMMA EmitInv ==
    ASSUME Inv, Emit, refresh' \in BOOLEAN
    PROVE  Inv'
<1> DEFINE f == [size |-> constraints, target |-> target]
<1>1. /\ running /\ free > 0 /\ free' = free - 1 /\ pipe' = Append(pipe, f)
      /\ UNCHANGED <<current, screen, host, resolution, started, idle_refresh_timer, running,
                     constraints, target, queue, key, registered, enc, crashed, posted, fresh,
                     changes>>
  BY DEF Emit, viewportVars, capturerVars, rtcVars, encVars
<1>2. f \in Frames /\ f # Stopped
  <2>1. constraints \in Sizes /\ target \in Targets
    BY <1>1 DEF Inv, Pinned
  <2>2. constraints # 0
    BY <2>1, SizeFacts
  <2> QED  BY <2>1, <2>2 DEF Frames, Stopped
<1> HIDE DEF f
<1>3. pipe \in Seq(Frames \cup {Stopped})
  BY DEF Inv, PipeTyped
<1>4. /\ pipe' \in Seq(Frames \cup {Stopped})
      /\ \A i \in DOMAIN pipe : i \in DOMAIN pipe' /\ pipe'[i] = pipe[i]
      /\ \A i \in DOMAIN pipe' : i \in DOMAIN pipe \/ pipe'[i] = f
  BY <1>1, <1>2, <1>3
<1>5. Layers' /\ SizesAgree'
  BY <1>1, LayersKept DEF Inv
<1>6. Flags'
  BY <1>1 DEF Inv, Flags
<1>7. PipeTyped' /\ Pinned' /\ LastWord' /\ KnowsItRuns'
  BY <1>1, <1>2, <1>4 DEF Inv, PipeTyped, Pinned, LastWord, KnowsItRuns
<1>8. Buffers'
  <2>1. Cardinality(Live(pipe')) = Cardinality(Live(pipe)) + 1
    BY <1>1, <1>2, <1>3, LiveAppend
  <2>2. /\ free \in Nat /\ posted \in Nat /\ queue \in Seq(Sizes) /\ Len(queue) \in Nat
        /\ Cardinality(Live(pipe)) \in Nat
        /\ free + Cardinality(Live(pipe)) + Len(queue) + posted = Pool
    BY BuffersNow DEF Inv
  <2>3. free' \in Nat /\ posted' \in Nat /\ queue' \in Seq(Sizes)
    BY <1>1, <2>2
  <2>4. free' + Cardinality(Live(pipe')) + Len(queue') + posted' = Pool
    BY <1>1, <2>1, <2>2
  <2> QED  BY <2>3, <2>4, BuffersNext
<1>9. EncoderInv'
  BY <1>1, EncoderKept DEF Inv
<1> QED  BY <1>5, <1>6, <1>7, <1>8, <1>9 DEF Inv

(* A step of the encoder that leaves the rest of the path alone.           *)
LEMMA EncoderOnly ==
    ASSUME Inv, UNCHANGED encoderOnly, UNCHANGED queue, registered' \in BOOLEAN,
           key' \in {NoKey, Posted, Asked}, EncoderInv'
    PROVE  Inv'
<1>1. UNCHANGED <<current, screen, host, resolution, started, idle_refresh_timer, running,
                  constraints, target, refresh, pipe, free, posted, fresh, changes>>
  BY DEF encoderOnly, viewportVars, capturerVars, vizVars
<1>2. Flags'
  BY <1>1 DEF Inv, Flags
<1> QED  BY <1>1, <1>2, LayersKept, PipeKept, BuffersKept DEF Inv

(* InitEncode on a released encoder: either libwebrtc registers with it,   *)
(* or it is released again.                                                *)
LEMMA ConfigureInv ==
    ASSUME Inv, Configure
    PROVE  Inv'
<1> DEFINE S == Sizes \cup {0}
<1>0. PICK size \in Sizes : \E e \in InitEncode(enc, size) :
        /\ enc' = IF e.initialized THEN RegisterEncodeCompleteCallback(e) ELSE Release(e)
        /\ registered' = e.initialized
  BY DEF Configure
<1>1. PICK e \in InitEncode(enc, size) :
        /\ enc' = IF e.initialized THEN RegisterEncodeCompleteCallback(e) ELSE Release(e)
        /\ registered' = e.initialized
  BY <1>0
<1>2. enc \in EncodersOf(S) /\ Sound(enc) /\ Released(enc) /\ crashed = FALSE
  BY DEF Inv, EncoderInv, Configure
<1>3. size \in S
  OBVIOUS
<1> HIDE DEF S
<1>4. e \in EncodersOf(S) /\ Sound(e)
  BY <1>2, <1>3, InitEncodeSound
<1>5. e.initialized \in BOOLEAN
  BY <1>4, EncoderFields
<1>6. key' = Asked /\ queue' = queue /\ crashed' = crashed /\ UNCHANGED encoderOnly
  BY DEF Configure
<1>7. EncoderInv'
  <2>1. CASE e.initialized = TRUE
    <3>1. enc' = [e EXCEPT !.callback = TRUE] /\ registered' = TRUE
      BY <1>1, <2>1 DEF RegisterEncodeCompleteCallback
    <3>2. /\ enc' \in EncodersOf(S) /\ enc'.callback = TRUE /\ enc'.kind = e.kind
          /\ enc'.initialized = e.initialized /\ enc'.native = e.native /\ enc'.lost = e.lost
      BY <1>4, <3>1 DEF EncodersOf
    <3>3. Sound(enc')
      BY <1>4, <3>2 DEF Sound, Kept
    <3> QED  BY <1>2, <1>6, <3>1, <3>2, <3>3 DEF EncoderInv, S
  <2>2. CASE e.initialized = FALSE
    <3>1. enc' = Release(e)
      BY <1>1, <2>2
    <3>2. enc' \in EncodersOf(S) /\ Sound(enc') /\ Released(enc')
      BY <1>4, <3>1, ReleaseSound
    <3> QED  BY <1>2, <1>6, <3>2 DEF EncoderInv, Released, S
  <2> QED  BY <1>5, <2>1, <2>2
<1>8. registered' \in BOOLEAN
  BY <1>1, <1>5
<1> QED  BY <1>6, <1>7, <1>8, EncoderOnly

(* Release of a registered encoder.                                        *)
LEMMA ReleaseEncoderInv ==
    ASSUME Inv, ReleaseEncoder
    PROVE  Inv'
<1> DEFINE S == Sizes \cup {0}
<1>1. enc \in EncodersOf(S) /\ Sound(enc) /\ crashed = FALSE
  BY DEF Inv, EncoderInv
<1> HIDE DEF S
<1>2. /\ registered' = FALSE /\ enc' = Release(enc) /\ queue' = queue /\ key' = key
      /\ crashed' = crashed /\ UNCHANGED encoderOnly
  BY DEF ReleaseEncoder
<1>3. enc' \in EncodersOf(S) /\ Sound(enc') /\ Released(enc')
  BY <1>1, <1>2, ReleaseSound
<1>4. EncoderInv'
  BY <1>1, <1>2, <1>3 DEF EncoderInv, Released, S
<1>5. key' \in {NoKey, Posted, Asked}
  BY <1>2 DEF Inv, Flags
<1> QED  BY <1>2, <1>4, <1>5, EncoderOnly

(* A frame that leaves the encoder's queue posts its Done.                 *)
LEMMA Dequeued ==
    ASSUME Inv, queue # <<>>, queue' = Tail(queue), posted' = posted + 1,
           UNCHANGED <<pipe, free>>
    PROVE  Buffers' /\ Head(queue) \in Sizes
<1>1. queue \in Seq(Sizes)
  BY DEF Inv, Buffers
<1>2. queue' \in Seq(Sizes) /\ Len(queue') = Len(queue) - 1 /\ Head(queue) \in Sizes
  BY <1>1
<1>3. Len(queue') \in Nat
  BY <1>2
<1>4. Buffers'
  <2>1. /\ free \in Nat /\ posted \in Nat /\ queue \in Seq(Sizes) /\ Len(queue) \in Nat
        /\ Cardinality(Live(pipe)) \in Nat
        /\ free + Cardinality(Live(pipe)) + Len(queue) + posted = Pool
    BY BuffersNow DEF Inv
  <2>2. free' \in Nat /\ posted' \in Nat /\ queue' \in Seq(Sizes)
    BY <1>2, <2>1
  <2>3. /\ free' = free /\ posted' = posted + 1 /\ Len(queue') = Len(queue) - 1
        /\ Cardinality(Live(pipe')) = Cardinality(Live(pipe))
    BY <1>2
  <2>4. \A a, b, c, d \in Nat : a + b + (c - 1) + (d + 1) = a + b + c + d
    OBVIOUS
  <2>5. free + Cardinality(Live(pipe)) + (Len(queue) - 1) + (posted + 1)
          = free + Cardinality(Live(pipe)) + Len(queue) + posted
    BY ONLY <2>1, <2>4
  <2>6. free' + Cardinality(Live(pipe')) + Len(queue') + posted' = Pool
    BY ONLY <2>1, <2>3, <2>5
  <2> QED  BY <2>2, <2>6, BuffersNext
<1> QED  BY <1>2, <1>4

(* Encode, whatever the backend answers.                                   *)
LEMMA EncodeFrameInv ==
    ASSUME Inv, EncodeFrame
    PROVE  Inv'
<1> DEFINE S == Sizes \cup {0}
<1>1. PICK out \in Encode(enc, Head(queue)) :
        /\ enc' = out.enc
        /\ crashed' = (crashed \/ out.image = Null)
        /\ key' = IF key = Asked /\ out.ok THEN NoKey ELSE key
  BY DEF EncodeFrame
<1>2. /\ queue # <<>> /\ registered /\ queue' = Tail(queue) /\ posted' = posted + 1
      /\ UNCHANGED <<current, screen, host, resolution, started, idle_refresh_timer, running,
                     constraints, target, refresh, pipe, free, registered, fresh, changes>>
  BY DEF EncodeFrame, viewportVars, capturerVars, vizVars
<1>3. Buffers' /\ Head(queue) \in S
  BY <1>2, Dequeued
<1>4. enc \in EncodersOf(S) /\ Sound(enc) /\ (enc.initialized => enc.callback) /\ crashed = FALSE
  BY DEF Inv, EncoderInv
<1> HIDE DEF S
<1>5. /\ out.enc \in EncodersOf(S) /\ Sound(out.enc)
      /\ out.enc.initialized => out.enc.callback
      /\ out.image # Null
  BY <1>3, <1>4, EncodeSound
<1>6. EncoderInv'
  <2>1. crashed' = FALSE
    BY <1>1, <1>4, <1>5
  <2> QED  BY <1>1, <1>2, <1>5, <2>1 DEF EncoderInv, S
<1>7. Flags'
  <2>1. key' \in {NoKey, Posted, Asked}
    BY <1>1 DEF Inv, Flags
  <2> QED  BY <1>2, <2>1 DEF Inv, Flags
<1> QED  BY <1>2, <1>3, <1>6, <1>7, LayersKept, PipeKept DEF Inv

(* A frame libwebrtc drops from the queue.                                 *)
LEMMA DropFrameInv ==
    ASSUME Inv, DropFrame
    PROVE  Inv'
<1>1. /\ queue # <<>> /\ queue' = Tail(queue) /\ posted' = posted + 1
      /\ UNCHANGED <<current, screen, host, resolution, started, idle_refresh_timer, running,
                     constraints, target, refresh, pipe, free, key, registered, enc, crashed,
                     fresh, changes>>
  BY DEF DropFrame, viewportVars, capturerVars, vizVars, encVars
<1>2. Buffers'
  BY <1>1, Dequeued
<1>3. Flags'
  BY <1>1 DEF Inv, Flags
<1> QED  BY <1>1, <1>2, <1>3, LayersKept, PipeKept, EncoderKept DEF Inv

(* A posted Done gives the buffer back.                                    *)
LEMMA RunDonePostedInv ==
    ASSUME Inv, RunDonePosted
    PROVE  Inv'
<1>1. /\ posted > 0 /\ posted' = posted - 1 /\ free' = free + 1
      /\ UNCHANGED <<current, screen, host, resolution, started, idle_refresh_timer, running,
                     constraints, target, refresh, pipe, queue, key, registered, enc, crashed,
                     fresh, changes>>
  BY DEF RunDonePosted, RunDone, viewportVars, capturerVars, rtcVars, encVars
<1>2. Buffers'
  <2>1. /\ free \in Nat /\ posted \in Nat /\ queue \in Seq(Sizes) /\ Len(queue) \in Nat
        /\ Cardinality(Live(pipe)) \in Nat
        /\ free + Cardinality(Live(pipe)) + Len(queue) + posted = Pool
    BY BuffersNow DEF Inv
  <2>2. free' \in Nat /\ posted' \in Nat /\ queue' \in Seq(Sizes)
    BY <1>1, <2>1
  <2>3. free' + Cardinality(Live(pipe')) + Len(queue') + posted' = Pool
    BY <1>1, <2>1
  <2> QED  BY <2>2, <2>3, BuffersNext
<1>3. Flags'
  BY <1>1 DEF Inv, Flags
<1> QED  BY <1>1, <1>2, <1>3, LayersKept, PipeKept, EncoderKept DEF Inv

(* Every step keeps the invariant.                                         *)
LEMMA NextInv ==
    ASSUME Inv, [Next]_vars
    PROVE  Inv'
<1>1. CASE UNCHANGED vars
  <2>1. UNCHANGED <<current, screen, host, resolution, started, idle_refresh_timer, running,
                    constraints, target, refresh, pipe, free, queue, key, registered, enc,
                    crashed, posted, fresh, changes>>
    BY <1>1 DEF vars, viewportVars, capturerVars, vizVars, rtcVars, encVars
  <2>2. Flags'
    BY <2>1 DEF Inv, Flags
  <2> QED  BY <2>1, <2>2, LayersKept, PipeKept, BuffersKept, EncoderKept DEF Inv
<1>2. CASE SetViewport \/ StartCapture \/ Stop \/ OnStopped \/ IdleRefresh
  BY <1>2, SetViewportInv, StartCaptureInv, StopInv, OnStoppedInv, IdleRefreshInv
<1>3. CASE \E kind \in FrameKinds : Receive(kind)
  BY <1>3, ReceiveInv
<1>4. CASE Paints \/ Refreshes
  <2>1. Emit /\ refresh' \in BOOLEAN
    BY <1>4 DEF Paints, Refreshes, Inv, Flags
  <2> QED  BY <2>1, EmitInv
<1>5. CASE DropsRefresh \/ VizStops \/ GenerateKeyFrame
  BY <1>5, DropsRefreshInv, VizStopsInv, GenerateKeyFrameInv
<1>6. CASE Configure \/ ReleaseEncoder \/ EncodeFrame \/ DropFrame \/ RunDonePosted
  BY <1>6, ConfigureInv, ReleaseEncoderInv, EncodeFrameInv, DropFrameInv, RunDonePostedInv
<1> QED  BY <1>1, <1>2, <1>3, <1>4, <1>5, <1>6 DEF Next

-----------------------------------------------------------------------------
(* The theorems                                                            *)

(* The invariant holds in every reachable state.                           *)
THEOREM Invariance == Spec => []Inv
<1>1. Init => Inv
  BY InitInv
<1>2. Inv /\ [Next]_vars => Inv'
  BY NextInv
<1> QED  BY <1>1, <1>2, PTL DEF Spec

(* The types, and with them the count of viz's buffers: OnFrameCaptured,   *)
(* the encoder thread and the posted RunDone give back every buffer once.  *)
THEOREM MediaTyped == Spec => []TypeOK
<1>1. Inv => TypeOK
  BY InvGives
<1> QED  BY <1>1, Invariance, PTL

(* Apply, SetCaptureResolution and Start keep screen, host, capturer and a *)
(* started viz at the viewport's pixel size, in any order.                 *)
THEOREM MediaSizesAgree == Spec => []SizesAgree
<1>1. Inv => SizesAgree
  BY InvGives
<1> QED  BY <1>1, Invariance, PTL

(* The capturer's started differs from viz's only while an OnStopped is    *)
(* still in its pipe, since Start drops the pipe of the last session.      *)
THEOREM MediaKnowsItRuns == Spec => []KnowsItRuns
<1>1. Inv => KnowsItRuns
  BY InvGives
<1> QED  BY <1>1, Invariance, PTL

(* No encoder calls through a null callback, and one that is initialised   *)
(* for libwebrtc has its callback, after any resizes inside Encode.        *)
THEOREM MediaSurvivesResize == Spec => []SurvivesResize
<1>1. Inv => SurvivesResize
  BY InvGives
<1> QED  BY <1>1, Invariance, PTL

(* Whenever the encoder is destroyed, its Release has freed every native   *)
(* handle, except NVENC's CUDA context without a session.                  *)
THEOREM MediaNothingLost == Spec => []NothingLost
<1>1. Inv => NothingLost
  BY InvGives
<1> QED  BY <1>1, Invariance, PTL
=============================================================================
