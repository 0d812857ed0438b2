------------------------------ MODULE FramePath ------------------------------
(***************************************************************************)
(* The way of a picture through one monitoring window: the pull thread     *)
(* writes it into the frame of the stream (VideoCtrl.cpp) and emits a      *)
(* signal with a copy of the frame, which shares its buffer; the event     *)
(* loop of the GUI thread gives the copy to the video surface              *)
(* (FrameProvider.cpp), and the render thread of Qt draws it.              *)
(*                                                                         *)
(* Every copy reads the one buffer, which the pull thread goes on writing. *)
(* What keeps a picture from being drawn while it is written is the map of *)
(* the frame, which fails while another thread has it mapped.              *)
(*                                                                         *)
(* A picture the decoder holds back over the end of a stream counts as one *)
(* of the next stream (see WindowDecoders).                                *)
(***************************************************************************)
EXTENDS Naturals, Sequences

CONSTANTS
  Sizes,        \* resolutions of a frame
  MaxStreams,   \* bound: how often the window is played
  MaxPictures,  \* bound: pictures of a stream
  MaxPending    \* bound: signals in the event loop

ASSUME BoundsAssumption == MaxStreams \in Nat /\ MaxPictures \in Nat /\ MaxPending \in Nat

VARIABLES
  playing,    \* between play and stop
  stream,     \* number of the stream
  size,       \* of the frame of each stream
  frame,      \* TRUE: VideoCtrl has a frame of this stream
  buffer,     \* of each stream: its last picture, and whether all of it is there
  mapped,     \* of each stream: who has mapped its frame
  pending,    \* the streams of the copies in the event loop
  surface,    \* TRUE: the VideoOutput has given its surface
  _format,    \* FrameProvider: a size, or 0 while it is not valid
  active,     \* the format the surface was started with, or 0
  presented,  \* the stream of the frame the surface has, or 0
  drawing,    \* what the render thread is reading: a stream and the number of its picture
  drawn       \* the last picture drawn

writerVars == <<playing, stream, size, frame>>
surfaceVars == <<surface, _format, active, presented>>
vars == <<writerVars, buffer, mapped, pending, surfaceVars, drawing, drawn>>

Streams == 1..MaxStreams
Nothing == [stream |-> 0, n |-> 0]
NoPicture == [n |-> 0, whole |-> TRUE]

Init ==
  /\ playing = FALSE /\ stream = 0 /\ frame = FALSE
  /\ size \in [Streams -> Sizes]
  /\ buffer = [s \in Streams |-> NoPicture]
  /\ mapped = [s \in Streams |-> "nobody"]
  /\ pending = << >>
  /\ surface = FALSE /\ _format = 0 /\ active = 0 /\ presented = 0
  /\ drawing = Nothing
  /\ drawn = [stream |-> 0, n |-> 0, whole |-> TRUE]

----------------------------------------------------------------------------
(* The surface: stopping it drops its frame, starting it needs a format.    *)
Started(format) == active' = format /\ presented' = 0

setVideoSurface(given) ==
  /\ surface' = given
  /\ Started(IF given THEN _format ELSE 0)
  /\ UNCHANGED <<writerVars, buffer, mapped, pending, _format, drawing, drawn>>

(* The surface is stopped if it is active, and started again. *)
Flushed ==
  /\ IF surface THEN Started(_format) ELSE UNCHANGED <<active, presented>>
  /\ UNCHANGED <<surface, _format>>

(* Mutation: setFormat stops the surface and does not start it again. *)
onNewFrameReceived_Stopped ==
  /\ pending # << >>
  /\ pending' = Tail(pending)
  /\ _format' = size[Head(pending)]
  /\ IF surface THEN active' = 0 /\ presented' = 0 ELSE UNCHANGED <<active, presented>>
  /\ UNCHANGED <<writerVars, buffer, mapped, surface, drawing, drawn>>

(* Mutation: the newest frame is taken, and the older ones are kept. *)
onNewFrameReceived_Newest ==
  /\ pending # << >>
  /\ pending' = SubSeq(pending, 1, Len(pending) - 1)
  /\ _format' = size[pending[Len(pending)]]
  /\ IF surface
     THEN active' = _format' /\ presented' = pending[Len(pending)]
     ELSE UNCHANGED <<active, presented>>
  /\ UNCHANGED <<writerVars, buffer, mapped, surface, drawing, drawn>>

(* onNewFrameReceived with setFormat, which restarts the surface for every  *)
(* frame.                                                                   *)
onNewFrameReceived ==
  /\ pending # << >>
  /\ pending' = Tail(pending)
  /\ _format' = size[Head(pending)]
  /\ IF surface
     THEN active' = _format' /\ presented' = Head(pending)
     ELSE UNCHANGED <<active, presented>>
  /\ UNCHANGED <<writerVars, buffer, mapped, surface, drawing, drawn>>

----------------------------------------------------------------------------
(* play and stop, seen from the frames.  stop has joined the pull thread,   *)
(* so that the frame is not mapped by it.                                   *)
play ==
  /\ ~playing /\ stream < MaxStreams
  /\ playing' = TRUE /\ stream' = stream + 1
  /\ UNCHANGED <<size, frame, buffer, mapped, pending, surfaceVars, drawing, drawn>>

stop ==
  /\ playing /\ mapped[stream] # "writer"
  /\ playing' = FALSE
  /\ frame' = FALSE
  /\ Flushed
  /\ UNCHANGED <<stream, size, buffer, mapped, pending, drawing, drawn>>

----------------------------------------------------------------------------
(* The pull thread. *)

(* Mutation: the result of map is not looked at. *)
beginWrite_Unchecked ==
  /\ playing /\ buffer[stream].n < MaxPictures
  /\ mapped[stream] # "writer"
  /\ Len(pending) < MaxPending
  /\ frame' = TRUE
  /\ buffer' = [buffer EXCEPT ![stream] = [n |-> @.n + 1, whole |-> FALSE]]
  /\ mapped' = [mapped EXCEPT ![stream] = "writer"]
  /\ UNCHANGED <<playing, stream, size, pending, surfaceVars, drawing, drawn>>

(* The callback of the decoder: the first picture makes the frame.  A       *)
(* picture whose frame cannot be mapped is dropped, which leaves the state  *)
(* as it is.                                                                *)
beginWrite ==
  /\ playing /\ buffer[stream].n < MaxPictures
  /\ mapped[stream] = "nobody"
  /\ Len(pending) < MaxPending
  /\ frame' = TRUE
  /\ buffer' = [buffer EXCEPT ![stream] = [n |-> @.n + 1, whole |-> FALSE]]
  /\ mapped' = [mapped EXCEPT ![stream] = "writer"]
  /\ UNCHANGED <<playing, stream, size, pending, surfaceVars, drawing, drawn>>

(* The picture is copied, the frame unmapped and the signal emitted. *)
endWrite ==
  /\ playing /\ mapped[stream] = "writer"
  /\ buffer' = [buffer EXCEPT ![stream] = [n |-> @.n, whole |-> TRUE]]
  /\ mapped' = [mapped EXCEPT ![stream] = "nobody"]
  /\ pending' = Append(pending, stream)
  /\ UNCHANGED <<writerVars, surfaceVars, drawing, drawn>>

----------------------------------------------------------------------------
(* The render thread: it maps the frame of an active surface for reading    *)
(* and copies it to the screen.  Not in the source.                         *)
beginDraw ==
  /\ active # 0 /\ presented # 0
  /\ drawing = Nothing /\ mapped[presented] = "nobody"
  /\ mapped' = [mapped EXCEPT ![presented] = "reader"]
  /\ drawing' = [stream |-> presented, n |-> buffer[presented].n]
  /\ UNCHANGED <<writerVars, buffer, pending, surfaceVars, drawn>>

endDraw ==
  /\ drawing # Nothing
  /\ drawing' = Nothing
  /\ LET s == drawing.stream
     IN  /\ drawn' = [stream |-> s, n |-> drawing.n,
                      whole |-> buffer[s] = [n |-> drawing.n, whole |-> TRUE]]
         /\ mapped' = [mapped EXCEPT ![s] = IF @ = "reader" THEN "nobody" ELSE @]
  /\ UNCHANGED <<writerVars, buffer, pending, surfaceVars>>

----------------------------------------------------------------------------
Next ==
  \/ play \/ stop
  \/ \E given \in BOOLEAN : surface # given /\ setVideoSurface(given)
  \/ onNewFrameReceived
  \/ beginWrite \/ endWrite
  \/ beginDraw \/ endDraw

Spec == Init /\ [][Next]_vars

(* The event loop runs, the pull thread finishes what it writes, and Qt     *)
(* draws: a frame that can be mapped again and again is drawn (the pull     *)
(* thread has it mapped in between).                                        *)
FairSpec ==
  /\ Spec
  /\ WF_vars(onNewFrameReceived) /\ WF_vars(endWrite)
  /\ SF_vars(beginDraw) /\ WF_vars(endDraw)

----------------------------------------------------------------------------
TypeOK ==
  /\ playing \in BOOLEAN /\ frame \in BOOLEAN /\ surface \in BOOLEAN
  /\ stream \in 0..MaxStreams /\ size \in [Streams -> Sizes]
  /\ buffer \in [Streams -> [n : 0..MaxPictures, whole : BOOLEAN]]
  /\ mapped \in [Streams -> {"nobody", "writer", "reader"}]
  /\ pending \in Seq(Streams) /\ Len(pending) <= MaxPending
  /\ _format \in Sizes \cup {0} /\ active \in Sizes \cup {0}
  /\ presented \in 0..MaxStreams
  /\ drawing \in [stream : 0..MaxStreams, n : 0..MaxPictures]
  /\ drawn \in [stream : 0..MaxStreams, n : 0..MaxPictures, whole : BOOLEAN]

(* No picture is drawn half old and half new, although the frames in the    *)
(* event loop and on the surface share the buffer that is being written.    *)
NoTornPicture == drawn.whole

(* What the surface shows never goes back: not to an older picture, and,    *)
(* frames of the stream before being still in the event loop when the       *)
(* window is played again, not to an older stream.                          *)
NeverGoesBack ==
  [][\/ drawn'.stream > drawn.stream
     \/ drawn'.stream = drawn.stream /\ drawn'.n >= drawn.n]_vars

(* The surface was started for the size of the frame it has, also when      *)
(* streams of another size or a new surface came between.                   *)
FormatFitsPicture == presented # 0 => active = size[presented]

(* What is drawn is a picture as it was decoded: whole, and on a surface    *)
(* that was started for its size (VideoCtrl.cpp:91, FrameProvider.cpp:44).  *)
DrawnAsDecoded == NoTornPicture /\ FormatFitsPicture

(* A last picture of a stream that is written while there is a surface is   *)
(* drawn, though its signal is queued behind others and its frame is shared *)
(* with the ones before, unless the window is stopped or loses its surface. *)
LastPictureIsDrawn ==
  \A s \in Streams :
    (playing /\ stream = s /\ buffer[s] = [n |-> MaxPictures, whole |-> FALSE] /\ surface) ~>
      \/ drawn = [stream |-> s, n |-> MaxPictures, whole |-> TRUE]
      \/ ~playing \/ ~surface
=============================================================================
