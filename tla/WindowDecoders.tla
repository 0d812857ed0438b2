--------------------------- MODULE WindowDecoders ---------------------------
(***************************************************************************)
(* The decoders of a window live as long as the window, while streams of   *)
(* other sizes and sample rates come and go: a window that monitors        *)
(* (VideoCtrl.cpp) or the one that shows recordings (RecordCtrl.cpp).      *)
(* The parser holds a picture until the next one or a description begins,  *)
(* as RecordScreen says, also over the end of a stream.                    *)
(*                                                                         *)
(* Streams are numbered; what a window has made for one is told apart by   *)
(* the number of the stream.                                               *)
(***************************************************************************)
EXTENDS Naturals

CONSTANTS
  Sizes,      \* of pictures
  MaxStreams  \* bound: how often the window plays

VARIABLES
  kind,             \* "monitor" or "record"
  size,             \* of each stream
  playing, stream,
  held,             \* the stream whose picture the parser holds, or 0
  left,             \* the one it held when the stream began
  frame,            \* the stream whose picture the frame was made for, or 0
  own,              \* a picture of the stream that plays has been copied into the frame
  misfit,           \* since play a picture was copied into a frame of another size
  adts_header,      \* the stream whose description it has, or 0
  audio,            \* TRUE: there is an audio output
  described         \* this stream has described its sound

streamVars == <<kind, size>>
pictureVars == <<held, left, frame, own, misfit>>
soundVars == <<adts_header, audio, described>>
vars == <<streamVars, playing, stream, pictureVars, soundVars>>

Streams == 1..MaxStreams

Init ==
  /\ kind \in {"monitor", "record"}
  /\ size \in [Streams -> Sizes]
  /\ playing = FALSE /\ stream = 0
  /\ held = 0 /\ left = 0 /\ frame = 0 /\ own = FALSE /\ misfit = FALSE
  /\ adts_header = 0 /\ audio = FALSE /\ described = FALSE

----------------------------------------------------------------------------
play ==
  /\ ~playing /\ stream < MaxStreams
  /\ playing' = TRUE /\ stream' = stream + 1
  /\ left' = held /\ own' = FALSE
  /\ misfit' = FALSE /\ described' = FALSE
  /\ UNCHANGED <<streamVars, held, frame, adts_header, audio>>

(* Mutation: the frame is kept. *)
stopMonitor_KeepingFrame == audio' = FALSE /\ UNCHANGED frame

(* VideoCtrl::stop. *)
stopMonitor == audio' = FALSE /\ frame' = 0

(* RecordCtrl::stop keeps all it has. *)
stopRecord == UNCHANGED <<audio, frame>>

stop ==
  /\ playing /\ playing' = FALSE
  /\ IF kind = "monitor" THEN stopMonitor ELSE stopRecord
  /\ UNCHANGED <<streamVars, stream, held, left, own, misfit, adts_header, described>>

(* The callback of the decoder: the first picture makes the frame, and each *)
(* is copied with its own length.                                           *)
showFrame ==
  IF held = 0
  THEN UNCHANGED <<frame, own, misfit>>
  ELSE /\ frame' = IF frame = 0 THEN held ELSE frame
       /\ own' = (own \/ held = stream)
       /\ misfit' = (misfit \/ size[frame'] # size[held])

(* A picture or the description of the pictures begins. *)
receiveNalu ==
  /\ playing
  /\ showFrame
  /\ held' \in {stream, 0}
  /\ UNCHANGED <<streamVars, playing, stream, left, soundVars>>

describeMonitor == adts_header' = stream /\ audio' = TRUE

describeRecord ==
  IF audio THEN UNCHANGED <<adts_header, audio>> ELSE adts_header' = stream /\ audio' = TRUE

(* AUDIO_INFO. *)
receiveAudioInfo ==
  /\ playing
  /\ IF kind = "monitor" THEN describeMonitor ELSE describeRecord
  /\ described' = TRUE
  /\ UNCHANGED <<streamVars, playing, stream, pictureVars>>

Over == ~playing /\ stream = MaxStreams /\ UNCHANGED vars

Next == play \/ stop \/ receiveNalu \/ receiveAudioInfo \/ Over

Spec == Init /\ [][Next]_vars

----------------------------------------------------------------------------
(* Types of the variables. *)
TypeOK ==
  /\ kind \in {"monitor", "record"} /\ playing \in BOOLEAN
  /\ size \in [Streams -> Sizes]
  /\ stream \in 0..MaxStreams /\ held \in 0..stream /\ frame \in 0..stream /\ left \in 0..stream
  /\ own \in BOOLEAN /\ misfit \in BOOLEAN /\ audio \in BOOLEAN /\ described \in BOOLEAN
  /\ adts_header \in 0..stream /\ (audio => adts_header # 0)

(* The picture that is left in the parser is the first to come out in the   *)
(* next stream, and makes the frame of a monitor (VideoCtrl.cpp:72): when   *)
(* it has another size than the stream, every picture of the stream is      *)
(* copied into a frame of the wrong size until stop (VideoCtrl.cpp:91).  A  *)
(* monitor in which nothing was left, or a picture of the size of the       *)
(* stream, never copies into a wrong frame.  The window of recordings keeps *)
(* its first frame for ever (RecordCtrl.cpp:69) and fits only recordings of *)
(* that size.                                                               *)
MisfitComesFromLeftPicture ==
  playing =>
    /\ misfit => \E s \in {left, stream} \ {0} : size[s] # size[frame]
    /\ kind = "monitor" => (misfit <=> own /\ left # 0 /\ size[left] # size[stream])

(* A monitor hears every stream with the format that stream described; the  *)
(* window of recordings keeps the one of the first that described any       *)
(* (VideoCtrl.cpp:45, RecordCtrl.cpp:33).                                   *)
SoundHasItsFormat == playing /\ described /\ kind = "monitor" => adts_header = stream /\ audio

(* What decoders that outlive their streams do to the next: a stream that   *)
(* finds a picture of another size in the parser has all its pictures in a  *)
(* wrong frame, any other has its own, and a monitor each its own sound.    *)
DecodersFitStream == TypeOK /\ MisfitComesFromLeftPicture /\ SoundHasItsFormat
=============================================================================
