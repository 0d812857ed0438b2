# MiniSurveillance in TLA+

MiniSurveillance is a Qt client for watching surveillance cameras: a user logs
in at a server, sees a list of devices, plays their RTMP streams in four
windows, talks to a device with camera and microphone, and replays recordings.
The specifications here model its own code (`src/*.cpp`, `src/include/*.h`,
the handlers in `src/main.qml`). Everything under `src/include/{grpc,lib*,...}`,
`src/libs`, `src/shared` and the `IPC.*` files is bundled or generated.

## Inventory

| Part | State | Operations | What is hard |
|---|---|---|---|
| `SafeQueue` | list, `is_work`, mutex, condition | push, pop (blocks), setWork, clear | wakeups; what clear and pop hand out |
| `VideoSender` | `is_pushing`, `is_pushing_audio`, packets, two threads, `push_start_time` | push, openAudio, stop; push thread; audio thread; camera frames | three threads share flags without a lock; failure of the connection at every step; raw packets with three owners |
| `VideoCapture` | `is_pulling`, thread, rtmp, packet | start, stop; pull thread | a stream that ends by itself; stop's early return |
| `VideoCtrl` | `is_playing`, `is_playing_audio`, frame, encoder, audio output, ADTS header | play, stop, playAudio, stopAudio; callbacks in the pull thread | stop frees what the pull thread uses; queued frames after stop; decoders that outlive a stream |
| `FrameProvider` | surface, format | onNewFrameReceived (queued), setFormat, flush | frames that arrive after flush; copies of a frame that share the buffer the pull thread writes |
| `MainCtrl` and `main.qml` | devices, windows, talk, device list, menu | login, addDevice, playVideo, stopVideo, playAudio, stopAudio, startTalk, stopTalk; timer; status messages | status messages come from another thread; flags are kept twice; the menu outlives what it was opened for |
| Login, register, exit | server settings, token, message thread, the objects that own threads | setServerIp, setServerPort, register_user, login_user, destructors | an exit that joins; a server that refuses, goes away or is never told |
| Record page, download | the one file, name and key of the page, its copy of playing and pausing | click on a row, recordDownload, play, stop | the file is rewritten while it is read; two copies of one flag |
| `FlvPlayer`, `RecordCtrl` | position in the file, pause, step and regulate flags; decoder, surface | start, stop, pause, step by frame or seconds; feed thread; detached step threads | unlocked flags, detached threads, loops over tags; a parser that holds the last picture |
| `IPCClient` | gRPC stub | call, streamCall, recordDownload | failures of the server |
| `VideoChannel`, `AudioChannel`, `FFmpeg_Encode` | codec contexts | encodeData, getAudioData | packet layouts, lengths at the limits of their fields |
| `FFmpeg_Decoder`, `H264Decoder`, `AACDecoder` | codec contexts | receiveData, handleOneFrame | packets across calls; when the codec is full; error codes |
| `ConfigCtrl` | a map, a file | setValue, publish, initValues | crash while writing; a start that needs a good file |
| `Crypto` | none | encrypt, decrypt | the last piece; being an involution |
| `CameraFilter`, `CursorPosProvider`, page layout | none that matters | adapters to Qt | - |

How they interact: `main.qml` calls `MainCtrl`, `VideoSender`, `RecordCtrl` and
`ConfigCtrl` in the GUI thread. `MainCtrl` plays and stops a `VideoCtrl` per
window, each of which owns a `VideoCapture` with its pull thread; the pull thread
takes packets apart, decrypts and decodes them and emits frames, which the event
loop of the GUI thread delivers to the `FrameProvider` and the render thread
draws. `VideoSender` has a `SafeQueue` between the producers (the camera in the
GUI thread, the microphone in the audio thread) and its push thread. The server's
status messages arrive in a thread of `MainCtrl`, through `IPCClient`. A recording
is downloaded whole to one file, which `FlvPlayer` reads in its feed thread.

What makes each part correct is stated as properties below; `hazards` in
PROJECT.json lists where in the code it could go wrong.

## Modules

| Module | Models | State and actions |
|---|---|---|
| `SafeQueue` | `SafeQueue.hpp` | Operators for each method, parameterised by the callers, and a specification of the queue alone under clients that call anything in any order. `pop` is three steps (take, wait, give up when not working), a wakeup may be spurious. |
| `PacketStream` | what `VideoSender` promises | Packets are accepted, sent in order, lost when the stream fails, dropped at its end. |
| `VideoSender` | `VideoSender.cpp`, the callbacks of `VideoChannel` | GUI thread: `push`, `openAudio`, camera frame, `stop` in its steps. Push thread: connect, setWork, check, pop, send, fail, clear, finish. Audio thread: rounds and the end. `StampPacket` and `EnqueuePacket` are separate because the time stamp is read outside the mutex of the queue. |
| `WindowStream` | what a window promises to `MainCtrl` | play, stop, a stream that ends by itself, `std::terminate` |
| `VideoCtrl` | `VideoCtrl.cpp`, `VideoCapture.cpp` | GUI thread: `play`, `stop`, `join`, `release`, audio, presenting a queued frame. Pull thread: one action per exit of `init`, `pull` and the handlers. `outputs` counts the audio outputs that are alive, `repeated` the descriptions of the sound that made one although the stream had one. |
| `FramePath` | the picture of a window: `VideoCtrl.cpp:72-94`, `FrameProvider.cpp`, the surface of Qt | `beginWrite` and `endWrite` in the pull thread, a queue of signals, `onNewFrameReceived` and `setVideoSurface` in the GUI thread, `beginDraw` and `endDraw` in the render thread. Copies share one buffer; `map` fails while another thread holds the frame. |
| `WindowDecoders` | what outlives a stream in `VideoCtrl.cpp` and `RecordCtrl.cpp` | the picture the parser holds, the one it held when the stream began, the frame and the stream it was made for, whether a picture was copied into a frame of another size, the ADTS header |
| `StreamFormat` | packet bodies: `VideoChannel.cpp`, `AudioChannel.cpp` against `VideoCapture.cpp`; the ADTS header of `VideoCtrl.cpp` | one body at a time, byte by byte: an encoder makes it, a handler takes it apart |
| `Crypto` | `Crypto.hpp` | both runs of `crypt`: `xor_unit` a byte, `nextUnit` a piece |
| `FFmpegDecoder` | `FFmpeg_Decoder.cpp` | both loops of `receiveData`: `parse`, `send`, `receiveFrame`, `receiveNothing`, `return` |
| `MainCtrl` | `MainCtrl.cpp`, handlers of `main.qml` | one action per handler; `playVideo` and the timer are split where another thread can run in between, `MessageHandle` between finding a device and writing to it. Uses `WindowStream` for each window. |
| `ClientSession` | `MainCtrl.cpp`, `IPCClient.cpp`, the destructors | settings, register, login, the message stream, what plays or talks (a `WindowStream` for each), and the exit, which destroys the objects in any order |
| `RecordSession` | the record page, `IPCClient::recordDownload` | a click rewrites the file while the GUI thread waits, `downloaded` takes name and key and presses the button, `playClicked` and `stopClicked`; `feed` reads what the file is by then |
| `ConfigCtrl` | `ConfigCtrl.cpp`, the save button, the start | `start`, `save` (which empties the file), `publish`, and `down` at any moment |
| `FlvPlayer` | `FlvPlayer.cpp`, the buttons that reach it | A file is the sequence of its tags. Feed thread: reset, check, end or header, tag, rest of the iteration. GUI thread: `start`, `stop` and `join`, `pause`, single steps. Detached step threads: `step_by_frame` under `file_mutex`, then `is_pause = false`. |
| `RecordScreen` | `RecordCtrl.cpp` behind `FlvPlayer` | extends it by the picture the parser holds, the pictures in the event loop of the GUI thread and the one on the screen. An action of `FlvPlayer` comes with what the decoder does: `showFrame` emits the picture that is due or, when the frame cannot be mapped, drops it; `onNewFrameReceived` and `stopAgain` (a `stop` that only flushes) are its own. |
| `MCMainCtrl`, `MCRecordScreen` | - | symmetry of the registration codes; the recordings and the lengths of the steps |
| `MCSession` | - | `ClientSession`, `RecordSession` and `ConfigCtrl` in one run |
| `MCMedia` | - | `FFmpegDecoder`, `StreamFormat`, `Crypto` and `WindowDecoders` in one run |
| `*_proofs` | - | the theorems of the module, see below |

`VideoCtrl` implements `WindowStream` (run `video_ctrl`, theorem
`WindowRefinement`), and `MainCtrl` and `ClientSession` use `WindowStream`, so
that they compose without exploring pull threads and device lists together.
`VideoSender` implements `PacketStream` (run `video_sender`, theorem
`StreamRefinement`) and uses the
operators of `SafeQueue`. `RecordScreen` composes `FlvPlayer` with decoder and
surface. The modules that `MCSession` and `MCMedia` put together share no state:
in a behaviour one of them runs and the others stay as they begin, so that the
states of one run are the sum and not the product of theirs.

In `FlvPlayer`, `pos` stands for `cur_idx` and the offset of `file_fd`, `shown`
for the last frame this run has handed over with `play` true, and `decoded` for the same
frame if everything it depends on was handed over before it. A step that runs in a closed
file, before `feed_task` has reset the position or before the header works on
whatever is in `tag_header`: it is `Astray`, ends with any count (`LoopsEnd`) or
never. One that never ends keeps `file_mutex` (`Spinning`), so that `stop` waits
for ever; the liveness properties name this case.

## Runs

| Run | What it shows | Bounds |
|---|---|---|
| `safe_queue` | No lost wakeup; no element is both queued and released, and none leaves but by `pop` or the release of `clear` (`ElementsHaveOneOwner`). | 4 elements, 1 consumer, as in the program |
| `video_sender` | Packets have one owner; `stop` reaches a push thread blocked in `pop`; a stopped talk has no thread; a session starts with an empty queue, `std::terminate` needs a broken stream and the audio thread never uses a reset channel (`TalkIsSafe`); at most one packet per producer carries an older start time; `PacketStream` is implemented. With fair threads `push`, `openAudio` and `stop` return and accepted packets leave the queue. | 2 sessions, so that one follows a broken one, and 2 packets besides the sequence header of each session |
| `video_ctrl` | `stop` frees only when the pull thread is over, a stopped window holds nothing but one audio output for each repeated description of the sound, `std::terminate` needs a stream that ended by itself (`WindowIsSafe`); a stopped window queues no frame; `stop` returns; `WindowStream` is implemented. | 3 plays (after a broken stream, and after a clean one), 3 queued frames, 3 audio outputs (`MaxOutputs`): two of them pushed aside, or one in each of two streams |
| `frame_path` | What is drawn is whole and in the format of its frame (`DrawnAsDecoded`); the screen never goes back to an older picture or stream; the last picture is drawn. | 2 streams of any of 2 sizes, 3 pictures each, 3 queued signals: one drawn, one queued, one written |
| `main_ctrl` | Devices, windows and players agree; a key added twice plays once; only the first window is replaced, only when all play, and never for nothing. | 3 devices on 2 windows: replacement and duplicates happen; 1 message in flight besides the one being handled; talk refused, streams do not end |
| `main_talk` | The camera films only in a talk a device has agreed to; with a timer that is served, a device that plays, was shown online and went offline is stopped. | 2 devices, 1 window, 1 stream ends, talks agreed or refused |
| `main_talk_flag` (violation) | `is_talking` stays set after a talk was ended. | 2 devices, 2 windows |
| `flv_player` | The count of tags decoded without being shown is right (`PlayerInv`); a single step from a pause hands over the neighbouring frame, and one forward emits the frame that is due, as the newest on its way to the screen, unless the buffer could not be mapped (`StepsAreExact`); a picture that is emitted, and one that comes to the screen, was decoded with all it depends on; of the recording before at most one picture is emitted, and first, and the screen never goes back to an older recording (`OldPictureComesFirst`). | 2 recordings (a description and other data between frames; a P frame before the first I frame), 2 starts, 1 picture of a run in the event loop (`MaxQueued`) besides those of the run before, 1 step thread alive at a time, steps by -2 and 3 frames: both directions, past both ends |
| `flv_player_live` | `stop` and the step back return unless a step thread loops; decoding without showing ends; a frame that is handed over to be shown, and has a frame behind it, comes to the screen unless the buffer could not be mapped, and what was emitted comes to the screen whatever is pressed (`FrameComesToScreen`). | 1 recording, 1 start, steps by -2 frames |
| `flv_button` (violation) | The button disagrees with the player. | as `flv_player_live`, with steps in both directions |
| `session` | A fault needs a named cause and no object goes before its threads (`SessionIsSafe`); the exit returns; the configuration file is all or nothing, lost only by a kill while it is written, and a start fails for named causes only (`ConfigIsSafe`); name, key and button of the record page agree with file and player (`PageMatchesPlayer`); what is decoded is what was asked for, unless a row is clicked while it plays. | one program from start to exit with a window, a talk and a recording; any number of restarts with 2 keys and 5 values; 3 recordings, any number of clicks |
| `media` | The codec is never full and never keeps a frame (`CodecKeepsUp`); the parser gets each byte once and in order; the cipher is the key repeated over the frame and decrypting undoes it (`CryptIsRight`); a window plays each stream with the format of its own sound, and its pictures go into a frame of another size if and only if the picture the stream before has left made that frame and is of another size (`DecodersFitStream`); the receiver takes from a packet what the sender put in, all of it, and the ADTS header says its length and format (`PacketsArrive`). | calls of 3 of 6 bytes, 2 frames a packet: packets across calls, several in one; keys of 1 to 3 and frames of 0 to 7 bytes: no, one and several pieces, the last short or whole; 4 streams of 2 sizes; units of 4, 255, 256 and 700 bytes, audio up to 8185 bytes with 7 of header, which is one too many for 13 bits |

Two windows stand for the four of the page: `findWindow` tells the first window
from the others, and a window that is free from one that plays. With talks one
window is enough, as a talk does not depend on which window it was asked in.

### Disagreements found

* `MainCtrl.cpp:219`. The menu of a window stays open while the timer may stop
  the window's video. `stopTalk` then returns before it clears `is_talking`,
  while the page stops the sender and the camera. From then on `startTalk`
  refuses and, as the camera is off, `stopTalk` is never called: no talk is
  possible until the program is restarted. `MainCtrl.h:117` says that the flag
  tells whether a talk goes on.
* `FlvPlayer.cpp:128`. A step thread clears `is_pause` when it has found its
  position, also when the user has pressed pause or stepped by a frame in the
  meantime. The player plays on under a button that says it pauses, and the next
  click does the opposite of what `main.qml:961` writes on it.

### Behaviour the properties are stated around

The models have each of these, and the properties name them as the exception
they are:

* a stream that ended by itself is not joined by `stop`, and the next start
  calls `std::terminate` (`VideoSender.cpp:56`, `VideoCapture.cpp:34`); so does
  destroying an object whose thread runs (`VideoSender.cpp:27`,
  `FlvPlayer.cpp:10`);
* a broken stream leaves the audio thread running (`VideoSender.cpp:142`);
* frames queued before `stop` are shown after it (`VideoCtrl.cpp:142`), and so
  is a picture of a recording that is emitted while `stop` waits: it arrives
  behind the flush and stays on the surface until the next (`RecordCtrl.cpp:75`,
  `:103`);
* every description of the sound makes and starts a new audio output, and `stop`
  frees the last only (`VideoCtrl.cpp:52`, without the guard of
  `RecordCtrl.cpp:33`); the sender repeats the description with every tenth
  buffer (`VideoSender.cpp:192`), so that a window that plays gains outputs and
  leaves them behind: `WindowIsSafe` says that there is one for each repetition,
  and no other;
* the picture a stream leaves in the parser makes the frame of the next one in
  the window. When the two differ in size, every picture of the new stream is
  copied into a frame that does not fit until `stop`, past its end when it is
  larger (`VideoCtrl.cpp:72-91`); `DecodersFitStream` says that this happens
  then, for the whole stream, and never otherwise;
* a picture is dropped when the render thread holds the buffer at the moment it
  comes out of the decoder (`RecordCtrl.cpp:72`): a single step forward may
  then show nothing new, and a picture that was to be shown may never be seen;
* a reply or a message of the server that is not JSON throws
  (`IPCClient.cpp:23`, `MainCtrl.cpp:249`); the models have none;
* `stopTalk` notifies the device of the window whose menu was opened: after a
  talk with another device that one is never told (`MainCtrl.cpp:221`);
* a device that is played and goes offline before the timer has seen it online
  is never stopped (`main.qml:419`);
* a call to register that fails takes the reason from a null reply, which
  throws (`MainCtrl.cpp:301`), and an exit without a login joins a null thread
  (`MainCtrl.cpp:13`);
* a download that fails returns its path like one that succeeds
  (`IPCClient.cpp:91`), and the page plays what has arrived;
* a value of the configuration is read up to its first blank
  (`ConfigCtrl.cpp:65`), and an empty one for the directory of the recordings
  keeps the program from starting (`VideoCtrl.cpp:174`);
* the results of FFmpeg are kept in a `UINT32`, so that a decoding error hands
  an empty frame on (`FFmpeg_Decoder.cpp:111`);
* an ADTS length is cut to 13 bits (`VideoCtrl.cpp:57`);
* the window of the recordings keeps the frame and the audio format of the first
  recording it has shown (`RecordCtrl.cpp:33`, `:69`);
* a step thread that outlives `stop`, or starts before the header is read, may
  loop with the mutex (`FlvPlayer.cpp:70`, `:79`); a single step back from a
  player that plays may be one frame off (`FlvPlayer.cpp:120`), which is why
  `StepsAreExact` starts from a player at rest; and as the parser holds each
  picture until the next begins, a step back that lands on an I frame brings the
  frame before the step to the screen (`FlvPlayer.cpp:86`).

## Fairness

* `VideoSender`: weak fairness of each thread. The operating system
  schedules them, and the calls of librtmp return because `Link.timeout` is set.
  A waiting `pop` is not assumed to wake up by itself. The user owes nothing.
* `VideoCtrl`: weak fairness of the GUI thread inside `stop` and of the pull
  thread, for the same reasons.
* `FramePath`: weak fairness of the event loop, of a write and of a drawing that
  have begun; strong fairness of the render thread's map, which fails only for
  the time of a write.
* `MainCtrl`: weak fairness of a handler that has started, strong fairness of
  the timer, because the event loop serves timers although the user goes on
  clicking. The message thread and the user are not fair.
* `ClientSession`: weak fairness of the exit and of the message thread, and of a
  server that was told of the logout and ends the stream of that user, which is
  what `MainCtrl.cpp:9-13` waits for.
* `RecordScreen`: weak fairness of the threads and, for the steps that take
  `file_mutex`, strong fairness: the feed thread takes the mutex again and again,
  and `request_step` makes it sleep before it does (`FlvPlayer.cpp:144`). Strong
  fairness of the event loop, which delivers what was posted to it although the
  user presses keys that keep the GUI thread in calls of the player. The user
  owes nothing.

## Proofs

Eight modules prove theorems with TLAPS, for any value of the constants. Each
proves an inductive invariant first, because none of the properties is
inductive by itself, with a lemma per action or per conjunct, and the properties
follow from it.

| Module | Inductive invariant, and why it is needed | Theorems |
|---|---|---|
| `VideoSender_proofs` | `IInv`: where each thread stands relative to the flags (`PcOK`, `QueueInLoop`, `StopProgress`, `PushThread`, `AudioThread`). That `stop` reaches `pop` depends on the order of its flag, `setWork` and `clear`; that a session starts empty, on who has cleared last and who may still push. For the refinement, `NothingRefilled`: the push thread may turn the queue on again after `stop` has turned it off, but nobody is left to fill it. For the owners of the packets, `OwnersInv`: what one owner has, no other has, and numbers are given once. For the time stamps, `StampsInv`: what is in the stream and on its way into it, place by place, and what each producer has got into it. | `StopNeverMissesPop`, `NoThreadLeft`, `TalkSafe`, `OwnershipHolds`, `OneStale`, `StreamRefinement` |
| `SafeQueue_proofs` | types, `NoLostWakeup` and `NoDanglingElement` together: what is queued is neither released nor queued twice, so that taking it leaves nothing behind | `WakeupsArrive`, `OwnershipHolds` |
| `VideoCtrl_proofs` | `IInv`: what `is_playing`, `is_pulling` and the places of both threads say of each other. It is `is_pulling` that makes the early return of `VideoCapture::stop` safe. `Outputs` counts the audio outputs: the one of the window and one for each repetition. | `WindowSafe`, `NoLateFrame`, `WindowRefinement` (`VideoCtrl` implements `WindowStream`) |
| `FramePath_proofs` | `Inv`: who has mapped which frame (`MapInv`), that a picture that is drawn is not written (`WriterInv`), and that streams go up from the screen over the surface and the event loop to the writer (`OrderInv`) | `DrawnRight`, `ScreenGoesForward` |
| `MainCtrl_proofs` | `IInv`: the books agree (`WindowsMatchDevices`), the references a handler keeps over its steps are good (`GuiRefs`), and only the first entry of a key is used (`OnlyFirstsAreUsed`) | `BooksAgree`, `OneWindow`, `PlayGoesThrough`, `OnlyFirstReplaced`, `CameraNeedsTalk` |
| `MCSession_proofs` | One for each of the three: `IInv` of `RecordSession` adds where the file is (`FileThere`), that a stopped player does not pause, and what a player that nobody disturbed reads; `SessionInv` of `ClientSession` ties the message thread, its stream and what plays to the step of the exit; `ConfigInv` says what each place of `publish` has left in the file. A step of the whole is a step of one (`StepOfOne`), so that the invariants hold together. | `PageIsRight`, `DecodesRight`, `SessionsAreSafe`, `ConfigurationIsSafe` |
| `MCMedia_proofs` | One for each of four: `Inv` of `FFmpegDecoder`: position and rest make up the bytes (`PositionInv`), and the codec is read empty before the next packet. `CryptInv`, the loop invariant of both runs of the cipher: which bytes are done, and with which byte of the key, though the position restarts in every piece. `WindowInv` of `WindowDecoders`: what the stream before has left, and that the frame of the window was made by it or by the first picture of its own. `PacketInv` of `StreamFormat`: the body on its way is one an encoder made of what was sent, and the header has its seven bytes. It rests on lemmas about the layout of a body (`SetsBytes`, `FrameRead`, `AudioRead`), about numbers cut into bytes and put together again (`U16RoundTrip`, `U32RoundTrip`, `LengthInHeader`) and about the start code (`StartCodeGoes`). | `PacketsCome`, `CodecKept`, `BytesInOrder`, `SentCipher`, `DecryptInvertsEncrypt`, `CipherIsRight`, `DecodersFit` |
| `RecordScreen_proofs` | `Inv`: where the threads of the player stand (`Control`), that a step at work moves to an I frame or back to the first tag (`Moved`), and that the count is above 0. `DecodedInv`: what comes next has been decoded up to the frame before it. `WaitInv`: the feed thread waits exactly while no I frame lies behind it, so that a tag is handed over if and only if it can be decoded. `HeldInv`, `QueueInv` and `InOrder`: the pictures in the parser, in the event loop and on the screen are whole and in the order of their runs, and the newest on its way is the one the run has emitted last. `StepInv`: from the key to the frame, nothing else moves the position, and the count is that of the tags left (`Left`); it rests on lemmas about where `step_by_frame` lands (`BackwardTwo`, `LastDecodable`, `LeftCountsDown`). `ForwardInv`: where the frame that is due is meanwhile, or that it was missed. | `PlayerIsSafe`, `WholePictures`, `OldPictureFirst`, `SingleSteps`, `ExactSteps`, `ScreenImplementsPlayer` |

They rest on the assumptions the modules name: the bounds are natural numbers,
one thread pops from a queue, `None` is no recording, the directory of the
recordings is one of the keys of the configuration, a recording is a finite
sequence of tags with a video frame, a NAL unit has at least four bytes and a
length that fits into four (a parameter set: into two, as `VideoChannel.cpp:96`
has room for 100 bytes of it), the index of a sample rate fits into four bits,
and the audio has one channel or two.

Every invariant and every action property of a run that is expected to pass is
proved. What needs fairness or ENABLED stays with TLC: `GuiReturns`,
`AcceptedPacketsLeave`, `StopReturns`, `OfflineIsStopped`, `RegulatingEnds`,
`FrameComesToScreen`, `LastPictureIsDrawn` and `ExitReturns`. `UnitsAt` is a
recursive function: its value is proved for a list of one unit, which is what
the sender makes; for longer lists it would be induction over data.

## Abstractions

* Packets, frames, keys are members of small sets or are counted; their bytes
  are left out but where they matter (`StreamFormat`, `Crypto`), and so are
  wording and logging. In the run of `Crypto` a byte has one bit; the theorems
  hold for any number.
* A call of librtmp succeeds or fails; a call to the server may fail, the one in
  `stopTalk` is taken to arrive.
* Parser and codec of FFmpeg follow their documented protocol: the parser holds
  a picture until the next begins, the codec takes a packet when its output has
  been read. The codec delivers a picture with its packet, as the encoder makes
  no B frames.
* The camera starts when it is told to.
* `MessageHandle` writing through a reference that `push_back` has moved either
  takes effect or is lost; that it may also crash adds no behaviour to a
  safety property.
* Objects of the page are destroyed in any order.
* In `RecordScreen` mapping the frame may fail at any time; `FramePath` has the
  two threads that map it and when. A player that plays does not run ahead of
  the event loop by more than `MaxQueued` pictures, as the feed thread sleeps
  after each (`RecordCtrl.cpp:76`); the theorems hold for every `MaxQueued`.
* What `publish` writes reaches the file when it is closed, as the lines fit into
  the buffer of the stream. Of a recording only which one it is counts, and not
  how much of it has arrived, which no code looks at.
* In `FlvPlayer` a step by seconds is a constant number of frames, the sleeps
  between frames are left out, and the four assignments at the start of
  `feed_task` are one step. A recording has a video frame; `step_by_frame` loops
  in one that has none. Opening the file succeeds.

## Not modelled

* `CameraFilter` and `CursorPosProvider` keep no state that matters: they pass a
  frame or a position on.
* The layout of the page: positions, colours, which page is visible.
* Inside the encoders and decoders: the parameters and calls of x264, faac and
  FFmpeg, the copies of picture planes, and the local recording of
  `FFmpeg_Encode`, whose time stamps divide by a frame rate. They are arithmetic
  on pixels and times, without control the properties could speak of.
* The generated files (`IPC.pb.*`, `IPC.grpc.pb.*`) and everything under
  `src/include/{grpc,nlohmann,lib*,...}`, `src/libs` and `src/shared`. That is
  more than 98 of 100 lines of the repository: the headers of libraries. The
  models take them as the code uses them, so that the share of the repository's
  lines they stand for is small though the program's own control is covered.

## Plan

1. Done: the talk (`SafeQueue`, `VideoSender`), the window (`VideoCtrl`,
   `FramePath`, `WindowDecoders`), the page (`MainCtrl`), recordings
   (`FlvPlayer`, `RecordScreen`, `RecordSession`), the session and the exit
   (`ClientSession`), `ConfigCtrl`, and the data (`StreamFormat`, `Crypto`,
   `FFmpegDecoder`).
2. Done: theorems for every safety property of the runs, the two refinements,
   and that the player with a screen is a player.
3. Left: the safety that the liveness properties rest on, such as that a player
   whose step threads kept to their run has something to decode while it
   regulates.
4. Left: the talk of `MainCtrl` composed with `VideoSender`.
