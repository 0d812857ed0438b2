------------------------------ MODULE MainCtrl ------------------------------
(***************************************************************************)
(* MainCtrl (MainCtrl.cpp) and the parts of main.qml that drive it: the    *)
(* list of devices, the monitoring windows, the menu of a window and the   *)
(* voice talk.  Two threads change its state.  The GUI thread runs the     *)
(* clicks of the user and a timer that looks for devices that went offline.*)
(* The message thread takes the status messages of the server and writes   *)
(* the is_active of a device, without a lock.                              *)
(*                                                                         *)
(* A window plays and stops a stream as WindowStream says, which module    *)
(* VideoCtrl implements.  Devices and windows are numbered from 1, with 0  *)
(* where the code has -1.                                                  *)
(***************************************************************************)
EXTENDS Naturals, Sequences, FiniteSets

CONSTANTS
  Keys,         \* registration codes of devices
  NWindows,     \* 4 in main.qml
  MaxDevices,   \* bound: entries of the device list
  MaxMessages,  \* bound: status messages on their way
  MaxEnds,      \* bound: streams that end by themselves
  TalkAnswers   \* external: what the server may answer to a request for a talk

ASSUME BoundsAssumption ==
  /\ NWindows \in Nat \ {0} /\ MaxDevices \in Nat /\ MaxMessages \in Nat /\ MaxEnds \in Nat
  /\ TalkAnswers \subseteq BOOLEAN

Windows == 1..NWindows

VARIABLES
  devices,     \* the list of DeviceInfo
  windows,     \* is_playing and device_idx of WindowInfo
  list,        \* is_active of each row of device_list_model, one row per device
  playing, stream, terminated,  \* of the VideoCtrl of each window, see WindowStream
  sound,       \* VideoCtrl::is_playing_audio of each window
  menu,        \* the window whose menu is open, or 0
  is_talking,
  camera,      \* the camera is active and the sender pushes
  talks,       \* external: keys of the devices the server keeps in a talk
  messages,    \* external: status messages of the server on their way
  handler,     \* the device MessageHandle found, 0 for none, and its status
  gui,         \* what the GUI thread does and with which device and window
  ends         \* counts streams that ended by themselves

streamVars == <<playing, stream, terminated>>
mediaVars == <<streamVars, sound>>
talkVars == <<is_talking, camera, talks>>
messageVars == <<messages, handler>>
vars == <<devices, windows, list, mediaVars, menu, talkVars, messageVars, gui, ends>>

Window == INSTANCE WindowStream

NoMessage == [device |-> 0, active |-> FALSE]
At(where, d, w) == [at |-> where, device |-> d, window |-> w]
Idle == At("idle", 0, 0)

Init ==
  /\ devices = << >> /\ list = << >>
  /\ windows = [w \in Windows |-> [is_playing |-> FALSE, device_idx |-> 0]]
  /\ Window!Init
  /\ sound = [w \in Windows |-> FALSE]
  /\ menu = 0
  /\ is_talking = FALSE /\ camera = FALSE /\ talks = {}
  /\ messages = << >> /\ handler = NoMessage
  /\ gui = At("start", 0, 0)
  /\ ends = 0

----------------------------------------------------------------------------
(* The GUI thread: login and devices. *)

(* login_user starts the message thread; then main.qml adds the devices of  *)
(* the user one by one, each with a call to the server.                     *)
login ==
  /\ gui.at = "start"
  /\ gui' = At("login", 0, 0)
  /\ UNCHANGED <<devices, windows, list, mediaVars, menu, talkVars, messageVars, ends>>

loginDone ==
  /\ gui.at = "login"
  /\ gui' = Idle
  /\ UNCHANGED <<devices, windows, list, mediaVars, menu, talkVars, messageVars, ends>>

(* A key may be added twice.  push_back may move the vector while           *)
(* MessageHandle holds a reference into it, and its write is then lost.  A  *)
(* call that fails changes nothing.                                         *)
addDevice(key) ==
  /\ gui.at \in {"login", "idle"}
  /\ Len(devices) < MaxDevices
  /\ devices' = Append(devices, [key |-> key, is_active |-> FALSE, is_playing |-> FALSE,
                                 is_playing_audio |-> FALSE, window_idx |-> 0])
  /\ list' = Append(list, FALSE)
  /\ handler' \in {handler, NoMessage}
  /\ menu' = 0
  /\ UNCHANGED <<windows, mediaVars, talkVars, messages, gui, ends>>

----------------------------------------------------------------------------
(* The GUI thread: video. *)

(* Mutation: the last window is the default. *)
findWindow_Last ==
  LET free == {w \in Windows : ~windows[w].is_playing}
  IN  IF free = {} THEN NWindows ELSE CHOOSE w \in free : \A v \in free : w <= v

(* The first window that does not play, else the first. *)
findWindow ==
  LET free == {w \in Windows : ~windows[w].is_playing}
  IN  IF free = {} THEN 1 ELSE CHOOSE w \in free : \A v \in free : w <= v

(* Mutation: the entry of the device keeps its audio flag. *)
stopVideo_KeepingAudio(d) ==
  LET w == devices[d].window_idx
  IN  /\ devices' = [devices EXCEPT ![d].is_playing = FALSE, ![d].window_idx = 0]
      /\ windows' = [windows EXCEPT ![w] = [is_playing |-> FALSE, device_idx |-> 0]]
      /\ Window!stop(w)
      /\ sound' = [sound EXCEPT ![w] = @ /\ ~playing[w]]

(* Mutation: the stream of the window goes on. *)
stopVideo_WithoutStop(d) ==
  LET w == devices[d].window_idx
  IN  /\ devices' = [devices EXCEPT ![d] = [@ EXCEPT !.is_playing = FALSE, !.is_playing_audio = FALSE,
                                                     !.window_idx = 0]]
      /\ windows' = [windows EXCEPT ![w] = [is_playing |-> FALSE, device_idx |-> 0]]
      /\ UNCHANGED mediaVars

(* For a device that has a window. *)
stopVideo(d) ==
  LET w == devices[d].window_idx
  IN  /\ devices' = [devices EXCEPT ![d] = [@ EXCEPT !.is_playing = FALSE, !.is_playing_audio = FALSE,
                                                     !.window_idx = 0]]
      /\ windows' = [windows EXCEPT ![w] = [is_playing |-> FALSE, device_idx |-> 0]]
      /\ Window!stop(w)
      /\ sound' = [sound EXCEPT ![w] = @ /\ ~playing[w]]

(* A stopVideo that may return at its first lines. *)
stopVideoIfAny(d) ==
  IF d \in DOMAIN devices /\ devices[d].window_idx \in Windows
  THEN stopVideo(d)
  ELSE UNCHANGED <<devices, windows, mediaVars>>

(* A click on the list: playVideo up to VideoCtrl::play. *)
playVideo(d) ==
  /\ gui = Idle
  /\ devices[d].is_active /\ ~devices[d].is_playing
  /\ gui' = At("play", d, findWindow)
  /\ IF windows[findWindow].is_playing
     THEN stopVideoIfAny(windows[findWindow].device_idx)
     ELSE UNCHANGED <<devices, windows, mediaVars>>
  /\ menu' = 0
  /\ UNCHANGED <<list, talkVars, messageVars, ends>>

(* The rest of playVideo; VideoCtrl::play refuses a window that plays. *)
playWindow ==
  /\ gui.at = "play"
  /\ IF playing[gui.window] \/ stream[gui.window] = "running"
     THEN UNCHANGED <<devices, windows, mediaVars>>
     ELSE /\ Window!play(gui.window)
          /\ sound' = [sound EXCEPT ![gui.window] = FALSE]
          /\ windows' = [windows EXCEPT ![gui.window] = [is_playing |-> TRUE, device_idx |-> gui.device]]
          /\ devices' = [devices EXCEPT ![gui.device] = [@ EXCEPT !.is_playing = TRUE,
                                                                  !.window_idx = gui.window]]
  /\ gui' = Idle
  /\ UNCHANGED <<list, menu, talkVars, messageVars, ends>>

----------------------------------------------------------------------------
(* The GUI thread: the timer, which visits every row of the list.           *)
tick ==
  /\ gui = Idle
  /\ list # << >>
  /\ gui' = At("tick", 1, 0)
  /\ UNCHANGED <<devices, windows, list, mediaVars, menu, talkVars, messageVars, ends>>

(* Mutation: the row follows the device before it is compared with it. *)
tickRow_Late ==
  /\ gui.at = "tick"
  /\ list' = [list EXCEPT ![gui.device] = devices[gui.device].is_active]
  /\ gui' = IF gui.device < Len(list) THEN At("tick", gui.device + 1, 0) ELSE Idle
  /\ UNCHANGED <<devices, windows, mediaVars, menu, talkVars, messageVars, ends>>

tickRow ==
  /\ gui.at = "tick"
  /\ IF list[gui.device] /\ ~devices[gui.device].is_active
     THEN stopVideoIfAny(gui.device)
     ELSE UNCHANGED <<devices, windows, mediaVars>>
  /\ list' = [list EXCEPT ![gui.device] = devices[gui.device].is_active]
  /\ gui' = IF gui.device < Len(list) THEN At("tick", gui.device + 1, 0) ELSE Idle
  /\ UNCHANGED <<menu, talkVars, messageVars, ends>>

----------------------------------------------------------------------------
(* The GUI thread: the menu of a window.  It opens over a window that plays;*)
(* the timer may stop the video while it is open.  A click elsewhere closes *)
(* it, and so does a click on an item.                                      *)
rightClick(w) ==
  /\ gui = Idle
  /\ windows[w].device_idx # 0 /\ devices[windows[w].device_idx].is_playing
  /\ menu' = w
  /\ UNCHANGED <<devices, windows, list, mediaVars, talkVars, messageVars, gui, ends>>

(* The device of the window the menu is open for, 0 for none. *)
menuDevice == windows[menu].device_idx

(* playAudio or stopAudio; both do nothing in a window without a device.    *)
menuAudio ==
  /\ gui = Idle /\ menu # 0
  /\ IF menuDevice # 0
     THEN LET on == ~devices[menuDevice].is_playing_audio
          IN  /\ sound' = [sound EXCEPT ![menu] = on]
              /\ devices' = [devices EXCEPT ![menuDevice] = [@ EXCEPT !.is_playing_audio = on]]
     ELSE UNCHANGED <<devices, sound>>
  /\ menu' = 0
  /\ UNCHANGED <<windows, list, streamVars, talkVars, messageVars, gui, ends>>

menuCloseVideo ==
  /\ gui = Idle /\ menu # 0
  /\ stopVideoIfAny(menuDevice)
  /\ menu' = 0
  /\ UNCHANGED <<list, talkVars, messageVars, gui, ends>>

(* Mutation: startTalk does not look at is_talking, nor at the answer. *)
startTalk_Unasked(answer) ==
  /\ is_talking' = (is_talking \/ answer)
  /\ camera' = TRUE
  /\ talks' = IF answer THEN talks \union {devices[menuDevice].key} ELSE talks

(* startTalk, which the server may refuse; camera and sender start when it  *)
(* has succeeded.                                                           *)
startTalk(answer) ==
  IF ~is_talking /\ menuDevice # 0 /\ answer
  THEN /\ is_talking' = TRUE /\ camera' = TRUE
       /\ talks' = talks \union {devices[menuDevice].key}
  ELSE UNCHANGED talkVars

(* stopTalk returns early in a window without a device; sender and camera   *)
(* stop in any case.                                                        *)
stopTalk ==
  /\ camera' = FALSE
  /\ IF is_talking /\ menuDevice # 0
     THEN is_talking' = FALSE /\ talks' = talks \ {devices[menuDevice].key}
     ELSE UNCHANGED <<is_talking, talks>>

menuTalk ==
  /\ gui = Idle /\ menu # 0
  /\ \/ camera /\ stopTalk
     \/ ~camera /\ \E answer \in TalkAnswers : startTalk(answer)
  /\ menu' = 0
  /\ UNCHANGED <<devices, windows, list, mediaVars, messageVars, gui, ends>>

----------------------------------------------------------------------------
(* The server and the network, and the message thread. *)

deviceChanges(key, active) ==
  /\ gui.at # "start"
  /\ Len(messages) < MaxMessages
  /\ messages' = Append(messages, [key |-> key, active |-> active])
  /\ UNCHANGED <<devices, windows, list, mediaVars, menu, talkVars, handler, gui, ends>>

streamEnds(w) ==
  /\ ends < MaxEnds
  /\ Window!StreamEnds(w)
  /\ ends' = ends + 1
  /\ UNCHANGED <<devices, windows, list, sound, menu, talkVars, messageVars, gui>>

(* Mutation: the loop does not end at the first device of that key. *)
MessageHandleFind_NoBreak ==
  /\ handler = NoMessage
  /\ messages # << >>
  /\ messages' = Tail(messages)
  /\ handler' \in {NoMessage} \union
       {[device |-> d, active |-> Head(messages).active] :
          d \in {e \in DOMAIN devices : devices[e].key = Head(messages).key}}
  /\ UNCHANGED <<devices, windows, list, mediaVars, menu, talkVars, gui, ends>>

(* MessageHandle looks for the first device of that key. *)
MessageHandleFind ==
  /\ handler = NoMessage
  /\ messages # << >>
  /\ messages' = Tail(messages)
  /\ LET found == {d \in DOMAIN devices : devices[d].key = Head(messages).key}
     IN  handler' = IF found = {} THEN NoMessage
                    ELSE [device |-> CHOOSE d \in found : \A e \in found : d <= e,
                          active |-> Head(messages).active]
  /\ UNCHANGED <<devices, windows, list, mediaVars, menu, talkVars, gui, ends>>

MessageHandleWrite ==
  /\ handler.device # 0
  /\ devices' = [devices EXCEPT ![handler.device] = [@ EXCEPT !.is_active = handler.active]]
  /\ handler' = NoMessage
  /\ UNCHANGED <<windows, list, mediaVars, menu, talkVars, messages, gui, ends>>

----------------------------------------------------------------------------
User ==
  \/ login
  \/ \E key \in Keys : addDevice(key)
  \/ \E d \in DOMAIN devices : playVideo(d)
  \/ \E w \in Windows : rightClick(w)
  \/ menuAudio \/ menuCloseVideo \/ menuTalk

GuiStep == loginDone \/ playWindow \/ tickRow

Message == MessageHandleFind \/ MessageHandleWrite

Environment ==
  \/ \E key \in Keys, active \in BOOLEAN : deviceChanges(key, active)
  \/ \E w \in Windows : streamEnds(w)

(* std::terminate ended the program. *)
Over == terminated /\ UNCHANGED vars

Next == Over \/ (~terminated /\ (User \/ GuiStep \/ tick \/ Message \/ Environment))

Spec == Init /\ [][Next]_vars

(* The event loop serves the timer although the user goes on clicking; the  *)
(* message thread may be slow.                                              *)
FairSpec == Spec /\ WF_vars(~terminated /\ GuiStep) /\ SF_vars(~terminated /\ tick)

----------------------------------------------------------------------------
(* Types of the members. *)
TypeOK ==
  /\ devices \in Seq([key : Keys, is_active : BOOLEAN, is_playing : BOOLEAN,
                      is_playing_audio : BOOLEAN, window_idx : 0..NWindows])
  /\ list \in Seq(BOOLEAN) /\ Len(list) = Len(devices)
  /\ windows \in [Windows -> [is_playing : BOOLEAN, device_idx : 0..Len(devices)]]
  /\ playing \in [Windows -> BOOLEAN] /\ sound \in [Windows -> BOOLEAN]
  /\ stream \in [Windows -> {"none", "running", "ended"}] /\ terminated \in BOOLEAN
  /\ menu \in 0..NWindows
  /\ is_talking \in BOOLEAN /\ camera \in BOOLEAN /\ talks \subseteq Keys
  /\ messages \in Seq([key : Keys, active : BOOLEAN])
  /\ handler \in [device : 0..Len(devices), active : BOOLEAN]
  /\ gui \in [at : {"start", "login", "idle", "play", "tick"}, device : 0..Len(devices),
              window : 0..NWindows]
  /\ ends \in 0..MaxEnds

(* The books of MainCtrl, the devices and the windows, and the VideoCtrl of *)
(* each window agree: a device that plays and a window that plays name each *)
(* other and the stream and the sound are as they say; one that does not    *)
(* play holds nothing.                                                      *)
WindowsMatchDevices ==
  /\ \A d \in DOMAIN devices :
       LET w == devices[d].window_idx
       IN  IF devices[d].is_playing
           THEN w # 0 /\ windows[w].device_idx = d /\ devices[d].is_playing_audio = sound[w]
           ELSE w = 0 /\ ~devices[d].is_playing_audio
  /\ \A w \in Windows :
       LET d == windows[w].device_idx
       IN  /\ windows[w].is_playing = playing[w]
           /\ IF playing[w] THEN d # 0 /\ devices[d].window_idx = w
                            ELSE d = 0 /\ ~sound[w] /\ stream[w] # "running"

(* A device that was added twice is not played in two windows: only its     *)
(* first entry ever becomes active.                                         *)
OneWindowPerKey ==
  \A d, e \in DOMAIN devices :
    devices[d].is_playing /\ devices[e].is_playing /\ devices[d].key = devices[e].key => d = e

(* The camera films and the sender pushes only while MainCtrl has a talk    *)
(* and the server keeps a device in it, in whatever window the talk was     *)
(* started and stopped (MainCtrl.cpp:190, main.qml:2165).                   *)
CameraOnlyInTalk == camera => is_talking /\ talks # {}

(* A click on the list takes a window from its device only when no window   *)
(* is free, and then the first one (MainCtrl.h:102).                        *)
OnlyFirstIsReplaced ==
  [][gui.at = "idle" /\ gui'.at = "play" =>
       \A w \in Windows : windows'[w] # windows[w] =>
         w = 1 /\ \A v \in Windows : windows[v].is_playing]_vars

(* Once playVideo has taken the window from its device, the new device is   *)
(* played: VideoCtrl::play never refuses, and no window is emptied for      *)
(* nothing.                                                                 *)
PlayNeverRefused ==
  [][gui.at = "play" /\ gui'.at = "idle" => devices'[gui.device].is_playing]_vars

(* A device that plays, that the list showed online and that went offline   *)
(* is stopped by the timer, unless it comes back.                           *)
PlayingOffline == {d \in DOMAIN devices : devices[d].is_playing /\ ~devices[d].is_active}
ShownOnline == {d \in DOMAIN list : list[d]}
OfflineIsStopped ==
  \A d \in 1..MaxDevices :
    d \in PlayingOffline \intersect ShownOnline ~> terminated \/ d \notin PlayingOffline

(* MainCtrl.h:117: is_talking says whether a talk goes on.                  *)
TalkFlagIsTrue == is_talking = camera
=============================================================================
