--------------------------- MODULE MainCtrl_proofs ---------------------------
(***************************************************************************)
(* The books of MainCtrl, proved for any number of devices, windows,       *)
(* messages and streams that end: the device list, the windows and the     *)
(* VideoCtrl of each window agree at every step of the two threads.        *)
(***************************************************************************)
EXTENDS MainCtrl, SequenceTheorems, WellFoundedInduction, TLAPS

(* What playVideo and the timer remember between their steps still holds.   *)
GuiRefs ==
  /\ gui.at = "play" => /\ gui.device \in DOMAIN devices /\ ~devices[gui.device].is_playing
                        /\ gui.window \in Windows /\ ~playing[gui.window]
                        /\ stream[gui.window] # "running"
  /\ gui.at = "tick" => gui.device \in DOMAIN devices

(* The first entry of its key. *)
IsFirst(d) == \A e \in DOMAIN devices : devices[e].key = devices[d].key => d <= e

(* Only first entries become active, and with that are played.              *)
OnlyFirstsAreUsed ==
  /\ \A d \in DOMAIN devices :
       devices[d].is_active \/ devices[d].is_playing => IsFirst(d)
  /\ gui.at = "play" => IsFirst(gui.device)
  /\ handler.device # 0 => IsFirst(handler.device)

IInv == TypeOK /\ WindowsMatchDevices /\ GuiRefs /\ OnlyFirstsAreUsed

DeviceInfo == [key : Keys, is_active : BOOLEAN, is_playing : BOOLEAN,
               is_playing_audio : BOOLEAN, window_idx : 0..NWindows]
WindowInfo == [is_playing : BOOLEAN, device_idx : 0..Len(devices)]

(* The types of an entry and of a window. *)
LEMMA Entries ==
  ASSUME TypeOK
  PROVE  /\ Len(devices) \in Nat /\ DOMAIN devices = 1..Len(devices)
         /\ NWindows \in Nat \ {0} /\ Windows = 1..NWindows
         /\ \A d \in DOMAIN devices :
              /\ devices[d] \in DeviceInfo
              /\ devices[d].key \in Keys /\ devices[d].window_idx \in 0..NWindows
              /\ devices[d].is_active \in BOOLEAN /\ devices[d].is_playing \in BOOLEAN
              /\ devices[d].is_playing_audio \in BOOLEAN
         /\ \A w \in Windows :
              /\ windows[w] \in WindowInfo
              /\ windows[w].is_playing \in BOOLEAN /\ windows[w].device_idx \in 0..Len(devices)
              /\ playing[w] \in BOOLEAN /\ sound[w] \in BOOLEAN
              /\ stream[w] \in {"none", "running", "ended"}
<1>1. devices \in Seq(DeviceInfo)
  BY DEF TypeOK, DeviceInfo
<1>2. Len(devices) \in Nat /\ DOMAIN devices = 1..Len(devices) /\ NWindows \in Nat \ {0}
  BY <1>1, BoundsAssumption
<1>3. \A d \in DOMAIN devices : devices[d] \in DeviceInfo
  BY <1>1
<1>4. \A w \in Windows : windows[w] \in WindowInfo
  BY DEF TypeOK, WindowInfo
<1> QED
  BY <1>2, <1>3, <1>4 DEF TypeOK, DeviceInfo, WindowInfo, Windows

(* A change of one entry keeps the list. *)
LEMMA EntryChanged ==
  ASSUME TypeOK, NEW d \in DOMAIN devices, NEW info \in DeviceInfo,
         devices' = [devices EXCEPT ![d] = info]
  PROVE  /\ devices' \in Seq(DeviceInfo) /\ Len(devices') = Len(devices)
         /\ DOMAIN devices' = DOMAIN devices
         /\ devices'[d] = info
         /\ \A e \in DOMAIN devices \ {d} : devices'[e] = devices[e]
<1>1. devices \in Seq(DeviceInfo) /\ d \in 1..Len(devices) /\ DOMAIN devices = 1..Len(devices)
  BY Entries DEF TypeOK, DeviceInfo
<1>2. /\ devices' \in Seq(DeviceInfo) /\ Len(devices') = Len(devices)
      /\ \A j \in 1..Len(devices) : devices'[j] = IF j = d THEN info ELSE devices[j]
  BY <1>1, ExceptSeq
<1> QED
  BY <1>1, <1>2

LEMMA StoppedEntry ==
  ASSUME NEW old \in DeviceInfo
  PROVE  LET info == [old EXCEPT !.is_playing = FALSE, !.is_playing_audio = FALSE, !.window_idx = 0]
         IN  /\ info \in DeviceInfo /\ ~info.is_playing /\ ~info.is_playing_audio
             /\ info.window_idx = 0 /\ info.key = old.key /\ info.is_active = old.is_active
<1> DEFINE i1 == [old EXCEPT !.is_playing = FALSE]
           i2 == [i1 EXCEPT !.is_playing_audio = FALSE]
           i3 == [i2 EXCEPT !.window_idx = 0]
<1>1. 0 \in 0..NWindows
  BY BoundsAssumption
<1>2. i1 \in DeviceInfo /\ ~i1.is_playing /\ i1.key = old.key /\ i1.is_active = old.is_active
  BY DEF DeviceInfo
<1> HIDE DEF i1
<1>3. i2 \in DeviceInfo /\ ~i2.is_playing /\ ~i2.is_playing_audio /\ i2.key = old.key /\ i2.is_active = old.is_active
  BY <1>2 DEF DeviceInfo
<1> HIDE DEF i2
<1>4. i3 \in DeviceInfo /\ ~i3.is_playing /\ ~i3.is_playing_audio /\ i3.key = old.key
      /\ i3.is_active = old.is_active /\ i3.window_idx = 0
  BY <1>1, <1>3 DEF DeviceInfo
<1>5. i3 = [old EXCEPT !.is_playing = FALSE, !.is_playing_audio = FALSE, !.window_idx = 0]
  BY DEF i1, i2
<1> QED
  BY <1>4, <1>5

(* stopVideo of a device that has a window, field by field. *)
LEMMA StopVideo ==
  ASSUME TypeOK, NEW d \in DOMAIN devices, devices[d].window_idx \in Windows, stopVideo(d)
  PROVE  LET w == devices[d].window_idx
         IN  /\ devices' \in Seq(DeviceInfo) /\ Len(devices') = Len(devices)
             /\ DOMAIN devices' = DOMAIN devices
             /\ ~devices'[d].is_playing /\ ~devices'[d].is_playing_audio
             /\ devices'[d].window_idx = 0
             /\ devices'[d].key = devices[d].key /\ devices'[d].is_active = devices[d].is_active
             /\ \A e \in DOMAIN devices \ {d} : devices'[e] = devices[e]
             /\ windows' \in [Windows -> WindowInfo]
             /\ ~windows'[w].is_playing /\ windows'[w].device_idx = 0
             /\ playing' \in [Windows -> BOOLEAN] /\ ~playing'[w]
             /\ sound' \in [Windows -> BOOLEAN] /\ sound'[w] = (sound[w] /\ ~playing[w])
             /\ stream' \in [Windows -> {"none", "running", "ended"}]
             /\ playing[w] => stream'[w] # "running"
             /\ ~playing[w] => stream'[w] = stream[w]
             /\ \A v \in Windows \ {w} : /\ windows'[v] = windows[v] /\ playing'[v] = playing[v]
                                         /\ sound'[v] = sound[v] /\ stream'[v] = stream[v]
             /\ terminated' = terminated
<1> DEFINE w == devices[d].window_idx
           info == [devices[d] EXCEPT !.is_playing = FALSE, !.is_playing_audio = FALSE, !.window_idx = 0]
<1>1. /\ devices[d] \in DeviceInfo /\ w \in Windows /\ NWindows \in Nat
      /\ playing \in [Windows -> BOOLEAN] /\ sound \in [Windows -> BOOLEAN]
      /\ stream \in [Windows -> {"none", "running", "ended"}]
      /\ windows \in [Windows -> WindowInfo]
  BY Entries DEF TypeOK, WindowInfo
<1>2. /\ info \in DeviceInfo /\ ~info.is_playing /\ ~info.is_playing_audio /\ info.window_idx = 0
      /\ info.key = devices[d].key /\ info.is_active = devices[d].is_active
  <2> HIDE DEF w
  <2> QED
    BY <1>1, StoppedEntry
<1>3. devices' = [devices EXCEPT ![d] = info]
  BY DEF stopVideo
<1>4. /\ devices' \in Seq(DeviceInfo) /\ Len(devices') = Len(devices)
      /\ DOMAIN devices' = DOMAIN devices /\ devices'[d] = info
      /\ \A e \in DOMAIN devices \ {d} : devices'[e] = devices[e]
  <2> HIDE DEF info
  <2> QED
    BY <1>2, <1>3, EntryChanged
<1>5. /\ windows' = [windows EXCEPT ![w] = [is_playing |-> FALSE, device_idx |-> 0]]
      /\ sound' = [sound EXCEPT ![w] = sound[w] /\ ~playing[w]]
      /\ playing' = [playing EXCEPT ![w] = FALSE]
      /\ stream' = [stream EXCEPT ![w] = IF playing[w] /\ stream[w] = "running" THEN "none" ELSE stream[w]]
      /\ terminated' = terminated
  BY DEF stopVideo, Window!stop
<1>6. [is_playing |-> FALSE, device_idx |-> 0] \in WindowInfo
  BY Entries DEF WindowInfo
<1>7. /\ windows' \in [Windows -> WindowInfo] /\ ~windows'[w].is_playing /\ windows'[w].device_idx = 0
      /\ \A v \in Windows \ {w} : windows'[v] = windows[v]
  BY <1>1, <1>5, <1>6
<1>8. /\ playing' \in [Windows -> BOOLEAN] /\ ~playing'[w]
      /\ \A v \in Windows \ {w} : playing'[v] = playing[v]
  BY <1>1, <1>5
<1>9. /\ sound' \in [Windows -> BOOLEAN] /\ sound'[w] = (sound[w] /\ ~playing[w])
      /\ \A v \in Windows \ {w} : sound'[v] = sound[v]
  <2> DEFINE s == sound[w] /\ ~playing[w]
  <2>1. s \in BOOLEAN /\ sound' = [sound EXCEPT ![w] = s]
    BY <1>5, Zenon
  <2> HIDE DEF s
  <2>2. sound' \in [Windows -> BOOLEAN] /\ sound'[w] = s /\ \A v \in Windows \ {w} : sound'[v] = sound[v]
    BY <1>1, <2>1
  <2> QED
    BY <2>2 DEF s
<1>10. /\ stream' \in [Windows -> {"none", "running", "ended"}]
       /\ playing[w] => stream'[w] # "running"
       /\ ~playing[w] => stream'[w] = stream[w]
       /\ \A v \in Windows \ {w} : stream'[v] = stream[v]
  BY <1>1, <1>5
<1> HIDE DEF info
<1> QED
  BY <1>2, <1>4, <1>5, <1>7, <1>8, <1>9, <1>10

----------------------------------------------------------------------------
(* The books of one device and of one window. *)
DeviceBook(d) ==
  LET w == devices[d].window_idx
  IN  IF devices[d].is_playing
      THEN w \in Windows /\ windows[w].device_idx = d /\ (devices[d].is_playing_audio <=> sound[w])
      ELSE w = 0 /\ ~devices[d].is_playing_audio

WindowBook(w) ==
  LET d == windows[w].device_idx
  IN  /\ windows[w].is_playing <=> playing[w]
      /\ IF playing[w] THEN d \in DOMAIN devices /\ devices[d].window_idx = w
                       ELSE d = 0 /\ ~sound[w] /\ stream[w] # "running"

Books == (\A d \in DOMAIN devices : DeviceBook(d)) /\ (\A w \in Windows : WindowBook(w))

LEMMA BooksOpen == TypeOK => (WindowsMatchDevices <=> Books)
<1> SUFFICES ASSUME TypeOK PROVE WindowsMatchDevices <=> Books
  OBVIOUS
<1>1. ASSUME NEW d \in DOMAIN devices
      PROVE  DeviceBook(d) <=>
               LET w == devices[d].window_idx
               IN  IF devices[d].is_playing
                   THEN w # 0 /\ windows[w].device_idx = d /\ devices[d].is_playing_audio = sound[w]
                   ELSE w = 0 /\ ~devices[d].is_playing_audio
  BY Entries DEF DeviceBook
<1>2. ASSUME NEW w \in Windows
      PROVE  WindowBook(w) <=>
               LET d == windows[w].device_idx
               IN  /\ windows[w].is_playing = playing[w]
                   /\ IF playing[w] THEN d # 0 /\ devices[d].window_idx = w
                                    ELSE d = 0 /\ ~sound[w] /\ stream[w] # "running"
  BY Entries DEF WindowBook
<1> QED
  BY <1>1, <1>2 DEF WindowsMatchDevices, Books

LEMMA BooksClose == TypeOK' /\ Books' => WindowsMatchDevices'
  BY BooksOpen, PTL

(* A device with a window plays in it. *)
LEMMA Playing ==
  ASSUME TypeOK, WindowsMatchDevices, NEW d \in DOMAIN devices, devices[d].window_idx \in Windows
  PROVE  /\ devices[d].is_playing /\ playing[devices[d].window_idx]
         /\ windows[devices[d].window_idx].device_idx = d
<1>1. devices[d].window_idx # 0
  BY Entries
<1>2. devices[d].is_playing /\ windows[devices[d].window_idx].device_idx = d
  BY <1>1, BooksOpen DEF Books, DeviceBook
<1>3. d # 0
  BY Entries
<1> QED
  BY <1>2, <1>3, BooksOpen DEF Books, WindowBook

(* stopVideo takes the device and its window out of the books. *)
LEMMA StopKeepsBooks ==
  ASSUME TypeOK, TypeOK', WindowsMatchDevices, NEW d \in DOMAIN devices,
         devices[d].window_idx \in Windows, stopVideo(d)
  PROVE  WindowsMatchDevices'
<1> DEFINE w == devices[d].window_idx
<1>1. /\ playing[w] /\ windows[w].device_idx = d /\ devices[d].is_playing /\ w \in Windows
      /\ DOMAIN devices' = DOMAIN devices
  BY Playing, StopVideo
<1>2. ASSUME NEW e \in DOMAIN devices PROVE DeviceBook(e)'
  <2>0. DeviceBook(e)
    BY BooksOpen DEF Books
  <2>1. CASE e = d
    BY <2>1, StopVideo DEF DeviceBook
  <2>2. CASE e # d
    <3>1. devices'[e] = devices[e]
      BY <2>2, StopVideo
    <3>2. CASE devices[e].is_playing
      <4>1. devices[e].window_idx \in Windows \ {w}
        BY <1>1, <2>0, <2>2, <3>2 DEF DeviceBook
      <4> QED
        BY <2>0, <3>1, <3>2, <4>1, StopVideo DEF DeviceBook
    <3>3. CASE ~devices[e].is_playing
      BY <2>0, <3>1, <3>3 DEF DeviceBook
    <3> QED
      BY <3>2, <3>3
  <2> QED
    BY <2>1, <2>2
<1>3. ASSUME NEW v \in Windows PROVE WindowBook(v)'
  <2>0. WindowBook(v)
    BY BooksOpen DEF Books
  <2>1. CASE v = w
    BY <1>1, <2>1, StopVideo DEF WindowBook
  <2>2. CASE v # w
    <3>1. windows'[v] = windows[v] /\ playing'[v] = playing[v] /\ sound'[v] = sound[v] /\ stream'[v] = stream[v]
      BY <2>2, StopVideo
    <3>2. CASE playing[v]
      <4>1. windows[v].device_idx \in DOMAIN devices \ {d}
        BY <2>0, <2>2, <3>2 DEF WindowBook
      <4> QED
        BY <1>1, <2>0, <3>1, <3>2, <4>1, StopVideo DEF WindowBook
    <3>3. CASE ~playing[v]
      BY <2>0, <3>1, <3>3 DEF WindowBook
    <3> QED
      BY <3>2, <3>3
  <2> QED
    BY <2>1, <2>2
<1> QED
  BY <1>1, <1>2, <1>3, BooksClose DEF Books

----------------------------------------------------------------------------
(* Types. *)
BookTypes ==
  /\ devices \in Seq(DeviceInfo) /\ windows \in [Windows -> WindowInfo]
  /\ playing \in [Windows -> BOOLEAN] /\ sound \in [Windows -> BOOLEAN]
  /\ stream \in [Windows -> {"none", "running", "ended"}] /\ terminated \in BOOLEAN

OtherTypes ==
  /\ list \in Seq(BOOLEAN) /\ Len(list) = Len(devices)
  /\ menu \in 0..NWindows
  /\ is_talking \in BOOLEAN /\ camera \in BOOLEAN /\ talks \subseteq Keys
  /\ messages \in Seq([key : Keys, active : BOOLEAN])
  /\ handler \in [device : 0..Len(devices), active : BOOLEAN]
  /\ gui \in [at : {"start", "login", "idle", "play", "tick"}, device : 0..Len(devices),
              window : 0..NWindows]
  /\ ends \in 0..MaxEnds

LEMMA TypeParts == TypeOK <=> BookTypes /\ OtherTypes
  BY DEF TypeOK, BookTypes, OtherTypes, DeviceInfo, WindowInfo

LEMMA TypePartsNext == TypeOK' <=> BookTypes' /\ OtherTypes'
  BY TypeParts, PTL

LEMMA StopIfAnyTypes ==
  ASSUME TypeOK, NEW d, stopVideoIfAny(d)
  PROVE  BookTypes' /\ Len(devices') = Len(devices)
<1>1. CASE d \in DOMAIN devices /\ devices[d].window_idx \in Windows
  <2>1. stopVideo(d)
    BY <1>1 DEF stopVideoIfAny
  <2>2. /\ devices' \in Seq(DeviceInfo) /\ Len(devices') = Len(devices)
        /\ windows' \in [Windows -> WindowInfo] /\ playing' \in [Windows -> BOOLEAN]
        /\ sound' \in [Windows -> BOOLEAN] /\ stream' \in [Windows -> {"none", "running", "ended"}]
        /\ terminated' = terminated
    BY <1>1, <2>1, StopVideo
  <2>3. WindowInfo' = WindowInfo
    BY <2>2 DEF WindowInfo
  <2> QED
    BY <2>2, <2>3, TypeParts DEF BookTypes, DeviceInfo
<1>2. CASE ~(d \in DOMAIN devices /\ devices[d].window_idx \in Windows)
  <2>1. UNCHANGED <<devices, windows, mediaVars>>
    BY <1>2 DEF stopVideoIfAny
  <2> QED
    BY <2>1, TypeParts DEF BookTypes, mediaVars, streamVars, WindowInfo, DeviceInfo
<1> QED
  BY <1>1, <1>2

(* What does not change the books keeps their types. *)
LEMMA SameBooksTypes ==
  ASSUME TypeOK, UNCHANGED <<devices, windows, playing, stream, sound, terminated>>
  PROVE  BookTypes' /\ Len(devices') = Len(devices)
BY TypeParts DEF BookTypes, WindowInfo, DeviceInfo

(* The first of a set of numbers, as findWindow and MessageHandle take it.  *)
LEMMA Smallest ==
  ASSUME NEW S \in SUBSET Nat, S # {}
  PROVE  /\ (CHOOSE x \in S : \A y \in S : x <= y) \in S
         /\ \A z \in S : (CHOOSE x \in S : \A y \in S : x <= y) <= z
<1>1. PICK x \in S : \A y \in S : x <= y
  <2> DEFINE R == OpToRel(<, Nat)
  <2>1. IsWellFoundedOn(R, Nat)
    BY NatLessThanWellFounded
  <2>2. \A x, y \in Nat : <<y, x>> \in R <=> y < x
    BY DEF OpToRel
  <2> HIDE DEF R
  <2>3. PICK x \in S : \A y \in S : ~(<<y, x>> \in R)
    BY <2>1, WFMin
  <2>4. \A y \in S : ~(y < x)
    BY <2>2, <2>3, Zenon
  <2>5. \A y \in S : x \in Nat /\ y \in Nat
    BY <2>3, Zenon
  <2>6. \A y \in S : x <= y
    BY <2>4, <2>5
  <2> QED
    BY <2>3, <2>6, Zenon
<1> QED
  BY <1>1

(* The window a device is given. *)
LEMMA FoundWindow ==
  /\ findWindow \in Windows
  /\ windows[findWindow].is_playing => findWindow = 1 /\ \A w \in Windows : windows[w].is_playing
<1> DEFINE free == {w \in Windows : ~windows[w].is_playing}
<1>0. 1 \in Windows
  BY BoundsAssumption DEF Windows
<1>1. CASE free = {}
  BY <1>0, <1>1 DEF findWindow
<1>2. CASE free # {}
  <2>1. free \subseteq Nat
    BY BoundsAssumption DEF Windows
  <2>2. (CHOOSE u \in free : \A v \in free : u <= v) \in free
    <3> HIDE DEF free
    <3> QED
      BY <1>2, <2>1, Smallest
  <2> QED
    BY <1>2, <2>2 DEF findWindow
<1> QED
  BY <1>1, <1>2

(* Numbers that the types of the two threads need. *)
LEMMA Zeros ==
  ASSUME TypeOK
  PROVE  /\ 0 \in 0..Len(devices) /\ 0 \in 0..NWindows
         /\ \A d \in DOMAIN devices : d \in 0..Len(devices)
         /\ \A w \in Windows : w \in 0..NWindows
BY Entries

(* Steps that leave the books as they are. *)
LEMMA PlainTypes ==
  ASSUME TypeOK,
         \/ login \/ loginDone \/ tick \/ menuTalk \/ MessageHandleFind
         \/ \E w \in Windows : rightClick(w)
         \/ \E key \in Keys, active \in BOOLEAN : deviceChanges(key, active)
  PROVE  TypeOK'
<1> SUFFICES OtherTypes'
  <2>1. UNCHANGED <<devices, windows, playing, stream, sound, terminated>>
    BY DEF login, loginDone, tick, menuTalk, MessageHandleFind, rightClick, deviceChanges, mediaVars, streamVars
  <2> QED
    BY <2>1, SameBooksTypes, TypePartsNext
<1> USE Zeros, TypeParts DEF OtherTypes, mediaVars, streamVars, talkVars, messageVars, At, Idle
<1>1. CASE login
  BY <1>1 DEF login
<1>2. CASE loginDone
  BY <1>2 DEF loginDone
<1>3. CASE tick
  <2>1. 1 \in 0..Len(devices)
    BY <1>3 DEF tick
  <2> QED
    BY <1>3, <2>1 DEF tick
<1>4. CASE menuTalk
  <2>1. is_talking' \in BOOLEAN /\ camera' \in BOOLEAN /\ talks' \subseteq Keys
    <3>1. CASE stopTalk
      BY <3>1 DEF stopTalk
    <3>2. CASE \E answer \in TalkAnswers : startTalk(answer)
      <4>1. menu \in Windows /\ (menuDevice # 0 => menuDevice \in DOMAIN devices)
        BY <1>4, Entries DEF menuTalk, menuDevice
      <4>2. menuDevice # 0 => devices[menuDevice].key \in Keys
        BY <4>1, Entries
      <4> QED
        BY <3>2, <4>2 DEF startTalk
    <3> QED
      BY <1>4, <3>1, <3>2 DEF menuTalk
  <2> QED
    BY <1>4, <2>1 DEF menuTalk
<1>5. CASE MessageHandleFind
  <2>1. /\ messages' \in Seq([key : Keys, active : BOOLEAN])
        /\ Head(messages) \in [key : Keys, active : BOOLEAN]
    <3>1. messages # << >> /\ messages' = Tail(messages)
      BY <1>5, Zenon DEF MessageHandleFind
    <3>2. messages \in Seq([key : Keys, active : BOOLEAN])
      OBVIOUS
    <3> QED
      BY <3>1, <3>2, HeadTailProperties
  <2>2. handler' \in [device : 0..Len(devices), active : BOOLEAN]
    <3> DEFINE found == {d \in DOMAIN devices : devices[d].key = Head(messages).key}
               first == CHOOSE d \in found : \A e \in found : d <= e
    <3>1. CASE found = {}
      BY <1>5, <3>1 DEF MessageHandleFind, NoMessage
    <3>2. CASE found # {}
      <4>1. first \in found
        <5>1. found \subseteq Nat
          BY Entries
        <5> HIDE DEF found
        <5> QED
          BY <3>2, <5>1, Smallest
      <4>2. handler' = [device |-> first, active |-> Head(messages).active]
        BY <1>5, <3>2 DEF MessageHandleFind
      <4>3. first \in DOMAIN devices
        BY <4>1
      <4> HIDE DEF first
      <4> QED
        BY <2>1, <4>2, <4>3
    <3> QED
      BY <3>1, <3>2
  <2> QED
    BY <1>5, <2>1, <2>2 DEF MessageHandleFind
<1>6. CASE \E w \in Windows : rightClick(w)
  BY <1>6 DEF rightClick
<1>7. CASE \E key \in Keys, active \in BOOLEAN : deviceChanges(key, active)
  <2>1. PICK key \in Keys, active \in BOOLEAN : deviceChanges(key, active)
    BY <1>7
  <2>2. messages' \in Seq([key : Keys, active : BOOLEAN])
    BY <2>1 DEF deviceChanges
  <2> QED
    BY <2>1, <2>2 DEF deviceChanges
<1> QED
  BY <1>1, <1>2, <1>3, <1>4, <1>5, <1>6, <1>7

(* Steps that stop a video, or may. *)
LEMMA StopTypes ==
  ASSUME TypeOK,
         (\E d \in DOMAIN devices : playVideo(d)) \/ tickRow \/ menuCloseVideo,
         gui.at = "tick" => gui.device \in DOMAIN devices
  PROVE  TypeOK' /\ Len(devices') = Len(devices)
<1> SUFFICES OtherTypes' /\ BookTypes' /\ Len(devices') = Len(devices)
  BY TypePartsNext
<1> USE Zeros, TypeParts DEF talkVars, messageVars, At, Idle
<1>1. CASE \E d \in DOMAIN devices : playVideo(d)
  <2>1. PICK d \in DOMAIN devices : playVideo(d)
    BY <1>1
  <2>2. BookTypes' /\ Len(devices') = Len(devices)
    <3>1. CASE stopVideoIfAny(windows[findWindow].device_idx)
      BY <3>1, StopIfAnyTypes
    <3>2. CASE UNCHANGED <<devices, windows, mediaVars>>
      BY <3>2, SameBooksTypes DEF mediaVars, streamVars
    <3> QED
      BY <2>1, <3>1, <3>2 DEF playVideo
  <2>3. gui' = [at |-> "play", device |-> d, window |-> findWindow] /\ menu' = 0
        /\ UNCHANGED <<list, is_talking, camera, talks, messages, handler, ends>>
    BY <2>1, Zenon DEF playVideo
  <2>4. findWindow \in 0..NWindows
    BY FoundWindow
  <2> QED
    BY <2>2, <2>3, <2>4 DEF OtherTypes
<1>2. CASE tickRow
  <2>1. BookTypes' /\ Len(devices') = Len(devices)
    <3>1. CASE stopVideoIfAny(gui.device)
      BY <3>1, StopIfAnyTypes
    <3>2. CASE UNCHANGED <<devices, windows, mediaVars>>
      BY <3>2, SameBooksTypes DEF mediaVars, streamVars
    <3> QED
      BY <1>2, <3>1, <3>2 DEF tickRow
  <2>2. gui.device \in DOMAIN devices /\ devices[gui.device].is_active \in BOOLEAN
    BY <1>2, Entries DEF tickRow
  <2>3. list' \in Seq(BOOLEAN) /\ Len(list') = Len(list)
    <3>1. list' = [list EXCEPT ![gui.device] = devices[gui.device].is_active]
      BY <1>2 DEF tickRow
    <3>2. list \in Seq(BOOLEAN) /\ gui.device \in 1..Len(list)
      BY <2>2, Entries DEF OtherTypes
    <3> QED
      BY <2>2, <3>1, <3>2, ExceptSeq
  <2>4. gui' \in [at : {"start", "login", "idle", "play", "tick"}, device : 0..Len(devices),
                 window : 0..NWindows]
    <3>1. gui.device < Len(list) => gui.device + 1 \in 0..Len(devices)
      BY <2>2, Entries DEF OtherTypes
    <3> QED
      BY <1>2, <3>1 DEF tickRow
  <2>5. UNCHANGED <<menu, is_talking, camera, talks, messages, handler, ends>>
    BY <1>2, Zenon DEF tickRow
  <2> QED
    BY <2>1, <2>3, <2>4, <2>5 DEF OtherTypes
<1>3. CASE menuCloseVideo
  <2>1. BookTypes' /\ Len(devices') = Len(devices)
    BY <1>3, StopIfAnyTypes DEF menuCloseVideo
  <2>2. menu' = 0 /\ UNCHANGED <<list, is_talking, camera, talks, messages, handler, gui, ends>>
    BY <1>3, Zenon DEF menuCloseVideo
  <2> QED
    BY <2>1, <2>2 DEF OtherTypes
<1> QED
  BY <1>1, <1>2, <1>3

(* A device is added with nothing going on. *)
LEMMA AddDevice ==
  ASSUME TypeOK, NEW key \in Keys, addDevice(key)
  PROVE  /\ TypeOK'
         /\ Len(devices') = Len(devices) + 1 /\ DOMAIN devices' = 1..(Len(devices) + 1)
         /\ \A d \in DOMAIN devices : devices'[d] = devices[d]
         /\ LET info == devices'[Len(devices) + 1]
            IN  ~info.is_active /\ ~info.is_playing /\ ~info.is_playing_audio /\ info.window_idx = 0
         /\ gui.at \in {"login", "idle"}
         /\ UNCHANGED <<windows, playing, stream, sound, terminated, gui>>
         /\ handler' \in {handler, NoMessage}
<1> DEFINE info == [key |-> key, is_active |-> FALSE, is_playing |-> FALSE,
                    is_playing_audio |-> FALSE, window_idx |-> 0]
<1>0. info \in DeviceInfo /\ ~info.is_active /\ ~info.is_playing /\ ~info.is_playing_audio /\ info.window_idx = 0
  BY Zeros DEF DeviceInfo
<1>1. /\ devices' = Append(devices, info) /\ list' = Append(list, FALSE)
      /\ handler' \in {handler, NoMessage} /\ menu' = 0 /\ gui.at \in {"login", "idle"}
      /\ UNCHANGED <<windows, playing, stream, sound, terminated, is_talking, camera, talks, messages, gui, ends>>
  BY Zenon DEF addDevice, mediaVars, streamVars, talkVars
<1> HIDE DEF info
<1>2. /\ devices' \in Seq(DeviceInfo) /\ Len(devices') = Len(devices) + 1
      /\ \A d \in 1..Len(devices) : devices'[d] = devices[d]
      /\ devices'[Len(devices) + 1] = info
  BY <1>0, <1>1, AppendProperties, TypeParts DEF BookTypes
<1>3. DOMAIN devices' = 1..(Len(devices) + 1) /\ DOMAIN devices = 1..Len(devices) /\ Len(devices) \in Nat
  BY <1>2, Entries
<1>4. list' \in Seq(BOOLEAN) /\ Len(list') = Len(devices')
  BY <1>1, <1>2, AppendProperties, TypeParts DEF OtherTypes
<1>5. 0..Len(devices) \subseteq 0..Len(devices')
  BY <1>2, <1>3
<1>6. BookTypes'
  <2>1. windows' \in [Windows -> WindowInfo']
    <3>1. WindowInfo \subseteq WindowInfo'
      BY <1>5 DEF WindowInfo
    <3> QED
      BY <1>1, <3>1, TypeParts DEF BookTypes
  <2>2. devices' \in Seq(DeviceInfo')
    BY <1>2 DEF DeviceInfo
  <2> QED
    BY <1>1, <2>1, <2>2, TypeParts DEF BookTypes
<1>7. OtherTypes'
  <2>1. handler' \in [device : 0..Len(devices'), active : BOOLEAN]
    <3>1. handler \in [device : 0..Len(devices'), active : BOOLEAN]
      BY <1>5, TypeParts DEF OtherTypes
    <3>2. NoMessage \in [device : 0..Len(devices'), active : BOOLEAN]
      BY <1>2, <1>3 DEF NoMessage
    <3> QED
      BY <1>1, <3>1, <3>2
  <2>2. gui' \in [at : {"start", "login", "idle", "play", "tick"}, device : 0..Len(devices'),
                 window : 0..NWindows]
    BY <1>1, <1>5, TypeParts DEF OtherTypes
  <2> QED
    BY <1>1, <1>4, <2>1, <2>2, Zeros, TypeParts DEF OtherTypes
<1> QED
  BY <1>0, <1>1, <1>2, <1>3, <1>6, <1>7, TypePartsNext

LEMMA PlayedEntry ==
  ASSUME NEW old \in DeviceInfo, NEW w \in 0..NWindows
  PROVE  LET info == [old EXCEPT !.is_playing = TRUE, !.window_idx = w]
         IN  /\ info \in DeviceInfo /\ info.is_playing /\ info.window_idx = w
             /\ info.is_playing_audio = old.is_playing_audio
             /\ info.key = old.key /\ info.is_active = old.is_active
<1> DEFINE i1 == [old EXCEPT !.is_playing = TRUE]
           i2 == [i1 EXCEPT !.window_idx = w]
<1>1. i1 \in DeviceInfo /\ i1.is_playing /\ i1.key = old.key /\ i1.is_active = old.is_active
      /\ i1.is_playing_audio = old.is_playing_audio
  BY DEF DeviceInfo
<1> HIDE DEF i1
<1>2. i2 \in DeviceInfo /\ i2.is_playing /\ i2.window_idx = w /\ i2.key = old.key
      /\ i2.is_active = old.is_active /\ i2.is_playing_audio = old.is_playing_audio
  BY <1>1 DEF DeviceInfo
<1>3. i2 = [old EXCEPT !.is_playing = TRUE, !.window_idx = w]
  BY DEF i1
<1> QED
  BY <1>2, <1>3

(* playVideo goes on where it stopped: the window is still free.            *)
LEMMA PlayWindow ==
  ASSUME TypeOK, GuiRefs, playWindow
  PROVE  LET d == gui.device
             w == gui.window
         IN  /\ TypeOK' /\ gui.at = "play" /\ gui'.at = "idle"
             /\ d \in DOMAIN devices /\ w \in Windows /\ DOMAIN devices' = DOMAIN devices
             /\ devices'[d].is_playing /\ devices'[d].window_idx = w
             /\ devices'[d].is_playing_audio = devices[d].is_playing_audio
             /\ devices'[d].key = devices[d].key /\ devices'[d].is_active = devices[d].is_active
             /\ \A e \in DOMAIN devices \ {d} : devices'[e] = devices[e]
             /\ windows'[w].is_playing /\ windows'[w].device_idx = d
             /\ playing'[w] /\ ~sound'[w]
             /\ \A v \in Windows \ {w} : /\ windows'[v] = windows[v] /\ playing'[v] = playing[v]
                                         /\ sound'[v] = sound[v] /\ stream'[v] = stream[v]
             /\ UNCHANGED handler
<1> DEFINE d == gui.device
           w == gui.window
           info == [devices[d] EXCEPT !.is_playing = TRUE, !.window_idx = w]
<1>1. /\ gui.at = "play" /\ d \in DOMAIN devices /\ w \in Windows
      /\ ~playing[w] /\ stream[w] # "running" /\ w \in 0..NWindows
  BY Zeros DEF playWindow, GuiRefs
<1>2. /\ Window!play(w) /\ sound' = [sound EXCEPT ![w] = FALSE]
      /\ windows' = [windows EXCEPT ![w] = [is_playing |-> TRUE, device_idx |-> d]]
      /\ devices' = [devices EXCEPT ![d] = info]
      /\ gui' = Idle
      /\ UNCHANGED <<list, menu, is_talking, camera, talks, messages, handler, ends>>
  BY <1>1 DEF playWindow, talkVars, messageVars
<1>3. /\ info \in DeviceInfo /\ info.is_playing /\ info.window_idx = w
      /\ info.is_playing_audio = devices[d].is_playing_audio
      /\ info.key = devices[d].key /\ info.is_active = devices[d].is_active
  <2>1. devices[d] \in DeviceInfo
    BY <1>1, Entries
  <2> HIDE DEF w
  <2> QED
    BY <1>1, <2>1, PlayedEntry
<1>4. /\ devices' \in Seq(DeviceInfo) /\ Len(devices') = Len(devices)
      /\ DOMAIN devices' = DOMAIN devices /\ devices'[d] = info
      /\ \A e \in DOMAIN devices \ {d} : devices'[e] = devices[e]
  <2> HIDE DEF info, d
  <2> QED
    BY <1>1, <1>2, <1>3, EntryChanged
<1>5. /\ playing' = [playing EXCEPT ![w] = TRUE]
      /\ stream' = [stream EXCEPT ![w] = "running"]
      /\ terminated' = (stream[w] = "ended")
  BY <1>2 DEF Window!play
<1>6. terminated' \in BOOLEAN
  BY <1>5, Zenon
<1>7. /\ windows' \in [Windows -> WindowInfo] /\ windows'[w].is_playing /\ windows'[w].device_idx = d
      /\ \A v \in Windows \ {w} : windows'[v] = windows[v]
  <2>1. [is_playing |-> TRUE, device_idx |-> d] \in WindowInfo /\ windows \in [Windows -> WindowInfo]
    BY <1>1, Zeros, TypeParts DEF WindowInfo, BookTypes
  <2> QED
    BY <1>1, <1>2, <2>1
<1>8. /\ playing' \in [Windows -> BOOLEAN] /\ playing'[w]
      /\ sound' \in [Windows -> BOOLEAN] /\ ~sound'[w]
      /\ stream' \in [Windows -> {"none", "running", "ended"}]
      /\ \A v \in Windows \ {w} : /\ playing'[v] = playing[v] /\ sound'[v] = sound[v]
                                  /\ stream'[v] = stream[v]
  BY <1>1, <1>2, <1>5, TypeParts DEF BookTypes
<1>9. BookTypes'
  BY <1>4, <1>6, <1>7, <1>8 DEF BookTypes, WindowInfo, DeviceInfo
<1>10. OtherTypes'
  BY <1>2, <1>4, Zeros, TypeParts DEF OtherTypes, Idle, At
<1>11. gui'.at = "idle"
  BY <1>2 DEF Idle, At
<1> HIDE DEF info
<1> QED
  BY <1>1, <1>2, <1>3, <1>4, <1>7, <1>8, <1>9, <1>10, <1>11, TypePartsNext

(* The sound of a window that has a device is switched in both books.       *)
LEMMA MenuAudio ==
  ASSUME TypeOK, menuAudio, menuDevice # 0
  PROVE  LET d == menuDevice
             w == menu
         IN  /\ TypeOK' /\ d \in DOMAIN devices /\ w \in Windows /\ DOMAIN devices' = DOMAIN devices
             /\ d = windows[w].device_idx
             /\ sound'[w] = ~devices[d].is_playing_audio
             /\ devices'[d].is_playing_audio = ~devices[d].is_playing_audio
             /\ devices'[d].is_playing = devices[d].is_playing
             /\ devices'[d].window_idx = devices[d].window_idx
             /\ devices'[d].key = devices[d].key /\ devices'[d].is_active = devices[d].is_active
             /\ \A e \in DOMAIN devices \ {d} : devices'[e] = devices[e]
             /\ \A v \in Windows \ {w} : sound'[v] = sound[v]
             /\ UNCHANGED <<windows, playing, stream, gui, handler>>
<1> DEFINE d == menuDevice
           w == menu
           on == ~devices[d].is_playing_audio
           info == [devices[d] EXCEPT !.is_playing_audio = on]
<1>1. w \in Windows /\ d = windows[w].device_idx
  BY Entries, TypeParts DEF menuAudio, menuDevice, OtherTypes
<1>2. d \in DOMAIN devices
  BY <1>1, Entries
<1>3. /\ sound' = [sound EXCEPT ![w] = on] /\ devices' = [devices EXCEPT ![d] = info]
      /\ menu' = 0
      /\ UNCHANGED <<windows, list, playing, stream, terminated, is_talking, camera, talks,
                     messages, handler, gui, ends>>
  BY Zenon DEF menuAudio, streamVars, talkVars, messageVars
<1>4. on \in BOOLEAN /\ on = ~devices[d].is_playing_audio /\ devices[d] \in DeviceInfo
  BY <1>2, Entries
<1> HIDE DEF on
<1>5. /\ info \in DeviceInfo /\ info.is_playing_audio = on
      /\ info.is_playing = devices[d].is_playing /\ info.window_idx = devices[d].window_idx
      /\ info.key = devices[d].key /\ info.is_active = devices[d].is_active
  <2>1. ASSUME NEW old \in DeviceInfo
        PROVE  LET i == [old EXCEPT !.is_playing_audio = on]
               IN  /\ i \in DeviceInfo /\ i.is_playing_audio = on
                   /\ i.is_playing = old.is_playing /\ i.window_idx = old.window_idx
                   /\ i.key = old.key /\ i.is_active = old.is_active
    BY <1>4 DEF DeviceInfo
  <2> QED
    BY <1>4, <2>1
<1> HIDE DEF info
<1>6. /\ devices' \in Seq(DeviceInfo) /\ Len(devices') = Len(devices)
      /\ DOMAIN devices' = DOMAIN devices /\ devices'[d] = info
      /\ \A e \in DOMAIN devices \ {d} : devices'[e] = devices[e]
  <2> HIDE DEF d
  <2> QED
    BY <1>2, <1>3, <1>5, EntryChanged
<1>7. /\ sound' \in [Windows -> BOOLEAN] /\ sound'[w] = on
      /\ \A v \in Windows \ {w} : sound'[v] = sound[v]
  BY <1>1, <1>3, <1>4, TypeParts DEF BookTypes
<1>8. BookTypes'
  BY <1>3, <1>6, <1>7, TypeParts DEF BookTypes, WindowInfo, DeviceInfo
<1>9. OtherTypes'
  BY <1>3, <1>6, Zeros, TypeParts DEF OtherTypes
<1> QED
  BY <1>1, <1>2, <1>3, <1>4, <1>5, <1>6, <1>7, <1>8, <1>9, TypePartsNext

(* The message thread writes to the device it found. *)
LEMMA MessageWritten ==
  ASSUME TypeOK, MessageHandleWrite
  PROVE  LET d == handler.device
         IN  /\ TypeOK' /\ d \in DOMAIN devices /\ d # 0 /\ DOMAIN devices' = DOMAIN devices
             /\ devices'[d].is_playing = devices[d].is_playing
             /\ devices'[d].is_playing_audio = devices[d].is_playing_audio
             /\ devices'[d].window_idx = devices[d].window_idx /\ devices'[d].key = devices[d].key
             /\ \A e \in DOMAIN devices \ {d} : devices'[e] = devices[e]
             /\ handler'.device = 0
             /\ UNCHANGED <<windows, playing, stream, sound, gui>>
<1> DEFINE d == handler.device
           active == handler.active
           info == [devices[d] EXCEPT !.is_active = active]
<1>1. d \in DOMAIN devices /\ d # 0 /\ active \in BOOLEAN
  BY Entries, TypeParts DEF MessageHandleWrite, OtherTypes
<1>2. /\ devices' = [devices EXCEPT ![d] = info] /\ handler' = NoMessage
      /\ UNCHANGED <<windows, list, playing, stream, sound, terminated, menu, is_talking, camera, talks,
                     messages, gui, ends>>
  BY Zenon DEF MessageHandleWrite, mediaVars, streamVars, talkVars
<1>3. devices[d] \in DeviceInfo
  BY <1>1, Entries
<1>4. /\ info \in DeviceInfo /\ info.is_playing_audio = devices[d].is_playing_audio
      /\ info.is_playing = devices[d].is_playing /\ info.window_idx = devices[d].window_idx
      /\ info.key = devices[d].key
  <2>1. ASSUME NEW old \in DeviceInfo, NEW b \in BOOLEAN
        PROVE  LET i == [old EXCEPT !.is_active = b]
               IN  /\ i \in DeviceInfo /\ i.is_playing_audio = old.is_playing_audio
                   /\ i.is_playing = old.is_playing /\ i.window_idx = old.window_idx
                   /\ i.key = old.key
    BY DEF DeviceInfo
  <2> HIDE DEF active
  <2> QED
    BY <1>1, <1>3, <2>1
<1> HIDE DEF info
<1>5. /\ devices' \in Seq(DeviceInfo) /\ Len(devices') = Len(devices)
      /\ DOMAIN devices' = DOMAIN devices /\ devices'[d] = info
      /\ \A e \in DOMAIN devices \ {d} : devices'[e] = devices[e]
  <2> HIDE DEF d
  <2> QED
    BY <1>1, <1>2, <1>4, EntryChanged
<1>6. BookTypes'
  BY <1>2, <1>5, TypeParts DEF BookTypes, WindowInfo, DeviceInfo
<1>7. OtherTypes' /\ handler'.device = 0
  BY <1>2, <1>5, Zeros, TypeParts DEF OtherTypes, NoMessage
<1> QED
  BY <1>1, <1>2, <1>4, <1>5, <1>6, <1>7, TypePartsNext

LEMMA StreamEnded ==
  ASSUME TypeOK, NEW w \in Windows, streamEnds(w)
  PROVE  /\ TypeOK' /\ stream[w] = "running" /\ stream'[w] = "ended"
         /\ \A v \in Windows \ {w} : stream'[v] = stream[v]
         /\ UNCHANGED <<devices, windows, playing, sound, gui, handler>>
<1>1. /\ stream[w] = "running" /\ stream' = [stream EXCEPT ![w] = "ended"]
      /\ ends < MaxEnds /\ ends' = ends + 1
      /\ UNCHANGED <<devices, windows, list, playing, terminated, sound, menu, is_talking, camera, talks,
                     messages, handler, gui>>
  BY DEF streamEnds, Window!StreamEnds, talkVars, messageVars
<1>2. BookTypes'
  BY <1>1, TypeParts DEF BookTypes, WindowInfo, DeviceInfo
<1>3. OtherTypes'
  BY <1>1, BoundsAssumption, TypeParts DEF OtherTypes
<1> QED
  BY <1>1, <1>2, <1>3, TypeParts, TypePartsNext DEF BookTypes

(* A click on the sound of a window that has no device does nothing.        *)
LEMMA MenuAudioIdle ==
  ASSUME TypeOK, menuAudio, menuDevice = 0
  PROVE  TypeOK' /\ UNCHANGED <<devices, windows, playing, stream, sound, gui, handler>>
<1>1. UNCHANGED <<devices, windows, list, playing, stream, terminated, sound, is_talking, camera, talks,
                 messages, handler, gui, ends>> /\ menu' = 0
  BY Zenon DEF menuAudio, streamVars, talkVars, messageVars
<1>2. BookTypes'
  BY <1>1, TypeParts DEF BookTypes, WindowInfo, DeviceInfo
<1>3. OtherTypes'
  BY <1>1, Zeros, TypeParts DEF OtherTypes
<1> QED
  BY <1>1, <1>2, <1>3, TypePartsNext

(* Steps that touch neither the books nor what they lead to.                *)
Plain ==
  \/ login \/ loginDone \/ tick \/ menuTalk \/ MessageHandleFind
  \/ \E w \in Windows : rightClick(w)
  \/ \E key \in Keys, active \in BOOLEAN : deviceChanges(key, active)

(* The steps of the program one by one. *)
LEMMA Steps ==
  ASSUME [Next]_vars
  PROVE  \/ Plain
         \/ \E key \in Keys : addDevice(key)
         \/ \E d \in DOMAIN devices : playVideo(d)
         \/ tickRow
         \/ menuCloseVideo
         \/ playWindow
         \/ menuAudio
         \/ MessageHandleWrite
         \/ \E w \in Windows : streamEnds(w)
         \/ UNCHANGED vars
BY DEF Next, User, GuiStep, Message, Environment, Over, Plain

LEMMA Unchanged ==
  ASSUME TypeOK, UNCHANGED vars
  PROVE  TypeOK' /\ UNCHANGED <<devices, windows, playing, stream, sound, gui, handler>>
<1>1. UNCHANGED <<devices, windows, list, playing, stream, terminated, sound, menu, is_talking, camera, talks,
                 messages, handler, gui, ends>>
  BY Zenon DEF vars, mediaVars, streamVars, talkVars, messageVars
<1> QED
  BY <1>1 DEF TypeOK

LEMMA TypeStep == TypeOK /\ GuiRefs /\ [Next]_vars => TypeOK'
<1> SUFFICES ASSUME TypeOK, GuiRefs, [Next]_vars PROVE TypeOK'
  OBVIOUS
<1>1. gui.at = "tick" => gui.device \in DOMAIN devices
  BY DEF GuiRefs
<1>2. CASE Plain
  BY <1>2, PlainTypes DEF Plain
<1>3. CASE \E key \in Keys : addDevice(key)
  BY <1>3, AddDevice
<1>4. CASE (\E d \in DOMAIN devices : playVideo(d)) \/ tickRow \/ menuCloseVideo
  BY <1>1, <1>4, StopTypes
<1>5. CASE playWindow
  BY <1>5, PlayWindow
<1>6. CASE menuAudio
  BY <1>6, MenuAudio, MenuAudioIdle
<1>7. CASE MessageHandleWrite
  BY <1>7, MessageWritten
<1>8. CASE \E w \in Windows : streamEnds(w)
  BY <1>8, StreamEnded
<1>9. CASE UNCHANGED vars
  BY <1>9, Unchanged
<1> QED
  BY <1>2, <1>3, <1>4, <1>5, <1>6, <1>7, <1>8, <1>9, Steps

(* What a plain step leaves alone. *)
LEMMA PlainBooks ==
  ASSUME Plain
  PROVE  UNCHANGED <<devices, windows, playing, stream, sound>>
BY DEF Plain, login, loginDone, tick, menuTalk, MessageHandleFind, rightClick, deviceChanges, mediaVars, streamVars

----------------------------------------------------------------------------
(* The books. *)
LEMMA SameBooks ==
  ASSUME WindowsMatchDevices, UNCHANGED <<devices, windows, playing, stream, sound>>
  PROVE  WindowsMatchDevices'
BY DEF WindowsMatchDevices

LEMMA StopIfAnyBooks ==
  ASSUME TypeOK, TypeOK', WindowsMatchDevices, NEW d, stopVideoIfAny(d)
  PROVE  WindowsMatchDevices'
<1>1. CASE d \in DOMAIN devices /\ devices[d].window_idx \in Windows
  BY <1>1, StopKeepsBooks DEF stopVideoIfAny
<1>2. CASE ~(d \in DOMAIN devices /\ devices[d].window_idx \in Windows)
  BY <1>2, SameBooks DEF stopVideoIfAny, mediaVars, streamVars
<1> QED
  BY <1>1, <1>2

LEMMA BooksStep == TypeOK /\ TypeOK' /\ WindowsMatchDevices /\ GuiRefs /\ [Next]_vars => WindowsMatchDevices'
<1> SUFFICES ASSUME TypeOK, TypeOK', WindowsMatchDevices, GuiRefs, [Next]_vars PROVE WindowsMatchDevices'
  OBVIOUS
<1>0. Books
  BY BooksOpen
<1>1. CASE Plain
  BY <1>1, PlainBooks, SameBooks
<1>2. CASE \E key \in Keys : addDevice(key)
  <2>1. PICK key \in Keys : addDevice(key)
    BY <1>2
  <2>2. ASSUME NEW d \in DOMAIN devices' PROVE DeviceBook(d)'
    <3>1. CASE d \in DOMAIN devices
      BY <1>0, <2>1, <3>1, AddDevice DEF Books, DeviceBook
    <3>2. CASE d \notin DOMAIN devices
      <4>1. d = Len(devices) + 1
        BY <2>1, <2>2, <3>2, AddDevice, Entries
      <4> QED
        BY <2>1, <4>1, AddDevice DEF DeviceBook
    <3> QED
      BY <3>1, <3>2
  <2>3. ASSUME NEW w \in Windows PROVE WindowBook(w)'
    <3>1. DOMAIN devices \subseteq DOMAIN devices'
      BY <2>1, AddDevice, Entries
    <3> QED
      BY <1>0, <2>1, <3>1, AddDevice DEF Books, WindowBook
  <2> QED
    BY <2>2, <2>3, BooksClose DEF Books
<1>3. CASE \E d \in DOMAIN devices : playVideo(d)
  BY <1>3, StopIfAnyBooks, SameBooks DEF playVideo, mediaVars, streamVars
<1>4. CASE tickRow
  BY <1>4, StopIfAnyBooks, SameBooks DEF tickRow, mediaVars, streamVars
<1>5. CASE menuCloseVideo
  BY <1>5, StopIfAnyBooks DEF menuCloseVideo
<1>6. CASE playWindow
  <2> DEFINE d == gui.device
             w == gui.window
  <2>1. /\ d \in DOMAIN devices /\ w \in Windows /\ ~playing[w] /\ ~devices[d].is_playing
        /\ DOMAIN devices' = DOMAIN devices /\ w # 0 /\ d # 0
    BY <1>6, PlayWindow, Entries DEF GuiRefs, playWindow
  <2>2. ASSUME NEW e \in DOMAIN devices PROVE DeviceBook(e)'
    <3>1. CASE e = d
      <4>1. ~devices[d].is_playing_audio
        BY <1>0, <2>1 DEF Books, DeviceBook
      <4> QED
        BY <1>6, <2>1, <3>1, <4>1, PlayWindow DEF DeviceBook
    <3>2. CASE e # d
      <4>1. devices[e].is_playing => devices[e].window_idx \in Windows \ {w}
        BY <1>0, <2>1, <3>2, Entries DEF Books, DeviceBook, WindowBook
      <4>2. DeviceBook(e) /\ devices'[e] = devices[e]
        BY <1>0, <1>6, <3>2, PlayWindow DEF Books
      <4> QED
        BY <1>6, <4>1, <4>2, PlayWindow DEF DeviceBook
    <3> QED
      BY <3>1, <3>2
  <2>3. ASSUME NEW v \in Windows PROVE WindowBook(v)'
    <3>1. CASE v = w
      BY <1>6, <2>1, <3>1, PlayWindow DEF WindowBook
    <3>2. CASE v # w
      <4>1. WindowBook(v) /\ windows'[v] = windows[v] /\ playing'[v] = playing[v]
            /\ sound'[v] = sound[v] /\ stream'[v] = stream[v]
        BY <1>0, <1>6, <3>2, PlayWindow DEF Books
      <4>2. playing[v] => windows[v].device_idx \in DOMAIN devices \ {d}
        BY <1>0, <2>1, <4>1, Entries DEF Books, DeviceBook, WindowBook
      <4> QED
        BY <1>6, <2>1, <4>1, <4>2, PlayWindow DEF WindowBook
    <3> QED
      BY <3>1, <3>2
  <2> QED
    BY <2>1, <2>2, <2>3, BooksClose DEF Books
<1>7. CASE menuAudio /\ menuDevice # 0
  <2> DEFINE d == menuDevice
             w == menu
  <2>1. /\ d \in DOMAIN devices /\ w \in Windows /\ d = windows[w].device_idx
        /\ DOMAIN devices' = DOMAIN devices /\ d # 0
    BY <1>7, MenuAudio
  <2>2. playing[w] /\ devices[d].window_idx = w /\ devices[d].is_playing
    BY <1>0, <2>1, Entries DEF Books, DeviceBook, WindowBook
  <2>3. ASSUME NEW e \in DOMAIN devices PROVE DeviceBook(e)'
    <3>1. CASE e = d
      BY <1>7, <2>1, <2>2, <3>1, MenuAudio, ZenonT(60) DEF DeviceBook
    <3>2. CASE e # d
      <4>1. DeviceBook(e) /\ devices'[e] = devices[e]
        BY <1>0, <1>7, <3>2, MenuAudio DEF Books
      <4>2. devices[e].is_playing => devices[e].window_idx \in Windows \ {w}
        BY <2>1, <3>2, <4>1 DEF DeviceBook
      <4> QED
        BY <1>7, <4>1, <4>2, MenuAudio DEF DeviceBook
    <3> QED
      BY <3>1, <3>2
  <2>4. ASSUME NEW v \in Windows PROVE WindowBook(v)'
    <3>1. WindowBook(v) /\ UNCHANGED <<windows, playing, stream>>
      BY <1>0, <1>7, MenuAudio DEF Books
    <3>2. CASE v = w
      BY <1>7, <2>1, <2>2, <3>1, <3>2, MenuAudio DEF WindowBook
    <3>3. CASE v # w
      <4>1. playing[v] => devices'[windows[v].device_idx].window_idx = v
        BY <1>7, <3>1, MenuAudio DEF WindowBook
      <4> QED
        BY <1>7, <2>1, <3>1, <3>3, <4>1, MenuAudio DEF WindowBook
    <3> QED
      BY <3>2, <3>3
  <2> QED
    BY <2>1, <2>3, <2>4, BooksClose DEF Books
<1>8. CASE menuAudio /\ menuDevice = 0
  BY <1>8, MenuAudioIdle, SameBooks
<1>9. CASE MessageHandleWrite
  <2> DEFINE d == handler.device
  <2>1. ASSUME NEW e \in DOMAIN devices PROVE DeviceBook(e)'
    <3>1. /\ devices'[e].is_playing = devices[e].is_playing
          /\ devices'[e].is_playing_audio = devices[e].is_playing_audio
          /\ devices'[e].window_idx = devices[e].window_idx
      BY <1>9, MessageWritten
    <3> QED
      BY <1>0, <1>9, <3>1, MessageWritten DEF Books, DeviceBook
  <2>2. ASSUME NEW v \in Windows PROVE WindowBook(v)'
    <3>1. \A e \in DOMAIN devices : devices'[e].window_idx = devices[e].window_idx
      BY <1>9, MessageWritten
    <3> QED
      BY <1>0, <1>9, <3>1, MessageWritten DEF Books, WindowBook
  <2> QED
    BY <1>9, <2>1, <2>2, BooksClose, MessageWritten DEF Books
<1>10. CASE \E w \in Windows : streamEnds(w)
  <2>1. PICK w \in Windows : streamEnds(w)
    BY <1>10
  <2>2. ASSUME NEW e \in DOMAIN devices PROVE DeviceBook(e)'
    BY <1>0, <2>1, StreamEnded DEF Books, DeviceBook
  <2>3. ASSUME NEW v \in Windows PROVE WindowBook(v)'
    BY <1>0, <2>1, StreamEnded DEF Books, WindowBook
  <2> QED
    BY <2>1, <2>2, <2>3, BooksClose, StreamEnded DEF Books
<1>11. CASE UNCHANGED vars
  BY <1>11, Unchanged, SameBooks
<1> QED
  BY <1>1, <1>2, <1>3, <1>4, <1>5, <1>6, <1>7, <1>8, <1>9, <1>10, <1>11, Steps

----------------------------------------------------------------------------
(* What the threads remember between their steps. *)
LEMMA StopIfAnyEntries ==
  ASSUME TypeOK, NEW d, stopVideoIfAny(d)
  PROVE  /\ DOMAIN devices' = DOMAIN devices
         /\ \A e \in DOMAIN devices :
              /\ devices'[e].key = devices[e].key /\ devices'[e].is_active = devices[e].is_active
              /\ devices'[e].is_playing => devices[e].is_playing
<1>1. CASE d \in DOMAIN devices /\ devices[d].window_idx \in Windows
  BY <1>1, StopVideo DEF stopVideoIfAny
<1>2. CASE ~(d \in DOMAIN devices /\ devices[d].window_idx \in Windows)
  BY <1>2 DEF stopVideoIfAny
<1> QED
  BY <1>1, <1>2

(* playVideo leaves the window it found without a stream.                   *)
LEMMA PlayVideo ==
  ASSUME TypeOK, WindowsMatchDevices, NEW d \in DOMAIN devices, playVideo(d)
  PROVE  /\ DOMAIN devices' = DOMAIN devices
         /\ \A e \in DOMAIN devices :
              /\ devices'[e].key = devices[e].key /\ devices'[e].is_active = devices[e].is_active
              /\ devices'[e].is_playing => devices[e].is_playing
         /\ devices[d].is_active /\ ~devices'[d].is_playing
         /\ findWindow \in Windows /\ ~playing'[findWindow] /\ stream'[findWindow] # "running"
         /\ gui' = At("play", d, findWindow) /\ UNCHANGED handler
<1> DEFINE w == findWindow
<1>1. /\ w \in Windows /\ devices[d].is_active /\ ~devices[d].is_playing
      /\ gui' = At("play", d, w) /\ UNCHANGED handler
  BY FoundWindow, Zenon DEF playVideo, messageVars
<1>2. WindowBook(w)
  BY <1>1, BooksOpen DEF Books
<1> HIDE DEF w
<1>3. CASE windows[w].is_playing
  <2> DEFINE e == windows[w].device_idx
  <2>1. playing[w] /\ e \in DOMAIN devices /\ devices[e].window_idx = w
    BY <1>2, <1>3 DEF WindowBook
  <2>2. stopVideoIfAny(e)
    BY <1>3 DEF playVideo, w
  <2>3. stopVideo(e)
    BY <1>1, <2>1, <2>2 DEF stopVideoIfAny
  <2>4. ~playing'[w] /\ stream'[w] # "running"
    BY <1>1, <2>1, <2>3, StopVideo
  <2>5. /\ DOMAIN devices' = DOMAIN devices
        /\ \A x \in DOMAIN devices :
             /\ devices'[x].key = devices[x].key /\ devices'[x].is_active = devices[x].is_active
             /\ devices'[x].is_playing => devices[x].is_playing
    BY <2>2, StopIfAnyEntries
  <2> QED
    BY <1>1, <2>4, <2>5 DEF w
<1>4. CASE ~windows[w].is_playing
  <2>1. UNCHANGED <<devices, playing, stream>>
    BY <1>4 DEF playVideo, w, mediaVars, streamVars
  <2>2. ~playing[w] /\ stream[w] # "running"
    BY <1>2, <1>4 DEF WindowBook
  <2> QED
    BY <1>1, <2>1, <2>2 DEF w
<1> QED
  BY <1>3, <1>4

(* Plain steps: what the GUI thread does next, and the device found.        *)
LEMMA PlainGui ==
  ASSUME TypeOK, Plain
  PROVE  \/ UNCHANGED gui
         \/ gui'.at \notin {"play", "tick"}
         \/ gui'.at = "tick" /\ gui'.device \in DOMAIN devices
<1>1. CASE tick
  <2>1. 1 \in DOMAIN devices
    BY <1>1, Entries, TypeParts DEF tick, OtherTypes
  <2> QED
    BY <1>1, <2>1 DEF tick, At
<1>2. CASE login \/ loginDone
  BY <1>2 DEF login, loginDone, At, Idle
<1>3. CASE ~(tick \/ login \/ loginDone)
  BY <1>3 DEF Plain, menuTalk, MessageHandleFind, rightClick, deviceChanges
<1> QED
  BY <1>1, <1>2, <1>3

LEMMA RefsStep == TypeOK /\ WindowsMatchDevices /\ GuiRefs /\ [Next]_vars => GuiRefs'
<1> SUFFICES ASSUME TypeOK, WindowsMatchDevices, GuiRefs, [Next]_vars PROVE GuiRefs'
  OBVIOUS
<1>1. CASE Plain
  BY <1>1, PlainBooks, PlainGui DEF GuiRefs
<1>2. CASE \E key \in Keys : addDevice(key)
  BY <1>2, AddDevice DEF GuiRefs
<1>3. CASE \E d \in DOMAIN devices : playVideo(d)
  BY <1>3, PlayVideo DEF GuiRefs, At
<1>4. CASE tickRow
  <2>1. DOMAIN devices' = DOMAIN devices
    <3>1. CASE stopVideoIfAny(gui.device)
      BY <3>1, StopIfAnyEntries
    <3>2. CASE UNCHANGED devices
      BY <3>2
    <3> QED
      BY <1>4, <3>1, <3>2 DEF tickRow
  <2>2. gui.device \in DOMAIN devices
    BY <1>4 DEF tickRow, GuiRefs
  <2>3. gui.device < Len(list) => gui.device + 1 \in DOMAIN devices
    BY <2>2, Entries, TypeParts DEF OtherTypes
  <2> QED
    BY <1>4, <2>1, <2>3 DEF tickRow, GuiRefs, At, Idle
<1>5. CASE menuCloseVideo
  BY <1>5 DEF menuCloseVideo, GuiRefs, Idle, At
<1>6. CASE playWindow
  BY <1>6, PlayWindow DEF GuiRefs
<1>7. CASE menuAudio
  BY <1>7 DEF menuAudio, GuiRefs, Idle, At
<1>8. CASE MessageHandleWrite
  <2>1. /\ DOMAIN devices' = DOMAIN devices /\ UNCHANGED <<playing, stream, gui>>
        /\ \A d \in DOMAIN devices : devices'[d].is_playing = devices[d].is_playing
    BY <1>8, MessageWritten
  <2> QED
    BY <2>1 DEF GuiRefs
<1>9. CASE \E w \in Windows : streamEnds(w)
  BY <1>9, StreamEnded DEF GuiRefs
<1>10. CASE UNCHANGED vars
  BY <1>10, Unchanged DEF GuiRefs
<1> QED
  BY <1>1, <1>2, <1>3, <1>4, <1>5, <1>6, <1>7, <1>8, <1>9, <1>10, Steps

----------------------------------------------------------------------------
(* Only the first entry of a key is ever used. *)

(* A step that keeps the keys and makes no other device active or play.     *)
LEMMA FirstsKept ==
  ASSUME OnlyFirstsAreUsed, DOMAIN devices' = DOMAIN devices,
         \A e \in DOMAIN devices :
           /\ devices'[e].key = devices[e].key
           /\ devices'[e].is_active \/ devices'[e].is_playing => IsFirst(e),
         gui'.at = "play" => gui'.device \in DOMAIN devices /\ IsFirst(gui'.device),
         handler'.device # 0 => handler'.device \in DOMAIN devices /\ IsFirst(handler'.device)
  PROVE  OnlyFirstsAreUsed'
<1>1. \A e \in DOMAIN devices : IsFirst(e)' <=> IsFirst(e)
  BY DEF IsFirst
<1>2. \A e \in DOMAIN devices' : devices'[e].is_active \/ devices'[e].is_playing => IsFirst(e)'
  BY <1>1
<1>3. gui'.at = "play" => (IsFirst(gui.device))'
  BY DEF IsFirst
<1>4. handler'.device # 0 => (IsFirst(handler.device))'
  BY DEF IsFirst
<1> QED
  BY <1>2, <1>3, <1>4 DEF OnlyFirstsAreUsed

(* What MessageHandle finds is the first entry of the key. *)
LEMMA FoundIsFirst ==
  ASSUME TypeOK, MessageHandleFind, handler'.device # 0
  PROVE  handler'.device \in DOMAIN devices /\ IsFirst(handler'.device)
<1> DEFINE found == {d \in DOMAIN devices : devices[d].key = Head(messages).key}
           first == CHOOSE d \in found : \A e \in found : d <= e
<1>1. handler' = IF found = {} THEN NoMessage ELSE [device |-> first, active |-> Head(messages).active]
  BY Zenon DEF MessageHandleFind
<1>2. found # {} /\ handler'.device = first
  <2> HIDE DEF first, found
  <2> QED
    BY <1>1 DEF NoMessage
<1>3. found \subseteq Nat
  BY Entries
<1>4. first \in found /\ \A e \in found : first <= e
  <2> HIDE DEF found
  <2> QED
    BY <1>2, <1>3, Smallest
<1> HIDE DEF first
<1>5. first \in DOMAIN devices /\ devices[first].key = Head(messages).key
  BY <1>4
<1>6. \A e \in DOMAIN devices : devices[e].key = devices[first].key => first <= e
  BY <1>4, <1>5
<1> QED
  BY <1>2, <1>5, <1>6 DEF IsFirst

LEMMA FirstsStep ==
  TypeOK /\ WindowsMatchDevices /\ GuiRefs /\ OnlyFirstsAreUsed /\ [Next]_vars => OnlyFirstsAreUsed'
<1> SUFFICES ASSUME TypeOK, WindowsMatchDevices, GuiRefs, OnlyFirstsAreUsed, [Next]_vars
             PROVE  OnlyFirstsAreUsed'
  OBVIOUS
<1>0. /\ \A e \in DOMAIN devices : devices[e].is_active \/ devices[e].is_playing => IsFirst(e)
      /\ gui.at = "play" => gui.device \in DOMAIN devices /\ IsFirst(gui.device)
      /\ handler.device # 0 => handler.device \in DOMAIN devices /\ IsFirst(handler.device)
  BY Entries, TypeParts DEF OnlyFirstsAreUsed, GuiRefs, OtherTypes
<1>1. CASE Plain
  <2>1. UNCHANGED devices /\ (gui'.at = "play" => gui' = gui)
    BY <1>1, PlainBooks, PlainGui
  <2>2. CASE MessageHandleFind
    BY <1>0, <2>1, <2>2, FirstsKept, FoundIsFirst
  <2>3. CASE ~MessageHandleFind
    <3>1. UNCHANGED handler
      BY <1>1, <2>3, Zenon DEF Plain, login, loginDone, tick, menuTalk, rightClick, deviceChanges, messageVars
    <3> QED
      BY <1>0, <2>1, <3>1, FirstsKept
  <2> QED
    BY <2>2, <2>3
<1>2. CASE \E key \in Keys : addDevice(key)
  <2>1. PICK key \in Keys : addDevice(key)
    BY <1>2
  <2>2. \A e \in DOMAIN devices : IsFirst(e) => IsFirst(e)'
    BY <2>1, AddDevice, Entries DEF IsFirst
  <2>3. \A e \in DOMAIN devices' : devices'[e].is_active \/ devices'[e].is_playing => IsFirst(e)'
    <3>1. \A e \in DOMAIN devices' : e \in DOMAIN devices \/ e = Len(devices) + 1
      BY <2>1, AddDevice, Entries
    <3> QED
      BY <1>0, <2>1, <2>2, <3>1, AddDevice
  <2>4. gui'.at # "play"
    BY <2>1, AddDevice
  <2>5. handler'.device # 0 => (IsFirst(handler.device))'
    <3>1. CASE handler' = handler
      <4>1. handler'.device # 0 => \A e \in DOMAIN devices' :
              devices'[e].key = devices'[handler'.device].key => handler'.device <= e
        BY <1>0, <2>2, <3>1 DEF IsFirst
      <4> QED
        BY <4>1 DEF IsFirst
    <3>2. CASE handler' = NoMessage
      BY <3>2 DEF NoMessage
    <3> QED
      BY <2>1, <3>1, <3>2, AddDevice
  <2> QED
    BY <2>3, <2>4, <2>5 DEF OnlyFirstsAreUsed
<1>3. CASE \E d \in DOMAIN devices : playVideo(d)
  <2>1. PICK d \in DOMAIN devices : playVideo(d)
    BY <1>3
  <2>2. gui'.device = d /\ IsFirst(d)
    BY <1>0, <2>1, PlayVideo DEF At
  <2> QED
    BY <1>0, <2>1, <2>2, PlayVideo, FirstsKept
<1>4. CASE tickRow \/ menuCloseVideo
  <2>1. /\ DOMAIN devices' = DOMAIN devices
        /\ \A e \in DOMAIN devices :
             /\ devices'[e].key = devices[e].key /\ devices'[e].is_active = devices[e].is_active
             /\ devices'[e].is_playing => devices[e].is_playing
    BY <1>4, StopIfAnyEntries DEF tickRow, menuCloseVideo
  <2>2. gui'.at # "play" /\ UNCHANGED handler
    BY <1>4 DEF tickRow, menuCloseVideo, messageVars, At, Idle
  <2> QED
    BY <1>0, <2>1, <2>2, FirstsKept
<1>5. CASE playWindow
  <2>1. /\ DOMAIN devices' = DOMAIN devices
        /\ \A e \in DOMAIN devices :
             /\ devices'[e].key = devices[e].key /\ devices'[e].is_active = devices[e].is_active
             /\ e # gui.device => devices'[e].is_playing = devices[e].is_playing
    BY <1>5, PlayWindow
  <2>2. gui.at = "play" /\ gui'.at # "play" /\ UNCHANGED handler
    BY <1>5, PlayWindow
  <2> QED
    BY <1>0, <2>1, <2>2, FirstsKept
<1>6. CASE menuAudio
  <2>1. /\ DOMAIN devices' = DOMAIN devices /\ UNCHANGED <<gui, handler>>
        /\ \A e \in DOMAIN devices :
             /\ devices'[e].key = devices[e].key /\ devices'[e].is_active = devices[e].is_active
             /\ devices'[e].is_playing = devices[e].is_playing
    BY <1>6, MenuAudio, MenuAudioIdle
  <2> QED
    BY <1>0, <2>1, FirstsKept
<1>7. CASE MessageHandleWrite
  <2>1. /\ DOMAIN devices' = DOMAIN devices /\ UNCHANGED gui /\ handler'.device = 0
        /\ handler.device # 0
        /\ \A e \in DOMAIN devices :
             /\ devices'[e].key = devices[e].key /\ devices'[e].is_playing = devices[e].is_playing
             /\ e # handler.device => devices'[e].is_active = devices[e].is_active
    BY <1>7, MessageWritten
  <2> QED
    BY <1>0, <2>1, FirstsKept
<1>8. CASE (\E w \in Windows : streamEnds(w)) \/ UNCHANGED vars
  <2>1. UNCHANGED <<devices, gui, handler>>
    BY <1>8, StreamEnded, Unchanged
  <2> QED
    BY <1>0, <2>1, FirstsKept
<1> QED
  BY <1>1, <1>2, <1>3, <1>4, <1>5, <1>6, <1>7, <1>8, Steps

----------------------------------------------------------------------------
LEMMA InitEstablishes == Init => IInv
<1> SUFFICES ASSUME Init PROVE IInv
  OBVIOUS
<1>1. /\ devices = << >> /\ list = << >> /\ messages = << >> /\ talks = {}
      /\ windows = [w \in Windows |-> [is_playing |-> FALSE, device_idx |-> 0]]
      /\ playing = [w \in Windows |-> FALSE] /\ sound = [w \in Windows |-> FALSE]
      /\ stream = [w \in Windows |-> "none"]
      /\ terminated = FALSE /\ is_talking = FALSE /\ camera = FALSE /\ menu = 0 /\ ends = 0
      /\ handler = [device |-> 0, active |-> FALSE]
      /\ gui = [at |-> "start", device |-> 0, window |-> 0]
  BY DEF Init, Window!Init, NoMessage, At
<1>2. NWindows \in Nat /\ MaxEnds \in Nat
  BY BoundsAssumption
<1>3. Len(devices) = 0 /\ DOMAIN devices = {} /\ 0 \in 0..Len(devices) /\ 0 \in 0..NWindows /\ 0 \in 0..MaxEnds
  BY <1>1, <1>2
<1>4. BookTypes
  <2>1. [is_playing |-> FALSE, device_idx |-> 0] \in WindowInfo
    BY <1>3 DEF WindowInfo
  <2>2. windows \in [Windows -> WindowInfo]
    BY <1>1, <2>1, Zenon
  <2>3. devices \in Seq(DeviceInfo)
    BY <1>1
  <2>4. playing \in [Windows -> BOOLEAN] /\ sound \in [Windows -> BOOLEAN]
        /\ stream \in [Windows -> {"none", "running", "ended"}] /\ terminated \in BOOLEAN
    BY <1>1, Zenon
  <2> QED
    BY <2>2, <2>3, <2>4 DEF BookTypes
<1>5. OtherTypes
  <2>1. list \in Seq(BOOLEAN) /\ Len(list) = Len(devices) /\ messages \in Seq([key : Keys, active : BOOLEAN])
    BY <1>1
  <2>2. handler \in [device : 0..Len(devices), active : BOOLEAN]
    BY <1>1, <1>3
  <2>3. gui \in [at : {"start", "login", "idle", "play", "tick"}, device : 0..Len(devices),
                window : 0..NWindows]
    BY <1>1, <1>3
  <2>4. menu \in 0..NWindows /\ ends \in 0..MaxEnds /\ is_talking \in BOOLEAN /\ camera \in BOOLEAN
        /\ talks \subseteq Keys
    BY <1>1, <1>3, Zenon
  <2> QED
    BY <2>1, <2>2, <2>3, <2>4 DEF OtherTypes
<1>6. WindowsMatchDevices
  BY <1>1, <1>3 DEF WindowsMatchDevices
<1>7. GuiRefs /\ OnlyFirstsAreUsed
  BY <1>1, <1>3 DEF GuiRefs, OnlyFirstsAreUsed
<1> QED
  BY <1>4, <1>5, <1>6, <1>7, TypeParts DEF IInv

(* The inductive invariant of MainCtrl. *)
THEOREM BooksInvariant == Spec => []IInv
<1>1. IInv /\ [Next]_vars => IInv'
  BY TypeStep, BooksStep, RefsStep, FirstsStep DEF IInv
<1> QED
  BY InitEstablishes, <1>1, PTL DEF Spec

(* Every variable keeps its type; no index leaves the lists it refers to.   *)
THEOREM TypeCorrect == Spec => []TypeOK
<1>1. IInv => TypeOK
  BY DEF IInv
<1> QED
  BY BooksInvariant, <1>1, PTL

(* Devices, windows and the players of the windows agree, whatever the      *)
(* clicks, the timer and the message thread do in between.                  *)
THEOREM BooksAgree == Spec => []WindowsMatchDevices
<1>1. IInv => WindowsMatchDevices
  BY DEF IInv
<1> QED
  BY BooksInvariant, <1>1, PTL

(* A key that was added twice plays in one window at most, because          *)
(* MessageHandle ends its loop at the first entry (MainCtrl.cpp:260).       *)
THEOREM OneWindow == Spec => []OneWindowPerKey
<1>1. IInv => OneWindowPerKey
  <2> SUFFICES ASSUME IInv, NEW d \in DOMAIN devices, NEW e \in DOMAIN devices,
                      devices[d].is_playing, devices[e].is_playing, devices[d].key = devices[e].key
               PROVE  d = e
    BY DEF OneWindowPerKey
  <2>1. IsFirst(d) /\ IsFirst(e) /\ d \in Nat /\ e \in Nat
    BY Entries DEF IInv, OnlyFirstsAreUsed
  <2>2. d <= e /\ e <= d
    BY <2>1 DEF IsFirst
  <2> QED
    BY <2>1, <2>2
<1> QED
  BY BooksInvariant, <1>1, PTL

(* playVideo never gets a refusal from VideoCtrl::play: the window it took  *)
(* from a device is used.                                                   *)
THEOREM PlayGoesThrough == Spec => PlayNeverRefused
<1>1. IInv /\ [Next]_vars => [gui.at = "play" /\ gui'.at = "idle" => devices'[gui.device].is_playing]_vars
  <2> SUFFICES ASSUME IInv, [Next]_vars, gui.at = "play", gui'.at = "idle"
               PROVE  devices'[gui.device].is_playing
    OBVIOUS
  <2>1. CASE playWindow
    BY <2>1, PlayWindow DEF IInv
  <2>2. CASE ~playWindow
    <3>1. ~UNCHANGED gui
      OBVIOUS
    <3>2. \/ login \/ loginDone \/ tick \/ \E d \in DOMAIN devices : playVideo(d)
          \/ tickRow
      BY <2>2, <3>1
         DEF Next, User, GuiStep, Message, Environment, Over, addDevice, rightClick, menuAudio, menuCloseVideo,
             menuTalk, MessageHandleFind, MessageHandleWrite, deviceChanges, streamEnds, vars
    <3> QED
      BY <3>2 DEF login, loginDone, tick, playVideo, tickRow, Idle, At
  <2> QED
    BY <2>1, <2>2
<1> QED
  BY BooksInvariant, <1>1, PTL DEF Spec, PlayNeverRefused

(* A click takes a window from its device only if every window plays, and   *)
(* then the first.                                                          *)
THEOREM OnlyFirstReplaced == Spec => OnlyFirstIsReplaced
<1>1. IInv /\ [Next]_vars =>
        [gui.at = "idle" /\ gui'.at = "play" =>
           \A w \in Windows : windows'[w] # windows[w] => w = 1 /\ \A v \in Windows : windows[v].is_playing]_vars
  <2> SUFFICES ASSUME IInv, [Next]_vars, gui.at = "idle", gui'.at = "play",
                      NEW w \in Windows, windows'[w] # windows[w]
               PROVE  w = 1 /\ \A v \in Windows : windows[v].is_playing
    BY Zenon
  <2>1. PICK d \in DOMAIN devices : playVideo(d)
    <3>1. ~playWindow /\ ~tickRow
      BY DEF playWindow, tickRow
    <3> QED
      BY <3>1
         DEF Next, User, GuiStep, Message, Environment, Over, login, loginDone, tick, addDevice, rightClick,
             menuAudio, menuCloseVideo, menuTalk, MessageHandleFind, MessageHandleWrite, deviceChanges,
             streamEnds, vars, Idle, At
  <2> DEFINE f == findWindow
  <2>2. f \in Windows /\ (windows[f].is_playing => f = 1 /\ \A v \in Windows : windows[v].is_playing)
    BY FoundWindow
  <2> HIDE DEF f
  <2>3. windows[f].is_playing /\ stopVideoIfAny(windows[f].device_idx)
    BY <2>1 DEF playVideo, f
  <2>4. LET e == windows[f].device_idx
        IN  e \in DOMAIN devices /\ devices[e].window_idx = f
    BY <2>2, <2>3, BooksOpen DEF IInv, Books, WindowBook
  <2>5. w = f
    BY <2>2, <2>3, <2>4, StopVideo DEF stopVideoIfAny, IInv
  <2> QED
    BY <2>2, <2>3, <2>5
<1> QED
  BY BooksInvariant, <1>1, PTL DEF Spec, OnlyFirstIsReplaced

(* The menu starts the camera only with a talk the server has agreed to,    *)
(* and no step ends the talk, here or at the server, under a camera that    *)
(* films.                                                                   *)
THEOREM CameraNeedsTalk == Spec => []CameraOnlyInTalk
<1>1. Init => CameraOnlyInTalk
  BY DEF Init, CameraOnlyInTalk
<1>2. CameraOnlyInTalk /\ [Next]_vars => CameraOnlyInTalk'
  <2> SUFFICES ASSUME CameraOnlyInTalk, [Next]_vars PROVE CameraOnlyInTalk'
    OBVIOUS
  <2>1. CASE menuTalk /\ camera
    BY <2>1 DEF menuTalk, stopTalk, CameraOnlyInTalk
  <2>2. CASE menuTalk /\ ~camera
    BY <2>2 DEF menuTalk, startTalk, talkVars, CameraOnlyInTalk
  <2>3. CASE ~menuTalk
    <3>1. UNCHANGED talkVars
      BY <2>3
         DEF Next, User, GuiStep, Message, Environment, Over, login, loginDone, addDevice, playVideo,
             playWindow, tick, tickRow, rightClick, menuAudio, menuCloseVideo, deviceChanges, streamEnds,
             MessageHandleFind, MessageHandleWrite, vars
    <3> QED
      BY <3>1 DEF talkVars, CameraOnlyInTalk
  <2> QED
    BY <2>1, <2>2, <2>3 DEF menuTalk
<1> QED
  BY <1>1, <1>2, PTL DEF Spec
=============================================================================
