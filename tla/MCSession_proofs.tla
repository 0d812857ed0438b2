-------------------------- MODULE MCSession_proofs --------------------------
(***************************************************************************)
(* The theorems of RecordSession, ClientSession and ConfigCtrl and of the  *)
(* specification that runs one of them, for any number of recordings and   *)
(* keys.                                                                   *)
(***************************************************************************)
EXTENDS MCSession, Sequences, TLAPS

----------------------------------------------------------------------------
(* RecordSession. *)

(* The file is there when the page or the player relies on it, and none is  *)
(* when it cannot be written.                                               *)
FileThere ==
  /\ ~disk => file = None
  /\ gui # None /\ disk => file = gui
  /\ page.named => page.key # None /\ (disk => file # None)
  /\ player.playing => file # None /\ player.key # None

(* A player that has been stopped does not pause, which FlvPlayer::stop     *)
(* relies on when it returns early.                                         *)
StoppedIsNotPaused == disk /\ ~player.playing => ~player.pause

(* The player has the file and the key it was started with until a row is   *)
(* clicked.                                                                 *)
PlaysWhatWasAsked == player.playing /\ ~changed => file = asked /\ player.key = asked

IInv == TypeOK /\ FileThere /\ KeyBelongsToFile /\ ButtonMatchesPlayer /\ StoppedIsNotPaused
          /\ PlaysWhatWasAsked

(* Records by their fields. *)
LEMMA Fields ==
  ASSUME TypeOK
  PROVE  /\ file \in Recordings \union {None}
         /\ page = [named |-> page.named, key |-> page.key]
         /\ button = [playing |-> button.playing, pause |-> button.pause]
         /\ player = [playing |-> player.playing, pause |-> player.pause, key |-> player.key]
         /\ page.named \in BOOLEAN /\ page.key \in Recordings \union {None}
         /\ button.playing \in BOOLEAN /\ button.pause \in BOOLEAN
         /\ player.playing \in BOOLEAN /\ player.pause \in BOOLEAN
         /\ player.key \in Recordings \union {None}
<1>1. /\ page.named \in BOOLEAN /\ page.key \in Recordings \union {None}
      /\ page = [named |-> page.named, key |-> page.key]
  BY DEF TypeOK
<1>2. /\ button.playing \in BOOLEAN /\ button.pause \in BOOLEAN
      /\ button = [playing |-> button.playing, pause |-> button.pause]
  BY DEF TypeOK
<1>3. /\ player.playing \in BOOLEAN /\ player.pause \in BOOLEAN
      /\ player.key \in Recordings \union {None}
      /\ player = [playing |-> player.playing, pause |-> player.pause, key |-> player.key]
  BY DEF TypeOK
<1>4. file \in Recordings \union {None}
  BY DEF TypeOK
<1> QED
  BY <1>1, <1>2, <1>3, <1>4

LEMMA InitEstablishes == Init => IInv
<1>1. Init => TypeOK
  <2> SUFFICES ASSUME Init PROVE TypeOK
    OBVIOUS
  <2>1. file = None /\ decoded = Nothing /\ asked = None /\ gui = None /\ changed \in BOOLEAN
        /\ disk \in BOOLEAN
    BY DEF Init
  <2>2. page \in [named : BOOLEAN, key : Recordings \union {None}]
    BY DEF Init
  <2>3. button \in [playing : BOOLEAN, pause : BOOLEAN]
    BY DEF Init
  <2>4. player \in [playing : BOOLEAN, pause : BOOLEAN, key : Recordings \union {None}]
    BY DEF Init
  <2> QED
    BY <2>1, <2>2, <2>3, <2>4, Zenon DEF TypeOK
<1> QED
  BY <1>1, NoneAssumption
     DEF Init, IInv, FileThere, KeyBelongsToFile, ButtonMatchesPlayer, StoppedIsNotPaused, PlaysWhatWasAsked

(* The button pressed when the page has the key of the file.                *)
LEMMA PressStep ==
  ASSUME IInv, PlayButton,
         page' \in [named : BOOLEAN, key : Recordings \union {None}],
         file' \in Recordings \union {None},
         file' = file,
         page'.named => page'.key # None /\ (disk => page'.key = file),
         UNCHANGED <<disk, decoded>>, gui' = None
  PROVE  /\ player' \in [playing : BOOLEAN, pause : BOOLEAN, key : Recordings \union {None}]
         /\ button' \in [playing : BOOLEAN, pause : BOOLEAN]
         /\ asked' \in Recordings \union {None} /\ changed' \in BOOLEAN
         /\ player'.playing => file' # None /\ player'.key # None
         /\ ButtonMatchesPlayer' /\ StoppedIsNotPaused' /\ PlaysWhatWasAsked'
<1> USE Fields DEF IInv
<1>0. /\ file' # None <=> file # None
      /\ ~disk => file = None
  BY NoneAssumption DEF FileThere
<1>1. CASE button.playing
  <2>1. /\ player' = [playing |-> player.playing, pause |-> ~player.pause, key |-> player.key]
        /\ button' = [playing |-> TRUE, pause |-> ~button.pause]
        /\ asked' = asked /\ changed' = changed
    BY <1>1 DEF PlayButton
  <2> QED
    BY <1>0, <1>1, <2>1 DEF TypeOK, FileThere, ButtonMatchesPlayer, StoppedIsNotPaused, PlaysWhatWasAsked
<1>2. CASE ~button.playing /\ page'.named
  <2>1. /\ play(page'.key)
        /\ button' = [playing |-> TRUE, pause |-> FALSE]
        /\ asked' = page'.key /\ changed' = FALSE
    BY <1>2 DEF PlayButton
  <2>2. ~player.playing
    BY <1>0, <1>2 DEF FileThere, ButtonMatchesPlayer, StoppedIsNotPaused
  <2>3. player'.playing = (file # None) /\ player'.key = page'.key
        /\ player'.pause = (player.pause /\ file = None)
        /\ player' \in [playing : BOOLEAN, pause : BOOLEAN, key : Recordings \union {None}]
    BY <2>1, <2>2 DEF play
  <2>4. disk => file # None
    BY <1>2, NoneAssumption
  <2> QED
    BY <1>0, <1>2, <2>1, <2>2, <2>3, <2>4 DEF TypeOK, ButtonMatchesPlayer, StoppedIsNotPaused,
                                             PlaysWhatWasAsked
<1>3. CASE ~button.playing /\ ~page'.named
  <2>1. UNCHANGED <<player, button, asked, changed>>
    BY <1>3 DEF PlayButton
  <2> QED
    BY <1>0, <2>1 DEF TypeOK, FileThere, ButtonMatchesPlayer, StoppedIsNotPaused, PlaysWhatWasAsked
<1> QED
  BY <1>1, <1>2, <1>3

LEMMA ClickStep == ASSUME IInv, NEW r \in Recordings, onListItemClicked(r) PROVE IInv'
<1> USE Fields DEF IInv
<1>1. gui = None /\ gui' = r /\ r # None /\ changed' = (changed \/ button.playing)
      /\ UNCHANGED <<disk, page, button, player, decoded, asked>>
      /\ file' = IF disk THEN r ELSE file
  BY NoneAssumption DEF onListItemClicked, recordDownload
<1>2. changed' \in BOOLEAN
  BY <1>1 DEF TypeOK
<1>3. TypeOK'
  BY <1>1, <1>2 DEF TypeOK
<1>4. FileThere'
  BY <1>1, NoneAssumption DEF FileThere
<1>5. ButtonMatchesPlayer' /\ KeyBelongsToFile'
  BY <1>1 DEF ButtonMatchesPlayer, KeyBelongsToFile
<1>6. player.playing => changed'
  BY <1>1 DEF ButtonMatchesPlayer, FileThere
<1> QED
  BY <1>1, <1>3, <1>4, <1>5, <1>6 DEF StoppedIsNotPaused, PlaysWhatWasAsked

LEMMA DownloadedStep == IInv /\ downloaded => IInv'
<1> SUFFICES ASSUME IInv, downloaded PROVE IInv'
  OBVIOUS
<1> USE Fields DEF IInv
<1>1. gui # None /\ gui \in Recordings /\ gui' = None /\ page' = [named |-> TRUE, key |-> gui]
      /\ UNCHANGED <<disk, decoded>>
  BY DEF downloaded, TypeOK
<1>2. file' = file
  BY DEF downloaded, recordDownloaded
<1>3. disk => file = gui /\ file \in Recordings
  BY <1>1, NoneAssumption DEF FileThere, TypeOK
<1>4. file' \in Recordings \union {None} /\ file' = file
  BY <1>2, <1>3 DEF TypeOK
<1>5. /\ player' \in [playing : BOOLEAN, pause : BOOLEAN, key : Recordings \union {None}]
      /\ button' \in [playing : BOOLEAN, pause : BOOLEAN]
      /\ asked' \in Recordings \union {None} /\ changed' \in BOOLEAN
      /\ player'.playing => file' # None /\ player'.key # None
      /\ ButtonMatchesPlayer' /\ StoppedIsNotPaused' /\ PlaysWhatWasAsked'
  BY <1>1, <1>3, <1>4, PressStep DEF downloaded
<1>6. TypeOK'
  BY <1>1, <1>4, <1>5 DEF TypeOK
<1>7. FileThere' /\ KeyBelongsToFile'
  BY <1>1, <1>2, <1>3, <1>4, <1>5, NoneAssumption DEF FileThere, KeyBelongsToFile
<1> QED
  BY <1>5, <1>6, <1>7

LEMMA PlayClickedStep == IInv /\ playClicked => IInv'
<1> SUFFICES ASSUME IInv, playClicked PROVE IInv'
  OBVIOUS
<1> USE Fields DEF IInv
<1>1. gui = None /\ UNCHANGED <<page, disk, file, gui, decoded>> /\ PlayButton
  BY DEF playClicked
<1>2. /\ player' \in [playing : BOOLEAN, pause : BOOLEAN, key : Recordings \union {None}]
      /\ button' \in [playing : BOOLEAN, pause : BOOLEAN]
      /\ asked' \in Recordings \union {None} /\ changed' \in BOOLEAN
      /\ player'.playing => file' # None /\ player'.key # None
      /\ ButtonMatchesPlayer' /\ StoppedIsNotPaused' /\ PlaysWhatWasAsked'
  <2>1. page.named => page.key # None /\ (disk => page.key = file)
    BY <1>1 DEF FileThere, KeyBelongsToFile
  <2> QED
    BY <1>1, <2>1, PressStep DEF TypeOK
<1>3. TypeOK'
  BY <1>1, <1>2 DEF TypeOK
<1> QED
  BY <1>1, <1>2, <1>3 DEF FileThere, KeyBelongsToFile

LEMMA StopClickedStep == IInv /\ stopClicked => IInv'
<1> SUFFICES ASSUME IInv, stopClicked PROVE IInv'
  OBVIOUS
<1> USE Fields DEF IInv
<1>1. UNCHANGED <<disk, file, page, gui, decoded, asked, changed>>
      /\ button' = [playing |-> FALSE, pause |-> FALSE]
  BY DEF stopClicked, ghostVars
<1>2. player' = IF player.playing THEN [playing |-> FALSE, pause |-> FALSE, key |-> player.key] ELSE player
  BY DEF stopClicked
<1>3. TypeOK'
  BY <1>1, <1>2 DEF TypeOK
<1>4. FileThere' /\ KeyBelongsToFile' /\ PlaysWhatWasAsked'
  BY <1>1, <1>2 DEF FileThere, KeyBelongsToFile, PlaysWhatWasAsked
<1>5. ButtonMatchesPlayer' /\ StoppedIsNotPaused'
  BY <1>1, <1>2 DEF ButtonMatchesPlayer, StoppedIsNotPaused
<1> QED
  BY <1>3, <1>4, <1>5

LEMMA FeedStep == IInv /\ feed => IInv'
<1> SUFFICES ASSUME IInv, feed PROVE IInv'
  OBVIOUS
<1> USE Fields DEF IInv
<1>1. player.playing /\ decoded' = [of |-> file, key |-> player.key]
      /\ UNCHANGED <<disk, file, page, button, player, gui, asked, changed>>
  BY DEF feed, ghostVars
<1>2. decoded' \in [of : Recordings, key : Recordings]
  BY <1>1 DEF FileThere, TypeOK
<1>3. TypeOK'
  BY <1>1, <1>2 DEF TypeOK
<1> QED
  BY <1>1, <1>3 DEF FileThere, KeyBelongsToFile, ButtonMatchesPlayer, StoppedIsNotPaused, PlaysWhatWasAsked

LEMMA InvariantStep == IInv /\ [Next]_vars => IInv'
<1> SUFFICES ASSUME IInv, [Next]_vars PROVE IInv'
  OBVIOUS
<1>1. CASE UNCHANGED vars
  <2>1. TypeOK'
    BY <1>1 DEF IInv, TypeOK, vars, ghostVars
  <2> QED
    BY <1>1, <2>1
       DEF IInv, FileThere, KeyBelongsToFile, ButtonMatchesPlayer, StoppedIsNotPaused, PlaysWhatWasAsked,
           vars, ghostVars
<1> QED
  BY <1>1, ClickStep, DownloadedStep, PlayClickedStep, StopClickedStep, FeedStep DEF Next

(* The inductive invariant of a recording. *)
THEOREM RecordInvariant == Spec => []IInv
  BY InitEstablishes, InvariantStep, PTL DEF Spec

(* The page never has the key of another recording than the file holds. *)
THEOREM KeyIsRight == Spec => []KeyBelongsToFile
<1>1. IInv => KeyBelongsToFile
  BY DEF IInv
<1> QED
  BY RecordInvariant, <1>1, PTL

(* The page and the player agree on playing and pause, which each keeps. *)
THEOREM ButtonIsRight == Spec => []ButtonMatchesPlayer
<1>1. IInv => ButtonMatchesPlayer
  BY DEF IInv
<1> QED
  BY RecordInvariant, <1>1, PTL

(* What is decoded was asked for and is decrypted with its key, unless a    *)
(* row was clicked while it played.                                         *)
THEOREM DecodesRight == Spec => DecodesWhatWasAsked
<1>1. IInv /\ [Next]_vars => [decoded' # decoded => changed \/ (decoded'.of = asked /\ decoded'.key = asked)]_vars
  <2> SUFFICES ASSUME IInv, Next, decoded' # decoded
               PROVE  changed \/ (decoded'.of = asked /\ decoded'.key = asked)
    OBVIOUS
  <2>1. feed
    BY DEF Next, onListItemClicked, downloaded, playClicked, stopClicked
  <2> QED
    BY <2>1 DEF feed, IInv, PlaysWhatWasAsked
<1> QED
  BY RecordInvariant, <1>1, PTL DEF Spec, DecodesWhatWasAsked

(* What the page knows is true. *)
THEOREM PageIsRight == Spec => []PageMatchesPlayer
  BY KeyIsRight, ButtonIsRight, PTL DEF PageMatchesPlayer

----------------------------------------------------------------------------
(* ClientSession. *)

(* The message thread is there from the login to the end of MainCtrl, and   *)
(* no object goes before the exit.                                          *)
MessageThread ==
  /\ ~logined => msg_cb_thread = "none"
  /\ logined /\ "MainCtrl" \notin destroyed => msg_cb_thread # "none"
  /\ session_gui \in {"load", "idle", "register"} => destroyed = {}

SessionInv == Session!SessionIsSafe /\ MessageThread

LEMMA SessionInit == Session!Init => SessionInv
BY DEF Session!Init, Session!Streams!Init, SessionInv, Session!SessionIsSafe, Session!TypeOK,
       Session!FaultNeedsCause, Session!DestroyedHasNoThread, MessageThread, Session!Parts

(* Videos, the talk and the recording change their streams before the exit  *)
(* only, and a stream that is there names the cause of a fault.             *)
LEMMA UseStep ==
  ASSUME SessionInv, ~terminated, NEW p \in Session!Parts, Session!use(p) \/ Session!streamEnds(p)
  PROVE  SessionInv'
<1>1. /\ playing \in [Session!Parts -> BOOLEAN]
      /\ stream \in [Session!Parts -> {"none", "running", "ended"}]
      /\ session_gui \in {"load", "idle", "register"} => destroyed = {}
      /\ terminated = FALSE
  BY DEF SessionInv, Session!SessionIsSafe, Session!TypeOK, MessageThread
<1>2. /\ playing' \in [Session!Parts -> BOOLEAN]
      /\ stream' \in [Session!Parts -> {"none", "running", "ended"}]
      /\ terminated' \in BOOLEAN
      /\ terminated' => stream'[p] # "none"
      /\ p \notin destroyed \/ UNCHANGED stream
      /\ \A q \in Session!Parts \ {p} : stream'[q] = stream[q]
  <2>1. CASE Session!use(p) /\ Session!Streams!play(p)
    BY <1>1, <2>1 DEF Session!use, Session!Streams!play
  <2>2. CASE Session!use(p) /\ Session!Streams!stop(p)
    <3>1. PICK s \in {"none", "running", "ended"} : stream' = [stream EXCEPT ![p] = s]
      BY <1>1, <2>2 DEF Session!Streams!stop
    <3>2. playing' = [playing EXCEPT ![p] = FALSE] /\ terminated' = FALSE /\ p \notin destroyed
      BY <1>1, <2>2 DEF Session!use, Session!Streams!stop
    <3>3. playing' \in [Session!Parts -> BOOLEAN]
      BY <1>1, <3>2
    <3>4. /\ stream' \in [Session!Parts -> {"none", "running", "ended"}]
          /\ \A q \in Session!Parts \ {p} : stream'[q] = stream[q]
      BY <1>1, <3>1
    <3> QED
      BY <3>2, <3>3, <3>4
  <2>3. CASE Session!streamEnds(p)
    <3>1. /\ stream' = [stream EXCEPT ![p] = "ended"] /\ p \notin destroyed
          /\ UNCHANGED <<playing, terminated>>
      BY <2>3 DEF Session!streamEnds, Session!Streams!StreamEnds
    <3>2. stream'[p] = "ended"
      BY <1>1, <3>1
    <3>3. /\ stream' \in [Session!Parts -> {"none", "running", "ended"}]
          /\ \A q \in Session!Parts \ {p} : stream'[q] = stream[q]
      BY <1>1, <3>1
    <3>4. playing' \in [Session!Parts -> BOOLEAN] /\ terminated' \in BOOLEAN
      BY <1>1, <3>1
    <3> QED
      BY <3>1, <3>2, <3>3, <3>4
  <2> QED
    BY <2>1, <2>2, <2>3 DEF Session!use
<1>3. UNCHANGED <<settings, rpc, token, logined, msg_cb_thread, session_gui, destroyed, online,
                  callback, logged_out>>
  BY DEF Session!use, Session!streamEnds, Session!configVars, Session!loginVars, Session!serverVars
<1> USE DEF SessionInv, Session!SessionIsSafe
<1>4. Session!TypeOK'
  BY <1>2, <1>3 DEF Session!TypeOK
<1>5. Session!FaultNeedsCause'
  BY <1>2 DEF Session!FaultNeedsCause
<1>6. Session!DestroyedHasNoThread'
  BY <1>2, <1>3 DEF Session!DestroyedHasNoThread
<1>7. MessageThread'
  BY <1>3 DEF MessageThread
<1> QED
  BY <1>4, <1>5, <1>6, <1>7

(* The page is loaded, register and login. *)
LEMMA LoginStep ==
  ASSUME SessionInv, ~terminated,
         \/ \E s \in DOMAIN settings : Session!setServer(s)
         \/ Session!register_user \/ Session!login_user \/ Session!close
  PROVE  SessionInv'
<1> USE DEF SessionInv, Session!SessionIsSafe, Session!TypeOK, Session!FaultNeedsCause,
            Session!DestroyedHasNoThread, MessageThread, Session!configVars, Session!loginVars,
            Session!streamVars, Session!serverVars
<1>1. ASSUME NEW s \in DOMAIN settings, Session!setServer(s) PROVE SessionInv'
  BY <1>1 DEF Session!setServer
<1>2. CASE Session!register_user
  BY <1>2 DEF Session!register_user
<1>3. CASE Session!login_user
  <2>1. /\ ~logined /\ session_gui = "idle"
        /\ UNCHANGED <<settings, rpc, playing, stream, session_gui, destroyed, online, logged_out>>
    BY <1>3 DEF Session!login_user
  <2>2. \/ ~rpc /\ terminated' = TRUE /\ UNCHANGED <<token, logined, msg_cb_thread, callback>>
        \/ /\ token' = TRUE /\ logined' = TRUE /\ msg_cb_thread' = "reading" /\ callback' = "open"
           /\ terminated' = (msg_cb_thread # "none")
        \/ UNCHANGED <<terminated, token, logined, msg_cb_thread, callback>>
    BY <1>3 DEF Session!login_user
  <2>3. msg_cb_thread = "none" /\ terminated = FALSE
    BY <2>1
  <2>4. /\ terminated' = FALSE \/ ~rpc
        /\ token' \in BOOLEAN /\ logined' \in BOOLEAN /\ (logined' => token')
        /\ terminated' \in BOOLEAN /\ msg_cb_thread' \in {"none", "reading", "ended"}
        /\ callback' \in {"none", "open", "closed"}
    <3> HIDE DEF Session!FaultNeedsCause, Session!DestroyedHasNoThread, MessageThread
    <3>1. CASE ~rpc /\ terminated' = TRUE /\ UNCHANGED <<token, logined, msg_cb_thread, callback>>
      BY <3>1, <1>3 DEF Session!login_user
    <3>2. CASE /\ token' = TRUE /\ logined' = TRUE /\ msg_cb_thread' = "reading" /\ callback' = "open"
               /\ terminated' = (msg_cb_thread # "none")
      BY <3>2, <2>3
    <3>3. CASE UNCHANGED <<terminated, token, logined, msg_cb_thread, callback>>
      BY <3>3, <2>3
    <3> QED
      BY <2>2, <3>1, <3>2, <3>3
  <2>5. Session!TypeOK'
    BY <2>1, <2>4
  <2>6. Session!FaultNeedsCause'
    BY <2>1, <2>4
  <2> QED
    BY <2>1, <2>2, <2>5, <2>6
<1>4. CASE Session!close
  BY <1>4 DEF Session!close
<1> QED
  BY <1>1, <1>2, <1>3, <1>4

(* The objects are destroyed; one that faults has a thread or no client. *)
LEMMA DestroyStep ==
  ASSUME SessionInv, ~terminated, Session!Destroy \/ Session!join
  PROVE  SessionInv'
<1> USE DEF SessionInv, Session!SessionIsSafe, Session!configVars, Session!loginVars,
            Session!streamVars, Session!serverVars, Session!Parts
<1>1. CASE Session!destroyWindow
  BY <1>1 DEF Session!destroyWindow, Session!Destroying, Session!TypeOK, Session!FaultNeedsCause,
              Session!DestroyedHasNoThread, MessageThread
<1>2. ASSUME NEW p \in Session!Parts, Session!destroyOther(p) PROVE SessionInv'
  BY <1>2 DEF Session!destroyOther, Session!Destroying, Session!TypeOK, Session!FaultNeedsCause,
              Session!DestroyedHasNoThread, MessageThread
<1>3. CASE Session!destroyMainCtrl
  BY <1>3 DEF Session!destroyMainCtrl, Session!TypeOK, Session!FaultNeedsCause,
              Session!DestroyedHasNoThread, MessageThread
<1>4. CASE Session!join
  BY <1>4 DEF Session!join, Session!TypeOK, Session!FaultNeedsCause,
              Session!DestroyedHasNoThread, MessageThread
<1> QED
  BY <1>1, <1>2, <1>3, <1>4 DEF Session!Destroy

(* The message thread, the network and the server. *)
LEMMA ServerStep ==
  ASSUME SessionInv, ~terminated,
         Session!streamCallEnds \/ Session!serverCloses \/ Session!networkChanges
  PROVE  SessionInv'
<1>1. /\ msg_cb_thread' \in {"none", "reading", "ended"} /\ callback' \in {"none", "open", "closed"}
      /\ online' \in BOOLEAN
      /\ msg_cb_thread' = msg_cb_thread \/ (msg_cb_thread = "reading" /\ msg_cb_thread' = "ended")
      /\ UNCHANGED <<settings, rpc, token, logined, playing, stream, terminated, session_gui,
                     destroyed, logged_out>>
  BY DEF Session!streamCallEnds, Session!serverCloses, Session!networkChanges, SessionInv,
         Session!SessionIsSafe, Session!TypeOK, Session!configVars, Session!loginVars,
         Session!streamVars, Session!serverVars
<1>2. Session!TypeOK'
  BY <1>1 DEF SessionInv, Session!SessionIsSafe, Session!TypeOK
<1> QED
  BY <1>1, <1>2 DEF SessionInv, Session!SessionIsSafe, Session!FaultNeedsCause,
                    Session!DestroyedHasNoThread, MessageThread

LEMMA SessionStep == SessionInv /\ [Session!Next]_(Session!vars) => SessionInv'
<1> SUFFICES ASSUME SessionInv, [Session!Next]_(Session!vars) PROVE SessionInv'
  OBVIOUS
<1>1. CASE UNCHANGED Session!vars
  BY <1>1 DEF SessionInv, Session!SessionIsSafe, Session!TypeOK, Session!FaultNeedsCause,
       Session!DestroyedHasNoThread, MessageThread, Session!vars, Session!configVars,
       Session!loginVars, Session!streamVars, Session!serverVars
<1> QED
  BY <1>1, UseStep, LoginStep, DestroyStep, ServerStep
     DEF Session!Next, Session!User, Session!Environment, Session!Over

(* The inductive invariant of a session with the server. *)
THEOREM SessionInvariant == Session!Spec => []SessionInv
BY SessionInit, SessionStep, PTL DEF Session!Spec

----------------------------------------------------------------------------
(* ConfigCtrl. *)

(* Between fopen and fclose the file is empty, and what will be written is  *)
(* what the page has set; a process that is down has no values.             *)
Publishing ==
  /\ at = "publish" => config_file = Config!Empty /\ saved = values /\ values \in Config!Configurations
  /\ at = "down" => values = Config!Empty

ConfigInv == Config!ConfigIsSafe /\ Publishing

(* What the user enters is made of words. *)
LEMMA InputsAreWords == \A v \in Inputs : v # << >> => Head(v) \in Words
BY DEF Inputs, Words

(* A configuration has the directory, the empty one has no key. *)
LEMMA ConfigurationHasDir ==
  /\ \A c \in Config!Configurations : DOMAIN c = Keys /\ Dir \in DOMAIN c
  /\ DOMAIN Config!Empty = {}
BY DirAssumption DEF Config!Configurations, Config!Empty

LEMMA ConfigInit == Config!Init => ConfigInv
<1> SUFFICES ASSUME Config!Init PROVE ConfigInv
  OBVIOUS
<1> USE DEF Config!Init
<1>1. Config!TypeOK
  BY DEF Config!TypeOK
<1> QED
  BY <1>1 DEF ConfigInv, Publishing, Config!ConfigIsSafe, Config!AllOrNothing, Config!LostOnlyIfTorn,
              Config!FailedStartNeedsCause

(* The start takes the first word of each value of the file. *)
LEMMA StartStep == ConfigInv /\ Config!start => ConfigInv'
<1> SUFFICES ASSUME ConfigInv, Config!start PROVE ConfigInv'
  OBVIOUS
<1> USE DEF ConfigInv, Config!ConfigIsSafe
<1>1. /\ values' = [k \in DOMAIN config_file |->
                     IF config_file[k] = << >> THEN << >> ELSE <<Head(config_file[k])>>]
      /\ at' \in {"idle", "failed"}
      /\ UNCHANGED <<config_file, saved, torn>>
  BY DEF Config!start, Config!initValues, Config!setlocalRecordDir
<1>2. values' \in [Keys -> {<<w>> : w \in Words} \union {<< >>}] \union {Config!Empty}
  <2>1. CASE config_file = Config!Empty
    BY <1>1, <2>1, ConfigurationHasDir DEF Config!Empty
  <2>2. CASE config_file \in Config!Configurations
    <3>1. \A k \in Keys : config_file[k] \in Inputs
      BY <2>2 DEF Config!Configurations
    <3>2. DOMAIN config_file = Keys
      BY <2>2, ConfigurationHasDir
    <3> QED
      BY <1>1, <3>1, <3>2, InputsAreWords
  <2> QED
    BY <2>1, <2>2 DEF Config!TypeOK
<1>3. Config!TypeOK'
  BY <1>1, <1>2 DEF Config!TypeOK
<1>4. at' = "failed" => torn \/ saved = Config!Empty \/ saved[Dir] = << >> \/ Head(saved[Dir]) \notin Long
  <2> SUFFICES ASSUME at' = "failed", ~torn, saved # Config!Empty, saved[Dir] # << >>
               PROVE  Head(saved[Dir]) \notin Long
    OBVIOUS
  <2>1. config_file = saved
    BY DEF Config!start, Config!LostOnlyIfTorn
  <2>2. Dir \in DOMAIN config_file
    BY <2>1, ConfigurationHasDir DEF Config!TypeOK
  <2>3. Dir \in DOMAIN values' /\ values'[Dir] = <<Head(saved[Dir])>>
    BY <1>1, <2>1, <2>2
  <2>4. ~(Head(values'[Dir]) \in Long)
    BY <2>3 DEF Config!start, Config!setlocalRecordDir, Config!getValue
  <2> QED
    BY <2>3, <2>4
<1> QED
  BY <1>1, <1>3, <1>4 DEF Publishing, Config!AllOrNothing, Config!LostOnlyIfTorn, Config!start,
                          Config!FailedStartNeedsCause

(* The button, the write and the end of the process. *)
LEMMA SaveStep == ConfigInv /\ (Config!save \/ Config!publish \/ Config!down) => ConfigInv'
<1> SUFFICES ASSUME ConfigInv, Config!save \/ Config!publish \/ Config!down PROVE ConfigInv'
  OBVIOUS
<1> USE DEF ConfigInv, Publishing, Config!ConfigIsSafe, Config!AllOrNothing, Config!LostOnlyIfTorn,
            Config!FailedStartNeedsCause
<1>1. CASE Config!save
  BY <1>1 DEF Config!save, Config!TypeOK
<1>2. CASE Config!publish
  BY <1>2 DEF Config!publish, Config!TypeOK
<1>3. CASE Config!down
  BY <1>3 DEF Config!down, Config!TypeOK
<1> QED
  BY <1>1, <1>2, <1>3

LEMMA ConfigStep == ConfigInv /\ [Config!Next]_(Config!vars) => ConfigInv'
<1> SUFFICES ASSUME ConfigInv, [Config!Next]_(Config!vars) PROVE ConfigInv'
  OBVIOUS
<1>1. CASE UNCHANGED Config!vars
  BY <1>1 DEF ConfigInv, Publishing, Config!ConfigIsSafe, Config!TypeOK, Config!AllOrNothing,
              Config!LostOnlyIfTorn, Config!FailedStartNeedsCause, Config!vars
<1> QED
  BY <1>1, StartStep, SaveStep DEF Config!Next

(* The inductive invariant of the configuration. *)
THEOREM ConfigInvariant == Config!Spec => []ConfigInv
BY ConfigInit, ConfigStep, PTL DEF Config!Spec

----------------------------------------------------------------------------
(* SessionsSpec runs one of the three. *)

LEMMA StepOfOne ==
  [SessionsNext]_allVars =>
    [Session!Next]_(Session!vars) /\ [Config!Next]_(Config!vars) /\ [Next]_vars
BY DEF SessionsNext, allVars, sessionVars, configVars, vars, ghostVars, Session!vars,
       Session!configVars, Session!loginVars, Session!streamVars, Session!serverVars, Config!vars

(* A behaviour of SessionsSpec is one of each component. *)
LEMMA RunsEach == SessionsSpec => Session!Spec /\ Config!Spec /\ Spec
<1>1. SessionsInit => Session!Init /\ Config!Init /\ Init
  BY DEF SessionsInit
<1> QED
  BY <1>1, StepOfOne, PTL DEF SessionsSpec, Session!Spec, Config!Spec, Spec

(* The program ends by a fault for the named causes only, and no object is  *)
(* destroyed before its threads are joined (MainCtrl.cpp:8-14).             *)
THEOREM SessionsAreSafe == SessionsSpec => []SessionIsSafe
<1>1. SessionInv => SessionIsSafe
  BY DEF SessionInv, SessionIsSafe
<1> QED
  BY RunsEach, SessionInvariant, <1>1, PTL

(* The configuration is all or nothing and is lost only by a process that   *)
(* is killed while it saves (ConfigCtrl.cpp:32-44).                         *)
THEOREM ConfigurationIsSafe == SessionsSpec => []ConfigIsSafe
<1>1. ConfigInv => ConfigIsSafe
  BY DEF ConfigInv, ConfigIsSafe
<1> QED
  BY RunsEach, ConfigInvariant, <1>1, PTL
=============================================================================
