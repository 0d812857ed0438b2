--------------------------- MODULE RecordSession ---------------------------
(***************************************************************************)
(* A recording from the click on a device to the decoder: main.qml calls   *)
(* MainCtrl::getRecordFile, IPCClient::recordDownload rewrites the one     *)
(* file all recordings share, the page remembers its key, and RecordCtrl   *)
(* plays it.  The feed thread of FlvPlayer reads the file meanwhile.       *)
(*                                                                         *)
(* A recording stands for its device and for the key it is encrypted with. *)
(***************************************************************************)
CONSTANT Recordings
CONSTANT None
ASSUME NoneAssumption == None \notin Recordings

VARIABLES
  disk,     \* external: the directory of the file can be written
  file,     \* record.flv: the recording it was written from, or None
  page,     \* record_file_name (set or not) and record_encryption of main.qml
  button,   \* is_playing and is_pause of btn_play
  player,   \* FlvPlayer::is_playing and is_pause, RecordCtrl::encryption
  gui,      \* the recording being downloaded by the GUI thread, or None
  decoded,  \* what the feed thread read last, and the key it was decrypted with
  asked,    \* the recording the play that goes on was started for
  changed   \* the file was rewritten since

ghostVars == <<asked, changed>>
vars == <<disk, file, page, button, player, gui, decoded, ghostVars>>

Nothing == [of |-> None, key |-> None]

Init ==
  /\ disk \in BOOLEAN /\ file = None
  /\ page = [named |-> FALSE, key |-> None]
  /\ button = [playing |-> FALSE, pause |-> FALSE]
  /\ player = [playing |-> FALSE, pause |-> FALSE, key |-> None]
  /\ gui = None /\ decoded = Nothing
  /\ asked = None /\ changed = FALSE

----------------------------------------------------------------------------
(* RecordCtrl::play; FlvPlayer opens the file and refuses without one.      *)
play(key) ==
  player' = [playing |-> player.playing \/ file # None,
             pause |-> player.pause /\ (player.playing \/ file = None),
             key |-> key]

(* record_btn_play_impl, with the page as the click left it.                *)
PlayButton ==
  IF button.playing
  THEN /\ player' = [player EXCEPT !.pause = ~@]
       /\ button' = [button EXCEPT !.pause = ~@]
       /\ UNCHANGED <<asked, changed>>
  ELSE IF page'.named
       THEN /\ play(page'.key)
            /\ button' = [playing |-> TRUE, pause |-> FALSE]
            /\ asked' = page'.key /\ changed' = FALSE
       ELSE UNCHANGED <<player, button, asked, changed>>

(* Mutation: the file is opened for appending. *)
recordDownload_Append(r) ==
  file' = IF disk /\ file = None THEN r ELSE file

(* Up to the first answer: the file is emptied, also one that is played.    *)
recordDownload(r) == file' = IF disk THEN r ELSE file

(* The answers of the server are written until it ends the stream or fails: *)
(* all of the recording or a part of it, which nobody looks at.             *)
recordDownloaded == UNCHANGED file

(* A click on a row; the GUI thread waits for the server.                   *)
onListItemClicked(r) ==
  /\ gui = None
  /\ gui' = r /\ recordDownload(r)
  /\ changed' = (changed \/ button.playing)
  /\ UNCHANGED <<disk, page, button, player, decoded, asked>>

(* The rest of the click.  The path comes back in any case, so that the     *)
(* page takes it and the key of the device and presses the button.          *)
downloaded ==
  /\ gui # None
  /\ recordDownloaded
  /\ page' = [named |-> TRUE, key |-> gui]
  /\ PlayButton
  /\ gui' = None
  /\ UNCHANGED <<disk, decoded>>

playClicked ==
  /\ gui = None
  /\ UNCHANGED page
  /\ PlayButton
  /\ UNCHANGED <<disk, file, gui, decoded>>

(* Mutation: RecordCtrl forgets the player. *)
stopClicked_ButtonOnly ==
  /\ gui = None
  /\ button' = [playing |-> FALSE, pause |-> FALSE]
  /\ UNCHANGED <<disk, file, page, player, gui, decoded, ghostVars>>

(* RecordCtrl::stop joins the feed thread; FlvPlayer::stop returns early    *)
(* when nothing plays.                                                      *)
stopClicked ==
  /\ gui = None
  /\ IF player.playing
     THEN player' = [player EXCEPT !.playing = FALSE, !.pause = FALSE]
     ELSE UNCHANGED player
  /\ button' = [playing |-> FALSE, pause |-> FALSE]
  /\ UNCHANGED <<disk, file, page, gui, decoded, ghostVars>>

(* The feed thread hands a tag to the decoder. *)
feed ==
  /\ player.playing /\ ~player.pause
  /\ decoded' = [of |-> file, key |-> player.key]
  /\ UNCHANGED <<disk, file, page, button, player, gui, ghostVars>>

Next ==
  \/ \E r \in Recordings : onListItemClicked(r)
  \/ downloaded \/ playClicked \/ stopClicked \/ feed

Spec == Init /\ [][Next]_vars

----------------------------------------------------------------------------
(* Types of the variables. *)
TypeOK ==
  /\ disk \in BOOLEAN
  /\ file \in Recordings \union {None}
  /\ page \in [named : BOOLEAN, key : Recordings \union {None}]
  /\ button \in [playing : BOOLEAN, pause : BOOLEAN]
  /\ player \in [playing : BOOLEAN, pause : BOOLEAN, key : Recordings \union {None}]
  /\ gui \in Recordings \union {None}
  /\ decoded \in [of : Recordings, key : Recordings] \union {Nothing}
  /\ asked \in Recordings \union {None} /\ changed \in BOOLEAN

(* What is decoded is the recording that was asked for, decrypted with its  *)
(* key, unless a row was clicked while it played: the file then is another  *)
(* recording while RecordCtrl keeps the key (main.qml:2237, RecordCtrl.cpp:97). *)
DecodesWhatWasAsked ==
  [][decoded' # decoded => changed \/ (decoded'.of = asked /\ decoded'.key = asked)]_vars

(* The key the page would play with belongs to the recording in the file,   *)
(* also after rows were clicked while another recording played, and after   *)
(* downloads that failed.                                                   *)
KeyBelongsToFile == gui = None /\ page.named /\ disk => page.key = file

(* The page, which keeps its own is_playing and is_pause, and the player    *)
(* agree when the file can be written; with no file the button says it      *)
(* plays while FlvPlayer::start refused (FlvPlayer.cpp:27).                 *)
ButtonMatchesPlayer ==
  disk => button.playing = player.playing /\ button.pause = player.pause

(* What the page knows is true of the file and of the player.               *)
PageMatchesPlayer == KeyBelongsToFile /\ ButtonMatchesPlayer
=============================================================================
