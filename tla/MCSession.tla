----------------------------- MODULE MCSession -----------------------------
(***************************************************************************)
(* What the user does before and beside the monitoring, for model          *)
(* checking: the session with the server (ClientSession), the page of the  *)
(* recordings (RecordSession) and the configuration (ConfigCtrl).  They    *)
(* share no state, so that one of them runs in each behaviour while the    *)
(* others stay as they begin.                                              *)
(***************************************************************************)
EXTENDS RecordSession, Naturals

CONSTANTS
  Keys,  \* the keys of the configuration
  Dir    \* the one for the directory of the recordings

ASSUME DirAssumption == Dir \in Keys

VARIABLES
  part,                                                          \* the one that runs
  settings, rpc, token, logined, msg_cb_thread, playing, stream, \* of ClientSession
  terminated, session_gui, destroyed, online, callback, logged_out,
  values, config_file, at, saved, torn                           \* of ConfigCtrl

(* Values of the configuration without a word, with one and with two.       *)
Inputs ==
  {<< >>, <<"file:///D:/rec">>, <<"D:">>, <<"file:///D:/my", "rec">>, <<"D:", "file:///D:/rec">>}
Words == {"file:///D:/rec", "file:///D:/my", "D:", "rec"}
Long == {"file:///D:/rec", "file:///D:/my"}

Session == INSTANCE ClientSession WITH gui <- session_gui
Config == INSTANCE ConfigCtrl WITH file <- config_file

sessionVars ==
  <<settings, rpc, token, logined, msg_cb_thread, playing, stream, terminated, session_gui,
    destroyed, online, callback, logged_out>>
configVars == <<values, config_file, at, saved, torn>>
allVars == <<part, vars, sessionVars, configVars>>

SessionsInit ==
  /\ part \in {"session", "record", "config"}
  /\ Init /\ Session!Init /\ Config!Init

SessionsNext ==
  \/ part = "session" /\ Session!Next /\ UNCHANGED <<part, vars, configVars>>
  \/ part = "record" /\ Next /\ UNCHANGED <<part, sessionVars, configVars>>
  \/ part = "config" /\ Config!Next /\ UNCHANGED <<part, vars, sessionVars>>

(* The fairness of ClientSession, in the behaviours in which it runs.       *)
SessionsSpec ==
  /\ SessionsInit /\ [][SessionsNext]_allVars
  /\ part = "session" => Session!Fairness

----------------------------------------------------------------------------
(* The program ends by a fault for the named causes only, and no object     *)
(* goes before its threads (MainCtrl.cpp:8-14, VideoCapture.cpp:14-16).     *)
SessionIsSafe == Session!SessionIsSafe

(* The exit waits for the message thread no longer than the server takes to *)
(* end its stream (MainCtrl.cpp:13).                                        *)
ExitReturns == Session!ExitReturns

(* The configuration is all or nothing, is lost only by a process that is   *)
(* killed while it saves, and keeps a start from failing but for the named  *)
(* causes (ConfigCtrl.cpp:32-44, VideoCtrl.cpp:174).                        *)
ConfigIsSafe == Config!ConfigIsSafe
=============================================================================
