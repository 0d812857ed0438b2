--------------------------- MODULE ClientSession ---------------------------
(***************************************************************************)
(* One run of the program towards its server: the settings are read, the   *)
(* user registers or logs in, the message thread keeps a stream of status  *)
(* messages open, videos, a talk and a recording come and go, and at the   *)
(* end the objects are destroyed.  MainCtrl.cpp with IPCClient.cpp, and    *)
(* the destructors of the objects that own threads.                        *)
(*                                                                         *)
(* What plays, talks or replays is a stream as WindowStream says.          *)
(***************************************************************************)
EXTENDS Naturals

Parts == {"window", "talk", "recording"}

VARIABLES
  settings,       \* server_ip and server_port: "unread", "empty" or "set"
  rpc,            \* TRUE: there is an IPCClient
  token,          \* TRUE: not empty
  logined,        \* of main.qml: the page of the login is closed
  msg_cb_thread,  \* "none", "reading" the stream, or "ended" and not joined
  playing, stream, terminated,  \* see WindowStream; any end of the program by a fault
  gui,            \* where the GUI thread is
  destroyed,      \* the objects that are gone
  online,         \* external: the server can be reached
  callback,       \* external: the stream of messages: "none", "open" or "closed"
  logged_out      \* external: the server knows that the user has left

configVars == <<settings, rpc>>
loginVars == <<token, logined, msg_cb_thread>>
streamVars == <<playing, stream>>
serverVars == <<online, callback, logged_out>>
vars == <<configVars, loginVars, streamVars, terminated, gui, destroyed, serverVars>>

Streams == INSTANCE WindowStream WITH Windows <- Parts

Init ==
  /\ settings = [s \in {"ip", "port"} |-> "unread"] /\ rpc = FALSE
  /\ token = FALSE /\ logined = FALSE /\ msg_cb_thread = "none"
  /\ Streams!Init
  /\ gui = "load" /\ destroyed = {}
  /\ online \in BOOLEAN /\ callback = "none" /\ logged_out = FALSE

----------------------------------------------------------------------------
(* The page is loaded, register and login. *)

(* setServerIp and setServerPort, in the order the page sets them: the last *)
(* one makes the client, when the configuration has both.                   *)
setServer(s) ==
  /\ gui = "load" /\ settings[s] = "unread"
  /\ \E value \in {"empty", "set"} : settings' = [settings EXCEPT ![s] = value]
  /\ rpc' = (\A t \in DOMAIN settings : settings'[t] = "set")
  /\ gui' = IF \E t \in DOMAIN settings : settings'[t] = "unread" THEN "load" ELSE "idle"
  /\ UNCHANGED <<loginVars, streamVars, terminated, destroyed, serverVars>>

(* IPCClient::call: what the server replies, or nothing when it cannot be   *)
(* reached or has another code than 200.  Replies and messages are JSON as  *)
(* the code expects it.                                                     *)
Replies == {"nothing"} \union IF online THEN {"success", "failure"} ELSE {}

(* Without a client, or without a reply to take the reason from, the        *)
(* program ends by a fault.                                                 *)
register_user ==
  /\ gui = "idle" /\ ~logined
  /\ \E reply \in Replies :
       /\ terminated' = (~rpc \/ reply = "nothing")
       /\ gui' = IF terminated' THEN "register" ELSE gui
  /\ UNCHANGED <<configVars, loginVars, streamVars, destroyed, serverVars>>

(* Mutation: the page of the login stays open. *)
login_user_Again ==
  /\ gui = "idle" /\ ~logined
  /\ \/ ~rpc /\ terminated' = TRUE /\ UNCHANGED <<loginVars, callback>>
     \/ /\ rpc /\ "success" \in Replies
        /\ token' = TRUE /\ UNCHANGED logined
        /\ msg_cb_thread' = "reading" /\ callback' = "open"
        /\ terminated' = (msg_cb_thread # "none")
     \/ rpc /\ UNCHANGED <<terminated, token, logined, msg_cb_thread, callback>>
  /\ UNCHANGED <<configVars, streamVars, gui, destroyed, online, logged_out>>

(* Assigning msg_cb_thread would destroy a thread that nobody joined.  A    *)
(* reply without a token, or none, leaves everything as it is.              *)
login_user ==
  /\ gui = "idle" /\ ~logined
  /\ \/ ~rpc /\ terminated' = TRUE /\ UNCHANGED <<loginVars, callback>>
     \/ /\ rpc /\ "success" \in Replies
        /\ token' = TRUE /\ logined' = TRUE
        /\ msg_cb_thread' = "reading" /\ callback' = "open"
        /\ terminated' = (msg_cb_thread # "none")
     \/ rpc /\ UNCHANGED <<terminated, token, logined, msg_cb_thread, callback>>
  /\ UNCHANGED <<configVars, streamVars, gui, destroyed, online, logged_out>>

(* Videos, the talk and the recording, after the login. *)
use(p) ==
  /\ gui = "idle" /\ logined
  /\ Streams!play(p) \/ (playing[p] /\ Streams!stop(p))
  /\ UNCHANGED <<configVars, loginVars, gui, destroyed, serverVars>>

----------------------------------------------------------------------------
(* The end of the program.  The objects of the page are destroyed one after *)
(* the other, in an order their parents define; the model takes any.        *)
close ==
  /\ gui = "idle"
  /\ gui' = "exit"
  /\ UNCHANGED <<configVars, loginVars, streamVars, terminated, destroyed, serverVars>>

Destroying(object) ==
  /\ gui = "exit" /\ object \notin destroyed
  /\ destroyed' = destroyed \union {object}

(* A running pull thread uses members of VideoCtrl that are gone before     *)
(* VideoCapture joins it; that may pass or not.                             *)
destroyWindow ==
  /\ Destroying("window")
  /\ terminated' \in IF stream["window"] = "running" THEN BOOLEAN ELSE {stream["window"] = "ended"}
  /\ stream' = IF terminated' THEN stream ELSE [stream EXCEPT !["window"] = "none"]
  /\ UNCHANGED <<configVars, loginVars, playing, gui, serverVars>>

(* VideoSender and FlvPlayer destroy the pointer to their thread.           *)
destroyOther(p) ==
  /\ p # "window" /\ Destroying(p)
  /\ terminated' = (stream[p] # "none")
  /\ UNCHANGED <<configVars, loginVars, streamVars, gui, serverVars>>

(* The destructor of MainCtrl calls logout, whatever comes of it, and joins *)
(* the message thread; without a client or without a thread it faults.      *)
destroyMainCtrl ==
  /\ gui = "exit" /\ "MainCtrl" \notin destroyed
  /\ terminated' = (~rpc \/ msg_cb_thread = "none")
  /\ logged_out' \in BOOLEAN /\ (logged_out' => online /\ rpc)
  /\ gui' = IF terminated' THEN gui ELSE "join"
  /\ UNCHANGED <<configVars, loginVars, streamVars, destroyed, online, callback>>

join ==
  /\ gui = "join" /\ msg_cb_thread = "ended"
  /\ msg_cb_thread' = "none"
  /\ gui' = "exit" /\ destroyed' = destroyed \union {"MainCtrl"}
  /\ UNCHANGED <<configVars, token, logined, streamVars, terminated, serverVars>>

----------------------------------------------------------------------------
(* The message thread, the network and the server. *)

(* Mutation: the thread opens a new stream when the old one has ended. *)
streamCallEnds_Retry ==
  /\ msg_cb_thread = "reading" /\ callback = "closed"
  /\ callback' = "open"
  /\ UNCHANGED <<configVars, loginVars, streamVars, terminated, gui, destroyed, online,
                 logged_out>>

(* Read returns false. *)
streamCallEnds ==
  /\ msg_cb_thread = "reading" /\ callback = "closed"
  /\ msg_cb_thread' = "ended"
  /\ UNCHANGED <<configVars, token, logined, streamVars, terminated, gui, destroyed, serverVars>>

serverCloses ==
  /\ callback = "open"
  /\ callback' = "closed"
  /\ UNCHANGED <<configVars, loginVars, streamVars, terminated, gui, destroyed, online,
                 logged_out>>

networkChanges ==
  /\ online' = ~online
  /\ callback' = IF callback = "open" /\ online THEN "closed" ELSE callback
  /\ UNCHANGED <<configVars, loginVars, streamVars, terminated, gui, destroyed, logged_out>>

(* The pull and the push thread end when their connection breaks; the feed  *)
(* thread reads a file.                                                     *)
streamEnds(p) ==
  /\ p # "recording" /\ Streams!StreamEnds(p)
  /\ p \notin destroyed
  /\ UNCHANGED <<configVars, loginVars, gui, destroyed, serverVars>>

----------------------------------------------------------------------------
User ==
  \/ \E s \in DOMAIN settings : setServer(s)
  \/ register_user \/ login_user \/ close
  \/ \E p \in Parts : use(p)
Destroy == destroyWindow \/ (\E p \in Parts : destroyOther(p)) \/ destroyMainCtrl
Environment == serverCloses \/ networkChanges \/ \E p \in Parts : streamEnds(p)

Over ==
  /\ terminated \/ destroyed = Parts \union {"MainCtrl"}
  /\ UNCHANGED vars

Next ==
  \/ ~terminated /\ (User \/ Destroy \/ join \/ streamCallEnds \/ Environment)
  \/ Over

Spec == Init /\ [][Next]_vars

(* The threads go on.  A server that was told of the logout ends the stream *)
(* of that user: MainCtrl.cpp:9-13 relies on it.                            *)
Fairness ==
  /\ WF_vars(~terminated /\ (Destroy \/ join)) /\ WF_vars(~terminated /\ streamCallEnds)
  /\ WF_vars(~terminated /\ logged_out /\ serverCloses)

----------------------------------------------------------------------------
(* Types of the variables. *)
TypeOK ==
  /\ settings \in [{"ip", "port"} -> {"unread", "empty", "set"}] /\ rpc \in BOOLEAN
  /\ token \in BOOLEAN /\ logined \in BOOLEAN /\ (logined => token)
  /\ msg_cb_thread \in {"none", "reading", "ended"}
  /\ playing \in [Parts -> BOOLEAN] /\ stream \in [Parts -> {"none", "running", "ended"}]
  /\ terminated \in BOOLEAN
  /\ gui \in {"load", "idle", "register", "exit", "join"}
  /\ destroyed \subseteq Parts \union {"MainCtrl"}
  /\ online \in BOOLEAN /\ callback \in {"none", "open", "closed"} /\ logged_out \in BOOLEAN

(* The program ends by a fault only without a configured server, in a call  *)
(* to register, at an exit without a login, or through a stream that was    *)
(* still running or had ended by itself.  A user who logs in, stops all     *)
(* that was started and closes the window leaves cleanly although the       *)
(* server refuses, goes away or ends the stream meanwhile, as long as what  *)
(* it sends is JSON (MainCtrl.cpp:8-14, VideoCapture.cpp:14-16).            *)
FaultNeedsCause ==
  terminated => \/ ~rpc
                \/ gui = "register"
                \/ gui = "exit" /\ ~logined
                \/ \E p \in Parts : stream[p] # "none"

(* Threads use the members of the object that owns them: an object that is  *)
(* gone has none.  The message thread writes to MainCtrl::devices until it  *)
(* is joined.                                                               *)
DestroyedHasNoThread ==
  ~terminated => /\ \A p \in Parts \intersect destroyed : stream[p] = "none"
                 /\ "MainCtrl" \in destroyed => msg_cb_thread = "none"

(* The exit waits for the message thread no longer than the server takes to *)
(* end its stream; only a logout that did not reach the server leaves the   *)
(* program waiting on an open stream (MainCtrl.cpp:13).                     *)
ExitReturns ==
  gui = "join" ~> gui # "join" \/ (callback = "open" /\ ~logged_out)

(* The session as a whole is safe.                                          *)
SessionIsSafe == TypeOK /\ FaultNeedsCause /\ DestroyedHasNoThread
=============================================================================
