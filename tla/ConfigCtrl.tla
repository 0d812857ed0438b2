----------------------------- MODULE ConfigCtrl -----------------------------
(***************************************************************************)
(* The configuration: ConfigCtrl.cpp, the button of main.qml that saves it *)
(* and the start of the program, which reads it once.  The process may be  *)
(* killed at any moment.                                                   *)
(*                                                                         *)
(* A value is the sequence of its words, as initValues reads the file word *)
(* by word.  Of the five keys only the directory of the local recordings   *)
(* matters to the start.                                                   *)
(***************************************************************************)
EXTENDS Sequences

CONSTANTS
  Keys, Dir,   \* the keys of the page, one of them local_record_save_path
  Words, Long, \* words, and those that have the eight characters of "file:///"
  Inputs       \* what the user enters

VARIABLES
  values,  \* _values
  file,    \* the values in the file; no key at all in an empty one
  at,      \* of the process: "down", "idle", "publish" or "failed"
  saved,   \* what the last publish meant to write
  torn     \* the process was killed while it wrote the file

vars == <<values, file, at, saved, torn>>

Empty == [k \in {} |-> << >>]
Configurations == [Keys -> Inputs]

(* The file the program comes with, or none. *)
Init ==
  /\ file \in {Empty} \union {c \in Configurations : Len(c[Dir]) = 1 /\ c[Dir][1] \in Long}
  /\ saved = file
  /\ values = Empty /\ at = "down" /\ torn = FALSE

(* The first word of a line has the key, the colon and the first word of    *)
(* the value; the words after it are dropped or make keys nobody asks for.  *)
initValues ==
  values' = [k \in DOMAIN file |-> IF file[k] = << >> THEN << >> ELSE <<Head(file[k])>>]

getValue(key) == IF key \in DOMAIN values' THEN values'[key] ELSE << >>

(* substr(8, ...) throws for a value that is shorter than that.             *)
setlocalRecordDir ==
  at' = IF getValue(Dir) # << >> /\ Head(getValue(Dir)) \in Long THEN "idle" ELSE "failed"

start ==
  /\ at = "down"
  /\ initValues
  /\ setlocalRecordDir
  /\ UNCHANGED <<file, saved, torn>>

(* The button: setValue for each key, then publish up to fopen, which       *)
(* empties the file or fails and leaves it as it is.                        *)
save ==
  /\ at = "idle"
  /\ \E c \in Configurations :
       /\ values' = c
       /\ \/ file' = Empty /\ at' = "publish" /\ saved' = c
          \/ UNCHANGED <<file, at, saved>>
  /\ UNCHANGED torn

(* Mutation: the lines are appended to the file one by one. *)
publish_LineByLine ==
  /\ at = "publish"
  /\ \E k \in Keys \ DOMAIN file :
       file' = [j \in DOMAIN file \union {k} |-> values[j]]
  /\ at' = IF DOMAIN file' = Keys THEN "idle" ELSE at
  /\ UNCHANGED <<values, saved, torn>>

(* The lines fit into the buffer of the stream, which fclose writes.        *)
publish ==
  /\ at = "publish"
  /\ file' = values
  /\ at' = "idle"
  /\ UNCHANGED <<values, saved, torn>>

(* The program ends or is killed; a start that failed may be tried again.   *)
down ==
  /\ at # "down"
  /\ at' = "down" /\ values' = Empty
  /\ torn' = (torn \/ at = "publish")
  /\ UNCHANGED <<file, saved>>

Next == start \/ save \/ publish \/ down

Spec == Init /\ [][Next]_vars

----------------------------------------------------------------------------
(* Types of the variables. *)
TypeOK ==
  /\ values \in Configurations \union [Keys -> {<<w>> : w \in Words} \union {<< >>}] \union {Empty}
  /\ file \in Configurations \union {Empty} /\ saved \in Configurations \union {Empty}
  /\ at \in {"down", "idle", "publish", "failed"} /\ torn \in BOOLEAN

(* A process that was killed while it saved leaves an empty file or all     *)
(* that was saved, never a part of it or a mixture of old and new.          *)
AllOrNothing == file = Empty \/ file = saved

(* The file is lost only by a process that was killed while it saved; else  *)
(* it holds what was saved last, over any number of restarts.               *)
LostOnlyIfTorn == ~torn /\ at # "publish" => file = saved

(* A start that fails had no configuration, lost it, or was given a         *)
(* directory without the prefix of a URL (VideoCtrl.cpp:174).               *)
FailedStartNeedsCause ==
  at = "failed" => torn \/ saved = Empty \/ saved[Dir] = << >> \/ Head(saved[Dir]) \notin Long

(* The configuration survives what may happen to the process.               *)
ConfigIsSafe == TypeOK /\ AllOrNothing /\ LostOnlyIfTorn /\ FailedStartNeedsCause
=============================================================================
