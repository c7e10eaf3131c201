----------------------------- MODULE DeviceFiles -----------------------------
(***************************************************************************)
(* What the file transfer promises about the files of the device: only a   *)
(* file that somebody asked to upload changes; it is opened, takes all of  *)
(* the new contents and is closed, or it is removed. One file is open at a *)
(* time, and none is closed with a part of the contents.                   *)
(*                                                                         *)
(* The promise ends when transfers get mixed up.                           *)
(***************************************************************************)
CONSTANTS Files, NoFile

VARIABLES
  asked,   \* the files that somebody asked to upload
  open,    \* the file being uploaded
  content, \* of each file: "old", "part" or "whole" of an upload, "removed"
  mixed    \* the promise has ended

vars == <<asked, open, content, mixed>>

Init ==
  /\ asked = {} /\ open = NoFile /\ mixed = FALSE
  /\ content = [f \in Files |-> "old"]

Ask(f) ==
  /\ asked' = asked \cup {f}
  /\ UNCHANGED <<open, content, mixed>>

Begin(f) ==
  /\ f \in asked /\ open = NoFile
  /\ open' = f
  /\ content' = [content EXCEPT ![f] = "part"]
  /\ UNCHANGED <<asked, mixed>>

Complete(f) ==
  /\ open = f /\ content[f] = "part"
  /\ content' = [content EXCEPT ![f] = "whole"]
  /\ UNCHANGED <<asked, open, mixed>>

Close(f) ==
  /\ open = f /\ content[f] = "whole"
  /\ open' = NoFile
  /\ UNCHANGED <<asked, content, mixed>>

(* An upload that fails or is cancelled removes its file, also when the    *)
(* file could not be opened.                                               *)
Remove(f) ==
  /\ f \in asked /\ open \in {f, NoFile}
  /\ open' = NoFile
  /\ content' = [content EXCEPT ![f] = "removed"]
  /\ UNCHANGED <<asked, mixed>>

Mix == mixed'

Next ==
  \/ \E f \in Files :
       Ask(f) \/ Begin(f) \/ Complete(f) \/ Close(f) \/ Remove(f)
  \/ Mix

Spec == Init /\ [][Next]_vars

=============================================================================
