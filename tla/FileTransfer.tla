---------------------------- MODULE FileTransfer ----------------------------
(***************************************************************************)
(* File transfer over three programs.                                      *)
(*                                                                         *)
(*   - TC: the dialog FTPDlg with its worker (class Task), the thread that *)
(*     reads from the Test Agent, and the user                             *)
(*   - TA: the client thread, which relays requests to the device and sets *)
(*     m_ftp, and the screen thread, which relays answers and clears it    *)
(*   - TD: the daemon's loop, which writes uploads, and one thread for     *)
(*     each download                                                       *)
(*                                                                         *)
(* No message names its transfer: an answer belongs to whatever is under   *)
(* way when it arrives, and the daemon has one file name, one descriptor   *)
(* and one thread identifier. What may go wrong through that is recorded   *)
(* in blame when it happens; each property names what it does not survive. *)
(***************************************************************************)
EXTENDS Integers, Sequences

CONSTANTS
  Files,      \* names of files, on the device and on the client
  NoFile,     \* an empty name, a descriptor of -1
  Junk,       \* a descriptor that was never assigned
  Chunks,     \* messages of data that a file takes
  MaxJobs,    \* bound on the transfers the users start
  MaxClients, \* bound on the clients, one after the other
  Cap,        \* messages that a connection holds before its writer waits
  Events      \* the external events of an instance

AllEvents == {"deviceError", "badPath", "localError", "slowClient",
              "lostEnd", "cancel", "break", "hasty", "freshDaemon",
              "lag", "link", "merged"}

ASSUME FilesAssumption ==
  /\ NoFile \notin Files /\ Junk \notin Files /\ Junk # NoFile
  /\ "clear" \notin Files /\ "last" \notin Files
ASSUME ChunksAssumption == Chunks \in Nat \ {0}
ASSUME BoundsAssumption ==
  MaxJobs \in Nat \ {0} /\ MaxClients \in Nat \ {0} /\ Cap \in Nat \ {0}
ASSUME EventsAssumption == Events \subseteq AllEvents

Jobs == 1 .. MaxJobs
Descriptors == Files \cup {NoFile, Junk}

(* A file on the device: removed, as it was, or the number of blocks that  *)
(* an upload has written.                                                  *)
Removed == -1
Old == Chunks + 1
Content == Removed .. Old

(* Messages. "get" and "data" are both 'l' on the way to and from the      *)
(* device, "put" is 'm', "write" and "end" are 'n', "error" is 'o', "last" *)
(* is an 'l' without data, "bye" the end of the client's connection.       *)
Msg == [type : {"get", "put", "write", "data"}, file : Files]
         \cup [type : {"end", "error", "last", "bye"}, file : {NoFile}]
Plain(t) == [type |-> t, file |-> NoFile]

VARIABLES
  \* TC
  up,       \* the client's end of its connection is open
  client,   \* number of clients so far
  job,      \* number of transfers so far
  dir,      \* direction of the last transfer: "put", "get" or "none"
  file,     \* its file
  worker,   \* control point of the task that runs it
  sent,     \* data messages written, to the device or to the local file
  buf,      \* the task's buffer: "clear", "last" or a file whose data it holds
  stopJob,  \* the dialog's flag stopJob
  status,   \* the dialog's last word
  \* connections
  toAgent, toDevice, toRelay, toClient,
  waiting,  \* messages of toClient that are in TC's buffer already
  \* TA
  sess,     \* the client thread is in a session
  mFtp,     \* m_ftp
  relay,    \* control point of the screen thread
  link,     \* TA has a connection to a daemon
  \* TD
  name,     \* ftpfilename
  fd,       \* the file that ftp_uploadfd writes to
  ftpThread,\* ftp_thread: a download, or 0
  thread,   \* the download threads
  disk,     \* the device's files
  \* ghosts
  targets,  \* files that a client has asked to upload
  blame     \* what may have mixed transfers up

tc  == <<up, client, waiting, job, dir, file, worker, sent, buf, stopJob,
         status>>
net == <<toAgent, toDevice, toRelay, toClient>>
ta  == <<sess, mFtp, relay, link>>
td  == <<name, fd, ftpThread, thread, disk>>
ghost == <<targets, blame>>
vars == <<tc, net, ta, td, ghost>>

Idle == [pc |-> "none", left |-> 0, file |-> NoFile]
Threads ==
  [pc : {"none", "stat", "open", "loop", "exit"}, left : 0 .. Chunks,
   file : Files \cup {NoFile}]

(* What may have mixed transfers up, or cut one short.                     *)
(*   answers, requests, openFile: what an earlier transfer has left when   *)
(*      another starts (Remains below)                                     *)
(*   oldName: a request is refused while the name of an earlier file stays *)
(*   slow, arming, wiped: an answer is lost in the one-block buffer        *)
(*   local, unopened, unread: TC's own file cannot be written, opened, read*)
(*   lostEnd: the end of an upload is not sent                             *)
(*   lag: a writer gives up on a full connection                           *)
(*   link: the daemon, or the connection to it, is lost during a transfer  *)
AllBlame == {"answers", "requests", "openFile", "oldName", "slow", "arming",
             "wiped", "local", "lostEnd", "unopened", "unread", "lag", "link"}
Workers == {"idle", "shut", "put", "end", "arm", "get", "store"}

Channels ==
  /\ toAgent \in Seq(Msg) /\ toDevice \in Seq(Msg)
  /\ toRelay \in Seq(Msg) /\ toClient \in Seq(Msg)

TypeOK ==
  /\ Channels
  /\ up \in BOOLEAN /\ sess \in BOOLEAN /\ stopJob \in BOOLEAN
  /\ link \in BOOLEAN /\ waiting \in Nat
  /\ client \in 0 .. MaxClients
  /\ job \in 0 .. MaxJobs
  /\ dir \in {"none", "put", "get"}
  /\ file \in Files \cup {NoFile}
  /\ worker \in Workers
  /\ sent \in 0 .. Chunks + 1
  /\ buf \in Files \cup {"clear", "last"}
  /\ status \in {"none", "busy", "done", "cancelled", "error"}
  /\ mFtp \in {0, 1}
  /\ relay \in {"read", "clear"}
  /\ name \in Files \cup {NoFile}
  /\ fd \in Descriptors
  /\ ftpThread \in 0 .. MaxJobs
  /\ thread \in [Jobs -> Threads]
  /\ disk \in [Files -> Content]
  /\ targets \subseteq Files
  /\ blame \subseteq AllBlame

(* The descriptor of a daemon that has just started is not initialized.    *)
FreshFd == IF "freshDaemon" \in Events THEN {NoFile, Junk} ELSE {NoFile}

Init ==
  /\ up = FALSE /\ client = 0 /\ job = 0 /\ dir = "none" /\ file = NoFile
  /\ worker = "idle" /\ sent = 0 /\ buf = "clear" /\ stopJob = TRUE
  /\ status = "none"
  /\ toAgent = <<>> /\ toDevice = <<>> /\ toRelay = <<>> /\ toClient = <<>>
  /\ waiting = 0
  /\ sess = FALSE /\ mFtp = 0 /\ relay = "read" /\ link = TRUE
  /\ name = NoFile /\ fd \in FreshFd
  /\ ftpThread = 0 /\ thread = [j \in Jobs |-> Idle]
  /\ disk = [f \in Files |-> Old]
  /\ targets = {} /\ blame = {}

Room(q) == Len(q) < Cap

(* What an earlier transfer has left when the next one starts: requests on *)
(* their way, answers on their way or to come, an open file.               *)
Answered ==
  /\ toRelay = <<>> /\ toClient = <<>> /\ relay = "read"
  /\ \A j \in Jobs : thread[j].pc = "none"
Drained == toAgent = <<>> /\ toDevice = <<>> /\ Answered

Remains ==
  (IF Answered THEN {} ELSE {"answers"})
    \cup (IF toAgent \o toDevice = <<>> THEN {} ELSE {"requests"})
    \cup (IF fd = NoFile THEN {} ELSE {"openFile"})

-----------------------------------------------------------------------------
(* TC: the user.                                                           *)

Connect ==
  /\ ~up /\ ~sess /\ client < MaxClients
  /\ up' = TRUE /\ sess' = TRUE /\ client' = client + 1
  /\ worker' = "idle" /\ sent' = 0 /\ buf' = "clear"
  /\ stopJob' = TRUE /\ status' = "none"
  /\ waiting' = 0
  /\ UNCHANGED <<job, dir, file, net, mFtp, relay, link, td, ghost>>

(* The arrow button starts a task, which sends its request; the button is  *)
(* disabled as long as the task runs.                                      *)
Start(d, f) ==
  /\ up /\ worker = "idle" /\ job < MaxJobs /\ Room(toAgent)
  /\ Remains = {} \/ "hasty" \in Events
  /\ job' = job + 1 /\ dir' = d /\ file' = f
  /\ stopJob' = FALSE /\ status' = "busy" /\ sent' = 0 /\ buf' = "clear"
  /\ worker' = IF d = "put" THEN "put" ELSE "arm"
  /\ toAgent' = Append(toAgent, [type |-> d, file |-> f])
  /\ targets' = IF d = "put" THEN targets \cup {f} ELSE targets
  /\ blame' = blame \cup Remains
  /\ UNCHANGED <<up, client, waiting, toDevice, toRelay, toClient, ta, td>>

(* The local file is missing, or cannot be opened: the task ends before it *)
(* has sent anything, and done() takes that for success.                   *)
StartFails(d, f) ==
  /\ up /\ worker = "idle" /\ job < MaxJobs /\ "localError" \in Events
  /\ Remains = {} \/ "hasty" \in Events
  /\ job' = job + 1 /\ dir' = d /\ file' = f
  /\ stopJob' = FALSE /\ status' = "busy" /\ sent' = 0 /\ buf' = "clear"
  /\ worker' = "shut"
  /\ blame' = blame \cup Remains \cup {"unopened"}
  /\ UNCHANGED <<up, client, waiting, net, ta, td, targets>>

(* The Close button while a transfer runs.                                 *)
Cancel ==
  /\ up /\ ~stopJob /\ "cancel" \in Events
  /\ stopJob' = TRUE /\ status' = "cancelled"
  /\ UNCHANGED <<up, client, waiting, job, dir, file, worker, sent, buf, net,
                 ta, td, ghost>>

(* The connection breaks: the agent reads what has arrived, then the end.  *)
Break ==
  /\ up /\ "break" \in Events
  /\ up' = FALSE /\ worker' = "idle" /\ toClient' = <<>> /\ waiting' = 0
  /\ \E n \in 0 .. Len(toAgent) :
       toAgent' = Append(SubSeq(toAgent, 1, n), Plain("bye"))
  /\ UNCHANGED <<client, job, dir, file, sent, buf, stopJob, status, toDevice,
                 toRelay, ta, td, ghost>>

-----------------------------------------------------------------------------
(* TC: the task.                                                           *)

(* The end of doInBackground, and done() after it.                         *)
Finish ==
  /\ worker' = "idle" /\ stopJob' = TRUE
  /\ status' = IF stopJob THEN status ELSE "done"

Shut ==
  /\ worker = "shut" /\ Finish
  /\ UNCHANGED <<up, client, waiting, job, dir, file, sent, buf, net, ta, td,
                 ghost>>

(* As if the loop went on after the end of the file.                       *)
PutChunkEndless ==
  /\ worker = "put" /\ ~stopJob /\ Room(toAgent)
  /\ toAgent' = Append(toAgent, [type |-> "write", file |-> file])
  /\ sent' = sent + 1
  /\ UNCHANGED <<up, client, waiting, job, dir, file, worker, buf, stopJob,
                 status, toDevice, toRelay, toClient, ta, td, ghost>>

PutChunk ==
  /\ worker = "put" /\ ~stopJob /\ sent < Chunks /\ Room(toAgent)
  /\ toAgent' = Append(toAgent, [type |-> "write", file |-> file])
  /\ sent' = sent + 1
  /\ UNCHANGED <<up, client, waiting, job, dir, file, worker, buf, stopJob,
                 status, toDevice, toRelay, toClient, ta, td, ghost>>

PutCancel ==
  /\ worker = "put" /\ stopJob /\ sent < Chunks /\ Room(toAgent)
  /\ toAgent' = Append(toAgent, Plain("error"))
  /\ worker' = "end"
  /\ UNCHANGED <<up, client, waiting, job, dir, file, sent, buf, stopJob,
                 status, toDevice, toRelay, toClient, ta, td, ghost>>

(* After the last block, and after a cancel, the time of the file is sent  *)
(* with an empty block. The time is a long cut to an int: when that is not *)
(* positive, reqFileUploadData throws before it sends anything.            *)
PutEnd ==
  /\ worker = "end" \/ (worker = "put" /\ sent = Chunks)
  /\ Room(toAgent)
  /\ \/ /\ toAgent' = Append(toAgent, Plain("end"))
        /\ UNCHANGED blame
     \/ /\ "lostEnd" \in Events
        /\ blame' = blame \cup {"lostEnd"}
        /\ UNCHANGED toAgent
  /\ Finish
  /\ UNCHANGED <<up, client, waiting, job, dir, file, sent, buf, toDevice,
                 toRelay, toClient, ta, td, targets>>

(* The local file cannot be read, or closed: the task ends, and neither an *)
(* error nor an end is sent.                                               *)
PutFails ==
  /\ worker \in {"put", "end"} /\ "localError" \in Events
  /\ blame' = blame \cup {"unread"}
  /\ Finish
  /\ UNCHANGED <<up, client, waiting, job, dir, file, sent, buf, net, ta, td,
                 targets>>

(* The buffer is declared empty only after the request has been sent: an   *)
(* answer that was faster is forgotten.                                    *)
GetArm ==
  /\ worker = "arm"
  /\ worker' = "get" /\ buf' = "clear"
  /\ blame' = IF buf = "clear" THEN blame ELSE blame \cup {"arming"}
  /\ UNCHANGED <<up, client, waiting, job, dir, file, sent, stopJob, status,
                 net, ta, td, targets>>

GetCancel ==
  /\ worker = "get" /\ buf # "clear" /\ stopJob /\ Room(toAgent)
  /\ toAgent' = Append(toAgent, Plain("error"))
  /\ Finish
  /\ UNCHANGED <<up, client, waiting, job, dir, file, sent, buf, toDevice,
                 toRelay, toClient, ta, td, ghost>>

GetLast ==
  /\ worker = "get" /\ buf = "last" /\ ~stopJob
  /\ Finish
  /\ UNCHANGED <<up, client, waiting, job, dir, file, sent, buf, net, ta, td,
                 ghost>>

(* Data of another file spoils the local file: sent = Chunks + 1.          *)
GetChunk ==
  /\ worker = "get" /\ buf \in Files /\ ~stopJob
  /\ sent' = IF buf = file /\ sent < Chunks THEN sent + 1 ELSE Chunks + 1
  /\ worker' = "store"
  /\ UNCHANGED <<up, client, waiting, job, dir, file, buf, stopJob, status,
                 net, ta, td, ghost>>

(* The write to the local file ends, and the buffer is declared empty,     *)
(* whatever the reader has put into it in the meantime.                    *)
GetStored ==
  /\ worker = "store"
  /\ worker' = "get" /\ buf' = "clear"
  /\ blame' = IF buf = "last" THEN blame \cup {"wiped"} ELSE blame
  /\ UNCHANGED <<up, client, waiting, job, dir, file, sent, stopJob, status,
                 net, ta, td, targets>>

(* A write to the local file fails, or its close.                          *)
GetFails ==
  /\ worker = "store" \/ (worker = "get" /\ buf = "last" /\ ~stopJob)
  /\ "localError" \in Events /\ Room(toAgent)
  /\ toAgent' = Append(toAgent, Plain("error"))
  /\ blame' = blame \cup {"local"}
  /\ Finish
  /\ UNCHANGED <<up, client, waiting, job, dir, file, sent, buf, toDevice,
                 toRelay, toClient, ta, td, targets>>

-----------------------------------------------------------------------------
(* TC: the thread that reads.                                              *)

(* The reader takes one message per read: others that have come with it    *)
(* stay in its buffer until the socket is readable again.                  *)
Readable == up /\ Len(toClient) > waiting
Read ==
  /\ toClient' = Tail(toClient)
  /\ \E n \in waiting .. Len(toClient) :
       /\ n = 1 \/ (n > 1 /\ "merged" \in Events)
       /\ waiting' = n - 1

(* Something else than an answer arrives, a picture or a state.            *)
OtherArrives ==
  /\ up /\ waiting > 0
  /\ waiting' = waiting - 1
  /\ UNCHANGED <<up, client, job, dir, file, worker, sent, buf, stopJob,
                 status, net, ta, td, ghost>>

Held(m) == IF m.type = "data" THEN m.file ELSE "last"

(* As if the reader did not wait for the task.                             *)
ReadDataAtOnce ==
  /\ Readable /\ Head(toClient).type \in {"data", "last"}
  /\ Read
  /\ buf' = IF stopJob THEN "last" ELSE Held(Head(toClient))
  /\ UNCHANGED <<up, client, job, dir, file, worker, sent, stopJob, status,
                 toAgent, toDevice, toRelay, ta, td, ghost>>

(* As if data were dropped after a cancel.                                 *)
ReadDataDrops ==
  /\ Readable /\ Head(toClient).type \in {"data", "last"}
  /\ Read
  /\ \/ stopJob /\ UNCHANGED <<buf, blame>>
     \/ /\ ~stopJob /\ buf = "clear"
        /\ buf' = Held(Head(toClient)) /\ UNCHANGED blame
     \/ /\ ~stopJob /\ buf # "clear" /\ "slowClient" \in Events
        /\ buf' = "last" /\ blame' = blame \cup {"slow"}
  /\ UNCHANGED <<up, client, job, dir, file, worker, sent, stopJob, status,
                 toAgent, toDevice, toRelay, ta, td, targets>>

ReadData ==
  /\ Readable /\ Head(toClient).type \in {"data", "last"}
  /\ Read
  /\ \/ stopJob /\ buf' = "last" /\ UNCHANGED blame
     \/ /\ ~stopJob /\ buf = "clear"
        /\ buf' = Held(Head(toClient)) /\ UNCHANGED blame
     \* "Buffer not cleared": after 100 ms the data is replaced by an end
     \/ /\ ~stopJob /\ buf # "clear" /\ "slowClient" \in Events
        /\ buf' = "last" /\ blame' = blame \cup {"slow"}
  /\ UNCHANGED <<up, client, job, dir, file, worker, sent, stopJob, status,
                 toAgent, toDevice, toRelay, ta, td, targets>>

ReadError ==
  /\ Readable /\ Head(toClient).type = "error"
  /\ Read
  /\ stopJob' = TRUE /\ status' = "error"
  /\ UNCHANGED <<up, client, job, dir, file, worker, sent, buf, toAgent,
                 toDevice, toRelay, ta, td, ghost>>

-----------------------------------------------------------------------------
(* TA.                                                                     *)

(* As if m_ftp were set by the data of an upload, not by its request.      *)
ForwardLateFlag ==
  /\ sess /\ toAgent # <<>> /\ Head(toAgent).type # "bye" /\ Room(toDevice)
  /\ LET m == Head(toAgent) IN
       /\ toAgent' = Tail(toAgent)
       /\ toDevice' = IF link THEN Append(toDevice, m) ELSE toDevice
       /\ mFtp' = CASE m.type \in {"get", "write"} -> 1
                    [] m.type \in {"end", "error"} -> 0
                    [] OTHER -> mFtp
  /\ blame' = IF link THEN blame ELSE blame \cup {"link"}
  /\ UNCHANGED <<tc, toRelay, toClient, sess, relay, link, td, targets>>

(* onReqFileDownload, onCliFileUpload, onCliFileUploadData and             *)
(* onCliFileErrorMsg: m_ftp is set before the message goes on, and cleared *)
(* after it. Without a connection to the daemon the message is lost.       *)
Forward ==
  /\ sess /\ toAgent # <<>> /\ Head(toAgent).type # "bye" /\ Room(toDevice)
  /\ LET m == Head(toAgent) IN
       /\ toAgent' = Tail(toAgent)
       /\ toDevice' = IF link THEN Append(toDevice, m) ELSE toDevice
       /\ mFtp' = CASE m.type \in {"get", "put"} -> 1
                    [] m.type \in {"end", "error"} -> 0
                    [] OTHER -> mFtp
  /\ blame' = IF link THEN blame ELSE blame \cup {"link"}
  /\ UNCHANGED <<tc, toRelay, toClient, sess, relay, link, td, targets>>

(* onExitClient: a transfer that the client has left is cancelled.         *)
ExitClient ==
  /\ sess /\ toAgent # <<>> /\ Head(toAgent).type = "bye" /\ Room(toDevice)
  /\ toAgent' = Tail(toAgent)
  /\ toDevice' = IF mFtp = 1 /\ link THEN Append(toDevice, Plain("error"))
                                     ELSE toDevice
  /\ mFtp' = 0 /\ sess' = FALSE
  /\ UNCHANGED <<tc, toRelay, toClient, relay, link, td, ghost>>

(* file_res_filedownload and file_svr_err_msg write to whatever client     *)
(* there is, and clear m_ftp afterwards.                                   *)
Relay ==
  /\ relay = "read" /\ toRelay # <<>>
  /\ toRelay' = Tail(toRelay)
  /\ IF up THEN /\ Len(toClient) < Cap + waiting
                /\ toClient' = Append(toClient, Head(toRelay))
           ELSE UNCHANGED toClient
  /\ relay' = IF Head(toRelay).type = "data" THEN "read" ELSE "clear"
  /\ UNCHANGED <<tc, toAgent, toDevice, sess, mFtp, link, td, ghost>>

(* As if m_ftp stayed.                                                     *)
RelayKeep ==
  /\ relay = "clear" /\ relay' = "read"
  /\ UNCHANGED <<tc, net, sess, mFtp, link, td, ghost>>

RelayClear ==
  /\ relay = "clear"
  /\ relay' = "read" /\ mFtp' = 0
  /\ UNCHANGED <<tc, net, sess, link, td, ghost>>

(* The connection to the daemon breaks. The screen thread reads what has   *)
(* arrived and replaces the daemon: what that had in memory is gone, what  *)
(* it had written stays on the disk.                                       *)
LinkLost ==
  /\ link /\ "link" \in Events
  /\ link' = FALSE
  /\ toDevice' = <<>>
  /\ \E n \in 0 .. Len(toRelay) : toRelay' = SubSeq(toRelay, 1, n)
  /\ name' = NoFile /\ fd' \in FreshFd
  /\ ftpThread' = 0 /\ thread' = [j \in Jobs |-> Idle]
  /\ blame' = blame \cup (IF fd' = NoFile THEN {} ELSE {"openFile"})
                    \cup (IF Remains = {} /\ worker = "idle" THEN {}
                                                          ELSE {"link"})
  /\ UNCHANGED <<tc, toAgent, toClient, sess, mFtp, relay, disk, targets>>

RestartFbc ==
  /\ ~link /\ toRelay = <<>> /\ relay = "read"
  /\ link' = TRUE
  /\ UNCHANGED <<tc, net, sess, mFtp, relay, td, ghost>>

(* A writer gives up on a full connection after connectionTimeout or       *)
(* MAXCLIENTWAIT, and goes on as if it had written its message.            *)
Drop(q) == SubSeq(q, 1, Len(q) - 1)
Unsent(q) == Len(q) = Cap /\ q[Cap].type # "bye"

GivesUp ==
  /\ "lag" \in Events
  /\ \/ /\ Unsent(toAgent) /\ toAgent' = Drop(toAgent)
        /\ UNCHANGED <<toDevice, toRelay, toClient>>
     \/ /\ Unsent(toDevice) /\ toDevice' = Drop(toDevice)
        /\ UNCHANGED <<toAgent, toRelay, toClient>>
     \/ /\ Unsent(toRelay) /\ toRelay' = Drop(toRelay)
        /\ UNCHANGED <<toAgent, toDevice, toClient>>
     \/ /\ Len(toClient) = Cap + waiting /\ toClient' = Drop(toClient)
        /\ UNCHANGED <<toAgent, toDevice, toRelay>>
  /\ blame' = blame \cup {"lag"}
  /\ UNCHANGED <<tc, ta, td, targets>>

-----------------------------------------------------------------------------
(* TD: the daemon's loop.                                                  *)

Arrived(t) == toDevice # <<>> /\ Head(toDevice).type = t

(* SendFileErrMsg.                                                         *)
SendFileErr == toRelay' = Append(toRelay, Plain("error"))

(* ConvertPath fails for a path that is empty or too long. The name of the *)
(* transfer before stays, and the data of the refused upload is to come.   *)
ConvertFails ==
  /\ Arrived("get") \/ Arrived("put")
  /\ "badPath" \in Events /\ Room(toRelay)
  /\ toDevice' = Tail(toDevice) /\ SendFileErr
  /\ blame' = IF name = NoFile THEN blame ELSE blame \cup {"oldName"}
  /\ UNCHANGED <<tc, toAgent, toClient, ta, td, targets>>

FreeThread(j) ==
  /\ thread[j].pc = "none"
  /\ \A i \in 1 .. j - 1 : thread[i].pc # "none"

OnFileDownloadReq ==
  /\ Arrived("get")
  /\ toDevice' = Tail(toDevice)
  /\ name' = Head(toDevice).file
  /\ \E j \in Jobs : FreeThread(j) /\ ftpThread' = j
                      /\ thread' = [thread EXCEPT ![j].pc = "stat"]
  /\ UNCHANGED <<tc, toAgent, toRelay, toClient, ta, fd, disk, ghost>>

OnFileUploadReq ==
  /\ Arrived("put")
  /\ toDevice' = Tail(toDevice)
  /\ name' = Head(toDevice).file
  /\ \/ /\ fd' = name' /\ disk' = [disk EXCEPT ![name'] = 0]
        /\ UNCHANGED toRelay
     \/ /\ "deviceError" \in Events /\ Room(toRelay)
        /\ fd' = NoFile /\ SendFileErr /\ UNCHANGED disk
  /\ UNCHANGED <<tc, toAgent, toClient, ta, ftpThread, thread, ghost>>

(* CloseUndoneFileTransfer closes the descriptor and removes the file that *)
(* the name says.                                                          *)
CloseUndone ==
  /\ fd' = NoFile /\ name' = NoFile
  /\ disk' = [f \in Files |-> IF f = name THEN Removed ELSE disk[f]]

(* As if the error of a write were not reported.                           *)
OnFileWriteSilent ==
  /\ Arrived("write")
  /\ toDevice' = Tail(toDevice)
  /\ \/ /\ fd \in Files
        /\ disk' = [disk EXCEPT ![fd] =
                      IF @ \in 0 .. Chunks - 1 THEN @ + 1 ELSE @]
        /\ UNCHANGED <<name, fd, toRelay>>
     \/ /\ fd \notin Files \/ "deviceError" \in Events
        /\ CloseUndone /\ UNCHANGED toRelay
  /\ UNCHANGED <<tc, toAgent, toClient, ta, ftpThread, thread, ghost>>

(* A block of data; without an open file the write fails.                  *)
OnFileWrite ==
  /\ Arrived("write")
  /\ toDevice' = Tail(toDevice)
  /\ \/ /\ fd \in Files
        /\ disk' = [disk EXCEPT ![fd] =
                      IF @ \in 0 .. Chunks - 1 THEN @ + 1 ELSE @]
        /\ UNCHANGED <<name, fd, toRelay>>
     \/ /\ fd \notin Files \/ "deviceError" \in Events
        /\ Room(toRelay) /\ SendFileErr /\ CloseUndone
  /\ UNCHANGED <<tc, toAgent, toClient, ta, ftpThread, thread, ghost>>

OnFileEnd ==
  /\ Arrived("end")
  /\ toDevice' = Tail(toDevice) /\ fd' = NoFile
  /\ UNCHANGED <<tc, toAgent, toRelay, toClient, ta, name, ftpThread, thread,
                 disk, ghost>>

(* As if the descriptor were not tested.                                   *)
OnFileErrAlways ==
  /\ Arrived("error")
  /\ toDevice' = Tail(toDevice)
  /\ CloseUndone
  /\ ftpThread' = 0
  /\ UNCHANGED <<tc, toAgent, toRelay, toClient, ta, thread, ghost>>

(* As if the file of a cancelled upload were only closed.                  *)
OnFileErrKeeps ==
  /\ Arrived("error")
  /\ toDevice' = Tail(toDevice) /\ fd' = NoFile
  /\ ftpThread' = 0
  /\ UNCHANGED <<tc, toAgent, toRelay, toClient, ta, name, thread, disk,
                 ghost>>

(* onFileErr: the transfer is cancelled.                                   *)
OnFileErr ==
  /\ Arrived("error")
  /\ toDevice' = Tail(toDevice)
  /\ IF fd # NoFile THEN CloseUndone ELSE UNCHANGED <<fd, name, disk>>
  /\ ftpThread' = 0
  /\ UNCHANGED <<tc, toAgent, toRelay, toClient, ta, thread, ghost>>

-----------------------------------------------------------------------------
(* TD: a download thread. Its path is the shared name, its stop flag the   *)
(* shared thread identifier.                                               *)

Exists(f) == f \in Files /\ disk[f] # Removed

ThreadStat(j) ==
  /\ thread[j].pc = "stat"
  /\ \/ /\ Exists(name)
        /\ thread' = [thread EXCEPT ![j].pc = "open"] /\ UNCHANGED toRelay
     \/ /\ ~Exists(name) \/ "deviceError" \in Events
        /\ Room(toRelay) /\ SendFileErr
        /\ thread' = [thread EXCEPT ![j] = Idle]
  /\ UNCHANGED <<tc, toAgent, toDevice, toClient, ta, name, fd, ftpThread,
                 disk, ghost>>

Length(f) == IF disk[f] = Old THEN Chunks ELSE disk[f]

ThreadOpen(j) ==
  /\ thread[j].pc = "open"
  /\ \/ /\ Exists(name)
        /\ thread' = [thread EXCEPT ![j] =
                        [pc |-> "loop", left |-> Length(name), file |-> name]]
        /\ UNCHANGED toRelay
     \/ /\ ~Exists(name) \/ "deviceError" \in Events
        /\ Room(toRelay) /\ SendFileErr
        /\ thread' = [thread EXCEPT ![j] = Idle]
  /\ UNCHANGED <<tc, toAgent, toDevice, toClient, ta, name, fd, ftpThread,
                 disk, ghost>>

DataOf(j) == [type |-> "data", file |-> thread[j].file]

(* As if the loop had no break at the end of the file.                     *)
ThreadReadOn(j) ==
  /\ thread[j].pc = "loop" /\ ftpThread # 0 /\ Room(toRelay)
  /\ \/ /\ thread[j].left > 0
        /\ toRelay' = Append(toRelay, DataOf(j))
        /\ thread' = [thread EXCEPT ![j].left = @ - 1]
     \/ /\ thread[j].left = 0
        /\ toRelay' = Append(toRelay, Plain("last"))
        /\ UNCHANGED thread
  /\ UNCHANGED <<tc, toAgent, toDevice, toClient, ta, name, fd, ftpThread,
                 disk, ghost>>

ThreadRead(j) ==
  /\ thread[j].pc = "loop" /\ ftpThread # 0 /\ Room(toRelay)
  /\ \/ /\ thread[j].left > 0
        /\ toRelay' = Append(toRelay, DataOf(j))
        /\ thread' = [thread EXCEPT ![j].left = @ - 1]
     \/ /\ thread[j].left = 0
        /\ toRelay' = Append(toRelay, Plain("last"))
        /\ thread' = [thread EXCEPT ![j].pc = "exit"]
     \/ /\ "deviceError" \in Events
        /\ SendFileErr
        /\ thread' = [thread EXCEPT ![j].pc = "exit"]
  /\ UNCHANGED <<tc, toAgent, toDevice, toClient, ta, name, fd, ftpThread,
                 disk, ghost>>

ThreadStopped(j) ==
  /\ thread[j].pc = "loop" /\ ftpThread = 0
  /\ thread' = [thread EXCEPT ![j].pc = "exit"]
  /\ UNCHANGED <<tc, net, ta, name, fd, ftpThread, disk, ghost>>

(* The thread clears the identifier, whosever it is by then.               *)
ThreadExit(j) ==
  /\ thread[j].pc = "exit"
  /\ ftpThread' = 0
  /\ thread' = [thread EXCEPT ![j] = Idle]
  /\ UNCHANGED <<tc, net, ta, name, fd, disk, ghost>>

-----------------------------------------------------------------------------
Task == Shut \/ PutFails \/ PutChunk \/ PutCancel \/ PutEnd
          \/ GetArm \/ GetCancel \/ GetLast \/ GetChunk \/ GetStored
          \/ GetFails
Reader == ReadData \/ ReadError
ClientThread == Forward \/ ExitClient
ScreenThread == Relay \/ RelayClear
Daemon == ConvertFails \/ OnFileDownloadReq \/ OnFileUploadReq \/ OnFileWrite
            \/ OnFileEnd \/ OnFileErr
Download(j) == ThreadStat(j) \/ ThreadOpen(j) \/ ThreadRead(j)
                 \/ ThreadStopped(j) \/ ThreadExit(j)

User == Connect \/ Cancel \/ Break
          \/ \E d \in {"put", "get"}, f \in Files :
               Start(d, f) \/ StartFails(d, f)
Environment == OtherArrives \/ LinkLost \/ RestartFbc \/ GivesUp

Next == User \/ Environment \/ Task \/ Reader \/ ClientThread
          \/ ScreenThread \/ Daemon \/ \E j \in Jobs : Download(j)

Spec == Init /\ [][Next]_vars

(* Every thread of the three programs runs; nobody has to click, and no    *)
(* connection has to break.                                                *)
Fairness ==
  /\ WF_vars(Task) /\ WF_vars(Reader) /\ WF_vars(ClientThread)
  /\ WF_vars(ScreenThread) /\ WF_vars(Daemon)
  /\ \A j \in Jobs : WF_vars(Download(j))
FairSpec == Spec /\ Fairness

-----------------------------------------------------------------------------
(* Properties.                                                             *)

(* When a client has left and everything has come to rest, the device has  *)
(* no file open for writing and no half of an upload: the client finished  *)
(* it, or the daemon gave it up, or onExitClient cancelled it. For that    *)
(* m_ftp must be set as long as an upload is under way, though the client  *)
(* thread sets it and the screen thread clears it as well. A local file    *)
(* that fails is no exception; transfers that meet are, and a lost message *)
(* or daemon.                                                              *)
NoHalfFile ==
  (~sess /\ Drained
     /\ blame \cap {"answers", "requests", "openFile", "lag", "link"} = {}) =>
    /\ fd \notin Files
    /\ \A f \in Files : disk[f] \notin 0 .. Chunks - 1

(* A file that nobody has asked to upload is never removed from the device *)
(* by a cancelled or broken transfer, a download of that file included,    *)
(* although CloseUndoneFileTransfer removes whatever the name says. The    *)
(* loss of the daemon is no exception: its name is gone with it. A name    *)
(* that stays is one, and a "put" that is lost before its data.            *)
SourcesKept ==
  blame \cap {"requests", "openFile", "oldName", "lag"} = {}
    => \A f \in Files \ targets : disk[f] = Old

(* A download that the dialog calls done is whole: no block is lost, added *)
(* or taken from another file between the device's disk and the client's,  *)
(* through four connections, a shared file name and a one-block buffer.    *)
(* The exceptions: transfers that meet; an answer lost in the buffer; a    *)
(* local file that cannot be opened, read or written; a lost message or    *)
(* daemon.                                                                 *)
DoneIsWhole ==
  (status = "done" /\ dir = "get"
     /\ blame \cap {"answers", "requests", "slow", "arming", "wiped", "local",
                    "unopened", "unread", "lag", "link"} = {})
    => sent = Chunks

(* The transfers implement DeviceFiles: nothing but an upload that somebody*)
(* asked for changes a file of the device, and it is closed whole or       *)
(* removed, until answers, requests or names of two transfers meet or a    *)
(* message or the daemon is lost.                                          *)
Form(n) == CASE n = Old -> "old"
             [] n = Chunks -> "whole"
             [] n = Removed -> "removed"
             [] n \in 0 .. Chunks - 1 -> "part"

Device == INSTANCE DeviceFiles WITH
  asked <- targets, content <- [f \in Files |-> Form(disk[f])],
  open <- IF fd \in Files THEN fd ELSE NoFile,
  mixed <- blame \cap {"answers", "requests", "openFile", "oldName", "lag",
                       "link"} # {}

FilesKept == Device!Spec

(* The dialog calls an upload done when its last message has been sent,    *)
(* and nothing confirms it. Finally the file is on the device, or the      *)
(* dialog shows the device's error, unless the client goes away or starts  *)
(* another transfer. The exceptions: transfers that meet; a local file that*)
(* fails, or a time that is not positive, after which no end is sent; a    *)
(* lost message or daemon; an error that stays in TC's buffer.             *)
UploadSettles ==
  \A n \in Jobs, f \in Files :
    (status = "done" /\ dir = "put" /\ job = n /\ file = f
       /\ blame \cap {"answers", "requests", "openFile", "lostEnd", "unopened",
                      "unread"} = {})
      ~> \/ disk[f] = Chunks /\ fd = NoFile
         \/ status = "error" \/ ~up \/ job # n
         \/ waiting # 0 \/ blame \cap {"lag", "link"} # {}

(* The frame requests of a client stop while m_ftp is set (update_req), so *)
(* m_ftp is finally cleared, by the end of the transfer, an error of       *)
(* either side, a cancel or the end of the session. The exceptions:        *)
(* transfers that meet; an upload that ends without an end, because of its *)
(* time or its local file; a lost message or daemon, after which the flag  *)
(* stays until the client leaves.                                          *)
ScreenResumes ==
  mFtp = 1 ~> \/ mFtp = 0
              \/ blame \cap {"answers", "requests", "openFile", "lostEnd",
                            "unread", "lag", "link"} # {}

(* A cancel ends the task, although a download looks at the flag only when *)
(* data arrives; unless the device has refused the download, after which   *)
(* no data comes, or its last message is lost: transfers that meet, an     *)
(* answer lost in the buffer or left in TC's reader, a lost message or     *)
(* daemon.                                                                 *)
CancelEnds ==
  (stopJob /\ worker # "idle")
    ~> \/ worker = "idle" \/ status = "error"
       \/ waiting # 0
       \/ blame \cap {"answers", "requests", "openFile", "arming", "wiped",
                      "lag", "link"} # {}

(* The download thread of a client that has gone ends.                     *)
ThreadsEnd ==
  \A j \in Jobs :
    (~sess /\ thread[j].pc # "none") ~> (thread[j].pc = "none" \/ sess)

=============================================================================
