----------------------- MODULE FileTransferStoreProofs -----------------------
(* FileTransfer implements DeviceFiles: what happens to the files of the   *)
(* device, for every number and length of files and every event.           *)
EXTENDS FileTransferWholeProofs

USE DEF tc, net, ta, td, ghost

Opened == IF fd \in Files THEN fd ELSE NoFile
Forms == [f \in Files |-> Form(disk[f])]
Mixed ==
  blame \cap {"answers", "requests", "openFile", "oldName", "lag", "link"} # {}

LEMMA FormOf ==
  /\ Form(Old) = "old" /\ Form(Chunks) = "whole" /\ Form(Removed) = "removed"
  /\ \A n \in 0 .. Chunks - 1 : Form(n) = "part"
BY ChunksAssumption DEF Form, Old, Removed

LEMMA FormsChange ==
  ASSUME Typed, NEW f \in Files, NEW n, disk' = [disk EXCEPT ![f] = n]
  PROVE  Forms' = [Forms EXCEPT ![f] = Form(n)]
BY DEF Forms, Typed, TypeOK

(* What the invariants say of a transfer that nothing has mixed up: the    *)
(* open file is the last upload's, and so is the name at data or at an     *)
(* error for an open descriptor.                                           *)
LEMMA OpenFile ==
  ASSUME Typed, Kept, Transfers, ~Mixed
  PROVE  /\ ~Strayed /\ Clean
         /\ fd \in Files => /\ Transfer /\ Open /\ name = fd /\ fd \in targets
                            /\ disk[fd] \in 0 .. Chunks
         /\ OnWay("put") => fd \notin Files
<1>1. ~Strayed /\ ~Excused /\ "openFile" \notin blame
  BY DEF Mixed, Strayed, Excused
<1>2. Clean
  BY <1>1 DEF Kept
<1>3. ASSUME fd \in Files
      PROVE  Transfer /\ Open /\ OneOpen
  BY <1>1, <1>3 DEF Open, Uploading, Upload, Transfers, Transfer
<1>4. OnWay("put") => ~Open
  BY <1>1 DEF Uploading, Upload, Transfers, Transfer, OneOpen
<1>5. fd \in Files => Open
  BY <1>1 DEF Open
<1> QED
  BY <1>1, <1>2, <1>3, <1>4, <1>5 DEF OneOpen, Clean, OpenSafe

Same == UNCHANGED <<targets, Opened, Forms, Mixed>>

(* CloseUndoneFileTransfer removes the file of the upload.                 *)
LEMMA Removing ==
  ASSUME Typed, CloseUndone, UNCHANGED <<targets, blame>>,
         name \in targets \cup {NoFile}, fd \in Files => name = fd
  PROVE  Same \/ \E f \in Files : Device!Remove(f)
<1>1. Opened' = NoFile
  BY FilesAssumption DEF CloseUndone, Opened
<1>2. CASE name = NoFile
  <2>1. disk' = disk
    BY <1>2, FilesAssumption DEF CloseUndone, Typed, TypeOK
  <2>2. Opened = NoFile
    BY <1>2, FilesAssumption DEF Opened
  <2> QED
    BY <1>1, <2>1, <2>2 DEF Same, Forms, Mixed
<1>3. CASE name \in targets
  <2>1. name \in Files
    BY <1>3 DEF Typed, TypeOK
  <2>2. disk' = [disk EXCEPT ![name] = Removed]
    BY <2>1 DEF CloseUndone, Typed, TypeOK
  <2>3. Forms' = [Forms EXCEPT ![name] = "removed"]
    BY <2>1, <2>2, FormsChange, FormOf
  <2>4. Opened \in {name, NoFile}
    BY DEF Opened
  <2>5. Device!Remove(name)
    BY <1>1, <1>3, <2>3, <2>4 DEF Device!Remove, Opened, Forms
  <2> QED
    BY <2>1, <2>5
<1> QED
  BY <1>2, <1>3

(* What the message at the head of the daemon's queue says of the transfer. *)
LEMMA OwnHead ==
  ASSUME Typed, Clean, toDevice # <<>>
  PROVE  /\ Head(toDevice).type = "put" =>
              Head(toDevice).file \in targets /\ Head(toDevice).file \in Files
         /\ Head(toDevice).type = "write" => dir = "put"
<1>1. toDevice \in Seq(Msg) /\ targets \subseteq Files
  BY DEF Typed, TypeOK, Channels
<1>2. 1 \in 1 .. Len(toDevice) /\ Head(toDevice) = toDevice[1]
  BY <1>1
<1> QED
  BY <1>1, <1>2 DEF Clean, Owned, OfJob

(* The file that the end of an upload finds open is whole.                 *)
LEMMA EndWhole ==
  ASSUME Typed, Transfer, Open, toDevice # <<>>, toDevice' = Tail(toDevice),
         Head(toDevice).type = "end", toDevice' = <<>>, OnlyBye(toAgent),
         worker \notin {"put", "end"}
  PROVE  disk[fd] = Chunks
<1>1. toAgent \in Seq(Msg) /\ toDevice \in Seq(Msg)
  BY Zenon DEF Typed, TypeOK, Channels
<1>2. \A t : Carries(toDevice, t) <=>
               Head(toDevice).type = t \/ Carries(toDevice', t)
  BY <1>1, CarriesQueue
<1>3. \A t : t # "bye" => ~Carries(toAgent, t)
  BY <1>1, LastOnly
<1>4. ~Carries(toDevice', "error") /\ ~Carries(toDevice', "write")
  BY Nothing
<1>5. Whole
  BY <1>2, <1>3, <1>4 DEF Whole, OnWay
<1>6. Count(toAgent, "write") = 0 /\ Count(toDevice, "write") = 0
  BY <1>1, <1>2, <1>3, <1>4, CountNone
<1>7. disk[fd] + 0 + 0 = Chunks
  BY <1>5, <1>6 DEF Transfer, Counted, Written
<1>8. disk[fd] \in Int
  BY ChunksAssumption DEF Transfer, OneOpen
<1> QED
  BY <1>7, <1>8

LEMMA DeviceStep ==
  ASSUME Typed, Kept, Transfers, [Next]_vars
  PROVE  [Device!Next]_(Device!vars)
<1>1. CASE Mixed'
  BY <1>1 DEF Device!Next, Device!Mix, Mixed
<1> SUFFICES ASSUME ~Mixed'
             PROVE  Same \/ \E f \in Files :
                      \/ Device!Ask(f) \/ Device!Begin(f) \/ Device!Complete(f)
                      \/ Device!Close(f) \/ Device!Remove(f)
  BY <1>1 DEF Same, Device!Next, Device!vars, Opened, Forms, Mixed
<1>2. CASE \E d \in {"put", "get"}, f \in Files : Start(d, f)
  <2>1. PICK d \in {"put", "get"}, f \in Files : Start(d, f)
    BY <1>2
  <2>2. /\ UNCHANGED <<fd, disk>> /\ blame \subseteq blame'
        /\ targets' = targets \cup {f} \/ targets' = targets
    BY <2>1 DEF Start
  <2>3. UNCHANGED <<Opened, Forms, Mixed>>
    BY <2>2 DEF Opened, Forms, Mixed
  <2>4. CASE targets' = targets
    BY <2>3, <2>4 DEF Same
  <2>5. CASE targets' = targets \cup {f}
    <3>1. Device!Ask(f)
      BY <2>3, <2>5 DEF Device!Ask, Opened, Forms, Mixed
    <3> QED
      BY <3>1
  <2> QED
    BY <2>2, <2>4, <2>5
<1>3. CASE \/ Connect \/ Cancel \/ Break \/ Task \/ Reader \/ ClientThread
           \/ ScreenThread \/ ConvertFails \/ OnFileDownloadReq
           \/ (\E j \in Jobs : Download(j)) \/ UNCHANGED vars
  <2>1. UNCHANGED <<fd, disk, targets>> /\ blame \subseteq blame'
    <3>1. CASE Task
      BY <3>1 DEF Task, Shut, PutFails, PutChunk, PutCancel, PutEnd, GetArm,
      GetCancel, GetLast, GetChunk, GetStored, GetFails
    <3>2. CASE \/ Connect \/ Cancel \/ Break \/ Reader \/ ClientThread
               \/ ScreenThread
      BY <3>2 DEF Connect, Cancel, Break, Reader, ReadData, ReadError,
      ClientThread, Forward, ExitClient, ScreenThread, Relay, RelayClear
    <3>3. CASE ConvertFails \/ OnFileDownloadReq \/ UNCHANGED vars
      BY <3>3 DEF ConvertFails, OnFileDownloadReq, vars
    <3>4. CASE \E j \in Jobs : Download(j)
      BY <3>4 DEF Download, ThreadStat, ThreadOpen, ThreadRead, ThreadStopped,
      ThreadExit
    <3> QED
      BY <1>3, <3>1, <3>2, <3>3, <3>4
  <2> QED
    BY <2>1 DEF Same, Opened, Forms, Mixed
<1>4. CASE OnFileUploadReq \/ OnFileWrite \/ OnFileEnd \/ OnFileErr
  <2>1. /\ UNCHANGED <<targets, blame, dir, toAgent>>
        /\ toDevice # <<>> /\ toDevice' = Tail(toDevice)
    BY <1>4 DEF OnFileUploadReq, OnFileWrite, OnFileEnd, OnFileErr, Arrived
  <2>2. ~Mixed /\ Mixed' = Mixed
    BY <2>1 DEF Mixed
  <2>3. /\ ~Strayed /\ Clean
        /\ fd \in Files => /\ Transfer /\ Open /\ name = fd /\ fd \in targets
                           /\ disk[fd] \in 0 .. Chunks
        /\ OnWay("put") => fd \notin Files
    BY <2>2, OpenFile
  <2>4. /\ \A t : Carries(toDevice, t) <=>
                    Head(toDevice).type = t \/ Carries(toDevice', t)
        /\ Head(toDevice).type # "put" => ~OnWay("put")
        /\ Head(toDevice).type = "end" =>
             /\ toDevice' = <<>> /\ OnlyBye(toAgent)
             /\ worker \notin {"put", "end"}
    BY <2>1, <2>3, DaemonTakes DEF Transfers, Strayed
  <2>5. CASE OnFileUploadReq
    <3>1. /\ Head(toDevice).type = "put" /\ name' = Head(toDevice).file
          /\ \/ fd' = name' /\ disk' = [disk EXCEPT ![name'] = 0]
             \/ fd' = NoFile /\ disk' = disk
      BY <2>5 DEF OnFileUploadReq, Arrived
    <3>2. Opened = NoFile
      BY <2>3, <2>4, <3>1 DEF OnWay, Opened
    <3>3. name' \in targets /\ name' \in Files
      BY <2>1, <2>3, <3>1, OwnHead DEF Typed, TypeOK
    <3>4. CASE fd' = NoFile /\ disk' = disk
      BY <2>1, <2>2, <3>2, <3>4, FilesAssumption DEF Same, Opened, Forms
    <3>5. CASE fd' = name' /\ disk' = [disk EXCEPT ![name'] = 0]
      <4>1. Forms' = [Forms EXCEPT ![name'] = "part"]
        <5>1. Form(0) = "part"
          BY FormOf, ChunksAssumption
        <5>2. Forms' = [Forms EXCEPT ![name'] = Form(0)]
          BY <3>3, <3>5 DEF Forms, Typed, TypeOK
        <5> QED
          BY <5>1, <5>2
      <4>2. Opened' = name'
        BY <3>3, <3>5 DEF Opened
      <4>3. Device!Begin(name')
        BY <2>1, <2>2, <3>2, <3>3, <4>1, <4>2
        DEF Device!Begin, Opened, Forms, Mixed
      <4> QED
        BY <3>3, <4>3
    <3> QED
      BY <3>1, <3>4, <3>5
  <2>6. CASE OnFileWrite
    <3>1. /\ Head(toDevice).type = "write"
          /\ \/ /\ fd \in Files /\ UNCHANGED fd
                /\ disk' = [disk EXCEPT ![fd] =
                              IF @ \in 0 .. Chunks - 1 THEN @ + 1 ELSE @]
             \/ CloseUndone
      BY <2>6 DEF OnFileWrite, Arrived
    <3>2. CASE CloseUndone
      <4>1. name \in targets \cup {NoFile}
        <5>1. dir = "put"
          BY <2>1, <2>3, <3>1, OwnHead
        <5>2. ~Pending
          BY <2>4, <3>1 DEF Pending, OnWay
        <5>3. ~Lost
          BY <2>4, <3>1 DEF Lost
        <5> QED
          BY <2>3, <5>1, <5>2, <5>3 DEF Clean, NameSafe
      <4> QED
        BY <2>1, <2>3, <3>2, <4>1, Removing
    <3>3. CASE /\ fd \in Files /\ UNCHANGED fd
               /\ disk' = [disk EXCEPT ![fd] =
                             IF @ \in 0 .. Chunks - 1 THEN @ + 1 ELSE @]
      <4>1. UNCHANGED Opened
        BY <3>3 DEF Opened
      <4>2. CASE disk[fd] \in 0 .. Chunks - 1
        <5>1. disk' = [disk EXCEPT ![fd] = disk[fd] + 1]
          BY <3>3, <4>2 DEF Typed, TypeOK
        <5>2. /\ Forms' = [Forms EXCEPT ![fd] = Form(disk[fd] + 1)]
              /\ Forms[fd] = "part"
          BY <3>3, <4>2, <5>1, FormsChange, FormOf DEF Forms
        <5>3. CASE disk[fd] + 1 = Chunks
          <6>1. Device!Complete(fd)
            BY <2>1, <2>2, <3>3, <4>1, <5>2, <5>3, FormOf
            DEF Device!Complete, Opened, Forms, Mixed
          <6> QED
            BY <3>3, <6>1
        <5>4. CASE disk[fd] + 1 # Chunks
          <6>1. disk[fd] + 1 \in 0 .. Chunks - 1
            BY <4>2, <5>4, ChunksAssumption
          <6>2. Forms' = Forms
            BY <5>2, <6>1, FormOf DEF Forms
          <6> QED
            BY <2>1, <2>2, <4>1, <6>2 DEF Same
        <5> QED
          BY <5>3, <5>4
      <4>3. CASE disk[fd] \notin 0 .. Chunks - 1
        <5>1. disk' = disk
          BY <3>3, <4>3 DEF Typed, TypeOK
        <5> QED
          BY <2>1, <2>2, <4>1, <5>1 DEF Same, Forms
      <4> QED
        BY <4>2, <4>3
    <3> QED
      BY <3>1, <3>2, <3>3
  <2>7. CASE OnFileEnd
    <3>1. Head(toDevice).type = "end" /\ fd' = NoFile /\ disk' = disk
      BY <2>7 DEF OnFileEnd, Arrived
    <3>2. Opened' = NoFile /\ Forms' = Forms
      BY <3>1, FilesAssumption DEF Opened, Forms
    <3>3. CASE fd \notin Files
      BY <2>1, <2>2, <3>2, <3>3 DEF Same, Opened
    <3>4. CASE fd \in Files
      <4>1. disk[fd] = Chunks
        BY <2>1, <2>3, <2>4, <3>1, <3>4, EndWhole
      <4>2. Device!Close(fd)
        BY <2>1, <2>2, <3>2, <3>4, <4>1, FormOf
        DEF Device!Close, Opened, Forms, Mixed
      <4> QED
        BY <3>4, <4>2
    <3> QED
      BY <3>3, <3>4
  <2>8. CASE OnFileErr
    <3>1. CloseUndone \/ (fd = NoFile /\ UNCHANGED <<fd, disk>>)
      BY <2>8 DEF OnFileErr
    <3>2. CASE UNCHANGED <<fd, disk>>
      BY <2>1, <2>2, <3>2 DEF Same, Opened, Forms
    <3>3. CASE CloseUndone /\ fd # NoFile
      <4>1. name \in targets \cup {NoFile}
        <5>1. dir \in {"none", "put", "get"}
          BY DEF Typed, TypeOK
        <5> QED
          BY <2>3, <3>3, <5>1 DEF Clean, NameSafe, Pending, Lost
      <4> QED
        BY <2>1, <2>3, <3>3, <4>1, Removing
    <3> QED
      BY <2>8, <3>1, <3>2, <3>3 DEF OnFileErr
  <2> QED
    BY <1>4, <2>5, <2>6, <2>7, <2>8
<1>5. CASE \/ Environment
           \/ \E d \in {"put", "get"}, f \in Files : StartFails(d, f)
  <2>1. CASE LinkLost
    <3>1. /\ UNCHANGED <<disk, targets>> /\ fd' \in {NoFile, Junk}
          /\ blame \subseteq blame' /\ Remains = {}
      BY <2>1 DEF LinkLost, FreshFd, Mixed
    <3>2. fd = NoFile
      BY <3>1 DEF Remains
    <3>3. Opened = NoFile /\ Opened' = NoFile
      BY <3>1, <3>2, FilesAssumption DEF Opened
    <3> QED
      BY <3>1, <3>3 DEF Same, Forms, Mixed
  <2>2. CASE \/ OtherArrives \/ RestartFbc \/ GivesUp
             \/ \E d \in {"put", "get"}, f \in Files : StartFails(d, f)
    <3>1. UNCHANGED <<fd, disk, targets>> /\ blame \subseteq blame'
      BY <2>2 DEF OtherArrives, RestartFbc, GivesUp, StartFails
    <3> QED
      BY <3>1 DEF Same, Opened, Forms, Mixed
  <2> QED
    BY <1>5, <2>1, <2>2 DEF Environment
<1> QED
  BY <1>2, <1>3, <1>4, <1>5 DEF Next, User, Daemon

(* FilesKept, for all files, lengths, clients, transfers and events: what  *)
(* happens to the files of the device is what DeviceFiles allows.          *)
THEOREM FilesAreKept == Spec => FilesKept
<1>1. Init => Device!Init
  <2> SUFFICES ASSUME Init PROVE Device!Init
    OBVIOUS
  <2>1. fd \notin Files
    BY FilesAssumption DEF Init, FreshFd
  <2>2. \A f \in Files : Form(disk[f]) = "old"
    BY FormOf DEF Init
  <2> QED
    BY <2>1, <2>2 DEF Init, Device!Init
<1>2. Typed /\ Kept /\ Transfers /\ [Next]_vars => [Device!Next]_(Device!vars)
  BY DeviceStep
<1>3. Init => Kept
  BY InitKept
<1>4. Typed /\ Kept /\ [Next]_vars => Kept'
  BY NextKept
<1> QED
  BY <1>1, <1>2, <1>3, <1>4, Typing, TransfersInvariant, PTL
  DEF Spec, FilesKept, Device!Spec

=============================================================================
