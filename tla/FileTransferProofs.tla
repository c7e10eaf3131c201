------------------------- MODULE FileTransferProofs -------------------------
(* Proofs about FileTransfer, for every set of files, size of file, number *)
(* of transfers and clients, capacity of the connections and set of        *)
(* external events.                                                        *)
EXTENDS FileTransfer, TLAPS

USE DEF tc, net, ta, td, ghost

(* The queues of messages.                                                 *)
LEMMA Sending ==
  ASSUME NEW q \in Seq(Msg), NEW m \in Msg, NEW r, r = q \/ r = Append(q, m)
  PROVE  r \in Seq(Msg)
OBVIOUS

LEMMA Taking ==
  ASSUME NEW q \in Seq(Msg), q # <<>>
  PROVE  Tail(q) \in Seq(Msg) /\ Head(q) \in Msg
OBVIOUS

LEMMA Cutting ==
  ASSUME NEW q \in Seq(Msg), NEW n \in 0 .. Len(q)
  PROVE  SubSeq(q, 1, n) \in Seq(Msg)
OBVIOUS

LEMMA Messages ==
  /\ Plain("end") \in Msg /\ Plain("error") \in Msg
  /\ Plain("last") \in Msg /\ Plain("bye") \in Msg
  /\ \A f \in Files : /\ [type |-> "get", file |-> f] \in Msg
                      /\ [type |-> "put", file |-> f] \in Msg
                      /\ [type |-> "write", file |-> f] \in Msg
                      /\ [type |-> "data", file |-> f] \in Msg
BY DEF Plain, Msg

LEMMA Fields ==
  ASSUME NEW m \in Msg
  PROVE  /\ m.type \in {"get", "put", "write", "data"} => m.file \in Files
         /\ m.type \in {"end", "error", "last", "bye", "get", "put", "write",
                       "data"}
         /\ m.file \in Files \cup {NoFile}
BY DEF Plain, Msg

(* A task that is under way has a file, and so has a thread that reads.    *)
Working == worker # "idle" => file \in Files
Reading == \A j \in Jobs : thread[j].pc = "loop" => thread[j].file \in Files
(* A daemon that has been replaced starts anew.                            *)
Down == ~link => name = NoFile /\ toDevice = <<>>
Typed == TypeOK /\ Working /\ Reading /\ Down

LEMMA InitTyped ==
  ASSUME Init PROVE Typed
<1>1. <<>> \in Seq(Msg)
  OBVIOUS
<1>2. fd \in Descriptors
  BY DEF Init, FreshFd, Descriptors
<1>3. Idle \in Threads
  BY ChunksAssumption DEF Idle, Threads
<1>4. thread \in [Jobs -> Threads] /\ Reading
  BY <1>3 DEF Init, Reading, Idle
<1>5. disk \in [Files -> Content]
  BY ChunksAssumption DEF Init, Content, Old, Removed
<1>6. /\ client \in 0 .. MaxClients /\ job \in 0 .. MaxJobs
      /\ sent \in 0 .. Chunks + 1 /\ ftpThread \in 0 .. MaxJobs
  BY ChunksAssumption, BoundsAssumption DEF Init
<1> QED  BY <1>1, <1>2, <1>4, <1>5, <1>6
  DEF Init, Typed, TypeOK, Channels, Working, Workers, Down

(* The connection to the daemon, and TC's buffer.                          *)
LEMMA LinkQuiet ==
  ASSUME TypeOK, Down, UNCHANGED <<link, name, toDevice>>,
         waiting' = waiting \/ waiting' = 0
  PROVE  link' \in BOOLEAN /\ waiting' \in Nat /\ Down'
BY DEF TypeOK, Down

LEMMA NextLink ==
  ASSUME TypeOK, Down, [Next]_vars
  PROVE  link' \in BOOLEAN /\ waiting' \in Nat /\ Down'
<1>1. CASE User
  <2>1. UNCHANGED <<link, name, toDevice>> /\ (waiting' = waiting \/ waiting' = 0)
    BY <1>1 DEF User, Connect, Cancel, Break, Start, StartFails
  <2> QED  BY <2>1, LinkQuiet
<1>2. CASE Task
  <2>1. UNCHANGED <<link, name, toDevice, waiting>>
    BY <1>2 DEF Task, Shut, PutFails, PutChunk, PutCancel, PutEnd, GetArm,
                GetCancel, GetLast, GetChunk, GetStored, GetFails
  <2> QED  BY <2>1, LinkQuiet
<1>3. CASE Reader
  <2>1. UNCHANGED <<link, name, toDevice>> /\ Read
    BY <1>3 DEF Reader, ReadData, ReadError
  <2>2. PICK n \in waiting .. Len(toClient) : n >= 1 /\ waiting' = n - 1
    BY <2>1 DEF Read
  <2>3. waiting' \in Nat
    BY <2>2 DEF TypeOK
  <2> QED  BY <2>1, <2>3 DEF TypeOK, Down
<1>4. CASE ClientThread
  <2>1. /\ UNCHANGED <<link, name, waiting>>
        /\ ~link => toDevice' = toDevice
    BY <1>4 DEF ClientThread, Forward, ExitClient
  <2> QED  BY <2>1 DEF TypeOK, Down
<1>5. CASE ScreenThread
  <2>1. UNCHANGED <<link, name, toDevice, waiting>>
    BY <1>5 DEF ScreenThread, Relay, RelayClear
  <2> QED  BY <2>1, LinkQuiet
<1>6. CASE Daemon
  <2>1. UNCHANGED <<link, waiting>> /\ toDevice # <<>>
    BY <1>6 DEF Daemon, Arrived, ConvertFails, OnFileDownloadReq,
                OnFileUploadReq, OnFileWrite, OnFileEnd, OnFileErr
  <2> QED  BY <2>1 DEF TypeOK, Down
<1>7. ASSUME NEW j \in Jobs, Download(j)
      PROVE  link' \in BOOLEAN /\ waiting' \in Nat /\ Down'
  <2>1. UNCHANGED <<link, name, toDevice, waiting>>
    BY <1>7 DEF Download, ThreadStat, ThreadOpen, ThreadRead, ThreadStopped,
                ThreadExit
  <2> QED  BY <2>1, LinkQuiet
<1>8. CASE Environment
  <2>1. CASE OtherArrives
    <3>1. UNCHANGED <<link, name, toDevice>> /\ waiting' \in Nat
      BY <2>1 DEF OtherArrives, TypeOK
    <3> QED  BY <3>1 DEF TypeOK, Down
  <2>2. CASE LinkLost
    BY <2>2 DEF LinkLost, TypeOK, Down
  <2>3. CASE RestartFbc
    BY <2>3 DEF RestartFbc, TypeOK, Down
  <2>4. CASE GivesUp
    <3>1. UNCHANGED <<link, name, waiting>>
      BY <2>4 DEF GivesUp
    <3>2. ~link => toDevice' = toDevice
      <4> SUFFICES ASSUME ~link PROVE toDevice' = toDevice
        OBVIOUS
      <4>1. Len(toDevice) = 0
        BY DEF Down
      <4>2. ~Unsent(toDevice)
        BY <4>1, BoundsAssumption DEF Unsent
      <4> QED  BY <2>4, <4>2 DEF GivesUp
    <3> QED  BY <3>1, <3>2 DEF TypeOK, Down
  <2> QED  BY <1>8, <2>1, <2>2, <2>3, <2>4 DEF Environment
<1>9. CASE UNCHANGED vars
  <2>1. UNCHANGED <<link, name, toDevice, waiting>>
    BY <1>9 DEF vars
  <2> QED  BY <2>1, LinkQuiet
<1> QED  BY <1>1, <1>2, <1>3, <1>4, <1>5, <1>6, <1>7, <1>8, <1>9 DEF Next

LEMMA NextTyped ==
  ASSUME Typed, [Next]_vars
  PROVE  Typed'
<1> USE DEF Typed, Working, Reading, Workers
<1>0. link' \in BOOLEAN /\ waiting' \in Nat /\ Down'
  BY NextLink
<1>a. toAgent \in Seq(Msg)
  BY Zenon DEF TypeOK, Channels
<1>b. toDevice \in Seq(Msg)
  BY Zenon DEF TypeOK, Channels
<1>c. toRelay \in Seq(Msg)
  BY Zenon DEF TypeOK, Channels
<1>d. toClient \in Seq(Msg)
  BY Zenon DEF TypeOK, Channels

<1>1. CASE Connect
  <2>1. client' \in 0 .. MaxClients /\ sent' \in 0 .. Chunks + 1
    BY <1>1, BoundsAssumption, ChunksAssumption DEF Connect, TypeOK
  <2>2. /\ up' \in BOOLEAN
        /\ worker' \in Workers
        /\ buf' \in Files \cup {"clear", "last"}
        /\ stopJob' \in BOOLEAN
        /\ status' \in {"none", "busy", "done", "cancelled", "error"}
        /\ sess' \in BOOLEAN
    BY <1>1 DEF Connect, TypeOK
  <2>3. Working'
    BY <1>1 DEF Connect
  <2>4. Reading'
    BY <1>1 DEF Connect
  <2>5. UNCHANGED <<job, dir, file, mFtp, relay, name, fd, ftpThread,
                   thread, disk, targets, blame>>
    BY <1>1 DEF Connect
  <2>6. UNCHANGED <<toAgent, toDevice, toRelay, toClient>>
    BY <1>1 DEF Connect
  <2>7. Channels'
    BY <1>a, <1>b, <1>c, <1>d, <2>6 DEF Channels
  <2> QED BY <1>0, <2>1, <2>2, <2>3, <2>4, <2>5, <2>7 DEF TypeOK
<1>2. CASE Cancel
  <2>1. /\ stopJob' \in BOOLEAN
        /\ status' \in {"none", "busy", "done", "cancelled", "error"}
    BY <1>2 DEF Cancel, TypeOK
  <2>2. Reading'
    BY <1>2 DEF Cancel
  <2>3. Working'
    BY <1>2 DEF Cancel
  <2>4. UNCHANGED <<up, client, job, dir, file, worker, sent, buf, sess,
                   mFtp, relay, name, fd, ftpThread, thread, disk, targets,
                   blame>>
    BY <1>2 DEF Cancel
  <2>5. UNCHANGED <<toAgent, toDevice, toRelay, toClient>>
    BY <1>2 DEF Cancel
  <2>6. Channels'
    BY <1>a, <1>b, <1>c, <1>d, <2>5 DEF Channels
  <2> QED BY <1>0, <2>1, <2>2, <2>3, <2>4, <2>6 DEF TypeOK
<1>3. CASE Break
  <2>1. PICK n \in 0 .. Len(toAgent) :
               toAgent' = Append(SubSeq(toAgent, 1, n), Plain("bye"))
    BY <1>3 DEF Break
  <2>2. SubSeq(toAgent, 1, n) \in Seq(Msg)
    BY <1>a, Cutting
  <2>3. toAgent' \in Seq(Msg)
    BY <2>1, <2>2, Messages, Sending
  <2>4. toClient' \in Seq(Msg)
    BY <1>3 DEF Break
  <2>5. /\ up' \in BOOLEAN
        /\ worker' \in Workers
    BY <1>3 DEF Break, TypeOK
  <2>6. Working'
    BY <1>3 DEF Break
  <2>7. Reading'
    BY <1>3 DEF Break
  <2>8. UNCHANGED <<client, job, dir, file, sent, buf, stopJob, status,
                   sess, mFtp, relay, name, fd, ftpThread, thread, disk,
                   targets, blame>>
    BY <1>3 DEF Break
  <2>9. UNCHANGED <<toDevice, toRelay>>
    BY <1>3 DEF Break
  <2>10. Channels'
    BY <2>3, <1>b, <1>c, <2>4, <2>9 DEF Channels
  <2> QED BY <1>0, <2>5, <2>6, <2>7, <2>8, <2>10 DEF TypeOK
<1>4. CASE PutChunk
  <2>1. [type |-> "write", file |-> file] \in Msg
    BY <1>4, Messages DEF PutChunk
  <2>2. toAgent' = Append(toAgent, [type |-> "write", file |-> file])
    BY <1>4 DEF PutChunk
  <2>3. toAgent' \in Seq(Msg)
    BY <2>2, <1>a, <2>1, Sending
  <2>4. sent' \in 0 .. Chunks + 1
    BY <1>4, ChunksAssumption DEF PutChunk, TypeOK
  <2>5. Reading'
    BY <1>4 DEF PutChunk
  <2>6. Working'
    BY <1>4 DEF PutChunk
  <2>7. UNCHANGED <<up, client, job, dir, file, worker, buf, stopJob,
                   status, sess, mFtp, relay, name, fd, ftpThread, thread,
                   disk, targets, blame>>
    BY <1>4 DEF PutChunk
  <2>8. UNCHANGED <<toDevice, toRelay, toClient>>
    BY <1>4 DEF PutChunk
  <2>9. Channels'
    BY <2>3, <1>b, <1>c, <1>d, <2>8 DEF Channels
  <2> QED BY <1>0, <2>4, <2>5, <2>6, <2>7, <2>9 DEF TypeOK
<1>5. CASE PutCancel
  <2>1. toAgent' = toAgent \/ toAgent' = Append(toAgent, Plain("error"))
    BY <1>5 DEF PutCancel
  <2>2. toAgent' \in Seq(Msg)
    BY <2>1, <1>a, Messages, Sending
  <2>3. worker' \in Workers
    BY <1>5 DEF PutCancel, TypeOK
  <2>4. Working'
    BY <1>5 DEF PutCancel
  <2>5. Reading'
    BY <1>5 DEF PutCancel
  <2>6. UNCHANGED <<up, client, job, dir, file, sent, buf, stopJob, status,
                   sess, mFtp, relay, name, fd, ftpThread, thread, disk,
                   targets, blame>>
    BY <1>5 DEF PutCancel
  <2>7. UNCHANGED <<toDevice, toRelay, toClient>>
    BY <1>5 DEF PutCancel
  <2>8. Channels'
    BY <2>2, <1>b, <1>c, <1>d, <2>7 DEF Channels
  <2> QED BY <1>0, <2>3, <2>4, <2>5, <2>6, <2>8 DEF TypeOK
<1>6. CASE PutEnd
  <2>1. toAgent' = toAgent \/ toAgent' = Append(toAgent, Plain("end"))
    BY <1>6 DEF PutEnd, Finish
  <2>2. toAgent' \in Seq(Msg)
    BY <2>1, <1>a, Messages, Sending
  <2>3. blame' = blame \/ blame' = blame \cup {"lostEnd"}
    BY <1>6 DEF PutEnd, Finish
  <2>4. blame' \subseteq AllBlame
    BY <2>3 DEF TypeOK, AllBlame
  <2>5. /\ worker' \in Workers
        /\ stopJob' \in BOOLEAN
        /\ status' \in {"none", "busy", "done", "cancelled", "error"}
    BY <1>6 DEF PutEnd, Finish, TypeOK
  <2>6. Working'
    BY <1>6 DEF PutEnd, Finish
  <2>7. Reading'
    BY <1>6 DEF PutEnd, Finish
  <2>8. UNCHANGED <<up, client, job, dir, file, sent, buf, sess, mFtp,
                   relay, name, fd, ftpThread, thread, disk, targets>>
    BY <1>6 DEF PutEnd, Finish
  <2>9. UNCHANGED <<toDevice, toRelay, toClient>>
    BY <1>6 DEF PutEnd, Finish
  <2>10. Channels'
    BY <2>2, <1>b, <1>c, <1>d, <2>9 DEF Channels
  <2> QED BY <1>0, <2>3, <2>4, <2>5, <2>6, <2>7, <2>8, <2>10 DEF TypeOK
<1>7. CASE GetArm
  <2>1. blame' = blame \/ blame' = blame \cup {"arming"}
    BY <1>7 DEF GetArm
  <2>2. blame' \subseteq AllBlame
    BY <2>1 DEF TypeOK, AllBlame
  <2>3. /\ worker' \in Workers
        /\ buf' \in Files \cup {"clear", "last"}
    BY <1>7 DEF GetArm, TypeOK
  <2>4. Working'
    BY <1>7 DEF GetArm
  <2>5. Reading'
    BY <1>7 DEF GetArm
  <2>6. UNCHANGED <<up, client, job, dir, file, sent, stopJob, status, sess,
                   mFtp, relay, name, fd, ftpThread, thread, disk, targets>>
    BY <1>7 DEF GetArm
  <2>7. UNCHANGED <<toAgent, toDevice, toRelay, toClient>>
    BY <1>7 DEF GetArm
  <2>8. Channels'
    BY <1>a, <1>b, <1>c, <1>d, <2>7 DEF Channels
  <2> QED BY <1>0, <2>1, <2>2, <2>3, <2>4, <2>5, <2>6, <2>8 DEF TypeOK
<1>8. CASE GetCancel
  <2>1. toAgent' = toAgent \/ toAgent' = Append(toAgent, Plain("error"))
    BY <1>8 DEF GetCancel, Finish
  <2>2. toAgent' \in Seq(Msg)
    BY <2>1, <1>a, Messages, Sending
  <2>3. /\ worker' \in Workers
        /\ stopJob' \in BOOLEAN
        /\ status' \in {"none", "busy", "done", "cancelled", "error"}
    BY <1>8 DEF GetCancel, Finish, TypeOK
  <2>4. Working'
    BY <1>8 DEF GetCancel, Finish
  <2>5. Reading'
    BY <1>8 DEF GetCancel, Finish
  <2>6. UNCHANGED <<up, client, job, dir, file, sent, buf, sess, mFtp,
                   relay, name, fd, ftpThread, thread, disk, targets,
                   blame>>
    BY <1>8 DEF GetCancel, Finish
  <2>7. UNCHANGED <<toDevice, toRelay, toClient>>
    BY <1>8 DEF GetCancel, Finish
  <2>8. Channels'
    BY <2>2, <1>b, <1>c, <1>d, <2>7 DEF Channels
  <2> QED BY <1>0, <2>3, <2>4, <2>5, <2>6, <2>8 DEF TypeOK
<1>9. CASE GetLast
  <2>1. /\ worker' \in Workers
        /\ stopJob' \in BOOLEAN
        /\ status' \in {"none", "busy", "done", "cancelled", "error"}
    BY <1>9 DEF GetLast, Finish, TypeOK
  <2>2. Working'
    BY <1>9 DEF GetLast, Finish
  <2>3. Reading'
    BY <1>9 DEF GetLast, Finish
  <2>4. UNCHANGED <<up, client, job, dir, file, sent, buf, sess, mFtp,
                   relay, name, fd, ftpThread, thread, disk, targets,
                   blame>>
    BY <1>9 DEF GetLast, Finish
  <2>5. UNCHANGED <<toAgent, toDevice, toRelay, toClient>>
    BY <1>9 DEF GetLast, Finish
  <2>6. Channels'
    BY <1>a, <1>b, <1>c, <1>d, <2>5 DEF Channels
  <2> QED BY <1>0, <2>1, <2>2, <2>3, <2>4, <2>6 DEF TypeOK
<1>10. CASE GetChunk
  <2>1. sent' \in 0 .. Chunks + 1
    BY <1>10, ChunksAssumption DEF GetChunk, TypeOK
  <2>2. worker' = "store" /\ file \in Files
    BY <1>10 DEF GetChunk
  <2>3. worker' \in Workers
    BY <1>10 DEF GetChunk, TypeOK
  <2>4. Working'
    BY <1>10 DEF GetChunk
  <2>5. Reading'
    BY <1>10 DEF GetChunk
  <2>6. UNCHANGED <<up, client, job, dir, file, buf, stopJob, status, sess,
                   mFtp, relay, name, fd, ftpThread, thread, disk, targets,
                   blame>>
    BY <1>10 DEF GetChunk
  <2>7. UNCHANGED <<toAgent, toDevice, toRelay, toClient>>
    BY <1>10 DEF GetChunk
  <2>8. Channels'
    BY <1>a, <1>b, <1>c, <1>d, <2>7 DEF Channels
  <2> QED BY <1>0, <2>1, <2>2, <2>3, <2>4, <2>5, <2>6, <2>8 DEF TypeOK
<1>11. CASE GetStored
  <2>1. blame' = blame \/ blame' = blame \cup {"wiped"}
    BY <1>11 DEF GetStored
  <2>2. blame' \subseteq AllBlame
    BY <2>1 DEF TypeOK, AllBlame
  <2>3. /\ worker' \in Workers
        /\ buf' \in Files \cup {"clear", "last"}
    BY <1>11 DEF GetStored, TypeOK
  <2>4. Working'
    BY <1>11 DEF GetStored
  <2>5. Reading'
    BY <1>11 DEF GetStored
  <2>6. UNCHANGED <<up, client, job, dir, file, sent, stopJob, status, sess,
                   mFtp, relay, name, fd, ftpThread, thread, disk, targets>>
    BY <1>11 DEF GetStored
  <2>7. UNCHANGED <<toAgent, toDevice, toRelay, toClient>>
    BY <1>11 DEF GetStored
  <2>8. Channels'
    BY <1>a, <1>b, <1>c, <1>d, <2>7 DEF Channels
  <2> QED BY <1>0, <2>1, <2>2, <2>3, <2>4, <2>5, <2>6, <2>8 DEF TypeOK
<1>12. CASE GetFails
  <2>1. toAgent' = toAgent \/ toAgent' = Append(toAgent, Plain("error"))
    BY <1>12 DEF GetFails, Finish
  <2>2. toAgent' \in Seq(Msg)
    BY <2>1, <1>a, Messages, Sending
  <2>3. /\ worker' \in Workers
        /\ stopJob' \in BOOLEAN
        /\ status' \in {"none", "busy", "done", "cancelled", "error"}
        /\ blame' \subseteq AllBlame
    BY <1>12 DEF GetFails, Finish, TypeOK, AllBlame
  <2>4. Working'
    BY <1>12 DEF GetFails, Finish
  <2>5. Reading'
    BY <1>12 DEF GetFails, Finish
  <2>6. UNCHANGED <<up, client, job, dir, file, sent, buf, sess, mFtp,
                   relay, name, fd, ftpThread, thread, disk, targets>>
    BY <1>12 DEF GetFails, Finish
  <2>7. UNCHANGED <<toDevice, toRelay, toClient>>
    BY <1>12 DEF GetFails, Finish
  <2>8. Channels'
    BY <2>2, <1>b, <1>c, <1>d, <2>7 DEF Channels
  <2> QED BY <1>0, <2>3, <2>4, <2>5, <2>6, <2>8 DEF TypeOK
<1>13. CASE ReadData
  <2>1. toClient # <<>> /\ toClient' = Tail(toClient)
    BY <1>13, <1>d DEF ReadData, Readable, Read, TypeOK
  <2>2. toClient' \in Seq(Msg) /\ Head(toClient) \in Msg
    BY <2>1, <1>d, Taking
  <2>3. Held(Head(toClient)) \in Files \cup {"last"}
    BY <2>2, Fields DEF Held
  <2>4. buf' \in Files \cup {"clear", "last"}
    BY <1>13, <2>3 DEF ReadData
  <2>5. blame' = blame \/ blame' = blame \cup {"slow"}
    BY <1>13 DEF ReadData
  <2>6. blame' \subseteq AllBlame
    BY <2>5 DEF TypeOK, AllBlame
  <2>7. Reading'
    BY <1>13 DEF ReadData
  <2>8. Working'
    BY <1>13 DEF ReadData
  <2>9. UNCHANGED <<up, client, job, dir, file, worker, sent, stopJob,
                   status, sess, mFtp, relay, name, fd, ftpThread, thread,
                   disk, targets>>
    BY <1>13 DEF ReadData
  <2>10. UNCHANGED <<toAgent, toDevice, toRelay>>
    BY <1>13 DEF ReadData
  <2>11. Channels'
    BY <1>a, <1>b, <1>c, <2>2, <2>10 DEF Channels
  <2> QED BY <1>0, <2>3, <2>4, <2>5, <2>6, <2>7, <2>8, <2>9, <2>11 DEF TypeOK
<1>14. CASE ReadError
  <2>1. toClient # <<>> /\ toClient' = Tail(toClient)
    BY <1>14, <1>d DEF ReadError, Readable, Read, TypeOK
  <2>2. toClient' \in Seq(Msg) /\ Head(toClient) \in Msg
    BY <2>1, <1>d, Taking
  <2>3. /\ stopJob' \in BOOLEAN
        /\ status' \in {"none", "busy", "done", "cancelled", "error"}
    BY <1>14 DEF ReadError, TypeOK
  <2>4. Reading'
    BY <1>14 DEF ReadError
  <2>5. Working'
    BY <1>14 DEF ReadError
  <2>6. UNCHANGED <<up, client, job, dir, file, worker, sent, buf, sess,
                   mFtp, relay, name, fd, ftpThread, thread, disk, targets,
                   blame>>
    BY <1>14 DEF ReadError
  <2>7. UNCHANGED <<toAgent, toDevice, toRelay>>
    BY <1>14 DEF ReadError
  <2>8. Channels'
    BY <1>a, <1>b, <1>c, <2>2, <2>7 DEF Channels
  <2> QED BY <1>0, <2>3, <2>4, <2>5, <2>6, <2>8 DEF TypeOK
<1>15. CASE Forward
  <2>1. toAgent # <<>> /\ toAgent' = Tail(toAgent)
    BY <1>15 DEF Forward
  <2>2. toAgent' \in Seq(Msg) /\ Head(toAgent) \in Msg
    BY <2>1, <1>a, Taking
  <2>3. toDevice' = toDevice \/ toDevice' = Append(toDevice, Head(toAgent))
    BY <1>15 DEF Forward
  <2>4. toDevice' \in Seq(Msg)
    BY <2>3, <1>b, <2>2, Sending
  <2>5. mFtp' \in {0, 1}
    BY <1>15 DEF Forward, TypeOK
  <2>6. Reading'
    BY <1>15 DEF Forward
  <2>7. Working'
    BY <1>15 DEF Forward
  <2>8. /\ UNCHANGED <<up, client, job, dir, file, worker, sent, buf, stopJob,
                      status, sess, relay, name, fd, ftpThread, thread, disk,
                      targets>>
        /\ blame' \subseteq AllBlame
    BY <1>15 DEF Forward, TypeOK, AllBlame
  <2>9. UNCHANGED <<toRelay, toClient>>
    BY <1>15 DEF Forward
  <2>10. Channels'
    BY <2>2, <2>4, <1>c, <1>d, <2>9 DEF Channels
  <2> QED BY <1>0, <2>5, <2>6, <2>7, <2>8, <2>10 DEF TypeOK
<1>16. CASE ExitClient
  <2>1. toAgent # <<>> /\ toAgent' = Tail(toAgent)
    BY <1>16 DEF ExitClient
  <2>2. toAgent' \in Seq(Msg) /\ Head(toAgent) \in Msg
    BY <2>1, <1>a, Taking
  <2>3. toDevice' = toDevice \/ toDevice' = Append(toDevice, Plain("error"))
    BY <1>16 DEF ExitClient
  <2>4. toDevice' \in Seq(Msg)
    BY <2>3, <1>b, Messages, Sending
  <2>5. /\ sess' \in BOOLEAN
        /\ mFtp' \in {0, 1}
    BY <1>16 DEF ExitClient, TypeOK
  <2>6. Reading'
    BY <1>16 DEF ExitClient
  <2>7. Working'
    BY <1>16 DEF ExitClient
  <2>8. UNCHANGED <<up, client, job, dir, file, worker, sent, buf, stopJob,
                   status, relay, name, fd, ftpThread, thread, disk,
                   targets, blame>>
    BY <1>16 DEF ExitClient
  <2>9. UNCHANGED <<toRelay, toClient>>
    BY <1>16 DEF ExitClient
  <2>10. Channels'
    BY <2>2, <2>4, <1>c, <1>d, <2>9 DEF Channels
  <2> QED BY <1>0, <2>5, <2>6, <2>7, <2>8, <2>10 DEF TypeOK
<1>17. CASE Relay
  <2>1. toRelay # <<>> /\ toRelay' = Tail(toRelay)
    BY <1>17 DEF Relay
  <2>2. toRelay' \in Seq(Msg) /\ Head(toRelay) \in Msg
    BY <2>1, <1>c, Taking
  <2>3. toClient' = toClient \/ toClient' = Append(toClient, Head(toRelay))
    BY <1>17 DEF Relay
  <2>4. toClient' \in Seq(Msg)
    BY <2>3, <1>d, <2>2, Sending
  <2>5. relay' \in {"read", "clear"}
    BY <1>17 DEF Relay
  <2>6. Reading'
    BY <1>17 DEF Relay
  <2>7. Working'
    BY <1>17 DEF Relay
  <2>8. UNCHANGED <<up, client, job, dir, file, worker, sent, buf, stopJob,
                   status, sess, mFtp, name, fd, ftpThread, thread, disk,
                   targets, blame>>
    BY <1>17 DEF Relay
  <2>9. UNCHANGED <<toAgent, toDevice>>
    BY <1>17 DEF Relay
  <2>10. Channels'
    BY <1>a, <1>b, <2>2, <2>4, <2>9 DEF Channels
  <2> QED BY <1>0, <2>5, <2>6, <2>7, <2>8, <2>10 DEF TypeOK
<1>18. CASE RelayClear
  <2>1. /\ mFtp' \in {0, 1}
        /\ relay' \in {"read", "clear"}
    BY <1>18 DEF RelayClear, TypeOK
  <2>2. Reading'
    BY <1>18 DEF RelayClear
  <2>3. Working'
    BY <1>18 DEF RelayClear
  <2>4. UNCHANGED <<up, client, job, dir, file, worker, sent, buf, stopJob,
                   status, sess, name, fd, ftpThread, thread, disk, targets,
                   blame>>
    BY <1>18 DEF RelayClear
  <2>5. UNCHANGED <<toAgent, toDevice, toRelay, toClient>>
    BY <1>18 DEF RelayClear
  <2>6. Channels'
    BY <1>a, <1>b, <1>c, <1>d, <2>5 DEF Channels
  <2> QED BY <1>0, <2>1, <2>2, <2>3, <2>4, <2>6 DEF TypeOK
<1>19. CASE ConvertFails
  <2>1. toDevice # <<>> /\ toDevice' = Tail(toDevice)
    BY <1>19 DEF ConvertFails, Arrived, SendFileErr
  <2>2. toDevice' \in Seq(Msg) /\ Head(toDevice) \in Msg
    BY <2>1, <1>b, Taking
  <2>3. toRelay' = toRelay \/ toRelay' = Append(toRelay, Plain("error"))
    BY <1>19 DEF ConvertFails, Arrived, SendFileErr
  <2>4. toRelay' \in Seq(Msg)
    BY <2>3, <1>c, Messages, Sending
  <2>5. blame' = blame \/ blame' = blame \cup {"oldName"}
    BY <1>19 DEF ConvertFails, Arrived, SendFileErr
  <2>6. blame' \subseteq AllBlame
    BY <2>5 DEF TypeOK, AllBlame
  <2>7. Reading'
    BY <1>19 DEF ConvertFails, Arrived, SendFileErr
  <2>8. Working'
    BY <1>19 DEF ConvertFails, Arrived, SendFileErr
  <2>9. UNCHANGED <<up, client, job, dir, file, worker, sent, buf, stopJob,
                   status, sess, mFtp, relay, name, fd, ftpThread, thread,
                   disk, targets>>
    BY <1>19 DEF ConvertFails, Arrived, SendFileErr
  <2>10. UNCHANGED <<toAgent, toClient>>
    BY <1>19 DEF ConvertFails, Arrived, SendFileErr
  <2>11. Channels'
    BY <1>a, <2>2, <2>4, <1>d, <2>10 DEF Channels
  <2> QED BY <1>0, <2>5, <2>6, <2>7, <2>8, <2>9, <2>11 DEF TypeOK
<1>20. CASE OnFileDownloadReq
  <2>1. toDevice # <<>> /\ toDevice' = Tail(toDevice)
    BY <1>20 DEF OnFileDownloadReq, Arrived
  <2>2. toDevice' \in Seq(Msg) /\ Head(toDevice) \in Msg
    BY <2>1, <1>b, Taking
  <2>3. name' \in Files
    BY <1>20, <2>2, Fields DEF OnFileDownloadReq, Arrived
  <2>4. PICK j \in Jobs :
            ftpThread' = j /\ thread' = [thread EXCEPT ![j].pc = "stat"]
    BY <1>20 DEF OnFileDownloadReq, Arrived
  <2>5. thread' \in [Jobs -> Threads] /\ Reading'
    BY <2>4 DEF Threads, TypeOK
  <2>6. ftpThread' \in 0 .. MaxJobs
    BY <2>4, BoundsAssumption DEF Jobs
  <2>7. Working'
    BY <1>20 DEF OnFileDownloadReq, Arrived
  <2>8. UNCHANGED <<up, client, job, dir, file, worker, sent, buf, stopJob,
                   status, sess, mFtp, relay, fd, disk, targets, blame>>
    BY <1>20 DEF OnFileDownloadReq, Arrived
  <2>9. UNCHANGED <<toAgent, toRelay, toClient>>
    BY <1>20 DEF OnFileDownloadReq, Arrived
  <2>10. Channels'
    BY <1>a, <2>2, <1>c, <1>d, <2>9 DEF Channels
  <2> QED BY <1>0, <2>3, <2>4, <2>5, <2>6, <2>7, <2>8, <2>10 DEF TypeOK
<1>21. CASE OnFileUploadReq
  <2>1. toDevice # <<>> /\ toDevice' = Tail(toDevice)
    BY <1>21 DEF OnFileUploadReq, Arrived, SendFileErr
  <2>2. toDevice' \in Seq(Msg) /\ Head(toDevice) \in Msg
    BY <2>1, <1>b, Taking
  <2>3. toRelay' = toRelay \/ toRelay' = Append(toRelay, Plain("error"))
    BY <1>21 DEF OnFileUploadReq, Arrived, SendFileErr
  <2>4. toRelay' \in Seq(Msg)
    BY <2>3, <1>c, Messages, Sending
  <2>5. name' \in Files
    BY <1>21, <2>2, Fields DEF OnFileUploadReq, Arrived, SendFileErr
  <2>6. disk' = disk \/ disk' = [disk EXCEPT ![name'] = 0]
    BY <1>21 DEF OnFileUploadReq, Arrived, SendFileErr
  <2>7. disk' \in [Files -> Content]
    BY <2>5, <2>6, ChunksAssumption DEF Content, Old, Removed, TypeOK
  <2>8. fd' \in Descriptors
    BY <1>21, <2>5 DEF OnFileUploadReq, Arrived, SendFileErr, Descriptors
  <2>9. Reading'
    BY <1>21 DEF OnFileUploadReq, Arrived, SendFileErr
  <2>10. Working'
    BY <1>21 DEF OnFileUploadReq, Arrived, SendFileErr
  <2>11. UNCHANGED <<up, client, job, dir, file, worker, sent, buf, stopJob,
                   status, sess, mFtp, relay, ftpThread, thread, targets,
                   blame>>
    BY <1>21 DEF OnFileUploadReq, Arrived, SendFileErr
  <2>12. UNCHANGED <<toAgent, toClient>>
    BY <1>21 DEF OnFileUploadReq, Arrived, SendFileErr
  <2>13. Channels'
    BY <1>a, <2>2, <2>4, <1>d, <2>12 DEF Channels
  <2> QED BY <1>0, <2>5, <2>6, <2>7, <2>8, <2>9, <2>10, <2>11, <2>13 DEF TypeOK
<1>22. CASE OnFileWrite
  <2>1. toDevice # <<>> /\ toDevice' = Tail(toDevice)
    BY <1>22 DEF OnFileWrite, Arrived, SendFileErr, CloseUndone
  <2>2. toDevice' \in Seq(Msg) /\ Head(toDevice) \in Msg
    BY <2>1, <1>b, Taking
  <2>3. toRelay' = toRelay \/ toRelay' = Append(toRelay, Plain("error"))
    BY <1>22 DEF OnFileWrite, Arrived, SendFileErr, CloseUndone
  <2>4. toRelay' \in Seq(Msg)
    BY <2>3, <1>c, Messages, Sending
  <2>5. \/ /\ fd \in Files
           /\ disk' = [disk EXCEPT ![fd] =
                          IF @ \in 0 .. Chunks - 1 THEN @ + 1 ELSE @]
        \/ disk' = [f \in Files |-> IF f = name THEN Removed ELSE disk[f]]
    BY <1>22 DEF OnFileWrite, Arrived, SendFileErr, CloseUndone
  <2>6. disk' \in [Files -> Content]
    BY <2>5, ChunksAssumption DEF Content, Old, Removed, TypeOK
  <2>7. name' \in Files \cup {NoFile} /\ fd' \in Descriptors
    BY <1>22 DEF OnFileWrite, Arrived, SendFileErr, CloseUndone, Descriptors,
       TypeOK
  <2>8. Reading'
    BY <1>22 DEF OnFileWrite, Arrived, SendFileErr, CloseUndone
  <2>9. Working'
    BY <1>22 DEF OnFileWrite, Arrived, SendFileErr, CloseUndone
  <2>10. UNCHANGED <<up, client, job, dir, file, worker, sent, buf, stopJob,
                   status, sess, mFtp, relay, ftpThread, thread, targets,
                   blame>>
    BY <1>22 DEF OnFileWrite, Arrived, SendFileErr, CloseUndone
  <2>11. UNCHANGED <<toAgent, toClient>>
    BY <1>22 DEF OnFileWrite, Arrived, SendFileErr, CloseUndone
  <2>12. Channels'
    BY <1>a, <2>2, <2>4, <1>d, <2>11 DEF Channels
  <2> QED BY <1>0, <2>5, <2>6, <2>7, <2>8, <2>9, <2>10, <2>12 DEF TypeOK
<1>23. CASE OnFileEnd
  <2>1. toDevice # <<>> /\ toDevice' = Tail(toDevice)
    BY <1>23 DEF OnFileEnd, Arrived
  <2>2. toDevice' \in Seq(Msg) /\ Head(toDevice) \in Msg
    BY <2>1, <1>b, Taking
  <2>3. fd' \in Descriptors
    BY <1>23 DEF OnFileEnd, Arrived, Descriptors
  <2>4. Reading'
    BY <1>23 DEF OnFileEnd, Arrived
  <2>5. Working'
    BY <1>23 DEF OnFileEnd, Arrived
  <2>6. UNCHANGED <<up, client, job, dir, file, worker, sent, buf, stopJob,
                   status, sess, mFtp, relay, name, ftpThread, thread, disk,
                   targets, blame>>
    BY <1>23 DEF OnFileEnd, Arrived
  <2>7. UNCHANGED <<toAgent, toRelay, toClient>>
    BY <1>23 DEF OnFileEnd, Arrived
  <2>8. Channels'
    BY <1>a, <2>2, <1>c, <1>d, <2>7 DEF Channels
  <2> QED BY <1>0, <2>3, <2>4, <2>5, <2>6, <2>8 DEF TypeOK
<1>24. CASE OnFileErr
  <2>1. toDevice # <<>> /\ toDevice' = Tail(toDevice)
    BY <1>24 DEF OnFileErr, Arrived, CloseUndone
  <2>2. toDevice' \in Seq(Msg) /\ Head(toDevice) \in Msg
    BY <2>1, <1>b, Taking
  <2>3. \/ disk' = disk
        \/ disk' = [f \in Files |-> IF f = name THEN Removed ELSE disk[f]]
    BY <1>24 DEF OnFileErr, Arrived, CloseUndone
  <2>4. disk' \in [Files -> Content]
    BY <2>3, ChunksAssumption DEF Content, Old, Removed, TypeOK
  <2>5. name' \in Files \cup {NoFile} /\ fd' \in Descriptors
    BY <1>24 DEF OnFileErr, Arrived, CloseUndone, Descriptors, TypeOK
  <2>6. ftpThread' \in 0 .. MaxJobs
    BY <1>24, BoundsAssumption DEF OnFileErr, Arrived, CloseUndone
  <2>7. Reading'
    BY <1>24 DEF OnFileErr, Arrived, CloseUndone
  <2>8. Working'
    BY <1>24 DEF OnFileErr, Arrived, CloseUndone
  <2>9. UNCHANGED <<up, client, job, dir, file, worker, sent, buf, stopJob,
                   status, sess, mFtp, relay, thread, targets, blame>>
    BY <1>24 DEF OnFileErr, Arrived, CloseUndone
  <2>10. UNCHANGED <<toAgent, toRelay, toClient>>
    BY <1>24 DEF OnFileErr, Arrived, CloseUndone
  <2>11. Channels'
    BY <1>a, <2>2, <1>c, <1>d, <2>10 DEF Channels
  <2> QED BY <1>0, <2>3, <2>4, <2>5, <2>6, <2>7, <2>8, <2>9, <2>11 DEF TypeOK
<1>25. ASSUME NEW d \in {"put", "get"}, NEW f \in Files, Start(d, f)
       PROVE  Typed'
  <2>1. [type |-> d, file |-> f] \in Msg
    BY Messages
  <2>2. toAgent' = Append(toAgent, [type |-> d, file |-> f])
    BY <1>25 DEF Start
  <2>3. toAgent' \in Seq(Msg)
    BY <2>2, <1>a, <2>1, Sending
  <2>4. blame' = blame \cup Remains /\ blame \subseteq AllBlame
    BY <1>25 DEF Start, TypeOK, AllBlame
  <2>5. blame' \subseteq AllBlame
    BY <2>4 DEF Remains, AllBlame
  <2>6. job' \in 0 .. MaxJobs /\ sent' \in 0 .. Chunks + 1
    BY <1>25, BoundsAssumption, ChunksAssumption DEF Start, TypeOK
  <2>7. /\ targets' \subseteq Files /\ worker' \in Workers
        /\ dir' \in {"none", "put", "get"} /\ file' \in Files
    BY <1>25 DEF Start, TypeOK
  <2>8. /\ buf' \in Files \cup {"clear", "last"}
        /\ stopJob' \in BOOLEAN
        /\ status' \in {"none", "busy", "done", "cancelled", "error"}
    BY <1>25 DEF Start, TypeOK
  <2>9. Working'
    BY <1>25 DEF Start
  <2>10. Reading'
    BY <1>25 DEF Start
  <2>11. UNCHANGED <<up, client, sess, mFtp, relay, name, fd, ftpThread,
                   thread, disk>>
    BY <1>25 DEF Start
  <2>12. UNCHANGED <<toDevice, toRelay, toClient>>
    BY <1>25 DEF Start
  <2>13. Channels'
    BY <2>3, <1>b, <1>c, <1>d, <2>12 DEF Channels
  <2> QED BY <1>0, <2>5, <2>6, <2>7, <2>8, <2>9, <2>10, <2>11, <2>13 DEF TypeOK
<1>26. ASSUME NEW j \in Jobs, ThreadStat(j)
       PROVE  Typed'
  <2>1. toRelay' = toRelay \/ toRelay' = Append(toRelay, Plain("error"))
    BY <1>26 DEF ThreadStat, SendFileErr
  <2>2. toRelay' \in Seq(Msg)
    BY <2>1, <1>c, Messages, Sending
  <2>3. \/ thread' = [thread EXCEPT ![j].pc = "open"]
        \/ thread' = [thread EXCEPT ![j] = Idle]
    BY <1>26 DEF ThreadStat, SendFileErr
  <2>4. thread' \in [Jobs -> Threads] /\ Reading'
    BY <2>3, ChunksAssumption DEF Threads, Idle, TypeOK
  <2>5. Working'
    BY <1>26 DEF ThreadStat, SendFileErr
  <2>6. UNCHANGED <<up, client, job, dir, file, worker, sent, buf, stopJob,
                   status, sess, mFtp, relay, name, fd, ftpThread, disk,
                   targets, blame>>
    BY <1>26 DEF ThreadStat, SendFileErr
  <2>7. UNCHANGED <<toAgent, toDevice, toClient>>
    BY <1>26 DEF ThreadStat, SendFileErr
  <2>8. Channels'
    BY <1>a, <1>b, <2>2, <1>d, <2>7 DEF Channels
  <2> QED BY <1>0, <2>3, <2>4, <2>5, <2>6, <2>8 DEF TypeOK
<1>27. ASSUME NEW j \in Jobs, ThreadOpen(j)
       PROVE  Typed'
  <2>1. toRelay' = toRelay \/ toRelay' = Append(toRelay, Plain("error"))
    BY <1>27 DEF ThreadOpen, SendFileErr
  <2>2. toRelay' \in Seq(Msg)
    BY <2>1, <1>c, Messages, Sending
  <2>3. \/ /\ name \in Files /\ disk[name] # Removed
           /\ thread' = [thread EXCEPT ![j] =
                  [pc |-> "loop", left |-> Length(name), file |-> name]]
        \/ thread' = [thread EXCEPT ![j] = Idle]
    BY <1>27 DEF ThreadOpen, SendFileErr, Exists
  <2>4. name \in Files /\ disk[name] # Removed => Length(name) \in 0 .. Chunks
    BY ChunksAssumption DEF Length, Content, Old, Removed, TypeOK
  <2>5. thread' \in [Jobs -> Threads] /\ Reading'
    BY <2>3, <2>4, ChunksAssumption DEF Threads, Idle, TypeOK
  <2>6. Working'
    BY <1>27 DEF ThreadOpen, SendFileErr
  <2>7. UNCHANGED <<up, client, job, dir, file, worker, sent, buf, stopJob,
                   status, sess, mFtp, relay, name, fd, ftpThread, disk,
                   targets, blame>>
    BY <1>27 DEF ThreadOpen, SendFileErr
  <2>8. UNCHANGED <<toAgent, toDevice, toClient>>
    BY <1>27 DEF ThreadOpen, SendFileErr
  <2>9. Channels'
    BY <1>a, <1>b, <2>2, <1>d, <2>8 DEF Channels
  <2> QED BY <1>0, <2>3, <2>4, <2>5, <2>6, <2>7, <2>9 DEF TypeOK
<1>28. ASSUME NEW j \in Jobs, ThreadRead(j)
       PROVE  Typed'
  <2>1. [type |-> "data", file |-> thread[j].file] \in Msg
    BY <1>28, Messages DEF ThreadRead, DataOf, SendFileErr
  <2>2. \/ toRelay' =
             Append(toRelay, [type |-> "data", file |-> thread[j].file])
        \/ toRelay' = Append(toRelay, Plain("last"))
        \/ toRelay' = Append(toRelay, Plain("error"))
    BY <1>28 DEF ThreadRead, DataOf, SendFileErr
  <2>3. toRelay' \in Seq(Msg)
    BY <2>1, <2>2, <1>c, Messages, Sending
  <2>4. \/ thread[j].left > 0 /\ thread' = [thread EXCEPT ![j].left = @ - 1]
        \/ thread' = [thread EXCEPT ![j].pc = "exit"]
    BY <1>28 DEF ThreadRead, DataOf, SendFileErr
  <2>5. thread' \in [Jobs -> Threads] /\ Reading'
    BY <2>4, ChunksAssumption DEF Threads, TypeOK
  <2>6. Working'
    BY <1>28 DEF ThreadRead, DataOf, SendFileErr
  <2>7. UNCHANGED <<up, client, job, dir, file, worker, sent, buf, stopJob,
                   status, sess, mFtp, relay, name, fd, ftpThread, disk,
                   targets, blame>>
    BY <1>28 DEF ThreadRead, DataOf, SendFileErr
  <2>8. UNCHANGED <<toAgent, toDevice, toClient>>
    BY <1>28 DEF ThreadRead, DataOf, SendFileErr
  <2>9. Channels'
    BY <1>a, <1>b, <2>3, <1>d, <2>8 DEF Channels
  <2> QED BY <1>0, <2>5, <2>6, <2>7, <2>9 DEF TypeOK
<1>29. ASSUME NEW j \in Jobs, ThreadStopped(j)
       PROVE  Typed'
  <2>1. thread' \in [Jobs -> Threads] /\ Reading'
    BY <1>29 DEF ThreadStopped, Threads, TypeOK
  <2>2. Working'
    BY <1>29 DEF ThreadStopped
  <2>3. UNCHANGED <<up, client, job, dir, file, worker, sent, buf, stopJob,
                   status, sess, mFtp, relay, name, fd, ftpThread, disk,
                   targets, blame>>
    BY <1>29 DEF ThreadStopped
  <2>4. UNCHANGED <<toAgent, toDevice, toRelay, toClient>>
    BY <1>29 DEF ThreadStopped
  <2>5. Channels'
    BY <1>a, <1>b, <1>c, <1>d, <2>4 DEF Channels
  <2> QED BY <1>0, <2>1, <2>2, <2>3, <2>5 DEF TypeOK
<1>30. ASSUME NEW j \in Jobs, ThreadExit(j)
       PROVE  Typed'
  <2>1. thread' \in [Jobs -> Threads] /\ Reading'
    BY <1>30, ChunksAssumption DEF ThreadExit, Threads, Idle, TypeOK
  <2>2. ftpThread' \in 0 .. MaxJobs
    BY <1>30, BoundsAssumption DEF ThreadExit
  <2>3. Working'
    BY <1>30 DEF ThreadExit
  <2>4. UNCHANGED <<up, client, job, dir, file, worker, sent, buf, stopJob,
                   status, sess, mFtp, relay, name, fd, disk, targets,
                   blame>>
    BY <1>30 DEF ThreadExit
  <2>5. UNCHANGED <<toAgent, toDevice, toRelay, toClient>>
    BY <1>30 DEF ThreadExit
  <2>6. Channels'
    BY <1>a, <1>b, <1>c, <1>d, <2>5 DEF Channels
  <2> QED BY <1>0, <2>1, <2>2, <2>3, <2>4, <2>6 DEF TypeOK
<1>31. CASE UNCHANGED vars
  BY <1>0, <1>31 DEF vars, TypeOK, Channels
<1>32. CASE Shut
  <2>1. /\ worker' \in Workers
        /\ stopJob' \in BOOLEAN
        /\ status' \in {"none", "busy", "done", "cancelled", "error"}
    BY <1>32 DEF Shut, Finish, TypeOK
  <2>2. Working' /\ Reading'
    BY <1>32 DEF Shut, Finish
  <2>3. UNCHANGED <<up, client, job, dir, file, sent, buf, sess, mFtp,
                   relay, name, fd, ftpThread, thread, disk, targets,
                   blame>>
    BY <1>32 DEF Shut, Finish
  <2>4. UNCHANGED <<toAgent, toDevice, toRelay, toClient>>
    BY <1>32 DEF Shut, Finish
  <2>5. Channels'
    BY <1>a, <1>b, <1>c, <1>d, <2>4 DEF Channels
  <2> QED BY <1>0, <2>1, <2>2, <2>3, <2>5 DEF TypeOK
<1>33. CASE PutFails
  <2>1. /\ worker' \in Workers
        /\ stopJob' \in BOOLEAN
        /\ status' \in {"none", "busy", "done", "cancelled", "error"}
        /\ blame' \subseteq AllBlame
    BY <1>33 DEF PutFails, Finish, TypeOK, AllBlame
  <2>2. Working' /\ Reading'
    BY <1>33 DEF PutFails, Finish
  <2>3. UNCHANGED <<up, client, job, dir, file, sent, buf, sess, mFtp,
                   relay, name, fd, ftpThread, thread, disk, targets>>
    BY <1>33 DEF PutFails, Finish
  <2>4. UNCHANGED <<toAgent, toDevice, toRelay, toClient>>
    BY <1>33 DEF PutFails, Finish
  <2>5. Channels'
    BY <1>a, <1>b, <1>c, <1>d, <2>4 DEF Channels
  <2> QED BY <1>0, <2>1, <2>2, <2>3, <2>5 DEF TypeOK
<1>34. ASSUME NEW d \in {"put", "get"}, NEW f \in Files, StartFails(d, f)
       PROVE  Typed'
  <2>1. /\ job' \in 0 .. MaxJobs /\ sent' \in 0 .. Chunks + 1
    BY <1>34, BoundsAssumption, ChunksAssumption DEF StartFails, TypeOK
  <2>2. /\ dir' \in {"none", "put", "get"} /\ file' \in Files \cup {NoFile}
        /\ worker' \in Workers /\ buf' \in Files \cup {"clear", "last"}
        /\ stopJob' \in BOOLEAN
        /\ status' \in {"none", "busy", "done", "cancelled", "error"}
    BY <1>34 DEF StartFails
  <2>3. blame' \subseteq AllBlame
    BY <1>34 DEF StartFails, Remains, TypeOK, AllBlame
  <2>4. Working' /\ Reading'
    BY <1>34 DEF StartFails
  <2>5. UNCHANGED <<up, client, sess, mFtp, relay, name, fd, ftpThread,
                   thread, disk, targets>>
    BY <1>34 DEF StartFails
  <2>6. UNCHANGED <<toAgent, toDevice, toRelay, toClient>>
    BY <1>34 DEF StartFails
  <2>7. Channels'
    BY <1>a, <1>b, <1>c, <1>d, <2>6 DEF Channels
  <2> QED BY <1>0, <2>1, <2>2, <2>3, <2>4, <2>5, <2>7 DEF TypeOK
<1>35. CASE OtherArrives
  <2>1. UNCHANGED <<up, client, job, dir, file, worker, sent, buf, stopJob,
                   status, sess, mFtp, relay, name, fd, ftpThread, thread,
                   disk, targets, blame>>
    BY <1>35 DEF OtherArrives
  <2>2. UNCHANGED <<toAgent, toDevice, toRelay, toClient>>
    BY <1>35 DEF OtherArrives
  <2>3. Channels'
    BY <1>a, <1>b, <1>c, <1>d, <2>2 DEF Channels
  <2>4. Working' /\ Reading'
    BY <1>35 DEF OtherArrives
  <2> QED BY <1>0, <2>1, <2>3, <2>4 DEF TypeOK
<1>36. CASE LinkLost
  <2>1. PICK n \in 0 .. Len(toRelay) : toRelay' = SubSeq(toRelay, 1, n)
    BY <1>36 DEF LinkLost
  <2>2. toRelay' \in Seq(Msg)
    BY <1>c, <2>1, Cutting
  <2>3. toDevice' \in Seq(Msg)
    BY <1>36 DEF LinkLost
  <2>4. UNCHANGED <<toAgent, toClient>>
    BY <1>36 DEF LinkLost
  <2>5. Channels'
    BY <1>a, <1>d, <2>2, <2>3, <2>4 DEF Channels
  <2>6. name' \in Files \cup {NoFile} /\ fd' \in Descriptors
    BY <1>36 DEF LinkLost, FreshFd, Descriptors
  <2>7. Idle \in Threads
    BY ChunksAssumption DEF Idle, Threads
  <2>8. thread' \in [Jobs -> Threads] /\ Reading' /\ ftpThread' \in 0 .. MaxJobs
    BY <1>36, <2>7, BoundsAssumption DEF LinkLost, Idle
  <2>9. blame' \subseteq AllBlame
    BY <1>36 DEF LinkLost, TypeOK, AllBlame
  <2>10. UNCHANGED <<up, client, job, dir, file, worker, sent, buf, stopJob,
                    status, sess, mFtp, relay, disk, targets>>
    BY <1>36 DEF LinkLost
  <2>11. Working'
    BY <2>10
  <2> QED BY <1>0, <2>5, <2>6, <2>8, <2>9, <2>10, <2>11 DEF TypeOK
<1>37. CASE RestartFbc
  <2>1. UNCHANGED <<up, client, job, dir, file, worker, sent, buf, stopJob,
                   status, sess, mFtp, relay, name, fd, ftpThread, thread,
                   disk, targets, blame>>
    BY <1>37 DEF RestartFbc
  <2>2. UNCHANGED <<toAgent, toDevice, toRelay, toClient>>
    BY <1>37 DEF RestartFbc
  <2>3. Channels'
    BY <1>a, <1>b, <1>c, <1>d, <2>2 DEF Channels
  <2>4. Working' /\ Reading'
    BY <1>37 DEF RestartFbc
  <2> QED BY <1>0, <2>1, <2>3, <2>4 DEF TypeOK
<1>38. CASE GivesUp
  <2>1. UNCHANGED <<up, client, job, dir, file, worker, sent, buf, stopJob,
                   status, sess, mFtp, relay, name, fd, ftpThread, thread,
                   disk, targets>>
    BY <1>38 DEF GivesUp
  <2>2. blame' \subseteq AllBlame
    BY <1>38 DEF GivesUp, TypeOK, AllBlame
  <2>3. Working' /\ Reading'
    BY <2>1
  <2>4. \A q \in Seq(Msg) : Len(q) # 0 => Drop(q) \in Seq(Msg)
    BY Cutting DEF Drop
  <2>5. \A q \in Seq(Msg) : Unsent(q) => Len(q) # 0
    BY BoundsAssumption DEF Unsent
  <2>6. Len(toClient) = Cap + waiting => Len(toClient) # 0
    BY BoundsAssumption DEF TypeOK
  <2>7. /\ toAgent' = toAgent \/ (Unsent(toAgent) /\ toAgent' = Drop(toAgent))
        /\ toDevice' = toDevice \/ (Unsent(toDevice) /\ toDevice' = Drop(toDevice))
        /\ toRelay' = toRelay \/ (Unsent(toRelay) /\ toRelay' = Drop(toRelay))
        /\ toClient' = toClient
             \/ (Len(toClient) = Cap + waiting /\ toClient' = Drop(toClient))
    BY <1>38 DEF GivesUp
  <2>8. Channels'
    BY <1>a, <1>b, <1>c, <1>d, <2>4, <2>5, <2>6, <2>7 DEF Channels
  <2> QED BY <1>0, <2>1, <2>2, <2>3, <2>8 DEF TypeOK
<1> QED
  BY <1>1, <1>2, <1>3, <1>4, <1>5, <1>6, <1>7, <1>8, <1>9, <1>10, <1>11,
     <1>12, <1>13, <1>14, <1>15, <1>16, <1>17, <1>18, <1>19, <1>20, <1>21,
     <1>22, <1>23, <1>24, <1>25, <1>26, <1>27, <1>28, <1>29, <1>30, <1>31, <1>32,
     <1>33, <1>34, <1>35, <1>36, <1>37, <1>38 DEF
     Next, User, Environment, Task, Reader, ClientThread, ScreenThread, Daemon, Download

-----------------------------------------------------------------------------
(* No source is removed. The name that CloseUndoneFileTransfer removes was *)
(* given by an upload, or its request is still on the way, or the upload   *)
(* has been lost with the connection; and no file is open in the other     *)
(* cases. The messages on their way belong to the last transfer.           *)

Carries(q, t) == \E i \in 1 .. Len(q) : q[i].type = t
PutFirst(q) == \A i \in 2 .. Len(q) : q[i].type # "put"
OfJob(q, d, T) ==
  \A i \in 1 .. Len(q) :
    /\ q[i].type = "put" => d = "put" /\ q[i].file \in T
    /\ q[i].type = "get" => d = "get"
    /\ q[i].type = "write" => d = "put"

Excused == blame \cap {"requests", "openFile", "oldName", "lag"} # {}
TaskDir == worker \in {"put", "end"} => dir = "put"
Untouched == \A f \in Files \ targets : disk[f] = Old
OpenSafe == fd \in Files => fd \in targets
InOrder ==
  /\ PutFirst(toAgent) /\ PutFirst(toDevice)
  /\ Carries(toAgent, "put") => toDevice = <<>>
Owned == OfJob(toAgent, dir, targets) /\ OfJob(toDevice, dir, targets)
Pending == fd = NoFile /\ (Carries(toAgent, "put") \/ Carries(toDevice, "put"))
Lost ==
  /\ fd = NoFile /\ worker # "put"
  /\ ~Carries(toAgent, "write") /\ ~Carries(toDevice, "write")
NameSafe ==
  /\ dir = "none" => name = NoFile
  /\ dir = "get" => fd = NoFile
  /\ dir = "put" => name \in targets \cup {NoFile} \/ Pending \/ Lost
Clean == Untouched /\ OpenSafe /\ InOrder /\ Owned /\ NameSafe
Kept == TaskDir /\ (~Excused => Clean)

LEMMA CarriesQueue ==
  ASSUME NEW q \in Seq(Msg), NEW t
  PROVE  /\ \A m \in Msg : Carries(Append(q, m), t) <=> Carries(q, t) \/ m.type = t
         /\ q # <<>> => (Carries(q, t) <=> Head(q).type = t \/ Carries(Tail(q), t))
<1>1. ASSUME NEW m \in Msg
      PROVE  Carries(Append(q, m), t) <=> Carries(q, t) \/ m.type = t
  <2>1. Len(Append(q, m)) = Len(q) + 1 /\ Append(q, m)[Len(q) + 1] = m
    OBVIOUS
  <2>2. \A i \in 1 .. Len(q) : Append(q, m)[i] = q[i]
    OBVIOUS
  <2> QED  BY <2>1, <2>2 DEF Carries
<1>2. ASSUME q # <<>>
      PROVE  Carries(q, t) <=> Head(q).type = t \/ Carries(Tail(q), t)
  <2>1. Len(Tail(q)) = Len(q) - 1 /\ Head(q) = q[1] /\ Len(q) \in Nat \ {0}
    BY <1>2
  <2>2. \A i \in 1 .. Len(q) - 1 : Tail(q)[i] = q[i + 1]
    BY <1>2
  <2>3. ASSUME NEW i \in 1 .. Len(q), q[i].type = t
        PROVE  Head(q).type = t \/ Carries(Tail(q), t)
    <3>1. CASE i = 1
      BY <2>1, <2>3, <3>1
    <3>2. CASE i # 1
      <4>1. i - 1 \in 1 .. Len(q) - 1 /\ Tail(q)[i - 1] = q[i]
        BY <2>1, <2>2, <3>2
      <4> QED  BY <2>1, <2>3, <4>1 DEF Carries
    <3> QED  BY <3>1, <3>2
  <2>4. ASSUME NEW i \in 1 .. Len(q) - 1, Tail(q)[i].type = t
        PROVE  Carries(q, t)
    <3>1. i + 1 \in 1 .. Len(q) /\ q[i + 1].type = t
      BY <2>1, <2>2, <2>4
    <3> QED  BY <3>1 DEF Carries
  <2> QED  BY <2>1, <2>3, <2>4 DEF Carries
<1> QED  BY <1>1, <1>2

LEMMA PutFirstQueue ==
  ASSUME NEW q \in Seq(Msg)
  PROVE  /\ \A m \in Msg : m.type # "put" /\ PutFirst(q) => PutFirst(Append(q, m))
         /\ \A m \in Msg : q = <<>> => PutFirst(Append(q, m))
         /\ q # <<>> /\ PutFirst(q) => PutFirst(Tail(q)) /\ ~Carries(Tail(q), "put")
<1>1. ASSUME NEW m \in Msg
      PROVE  /\ m.type # "put" /\ PutFirst(q) => PutFirst(Append(q, m))
             /\ q = <<>> => PutFirst(Append(q, m))
  <2>1. /\ Len(q) \in Nat /\ Len(Append(q, m)) = Len(q) + 1
        /\ Append(q, m)[Len(q) + 1] = m
        /\ q = <<>> => Len(q) = 0
    OBVIOUS
  <2>2. \A i \in 1 .. Len(q) : Append(q, m)[i] = q[i]
    OBVIOUS
  <2> QED  BY <2>1, <2>2 DEF PutFirst
<1>2. ASSUME q # <<>>, PutFirst(q)
      PROVE  PutFirst(Tail(q)) /\ ~Carries(Tail(q), "put")
  <2>1. Len(Tail(q)) = Len(q) - 1 /\ Len(q) \in Nat \ {0}
    BY <1>2
  <2>2. ASSUME NEW i \in 1 .. Len(q) - 1 PROVE Tail(q)[i].type # "put"
    <3>1. Tail(q)[i] = q[i + 1] /\ i + 1 \in 2 .. Len(q)
      BY <1>2, <2>1
    <3> QED  BY <1>2, <3>1 DEF PutFirst
  <2> QED  BY <2>1, <2>2 DEF PutFirst, Carries
<1> QED  BY <1>1, <1>2

LEMMA OfJobQueue ==
  ASSUME NEW q \in Seq(Msg), NEW d, NEW T, OfJob(q, d, T)
  PROVE  /\ \A m \in Msg :
              m.type \notin {"put", "get", "write"} \/ (m.type = "write" /\ d = "put")
                => OfJob(Append(q, m), d, T)
         /\ \A m \in Msg : OfJob(<<m>>, d, T) => OfJob(Append(q, m), d, T)
         /\ q # <<>> => OfJob(Tail(q), d, T) /\ OfJob(<<Head(q)>>, d, T)
<1>1. ASSUME NEW m \in Msg, OfJob(<<m>>, d, T)
      PROVE  OfJob(Append(q, m), d, T)
  <2>1. /\ Len(q) \in Nat /\ Len(Append(q, m)) = Len(q) + 1
        /\ Append(q, m)[Len(q) + 1] = m
    OBVIOUS
  <2>2. \A i \in 1 .. Len(q) : Append(q, m)[i] = q[i]
    OBVIOUS
  <2>3. Len(<<m>>) = 1 /\ <<m>>[1] = m
    OBVIOUS
  <2>4. /\ m.type = "put" => d = "put" /\ m.file \in T
        /\ m.type = "get" => d = "get"
        /\ m.type = "write" => d = "put"
    BY <1>1, <2>3 DEF OfJob
  <2> QED  BY <2>1, <2>2, <2>4 DEF OfJob
<1>2. ASSUME NEW m \in Msg, m.type \notin {"put", "get", "write"} \/ (m.type = "write" /\ d = "put")
      PROVE  OfJob(<<m>>, d, T)
  <2>1. Len(<<m>>) = 1 /\ <<m>>[1] = m
    OBVIOUS
  <2> QED  BY <1>2, <2>1 DEF OfJob
<1>3. ASSUME q # <<>>
      PROVE  OfJob(Tail(q), d, T) /\ OfJob(<<Head(q)>>, d, T)
  <2>1. Len(Tail(q)) = Len(q) - 1 /\ Len(q) \in Nat \ {0} /\ Head(q) = q[1]
    BY <1>3
  <2>2. ASSUME NEW i \in 1 .. Len(q) - 1
        PROVE  Tail(q)[i] = q[i + 1] /\ i + 1 \in 1 .. Len(q)
    BY <1>3, <2>1
  <2>3. Len(<<Head(q)>>) = 1 /\ <<Head(q)>>[1] = q[1]
    BY <2>1
  <2>4. OfJob(Tail(q), d, T)
    BY <2>1, <2>2 DEF OfJob
  <2>5. OfJob(<<Head(q)>>, d, T)
    BY <2>1, <2>3 DEF OfJob
  <2> QED  BY <2>4, <2>5
<1>4. ASSUME NEW m \in Msg, m.type \notin {"put", "get", "write"} \/ (m.type = "write" /\ d = "put")
      PROVE  OfJob(Append(q, m), d, T)
  BY <1>1, <1>2, <1>4
<1> QED  BY Zenon, <1>1, <1>3, <1>4

(* A connection that breaks keeps a prefix of what was on its way.         *)
LEMMA CutQueue ==
  ASSUME NEW q \in Seq(Msg), NEW n \in 0 .. Len(q), NEW d, NEW T,
         PutFirst(q), OfJob(q, d, T)
  PROVE  LET r == Append(SubSeq(q, 1, n), Plain("bye")) IN
         /\ \A t : Carries(r, t) => Carries(q, t) \/ t = "bye"
         /\ PutFirst(r)
         /\ OfJob(r, d, T)
         /\ Carries(q, "put") =>
              Carries(r, "put") \/ \A t : t # "bye" => ~Carries(r, t)
<1> DEFINE r == Append(SubSeq(q, 1, n), Plain("bye"))
<1>1. /\ Len(q) \in Nat /\ Len(r) = n + 1 /\ n \in Nat /\ n <= Len(q)
      /\ r[n + 1].type = "bye"
  BY DEF Plain
<1>2. \A i \in 1 .. n : r[i] = q[i] /\ i \in 1 .. Len(q)
  BY <1>1
<1> HIDE DEF r
<1>3. \A t : Carries(r, t) => Carries(q, t) \/ t = "bye"
  BY <1>1, <1>2 DEF Carries
<1>4. PutFirst(r)
  BY <1>1, <1>2 DEF PutFirst
<1>5. OfJob(r, d, T)
  BY <1>1, <1>2 DEF OfJob
<1>6. ASSUME Carries(q, "put")
      PROVE  Carries(r, "put") \/ \A t : t # "bye" => ~Carries(r, t)
  <2>1. 1 \in 1 .. Len(q) /\ q[1].type = "put"
    BY <1>1, <1>6 DEF PutFirst, Carries
  <2>2. CASE n = 0
    BY <1>1, <2>2 DEF Carries
  <2>3. CASE n # 0
    BY <1>1, <1>2, <2>1, <2>3 DEF Carries
  <2> QED  BY <2>2, <2>3
<1> QED  BY Zenon, <1>3, <1>4, <1>5, <1>6 DEF r

(* What an action may leave alone.                                         *)
LEMMA Quiet ==
  ASSUME Kept, blame \subseteq blame',
         worker' = worker \/ worker' \notin {"put", "end"},
         UNCHANGED <<dir, toAgent, toDevice, name, fd, disk, targets>>
  PROVE  Kept'
<1>1. Excused => Excused'
  BY DEF Excused
<1>2. TaskDir'
  BY DEF Kept, TaskDir
<1>3. Clean => Clean'
  BY DEF Clean, Untouched, OpenSafe, InOrder, Owned, NameSafe, Pending, Lost
<1> QED  BY <1>1, <1>2, <1>3 DEF Kept

(* The task sends a message.                                               *)
LEMMA Sent ==
  ASSUME Typed, Kept, blame \subseteq blame', NEW m \in Msg,
         m.type \in {"write", "end", "error"}, toAgent' = Append(toAgent, m),
         m.type = "write" => worker = "put",
         worker' = worker \/ worker' \notin {"put", "end"}
           \/ (worker' = "end" /\ worker = "put"),
         UNCHANGED <<dir, toDevice, name, fd, disk, targets>>
  PROVE  Kept'
<1>1. Excused => Excused'
  BY DEF Excused
<1>2. TaskDir'
  BY DEF Kept, TaskDir
<1>3. ASSUME Clean PROVE Clean'
  <2>1. toAgent \in Seq(Msg)
    BY Zenon DEF Typed, TypeOK, Channels
  <2>2. /\ Carries(toAgent', "put") <=> Carries(toAgent, "put")
        /\ Carries(toAgent', "write") => Carries(toAgent, "write") \/ worker = "put"
    BY <2>1, CarriesQueue
  <2>3. InOrder'
    BY <1>3, <2>1, <2>2, PutFirstQueue DEF Clean, InOrder
  <2>4. m.type = "write" => dir = "put"
    BY DEF Kept, TaskDir
  <2>5. Owned'
    BY <1>3, <2>1, <2>4, OfJobQueue DEF Clean, Owned
  <2>6. NameSafe'
    BY <1>3, <2>2 DEF Clean, NameSafe, Pending, Lost
  <2> QED  BY <1>3, <2>3, <2>5, <2>6 DEF Clean, Untouched, OpenSafe
<1> QED  BY <1>1, <1>2, <1>3 DEF Kept

(* The daemon takes a message that is no put: none is left.                *)
LEMMA Taken ==
  ASSUME Typed, Clean, toDevice # <<>>, toDevice' = Tail(toDevice),
         UNCHANGED <<toAgent, dir, targets>>
  PROVE  /\ ~Carries(toAgent, "put") /\ ~Carries(toDevice', "put")
         /\ Head(toDevice).type # "put" => ~Carries(toDevice, "put")
         /\ Carries(toDevice', "write") => Carries(toDevice, "write")
         /\ Head(toDevice).type = "write" => Carries(toDevice, "write")
         /\ InOrder' /\ Owned' /\ OfJob(<<Head(toDevice)>>, dir, targets)
         /\ Head(toDevice) \in Msg
<1>1. toDevice \in Seq(Msg)
  BY Zenon DEF Typed, TypeOK, Channels
<1>2. InOrder /\ Owned
  BY DEF Clean
<1>3. PutFirst(toDevice') /\ ~Carries(toDevice', "put")
  BY <1>1, <1>2, PutFirstQueue DEF InOrder
<1>4. OfJob(toDevice', dir, targets) /\ OfJob(<<Head(toDevice)>>, dir, targets)
  BY <1>1, <1>2, OfJobQueue DEF Owned
<1>5. /\ Head(toDevice).type # "put" => ~Carries(toDevice, "put")
      /\ Carries(toDevice', "write") => Carries(toDevice, "write")
      /\ Head(toDevice).type = "write" => Carries(toDevice, "write")
  BY <1>1, <1>3, CarriesQueue
<1>6. Head(toDevice) \in Msg
  BY <1>1, Taking
<1> QED  BY <1>2, <1>3, <1>4, <1>5, <1>6 DEF InOrder, Owned

LEMMA HeadOf ==
  ASSUME NEW m \in Msg, NEW d, NEW T, OfJob(<<m>>, d, T)
  PROVE  /\ m.type = "put" => d = "put" /\ m.file \in T
         /\ m.type = "get" => d = "get"
         /\ m.type = "write" => d = "put"
<1>1. Len(<<m>>) = 1 /\ <<m>>[1] = m
  OBVIOUS
<1> QED  BY <1>1 DEF OfJob

LEMMA InitKept ==
  ASSUME Init PROVE Kept
<1>1. Len(<<>>) = 0
  OBVIOUS
<1>2. InOrder /\ Owned
  BY <1>1 DEF Init, InOrder, Owned, PutFirst, OfJob, Carries
<1>3. Untouched /\ NameSafe /\ TaskDir
  BY DEF Init, Untouched, NameSafe, TaskDir
<1>4. fd \notin Files
  BY FilesAssumption DEF Init, FreshFd
<1> QED  BY <1>2, <1>3, <1>4 DEF Kept, Clean, OpenSafe

LEMMA NextKept ==
  ASSUME Typed, Kept, [Next]_vars
  PROVE  Kept'
<1>a. toAgent \in Seq(Msg)
  BY Zenon DEF Typed, TypeOK, Channels
<1>b. toDevice \in Seq(Msg)
  BY Zenon DEF Typed, TypeOK, Channels
<1>e. disk \in [Files -> Content]
  BY Zenon DEF Typed, TypeOK
<1>1. CASE Connect
  <2>1. /\ blame \subseteq blame'
        /\ worker' = worker \/ worker' \notin {"put", "end"}
        /\ UNCHANGED <<dir, toAgent, toDevice, name, fd, disk, targets>>
    BY <1>1 DEF Connect
  <2> QED  BY <2>1, Quiet
<1>2. CASE Cancel
  <2>1. /\ blame \subseteq blame'
        /\ worker' = worker \/ worker' \notin {"put", "end"}
        /\ UNCHANGED <<dir, toAgent, toDevice, name, fd, disk, targets>>
    BY <1>2 DEF Cancel
  <2> QED  BY <2>1, Quiet
<1>3. CASE Break
  <2>1. PICK n \in 0 .. Len(toAgent) :
               toAgent' = Append(SubSeq(toAgent, 1, n), Plain("bye"))
    BY <1>3 DEF Break
  <2>2. worker' = "idle" /\ UNCHANGED <<blame, dir, toDevice, name, fd, disk, targets>>
    BY <1>3 DEF Break
  <2>3. ASSUME Clean PROVE Clean'
    <3>0. /\ PutFirst(toAgent) /\ OfJob(toAgent, dir, targets)
      BY <2>3 DEF Clean, InOrder, Owned
    <3>1. /\ \A t : Carries(toAgent', t) => Carries(toAgent, t) \/ t = "bye"
          /\ PutFirst(toAgent')
          /\ OfJob(toAgent', dir, targets)
          /\ Carries(toAgent, "put") =>
               Carries(toAgent', "put") \/ \A t : t # "bye" => ~Carries(toAgent', t)
      BY <1>a, <2>1, <3>0, CutQueue
    <3>2. Carries(toAgent', "put") => Carries(toAgent, "put")
      BY <3>1
    <3>3. Carries(toAgent', "write") => Carries(toAgent, "write")
      BY <3>1
    <3>4. Carries(toAgent, "put") => Carries(toAgent', "put") \/ ~Carries(toAgent', "write")
      BY <3>1
    <3>5. Carries(toAgent, "put") => ~Carries(toDevice, "write")
      BY <2>3 DEF Clean, InOrder, Carries
    <3>6. InOrder' /\ Owned'
      BY <2>2, <2>3, <3>1, <3>2 DEF Clean, InOrder, Owned
    <3>7. NameSafe'
      BY <2>2, <2>3, <3>3, <3>4, <3>5 DEF Clean, NameSafe, Pending, Lost
    <3> QED  BY <2>2, <2>3, <3>6, <3>7 DEF Clean, Untouched, OpenSafe
  <2>4. TaskDir' /\ (Excused => Excused')
    BY <2>2 DEF TaskDir, Excused
  <2> QED  BY <2>3, <2>4 DEF Kept
<1>4. CASE PutChunk
  <2>1. /\ blame \subseteq blame' /\ worker = "put"
        /\ toAgent' = Append(toAgent, [type |-> "write", file |-> file])
        /\ UNCHANGED <<worker, dir, toDevice, name, fd, disk, targets>>
    BY <1>4 DEF PutChunk
  <2>2. [type |-> "write", file |-> file] \in Msg
    BY <2>1, Messages DEF Typed, Working
  <2> QED  BY <2>1, <2>2, Sent
<1>5. CASE PutCancel
  <2>1. /\ blame \subseteq blame' /\ toAgent' = Append(toAgent, Plain("error"))
        /\ worker' = worker \/ worker' \notin {"put", "end"}
             \/ (worker' = "end" /\ worker = "put")
        /\ UNCHANGED <<dir, toDevice, name, fd, disk, targets>>
    BY <1>5 DEF PutCancel
  <2>2. Plain("error") \in Msg /\ Plain("error").type = "error"
    BY Messages DEF Plain
  <2> QED  BY <2>1, <2>2, Sent
<1>6. CASE PutEnd
  <2>1. /\ blame \subseteq blame' /\ worker' = "idle"
        /\ UNCHANGED <<dir, toDevice, name, fd, disk, targets>>
        /\ toAgent' = toAgent \/ toAgent' = Append(toAgent, Plain("end"))
    BY <1>6 DEF PutEnd, Finish
  <2>2. Plain("end") \in Msg /\ Plain("end").type = "end"
    BY Messages DEF Plain
  <2>3. CASE toAgent' = toAgent
    BY <2>1, <2>3, Quiet
  <2>4. CASE toAgent' = Append(toAgent, Plain("end"))
    BY <2>1, <2>2, <2>4, Sent
  <2> QED  BY <2>1, <2>3, <2>4
<1>7. CASE GetArm
  <2>1. /\ blame \subseteq blame'
        /\ worker' = worker \/ worker' \notin {"put", "end"}
        /\ UNCHANGED <<dir, toAgent, toDevice, name, fd, disk, targets>>
    BY <1>7 DEF GetArm
  <2> QED  BY <2>1, Quiet
<1>8. CASE GetCancel
  <2>1. /\ blame \subseteq blame' /\ toAgent' = Append(toAgent, Plain("error"))
        /\ worker' = worker \/ worker' \notin {"put", "end"}
             \/ (worker' = "end" /\ worker = "put")
        /\ UNCHANGED <<dir, toDevice, name, fd, disk, targets>>
    BY <1>8 DEF GetCancel, Finish
  <2>2. Plain("error") \in Msg /\ Plain("error").type = "error"
    BY Messages DEF Plain
  <2> QED  BY <2>1, <2>2, Sent
<1>9. CASE GetLast
  <2>1. /\ blame \subseteq blame'
        /\ worker' = worker \/ worker' \notin {"put", "end"}
        /\ UNCHANGED <<dir, toAgent, toDevice, name, fd, disk, targets>>
    BY <1>9 DEF GetLast, Finish
  <2> QED  BY <2>1, Quiet
<1>10. CASE GetChunk
  <2>1. /\ blame \subseteq blame'
        /\ worker' = worker \/ worker' \notin {"put", "end"}
        /\ UNCHANGED <<dir, toAgent, toDevice, name, fd, disk, targets>>
    BY <1>10 DEF GetChunk
  <2> QED  BY <2>1, Quiet
<1>11. CASE GetStored
  <2>1. /\ blame \subseteq blame'
        /\ worker' = worker \/ worker' \notin {"put", "end"}
        /\ UNCHANGED <<dir, toAgent, toDevice, name, fd, disk, targets>>
    BY <1>11 DEF GetStored
  <2> QED  BY <2>1, Quiet
<1>12. CASE GetFails
  <2>1. /\ blame \subseteq blame' /\ toAgent' = Append(toAgent, Plain("error"))
        /\ worker' = worker \/ worker' \notin {"put", "end"}
             \/ (worker' = "end" /\ worker = "put")
        /\ UNCHANGED <<dir, toDevice, name, fd, disk, targets>>
    BY <1>12 DEF GetFails, Finish
  <2>2. Plain("error") \in Msg /\ Plain("error").type = "error"
    BY Messages DEF Plain
  <2> QED  BY <2>1, <2>2, Sent
<1>13. CASE ReadData
  <2>1. /\ blame \subseteq blame'
        /\ worker' = worker \/ worker' \notin {"put", "end"}
        /\ UNCHANGED <<dir, toAgent, toDevice, name, fd, disk, targets>>
    BY <1>13 DEF ReadData
  <2> QED  BY <2>1, Quiet
<1>14. CASE ReadError
  <2>1. /\ blame \subseteq blame'
        /\ worker' = worker \/ worker' \notin {"put", "end"}
        /\ UNCHANGED <<dir, toAgent, toDevice, name, fd, disk, targets>>
    BY <1>14 DEF ReadError
  <2> QED  BY <2>1, Quiet
<1>15. CASE Forward
  <2>1. /\ toAgent # <<>> /\ toAgent' = Tail(toAgent)
        /\ toDevice' = IF link THEN Append(toDevice, Head(toAgent)) ELSE toDevice
        /\ blame \subseteq blame'
        /\ UNCHANGED <<worker, dir, name, fd, disk, targets>>
    BY <1>15 DEF Forward
  <2>2. Head(toAgent) \in Msg
    BY <1>a, <2>1, Taking
  <2>3. ASSUME Clean PROVE Clean'
    <3>1. /\ PutFirst(toAgent') /\ ~Carries(toAgent', "put")
      BY <1>a, <2>1, <2>3, PutFirstQueue DEF Clean, InOrder
    <3>2. OfJob(toAgent', dir, targets) /\ OfJob(<<Head(toAgent)>>, dir, targets)
      BY <1>a, <2>1, <2>3, OfJobQueue DEF Clean, Owned
    <3>3. ASSUME link
          PROVE  PutFirst(toDevice') /\ OfJob(toDevice', dir, targets)
                   /\ NameSafe'
      <4>0. toDevice' = Append(toDevice, Head(toAgent))
        BY <2>1, <3>3
      <4>1. Head(toAgent).type = "put" => Carries(toAgent, "put")
        BY <1>a, <2>1, CarriesQueue
      <4>2. Head(toAgent).type = "put" => toDevice = <<>>
        BY <2>3, <4>1 DEF Clean, InOrder
      <4>3. PutFirst(toDevice')
        BY <1>b, <4>0, <2>2, <2>3, <4>2, PutFirstQueue DEF Clean, InOrder
      <4>4. OfJob(toDevice', dir, targets)
        BY <1>b, <4>0, <2>2, <2>3, <3>2, OfJobQueue DEF Clean, Owned
      <4>5. Carries(toAgent, "put") \/ Carries(toDevice, "put")
              => Carries(toAgent', "put") \/ Carries(toDevice', "put")
        BY <1>a, <1>b, <2>1, <4>0, <2>2, CarriesQueue
      <4>6. Carries(toAgent', "write") \/ Carries(toDevice', "write")
              => Carries(toAgent, "write") \/ Carries(toDevice, "write")
        BY <1>a, <1>b, <2>1, <4>0, <2>2, CarriesQueue
      <4>7. NameSafe'
        BY <2>1, <2>3, <4>5, <4>6 DEF Clean, NameSafe, Pending, Lost
      <4> QED  BY <4>3, <4>4, <4>7
    <3>4. ASSUME ~link
          PROVE  PutFirst(toDevice') /\ OfJob(toDevice', dir, targets)
                   /\ NameSafe'
      <4>1. toDevice' = toDevice /\ name = NoFile
        BY <2>1, <3>4 DEF Typed, Down
      <4>2. PutFirst(toDevice') /\ OfJob(toDevice', dir, targets)
        BY <2>3, <4>1 DEF Clean, InOrder, Owned
      <4>3. NameSafe'
        BY <2>1, <2>3, <4>1 DEF Clean, NameSafe
      <4> QED  BY <4>2, <4>3
    <3>5. InOrder' /\ Owned'
      BY <2>1, <3>1, <3>2, <3>3, <3>4 DEF InOrder, Owned
    <3> QED  BY <2>1, <2>3, <3>3, <3>4, <3>5 DEF Clean, Untouched, OpenSafe
  <2>4. TaskDir' /\ (Excused => Excused')
    BY <2>1 DEF Kept, TaskDir, Excused
  <2> QED  BY <2>3, <2>4 DEF Kept
<1>16. CASE ExitClient
  <2>1. /\ toAgent # <<>> /\ Head(toAgent).type = "bye" /\ toAgent' = Tail(toAgent)
        /\ toDevice' = toDevice \/ toDevice' = Append(toDevice, Plain("error"))
        /\ UNCHANGED <<worker, blame, dir, name, fd, disk, targets>>
    BY <1>16 DEF ExitClient
  <2>2. Plain("error") \in Msg /\ Plain("error").type = "error"
    BY Messages DEF Plain
  <2>3. ASSUME Clean PROVE Clean'
    <3>1. /\ PutFirst(toAgent') /\ ~Carries(toAgent', "put")
      BY <1>a, <2>1, <2>3, PutFirstQueue DEF Clean, InOrder
    <3>2. PutFirst(toDevice')
      BY <1>b, <2>1, <2>2, <2>3, PutFirstQueue DEF Clean, InOrder
    <3>3. InOrder'
      BY <3>1, <3>2 DEF InOrder
    <3>4. OfJob(toAgent', dir, targets) /\ OfJob(toDevice', dir, targets)
      BY <1>a, <1>b, <2>1, <2>2, <2>3, OfJobQueue DEF Clean, Owned
    <3>5. /\ Carries(toAgent', "put") <=> Carries(toAgent, "put")
          /\ Carries(toAgent', "write") <=> Carries(toAgent, "write")
      BY <1>a, <2>1, CarriesQueue
    <3>6. /\ Carries(toDevice', "put") <=> Carries(toDevice, "put")
          /\ Carries(toDevice', "write") <=> Carries(toDevice, "write")
      <4>1. CASE toDevice' = toDevice
        BY <4>1
      <4>2. CASE toDevice' = Append(toDevice, Plain("error"))
        BY <1>b, <2>2, <4>2, CarriesQueue
      <4> QED  BY <2>1, <4>1, <4>2
    <3>7. NameSafe'
      BY <2>1, <2>3, <3>5, <3>6 DEF Clean, NameSafe, Pending, Lost
    <3>8. Owned'
      BY <2>1, <3>4 DEF Owned
    <3> QED  BY <2>1, <2>3, <3>3, <3>7, <3>8 DEF Clean, Untouched, OpenSafe
  <2>4. TaskDir' /\ (Excused => Excused')
    BY <2>1 DEF Kept, TaskDir, Excused
  <2> QED  BY <2>3, <2>4 DEF Kept
<1>17. CASE Relay
  <2>1. /\ blame \subseteq blame'
        /\ worker' = worker \/ worker' \notin {"put", "end"}
        /\ UNCHANGED <<dir, toAgent, toDevice, name, fd, disk, targets>>
    BY <1>17 DEF Relay
  <2> QED  BY <2>1, Quiet
<1>18. CASE RelayClear
  <2>1. /\ blame \subseteq blame'
        /\ worker' = worker \/ worker' \notin {"put", "end"}
        /\ UNCHANGED <<dir, toAgent, toDevice, name, fd, disk, targets>>
    BY <1>18 DEF RelayClear
  <2> QED  BY <2>1, Quiet
<1>19. CASE ConvertFails
  <2>1. /\ toDevice # <<>> /\ toDevice' = Tail(toDevice) /\ blame \subseteq blame'
        /\ UNCHANGED <<toAgent, worker, dir, targets>>
        /\ UNCHANGED <<name, fd, disk>>
        /\ name # NoFile => "oldName" \in blame'
    BY <1>19 DEF ConvertFails, Arrived
  <2>2. TaskDir' /\ (Excused => Excused')
    BY <2>1 DEF Kept, TaskDir, Excused
  <2>3. ASSUME Clean, ~Excused' PROVE Clean'
    <3>1. /\ ~Carries(toAgent, "put") /\ ~Carries(toDevice', "put")
          /\ Head(toDevice).type # "put" => ~Carries(toDevice, "put")
          /\ Carries(toDevice', "write") => Carries(toDevice, "write")
          /\ Head(toDevice).type = "write" => Carries(toDevice, "write")
          /\ InOrder' /\ Owned' /\ OfJob(<<Head(toDevice)>>, dir, targets)
          /\ Head(toDevice) \in Msg
      BY <2>1, <2>3, Taken
    <3>2. /\ Head(toDevice).type = "put" => dir = "put" /\ Head(toDevice).file \in targets
          /\ Head(toDevice).type = "get" => dir = "get"
          /\ Head(toDevice).type = "write" => dir = "put"
      BY <3>1, HeadOf
    <3>3. Untouched' /\ OpenSafe'
      BY <2>1, <2>3 DEF Clean, Untouched, OpenSafe
    <3>4. name = NoFile
      BY <2>1, <2>3 DEF Excused
    <3>5. NameSafe'
      BY <2>1, <2>3, <3>4 DEF Clean, NameSafe
    <3> QED  BY <3>1, <3>3, <3>5 DEF Clean
  <2> QED  BY <2>2, <2>3 DEF Kept
<1>20. CASE OnFileDownloadReq
  <2>1. /\ toDevice # <<>> /\ toDevice' = Tail(toDevice) /\ blame \subseteq blame'
        /\ UNCHANGED <<toAgent, worker, dir, targets>>
        /\ UNCHANGED <<fd, disk>> /\ Head(toDevice).type = "get"
    BY <1>20 DEF OnFileDownloadReq, Arrived
  <2>2. TaskDir' /\ (Excused => Excused')
    BY <2>1 DEF Kept, TaskDir, Excused
  <2>3. ASSUME Clean, ~Excused' PROVE Clean'
    <3>1. /\ ~Carries(toAgent, "put") /\ ~Carries(toDevice', "put")
          /\ Head(toDevice).type # "put" => ~Carries(toDevice, "put")
          /\ Carries(toDevice', "write") => Carries(toDevice, "write")
          /\ Head(toDevice).type = "write" => Carries(toDevice, "write")
          /\ InOrder' /\ Owned' /\ OfJob(<<Head(toDevice)>>, dir, targets)
          /\ Head(toDevice) \in Msg
      BY <2>1, <2>3, Taken
    <3>2. /\ Head(toDevice).type = "put" => dir = "put" /\ Head(toDevice).file \in targets
          /\ Head(toDevice).type = "get" => dir = "get"
          /\ Head(toDevice).type = "write" => dir = "put"
      BY <3>1, HeadOf
    <3>3. Untouched' /\ OpenSafe'
      BY <2>1, <2>3 DEF Clean, Untouched, OpenSafe
    <3>4. NameSafe'
      BY <2>1, <2>3, <3>2 DEF Clean, NameSafe
    <3> QED  BY <3>1, <3>3, <3>4 DEF Clean
  <2> QED  BY <2>2, <2>3 DEF Kept
<1>21. CASE OnFileUploadReq
  <2>1. /\ toDevice # <<>> /\ toDevice' = Tail(toDevice) /\ blame \subseteq blame'
        /\ UNCHANGED <<toAgent, worker, dir, targets>>
        /\ Head(toDevice).type = "put" /\ name' = Head(toDevice).file
        /\ \/ fd' = name' /\ disk' = [disk EXCEPT ![name'] = 0]
           \/ fd' = NoFile /\ disk' = disk
    BY <1>21 DEF OnFileUploadReq, Arrived
  <2>2. TaskDir' /\ (Excused => Excused')
    BY <2>1 DEF Kept, TaskDir, Excused
  <2>3. ASSUME Clean, ~Excused' PROVE Clean'
    <3>1. /\ ~Carries(toAgent, "put") /\ ~Carries(toDevice', "put")
          /\ Head(toDevice).type # "put" => ~Carries(toDevice, "put")
          /\ Carries(toDevice', "write") => Carries(toDevice, "write")
          /\ Head(toDevice).type = "write" => Carries(toDevice, "write")
          /\ InOrder' /\ Owned' /\ OfJob(<<Head(toDevice)>>, dir, targets)
          /\ Head(toDevice) \in Msg
      BY <2>1, <2>3, Taken
    <3>2. /\ Head(toDevice).type = "put" => dir = "put" /\ Head(toDevice).file \in targets
          /\ Head(toDevice).type = "get" => dir = "get"
          /\ Head(toDevice).type = "write" => dir = "put"
      BY <3>1, HeadOf
    <3>3. dir = "put" /\ name' \in targets
      BY <2>1, <3>2
    <3>4. NameSafe'
      BY <2>1, <3>3 DEF NameSafe
    <3>5. OpenSafe'
      BY <2>1, <3>3, FilesAssumption DEF OpenSafe
    <3>6. Untouched'
      BY <2>1, <2>3, <3>3, <1>e DEF Clean, Untouched
    <3> QED  BY <3>1, <3>4, <3>5, <3>6 DEF Clean
  <2> QED  BY <2>2, <2>3 DEF Kept
<1>22. CASE OnFileWrite
  <2>1. /\ toDevice # <<>> /\ toDevice' = Tail(toDevice) /\ blame \subseteq blame'
        /\ UNCHANGED <<toAgent, worker, dir, targets>>
        /\ Head(toDevice).type = "write"
        /\ \/ /\ fd \in Files /\ UNCHANGED <<name, fd>>
              /\ disk' = [disk EXCEPT ![fd] =
                             IF @ \in 0 .. Chunks - 1 THEN @ + 1 ELSE @]
           \/ /\ fd' = NoFile /\ name' = NoFile
              /\ disk' = [f \in Files |-> IF f = name THEN Removed ELSE disk[f]]
    BY <1>22 DEF OnFileWrite, Arrived, CloseUndone
  <2>2. TaskDir' /\ (Excused => Excused')
    BY <2>1 DEF Kept, TaskDir, Excused
  <2>3. ASSUME Clean, ~Excused' PROVE Clean'
    <3>1. /\ ~Carries(toAgent, "put") /\ ~Carries(toDevice', "put")
          /\ Head(toDevice).type # "put" => ~Carries(toDevice, "put")
          /\ Carries(toDevice', "write") => Carries(toDevice, "write")
          /\ Head(toDevice).type = "write" => Carries(toDevice, "write")
          /\ InOrder' /\ Owned' /\ OfJob(<<Head(toDevice)>>, dir, targets)
          /\ Head(toDevice) \in Msg
      BY <2>1, <2>3, Taken
    <3>2. /\ Head(toDevice).type = "put" => dir = "put" /\ Head(toDevice).file \in targets
          /\ Head(toDevice).type = "get" => dir = "get"
          /\ Head(toDevice).type = "write" => dir = "put"
      BY <3>1, HeadOf
    <3>3. dir = "put" /\ name \in targets \cup {NoFile}
      BY <2>1, <2>3, <3>1, <3>2 DEF Clean, NameSafe, Pending, Lost
    <3>4. NameSafe'
      BY <2>1, <3>3 DEF NameSafe
    <3>5. OpenSafe'
      BY <2>1, <2>3, FilesAssumption DEF Clean, OpenSafe
    <3>6. Untouched'
      BY <2>1, <2>3, <3>3, <1>e, FilesAssumption DEF Clean, Untouched, OpenSafe
    <3> QED  BY <3>1, <3>4, <3>5, <3>6 DEF Clean
  <2> QED  BY <2>2, <2>3 DEF Kept
<1>23. CASE OnFileEnd
  <2>1. /\ toDevice # <<>> /\ toDevice' = Tail(toDevice) /\ blame \subseteq blame'
        /\ UNCHANGED <<toAgent, worker, dir, targets>>
        /\ Head(toDevice).type = "end" /\ fd' = NoFile /\ UNCHANGED <<name, disk>>
    BY <1>23 DEF OnFileEnd, Arrived
  <2>2. TaskDir' /\ (Excused => Excused')
    BY <2>1 DEF Kept, TaskDir, Excused
  <2>3. ASSUME Clean, ~Excused' PROVE Clean'
    <3>1. /\ ~Carries(toAgent, "put") /\ ~Carries(toDevice', "put")
          /\ Head(toDevice).type # "put" => ~Carries(toDevice, "put")
          /\ Carries(toDevice', "write") => Carries(toDevice, "write")
          /\ Head(toDevice).type = "write" => Carries(toDevice, "write")
          /\ InOrder' /\ Owned' /\ OfJob(<<Head(toDevice)>>, dir, targets)
          /\ Head(toDevice) \in Msg
      BY <2>1, <2>3, Taken
    <3>2. /\ Head(toDevice).type = "put" => dir = "put" /\ Head(toDevice).file \in targets
          /\ Head(toDevice).type = "get" => dir = "get"
          /\ Head(toDevice).type = "write" => dir = "put"
      BY <3>1, HeadOf
    <3>3. Untouched' /\ OpenSafe'
      BY <2>1, <2>3, FilesAssumption DEF Clean, Untouched, OpenSafe
    <3>4. NameSafe'
      BY <2>1, <2>3, <3>1 DEF Clean, NameSafe, Pending, Lost
    <3> QED  BY <3>1, <3>3, <3>4 DEF Clean
  <2> QED  BY <2>2, <2>3 DEF Kept
<1>24. CASE OnFileErr
  <2>1. /\ toDevice # <<>> /\ toDevice' = Tail(toDevice) /\ blame \subseteq blame'
        /\ UNCHANGED <<toAgent, worker, dir, targets>>
        /\ Head(toDevice).type = "error"
        /\ \/ UNCHANGED <<name, fd, disk>>
           \/ /\ fd # NoFile /\ fd' = NoFile /\ name' = NoFile
              /\ disk' = [f \in Files |-> IF f = name THEN Removed ELSE disk[f]]
    BY <1>24 DEF OnFileErr, Arrived, CloseUndone
  <2>2. TaskDir' /\ (Excused => Excused')
    BY <2>1 DEF Kept, TaskDir, Excused
  <2>3. ASSUME Clean, ~Excused' PROVE Clean'
    <3>1. /\ ~Carries(toAgent, "put") /\ ~Carries(toDevice', "put")
          /\ Head(toDevice).type # "put" => ~Carries(toDevice, "put")
          /\ Carries(toDevice', "write") => Carries(toDevice, "write")
          /\ Head(toDevice).type = "write" => Carries(toDevice, "write")
          /\ InOrder' /\ Owned' /\ OfJob(<<Head(toDevice)>>, dir, targets)
          /\ Head(toDevice) \in Msg
      BY <2>1, <2>3, Taken
    <3>2. /\ Head(toDevice).type = "put" => dir = "put" /\ Head(toDevice).file \in targets
          /\ Head(toDevice).type = "get" => dir = "get"
          /\ Head(toDevice).type = "write" => dir = "put"
      BY <3>1, HeadOf
    <3>3. CASE UNCHANGED <<name, fd, disk>>
      <4>1. NameSafe'
        BY <2>1, <2>3, <3>1, <3>3 DEF Clean, NameSafe, Pending, Lost
      <4>2. Untouched' /\ OpenSafe'
        BY <2>1, <2>3, <3>3 DEF Clean, Untouched, OpenSafe
      <4> QED  BY <3>1, <4>1, <4>2 DEF Clean
    <3>4. CASE /\ fd # NoFile /\ fd' = NoFile /\ name' = NoFile
               /\ disk' = [f \in Files |-> IF f = name THEN Removed ELSE disk[f]]
      <4>1. dir \in {"none", "put", "get"}
        BY DEF Typed, TypeOK
      <4>2. name \in targets \cup {NoFile}
        BY <2>3, <3>4, <4>1 DEF Clean, NameSafe, Pending, Lost
      <4>3. Untouched'
        BY <2>1, <2>3, <3>4, <4>2, FilesAssumption DEF Clean, Untouched
      <4>4. OpenSafe' /\ NameSafe'
        BY <3>4, FilesAssumption DEF OpenSafe, NameSafe
      <4> QED  BY <3>1, <4>3, <4>4 DEF Clean
    <3> QED  BY <2>1, <3>3, <3>4 DEF Clean
  <2> QED  BY <2>2, <2>3 DEF Kept
<1>25. ASSUME NEW d \in {"put", "get"}, NEW f \in Files, Start(d, f)
       PROVE  Kept'
  <2>1. /\ blame' = blame \cup Remains /\ dir' = d /\ worker' \in {"put", "arm"}
        /\ worker' = "put" => d = "put"
        /\ toAgent' = Append(toAgent, [type |-> d, file |-> f])
        /\ d = "put" => f \in targets'
        /\ targets \subseteq targets'
        /\ UNCHANGED <<toDevice, name, fd, disk>>
    BY <1>25 DEF Start
  <2>2. TaskDir'
    BY <2>1 DEF TaskDir
  <2>3. ASSUME ~Excused' PROVE Clean'
    <3>1. ~Excused /\ toAgent \o toDevice = <<>> /\ fd = NoFile
      BY <2>1, <2>3 DEF Excused, Remains
    <3>2. toAgent = <<>> /\ toDevice = <<>>
      BY <3>1, <1>a, <1>b
    <3>3. DEFINE m == [type |-> d, file |-> f]
    <3>4. toAgent' = <<m>> /\ Len(toAgent') = 1 /\ toAgent'[1] = m
      BY <2>1, <3>2
    <3>5. Len(toDevice') = 0
      BY <2>1, <3>2
    <3>6. InOrder'
      BY <2>1, <3>2, <3>4, <3>5 DEF InOrder, PutFirst
    <3>7. Owned'
      BY <2>1, <3>4, <3>5 DEF Owned, OfJob
    <3>8. d = "put" => Carries(toAgent', "put")
      BY <3>4 DEF Carries
    <3>9. NameSafe'
      BY <2>1, <3>1, <3>8 DEF NameSafe, Pending
    <3>10. Untouched' /\ OpenSafe'
      BY <2>1, <3>1 DEF Kept, Clean, Untouched, OpenSafe
    <3> QED  BY <3>6, <3>7, <3>9, <3>10 DEF Clean
  <2> QED  BY <2>2, <2>3 DEF Kept
<1>26. ASSUME NEW j \in Jobs, ThreadStat(j)
       PROVE  Kept'
  <2>1. /\ blame \subseteq blame'
        /\ worker' = worker \/ worker' \notin {"put", "end"}
        /\ UNCHANGED <<dir, toAgent, toDevice, name, fd, disk, targets>>
    BY <1>26 DEF ThreadStat
  <2> QED  BY <2>1, Quiet
<1>27. ASSUME NEW j \in Jobs, ThreadOpen(j)
       PROVE  Kept'
  <2>1. /\ blame \subseteq blame'
        /\ worker' = worker \/ worker' \notin {"put", "end"}
        /\ UNCHANGED <<dir, toAgent, toDevice, name, fd, disk, targets>>
    BY <1>27 DEF ThreadOpen
  <2> QED  BY <2>1, Quiet
<1>28. ASSUME NEW j \in Jobs, ThreadRead(j)
       PROVE  Kept'
  <2>1. /\ blame \subseteq blame'
        /\ worker' = worker \/ worker' \notin {"put", "end"}
        /\ UNCHANGED <<dir, toAgent, toDevice, name, fd, disk, targets>>
    BY <1>28 DEF ThreadRead
  <2> QED  BY <2>1, Quiet
<1>29. ASSUME NEW j \in Jobs, ThreadStopped(j)
       PROVE  Kept'
  <2>1. /\ blame \subseteq blame'
        /\ worker' = worker \/ worker' \notin {"put", "end"}
        /\ UNCHANGED <<dir, toAgent, toDevice, name, fd, disk, targets>>
    BY <1>29 DEF ThreadStopped
  <2> QED  BY <2>1, Quiet
<1>30. ASSUME NEW j \in Jobs, ThreadExit(j)
       PROVE  Kept'
  <2>1. /\ blame \subseteq blame'
        /\ worker' = worker \/ worker' \notin {"put", "end"}
        /\ UNCHANGED <<dir, toAgent, toDevice, name, fd, disk, targets>>
    BY <1>30 DEF ThreadExit
  <2> QED  BY <2>1, Quiet
<1>31. CASE UNCHANGED vars
  <2>1. UNCHANGED <<worker, blame, dir, toAgent, toDevice, name, fd, disk, targets>>
    BY <1>31 DEF vars
  <2> QED  BY <2>1, Quiet
<1>32. CASE Shut
  <2>1. /\ blame \subseteq blame'
        /\ worker' = worker \/ worker' \notin {"put", "end"}
        /\ UNCHANGED <<dir, toAgent, toDevice, name, fd, disk, targets>>
    BY <1>32 DEF Shut, Finish
  <2> QED  BY <2>1, Quiet
<1>33. CASE PutFails
  <2>1. /\ blame \subseteq blame'
        /\ worker' = worker \/ worker' \notin {"put", "end"}
        /\ UNCHANGED <<dir, toAgent, toDevice, name, fd, disk, targets>>
    BY <1>33 DEF PutFails, Finish
  <2> QED  BY <2>1, Quiet
<1>34. ASSUME NEW d \in {"put", "get"}, NEW f \in Files, StartFails(d, f)
       PROVE  Kept'
  <2>1. /\ Remains \subseteq blame' /\ blame \subseteq blame' /\ dir' = d
        /\ worker' = "shut"
        /\ UNCHANGED <<toAgent, toDevice, name, fd, disk, targets>>
    BY <1>34 DEF StartFails
  <2>2. TaskDir'
    BY <2>1 DEF TaskDir
  <2>3. ASSUME ~Excused' PROVE Clean'
    <3>1. ~Excused /\ toAgent \o toDevice = <<>> /\ fd = NoFile
      BY <2>1, <2>3 DEF Excused, Remains
    <3>2. Len(toAgent) = 0 /\ Len(toDevice) = 0 /\ toDevice = <<>>
      BY <3>1, <1>a, <1>b
    <3>3. InOrder' /\ Owned'
      BY <2>1, <3>2 DEF InOrder, PutFirst, Owned, OfJob
    <3>4. NameSafe'
      BY <2>1, <3>1, <3>2 DEF NameSafe, Lost, Carries
    <3>5. Untouched' /\ OpenSafe'
      BY <2>1, <3>1 DEF Kept, Clean, Untouched, OpenSafe
    <3> QED  BY <3>3, <3>4, <3>5 DEF Clean
  <2> QED  BY <2>2, <2>3 DEF Kept
<1>35. CASE OtherArrives
  <2>1. /\ blame \subseteq blame'
        /\ worker' = worker \/ worker' \notin {"put", "end"}
        /\ UNCHANGED <<dir, toAgent, toDevice, name, fd, disk, targets>>
    BY <1>35 DEF OtherArrives
  <2> QED  BY <2>1, Quiet
<1>36. CASE LinkLost
  <2>1. /\ blame \subseteq blame' /\ (fd' = NoFile \/ "openFile" \in blame')
        /\ toDevice' = <<>> /\ name' = NoFile
        /\ UNCHANGED <<worker, toAgent, dir, disk, targets>>
    BY <1>36 DEF LinkLost
  <2>2. TaskDir' /\ (Excused => Excused')
    BY <2>1 DEF Kept, TaskDir, Excused
  <2>3. ASSUME Clean, ~Excused' PROVE Clean'
    <3>1. Len(toDevice') = 0
      BY <2>1
    <3>2. InOrder' /\ Owned'
      BY <2>1, <2>3, <3>1 DEF Clean, InOrder, PutFirst, Owned, OfJob
    <3>3. fd' = NoFile
      BY <2>1, <2>3 DEF Excused
    <3>4. NameSafe' /\ OpenSafe'
      BY <2>1, <3>3, FilesAssumption DEF NameSafe, OpenSafe
    <3>5. Untouched'
      BY <2>1, <2>3 DEF Clean, Untouched
    <3> QED  BY <3>2, <3>4, <3>5 DEF Clean
  <2> QED  BY <2>2, <2>3 DEF Kept
<1>37. CASE RestartFbc
  <2>1. /\ blame \subseteq blame'
        /\ worker' = worker \/ worker' \notin {"put", "end"}
        /\ UNCHANGED <<dir, toAgent, toDevice, name, fd, disk, targets>>
    BY <1>37 DEF RestartFbc
  <2> QED  BY <2>1, Quiet
<1>38. CASE GivesUp
  <2>1. "lag" \in blame' /\ UNCHANGED <<worker, dir>>
    BY <1>38 DEF GivesUp
  <2> QED  BY <2>1 DEF Kept, TaskDir, Excused
<1> QED
  BY <1>1, <1>2, <1>3, <1>4, <1>5, <1>6, <1>7, <1>8, <1>9, <1>10, <1>11,
     <1>12, <1>13, <1>14, <1>15, <1>16, <1>17, <1>18, <1>19, <1>20, <1>21,
     <1>22, <1>23, <1>24, <1>25, <1>26, <1>27, <1>28, <1>29, <1>30, <1>31, <1>32,
     <1>33, <1>34, <1>35, <1>36, <1>37, <1>38 DEF
     Next, User, Environment, Task, Reader, ClientThread, ScreenThread, Daemon, Download

(* Every variable keeps its type.                                          *)
THEOREM Typing == Spec => []Typed
<1>1. Init => Typed
  BY InitTyped
<1>2. Typed /\ [Next]_vars => Typed'
  BY NextTyped
<1> QED  BY <1>1, <1>2, PTL DEF Spec

(* TypeOK: every variable keeps its type, whatever the length of a         *)
(* transfer and the number of messages on their way.                       *)
THEOREM TypeCorrect == Spec => []TypeOK
<1>1. Typed => TypeOK
  BY DEF Typed
<1> QED  BY <1>1, Typing, PTL

(* SourcesKept: CloseUndoneFileTransfer never removes a file that nobody   *)
(* has asked to upload.                                                    *)
THEOREM SourcesAreKept == Spec => []SourcesKept
<1>1. Init => Kept
  BY InitKept
<1>2. Typed /\ Kept /\ [Next]_vars => Kept'
  BY NextKept
<1>3. Kept => SourcesKept
  BY DEF Kept, Clean, Untouched, Excused, SourcesKept
<1> QED  BY <1>1, <1>2, <1>3, Typing, PTL DEF Spec

=============================================================================
