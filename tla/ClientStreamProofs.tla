------------------------- MODULE ClientStreamProofs -------------------------
(* Proofs about ClientStream, for every set of connections, log readers,   *)
(* device states and events.                                               *)
EXTENDS ClientStream, TLAPS

USE NoConnAssumption, ReadersAssumption
USE DEF session, stream, locks, report, logs, vars, Goto, Wants, SGoto, Socks,
  Fixed, Nobody, Writers, Threads, NoWrite

LEMMA BlameType ==
  ASSUME TypeOK, NEW S, NEW why \in {"lag", "install", "handover"}, Blame(S, why)
  PROVE  blame' \in [Conns -> SUBSET {"lag", "install", "handover"}]
BY DEF TypeOK, Blame

(* A write leaves the stream and its history well-typed, whatever comes of *)
(* it.                                                                     *)
LEMMA SentType ==
  ASSUME TypeOK, NEW t \in Writers, NEW c \in Socks,
         NEW what \in Writers \cup {"ready", "broken"},
         Sent(t, c, what) \/ Failed(c)
  PROVE  /\ due' \in [Conns -> Writers \cup {"ready", "broken"}]
         /\ blame' \in [Conns -> SUBSET {"lag", "install", "handover"}]
<1>1. due' \in [Conns -> Writers \cup {"ready", "broken"}]
  BY DEF TypeOK, Sent, Failed, Lands
<1>2. blame' \in [Conns -> SUBSET {"lag", "install", "handover"}]
  BY BlameType DEF TypeOK, Sent, Failed
<1> QED  BY <1>1, <1>2

LEMMA WriteType ==
  ASSUME TypeOK, NEW t \in Writers, Write(t)
  PROVE  TypeOK'
<1> USE DEF TypeOK, Points
<1>1. CASE Acquire(t)
  <2>1. blame' \in [Conns -> SUBSET {"lag", "install", "handover"}]
    BY <1>1, BlameType DEF Acquire, TakeOut
  <2> QED  BY <1>1, <2>1 DEF Acquire, TakeOut
<1>2. CASE Call(t)
  BY <1>2 DEF Call
<1>3. CASE AddHeader(t)
  BY <1>3 DEF AddHeader
<1>4. CASE Flush(t)
  <2>1. AfterHeaders(t, arg[t], sendIdx) \in Writers \cup {"ready", "broken"}
    BY DEF AfterHeaders
  <2>2. /\ due' \in [Conns -> Writers \cup {"ready", "broken"}]
        /\ blame' \in [Conns -> SUBSET {"lag", "install", "handover"}]
    BY <1>4, <2>1, SentType DEF Flush
  <2> QED  BY <1>4, <2>2 DEF Flush
<1>5. CASE Head(t)
  <2>1. AfterHeaders(t, sock, 1) \in Writers \cup {"ready", "broken"}
    BY DEF AfterHeaders
  <2>2. /\ due' \in [Conns -> Writers \cup {"ready", "broken"}]
        /\ blame' \in [Conns -> SUBSET {"lag", "install", "handover"}]
    BY <1>5, <2>1, SentType DEF Head
  <2>3. told' \in [Conns -> SUBSET Status]
    BY <1>5 DEF Head
  <2> QED  BY <1>5, <2>2, <2>3 DEF Head
<1>6. CASE Body(t)
  <2> DEFINE c == IF kind[t] \in Buffered THEN arg[t] ELSE sock
  <2>1. AfterBody(t, c) \in Writers \cup {"ready", "broken"} /\ c \in Socks
    BY DEF AfterBody
  <2>2. /\ due' \in [Conns -> Writers \cup {"ready", "broken"}]
        /\ blame' \in [Conns -> SUBSET {"lag", "install", "handover"}]
    BY <1>6, <2>1, SentType DEF Body
  <2> QED  BY <1>6, <2>2 DEF Body
<1>7. CASE Release(t)
  <2>1. pc' \in [Threads -> Points]
    BY <1>7 DEF Release, Resume, Return, Kinds
  <2>2. kind' \in [Writers -> Kinds]
    BY <1>7 DEF Release, Resume, Return, Kinds
  <2> QED  BY <1>7, <2>1, <2>2 DEF Release, Resume, Return, Kinds
<1> QED  BY <1>1, <1>2, <1>3, <1>4, <1>5, <1>6, <1>7 DEF Write

LEMMA ScreenType ==
  ASSUME TypeOK, Screen \/ (\E t \in Writers : OnUpdateComplete(t))
  PROVE  TypeOK'
<1> USE DEF TypeOK, Points, Kinds, Single, Pair, Buffered
<1>1. CASE FrameArrives
  BY <1>1 DEF FrameArrives
<1>2. CASE ReportTest
  BY <1>2 DEF ReportTest
<1>3. CASE ReportClear
  BY <1>3, ZenonT(40) DEF ReportClear
<1>4. CASE ReportBuild
  <2>1. pc' \in [Threads -> Points]
    BY <1>4 DEF ReportBuild
  <2>2. kind' \in [Writers -> Kinds]
    BY <1>4 DEF ReportBuild
  <2> QED  BY <1>4, <2>1, <2>2 DEF ReportBuild
<1>5. CASE FrameLock
  <2>1. pc' \in [Threads -> Points]
    BY <1>5, ZenonT(40) DEF FrameLock
  <2>2. fbLock' \in Writers \cup {Nobody}
    BY <1>5 DEF FrameLock
  <2> QED  BY <1>5, <2>1, <2>2 DEF FrameLock
<1>6. CASE FrameStore
  <2>1. pc' \in [Threads -> Points]
    BY <1>6, ZenonT(40) DEF FrameStore
  <2>2. fbLock' \in Writers \cup {Nobody}
    BY <1>6 DEF FrameStore
  <2> QED  BY <1>6, <2>1, <2>2 DEF FrameStore
<1>7. CASE FileMessage
  <2>1. pc' \in [Threads -> Points]
    BY <1>7 DEF FileMessage
  <2>2. kind' \in [Writers -> Kinds]
    BY <1>7 DEF FileMessage
  <2> QED  BY <1>7, <2>1, <2>2 DEF FileMessage
<1>8. ASSUME NEW t \in Writers, Show(t)
      PROVE  TypeOK'
  BY <1>8 DEF Show
<1>9. ASSUME NEW t \in Writers, TakeBuffer(t)
      PROVE  TypeOK'
  <2>1. pc' \in [Threads -> Points]
    BY <1>9, ZenonT(40) DEF TakeBuffer
  <2>2. kind' \in [Writers -> Kinds]
    BY <1>9 DEF TakeBuffer
  <2> QED  BY <1>9, <2>1, <2>2 DEF TakeBuffer
<1>10. ASSUME NEW t \in Writers, Unlock(t)
       PROVE  TypeOK'
  BY <1>10 DEF Unlock
<1> QED
  BY <1>1, <1>2, <1>3, <1>4, <1>5, <1>6, <1>7, <1>8, <1>9, <1>10
  DEF Screen, OnUpdateComplete

LEMMA SessionType ==
  ASSUME TypeOK, Session \/ Exit \/ (\E c \in Conns : Accept(c) \/ HangUp(c))
  PROVE  TypeOK'
<1> USE DEF TypeOK, SesPoints, Points, Kinds, Single, Shutdown
<1>1. CASE Refuse
  <2>1. pc' \in [Threads -> Points]
    BY <1>1 DEF Refuse
  <2>2. kind' \in [Writers -> Kinds]
    BY <1>1 DEF Refuse
  <2> QED  BY <1>1, <2>1, <2>2 DEF Refuse
<1>2. CASE Refused
  BY <1>2, ZenonT(40) DEF Refused
<1>3. CASE Adopt
  BY <1>3, BlameType DEF Adopt, HandOver
<1>4. CASE Enter
  BY <1>4 DEF Enter
<1>5. CASE EnterReset
  BY <1>5, BlameType DEF EnterReset, HandOver
<1>6. CASE EnterFlag
  BY <1>6 DEF EnterFlag
<1>7. CASE Drop
  BY <1>7 DEF Drop
<1>8. CASE Forget
  BY <1>8 DEF Forget
<1>9. CASE Leave
  BY <1>9, ZenonT(40) DEF Leave
<1>10. CASE Exit
  <2>1. pipe' \in BOOLEAN
    BY <1>10 DEF Exit
  <2>2. connected' \in BOOLEAN /\ ses' \in SesPoints
    BY <1>10 DEF Exit
  <2> QED  BY <1>10, <2>1, <2>2 DEF Exit
<1>11. ASSUME NEW c \in Conns, Accept(c)
       PROVE  TypeOK'
  BY <1>11 DEF Accept
<1>12. ASSUME NEW c \in Conns, HangUp(c)
       PROVE  TypeOK'
  BY <1>12 DEF HangUp
<1> QED
  BY <1>1, <1>2, <1>3, <1>4, <1>5, <1>6, <1>7, <1>8, <1>9, <1>10, <1>11, <1>12
  DEF Session

LEMMA OtherType ==
  ASSUME TypeOK,
         \/ \E r \in Readers : Reader(r)
         \/ Requests \/ StatusChange \/ StatusFlag \/ Expire \/ Timer
         \/ Install \/ InstallResult \/ InstallRefused
  PROVE  TypeOK'
<1> USE DEF TypeOK, Points, Kinds, Single, Pair, Buffered, Shutdown
<1>1. ASSUME NEW r \in Readers, LogRead(r)
      PROVE  TypeOK'
  <2>1. pc' \in [Threads -> Points]
    BY <1>1 DEF LogRead
  <2> QED  BY <1>1, <2>1 DEF LogRead
<1>2. ASSUME NEW r \in Readers, LogReceive(r)
      PROVE  TypeOK'
  <2>1. pc' \in [Threads -> Points]
    BY <1>2, ZenonT(40) DEF LogReceive
  <2>2. kind' \in [Writers -> Kinds]
    BY <1>2 DEF LogReceive
  <2> QED  BY <1>2, <2>1, <2>2 DEF LogReceive
<1>3. CASE Ask
  <2>1. pc' \in [Threads -> Points]
    BY <1>3 DEF Ask
  <2>2. kind' \in [Writers -> Kinds]
    BY <1>3 DEF Ask
  <2> QED  BY <1>3, <2>1, <2>2 DEF Ask
<1>4. CASE AskScreen
  BY <1>4 DEF AskScreen
<1>5. CASE LogStop
  <2>1. pc' \in [Threads -> Points]
    BY <1>5, ZenonT(40) DEF LogStop
  <2>2. callback' \in BOOLEAN
    BY <1>5 DEF LogStop
  <2> QED  BY <1>5, <2>1, <2>2, ZenonT(40) DEF LogStop
<1>6. CASE LogStart
  <2>1. pc' \in [Threads -> Points]
    BY <1>6, ZenonT(40) DEF LogStart
  <2> QED  BY <1>6, <2>1, ZenonT(40) DEF LogStart
<1>7. CASE StatusChange
  BY <1>7 DEF StatusChange
<1>8. CASE StatusFlag
  BY <1>8 DEF StatusFlag
<1>9. CASE Expire
  <2>1. pc' \in [Threads -> Points]
    BY <1>9 DEF Expire
  <2>2. kind' \in [Writers -> Kinds]
    BY <1>9 DEF Expire
  <2> QED  BY <1>9, <2>1, <2>2, ZenonT(40) DEF Expire
<1>10. CASE ExpireClose
  BY <1>10 DEF ExpireClose
<1>11. CASE ExpireForget
  BY <1>11 DEF ExpireForget
<1>12. CASE Install
  BY <1>12 DEF Install
<1>13. CASE InstallResult
  <2>1. pc' \in [Threads -> Points]
    BY <1>13, ZenonT(40) DEF InstallResult
  <2>2. kind' \in [Writers -> Kinds]
    BY <1>13 DEF InstallResult
  <2> QED  BY <1>13, <2>1, <2>2 DEF InstallResult
<1>14. CASE InstallRefused
  <2>1. pc' \in [Threads -> Points]
    BY <1>14, ZenonT(40) DEF InstallRefused
  <2>2. kind' \in [Writers -> Kinds]
    BY <1>14 DEF InstallRefused
  <2> QED  BY <1>14, <2>1, <2>2 DEF InstallRefused
<1> QED
  BY <1>1, <1>2, <1>3, <1>4, <1>5, <1>6, <1>7, <1>8, <1>9, <1>10, <1>11, <1>12,
     <1>13, <1>14
  DEF Reader, Requests, Timer

LEMMA TypeInit ==
  Init => TypeOK
<1> SUFFICES ASSUME Init
             PROVE  TypeOK
  OBVIOUS
<1>1. /\ pc \in [Threads -> Points] /\ kind \in [Writers -> Kinds]
      /\ arg \in [Writers -> Socks] /\ ses \in SesPoints
  BY DEF Init, Points, SesPoints, Kinds
<1>2. /\ link \in [Conns -> {"new", "open", "closed"}]
      /\ due \in [Conns -> Writers \cup {"ready", "broken"}]
      /\ blame \in [Conns -> SUBSET {"lag", "install", "handover"}]
      /\ told \in [Conns -> SUBSET Status]
  BY DEF Init
<1>3. /\ connected \in BOOLEAN /\ changed \in BOOLEAN /\ pipe \in BOOLEAN
      /\ callback \in BOOLEAN
  BY DEF Init
<1>4. /\ sendIdx \in 0 .. 2
      /\ sock \in Socks /\ me \in Socks
      /\ outLock \in Writers \cup {Nobody} /\ fbLock \in Writers \cup {Nobody}
      /\ status \in Status /\ stat \in Status
  BY DEF Init
<1> QED  BY <1>1, <1>2, <1>3, <1>4 DEF TypeOK

LEMMA TypeStep ==
  TypeOK /\ [Next]_vars => TypeOK'
<1> SUFFICES ASSUME TypeOK, [Next]_vars
             PROVE  TypeOK'
  OBVIOUS
<1>1. CASE Next
  BY <1>1, WriteType, ScreenType, SessionType, OtherType DEF Next
<1>2. CASE UNCHANGED vars
  BY <1>2 DEF TypeOK
<1> QED  BY <1>1, <1>2

(* Every variable keeps its type, whatever the connections, log readers,   *)
(* device states and events.                                               *)
THEOREM Typing == Spec => []TypeOK
BY TypeInit, TypeStep, PTL DEF Spec


-----------------------------------------------------------------------------
(* What holds in every state: the parts of the inductive invariant.        *)

(* A message is being written, between the acquisition of the mutex and    *)
(* its release.                                                            *)
Inside == {"call", "add", "flush", "head", "body", "release"}

(* What a thread's control point says about its message.                   *)
Shape(t) ==
  /\ kind[t] = "none" <=> pc[t] \notin Inside \cup {"want"}
  /\ pc[t] \in {"call", "add", "flush"} => kind[t] \in Buffered
  /\ pc[t] = "head" => kind[t] \in Single \cup Pair
  /\ pc[t] = "body" => kind[t] \in HasBody
  /\ arg[t] # NoConn =>
       pc[t] \in {"add", "flush", "body", "release"} /\ kind[t] \in Buffered
  /\ kind[t] = "state" => t = "fbc"
  /\ kind[t] \in Unlocked => pc[t] # "want"

Shapes ==
  /\ \A t \in Writers : Shape(t)
  /\ pc["app"] \in {"idle", "adb", "head", "body", "release"}
  /\ kind["app"] \in {"none", "result", "reason"}

(* Whoever writes owns the mutex, unless it is the result of an            *)
(* installation.                                                           *)
Mutex ==
  /\ \A t \in Writers :
       pc[t] \in Inside /\ kind[t] \notin Unlocked => outLock = t
  /\ outLock # Nobody =>
       kind[outLock] \notin Unlocked /\ pc[outLock] \in Inside

(* A thread that sends or stores a frame owns the frame buffer.            *)
Buffer ==
  \A t \in Writers :
    kind[t] \in {"screen", "blank"} \/ pc[t] \in {"unlock", "store"} => fbLock = t

SessionInv ==
  /\ sock \in {NoConn, me}
  /\ ses \in {"none", "talk", "refuse", "leave"} => sock = NoConn
  /\ ses = "none" <=> me = NoConn
  /\ me # NoConn => link[me] # "new"

(* Nothing has been written to a connection before it is the client's.     *)
NotYet(c) == link[c] = "new" \/ (c = me /\ ses \in {"talk", "refuse"})

Fresh ==
  \A c \in Conns :
    NotYet(c) => due[c] = "ready" /\ \A t \in Writers : arg[t] # c

(* How far the message is that t writes to c with c as its argument.       *)
Bound(t, c) ==
  /\ pc[t] = "add" => due[c] = "ready" /\ sendIdx = 0
  /\ pc[t] = "flush" => due[c] = "ready" /\ sendIdx = 1
  /\ pc[t] = "body" => due[c] = t

(* How far the message is that the owner t of the mutex writes while c is  *)
(* the client.                                                             *)
Holds(t, c) ==
  /\ pc[t] \in {"call", "head", "release"} => due[c] = "ready" /\ sendIdx = 0
  /\ pc[t] \in {"add", "flush"} => arg[t] = c
  /\ pc[t] = "body" =>
       due[c] = t /\ sendIdx = 0 /\ (kind[t] \in Buffered => arg[t] = c)

Current(c) ==
  IF Entering THEN outLock = Nobody /\ due[c] = "ready"
  ELSE IF outLock = Nobody THEN due[c] = "ready" /\ sendIdx = 0
  ELSE Holds(outLock, c)

StreamInv ==
  \A c \in Conns : blame[c] = {} =>
    /\ due[c] # "broken"
    /\ link[c] = "open" =>
         /\ \A t \in Writers : arg[t] = c => Bound(t, c)
         /\ sock = c => Current(c)

(* The state in a message on its way is the last one, or will be followed. *)
Told ==
  kind["fbc"] = "state" /\ pc["fbc"] \in {"want", "head"}
    /\ ~changed /\ pc["tdc"] = "idle" => stat = status

IInv ==
  /\ TypeOK /\ Shapes /\ Mutex /\ Buffer /\ SessionInv /\ Fresh /\ StreamInv
  /\ Told /\ StateKnown

-----------------------------------------------------------------------------
(* The threads.                                                            *)

Busy == Inside \cup {"want"}

(* A step in which nobody writes moves a thread outside its message, to    *)
(* the wait for the mutex, or straight to the result of an installation.   *)
Moves(t) ==
  \/ pc'[t] = pc[t] /\ kind'[t] = kind[t]
  \/ /\ t # "app" /\ pc[t] \notin Busy /\ pc'[t] = "want"
     /\ kind'[t] \in Kinds \ ({"none"} \cup Unlocked)
     /\ kind'[t] = "state" => t = "fbc" /\ pc[t] = "build"
  \/ /\ pc[t] \notin Busy /\ pc'[t] \notin Busy /\ kind'[t] = kind[t]
     /\ t = "app" => pc'[t] \in {"idle", "adb"}
  \/ pc[t] \notin Busy /\ pc'[t] = "head" /\ kind'[t] \in Unlocked

Quiet ==
  /\ UNCHANGED <<due, told, outLock, arg>>
  /\ \A t \in Writers : Moves(t)

LEMMA StepsAreQuiet ==
  ASSUME TypeOK, Shapes,
         \/ \E t \in Writers : OnUpdateComplete(t)
         \/ \E r \in Readers : Reader(r)
         \/ \E c \in Conns : Accept(c) \/ HangUp(c)
         \/ Screen \/ StatusChange \/ StatusFlag \/ Session \/ Requests \/ Exit
         \/ Expire \/ Timer \/ Install \/ InstallResult \/ InstallRefused
  PROVE  Quiet
<1> USE DEF TypeOK, Shapes, Shape, Quiet, Moves, Inside, Busy, Kinds, Single, Pair,
  Buffered, Unlocked
<1>1. ASSUME NEW t \in Writers, Show(t)
      PROVE  Quiet
  BY <1>1 DEF Show
<1>2. ASSUME NEW t \in Writers, TakeBuffer(t)
      PROVE  Quiet
  BY <1>2 DEF TakeBuffer
<1>3. ASSUME NEW t \in Writers, Unlock(t)
      PROVE  Quiet
  BY <1>3 DEF Unlock
<1>4. CASE FrameArrives
  BY <1>4 DEF FrameArrives
<1>5. CASE ReportTest
  BY <1>5 DEF ReportTest
<1>6. CASE ReportClear
  BY <1>6 DEF ReportClear
<1>7. CASE ReportBuild
  BY <1>7 DEF ReportBuild
<1>8. CASE FrameLock
  BY <1>8 DEF FrameLock
<1>9. CASE FrameStore
  BY <1>9 DEF FrameStore
<1>10. CASE FileMessage
  BY <1>10 DEF FileMessage
<1>11. CASE Refuse
  BY <1>11 DEF Refuse
<1>12. CASE Refused
  BY <1>12 DEF Refused
<1>13. CASE Adopt
  BY <1>13 DEF Adopt
<1>14. CASE Enter
  BY <1>14 DEF Enter
<1>15. CASE EnterReset
  BY <1>15 DEF EnterReset
<1>16. CASE EnterFlag
  BY <1>16 DEF EnterFlag
<1>17. CASE Drop
  BY <1>17 DEF Drop
<1>18. CASE Forget
  BY <1>18 DEF Forget
<1>19. CASE Leave
  BY <1>19 DEF Leave
<1>20. CASE Exit
  BY <1>20 DEF Exit
<1>21. ASSUME NEW c \in Conns, Accept(c)
       PROVE  Quiet
  BY <1>21 DEF Accept
<1>22. ASSUME NEW c \in Conns, HangUp(c)
       PROVE  Quiet
  BY <1>22 DEF HangUp
<1>23. ASSUME NEW r \in Readers, LogRead(r)
       PROVE  Quiet
  BY <1>23 DEF LogRead
<1>24. ASSUME NEW r \in Readers, LogReceive(r)
       PROVE  Quiet
  BY <1>24 DEF LogReceive
<1>25. CASE Ask
  BY <1>25 DEF Ask
<1>26. CASE AskScreen
  BY <1>26 DEF AskScreen
<1>27. CASE LogStop
  BY <1>27 DEF LogStop
<1>28. CASE LogStart
  BY <1>28 DEF LogStart
<1>29. CASE StatusChange
  BY <1>29 DEF StatusChange
<1>30. CASE StatusFlag
  BY <1>30 DEF StatusFlag
<1>31. CASE Expire
  BY <1>31 DEF Expire
<1>32. CASE ExpireClose
  BY <1>32 DEF ExpireClose
<1>33. CASE ExpireForget
  BY <1>33 DEF ExpireForget
<1>34. CASE Install
  BY <1>34 DEF Install
<1>35. CASE InstallResult
  BY <1>35 DEF InstallResult
<1>36. CASE InstallRefused
  BY <1>36 DEF InstallRefused
<1> QED
  BY <1>1, <1>2, <1>3, <1>4, <1>5, <1>6, <1>7, <1>8, <1>9, <1>10, <1>11,
     <1>12, <1>13, <1>14, <1>15, <1>16, <1>17, <1>18, <1>19, <1>20, <1>21,
     <1>22, <1>23, <1>24, <1>25, <1>26, <1>27, <1>28, <1>29, <1>30, <1>31,
     <1>32, <1>33, <1>34, <1>35, <1>36
  DEF OnUpdateComplete, Screen, Session, Reader, Requests, Timer

LEMMA QuietShapes ==
  ASSUME TypeOK, Shapes, Mutex, Quiet
  PROVE  Shapes' /\ Mutex'
<1> USE DEF TypeOK, Shapes, Shape, Mutex, Quiet, Moves, Inside, Busy, Kinds, Single, Pair,
  Buffered, Unlocked, HasBody
<1>1. \A t \in Writers : Shape(t)'
  OBVIOUS
<1>2. (pc["app"] \in {"idle", "adb", "head", "body", "release"})'
  OBVIOUS
<1>3. (kind["app"] \in {"none", "result", "reason"})'
  OBVIOUS
<1>4. Mutex'
  OBVIOUS
<1> QED  BY <1>1, <1>2, <1>3, <1>4

LEMMA WriteShapes ==
  ASSUME TypeOK, Shapes, Mutex, NEW t \in Writers, Write(t)
  PROVE  Shapes' /\ Mutex'
<1> USE DEF TypeOK, Shapes, Shape, Mutex, Inside, Kinds, Single, Pair, Buffered, Unlocked, HasBody
<1>1. CASE Acquire(t)
  <2>1. \A u \in Writers : Shape(u)'
    BY <1>1 DEF Acquire, TakeOut
  <2>2. (/\ pc["app"] \in {"idle", "adb", "head", "body", "release"}
         /\ kind["app"] \in {"none", "result", "reason"})'
    BY <1>1 DEF Acquire, TakeOut
  <2>3. Mutex'
    BY <1>1 DEF Acquire, TakeOut
  <2> QED  BY <2>1, <2>2, <2>3
<1>2. CASE Call(t)
  <2>1. \A u \in Writers : Shape(u)'
    BY <1>2 DEF Call
  <2>2. (/\ pc["app"] \in {"idle", "adb", "head", "body", "release"}
         /\ kind["app"] \in {"none", "result", "reason"})'
    BY <1>2 DEF Call
  <2>3. Mutex'
    BY <1>2 DEF Call
  <2> QED  BY <2>1, <2>2, <2>3
<1>3. CASE AddHeader(t)
  <2>1. \A u \in Writers : Shape(u)'
    BY <1>3 DEF AddHeader
  <2>2. (/\ pc["app"] \in {"idle", "adb", "head", "body", "release"}
         /\ kind["app"] \in {"none", "result", "reason"})'
    BY <1>3 DEF AddHeader
  <2>3. Mutex'
    BY <1>3 DEF AddHeader
  <2> QED  BY <2>1, <2>2, <2>3
<1>4. CASE Flush(t)
  <2>1. \A u \in Writers : Shape(u)'
    BY <1>4 DEF Flush
  <2>2. (/\ pc["app"] \in {"idle", "adb", "head", "body", "release"}
         /\ kind["app"] \in {"none", "result", "reason"})'
    BY <1>4 DEF Flush
  <2>3. Mutex'
    BY <1>4 DEF Flush
  <2> QED  BY <2>1, <2>2, <2>3
<1>5. CASE Head(t)
  <2>1. \A u \in Writers : Shape(u)'
    BY <1>5 DEF Head
  <2>2. (/\ pc["app"] \in {"idle", "adb", "head", "body", "release"}
         /\ kind["app"] \in {"none", "result", "reason"})'
    BY <1>5 DEF Head
  <2>3. Mutex'
    BY <1>5 DEF Head
  <2> QED  BY <2>1, <2>2, <2>3
<1>6. CASE Body(t)
  <2>1. \A u \in Writers : Shape(u)'
    BY <1>6 DEF Body
  <2>2. (/\ pc["app"] \in {"idle", "adb", "head", "body", "release"}
         /\ kind["app"] \in {"none", "result", "reason"})'
    BY <1>6 DEF Body
  <2>3. Mutex'
    BY <1>6 DEF Body
  <2> QED  BY <2>1, <2>2, <2>3
<1>7. CASE Release(t)
  <2>1. \A u \in Writers : Shape(u)'
    BY <1>7 DEF Release, Return, Resume
  <2>2. (/\ pc["app"] \in {"idle", "adb", "head", "body", "release"}
         /\ kind["app"] \in {"none", "result", "reason"})'
    BY <1>7 DEF Release, Return, Resume
  <2>3. Mutex'
    BY <1>7 DEF Release, Return, Resume
  <2> QED  BY <2>1, <2>2, <2>3
<1> QED  BY <1>1, <1>2, <1>3, <1>4, <1>5, <1>6, <1>7 DEF Write

-----------------------------------------------------------------------------
(* The frame buffer.                                                       *)

Uses(t) == kind[t] \in {"screen", "blank"} \/ pc[t] \in {"unlock", "store"}

LEMMA BufferStep ==
  ASSUME TypeOK, Shapes, Buffer, Next
  PROVE  Buffer'
<1> SUFFICES ASSUME NEW u \in Writers, Uses(u)'
             PROVE  fbLock' = u
  BY DEF Buffer, Uses
<1> USE DEF TypeOK, Shapes, Shape, Buffer, Uses, Kinds, Single, Pair, Buffered, Unlocked, Inside
<1>1. ASSUME NEW t \in Writers, Acquire(t)
      PROVE  fbLock' = u
  BY <1>1 DEF Acquire, TakeOut
<1>2. ASSUME NEW t \in Writers, Call(t)
      PROVE  fbLock' = u
  BY <1>2 DEF Call
<1>3. ASSUME NEW t \in Writers, AddHeader(t)
      PROVE  fbLock' = u
  BY <1>3 DEF AddHeader
<1>4. ASSUME NEW t \in Writers, Flush(t)
      PROVE  fbLock' = u
  BY <1>4 DEF Flush
<1>5. ASSUME NEW t \in Writers, Head(t)
      PROVE  fbLock' = u
  BY <1>5 DEF Head
<1>6. ASSUME NEW t \in Writers, Body(t)
      PROVE  fbLock' = u
  BY <1>6 DEF Body
<1>7. ASSUME NEW t \in Writers, Release(t)
      PROVE  fbLock' = u
  BY <1>7 DEF Release, Return, Resume
<1>8. ASSUME NEW t \in Writers, Show(t)
      PROVE  fbLock' = u
  BY <1>8 DEF Show
<1>9. ASSUME NEW t \in Writers, TakeBuffer(t)
      PROVE  fbLock' = u
  BY <1>9 DEF TakeBuffer
<1>10. ASSUME NEW t \in Writers, Unlock(t)
       PROVE  fbLock' = u
  BY <1>10 DEF Unlock
<1>11. CASE FrameArrives
  BY <1>11 DEF FrameArrives
<1>12. CASE ReportTest
  BY <1>12 DEF ReportTest
<1>13. CASE ReportClear
  BY <1>13 DEF ReportClear
<1>14. CASE ReportBuild
  BY <1>14 DEF ReportBuild
<1>15. CASE FrameLock
  BY <1>15 DEF FrameLock
<1>16. CASE FrameStore
  BY <1>16 DEF FrameStore
<1>17. CASE FileMessage
  BY <1>17 DEF FileMessage
<1>18. CASE Refuse
  BY <1>18 DEF Refuse
<1>19. CASE Refused
  BY <1>19 DEF Refused
<1>20. CASE Adopt
  BY <1>20 DEF Adopt
<1>21. CASE Enter
  BY <1>21 DEF Enter
<1>22. CASE EnterReset
  BY <1>22 DEF EnterReset
<1>23. CASE EnterFlag
  BY <1>23 DEF EnterFlag
<1>24. CASE Drop
  BY <1>24 DEF Drop
<1>25. CASE Forget
  BY <1>25 DEF Forget
<1>26. CASE Leave
  BY <1>26 DEF Leave
<1>27. CASE Exit
  BY <1>27 DEF Exit
<1>28. ASSUME NEW c \in Conns, Accept(c)
       PROVE  fbLock' = u
  BY <1>28 DEF Accept
<1>29. ASSUME NEW c \in Conns, HangUp(c)
       PROVE  fbLock' = u
  BY <1>29 DEF HangUp
<1>30. ASSUME NEW r \in Readers, LogRead(r)
       PROVE  fbLock' = u
  BY <1>30 DEF LogRead
<1>31. ASSUME NEW r \in Readers, LogReceive(r)
       PROVE  fbLock' = u
  BY <1>31 DEF LogReceive
<1>32. CASE Ask
  BY <1>32 DEF Ask
<1>33. CASE AskScreen
  BY <1>33 DEF AskScreen
<1>34. CASE LogStop
  BY <1>34 DEF LogStop
<1>35. CASE LogStart
  BY <1>35 DEF LogStart
<1>36. CASE StatusChange
  BY <1>36 DEF StatusChange
<1>37. CASE StatusFlag
  BY <1>37 DEF StatusFlag
<1>38. CASE Expire
  BY <1>38 DEF Expire
<1>39. CASE ExpireClose
  BY <1>39 DEF ExpireClose
<1>40. CASE ExpireForget
  BY <1>40 DEF ExpireForget
<1>41. CASE Install
  BY <1>41 DEF Install
<1>42. CASE InstallResult
  BY <1>42 DEF InstallResult
<1>43. CASE InstallRefused
  BY <1>43 DEF InstallRefused
<1> QED
  BY <1>1, <1>2, <1>3, <1>4, <1>5, <1>6, <1>7, <1>8, <1>9, <1>10, <1>11,
     <1>12, <1>13, <1>14, <1>15, <1>16, <1>17, <1>18, <1>19, <1>20, <1>21,
     <1>22, <1>23, <1>24, <1>25, <1>26, <1>27, <1>28, <1>29, <1>30, <1>31,
     <1>32, <1>33, <1>34, <1>35, <1>36, <1>37, <1>38, <1>39, <1>40, <1>41,
     <1>42, <1>43
  DEF Next, Write, OnUpdateComplete, Screen, Session, Reader, Requests, Timer

-----------------------------------------------------------------------------
(* The session.                                                            *)

LEMMA SessionStep ==
  ASSUME TypeOK, SessionInv, Next
  PROVE  SessionInv'
<1> USE DEF TypeOK, SessionInv, SesPoints
<1>1. CASE Refuse
  BY <1>1 DEF Refuse, Shutdown
<1>2. CASE Refused
  BY <1>2 DEF Refused, Shutdown
<1>3. CASE Adopt
  BY <1>3 DEF Adopt, Shutdown
<1>4. CASE Enter
  BY <1>4 DEF Enter, Shutdown
<1>5. CASE EnterReset
  BY <1>5 DEF EnterReset, Shutdown
<1>6. CASE EnterFlag
  BY <1>6 DEF EnterFlag, Shutdown
<1>7. CASE Drop
  BY <1>7 DEF Drop, Shutdown
<1>8. CASE Forget
  BY <1>8 DEF Forget, Shutdown
<1>9. CASE Leave
  BY <1>9 DEF Leave, Shutdown
<1>10. CASE Exit
  BY <1>10 DEF Exit, Shutdown
<1>11. ASSUME NEW c \in Conns, Accept(c)
       PROVE  SessionInv'
  BY <1>11 DEF Accept, Shutdown
<1>12. ASSUME NEW c \in Conns, HangUp(c)
       PROVE  SessionInv'
  BY <1>12 DEF HangUp, Shutdown
<1>13. CASE ExpireClose
  BY <1>13 DEF ExpireClose, Shutdown
<1>14. CASE ExpireForget
  BY <1>14 DEF ExpireForget, Shutdown
<1>15. CASE UNCHANGED <<sock, link, me, ses>>
  BY <1>15
<1> QED
  BY <1>1, <1>2, <1>3, <1>4, <1>5, <1>6, <1>7, <1>8, <1>9, <1>10, <1>11,
     <1>12, <1>13, <1>14, <1>15, Zenon
  DEF Next, Write, OnUpdateComplete, Screen, Session, Reader, Requests, Timer,
     Acquire, Call, AddHeader, Flush, Head, Body, Release, Show, TakeBuffer,
     Unlock, FrameArrives, ReportTest, ReportClear, ReportBuild, FrameLock,
     FrameStore, FileMessage, LogRead, LogReceive, Ask, AskScreen, LogStop,
     LogStart, StatusChange, StatusFlag, Expire, Install, InstallResult,
     InstallRefused

-----------------------------------------------------------------------------
(* The device's state.                                                     *)

LEMMA ToldStep ==
  ASSUME TypeOK, Shapes, Told, Next
  PROVE  Told'
<1> USE DEF TypeOK, Shapes, Shape, Told, Kinds, Single, Pair, Buffered, Unlocked, Inside
<1>1. ASSUME NEW t \in Writers, Acquire(t)
      PROVE  Told'
  BY <1>1 DEF Acquire, TakeOut
<1>2. ASSUME NEW t \in Writers, Call(t)
      PROVE  Told'
  BY <1>2 DEF Call
<1>3. ASSUME NEW t \in Writers, AddHeader(t)
      PROVE  Told'
  BY <1>3 DEF AddHeader
<1>4. ASSUME NEW t \in Writers, Flush(t)
      PROVE  Told'
  BY <1>4 DEF Flush
<1>5. ASSUME NEW t \in Writers, Head(t)
      PROVE  Told'
  BY <1>5 DEF Head
<1>6. ASSUME NEW t \in Writers, Body(t)
      PROVE  Told'
  BY <1>6 DEF Body
<1>7. ASSUME NEW t \in Writers, Release(t)
      PROVE  Told'
  BY <1>7 DEF Release, Return, Resume
<1>8. ASSUME NEW t \in Writers, Show(t)
      PROVE  Told'
  BY <1>8 DEF Show
<1>9. ASSUME NEW t \in Writers, TakeBuffer(t)
      PROVE  Told'
  BY <1>9 DEF TakeBuffer
<1>10. ASSUME NEW t \in Writers, Unlock(t)
       PROVE  Told'
  BY <1>10 DEF Unlock
<1>11. CASE FrameArrives
  BY <1>11 DEF FrameArrives
<1>12. CASE ReportTest
  BY <1>12 DEF ReportTest
<1>13. CASE ReportClear
  BY <1>13 DEF ReportClear
<1>14. CASE ReportBuild
  BY <1>14 DEF ReportBuild
<1>15. CASE FrameLock
  BY <1>15 DEF FrameLock
<1>16. CASE FrameStore
  BY <1>16 DEF FrameStore
<1>17. CASE FileMessage
  BY <1>17 DEF FileMessage
<1>18. CASE Refuse
  BY <1>18 DEF Refuse
<1>19. CASE Refused
  BY <1>19 DEF Refused
<1>20. CASE Adopt
  BY <1>20 DEF Adopt
<1>21. CASE Enter
  BY <1>21 DEF Enter
<1>22. CASE EnterReset
  BY <1>22 DEF EnterReset
<1>23. CASE EnterFlag
  BY <1>23 DEF EnterFlag
<1>24. CASE Drop
  BY <1>24 DEF Drop
<1>25. CASE Forget
  BY <1>25 DEF Forget
<1>26. CASE Leave
  BY <1>26 DEF Leave
<1>27. CASE Exit
  BY <1>27 DEF Exit
<1>28. ASSUME NEW c \in Conns, Accept(c)
       PROVE  Told'
  BY <1>28 DEF Accept
<1>29. ASSUME NEW c \in Conns, HangUp(c)
       PROVE  Told'
  BY <1>29 DEF HangUp
<1>30. ASSUME NEW r \in Readers, LogRead(r)
       PROVE  Told'
  BY <1>30 DEF LogRead
<1>31. ASSUME NEW r \in Readers, LogReceive(r)
       PROVE  Told'
  BY <1>31 DEF LogReceive
<1>32. CASE Ask
  BY <1>32 DEF Ask
<1>33. CASE AskScreen
  BY <1>33 DEF AskScreen
<1>34. CASE LogStop
  BY <1>34 DEF LogStop
<1>35. CASE LogStart
  BY <1>35 DEF LogStart
<1>36. CASE StatusChange
  BY <1>36 DEF StatusChange
<1>37. CASE StatusFlag
  BY <1>37 DEF StatusFlag
<1>38. CASE Expire
  BY <1>38 DEF Expire
<1>39. CASE ExpireClose
  BY <1>39 DEF ExpireClose
<1>40. CASE ExpireForget
  BY <1>40 DEF ExpireForget
<1>41. CASE Install
  BY <1>41 DEF Install
<1>42. CASE InstallResult
  BY <1>42 DEF InstallResult
<1>43. CASE InstallRefused
  BY <1>43 DEF InstallRefused
<1> QED
  BY <1>1, <1>2, <1>3, <1>4, <1>5, <1>6, <1>7, <1>8, <1>9, <1>10, <1>11,
     <1>12, <1>13, <1>14, <1>15, <1>16, <1>17, <1>18, <1>19, <1>20, <1>21,
     <1>22, <1>23, <1>24, <1>25, <1>26, <1>27, <1>28, <1>29, <1>30, <1>31,
     <1>32, <1>33, <1>34, <1>35, <1>36, <1>37, <1>38, <1>39, <1>40, <1>41,
     <1>42, <1>43
  DEF Next, Write, OnUpdateComplete, Screen, Session, Reader, Requests, Timer

(* Only the screen thread's message settles something.                     *)
LEMMA KnownStep ==
  ASSUME TypeOK, Shapes, SessionInv, Told, StateKnown, Next
  PROVE  StateKnown'
<1> USE DEF TypeOK, Shapes, Shape, Told, Kinds, Single, Pair, Buffered, Unlocked, Inside,
  SessionInv, StateKnown, Settled, Reporting, Shutdown
<1>1. ASSUME NEW t \in Writers, Acquire(t)
      PROVE  StateKnown'
  BY <1>1 DEF Acquire, TakeOut, Blame
<1>2. ASSUME NEW t \in Writers, Call(t)
      PROVE  StateKnown'
  BY <1>2 DEF Call
<1>3. ASSUME NEW t \in Writers, AddHeader(t)
      PROVE  StateKnown'
  BY <1>3 DEF AddHeader
<1>4. ASSUME NEW t \in Writers, Flush(t)
      PROVE  StateKnown'
  BY <1>4 DEF Flush, Sent, Failed, Lands, Blame
<1>5. ASSUME NEW t \in Writers, Head(t)
      PROVE  StateKnown'
  BY <1>5 DEF Head, Sent, Failed, Lands, Blame
<1>6. ASSUME NEW t \in Writers, Body(t)
      PROVE  StateKnown'
  BY <1>6 DEF Body, Sent, Failed, Lands, Blame
<1>7. ASSUME NEW t \in Writers, Release(t)
      PROVE  StateKnown'
  BY <1>7 DEF Release, Return, Resume
<1>8. ASSUME NEW t \in Writers, Show(t)
      PROVE  StateKnown'
  BY <1>8 DEF Show
<1>9. ASSUME NEW t \in Writers, TakeBuffer(t)
      PROVE  StateKnown'
  BY <1>9 DEF TakeBuffer
<1>10. ASSUME NEW t \in Writers, Unlock(t)
       PROVE  StateKnown'
  BY <1>10 DEF Unlock
<1>11. CASE FrameArrives
  BY <1>11 DEF FrameArrives
<1>12. CASE ReportTest
  BY <1>12 DEF ReportTest
<1>13. CASE ReportClear
  BY <1>13 DEF ReportClear
<1>14. CASE ReportBuild
  BY <1>14 DEF ReportBuild
<1>15. CASE FrameLock
  BY <1>15 DEF FrameLock
<1>16. CASE FrameStore
  BY <1>16 DEF FrameStore
<1>17. CASE FileMessage
  BY <1>17 DEF FileMessage
<1>18. CASE Refuse
  BY <1>18 DEF Refuse
<1>19. CASE Refused
  BY <1>19 DEF Refused
<1>20. CASE Adopt
  BY <1>20 DEF Adopt, HandOver, Blame
<1>21. CASE Enter
  BY <1>21 DEF Enter
<1>22. CASE EnterReset
  BY <1>22 DEF EnterReset, HandOver, Blame
<1>23. CASE EnterFlag
  BY <1>23 DEF EnterFlag
<1>24. CASE Drop
  BY <1>24 DEF Drop
<1>25. CASE Forget
  BY <1>25 DEF Forget
<1>26. CASE Leave
  BY <1>26 DEF Leave
<1>27. CASE Exit
  BY <1>27 DEF Exit
<1>28. ASSUME NEW c \in Conns, Accept(c)
       PROVE  StateKnown'
  BY <1>28 DEF Accept
<1>29. ASSUME NEW c \in Conns, HangUp(c)
       PROVE  StateKnown'
  BY <1>29 DEF HangUp
<1>30. ASSUME NEW r \in Readers, LogRead(r)
       PROVE  StateKnown'
  BY <1>30 DEF LogRead
<1>31. ASSUME NEW r \in Readers, LogReceive(r)
       PROVE  StateKnown'
  BY <1>31 DEF LogReceive
<1>32. CASE Ask
  BY <1>32 DEF Ask
<1>33. CASE AskScreen
  BY <1>33 DEF AskScreen
<1>34. CASE LogStop
  BY <1>34 DEF LogStop
<1>35. CASE LogStart
  BY <1>35 DEF LogStart
<1>36. CASE StatusChange
  BY <1>36 DEF StatusChange
<1>37. CASE StatusFlag
  BY <1>37 DEF StatusFlag
<1>38. CASE Expire
  BY <1>38 DEF Expire
<1>39. CASE ExpireClose
  BY <1>39 DEF ExpireClose
<1>40. CASE ExpireForget
  BY <1>40 DEF ExpireForget
<1>41. CASE Install
  BY <1>41 DEF Install
<1>42. CASE InstallResult
  BY <1>42 DEF InstallResult
<1>43. CASE InstallRefused
  BY <1>43 DEF InstallRefused
<1> QED
  BY <1>1, <1>2, <1>3, <1>4, <1>5, <1>6, <1>7, <1>8, <1>9, <1>10, <1>11,
     <1>12, <1>13, <1>14, <1>15, <1>16, <1>17, <1>18, <1>19, <1>20, <1>21,
     <1>22, <1>23, <1>24, <1>25, <1>26, <1>27, <1>28, <1>29, <1>30, <1>31,
     <1>32, <1>33, <1>34, <1>35, <1>36, <1>37, <1>38, <1>39, <1>40, <1>41,
     <1>42, <1>43
  DEF Next, Write, OnUpdateComplete, Screen, Session, Reader, Requests, Timer

-----------------------------------------------------------------------------
(* The stream.                                                             *)

LEMMA FreshStep ==
  ASSUME TypeOK, Shapes, SessionInv, Fresh, Next
  PROVE  Fresh'
<1> SUFFICES ASSUME NEW d \in Conns, NotYet(d)'
             PROVE  due'[d] = "ready" /\ \A u \in Writers : arg'[u] # d
  BY DEF Fresh
<1> USE DEF TypeOK, SessionInv, SesPoints, Fresh, NotYet, Shutdown
<1>1. ASSUME NEW t \in Writers, Acquire(t)
      PROVE  due'[d] = "ready" /\ \A u \in Writers : arg'[u] # d
  BY <1>1 DEF Acquire, TakeOut, Blame
<1>2. ASSUME NEW t \in Writers, Call(t)
      PROVE  due'[d] = "ready" /\ \A u \in Writers : arg'[u] # d
  BY <1>2 DEF Call
<1>3. ASSUME NEW t \in Writers, AddHeader(t)
      PROVE  due'[d] = "ready" /\ \A u \in Writers : arg'[u] # d
  BY <1>3 DEF AddHeader
<1>4. ASSUME NEW t \in Writers, Flush(t)
      PROVE  due'[d] = "ready" /\ \A u \in Writers : arg'[u] # d
  BY <1>4 DEF Flush, Sent, Failed, Lands
<1>5. ASSUME NEW t \in Writers, Head(t)
      PROVE  due'[d] = "ready" /\ \A u \in Writers : arg'[u] # d
  BY <1>5 DEF Head, Sent, Failed, Lands
<1>6. ASSUME NEW t \in Writers, Body(t)
      PROVE  due'[d] = "ready" /\ \A u \in Writers : arg'[u] # d
  BY <1>6 DEF Body, Sent, Failed, Lands
<1>7. ASSUME NEW t \in Writers, Release(t)
      PROVE  due'[d] = "ready" /\ \A u \in Writers : arg'[u] # d
  BY <1>7 DEF Release, Return, Resume
<1>8. ASSUME NEW t \in Writers, Show(t)
      PROVE  due'[d] = "ready" /\ \A u \in Writers : arg'[u] # d
  BY <1>8 DEF Show
<1>9. ASSUME NEW t \in Writers, TakeBuffer(t)
      PROVE  due'[d] = "ready" /\ \A u \in Writers : arg'[u] # d
  BY <1>9 DEF TakeBuffer
<1>10. ASSUME NEW t \in Writers, Unlock(t)
       PROVE  due'[d] = "ready" /\ \A u \in Writers : arg'[u] # d
  BY <1>10 DEF Unlock
<1>11. CASE FrameArrives
  BY <1>11 DEF FrameArrives
<1>12. CASE ReportTest
  BY <1>12 DEF ReportTest
<1>13. CASE ReportClear
  BY <1>13 DEF ReportClear
<1>14. CASE ReportBuild
  BY <1>14 DEF ReportBuild
<1>15. CASE FrameLock
  BY <1>15 DEF FrameLock
<1>16. CASE FrameStore
  BY <1>16 DEF FrameStore
<1>17. CASE FileMessage
  BY <1>17 DEF FileMessage
<1>18. CASE Refuse
  BY <1>18 DEF Refuse
<1>19. CASE Refused
  BY <1>19 DEF Refused
<1>20. CASE Adopt
  BY <1>20 DEF Adopt
<1>21. CASE Enter
  BY <1>21 DEF Enter
<1>22. CASE EnterReset
  BY <1>22 DEF EnterReset
<1>23. CASE EnterFlag
  BY <1>23 DEF EnterFlag
<1>24. CASE Drop
  BY <1>24 DEF Drop
<1>25. CASE Forget
  BY <1>25 DEF Forget
<1>26. CASE Leave
  BY <1>26 DEF Leave
<1>27. CASE Exit
  BY <1>27 DEF Exit
<1>28. ASSUME NEW c \in Conns, Accept(c)
       PROVE  due'[d] = "ready" /\ \A u \in Writers : arg'[u] # d
  BY <1>28 DEF Accept
<1>29. ASSUME NEW c \in Conns, HangUp(c)
       PROVE  due'[d] = "ready" /\ \A u \in Writers : arg'[u] # d
  BY <1>29 DEF HangUp
<1>30. ASSUME NEW r \in Readers, LogRead(r)
       PROVE  due'[d] = "ready" /\ \A u \in Writers : arg'[u] # d
  BY <1>30 DEF LogRead
<1>31. ASSUME NEW r \in Readers, LogReceive(r)
       PROVE  due'[d] = "ready" /\ \A u \in Writers : arg'[u] # d
  BY <1>31 DEF LogReceive
<1>32. CASE Ask
  BY <1>32 DEF Ask
<1>33. CASE AskScreen
  BY <1>33 DEF AskScreen
<1>34. CASE LogStop
  BY <1>34 DEF LogStop
<1>35. CASE LogStart
  BY <1>35 DEF LogStart
<1>36. CASE StatusChange
  BY <1>36 DEF StatusChange
<1>37. CASE StatusFlag
  BY <1>37 DEF StatusFlag
<1>38. CASE Expire
  BY <1>38 DEF Expire
<1>39. CASE ExpireClose
  BY <1>39 DEF ExpireClose
<1>40. CASE ExpireForget
  BY <1>40 DEF ExpireForget
<1>41. CASE Install
  BY <1>41 DEF Install
<1>42. CASE InstallResult
  BY <1>42 DEF InstallResult
<1>43. CASE InstallRefused
  BY <1>43 DEF InstallRefused
<1> QED
  BY <1>1, <1>2, <1>3, <1>4, <1>5, <1>6, <1>7, <1>8, <1>9, <1>10, <1>11,
     <1>12, <1>13, <1>14, <1>15, <1>16, <1>17, <1>18, <1>19, <1>20, <1>21,
     <1>22, <1>23, <1>24, <1>25, <1>26, <1>27, <1>28, <1>29, <1>30, <1>31,
     <1>32, <1>33, <1>34, <1>35, <1>36, <1>37, <1>38, <1>39, <1>40, <1>41,
     <1>42, <1>43
  DEF Next, Write, OnUpdateComplete, Screen, Session, Reader, Requests, Timer

(* The owner of the mutex writes alone, but for the result of an           *)
(* installation, which is written to no socket that was taken earlier.     *)
LEMMA Owner ==
  ASSUME TypeOK, Shapes, Mutex, NEW t \in Writers, kind[t] \notin Unlocked,
         pc[t] \in Inside
  PROVE  outLock = t /\ \A u \in Writers : u # t => arg[u] = NoConn
BY DEF TypeOK, Shapes, Shape, Mutex, Inside, Kinds, Single, Pair, Buffered, Unlocked

(* A write is blamed on nobody only if the stream stays what it is, or t,  *)
(* whose message is no result of an installation, has written to c.        *)
LEMMA FlushWritten ==
  ASSUME TypeOK, NEW t \in Writers, NEW d \in Conns, blame'[d] = {},
         Sent(t, arg[t], AfterHeaders(t, arg[t], sendIdx)) \/ Failed(arg[t])
  PROVE  /\ blame[d] = {}
         /\ d # arg[t] \/ link[d] # "open" => due'[d] = due[d]
         /\ d = arg[t] /\ link[d] = "open" =>
              due'[d] = AfterHeaders(t, arg[t], sendIdx)
<1>1. CASE Sent(t, arg[t], AfterHeaders(t, arg[t], sendIdx))
  BY <1>1 DEF Sent, Lands, Blame, TypeOK
<1>2. CASE ~Lands(arg[t]) /\ UNCHANGED <<due, blame>>
  BY <1>2 DEF Lands
<1>3. CASE /\ Lands(arg[t]) /\ Blame({arg[t]}, "lag")
           /\ due' \in {due, [due EXCEPT ![arg[t]] = "broken"]}
  <2>1. arg[t] # d /\ blame[d] = {}
    BY <1>3 DEF Blame, TypeOK
  <2> QED  BY <1>3, <2>1 DEF TypeOK
<1> QED  BY <1>1, <1>2, <1>3 DEF Failed

LEMMA HeadWritten ==
  ASSUME TypeOK, NEW t \in Writers, NEW d \in Conns, blame'[d] = {}, Head(t)
  PROVE  /\ blame[d] = {}
         /\ d # sock \/ link[d] # "open" => due'[d] = due[d]
         /\ d = sock /\ link[d] = "open" =>
              kind[t] \notin Unlocked /\ due'[d] = AfterHeaders(t, sock, 1)
<1>1. CASE Sent(t, sock, AfterHeaders(t, sock, 1))
  BY <1>1, SMTT(30) DEF Sent, Lands, Blame, TypeOK
<1>2. CASE ~Lands(sock) /\ UNCHANGED <<due, blame>>
  BY <1>2 DEF Lands
<1>3. CASE /\ Lands(sock) /\ Blame({sock}, "lag")
           /\ due' \in {due, [due EXCEPT ![sock] = "broken"]}
  <2>1. sock # d /\ blame[d] = {}
    BY <1>3 DEF Blame, TypeOK
  <2> QED  BY <1>3, <2>1 DEF TypeOK
<1> QED  BY <1>1, <1>2, <1>3 DEF Failed, Head

LEMMA BodyWritten ==
  ASSUME TypeOK, NEW t \in Writers, NEW d \in Conns, blame'[d] = {}, Body(t),
         NEW c, c = IF kind[t] \in Buffered THEN arg[t] ELSE sock
  PROVE  /\ blame[d] = {}
         /\ d # c \/ link[d] # "open" => due'[d] = due[d]
         /\ d = c /\ link[d] = "open" => kind[t] \notin Unlocked /\ due'[d] = AfterBody(t, c)
<1>1. CASE Sent(t, c, AfterBody(t, c))
  BY <1>1, SMTT(30) DEF Sent, Lands, Blame, TypeOK
<1>2. CASE ~Lands(c) /\ UNCHANGED <<due, blame>>
  BY <1>2 DEF Lands
<1>3. CASE /\ Lands(c) /\ Blame({c}, "lag")
           /\ due' \in {due, [due EXCEPT ![c] = "broken"]}
  <2>1. c # d /\ blame[d] = {}
    BY <1>3 DEF Blame, TypeOK
  <2> QED  BY <1>3, <2>1 DEF TypeOK
<1> QED  BY <1>1, <1>2, <1>3 DEF Failed, Body

LEMMA Names ==
  ASSUME NEW t \in Writers
  PROVE  t # "ready" /\ t # "broken" /\ t # Nobody
OBVIOUS

(* A handover blames the new client, if the mutex is owned meanwhile.      *)
LEMMA TakenQuietly ==
  ASSUME TypeOK, SessionInv, NEW t \in Writers, TakeOut(t), blame'[sock] = {},
         sock # NoConn
  PROVE  ~Entering
BY SMTT(30) DEF TakeOut, Blame, TypeOK, SessionInv

LEMMA HandedOver ==
  ASSUME TypeOK, SessionInv, NEW d \in Conns, HandOver, blame'[d] = {}
  PROVE  /\ blame[d] = {}
         /\ outLock # Nobody => d # me /\ arg[outLock] # d
BY SMTT(30) DEF HandOver, Blame, TypeOK, SessionInv

LEMMA StreamStep ==
  ASSUME TypeOK, Shapes, Mutex, SessionInv, Fresh, StreamInv, Next
  PROVE  StreamInv'
<1> DEFINE Good(d) ==
      /\ due[d] # "broken"
      /\ link[d] = "open" =>
           /\ \A u \in Writers : arg[u] = d => Bound(u, d)
           /\ sock = d => Current(d)
<1> SUFFICES ASSUME NEW d \in Conns, blame'[d] = {}
             PROVE  Good(d)'
  BY DEF StreamInv
<1>a. ASSUME NEW t \in Writers, Head(t)
      PROVE  /\ blame[d] = {}
             /\ d # sock \/ link[d] # "open" => due'[d] = due[d]
             /\ d = sock /\ link[d] = "open" =>
                  kind[t] \notin Unlocked /\ due'[d] = AfterHeaders(t, sock, 1)
  BY <1>a, HeadWritten
<1>b. ASSUME NEW t \in Writers, Body(t),
             NEW c, c = IF kind[t] \in Buffered THEN arg[t] ELSE sock
      PROVE  /\ blame[d] = {}
             /\ d # c \/ link[d] # "open" => due'[d] = due[d]
             /\ d = c /\ link[d] = "open" =>
                  kind[t] \notin Unlocked /\ due'[d] = AfterBody(t, c)
  BY <1>b, BodyWritten
<1> USE DEF TypeOK, SessionInv, SesPoints, Shapes, Shape, Mutex, Fresh, NotYet, Shutdown,
  StreamInv, Bound, Current, Holds, Entering, Inside, Kinds, Single, Pair, Buffered, Unlocked, HasBody
<1>1. ASSUME NEW t \in Writers, Acquire(t)
      PROVE  Good(d)'
  <2>1. /\ pc[t] = "want" /\ arg[t] = NoConn /\ blame[d] = {}
        /\ kind[t] \notin Unlocked
        /\ outLock = Nobody /\ outLock' = t /\ pc'[t] \in {"call", "head"}
    BY <1>1 DEF Acquire, TakeOut, Blame
  <2>2. ASSUME NEW u \in Writers, arg'[u] = d, link'[d] = "open"
        PROVE  Bound(u, d)'
    BY <1>1, <2>1, <2>2 DEF Acquire
  <2>3. ASSUME sock' = d, link'[d] = "open"
        PROVE  Current(d)'
    <3>1. ~Entering
      BY <1>1, <2>3, TakenQuietly, NoConnAssumption DEF Acquire
    <3>2. due[d] = "ready" /\ sendIdx = 0
      BY <1>1, <2>1, <2>3, <3>1 DEF Acquire
    <3> QED  BY <1>1, <2>1, <3>1, <3>2 DEF Acquire
  <2>4. due'[d] # "broken"
    BY <1>1, <2>1 DEF Acquire
  <2> QED  BY <2>2, <2>3, <2>4
<1>2. ASSUME NEW t \in Writers, Call(t)
      PROVE  Good(d)'
  BY <1>2 DEF Call
<1>3. ASSUME NEW t \in Writers, AddHeader(t)
      PROVE  Good(d)'
  BY <1>3 DEF AddHeader
<1>4. ASSUME NEW t \in Writers, Flush(t)
      PROVE  Good(d)'
  <2> DEFINE what == AfterHeaders(t, arg[t], sendIdx)
  <2>1. /\ pc[t] = "flush" /\ kind[t] \in Buffered /\ kind[t] \notin Unlocked
        /\ pc' = [pc EXCEPT ![t] = IF kind[t] \in HasBody THEN "body" ELSE "release"]
        /\ UNCHANGED <<session, outLock, kind, arg>>
    BY <1>4 DEF Flush
  <2>2. outLock = t /\ \A u \in Writers : u # t => arg[u] = NoConn
    <3>1. outLock = t
      BY <2>1
    <3>2. ASSUME NEW u \in Writers, arg[u] # NoConn
          PROVE  u = t
      <4>1. kind[u] \notin Unlocked /\ pc[u] \in {"add", "flush", "body", "release"}
        BY <3>2
      <4>2. outLock = u
        BY <4>1
      <4> QED  BY <3>1, <4>2
    <3> QED  BY <3>1, <3>2
  <2>3. CASE sendIdx = 0 /\ UNCHANGED <<sendIdx, due, blame>>
    BY <2>1, <2>2, <2>3
  <2>4. CASE sendIdx > 0 /\ ((Sent(t, arg[t], what) /\ sendIdx' = 0) \/ Failed(arg[t]))
    <3>1. Sent(t, arg[t], what) \/ Failed(arg[t])
      BY <2>4
    <3>2. /\ blame[d] = {}
          /\ d # arg[t] \/ link[d] # "open" => due'[d] = due[d]
          /\ d = arg[t] /\ link[d] = "open" => due'[d] = what
      BY <3>1, FlushWritten
    <3>3. CASE d = arg[t] /\ link[d] = "open"
      <4>1. due[d] = "ready" /\ sendIdx = 1
        BY <2>1, <3>2, <3>3
      <4>2. what = IF kind[t] \in HasBody THEN t ELSE "ready"
        BY <3>3, <4>1 DEF AfterHeaders
      <4>3. sendIdx' = 0
        BY <2>4, <3>2, <3>3, SMTT(30) DEF Failed, Lands, Blame
      <4> QED  BY <2>1, <2>2, <3>2, <3>3, <4>2, <4>3, Names
    <3>4. CASE d # arg[t] \/ link[d] # "open"
      BY <2>1, <2>2, <3>2, <3>4
    <3> QED  BY <3>3, <3>4
  <2> QED  BY <1>4, <2>3, <2>4 DEF Flush
<1>5. ASSUME NEW t \in Writers, Head(t)
      PROVE  Good(d)'
  <2> DEFINE what == AfterHeaders(t, sock, 1)
  <2>1. /\ pc[t] = "head" /\ kind[t] \in Single \cup Pair /\ arg[t] = NoConn
        /\ pc' = [pc EXCEPT ![t] = IF kind[t] \in Pair THEN "body" ELSE "release"]
        /\ UNCHANGED <<session, outLock, sendIdx, kind, arg>>
    BY <1>5 DEF Head
  <2>4. /\ blame[d] = {}
        /\ d # sock \/ link[d] # "open" => due'[d] = due[d]
        /\ d = sock /\ link[d] = "open" => kind[t] \notin Unlocked /\ due'[d] = what
    BY <1>5, <1>a
  <2>5. CASE d = sock /\ link[d] = "open"
    <3>1. outLock = t /\ \A u \in Writers : u # t => arg[u] = NoConn
      BY <2>1, <2>4, <2>5, Owner
    <3>2. due[d] = "ready" /\ sendIdx = 0 /\ ~Entering
      BY <2>1, <2>4, <2>5, <3>1, Names
    <3>3. what = IF kind[t] \in HasBody THEN t ELSE "ready"
      BY <2>5, <3>2 DEF AfterHeaders
    <3> QED  BY <2>1, <2>4, <2>5, <3>1, <3>2, <3>3, Names
  <2>6. CASE d # sock \/ link[d] # "open"
    BY <2>1, <2>4, <2>6
  <2> QED  BY <2>5, <2>6
<1>6. ASSUME NEW t \in Writers, Body(t)
      PROVE  Good(d)'
  <2> DEFINE c == IF kind[t] \in Buffered THEN arg[t] ELSE sock
  <2>1. /\ pc[t] = "body" /\ kind[t] \in HasBody
        /\ arg[t] # NoConn => kind[t] \in Buffered
        /\ pc' = [pc EXCEPT ![t] = "release"]
        /\ UNCHANGED <<session, outLock, sendIdx, kind, arg>>
    BY <1>6 DEF Body
  <2>4. /\ blame[d] = {}
        /\ d # c \/ link[d] # "open" => due'[d] = due[d]
        /\ d = c /\ link[d] = "open" => kind[t] \notin Unlocked /\ due'[d] = AfterBody(t, c)
    BY <1>6, <1>b
  <2>5. CASE d = c /\ link[d] = "open"
    <3>1. outLock = t /\ \A u \in Writers : u # t => arg[u] = NoConn
      BY <2>1, <2>4, <2>5, Owner
    <3>2. due[d] = t /\ (sock = d => sendIdx = 0 /\ ~Entering)
      BY <2>1, <2>4, <2>5, <3>1, Names
    <3>3. due'[d] = "ready"
      BY <2>4, <2>5, <3>2 DEF AfterBody
    <3> QED  BY <2>1, <2>4, <2>5, <3>1, <3>2, <3>3, Names
  <2>6. CASE d # c \/ link[d] # "open"
    BY <2>1, <2>4, <2>6, Names
  <2> QED  BY <2>5, <2>6
<1>7. ASSUME NEW t \in Writers, Release(t)
      PROVE  Good(d)'
  BY <1>7 DEF Release, Return, Resume
<1>8. ASSUME NEW t \in Writers, Show(t)
      PROVE  Good(d)'
  BY <1>8 DEF Show
<1>9. ASSUME NEW t \in Writers, TakeBuffer(t)
      PROVE  Good(d)'
  BY <1>9 DEF TakeBuffer
<1>10. ASSUME NEW t \in Writers, Unlock(t)
       PROVE  Good(d)'
  BY <1>10 DEF Unlock
<1>11. CASE FrameArrives
  BY <1>11 DEF FrameArrives
<1>12. CASE ReportTest
  BY <1>12 DEF ReportTest
<1>13. CASE ReportClear
  BY <1>13 DEF ReportClear
<1>14. CASE ReportBuild
  BY <1>14 DEF ReportBuild
<1>15. CASE FrameLock
  BY <1>15 DEF FrameLock
<1>16. CASE FrameStore
  BY <1>16 DEF FrameStore
<1>17. CASE FileMessage
  BY <1>17 DEF FileMessage
<1>18. CASE Refuse
  BY <1>18 DEF Refuse
<1>19. CASE Refused
  BY <1>19 DEF Refused
<1>20. CASE Adopt
  <2>1. blame[d] = {} /\ (d = me => outLock = Nobody)
    BY <1>20, HandedOver DEF Adopt
  <2> QED  BY <1>20, <2>1 DEF Adopt
<1>21. CASE Enter
  BY <1>21 DEF Enter
<1>22. CASE EnterReset
  <2>1. /\ blame[d] = {}
        /\ outLock # Nobody => d # me /\ arg[outLock] # d
    BY <1>22, HandedOver DEF EnterReset
  <2>2. \A u \in Writers : arg[u] # NoConn => outLock = u
    OBVIOUS
  <2>3. \A u \in Writers : arg[u] # d
    BY <2>1, <2>2, Names, NoConnAssumption
  <2>4. UNCHANGED <<pc, kind, arg, outLock, due, sock, link, me>>
    BY <1>22 DEF EnterReset
  <2>5. /\ ses = "reset" /\ ses' = "flag" /\ sendIdx' = 0
    BY <1>22 DEF EnterReset
  <2>6. due[d] # "broken"
    BY <2>1
  <2>7. ASSUME sock = d, link[d] = "open"
        PROVE  outLock = Nobody /\ due[d] = "ready"
    BY <2>1, <2>5, <2>7, NoConnAssumption
  <2> QED  BY <2>3, <2>4, <2>5, <2>6, <2>7
<1>23. CASE EnterFlag
  BY <1>23 DEF EnterFlag
<1>24. CASE Drop
  BY <1>24 DEF Drop
<1>25. CASE Forget
  BY <1>25 DEF Forget
<1>26. CASE Leave
  BY <1>26 DEF Leave
<1>27. CASE Exit
  BY <1>27 DEF Exit
<1>28. ASSUME NEW c \in Conns, Accept(c)
       PROVE  Good(d)'
  BY <1>28 DEF Accept
<1>29. ASSUME NEW c \in Conns, HangUp(c)
       PROVE  Good(d)'
  BY <1>29 DEF HangUp
<1>30. ASSUME NEW r \in Readers, LogRead(r)
       PROVE  Good(d)'
  BY <1>30 DEF LogRead
<1>31. ASSUME NEW r \in Readers, LogReceive(r)
       PROVE  Good(d)'
  BY <1>31 DEF LogReceive
<1>32. CASE Ask
  BY <1>32 DEF Ask
<1>33. CASE AskScreen
  BY <1>33 DEF AskScreen
<1>34. CASE LogStop
  BY <1>34 DEF LogStop
<1>35. CASE LogStart
  BY <1>35 DEF LogStart
<1>36. CASE StatusChange
  BY <1>36 DEF StatusChange
<1>37. CASE StatusFlag
  BY <1>37 DEF StatusFlag
<1>38. CASE Expire
  BY <1>38 DEF Expire
<1>39. CASE ExpireClose
  BY <1>39 DEF ExpireClose
<1>40. CASE ExpireForget
  BY <1>40 DEF ExpireForget
<1>41. CASE Install
  BY <1>41 DEF Install
<1>42. CASE InstallResult
  BY <1>42 DEF InstallResult
<1>43. CASE InstallRefused
  BY <1>43 DEF InstallRefused
<1> QED
  BY <1>1, <1>2, <1>3, <1>4, <1>5, <1>6, <1>7, <1>8, <1>9, <1>10, <1>11,
     <1>12, <1>13, <1>14, <1>15, <1>16, <1>17, <1>18, <1>19, <1>20, <1>21,
     <1>22, <1>23, <1>24, <1>25, <1>26, <1>27, <1>28, <1>29, <1>30, <1>31,
     <1>32, <1>33, <1>34, <1>35, <1>36, <1>37, <1>38, <1>39, <1>40, <1>41,
     <1>42, <1>43
  DEF Next, Write, OnUpdateComplete, Screen, Session, Reader, Requests, Timer

-----------------------------------------------------------------------------
(* The invariant and what follows from it.                                 *)

LEMMA InvInit ==
  Init => IInv
<1> SUFFICES ASSUME Init
             PROVE  IInv
  OBVIOUS
<1>1. Shapes
  BY DEF Init, Shapes, Shape, Inside, Kinds, Single, Pair, Buffered, Unlocked, HasBody
<1>2. Mutex /\ Buffer
  BY DEF Init, Mutex, Buffer, Inside, Unlocked
<1>3. SessionInv /\ Fresh
  BY DEF Init, SessionInv, Fresh, NotYet
<1>4. StreamInv
  BY DEF Init, StreamInv
<1>5. Told /\ StateKnown
  BY DEF Init, Told, StateKnown, Settled
<1> QED  BY <1>1, <1>2, <1>3, <1>4, <1>5, TypeInit DEF IInv

LEMMA InvStep ==
  IInv /\ [Next]_vars => IInv'
<1> SUFFICES ASSUME IInv, [Next]_vars
             PROVE  IInv'
  OBVIOUS
<1>0. /\ TypeOK /\ Shapes /\ Mutex /\ Buffer /\ SessionInv /\ Fresh /\ StreamInv
      /\ Told /\ StateKnown
  BY DEF IInv
<1> USE <1>0
<1>1. CASE Next
  <2>1. Shapes' /\ Mutex'
    <3>1. CASE \E t \in Writers : Write(t)
      BY <3>1, WriteShapes
    <3>2. CASE ~\E t \in Writers : Write(t)
      BY <1>1, <3>2, StepsAreQuiet, QuietShapes DEF Next
    <3> QED  BY <3>1, <3>2
  <2> QED
    BY <1>1, <2>1, TypeStep, BufferStep, SessionStep, FreshStep, StreamStep, ToldStep,
       KnownStep
    DEF IInv
<1>2. CASE UNCHANGED vars
  <2>1. TypeOK' /\ Told' /\ StateKnown' /\ SessionInv' /\ Buffer'
    BY <1>2 DEF TypeOK, Told, StateKnown, Settled, Reporting, SessionInv, Buffer
  <2>2. Shapes' /\ Mutex'
    BY <1>2 DEF Shapes, Shape, Mutex
  <2>3. Fresh' /\ StreamInv'
    BY <1>2 DEF Fresh, NotYet, StreamInv, Bound, Current, Holds, Entering
  <2> QED  BY <2>1, <2>2, <2>3 DEF IInv
<1> QED  BY <1>1, <1>2 DEF IInv

LEMMA Invariance == Spec => []IInv
BY InvInit, InvStep, PTL DEF Spec

(* A client reads whole messages, unless a write to it timed out, a        *)
(* package was installed for it or it was handed over during a message.    *)
THEOREM Framing == Spec => []Framed
<1>1. IInv => Framed
  BY DEF IInv, StreamInv, Framed
<1> QED  BY <1>1, Invariance, PTL

(* No state of the device is lost on its way to a client.                  *)
THEOREM StatesArrive == Spec => []StateKnown
<1>1. IInv => StateKnown
  BY DEF IInv
<1> QED  BY <1>1, Invariance, PTL

(* The frame that is being sent is never overwritten.                      *)
THEOREM FramesWhole == Spec => WholeFrame
<1>1. IInv /\ [Next]_vars =>
        [FrameStore => \A t \in Writers :
           ~(pc[t] \in {"add", "flush", "body"} /\ kind[t] = "screen")]_vars
  BY DEF IInv, Buffer, FrameStore
<1> QED  BY <1>1, Invariance, PTL DEF Spec, WholeFrame

-----------------------------------------------------------------------------
(* The order of the mutexes. Buffer's converse: a thread that has done     *)
(* with the frame buffer does not own it.                                  *)
Owned == fbLock # Nobody => Uses(fbLock)

LEMMA OwnedStep ==
  ASSUME TypeOK, Shapes, Buffer, Owned, Next
  PROVE  Owned'
<1> USE DEF TypeOK, Shapes, Shape, Owned, Uses, Kinds, Single, Pair, Buffered, Unlocked,
  Inside, Busy
<1>1. ASSUME NEW t \in Writers, Release(t)
      PROVE  Owned'
  <2>1. fbLock' = fbLock /\ kind' = [kind EXCEPT ![t] = "none"]
    BY <1>1 DEF Release, Return
  <2>2. pc[t] = "release" /\ pc' = [pc EXCEPT ![t] = Resume(t)]
    BY <1>1 DEF Release
  <2>3. kind[t] \in {"screen", "blank"} => Resume(t) = "unlock"
    BY DEF Resume
  <2> QED  BY <2>1, <2>2, <2>3
<1>2. ASSUME NEW t \in Writers, Write(t), ~Release(t)
      PROVE  Owned'
  <2>1. UNCHANGED <<fbLock, kind>>
    BY <1>2 DEF Write, Acquire, Call, AddHeader, Flush, Head, Body
  <2>2. pc[t] \in {"want", "call", "add", "flush", "head", "body"}
    BY <1>2 DEF Write, Acquire, Call, AddHeader, Flush, Head, Body
  <2>3. \A u \in Writers : u # t => pc'[u] = pc[u]
    BY <1>2 DEF Write, Acquire, Call, AddHeader, Flush, Head, Body
  <2> QED  BY <2>1, <2>2, <2>3
<1>3. ASSUME NEW t \in Writers, Show(t)
      PROVE  Owned'
  BY <1>3 DEF Show
<1>4. ASSUME NEW t \in Writers, TakeBuffer(t)
      PROVE  Owned'
  BY <1>4 DEF TakeBuffer
<1>5. ASSUME NEW t \in Writers, Unlock(t)
      PROVE  Owned'
  BY <1>5 DEF Unlock
<1>6. CASE FrameLock
  BY <1>6 DEF FrameLock
<1>7. CASE FrameStore
  BY <1>7 DEF FrameStore
<1>8. CASE FrameArrives \/ ReportTest \/ ReportClear \/ ReportBuild \/ FileMessage
  BY <1>8 DEF FrameArrives, ReportTest, ReportClear, ReportBuild, FileMessage
<1>9. CASE Session \/ Exit \/ (\E c \in Conns : Accept(c) \/ HangUp(c))
  <2>1. CASE Refuse
    BY <2>1 DEF Refuse
  <2>2. CASE ~Refuse
    <3>1. UNCHANGED <<fbLock, pc, kind>>
      BY <1>9, <2>2, Zenon DEF Session, Refused, Adopt, Enter, EnterReset,
      EnterFlag, Drop, Forget, Leave, Exit, Accept, HangUp
    <3> QED  BY <3>1
  <2> QED  BY <2>1, <2>2
<1>10. CASE Requests \/ Install \/ InstallResult \/ InstallRefused
  <2>1. CASE Ask
    BY <2>1 DEF Ask
  <2>2. CASE AskScreen
    BY <2>2 DEF AskScreen
  <2>3. CASE LogStop
    BY <2>3 DEF LogStop
  <2>4. CASE LogStart
    BY <2>4 DEF LogStart
  <2>5. CASE Install
    BY <2>5 DEF Install
  <2>6. CASE InstallResult
    BY <2>6 DEF InstallResult
  <2>7. CASE InstallRefused
    BY <2>7 DEF InstallRefused
  <2> QED  BY <1>10, <2>1, <2>2, <2>3, <2>4, <2>5, <2>6, <2>7 DEF Requests
<1>11. ASSUME NEW r \in Readers, Reader(r)
       PROVE  Owned'
  <2>1. CASE LogRead(r)
    BY <2>1 DEF LogRead
  <2>2. CASE LogReceive(r)
    BY <2>2 DEF LogReceive
  <2> QED  BY <1>11, <2>1, <2>2 DEF Reader
<1>12. CASE StatusChange \/ StatusFlag
  BY <1>12 DEF StatusChange, StatusFlag
<1>13. CASE Expire \/ Timer
  <2>1. CASE Expire
    BY <2>1 DEF Expire
  <2>2. CASE ExpireClose
    BY <2>2 DEF ExpireClose
  <2>3. CASE ExpireForget
    BY <2>3 DEF ExpireForget
  <2> QED  BY <1>13, <2>1, <2>2, <2>3 DEF Timer
<1> QED
  BY <1>1, <1>2, <1>3, <1>4, <1>5, <1>6, <1>7, <1>8, <1>9, <1>10, <1>11,
     <1>12, <1>13
  DEF Next, OnUpdateComplete, Screen

(* The owner of the output mutex waits for nothing, the owner of the frame *)
(* buffer for the output mutex at most.                                    *)
THEOREM MutexesInOrder == Spec => []LocksInOrder
<1>1. Init => Owned
  BY DEF Init, Owned
<1>2. IInv /\ Owned /\ [Next]_vars => Owned'
  <2> SUFFICES ASSUME IInv, Owned, [Next]_vars
               PROVE  Owned'
    OBVIOUS
  <2>1. CASE Next
    BY <2>1, OwnedStep DEF IInv
  <2>2. CASE UNCHANGED vars
    BY <2>2 DEF Owned, Uses
  <2> QED  BY <2>1, <2>2
<1>3. IInv /\ Owned => LocksInOrder
  <2> SUFFICES ASSUME IInv, Owned
               PROVE  LocksInOrder
    OBVIOUS
  <2>1. outLock # Nobody => InMessage(outLock)
    BY DEF IInv, Mutex, Inside, InMessage
  <2>2. ASSUME fbLock # Nobody, kind[fbLock] \in {"screen", "blank"}
        PROVE  \/ pc[fbLock] = "want"
               \/ InMessage(fbLock) /\ outLock = fbLock
    <3>1. fbLock \in Writers /\ kind[fbLock] \notin Unlocked
      BY <2>2 DEF IInv, TypeOK, Unlocked
    <3>2. pc[fbLock] \in Inside \cup {"want"}
      BY <2>2, <3>1 DEF IInv, Shapes, Shape
    <3> QED
      BY <3>1, <3>2 DEF IInv, Mutex, Inside, InMessage
  <2> QED
    BY <2>1, <2>2 DEF Owned, Uses, LocksInOrder
<1> QED
  BY <1>1, <1>2, <1>3, Invariance, PTL DEF Spec

-----------------------------------------------------------------------------
(* The refinement of ServeOne.                                             *)

LEMMA ServeStep ==
  ASSUME IInv, IInv', [Next]_vars
  PROVE  [Serve!Next]_Serve!vars
<1> USE DEF IInv, TypeOK, SessionInv, SesPoints, Shutdown, Serve!Next, Serve!vars
<1>1. CASE Refused
  BY <1>1 DEF Refused, Serve!Release
<1>2. CASE Adopt
  BY <1>2 DEF Adopt, Serve!Publish
<1>3. CASE Forget
  BY <1>3 DEF Forget, Serve!Withdraw
<1>4. CASE Leave
  BY <1>4 DEF Leave, Serve!Release
<1>5. ASSUME NEW c \in Conns, Accept(c)
      PROVE  [Serve!Next]_Serve!vars
  BY <1>5 DEF Accept, Serve!Take
<1>6. CASE ExpireForget
  BY <1>6 DEF ExpireForget, Serve!Withdraw
<1>7. CASE Drop
  BY <1>7 DEF Drop
<1>8. ASSUME NEW c \in Conns, HangUp(c)
      PROVE  [Serve!Next]_Serve!vars
  BY <1>8 DEF HangUp
<1>9. CASE ExpireClose
  BY <1>9 DEF ExpireClose
<1>10. CASE UNCHANGED <<sock, link, me>>
  BY <1>10
<1> QED
  BY <1>1, <1>2, <1>3, <1>4, <1>5, <1>6, <1>7, <1>8, <1>9, <1>10, Zenon
  DEF Next, Write, OnUpdateComplete, Screen, Session, Reader, Requests, Timer,
     Acquire, Call, AddHeader, Flush, Head, Body, Release, Show, TakeBuffer,
     Unlock, FrameArrives, ReportTest, ReportClear, ReportBuild, FrameLock,
     FrameStore, FileMessage, Refuse, Enter, EnterReset, EnterFlag, Exit,
     LogRead, LogReceive, Ask, AskScreen, LogStop, LogStart, StatusChange,
     StatusFlag, Expire, Install, InstallResult,
     InstallRefused

(* The session, with its refusals and the end of a reservation, serves one *)
(* client at a time as ServeOne promises.                                  *)
THEOREM SessionServesOne == Spec => ServesOne
<1>1. Init => Serve!Init
  BY DEF Init, Serve!Init
<1>2. IInv /\ IInv' /\ [Next]_vars => [Serve!Next]_Serve!vars
  BY ServeStep
<1> QED  BY <1>1, <1>2, Invariance, PTL DEF Spec, ServesOne, Serve!Spec

=============================================================================
