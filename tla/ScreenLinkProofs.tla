-------------------------- MODULE ScreenLinkProofs --------------------------
(* Proofs about ScreenLink, for every number of changes, clients, events,  *)
(* unanswered requests and restarts.                                       *)
EXTENDS ScreenLink, SequenceTheorems, TLAPS

USE DEF daemon, net, request, thread, buffer, tc, Threads

(* The queues, apart from everything else.                                 *)
Queues ==
  /\ toDevice \in Seq(Command) /\ toAgent \in Seq(Frame)
  /\ toService \in Seq({"half", "full"})
  /\ late \in {<<>>} \cup {<<m>> : m \in Message}

Scalars ==
  /\ screen \in Versions
  /\ td \in {"select", "window", "process"}
  /\ held \in Command
  /\ acted \in 0 .. MaxEvents
  /\ link \in {"up", "lost", "closed"}
  /\ svc \in {"open", "connected", "error", "stop"}
  /\ stopped \in BOOLEAN
  /\ mFtp \in BOOLEAN
  /\ fullReq \in {0, 1}
  /\ upd \in [Threads -> {"none", "test", "reset", "wait"}]
  /\ cmd \in [Threads -> {Half, Full}]
  /\ fbc \in {"select", "store", "leave", "restart", "end", "ended"}
  /\ frame \in Frame \cup {NoFrame}
  /\ retry \in 0 .. RetryMax
  /\ picture \in Frame \cup {NoFrame}
  /\ unseen \in BOOLEAN
  /\ cli \in {"none", "new", "idle", "wait", "take", "send", "touch", "settle"}
  /\ touching \in 0 .. MaxEvents
  /\ screenOn \in BOOLEAN
  /\ client \in 0 .. MaxClients
  /\ shown \in Versions \cup {Broken}
  /\ capture \in {"none", "asked", "saved"}
  /\ touched \in 0 .. MaxEvents
  /\ events \in 0 .. MaxEvents /\ intact \in BOOLEAN
  /\ missed \in BOOLEAN

LEMMA TypeSplits == TypeOK <=> Queues /\ Scalars
BY DEF TypeOK, Queues, Scalars

(* Each touch is an event; the client thread writes a touch or none.       *)
Touching ==
  /\ touched <= events
  /\ cli = "touch" <=> touching # 0
Typed == Queues /\ Scalars /\ Touching

LEMMA Commands ==
  /\ Half \in Command /\ Full \in Command
  /\ \A n \in Touches : Touch(n) \in Command
  /\ \A m \in Command : /\ m.touch \in 0 .. MaxEvents
                        /\ m.cmd \in {"h", "u", "t"}
                        /\ m.cmd = "t" <=> m.touch # 0
  /\ Half.cmd = "h" /\ Full.cmd = "u" /\ Half.touch = 0 /\ Full.touch = 0
<1>1. Half \in Command /\ Full \in Command
  BY DEF Command
<1>2. \A n \in Touches : Touch(n) \in Command
  BY DEF Command
<1>3. Half.cmd = "h" /\ Full.cmd = "u" /\ Half.touch = 0 /\ Full.touch = 0
  BY DEF Half, Full
<1>4. \A n \in Touches : Touch(n).cmd = "t" /\ Touch(n).touch = n
  BY DEF Touch
<1>5. \A m \in Command :
        m = Half \/ m = Full \/ \E n \in Touches : m = Touch(n)
  BY DEF Command
<1>6. ASSUME NEW m \in Command
      PROVE  /\ m.touch \in 0 .. MaxEvents
             /\ m.cmd \in {"h", "u", "t"}
             /\ m.cmd = "t" <=> m.touch # 0
  <2>1. CASE m = Half \/ m = Full
    BY <2>1, <1>3, BoundsAssumption
  <2>2. CASE \E n \in Touches : m = Touch(n)
    BY <2>2, <1>4, BoundsAssumption DEF Touches
  <2> QED
    BY <2>1, <2>2, <1>5
<1> QED
  BY <1>1, <1>2, <1>3, <1>6

LEMMA Pictures ==
  /\ \A f \in Frame \cup {NoFrame} :
       /\ f.full \in BOOLEAN /\ f.whole \in BOOLEAN
       /\ f.whole => f.ver \in Versions
  /\ \A b \in BOOLEAN, v \in Versions :
       [full |-> b, ver |-> v, whole |-> TRUE] \in Frame
<1>1. NoFrame.full \in BOOLEAN /\ NoFrame.whole = FALSE
  BY DEF NoFrame
<1>2. \A f \in Frame : /\ f.full \in BOOLEAN /\ f.whole \in BOOLEAN
                       /\ f.ver \in Versions
  BY DEF Frame
<1>3. \A b \in BOOLEAN, v \in Versions :
        [full |-> b, ver |-> v, whole |-> TRUE] \in Frame
  BY DEF Frame
<1> QED
  BY <1>1, <1>2, <1>3

LEMMA InitTyped ==
  ASSUME Init PROVE Typed
<1>1. Queues
  BY DEF Init, Queues
<1>2. /\ screen \in Versions /\ held \in Command
      /\ acted \in 0 .. MaxEvents /\ retry \in 0 .. RetryMax
      /\ client \in 0 .. MaxClients
      /\ touched \in 0 .. MaxEvents /\ events \in 0 .. MaxEvents
      /\ touching \in 0 .. MaxEvents
  BY BoundsAssumption, Commands DEF Init, Versions
<1>3. upd \in [Threads -> {"none", "test", "reset", "wait"}]
  BY DEF Init
<1>4. cmd \in [Threads -> {Half, Full}]
  BY DEF Init
<1>5. Scalars
  BY <1>2, <1>3, <1>4 DEF Init, Scalars
<1>6. Touching
  BY DEF Init, Touching
<1> QED
  BY <1>1, <1>5, <1>6 DEF Typed

LEMMA MissTyped ==
  ASSUME missed \in BOOLEAN, NEW p, Miss(p) PROVE missed' \in BOOLEAN
BY DEF Miss

LEMMA ExternalTyped ==
  ASSUME events \in 0 .. MaxEvents, External PROVE events' \in 0 .. MaxEvents
BY BoundsAssumption DEF External

(* What a command does to the daemon and the pictures on their way.        *)
LEMMA ProcessTyped ==
  ASSUME Typed, NEW m \in Command, ProcessClientMessage(m)
  PROVE  /\ acted' \in 0 .. MaxEvents /\ events' \in 0 .. MaxEvents
         /\ missed' \in BOOLEAN /\ toAgent' \in Seq(Frame)
         /\ events <= events'
         /\ acted' = IF m.cmd = "t" THEN m.touch ELSE acted
<1>1. /\ missed \in BOOLEAN /\ events \in 0 .. MaxEvents
      /\ acted \in 0 .. MaxEvents /\ m.touch \in 0 .. MaxEvents
  BY Commands DEF Typed, Scalars
<1>2. toAgent \in Seq(Frame)
  BY DEF Typed, Queues
<1>3. CASE m.cmd # "t" /\ Capture(m.cmd = "u") /\ UNCHANGED acted
  <2>1. CASE /\ toAgent' = Append(toAgent, [full |-> m.cmd = "u",
                                            ver |-> screen, whole |-> TRUE])
             /\ UNCHANGED <<events, missed>>
    <3>1. [full |-> m.cmd = "u", ver |-> screen, whole |-> TRUE] \in Frame
      BY Pictures DEF Typed, Scalars
    <3> QED
      BY <1>1, <1>2, <1>3, <2>1, <3>1
  <2>2. CASE External /\ Miss(m.cmd = "u") /\ UNCHANGED toAgent
    <3>1. missed' \in BOOLEAN
      BY <1>1, <2>2, MissTyped
    <3>2. events' \in 0 .. MaxEvents /\ events <= events'
      BY <1>1, <2>2, BoundsAssumption DEF External
    <3> QED
      BY <1>1, <1>2, <1>3, <2>2, <3>1, <3>2
  <2> QED
    BY <1>3, <2>1, <2>2 DEF Capture
<1>4. CASE /\ m.cmd = "t" /\ acted' = m.touch
           /\ UNCHANGED <<toAgent, events, missed>>
  BY <1>1, <1>2, <1>4
<1> QED
  BY <1>3, <1>4 DEF ProcessClientMessage

LEMMA DaemonEndsTyped ==
  ASSUME Typed, DaemonEnds
  PROVE  /\ missed' \in BOOLEAN /\ intact' = FALSE
         /\ td' = "select" /\ held' = Half /\ toDevice' = <<>>
<1>1. missed \in BOOLEAN
  BY DEF Typed, Scalars
<1>2. missed' \in BOOLEAN
  BY <1>1, MissTyped DEF DaemonEnds
<1> QED
  BY <1>2 DEF DaemonEnds

(* What a message does to the client.                                      *)
LEMMA ScreenBufTyped ==
  ASSUME Typed, NEW m \in Message, OnScreenBuf(m)
  PROVE  /\ shown' \in Versions \cup {Broken}
         /\ capture' \in {"none", "asked", "saved"}
         /\ toService' \in Seq({"half", "full"})
<1>1. /\ shown \in Versions \cup {Broken}
      /\ capture \in {"none", "asked", "saved"}
      /\ toService \in Seq({"half", "full"})
  BY DEF Typed, Scalars, Queues
<1>2. m # Empty => m.frame \in Frame \cup {NoFrame}
  BY DEF Message, Picture
<1>3. m # Empty /\ m.frame.whole => m.frame.ver \in Versions
  BY <1>2, Pictures
<1> QED
  BY <1>1, <1>3 DEF OnScreenBuf

LEMMA LateTyped ==
  ASSUME Typed
  PROVE  late # <<>> => Head(late) \in Message
BY DEF Typed, Queues

LEMMA UpdateTyped ==
  ASSUME Typed, UpdateSend
  PROVE  /\ shown' \in Versions \cup {Broken}
         /\ capture' \in {"none", "asked", "saved"}
         /\ toService' \in Seq({"half", "full"})
         /\ late' \in {<<>>} \cup {<<m>> : m \in Message}
         /\ events' \in 0 .. MaxEvents /\ events <= events'
         /\ missed' \in BOOLEAN
<1> DEFINE m == IF screenOn THEN Picture(picture) ELSE Empty
<1>1. m \in Message
  BY DEF Message, Typed, Scalars
<1>2. /\ shown \in Versions \cup {Broken}
      /\ capture \in {"none", "asked", "saved"}
      /\ toService \in Seq({"half", "full"})
      /\ late \in {<<>>} \cup {<<n>> : n \in Message}
      /\ events \in 0 .. MaxEvents /\ missed \in BOOLEAN
  BY DEF Typed, Scalars, Queues
<1>3. missed' \in BOOLEAN
  BY <1>2, MissTyped DEF UpdateSend
<1>4. events <= events /\ events \in Nat
  BY <1>2, BoundsAssumption
<1>5. CASE stopped
  BY <1>2, <1>3, <1>4, <1>5 DEF UpdateSend
<1>6. CASE ~stopped
  <2>1. Deliver(m)
    BY <1>6 DEF UpdateSend
  <2> HIDE DEF m
  <2>2. CASE late = <<>> /\ OnScreenBuf(m) /\ UNCHANGED <<late, events>>
    BY <1>1, <1>2, <1>3, <1>4, <2>2, ScreenBufTyped
  <2>3. CASE /\ late = <<>> /\ External
             /\ late' = <<m>>
             /\ UNCHANGED <<shown, capture, toService>>
    <3>1. events' \in 0 .. MaxEvents /\ events <= events'
      BY <1>4, <2>3, BoundsAssumption DEF External
    <3> QED
      BY <1>1, <1>2, <1>3, <2>3, <3>1
  <2>4. CASE /\ late # <<>> /\ OnScreenBuf(Head(late)) /\ late' = <<m>>
             /\ UNCHANGED events
    <3>1. Head(late) \in Message
      BY <2>4, LateTyped
    <3> QED
      BY <1>1, <1>2, <1>3, <1>4, <2>4, <3>1, ScreenBufTyped
  <2> QED
    BY <2>1, <2>2, <2>3, <2>4 DEF Deliver
<1> QED
  BY <1>5, <1>6

LEMMA ArrivesTyped ==
  ASSUME Typed, NEW states, NEW same, Arrives(states, same)
  PROVE  /\ toDevice # <<>> /\ Head(toDevice) \in Command
         /\ toDevice' = Tail(toDevice) /\ toDevice' \in Seq(Command)
<1>1. /\ toDevice \in Seq(Command) /\ toDevice # <<>>
      /\ toDevice' = Tail(toDevice)
  BY DEF Typed, Queues, Arrives
<1> QED
  BY <1>1

LEMMA ScalarsStep ==
  ASSUME Typed, Next PROVE Scalars'
<1> USE DEF Typed
<1>1. CASE ScreenChanges
  BY <1>1, BoundsAssumption DEF Scalars, Versions, ScreenChanges
<1>2. CASE TDHold
  BY <1>2 DEF Scalars, Arrives, TDHold
<1>3. ASSUME TDCommand \/ TDOther \/ TDProcess \/ TDWindowEnds
      PROVE  /\ acted' \in 0 .. MaxEvents /\ events' \in 0 .. MaxEvents
             /\ missed' \in BOOLEAN /\ held' \in Command
  <2>1. Half \in Command /\ held \in Command
    BY Commands DEF Scalars
  <2>2. CASE TDCommand
    <3>1. Head(toDevice) \in Command
      BY <2>2, ArrivesTyped DEF TDCommand
    <3> QED
      BY <2>1, <2>2, <3>1, ProcessTyped DEF TDCommand
  <2>3. CASE TDOther
    <3>1. Head(toDevice) \in Command
      BY <2>3, ArrivesTyped DEF TDOther
    <3> QED
      BY <2>1, <2>3, <3>1, ProcessTyped DEF TDOther
  <2>4. CASE TDProcess
    BY <2>1, <2>4, ProcessTyped DEF TDProcess
  <2>5. CASE TDWindowEnds
    BY <2>1, <2>5, ProcessTyped DEF TDWindowEnds
  <2> QED
    BY <1>3, <2>2, <2>3, <2>4, <2>5
<1>4. CASE TDCommand
  <2>1. UNCHANGED <<screen, link, intact, svc, stopped, mFtp, request, thread,
                  buffer, cli, touching, screenOn, client, shown, capture,
                  touched>>
    BY <1>4 DEF TDCommand, Arrives
  <2>2. UNCHANGED td
    BY <1>4 DEF TDCommand
  <2> QED
    BY <1>4, <1>3, <2>1, <2>2 DEF Scalars
<1>5. CASE TDOther
  <2>1. UNCHANGED <<screen, link, intact, svc, stopped, mFtp, request, thread,
                  buffer, cli, touching, screenOn, client, shown, capture,
                  touched>>
    BY <1>5 DEF TDOther, Arrives
  <2>2. td' = "process"
    BY <1>5 DEF TDOther
  <2> QED
    BY <1>5, <1>3, <2>1, <2>2 DEF Scalars
<1>6. CASE TDProcess
  BY <1>6, <1>3 DEF Scalars, TDProcess
<1>7. CASE TDWindowEnds
  BY <1>7, <1>3 DEF Scalars, TDWindowEnds
<1>8. CASE TDSwallow
  BY <1>8 DEF Scalars, Arrives, TDSwallow
<1>9. CASE DaemonLost
  <2>1. missed' \in BOOLEAN /\ intact' \in BOOLEAN /\ td' = "select"
    BY <1>9, DaemonEndsTyped DEF DaemonLost
  <2>2. held' \in Command
    BY <1>9, Commands, DaemonEndsTyped DEF DaemonLost
  <2>3. events' \in 0 .. MaxEvents
    BY <1>9, ExternalTyped DEF DaemonLost, Scalars
  <2> QED
    BY <1>9, <2>1, <2>2, <2>3 DEF Scalars, DaemonLost
<1>10. ASSUME NEW t \in Threads, UpdTest(t) PROVE Scalars'
  BY <1>10 DEF Scalars, UpdTest, UpdCall
<1>11. ASSUME NEW t \in Threads, UpdReset(t) PROVE Scalars'
  BY <1>11 DEF Scalars, UpdReset, Miss
<1>12. ASSUME NEW t \in Threads, UpdSend(t) PROVE Scalars'
  BY <1>12 DEF Scalars, UpdSend, Write, Forget, Miss
<1>13. ASSUME NEW t \in Threads, UpdGiveUp(t) PROVE Scalars'
  BY <1>13 DEF Scalars, UpdGiveUp, Forget, Miss
<1>14. CASE SelectTimeout
  BY <1>14 DEF Scalars, UpdCall, SelectTimeout
<1>15. CASE ReadHeader
  <2>1. frame' \in Frame
    BY <1>15 DEF Queues, ReadHeader
  <2>2. unseen' \in BOOLEAN
    BY <1>15 DEF ReadHeader
  <2> QED
    BY <1>15, <2>1, <2>2 DEF Scalars, ReadHeader
<1>16. CASE StoreFrame
  BY <1>16, BoundsAssumption DEF Scalars, Received, Miss, StoreFrame
<1>17. CASE GiveUpFrame
  BY <1>17, BoundsAssumption DEF Scalars, Received, Miss, External, GiveUpFrame
<1>18. CASE ReadEnd
  BY <1>18 DEF Scalars, ReadEnd
<1>19. CASE Leave
  <2>1. missed' \in BOOLEAN /\ intact' \in BOOLEAN /\ td' = "select"
    BY <1>19, DaemonEndsTyped DEF Leave, CloseLink
  <2>2. held' \in Command
    BY <1>19, Commands, DaemonEndsTyped DEF Leave, CloseLink
  <2>3. retry' \in 0 .. RetryMax
    BY <1>19, BoundsAssumption DEF Leave, Scalars
  <2>4. link' = "closed"
    BY <1>19 DEF Leave, CloseLink
  <2> QED
    BY <1>19, <2>1, <2>2, <2>3, <2>4 DEF Scalars, Leave
<1>20. CASE RestartDone
  BY <1>20 DEF Scalars, RestartDone
<1>21. CASE RestartFails
  <2>1. stopped' \in BOOLEAN /\ svc' \in {"open", "connected", "error", "stop"}
    BY <1>21 DEF RestartFails, Scalars
  <2>2. events' \in 0 .. MaxEvents
    BY <1>21, ExternalTyped DEF RestartFails, Scalars
  <2> QED
    BY <1>21, <2>1, <2>2 DEF Scalars, RestartFails
<1>22. CASE End
  BY <1>22 DEF Scalars, End
<1>23. CASE Stop
  <2>1. missed' \in BOOLEAN /\ intact' \in BOOLEAN /\ td' = "select"
    BY <1>23, DaemonEndsTyped DEF Stop, CloseLink
  <2>2. held' \in Command
    BY <1>23, Commands, DaemonEndsTyped DEF Stop, CloseLink
  <2>3. events' \in 0 .. MaxEvents
    BY <1>23, ExternalTyped DEF Stop, Scalars
  <2>4. link' = "closed" /\ svc' = "stop" /\ stopped' \in BOOLEAN
    BY <1>23 DEF Stop, CloseLink
  <2> QED
    BY <1>23, <2>1, <2>2, <2>3, <2>4 DEF Scalars, Stop
<1>24. CASE Connect
  <2>1. client' \in 0 .. MaxClients
    BY <1>24, BoundsAssumption DEF Connect, Scalars
  <2>2. missed' \in BOOLEAN
    BY <1>24 DEF Connect
  <2>3. shown' = Broken /\ capture' = "none"
    BY <1>24 DEF Connect
  <2> QED
    BY <1>24, <2>1, <2>2, <2>3 DEF Scalars, Connect
<1>25. CASE NewClient
  BY <1>25 DEF Scalars, UpdCall, Miss, NewClient
<1>26. CASE GetScreenBuf
  BY <1>26 DEF Scalars, TakesAsk, GetScreenBuf
<1>27. CASE UpdateWait
  <2>1. unseen' \in BOOLEAN
    BY <1>27 DEF UpdateWait
  <2> QED
    BY <1>27, <2>1 DEF Scalars, UpdateWait
<1>28. CASE UpdateTake
  BY <1>28 DEF Scalars, UpdateTake
<1>29. CASE UpdateSend
  BY <1>29, UpdateTyped DEF Scalars, UpdateSend
<1>30. CASE TouchStart
  BY <1>30, BoundsAssumption DEF Scalars, External, Touching, TouchStart
<1>31. CASE TouchWrite
  BY <1>31, BoundsAssumption DEF Scalars, Write, TouchWrite
<1>32. CASE TransferStart
  BY <1>32, BoundsAssumption DEF Scalars, External, TransferStart
<1>33. CASE TransferEnd
  <2>1. mFtp' \in BOOLEAN
    BY <1>33 DEF TransferEnd
  <2> QED
    BY <1>33, <2>1 DEF Scalars, TransferEnd
<1>34. CASE ExitClient
  <2>1. mFtp' \in BOOLEAN
    BY <1>34 DEF ExitClient
  <2> QED
    BY <1>34, <2>1 DEF Scalars, ExitClient
<1>35. CASE ClientReady
  BY <1>35 DEF Scalars, ClientReady
<1>36. CASE ScreenCapture
  <2>1. missed' \in BOOLEAN /\ capture' = "asked"
    BY <1>36 DEF ScreenCapture
  <2>2. events' \in 0 .. MaxEvents
    BY <1>36, ExternalTyped DEF ScreenCapture, Scalars
  <2> QED
    BY <1>36, <2>1, <2>2 DEF Scalars, ScreenCapture
<1>37. CASE ReadTooBig
  BY <1>37, BoundsAssumption DEF Scalars, External, ReadTooBig
<1>38. CASE Report
  BY <1>38, BoundsAssumption DEF Scalars, External, Report
<1>39. CASE OtherArrives
  <2>1. /\ shown' \in Versions \cup {Broken}
        /\ capture' \in {"none", "asked", "saved"}
    BY <1>39, LateTyped, ScreenBufTyped DEF OtherArrives
  <2> QED
    BY <1>39, <2>1 DEF Scalars, OtherArrives
<1> QED
  BY <1>1, <1>2, <1>3, <1>4, <1>5, <1>6, <1>7, <1>8, <1>9, <1>10, <1>11,
     <1>12, <1>13, <1>14, <1>15, <1>16, <1>17, <1>18, <1>19, <1>20, <1>21,
     <1>22, <1>23, <1>24, <1>25, <1>26, <1>27, <1>28, <1>29, <1>30, <1>31,
     <1>32, <1>33, <1>34, <1>35, <1>36, <1>37, <1>38, <1>39
     DEF Next, Daemon, ScreenThread, ClientThread, User, UpdateReq

(* What is left of the frames when the connection breaks.                  *)
LEMMA TornFrame ==
  ASSUME NEW s \in Seq(Frame), NEW n \in 1 .. Len(s)
  PROVE  [s EXCEPT ![n].whole = FALSE] \in Seq(Frame)
<1>1. s[n] \in Frame
  BY ElementOfSeq
<1>2. [s[n] EXCEPT !.whole = FALSE] \in Frame
  BY <1>1 DEF Frame
<1> DEFINE f == [s[n] EXCEPT !.whole = FALSE]
<1>3. [s EXCEPT ![n].whole = FALSE] = [s EXCEPT ![n] = f]
  OBVIOUS
<1> HIDE DEF f
<1> QED
  BY <1>2, <1>3, ExceptSeq DEF f

LEMMA FramesCut ==
  ASSUME NEW q \in Seq(Frame), NEW n \in 0 .. Len(q)
  PROVE  /\ SubSeq(q, 1, n) \in Seq(Frame)
         /\ n > 0 => [SubSeq(q, 1, n) EXCEPT ![n].whole = FALSE] \in Seq(Frame)
<1>1. SubSeq(q, 1, n) \in Seq(Frame) /\ Len(SubSeq(q, 1, n)) = n
  OBVIOUS
<1> QED
  BY <1>1, TornFrame

LEMMA ToDeviceStep ==
  ASSUME Typed, Next PROVE toDevice' \in Seq(Command)
<1>0. toDevice \in Seq(Command)
  BY DEF Typed, Queues
<1>1. CASE TDHold
  BY <1>1, ArrivesTyped DEF TDHold
<1>2. CASE TDCommand
  BY <1>2, ArrivesTyped DEF TDCommand
<1>3. CASE TDSwallow
  BY <1>3, ArrivesTyped DEF TDSwallow
<1>4. CASE TDOther
  BY <1>4, ArrivesTyped DEF TDOther
<1>5. CASE DaemonLost
  BY <1>5, DaemonEndsTyped DEF DaemonLost
<1>6. CASE (\E t \in Threads : UpdSend(t))
  <2>1. PICK t \in Threads : UpdSend(t)
    BY <1>6
  <2>2. cmd[t] \in Command
    BY Commands DEF Typed, Scalars
  <2> QED
    BY <1>0, <2>1, <2>2 DEF UpdSend, Write
<1>7. CASE Leave
  BY <1>7, DaemonEndsTyped DEF Leave, CloseLink
<1>8. CASE Stop
  BY <1>8, DaemonEndsTyped DEF Stop, CloseLink
<1>9. CASE TouchWrite
  <2>1. Touch(touching) \in Command
    BY <1>9, Commands DEF Typed, Scalars, Touching, Touches, TouchWrite
  <2> QED
    BY <1>0, <1>9, <2>1 DEF TouchWrite, Write
<1>10. ASSUME
        \/ ScreenChanges \/ TDProcess \/ TDWindowEnds
        \/ (\E t \in Threads : UpdTest(t)) \/ (\E t \in Threads : UpdReset(t))
        \/ (\E t \in Threads : UpdGiveUp(t)) \/ SelectTimeout \/ ReadHeader
        \/ StoreFrame \/ GiveUpFrame \/ ReadEnd \/ RestartDone \/ RestartFails
        \/ End \/ Connect \/ NewClient \/ GetScreenBuf \/ UpdateWait
        \/ UpdateTake \/ UpdateSend \/ TouchStart \/ TransferStart
        \/ TransferEnd \/ ExitClient \/ ClientReady \/ ScreenCapture
        \/ ReadTooBig \/ Report \/ OtherArrives
      PROVE  UNCHANGED toDevice
  BY <1>10 DEF ScreenChanges, TDProcess, TDWindowEnds, UpdTest, UpdReset,
  UpdGiveUp, SelectTimeout, ReadHeader, StoreFrame, GiveUpFrame, ReadEnd,
  RestartDone, RestartFails, End, Connect, NewClient, GetScreenBuf, UpdateWait,
  UpdateTake, UpdateSend, TouchStart, TransferStart, TransferEnd, ExitClient,
  ClientReady, ScreenCapture, ReadTooBig, Report, OtherArrives, TakesAsk
<1> QED
  BY <1>0, <1>1, <1>2, <1>3, <1>4, <1>5, <1>6, <1>7, <1>8, <1>9, <1>10
     DEF Next, Daemon, ScreenThread, ClientThread, User, UpdateReq

LEMMA ToAgentStep ==
  ASSUME Typed, Next PROVE toAgent' \in Seq(Frame)
<1>0. toAgent \in Seq(Frame)
  BY DEF Typed, Queues
<1>1. CASE TDCommand
  BY <1>1, ArrivesTyped, Commands, ProcessTyped DEF TDCommand
<1>2. CASE TDOther
  BY <1>2, ArrivesTyped, Commands, ProcessTyped DEF TDOther
<1>3. CASE TDProcess
  BY <1>3, Commands, ProcessTyped DEF TDProcess, Typed, Scalars
<1>4. CASE TDWindowEnds
  BY <1>4, Commands, ProcessTyped DEF TDWindowEnds, Typed, Scalars
<1>5. CASE DaemonLost
  <2>1. PICK n \in 0 .. Len(toAgent) :
          \/ toAgent' = SubSeq(toAgent, 1, n)
          \/ /\ n > 0
             /\ toAgent' = [SubSeq(toAgent, 1, n) EXCEPT ![n].whole = FALSE]
    BY <1>5 DEF DaemonLost
  <2> QED
    BY <1>0, <2>1, FramesCut
<1>6. CASE ReadHeader
  BY <1>0, <1>6 DEF ReadHeader
<1>7. CASE Leave
  BY <1>7 DEF Leave, CloseLink
<1>8. CASE Stop
  BY <1>8 DEF Stop, CloseLink
<1>9. ASSUME
        \/ ScreenChanges \/ TDHold \/ TDSwallow
        \/ (\E t \in Threads : UpdTest(t)) \/ (\E t \in Threads : UpdReset(t))
        \/ (\E t \in Threads : UpdSend(t)) \/ (\E t \in Threads : UpdGiveUp(t))
        \/ SelectTimeout \/ StoreFrame \/ GiveUpFrame \/ ReadEnd \/ RestartDone
        \/ RestartFails \/ End \/ Connect \/ NewClient \/ GetScreenBuf
        \/ UpdateWait \/ UpdateTake \/ UpdateSend \/ TouchStart \/ TouchWrite
        \/ TransferStart \/ TransferEnd \/ ExitClient \/ ClientReady
        \/ ScreenCapture \/ ReadTooBig \/ Report \/ OtherArrives
      PROVE  UNCHANGED toAgent
  BY <1>9 DEF ScreenChanges, TDHold, TDSwallow, UpdTest, UpdReset, UpdSend,
  UpdGiveUp, SelectTimeout, StoreFrame, GiveUpFrame, ReadEnd, RestartDone,
  RestartFails, End, Connect, NewClient, GetScreenBuf, UpdateWait, UpdateTake,
  UpdateSend, TouchStart, TouchWrite, TransferStart, TransferEnd, ExitClient,
  ClientReady, ScreenCapture, ReadTooBig, Report, OtherArrives, Arrives,
  TakesAsk
<1> QED
  BY <1>0, <1>1, <1>2, <1>3, <1>4, <1>5, <1>6, <1>7, <1>8, <1>9
     DEF Next, Daemon, ScreenThread, ClientThread, User, UpdateReq

LEMMA ToServiceStep ==
  ASSUME Typed, Next PROVE toService' \in Seq({"half", "full"})
<1>0. toService \in Seq({"half", "full"})
  BY DEF Typed, Queues
<1>1. CASE Connect
  BY <1>1 DEF Connect
<1>2. CASE GetScreenBuf
  BY <1>0, <1>2 DEF GetScreenBuf, TakesAsk
<1>3. CASE UpdateSend
  BY <1>3, UpdateTyped
<1>4. CASE ExitClient
  BY <1>4 DEF ExitClient
<1>5. CASE ScreenCapture
  BY <1>0, <1>5 DEF ScreenCapture
<1>7. CASE OtherArrives
  BY <1>7, LateTyped, ScreenBufTyped DEF OtherArrives
<1>6. ASSUME
        \/ ScreenChanges \/ TDHold \/ TDCommand \/ TDSwallow \/ TDOther
        \/ TDProcess \/ TDWindowEnds \/ DaemonLost
        \/ (\E t \in Threads : UpdTest(t)) \/ (\E t \in Threads : UpdReset(t))
        \/ (\E t \in Threads : UpdSend(t)) \/ (\E t \in Threads : UpdGiveUp(t))
        \/ SelectTimeout \/ ReadHeader \/ StoreFrame \/ GiveUpFrame \/ ReadEnd
        \/ Leave \/ RestartDone \/ RestartFails \/ End \/ Stop \/ NewClient
        \/ UpdateWait \/ UpdateTake \/ TouchStart \/ TouchWrite
        \/ TransferStart \/ TransferEnd \/ ClientReady \/ ReadTooBig
        \/ Report
      PROVE  UNCHANGED toService
  BY <1>6 DEF ScreenChanges, TDHold, TDCommand, TDSwallow, TDOther, TDProcess,
  TDWindowEnds, DaemonLost, UpdTest, UpdReset, UpdSend, UpdGiveUp,
  SelectTimeout, ReadHeader, StoreFrame, GiveUpFrame, ReadEnd, Leave,
  RestartDone, RestartFails, End, Stop, NewClient, UpdateWait, UpdateTake,
  TouchStart, TouchWrite, TransferStart, TransferEnd, ClientReady, ReadTooBig,
  Report, Arrives, CloseLink, DaemonEnds
<1> QED
  BY <1>0, <1>1, <1>2, <1>3, <1>4, <1>5, <1>6, <1>7
     DEF Next, Daemon, ScreenThread, ClientThread, User, UpdateReq

LEMMA LateStep ==
  ASSUME Typed, Next
  PROVE  late' \in {<<>>} \cup {<<m>> : m \in Message}
<1>0. late \in {<<>>} \cup {<<m>> : m \in Message}
  BY DEF Typed, Queues
<1>1. CASE Connect \/ ExitClient \/ OtherArrives
  BY <1>1 DEF Connect, ExitClient, OtherArrives
<1>2. CASE UpdateSend
  BY <1>2, UpdateTyped
<1>3. ASSUME
        \/ ScreenChanges \/ TDHold \/ TDCommand \/ TDSwallow \/ TDOther
        \/ TDProcess \/ TDWindowEnds \/ DaemonLost
        \/ (\E t \in Threads : UpdTest(t)) \/ (\E t \in Threads : UpdReset(t))
        \/ (\E t \in Threads : UpdSend(t)) \/ (\E t \in Threads : UpdGiveUp(t))
        \/ SelectTimeout \/ ReadHeader \/ StoreFrame \/ GiveUpFrame \/ ReadEnd
        \/ Leave \/ RestartDone \/ RestartFails \/ End \/ Stop \/ NewClient
        \/ GetScreenBuf \/ UpdateWait \/ UpdateTake \/ TouchStart
        \/ TouchWrite \/ TransferStart \/ TransferEnd \/ ClientReady
        \/ ScreenCapture \/ ReadTooBig \/ Report
      PROVE  UNCHANGED late
  BY <1>3 DEF ScreenChanges, TDHold, TDCommand, TDSwallow, TDOther, TDProcess,
  TDWindowEnds, DaemonLost, UpdTest, UpdReset, UpdSend, UpdGiveUp,
  SelectTimeout, ReadHeader, StoreFrame, GiveUpFrame, ReadEnd, Leave,
  RestartDone, RestartFails, End, Stop, NewClient, GetScreenBuf, UpdateWait,
  UpdateTake, TouchStart, TouchWrite, TransferStart, TransferEnd, ClientReady,
  ScreenCapture, ReadTooBig, Report, Arrives, CloseLink, DaemonEnds, TakesAsk
<1> QED
  BY <1>0, <1>1, <1>2, <1>3
     DEF Next, Daemon, ScreenThread, ClientThread, User, UpdateReq

LEMMA TouchingStep ==
  ASSUME Typed, Next PROVE Touching'
<1>0. /\ touched <= events /\ (cli = "touch" <=> touching # 0)
      /\ touched \in Nat /\ events \in Nat
      /\ screen \in Versions
  BY BoundsAssumption DEF Typed, Scalars, Touching
<1>1. ASSUME UNCHANGED <<touched, cli, touching>>, events' = events \/ External
      PROVE  Touching'
  BY <1>0, <1>1 DEF Touching, External
<1>2. ASSUME
        \/ ScreenChanges \/ TDHold \/ TDSwallow
        \/ (\E t \in Threads : UpdTest(t)) \/ (\E t \in Threads : UpdReset(t))
        \/ (\E t \in Threads : UpdSend(t)) \/ (\E t \in Threads : UpdGiveUp(t))
        \/ SelectTimeout \/ ReadHeader \/ StoreFrame \/ ReadEnd \/ Leave
        \/ RestartDone \/ End \/ TransferEnd \/ DaemonLost \/ GiveUpFrame
        \/ RestartFails \/ Stop \/ TransferStart \/ ScreenCapture
        \/ ReadTooBig \/ Report \/ OtherArrives
      PROVE  Touching'
  <2>1. UNCHANGED <<touched, cli, touching>>
    BY <1>2 DEF ScreenChanges, TDHold, TDSwallow, UpdTest, UpdReset, UpdSend,
    UpdGiveUp, SelectTimeout, ReadHeader, StoreFrame, ReadEnd, Leave,
    RestartDone, End, TransferEnd, DaemonLost, GiveUpFrame, RestartFails, Stop,
    TransferStart, ScreenCapture, ReadTooBig, Report, OtherArrives, Arrives
  <2>2. events' = events \/ External
    BY <1>2 DEF ScreenChanges, TDHold, TDSwallow, UpdTest, UpdReset, UpdSend,
    UpdGiveUp, SelectTimeout, ReadHeader, StoreFrame, ReadEnd, Leave,
    RestartDone, End, TransferEnd, DaemonLost, GiveUpFrame, RestartFails, Stop,
    TransferStart, ScreenCapture, ReadTooBig, Report, OtherArrives, Arrives
  <2> QED
    BY <1>1, <2>1, <2>2
<1>3. CASE TDCommand
  <2>1. events <= events' /\ events' \in 0 .. MaxEvents
    BY <1>3, ProcessTyped, Commands, ArrivesTyped DEF TDCommand, Typed, Scalars
  <2>2. UNCHANGED <<touched, cli, touching>>
    BY <1>3 DEF TDCommand, Arrives
  <2> QED
    BY <1>0, <2>1, <2>2 DEF Touching
<1>4. CASE TDOther
  <2>1. events <= events' /\ events' \in 0 .. MaxEvents
    BY <1>4, ProcessTyped, Commands, ArrivesTyped DEF TDOther, Typed, Scalars
  <2>2. UNCHANGED <<touched, cli, touching>>
    BY <1>4 DEF TDOther, Arrives
  <2> QED
    BY <1>0, <2>1, <2>2 DEF Touching
<1>5. CASE TDProcess
  <2>1. events <= events' /\ events' \in 0 .. MaxEvents
    BY <1>5, ProcessTyped, Commands DEF TDProcess, Typed, Scalars
  <2>2. UNCHANGED <<touched, cli, touching>>
    BY <1>5 DEF TDProcess
  <2> QED
    BY <1>0, <2>1, <2>2 DEF Touching
<1>6. CASE TDWindowEnds
  <2>1. events <= events' /\ events' \in 0 .. MaxEvents
    BY <1>6, ProcessTyped, Commands DEF TDWindowEnds, Typed, Scalars
  <2>2. UNCHANGED <<touched, cli, touching>>
    BY <1>6 DEF TDWindowEnds
  <2> QED
    BY <1>0, <2>1, <2>2 DEF Touching
<1>7. CASE Connect
  BY <1>0, <1>7 DEF Connect, Touching
<1>8. CASE NewClient
  BY <1>0, <1>8 DEF NewClient, Touching
<1>9. CASE GetScreenBuf
  BY <1>0, <1>9 DEF GetScreenBuf, TakesAsk, Touching
<1>10. CASE UpdateWait
  BY <1>0, <1>10 DEF UpdateWait, Touching
<1>11. CASE UpdateTake
  BY <1>0, <1>11 DEF UpdateTake, Touching
<1>12. CASE UpdateSend
  <2>1. events <= events' /\ events' \in 0 .. MaxEvents
    BY <1>12, UpdateTyped
  <2>2. UNCHANGED <<touched, touching>> /\ cli = "send" /\ cli' = "idle"
    BY <1>12 DEF UpdateSend
  <2> QED
    BY <1>0, <2>1, <2>2 DEF Touching
<1>13. CASE TouchStart
  BY <1>0, <1>13 DEF TouchStart, External, Touching
<1>14. CASE TouchWrite
  BY <1>0, <1>14 DEF TouchWrite, Touching
<1>15. CASE ExitClient
  BY <1>0, <1>15 DEF ExitClient, Touching
<1>16. CASE ClientReady
  BY <1>0, <1>16 DEF ClientReady, Touching
<1> QED
  BY <1>2, <1>3, <1>4, <1>5, <1>6, <1>7, <1>8, <1>9, <1>10, <1>11, <1>12,
  <1>13, <1>14, <1>15, <1>16
     DEF Next, Daemon, ScreenThread, ClientThread, User, UpdateReq

LEMMA TypedStays ==
  ASSUME Typed, [Next]_vars PROVE Typed'
<1>1. CASE Next
  <2>1. Queues'
    BY <1>1, ToDeviceStep, ToAgentStep, ToServiceStep, LateStep DEF Queues
  <2> QED
    BY <1>1, <2>1, ScalarsStep, TouchingStep DEF Typed
<1>2. CASE UNCHANGED vars
  BY <1>2 DEF vars, Typed, Queues, Scalars, Touching
<1> QED
  BY <1>1, <1>2

(* Every variable keeps its type, whatever is lost, given up or restarted; *)
(* the restarts of the daemon stay within their number.                    *)
THEOREM TypeCorrect == Spec => []TypeOK
<1>1. Init => Typed
  BY InitTyped
<1>2. Typed /\ [Next]_vars => Typed'
  BY TypedStays
<1>3. Typed => TypeOK
  BY TypeSplits DEF Typed
<1> QED
  BY <1>1, <1>2, <1>3, PTL DEF Spec

(* The touches of Path: h, q and w are the command that the daemon holds,  *)
(* the queue and the touch that is written; a and t count the touches that *)
(* were injected and made; b tells whether the connection has lasted.      *)
Kept(b, h, q, w, a, t) ==
  /\ a <= t
  /\ h \in {0} \cup a + 1 .. t /\ w \in {0} \cup a + 1 .. t
  /\ \A i \in 1 .. Len(q) : q[i].touch \in {0} \cup a + 1 .. t
  /\ b => \A n \in a + 1 .. t : \/ h = n \/ w = n
                                \/ \E i \in 1 .. Len(q) : q[i].touch = n
  /\ \A i, j \in 1 .. Len(q) :
       i < j /\ q[i].touch # 0 /\ q[j].touch # 0 => q[i].touch < q[j].touch
  /\ h # 0 => /\ \A i \in 1 .. Len(q) : q[i].touch # 0 => h < q[i].touch
              /\ w # 0 => h < w
  /\ w # 0 => \A i \in 1 .. Len(q) : q[i].touch # 0 => q[i].touch < w

(* Path, element by element.                                               *)
LEMMA PathElements ==
  ASSUME NEW q \in Seq(Command), NEW h \in Command, NEW w \in 0 .. MaxEvents
  PROVE  /\ Len(<<h>> \o q \o <<Touch(w)>>) = Len(q) + 2
         /\ (<<h>> \o q \o <<Touch(w)>>)[1] = h
         /\ \A i \in 1 .. Len(q) :
              (<<h>> \o q \o <<Touch(w)>>)[i + 1] = q[i]
         /\ (<<h>> \o q \o <<Touch(w)>>)[Len(q) + 2] = Touch(w)
OBVIOUS

LEMMA KeptIsOrdered ==
  ASSUME NEW b \in BOOLEAN, NEW q \in Seq(Command), NEW h \in Command,
         NEW w \in 0 .. MaxEvents,
         NEW a \in Nat, NEW t \in Nat, Kept(b, h.touch, q, w, a, t)
  PROVE  LET p == <<h>> \o q \o <<Touch(w)>> IN
         /\ b => \A n \in a + 1 .. t : \E i \in 1 .. Len(p) : p[i].touch = n
         /\ \A i \in 1 .. Len(p) : p[i].touch \in {0} \cup a + 1 .. t
         /\ \A i, j \in 1 .. Len(p) :
              (i < j /\ p[i].touch # 0 /\ p[j].touch # 0)
                => p[i].touch < p[j].touch
<1> DEFINE p == <<h>> \o q \o <<Touch(w)>>
           m == Len(q)
           T(i) == p[i].touch
<1>1. m \in Nat /\ Len(p) = m + 2
  BY PathElements
<1>2. T(1) = h.touch /\ T(m + 2) = w
  BY PathElements DEF Touch
<1>3. \A i \in 1 .. m : T(i + 1) = q[i].touch
  BY PathElements
<1>4. \A i \in 1 .. Len(p) :
        i = 1 \/ i = m + 2 \/ (i - 1 \in 1 .. m /\ T(i) = q[i - 1].touch)
  BY <1>1, <1>3
<1>5. /\ h.touch \in 0 .. MaxEvents
      /\ \A i \in 1 .. m : q[i].touch \in 0 .. MaxEvents
  BY Commands
<1> HIDE DEF p, T
<1>6. \A i \in 1 .. Len(p) : T(i) \in {0} \cup a + 1 .. t
  BY <1>2, <1>4 DEF Kept
<1>7. ASSUME b, NEW n \in a + 1 .. t
      PROVE  \E i \in 1 .. Len(p) : T(i) = n
  <2>1. CASE h.touch = n
    BY <1>1, <1>2, <2>1
  <2>2. CASE w = n
    BY <1>1, <1>2, <2>2
  <2>3. CASE \E i \in 1 .. m : q[i].touch = n
    <3>1. PICK i \in 1 .. m : q[i].touch = n
      BY <2>3
    <3>2. T(i + 1) = n /\ i + 1 \in 1 .. Len(p)
      BY <1>1, <1>3, <3>1
    <3> QED
      BY <3>2
  <2> QED
    BY <1>7, <2>1, <2>2, <2>3 DEF Kept
<1>8. ASSUME NEW i \in 1 .. Len(p), NEW j \in 1 .. Len(p),
             i < j, T(i) # 0, T(j) # 0
      PROVE  T(i) < T(j)
  <2>1. CASE i = 1 /\ j = m + 2
    BY <1>2, <1>8, <2>1 DEF Kept
  <2>2. CASE i = 1 /\ j - 1 \in 1 .. m /\ T(j) = q[j - 1].touch
    BY <1>2, <1>8, <2>2 DEF Kept
  <2>3. CASE i - 1 \in 1 .. m /\ T(i) = q[i - 1].touch /\ j = m + 2
    BY <1>2, <1>8, <2>3 DEF Kept
  <2>4. CASE /\ i - 1 \in 1 .. m /\ T(i) = q[i - 1].touch
             /\ j - 1 \in 1 .. m /\ T(j) = q[j - 1].touch
    <3>1. i - 1 < j - 1
      BY <1>8
    <3> QED
      BY <1>8, <2>4, <3>1 DEF Kept
  <2> QED
    BY <1>1, <1>4, <1>8, <2>1, <2>2, <2>3, <2>4
<1> QED
  BY <1>6, <1>7, <1>8 DEF p, T

(* What the steps do to the touches.                                       *)
LEMMA Elements ==
  ASSUME NEW q \in Seq(Command)
  PROVE  /\ Len(q) \in Nat
         /\ \A m \in Command :
              /\ Len(Append(q, m)) = Len(q) + 1
              /\ \A i \in 1 .. Len(q) : Append(q, m)[i] = q[i]
              /\ Append(q, m)[Len(q) + 1] = m
         /\ q # <<>> =>
              /\ Len(q) >= 1 /\ Head(q) = q[1]
              /\ Len(Tail(q)) = Len(q) - 1
              /\ \A i \in 1 .. Len(q) - 1 : Tail(q)[i] = q[i + 1]
         /\ \A i \in 1 .. Len(q) : q[i].touch \in 0 .. MaxEvents
BY Commands

LEMMA Asked ==
  ASSUME NEW b \in BOOLEAN, NEW q \in Seq(Command), NEW m \in {Half, Full},
         NEW h \in Nat, NEW w \in Nat, NEW a \in Nat, NEW t \in Nat,
         Kept(b, h, q, w, a, t)
  PROVE  Kept(b, h, Append(q, m), w, a, t)
<1>1. m \in Command /\ m.touch = 0
  BY Commands
<1> DEFINE r == Append(q, m)
<1>2. /\ Len(q) \in Nat /\ Len(r) = Len(q) + 1
      /\ \A i \in 1 .. Len(q) : r[i].touch = q[i].touch
      /\ r[Len(q) + 1].touch = 0
  BY <1>1, Elements
<1>3. \A i \in 1 .. Len(r) : r[i].touch # 0 => i \in 1 .. Len(q)
  BY <1>2
<1> HIDE DEF r
<1>4. \A i \in 1 .. Len(r) : r[i].touch \in {0} \cup a + 1 .. t
  BY <1>2, <1>3 DEF Kept
<1>5. b => \A n \in a + 1 .. t :
        h = n \/ w = n \/ \E i \in 1 .. Len(r) : r[i].touch = n
  <2>1. 1 .. Len(q) \subseteq 1 .. Len(r)
    BY <1>2
  <2> QED
    BY <1>2, <2>1 DEF Kept
<1> QED
  BY <1>2, <1>3, <1>4, <1>5 DEF Kept, r

LEMMA TouchBegins ==
  ASSUME NEW b \in BOOLEAN, NEW q \in Seq(Command),
         NEW h \in Nat, NEW a \in Nat, NEW t \in Nat, Kept(b, h, q, 0, a, t)
  PROVE  Kept(b, h, q, t + 1, a, t + 1)
<1>1. Len(q) \in Nat /\ \A i \in 1 .. Len(q) : q[i].touch \in 0 .. MaxEvents
  BY Elements
<1>2. \A n \in a + 1 .. t + 1 : n = t + 1 \/ n \in a + 1 .. t
  OBVIOUS
<1>3. /\ a <= t /\ h \in {0} \cup a + 1 .. t
      /\ \A i \in 1 .. Len(q) : q[i].touch \in {0} \cup a + 1 .. t
  BY DEF Kept
<1>4. /\ a <= t + 1 /\ t + 1 \in {0} \cup a + 1 .. t + 1
      /\ h \in {0} \cup a + 1 .. t + 1
  BY <1>3
<1>5. \A i \in 1 .. Len(q) : q[i].touch \in {0} \cup a + 1 .. t + 1
  BY <1>3
<1>6. b => \A n \in a + 1 .. t + 1 : \/ h = n \/ t + 1 = n
                                     \/ \E i \in 1 .. Len(q) : q[i].touch = n
  BY <1>2 DEF Kept
<1>7. \A i \in 1 .. Len(q) : q[i].touch # 0 => q[i].touch < t + 1
  BY <1>3
<1>8. h # 0 => /\ \A i \in 1 .. Len(q) : q[i].touch # 0 => h < q[i].touch
               /\ h < t + 1
  BY <1>3 DEF Kept
<1>9. \A i, j \in 1 .. Len(q) :
        i < j /\ q[i].touch # 0 /\ q[j].touch # 0 => q[i].touch < q[j].touch
  BY DEF Kept
<1> QED
  BY <1>4, <1>5, <1>6, <1>7, <1>8, <1>9 DEF Kept

LEMMA TouchEnds ==
  ASSUME NEW b \in BOOLEAN, NEW q \in Seq(Command), NEW w \in Touches,
         NEW h \in Nat, NEW a \in Nat, NEW t \in Nat, Kept(b, h, q, w, a, t)
  PROVE  Kept(b, h, Append(q, Touch(w)), 0, a, t)
<1>1. Touch(w) \in Command /\ Touch(w).touch = w /\ w # 0 /\ w \in Nat
  BY Commands, BoundsAssumption DEF Touch, Touches
<1> DEFINE r == Append(q, Touch(w))
<1>2. /\ Len(q) \in Nat /\ Len(r) = Len(q) + 1
      /\ \A i \in 1 .. Len(q) : r[i].touch = q[i].touch
      /\ r[Len(q) + 1].touch = w
  BY <1>1, Elements
<1>3. \A i \in 1 .. Len(r) : i \in 1 .. Len(q) \/ i = Len(q) + 1
  BY <1>2
<1> HIDE DEF r
<1>4. \A i \in 1 .. Len(r) : r[i].touch \in {0} \cup a + 1 .. t
  BY <1>2, <1>3 DEF Kept
<1>5. b => \A n \in a + 1 .. t :
        h = n \/ \E i \in 1 .. Len(r) : r[i].touch = n
  <2>1. Len(q) + 1 \in 1 .. Len(r) /\ 1 .. Len(q) \subseteq 1 .. Len(r)
    BY <1>2
  <2> QED
    BY <1>2, <2>1 DEF Kept
<1>6. \A i, j \in 1 .. Len(r) :
        i < j /\ r[i].touch # 0 /\ r[j].touch # 0 => r[i].touch < r[j].touch
  BY <1>1, <1>2, <1>3 DEF Kept
<1>7. h # 0 => \A i \in 1 .. Len(r) : r[i].touch # 0 => h < r[i].touch
  BY <1>1, <1>2, <1>3 DEF Kept
<1> QED
  BY <1>4, <1>5, <1>6, <1>7 DEF Kept, r

(* The first command is taken, and held or carried out.                    *)
LEMMA Taken ==
  ASSUME NEW b \in BOOLEAN, NEW q \in Seq(Command), q # <<>>,
         NEW w \in Nat, NEW a \in Nat, NEW t \in Nat, Kept(b, 0, q, w, a, t)
  PROVE  Kept(b, Head(q).touch, Tail(q), w, a, t)
<1> DEFINE r == Tail(q)
           x == Head(q).touch
<1>1. /\ Len(q) \in Nat /\ Len(q) >= 1 /\ x = q[1].touch
      /\ Len(r) = Len(q) - 1
      /\ \A i \in 1 .. Len(r) :
           i + 1 \in 1 .. Len(q) /\ r[i].touch = q[i + 1].touch
  BY Elements
<1>2. \A i \in 2 .. Len(q) :
        i - 1 \in 1 .. Len(r) /\ r[i - 1].touch = q[i].touch
  BY <1>1
<1> HIDE DEF r, x
<1>3. x \in {0} \cup a + 1 .. t
  BY <1>1 DEF Kept
<1>4. \A i \in 1 .. Len(r) : r[i].touch \in {0} \cup a + 1 .. t
  BY <1>1 DEF Kept
<1>5. ASSUME b, NEW n \in a + 1 .. t
      PROVE  x = n \/ w = n \/ \E i \in 1 .. Len(r) : r[i].touch = n
  <2>1. CASE w = n
    BY <2>1
  <2>2. CASE \E i \in 1 .. Len(q) : q[i].touch = n
    <3>1. PICK i \in 1 .. Len(q) : q[i].touch = n
      BY <2>2
    <3>2. CASE i = 1
      BY <1>1, <3>1, <3>2
    <3>3. CASE i \in 2 .. Len(q)
      BY <1>2, <3>1, <3>3
    <3> QED
      BY <1>1, <3>2, <3>3
  <2>3. n # 0
    OBVIOUS
  <2> QED
    BY <1>5, <2>1, <2>2, <2>3 DEF Kept
<1>6. \A i, j \in 1 .. Len(r) :
        i < j /\ r[i].touch # 0 /\ r[j].touch # 0 => r[i].touch < r[j].touch
  <2>1. \A i, j \in 1 .. Len(r) : i < j => i + 1 < j + 1
    BY <1>1
  <2> QED
    BY <1>1, <2>1 DEF Kept
<1>7. x # 0 => /\ \A i \in 1 .. Len(r) : r[i].touch # 0 => x < r[i].touch
               /\ w # 0 => x < w
  <2>1. 1 \in 1 .. Len(q) /\ \A i \in 1 .. Len(r) : 1 < i + 1
    BY <1>1
  <2> QED
    BY <1>1, <2>1 DEF Kept
<1>8. w # 0 => \A i \in 1 .. Len(r) : r[i].touch # 0 => r[i].touch < w
  BY <1>1 DEF Kept
<1> QED
  BY <1>3, <1>4, <1>5, <1>6, <1>7, <1>8 DEF Kept, r, x

LEMMA Injected ==
  ASSUME NEW b \in BOOLEAN, NEW q \in Seq(Command),
         NEW h \in Nat, NEW w \in Nat, NEW a \in Nat, NEW t \in Nat,
         Kept(b, h, q, w, a, t)
  PROVE  Kept(b, 0, q, w, IF h # 0 THEN h ELSE a, t)
<1>1. CASE h = 0
  BY <1>1
<1>2. CASE h # 0
  <2>1. Len(q) \in Nat /\ \A i \in 1 .. Len(q) : q[i].touch \in 0 .. MaxEvents
    BY Elements
  <2>2. h <= t /\ a < h
    BY <1>2 DEF Kept
  <2>3. \A i \in 1 .. Len(q) : q[i].touch \in {0} \cup h + 1 .. t
    BY <1>2, <2>1 DEF Kept
  <2>4. w \in {0} \cup h + 1 .. t
    BY <1>2 DEF Kept
  <2>5. b => \A n \in h + 1 .. t :
               w = n \/ \E i \in 1 .. Len(q) : q[i].touch = n
    BY <1>2, <2>2 DEF Kept
  <2> QED
    BY <1>2, <2>2, <2>3, <2>4, <2>5 DEF Kept
<1> QED
  BY <1>1, <1>2

(* A request for a picture that is taken leaves the touches as they are.   *)
LEMMA Dropped ==
  ASSUME NEW b \in BOOLEAN, NEW q \in Seq(Command), q # <<>>, Head(q).touch = 0,
         NEW h \in Nat, NEW w \in Nat, NEW a \in Nat, NEW t \in Nat,
         Kept(b, h, q, w, a, t)
  PROVE  Kept(b, h, Tail(q), w, a, t)
<1> DEFINE r == Tail(q)
<1>1. /\ Len(q) \in Nat /\ Len(q) >= 1 /\ q[1].touch = 0
      /\ Len(r) = Len(q) - 1
      /\ \A i \in 1 .. Len(r) :
           i + 1 \in 1 .. Len(q) /\ r[i].touch = q[i + 1].touch
  BY Elements
<1>2. \A i \in 2 .. Len(q) :
        i - 1 \in 1 .. Len(r) /\ r[i - 1].touch = q[i].touch
  BY <1>1
<1> HIDE DEF r
<1>3. \A i \in 1 .. Len(r) : r[i].touch \in {0} \cup a + 1 .. t
  BY <1>1 DEF Kept
<1>4. ASSUME b, NEW n \in a + 1 .. t
      PROVE  h = n \/ w = n \/ \E i \in 1 .. Len(r) : r[i].touch = n
  <2>1. CASE h = n \/ w = n
    BY <2>1
  <2>2. CASE \E i \in 1 .. Len(q) : q[i].touch = n
    <3>1. PICK i \in 1 .. Len(q) : q[i].touch = n
      BY <2>2
    <3>2. i \in 2 .. Len(q)
      BY <1>1, <3>1
    <3> QED
      BY <1>2, <3>1, <3>2
  <2> QED
    BY <1>4, <2>1, <2>2 DEF Kept
<1>5. \A i, j \in 1 .. Len(r) :
        i < j /\ r[i].touch # 0 /\ r[j].touch # 0 => r[i].touch < r[j].touch
  <2>1. \A i, j \in 1 .. Len(r) : i < j => i + 1 < j + 1
    BY <1>1
  <2>2. \A i, j \in 1 .. Len(q) :
          i < j /\ q[i].touch # 0 /\ q[j].touch # 0
            => q[i].touch < q[j].touch
    BY DEF Kept
  <2> QED
    BY <1>1, <2>1, <2>2
<1>6. h # 0 => \A i \in 1 .. Len(r) : r[i].touch # 0 => h < r[i].touch
  BY <1>1 DEF Kept
<1>7. w # 0 => \A i \in 1 .. Len(r) : r[i].touch # 0 => r[i].touch < w
  BY <1>1 DEF Kept
<1>8. a <= t /\ h \in {0} \cup a + 1 .. t /\ w \in {0} \cup a + 1 .. t
      /\ (h # 0 /\ w # 0 => h < w)
  BY DEF Kept
<1> QED
  BY <1>3, <1>4, <1>5, <1>6, <1>7, <1>8 DEF Kept, r

(* The connection has gone: the touch that is being written then is lost,  *)
(* or nothing but that touch is left.                                      *)
LEMMA WriteLost ==
  ASSUME NEW q \in Seq(Command),
         NEW h \in Nat, NEW w \in Nat, NEW a \in Nat, NEW t \in Nat,
         Kept(FALSE, h, q, w, a, t)
  PROVE  Kept(FALSE, h, q, 0, a, t)
BY DEF Kept

LEMMA AllLost ==
  ASSUME NEW b \in BOOLEAN, NEW q \in Seq(Command),
         NEW h \in Nat, NEW w \in Nat, NEW a \in Nat, NEW t \in Nat,
         Kept(b, h, q, w, a, t)
  PROVE  Kept(FALSE, 0, <<>>, w, a, t)
BY DEF Kept

(* The daemon holds a command only between the wait for another 'h' and    *)
(* the command's turn. The touches on the path have not been injected, are *)
(* there once and in order; while the connection lasts, none is missing.   *)
IInv ==
  /\ Typed
  /\ td # "process" => held = Half
  /\ intact => link = "up"
  /\ Kept(intact, held.touch, toDevice, touching, acted, touched)

LEMMA Counts ==
  ASSUME Typed
  PROVE  /\ toDevice \in Seq(Command) /\ held \in Command
         /\ held.touch \in Nat /\ touching \in 0 .. MaxEvents
         /\ touching \in Nat /\ acted \in Nat /\ touched \in Nat
         /\ intact \in BOOLEAN
<1>1. /\ toDevice \in Seq(Command) /\ held \in Command
      /\ touching \in 0 .. MaxEvents
      /\ acted \in 0 .. MaxEvents /\ touched \in 0 .. MaxEvents
      /\ intact \in BOOLEAN
  BY DEF Typed, Queues, Scalars
<1>2. held.touch \in 0 .. MaxEvents
  BY <1>1, Commands
<1> QED
  BY <1>1, <1>2, BoundsAssumption

LEMMA InitKept ==
  ASSUME Init PROVE IInv
<1>1. held = Half /\ held.touch = 0
  BY Commands DEF Init
<1>2. Kept(intact, held.touch, toDevice, touching, acted, touched)
  BY <1>1 DEF Init, Kept
<1> QED
  BY <1>1, <1>2, InitTyped DEF Init, IInv

LEMMA KeptStays ==
  ASSUME IInv, Next
  PROVE  /\ td' # "process" => held' = Half
         /\ intact' => link' = "up"
         /\ Kept(intact, held.touch, toDevice, touching, acted, touched)'
<1> DEFINE Goal == /\ td' # "process" => held' = Half
                   /\ intact' => link' = "up"
                   /\ Kept(intact', held'.touch, toDevice', touching', acted',
                           touched')
           K(h, q, w, a, n) == Kept(intact, h, q, w, a, n)
<1>1. /\ Typed /\ (td # "process" => held = Half)
      /\ intact => link = "up"
      /\ K(held.touch, toDevice, touching, acted, touched)
      /\ Half.touch = 0 /\ Half.cmd = "h" /\ Full.touch = 0
      /\ Half \in Command
  BY Commands DEF IInv
<1>2. /\ toDevice \in Seq(Command) /\ held \in Command
      /\ held.touch \in Nat /\ touching \in 0 .. MaxEvents
      /\ touching \in Nat /\ acted \in Nat /\ touched \in Nat
      /\ intact \in BOOLEAN
  BY <1>1, Counts
<1>3. CASE TDHold \/ TDSwallow
  <2>1. /\ toDevice # <<>> /\ Head(toDevice) = Half
        /\ toDevice' = Tail(toDevice)
        /\ UNCHANGED <<held, acted, link, intact, touching, touched>>
        /\ td # "process" /\ (td' = td \/ td' = "window")
    BY <1>3 DEF TDHold, TDSwallow, Arrives
  <2>2. K(held.touch, Tail(toDevice), touching, acted, touched)
    BY <1>1, <1>2, <2>1, Dropped
  <2> QED
    BY <1>1, <2>1, <2>2
<1>4. CASE TDCommand
  <2> DEFINE m == Head(toDevice)
  <2>1. /\ toDevice # <<>> /\ m \in Command /\ toDevice' = Tail(toDevice)
        /\ toDevice' \in Seq(Command)
    BY <1>1, <1>4, ArrivesTyped DEF TDCommand
  <2>2. /\ UNCHANGED <<td, held, link, intact, touching, touched>>
        /\ td = "select" /\ ProcessClientMessage(m)
    BY <1>4 DEF TDCommand, Arrives
  <2>3. acted' = IF m.touch # 0 THEN m.touch ELSE acted
    BY <1>1, <2>1, <2>2, ProcessTyped, Commands
  <2>4. K(m.touch, Tail(toDevice), touching, acted, touched)
    BY <1>1, <1>2, <2>1, <2>2, Taken
  <2>5. m.touch \in Nat
    BY <2>1, Commands, BoundsAssumption
  <2> HIDE DEF m
  <2>6. K(0, Tail(toDevice), touching,
          IF m.touch # 0 THEN m.touch ELSE acted, touched)
    BY <1>2, <2>1, <2>4, <2>5, Injected
  <2> QED
    BY <1>1, <2>1, <2>2, <2>3, <2>6
<1>5. CASE TDOther
  <2> DEFINE m == Head(toDevice)
  <2>1. /\ toDevice # <<>> /\ m \in Command /\ toDevice' = Tail(toDevice)
    BY <1>1, <1>5, ArrivesTyped DEF TDOther
  <2>2. /\ UNCHANGED <<link, intact, touching, touched>>
        /\ td = "window" /\ td' = "process" /\ held' = m
        /\ ProcessClientMessage(Half)
    BY <1>5 DEF TDOther, Arrives
  <2>3. acted' = acted
    BY <1>1, <2>2, ProcessTyped
  <2>4. K(m.touch, Tail(toDevice), touching, acted, touched)
    BY <1>1, <1>2, <2>1, <2>2, Taken
  <2> QED
    BY <1>1, <2>1, <2>2, <2>3, <2>4
<1>6. CASE TDProcess
  <2>1. /\ UNCHANGED <<link, intact, toDevice, touching, touched>>
        /\ held' = Half /\ td' = "select" /\ ProcessClientMessage(held)
    BY <1>6 DEF TDProcess
  <2>2. acted' = IF held.touch # 0 THEN held.touch ELSE acted
    BY <1>1, <1>2, <2>1, ProcessTyped, Commands
  <2>3. K(0, toDevice, touching,
          IF held.touch # 0 THEN held.touch ELSE acted, touched)
    BY <1>1, <1>2, Injected
  <2> QED
    BY <1>1, <2>1, <2>2, <2>3
<1>7. CASE TDWindowEnds
  <2>1. /\ UNCHANGED <<held, link, intact, toDevice, touching, touched>>
        /\ td = "window" /\ ProcessClientMessage(Half)
    BY <1>7 DEF TDWindowEnds
  <2>2. acted' = acted
    BY <1>1, <2>1, ProcessTyped
  <2> QED
    BY <1>1, <2>1, <2>2
<1>8. CASE \E t \in Threads : UpdSend(t)
  <2>1. PICK t \in Threads : UpdSend(t)
    BY <1>8
  <2>2. /\ UNCHANGED <<td, held, acted, link, intact, touching, touched>>
        /\ toDevice' = IF link = "up" THEN Append(toDevice, cmd[t])
                                      ELSE toDevice
    BY <2>1 DEF UpdSend, Write
  <2>3. cmd[t] \in {Half, Full}
    BY <1>1 DEF Typed, Scalars
  <2>4. K(held.touch, Append(toDevice, cmd[t]), touching, acted, touched)
    BY <1>1, <1>2, <2>3, Asked
  <2> QED
    BY <1>1, <2>2, <2>4
<1>9. CASE TouchStart
  <2>1. /\ UNCHANGED <<td, held, acted, link, intact, toDevice>>
        /\ cli = "idle" /\ touching' = touched + 1 /\ touched' = touched + 1
    BY <1>9 DEF TouchStart
  <2>2. touching = 0
    BY <1>1, <2>1 DEF Typed, Touching
  <2>3. K(held.touch, toDevice, touched + 1, acted, touched + 1)
    BY <1>1, <1>2, <2>2, TouchBegins
  <2> QED
    BY <1>1, <2>1, <2>3
<1>10. CASE TouchWrite
  <2>1. /\ UNCHANGED <<td, held, acted, link, intact, touched>>
        /\ cli = "touch" /\ touching' = 0
        /\ toDevice' = IF link = "up" THEN Append(toDevice, Touch(touching))
                                      ELSE toDevice
    BY <1>10 DEF TouchWrite, Write
  <2>2. touching \in Touches
    BY <1>1, <1>2, <2>1, BoundsAssumption DEF Typed, Touching, Touches
  <2>3. CASE link = "up"
    <3>1. K(held.touch, Append(toDevice, Touch(touching)), 0, acted, touched)
      BY <1>1, <1>2, <2>2, TouchEnds
    <3> QED
      BY <1>1, <2>1, <2>3, <3>1
  <2>4. CASE link # "up"
    <3>1. intact = FALSE
      BY <1>1, <1>2, <2>4
    <3>2. K(held.touch, toDevice, 0, acted, touched)
      BY <1>1, <1>2, <3>1, WriteLost
    <3> QED
      BY <1>1, <2>1, <2>4, <3>1, <3>2
  <2> QED
    BY <2>3, <2>4
<1>11. CASE DaemonLost \/ Leave \/ Stop
  <2>1. DaemonEnds /\ UNCHANGED <<acted, touching, touched>>
    BY <1>11 DEF DaemonLost, Leave, Stop, CloseLink
  <2>2. /\ intact' = FALSE /\ td' = "select" /\ held' = Half
        /\ toDevice' = <<>>
    BY <2>1 DEF DaemonEnds
  <2>3. Kept(FALSE, 0, <<>>, touching, acted, touched)
    BY <1>1, <1>2, AllLost
  <2> QED
    BY <1>1, <2>1, <2>2, <2>3
<1>12. ASSUME
        \/ ScreenChanges \/ (\E t \in Threads : UpdTest(t))
        \/ (\E t \in Threads : UpdReset(t))
        \/ (\E t \in Threads : UpdGiveUp(t)) \/ SelectTimeout \/ ReadHeader
        \/ StoreFrame \/ GiveUpFrame \/ ReadEnd \/ RestartDone \/ RestartFails
        \/ End \/ Connect \/ NewClient \/ GetScreenBuf \/ UpdateWait
        \/ UpdateTake \/ UpdateSend \/ TransferStart \/ TransferEnd
        \/ ExitClient \/ ClientReady \/ ScreenCapture
        \/ ReadTooBig \/ Report \/ OtherArrives
      PROVE  Goal
  <2>1. UNCHANGED <<td, held, acted, intact, toDevice, touching, touched>>
    BY <1>12 DEF ScreenChanges, UpdTest, UpdReset, UpdGiveUp,
    SelectTimeout, ReadHeader, StoreFrame, GiveUpFrame, ReadEnd, RestartDone,
    RestartFails, End, Connect, NewClient, GetScreenBuf, UpdateWait,
    UpdateTake, UpdateSend, TransferStart, TransferEnd, ExitClient,
    ClientReady, ScreenCapture, ReadTooBig, Report, OtherArrives, TakesAsk
  <2>2. link' = link \/ RestartDone
    BY <1>12 DEF ScreenChanges, UpdTest, UpdReset, UpdGiveUp,
    SelectTimeout, ReadHeader, StoreFrame, GiveUpFrame, ReadEnd, RestartFails,
    End, Connect, NewClient, GetScreenBuf, UpdateWait, UpdateTake, UpdateSend,
    TransferStart, TransferEnd, ExitClient, ClientReady, ScreenCapture,
    ReadTooBig, Report, OtherArrives, TakesAsk
  <2>3. link' = "up" \/ link' = link
    BY <2>2 DEF RestartDone
  <2> QED
    BY <1>1, <2>1, <2>3
<1> QED
  BY <1>3, <1>4, <1>5, <1>6, <1>7, <1>8, <1>9, <1>10, <1>11, <1>12
     DEF Next, Daemon, ScreenThread, ClientThread, User, UpdateReq

LEMMA Invariance == Spec => []IInv
<1>1. IInv /\ [Next]_vars => IInv'
  <2>1. CASE IInv /\ Next
    BY <2>1, KeptStays, TypedStays DEF IInv
  <2>2. CASE IInv /\ UNCHANGED vars
    <3>1. Typed'
      BY <2>2, TypedStays DEF IInv
    <3> QED
      BY <2>2, <3>1 DEF vars, IInv
  <2> QED
    BY <2>1, <2>2
<1> QED
  BY <1>1, InitKept, PTL DEF Spec

(* No touch is doubled or overtaken, whatever is lost or restarted, and    *)
(* none is lost while the connection with the daemon lasts: the requests   *)
(* for pictures that clientInput throws away in its millisecond never take *)
(* a touch with them, and the command that ends the wait is carried out    *)
(* after the picture and before the next.                                  *)
THEOREM TouchesKept == Spec => []CommandsKept
<1>1. IInv => CommandsKept
  <2> SUFFICES ASSUME IInv
               PROVE  CommandsKept
    OBVIOUS
  <2>1. Kept(intact, held.touch, toDevice, touching, acted, touched)
    BY DEF IInv
  <2> QED
    BY <2>1, Counts, KeptIsOrdered DEF IInv, CommandsKept, Path
<1> QED
  BY <1>1, Invariance, PTL

-----------------------------------------------------------------------------
(* Agent and daemon implement TouchRelay. The touches on the path, from    *)
(* the command that the daemon holds to the one that is written:           *)
Pend(h, q, w) == ({h, w} \cup {q[i].touch : i \in 1 .. Len(q)}) \ {0}

LEMMA PendPath ==
  ASSUME NEW q \in Seq(Command), NEW h \in Command, NEW w \in 0 .. MaxEvents
  PROVE  LET p == <<h>> \o q \o <<Touch(w)>> IN
         {p[i].touch : i \in 1 .. Len(p)} \ {0} = Pend(h.touch, q, w)
<1> DEFINE p == <<h>> \o q \o <<Touch(w)>>
           m == Len(q)
<1>1. m \in Nat /\ Len(p) = m + 2
  BY PathElements
<1>2. p[1].touch = h.touch /\ p[m + 2].touch = w
  BY PathElements DEF Touch
<1>3. \A i \in 1 .. m : p[i + 1].touch = q[i].touch
  BY PathElements
<1> HIDE DEF p
<1>4. ASSUME NEW i \in 1 .. Len(p)
      PROVE  p[i].touch \in {h.touch, w} \cup {q[j].touch : j \in 1 .. m}
  <2>1. i = 1 \/ i = m + 2 \/ (i - 1 \in 1 .. m /\ (i - 1) + 1 = i)
    BY <1>1
  <2> QED
    BY <1>2, <1>3, <2>1
<1>5. ASSUME NEW i \in 1 .. m
      PROVE  \E j \in 1 .. Len(p) : p[j].touch = q[i].touch
  <2>1. i + 1 \in 1 .. Len(p)
    BY <1>1
  <2> QED
    BY <1>3, <2>1
<1>6. /\ \E j \in 1 .. Len(p) : p[j].touch = h.touch
      /\ \E j \in 1 .. Len(p) : p[j].touch = w
  <2>1. 1 \in 1 .. Len(p) /\ m + 2 \in 1 .. Len(p)
    BY <1>1
  <2> QED
    BY <1>2, <2>1
<1>7. {p[i].touch : i \in 1 .. Len(p)}
        = {h.touch, w} \cup {q[j].touch : j \in 1 .. m}
  <2>1. ASSUME NEW x \in {h.touch, w} \cup {q[j].touch : j \in 1 .. m}
        PROVE  \E i \in 1 .. Len(p) : p[i].touch = x
    BY <1>5, <1>6
  <2> HIDE DEF m
  <2> QED
    BY ONLY <1>4, <2>1
<1> QED
  BY <1>7 DEF Pend, p

LEMMA PendSent ==
  ASSUME NEW q \in Seq(Command), NEW m \in Command, NEW h, NEW w
  PROVE  Pend(h, Append(q, m), w) = Pend(h, q, w) \cup ({m.touch} \ {0})
<1> DEFINE r == Append(q, m)
<1>1. /\ Len(q) \in Nat /\ Len(r) = Len(q) + 1
      /\ \A i \in 1 .. Len(q) : r[i].touch = q[i].touch
      /\ r[Len(q) + 1].touch = m.touch
  BY Elements
<1>2. /\ 1 .. Len(r) = 1 .. Len(q) \cup {Len(q) + 1}
  BY <1>1
<1> HIDE DEF r
<1>3. {r[i].touch : i \in 1 .. Len(r)}
        = {q[i].touch : i \in 1 .. Len(q)} \cup {m.touch}
  BY <1>1, <1>2
<1> QED
  BY <1>3 DEF Pend, r

LEMMA PendTaken ==
  ASSUME NEW q \in Seq(Command), q # <<>>, NEW w
  PROVE  /\ Pend(0, q, w) = Pend(Head(q).touch, Tail(q), w)
         /\ \A h : Head(q).touch = 0 => Pend(h, Tail(q), w) = Pend(h, q, w)
<1> DEFINE r == Tail(q)
           x == Head(q).touch
<1>1. /\ Len(q) \in Nat /\ Len(q) >= 1 /\ x = q[1].touch
      /\ Len(r) = Len(q) - 1
      /\ \A i \in 1 .. Len(r) :
           i + 1 \in 1 .. Len(q) /\ r[i].touch = q[i + 1].touch
  BY Elements
<1>2. \A i \in 2 .. Len(q) :
        i - 1 \in 1 .. Len(r) /\ r[i - 1].touch = q[i].touch
  BY <1>1
<1>3. 1 \in 1 .. Len(q) /\ \A i \in 1 .. Len(q) : i = 1 \/ i \in 2 .. Len(q)
  BY <1>1
<1> HIDE DEF r, x
<1>4. \A i \in 1 .. Len(q) :
        q[i].touch \in {x} \cup {r[j].touch : j \in 1 .. Len(r)}
  BY <1>1, <1>2, <1>3
<1>5. \A j \in 1 .. Len(r) : \E i \in 1 .. Len(q) : q[i].touch = r[j].touch
  BY <1>1
<1>6. {q[i].touch : i \in 1 .. Len(q)}
        = {x} \cup {r[i].touch : i \in 1 .. Len(r)}
  <2>1. \E i \in 1 .. Len(q) : q[i].touch = x
    BY <1>1, <1>3
  <2> DEFINE S == {q[i].touch : i \in 1 .. Len(q)}
             R == {r[i].touch : i \in 1 .. Len(r)}
  <2>2. \A y \in S : y \in {x} \cup R
    BY <1>4
  <2>3. x \in S /\ \A y \in R : y \in S
    BY <1>5, <2>1
  <2> HIDE DEF S, R
  <2>4. S = {x} \cup R
    BY <2>2, <2>3
  <2> QED
    BY <2>4 DEF S, R
<1> QED
  BY <1>6 DEF Pend, r, x

(* The touch that the daemon holds is the oldest.                          *)
LEMMA PendInjected ==
  ASSUME NEW b \in BOOLEAN, NEW q \in Seq(Command),
         NEW h \in Nat, NEW w \in Nat, NEW a \in Nat, NEW t \in Nat,
         Kept(b, h, q, w, a, t), h # 0
  PROVE  /\ h \in Pend(h, q, w)
         /\ \A n \in Pend(h, q, w) : h <= n
         /\ Pend(0, q, w) = Pend(h, q, w) \ {h}
<1>1. \A i \in 1 .. Len(q) : q[i].touch \in Nat
  BY Elements, BoundsAssumption
<1>2. /\ \A i \in 1 .. Len(q) : q[i].touch # 0 => h < q[i].touch
      /\ w # 0 => h < w
  BY DEF Kept
<1>3. \A n \in Pend(0, q, w) : n \in Nat /\ h < n
  BY <1>1, <1>2 DEF Pend
<1>4. Pend(h, q, w) = Pend(0, q, w) \cup {h}
  BY DEF Pend
<1>5. h \notin Pend(0, q, w)
  BY <1>3
<1> HIDE DEF Pend
<1> QED
  BY <1>3, <1>4, <1>5

LEMMA RelayStep ==
  ASSUME IInv, IInv', [Next]_vars
  PROVE  [Relay!Next]_(Relay!vars)
<1> DEFINE P == Pend(held.touch, toDevice, touching)
<1> USE DEF Relay!Next, Relay!Make, Relay!Inject, Relay!Lose, Relay!vars
<1>1. /\ Typed /\ (td # "process" => held = Half)
      /\ intact => link = "up"
      /\ Kept(intact, held.touch, toDevice, touching, acted, touched)
      /\ Half.touch = 0 /\ Half.cmd = "h" /\ Full.touch = 0
      /\ Half \in Command
  BY Commands DEF IInv
<1>2. /\ toDevice \in Seq(Command) /\ held \in Command
      /\ held.touch \in Nat /\ touching \in 0 .. MaxEvents
      /\ touching \in Nat /\ acted \in Nat /\ touched \in Nat
      /\ intact \in BOOLEAN
  BY <1>1, Counts
<1>3. OnPath = P
  BY <1>2, PendPath DEF OnPath, Path
<1>4. OnPath' = Pend(held'.touch, toDevice', touching')
  <2>1. /\ toDevice' \in Seq(Command) /\ held' \in Command
        /\ touching' \in 0 .. MaxEvents
    BY DEF IInv, Typed, Queues, Scalars
  <2> QED
    BY <2>1, PendPath DEF OnPath, Path
<1> HIDE DEF P
<1>5. CASE TDHold \/ TDSwallow
  <2>1. /\ toDevice # <<>> /\ Head(toDevice) = Half
        /\ toDevice' = Tail(toDevice)
        /\ UNCHANGED <<held, acted, intact, touching, touched>>
    BY <1>5 DEF TDHold, TDSwallow, Arrives
  <2>2. OnPath' = OnPath
    BY <1>1, <1>2, <1>3, <1>4, <2>1, PendTaken DEF P
  <2> QED
    BY <2>1, <2>2
<1>6. CASE TDCommand
  <2> DEFINE m == Head(toDevice)
             x == m.touch
  <2>1. /\ toDevice # <<>> /\ m \in Command /\ toDevice' = Tail(toDevice)
        /\ toDevice' \in Seq(Command)
    BY <1>1, <1>6, ArrivesTyped DEF TDCommand
  <2>2. /\ UNCHANGED <<held, intact, touching, touched>>
        /\ td = "select" /\ ProcessClientMessage(m)
    BY <1>6 DEF TDCommand, Arrives
  <2>3. acted' = IF x # 0 THEN x ELSE acted
    BY <1>1, <2>1, <2>2, ProcessTyped, Commands
  <2>4. Kept(intact, x, toDevice', touching, acted, touched)
    BY <1>1, <1>2, <2>1, <2>2, Taken
  <2>5. x \in Nat
    BY <2>1, Commands, BoundsAssumption
  <2>6. OnPath = Pend(x, toDevice', touching)
    BY <1>1, <1>2, <1>3, <2>1, <2>2, PendTaken DEF P
  <2>7. OnPath' = Pend(0, toDevice', touching)
    BY <1>1, <1>4, <2>2
  <2> HIDE DEF m, x
  <2>8. CASE x = 0
    BY <2>2, <2>3, <2>6, <2>7, <2>8
  <2>9. CASE x # 0
    <3> DEFINE S == Pend(x, toDevice', touching)
    <3>0. /\ toDevice' \in Seq(Command) /\ intact \in BOOLEAN
          /\ touching \in Nat /\ acted \in Nat /\ touched \in Nat
      BY <1>2, <2>1
    <3>1. /\ x \in S /\ \A n \in S : x <= n
          /\ Pend(0, toDevice', touching) = S \ {x}
      BY <3>0, <2>4, <2>5, <2>9, PendInjected
    <3> HIDE DEF S
    <3>2. /\ x \in OnPath /\ \A n \in OnPath : x <= n
          /\ OnPath' = OnPath \ {x}
      BY <2>6, <2>7, <3>1 DEF S
    <3> QED
      BY <2>2, <2>3, <2>9, <3>2
  <2> QED
    BY <2>8, <2>9
<1>7. CASE TDOther
  <2> DEFINE m == Head(toDevice)
  <2>1. /\ toDevice # <<>> /\ m \in Command /\ toDevice' = Tail(toDevice)
    BY <1>1, <1>7, ArrivesTyped DEF TDOther
  <2>2. /\ UNCHANGED <<intact, touching, touched>>
        /\ td = "window" /\ held' = m /\ ProcessClientMessage(Half)
    BY <1>7 DEF TDOther, Arrives
  <2>3. acted' = acted
    BY <1>1, <2>2, ProcessTyped
  <2>4. OnPath' = OnPath
    BY <1>1, <1>2, <1>3, <1>4, <2>1, <2>2, PendTaken DEF P
  <2> QED
    BY <2>2, <2>3, <2>4
<1>8. CASE TDProcess
  <2>1. /\ UNCHANGED <<intact, toDevice, touching, touched>>
        /\ held' = Half /\ ProcessClientMessage(held)
    BY <1>8 DEF TDProcess
  <2>2. acted' = IF held.touch # 0 THEN held.touch ELSE acted
    BY <1>1, <1>2, <2>1, ProcessTyped, Commands
  <2>3. OnPath' = Pend(0, toDevice, touching)
    BY <1>1, <1>4, <2>1
  <2>4. CASE held.touch = 0
    BY <1>3, <2>1, <2>2, <2>3, <2>4 DEF P
  <2>5. CASE held.touch # 0
    <3>1. /\ held.touch \in OnPath /\ \A n \in OnPath : held.touch <= n
          /\ OnPath' = OnPath \ {held.touch}
      BY <1>1, <1>2, <1>3, <2>3, <2>5, PendInjected DEF P
    <3> QED
      BY <2>1, <2>2, <2>5, <3>1
  <2> QED
    BY <2>4, <2>5
<1>9. CASE TDWindowEnds
  <2>1. /\ UNCHANGED <<held, intact, toDevice, touching, touched>>
        /\ ProcessClientMessage(Half)
    BY <1>9 DEF TDWindowEnds
  <2>2. acted' = acted
    BY <1>1, <2>1, ProcessTyped
  <2> QED
    BY <1>3, <1>4, <2>1, <2>2 DEF P
<1>10. CASE \E t \in Threads : UpdSend(t)
  <2>1. PICK t \in Threads : UpdSend(t)
    BY <1>10
  <2>2. /\ UNCHANGED <<held, acted, intact, touching, touched>>
        /\ toDevice' = IF link = "up" THEN Append(toDevice, cmd[t])
                                      ELSE toDevice
    BY <2>1 DEF UpdSend, Write
  <2>3. cmd[t] \in Command /\ cmd[t].touch = 0
    BY <1>1, Commands DEF Typed, Scalars
  <2>4. Pend(held.touch, Append(toDevice, cmd[t]), touching)
          = P \cup ({0} \ {0})
    BY <1>2, <2>3, PendSent DEF P
  <2>5. OnPath' = OnPath
    BY <1>3, <1>4, <2>2, <2>4 DEF P
  <2> QED
    BY <2>2, <2>5
<1>11. CASE TouchStart
  <2>1. /\ UNCHANGED <<held, acted, intact, toDevice>>
        /\ cli = "idle" /\ touching' = touched + 1 /\ touched' = touched + 1
    BY <1>11 DEF TouchStart
  <2>2. touching = 0 /\ touched + 1 # 0
    BY <1>1, <1>2, <2>1 DEF Typed, Touching
  <2>3. OnPath' = OnPath \cup {touched + 1}
    BY <1>3, <1>4, <2>1, <2>2 DEF P, Pend
  <2> QED
    BY <2>1, <2>3
<1>12. CASE TouchWrite
  <2>1. /\ UNCHANGED <<held, acted, intact, touched>>
        /\ cli = "touch" /\ touching' = 0
        /\ toDevice' = IF link = "up" THEN Append(toDevice, Touch(touching))
                                      ELSE toDevice
    BY <1>12 DEF TouchWrite, Write
  <2>2. touching \in Touches
    BY <1>1, <1>2, <2>1, BoundsAssumption DEF Typed, Touching, Touches
  <2>3. Touch(touching) \in Command /\ Touch(touching).touch = touching
    BY <2>2, Commands DEF Touch
  <2>4. CASE link = "up"
    <3>1. Pend(held.touch, Append(toDevice, Touch(touching)), 0)
            = Pend(held.touch, toDevice, 0) \cup ({touching} \ {0})
      BY <1>2, <2>3, PendSent
    <3>2. Pend(held.touch, toDevice, 0) \cup ({touching} \ {0}) = P
      BY DEF P, Pend
    <3>3. OnPath' = OnPath
      BY <1>3, <1>4, <2>1, <2>4, <3>1, <3>2
    <3> QED
      BY <2>1, <3>3
  <2>5. CASE link # "up"
    <3>1. intact = FALSE
      BY <1>1, <1>2, <2>5
    <3>2. OnPath' \subseteq OnPath
      BY <1>3, <1>4, <2>1, <2>5 DEF P, Pend
    <3> QED
      BY <2>1, <3>1, <3>2
  <2> QED
    BY <2>4, <2>5
<1>13. CASE DaemonLost \/ Leave \/ Stop
  <2>1. DaemonEnds /\ UNCHANGED <<acted, touching, touched>>
    BY <1>13 DEF DaemonLost, Leave, Stop, CloseLink
  <2>2. intact' = FALSE /\ held' = Half /\ toDevice' = <<>>
    BY <2>1 DEF DaemonEnds
  <2>3. OnPath' \subseteq OnPath
    BY <1>1, <1>3, <1>4, <2>1, <2>2 DEF P, Pend
  <2> QED
    BY <2>1, <2>2, <2>3
<1>14. CASE
        \/ ScreenChanges \/ (\E t \in Threads : UpdTest(t))
        \/ (\E t \in Threads : UpdReset(t))
        \/ (\E t \in Threads : UpdGiveUp(t)) \/ SelectTimeout \/ ReadHeader
        \/ StoreFrame \/ GiveUpFrame \/ ReadEnd \/ RestartDone \/ RestartFails
        \/ End \/ Connect \/ NewClient \/ GetScreenBuf \/ UpdateWait
        \/ UpdateTake \/ UpdateSend \/ TransferStart \/ TransferEnd
        \/ ExitClient \/ ClientReady \/ ScreenCapture
        \/ ReadTooBig \/ Report \/ OtherArrives
        \/ UNCHANGED vars
  <2>1. UNCHANGED <<held, acted, intact, toDevice, touching, touched>>
    BY <1>14 DEF ScreenChanges, UpdTest, UpdReset, UpdGiveUp,
    SelectTimeout, ReadHeader, StoreFrame, GiveUpFrame, ReadEnd, RestartDone,
    RestartFails, End, Connect, NewClient, GetScreenBuf, UpdateWait,
    UpdateTake, UpdateSend, TransferStart, TransferEnd, ExitClient,
    ClientReady, ScreenCapture, ReadTooBig, Report, OtherArrives, TakesAsk,
    vars
  <2> QED
    BY <1>3, <1>4, <2>1 DEF P
<1> HIDE DEF Relay!Next, Relay!vars
<1> QED
  BY <1>5, <1>6, <1>7, <1>8, <1>9, <1>10, <1>11, <1>12, <1>13, <1>14
     DEF Next, Daemon, ScreenThread, ClientThread, User, UpdateReq

(* TouchesRelayed, for every bound: agent and daemon implement TouchRelay, *)
(* with the touches on the path pending.                                   *)
THEOREM TouchesInTurn == Spec => TouchesRelayed
<1>1. Init => Relay!Init
  <2> SUFFICES ASSUME Init PROVE Relay!Init
    OBVIOUS
  <2>1. /\ toDevice = <<>> /\ touching = 0 /\ held.touch = 0
    BY Commands DEF Init
  <2>2. /\ toDevice \in Seq(Command) /\ held \in Command
        /\ touching \in 0 .. MaxEvents
    BY Commands, BoundsAssumption DEF Init
  <2>3. OnPath = Pend(held.touch, toDevice, touching)
    BY <2>2, PendPath DEF OnPath, Path
  <2>4. OnPath = {}
    BY <2>1, <2>3 DEF Pend
  <2> QED
    BY <2>4 DEF Init, Relay!Init
<1>2. IInv /\ IInv' /\ [Next]_vars => [Relay!Next]_(Relay!vars)
  BY RelayStep
<1> QED
  BY <1>1, <1>2, Invariance, PTL DEF Spec, TouchesRelayed, Relay!Spec

=============================================================================
