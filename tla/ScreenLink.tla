----------------------------- MODULE ScreenLink -----------------------------
(***************************************************************************)
(* The way of a picture from the screen of the device to the client.       *)
(*                                                                         *)
(*   - TD: the daemon's loop clientInput, which puts update requests       *)
(*     together, captures and answers                                      *)
(*   - TA: the screen thread (ruifbcThread), which asks for pictures,      *)
(*     stores them and restarts the daemon; the client thread, which hands *)
(*     a picture out for each request of the client and relays touches     *)
(*   - TC: the thread that shows a picture and asks for the next, and the  *)
(*     user, who touches the screen or saves a picture of full size        *)
(*   - the device's own report of its state to TA, which says whether the  *)
(*     screen is on                                                        *)
(*                                                                         *)
(* No request is answered for certain: update_req gives up after 100 ms,   *)
(* the screen thread after one second, a capture may fail, and m_fbcHandle *)
(* holds one picture. Pictures are versions of the screen here.            *)
(***************************************************************************)
EXTENDS Integers, Sequences

CONSTANTS
  MaxChanges, \* bound on the changes of the screen
  MaxClients, \* bound on the clients, one after the other
  MaxEvents,  \* bound on the events and the users' actions together
  MaxQueue,   \* unanswered requests beyond which no timeout adds one
  RetryMax    \* restarts of the daemon without a message in between

ASSUME BoundsAssumption ==
  /\ MaxChanges \in Nat /\ MaxClients \in Nat \ {0} /\ MaxEvents \in Nat
  /\ MaxQueue \in Nat \ {0} /\ RetryMax \in Nat \ {0}

(* Callers of update_req.                                                  *)
Threads == {"fbc", "cli"}

Versions == 0 .. MaxChanges
Touches == 1 .. MaxEvents

(* Commands to the daemon: 'h' and 'u' ask for a picture of half and of    *)
(* full size, 't' is a touch.                                              *)
Half == [cmd |-> "h", touch |-> 0]
Full == [cmd |-> "u", touch |-> 0]
Touch(n) == [cmd |-> "t", touch |-> n]
Command == {Half, Full} \cup {Touch(n) : n \in Touches}

(* A picture; one that is not whole ends where the connection broke.       *)
Frame == [full : BOOLEAN, ver : Versions, whole : BOOLEAN]
Broken == -1
NoFrame == [full |-> FALSE, ver |-> Broken, whole |-> FALSE]

(* RES_SCREENBUF, with a picture, or empty because the screen is off.      *)
Picture(f) == [empty |-> FALSE, frame |-> f]
Empty == [empty |-> TRUE, frame |-> NoFrame]
Message == {Empty} \cup {Picture(f) : f \in Frame \cup {NoFrame}}

VARIABLES
  screen,   \* what the device shows
  \* TD
  td,       \* control point of clientInput
  held,     \* the command it has read after an 'h'
  acted,    \* the last touch that it has injected
  \* the connection with the daemon
  link,     \* "up", "lost", or "closed" by TA
  toDevice, toAgent,
  \* TA
  svc,      \* m_state: "open" (READY to CLIENT_DISCONNECT_ERR without
            \* CONNECTED), "connected", "error" or "stop"
  stopped,  \* stop_ta_service has closed the sockets
  mFtp,     \* m_ftp
  fullReq,  \* m_bFullSizeRequest
  upd, cmd, \* each caller's control point in update_req, and its message
  fbc,      \* control point of the screen thread
  frame,    \* the frame that it is receiving
  retry,    \* its retryMax
  picture,  \* m_fbcHandle, m_fbcSize, m_fbcFullSize
  unseen,   \* m_fbcFrameCount # m_fbcLastFrameCount
  cli,      \* control point of the client thread
  touching, \* the touch that it writes, with m_fbOutputMutex, or 0
  screenOn, \* TDC_STATUS_SCREENON in m_devStatus
  \* TC
  client,   \* number of clients so far
  toService,
  late,     \* the message that stays in TC's buffer, if any
  shown,    \* the version on the client's screen, or Broken
  capture,  \* fCaptureFile: "none", "asked" or "saved"
  touched,  \* number of touches so far
  \* ghosts
  events,   \* number of external events so far
  intact,   \* the connection with the daemon has not been lost or closed
  missed    \* the request for a picture of full size has come to nothing

daemon == <<td, held, acted>>
net == <<link, intact, toDevice, toAgent>>
request == <<fullReq, upd, cmd>>
thread == <<fbc, frame, retry>>
buffer == <<picture, unseen>>
tc == <<client, toService, late, shown, capture, touched>>
vars == <<screen, daemon, net, svc, stopped, mFtp, request, thread, buffer,
          cli, touching, screenOn, tc, events, missed>>

TypeOK ==
  /\ screen \in Versions
  /\ td \in {"select", "window", "process"}
  /\ held \in Command
  /\ acted \in 0 .. MaxEvents
  /\ link \in {"up", "lost", "closed"}
  /\ toDevice \in Seq(Command) /\ toAgent \in Seq(Frame)
  /\ svc \in {"open", "connected", "error", "stop"}
  /\ stopped \in BOOLEAN
  /\ mFtp \in BOOLEAN
  /\ fullReq \in {0, 1}
  /\ upd \in [Threads -> {"none", "test", "reset", "wait"}]
  /\ cmd \in [Threads -> {Half, Full}]
  /\ fbc \in {"select", "store", "leave", "restart", "end", "ended"}
  /\ frame \in Frame \cup {NoFrame}
  /\ retry \in 0 .. RetryMax
  /\ picture \in Frame \cup {NoFrame}
  /\ unseen \in BOOLEAN
  /\ cli \in {"none", "new", "idle", "wait", "take", "send", "touch", "settle"}
  /\ touching \in 0 .. MaxEvents
  /\ screenOn \in BOOLEAN
  /\ client \in 0 .. MaxClients
  /\ toService \in Seq({"half", "full"})
  /\ late \in {<<>>} \cup {<<m>> : m \in Message}
  /\ shown \in Versions \cup {Broken}
  /\ capture \in {"none", "asked", "saved"}
  /\ touched \in 0 .. MaxEvents
  /\ events \in 0 .. MaxEvents /\ intact \in BOOLEAN
  /\ missed \in BOOLEAN

(* After start_ta_service: the daemon runs, its screen information has     *)
(* come, both counters differ, and the device has reported its screen on.  *)
Init ==
  /\ screen = 0
  /\ td = "select" /\ held = Half /\ acted = 0
  /\ link = "up" /\ toDevice = <<>> /\ toAgent = <<>>
  /\ svc = "open" /\ stopped = FALSE /\ mFtp = FALSE
  /\ fullReq = 0
  /\ upd = [t \in Threads |-> "none"] /\ cmd = [t \in Threads |-> Half]
  /\ fbc = "select" /\ frame = NoFrame /\ retry = RetryMax
  /\ picture = NoFrame /\ unseen = TRUE
  /\ cli = "none" /\ touching = 0
  /\ screenOn = TRUE
  /\ client = 0 /\ toService = <<>> /\ late = <<>>
  /\ shown = Broken /\ capture = "none" /\ touched = 0
  /\ events = 0 /\ intact = TRUE /\ missed = FALSE

ScreenChanges ==
  /\ screen < MaxChanges
  /\ screen' = screen + 1
  /\ UNCHANGED <<daemon, net, svc, stopped, mFtp, request, thread, buffer,
                 cli, touching, screenOn, tc, events, missed>>

External == events < MaxEvents /\ events' = events + 1

IsFull(m) == m.cmd = "u"
InQueue(P(_), q) == \E i \in 1 .. Len(q) : P(q[i])

(* A request for a picture of full size that the client has made comes to  *)
(* nothing, unless such a picture is on its way to it.                     *)
Miss(condition) ==
  missed' = (\/ missed
             \/ /\ capture = "asked" /\ condition
                /\ ~InQueue(LAMBDA m : m.frame.full, late))

-----------------------------------------------------------------------------
(* TD: clientInput.                                                        *)

(* read_rgb_framebuffer_to_jpeg: a picture is captured and sent, or there  *)
(* is none.                                                                *)
Capture(full) ==
  \/ /\ toAgent' = Append(toAgent,
                          [full |-> full, ver |-> screen, whole |-> TRUE])
     /\ UNCHANGED <<events, missed>>
  \/ /\ External /\ Miss(full)
     /\ UNCHANGED toAgent

ProcessClientMessage(m) ==
  \/ m.cmd # "t" /\ Capture(m.cmd = "u") /\ UNCHANGED acted
  \/ m.cmd = "t" /\ acted' = m.touch /\ UNCHANGED <<toAgent, events, missed>>

Arrives(states, same) ==
  /\ td \in states /\ link = "up"
  /\ toDevice # <<>> /\ (Head(toDevice) = Half) = same
  /\ toDevice' = Tail(toDevice)
  /\ UNCHANGED <<screen, link, intact, svc, stopped, mFtp, request, thread,
                 buffer, cli, touching, screenOn, tc>>

(* An 'h' is not answered at once ...                                      *)
TDHold ==
  /\ Arrives({"select"}, TRUE)
  /\ td' = "window"
  /\ UNCHANGED <<held, acted, toAgent, events, missed>>

TDCommand ==
  /\ Arrives({"select"}, FALSE)
  /\ ProcessClientMessage(Head(toDevice))
  /\ UNCHANGED <<td, held>>

(* As if any other command were the same request too.                      *)
TDSwallowAll ==
  /\ Arrives({"window"}, TRUE) \/ Arrives({"window"}, FALSE)
  /\ UNCHANGED <<daemon, toAgent, events, missed>>

(* ... because another one within a millisecond is the same request.       *)
TDSwallow ==
  /\ Arrives({"window"}, TRUE)
  /\ UNCHANGED <<daemon, toAgent, events, missed>>

(* Any other command ends the wait and is carried out after the 'h'.       *)
TDOther ==
  /\ Arrives({"window"}, FALSE)
  /\ ProcessClientMessage(Half)
  /\ held' = Head(toDevice) /\ td' = "process"

TDProcess ==
  /\ td = "process"
  /\ ProcessClientMessage(held)
  /\ td' = "select" /\ held' = Half
  /\ UNCHANGED <<screen, link, intact, toDevice, svc, stopped, mFtp, request,
                 thread, buffer, cli, touching, screenOn, tc>>

(* The millisecond is over; what is on its way comes later.                *)
TDWindowEnds ==
  /\ td = "window"
  /\ ProcessClientMessage(Half)
  /\ td' = "select"
  /\ UNCHANGED <<screen, held, link, intact, toDevice, svc, stopped, mFtp,
                 request, thread, buffer, cli, touching, screenOn, tc>>

(* The daemon is gone, and what it has not answered.                       *)
DaemonEnds ==
  /\ intact' = FALSE
  /\ td' = "select" /\ held' = Half /\ toDevice' = <<>>
  /\ Miss(\/ InQueue(IsFull, Append(toDevice, held))
          \/ InQueue(LAMBDA f : f.full, toAgent))

(* The daemon dies or its connection breaks; what it has sent arrives up   *)
(* to some point, which may be in the middle of a frame.                   *)
DaemonLost ==
  /\ link = "up" /\ External
  /\ link' = "lost"
  /\ DaemonEnds
  /\ \E n \in 0 .. Len(toAgent) :
       \/ toAgent' = SubSeq(toAgent, 1, n)
       \/ n > 0 /\ toAgent' = [SubSeq(toAgent, 1, n) EXCEPT ![n].whole = FALSE]
  /\ UNCHANGED <<screen, acted, svc, stopped, mFtp, request, thread, buffer,
                 cli, touching, screenOn, tc>>

-----------------------------------------------------------------------------
(* TA: update_req, called by thread t.                                     *)

(* Nothing is asked for during a file transfer or without a service.       *)
UpdCall(t, full) ==
  IF mFtp \/ svc \notin {"open", "connected"}
    THEN upd' = [upd EXCEPT ![t] = "none"] /\ UNCHANGED cmd
    ELSE /\ cmd' = [cmd EXCEPT ![t] = IF full = 0 THEN Half ELSE Full]
         /\ upd' = [upd EXCEPT ![t] = "reset"]

UpdTest(t) ==
  /\ upd[t] = "test"
  /\ UpdCall(t, fullReq)
  /\ UNCHANGED <<screen, daemon, net, svc, stopped, mFtp, fullReq, thread,
                 buffer, cli, touching, screenOn, tc, events, missed>>

(* The reset may hit a request that was made after the test.               *)
UpdReset(t) ==
  /\ upd[t] = "reset"
  /\ fullReq' = 0
  /\ upd' = [upd EXCEPT ![t] = "wait"]
  /\ Miss(fullReq = 1 /\ cmd[t] = Half)
  /\ UNCHANGED <<screen, daemon, net, svc, stopped, mFtp, cmd, thread, buffer,
                 cli, touching, screenOn, tc, events>>

(* WriteExact to the daemon; what is written after the connection broke is *)
(* lost.                                                                   *)
Write(m) == toDevice' = IF link = "up" THEN Append(toDevice, m) ELSE toDevice

Forget(t) ==
  upd' = [upd EXCEPT ![t] = "none"] /\ cmd' = [cmd EXCEPT ![t] = Half]

UpdSend(t) ==
  /\ upd[t] = "wait" /\ touching = 0
  /\ Write(cmd[t])
  /\ Forget(t)
  /\ Miss(cmd[t] = Full /\ link # "up")
  /\ UNCHANGED <<screen, daemon, link, intact, toAgent, svc, stopped, mFtp,
                 fullReq, thread, buffer, cli, touching, screenOn, tc, events>>

(* m_fbOutputMutex was not free for 100 ms.                                *)
UpdGiveUp(t) ==
  /\ upd[t] = "wait" /\ touching # 0
  /\ Forget(t)
  /\ Miss(cmd[t] = Full)
  /\ UNCHANGED <<screen, daemon, net, svc, stopped, mFtp, fullReq, thread,
                 buffer, cli, touching, screenOn, tc, events>>

-----------------------------------------------------------------------------
(* TA: the screen thread.                                                  *)

Unanswered == Len(toDevice) + (IF td = "select" THEN 0 ELSE 1)

(* As if the thread only waited.                                           *)
SelectIdle ==
  /\ fbc = "select" /\ upd["fbc"] = "none" /\ link = "up" /\ toAgent = <<>>
  /\ Unanswered < MaxQueue
  /\ UNCHANGED vars

(* One second without an answer.                                           *)
SelectTimeout ==
  /\ fbc = "select" /\ upd["fbc"] = "none" /\ link = "up" /\ toAgent = <<>>
  /\ Unanswered < MaxQueue
  /\ UpdCall("fbc", fullReq)
  /\ UNCHANGED <<screen, daemon, net, svc, stopped, mFtp, fullReq, thread,
                 buffer, cli, touching, screenOn, tc, events, missed>>

(* A message of more than a megabyte counts as broken and ends the loop.   *)
ReadTooBig ==
  /\ fbc = "select" /\ upd["fbc"] = "none" /\ toAgent # <<>>
  /\ link # "closed" /\ External
  /\ fbc' = "leave"
  /\ UNCHANGED <<screen, daemon, net, svc, stopped, mFtp, request, frame,
                 retry, buffer, cli, touching, screenOn, tc, missed>>

(* ProcessFBCMessage and the start of onFBC_screendata: the frame counts,  *)
(* and while a client is connected the next one is asked for at once.      *)
ReadHeader ==
  /\ fbc = "select" /\ upd["fbc"] = "none" /\ toAgent # <<>>
  /\ link # "closed"
  /\ frame' = Head(toAgent) /\ toAgent' = Tail(toAgent)
  /\ unseen' = TRUE
  /\ fbc' = "store"
  /\ upd' = [upd EXCEPT !["fbc"] =
                            IF svc = "connected" THEN "test" ELSE "none"]
  /\ UNCHANGED <<screen, daemon, link, intact, toDevice, svc, stopped, mFtp,
                 fullReq, cmd, retry, picture, cli, touching, screenOn, tc,
                 events, missed>>

Received == frame' = NoFrame /\ retry' = RetryMax

(* The client thread holds m_fbBufferMutex.                                *)
BufferHeld == cli = "send"

(* The frame goes into m_fbcHandle; that of a broken connection as well,   *)
(* because ReadExact returns 0 then and the test is < 0.                   *)
StoreFrame ==
  /\ fbc = "store" /\ upd["fbc"] = "none" /\ ~BufferHeld
  /\ picture' = frame /\ Received
  /\ fbc' = "select"
  /\ Miss(picture.full /\ ~frame.full)
  /\ UNCHANGED <<screen, daemon, net, svc, stopped, mFtp, request, unseen,
                 cli, touching, screenOn, tc, events>>

(* The buffer was not free for one second. The payload of a small frame    *)
(* has been read already. That of any other stays in the socket; it starts *)
(* like no message, so the next ProcessFBCMessage returns 0.               *)
GiveUpFrame ==
  /\ fbc = "store" /\ upd["fbc"] = "none" /\ BufferHeld /\ External
  /\ fbc' \in {"select", "leave"}
  /\ Received
  /\ Miss(frame.full)
  /\ UNCHANGED <<screen, daemon, net, svc, stopped, mFtp, request, buffer,
                 cli, touching, screenOn, tc>>

(* recv returns 0, or the socket is gone.                                  *)
ReadEnd ==
  /\ fbc = "select" /\ upd["fbc"] = "none"
  /\ \/ link = "lost" /\ toAgent = <<>>
     \/ link = "closed"
  /\ fbc' = "leave"
  /\ UNCHANGED <<screen, daemon, net, svc, stopped, mFtp, request, frame,
                 retry, buffer, cli, touching, screenOn, tc, events, missed>>

(* The socket is closed; a daemon that was restarted would find nothing.   *)
CloseLink ==
  /\ link' = "closed" /\ toAgent' = <<>>
  /\ DaemonEnds

(* As if the restarts were not counted.                                    *)
LeaveAlways ==
  /\ fbc = "leave"
  /\ CloseLink
  /\ IF svc # "stop" /\ svc # "error"
       THEN fbc' = "restart" /\ retry' = retry - 1
       ELSE fbc' = "end" /\ UNCHANGED retry
  /\ UNCHANGED <<screen, acted, svc, stopped, mFtp, request, frame, buffer,
                 cli, touching, screenOn, tc, events>>

(* An error, or too many restarts without a message, end the thread.       *)
Leave ==
  /\ fbc = "leave"
  /\ CloseLink
  /\ IF svc # "stop" /\ svc # "error" /\ retry > 0
       THEN fbc' = "restart" /\ retry' = retry - 1
       ELSE fbc' = "end" /\ UNCHANGED retry
  /\ UNCHANGED <<screen, acted, svc, stopped, mFtp, request, frame, buffer,
                 cli, touching, screenOn, tc, events>>

(* restart_fbc: the daemon runs and accepts.                               *)
RestartDone ==
  /\ fbc = "restart"
  /\ link' = "up" /\ fbc' = "select"
  /\ UNCHANGED <<screen, daemon, intact, toDevice, toAgent, svc, stopped,
                 mFtp, request, frame, retry, buffer, cli, touching, screenOn,
                 tc, events, missed>>

(* An adb command or the connection fails; when it is the command that     *)
(* runs the daemon, init_fbc stops the service itself.                     *)
RestartFails ==
  /\ fbc = "restart" /\ External
  /\ fbc' = "end"
  /\ \/ UNCHANGED <<svc, stopped>>
     \/ svc' = "stop" /\ stopped' = TRUE
  /\ UNCHANGED <<screen, daemon, net, mFtp, request, frame, retry, buffer,
                 cli, touching, screenOn, tc, missed>>

(* As if the error were not declared.                                      *)
EndSilently ==
  /\ fbc = "end"
  /\ fbc' = "ended"
  /\ UNCHANGED <<screen, daemon, net, svc, stopped, mFtp, request, frame,
                 retry, buffer, cli, touching, screenOn, tc, events, missed>>

(* The thread ends, which is an error unless the service stops.            *)
End ==
  /\ fbc = "end"
  /\ fbc' = "ended"
  /\ svc' = IF svc = "stop" THEN svc ELSE "error"
  /\ UNCHANGED <<screen, daemon, net, stopped, mFtp, request, frame, retry,
                 buffer, cli, touching, screenOn, tc, events, missed>>

(* stop_ta_service, by a click; it returns at once in an error state.      *)
Stop ==
  /\ External /\ svc \in {"open", "connected"}
  /\ svc' = "stop" /\ stopped' = TRUE
  /\ CloseLink
  /\ UNCHANGED <<screen, acted, mFtp, request, thread, buffer, cli, touching,
                 screenOn, tc>>

-----------------------------------------------------------------------------
(* TA: the client thread.                                                  *)

(* The listener takes clients until the service is stopped, and does not   *)
(* look at an error. The client asks for a picture when it has got the     *)
(* size of the screen.                                                     *)
Connect ==
  /\ cli = "none" /\ client < MaxClients /\ ~stopped
  /\ cli' = "new" /\ svc' = "connected"
  /\ client' = client + 1
  /\ toService' = <<"half">> /\ late' = <<>>
  /\ shown' = Broken /\ capture' = "none" /\ missed' = FALSE
  /\ UNCHANGED <<screen, daemon, net, stopped, mFtp, request, thread, buffer,
                 touching, screenOn, touched, events>>

(* onNewClient.                                                            *)
NewClient ==
  /\ cli = "new"
  /\ fullReq' = 0 /\ unseen' = TRUE
  /\ UpdCall("cli", 0)
  /\ cli' = "idle"
  /\ Miss(fullReq = 1)
  /\ UNCHANGED <<screen, daemon, net, svc, stopped, mFtp, thread, picture,
                 touching, screenOn, tc, events>>

TakesAsk ==
  /\ cli = "idle" /\ upd["cli"] = "none" /\ toService # <<>>
  /\ toService' = Tail(toService)
  /\ UNCHANGED <<screenOn, client, late, shown, capture, touched>>

(* As if each request said what the next picture must be.                  *)
GetScreenBufAnew ==
  /\ TakesAsk
  /\ fullReq' = IF Head(toService) = "full" THEN 1 ELSE 0
  /\ cli' = IF stopped THEN "idle" ELSE "wait"
  /\ UNCHANGED <<screen, daemon, net, svc, stopped, mFtp, upd, cmd, thread,
                 buffer, touching, events, missed>>

(* onGetScreenBuf; OnUpdateComplete returns at once without a client.      *)
GetScreenBuf ==
  /\ TakesAsk
  /\ fullReq' = IF Head(toService) = "full" THEN 1 ELSE fullReq
  /\ cli' = IF stopped THEN "idle" ELSE "wait"
  /\ UNCHANGED <<screen, daemon, net, svc, stopped, mFtp, upd, cmd, thread,
                 buffer, touching, events, missed>>

(* OnUpdateComplete: a new frame has been counted, or one second is over.  *)
UpdateWait ==
  /\ cli = "wait"
  /\ unseen' = FALSE /\ cli' = "take"
  /\ UNCHANGED <<screen, daemon, net, svc, stopped, mFtp, request, thread,
                 picture, touching, screenOn, tc, events, missed>>

(* m_fbBufferMutex: the frame that was counted may still be to come.       *)
UpdateTake ==
  /\ cli = "take"
  /\ cli' = "send"
  /\ UNCHANGED <<screen, daemon, net, svc, stopped, mFtp, request, thread,
                 buffer, touching, screenOn, tc, events, missed>>

(* RUIService.onScreenBuf: the client shows the picture, saves it when a   *)
(* capture waits for one of full size, and asks for the next. An empty     *)
(* message shows what the last body has left in the buffer: the last       *)
(* picture, or that with another message over its start.                   *)
OnScreenBuf(m) ==
  /\ IF m = Empty
       THEN shown' \in {shown, Broken} /\ UNCHANGED capture
       ELSE /\ shown' = IF m.frame.whole THEN m.frame.ver ELSE Broken
            /\ capture' = IF capture = "asked" /\ m.frame.full THEN "saved"
                          ELSE capture
  /\ toService' = Append(toService, "half")

(* RUIService.run takes at most one message out of what each read has put  *)
(* into its buffer. A picture that was read together with the message      *)
(* before it, a state or a line of the log, stays there until more comes.  *)
Deliver(m) ==
  \/ late = <<>> /\ OnScreenBuf(m) /\ UNCHANGED <<late, events>>
  \/ /\ late = <<>> /\ External
     /\ late' = <<m>>
     /\ UNCHANGED <<shown, capture, toService>>
  \/ late # <<>> /\ OnScreenBuf(Head(late)) /\ late' = <<m>>
     /\ UNCHANGED events

(* The picture, whatever its size now; none when the screen is off.        *)
UpdateSend ==
  /\ cli = "send"
  /\ IF stopped THEN UNCHANGED <<toService, late, shown, capture, events>>
                ELSE Deliver(IF screenOn THEN Picture(picture) ELSE Empty)
  /\ Miss(picture.full /\ ~screenOn)
  /\ cli' = "idle"
  /\ UNCHANGED <<screen, daemon, net, svc, stopped, mFtp, request, thread,
                 buffer, touching, screenOn, client, touched>>

(* The user touches the screen: raw_touch, with m_fbOutputMutex.           *)
TouchStart ==
  /\ cli = "idle" /\ upd["cli"] = "none" /\ External
  /\ touched' = touched + 1 /\ touching' = touched + 1
  /\ cli' = "touch"
  /\ UNCHANGED <<screen, daemon, net, svc, stopped, mFtp, request, thread,
                 buffer, screenOn, client, toService, late, shown, capture,
                 missed>>

TouchWrite ==
  /\ cli = "touch"
  /\ Write(Touch(touching))
  /\ touching' = 0 /\ cli' = "idle"
  /\ UNCHANGED <<screen, daemon, link, intact, toAgent, svc, stopped, mFtp,
                 request, thread, buffer, screenOn, tc, events, missed>>

(* A file transfer keeps update_req from asking.                           *)
TransferStart ==
  /\ External /\ cli = "idle" /\ upd["cli"] = "none" /\ ~mFtp
  /\ mFtp' = TRUE
  /\ UNCHANGED <<screen, daemon, net, svc, stopped, request, thread, buffer,
                 cli, touching, screenOn, tc, missed>>

TransferEnd ==
  /\ mFtp
  /\ mFtp' = FALSE
  /\ UNCHANGED <<screen, daemon, net, svc, stopped, request, thread, buffer,
                 cli, touching, screenOn, tc, events, missed>>

(* The client leaves; what it has still sent is not read.                  *)
ExitClient ==
  /\ cli = "idle" /\ upd["cli"] = "none"
  /\ svc' = IF svc = "connected" THEN "open" ELSE svc
  /\ cli' = IF svc \in {"open", "connected"} THEN "settle" ELSE "none"
  /\ mFtp' = FALSE
  /\ toService' = <<>> /\ late' = <<>>
  /\ UNCHANGED <<screen, daemon, net, stopped, request, thread, buffer,
                 touching, screenOn, client, shown, capture, touched, events,
                 missed>>

(* The end of ruiclientThread: READY, after a test that may be outdated,   *)
(* unless it finds the service in error or stopped.                        *)
ClientReady ==
  /\ cli = "settle"
  /\ cli' = "none" /\ svc' \in {"open", svc}
  /\ UNCHANGED <<screen, daemon, net, stopped, mFtp, request, thread, buffer,
                 touching, screenOn, tc, events, missed>>

-----------------------------------------------------------------------------
(* TC.                                                                     *)

InSession == cli \notin {"none", "settle"}

(* Another message arrives after the one in the buffer.                    *)
OtherArrives ==
  /\ late # <<>>
  /\ OnScreenBuf(Head(late)) /\ late' = <<>>
  /\ UNCHANGED <<screen, daemon, net, svc, stopped, mFtp, request, thread,
                 buffer, cli, touching, screenOn, client, touched, events,
                 missed>>

(* The user saves a picture of full size; again only when that is done.    *)
ScreenCapture ==
  /\ External /\ InSession /\ capture # "asked"
  /\ capture' = "asked" /\ missed' = FALSE
  /\ toService' = Append(toService, "full")
  /\ UNCHANGED <<screen, daemon, net, svc, stopped, mFtp, request, thread,
                 buffer, cli, touching, screenOn, client, late, shown,
                 touched>>

(* tdc_on_getStatus: the screen of the device goes on or off.              *)
Report ==
  /\ External
  /\ screenOn' = ~screenOn
  /\ UNCHANGED <<screen, daemon, net, svc, stopped, mFtp, request, thread,
                 buffer, cli, touching, tc, missed>>

-----------------------------------------------------------------------------
Daemon == TDHold \/ TDCommand \/ TDSwallow \/ TDOther \/ TDProcess
UpdateReq(t) == UpdTest(t) \/ UpdReset(t) \/ UpdSend(t) \/ UpdGiveUp(t)
ScreenThread == UpdateReq("fbc") \/ SelectTimeout \/ ReadTooBig \/ ReadHeader
                  \/ StoreFrame \/ GiveUpFrame \/ ReadEnd \/ Leave
                  \/ RestartDone \/ RestartFails \/ End
ClientThread == UpdateReq("cli") \/ NewClient \/ GetScreenBuf \/ UpdateWait
                  \/ UpdateTake \/ UpdateSend \/ TouchWrite \/ ClientReady
User == Connect \/ ExitClient \/ ScreenCapture \/ TouchStart \/ TransferStart
          \/ Stop

Next == Daemon \/ TDWindowEnds \/ ScreenThread \/ ClientThread \/ User
          \/ Report \/ OtherArrives \/ TransferEnd \/ ScreenChanges
          \/ DaemonLost

Spec == Init /\ [][Next]_vars

(* The threads run, the daemon's millisecond ends. Nobody has to click or  *)
(* to leave, no transfer has to end.                                       *)
Fairness ==
  /\ WF_vars(Daemon) /\ WF_vars(TDWindowEnds)
  /\ WF_vars(ScreenThread) /\ SF_vars(StoreFrame) /\ WF_vars(ClientThread)
FairSpec == Spec /\ Fairness

-----------------------------------------------------------------------------
(* Properties.                                                             *)

(* The touches are injected at most once each and in the order they were   *)
(* made, over losses and restarts of the daemon too, and every one as long *)
(* as the connection lasts: while it holds an 'h', clientInput reads other *)
(* commands and drops the update requests among them only.                 *)
Path == <<held>> \o toDevice \o <<Touch(touching)>>

CommandsKept ==
  /\ intact => \A n \in acted + 1 .. touched :
                 \E i \in 1 .. Len(Path) : Path[i].touch = n
  /\ \A i \in 1 .. Len(Path) :
       Path[i].touch \in {0} \cup acted + 1 .. touched
  /\ \A i, j \in 1 .. Len(Path) :
       (i < j /\ Path[i].touch # 0 /\ Path[j].touch # 0)
         => Path[i].touch < Path[j].touch

(* Agent and daemon together implement TouchRelay: each touch is pending   *)
(* on the path until the daemon injects it as the oldest one, and touches  *)
(* vanish from the path only with the connection.                          *)
OnPath == {Path[i].touch : i \in 1 .. Len(Path)} \ {0}

Relay == INSTANCE TouchRelay WITH
  made <- touched, done <- acted, pending <- OnPath, broken <- ~intact

TouchesRelayed == Relay!Spec

(* A message waits in TC's buffer for more data that never comes.          *)
Stuck == [](late # <<>>)

(* What the screen of the device shows at last reaches the client, whole,  *)
(* though requests are given up after 100 ms, captures fail, frames are    *)
(* counted before they are stored and given up when the client is slow,    *)
(* and the daemon may have to be started again: the one-second timeout     *)
(* asks again. Two things prevent it: TA has heard that the screen is off, *)
(* or has not heard that it is on, and sends empty pictures, or a picture  *)
(* was read with the message before it and stays in TC's buffer.           *)
ScreenArrives ==
  \/ []<>(\/ shown = screen \/ ~screenOn
          \/ ~InSession \/ svc # "connected" \/ mFtp \/ fbc = "ended")
  \/ <>Stuck

(* A connection that is lost, or given up with a frame, is opened again,   *)
(* or the service is declared in error or stopped: the screen thread does  *)
(* not end silently.                                                       *)
LinkRepaired ==
  (link = "lost" \/ fbc = "leave")
    ~> ((link = "up" /\ fbc # "leave") \/ svc \in {"error", "stop"})

(* A picture of full size that the client asks for is saved, unless one of *)
(* five things takes the request or the answer away: the reset of          *)
(* m_bFullSizeRequest in update_req, its wait of 100 ms, a fault, a        *)
(* smaller frame that is stored before the client thread has looked, or a  *)
(* screen that is off when it looks. None of them is told to the client.   *)
(* It does not stay in TC's buffer, because the client's other request is  *)
(* answered after it.                                                      *)
CaptureSaved ==
  capture = "asked"
    ~> (\/ capture = "saved" \/ missed
        \/ ~InSession \/ svc # "connected" \/ mFtp \/ fbc = "ended")

=============================================================================
