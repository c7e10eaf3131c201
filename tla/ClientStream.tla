---------------------------- MODULE ClientStream ----------------------------
(***************************************************************************)
(* What the Test Agent (TA) writes to the client it serves. Five threads   *)
(* write to m_clientSock:                                                  *)
(*                                                                         *)
(*   - "cli", the client thread, which answers the client's requests       *)
(*   - "fbc", the screen thread: frames, device states, file transfers     *)
(*   - "tim", the timer, which announces the end of the reservation        *)
(*   - "app", the thread that installs a package for the client            *)
(*   - the log readers (ruilogcatThread), one per start of the logcat      *)
(*                                                                         *)
(* A message is a header and for most a body, written one after the other  *)
(* under m_clientOutputMutex. Some writers go through m_sendBuf and get    *)
(* the socket as an argument, the others read m_clientSock at every write. *)
(*                                                                         *)
(* The session around it is reduced to what moves m_clientSock; TASession  *)
(* has it in full and shows that clients come one at a time.               *)
(***************************************************************************)
EXTENDS Naturals, FiniteSets

CONSTANTS
  Conns,    \* connections of Test Clients, each used once
  NoConn,   \* INVALID_SOCKET
  Readers,  \* bound on the log readers that exist at the same time
  Status,   \* the device states
  Events    \* what clients and devices do in an instance

AllEvents ==
  {"lag",       \* a client that does not read makes a write time out
   "install",   \* a client sends a package to install
   "expire",    \* a reservation ends during the session
   "frames",    \* the device sends frames
   "files"}     \* the device sends answers of a file transfer

Fixed == {"cli", "fbc", "tim", "app"}
Nobody == "nobody"
Writers == Fixed \cup Readers
Waiters == Writers \ {"app"}
Threads == Writers \cup {"tdc"}

ASSUME NoConnAssumption == NoConn \notin Conns
ASSUME ReadersAssumption ==
  Readers \cap (Fixed \cup {Nobody, "tdc", "ready", "broken"}) = {}
ASSUME EventsAssumption == Events \subseteq AllEvents

(* Kinds of messages: written at once; header and body written with two    *)
(* reads of m_clientSock; written through write_sendbuffer.                *)
Single == {"info", "state", "error", "notify", "result"}
Pair == {"devinfo", "file", "reason"}
Buffered == {"screen", "blank", "log"}
Kinds == {"none"} \cup Single \cup Pair \cup Buffered
HasBody == (Pair \cup Buffered) \ {"blank"}

(* Written by res_AppInst, which does not wait for the output mutex.       *)
Unlocked == {"result", "reason"}

VARIABLES
  sock,       \* m_clientSock
  link,       \* the connections: new, open, closed by one end
  me, ses,    \* the connection of the client thread and its control point
  connected,  \* m_state is TA_STATE_CLIENT_CONNECTED
  due,        \* what the reader of a connection expects: the header of a
              \* message ("ready"), a writer's body, or it is lost ("broken")
  blame,      \* history: what has disturbed the stream of a connection
  told,       \* the device state each client has been told last
  sendIdx,    \* m_sendBufIdx in headers; 2 stands for two and more
  outLock,    \* the owner of m_clientOutputMutex
  fbLock,     \* the owner of m_fbBufferMutex
  changed,    \* m_devStateChanged
  status,     \* m_devStatus
  stat,       \* the state in the screen thread's message
  pipe,       \* the logcat pipe is open
  callback,   \* m_IncomingLog is set
  pc, kind, arg  \* threads: control point, message, socket passed by value

session == <<sock, link, me, ses, connected>>
stream == <<due, blame, told>>
locks == <<outLock, fbLock>>
report == <<changed, status, stat>>
logs == <<pipe, callback>>
vars == <<session, stream, sendIdx, locks, report, logs, pc, kind, arg>>

Points == {"off", "idle", "report", "clear", "build", "frame", "store", "show",
           "wantfb", "want", "head", "call", "add", "flush", "body", "release",
           "unlock", "close", "forget", "relog", "test", "adb", "flag"}
SesPoints == {"none", "talk", "refuse", "enter", "reset", "flag", "serve",
              "drop", "forget", "leave"}
Socks == Conns \cup {NoConn}

TypeOK ==
  /\ sock \in Socks
  /\ link \in [Conns -> {"new", "open", "closed"}]
  /\ me \in Socks
  /\ ses \in SesPoints
  /\ connected \in BOOLEAN
  /\ due \in [Conns -> Writers \cup {"ready", "broken"}]
  /\ blame \in [Conns -> SUBSET {"lag", "install", "handover"}]
  /\ told \in [Conns -> SUBSET Status]
  /\ sendIdx \in 0 .. 2
  /\ outLock \in Writers \cup {Nobody}
  /\ fbLock \in Writers \cup {Nobody}
  /\ changed \in BOOLEAN
  /\ status \in Status
  /\ stat \in Status
  /\ pipe \in BOOLEAN
  /\ callback \in BOOLEAN
  /\ pc \in [Threads -> Points]
  /\ kind \in [Writers -> Kinds]
  /\ arg \in [Writers -> Socks]

(* A service that runs and has no client yet. m_devStateChanged is set by  *)
(* the constructor of RA.                                                  *)
Init ==
  /\ sock = NoConn /\ me = NoConn /\ ses = "none" /\ connected = FALSE
  /\ link = [c \in Conns |-> "new"]
  /\ due = [c \in Conns |-> "ready"]
  /\ blame = [c \in Conns |-> {}]
  /\ told = [c \in Conns |-> {}]
  /\ sendIdx = 0
  /\ outLock = Nobody /\ fbLock = Nobody
  /\ changed = TRUE /\ status \in Status /\ stat = status
  /\ pipe = FALSE /\ callback = FALSE
  /\ pc = [t \in Threads |-> IF t \in Readers THEN "off" ELSE "idle"]
  /\ kind = [t \in Writers |-> "none"]
  /\ arg = [t \in Writers |-> NoConn]

-----------------------------------------------------------------------------
(* The write of a message.                                                 *)

Goto(t, from, to) == pc[t] = from /\ pc' = [pc EXCEPT ![t] = to]

(* t goes to wait for the output mutex, with a message of kind k.          *)
Wants(t, from, k) ==
  /\ Goto(t, from, "want")
  /\ kind' = [kind EXCEPT ![t] = k]
  /\ UNCHANGED arg

Lands(c) == c # NoConn /\ link[c] = "open"

Blame(S, why) == blame' = [c \in Conns |-> IF c \in S THEN blame[c] \cup {why}
                                                      ELSE blame[c]]

(* WriteExact(c, ...) after which the reader of c expects what. It fails   *)
(* at once on a closed socket. On an open one it fails when the client     *)
(* does not read, with nothing or a part of the message sent.              *)
Sent(t, c, what) ==
  /\ Lands(c)
  /\ due' = [due EXCEPT ![c] = what]
  /\ IF kind[t] \in Unlocked THEN Blame({c}, "install") ELSE UNCHANGED blame

Failed(c) ==
  \/ ~Lands(c) /\ UNCHANGED <<due, blame>>
  \/ /\ Lands(c) /\ "lag" \in Events
     /\ due' \in {due, [due EXCEPT ![c] = "broken"]}
     /\ Blame({c}, "lag")

(* What a reader expects after n headers of t in a row, and after a body.  *)
AfterHeaders(t, c, n) ==
  IF due[c] = "ready" /\ n = 1
  THEN IF kind[t] \in HasBody THEN t ELSE "ready"
  ELSE "broken"

AfterBody(t, c) == IF due[c] = t THEN "ready" ELSE "broken"

(* The new client's socket is in use before onNewClient has reset the send *)
(* buffer, and nobody takes the output mutex for either.                   *)
Entering == ses \in {"enter", "reset"}

(* As if the wait had a timeout, and its result was not looked at.         *)
TakeOutAnyway(t) ==
  /\ outLock' = t
  /\ IF Entering THEN Blame({me}, "handover") ELSE UNCHANGED blame

TakeOut(t) ==
  /\ outLock = Nobody
  /\ outLock' = t
  /\ IF Entering THEN Blame({me}, "handover") ELSE UNCHANGED blame

Acquire(t) ==
  /\ Goto(t, "want", IF kind[t] \in Buffered THEN "call" ELSE "head")
  /\ TakeOut(t)
  /\ UNCHANGED <<session, due, told, sendIdx, fbLock, report, logs, kind,
                 arg>>

(* The arguments of write_sendbuffer: the socket, the size of the frame.   *)
Call(t) ==
  /\ Goto(t, "call", "add")
  /\ arg' = [arg EXCEPT ![t] = sock]
  /\ UNCHANGED <<session, stream, sendIdx, locks, report, logs, kind>>

AddHeaderUnbounded(t) ==
  /\ Goto(t, "add", "flush")
  /\ sendIdx' = sendIdx + 1
  /\ UNCHANGED <<session, stream, locks, report, logs, kind, arg>>

AddHeader(t) ==
  /\ Goto(t, "add", "flush")
  /\ sendIdx' = IF sendIdx < 2 THEN sendIdx + 1 ELSE 2
  /\ UNCHANGED <<session, stream, locks, report, logs, kind, arg>>

(* Writing nothing succeeds. When the write fails the index stays.         *)
Flush(t) ==
  /\ Goto(t, "flush", IF kind[t] \in HasBody THEN "body" ELSE "release")
  /\ \/ sendIdx = 0 /\ UNCHANGED <<sendIdx, due, blame>>
     \/ /\ sendIdx > 0 /\ sendIdx' = 0
        /\ Sent(t, arg[t], AfterHeaders(t, arg[t], sendIdx))
     \/ sendIdx > 0 /\ UNCHANGED sendIdx /\ Failed(arg[t])
  /\ UNCHANGED <<session, told, locks, report, logs, kind, arg>>

(* Where a thread goes on when its message is written.                     *)
Resume(t) == CASE kind[t] = "state" -> "frame"
               [] kind[t] \in {"screen", "blank"} -> "unlock"
               [] t = "tim" /\ kind[t] = "notify" -> "close"
               [] OTHER -> "idle"

HeadNoRelease(t) ==
  /\ \/ /\ Goto(t, "head", IF kind[t] \in Pair THEN "body" ELSE "release")
        /\ Sent(t, sock, AfterHeaders(t, sock, 1))
        /\ told' = IF kind[t] = "state" THEN [told EXCEPT ![sock] = {stat}]
                                        ELSE told
     \/ Goto(t, "head", Resume(t)) /\ Failed(sock) /\ UNCHANGED told
  /\ UNCHANGED <<session, sendIdx, locks, report, logs, kind, arg>>

(* A message of one write, or the header of a pair.                        *)
Head(t) ==
  /\ Goto(t, "head", IF kind[t] \in Pair THEN "body" ELSE "release")
  /\ \/ /\ Sent(t, sock, AfterHeaders(t, sock, 1))
        /\ told' = IF kind[t] = "state" THEN [told EXCEPT ![sock] = {stat}]
                                        ELSE told
     \/ Failed(sock) /\ UNCHANGED told
  /\ UNCHANGED <<session, sendIdx, locks, report, logs, kind, arg>>

(* The body follows whether or not its header could be written.            *)
Body(t) ==
  LET c == IF kind[t] \in Buffered THEN arg[t] ELSE sock IN
  /\ Goto(t, "body", "release")
  /\ Sent(t, c, AfterBody(t, c)) \/ Failed(c)
  /\ UNCHANGED <<session, told, sendIdx, locks, report, logs, kind, arg>>

(* ReleaseMutex fails for a thread that does not own the mutex. The        *)
(* function that writes returns, its locals are gone.                      *)
Return(t) == kind' = [kind EXCEPT ![t] = "none"] /\ arg' = [arg EXCEPT ![t] = NoConn]

Release(t) ==
  /\ Goto(t, "release", Resume(t))
  /\ outLock' = IF outLock = t THEN Nobody ELSE outLock
  /\ Return(t)
  /\ UNCHANGED <<session, stream, sendIdx, fbLock, report, logs>>

Write(t) ==
  \/ Acquire(t) \/ Call(t) \/ AddHeader(t) \/ Flush(t) \/ Head(t) \/ Body(t)
  \/ Release(t)

-----------------------------------------------------------------------------
(* OnUpdateComplete, by the client thread on request and by the screen     *)
(* thread for full frames in H.264 mode. Whether there is a frame to send  *)
(* (the mode) and the device's screen is on is left open. The wait for the *)
(* next frame, of at most a second, is not a step.                         *)

Show(t) ==
  /\ Goto(t, "show", IF sock = NoConn THEN "idle" ELSE "wantfb")
  /\ UNCHANGED <<session, stream, sendIdx, locks, report, logs, kind, arg>>

TakeBuffer(t) ==
  /\ fbLock = Nobody
  /\ fbLock' = t
  /\ \/ \E k \in {"screen", "blank"} : Wants(t, "wantfb", k)
     \/ Goto(t, "wantfb", "unlock") /\ UNCHANGED <<kind, arg>>
  /\ UNCHANGED <<session, stream, sendIdx, outLock, report, logs>>

Unlock(t) ==
  /\ Goto(t, "unlock", "idle")
  /\ fbLock' = Nobody
  /\ UNCHANGED <<session, stream, sendIdx, outLock, report, logs, kind,
                 arg>>

OnUpdateComplete(t) == Show(t) \/ TakeBuffer(t) \/ Unlock(t)

-----------------------------------------------------------------------------
(* The screen thread: a message of the device is a frame, before which it  *)
(* may report the device's state (OnStateChanged), or belongs to a file    *)
(* transfer and is passed on.                                              *)

NoWrite == UNCHANGED <<session, stream, sendIdx, locks, logs, kind, arg>>

FrameArrives ==
  /\ "frames" \in Events
  /\ Goto("fbc", "idle", IF connected THEN "report" ELSE "frame")
  /\ NoWrite /\ UNCHANGED report

ReportTest ==
  /\ Goto("fbc", "report", IF changed /\ sock # NoConn THEN "clear" ELSE "frame")
  /\ NoWrite /\ UNCHANGED report

ReportClear ==
  /\ Goto("fbc", "clear", "build")
  /\ changed' = FALSE
  /\ NoWrite /\ UNCHANGED <<status, stat>>

ReportBuild ==
  /\ Wants("fbc", "build", "state")
  /\ stat' = status
  /\ UNCHANGED <<session, stream, sendIdx, locks, logs, changed, status>>

FrameLockAnyway ==
  /\ \/ fbLock = Nobody /\ fbLock' = "fbc"
     \/ fbLock # Nobody /\ UNCHANGED fbLock
  /\ Goto("fbc", "frame", "store")
  /\ UNCHANGED <<session, stream, sendIdx, outLock, report, logs, kind, arg>>

(* It waits one second for the frame buffer and then gives the frame up.   *)
FrameLock ==
  /\ \/ fbLock = Nobody /\ fbLock' = "fbc" /\ Goto("fbc", "frame", "store")
     \/ fbLock # Nobody /\ UNCHANGED fbLock /\ Goto("fbc", "frame", "idle")
  /\ UNCHANGED <<session, stream, sendIdx, outLock, report, logs, kind,
                 arg>>

FrameStore ==
  /\ Goto("fbc", "store", "show") \/ Goto("fbc", "store", "idle")
  /\ fbLock' = Nobody
  /\ UNCHANGED <<session, stream, sendIdx, outLock, report, logs, kind, arg>>

FileMessage ==
  /\ "files" \in Events
  /\ \E k \in {"file", "error"} : Wants("fbc", "idle", k)
  /\ UNCHANGED <<session, stream, sendIdx, locks, report, logs>>

Screen ==
  \/ FrameArrives \/ ReportTest \/ ReportClear \/ ReportBuild
  \/ FrameLock \/ FrameStore \/ FileMessage

(* tdc_on_getStatus: the device reports another state.                     *)
StatusChange ==
  /\ Goto("tdc", "idle", "flag")
  /\ \E s \in Status \ {status} : status' = s
  /\ NoWrite /\ UNCHANGED <<changed, stat>>

StatusFlag ==
  /\ Goto("tdc", "flag", "idle")
  /\ changed' = TRUE
  /\ NoWrite /\ UNCHANGED <<status, stat>>

-----------------------------------------------------------------------------
(* The log readers. The pipe they read is whichever is open when they look *)
(* next, and stop_log does not end them: it has no handle to do so.        *)

LogRead(r) ==
  /\ \/ pipe /\ callback /\ Goto(r, "idle", "test")
     \/ ~pipe /\ Goto(r, "idle", "off")
  /\ UNCHANGED <<session, stream, sendIdx, locks, report, logs, kind, arg>>

LogReceive(r) ==
  /\ \/ sock = NoConn /\ Goto(r, "test", "idle") /\ UNCHANGED <<kind, arg>>
     \/ sock # NoConn /\ Wants(r, "test", "log")
  /\ UNCHANGED <<session, stream, sendIdx, locks, report, logs>>

Reader(r) == LogRead(r) \/ LogReceive(r)

-----------------------------------------------------------------------------
(* The client thread.                                                      *)

SGoto(from, to) == ses = from /\ ses' = to

Accept(c) ==
  /\ SGoto("none", "talk")
  /\ link[c] = "new"
  /\ link' = [link EXCEPT ![c] = "open"]
  /\ me' = c
  /\ UNCHANGED <<sock, connected, stream, sendIdx, locks, report, logs,
                 pc, kind, arg>>

(* A refusal is announced on m_clientSock.                                 *)
Refuse ==
  /\ SGoto("talk", "refuse")
  /\ Wants("cli", "idle", "notify")
  /\ UNCHANGED <<sock, link, me, connected, stream, sendIdx, locks, report,
                 logs>>

Refused ==
  /\ SGoto("refuse", "none") /\ pc["cli"] = "idle"
  /\ link' = [link EXCEPT ![me] = "closed"]
  /\ me' = NoConn
  /\ UNCHANGED <<sock, connected, stream, sendIdx, locks, report, logs,
                 pc, kind, arg>>

(* A writer that owns the mutex now writes on with the old socket and the  *)
(* new one, and the new client's reset meets its header.                   *)
HandOver == IF outLock = Nobody THEN UNCHANGED blame
                                ELSE Blame({me, arg[outLock]}, "handover")

Adopt ==
  /\ SGoto("talk", "enter")
  /\ sock' = me
  /\ HandOver
  /\ UNCHANGED <<link, me, connected, due, told, sendIdx, locks, report,
                 logs, pc, kind, arg>>

(* onNewClient                                                             *)
Enter ==
  /\ SGoto("enter", "reset")
  /\ connected' = TRUE
  /\ UNCHANGED <<sock, link, me, stream, sendIdx, locks, report, logs,
                 pc, kind, arg>>

EnterNoReset ==
  /\ SGoto("reset", "flag")
  /\ HandOver
  /\ UNCHANGED <<sock, link, me, connected, due, told, sendIdx, locks, report, logs,
                 pc, kind, arg>>

EnterReset ==
  /\ SGoto("reset", "flag")
  /\ sendIdx' = 0
  /\ HandOver
  /\ UNCHANGED <<sock, link, me, connected, due, told, locks, report,
                 logs, pc, kind, arg>>

EnterNoFlag ==
  /\ SGoto("flag", "serve")
  /\ UNCHANGED <<sock, link, me, connected, stream, sendIdx, locks, report, logs,
                 pc, kind, arg>>

EnterFlag ==
  /\ SGoto("flag", "serve")
  /\ changed' = TRUE
  /\ UNCHANGED <<sock, link, me, connected, stream, sendIdx, locks, status,
                 stat, logs, pc, kind, arg>>

(* The requests that are answered or that start another writer.            *)
Serving == ses = "serve"

Ask ==
  /\ Serving
  /\ \E k \in {"info", "devinfo"} : Wants("cli", "idle", k)
  /\ UNCHANGED <<session, stream, sendIdx, locks, report, logs>>

AskScreen ==
  /\ Serving /\ Goto("cli", "idle", "show")
  /\ UNCHANGED <<session, stream, sendIdx, locks, report, logs, kind, arg>>

LogStop ==
  /\ Serving
  /\ pipe' = FALSE
  /\ \/ Goto("cli", "idle", "idle") /\ callback' = FALSE
     \/ Goto("cli", "idle", "relog") /\ UNCHANGED callback
  /\ UNCHANGED <<session, stream, sendIdx, locks, report, kind, arg>>

LogStart ==
  /\ pc["cli"] = "relog"
  /\ \E r \in Readers :
       /\ pc[r] = "off"
       /\ pc' = [pc EXCEPT !["cli"] = "idle", ![r] = "idle"]
  /\ pipe' = TRUE /\ callback' = TRUE
  /\ UNCHANGED <<session, stream, sendIdx, locks, report, kind, arg>>

(* The connection breaks, or m_clientSock is gone: onExitClient, which     *)
(* closes the log pipe (its callback stays). After a farewell of the       *)
(* client, the socket is closed first and the pipe is left to the end.     *)
Exit ==
  /\ SGoto("serve", "drop") /\ pc["cli"] = "idle"
  /\ connected' = FALSE
  /\ pipe' \in {FALSE, pipe}
  /\ UNCHANGED <<sock, link, me, stream, sendIdx, locks, report, callback,
                 pc, kind, arg>>

Shutdown(s) == link' = [c \in Conns |-> IF c = s THEN "closed" ELSE link[c]]

DropNoForget ==
  /\ SGoto("drop", "leave")
  /\ Shutdown(sock)
  /\ UNCHANGED <<sock, me, connected, stream, sendIdx, locks, report, logs, pc,
                 kind, arg>>

Drop ==
  /\ SGoto("drop", IF sock = NoConn THEN "leave" ELSE "forget")
  /\ Shutdown(sock)
  /\ UNCHANGED <<sock, me, connected, stream, sendIdx, locks, report, logs,
                 pc, kind, arg>>

Forget ==
  /\ SGoto("forget", "leave")
  /\ sock' = NoConn
  /\ UNCHANGED <<link, me, connected, stream, sendIdx, locks, report, logs,
                 pc, kind, arg>>

(* The thread ends and the listener can accept the next client.            *)
Leave ==
  /\ SGoto("leave", "none")
  /\ me' = NoConn
  /\ pipe' = FALSE
  /\ UNCHANGED <<sock, link, connected, stream, sendIdx, locks, report,
                 callback, pc, kind, arg>>

Session ==
  \/ Refuse \/ Refused \/ Adopt \/ Enter \/ EnterReset \/ EnterFlag
  \/ Drop \/ Forget \/ Leave

Requests == Ask \/ AskScreen \/ LogStop \/ LogStart

(* The client closes its end.                                              *)
HangUp(c) ==
  /\ link[c] = "open"
  /\ Shutdown(c)
  /\ UNCHANGED <<sock, me, ses, connected, stream, sendIdx, locks, report,
                 logs, pc, kind, arg>>

-----------------------------------------------------------------------------
(* The timer ends the session of a client whose reservation is over.       *)

Expire ==
  /\ "expire" \in Events /\ connected
  /\ connected' = FALSE
  /\ Wants("tim", "idle", "notify")
  /\ UNCHANGED <<sock, link, me, ses, stream, sendIdx, locks, report, logs>>

ExpireClose ==
  /\ Goto("tim", "close", "forget")
  /\ Shutdown(sock)
  /\ UNCHANGED <<sock, me, ses, connected, stream, sendIdx, locks, report,
                 logs, kind, arg>>

ExpireForget ==
  /\ Goto("tim", "forget", "idle")
  /\ sock' = NoConn
  /\ UNCHANGED <<link, me, ses, connected, stream, sendIdx, locks, report,
                 logs, kind, arg>>

(* The installation of a package the client has sent, in a thread of its   *)
(* own, and its result. When no file can be made for the package, the      *)
(* client thread answers at once.                                          *)
Install ==
  /\ "install" \in Events /\ Serving /\ pc["cli"] = "idle" /\ sock # NoConn
  /\ Goto("app", "idle", "adb")
  /\ UNCHANGED <<session, stream, sendIdx, locks, report, logs, kind, arg>>

InstallResult ==
  /\ \/ sock = NoConn /\ Goto("app", "adb", "idle") /\ UNCHANGED kind
     \/ /\ sock # NoConn /\ Goto("app", "adb", "head")
        /\ \E k \in {"result", "reason"} : kind' = [kind EXCEPT !["app"] = k]
  /\ UNCHANGED <<session, stream, sendIdx, locks, report, logs, arg>>

InstallRefused ==
  /\ "install" \in Events /\ Serving
  /\ Goto("cli", "idle", "head")
  /\ kind' = [kind EXCEPT !["cli"] = "result"]
  /\ UNCHANGED <<session, stream, sendIdx, locks, report, logs, arg>>

Timer == ExpireClose \/ ExpireForget

-----------------------------------------------------------------------------
Next ==
  \/ \E t \in Writers : Write(t) \/ OnUpdateComplete(t)
  \/ \E r \in Readers : Reader(r)
  \/ \E c \in Conns : Accept(c) \/ HangUp(c)
  \/ Screen \/ StatusChange \/ StatusFlag
  \/ Session \/ Requests \/ Exit
  \/ Expire \/ Timer
  \/ Install \/ InstallResult \/ InstallRefused

(* Not in Next, each one a mistake that the properties below must notice:  *)
(* AddHeaderUnbounded, HeadNoRelease, FrameLockAnyway, EnterNoReset,       *)
(* EnterNoFlag and DropNoForget.                                           *)

Spec == Init /\ [][Next]_vars

(* Threads run; a write ends, at the latest when it times out; a mutex is  *)
(* given to its waiters in the order they came.                            *)
Fairness ==
  /\ \A t \in Writers : WF_vars(Write(t) \/ OnUpdateComplete(t))
  /\ \A t \in Waiters : SF_vars(Acquire(t) \/ TakeBuffer(t))
  /\ WF_vars(Screen /\ pc["fbc"] # "idle")

FairSpec == Spec /\ Fairness

-----------------------------------------------------------------------------
(* PROPERTIES                                                              *)

(* What a client reads is a sequence of whole messages, unless a write to  *)
(* it timed out, it was told the result of an installation, or another     *)
(* thread owned the output mutex while it became the client (or, for the   *)
(* client before, stopped being it).                                       *)
Framed ==
  \A c \in Conns : due[c] = "broken" => blame[c] # {}

(* The mutexes are taken in one order: the owner of the output mutex is in *)
(* its message, in which nothing is waited for, and the owner of the frame *)
(* buffer stores a frame, is done with it, or waits for the output mutex   *)
(* or owns it. No return leaves a mutex behind, and no two threads wait    *)
(* for each other.                                                         *)
InMessage(t) == pc[t] \in {"call", "add", "flush", "head", "body", "release"}

LocksInOrder ==
  /\ outLock # Nobody => InMessage(outLock)
  /\ fbLock # Nobody =>
       \/ pc[fbLock] \in {"store", "unlock"}
       \/ pc[fbLock] = "want" /\ kind[fbLock] \in {"screen", "blank"}
       \/ InMessage(fbLock) /\ outLock = fbLock

(* The screen thread, which stores frames all the time, never overwrites   *)
(* the one that is being sent, after its header has been made.             *)
WholeFrame ==
  [][FrameStore => \A t \in Writers :
       ~(pc[t] \in {"add", "flush", "body"} /\ kind[t] = "screen")]_vars

Reporting ==
  \/ pc["fbc"] = "build"
  \/ pc["fbc"] \in {"want", "head"} /\ kind["fbc"] = "state"

(* Nothing is left to report to the client, which is served and reads.     *)
Settled ==
  /\ ses = "serve" /\ sock # NoConn /\ link[sock] = "open"
  /\ "lag" \notin blame[sock]
  /\ ~changed /\ pc["tdc"] = "idle"
  /\ ~Reporting

(* No state of the device is lost on its way to the client: when there is  *)
(* nothing left to report, the client that is served knows the last one.   *)
StateKnown == Settled => told[sock] = {status}

(* A thread that waits for the output mutex or the frame buffer gets it.   *)
EveryWaitEnds ==
  \A t \in Waiters :
    pc[t] \in {"want", "wantfb"} ~> pc[t] \notin {"want", "wantfb"}

(* The session is one that ServeOne allows.                                *)
Serve == INSTANCE ServeOne WITH
  who <- me, served <- {c \in Conns : link[c] # "new"}, over <- FALSE

ServesOne == Serve!Spec

=============================================================================
