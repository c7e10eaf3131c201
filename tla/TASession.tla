----------------------------- MODULE TASession -----------------------------
(***************************************************************************)
(* Session life cycle of the Test Agent (TA): the threads that share the   *)
(* state word m_state, the listening socket, the client socket and the     *)
(* client thread handle of class RA.                                       *)
(*                                                                         *)
(*   - the listener thread (ruilistenThread), one per start of the service *)
(*   - the client thread (ruiclientThread), one per served connection; it  *)
(*     stops the service itself when the event daemon cannot be run again  *)
(*   - the one-second timer (QueueTimerHandler), which ends a session whose*)
(*     reservation is over and re-initialises the device after it          *)
(*   - the dialog's Start and Stop buttons; Stop can be clicked while      *)
(*     start_ta_service pumps messages                                     *)
(*   - the device threads, seen only through what they do to m_state       *)
(*                                                                         *)
(* No lock protects these variables. An action is one access to shared     *)
(* state, or several that no other thread can tell apart.                  *)
(***************************************************************************)
EXTENDS Integers, FiniteSets

CONSTANTS
  Conns,      \* connections opened by Test Clients, each used once
  NoConn,     \* INVALID_SOCKET
  MaxStarts,  \* bound on the calls of start_ta_service
  MaxStops,   \* bound on the stop_ta_service calls that may overlap
  Events      \* the external events of an instance

AllEvents == {"start fails", "bind fails", "device lost", "relaunch fails",
              "keys fail", "user stop", "click stop"}

ASSUME ConnsAssumption == NoConn \notin Conns
ASSUME StartsAssumption == MaxStarts \in Nat \ {0}
ASSUME StopsAssumption == MaxStops \in Nat \ {0}
ASSUME EventsAssumption == Events \subseteq AllEvents

(* The values of m_state. The code compares them with < and >.             *)
INIT_DONE           == 8
START_SERVICE       == 16
START_PHASE1        == 17
START_PHASE2        == 18
START_PHASE3        == 20
READY               == 256
CLIENT_INCOMING     == 4096
CLIENT_NEGOTIATE    == 4097
CLIENT_CONNECTED    == 4098
CLIENT_DISCONNECT   == 4352
USER_DISCONNECT     == 4353
CLIENT_TIMEOUT      == 4354
AFTER_CLIENT_REINIT == 65536
SERVICE_STOP        == 1048576
STOP_PHASE1         == 1048577
STOP_PHASE2         == 1048578
STOP_DONE           == 1048580
ERR_DEVNOTFOUND     == 268439552
ERR_START_SERVICE   == 268439554

States ==
  {INIT_DONE, START_SERVICE, START_PHASE1, START_PHASE2, START_PHASE3, READY,
   CLIENT_INCOMING, CLIENT_NEGOTIATE, CLIENT_CONNECTED, CLIENT_DISCONNECT,
   USER_DISCONNECT, CLIENT_TIMEOUT, AFTER_CLIENT_REINIT, STOP_PHASE1,
   STOP_PHASE2, STOP_DONE, ERR_DEVNOTFOUND, ERR_START_SERVICE}

Gens == 1 .. MaxStarts

(* Who can execute start_ta_service or stop_ta_service: the dialog, a Stop *)
(* click dispatched inside the dialog's own start, the timer thread (in    *)
(* ReInit), the screen thread when it cannot relaunch its daemon, and a    *)
(* client thread when it cannot relaunch the event daemon.                 *)
Actors == {"ui", "click", "timer", "fbc", "cli"}

VARIABLES
  mState,          \* m_state
  listenSock,      \* m_listenSock: the generation that bound it, 0 if INVALID
  clientSock,      \* m_clientSock
  clientTempSock,  \* m_clientTempSock
  hclient,         \* m_hclientThread is not 0
  validOf,         \* whose window m_clientValidStart/End hold (NoConn: zero)
  initRequired,    \* m_bInitRequired
  initOf,          \* whose window's end m_bInitRequiredTime holds
  over,            \* the connections whose reservation window has passed
  now,             \* the timer's dwCurrent, as those over when it was read
  conn,            \* TA's end of each connection
  lpc, lfd, lsk,   \* listener threads: control point, accepted fd, its socket
  cpc,             \* client threads: control point
  pc, ret,         \* actors: control point and continuation of a stop
  attempt,         \* which start_ta_service of ReInit runs
  stopEnabled,     \* lock_control: Stop is enabled and Start is not
  fbcUp,           \* a screen thread is running
  launches,        \* calls of start_ta_service so far
  starts,          \* listener threads created so far
  stopped          \* some stop_ta_service went past its first test

shared == <<mState, listenSock, clientSock, clientTempSock, hclient>>
window == <<validOf, initRequired, initOf, over>>
listeners == <<lpc, lfd, lsk>>
control == <<now, pc, ret, attempt, stopEnabled, fbcUp, launches, starts,
             stopped>>
vars == <<shared, window, conn, listeners, cpc, control>>

LPoints == {"none", "ready", "init", "loop", "accept", "got", "spawn",
            "assign", "leave", "done"}
CPoints == {"none", "setup", "incoming", "negotiate", "greet", "validate",
            "refuse", "adopt", "connect", "arm", "wakestop", "awake", "armtime",
            "serve", "keystop", "userclose", "exit", "mark", "drop", "settle",
            "ready", "clear", "done"}
StartPoints == {"start", "phase1", "waitdev", "launch", "connect", "waittdc"}
StopPoints == {"stop", "stopping", "stopclient", "stopforget", "stoplisten",
               "stopphase2", "stopdone", "stopped"}
Points == {"idle", "window", "look", "expire", "expireclose", "expireforget",
           "reinit", "reinitend"} \cup StartPoints \cup StopPoints
Returns == {"none", "button", "reboot", "failed", "again", "lost", "keys"}

Socks == Conns \cup {NoConn}

(* A client thread that exists and has not executed its last statement.    *)
Live(c) == cpc[c] \notin {"none", "done"}
LiveConns == {c \in Conns : Live(c)}

TypeOK ==
  /\ mState \in States
  /\ listenSock \in 0 .. MaxStarts
  /\ clientSock \in Socks
  /\ clientTempSock \in Socks
  /\ hclient \in BOOLEAN
  /\ validOf \in Socks
  /\ initRequired \in BOOLEAN
  /\ initOf \in Socks
  /\ over \in SUBSET Conns /\ now \in SUBSET Conns
  /\ conn \in [Conns -> {"new", "open", "closed"}]
  /\ lpc \in [Gens -> LPoints]
  /\ lfd \in [Gens -> Socks]
  /\ lsk \in [Gens -> 0 .. MaxStarts]
  /\ cpc \in [Conns -> CPoints]
  /\ pc \in [Actors -> Points]
  /\ ret \in [Actors -> Returns]
  /\ attempt \in 0 .. 2
  /\ stopEnabled \in BOOLEAN
  /\ fbcUp \in BOOLEAN
  /\ launches \in 0 .. MaxStarts
  /\ starts \in 0 .. MaxStarts
  /\ stopped \in BOOLEAN

Init ==
  /\ mState = INIT_DONE
  /\ listenSock = 0
  /\ clientSock = NoConn
  /\ clientTempSock = NoConn
  /\ hclient = FALSE
  /\ validOf = NoConn
  /\ initRequired = FALSE
  /\ initOf = NoConn
  /\ over = {} /\ now = {}
  /\ conn = [c \in Conns |-> "new"]
  /\ lpc = [g \in Gens |-> "none"]
  /\ lfd = [g \in Gens |-> NoConn]
  /\ lsk = [g \in Gens |-> 0]
  /\ cpc = [c \in Conns |-> "none"]
  /\ pc = [a \in Actors |-> "idle"]
  /\ ret = [a \in Actors |-> "none"]
  /\ attempt = 0
  /\ stopEnabled = FALSE
  /\ fbcUp = FALSE
  /\ launches = 0
  /\ starts = 0
  /\ stopped = FALSE

(* ShutdownSocket(s): closing an INVALID or an already closed one is a     *)
(* no-op here.                                                             *)
ShutdownSocket(s) ==
  conn' = [c \in Conns |-> IF c = s THEN "closed" ELSE conn[c]]

-----------------------------------------------------------------------------
(* The listener thread of generation g.                                    *)

LGoto(g, from, to) ==
  /\ lpc[g] = from
  /\ lpc' = [lpc EXCEPT ![g] = to]

(* It announces that the service is ready before it owns a socket.         *)
ListenReady(g) ==
  /\ LGoto(g, "ready", "init")
  /\ mState' = READY
  /\ UNCHANGED <<listenSock, clientSock, clientTempSock, hclient, window, conn,
                 lfd, lsk, cpc, control>>

(* m_hclientThread = 0, then InitListener, which does nothing when a       *)
(* listening socket exists already.                                        *)
ListenInit(g) ==
  /\ LGoto(g, "init", "loop")
  /\ hclient' = FALSE
  /\ \/ listenSock = 0 /\ listenSock' = g
     \/ listenSock = 0 /\ "bind fails" \in Events /\ listenSock' = 0
     \/ listenSock # 0 /\ listenSock' = listenSock
  /\ UNCHANGED <<mState, clientSock, clientTempSock, window, conn, lfd, lsk,
                 cpc, control>>

ListenLoop(g) ==
  /\ \/ /\ listenSock = 0
        /\ LGoto(g, "loop", "leave")
        /\ UNCHANGED lsk
     \/ /\ listenSock # 0
        /\ LGoto(g, "loop", "accept")
        /\ lsk' = [lsk EXCEPT ![g] = listenSock]
  /\ UNCHANGED <<shared, window, conn, lfd, cpc, control>>

(* accept returns a new connection, or INVALID_SOCKET once the socket it   *)
(* blocks on has been closed (which the >= 0 test does not notice).        *)
ListenAccept(g) ==
  /\ LGoto(g, "accept", "got")
  /\ \/ /\ lsk[g] = listenSock
        /\ \E c \in Conns :
             /\ conn[c] = "new"
             /\ conn' = [conn EXCEPT ![c] = "open"]
             /\ lfd' = [lfd EXCEPT ![g] = c]
     \/ /\ lsk[g] # listenSock
        /\ lfd' = [lfd EXCEPT ![g] = NoConn]
        /\ UNCHANGED conn
  /\ UNCHANGED <<shared, window, lsk, cpc, control>>

(* One client is served at a time: the thread handle is the flag for it.   *)
BusyByState == mState = CLIENT_CONNECTED
Busy == hclient

(* The tests after accept: listening socket gone, accept failed, another   *)
(* client is served, and otherwise the connection is handed over.          *)
ListenCheck(g) ==
  /\ \/ /\ listenSock = 0
        /\ LGoto(g, "got", "leave")
        /\ UNCHANGED <<conn, clientTempSock>>
     \/ /\ listenSock # 0 /\ lfd[g] = NoConn
        /\ LGoto(g, "got", "loop")
        /\ UNCHANGED <<conn, clientTempSock>>
     \/ /\ listenSock # 0 /\ lfd[g] # NoConn /\ Busy
        /\ LGoto(g, "got", "loop")
        /\ ShutdownSocket(lfd[g])
        /\ UNCHANGED clientTempSock
     \/ /\ listenSock # 0 /\ lfd[g] # NoConn /\ ~Busy
        /\ LGoto(g, "got", "spawn")
        /\ clientTempSock' = lfd[g]
        /\ UNCHANGED conn
  /\ UNCHANGED <<mState, listenSock, clientSock, hclient, window, lfd, lsk, cpc,
                 control>>

(* CreateThread: the new thread may run before its handle is stored.       *)
ListenSpawn(g) ==
  /\ LGoto(g, "spawn", "assign")
  /\ cpc' = [cpc EXCEPT ![lfd[g]] = "setup"]
  /\ UNCHANGED <<shared, window, conn, lfd, lsk, control>>

ListenAssign(g) ==
  /\ LGoto(g, "assign", "loop")
  /\ hclient' = TRUE
  /\ UNCHANGED <<mState, listenSock, clientSock, clientTempSock, window, conn,
                 lfd, lsk, cpc, control>>

ListenLeave(g) ==
  /\ LGoto(g, "leave", "done")
  /\ mState' = IF mState < SERVICE_STOP THEN ERR_START_SERVICE ELSE mState
  /\ UNCHANGED <<listenSock, clientSock, clientTempSock, hclient, window, conn,
                 lfd, lsk, cpc, control>>

Listener(g) ==
  \/ ListenReady(g) \/ ListenInit(g) \/ ListenLoop(g) \/ ListenAccept(g)
  \/ ListenCheck(g) \/ ListenSpawn(g) \/ ListenAssign(g) \/ ListenLeave(g)

-----------------------------------------------------------------------------
(* The client thread created for connection c.                             *)

CGoto(c, from, to) ==
  /\ cpc[c] = from
  /\ cpc' = [cpc EXCEPT ![c] = to]

SetState(s) ==
  /\ mState' = s
  /\ UNCHANGED <<listenSock, clientSock, clientTempSock, hclient>>

ClientSetup(c) ==
  /\ CGoto(c, "setup", "incoming") \/ CGoto(c, "setup", "refuse")
  /\ UNCHANGED <<shared, window, conn, listeners, control>>

ClientIncoming(c) ==
  /\ CGoto(c, "incoming", "negotiate")
  /\ SetState(CLIENT_INCOMING)
  /\ UNCHANGED <<window, conn, listeners, control>>

ClientNegotiate(c) ==
  /\ CGoto(c, "negotiate", "greet")
  /\ SetState(CLIENT_NEGOTIATE)
  /\ UNCHANGED <<window, conn, listeners, control>>

ClientGreet(c) ==
  /\ \/ CGoto(c, "greet", "refuse") /\ UNCHANGED validOf
     \/ CGoto(c, "greet", "validate") /\ validOf' = NoConn
  /\ UNCHANGED <<shared, initRequired, initOf, over, conn, listeners, control>>

(* Every failure of onNewClientNegotiate refuses the client: before its    *)
(* reservation window is known, or after it (version, time, write). With   *)
(* the reservation server disabled the window stays zero.                  *)
ClientValidate(c) ==
  /\ \/ CGoto(c, "validate", "refuse") /\ validOf' \in {validOf, c}
     \/ CGoto(c, "validate", "adopt") /\ UNCHANGED validOf
     \/ CGoto(c, "validate", "adopt") /\ c \notin over /\ validOf' = c
  /\ UNCHANGED <<shared, initRequired, initOf, over, conn, listeners, control>>

ClientRefuseOpen(c) ==
  /\ CGoto(c, "refuse", "ready")
  /\ UNCHANGED <<shared, window, conn, listeners, control>>

ClientRefuse(c) ==
  /\ CGoto(c, "refuse", "ready")
  /\ ShutdownSocket(clientTempSock)
  /\ UNCHANGED <<shared, window, listeners, control>>

ClientAdopt(c) ==
  /\ CGoto(c, "adopt", "connect")
  /\ clientSock' = clientTempSock
  /\ UNCHANGED <<mState, listenSock, clientTempSock, hclient, window, conn,
                 listeners, control>>

ClientConnect(c) ==
  /\ CGoto(c, "connect", "arm")
  /\ SetState(CLIENT_CONNECTED)
  /\ UNCHANGED <<window, conn, listeners, control>>

ClientArm(c) ==
  /\ CGoto(c, "arm", "armtime") \/ CGoto(c, "awake", "armtime")
  /\ initRequired' = TRUE
  /\ UNCHANGED <<shared, validOf, initOf, over, conn, listeners, control>>

(* A developer's session asks for no re-initialisation.                    *)
ClientArmTime(c) ==
  /\ CGoto(c, "armtime", "serve")
  /\ initRequired' \in BOOLEAN
  /\ initOf' = validOf
  /\ UNCHANGED <<shared, validOf, over, conn, listeners, control>>

(* The serving loop ends when the socket is gone, when select or a read    *)
(* fails, and through the client's own CLI_DISCONNECT.                     *)
ClientServe(c) ==
  /\ \/ CGoto(c, "serve", "exit") /\ UNCHANGED mState
     \/ /\ clientSock # NoConn /\ conn[clientSock] = "open"
        /\ CGoto(c, "serve", "userclose")
        /\ mState' = USER_DISCONNECT
  /\ UNCHANGED <<listenSock, clientSock, clientTempSock, hclient, window, conn,
                 listeners, control>>

CloseClientSockOnly ==
  /\ ShutdownSocket(clientSock)
  /\ UNCHANGED clientSock

CloseClientSock ==
  /\ ShutdownSocket(clientSock)
  /\ clientSock' = NoConn

ClientUserClose(c) ==
  /\ CGoto(c, "userclose", "exit")
  /\ CloseClientSock
  /\ UNCHANGED <<mState, listenSock, clientTempSock, hclient, window, listeners,
                 control>>

(* onExitClient reports the disconnection to the server between the two    *)
(* reads of m_state.                                                       *)
ClientExit(c) ==
  /\ IF mState < CLIENT_DISCONNECT THEN CGoto(c, "exit", "mark")
                                   ELSE CGoto(c, "exit", "drop")
  /\ UNCHANGED <<shared, window, conn, listeners, control>>

ClientMark(c) ==
  /\ CGoto(c, "mark", "drop")
  /\ SetState(IF mState < AFTER_CLIENT_REINIT THEN CLIENT_DISCONNECT ELSE mState)
  /\ UNCHANGED <<window, conn, listeners, control>>

ClientDrop(c) ==
  /\ CGoto(c, "drop", "settle")
  /\ CloseClientSock
  /\ UNCHANGED <<mState, listenSock, clientTempSock, hclient, window, listeners,
                 control>>

(* The test and the later store of READY are apart: a report to the server *)
(* is made in between.                                                     *)
ClientSettle(c) ==
  /\ IF mState < AFTER_CLIENT_REINIT THEN CGoto(c, "settle", "ready")
                                     ELSE CGoto(c, "settle", "clear")
  /\ UNCHANGED <<shared, window, conn, listeners, control>>

ClientReady(c) ==
  /\ CGoto(c, "ready", "clear")
  /\ SetState(READY)
  /\ UNCHANGED <<window, conn, listeners, control>>

ClientClear(c) ==
  /\ CGoto(c, "clear", "done")
  /\ hclient' = FALSE
  /\ UNCHANGED <<mState, listenSock, clientSock, clientTempSock, window, conn,
                 listeners, control>>

Client(c) ==
  \/ ClientSetup(c) \/ ClientIncoming(c) \/ ClientNegotiate(c) \/ ClientGreet(c)
  \/ ClientValidate(c) \/ ClientRefuse(c) \/ ClientAdopt(c) \/ ClientConnect(c)
  \/ ClientArm(c) \/ ClientArmTime(c) \/ ClientServe(c) \/ ClientUserClose(c)
  \/ ClientExit(c) \/ ClientMark(c) \/ ClientDrop(c) \/ ClientSettle(c)
  \/ ClientReady(c) \/ ClientClear(c)

-----------------------------------------------------------------------------
(* The one-second timer. It tests m_state first and the window, or the     *)
(* pending re-initialisation, afterwards.                                  *)

AGoto(a, from, to) ==
  /\ pc[a] = from
  /\ pc' = [pc EXCEPT ![a] = to]

(* Nothing but the control point, and possibly m_state, changes.           *)
OnlyPc == UNCHANGED <<now, ret, attempt, stopEnabled, fbcUp, launches, starts,
                      stopped>>

(* A step of the timer that reads or drops its copy of the clock.          *)
OnlyClock == UNCHANGED <<ret, attempt, stopEnabled, fbcUp, launches, starts,
                         stopped>>

(* The clock is read before m_state, and no later test reads it again. The *)
(* two reads are one step: a reservation that ends between them is seen    *)
(* at the next tick.                                                       *)
TimerTick ==
  /\ AGoto("timer", "idle", IF mState = CLIENT_CONNECTED THEN "window" ELSE "look")
  /\ now' = over
  /\ OnlyClock
  /\ UNCHANGED <<shared, window, conn, listeners, cpc>>

WindowOverOfUser == initRequired /\ validOf # NoConn /\ validOf \in now
WindowOver == validOf # NoConn /\ validOf \in now

TimerWindow ==
  /\ AGoto("timer", "window", IF WindowOver THEN "expire" ELSE "idle")
  /\ now' = {}
  /\ OnlyClock
  /\ UNCHANGED <<shared, window, conn, listeners, cpc>>

TimerExpire ==
  /\ AGoto("timer", "expire", "expireclose")
  /\ SetState(CLIENT_TIMEOUT)
  /\ OnlyPc
  /\ UNCHANGED <<window, conn, listeners, cpc>>

(* The client and the server are told, then m_clientSock is closed and,    *)
(* in a statement of its own, forgotten.                                   *)
TimerExpireClose ==
  /\ AGoto("timer", "expireclose", "expireforget")
  /\ ShutdownSocket(clientSock)
  /\ OnlyPc
  /\ UNCHANGED <<shared, window, listeners, cpc>>

TimerExpireForget ==
  /\ AGoto("timer", "expireforget", "idle")
  /\ clientSock' = NoConn
  /\ OnlyPc
  /\ UNCHANGED <<mState, listenSock, clientTempSock, hclient, window, conn,
                 listeners, cpc>>

ReinitDueNoWindow ==
  initRequired /\ initOf # NoConn /\ initOf \in now /\ validOf = NoConn
ReinitDue == initRequired /\ initOf # NoConn /\ initOf \in now

TimerLook ==
  /\ AGoto("timer", "look", IF ReinitDue THEN "reinit" ELSE "idle")
  /\ now' = {}
  /\ OnlyClock
  /\ UNCHANGED <<shared, window, conn, listeners, cpc>>

(* ReInit: m_bInitRequired is read a second time after the report.         *)
ReInit ==
  /\ SetState(AFTER_CLIENT_REINIT)
  /\ \/ /\ initRequired
        /\ AGoto("timer", "reinit", "stop")
        /\ ret' = [ret EXCEPT !["timer"] = "reboot"]
     \/ /\ ~initRequired
        /\ AGoto("timer", "reinit", "reinitend")
        /\ UNCHANGED ret
  /\ UNCHANGED <<now, attempt, stopEnabled, fbcUp, launches, starts, stopped>>
  /\ UNCHANGED <<window, conn, listeners, cpc>>

ReInitEnd ==
  /\ AGoto("timer", "reinitend", "idle")
  /\ initRequired' = FALSE
  /\ attempt' = 0
  /\ UNCHANGED <<now, ret, stopEnabled, fbcUp, launches, starts, stopped>>
  /\ UNCHANGED <<shared, validOf, initOf, over, conn, listeners, cpc>>

Timer ==
  \/ TimerTick \/ TimerWindow \/ TimerExpire \/ TimerExpireClose
  \/ TimerExpireForget \/ TimerLook \/ ReInit \/ ReInitEnd

-----------------------------------------------------------------------------
(* start_ta_service, run by the dialog or, within ReInit, by the timer. A  *)
(* failure calls stop_ta_service. While a Stop click is dispatched inside  *)
(* the dialog's start, that start waits.                                   *)

Runs(a) == a = "ui" => pc["click"] = "idle"

StartService(a) ==
  /\ Runs(a)
  /\ SetState(START_SERVICE)
  /\ AGoto(a, "start", "phase1")
  /\ OnlyPc
  /\ UNCHANGED <<window, conn, listeners, cpc>>

StartPhase1(a) ==
  /\ Runs(a)
  /\ AGoto(a, "phase1", "waitdev")
  /\ SetState(START_PHASE1)
  /\ OnlyPc
  /\ UNCHANGED <<window, conn, listeners, cpc>>

(* The failures of start_ta_service: no device index, no answer from the   *)
(* device (which is reported in m_state before the stop), a daemon that    *)
(* does not launch, a channel that does not connect after two restarts, no *)
(* device information within the wait.                                     *)
StartFails(a) ==
  /\ Runs(a)
  /\ "start fails" \in Events
  /\ pc[a] \in {"phase1", "waitdev", "launch", "connect", "waittdc"}
  /\ pc' = [pc EXCEPT ![a] = "stop"]
  /\ ret' = [ret EXCEPT ![a] = "failed"]
  /\ SetState(IF pc[a] = "waitdev" THEN ERR_DEVNOTFOUND ELSE mState)
  /\ UNCHANGED <<now, attempt, stopEnabled, fbcUp, launches, starts, stopped>>
  /\ UNCHANGED <<window, conn, listeners, cpc>>

StartWaitDevice(a) ==
  /\ Runs(a)
  /\ AGoto(a, "waitdev", "launch")
  /\ OnlyPc
  /\ UNCHANGED <<shared, window, conn, listeners, cpc>>

StartPhase2(a) ==
  /\ Runs(a)
  /\ AGoto(a, "launch", "connect")
  /\ SetState(START_PHASE2)
  /\ OnlyPc
  /\ UNCHANGED <<window, conn, listeners, cpc>>

StartPhase3(a) ==
  /\ Runs(a)
  /\ AGoto(a, "connect", "waittdc")
  /\ SetState(START_PHASE3)
  /\ fbcUp' = TRUE
  /\ UNCHANGED <<now, ret, attempt, stopEnabled, launches, starts, stopped>>
  /\ UNCHANGED <<window, conn, listeners, cpc>>

(* The listener thread is created and start_ta_service returns 1.          *)
StartListener(a) ==
  /\ Runs(a)
  /\ starts < MaxStarts
  /\ AGoto(a, "waittdc", IF a = "timer" THEN "reinitend" ELSE "idle")
  /\ starts' = starts + 1
  /\ lpc' = [lpc EXCEPT ![starts + 1] = "ready"]
  /\ UNCHANGED <<now, ret, attempt, stopEnabled, fbcUp, launches, stopped>>
  /\ UNCHANGED <<shared, window, conn, lfd, lsk, cpc>>

Start(a) ==
  \/ StartService(a) \/ StartPhase1(a) \/ StartFails(a) \/ StartWaitDevice(a)
  \/ StartPhase2(a) \/ StartPhase3(a) \/ StartListener(a)

-----------------------------------------------------------------------------
(* stop_ta_service.                                                        *)

(* One more stop may begin: only a bound on how many overlap.              *)
MayStop == Cardinality({a \in Actors : pc[a] \in StopPoints}) < MaxStops

StopCheck(a) ==
  /\ Runs(a)
  /\ AGoto(a, "stop", IF mState > SERVICE_STOP THEN "stopped" ELSE "stopping")
  /\ OnlyPc
  /\ UNCHANGED <<shared, window, conn, listeners, cpc>>

StopPhase0(a) ==
  /\ Runs(a)
  /\ AGoto(a, "stopping", "stopclient")
  /\ SetState(SERVICE_STOP)
  /\ stopped' = TRUE
  /\ UNCHANGED <<now, ret, attempt, stopEnabled, fbcUp, launches, starts>>
  /\ UNCHANGED <<window, conn, listeners, cpc>>

StopPhase1(a) ==
  /\ Runs(a)
  /\ AGoto(a, "stopping", "stopclient")
  /\ SetState(STOP_PHASE1)
  /\ stopped' = TRUE
  /\ UNCHANGED <<now, ret, attempt, stopEnabled, fbcUp, launches, starts>>
  /\ UNCHANGED <<window, conn, listeners, cpc>>

StopClient(a) ==
  /\ Runs(a)
  /\ AGoto(a, "stopclient", "stopforget")
  /\ ShutdownSocket(clientSock)
  /\ OnlyPc
  /\ UNCHANGED <<shared, window, listeners, cpc>>

StopForget(a) ==
  /\ Runs(a)
  /\ AGoto(a, "stopforget", "stoplisten")
  /\ clientSock' = NoConn
  /\ OnlyPc
  /\ UNCHANGED <<mState, listenSock, clientTempSock, hclient, window, conn,
                 listeners, cpc>>

StopListenOnly(a) ==
  /\ Runs(a)
  /\ AGoto(a, "stoplisten", "stopphase2")
  /\ OnlyPc
  /\ UNCHANGED <<shared, window, conn, listeners, cpc>>

StopListen(a) ==
  /\ Runs(a)
  /\ AGoto(a, "stoplisten", "stopphase2")
  /\ listenSock' = 0
  /\ OnlyPc
  /\ UNCHANGED <<mState, clientSock, clientTempSock, hclient, window, conn,
                 listeners, cpc>>

(* The thread handles were closed when the threads were created: neither   *)
(* the wait nor TerminateThread reaches a thread, only m_hclientThread is  *)
(* reset.                                                                  *)
StopPhase2(a) ==
  /\ Runs(a)
  /\ AGoto(a, "stopphase2", "stopdone")
  /\ mState' = STOP_PHASE2
  /\ hclient' = FALSE
  /\ OnlyPc
  /\ UNCHANGED <<listenSock, clientSock, clientTempSock, window, conn,
                 listeners, cpc>>

StopDone(a) ==
  /\ Runs(a)
  /\ AGoto(a, "stopdone", "stopped")
  /\ SetState(STOP_DONE)
  /\ OnlyPc
  /\ UNCHANGED <<window, conn, listeners, cpc>>

(* OnBnClickedButtonStop after stop_ta_service.                            *)
StopReturnsToButton(a) ==
  /\ Runs(a)
  /\ ret[a] = "button"
  /\ AGoto(a, "stopped", "idle")
  /\ SetState(STOP_DONE)
  /\ stopEnabled' = FALSE
  /\ ret' = [ret EXCEPT ![a] = "none"]
  /\ UNCHANGED <<now, attempt, fbcUp, launches, starts, stopped>>
  /\ UNCHANGED <<window, conn, listeners, cpc>>

(* OnBnClickedButtonStart after a failed start_ta_service.                 *)
StopReturnsToStart(a) ==
  /\ Runs(a)
  /\ a = "ui" /\ ret[a] = "failed"
  /\ AGoto(a, "stopped", "idle")
  /\ SetState(ERR_START_SERVICE)
  /\ stopEnabled' = FALSE
  /\ ret' = [ret EXCEPT ![a] = "none"]
  /\ UNCHANGED <<now, attempt, fbcUp, launches, starts, stopped>>
  /\ UNCHANGED <<window, conn, listeners, cpc>>

(* ReInit after a stop: start the service; when that fails, stop it again  *)
(* and start it once more; then give up.                                   *)
StopReturnsToReInit ==
  /\ ret["timer"] # "none"
  /\ \/ /\ ret["timer"] \in {"reboot", "again"}
        /\ launches < MaxStarts
        /\ AGoto("timer", "stopped", "start")
        /\ ret' = [ret EXCEPT !["timer"] = "none"]
        /\ attempt' = IF ret["timer"] = "reboot" THEN 1 ELSE 2
        /\ launches' = launches + 1
     \/ /\ ret["timer"] = "failed" /\ attempt = 1
        /\ AGoto("timer", "stopped", "stop")
        /\ ret' = [ret EXCEPT !["timer"] = "again"]
        /\ UNCHANGED <<attempt, launches>>
     \/ /\ ret["timer"] = "failed" /\ attempt = 2
        /\ AGoto("timer", "stopped", "reinitend")
        /\ ret' = [ret EXCEPT !["timer"] = "none"]
        /\ UNCHANGED <<attempt, launches>>
  /\ UNCHANGED <<now, stopEnabled, fbcUp, starts, stopped>>
  /\ UNCHANGED <<shared, window, conn, listeners, cpc>>

(* The screen thread after init_fbc stopped the service.                   *)
StopReturnsToScreen ==
  /\ ret["fbc"] = "lost"
  /\ AGoto("fbc", "stopped", "idle")
  /\ SetState(IF mState < SERVICE_STOP THEN ERR_START_SERVICE ELSE mState)
  /\ ret' = [ret EXCEPT !["fbc"] = "none"]
  /\ UNCHANGED <<now, attempt, stopEnabled, fbcUp, launches, starts, stopped>>
  /\ UNCHANGED <<window, conn, listeners, cpc>>

(* key_wake, before the session is armed, and every key of a served client *)
(* wait for the event daemon's answer; when that daemon cannot be run      *)
(* again, init_evt stops the service in the client thread.                 *)
KeysFail(c) ==
  /\ "keys fail" \in Events /\ MayStop
  /\ CGoto(c, "arm", "wakestop") \/ CGoto(c, "serve", "keystop")
  /\ AGoto("cli", "idle", "stop")
  /\ ret' = [ret EXCEPT !["cli"] = "keys"]
  /\ UNCHANGED <<now, attempt, stopEnabled, fbcUp, launches, starts, stopped>>
  /\ UNCHANGED <<shared, window, conn, listeners>>

(* key_checkok ignores the failure and the thread goes on.                 *)
StopReturnsToClient(c) ==
  /\ ret["cli"] = "keys"
  /\ CGoto(c, "wakestop", "awake") \/ CGoto(c, "keystop", "serve")
  /\ AGoto("cli", "stopped", "idle")
  /\ ret' = [ret EXCEPT !["cli"] = "none"]
  /\ UNCHANGED <<now, attempt, stopEnabled, fbcUp, launches, starts, stopped>>
  /\ UNCHANGED <<shared, window, conn, listeners>>

Stop(a) ==
  \/ StopCheck(a) \/ StopPhase1(a) \/ StopClient(a) \/ StopForget(a)
  \/ StopListen(a) \/ StopPhase2(a) \/ StopDone(a)
  \/ StopReturnsToButton(a) \/ StopReturnsToStart(a)

-----------------------------------------------------------------------------
(* The dialog, the device and the clock.                                   *)

StartButton ==
  /\ ~stopEnabled
  /\ launches < MaxStarts
  /\ AGoto("ui", "idle", "start")
  /\ Runs("ui")
  /\ stopEnabled' = TRUE
  /\ launches' = launches + 1
  /\ UNCHANGED <<now, ret, attempt, fbcUp, starts, stopped>>
  /\ UNCHANGED <<shared, window, conn, listeners, cpc>>

StartButtonNoDevice ==
  /\ ~stopEnabled
  /\ "start fails" \in Events
  /\ pc["ui"] = "idle"
  /\ SetState(ERR_DEVNOTFOUND)
  /\ UNCHANGED <<window, conn, listeners, cpc, control>>

StopButton ==
  /\ stopEnabled
  /\ "user stop" \in Events /\ MayStop
  /\ AGoto("ui", "idle", "stop")
  /\ ret' = [ret EXCEPT !["ui"] = "button"]
  /\ UNCHANGED <<now, attempt, stopEnabled, fbcUp, launches, starts, stopped>>
  /\ UNCHANGED <<shared, window, conn, listeners, cpc>>

(* A click on Stop that the dialog's own start dispatches while it waits.  *)
StopClick ==
  /\ stopEnabled
  /\ "click stop" \in Events /\ MayStop
  /\ pc["ui"] \in {"launch", "connect", "waittdc"}
  /\ AGoto("click", "idle", "stop")
  /\ ret' = [ret EXCEPT !["click"] = "button"]
  /\ UNCHANGED <<now, attempt, stopEnabled, fbcUp, launches, starts, stopped>>
  /\ UNCHANGED <<shared, window, conn, listeners, cpc>>

(* A device thread ends: its channel cannot be reopened, or init_fbc       *)
(* cannot even run the daemon and stops the service; or it sees the stop.  *)
DeviceLost ==
  /\ fbcUp
  /\ fbcUp' = FALSE
  /\ \/ /\ "device lost" \in Events /\ mState < SERVICE_STOP
        /\ SetState(ERR_START_SERVICE)
        /\ UNCHANGED <<pc, ret>>
     \/ /\ "relaunch fails" \in Events /\ MayStop /\ mState < SERVICE_STOP
        /\ AGoto("fbc", "idle", "stop")
        /\ ret' = [ret EXCEPT !["fbc"] = "lost"]
        /\ UNCHANGED shared
     \/ /\ mState >= SERVICE_STOP
        /\ UNCHANGED <<pc, ret, shared>>
  /\ UNCHANGED <<now, attempt, stopEnabled, launches, starts, stopped>>
  /\ UNCHANGED <<window, conn, listeners, cpc>>

(* The end of c's reservation passes; it is of no account before the agent *)
(* has learnt that reservation.                                            *)
Expire(c) ==
  /\ c \in {validOf, initOf} \ over
  /\ over' = over \cup {c}
  /\ UNCHANGED <<shared, validOf, initRequired, initOf, conn, listeners, cpc,
                 control>>

Dialog == StartButton \/ StartButtonNoDevice \/ StopButton \/ StopClick

Service ==
  \/ \E a \in {"ui", "timer"} : Start(a)
  \/ \E a \in Actors : Stop(a)
  \/ StopReturnsToReInit
  \/ StopReturnsToScreen
  \/ \E c \in Conns : KeysFail(c) \/ StopReturnsToClient(c)

Next ==
  \/ \E g \in Gens : Listener(g)
  \/ \E c \in Conns : Client(c) \/ Expire(c)
  \/ Timer
  \/ Service
  \/ Dialog
  \/ DeviceLost

(* Not in Next, each one a mistake that the properties below must notice:  *)
(* BusyByState, ClientRefuseOpen, CloseClientSockOnly, WindowOverOfUser,   *)
(* ReinitDueNoWindow, StopPhase0 and StopListenOnly.                       *)

Spec == Init /\ [][Next]_vars

(* Threads run and blocking calls come back: reads time out, the wait for  *)
(* the device is bounded. Nothing obliges a user to click, a client to     *)
(* connect or to leave, or a reservation to end.                           *)
SocketGone(c) == clientSock = NoConn \/ conn[clientSock] = "closed"

Fairness ==
  /\ \A g \in Gens : WF_vars(Listener(g) /\ lpc[g] # "accept")
  /\ \A c \in Conns : WF_vars(Client(c) /\ (cpc[c] = "serve" => SocketGone(c)))
  /\ WF_vars(Timer \/ Start("timer") \/ Stop("timer") \/ StopReturnsToReInit)
  /\ WF_vars(Start("ui") \/ Stop("ui"))
  /\ WF_vars(Stop("cli") \/ \E c \in Conns : StopReturnsToClient(c))

FairSpec == Spec /\ Fairness

-----------------------------------------------------------------------------
(* PROPERTIES                                                              *)

(* The service has been started once and was never stopped: the regime in  *)
(* which the code relies on one listener thread.                           *)
FirstRun == starts <= 1 /\ ~stopped

(* Before the client thread of c has copied m_clientTempSock it reads and  *)
(* writes the client through that variable.                                *)
Before == {"setup", "incoming", "negotiate", "greet", "validate", "refuse", "adopt"}

(* "Serve only one client": until the service is stopped, the test of the  *)
(* thread handle after accept never lets two client threads exist.         *)
OneClient ==
  FirstRun => \A c, d \in LiveConns : c = d

(* A client thread finds the connection it was created for in              *)
(* m_clientTempSock for as long as it negotiates through that variable:    *)
(* the listener does not overwrite it by accepting the next client.        *)
TempSockOwned ==
  FirstRun => \A c \in Conns : cpc[c] \in Before => clientTempSock = c

(* m_clientSock never holds a connection whose thread has finished: what   *)
(* screen, device and timer threads send goes to the served client.        *)
ClientSockOwned ==
  FirstRun /\ clientSock # NoConn => Live(clientSock)

(* READY is announced only when no client socket is open.                  *)
ReadyMeansFree ==
  FirstRun /\ mState = READY => clientSock = NoConn

(* A finished client thread leaves no open connection behind, as long as   *)
(* the timer, which closes and forgets m_clientSock in two statements, has *)
(* no session to end.                                                      *)
NoOrphan ==
  FirstRun /\ over = {} => \A c \in Conns : cpc[c] = "done" => conn[c] = "closed"

(* What ServeOne sees of the threads while its promise lasts.              *)
Whom == IF FirstRun /\ LiveConns # {} THEN CHOOSE c \in LiveConns : TRUE
                                      ELSE NoConn
Line == IF FirstRun THEN clientSock ELSE NoConn
Taken == IF FirstRun THEN {c \in Conns : cpc[c] # "none"} ELSE {}

Serve == INSTANCE ServeOne WITH
  who <- Whom, sock <- Line, served <- Taken, over <- ~FirstRun

(* The listener, client and timer threads together implement ServeOne.     *)
ServesOne == Serve!Spec

(* The listener rejects a new client with the reason that one is served    *)
(* already: then one is.                                                   *)
RejectMeansBusy ==
  [][\A g \in Gens :
       ListenCheck(g) /\ listenSock # 0 /\ lfd[g] # NoConn /\ Busy
         => LiveConns # {}]_vars

(* Once the dialog says that the service is stopped, nobody listens.       *)
StoppedMeansClosed ==
  ~stopEnabled /\ pc["ui"] = "idle" => listenSock = 0

(* "Reinit after client session": when the re-initialisation stops the     *)
(* service to reboot the device, no client is served whose own reservation *)
(* is still running.                                                       *)
ReinitAfterSession ==
  [][StopPhase1("timer") => \A c \in Conns : cpc[c] = "serve" => c \in over]_vars

(* A device is rebooted, and the service started again, only after the     *)
(* stop has closed the listening socket: the early return of the stop does *)
(* not skip the socket of the first start. It can skip that of a later     *)
(* one: the listener of the start before, still on its way out, reports    *)
(* its end in m_state, and the error states make the stop return.          *)
RebootsStopped ==
  [][StartService("timer") /\ starts <= 1 => listenSock = 0]_vars

(* The session of a client whose reservation has ended is closed, unless a *)
(* re-initialisation that was already due takes over the state first (it   *)
(* stops the service, or, when the new session has just cancelled it,      *)
(* leaves its state behind and the session unwatched).                     *)
ExpiredIsDropped ==
  \A c \in Conns :
    (clientSock = c /\ validOf = c /\ c \in over)
      ~> (clientSock # c \/ stopped \/ mState = AFTER_CLIENT_REINIT)

(* An accepted connection that waits for its thread, or whose thread still *)
(* negotiates, does not stay in limbo: it is closed or it becomes the      *)
(* client socket, unless the service is being stopped.                     *)
AcceptedIsSettled ==
  \A c \in Conns :
    (conn[c] = "open" /\ cpc[c] \in Before \cup {"none"})
      ~> (conn[c] = "closed" \/ clientSock = c \/ stopped)

(* A re-initialisation that is due gets as far as stopping the service,    *)
(* whatever the clients do, or becomes obsolete because another client has *)
(* been accepted meanwhile.                                                *)
ReinitHappens ==
  \A c \in Conns :
    (initRequired /\ initOf = c /\ c \in over)
      ~> (stopped \/ ~initRequired \/ initOf # c)

=============================================================================
