-------------------------- MODULE TASessionProofs --------------------------
(* Proofs about TASession, for every set of connections, every bound on    *)
(* the starts and every set of external events.                            *)
EXTENDS TASession, TLAPS

USE StartsAssumption
USE DEF shared, window, listeners, control, vars, OnlyPc, OnlyClock, SetState, LGoto, CGoto,
  AGoto, ShutdownSocket, CloseClientSock, Socks, Gens, Actors

(* The service is stopped in the client thread.                            *)
ClientStop(c) == KeysFail(c) \/ StopReturnsToClient(c)

LEMMA StateValues ==
  /\ INIT_DONE \in States
  /\ START_SERVICE \in States
  /\ START_PHASE1 \in States
  /\ START_PHASE2 \in States
  /\ START_PHASE3 \in States
  /\ READY \in States
  /\ CLIENT_INCOMING \in States
  /\ CLIENT_NEGOTIATE \in States
  /\ CLIENT_CONNECTED \in States
  /\ CLIENT_DISCONNECT \in States
  /\ USER_DISCONNECT \in States
  /\ CLIENT_TIMEOUT \in States
  /\ AFTER_CLIENT_REINIT \in States
  /\ STOP_PHASE1 \in States
  /\ STOP_PHASE2 \in States
  /\ STOP_DONE \in States
  /\ ERR_DEVNOTFOUND \in States
  /\ ERR_START_SERVICE \in States
BY DEF States

LEMMA ListenerType ==
  ASSUME TypeOK, NEW g \in Gens, Listener(g)
  PROVE  TypeOK'
<1> USE StateValues DEF TypeOK, LPoints, CPoints
<1>1. CASE ListenReady(g)
  BY <1>1 DEF ListenReady
<1>2. CASE ListenInit(g)
  <2>1. g \in 0 .. MaxStarts
    OBVIOUS
  <2>2. listenSock' \in 0 .. MaxStarts
    BY <1>2, <2>1 DEF ListenInit
  <2>3. lpc' \in [Gens -> LPoints] /\ hclient' \in BOOLEAN
    BY <1>2 DEF ListenInit
  <2>4. UNCHANGED <<mState, clientSock, clientTempSock, window, conn, lfd, lsk,
                    cpc, control>>
    BY <1>2, Zenon DEF ListenInit
  <2> QED  BY <2>2, <2>3, <2>4
<1>3. CASE ListenLoop(g)
  <2>1. lpc' \in [Gens -> LPoints]
    BY <1>3 DEF ListenLoop
  <2>2. lsk' \in [Gens -> 0 .. MaxStarts]
    BY <1>3 DEF ListenLoop
  <2>3. UNCHANGED <<shared, window, conn, lfd, cpc, control>>
    BY <1>3, Zenon DEF ListenLoop
  <2> QED  BY <2>1, <2>2, <2>3
<1>4. CASE ListenAccept(g)
  <2>1. lpc' \in [Gens -> LPoints] /\ lfd' \in [Gens -> Socks]
    BY <1>4 DEF ListenAccept
  <2>2. conn' \in [Conns -> {"new", "open", "closed"}]
    BY <1>4 DEF ListenAccept
  <2>3. UNCHANGED <<shared, window, lsk, cpc, control>>
    BY <1>4, Zenon DEF ListenAccept
  <2> QED  BY <2>1, <2>2, <2>3
<1>5. CASE ListenCheck(g)
  <2>1. lpc' \in [Gens -> LPoints]
    BY <1>5 DEF ListenCheck
  <2>2. conn' \in [Conns -> {"new", "open", "closed"}]
    BY <1>5 DEF ListenCheck
  <2>3. clientTempSock' \in Socks
    BY <1>5 DEF ListenCheck
  <2>4. UNCHANGED <<mState, listenSock, clientSock, hclient, window, lfd, lsk, cpc,
                    control>>
    BY <1>5, Zenon DEF ListenCheck
  <2> QED  BY <2>1, <2>2, <2>3, <2>4
<1>6. CASE ListenSpawn(g)
  BY <1>6 DEF ListenSpawn
<1>7. CASE ListenAssign(g)
  BY <1>7 DEF ListenAssign
<1>8. CASE ListenLeave(g)
  BY <1>8 DEF ListenLeave
<1> QED  BY <1>1, <1>2, <1>3, <1>4, <1>5, <1>6, <1>7, <1>8 DEF Listener

LEMMA ClientType ==
  ASSUME TypeOK, NEW c \in Conns, Client(c)
  PROVE  TypeOK'
<1>1. UNCHANGED <<listenSock, clientTempSock, over, listeners, control>>
  BY Zenon DEF Client, ClientSetup, ClientIncoming, ClientNegotiate, ClientGreet,
     ClientValidate, ClientRefuse, ClientAdopt, ClientConnect, ClientArm,
     ClientArmTime, ClientServe, ClientUserClose, ClientExit, ClientMark,
     ClientDrop, ClientSettle, ClientReady, ClientClear
<1>2. \E to \in CPoints : cpc' = [cpc EXCEPT ![c] = to]
  BY Zenon DEF CPoints, Client, ClientSetup, ClientIncoming, ClientNegotiate, ClientGreet,
     ClientValidate, ClientRefuse, ClientAdopt, ClientConnect, ClientArm,
     ClientArmTime, ClientServe, ClientUserClose, ClientExit, ClientMark,
     ClientDrop, ClientSettle, ClientReady, ClientClear
<1>3. mState' \in States
  <2>1. mState \in States
    BY DEF TypeOK
  <2> QED  BY <2>1, StateValues, Zenon DEF Client, ClientSetup, ClientIncoming, ClientNegotiate, ClientGreet,
             ClientValidate, ClientRefuse, ClientAdopt, ClientConnect, ClientArm,
             ClientArmTime, ClientServe, ClientUserClose, ClientExit, ClientMark,
             ClientDrop, ClientSettle, ClientReady, ClientClear
<1>4. clientSock' \in {clientSock, clientTempSock, NoConn}
  BY Zenon DEF Client, ClientSetup, ClientIncoming, ClientNegotiate, ClientGreet,
     ClientValidate, ClientRefuse, ClientAdopt, ClientConnect, ClientArm,
     ClientArmTime, ClientServe, ClientUserClose, ClientExit, ClientMark,
     ClientDrop, ClientSettle, ClientReady, ClientClear
<1>5. hclient' \in {hclient, FALSE}
  BY Zenon DEF Client, ClientSetup, ClientIncoming, ClientNegotiate, ClientGreet,
     ClientValidate, ClientRefuse, ClientAdopt, ClientConnect, ClientArm,
     ClientArmTime, ClientServe, ClientUserClose, ClientExit, ClientMark,
     ClientDrop, ClientSettle, ClientReady, ClientClear
<1>6. conn' = conn \/ \E s : conn' = [d \in Conns |-> IF d = s THEN "closed"
                                                              ELSE conn[d]]
  BY Zenon DEF Client, ClientSetup, ClientIncoming, ClientNegotiate, ClientGreet,
     ClientValidate, ClientRefuse, ClientAdopt, ClientConnect, ClientArm,
     ClientArmTime, ClientServe, ClientUserClose, ClientExit, ClientMark,
     ClientDrop, ClientSettle, ClientReady, ClientClear
<1>7. validOf' \in {validOf, c, NoConn} /\ initOf' \in {initOf, validOf}
  BY Zenon DEF Client, ClientSetup, ClientIncoming, ClientNegotiate, ClientGreet,
     ClientValidate, ClientRefuse, ClientAdopt, ClientConnect, ClientArm,
     ClientArmTime, ClientServe, ClientUserClose, ClientExit, ClientMark,
     ClientDrop, ClientSettle, ClientReady, ClientClear
<1>8. initRequired' \in BOOLEAN
  BY Zenon DEF TypeOK, Client, ClientSetup, ClientIncoming, ClientNegotiate, ClientGreet,
     ClientValidate, ClientRefuse, ClientAdopt, ClientConnect, ClientArm,
     ClientArmTime, ClientServe, ClientUserClose, ClientExit, ClientMark,
     ClientDrop, ClientSettle, ClientReady, ClientClear
<1>9. cpc' \in [Conns -> CPoints]
  BY <1>2 DEF TypeOK
<1>10. conn' \in [Conns -> {"new", "open", "closed"}]
  BY <1>6 DEF TypeOK
<1>11. clientSock' \in Socks /\ validOf' \in Socks /\ initOf' \in Socks
       /\ hclient' \in BOOLEAN
  BY <1>4, <1>5, <1>7 DEF TypeOK
<1> QED  BY <1>1, <1>3, <1>8, <1>9, <1>10, <1>11 DEF TypeOK

LEMMA TimerType ==
  ASSUME TypeOK, Timer
  PROVE  TypeOK'
<1> USE StateValues DEF TypeOK, Points, StartPoints, StopPoints, Returns
<1>1. CASE TimerTick
  BY <1>1 DEF TimerTick
<1>2. CASE TimerWindow
  BY <1>2 DEF TimerWindow
<1>3. CASE TimerExpire
  BY <1>3 DEF TimerExpire
<1>4. CASE TimerExpireClose
  BY <1>4 DEF TimerExpireClose
<1>5. CASE TimerExpireForget
  BY <1>5 DEF TimerExpireForget
<1>6. CASE TimerLook
  BY <1>6 DEF TimerLook
<1>7. CASE ReInit
  BY <1>7 DEF ReInit
<1>8. CASE ReInitEnd
  <2>1. pc' \in [Actors -> Points]
    BY <1>8 DEF ReInitEnd
  <2>2. initRequired' \in BOOLEAN
    BY <1>8 DEF ReInitEnd
  <2>4. attempt' \in 0 .. 2
    BY <1>8 DEF ReInitEnd
  <2>3. UNCHANGED <<shared, validOf, initOf, over, conn, listeners, cpc, now, ret,
                    stopEnabled, fbcUp, launches, starts, stopped>>
    BY <1>8, Zenon DEF ReInitEnd
  <2> QED  BY <2>1, <2>2, <2>3, <2>4
<1> QED  BY <1>1, <1>2, <1>3, <1>4, <1>5, <1>6, <1>7, <1>8 DEF Timer

LEMMA StartType ==
  ASSUME TypeOK, NEW a \in Actors, Start(a)
  PROVE  TypeOK'
<1> USE StateValues DEF TypeOK, Points, StartPoints, StopPoints, Returns, LPoints
<1>1. CASE StartService(a)
  BY <1>1 DEF StartService
<1>2. CASE StartPhase1(a)
  BY <1>2 DEF StartPhase1
<1>3. CASE StartFails(a)
  <2>1. mState' \in States
    BY <1>3 DEF StartFails
  <2>2. pc' \in [Actors -> Points] /\ ret' \in [Actors -> Returns]
    BY <1>3 DEF StartFails
  <2>3. UNCHANGED <<listenSock, clientSock, clientTempSock, hclient, window,
                    conn, listeners, cpc, now, attempt, stopEnabled, fbcUp,
                    launches, starts, stopped>>
    BY <1>3, Zenon DEF StartFails
  <2> QED  BY <2>1, <2>2, <2>3
<1>4. CASE StartWaitDevice(a)
  BY <1>4 DEF StartWaitDevice
<1>5. CASE StartPhase2(a)
  BY <1>5 DEF StartPhase2
<1>6. CASE StartPhase3(a)
  BY <1>6 DEF StartPhase3
<1>7. CASE StartListener(a)
  BY <1>7 DEF StartListener
<1> QED  BY <1>1, <1>2, <1>3, <1>4, <1>5, <1>6, <1>7 DEF Start

LEMMA StopType ==
  ASSUME TypeOK, NEW a \in Actors, Stop(a)
  PROVE  TypeOK'
<1> USE StateValues DEF TypeOK, Points, StartPoints, StopPoints, Returns
<1>1. CASE StopCheck(a)
  BY <1>1 DEF StopCheck
<1>2. CASE StopPhase1(a)
  BY <1>2 DEF StopPhase1
<1>3. CASE StopClient(a)
  BY <1>3 DEF StopClient
<1>4. CASE StopForget(a)
  BY <1>4 DEF StopForget
<1>5. CASE StopListen(a)
  BY <1>5 DEF StopListen
<1>6. CASE StopPhase2(a)
  BY <1>6 DEF StopPhase2
<1>7. CASE StopDone(a)
  BY <1>7 DEF StopDone
<1>8. CASE StopReturnsToButton(a)
  BY <1>8 DEF StopReturnsToButton
<1>9. CASE StopReturnsToStart(a)
  BY <1>9 DEF StopReturnsToStart
<1> QED  BY <1>1, <1>2, <1>3, <1>4, <1>5, <1>6, <1>7, <1>8, <1>9 DEF Stop

LEMMA DialogType ==
  ASSUME TypeOK, Dialog
  PROVE  TypeOK'
<1> USE StateValues DEF TypeOK, Points, StartPoints, StopPoints, Returns
<1>1. CASE StartButton
  BY <1>1 DEF StartButton
<1>2. CASE StartButtonNoDevice
  BY <1>2 DEF StartButtonNoDevice
<1>3. CASE StopButton
  BY <1>3 DEF StopButton
<1>4. CASE StopClick
  BY <1>4 DEF StopClick
<1> QED  BY <1>1, <1>2, <1>3, <1>4 DEF Dialog

LEMMA OtherType ==
  ASSUME TypeOK,
         StopReturnsToReInit \/ StopReturnsToScreen \/ DeviceLost
           \/ (\E c \in Conns : Expire(c))
  PROVE  TypeOK'
<1> USE StateValues DEF TypeOK, Points, StartPoints, StopPoints, Returns
<1>1. CASE StopReturnsToReInit
  <2>1. ret' \in [Actors -> Returns]
    BY <1>1 DEF StopReturnsToReInit
  <2>2. pc' \in [Actors -> Points]
    BY <1>1 DEF StopReturnsToReInit
  <2>3. attempt' \in 0 .. 2
    BY <1>1 DEF StopReturnsToReInit
  <2>5. launches' \in 0 .. MaxStarts
    BY <1>1 DEF StopReturnsToReInit
  <2>4. UNCHANGED <<shared, window, conn, listeners, cpc, now, stopEnabled,
                    fbcUp, starts, stopped>>
    BY <1>1, Zenon DEF StopReturnsToReInit
  <2> QED  BY <2>1, <2>2, <2>3, <2>4, <2>5
<1>2. CASE StopReturnsToScreen
  BY <1>2 DEF StopReturnsToScreen
<1>3. CASE DeviceLost
  <2>5. pc' = pc \/ pc' = [pc EXCEPT !["fbc"] = "stop"]
    BY <1>3, Zenon DEF DeviceLost
  <2>1. pc' \in [Actors -> Points]
    BY <2>5
  <2>6. ret' = ret \/ ret' = [ret EXCEPT !["fbc"] = "lost"]
    BY <1>3, Zenon DEF DeviceLost
  <2>4. ret' \in [Actors -> Returns]
    BY <2>6
  <2>2. mState' \in {mState, ERR_START_SERVICE} /\ fbcUp' = FALSE
    BY <1>3, Zenon DEF DeviceLost
  <2>3. UNCHANGED <<listenSock, clientSock, clientTempSock, hclient, window, conn,
                    listeners, cpc, now, attempt, stopEnabled, launches, starts,
                    stopped>>
    BY <1>3, Zenon DEF DeviceLost
  <2> QED  BY <2>1, <2>2, <2>3, <2>4
<1>4. CASE \E c \in Conns : Expire(c)
  BY <1>4 DEF Expire
<1> QED  BY <1>1, <1>2, <1>3, <1>4

LEMMA ClientStopType ==
  ASSUME TypeOK, NEW c \in Conns, ClientStop(c)
  PROVE  TypeOK'
<1>1. \E to \in {"stop", "idle"} : pc' = [pc EXCEPT !["cli"] = to]
  BY Zenon DEF ClientStop, KeysFail, StopReturnsToClient
<1>2. \E to \in {"keys", "none"} : ret' = [ret EXCEPT !["cli"] = to]
  BY Zenon DEF ClientStop, KeysFail, StopReturnsToClient
<1>3. \E to \in {"wakestop", "keystop", "awake", "serve"} :
        cpc' = [cpc EXCEPT ![c] = to]
  BY Zenon DEF ClientStop, KeysFail, StopReturnsToClient
<1>4. UNCHANGED <<shared, window, conn, listeners, now, attempt, stopEnabled,
                  fbcUp, launches, starts, stopped>>
  BY Zenon DEF ClientStop, KeysFail, StopReturnsToClient
<1>5. pc' \in [Actors -> Points] /\ ret' \in [Actors -> Returns]
  BY <1>1, <1>2 DEF TypeOK, Points, StopPoints, Returns
<1>6. cpc' \in [Conns -> CPoints]
  BY <1>3 DEF TypeOK, CPoints
<1> QED  BY <1>4, <1>5, <1>6 DEF TypeOK

LEMMA TypeInit ==
  Init => TypeOK
<1> SUFFICES ASSUME Init PROVE TypeOK
  OBVIOUS
<1>1. mState \in States /\ listenSock \in 0 .. MaxStarts /\ attempt \in 0 .. 2
      /\ launches \in 0 .. MaxStarts /\ starts \in 0 .. MaxStarts
  BY StateValues DEF Init
<1>2. clientSock \in Socks /\ clientTempSock \in Socks /\ validOf \in Socks
      /\ initOf \in Socks /\ over \in SUBSET Conns /\ now \in SUBSET Conns
      /\ conn \in [Conns -> {"new", "open", "closed"}]
  BY DEF Init
<1>3. /\ lpc \in [Gens -> LPoints] /\ lfd \in [Gens -> Socks]
      /\ lsk \in [Gens -> 0 .. MaxStarts] /\ cpc \in [Conns -> CPoints]
      /\ pc \in [Actors -> Points] /\ ret \in [Actors -> Returns]
  BY DEF Init, LPoints, CPoints, Points, Returns
<1>4. /\ hclient \in BOOLEAN /\ initRequired \in BOOLEAN
      /\ stopEnabled \in BOOLEAN /\ fbcUp \in BOOLEAN /\ stopped \in BOOLEAN
  BY DEF Init
<1> QED  BY <1>1, <1>2, <1>3, <1>4 DEF TypeOK

LEMMA TypeStep ==
  TypeOK /\ [Next]_vars => TypeOK'
<1> SUFFICES ASSUME TypeOK, [Next]_vars
             PROVE  TypeOK'
  OBVIOUS
<1>1. CASE Next
  BY <1>1, ListenerType, ClientType, TimerType, StartType, StopType, DialogType,
     OtherType, ClientStopType DEF Next, Service, ClientStop
<1>2. CASE UNCHANGED vars
  BY <1>2 DEF TypeOK
<1> QED  BY <1>1, <1>2

(* Every variable keeps its type, whatever the sets of connections and     *)
(* events and the bound on the starts.                                     *)
THEOREM Typing == Spec => []TypeOK
BY TypeInit, TypeStep, PTL DEF Spec

-----------------------------------------------------------------------------
(* The inductive invariant. Its parts speak of the first run only, where   *)
(* one listener thread exists; three of them say why there is one.         *)

Held == {"connect", "arm", "wakestop", "awake", "armtime", "serve", "keystop",
         "userclose", "exit", "mark", "drop"}
Gone == {"settle", "ready", "clear", "done"}
Busied == {"negotiate", "greet", "validate", "adopt"} \cup Held

Started == \A g \in Gens : g > starts => lpc[g] = "none"

Stopping ==
  \A a \in Actors :
    pc[a] \in {"stopclient", "stopforget", "stoplisten", "stopphase2", "stopdone"}
      => stopped

TimerQuiet ==
  /\ now \subseteq over
  /\ over = {} => pc["timer"] \notin {"expire", "expireclose", "expireforget"}

(* No client thread exists before the listener loop runs.                  *)
Early ==
  (starts = 0 \/ \E g \in Gens : lpc[g] \in {"ready", "init"})
    => \A c \in Conns : cpc[c] = "none"

One == \A c, d \in Conns : Live(c) /\ Live(d) => c = d

(* The flag is up while a thread lives, or about to be put up: too late    *)
(* for a thread that has finished by then, never too early for the test.   *)
Flag ==
  \A c \in Conns : Live(c) => hclient \/ \E g \in Gens : lpc[g] = "assign"

Spawning ==
  \A g \in Gens : lpc[g] = "spawn" =>
    /\ lfd[g] \in Conns
    /\ clientTempSock = lfd[g]
    /\ \A c \in Conns : ~Live(c)

Fresh ==
  /\ \A c \in Conns : conn[c] = "new" => cpc[c] = "none"
  /\ \A g \in Gens : lpc[g] \in {"got", "spawn"} /\ lfd[g] # NoConn =>
       cpc[lfd[g]] = "none" /\ conn[lfd[g]] # "new"

Temp == \A c \in Conns : cpc[c] \in Before => clientTempSock = c

Sock == clientSock # NoConn => cpc[clientSock] \in Held

NotReady == \A c \in Conns : cpc[c] \in Busied => mState # READY

Settled ==
  over = {} => \A c \in Conns :
    /\ cpc[c] \in Gone => conn[c] = "closed"
    /\ cpc[c] \in Held => clientSock = c \/ conn[c] = "closed"

ServiceInv ==
  /\ Early /\ One /\ Flag /\ Spawning /\ Fresh
  /\ Temp /\ Sock /\ NotReady /\ Settled

IInv ==
  /\ TypeOK /\ Started /\ Stopping /\ TimerQuiet
  /\ FirstRun => ServiceInv

(* A connection is never new again and never opened again.                 *)
Mono ==
  \A c \in Conns : /\ conn'[c] = "new" => conn[c] = "new"
                   /\ conn[c] = "closed" => conn'[c] = "closed"

(* In the first run the only listener thread is number 1.                  *)
LEMMA OneListener ==
  ASSUME TypeOK, Started, FirstRun, NEW g \in Gens, lpc[g] # "none"
  PROVE  g = 1 /\ starts = 1
BY DEF TypeOK, Started, FirstRun

(* Steps that leave the threads of the session where they are.             *)
Keeps ==
  /\ UNCHANGED <<lpc, lfd, cpc, clientTempSock, starts>>
  /\ stopped => stopped'
  /\ stopped' \/ hclient' = hclient
  /\ stopped' \/ over' # {} \/ (clientSock' = clientSock /\ over' = over)
  /\ clientSock' \in {clientSock, NoConn}
  /\ mState' = mState \/ mState' # READY
  /\ Mono

LEMMA Frame ==
  ASSUME IInv, Keeps, FirstRun'
  PROVE  ServiceInv'
<1> USE DEF Keeps
<1>1. FirstRun /\ ServiceInv /\ ~stopped'
  BY DEF IInv, FirstRun
<1> USE <1>1
<1>2. Early' /\ One'
  BY DEF ServiceInv, Early, One, Live
<1>3. Flag' /\ Spawning' /\ Temp'
  BY DEF ServiceInv, Flag, Spawning, Temp, Live
<1>4. Fresh'
  BY DEF ServiceInv, Fresh, Mono, IInv, TypeOK
<1>5. Sock' /\ NotReady'
  BY DEF ServiceInv, Sock, NotReady
<1>6. Settled'
  BY DEF ServiceInv, Settled, Mono
<1> QED  BY <1>2, <1>3, <1>4, <1>5, <1>6 DEF ServiceInv

(* What a step of c's thread to a control point must observe.              *)
Moves(c, to) ==
  /\ to \in CPoints \ {"none"}
  /\ cpc' = [cpc EXCEPT ![c] = to]
  /\ UNCHANGED <<lpc, lfd, clientTempSock, starts, stopped, over>>
  /\ IF to = "done" THEN cpc[c] = "clear" ELSE hclient' = hclient
  /\ to \in Before => cpc[c] \in Before
  /\ clientSock' \in {clientSock, c, NoConn}
  /\ clientSock' = c => to \in Held
  /\ to \in Busied => mState' # READY
  /\ over = {} /\ to \in Gone => conn'[c] = "closed"
  /\ over = {} /\ to \in Held => clientSock' = c \/ conn'[c] = "closed"
  /\ Mono

LEMMA Move ==
  ASSUME IInv, FirstRun, NEW c \in Conns, Live(c), NEW to, Moves(c, to)
  PROVE  ServiceInv'
<1> USE DEF IInv, ServiceInv, Moves
<1>1. \A d \in Conns : d # c => ~Live(d)
  BY DEF One
<1>2. cpc \in [Conns -> CPoints]
  BY DEF TypeOK
<1>3. cpc'[c] = to /\ \A d \in Conns : d # c => cpc'[d] = cpc[d]
  BY <1>2
<1>4. \A d \in Conns : d # c => cpc[d] \in {"none", "done"}
  BY <1>1 DEF Live
<1>5. cpc[c] # "none"
  BY DEF Live
<1>6. Early'
  BY <1>5 DEF Early
<1>7. One'
  BY <1>3, <1>4 DEF One, Live
<1>8. Flag'
  BY <1>3, <1>4 DEF Flag, Live
<1>9. Spawning'
  BY DEF Spawning
<1>10. Fresh'
  BY <1>2, <1>3, <1>5 DEF Fresh, Mono, TypeOK
<1>11. Temp'
  BY <1>3, <1>4 DEF Temp, Before
<1>12. Sock'
  BY <1>2, <1>3, <1>4 DEF Sock, Held, TypeOK
<1>13. NotReady'
  BY <1>3, <1>4 DEF NotReady, Busied, Held
<1>14. Settled'
  BY <1>3, <1>4 DEF Settled, Mono, Held, Gone
<1> QED  BY <1>6, <1>7, <1>8, <1>9, <1>10, <1>11, <1>12, <1>13, <1>14

(* What the invariant says to the one client thread.                       *)
LEMMA Alone ==
  ASSUME IInv, FirstRun, NEW c \in Conns, Live(c)
  PROVE  /\ clientSock \in {c, NoConn}
         /\ cpc[c] \notin Held => clientSock = NoConn
         /\ cpc[c] \in Before => clientTempSock = c
         /\ cpc[c] \in Busied => mState # READY
         /\ over = {} /\ cpc[c] \in Gone => conn[c] = "closed"
         /\ over = {} /\ cpc[c] \in Held => clientSock = c \/ conn[c] = "closed"
         /\ conn \in [Conns -> {"new", "open", "closed"}]
<1> USE DEF IInv, ServiceInv
<1>1. clientSock # NoConn => clientSock \in Conns /\ cpc[clientSock] \in Held
  BY DEF Sock, TypeOK
<1>2. clientSock # NoConn => clientSock = c
  BY <1>1 DEF One, Live, Held
<1> QED  BY <1>1, <1>2 DEF Temp, NotReady, Settled, TypeOK

LEMMA ClientMoves ==
  ASSUME IInv, FirstRun, NEW c \in Conns, Client(c) \/ ClientStop(c)
  PROVE  Live(c) /\ \E to : Moves(c, to)
<1>1. Live(c)
  BY DEF Live, ClientStop, KeysFail, StopReturnsToClient, Client, ClientSetup, ClientIncoming, ClientNegotiate, ClientGreet,
     ClientValidate, ClientRefuse, ClientAdopt, ClientConnect, ClientArm,
     ClientArmTime, ClientServe, ClientUserClose, ClientExit, ClientMark, ClientDrop,
     ClientSettle, ClientReady, ClientClear
<1> USE <1>1, Alone, ConnsAssumption
    DEF Moves, Mono, CPoints, Before, Held, Gone, Busied, FirstRun
<1>2. CASE ClientSetup(c)
  <2>1. Moves(c, "incoming") \/ Moves(c, "refuse")
    BY <1>2 DEF ClientSetup
  <2> QED  BY <2>1
<1>3. CASE ClientIncoming(c)
  <2>1. Moves(c, "negotiate")
    BY <1>3 DEF ClientIncoming, CLIENT_INCOMING, READY
  <2> QED  BY <2>1
<1>4. CASE ClientNegotiate(c)
  <2>1. Moves(c, "greet")
    BY <1>4 DEF ClientNegotiate, CLIENT_NEGOTIATE, READY
  <2> QED  BY <2>1
<1>5. CASE ClientGreet(c)
  <2>1. Moves(c, "validate") \/ Moves(c, "refuse")
    BY <1>5 DEF ClientGreet
  <2> QED  BY <2>1
<1>6. CASE ClientValidate(c)
  <2>1. Moves(c, "adopt") \/ Moves(c, "refuse")
    BY <1>6 DEF ClientValidate
  <2> QED  BY <2>1
<1>7. CASE ClientRefuse(c)
  <2>1. Moves(c, "ready")
    BY <1>7 DEF ClientRefuse
  <2> QED  BY <2>1
<1>8. CASE ClientAdopt(c)
  <2>1. Moves(c, "connect")
    BY <1>8 DEF ClientAdopt
  <2> QED  BY <2>1
<1>9. CASE ClientConnect(c)
  <2>1. Moves(c, "arm")
    BY <1>9 DEF ClientConnect, CLIENT_CONNECTED, READY
  <2> QED  BY <2>1
<1>10. CASE ClientArm(c)
  <2>1. Moves(c, "armtime")
    BY <1>10 DEF ClientArm
  <2> QED  BY <2>1
<1>11. CASE ClientArmTime(c)
  <2>1. Moves(c, "serve")
    BY <1>11 DEF ClientArmTime
  <2> QED  BY <2>1
<1>12. CASE ClientServe(c)
  <2>1. Moves(c, "exit") \/ Moves(c, "userclose")
    BY <1>12 DEF ClientServe, USER_DISCONNECT, READY
  <2> QED  BY <2>1
<1>13. CASE ClientUserClose(c)
  <2>1. Moves(c, "exit")
    BY <1>13 DEF ClientUserClose
  <2> QED  BY <2>1
<1>14. CASE ClientExit(c)
  <2>1. Moves(c, "mark") \/ Moves(c, "drop")
    BY <1>14 DEF ClientExit
  <2> QED  BY <2>1
<1>15. CASE ClientMark(c)
  <2>1. Moves(c, "drop")
    BY <1>15 DEF ClientMark, CLIENT_DISCONNECT, READY
  <2> QED  BY <2>1
<1>16. CASE ClientDrop(c)
  <2>1. Moves(c, "settle")
    BY <1>16 DEF ClientDrop
  <2> QED  BY <2>1
<1>17. CASE ClientSettle(c)
  <2>1. Moves(c, "ready") \/ Moves(c, "clear")
    BY <1>17 DEF ClientSettle
  <2> QED  BY <2>1
<1>18. CASE ClientReady(c)
  <2>1. Moves(c, "clear")
    BY <1>18 DEF ClientReady
  <2> QED  BY <2>1
<1>19. CASE ClientClear(c)
  <2>1. Moves(c, "done")
    BY <1>19 DEF ClientClear
  <2> QED  BY <2>1
<1>20. CASE KeysFail(c)
  <2>1. UNCHANGED <<shared, over, conn, lpc, lfd, starts, stopped>>
    BY <1>20, Zenon DEF KeysFail
  <2>2. \/ cpc[c] = "arm" /\ cpc' = [cpc EXCEPT ![c] = "wakestop"]
        \/ cpc[c] = "serve" /\ cpc' = [cpc EXCEPT ![c] = "keystop"]
    BY <1>20, Zenon DEF KeysFail
  <2>3. Moves(c, "wakestop") \/ Moves(c, "keystop")
    BY <2>1, <2>2
  <2> QED  BY <2>3
<1>21. CASE StopReturnsToClient(c)
  <2>1. UNCHANGED <<shared, over, conn, lpc, lfd, starts, stopped>>
    BY <1>21, Zenon DEF StopReturnsToClient
  <2>2. \/ cpc[c] = "wakestop" /\ cpc' = [cpc EXCEPT ![c] = "awake"]
        \/ cpc[c] = "keystop" /\ cpc' = [cpc EXCEPT ![c] = "serve"]
    BY <1>21, Zenon DEF StopReturnsToClient
  <2>3. Moves(c, "awake") \/ Moves(c, "serve")
    BY <2>1, <2>2
  <2> QED  BY <2>3
<1> QED  BY <1>1, <1>2, <1>3, <1>4, <1>5, <1>6, <1>7, <1>8, <1>9, <1>10, <1>11,
            <1>12, <1>13, <1>14, <1>15, <1>16, <1>17, <1>18, <1>19, <1>20, <1>21
         DEF Client, ClientStop

LEMMA ClientInv ==
  ASSUME IInv, FirstRun, NEW c \in Conns, Client(c) \/ ClientStop(c)
  PROVE  ServiceInv'
BY ClientMoves, Move

(* The listener: the steps from accept to the assignment of the handle are *)
(* the ones on which one client at a time depends.                         *)
LEMMA ListenerInv ==
  ASSUME IInv, FirstRun, NEW g \in Gens, Listener(g)
  PROVE  ServiceInv'
<1> USE DEF IInv, ServiceInv
<1>1. lpc[g] # "none"
  BY DEF Listener, ListenReady, ListenInit, ListenLoop, ListenAccept, ListenCheck,
     ListenSpawn, ListenAssign, ListenLeave
<1>2. /\ starts = 1 /\ UNCHANGED starts
      /\ \A h \in Gens : h # g => lpc[h] = "none" /\ lpc'[h] = "none"
  <2>1. starts = 1 /\ \A h \in Gens : h # g => lpc[h] = "none"
    BY <1>1, OneListener
  <2>2. UNCHANGED starts
    BY DEF Listener, ListenReady, ListenInit, ListenLoop, ListenAccept, ListenCheck,
       ListenSpawn, ListenAssign, ListenLeave
  <2>3. \E to : lpc' = [lpc EXCEPT ![g] = to]
    BY Zenon DEF Listener, ListenReady, ListenInit, ListenLoop, ListenAccept,
       ListenCheck, ListenSpawn, ListenAssign, ListenLeave
  <2>4. \A h \in Gens : h # g => lpc'[h] = lpc[h]
    BY <2>3 DEF TypeOK
  <2> QED  BY <2>1, <2>2, <2>4
<1>3. /\ lpc \in [Gens -> LPoints] /\ cpc \in [Conns -> CPoints]
      /\ lfd \in [Gens -> Socks] /\ conn \in [Conns -> {"new", "open", "closed"}]
  BY DEF TypeOK
<1> USE <1>2, <1>3
<1>4. CASE ListenReady(g)
  <2>1. \A c \in Conns : cpc[c] = "none"
    BY <1>4 DEF ListenReady, Early
  <2>2. clientSock = NoConn
    BY <2>1 DEF Sock, Held, TypeOK
  <2>3. UNCHANGED <<cpc, clientSock, conn, lfd>> /\ lpc'[g] \in {"init", "loop"}
    BY <1>4 DEF ListenReady
  <2> QED  BY <2>1, <2>2, <2>3 DEF Early, One, Flag, Spawning, Fresh, Temp, Sock,
              NotReady, Settled, Live, Held, Gone, Busied, Before
<1>5. CASE ListenInit(g)
  <2>1. \A c \in Conns : cpc[c] = "none"
    BY <1>5 DEF ListenInit, Early
  <2>2. clientSock = NoConn
    BY <2>1 DEF Sock, Held, TypeOK
  <2>3. UNCHANGED <<cpc, clientSock, conn, lfd>> /\ lpc'[g] \in {"init", "loop"}
    BY <1>5 DEF ListenInit
  <2> QED  BY <2>1, <2>2, <2>3 DEF Early, One, Flag, Spawning, Fresh, Temp, Sock,
              NotReady, Settled, Live, Held, Gone, Busied, Before
<1>6. CASE ListenLoop(g)
  BY <1>6 DEF ListenLoop, Early, One, Flag, Spawning, Fresh, Temp, Sock, NotReady,
     Settled, Live
<1>7. CASE ListenAccept(g)
  <2>1. Early' /\ One' /\ Flag' /\ Spawning' /\ Temp' /\ Sock' /\ NotReady'
    BY <1>7 DEF ListenAccept, Early, One, Flag, Spawning, Temp, Sock, NotReady, Live
  <2>2. Fresh'
    BY <1>7 DEF ListenAccept, Fresh
  <2>3. Settled'
    BY <1>7 DEF ListenAccept, Settled, Fresh, Held, Gone
  <2> QED  BY <2>1, <2>2, <2>3
<1>8. CASE ListenCheck(g)
  <2>1. lpc'[g] = "spawn" => lfd[g] \in Conns /\ clientTempSock' = lfd[g] /\ ~hclient
    BY <1>8 DEF ListenCheck, Busy
  <2>2. lpc[g] = "got" /\ lpc'[g] \in {"leave", "loop", "spawn"}
    BY <1>8 DEF ListenCheck
  <2>3. lpc'[g] = "spawn" => \A c \in Conns : ~Live(c)
    BY <2>1, <2>2 DEF Flag
  <2>4. clientTempSock' = clientTempSock \/ lpc'[g] = "spawn"
    BY <1>8 DEF ListenCheck
  <2>5. UNCHANGED <<mState, clientSock, hclient, cpc, lfd, over>>
    BY <1>8 DEF ListenCheck
  <2>6. Mono
    BY <1>8 DEF ListenCheck, Mono
  <2>7. Early' /\ One' /\ Flag' /\ Spawning'
    BY <2>1, <2>2, <2>3, <2>5 DEF Early, One, Flag, Spawning, Live
  <2>8. Temp' /\ Sock' /\ NotReady'
    BY <2>3, <2>4, <2>5 DEF Temp, Sock, NotReady, Live, Before
  <2>9. Fresh'
    BY <2>2, <2>5, <2>6 DEF Fresh, Mono
  <2>10. Settled'
    BY <2>5, <2>6 DEF Settled, Mono
  <2> QED  BY <2>7, <2>8, <2>9, <2>10
<1>9. CASE ListenSpawn(g)
  <2> DEFINE d == lfd[g]
  <2>1. d \in Conns /\ clientTempSock = d /\ \A c \in Conns : ~Live(c)
    BY <1>9 DEF ListenSpawn, Spawning
  <2>2. cpc'[d] = "setup" /\ \A c \in Conns : c # d => cpc'[c] = cpc[c]
    BY <1>9, <2>1 DEF ListenSpawn
  <2>3. lpc'[g] = "assign"
    BY <1>9 DEF ListenSpawn
  <2>4. UNCHANGED <<mState, clientSock, clientTempSock, over, conn, lfd>>
    BY <1>9 DEF ListenSpawn
  <2>5. conn[d] # "new" /\ lpc[g] = "spawn"
    BY <1>9, <2>1, ConnsAssumption DEF ListenSpawn, Fresh
  <2>6. Early' /\ One' /\ Flag' /\ Spawning'
    BY <2>1, <2>2, <2>3 DEF Early, One, Flag, Spawning, Live
  <2>7. Temp' /\ Sock' /\ NotReady'
    BY <2>1, <2>2, <2>4 DEF Temp, Sock, NotReady, Live, Before, Held, Busied, TypeOK
  <2>8. Fresh'
    BY <2>2, <2>3, <2>4, <2>5 DEF Fresh
  <2>9. Settled'
    BY <2>2, <2>4 DEF Settled, Held, Gone
  <2> QED  BY <2>6, <2>7, <2>8, <2>9
<1>10. CASE ListenAssign(g)
  BY <1>10 DEF ListenAssign, Early, One, Flag, Spawning, Fresh, Temp, Sock, NotReady,
     Settled, Live
<1>11. CASE ListenLeave(g)
  BY <1>11 DEF ListenLeave, Early, One, Flag, Spawning, Fresh, Temp, Sock, NotReady,
     Settled, Live, ERR_START_SERVICE, READY
<1> QED  BY <1>4, <1>5, <1>6, <1>7, <1>8, <1>9, <1>10, <1>11 DEF Listener

LEMMA TimerKeeps ==
  ASSUME IInv, Timer
  PROVE  Keeps /\ Stopping' /\ TimerQuiet'
<1> USE DEF IInv, Keeps, Stopping, TimerQuiet, TypeOK
<1>1. CASE TimerTick
  BY <1>1 DEF TimerTick, Mono
<1>2. CASE TimerWindow
  BY <1>2 DEF TimerWindow, WindowOver, Mono
<1>3. CASE TimerExpire
  BY <1>3 DEF TimerExpire, Mono, CLIENT_TIMEOUT, READY
<1>4. CASE TimerExpireClose
  BY <1>4 DEF TimerExpireClose, Mono
<1>5. CASE TimerExpireForget
  BY <1>5 DEF TimerExpireForget, Mono
<1>6. CASE TimerLook
  BY <1>6 DEF TimerLook, Mono
<1>7. CASE ReInit
  BY <1>7 DEF ReInit, Mono, AFTER_CLIENT_REINIT, READY
<1>8. CASE ReInitEnd
  BY <1>8 DEF ReInitEnd, Mono
<1> QED  BY <1>1, <1>2, <1>3, <1>4, <1>5, <1>6, <1>7, <1>8 DEF Timer

(* Every step of a start but the creation of the listener.                 *)
LEMMA StartKeeps ==
  ASSUME IInv, NEW a \in Actors, Start(a), ~StartListener(a)
  PROVE  Keeps /\ Stopping' /\ TimerQuiet'
<1> USE DEF IInv, Keeps, Stopping, TimerQuiet, TypeOK
<1>1. CASE StartService(a)
  BY <1>1 DEF StartService, Mono, START_SERVICE, READY
<1>2. CASE StartPhase1(a)
  BY <1>2 DEF StartPhase1, Mono, START_PHASE1, READY
<1>3. CASE StartFails(a)
  <2>1. mState' = ERR_DEVNOTFOUND \/ mState' = mState
    BY <1>3, Zenon DEF StartFails
  <2>2. UNCHANGED <<lpc, lfd, cpc, clientSock, clientTempSock, hclient, conn, over,
                    now, starts, stopped>>
    BY <1>3, Zenon DEF StartFails
  <2>3. pc' = [pc EXCEPT ![a] = "stop"]
    BY <1>3, Zenon DEF StartFails
  <2>4. Keeps
    BY <2>1, <2>2, SMT DEF Mono, ERR_DEVNOTFOUND, READY
  <2>5. Stopping' /\ TimerQuiet'
    BY <2>2, <2>3, SMT
  <2> QED  BY <2>4, <2>5
<1>4. CASE StartWaitDevice(a)
  BY <1>4 DEF StartWaitDevice, Mono
<1>5. CASE StartPhase2(a)
  BY <1>5 DEF StartPhase2, Mono, START_PHASE2, READY
<1>6. CASE StartPhase3(a)
  BY <1>6 DEF StartPhase3, Mono, START_PHASE3, READY
<1> QED  BY <1>1, <1>2, <1>3, <1>4, <1>5, <1>6 DEF Start

LEMMA StopKeeps ==
  ASSUME IInv, NEW a \in Actors, Stop(a)
  PROVE  Keeps /\ Stopping' /\ TimerQuiet'
<1> USE DEF IInv, Keeps, Stopping, TimerQuiet, TypeOK
<1>1. CASE StopCheck(a)
  BY <1>1 DEF StopCheck, Mono
<1>2. CASE StopPhase1(a)
  BY <1>2 DEF StopPhase1, Mono, STOP_PHASE1, READY
<1>3. CASE StopClient(a)
  BY <1>3 DEF StopClient, Mono
<1>4. CASE StopForget(a)
  BY <1>4 DEF StopForget, Mono
<1>5. CASE StopListen(a)
  BY <1>5 DEF StopListen, Mono
<1>6. CASE StopPhase2(a)
  BY <1>6 DEF StopPhase2, Mono, STOP_PHASE2, READY
<1>7. CASE StopDone(a)
  BY <1>7 DEF StopDone, Mono, STOP_DONE, READY
<1>8. CASE StopReturnsToButton(a)
  BY <1>8 DEF StopReturnsToButton, Mono, STOP_DONE, READY
<1>9. CASE StopReturnsToStart(a)
  BY <1>9 DEF StopReturnsToStart, Mono, ERR_START_SERVICE, READY
<1> QED  BY <1>1, <1>2, <1>3, <1>4, <1>5, <1>6, <1>7, <1>8, <1>9 DEF Stop

LEMMA OtherKeeps ==
  ASSUME IInv,
         \/ StopReturnsToReInit \/ StopReturnsToScreen \/ Dialog \/ DeviceLost
         \/ \E c \in Conns : Expire(c)
         \/ UNCHANGED vars
  PROVE  Keeps /\ Stopping' /\ TimerQuiet'
<1> USE DEF IInv, Keeps, Stopping, TimerQuiet, TypeOK
<1>1. CASE StopReturnsToReInit
  BY <1>1 DEF StopReturnsToReInit, Mono
<1>2. CASE StopReturnsToScreen
  BY <1>2 DEF StopReturnsToScreen, Mono, ERR_START_SERVICE, READY
<1>3. CASE StartButton
  BY <1>3 DEF StartButton, Mono
<1>4. CASE StartButtonNoDevice
  <2>1. mState' = ERR_DEVNOTFOUND /\ UNCHANGED pc
    BY <1>4, Zenon DEF StartButtonNoDevice
  <2>2. UNCHANGED <<lpc, lfd, cpc, clientSock, clientTempSock, hclient, conn, over,
                    now, starts, stopped>>
    BY <1>4, Zenon DEF StartButtonNoDevice
  <2> QED  BY <2>1, <2>2, SMT DEF Mono, ERR_DEVNOTFOUND, READY
<1>5. CASE StopButton
  <2>1. pc' = [pc EXCEPT !["ui"] = "stop"] /\ UNCHANGED mState
    BY <1>5, Zenon DEF StopButton
  <2>2. UNCHANGED <<lpc, lfd, cpc, clientSock, clientTempSock, hclient, conn, over,
                    now, starts, stopped>>
    BY <1>5, Zenon DEF StopButton
  <2> QED  BY <2>1, <2>2, SMT DEF Mono
<1>6. CASE StopClick
  <2>1. pc' = [pc EXCEPT !["click"] = "stop"] /\ UNCHANGED mState
    BY <1>6, Zenon DEF StopClick
  <2>2. UNCHANGED <<lpc, lfd, cpc, clientSock, clientTempSock, hclient, conn, over,
                    now, starts, stopped>>
    BY <1>6, Zenon DEF StopClick
  <2> QED  BY <2>1, <2>2, SMT DEF Mono
<1>7. CASE DeviceLost
  <2>1. mState' = ERR_START_SERVICE \/ mState' = mState
    BY <1>7, Zenon DEF DeviceLost
  <2>2. UNCHANGED <<lpc, lfd, cpc, clientSock, clientTempSock, hclient, conn, over,
                    now, starts, stopped>>
    BY <1>7, Zenon DEF DeviceLost
  <2>3. UNCHANGED pc \/ pc' = [pc EXCEPT !["fbc"] = "stop"]
    BY <1>7, Zenon DEF DeviceLost
  <2> QED  BY <2>1, <2>2, <2>3, SMT DEF Mono, ERR_START_SERVICE, READY
<1>8. CASE \E c \in Conns : Expire(c)
  BY <1>8 DEF Expire, Mono
<1>9. CASE UNCHANGED vars
  BY <1>9 DEF Mono
<1> QED  BY <1>1, <1>2, <1>3, <1>4, <1>5, <1>6, <1>7, <1>8, <1>9 DEF Dialog

(* The first run begins when the listener thread is created: no client     *)
(* thread can exist by then.                                               *)
LEMMA StartListenerInv ==
  ASSUME IInv, NEW a \in Actors, StartListener(a)
  PROVE  Started' /\ Stopping' /\ TimerQuiet' /\ (FirstRun' => ServiceInv')
<1> USE DEF IInv
<1>1. /\ starts \in Nat /\ starts' = starts + 1 /\ starts + 1 \in Gens
      /\ lpc \in [Gens -> LPoints] /\ lpc' = [lpc EXCEPT ![starts + 1] = "ready"]
  BY DEF StartListener, TypeOK
<1>2. UNCHANGED <<mState, clientSock, clientTempSock, hclient, conn, over, now, lfd,
                  cpc, stopped>>
  BY Zenon DEF StartListener
<1>3. pc' = [pc EXCEPT ![a] = "reinitend"] \/ pc' = [pc EXCEPT ![a] = "idle"]
  BY Zenon DEF StartListener
<1>4. Started'
  BY <1>1, SMT DEF Started
<1>5. Stopping' /\ TimerQuiet'
  BY <1>2, <1>3, SMT DEF Stopping, TimerQuiet, TypeOK
<1>6. ASSUME FirstRun'
      PROVE  ServiceInv'
  <2>1. starts = 0 /\ FirstRun
    BY <1>1, <1>2, <1>6, SMT DEF FirstRun
  <2>2. /\ \A c \in Conns : cpc[c] = "none"
        /\ \A g \in Gens : lpc[g] = "none"
    BY <2>1, SMT DEF ServiceInv, Early, Started
  <2>3. \A g \in Gens : lpc'[g] \in {"ready", "none"}
    BY <1>1, <2>2, SMT
  <2>4. clientSock = NoConn
    BY <2>1, <2>2, SMT DEF ServiceInv, Sock, Held, TypeOK
  <2>5. Early' /\ One' /\ Flag' /\ Spawning' /\ Fresh'
    BY <1>2, <2>2, <2>3, SMT DEF Early, One, Flag, Spawning, Fresh, Live
  <2>6. Temp' /\ Sock' /\ NotReady' /\ Settled'
    BY <1>2, <2>2, <2>4, SMT DEF Temp, Sock, NotReady, Settled, Before, Busied, Held,
       Gone
  <2> QED  BY <2>5, <2>6 DEF ServiceInv
<1> QED  BY <1>4, <1>5, <1>6

(* Steps of the listener and client threads leave the stop, the timer and  *)
(* the number of listener threads alone.                                   *)
LEMMA SessionQuiet ==
  ASSUME IInv, \/ \E g \in Gens : Listener(g)
               \/ \E c \in Conns : Client(c)
               \/ \E c \in Conns : ClientStop(c)
  PROVE  Started' /\ Stopping' /\ TimerQuiet' /\ (FirstRun' => FirstRun)
<1>0. UNCHANGED pc \/ \E to \in {"stop", "idle"} : pc' = [pc EXCEPT !["cli"] = to]
  BY Zenon DEF ClientStop, KeysFail, StopReturnsToClient,
     Listener, ListenReady, ListenInit, ListenLoop, ListenAccept,
     ListenCheck, ListenSpawn, ListenAssign, ListenLeave, Client, ClientSetup,
     ClientIncoming, ClientNegotiate, ClientGreet, ClientValidate, ClientRefuse,
     ClientAdopt, ClientConnect, ClientArm, ClientArmTime, ClientServe,
     ClientUserClose, ClientExit, ClientMark, ClientDrop, ClientSettle, ClientReady,
     ClientClear
<1>1. UNCHANGED <<stopped, starts, over, now>>
  BY Zenon DEF ClientStop, KeysFail, StopReturnsToClient,
     Listener, ListenReady, ListenInit, ListenLoop, ListenAccept,
     ListenCheck, ListenSpawn, ListenAssign, ListenLeave, Client, ClientSetup,
     ClientIncoming, ClientNegotiate, ClientGreet, ClientValidate, ClientRefuse,
     ClientAdopt, ClientConnect, ClientArm, ClientArmTime, ClientServe,
     ClientUserClose, ClientExit, ClientMark, ClientDrop, ClientSettle, ClientReady,
     ClientClear
<1>2. \/ UNCHANGED lpc
      \/ \E g \in Gens : lpc[g] # "none" /\ \E to : lpc' = [lpc EXCEPT ![g] = to]
  <2>1. CASE \E c \in Conns : Client(c) \/ ClientStop(c)
    BY <2>1, Zenon DEF ClientStop, KeysFail, StopReturnsToClient, Client, ClientSetup,
     ClientIncoming, ClientNegotiate, ClientGreet, ClientValidate, ClientRefuse,
     ClientAdopt, ClientConnect, ClientArm, ClientArmTime, ClientServe,
     ClientUserClose, ClientExit, ClientMark, ClientDrop, ClientSettle, ClientReady,
     ClientClear
  <2>2. ASSUME NEW g \in Gens, Listener(g)
        PROVE  lpc[g] # "none" /\ \E to : lpc' = [lpc EXCEPT ![g] = to]
    <3>1. lpc[g] # "none"
      BY <2>2, Zenon DEF Listener, ListenReady, ListenInit, ListenLoop, ListenAccept,
         ListenCheck, ListenSpawn, ListenAssign, ListenLeave
    <3>2. \E to : lpc' = [lpc EXCEPT ![g] = to]
      BY <2>2, Zenon DEF Listener, ListenReady, ListenInit, ListenLoop, ListenAccept,
         ListenCheck, ListenSpawn, ListenAssign, ListenLeave
    <3> QED  BY <3>1, <3>2
  <2> QED  BY <2>1, <2>2
<1>3. Started'
  <2>1. ASSUME NEW g \in Gens, g > starts
        PROVE  lpc'[g] = "none"
    <3>1. lpc[g] = "none"
      BY <2>1 DEF IInv, Started
    <3> QED  BY <1>2, <3>1 DEF IInv, TypeOK
  <2> QED  BY <1>1, <2>1 DEF Started
<1>4. Stopping' /\ TimerQuiet'
  BY <1>0, <1>1 DEF IInv, TypeOK, Stopping, TimerQuiet
<1> QED  BY <1>1, <1>3, <1>4 DEF FirstRun

LEMMA InvInit == Init => IInv
<1> SUFFICES ASSUME Init
             PROVE  IInv
  OBVIOUS
<1>1. TypeOK
  BY TypeInit
<1>2. Started /\ Stopping /\ TimerQuiet
  BY DEF Init, Started, Stopping, TimerQuiet
<1>3. ServiceInv
  BY DEF Init, ServiceInv, Early, One, Flag, Spawning, Fresh, Temp, Sock, NotReady,
     Settled, Live, Before, Held, Gone, Busied
<1> QED  BY <1>1, <1>2, <1>3 DEF IInv

LEMMA KeepsInv ==
  ASSUME IInv, Keeps, Stopping', TimerQuiet', TypeOK'
  PROVE  IInv'
<1>1. Started'
  BY DEF IInv, Started, Keeps
<1>2. FirstRun' => ServiceInv'
  BY Frame
<1> QED  BY <1>1, <1>2 DEF IInv

(* Every step is one of the listener or of a client thread, creates a      *)
(* listener thread, or keeps the threads of the session where they are.    *)
LEMMA StepKinds ==
  ASSUME IInv, [Next]_vars
  PROVE  \/ Keeps /\ Stopping' /\ TimerQuiet'
         \/ \E a \in Actors : StartListener(a)
         \/ \E g \in Gens : Listener(g)
         \/ \E c \in Conns : Client(c) \/ ClientStop(c)
<1>1. CASE Timer
  BY <1>1, TimerKeeps
<1>2. CASE \E a \in {"ui", "timer"} : Start(a)
  BY <1>2, StartKeeps
<1>3. CASE \E a \in Actors : Stop(a)
  BY <1>3, StopKeeps
<1>4. CASE \/ StopReturnsToReInit \/ StopReturnsToScreen \/ Dialog \/ DeviceLost
           \/ \E c \in Conns : Expire(c)
           \/ UNCHANGED vars
  BY ONLY IInv, <1>4, OtherKeeps
<1>5. \/ \E g \in Gens : Listener(g)
      \/ \E c \in Conns : Client(c) \/ ClientStop(c)
      \/ Timer
      \/ \E a \in {"ui", "timer"} : Start(a)
      \/ \E a \in Actors : Stop(a)
      \/ StopReturnsToReInit \/ StopReturnsToScreen \/ Dialog \/ DeviceLost
      \/ \E c \in Conns : Expire(c)
      \/ UNCHANGED vars
  BY ONLY [Next]_vars, Zenon DEF Next, Service, ClientStop
<1> QED  BY <1>1, <1>2, <1>3, <1>4, <1>5

LEMMA InvStep == IInv /\ [Next]_vars => IInv'
<1> SUFFICES ASSUME IInv, [Next]_vars
             PROVE  IInv'
  OBVIOUS
<1>1. TypeOK'
  BY TypeStep DEF IInv
<1>2. CASE Keeps /\ Stopping' /\ TimerQuiet'
  BY <1>1, <1>2, KeepsInv
<1>3. CASE \E a \in Actors : StartListener(a)
  BY <1>1, <1>3, StartListenerInv DEF IInv
<1>4. CASE \E g \in Gens : Listener(g)
  BY <1>1, <1>4, SessionQuiet, ListenerInv DEF IInv
<1>5. CASE \E c \in Conns : Client(c) \/ ClientStop(c)
  BY <1>1, <1>5, SessionQuiet, ClientInv DEF IInv
<1> QED  BY <1>2, <1>3, <1>4, <1>5, StepKinds

(* The invariant holds in every reachable state of every instance.         *)
THEOREM Invariance == Spec => []IInv
BY InvInit, InvStep, PTL DEF Spec

(* While the service runs for the first time no two client threads exist:  *)
(* the handle that the listener tests after accept is set too late for     *)
(* some threads, never for one that another accept could meet.             *)
THEOREM ServesOneClient == Spec => []OneClient
<1>1. IInv => OneClient
  BY DEF IInv, ServiceInv, One, OneClient, LiveConns
<1> QED  BY <1>1, Invariance, PTL

(* A negotiating thread finds its own connection in m_clientTempSock.      *)
THEOREM TempSockIsOwned == Spec => []TempSockOwned
<1>1. IInv => TempSockOwned
  BY DEF IInv, ServiceInv, Temp, TempSockOwned
<1> QED  BY <1>1, Invariance, PTL

(* m_clientSock is the socket of a client thread that still runs.          *)
THEOREM ClientSockIsOwned == Spec => []ClientSockOwned
<1>1. IInv => ClientSockOwned
  BY DEF IInv, ServiceInv, Sock, ClientSockOwned, Live, Held
<1> QED  BY <1>1, Invariance, PTL

(* READY is announced only when no client socket is open.                  *)
THEOREM ReadyIsFree == Spec => []ReadyMeansFree
<1>1. IInv => ReadyMeansFree
  BY DEF IInv, ServiceInv, Sock, NotReady, ReadyMeansFree, Busied, TypeOK, Socks
<1> QED  BY <1>1, Invariance, PTL

(* A finished client thread has closed its connection, unless the timer    *)
(* had a session to end.                                                   *)
THEOREM NothingOrphaned == Spec => []NoOrphan
<1>1. IInv => NoOrphan
  BY DEF IInv, ServiceInv, Settled, NoOrphan, Gone
<1> QED  BY <1>1, Invariance, PTL

-----------------------------------------------------------------------------
(* The refinement.                                                         *)

LEMMA TheOne ==
  ASSUME NEW c
  PROVE  (CHOOSE d \in {c} : TRUE) = c
OBVIOUS

(* The served client is the one whose thread lives, before and after a     *)
(* step.                                                                   *)
LEMMA WhomIs ==
  ASSUME IInv, FirstRun, NEW c \in Conns, Live(c)
  PROVE  Whom = c
<1>1. LiveConns = {c}
  BY DEF IInv, ServiceInv, One, LiveConns
<1> QED  BY <1>1, TheOne DEF Whom

LEMMA WhomIsNext ==
  ASSUME IInv', FirstRun', NEW c \in Conns, Live(c)'
  PROVE  Whom' = c
<1>1. LiveConns' = {c}
  BY DEF IInv, ServiceInv, One, LiveConns
<1> QED  BY <1>1, TheOne DEF Whom

LEMMA NobodyServed ==
  /\ ~FirstRun \/ (\A c \in Conns : ~Live(c)) => Whom = NoConn
  /\ ~FirstRun' \/ (\A c \in Conns : ~Live(c)') => Whom' = NoConn
BY DEF Whom, LiveConns

(* Once over, the first run does not come back.                            *)
LEMMA FirstRunEnds ==
  ASSUME IInv, [Next]_vars, FirstRun'
  PROVE  FirstRun
<1>1. CASE \/ \E g \in Gens : Listener(g)
           \/ \E c \in Conns : Client(c) \/ ClientStop(c)
  BY <1>1, SessionQuiet
<1>2. CASE Keeps
  BY <1>2 DEF Keeps, FirstRun
<1>3. CASE \E a \in Actors : StartListener(a)
  BY <1>3 DEF StartListener, FirstRun, IInv, TypeOK
<1> QED  BY <1>1, <1>2, <1>3, StepKinds

(* A step in which the same threads live and no thread appears.            *)
LEMMA SameThreads ==
  ASSUME IInv, IInv', FirstRun, FirstRun', UNCHANGED cpc
  PROVE  Whom' = Whom /\ Taken' = Taken
<1>1. CASE \A c \in Conns : ~Live(c)
  BY <1>1, NobodyServed DEF Live, Taken
<1>2. ASSUME NEW c \in Conns, Live(c)
      PROVE  Whom = c /\ Whom' = c /\ Taken' = Taken
  BY <1>2, WhomIs, WhomIsNext DEF Live, Taken
<1> QED  BY <1>1, <1>2

LEMMA RefineListener ==
  ASSUME IInv, IInv', FirstRun, FirstRun', NEW g \in Gens, Listener(g)
  PROVE  [Serve!Next]_Serve!vars
<1>1. CASE ListenSpawn(g)
  <2>0. \E d \in Conns : d = lfd[g]
    BY <1>1 DEF ListenSpawn, IInv, ServiceInv, Spawning
  <2> PICK d \in Conns : d = lfd[g]
    BY <2>0
  <2>1. \A c \in Conns : ~Live(c)
    BY <1>1 DEF ListenSpawn, IInv, ServiceInv, Spawning
  <2>2. cpc[d] = "none"
    <3>1. lpc[g] = "spawn" /\ d # NoConn
      BY <1>1, <2>1, ConnsAssumption DEF ListenSpawn
    <3> QED  BY <3>1 DEF IInv, ServiceInv, Fresh
  <2>3. cpc' = [cpc EXCEPT ![d] = "setup"] /\ cpc \in [Conns -> CPoints]
    BY <1>1 DEF ListenSpawn, IInv, TypeOK
  <2>4. Live(d)'
    <3>1. cpc'[d] = "setup"
      BY <2>1, <2>3
    <3> QED  BY <3>1, Zenon DEF Live
  <2>5. Whom = NoConn /\ Whom' = d
    BY <2>1, <2>4, NobodyServed, WhomIsNext
  <2>6. Taken' = Taken \cup {d} /\ d \notin Taken
    BY <2>1, <2>2, <2>3 DEF Taken
  <2>7. Line' = Line
    BY <1>1 DEF ListenSpawn, Line
  <2>8. Serve!Take(d)
    BY <2>5, <2>6, <2>7 DEF Serve!Take
  <2> QED  BY <2>1, <2>8 DEF Serve!Next
<1>2. CASE ~ListenSpawn(g)
  <2>1. UNCHANGED <<cpc, clientSock>>
    BY <1>2, Zenon DEF Listener, ListenReady, ListenInit, ListenLoop, ListenAccept,
       ListenCheck, ListenAssign, ListenLeave
  <2>2. Line' = Line
    BY <2>1 DEF Line
  <2> QED  BY <2>1, <2>2, SameThreads DEF Serve!vars
<1> QED  BY <1>1, <1>2

LEMMA RefineClient ==
  ASSUME IInv, IInv', FirstRun, FirstRun', NEW c \in Conns,
         Client(c) \/ ClientStop(c)
  PROVE  [Serve!Next]_Serve!vars
<1>1. PICK to : Moves(c, to)
  BY ClientMoves
<1>2. Live(c) /\ cpc[c] # "none"
  BY ClientMoves DEF Live
<1>3. /\ Whom = c /\ clientSock \in {c, NoConn}
      /\ cpc[c] \notin Held => clientSock = NoConn
  BY <1>2, WhomIs, Alone
<1>4. cpc'[c] = to /\ \A d \in Conns : d # c => cpc'[d] = cpc[d]
  BY <1>1 DEF Moves, IInv, TypeOK
<1>5. to # "none" /\ Taken' = Taken
  BY <1>1, <1>2, <1>4 DEF Moves, Taken
<1>6. Line = clientSock /\ Line' = clientSock'
  BY DEF Line
<1>7. CASE to = "done"
  <2>1. \A d \in Conns : ~Live(d)'
    BY <1>2, <1>4, <1>7 DEF IInv, ServiceInv, One, Live
  <2>2. Whom' = NoConn
    BY <2>1, NobodyServed
  <2>3. clientSock = NoConn /\ clientSock' = NoConn
    BY <1>1, <1>3, <1>7 DEF Moves, Held
  <2>4. Serve!Release
    BY <1>3, <1>5, <1>6, <2>2, <2>3, ConnsAssumption DEF Serve!Release
  <2> QED  BY <2>4 DEF Serve!Next
<1>8. CASE to # "done"
  <2>1. Whom' = c
    BY <1>4, <1>5, <1>8, WhomIsNext DEF Live
  <2>2. Line' = Line \/ (Line = NoConn /\ Line' = c) \/ (Line = c /\ Line' = NoConn)
    BY <1>1, <1>3, <1>6 DEF Moves
  <2>3. CASE Line' = Line
    BY <1>3, <1>5, <2>1, <2>3 DEF Serve!vars
  <2>4. CASE Line = NoConn /\ Line' = c
    <3>1. Serve!Publish
      BY <1>3, <1>5, <2>1, <2>4, ConnsAssumption DEF Serve!Publish
    <3> QED  BY <3>1 DEF Serve!Next
  <2>5. CASE Line = c /\ Line' = NoConn
    <3>1. Serve!Withdraw
      BY <1>3, <1>5, <2>1, <2>5, ConnsAssumption DEF Serve!Withdraw
    <3> QED  BY <3>1 DEF Serve!Next
  <2> QED  BY <2>2, <2>3, <2>4, <2>5
<1> QED  BY <1>7, <1>8

LEMMA RefineOther ==
  ASSUME IInv, IInv', FirstRun, FirstRun',
         Keeps \/ \E a \in Actors : StartListener(a)
  PROVE  [Serve!Next]_Serve!vars
<1>1. UNCHANGED cpc /\ clientSock' \in {clientSock, NoConn}
  <2>1. CASE Keeps
    BY <2>1 DEF Keeps
  <2>2. CASE \E a \in Actors : StartListener(a)
    BY <2>2, Zenon DEF StartListener
  <2> QED  BY <2>1, <2>2
<1>2. Whom' = Whom /\ Taken' = Taken
  BY <1>1, SameThreads
<1>3. Line = clientSock /\ Line' = clientSock'
  BY DEF Line
<1>4. CASE Line' = Line
  BY <1>2, <1>4 DEF Serve!vars
<1>5. CASE Line # NoConn /\ Line' = NoConn
  <2>1. Serve!Withdraw
    BY <1>2, <1>5 DEF Serve!Withdraw
  <2> QED  BY <2>1 DEF Serve!Next
<1> QED  BY <1>1, <1>3, <1>4, <1>5

LEMMA RefineStep ==
  ASSUME IInv, IInv', [Next]_vars
  PROVE  [Serve!Next]_Serve!vars
<1>1. CASE FirstRun /\ FirstRun'
  BY <1>1, StepKinds, RefineListener, RefineClient, RefineOther
<1>2. CASE FirstRun /\ ~FirstRun'
  <2>1. Serve!End
    BY <1>2, NobodyServed DEF Serve!End, Line, Taken
  <2> QED  BY <2>1 DEF Serve!Next
<1>3. CASE ~FirstRun
  <2>1. ~FirstRun'
    BY <1>3, FirstRunEnds
  <2>2. Whom = NoConn /\ Whom' = NoConn
    BY <1>3, <2>1, NobodyServed
  <2> QED  BY <1>3, <2>1, <2>2 DEF Serve!vars, Line, Taken
<1> QED  BY <1>1, <1>2, <1>3

LEMMA RefineInit == Init => Serve!Init
<1> SUFFICES ASSUME Init
             PROVE  Serve!Init
  OBVIOUS
<1>1. FirstRun /\ \A c \in Conns : ~Live(c)
  BY DEF Init, FirstRun, Live
<1> QED  BY <1>1, NobodyServed DEF Serve!Init, Line, Taken, Init

(* The threads implement ServeOne: a client is taken, its socket published *)
(* and withdrawn, and the client released, in this order and one client at *)
(* a time, until the service is stopped or started again.                  *)
THEOREM ServesInTurn == Spec => ServesOne
<1>1. IInv /\ IInv' /\ [Next]_vars => [Serve!Next]_Serve!vars
  BY RefineStep
<1> QED  BY <1>1, RefineInit, Invariance, PTL DEF Spec, ServesOne, Serve!Spec

-----------------------------------------------------------------------------
(* The first re-initialisation finds the listening socket closed, provided *)
(* that nobody but the timer stops the service and that no device is lost. *)

Undisturbed == Events \subseteq {"start fails", "bind fails"}

Watching == {"idle", "window", "expire", "expireclose", "expireforget", "look"}
Closers == {"stopclient", "stopforget", "stoplisten"}
Unbound == lpc[1] \in {"none", "ready", "init"}
Shut == listenSock = 0 /\ ~Unbound

(* Only the dialog's start and the timer move, and the dialog only before  *)
(* the first listener thread exists.                                       *)
Still ==
  /\ pc["click"] = "idle" /\ pc["fbc"] = "idle" /\ pc["cli"] = "idle"
  /\ \A a \in Actors : ret[a] # "button"
  /\ starts = 0 /\ pc["ui"] # "idle" => stopEnabled
  /\ starts = 1 => stopEnabled /\ pc["ui"] = "idle"

(* No client has asked for a re-initialisation before there is a listening *)
(* socket.                                                                 *)
Unused ==
  starts = 0 \/ (starts = 1 /\ Unbound) =>
    /\ \A c \in Conns : cpc[c] = "none"
    /\ ~initRequired
    /\ pc["timer"] \in Watching

Launching ==
  starts = 0 /\ pc["ui"] \in StartPoints \ {"start"} => mState < SERVICE_STOP

(* What makes a stop return early implies that the socket is closed: the   *)
(* listener that gives up, a stop of the timer's own that has closed it.   *)
Closing ==
  starts = 1 =>
    /\ lpc[1] \in {"leave", "done"} => listenSock = 0
    /\ mState > SERVICE_STOP /\ pc["timer"] \notin Closers => Shut
    /\ pc["timer"] \in StartPoints \cup {"stopphase2", "stopdone", "stopped"}
         => Shut
    /\ pc["timer"] \in StopPoints /\ ret["timer"] # "reboot" => Shut

RebootInv == Still /\ Unused /\ Launching /\ Closing

LEMMA Ints == TypeOK => mState \in Int /\ SERVICE_STOP \in Int
BY SMT DEF TypeOK, States, INIT_DONE, START_SERVICE, START_PHASE1, START_PHASE2,
   START_PHASE3, READY, CLIENT_INCOMING, CLIENT_NEGOTIATE, CLIENT_CONNECTED,
   CLIENT_DISCONNECT, USER_DISCONNECT, CLIENT_TIMEOUT, AFTER_CLIENT_REINIT,
   SERVICE_STOP, STOP_PHASE1, STOP_PHASE2, STOP_DONE, ERR_DEVNOTFOUND,
   ERR_START_SERVICE

LEMMA RebootListener ==
  ASSUME TypeOK, Started, RebootInv, NEW g \in Gens, Listener(g)
  PROVE  RebootInv'
<1> USE DEF RebootInv, TypeOK, StartPoints, StopPoints, Closers, Watching
<1>1. UNCHANGED <<pc, ret, stopEnabled, starts, initRequired>>
  BY Zenon DEF Listener, ListenReady, ListenInit, ListenLoop, ListenAccept,
     ListenCheck, ListenSpawn, ListenAssign, ListenLeave
<1>2. Still'
  BY <1>1 DEF Still
<1>3. CASE starts \notin {0, 1}
  BY <1>1, <1>2, <1>3 DEF Unused, Launching, Closing
<1>4. CASE starts \in {0, 1}
  <2>1. lpc[g] # "none"
    BY Zenon DEF Listener, ListenReady, ListenInit, ListenLoop, ListenAccept,
       ListenCheck, ListenSpawn, ListenAssign, ListenLeave
  <2>2. g = 1 /\ starts = 1 /\ 1 \in Gens
    BY <1>4, <2>1 DEF Started
  <2>3. Launching'
    BY <1>1, <2>2 DEF Launching
  <2> USE <2>2
  <2>4. CASE ListenReady(g)
    BY <1>1, <1>2, <2>3, <2>4, SMT DEF ListenReady, Unused, Closing, Shut, Unbound,
       READY, SERVICE_STOP
  <2>5. CASE ListenInit(g)
    <3>1. Unbound /\ lpc'[1] = "loop" /\ ~Unbound' /\ UNCHANGED mState
      BY <2>5 DEF ListenInit, Unbound
    <3>2. pc["timer"] \in Watching /\ ~(mState > SERVICE_STOP)
      BY <3>1 DEF Unused, Closing, Shut
    <3>3. Unused' /\ Closing'
      BY <1>1, <3>1, <3>2 DEF Unused, Closing
    <3> QED  BY <1>2, <2>3, <3>3
  <2>6. CASE ListenSpawn(g)
    <3>1. ~Unbound /\ ~Unbound' /\ lpc'[1] = "assign"
          /\ UNCHANGED <<mState, listenSock>>
      BY <2>6 DEF ListenSpawn, Unbound
    <3> QED  BY <1>1, <1>2, <2>3, <3>1 DEF Unused, Closing, Shut
  <2>7. CASE ListenLoop(g) \/ ListenAccept(g) \/ ListenCheck(g) \/ ListenAssign(g)
    <3>1. ~Unbound /\ ~Unbound' /\ UNCHANGED <<mState, listenSock>>
      BY <2>7 DEF ListenLoop, ListenAccept, ListenCheck, ListenAssign, Unbound
    <3>2. lpc'[1] \in {"leave", "done"} => listenSock = 0
      BY <2>7 DEF ListenLoop, ListenAccept, ListenCheck, ListenAssign
    <3> QED  BY <1>1, <1>2, <2>3, <3>1, <3>2 DEF Unused, Closing, Shut
  <2>8. CASE ListenLeave(g)
    <3>1. ~Unbound /\ ~Unbound' /\ listenSock = 0 /\ UNCHANGED listenSock
      BY <2>8 DEF ListenLeave, Unbound, Closing
    <3> QED  BY <1>1, <1>2, <2>3, <3>1 DEF Unused, Closing, Shut
  <2> QED  BY <2>4, <2>5, <2>6, <2>7, <2>8 DEF Listener
<1> QED  BY <1>3, <1>4

(* A client thread never reports a stop that is not there.                 *)
LEMMA RebootClient ==
  ASSUME TypeOK, RebootInv, NEW c \in Conns, Client(c)
  PROVE  RebootInv'
<1> USE DEF RebootInv
<1>1. UNCHANGED <<pc, ret, stopEnabled, starts, listenSock, lpc>>
  BY Zenon DEF Client, ClientSetup, ClientIncoming, ClientNegotiate, ClientGreet,
     ClientValidate, ClientRefuse, ClientAdopt, ClientConnect, ClientArm,
     ClientArmTime, ClientServe, CloseClientSock, ClientUserClose, ClientExit,
     ClientMark, ClientDrop, ClientSettle, ClientReady, ClientClear
<1>2. cpc[c] # "none"
  BY Zenon DEF Client, ClientSetup, ClientIncoming, ClientNegotiate, ClientGreet,
     ClientValidate, ClientRefuse, ClientAdopt, ClientConnect, ClientArm,
     ClientArmTime, ClientServe, ClientUserClose, ClientExit, ClientMark, ClientDrop,
     ClientSettle, ClientReady, ClientClear
<1>3. mState' > SERVICE_STOP => mState' = mState
  BY SMT DEF Client, ClientSetup, ClientIncoming, ClientNegotiate, ClientGreet,
     ClientValidate, ClientRefuse, ClientAdopt, ClientConnect, ClientArm,
     ClientArmTime, ClientServe, ClientUserClose, ClientExit, ClientMark, ClientDrop,
     ClientSettle, ClientReady, ClientClear, SERVICE_STOP, CLIENT_INCOMING,
     CLIENT_NEGOTIATE, CLIENT_CONNECTED, USER_DISCONNECT, CLIENT_DISCONNECT, READY
<1>4. starts # 0 /\ ~(starts = 1 /\ Unbound)
  BY <1>2 DEF Unused
<1> QED
  BY <1>1, <1>3, <1>4 DEF Still, Unused, Launching, Closing, Shut, Unbound

LEMMA RebootTimer ==
  ASSUME TypeOK, RebootInv, Timer
  PROVE  RebootInv'
<1> USE DEF RebootInv, TypeOK, StartPoints, StopPoints, Closers, Watching
<1>1. UNCHANGED <<starts, listenSock, lpc, stopEnabled, cpc>>
  BY Zenon DEF Timer, TimerTick, TimerWindow, TimerExpire, TimerExpireClose,
     TimerExpireForget, TimerLook, ReInit, ReInitEnd
<1>2. \E to : pc' = [pc EXCEPT !["timer"] = to]
  BY Zenon DEF Timer, TimerTick, TimerWindow, TimerExpire, TimerExpireClose,
     TimerExpireForget, TimerLook, ReInit, ReInitEnd
<1>3. ret' = ret \/ ret' = [ret EXCEPT !["timer"] = "reboot"]
  BY Zenon DEF Timer, TimerTick, TimerWindow, TimerExpire, TimerExpireClose,
     TimerExpireForget, TimerLook, ReInit, ReInitEnd
<1>4. Still'
  BY <1>1, <1>2, <1>3 DEF Still
<1>5. /\ pc'["timer"] \in Watching \cup {"reinit", "reinitend", "stop"}
      /\ pc'["timer"] = "stop" => ret'["timer"] = "reboot"
      /\ pc["timer"] \in Watching /\ ~initRequired => pc'["timer"] \in Watching
      /\ ~initRequired => ~initRequired'
      /\ pc["timer"] \notin Closers
  BY DEF Timer, TimerTick, TimerWindow, TimerExpire, TimerExpireClose,
     TimerExpireForget, TimerLook, ReInit, ReInitEnd, ReinitDue
<1>6. mState' = mState \/ (mState' < SERVICE_STOP /\ ~(mState' > SERVICE_STOP))
  BY SMT DEF Timer, TimerTick, TimerWindow, TimerExpire, TimerExpireClose,
     TimerExpireForget, TimerLook, ReInit, ReInitEnd, SERVICE_STOP, CLIENT_TIMEOUT,
     AFTER_CLIENT_REINIT
<1>7. Unused'
  BY <1>1, <1>5 DEF Unused, Unbound
<1>8. pc'["ui"] = pc["ui"]
  BY <1>2
<1>9. Launching'
  BY <1>1, <1>6, <1>8 DEF Launching
<1>10. Closing'
  BY <1>1, <1>5, <1>6 DEF Closing, Shut, Unbound
<1> QED  BY <1>4, <1>7, <1>9, <1>10

(* A start of the dialog runs while there is no listener thread, one of    *)
(* the timer after the socket has been closed.                             *)
LEMMA RebootStart ==
  ASSUME TypeOK, RebootInv, NEW a \in {"ui", "timer"}, Start(a)
  PROVE  RebootInv'
<1> USE DEF RebootInv, TypeOK, StartPoints, StopPoints, Closers, Watching
<1>1. CASE StartListener(a)
  <2>1. /\ pc[a] = "waittdc" /\ starts' = starts + 1 /\ starts + 1 \in Gens
        /\ pc' = [pc EXCEPT ![a] = IF a = "timer" THEN "reinitend" ELSE "idle"]
        /\ lpc' = [lpc EXCEPT ![starts + 1] = "ready"]
        /\ UNCHANGED <<ret, stopEnabled, mState, cpc, initRequired>>
    BY <1>1 DEF StartListener
  <2>2. CASE a = "timer"
    <3>1. starts # 0
      BY <2>1, <2>2 DEF Unused
    <3>2. starts' \notin {0, 1}
      BY <2>1, <3>1
    <3> QED  BY <2>1, <2>2, <3>2 DEF Still, Unused, Launching, Closing
  <2>3. CASE a = "ui"
    <3>1. starts # 1
      BY <2>1, <2>3 DEF Still
    <3>2. CASE starts = 0
      <4>1. stopEnabled /\ pc["timer"] \in Watching /\ mState < SERVICE_STOP
            /\ ~initRequired /\ \A c \in Conns : cpc[c] = "none"
        BY <2>1, <2>3, <3>2 DEF Still, Unused, Launching
      <4>2. pc'["ui"] = "idle" /\ pc'["timer"] = pc["timer"] /\ lpc'[1] = "ready"
            /\ pc'["click"] = pc["click"] /\ pc'["fbc"] = pc["fbc"]
            /\ pc'["cli"] = pc["cli"]
        BY <2>1, <2>3, <3>2
      <4>3. ~(mState' > SERVICE_STOP)
        BY <2>1, <4>1, Ints
      <4>4. Still' /\ Unused' /\ Launching'
        BY <2>1, <3>2, <4>1, <4>2 DEF Still, Unused, Launching
      <4>5. Closing'
        BY <2>1, <4>1, <4>2, <4>3 DEF Closing
      <4> QED  BY <4>4, <4>5
    <3>3. CASE starts # 0
      <4>1. starts' \notin {0, 1}
        BY <2>1, <3>1, <3>3
      <4> QED  BY <2>1, <2>3, <4>1 DEF Still, Unused, Launching, Closing
    <3> QED  BY <3>2, <3>3
  <2> QED  BY <2>2, <2>3
<1>2. CASE ~StartListener(a)
  <2>1. /\ pc[a] \in StartPoints
        /\ UNCHANGED <<starts, listenSock, lpc, stopEnabled, cpc, initRequired>>
    BY <1>2 DEF Start, StartService, StartPhase1, StartFails, StartWaitDevice,
       StartPhase2, StartPhase3
  <2>2. \/ /\ \E to \in StartPoints \ {"start"} : pc' = [pc EXCEPT ![a] = to]
           /\ ret' = ret
           /\ (mState' = mState /\ pc[a] # "start") \/ mState' < SERVICE_STOP
        \/ pc' = [pc EXCEPT ![a] = "stop"] /\ ret' = [ret EXCEPT ![a] = "failed"]
    <3>1. CASE StartService(a) \/ StartPhase1(a)
      BY <3>1, SMT DEF StartService, StartPhase1, START_SERVICE, START_PHASE1,
         SERVICE_STOP
    <3>2. CASE StartPhase2(a) \/ StartPhase3(a)
      BY <3>2, SMT DEF StartPhase2, StartPhase3, START_PHASE2, START_PHASE3,
         SERVICE_STOP
    <3>3. CASE StartWaitDevice(a)
      <4>1. pc' = [pc EXCEPT ![a] = "launch"] /\ pc[a] = "waitdev"
            /\ UNCHANGED <<mState, ret>>
        BY <3>3, Zenon DEF StartWaitDevice
      <4>2. "launch" \in StartPoints \ {"start"} /\ pc[a] # "start"
        BY <4>1, SMT
      <4> QED  BY <4>1, <4>2, Zenon
    <3>4. CASE StartFails(a)
      BY <3>4, Zenon DEF StartFails
    <3> QED  BY <1>2, <3>1, <3>2, <3>3, <3>4 DEF Start
  <2>3. Still'
    BY <2>1, <2>2 DEF Still
  <2>4. a = "timer" => starts # 0 /\ ~(starts = 1 /\ Unbound)
    BY <2>1 DEF Unused
  <2>5. a = "ui" => starts # 1
    BY <2>1 DEF Still
  <2>6. Unused'
    BY <2>1, <2>2, <2>4 DEF Unused, Unbound
  <2>7. Launching'
    BY <2>1, <2>2, <2>4 DEF Launching
  <2>8. Closing'
    <3>1. CASE a = "timer" /\ starts = 1
      <4>1. Shut /\ Shut'
        BY <2>1, <3>1 DEF Closing, Shut, Unbound
      <4> QED  BY <2>1, <4>1 DEF Closing, Shut
    <3>2. CASE starts # 1
      BY <2>1, <3>2 DEF Closing
    <3> QED  BY <2>5, <3>1, <3>2
  <2> QED  BY <2>3, <2>6, <2>7, <2>8
<1> QED  BY <1>1, <1>2

(* Everything that a stop does.                                            *)
LEMMA RebootStop ==
  ASSUME TypeOK, RebootInv, NEW a \in Actors, Stop(a)
  PROVE  RebootInv'
<1> USE DEF RebootInv, TypeOK, StartPoints, StopPoints, Closers, Watching
<1>1. pc[a] \in StopPoints
  BY DEF Stop, StopCheck, StopPhase1, StopClient, StopForget, StopListen,
     StopPhase2, StopDone, StopReturnsToButton, StopReturnsToStart
<1>2. a \in {"ui", "timer"} /\ (a = "timer" => starts # 0 /\ ~(starts = 1 /\ Unbound))
      /\ (a = "ui" => starts # 1) /\ ret[a] # "button"
  BY <1>1 DEF Still, Unused
<1>3. UNCHANGED <<starts, lpc, cpc, initRequired>>
  BY Zenon DEF Stop, StopCheck, StopPhase1, StopClient, StopForget, StopListen,
     StopPhase2, StopDone, StopReturnsToButton, StopReturnsToStart
<1>4. CASE a = "ui"
  <2>1. /\ pc'["click"] = pc["click"] /\ pc'["fbc"] = pc["fbc"]
        /\ pc'["cli"] = pc["cli"]
        /\ pc'["timer"] = pc["timer"] /\ pc'["ui"] \in StopPoints \cup {"idle"}
        /\ ret' = ret \/ ret' = [ret EXCEPT !["ui"] = "none"]
        /\ pc'["ui"] = "idle" \/ stopEnabled' = stopEnabled
    BY <1>4 DEF Stop, StopCheck, StopPhase1, StopClient, StopForget, StopListen,
       StopPhase2, StopDone, StopReturnsToButton, StopReturnsToStart
  <2>2. Still'
    BY <1>1, <1>2, <1>3, <1>4, <2>1 DEF Still
  <2> QED  BY <1>2, <1>3, <1>4, <2>1, <2>2 DEF Unused, Unbound, Launching, Closing
<1>5. CASE a = "timer"
  <2>1. /\ pc'["click"] = pc["click"] /\ pc'["fbc"] = pc["fbc"]
        /\ pc'["cli"] = pc["cli"]
        /\ pc'["ui"] = pc["ui"] /\ UNCHANGED <<ret, stopEnabled>>
    BY <1>2, <1>5 DEF Stop, StopCheck, StopPhase1, StopClient, StopForget,
       StopListen, StopPhase2, StopDone, StopReturnsToButton, StopReturnsToStart
  <2>2. Still' /\ Unused' /\ Launching'
    BY <1>2, <1>3, <1>5, <2>1 DEF Still, Unused, Unbound, Launching
  <2>3. ASSUME starts = 1
        PROVE  Closing'
    <3> USE <1>2, <1>3, <1>5, <2>1, <2>3
    <3>1. CASE StopCheck(a)
      BY <3>1 DEF StopCheck, Closing, Shut, Unbound
    <3>2. CASE StopPhase1(a) \/ StopClient(a) \/ StopForget(a)
      BY <3>2 DEF StopPhase1, StopClient, StopForget, Closing, Shut, Unbound
    <3>3. CASE StopListen(a)
      BY <3>3 DEF StopListen, Closing, Shut, Unbound
    <3>4. CASE StopPhase2(a) \/ StopDone(a)
      BY <3>4 DEF StopPhase2, StopDone, Closing, Shut, Unbound
    <3>5. ~StopReturnsToButton(a) /\ ~StopReturnsToStart(a)
      BY DEF StopReturnsToButton, StopReturnsToStart
    <3> QED  BY <3>1, <3>2, <3>3, <3>4, <3>5 DEF Stop
  <2>4. starts # 1 => Closing'
    BY <1>3 DEF Closing
  <2> QED  BY <2>2, <2>3, <2>4
<1> QED  BY <1>2, <1>4, <1>5

LEMMA RebootOther ==
  ASSUME TypeOK, RebootInv, Undisturbed,
         \/ StopReturnsToReInit \/ StopReturnsToScreen \/ Dialog \/ DeviceLost
         \/ \E c \in Conns : Expire(c) \/ ClientStop(c)
         \/ UNCHANGED vars
  PROVE  RebootInv'
<1> USE DEF RebootInv, TypeOK, StartPoints, StopPoints, Closers, Watching, Undisturbed
<1>1. CASE StopReturnsToReInit
  <2>1. pc["timer"] = "stopped"
        /\ UNCHANGED <<mState, listenSock, lpc, cpc, initRequired, starts, stopEnabled>>
    BY <1>1 DEF StopReturnsToReInit
  <2>2. starts # 0 /\ ~(starts = 1 /\ Unbound) /\ (starts = 1 => Shut /\ Shut')
    BY <2>1 DEF Unused, Closing, Shut, Unbound
  <2>3. /\ pc'["click"] = pc["click"] /\ pc'["fbc"] = pc["fbc"]
        /\ pc'["cli"] = pc["cli"]
        /\ pc'["ui"] = pc["ui"]
        /\ \A a \in Actors : ret'[a] # "button"
    <3>1. \E to : pc' = [pc EXCEPT !["timer"] = to]
      BY <1>1, Zenon DEF StopReturnsToReInit
    <3>2. \/ ret' = [ret EXCEPT !["timer"] = "none"]
          \/ ret' = [ret EXCEPT !["timer"] = "again"]
      BY <1>1, Zenon DEF StopReturnsToReInit
    <3>3. pc \in [Actors -> Points] /\ ret \in [Actors -> Returns]
      OBVIOUS
    <3>4. \A b \in Actors : b # "timer" => pc'[b] = pc[b]
      BY ONLY <3>1, <3>3, Zenon
    <3>5. \A b \in Actors : ret[b] # "button"
      BY DEF Still
    <3>6. \A b \in Actors : ret'[b] # "button"
      BY ONLY <3>2, <3>3, <3>5, SMT
    <3> QED  BY <3>4, <3>6, Zenon
  <2>4. Still' /\ Launching'
    BY <2>1, <2>2, <2>3 DEF Still, Launching
  <2>5. Unused' /\ Closing'
    BY <2>1, <2>2 DEF Unused, Unbound, Closing, Shut
  <2> QED  BY <2>4, <2>5
<1>2. ~StopReturnsToScreen
  BY DEF StopReturnsToScreen, Still
<1>3. CASE StartButton
  <2>1. /\ pc' = [pc EXCEPT !["ui"] = "start"] /\ ~stopEnabled /\ stopEnabled'
        /\ UNCHANGED <<mState, listenSock, lpc, cpc, initRequired, starts, ret>>
    BY <1>3 DEF StartButton
  <2>2. starts # 1
    BY <2>1 DEF Still
  <2> QED  BY <2>1, <2>2 DEF Still, Unused, Unbound, Launching, Closing
<1>4. CASE StartButtonNoDevice
  <2>1. /\ pc["ui"] = "idle" /\ ~stopEnabled
        /\ UNCHANGED <<pc, listenSock, lpc, cpc, initRequired, starts, ret,
                       stopEnabled>>
    BY <1>4 DEF StartButtonNoDevice
  <2>2. starts # 1
    BY <2>1 DEF Still
  <2> QED  BY <2>1, <2>2 DEF Still, Unused, Unbound, Launching, Closing
<1>5. ~StopButton /\ ~StopClick
  BY DEF StopButton, StopClick
<1>6. CASE DeviceLost
  <2>1. UNCHANGED <<pc, ret, mState, listenSock, lpc, cpc, initRequired, starts,
                    stopEnabled>>
    BY <1>6 DEF DeviceLost
  <2> QED  BY <2>1 DEF Still, Unused, Unbound, Launching, Closing, Shut
<1>7. CASE (\E c \in Conns : Expire(c)) \/ UNCHANGED vars
  <2>1. UNCHANGED <<pc, ret, mState, listenSock, lpc, cpc, initRequired, starts,
                    stopEnabled>>
    BY <1>7, Zenon DEF Expire
  <2> QED  BY <2>1 DEF Still, Unused, Unbound, Launching, Closing, Shut
<1>8. \A c \in Conns : ~ClientStop(c)
  BY DEF ClientStop, KeysFail, StopReturnsToClient, Still
<1> QED  BY <1>1, <1>2, <1>3, <1>4, <1>5, <1>6, <1>7, <1>8 DEF Dialog

(* RebootsStopped, for every set of connections and every bound on the     *)
(* starts, while starts and binds fail but nothing else disturbs.          *)
THEOREM RebootFindsSocketClosed ==
  ASSUME Undisturbed
  PROVE  Spec => RebootsStopped
<1>1. Init => RebootInv
  <2> SUFFICES ASSUME Init PROVE RebootInv
    OBVIOUS
  <2>1. Still /\ Unused
    BY DEF Init, Still, Unused, Watching
  <2>2. Launching /\ Closing
    BY DEF Init, Launching, Closing, StartPoints
  <2> QED  BY <2>1, <2>2 DEF RebootInv
<1>2. IInv /\ RebootInv /\ [Next]_vars => RebootInv'
  <2> SUFFICES ASSUME IInv, RebootInv, [Next]_vars PROVE RebootInv'
    OBVIOUS
  <2>1. TypeOK /\ Started
    BY DEF IInv
  <2>2. CASE \E g \in Gens : Listener(g)
    BY <2>1, <2>2, RebootListener
  <2>3. CASE \E c \in Conns : Client(c)
    BY <2>1, <2>3, RebootClient
  <2>4. CASE Timer
    BY <2>1, <2>4, RebootTimer
  <2>5. CASE \E a \in {"ui", "timer"} : Start(a)
    BY <2>1, <2>5, RebootStart
  <2>6. CASE \E a \in Actors : Stop(a)
    BY <2>1, <2>6, RebootStop
  <2>7. CASE \/ StopReturnsToReInit \/ StopReturnsToScreen \/ Dialog \/ DeviceLost
             \/ \E c \in Conns : Expire(c) \/ ClientStop(c)
             \/ UNCHANGED vars
    BY ONLY Undisturbed, RebootInv, <2>1, <2>7, RebootOther
  <2>8. \/ \E g \in Gens : Listener(g)
        \/ \E c \in Conns : Client(c)
        \/ Timer
        \/ \E a \in {"ui", "timer"} : Start(a)
        \/ \E a \in Actors : Stop(a)
        \/ StopReturnsToReInit \/ StopReturnsToScreen \/ Dialog \/ DeviceLost
        \/ \E c \in Conns : Expire(c) \/ ClientStop(c)
        \/ UNCHANGED vars
    BY ONLY [Next]_vars, Zenon DEF Next, Service, ClientStop
  <2> QED  BY <2>2, <2>3, <2>4, <2>5, <2>6, <2>7, <2>8
<1>3. IInv /\ RebootInv =>
        (StartService("timer") /\ starts <= 1 => listenSock = 0)
  <2> SUFFICES ASSUME IInv, RebootInv, StartService("timer"), starts <= 1
               PROVE  listenSock = 0
    OBVIOUS
  <2>1. pc["timer"] = "start" /\ starts \in {0, 1}
    BY DEF StartService, IInv, TypeOK
  <2>2. starts = 1
    BY <2>1 DEF RebootInv, Unused, Watching
  <2> QED  BY <2>1, <2>2 DEF RebootInv, Closing, Shut, StartPoints
<1> QED  BY <1>1, <1>2, <1>3, Invariance, PTL DEF Spec, RebootsStopped

=============================================================================
