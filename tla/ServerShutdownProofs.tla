------------------------ MODULE ServerShutdownProofs ------------------------
(***************************************************************************)
(* The safety properties of ServerShutdown as theorems.  A clean exit      *)
(* rests on what the main thread has waited for, and that nothing serves   *)
(* on rests on this: before the request what is open is registered, after  *)
(* it what is open is still on the list of request_stop.                   *)
(***************************************************************************)
EXTENDS ServerShutdown, Naturals, TLAPS

InLoop == {"sets up", "accepts", "accepted", "stops connection", "binds",
           "serves", "closes", "unregisters", "releases"}

\* A loop is entered after the listener is registered and left with it closed; a
\* connection is closed outside its part of the loop.
SocketsFollow ==
    \A t \in Threads :
        /\ at[t] \in {"requests", "stops", "done"} =>
               sock[Listener(t)] \in {"none", "closed"}
        /\ at[t] \notin {"accepted", "stops connection", "binds", "serves", "closes"} =>
               sock[Connection(t)] \in {"none", "closed"}

OpenIsRegistered ==
    ~requested =>
        \A t \in Threads :
            /\ at[t] \in InLoop => Listener(t) \in registered
            /\ at[t] \in {"binds", "serves"} => Connection(t) \in registered

OpenIsOnTheList ==
    requested =>
        \A t \in Threads :
            /\ at[t] \in InLoop => sock[Listener(t)] = "closed" \/ Listener(t) \in left
            /\ at[t] \in {"binds", "serves"} =>
                   sock[Connection(t)] # "open" \/ Connection(t) \in left

StopperIsInside ==
    /\ stopper = "nobody" => left = {}
    /\ stopper # "nobody" => requested
    /\ \A t \in Threads : stopper = t => at[t] = "stops"

\* A loop ends without an exception only after the request, and makes it otherwise.
EndIsRequested ==
    /\ \A t \in Threads : /\ at[t] \in {"done", "stops", "stops listener",
                                     "stops connection"} => requested
                          /\ at[t] = "unwinds" /\ t \notin broken => requested
                          /\ at[t] = "requests" => t \in broken
    /\ at["game"] # "off" \/ at["login"] \in {"off", "begins"}
    /\ at["login"] \in {"off", "begins"} => at["game"] = "off"
    /\ at["login"] = "off" <=> main = "starts"

\* A lease that is open or lost has a connection still to be released, or a thread
\* that dies.
LeaseIsHeld ==
    ~failed =>
        /\ lease = "open" => at["game"] \in {"serves", "closes", "unregisters", "releases"}
        /\ lease = "lost" => /\ "game" \in broken
                             /\ at["game"] \in {"closes", "unregisters",
                                               "releases", "unwinds"}

MainHasWaited ==
    /\ main = "finishes" => at["login"] = "done" \/ failed
    /\ main \in {"returns", "zero"} => failed \/ (at["login"] = "done" /\ at["game"] = "done")
    /\ main = "zero" => ~failed

Inv ==
    /\ TypeOK
    /\ SocketsFollow
    /\ OpenIsRegistered
    /\ OpenIsOnTheList
    /\ StopperIsInside
    /\ EndIsRequested
    /\ LeaseIsHeld
    /\ MainHasWaited

\* The part of the types that most steps need.
Shape == at \in [Threads -> Places] /\ sock \in [Sockets -> States]

-----------------------------------------------------------------------------
(* The sockets of the threads, and the names of the threads, are different. *)

\* The four sockets are what the two threads listen on and have accepted.
LEMMA SocketFacts ==
  /\ \A t \in Threads : Listener(t) \in Sockets /\ Connection(t) \in Sockets
  /\ \A t, u \in Threads : Listener(t) # Connection(u)
  /\ \A t, u \in Threads : t # u => Listener(t) # Listener(u) /\ Connection(t) # Connection(u)
  /\ \A s \in Sockets : \E t \in Threads : s = Listener(t) \/ s = Connection(t)
  BY DEF Threads, Sockets, Listener, Connection

\* The threads of the accept loops are neither the main thread nor nobody.
LEMMA ThreadFacts ==
  /\ "login" \in Threads /\ "game" \in Threads
  /\ "main" \notin Threads /\ "nobody" \notin Threads
  /\ \A t \in Threads : t = "login" \/ t = "game"
  BY DEF Threads

-----------------------------------------------------------------------------
(* Every step keeps the invariant: one lemma an action, one step a conjunct. *)

\* A server that has not started holds nothing.
LEMMA InitInv == Init => Inv
  BY SocketFacts, ThreadFacts DEF Init, Inv, TypeOK, Places, States, Stages,
     SocketsFollow, OpenIsRegistered, OpenIsOnTheList, StopperIsInside, EndIsRequested,
     LeaseIsHeld, MainHasWaited, InLoop, Exits

\* request_stop closes listeners only after the request.
LEMMA StopListenerKeeps ==
  ASSUME NEW who \in Threads \cup {"main"}, Inv, Running, StopListener(who)
  PROVE  Inv'
<1> USE DEF Inv
<1>0. Shape
  BY DEF TypeOK, Shape
<1>1. TypeOK'
  <2>1. Shape'
    BY <1>0, SocketFacts, ThreadFacts DEF Shape, Places, States, StopListener,
       Unregisters, LockIsFree, outcome, threads
  <2>2. QED
    BY <2>1, SocketFacts, ThreadFacts DEF Shape, TypeOK, StopListener, Unregisters,
       LockIsFree, outcome, threads
<1>2. SocketsFollow'
  <2>1. PICK t \in Threads : sock' = [sock EXCEPT ![Listener(t)] = "closed"]
    BY DEF StopListener
  <2>2. at' = at
    BY DEF StopListener, threads
  <2>3. \A u \in Threads : sock'[Connection(u)] = sock[Connection(u)]
    BY <1>0, <2>1, SocketFacts DEF Shape
  <2>4. \A u \in Threads : sock'[Listener(u)] \in {sock[Listener(u)], "closed"}
    BY <1>0, <2>1, SocketFacts DEF Shape
  <2>5. QED
    BY <2>2, <2>3, <2>4 DEF SocketsFollow
<1>3. OpenIsRegistered'
  <2>1. requested
    BY DEF StopListener, StopperIsInside, Exits, Threads
  <2>2. requested'
    BY <2>1 DEF StopListener, Unregisters
  <2>3. QED
    BY <2>2 DEF OpenIsRegistered
<1>4. OpenIsOnTheList'
  <2>1. PICK t \in Threads : /\ Listener(t) \in left
                             /\ sock' = [sock EXCEPT ![Listener(t)] = "closed"]
                             /\ left' = left \ {Listener(t)}
    BY DEF StopListener, Unregisters
  <2>2. requested' = requested /\ at' = at
    BY DEF StopListener, Unregisters, threads
  <2>3. QED
    BY <1>0, <2>1, <2>2, SocketFacts DEF Shape, OpenIsOnTheList, InLoop
<1>5. StopperIsInside'
  <2>1. UNCHANGED <<requested, stopper, at>> /\ stopper # "nobody"
    BY ThreadFacts DEF StopListener, Unregisters, threads
  <2>2. QED
    BY <2>1 DEF StopperIsInside
<1>6. EndIsRequested'
  <2>1. requested' = requested /\ at' = at /\ broken' = broken /\ main' = main
    BY DEF StopListener, Unregisters, threads
  <2>2. QED
    BY <2>1 DEF EndIsRequested
<1>7. LeaseIsHeld'
  BY <1>0, SocketFacts, ThreadFacts DEF LeaseIsHeld, Shape, StopListener, Unregisters,
     LockIsFree, outcome, threads
<1>8. MainHasWaited'
  BY <1>0, SocketFacts, ThreadFacts DEF MainHasWaited, Shape, StopListener, Unregisters,
     LockIsFree, outcome, threads
<1>9. QED
  BY <1>1, <1>2, <1>3, <1>4, <1>5, <1>6, <1>7, <1>8

\* A connection that request_stop shuts is on the list no longer.
LEMMA StopAcceptedKeeps ==
  ASSUME NEW who \in Threads \cup {"main"}, Inv, Running, StopAccepted(who)
  PROVE  Inv'
<1> USE DEF Inv
<1>0. Shape
  BY DEF TypeOK, Shape
<1>1. TypeOK'
  <2>1. Shape'
    BY <1>0, SocketFacts, ThreadFacts DEF Shape, Places, States, StopAccepted, Shut, threads
  <2>2. QED
    BY <2>1, SocketFacts, ThreadFacts DEF Shape, TypeOK, StopAccepted, Shut, threads
<1>2. SocketsFollow'
  <2>1. at' = at
    BY DEF StopAccepted, threads
  <2>2. PICK s \in left : sock' = [sock EXCEPT ![s] = IF @ = "open" THEN "shut" ELSE @]
    BY DEF StopAccepted, Shut
  <2>3. PICK t \in Threads : s = Connection(t)
    BY <2>2, SocketFacts DEF StopAccepted, TypeOK
  <2>4. \A u \in Threads : sock'[Listener(u)] = sock[Listener(u)]
    BY <2>2, <2>3, SocketFacts DEF TypeOK
  <2>5. \A u \in Threads : sock[Connection(u)] # "open"
              => sock'[Connection(u)] = sock[Connection(u)]
    BY <2>2, <2>3, SocketFacts DEF TypeOK
  <2>6. QED
    BY <2>1, <2>4, <2>5 DEF SocketsFollow
<1>3. OpenIsRegistered'
  BY <1>0, SocketFacts, ThreadFacts DEF OpenIsRegistered, Shape, StopAccepted, Shut,
     threads, InLoop
<1>4. OpenIsOnTheList'
  <2>1. UNCHANGED <<requested, at>>
    BY DEF StopAccepted, threads
  <2>2. PICK s \in left : /\ sock' = [sock EXCEPT ![s] = IF @ = "open" THEN "shut" ELSE @]
                      /\ left' = left \ {s}
    BY DEF StopAccepted, Shut
  <2>3. \A t \in Threads : Listener(t) \notin left
    BY DEF StopAccepted
  <2>4. \A t \in Threads : sock'[Listener(t)] = sock[Listener(t)]
    BY <1>0, <2>2, <2>3, SocketFacts DEF Shape
  <2>5. \A t \in Threads : Connection(t) \in left /\ Connection(t) \notin left'
                        => sock'[Connection(t)] # "open"
    BY <1>0, <2>2, SocketFacts DEF Shape
  <2>6. \A t \in Threads : sock[Connection(t)] # "open" => sock'[Connection(t)] # "open"
    BY <1>0, <2>2, SocketFacts DEF Shape
  <2>7. QED
    BY <2>1, <2>3, <2>4, <2>5, <2>6 DEF OpenIsOnTheList
<1>5. StopperIsInside'
  BY <1>0, SocketFacts, ThreadFacts DEF StopperIsInside, Shape, StopAccepted, Shut, threads
<1>6. EndIsRequested'
  BY <1>0, SocketFacts, ThreadFacts DEF EndIsRequested, Shape, StopAccepted, Shut, threads
<1>7. LeaseIsHeld'
  <2>1. UNCHANGED <<at, broken, lease>> /\ (failed' \/ failed' = failed)
    BY DEF StopAccepted, Shut, threads
  <2>2. QED
    BY <2>1 DEF LeaseIsHeld
<1>8. MainHasWaited'
  <2>1. UNCHANGED <<at, main>> /\ (failed' \/ failed' = failed)
    BY DEF StopAccepted, Shut, threads
  <2>2. main # "zero"
    BY DEF Running, Exits
  <2>3. QED
    BY <2>1, <2>2 DEF MainHasWaited
<1>9. QED
  BY <1>1, <1>2, <1>3, <1>4, <1>5, <1>6, <1>7, <1>8

\* request_stop returns with an empty list.
LEMMA StopReturnsKeeps ==
  ASSUME NEW who \in Threads \cup {"main"}, Inv, Running, StopReturns(who)
  PROVE  Inv'
<1> USE DEF Inv
<1>0. Shape
  BY DEF TypeOK, Shape
<1>1. TypeOK'
  <2>1. Shape'
    BY <1>0, SocketFacts, ThreadFacts DEF Shape, Places, States, StopReturns, Goes, outcome
  <2>2. QED
    BY <2>1, SocketFacts, ThreadFacts DEF Shape, TypeOK, StopReturns, outcome
<1>2. SocketsFollow'
  <2>1. who \in Threads => at[who] = "stops"
    BY DEF StopReturns, StopperIsInside
  <2>2. sock' = sock
    BY DEF StopReturns
  <2>3. who \in Threads => at' = [at EXCEPT ![who] = "done"]
    BY DEF StopReturns, Goes
  <2>4. who \notin Threads => at' = at
    BY DEF StopReturns
  <2>5. QED
    BY <1>0, <2>1, <2>2, <2>3, <2>4 DEF Shape, SocketsFollow
<1>3. OpenIsRegistered'
  BY <1>0, SocketFacts, ThreadFacts DEF OpenIsRegistered, Shape, StopReturns, Goes,
     outcome, InLoop
<1>4. OpenIsOnTheList'
  <2>1. UNCHANGED <<requested, left, sock>>
    BY DEF StopReturns
  <2>2. \A t \in Threads : at'[t] = at[t] \/ at'[t] = "done"
    BY <1>0 DEF Shape, StopReturns, Goes
  <2>3. QED
    BY <2>1, <2>2 DEF OpenIsOnTheList, InLoop
<1>5. StopperIsInside'
  BY <1>0, SocketFacts, ThreadFacts DEF StopperIsInside, Shape, StopReturns, Goes, outcome
<1>6. EndIsRequested'
  <2>1. who \in Threads => at[who] = "stops"
    BY DEF StopReturns, StopperIsInside
  <2>2. requested' = requested /\ broken' = broken /\ main' = main
    BY DEF StopReturns
  <2>3. who \in Threads => at' = [at EXCEPT ![who] = "done"]
    BY DEF StopReturns, Goes
  <2>4. who \notin Threads => at' = at
    BY DEF StopReturns
  <2>5. QED
    BY <1>0, <2>1, <2>2, <2>3, <2>4, ThreadFacts DEF Shape, EndIsRequested
<1>7. LeaseIsHeld'
  <2>1. who \in Threads => at[who] = "stops"
    BY DEF StopReturns, StopperIsInside
  <2>2. UNCHANGED <<lease, failed, broken>>
    BY DEF StopReturns, outcome
  <2>3. who \in Threads => at' = [at EXCEPT ![who] = "done"]
    BY DEF StopReturns, Goes
  <2>4. who \notin Threads => at' = at
    BY DEF StopReturns
  <2>5. at'["game"] = at["game"] \/ at["game"] = "stops"
    BY <1>0, <2>1, <2>3, <2>4, ThreadFacts DEF Shape
  <2>6. QED
    BY <2>2, <2>5 DEF LeaseIsHeld
<1>8. MainHasWaited'
  BY <1>0, SocketFacts, ThreadFacts DEF MainHasWaited, Shape, StopReturns, Goes, outcome
<1>9. QED
  BY <1>1, <1>2, <1>3, <1>4, <1>5, <1>6, <1>7, <1>8

\* The GAME thread starts from nothing.
LEMMA StartGameKeeps ==
  ASSUME Inv, Running, StartGame
  PROVE  Inv'
<1> USE DEF Inv
<1>0. Shape
  BY DEF TypeOK, Shape
<1>1. TypeOK'
  <2>1. Shape'
    BY <1>0, SocketFacts, ThreadFacts DEF Shape, Places, States, StartGame, LockIsFree,
       control, outcome
  <2>2. QED
    BY <2>1, SocketFacts, ThreadFacts DEF Shape, TypeOK, StartGame, LockIsFree, control,
       outcome
<1>2. SocketsFollow'
  <2>1. at["login"] = "begins" /\ at["game"] = "off"
    BY DEF StartGame, EndIsRequested
  <2>2. at'["login"] = "waits" /\ at'["game"] = "listens"
    BY <1>0, ThreadFacts DEF StartGame, Shape
  <2>3. QED
    BY <2>1, <2>2, ThreadFacts DEF StartGame, SocketsFollow
<1>3. OpenIsRegistered'
  BY <1>0, SocketFacts, ThreadFacts DEF OpenIsRegistered, Shape, StartGame, LockIsFree,
     control, outcome, InLoop
<1>4. OpenIsOnTheList'
  BY <1>0, SocketFacts, ThreadFacts DEF OpenIsOnTheList, Shape, StartGame, LockIsFree,
     control, outcome, InLoop
<1>5. StopperIsInside'
  <2>1. at["login"] = "begins" /\ at["game"] = "off"
    BY DEF StartGame, EndIsRequested
  <2>2. at'["login"] = "waits" /\ at'["game"] = "listens"
    BY <1>0, ThreadFacts DEF StartGame, Shape
  <2>3. requested' = requested /\ stopper' = stopper /\ left' = left
    BY DEF StartGame, control
  <2>4. QED
    BY <2>1, <2>2, <2>3, ThreadFacts DEF StopperIsInside
<1>6. EndIsRequested'
  BY <1>0, SocketFacts, ThreadFacts DEF EndIsRequested, Shape, StartGame, LockIsFree,
     control, outcome
<1>7. LeaseIsHeld'
  <2>1. at["login"] = "begins" /\ at["game"] = "off"
    BY DEF StartGame, EndIsRequested
  <2>2. QED
    BY <2>1 DEF StartGame, LeaseIsHeld, outcome
<1>8. MainHasWaited'
  BY <1>0, SocketFacts, ThreadFacts DEF MainHasWaited, Shape, StartGame, LockIsFree,
     control, outcome
<1>9. QED
  BY <1>1, <1>2, <1>3, <1>4, <1>5, <1>6, <1>7, <1>8

\* The login thread listens once the GAME thread does, or dies.
LEMMA WaitReadyKeeps ==
  ASSUME Inv, Running, WaitReady
  PROVE  Inv'
<1> USE DEF Inv
<1>0. Shape
  BY DEF TypeOK, Shape
<1>1. TypeOK'
  <2>1. Shape'
    BY <1>0, SocketFacts, ThreadFacts DEF Shape, Places, States, WaitReady, Goes,
       control, outcome
  <2>2. QED
    BY <2>1, SocketFacts, ThreadFacts DEF Shape, TypeOK, WaitReady, control, outcome
<1>2. SocketsFollow'
  <2>1. at["login"] = "waits" /\ UNCHANGED <<sock>>
    BY DEF WaitReady, control
  <2>2. at'["game"] = at["game"] /\ at'["login"] \in {"listens", "unwinds"}
    BY <1>0, ThreadFacts DEF WaitReady, Goes, Shape
  <2>3. QED
    BY <2>1, <2>2, ThreadFacts DEF SocketsFollow
<1>3. OpenIsRegistered'
  <2>1. at["login"] = "waits" /\ UNCHANGED <<requested, registered>>
    BY DEF WaitReady, control
  <2>2. at'["game"] = at["game"] /\ at'["login"] \in {"listens", "unwinds"}
    BY <1>0, ThreadFacts DEF WaitReady, Goes, Shape
  <2>3. QED
    BY <2>1, <2>2, ThreadFacts DEF OpenIsRegistered, InLoop
<1>4. OpenIsOnTheList'
  <2>1. at["login"] = "waits" /\ UNCHANGED <<requested, left, sock>>
    BY DEF WaitReady, control
  <2>2. at'["game"] = at["game"] /\ at'["login"] \in {"listens", "unwinds"}
    BY <1>0, ThreadFacts DEF WaitReady, Goes, Shape
  <2>3. QED
    BY <2>1, <2>2, ThreadFacts DEF OpenIsOnTheList, InLoop
<1>5. StopperIsInside'
  BY <1>0, SocketFacts, ThreadFacts DEF StopperIsInside, Shape, WaitReady, Goes, control,
     outcome
<1>6. EndIsRequested'
  <2>1. CASE ready /\ Goes("login", "listens") /\ UNCHANGED broken
    BY <1>0, <2>1, ThreadFacts DEF WaitReady, Goes, Shape, EndIsRequested, control
  <2>2. CASE Goes("login", "unwinds") /\ broken' = broken \cup {"login"}
    BY <1>0, <2>2, ThreadFacts DEF WaitReady, Goes, Shape, EndIsRequested, control
  <2>3. QED
    BY <2>1, <2>2 DEF WaitReady
<1>7. LeaseIsHeld'
  BY <1>0, SocketFacts, ThreadFacts DEF LeaseIsHeld, Shape, WaitReady, Goes, control,
     outcome
<1>8. MainHasWaited'
  BY <1>0, SocketFacts, ThreadFacts DEF MainHasWaited, Shape, WaitReady, Goes, control,
     outcome
<1>9. QED
  BY <1>1, <1>2, <1>3, <1>4, <1>5, <1>6, <1>7, <1>8

\* A new listener is registered, or its thread stops it.
LEMMA ListenKeeps ==
  ASSUME NEW t \in Threads, Inv, Running, Listen(t)
  PROVE  Inv'
<1> USE DEF Inv
<1>0. Shape
  BY DEF TypeOK, Shape
<1>1. TypeOK'
  <2>1. Shape'
    BY <1>0, SocketFacts, ThreadFacts DEF Shape, Places, States, Listen, Goes, Registers,
       LockIsFree, ComesTooLate, AfterListen, outcome
  <2>2. QED
    BY <2>1, SocketFacts, ThreadFacts DEF Shape, TypeOK, Listen, Registers, LockIsFree,
       ComesTooLate, outcome
<1>2. SocketsFollow'
  BY <1>0, SocketFacts, ThreadFacts DEF SocketsFollow, Shape, Listen, Goes, Registers,
     LockIsFree, ComesTooLate, AfterListen, outcome
<1>3. OpenIsRegistered'
  BY <1>0, SocketFacts, ThreadFacts DEF OpenIsRegistered, Shape, Listen, Goes, Registers,
     LockIsFree, ComesTooLate, AfterListen, outcome, InLoop
<1>4. OpenIsOnTheList'
  BY <1>0, SocketFacts, ThreadFacts DEF OpenIsOnTheList, Shape, Listen, Goes, Registers,
     LockIsFree, ComesTooLate, AfterListen, outcome, InLoop
<1>5. StopperIsInside'
  BY <1>0, SocketFacts, ThreadFacts DEF StopperIsInside, Shape, Listen, Goes, Registers,
     LockIsFree, ComesTooLate, AfterListen, outcome
<1>6. EndIsRequested'
  BY <1>0, SocketFacts, ThreadFacts DEF EndIsRequested, Shape, Listen, Goes, Registers,
     LockIsFree, ComesTooLate, AfterListen, outcome
<1>7. LeaseIsHeld'
  BY <1>0, SocketFacts, ThreadFacts DEF LeaseIsHeld, Shape, Listen, Goes, Registers,
     LockIsFree, ComesTooLate, AfterListen, outcome
<1>8. MainHasWaited'
  BY <1>0, SocketFacts, ThreadFacts DEF MainHasWaited, Shape, Listen, Goes, Registers,
     LockIsFree, ComesTooLate, AfterListen, outcome
<1>9. QED
  BY <1>1, <1>2, <1>3, <1>4, <1>5, <1>6, <1>7, <1>8

\* A listener that came too late is closed.
LEMMA StopOwnListenerKeeps ==
  ASSUME NEW t \in Threads, Inv, Running, StopOwnListener(t)
  PROVE  Inv'
<1> USE DEF Inv
<1>0. Shape
  BY DEF TypeOK, Shape
<1>1. TypeOK'
  <2>1. Shape'
    BY <1>0, SocketFacts, ThreadFacts DEF Shape, Places, States, StopOwnListener, Goes,
       Unregisters, LockIsFree, AfterListen, outcome
  <2>2. QED
    BY <2>1, SocketFacts, ThreadFacts DEF Shape, TypeOK, StopOwnListener, Unregisters,
       LockIsFree, outcome
<1>2. SocketsFollow'
  BY <1>0, SocketFacts, ThreadFacts DEF SocketsFollow, Shape, StopOwnListener, Goes,
     Unregisters, LockIsFree, AfterListen, outcome
<1>3. OpenIsRegistered'
  <2>1. requested
    BY DEF StopOwnListener, EndIsRequested
  <2>2. requested'
    BY <2>1 DEF StopOwnListener, Unregisters
  <2>3. QED
    BY <2>2 DEF OpenIsRegistered
<1>4. OpenIsOnTheList'
  BY <1>0, SocketFacts, ThreadFacts DEF OpenIsOnTheList, Shape, StopOwnListener, Goes,
     Unregisters, LockIsFree, AfterListen, outcome, InLoop
<1>5. StopperIsInside'
  BY <1>0, SocketFacts, ThreadFacts DEF StopperIsInside, Shape, StopOwnListener, Goes,
     Unregisters, LockIsFree, AfterListen, outcome
<1>6. EndIsRequested'
  BY <1>0, SocketFacts, ThreadFacts DEF EndIsRequested, Shape, StopOwnListener, Goes,
     Unregisters, LockIsFree, AfterListen, outcome
<1>7. LeaseIsHeld'
  BY <1>0, SocketFacts, ThreadFacts DEF LeaseIsHeld, Shape, StopOwnListener, Goes,
     Unregisters, LockIsFree, AfterListen, outcome
<1>8. MainHasWaited'
  BY <1>0, SocketFacts, ThreadFacts DEF MainHasWaited, Shape, StopOwnListener, Goes,
     Unregisters, LockIsFree, AfterListen, outcome
<1>9. QED
  BY <1>1, <1>2, <1>3, <1>4, <1>5, <1>6, <1>7, <1>8

\* The GAME thread dies if its listener is closed already.
LEMMA SetUpKeeps ==
  ASSUME Inv, Running, SetUp
  PROVE  Inv'
<1> USE DEF Inv
<1>0. Shape
  BY DEF TypeOK, Shape
<1>1. TypeOK'
  <2>1. Goes("game", "accepts") \/ Goes("game", "unwinds")
    BY DEF SetUp
  <2>2. Shape'
    BY <1>0, <2>1, ThreadFacts DEF Shape, Places, SetUp, Goes
  <2>3. broken' \subseteq Threads
    BY ThreadFacts DEF TypeOK, SetUp
  <2>4. ready' \in BOOLEAN
    BY DEF TypeOK, SetUp
  <2>5. /\ UNCHANGED <<requested, stopper, left, registered, sock, lease>>
        /\ UNCHANGED <<main, failed, primary, signalled>>
    BY DEF SetUp, control, outcome
  <2>6. QED
    BY <2>2, <2>3, <2>4, <2>5 DEF Shape, TypeOK
<1>2. SocketsFollow'
  <2>1. CASE Goes("game", "accepts") /\ UNCHANGED broken
    BY <1>0, <2>1, ThreadFacts DEF SetUp, Goes, Shape, SocketsFollow
  <2>2. CASE Goes("game", "unwinds") /\ broken' = broken \cup {"game"}
    BY <1>0, <2>2, ThreadFacts DEF SetUp, Goes, Shape, SocketsFollow
  <2>3. QED
    BY <2>1, <2>2 DEF SetUp
<1>3. OpenIsRegistered'
  <2>1. CASE Goes("game", "accepts") /\ UNCHANGED broken
    BY <1>0, <2>1, ThreadFacts DEF SetUp, Goes, Shape, control, OpenIsRegistered, InLoop
  <2>2. CASE Goes("game", "unwinds") /\ broken' = broken \cup {"game"}
    BY <1>0, <2>2, ThreadFacts DEF SetUp, Goes, Shape, control, OpenIsRegistered, InLoop
  <2>3. QED
    BY <2>1, <2>2 DEF SetUp
<1>4. OpenIsOnTheList'
  <2>1. CASE Goes("game", "accepts") /\ UNCHANGED broken
    BY <1>0, <2>1, ThreadFacts DEF SetUp, Goes, Shape, control, OpenIsOnTheList, InLoop
  <2>2. CASE Goes("game", "unwinds") /\ broken' = broken \cup {"game"}
    BY <1>0, <2>2, ThreadFacts DEF SetUp, Goes, Shape, control, OpenIsOnTheList, InLoop
  <2>3. QED
    BY <2>1, <2>2 DEF SetUp
<1>5. StopperIsInside'
  BY <1>0, SocketFacts, ThreadFacts DEF StopperIsInside, Shape, SetUp, Goes, control,
     outcome
<1>6. EndIsRequested'
  <2>1. CASE Goes("game", "accepts") /\ UNCHANGED broken
    BY <1>0, <2>1, ThreadFacts DEF SetUp, Goes, Shape, control, EndIsRequested
  <2>2. CASE Goes("game", "unwinds") /\ broken' = broken \cup {"game"}
    BY <1>0, <2>2, ThreadFacts DEF SetUp, Goes, Shape, control, EndIsRequested
  <2>3. QED
    BY <2>1, <2>2 DEF SetUp
<1>7. LeaseIsHeld'
  BY <1>0, SocketFacts, ThreadFacts DEF LeaseIsHeld, Shape, SetUp, Goes, control, outcome
<1>8. MainHasWaited'
  BY <1>0, SocketFacts, ThreadFacts DEF MainHasWaited, Shape, SetUp, Goes, control, outcome
<1>9. QED
  BY <1>1, <1>2, <1>3, <1>4, <1>5, <1>6, <1>7, <1>8

\* An accepted connection is not registered yet.
LEMMA AcceptKeeps ==
  ASSUME NEW t \in Threads, Inv, Running, Accept(t)
  PROVE  Inv'
<1> USE DEF Inv
<1>0. Shape
  BY DEF TypeOK, Shape
<1>1. TypeOK'
  <2>1. Shape'
    BY <1>0, SocketFacts, ThreadFacts DEF Shape, Places, States, Accept, Goes, control,
       outcome
  <2>2. QED
    BY <2>1, SocketFacts, ThreadFacts DEF Shape, TypeOK, Accept, control, outcome
<1>2. SocketsFollow'
  BY <1>0, SocketFacts, ThreadFacts DEF SocketsFollow, Shape, Accept, Goes, control, outcome
<1>3. OpenIsRegistered'
  BY <1>0, SocketFacts, ThreadFacts DEF OpenIsRegistered, Shape, Accept, Goes, control,
     outcome, InLoop
<1>4. OpenIsOnTheList'
  BY <1>0, SocketFacts, ThreadFacts DEF OpenIsOnTheList, Shape, Accept, Goes, control,
     outcome, InLoop
<1>5. StopperIsInside'
  BY <1>0, SocketFacts, ThreadFacts DEF StopperIsInside, Shape, Accept, Goes, control,
     outcome
<1>6. EndIsRequested'
  BY <1>0, SocketFacts, ThreadFacts DEF EndIsRequested, Shape, Accept, Goes, control,
     outcome
<1>7. LeaseIsHeld'
  BY <1>0, SocketFacts, ThreadFacts DEF LeaseIsHeld, Shape, Accept, Goes, control, outcome
<1>8. MainHasWaited'
  BY <1>0, SocketFacts, ThreadFacts DEF MainHasWaited, Shape, Accept, Goes, control, outcome
<1>9. QED
  BY <1>1, <1>2, <1>3, <1>4, <1>5, <1>6, <1>7, <1>8

\* An accept loop ends only after the request.
LEMMA AcceptEndsKeeps ==
  ASSUME NEW t \in Threads, Inv, Running, AcceptEnds(t)
  PROVE  Inv'
<1> USE DEF Inv
<1>0. Shape
  BY DEF TypeOK, Shape
<1>1. TypeOK'
  <2>1. Shape'
    BY <1>0, SocketFacts, ThreadFacts DEF Shape, Places, States, AcceptEnds, Goes,
       control, outcome
  <2>2. QED
    BY <2>1, SocketFacts, ThreadFacts DEF Shape, TypeOK, AcceptEnds, control, outcome
<1>2. SocketsFollow'
  BY <1>0, SocketFacts, ThreadFacts DEF SocketsFollow, Shape, AcceptEnds, Goes, control,
     outcome
<1>3. OpenIsRegistered'
  BY <1>0, SocketFacts, ThreadFacts DEF OpenIsRegistered, Shape, AcceptEnds, Goes,
     control, outcome, InLoop
<1>4. OpenIsOnTheList'
  BY <1>0, SocketFacts, ThreadFacts DEF OpenIsOnTheList, Shape, AcceptEnds, Goes,
     control, outcome, InLoop
<1>5. StopperIsInside'
  BY <1>0, SocketFacts, ThreadFacts DEF StopperIsInside, Shape, AcceptEnds, Goes,
     control, outcome
<1>6. EndIsRequested'
  BY <1>0, SocketFacts, ThreadFacts DEF EndIsRequested, Shape, AcceptEnds, Goes, control,
     outcome
<1>7. LeaseIsHeld'
  BY <1>0, SocketFacts, ThreadFacts DEF LeaseIsHeld, Shape, AcceptEnds, Goes, control,
     outcome
<1>8. MainHasWaited'
  BY <1>0, SocketFacts, ThreadFacts DEF MainHasWaited, Shape, AcceptEnds, Goes, control,
     outcome
<1>9. QED
  BY <1>1, <1>2, <1>3, <1>4, <1>5, <1>6, <1>7, <1>8

\* A loop that breaks off is one that dies.
LEMMA BreaksKeeps ==
  ASSUME NEW t \in Threads, Inv, Running, Breaks(t)
  PROVE  Inv'
<1> USE DEF Inv
<1>0. Shape
  BY DEF TypeOK, Shape
<1>1. TypeOK'
  <2>1. Shape'
    BY <1>0, SocketFacts, ThreadFacts DEF Shape, Places, States, Breaks, Goes,
       control, outcome
  <2>2. QED
    BY <2>1, SocketFacts, ThreadFacts DEF Shape, TypeOK, Breaks, control, outcome
<1>2. SocketsFollow'
  BY <1>0, SocketFacts, ThreadFacts DEF SocketsFollow, Shape, Breaks, Goes, control,
     outcome
<1>3. OpenIsRegistered'
  BY <1>0, SocketFacts, ThreadFacts DEF OpenIsRegistered, Shape, Breaks, Goes,
     control, outcome, InLoop
<1>4. OpenIsOnTheList'
  BY <1>0, SocketFacts, ThreadFacts DEF OpenIsOnTheList, Shape, Breaks, Goes,
     control, outcome, InLoop
<1>5. StopperIsInside'
  BY <1>0, SocketFacts, ThreadFacts DEF StopperIsInside, Shape, Breaks, Goes,
     control, outcome
<1>6. EndIsRequested'
  BY <1>0, SocketFacts, ThreadFacts DEF EndIsRequested, Shape, Breaks, Goes, control,
     outcome
<1>7. LeaseIsHeld'
  BY <1>0, SocketFacts, ThreadFacts DEF LeaseIsHeld, Shape, Breaks, Goes, control,
     outcome
<1>8. MainHasWaited'
  BY <1>0, SocketFacts, ThreadFacts DEF MainHasWaited, Shape, Breaks, Goes, control,
     outcome
<1>9. QED
  BY <1>1, <1>2, <1>3, <1>4, <1>5, <1>6, <1>7, <1>8

\* An accepted connection is registered, or its thread stops it.
LEMMA RegisterAcceptedKeeps ==
  ASSUME NEW t \in Threads, Inv, Running, RegisterAccepted(t)
  PROVE  Inv'
<1> USE DEF Inv
<1>0. Shape
  BY DEF TypeOK, Shape
<1>1. TypeOK'
  <2>1. Shape'
    BY <1>0, SocketFacts, ThreadFacts DEF Shape, Places, States, RegisterAccepted, Goes,
       Registers, LockIsFree, ComesTooLate, AfterAccept, outcome
  <2>2. QED
    BY <2>1, SocketFacts, ThreadFacts DEF Shape, TypeOK, RegisterAccepted, Registers,
       LockIsFree, ComesTooLate, outcome
<1>2. SocketsFollow'
  BY <1>0, SocketFacts, ThreadFacts DEF SocketsFollow, Shape, RegisterAccepted, Goes,
     Registers, LockIsFree, ComesTooLate, AfterAccept, outcome
<1>3. OpenIsRegistered'
  BY <1>0, SocketFacts, ThreadFacts DEF OpenIsRegistered, Shape, RegisterAccepted, Goes,
     Registers, LockIsFree, ComesTooLate, AfterAccept, outcome, InLoop
<1>4. OpenIsOnTheList'
  BY <1>0, SocketFacts, ThreadFacts DEF OpenIsOnTheList, Shape, RegisterAccepted, Goes,
     Registers, LockIsFree, ComesTooLate, AfterAccept, outcome, InLoop
<1>5. StopperIsInside'
  BY <1>0, SocketFacts, ThreadFacts DEF StopperIsInside, Shape, RegisterAccepted, Goes,
     Registers, LockIsFree, ComesTooLate, AfterAccept, outcome
<1>6. EndIsRequested'
  BY <1>0, SocketFacts, ThreadFacts DEF EndIsRequested, Shape, RegisterAccepted, Goes,
     Registers, LockIsFree, ComesTooLate, AfterAccept, outcome
<1>7. LeaseIsHeld'
  BY <1>0, SocketFacts, ThreadFacts DEF LeaseIsHeld, Shape, RegisterAccepted, Goes,
     Registers, LockIsFree, ComesTooLate, AfterAccept, outcome
<1>8. MainHasWaited'
  BY <1>0, SocketFacts, ThreadFacts DEF MainHasWaited, Shape, RegisterAccepted, Goes,
     Registers, LockIsFree, ComesTooLate, AfterAccept, outcome
<1>9. QED
  BY <1>1, <1>2, <1>3, <1>4, <1>5, <1>6, <1>7, <1>8

\* A connection that came too late is shut.
LEMMA StopOwnConnectionKeeps ==
  ASSUME NEW t \in Threads, Inv, Running, StopOwnConnection(t)
  PROVE  Inv'
<1> USE DEF Inv
<1>0. Shape
  BY DEF TypeOK, Shape
<1>1. TypeOK'
  <2>1. Shape'
    BY <1>0, SocketFacts, ThreadFacts DEF Shape, Places, States, StopOwnConnection, Goes,
       Shut, AfterAccept, control
  <2>2. QED
    BY <2>1, SocketFacts, ThreadFacts DEF Shape, TypeOK, StopOwnConnection, Shut, control
<1>2. SocketsFollow'
  BY <1>0, SocketFacts, ThreadFacts DEF SocketsFollow, Shape, StopOwnConnection, Goes,
     Shut, AfterAccept, control
<1>3. OpenIsRegistered'
  <2>1. requested
    BY DEF StopOwnConnection, EndIsRequested
  <2>2. requested'
    BY <2>1 DEF StopOwnConnection, control
  <2>3. QED
    BY <2>2 DEF OpenIsRegistered
<1>4. OpenIsOnTheList'
  BY <1>0, SocketFacts, ThreadFacts DEF OpenIsOnTheList, Shape, StopOwnConnection, Goes,
     Shut, AfterAccept, control, InLoop
<1>5. StopperIsInside'
  BY <1>0, SocketFacts, ThreadFacts DEF StopperIsInside, Shape, StopOwnConnection, Goes,
     Shut, AfterAccept, control
<1>6. EndIsRequested'
  BY <1>0, SocketFacts, ThreadFacts DEF EndIsRequested, Shape, StopOwnConnection, Goes,
     Shut, AfterAccept, control
<1>7. LeaseIsHeld'
  BY <1>0, SocketFacts, ThreadFacts DEF LeaseIsHeld, Shape, StopOwnConnection, Goes,
     Shut, AfterAccept, control
<1>8. MainHasWaited'
  BY <1>0, SocketFacts, ThreadFacts DEF MainHasWaited, Shape, StopOwnConnection, Goes,
     Shut, AfterAccept, control
<1>9. QED
  BY <1>1, <1>2, <1>3, <1>4, <1>5, <1>6, <1>7, <1>8

\* The lease is opened in the loop.
LEMMA BindKeeps ==
  ASSUME Inv, Running, Bind
  PROVE  Inv'
<1> USE DEF Inv
<1>0. Shape
  BY DEF TypeOK, Shape
<1>1. TypeOK'
  <2>1. Goes("game", "serves") \/ Goes("game", "closes")
    BY DEF Bind
  <2>2. Shape'
    BY <1>0, <2>1, ThreadFacts DEF Shape, Places, Bind, Goes
  <2>3. broken' \subseteq Threads
    BY ThreadFacts DEF TypeOK, Bind
  <2>4. lease' \in {"none", "open", "closed", "lost"}
    BY DEF Bind
  <2>5. /\ UNCHANGED <<requested, stopper, left, registered, sock, ready>>
        /\ UNCHANGED <<main, failed, primary, signalled>>
    BY DEF Bind, control, outcome
  <2>6. QED
    BY <2>2, <2>3, <2>4, <2>5 DEF Shape, TypeOK
<1>2. SocketsFollow'
  <2>1. at["game"] = "binds" /\ UNCHANGED <<sock>>
    BY DEF Bind, control
  <2>2. at'["login"] = at["login"] /\ at'["game"] \in {"serves", "closes"}
    BY <1>0, ThreadFacts DEF Bind, Goes, Shape
  <2>3. QED
    BY <2>1, <2>2, ThreadFacts DEF SocketsFollow
<1>3. OpenIsRegistered'
  BY <1>0, SocketFacts, ThreadFacts DEF OpenIsRegistered, Shape, Bind, Goes, control,
     outcome, InLoop
<1>4. OpenIsOnTheList'
  <2>1. at["game"] = "binds" /\ UNCHANGED <<requested, left, sock, main>>
    BY DEF Bind, control
  <2>2. at'["login"] = at["login"] /\ at'["game"] \in {"serves", "closes"}
    BY <1>0, ThreadFacts DEF Bind, Goes, Shape
  <2>3. broken' = broken \/ broken' = broken \cup {"game"}
    BY DEF Bind
  <2>4. QED
    BY <2>1, <2>2, <2>3, ThreadFacts DEF OpenIsOnTheList, InLoop
<1>5. StopperIsInside'
  <2>1. at["game"] = "binds" /\ UNCHANGED <<requested, stopper, left>>
    BY DEF Bind, control
  <2>2. at'["login"] = at["login"] /\ at'["game"] \in {"serves", "closes"}
    BY <1>0, ThreadFacts DEF Bind, Goes, Shape
  <2>3. QED
    BY <2>1, <2>2, ThreadFacts DEF StopperIsInside
<1>6. EndIsRequested'
  <2>1. at["game"] = "binds" /\ UNCHANGED <<requested, left, sock, main>>
    BY DEF Bind, control
  <2>2. at'["login"] = at["login"] /\ at'["game"] \in {"serves", "closes"}
    BY <1>0, ThreadFacts DEF Bind, Goes, Shape
  <2>3. broken' = broken \/ broken' = broken \cup {"game"}
    BY DEF Bind
  <2>4. QED
    BY <2>1, <2>2, <2>3, ThreadFacts DEF EndIsRequested
<1>7. LeaseIsHeld'
  <2>1. lease' = "open" => at'["game"] = "serves"
    BY <1>0, ThreadFacts DEF Bind, Goes, Shape
  <2>2. lease' = "lost" => at'["game"] = "closes" /\ "game" \in broken'
    BY <1>0, ThreadFacts DEF Bind, Goes, Shape
  <2>3. QED
    BY <2>1, <2>2 DEF LeaseIsHeld
<1>8. MainHasWaited'
  BY <1>0, SocketFacts, ThreadFacts DEF MainHasWaited, Shape, Bind, Goes, control, outcome
<1>9. QED
  BY <1>1, <1>2, <1>3, <1>4, <1>5, <1>6, <1>7, <1>8

\* A connection that ends is still to be released.
LEMMA LeaveKeeps ==
  ASSUME NEW t \in Threads, Inv, Running, Leave(t)
  PROVE  Inv'
<1> USE DEF Inv
<1>0. Shape
  BY DEF TypeOK, Shape
<1>1. TypeOK'
  <2>1. Shape'
    BY <1>0, SocketFacts, ThreadFacts DEF Shape, Places, States, Leave, Goes, control,
       outcome
  <2>2. QED
    BY <2>1, SocketFacts, ThreadFacts DEF Shape, TypeOK, Leave, control, outcome
<1>2. SocketsFollow'
  BY <1>0, SocketFacts, ThreadFacts DEF SocketsFollow, Shape, Leave, Goes, control, outcome
<1>3. OpenIsRegistered'
  BY <1>0, SocketFacts, ThreadFacts DEF OpenIsRegistered, Shape, Leave, Goes, control,
     outcome, InLoop
<1>4. OpenIsOnTheList'
  BY <1>0, SocketFacts, ThreadFacts DEF OpenIsOnTheList, Shape, Leave, Goes, control,
     outcome, InLoop
<1>5. StopperIsInside'
  BY <1>0, SocketFacts, ThreadFacts DEF StopperIsInside, Shape, Leave, Goes, control,
     outcome
<1>6. EndIsRequested'
  BY <1>0, SocketFacts, ThreadFacts DEF EndIsRequested, Shape, Leave, Goes, control, outcome
<1>7. LeaseIsHeld'
  BY <1>0, SocketFacts, ThreadFacts DEF LeaseIsHeld, Shape, Leave, Goes, control, outcome
<1>8. MainHasWaited'
  BY <1>0, SocketFacts, ThreadFacts DEF MainHasWaited, Shape, Leave, Goes, control, outcome
<1>9. QED
  BY <1>1, <1>2, <1>3, <1>4, <1>5, <1>6, <1>7, <1>8

\* A connection is closed before it is released.
LEMMA CloseConnectionKeeps ==
  ASSUME NEW t \in Threads, Inv, Running, CloseConnection(t)
  PROVE  Inv'
<1> USE DEF Inv
<1>0. Shape
  BY DEF TypeOK, Shape
<1>1. TypeOK'
  <2>1. Shape'
    BY <1>0, SocketFacts, ThreadFacts DEF Shape, Places, States, CloseConnection, Goes,
       control, outcome
  <2>2. QED
    BY <2>1, SocketFacts, ThreadFacts DEF Shape, TypeOK, CloseConnection, control, outcome
<1>2. SocketsFollow'
  BY <1>0, SocketFacts, ThreadFacts DEF SocketsFollow, Shape, CloseConnection, Goes,
     control, outcome
<1>3. OpenIsRegistered'
  BY <1>0, SocketFacts, ThreadFacts DEF OpenIsRegistered, Shape, CloseConnection, Goes,
     control, outcome, InLoop
<1>4. OpenIsOnTheList'
  BY <1>0, SocketFacts, ThreadFacts DEF OpenIsOnTheList, Shape, CloseConnection, Goes,
     control, outcome, InLoop
<1>5. StopperIsInside'
  BY <1>0, SocketFacts, ThreadFacts DEF StopperIsInside, Shape, CloseConnection, Goes,
     control, outcome
<1>6. EndIsRequested'
  BY <1>0, SocketFacts, ThreadFacts DEF EndIsRequested, Shape, CloseConnection, Goes,
     control, outcome
<1>7. LeaseIsHeld'
  BY <1>0, SocketFacts, ThreadFacts DEF LeaseIsHeld, Shape, CloseConnection, Goes,
     control, outcome
<1>8. MainHasWaited'
  BY <1>0, SocketFacts, ThreadFacts DEF MainHasWaited, Shape, CloseConnection, Goes,
     control, outcome
<1>9. QED
  BY <1>1, <1>2, <1>3, <1>4, <1>5, <1>6, <1>7, <1>8

\* A closed connection leaves the list.
LEMMA UnregisterConnectionKeeps ==
  ASSUME NEW t \in Threads, Inv, Running, UnregisterConnection(t)
  PROVE  Inv'
<1> USE DEF Inv
<1>0. Shape
  BY DEF TypeOK, Shape
<1>1. TypeOK'
  <2>1. Shape'
    BY <1>0, SocketFacts, ThreadFacts DEF Shape, Places, States, UnregisterConnection,
       Goes, Unregisters, LockIsFree, NextOf, outcome
  <2>2. QED
    BY <2>1, SocketFacts, ThreadFacts DEF Shape, TypeOK, UnregisterConnection,
       Unregisters, LockIsFree, outcome
<1>2. SocketsFollow'
  BY <1>0, SocketFacts, ThreadFacts DEF SocketsFollow, Shape, UnregisterConnection, Goes,
     Unregisters, LockIsFree, NextOf, outcome
<1>3. OpenIsRegistered'
  BY <1>0, SocketFacts, ThreadFacts DEF OpenIsRegistered, Shape, UnregisterConnection,
     Goes, Unregisters, LockIsFree, NextOf, outcome, InLoop
<1>4. OpenIsOnTheList'
  BY <1>0, SocketFacts, ThreadFacts DEF OpenIsOnTheList, Shape, UnregisterConnection,
     Goes, Unregisters, LockIsFree, NextOf, outcome, InLoop
<1>5. StopperIsInside'
  BY <1>0, SocketFacts, ThreadFacts DEF StopperIsInside, Shape, UnregisterConnection,
     Goes, Unregisters, LockIsFree, NextOf, outcome
<1>6. EndIsRequested'
  BY <1>0, SocketFacts, ThreadFacts DEF EndIsRequested, Shape, UnregisterConnection,
     Goes, Unregisters, LockIsFree, NextOf, outcome
<1>7. LeaseIsHeld'
  BY <1>0, SocketFacts, ThreadFacts DEF LeaseIsHeld, Shape, UnregisterConnection, Goes,
     Unregisters, LockIsFree, NextOf, outcome
<1>8. MainHasWaited'
  BY <1>0, SocketFacts, ThreadFacts DEF MainHasWaited, Shape, UnregisterConnection, Goes,
     Unregisters, LockIsFree, NextOf, outcome
<1>9. QED
  BY <1>1, <1>2, <1>3, <1>4, <1>5, <1>6, <1>7, <1>8

\* A lease is closed, or the failure is on record.
LEMMA ReleaseKeeps ==
  ASSUME Inv, Running, Release
  PROVE  Inv'
<1> USE DEF Inv
<1>0. Shape
  BY DEF TypeOK, Shape
<1>1. TypeOK'
  <2>1. Shape'
    BY <1>0, SocketFacts, ThreadFacts DEF Shape, Places, States, Release, Goes, NextOf,
       Released, control
  <2>2. QED
    BY <2>1, SocketFacts, ThreadFacts DEF Shape, TypeOK, Release, Released, control
<1>2. SocketsFollow'
  <2>1. at["game"] = "releases" /\ UNCHANGED sock
    BY DEF Release
  <2>2. at'["login"] = at["login"] /\ at'["game"] \in {"unwinds", "accepts"}
    BY <1>0, ThreadFacts DEF Shape, Release, Goes, NextOf
  <2>3. QED
    BY <2>1, <2>2, ThreadFacts DEF SocketsFollow
<1>3. OpenIsRegistered'
  BY <1>0, SocketFacts, ThreadFacts DEF OpenIsRegistered, Shape, Release, Goes, NextOf,
     Released, control, InLoop
<1>4. OpenIsOnTheList'
  BY <1>0, SocketFacts, ThreadFacts DEF OpenIsOnTheList, Shape, Release, Goes, NextOf,
     Released, control, InLoop
<1>5. StopperIsInside'
  BY <1>0, SocketFacts, ThreadFacts DEF StopperIsInside, Shape, Release, Goes, NextOf,
     Released, control
<1>6. EndIsRequested'
  BY <1>0, SocketFacts, ThreadFacts DEF EndIsRequested, Shape, Release, Goes, NextOf,
     Released, control
<1>7. LeaseIsHeld'
  BY <1>0, SocketFacts, ThreadFacts DEF LeaseIsHeld, Shape, Release, Goes, NextOf,
     Released, control
<1>8. MainHasWaited'
  BY <1>0, SocketFacts, ThreadFacts DEF MainHasWaited, Shape, Release, Goes, NextOf,
     Released, control
<1>9. QED
  BY <1>1, <1>2, <1>3, <1>4, <1>5, <1>6, <1>7, <1>8

\* A loop ends with its listener closed.
LEMMA UnwindKeeps ==
  ASSUME NEW t \in Threads, Inv, Running, Unwind(t)
  PROVE  Inv'
<1> USE DEF Inv
<1>0. Shape
  BY DEF TypeOK, Shape
<1>1. TypeOK'
  <2>1. Shape'
    BY <1>0, SocketFacts, ThreadFacts DEF Shape, Places, States, Unwind, Goes,
       Unregisters, LockIsFree
  <2>2. QED
    BY <2>1, SocketFacts, ThreadFacts DEF Shape, TypeOK, Unwind, Unregisters, LockIsFree
<1>2. SocketsFollow'
  BY <1>0, SocketFacts, ThreadFacts DEF SocketsFollow, Shape, Unwind, Goes, Unregisters,
     LockIsFree
<1>3. OpenIsRegistered'
  BY <1>0, SocketFacts, ThreadFacts DEF OpenIsRegistered, Shape, Unwind, Goes,
     Unregisters, LockIsFree, InLoop
<1>4. OpenIsOnTheList'
  BY <1>0, SocketFacts, ThreadFacts DEF OpenIsOnTheList, Shape, Unwind, Goes,
     Unregisters, LockIsFree, InLoop
<1>5. StopperIsInside'
  BY <1>0, SocketFacts, ThreadFacts DEF StopperIsInside, Shape, Unwind, Goes,
     Unregisters, LockIsFree
<1>6. EndIsRequested'
  BY <1>0, SocketFacts, ThreadFacts DEF EndIsRequested, Shape, Unwind, Goes, Unregisters,
     LockIsFree
<1>7. LeaseIsHeld'
  BY <1>0, SocketFacts, ThreadFacts DEF LeaseIsHeld, Shape, Unwind, Goes, Unregisters,
     LockIsFree
<1>8. MainHasWaited'
  BY <1>0, SocketFacts, ThreadFacts DEF MainHasWaited, Shape, Unwind, Goes, Unregisters,
     LockIsFree
<1>9. QED
  BY <1>1, <1>2, <1>3, <1>4, <1>5, <1>6, <1>7, <1>8

\* A loop that died makes the request if nobody has.
LEMMA RequestStopKeeps ==
  ASSUME NEW t \in Threads, Inv, Running, RequestStop(t)
  PROVE  Inv'
<1> USE DEF Inv
<1>0. Shape
  BY DEF TypeOK, Shape
<1>1. TypeOK'
  <2>1. Shape'
    BY <1>0, SocketFacts, ThreadFacts DEF Shape, Places, States, RequestStop, Goes,
       Requests, LockIsFree, EventLockIsFree, control, outcome
  <2>2. QED
    BY <2>1, SocketFacts, ThreadFacts DEF Shape, TypeOK, RequestStop, Requests,
       LockIsFree, EventLockIsFree, control, outcome
<1>2. SocketsFollow'
  BY <1>0, SocketFacts, ThreadFacts DEF SocketsFollow, Shape, RequestStop, Goes,
     Requests, LockIsFree, EventLockIsFree, control, outcome
<1>3. OpenIsRegistered'
  BY <1>0, SocketFacts, ThreadFacts DEF OpenIsRegistered, Shape, RequestStop, Goes,
     Requests, LockIsFree, EventLockIsFree, control, outcome, InLoop
<1>4. OpenIsOnTheList'
  <2>1. CASE requested /\ UNCHANGED control /\ Goes(t, "done")
    BY <1>0, <2>1, ThreadFacts DEF RequestStop, Goes, Shape, control, OpenIsOnTheList,
       OpenIsRegistered, InLoop
  <2>2. CASE /\ ~requested /\ requested' = TRUE /\ stopper' = t
             /\ left' = registered /\ Goes(t, "stops")
    BY <1>0, <2>2, ThreadFacts DEF RequestStop, Goes, Shape, OpenIsOnTheList,
       OpenIsRegistered, InLoop
  <2>3. QED
    BY <2>1, <2>2 DEF RequestStop, Requests
<1>5. StopperIsInside'
  BY <1>0, SocketFacts, ThreadFacts DEF StopperIsInside, Shape, RequestStop, Goes,
     Requests, LockIsFree, EventLockIsFree, control, outcome
<1>6. EndIsRequested'
  <2>1. CASE requested /\ UNCHANGED control /\ Goes(t, "done")
    BY <1>0, <2>1, ThreadFacts DEF RequestStop, Goes, Shape, control, EndIsRequested
  <2>2. CASE /\ ~requested /\ requested' = TRUE /\ stopper' = t
             /\ left' = registered /\ Goes(t, "stops")
    BY <1>0, <2>2, ThreadFacts DEF RequestStop, Goes, Shape, EndIsRequested
  <2>3. QED
    BY <2>1, <2>2 DEF RequestStop, Requests
<1>7. LeaseIsHeld'
  BY <1>0, SocketFacts, ThreadFacts DEF LeaseIsHeld, Shape, RequestStop, Goes, Requests,
     LockIsFree, EventLockIsFree, control, outcome
<1>8. MainHasWaited'
  BY <1>0, SocketFacts, ThreadFacts DEF MainHasWaited, Shape, RequestStop, Goes,
     Requests, LockIsFree, EventLockIsFree, control, outcome
<1>9. QED
  BY <1>1, <1>2, <1>3, <1>4, <1>5, <1>6, <1>7, <1>8

\* run_server starts the login thread.
LEMMA StartKeeps ==
  ASSUME Inv, Running, Start
  PROVE  Inv'
<1> USE DEF Inv
<1>0. Shape
  BY DEF TypeOK, Shape
<1>1. TypeOK'
  <2>1. Shape'
    BY <1>0, SocketFacts, ThreadFacts DEF Shape, Places, States, Start, Goes, MainGoes,
       control
  <2>2. QED
    BY <2>1, SocketFacts, ThreadFacts DEF Shape, TypeOK, Start, MainGoes, control,
       Stages, Exits
<1>2. SocketsFollow'
  <2>1. at["login"] = "off" /\ at["game"] = "off"
    BY DEF Start, MainGoes, EndIsRequested
  <2>2. at' = [at EXCEPT !["login"] = "begins"] /\ main' = "polls"
    BY DEF Start, MainGoes, Goes
  <2>3. UNCHANGED <<control, sock, broken>>
    BY DEF Start, MainGoes
  <2>4. QED
    BY <1>0, <2>1, <2>2, <2>3, ThreadFacts DEF Shape, control, SocketsFollow
<1>3. OpenIsRegistered'
  BY <1>0, SocketFacts, ThreadFacts DEF OpenIsRegistered, Shape, Start, Goes, MainGoes,
     control, InLoop
<1>4. OpenIsOnTheList'
  BY <1>0, SocketFacts, ThreadFacts DEF OpenIsOnTheList, Shape, Start, Goes, MainGoes,
     control, InLoop
<1>5. StopperIsInside'
  <2>1. at["login"] = "off" /\ at["game"] = "off"
    BY DEF Start, MainGoes, EndIsRequested
  <2>2. at' = [at EXCEPT !["login"] = "begins"] /\ main' = "polls"
    BY DEF Start, MainGoes, Goes
  <2>3. UNCHANGED <<control, sock, broken>>
    BY DEF Start, MainGoes
  <2>4. QED
    BY <1>0, <2>1, <2>2, <2>3, ThreadFacts DEF Shape, control, StopperIsInside
<1>6. EndIsRequested'
  <2>1. at["login"] = "off" /\ at["game"] = "off"
    BY DEF Start, MainGoes, EndIsRequested
  <2>2. at' = [at EXCEPT !["login"] = "begins"] /\ main' = "polls"
    BY DEF Start, MainGoes, Goes
  <2>3. UNCHANGED <<control, sock, broken>>
    BY DEF Start, MainGoes
  <2>4. QED
    BY <1>0, <2>1, <2>2, <2>3, ThreadFacts DEF Shape, control, EndIsRequested
<1>7. LeaseIsHeld'
  BY <1>0, SocketFacts, ThreadFacts DEF LeaseIsHeld, Shape, Start, Goes, MainGoes, control
<1>8. MainHasWaited'
  BY <1>0, SocketFacts, ThreadFacts DEF MainHasWaited, Shape, Start, Goes, MainGoes, control
<1>9. QED
  BY <1>1, <1>2, <1>3, <1>4, <1>5, <1>6, <1>7, <1>8

\* Waiting changes nothing.
LEMMA PollKeeps ==
  ASSUME Inv, Running, Poll
  PROVE  Inv'
<1> USE DEF Inv
<1>0. Shape
  BY DEF TypeOK, Shape
<1>1. TypeOK'
  <2>1. Shape'
    BY <1>0, SocketFacts, ThreadFacts DEF Shape, Places, States, Poll, MainGoes, control
  <2>2. QED
    BY <2>1, SocketFacts, ThreadFacts DEF Shape, TypeOK, Poll, MainGoes, control, Stages,
       Exits
<1>2. SocketsFollow'
  BY <1>0, SocketFacts, ThreadFacts DEF SocketsFollow, Shape, Poll, MainGoes, control
<1>3. OpenIsRegistered'
  BY <1>0, SocketFacts, ThreadFacts DEF OpenIsRegistered, Shape, Poll, MainGoes, control,
     InLoop
<1>4. OpenIsOnTheList'
  BY <1>0, SocketFacts, ThreadFacts DEF OpenIsOnTheList, Shape, Poll, MainGoes, control,
     InLoop
<1>5. StopperIsInside'
  BY <1>0, SocketFacts, ThreadFacts DEF StopperIsInside, Shape, Poll, MainGoes, control
<1>6. EndIsRequested'
  <2>1. UNCHANGED <<requested, at, broken>>
    BY DEF Poll, MainGoes, control
  <2>2. main # "starts" /\ main' # "starts"
    BY DEF Poll, MainGoes
  <2>3. QED
    BY <2>1, <2>2 DEF EndIsRequested
<1>7. LeaseIsHeld'
  BY <1>0, SocketFacts, ThreadFacts DEF LeaseIsHeld, Shape, Poll, MainGoes, control
<1>8. MainHasWaited'
  BY <1>0, SocketFacts, ThreadFacts DEF MainHasWaited, Shape, Poll, MainGoes, control
<1>9. QED
  BY <1>1, <1>2, <1>3, <1>4, <1>5, <1>6, <1>7, <1>8

\* A join that returns has seen the thread end.
LEMMA JoinKeeps ==
  ASSUME Inv, Running, Join
  PROVE  Inv'
<1> USE DEF Inv
<1>0. Shape
  BY DEF TypeOK, Shape
<1>1. TypeOK'
  <2>1. Shape'
    BY <1>0, SocketFacts, ThreadFacts DEF Shape, Places, States, Join, MainGoes, control,
       Ended
  <2>2. QED
    BY <2>1, SocketFacts, ThreadFacts DEF Shape, TypeOK, Join, MainGoes, control, Ended,
       Stages, Exits
<1>2. SocketsFollow'
  BY <1>0, SocketFacts, ThreadFacts DEF SocketsFollow, Shape, Join, MainGoes, control, Ended
<1>3. OpenIsRegistered'
  BY <1>0, SocketFacts, ThreadFacts DEF OpenIsRegistered, Shape, Join, MainGoes, control,
     Ended, InLoop
<1>4. OpenIsOnTheList'
  BY <1>0, SocketFacts, ThreadFacts DEF OpenIsOnTheList, Shape, Join, MainGoes, control,
     Ended, InLoop
<1>5. StopperIsInside'
  BY <1>0, SocketFacts, ThreadFacts DEF StopperIsInside, Shape, Join, MainGoes, control,
     Ended
<1>6. EndIsRequested'
  <2>1. UNCHANGED <<requested, at, broken>>
    BY DEF Join, MainGoes, control
  <2>2. main # "starts" /\ main' # "starts"
    BY DEF Join, MainGoes
  <2>3. QED
    BY <2>1, <2>2 DEF EndIsRequested
<1>7. LeaseIsHeld'
  BY <1>0, SocketFacts, ThreadFacts DEF LeaseIsHeld, Shape, Join, MainGoes, control, Ended
<1>8. MainHasWaited'
  <2>1. CASE Ended("login") /\ MainGoes("joins", "finishes")
    BY <2>1 DEF Join, Ended, MainGoes, MainHasWaited, EndIsRequested
  <2>2. CASE Ended("game") /\ MainGoes("finishes", "returns")
    BY <2>2 DEF Join, Ended, MainGoes, MainHasWaited, EndIsRequested
  <2>3. QED
    BY <2>1, <2>2 DEF Join
<1>9. QED
  BY <1>1, <1>2, <1>3, <1>4, <1>5, <1>6, <1>7, <1>8

\* A join that times out is a failure.
LEMMA JoinTimesOutKeeps ==
  ASSUME Inv, Running, JoinTimesOut
  PROVE  Inv'
<1> USE DEF Inv
<1>0. Shape
  BY DEF TypeOK, Shape
<1>1. TypeOK'
  <2>1. Shape'
    BY <1>0, SocketFacts, ThreadFacts DEF Shape, Places, States, JoinTimesOut, MainGoes,
       control, Ended
  <2>2. QED
    BY <2>1, SocketFacts, ThreadFacts DEF Shape, TypeOK, JoinTimesOut, MainGoes, control,
       Ended, Stages, Exits
<1>2. SocketsFollow'
  BY <1>0, SocketFacts, ThreadFacts DEF SocketsFollow, Shape, JoinTimesOut, MainGoes,
     control, Ended
<1>3. OpenIsRegistered'
  BY <1>0, SocketFacts, ThreadFacts DEF OpenIsRegistered, Shape, JoinTimesOut, MainGoes,
     control, Ended, InLoop
<1>4. OpenIsOnTheList'
  BY <1>0, SocketFacts, ThreadFacts DEF OpenIsOnTheList, Shape, JoinTimesOut, MainGoes,
     control, Ended, InLoop
<1>5. StopperIsInside'
  BY <1>0, SocketFacts, ThreadFacts DEF StopperIsInside, Shape, JoinTimesOut, MainGoes,
     control, Ended
<1>6. EndIsRequested'
  <2>1. UNCHANGED <<requested, at, broken>>
    BY DEF JoinTimesOut, MainGoes, control
  <2>2. main # "starts" /\ main' # "starts"
    BY DEF JoinTimesOut, MainGoes
  <2>3. QED
    BY <2>1, <2>2 DEF EndIsRequested
<1>7. LeaseIsHeld'
  BY <1>0, SocketFacts, ThreadFacts DEF LeaseIsHeld, Shape, JoinTimesOut, MainGoes,
     control, Ended
<1>8. MainHasWaited'
  BY <1>0, SocketFacts, ThreadFacts DEF MainHasWaited, Shape, JoinTimesOut, MainGoes,
     control, Ended
<1>9. QED
  BY <1>1, <1>2, <1>3, <1>4, <1>5, <1>6, <1>7, <1>8

\* run_server returns zero only without a failure.
LEMMA ReturnKeeps ==
  ASSUME Inv, Running, Return
  PROVE  Inv'
<1> USE DEF Inv
<1>0. Shape
  BY DEF TypeOK, Shape
<1>1. TypeOK'
  <2>1. Shape'
    BY <1>0, SocketFacts, ThreadFacts DEF Shape, Places, States, Return, MainGoes, control
  <2>2. QED
    BY <2>1, SocketFacts, ThreadFacts DEF Shape, TypeOK, Return, MainGoes, control,
       Stages, Exits
<1>2. SocketsFollow'
  BY <1>0, SocketFacts, ThreadFacts DEF SocketsFollow, Shape, Return, MainGoes, control
<1>3. OpenIsRegistered'
  BY <1>0, SocketFacts, ThreadFacts DEF OpenIsRegistered, Shape, Return, MainGoes,
     control, InLoop
<1>4. OpenIsOnTheList'
  BY <1>0, SocketFacts, ThreadFacts DEF OpenIsOnTheList, Shape, Return, MainGoes,
     control, InLoop
<1>5. StopperIsInside'
  BY <1>0, SocketFacts, ThreadFacts DEF StopperIsInside, Shape, Return, MainGoes, control
<1>6. EndIsRequested'
  BY <1>0, SocketFacts, ThreadFacts DEF EndIsRequested, Shape, Return, MainGoes, control
<1>7. LeaseIsHeld'
  BY <1>0, SocketFacts, ThreadFacts DEF LeaseIsHeld, Shape, Return, MainGoes, control
<1>8. MainHasWaited'
  BY <1>0, SocketFacts, ThreadFacts DEF MainHasWaited, Shape, Return, MainGoes, control
<1>9. QED
  BY <1>1, <1>2, <1>3, <1>4, <1>5, <1>6, <1>7, <1>8

\* A handler makes the request, or is stuck.
LEMMA SignalKeeps ==
  ASSUME Inv, Running, Signal
  PROVE  Inv'
<1> USE DEF Inv
<1>0. Shape
  BY DEF TypeOK, Shape
<1>1. TypeOK'
  <2>1. Shape'
    BY <1>0, SocketFacts, ThreadFacts DEF Shape, Places, States, Signal, Requests,
       LockIsFree, EventLockIsFree, control, threads
  <2>2. QED
    BY <2>1, SocketFacts, ThreadFacts DEF Shape, TypeOK, Signal, Requests, LockIsFree,
       EventLockIsFree, control, threads, Stages, Exits
<1>2. SocketsFollow'
  BY <1>0, SocketFacts, ThreadFacts DEF SocketsFollow, Shape, Signal, Requests,
     LockIsFree, EventLockIsFree, control, threads
<1>3. OpenIsRegistered'
  BY <1>0, SocketFacts, ThreadFacts DEF OpenIsRegistered, Shape, Signal, Requests,
     LockIsFree, EventLockIsFree, control, threads, InLoop
<1>4. OpenIsOnTheList'
  <2>1. CASE UNCHANGED control
    BY <2>1 DEF Signal, threads, control, OpenIsOnTheList
  <2>2. CASE ~requested /\ requested' = TRUE /\ left' = registered
    BY <2>2 DEF Signal, threads, OpenIsOnTheList, OpenIsRegistered, InLoop
  <2>3. QED
    BY <2>1, <2>2 DEF Signal, Requests
<1>5. StopperIsInside'
  BY <1>0, SocketFacts, ThreadFacts DEF StopperIsInside, Shape, Signal, Requests,
     LockIsFree, EventLockIsFree, control, threads
<1>6. EndIsRequested'
  BY <1>0, SocketFacts, ThreadFacts DEF EndIsRequested, Shape, Signal, Requests,
     LockIsFree, EventLockIsFree, control, threads
<1>7. LeaseIsHeld'
  BY <1>0, SocketFacts, ThreadFacts DEF LeaseIsHeld, Shape, Signal, Requests, LockIsFree,
     EventLockIsFree, control, threads
<1>8. MainHasWaited'
  BY <1>0, SocketFacts, ThreadFacts DEF MainHasWaited, Shape, Signal, Requests,
     LockIsFree, EventLockIsFree, control, threads
<1>9. QED
  BY <1>1, <1>2, <1>3, <1>4, <1>5, <1>6, <1>7, <1>8

\* Every step of the server keeps the invariant.
LEMMA NextInv == Inv /\ [Next]_vars => Inv'
<1> SUFFICES ASSUME Inv, [Next]_vars
             PROVE  Inv'
  OBVIOUS
<1>1. CASE Running /\ Stopping
  BY <1>1, StopListenerKeeps, StopAcceptedKeeps, StopReturnsKeeps DEF Stopping
<1>2. ASSUME Running, NEW t \in Threads, Serving(t) \/ Breaks(t) \/ Accept(t) \/ Leave(t)
      PROVE  Inv'
  <2>1. CASE Listen(t) \/ StopOwnListener(t) \/ AcceptEnds(t) \/ RegisterAccepted(t)
             \/ StopOwnConnection(t)
    BY <1>2, <2>1, ListenKeeps, StopOwnListenerKeeps, AcceptEndsKeeps,
       RegisterAcceptedKeeps, StopOwnConnectionKeeps
  <2>2. CASE CloseConnection(t) \/ UnregisterConnection(t) \/ Unwind(t) \/ RequestStop(t)
    BY <1>2, <2>2, CloseConnectionKeeps, UnregisterConnectionKeeps, UnwindKeeps,
       RequestStopKeeps
  <2>3. CASE StartGame \/ WaitReady \/ SetUp \/ Bind \/ Release
    BY <1>2, <2>3, StartGameKeeps, WaitReadyKeeps, SetUpKeeps, BindKeeps, ReleaseKeeps
  <2>4. CASE Breaks(t) \/ Accept(t) \/ Leave(t)
    BY <1>2, <2>4, BreaksKeeps, AcceptKeeps, LeaveKeeps
  <2>5. QED
    BY <1>2, <2>1, <2>2, <2>3, <2>4 DEF Serving
<1>3. CASE Running /\ (Main \/ JoinTimesOut \/ Signal)
  BY <1>3, StartKeeps, PollKeeps, JoinKeeps, ReturnKeeps, JoinTimesOutKeeps, SignalKeeps
     DEF Main
<1>4. CASE UNCHANGED vars
  <2>1. /\ UNCHANGED <<requested, stopper, left, registered, sock, at, broken>>
        /\ UNCHANGED <<ready, lease, main, failed, primary, signalled>>
    BY <1>4 DEF vars, control, threads, outcome
  <2>2. TypeOK'
    BY <2>1 DEF Inv, TypeOK
  <2>3. SocketsFollow' /\ OpenIsRegistered' /\ OpenIsOnTheList' /\ StopperIsInside'
    BY <2>1 DEF Inv, SocketsFollow, OpenIsRegistered, OpenIsOnTheList, StopperIsInside
  <2>4. EndIsRequested' /\ LeaseIsHeld' /\ MainHasWaited'
    BY <2>1 DEF Inv, EndIsRequested, LeaseIsHeld, MainHasWaited
  <2>5. QED
    BY <2>2, <2>3, <2>4 DEF Inv
<1>5. QED
  BY <1>1, <1>2, <1>3, <1>4 DEF Next

\* The invariant holds in every behaviour.
THEOREM Invariance == Spec => []Inv
  BY InitInv, NextInv, PTL DEF Spec

-----------------------------------------------------------------------------
(* What the invariant says of the server. *)

\* The variables of the server keep their types.
THEOREM TypeCorrect == Spec => []TypeOK
<1>1. Inv => TypeOK
  BY DEF Inv
<1>2. QED
  BY <1>1, Invariance, PTL

\* run_server returns zero only when both accept loops have ended, every socket is
\* closed and no lease of a connection is open.
THEOREM ZeroMeansClean == Spec => []CleanExitIsClean
<1>1. Inv => CleanExitIsClean
  <2> SUFFICES ASSUME Inv, main = "zero"
               PROVE  CleanExitIsClean
    BY DEF CleanExitIsClean
  <2>1. at["login"] = "done" /\ at["game"] = "done" /\ ~failed
    BY DEF Inv, MainHasWaited
  <2>2. \A t \in Threads : at[t] = "done"
    BY <2>1, ThreadFacts
  <2>3. requested
    BY <2>1, ThreadFacts DEF Inv, EndIsRequested
  <2>4. \A s \in Sockets : sock[s] \in {"none", "closed"}
    BY <2>2, SocketFacts DEF Inv, SocketsFollow
  <2>5. lease \notin {"open", "lost"}
    BY <2>1 DEF Inv, LeaseIsHeld
  <2>6. QED
    BY <2>2, <2>3, <2>4, <2>5 DEF CleanExitIsClean
<1>2. QED
  BY <1>1, Invariance, PTL

\* When request_stop has returned no accept loop listens on and no connection is
\* served on, whenever their sockets were registered.
THEOREM StopReachesEverything == Spec => []NothingServesOn
<1>1. Inv => NothingServesOn
  BY DEF Inv, NothingServesOn, StopperIsInside, OpenIsOnTheList, InLoop
<1>2. QED
  BY <1>1, Invariance, PTL

\* The GAME thread goes on, and ends, only with the last lease closed or its failure
\* on record.
THEOREM NoLeaseIsLeftBehind == Spec => []LeaseIsGivenBack
<1>1. Inv => LeaseIsGivenBack
  BY DEF Inv, LeaseIsGivenBack, LeaseIsHeld
<1>2. QED
  BY <1>1, Invariance, PTL

-----------------------------------------------------------------------------
(* A stop settles *)

\* The calls between this one and the end of its loop, after the request: then no
\* connection is accepted, so what comes after "releases" is the last "accepts".
PlaceLeft(place) ==
    CASE place = "off" -> 17
      [] place = "begins" -> 16
      [] place = "waits" -> 15
      [] place = "listens" -> 14
      [] place = "stops listener" -> 13
      [] place = "sets up" -> 12
      [] place = "accepted" -> 11
      [] place = "stops connection" -> 10
      [] place = "binds" -> 9
      [] place = "serves" -> 8
      [] place = "closes" -> 7
      [] place = "unregisters" -> 6
      [] place = "releases" -> 5
      [] place = "accepts" -> 4
      [] place = "unwinds" -> 3
      [] place = "requests" -> 2
      [] place = "stops" -> 1
      [] OTHER -> 0

\* And those of the main thread, which polls no more than once.
StageLeft(stage) ==
    CASE stage = "starts" -> 8
      [] stage \in {"enters", "sleeps"} -> 7
      [] stage = "leaves" -> 6
      [] stage = "polls" -> 5
      [] stage = "joins" -> 4
      [] stage = "finishes" -> 3
      [] stage = "returns" -> 2
      [] stage = "stuck" -> 1
      [] OTHER -> 0

\* A signal that comes after the request is noted once.
SignalLeft == IF signalled THEN 0 ELSE 1

StepsLeft == PlaceLeft(at["login"]) + PlaceLeft(at["game"]) + StageLeft(main) + SignalLeft

\* The safety half of StopIsBounded.  A request is not taken back; whatever registers
\* while request_stop works, its list only gets shorter, with each of its own calls;
\* and once it has returned every step leaves less to do, be it of a thread, of a
\* client, of a join that times out or of one more signal.
StopSettles ==
    [][requested =>
         /\ requested'
         /\ stopper # "nobody" =>
              /\ left' \subseteq left
              /\ Stopping => left' # left \/ stopper' = "nobody"
         /\ stopper = "nobody" => stopper' = "nobody" /\ StepsLeft' < StepsLeft]_vars

\* What is left is a number, in every state.
LEMMA PlacesAreRanked ==
  /\ \A place \in Places : PlaceLeft(place) \in 0..17
  /\ \A stage \in Exits \cup Stages : StageLeft(stage) \in 0..8
<1>1. \A place : PlaceLeft(place) \in 0..17
  BY DEF PlaceLeft
<1>2. \A stage : StageLeft(stage) \in 0..8
  BY DEF StageLeft
<1>3. QED
  BY <1>1, <1>2

LEMMA StepsAreNumbers ==
  TypeOK => /\ PlaceLeft(at["login"]) \in Nat /\ PlaceLeft(at["game"]) \in Nat
            /\ StageLeft(main) \in Nat /\ SignalLeft \in 0..1
            /\ StepsLeft \in 0..43
<1> SUFFICES ASSUME TypeOK
             PROVE  /\ PlaceLeft(at["login"]) \in Nat /\ PlaceLeft(at["game"]) \in Nat
                    /\ StageLeft(main) \in Nat /\ SignalLeft \in 0..1
                    /\ StepsLeft \in 0..43
  OBVIOUS
<1>1. /\ PlaceLeft(at["login"]) \in 0..17 /\ PlaceLeft(at["game"]) \in 0..17
      /\ StageLeft(main) \in 0..8
  BY PlacesAreRanked, ThreadFacts DEF TypeOK
<1>2. SignalLeft \in 0..1
  BY DEF SignalLeft
<1>3. QED
  BY <1>1, <1>2 DEF StepsLeft

\* A thread that goes on.
LEMMA ThreadIsNearer ==
  ASSUME TypeOK, TypeOK', NEW t \in Threads,
         PlaceLeft(at'[t]) < PlaceLeft(at[t]), \A u \in Threads \ {t} : at'[u] = at[u],
         main' = main, signalled' = signalled
  PROVE  StepsLeft' < StepsLeft
<1> DEFINE place == at'[t]
<1>1. place \in Places
  BY DEF TypeOK
<1>2. StageLeft(main)' = StageLeft(main) /\ SignalLeft' = SignalLeft
  BY DEF SignalLeft
<1>3. /\ PlaceLeft(at["login"]) \in Nat /\ PlaceLeft(at["game"]) \in Nat
      /\ StageLeft(main) \in Nat /\ SignalLeft \in Nat
      /\ PlaceLeft(place) \in Nat
  BY <1>1, StepsAreNumbers, PlacesAreRanked
<1>4. \A a, b, c, d, e \in Nat : e < a => e + b + c + d < a + b + c + d
                                          /\ b + e + c + d < b + a + c + d
  OBVIOUS
<1>5. CASE t = "login"
  <2>1. PlaceLeft(at["login"])' = PlaceLeft(place) /\ PlaceLeft(at["game"])' = PlaceLeft(at["game"])
    BY <1>1, <1>5, ThreadFacts
  <2>2. QED
    BY <1>2, <1>3, <1>4, <1>5, <2>1 DEF StepsLeft
<1>6. CASE t = "game"
  <2>1. PlaceLeft(at["game"])' = PlaceLeft(place) /\ PlaceLeft(at["login"])' = PlaceLeft(at["login"])
    BY <1>1, <1>6, ThreadFacts
  <2>2. QED
    BY <1>2, <1>3, <1>4, <1>6, <2>1 DEF StepsLeft
<1>7. QED
  BY <1>5, <1>6, ThreadFacts

\* The main thread that goes on.
LEMMA MainIsNearer ==
  ASSUME TypeOK, TypeOK', at' = at, StageLeft(main') < StageLeft(main), signalled' = signalled
  PROVE  StepsLeft' < StepsLeft
<1>1. /\ PlaceLeft(at["login"])' = PlaceLeft(at["login"])
      /\ PlaceLeft(at["game"])' = PlaceLeft(at["game"])
      /\ SignalLeft' = SignalLeft /\ StageLeft(main)' = StageLeft(main')
  BY DEF SignalLeft
<1>2. /\ PlaceLeft(at["login"]) \in Nat /\ PlaceLeft(at["game"]) \in Nat
      /\ StageLeft(main) \in Nat /\ SignalLeft \in Nat /\ StageLeft(main') \in Nat
  BY StepsAreNumbers, PlacesAreRanked DEF TypeOK
<1>3. \A a, b, c, d, e \in Nat : e < c => a + b + e + d < a + b + c + d
  OBVIOUS
<1>4. QED
  BY <1>1, <1>2, <1>3 DEF StepsLeft

\* Where a thread may be is a place.
LEMMA AllPlaces ==
  /\ {"off", "begins", "waits", "listens", "stops listener", "sets up", "accepts"} \subseteq Places
  /\ {"accepted", "stops connection", "binds", "serves", "closes", "unregisters"} \subseteq Places
  /\ {"releases", "unwinds", "requests", "stops", "done"} \subseteq Places
  BY DEF Places

\* The numbers one by one.
LEMMA Ranks ==
  /\ PlaceLeft("off") = 17 /\ PlaceLeft("begins") = 16 /\ PlaceLeft("waits") = 15
  /\ PlaceLeft("listens") = 14 /\ PlaceLeft("stops listener") = 13
  /\ PlaceLeft("sets up") = 12 /\ PlaceLeft("accepted") = 11
  /\ PlaceLeft("stops connection") = 10 /\ PlaceLeft("binds") = 9
  /\ PlaceLeft("serves") = 8 /\ PlaceLeft("closes") = 7
  /\ PlaceLeft("unregisters") = 6 /\ PlaceLeft("releases") = 5
  /\ PlaceLeft("accepts") = 4 /\ PlaceLeft("unwinds") = 3
  /\ PlaceLeft("requests") = 2 /\ PlaceLeft("stops") = 1 /\ PlaceLeft("done") = 0
  BY DEF PlaceLeft

\* Where a thread goes from a place, after the request.
Onward(from, to) ==
    \/ from = "waits" /\ to \in {"listens", "unwinds"}
    \/ from = "listens" /\ to \in {"stops listener", "unwinds"}
    \/ from = "stops listener" /\ to \in {"sets up", "accepts"}
    \/ from = "sets up" /\ to \in {"accepts", "unwinds"}
    \/ from = "accepts" /\ to = "unwinds"
    \/ from = "accepted" /\ to = "stops connection"
    \/ from = "stops connection" /\ to \in {"binds", "serves"}
    \/ from = "binds" /\ to \in {"serves", "closes"}
    \/ from = "serves" /\ to = "closes"
    \/ from = "closes" /\ to = "unregisters"
    \/ from = "unregisters" /\ to \in {"releases", "accepts", "unwinds"}
    \/ from = "releases" /\ to \in {"accepts", "unwinds"}
    \/ from = "unwinds" /\ to \in {"requests", "done"}
    \/ from = "requests" /\ to = "done"

LEMMA OnwardIsNearer == \A from, to : Onward(from, to) => PlaceLeft(to) < PlaceLeft(from)
<1> SUFFICES ASSUME NEW from, NEW to, Onward(from, to)
             PROVE  PlaceLeft(to) < PlaceLeft(from)
  OBVIOUS
<1>1. CASE from \in {"waits", "listens", "stops listener", "sets up"}
  <2>1. 14 < 15 /\ 3 < 15 /\ 13 < 14 /\ 3 < 14 /\ 12 < 13 /\ 4 < 13 /\ 4 < 12 /\ 3 < 12
    OBVIOUS
  <2>2. \/ from = "waits" /\ to \in {"listens", "unwinds"}
        \/ from = "listens" /\ to \in {"stops listener", "unwinds"}
        \/ from = "stops listener" /\ to \in {"sets up", "accepts"}
        \/ from = "sets up" /\ to \in {"accepts", "unwinds"}
    BY <1>1 DEF Onward
  <2>3. QED
    BY <2>1, <2>2, Ranks, Zenon
<1>2. CASE from \in {"accepts", "accepted", "stops connection", "binds"}
  <2>1. 3 < 4 /\ 10 < 11 /\ 9 < 10 /\ 8 < 10 /\ 8 < 9 /\ 7 < 9
    OBVIOUS
  <2>2. \/ from = "accepts" /\ to = "unwinds"
        \/ from = "accepted" /\ to = "stops connection"
        \/ from = "stops connection" /\ to \in {"binds", "serves"}
        \/ from = "binds" /\ to \in {"serves", "closes"}
    BY <1>2 DEF Onward
  <2>3. QED
    BY <2>1, <2>2, Ranks, Zenon
<1>3. CASE from \in {"serves", "closes", "unregisters", "releases"}
  <2>1. 7 < 8 /\ 6 < 7 /\ 5 < 6 /\ 4 < 6 /\ 3 < 6 /\ 4 < 5 /\ 3 < 5
    OBVIOUS
  <2>2. \/ from = "serves" /\ to = "closes"
        \/ from = "closes" /\ to = "unregisters"
        \/ from = "unregisters" /\ to \in {"releases", "accepts", "unwinds"}
        \/ from = "releases" /\ to \in {"accepts", "unwinds"}
    BY <1>3 DEF Onward
  <2>3. QED
    BY <2>1, <2>2, Ranks, Zenon
<1>4. CASE from = "unwinds"
  <2>1. 2 < 3 /\ 0 < 3
    OBVIOUS
  <2>2. to \in {"requests", "done"}
    BY <1>4 DEF Onward
  <2>3. QED
    BY <1>4, <2>1, <2>2, Ranks, Zenon
<1>5. CASE from = "requests"
  <2>1. 0 < 2
    OBVIOUS
  <2>2. to = "done"
    BY <1>5 DEF Onward
  <2>3. QED
    BY <1>5, <2>1, <2>2, Ranks, Zenon
<1>6. QED
  BY <1>1, <1>2, <1>3, <1>4, <1>5 DEF Onward

\* The way of a thread through its loop, after the request.
LEMMA LoopIsNearer ==
  ASSUME Inv, TypeOK', requested, NEW t \in Threads,
         Serving(t) \/ Breaks(t) \/ Leave(t), ~(t = "login" /\ StartGame)
  PROVE  StepsLeft' < StepsLeft
<1>1. TypeOK /\ main' = main /\ signalled' = signalled
  BY DEF Inv, Serving, Breaks, Leave, Listen, StopOwnListener, AcceptEnds, RegisterAccepted,
         StopOwnConnection, CloseConnection, UnregisterConnection, Unwind, RequestStop,
         WaitReady, SetUp, Bind, Release, outcome
<1>2. \A place : Goes(t, place) => at'[t] = place /\ \A u \in Threads \ {t} : at'[u] = at[u]
  BY <1>1 DEF Goes, TypeOK
<1>3. Onward(at[t], at'[t]) /\ \A u \in Threads \ {t} : at'[u] = at[u]
  <2>1. CASE Listen(t) \/ StopOwnListener(t)
    BY <1>2, <2>1 DEF Onward, Listen, StopOwnListener, ComesTooLate, AfterListen
  <2>2. CASE AcceptEnds(t) \/ RegisterAccepted(t)
    BY <1>2, <2>2 DEF Onward, AcceptEnds, RegisterAccepted, ComesTooLate
  <2>3. CASE StopOwnConnection(t)
    BY <1>2, <2>3 DEF Onward, StopOwnConnection, AfterAccept
  <2>4. CASE CloseConnection(t) \/ Leave(t)
    BY <1>2, <2>4 DEF Onward, CloseConnection, Leave
  <2>5. CASE UnregisterConnection(t)
    BY <1>2, <2>5 DEF Onward, UnregisterConnection, NextOf
  <2>6. CASE Unwind(t)
    BY <1>2, <2>6 DEF Onward, Unwind
  <2>7. CASE RequestStop(t)
    BY <1>2, <2>7 DEF Onward, RequestStop
  <2>8. CASE t = "login" /\ WaitReady
    BY <1>2, <2>8 DEF Onward, WaitReady
  <2>9. CASE t = "game" /\ SetUp
    BY <1>2, <2>9 DEF Onward, SetUp
  <2>10. CASE t = "game" /\ Bind
    BY <1>2, <2>10 DEF Onward, Bind
  <2>11. CASE t = "game" /\ Release
    BY <1>2, <2>11 DEF Onward, Release, NextOf
  <2>12. CASE Breaks(t)
    BY <1>2, <2>12 DEF Onward, Breaks
  <2>13. QED
    BY <2>1, <2>2, <2>3, <2>4, <2>5, <2>6, <2>7, <2>8, <2>9, <2>10, <2>11, <2>12
       DEF Serving
<1>4. QED
  BY <1>1, <1>3, OnwardIsNearer, ThreadIsNearer

\* The two steps that bring two threads on: of main of v141, and of run_server.
LEMMA StartsAreNearer ==
  ASSUME Inv, TypeOK', StartGame \/ Start
  PROVE  StepsLeft' < StepsLeft
<1>1. TypeOK /\ TypeOK'
  BY DEF Inv
<1>2. /\ PlaceLeft(at["login"]) \in Nat /\ PlaceLeft(at["game"]) \in Nat
      /\ StageLeft(main) \in Nat /\ SignalLeft \in Nat
  BY <1>1, StepsAreNumbers
<1>3. signalled' = signalled /\ SignalLeft' = SignalLeft
  BY DEF StartGame, Start, MainGoes, outcome, SignalLeft
<1>4. CASE StartGame
  <2>1. /\ at["login"] = "begins" /\ at["game"] = "off"
        /\ at'["login"] = "waits" /\ at'["game"] = "listens" /\ main' = main
    BY <1>1, <1>4, ThreadFacts DEF StartGame, Inv, EndIsRequested, TypeOK
  <2>2. /\ PlaceLeft(at["login"]) = 16 /\ PlaceLeft(at["game"]) = 17
        /\ PlaceLeft(at["login"])' = 15 /\ PlaceLeft(at["game"])' = 14
        /\ StageLeft(main)' = StageLeft(main)
    BY <2>1 DEF PlaceLeft
  <2>3. QED
    BY <1>2, <1>3, <2>2 DEF StepsLeft
<1>5. CASE Start
  <2>1. /\ main = "starts" /\ main' = "polls" /\ at["login"] = "off"
        /\ at'["login"] = "begins" /\ at'["game"] = at["game"]
    BY <1>1, <1>5, ThreadFacts DEF Start, MainGoes, Goes, Inv, EndIsRequested, TypeOK
  <2>2. /\ PlaceLeft(at["login"]) = 17 /\ PlaceLeft(at["login"])' = 16
        /\ PlaceLeft(at["game"])' = PlaceLeft(at["game"])
        /\ StageLeft(main) = 8 /\ StageLeft(main)' = 5
    BY <2>1 DEF PlaceLeft, StageLeft
  <2>3. QED
    BY <1>2, <1>3, <2>2 DEF StepsLeft
<1>6. QED
  BY <1>4, <1>5

\* The main thread polls at most once more, joins and returns.
LEMMA RunServerIsNearer ==
  ASSUME Inv, TypeOK', requested, Poll \/ Join \/ JoinTimesOut \/ Return
  PROVE  StepsLeft' < StepsLeft
<1>1. TypeOK /\ at' = at /\ signalled' = signalled
  BY DEF Inv, Poll, Join, JoinTimesOut, Return, MainGoes
<1>2. StageLeft(main') < StageLeft(main)
  <2>1. CASE Poll
    BY <2>1 DEF Poll, MainGoes, StageLeft
  <2>2. CASE Join \/ JoinTimesOut
    BY <2>2 DEF Join, JoinTimesOut, MainGoes, StageLeft
  <2>3. CASE Return
    BY <2>3 DEF Return, MainGoes, StageLeft
  <2>4. QED
    BY <2>1, <2>2, <2>3
<1>3. QED
  BY <1>1, <1>2, MainIsNearer

\* A signal after the request is noted, and no more.
LEMMA SignalIsNearer ==
  ASSUME Inv, TypeOK', requested, Signal, vars' # vars
  PROVE  StepsLeft' < StepsLeft
<1>1. /\ UNCHANGED control /\ main' = main /\ signalled' = TRUE
      /\ UNCHANGED <<sock, threads, failed, primary>>
  BY DEF Signal, Requests, control
<1>2. signalled = FALSE /\ at' = at
  BY <1>1 DEF vars, outcome, threads, Inv, TypeOK
<1>3. SignalLeft = 1 /\ SignalLeft' = 0
  BY <1>1, <1>2 DEF SignalLeft
<1>4. /\ PlaceLeft(at["login"]) \in Nat /\ PlaceLeft(at["game"]) \in Nat
      /\ StageLeft(main) \in Nat
  BY StepsAreNumbers DEF Inv
<1>5. /\ PlaceLeft(at["login"])' = PlaceLeft(at["login"])
      /\ PlaceLeft(at["game"])' = PlaceLeft(at["game"])
      /\ StageLeft(main)' = StageLeft(main)
  BY <1>1, <1>2
<1>6. QED
  BY <1>3, <1>4, <1>5 DEF StepsLeft

\* The controller after a request: nothing takes it back, nobody makes another one,
\* and the list only gets shorter.
LEMMA ControlSettles ==
  ASSUME Inv, requested, [Next]_vars
  PROVE  /\ requested'
         /\ stopper = "nobody" => stopper' = "nobody"
         /\ stopper # "nobody" => left' \subseteq left
<1>1. CASE UNCHANGED vars
  BY <1>1 DEF vars, control
<1>2. CASE Stopping
  BY <1>2 DEF Stopping, StopListener, StopAccepted, StopReturns, Unregisters, Inv,
              StopperIsInside
<1>3. ASSUME NEW t \in Threads, Serving(t) \/ Breaks(t) \/ Accept(t) \/ Leave(t)
      PROVE  requested' /\ stopper' = stopper /\ left' \subseteq left
  BY <1>3 DEF Serving, Breaks, Accept, Leave, Listen, StopOwnListener, AcceptEnds, RegisterAccepted,
         StopOwnConnection, CloseConnection, UnregisterConnection, Unwind, RequestStop,
         StartGame, WaitReady, SetUp, Bind, Release, Registers, Unregisters, Requests, control
<1>4. CASE Main \/ JoinTimesOut \/ Signal
  BY <1>4 DEF Main, Start, Poll, Join, Return, JoinTimesOut, MainGoes, Signal, Requests, control
<1>5. QED
  BY <1>1, <1>2, <1>3, <1>4 DEF Next

\* Each call of request_stop takes a socket off its list, or is the last.
LEMMA StoppingSettles ==
  ASSUME Inv, Stopping
  PROVE  left' # left \/ stopper' = "nobody"
  BY DEF Stopping, StopListener, StopAccepted, StopReturns, Unregisters

\* A stop that has been requested comes to its end in a bounded number of steps: of
\* request_stop as many as sockets were registered and one, then no more than 43 of
\* all threads together.
THEOREM StopsSettle == Spec => StopSettles
<1>1. Inv /\ Inv' /\ [Next]_vars =>
        [requested =>
           /\ requested'
           /\ stopper # "nobody" =>
                /\ left' \subseteq left
                /\ Stopping => left' # left \/ stopper' = "nobody"
           /\ stopper = "nobody" => stopper' = "nobody" /\ StepsLeft' < StepsLeft]_vars
  <2> SUFFICES ASSUME Inv, Inv', [Next]_vars, vars' # vars, requested
               PROVE  /\ requested'
                      /\ stopper # "nobody" =>
                           /\ left' \subseteq left
                           /\ Stopping => left' # left \/ stopper' = "nobody"
                      /\ stopper = "nobody" => stopper' = "nobody" /\ StepsLeft' < StepsLeft
    OBVIOUS
  <2>1. ASSUME stopper = "nobody" PROVE StepsLeft' < StepsLeft
    <3>1. TypeOK'
      BY DEF Inv
    <3>2. ASSUME NEW t \in Threads PROVE ~Accept(t)
      BY <2>1 DEF Accept, Inv, StopperIsInside, OpenIsOnTheList, InLoop
    <3>3. ~Stopping
      BY <2>1, ThreadFacts DEF Stopping, StopListener, StopAccepted, StopReturns
    <3>4. CASE \E t \in Threads : Serving(t) \/ Breaks(t) \/ Leave(t)
      BY <2>1, <3>1, <3>4, LoopIsNearer, StartsAreNearer
    <3>5. CASE Main \/ JoinTimesOut \/ Signal
      BY <3>1, <3>5, StartsAreNearer, RunServerIsNearer, SignalIsNearer DEF Main
    <3>6. QED
      BY <3>2, <3>3, <3>4, <3>5 DEF Next
  <2>2. QED
    BY <2>1, ControlSettles, StoppingSettles
<1>2. QED
  BY <1>1, Invariance, PTL DEF Spec, StopSettles

\* The bound of what is left.
THEOREM StopsAreShort == Spec => [](StepsLeft \in 0..43)
<1>1. TypeOK => StepsLeft \in 0..43
  BY StepsAreNumbers
<1>2. QED
  BY <1>1, TypeCorrect, PTL
=============================================================================
