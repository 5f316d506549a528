--------------------------- MODULE ServerShutdown ---------------------------
(***************************************************************************)
(* How the server stops: shutdown.ServerShutdownController with the        *)
(* sockets and the GAME thread it manages, run_server on the main thread,  *)
(* the two accept loops of v141 it runs, and the release of a GAME         *)
(* connection (connection.GameConnectionBindings) that closes the lease.   *)
(*                                                                         *)
(* A thread is at the call that is next.  request_stop takes what is       *)
(* registered under the lock and stops it without, one socket a step; only *)
(* the first request does.  On the build's platform closing a listener     *)
(* wakes an accept; shutdown of a connection wakes recv.  A join may time  *)
(* out whenever it waits.  A signal handler runs on the main thread        *)
(* between any two of its steps, and threading.Event keeps a lock of its   *)
(* own that is not reentrant: wait_for_stop holds it except while it       *)
(* sleeps, and set takes it.                                               *)
(*                                                                         *)
(* Left out: a second signal inside the handler, the setting and restoring *)
(* of the handlers and failures in it, and what clients ask for.           *)
(* An operator named Slip... is a wrong form of the definition after it.   *)
(***************************************************************************)

Threads == {"login", "game"}  \* FoundationServerMain and the GAME thread
Sockets == Threads \X {"listener", "connection"}
Listener(t) == <<t, "listener">>
Connection(t) == <<t, "connection">>
Exits == {"zero", "one", "raises"}

\* The calls of an accept loop, and of request_stop if it dies.
Places == {"off", "begins", "waits", "listens", "stops listener", "sets up", "accepts",
           "accepted", "stops connection", "binds", "serves", "closes", "unregisters",
           "releases", "unwinds", "requests", "stops", "done"}
States == {"none", "open", "shut", "closed"}  \* of a socket
\* Where the main thread is in run_server.
Stages == {"starts", "polls", "enters", "sleeps", "leaves",
           "joins", "finishes", "returns", "stuck"}

VARIABLES
    requested,  \* ServerShutdownController._requested
    stopper,    \* who is inside request_stop, past its lock
    left,       \* the sockets it has still to stop
    registered, \* _listeners and _accepted
    sock,       \* per socket its state in the system
    at,         \* per thread the call that is next
    broken,     \* the threads that unwind with an exception
    ready,      \* the event main of v141 waits for
    lease,      \* of the GAME connection; lost: left open and nobody's to close
    main,       \* where run_server is, and in the end how it returns
    failed,     \* _failures is not empty
    primary,    \* worker_primaries is not empty
    signalled   \* history: a handler was entered

control == <<requested, stopper, left, registered>>
threads == <<at, broken, ready, lease>>
outcome == <<failed, primary, signalled>>
vars == <<control, sock, threads, main, outcome>>

Running == main \notin Exits

(***************************************************************************)
(* Properties                                                              *)
(***************************************************************************)

TypeOK ==
    /\ requested \in BOOLEAN
    /\ stopper \in Threads \cup {"main", "nobody"}
    /\ left \subseteq Sockets
    /\ registered \subseteq Sockets
    /\ sock \in [Sockets -> States]
    /\ at \in [Threads -> Places]
    /\ broken \subseteq Threads
    /\ ready \in BOOLEAN
    /\ lease \in {"none", "open", "closed", "lost"}
    /\ main \in Exits \cup Stages
    /\ failed \in BOOLEAN /\ primary \in BOOLEAN /\ signalled \in BOOLEAN

\* run_server returns zero only when everything is down: both loops have ended,
\* no socket is open and no lease of a connection is left behind.
CleanExitIsClean ==
    main = "zero" =>
        /\ requested
        /\ \A t \in Threads : at[t] \in {"off", "done"}
        /\ \A s \in Sockets : sock[s] \in {"none", "closed"}
        /\ lease \notin {"open", "lost"}

\* After request_stop has returned no accept loop and no connection goes on as if
\* nothing had happened, whenever it was registered.
NothingServesOn ==
    requested /\ stopper = "nobody" =>
        \A t \in Threads : /\ at[t] \in {"sets up", "accepts"} => sock[Listener(t)] = "closed"
                           /\ at[t] \in {"binds", "serves"} => sock[Connection(t)] # "open"

\* The GAME thread takes no further connection, and does not end, while the lease
\* of the last one is open, unless the failure is on record.
LeaseIsGivenBack ==
    /\ at["game"] \in {"accepts", "accepted", "requests", "stops", "done"}
    /\ lease \in {"open", "lost"}
    => failed

\* A stop comes to its end even if no join ever times out.
StopIsBounded == requested ~> ~Running

\* The server does not go on with half of its loops: when one has died, of whatever and
\* wherever, the other and the main thread come to their end too, unless a signal has
\* blocked the main thread.
NoHalfServer == broken # {} ~> ~Running \/ main = "stuck"

\* So does a signal: "Request one bounded stop", "signal callbacks stay runnable".
SignalIsBounded == signalled ~> ~Running

-----------------------------------------------------------------------------
(* The controller. *)

Init ==
    /\ requested = FALSE /\ stopper = "nobody" /\ left = {} /\ registered = {}
    /\ sock = [s \in Sockets |-> "none"]
    /\ at = [t \in Threads |-> "off"] /\ broken = {} /\ ready = FALSE /\ lease = "none"
    /\ main = "starts"
    /\ failed = FALSE /\ primary = FALSE /\ signalled = FALSE

\* A main thread that is stuck holds the lock of the controller.
LockIsFree == main # "stuck"

EventLockIsFree == main \notin {"enters", "leaves", "stuck"}

Goes(t, place) == at' = [at EXCEPT ![t] = place]

Registers(s) ==
    /\ LockIsFree
    /\ registered' = registered \cup {s}
    /\ UNCHANGED <<requested, stopper, left>>

SlipComesTooLate == FALSE  \* what is registered after the request is nobody's

\* register_listener, register_accepted: what request_stop has not seen is stopped
\* by the thread that registers it.
ComesTooLate == requested

\* A socket that says it is closed is none request_stop has to stop.
Unregisters(s) ==
    /\ LockIsFree
    /\ registered' = registered \ {s}
    /\ left' = left \ {s}
    /\ UNCHANGED <<requested, stopper>>

\* request_stop: only the first one does anything.
Requests(who) ==
    /\ LockIsFree
    /\ IF requested
         THEN UNCHANGED control
         ELSE /\ EventLockIsFree
              /\ requested' = TRUE
              /\ stopper' = who
              /\ left' = registered
              /\ UNCHANGED registered

\* _stop_listener of request_stop.
StopListener(who) ==
    /\ stopper = who
    /\ \E t \in Threads :
         /\ Listener(t) \in left
         /\ sock' = [sock EXCEPT ![Listener(t)] = "closed"]
         /\ Unregisters(Listener(t))
    /\ UNCHANGED <<threads, main, outcome>>

\* shutdown_for_stop.  The owner may have closed it, the peer may be gone: then
\* the system refuses, and the refusal is a failure of the stop.
Shut(s) ==
    /\ sock' = [sock EXCEPT ![s] = IF @ = "open" THEN "shut" ELSE @]
    /\ failed' = TRUE \/ UNCHANGED failed

StopAccepted(who) ==
    /\ stopper = who
    /\ \A t \in Threads : Listener(t) \notin left
    /\ \E s \in left : Shut(s) /\ left' = left \ {s}
    /\ UNCHANGED <<requested, stopper, registered, threads, main, primary, signalled>>

StopReturns(who) ==
    /\ stopper = who
    /\ left = {}
    /\ stopper' = "nobody"
    /\ IF who \in Threads THEN Goes(who, "done") ELSE UNCHANGED at
    /\ UNCHANGED <<requested, left, registered, sock, broken, ready, lease, main, outcome>>

-----------------------------------------------------------------------------
(* The accept loops. *)

\* main of v141 makes the GAME thread, which registers it, and starts it.
StartGame ==
    /\ at["login"] = "begins"
    /\ LockIsFree
    /\ at' = [at EXCEPT !["login"] = "waits", !["game"] = "listens"]
    /\ UNCHANGED <<control, sock, broken, ready, lease, main, outcome>>

WaitReady ==
    /\ at["login"] = "waits"
    /\ \/ ready /\ Goes("login", "listens") /\ UNCHANGED broken
       \/ ~ready /\ Goes("login", "unwinds") /\ broken' = broken \cup {"login"}
    /\ UNCHANGED <<control, sock, ready, lease, main, outcome>>

AfterListen(t) == IF t = "game" THEN "sets up" ELSE "accepts"

Listen(t) ==
    /\ at[t] = "listens"
    /\ sock' = [sock EXCEPT ![Listener(t)] = "open"]
    /\ Registers(Listener(t))
    /\ Goes(t, IF ComesTooLate THEN "stops listener" ELSE AfterListen(t))
    /\ UNCHANGED <<broken, ready, lease, main, outcome>>

StopOwnListener(t) ==
    /\ at[t] = "stops listener"
    /\ sock' = [sock EXCEPT ![Listener(t)] = "closed"]
    /\ Unregisters(Listener(t))
    /\ Goes(t, AfterListen(t))
    /\ UNCHANGED <<broken, ready, lease, main, outcome>>

\* settimeout raises on a listener that is closed.
SetUp ==
    /\ at["game"] = "sets up"
    /\ IF sock[Listener("game")] = "open"
         THEN ready' = TRUE /\ Goes("game", "accepts") /\ UNCHANGED broken
         ELSE broken' = broken \cup {"game"} /\ Goes("game", "unwinds") /\ UNCHANGED ready
    /\ UNCHANGED <<control, sock, lease, main, outcome>>

Accept(t) ==
    /\ at[t] = "accepts"
    /\ sock[Listener(t)] = "open"
    /\ sock' = [sock EXCEPT ![Connection(t)] = "open"]
    /\ Goes(t, "accepted")
    /\ UNCHANGED <<control, broken, ready, lease, main, outcome>>

\* An accept that fails is ShutdownRequested after a request, and the GAME loop
\* looks at its stop event whenever an accept times out.
AcceptEnds(t) ==
    /\ at[t] = "accepts"
    /\ requested
    /\ t = "login" => sock[Listener(t)] = "closed"
    /\ Goes(t, "unwinds")
    /\ UNCHANGED <<control, sock, broken, ready, lease, main, outcome>>

\* The system refuses to bind, to listen, or before the request to accept.
Breaks(t) ==
    /\ at[t] = "listens" \/ (at[t] = "accepts" /\ ~requested)
    /\ broken' = broken \cup {t}
    /\ Goes(t, "unwinds")
    /\ UNCHANGED <<control, sock, ready, lease, main, outcome>>

AfterAccept(t) == IF t = "game" THEN "binds" ELSE "serves"

RegisterAccepted(t) ==
    /\ at[t] = "accepted"
    /\ Registers(Connection(t))
    /\ Goes(t, IF ComesTooLate THEN "stops connection" ELSE AfterAccept(t))
    /\ UNCHANGED <<sock, broken, ready, lease, main, outcome>>

StopOwnConnection(t) ==
    /\ at[t] = "stops connection"
    /\ Shut(Connection(t))
    /\ Goes(t, AfterAccept(t))
    /\ UNCHANGED <<control, broken, ready, lease, main, primary, signalled>>

\* The state of the connection opens the lease, or its constructor raises.  Then it
\* closes it again if it can, and the pending connection, which has no state to
\* close it with, is aborted.
Bind ==
    /\ at["game"] = "binds"
    /\ \/ lease' = "open" /\ Goes("game", "serves") /\ UNCHANGED broken
       \/ /\ lease' \in {"none", "lost"}
          /\ Goes("game", "closes")
          /\ broken' = broken \cup {"game"}
    /\ UNCHANGED <<control, sock, ready, main, outcome>>

\* The client goes, the socket is shut, or a handler raises.
Leave(t) ==
    /\ at[t] = "serves"
    /\ Goes(t, "closes")
    /\ broken' = broken \cup {t} \/ UNCHANGED broken
    /\ UNCHANGED <<control, sock, ready, lease, main, outcome>>

\* ManagedSocket.__exit__, first the system and then the controller.
CloseConnection(t) ==
    /\ at[t] = "closes"
    /\ sock' = [sock EXCEPT ![Connection(t)] = "closed"]
    /\ Goes(t, "unregisters")
    /\ UNCHANGED <<control, broken, ready, lease, main, outcome>>

NextOf(t) == IF t \in broken THEN "unwinds" ELSE "accepts"

UnregisterConnection(t) ==
    /\ at[t] = "unregisters"
    /\ Unregisters(Connection(t))
    /\ Goes(t, IF t = "game" THEN "releases" ELSE NextOf(t))
    /\ UNCHANGED <<sock, broken, ready, lease, main, outcome>>

SlipReleased ==  \* a lease that cannot be closed is nobody's business
    /\ lease' \in {"closed", "lost"}
    /\ UNCHANGED failed

SlipMarked ==  \* the failure is kept with the connection only
    /\ lease' \in {"closed", "failed"}
    /\ UNCHANGED failed

\* GameConnectionBindings.release: a lease that cannot be closed is reported.
Released ==
    \/ lease' = (IF lease = "open" THEN "closed" ELSE lease) /\ UNCHANGED failed
    \/ lease = "open" /\ lease' = "lost" /\ failed' = TRUE

Release ==
    /\ at["game"] = "releases"
    /\ Released
    /\ Goes("game", NextOf("game"))
    /\ UNCHANGED <<control, sock, broken, ready, main, primary, signalled>>

\* The listener's context ends, and with it the loop.
Unwind(t) ==
    /\ at[t] = "unwinds"
    /\ sock' = [sock EXCEPT ![Listener(t)] = IF @ = "none" THEN @ ELSE "closed"]
    /\ Unregisters(Listener(t))
    /\ Goes(t, IF t \in broken THEN "requests" ELSE "done")
    /\ failed' = (failed \/ (t = "game" /\ t \in broken))
    /\ primary' = (primary \/ (t = "login" /\ t \in broken))
    /\ UNCHANGED <<broken, ready, lease, main, signalled>>

SlipRequestStop(t) ==  \* the failure is kept and nobody is told
    /\ at[t] = "requests"
    /\ Goes(t, "done")
    /\ UNCHANGED <<control, sock, broken, ready, lease, main, outcome>>

\* A loop that died stops the server.
RequestStop(t) ==
    /\ at[t] = "requests"
    /\ Requests(t)
    /\ Goes(t, IF requested THEN "done" ELSE "stops")
    /\ UNCHANGED <<sock, broken, ready, lease, main, outcome>>

-----------------------------------------------------------------------------
(* run_server on the main thread, which a handler interrupts. *)

MainGoes(from, to) ==
    /\ main = from
    /\ stopper # "main"
    /\ main' = to
    /\ UNCHANGED <<control, sock, ready, broken, lease, primary, signalled>>

Start == MainGoes("starts", "polls") /\ Goes("login", "begins") /\ UNCHANGED failed

\* wait_for_stop is Event.wait.
Poll ==
    /\ \/ MainGoes("polls", IF requested \/ at["login"] = "done" THEN "joins" ELSE "enters")
       \/ MainGoes("enters", IF requested THEN "leaves" ELSE "sleeps")
       \/ MainGoes("sleeps", "leaves")
       \/ MainGoes("leaves", "polls")
    /\ UNCHANGED <<at, failed>>

SlipEnded(t) == at[t] # "serves"  \* a thread that is about to end counts as ended

Ended(t) == at[t] \in {"off", "done"}

\* finish calls request_stop itself if nobody has; whoever brings the main thread
\* here has.
Join ==
    /\ \/ Ended("login") /\ MainGoes("joins", "finishes")
       \/ Ended("game") /\ MainGoes("finishes", "returns")
    /\ UNCHANGED <<at, failed>>

JoinTimesOut ==
    /\ \/ ~Ended("login") /\ MainGoes("joins", "finishes")
       \/ ~Ended("game") /\ MainGoes("finishes", "returns")
    /\ failed' = TRUE
    /\ UNCHANGED at

Return ==
    /\ MainGoes("returns", IF primary THEN "raises" ELSE IF failed THEN "one" ELSE "zero")
    /\ UNCHANGED <<at, failed>>

\* The handler of SIGINT and SIGTERM.  Inside Event.wait the set of request_stop
\* waits for a lock that its own thread holds.
Signal ==
    /\ main \in {"polls", "enters", "sleeps", "leaves", "joins", "finishes"}
    /\ stopper # "main"
    /\ signalled' = TRUE
    /\ IF ~requested /\ ~EventLockIsFree
         THEN main' = "stuck" /\ UNCHANGED control
         ELSE Requests("main") /\ UNCHANGED main
    /\ UNCHANGED <<sock, threads, failed, primary>>

-----------------------------------------------------------------------------

Stopping == \E who \in Threads \cup {"main"} :
                StopListener(who) \/ StopAccepted(who) \/ StopReturns(who)

Serving(t) ==
    \/ Listen(t) \/ StopOwnListener(t)
    \/ AcceptEnds(t) \/ RegisterAccepted(t) \/ StopOwnConnection(t)
    \/ CloseConnection(t) \/ UnregisterConnection(t) \/ Unwind(t) \/ RequestStop(t)
    \/ t = "login" /\ (StartGame \/ WaitReady)
    \/ t = "game" /\ (SetUp \/ Bind \/ Release)

Main == Start \/ Poll \/ Join \/ Return

Next ==
    /\ Running
    /\ \/ Stopping
       \/ \E t \in Threads : Serving(t) \/ Breaks(t) \/ Accept(t) \/ Leave(t)
       \/ Main \/ JoinTimesOut \/ Signal

\* Every thread is scheduled.  A client comes and goes as it likes, but recv
\* returns when its socket is shut.  The system need not refuse a call, nor a join
\* time out.  Who waits for the lock of the event gets it: the main thread holds it
\* for moments only.
Fairness ==
    /\ WF_vars(Running /\ Stopping)
    /\ \A t \in Threads : /\ WF_vars(Running /\ Serving(t))
                          /\ SF_vars(Running /\ RequestStop(t))
                          /\ WF_vars(Running /\ sock[Connection(t)] = "shut" /\ Leave(t))
    /\ WF_vars(Running /\ Main)

Spec == Init /\ [][Next]_vars /\ Fairness
=============================================================================
