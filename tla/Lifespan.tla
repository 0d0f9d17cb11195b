------------------------------- MODULE Lifespan -------------------------------
(***************************************************************************)
(* The server's lifespan (build_app in src/a2acode/server.py) over the     *)
(* ACP backend of module AgentPool: the stores are made ready, turns run   *)
(* while it serves, and at the end the backend, the push client and the    *)
(* database engine are released, whatever of it fails or is cancelled.     *)
(* Runs that are under way at shutdown go on, for nothing waits for them,  *)
(* until the process exits.                                                *)
(***************************************************************************)
EXTENDS AgentPool

CONSTANT HasDatabase     \* task_db is given

VARIABLES server,      \* where lifespan is
          ready,       \* how many of the two stores are initialized
          engine,      \* the database engine, if there is one
          pushClient,  \* the client for push notifications
          cut,         \* history: which closes were cancelled
          before       \* history: how many agents were made before aclose()
                       \* emptied the pool

lifeVars == <<server, ready, engine, pushClient, cut, before>>

Stages == {"starting", "failed", "serving", "closing", "releasing", "ended"}

LifeInit == /\ Init
            /\ server = "starting" /\ ready = 0
            /\ engine = IF HasDatabase THEN "open" ELSE "none"
            /\ pushClient = "open"
            /\ cut = {}
            /\ before = 0

\* Only database stores are initialized; the first that fails ends start-up,
\* before the try whose finally releases.
Initialize == /\ server = "starting" /\ engine = "open" /\ ready < 2
              /\ ready' = ready + 1
              /\ UNCHANGED <<vars, server, engine, pushClient, cut, before>>

StartFails == /\ server = "starting" /\ engine = "open" /\ ready < 2
              /\ server' = "failed"
              /\ UNCHANGED <<vars, ready, engine, pushClient, cut, before>>

Serve == /\ server = "starting"
         /\ engine = "open" => ready = 2
         /\ server' = "serving"
         /\ UNCHANGED <<vars, ready, engine, pushClient, cut, before>>

\* Shutdown, or a crash while serving.
ShutDown == /\ server = "serving"
            /\ server' = "closing"
            /\ UNCHANGED <<vars, ready, engine, pushClient, cut, before>>

\* backend.aclose() has the pool's lock, and takes the agents.
TakePool == /\ server = "closing"
            /\ Stop
            /\ before' = Len(agents)
            /\ UNCHANGED <<server, ready, engine, pushClient, cut>>

\* slip: the closes in one try, so that a cancelled one strands the rest
BugCloseCut == /\ server = "closing"
               /\ server' = "ended"
               /\ cut' = cut \cup {"backend"}
               /\ leaving' = {}
               /\ \/ leaving = {} /\ UNCHANGED agents
                  \/ \E a \in leaving :
                       agents' = [agents EXCEPT ![a].stack = "torn"]
               /\ UNCHANGED <<turns, pool, poolLock, known, opened, stopped, peak,
                              ready, engine, pushClient, before>>

\* It is cancelled, waiting for the lock or in one agent's close: suppress does
\* not stop a CancelledError, and the finally goes on with the rest.
CloseCut == /\ server = "closing"
            /\ server' = "releasing"
            /\ cut' = cut \cup {"backend"}
            /\ leaving' = {}
            /\ \/ leaving = {} /\ UNCHANGED agents
               \/ \E a \in leaving : agents' = [agents EXCEPT ![a].stack = "torn"]
            /\ UNCHANGED <<turns, pool, poolLock, known, opened, stopped, peak,
                           ready, engine, pushClient, before>>

BackendClosed == /\ server = "closing"
                 /\ stopped /\ leaving = {}
                 /\ server' = "releasing"
                 /\ UNCHANGED <<vars, ready, engine, pushClient, cut, before>>

\* push_client.aclose(), which may fail.
ReleaseClient == /\ server = "releasing" /\ pushClient = "open"
                 /\ pushClient' = "closed"
                 /\ server' = IF engine = "open" THEN server ELSE "ended"
                 /\ UNCHANGED <<vars, ready, engine, cut, before>>

DisposeEngine == /\ server = "releasing" /\ pushClient = "closed"
                 /\ engine' = "disposed"
                 /\ server' = "ended"
                 /\ UNCHANGED <<vars, ready, pushClient, cut, before>>

\* Cancelled in one of these two, nothing is left to catch it.
ReleaseCut == /\ server = "releasing"
              /\ server' = "ended"
              /\ cut' = cut \cup {"rest"}
              /\ UNCHANGED <<vars, ready, engine, pushClient, before>>

\* A turn begins while the server serves; the rest goes on for as long as the
\* process does.
TurnSteps == /\ server \notin {"failed", "ended"}
             /\ \/ \E t \in Turns : \/ server = "serving" /\ Start(t)
                                    \/ Acquires(t) \/ Runs(t)
                                    \/ GiveUp(t) \/ Cancelled(t)
                \/ \E a \in Agents : Dies(a) \/ (server = "closing" /\ StopAgent(a))
             /\ UNCHANGED lifeVars

LifeNext == \/ Initialize \/ StartFails \/ Serve \/ ShutDown
            \/ TakePool \/ CloseCut \/ BackendClosed
            \/ ReleaseClient \/ DisposeEngine \/ ReleaseCut
            \/ TurnSteps

\* AgentPool's fairness, while the process lives.
GoesOn(t) == /\ server \notin {"failed", "ended"}
             /\ Acquires(t) \/ Runs(t)
             /\ UNCHANGED lifeVars

LifeSpec == /\ LifeInit /\ [][LifeNext]_<<vars, lifeVars>>
            /\ \A t \in Turns : WF_vars(GoesOn(t))
-----------------------------------------------------------------------------
\* No process is forgotten: one that is not being closed is in the pool, or
\* claimed by a turn that will see to it, or in the hands of an aclose that was
\* not cancelled.
NoProcessIsForgotten ==
  \A a \in Agents : agents[a].stack = "open"
                      => \/ InPool(a) \/ agents[a].claims > 0 \/ a \in leaving
                         \/ "backend" \in cut

\* "One failing close cannot strand the others", and agent processes "must not
\* outlive us" (server.py, lifespan): once it has ended, every process there was
\* when the pool was emptied is closed, or is in no pool and its turn closes it;
\* and the client and the engine are released.  Only the closes that were
\* cancelled themselves are excepted.
ReleasedInTheEnd ==
  server = "ended" =>
    /\ "backend" \notin cut =>
         \A a \in 1..before : agents[a].stack = "open" =>
           agents[a].context = NoContext /\ agents[a].claims > 0
    /\ "rest" \notin cut => pushClient = "closed" /\ engine # "open"

\* With agents that answer, every turn comes to its end, or the process does:
\* the two locks and the closes under the first of them, by other turns and by
\* aclose, never leave turns waiting for each other.
TurnsEnd ==
  \A t \in Turns :
    turns[t].pc # "idle" ~> turns[t].pc = "done" \/ server = "ended"
=============================================================================
