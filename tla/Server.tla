------------------------------- MODULE Server -------------------------------
(***************************************************************************)
(* The server process around the relay: packages/server/src/index.ts with  *)
(* the PostgreSQL pool (db/pool.ts) and the Redis clients (redis.ts), and  *)
(* the relay of Relay.tla running in it while it shuts down.               *)
(*                                                                         *)
(* shutdown waits for one thing after the other: the HTTP server, which    *)
(* has closed when its last connection has, the relay's included; the      *)
(* pool, which takes no query once it is ending and has ended when those   *)
(* it has are answered; and the Redis clients, which answer what was asked *)
(* before QUIT.  Meanwhile the turns of the relay go on.                   *)
(***************************************************************************)
EXTENDS Relay

CONSTANT Stopping   \* bound: the instances that are sent a signal

ASSUME StoppingAssumption == Stopping \subseteq Instance

VARIABLES
  phase,   \* phase[i]: what shutdown waits for, or how the process ended
  late,    \* history: messages whose INSERT was issued to a second pool
  cut      \* history: cut[i]: messages that i had in a query when it ended

procVars   == <<phase, late, cut>>
serverVars == <<vars, procVars>>

Phase == {"up", "closing", "draining", "quitting", "exited", "forced"}

ServerInit ==
  /\ Init
  /\ phase = [i \in Instance |-> "up"] /\ late = {}
  /\ cut = [i \in Instance |-> {}]

Ended(i)   == phase[i] \in {"exited", "forced"}
Running(i) == ~Ended(i)

\* What the process has asked the pool: flush queries, rows its loop has yet
\* to send, INSERTs.
Inserting(i) == {m \in Msg : at[m] = i /\ stage[m] = "queueing"}
Flushing(i)  == {s \in Socket : Home[s] = i /\ (flushing[s] # {} \/ fetched[s] # {})}

-----------------------------------------------------------------------------
(* shutdown.                                                                *)

\* SIGTERM, SIGINT or an uncaught exception; the first counts.  server.close
\* ends the listening.
Shutdown(i) ==
  /\ i \in Stopping /\ phase[i] = "up"
  /\ phase' = [phase EXCEPT ![i] = "closing"]
  /\ UNCHANGED <<vars, late, cut>>

\* Its callback: no connection is left.  closePool begins.
HttpClosed(i) ==
  /\ phase[i] = "closing"
  /\ \A s \in Socket : Home[s] = i => sock[s] \in {"none", "closed"}
  /\ phase' = [phase EXCEPT ![i] = "draining"]
  /\ UNCHANGED <<vars, late, cut>>

\* pool.end() is done, _pool is null; closeRedis begins.
Mut_PoolClosed(i) ==   \* closePool does not wait for it
  /\ phase[i] = "draining"
  /\ phase' = [phase EXCEPT ![i] = "quitting"]
  /\ UNCHANGED <<vars, late, cut>>
PoolClosed(i) ==
  /\ phase[i] = "draining" /\ Inserting(i) = {} /\ Flushing(i) = {}
  /\ phase' = [phase EXCEPT ![i] = "quitting"]
  /\ UNCHANGED <<vars, late, cut>>

\* process.exit: what is under way is cut off.
Exit(i, how) ==
  /\ phase' = [phase EXCEPT ![i] = how]
  /\ cut' = [cut EXCEPT ![i] = Inserting(i) \union UNION {fetched[s] : s \in Flushing(i)}]
  /\ Stop(i) /\ UNCHANGED <<faults, late>>
RedisClosed(i) == phase[i] = "quitting" /\ Exit(i, "exited")

\* The timer of 15 seconds.
ForceExit(i) == phase[i] \in {"closing", "draining", "quitting"} /\ Exit(i, "forced")

-----------------------------------------------------------------------------
(* The relay in a process that is up or shutting down.                      *)

Mut_Serve(s) ==   \* the heartbeats stop with the clean-up job
  /\ phase[Home[s]] = "up" \/ (Running(Home[s]) /\ sock[s] \notin {"none", "dead"})
  /\ ConnectionStep(s) /\ UNCHANGED procVars
Serve(s) ==
  /\ phase[Home[s]] = "up" \/ (Running(Home[s]) /\ sock[s] # "none")
  /\ ConnectionStep(s) /\ UNCHANGED procVars

\* The recipient is offline: the pool that is ending refuses the INSERT, and
\* once it is null getPool makes another.
Answered(m) ==
  /\ Running(at[m]) /\ CheckOnline(m)
  /\ phase[at[m]] = "draining" => NotQueued(m)
  /\ late' = IF phase[at[m]] = "quitting" /\ ~NotQueued(m) THEN late \union {m} ELSE late
  /\ UNCHANGED <<phase, cut>>

\* The pool refuses it, or Redis what is asked after QUIT.
Refused(m) ==
  /\ stage[m] = "published"
  /\ \/ phase[at[m]] = "draining" /\ ~NotQueued(m)
     \/ phase[at[m]] = "quitting"
  /\ stage' = [stage EXCEPT ![m] = "failed"]
  /\ UNCHANGED <<connVars, flushVars, redisVars, queue, at, handed, dropped, lost, retired,
                 faults, procVars>>

\* The clean-up job ends with the signal.
Deliver(m) ==
  \/ Answered(m) \/ Refused(m)
  \/ (PublishAgain(m) \/ QueueOfflineMessage(m) \/ DeliveryFails(m)) /\ UNCHANGED procVars
  \/ QueueCleanup(m) /\ (\E i \in Instance : phase[i] = "up") /\ UNCHANGED procVars

Elsewhere ==
  /\ \/ \E i \in Instance : RelayChannel(i) /\ Running(i)
     \/ \E i \in Instance : Crash(i) /\ phase[i] = "up"
     \/ \E k \in Key : PresenceExpires(k) \/ RefreshFails(k)
  /\ UNCHANGED procVars

ShutdownStep(i) ==
  Shutdown(i) \/ HttpClosed(i) \/ PoolClosed(i) \/ RedisClosed(i) \/ ForceExit(i)

ServerNext ==
  \/ \E s \in Socket : Serve(s)
  \/ \E m \in Msg : Deliver(m)
  \/ Elsewhere
  \/ \E i \in Instance : ShutdownStep(i)

ServerSpec == ServerInit /\ [][ServerNext]_serverVars

\* What the event loop will run: the timers, the close event and the queries
\* of a connection, the answers a delivery awaits, what shutdown waits for.
DueForSocket(s) ==
  /\ Serve(s)
  /\ \/ HeartbeatTerminates(s) \/ CloseEvent(s) \/ FlushSend(s)
     \/ \E k \in Key : FlushQuery(s, k)
DueForMessage(m) ==
  Answered(m) \/ Refused(m) \/ (QueueOfflineMessage(m) /\ UNCHANGED procVars)
DueForShutdown(i) == HttpClosed(i) \/ PoolClosed(i) \/ RedisClosed(i)
Expiry == \E k \in Key : PresenceExpires(k) /\ UNCHANGED procVars

\* It runs something that is due, and Redis lets keys expire.  Nothing is
\* assumed of the timer that forces the exit, of peers or of the channel.
ServerFairSpec ==
  /\ ServerSpec
  /\ \A s \in Socket : WF_serverVars(DueForSocket(s))
  /\ \A m \in Msg : WF_serverVars(DueForMessage(m))
  /\ \A i \in Instance : WF_serverVars(DueForShutdown(i))
  /\ WF_serverVars(Expiry)

-----------------------------------------------------------------------------
(* Properties.                                                              *)

ServerTypeOK == TypeOK /\ phase \in [Instance -> Phase] /\ late \subseteq Msg
                /\ cut \in [Instance -> SUBSET Msg]

\* pool.ts, closePool "waits for all in-flight queries to finish": a process
\* that was not forced cuts off nothing that the pool it closed was asked, by
\* connections that are gone and deliveries that go on after them.
CleanExitDrains ==
  \A i \in Instance : phase[i] = "exited" => cut[i] \subseteq late

\* Shutdown ends without the timer once every peer has closed its connection
\* or vanished: the relay's timers, the pool and Redis do not wait for one
\* another.
ShutdownEnds ==
  \A i \in Instance :
    phase[i] = "closing" /\ (\A s \in Socket : Home[s] = i => sock[s] # "OPEN")
      ~> Ended(i)

\* "Graceful shutdown": nothing is cut off.  A peer that stays connected keeps
\* the HTTP server open until the timer ends the process, and what a delivery
\* asks a second pool is cut off by the exit.
NothingCut == \A i \in Instance : cut[i] = {}
=============================================================================
