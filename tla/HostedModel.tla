---------------------------- MODULE HostedModel ----------------------------
(***************************************************************************)
(* One model served by a supervised runtime host: HostedModel in           *)
(* praecise-host/src/engines.rs.                                           *)
(*                                                                         *)
(* Every caller thread runs call(): wait for a host (running), talk to it  *)
(* (RuntimeHost::call_streaming), then either clear the failure count or   *)
(* report the host's exit (exited).  A restart runs on a thread of its own *)
(* and may fail, which spawns the next one.  The lock on Run is held for   *)
(* one action at a time; everything between two lock sections is a state.  *)
(*                                                                         *)
(* A host is named by the start that made it: 0 is the start inside        *)
(* Engines::serve, n the n-th restart.  A process is killed when the last  *)
(* Arc<RuntimeHost> to it is dropped.                                      *)
(*                                                                         *)
(* The names of the specification start with HM: one module holds the      *)
(* proofs about this component and Engines, both of engines.rs.            *)
(***************************************************************************)
EXTENDS Integers

CONSTANTS
  Callers,      \* threads that call the model
  MaxFailures,  \* MAX_CONSECUTIVE_FAILURES
  MaxRestarts   \* bound: the host of the last restart allowed meets no fault

ASSUME MaxFailuresAssumption == MaxFailures \in Nat \ {0}
ASSUME MaxRestartsAssumption == MaxRestarts \in Nat

HostId == 0 .. MaxRestarts
NoHost == -1

VARIABLES
  host,      \* Run.host
  failures,  \* Run.failures
  starting,  \* Run.starting
  stopped,   \* Run.stopped
  restarts,  \* Run.restarts
  thread,    \* where the thread of each start is
  proc,      \* the operating-system process of each start
  caller,    \* where each caller is
  with,      \* the Arc<RuntimeHost> each caller holds
  hungUp,    \* hosts some caller reported as exited while they were running
  lateOk     \* a reply of a host that was no longer current cleared failures

run == <<host, failures, starting, stopped, restarts>>
history == <<hungUp, lateOk>>
HMvars == <<run, thread, proc, caller, with, history>>

HMTypeOK ==
  /\ host \in HostId \cup {NoHost}
  /\ failures \in 0 .. MaxFailures
  /\ starting \in BOOLEAN
  /\ stopped \in BOOLEAN
  /\ restarts \in HostId
  /\ thread \in [HostId -> {"none", "spawned", "loading", "failed", "done"}]
  /\ proc \in [HostId -> {"none", "up", "broken", "dead"}]
  /\ caller \in [Callers -> {"idle", "check", "asleep", "calling", "replied", "failed"}]
  /\ with \in [Callers -> HostId \cup {NoHost}]
  /\ hungUp \subseteq HostId
  /\ lateOk \in BOOLEAN

(***************************************************************************)
(* serve() has built the model and is inside its own start().              *)
(***************************************************************************)
HMInit ==
  /\ host = NoHost
  /\ failures = 0
  /\ starting = FALSE
  /\ stopped = FALSE
  /\ restarts = 0
  /\ thread = [t \in HostId |-> IF t = 0 THEN "spawned" ELSE "none"]
  /\ proc = [h \in HostId |-> "none"]
  /\ caller = [c \in Callers |-> "idle"]
  /\ with = [c \in Callers |-> NoHost]
  /\ hungUp = {}
  /\ lateOk = FALSE

Running(h) == proc[h] \in {"up", "broken"}
Published == thread[0] = "done"

Health ==
  CASE host # NoHost -> "Running"
    [] host = NoHost /\ (failures >= MaxFailures \/ stopped) -> "Stopped"
    [] OTHER -> "Restarting"

\* The bound: faults happen only to hosts another start may follow.
MayFault(h) == h < MaxRestarts

\* Drop for RuntimeHost: a process nothing refers to any more is killed.
Drop(h, hst, w) ==
  IF h # NoHost /\ hst # h /\ \A c \in Callers : w[c] # h
  THEN [proc EXCEPT ![h] = "dead"]
  ELSE proc

\* Mutant: notify_one.
NotifiedOne ==
  LET asleep == {c \in Callers : caller[c] = "asleep"} IN
  IF asleep = {} THEN caller ELSE [caller EXCEPT ![CHOOSE c \in asleep : TRUE] = "check"]

\* changed.notify_all(): every sleeper goes back to the test in running().
Notified == [c \in Callers |-> IF caller[c] = "asleep" THEN "check" ELSE caller[c]]

MayRestart(failed) == ~stopped /\ ~starting /\ failed < MaxFailures

\* restart_locked: spawn the next start unless stopped, starting or spent.
\* th is thread once the caller's own step is taken.
RestartLocked(failed, th) ==
  IF MayRestart(failed)
  THEN /\ starting' = TRUE
       /\ restarts' = restarts + 1
       /\ thread' = [th EXCEPT ![restarts + 1] = "spawned"]
  ELSE /\ thread' = th
       /\ UNCHANGED <<starting, restarts>>

-----------------------------------------------------------------------------
(* The start of a host: start() and the thread restart_locked spawns.      *)

\* The environment verified and the process spawned; the load is under way.
SpawnProcess(t) ==
  /\ thread[t] = "spawned"
  /\ thread' = [thread EXCEPT ![t] = "loading"]
  /\ proc' = [proc EXCEPT ![t] = "up"]
  /\ UNCHANGED <<run, caller, with, history>>

\* Mutant: a model stopped during the load is served all the same.
StartOkStopped(t) ==
  /\ thread[t] = "loading" /\ proc[t] = "up"
  /\ starting' = FALSE
  /\ caller' = Notified
  /\ thread' = [thread EXCEPT ![t] = "done"]
  /\ host' = t
  /\ UNCHANGED <<proc, failures, stopped, restarts, with, history>>

\* The host answered its load.  A model stopped meanwhile drops the host.
StartOk(t) ==
  /\ thread[t] = "loading" /\ proc[t] = "up"
  /\ starting' = FALSE
  /\ caller' = Notified
  /\ IF stopped
     THEN /\ thread' = [thread EXCEPT ![t] = "failed"]
          /\ proc' = [proc EXCEPT ![t] = "dead"]
          /\ UNCHANGED host
     ELSE /\ thread' = [thread EXCEPT ![t] = "done"]
          /\ host' = t
          /\ UNCHANGED proc
  /\ UNCHANGED <<failures, stopped, restarts, with, history>>

\* The environment fails its pin, the process cannot be spawned, or the host
\* refuses the load or exits during it.
StartFail(t) ==
  /\ thread[t] \in {"spawned", "loading"}
  /\ MayFault(t)
  /\ starting' = FALSE
  /\ failures' = failures + 1
  /\ caller' = Notified
  /\ thread' = [thread EXCEPT ![t] = "failed"]
  /\ proc' = IF thread[t] = "loading" THEN [proc EXCEPT ![t] = "dead"] ELSE proc
  /\ UNCHANGED <<host, stopped, restarts, with, history>>

\* Mutant: a restart that fails is not tried again.
RetryNever(t) ==
  /\ t # 0 /\ thread[t] = "failed"
  /\ thread' = [thread EXCEPT ![t] = "done"]
  /\ UNCHANGED <<run, proc, caller, with, history>>

\* A restart thread whose start failed takes the lock again and tries once
\* more.  serve()'s own start (0) only reports the failure.
Retry(t) ==
  /\ t # 0 /\ thread[t] = "failed"
  /\ RestartLocked(failures, [thread EXCEPT ![t] = "done"])
  /\ UNCHANGED <<host, failures, stopped, proc, caller, with, history>>

-----------------------------------------------------------------------------
(* A request: call(), running(), exited().                                 *)

Begin(c) ==
  /\ Published /\ caller[c] = "idle"
  /\ caller' = [caller EXCEPT ![c] = "check"]
  /\ UNCHANGED <<run, thread, proc, with, history>>

\* One pass of the loop in running(), under the lock.
TakeHost(c) ==
  /\ caller[c] = "check" /\ host # NoHost
  /\ caller' = [caller EXCEPT ![c] = "calling"]
  /\ with' = [with EXCEPT ![c] = host]
  /\ UNCHANGED <<run, thread, proc, history>>

RefusedStopped(c) ==
  /\ caller[c] = "check" /\ host = NoHost
  /\ stopped \/ failures >= MaxFailures
  /\ caller' = [caller EXCEPT ![c] = "idle"]
  /\ UNCHANGED <<run, thread, proc, with, history>>

Sleep(c) ==
  /\ caller[c] = "check" /\ host = NoHost
  /\ ~stopped /\ failures < MaxFailures
  /\ caller' = [caller EXCEPT ![c] = "asleep"]
  /\ UNCHANGED <<run, thread, proc, with, history>>

\* The host answered; the caller has yet to take the lock.
Reply(c) ==
  /\ caller[c] = "calling" /\ proc[with[c]] = "up"
  /\ caller' = [caller EXCEPT ![c] = "replied"]
  /\ UNCHANGED <<run, thread, proc, with, history>>

\* Ok(reply): failures = 0, whichever host the reply came from.
Served(c) ==
  /\ caller[c] = "replied"
  /\ failures' = 0
  /\ lateOk' = (lateOk \/ with[c] # host)
  /\ caller' = [caller EXCEPT ![c] = "idle"]
  /\ with' = [with EXCEPT ![c] = NoHost]
  /\ proc' = Drop(with[c], host, with')
  /\ UNCHANGED <<host, starting, stopped, restarts, thread, hungUp>>

\* Err(e) other than Failed: the engine refused, the supervisor is untouched.
Refused(c) ==
  /\ caller[c] = "calling" /\ proc[with[c]] = "up"
  /\ caller' = [caller EXCEPT ![c] = "idle"]
  /\ with' = [with EXCEPT ![c] = NoHost]
  /\ proc' = Drop(with[c], host, with')
  /\ UNCHANGED <<run, thread, history>>

\* Mutant: the process that broke the protocol is left running.
FailedNoKill(c) ==
  /\ caller[c] = "calling" /\ proc[with[c]] \in {"broken", "dead"}
  /\ caller' = [caller EXCEPT ![c] = "failed"]
  /\ UNCHANGED <<run, thread, proc, with, history>>

\* Err(Failed) because the host exited or broke the protocol:
\* RuntimeHost::exited has killed whatever was left of it.
Failed(c) ==
  /\ caller[c] = "calling" /\ proc[with[c]] \in {"broken", "dead"}
  /\ caller' = [caller EXCEPT ![c] = "failed"]
  /\ proc' = [proc EXCEPT ![with[c]] = "dead"]
  /\ UNCHANGED <<run, thread, with, history>>

\* Err(Failed) from the caller's own on_event (generation.rs: the caller went
\* away, the reply could not be read): the host is still running.
HangUp(c) ==
  /\ caller[c] = "calling" /\ proc[with[c]] = "up"
  /\ MayFault(with[c])
  /\ caller' = [caller EXCEPT ![c] = "failed"]
  /\ hungUp' = hungUp \cup {with[c]}
  /\ UNCHANGED <<run, thread, proc, with, lateOk>>

\* Mutant: the host that exited stays the current one while another starts.
ExitedKeepsHost(c) ==
  /\ caller[c] = "failed"
  /\ IF host = with[c]
     THEN failures' = failures + 1 /\ RestartLocked(failures + 1, thread)
     ELSE UNCHANGED <<failures, starting, restarts, thread>>
  /\ caller' = [caller EXCEPT ![c] = "idle"]
  /\ with' = [with EXCEPT ![c] = NoHost]
  /\ proc' = Drop(with[c], host, with')
  /\ UNCHANGED <<host, stopped, history>>

\* Mutant: every request that saw the host exit counts a failure.
ExitedEach(c) ==
  /\ caller[c] = "failed"
  /\ host' = IF host = with[c] THEN NoHost ELSE host
  /\ failures' = failures + 1
  /\ RestartLocked(failures + 1, thread)
  /\ caller' = [caller EXCEPT ![c] = "idle"]
  /\ with' = [with EXCEPT ![c] = NoHost]
  /\ proc' = Drop(with[c], host', with')
  /\ UNCHANGED <<stopped, history>>

\* exited(&host): only the request that still sees its host as the current
\* one drops it, counts the failure and restarts.
Exited(c) ==
  /\ caller[c] = "failed"
  /\ IF host = with[c]
     THEN /\ host' = NoHost
          /\ failures' = failures + 1
          /\ RestartLocked(failures + 1, thread)
     ELSE UNCHANGED <<host, failures, starting, restarts, thread>>
  /\ caller' = [caller EXCEPT ![c] = "idle"]
  /\ with' = [with EXCEPT ![c] = NoHost]
  /\ proc' = Drop(with[c], host', with')
  /\ UNCHANGED <<stopped, history>>

\* Engines::release -> stop(): no other host is started.
Stop ==
  /\ Published /\ ~stopped
  /\ stopped' = TRUE
  /\ host' = NoHost
  /\ caller' = Notified
  /\ proc' = Drop(host, NoHost, with)
  /\ UNCHANGED <<failures, starting, restarts, thread, with, history>>

\* The process exits, or writes a line that breaks the protocol.
Die(h) ==
  /\ Running(h) /\ MayFault(h)
  /\ \E to \in {"broken", "dead"} : to # proc[h] /\ proc' = [proc EXCEPT ![h] = to]
  /\ UNCHANGED <<run, thread, caller, with, history>>

Start(t) == SpawnProcess(t) \/ StartOk(t) \/ StartFail(t) \/ Retry(t)

Call(c) ==
  \/ Begin(c) \/ TakeHost(c) \/ RefusedStopped(c) \/ Sleep(c)
  \/ Reply(c) \/ Served(c) \/ Refused(c) \/ Failed(c) \/ HangUp(c) \/ Exited(c)

HMNext ==
  \/ \E t \in HostId : Start(t)
  \/ \E c \in Callers : Call(c)
  \/ \E h \in HostId : Die(h)
  \/ Stop

(***************************************************************************)
(* The supervisor's own threads run, and a caller that holds a result or   *)
(* was woken takes the lock.  A start's thread is one of them but for the  *)
(* wait for the load's answer, which has no time limit (host.rs, load and  *)
(* call_streaming): that wait ends by itself only once the process has     *)
(* gone or broken the protocol.  Nothing makes a request come, a host      *)
(* answer, a process die or the application release the model.             *)
(***************************************************************************)
LoadFails(t) == proc[t] \in {"broken", "dead"} /\ StartFail(t)

HMFairness ==
  /\ \A t \in HostId : WF_HMvars(SpawnProcess(t) \/ LoadFails(t) \/ Retry(t))
  /\ \A c \in Callers :
       /\ WF_HMvars(TakeHost(c) \/ RefusedStopped(c) \/ Sleep(c))
       /\ WF_HMvars(Served(c) \/ Exited(c))

HMSpec == HMInit /\ [][HMNext]_HMvars
HMFairSpec == HMSpec /\ HMFairness

-----------------------------------------------------------------------------
Active(t) == thread[t] \in {"spawned", "loading"}
Pending(t) == Active(t) \/ (t # 0 /\ thread[t] = "failed")

(* The starts exclude each other and exclude a current host: while one     *)
(* start is under way (restart_locked's starting flag) there is no current *)
(* host, no second start and no failed start still to retry.               *)
OneStart ==
  \A t \in HostId : Pending(t) =>
    /\ host = NoHost
    /\ \A u \in HostId : Pending(u) => u = t
    /\ t # 0 => (starting <=> Active(t))

(* engines.rs, "A host is never started twice for one model": two          *)
(* processes of the model run at once only if a caller's own error was     *)
(* taken for the exit of the older one while it was still answering        *)
(* others.                                                                 *)
SecondHostOnlyAfterHangUp ==
  \A g, h \in HostId : g < h /\ Running(g) /\ Running(h) => g \in hungUp

(* A caller asleep in running() is always owed a wake-up: no host is       *)
(* current, the model is neither stopped nor spent, and a start is under   *)
(* way or about to be retried, unless a superseded host's late reply       *)
(* cleared the count that had spent it.                                    *)
NoLostWakeup ==
  \A c \in Callers : caller[c] = "asleep" =>
    /\ host = NoHost /\ ~stopped /\ failures < MaxFailures
    /\ lateOk \/ \E t \in HostId : Pending(t)

(* engines.rs, "after MAX_CONSECUTIVE_FAILURES failures it is left         *)
(* stopped": a spent supervisor leaves that state only when the reply of a *)
(* host that is no longer current clears the count.                        *)
LeftStopped ==
  [][Health = "Stopped" /\ Health' # "Stopped" =>
       /\ Health' = "Restarting"
       /\ \E c \in Callers : caller[c] = "replied" /\ with[c] # host]_HMvars

(* Every caller that waits for a host gets one or is refused: it waits for *)
(* ever only behind a start whose host is up and never answers its load,   *)
(* or once a superseded host's reply has cleared the failure count.        *)
WaiterAnswered ==
  \A c \in Callers :
    caller[c] \in {"check", "asleep"} ~>
      \/ caller[c] \notin {"check", "asleep"}
      \/ lateOk
      \/ \E t \in HostId : [](thread[t] = "loading" /\ proc[t] = "up")

-----------------------------------------------------------------------------
(* What the documentation says, without the exceptions above.  engines.rs: *)
(* a host is never started twice for one model.  Violated: a hung-up       *)
(* request is taken for the exit of a running host.                        *)
NeverTwoHosts ==
  \A g, h \in HostId : Running(g) /\ Running(h) => g = h
=============================================================================
