------------------------------ MODULE Lifecycle ------------------------------
(***************************************************************************)
(* The life of the process: main of main.c starts the workers, runs its    *)
(* own loop, is told to stop by a signal or by a worker that failed, asks  *)
(* the workers to exit, joins them and saves the fake DNS cache.  Threads  *)
(* interleave at the lock, at the system calls by which they see one       *)
(* another (pthread_create, ev_async_send, kill, signalfd, pthread_join)   *)
(* and where an event loop waits.                                          *)
(***************************************************************************)
EXTENDS Integers

CONSTANT W  \* worker threads, g_nthreads - 1

ASSUME WAssumption == W \in Nat

Workers == 1 .. W

VARIABLES
    main,            \* where main is
    next,            \* the worker that main starts or joins next
    g_thread_count,
    thread,          \* where each worker is
    evloop,          \* the worker's loop exists
    running,         \* guarded by g_thread_state_lock
    async,           \* ev_async_send to the worker's loop that it has not seen
    code,            \* exit codes of the workers
    exit_code,       \* of main
    signal           \* SIGINT or SIGTERM is pending: all threads block them

lifeVars == <<main, next, g_thread_count, thread, evloop, running, async, code,
              exit_code, signal>>

MainStates == {"starting", "setup", "looping", "cleanup", "failed", "joining",
               "saving", "returned"}
ThreadStates == {"none", "setup", "looping", "cleanup", "reporting", "exited"}
Codes == {0, 1}

LifeInit ==
    /\ main = "starting" /\ next = 1
    /\ g_thread_count = W
    /\ thread = [w \in Workers |-> "none"]
    /\ evloop = [w \in Workers |-> FALSE]
    /\ running = [w \in Workers |-> FALSE]
    /\ async = [w \in Workers |-> FALSE]
    /\ code = [w \in Workers |-> 0]
    /\ exit_code = 0
    /\ signal = FALSE

threadVars == <<thread, evloop, running, async, code>>

-----------------------------------------------------------------------------
(* main: the start of the workers.                                         *)

\* ev_loop_new, running = 1, pthread_create.
StartThread ==
    /\ main = "starting" /\ next <= W
    /\ evloop' = [evloop EXCEPT ![next] = TRUE]
    /\ running' = [running EXCEPT ![next] = TRUE]
    /\ thread' = [thread EXCEPT ![next] = "setup"]
    /\ next' = next + 1
    /\ UNCHANGED <<main, g_thread_count, async, code, exit_code, signal>>

\* ev_loop_new or pthread_create fails; what was done for this worker is undone.
StartFails ==
    /\ main = "starting" /\ next <= W
    /\ g_thread_count' = next - 1
    /\ exit_code' = 1
    /\ main' = "failed"
    /\ UNCHANGED <<next, threadVars, signal>>

AllStarted ==
    /\ main = "starting" /\ next > W
    /\ main' = "setup"
    /\ UNCHANGED <<next, g_thread_count, threadVars, exit_code, signal>>

-----------------------------------------------------------------------------
(* main: its own loop.                                                     *)

\* run_event_loop(NULL) up to ev_run: pools, signalfd, listeners, DNS socket.
MainSetup ==
    /\ main = "setup"
    /\ \/ main' = "looping" /\ UNCHANGED exit_code
       \/ main' = "cleanup" /\ exit_code' = 1
    /\ UNCHANGED <<next, g_thread_count, threadVars, signal>>

\* Mutant: only workers whose loop already runs are told.
Told_LoopingOnly ==
    {w \in 1 .. g_thread_count : running[w] /\ evloop[w] /\ thread[w] = "looping"}

Told == {w \in 1 .. g_thread_count : running[w] /\ evloop[w]}

\* The whole loop is under g_thread_state_lock.
request_worker_exits ==
    async' = [w \in Workers |-> async[w] \/ w \in Told]

on_signal_read ==
    /\ main = "looping" /\ signal
    /\ signal' = FALSE
    /\ request_worker_exits
    /\ main' = "cleanup"
    /\ UNCHANGED <<next, g_thread_count, thread, evloop, running, code, exit_code>>

\* The cleanup of run_event_loop; a failed loop has not asked the workers yet.
MainCleanup ==
    /\ main = "cleanup"
    /\ \/ exit_code = 0 /\ main' = "joining" /\ next' = 1
       \/ exit_code # 0 /\ main' = "failed" /\ UNCHANGED next
    /\ UNCHANGED <<g_thread_count, threadVars, exit_code, signal>>

\* Mutant: a failed start does not wait for the workers it has started.
MainFailed_NoJoin ==
    /\ main = "failed"
    /\ request_worker_exits
    /\ main' = "saving" /\ next' = 1
    /\ UNCHANGED <<g_thread_count, thread, evloop, running, code, exit_code, signal>>

\* THREAD_INIT_FAIL, or the loop of main returned an error.
MainFailed ==
    /\ main = "failed"
    /\ request_worker_exits
    /\ main' = "joining" /\ next' = 1
    /\ UNCHANGED <<g_thread_count, thread, evloop, running, code, exit_code, signal>>

\* Mutant: the codes of the workers are dropped.
JoinedCode_Dropped(w) == exit_code

\* The first code that is not 0 is kept; main's own comes first.
JoinedCode(w) == IF exit_code = 0 THEN code[w] ELSE exit_code

join_worker_threads ==
    /\ main = "joining"
    /\ \/ /\ next <= g_thread_count /\ thread[next] = "exited"
          /\ exit_code' = JoinedCode(next)
          /\ evloop' = [evloop EXCEPT ![next] = FALSE]
          /\ running' = [running EXCEPT ![next] = FALSE]
          /\ next' = next + 1
          /\ UNCHANGED main
       \/ /\ next > g_thread_count
          /\ main' = "saving"
          /\ UNCHANGED <<next, exit_code, evloop, running>>
    /\ UNCHANGED <<g_thread_count, thread, async, code, signal>>

\* fakedns_save, return.
Save ==
    /\ main = "saving"
    /\ main' = "returned"
    /\ UNCHANGED <<next, g_thread_count, threadVars, exit_code, signal>>

-----------------------------------------------------------------------------
(* A worker: run_event_loop(&g_threads[w - 1]).                            *)

Worker(w, from, to) ==
    /\ thread[w] = from
    /\ thread' = [thread EXCEPT ![w] = to]
    /\ UNCHANGED <<main, next, g_thread_count, evloop, exit_code>>

WorkerSetup(w) ==
    \/ Worker(w, "setup", "looping") /\ UNCHANGED <<running, async, code, signal>>
    \/ /\ Worker(w, "setup", "cleanup")
       /\ code' = [code EXCEPT ![w] = 1]
       /\ UNCHANGED <<running, async, signal>>

\* on_async_exit breaks the loop.  A send from before ev_run is not lost.
on_async_exit(w) ==
    /\ async[w]
    /\ Worker(w, "looping", "cleanup")
    /\ async' = [async EXCEPT ![w] = FALSE]
    /\ UNCHANGED <<running, code, signal>>

\* Sockets, sessions and pools are released; then running = 0 under the lock.
WorkerCleanup(w) ==
    /\ Worker(w, "cleanup", "reporting")
    /\ running' = [running EXCEPT ![w] = FALSE]
    /\ UNCHANGED <<async, code, signal>>

\* Mutant: a worker that failed ends in silence.
WorkerExit_Silent(w) ==
    /\ Worker(w, "reporting", "exited")
    /\ UNCHANGED <<running, async, code, signal>>

\* A worker that failed sends SIGTERM to the process.
WorkerExit(w) ==
    /\ Worker(w, "reporting", "exited")
    /\ signal' = (signal \/ code[w] # 0)
    /\ UNCHANGED <<running, async, code>>

-----------------------------------------------------------------------------
\* The user stops the proxy.
Signal ==
    /\ ~ signal /\ main # "returned"
    /\ signal' = TRUE
    /\ UNCHANGED <<main, next, g_thread_count, threadVars, exit_code>>

MainProgress ==
    \/ StartThread \/ StartFails \/ AllStarted \/ MainSetup
    \/ on_signal_read \/ MainCleanup \/ MainFailed \/ join_worker_threads \/ Save
WorkerProgress(w) == WorkerSetup(w) \/ on_async_exit(w) \/ WorkerCleanup(w) \/ WorkerExit(w)

LifeNext == MainProgress \/ Signal \/ \E w \in Workers : WorkerProgress(w)
LifeSpec == LifeInit /\ [][LifeNext]_lifeVars

\* Threads that can run are scheduled, and a loop sees what is pending for it.
FairLifeSpec ==
    /\ LifeSpec
    /\ WF_lifeVars(MainProgress)
    /\ \A w \in Workers : WF_lifeVars(WorkerProgress(w))

-----------------------------------------------------------------------------
LifeTypeOK ==
    /\ main \in MainStates /\ next \in 1 .. W + 1
    /\ g_thread_count \in 0 .. W
    /\ thread \in [Workers -> ThreadStates]
    /\ evloop \in [Workers -> BOOLEAN] /\ running \in [Workers -> BOOLEAN]
    /\ async \in [Workers -> BOOLEAN]
    /\ code \in [Workers -> Codes] /\ exit_code \in Codes
    /\ signal \in BOOLEAN

Alive(w) == thread[w] \notin {"none", "exited"}

\* The save and the end of main come when no other thread uses the fake DNS pool,
\* the selectors or its loop any more, and every worker still has its loop,
\* whatever failed in whatever order.
NobodyLeftBehind ==
    \A w \in Workers :
        /\ main \in {"saving", "returned"} => ~ Alive(w) /\ ~ evloop[w]
        /\ Alive(w) => evloop[w]

\* The process does not report success if one of its loops failed.
FailureIsReported ==
    main = "returned" /\ exit_code = 0 => \A w \in Workers : code[w] = 0

\* Once the exit is requested every worker that still runs has been told, also
\* one that is not yet in its loop: join waits for nobody that does not know.
JoinedIsTold ==
    main = "joining" =>
        \A w \in Workers : thread[w] \in {"setup", "looping"} => async[w]

\* A signal or a failure of any thread, at any moment of the start or later, ends
\* the process.
StopEnds ==
    (signal \/ exit_code # 0 \/ \E w \in Workers : code[w] # 0) ~> main = "returned"
=============================================================================
