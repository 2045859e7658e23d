--------------------------- MODULE LifecycleProofs ---------------------------
(***************************************************************************)
(* For any number of workers: the process is joined and told in the right  *)
(* order, and its exit code does not hide a failure.  The inductive        *)
(* invariant says, for each state of main, which workers exist, which      *)
(* still have a loop, and which have been asked to leave it.               *)
(***************************************************************************)
EXTENDS Lifecycle, TLAPS

\* Which workers exist: main creates them in order and counts them.
Created ==
    /\ main = "starting" => /\ exit_code = 0 /\ g_thread_count = W
                            /\ \A w \in Workers : thread[w] # "none" <=> w < next
    /\ main # "starting" => \A w \in Workers : thread[w] # "none" <=> w <= g_thread_count

\* running is what it says, and the lock makes it exact.
RunningIsExact ==
    \A w \in Workers : running[w] <=> thread[w] \in {"setup", "looping", "cleanup"}

BeforeJoin == {"starting", "setup", "looping", "cleanup", "failed"}
AfterJoin == {"saving", "returned"}

\* Loops are destroyed one by one as their threads are joined.
Loops ==
    /\ main \in BeforeJoin => \A w \in Workers : evloop[w] <=> thread[w] # "none"
    /\ main = "joining" => \A w \in Workers :
         /\ evloop[w] <=> next <= w /\ w <= g_thread_count
         /\ w < next => thread[w] \in {"none", "exited"}
    /\ main \in AfterJoin => \A w \in Workers : ~ evloop[w] /\ thread[w] \in {"none", "exited"}

\* Nobody is waited for who has not been told.
Asked == main = "joining" \/ (main = "cleanup" /\ exit_code = 0)
AskedIsTold == Asked => \A w \in Workers : thread[w] \in {"setup", "looping"} => async[w]

\* A worker has failed only once it has left its loop, and main learns of it when
\* it joins the worker.
Reported ==
    /\ \A w \in Workers : code[w] # 0 => thread[w] \in {"cleanup", "reporting", "exited"}
    /\ main = "joining" => \A w \in Workers : w < next /\ code[w] # 0 => exit_code # 0
    /\ main \in AfterJoin => \A w \in Workers : code[w] # 0 => exit_code # 0

LifeInv == LifeTypeOK /\ Created /\ RunningIsExact /\ Loops /\ AskedIsTold /\ Reported

-----------------------------------------------------------------------------
\* A process that has just been started satisfies the invariant.
LEMMA InitInv == LifeInit => LifeInv
<1> SUFFICES ASSUME LifeInit PROVE LifeInv
  OBVIOUS
<1> USE WAssumption DEF LifeInit, Workers, MainStates, ThreadStates, Codes, BeforeJoin, AfterJoin
<1>1. LifeTypeOK
  <2>1. main \in MainStates /\ next \in 1 .. W + 1 /\ g_thread_count \in 0 .. W
    OBVIOUS
  <2>2. thread \in [Workers -> ThreadStates] /\ code \in [Workers -> Codes] /\ exit_code \in Codes
    OBVIOUS
  <2>3. /\ evloop \in [Workers -> BOOLEAN] /\ running \in [Workers -> BOOLEAN]
        /\ async \in [Workers -> BOOLEAN] /\ signal \in BOOLEAN
    BY Zenon
  <2> QED
    BY <2>1, <2>2, <2>3, Zenon DEF LifeTypeOK
<1>2. Created /\ RunningIsExact
  BY DEF Created, RunningIsExact
<1>3. Loops /\ AskedIsTold /\ Reported
  BY DEF Loops, AskedIsTold, Asked, Reported
<1> QED
  BY <1>1, <1>2, <1>3 DEF LifeInv

\* The steps of main preserve the invariant.
LEMMA MainKeeps == LifeInv /\ MainProgress => LifeInv'
<1> USE WAssumption DEF LifeInv, LifeTypeOK, MainStates, ThreadStates, Codes, BeforeJoin,
        AfterJoin, Workers, threadVars
<1> SUFFICES ASSUME LifeInv, MainProgress PROVE LifeInv'
  OBVIOUS
<1>1. CASE StartThread
  <2>1. LifeTypeOK'
    BY <1>1 DEF StartThread
  <2>2. Created'
    BY <1>1 DEF StartThread, Created
  <2>3. RunningIsExact'
    BY <1>1 DEF StartThread, RunningIsExact
  <2>4. Loops'
    BY <1>1 DEF StartThread, Created, Loops
  <2>5. AskedIsTold'
    BY <1>1 DEF StartThread, Created, RunningIsExact, Loops, AskedIsTold, Asked
  <2>6. Reported'
    BY <1>1 DEF StartThread, Created, Loops, Reported
  <2> QED
    BY <2>1, <2>2, <2>3, <2>4, <2>5, <2>6
<1>2. CASE StartFails
  <2>1. LifeTypeOK'
    BY <1>2 DEF StartFails
  <2>2. Created'
    BY <1>2 DEF StartFails, Created
  <2>3. RunningIsExact'
    BY <1>2 DEF StartFails, RunningIsExact
  <2>4. Loops'
    BY <1>2 DEF StartFails, Created, Loops
  <2>5. AskedIsTold'
    BY <1>2 DEF StartFails, Created, RunningIsExact, Loops, AskedIsTold, Asked
  <2>6. Reported'
    BY <1>2 DEF StartFails, Created, Loops, Reported
  <2> QED
    BY <2>1, <2>2, <2>3, <2>4, <2>5, <2>6
<1>3. CASE AllStarted
  <2>1. LifeTypeOK'
    BY <1>3 DEF AllStarted
  <2>2. Created'
    BY <1>3 DEF AllStarted, Created
  <2>3. RunningIsExact'
    BY <1>3 DEF AllStarted, RunningIsExact
  <2>4. Loops'
    BY <1>3 DEF AllStarted, Created, Loops
  <2>5. AskedIsTold'
    BY <1>3 DEF AllStarted, Created, RunningIsExact, Loops, AskedIsTold, Asked
  <2>6. Reported'
    BY <1>3 DEF AllStarted, Created, Loops, Reported
  <2> QED
    BY <2>1, <2>2, <2>3, <2>4, <2>5, <2>6
<1>4. CASE MainSetup
  <2>1. LifeTypeOK'
    BY <1>4 DEF MainSetup
  <2>2. Created'
    BY <1>4 DEF MainSetup, Created
  <2>3. RunningIsExact'
    BY <1>4 DEF MainSetup, RunningIsExact
  <2>4. Loops'
    BY <1>4 DEF MainSetup, Created, Loops
  <2>5. AskedIsTold'
    BY <1>4 DEF MainSetup, Created, RunningIsExact, Loops, AskedIsTold, Asked
  <2>6. Reported'
    BY <1>4 DEF MainSetup, Created, Loops, Reported
  <2> QED
    BY <2>1, <2>2, <2>3, <2>4, <2>5, <2>6
<1>5. CASE on_signal_read
  <2>1. LifeTypeOK'
    BY <1>5 DEF on_signal_read, request_worker_exits, Told
  <2>2. Created'
    BY <1>5 DEF on_signal_read, request_worker_exits, Told, Created
  <2>3. RunningIsExact'
    BY <1>5 DEF on_signal_read, request_worker_exits, Told, RunningIsExact
  <2>4. Loops'
    BY <1>5 DEF on_signal_read, request_worker_exits, Told, Created, Loops
  <2>5. AskedIsTold'
    BY <1>5 DEF on_signal_read, request_worker_exits, Told, Created, RunningIsExact, Loops, AskedIsTold, Asked
  <2>6. Reported'
    BY <1>5 DEF on_signal_read, request_worker_exits, Told, Created, Loops, Reported
  <2> QED
    BY <2>1, <2>2, <2>3, <2>4, <2>5, <2>6
<1>6. CASE MainCleanup
  <2>1. LifeTypeOK'
    BY <1>6 DEF MainCleanup
  <2>2. Created'
    BY <1>6 DEF MainCleanup, Created
  <2>3. RunningIsExact'
    BY <1>6 DEF MainCleanup, RunningIsExact
  <2>4. Loops'
    BY <1>6 DEF MainCleanup, Created, Loops
  <2>5. AskedIsTold'
    BY <1>6 DEF MainCleanup, Created, RunningIsExact, Loops, AskedIsTold, Asked
  <2>6. Reported'
    BY <1>6 DEF MainCleanup, Created, Loops, Reported
  <2> QED
    BY <2>1, <2>2, <2>3, <2>4, <2>5, <2>6
<1>7. CASE MainFailed
  <2>1. LifeTypeOK'
    BY <1>7 DEF MainFailed, request_worker_exits, Told
  <2>2. Created'
    BY <1>7 DEF MainFailed, request_worker_exits, Told, Created
  <2>3. RunningIsExact'
    BY <1>7 DEF MainFailed, request_worker_exits, Told, RunningIsExact
  <2>4. Loops'
    BY <1>7 DEF MainFailed, request_worker_exits, Told, Created, Loops
  <2>5. AskedIsTold'
    BY <1>7 DEF MainFailed, request_worker_exits, Told, Created, RunningIsExact, Loops, AskedIsTold, Asked
  <2>6. Reported'
    BY <1>7 DEF MainFailed, request_worker_exits, Told, Created, Loops, Reported
  <2> QED
    BY <2>1, <2>2, <2>3, <2>4, <2>5, <2>6
<1>8. CASE join_worker_threads
  <2>1. LifeTypeOK'
    <3>1. CASE next <= g_thread_count
      <4>1. next \in Workers /\ next' \in 1 .. W + 1
        BY <1>8, <3>1 DEF join_worker_threads
      <4>2. exit_code' \in Codes
        BY <1>8, <3>1, <4>1 DEF join_worker_threads, JoinedCode
      <4> QED
        BY <1>8, <3>1, <4>1, <4>2 DEF join_worker_threads
    <3>2. CASE ~ next <= g_thread_count
      BY <1>8, <3>2 DEF join_worker_threads
    <3> QED
      BY <3>1, <3>2
  <2>2. Created'
    BY <1>8 DEF join_worker_threads, JoinedCode, Created
  <2>3. RunningIsExact'
    BY <1>8 DEF join_worker_threads, JoinedCode, RunningIsExact
  <2>4. Loops'
    BY <1>8 DEF join_worker_threads, JoinedCode, Created, Loops
  <2>5. AskedIsTold'
    BY <1>8 DEF join_worker_threads, JoinedCode, Created, RunningIsExact, Loops, AskedIsTold, Asked
  <2>6. Reported'
    BY <1>8 DEF join_worker_threads, JoinedCode, Created, Loops, Reported
  <2> QED
    BY <2>1, <2>2, <2>3, <2>4, <2>5, <2>6
<1>9. CASE Save
  <2>1. LifeTypeOK'
    BY <1>9 DEF Save
  <2>2. Created'
    BY <1>9 DEF Save, Created
  <2>3. RunningIsExact'
    BY <1>9 DEF Save, RunningIsExact
  <2>4. Loops'
    BY <1>9 DEF Save, Created, Loops
  <2>5. AskedIsTold'
    BY <1>9 DEF Save, Created, RunningIsExact, Loops, AskedIsTold, Asked
  <2>6. Reported'
    BY <1>9 DEF Save, Created, Loops, Reported
  <2> QED
    BY <2>1, <2>2, <2>3, <2>4, <2>5, <2>6
<1> QED
  BY <1>1, <1>2, <1>3, <1>4, <1>5, <1>6, <1>7, <1>8, <1>9 DEF MainProgress

\* The steps of a worker preserve the invariant.
LEMMA WorkerKeeps == ASSUME LifeInv, NEW w \in Workers, WorkerProgress(w) PROVE LifeInv'
<1> USE WAssumption DEF LifeInv, LifeTypeOK, MainStates, ThreadStates, Codes, BeforeJoin,
        AfterJoin, Workers, threadVars, Worker
<1>1. CASE WorkerSetup(w)
  <2>1. LifeTypeOK'
    BY <1>1 DEF WorkerSetup
  <2>2. Created'
    BY <1>1 DEF WorkerSetup, Created
  <2>3. RunningIsExact'
    BY <1>1 DEF WorkerSetup, RunningIsExact
  <2>4. Loops'
    BY <1>1 DEF WorkerSetup, Created, Loops
  <2>5. AskedIsTold'
    BY <1>1 DEF WorkerSetup, Created, RunningIsExact, Loops, AskedIsTold, Asked
  <2>6. Reported'
    BY <1>1 DEF WorkerSetup, Created, Loops, Reported
  <2> QED
    BY <2>1, <2>2, <2>3, <2>4, <2>5, <2>6
<1>2. CASE on_async_exit(w)
  <2>1. LifeTypeOK'
    BY <1>2 DEF on_async_exit
  <2>2. Created'
    BY <1>2 DEF on_async_exit, Created
  <2>3. RunningIsExact'
    BY <1>2 DEF on_async_exit, RunningIsExact
  <2>4. Loops'
    BY <1>2 DEF on_async_exit, Created, Loops
  <2>5. AskedIsTold'
    BY <1>2 DEF on_async_exit, Created, RunningIsExact, Loops, AskedIsTold, Asked
  <2>6. Reported'
    BY <1>2 DEF on_async_exit, Created, Loops, Reported
  <2> QED
    BY <2>1, <2>2, <2>3, <2>4, <2>5, <2>6
<1>3. CASE WorkerCleanup(w)
  <2>1. LifeTypeOK'
    BY <1>3 DEF WorkerCleanup
  <2>2. Created'
    BY <1>3 DEF WorkerCleanup, Created
  <2>3. RunningIsExact'
    BY <1>3 DEF WorkerCleanup, RunningIsExact
  <2>4. Loops'
    BY <1>3 DEF WorkerCleanup, Created, Loops
  <2>5. AskedIsTold'
    BY <1>3 DEF WorkerCleanup, Created, RunningIsExact, Loops, AskedIsTold, Asked
  <2>6. Reported'
    BY <1>3 DEF WorkerCleanup, Created, Loops, Reported
  <2> QED
    BY <2>1, <2>2, <2>3, <2>4, <2>5, <2>6
<1>4. CASE WorkerExit(w)
  <2>1. LifeTypeOK'
    BY <1>4 DEF WorkerExit
  <2>2. Created'
    BY <1>4 DEF WorkerExit, Created
  <2>3. RunningIsExact'
    BY <1>4 DEF WorkerExit, RunningIsExact
  <2>4. Loops'
    BY <1>4 DEF WorkerExit, Created, Loops
  <2>5. AskedIsTold'
    BY <1>4 DEF WorkerExit, Created, RunningIsExact, Loops, AskedIsTold, Asked
  <2>6. Reported'
    BY <1>4 DEF WorkerExit, Created, Loops, Reported
  <2> QED
    BY <2>1, <2>2, <2>3, <2>4, <2>5, <2>6
<1> QED
  BY <1>1, <1>2, <1>3, <1>4 DEF WorkerProgress

\* The invariant holds in every behaviour: a signal changes nothing it speaks of.
LEMMA InvHolds == LifeSpec => []LifeInv
<1>1. LifeInv /\ [LifeNext]_lifeVars => LifeInv'
  <2> SUFFICES ASSUME LifeInv, [LifeNext]_lifeVars PROVE LifeInv'
    OBVIOUS
  <2>1. CASE MainProgress
    BY <2>1, MainKeeps
  <2>2. CASE \E w \in Workers : WorkerProgress(w)
    BY <2>2, WorkerKeeps
  <2>3. CASE Signal \/ UNCHANGED lifeVars
    <3>1. /\ signal' \in BOOLEAN
          /\ UNCHANGED <<main, next, g_thread_count, thread, evloop, running, async, code,
                         exit_code>>
      BY <2>3 DEF Signal, lifeVars, threadVars, LifeInv, LifeTypeOK
    <3>2. LifeTypeOK'
      BY <3>1 DEF LifeInv, LifeTypeOK
    <3>3. Created' /\ RunningIsExact' /\ Loops'
      BY <3>1 DEF LifeInv, Created, RunningIsExact, Loops
    <3>4. AskedIsTold' /\ Reported'
      BY <3>1 DEF LifeInv, AskedIsTold, Asked, Reported
    <3> QED
      BY <3>2, <3>3, <3>4 DEF LifeInv
  <2> QED
    BY <2>1, <2>2, <2>3 DEF LifeNext
<1> QED
  BY InitInv, <1>1, PTL DEF LifeSpec

-----------------------------------------------------------------------------
\* The variables of main.c keep their types.
THEOREM LifeTypeCorrect == LifeSpec => []LifeTypeOK
<1>1. LifeInv => LifeTypeOK
  BY DEF LifeInv
<1> QED
  BY <1>1, InvHolds, PTL

\* main saves the cache and returns only when no worker is alive, and no worker
\* that is alive has lost its loop, for any number of workers.
THEOREM NobodyIsLeftBehind == LifeSpec => []NobodyLeftBehind
<1>1. LifeInv => NobodyLeftBehind
  BY WAssumption DEF LifeInv, LifeTypeOK, Created, Loops, NobodyLeftBehind, Alive, Told, MainStates,
     BeforeJoin, AfterJoin, Workers
<1> QED
  BY <1>1, InvHolds, PTL

\* join never waits for a worker that has not been asked to leave its loop.
THEOREM EveryoneJoinedIsTold == LifeSpec => []JoinedIsTold
<1>1. LifeInv => JoinedIsTold
  BY DEF LifeInv, AskedIsTold, Asked, JoinedIsTold
<1> QED
  BY <1>1, InvHolds, PTL

\* The exit code of the process is not 0 if a worker failed.
THEOREM FailuresAreReported == LifeSpec => []FailureIsReported
<1>1. LifeInv => FailureIsReported
  BY DEF LifeInv, Reported, AfterJoin, FailureIsReported
<1> QED
  BY <1>1, InvHolds, PTL
=============================================================================
