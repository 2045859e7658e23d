--------------------------- MODULE ServerSelector ---------------------------
(***************************************************************************)
(* One selector (TCP or UDP) of server_selector.c.  The main event loop    *)
(* runs a round of probes at a time; worker threads report what their own  *)
(* connections met.  Every action is one section under selector->lock, or  *)
(* one callback of the main loop up to its next lock section, so the       *)
(* interleavings are those of the locks.  Of a worker's connection only    *)
(* what the selector sees is kept: the server it goes to and the failure   *)
(* epoch read before it was opened.  UDP sessions report nothing, so the   *)
(* UDP selector is this module with Clients = {}.                          *)
(***************************************************************************)
EXTENDS SelectorOps

CONSTANTS
    Clients,     \* business connections of the worker threads
    UINT64_MAX,  \* a failure epoch wraps to 0 after this value
    Scores,      \* what ss_compute_score may return once there is a sample
    MayFail,     \* servers a connection or a probe may fail at
    MayAnswer,   \* servers that may give an authenticated answer
    LocalErrors  \* TRUE if sockets or crypto may fail locally

ASSUME EpochAssumption == UINT64_MAX \in Nat \ {0}
ASSUME ScoresAssumption == Scores \subseteq 0 .. UINT32_MAX
\* A server that does not answer makes the timeout fail: no third kind.
ASSUME EnvAssumption == MayFail \cup MayAnswer = Servers /\ LocalErrors \in BOOLEAN

VARIABLES
    health, failure_epoch, score,  \* guarded by selector->lock
    best_idx,          \* published, readers do not lock
    probes_remaining,  \* main loop only
    probe,             \* probe[i]: attempt_epoch of the probe of server i
    cur,               \* next server of the loop that starts a round, N if none
    finishing,         \* the result of a probe is recorded, ss_probe_done is due
    stopped,           \* server_selector_stop has run
    attempt,           \* attempt[c]: server and epoch of a business connection
    wrapped            \* history: some failure epoch wrapped around

selectorVars == <<health, failure_epoch, score, best_idx, probes_remaining,
                  probe, cur, finishing, stopped, attempt, wrapped>>

Epochs == 0 .. UINT64_MAX
NoAttempt == [srv |-> None, epoch |-> 0, fresh |-> FALSE]

\* fresh is history: no failure of the server was recorded since the snapshot.
Snapshot(i) == [srv |-> i, epoch |-> failure_epoch[i], fresh |-> TRUE]
Evidence == [srv : Servers, epoch : Epochs, fresh : BOOLEAN]

Overtaken(e, i) == IF e.srv = i THEN [e EXCEPT !.fresh = FALSE] ELSE e

TypeOK ==
    /\ health \in [Servers -> Health]
    /\ failure_epoch \in [Servers -> Epochs]
    /\ score \in [Servers -> 0 .. UINT32_MAX]
    /\ best_idx \in Servers
    /\ probes_remaining \in 0 .. N
    /\ probe \in [Servers -> Evidence \cup {NoAttempt}]
    /\ cur \in 0 .. N
    /\ finishing \in BOOLEAN
    /\ stopped \in BOOLEAN
    /\ attempt \in [Clients -> Evidence \cup {NoAttempt}]
    /\ wrapped \in BOOLEAN

SelectorInit ==
    /\ health = [i \in Servers |-> "unknown"]
    /\ failure_epoch = [i \in Servers |-> 0]
    /\ score = [i \in Servers |-> UINT32_MAX]
    /\ best_idx = 0
    /\ probes_remaining = 0
    /\ probe = [i \in Servers |-> NoAttempt]
    /\ cur = N
    /\ finishing = FALSE
    /\ stopped = FALSE
    /\ attempt = [c \in Clients |-> NoAttempt]
    /\ wrapped = FALSE

-----------------------------------------------------------------------------
(* The sections under selector->lock.                                      *)

\* failure_epoch[i]++ and health[i] = FAILED; sc is the scores after it.  The
\* new values of the evidence of probes and connections are pr and at.
RecordFailure(i, sc, pr, at) ==
    /\ failure_epoch' = [failure_epoch EXCEPT ![i] = IF @ = UINT64_MAX THEN 0 ELSE @ + 1]
    /\ wrapped' = (wrapped \/ failure_epoch[i] = UINT64_MAX)
    /\ health' = [health EXCEPT ![i] = "failed"]
    /\ score' = sc
    /\ best_idx' = ss_update_best_locked(health', sc, best_idx, i, FALSE)
    /\ probe' = [j \in Servers |-> Overtaken(pr[j], i)]
    /\ attempt' = [c \in Clients |-> Overtaken(at[c], i)]

\* Mutant: an answer counts whenever its attempt began.
HealthAfterAnswer_AnyEpoch(i, epoch) == [health EXCEPT ![i] = "ok"]

\* An answer counts only if no failure was recorded since its attempt began.
HealthAfterAnswer(i, epoch) ==
    IF epoch = failure_epoch[i] THEN [health EXCEPT ![i] = "ok"] ELSE health

\* ss_record_probe with errored = FALSE updates the best whatever the epoch.
RecordProbeAnswer(i, sc) ==
    /\ score' = [score EXCEPT ![i] = sc]
    /\ health' = HealthAfterAnswer(i, probe[i].epoch)
    /\ best_idx' = ss_update_best_locked(health', score', best_idx, None, FALSE)
    /\ probe' = [probe EXCEPT ![i] = NoAttempt]
    /\ UNCHANGED <<failure_epoch, attempt, wrapped>>

-----------------------------------------------------------------------------
(* The main loop.  It is free to take another event when it is neither in  *)
(* the loop that starts a round nor between the two halves of a probe end. *)

LoopIdle == cur = N /\ ~ finishing /\ ~ stopped

\* Mutant: a round may start while the one before it is still running.
CheckTimer_Overlap ==
    /\ LoopIdle /\ N > 1
    /\ probes_remaining' = N
    /\ cur' = 0
    /\ UNCHANGED <<health, failure_epoch, score, best_idx, probe, finishing,
                   stopped, attempt, wrapped>>

\* check_timer_cb (and selector_start): main.c starts the selector if N > 1.
CheckTimer ==
    /\ LoopIdle /\ N > 1
    /\ probes_remaining = 0
    /\ probes_remaining' = N
    /\ cur' = 0
    /\ UNCHANGED <<health, failure_epoch, score, best_idx, probe, finishing,
                   stopped, attempt, wrapped>>

\* tcp_probe_start / udp_probe_start of the next server: under way, skipped
\* because of a local error, or failed at once in connect, send or sendto.
ProbeStart ==
    /\ cur < N /\ ~ finishing
    /\ cur' = cur + 1
    /\ \/ /\ probe' = [probe EXCEPT ![cur] = Snapshot(cur)]
          /\ UNCHANGED <<health, failure_epoch, score, best_idx, finishing,
                         attempt, wrapped>>
       \/ /\ LocalErrors
          /\ finishing' = TRUE
          /\ UNCHANGED <<health, failure_epoch, score, best_idx, probe, attempt,
                         wrapped>>
       \/ /\ cur \in MayFail
          /\ finishing' = TRUE
          /\ \E sc \in Scores :
                RecordFailure(cur, [score EXCEPT ![cur] = sc], probe, attempt)
    /\ UNCHANGED <<probes_remaining, stopped>>

\* tcp_probe_finish / udp_probe_finish up to the end of ss_record_probe.
ProbeAnswered(i) ==
    /\ LoopIdle
    /\ probe[i] # NoAttempt /\ i \in MayAnswer
    /\ finishing' = TRUE
    /\ \E sc \in Scores : RecordProbeAnswer(i, sc)
    /\ UNCHANGED <<probes_remaining, cur, stopped>>

\* A socket error, a refused answer or the timeout of SS_CHECK_TIMEOUT.
ProbeErrored(i) ==
    /\ LoopIdle
    /\ probe[i] # NoAttempt /\ i \in MayFail
    /\ finishing' = TRUE
    /\ \E sc \in Scores :
          RecordFailure(i, [score EXCEPT ![i] = sc],
                        [probe EXCEPT ![i] = NoAttempt], attempt)
    /\ UNCHANGED <<probes_remaining, cur, stopped>>

\* Mutant: a skipped probe is not counted down.
ProbeSkipped_NotCounted(i) ==
    /\ LoopIdle
    /\ probe[i] # NoAttempt /\ LocalErrors
    /\ probe' = [probe EXCEPT ![i] = NoAttempt]
    /\ UNCHANGED <<health, failure_epoch, score, best_idx, probes_remaining,
                   cur, finishing, stopped, attempt, wrapped>>

\* tcp_probe_socket_error with a local errno: nothing is recorded.
ProbeSkipped(i) ==
    /\ LoopIdle
    /\ probe[i] # NoAttempt /\ LocalErrors
    /\ finishing' = TRUE
    /\ probe' = [probe EXCEPT ![i] = NoAttempt]
    /\ UNCHANGED <<health, failure_epoch, score, best_idx, probes_remaining,
                   cur, stopped, attempt, wrapped>>

\* ss_probe_done: the last probe of a round may switch on score alone.
ProbeDone ==
    /\ finishing
    /\ finishing' = FALSE
    /\ probes_remaining' = probes_remaining - 1
    /\ best_idx' = IF probes_remaining' = 0
                   THEN ss_update_best_locked(health, score, best_idx, None, TRUE)
                   ELSE best_idx
    /\ UNCHANGED <<health, failure_epoch, score, probe, cur, stopped, attempt,
                   wrapped>>

Stop ==
    /\ LoopIdle
    /\ stopped' = TRUE
    /\ probe' = [i \in Servers |-> NoAttempt]
    /\ probes_remaining' = 0
    /\ UNCHANGED <<health, failure_epoch, score, best_idx, cur, finishing,
                   attempt, wrapped>>

-----------------------------------------------------------------------------
(* The worker threads.                                                     *)

loopVars == <<probes_remaining, cur, finishing, stopped>>

\* server_selector_tcp_attempt, before each connect of a session.
Attempt(c, i) ==
    /\ attempt' = [attempt EXCEPT ![c] = Snapshot(i)]
    /\ UNCHANGED <<health, failure_epoch, score, best_idx, probe, wrapped>>
    /\ UNCHANGED loopVars

\* server_selector_report_tcp_failure; the connection is given up.
ReportFailure(c) ==
    /\ attempt[c] # NoAttempt /\ attempt[c].srv \in MayFail
    /\ RecordFailure(attempt[c].srv, score, probe, [attempt EXCEPT ![c] = NoAttempt])
    /\ UNCHANGED loopVars

\* server_selector_report_tcp_success on the first authenticated response.
ReportSuccess(c) ==
    LET e == attempt[c]
    IN  /\ e # NoAttempt /\ e.srv \in MayAnswer
        /\ health' = HealthAfterAnswer(e.srv, e.epoch)
        /\ best_idx' = IF e.epoch = failure_epoch[e.srv]
                       THEN ss_update_best_locked(health', score, best_idx, None, FALSE)
                       ELSE best_idx
        /\ attempt' = [attempt EXCEPT ![c] = NoAttempt]
        /\ UNCHANGED <<failure_epoch, score, probe, wrapped>>
        /\ UNCHANGED loopVars

\* The session ends without a report (a local error or the client left).
Abandon(c) ==
    /\ attempt[c] # NoAttempt
    /\ attempt' = [attempt EXCEPT ![c] = NoAttempt]
    /\ UNCHANGED <<health, failure_epoch, score, best_idx, probe, wrapped>>
    /\ UNCHANGED loopVars

-----------------------------------------------------------------------------
ProbeStep(i) == ProbeAnswered(i) \/ ProbeErrored(i) \/ ProbeSkipped(i)
MainStep == CheckTimer \/ ProbeStart \/ ProbeDone \/ Stop \/ \E i \in Servers : ProbeStep(i)
ClientStep(c) ==
    \/ \E i \in Servers : Attempt(c, i)
    \/ ReportFailure(c) \/ ReportSuccess(c) \/ Abandon(c)

SelectorNext == MainStep \/ \E c \in Clients : ClientStep(c)

SelectorSpec == SelectorInit /\ [][SelectorNext]_selectorVars

\* The timer repeats, the loop that starts a round and ss_probe_done run to
\* their end, and each probe is ended by its timeout at the latest.
SelectorFairness ==
    /\ WF_selectorVars(CheckTimer) /\ WF_selectorVars(ProbeStart)
    /\ WF_selectorVars(ProbeDone)
    /\ \A i \in Servers : WF_selectorVars(ProbeStep(i))

FairSelectorSpec == SelectorSpec /\ SelectorFairness

-----------------------------------------------------------------------------
(* Safety.                                                                 *)

\* Whenever no thread is inside the lock, the index that the lock-free readers
\* of server_selector_best_tcp/udp see is a server no other server out-ranks in
\* health, whatever order probes and business reports arrived in.
BestRankMinimal ==
    \A i \in Servers : ss_health_rank(health[best_idx]) <= ss_health_rank(health[i])

\* probes_remaining counts exactly the probes that still owe an ss_probe_done:
\* those under way, those the loop has yet to start and the one between its two
\* lock sections.  So it reaches 0 with the last probe of the round, also when
\* probes end inside the loop of selector_start_probe_round.
Outstanding == {i \in Servers : probe[i] # NoAttempt}
RoundAccounting ==
    probes_remaining = Cardinality(Outstanding) + (N - cur) + (IF finishing THEN 1 ELSE 0)

\* The scan that ss_candidate_locked makes of the server table, for every set of
\* tried servers a session can hold, returns the server its result is specified
\* as: unbeaten among the untried, the published best preferred, then the lowest.
CandidateIsTheScan ==
    \A tried \in SUBSET Servers :
        ss_candidate_scan(health, score, best_idx, tried)
            = ss_candidate_locked(health, score, best_idx, tried)

\* "A response from an older connection must not erase a newer failure": a step
\* that turns a failed server healthy rests on a probe or a connection begun
\* after the last failure recorded for it, as long as no epoch wrapped around.
Recovery(i) == health[i] = "failed" /\ health'[i] = "ok"
FreshEvidence(i) ==
    \/ probe[i].fresh /\ probe'[i] = NoAttempt
    \/ \E c \in Clients : /\ attempt[c].srv = i /\ attempt[c].fresh
                         /\ attempt'[c] = NoAttempt
NoStaleRecovery ==
    [][\A i \in Servers : Recovery(i) /\ ~ wrapped => FreshEvidence(i)]_selectorVars

\* "With every node failed, keep trying alternatives": recording a failure of the
\* published best always publishes another server, if there is one.
FailureRecorded(i) == failure_epoch'[i] # failure_epoch[i]
FailedBestMoves ==
    [][N > 1 /\ FailureRecorded(best_idx) => best_idx' # best_idx]_selectorVars

\* "During a round, scores contain a mix of old and new samples": the best moves
\* between two servers of the same health, without a failure of the old one, only
\* when no probe of the round is outstanding, and for a gain over the threshold.
ScoreSwitch ==
    /\ best_idx' # best_idx
    /\ health'[best_idx'] = health'[best_idx]
    /\ ~ FailureRecorded(best_idx)
ScoreSwitchNeedsWholeRound ==
    [][ScoreSwitch => /\ probes_remaining' = 0 /\ cur = N
                      /\ \A i \in Servers : probe[i] = NoAttempt
                      /\ score[best_idx] - score[best_idx'] > SS_SWITCH_THRESHOLD
      ]_selectorVars

-----------------------------------------------------------------------------
(* Liveness.                                                               *)

\* Every round of probes ends (or the selector is stopped), so the next timer
\* is not turned away for ever by "probes_remaining > 0".
RoundCompletes == probes_remaining > 0 ~> probes_remaining = 0

\* What the servers do from some time on.  A well one: no failure of it is
\* recorded.  A sick one: nothing of it succeeds.  For both, no local error keeps
\* the probe of it from telling.
AnswerRecorded(i) ==
    \/ ProbeAnswered(i)
    \/ \E c \in Clients : attempt[c].srv = i /\ ReportSuccess(c)
LocalSkip(i) ==
    /\ ~ FailureRecorded(i)
    /\ ProbeSkipped(i) \/ (cur = i /\ ProbeStart /\ finishing')
Well(i) == <>[][~ FailureRecorded(i) /\ ~ LocalSkip(i)]_selectorVars
Sick(i) == <>[][~ AnswerRecorded(i) /\ ~ LocalSkip(i)]_selectorVars

\* If one server is well and the others are sick, new connections are in the end
\* directed to that one for good: the reports of probes and of connections do not
\* keep the best moving.
Convergence ==
    \A i \in Servers :
        [](~ stopped) /\ Well(i) /\ (\A j \in Servers \ {i} : Sick(j))
            => <>[](best_idx = i)
=============================================================================
