----------------------------- MODULE SelectorOps -----------------------------
(***************************************************************************)
(* The ranking of shadowsocks servers in server_selector.c, as operators:  *)
(* which of two servers is better, which server a scan of the table picks, *)
(* and when the published best index moves.  One selector's fields are the *)
(* arguments: h is health[], s the scores, b the published best index.     *)
(* The bit mask of tried servers is the set of the bits that are on.       *)
(***************************************************************************)
EXTENDS Integers, FiniteSetsExt

CONSTANTS
    N,                    \* g_ss_server_count
    SS_SWITCH_THRESHOLD,  \* smallest score gain that is not worth a switch
    UINT32_MAX            \* the score of a server without samples

ASSUME NAssumption == N \in Nat \ {0}
ASSUME ScoreAssumption == SS_SWITCH_THRESHOLD \in Nat /\ UINT32_MAX \in Nat

Servers == 0 .. N - 1
Health == {"unknown", "ok", "failed"}
None == -1

ss_health_rank(health) ==
    CASE health = "ok" -> 0 [] health = "unknown" -> 1 [] OTHER -> 2

\* Lower rank first; between equal ranks, strictly lower score.
ss_better_locked(h, s, a, b) ==
    \/ ss_health_rank(h[a]) < ss_health_rank(h[b])
    \/ ss_health_rank(h[a]) = ss_health_rank(h[b]) /\ s[a] < s[b]

\* Mutant: the scan forgets the published best it should start from.
ss_candidate_scan_NoStart(h, s, b, tried) ==
    LET scan[i \in 0 .. N] ==
            IF i = 0 THEN None
            ELSE LET best == scan[i - 1]
                 IN  IF i - 1 \in tried THEN best
                     ELSE IF best = None \/ ss_better_locked(h, s, i - 1, best)
                          THEN i - 1 ELSE best
    IN  scan[N]

\* The scan of the server table as it is written: it starts from the published
\* best unless that one was tried, and moves only to a strictly better server.
ss_candidate_scan(h, s, b, tried) ==
    LET start == IF b \in Servers \ tried THEN b ELSE None
        scan[i \in 0 .. N] ==
            IF i = 0 THEN start
            ELSE LET best == scan[i - 1]
                 IN  IF i - 1 \in tried THEN best
                     ELSE IF best = None \/ ss_better_locked(h, s, i - 1, best)
                          THEN i - 1 ELSE best
    IN  scan[N]

\* What the scan returns: an untried server no untried server is better than,
\* the published best if it is one of those, else the first of them.
Untried(tried) == Servers \ tried
Unbeaten(h, s, tried) ==
    {i \in Untried(tried) : \A j \in Untried(tried) : ~ ss_better_locked(h, s, j, i)}

ss_candidate_locked(h, s, b, tried) ==
    IF Untried(tried) = {} THEN None
    ELSE IF b \in Unbeaten(h, s, tried) THEN b
    ELSE Min(Unbeaten(h, s, tried))

\* Mutants of ss_update_best_locked: a failure of the best does not force it out;
\* any failure forces it out; health gains wait for the end of the round; score
\* gains do not.
UpdatedBest(h, s, prev, force, health, allow) ==
    LET first == ss_candidate_locked(h, s, prev, {})
        best  == IF force /\ first = prev
                 THEN ss_candidate_locked(h, s, prev, {prev}) ELSE first
        gain  == s[best] < s[prev] /\ s[prev] - s[best] > SS_SWITCH_THRESHOLD
    IN  IF force \/ (health /\ h[best] # h[prev]) \/ (allow /\ gain) THEN best ELSE prev
ss_update_best_locked_NoForce(h, s, prev, failed, allow) ==
    UpdatedBest(h, s, prev, FALSE, TRUE, allow)
ss_update_best_locked_AnyForce(h, s, prev, failed, allow) ==
    UpdatedBest(h, s, prev, failed # None /\ N > 1, TRUE, allow)
ss_update_best_locked_LateHealth(h, s, prev, failed, allow) ==
    UpdatedBest(h, s, prev, failed = prev /\ N > 1, allow, allow)
ss_update_best_locked_EarlyScore(h, s, prev, failed, allow) ==
    UpdatedBest(h, s, prev, failed = prev /\ N > 1, TRUE, TRUE)

\* The best index after ss_update_best_locked: failed is the server whose
\* failure was just recorded (or None), allow whether a mere score gain may
\* move it.
ss_update_best_locked(h, s, prev, failed, allow) ==
    LET first == ss_candidate_locked(h, s, prev, {})
        force == failed = prev /\ N > 1
        best  == IF force /\ first = prev
                 THEN ss_candidate_locked(h, s, prev, {prev}) ELSE first
        gain  == s[best] < s[prev] /\ s[prev] - s[best] > SS_SWITCH_THRESHOLD
    IN  IF force \/ h[best] # h[prev] \/ (allow /\ gain) THEN best ELSE prev
=============================================================================
