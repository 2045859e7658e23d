------------------------ MODULE ServerSelectorProofs ------------------------
(***************************************************************************)
(* What TLAPS proves of ServerSelector for every number of servers and     *)
(* clients, every epoch width and every set of scores.                     *)
(***************************************************************************)
EXTENDS ServerSelector, WellFoundedInduction, FiniteSetTheorems, TLAPS

-----------------------------------------------------------------------------
(* The ranking.                                                            *)

Ranked(h, s) == h \in [Servers -> Health] /\ s \in [Servers -> 0 .. UINT32_MAX]

\* The ranks of ss_health_rank tell the three healths apart, OK before UNKNOWN
\* before FAILED.
LEMMA RankFacts ==
    ASSUME NEW x \in Health
    PROVE  /\ ss_health_rank(x) \in 0 .. 2
           /\ ss_health_rank(x) = 0 <=> x = "ok"
           /\ ss_health_rank(x) = 1 <=> x = "unknown"
           /\ ss_health_rank(x) = 2 <=> x = "failed"
BY DEF ss_health_rank, Health

\* Every nonempty set of naturals has a least element.
LEMMA LeastNat ==
    ASSUME NEW T \in SUBSET Nat, T # {}
    PROVE  \E x \in T : \A y \in T : x <= y
<1>1. IsWellFoundedOn(OpToRel(<, Nat), Nat)
    BY NatLessThanWellFounded
<1>2. PICK x \in T : \A y \in T : <<y, x>> \notin OpToRel(<, Nat)
    BY <1>1, WFMin
<1>3. \A y \in T : ~ (y < x)
    BY <1>2 DEF OpToRel
<1> QED
    BY <1>3

\* The server index that Min picks from a nonempty set of servers is in the set.
LEMMA MinServer ==
    ASSUME NEW T \in SUBSET Servers, T # {}
    PROVE  Min(T) \in T
<1>1. T \in SUBSET Nat
    BY NAssumption DEF Servers
<1>2. \E x \in T : \A y \in T : x =< y
    BY <1>1, LeastNat
<1> QED
    BY <1>2 DEF Min

\* Among the untried servers, if there are any, one is unbeaten: the order of
\* ss_better_locked (rank first, then score) has least elements.
LEMMA UnbeatenExists ==
    ASSUME NEW h, NEW s, Ranked(h, s), NEW tried, Untried(tried) # {}
    PROVE  Unbeaten(h, s, tried) # {}
<1> DEFINE U == Untried(tried)
           Ranks == {ss_health_rank(h[i]) : i \in U}
<1>1. U \subseteq Servers
    BY DEF Untried
<1>2. \A i \in U : ss_health_rank(h[i]) \in Nat /\ s[i] \in Nat
    BY <1>1, RankFacts, ScoreAssumption DEF Ranked
<1>3. PICK r \in Ranks : \A y \in Ranks : r <= y
  <2>1. Ranks \in SUBSET Nat /\ Ranks # {}
      BY <1>2
  <2> QED
      BY <2>1, LeastNat
<1> DEFINE Low == {i \in U : ss_health_rank(h[i]) = r}
           LowScores == {s[i] : i \in Low}
<1>4. PICK v \in LowScores : \A y \in LowScores : v <= y
  <2>1. LowScores \in SUBSET Nat /\ LowScores # {}
      BY <1>2, <1>3
  <2> QED
      BY <2>1, LeastNat
<1>5. PICK i \in Low : s[i] = v
    BY <1>4
<1>6. ASSUME NEW j \in U PROVE ~ ss_better_locked(h, s, j, i)
  <2>1. ss_health_rank(h[j]) >= r /\ ss_health_rank(h[i]) = r /\ r \in Nat
      BY <1>2, <1>3, <1>5
  <2>2. ss_health_rank(h[j]) = r => s[j] >= s[i] /\ s[j] \in Nat /\ s[i] \in Nat
      BY <1>2, <1>4, <1>5
  <2> QED
      BY <1>2, <2>1, <2>2 DEF ss_better_locked
<1>7. i \in Unbeaten(h, s, tried)
    BY <1>5, <1>6 DEF Unbeaten
<1> QED
    BY <1>7

\* ss_candidate_locked returns an untried server, of the least rank among them.
LEMMA Candidate ==
    ASSUME NEW h, NEW s, Ranked(h, s), NEW b, NEW tried, Untried(tried) # {}
    PROVE  LET c == ss_candidate_locked(h, s, b, tried)
           IN  /\ c \in Untried(tried)
               /\ \A j \in Untried(tried) : ss_health_rank(h[c]) <= ss_health_rank(h[j])
<1> DEFINE c == ss_candidate_locked(h, s, b, tried)
<1>1. Unbeaten(h, s, tried) # {} /\ Unbeaten(h, s, tried) \in SUBSET Servers
    BY UnbeatenExists DEF Unbeaten, Untried
<1>2. Min(Unbeaten(h, s, tried)) \in Unbeaten(h, s, tried)
    BY <1>1, MinServer
<1>3. c \in Unbeaten(h, s, tried)
    BY <1>2 DEF ss_candidate_locked
<1>4. c \in Untried(tried) /\ \A j \in Untried(tried) : ~ ss_better_locked(h, s, j, c)
    BY <1>3 DEF Unbeaten
<1>5. \A j \in Untried(tried) : ss_health_rank(h[j]) \in Int
    BY RankFacts DEF Ranked, Untried
<1> QED
    BY <1>4, <1>5 DEF ss_better_locked

\* The index that ss_update_best_locked publishes: a server of least rank,
\* provided the server reported as failed is marked failed; and another one than
\* before if it is the best that failed and there is more than one server.
LEMMA UpdateBest ==
    ASSUME NEW h, NEW s, Ranked(h, s), NEW prev \in Servers,
           NEW failed, failed = prev => h[prev] = "failed", NEW allow \in BOOLEAN
    PROVE  LET best == ss_update_best_locked(h, s, prev, failed, allow)
           IN  /\ best \in Servers
               /\ \A j \in Servers : ss_health_rank(h[best]) <= ss_health_rank(h[j])
               /\ failed = prev /\ N > 1 => best # prev
<1> DEFINE first == ss_candidate_locked(h, s, prev, {})
           other == ss_candidate_locked(h, s, prev, {prev})
           force == failed = prev /\ N > 1
           best  == IF force /\ first = prev THEN other ELSE first
           gain  == s[best] < s[prev] /\ s[prev] - s[best] > SS_SWITCH_THRESHOLD
           result == IF force \/ h[best] # h[prev] \/ (allow /\ gain) THEN best ELSE prev
           rank(i) == ss_health_rank(h[i])
<1>1. ss_update_best_locked(h, s, prev, failed, allow) = result
    BY DEF ss_update_best_locked
<1>2. first \in Servers /\ \A j \in Servers : rank(first) <= rank(j)
  <2>1. Untried({}) = Servers
      BY DEF Untried
  <2>2. Untried({}) # {}
      BY <2>1
  <2> QED
      BY <2>1, <2>2, Candidate
<1>3. \A j \in Servers : h[j] \in Health /\ rank(j) \in 0 .. 2
    BY RankFacts DEF Ranked
<1>4. N > 1 => other \in Servers \ {prev}
  <2> SUFFICES ASSUME N > 1 PROVE other \in Servers \ {prev}
      OBVIOUS
  <2>1. 0 \in Servers /\ 1 \in Servers
      BY NAssumption DEF Servers
  <2>2. Untried({prev}) = Servers \ {prev} /\ Untried({prev}) # {}
      BY <2>1 DEF Untried
  <2> QED
      BY <2>2, Candidate
<1>5. force /\ first = prev => \A j \in Servers : rank(j) = 2
  <2> SUFFICES ASSUME force, first = prev, NEW j \in Servers PROVE rank(j) = 2
      OBVIOUS
  <2>1. rank(prev) = 2
      BY RankFacts DEF Ranked
  <2> QED
      BY <1>2, <1>3, <2>1
<1>6. best \in Servers /\ \A j \in Servers : rank(best) <= rank(j)
  <2>1. CASE force /\ first = prev
      BY <1>3, <1>4, <1>5, <2>1
  <2>2. CASE ~ (force /\ first = prev)
      BY <1>2, <2>2
  <2> QED
      BY <2>1, <2>2
<1>7. force => best # prev
    BY <1>4
<1>8. h[best] = h[prev] => rank(best) = rank(prev)
    OBVIOUS
<1>9. result \in Servers /\ (\A j \in Servers : rank(result) <= rank(j))
  <2>1. CASE result = best
      BY <1>6, <2>1
  <2>2. CASE result = prev /\ h[best] = h[prev]
      BY <1>6, <1>8, <2>2
  <2> QED
      BY <2>1, <2>2
<1>10. force => result # prev
    BY <1>7
<1> QED
    BY <1>1, <1>9, <1>10

-----------------------------------------------------------------------------
(* The scan of ss_candidate_locked.                                        *)

\* One turn of the loop, at server i - 1.
ScanTurn(h, s, tried, i, best) ==
    IF i - 1 \in tried THEN best
    ELSE IF best = None \/ ss_better_locked(h, s, i - 1, best) THEN i - 1 ELSE best
ScanStart(b, tried) == IF b \in Servers \ tried THEN b ELSE None
IsScan(f, n, h, s, b, tried) ==
    f = [i \in 0 .. n |-> IF i = 0 THEN ScanStart(b, tried) ELSE ScanTurn(h, s, tried, i, f[i - 1])]

\* The loop makes N turns: the recursive function that stands for it exists.
LEMMA ScanTurns ==
    ASSUME NEW h, NEW s, NEW b, NEW tried
    PROVE  \E f : /\ f[0] = ScanStart(b, tried)
                  /\ \A i \in 1 .. N : f[i] = ScanTurn(h, s, tried, i, f[i - 1])
                  /\ ss_candidate_scan(h, s, b, tried) = f[N]
<1> DEFINE Is(f, n) == IsScan(f, n, h, s, b, tried)
           Bad == {n \in 0 .. N : ~ \E f : Is(f, n)}
<1>n. N \in Nat
    BY NAssumption
<1>1. Bad = {}
  <2> SUFFICES ASSUME Bad # {} PROVE FALSE
      OBVIOUS
  <2>1. PICK n \in Bad : \A m \in Bad : n <= m
    <3>1. Bad \in SUBSET Nat
        BY <1>n
    <3> QED
        BY <3>1, LeastNat
  <2>2. CASE n = 0
    <3> DEFINE f == [i \in 0 .. 0 |-> ScanStart(b, tried)]
    <3>1. \A i \in 0 .. 0 : f[i] = IF i = 0 THEN ScanStart(b, tried)
                                   ELSE ScanTurn(h, s, tried, i, f[i - 1])
        OBVIOUS
    <3>2. f = [i \in 0 .. 0 |-> IF i = 0 THEN ScanStart(b, tried)
                                ELSE ScanTurn(h, s, tried, i, f[i - 1])]
        BY <3>1
    <3> HIDE DEF f
    <3>3. IsScan(f, 0, h, s, b, tried)
        BY <3>2 DEF IsScan
    <3> QED
        BY <2>1, <2>2, <3>3
  <2>3. CASE n # 0
    <3>1. n \in 1 .. N /\ n - 1 \in 0 .. N /\ n - 1 \notin Bad
        BY <1>n, <2>1, <2>3
    <3>2. PICK g : Is(g, n - 1)
        BY <3>1
    <3> DEFINE f == [i \in 0 .. n |-> IF i = 0 THEN ScanStart(b, tried)
                                      ELSE ScanTurn(h, s, tried, i, g[i - 1])]
    <3>3. \A i \in 0 .. n - 1 : f[i] = g[i]
      <4>1. g = [i \in 0 .. n - 1 |-> IF i = 0 THEN ScanStart(b, tried)
                                      ELSE ScanTurn(h, s, tried, i, g[i - 1])]
          BY <3>2 DEF IsScan
      <4>2. ASSUME NEW i \in 0 .. n - 1 PROVE f[i] = g[i]
        <5>1. i \in 0 .. n
            BY <3>1
        <5>2. g[i] = IF i = 0 THEN ScanStart(b, tried) ELSE ScanTurn(h, s, tried, i, g[i - 1])
            BY <4>1
        <5> QED
            BY <5>1, <5>2
      <4> QED
          BY <4>2
    <3>4. \A i \in 0 .. n : f[i] = IF i = 0 THEN ScanStart(b, tried)
                                   ELSE ScanTurn(h, s, tried, i, f[i - 1])
      <4>1. \A i \in 0 .. n : f[i] = IF i = 0 THEN ScanStart(b, tried)
                                     ELSE ScanTurn(h, s, tried, i, g[i - 1])
          OBVIOUS
      <4> HIDE DEF f
      <4>2. \A i \in 0 .. n : i # 0 => f[i - 1] = g[i - 1]
          BY <3>1, <3>3
      <4> QED
          BY <4>1, <4>2
    <3>5. f = [i \in 0 .. n |-> IF i = 0 THEN ScanStart(b, tried)
                                ELSE ScanTurn(h, s, tried, i, f[i - 1])]
        BY <3>4
    <3> HIDE DEF f
    <3>6. IsScan(f, n, h, s, b, tried)
        BY <3>5 DEF IsScan
    <3> QED
        BY <2>1, <3>6
  <2> QED
      BY <2>2, <2>3
<1>2. \E f : Is(f, N)
    BY <1>1, <1>n
<1> DEFINE f == CHOOSE g : Is(g, N)
<1>3. Is(f, N)
    BY <1>2
<1>4. ss_candidate_scan(h, s, b, tried) = f[N]
    BY DEF ss_candidate_scan, IsScan, ScanStart, ScanTurn
<1> HIDE DEF f
<1>5. f = [i \in 0 .. N |-> IF i = 0 THEN ScanStart(b, tried)
                            ELSE ScanTurn(h, s, tried, i, f[i - 1])]
    BY <1>3 DEF IsScan
<1>6. f[0] = ScanStart(b, tried)
    BY <1>5, <1>n
<1>7. ASSUME NEW i \in 1 .. N PROVE f[i] = ScanTurn(h, s, tried, i, f[i - 1])
  <2>1. i \in 0 .. N /\ i # 0
      BY <1>n
  <2> QED
      BY <1>5, <2>1
<1> QED
    BY <1>4, <1>6, <1>7

\* ss_better_locked orders the servers: it is a strict weak order.
LEMMA BetterOrder ==
    ASSUME NEW h, NEW s, Ranked(h, s), NEW x \in Servers, NEW y \in Servers, NEW z \in Servers
    PROVE  /\ ss_better_locked(h, s, x, y) => ~ ss_better_locked(h, s, y, x)
           /\ ~ ss_better_locked(h, s, x, y) /\ ~ ss_better_locked(h, s, y, z)
                => ~ ss_better_locked(h, s, x, z)
<1>1. \A i \in Servers : ss_health_rank(h[i]) \in Int /\ s[i] \in Int
    BY RankFacts, ScoreAssumption DEF Ranked
<1> QED
    BY <1>1 DEF ss_better_locked

\* The servers that a scan has looked at after i turns, and what it holds of them:
\* one that none of them beats, the published best if it is tied, else the first.
Scanned(b, tried, i) == {j \in Servers \ tried : j < i \/ j = b}
Holds(h, s, b, P, x) ==
    IF P = {} THEN x = None
    ELSE /\ x \in P /\ \A j \in P : ~ ss_better_locked(h, s, j, x)
         /\ x = b \/ \A j \in P : ~ ss_better_locked(h, s, x, j) => j # b /\ x <= j

LEMMA ScanTurnHolds ==
    ASSUME NEW h, NEW s, Ranked(h, s), NEW b, NEW tried, NEW i \in 1 .. N, NEW x,
           Holds(h, s, b, Scanned(b, tried, i - 1), x)
    PROVE  Holds(h, s, b, Scanned(b, tried, i), ScanTurn(h, s, tried, i, x))
<1> DEFINE P == Scanned(b, tried, i - 1)
           Q == Scanned(b, tried, i)
           better(j, k) == ss_better_locked(h, s, j, k)
<1>n. N \in Nat /\ i - 1 \in Servers /\ None \notin Servers
    BY NAssumption DEF Servers, None
<1>p. P \subseteq Servers /\ Q \subseteq Servers
    BY DEF Scanned
<1>1. CASE i - 1 \in tried
  <2>1. Q = P
      BY <1>n, <1>1 DEF Scanned, Servers
  <2> QED
      BY <1>1, <2>1 DEF ScanTurn
<1>2. CASE i - 1 \notin tried
  <2>1. Q = P \cup {i - 1}
      BY <1>n, <1>2 DEF Scanned, Servers
  <2>2. \A j \in P : j = b \/ j < i - 1
      BY DEF Scanned
  <2>3. CASE x = None
    <3>1. P = {}
        BY <1>n, <1>p, <2>3 DEF Holds
    <3>2. Q = {i - 1} /\ ScanTurn(h, s, tried, i, x) = i - 1
        BY <1>2, <2>1, <2>3, <3>1 DEF ScanTurn
    <3>3. ~ better(i - 1, i - 1)
        BY <1>n, BetterOrder
    <3>4. i - 1 = b \/ (i - 1 # b /\ i - 1 <= i - 1)
        BY <1>n DEF Servers
    <3> QED
        BY <3>2, <3>3, <3>4 DEF Holds
  <2>4. CASE x # None /\ better(i - 1, x)
    <3>1. x \in P /\ \A j \in P : ~ better(j, x)
        BY <2>4 DEF Holds
    <3>2. ScanTurn(h, s, tried, i, x) = i - 1
        BY <1>2, <2>4 DEF ScanTurn
    <3>3. ASSUME NEW j \in P PROVE better(i - 1, j)
        BY <1>n, <1>p, <2>4, <3>1, BetterOrder
    <3>4. ~ better(i - 1, i - 1)
        BY <1>n, BetterOrder
    <3>5. \A j \in Q : ~ better(j, i - 1)
        BY <1>n, <1>p, <2>1, <3>3, <3>4, BetterOrder
    <3>6. i - 1 = b \/ \A j \in Q : ~ better(i - 1, j) => j # b /\ i - 1 <= j
        BY <1>n, <2>1, <3>3 DEF Servers
    <3> QED
        BY <2>1, <3>2, <3>5, <3>6 DEF Holds
  <2>5. CASE x # None /\ ~ better(i - 1, x)
    <3>1. /\ P # {} /\ x \in P /\ \A j \in P : ~ better(j, x)
          /\ x = b \/ \A j \in P : ~ better(x, j) => j # b /\ x <= j
        BY <2>5 DEF Holds
    <3>2. ScanTurn(h, s, tried, i, x) = x
        BY <1>2, <2>5 DEF ScanTurn
    <3>3. x \in Q /\ \A j \in Q : ~ better(j, x)
        BY <2>1, <2>5, <3>1
    <3>4. x = b \/ \A j \in Q : ~ better(x, j) => j # b /\ x <= j
      <4> SUFFICES ASSUME x # b PROVE \A j \in Q : ~ better(x, j) => j # b /\ x <= j
          OBVIOUS
      <4>1. \A j \in P : ~ better(x, j) => j # b /\ x <= j
          BY <3>1
      <4>2. x < i - 1
          BY <2>2, <3>1
      <4>3. i - 1 = b => i - 1 \in P
          BY <1>n, <1>2 DEF Scanned
      <4>4. ~ better(x, i - 1) => i - 1 # b
          BY <4>1, <4>3
      <4>5. x <= i - 1
          BY <1>n, <1>p, <3>1, <4>2 DEF Servers
      <4> QED
          BY <2>1, <4>1, <4>4, <4>5
    <3> QED
        BY <3>2, <3>3, <3>4 DEF Holds
  <2> QED
      BY <2>3, <2>4, <2>5
<1> QED
    BY <1>1, <1>2

\* The loop returns the server its result is specified as.
LEMMA ScanIsCandidate ==
    ASSUME NEW h, NEW s, Ranked(h, s), NEW b \in Servers, NEW tried
    PROVE  ss_candidate_scan(h, s, b, tried) = ss_candidate_locked(h, s, b, tried)
<1>1. PICK f : /\ f[0] = ScanStart(b, tried)
               /\ \A i \in 1 .. N : f[i] = ScanTurn(h, s, tried, i, f[i - 1])
               /\ ss_candidate_scan(h, s, b, tried) = f[N]
    BY ScanTurns
<1>n. N \in Nat
    BY NAssumption
<1> DEFINE Good(i) == Holds(h, s, b, Scanned(b, tried, i), f[i])
           Bad == {i \in 0 .. N : ~ Good(i)}
<1>2. Good(0)
  <2>1. Scanned(b, tried, 0) = IF b \in tried THEN {} ELSE {b}
      BY DEF Scanned, Servers
  <2>2. ~ ss_better_locked(h, s, b, b)
      BY BetterOrder
  <2>3. f[0] = IF b \in tried THEN None ELSE b
      BY <1>1 DEF ScanStart
  <2>4. CASE b \in tried
      BY <2>1, <2>3, <2>4 DEF Holds
  <2>5. CASE b \notin tried
      BY <2>1, <2>2, <2>3, <2>5 DEF Holds
  <2> QED
      BY <2>4, <2>5
<1>3. Bad = {}
  <2> SUFFICES ASSUME Bad # {} PROVE FALSE
      OBVIOUS
  <2>1. PICK n \in Bad : \A m \in Bad : n <= m
    <3>1. Bad \in SUBSET Nat
        BY <1>n
    <3> QED
        BY <3>1, LeastNat
  <2>2. n \in 1 .. N /\ n - 1 \in 0 .. N /\ n - 1 \notin Bad
      BY <1>n, <1>2, <2>1
  <2>3. Good(n - 1)
      BY <2>2
  <2>4. Good(n)
      BY <1>1, <2>2, <2>3, ScanTurnHolds
  <2> QED
      BY <2>1, <2>4
<1> DEFINE U == Untried(tried)
           x == f[N]
           better(j, k) == ss_better_locked(h, s, j, k)
<1>4. Scanned(b, tried, N) = U
    BY <1>n DEF Scanned, Untried, Servers
<1>5. Holds(h, s, b, U, x)
    BY <1>3, <1>4, <1>n
<1>6. CASE U = {}
    BY <1>1, <1>5, <1>6 DEF Holds, ss_candidate_locked
<1>7. CASE U # {}
  <2>1. /\ x \in U /\ \A j \in U : ~ better(j, x)
        /\ x = b \/ \A j \in U : ~ better(x, j) => j # b /\ x <= j
      BY <1>5, <1>7 DEF Holds
  <2>2. x \in Unbeaten(h, s, tried)
      BY <2>1 DEF Unbeaten
  <2>3. \A j \in Unbeaten(h, s, tried) : j \in U /\ ~ better(x, j)
      BY <2>1 DEF Unbeaten
  <2>4. CASE b \in Unbeaten(h, s, tried)
    <3>1. x = b
        BY <2>1, <2>3, <2>4
    <3> QED
        BY <1>1, <1>7, <2>4, <3>1 DEF ss_candidate_locked
  <2>5. CASE b \notin Unbeaten(h, s, tried)
    <3>1. \A j \in Unbeaten(h, s, tried) : x <= j
        BY <2>1, <2>2, <2>3, <2>5
    <3>2. Unbeaten(h, s, tried) \in SUBSET Servers /\ Unbeaten(h, s, tried) # {}
        BY <2>2 DEF Unbeaten, Untried
    <3>3. Min(Unbeaten(h, s, tried)) \in Unbeaten(h, s, tried)
        BY <3>2, MinServer
    <3>4. \A j \in Unbeaten(h, s, tried) : Min(Unbeaten(h, s, tried)) =< j
        BY <2>2, <3>1 DEF Min
    <3>5. x \in Int /\ Min(Unbeaten(h, s, tried)) \in Int
        BY <1>n, <2>2, <3>2, <3>3 DEF Servers
    <3>6. Min(Unbeaten(h, s, tried)) = x
        BY <2>2, <3>1, <3>3, <3>4, <3>5
    <3> QED
        BY <1>1, <1>7, <2>5, <3>6 DEF ss_candidate_locked
  <2> QED
      BY <2>4, <2>5
<1> QED
    BY <1>6, <1>7

-----------------------------------------------------------------------------
(* The lock sections.                                                      *)

EvidenceOrNone == Evidence \cup {NoAttempt}

\* Recording a failure makes evidence stale but neither adds nor removes any.
LEMMA OvertakenFacts ==
    ASSUME NEW e \in EvidenceOrNone, NEW i \in Servers
    PROVE  /\ Overtaken(e, i) \in EvidenceOrNone
           /\ Overtaken(e, i) = NoAttempt <=> e = NoAttempt
           /\ Overtaken(e, i).srv = e.srv /\ Overtaken(e, i).epoch = e.epoch
           /\ Overtaken(e, i).fresh = (e.fresh /\ e.srv # i)
<1>1. CASE e = NoAttempt
  <2>1. e.srv # i
      BY <1>1, NAssumption DEF NoAttempt, None, Servers
  <2> QED
      BY <1>1, <2>1 DEF Overtaken, EvidenceOrNone, NoAttempt
<1>2. CASE e \in Evidence
  <2>1. e.srv \in Servers /\ e.fresh \in BOOLEAN
      BY <1>2 DEF Evidence
  <2>2. NoAttempt.srv \notin Servers
      BY NAssumption DEF NoAttempt, None, Servers
  <2>3. Overtaken(e, i) \in Evidence
      BY <1>2 DEF Overtaken, Evidence
  <2>4. e # NoAttempt /\ Overtaken(e, i) # NoAttempt
      BY <1>2, <2>2, <2>3 DEF Evidence
  <2>5. CASE e.srv = i
    <3>1. Overtaken(e, i) = [e EXCEPT !.fresh = FALSE]
        BY <2>5 DEF Overtaken
    <3> QED
        BY <1>2, <2>3, <2>4, <2>5, <3>1 DEF Evidence, EvidenceOrNone
  <2>6. CASE e.srv # i
      BY <1>2, <2>1, <2>3, <2>4, <2>6 DEF Overtaken, EvidenceOrNone
  <2> QED
      BY <2>5, <2>6
<1> QED
    BY <1>1, <1>2 DEF EvidenceOrNone

\* Everything the lock section that records a failure leaves behind.
LEMMA RecordFailureFacts ==
    ASSUME TypeOK, NEW i \in Servers, NEW sc \in [Servers -> 0 .. UINT32_MAX],
           NEW pr \in [Servers -> EvidenceOrNone], NEW at \in [Clients -> EvidenceOrNone],
           RecordFailure(i, sc, pr, at)
    PROVE  /\ health' \in [Servers -> Health]
           /\ failure_epoch' \in [Servers -> Epochs]
           /\ score' \in [Servers -> 0 .. UINT32_MAX]
           /\ best_idx' \in Servers
           /\ probe' \in [Servers -> EvidenceOrNone]
           /\ attempt' \in [Clients -> EvidenceOrNone]
           /\ wrapped' \in BOOLEAN
           /\ BestRankMinimal'
           /\ i = best_idx /\ N > 1 => best_idx' # best_idx
           /\ \A j \in Servers : probe'[j] = NoAttempt <=> pr[j] = NoAttempt
<1>1. health' \in [Servers -> Health] /\ health'[i] = "failed" /\ score' = sc
    BY DEF RecordFailure, TypeOK, Health
<1>2. failure_epoch' \in [Servers -> Epochs]
    BY EpochAssumption DEF RecordFailure, TypeOK, Epochs
<1>3. /\ probe' \in [Servers -> EvidenceOrNone]
      /\ attempt' \in [Clients -> EvidenceOrNone]
      /\ \A j \in Servers : probe'[j] = NoAttempt <=> pr[j] = NoAttempt
    BY OvertakenFacts DEF RecordFailure
<1>4. wrapped' \in BOOLEAN
    BY DEF RecordFailure, TypeOK
<1>5. /\ best_idx' \in Servers
      /\ \A j \in Servers : ss_health_rank(health'[best_idx']) <= ss_health_rank(health'[j])
      /\ i = best_idx /\ N > 1 => best_idx' # best_idx
  <2>1. Ranked(health', sc) /\ best_idx \in Servers
      BY <1>1 DEF Ranked, TypeOK
  <2>2. best_idx' = ss_update_best_locked(health', sc, best_idx, i, FALSE)
      BY DEF RecordFailure
  <2> QED
      BY <1>1, <2>1, <2>2, UpdateBest
<1> QED
    BY <1>1, <1>2, <1>3, <1>4, <1>5 DEF BestRankMinimal

\* What an answer does to the health table.
LEMMA AnswerFacts ==
    ASSUME TypeOK, NEW i \in Servers, NEW e
    PROVE  /\ HealthAfterAnswer(i, e) \in [Servers -> Health]
           /\ \A j \in Servers : HealthAfterAnswer(i, e)[j] # health[j]
                                    => j = i /\ e = failure_epoch[i]
BY DEF HealthAfterAnswer, TypeOK, Health

\* An update of the best without a failure publishes a server of least rank.
LEMMA CalmUpdate ==
    ASSUME NEW h, NEW s, Ranked(h, s), NEW prev \in Servers, NEW allow \in BOOLEAN
    PROVE  LET best == ss_update_best_locked(h, s, prev, None, allow)
           IN  /\ best \in Servers
               /\ \A j \in Servers : ss_health_rank(h[best]) <= ss_health_rank(h[j])
<1>1. None # prev
    BY NAssumption DEF None, Servers
<1> QED
    BY <1>1, UpdateBest

-----------------------------------------------------------------------------
(* Types, and the accounting of a round.  Neither is inductive alone:      *)
(* probes_remaining stays in 0..N because it is a count of probes, and the *)
(* count is right because the servers the start loop has not reached yet   *)
(* have no probe.                                                          *)

UnstartedIdle == \A i \in Servers : i >= cur => cur = N \/ probe[i] = NoAttempt
RoundInv == TypeOK /\ RoundAccounting /\ UnstartedIdle

\* A set of servers is finite, and has at most N elements.
LEMMA ServerSets ==
    ASSUME NEW T \in SUBSET Servers
    PROVE  IsFiniteSet(T) /\ Cardinality(T) \in 0 .. N
<1>1. IsFiniteSet(Servers) /\ Cardinality(Servers) = N
    BY NAssumption, FS_Interval DEF Servers
<1>2. IsFiniteSet(T) /\ Cardinality(T) <= N /\ Cardinality(T) \in Nat
    BY <1>1, FS_Subset, FS_CardinalityType
<1> QED
    BY <1>2, NAssumption

\* When no probe is under way the set of them counts 0, and conversely.
LEMMA NoOutstanding == Cardinality(Outstanding) = 0 <=> Outstanding = {}
<1>1. Outstanding \in SUBSET Servers
    BY DEF Outstanding
<1>2. IsFiniteSet(Outstanding)
    BY <1>1, ServerSets
<1> QED
    BY <1>2, FS_EmptySet

\* The end of a probe takes one element away from the set of those under way.
LEMMA ProbeEnds ==
    ASSUME NEW i \in Outstanding, Outstanding' = Outstanding \ {i}
    PROVE  Cardinality(Outstanding') = Cardinality(Outstanding) - 1
<1>1. Outstanding \in SUBSET Servers
    BY DEF Outstanding
<1>2. IsFiniteSet(Outstanding)
    BY <1>1, ServerSets
<1> QED
    BY <1>2, FS_RemoveElement

\* The types hold initially and no step leaves them, given the accounting.
LEMMA TypeStep ==
    ASSUME RoundInv, [SelectorNext]_selectorVars
    PROVE  TypeOK'
<1> USE DEF RoundInv
<1> DEFINE Ev == Evidence \cup {NoAttempt}
<1>0. /\ \A i \in Servers : Snapshot(i) \in Ev
      /\ NoAttempt \in Ev
    BY DEF TypeOK, Snapshot, Evidence, Epochs
<1>1. CASE CheckTimer
    BY <1>1, NAssumption DEF CheckTimer, TypeOK
<1>2. CASE ProbeStart
  <2>1. cur \in Servers /\ cur' \in 0 .. N
      BY <1>2, NAssumption DEF ProbeStart, TypeOK, Servers
  <2>2. CASE probe' = [probe EXCEPT ![cur] = Snapshot(cur)]
             /\ UNCHANGED <<health, failure_epoch, score, best_idx, finishing, attempt, wrapped>>
      BY <1>2, <1>0, <2>1, <2>2 DEF ProbeStart, TypeOK
  <2>3. CASE finishing' = TRUE
             /\ UNCHANGED <<health, failure_epoch, score, best_idx, probe, attempt, wrapped>>
      BY <1>2, <2>1, <2>3 DEF ProbeStart, TypeOK
  <2>4. ASSUME finishing' = TRUE, NEW sc \in Scores,
               RecordFailure(cur, [score EXCEPT ![cur] = sc], probe, attempt)
        PROVE  TypeOK'
    <3>1. [score EXCEPT ![cur] = sc] \in [Servers -> 0 .. UINT32_MAX]
        BY <2>1, ScoresAssumption DEF TypeOK
    <3>2. probe \in [Servers -> EvidenceOrNone] /\ attempt \in [Clients -> EvidenceOrNone]
        BY DEF TypeOK, EvidenceOrNone
    <3> QED
        BY <1>2, <2>1, <2>4, <3>1, <3>2, RecordFailureFacts
        DEF ProbeStart, TypeOK, EvidenceOrNone
  <2> QED
      BY <1>2, <2>2, <2>3, <2>4 DEF ProbeStart
<1>3. ASSUME NEW i \in Servers, ProbeAnswered(i) PROVE TypeOK'
  <2>1. PICK sc \in Scores : RecordProbeAnswer(i, sc)
      BY <1>3 DEF ProbeAnswered
  <2>2. score' \in [Servers -> 0 .. UINT32_MAX] /\ health' \in [Servers -> Health]
      BY <2>1, ScoresAssumption, AnswerFacts DEF RecordProbeAnswer, TypeOK
  <2>3. best_idx' \in Servers
      BY <2>1, <2>2, CalmUpdate DEF RecordProbeAnswer, Ranked, TypeOK
  <2>4. probe' \in [Servers -> Ev]
      BY <1>0, <2>1 DEF RecordProbeAnswer, TypeOK
  <2> QED
      BY <1>3, <2>1, <2>2, <2>3, <2>4 DEF ProbeAnswered, RecordProbeAnswer, TypeOK
<1>4. ASSUME NEW i \in Servers, ProbeErrored(i) PROVE TypeOK'
  <2>1. PICK sc \in Scores : RecordFailure(i, [score EXCEPT ![i] = sc],
                                           [probe EXCEPT ![i] = NoAttempt], attempt)
      BY <1>4 DEF ProbeErrored
  <2>2. /\ [score EXCEPT ![i] = sc] \in [Servers -> 0 .. UINT32_MAX]
        /\ [probe EXCEPT ![i] = NoAttempt] \in [Servers -> EvidenceOrNone]
        /\ attempt \in [Clients -> EvidenceOrNone]
      BY <1>0, ScoresAssumption DEF TypeOK, EvidenceOrNone
  <2> QED
      BY <1>4, <2>1, <2>2, RecordFailureFacts DEF ProbeErrored, TypeOK, EvidenceOrNone
<1>5. ASSUME NEW i \in Servers, ProbeSkipped(i) PROVE TypeOK'
    BY <1>0, <1>5 DEF ProbeSkipped, TypeOK
<1>6. CASE ProbeDone
  <2>1. probes_remaining' \in 0 .. N
    <3>1. Outstanding \in SUBSET Servers
        BY DEF Outstanding
    <3>2. Cardinality(Outstanding) \in 0 .. N
        BY <3>1, ServerSets
    <3> QED
        BY <1>6, <3>2, NAssumption DEF ProbeDone, RoundAccounting, TypeOK
  <2>2. best_idx' \in Servers
      BY <1>6, CalmUpdate DEF ProbeDone, Ranked, TypeOK
  <2> QED
      BY <1>6, <2>1, <2>2 DEF ProbeDone, TypeOK
<1>7. CASE Stop
    BY <1>0, <1>7, NAssumption DEF Stop, TypeOK
<1>8. ASSUME NEW c \in Clients, NEW i \in Servers, Attempt(c, i) PROVE TypeOK'
    BY <1>0, <1>8 DEF Attempt, loopVars, TypeOK
<1>9. ASSUME NEW c \in Clients, ReportFailure(c) PROVE TypeOK'
  <2>1. attempt[c].srv \in Servers
      BY <1>9 DEF ReportFailure, TypeOK, Evidence
  <2>2. /\ probe \in [Servers -> EvidenceOrNone]
        /\ [attempt EXCEPT ![c] = NoAttempt] \in [Clients -> EvidenceOrNone]
        /\ score \in [Servers -> 0 .. UINT32_MAX]
      BY DEF TypeOK, EvidenceOrNone
  <2> QED
      BY <1>9, <2>1, <2>2, RecordFailureFacts
      DEF ReportFailure, loopVars, TypeOK, EvidenceOrNone
<1>10. ASSUME NEW c \in Clients, ReportSuccess(c) PROVE TypeOK'
  <2>1. attempt[c].srv \in Servers
      BY <1>10 DEF ReportSuccess, TypeOK, Evidence
  <2>2. health' \in [Servers -> Health]
      BY <1>10, <2>1, AnswerFacts DEF ReportSuccess
  <2>3. best_idx' \in Servers
      BY <1>10, <2>2, CalmUpdate DEF ReportSuccess, Ranked, TypeOK
  <2> QED
      BY <1>0, <1>10, <2>2, <2>3 DEF ReportSuccess, loopVars, TypeOK
<1>11. ASSUME NEW c \in Clients, Abandon(c) PROVE TypeOK'
    BY <1>0, <1>11 DEF Abandon, loopVars, TypeOK
<1>12. CASE UNCHANGED selectorVars
    BY <1>12 DEF selectorVars, TypeOK
<1> QED
    BY <1>1, <1>2, <1>3, <1>4, <1>5, <1>6, <1>7, <1>8, <1>9, <1>10, <1>11, <1>12
    DEF SelectorNext, MainStep, ProbeStep, ClientStep

\* Steps that leave the probes and the loop alone leave the accounting alone:
\* the worker threads', in which a failure may only make evidence stale.
LEMMA WorkerAccounting ==
    ASSUME RoundInv, UNCHANGED loopVars,
           \A j \in Servers : probe'[j] = NoAttempt <=> probe[j] = NoAttempt
    PROVE  (RoundAccounting /\ UnstartedIdle)'
<1>1. Outstanding' = Outstanding
    BY DEF Outstanding
<1> QED
    BY <1>1 DEF RoundInv, RoundAccounting, UnstartedIdle, loopVars

\* A probe that is over: the count of those under way falls by one and the call
\* of ss_probe_done is due instead.
LEMMA ProbeEndAccounting ==
    ASSUME RoundInv, LoopIdle, NEW i \in Servers, probe[i] # NoAttempt,
           finishing' = TRUE, UNCHANGED <<probes_remaining, cur, stopped>>,
           \A j \in Servers : probe'[j] = NoAttempt <=> j = i \/ probe[j] = NoAttempt
    PROVE  (RoundAccounting /\ UnstartedIdle)'
<1>1. i \in Outstanding /\ Outstanding' = Outstanding \ {i}
    BY DEF Outstanding
<1>2. Outstanding \in SUBSET Servers
    BY DEF Outstanding
<1>3. /\ Cardinality(Outstanding') = Cardinality(Outstanding) - 1
      /\ Cardinality(Outstanding) \in 0 .. N
    BY <1>1, <1>2, ProbeEnds, ServerSets
<1> QED
    BY <1>3, NAssumption DEF RoundInv, RoundAccounting, UnstartedIdle, LoopIdle, TypeOK

\* The accounting of a round is kept by every step.
LEMMA RoundStep ==
    ASSUME RoundInv, [SelectorNext]_selectorVars
    PROVE  (RoundAccounting /\ UnstartedIdle)'
<1> DEFINE Goal == (RoundAccounting /\ UnstartedIdle)'
<1>0. /\ Outstanding \in SUBSET Servers
      /\ IsFiniteSet(Outstanding) /\ Cardinality(Outstanding) \in 0 .. N
  <2>1. Outstanding \in SUBSET Servers
      BY DEF Outstanding
  <2> QED
      BY <2>1, ServerSets
<1>ty. TypeOK /\ RoundAccounting /\ UnstartedIdle
    BY DEF RoundInv
<1>ev. /\ probe \in [Servers -> EvidenceOrNone] /\ attempt \in [Clients -> EvidenceOrNone]
       /\ \A i \in Servers : Snapshot(i) # NoAttempt
    BY <1>ty, NAssumption DEF TypeOK, EvidenceOrNone, Snapshot, NoAttempt, None, Servers
<1>1. CASE CheckTimer
  <2>1. Cardinality(Outstanding) = 0
      BY <1>0, <1>1, <1>ty, NAssumption DEF CheckTimer, LoopIdle, RoundAccounting, TypeOK
  <2>2. Outstanding = {} /\ Outstanding' = Outstanding
      BY <1>1, <2>1, NoOutstanding DEF CheckTimer, Outstanding
  <2>3. UnstartedIdle'
      BY <1>1, <2>2 DEF CheckTimer, UnstartedIdle, Outstanding
  <2> QED
      BY <1>1, <2>1, <2>2, <2>3, NAssumption DEF CheckTimer, LoopIdle, RoundAccounting
<1>2. CASE ProbeStart
  <2>1. cur \in Servers /\ ~ finishing /\ cur' = cur + 1 /\ UNCHANGED probes_remaining
      BY <1>2, <1>ty, NAssumption DEF ProbeStart, TypeOK, Servers
  <2>2. cur \notin Outstanding
      BY <2>1, <1>ty, NAssumption DEF Outstanding, UnstartedIdle, Servers
  <2>3. CASE /\ probe' = [probe EXCEPT ![cur] = Snapshot(cur)]
             /\ finishing' = finishing
    <3>1. Outstanding' = Outstanding \cup {cur}
        BY <1>ev, <2>1, <2>3 DEF Outstanding
    <3>2. Cardinality(Outstanding') = Cardinality(Outstanding) + 1
        BY <1>0, <2>2, <3>1, FS_AddElement
    <3>3. UnstartedIdle'
        BY <1>ev, <1>ty, <2>1, <2>3, NAssumption DEF UnstartedIdle, Servers
    <3> QED
        BY <1>0, <1>ty, <2>1, <2>3, <3>2, <3>3, NAssumption DEF RoundAccounting, TypeOK
  <2>4. CASE /\ finishing' = TRUE
             /\ \A j \in Servers : probe'[j] = NoAttempt <=> probe[j] = NoAttempt
    <3>1. Outstanding' = Outstanding
        BY <2>4 DEF Outstanding
    <3>2. UnstartedIdle'
        BY <1>ty, <2>1, <2>4, NAssumption DEF UnstartedIdle, Servers
    <3> QED
        BY <1>0, <1>ty, <2>1, <2>4, <3>1, <3>2, NAssumption DEF RoundAccounting, TypeOK
  <2>5. ASSUME NEW sc \in Scores, RecordFailure(cur, [score EXCEPT ![cur] = sc], probe, attempt)
        PROVE  \A j \in Servers : probe'[j] = NoAttempt <=> probe[j] = NoAttempt
    <3>1. [score EXCEPT ![cur] = sc] \in [Servers -> 0 .. UINT32_MAX]
        BY <1>ty, <2>1, ScoresAssumption DEF TypeOK
    <3> QED
        BY <1>ty, <1>ev, <2>1, <2>5, <3>1, RecordFailureFacts
  <2> QED
      BY <1>2, <2>3, <2>4, <2>5 DEF ProbeStart
<1>3. ASSUME NEW i \in Servers, ProbeAnswered(i) PROVE Goal
  <2>1. \A j \in Servers : probe'[j] = NoAttempt <=> j = i \/ probe[j] = NoAttempt
      BY <1>3, <1>ev DEF ProbeAnswered, RecordProbeAnswer
  <2> QED
      BY <1>3, <2>1, ProbeEndAccounting DEF ProbeAnswered
<1>4. ASSUME NEW i \in Servers, ProbeErrored(i) PROVE Goal
  <2>1. PICK sc \in Scores : RecordFailure(i, [score EXCEPT ![i] = sc],
                                           [probe EXCEPT ![i] = NoAttempt], attempt)
      BY <1>4 DEF ProbeErrored
  <2>2. /\ [score EXCEPT ![i] = sc] \in [Servers -> 0 .. UINT32_MAX]
        /\ [probe EXCEPT ![i] = NoAttempt] \in [Servers -> EvidenceOrNone]
      BY <1>ty, <1>ev, ScoresAssumption DEF TypeOK, EvidenceOrNone
  <2>3. \A j \in Servers : probe'[j] = NoAttempt <=> [probe EXCEPT ![i] = NoAttempt][j] = NoAttempt
      BY <1>ty, <1>ev, <2>1, <2>2, RecordFailureFacts
  <2>4. \A j \in Servers : probe'[j] = NoAttempt <=> j = i \/ probe[j] = NoAttempt
      BY <1>ev, <2>3
  <2> QED
      BY <1>4, <2>4, ProbeEndAccounting DEF ProbeErrored
<1>5. ASSUME NEW i \in Servers, ProbeSkipped(i) PROVE Goal
  <2>1. \A j \in Servers : probe'[j] = NoAttempt <=> j = i \/ probe[j] = NoAttempt
      BY <1>5, <1>ev DEF ProbeSkipped
  <2> QED
      BY <1>5, <2>1, ProbeEndAccounting DEF ProbeSkipped
<1>6. CASE ProbeDone
  <2>1. Outstanding' = Outstanding
      BY <1>6 DEF ProbeDone, Outstanding
  <2> QED
      BY <1>0, <1>6, <1>ty, <2>1, NAssumption DEF ProbeDone, RoundAccounting, UnstartedIdle, TypeOK
<1>7. CASE Stop
  <2>1. Outstanding' = {} /\ UnstartedIdle'
      BY <1>7 DEF Stop, Outstanding, UnstartedIdle
  <2> QED
      BY <1>7, <2>1, FS_EmptySet, NAssumption DEF Stop, LoopIdle, RoundAccounting
<1>8. ASSUME NEW c \in Clients, ClientStep(c) PROVE Goal
  <2>1. UNCHANGED loopVars
      BY <1>8 DEF ClientStep, Attempt, ReportFailure, ReportSuccess, Abandon
  <2>2. CASE UNCHANGED probe
      BY <2>1, <2>2, WorkerAccounting
  <2>3. CASE ReportFailure(c)
    <3>1. attempt[c].srv \in Servers
        BY <2>3, <1>ty DEF ReportFailure, TypeOK, Evidence
    <3>2. /\ [attempt EXCEPT ![c] = NoAttempt] \in [Clients -> EvidenceOrNone]
          /\ score \in [Servers -> 0 .. UINT32_MAX]
        BY <1>ty DEF TypeOK, EvidenceOrNone
    <3>3. \A j \in Servers : probe'[j] = NoAttempt <=> probe[j] = NoAttempt
        BY <1>ty, <1>ev, <2>3, <3>1, <3>2, RecordFailureFacts DEF ReportFailure
    <3> QED
        BY <2>1, <3>3, WorkerAccounting
  <2> QED
      BY <1>8, <2>2, <2>3 DEF ClientStep, Attempt, ReportSuccess, Abandon
<1>9. CASE UNCHANGED selectorVars
    BY <1>9, WorkerAccounting DEF selectorVars, loopVars
<1> QED
    BY <1>1, <1>2, <1>3, <1>4, <1>5, <1>6, <1>7, <1>8, <1>9
    DEF SelectorNext, MainStep, ProbeStep

\* The selector starts with no probe under way.
LEMMA InitRound == SelectorInit => RoundInv
<1> SUFFICES ASSUME SelectorInit PROVE RoundInv
    OBVIOUS
<1>1. TypeOK
  <2>1. health \in [Servers -> Health] /\ failure_epoch \in [Servers -> Epochs]
      BY EpochAssumption DEF SelectorInit, Health, Epochs
  <2>2. score \in [Servers -> 0 .. UINT32_MAX] /\ best_idx \in Servers
      BY NAssumption, ScoreAssumption DEF SelectorInit, Servers
  <2>3. probes_remaining \in 0 .. N /\ cur \in 0 .. N
      BY NAssumption DEF SelectorInit
  <2> QED
      BY <2>1, <2>2, <2>3 DEF SelectorInit, TypeOK
<1>2. Outstanding = {} /\ UnstartedIdle
    BY DEF SelectorInit, Outstanding, UnstartedIdle
<1> QED
    BY <1>1, <1>2, FS_EmptySet, NAssumption DEF RoundInv, SelectorInit, RoundAccounting

\* Together the types and the accounting are inductive.
LEMMA RoundInvariant == SelectorSpec => []RoundInv
<1>1. SelectorInit => RoundInv
    BY InitRound
<1>2. RoundInv /\ [SelectorNext]_selectorVars => RoundInv'
    BY TypeStep, RoundStep DEF RoundInv
<1> QED
    BY <1>1, <1>2, PTL DEF SelectorSpec

\* Type correctness of the selector, for every interleaving of the main loop's
\* probes with the worker threads' reports.
THEOREM TypeCorrect == SelectorSpec => []TypeOK
BY RoundInvariant, PTL DEF RoundInv

\* probes_remaining is exactly the number of probes that still owe a call of
\* ss_probe_done, so a round ends with its last probe, for every table size.
THEOREM RoundAccounted == SelectorSpec => []RoundAccounting
BY RoundInvariant, PTL DEF RoundInv

-----------------------------------------------------------------------------
(* The published best.                                                     *)

\* A step that changes neither the health table nor the best keeps the best.
LEMMA RankUntouched ==
    ASSUME BestRankMinimal, UNCHANGED <<health, best_idx>>
    PROVE  BestRankMinimal'
BY DEF BestRankMinimal

\* No step leaves the published best out-ranked.
LEMMA RankStep ==
    ASSUME TypeOK, BestRankMinimal, [SelectorNext]_selectorVars
    PROVE  BestRankMinimal'
<1>ev. /\ probe \in [Servers -> EvidenceOrNone] /\ attempt \in [Clients -> EvidenceOrNone]
       /\ health \in [Servers -> Health] /\ score \in [Servers -> 0 .. UINT32_MAX]
       /\ best_idx \in Servers
    BY DEF TypeOK, EvidenceOrNone
<1>1. CASE CheckTimer \/ Stop
    BY <1>1, RankUntouched DEF CheckTimer, Stop
<1>2. CASE ProbeStart
  <2>1. cur \in Servers
      BY <1>2, NAssumption DEF ProbeStart, TypeOK, Servers
  <2>2. ASSUME NEW sc \in Scores,
               RecordFailure(cur, [score EXCEPT ![cur] = sc], probe, attempt)
        PROVE  BestRankMinimal'
    <3>1. [score EXCEPT ![cur] = sc] \in [Servers -> 0 .. UINT32_MAX]
        BY <1>ev, <2>1, ScoresAssumption
    <3> QED
        BY <1>ev, <2>1, <2>2, <3>1, RecordFailureFacts
  <2> QED
      BY <1>2, <2>2, RankUntouched DEF ProbeStart
<1>3. ASSUME NEW i \in Servers, ProbeAnswered(i) PROVE BestRankMinimal'
  <2>1. PICK sc \in Scores : RecordProbeAnswer(i, sc)
      BY <1>3 DEF ProbeAnswered
  <2>2. Ranked(health', score')
      BY <1>ev, <2>1, ScoresAssumption, AnswerFacts DEF RecordProbeAnswer, Ranked
  <2>3. best_idx' = ss_update_best_locked(health', score', best_idx, None, FALSE)
      BY <2>1 DEF RecordProbeAnswer
  <2> QED
      BY <1>ev, <2>2, <2>3, CalmUpdate DEF BestRankMinimal
<1>4. ASSUME NEW i \in Servers, ProbeErrored(i) PROVE BestRankMinimal'
  <2>1. PICK sc \in Scores : RecordFailure(i, [score EXCEPT ![i] = sc],
                                           [probe EXCEPT ![i] = NoAttempt], attempt)
      BY <1>4 DEF ProbeErrored
  <2>2. /\ [score EXCEPT ![i] = sc] \in [Servers -> 0 .. UINT32_MAX]
        /\ [probe EXCEPT ![i] = NoAttempt] \in [Servers -> EvidenceOrNone]
      BY <1>ev, ScoresAssumption DEF EvidenceOrNone
  <2> QED
      BY <1>ev, <2>1, <2>2, RecordFailureFacts
<1>5. ASSUME NEW i \in Servers, ProbeSkipped(i) PROVE BestRankMinimal'
    BY <1>5, RankUntouched DEF ProbeSkipped
<1>6. CASE ProbeDone
  <2>1. CASE probes_remaining' = 0
    <3>1. /\ best_idx' = ss_update_best_locked(health, score, best_idx, None, TRUE)
          /\ health' = health
        BY <1>6, <2>1 DEF ProbeDone
    <3>2. Ranked(health, score)
        BY <1>ev DEF Ranked
    <3> QED
        BY <1>ev, <3>1, <3>2, CalmUpdate DEF BestRankMinimal
  <2>2. CASE probes_remaining' # 0
      BY <1>6, <2>2, RankUntouched DEF ProbeDone
  <2> QED
      BY <2>1, <2>2
<1>7. ASSUME NEW c \in Clients, NEW i \in Servers, Attempt(c, i) PROVE BestRankMinimal'
    BY <1>7, RankUntouched DEF Attempt
<1>8. ASSUME NEW c \in Clients, ReportFailure(c) PROVE BestRankMinimal'
  <2>1. attempt[c].srv \in Servers
      BY <1>8 DEF ReportFailure, TypeOK, Evidence
  <2>2. [attempt EXCEPT ![c] = NoAttempt] \in [Clients -> EvidenceOrNone]
      BY <1>ev DEF EvidenceOrNone
  <2> QED
      BY <1>8, <1>ev, <2>1, <2>2, RecordFailureFacts DEF ReportFailure
<1>9. ASSUME NEW c \in Clients, ReportSuccess(c) PROVE BestRankMinimal'
  <2>1. attempt[c].srv \in Servers
      BY <1>9 DEF ReportSuccess, TypeOK, Evidence
  <2>2. CASE attempt[c].epoch = failure_epoch[attempt[c].srv]
    <3>1. Ranked(health', score)
        BY <1>9, <1>ev, <2>1, AnswerFacts DEF ReportSuccess, Ranked
    <3>2. best_idx' = ss_update_best_locked(health', score, best_idx, None, FALSE)
        BY <1>9, <2>2 DEF ReportSuccess
    <3> QED
        BY <1>ev, <3>1, <3>2, CalmUpdate DEF BestRankMinimal
  <2>3. CASE attempt[c].epoch # failure_epoch[attempt[c].srv]
      BY <1>9, <2>3, RankUntouched DEF ReportSuccess, HealthAfterAnswer
  <2> QED
      BY <2>2, <2>3
<1>10. ASSUME NEW c \in Clients, Abandon(c) PROVE BestRankMinimal'
    BY <1>10, RankUntouched DEF Abandon
<1>11. CASE UNCHANGED selectorVars
    BY <1>11, RankUntouched DEF selectorVars
<1> QED
    BY <1>1, <1>2, <1>3, <1>4, <1>5, <1>6, <1>7, <1>8, <1>9, <1>10, <1>11
    DEF SelectorNext, MainStep, ProbeStep, ClientStep

\* No interleaving of probe results and business reports leaves the lock-free
\* readers a best index that another server out-ranks in health.
THEOREM BestIsRankMinimal == SelectorSpec => []BestRankMinimal
<1>1. SelectorInit => BestRankMinimal
    BY NAssumption DEF SelectorInit, BestRankMinimal, ss_health_rank, Servers
<1>2. TypeOK /\ BestRankMinimal /\ [SelectorNext]_selectorVars => BestRankMinimal'
    BY RankStep
<1> QED
    BY <1>1, <1>2, TypeCorrect, PTL DEF SelectorSpec

\* Recording a failure of the published best always publishes another server.
THEOREM FailedBestAlwaysMoves == SelectorSpec => FailedBestMoves
<1> DEFINE Moves == N > 1 /\ FailureRecorded(best_idx) => best_idx' # best_idx
<1>1. ASSUME TypeOK, [SelectorNext]_selectorVars PROVE [Moves]_selectorVars
  <2> SUFFICES ASSUME SelectorNext, N > 1, FailureRecorded(best_idx)
               PROVE  best_idx' # best_idx
      BY <1>1
  <2>ev. /\ probe \in [Servers -> EvidenceOrNone] /\ attempt \in [Clients -> EvidenceOrNone]
         /\ score \in [Servers -> 0 .. UINT32_MAX] /\ best_idx \in Servers
         /\ TypeOK
      BY <1>1 DEF TypeOK, EvidenceOrNone
  <2>1. ASSUME NEW i \in Servers, NEW sc \in [Servers -> 0 .. UINT32_MAX],
               NEW pr \in [Servers -> EvidenceOrNone],
               NEW at \in [Clients -> EvidenceOrNone], RecordFailure(i, sc, pr, at)
        PROVE  best_idx' # best_idx
    <3>1. i = best_idx
        BY <2>1, <2>ev DEF RecordFailure, FailureRecorded, TypeOK
    <3> QED
        BY <2>1, <2>ev, <3>1, RecordFailureFacts
  <2>2. CASE ProbeStart
    <3>1. cur \in Servers
        BY <2>2, <2>ev, NAssumption DEF ProbeStart, TypeOK, Servers
    <3>2. \A sc \in Scores : [score EXCEPT ![cur] = sc] \in [Servers -> 0 .. UINT32_MAX]
        BY <2>ev, ScoresAssumption
    <3>3. PICK sc \in Scores : RecordFailure(cur, [score EXCEPT ![cur] = sc], probe, attempt)
        BY <2>2 DEF ProbeStart, FailureRecorded
    <3> QED
        BY <2>1, <2>ev, <3>1, <3>2, <3>3
  <2>3. ASSUME NEW i \in Servers, ProbeErrored(i) PROVE best_idx' # best_idx
    <3>1. PICK sc \in Scores : RecordFailure(i, [score EXCEPT ![i] = sc],
                                             [probe EXCEPT ![i] = NoAttempt], attempt)
        BY <2>3 DEF ProbeErrored
    <3>2. /\ [score EXCEPT ![i] = sc] \in [Servers -> 0 .. UINT32_MAX]
          /\ [probe EXCEPT ![i] = NoAttempt] \in [Servers -> EvidenceOrNone]
        BY <2>ev, ScoresAssumption DEF EvidenceOrNone
    <3> QED
        BY <2>1, <2>ev, <3>1, <3>2
  <2>4. ASSUME NEW c \in Clients, ReportFailure(c) PROVE best_idx' # best_idx
    <3>1. attempt[c].srv \in Servers
        BY <2>4, <2>ev DEF ReportFailure, TypeOK, Evidence
    <3>2. [attempt EXCEPT ![c] = NoAttempt] \in [Clients -> EvidenceOrNone]
        BY <2>ev DEF EvidenceOrNone
    <3> QED
        BY <2>1, <2>4, <2>ev, <3>1, <3>2 DEF ReportFailure
  <2> QED
      BY <2>2, <2>3, <2>4
      DEF SelectorNext, MainStep, ProbeStep, ClientStep, CheckTimer, ProbeAnswered,
          RecordProbeAnswer, ProbeSkipped, ProbeDone, Stop, Attempt, ReportSuccess,
          Abandon, FailureRecorded
<1> QED
    BY <1>1, TypeCorrect, PTL DEF SelectorSpec, FailedBestMoves

-----------------------------------------------------------------------------
(* Stale answers.  Until an epoch wraps, the epoch in a piece of evidence  *)
(* is at most the server's, and equal to it only if no failure intervened. *)

Timely(e) == e # NoAttempt => /\ e.epoch <= failure_epoch[e.srv]
                              /\ e.epoch = failure_epoch[e.srv] => e.fresh
ProbesAtHome == \A i \in Servers : probe[i] # NoAttempt => probe[i].srv = i
EpochInv ==
    /\ ProbesAtHome
    /\ ~ wrapped => /\ \A i \in Servers : Timely(probe[i])
                    /\ \A c \in Clients : Timely(attempt[c])

\* A failure moves the server's epoch past every epoch taken before it.
LEMMA FailureOvertakes ==
    ASSUME TypeOK, NEW i \in Servers, NEW sc,
           NEW pr \in [Servers -> EvidenceOrNone], NEW at \in [Clients -> EvidenceOrNone],
           RecordFailure(i, sc, pr, at),
           \A j \in Servers : pr[j] # NoAttempt => pr[j].srv = j,
           ~ wrapped => /\ \A j \in Servers : Timely(pr[j])
                        /\ \A c \in Clients : Timely(at[c])
    PROVE  EpochInv'
<1>1. ProbesAtHome'
    BY OvertakenFacts DEF RecordFailure, ProbesAtHome
<1>2. ASSUME ~ wrapped', NEW e \in EvidenceOrNone, Timely(e)
      PROVE  Overtaken(e, i) # NoAttempt =>
                /\ Overtaken(e, i).epoch <= failure_epoch'[Overtaken(e, i).srv]
                /\ Overtaken(e, i).epoch = failure_epoch'[Overtaken(e, i).srv]
                      => Overtaken(e, i).fresh
  <2> SUFFICES ASSUME e # NoAttempt
               PROVE  /\ e.epoch <= failure_epoch'[e.srv]
                      /\ e.epoch = failure_epoch'[e.srv] => e.fresh /\ e.srv # i
      BY OvertakenFacts
  <2>1. e.srv \in Servers /\ e.epoch \in Nat /\ \A j \in Servers : failure_epoch[j] \in Nat
      BY EpochAssumption DEF EvidenceOrNone, Evidence, Epochs, TypeOK
  <2>2. e.epoch <= failure_epoch[e.srv] /\ (e.epoch = failure_epoch[e.srv] => e.fresh)
      BY <1>2 DEF Timely
  <2>3. failure_epoch' = [failure_epoch EXCEPT ![i] = failure_epoch[i] + 1]
      BY <1>2 DEF RecordFailure, TypeOK
  <2>4. CASE e.srv = i
      BY <2>1, <2>2, <2>3, <2>4 DEF TypeOK
  <2>5. CASE e.srv # i
      BY <2>1, <2>2, <2>3, <2>5 DEF TypeOK
  <2> QED
      BY <2>4, <2>5
<1>3. ~ wrapped' => ~ wrapped
    BY DEF RecordFailure
<1>4. /\ \A j \in Servers : probe'[j] = Overtaken(pr[j], i)
      /\ \A c \in Clients : attempt'[c] = Overtaken(at[c], i)
    BY DEF RecordFailure
<1>5. ~ wrapped' => /\ \A j \in Servers : Timely(probe[j])'
                    /\ \A c \in Clients : Timely(attempt[c])'
    BY <1>2, <1>3, <1>4 DEF Timely
<1> QED
    BY <1>1, <1>5 DEF EpochInv

\* A step without a failure keeps every piece of evidence, drops it, or takes a
\* new snapshot; all three are timely.
LEMMA NoFailureKeeps ==
    ASSUME TypeOK, EpochInv, UNCHANGED <<failure_epoch, wrapped>>,
           \A j \in Servers : probe'[j] \in {probe[j], NoAttempt, Snapshot(j)},
           \A c \in Clients : \/ attempt'[c] \in {attempt[c], NoAttempt}
                              \/ \E i \in Servers : attempt'[c] = Snapshot(i)
    PROVE  EpochInv'
<1>1. \A i \in Servers : Snapshot(i).srv = i /\ Snapshot(i).fresh
                         /\ Snapshot(i).epoch = failure_epoch[i]
    BY DEF Snapshot
<1>2. \A i \in Servers : failure_epoch[i] <= failure_epoch[i]
    BY EpochAssumption DEF TypeOK, Epochs
<1>3. ProbesAtHome'
    BY <1>1 DEF EpochInv, ProbesAtHome
<1>4. ~ wrapped => \A j \in Servers : Timely(probe[j])'
    BY <1>1, <1>2 DEF EpochInv, Timely
<1>5. ~ wrapped => \A c \in Clients : Timely(attempt[c])'
    BY <1>1, <1>2 DEF EpochInv, Timely
<1> QED
    BY <1>3, <1>4, <1>5 DEF EpochInv

\* Every step keeps the evidence timely.
LEMMA EpochStep ==
    ASSUME TypeOK, EpochInv, [SelectorNext]_selectorVars
    PROVE  EpochInv'
<1>ev. /\ probe \in [Servers -> EvidenceOrNone] /\ attempt \in [Clients -> EvidenceOrNone]
       /\ \A j \in Servers : probe[j] # NoAttempt => probe[j].srv = j
       /\ ~ wrapped => /\ \A j \in Servers : Timely(probe[j])
                       /\ \A c \in Clients : Timely(attempt[c])
    BY DEF TypeOK, EvidenceOrNone, EpochInv, ProbesAtHome
<1>no. Timely(NoAttempt) /\ NoAttempt \in EvidenceOrNone
    BY DEF Timely, EvidenceOrNone
<1>1. CASE UNCHANGED <<failure_epoch, probe, attempt, wrapped>>
    BY <1>1, NoFailureKeeps
<1>2. CASE ProbeStart
  <2>1. cur \in Servers
      BY <1>2, NAssumption DEF ProbeStart, TypeOK, Servers
  <2>2. CASE /\ probe' = [probe EXCEPT ![cur] = Snapshot(cur)]
             /\ UNCHANGED <<failure_epoch, attempt, wrapped>>
    <3>1. \A j \in Servers : probe'[j] \in {probe[j], NoAttempt, Snapshot(j)}
        BY <1>ev, <2>1, <2>2
    <3> QED
        BY <2>2, <3>1, NoFailureKeeps
  <2>3. ASSUME NEW sc \in Scores,
               RecordFailure(cur, [score EXCEPT ![cur] = sc], probe, attempt)
        PROVE  EpochInv'
      BY <1>ev, <2>1, <2>3, FailureOvertakes
  <2> QED
      BY <1>1, <1>2, <2>2, <2>3 DEF ProbeStart
<1>3. ASSUME NEW i \in Servers, ProbeAnswered(i) \/ ProbeSkipped(i) PROVE EpochInv'
  <2>1. /\ probe' = [probe EXCEPT ![i] = NoAttempt]
        /\ UNCHANGED <<failure_epoch, attempt, wrapped>>
      BY <1>3 DEF ProbeAnswered, RecordProbeAnswer, ProbeSkipped
  <2>2. \A j \in Servers : probe'[j] \in {probe[j], NoAttempt, Snapshot(j)}
      BY <1>ev, <2>1
  <2> QED
      BY <2>1, <2>2, NoFailureKeeps
<1>4. ASSUME NEW i \in Servers, ProbeErrored(i) PROVE EpochInv'
  <2> DEFINE pr == [probe EXCEPT ![i] = NoAttempt]
  <2>1. PICK sc \in Scores : RecordFailure(i, [score EXCEPT ![i] = sc], pr, attempt)
      BY <1>4 DEF ProbeErrored
  <2>2. /\ pr \in [Servers -> EvidenceOrNone]
        /\ \A j \in Servers : pr[j] # NoAttempt => pr[j].srv = j
        /\ ~ wrapped => \A j \in Servers : Timely(pr[j])
    <3>1. \A j \in Servers : pr[j] = NoAttempt \/ pr[j] = probe[j]
        BY <1>ev
    <3>2. pr \in [Servers -> EvidenceOrNone]
        BY <1>ev, <1>no
    <3> HIDE DEF pr
    <3> QED
        BY <1>ev, <1>no, <3>1, <3>2
  <2> HIDE DEF pr
  <2> QED
      BY <1>ev, <2>1, <2>2, FailureOvertakes
<1>5. CASE Stop
    BY <1>5, NoFailureKeeps DEF Stop
<1>6. ASSUME NEW c \in Clients, NEW i \in Servers, Attempt(c, i) PROVE EpochInv'
  <2>1. \A d \in Clients : attempt'[d] = attempt[d] \/ attempt'[d] = Snapshot(i)
      BY <1>6, <1>ev DEF Attempt
  <2> QED
      BY <1>6, <2>1, NoFailureKeeps DEF Attempt
<1>7. ASSUME NEW c \in Clients, ReportFailure(c) PROVE EpochInv'
  <2> DEFINE at == [attempt EXCEPT ![c] = NoAttempt]
  <2>1. attempt[c].srv \in Servers
      BY <1>7 DEF ReportFailure, TypeOK, Evidence
  <2>2. /\ at \in [Clients -> EvidenceOrNone]
        /\ ~ wrapped => \A d \in Clients : Timely(at[d])
    <3>1. \A d \in Clients : at[d] = NoAttempt \/ at[d] = attempt[d]
        BY <1>ev
    <3>2. at \in [Clients -> EvidenceOrNone]
        BY <1>ev, <1>no
    <3> HIDE DEF at
    <3> QED
        BY <1>ev, <1>no, <3>1, <3>2
  <2>3. RecordFailure(attempt[c].srv, score, probe, at)
      BY <1>7 DEF ReportFailure
  <2> HIDE DEF at
  <2> QED
      BY <1>ev, <2>1, <2>2, <2>3, FailureOvertakes
<1>8. ASSUME NEW c \in Clients, ReportSuccess(c) \/ Abandon(c) PROVE EpochInv'
  <2>1. /\ attempt' = [attempt EXCEPT ![c] = NoAttempt]
        /\ UNCHANGED <<failure_epoch, probe, wrapped>>
      BY <1>8 DEF ReportSuccess, Abandon
  <2>2. \A d \in Clients : attempt'[d] \in {attempt[d], NoAttempt}
      BY <1>ev, <2>1
  <2> QED
      BY <2>1, <2>2, NoFailureKeeps
<1>9. CheckTimer \/ ProbeDone \/ UNCHANGED selectorVars
          => UNCHANGED <<failure_epoch, probe, attempt, wrapped>>
    BY DEF CheckTimer, ProbeDone, selectorVars
<1> QED
    BY <1>1, <1>2, <1>3, <1>4, <1>5, <1>6, <1>7, <1>8, <1>9
    DEF SelectorNext, MainStep, ProbeStep, ClientStep

\* "A response from an older connection must not erase a newer failure", for
\* every schedule in which no 64-bit epoch wraps around.
THEOREM StaleAnswersNeverRecover == SelectorSpec => NoStaleRecovery
<1> DEFINE Sound == \A i \in Servers : Recovery(i) /\ ~ wrapped => FreshEvidence(i)
<1>1. SelectorInit => EpochInv
    BY DEF SelectorInit, EpochInv, ProbesAtHome, Timely
<1>2. TypeOK /\ EpochInv /\ [SelectorNext]_selectorVars => EpochInv'
    BY EpochStep
<1>3. ASSUME TypeOK, EpochInv, [SelectorNext]_selectorVars PROVE [Sound]_selectorVars
  <2> SUFFICES ASSUME SelectorNext, NEW i \in Servers, Recovery(i), ~ wrapped
               PROVE  FreshEvidence(i)
      BY <1>3
  <2>ty. TypeOK /\ EpochInv
      BY <1>3
  <2>0. health'[i] # health[i]
      BY DEF Recovery
  <2>1. ASSUME NEW j \in Servers, NEW sc, NEW pr, NEW at, RecordFailure(j, sc, pr, at)
        PROVE  FALSE
    <3>1. health'[i] = health[i] \/ health'[i] = "failed"
        BY <2>1, <2>ty DEF RecordFailure, TypeOK
    <3> QED
        BY <3>1 DEF Recovery
  <2>2. ASSUME NEW j \in Servers, ProbeAnswered(j) PROVE FreshEvidence(i)
    <3>1. /\ health' = HealthAfterAnswer(j, probe[j].epoch)
          /\ probe[j] # NoAttempt /\ probe' = [probe EXCEPT ![j] = NoAttempt]
        BY <2>2 DEF ProbeAnswered, RecordProbeAnswer
    <3>2. j = i /\ probe[i].epoch = failure_epoch[i]
        BY <2>0, <2>ty, <3>1, AnswerFacts
    <3>3. probe[i].fresh /\ probe'[i] = NoAttempt
        BY <2>ty, <3>1, <3>2 DEF EpochInv, ProbesAtHome, Timely, TypeOK
    <3> QED
        BY <3>3 DEF FreshEvidence
  <2>3. ASSUME NEW c \in Clients, ReportSuccess(c) PROVE FreshEvidence(i)
    <3>1. /\ health' = HealthAfterAnswer(attempt[c].srv, attempt[c].epoch)
          /\ attempt[c] # NoAttempt /\ attempt' = [attempt EXCEPT ![c] = NoAttempt]
        BY <2>3 DEF ReportSuccess
    <3>2. attempt[c].srv \in Servers
        BY <2>ty, <3>1 DEF TypeOK, Evidence
    <3>3. attempt[c].srv = i /\ attempt[c].epoch = failure_epoch[i]
        BY <2>0, <2>ty, <3>1, <3>2, AnswerFacts
    <3>4. attempt[c].fresh /\ attempt'[c] = NoAttempt
        BY <2>ty, <3>1, <3>3 DEF EpochInv, Timely, TypeOK
    <3> QED
        BY <3>3, <3>4 DEF FreshEvidence
  <2>4. CASE ProbeStart
    <3>1. cur \in Servers
        BY <2>4, <2>ty, NAssumption DEF ProbeStart, TypeOK, Servers
    <3> QED
        BY <2>0, <2>1, <2>4, <3>1 DEF ProbeStart
  <2>5. ASSUME NEW j \in Servers, ProbeErrored(j) PROVE FALSE
      BY <2>1, <2>5 DEF ProbeErrored
  <2>6. ASSUME NEW c \in Clients, ReportFailure(c) PROVE FALSE
    <3>1. attempt[c].srv \in Servers
        BY <2>6, <2>ty DEF ReportFailure, TypeOK, Evidence
    <3> QED
        BY <2>1, <2>6, <3>1 DEF ReportFailure
  <2> QED
      BY <2>0, <2>2, <2>3, <2>4, <2>5, <2>6
      DEF SelectorNext, MainStep, ProbeStep, ClientStep, CheckTimer, ProbeSkipped,
          ProbeDone, Stop, Attempt, Abandon
<1> QED
    BY <1>1, <1>2, <1>3, TypeCorrect, PTL DEF SelectorSpec, NoStaleRecovery

-----------------------------------------------------------------------------
(* Switches on score alone.                                                *)

\* Without a failure of the best and a gain in health, only the end of a round
\* moves the best, and only for a gain in score over the threshold.
LEMMA UpdateOnScore ==
    ASSUME NEW h, NEW s, NEW prev, NEW failed, failed # prev, NEW allow \in BOOLEAN,
           NEW best, best = ss_update_best_locked(h, s, prev, failed, allow),
           best # prev, h[best] = h[prev]
    PROVE  allow /\ s[prev] - s[best] > SS_SWITCH_THRESHOLD
BY DEF ss_update_best_locked

\* Without leave to switch on the score it does not.
LEMMA NoUpdateOnScore ==
    ASSUME NEW h, NEW s, NEW prev, NEW failed, failed # prev,
           NEW best, best = ss_update_best_locked(h, s, prev, failed, FALSE), best # prev
    PROVE  h[best] # h[prev]
BY DEF ss_update_best_locked

\* The best moves between servers of equal health only at the end of a round, when
\* all scores are of this round, and for a gain over SS_SWITCH_THRESHOLD.
THEOREM ScoreSwitchesWait == SelectorSpec => ScoreSwitchNeedsWholeRound
<1> DEFINE Whole == ScoreSwitch => /\ probes_remaining' = 0 /\ cur = N
                                   /\ \A i \in Servers : probe[i] = NoAttempt
                                   /\ score[best_idx] - score[best_idx'] > SS_SWITCH_THRESHOLD
<1>1. ASSUME RoundInv, [SelectorNext]_selectorVars PROVE [Whole]_selectorVars
  <2> SUFFICES ASSUME SelectorNext, ScoreSwitch
               PROVE  /\ probes_remaining' = 0 /\ cur = N
                      /\ \A i \in Servers : probe[i] = NoAttempt
                      /\ score[best_idx] - score[best_idx'] > SS_SWITCH_THRESHOLD
      BY <1>1
  <2>ty. TypeOK /\ best_idx # None
      BY <1>1, NAssumption DEF RoundInv, TypeOK, Servers, None
  <2>0. /\ best_idx' # best_idx /\ health'[best_idx'] = health'[best_idx]
        /\ failure_epoch'[best_idx] = failure_epoch[best_idx]
      BY DEF ScoreSwitch, FailureRecorded
  <2>1. ASSUME NEW i \in Servers, NEW sc, NEW pr, NEW at, RecordFailure(i, sc, pr, at)
        PROVE  FALSE
    <3>1. /\ failure_epoch' = [failure_epoch EXCEPT ![i] = IF @ = UINT64_MAX THEN 0 ELSE @ + 1]
          /\ best_idx' = ss_update_best_locked(health', sc, best_idx, i, FALSE)
        BY <2>1 DEF RecordFailure
    <3>2. i # best_idx
        BY <2>0, <2>ty, <3>1, EpochAssumption DEF TypeOK, Epochs
    <3> QED
        BY <2>0, <3>1, <3>2, NoUpdateOnScore
  <2>2. ASSUME NEW s, best_idx' = ss_update_best_locked(health', s, best_idx, None, FALSE)
        PROVE  FALSE
      BY <2>0, <2>ty, <2>2, NoUpdateOnScore
  <2>3. CASE ProbeDone
    <3>1. /\ finishing /\ probes_remaining' = probes_remaining - 1 /\ UNCHANGED health
          /\ probes_remaining' = 0
          /\ best_idx' = ss_update_best_locked(health, score, best_idx, None, TRUE)
        BY <2>0, <2>3 DEF ProbeDone
    <3>2. score[best_idx] - score[best_idx'] > SS_SWITCH_THRESHOLD
        BY <2>0, <2>ty, <3>1, UpdateOnScore
    <3>3. Outstanding \in SUBSET Servers
        BY DEF Outstanding
    <3>4. Cardinality(Outstanding) \in 0 .. N
        BY <3>3, ServerSets
    <3>5. Cardinality(Outstanding) = 0 /\ cur = N
      <4>1. probes_remaining = Cardinality(Outstanding) + (N - cur) + 1
          BY <1>1, <3>1 DEF RoundInv, RoundAccounting
      <4>2. cur \in 0 .. N /\ probes_remaining \in 0 .. N
          BY <2>ty DEF TypeOK
      <4>3. probes_remaining - 1 = 0
          BY <3>1
      <4> QED
          BY <3>4, <4>1, <4>2, <4>3, NAssumption
    <3>6. \A i \in Servers : probe[i] = NoAttempt
        BY <3>5, NoOutstanding DEF Outstanding
    <3> QED
        BY <3>1, <3>2, <3>5, <3>6
  <2>4. CASE ProbeStart
    <3>1. cur \in Servers
        BY <2>4, <2>ty, NAssumption DEF ProbeStart, TypeOK, Servers
    <3> QED
        BY <2>0, <2>1, <2>4, <3>1 DEF ProbeStart
  <2>5. ASSUME NEW i \in Servers, ProbeStep(i) PROVE FALSE
      BY <2>0, <2>1, <2>2, <2>5
      DEF ProbeStep, ProbeAnswered, ProbeErrored, ProbeSkipped, RecordProbeAnswer
  <2>6. ASSUME NEW c \in Clients, ClientStep(c) PROVE FALSE
    <3>1. CASE ReportFailure(c)
      <4>1. attempt[c].srv \in Servers
          BY <2>ty, <3>1 DEF ReportFailure, TypeOK, Evidence
      <4> QED
          BY <2>1, <3>1, <4>1 DEF ReportFailure
    <3> QED
        BY <2>0, <2>2, <2>6, <3>1 DEF ClientStep, Attempt, ReportSuccess, Abandon
  <2> QED
      BY <2>0, <2>3, <2>4, <2>5, <2>6 DEF SelectorNext, MainStep, CheckTimer, Stop
<1> QED
    BY <1>1, RoundInvariant, PTL DEF SelectorSpec, ScoreSwitchNeedsWholeRound

-----------------------------------------------------------------------------
(* The scan is the candidate.                                              *)

\* For any number of servers, in every state and for every set of tried servers, the
\* scan of the server table that ss_candidate_locked makes returns the candidate
\* that the selector's steps are specified with.
THEOREM ScanReturnsCandidate == SelectorSpec => []CandidateIsTheScan
<1>1. TypeOK => CandidateIsTheScan
    BY ScanIsCandidate DEF TypeOK, Ranked, CandidateIsTheScan
<1> QED
    BY <1>1, TypeCorrect, PTL
=============================================================================
