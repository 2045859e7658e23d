-------------------------- MODULE WireProbeProofs --------------------------
(***************************************************************************)
(* What TLAPS proves of WireProbe: for every answer of a server, every way *)
(* in which it and the network cut it, and every size of the frames; and   *)
(* that the probes are what ServerSelector takes them for.                 *)
(***************************************************************************)
EXTENDS WireProbe, WellFoundedInduction, SequenceTheorems, TLAPS

\* A nonempty set of naturals has a least element.
LEMMA LeastNat ==
    ASSUME NEW A \in SUBSET Nat, A # {}
    PROVE  \E x \in A : \A y \in A : x <= y
<1>1. IsWellFoundedOn(OpToRel(<, Nat), Nat)
    BY NatLessThanWellFounded
<1>2. PICK x \in A : \A y \in A : <<y, x>> \notin OpToRel(<, Nat)
    BY <1>1, WFMin
<1>3. \A y \in A : ~ (y < x)
    BY <1>2 DEF OpToRel
<1> QED
    BY <1>3

-----------------------------------------------------------------------------
(* Pieces put together: FlattenSeq of the first c pieces of g.             *)

FlatTurn(q, i, p) == p \o q[i]
IsFlat(f, n, q) == f = [i \in 1 .. n |-> IF i = 1 THEN q[i] ELSE FlatTurn(q, i, f[i - 1])]

\* FlattenSeq goes through the pieces one by one.
LEMMA FlattenTurns ==
    ASSUME NEW q, Len(q) \in Nat \ {0}
    PROVE  \E f : /\ f[1] = q[1]
                  /\ \A i \in 2 .. Len(q) : f[i] = FlatTurn(q, i, f[i - 1])
                  /\ FlattenSeq(q) = f[Len(q)]
<1> DEFINE Bad == {n \in 1 .. Len(q) : ~ \E f : IsFlat(f, n, q)}
<1>1. Bad = {}
  <2> SUFFICES ASSUME Bad # {} PROVE FALSE
      OBVIOUS
  <2>1. PICK n \in Bad : \A m \in Bad : n <= m
    <3>1. Bad \in SUBSET Nat
        OBVIOUS
    <3> QED
        BY <3>1, LeastNat
  <2>2. CASE n = 1
    <3> DEFINE f == [i \in 1 .. 1 |-> q[i]]
    <3>1. \A i \in 1 .. 1 : f[i] = IF i = 1 THEN q[i] ELSE FlatTurn(q, i, f[i - 1])
        OBVIOUS
    <3>2. f = [i \in 1 .. 1 |-> IF i = 1 THEN q[i] ELSE FlatTurn(q, i, f[i - 1])]
        BY <3>1
    <3> HIDE DEF f
    <3>3. IsFlat(f, 1, q)
        BY <3>2 DEF IsFlat
    <3> QED
        BY <2>1, <2>2, <3>3
  <2>3. CASE n # 1
    <3>1. n \in 2 .. Len(q) /\ n - 1 \in 1 .. Len(q) /\ n - 1 \notin Bad
        BY <2>1, <2>3
    <3>2. PICK g : IsFlat(g, n - 1, q)
        BY <3>1
    <3> DEFINE f == [i \in 1 .. n |-> IF i = 1 THEN q[i] ELSE FlatTurn(q, i, g[i - 1])]
    <3>3. ASSUME NEW i \in 1 .. n - 1 PROVE f[i] = g[i]
      <4>1. g = [j \in 1 .. n - 1 |-> IF j = 1 THEN q[j] ELSE FlatTurn(q, j, g[j - 1])]
          BY <3>2 DEF IsFlat
      <4>2. i \in 1 .. n
          BY <3>1
      <4>3. g[i] = IF i = 1 THEN q[i] ELSE FlatTurn(q, i, g[i - 1])
          BY <4>1
      <4> QED
          BY <4>2, <4>3
    <3>4. \A i \in 1 .. n : f[i] = IF i = 1 THEN q[i] ELSE FlatTurn(q, i, f[i - 1])
      <4>1. \A i \in 1 .. n : f[i] = IF i = 1 THEN q[i] ELSE FlatTurn(q, i, g[i - 1])
          OBVIOUS
      <4> HIDE DEF f
      <4>2. \A i \in 1 .. n : i # 1 => f[i - 1] = g[i - 1]
          BY <3>1, <3>3
      <4> QED
          BY <4>1, <4>2
    <3>5. f = [i \in 1 .. n |-> IF i = 1 THEN q[i] ELSE FlatTurn(q, i, f[i - 1])]
        BY <3>4
    <3> HIDE DEF f
    <3>6. IsFlat(f, n, q)
        BY <3>5 DEF IsFlat
    <3> QED
        BY <2>1, <3>6
  <2> QED
      BY <2>2, <2>3
<1>2. \E f : IsFlat(f, Len(q), q)
  <2>1. Len(q) \in 1 .. Len(q)
      OBVIOUS
  <2> QED
      BY <1>1, <2>1
<1> DEFINE f == CHOOSE f : IsFlat(f, Len(q), q)
<1>3. IsFlat(f, Len(q), q)
    BY <1>2
<1>4. FlattenSeq(q) = f[Len(q)]
  <2>1. FlattenSeq(q) = IF Len(q) = 0 THEN q ELSE f[Len(q)]
      BY Zenon DEF FlattenSeq, IsFlat, FlatTurn
  <2>2. Len(q) # 0
      OBVIOUS
  <2> QED
      BY <2>1, <2>2
<1> HIDE DEF f
<1>5. f = [i \in 1 .. Len(q) |-> IF i = 1 THEN q[i] ELSE FlatTurn(q, i, f[i - 1])]
    BY <1>3 DEF IsFlat
<1>6. f[1] = q[1]
    BY <1>5
<1>7. ASSUME NEW i \in 2 .. Len(q) PROVE f[i] = FlatTurn(q, i, f[i - 1])
  <2>1. i \in 1 .. Len(q) /\ i # 1
      OBVIOUS
  <2> QED
      BY <1>5, <2>1
<1> QED
    BY <1>4, <1>6, <1>7

Cat(g, c) == FlattenSeq([i \in 1 .. c |-> g[i]])
End(g, c) == Len(Cat(g, c))

\* One piece more.
LEMMA CatTurn ==
    ASSUME NEW S, NEW g, NEW c \in Nat \ {0}, \A i \in 1 .. c : g[i] \in Seq(S)
    PROVE  Cat(g, 0) = << >> /\ Cat(g, c) = Cat(g, c - 1) \o g[c]
<1> DEFINE q == [i \in 1 .. c |-> g[i]]
           p == [i \in 1 .. c - 1 |-> g[i]]
<1>1. Cat(g, 0) = << >>
  <2> DEFINE e == [i \in 1 .. 0 |-> g[i]]
  <2>1. e = << >> /\ Len(e) = 0
      OBVIOUS
  <2> HIDE DEF e
  <2>2. FlattenSeq(e) = << >>
      BY <2>1 DEF FlattenSeq
  <2> QED
      BY <2>2 DEF Cat, e
<1>2. q \in Seq(Seq(S)) /\ Len(q) = c /\ \A i \in 1 .. c : q[i] = g[i]
    OBVIOUS
<1>3. Len(p) = c - 1 /\ \A i \in 1 .. c - 1 : p[i] = g[i] /\ q[i] = g[i]
  <2>1. c - 1 \in Nat /\ \A i \in 1 .. c - 1 : i \in 1 .. c
      OBVIOUS
  <2>2. \A i \in 1 .. c - 1 : p[i] = g[i]
      OBVIOUS
  <2>3. p \in Seq(Seq(S)) /\ Len(p) = c - 1
      BY <2>1
  <2> QED
      BY <1>2, <2>1, <2>2, <2>3
<1>4. Cat(g, c) = FlattenSeq(q) /\ Cat(g, c - 1) = FlattenSeq(p)
    BY DEF Cat
<1> HIDE DEF q, p
<1>5. PICK f : /\ f[1] = g[1]
               /\ \A i \in 2 .. c : f[i] = f[i - 1] \o g[i]
               /\ FlattenSeq(q) = f[c]
  <2>1. PICK f : /\ f[1] = q[1]
                 /\ \A i \in 2 .. c : f[i] = FlatTurn(q, i, f[i - 1])
                 /\ FlattenSeq(q) = f[c]
      BY <1>2, FlattenTurns
  <2>2. 1 \in 1 .. c /\ \A i \in 2 .. c : i \in 1 .. c
      OBVIOUS
  <2> QED
      BY <1>2, <2>1, <2>2 DEF FlatTurn
<1>6. CASE c = 1
  <2>1. Cat(g, c) = g[1] /\ g[1] \in Seq(S)
      BY <1>4, <1>5, <1>6
  <2>2. Cat(g, c - 1) = << >>
      BY <1>1, <1>6
  <2>3. << >> \o g[1] = g[1]
      BY <2>1, ConcatEmptySeq
  <2> QED
      BY <1>1, <1>6, <2>1, <2>2, <2>3
<1>7. CASE c # 1
  <2>1. PICK h : /\ h[1] = g[1]
                 /\ \A i \in 2 .. c - 1 : h[i] = h[i - 1] \o g[i]
                 /\ FlattenSeq(p) = h[c - 1]
    <3>1. c - 1 \in Nat \ {0}
        BY <1>7
    <3>2. PICK h : /\ h[1] = p[1]
                   /\ \A i \in 2 .. c - 1 : h[i] = FlatTurn(p, i, h[i - 1])
                   /\ FlattenSeq(p) = h[c - 1]
        BY <1>3, <3>1, FlattenTurns
    <3>3. 1 \in 1 .. c - 1 /\ \A i \in 2 .. c - 1 : i \in 1 .. c - 1
        BY <3>1
    <3> QED
        BY <1>3, <3>2, <3>3 DEF FlatTurn
  <2> DEFINE Bad == {i \in 1 .. c - 1 : f[i] # h[i]}
  <2>2. Bad = {}
    <3> SUFFICES ASSUME Bad # {} PROVE FALSE
        OBVIOUS
    <3>1. PICK n \in Bad : \A m \in Bad : n <= m
      <4>1. Bad \in SUBSET Nat
          OBVIOUS
      <4> QED
          BY <4>1, LeastNat
    <3>2. n # 1
        BY <1>5, <2>1, <3>1
    <3>3. n \in 2 .. c - 1 /\ n \in 2 .. c /\ n - 1 \in 1 .. c - 1 /\ n - 1 \notin Bad
        BY <3>1, <3>2
    <3>4. f[n - 1] = h[n - 1]
        BY <3>3
    <3>5. f[n] = h[n]
        BY <1>5, <2>1, <3>3, <3>4
    <3> QED
        BY <3>1, <3>5
  <2>3. c - 1 \in 1 .. c - 1 /\ c \in 2 .. c
      BY <1>7
  <2>4. f[c - 1] = h[c - 1]
      BY <2>2, <2>3
  <2>5. f[c] = f[c - 1] \o g[c]
      BY <1>5, <2>3
  <2> QED
      BY <1>1, <1>4, <1>5, <2>1, <2>4, <2>5
<1> QED
    BY <1>6, <1>7

\* The first j pieces are the beginning of what all of them give.
Pieces(g, j, S) == \A i \in 1 .. j : g[i] \in Seq(S)
CatGrows(g, j, S) ==
    /\ Cat(g, j) \in Seq(S)
    /\ \A i \in 0 .. j : /\ Cat(g, i) \in Seq(S) /\ End(g, i) <= End(g, j)
                         /\ \A k \in 1 .. End(g, i) : Cat(g, j)[k] = Cat(g, i)[k]

\* A piece more is appended, and moves nothing of what was there.
LEMMA CatStep ==
    ASSUME NEW S, NEW g, NEW j \in Nat \ {0}, Pieces(g, j, S), CatGrows(g, j - 1, S)
    PROVE  /\ CatGrows(g, j, S)
           /\ End(g, j) = End(g, j - 1) + Len(g[j])
           /\ \A k \in 1 .. Len(g[j]) : Cat(g, j)[End(g, j - 1) + k] = g[j][k]
<1> DEFINE p == Cat(g, j - 1)
           x == g[j]
           n == Len(p)
           m == Len(x)
           u == Cat(g, j)
<1>1. u = p \o x /\ j \in 1 .. j /\ j - 1 \in 0 .. j - 1 /\ x \in Seq(S)
  <2>1. j \in 1 .. j /\ j - 1 \in 0 .. j - 1
      OBVIOUS
  <2>2. \A i \in 1 .. j : g[i] \in Seq(S)
      BY DEF Pieces
  <2>3. Cat(g, j) = Cat(g, j - 1) \o g[j]
      BY <2>2, CatTurn
  <2> QED
      BY <2>1, <2>2, <2>3
<1>2. p \in Seq(S) /\ n \in Nat /\ m \in Nat
    BY <1>1, LenProperties DEF CatGrows
<1>3. /\ u \in Seq(S) /\ Len(u) = n + m
      /\ \A k \in 1 .. n + m : u[k] = IF k <= n THEN p[k] ELSE x[k - n]
  <2>1. n = Len(p) /\ m = Len(x)
      OBVIOUS
  <2> HIDE DEF u, p, x, n, m
  <2>2. /\ p \o x \in Seq(S) /\ Len(p \o x) = Len(p) + Len(x)
        /\ \A k \in 1 .. Len(p) + Len(x) : (p \o x)[k] = IF k <= Len(p) THEN p[k] ELSE x[k - Len(p)]
      BY <1>1, <1>2, ConcatProperties
  <2> QED
      BY <1>1, <2>1, <2>2
<1>4. \A i \in 0 .. j - 1 : /\ Cat(g, i) \in Seq(S) /\ End(g, i) \in Nat /\ End(g, i) <= n
                            /\ \A k \in 1 .. End(g, i) : p[k] = Cat(g, i)[k]
    BY LenProperties DEF CatGrows, End
<1>5. End(g, j) = Len(u) /\ End(g, j - 1) = n
    BY DEF End
<1> HIDE DEF u, p, x, n, m
<1>6. \A k \in 1 .. m : u[n + k] = x[k]
  <2> SUFFICES ASSUME NEW k \in 1 .. m PROVE u[n + k] = x[k]
      OBVIOUS
  <2>1. n + k \in 1 .. n + m /\ ~ (n + k <= n) /\ (n + k) - n = k
      BY <1>2
  <2> QED
      BY <1>3, <2>1
<1>7. ASSUME NEW i \in 0 .. j
      PROVE  /\ Cat(g, i) \in Seq(S) /\ End(g, i) <= Len(u)
             /\ \A k \in 1 .. End(g, i) : u[k] = Cat(g, i)[k]
  <2>1. CASE i = j
    <3>1. End(g, i) = Len(u) /\ Cat(g, i) = u /\ Len(u) \in Nat
        BY <1>2, <1>3, <1>5, <2>1 DEF u
    <3> QED
        BY <1>3, <3>1
  <2>2. CASE i # j
    <3>1. i \in 0 .. j - 1
        BY <2>2
    <3>2. End(g, i) \in Nat /\ End(g, i) <= n /\ End(g, i) <= n + m
        BY <1>2, <1>4, <3>1
    <3>3. ASSUME NEW k \in 1 .. End(g, i) PROVE u[k] = Cat(g, i)[k]
      <4>1. k \in 1 .. n + m /\ k <= n
          BY <1>2, <3>2
      <4> QED
          BY <1>3, <1>4, <3>1, <4>1
    <3> QED
        BY <1>3, <1>4, <3>1, <3>2, <3>3
  <2> QED
      BY <2>1, <2>2
<1> QED
    BY <1>3, <1>5, <1>6, <1>7 DEF CatGrows, u, x, m

\* How n pieces make a sequence: one after the other, each in its place.
Joined(g, n, S) ==
    /\ Cat(g, 0) = << >> /\ End(g, 0) = 0
    /\ \A j \in 0 .. n : Cat(g, j) \in Seq(S) /\ End(g, j) \in Nat
    /\ \A j \in 1 .. n : /\ Cat(g, j) = Cat(g, j - 1) \o g[j]
                         /\ Len(g[j]) \in Nat /\ End(g, j) = End(g, j - 1) + Len(g[j])
    /\ \A i, j \in 0 .. n : i <= j => /\ End(g, i) <= End(g, j)
                                      /\ \A k \in 1 .. End(g, i) : Cat(g, j)[k] = Cat(g, i)[k]
    /\ \A j \in 1 .. n : \A k \in 1 .. Len(g[j]) : Cat(g, n)[End(g, j - 1) + k] = g[j][k]

\* Pieces that are sequences are joined.
LEMMA CatFacts ==
    ASSUME NEW S, NEW n \in Nat, NEW g, Pieces(g, n, S)
    PROVE  Joined(g, n, S)
<1> DEFINE Bad == {j \in 0 .. n : ~ CatGrows(g, j, S)}
<1>0. \A i \in 1 .. n : g[i] \in Seq(S)
    BY DEF Pieces
<1>1. Cat(g, 0) = << >> /\ End(g, 0) = 0
  <2>1. Cat(g, 0) = << >>
    <3>1. [i \in 1 .. 0 |-> g[i]] = << >> /\ Len(<< >>) = 0
        OBVIOUS
    <3>2. FlattenSeq(<< >>) = << >>
        BY <3>1 DEF FlattenSeq
    <3> QED
        BY <3>1, <3>2 DEF Cat
  <2>2. Len(<< >>) = 0
      OBVIOUS
  <2> QED
      BY <2>1, <2>2 DEF End
<1>2. CatGrows(g, 0, S)
  <2>1. << >> \in Seq(S)
      OBVIOUS
  <2>2. \A i \in 0 .. 0 : i = 0
      OBVIOUS
  <2>3. ASSUME NEW i \in 0 .. 0
        PROVE  /\ Cat(g, i) \in Seq(S) /\ End(g, i) <= End(g, 0)
               /\ \A k \in 1 .. End(g, i) : Cat(g, 0)[k] = Cat(g, i)[k]
    <3>1. Cat(g, i) = Cat(g, 0) /\ End(g, i) = 0 /\ End(g, 0) = 0
        BY <1>1, <2>2
    <3>2. Cat(g, i) \in Seq(S)
        BY <1>1, <2>1, <3>1
    <3>3. End(g, i) <= End(g, 0)
        BY <3>1
    <3>4. \A k \in 1 .. End(g, i) : Cat(g, 0)[k] = Cat(g, i)[k]
        BY <3>1, Zenon
    <3> QED
        BY <3>2, <3>3, <3>4
  <2> QED
      BY <1>1, <2>1, <2>3 DEF CatGrows
<1>3. ASSUME NEW j \in 1 .. n, \A i \in 0 .. j - 1 : CatGrows(g, i, S)
      PROVE  /\ CatGrows(g, j, S)
             /\ Cat(g, j) = Cat(g, j - 1) \o g[j]
             /\ End(g, j) = End(g, j - 1) + Len(g[j])
             /\ \A k \in 1 .. Len(g[j]) : Cat(g, j)[End(g, j - 1) + k] = g[j][k]
  <2>1. j \in Nat \ {0} /\ j - 1 \in 0 .. j - 1 /\ \A i \in 1 .. j : g[i] \in Seq(S)
      BY <1>0
  <2>2. CatGrows(g, j - 1, S) /\ Pieces(g, j, S)
      BY <1>3, <2>1 DEF Pieces
  <2>3. Cat(g, j) = Cat(g, j - 1) \o g[j]
      BY <2>1, CatTurn
  <2>4. /\ CatGrows(g, j, S)
        /\ End(g, j) = End(g, j - 1) + Len(g[j])
        /\ \A k \in 1 .. Len(g[j]) : Cat(g, j)[End(g, j - 1) + k] = g[j][k]
      BY <2>1, <2>2, CatStep
  <2> QED
      BY <2>3, <2>4
<1>4. Bad = {}
  <2> SUFFICES ASSUME Bad # {} PROVE FALSE
      OBVIOUS
  <2>1. PICK m \in Bad : \A i \in Bad : m <= i
    <3>1. Bad \in SUBSET Nat
        OBVIOUS
    <3> QED
        BY <3>1, LeastNat
  <2>2. m \in 1 .. n /\ \A i \in 0 .. m - 1 : i \in 0 .. n /\ i \notin Bad
      BY <1>2, <2>1
  <2>3. \A i \in 0 .. m - 1 : CatGrows(g, i, S)
      BY <2>2
  <2>4. CatGrows(g, m, S)
      BY <1>3, <2>2, <2>3
  <2> QED
      BY <2>1, <2>4
<1>5. \A j \in 0 .. n : CatGrows(g, j, S) /\ Cat(g, j) \in Seq(S) /\ End(g, j) \in Nat
  <2>1. \A j \in 0 .. n : CatGrows(g, j, S)
      BY <1>4
  <2>2. \A j \in 0 .. n : Cat(g, j) \in Seq(S)
      BY <2>1 DEF CatGrows
  <2> QED
      BY <2>1, <2>2, LenProperties DEF End
<1>6. ASSUME NEW j \in 1 .. n
      PROVE  /\ Cat(g, j) = Cat(g, j - 1) \o g[j]
             /\ Len(g[j]) \in Nat /\ End(g, j) = End(g, j - 1) + Len(g[j])
             /\ \A k \in 1 .. Len(g[j]) : Cat(g, j)[End(g, j - 1) + k] = g[j][k]
  <2>1. \A i \in 0 .. j - 1 : CatGrows(g, i, S)
      BY <1>5
  <2>2. Len(g[j]) \in Nat
      BY <1>0, LenProperties
  <2> QED
      BY <1>3, <2>1, <2>2
<1>7. ASSUME NEW i \in 0 .. n, NEW j \in 0 .. n, i <= j
      PROVE  End(g, i) <= End(g, j) /\ \A k \in 1 .. End(g, i) : Cat(g, j)[k] = Cat(g, i)[k]
  <2>1. i \in 0 .. j
      BY <1>7
  <2> QED
      BY <1>5, <2>1 DEF CatGrows
<1>8. ASSUME NEW j \in 1 .. n, NEW k \in 1 .. Len(g[j])
      PROVE  Cat(g, n)[End(g, j - 1) + k] = g[j][k]
  <2>1. j \in 0 .. n /\ n \in 0 .. n /\ j - 1 \in 0 .. n /\ j <= n
      OBVIOUS
  <2>2. End(g, j - 1) + k \in 1 .. End(g, j)
    <3>1. /\ End(g, j - 1) \in Nat /\ Len(g[j]) \in Nat
          /\ End(g, j) = End(g, j - 1) + Len(g[j])
        BY <1>5, <1>6, <2>1
    <3> QED
        BY <3>1
  <2>3. Cat(g, n)[End(g, j - 1) + k] = Cat(g, j)[End(g, j - 1) + k]
      BY <1>7, <2>1, <2>2
  <2> QED
      BY <1>6, <2>3
<1> QED
    BY <1>1, <1>5, <1>6, <1>7, <1>8 DEF Joined

-----------------------------------------------------------------------------
(* The answer on the wire.                                                 *)

\* The sizes of server_selector.c: every frame of an answer fits into p->buf.
LEMMA ProbeSizes ==
    /\ SendLen \in Nat \ {0} /\ TAG \in Nat \ {0} /\ UINT16_MAX \in Nat \ {0}
    /\ HeaderSize \in Nat \ {0} /\ TCP_PROBE_RECV_BUF_SIZE \in Nat \ {0}
    /\ HeaderSize <= TCP_PROBE_RECV_BUF_SIZE
    /\ TCP_PROBE_LENGTH_LEN \in Nat \ {0} /\ TCP_PROBE_LENGTH_LEN <= TCP_PROBE_RECV_BUF_SIZE
    /\ \A n \in 0 .. UINT16_MAX : /\ n + TAG \in Nat \ {0} /\ n + TAG <= TCP_PROBE_RECV_BUF_SIZE
    /\ TCP_PROBE_STATUS_LEN \in Nat \ {0}
BY ProbeAssumption DEF TCP_PROBE_RECV_BUF_SIZE, TCP_PROBE_LENGTH_LEN

Pairs == Nat \X Nat
FrameSeq(r) == [f \in 1 .. Frames(r) |-> Frame(r, f)]
FrameEnd(r, f) == End(FrameSeq(r), f)

\* An answer is one chunk or more, none longer than its 16-bit length can say.
LEMMA AnswerFacts ==
    ASSUME NEW r \in Responses
    PROVE  /\ Len(r) \in Nat \ {0} /\ r \in Seq(Seq(Nat))
           /\ \A c \in 1 .. Len(r) : r[c] \in Seq(Nat) /\ Len(r[c]) \in 0 .. UINT16_MAX
           /\ Frames(r) = 2 * Len(r) /\ Frames(r) \in Nat
<1>1. r # << >> /\ r \in Seq(Seq(Nat)) /\ \A c \in 1 .. Len(r) : Len(r[c]) <= UINT16_MAX
    BY ProbeAssumption
<1>2. Len(r) \in Nat \ {0}
    BY <1>1, EmptySeq
<1>3. ASSUME NEW c \in 1 .. Len(r)
      PROVE  r[c] \in Seq(Nat) /\ Len(r[c]) \in 0 .. UINT16_MAX
  <2>1. r[c] \in Seq(Nat)
      BY <1>1, ElementOfSeq
  <2>2. Len(r[c]) \in Nat /\ Len(r[c]) <= UINT16_MAX
      BY <1>1, <2>1, LenProperties
  <2> QED
      BY <2>1, <2>2, ProbeSizes
<1>4. Frames(r) = 2 * Len(r) /\ Frames(r) \in Nat
    BY <1>2 DEF Frames
<1> QED
    BY <1>1, <1>2, <1>3, <1>4

\* Odd frames are lengths, the first of them the header; even frames are chunks.
LEMMA FrameSizes ==
    ASSUME NEW r \in Responses
    PROVE  /\ FrameSize(r, 1) = HeaderSize
           /\ \A c \in 1 .. Len(r) : FrameSize(r, 2 * c) = Len(r[c]) + TAG
           /\ \A c \in Nat \ {0} : FrameSize(r, 2 * c + 1) = TCP_PROBE_LENGTH_LEN
           /\ \A f \in 1 .. Frames(r) : FrameSize(r, f) \in Nat \ {0}
<1>1. FrameSize(r, 1) = HeaderSize
    BY DEF FrameSize
<1>2. ASSUME NEW c \in 1 .. Len(r) PROVE FrameSize(r, 2 * c) = Len(r[c]) + TAG
  <2>1. 2 * c # 1 /\ (2 * c) % 2 = 0 /\ (2 * c) \div 2 = c
      BY AnswerFacts
  <2> QED
      BY <2>1 DEF FrameSize
<1>3. ASSUME NEW c \in Nat \ {0} PROVE FrameSize(r, 2 * c + 1) = TCP_PROBE_LENGTH_LEN
  <2>1. 2 * c + 1 # 1 /\ (2 * c + 1) % 2 # 0
      OBVIOUS
  <2> QED
      BY <2>1 DEF FrameSize
<1>4. ASSUME NEW f \in 1 .. Frames(r) PROVE FrameSize(r, f) \in Nat \ {0}
  <2>1. f = 1 \/ \E c \in Nat \ {0} : f = 2 * c \/ f = 2 * c + 1
    <3>0. f \in Nat \ {0}
        BY AnswerFacts
    <3> DEFINE d == f \div 2
    <3>1. d \in Nat /\ 2 * d <= f /\ f <= 2 * d + 1
        BY <3>0
    <3> HIDE DEF d
    <3>2. f = 1 \/ d \in Nat \ {0}
        BY <3>0, <3>1
    <3>3. f = 2 * d \/ f = 2 * d + 1
        BY <3>0, <3>1
    <3> QED
        BY <3>2, <3>3
  <2>2. CASE f = 1
      BY <1>1, <2>2, ProbeSizes
  <2>3. ASSUME NEW c \in Nat \ {0}, f = 2 * c PROVE FrameSize(r, f) \in Nat \ {0}
    <3>1. c \in 1 .. Len(r)
        BY <2>3, AnswerFacts
    <3>2. Len(r[c]) \in 0 .. UINT16_MAX
        BY <3>1, AnswerFacts
    <3> QED
        BY <1>2, <2>3, <3>1, <3>2, ProbeSizes
  <2>4. ASSUME NEW c \in Nat \ {0}, f = 2 * c + 1 PROVE FrameSize(r, f) \in Nat \ {0}
      BY <1>3, <2>4, ProbeSizes
  <2> QED
      BY <2>1, <2>2, <2>3, <2>4
<1> QED
    BY <1>1, <1>2, <1>3, <1>4

\* Where each frame is on the wire.
LEMMA WireFacts ==
    ASSUME NEW r \in Responses
    PROVE  /\ Wire(r) \in Seq(Pairs) /\ Len(Wire(r)) = FrameEnd(r, Frames(r))
           /\ FrameEnd(r, 0) = 0
           /\ \A f \in 0 .. Frames(r) : FrameEnd(r, f) \in Nat /\ FrameEnd(r, f) <= Len(Wire(r))
           /\ \A f, h \in 0 .. Frames(r) : f <= h => FrameEnd(r, f) <= FrameEnd(r, h)
           /\ \A f \in 1 .. Frames(r) :
                /\ FrameEnd(r, f) = FrameEnd(r, f - 1) + FrameSize(r, f)
                /\ Frame(r, f) \in Seq(Pairs) /\ Len(Frame(r, f)) = FrameSize(r, f)
                /\ \A k \in 1 .. FrameSize(r, f) :
                     Wire(r)[FrameEnd(r, f - 1) + k] = Frame(r, f)[k]
<1> DEFINE g == FrameSeq(r)
           n == Frames(r)
<1>1. n \in Nat
    BY AnswerFacts
<1>2. ASSUME NEW f \in 1 .. n
      PROVE  g[f] = Frame(r, f) /\ Frame(r, f) \in Seq(Pairs) /\ Len(Frame(r, f)) = FrameSize(r, f)
  <2> DEFINE m == FrameSize(r, f)
  <2>1. m \in Nat /\ f \in Nat
      BY <1>1, FrameSizes
  <2>2. Frame(r, f) = [i \in 1 .. m |-> <<f, i>>]
      BY DEF Frame
  <2> HIDE DEF m
  <2>3. \A i \in 1 .. m : <<f, i>> \in Pairs
      BY <2>1 DEF Pairs
  <2>4. [i \in 1 .. m |-> <<f, i>>] \in Seq(Pairs) /\ Len([i \in 1 .. m |-> <<f, i>>]) = m
      BY <2>1, <2>3
  <2> QED
      BY <2>2, <2>4 DEF FrameSeq, m
<1>3. Wire(r) = Cat(g, n)
  <2>1. Wire(r) = FlattenSeq(g)
      BY DEF Wire, FrameSeq
  <2>2. g = [i \in 1 .. n |-> g[i]]
      BY DEF FrameSeq
  <2> HIDE DEF g, n
  <2> QED
      BY <2>1, <2>2 DEF Cat
<1>4. \A f \in 1 .. n : g[f] \in Seq(Pairs)
    BY <1>2
<1> HIDE DEF g, n
<1>5. /\ Cat(g, 0) = << >> /\ End(g, 0) = 0
      /\ \A j \in 0 .. n : Cat(g, j) \in Seq(Pairs) /\ End(g, j) \in Nat
      /\ \A j \in 1 .. n : End(g, j) = End(g, j - 1) + Len(g[j])
      /\ \A i, j \in 0 .. n : i <= j => End(g, i) <= End(g, j)
      /\ \A j \in 1 .. n : \A k \in 1 .. Len(g[j]) : Cat(g, n)[End(g, j - 1) + k] = g[j][k]
  <2>1. Pieces(g, n, Pairs)
      BY <1>4 DEF Pieces
  <2>2. Joined(g, n, Pairs)
      BY <1>1, <2>1, CatFacts
  <2> QED
      BY <2>2 DEF Joined
<1>6. n \in 0 .. n /\ \A f \in 0 .. n : f <= n
    BY <1>1
<1>7. Len(Wire(r)) = End(g, n) /\ Wire(r) \in Seq(Pairs)
    BY <1>3, <1>5, <1>6 DEF End
<1>8. \A f \in 0 .. n : End(g, f) <= Len(Wire(r))
    BY <1>5, <1>6, <1>7
<1>9. ASSUME NEW f \in 1 .. n
      PROVE  /\ End(g, f) = End(g, f - 1) + FrameSize(r, f)
             /\ \A k \in 1 .. FrameSize(r, f) : Wire(r)[End(g, f - 1) + k] = Frame(r, f)[k]
    BY <1>2, <1>3, <1>5
<1> QED
    BY <1>2, <1>5, <1>7, <1>8, <1>9 DEF FrameEnd, g, n

\* The plain text of the first c chunks.
LEMMA TextFacts ==
    ASSUME NEW r \in Responses
    PROVE  /\ FlattenSeq(r) = Cat(r, Len(r)) /\ Cat(r, 0) = << >> /\ End(r, 0) = 0
           /\ \A c \in 0 .. Len(r) : /\ FlattenSeq(SubSeq(r, 1, c)) = Cat(r, c)
                                     /\ Cat(r, c) \in Seq(Nat) /\ End(r, c) \in Nat
           /\ \A c, d \in 0 .. Len(r) : c <= d =>
                /\ End(r, c) <= End(r, d)
                /\ \A k \in 1 .. End(r, c) : Cat(r, d)[k] = Cat(r, c)[k]
           /\ \A c \in 1 .. Len(r) : /\ Cat(r, c) = Cat(r, c - 1) \o r[c]
                                     /\ End(r, c) = End(r, c - 1) + Len(r[c])
<1>1. /\ Len(r) \in Nat \ {0} /\ r \in Seq(Seq(Nat)) /\ \A c \in 1 .. Len(r) : r[c] \in Seq(Nat)
    BY AnswerFacts
<1>2. r = [i \in 1 .. Len(r) |-> r[i]]
    BY <1>1
<1>3. FlattenSeq(r) = Cat(r, Len(r))
    BY <1>2 DEF Cat
<1>4. ASSUME NEW c \in 0 .. Len(r) PROVE FlattenSeq(SubSeq(r, 1, c)) = Cat(r, c)
  <2>1. SubSeq(r, 1, c) = [i \in 1 .. c |-> r[i]]
    <3> DEFINE x == SubSeq(r, 1, c)
               y == [i \in 1 .. c |-> r[i]]
    <3>0. \A i \in 1 .. c : r[i] \in Seq(Nat)
        BY <1>1
    <3>1. /\ x \in Seq(Seq(Nat)) /\ Len(x) = IF 1 <= c THEN c - 1 + 1 ELSE 0
          /\ \A i \in 1 .. c - 1 + 1 : x[i] = r[1 + i - 1]
        BY <1>1, <3>0, SubSeqProperties
    <3>2. c - 1 + 1 = c /\ (IF 1 <= c THEN c ELSE 0) = c /\ \A i \in 1 .. c : 1 + i - 1 = i
        BY <1>1
    <3>3. x \in Seq(Seq(Nat)) /\ Len(x) = c /\ \A i \in 1 .. c : x[i] = r[i]
        BY <3>1, <3>2
    <3>4. y \in Seq(Seq(Nat)) /\ Len(y) = c /\ \A i \in 1 .. c : y[i] = r[i]
        BY <1>1, <3>0
    <3> HIDE DEF x, y
    <3>5. x = y
        BY <3>3, <3>4, SeqEqual
    <3> QED
        BY <3>5 DEF x, y
  <2> QED
      BY <2>1 DEF Cat
<1>5. /\ Cat(r, 0) = << >> /\ End(r, 0) = 0
      /\ \A j \in 0 .. Len(r) : Cat(r, j) \in Seq(Nat) /\ End(r, j) \in Nat
      /\ \A j \in 1 .. Len(r) : /\ Cat(r, j) = Cat(r, j - 1) \o r[j]
                                /\ End(r, j) = End(r, j - 1) + Len(r[j])
      /\ \A i, j \in 0 .. Len(r) : i <= j => /\ End(r, i) <= End(r, j)
                                             /\ \A k \in 1 .. End(r, i) : Cat(r, j)[k] = Cat(r, i)[k]
  <2>1. Pieces(r, Len(r), Nat) /\ Len(r) \in Nat
      BY <1>1 DEF Pieces
  <2>2. Joined(r, Len(r), Nat)
      BY <2>1, CatFacts
  <2> QED
      BY <2>2 DEF Joined
<1> QED
    BY <1>3, <1>4, <1>5

-----------------------------------------------------------------------------
(* The inductive invariant.  A TCP probe holds nothing, or all of what     *)
(* tcp_probe_start has acquired; and while it receives, the frames that it *)
(* has opened, the buffer and the status are the answer up to the byte     *)
(* that the socket has given last.                                         *)

\* Before the watcher is started, while the request is sent, while the answer comes.
Opening == Armed(Free, "off")
Writing == Armed(Free, "write")
Reading == Armed(Free, "read")

HoldsInv ==
    /\ res \in [Kinds -> {Free, Opening, Writing, Reading}]
    /\ res["udp"] \in {Free, Reading}

VarsInv ==
    /\ state \in {"CONNECTING", "SENDING", "RECV_RESP_HDR", "RECV_PAYLOAD", "RECV_LENGTH"}
    /\ send_off \in 0 .. SendLen
    /\ buf \in Seq(Pairs) /\ Len(buf) <= TCP_PROBE_RECV_BUF_SIZE
    /\ buf_need \in 0 .. TCP_PROBE_RECV_BUF_SIZE
    /\ status \in Seq(Nat) /\ Len(status) <= TCP_PROBE_STATUS_LEN
    /\ busy \in {"no", "send", "recv"}
    /\ answer \in [text : Responses, forged : BOOLEAN]
    /\ txid \in 0 .. UINT16_MAX /\ stopped \in BOOLEAN

\* Which callback may be in its loop, and what an attempt under way has not yet done.
PhaseInv ==
    /\ res["tcp"] = Free => busy = "no"
    /\ res["tcp"] # Free => outcome.verdict = "none" /\ ~ answer.forged
    /\ res["tcp"] = Opening => busy = "send"
    /\ res["tcp"] \in {Opening, Writing} =>
            /\ state \in {"CONNECTING", "SENDING"} /\ busy # "recv"
            /\ busy = "send" => state = "SENDING"
            /\ opened = 0 /\ got = 0
    /\ res["tcp"] = Reading => busy # "send"

\* After o frames the buffer b holds the bytes of the wire up to the n-th.
Stream(r, o, b, n) ==
    /\ o \in 0 .. Frames(r) /\ n \in 0 .. Len(Wire(r))
    /\ n = FrameEnd(r, o) + Len(b)
    /\ \A k \in 1 .. Len(b) : b[k] = Wire(r)[FrameEnd(r, o) + k]

\* The first c chunks are in the status t, which is not complete, and the frame
\* that state s waits for, of length n, is the one after the o that are open.
Place(r, c, o, s, n, t) ==
    /\ End(r, c) < TCP_PROBE_STATUS_LEN /\ t = Cat(r, c)
    /\ \/ s = "RECV_RESP_HDR" /\ c = 0 /\ o = 0 /\ n = HeaderSize
       \/ s = "RECV_LENGTH" /\ c > 0 /\ o = 2 * c /\ n = TCP_PROBE_LENGTH_LEN
       \/ s = "RECV_PAYLOAD" /\ c < Len(r) /\ o = 2 * c + 1 /\ n = Len(r[c + 1]) + TAG

ReceiveInv ==
    res["tcp"] = Reading =>
        /\ Stream(answer.text, opened, buf, got)
        /\ \E c \in 0 .. Len(answer.text) : Place(answer.text, c, opened, state, buf_need, status)
        /\ busy = "no" => Len(buf) < buf_need

ProbeInv == HoldsInv /\ VarsInv /\ PhaseInv /\ ReceiveInv /\ VerdictIsTheAnswer

-----------------------------------------------------------------------------
(* The frame that comes next.                                              *)

\* Where the probe is, its next length is the one of the next frame, if there is one.
LEMMA PlaceNeeds ==
    ASSUME NEW r \in Responses, NEW c \in 0 .. Len(r), NEW o \in 0 .. Frames(r),
           NEW s, NEW m, NEW t, Place(r, c, o, s, m, t)
    PROVE  /\ m \in 1 .. TCP_PROBE_RECV_BUF_SIZE
           /\ o < Frames(r) => m = FrameSize(r, o + 1)
           /\ o \in {2 * c, 2 * c + 1}
           /\ o # 2 * c <=> s = "RECV_PAYLOAD"
<1>1. /\ Len(r) \in Nat \ {0} /\ Frames(r) = 2 * Len(r) /\ Frames(r) \in Nat
      /\ \A d \in 1 .. Len(r) : Len(r[d]) \in 0 .. UINT16_MAX
    BY AnswerFacts
<1>2. CASE s = "RECV_RESP_HDR"
  <2>1. c = 0 /\ o = 0 /\ m = HeaderSize
      BY <1>2 DEF Place
  <2>2. o + 1 = 1
      BY <2>1
  <2>3. m = FrameSize(r, o + 1)
      BY <2>1, <2>2, FrameSizes
  <2> QED
      BY <1>2, <2>1, <2>3, ProbeSizes
<1>3. CASE s = "RECV_LENGTH"
  <2>1. c > 0 /\ o = 2 * c /\ m = TCP_PROBE_LENGTH_LEN
      BY <1>3 DEF Place
  <2>2. c \in Nat \ {0}
      BY <1>1, <2>1
  <2>3. m = FrameSize(r, o + 1)
      BY <2>1, <2>2, FrameSizes
  <2> QED
      BY <1>3, <2>1, <2>3, ProbeSizes
<1>4. CASE s = "RECV_PAYLOAD"
  <2>1. c < Len(r) /\ o = 2 * c + 1 /\ m = Len(r[c + 1]) + TAG
      BY <1>4 DEF Place
  <2>2. c + 1 \in 1 .. Len(r) /\ o + 1 = 2 * (c + 1) /\ o # 2 * c
      BY <1>1, <2>1
  <2>3. m = FrameSize(r, o + 1)
      BY <2>1, <2>2, FrameSizes
  <2>4. Len(r[c + 1]) \in 0 .. UINT16_MAX
      BY <1>1, <2>2
  <2>5. m \in 1 .. TCP_PROBE_RECV_BUF_SIZE
    <3> DEFINE x == Len(r[c + 1])
    <3>1. m = x + TAG /\ x \in 0 .. UINT16_MAX
        BY <2>1, <2>4
    <3> HIDE DEF x
    <3>2. m \in Nat \ {0} /\ m <= TCP_PROBE_RECV_BUF_SIZE
        BY <3>1, ProbeSizes
    <3>3. TCP_PROBE_RECV_BUF_SIZE \in Nat
        BY ProbeSizes
    <3> QED
        BY <3>2, <3>3
  <2> QED
      BY <1>4, <2>1, <2>2, <2>3, <2>5
<1> QED
    BY <1>2, <1>3, <1>4 DEF Place

\* What the buffer holds of the length it waits for is the next frame, and what
\* tcp_probe_consume leaves of it follows that frame on the wire.
LEMMA NextFrame ==
    ASSUME NEW r \in Responses, NEW c \in 0 .. Len(r), NEW o, NEW s, NEW m, NEW t,
           NEW b \in Seq(Pairs), NEW n,
           Stream(r, o, b, n), Place(r, c, o, s, m, t), Len(b) >= m
    PROVE  /\ o + 1 \in 1 .. Frames(r) /\ o + 1 <= Frames(r)
           /\ SubSeq(b, 1, m) = Frame(r, o + 1)
           /\ SubSeq(b, m + 1, Len(b)) \in Seq(Pairs)
           /\ Len(SubSeq(b, m + 1, Len(b))) <= Len(b)
           /\ Stream(r, o + 1, SubSeq(b, m + 1, Len(b)), n)
<1> DEFINE F == Frames(r)
           e == FrameEnd(r, o)
           l == Len(b)
           w == Wire(r)
<1>1. F \in Nat /\ l \in Nat
    BY AnswerFacts, LenProperties
<1>2. /\ o \in 0 .. F /\ n \in 0 .. Len(w) /\ n = e + l
      /\ \A k \in 1 .. l : b[k] = w[e + k]
    BY DEF Stream
<1>3. m \in 1 .. TCP_PROBE_RECV_BUF_SIZE /\ (o < F => m = FrameSize(r, o + 1))
    BY <1>2, PlaceNeeds
<1>4. m \in Nat \ {0} /\ m <= l
    BY <1>3, ProbeSizes
<1>5. e \in Nat /\ Len(w) \in Nat /\ Len(w) = FrameEnd(r, F) /\ w \in Seq(Pairs)
  <2>1. F \in 0 .. F
      BY <1>1
  <2> QED
      BY <1>2, <2>1, WireFacts
<1>6. o + 1 \in 1 .. F /\ o + 1 <= F /\ o < F /\ (o + 1) - 1 = o
  <2>1. o # F
    <3> SUFFICES ASSUME o = F PROVE FALSE
        OBVIOUS
    <3>1. e = Len(w)
        BY <1>5
    <3> HIDE DEF F, e, l, w
    <3> QED
        BY <1>1, <1>2, <1>4, <1>5, <3>1
  <2> HIDE DEF F
  <2> QED
      BY <1>1, <1>2, <2>1
<1>7. m = FrameSize(r, o + 1)
    BY <1>3, <1>6
<1>8. /\ FrameEnd(r, o + 1) = e + m /\ e + m \in Nat
      /\ Frame(r, o + 1) \in Seq(Pairs) /\ Len(Frame(r, o + 1)) = m
      /\ \A k \in 1 .. m : w[e + k] = Frame(r, o + 1)[k]
  <2>1. /\ FrameEnd(r, o + 1) = FrameEnd(r, (o + 1) - 1) + FrameSize(r, o + 1)
        /\ Frame(r, o + 1) \in Seq(Pairs) /\ Len(Frame(r, o + 1)) = FrameSize(r, o + 1)
        /\ \A k \in 1 .. FrameSize(r, o + 1) :
              Wire(r)[FrameEnd(r, (o + 1) - 1) + k] = Frame(r, o + 1)[k]
      BY <1>6, WireFacts
  <2> QED
      BY <1>4, <1>5, <1>6, <1>7, <2>1
<1> HIDE DEF F, e, l, w
<1>9. SubSeq(b, 1, m) = Frame(r, o + 1)
  <2> DEFINE x == SubSeq(b, 1, m)
             y == Frame(r, o + 1)
  <2>0. 1 \in 1 .. l + 1 /\ m \in 1 - 1 .. l /\ m \in Int
      BY <1>1, <1>4
  <2>1. /\ x \in Seq(Pairs) /\ Len(x) = m /\ \A k \in 1 .. m : x[k] = b[k]
    <3>1. \A k \in 1 .. m : b[k] \in Pairs
        BY <1>4, <1>1, ElementOfSeq DEF l
    <3>2. /\ x \in Seq(Pairs) /\ Len(x) = IF 1 <= m THEN m - 1 + 1 ELSE 0
          /\ \A k \in 1 .. m - 1 + 1 : x[k] = b[1 + k - 1]
        BY <2>0, <3>1, SubSeqProperties
    <3>3. (IF 1 <= m THEN m - 1 + 1 ELSE 0) = m /\ m - 1 + 1 = m /\ \A k \in 1 .. m : 1 + k - 1 = k
        BY <1>4
    <3> QED
        BY <3>2, <3>3
  <2>2. y \in Seq(Pairs) /\ Len(y) = m
      BY <1>8
  <2> HIDE DEF x, y
  <2>3. \A k \in 1 .. m : x[k] = y[k]
    <3>1. \A k \in 1 .. m : k \in 1 .. l
        BY <1>1, <1>4
    <3>2. \A k \in 1 .. m : w[e + k] = y[k]
        BY <1>8 DEF y
    <3> QED
        BY <1>2, <2>1, <3>1, <3>2
  <2>4. x = y
      BY <2>1, <2>2, <2>3, SeqEqual
  <2> QED
      BY <2>4 DEF x, y
<1>10. /\ SubSeq(b, m + 1, l) \in Seq(Pairs) /\ Len(SubSeq(b, m + 1, l)) = l - m
       /\ \A k \in 1 .. l - m : SubSeq(b, m + 1, l)[k] = b[m + k]
  <2> DEFINE x == SubSeq(b, m + 1, l)
  <2>a. PICK a : a = m + 1
      OBVIOUS
  <2>1. a \in Int /\ l \in Int
      BY <1>1, <1>4, <2>a
  <2>2. \A k \in a .. l : k \in 1 .. l
      BY <1>1, <1>4, <2>a
  <2>3. \A k \in a .. l : b[k] \in Pairs
      BY <2>2, ElementOfSeq DEF l
  <2>s. /\ SubSeq(b, a, l) \in Seq(Pairs) /\ Len(SubSeq(b, a, l)) = IF a <= l THEN l - a + 1 ELSE 0
        /\ \A k \in 1 .. l - a + 1 : SubSeq(b, a, l)[k] = b[a + k - 1]
      BY ONLY <2>1, <2>3, SubSeqProperties
  <2>4. /\ x \in Seq(Pairs) /\ Len(x) = IF m + 1 <= l THEN l - (m + 1) + 1 ELSE 0
        /\ \A k \in 1 .. l - (m + 1) + 1 : x[k] = b[(m + 1) + k - 1]
      BY ONLY <2>a, <2>s
  <2>5. /\ (IF m + 1 <= l THEN l - (m + 1) + 1 ELSE 0) = l - m /\ l - (m + 1) + 1 = l - m
        /\ \A k \in 1 .. l - m : (m + 1) + k - 1 = m + k
      BY <1>1, <1>4
  <2> QED
      BY <2>4, <2>5
<1>11. Stream(r, o + 1, SubSeq(b, m + 1, l), n)
  <2> DEFINE x == SubSeq(b, m + 1, l)
             d == FrameEnd(r, o + 1)
  <2>1. o + 1 \in 0 .. F
      BY <1>1, <1>6
  <2>2. d = e + m /\ Len(x) = l - m /\ \A k \in 1 .. l - m : x[k] = b[m + k]
      BY <1>8, <1>10
  <2> HIDE DEF x, d
  <2>3. n = d + Len(x)
      BY <1>1, <1>2, <1>4, <1>5, <2>2
  <2>4. ASSUME NEW k \in 1 .. l - m PROVE x[k] = w[d + k]
    <3>1. m + k \in 1 .. l /\ e + (m + k) = d + k
        BY <1>1, <1>4, <1>5, <2>2
    <3> QED
        BY <1>2, <2>2, <3>1
  <2>5. \A k \in 1 .. Len(x) : x[k] = w[d + k]
      BY <2>2, <2>4
  <2> QED
      BY <1>2, <2>1, <2>3, <2>5 DEF Stream, F, w, x, d
<1>12. Len(SubSeq(b, m + 1, l)) <= l
    BY <1>1, <1>4, <1>10
<1> QED
    BY <1>6, <1>9, <1>10, <1>11, <1>12 DEF F, l

-----------------------------------------------------------------------------
(* Where the status line ends.                                             *)

\* The status line ends with the first chunk that completes it.
LEMMA StatusFacts ==
    ASSUME NEW r \in Responses
    PROVE  /\ \A c \in 0 .. Len(r) : End(r, c) < TCP_PROBE_STATUS_LEN /\ HasStatus(r) =>
                c < Len(r) /\ StatusFrames(r) \in 2 * c + 2 .. Frames(r)
           /\ HasStatus(r) => StatusBytes(r) = FrameEnd(r, StatusFrames(r))
           /\ \A c \in 1 .. Len(r) : End(r, c) >= TCP_PROBE_STATUS_LEN => HasStatus(r)
<1> DEFINE F == Frames(r)
           L == TCP_PROBE_STATUS_LEN
           chunks == {c \in 1 .. Len(r) : End(r, c) >= L}
           least == CHOOSE c \in chunks : \A x \in chunks : c <= x
<1>1. Len(r) \in Nat \ {0} /\ F = 2 * Len(r) /\ F \in Nat /\ L \in Nat
    BY AnswerFacts, ProbeSizes
<1>2. StatusFrames(r) = IF chunks = {} THEN F + 1 ELSE 2 * least
  <2>1. \A c \in 1 .. Len(r) : Len(FlattenSeq(SubSeq(r, 1, c))) = End(r, c)
    <3>1. \A c \in 1 .. Len(r) : c \in 0 .. Len(r)
        OBVIOUS
    <3> QED
        BY <3>1, TextFacts DEF End
  <2> DEFINE A == {c \in 1 .. Len(r) : Len(FlattenSeq(SubSeq(r, 1, c))) >= TCP_PROBE_STATUS_LEN}
  <2>2. A = chunks
      BY <2>1
  <2>3. StatusFrames(r) = IF A = {} THEN Frames(r) + 1
                          ELSE 2 * (CHOOSE c \in A : \A x \in A : c <= x)
      BY Zenon DEF StatusFrames
  <2> HIDE DEF chunks, A
  <2> QED
      BY <2>2, <2>3
<1>3. chunks # {} => least \in chunks /\ \A x \in chunks : least <= x
  <2>1. chunks \in SUBSET Nat
      OBVIOUS
  <2>2. chunks # {} => \E c \in chunks : \A x \in chunks : c <= x
    <3> HIDE DEF chunks
    <3> QED
        BY <2>1, LeastNat
  <2> HIDE DEF chunks
  <2> QED
      BY <2>2
<1> HIDE DEF least
<1>4. chunks # {} => least \in 1 .. Len(r) /\ End(r, least) >= L
    BY <1>3
<1>5. HasStatus(r) <=> chunks # {}
  <2> HIDE DEF chunks
  <2>1. chunks = {} => ~ HasStatus(r)
      BY <1>1, <1>2 DEF HasStatus
  <2>2. chunks # {} => HasStatus(r)
    <3> SUFFICES ASSUME chunks # {} PROVE HasStatus(r)
        OBVIOUS
    <3>1. StatusFrames(r) = 2 * least /\ least \in 1 .. Len(r)
        BY <1>2, <1>4
    <3> QED
        BY <1>1, <3>1 DEF HasStatus
  <2> QED
      BY <2>1, <2>2
<1>6. ASSUME NEW c \in 0 .. Len(r), End(r, c) < L, HasStatus(r)
      PROVE  c < Len(r) /\ StatusFrames(r) \in 2 * c + 2 .. F
  <2>1. StatusFrames(r) = 2 * least /\ least \in 1 .. Len(r) /\ End(r, least) >= L
      BY <1>2, <1>4, <1>5, <1>6
  <2>2. least \in 0 .. Len(r)
      BY <2>1
  <2>3. End(r, c) \in Nat /\ End(r, least) \in Nat /\ (least <= c => End(r, least) <= End(r, c))
      BY <2>2, TextFacts
  <2>4. ~ (least <= c)
      BY <1>1, <1>6, <2>1, <2>3
  <2> QED
      BY <1>1, <2>1, <2>4
<1>7. ASSUME HasStatus(r) PROVE StatusBytes(r) = FrameEnd(r, StatusFrames(r))
  <2> DEFINE n == StatusFrames(r)
  <2>1. n = 2 * least /\ least \in 1 .. Len(r)
      BY <1>2, <1>4, <1>5, <1>7
  <2>2. n \in 1 .. F
      BY <1>1, <2>1
  <2> HIDE DEF n
  <2>3. \A f \in 1 .. n : FrameSeq(r)[f] = Frame(r, f)
    <3>1. \A f \in 1 .. n : f \in 1 .. F
        BY <1>1, <2>2
    <3> QED
        BY <3>1 DEF FrameSeq
  <2>4. [f \in 1 .. n |-> Frame(r, f)] = [f \in 1 .. n |-> FrameSeq(r)[f]]
      BY <2>3
  <2> QED
      BY <2>4 DEF StatusBytes, FrameEnd, End, Cat, n
<1>8. ASSUME NEW c \in 1 .. Len(r), End(r, c) >= L PROVE HasStatus(r)
    BY <1>5, <1>8
<1> QED
    BY <1>6, <1>7, <1>8

\* Before the frame that a probe waits for is whole, the status line is not.
LEMMA StatusIsAhead ==
    ASSUME NEW r \in Responses, NEW c \in 0 .. Len(r), NEW o, NEW s, NEW m, NEW t,
           NEW b \in Seq(Pairs), NEW n,
           Stream(r, o, b, n), Place(r, c, o, s, m, t), Len(b) < m, HasStatus(r)
    PROVE  n < StatusBytes(r)
<1> DEFINE F == Frames(r)
           h == StatusFrames(r)
           e == FrameEnd(r, o)
           l == Len(b)
<1>1. F \in Nat /\ l \in Nat /\ o \in 0 .. F /\ n = e + l
    BY AnswerFacts, LenProperties DEF Stream
<1>2. m \in 1 .. TCP_PROBE_RECV_BUF_SIZE /\ (o < F => m = FrameSize(r, o + 1)) /\ o \in {2 * c, 2 * c + 1}
    BY <1>1, PlaceNeeds
<1>3. h \in 2 * c + 2 .. F
    BY StatusFacts DEF Place
<1>4. c \in Nat
    BY AnswerFacts
<1> HIDE DEF F, h
<1>5. o < F /\ o + 1 \in 1 .. F /\ o + 1 \in 0 .. F /\ h \in 0 .. F /\ o + 1 <= h /\ (o + 1) - 1 = o
    BY <1>1, <1>2, <1>3, <1>4
<1>6. e \in Nat /\ FrameEnd(r, o + 1) \in Nat /\ FrameEnd(r, h) \in Nat
      /\ FrameEnd(r, o + 1) <= FrameEnd(r, h)
    BY <1>1, <1>5, WireFacts DEF F
<1>7. FrameEnd(r, o + 1) = e + m
  <2>1. FrameEnd(r, o + 1) = FrameEnd(r, (o + 1) - 1) + FrameSize(r, o + 1)
      BY <1>5, WireFacts DEF F
  <2> QED
      BY <1>2, <1>5, <2>1
<1>8. StatusBytes(r) = FrameEnd(r, h)
    BY StatusFacts DEF h
<1>9. m \in Nat
    BY <1>2, ProbeSizes
<1> HIDE DEF e, l
<1>10. l < m
    BY DEF l
<1> QED
    BY <1>1, <1>6, <1>7, <1>8, <1>9, <1>10

\* A chunk more is taken as far as the status has room.
Taken(t, x) == t \o SubSeq(x, 1, Least(Len(x), TCP_PROBE_STATUS_LEN - Len(t)))

\* The copy of the chunk into p->status: the text so far, cut at the end of the line.
LEMMA TakenFacts ==
    ASSUME NEW r \in Responses, NEW c \in 0 .. Len(r), c < Len(r),
           End(r, c) < TCP_PROBE_STATUS_LEN
    PROVE  LET t == Taken(Cat(r, c), r[c + 1]) IN
           /\ t \in Seq(Nat) /\ Len(t) <= TCP_PROBE_STATUS_LEN
           /\ Len(t) < TCP_PROBE_STATUS_LEN => t = Cat(r, c + 1) /\ End(r, c + 1) < TCP_PROBE_STATUS_LEN
           /\ Len(t) >= TCP_PROBE_STATUS_LEN =>
                HasStatus(r) /\ t = SubSeq(FlattenSeq(r), 1, TCP_PROBE_STATUS_LEN)
<1> DEFINE L == TCP_PROBE_STATUS_LEN
           p == Cat(r, c)
           x == r[c + 1]
           n == Len(p)
           m == Len(x)
           k == Least(m, L - n)
           y == SubSeq(x, 1, k)
           t == p \o y
           a == Cat(r, Len(r))
<1>1. L \in Nat /\ Len(r) \in Nat /\ c + 1 \in 1 .. Len(r) /\ c + 1 \in 0 .. Len(r) /\ c + 1 <= Len(r)
      /\ (c + 1) - 1 = c /\ Len(r) \in 0 .. Len(r)
    BY AnswerFacts, ProbeSizes
<1>2. p \in Seq(Nat) /\ n \in Nat /\ n = End(r, c) /\ n < L
  <2>1. p \in Seq(Nat)
      BY TextFacts
  <2> QED
      BY <2>1, LenProperties DEF End
<1>3. x \in Seq(Nat) /\ m \in Nat
  <2>1. x \in Seq(Nat)
      BY <1>1, AnswerFacts
  <2> QED
      BY <2>1, LenProperties
<1>4. /\ Cat(r, c + 1) = p \o x /\ End(r, c + 1) = n + m
      /\ End(r, c + 1) <= Len(a) /\ a \in Seq(Nat) /\ Len(a) \in Nat
      /\ \A i \in 1 .. n + m : a[i] = (p \o x)[i]
  <2>1. /\ Cat(r, c + 1) = Cat(r, (c + 1) - 1) \o r[c + 1]
        /\ End(r, c + 1) = End(r, (c + 1) - 1) + Len(r[c + 1])
      BY <1>1, TextFacts
  <2>2. Cat(r, c + 1) = p \o x /\ End(r, c + 1) = n + m
      BY <1>1, <1>2, <2>1
  <2>3. /\ End(r, c + 1) <= End(r, Len(r)) /\ a \in Seq(Nat)
        /\ \A i \in 1 .. End(r, c + 1) : a[i] = Cat(r, c + 1)[i]
      BY <1>1, TextFacts
  <2>4. Len(a) \in Nat /\ Len(a) = End(r, Len(r))
      BY <2>3, LenProperties DEF End
  <2> QED
      BY <2>2, <2>3, <2>4
<1>5. a = FlattenSeq(r) /\ Taken(Cat(r, c), r[c + 1]) = t
    BY TextFacts DEF Taken
<1>6. k \in 0 .. m /\ k \in 0 .. L - n /\ (k = m \/ k = L - n) /\ (k < L - n => k = m)
    BY <1>1, <1>2, <1>3 DEF Least
<1>7. End(r, c + 1) >= L => HasStatus(r)
    BY <1>1, StatusFacts
<1> HIDE DEF L, p, x, n, m, k, a
<1>8. y \in Seq(Nat) /\ Len(y) = k /\ \A i \in 1 .. k : y[i] = x[i]
  <2>1. \A i \in 1 .. k : x[i] \in Nat
      BY <1>3, <1>6, ElementOfSeq DEF m
  <2>2. k \in Int /\ 1 \in Int
      BY <1>3, <1>6
  <2>3. /\ y \in Seq(Nat) /\ Len(y) = IF 1 <= k THEN k - 1 + 1 ELSE 0
        /\ \A i \in 1 .. k - 1 + 1 : y[i] = x[1 + i - 1]
      BY <2>1, <2>2, SubSeqProperties
  <2>4. (IF 1 <= k THEN k - 1 + 1 ELSE 0) = k /\ k - 1 + 1 = k /\ \A i \in 1 .. k : 1 + i - 1 = i
      BY <1>3, <1>6
  <2> QED
      BY <2>3, <2>4
<1> HIDE DEF y
<1>9. /\ t \in Seq(Nat) /\ Len(t) = n + k
      /\ \A i \in 1 .. n + k : t[i] = IF i <= n THEN p[i] ELSE y[i - n]
  <2>1. /\ p \o y \in Seq(Nat) /\ Len(p \o y) = Len(p) + Len(y)
        /\ \A i \in 1 .. Len(p) + Len(y) : (p \o y)[i] = IF i <= Len(p) THEN p[i] ELSE y[i - Len(p)]
      BY <1>2, <1>8, ConcatProperties
  <2> QED
      BY <1>8, <2>1 DEF n
<1>10. \A i \in 1 .. n + m : (p \o x)[i] = IF i <= n THEN p[i] ELSE x[i - n]
  <2>1. \A i \in 1 .. Len(p) + Len(x) : (p \o x)[i] = IF i <= Len(p) THEN p[i] ELSE x[i - Len(p)]
      BY <1>2, <1>3, ConcatProperties
  <2> QED
      BY <2>1 DEF n, m
<1> HIDE DEF t
<1>11. \A i \in 1 .. n + k : t[i] = a[i]
  <2> SUFFICES ASSUME NEW i \in 1 .. n + k PROVE t[i] = a[i]
      OBVIOUS
  <2>1. i \in 1 .. n + m /\ (~ (i <= n) => i - n \in 1 .. k)
      BY <1>2, <1>3, <1>6
  <2>2. a[i] = IF i <= n THEN p[i] ELSE x[i - n]
      BY <1>4, <1>10, <2>1
  <2> QED
      BY <1>8, <1>9, <2>1, <2>2
<1>12. Len(t) <= L
    BY <1>1, <1>2, <1>6, <1>9
<1>13. ASSUME Len(t) < L PROVE t = Cat(r, c + 1) /\ End(r, c + 1) < L
  <2>1. k = m
      BY <1>1, <1>2, <1>3, <1>6, <1>9, <1>13
  <2>2. y = x
      BY <1>3, <1>8, <2>1, SeqEqual DEF m
  <2>3. t = Cat(r, c + 1)
      BY <1>4, <2>2 DEF t
  <2>4. End(r, c + 1) = Len(t)
      BY <1>4, <1>9, <2>1
  <2> QED
      BY <1>13, <2>3, <2>4
<1>14. ASSUME Len(t) >= L PROVE HasStatus(r) /\ t = SubSeq(a, 1, L)
  <2>l. n + k >= L
      BY ONLY <1>9, <1>14
  <2>n. L \in Nat /\ n \in Nat /\ m \in Nat /\ k \in 0 .. m /\ k \in 0 .. L - n
      BY ONLY <1>1, <1>2, <1>3, <1>6
  <2>1. n + k = L /\ L <= n + m
      BY ONLY <2>l, <2>n
  <2>2. HasStatus(r)
      BY <1>4, <1>7, <2>1
  <2> DEFINE z == SubSeq(a, 1, L)
  <2>3. \A i \in 1 .. L : i \in 1 .. Len(a)
      BY <1>1, <1>2, <1>3, <1>4, <2>1
  <2>4. \A i \in 1 .. L : a[i] \in Nat
      BY <1>4, <2>3, ElementOfSeq
  <2>5. /\ z \in Seq(Nat) /\ Len(z) = IF 1 <= L THEN L - 1 + 1 ELSE 0
        /\ \A i \in 1 .. L - 1 + 1 : z[i] = a[1 + i - 1]
      BY <1>1, <2>4, SubSeqProperties
  <2>6. (IF 1 <= L THEN L - 1 + 1 ELSE 0) = L /\ L - 1 + 1 = L /\ \A i \in 1 .. L : 1 + i - 1 = i
      BY <1>1
  <2>7. z \in Seq(Nat) /\ Len(z) = L /\ \A i \in 1 .. L : z[i] = a[i]
      BY <2>5, <2>6
  <2> HIDE DEF z
  <2>8. t \in Seq(Nat) /\ Len(t) = L /\ \A i \in 1 .. L : t[i] = a[i]
      BY <1>9, <1>11, <2>1
  <2>9. t = z
      BY <2>7, <2>8, SeqEqual
  <2> QED
      BY <2>2, <2>9 DEF z
<1> QED
    BY <1>5, <1>9, <1>12, <1>13, <1>14 DEF L

\* What recv() gives goes on where the buffer ends.
LEMMA StreamGrows ==
    ASSUME NEW r \in Responses, NEW o, NEW b \in Seq(Pairs), NEW g, NEW n \in Nat,
           Stream(r, o, b, g), g + n <= Len(Wire(r))
    PROVE  LET x == b \o SubSeq(Wire(r), g + 1, g + n) IN
           /\ x \in Seq(Pairs) /\ Len(x) = Len(b) + n
           /\ Stream(r, o, x, g + n)
<1> DEFINE w == Wire(r)
           e == FrameEnd(r, o)
           l == Len(b)
           y == SubSeq(w, g + 1, g + n)
           x == b \o y
<1>1. /\ o \in 0 .. Frames(r) /\ g \in 0 .. Len(w) /\ g = e + l
      /\ \A k \in 1 .. l : b[k] = w[e + k]
    BY DEF Stream
<1>2. w \in Seq(Pairs) /\ Len(w) \in Nat /\ l \in Nat /\ e \in Nat
  <2>1. w \in Seq(Pairs)
      BY WireFacts
  <2> QED
      BY <1>1, <2>1, WireFacts, LenProperties
<1> HIDE DEF w, e, l
<1>3. g \in Nat /\ g + 1 \in Int /\ g + n \in Nat /\ g + n <= Len(w)
    BY <1>1, <1>2 DEF w
<1>4. y \in Seq(Pairs) /\ Len(y) = n /\ \A k \in 1 .. n : y[k] = w[g + k]
  <2>1. \A k \in g + 1 .. g + n : k \in 1 .. Len(w)
      BY <1>2, <1>3
  <2>2. \A k \in g + 1 .. g + n : w[k] \in Pairs
      BY <1>2, <2>1, ElementOfSeq
  <2>3. /\ y \in Seq(Pairs) /\ Len(y) = IF g + 1 <= g + n THEN (g + n) - (g + 1) + 1 ELSE 0
        /\ \A k \in 1 .. (g + n) - (g + 1) + 1 : y[k] = w[(g + 1) + k - 1]
      BY <1>3, <2>2, SubSeqProperties
  <2>4. /\ (IF g + 1 <= g + n THEN (g + n) - (g + 1) + 1 ELSE 0) = n /\ (g + n) - (g + 1) + 1 = n
        /\ \A k \in 1 .. n : (g + 1) + k - 1 = g + k
      BY <1>3
  <2> QED
      BY <2>3, <2>4
<1> HIDE DEF y
<1>5. /\ x \in Seq(Pairs) /\ Len(x) = l + n
      /\ \A k \in 1 .. l + n : x[k] = IF k <= l THEN b[k] ELSE y[k - l]
  <2>1. /\ b \o y \in Seq(Pairs) /\ Len(b \o y) = Len(b) + Len(y)
        /\ \A k \in 1 .. Len(b) + Len(y) : (b \o y)[k] = IF k <= Len(b) THEN b[k] ELSE y[k - Len(b)]
      BY <1>4, ConcatProperties
  <2> QED
      BY <1>4, <2>1 DEF l
<1>6. x = b \o SubSeq(Wire(r), g + 1, g + n)
    BY DEF y, w
<1> HIDE DEF x
<1>7. ASSUME NEW k \in 1 .. l + n PROVE x[k] = w[e + k]
  <2>1. CASE k <= l
    <3>1. k \in 1 .. l
        BY <1>2, <2>1
    <3> QED
        BY <1>1, <1>5, <2>1, <3>1
  <2>2. CASE ~ (k <= l)
    <3>1. k - l \in 1 .. n /\ g + (k - l) = e + k
        BY <1>1, <1>2, <2>2
    <3> QED
        BY <1>4, <1>5, <2>2, <3>1
  <2> QED
      BY <2>1, <2>2
<1>8. g + n \in 0 .. Len(w) /\ g + n = e + Len(x) /\ \A k \in 1 .. Len(x) : x[k] = w[e + k]
  <2>1. g + n = e + (l + n)
      BY <1>1, <1>2
  <2> QED
      BY <1>2, <1>3, <1>5, <1>7, <2>1
<1>9. Stream(r, o, x, g + n)
    BY <1>1, <1>8 DEF Stream, w, e
<1> QED
    BY <1>5, <1>6, <1>9 DEF l

-----------------------------------------------------------------------------
(* What the probes hold.                                                   *)

\* Records of what a probe may hold, whatever the counts.
Holdings == [sockfd : BOOLEAN, sockets : Int, clients : Int, io : {"off", "write", "read"},
             timer : BOOLEAN, remaining : Int]
Holds(u, fd, n, c, io, t, m) ==
    /\ u \in Holdings /\ u.sockfd = fd /\ u.sockets = n /\ u.clients = c /\ u.io = io
    /\ u.timer = t /\ u.remaining = m

\* Two probes that hold the same are in the same state.
LEMMA SameHoldings ==
    ASSUME NEW u, NEW v, NEW fd, NEW n, NEW c, NEW io, NEW t, NEW m,
           Holds(u, fd, n, c, io, t, m), Holds(v, fd, n, c, io, t, m)
    PROVE  u = v
BY DEF Holds, Holdings

\* What each call does to it.
LEMMA CountSteps ==
    ASSUME NEW u, NEW fd, NEW n, NEW c, NEW io, NEW t, NEW m, Holds(u, fd, n, c, io, t, m)
    PROVE  /\ Holds(Counted(u), fd, n, c, io, t, 1)
           /\ Holds(Done(u), fd, n, c, io, t, m - 1)
           /\ Holds([u EXCEPT !.remaining = 0], fd, n, c, io, t, 0)
BY DEF Counted, Done, Holds, Holdings

LEMMA ClientSteps ==
    ASSUME NEW u, NEW fd, NEW n, NEW c, NEW io, NEW t, NEW m, Holds(u, fd, n, c, io, t, m)
    PROVE  /\ Holds(ClientMade(u), fd, n, c + 1, io, t, m)
           /\ Holds(ClientFreed(u), fd, n, c - 1, io, t, m)
BY DEF ClientMade, ClientFreed, Holds, Holdings

LEMMA SocketSteps ==
    ASSUME NEW u, NEW fd, NEW n, NEW c, NEW io, NEW t, NEW m, Holds(u, fd, n, c, io, t, m)
    PROVE  /\ Holds(SocketMade(u), fd, n + 1, c, io, t, m)
           /\ Holds(SocketClosed(u), fd, n - 1, c, io, t, m)
BY DEF SocketMade, SocketClosed, Holds, Holdings

LEMMA IoStep ==
    ASSUME NEW u, NEW fd, NEW n, NEW c, NEW io, NEW t, NEW m, Holds(u, fd, n, c, io, t, m),
           NEW j, j \in {"off", "write", "read"}
    PROVE  Holds([u EXCEPT !.io = j], fd, n, c, j, t, m)
BY DEF Holds, Holdings

LEMMA FlagSteps ==
    ASSUME NEW u, NEW fd, NEW n, NEW c, NEW io, NEW t, NEW m, Holds(u, fd, n, c, io, t, m),
           NEW b, b \in BOOLEAN
    PROVE  /\ Holds([u EXCEPT !.sockfd = b], b, n, c, io, t, m)
           /\ Holds([u EXCEPT !.timer = b], fd, n, c, io, b, m)
<1>1. u \in Holdings
    BY DEF Holds
<1>2. [u EXCEPT !.sockfd = b] \in Holdings /\ [u EXCEPT !.timer = b] \in Holdings
    BY <1>1, Zenon DEF Holdings
<1> QED
    BY <1>1, <1>2 DEF Holds, Holdings

LEMMA WatchStep ==
    ASSUME NEW u, NEW fd, NEW n, NEW c, NEW io, NEW t, NEW m, Holds(u, fd, n, c, io, t, m),
           NEW j, j \in {"off", "write", "read"}
    PROVE  Holds(Watched(u, j), TRUE, n, c, j, TRUE, m)
<1>1. Watched(u, j) = [[[u EXCEPT !.io = j] EXCEPT !.sockfd = TRUE] EXCEPT !.timer = TRUE]
    BY DEF Watched, Holds, Holdings
<1>2. Holds([u EXCEPT !.io = j], fd, n, c, j, t, m)
    BY IoStep
<1>3. Holds([[u EXCEPT !.io = j] EXCEPT !.sockfd = TRUE], TRUE, n, c, j, t, m)
    BY <1>2, FlagSteps
<1>4. Holds([[[u EXCEPT !.io = j] EXCEPT !.sockfd = TRUE] EXCEPT !.timer = TRUE], TRUE, n, c, j, TRUE, m)
    BY <1>3, FlagSteps
<1> QED
    BY <1>1, <1>4

LEMMA UnwatchStep ==
    ASSUME NEW u, NEW fd, NEW n, NEW c, NEW io, NEW t, NEW m, Holds(u, fd, n, c, io, t, m)
    PROVE  Holds(Unwatched(u), fd, n, c, "off", FALSE, m)
<1>1. Unwatched(u) = [[u EXCEPT !.io = "off"] EXCEPT !.timer = FALSE]
    BY Zenon DEF Unwatched
<1>2. Holds([u EXCEPT !.io = "off"], fd, n, c, "off", t, m)
    BY IoStep
<1>3. Holds([[u EXCEPT !.io = "off"] EXCEPT !.timer = FALSE], fd, n, c, "off", FALSE, m)
    BY <1>2, FlagSteps
<1> QED
    BY <1>1, <1>3

LEMMA CloseStep ==
    ASSUME NEW u, NEW fd, NEW n, NEW c, NEW io, NEW t, NEW m, Holds(u, fd, n, c, io, t, m)
    PROVE  Holds(FdClosed(u), FALSE, n - 1, c, io, t, m)
<1>1. Holds(SocketClosed(u), fd, n - 1, c, io, t, m)
    BY SocketSteps
<1>2. Holds([SocketClosed(u) EXCEPT !.sockfd = FALSE], FALSE, n - 1, c, io, t, m)
    BY <1>1, FlagSteps
<1> QED
    BY <1>2 DEF FdClosed

\* A start acquires one of each, and every release of the code gives one of each back.
LEMMA Releases ==
    /\ Holds(Free, FALSE, 0, 0, "off", FALSE, 0)
    /\ \A io \in {"off", "write", "read"} : Holds(Armed(Free, io), TRUE, 1, 1, io, TRUE, 1)
    /\ \A u, io : Holds(u, TRUE, 1, 1, io, TRUE, 1) =>
         /\ Done(TcpReleased(u)) = Free /\ Done(TcpErrorReleased(u)) = Free
         /\ Done(UdpReleased(u)) = Free
         /\ [TcpStopped(u) EXCEPT !.remaining = 0] = Free
         /\ [UdpStopped(u) EXCEPT !.remaining = 0] = Free
    /\ [TcpStopped(Free) EXCEPT !.remaining = 0] = Free
    /\ [UdpStopped(Free) EXCEPT !.remaining = 0] = Free
<1>0. 0 + 1 = 1 /\ 1 - 1 = 0
    OBVIOUS
<1>1. Holds(Free, FALSE, 0, 0, "off", FALSE, 0)
    BY DEF Holds, Holdings, Free
<1>2. ASSUME NEW io \in {"off", "write", "read"} PROVE Holds(Armed(Free, io), TRUE, 1, 1, io, TRUE, 1)
  <2>1. Holds(Counted(Free), FALSE, 0, 0, "off", FALSE, 1)
      BY <1>1, CountSteps
  <2>2. Holds(ClientMade(Counted(Free)), FALSE, 0, 1, "off", FALSE, 1)
      BY <1>0, <2>1, ClientSteps
  <2>3. Holds(SocketMade(ClientMade(Counted(Free))), FALSE, 1, 1, "off", FALSE, 1)
      BY <1>0, <2>2, SocketSteps
  <2> QED
      BY <2>3, WatchStep DEF Armed
<1>3. ASSUME NEW u, NEW io, Holds(u, TRUE, 1, 1, io, TRUE, 1)
      PROVE  LET v == ClientFreed(FdClosed(Unwatched(u)))
             IN  Done(v) = Free /\ [v EXCEPT !.remaining = 0] = Free /\ u.sockfd
  <2> DEFINE v == ClientFreed(FdClosed(Unwatched(u)))
  <2>1. Holds(Unwatched(u), TRUE, 1, 1, "off", FALSE, 1)
      BY <1>3, UnwatchStep
  <2>2. Holds(FdClosed(Unwatched(u)), FALSE, 0, 1, "off", FALSE, 1)
      BY <1>0, <2>1, CloseStep
  <2>3. Holds(v, FALSE, 0, 0, "off", FALSE, 1)
      BY <1>0, <2>2, ClientSteps
  <2> HIDE DEF v
  <2>4. Holds(Done(v), FALSE, 0, 0, "off", FALSE, 0)
      BY <1>0, <2>3, CountSteps
  <2>5. Holds([v EXCEPT !.remaining = 0], FALSE, 0, 0, "off", FALSE, 0)
      BY <2>3, CountSteps
  <2>6. u.sockfd
      BY <1>3 DEF Holds
  <2>7. Done(v) = Free /\ [v EXCEPT !.remaining = 0] = Free
      BY <1>1, <2>4, <2>5, SameHoldings
  <2> QED
      BY <2>6, <2>7 DEF v
<1>4. ~ Free.sockfd /\ [Free EXCEPT !.remaining = 0] = Free
  <2>1. Holds([Free EXCEPT !.remaining = 0], FALSE, 0, 0, "off", FALSE, 0)
      BY <1>1, CountSteps
  <2> QED
      BY <1>1, <2>1, SameHoldings DEF Holds
<1>5. TcpStopped(Free) = Free /\ UdpStopped(Free) = Free
    BY <1>4 DEF TcpStopped, UdpStopped
<1>6. ASSUME NEW u, NEW io, Holds(u, TRUE, 1, 1, io, TRUE, 1)
      PROVE  /\ Done(TcpReleased(u)) = Free /\ Done(TcpErrorReleased(u)) = Free
             /\ Done(UdpReleased(u)) = Free
             /\ [TcpStopped(u) EXCEPT !.remaining = 0] = Free
             /\ [UdpStopped(u) EXCEPT !.remaining = 0] = Free
    BY <1>3, <1>6 DEF TcpReleased, TcpErrorReleased, UdpReleased, TcpStopped, UdpStopped
<1> QED
    BY <1>1, <1>2, <1>4, <1>5, <1>6

\* The exits of the set-ups give back what they have acquired by then.
LEMMA SetupExits ==
    /\ Done(Counted(Free)) = Free
    /\ Done(TcpRequestFails(Counted(Free))) = Free /\ Done(TcpSocketFails(Counted(Free))) = Free
    /\ Done(UdpSocketFails(Counted(Free))) = Free
    /\ Done(UdpSealFails(Counted(Free))) = Free /\ Done(UdpSendFails(Counted(Free))) = Free
<1>0. 0 + 1 = 1 /\ 1 - 1 = 0
    OBVIOUS
<1>1. ASSUME NEW v, Holds(v, FALSE, 0, 0, "off", FALSE, 1) PROVE Done(v) = Free
  <2>1. Holds(Done(v), FALSE, 0, 0, "off", FALSE, 0)
      BY <1>0, <1>1, CountSteps
  <2> QED
      BY <2>1, Releases, SameHoldings
<1> DEFINE u == Counted(Free)
           c == ClientMade(u)
           f == SocketMade(c)
<1>2. Holds(u, FALSE, 0, 0, "off", FALSE, 1)
    BY Releases, CountSteps
<1>3. Holds(c, FALSE, 0, 1, "off", FALSE, 1)
    BY <1>0, <1>2, ClientSteps
<1>4. Holds(f, FALSE, 1, 1, "off", FALSE, 1)
    BY <1>0, <1>3, SocketSteps
<1>5. Holds(ClientFreed(c), FALSE, 0, 0, "off", FALSE, 1)
    BY <1>0, <1>3, ClientSteps
<1>6. Holds(SocketClosed(f), FALSE, 0, 1, "off", FALSE, 1)
    BY <1>0, <1>4, SocketSteps
<1>7. Holds(ClientFreed(SocketClosed(f)), FALSE, 0, 0, "off", FALSE, 1)
    BY <1>0, <1>6, ClientSteps
<1> QED
    BY <1>1, <1>2, <1>5, <1>7 DEF TcpRequestFails, TcpSocketFails, UdpSocketFails, UdpSealFails, UdpSendFails

\* The four things a probe can hold, told apart by their fields.
LEMMA Shapes ==
    /\ Free.sockfd = FALSE /\ Free.io = "off" /\ Free.timer = FALSE /\ Free.remaining = 0
    /\ Free.sockets = 0 /\ Free.clients = 0
    /\ Opening.sockfd /\ Opening.io = "off" /\ Opening.timer /\ Opening.remaining = 1
    /\ Writing.sockfd /\ Writing.io = "write" /\ Writing.timer /\ Writing.remaining = 1
    /\ Reading.sockfd /\ Reading.io = "read" /\ Reading.timer /\ Reading.remaining = 1
    /\ {Free, Opening, Writing, Reading} \subseteq Resources
    /\ Free # Opening /\ Free # Writing /\ Free # Reading
    /\ Opening # Writing /\ Opening # Reading /\ Writing # Reading
<1>1. Holds(Free, FALSE, 0, 0, "off", FALSE, 0) /\ Holds(Opening, TRUE, 1, 1, "off", TRUE, 1)
    BY Releases DEF Opening
<1>2. Holds(Writing, TRUE, 1, 1, "write", TRUE, 1) /\ Holds(Reading, TRUE, 1, 1, "read", TRUE, 1)
    BY Releases DEF Writing, Reading
<1>3. ASSUME NEW u \in Holdings, u.sockets \in 0 .. 1, u.clients \in 0 .. 1, u.remaining \in 0 .. 1
      PROVE  u \in Resources
    BY <1>3 DEF Holdings, Resources
<1>4. Free \in Resources /\ Opening \in Resources /\ Writing \in Resources /\ Reading \in Resources
  <2>1. 0 \in 0 .. 1 /\ 1 \in 0 .. 1
      OBVIOUS
  <2> QED
      BY <1>1, <1>2, <1>3, <2>1 DEF Holds
<1> QED
    BY <1>1, <1>2, <1>4 DEF Holds

\* The steps between them.
LEMMA ShapeSteps ==
    /\ \A u \in {Opening, Writing, Reading} :
         /\ Done(TcpReleased(u)) = Free /\ Done(TcpErrorReleased(u)) = Free
         /\ Done(UdpReleased(u)) = Free
    /\ \A u \in {Free, Opening, Writing, Reading} :
         /\ [TcpStopped(u) EXCEPT !.remaining = 0] = Free
         /\ [UdpStopped(u) EXCEPT !.remaining = 0] = Free
    /\ \A u \in {Opening, Writing} :
         [u EXCEPT !.io = "write"] = Writing /\ [u EXCEPT !.io = "read"] = Reading
<1>1. /\ Holds(Opening, TRUE, 1, 1, "off", TRUE, 1) /\ Holds(Writing, TRUE, 1, 1, "write", TRUE, 1)
      /\ Holds(Reading, TRUE, 1, 1, "read", TRUE, 1)
    BY Releases DEF Opening, Writing, Reading
<1>2. ASSUME NEW u \in {Opening, Writing}
      PROVE  [u EXCEPT !.io = "write"] = Writing /\ [u EXCEPT !.io = "read"] = Reading
  <2>1. PICK io : Holds(u, TRUE, 1, 1, io, TRUE, 1)
      BY <1>1
  <2>2. /\ Holds([u EXCEPT !.io = "write"], TRUE, 1, 1, "write", TRUE, 1)
        /\ Holds([u EXCEPT !.io = "read"], TRUE, 1, 1, "read", TRUE, 1)
      BY <2>1, IoStep
  <2> QED
      BY <1>1, <2>2, SameHoldings
<1>3. ASSUME NEW u \in {Opening, Writing, Reading}
      PROVE  /\ Done(TcpReleased(u)) = Free /\ Done(TcpErrorReleased(u)) = Free
             /\ Done(UdpReleased(u)) = Free
             /\ [TcpStopped(u) EXCEPT !.remaining = 0] = Free
             /\ [UdpStopped(u) EXCEPT !.remaining = 0] = Free
  <2>1. PICK io : Holds(u, TRUE, 1, 1, io, TRUE, 1)
      BY <1>1
  <2> QED
      BY <2>1, Releases
<1>4. [TcpStopped(Free) EXCEPT !.remaining = 0] = Free /\ [UdpStopped(Free) EXCEPT !.remaining = 0] = Free
    BY Releases
<1> QED
    BY <1>2, <1>3, <1>4

-----------------------------------------------------------------------------
(* The invariant holds at first, and every step keeps it.                  *)

\* Before the first round nothing is held and nothing recorded.
LEMMA ProbeInitInv == ProbeInit => ProbeInv
<1> SUFFICES ASSUME ProbeInit PROVE ProbeInv
    OBVIOUS
<1>1. \A k \in Kinds : res[k] = Free
    BY DEF ProbeInit
<1>2. HoldsInv
    BY <1>1, Shapes DEF HoldsInv, ProbeInit, Kinds
<1>3. VarsInv
  <2>1. answer \in [text : Responses, forged : BOOLEAN]
    <3>1. PICK r \in Responses : answer = [text |-> r, forged |-> FALSE]
        BY DEF ProbeInit
    <3> QED
        BY <3>1, Zenon
  <2>2. /\ send_off \in 0 .. SendLen /\ buf_need \in 0 .. TCP_PROBE_RECV_BUF_SIZE
        /\ txid \in 0 .. UINT16_MAX
      BY ProbeSizes DEF ProbeInit
  <2>3. /\ buf \in Seq(Pairs) /\ Len(buf) <= TCP_PROBE_RECV_BUF_SIZE
        /\ status \in Seq(Nat) /\ Len(status) <= TCP_PROBE_STATUS_LEN
    <3>1. << >> \in Seq(Pairs) /\ << >> \in Seq(Nat) /\ Len(<< >>) = 0
        OBVIOUS
    <3> QED
        BY <3>1, ProbeSizes DEF ProbeInit
  <2> QED
      BY <2>1, <2>2, <2>3 DEF ProbeInit, VarsInv
<1>4. PhaseInv /\ ReceiveInv
    BY <1>1, Shapes DEF ProbeInit, PhaseInv, ReceiveInv, Kinds
<1>5. VerdictIsTheAnswer
    BY DEF ProbeInit, VerdictIsTheAnswer
<1> QED
    BY <1>2, <1>3, <1>4, <1>5 DEF ProbeInv

\* tcp_probe_finish and tcp_probe_socket_error release all that a probe under way holds.
LEMMA TcpFreed ==
    ASSUME HoldsInv, res["tcp"] # Free
    PROVE  /\ \A v, w : tcp_probe_finish(v, w) => res' = [res EXCEPT !["tcp"] = Free]
           /\ tcp_probe_socket_error => res' = [res EXCEPT !["tcp"] = Free]
<1>1. res \in [Kinds -> {Free, Opening, Writing, Reading}] /\ res["tcp"] \in {Opening, Writing, Reading}
    BY DEF HoldsInv, Kinds
<1>2. Done(TcpReleased(res["tcp"])) = Free /\ Done(TcpErrorReleased(res["tcp"])) = Free
    BY <1>1, ShapeSteps
<1>3. ASSUME NEW v, NEW w, tcp_probe_finish(v, w) PROVE res' = [res EXCEPT !["tcp"] = Free]
    BY <1>2, <1>3 DEF tcp_probe_finish
<1>4. ASSUME tcp_probe_socket_error PROVE res' = [res EXCEPT !["tcp"] = Free]
    BY <1>2, <1>3, <1>4 DEF tcp_probe_socket_error
<1> QED
    BY <1>3, <1>4

\* They do, wherever they are called from, and keep the invariant.
LEMMA ProbeFinished ==
    ASSUME ProbeInv, res' = [res EXCEPT !["tcp"] = Free],
           busy' = "no", VarsInv', VerdictIsTheAnswer'
    PROVE  ProbeInv'
<1>1. res \in [Kinds -> {Free, Opening, Writing, Reading}] /\ res["udp"] \in {Free, Reading}
    BY DEF ProbeInv, HoldsInv
<1>2. res' = [res EXCEPT !["tcp"] = Free]
    OBVIOUS
<1>3. HoldsInv' /\ res'["tcp"] = Free
    BY <1>1, <1>2 DEF HoldsInv, Kinds
<1>4. PhaseInv' /\ ReceiveInv'
    BY <1>3, Shapes DEF PhaseInv, ReceiveInv
<1> QED
    BY <1>3, <1>4 DEF ProbeInv

\* A step that does not touch the TCP probe.
LEMMA TcpUntouched ==
    ASSUME ProbeInv, UNCHANGED tcpVars, res'["tcp"] = res["tcp"], HoldsInv',
           txid' \in 0 .. UINT16_MAX, stopped' \in BOOLEAN
    PROVE  ProbeInv'
<1>1. UNCHANGED <<state, send_off, buf, buf_need, status, busy, opened, answer, got, outcome>>
    BY DEF tcpVars
<1>2. VarsInv'
    BY <1>1 DEF ProbeInv, VarsInv
<1>3. PhaseInv'
    BY <1>1 DEF ProbeInv, PhaseInv
<1>4. ReceiveInv'
    BY <1>1 DEF ProbeInv, ReceiveInv
<1>5. VerdictIsTheAnswer'
    BY <1>1 DEF ProbeInv, VerdictIsTheAnswer, Deserved
<1> QED
    BY <1>2, <1>3, <1>4, <1>5 DEF ProbeInv

\* tcp_probe_start, with its ways to fail.
LEMMA StartInv == ProbeInv /\ TcpStart => ProbeInv'
<1> SUFFICES ASSUME ProbeInv, TcpStart PROVE ProbeInv'
    OBVIOUS
<1>1. /\ res \in [Kinds -> {Free, Opening, Writing, Reading}] /\ res["udp"] \in {Free, Reading}
      /\ RoundStarts("tcp")
    BY DEF ProbeInv, HoldsInv, TcpStart, TcpSetupFails, TcpConnectFails, TcpConnecting,
           TcpConnectedAtOnce
<1>2. res["tcp"] = Free /\ busy = "no"
    BY <1>1, Shapes DEF RoundStarts, Kinds, Busy
<1>3. /\ buf \in Seq(Pairs) /\ Len(buf) <= TCP_PROBE_RECV_BUF_SIZE
      /\ buf_need \in 0 .. TCP_PROBE_RECV_BUF_SIZE
      /\ status \in Seq(Nat) /\ Len(status) <= TCP_PROBE_STATUS_LEN
      /\ txid \in 0 .. UINT16_MAX /\ stopped \in BOOLEAN
    BY DEF ProbeInv, VarsInv
<1>4. StartUnassigned
    BY DEF TcpStart, TcpSetupFails, TcpConnectFails, TcpConnecting, TcpConnectedAtOnce
<1>5. CASE TcpSetupFails
  <2>1. res' = [res EXCEPT !["tcp"] = Free] /\ send_off' \in 0 .. SendLen
    <3>1. send_off \in 0 .. SendLen /\ 0 \in 0 .. SendLen
        BY ProbeSizes DEF ProbeInv, VarsInv
    <3> QED
        BY <1>2, <1>5, <3>1, SetupExits DEF TcpSetupFails
  <2>2. HoldsInv' /\ res'["tcp"] = Free
      BY <1>1, <2>1 DEF HoldsInv, Kinds
  <2>3. VarsInv'
      BY <1>4, <1>5, <2>1 DEF ProbeInv, VarsInv, TcpSetupFails, StartUnassigned
  <2>4. PhaseInv' /\ ReceiveInv'
      BY <1>2, <1>5, <2>2, Shapes DEF PhaseInv, ReceiveInv, TcpSetupFails
  <2>5. VerdictIsTheAnswer'
      BY <1>5 DEF VerdictIsTheAnswer, TcpSetupFails, Result
  <2> QED
      BY <2>2, <2>3, <2>4, <2>5 DEF ProbeInv
<1>6. ASSUME NewAttempt PROVE answer' \in [text : Responses, forged : BOOLEAN] /\ ~ answer'.forged
    BY <1>6 DEF NewAttempt
<1>7. CASE TcpConnectFails
  <2>1. Result("failed", "error") \/ Result("skipped", "local")
      BY <1>7 DEF TcpConnectFails
  <2>2. res' = [res EXCEPT !["tcp"] = Free]
      BY <1>2, <1>7, ShapeSteps DEF TcpConnectFails, Opening
  <2>3. HoldsInv' /\ res'["tcp"] = Free
      BY <1>1, <2>2 DEF HoldsInv, Kinds
  <2>4. VarsInv'
    <3>1. /\ UNCHANGED <<buf, buf_need, status, txid, stopped, busy>>
          /\ state' = "CONNECTING" /\ send_off' \in 0 .. SendLen
        BY <1>4, <1>7 DEF TcpConnectFails, StartUnassigned
    <3>2. answer' \in [text : Responses, forged : BOOLEAN]
        BY <1>6, <1>7 DEF TcpConnectFails
    <3> QED
        BY <1>2, <1>3, <3>1, <3>2 DEF VarsInv
  <2>5. PhaseInv' /\ ReceiveInv'
      BY <1>2, <1>7, <2>3, Shapes DEF PhaseInv, ReceiveInv, TcpConnectFails
  <2>6. VerdictIsTheAnswer'
      BY <2>1 DEF VerdictIsTheAnswer, Result
  <2> QED
      BY <2>3, <2>4, <2>5, <2>6 DEF ProbeInv
<1>8. CASE TcpConnecting
  <2>1. res' = [res EXCEPT !["tcp"] = Writing]
      BY <1>1, <1>2, <1>8 DEF TcpConnecting, Kinds, Writing
  <2>2. HoldsInv' /\ res'["tcp"] = Writing
      BY <1>1, <2>1 DEF HoldsInv, Kinds
  <2>3. VarsInv'
    <3>1. /\ UNCHANGED <<buf, buf_need, status, txid, stopped, busy>>
          /\ state' = "CONNECTING" /\ send_off' \in 0 .. SendLen
        BY <1>4, <1>8 DEF TcpConnecting, StartUnassigned
    <3>2. answer' \in [text : Responses, forged : BOOLEAN]
        BY <1>6, <1>8 DEF TcpConnecting
    <3> QED
        BY <1>2, <1>3, <3>1, <3>2 DEF VarsInv
  <2>4. outcome'.verdict = "none" /\ ~ answer'.forged /\ state' = "CONNECTING" /\ busy' = "no"
        /\ opened' = 0 /\ got' = 0
      BY <1>2, <1>6, <1>8 DEF TcpConnecting, Result, NewAttempt
  <2>5. PhaseInv' /\ ReceiveInv'
      BY <2>2, <2>4, Shapes DEF PhaseInv, ReceiveInv
  <2>6. VerdictIsTheAnswer'
      BY <2>4 DEF VerdictIsTheAnswer
  <2> QED
      BY <2>2, <2>3, <2>5, <2>6 DEF ProbeInv
<1>9. CASE TcpConnectedAtOnce
  <2>1. res' = [res EXCEPT !["tcp"] = Opening]
      BY <1>1, <1>2, <1>9 DEF TcpConnectedAtOnce, Kinds, Opening
  <2>2. HoldsInv' /\ res'["tcp"] = Opening
      BY <1>1, <2>1 DEF HoldsInv, Kinds
  <2>3. VarsInv'
    <3>1. /\ UNCHANGED <<buf, buf_need, status, txid, stopped>>
          /\ state' = "SENDING" /\ busy' = "send" /\ send_off' \in 0 .. SendLen
        BY <1>4, <1>9 DEF TcpConnectedAtOnce, StartUnassigned
    <3>2. answer' \in [text : Responses, forged : BOOLEAN]
        BY <1>6, <1>9 DEF TcpConnectedAtOnce
    <3> QED
        BY <1>3, <3>1, <3>2 DEF VarsInv
  <2>4. outcome'.verdict = "none" /\ ~ answer'.forged /\ state' = "SENDING" /\ busy' = "send"
        /\ opened' = 0 /\ got' = 0
      BY <1>6, <1>9 DEF TcpConnectedAtOnce, Result, NewAttempt
  <2>5. PhaseInv' /\ ReceiveInv'
      BY <2>2, <2>4, Shapes DEF PhaseInv, ReceiveInv
  <2>6. VerdictIsTheAnswer'
      BY <2>4 DEF VerdictIsTheAnswer
  <2> QED
      BY <2>2, <2>3, <2>5, <2>6 DEF ProbeInv
<1> QED
    BY <1>5, <1>7, <1>8, <1>9 DEF TcpStart

\* The UDP probe leaves the TCP probe alone.
LEMMA UdpInv == ProbeInv /\ UdpStep => ProbeInv'
<1> SUFFICES ASSUME ProbeInv, UdpStep PROVE ProbeInv'
    OBVIOUS
<1>1. res \in [Kinds -> {Free, Opening, Writing, Reading}] /\ res["udp"] \in {Free, Reading}
    BY DEF ProbeInv, HoldsInv
<1>2. txid \in 0 .. UINT16_MAX /\ stopped \in BOOLEAN /\ NextTxid \in 0 .. UINT16_MAX
  <2>1. txid \in 0 .. UINT16_MAX /\ stopped \in BOOLEAN
      BY DEF ProbeInv, VarsInv
  <2> QED
      BY <2>1, ProbeSizes DEF NextTxid
<1>3. ASSUME NEW x \in {Free, Reading}, res' = [res EXCEPT !["udp"] = x]
      PROVE  HoldsInv' /\ res'["tcp"] = res["tcp"]
    BY <1>1, <1>3, Shapes DEF HoldsInv, Kinds
<1>4. ASSUME res["udp"] # Free, UdpEnds, UNCHANGED <<tcpVars, txid, stopped>> PROVE ProbeInv'
  <2>1. res' = [res EXCEPT !["udp"] = Free]
      BY <1>1, <1>4, ShapeSteps DEF UdpEnds, Kinds
  <2>2. HoldsInv' /\ res'["tcp"] = res["tcp"]
      BY <1>3, <2>1
  <2> QED
      BY <1>2, <1>4, <2>2, TcpUntouched
<1>5. CASE UdpStartFails
  <2>1. res["udp"] = Free
      BY <1>1, <1>5, Shapes DEF UdpStartFails, RoundStarts, Kinds
  <2>2. res' = [res EXCEPT !["udp"] = Free]
      BY <1>5, <2>1, SetupExits DEF UdpStartFails
  <2>3. HoldsInv' /\ res'["tcp"] = res["tcp"]
      BY <1>3, <2>2
  <2>4. txid' \in 0 .. UINT16_MAX /\ stopped' \in BOOLEAN /\ UNCHANGED tcpVars
      BY <1>2, <1>5 DEF UdpStartFails
  <2> QED
      BY <2>3, <2>4, TcpUntouched
<1>6. CASE UdpStart
  <2>1. res["udp"] = Free
      BY <1>1, <1>6, Shapes DEF UdpStart, RoundStarts, Kinds
  <2>2. res' = [res EXCEPT !["udp"] = Reading]
      BY <1>1, <1>6, <2>1 DEF UdpStart, Kinds, Reading
  <2>3. HoldsInv' /\ res'["tcp"] = res["tcp"]
      BY <1>3, <2>2
  <2>4. txid' \in 0 .. UINT16_MAX /\ stopped' \in BOOLEAN /\ UNCHANGED tcpVars
      BY <1>2, <1>6 DEF UdpStart
  <2> QED
      BY <2>3, <2>4, TcpUntouched
<1>7. CASE UdpRecv
    BY <1>4, <1>7, Shapes DEF UdpRecv
<1>8. CASE UdpRecvForged
  <2>1. UNCHANGED <<tcpVars, res, txid, stopped>>
      BY <1>8 DEF UdpRecvForged, probeVars
  <2>2. HoldsInv'
      BY <2>1 DEF ProbeInv, HoldsInv
  <2> QED
      BY <1>2, <2>1, <2>2, TcpUntouched
<1>9. CASE UdpTimeout
    BY <1>4, <1>9, Shapes DEF UdpTimeout
<1> QED
    BY <1>5, <1>6, <1>7, <1>8, <1>9 DEF UdpStep

\* server_selector_stop.
LEMMA StopInv == ProbeInv /\ server_selector_stop => ProbeInv'
<1> SUFFICES ASSUME ProbeInv, server_selector_stop PROVE ProbeInv'
    OBVIOUS
<1>1. res \in [Kinds -> {Free, Opening, Writing, Reading}]
    BY DEF ProbeInv, HoldsInv
<1>2. /\ stopped' = TRUE /\ busy = "no"
      /\ UNCHANGED <<state, send_off, buf, buf_need, status, busy, opened, answer, got, outcome, txid>>
    BY DEF server_selector_stop, tcpVars, Busy
<1>3. res' = [k \in Kinds |-> Free]
    BY <1>1, ShapeSteps DEF server_selector_stop
<1>4. HoldsInv' /\ res'["tcp"] = Free
    BY <1>3, Shapes DEF HoldsInv, Kinds
<1>5. VarsInv'
    BY <1>2 DEF ProbeInv, VarsInv
<1>6. PhaseInv' /\ ReceiveInv'
    BY <1>2, <1>4, Shapes DEF PhaseInv, ReceiveInv
<1>7. VerdictIsTheAnswer'
    BY <1>2 DEF ProbeInv, VerdictIsTheAnswer, Deserved
<1> QED
    BY <1>4, <1>5, <1>6, <1>7 DEF ProbeInv

\* tcp_probe_on_connected.
LEMMA ConnectedInv == ProbeInv /\ TcpConnected => ProbeInv'
<1> SUFFICES ASSUME ProbeInv, TcpConnected PROVE ProbeInv'
    OBVIOUS
<1>1. res \in [Kinds -> {Free, Opening, Writing, Reading}]
    BY DEF ProbeInv, HoldsInv
<1>2. res["tcp"] = Writing /\ busy = "no"
    BY <1>1, Shapes DEF TcpConnected, Writable, Busy, Kinds
<1>3. UNCHANGED <<send_off, buf, buf_need, status, opened, answer, got, txid, stopped>>
    BY DEF TcpConnected, Received, Elsewhere
<1>4. CASE tcp_probe_socket_error /\ UNCHANGED state
  <2>0. res' = [res EXCEPT !["tcp"] = Free]
      BY <1>2, <1>4, TcpFreed, Shapes DEF ProbeInv
  <2>1. /\ busy' = "no"
        /\ \/ outcome' = [verdict |-> "failed", why |-> "error"]
           \/ outcome' = [verdict |-> "skipped", why |-> "local"]
      BY <1>4 DEF tcp_probe_socket_error, tcp_probe_finish, Result
  <2>2. VarsInv'
      BY <1>3, <1>4, <2>1 DEF ProbeInv, VarsInv
  <2>3. VerdictIsTheAnswer'
      BY <2>1 DEF VerdictIsTheAnswer
  <2> QED
      BY <2>0, <2>1, <2>2, <2>3, ProbeFinished
<1>5. CASE state' = "SENDING" /\ busy' = "send" /\ UNCHANGED <<res, outcome>>
  <2>1. HoldsInv'
      BY <1>5 DEF ProbeInv, HoldsInv
  <2>2. VarsInv'
      BY <1>3, <1>5 DEF ProbeInv, VarsInv
  <2>3. PhaseInv' /\ ReceiveInv'
      BY <1>2, <1>3, <1>5, Shapes DEF ProbeInv, PhaseInv, ReceiveInv
  <2>4. VerdictIsTheAnswer'
      BY <1>3, <1>5 DEF ProbeInv, VerdictIsTheAnswer, Deserved
  <2> QED
      BY <2>1, <2>2, <2>3, <2>4 DEF ProbeInv
<1> QED
    BY <1>4, <1>5 DEF TcpConnected

\* tcp_probe_on_send: the last byte sent sets the receiver to the header.
LEMMA SendInv == ProbeInv /\ TcpSend => ProbeInv'
<1> SUFFICES ASSUME ProbeInv, TcpSend PROVE ProbeInv'
    OBVIOUS
<1>1. res \in [Kinds -> {Free, Opening, Writing, Reading}] /\ res["udp"] \in {Free, Reading}
    BY DEF ProbeInv, HoldsInv
<1>2. res["tcp"] \in {Opening, Writing} /\ state = "SENDING"
    BY <1>1, Shapes DEF TcpSend, Writable, Busy, Kinds, ProbeInv, PhaseInv
<1>3. UNCHANGED <<opened, answer, got, txid, stopped>>
    BY DEF TcpSend, Elsewhere
<1>4. send_off \in 0 .. SendLen /\ SendLen \in Nat
    BY ProbeSizes DEF ProbeInv, VarsInv
<1>5. opened = 0 /\ got = 0 /\ ~ answer.forged /\ outcome.verdict = "none"
    BY <1>2, Shapes DEF ProbeInv, PhaseInv
<1>6. CASE tcp_probe_socket_error /\ UNCHANGED <<state, send_off, buf, buf_need, status>>
  <2>0. res' = [res EXCEPT !["tcp"] = Free]
      BY <1>2, <1>6, TcpFreed, Shapes DEF ProbeInv
  <2>1. /\ busy' = "no"
        /\ \/ outcome' = [verdict |-> "failed", why |-> "error"]
           \/ outcome' = [verdict |-> "skipped", why |-> "local"]
      BY <1>6 DEF tcp_probe_socket_error, tcp_probe_finish, Result
  <2>2. VarsInv'
      BY <1>3, <1>6, <2>1 DEF ProbeInv, VarsInv
  <2>3. VerdictIsTheAnswer'
      BY <2>1 DEF VerdictIsTheAnswer
  <2> QED
      BY <2>0, <2>1, <2>2, <2>3, ProbeFinished
<1>7. ASSUME NEW n \in 0 .. SendLen - send_off, send_off' = send_off + n, busy' = "no",
             res' = [res EXCEPT !["tcp"].io = "write"],
             UNCHANGED <<state, buf, buf_need, status, outcome>>
      PROVE  ProbeInv'
  <2>0. res' = [res EXCEPT !["tcp"] = Writing]
      BY <1>1, <1>2, <1>7, ShapeSteps DEF Kinds
  <2>1. send_off' \in 0 .. SendLen
      BY <1>4, <1>7
  <2>2. HoldsInv' /\ res'["tcp"] = Writing
      BY <1>1, <2>0 DEF HoldsInv, Kinds
  <2>3. VarsInv'
      BY <1>3, <1>7, <2>1 DEF ProbeInv, VarsInv
  <2>4. PhaseInv' /\ ReceiveInv'
      BY <1>2, <1>3, <1>5, <1>7, <2>2, Shapes DEF PhaseInv, ReceiveInv
  <2>5. VerdictIsTheAnswer'
      BY <1>3, <1>7 DEF ProbeInv, VerdictIsTheAnswer, Deserved
  <2> QED
      BY <2>2, <2>3, <2>4, <2>5 DEF ProbeInv
<1>8. ASSUME NEW n \in 0 .. SendLen - send_off, send_off' = send_off + n, busy' = "no",
             res' = [res EXCEPT !["tcp"].io = "read"], ExpectHeader, UNCHANGED outcome
      PROVE  ProbeInv'
  <2>1. res' = [res EXCEPT !["tcp"] = Reading]
      BY <1>1, <1>2, <1>8, ShapeSteps DEF Kinds
  <2>2. HoldsInv' /\ res'["tcp"] = Reading
      BY <1>1, <2>1 DEF HoldsInv, Kinds
  <2>3. state' = "RECV_RESP_HDR" /\ buf_need' = HeaderSize /\ buf' = << >> /\ status' = << >>
      BY <1>8 DEF ExpectHeader
  <2>4. << >> \in Seq(Pairs) /\ << >> \in Seq(Nat) /\ Len(<< >>) = 0
      OBVIOUS
  <2>5. /\ send_off' \in 0 .. SendLen /\ buf_need' \in 0 .. TCP_PROBE_RECV_BUF_SIZE
        /\ Len(buf') <= TCP_PROBE_RECV_BUF_SIZE /\ Len(status') <= TCP_PROBE_STATUS_LEN
        /\ Len(buf') < buf_need'
      BY <1>4, <1>8, <2>3, <2>4, ProbeSizes
  <2>6. VarsInv'
      BY <1>3, <1>8, <2>3, <2>4, <2>5 DEF ProbeInv, VarsInv
  <2>7. PhaseInv'
      BY <1>3, <1>5, <1>8, <2>2, Shapes DEF PhaseInv
  <2> DEFINE r == answer.text
  <2>8. r \in Responses /\ answer'.text = r /\ opened' = 0 /\ got' = 0
      BY <1>3, <1>5 DEF ProbeInv, VarsInv
  <2> HIDE DEF r
  <2>9. Stream(r, 0, << >>, 0)
    <3>1. Frames(r) \in Nat /\ FrameEnd(r, 0) = 0 /\ Wire(r) \in Seq(Pairs)
        BY <2>8, AnswerFacts, WireFacts
    <3>2. Len(Wire(r)) \in Nat
        BY <3>1, LenProperties
    <3>3. 0 \in 0 .. Frames(r) /\ 0 \in 0 .. Len(Wire(r)) /\ 0 = FrameEnd(r, 0) + 0
        BY <3>1, <3>2
    <3>4. \A k \in 1 .. 0 : FALSE
        OBVIOUS
    <3> QED
        BY <2>4, <3>3, <3>4 DEF Stream
  <2>10. 0 \in 0 .. Len(r) /\ Place(r, 0, 0, "RECV_RESP_HDR", HeaderSize, << >>)
    <3>1. Cat(r, 0) = << >> /\ End(r, 0) = 0 /\ Len(r) \in Nat
        BY <2>8, TextFacts, AnswerFacts
    <3> QED
        BY <3>1, ProbeSizes DEF Place
  <2>11. ReceiveInv'
      BY <2>3, <2>5, <2>8, <2>9, <2>10 DEF ReceiveInv
  <2>12. VerdictIsTheAnswer'
      BY <1>5, <1>8 DEF VerdictIsTheAnswer
  <2> QED
      BY <2>2, <2>6, <2>7, <2>11, <2>12 DEF ProbeInv
<1> QED
    BY <1>6, <1>7, <1>8 DEF TcpSend

\* What holds of a probe that receives.
LEMMA ReceivingFacts ==
    ASSUME ProbeInv, res["tcp"] = Reading
    PROVE  /\ answer.text \in Responses /\ ~ answer.forged /\ outcome.verdict = "none"
           /\ answer = [text |-> answer.text, forged |-> FALSE]
           /\ buf \in Seq(Pairs) /\ Stream(answer.text, opened, buf, got)
           /\ \E c \in 0 .. Len(answer.text) :
                Place(answer.text, c, opened, state, buf_need, status)
           /\ buf_need \in 1 .. TCP_PROBE_RECV_BUF_SIZE
           /\ busy = "no" => Len(buf) < buf_need
<1>1. /\ answer \in [text : Responses, forged : BOOLEAN] /\ ~ answer.forged
      /\ outcome.verdict = "none"
    BY Shapes DEF ProbeInv, VarsInv, PhaseInv
<1>2. answer.text \in Responses /\ answer = [text |-> answer.text, forged |-> FALSE]
    BY <1>1
<1>3. /\ buf \in Seq(Pairs) /\ Stream(answer.text, opened, buf, got)
      /\ \E c \in 0 .. Len(answer.text) : Place(answer.text, c, opened, state, buf_need, status)
      /\ busy = "no" => Len(buf) < buf_need
    BY DEF ProbeInv, VarsInv, ReceiveInv
<1>4. buf_need \in 1 .. TCP_PROBE_RECV_BUF_SIZE
  <2>1. PICK c \in 0 .. Len(answer.text) : Place(answer.text, c, opened, state, buf_need, status)
      BY <1>3
  <2>2. opened \in 0 .. Frames(answer.text)
      BY <1>3 DEF Stream
  <2> QED
      BY <1>2, <2>1, <2>2, PlaceNeeds
<1> QED
    BY <1>1, <1>2, <1>3, <1>4

\* Between two callbacks of a probe that receives.
LEMMA ReadableFacts ==
    ASSUME ProbeInv, Readable
    PROVE  /\ res["tcp"] = Reading /\ busy = "no"
           /\ Len(buf) < buf_need /\ Room > 0 /\ Room \in Nat
           /\ HasStatus(answer.text) => got < StatusBytes(answer.text)
<1>1. res["tcp"] = Reading /\ busy = "no"
    BY Shapes DEF ProbeInv, HoldsInv, Readable, Busy, Kinds
<1>2. /\ answer.text \in Responses /\ buf \in Seq(Pairs) /\ Len(buf) < buf_need
      /\ Stream(answer.text, opened, buf, got) /\ buf_need \in 1 .. TCP_PROBE_RECV_BUF_SIZE
    BY <1>1, ReceivingFacts
<1>3. PICK c \in 0 .. Len(answer.text) : Place(answer.text, c, opened, state, buf_need, status)
    BY <1>1, ReceivingFacts
<1>4. Room > 0 /\ Room \in Nat
  <2>1. Len(buf) \in Nat
      BY <1>2, LenProperties
  <2> QED
      BY <1>2, <2>1, ProbeSizes DEF Room
<1>5. HasStatus(answer.text) => got < StatusBytes(answer.text)
    BY <1>2, <1>3, StatusIsAhead
<1> QED
    BY <1>1, <1>2, <1>4, <1>5

\* tcp_probe_on_recv up to its loop.
LEMMA RecvInv == ProbeInv /\ TcpRecv => ProbeInv'
<1> SUFFICES ASSUME ProbeInv, TcpRecv PROVE ProbeInv'
    OBVIOUS
<1> DEFINE r == answer.text
<1>1. Readable /\ got < Len(Wire(r))
    BY DEF TcpRecv
<1>2. res["tcp"] = Reading /\ busy = "no" /\ Room > 0 /\ Room \in Nat
    BY <1>1, ReadableFacts
<1>3. /\ r \in Responses /\ buf \in Seq(Pairs) /\ Stream(r, opened, buf, got)
      /\ outcome.verdict = "none"
    BY <1>2, ReceivingFacts
<1>4. PICK n \in 1 .. Least(Room, Len(Wire(r)) - got) :
        /\ buf' = buf \o SubSeq(Wire(r), got + 1, got + n)
        /\ got' = got + n
        /\ busy' = "recv"
        /\ UNCHANGED <<res, outcome>>
  <2>1. Room # 0
      BY <1>2
  <2> QED
      BY <2>1 DEF TcpRecv
<1>5. UNCHANGED <<state, send_off, buf_need, status, opened, answer, txid, stopped>>
    BY DEF TcpRecv, Elsewhere
<1> HIDE DEF r
<1>6. Len(Wire(r)) \in Nat /\ got \in 0 .. Len(Wire(r)) /\ Len(buf) \in Nat
  <2>1. Wire(r) \in Seq(Pairs)
      BY <1>3, WireFacts
  <2> QED
      BY <1>3, <2>1, LenProperties DEF Stream
<1>7. n \in Nat /\ got + n <= Len(Wire(r)) /\ n <= Room
    BY <1>2, <1>4, <1>6 DEF Least
<1>8. buf' \in Seq(Pairs) /\ Len(buf') = Len(buf) + n /\ Stream(r, opened, buf', got')
  <2> DEFINE x == buf \o SubSeq(Wire(r), got + 1, got + n)
  <2>1. x \in Seq(Pairs) /\ Len(x) = Len(buf) + n /\ Stream(r, opened, x, got + n)
    <3>1. r \in Responses /\ buf \in Seq(Pairs) /\ Stream(r, opened, buf, got)
        BY <1>3
    <3> QED
        BY <1>7, <3>1, StreamGrows
  <2>2. buf' = x /\ got' = got + n
      BY <1>4
  <2> QED
      BY <2>1, <2>2
<1>9. Len(buf') <= TCP_PROBE_RECV_BUF_SIZE
    BY <1>6, <1>7, <1>8, ProbeSizes DEF Room
<1>10. HoldsInv'
    BY <1>4 DEF ProbeInv, HoldsInv
<1>11. VarsInv'
    BY <1>4, <1>5, <1>8, <1>9 DEF ProbeInv, VarsInv
<1>12. PhaseInv'
    BY <1>2, <1>4, <1>5, Shapes DEF ProbeInv, PhaseInv
<1>13. ReceiveInv'
  <2>1. \E c \in 0 .. Len(r) : Place(r, c, opened, state, buf_need, status)
      BY <1>2, ReceivingFacts DEF r
  <2> QED
      BY <1>4, <1>5, <1>8, <2>1 DEF ReceiveInv, r
<1>14. VerdictIsTheAnswer'
    BY <1>3, <1>4 DEF VerdictIsTheAnswer
<1> QED
    BY <1>10, <1>11, <1>12, <1>13, <1>14 DEF ProbeInv

\* The end of the stream, an error and the timeout.
LEMMA EndsInv == ProbeInv /\ (TcpRecvEnds \/ TcpTimeout) => ProbeInv'
<1> SUFFICES ASSUME ProbeInv, TcpRecvEnds \/ TcpTimeout PROVE ProbeInv'
    OBVIOUS
<1>1. UNCHANGED <<state, send_off, buf, buf_need, status, opened, answer, got, txid, stopped>>
    BY DEF TcpRecvEnds, TcpTimeout, Received, Elsewhere
<1>2. /\ busy' = "no"
      /\ \/ outcome' = [verdict |-> "failed", why |-> "eof"] /\ Readable
         \/ outcome' = [verdict |-> "failed", why |-> "error"]
         \/ outcome' = [verdict |-> "skipped", why |-> "local"]
         \/ outcome' = [verdict |-> "failed", why |-> "timeout"]
    BY DEF TcpRecvEnds, TcpTimeout, tcp_probe_finish, tcp_probe_socket_error, Result
<1>3. res' = [res EXCEPT !["tcp"] = Free]
  <2>1. res["tcp"] # Free
      BY Shapes DEF TcpRecvEnds, TcpTimeout, Readable
  <2> QED
      BY <2>1, TcpFreed DEF TcpRecvEnds, TcpTimeout, ProbeInv
<1>4. VarsInv'
    BY <1>1, <1>2 DEF ProbeInv, VarsInv
<1>5. VerdictIsTheAnswer'
  <2>1. CASE outcome' = [verdict |-> "failed", why |-> "eof"] /\ Readable
    <3>1. HasStatus(answer.text) => got < StatusBytes(answer.text)
        BY <2>1, ReadableFacts
    <3>2. Deserved' => HasStatus(answer.text)
        BY <1>1 DEF Deserved
    <3>3. got' = got /\ answer' = answer
        BY <1>1
    <3> QED
        BY <2>1, <3>1, <3>2, <3>3 DEF VerdictIsTheAnswer
  <2>2. CASE ~ (outcome' = [verdict |-> "failed", why |-> "eof"] /\ Readable)
      BY <1>2, <2>2 DEF VerdictIsTheAnswer
  <2> QED
      BY <2>1, <2>2
<1> QED
    BY <1>2, <1>3, <1>4, <1>5, ProbeFinished

\* The loop ends when the next frame is not whole.
LEMMA LoopEndInv == ProbeInv /\ TcpLoopEnd => ProbeInv'
<1> SUFFICES ASSUME ProbeInv, TcpLoopEnd PROVE ProbeInv'
    OBVIOUS
<1>1. /\ UNCHANGED <<res, state, send_off, buf, buf_need, status, opened, answer, got, outcome,
                     txid, stopped>>
      /\ busy = "recv" /\ busy' = "no" /\ Len(buf) < buf_need
    BY DEF TcpLoopEnd, Received, Elsewhere, LoopDone
<1>2. HoldsInv' /\ VarsInv'
    BY <1>1 DEF ProbeInv, HoldsInv, VarsInv
<1>3. PhaseInv'
    BY <1>1 DEF ProbeInv, PhaseInv
<1>4. ReceiveInv'
    BY <1>1 DEF ProbeInv, ReceiveInv
<1>5. VerdictIsTheAnswer'
    BY <1>1 DEF ProbeInv, VerdictIsTheAnswer, Deserved
<1> QED
    BY <1>2, <1>3, <1>4, <1>5 DEF ProbeInv

\* A turn of the loop: the next frame is in the buffer, and is opened unless it was
\* forged on its way.
LEMMA TurnFacts ==
    ASSUME ProbeInv, NEW s, Turn(s), ForgedOrNot, NEW c \in 0 .. Len(answer.text),
           Place(answer.text, c, opened, state, buf_need, status)
    PROVE  /\ res["tcp"] = Reading /\ state = s /\ answer.text \in Responses
           /\ answer' \in [text : Responses, forged : BOOLEAN] /\ answer'.text = answer.text
           /\ opened \in Nat /\ opened + 1 <= Frames(answer.text)
           /\ Opens(buf_need) <=> ~ answer'.forged
           /\ LET b == SubSeq(buf, buf_need + 1, Len(buf)) IN
              /\ b \in Seq(Pairs) /\ Len(b) <= TCP_PROBE_RECV_BUF_SIZE
              /\ Stream(answer.text, opened + 1, b, got)
<1> DEFINE r == answer.text
<1>1. busy = "recv" /\ ~ (Len(buf) < buf_need) /\ state = s
    BY DEF Turn, LoopDone
<1>2. res["tcp"] = Reading
    BY <1>1, Shapes DEF ProbeInv, HoldsInv, PhaseInv, Kinds
<1>3. /\ r \in Responses /\ buf \in Seq(Pairs) /\ Stream(r, opened, buf, got)
      /\ buf_need \in 1 .. TCP_PROBE_RECV_BUF_SIZE /\ answer = [text |-> r, forged |-> FALSE]
    BY <1>2, ReceivingFacts
<1>4. PICK f \in BOOLEAN : answer' = [answer EXCEPT !.forged = f]
    BY DEF ForgedOrNot
<1>5. answer' = [text |-> r, forged |-> f]
  <2> HIDE DEF r
  <2> QED
      BY <1>3, <1>4, Zenon
<1>6. /\ answer' \in [text : Responses, forged : BOOLEAN] /\ answer'.text = r
      /\ answer'.forged = f
  <2> HIDE DEF r
  <2>1. answer'.text = r /\ answer'.forged = f
      BY <1>5, Zenon
  <2>2. answer' \in [text : Responses, forged : BOOLEAN]
      BY <1>3, <1>5, Zenon
  <2> QED
      BY <2>1, <2>2
<1>7. Len(buf) >= buf_need /\ Len(buf) \in Nat /\ Len(buf) <= TCP_PROBE_RECV_BUF_SIZE
  <2>1. Len(buf) \in Nat /\ Len(buf) <= TCP_PROBE_RECV_BUF_SIZE
      BY <1>3, LenProperties DEF ProbeInv, VarsInv
  <2> QED
      BY <1>1, <1>3, <2>1, ProbeSizes
<1>8. opened \in Nat
  <2>1. opened \in 0 .. Frames(r)
      BY <1>3 DEF Stream
  <2> QED
      BY <1>3, <2>1, AnswerFacts
<1> DEFINE b == SubSeq(buf, buf_need + 1, Len(buf))
<1>9. /\ opened + 1 <= Frames(r) /\ SubSeq(buf, 1, buf_need) = Frame(r, opened + 1)
      /\ b \in Seq(Pairs) /\ Len(b) <= Len(buf) /\ Stream(r, opened + 1, b, got)
  <2>1. /\ r \in Responses /\ c \in 0 .. Len(r) /\ buf \in Seq(Pairs) /\ Len(buf) >= buf_need
        /\ Stream(r, opened, buf, got) /\ Place(r, c, opened, state, buf_need, status)
      BY <1>3, <1>7
  <2> HIDE DEF r
  <2>2. /\ opened + 1 \in 1 .. Frames(r) /\ opened + 1 <= Frames(r)
        /\ SubSeq(buf, 1, buf_need) = Frame(r, opened + 1)
        /\ SubSeq(buf, buf_need + 1, Len(buf)) \in Seq(Pairs)
        /\ Len(SubSeq(buf, buf_need + 1, Len(buf))) <= Len(buf)
        /\ Stream(r, opened + 1, SubSeq(buf, buf_need + 1, Len(buf)), got)
      BY ONLY <2>1, NextFrame
  <2> QED
      BY <2>2
<1>10. Opens(buf_need) <=> ~ answer'.forged
    BY <1>9 DEF Opens
<1>11. Len(b) <= TCP_PROBE_RECV_BUF_SIZE
  <2>1. Len(b) \in Nat /\ Len(b) <= Len(buf)
      BY <1>9, LenProperties
  <2> HIDE DEF b
  <2> QED
      BY <1>7, <2>1, ProbeSizes
<1> QED
    BY <1>1, <1>2, <1>3, <1>6, <1>8, <1>9, <1>10, <1>11

\* A frame that does not open ends the probe, and rightly.
LEMMA ForgedEnds ==
    ASSUME ProbeInv, res["tcp"] = Reading, answer' \in [text : Responses, forged : BOOLEAN],
           answer'.forged, tcp_probe_finish("failed", "answer"),
           UNCHANGED <<state, send_off, buf, buf_need, status, txid, stopped>>
    PROVE  ProbeInv'
<1>0. res' = [res EXCEPT !["tcp"] = Free]
    BY TcpFreed, Shapes DEF ProbeInv
<1>1. busy' = "no" /\ outcome' = [verdict |-> "failed", why |-> "answer"]
    BY DEF tcp_probe_finish, Result
<1>2. VarsInv'
    BY <1>1 DEF ProbeInv, VarsInv
<1>3. VerdictIsTheAnswer'
    BY <1>1 DEF VerdictIsTheAnswer, Deserved
<1> QED
    BY <1>0, <1>1, <1>2, <1>3, ProbeFinished

\* A header or a length announces the chunk that follows.
LEMMA OpenLengthInv == ProbeInv /\ TcpOpenLength => ProbeInv'
<1> SUFFICES ASSUME ProbeInv, TcpOpenLength PROVE ProbeInv'
    OBVIOUS
<1> DEFINE r == answer.text
           o == opened
           b == SubSeq(buf, buf_need + 1, Len(buf))
<1>1. PICK s \in {"RECV_RESP_HDR", "RECV_LENGTH"} : Turn(s)
    BY DEF TcpOpenLength
<1>2. ForgedOrNot /\ UNCHANGED <<send_off, status, got, txid, stopped>>
    BY DEF TcpOpenLength, Elsewhere
<1>3. res["tcp"] = Reading /\ busy = "recv" /\ state = s
    BY <1>1, Shapes DEF Turn, ProbeInv, HoldsInv, PhaseInv, Kinds
<1>4. PICK c \in 0 .. Len(r) : Place(r, c, o, state, buf_need, status)
    BY <1>3, ReceivingFacts
<1>5. /\ r \in Responses /\ answer' \in [text : Responses, forged : BOOLEAN] /\ answer'.text = r
      /\ o \in Nat /\ o + 1 <= Frames(r) /\ (Opens(buf_need) <=> ~ answer'.forged)
      /\ b \in Seq(Pairs) /\ Len(b) <= TCP_PROBE_RECV_BUF_SIZE /\ Stream(r, o + 1, b, got)
    BY <1>1, <1>2, <1>4, TurnFacts
<1>6. CASE answer'.forged
  <2>1. tcp_probe_finish("failed", "answer") /\ UNCHANGED <<buf, opened, state, buf_need>>
      BY <1>5, <1>6 DEF TcpOpenLength
  <2> QED
      BY <1>2, <1>3, <1>5, <1>6, <2>1, ForgedEnds
<1>7. CASE ~ answer'.forged
  <2>1. /\ buf' = b /\ opened' = o + 1 /\ state' = "RECV_PAYLOAD"
        /\ buf_need' = Len(r[o \div 2 + 1]) + TAG
        /\ IF buf_need' > TCP_PROBE_RECV_BUF_SIZE THEN tcp_probe_finish("failed", "answer")
           ELSE UNCHANGED <<res, outcome, busy>>
      BY <1>5, <1>7 DEF TcpOpenLength, tcp_probe_consume
  <2>2. outcome.verdict = "none"
      BY <1>3, ReceivingFacts
  <2> HIDE DEF r, o, b
  <2>3. o = 2 * c /\ End(r, c) < TCP_PROBE_STATUS_LEN /\ status = Cat(r, c)
      BY <1>3, <1>4 DEF Place
  <2>4. Len(r) \in Nat /\ Frames(r) = 2 * Len(r)
      BY <1>5, AnswerFacts
  <2>5. c \in Nat /\ c < Len(r) /\ c + 1 \in 1 .. Len(r) /\ o + 1 = 2 * c + 1
      BY <1>5, <2>3, <2>4
  <2>6. o \div 2 = c
      BY <2>3, <2>5
  <2>7. buf_need' = Len(r[c + 1]) + TAG
      BY <2>1, <2>6
  <2>8. buf_need' \in Nat /\ buf_need' <= TCP_PROBE_RECV_BUF_SIZE
    <3>1. Len(r[c + 1]) \in 0 .. UINT16_MAX
        BY <1>5, <2>5, AnswerFacts
    <3> QED
        BY <2>7, <3>1, ProbeSizes
  <2>9. UNCHANGED <<res, outcome, busy>>
    <3>1. ~ (buf_need' > TCP_PROBE_RECV_BUF_SIZE)
        BY <2>8, ProbeSizes
    <3> QED
        BY <2>1, <3>1
  <2>10. HoldsInv'
      BY <2>9 DEF ProbeInv, HoldsInv
  <2>11. VarsInv'
    <3>1. buf_need' \in 0 .. TCP_PROBE_RECV_BUF_SIZE
        BY <2>8, ProbeSizes
    <3> QED
        BY <1>2, <1>5, <2>1, <2>9, <3>1 DEF ProbeInv, VarsInv
  <2>12. PhaseInv'
      BY <1>3, <1>7, <2>2, <2>9, Shapes DEF PhaseInv
  <2>13. ReceiveInv'
    <3>1. Place(r, c, o + 1, state', buf_need', status')
        BY <1>2, <2>1, <2>3, <2>5, <2>7 DEF Place
    <3> QED
        BY <1>2, <1>3, <1>5, <2>1, <2>9, <3>1 DEF ReceiveInv
  <2>14. VerdictIsTheAnswer'
      BY <2>2, <2>9 DEF VerdictIsTheAnswer
  <2> QED
      BY <2>10, <2>11, <2>12, <2>13, <2>14 DEF ProbeInv
<1> QED
    BY <1>6, <1>7

\* A chunk completes the status line, or the next length is awaited.
LEMMA OpenPayloadInv == ProbeInv /\ TcpOpenPayload => ProbeInv'
<1> SUFFICES ASSUME ProbeInv, TcpOpenPayload PROVE ProbeInv'
    OBVIOUS
<1> DEFINE r == answer.text
           o == opened
           b == SubSeq(buf, buf_need + 1, Len(buf))
           L == TCP_PROBE_STATUS_LEN
<1>1. Turn("RECV_PAYLOAD") /\ ForgedOrNot /\ UNCHANGED <<send_off, got, txid, stopped>>
    BY DEF TcpOpenPayload, Elsewhere
<1>2. res["tcp"] = Reading /\ busy = "recv" /\ state = "RECV_PAYLOAD"
    BY <1>1, Shapes DEF Turn, ProbeInv, HoldsInv, PhaseInv, Kinds
<1>3. PICK c \in 0 .. Len(r) : Place(r, c, o, state, buf_need, status)
    BY <1>2, ReceivingFacts
<1>4. /\ r \in Responses /\ answer' \in [text : Responses, forged : BOOLEAN] /\ answer'.text = r
      /\ o \in Nat /\ o + 1 <= Frames(r) /\ (Opens(buf_need) <=> ~ answer'.forged)
      /\ b \in Seq(Pairs) /\ Len(b) <= TCP_PROBE_RECV_BUF_SIZE /\ Stream(r, o + 1, b, got)
    BY <1>1, <1>3, TurnFacts
<1>5. CASE answer'.forged
  <2>1. /\ tcp_probe_finish("failed", "answer")
        /\ UNCHANGED <<buf, opened, status, state, buf_need>>
      BY <1>4, <1>5 DEF TcpOpenPayload
  <2> QED
      BY <1>1, <1>2, <1>4, <1>5, <2>1, ForgedEnds
<1>6. CASE ~ answer'.forged
  <2>1. /\ buf' = b /\ opened' = o + 1 /\ status' = Taken(status, r[(o + 1) \div 2])
        /\ IF Len(status') >= L
           THEN /\ tcp_probe_finish(IF status' = StatusOk THEN "ok" ELSE "failed", "answer")
                /\ UNCHANGED <<state, buf_need>>
           ELSE /\ state' = "RECV_LENGTH" /\ buf_need' = TCP_PROBE_LENGTH_LEN
                /\ UNCHANGED <<res, outcome, busy>>
      BY <1>4, <1>6 DEF TcpOpenPayload, tcp_probe_consume, StatusWith, Taken, StatusComplete
  <2>2. outcome.verdict = "none"
      BY <1>2, ReceivingFacts
  <2> HIDE DEF r, o, b
  <2>3. o = 2 * c + 1 /\ c < Len(r) /\ End(r, c) < L /\ status = Cat(r, c)
      BY <1>2, <1>3 DEF Place
  <2>4. Len(r) \in Nat /\ c \in Nat /\ c + 1 \in 0 .. Len(r) /\ c + 1 > 0 /\ o + 1 = 2 * (c + 1)
      BY <1>4, <2>3, AnswerFacts
  <2>5. (o + 1) \div 2 = c + 1
      BY <2>4
  <2>6. status' = Taken(Cat(r, c), r[c + 1])
      BY <2>1, <2>3, <2>5
  <2>7. /\ status' \in Seq(Nat) /\ Len(status') <= L
        /\ Len(status') < L => status' = Cat(r, c + 1) /\ End(r, c + 1) < L
        /\ Len(status') >= L => HasStatus(r) /\ status' = SubSeq(FlattenSeq(r), 1, L)
      BY <1>4, <2>3, <2>6, TakenFacts
  <2>8. CASE Len(status') >= L
    <3>0. res' = [res EXCEPT !["tcp"] = Free]
        BY <1>2, <2>1, <2>8, TcpFreed, Shapes DEF ProbeInv
    <3>1. /\ busy' = "no"
          /\ outcome' = [verdict |-> IF status' = StatusOk THEN "ok" ELSE "failed", why |-> "answer"]
          /\ UNCHANGED <<state, buf_need>>
        BY <2>1, <2>8 DEF tcp_probe_finish, Result
    <3>2. VarsInv'
        BY <1>1, <1>4, <2>1, <2>7, <3>1 DEF ProbeInv, VarsInv
    <3>3. Deserved' <=> status' = StatusOk
        BY <1>4, <1>6, <2>7, <2>8 DEF Deserved
    <3>4. VerdictIsTheAnswer'
        BY <3>1, <3>3 DEF VerdictIsTheAnswer
    <3> QED
        BY <3>0, <3>1, <3>2, <3>4, ProbeFinished
  <2>9. CASE ~ (Len(status') >= L)
    <3>1. state' = "RECV_LENGTH" /\ buf_need' = TCP_PROBE_LENGTH_LEN /\ UNCHANGED <<res, outcome, busy>>
        BY <2>1, <2>9
    <3>2. Len(status') < L
      <4>1. Len(status') \in Nat /\ L \in Nat
          BY <2>7, LenProperties, ProbeSizes
      <4> QED
          BY <2>9, <4>1
    <3>3. HoldsInv'
        BY <3>1 DEF ProbeInv, HoldsInv
    <3>4. VarsInv'
      <4>1. buf_need' \in 0 .. TCP_PROBE_RECV_BUF_SIZE
          BY <3>1, ProbeSizes
      <4> QED
          BY <1>1, <1>4, <2>1, <2>7, <3>1, <4>1 DEF ProbeInv, VarsInv
    <3>5. PhaseInv'
        BY <1>2, <1>6, <2>2, <3>1, Shapes DEF PhaseInv
    <3>6. ReceiveInv'
      <4>1. Place(r, c + 1, o + 1, state', buf_need', status')
          BY <2>4, <2>7, <3>1, <3>2 DEF Place
      <4> QED
          BY <1>1, <1>2, <1>4, <2>1, <2>4, <3>1, <4>1 DEF ReceiveInv
    <3>7. VerdictIsTheAnswer'
        BY <2>2, <3>1 DEF VerdictIsTheAnswer
    <3> QED
        BY <3>3, <3>4, <3>5, <3>6, <3>7 DEF ProbeInv
  <2> QED
      BY <2>8, <2>9
<1> QED
    BY <1>5, <1>6

\* Every step keeps the invariant.
LEMMA ProbeNextInv == ProbeInv /\ [ProbeNext]_probeVars => ProbeInv'
<1> SUFFICES ASSUME ProbeInv, [ProbeNext]_probeVars PROVE ProbeInv'
    OBVIOUS
<1>1. CASE TcpStart
    BY <1>1, StartInv
<1>2. CASE TcpCallback
    BY <1>2, ConnectedInv, SendInv, RecvInv, EndsInv, LoopEndInv, OpenLengthInv, OpenPayloadInv
       DEF TcpCallback, TcpLoop
<1>3. CASE UdpStep
    BY <1>3, UdpInv
<1>4. CASE server_selector_stop
    BY <1>4, StopInv
<1>5. CASE UNCHANGED probeVars
  <2>1. UNCHANGED <<res, tcpVars, txid, stopped>>
      BY <1>5 DEF probeVars
  <2>2. HoldsInv' /\ txid' \in 0 .. UINT16_MAX /\ stopped' \in BOOLEAN
      BY <2>1 DEF ProbeInv, HoldsInv, VarsInv
  <2> QED
      BY <2>1, <2>2, TcpUntouched
<1> QED
    BY <1>1, <1>2, <1>3, <1>4, <1>5 DEF ProbeNext

\* The inductive invariant holds of every behaviour of the probes.
THEOREM ProbeInvariant == ProbeSpec => []ProbeInv
BY ProbeInitInv, ProbeNextInv, PTL DEF ProbeSpec

-----------------------------------------------------------------------------
(* The theorems.                                                           *)

\* However the server cuts its answer and the network cuts the stream, the input of
\* tcp_probe_on_recv stays in p->buf, the status line in its array, send_off within
\* the request, and probes_remaining counts a probe at most once.
THEOREM ProbeBuffersHold == ProbeSpec => []ProbeTypeOK
<1>1. ProbeInv => ProbeTypeOK
  <2> SUFFICES ASSUME ProbeInv PROVE ProbeTypeOK
      OBVIOUS
  <2>1. res \in [Kinds -> Resources]
      BY Shapes DEF ProbeInv, HoldsInv
  <2> QED
      BY <2>1 DEF ProbeInv, VarsInv, ProbeTypeOK
<1> QED
    BY <1>1, ProbeInvariant, PTL

\* tcp_probe_finish, tcp_probe_socket_error, udp_probe_finish and the two halves of
\* server_selector_stop each release all that tcp_probe_start or udp_probe_start
\* acquired, once, and so does each exit of the two starts with what it has acquired by
\* then: a probe without a socket has no crypto state, no watcher and nothing left in
\* probes_remaining.
THEOREM ProbesReleaseAll == ProbeSpec => []NothingLeftOver
<1>1. ProbeInv => NothingLeftOver
    BY Shapes DEF ProbeInv, HoldsInv, NothingLeftOver
<1> QED
    BY <1>1, ProbeInvariant, PTL

\* A probe is recorded as answered only for an authentic 204, as failed by its answer
\* only if there was none, and as lost to the end of the stream only before its status
\* line had come: for every answer, every way to cut it into chunks (empty ones
\* included) and every way the network delivers it.
THEOREM ProbesJudgeTheAnswer == ProbeSpec => []VerdictIsTheAnswer
<1>1. ProbeInv => VerdictIsTheAnswer
    BY DEF ProbeInv
<1> QED
    BY <1>1, ProbeInvariant, PTL

\* Between two callbacks tcp_probe_on_recv has used all that it has: the frame it waits
\* for is not whole in p->buf, p->buf has room, and the socket has not yet given
\* the end of the status line.
THEOREM ProbesWaitForMore == ProbeSpec => []NeverWaitsForNothing
<1>1. ProbeInv => NeverWaitsForNothing
    BY ReadableFacts DEF NeverWaitsForNothing
<1> QED
    BY <1>1, ProbeInvariant, PTL

-----------------------------------------------------------------------------
(* The probe that ServerSelector takes for a few events.                   *)

Probing(k) == res[k].sockfd
Ends(verdicts) == ~ Probing("tcp")' /\ outcome'.verdict \in verdicts

\* What a step of the TCP probe is to the selector: a ProbeStart that leaves the probe
\* under way, or that fails or is skipped at once; a ProbeAnswered, ProbeErrored or
\* ProbeSkipped of a probe under way; a Stop; or nothing at all.
StartEvent ==
    /\ ~ stopped /\ ~ stopped' /\ ~ Probing("tcp")
    /\ \/ Probing("tcp")' /\ outcome'.verdict = "none"
       \/ Ends({"failed", "skipped"})
EndEvent == ~ stopped /\ ~ stopped' /\ Probing("tcp") /\ Ends({"ok", "failed", "skipped"})
StopEvent == ~ stopped /\ stopped' /\ UNCHANGED outcome /\ \A k \in Kinds : ~ Probing(k)'
NoEvent == Probing("tcp")' = Probing("tcp") /\ UNCHANGED <<outcome, stopped>>
SelectorEvent == StartEvent \/ EndEvent \/ StopEvent \/ NoEvent

\* probes_remaining counts a probe while it is under way and no longer, its verdict is
\* open until then, and after server_selector_stop there is none.
SelectorView ==
    /\ \A k \in Kinds : /\ res[k].remaining = IF Probing(k) THEN 1 ELSE 0
                        /\ stopped => ~ Probing(k)
    /\ Probing("tcp") => outcome.verdict = "none"

\* A callback of the TCP probe runs for a probe under way, and either ends it with a
\* verdict or leaves it under way with none.
LEMMA CallbackEvent ==
    ASSUME ProbeInv, TcpCallback
    PROVE  /\ res["tcp"] \in {Opening, Writing, Reading} /\ UNCHANGED stopped /\ res'["udp"] = res["udp"]
           /\ \/ res'["tcp"] = Free /\ outcome'.verdict \in {"ok", "failed", "skipped"}
              \/ res'["tcp"] \in {Opening, Writing, Reading} /\ UNCHANGED outcome
<1>1. res \in [Kinds -> {Free, Opening, Writing, Reading}] /\ res["tcp"] \in {Free, Opening, Writing, Reading}
    BY DEF ProbeInv, HoldsInv, Kinds
<1>2. res["tcp"] = Free => busy = "no"
    BY DEF ProbeInv, PhaseInv
<1>3. res["tcp"] \in {Opening, Writing, Reading}
  <2> SUFFICES ASSUME res["tcp"] = Free PROVE FALSE
      BY <1>1
  <2>1. busy = "no" /\ res["tcp"].io = "off" /\ res["tcp"].timer = FALSE
      BY <1>2, Shapes
  <2>2. ~ TcpConnected /\ ~ TcpSend /\ ~ TcpRecv /\ ~ TcpRecvEnds /\ ~ TcpTimeout
      BY <2>1 DEF TcpConnected, TcpSend, TcpRecv, TcpRecvEnds, TcpTimeout, Writable, Readable
  <2>3. ~ TcpLoop
      BY <2>1 DEF TcpLoop, TcpLoopEnd, TcpOpenLength, TcpOpenPayload, Turn
  <2> QED
      BY <2>2, <2>3 DEF TcpCallback
<1> DEFINE Over == /\ res'["tcp"] = Free /\ res'["udp"] = res["udp"]
                   /\ outcome'.verdict \in {"ok", "failed", "skipped"}
           On == /\ res'["tcp"] \in {Opening, Writing, Reading} /\ res'["udp"] = res["udp"]
                 /\ UNCHANGED outcome
<1>4. HoldsInv /\ res["tcp"] # Free
    BY <1>3, Shapes DEF ProbeInv
<1>5. ASSUME NEW v \in {"ok", "failed", "skipped"}, NEW w, tcp_probe_finish(v, w) PROVE Over
  <2>1. res' = [res EXCEPT !["tcp"] = Free]
      BY <1>4, <1>5, TcpFreed
  <2> QED
      BY <1>1, <1>5, <2>1 DEF tcp_probe_finish, Result, Kinds
<1>6. ASSUME tcp_probe_socket_error PROVE Over
  <2>1. res' = [res EXCEPT !["tcp"] = Free]
      BY <1>4, <1>6, TcpFreed
  <2>2. outcome'.verdict \in {"failed", "skipped"}
      BY <1>6 DEF tcp_probe_socket_error, tcp_probe_finish, Result
  <2> QED
      BY <1>1, <2>1, <2>2 DEF Kinds
<1>7. ASSUME UNCHANGED <<res, outcome>> PROVE On
    BY <1>3, <1>7
<1> HIDE DEF Over, On
<1>8. CASE TcpConnected
  <2>1. Over \/ On
      BY <1>6, <1>7, <1>8 DEF TcpConnected
  <2> QED
      BY <1>3, <1>8, <2>1 DEF TcpConnected, Elsewhere, Over, On
<1>9. CASE TcpSend
  <2>1. ASSUME NEW io \in {"write", "read"}, res' = [res EXCEPT !["tcp"].io = io],
               UNCHANGED outcome
        PROVE  On
    <3>1. res["tcp"] \in {Opening, Writing}
      <4>1. busy = "send" \/ res["tcp"].io = "write"
          BY <1>9 DEF TcpSend, Writable
      <4>2. res["tcp"] = Reading => busy # "send"
          BY DEF ProbeInv, PhaseInv
      <4> QED
          BY <1>3, <4>1, <4>2, Shapes
    <3>2. [res["tcp"] EXCEPT !.io = io] \in {Writing, Reading}
        BY <3>1, ShapeSteps
    <3>3. res'["tcp"] = [res["tcp"] EXCEPT !.io = io] /\ res'["udp"] = res["udp"]
        BY <1>1, <2>1 DEF Kinds
    <3> QED
        BY <2>1, <3>2, <3>3 DEF On
  <2>2. \/ tcp_probe_socket_error
        \/ \E io \in {"write", "read"} : res' = [res EXCEPT !["tcp"].io = io] /\ UNCHANGED outcome
      BY <1>9 DEF TcpSend
  <2> QED
      BY <1>3, <1>6, <1>7, <1>9, <2>1, <2>2 DEF TcpSend, Elsewhere, Over, On
<1>10. CASE TcpRecv
  <2>1. tcp_probe_finish("failed", "answer") \/ UNCHANGED <<res, outcome>>
      BY <1>10 DEF TcpRecv
  <2> QED
      BY <1>3, <1>5, <1>7, <1>10, <2>1 DEF TcpRecv, Elsewhere, Over, On
<1>11. CASE TcpRecvEnds \/ TcpTimeout
  <2>1. Over /\ UNCHANGED stopped
      BY <1>5, <1>6, <1>11 DEF TcpRecvEnds, TcpTimeout, Elsewhere
  <2> QED
      BY <1>3, <2>1 DEF Over
<1>12. CASE TcpLoop
  <2>1. UNCHANGED stopped
      BY <1>12 DEF TcpLoop, TcpLoopEnd, TcpOpenLength, TcpOpenPayload, Elsewhere
  <2>2. CASE TcpLoopEnd
      BY <1>3, <1>7, <2>1, <2>2 DEF TcpLoopEnd, On
  <2>3. CASE TcpOpenLength
    <3>1. tcp_probe_finish("failed", "answer") \/ UNCHANGED <<res, outcome>>
        BY <2>3 DEF TcpOpenLength
    <3> QED
        BY <1>3, <1>5, <1>7, <2>1, <3>1 DEF Over, On
  <2>4. CASE TcpOpenPayload
    <3>1. \/ tcp_probe_finish("ok", "answer") \/ tcp_probe_finish("failed", "answer")
          \/ UNCHANGED <<res, outcome>>
        BY <2>4 DEF TcpOpenPayload
    <3> QED
        BY <1>3, <1>5, <1>7, <2>1, <3>1 DEF Over, On
  <2> QED
      BY <1>3, <1>12, <2>1, <2>2, <2>3, <2>4 DEF TcpLoop, On
<1> QED
    BY <1>8, <1>9, <1>10, <1>11, <1>12 DEF TcpCallback

\* tcp_probe_start: under way, or over at once without an answer.
LEMMA TcpStartEvent ==
    ASSUME ProbeInv, TcpStart
    PROVE  /\ ~ stopped /\ UNCHANGED stopped /\ res["tcp"] = Free /\ res'["udp"] = res["udp"]
           /\ \/ res'["tcp"] \in {Opening, Writing} /\ outcome'.verdict = "none"
              \/ res'["tcp"] = Free /\ outcome'.verdict \in {"failed", "skipped"}
<1>1. res \in [Kinds -> {Free, Opening, Writing, Reading}]
    BY DEF ProbeInv, HoldsInv
<1>2. RoundStarts("tcp") /\ UNCHANGED stopped
    BY DEF TcpStart, TcpSetupFails, TcpConnectFails, TcpConnecting, TcpConnectedAtOnce, StartUnassigned
<1>3. ~ stopped /\ res["tcp"] = Free
    BY <1>1, <1>2, Shapes DEF RoundStarts, Kinds
<1>4. CASE TcpSetupFails
  <2>1. res' = [res EXCEPT !["tcp"] = Free]
      BY <1>3, <1>4, SetupExits DEF TcpSetupFails
  <2> QED
      BY <1>1, <1>2, <1>3, <1>4, <2>1 DEF TcpSetupFails, Result, Kinds
<1>5. CASE TcpConnectFails
  <2>1. outcome'.verdict \in {"failed", "skipped"}
      BY <1>5 DEF TcpConnectFails, Result
  <2>2. res' = [res EXCEPT !["tcp"] = Free]
      BY <1>3, <1>5, ShapeSteps DEF TcpConnectFails, Opening
  <2> QED
      BY <1>1, <1>2, <1>3, <2>1, <2>2 DEF Kinds
<1>6. CASE TcpConnecting
  <2>1. res' = [res EXCEPT !["tcp"] = Writing]
      BY <1>1, <1>3, <1>6 DEF TcpConnecting, Kinds, Writing
  <2> QED
      BY <1>1, <1>2, <1>3, <1>6, <2>1 DEF TcpConnecting, Result, Kinds
<1>7. CASE TcpConnectedAtOnce
  <2>1. res' = [res EXCEPT !["tcp"] = Opening]
      BY <1>1, <1>3, <1>7 DEF TcpConnectedAtOnce, Kinds, Opening
  <2> QED
      BY <1>1, <1>2, <1>3, <1>7, <2>1 DEF TcpConnectedAtOnce, Result, Kinds
<1> QED
    BY <1>4, <1>5, <1>6, <1>7 DEF TcpStart

\* The UDP probe starts only before the stop, and is nothing to the TCP probe.
LEMMA UdpStepEvent ==
    ASSUME ProbeInv, UdpStep
    PROVE  /\ UNCHANGED <<outcome, stopped>> /\ res'["tcp"] = res["tcp"]
           /\ stopped /\ ~ Probing("udp") => ~ Probing("udp")'
<1>1. res \in [Kinds -> {Free, Opening, Writing, Reading}]
    BY DEF ProbeInv, HoldsInv
<1>2. UNCHANGED <<outcome, stopped>>
    BY DEF UdpStep, UdpStartFails, UdpStart, UdpRecv, UdpRecvForged, UdpTimeout, tcpVars, probeVars
<1>3. UNCHANGED res \/ \E x : res' = [res EXCEPT !["udp"] = x]
    BY DEF UdpStep, UdpStartFails, UdpStart, UdpRecv, UdpRecvForged, UdpTimeout, UdpEnds, probeVars
<1>4. res'["tcp"] = res["tcp"]
    BY <1>1, <1>3 DEF Kinds
<1>5. ASSUME stopped, ~ Probing("udp") PROVE UNCHANGED res
  <2>1. res["udp"] = Free
      BY <1>1, <1>5, Shapes DEF Probing, Kinds
  <2>2. ~ UdpStartFails /\ ~ UdpStart
      BY <1>5 DEF UdpStartFails, UdpStart, RoundStarts
  <2>3. ~ UdpRecv /\ ~ UdpTimeout
      BY <2>1, Shapes DEF UdpRecv, UdpTimeout
  <2> QED
      BY <2>2, <2>3 DEF UdpStep, UdpRecvForged, probeVars
<1> QED
    BY <1>2, <1>4, <1>5 DEF Probing

\* Every step is an event of the selector or none, and no step leaves a probe behind
\* that has been stopped.
LEMMA StepIsEvent ==
    ASSUME ProbeInv, SelectorView, [ProbeNext]_probeVars
    PROVE  /\ SelectorEvent
           /\ \A k \in Kinds : stopped' => ~ Probing(k)'
<1>1. stopped \in BOOLEAN /\ \A k \in Kinds : stopped => ~ Probing(k)
    BY DEF ProbeInv, VarsInv, SelectorView
<1>2. Free.sockfd = FALSE /\ \A u \in {Opening, Writing, Reading} : u.sockfd = TRUE
  <2>1. /\ Holds(Opening, TRUE, 1, 1, "off", TRUE, 1) /\ Holds(Writing, TRUE, 1, 1, "write", TRUE, 1)
        /\ Holds(Reading, TRUE, 1, 1, "read", TRUE, 1)
      BY Releases DEF Opening, Writing, Reading
  <2> QED
      BY <2>1, Shapes DEF Holds
<1>3. CASE TcpStart
  <2>1. StartEvent
      BY <1>2, <1>3, TcpStartEvent DEF StartEvent, Ends, Probing
  <2> QED
      BY <2>1 DEF SelectorEvent, StartEvent
<1>4. CASE TcpCallback
  <2>1. ~ stopped /\ ~ stopped' /\ Probing("tcp") = TRUE
      BY <1>1, <1>2, <1>4, CallbackEvent DEF Probing, Kinds
  <2>2. EndEvent \/ NoEvent
    <3>1. CASE res'["tcp"] = Free /\ outcome'.verdict \in {"ok", "failed", "skipped"}
        BY <1>2, <2>1, <3>1 DEF EndEvent, Ends, Probing
    <3>2. CASE res'["tcp"] \in {Opening, Writing, Reading} /\ UNCHANGED <<outcome, stopped>>
        BY <1>2, <2>1, <3>2 DEF NoEvent, Probing
    <3> QED
        BY <1>4, <3>1, <3>2, CallbackEvent
  <2> QED
      BY <2>1, <2>2 DEF SelectorEvent
<1>5. CASE UdpStep
    BY <1>1, <1>5, UdpStepEvent DEF SelectorEvent, NoEvent, Probing, Kinds
<1>6. CASE server_selector_stop
  <2>1. ~ stopped /\ stopped' = TRUE /\ UNCHANGED outcome
      BY <1>6 DEF server_selector_stop, tcpVars
  <2>2. \A k \in Kinds : res'[k] = Free
    <3>1. res \in [Kinds -> {Free, Opening, Writing, Reading}]
        BY DEF ProbeInv, HoldsInv
    <3> QED
        BY <1>6, <3>1, ShapeSteps DEF server_selector_stop
  <2> QED
      BY <1>2, <2>1, <2>2 DEF SelectorEvent, StopEvent, Probing
<1>7. CASE UNCHANGED probeVars
    BY <1>1, <1>7 DEF SelectorEvent, NoEvent, Probing, probeVars, tcpVars
<1> QED
    BY <1>3, <1>4, <1>5, <1>6, <1>7 DEF ProbeNext

\* What the selector sees of a probe follows from the invariant of the wire, but for
\* the stop.
LEMMA ViewFromWire ==
    ProbeInv /\ (\A k \in Kinds : stopped => ~ Probing(k)) => SelectorView
<1> SUFFICES ASSUME ProbeInv, \A k \in Kinds : stopped => ~ Probing(k) PROVE SelectorView
    OBVIOUS
<1>1. \A k \in Kinds : res[k] \in {Free, Opening, Writing, Reading}
    BY DEF ProbeInv, HoldsInv
<1>2. \A k \in Kinds : res[k].remaining = IF Probing(k) THEN 1 ELSE 0
    BY <1>1, Shapes DEF Probing
<1>3. Probing("tcp") => outcome.verdict = "none"
    BY Shapes DEF ProbeInv, PhaseInv, Probing
<1> QED
    BY <1>2, <1>3 DEF SelectorView

\* Bytes, chunks and callbacks come to what ServerSelector takes a probe for: each
\* probe that tcp_probe_start leaves under way ends in exactly one of answered, errored
\* and skipped, or with the stop; one that ends at once was not answered; nothing is
\* recorded for a probe that is not under way, nor any after the stop.
THEOREM ProbesAreSelectorEvents == ProbeSpec => []SelectorView /\ [][SelectorEvent]_probeVars
<1>1. ProbeInit => SelectorView
  <2> SUFFICES ASSUME ProbeInit PROVE SelectorView
      OBVIOUS
  <2>1. \A k \in Kinds : ~ Probing(k)
      BY Shapes DEF ProbeInit, Probing
  <2> QED
      BY <2>1, ProbeInitInv, ViewFromWire
<1>2. ProbeInv /\ ProbeInv' /\ SelectorView /\ [ProbeNext]_probeVars => SelectorView'
  <2> SUFFICES ASSUME ProbeInv, ProbeInv', SelectorView, [ProbeNext]_probeVars
               PROVE  SelectorView'
      OBVIOUS
  <2>1. \A k \in Kinds : stopped' => ~ Probing(k)'
      BY StepIsEvent
  <2>2. \A k \in Kinds : res'[k] \in {Free, Opening, Writing, Reading}
      BY DEF ProbeInv, HoldsInv
  <2>3. \A k \in Kinds : res'[k].remaining = IF Probing(k)' THEN 1 ELSE 0
      BY <2>2, Shapes DEF Probing
  <2>4. Probing("tcp")' => outcome'.verdict = "none"
      BY Shapes DEF ProbeInv, PhaseInv, Probing
  <2> QED
      BY <2>1, <2>3, <2>4 DEF SelectorView
<1>3. ProbeInv /\ SelectorView /\ [ProbeNext]_probeVars => [SelectorEvent]_probeVars
    BY StepIsEvent
<1> QED
    BY <1>1, <1>2, <1>3, ProbeInvariant, PTL DEF ProbeSpec
=============================================================================
