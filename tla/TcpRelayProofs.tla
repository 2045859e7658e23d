-------------------------- MODULE TcpRelayProofs ---------------------------
(***************************************************************************)
(* What TLAPS proves of TcpRelay: for every stream of chunks, every way    *)
(* the network cuts it, every size of the buffers, of the header, the      *)
(* lengths and the tags, and every place where the server may close.       *)
(***************************************************************************)
EXTENDS TcpRelay, WellFoundedInduction, FiniteSetTheorems, SequenceTheorems, TLAPS

\* The sizes are positive where the code divides the stream by them.
LEMMA Sizes ==
    /\ TCP_SS2022_TAG_LEN \in Nat \ {0}
    /\ SS2022_LENGTH_CHUNK_LEN \in Nat \ {0}
    /\ ResponseHeaderLen \in Nat \ {0}
    /\ TCP_SS_RESP_IN_BUFSIZ \in Nat \ {0}
BY RelayAssumption DEF SS2022_LENGTH_CHUNK_LEN, TCP_SS_RESP_IN_BUFSIZ

\* A nonempty set of naturals has a least element.
LEMMA LeastNat ==
    ASSUME NEW A \in SUBSET Nat, A # {}
    PROVE  \E x \in A : \A y \in A : x <= y
<1>1. IsWellFoundedOn(OpToRel(<, Nat), Nat)
    BY NatLessThanWellFounded
<1>2. PICK x \in A : \A y \in A : <<y, x>> \notin OpToRel(<, Nat)
    BY <1>1, WFMin
<1>3. \A y \in A : ~ (y < x)
    BY <1>2 DEF OpToRel
<1> QED
    BY <1>3

-----------------------------------------------------------------------------
(* The stream: where its chunks end and what their plain text is.          *)

Stream(c) == c # << >> /\ c \in Seq(0 .. TCP_SS2022_MAX_PAYLOAD_LEN)

LEMMA StreamSizes ==
    ASSUME NEW c, Stream(c)
    PROVE  Len(c) \in Nat \ {0} /\ \A i \in 1 .. Len(c) : c[i] \in Nat
<1>1. c \in Seq(0 .. TCP_SS2022_MAX_PAYLOAD_LEN) /\ c # << >>
    BY DEF Stream
<1>2. Len(c) \in Nat /\ Len(c) # 0
    BY <1>1, EmptySeq
<1>3. \A i \in 1 .. Len(c) : c[i] \in 0 .. TCP_SS2022_MAX_PAYLOAD_LEN
    BY <1>1, ElementOfSeq
<1> QED
    BY <1>2, <1>3, RelayAssumption

\* One step of the recursion of ChunkEnd, and a function that obeys it up to n.
EndTurn(c, i, e) == e + SS2022_LENGTH_CHUNK_LEN + c[i] + TCP_SS2022_TAG_LEN
IsEnd(f, n, c) ==
    f = [i \in 0 .. n |-> IF i = 0 THEN ResponseHeaderLen - SS2022_LENGTH_CHUNK_LEN
                          ELSE EndTurn(c, i, f[i - 1])]

\* The recursive function ChunkEnd exists and obeys its recursion.
LEMMA EndTurns ==
    ASSUME NEW c, Len(c) \in Nat
    PROVE  /\ ChunkEnd(c)[0] = ResponseHeaderLen - SS2022_LENGTH_CHUNK_LEN
           /\ \A i \in 1 .. Len(c) : ChunkEnd(c)[i] = EndTurn(c, i, ChunkEnd(c)[i - 1])
<1> DEFINE base == ResponseHeaderLen - SS2022_LENGTH_CHUNK_LEN
           Is(f, n) == IsEnd(f, n, c)
           Bad == {n \in 0 .. Len(c) : ~ \E f : Is(f, n)}
<1>1. Bad = {}
  <2> SUFFICES ASSUME Bad # {} PROVE FALSE
      OBVIOUS
  <2>1. PICK n \in Bad : \A m \in Bad : n <= m
    <3>1. Bad \in SUBSET Nat
        OBVIOUS
    <3> QED
        BY <3>1, LeastNat
  <2>2. CASE n = 0
    <3> DEFINE f == [i \in 0 .. 0 |-> base]
    <3>1. \A i \in 0 .. 0 : f[i] = IF i = 0 THEN base ELSE EndTurn(c, i, f[i - 1])
        OBVIOUS
    <3>2. f = [i \in 0 .. 0 |-> IF i = 0 THEN base ELSE EndTurn(c, i, f[i - 1])]
        BY <3>1
    <3> HIDE DEF f
    <3>3. IsEnd(f, 0, c)
        BY <3>2 DEF IsEnd
    <3> QED
        BY <2>1, <2>2, <3>3
  <2>3. CASE n # 0
    <3>1. n \in 1 .. Len(c) /\ n - 1 \in 0 .. Len(c) /\ n - 1 \notin Bad
        BY <2>1, <2>3
    <3>2. PICK g : Is(g, n - 1)
        BY <3>1
    <3> DEFINE f == [i \in 0 .. n |-> IF i = 0 THEN base ELSE EndTurn(c, i, g[i - 1])]
    <3>3. ASSUME NEW i \in 0 .. n - 1 PROVE f[i] = g[i]
      <4>1. g = [j \in 0 .. n - 1 |-> IF j = 0 THEN base ELSE EndTurn(c, j, g[j - 1])]
          BY <3>2 DEF IsEnd
      <4>2. i \in 0 .. n
          BY <3>1
      <4>3. g[i] = IF i = 0 THEN base ELSE EndTurn(c, i, g[i - 1])
          BY <4>1
      <4> QED
          BY <4>2, <4>3
    <3>4. \A i \in 0 .. n : f[i] = IF i = 0 THEN base ELSE EndTurn(c, i, f[i - 1])
      <4>1. \A i \in 0 .. n : f[i] = IF i = 0 THEN base ELSE EndTurn(c, i, g[i - 1])
          OBVIOUS
      <4> HIDE DEF f
      <4>2. \A i \in 0 .. n : i # 0 => f[i - 1] = g[i - 1]
          BY <3>1, <3>3
      <4> QED
          BY <4>1, <4>2
    <3>5. f = [i \in 0 .. n |-> IF i = 0 THEN base ELSE EndTurn(c, i, f[i - 1])]
        BY <3>4
    <3> HIDE DEF f
    <3>6. IsEnd(f, n, c)
        BY <3>5 DEF IsEnd
    <3> QED
        BY <2>1, <3>6
  <2> QED
      BY <2>2, <2>3
<1>2. \E f : Is(f, Len(c))
    BY <1>1
<1> DEFINE f == CHOOSE g : Is(g, Len(c))
<1>3. Is(f, Len(c))
    BY <1>2
<1>4. ChunkEnd(c) = f
    BY DEF ChunkEnd, IsEnd, EndTurn
<1> HIDE DEF f
<1>5. f = [i \in 0 .. Len(c) |-> IF i = 0 THEN base ELSE EndTurn(c, i, f[i - 1])]
    BY <1>3 DEF IsEnd
<1>6. f[0] = base
    BY <1>5
<1>7. ASSUME NEW i \in 1 .. Len(c) PROVE f[i] = EndTurn(c, i, f[i - 1])
  <2>1. i \in 0 .. Len(c) /\ i # 0
      OBVIOUS
  <2> QED
      BY <1>5, <2>1
<1> QED
    BY <1>4, <1>6, <1>7

\* Chunks end in order, each at least a length and a tag after the one before.
LEMMA EndFacts ==
    ASSUME NEW c, Stream(c)
    PROVE  /\ \A i \in 0 .. Len(c) : ChunkEnd(c)[i] \in Int
           /\ ChunkEnd(c)[0] + SS2022_LENGTH_CHUNK_LEN = ResponseHeaderLen
           /\ \A i \in 1 .. Len(c) : ChunkEnd(c)[i] = ChunkEnd(c)[i - 1] + SS2022_LENGTH_CHUNK_LEN
                                                      + c[i] + TCP_SS2022_TAG_LEN
           /\ \A i, j \in 0 .. Len(c) : i < j =>
                ChunkEnd(c)[i] + SS2022_LENGTH_CHUNK_LEN + TCP_SS2022_TAG_LEN <= ChunkEnd(c)[j]
<1> DEFINE E == ChunkEnd(c)
           LL == SS2022_LENGTH_CHUNK_LEN
           TT == TCP_SS2022_TAG_LEN
<1>1. /\ Len(c) \in Nat \ {0} /\ \A i \in 1 .. Len(c) : c[i] \in Nat
      /\ LL \in Nat \ {0} /\ TT \in Nat \ {0} /\ ResponseHeaderLen \in Nat
    BY StreamSizes, Sizes
<1>2. E[0] = ResponseHeaderLen - LL /\ \A i \in 1 .. Len(c) : E[i] = E[i - 1] + LL + c[i] + TT
    BY <1>1, EndTurns DEF EndTurn
<1> HIDE DEF E, LL, TT
<1> DEFINE Good(j) == E[j] \in Int /\ \A i \in 0 .. Len(c) : i < j => E[i] + LL + TT <= E[j]
           Bad == {j \in 0 .. Len(c) : ~ Good(j)}
<1>3. Bad = {}
  <2> SUFFICES ASSUME Bad # {} PROVE FALSE
      OBVIOUS
  <2>1. PICK n \in Bad : \A m \in Bad : n <= m
    <3>1. Bad \in SUBSET Nat
        BY <1>1
    <3> QED
        BY <3>1, LeastNat
  <2>2. n # 0
      BY <1>1, <1>2, <2>1
  <2>3. n \in 1 .. Len(c) /\ n - 1 \in 0 .. Len(c) /\ n - 1 \notin Bad
      BY <1>1, <2>1, <2>2
  <2>4. Good(n - 1)
      BY <2>3
  <2>5. E[n] = E[n - 1] + LL + c[n] + TT /\ c[n] \in Nat /\ E[n - 1] \in Int
      BY <1>1, <1>2, <2>3, <2>4
  <2>6. ASSUME NEW i \in 0 .. Len(c), i < n PROVE E[i] + LL + TT <= E[n]
    <3>1. CASE i = n - 1
      <4> DEFINE y == E[i]
                 z == E[n]
                 w == c[n]
      <4>1. z = y + LL + w + TT /\ y \in Int /\ w \in Nat /\ LL \in Nat /\ TT \in Nat
          BY ONLY <1>1, <2>5, <3>1
      <4> HIDE DEF y, z, w
      <4>2. y + LL + TT <= z
          BY ONLY <4>1
      <4> QED
          BY ONLY <4>2 DEF y, z
    <3>2. CASE i < n - 1
      <4>1. E[i] + LL + TT <= E[n - 1] /\ E[i] \in Int
        <5>1. i \notin Bad
            BY <2>1, <2>6
        <5> QED
            BY <2>4, <3>2, <5>1
      <4> DEFINE x == E[i]
                 y == E[n - 1]
                 z == E[n]
                 w == c[n]
      <4>2. /\ x + LL + TT <= y /\ z = y + LL + w + TT
            /\ x \in Int /\ y \in Int /\ w \in Nat /\ LL \in Nat /\ TT \in Nat
          BY ONLY <1>1, <2>5, <4>1
      <4> HIDE DEF x, y, z, w
      <4>3. x + LL + TT <= z
          BY ONLY <4>2
      <4> QED
          BY ONLY <4>3 DEF x, z
    <3> QED
        BY <2>1, <2>6, <3>1, <3>2
  <2>7. E[n] \in Int
    <3> DEFINE y == E[n - 1]
               z == E[n]
               w == c[n]
    <3>1. z = y + LL + w + TT /\ y \in Int /\ w \in Nat /\ LL \in Nat /\ TT \in Nat
        BY ONLY <1>1, <2>5
    <3> HIDE DEF y, z, w
    <3>2. z \in Int
        BY ONLY <3>1
    <3> QED
        BY ONLY <3>2 DEF z
  <2> QED
      BY <2>1, <2>6, <2>7
<1>4. \A j \in 0 .. Len(c) : Good(j)
    BY <1>3
<1>5. \A i, j \in 0 .. Len(c) : i < j => E[i] + LL + TT <= E[j]
    BY <1>4
<1>6. E[0] + LL = ResponseHeaderLen
    BY <1>1, <1>2
<1> QED
    BY <1>2, <1>4, <1>5, <1>6 DEF E, LL, TT

\* What Plain(c) is put together from: the plain text of the first i chunks.
PlainTurn(c, i, p) == p \o ChunkPlain(c, i)
IsPlain(f, n, c) == f = [i \in 0 .. n |-> IF i = 0 THEN << >> ELSE PlainTurn(c, i, f[i - 1])]
PlainUpTo(c) == CHOOSE f : IsPlain(f, Len(c), c)

LEMMA PlainTurns ==
    ASSUME NEW c, Len(c) \in Nat
    PROVE  /\ PlainUpTo(c)[0] = << >>
           /\ \A i \in 1 .. Len(c) : PlainUpTo(c)[i] = PlainTurn(c, i, PlainUpTo(c)[i - 1])
           /\ Plain(c) = PlainUpTo(c)[Len(c)]
<1> DEFINE Is(f, n) == IsPlain(f, n, c)
           Bad == {n \in 0 .. Len(c) : ~ \E f : Is(f, n)}
<1>1. Bad = {}
  <2> SUFFICES ASSUME Bad # {} PROVE FALSE
      OBVIOUS
  <2>1. PICK n \in Bad : \A m \in Bad : n <= m
    <3>1. Bad \in SUBSET Nat
        OBVIOUS
    <3> QED
        BY <3>1, LeastNat
  <2>2. CASE n = 0
    <3> DEFINE f == [i \in 0 .. 0 |-> << >>]
    <3>1. \A i \in 0 .. 0 : f[i] = IF i = 0 THEN << >> ELSE PlainTurn(c, i, f[i - 1])
        OBVIOUS
    <3>2. f = [i \in 0 .. 0 |-> IF i = 0 THEN << >> ELSE PlainTurn(c, i, f[i - 1])]
        BY <3>1
    <3> HIDE DEF f
    <3>3. IsPlain(f, 0, c)
        BY <3>2 DEF IsPlain
    <3> QED
        BY <2>1, <2>2, <3>3
  <2>3. CASE n # 0
    <3>1. n \in 1 .. Len(c) /\ n - 1 \in 0 .. Len(c) /\ n - 1 \notin Bad
        BY <2>1, <2>3
    <3>2. PICK g : Is(g, n - 1)
        BY <3>1
    <3> DEFINE f == [i \in 0 .. n |-> IF i = 0 THEN << >> ELSE PlainTurn(c, i, g[i - 1])]
    <3>3. ASSUME NEW i \in 0 .. n - 1 PROVE f[i] = g[i]
      <4>1. g = [j \in 0 .. n - 1 |-> IF j = 0 THEN << >> ELSE PlainTurn(c, j, g[j - 1])]
          BY <3>2 DEF IsPlain
      <4>2. i \in 0 .. n
          BY <3>1
      <4>3. g[i] = IF i = 0 THEN << >> ELSE PlainTurn(c, i, g[i - 1])
          BY <4>1
      <4> QED
          BY <4>2, <4>3
    <3>4. \A i \in 0 .. n : f[i] = IF i = 0 THEN << >> ELSE PlainTurn(c, i, f[i - 1])
      <4>1. \A i \in 0 .. n : f[i] = IF i = 0 THEN << >> ELSE PlainTurn(c, i, g[i - 1])
          OBVIOUS
      <4> HIDE DEF f
      <4>2. \A i \in 0 .. n : i # 0 => f[i - 1] = g[i - 1]
          BY <3>1, <3>3
      <4> QED
          BY <4>1, <4>2
    <3>5. f = [i \in 0 .. n |-> IF i = 0 THEN << >> ELSE PlainTurn(c, i, f[i - 1])]
        BY <3>4
    <3> HIDE DEF f
    <3>6. IsPlain(f, n, c)
        BY <3>5 DEF IsPlain
    <3> QED
        BY <2>1, <3>6
  <2> QED
      BY <2>2, <2>3
<1>2. \E f : Is(f, Len(c))
    BY <1>1
<1> DEFINE f == PlainUpTo(c)
<1>3. Is(f, Len(c))
    BY <1>2 DEF PlainUpTo
<1>4. Plain(c) = f[Len(c)]
    BY DEF Plain, PlainUpTo, IsPlain, PlainTurn
<1> HIDE DEF f
<1>5. f = [i \in 0 .. Len(c) |-> IF i = 0 THEN << >> ELSE PlainTurn(c, i, f[i - 1])]
    BY <1>3 DEF IsPlain
<1>6. f[0] = << >>
    BY <1>5
<1>7. ASSUME NEW i \in 1 .. Len(c) PROVE f[i] = PlainTurn(c, i, f[i - 1])
  <2>1. i \in 0 .. Len(c) /\ i # 0
      OBVIOUS
  <2> QED
      BY <1>5, <2>1
<1> QED
    BY <1>4, <1>6, <1>7 DEF f

\* The plain text of a chunk: the bytes between the length and the tag.
LEMMA ChunkPlainFacts ==
    ASSUME NEW c, Stream(c), NEW i \in 1 .. Len(c)
    PROVE  /\ ChunkPlain(c, i) \in Seq(Int)
           /\ Len(ChunkPlain(c, i)) = c[i]
           /\ \A k \in 1 .. c[i] :
                ChunkPlain(c, i)[k] = ChunkEnd(c)[i - 1] + SS2022_LENGTH_CHUNK_LEN + k
<1> DEFINE e == ChunkEnd(c)[i] - TCP_SS2022_TAG_LEN
           b == ChunkEnd(c)[i - 1] + SS2022_LENGTH_CHUNK_LEN
<1>1. /\ c[i] \in Nat /\ e \in Int /\ b \in Int /\ e = b + c[i]
  <2>1. i - 1 \in 0 .. Len(c) /\ i \in 0 .. Len(c) /\ c[i] \in Nat
      BY StreamSizes
  <2>2. ChunkEnd(c)[i] \in Int /\ ChunkEnd(c)[i - 1] \in Int
      BY <2>1, EndFacts
  <2>3. ChunkEnd(c)[i] = ChunkEnd(c)[i - 1] + SS2022_LENGTH_CHUNK_LEN + c[i] + TCP_SS2022_TAG_LEN
      BY EndFacts
  <2>4. SS2022_LENGTH_CHUNK_LEN \in Nat /\ TCP_SS2022_TAG_LEN \in Nat
      BY Sizes
  <2> DEFINE x == ChunkEnd(c)[i]
             y == ChunkEnd(c)[i - 1]
             w == c[i]
  <2>5. /\ e = x - TCP_SS2022_TAG_LEN /\ b = y + SS2022_LENGTH_CHUNK_LEN
        /\ x \in Int /\ y \in Int /\ w \in Nat
        /\ x = y + SS2022_LENGTH_CHUNK_LEN + w + TCP_SS2022_TAG_LEN
      BY ONLY <2>1, <2>2, <2>3
  <2> HIDE DEF e, b, x, y
  <2>6. e \in Int /\ b \in Int /\ e = b + w
      BY ONLY <2>4, <2>5
  <2> QED
      BY ONLY <2>1, <2>6
<1>2. ChunkPlain(c, i) = Positions(e - c[i] + 1, e)
    BY DEF ChunkPlain
<1> HIDE DEF e, b
<1>3. ChunkPlain(c, i) = [k \in 1 .. c[i] |-> b + k]
  <2>1. e - (e - c[i] + 1) + 1 = c[i] /\ \A k \in 1 .. c[i] : (e - c[i] + 1) + k - 1 = b + k
      BY <1>1
  <2> QED
      BY <1>2, <2>1 DEF Positions
<1>4. \A k \in 1 .. c[i] : b + k \in Int
    BY <1>1
<1>5. ChunkPlain(c, i) \in Seq(Int) /\ Len(ChunkPlain(c, i)) = c[i]
    BY <1>1, <1>3, <1>4
<1> QED
    BY <1>1, <1>3, <1>5 DEF b

\* How many plain bytes the first i chunks have.
Sent(c, i) == Len(PlainUpTo(c)[i])

\* The plain text grows at its end, by bytes that come later in the stream.
PlainGrows(c, j) ==
    LET u == PlainUpTo(c) IN
    /\ u[j] \in Seq(Int)
    /\ \A k \in 1 .. Len(u[j]) : u[j][k] <= ChunkEnd(c)[j]
    /\ \A i \in 0 .. j : /\ Len(u[i]) <= Len(u[j])
                         /\ \A k \in 1 .. Len(u[i]) : u[j][k] = u[i][k]
                         /\ \A k \in Len(u[i]) + 1 .. Len(u[j]) : u[j][k] > ChunkEnd(c)[i]

LEMMA PlainStep ==
    ASSUME NEW c, Stream(c), NEW j \in 1 .. Len(c), PlainGrows(c, j - 1),
           \A i \in 0 .. j - 1 : PlainUpTo(c)[i] \in Seq(Int)
    PROVE  /\ PlainGrows(c, j)
           /\ Sent(c, j) = Sent(c, j - 1) + c[j]
           /\ \A k \in 1 .. c[j] : PlainUpTo(c)[j][Sent(c, j - 1) + k]
                                    = ChunkEnd(c)[j - 1] + SS2022_LENGTH_CHUNK_LEN + k
<1> DEFINE u == PlainUpTo(c)
           E == ChunkEnd(c)
           p == u[j - 1]
           q == ChunkPlain(c, j)
           n == Len(p)
<1>1. Len(c) \in Nat /\ j - 1 \in 0 .. Len(c) /\ j \in 0 .. Len(c) /\ c[j] \in Nat
    BY StreamSizes
<1>2. u[j] = p \o q
    BY <1>1, PlainTurns DEF PlainTurn
<1>3. /\ q \in Seq(Int) /\ Len(q) = c[j]
      /\ \A k \in 1 .. c[j] : q[k] = E[j - 1] + SS2022_LENGTH_CHUNK_LEN + k
    BY ChunkPlainFacts
<1>4. p \in Seq(Int) /\ n \in Nat
    BY <1>1, LenProperties
<1>5. /\ u[j] \in Seq(Int) /\ Len(u[j]) = n + c[j]
      /\ \A k \in 1 .. n + c[j] : u[j][k] = IF k <= n THEN p[k] ELSE q[k - n]
  <2>1. n = Len(p)
      OBVIOUS
  <2> HIDE DEF u, E, p, q, n
  <2>2. /\ p \o q \in Seq(Int) /\ Len(p \o q) = Len(p) + Len(q)
        /\ \A k \in 1 .. Len(p) + Len(q) : (p \o q)[k] = IF k <= Len(p) THEN p[k] ELSE q[k - Len(p)]
      BY <1>3, <1>4, ConcatProperties
  <2> QED
      BY <1>2, <1>3, <2>1, <2>2
<1>6. /\ \A i \in 0 .. j : E[i] \in Int
      /\ E[j] = E[j - 1] + SS2022_LENGTH_CHUNK_LEN + c[j] + TCP_SS2022_TAG_LEN
      /\ \A i \in 0 .. j - 1 : E[i] <= E[j - 1]
  <2>1. \A i \in 0 .. j : i \in 0 .. Len(c) /\ E[i] \in Int
      BY <1>1, EndFacts
  <2>2. ASSUME NEW i \in 0 .. j - 1 PROVE E[i] <= E[j - 1]
    <3>1. CASE i = j - 1
        BY <1>1, <2>1, <3>1
    <3>2. CASE i < j - 1
      <4>1. E[i] + SS2022_LENGTH_CHUNK_LEN + TCP_SS2022_TAG_LEN <= E[j - 1]
          BY <1>1, <2>1, <3>2, EndFacts
      <4>2. E[i] \in Int /\ E[j - 1] \in Int
          BY <1>1, <2>1
      <4> QED
          BY <4>1, <4>2, Sizes
    <3> QED
        BY <1>1, <3>1, <3>2
  <2> QED
      BY <1>1, <2>1, <2>2, EndFacts
<1>7. /\ \A k \in 1 .. n : p[k] <= E[j - 1] /\ p[k] \in Int
      /\ \A i \in 0 .. j - 1 : /\ Len(u[i]) <= n
                               /\ \A k \in 1 .. Len(u[i]) : p[k] = u[i][k]
                               /\ \A k \in Len(u[i]) + 1 .. n : p[k] > E[i]
    BY <1>4, ElementOfSeq DEF PlainGrows
<1>8. \A i \in 0 .. j - 1 : Len(u[i]) \in Nat
    BY LenProperties
<1> HIDE DEF u, E, p, q, n
<1>9. \A k \in 1 .. c[j] : u[j][n + k] = E[j - 1] + SS2022_LENGTH_CHUNK_LEN + k
  <2> SUFFICES ASSUME NEW k \in 1 .. c[j]
               PROVE  u[j][n + k] = E[j - 1] + SS2022_LENGTH_CHUNK_LEN + k
      OBVIOUS
  <2>1. n + k \in 1 .. n + c[j] /\ ~ (n + k <= n) /\ (n + k) - n = k
      BY <1>1, <1>4
  <2> QED
      BY <1>3, <1>5, <2>1
<1>10. \A k \in n + 1 .. n + c[j] : /\ u[j][k] = E[j - 1] + SS2022_LENGTH_CHUNK_LEN + (k - n)
                                    /\ u[j][k] > E[j - 1] /\ u[j][k] <= E[j]
  <2> SUFFICES ASSUME NEW k \in n + 1 .. n + c[j]
               PROVE  /\ u[j][k] = E[j - 1] + SS2022_LENGTH_CHUNK_LEN + (k - n)
                      /\ u[j][k] > E[j - 1] /\ u[j][k] <= E[j]
      OBVIOUS
  <2>1. k - n \in 1 .. c[j] /\ n + (k - n) = k /\ E[j - 1] \in Int
      BY <1>1, <1>4, <1>6
  <2>2. u[j][k] = E[j - 1] + SS2022_LENGTH_CHUNK_LEN + (k - n)
      BY <1>9, <2>1
  <2> DEFINE x == u[j][k]
             y == E[j - 1]
             z == E[j]
             w == c[j]
             i == k - n
  <2>3. /\ x = y + SS2022_LENGTH_CHUNK_LEN + i /\ i \in 1 .. w /\ y \in Int /\ w \in Nat
        /\ z = y + SS2022_LENGTH_CHUNK_LEN + w + TCP_SS2022_TAG_LEN
      BY ONLY <1>1, <1>6, <2>1, <2>2
  <2>4. SS2022_LENGTH_CHUNK_LEN \in Nat \ {0} /\ TCP_SS2022_TAG_LEN \in Nat \ {0}
      BY Sizes
  <2> HIDE DEF x, y, z, w, i
  <2>5. x > y /\ x <= z
      BY ONLY <2>3, <2>4
  <2> QED
      BY ONLY <2>2, <2>5 DEF x, y, z
<1>11. ASSUME NEW k \in 1 .. n PROVE u[j][k] = p[k]
  <2>1. k \in 1 .. n + c[j] /\ k <= n
      BY <1>1, <1>4
  <2> QED
      BY <1>5, <2>1
<1>12. \A k \in 1 .. Len(u[j]) : u[j][k] <= E[j]
  <2> SUFFICES ASSUME NEW k \in 1 .. n + c[j] PROVE u[j][k] <= E[j]
      BY <1>5
  <2>1. CASE k <= n
    <3>1. u[j][k] <= E[j - 1] /\ u[j][k] \in Int
        BY <1>4, <1>7, <1>11, <2>1
    <3>2. E[j - 1] \in Int /\ E[j - 1] <= E[j] /\ E[j] \in Int
        BY <1>1, <1>6, Sizes
    <3> QED
        BY <3>1, <3>2
  <2>2. CASE k > n
    <3>1. k \in n + 1 .. n + c[j]
        BY <1>1, <1>4, <2>2
    <3> QED
        BY <1>10, <3>1
  <2> QED
      BY <1>1, <1>4, <2>1, <2>2
<1>13. ASSUME NEW i \in 0 .. j
       PROVE  /\ Len(u[i]) <= Len(u[j])
              /\ \A k \in 1 .. Len(u[i]) : u[j][k] = u[i][k]
              /\ \A k \in Len(u[i]) + 1 .. Len(u[j]) : u[j][k] > E[i]
  <2>1. CASE i = j
      BY <1>1, <1>4, <1>5, <2>1
  <2>2. CASE i # j
    <3>1. i \in 0 .. j - 1
        BY <1>1, <2>2
    <3>2. Len(u[i]) \in Nat /\ Len(u[i]) <= n
        BY <1>7, <1>8, <3>1
    <3>3. Len(u[i]) <= Len(u[j])
      <4> DEFINE x == Len(u[i])
                 y == Len(u[j])
                 w == c[j]
      <4>1. x \in Nat /\ x <= n /\ n \in Nat /\ w \in Nat /\ y = n + w
          BY ONLY <1>1, <1>4, <1>5, <3>2
      <4> HIDE DEF x, y, w
      <4>2. x <= y
          BY ONLY <4>1
      <4> QED
          BY ONLY <4>2 DEF x, y
    <3>4. \A k \in 1 .. Len(u[i]) : u[j][k] = u[i][k]
      <4> SUFFICES ASSUME NEW k \in 1 .. Len(u[i]) PROVE u[j][k] = u[i][k]
          OBVIOUS
      <4>1. k \in 1 .. n
          BY <1>4, <3>2
      <4> QED
          BY <1>7, <1>11, <3>1, <4>1
    <3>5. ASSUME NEW k \in Len(u[i]) + 1 .. Len(u[j]) PROVE u[j][k] > E[i]
      <4>1. CASE k <= n
          BY <1>4, <1>7, <1>11, <3>1, <3>2, <4>1
      <4>2. CASE k > n
        <5>1. u[j][k] > E[j - 1] /\ u[j][k] \in Int
          <6>1. k \in n + 1 .. n + c[j] /\ k - n \in Int /\ E[j - 1] \in Int
              BY <1>1, <1>4, <1>5, <1>6, <3>2, <4>2
          <6>2. /\ u[j][k] = E[j - 1] + SS2022_LENGTH_CHUNK_LEN + (k - n)
                /\ u[j][k] > E[j - 1]
              BY <1>10, <6>1
          <6> QED
              BY <6>1, <6>2, Sizes
        <5>2. E[i] <= E[j - 1] /\ E[i] \in Int /\ E[j - 1] \in Int
            BY <1>1, <1>6, <3>1
        <5> QED
            BY <5>1, <5>2
      <4> QED
          BY <1>1, <1>4, <1>5, <3>2, <4>1, <4>2
    <3> QED
        BY <3>3, <3>4, <3>5
  <2> QED
      BY <2>1, <2>2
<1> QED
    BY <1>5, <1>9, <1>12, <1>13 DEF PlainGrows, Sent, u, E, p, n

\* The plain text of the whole stream, byte by byte, and where its chunks end in it.
LEMMA PlainFacts ==
    ASSUME NEW c, Stream(c)
    PROVE  /\ Plain(c) \in Seq(Int)
           /\ Sent(c, 0) = 0
           /\ \A i \in 0 .. Len(c) : Sent(c, i) \in 0 .. Len(Plain(c))
           /\ \A i \in 1 .. Len(c) :
                /\ Sent(c, i) = Sent(c, i - 1) + c[i]
                /\ \A k \in 1 .. c[i] : Plain(c)[Sent(c, i - 1) + k]
                                         = ChunkEnd(c)[i - 1] + SS2022_LENGTH_CHUNK_LEN + k
           /\ \A i \in 0 .. Len(c), k \in 1 .. Len(Plain(c)) :
                Plain(c)[k] <= ChunkEnd(c)[i] <=> k <= Sent(c, i)
<1> DEFINE u == PlainUpTo(c)
           E == ChunkEnd(c)
           Bad == {j \in 0 .. Len(c) : ~ PlainGrows(c, j)}
<1>1. Len(c) \in Nat /\ \A i \in 1 .. Len(c) : c[i] \in Nat
    BY StreamSizes
<1>2. PlainGrows(c, 0)
  <2>1. u[0] = << >>
      BY <1>1, PlainTurns
  <2>2. << >> \in Seq(Int) /\ Len(<< >>) = 0
      BY EmptySeq
  <2> HIDE DEF u
  <2>3. \A i \in 0 .. 0 : u[i] = << >>
      BY <2>1
  <2> QED
      BY <2>1, <2>2, <2>3 DEF PlainGrows, u
<1>3. Bad = {}
  <2> SUFFICES ASSUME Bad # {} PROVE FALSE
      OBVIOUS
  <2>1. PICK n \in Bad : \A m \in Bad : n <= m
    <3>1. Bad \in SUBSET Nat
        BY <1>1
    <3> QED
        BY <3>1, LeastNat
  <2>2. n \in 1 .. Len(c) /\ \A i \in 0 .. n - 1 : i \in 0 .. Len(c) /\ i \notin Bad
      BY <1>1, <1>2, <2>1
  <2>3. \A i \in 0 .. n - 1 : PlainGrows(c, i)
      BY <2>2
  <2>4. PlainGrows(c, n - 1) /\ \A i \in 0 .. n - 1 : u[i] \in Seq(Int)
    <3>1. n - 1 \in 0 .. n - 1
        BY ONLY <1>1, <2>2
    <3>2. \A i : PlainGrows(c, i) => u[i] \in Seq(Int)
        BY ONLY DEF PlainGrows, u
    <3> QED
        BY ONLY <2>3, <3>1, <3>2
  <2>5. PlainGrows(c, n)
      BY <2>2, <2>4, PlainStep
  <2> QED
      BY <2>1, <2>5
<1>4. \A j \in 0 .. Len(c) : PlainGrows(c, j) /\ u[j] \in Seq(Int) /\ Sent(c, j) \in Nat
  <2>1. \A j \in 0 .. Len(c) : PlainGrows(c, j)
      BY <1>3
  <2>2. \A j \in 0 .. Len(c) : u[j] \in Seq(Int)
      BY <2>1 DEF PlainGrows
  <2> QED
      BY <2>1, <2>2, LenProperties DEF Sent
<1>5. ASSUME NEW i \in 1 .. Len(c)
      PROVE  /\ Sent(c, i) = Sent(c, i - 1) + c[i]
             /\ \A k \in 1 .. c[i] : u[i][Sent(c, i - 1) + k]
                                      = E[i - 1] + SS2022_LENGTH_CHUNK_LEN + k
  <2>1. PlainGrows(c, i - 1) /\ \A j \in 0 .. i - 1 : u[j] \in Seq(Int)
      BY <1>1, <1>4
  <2> QED
      BY <2>1, PlainStep
<1>6. Plain(c) = u[Len(c)] /\ Len(c) \in 0 .. Len(c) /\ u[0] = << >>
    BY <1>1, PlainTurns
<1>7. Sent(c, 0) = 0 /\ Sent(c, Len(c)) = Len(Plain(c))
    BY <1>6 DEF Sent
<1>8. ASSUME NEW i \in 0 .. Len(c)
      PROVE  /\ Sent(c, i) <= Len(Plain(c))
             /\ \A k \in 1 .. Sent(c, i) : Plain(c)[k] = u[i][k]
             /\ \A k \in Sent(c, i) + 1 .. Len(Plain(c)) : Plain(c)[k] > E[i]
    BY <1>4, <1>6 DEF PlainGrows, Sent
<1>9. ASSUME NEW i \in 0 .. Len(c)
      PROVE  \A k \in 1 .. Sent(c, i) : u[i][k] <= E[i]
    BY <1>4 DEF PlainGrows, Sent
<1>10. ASSUME NEW i \in 0 .. Len(c), NEW k \in 1 .. Len(Plain(c))
       PROVE  Plain(c)[k] <= E[i] <=> k <= Sent(c, i)
  <2>1. E[i] \in Int /\ Plain(c)[k] \in Int /\ Sent(c, i) \in Nat /\ Len(Plain(c)) \in Nat
      BY <1>4, <1>6, EndFacts, ElementOfSeq, LenProperties
  <2>2. CASE k <= Sent(c, i)
    <3>1. k \in 1 .. Sent(c, i)
        BY <2>1, <2>2
    <3> QED
        BY <1>8, <1>9, <2>2, <3>1
  <2>3. CASE ~ (k <= Sent(c, i))
    <3>1. k \in Sent(c, i) + 1 .. Len(Plain(c))
        BY <2>1, <2>3
    <3>2. Plain(c)[k] > E[i]
        BY <1>8, <3>1
    <3> QED
        BY <2>1, <2>3, <3>2
  <2> QED
      BY <2>2, <2>3
<1>11. ASSUME NEW i \in 1 .. Len(c), NEW k \in 1 .. c[i]
       PROVE  Plain(c)[Sent(c, i - 1) + k] = E[i - 1] + SS2022_LENGTH_CHUNK_LEN + k
  <2>1. i \in 0 .. Len(c) /\ i - 1 \in 0 .. Len(c) /\ c[i] \in Nat
      BY <1>1
  <2>2. Sent(c, i) \in Nat /\ Sent(c, i - 1) \in Nat /\ Sent(c, i) = Sent(c, i - 1) + c[i]
      BY <1>4, <1>5, <2>1
  <2>3. Sent(c, i - 1) + k \in 1 .. Sent(c, i)
      BY <2>1, <2>2
  <2> QED
      BY <1>5, <1>8, <2>1, <2>3
<1>12. Plain(c) \in Seq(Int) /\ Len(Plain(c)) \in Nat
    BY <1>4, <1>6, LenProperties
<1>13. \A i \in 0 .. Len(c) : Sent(c, i) \in 0 .. Len(Plain(c))
    BY <1>4, <1>8, <1>12
<1> QED
    BY <1>5, <1>7, <1>10, <1>11, <1>12, <1>13

-----------------------------------------------------------------------------
(* The invariant of the session.                                           *)

Watched == SUBSET {"read", "write"}
Relays ==
    [open : {"open", "done", "reset", "truncated", "garbled"},
     client_eof : BOOLEAN, server_eof : BOOLEAN,
     client_shutdown_sent : BOOLEAN, server_shutdown_sent : BOOLEAN,
     response_header_done : BOOLEAN, response_payload_len : Nat,
     in : [1 .. TCP_SS_RESP_IN_BUFSIZ -> Int], in_head : Nat, in_len : Nat,
     need_len : BOOLEAN, out_off : Nat, out_len : Nat, in_consume : Nat,
     c2s : Seq(Int), c2s_off : Nat, c2s_len : Nat,
     client_events : Watched, server_events : Watched,
     opened : Nat, chunk : Nat, received : Nat, to_client : Seq(Int),
     from_client : Nat, sealed : Nat, to_server : Seq(Int)]

\* What the server says and where it stops never change.
StreamOK == Stream(chunks) /\ cut \in 0 .. ChunkEnd(chunks)[Len(chunks)]

\* The input buffer holds the last bytes received, in order: those not yet opened
\* and, before them, the chunk that is being sent.
BufferOK(r) ==
    /\ r.in_head + r.in_len <= TCP_SS_RESP_IN_BUFSIZ
    /\ r.in_consume <= r.in_len
    /\ r.received = r.opened + r.in_len - r.in_consume
    /\ r.received <= cut
    /\ \A k \in 1 .. r.in_len : r.in[r.in_head + k] = r.received - r.in_len + k

\* The framing is at a boundary between two pieces of the stream, and what the client
\* was sent ends there, or in the chunk that is being sent.
HeaderOK(r) == r.opened = 0 /\ ~ r.need_len /\ Len(r.to_client) = 0
ChunkOK(r) ==
    /\ r.chunk \in 1 .. Len(chunks) /\ r.response_payload_len = chunks[r.chunk]
    /\ r.opened = IF r.need_len THEN ChunkEnd(chunks)[r.chunk]
                  ELSE ChunkEnd(chunks)[r.chunk - 1] + SS2022_LENGTH_CHUNK_LEN
    /\ Len(r.to_client) = IF r.need_len /\ r.out_len = 0 THEN Sent(chunks, r.chunk)
                          ELSE Sent(chunks, r.chunk - 1) + r.out_off
FrameOK(r) ==
    /\ ~ r.response_header_done => HeaderOK(r)
    /\ r.response_header_done => ChunkOK(r)
    /\ r.out_len > 0 => /\ r.response_header_done /\ r.need_len
                        /\ r.out_off + r.out_len = r.response_payload_len
                        /\ r.in_consume = r.response_payload_len + TCP_SS2022_TAG_LEN
    /\ r.out_len = 0 => r.out_off = 0 /\ r.in_consume = 0

\* The client was sent the first bytes of the plain text.
PrefixOK(r) ==
    \A k \in 1 .. Len(r.to_client) : k <= Len(Plain(chunks)) /\ r.to_client[k] = Plain(chunks)[k]

Moving(r) == r \in Relays /\ r.open = "open" /\ BufferOK(r) /\ FrameOK(r) /\ PrefixOK(r)

\* Nothing more can be opened before the client or the server has moved.
Settled(r) == r.out_len > 0 \/ r.in_len < Needed(r)

\* The fields that neither the framing nor the writing to the client touches.
SameElse(q, r) ==
    /\ q.client_eof = r.client_eof /\ q.server_eof = r.server_eof
    /\ q.client_shutdown_sent = r.client_shutdown_sent
    /\ q.server_shutdown_sent = r.server_shutdown_sent
    /\ q.c2s = r.c2s /\ q.c2s_off = r.c2s_off /\ q.c2s_len = r.c2s_len
    /\ q.from_client = r.from_client
    /\ q.sealed = r.sealed /\ q.to_server = r.to_server
    /\ q.received = r.received

-----------------------------------------------------------------------------
(* Opening a piece.                                                        *)

\* Bytes that are in order in the buffer are the next of the stream.
LEMMA InOrderIsAuthentic ==
    ASSUME NEW f, NEW h \in Nat, NEW n \in Nat, NEW p \in Int,
           \A k \in 1 .. n : f[h + k] = p + k
    PROVE  SubSeq(f, h + 1, h + n) = Positions(p + 1, p + n)
<1>1. \A k \in h + 1 .. h + n : f[k] \in Int
  <2> SUFFICES ASSUME NEW k \in h + 1 .. h + n PROVE f[k] \in Int
      OBVIOUS
  <2>1. k - h \in 1 .. n /\ h + (k - h) = k
      OBVIOUS
  <2> QED
      BY <2>1
<1>2. /\ SubSeq(f, h + 1, h + n) \in Seq(Int)
      /\ Len(SubSeq(f, h + 1, h + n)) = n
      /\ \A k \in 1 .. n : SubSeq(f, h + 1, h + n)[k] = f[h + k]
  <2>1. /\ SubSeq(f, h + 1, h + n) \in Seq(Int)
        /\ Len(SubSeq(f, h + 1, h + n)) = IF h + 1 <= h + n THEN (h + n) - (h + 1) + 1 ELSE 0
        /\ \A i \in 1 .. (h + n) - (h + 1) + 1 : SubSeq(f, h + 1, h + n)[i] = f[(h + 1) + i - 1]
      BY <1>1, SubSeqProperties
  <2>2. (h + n) - (h + 1) + 1 = n /\ \A i \in 1 .. n : (h + 1) + i - 1 = h + i
      OBVIOUS
  <2> QED
      BY <2>1, <2>2
<1> DEFINE t == Positions(p + 1, p + n)
<1>3. t = [k \in 1 .. n |-> p + k]
  <2>1. (p + n) - (p + 1) + 1 = n /\ \A k \in 1 .. n : (p + 1) + k - 1 = p + k
      OBVIOUS
  <2> QED
      BY <2>1 DEF Positions
<1>4. t \in Seq(Int) /\ Len(t) = n /\ \A k \in 1 .. n : t[k] = p + k
  <2>1. \A k \in 1 .. n : p + k \in Int
      OBVIOUS
  <2> HIDE DEF t
  <2> QED
      BY <1>3, <2>1
<1> DEFINE u == SubSeq(f, h + 1, h + n)
<1>5. u \in Seq(Int) /\ Len(u) = n /\ \A k \in 1 .. n : u[k] = p + k
    BY <1>2
<1> HIDE DEF t, u
<1>6. u = t
    BY <1>4, <1>5, SeqEqual
<1> QED
    BY <1>6 DEF t, u

\* tcp_buf_consume drops the first n bytes, whether or not it is all there is.
LEMMA ConsumeFacts ==
    ASSUME NEW r \in Relays, NEW n \in 0 .. r.in_len,
           r.in_head + r.in_len <= TCP_SS_RESP_IN_BUFSIZ
    PROVE  LET q == tcp_buf_consume(r, n) IN
           /\ q \in Relays /\ q.in_len = r.in_len - n
           /\ q.in_head + q.in_len <= TCP_SS_RESP_IN_BUFSIZ
           /\ q.in = r.in
           /\ \A k \in 1 .. q.in_len : q.in_head + k = r.in_head + n + k
           /\ SameElse(q, r) /\ q.open = r.open
           /\ q.response_header_done = r.response_header_done
           /\ q.response_payload_len = r.response_payload_len
           /\ q.need_len = r.need_len /\ q.out_off = r.out_off /\ q.out_len = r.out_len
           /\ q.in_consume = r.in_consume /\ q.opened = r.opened /\ q.chunk = r.chunk
           /\ q.to_client = r.to_client
<1>1. r.in_len \in Nat /\ r.in_head \in Nat
    BY DEF Relays
<1> DEFINE q == tcp_buf_consume(r, n)
<1>2. PICK h \in Nat, l \in Nat : /\ q = [r EXCEPT !.in_head = h, !.in_len = l]
                                  /\ l = r.in_len - n /\ h + l <= TCP_SS_RESP_IN_BUFSIZ
                                  /\ \A k \in 1 .. l : h + k = r.in_head + n + k
  <2>1. CASE n >= r.in_len
    <3>1. q = [r EXCEPT !.in_head = 0, !.in_len = 0]
        BY <2>1 DEF tcp_buf_consume
    <3>2. /\ 0 = r.in_len - n /\ 0 + 0 <= TCP_SS_RESP_IN_BUFSIZ
          /\ \A k \in 1 .. 0 : 0 + k = r.in_head + n + k
        BY <1>1, <2>1, Sizes
    <3> HIDE DEF q
    <3> WITNESS 0 \in Nat, 0 \in Nat
    <3> QED
        BY <3>1, <3>2
  <2>2. CASE ~ (n >= r.in_len)
    <3>1. r.in_head + n \in Nat /\ r.in_len - n \in Nat
        BY <1>1, <2>2
    <3>2. q = [r EXCEPT !.in_head = r.in_head + n, !.in_len = r.in_len - n]
        BY <2>2 DEF tcp_buf_consume
    <3>3. r.in_head + n + (r.in_len - n) <= TCP_SS_RESP_IN_BUFSIZ
        BY <1>1
    <3> QED
        BY <3>1, <3>2, <3>3
  <2> QED
      BY <2>1, <2>2
<1> HIDE DEF q
<1>3. q \in Relays
    BY <1>2 DEF Relays
<1>4. q.in_head = h /\ q.in_len = l
    BY <1>2 DEF Relays
<1>5. /\ q.in = r.in
      /\ SameElse(q, r) /\ q.open = r.open
      /\ q.response_header_done = r.response_header_done
      /\ q.response_payload_len = r.response_payload_len
      /\ q.need_len = r.need_len /\ q.out_off = r.out_off /\ q.out_len = r.out_len
      /\ q.in_consume = r.in_consume /\ q.opened = r.opened /\ q.chunk = r.chunk
      /\ q.to_client = r.to_client
    BY <1>2 DEF Relays, SameElse
<1> QED
    BY <1>2, <1>3, <1>4, <1>5 DEF q

\* Where a chunk begins and ends in the stream and in the plain text.
LEMMA ChunkFacts ==
    ASSUME StreamOK, NEW i \in 1 .. Len(chunks)
    PROVE  /\ Len(chunks) \in Nat /\ chunks[i] \in Nat
           /\ ChunkEnd(chunks)[i - 1] \in Int /\ ChunkEnd(chunks)[i] \in Int
           /\ ChunkEnd(chunks)[i] = ChunkEnd(chunks)[i - 1] + SS2022_LENGTH_CHUNK_LEN
                                    + chunks[i] + TCP_SS2022_TAG_LEN
           /\ ChunkEnd(chunks)[0] + SS2022_LENGTH_CHUNK_LEN = ResponseHeaderLen
           /\ cut \in Nat /\ (i = Len(chunks) => cut <= ChunkEnd(chunks)[i])
           /\ Sent(chunks, i - 1) \in Nat /\ Sent(chunks, i) \in Nat /\ Sent(chunks, 0) = 0
           /\ Sent(chunks, i) = Sent(chunks, i - 1) + chunks[i]
           /\ Sent(chunks, i) <= Len(Plain(chunks))
           /\ \A k \in 1 .. chunks[i] : Plain(chunks)[Sent(chunks, i - 1) + k]
                  = ChunkEnd(chunks)[i - 1] + SS2022_LENGTH_CHUNK_LEN + k
<1>1. Stream(chunks) /\ Len(chunks) \in Nat \ {0} /\ \A j \in 1 .. Len(chunks) : chunks[j] \in Nat
    BY StreamSizes DEF StreamOK
<1>2. i \in 0 .. Len(chunks) /\ i - 1 \in 0 .. Len(chunks) /\ Len(chunks) \in 0 .. Len(chunks)
    BY <1>1
<1>3. /\ ChunkEnd(chunks)[i - 1] \in Int /\ ChunkEnd(chunks)[i] \in Int
      /\ ChunkEnd(chunks)[Len(chunks)] \in Int
      /\ ChunkEnd(chunks)[i] = ChunkEnd(chunks)[i - 1] + SS2022_LENGTH_CHUNK_LEN
                               + chunks[i] + TCP_SS2022_TAG_LEN
      /\ ChunkEnd(chunks)[0] + SS2022_LENGTH_CHUNK_LEN = ResponseHeaderLen
    BY <1>1, <1>2, EndFacts
<1>4. cut \in Nat /\ cut <= ChunkEnd(chunks)[Len(chunks)]
    BY <1>3 DEF StreamOK
<1>5. /\ Sent(chunks, i - 1) \in 0 .. Len(Plain(chunks)) /\ Sent(chunks, i) \in 0 .. Len(Plain(chunks))
      /\ Sent(chunks, 0) = 0 /\ Sent(chunks, i) = Sent(chunks, i - 1) + chunks[i]
      /\ \A k \in 1 .. chunks[i] : Plain(chunks)[Sent(chunks, i - 1) + k]
             = ChunkEnd(chunks)[i - 1] + SS2022_LENGTH_CHUNK_LEN + k
    BY <1>1, <1>2, PlainFacts
<1> QED
    BY <1>1, <1>3, <1>4, <1>5

\* The types of the fields, one by one.
LEMMA FieldTypes ==
    ASSUME NEW r \in Relays
    PROVE  /\ r.response_payload_len \in Nat /\ r.in_head \in Nat /\ r.in_len \in Nat
           /\ r.out_off \in Nat /\ r.out_len \in Nat /\ r.in_consume \in Nat
           /\ r.c2s_len \in Nat /\ r.opened \in Nat /\ r.chunk \in Nat /\ r.received \in Nat
           /\ r.from_client \in Nat /\ r.sealed \in Nat /\ r.c2s_off \in Nat
           /\ r.to_server \in Seq(Int) /\ Len(r.to_server) \in Nat /\ r.c2s \in Seq(Int)
           /\ r.to_client \in Seq(Int) /\ Len(r.to_client) \in Nat
           /\ r.in \in [1 .. TCP_SS_RESP_IN_BUFSIZ -> Int]
           /\ r.response_header_done \in BOOLEAN /\ r.need_len \in BOOLEAN
           /\ r.client_eof \in BOOLEAN /\ r.server_eof \in BOOLEAN
           /\ r.client_shutdown_sent \in BOOLEAN /\ r.server_shutdown_sent \in BOOLEAN
           /\ r.client_events \in Watched /\ r.server_events \in Watched
<1>1. r.to_client \in Seq(Int) /\ r.to_server \in Seq(Int)
    BY DEF Relays
<1> QED
    BY <1>1, LenProperties DEF Relays

\* Needed is positive: the loop of the framing comes to an end.
LEMMA NeededFacts ==
    ASSUME NEW r \in Relays
    PROVE  Needed(r) \in Nat \ {0}
BY FieldTypes, Sizes DEF Needed

\* The piece at the head of the buffer is taken out of it.
LEMMA OpenedFacts ==
    ASSUME NEW r \in Relays, BufferOK(r), r.in_consume = 0, NEW n \in 1 .. r.in_len
    PROVE  LET q == Opened(r, n) IN
           /\ q \in Relays /\ BufferOK(q) /\ SameElse(q, r) /\ q.open = r.open
           /\ q.in_len = r.in_len - n /\ q.opened = r.opened + n
           /\ q.response_header_done = r.response_header_done
           /\ q.response_payload_len = r.response_payload_len
           /\ q.need_len = r.need_len /\ q.out_off = r.out_off /\ q.out_len = r.out_len
           /\ q.in_consume = r.in_consume /\ q.chunk = r.chunk /\ q.to_client = r.to_client
           /\ Authentic(r, n)
<1> DEFINE o == tcp_buf_consume(r, n)
           q == Opened(r, n)
<1>0. r.in_len \in Nat /\ r.in_head \in Nat /\ r.opened \in Nat /\ r.received \in Nat
    BY FieldTypes
<1>1. /\ r.in_len \in Nat /\ r.in_head \in Nat /\ r.opened \in Nat /\ r.received \in Nat
      /\ n \in Nat /\ n \in 0 .. r.in_len /\ r.in_head + r.in_len <= TCP_SS_RESP_IN_BUFSIZ
      /\ r.received = r.opened + r.in_len /\ r.received <= cut
      /\ \A k \in 1 .. r.in_len : r.in[r.in_head + k] = r.received - r.in_len + k
    BY <1>0 DEF BufferOK
<1>2. /\ o \in Relays /\ o.in_len = r.in_len - n
      /\ o.in_head + o.in_len <= TCP_SS_RESP_IN_BUFSIZ
      /\ o.in = r.in
      /\ \A k \in 1 .. o.in_len : o.in_head + k = r.in_head + n + k
      /\ SameElse(o, r) /\ o.open = r.open
      /\ o.response_header_done = r.response_header_done
      /\ o.response_payload_len = r.response_payload_len
      /\ o.need_len = r.need_len /\ o.out_off = r.out_off /\ o.out_len = r.out_len
      /\ o.in_consume = r.in_consume /\ o.opened = r.opened /\ o.chunk = r.chunk
      /\ o.to_client = r.to_client
    BY <1>1, ConsumeFacts
<1>3. q = [o EXCEPT !.opened = r.opened + n] /\ r.opened + n \in Nat
    BY <1>1, <1>2 DEF Opened
<1> HIDE DEF o, q
<1>4. q \in Relays
  <2>1. PICK v \in Nat : q = [o EXCEPT !.opened = v]
      BY ONLY <1>3
  <2>2. o \in Relays
      BY ONLY <1>2
  <2> QED
      BY ONLY <2>1, <2>2 DEF Relays
<1>5. /\ q.in_len = o.in_len /\ q.in_head = o.in_head /\ q.in = o.in /\ q.opened = r.opened + n
      /\ SameElse(q, o) /\ q.open = o.open
      /\ q.response_header_done = o.response_header_done
      /\ q.response_payload_len = o.response_payload_len
      /\ q.need_len = o.need_len /\ q.out_off = o.out_off /\ q.out_len = o.out_len
      /\ q.in_consume = o.in_consume /\ q.chunk = o.chunk /\ q.to_client = o.to_client
    BY <1>2, <1>3 DEF Relays, SameElse
<1>6. SameElse(q, r)
    BY <1>2, <1>5 DEF SameElse
<1>7. BufferOK(q)
  <2>1. q.received = r.received /\ q.in_len = r.in_len - n /\ q.in_consume = 0
      BY <1>2, <1>5, <1>6 DEF SameElse
  <2>2. ASSUME NEW k \in 1 .. q.in_len
        PROVE  q.in[q.in_head + k] = q.received - q.in_len + k
    <3>1. n + k \in 1 .. r.in_len /\ q.in_head + k = r.in_head + (n + k)
        BY <1>1, <1>2, <1>5
    <3>2. q.in[q.in_head + k] = r.received - r.in_len + (n + k)
        BY <1>1, <1>2, <1>5, <3>1
    <3> QED
        BY <1>1, <2>1, <3>2
  <2>3. q.in_consume <= q.in_len /\ q.received = q.opened + q.in_len - q.in_consume
      BY <1>1, <1>5, <2>1
  <2> QED
      BY <1>1, <1>2, <1>5, <2>1, <2>2, <2>3 DEF BufferOK
<1>8. Authentic(r, n)
  <2>1. \A k \in 1 .. n : r.in[r.in_head + k] = r.opened + k
    <3> SUFFICES ASSUME NEW k \in 1 .. n PROVE r.in[r.in_head + k] = r.opened + k
        OBVIOUS
    <3>1. k \in 1 .. r.in_len
        BY <1>1
    <3>2. r.in[r.in_head + k] = r.received - r.in_len + k
        BY <1>1, <3>1
    <3> QED
        BY <1>1, <3>2
  <2> DEFINE f == r.in
             h == r.in_head
             p == r.opened
  <2>2. (\A k \in 1 .. n : f[h + k] = p + k) /\ h \in Nat /\ p \in Int /\ n \in Nat
      BY <1>1, <2>1
  <2> HIDE DEF f, h, p
  <2>3. SubSeq(f, h + 1, h + n) = Positions(p + 1, p + n)
      BY <2>2, InOrderIsAuthentic
  <2> QED
      BY <2>3 DEF Authentic, f, h, p
<1> QED
    BY <1>2, <1>4, <1>5, <1>6, <1>7, <1>8 DEF q

\* What a piece that is opened leaves behind, by the kind of the piece.
LEMMA OpenPieceFacts ==
    ASSUME StreamOK, NEW r, Moving(r), ~ Settled(r)
    PROVE  LET q == OpenPiece(r) IN
           /\ Moving(q) /\ SameElse(q, r) /\ q.in_len <= r.in_len
           /\ Settled(q) \/ q.in_len < r.in_len
<1> DEFINE n == Needed(r)
           o == Opened(r, n)
           q == OpenPiece(r)
<1>1. /\ r \in Relays /\ r.open = "open" /\ BufferOK(r) /\ FrameOK(r) /\ PrefixOK(r)
      /\ r.in_len \in Nat /\ r.opened \in Nat /\ r.received \in Nat /\ r.chunk \in Nat
      /\ r.response_payload_len \in Nat /\ r.out_len \in Nat /\ r.in_head \in Nat
    BY FieldTypes DEF Moving
<1>2. n \in Nat \ {0} /\ n <= r.in_len /\ r.out_len = 0
    BY <1>1, NeededFacts DEF Settled
<1>3. r.out_off = 0 /\ r.in_consume = 0 /\ n \in 1 .. r.in_len
    BY <1>1, <1>2 DEF FrameOK
<1>4. r.received = r.opened + r.in_len /\ r.received <= cut
    BY <1>1, <1>3 DEF BufferOK
<1>5. /\ o \in Relays /\ BufferOK(o) /\ SameElse(o, r) /\ o.open = "open"
      /\ o.in_len = r.in_len - n /\ o.opened = r.opened + n
      /\ o.response_header_done = r.response_header_done
      /\ o.response_payload_len = r.response_payload_len
      /\ o.need_len = r.need_len /\ o.out_off = 0 /\ o.out_len = 0
      /\ o.in_consume = 0 /\ o.chunk = r.chunk /\ o.to_client = r.to_client
      /\ Authentic(r, n)
    BY <1>1, <1>2, <1>3, OpenedFacts
<1>6. Len(chunks) \in Nat \ {0} /\ \A i \in 1 .. Len(chunks) : chunks[i] \in Nat
    BY StreamSizes DEF StreamOK
<1>7. ~ (r.open # "open" \/ r.out_len > 0 \/ r.in_len < n)
    BY <1>1, <1>2
<1> DEFINE header == [o EXCEPT !.response_header_done = TRUE, !.need_len = FALSE,
                               !.chunk = 1, !.response_payload_len = chunks[1]]
           length == [o EXCEPT !.need_len = FALSE, !.chunk = r.chunk + 1,
                               !.response_payload_len = chunks[r.chunk + 1]]
           empty == [o EXCEPT !.need_len = TRUE]
           chunk == [r EXCEPT !.opened = r.opened + n, !.in_consume = n, !.out_off = 0,
                              !.out_len = r.response_payload_len, !.need_len = TRUE]
<1>8. /\ ~ r.response_header_done => q = header
      /\ r.response_header_done /\ r.need_len => q = length
      /\ r.response_header_done /\ ~ r.need_len /\ r.response_payload_len = 0 => q = empty
      /\ r.response_header_done /\ ~ r.need_len /\ r.response_payload_len # 0 => q = chunk
    BY <1>5, <1>7 DEF OpenPiece
<1> HIDE DEF n, o, q
<1>9. ASSUME NEW x, x \in Relays, BufferOK(x), FrameOK(x), x.to_client = r.to_client,
             SameElse(x, r), x.open = "open", x.in_len <= r.in_len,
             x.out_len > 0 \/ x.in_len < r.in_len
      PROVE  /\ Moving(x) /\ SameElse(x, r) /\ x.in_len <= r.in_len
             /\ Settled(x) \/ x.in_len < r.in_len
    BY <1>1, <1>9 DEF Moving, PrefixOK, Settled
<1>10. o.in_len < r.in_len /\ o.in_len <= r.in_len
    BY <1>1, <1>2, <1>5
<1>11. CASE ~ r.response_header_done
  <2>1. q = header
      BY <1>8, <1>11
  <2>2. 1 \in 1 .. Len(chunks) /\ chunks[1] \in Nat
      BY <1>6
  <2>3. q \in Relays
      BY <1>5, <2>1, <2>2 DEF Relays
  <2>4. /\ q.response_header_done = TRUE /\ q.need_len = FALSE /\ q.chunk = 1
        /\ q.response_payload_len = chunks[1] /\ q.open = o.open
        /\ q.in = o.in /\ q.in_head = o.in_head /\ q.in_len = o.in_len
        /\ q.in_consume = o.in_consume /\ q.opened = o.opened /\ q.received = o.received
        /\ q.out_len = o.out_len /\ q.out_off = o.out_off /\ q.to_client = o.to_client
        /\ SameElse(q, o)
      BY <1>5, <2>1 DEF Relays, SameElse
  <2>5. SameElse(q, r)
      BY <1>5, <2>4 DEF SameElse
  <2>6. BufferOK(q)
      BY <1>5, <2>4 DEF BufferOK
  <2>7. n = ResponseHeaderLen /\ HeaderOK(r)
      BY <1>1, <1>11 DEF n, Needed, FrameOK
  <2>8. q.opened = ResponseHeaderLen /\ Len(q.to_client) = 0
      BY <1>5, <2>4, <2>7, Sizes DEF HeaderOK
  <2>9. /\ ChunkEnd(chunks)[0] + SS2022_LENGTH_CHUNK_LEN = ResponseHeaderLen
        /\ Sent(chunks, 0) = 0
      BY <2>2, ChunkFacts
  <2>10. ChunkOK(q)
    <3>1. q.chunk - 1 = 0 /\ Sent(chunks, 0) + q.out_off = 0
        BY <1>5, <2>4, <2>9
    <3> QED
        BY <2>2, <2>4, <2>8, <2>9, <3>1 DEF ChunkOK
  <2>11. FrameOK(q)
      BY <1>5, <2>4, <2>10 DEF FrameOK
  <2> QED
      BY <1>5, <1>9, <1>10, <2>3, <2>4, <2>5, <2>6, <2>11 DEF q
<1>12. CASE r.response_header_done /\ r.need_len
  <2>1. q = length
      BY <1>8, <1>12
  <2>2. /\ r.chunk \in 1 .. Len(chunks) /\ r.opened = ChunkEnd(chunks)[r.chunk]
        /\ Len(r.to_client) = Sent(chunks, r.chunk)
      BY <1>1, <1>2, <1>12 DEF FrameOK, ChunkOK
  <2>3. n = SS2022_LENGTH_CHUNK_LEN
      BY <1>12 DEF n, Needed
  <2>4. r.chunk + 1 \in 1 .. Len(chunks) /\ chunks[r.chunk + 1] \in Nat /\ r.chunk + 1 \in Nat
    <3>1. r.chunk # Len(chunks)
      <4>1. cut \in Nat /\ (r.chunk = Len(chunks) => cut <= ChunkEnd(chunks)[r.chunk])
          BY <2>2, ChunkFacts
      <4> QED
          BY <1>1, <1>2, <1>4, <2>2, <4>1
    <3>2. r.chunk + 1 \in 1 .. Len(chunks)
        BY <1>1, <1>6, <2>2, <3>1
    <3> QED
        BY <1>1, <1>6, <3>2
  <2>5. q \in Relays
      BY <1>5, <2>1, <2>4 DEF Relays
  <2>6. /\ q.response_header_done = o.response_header_done /\ q.need_len = FALSE
        /\ q.chunk = r.chunk + 1
        /\ q.response_payload_len = chunks[r.chunk + 1] /\ q.open = o.open
        /\ q.in = o.in /\ q.in_head = o.in_head /\ q.in_len = o.in_len
        /\ q.in_consume = o.in_consume /\ q.opened = o.opened /\ q.received = o.received
        /\ q.out_len = o.out_len /\ q.out_off = o.out_off /\ q.to_client = o.to_client
        /\ SameElse(q, o)
      BY <1>5, <2>1 DEF Relays, SameElse
  <2>7. SameElse(q, r)
      BY <1>5, <2>6 DEF SameElse
  <2>8. BufferOK(q)
      BY <1>5, <2>6 DEF BufferOK
  <2>9. ChunkOK(q)
    <3>1. q.chunk - 1 = r.chunk
        BY <1>1, <2>6
    <3>2. q.opened = ChunkEnd(chunks)[r.chunk] + SS2022_LENGTH_CHUNK_LEN
        BY <1>5, <2>2, <2>3, <2>6
    <3>3. Sent(chunks, r.chunk) + q.out_off = Sent(chunks, r.chunk)
        BY <1>5, <2>2, <2>6, ChunkFacts
    <3> QED
        BY <1>5, <2>2, <2>4, <2>6, <3>1, <3>2, <3>3 DEF ChunkOK
  <2>10. FrameOK(q)
      BY <1>5, <1>12, <2>6, <2>9 DEF FrameOK
  <2> QED
      BY <1>5, <1>9, <1>10, <2>5, <2>6, <2>7, <2>8, <2>10 DEF q
<1>13. CASE r.response_header_done /\ ~ r.need_len
  <2>1. /\ r.chunk \in 1 .. Len(chunks) /\ r.response_payload_len = chunks[r.chunk]
        /\ r.opened = ChunkEnd(chunks)[r.chunk - 1] + SS2022_LENGTH_CHUNK_LEN
        /\ Len(r.to_client) = Sent(chunks, r.chunk - 1) + 0
      BY <1>1, <1>3, <1>13 DEF FrameOK, ChunkOK
  <2>2. n = r.response_payload_len + TCP_SS2022_TAG_LEN
      BY <1>13 DEF n, Needed
  <2>3. /\ Sent(chunks, r.chunk - 1) \in Nat
        /\ Sent(chunks, r.chunk) = Sent(chunks, r.chunk - 1) + r.response_payload_len
        /\ ChunkEnd(chunks)[r.chunk - 1] \in Int
        /\ ChunkEnd(chunks)[r.chunk] = ChunkEnd(chunks)[r.chunk - 1] + SS2022_LENGTH_CHUNK_LEN
                                       + r.response_payload_len + TCP_SS2022_TAG_LEN
      BY <2>1, ChunkFacts
  <2>4. r.opened + n = ChunkEnd(chunks)[r.chunk] /\ r.opened + n \in Nat /\ n \in Nat
    <3>1. r.opened \in Nat /\ r.response_payload_len \in Nat /\ n \in Nat
        BY <1>1, <1>2
    <3>2. r.opened + n \in Nat
        BY <3>1
    <3>3. r.opened = ChunkEnd(chunks)[r.chunk - 1] + SS2022_LENGTH_CHUNK_LEN
        BY <2>1
    <3> HIDE DEF header, length, empty, chunk
    <3>4. r.opened + n = ChunkEnd(chunks)[r.chunk]
        BY <2>2, <2>3, <3>1, <3>3, Sizes
    <3> QED
        BY <3>1, <3>2, <3>4
  <2>5. CASE r.response_payload_len = 0
    <3>1. q = empty
        BY <1>8, <1>13, <2>5
    <3>2. q \in Relays
        BY <1>5, <3>1 DEF Relays
    <3>3. /\ q.response_header_done = o.response_header_done /\ q.need_len = TRUE
          /\ q.chunk = o.chunk
          /\ q.response_payload_len = o.response_payload_len /\ q.open = o.open
          /\ q.in = o.in /\ q.in_head = o.in_head /\ q.in_len = o.in_len
          /\ q.in_consume = o.in_consume /\ q.opened = o.opened /\ q.received = o.received
          /\ q.out_len = o.out_len /\ q.out_off = o.out_off /\ q.to_client = o.to_client
          /\ SameElse(q, o)
        BY <1>5, <3>1 DEF Relays, SameElse
    <3>4. SameElse(q, r)
        BY <1>5, <3>3 DEF SameElse
    <3>5. BufferOK(q)
        BY <1>5, <3>3 DEF BufferOK
    <3>6. ChunkOK(q)
      <4>1. Len(r.to_client) = Sent(chunks, r.chunk)
          BY <2>1, <2>3, <2>5
      <4> QED
          BY <1>5, <2>1, <2>4, <3>3, <4>1 DEF ChunkOK
    <3>7. FrameOK(q)
        BY <1>5, <1>13, <3>3, <3>6 DEF FrameOK
    <3> QED
        BY <1>5, <1>9, <1>10, <3>2, <3>3, <3>4, <3>5, <3>7 DEF q
  <2>6. CASE r.response_payload_len # 0
    <3>1. q = chunk
        BY <1>8, <1>13, <2>6
    <3>2. q \in Relays
        BY <1>1, <2>4, <3>1 DEF Relays
    <3>3. /\ q.response_header_done = r.response_header_done /\ q.need_len = TRUE
          /\ q.chunk = r.chunk
          /\ q.response_payload_len = r.response_payload_len /\ q.open = r.open
          /\ q.in = r.in /\ q.in_head = r.in_head /\ q.in_len = r.in_len
          /\ q.in_consume = n /\ q.opened = r.opened + n /\ q.received = r.received
          /\ q.out_len = r.response_payload_len /\ q.out_off = 0 /\ q.to_client = r.to_client
          /\ SameElse(q, r)
        BY <1>1, <3>1 DEF Relays, SameElse
    <3>4. BufferOK(q)
      <4>1. q.in_consume <= q.in_len /\ q.received = q.opened + q.in_len - q.in_consume
          BY <1>1, <1>2, <1>4, <3>3
      <4> QED
          BY <1>1, <3>3, <4>1 DEF BufferOK
    <3>5. q.out_len > 0 /\ q.out_len # 0 /\ q.out_off + q.out_len = q.response_payload_len
        BY <1>1, <2>6, <3>3
    <3>6. ChunkOK(q)
        BY <2>1, <2>4, <3>3, <3>5 DEF ChunkOK
    <3>7. FrameOK(q)
        BY <1>13, <2>2, <3>3, <3>5, <3>6 DEF FrameOK
    <3>8. q.in_len <= r.in_len
        BY <1>1, <3>3
    <3> QED
        BY <1>1, <1>9, <3>2, <3>3, <3>4, <3>5, <3>7, <3>8 DEF q
  <2> QED
      BY <2>5, <2>6
<1> QED
    BY <1>11, <1>12, <1>13

-----------------------------------------------------------------------------
(* The loop of tcp_relay_process_server_data.                              *)

Turned(A) == {OpenPiece(q) : q \in A}
IsLoop(f, n, r) == f = [k \in 0 .. n |-> IF k = 0 THEN {r} ELSE Turned(f[k - 1])]

LEMMA LoopTurns ==
    ASSUME NEW r, r.in_len \in Nat
    PROVE  \E f : /\ f[0] = {r}
                  /\ \A k \in 1 .. r.in_len + 1 : f[k] = Turned(f[k - 1])
                  /\ tcp_relay_process_server_data(r) = f[r.in_len + 1]
<1> DEFINE N == r.in_len + 1
           Is(f, n) == IsLoop(f, n, r)
           Bad == {n \in 0 .. N : ~ \E f : Is(f, n)}
<1>n. N \in Nat
    OBVIOUS
<1>1. Bad = {}
  <2> HIDE DEF N
  <2> SUFFICES ASSUME Bad # {} PROVE FALSE
      OBVIOUS
  <2>1. PICK n \in Bad : \A m \in Bad : n <= m
    <3>1. Bad \in SUBSET Nat
        BY <1>n
    <3> QED
        BY <3>1, LeastNat
  <2>2. CASE n = 0
    <3> DEFINE f == [k \in 0 .. 0 |-> {r}]
    <3>1. \A k \in 0 .. 0 : f[k] = IF k = 0 THEN {r} ELSE Turned(f[k - 1])
        OBVIOUS
    <3>2. f = [k \in 0 .. 0 |-> IF k = 0 THEN {r} ELSE Turned(f[k - 1])]
        BY <3>1
    <3> HIDE DEF f
    <3>3. IsLoop(f, 0, r)
        BY <3>2 DEF IsLoop
    <3> QED
        BY <2>1, <2>2, <3>3
  <2>3. CASE n # 0
    <3>1. n \in 1 .. N /\ n - 1 \in 0 .. N /\ n - 1 \notin Bad
        BY <1>n, <2>1, <2>3
    <3>2. PICK g : Is(g, n - 1)
        BY <3>1
    <3> DEFINE f == [k \in 0 .. n |-> IF k = 0 THEN {r} ELSE Turned(g[k - 1])]
    <3>3. ASSUME NEW i \in 0 .. n - 1 PROVE f[i] = g[i]
      <4>1. g = [k \in 0 .. n - 1 |-> IF k = 0 THEN {r} ELSE Turned(g[k - 1])]
          BY <3>2 DEF IsLoop
      <4>2. i \in 0 .. n
          BY <1>n, <3>1
      <4>3. g[i] = IF i = 0 THEN {r} ELSE Turned(g[i - 1])
          BY <4>1
      <4> QED
          BY <4>2, <4>3
    <3>4. \A k \in 0 .. n : f[k] = IF k = 0 THEN {r} ELSE Turned(f[k - 1])
      <4>1. \A k \in 0 .. n : f[k] = IF k = 0 THEN {r} ELSE Turned(g[k - 1])
          OBVIOUS
      <4> HIDE DEF f
      <4>2. \A k \in 0 .. n : k # 0 => f[k - 1] = g[k - 1]
          BY <1>n, <3>1, <3>3
      <4> QED
          BY <4>1, <4>2
    <3>5. f = [k \in 0 .. n |-> IF k = 0 THEN {r} ELSE Turned(f[k - 1])]
        BY <3>4
    <3> HIDE DEF f
    <3>6. IsLoop(f, n, r)
        BY <3>5 DEF IsLoop
    <3> QED
        BY <2>1, <3>6
  <2> QED
      BY <2>2, <2>3
<1>2. \E f : Is(f, N)
    BY <1>n, <1>1
<1> DEFINE f == CHOOSE g : Is(g, N)
<1>3. Is(f, N)
    BY <1>2
<1>4. tcp_relay_process_server_data(r) = f[N]
    BY DEF tcp_relay_process_server_data, IsLoop, Turned
<1> HIDE DEF f
<1>5. f = [k \in 0 .. N |-> IF k = 0 THEN {r} ELSE Turned(f[k - 1])]
    BY <1>3 DEF IsLoop
<1>6. f[0] = {r}
    BY <1>5, <1>n
<1>7. ASSUME NEW k \in 1 .. N PROVE f[k] = Turned(f[k - 1])
  <2>1. k \in 0 .. N /\ k # 0
      BY <1>n
  <2> QED
      BY <1>5, <2>1
<1> QED
    BY <1>4, <1>6, <1>7

\* The loop keeps the session in order and ends with nothing left to open: each turn
\* takes something out of the buffer, and there are more turns than bytes.
LEMMA ProcessFacts ==
    ASSUME StreamOK, NEW r, Moving(r), NEW q \in tcp_relay_process_server_data(r)
    PROVE  Moving(q) /\ Settled(q) /\ SameElse(q, r) /\ q.in_len <= r.in_len
<1>1. r \in Relays /\ r.in_len \in Nat
    BY FieldTypes DEF Moving
<1>2. PICK f : /\ f[0] = {r}
               /\ \A k \in 1 .. r.in_len + 1 : f[k] = Turned(f[k - 1])
               /\ tcp_relay_process_server_data(r) = f[r.in_len + 1]
    BY <1>1, LoopTurns
<1> DEFINE N == r.in_len + 1
           On(x, k) == /\ Moving(x) /\ SameElse(x, r) /\ x.in_len <= r.in_len
                       /\ Settled(x) \/ x.in_len + k <= r.in_len
           Bad == {k \in 0 .. N : ~ \A x \in f[k] : On(x, k)}
<1>3. \A x \in f[0] : On(x, 0)
  <2>1. On(r, 0)
      BY <1>1 DEF SameElse
  <2> QED
      BY <1>2, <2>1
<1>4. ASSUME NEW k \in 1 .. N, \A x \in f[k - 1] : On(x, k - 1), NEW y \in f[k]
      PROVE  On(y, k)
  <2>1. PICK x \in f[k - 1] : y = OpenPiece(x)
      BY <1>2 DEF Turned
  <2>2. On(x, k - 1)
      BY <1>4
  <2>3. x \in Relays /\ x.in_len \in Nat
      BY <2>2, FieldTypes DEF Moving
  <2>4. CASE Settled(x)
    <3>1. y = x
        BY <2>1, <2>4 DEF OpenPiece, Settled
    <3> QED
        BY <2>2, <2>4, <3>1
  <2>5. CASE ~ Settled(x)
    <3>1. /\ Moving(y) /\ SameElse(y, x) /\ y.in_len <= x.in_len
          /\ Settled(y) \/ y.in_len < x.in_len
        BY <2>1, <2>2, <2>5, OpenPieceFacts
    <3>2. y.in_len \in Nat
        BY <3>1, FieldTypes DEF Moving
    <3>3. SameElse(y, r)
        BY <2>2, <3>1 DEF SameElse
    <3>4. x.in_len + (k - 1) <= r.in_len /\ x.in_len <= r.in_len
        BY <2>2, <2>5
    <3>5. y.in_len <= r.in_len /\ (Settled(y) \/ y.in_len + k <= r.in_len)
        BY <1>1, <2>3, <3>1, <3>2, <3>4
    <3> QED
        BY <3>1, <3>3, <3>5
  <2> QED
      BY <2>4, <2>5
<1>5. Bad = {}
  <2> SUFFICES ASSUME Bad # {} PROVE FALSE
      OBVIOUS
  <2> HIDE DEF On
  <2>1. PICK k \in Bad : \A m \in Bad : k <= m
    <3>1. Bad \in SUBSET Nat
        BY <1>1
    <3> QED
        BY <3>1, LeastNat
  <2>2. k # 0
      BY <1>3, <2>1
  <2>3. k \in 1 .. N /\ k - 1 \in 0 .. N /\ k - 1 \notin Bad
      BY <1>1, <2>1, <2>2
  <2>4. \A x \in f[k - 1] : On(x, k - 1)
      BY <2>3
  <2> QED
      BY <1>4, <2>1, <2>3, <2>4
<1>6. On(q, N)
  <2> HIDE DEF On
  <2>1. N \in 0 .. N
      BY <1>1
  <2> QED
      BY <1>2, <1>5, <2>1
<1>7. q.in_len \in Nat
    BY <1>6, FieldTypes DEF Moving
<1> QED
    BY <1>1, <1>6, <1>7

\* Pending data is processed before a read: nothing is left to open.
LEMMA PendingFacts ==
    ASSUME StreamOK, NEW r, Moving(r), NEW q \in tcp_relay_process_pending_server_data(r)
    PROVE  Moving(q) /\ Settled(q) /\ SameElse(q, r) /\ q.in_len <= r.in_len
<1>1. r \in Relays /\ r.in_len \in Nat /\ r.out_len \in Nat /\ Needed(r) \in Nat \ {0}
    BY FieldTypes, NeededFacts DEF Moving
<1>2. CASE r.out_len # 0 \/ r.in_len = 0
  <2>1. q = r
      BY <1>2 DEF tcp_relay_process_pending_server_data
  <2>2. Settled(r)
      BY <1>1, <1>2 DEF Settled
  <2>3. SameElse(r, r) /\ r.in_len <= r.in_len
      BY <1>1 DEF SameElse
  <2> QED
      BY <2>1, <2>2, <2>3
<1>3. CASE ~ (r.out_len # 0 \/ r.in_len = 0)
    BY <1>3, ProcessFacts DEF tcp_relay_process_pending_server_data
<1> QED
    BY <1>2, <1>3

-----------------------------------------------------------------------------
(* Writing to the client.                                                  *)

\* What is sent of a chunk are the next bytes of the plain text.
Extended(r, n) ==
    r.to_client \o SubSeq(r.in, r.in_head + r.out_off + 1, r.in_head + r.out_off + n)

LEMMA PrefixGrows ==
    ASSUME StreamOK, NEW r, Moving(r), r.out_len > 0, NEW n \in 0 .. r.out_len
    PROVE  LET t == Extended(r, n) IN
           /\ t \in Seq(Int) /\ Len(t) = Len(r.to_client) + n
           /\ \A k \in 1 .. Len(t) : k <= Len(Plain(chunks)) /\ t[k] = Plain(chunks)[k]
<1> DEFINE h == r.in_head + r.out_off
           e0 == ChunkEnd(chunks)[r.chunk - 1]
           e1 == ChunkEnd(chunks)[r.chunk]
           p == e0 + SS2022_LENGTH_CHUNK_LEN + r.out_off
           b == Len(r.to_client)
           u == SubSeq(r.in, h + 1, h + n)
           t == Extended(r, n)
<1> HIDE DEF t, u, e0, e1
<1>1. /\ r \in Relays /\ BufferOK(r) /\ FrameOK(r) /\ PrefixOK(r)
      /\ r.in_len \in Nat /\ r.in_head \in Nat /\ r.out_off \in Nat /\ r.out_len \in Nat
      /\ r.opened \in Nat /\ r.received \in Nat /\ r.in_consume \in Nat
      /\ r.to_client \in Seq(Int) /\ b \in Nat /\ r.response_payload_len \in Nat
    BY FieldTypes DEF Moving
<1>t. /\ r.in_len \in Nat /\ r.in_head \in Nat /\ r.out_off \in Nat /\ r.out_len \in Nat
      /\ r.opened \in Nat /\ r.received \in Nat /\ r.in_consume \in Nat
      /\ b \in Nat /\ r.response_payload_len \in Nat
      /\ TCP_SS2022_TAG_LEN \in Nat /\ SS2022_LENGTH_CHUNK_LEN \in Nat /\ n \in Nat
    BY <1>1, Sizes
<1>2. /\ r.response_header_done /\ r.need_len /\ ChunkOK(r)
      /\ r.out_off + r.out_len = r.response_payload_len
      /\ r.in_consume = r.response_payload_len + TCP_SS2022_TAG_LEN
    BY <1>1 DEF FrameOK
<1>3. /\ r.chunk \in 1 .. Len(chunks) /\ r.response_payload_len = chunks[r.chunk]
      /\ r.opened = ChunkEnd(chunks)[r.chunk] /\ b = Sent(chunks, r.chunk - 1) + r.out_off
    BY <1>1, <1>2 DEF ChunkOK
<1>4. /\ ChunkEnd(chunks)[r.chunk - 1] \in Int
      /\ ChunkEnd(chunks)[r.chunk] = ChunkEnd(chunks)[r.chunk - 1] + SS2022_LENGTH_CHUNK_LEN
                                     + r.response_payload_len + TCP_SS2022_TAG_LEN
      /\ Sent(chunks, r.chunk - 1) \in Nat /\ Sent(chunks, r.chunk) \in Nat
      /\ Sent(chunks, r.chunk) = Sent(chunks, r.chunk - 1) + r.response_payload_len
      /\ Sent(chunks, r.chunk) <= Len(Plain(chunks))
      /\ \A k \in 1 .. r.response_payload_len : Plain(chunks)[Sent(chunks, r.chunk - 1) + k]
             = ChunkEnd(chunks)[r.chunk - 1] + SS2022_LENGTH_CHUNK_LEN + k
    BY <1>3, ChunkFacts
<1>e. /\ e0 \in Int
      /\ e1 = e0 + SS2022_LENGTH_CHUNK_LEN + r.response_payload_len + TCP_SS2022_TAG_LEN
      /\ Sent(chunks, r.chunk - 1) \in Nat
      /\ Sent(chunks, r.chunk - 1) + r.response_payload_len <= Len(Plain(chunks))
    BY <1>4 DEF e0, e1
<1>5. Len(Plain(chunks)) \in Nat
    BY PlainFacts, LenProperties DEF StreamOK
<1>6. r.received - r.in_len = e0 + SS2022_LENGTH_CHUNK_LEN
  <2>1. r.received = r.opened + r.in_len - r.in_consume
      BY <1>1 DEF BufferOK
  <2>2. r.opened = e1
      BY <1>3 DEF e1
  <2>3. r.in_consume = r.response_payload_len + TCP_SS2022_TAG_LEN
      BY <1>2
  <2>4. /\ e0 \in Int
        /\ e1 = e0 + SS2022_LENGTH_CHUNK_LEN + r.response_payload_len + TCP_SS2022_TAG_LEN
      BY <1>e
  <2>5. r.opened = e0 + SS2022_LENGTH_CHUNK_LEN + r.in_consume
      BY <1>t, <2>2, <2>3, <2>4
  <2>6. e0 + SS2022_LENGTH_CHUNK_LEN \in Int
      BY <1>t, <2>4
  <2> DEFINE x == r.received
             y == r.opened
             z == r.in_len
             w == r.in_consume
             d == e0 + SS2022_LENGTH_CHUNK_LEN
  <2>7. /\ x = y + z - w /\ y = d + w
        /\ d \in Int /\ z \in Nat /\ w \in Nat
      BY ONLY <1>t, <2>1, <2>5, <2>6
  <2> HIDE DEF x, y, z, w, d
  <2>8. x - z = d
      BY ONLY <2>7
  <2> QED
      BY ONLY <2>8 DEF x, z, d
<1>7. ASSUME NEW k \in 1 .. n
      PROVE  r.in[h + k] = p + k /\ Plain(chunks)[b + k] = p + k /\ b + k <= Len(Plain(chunks))
  <2>1. r.out_off + k \in 1 .. r.response_payload_len /\ r.out_off + k \in 1 .. r.in_len
    <3>1. r.in_consume <= r.in_len
        BY <1>1 DEF BufferOK
    <3>2. /\ r.out_off + r.out_len = r.response_payload_len
          /\ r.in_consume = r.response_payload_len + TCP_SS2022_TAG_LEN
        BY <1>2
    <3> DEFINE oo == r.out_off
               ol == r.out_len
               pl == r.response_payload_len
               il == r.in_len
               ic == r.in_consume
    <3>3. oo \in Nat /\ ol \in Nat /\ pl \in Nat /\ il \in Nat /\ n \in 0 .. ol
          /\ TCP_SS2022_TAG_LEN \in Nat
        BY ONLY <1>t, n \in 0 .. r.out_len
    <3>r. oo + ol = pl /\ ic = pl + TCP_SS2022_TAG_LEN /\ ic <= il
        BY ONLY <3>1, <3>2
    <3> HIDE DEF oo, ol, pl, il, ic
    <3>4. oo + k \in 1 .. pl
        BY ONLY <3>3, <3>r, k \in 1 .. n
    <3>5. oo + k \in 1 .. il
        BY ONLY <3>3, <3>r, <3>4
    <3> QED
        BY <3>4, <3>5 DEF oo, pl, il
  <2>2. r.in[r.in_head + (r.out_off + k)] = r.received - r.in_len + (r.out_off + k)
      BY <1>1, <2>1 DEF BufferOK
  <2>3. r.in_head + (r.out_off + k) = h + k
      BY <1>1
  <2>4. r.received - r.in_len + (r.out_off + k) = p + k
    <3> DEFINE d == r.received - r.in_len
               oo == r.out_off
    <3>1. d = e0 + SS2022_LENGTH_CHUNK_LEN /\ e0 \in Int /\ oo \in Nat
          /\ SS2022_LENGTH_CHUNK_LEN \in Nat
        BY <1>t, <1>e, <1>6
    <3>2. p = e0 + SS2022_LENGTH_CHUNK_LEN + oo
        OBVIOUS
    <3> HIDE DEF d, oo
    <3>3. d + (oo + k) = p + k
        BY ONLY <3>1, <3>2, k \in Int
    <3> QED
        BY <3>3 DEF d, oo
  <2>5. Plain(chunks)[Sent(chunks, r.chunk - 1) + (r.out_off + k)]
           = e0 + SS2022_LENGTH_CHUNK_LEN + (r.out_off + k)
      BY <1>4, <2>1 DEF e0
  <2>6. Sent(chunks, r.chunk - 1) + (r.out_off + k) = b + k
    <3>1. b = Sent(chunks, r.chunk - 1) + r.out_off
        BY <1>3
    <3> DEFINE x == Sent(chunks, r.chunk - 1)
               y == r.out_off
    <3>2. b = x + y /\ x \in Nat /\ y \in Nat
        BY ONLY <1>t, <1>e, <3>1
    <3> HIDE DEF b, x, y
    <3>3. x + (y + k) = b + k
        BY ONLY <3>2, k \in Int
    <3> QED
        BY ONLY <3>3 DEF x, y
  <2>7. e0 + SS2022_LENGTH_CHUNK_LEN + (r.out_off + k) = p + k
    <3> DEFINE y == r.out_off
    <3>1. p = e0 + SS2022_LENGTH_CHUNK_LEN + y
        OBVIOUS
    <3>2. e0 \in Int /\ SS2022_LENGTH_CHUNK_LEN \in Nat /\ y \in Nat
        BY ONLY <1>t, <1>e
    <3> HIDE DEF y, p
    <3>3. e0 + SS2022_LENGTH_CHUNK_LEN + (y + k) = p + k
        BY ONLY <3>1, <3>2, k \in Int
    <3> QED
        BY ONLY <3>3 DEF y
  <2>8. b + k <= Len(Plain(chunks))
    <3>1. b = Sent(chunks, r.chunk - 1) + r.out_off
        BY <1>3
    <3> DEFINE oo == r.out_off
               pl == r.response_payload_len
               st == Sent(chunks, r.chunk - 1)
               all == Len(Plain(chunks))
    <3>2. /\ b = st + oo /\ oo \in Nat /\ st \in Nat /\ all \in Nat /\ pl \in Nat
          /\ st + pl <= all /\ oo + k <= pl
        BY <1>t, <1>e, <1>5, <2>1, <3>1
    <3> HIDE DEF oo, pl, st, all
    <3>3. b + k <= all
        BY <3>2
    <3> QED
        BY <3>3 DEF all
  <2> QED
      BY <2>2, <2>3, <2>4, <2>5, <2>6, <2>7, <2>8
<1>8. h \in Nat /\ p \in Int /\ n \in Nat
  <2> DEFINE x == r.in_head
             y == r.out_off
  <2>1. /\ x \in Nat /\ y \in Nat /\ n \in Nat /\ e0 \in Int /\ SS2022_LENGTH_CHUNK_LEN \in Nat
        /\ h = x + y /\ p = e0 + SS2022_LENGTH_CHUNK_LEN + y
      BY ONLY <1>t, <1>e
  <2> HIDE DEF x, y, h, p
  <2> QED
      BY ONLY <2>1
<1> DEFINE f == r.in
           v == r.to_client
           w == Plain(chunks)
<1>9. /\ t = v \o u /\ u = SubSeq(f, h + 1, h + n) /\ v \in Seq(Int) /\ b = Len(v)
      /\ \A k \in 1 .. n : f[h + k] = p + k /\ w[b + k] = p + k /\ b + k <= Len(w)
      /\ \A k \in 1 .. b : k <= Len(w) /\ v[k] = w[k]
    BY <1>1, <1>7 DEF PrefixOK, Extended, t, u
<1> HIDE DEF f, v, w, h, p, b
<1>10. u \in Seq(Int) /\ Len(u) = n /\ \A k \in 1 .. n : u[k] = p + k
  <2>1. u = Positions(p + 1, p + n)
      BY <1>8, <1>9, InOrderIsAuthentic
  <2>2. (p + n) - (p + 1) + 1 = n /\ \A k \in 1 .. n : (p + 1) + k - 1 = p + k /\ p + k \in Int
      BY <1>8
  <2>3. u = [k \in 1 .. n |-> p + k]
      BY <2>1, <2>2 DEF Positions
  <2> QED
      BY <1>8, <2>2, <2>3
<1>11. /\ t \in Seq(Int) /\ Len(t) = b + n
       /\ \A k \in 1 .. b + n : t[k] = IF k <= b THEN v[k] ELSE u[k - b]
  <2>1. /\ v \o u \in Seq(Int) /\ Len(v \o u) = Len(v) + Len(u)
        /\ \A k \in 1 .. Len(v) + Len(u) : (v \o u)[k] = IF k <= Len(v) THEN v[k] ELSE u[k - Len(v)]
    <3>1. v \in Seq(Int) /\ u \in Seq(Int)
        BY <1>9, <1>10
    <3> QED
        BY <3>1, ConcatProperties
  <2> QED
      BY <1>9, <1>10, <2>1
<1>12. ASSUME NEW k \in 1 .. b + n PROVE k <= Len(w) /\ t[k] = w[k]
  <2>1. b \in Nat
      BY <1>t
  <2>2. CASE k <= b
    <3>1. k \in 1 .. b
        BY <2>1, <2>2
    <3> QED
        BY <1>9, <1>11, <2>2, <3>1
  <2>3. CASE ~ (k <= b)
    <3>1. k - b \in 1 .. n /\ b + (k - b) = k
        BY <1>8, <2>1, <2>3
    <3>2. t[k] = p + (k - b)
        BY <1>10, <1>11, <2>3, <3>1
    <3> QED
        BY <1>9, <3>1, <3>2
  <2> QED
      BY <2>2, <2>3
<1> QED
    BY <1>11, <1>12 DEF b, w, t

\* The buffer of the direction to the server.
SameC2s(q, r) == q.c2s = r.c2s /\ q.c2s_off = r.c2s_off /\ q.c2s_len = r.c2s_len

\* The fields that only the direction to the client uses.
SameDown(q, r) ==
    /\ q.response_header_done = r.response_header_done
    /\ q.response_payload_len = r.response_payload_len
    /\ q.in = r.in /\ q.in_head = r.in_head /\ q.in_len = r.in_len
    /\ q.need_len = r.need_len /\ q.out_off = r.out_off /\ q.out_len = r.out_len
    /\ q.in_consume = r.in_consume /\ q.opened = r.opened /\ q.chunk = r.chunk
    /\ q.received = r.received /\ q.to_client = r.to_client

LEMMA DownFacts ==
    ASSUME NEW q, NEW r, SameDown(q, r), BufferOK(r), FrameOK(r), PrefixOK(r)
    PROVE  BufferOK(q) /\ FrameOK(q) /\ PrefixOK(q) /\ (Settled(r) => Settled(q))
<1>1. BufferOK(q)
    BY DEF SameDown, BufferOK
<1>2. FrameOK(q)
    BY DEF SameDown, FrameOK, HeaderOK, ChunkOK
<1>3. PrefixOK(q)
    BY DEF SameDown, PrefixOK
<1>4. Settled(r) => Settled(q)
    BY DEF SameDown, Settled, Needed
<1> QED
    BY <1>1, <1>2, <1>3, <1>4

\* tcp_relay_write_to_client, whether the send takes a part or all of the chunk.
LEMMA WriteToClientFacts ==
    ASSUME StreamOK, NEW r, Moving(r), r.out_len > 0, NEW q \in tcp_relay_write_to_client(r)
    PROVE  Moving(q) /\ SameElse(q, r) /\ q.in_len <= r.in_len
<1>1. /\ r \in Relays /\ r.open = "open" /\ BufferOK(r) /\ FrameOK(r) /\ PrefixOK(r)
      /\ r.response_header_done \in BOOLEAN /\ r.need_len \in BOOLEAN
    BY FieldTypes DEF Moving
<1>t. /\ r.in_len \in Nat /\ r.in_head \in Nat /\ r.out_off \in Nat /\ r.out_len \in Nat
      /\ r.opened \in Nat /\ r.received \in Nat /\ r.in_consume \in Nat
      /\ r.response_payload_len \in Nat /\ Len(r.to_client) \in Nat
      /\ TCP_SS2022_TAG_LEN \in Nat \ {0}
    BY <1>1, FieldTypes, Sizes
<1>2. /\ r.response_header_done /\ r.need_len /\ ChunkOK(r)
      /\ r.out_off + r.out_len = r.response_payload_len
      /\ r.in_consume = r.response_payload_len + TCP_SS2022_TAG_LEN
    BY <1>1 DEF FrameOK
<1>3. /\ r.chunk \in 1 .. Len(chunks) /\ r.response_payload_len = chunks[r.chunk]
      /\ r.opened = ChunkEnd(chunks)[r.chunk]
      /\ Len(r.to_client) = Sent(chunks, r.chunk - 1) + r.out_off
    BY <1>2, <1>t DEF ChunkOK
<1>4. /\ Sent(chunks, r.chunk - 1) \in Nat
      /\ Sent(chunks, r.chunk) = Sent(chunks, r.chunk - 1) + r.response_payload_len
    BY <1>3, ChunkFacts
<1> DEFINE Off(n) == IF n = r.out_len THEN 0 ELSE r.out_off + n
           After(n) == [r EXCEPT !.out_len = r.out_len - n, !.out_off = Off(n),
                                 !.to_client = Extended(r, n)]
<1>5. PICK n \in 0 .. r.out_len :
        q = IF After(n).out_len = 0 /\ After(n).in_consume > 0
            THEN [tcp_buf_consume(After(n), After(n).in_consume) EXCEPT !.in_consume = 0]
            ELSE After(n)
    BY DEF tcp_relay_write_to_client, Extended
<1> DEFINE a == After(n)
           t == Extended(r, n)
<1>6. /\ t \in Seq(Int) /\ Len(t) = Len(r.to_client) + n
      /\ \A k \in 1 .. Len(t) : k <= Len(Plain(chunks)) /\ t[k] = Plain(chunks)[k]
    BY PrefixGrows
<1>7. /\ Off(n) \in Nat /\ r.out_len - n \in Nat /\ n \in Nat
  <2> DEFINE x == r.out_len
             y == r.out_off
  <2>1. x \in Nat /\ y \in Nat /\ n \in 0 .. x
      BY ONLY <1>t, n \in 0 .. r.out_len
  <2> HIDE DEF x, y
  <2>2. (IF n = x THEN 0 ELSE y + n) \in Nat /\ x - n \in Nat /\ n \in Nat
      BY ONLY <2>1
  <2> QED
      BY ONLY <2>2 DEF x, y
<1> HIDE DEF t, Off
<1>8. a \in Relays
  <2>1. a = [r EXCEPT !.out_len = r.out_len - n, !.out_off = Off(n), !.to_client = t]
      BY DEF t
  <2> HIDE DEF a
  <2> QED
      BY <1>1, <1>6, <1>7, <2>1 DEF Relays
<1>9. /\ a.out_len = r.out_len - n /\ a.out_off = Off(n) /\ a.to_client = t
      /\ a.response_header_done = r.response_header_done
      /\ a.response_payload_len = r.response_payload_len /\ a.open = r.open
      /\ a.in = r.in /\ a.in_head = r.in_head /\ a.in_len = r.in_len
      /\ a.need_len = r.need_len /\ a.in_consume = r.in_consume
      /\ a.opened = r.opened /\ a.chunk = r.chunk /\ a.received = r.received
      /\ SameElse(a, r)
  <2>1. a = [r EXCEPT !.out_len = r.out_len - n, !.out_off = Off(n), !.to_client = t]
      BY DEF t
  <2> HIDE DEF a
  <2> QED
      BY <1>1, <2>1 DEF Relays, SameElse
<1> HIDE DEF a, After
<1>10. CASE n # r.out_len
  <2>1. a.out_len > 0 /\ a.out_len # 0
    <3> DEFINE x == r.out_len
    <3>1. x \in Nat /\ n \in 0 .. x /\ n # x
        BY ONLY <1>t, <1>10, n \in 0 .. r.out_len
    <3>2. a.out_len = x - n
        BY ONLY <1>9
    <3> HIDE DEF x
    <3>3. x - n > 0 /\ x - n # 0
        BY ONLY <3>1
    <3> QED
        BY ONLY <3>2, <3>3
  <2>2. q = a
      BY <1>5, <2>1 DEF a
  <2>3. BufferOK(a)
      BY <1>1, <1>9 DEF BufferOK
  <2>4. Off(n) = r.out_off + n
      BY <1>10 DEF Off
  <2>5. a.out_off + a.out_len = a.response_payload_len
    <3> DEFINE x == r.out_len
               y == r.out_off
               z == r.response_payload_len
    <3>1. x \in Nat /\ y \in Nat /\ n \in Nat /\ y + x = z
        BY ONLY <1>t, <1>2, <1>7
    <3>2. a.out_off = y + n /\ a.out_len = x - n /\ a.response_payload_len = z
        BY ONLY <1>9, <2>4
    <3> HIDE DEF x, y, z
    <3>3. (y + n) + (x - n) = z
        BY ONLY <3>1
    <3> QED
        BY ONLY <3>2, <3>3
  <2>6. Len(a.to_client) = Sent(chunks, a.chunk - 1) + a.out_off
    <3>1. Len(t) = (Sent(chunks, r.chunk - 1) + r.out_off) + n
        BY <1>3, <1>6
    <3>2. (Sent(chunks, r.chunk - 1) + r.out_off) + n = Sent(chunks, r.chunk - 1) + (r.out_off + n)
        BY <1>t, <1>4, <1>7
    <3> QED
        BY <1>9, <2>4, <3>1, <3>2
  <2>7. ChunkOK(a)
      BY <1>2, <1>3, <1>9, <2>1, <2>6 DEF ChunkOK
  <2>8. FrameOK(a)
      BY <1>2, <1>9, <2>1, <2>5, <2>7 DEF FrameOK
  <2>9. PrefixOK(a)
      BY <1>6, <1>9 DEF PrefixOK
  <2>10. a.in_len <= r.in_len
      BY <1>t, <1>9
  <2> QED
      BY <1>1, <1>8, <1>9, <2>2, <2>3, <2>8, <2>9, <2>10 DEF Moving
<1>11. CASE n = r.out_len
  <2>1. a.out_len = 0 /\ a.out_off = 0 /\ a.in_consume > 0 /\ a.in_consume = r.in_consume
      BY <1>t, <1>2, <1>9, <1>11 DEF Off
  <2> DEFINE o == tcp_buf_consume(a, a.in_consume)
  <2>2. q = [o EXCEPT !.in_consume = 0]
      BY <1>5, <2>1 DEF a
  <2>3. r.in_consume <= r.in_len /\ r.in_head + r.in_len <= TCP_SS_RESP_IN_BUFSIZ
      BY <1>1 DEF BufferOK
  <2>4. a.in_consume \in 0 .. a.in_len /\ a.in_head + a.in_len <= TCP_SS_RESP_IN_BUFSIZ
      BY <1>t, <1>9, <2>3
  <2>5. /\ o \in Relays /\ o.in_len = a.in_len - a.in_consume
        /\ o.in_head + o.in_len <= TCP_SS_RESP_IN_BUFSIZ
        /\ o.in = a.in
        /\ \A k \in 1 .. o.in_len : o.in_head + k = a.in_head + a.in_consume + k
        /\ SameElse(o, a) /\ o.open = a.open
        /\ o.response_header_done = a.response_header_done
        /\ o.response_payload_len = a.response_payload_len
        /\ o.need_len = a.need_len /\ o.out_off = a.out_off /\ o.out_len = a.out_len
        /\ o.opened = a.opened /\ o.chunk = a.chunk
        /\ o.to_client = a.to_client
      BY <1>8, <2>4, ConsumeFacts
  <2> HIDE DEF o
  <2>6. q \in Relays
      BY <2>2, <2>5 DEF Relays
  <2>7. /\ q.in_consume = 0 /\ q.in_len = o.in_len /\ q.in_head = o.in_head /\ q.in = o.in
        /\ SameElse(q, o) /\ q.open = o.open
        /\ q.response_header_done = o.response_header_done
        /\ q.response_payload_len = o.response_payload_len
        /\ q.need_len = o.need_len /\ q.out_off = o.out_off /\ q.out_len = o.out_len
        /\ q.opened = o.opened /\ q.chunk = o.chunk
        /\ q.to_client = o.to_client
      BY <2>2, <2>5 DEF Relays, SameElse
  <2>8. SameElse(q, r)
      BY <1>9, <2>5, <2>7 DEF SameElse
  <2>9. q.in_len = r.in_len - r.in_consume /\ q.received = r.received
      BY <1>9, <2>5, <2>7, <2>8 DEF SameElse
  <2>10. BufferOK(q)
    <3>1. /\ r.received = r.opened + r.in_len - r.in_consume /\ r.received <= cut
          /\ \A k \in 1 .. r.in_len : r.in[r.in_head + k] = r.received - r.in_len + k
        BY <1>1 DEF BufferOK
    <3>2. ASSUME NEW k \in 1 .. q.in_len
          PROVE  q.in[q.in_head + k] = q.received - q.in_len + k
      <4> DEFINE x == r.in_len
                 y == r.in_consume
                 z == r.in_head
                 w == r.received
      <4>t. x \in Nat /\ y \in Nat /\ z \in Nat /\ w \in Nat /\ y <= x /\ k \in 1 .. x - y
          BY ONLY <1>t, <2>3, <2>9, k \in 1 .. q.in_len
      <4>n. q.in_len = x - y /\ q.received = w
          BY ONLY <2>9
      <4>h. q.in_head + k = z + y + k
        <5>1. k \in 1 .. o.in_len
            BY ONLY <2>7, k \in 1 .. q.in_len
        <5> QED
            BY ONLY <1>9, <2>5, <2>7, <5>1
      <4>r. \A j \in 1 .. x : r.in[z + j] = w - x + j
          BY ONLY <3>1
      <4>i. q.in = r.in
          BY ONLY <1>9, <2>5, <2>7
      <4> HIDE DEF x, y, z, w
      <4>1. /\ y + k \in 1 .. x /\ z + y + k = z + (y + k)
            /\ w - x + (y + k) = w - (x - y) + k
          BY ONLY <4>t
      <4>2. q.in[q.in_head + k] = w - x + (y + k)
          BY ONLY <4>h, <4>i, <4>r, <4>1
      <4> QED
          BY ONLY <4>n, <4>1, <4>2
    <3>3. q.in_consume <= q.in_len
        BY <1>t, <2>3, <2>7, <2>9
    <3>4. q.opened = r.opened
        BY <1>9, <2>5, <2>7
    <3>5. q.received = q.opened + q.in_len - q.in_consume
        BY <1>t, <2>7, <2>9, <3>1, <3>4
    <3> QED
        BY <2>5, <2>7, <2>9, <3>1, <3>2, <3>3, <3>5 DEF BufferOK
  <2>11. q.out_len = 0 /\ q.out_off = 0 /\ q.need_len = r.need_len
         /\ q.response_header_done = r.response_header_done /\ q.chunk = r.chunk
         /\ q.response_payload_len = r.response_payload_len /\ q.opened = r.opened
         /\ q.to_client = t
      BY <1>9, <2>1, <2>5, <2>7
  <2>12. Len(t) = Sent(chunks, r.chunk)
    <3> DEFINE s0 == Sent(chunks, r.chunk - 1)
    <3>1. s0 \in Nat /\ Len(t) = (s0 + r.out_off) + r.out_len
        BY <1>3, <1>4, <1>6, <1>11
    <3>2. r.out_off + r.out_len = r.response_payload_len
        BY <1>2
    <3>3. Sent(chunks, r.chunk) = s0 + r.response_payload_len
        BY <1>4
    <3> HIDE DEF s0
    <3>4. (s0 + r.out_off) + r.out_len = s0 + r.response_payload_len
      <4>1. s0 \in Nat /\ r.out_off \in Nat /\ r.out_len \in Nat
          BY <1>t, <3>1
      <4>2. (s0 + r.out_off) + r.out_len = s0 + (r.out_off + r.out_len)
          BY <4>1
      <4> QED
          BY <3>2, <4>2
    <3> QED
        BY <3>1, <3>3, <3>4
  <2>13. ChunkOK(q)
      BY <1>2, <1>3, <2>11, <2>12 DEF ChunkOK
  <2>14. FrameOK(q)
      BY <1>2, <2>7, <2>11, <2>13 DEF FrameOK
  <2>15. PrefixOK(q)
      BY <1>6, <2>11 DEF PrefixOK
  <2>16. q.in_len <= r.in_len /\ q.open = "open"
      BY <1>1, <1>t, <1>9, <2>5, <2>7, <2>9
  <2> QED
      BY <2>6, <2>8, <2>10, <2>14, <2>15, <2>16 DEF Moving
<1> QED
    BY <1>10, <1>11

-----------------------------------------------------------------------------
(* The direction to the server, and the reads.                             *)

\* What is sealed was sent or waits in the buffer, in order, and the server is told of
\* the client's end when nothing waits any more.
SealedOK(sent, buf, off, len) ==
    /\ \A k \in 1 .. Len(sent) : sent[k] = k
    /\ \A k \in 1 .. len : buf[off + k] = Len(sent) + k
UpOK(r) ==
    /\ SealedOK(r.to_server, r.c2s, r.c2s_off, r.c2s_len)
    /\ r.sealed = Len(r.to_server) + r.c2s_len
    /\ r.server_shutdown_sent => r.client_eof /\ r.c2s_len = 0

\* The end of the stream was seen where a chunk ends, with nothing left in the buffer.
EndOK(r) ==
    /\ r.server_eof => /\ r.received = cut /\ r.in_len = 0
                       /\ \E i \in 1 .. Len(chunks) : cut = ChunkEnd(chunks)[i]
    /\ r.client_shutdown_sent => r.server_eof

LEMMA ElseFacts ==
    ASSUME NEW q, NEW r, q \in Relays, r \in Relays, SameElse(q, r), q.in_len <= r.in_len
    PROVE  /\ UpOK(r) => UpOK(q)
           /\ EndOK(r) => EndOK(q)
<1>1. q.in_len \in Nat /\ r.in_len \in Nat
    BY FieldTypes
<1>2. r.in_len = 0 => q.in_len = 0
    BY <1>1
<1>3. UpOK(r) => UpOK(q)
    BY DEF SameElse, UpOK
<1> QED
    BY <1>2, <1>3 DEF SameElse, EndOK

LEMMA UpSame ==
    ASSUME NEW q, NEW r, UpOK(r), SameC2s(q, r), q.to_server = r.to_server, q.sealed = r.sealed,
           q.server_shutdown_sent => q.client_eof /\ q.c2s_len = 0
    PROVE  UpOK(q)
BY DEF UpOK, SameC2s

\* A send that takes the n next bytes of the buffer and leaves m.
LEMMA SendMore ==
    ASSUME NEW sent \in Seq(Int), NEW buf, NEW off \in Nat, NEW n \in Nat,
           NEW m, m \in Nat, SealedOK(sent, buf, off, n + m)
    PROVE  LET more == sent \o SubSeq(buf, off + 1, off + n) IN
           /\ more \in Seq(Int) /\ Len(more) = Len(sent) + n
           /\ SealedOK(more, buf, off + n, m)
<1> DEFINE l == Len(sent)
           p == SubSeq(buf, off + 1, off + n)
           more == sent \o p
<1>1. /\ l \in Nat
      /\ \A k \in 1 .. l : sent[k] = k
      /\ \A k \in 1 .. n + m : buf[off + k] = l + k
    BY LenProperties DEF SealedOK
<1> HIDE DEF l
<1>2. SubSeq(buf, off + 1, off + n) = Positions(l + 1, l + n)
  <2> l \in Int
      BY <1>1
  <2>1. \A k \in 1 .. n : k \in 1 .. n + m
      OBVIOUS
  <2>2. \A k \in 1 .. n : buf[off + k] = l + k
      BY <1>1, <2>1
  <2> QED
      BY ONLY l \in Int, <2>2, InOrderIsAuthentic
<1>p. p = Positions(l + 1, l + n)
    BY <1>2
<1> HIDE DEF p
<1>3. p = [k \in 1 .. n |-> l + k]
  <2> DEFINE a == l + 1
             b == l + n
  <2>1. b - a + 1 = n /\ \A k \in 1 .. n : a + k - 1 = l + k
      BY <1>1
  <2>2. p = Positions(a, b)
      BY <1>p
  <2> HIDE DEF a, b
  <2> QED
      BY <2>1, <2>2 DEF Positions
<1>4. p \in Seq(Int) /\ Len(p) = n /\ \A k \in 1 .. n : p[k] = l + k
    BY <1>1, <1>3
<1>5. /\ more \in Seq(Int) /\ Len(more) = l + n
      /\ \A k \in 1 .. l + n : more[k] = IF k <= l THEN sent[k] ELSE p[k - l]
    BY <1>4, ConcatProperties DEF l
<1> HIDE DEF more
<1>6. ASSUME NEW k \in 1 .. l + n PROVE more[k] = k
  <2>1. CASE k <= l
    <3>1. k \in 1 .. l
        BY <1>1, <2>1
    <3> QED
        BY <1>1, <1>5, <2>1, <3>1
  <2>2. CASE ~ (k <= l)
    <3>1. k - l \in 1 .. n /\ l + (k - l) = k
        BY <1>1, <2>2
    <3> QED
        BY <1>4, <1>5, <2>2, <3>1
  <2> QED
      BY <2>1, <2>2
<1>7. ASSUME NEW k \in 1 .. m PROVE buf[off + n + k] = l + n + k
  <2>1. n + k \in 1 .. n + m /\ off + (n + k) = off + n + k /\ l + (n + k) = l + n + k
      BY <1>1
  <2>2. buf[off + (n + k)] = l + (n + k)
      BY <1>1, <2>1
  <2> QED
      BY <2>1, <2>2
<1>8. SealedOK(more, buf, off + n, m)
    BY <1>5, <1>6, <1>7 DEF SealedOK
<1> QED
    BY <1>5, <1>8 DEF more, p, l

LEMMA WriteToServerFacts ==
    ASSUME NEW r, Moving(r), UpOK(r), EndOK(r), NEW q \in tcp_relay_write_to_server(r)
    PROVE  /\ Moving(q) /\ UpOK(q) /\ EndOK(q) /\ SameDown(q, r)
           /\ q.server_eof = r.server_eof /\ q.client_eof = r.client_eof
<1>1. PICK n \in 0 .. r.c2s_len :
         q = [r EXCEPT !.c2s_len = r.c2s_len - n,
                       !.c2s_off = IF n = r.c2s_len THEN 0 ELSE r.c2s_off + n,
                       !.to_server = r.to_server \o SubSeq(r.c2s, r.c2s_off + 1, r.c2s_off + n)]
    BY DEF tcp_relay_write_to_server
<1> DEFINE more == r.to_server \o SubSeq(r.c2s, r.c2s_off + 1, r.c2s_off + n)
           off == IF n = r.c2s_len THEN 0 ELSE r.c2s_off + n
           left == r.c2s_len - n
<1>2. /\ r \in Relays /\ r.c2s_len \in Nat /\ r.c2s_off \in Nat /\ r.sealed \in Nat
      /\ r.to_server \in Seq(Int) /\ Len(r.to_server) \in Nat
    BY FieldTypes DEF Moving
<1>u. /\ SealedOK(r.to_server, r.c2s, r.c2s_off, r.c2s_len)
      /\ r.sealed = Len(r.to_server) + r.c2s_len
      /\ r.server_shutdown_sent => r.client_eof /\ r.c2s_len = 0
    BY DEF UpOK
<1>3. /\ more \in Seq(Int) /\ Len(more) = Len(r.to_server) + n
      /\ SealedOK(more, r.c2s, r.c2s_off + n, left)
  <2>1. n \in Nat /\ left \in Nat /\ n + left = r.c2s_len
      BY <1>2
  <2> HIDE DEF left
  <2>2. SealedOK(r.to_server, r.c2s, r.c2s_off, n + left)
      BY <1>u, <2>1
  <2> QED
      BY <1>2, <2>1, <2>2, SendMore
<1>o. left \in Nat /\ off \in Nat /\ (n = r.c2s_len <=> left = 0)
    BY <1>2
<1>q. q = [r EXCEPT !.c2s_len = left, !.c2s_off = off, !.to_server = more]
    BY <1>1
<1>s. SealedOK(more, r.c2s, off, left)
  <2>1. CASE n = r.c2s_len
    <3>1. left = 0
        BY <1>o, <2>1
    <3> HIDE DEF left, off, more
    <3> QED
        BY <1>3, <3>1 DEF SealedOK
  <2>2. CASE n # r.c2s_len
      BY <1>3, <2>2
  <2> QED
      BY <2>1, <2>2
<1>l. r.sealed = Len(more) + left /\ (r.c2s_len = 0 => left = 0)
  <2> DEFINE m == Len(more)
             l == Len(r.to_server)
             k == r.c2s_len
  <2>1. m = l + n /\ l \in Nat /\ r.sealed = l + k /\ k \in Nat /\ n \in 0 .. k
      BY <1>2, <1>3, <1>u
  <2>2. left = k - n
      OBVIOUS
  <2> HIDE DEF m, l, k, left
  <2>3. r.sealed = m + left /\ (k = 0 => left = 0)
      BY ONLY <2>1, <2>2
  <2> QED
      BY <2>3 DEF m, k
<1> HIDE DEF more, off, left
<1>4. q \in Relays
    BY ONLY <1>q, <1>2, <1>3, <1>o DEF Relays
<1>5. /\ SameDown(q, r) /\ q.open = r.open
      /\ q.server_eof = r.server_eof /\ q.client_eof = r.client_eof
      /\ q.client_shutdown_sent = r.client_shutdown_sent
      /\ q.server_shutdown_sent = r.server_shutdown_sent
      /\ q.sealed = r.sealed /\ q.to_server = more /\ q.c2s = r.c2s
      /\ q.c2s_off = off /\ q.c2s_len = left
    BY <1>q, <1>2 DEF Relays, SameDown
<1>6. Moving(q)
    BY <1>4, <1>5, DownFacts DEF Moving
<1>7. UpOK(q)
    BY <1>5, <1>s, <1>l, <1>u DEF UpOK
<1>8. EndOK(q)
    BY <1>5 DEF EndOK, SameDown
<1> QED
    BY <1>5, <1>6, <1>7, <1>8

LEMMA ReadFromClientFacts ==
    ASSUME NEW r, Moving(r), UpOK(r), EndOK(r), ~ r.client_eof, r.c2s_len = 0,
           NEW q \in tcp_relay_read_from_client(r)
    PROVE  Moving(q) /\ UpOK(q) /\ EndOK(q) /\ SameDown(q, r)
<1>1. /\ r \in Relays /\ r.sealed \in Nat /\ Len(r.to_server) \in Nat
      /\ r.from_client \in Nat /\ r.server_shutdown_sent \in BOOLEAN
    BY FieldTypes DEF Moving
<1>2. /\ \A k \in 1 .. Len(r.to_server) : r.to_server[k] = k
      /\ r.sealed = Len(r.to_server) + 0 /\ ~ r.server_shutdown_sent
    BY DEF UpOK, SealedOK
<1>3. CASE q = r
    BY <1>3 DEF SameDown
<1>4. CASE q = [r EXCEPT !.client_eof = TRUE]
  <2>1. q \in Relays
      BY <1>1, <1>4 DEF Relays
  <2>2. /\ SameDown(q, r) /\ q.open = r.open
        /\ q.server_eof = r.server_eof
        /\ q.client_shutdown_sent = r.client_shutdown_sent
        /\ q.server_shutdown_sent = r.server_shutdown_sent
        /\ q.sealed = r.sealed /\ q.to_server = r.to_server /\ SameC2s(q, r)
      BY <1>1, <1>4 DEF Relays, SameDown, SameC2s
  <2>3. Moving(q)
      BY <2>1, <2>2, DownFacts DEF Moving
  <2>4. UpOK(q)
      BY <1>2, <2>2, UpSame
  <2>5. EndOK(q)
      BY <2>2 DEF EndOK, SameDown
  <2> QED
      BY <2>2, <2>3, <2>4, <2>5
<1>5. ASSUME NEW n \in Nat, NEW x \in Nat,
             q = [r EXCEPT !.from_client = r.from_client + n, !.c2s_off = 0, !.c2s_len = x,
                           !.c2s = Positions(r.sealed + 1, r.sealed + x),
                           !.sealed = r.sealed + x]
      PROVE  Moving(q) /\ UpOK(q) /\ EndOK(q) /\ SameDown(q, r)
  <2> DEFINE buf == Positions(r.sealed + 1, r.sealed + x)
             y == r.from_client + n
             z == r.sealed + x
  <2>1. y \in Nat /\ z \in Nat
      BY <1>1
  <2>b. buf \in Seq(Int) /\ \A k \in 1 .. x : buf[0 + k] = r.sealed + k
    <3>1. (r.sealed + x) - (r.sealed + 1) + 1 = x
          /\ \A k \in 1 .. x : (r.sealed + 1) + k - 1 = r.sealed + k /\ 0 + k = k
        BY <1>1
    <3>2. buf = [k \in 1 .. x |-> r.sealed + k]
        BY <3>1 DEF Positions
    <3> HIDE DEF buf
    <3> QED
        BY <1>1, <3>1, <3>2
  <2>q. q = [r EXCEPT !.from_client = y, !.c2s_off = 0, !.c2s_len = x, !.c2s = buf, !.sealed = z]
      BY <1>5
  <2>z. z = Len(r.to_server) + x /\ r.sealed = Len(r.to_server)
    <3> DEFINE l == Len(r.to_server)
    <3>1. l \in Nat /\ r.sealed = l + 0
        BY <1>1, <1>2
    <3> HIDE DEF l
    <3> QED
        BY <3>1 DEF l
  <2> HIDE DEF buf, y, z
  <2>2. q \in Relays
      BY ONLY <2>q, <1>1, <2>1, <2>b, x \in Nat DEF Relays
  <2>3. /\ SameDown(q, r) /\ q.open = r.open
        /\ q.server_eof = r.server_eof
        /\ q.client_shutdown_sent = r.client_shutdown_sent
        /\ q.server_shutdown_sent = r.server_shutdown_sent
        /\ q.sealed = z /\ q.to_server = r.to_server
        /\ q.c2s = buf /\ q.c2s_off = 0 /\ q.c2s_len = x
      BY <1>1, <2>q DEF Relays, SameDown
  <2>4. Moving(q)
      BY <2>2, <2>3, DownFacts DEF Moving
  <2>5. SealedOK(r.to_server, buf, 0, x)
      BY <1>2, <2>b, <2>z DEF SealedOK
  <2>6. UpOK(q)
      BY <1>2, <2>3, <2>5, <2>z DEF UpOK
  <2>7. EndOK(q)
      BY <2>3 DEF EndOK, SameDown
  <2> QED
      BY <2>3, <2>4, <2>6, <2>7
<1>6. CASE \E n \in 1 .. Min({TCP_SS_PLAIN_BUFSIZ, ClientBytes - r.from_client}) :
             LET cipher == SS2022_LENGTH_CHUNK_LEN + n + TCP_SS2022_TAG_LEN
             IN  q = [r EXCEPT !.from_client = r.from_client + n, !.c2s_off = 0,
                               !.c2s_len = cipher,
                               !.c2s = Positions(r.sealed + 1, r.sealed + cipher),
                               !.sealed = r.sealed + cipher]
  <2>1. PICK n \in 1 .. Min({TCP_SS_PLAIN_BUFSIZ, ClientBytes - r.from_client}) :
             LET cipher == SS2022_LENGTH_CHUNK_LEN + n + TCP_SS2022_TAG_LEN
             IN  q = [r EXCEPT !.from_client = r.from_client + n, !.c2s_off = 0,
                               !.c2s_len = cipher,
                               !.c2s = Positions(r.sealed + 1, r.sealed + cipher),
                               !.sealed = r.sealed + cipher]
      BY <1>6
  <2> DEFINE x == SS2022_LENGTH_CHUNK_LEN + n + TCP_SS2022_TAG_LEN
  <2>2. n \in Nat /\ x \in Nat
      BY Sizes
  <2>3. q = [r EXCEPT !.from_client = r.from_client + n, !.c2s_off = 0, !.c2s_len = x,
                      !.c2s = Positions(r.sealed + 1, r.sealed + x),
                      !.sealed = r.sealed + x]
      BY <2>1
  <2> HIDE DEF x
  <2> QED
      BY <1>5, <2>2, <2>3
<1> QED
    BY <1>3, <1>4, <1>6 DEF tcp_relay_read_from_client

\* The data is moved, nothing else changes.
LEMMA CompactFacts ==
    ASSUME NEW r, Moving(r)
    PROVE  LET q == tcp_relay_compact_server_input(r) IN
           /\ Moving(q) /\ SameElse(q, r) /\ q.in_len = r.in_len /\ q.out_len = r.out_len
           /\ Settled(r) => Settled(q)
           /\ r.in_len < TCP_SS_RESP_IN_BUFSIZ => TCP_SS_RESP_IN_BUFSIZ - q.in_head - q.in_len > 0
           /\ TCP_SS_RESP_IN_BUFSIZ - q.in_head - q.in_len \in Nat
<1> DEFINE q == tcp_relay_compact_server_input(r)
           B == TCP_SS_RESP_IN_BUFSIZ
<1>1. /\ r \in Relays /\ r.open = "open" /\ BufferOK(r) /\ FrameOK(r) /\ PrefixOK(r)
      /\ r.in \in [1 .. B -> Int]
    BY FieldTypes DEF Moving
<1>t. /\ r.in_len \in Nat /\ r.in_head \in Nat /\ B \in Nat \ {0}
      /\ r.received \in Nat
    BY <1>1, FieldTypes, Sizes
<1>2. r.in_head + r.in_len <= B
    BY <1>1 DEF BufferOK
<1>3. B - r.in_head - r.in_len \in Nat
    BY <1>t, <1>2
<1>4. CASE r.in_head = 0 \/ B - r.in_head - r.in_len # 0
  <2>1. q = r
      BY <1>4 DEF tcp_relay_compact_server_input
  <2>2. r.in_len < B => B - r.in_head - r.in_len > 0
      BY <1>t, <1>2, <1>4
  <2>3. SameElse(r, r)
      BY DEF SameElse
  <2> QED
      BY <1>3, <2>1, <2>2, <2>3
<1>5. CASE ~ (r.in_head = 0 \/ B - r.in_head - r.in_len # 0)
  <2> DEFINE d == [k \in DOMAIN r.in |-> IF k <= r.in_len THEN r.in[r.in_head + k] ELSE r.in[k]]
  <2>1. q = [r EXCEPT !.in_head = 0, !.in = d]
      BY <1>5 DEF tcp_relay_compact_server_input
  <2>2. DOMAIN r.in = 1 .. B
      BY <1>1
  <2>3. d \in [1 .. B -> Int]
    <3>1. ASSUME NEW k \in 1 .. B
          PROVE  (IF k <= r.in_len THEN r.in[r.in_head + k] ELSE r.in[k]) \in Int
      <4>1. k <= r.in_len => r.in_head + k \in 1 .. B
          BY <1>t, <1>2
      <4> QED
          BY <1>1, <4>1
    <3> QED
        BY <2>2, <3>1
  <2>4. \A k \in 1 .. r.in_len : d[k] = r.in[r.in_head + k]
    <3> SUFFICES ASSUME NEW k \in 1 .. r.in_len PROVE d[k] = r.in[r.in_head + k]
        OBVIOUS
    <3>1. k \in 1 .. B /\ k <= r.in_len
        BY <1>t, <1>2
    <3> QED
        BY <2>2, <3>1
  <2> HIDE DEF d, q
  <2>5. q \in Relays
      BY <1>1, <2>1, <2>3 DEF Relays
  <2>6. /\ q.in_head = 0 /\ q.in = d /\ q.in_len = r.in_len /\ q.open = r.open
        /\ q.response_header_done = r.response_header_done
        /\ q.response_payload_len = r.response_payload_len
        /\ q.need_len = r.need_len /\ q.out_off = r.out_off /\ q.out_len = r.out_len
        /\ q.in_consume = r.in_consume /\ q.opened = r.opened /\ q.chunk = r.chunk
        /\ q.received = r.received /\ q.to_client = r.to_client
        /\ SameElse(q, r)
      BY <1>1, <2>1 DEF Relays, SameElse
  <2>7. BufferOK(q)
    <3>1. ASSUME NEW k \in 1 .. q.in_len
          PROVE  q.in[q.in_head + k] = q.received - q.in_len + k
      <4>1. q.in_head + k = k /\ k \in 1 .. r.in_len
          BY <1>t, <2>6
      <4>2. r.in[r.in_head + k] = r.received - r.in_len + k
          BY <1>1, <4>1 DEF BufferOK
      <4> QED
          BY <2>4, <2>6, <4>1, <4>2
    <3>2. q.in_head + q.in_len <= B
        BY <1>t, <1>2, <2>6
    <3> QED
        BY <1>1, <2>6, <3>1, <3>2 DEF BufferOK
  <2>8. FrameOK(q)
      BY <1>1, <2>6 DEF FrameOK, HeaderOK, ChunkOK
  <2>9. PrefixOK(q) /\ (Settled(r) => Settled(q))
      BY <1>1, <2>6 DEF PrefixOK, Settled, Needed
  <2>10. B - q.in_head - q.in_len \in Nat /\ (r.in_len < B => B - q.in_head - q.in_len > 0)
      BY <1>t, <1>2, <2>6
  <2> QED
      BY <1>1, <2>5, <2>6, <2>7, <2>8, <2>9, <2>10 DEF Moving, q
<1> QED
    BY <1>4, <1>5

\* n more bytes of the stream are behind those that were there.
Arrived(r, n) ==
    LET end == r.in_head + r.in_len IN
    [r EXCEPT !.received = r.received + n, !.in_len = r.in_len + n,
              !.in = [k \in DOMAIN r.in |-> IF k \in end + 1 .. end + n
                                            THEN r.received + k - end ELSE r.in[k]]]

LEMMA ArrivedFacts ==
    ASSUME StreamOK, NEW r, Moving(r), r.out_len = 0, NEW n \in Nat,
           n <= TCP_SS_RESP_IN_BUFSIZ - r.in_head - r.in_len, n <= cut - r.received
    PROVE  LET q == Arrived(r, n) IN
           /\ Moving(q) /\ q.server_eof = r.server_eof /\ q.client_eof = r.client_eof
           /\ q.client_shutdown_sent = r.client_shutdown_sent
           /\ UpOK(r) => UpOK(q)
<1> DEFINE q == Arrived(r, n)
           B == TCP_SS_RESP_IN_BUFSIZ
           end == r.in_head + r.in_len
           d == [k \in DOMAIN r.in |-> IF k \in end + 1 .. end + n
                                       THEN r.received + k - end ELSE r.in[k]]
<1>1. /\ r \in Relays /\ r.open = "open" /\ BufferOK(r) /\ FrameOK(r) /\ PrefixOK(r)
      /\ r.in \in [1 .. B -> Int]
    BY FieldTypes DEF Moving
<1>t. /\ r.in_len \in Nat /\ r.in_head \in Nat /\ B \in Nat \ {0} /\ end \in Nat
      /\ r.received \in Nat /\ r.opened \in Nat /\ r.in_consume \in Nat /\ cut \in Nat
  <2>1. cut \in Nat
    <3>1. Len(chunks) \in 1 .. Len(chunks)
        BY StreamSizes DEF StreamOK
    <3> QED
        BY <3>1, ChunkFacts
  <2>2. /\ r.in_len \in Nat /\ r.in_head \in Nat
        /\ r.received \in Nat /\ r.opened \in Nat /\ r.in_consume \in Nat
      BY ONLY <1>1, FieldTypes
  <2>3. B \in Nat \ {0}
      BY Sizes
  <2>4. end \in Nat
      BY ONLY <2>2
  <2> QED
      BY ONLY <2>1, <2>2, <2>3, <2>4
<1>2. /\ r.in_head + r.in_len <= B /\ r.in_consume <= r.in_len
      /\ r.received = r.opened + r.in_len - r.in_consume
    BY <1>1 DEF BufferOK
<1>3. q = [r EXCEPT !.received = r.received + n, !.in_len = r.in_len + n, !.in = d]
    BY DEF Arrived
<1>4. DOMAIN r.in = 1 .. B
    BY <1>1
<1>5. d \in [1 .. B -> Int]
  <2>1. ASSUME NEW k \in 1 .. B
        PROVE  (IF k \in end + 1 .. end + n THEN r.received + k - end ELSE r.in[k]) \in Int
    <3>1. r.in[k] \in Int
        BY <1>1
    <3> HIDE DEF end
    <3>2. r.received + k - end \in Int
        BY <1>t
    <3> QED
        BY <3>1, <3>2
  <2> QED
      BY <1>4, <2>1
<1>6. /\ \A k \in 1 .. r.in_len : d[r.in_head + k] = r.in[r.in_head + k]
      /\ \A k \in 1 .. n : d[end + k] = r.received + k
  <2>1. ASSUME NEW k \in 1 .. r.in_len PROVE d[r.in_head + k] = r.in[r.in_head + k]
    <3>1. r.in_head + k \in 1 .. B /\ r.in_head + k \notin end + 1 .. end + n
        BY <1>t, <1>2
    <3> QED
        BY <1>4, <3>1
  <2>2. ASSUME NEW k \in 1 .. n PROVE d[end + k] = r.received + k
    <3>1. end + k \in 1 .. B /\ end + k \in end + 1 .. end + n
        BY <1>t, <1>2
    <3>2. r.received + (end + k) - end = r.received + k
        BY <1>t
    <3> QED
        BY <1>4, <3>1, <3>2
  <2> QED
      BY <2>1, <2>2
<1> HIDE DEF q, d
<1>7. q \in Relays
  <2>1. r.received + n \in Nat /\ r.in_len + n \in Nat
      BY <1>t
  <2>2. PICK x \in Nat, y \in Nat, z \in [1 .. B -> Int] :
           q = [r EXCEPT !.received = x, !.in_len = y, !.in = z]
      BY ONLY <1>3, <1>5, <2>1
  <2>3. r \in Relays
      BY ONLY <1>1
  <2> QED
      BY ONLY <2>2, <2>3 DEF Relays
<1>8. /\ q.in_head = r.in_head /\ q.in = d /\ q.in_len = r.in_len + n /\ q.open = r.open
      /\ q.response_header_done = r.response_header_done
      /\ q.response_payload_len = r.response_payload_len
      /\ q.need_len = r.need_len /\ q.out_off = r.out_off /\ q.out_len = r.out_len
      /\ q.in_consume = r.in_consume /\ q.opened = r.opened /\ q.chunk = r.chunk
      /\ q.received = r.received + n /\ q.to_client = r.to_client
    BY <1>1, <1>3 DEF Relays
<1>9. /\ q.client_eof = r.client_eof /\ q.server_eof = r.server_eof
      /\ q.client_shutdown_sent = r.client_shutdown_sent
      /\ q.server_shutdown_sent = r.server_shutdown_sent
      /\ SameC2s(q, r) /\ q.sealed = r.sealed /\ q.to_server = r.to_server
    BY <1>1, <1>3 DEF Relays, SameC2s
<1>10. BufferOK(q)
  <2>1. /\ q.in_head + q.in_len <= B /\ q.in_consume <= q.in_len
        /\ q.received = q.opened + q.in_len - q.in_consume /\ q.received <= cut
      BY <1>t, <1>2, <1>8
  <2>2. ASSUME NEW k \in 1 .. q.in_len
        PROVE  q.in[q.in_head + k] = q.received - q.in_len + k
    <3>1. q.received - q.in_len + k = r.received - r.in_len + k
        BY <1>t, <1>8
    <3>2. CASE k <= r.in_len
      <4>1. k \in 1 .. r.in_len
          BY <1>t, <3>2
      <4>2. r.in[r.in_head + k] = r.received - r.in_len + k
          BY <1>1, <4>1 DEF BufferOK
      <4> QED
          BY <1>6, <1>8, <3>1, <4>1, <4>2
    <3>3. CASE ~ (k <= r.in_len)
      <4>1. k - r.in_len \in 1 .. n /\ end + (k - r.in_len) = r.in_head + k
          BY <1>t, <1>8, <3>3
      <4>2. d[r.in_head + k] = r.received + (k - r.in_len)
          BY <1>6, <4>1
      <4>3. r.received + (k - r.in_len) = r.received - r.in_len + k
          BY <1>t
      <4> QED
          BY <1>8, <3>1, <4>2, <4>3
    <3> QED
        BY <3>2, <3>3
  <2> QED
      BY <2>1, <2>2 DEF BufferOK
<1>11. FrameOK(q)
    BY <1>1, <1>8 DEF FrameOK, HeaderOK, ChunkOK
<1>12. PrefixOK(q)
    BY <1>1, <1>8 DEF PrefixOK
<1>13. UpOK(r) => UpOK(q)
    BY <1>9 DEF UpOK, SameC2s
<1> QED
    BY <1>1, <1>7, <1>8, <1>9, <1>10, <1>11, <1>12, <1>13 DEF Moving, q

\* A session is cut short only where no chunk ends.
CutShort == \A i \in 1 .. Len(chunks) : cut # ChunkEnd(chunks)[i]

LEMMA EndsOrdered ==
    ASSUME StreamOK, NEW i \in 0 .. Len(chunks), NEW j \in 0 .. Len(chunks), i <= j
    PROVE  /\ ChunkEnd(chunks)[i] \in Int /\ ChunkEnd(chunks)[j] \in Int
           /\ ChunkEnd(chunks)[i] <= ChunkEnd(chunks)[j]
           /\ i < j => ChunkEnd(chunks)[i] + SS2022_LENGTH_CHUNK_LEN + TCP_SS2022_TAG_LEN
                          <= ChunkEnd(chunks)[j]
<1> DEFINE x == ChunkEnd(chunks)[i]
           y == ChunkEnd(chunks)[j]
<1>1. /\ x \in Int /\ y \in Int
      /\ i < j => x + SS2022_LENGTH_CHUNK_LEN + TCP_SS2022_TAG_LEN <= y
    BY EndFacts DEF StreamOK
<1>2. i = j => x = y
    OBVIOUS
<1>3. i < j \/ i = j
    BY StreamSizes DEF StreamOK
<1> HIDE DEF x, y
<1>4. x <= y
    BY <1>1, <1>2, <1>3, Sizes
<1> QED
    BY <1>1, <1>4 DEF x, y

\* At the end of the input with nothing left to open, either the last piece was a
\* whole chunk and the buffer is empty, or the stream was cut where no chunk ends.
LEMMA EofFacts ==
    ASSUME StreamOK, NEW r, Moving(r), Settled(r), r.out_len = 0, r.received = cut
    PROVE  IF tcp_relay_server_eof_is_clean(r)
           THEN r.in_len = 0 /\ \E i \in 1 .. Len(chunks) : cut = ChunkEnd(chunks)[i]
           ELSE CutShort
<1>1. r \in Relays /\ BufferOK(r) /\ FrameOK(r)
    BY DEF Moving
<1>t. /\ r.in_len \in Nat /\ r.opened \in Nat /\ r.response_payload_len \in Nat /\ cut \in Nat
      /\ TCP_SS2022_TAG_LEN \in Nat \ {0} /\ SS2022_LENGTH_CHUNK_LEN \in Nat \ {0}
      /\ Len(chunks) \in Nat \ {0} /\ r.received \in Nat /\ ResponseHeaderLen \in Nat
    BY <1>1, FieldTypes, Sizes, StreamSizes DEF StreamOK
<1>2. r.in_consume = 0 /\ r.in_len < Needed(r)
    BY <1>1 DEF FrameOK, Settled
<1>3. cut = r.opened + r.in_len
  <2>1. r.received = r.opened + r.in_len - 0
      BY <1>1, <1>2 DEF BufferOK
  <2> QED
      BY <1>t, <2>1
<1>4. CASE ~ r.response_header_done
  <2>1. ~ tcp_relay_server_eof_is_clean(r)
      BY <1>4 DEF tcp_relay_server_eof_is_clean
  <2>2. r.opened = 0 /\ r.in_len < ResponseHeaderLen
      BY <1>1, <1>2, <1>4 DEF FrameOK, HeaderOK, Needed
  <2> DEFINE e == ChunkEnd(chunks)[1]
  <2>3. 1 \in 1 .. Len(chunks) /\ 1 - 1 = 0
      BY <1>t
  <2>4. /\ chunks[1] \in Nat /\ e = ChunkEnd(chunks)[0] + SS2022_LENGTH_CHUNK_LEN
                                    + chunks[1] + TCP_SS2022_TAG_LEN
        /\ ChunkEnd(chunks)[0] + SS2022_LENGTH_CHUNK_LEN = ResponseHeaderLen
        /\ ChunkEnd(chunks)[0] \in Int
      BY <2>3, ChunkFacts
  <2>5. cut < e /\ e \in Int
    <3>1. e = ResponseHeaderLen + chunks[1] + TCP_SS2022_TAG_LEN
        BY <1>t, <2>4
    <3> DEFINE w == chunks[1]
               l == r.in_len
    <3>2. /\ e = ResponseHeaderLen + w + TCP_SS2022_TAG_LEN /\ w \in Nat
          /\ l < ResponseHeaderLen /\ l \in Nat
          /\ ResponseHeaderLen \in Nat /\ TCP_SS2022_TAG_LEN \in Nat
        BY <1>t, <2>2, <2>4, <3>1
    <3>3. cut = l
        BY <1>t, <1>3, <2>2
    <3> HIDE DEF e, w, l
    <3> QED
        BY ONLY <3>2, <3>3
  <2>6. ASSUME NEW i \in 1 .. Len(chunks) PROVE cut # ChunkEnd(chunks)[i]
    <3>1. e <= ChunkEnd(chunks)[i] /\ ChunkEnd(chunks)[i] \in Int
        BY <1>t, EndsOrdered
    <3> HIDE DEF e
    <3> QED
        BY <1>t, <2>5, <3>1
  <2> QED
      BY <2>1, <2>6 DEF CutShort
<1>5. CASE r.response_header_done
  <2>1. ChunkOK(r)
      BY <1>1, <1>5 DEF FrameOK
  <2>2. r.chunk \in 1 .. Len(chunks) /\ r.response_payload_len = chunks[r.chunk]
      BY <2>1 DEF ChunkOK
  <2>c. PICK c \in 1 .. Len(chunks) : c = r.chunk
      BY <2>2
  <2> DEFINE e0 == ChunkEnd(chunks)[c - 1]
             e1 == ChunkEnd(chunks)[c]
  <2>3. /\ e0 \in Int /\ e1 \in Int /\ c - 1 \in 0 .. Len(chunks) /\ c \in 0 .. Len(chunks)
        /\ e1 = e0 + SS2022_LENGTH_CHUNK_LEN + r.response_payload_len + TCP_SS2022_TAG_LEN
    <3>1. /\ e0 \in Int /\ e1 \in Int
          /\ e1 = e0 + SS2022_LENGTH_CHUNK_LEN + chunks[c] + TCP_SS2022_TAG_LEN
        BY ChunkFacts
    <3>2. r.response_payload_len = chunks[c]
        BY <2>2, <2>c
    <3> QED
        BY <1>t, <3>1, <3>2
  <2>4. ASSUME NEW i \in 1 .. Len(chunks)
        PROVE  /\ ChunkEnd(chunks)[i] \in Int
               /\ ChunkEnd(chunks)[i] <= e0 \/ e1 <= ChunkEnd(chunks)[i]
               /\ \/ ChunkEnd(chunks)[i] <= e1
                  \/ e1 + SS2022_LENGTH_CHUNK_LEN + TCP_SS2022_TAG_LEN <= ChunkEnd(chunks)[i]
    <3> DEFINE l == Len(chunks)
    <3>l. l \in Nat /\ i \in 1 .. l /\ c \in 1 .. l
        BY ONLY <1>t, i \in 1 .. Len(chunks), c \in 1 .. Len(chunks)
    <3> HIDE DEF l
    <3>a. i \in 0 .. l /\ (i <= c - 1 \/ c <= i) /\ (i <= c \/ c < i) /\ (c < i => c <= i)
        BY ONLY <3>l
    <3>1. i \in 0 .. Len(chunks) /\ (i <= c - 1 \/ c <= i) /\ (i <= c \/ c < i) /\ (c < i => c <= i)
        BY ONLY <3>a DEF l
    <3>2. i <= c - 1 => ChunkEnd(chunks)[i] <= e0
        BY <2>3, <3>1, EndsOrdered
    <3>3. c <= i => e1 <= ChunkEnd(chunks)[i]
        BY <2>3, <3>1, EndsOrdered
    <3>4. i <= c => ChunkEnd(chunks)[i] <= e1
        BY <2>3, <3>1, EndsOrdered
    <3>5. c < i => e1 + SS2022_LENGTH_CHUNK_LEN + TCP_SS2022_TAG_LEN <= ChunkEnd(chunks)[i]
        BY <2>3, <3>1, EndsOrdered
    <3>6. ChunkEnd(chunks)[i] \in Int
        BY <3>1, EndFacts DEF StreamOK
    <3> QED
        BY ONLY <3>1, <3>2, <3>3, <3>4, <3>5, <3>6
  <2>5. CASE ~ r.need_len
    <3>1. ~ tcp_relay_server_eof_is_clean(r)
        BY <2>5 DEF tcp_relay_server_eof_is_clean
    <3>2. r.opened = e0 + SS2022_LENGTH_CHUNK_LEN
        BY <2>1, <2>c, <2>5 DEF ChunkOK
    <3>3. r.in_len < r.response_payload_len + TCP_SS2022_TAG_LEN
        BY <1>2, <1>5, <2>5 DEF Needed
    <3> HIDE DEF e0, e1
    <3>4. e0 < cut /\ cut < e1
      <4>1. cut = e0 + SS2022_LENGTH_CHUNK_LEN + r.in_len
          BY <1>3, <3>2
      <4>2. /\ e0 \in Int
            /\ e1 = e0 + SS2022_LENGTH_CHUNK_LEN + r.response_payload_len + TCP_SS2022_TAG_LEN
          BY <2>3
      <4>3. cut < e1
          BY <1>t, <3>3, <4>1, <4>2
      <4>4. e0 < cut
          BY <1>t, <4>1, <4>2
      <4> QED
          BY <4>3, <4>4
    <3>5. CutShort
      <4> SUFFICES ASSUME NEW i \in 1 .. Len(chunks) PROVE cut # ChunkEnd(chunks)[i]
          BY DEF CutShort
      <4> DEFINE x == ChunkEnd(chunks)[i]
      <4>1. x \in Int /\ (x <= e0 \/ e1 <= x)
          BY <2>4
      <4>2. e0 \in Int /\ e1 \in Int
          BY <2>3
      <4> HIDE DEF x
      <4>3. cut # x
          BY <1>t, <3>4, <4>1, <4>2
      <4> QED
          BY <4>3 DEF x
    <3> QED
        BY <3>1, <3>5
  <2>6. CASE r.need_len
    <3>1. r.opened = e1
        BY <2>1, <2>c, <2>6 DEF ChunkOK
    <3>2. r.in_len < SS2022_LENGTH_CHUNK_LEN
        BY <1>2, <1>5, <2>6 DEF Needed
    <3>3. CASE r.in_len = 0
      <4>1. cut = e1
          BY <1>t, <1>3, <3>1, <3>3
      <4>2. tcp_relay_server_eof_is_clean(r)
          BY <1>5, <2>6, <3>3 DEF tcp_relay_server_eof_is_clean
      <4> QED
          BY <3>3, <4>1, <4>2
    <3>4. CASE r.in_len # 0
      <4>1. ~ tcp_relay_server_eof_is_clean(r)
          BY <3>4 DEF tcp_relay_server_eof_is_clean
      <4> HIDE DEF e0, e1
      <4>2. e1 < cut /\ cut < e1 + SS2022_LENGTH_CHUNK_LEN + TCP_SS2022_TAG_LEN
        <5>1. cut = e1 + r.in_len
            BY <1>3, <3>1
        <5>2. e1 \in Int
            BY <2>3
        <5> QED
            BY <1>t, <3>2, <3>4, <5>1, <5>2
      <4>3. CutShort
        <5> SUFFICES ASSUME NEW i \in 1 .. Len(chunks) PROVE cut # ChunkEnd(chunks)[i]
            BY DEF CutShort
        <5> DEFINE x == ChunkEnd(chunks)[i]
                   y == e1 + SS2022_LENGTH_CHUNK_LEN + TCP_SS2022_TAG_LEN
        <5>1. x \in Int /\ (x <= e1 \/ y <= x)
            BY <2>4
        <5>2. e1 \in Int /\ y \in Int
            BY <1>t, <2>3
        <5>3. e1 < cut /\ cut < y
            BY <4>2
        <5> HIDE DEF x, y
        <5>4. cut # x
            BY <1>t, <5>1, <5>2, <5>3
        <5> QED
            BY <5>4 DEF x
      <4> QED
          BY <4>1, <4>3
    <3> QED
        BY <3>3, <3>4
  <2> QED
      BY <2>5, <2>6
<1> QED
    BY <1>4, <1>5

\* Once the end was seen, the client has been sent the plain text of whole chunks.
LEMMA EndedFacts ==
    ASSUME StreamOK, NEW r \in Relays, BufferOK(r), FrameOK(r), EndOK(r), r.server_eof
    PROVE  /\ r.received = cut /\ r.opened = cut
           /\ \E i \in 1 .. Len(chunks) : /\ cut = ChunkEnd(chunks)[i]
                                          /\ Len(r.to_client) = Sent(chunks, i)
<1>1. r.received = cut /\ r.in_len = 0
    BY DEF EndOK
<1>2. PICK i \in 1 .. Len(chunks) : cut = ChunkEnd(chunks)[i]
    BY DEF EndOK
<1>t. /\ r.opened \in Nat /\ r.response_payload_len \in Nat /\ cut \in Nat /\ r.in_consume \in Nat
      /\ r.out_len \in Nat
      /\ TCP_SS2022_TAG_LEN \in Nat \ {0} /\ SS2022_LENGTH_CHUNK_LEN \in Nat \ {0}
      /\ Len(chunks) \in Nat \ {0} /\ r.received \in Nat /\ ResponseHeaderLen \in Nat \ {0}
    BY <1>1, FieldTypes, Sizes, StreamSizes DEF StreamOK
<1>3. r.in_consume = 0
  <2>1. r.in_consume <= 0
      BY <1>1 DEF BufferOK
  <2> QED
      BY <1>t, <2>1
<1>4. r.out_len = 0
  <2>1. r.out_len > 0 => r.in_consume = r.response_payload_len + TCP_SS2022_TAG_LEN
      BY DEF FrameOK
  <2>2. r.response_payload_len + TCP_SS2022_TAG_LEN # 0
      BY <1>t
  <2> QED
      BY <1>t, <1>3, <2>1, <2>2
<1>5. r.opened = cut
  <2>1. r.received = r.opened + 0 - 0
      BY <1>1, <1>3 DEF BufferOK
  <2> QED
      BY <1>t, <1>1, <2>1
<1>6. r.response_header_done
  <2> SUFFICES ASSUME ~ r.response_header_done PROVE FALSE
      OBVIOUS
  <2>1. cut = 0
      BY <1>5 DEF FrameOK, HeaderOK
  <2> DEFINE e == ChunkEnd(chunks)[0]
             x == ChunkEnd(chunks)[i]
  <2>2. e \in Int /\ e + SS2022_LENGTH_CHUNK_LEN = ResponseHeaderLen
      BY EndsOrdered, ChunkFacts, <1>t
  <2>3. e + SS2022_LENGTH_CHUNK_LEN + TCP_SS2022_TAG_LEN <= x
      BY <1>t, EndsOrdered
  <2>4. x = 0
      BY <1>2, <2>1
  <2> HIDE DEF e, x
  <2> QED
      BY <1>t, <2>2, <2>3, <2>4
<1>7. ChunkOK(r)
    BY <1>6 DEF FrameOK
<1>c. PICK c \in 1 .. Len(chunks) : c = r.chunk
    BY <1>7 DEF ChunkOK
<1> DEFINE e0 == ChunkEnd(chunks)[c - 1]
           e1 == ChunkEnd(chunks)[c]
           x == ChunkEnd(chunks)[i]
<1>8. /\ e0 \in Int /\ e1 \in Int /\ x \in Int
      /\ c - 1 \in 0 .. Len(chunks) /\ c \in 0 .. Len(chunks) /\ i \in 0 .. Len(chunks)
      /\ chunks[c] \in Nat
      /\ e1 = e0 + SS2022_LENGTH_CHUNK_LEN + chunks[c] + TCP_SS2022_TAG_LEN
    BY <1>t, ChunkFacts
<1>9. r.need_len
  <2> SUFFICES ASSUME ~ r.need_len PROVE FALSE
      OBVIOUS
  <2>1. r.opened = e0 + SS2022_LENGTH_CHUNK_LEN
      BY <1>7, <1>c DEF ChunkOK
  <2>2. x = e0 + SS2022_LENGTH_CHUNK_LEN
      BY <1>2, <1>5, <2>1
  <2>3. i <= c - 1 \/ c <= i
      BY <1>t, <1>8
  <2>4. x <= e0 \/ e1 <= x
      BY <1>8, <2>3, EndsOrdered
  <2> HIDE DEF e0, e1, x
  <2> QED
      BY <1>t, <1>8, <2>2, <2>4
<1>10. e1 = x
    BY <1>2, <1>5, <1>7, <1>9, <1>c DEF ChunkOK
<1>11. c = i
  <2>1. ~ (c < i)
    <3> SUFFICES ASSUME c < i PROVE FALSE
        OBVIOUS
    <3>1. e1 + SS2022_LENGTH_CHUNK_LEN + TCP_SS2022_TAG_LEN <= x
        BY <1>8, EndsOrdered
    <3> HIDE DEF e0, e1, x
    <3> QED
        BY <1>t, <1>8, <1>10, <3>1
  <2>2. ~ (i < c)
    <3> SUFFICES ASSUME i < c PROVE FALSE
        OBVIOUS
    <3>1. x + SS2022_LENGTH_CHUNK_LEN + TCP_SS2022_TAG_LEN <= e1
        BY <1>8, EndsOrdered
    <3> HIDE DEF e0, e1, x
    <3> QED
        BY <1>t, <1>8, <1>10, <3>1
  <2> QED
      BY <1>t, <2>1, <2>2
<1>12. Len(r.to_client) = Sent(chunks, i)
    BY <1>4, <1>7, <1>9, <1>c, <1>11 DEF ChunkOK
<1> QED
    BY <1>1, <1>2, <1>5, <1>12

LEMMA MinOfTwo ==
    ASSUME NEW a \in Int, NEW b \in Int
    PROVE  Min({a, b}) \in Int /\ Min({a, b}) <= a /\ Min({a, b}) <= b
<1> DEFINE P(x) == x \in {a, b} /\ \A y \in {a, b} : x <= y
<1>1. \E x : P(x)
  <2>1. CASE a <= b
      BY <2>1
  <2>2. CASE b <= a
      BY <2>2
  <2> QED
      BY <2>1, <2>2
<1>2. P(CHOOSE x : P(x))
    BY <1>1
<1>3. Min({a, b}) = CHOOSE x : P(x)
    BY DEF Min
<1> QED
    BY <1>2, <1>3

\* What holds of a session in the middle of an event, and how reading may leave it:
\* open with nothing left to open, or given up because the stream was cut short.
Kept(r) == r \in Relays /\ BufferOK(r) /\ FrameOK(r) /\ PrefixOK(r) /\ UpOK(r) /\ EndOK(r)
Outcome(r) == \/ r.open = "open" /\ Settled(r)
              \/ r.open = "truncated" /\ r.received = cut /\ CutShort

LEMMA HandleEofFacts ==
    ASSUME StreamOK, NEW r, Moving(r), Settled(r), UpOK(r), EndOK(r), r.out_len = 0, r.received = cut
    PROVE  Kept(tcp_relay_handle_server_eof(r)) /\ Outcome(tcp_relay_handle_server_eof(r))
<1> DEFINE q == tcp_relay_handle_server_eof(r)
<1>1. r \in Relays /\ BufferOK(r) /\ FrameOK(r) /\ PrefixOK(r) /\ r.open = "open"
    BY DEF Moving
<1>2. CASE tcp_relay_server_eof_is_clean(r)
  <2>1. q = [r EXCEPT !.server_eof = TRUE]
      BY <1>2 DEF tcp_relay_handle_server_eof
  <2>2. r.in_len = 0 /\ \E i \in 1 .. Len(chunks) : cut = ChunkEnd(chunks)[i]
      BY <1>2, EofFacts
  <2> HIDE DEF q
  <2>3. q \in Relays
      BY <1>1, <2>1 DEF Relays
  <2>4. /\ SameDown(q, r) /\ q.open = r.open
        /\ q.client_eof = r.client_eof /\ q.server_shutdown_sent = r.server_shutdown_sent
        /\ q.sealed = r.sealed /\ q.to_server = r.to_server /\ SameC2s(q, r)
        /\ q.server_eof
      BY <1>1, <2>1 DEF Relays, SameDown, SameC2s
  <2>5. BufferOK(q) /\ FrameOK(q) /\ PrefixOK(q) /\ Settled(q)
      BY <1>1, <2>4, DownFacts
  <2>6. UpOK(q)
      BY <2>4 DEF UpOK, SameC2s
  <2>7. EndOK(q)
      BY <2>2, <2>4 DEF EndOK, SameDown
  <2> QED
      BY <1>1, <2>3, <2>4, <2>5, <2>6, <2>7 DEF Kept, Outcome, q
<1>3. CASE ~ tcp_relay_server_eof_is_clean(r)
  <2>1. q = [r EXCEPT !.open = "truncated"]
      BY <1>3 DEF tcp_relay_handle_server_eof
  <2>2. CutShort
      BY <1>3, EofFacts
  <2> HIDE DEF q
  <2>3. q \in Relays
      BY <1>1, <2>1 DEF Relays
  <2>4. /\ SameDown(q, r) /\ q.open = "truncated"
        /\ q.client_eof = r.client_eof /\ q.server_shutdown_sent = r.server_shutdown_sent
        /\ q.sealed = r.sealed /\ q.to_server = r.to_server /\ SameC2s(q, r)
        /\ q.server_eof = r.server_eof /\ q.client_shutdown_sent = r.client_shutdown_sent
      BY <1>1, <2>1 DEF Relays, SameDown, SameC2s
  <2>5. BufferOK(q) /\ FrameOK(q) /\ PrefixOK(q)
      BY <1>1, <2>4, DownFacts
  <2>6. UpOK(q)
      BY <2>4 DEF UpOK, SameC2s
  <2>7. EndOK(q) /\ q.received = cut
      BY <2>4 DEF EndOK, SameDown
  <2> QED
      BY <2>2, <2>3, <2>4, <2>5, <2>6, <2>7 DEF Kept, Outcome, q
<1> QED
    BY <1>2, <1>3

\* tcp_relay_read_from_server: there is room whenever it is called, so the end that
\* it sees is the end of the stream.
LEMMA ReadFromServerFacts ==
    ASSUME StreamOK, NEW r0, Moving(r0), Settled(r0), UpOK(r0), EndOK(r0), ~ r0.server_eof,
           r0.out_len = 0, r0.in_len < TCP_SS_RESP_IN_BUFSIZ,
           NEW q \in tcp_relay_read_from_server(r0)
    PROVE  Kept(q) /\ Outcome(q)
<1> DEFINE r == tcp_relay_compact_server_input(r0)
           cap == TCP_SS_RESP_IN_BUFSIZ - r.in_head - r.in_len
<1>1. /\ Moving(r) /\ SameElse(r, r0) /\ r.in_len = r0.in_len /\ r.out_len = r0.out_len
      /\ Settled(r) /\ cap > 0 /\ cap \in Nat
    BY CompactFacts
<1>2. \/ q = r
      \/ q = tcp_relay_handle_server_eof(r) /\ (cap = 0 \/ r.received = cut)
      \/ \E n \in 1 .. Min({cap, cut - r.received}) :
            q \in tcp_relay_process_server_data(Arrived(r, n))
    BY DEF tcp_relay_read_from_server, Arrived
<1> HIDE DEF r, cap
<1>3. /\ r \in Relays /\ r0 \in Relays /\ r.open = "open"
      /\ BufferOK(r) /\ FrameOK(r) /\ PrefixOK(r)
    BY <1>1 DEF Moving
<1>4. UpOK(r) /\ EndOK(r)
  <2>1. r.in_len <= r0.in_len
      BY <1>1, <1>3, FieldTypes
  <2> QED
      BY <1>1, <1>3, <2>1, ElseFacts
<1>5. r.out_len = 0 /\ ~ r.server_eof /\ ~ r.client_shutdown_sent
    BY <1>1, <1>4 DEF SameElse, EndOK
<1>6. CASE q = r
    BY <1>1, <1>3, <1>4, <1>6 DEF Kept, Outcome
<1>7. CASE q = tcp_relay_handle_server_eof(r) /\ (cap = 0 \/ r.received = cut)
  <2>1. r.received = cut
      BY <1>1, <1>7
  <2> QED
      BY <1>1, <1>4, <1>5, <1>7, <2>1, HandleEofFacts
<1>8. CASE \E n \in 1 .. Min({cap, cut - r.received}) :
              q \in tcp_relay_process_server_data(Arrived(r, n))
  <2>1. PICK n \in 1 .. Min({cap, cut - r.received}) :
              q \in tcp_relay_process_server_data(Arrived(r, n))
      BY <1>8
  <2>2. cut \in Nat /\ r.received \in Nat
    <3>1. Len(chunks) \in 1 .. Len(chunks)
        BY StreamSizes DEF StreamOK
    <3> QED
        BY <1>3, <3>1, ChunkFacts, FieldTypes
  <2>3. n \in Nat /\ n <= cap /\ n <= cut - r.received
    <3> DEFINE b == cut - r.received
               m == Min({cap, b})
    <3>1. b \in Int /\ cap \in Int
        BY <1>1, <2>2
    <3> HIDE DEF b
    <3>3. m \in Int /\ m <= cap /\ m <= b
        BY <3>1, MinOfTwo
    <3>2. n \in 1 .. m
        BY DEF b
    <3> HIDE DEF m
    <3>4. n \in Nat /\ n <= cap /\ n <= b
        BY <3>1, <3>2, <3>3
    <3> QED
        BY <3>4 DEF b
  <2> DEFINE a == Arrived(r, n)
  <2>4. n <= TCP_SS_RESP_IN_BUFSIZ - r.in_head - r.in_len
      BY <2>3 DEF cap
  <2>5. /\ Moving(a) /\ a.server_eof = r.server_eof
        /\ a.client_shutdown_sent = r.client_shutdown_sent /\ UpOK(a)
      BY <1>1, <1>4, <1>5, <2>3, <2>4, ArrivedFacts
  <2>6. q \in tcp_relay_process_server_data(a)
      BY <2>1
  <2> HIDE DEF a
  <2>7. Moving(q) /\ Settled(q) /\ SameElse(q, a) /\ q.in_len <= a.in_len
      BY <2>5, <2>6, ProcessFacts
  <2>8. UpOK(q) /\ q \in Relays /\ a \in Relays
      BY <2>5, <2>7, ElseFacts DEF Moving
  <2>9. EndOK(q)
      BY <1>5, <2>5, <2>7 DEF EndOK, SameElse
  <2> QED
      BY <2>7, <2>8, <2>9 DEF Kept, Outcome, Moving
<1> QED
    BY <1>2, <1>6, <1>7, <1>8

-----------------------------------------------------------------------------
(* The inductive invariant.                                                *)

\* Between two events the watchers wait for what the session's state calls for, and
\* everything that could be opened was opened.
RelayOK(r) ==
    /\ Kept(r) /\ r.open # "garbled"
    /\ r.open = "truncated" => r.received = cut /\ CutShort
    /\ r.open = "done" => r.server_eof
    /\ r.open = "open" => /\ Settled(r)
                          /\ r.client_events = ClientEvents(r)
                          /\ r.server_events = ServerEvents(r)

RelayInv == StreamOK /\ RelayOK(s)

LEMMA EventTypes ==
    ASSUME NEW r
    PROVE  ClientEvents(r) \in Watched /\ ServerEvents(r) \in Watched
BY DEF ClientEvents, ServerEvents, Watched

\* tcp_relay_update_watchers re-establishes the invariant after every event.
LEMMA WatchersFacts ==
    ASSUME NEW r, Kept(r), Outcome(r)
    PROVE  RelayOK(tcp_relay_update_watchers(r))
<1> DEFINE q == tcp_relay_update_watchers(r)
           a == r.server_shutdown_sent \/ (r.client_eof /\ r.c2s_len = 0)
           b == r.client_shutdown_sent \/ ClientShutdownDue(r)
           shut == [r EXCEPT !.server_shutdown_sent = a, !.client_shutdown_sent = b]
<1>1. /\ r \in Relays /\ BufferOK(r) /\ FrameOK(r) /\ PrefixOK(r) /\ UpOK(r) /\ EndOK(r)
    BY DEF Kept
<1>2. CASE r.open # "open"
  <2>1. q = r
      BY <1>2 DEF tcp_relay_update_watchers
  <2> QED
      BY <1>2, <2>1 DEF RelayOK, Outcome
<1>3. CASE r.open = "open"
  <2>1. Settled(r)
      BY <1>3 DEF Outcome
  <2>2. a \in BOOLEAN /\ b \in BOOLEAN
      BY <1>1, FieldTypes DEF ClientShutdownDue
  <2>3. /\ a => r.client_eof /\ r.c2s_len = 0
        /\ b => r.server_eof
      BY <1>1 DEF UpOK, EndOK, ClientShutdownDue
  <2>4. \/ q = [shut EXCEPT !.open = "done"] /\ r.server_eof
        \/ q = [shut EXCEPT !.client_events = ClientEvents(r), !.server_events = ServerEvents(r)]
      BY <1>3 DEF tcp_relay_update_watchers
  <2>5. PICK a1 \in BOOLEAN, b1 \in BOOLEAN : a1 = a /\ b1 = b
      BY <2>2
  <2>6. shut = [r EXCEPT !.server_shutdown_sent = a1, !.client_shutdown_sent = b1]
      BY <2>5
  <2>7. (a1 => r.client_eof /\ r.c2s_len = 0) /\ (b1 => r.server_eof)
      BY <2>3, <2>5
  <2> HIDE DEF q, a, b, shut
  <2>8. shut \in Relays
    <3>1. PICK x : x = [r EXCEPT !.server_shutdown_sent = a1]
        OBVIOUS
    <3>2. x \in Relays
        BY ONLY <1>1, <2>5, <3>1 DEF Relays
    <3>3. shut = [x EXCEPT !.client_shutdown_sent = b1]
        BY ONLY <2>6, <3>1
    <3> QED
        BY ONLY <2>5, <3>2, <3>3 DEF Relays
  <2>9. /\ SameDown(shut, r) /\ shut.open = r.open /\ shut.client_eof = r.client_eof
        /\ shut.server_eof = r.server_eof /\ SameC2s(shut, r)
        /\ shut.sealed = r.sealed /\ shut.to_server = r.to_server
        /\ shut.server_shutdown_sent = a1 /\ shut.client_shutdown_sent = b1
      BY <1>1, <2>6 DEF Relays, SameDown, SameC2s
  <2>10. /\ q \in Relays
         /\ SameDown(q, shut) /\ q.client_eof = shut.client_eof
         /\ q.server_eof = shut.server_eof /\ SameC2s(q, shut)
         /\ q.sealed = shut.sealed /\ q.to_server = shut.to_server
         /\ q.server_shutdown_sent = shut.server_shutdown_sent
         /\ q.client_shutdown_sent = shut.client_shutdown_sent
         /\ \/ q.open = "done" /\ r.server_eof
            \/ /\ q.open = shut.open
               /\ q.client_events = ClientEvents(r) /\ q.server_events = ServerEvents(r)
    <3>1. CASE q = [shut EXCEPT !.open = "done"] /\ r.server_eof
        BY <2>8, <3>1 DEF Relays, SameDown, SameC2s
    <3>2. CASE q = [shut EXCEPT !.client_events = ClientEvents(r), !.server_events = ServerEvents(r)]
        BY <2>8, <3>2, EventTypes DEF Relays, SameDown, SameC2s
    <3> QED
        BY <2>4, <3>1, <3>2
  <2>11. SameDown(q, r)
      BY <2>9, <2>10 DEF SameDown
  <2>12. BufferOK(q) /\ FrameOK(q) /\ PrefixOK(q) /\ Settled(q)
      BY <1>1, <2>1, <2>11, DownFacts
  <2>13. UpOK(q)
      BY <1>1, <2>7, <2>9, <2>10 DEF UpOK, SameC2s
  <2>14. EndOK(q)
      BY <1>1, <2>7, <2>9, <2>10, <2>11 DEF EndOK, SameDown
  <2>15. Kept(q)
      BY <2>10, <2>12, <2>13, <2>14 DEF Kept
  <2>16. RelayOK(q)
    <3>1. CASE q.open = "done" /\ r.server_eof
        BY <2>9, <2>10, <2>15, <3>1 DEF RelayOK
    <3>2. CASE /\ q.open = shut.open
               /\ q.client_events = ClientEvents(r) /\ q.server_events = ServerEvents(r)
      <4>1. q.client_events = ClientEvents(q) /\ q.server_events = ServerEvents(q)
          BY <2>9, <2>10, <2>11, <3>2 DEF ClientEvents, ServerEvents, SameDown, SameC2s
      <4>2. q.open = "open"
          BY <1>3, <2>9, <3>2
      <4> QED
          BY <2>12, <2>15, <4>1, <4>2 DEF RelayOK
    <3> QED
        BY <2>10, <3>1, <3>2
  <2> QED
      BY <2>16 DEF q
<1> QED
    BY <1>2, <1>3

\* A session that enters the relay, whether or not the client has closed already.
LEMMA InitInv == Init => RelayInv
<1> SUFFICES ASSUME Init PROVE RelayInv
    OBVIOUS
<1>1. StreamOK
    BY RelayAssumption DEF Init, StreamOK, Stream
<1>2. PICK eof \in BOOLEAN : s = EnterRelay(eof)
    BY DEF Init
<1> DEFINE fc == IF eof THEN ClientBytes ELSE 0
           buf == [k \in 1 .. TCP_SS_RESP_IN_BUFSIZ |-> 0]
           r == [open |-> "open", client_eof |-> eof, server_eof |-> FALSE,
                 client_shutdown_sent |-> FALSE, server_shutdown_sent |-> FALSE,
                 response_header_done |-> FALSE, response_payload_len |-> 0,
                 in |-> buf, in_head |-> 0, in_len |-> 0,
                 need_len |-> FALSE, out_off |-> 0, out_len |-> 0, in_consume |-> 0,
                 c2s |-> << >>, c2s_off |-> 0, c2s_len |-> 0, client_events |-> {}, server_events |-> {},
                 opened |-> 0, chunk |-> 0, received |-> 0, to_client |-> << >>,
                 from_client |-> fc, sealed |-> 0, to_server |-> << >>]
<1>3. s = tcp_relay_update_watchers(r)
    BY <1>2 DEF EnterRelay
<1>4. fc \in Nat /\ buf \in [1 .. TCP_SS_RESP_IN_BUFSIZ -> Int]
    BY RelayAssumption
<1>5. {} \in Watched /\ << >> \in Seq(Int) /\ Len(<< >>) = 0
    BY DEF Watched
<1>6. TCP_SS_RESP_IN_BUFSIZ \in Nat \ {0} /\ cut \in Nat /\ ResponseHeaderLen \in Nat \ {0}
  <2>1. Len(chunks) \in 1 .. Len(chunks)
      BY <1>1, StreamSizes DEF StreamOK
  <2> QED
      BY <1>1, <2>1, ChunkFacts, Sizes
<1> HIDE DEF fc, buf
<1>7. r \in Relays
    BY <1>4, <1>5 DEF Relays
<1>8. BufferOK(r)
    BY <1>6 DEF BufferOK
<1>9. FrameOK(r)
    BY <1>5 DEF FrameOK, HeaderOK
<1>10. PrefixOK(r)
    BY <1>5 DEF PrefixOK
<1>11. UpOK(r) /\ EndOK(r)
    BY <1>5 DEF UpOK, SealedOK, EndOK
<1>12. r.open = "open" /\ Settled(r)
    BY <1>6 DEF Settled, Needed
<1> HIDE DEF r
<1>13. RelayOK(s)
    BY <1>3, <1>7, <1>8, <1>9, <1>10, <1>11, <1>12, WatchersFacts DEF Kept, Outcome
<1> QED
    BY <1>1, <1>13 DEF RelayInv

\* An event changes the session, never the stream.
LEMMA SameStream ==
    ASSUME StreamOK, NEW q, RelayOK(q), s' = q, chunks' = chunks, cut' = cut
    PROVE  RelayInv'
<1>1. StreamOK'
    BY DEF StreamOK, Stream, ChunkEnd
<1>2. /\ q \in Relays /\ BufferOK(q) /\ FrameOK(q) /\ PrefixOK(q) /\ UpOK(q) /\ EndOK(q)
      /\ q.open # "garbled"
      /\ q.open = "truncated" => q.received = cut /\ CutShort
      /\ q.open = "done" => q.server_eof
      /\ q.open = "open" => /\ Settled(q)
                            /\ q.client_events = ClientEvents(q)
                            /\ q.server_events = ServerEvents(q)
    BY ONLY RelayOK(q) DEF RelayOK, Kept
<1>3. BufferOK(s)'
    BY <1>2 DEF BufferOK
<1>4. FrameOK(s)'
    BY <1>2 DEF FrameOK, HeaderOK, ChunkOK, Sent
<1>5. PrefixOK(s)'
    BY <1>2 DEF PrefixOK
<1>6. UpOK(s)' /\ EndOK(s)' /\ (s \in Relays)'
    BY <1>2 DEF UpOK, EndOK, Relays
<1>7. /\ CutShort => CutShort'
      /\ Settled(q) => Settled(s)'
    BY DEF CutShort, Settled, Needed
<1>8. ClientEvents(s)' = ClientEvents(q) /\ ServerEvents(s)' = ServerEvents(q)
    BY DEF ClientEvents, ServerEvents
<1>9. RelayOK(s)'
    BY <1>2, <1>3, <1>4, <1>5, <1>6, <1>7, <1>8 DEF RelayOK, Kept
<1> QED
    BY <1>1, <1>9 DEF RelayInv

LEMMA MidEvent ==
    ASSUME StreamOK, NEW w, Moving(w), UpOK(w), EndOK(w),
           NEW r \in tcp_relay_process_pending_server_data(w)
    PROVE  /\ Moving(r) /\ Settled(r) /\ UpOK(r) /\ EndOK(r)
           /\ r.server_eof = w.server_eof /\ r.client_eof = w.client_eof /\ r.in_len <= w.in_len
<1>1. Moving(r) /\ Settled(r) /\ SameElse(r, w) /\ r.in_len <= w.in_len
    BY PendingFacts
<1> QED
    BY <1>1, ElseFacts DEF Moving, SameElse

LEMMA ClientEventInv == RelayInv /\ ClientEvent => RelayInv'
<1> SUFFICES ASSUME RelayInv, ClientEvent PROVE RelayInv'
    OBVIOUS
<1>1. /\ StreamOK /\ s \in Relays /\ Moving(s) /\ UpOK(s) /\ EndOK(s)
      /\ s.client_events = ClientEvents(s)
    BY DEF RelayInv, RelayOK, Kept, Moving, ClientEvent
<1>2. PICK revents \in SUBSET s.client_events :
       \E w \in IF "write" \in revents THEN tcp_relay_write_to_client(s) ELSE {s} :
       \E r \in tcp_relay_process_pending_server_data(w) :
       \E q \in IF r.open = "open" /\ "read" \in revents /\ ClientReadDue(r)
                THEN tcp_relay_read_from_client(r) ELSE {r} :
          s' = tcp_relay_update_watchers(q)
    BY DEF ClientEvent
<1>3. PICK w \in IF "write" \in revents THEN tcp_relay_write_to_client(s) ELSE {s} :
       \E r \in tcp_relay_process_pending_server_data(w) :
       \E q \in IF r.open = "open" /\ "read" \in revents /\ ClientReadDue(r)
                THEN tcp_relay_read_from_client(r) ELSE {r} :
          s' = tcp_relay_update_watchers(q)
    BY <1>2
<1>4. PICK r \in tcp_relay_process_pending_server_data(w) :
       \E q \in IF r.open = "open" /\ "read" \in revents /\ ClientReadDue(r)
                THEN tcp_relay_read_from_client(r) ELSE {r} :
          s' = tcp_relay_update_watchers(q)
    BY <1>3
<1>5. PICK q \in IF r.open = "open" /\ "read" \in revents /\ ClientReadDue(r)
                 THEN tcp_relay_read_from_client(r) ELSE {r} :
          s' = tcp_relay_update_watchers(q)
    BY <1>4
<1>6. Moving(w) /\ UpOK(w) /\ EndOK(w) /\ w.client_eof = s.client_eof
  <2>1. CASE "write" \in revents
    <3>1. s.out_len > 0
        BY <1>1, <2>1 DEF ClientEvents
    <3>2. w \in tcp_relay_write_to_client(s)
        BY <2>1
    <3>3. Moving(w) /\ SameElse(w, s) /\ w.in_len <= s.in_len
        BY <1>1, <3>1, <3>2, WriteToClientFacts
    <3> QED
        BY <1>1, <3>3, ElseFacts DEF Moving, SameElse
  <2>2. CASE "write" \notin revents
    <3>1. w = s
        BY <2>2
    <3> QED
        BY <1>1, <3>1
  <2> QED
      BY <2>1, <2>2
<1>7. Moving(r) /\ Settled(r) /\ UpOK(r) /\ EndOK(r) /\ r.client_eof = w.client_eof
    BY <1>1, <1>6, MidEvent
<1>8. Moving(q) /\ Settled(q) /\ UpOK(q) /\ EndOK(q)
  <2>1. CASE r.open = "open" /\ "read" \in revents /\ ClientReadDue(r)
    <3>1. ~ s.client_eof
        BY <1>1, <2>1 DEF ClientEvents
    <3>2. q \in tcp_relay_read_from_client(r) /\ r.c2s_len = 0
        BY <2>1 DEF ClientReadDue
    <3>3. Moving(q) /\ UpOK(q) /\ EndOK(q) /\ SameDown(q, r)
        BY <1>6, <1>7, <3>1, <3>2, ReadFromClientFacts
    <3>4. Settled(q)
        BY <1>7, <3>3, DownFacts DEF Moving
    <3> QED
        BY <3>3, <3>4
  <2>2. CASE ~ (r.open = "open" /\ "read" \in revents /\ ClientReadDue(r))
    <3>1. q = r
        BY <2>2
    <3> QED
        BY <1>7, <3>1
  <2> QED
      BY <2>1, <2>2
<1>9. RelayOK(tcp_relay_update_watchers(q))
    BY <1>8, WatchersFacts DEF Moving, Kept, Outcome
<1>10. s' = tcp_relay_update_watchers(q) /\ chunks' = chunks /\ cut' = cut
    BY <1>5 DEF ClientEvent
<1> QED
    BY <1>1, <1>9, <1>10, SameStream

LEMMA ServerEventInv == RelayInv /\ ServerEvent => RelayInv'
<1> SUFFICES ASSUME RelayInv, ServerEvent PROVE RelayInv'
    OBVIOUS
<1>1. /\ StreamOK /\ s \in Relays /\ Moving(s) /\ UpOK(s) /\ EndOK(s)
      /\ s.server_events = ServerEvents(s)
    BY DEF RelayInv, RelayOK, Kept, Moving, ServerEvent
<1>2. PICK revents \in SUBSET s.server_events :
       \E w \in IF "write" \in revents THEN tcp_relay_write_to_server(s) ELSE {s} :
       \E r \in tcp_relay_process_pending_server_data(w) :
       \E q \in IF r.open = "open" /\ "read" \in revents /\ ServerReadDue(r)
                THEN tcp_relay_read_from_server(r) ELSE {r} :
          s' = tcp_relay_update_watchers(q)
    BY DEF ServerEvent
<1>3. PICK w \in IF "write" \in revents THEN tcp_relay_write_to_server(s) ELSE {s} :
       \E r \in tcp_relay_process_pending_server_data(w) :
       \E q \in IF r.open = "open" /\ "read" \in revents /\ ServerReadDue(r)
                THEN tcp_relay_read_from_server(r) ELSE {r} :
          s' = tcp_relay_update_watchers(q)
    BY <1>2
<1>4. PICK r \in tcp_relay_process_pending_server_data(w) :
       \E q \in IF r.open = "open" /\ "read" \in revents /\ ServerReadDue(r)
                THEN tcp_relay_read_from_server(r) ELSE {r} :
          s' = tcp_relay_update_watchers(q)
    BY <1>3
<1>5. PICK q \in IF r.open = "open" /\ "read" \in revents /\ ServerReadDue(r)
                 THEN tcp_relay_read_from_server(r) ELSE {r} :
          s' = tcp_relay_update_watchers(q)
    BY <1>4
<1>6. /\ Moving(w) /\ UpOK(w) /\ EndOK(w)
      /\ w.server_eof = s.server_eof /\ w.in_len = s.in_len
  <2>1. CASE "write" \in revents
    <3>1. w \in tcp_relay_write_to_server(s)
        BY <2>1
    <3> QED
        BY <1>1, <3>1, WriteToServerFacts DEF SameDown
  <2>2. CASE "write" \notin revents
    <3>1. w = s
        BY <2>2
    <3> QED
        BY <1>1, <3>1
  <2> QED
      BY <2>1, <2>2
<1>7. /\ Moving(r) /\ Settled(r) /\ UpOK(r) /\ EndOK(r)
      /\ r.server_eof = w.server_eof /\ r.in_len <= w.in_len
    BY <1>1, <1>6, MidEvent
<1>8. Kept(q) /\ Outcome(q)
  <2>1. CASE r.open = "open" /\ "read" \in revents /\ ServerReadDue(r)
    <3>1. ~ s.server_eof /\ s.in_len < TCP_SS_RESP_IN_BUFSIZ
        BY <1>1, <2>1 DEF ServerEvents
    <3>2. q \in tcp_relay_read_from_server(r) /\ r.out_len = 0
        BY <2>1 DEF ServerReadDue
    <3>3. r.in_len < TCP_SS_RESP_IN_BUFSIZ
      <4>1. /\ r.in_len \in Nat /\ s.in_len \in Nat /\ TCP_SS_RESP_IN_BUFSIZ \in Nat
            /\ r.in_len <= s.in_len
          BY <1>1, <1>6, <1>7, FieldTypes, Sizes DEF Moving
      <4> QED
          BY <3>1, <4>1
    <3> QED
        BY <1>1, <1>6, <1>7, <3>1, <3>2, <3>3, ReadFromServerFacts
  <2>2. CASE ~ (r.open = "open" /\ "read" \in revents /\ ServerReadDue(r))
    <3>1. q = r
        BY <2>2
    <3> QED
        BY <1>7, <3>1 DEF Moving, Kept, Outcome
  <2> QED
      BY <2>1, <2>2
<1>9. RelayOK(tcp_relay_update_watchers(q))
    BY <1>8, WatchersFacts
<1>10. s' = tcp_relay_update_watchers(q) /\ chunks' = chunks /\ cut' = cut
    BY <1>5 DEF ServerEvent
<1> QED
    BY <1>1, <1>9, <1>10, SameStream

LEMMA SocketErrorInv == RelayInv /\ SocketError => RelayInv'
<1> SUFFICES ASSUME RelayInv, SocketError PROVE RelayInv'
    OBVIOUS
<1> DEFINE q == [s EXCEPT !.open = "reset"]
<1>1. StreamOK /\ Kept(s) /\ s \in Relays
    BY DEF RelayInv, RelayOK, Kept
<1>2. q \in Relays
    BY <1>1 DEF Relays
<1>3. /\ SameDown(q, s) /\ q.open = "reset"
      /\ q.client_eof = s.client_eof /\ q.server_shutdown_sent = s.server_shutdown_sent
      /\ q.sealed = s.sealed /\ q.to_server = s.to_server /\ SameC2s(q, s)
      /\ q.server_eof = s.server_eof /\ q.client_shutdown_sent = s.client_shutdown_sent
    BY <1>1 DEF Relays, SameDown, SameC2s
<1>4. s' = q /\ chunks' = chunks /\ cut' = cut
    BY DEF SocketError
<1> HIDE DEF q
<1>5. BufferOK(q) /\ FrameOK(q) /\ PrefixOK(q)
    BY <1>1, <1>3, DownFacts DEF Kept
<1>6. UpOK(q) /\ EndOK(q)
    BY <1>1, <1>3 DEF Kept, UpOK, EndOK, SameDown, SameC2s
<1>7. RelayOK(q)
    BY <1>2, <1>3, <1>5, <1>6 DEF RelayOK, Kept
<1> QED
    BY <1>1, <1>4, <1>7, SameStream

\* The invariant holds in every reachable state.
LEMMA RelayInvariant == Spec => []RelayInv
<1>1. Init => RelayInv
    BY InitInv
<1>2. RelayInv /\ [Next]_vars => RelayInv'
  <2> SUFFICES ASSUME RelayInv, [Next]_vars PROVE RelayInv'
      OBVIOUS
  <2>1. CASE ClientEvent
      BY <2>1, ClientEventInv
  <2>2. CASE ServerEvent
      BY <2>2, ServerEventInv
  <2>3. CASE SocketError
      BY <2>3, SocketErrorInv
  <2>4. CASE UNCHANGED vars
    <3>1. StreamOK /\ RelayOK(s) /\ s' = s /\ chunks' = chunks /\ cut' = cut
        BY <2>4 DEF RelayInv, vars
    <3> QED
        BY <3>1, SameStream
  <2> QED
      BY <2>1, <2>2, <2>3, <2>4 DEF Next
<1> QED
    BY <1>1, <1>2, PTL DEF Spec

-----------------------------------------------------------------------------
(* What the invariant says about the session.                              *)

LEMMA InvGivesTypes == RelayInv => RelayTypeOK
<1> SUFFICES ASSUME RelayInv PROVE RelayTypeOK
    OBVIOUS
<1>1. s \in Relays /\ BufferOK(s) /\ FrameOK(s)
    BY DEF RelayInv, RelayOK, Kept
<1>t. /\ s.in_head \in Nat /\ s.in_len \in Nat /\ TCP_SS_RESP_IN_BUFSIZ \in Nat
      /\ s.out_off \in Nat /\ s.out_len \in Nat /\ s.response_payload_len \in Nat
      /\ TCP_SS2022_TAG_LEN \in Nat /\ s.client_events \in Watched /\ s.server_events \in Watched
    BY <1>1, FieldTypes, Sizes
<1>2. s.open \in {"open", "done", "reset", "truncated", "garbled"}
    BY <1>1 DEF Relays
<1>3. s.in_head + s.in_len <= TCP_SS_RESP_IN_BUFSIZ /\ s.in_consume <= s.in_len
    BY <1>1 DEF BufferOK
<1>4. s.in_head \in 0 .. TCP_SS_RESP_IN_BUFSIZ /\ s.in_len \in 0 .. TCP_SS_RESP_IN_BUFSIZ
    BY <1>t, <1>3
<1>5. s.out_len > 0 => s.out_off + s.out_len + TCP_SS2022_TAG_LEN = s.in_consume
    BY <1>1 DEF FrameOK
<1>6. s.client_events \subseteq {"read", "write"} /\ s.server_events \subseteq {"read", "write"}
    BY <1>t DEF Watched
<1> QED
    BY <1>2, <1>3, <1>4, <1>5, <1>6 DEF RelayTypeOK

LEMMA InvGivesPrefix == RelayInv => ClientGetsPrefix
<1> SUFFICES ASSUME RelayInv PROVE ClientGetsPrefix
    OBVIOUS
<1> DEFINE t == s.to_client
           p == Plain(chunks)
           n == Len(t)
<1>1. StreamOK /\ s \in Relays /\ PrefixOK(s) /\ s.open # "garbled"
    BY DEF RelayInv, RelayOK, Kept
<1>2. t \in Seq(Int) /\ n \in Nat
    BY <1>1, FieldTypes
<1>3. p \in Seq(Int)
    BY <1>1, PlainFacts DEF StreamOK
<1>4. \A k \in 1 .. n : k <= Len(p) /\ t[k] = p[k]
    BY <1>1 DEF PrefixOK
<1> HIDE DEF t, p
<1>5. Len(p) \in Nat
    BY <1>3
<1>6. n <= Len(p)
  <2>1. n = 0 \/ n \in 1 .. n
      BY <1>2
  <2> QED
      BY <1>4, <1>5, <2>1
<1>7. t = SubSeq(p, 1, n)
  <2> DEFINE u == SubSeq(p, 1, n)
  <2>1. \A k \in 1 .. n : p[k] \in Int
      BY <1>2, <1>3, <1>5, <1>6
  <2>2. /\ u \in Seq(Int)
        /\ Len(u) = IF 1 <= n THEN n - 1 + 1 ELSE 0
        /\ \A i \in 1 .. n - 1 + 1 : u[i] = p[1 + i - 1]
      BY <1>2, <2>1, SubSeqProperties
  <2>3. n - 1 + 1 = n /\ (IF 1 <= n THEN n ELSE 0) = n /\ \A i \in 1 .. n : 1 + i - 1 = i
      BY <1>2
  <2>4. u \in Seq(Int) /\ Len(u) = n /\ \A i \in 1 .. n : u[i] = p[i]
      BY <2>2, <2>3
  <2> HIDE DEF u
  <2>5. u = t
      BY <1>2, <1>4, <2>4, SeqEqual
  <2> QED
      BY <2>5 DEF u
<1> QED
    BY <1>1, <1>6, <1>7 DEF ClientGetsPrefix, t, p

\* As many bytes of the plain text are at or before the end of a chunk as the chunks
\* up to it carry.
LEMMA PlainBeforeEnd ==
    ASSUME StreamOK, NEW i \in 1 .. Len(chunks), cut = ChunkEnd(chunks)[i]
    PROVE  Cardinality({k \in 1 .. Len(Plain(chunks)) : Plain(chunks)[k] <= cut}) = Sent(chunks, i)
<1> DEFINE n == Sent(chunks, i)
           l == Len(Plain(chunks))
           A == {k \in 1 .. l : Plain(chunks)[k] <= cut}
<1>1. i \in 0 .. Len(chunks)
    BY StreamSizes DEF StreamOK
<1>2. n \in 0 .. l /\ l \in Nat
    BY <1>1, PlainFacts DEF StreamOK
<1>3. \A k \in 1 .. l : Plain(chunks)[k] <= cut <=> k <= n
    BY <1>1, PlainFacts DEF StreamOK
<1> HIDE DEF n, l
<1>4. A = 1 .. n
    BY <1>2, <1>3
<1>5. Cardinality(1 .. n) = n
  <2>1. n \in Nat /\ n - 1 + 1 = n
      BY <1>2
  <2>2. 1 \in Int /\ n \in Int
      BY <2>1
  <2>3. Cardinality(1 .. n) = IF 1 > n THEN 0 ELSE n - 1 + 1
      BY <2>2, FS_Interval
  <2> QED
      BY <2>1, <2>3
<1>6. Cardinality(A) = n
    BY <1>4, <1>5
<1> QED
    BY <1>6 DEF n, l

LEMMA InvGivesEnd == RelayInv => EndIsTheEnd
<1> SUFFICES ASSUME RelayInv PROVE EndIsTheEnd
    OBVIOUS
<1>1. /\ StreamOK /\ s \in Relays /\ BufferOK(s) /\ FrameOK(s) /\ EndOK(s)
      /\ s.open = "done" => s.server_eof
      /\ s.open = "truncated" => s.received = cut /\ CutShort
    BY DEF RelayInv, RelayOK, Kept
<1>2. s.server_eof \/ s.client_shutdown_sent \/ s.open = "done" => s.server_eof
    BY <1>1 DEF EndOK
<1>3. ASSUME s.server_eof
      PROVE  /\ s.received = cut /\ s.opened = cut
             /\ \E i \in 1 .. Len(chunks) : cut = ChunkEnd(chunks)[i]
             /\ Len(s.to_client) = Cardinality({k \in 1 .. Len(Plain(chunks)) : Plain(chunks)[k] <= cut})
  <2>1. /\ s.received = cut /\ s.opened = cut
        /\ \E i \in 1 .. Len(chunks) : /\ cut = ChunkEnd(chunks)[i]
                                       /\ Len(s.to_client) = Sent(chunks, i)
      BY <1>1, <1>3, EndedFacts
  <2>2. PICK i \in 1 .. Len(chunks) : /\ cut = ChunkEnd(chunks)[i]
                                      /\ Len(s.to_client) = Sent(chunks, i)
      BY <2>1
  <2>3. Cardinality({k \in 1 .. Len(Plain(chunks)) : Plain(chunks)[k] <= cut}) = Sent(chunks, i)
      BY <1>1, <2>2, PlainBeforeEnd
  <2> QED
      BY <2>1, <2>2, <2>3
<1> QED
    BY <1>1, <1>2, <1>3 DEF EndIsTheEnd, CutShort

LEMMA InvGivesSealed == RelayInv => SealedIsSent
<1> SUFFICES ASSUME RelayInv PROVE SealedIsSent
    OBVIOUS
<1> DEFINE t == s.to_server
           n == Len(t)
<1>1. UpOK(s) /\ t \in Seq(Int) /\ n \in Nat /\ s.c2s_len \in Nat
    BY FieldTypes DEF RelayInv, RelayOK, Kept
<1>2. /\ \A k \in 1 .. n : t[k] = k
      /\ s.sealed = n + s.c2s_len
      /\ s.server_shutdown_sent => s.client_eof /\ s.c2s_len = 0
    BY <1>1 DEF UpOK, SealedOK
<1> HIDE DEF t
<1>3. t = [k \in 1 .. n |-> t[k]]
    BY <1>1
<1> HIDE DEF n
<1>4. n - 1 + 1 = n /\ n + 0 = n /\ \A k \in 1 .. n : 1 + k - 1 = k
    BY <1>1
<1>5. t = Positions(1, n)
    BY <1>2, <1>3, <1>4 DEF Positions
<1> QED
    BY <1>2, <1>4, <1>5 DEF SealedIsSent, t, n

-----------------------------------------------------------------------------
(* The theorems.                                                           *)

\* The positions in the relay's buffers stay inside them, for every size of the
\* buffers, every stream and every split of it by the reads and the sends.
THEOREM BuffersHold == Spec => []RelayTypeOK
BY RelayInvariant, InvGivesTypes, PTL

\* The client receives the server's plain text from its beginning, without a gap, a
\* repetition or a byte of the framing, and an honest stream is never refused.
THEOREM PlainTextInOrder == Spec => []ClientGetsPrefix
BY RelayInvariant, InvGivesPrefix, PTL

\* The client is told of the end only when the server ended at the end of a chunk and
\* all of the text was sent; a session is given up as cut short only when it was.
THEOREM EndIsNeverInvented == Spec => []EndIsTheEnd
BY RelayInvariant, InvGivesEnd, PTL

\* The server receives what was sealed for it from the first byte on, each byte once and
\* in order, however the sends split the chunks, and is told of the client's end after
\* the last one.
THEOREM SealedBytesSent == Spec => []SealedIsSent
BY RelayInvariant, InvGivesSealed, PTL

=============================================================================
