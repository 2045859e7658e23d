---------------------------- MODULE MempoolProofs ----------------------------
(***************************************************************************)
(* What TLAPS proves of Mempool for every size of a block, every limit,    *)
(* every step of growth and every sequence of calls, wrong ones included.  *)
(***************************************************************************)
EXTENDS Mempool, FiniteSetTheorems, SequenceTheorems, TLAPS

-----------------------------------------------------------------------------
(* The inductive invariant.                                                *)

HeadersIn(s) == UNION {HeadersOf(k, s[k]) : k \in 1 .. Len(s)}
InUse(m) == {a \in DOMAIN m : m[a] = "pool"}

\* The list holds the free headers, each once.
ListIsFree(list, m) ==
    /\ \A j \in 1 .. Len(list) : list[j] \in DOMAIN m \ InUse(m)
    /\ \A a \in DOMAIN m \ InUse(m) : \E j \in 1 .. Len(list) : list[j] = a
    /\ \A i, j \in 1 .. Len(list) : list[i] = list[j] => i = j

\* The fields slabs, magic, free list, pool_blocks and free_count agree.
FieldsOK(s, m, list, blocks, count) ==
    /\ s \in Seq(Nat \ {0})
    /\ m \in [HeadersIn(s) -> {"free", "pool"}]
    /\ list \in Seq(HeadersIn(s))
    /\ ListIsFree(list, m)
    /\ count = Len(list) /\ blocks \in Nat
    /\ IsFiniteSet(InUse(m)) /\ Cardinality(InUse(m)) + count = blocks

PoolInv ==
    /\ FieldsOK(slabs, magic, free_list, pool_blocks, free_count)
    /\ pool_blocks <= max_blocks
    /\ created \in BOOLEAN /\ max_blocks \in Nat /\ leaks \in Nat
    /\ last_freed_slab \in 0 .. Len(slabs)
    /\ ~ created => slabs = <<>> /\ pool_blocks = 0

-----------------------------------------------------------------------------
(* Headers.                                                                *)

LEMMA Scaling ==
    ASSUME NEW t \in Nat \ {0}
    PROVE  /\ \A i, j \in Nat : i * t = j * t => i = j
           /\ \A i, j \in Nat : i * t < j * t => i < j
           /\ \A i, j \in Nat : i < j => i * t < j * t
           /\ \A o \in Nat : o % t = 0 => \E j \in Nat : o = j * t
           /\ \A j \in Nat : j * t \in Nat /\ (j * t) % t = 0
<1>1. \A i, j \in Nat : i < j => i * t < j * t
  <2> SUFFICES ASSUME NEW i \in Nat, NEW j \in Nat, i < j PROVE i * t < j * t
      OBVIOUS
  <2>1. PICK d \in Nat \ {0} : j = i + d
    <3>1. j - i \in Nat \ {0} /\ j = i + (j - i)
        OBVIOUS
    <3> QED
        BY <3>1
  <2>2. j * t = i * t + d * t
      BY <2>1
  <2>3. d * t \in Nat \ {0} /\ i * t \in Nat
      OBVIOUS
  <2> QED
      BY <2>2, <2>3
<1>2. \A i \in Nat : i * t \in Nat
    OBVIOUS
<1>3. \A o \in Nat : o % t = 0 => \E j \in Nat : o = j * t
  <2> SUFFICES ASSUME NEW o \in Nat, o % t = 0 PROVE \E j \in Nat : o = j * t
      OBVIOUS
  <2>1. o \div t \in Nat /\ o = (o \div t) * t + (o % t)
      OBVIOUS
  <2>2. (o \div t) * t \in Nat
      BY <2>1
  <2>3. o = (o \div t) * t
      BY <2>1, <2>2
  <2> QED
      BY <2>1, <2>3
<1>4. \A i, j \in Nat : i * t < j * t => i < j
  <2> SUFFICES ASSUME NEW i \in Nat, NEW j \in Nat, i * t < j * t, j <= i PROVE FALSE
      OBVIOUS
  <2>1. i = j \/ j * t < i * t
      BY <1>1
  <2> QED
      BY <1>2, <2>1
<1>5. \A i, j \in Nat : i * t = j * t => i = j
  <2> SUFFICES ASSUME NEW i \in Nat, NEW j \in Nat, i * t = j * t, i # j PROVE FALSE
      OBVIOUS
  <2>1. i < j \/ j < i
      OBVIOUS
  <2> QED
      BY <1>1, <1>2, <2>1
<1>6. \A j \in Nat : (j * t) % t = 0
  <2> SUFFICES ASSUME NEW j \in Nat PROVE (j * t) % t = 0
      OBVIOUS
  <2>1. PICK o \in Nat : o = j * t
      BY <1>2
  <2>2. PICK q \in Nat, r \in 0 .. t - 1 : o = q * t + r /\ r = o % t
    <3>1. o \div t \in Nat /\ o % t \in 0 .. t - 1 /\ o = (o \div t) * t + (o % t)
        OBVIOUS
    <3> QED
        BY <3>1
  <2>3. (q + 1) * t = q * t + t
      OBVIOUS
  <2>4. q * t <= j * t /\ j * t < (q + 1) * t
      BY <1>2, <2>1, <2>2, <2>3
  <2>5. ~ (j < q) /\ j < q + 1
      BY <1>1, <1>2, <1>4, <2>4
  <2>6. j = q
      BY <2>5
  <2>7. PICK y \in Nat : y = q * t
      BY <1>2
  <2>8. o = y /\ o = y + r
      BY <2>1, <2>2, <2>6, <2>7
  <2>9. r = 0
      BY <2>8
  <2>10. o % t = 0
      BY <2>2, <2>9
  <2> QED
      BY <2>1, <2>10
<1> QED
    BY <1>1, <1>2, <1>3, <1>4, <1>5, <1>6

LEMMA HeadersInFacts ==
    ASSUME NEW s \in Seq(Nat \ {0}), NEW a
    PROVE  a \in HeadersIn(s) <=> \E k \in 1 .. Len(s) : \E j \in 0 .. s[k] - 1 :
                                     a = At(k, j * total_size)
BY DEF HeadersIn, HeadersOf

\* A new slab adds headers that were not there.
LEMMA AppendFacts ==
    ASSUME NEW s \in Seq(Nat \ {0}), NEW n \in Nat \ {0}
    PROVE  /\ Append(s, n) \in Seq(Nat \ {0}) /\ Len(Append(s, n)) = Len(s) + 1
           /\ HeadersIn(Append(s, n)) = HeadersIn(s) \cup HeadersOf(Len(s) + 1, n)
           /\ HeadersIn(s) \cap HeadersOf(Len(s) + 1, n) = {}
<1> DEFINE u == Append(s, n)
           k == Len(s) + 1
<1>1. /\ u \in Seq(Nat \ {0}) /\ Len(u) = k /\ u[k] = n /\ k \in Nat /\ Len(s) \in Nat
      /\ \A i \in 1 .. Len(s) : u[i] = s[i]
    OBVIOUS
<1> HIDE DEF u
<1>2. HeadersIn(u) = HeadersIn(s) \cup HeadersOf(k, n)
  <2>1. 1 .. k = (1 .. Len(s)) \cup {k}
      BY <1>1
  <2> HIDE DEF k
  <2> QED
      BY <1>1, <2>1 DEF HeadersIn
<1>3. HeadersIn(s) \cap HeadersOf(k, n) = {}
  <2> SUFFICES ASSUME NEW i \in 1 .. Len(s), NEW a \in HeadersOf(i, s[i]), a \in HeadersOf(k, n)
               PROVE  FALSE
      BY DEF HeadersIn
  <2>1. a.slab = i /\ a.slab = k
      BY DEF HeadersOf, At
  <2> QED
      BY <1>1, <2>1
<1> QED
    BY <1>1, <1>2, <1>3 DEF u

\* The addresses that pass verify_boundary are the headers of the slab.
LEMMA BoundaryFacts ==
    ASSUME slabs \in Seq(Nat \ {0}), NEW k \in 0 .. Len(slabs), NEW a \in Addresses,
           verify_boundary(k, a)
    PROVE  a \in HeadersIn(slabs) /\ k # 0
<1>1. k \in 1 .. Len(slabs) /\ a.slab = k /\ a.off < slabs[k] * total_size
      /\ a.off % total_size = 0 /\ slabs[k] \in Nat \ {0} /\ total_size \in Nat \ {0}
    BY MempoolAssumption DEF verify_boundary
<1>2. PICK o \in Nat : a = At(k, o)
  <2>1. CASE a = At(0, 0)
      BY <1>1, <2>1 DEF At
  <2>2. ASSUME NEW i \in 1 .. Len(slabs), NEW o \in 0 .. slabs[i] * total_size, a = At(i, o)
        PROVE  \E q \in Nat : a = At(k, q)
    <3>1. o \in Nat /\ i = k
        BY <1>1, <2>2 DEF At
    <3> QED
        BY <2>2, <3>1
  <2> QED
      BY <2>1, <2>2 DEF Addresses
<1>3. o < slabs[k] * total_size /\ o % total_size = 0
    BY <1>1, <1>2 DEF At
<1>4. PICK j \in Nat : o = j * total_size
    BY <1>1, <1>3, Scaling
<1>5. j < slabs[k]
    BY <1>1, <1>3, <1>4, Scaling
<1>6. j \in 0 .. slabs[k] - 1
    BY <1>1, <1>5
<1> QED
    BY <1>1, <1>2, <1>4, <1>6, HeadersInFacts

-----------------------------------------------------------------------------
(* The free list.                                                          *)

Once(l) == \A i, j \in 1 .. Len(l) : l[i] = l[j] => i = j
Apart(l1, l2) == \A i \in 1 .. Len(l1), j \in 1 .. Len(l2) : l1[i] # l2[j]

\* l has the elements of l1 and of l2.
Joined(l, l1, l2) ==
    /\ Len(l) = Len(l1) + Len(l2)
    /\ \A j \in 1 .. Len(l) : \/ \E i \in 1 .. Len(l1) : l[j] = l1[i]
                              \/ \E i \in 1 .. Len(l2) : l[j] = l2[i]
    /\ \A i \in 1 .. Len(l1) : \E j \in 1 .. Len(l) : l[j] = l1[i]
    /\ \A i \in 1 .. Len(l2) : \E j \in 1 .. Len(l) : l[j] = l2[i]

\* Free headers, each once, in front of a list of others.
LEMMA PrependFacts ==
    ASSUME NEW S, NEW l1 \in Seq(S), NEW l2 \in Seq(S), Once(l1), Once(l2), Apart(l1, l2),
           NEW l, l = l1 \o l2
    PROVE  l \in Seq(S) /\ Once(l) /\ Joined(l, l1, l2)
<1>1. /\ l \in Seq(S) /\ Len(l) = Len(l1) + Len(l2)
      /\ \A i \in 1 .. Len(l1) + Len(l2) : l[i] = IF i <= Len(l1) THEN l1[i] ELSE l2[i - Len(l1)]
    BY ConcatProperties
<1>2. Len(l1) \in Nat /\ Len(l2) \in Nat
    OBVIOUS
<1>3. \A i \in 1 .. Len(l1) : i \in 1 .. Len(l) /\ l[i] = l1[i]
    BY <1>1, <1>2
<1>4. \A i \in 1 .. Len(l2) : Len(l1) + i \in 1 .. Len(l) /\ l[Len(l1) + i] = l2[i]
    BY <1>1, <1>2
<1>5. \A j \in 1 .. Len(l) : \/ j \in 1 .. Len(l1) /\ l[j] = l1[j]
                             \/ j - Len(l1) \in 1 .. Len(l2) /\ l[j] = l2[j - Len(l1)]
    BY <1>1, <1>2
<1>6. \A i, j \in 1 .. Len(l) : l[i] = l[j] => i = j
  <2> SUFFICES ASSUME NEW i \in 1 .. Len(l), NEW j \in 1 .. Len(l), l[i] = l[j] PROVE i = j
      OBVIOUS
  <2>1. CASE i \in 1 .. Len(l1) /\ l[i] = l1[i] /\ j \in 1 .. Len(l1) /\ l[j] = l1[j]
      BY <2>1 DEF Once
  <2>2. CASE /\ i - Len(l1) \in 1 .. Len(l2) /\ l[i] = l2[i - Len(l1)]
             /\ j - Len(l1) \in 1 .. Len(l2) /\ l[j] = l2[j - Len(l1)]
    <3>1. i - Len(l1) = j - Len(l1)
        BY <2>2 DEF Once
    <3> QED
        BY <1>1, <1>2, <3>1
  <2> QED
      BY <1>5, <2>1, <2>2 DEF Apart
<1> QED
    BY <1>1, <1>3, <1>4, <1>5, <1>6 DEF Once, Joined

\* expand_pool_batch: the blocks of the new slab are free and on the list.
LEMMA ExpandedOK ==
    ASSUME NEW s, NEW m, NEW list, NEW blocks, NEW count, FieldsOK(s, m, list, blocks, count),
           NEW n \in Nat \ {0}, NEW e,
           e = Expanded([slabs |-> s, magic |-> m, free |-> list,
                         blocks |-> blocks, count |-> count], n)
    PROVE  /\ FieldsOK(e.slabs, e.magic, e.free, e.blocks, e.count)
           /\ e.blocks = blocks + n /\ e.free # <<>> /\ InUse(e.magic) = InUse(m)
           /\ Len(e.slabs) = Len(s) + 1
           /\ e = [slabs |-> e.slabs, magic |-> e.magic, free |-> e.free,
                   blocks |-> e.blocks, count |-> e.count]
<1> DEFINE k == Len(s) + 1
           H == HeadersIn(s)
           G == HeadersOf(k, n)
           l == Linked(k, n)
<1>1. /\ s \in Seq(Nat \ {0}) /\ m \in [H -> {"free", "pool"}] /\ list \in Seq(H)
      /\ ListIsFree(list, m) /\ count = Len(list) /\ blocks \in Nat /\ Len(list) \in Nat
      /\ IsFiniteSet(InUse(m)) /\ Cardinality(InUse(m)) + count = blocks
    BY DEF FieldsOK
<1>2. /\ e.slabs = Append(s, n) /\ e.free = l \o list
      /\ e.magic = [a \in H \cup G |-> IF a \in H THEN m[a] ELSE "free"]
      /\ e.blocks = blocks + n /\ e.count = count + n
      /\ e = [slabs |-> e.slabs, magic |-> e.magic, free |-> e.free,
              blocks |-> e.blocks, count |-> e.count]
  <2>1. DOMAIN m = H
      BY <1>1
  <2> HIDE DEF H, G, l
  <2> QED
      BY <2>1 DEF Expanded, H, G, l
<1>3. /\ e.slabs \in Seq(Nat \ {0}) /\ Len(e.slabs) = k
      /\ HeadersIn(e.slabs) = H \cup G /\ H \cap G = {}
  <2>1. /\ Append(s, n) \in Seq(Nat \ {0}) /\ Len(Append(s, n)) = k
        /\ HeadersIn(Append(s, n)) = H \cup G /\ H \cap G = {}
      BY <1>1, AppendFacts
  <2> HIDE DEF H, G, k
  <2> QED
      BY <1>2, <2>1
<1>4. /\ l \in Seq(H \cup G) /\ Len(l) = n /\ \A j \in 1 .. n : l[j] \in G
      /\ \A i, j \in 1 .. n : l[i] = l[j] => i = j
      /\ \A a \in G : \E j \in 1 .. n : l[j] = a
  <2>1. l = [j \in 1 .. n |-> At(k, (j - 1) * total_size)]
      BY DEF Linked
  <2>2. \A j \in 1 .. n : l[j] \in G
    <3> SUFFICES ASSUME NEW j \in 1 .. n PROVE l[j] \in G
        OBVIOUS
    <3>1. j - 1 \in 0 .. n - 1 /\ l[j] = At(k, (j - 1) * total_size)
        BY <2>1
    <3> QED
        BY <3>1 DEF HeadersOf
  <2>3. \A i, j \in 1 .. n : l[i] = l[j] => i = j
    <3> SUFFICES ASSUME NEW i \in 1 .. n, NEW j \in 1 .. n, l[i] = l[j] PROVE i = j
        OBVIOUS
    <3>1. i - 1 \in Nat /\ j - 1 \in Nat /\ total_size \in Nat \ {0}
        BY MempoolAssumption
    <3>2. (i - 1) * total_size = (j - 1) * total_size
        BY <2>1 DEF At
    <3>3. i - 1 = j - 1
        BY <3>1, <3>2, Scaling
    <3> QED
        BY <3>3
  <2>4. \A a \in G : \E j \in 1 .. n : l[j] = a
    <3> SUFFICES ASSUME NEW i \in 0 .. n - 1
                 PROVE  \E j \in 1 .. n : l[j] = At(k, i * total_size)
        BY DEF HeadersOf
    <3>1. i + 1 \in 1 .. n /\ (i + 1) - 1 = i
        OBVIOUS
    <3> QED
        BY <2>1, <3>1
  <2> HIDE DEF l, G, H
  <2>5. l \in Seq(H \cup G) /\ Len(l) = n
    <3>1. l \in [1 .. n -> H \cup G]
        BY <2>1, <2>2
    <3> QED
        BY <3>1
  <2> QED
      BY <2>2, <2>3, <2>4, <2>5
<1> HIDE DEF l, G, H
<1>5. /\ e.magic \in [H \cup G -> {"free", "pool"}] /\ InUse(e.magic) = InUse(m)
      /\ DOMAIN e.magic = H \cup G
  <2>1. e.magic \in [H \cup G -> {"free", "pool"}]
      BY <1>1, <1>2
  <2>2. \A a : a \in InUse(e.magic) <=> a \in InUse(m)
      BY <1>1, <1>2 DEF InUse
  <2> QED
      BY <2>1, <2>2
<1>6. list \in Seq(H \cup G)
    BY <1>1
<1>7. /\ \A j \in 1 .. Len(list) : list[j] \in H \ InUse(m)
      /\ \A a \in H \ InUse(m) : \E j \in 1 .. Len(list) : list[j] = a
      /\ \A i, j \in 1 .. Len(list) : list[i] = list[j] => i = j
  <2>1. DOMAIN m = H
      BY <1>1
  <2> QED
      BY <1>1, <2>1 DEF ListIsFree
<1>8. /\ \A i, j \in 1 .. Len(l) : l[i] = l[j] => i = j
      /\ \A j \in 1 .. Len(l) : l[j] \in G
      /\ \A i \in 1 .. Len(l), j \in 1 .. Len(list) : l[i] # list[j]
  <2>1. \A i, j \in 1 .. Len(l) : l[i] = l[j] => i = j
      BY <1>4
  <2>2. \A j \in 1 .. Len(l) : l[j] \in G
      BY <1>4
  <2> QED
      BY <1>3, <1>7, <2>1, <2>2
<1>9. PICK f : f = l \o list
    OBVIOUS
<1>10. f \in Seq(H \cup G) /\ Once(f) /\ Joined(f, l, list)
  <2>1. PICK S : S = H \cup G
      OBVIOUS
  <2>2. l \in Seq(S) /\ list \in Seq(S)
      BY <1>4, <1>6, <2>1
  <2>3. Once(l) /\ Once(list) /\ Apart(l, list)
      BY <1>7, <1>8 DEF Once, Apart
  <2>4. f \in Seq(S) /\ Once(f) /\ Joined(f, l, list)
      BY <1>9, <2>2, <2>3, PrependFacts
  <2> QED
      BY <2>1, <2>4
<1>11. e.free = f
    BY <1>2, <1>9
<1>12. G \cap InUse(m) = {} /\ InUse(m) \subseteq H
    BY <1>1, <1>3 DEF InUse
<1>13. ListIsFree(f, e.magic)
  <2>1. ASSUME NEW j \in 1 .. Len(f) PROVE f[j] \in (H \cup G) \ InUse(m)
    <3>1. \/ \E i \in 1 .. Len(l) : f[j] = l[i]
          \/ \E i \in 1 .. Len(list) : f[j] = list[i]
        BY <1>10 DEF Joined
    <3>2. CASE \E i \in 1 .. Len(l) : f[j] = l[i]
      <4>1. f[j] \in G
          BY ONLY <1>8, <3>2
      <4> QED
          BY ONLY <1>12, <4>1
    <3>3. CASE \E i \in 1 .. Len(list) : f[j] = list[i]
      <4>1. f[j] \in H \ InUse(m)
          BY ONLY <1>7, <3>3
      <4> QED
          BY ONLY <4>1
    <3> QED
        BY ONLY <3>1, <3>2, <3>3
  <2>2. \A a \in (H \cup G) \ InUse(m) : \E j \in 1 .. Len(f) : f[j] = a
    <3> SUFFICES ASSUME NEW a \in (H \cup G) \ InUse(m) PROVE \E j \in 1 .. Len(f) : f[j] = a
        OBVIOUS
    <3>1. CASE a \in G
      <4>1. PICK i \in 1 .. Len(l) : l[i] = a
          BY <1>4, <3>1
      <4> QED
          BY <1>10, <4>1 DEF Joined
    <3>2. CASE a \in H
      <4>1. PICK i \in 1 .. Len(list) : list[i] = a
          BY <1>7, <3>2
      <4> QED
          BY <1>10, <4>1 DEF Joined
    <3> QED
        BY <3>1, <3>2
  <2> QED
      BY <1>5, <1>10, <2>1, <2>2 DEF ListIsFree, Once
<1>14. e.free # <<>>
  <2>1. Len(f) # 0
      BY <1>1, <1>4, <1>10 DEF Joined
  <2> QED
      BY <1>11, <2>1, EmptySeq
<1>15. Cardinality(InUse(m)) \in Nat
    BY <1>1, FS_CardinalityType
<1>16. e.count = Len(e.free) /\ e.blocks \in Nat
       /\ Cardinality(InUse(e.magic)) + e.count = e.blocks
  <2> DEFINE u == Cardinality(InUse(m))
  <2>1. Len(f) = Len(l) + Len(list) /\ Len(l) = n
      BY <1>4, <1>10 DEF Joined
  <2>2. u \in Nat /\ u + count = blocks /\ count = Len(list) /\ count \in Nat /\ blocks \in Nat
      BY <1>1, <1>15
  <2>3. Cardinality(InUse(e.magic)) = u /\ Len(e.free) = Len(f)
      BY <1>5, <1>11
  <2>4. e.blocks = blocks + n /\ e.count = count + n
      BY <1>2
  <2> DEFINE x == Len(list)
             y == Len(f)
  <2>5. /\ y = n + x /\ u \in Nat /\ u + count = blocks /\ count = x /\ count \in Nat
        /\ blocks \in Nat /\ n \in Nat
      BY ONLY <2>1, <2>2, n \in Nat
  <2> HIDE DEF u, x, y
  <2>6. count + n = y /\ blocks + n \in Nat /\ u + (count + n) = blocks + n
      BY ONLY <2>5
  <2> QED
      BY ONLY <2>3, <2>4, <2>6 DEF y
<1>17. FieldsOK(e.slabs, e.magic, e.free, e.blocks, e.count)
    BY <1>1, <1>3, <1>5, <1>10, <1>11, <1>13, <1>16 DEF FieldsOK
<1> QED
    BY <1>2, <1>3, <1>5, <1>14, <1>17

\* A block is taken from the list.
LEMMA PoppedOK ==
    ASSUME NEW s, NEW m, NEW list, NEW blocks, NEW count, FieldsOK(s, m, list, blocks, count),
           list # <<>>, NEW m2, m2 = [m EXCEPT ![Head(list)] = "pool"]
    PROVE  /\ FieldsOK(s, m2, Tail(list), blocks, count - 1)
           /\ Head(list) \notin InUse(m) /\ InUse(m2) = InUse(m) \cup {Head(list)}
<1>1. PICK H : H = HeadersIn(s)
    OBVIOUS
<1>2. /\ s \in Seq(Nat \ {0}) /\ m \in [H -> {"free", "pool"}] /\ list \in Seq(H)
      /\ count = Len(list) /\ blocks \in Nat /\ Len(list) \in Nat \ {0}
      /\ IsFiniteSet(InUse(m)) /\ Cardinality(InUse(m)) + count = blocks
    BY <1>1, EmptySeq DEF FieldsOK
<1>3. /\ \A j \in 1 .. Len(list) : list[j] \in H /\ list[j] \notin InUse(m)
      /\ \A a \in H : a \notin InUse(m) => \E j \in 1 .. Len(list) : list[j] = a
      /\ \A i, j \in 1 .. Len(list) : list[i] = list[j] => i = j
  <2>1. DOMAIN m = H
      BY <1>2
  <2> QED
      BY <2>1 DEF FieldsOK, ListIsFree
<1>4. PICK h : h = Head(list)
    OBVIOUS
<1>5. h = list[1]
    BY <1>2, <1>4
<1>6. h \in H /\ h \notin InUse(m)
    BY <1>2, <1>3, <1>5
<1>7. m2 \in [H -> {"free", "pool"}] /\ InUse(m2) = InUse(m) \cup {h}
  <2>1. m2 \in [H -> {"free", "pool"}] /\ m2[h] = "pool" /\ \A a \in H : a # h => m2[a] = m[a]
      BY <1>2, <1>4, <1>6
  <2>2. \A a : a \in InUse(m2) <=> a \in InUse(m) \/ a = h
      BY <1>2, <1>6, <2>1 DEF InUse
  <2> QED
      BY <2>1, <2>2
<1>8. /\ IsFiniteSet(InUse(m2)) /\ Cardinality(InUse(m2)) = Cardinality(InUse(m)) + 1
      /\ Cardinality(InUse(m)) \in Nat
  <2>1. /\ IsFiniteSet(InUse(m) \cup {h})
        /\ Cardinality(InUse(m) \cup {h}) = Cardinality(InUse(m)) + 1
      BY <1>2, <1>6, FS_AddElement
  <2> QED
      BY <1>2, <1>7, <2>1, FS_CardinalityType
<1>9. PICK t : t = Tail(list)
    OBVIOUS
<1>10. t \in Seq(H) /\ Len(t) = Len(list) - 1 /\ \A i \in 1 .. Len(t) : t[i] = list[i + 1]
    BY <1>2, <1>9, HeadTailProperties
<1>11. ListIsFree(t, m2)
  <2>1. \A i \in 1 .. Len(t) : i + 1 \in 1 .. Len(list) /\ i + 1 # 1 /\ t[i] = list[i + 1]
      BY <1>2, <1>10
  <2>2. 1 \in 1 .. Len(list)
      BY <1>2
  <2>3. \A i \in 1 .. Len(t) : t[i] \in H /\ t[i] \notin InUse(m2)
    <3> SUFFICES ASSUME NEW i \in 1 .. Len(t) PROVE t[i] \in H /\ t[i] \notin InUse(m2)
        OBVIOUS
    <3>1. PICK j \in 1 .. Len(list) : j # 1 /\ t[i] = list[j]
        BY <2>1
    <3>2. list[j] \in H /\ list[j] \notin InUse(m) /\ list[j] # list[1]
        BY <1>3, <2>2, <3>1
    <3> QED
        BY <1>5, <1>7, <3>1, <3>2
  <2>4. \A a \in H : a \notin InUse(m2) => \E i \in 1 .. Len(t) : t[i] = a
    <3> SUFFICES ASSUME NEW a \in H, a \notin InUse(m2) PROVE \E i \in 1 .. Len(t) : t[i] = a
        OBVIOUS
    <3>1. a \notin InUse(m) /\ a # h
        BY <1>7
    <3>2. PICK j \in 1 .. Len(list) : list[j] = a
        BY <1>3, <3>1
    <3>3. j # 1
        BY <1>5, <3>1, <3>2
    <3>4. j - 1 \in 1 .. Len(t) /\ (j - 1) + 1 = j
        BY <1>2, <1>10, <3>3
    <3> QED
        BY <1>10, <3>2, <3>4
  <2>5. \A i, j \in 1 .. Len(t) : t[i] = t[j] => i = j
    <3> SUFFICES ASSUME NEW i \in 1 .. Len(t), NEW j \in 1 .. Len(t), t[i] = t[j] PROVE i = j
        OBVIOUS
    <3>1. i + 1 = j + 1
        BY <1>3, <2>1
    <3> QED
        BY <3>1
  <2>6. DOMAIN m2 = H
      BY <1>7
  <2> QED
      BY <2>3, <2>4, <2>5, <2>6 DEF ListIsFree
<1>12. count - 1 = Len(t) /\ Cardinality(InUse(m2)) + (count - 1) = blocks
    BY <1>2, <1>8, <1>10
<1> QED
    BY <1>1, <1>2, <1>4, <1>6, <1>7, <1>8, <1>9, <1>10, <1>11, <1>12 DEF FieldsOK

\* What freeing block h makes of the marks m, the list and its length.
IsFreed(m, list, count, h, m2, list2, count2) ==
    /\ m2 = [m EXCEPT ![h] = "free"]
    /\ list2 = <<h>> \o list
    /\ count2 = count + 1

\* A block in use is put in front of the list.
LEMMA FreedOK ==
    ASSUME NEW s, NEW m, NEW list, NEW blocks, NEW count, FieldsOK(s, m, list, blocks, count),
           NEW h \in InUse(m), NEW m2, NEW list2, NEW count2,
           IsFreed(m, list, count, h, m2, list2, count2)
    PROVE  /\ FieldsOK(s, m2, list2, blocks, count2)
           /\ InUse(m2) = InUse(m) \ {h}
<1>1. PICK H : H = HeadersIn(s)
    OBVIOUS
<1>2. /\ s \in Seq(Nat \ {0}) /\ m \in [H -> {"free", "pool"}] /\ list \in Seq(H)
      /\ count = Len(list) /\ blocks \in Nat /\ Len(list) \in Nat
      /\ IsFiniteSet(InUse(m)) /\ Cardinality(InUse(m)) + count = blocks
    BY <1>1 DEF FieldsOK
<1>3. /\ \A j \in 1 .. Len(list) : list[j] \in H /\ list[j] \notin InUse(m)
      /\ \A a \in H : a \notin InUse(m) => \E j \in 1 .. Len(list) : list[j] = a
      /\ Once(list)
  <2>1. DOMAIN m = H
      BY <1>2
  <2> QED
      BY <2>1 DEF FieldsOK, ListIsFree, Once
<1>4. h \in H /\ m[h] = "pool"
    BY <1>2 DEF InUse
<1>5. m2 \in [H -> {"free", "pool"}] /\ InUse(m2) = InUse(m) \ {h}
  <2>1. m2 \in [H -> {"free", "pool"}] /\ m2[h] = "free" /\ \A a \in H : a # h => m2[a] = m[a]
      BY <1>2, <1>4 DEF IsFreed
  <2>2. \A a : a \in InUse(m2) <=> a \in InUse(m) /\ a # h
      BY <1>2, <1>4, <2>1 DEF InUse
  <2> QED
      BY <2>1, <2>2
<1>6. /\ IsFiniteSet(InUse(m2)) /\ Cardinality(InUse(m2)) = Cardinality(InUse(m)) - 1
      /\ Cardinality(InUse(m)) \in Nat
  <2>1. /\ IsFiniteSet(InUse(m) \ {h})
        /\ Cardinality(InUse(m) \ {h}) = Cardinality(InUse(m)) - 1
      BY <1>2, FS_RemoveElement
  <2> QED
      BY <1>2, <1>5, <2>1, FS_CardinalityType
<1>7. PICK l : l = <<h>>
    OBVIOUS
<1>8. l \in Seq(H) /\ Len(l) = 1 /\ l[1] = h
    BY <1>4, <1>7
<1>9. Once(l) /\ Apart(l, list)
  <2>1. \A i \in 1 .. Len(l) : i = 1
      BY <1>8
  <2> QED
      BY <1>3, <1>8, <2>1 DEF Once, Apart
<1>10. PICK f : f = l \o list
    OBVIOUS
<1>f. list2 = f /\ count2 = count + 1
    BY <1>7, <1>10 DEF IsFreed
<1>11. f \in Seq(H) /\ Once(f) /\ Joined(f, l, list)
    BY <1>2, <1>3, <1>8, <1>9, <1>10, PrependFacts
<1>12. ListIsFree(f, m2)
  <2>1. \A i \in 1 .. Len(l) : l[i] = h
      BY <1>8
  <2>2. \A j \in 1 .. Len(f) : f[j] = h \/ \E i \in 1 .. Len(list) : f[j] = list[i]
      BY <1>11, <2>1 DEF Joined
  <2>3. \E j \in 1 .. Len(f) : f[j] = h
    <3>1. 1 \in 1 .. Len(l)
        BY <1>8
    <3> QED
        BY <1>8, <1>11, <3>1 DEF Joined
  <2>4. \A j \in 1 .. Len(f) : f[j] \in H /\ f[j] \notin InUse(m2)
      BY <1>3, <1>4, <1>5, <2>2
  <2>5. \A a \in H : a \notin InUse(m2) => \E j \in 1 .. Len(f) : f[j] = a
    <3> SUFFICES ASSUME NEW a \in H, a \notin InUse(m2) PROVE \E j \in 1 .. Len(f) : f[j] = a
        OBVIOUS
    <3>1. CASE a = h
        BY <2>3, <3>1
    <3>2. CASE a # h
      <4>1. PICK i \in 1 .. Len(list) : list[i] = a
          BY <1>3, <1>5, <3>2
      <4> QED
          BY <1>11, <4>1 DEF Joined
    <3> QED
        BY <3>1, <3>2
  <2>6. DOMAIN m2 = H
      BY <1>5
  <2> QED
      BY <1>11, <2>4, <2>5, <2>6 DEF ListIsFree, Once
<1>13. count + 1 = Len(f) /\ Cardinality(InUse(m2)) + (count + 1) = blocks
    BY <1>2, <1>6, <1>8, <1>11 DEF Joined
<1>14. FieldsOK(s, m2, f, blocks, count + 1)
    BY <1>1, <1>2, <1>5, <1>6, <1>11, <1>12, <1>13 DEF FieldsOK
<1> QED
    BY <1>5, <1>14, <1>f

-----------------------------------------------------------------------------
(* The calls: each keeps the invariant and is a step of the allocator.     *)

\* The slab of a header is found, and only headers are found.
LEMMA FoundFacts ==
    ASSUME PoolInv, NEW a \in Addresses
    PROVE  /\ SlabFor(a) \subseteq 1 .. Len(slabs)
           /\ Freeable(a) <=> a \in InUse(magic)
<1>1. /\ slabs \in Seq(Nat \ {0}) /\ last_freed_slab \in 0 .. Len(slabs) /\ Len(slabs) \in Nat
      /\ magic \in [HeadersIn(slabs) -> {"free", "pool"}] /\ total_size \in Nat \ {0}
    BY MempoolAssumption DEF PoolInv, FieldsOK
<1>2. SlabFor(a) \subseteq 1 .. Len(slabs)
    BY <1>1 DEF SlabFor, verify_boundary
<1>3. SlabFor(a) # {} => a \in HeadersIn(slabs)
  <2> SUFFICES ASSUME NEW k \in SlabFor(a) PROVE a \in HeadersIn(slabs)
      OBVIOUS
  <2>1. k \in 0 .. Len(slabs) /\ verify_boundary(k, a)
      BY <1>1 DEF SlabFor
  <2> QED
      BY <1>1, <2>1, BoundaryFacts
<1>4. a \in HeadersIn(slabs) => SlabFor(a) # {}
  <2> SUFFICES ASSUME a \in HeadersIn(slabs) PROVE SlabFor(a) # {}
      OBVIOUS
  <2>1. PICK k \in 1 .. Len(slabs) : \E j \in 0 .. slabs[k] - 1 : a = At(k, j * total_size)
      BY <1>1, HeadersInFacts
  <2>2. PICK j \in 0 .. slabs[k] - 1 : a = At(k, j * total_size)
      BY <2>1
  <2>3. slabs[k] \in Nat \ {0} /\ k # 0
      BY <1>1
  <2>4. j \in Nat /\ j < slabs[k]
      BY <2>3
  <2>5. j * total_size < slabs[k] * total_size /\ (j * total_size) % total_size = 0
      BY <1>1, <2>3, <2>4, Scaling
  <2>6. a.slab = k /\ a.off = j * total_size
      BY <2>2 DEF At
  <2>7. verify_boundary(k, a)
      BY <2>3, <2>5, <2>6 DEF verify_boundary
  <2> QED
      BY <2>7 DEF SlabFor
<1>5. Freeable(a) <=> a \in InUse(magic)
    BY <1>1, <1>3, <1>4 DEF Freeable, MagicAt, InUse
<1> QED
    BY <1>2, <1>5

LEMMA EmptyPool ==
    /\ HeadersIn(<<>>) = {}
    /\ FieldsOK(<<>>, [a \in {} |-> "free"], <<>>, 0, 0)
    /\ InUse([a \in {} |-> "free"]) = {} /\ Cardinality({}) = 0
<1>1. HeadersIn(<<>>) = {}
  <2>1. 1 .. Len(<<>>) = {}
      OBVIOUS
  <2> QED
      BY <2>1 DEF HeadersIn
<1>2. IsFiniteSet({}) /\ Cardinality({}) = 0
    BY FS_EmptySet
<1>3. PICK m : m = [a \in {} |-> "free"]
    OBVIOUS
<1>4. m \in [{} -> {"free", "pool"}] /\ InUse(m) = {} /\ DOMAIN m = {}
    BY <1>3 DEF InUse
<1>5. ListIsFree(<<>>, m)
    BY <1>4 DEF ListIsFree
<1>6. FieldsOK(<<>>, m, <<>>, 0, 0)
    BY <1>1, <1>2, <1>4, <1>5 DEF FieldsOK
<1> QED
    BY <1>1, <1>2, <1>3, <1>4, <1>6

\* The pool before it is created.
LEMMA NotCreated ==
    ASSUME PoolInv, ~ created
    PROVE  InUse(magic) = {}
<1>1. magic \in [{} -> {"free", "pool"}]
    BY EmptyPool DEF PoolInv, FieldsOK
<1> QED
    BY <1>1 DEF InUse

\* The cardinality of the allocator's module is the cardinality.
LEMMA SameCardinality == \A S : Allocator!Cardinality(S) = Cardinality(S)
BY DEF Allocator!Cardinality, Cardinality

LEMMA BlocksInUseIs == BlocksInUse = InUse(magic) /\ BlocksInUse' = InUse(magic')
BY DEF BlocksInUse, InUse

LEMMA CreateStep ==
    ASSUME PoolInv, NEW initial \in InitialBlocks, NEW max \in MaxBlocks,
           mempool_create(initial, max)
    PROVE  PoolInv' /\ Allocator!Open
<1> DEFINE lim == IF max = 0 THEN SIZE_MAX ELSE max
           want == MIN(initial, lim)
<1>1. lim \in Nat /\ want \in 0 .. lim
    BY MempoolAssumption DEF MIN
<1> HIDE DEF lim, want
<1>2. /\ ~ created /\ created' = TRUE /\ max_blocks' = lim /\ last_freed_slab' = 0
      /\ answer' = Answer("create", {}) /\ UNCHANGED leaks
    BY DEF mempool_create, lim
<1>3. PICK p \in expand_pool_batch(Current, want) : p.blocks = want /\ Become(p)
    BY DEF mempool_create, lim, want
<1>4. /\ FieldsOK(p.slabs, p.magic, p.free, p.blocks, p.count) /\ InUse(p.magic) = {}
      /\ Len(p.slabs) \in Nat
  <2>1. FieldsOK(slabs, magic, free_list, pool_blocks, free_count)
      BY DEF PoolInv
  <2>2. CASE p = Current
      BY <1>2, <2>1, <2>2, NotCreated DEF Current, FieldsOK
  <2>3. CASE want > 0 /\ p = Expanded(Current, want)
    <3>1. want \in Nat \ {0}
        BY <1>1, <2>3
    <3>2. /\ FieldsOK(p.slabs, p.magic, p.free, p.blocks, p.count) /\ InUse(p.magic) = InUse(magic)
        BY <2>1, <2>3, <3>1, ExpandedOK DEF Current
    <3> QED
        BY <1>2, <3>2, NotCreated DEF FieldsOK
  <2> QED
      BY <2>2, <2>3 DEF expand_pool_batch
<1>5. /\ slabs' = p.slabs /\ magic' = p.magic /\ free_list' = p.free
      /\ pool_blocks' = p.blocks /\ free_count' = p.count
    BY <1>3 DEF Become
<1>6. FieldsOK(slabs, magic, free_list, pool_blocks, free_count)'
    BY <1>4, <1>5 DEF FieldsOK
<1>7. PoolInv'
    BY <1>1, <1>2, <1>3, <1>4, <1>5, <1>6 DEF PoolInv
<1>8. BlocksInUse' = {}
    BY <1>4, <1>5, BlocksInUseIs
<1> QED
    BY <1>1, <1>2, <1>3, <1>5, <1>7, <1>8 DEF Allocator!Open, Allocator!NoBlock, Answer

\* The fields before the free list is looked at: as they were, or expanded.
LEMMA RefilledFacts ==
    ASSUME PoolInv, NEW p \in Refilled
    PROVE  /\ FieldsOK(p.slabs, p.magic, p.free, p.blocks, p.count)
           /\ InUse(p.magic) = InUse(magic)
           /\ Len(slabs) <= Len(p.slabs) /\ Len(p.slabs) \in Nat /\ Len(slabs) \in Nat
           /\ p.blocks \in pool_blocks .. max_blocks
           /\ p.free = <<>> => p = Current
           /\ p = [slabs |-> p.slabs, magic |-> p.magic, free |-> p.free,
                   blocks |-> p.blocks, count |-> p.count]
<1>1. /\ FieldsOK(slabs, magic, free_list, pool_blocks, free_count)
      /\ pool_blocks \in Nat /\ max_blocks \in Nat /\ pool_blocks <= max_blocks
      /\ Len(slabs) \in Nat
    BY DEF PoolInv, FieldsOK
<1>2. CASE p = Current
    BY <1>1, <1>2 DEF Current
<1>3. CASE pool_blocks < max_blocks /\ GrowBy > 0 /\ p = Expanded(Current, GrowBy)
  <2>1. GrowBy \in Nat \ {0} /\ pool_blocks + GrowBy <= max_blocks
      BY <1>1, <1>3, MempoolAssumption DEF GrowBy, MIN
  <2>2. /\ FieldsOK(p.slabs, p.magic, p.free, p.blocks, p.count)
        /\ p.blocks = pool_blocks + GrowBy /\ p.free # <<>> /\ InUse(p.magic) = InUse(magic)
        /\ Len(p.slabs) = Len(slabs) + 1
        /\ p = [slabs |-> p.slabs, magic |-> p.magic, free |-> p.free,
                blocks |-> p.blocks, count |-> p.count]
      BY <1>1, <1>3, <2>1, ExpandedOK DEF Current
  <2> QED
      BY <1>1, <2>1, <2>2
<1> QED
    BY <1>2, <1>3 DEF Refilled, expand_pool_batch

LEMMA AllocStep ==
    ASSUME PoolInv, mempool_alloc_sized
    PROVE  PoolInv' /\ ((\E b \in answer'.block : Allocator!Grant(b)) \/ Allocator!Refuse)
<1>1. created = TRUE /\ UNCHANGED <<created, max_blocks, last_freed_slab, leaks>>
    BY DEF mempool_alloc_sized, PoolInv
<1>2. PICK p \in Refilled :
         \/ /\ p.free # <<>> /\ Become(Popped(p))
            /\ answer' = Answer("alloc", {Head(p.free)})
         \/ p.free = <<>> /\ Become(p) /\ answer' = Answer("alloc", {})
    BY DEF mempool_alloc_sized
<1>3. /\ FieldsOK(p.slabs, p.magic, p.free, p.blocks, p.count)
      /\ InUse(p.magic) = InUse(magic)
      /\ Len(slabs) <= Len(p.slabs) /\ Len(p.slabs) \in Nat /\ Len(slabs) \in Nat
      /\ p.blocks \in pool_blocks .. max_blocks
      /\ p.free = <<>> => p = Current
      /\ p = [slabs |-> p.slabs, magic |-> p.magic, free |-> p.free,
              blocks |-> p.blocks, count |-> p.count]
    BY RefilledFacts
<1>4. /\ max_blocks \in Nat /\ pool_blocks \in Nat /\ leaks \in Nat
      /\ last_freed_slab \in 0 .. Len(slabs)
    BY DEF PoolInv, FieldsOK
<1>5. CASE /\ p.free # <<>> /\ Become(Popped(p)) /\ answer' = Answer("alloc", {Head(p.free)})
  <2>1. PICK h : h = Head(p.free)
      OBVIOUS
  <2>2. PICK m2 : m2 = [p.magic EXCEPT ![Head(p.free)] = "pool"]
      OBVIOUS
  <2>3. /\ FieldsOK(p.slabs, m2, Tail(p.free), p.blocks, p.count - 1)
        /\ h \notin InUse(magic) /\ InUse(m2) = InUse(magic) \cup {h}
      BY <1>3, <1>5, <2>1, <2>2, PoppedOK
  <2>4. /\ slabs' = p.slabs /\ magic' = m2 /\ free_list' = Tail(p.free)
        /\ pool_blocks' = p.blocks /\ free_count' = p.count - 1
      BY <1>3, <1>5, <2>2 DEF Become, Popped
  <2>5. FieldsOK(slabs, magic, free_list, pool_blocks, free_count)'
      BY <2>3, <2>4 DEF FieldsOK
  <2>6. PoolInv'
      BY <1>1, <1>3, <1>4, <2>4, <2>5 DEF PoolInv
  <2>7. Cardinality(InUse(m2)) <= p.blocks
    <3>1. /\ Cardinality(InUse(m2)) \in Nat /\ p.count - 1 \in Nat
          /\ Cardinality(InUse(m2)) + (p.count - 1) = p.blocks
      <4>1. Len(Tail(p.free)) \in Nat
          BY <2>3 DEF FieldsOK
      <4> QED
          BY <2>3, <4>1, FS_CardinalityType DEF FieldsOK
    <3> QED
        BY <3>1
  <2>8. BlocksInUse = InUse(magic) /\ BlocksInUse' = InUse(m2)
      BY <2>4, BlocksInUseIs
  <2>9. answer' = [op |-> "alloc", block |-> {h}]
      BY <1>5, <2>1 DEF Answer
  <2>10. Allocator!Grant(h)
      BY <1>1, <1>3, <2>3, <2>4, <2>7, <2>8, <2>9, SameCardinality DEF Allocator!Grant
  <2>11. h \in answer'.block
      BY <2>9
  <2> QED
      BY <2>6, <2>10, <2>11
<1>6. CASE p.free = <<>> /\ Become(p) /\ answer' = Answer("alloc", {})
  <2>1. UNCHANGED <<slabs, magic, free_list, pool_blocks, free_count>> /\ free_list = <<>>
      BY <1>3, <1>6 DEF Become, Current
  <2>2. PoolInv'
      BY <1>1, <2>1 DEF PoolInv, FieldsOK
  <2>3. Cardinality(InUse(magic)) = pool_blocks
    <3>1. /\ Cardinality(InUse(magic)) \in Nat /\ free_count = Len(free_list)
          /\ Cardinality(InUse(magic)) + free_count = pool_blocks
        BY FS_CardinalityType DEF PoolInv, FieldsOK
    <3>2. Len(<<>>) = 0
        OBVIOUS
    <3> QED
        BY <2>1, <3>1, <3>2
  <2>4. BlocksInUse = InUse(magic) /\ BlocksInUse' = BlocksInUse
      BY <2>1, BlocksInUseIs
  <2>5. Allocator!Refuse
      BY <1>1, <1>6, <2>1, <2>3, <2>4, SameCardinality DEF Allocator!Refuse, Allocator!NoBlock, Answer
  <2> QED
      BY <2>2, <2>5
<1> QED
    BY <1>2, <1>5, <1>6

LEMMA OversizeStep ==
    ASSUME PoolInv, AllocOversize
    PROVE  PoolInv' /\ Allocator!TooLarge
<1>1. PoolInv'
    BY DEF AllocOversize, PoolInv, FieldsOK
<1>2. BlocksInUse' = BlocksInUse
    BY DEF AllocOversize, BlocksInUse
<1> QED
    BY <1>1, <1>2 DEF AllocOversize, Allocator!TooLarge, Allocator!NoBlock, Answer

\* A free of a block in use gives it back; any other changes nothing.
LEMMA FreeStep ==
    ASSUME PoolInv, NEW a \in Addresses, mempool_free_sized(a)
    PROVE  PoolInv' /\ \E b \in answer'.block : Allocator!GiveBack(b)
<1>1. /\ created = TRUE /\ answer' = Answer("free", {a})
      /\ UNCHANGED <<created, max_blocks, slabs, pool_blocks, leaks>>
    BY DEF mempool_free_sized, PoolInv
<1>2. last_freed_slab' \in 0 .. Len(slabs)
  <2>1. SlabFor(a) \subseteq 1 .. Len(slabs) /\ last_freed_slab \in 0 .. Len(slabs)
        /\ Len(slabs) \in Nat
      BY FoundFacts DEF PoolInv, FieldsOK
  <2> QED
      BY <2>1 DEF mempool_free_sized
<1>3. FieldsOK(slabs, magic, free_list, pool_blocks, free_count)
    BY DEF PoolInv
<1>4. /\ FieldsOK(slabs, magic, free_list, pool_blocks, free_count)'
      /\ InUse(magic') = InUse(magic) \ {a}
  <2>1. CASE Freeable(a)
    <3>1. /\ magic' = [magic EXCEPT ![a] = "free"] /\ free_list' = <<a>> \o free_list
          /\ free_count' = free_count + 1
        BY <2>1 DEF mempool_free_sized
    <3>2. a \in InUse(magic)
        BY <2>1, FoundFacts
    <3>3. /\ FieldsOK(slabs, magic', free_list', pool_blocks, free_count')
          /\ InUse(magic') = InUse(magic) \ {a}
      <4>1. IsFreed(magic, free_list, free_count, a, magic', free_list', free_count')
          BY ONLY <3>1 DEF IsFreed
      <4> QED
          BY ONLY <1>3, <3>2, <4>1, FreedOK
    <3> QED
        BY <1>1, <3>3 DEF FieldsOK
  <2>2. CASE ~ Freeable(a)
    <3>1. UNCHANGED <<magic, free_list, free_count>>
        BY <2>2 DEF mempool_free_sized
    <3>2. a \notin InUse(magic)
        BY <2>2, FoundFacts
    <3> QED
        BY <1>1, <1>3, <3>1, <3>2 DEF FieldsOK
  <2> QED
      BY <2>1, <2>2
<1>5. PoolInv'
    BY <1>1, <1>2, <1>4 DEF PoolInv
<1>6. answer' = [op |-> "free", block |-> {a}]
    BY <1>1 DEF Answer
<1>7. BlocksInUse' = BlocksInUse \ {a}
    BY <1>4, BlocksInUseIs
<1>8. Allocator!GiveBack(a) /\ a \in answer'.block
    BY <1>1, <1>6, <1>7 DEF Allocator!GiveBack
<1> QED
    BY <1>5, <1>8

\* The end reports the blocks that were not given back.
LEMMA DestroyStep ==
    ASSUME PoolInv, mempool_destroy
    PROVE  PoolInv' /\ Allocator!Close
<1>1. /\ created /\ created' = FALSE /\ max_blocks' = 0
      /\ slabs' = <<>> /\ magic' = [a \in {} |-> "free"] /\ free_list' = <<>>
      /\ pool_blocks' = 0 /\ free_count' = 0 /\ last_freed_slab' = 0
      /\ answer' = Answer("destroy", {})
      /\ leaks' = IF free_count <= pool_blocks THEN pool_blocks - free_count ELSE 0
    BY DEF mempool_destroy
<1>2. leaks' = Cardinality(InUse(magic)) /\ leaks' \in Nat
  <2>1. /\ Cardinality(InUse(magic)) \in Nat /\ free_count = Len(free_list)
        /\ Len(free_list) \in Nat
        /\ Cardinality(InUse(magic)) + free_count = pool_blocks
      BY FS_CardinalityType DEF PoolInv, FieldsOK
  <2> QED
      BY <1>1, <2>1
<1>3. InUse(magic') = {} /\ FieldsOK(<<>>, magic', <<>>, 0, 0)
    BY <1>1, EmptyPool
<1>4. FieldsOK(slabs, magic, free_list, pool_blocks, free_count)'
    BY <1>1, <1>3 DEF FieldsOK
<1>5. PoolInv'
  <2>1. last_freed_slab' \in 0 .. Len(slabs') /\ pool_blocks' <= max_blocks' /\ max_blocks' \in Nat
      BY <1>1
  <2> QED
      BY <1>1, <1>2, <1>4, <2>1 DEF PoolInv
<1>6. BlocksInUse = InUse(magic) /\ BlocksInUse' = {}
    BY <1>3, BlocksInUseIs
<1> QED
    BY <1>1, <1>2, <1>5, <1>6, SameCardinality DEF Allocator!Close, Allocator!NoBlock, Answer

-----------------------------------------------------------------------------
(* The theorems.                                                           *)

LEMMA PoolInitInv ==
    ASSUME PoolInit
    PROVE  PoolInv /\ Allocator!AllocInit
<1>1. FieldsOK(slabs, magic, free_list, pool_blocks, free_count) /\ BlocksInUse = {}
    BY EmptyPool, BlocksInUseIs DEF PoolInit
<1>2. /\ last_freed_slab \in 0 .. Len(slabs) /\ pool_blocks <= max_blocks
      /\ max_blocks \in Nat /\ leaks \in Nat
  <2>1. slabs = <<>> /\ last_freed_slab = 0 /\ pool_blocks = 0 /\ max_blocks = 0 /\ leaks = 0
      BY DEF PoolInit
  <2> QED
      BY <2>1
<1>3. PoolInv
    BY <1>1, <1>2 DEF PoolInit, PoolInv
<1>4. Allocator!AllocInit
    BY <1>1 DEF PoolInit, Allocator!AllocInit, Allocator!NoBlock, Answer
<1> QED
    BY <1>3, <1>4

LEMMA PoolNextInv ==
    ASSUME PoolInv, [PoolNext]_poolVars
    PROVE  PoolInv' /\ [Allocator!AllocNext]_(Allocator!allocVars)
<1>1. ASSUME NEW initial \in InitialBlocks, NEW max \in MaxBlocks, mempool_create(initial, max)
      PROVE  PoolInv' /\ Allocator!AllocNext
    BY <1>1, CreateStep DEF Allocator!AllocNext
<1>2. CASE mempool_alloc_sized
    BY <1>2, AllocStep DEF Allocator!AllocNext
<1>3. CASE AllocOversize
    BY <1>3, OversizeStep DEF Allocator!AllocNext
<1>4. ASSUME NEW a \in Addresses, mempool_free_sized(a)
      PROVE  PoolInv' /\ Allocator!AllocNext
    BY <1>4, FreeStep DEF Allocator!AllocNext
<1>5. CASE mempool_destroy
    BY <1>5, DestroyStep DEF Allocator!AllocNext
<1>6. CASE UNCHANGED poolVars
  <2>1. PoolInv'
      BY <1>6 DEF poolVars, PoolInv, FieldsOK
  <2>2. UNCHANGED Allocator!allocVars
      BY <1>6 DEF poolVars, Allocator!allocVars, BlocksInUse
  <2> QED
      BY <2>1, <2>2
<1> QED
    BY <1>1, <1>2, <1>3, <1>4, <1>5, <1>6 DEF PoolNext

LEMMA PoolInvariant == PoolSpec => []PoolInv
    BY PoolInitInv, PoolNextInv, PTL DEF PoolSpec

\* Slabs, headers, free list and counters of mempool.c agree for every block
\* size, limit and sequence of calls: a block is on the free list exactly if it is
\* free and only once, whatever was freed twice or by a wrong address, and the
\* pool never outgrows max_blocks.
THEOREM PoolStaysConsistent == PoolSpec => []PoolIsConsistent
<1>1. PoolInv => PoolIsConsistent
  <2> SUFFICES ASSUME PoolInv PROVE PoolIsConsistent
      OBVIOUS
  <2>1. /\ slabs \in Seq(Nat \ {0}) /\ magic \in [HeadersIn(slabs) -> {"free", "pool"}]
        /\ free_list \in Seq(HeadersIn(slabs)) /\ ListIsFree(free_list, magic)
        /\ free_count = Len(free_list) /\ pool_blocks \in Nat /\ Len(free_list) \in Nat
        /\ Cardinality(InUse(magic)) + free_count = pool_blocks
      BY DEF PoolInv, FieldsOK
  <2>2. Headers = HeadersIn(slabs) /\ BlocksInUse = InUse(magic)
      BY BlocksInUseIs DEF Headers, HeadersIn
  <2>3. PoolTypeOK
      BY <2>1, <2>2 DEF PoolInv, PoolTypeOK
  <2>4. FreeListIsSound
    <3>1. \A a : a \in OnFreeList <=> a \in DOMAIN magic \ InUse(magic)
        BY <2>1 DEF OnFreeList, ListIsFree
    <3> QED
        BY <2>1, <2>2, <3>1 DEF FreeListIsSound, ListIsFree
  <2>5. CountersAreExact
      BY <2>1, <2>2 DEF PoolInv, CountersAreExact
  <2> QED
      BY <2>3, <2>4, <2>5 DEF PoolIsConsistent
<1> QED
    BY <1>1, PoolInvariant, PTL

\* mempool.c implements a block allocator, for every block size, limit and step of
\* growth: no block is granted twice, a request is refused only if all blocks there
\* are are in use, wrong frees change nothing, mempool_destroy reports the leaks.
THEOREM PoolImplementsAllocator == PoolSpec => ImplementsAllocator
<1>1. PoolInv /\ [PoolNext]_poolVars => [Allocator!AllocNext]_(Allocator!allocVars)
    BY PoolNextInv
<1>2. PoolInit => Allocator!AllocInit
    BY PoolInitInv
<1> QED
    BY <1>1, <1>2, PoolInvariant, PTL DEF PoolSpec, ImplementsAllocator, Allocator!AllocSpec
=============================================================================
