------------------------------- MODULE Mempool -------------------------------
(***************************************************************************)
(* One memory pool of mempool.c: slabs of blocks with headers, a free list *)
(* through the headers, a cache of the slab of the last free.  A pool is   *)
(* used by one thread, so an action is a call.  Callers free whatever they *)
(* like: blocks twice, addresses inside a block, behind a slab, of other   *)
(* memory.  The counters that are only logged are left out, and so are     *)
(* headers overwritten by a caller's overrun.                              *)
(***************************************************************************)
EXTENDS Integers, Sequences, FiniteSets

CONSTANTS
    total_size,         \* distance of two headers, in units of memory
    EXPAND_BATCH_SIZE,
    SIZE_MAX,           \* the limit of a pool created with max_blocks 0
    InitialBlocks,      \* what the pool may be created with
    MaxBlocks

ASSUME MempoolAssumption ==
    /\ total_size \in Nat \ {0}
    /\ EXPAND_BATCH_SIZE \in Nat \ {0}
    /\ SIZE_MAX \in Nat \ {0}
    /\ InitialBlocks \subseteq Nat /\ MaxBlocks \subseteq 0 .. SIZE_MAX

VARIABLES
    created,          \* the pool exists
    max_blocks,
    slabs,            \* slabs[k] is block_count of the k-th slab; the list is newest first
    magic,            \* the magic of each header: "free" or "pool"
    free_list,        \* the headers linked by next_free
    pool_blocks, free_count,
    last_freed_slab,  \* 0 for NULL
    answer,           \* history: the last call and the block it returned or was given
    leaks             \* what mempool_destroy returned

poolVars == <<created, max_blocks, slabs, magic, free_list, pool_blocks, free_count,
              last_freed_slab, answer, leaks>>

\* An address in slab number slab; slab 0 is memory that is not the pool's.
At(k, o) == [slab |-> k, off |-> o]
HeadersOf(k, n) == {At(k, j * total_size) : j \in 0 .. n - 1}
Answer(op, block) == [op |-> op, block |-> block]

MIN(a, b) == IF a < b THEN a ELSE b

PoolInit ==
    /\ created = FALSE /\ max_blocks = 0
    /\ slabs = <<>> /\ magic = [a \in {} |-> "free"] /\ free_list = <<>>
    /\ pool_blocks = 0 /\ free_count = 0
    /\ last_freed_slab = 0
    /\ answer = Answer("none", {})
    /\ leaks = 0

-----------------------------------------------------------------------------
(* The fields that expand_pool_batch and the free list work on, as they    *)
(* are after the first expansion of a call.                                *)

Linked(k, n) == [j \in 1 .. n |-> At(k, (j - 1) * total_size)]

Current == [slabs |-> slabs, magic |-> magic, free |-> free_list,
            blocks |-> pool_blocks, count |-> free_count]

\* expand_pool_batch with the slab it got from posix_memalign: all its blocks
\* are put in front of the free list.
Expanded(p, n) ==
    LET k == Len(p.slabs) + 1
    IN  [slabs  |-> Append(p.slabs, n),
         magic  |-> [a \in DOMAIN p.magic \cup HeadersOf(k, n) |->
                        IF a \in DOMAIN p.magic THEN p.magic[a] ELSE "free"],
         free   |-> Linked(k, n) \o p.free,
         blocks |-> p.blocks + n,
         count  |-> p.count + n]

\* Its outcomes: nothing to do, out of memory, done.
expand_pool_batch(p, n) == {p} \cup (IF n > 0 THEN {Expanded(p, n)} ELSE {})

Become(p) ==
    /\ slabs' = p.slabs /\ magic' = p.magic /\ free_list' = p.free
    /\ pool_blocks' = p.blocks /\ free_count' = p.count

-----------------------------------------------------------------------------
\* mempool_create; without its initial reservation there is no pool.
mempool_create(initial, max) ==
    LET limit == IF max = 0 THEN SIZE_MAX ELSE max
        want  == MIN(initial, limit)
    IN  /\ ~ created
        /\ \E p \in expand_pool_batch(Current, want) :
              /\ p.blocks = want
              /\ Become(p)
        /\ created' = TRUE
        /\ max_blocks' = limit
        /\ last_freed_slab' = 0
        /\ answer' = Answer("create", {})
        /\ UNCHANGED leaks

GrowBy == MIN(EXPAND_BATCH_SIZE, max_blocks - pool_blocks)

\* The states before the free list is looked at.
Refilled ==
    IF free_list = <<>> /\ pool_blocks < max_blocks
    THEN expand_pool_batch(Current, GrowBy) ELSE {Current}

Popped(p) == [p EXCEPT !.magic[Head(p.free)] = "pool", !.free = Tail(@), !.count = @ - 1]

\* Mutant: the free list is not looked at again after the pool has grown.
mempool_alloc_sized_NoRetry ==
    /\ created
    /\ \E p \in Refilled :
          \/ /\ free_list # <<>>
             /\ Become(Popped(p))
             /\ answer' = Answer("alloc", {Head(p.free)})
          \/ /\ free_list = <<>>
             /\ Become(p)
             /\ answer' = Answer("alloc", {})
    /\ UNCHANGED <<created, max_blocks, last_freed_slab, leaks>>

mempool_alloc_sized ==
    /\ created
    /\ \E p \in Refilled :
          \/ /\ p.free # <<>>
             /\ Become(Popped(p))
             /\ answer' = Answer("alloc", {Head(p.free)})
          \/ /\ p.free = <<>>
             /\ Become(p)
             /\ answer' = Answer("alloc", {})
    /\ UNCHANGED <<created, max_blocks, last_freed_slab, leaks>>

\* A size above block_size.
AllocOversize ==
    /\ created
    /\ answer' = Answer("oversize", {})
    /\ UNCHANGED <<created, max_blocks, slabs, magic, free_list, pool_blocks, free_count,
                   last_freed_slab, leaks>>

-----------------------------------------------------------------------------
verify_boundary(k, a) ==
    /\ k # 0 /\ a.slab = k
    /\ a.off < slabs[k] * total_size
    /\ a.off % total_size = 0

\* The slab an address is found in: the cached one, else the first of the list.
SlabFor(a) ==
    IF verify_boundary(last_freed_slab, a) THEN {last_freed_slab}
    ELSE {k \in 1 .. Len(slabs) : verify_boundary(k, a)}

\* What a look at the magic at a finds: behind no header it is a caller's data,
\* which may look like a block in use.
MagicAt(a) == IF a \in DOMAIN magic THEN magic[a] ELSE "pool"

\* Mutant: the magic is not looked at.
Freeable_Any(a) == SlabFor(a) # {}

\* A header of the pool whose block is in use.
Freeable(a) == SlabFor(a) # {} /\ MagicAt(a) = "pool"

\* internal_free of the block whose header is at a.  The cached slab is updated
\* also when the free is then turned down.
mempool_free_sized(a) ==
    /\ created
    /\ \E k \in IF SlabFor(a) = {} THEN {last_freed_slab} ELSE SlabFor(a) :
          last_freed_slab' = k
    /\ IF Freeable(a)
       THEN /\ magic' = [magic EXCEPT ![a] = "free"]
            /\ free_list' = <<a>> \o free_list
            /\ free_count' = free_count + 1
       ELSE UNCHANGED <<magic, free_list, free_count>>
    /\ answer' = Answer("free", {a})
    /\ UNCHANGED <<created, max_blocks, slabs, pool_blocks, leaks>>

mempool_destroy ==
    /\ created
    /\ leaks' = IF free_count <= pool_blocks THEN pool_blocks - free_count ELSE 0
    /\ created' = FALSE /\ max_blocks' = 0
    /\ slabs' = <<>> /\ magic' = [a \in {} |-> "free"] /\ free_list' = <<>>
    /\ pool_blocks' = 0 /\ free_count' = 0
    /\ last_freed_slab' = 0
    /\ answer' = Answer("destroy", {})

\* Any address a caller may come up with: in a slab, right behind it, elsewhere.
Addresses ==
    {At(0, 0)} \cup UNION {{At(k, o) : o \in 0 .. slabs[k] * total_size} : k \in 1 .. Len(slabs)}

PoolNext ==
    \/ \E initial \in InitialBlocks, max \in MaxBlocks : mempool_create(initial, max)
    \/ mempool_alloc_sized \/ AllocOversize
    \/ \E a \in Addresses : mempool_free_sized(a)
    \/ mempool_destroy

PoolSpec == PoolInit /\ [][PoolNext]_poolVars

-----------------------------------------------------------------------------
Headers == UNION {HeadersOf(k, slabs[k]) : k \in 1 .. Len(slabs)}
BlocksInUse == {a \in DOMAIN magic : magic[a] = "pool"}
OnFreeList == {free_list[j] : j \in 1 .. Len(free_list)}

PoolTypeOK ==
    /\ created \in BOOLEAN
    /\ max_blocks \in Nat
    /\ slabs \in Seq(Nat \ {0})
    /\ magic \in [Headers -> {"free", "pool"}]
    /\ free_list \in Seq(Headers)
    /\ pool_blocks \in Nat /\ free_count \in Nat
    /\ last_freed_slab \in 0 .. Len(slabs)
    /\ leaks \in Nat

\* A block is on the free list exactly if its header says it is free, and is
\* there once: no order of frees, also of blocks twice, of inner or foreign
\* addresses, links a block in use or links one a second time.
FreeListIsSound ==
    /\ OnFreeList = DOMAIN magic \ BlocksInUse
    /\ \A i, j \in 1 .. Len(free_list) : free_list[i] = free_list[j] => i = j

\* The counters from which mempool_destroy computes the leaks are exact, and the
\* pool never outgrows max_blocks.
CountersAreExact ==
    /\ free_count = Len(free_list)
    /\ Cardinality(BlocksInUse) + free_count = pool_blocks
    /\ pool_blocks <= max_blocks

\* The slabs, the headers, the list and the counters tell the same story.
PoolIsConsistent == PoolTypeOK /\ FreeListIsSound /\ CountersAreExact

\* The pool implements the specification of a block allocator: the blocks in use
\* are those whose header has the magic of the pool.
Allocator == INSTANCE BlockAllocator WITH
    open <- created, limit <- max_blocks, reserved <- pool_blocks, inUse <- BlocksInUse

\* So it hands out no block twice, refuses a request only if all its blocks are
\* in use, ignores wrong frees and reports its leaks.
ImplementsAllocator == Allocator!AllocSpec
=============================================================================
