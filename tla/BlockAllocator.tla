--------------------------- MODULE BlockAllocator ---------------------------
(***************************************************************************)
(* What a memory pool promises its users, without slabs, lists or headers: *)
(* a set of blocks in use, of at most limit; a block is granted only if it *)
(* is not in use; a request is refused only if every block there is, is in *)
(* use, so that none gets lost; giving back what is not in use changes     *)
(* nothing; and the end reports how many blocks were not given back.       *)
(***************************************************************************)
EXTENDS Integers, FiniteSets

VARIABLES
    open,      \* the pool exists
    limit,     \* the most blocks there may be
    reserved,  \* the blocks there are
    inUse,     \* the blocks users hold
    answer,    \* the last operation and the block it was about, if any
    leaks      \* what the end of the pool reported

allocVars == <<open, limit, reserved, inUse, answer, leaks>>

NoBlock == {}

AllocInit ==
    /\ open = FALSE /\ limit = 0 /\ reserved = 0 /\ inUse = {}
    /\ answer = [op |-> "none", block |-> NoBlock]
    /\ leaks = 0

Open ==
    /\ ~ open /\ open' = TRUE
    /\ limit' \in Nat /\ reserved' \in 0 .. limit'
    /\ inUse' = {}
    /\ answer' = [op |-> "create", block |-> NoBlock]
    /\ UNCHANGED leaks

\* The pool may grow to serve a request, never beyond its limit.
Grant(b) ==
    /\ open /\ b \notin inUse
    /\ inUse' = inUse \cup {b}
    /\ answer' = [op |-> "alloc", block |-> {b}]
    /\ reserved' \in reserved .. limit
    /\ Cardinality(inUse') <= reserved'
    /\ UNCHANGED <<open, limit, leaks>>

Refuse ==
    /\ open /\ Cardinality(inUse) = reserved
    /\ answer' = [op |-> "alloc", block |-> NoBlock]
    /\ UNCHANGED <<open, limit, reserved, inUse, leaks>>

TooLarge ==
    /\ open
    /\ answer' = [op |-> "oversize", block |-> NoBlock]
    /\ UNCHANGED <<open, limit, reserved, inUse, leaks>>

GiveBack(p) ==
    /\ open
    /\ inUse' = inUse \ {p}
    /\ answer' = [op |-> "free", block |-> {p}]
    /\ UNCHANGED <<open, limit, reserved, leaks>>

Close ==
    /\ open /\ open' = FALSE
    /\ limit' = 0 /\ reserved' = 0 /\ inUse' = {}
    /\ answer' = [op |-> "destroy", block |-> NoBlock]
    /\ leaks' = Cardinality(inUse)

AllocNext ==
    \/ Open \/ Close
    \/ Refuse \/ TooLarge
    \/ \E b \in answer'.block : Grant(b) \/ GiveBack(b)

AllocSpec == AllocInit /\ [][AllocNext]_allocVars
=============================================================================
