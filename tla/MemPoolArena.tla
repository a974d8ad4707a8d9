----------------------------- MODULE MemPoolArena -----------------------------
(* MemPool seen as an Arena: a pool is named by its root struct, and a     *)
(* place is a span of a chunk's memory.                                    *)
EXTENDS MemPool

Span == [mem : Chunk, off : Nat, len : Nat]

SpanOf(b) == [mem |-> b.mem, off |-> b.off, len |-> b.len]

A == INSTANCE Arena WITH
        Name   <- Chunk,
        Place  <- Span,
        Apart  <- Apart,
        open   <- {handle[s] : s \in held},
        grants <- {[arena |-> b.pool, at |-> SpanOf(b)] : b \in blocks}

(* Every call of the pool API does what the arena allocator promises, or   *)
(* leaves the client's grants alone: a client that only knows Arena is     *)
(* served right by dalloc, nalloc, ralloc, clear, reset, merge and free.   *)
ImplementsArena == A!Spec
=============================================================================
