------------------------------- MODULE Memory -------------------------------
(***************************************************************************)
(* The accounts of memory that the library keeps when it is built to debug *)
(* memory (memory.c, HEMP_DEBUG_MEM).  Every block that is allocated gets  *)
(* a record in one array; resizing a block that moves leaves the record it *)
(* had behind, with the old address.  An address is used again after its   *)
(* block was freed or moved, so that several records may show it.          *)
(*                                                                         *)
(* The history variable `live' is what is really allocated; `held' is what *)
(* was allocated before the accounts were reset and is not known to them.  *)
(***************************************************************************)
EXTENDS Integers, Sequences, FiniteSetsExt, Functions

CONSTANTS
  Pointer,     \* the addresses that malloc() returns
  Bytes,       \* the sizes asked for
  NoPointer,   \* a NULL pointer
  BlockSize,   \* HEMP_MEM_BLKSIZ, by which the array grows
  MaxTraces    \* bound on the records that are made

ASSUME MemoryAssumption ==
  /\ NoPointer \notin Pointer /\ Bytes \subseteq Nat
  /\ BlockSize \in Nat \ {0} /\ MaxTraces \in Nat

VARIABLES traces, used, live, held, stopped

memoryVars == <<traces, used, live, held, stopped>>

Unwritten == [ptr |-> NoPointer, status |-> "wild", size |-> 0]

\* hemp_mem_trace_new(): the array grows by a block of wild records when all
\* are used; the records there are copied.
Enough(ts) == IF used < Len(ts) THEN ts ELSE SubSeq(ts, 1, used) \o [i \in 1..BlockSize |-> Unwritten]
Recorded(ts, ptr, status, size) ==
  [Enough(ts) EXCEPT ![used + 1] = [ptr |-> ptr, status |-> status, size |-> size]]

\* hemp_mem_trace_record(): the newest record that shows the address.
Showing(ptr) == {r \in 1..used : traces[r].ptr = ptr}
OldestRecord(ptr) == Min(Showing(ptr))
Record(ptr) == Max(Showing(ptr))

\* hemp_mem_trace_report() adds up the sizes of these records.
Reported == {r \in 1..used : traces[r].status \in {"malloc", "external"}}

MemoryInit ==
  /\ traces = <<>> /\ used = 0
  /\ live = <<>> /\ held = {}
  /\ stopped = FALSE

Unused == Pointer \ (DOMAIN live \union held)
Holding(blocks, p, n) == [x \in DOMAIN blocks \union {p} |-> IF x = p THEN n ELSE blocks[x]]
Others(p) == Restrict(live, DOMAIN live \ {p})

\* hemp_mem_trace_malloc() and hemp_mem_trace_strdup() allocate a block, and
\* hemp_mem_trace_external() records one that the C library did.
Allocate(status) ==
  \E p \in Unused, n \in Bytes :
    /\ ~ stopped /\ used < MaxTraces
    /\ traces' = Recorded(traces, p, status, n)
    /\ used' = used + 1
    /\ live' = Holding(live, p, n)
    /\ UNCHANGED <<held, stopped>>

\* A pointer without a record ends the program (hemp_fatal).
NoRecord(p) ==
  /\ p \in held /\ ~ stopped /\ Showing(p) = {}
  /\ stopped' = TRUE
  /\ UNCHANGED <<traces, used, live, held>>

\* hemp_mem_trace_realloc(): realloc() keeps the block where it is, or moves it.
ResizeBlock ==
  \E p \in DOMAIN live, n \in Bytes :
    /\ ~ stopped
    /\ \/ /\ traces' = [traces EXCEPT ![Record(p)].size = n]
          /\ used' = used
          /\ live' = [live EXCEPT ![p] = n]
       \/ \E q \in Unused :
            /\ used < MaxTraces
            /\ traces' = Recorded([traces EXCEPT ![Record(p)].status = "moved"], q, "malloc", n)
            /\ used' = used + 1
            /\ live' = Holding(Others(p), q, n)
    /\ UNCHANGED <<held, stopped>>

\* hemp_mem_trace_free()
FreeBlock ==
  \E p \in DOMAIN live :
    /\ ~ stopped
    /\ traces' = [traces EXCEPT ![Record(p)] = [@ EXCEPT !.status = "free", !.ptr = NoPointer]]
    /\ live' = Others(p)
    /\ UNCHANGED <<used, held, stopped>>

\* hemp_mem_trace_reset(): the accounts start again from nothing.
Reset ==
  /\ ~ stopped /\ used > 0
  /\ traces' = <<>> /\ used' = 0
  /\ held' = held \union DOMAIN live
  /\ live' = <<>>
  /\ UNCHANGED stopped

\* The program is started again.
Restart ==
  /\ stopped
  /\ traces' = <<>> /\ used' = 0 /\ live' = <<>> /\ held' = {} /\ stopped' = FALSE

MemoryNext ==
  \/ Allocate("malloc") \/ Allocate("external")
  \/ ResizeBlock \/ FreeBlock \/ Reset
  \/ \E p \in held : NoRecord(p)
  \/ Restart

MemorySpec == MemoryInit /\ [][MemoryNext]_memoryVars

-----------------------------------------------------------------------------
\* The report counts what is allocated, each block once and at the size it has now: a block
\* finds the record that is reported for it, and a record that is reported is the one that
\* its block finds, however often the address was used before, and whether the blocks that
\* were there have been freed or moved (memory.c:106-132, 189-226, 241-252, 272-276).
ReportsWhatIsLive ==
  /\ \A p \in DOMAIN live :
       /\ Showing(p) # {}
       /\ Record(p) \in Reported /\ traces[Record(p)].size = live[p]
  /\ \A r \in Reported : traces[r].ptr \in DOMAIN live /\ Record(traces[r].ptr) = r
=============================================================================
