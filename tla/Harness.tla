------------------------------ MODULE Harness ------------------------------
(***************************************************************************)
(* run_benchmark of the NVMe harness (bin/nvme_harness.rs): one loop       *)
(* acquires a permit for each read before it hands the read to a blocking  *)
(* thread, which drops the permit when it has read; then the loop's task   *)
(* collects the reads in order and stops at the first error.  Offsets are  *)
(* kept as block numbers.  Time is left out.                               *)
(***************************************************************************)
EXTENDS Integers, FiniteSets

CONSTANTS Operations,   \* OPERATIONS
          Blocks,       \* FILE_SIZE / block_size
          BlockSize,    \* block_size
          QueueDepths,  \* QUEUE_DEPTHS
          Stride        \* 7919

ASSUME HarnessConstants ==
  /\ Operations \in Nat /\ Blocks \in Nat \ {0}
  /\ BlockSize \in Nat /\ Stride \in Nat
  /\ QueueDepths \subseteq Nat \ {0}

Ops == 0 .. (Operations - 1)
Patterns == {"sequential", "random"}

VARIABLES
  pattern,   \* pattern
  depth,     \* queue_depth
  slots,     \* the semaphore's free permits
  issued,    \* operation: reads handed to a blocking thread
  read,      \* where each of them is
  summed,    \* reads awaited
  bytes,     \* bytes
  bench      \* where the benchmark is

benchVars == <<pattern, depth, slots, issued, read, summed, bytes, bench>>

ReadStates == {"none", "reading", "ok", "error", "read", "failed"}

BenchTypeOK ==
  /\ pattern \in Patterns /\ depth \in QueueDepths
  /\ slots \in 0 .. depth
  /\ issued \in 0 .. Operations /\ summed \in 0 .. Operations
  /\ read \in [Ops -> ReadStates]
  /\ bytes \in Nat
  /\ bench \in {"issuing", "summing", "done", "failed"}

BenchInit ==
  /\ pattern \in Patterns /\ depth \in QueueDepths /\ slots = depth
  /\ issued = 0 /\ summed = 0 /\ bytes = 0
  /\ read = [o \in Ops |-> "none"]
  /\ bench = "issuing"

\* sequential_offset, random_offset.
BlockOf(o) == IF pattern = "random" THEN (o * Stride) % Blocks ELSE o % Blocks

\* Mutants: no permit is asked for; a read that fails returns before drop(permit)
\* and keeps its permit for good.
Unlimited == TRUE
MayIssue == slots > 0
DropSlotIfRead(o) == slots' = IF read[o] = "ok" THEN slots + 1 ELSE slots
DropSlot(o)       == slots' = slots + 1

Issue ==
  /\ bench = "issuing" /\ issued < Operations /\ MayIssue
  /\ slots' = slots - 1
  /\ read' = [read EXCEPT ![issued] = "reading"]
  /\ issued' = issued + 1
  /\ UNCHANGED <<pattern, depth, summed, bytes, bench>>

\* read_block: open, seek, read_exact; each may fail.
ReadBlock(o) ==
  /\ read[o] = "reading"
  /\ \E s \in {"ok", "error"} : read' = [read EXCEPT ![o] = s]
  /\ UNCHANGED <<pattern, depth, slots, issued, summed, bytes, bench>>

\* drop(permit), then the result is the task's, also when it is an error.
EndRead(o) ==
  /\ read[o] \in {"ok", "error"}
  /\ read' = [read EXCEPT ![o] = IF @ = "ok" THEN "read" ELSE "failed"]
  /\ DropSlot(o)
  /\ UNCHANGED <<pattern, depth, issued, summed, bytes, bench>>

StartSumming ==
  /\ bench = "issuing" /\ issued = Operations
  /\ bench' = "summing"
  /\ UNCHANGED <<pattern, depth, slots, issued, read, summed, bytes>>

\* Mutant: the second "?" is forgotten.
HasEnded(o)  == read[o] \in {"read", "failed"}
HasResult(o) == read[o] = "read"

SumNext ==
  /\ bench = "summing" /\ summed < Operations /\ HasResult(summed)
  /\ bytes' = bytes + BlockSize /\ summed' = summed + 1
  /\ UNCHANGED <<pattern, depth, slots, issued, read, bench>>

\* "??": the error ends the benchmark; later reads run on.
SumFails ==
  /\ bench = "summing" /\ summed < Operations /\ read[summed] = "failed"
  /\ bench' = "failed"
  /\ UNCHANGED <<pattern, depth, slots, issued, read, summed, bytes>>

BenchDone ==
  /\ bench = "summing" /\ summed = Operations
  /\ bench' = "done"
  /\ UNCHANGED <<pattern, depth, slots, issued, read, summed, bytes>>

LoopStep == Issue \/ StartSumming \/ SumNext \/ SumFails \/ BenchDone
ReadStep(o) == ReadBlock(o) \/ EndRead(o)

BenchNext == LoopStep \/ \E o \in Ops : ReadStep(o)

\* The loop's task is polled when it is ready; blocking threads run.
BenchFairness == /\ WF_benchVars(LoopStep)
                 /\ \A o \in Ops : WF_benchVars(ReadStep(o))

BenchSpec == BenchInit /\ [][BenchNext]_benchVars /\ BenchFairness

-----------------------------------------------------------------------------
\* At most queue_depth reads are in flight, and a read that fails gives its place
\* back like one that succeeds (97-105).
DepthKept ==
  LET inFlight == Cardinality({o \in Ops : read[o] \in {"reading", "ok", "error"}})
  IN  inFlight <= depth /\ slots + inFlight = depth

\* A result is reported only when every read succeeded, with the bytes of all, and
\* an error only when one failed (111-115).  The reads of a result with as many
\* operations as the file has blocks cover the file, also in the random pattern:
\* the stride has no factor in common with the number of blocks (46-58; 7919 is odd,
\* the blocks are a power of two).
BytesExact ==
  /\ bench = "done" => /\ bytes = Operations * BlockSize
                       /\ \A o \in Ops : read[o] = "read"
                       /\ Operations >= Blocks =>
                            {BlockOf(o) : o \in Ops} = 0 .. (Blocks - 1)
  /\ bench = "failed" => \E o \in Ops : read[o] = "failed"

\* The benchmark ends, well or with an error.
BenchEnds == <>(bench \in {"done", "failed"})
=============================================================================
