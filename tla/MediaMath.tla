----------------------------- MODULE MediaMath -----------------------------
(***************************************************************************)
(* The arithmetic that decides what fits on a tape: usable capacity, the   *)
(* size of a PAR2 recovery set before it exists, first-fit-decreasing      *)
(* packing, the percentage that fills a tape, and par2's memory plan.      *)
(*                                                                         *)
(* Sizes are bytes.  Percentages in the configuration are fractions, kept  *)
(* here in tenths.                                                         *)
(***************************************************************************)
EXTENDS Integers, Sequences, FiniteSets, FiniteSetsExt, SequencesExt

CONSTANTS
    TargetBlocks, MaxBlocks,        \* targetSourceBlocks, maxSourceBlocks
    Multiple,                       \* blockSizeMultiple
    PacketHeader, PerBlock, PerFile, Fixed,   \* the allowances of MaxOutputBytes
    Unit, MaxChunk, Buffers, Staging          \* mebibyte, maxChunkBytes, transferBuffers, maxStagingBuffers

ASSUME MediaMathAssumption ==
    /\ {TargetBlocks, MaxBlocks, Multiple, Unit, MaxChunk} \subseteq Nat \ {0}
    /\ {PacketHeader, PerBlock, PerFile, Fixed, Buffers, Staging} \subseteq Nat
    /\ TargetBlocks > 3 /\ TargetBlocks <= MaxBlocks

CeilDiv(n, d) == (n + d - 1) \div d
Largest(a, b) == IF a > b THEN a ELSE b
Smallest(a, b) == IF a < b THEN a ELSE b
Total(s) == LET t[i \in 0..Len(s)] == IF i = 0 THEN 0 ELSE t[i - 1] + s[i] IN t[Len(s)]

-----------------------------------------------------------------------------
(* Percentages *)

MinPercent == 1
MaxPercent == 100
ClampPercent(p) == Largest(MinPercent, Smallest(MaxPercent, p))

\* par2ReservePercent: a target is rounded, a floor is rounded up.
PAR2ReservePercent(r) ==
    ClampPercent(IF r.mode = "target" THEN (r.tenths + 5) \div 10 ELSE CeilDiv(r.tenths, 10))

\* usableCapacity: the native capacity less five percent, rounded up.
UsableCapacity(native) == native - CeilDiv(native, 20)

-----------------------------------------------------------------------------
(* The size of a recovery set *)

\* ComputeBlockSize: about TargetBlocks blocks, or one per file when there are
\* many, and never more than MaxBlocks.
ComputeBlockSize(total, files) ==
    LET wanted == IF files < TargetBlocks \div 2
                  THEN CeilDiv(total, TargetBlocks - files)
                  ELSE CeilDiv(total, files - 1)
        least  == CeilDiv(total, Largest(1, MaxBlocks - files))
    IN  Largest(Multiple, CeilDiv(Largest(wanted, least), Multiple) * Multiple)

\* bits.Len64.
BitLen(n) == Cardinality({b \in 0..30 : 2^b <= n})

\* Mutant: the data's share alone, as before issue 148.
MutMaxOutputBytes(data, files, percent) == CeilDiv(data * percent, 100)
\* MaxOutputBytes: recovery packets, and the critical packets as often as par2
\* may repeat them.
MaxOutputBytes(data, files, percent) ==
    LET n        == Largest(1, files)
        block    == ComputeBlockSize(data, n)
        source   == Largest(1, CeilDiv(data, block) + n - 1)
        recovery == CeilDiv(source * percent, 100) + 1
        bits     == BitLen(recovery)
    IN  recovery * (block + PacketHeader)
        + (PerBlock * source + PerFile * n + Fixed) * (bits + 2) * (bits + 1)

\* The blocks par2 reads and writes for files of these sizes.
SourceBlocks(sizes) ==
    LET block == ComputeBlockSize(Total(sizes), Len(sizes))
    IN  Total([i \in DOMAIN sizes |-> CeilDiv(sizes[i], block)])
RecoveryBlocks(sizes, percent) == Largest(1, (SourceBlocks(sizes) * percent + 50) \div 100)

\* par2 itself: every recovery block in a packet, and the critical packets once
\* in the index file and once per bit of the block count in each volume.
PAR2Output(sizes, percent) ==
    LET n == RecoveryBlocks(sizes, percent)  bits == BitLen(n)
    IN  n * (ComputeBlockSize(Total(sizes), Len(sizes)) + PacketHeader)
        + (PerBlock * SourceBlocks(sizes) + PerFile * Len(sizes) + Fixed)
          * (1 + (bits * (bits + 1)) \div 2)

-----------------------------------------------------------------------------
(* Memory *)

\* BudgetFor: half of what is available, within bounds.
BudgetFor(available, least, most) == Smallest(Largest(available \div 2, least), most)

\* A reading of the host is the set of what it found: empty when a file is
\* missing, does not parse, or says max.  A cgroup directory is a limit and a
\* usage.
Headroom(dir) == {Largest(0, l - u) : l \in dir.limit, u \in dir.usage}
\* cgroupV2Headroom: the process's directory and those above it.
V2Headroom(dirs) == UNION {Headroom(dirs[i]) : i \in DOMAIN dirs}
\* cgroupV1Headroom: the first directory with both readings.
V1Headroom(dirs) ==
    LET read == {i \in DOMAIN dirs : Headroom(dirs[i]) # {}}
    IN  IF read = {} THEN {} ELSE Headroom(dirs[Min(read)])

\* MemoryBudgetFrom: for the smallest of MemAvailable and the headrooms, or the
\* least when nothing can be read.
MemoryBudget(host, least, most) ==
    LET found == host.available \cup V2Headroom(host.v2) \cup V1Headroom(host.v1)
    IN  IF found = {} THEN least ELSE BudgetFor(Min(found), least, most)

\* PlanMemory: enough for the fewest passes over the input, at most the budget,
\* in whole units and at least one.
PlanMemory(sizes, percent, budget) ==
    LET block   == ComputeBlockSize(Total(sizes), Len(sizes))
        buffers == RecoveryBlocks(sizes, percent) + Buffers
                   + Smallest(Staging, SourceBlocks(sizes) + 1)
        wanted  == CeilDiv(Smallest(block, MaxChunk) * buffers, Unit) * Unit
        limit   == Largest(Unit, Smallest(wanted, (budget \div Unit) * Unit))
    IN  [limit |-> limit, buffers |-> buffers, block |-> block,
         chunk |-> Smallest(MaxChunk, IF block * buffers > limit
                                      THEN ((limit \div buffers) \div 4) * 4 ELSE block)]

-----------------------------------------------------------------------------
(* Packing *)

Footprint(item) == item.data + item.reserved
PlannedBytes(tape) == Total([i \in DOMAIN tape |-> Footprint(tape[i])])
DataBytes(tape) == Total([i \in DOMAIN tape |-> tape[i].data])

\* The first tape with room, or a new one.
Place(tapes, item, usable) ==
    LET room == {t \in DOMAIN tapes : PlannedBytes(tapes[t]) + Footprint(item) <= usable}
    IN  IF room # {} THEN [tapes EXCEPT ![Min(room)] = Append(@, item)]
        ELSE Append(tapes, <<item>>)

\* The members of S, in the order of the pairs in before.
InOrder(S, before) ==
    [n \in 1..Cardinality(S) |-> CHOOSE x \in S : Cardinality({y \in S : <<y, x>> \in before}) = n - 1]

\* An item for each archive, with what its recovery set is reserved.
Items(staged, r) ==
    [i \in DOMAIN staged |->
       [index |-> i, data |-> Total(staged[i]), slices |-> Len(staged[i]),
        reserved |-> MaxOutputBytes(Total(staged[i]), Len(staged[i]), PAR2ReservePercent(r))]]

\* The largest first, equal ones in source order.
BySize(items) ==
    InOrder(items, {p \in items \X items : \/ Footprint(p[1]) > Footprint(p[2])
                                           \/ Footprint(p[1]) = Footprint(p[2]) /\ p[1].index < p[2].index})
InSourceOrder(items) == InOrder(items, {p \in items \X items : p[1].index < p[2].index})

FirstFit(items, usable) ==
    LET placed[n \in 0..Len(items)] == IF n = 0 THEN <<>> ELSE Place(placed[n - 1], items[n], usable)
    IN  placed[Len(items)]

\* pack: the footprint of every archive must fit a tape; the largest are placed
\* first, and each tape is put back in source order.
Pack(staged, r, native) ==
    LET usable == UsableCapacity(native)
        items  == Items(staged, r)
        tapes  == FirstFit(BySize(Range(items)), usable)
    IN  IF staged # <<>> /\ (usable <= 0 \/ \E i \in DOMAIN items : Footprint(items[i]) > usable)
        THEN [fits |-> FALSE, tapes |-> <<>>]
        ELSE [fits |-> TRUE, tapes |-> [t \in DOMAIN tapes |-> InSourceOrder(Range(tapes[t]))]]

\* tapePAR2Bound.
TapePAR2Bound(tape, percent) ==
    Total([i \in DOMAIN tape |-> MaxOutputBytes(tape[i].data, tape[i].slices, percent)])

\* fillPercent: up from the floor, to the last percentage before one that does
\* not fit.
FillPercent(tape, floor, usable) ==
    LET slack == Largest(0, usable - DataBytes(tape))
        over  == {p \in floor..MaxPercent : TapePAR2Bound(tape, p) > slack}
    IN  IF DataBytes(tape) <= 0 THEN floor
        ELSE IF over = {} THEN MaxPercent
        ELSE Largest(floor, Min(over) - 1)

\* par2Percentages: one percentage for all, or one per tape.
PAR2Percentage(tape, r, native) ==
    IF r.mode = "target" THEN PAR2ReservePercent(r)
    ELSE FillPercent(tape, PAR2ReservePercent(r), UsableCapacity(native))
=============================================================================
