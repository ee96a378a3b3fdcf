-------------------------- MODULE StackRingBuffer --------------------------
(* The ring of Python stack samples shared by the Austin reader thread, which *)
(* pushes, and the correlator, which searches it by time.  push and the       *)
(* snapshot taken by the searches hold the buffer's lock, so each is one      *)
(* step; the searches then work on their private snapshot.                    *)
EXTENDS Accumulation

CONSTANTS
    Size,       \* slots of the ring
    Stacks,     \* the PythonStackTrace values
    NoEntry,    \* None
    MaxTime,    \* bound on the clock
    MaxPushes   \* bound on the number of samples pushed

ASSUME SizeAssumption == Size \in Nat \ {0}
ASSUME BoundsAssumption == MaxTime \in Nat /\ MaxPushes \in Nat
ASSUME NoEntryAssumption == NoEntry \notin Nat \X Stacks /\ NoEntry \notin Stacks

VARIABLES
    buffer,          \* _buffer: a slot holds <<timestamp_ns, stack>> or NoEntry
    head,            \* _head: the slot the next push writes
    count,           \* _count: the number of valid slots
    overflow_count,  \* _overflow_count: samples rotated out
    clock            \* time.monotonic_ns()

vars == <<buffer, head, count, overflow_count, clock>>

Init ==
    /\ buffer = [i \in 0 .. Size - 1 |-> NoEntry]
    /\ head = 0
    /\ count = 0
    /\ overflow_count = 0
    /\ clock = 0

-----------------------------------------------------------------------------
MutantUnrotated == [i \in 1 .. Size |-> buffer[i - 1]]

\* The slots of a full ring from the oldest on
Rotated == [i \in 1 .. Size |-> buffer[(head + i - 1) % Size]]

\* _ordered_entries: a full ring starts at head and skips the slots that hold
\* None (no filtering is needed unless there is one)
OrderedEntries ==
    IF count < Size THEN [i \in 1 .. count |-> buffer[i - 1]]
    ELSE IF \E i \in 1 .. Size : Rotated[i] = NoEntry
         THEN SelectSeq(Rotated, LAMBDA e : e # NoEntry)
         ELSE Rotated

Timestamps(entries) == [i \in 1 .. Len(entries) |-> entries[i][1]]

MutantExclusiveEnd(start_ns, end_ns) ==
    LET entries == OrderedEntries
        lo == BisectLeft(Timestamps(entries), start_ns)
        hi == BisectLeft(Timestamps(entries), end_ns)
    IN  [i \in 1 .. hi - lo |-> entries[lo + i][2]]

FindAllInRange(start_ns, end_ns) ==
    LET entries == OrderedEntries
        lo == BisectLeft(Timestamps(entries), start_ns)
        hi == BisectRight(Timestamps(entries), end_ns)
    IN  [i \in 1 .. hi - lo |-> entries[lo + i][2]]

Distance(a, b) == IF a < b THEN b - a ELSE a - b

\* Only the entry at the insertion point of target_ns and the one before it are
\* looked at; on a tie the earlier one is kept
FindNearest(target_ns, start_ns, end_ns) ==
    LET entries == OrderedEntries
        pos == BisectLeft(Timestamps(entries), target_ns)
        diff(i) == Distance(entries[i][1], target_ns)
        Acceptable(i) ==
            /\ i \in 1 .. Len(entries)
            /\ entries[i][1] \in start_ns .. end_ns
            /\ diff(i) < end_ns - start_ns + 1
        before == pos
        after == pos + 1
    IN  IF Acceptable(after) /\ (Acceptable(before) => diff(after) < diff(before))
        THEN entries[after][2]
        ELSE IF Acceptable(before) THEN entries[before][2] ELSE NoEntry

FindInRange(start_ns, end_ns) == FindNearest(start_ns, start_ns, end_ns)

-----------------------------------------------------------------------------
MutantKeepOldest(stack) ==
    /\ count + overflow_count < MaxPushes
    /\ buffer' = IF count < Size THEN [buffer EXCEPT ![head] = <<clock, stack>>] ELSE buffer
    /\ head' = (head + 1) % Size
    /\ IF count < Size
       THEN count' = count + 1 /\ UNCHANGED overflow_count
       ELSE overflow_count' = overflow_count + 1 /\ UNCHANGED count
    /\ UNCHANGED clock

\* on_sample stamps the sample and pushes it; a full ring overwrites its oldest
Push(stack) ==
    /\ count + overflow_count < MaxPushes
    /\ buffer' = [buffer EXCEPT ![head] = <<clock, stack>>]
    /\ head' = (head + 1) % Size
    /\ IF count < Size
       THEN count' = count + 1 /\ UNCHANGED overflow_count
       ELSE overflow_count' = overflow_count + 1 /\ UNCHANGED count
    /\ UNCHANGED clock

Tick ==
    /\ clock < MaxTime
    /\ clock' = clock + 1
    /\ UNCHANGED <<buffer, head, count, overflow_count>>

Next == Tick \/ \E stack \in Stacks : Push(stack)

Spec == Init /\ [][Next]_vars

-----------------------------------------------------------------------------
Entries == Nat \X Stacks

\* The ring's variables have their types.
TypeOK ==
    /\ buffer \in [0 .. Size - 1 -> Entries \cup {NoEntry}]
    /\ head \in 0 .. Size - 1
    /\ count \in 0 .. Size
    /\ overflow_count \in Nat
    /\ clock \in Nat

\* The comment in _ordered_entries, "entries occupy [0, _count), head == _count",
\* for a ring that never rotated, and a full ring without a None slot: nothing
\* that was pushed is skipped by the None filter.
FilledPrefix ==
    /\ \A i \in 0 .. Size - 1 : (buffer[i] # NoEntry) <=> (i < count)
    /\ count < Size => head = count /\ overflow_count = 0
    /\ overflow_count > 0 => count = Size

\* bisect needs sorted timestamps: whatever the rotation, the entries come out
\* in chronological order and none is from the future.
Chronological ==
    \A i, j \in 1 .. Len(OrderedEntries) :
        /\ i <= j => OrderedEntries[i][1] <= OrderedEntries[j][1]
        /\ OrderedEntries[j][1] <= clock

\* The inductive invariant of the ring: its types and the filled prefix, from
\* which the order of the entries and the refinement follow.
Inv == TypeOK /\ FilledPrefix

\* The ring is the window of the newest Size samples.
Window == INSTANCE SlidingWindow WITH window <- OrderedEntries, dropped <- overflow_count

WindowSpec == Window!Spec

-----------------------------------------------------------------------------
(* The searches against what their docstrings promise.                        *)

InRange(s, e) ==
    {i \in 1 .. Len(OrderedEntries) : OrderedEntries[i][1] \in s .. e}

\* find_all_in_range returns exactly the retained samples with a timestamp in
\* [s, e], each once, oldest first.
FindAllIsExact(s, e) ==
    FindAllInRange(s, e) = LET hits == Keep(OrderedEntries, InRange(s, e))
                           IN  [i \in 1 .. Len(hits) |-> hits[i][2]]

\* r is a right answer of a search for the sample nearest to t in [s, e]: None
\* when the window holds no sample, else a sample no other one is closer than
IsNearest(r, t, s, e) ==
    LET hits == InRange(s, e)
        dist(i) == Distance(OrderedEntries[i][1], t)
    IN  IF hits = {} THEN r = NoEntry
        ELSE \E i \in hits : r = OrderedEntries[i][2] /\ \A j \in hits : dist(i) <= dist(j)

Times == -1 .. MaxTime + 1

\* Both searches answer as their docstrings promise, in rings that are empty,
\* partly filled, full and rotated, at both inclusive ends of every window:
\* find_all_in_range is exact, and find_in_range, and find_nearest with a target
\* inside its window, return a sample no retained sample of the window is closer
\* than, and None only when the window is empty.
SearchesAreExact ==
    \A s, e \in Times :
        /\ FindAllIsExact(s, e)
        /\ \A t \in s .. e : IsNearest(FindNearest(t, s, e), t, s, e)
        /\ IsNearest(FindInRange(s, e), s, s, e)
=============================================================================
