----------------------------- MODULE Correlator -----------------------------
(* blocksnoop/correlator.py on top of the ring buffer: the sampler thread     *)
(* pushes stacks while the target blocks, the event of a blocking call        *)
(* reaches on_event some time after the call has ended, and on_event looks    *)
(* back from the time at which it runs.                                       *)
EXTENDS Accumulation

CONSTANTS
    Size, Stacks, NoEntry, MaxTime, MaxPushes,  \* of the ring; a stack is a
                    \* sequence of frames [function, file, line], root first
    StdlibFiles,    \* files that match STDLIB_FRAME_PREFIXES
    Padding,        \* correlation_padding_ns
    Offset,         \* bpf_ktime_get_ns() minus time.monotonic_ns()
    MaxEvents       \* bound on the blocking calls

ASSUME CorrelatorAssumption ==
    Padding \in Nat /\ Offset \in Int /\ MaxEvents \in Nat

ASSUME RingAssumption ==
    /\ Size \in Nat \ {0}
    /\ MaxTime \in Nat /\ MaxPushes \in Nat
    /\ NoEntry \notin Nat \X Stacks /\ NoEntry \notin Stacks

VARIABLES
    buffer, head, count, overflow_count, clock,  \* the ring and Python's clock
    blocked_since,  \* when the running callback of the target began, or NoEntry
    in_flight,      \* events between the kernel and on_event
    handling,       \* the event on_event works on with its `now`, or NoEntry
    reports         \* what the reporter was given, and what on_event could see

ring == <<buffer, head, count, overflow_count, clock>>
vars == <<ring, blocked_since, in_flight, handling, reports>>

Ring == INSTANCE StackRingBuffer

Init ==
    /\ Ring!Init
    /\ blocked_since = NoEntry
    /\ in_flight = <<>>
    /\ handling = NoEntry
    /\ reports = <<>>

-----------------------------------------------------------------------------
(* Deduplication by call site.                                                *)

AppFrames(stack) == SelectSeq(stack, LAMBDA f : f.file \notin StdlibFiles)

\* The deepest frame outside the standard library, else the deepest frame
LeafKey(stack) ==
    LET frames == IF AppFrames(stack) # <<>> THEN AppFrames(stack) ELSE stack
        leaf == frames[Len(frames)]
    IN  <<leaf.function, leaf.file>>

IsInformative(stack) ==
    LET app == AppFrames(stack)
    IN  Len(app) > 1 \/ (Len(app) = 1 /\ app[1].function # "<module>")

MutantDedupByLine(stacks) ==
    LET isFirst(i) == \A j \in 1 .. i - 1 : stacks[j] # stacks[i]
    IN  Keep(stacks, {i \in 1 .. Len(stacks) : stacks[i] # <<>> /\ isFirst(i)})

\* The dictionary `seen`: the oldest stack with frames of each call site
Seen(stacks) ==
    LET isFirst(i) == \A j \in 1 .. i - 1 :
            stacks[j] # <<>> => LeafKey(stacks[j]) # LeafKey(stacks[i])
    IN  Keep(stacks, {i \in 1 .. Len(stacks) : stacks[i] # <<>> /\ isFirst(i)})

\* <module>-only stacks give way to the others
Preferred(seen) ==
    LET informative == Keep(seen, {i \in 1 .. Len(seen) : IsInformative(seen[i])})
    IN  IF informative # <<>> THEN informative ELSE seen

-----------------------------------------------------------------------------
(* on_event.                                                                  *)

Longer(a, b) == IF a > b THEN a ELSE b

MutantUnpaddedStart(event, now) == now - (event.end_ns - event.start_ns)

SearchStart(event, now) ==
    LET duration == event.end_ns - event.start_ns
    IN  now - duration - Longer(duration, Padding)

\* now = time.monotonic_ns()
OnEvent ==
    /\ handling = NoEntry
    /\ in_flight # <<>>
    /\ handling' = [event |-> Head(in_flight), now |-> clock]
    /\ in_flight' = Tail(in_flight)
    /\ UNCHANGED <<ring, blocked_since, reports>>

\* The search holds the ring's lock; the sampler may push before it
Correlate ==
    /\ handling # NoEntry
    /\ LET start_ns == SearchStart(handling.event, handling.now)
           found == Ring!FindAllInRange(start_ns, handling.now)
       IN  reports' = Append(reports,
              [event |-> handling.event, now |-> handling.now,
               python_stacks |-> Preferred(Seen(found)), retained |-> Ring!OrderedEntries])
    /\ handling' = NoEntry
    /\ UNCHANGED <<ring, blocked_since, in_flight>>

-----------------------------------------------------------------------------
(* The sampler and the target.                                                *)

\* on_sample for the target's thread; samples of other threads are filtered out
OnSample(stack) ==
    /\ Ring!Push(stack)
    /\ UNCHANGED <<blocked_since, in_flight, handling, reports>>

Block ==
    /\ blocked_since = NoEntry
    /\ Len(in_flight) + Len(reports) + (IF handling = NoEntry THEN 0 ELSE 1) < MaxEvents
    /\ blocked_since' = clock
    /\ UNCHANGED <<ring, in_flight, handling, reports>>

\* The detector emits the event with the kernel's timestamps
Unblock ==
    /\ blocked_since # NoEntry
    /\ in_flight' = Append(in_flight,
          [start_ns |-> blocked_since + Offset, end_ns |-> clock + Offset])
    /\ blocked_since' = NoEntry
    /\ UNCHANGED <<ring, handling, reports>>

Tick ==
    /\ Ring!Tick
    /\ UNCHANGED <<blocked_since, in_flight, handling, reports>>

Next ==
    \/ OnEvent \/ Correlate \/ Block \/ Unblock \/ Tick
    \/ \E stack \in Stacks : OnSample(stack)

Spec == Init /\ [][Next]_vars

-----------------------------------------------------------------------------
Events == [start_ns : Int, end_ns : Int]
Reports == [event : Events, now : Nat, python_stacks : Seq(Stacks), retained : Seq(Nat \X Stacks)]

\* The correlator's own variables have their types.
TypeOK ==
    /\ blocked_since \in Nat \cup {NoEntry}
    /\ in_flight \in Seq(Events)
    /\ handling \in [event : Events, now : Nat] \cup {NoEntry}
    /\ reports \in Seq(Reports)

\* What on_event relies on when it anchors its search on the present: a blocking
\* call lies in the past by the time its event is taken up.
EventsArePast ==
    /\ blocked_since # NoEntry => blocked_since <= clock
    /\ \A i \in 1 .. Len(in_flight) : in_flight[i].end_ns <= clock + Offset
    /\ handling # NoEntry => /\ handling.event.end_ns <= handling.now + Offset
                             /\ handling.now <= clock

Sites(stacks) == {LeafKey(stacks[i]) : i \in 1 .. Len(stacks)}
Duration(r) == r.event.end_ns - r.event.start_ns
Reach(r) == Longer(Duration(r), Padding)

\* The samples on_event could find that were taken while the target was blocked
DuringCall(r) ==
    {i \in 1 .. Len(r.retained) :
        /\ r.retained[i][2] # <<>>
        /\ r.retained[i][1] + Offset \in r.event.start_ns .. r.event.end_ns}

\* The call site of every sample taken during the call is in the report r, if
\* the event came in time
Complete(r) ==
    r.now + Offset - r.event.end_ns <= Reach(r) =>
        \A i \in DuringCall(r) :
            \/ LeafKey(r.retained[i][2]) \in Sites(r.python_stacks)
            \/ /\ \E j \in 1 .. Len(r.python_stacks) : IsInformative(r.python_stacks[j])
               /\ \E j \in 1 .. Len(r.retained) :
                     /\ r.retained[j][2] # <<>>
                     /\ LeafKey(r.retained[j][2]) = LeafKey(r.retained[i][2])
                     /\ ~ IsInformative(r.retained[j][2])

\* No stack of the report r is older than the padding allows, and no call site
\* is in it twice
Recent(r) ==
    /\ \A i, j \in 1 .. Len(r.python_stacks) :
          LeafKey(r.python_stacks[i]) = LeafKey(r.python_stacks[j]) => i = j
    /\ \A j \in 1 .. Len(r.python_stacks) : \E i \in 1 .. Len(r.retained) :
          /\ r.retained[i][2] = r.python_stacks[j]
          /\ r.retained[i][1] + Offset >= r.event.start_ns - Reach(r)
          /\ r.retained[i][1] <= r.now

\* "show every unique blocking call site" (on_event): when the event arrives
\* within the padding (or the call's own duration, if longer) after the end of
\* the call, every sample taken during the call and still in the ring has its
\* call site in the report, whatever the offset between the two clocks; it may
\* only give way to an informative stack when its site was seen as <module> only.
CulpritsReported == \A k \in 1 .. Len(reports) : Complete(reports[k])

\* The padding bounds the false positives: no reported stack was sampled longer
\* before the call than the padding (or the call's duration), nor after `now`,
\* and a call site appears once.
StacksAreRecent == \A k \in 1 .. Len(reports) : Recent(reports[k])

\* The comment in on_event: "Prefer stacks with real app frames over
\* <module>-only stacks": a report of <module>-only stacks means that the search
\* window held nothing better.
PrefersAppFrames ==
    \A k \in 1 .. Len(reports) :
        LET r == reports[k]
            window == {i \in 1 .. Len(r.retained) :
                          r.retained[i][1] \in SearchStart(r.event, r.now) .. r.now}
        IN  (\E i \in window : IsInformative(r.retained[i][2])) =>
                \A j \in 1 .. Len(r.python_stacks) : IsInformative(r.python_stacks[j])

\* The inductive invariant: with a ring whose snapshots are in order it makes
\* every report complete and recent.
CorrelatorInv == TypeOK /\ EventsArePast /\ CulpritsReported /\ StacksAreRecent
=============================================================================
