--------------------------- MODULE SlidingWindow ---------------------------
(* What StackRingBuffer (blocksnoop/profiler.py) promises its two users, the *)
(* Austin reader thread and the correlator: a window over the last Size      *)
(* samples, oldest first, and a count of the samples that left it.           *)
EXTENDS Integers, Sequences

CONSTANTS Size, Stacks, MaxTime, MaxPushes

VARIABLES
    window,   \* the retained samples <<timestamp_ns, stack>>, oldest first
    dropped,  \* how many samples were rotated out
    clock     \* time.monotonic_ns()

vars == <<window, dropped, clock>>

Init == window = <<>> /\ dropped = 0 /\ clock = 0

\* The newest Size entries of s
Newest(s) == IF Len(s) > Size THEN Tail(s) ELSE s

Record(stack) ==
    /\ Len(window) + dropped < MaxPushes
    /\ window' = Newest(Append(window, <<clock, stack>>))
    /\ dropped' = IF Len(window) = Size THEN dropped + 1 ELSE dropped
    /\ UNCHANGED clock

Tick == clock < MaxTime /\ clock' = clock + 1 /\ UNCHANGED <<window, dropped>>

Next == Tick \/ \E stack \in Stacks : Record(stack)

Spec == Init /\ [][Next]_vars
=============================================================================
