----------------------------- MODULE MCReporter -----------------------------
(* Two call sites and an event without a stack; the durations lie around the  *)
(* error threshold of 2 units of 10: 16 rounds up to it, 14 rounds down from  *)
(* it, 15 may go either way.                                                  *)
EXTENDS Reporter

Frame(function, file, line) == [function |-> function, file |-> file, line |-> line]
Stack(line) == <<Frame("<module>", "app", 1), Frame("run", "asyncio", 1),
                 Frame("handler", "app", line)>>

Option(sinks, summary_only, fail_on, fail_on_loss) ==
    [sinks |-> sinks, summary_only |-> summary_only,
     fail_on |-> fail_on, fail_on_loss |-> fail_on_loss]

\* The event numbers and the starving of a sink need two sinks; every policy
\* and --summary-only appear once
MCOptions == {Option(<<"stream", "file">>, FALSE, "error", FALSE),
              Option(<<"console", "file">>, FALSE, "event", FALSE),
              Option(<<"stream">>, TRUE, "error", TRUE),
              Option(<<"console">>, FALSE, "none", TRUE)}

MCStdlib == {"asyncio"}
MCEvents == {[duration |-> 16, stacks |-> <<Stack(2)>>],
             [duration |-> 15, stacks |-> <<Stack(3), Stack(2)>>],
             [duration |-> 14, stacks |-> <<>>]}
=============================================================================
