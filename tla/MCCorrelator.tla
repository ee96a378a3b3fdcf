---------------------------- MODULE MCCorrelator ----------------------------
(* Two call sites below the event loop, one of them sampled on two lines, the *)
(* bare module, a sample without frames, and the main module imported a       *)
(* second time by a function of its own.                                      *)
EXTENDS Correlator

Frame(function, file, line) == [function |-> function, file |-> file, line |-> line]
Module == Frame("<module>", "app", 1)
EventLoop == Frame("run_forever", "asyncio", 1)

BareModule == <<Module, EventLoop>>
Handler(line) == <<Module, EventLoop, Frame("handler", "app", line)>>
Reimported == <<Module, Frame("load", "app", 4), Module>>

MCStdlib == {"asyncio"}
MCStacks == {BareModule, Handler(2), Handler(3), <<>>}
MCReimporting == {BareModule, Reimported}
=============================================================================
