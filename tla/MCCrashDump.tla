---------------------------- MODULE MCCrashDump ----------------------------
(* Finite instances of CrashDump for TLC: the console and a timer, or the   *)
(* console alone.                                                           *)
EXTENDS CrashDump

TwoThreads == {"console", "timer"}
OneThread == {"console"}
NestOne == [t \in Thread |-> 1]
=============================================================================
