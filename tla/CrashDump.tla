----------------------------- MODULE CrashDump -----------------------------
(***************************************************************************)
(* Stack dumps of src/src/bas/proc/stackdump.c: who runs gdb on whom, and  *)
(* what is left in the files.                                              *)
(*                                                                         *)
(* A dump forks a gdb, waits for it and falls back to its own backtrace    *)
(* when gdb exits with an error.  Threads of the application call it (the  *)
(* timer, the console's bt command), and so does the child that            *)
(* crash_handler forks when a thread crashes.  Threads crash at any time,  *)
(* the ones that dump included; a child inherits the handler and may crash *)
(* in its turn.                                                            *)
(*                                                                         *)
(* Process <<t, 0>> is thread t of the application, all of which die       *)
(* together; <<t, n>> is the child forked by the handler of <<t, n - 1>>.  *)
(***************************************************************************)
EXTENDS Naturals

CONSTANTS
    Thread,      \* threads of the application
    Console,     \* the one that runs bt commands
    CrashFile,   \* g_crash_dump_path
    UserFile,    \* paths given with -f
    TempFile,    \* names mkstemp may create
    MaxNest,     \* bound: MaxNest[t], crashes inside the dump of a crash of t
    None

ASSUME CrashAssumption ==
    /\ Console \in Thread
    /\ CrashFile \notin UserFile \cup TempFile /\ UserFile \cap TempFile = {}
    /\ None \notin {CrashFile} \cup UserFile \cup TempFile
    /\ MaxNest \in [Thread -> Nat \ {0}]

Base == {CrashFile} \cup UserFile \cup TempFile
Proc == UNION {{t} \X (0 .. MaxNest[t]) : t \in Thread}
App == {p \in Proc : p[2] = 0}
Child(p) == <<p[1], p[2] + 1>>

VARIABLES
    pc,      \* where each process is
    job,     \* the dump it is making: its path, and what comes after
    gdb,     \* the gdb process of that dump
    files,   \* what is in <base>.gdb and <base>.bt: "other" is nothing, an error
             \* message, or the output of a dump before the last call
    due,     \* paths whose last dump was asked for, and has not been lost
    heap     \* "ok", "broken" (its use may crash), "locked" (by a crash in it)

vars == <<pc, job, gdb, files, due, heap>>

NoJob == [base |-> None, after |-> "running"]
NoFiles == [gdb |-> "none", bt |-> "none"]

(* The handler is installed, and the application runs. *)
Init ==
    /\ pc = [p \in Proc |-> IF p \in App THEN "running" ELSE "none"]
    /\ job = [p \in Proc |-> NoJob]
    /\ gdb = [p \in Proc |-> "none"]
    /\ files = [b \in Base |-> NoFiles]
    /\ due = {}
    /\ heap = [p \in Proc |-> "ok"]

Alive(p) == pc[p] \notin {"none", "dead"}
InHandler(p) == pc[p] \in {"fork", "wait_child"}
DumpOf(p) == job[p].base
Waited(p) == pc[p] = "gdb"
MayWrite(p) == gdb[p] \in {"forked", "open"}

(* gdb runs on the process itself, or on the crashed parent. *)
Target(p) == IF p \in App THEN p ELSE <<p[1], p[2] - 1>>

(* The path has the dump it was last asked for, by gdb or as a backtrace. *)
Settled(f) == f.gdb = "dump" \/ f.bt = "trace"

(* Of these paths, those without a dump have lost it for good. *)
Lose(B) == due' = due \ {b \in B \cap due : ~Settled(files'[b])}

Goto(p, from, to) == pc[p] = from /\ pc' = [pc EXCEPT ![p] = to]

(* What the files of the path hold is out of date from now on. *)
Older(c) == IF c = "none" THEN c ELSE "other"
StartDump(p, base, after) ==
    /\ job' = [job EXCEPT ![p] = [base |-> base, after |-> after]]
    /\ files' = [b \in Base |->
          IF b = base THEN [gdb |-> Older(files[b].gdb), bt |-> Older(files[b].bt)] ELSE files[b]]
    /\ due' = due \cup {base}
EndDump(p) ==
    /\ job' = [job EXCEPT ![p] = NoJob]
    /\ gdb' = [gdb EXCEPT ![p] = "none"]

(* An end of stackdump_gdb_pid: the caller goes on, or the child exits. *)
ReturnFromDump(p) ==
    /\ pc' = [pc EXCEPT ![p] = IF job[p].after = "exit" THEN "dead" ELSE job[p].after]
    /\ gdb' = [gdb EXCEPT ![p] = "none"]
    /\ job' = IF job[p].after = "show" THEN job ELSE [job EXCEPT ![p] = NoJob]

(* The processes in P leave what they were doing, by a crash or an _exit: a *)
(* gdb they wait for goes on alone; without one that has their file, a dump *)
(* that has not been written yet is lost.                                   *)
CutOff(P, where) ==
    /\ pc' = [p \in Proc |-> IF p \in P THEN where ELSE pc[p]]
    /\ job' = [p \in Proc |-> IF p \in P /\ ~MayWrite(p) THEN NoJob ELSE job[p]]
    /\ gdb' = [p \in Proc |-> IF p \in P /\ ~MayWrite(p) THEN "none" ELSE gdb[p]]
    /\ UNCHANGED files
    /\ Lose({DumpOf(p) : p \in {q \in P : ~MayWrite(q)}})

(* _exit: of a child, or of the application with all its threads. *)
Exit(p) == CutOff(IF p \in App THEN App ELSE {p}, "dead")

-----------------------------------------------------------------------------
(* Calls in the application *)

(* stackdump of a timer that fires. *)
CallStackdump(t, f) ==
    /\ t # Console
    /\ Goto(<<t, 0>>, "running", "dump")
    /\ StartDump(<<t, 0>>, f, "running")
    /\ UNCHANGED <<gdb, heap>>

(* The bt command, with -f or with a temporary file (without one, when      *)
(* mkstemp fails, it returns).                                              *)
CallBt(f) ==
    /\ Goto(<<Console, 0>>, "running", "dump")
    /\ StartDump(<<Console, 0>>, f, "show")
    /\ UNCHANGED <<gdb, heap>>

(* What bt prints: <base>.gdb if there is such a file, else the backtrace.   *)
(* It unlinks a temporary one.                                               *)
Shown(f) == IF files[f].gdb # "none" THEN files[f].gdb ELSE files[f].bt

BtShow ==
    LET p == <<Console, 0>>
    IN  /\ Goto(p, "show", "running")
        /\ files' = IF DumpOf(p) \in TempFile
                    THEN [files EXCEPT ![DumpOf(p)] = NoFiles] ELSE files
        /\ due' = due \ (TempFile \cap {DumpOf(p)})
        /\ EndDump(p)
        /\ UNCHANGED heap

(* A thread ends the application. *)
AppExit ==
    /\ \E p \in App : pc[p] = "running" /\ Exit(p)
    /\ UNCHANGED heap

-----------------------------------------------------------------------------
(* stackdump_gdb_pid, in any process *)

DumpFork(p) ==
    /\ heap[p] # "locked"
    /\ Goto(p, "dump", "gdb")
    /\ gdb' = [gdb EXCEPT ![p] = "forked"]
    /\ UNCHANGED <<job, files, due, heap>>

(* No fallback then. *)
DumpForkFails(p) ==
    /\ pc[p] = "dump" /\ heap[p] # "locked"
    /\ ReturnFromDump(p)
    /\ UNCHANGED <<files, heap>>
    /\ Lose({DumpOf(p)})

(* The forked child truncates the file before it becomes gdb. *)
GdbOpen(p) ==
    /\ gdb[p] = "forked"
    /\ gdb' = [gdb EXCEPT ![p] = "open"]
    /\ files' = [files EXCEPT ![DumpOf(p)].gdb = "other"]
    /\ UNCHANGED <<pc, job, due, heap>>

(* It cannot open it: gdb runs all the same, with the output of its parent. *)
GdbOpenFails(p) ==
    /\ gdb[p] = "forked"
    /\ UNCHANGED <<pc, files, heap>>
    /\ IF Waited(p)
       THEN gdb' = [gdb EXCEPT ![p] = "stdout"] /\ UNCHANGED <<job, due>>
       ELSE EndDump(p) /\ Lose({DumpOf(p)})

(* The gdb ends with an error status or without; one nobody waits for       *)
(* leaves no trace.                                                         *)
GdbEnds(p, how) ==
    /\ gdb[p] \in {"open", "stdout"}
    /\ IF Waited(p) THEN gdb' = [gdb EXCEPT ![p] = how] /\ UNCHANGED job ELSE EndDump(p)
    /\ UNCHANGED <<pc, heap>>

(* gdb can only report on a process that is there. *)
GdbReports(p) ==
    /\ gdb[p] = "open" /\ Alive(Target(p))
    /\ GdbEnds(p, "ok")
    /\ files' = [files EXCEPT ![DumpOf(p)].gdb = "dump"]
    /\ due' = due \cup {DumpOf(p)}

(* It reports on stdout, or not at all.  When the attach is refused, or     *)
(* there is nobody to attach to, gdb -batch goes on with its commands, the  *)
(* last of which is quit, and exits with 0; when a signal kills it, there   *)
(* is no exit status, and so no error to DumpWaited.                        *)
GdbReportsElsewhere(p) ==
    /\ GdbEnds(p, "ok")
    /\ files' = [files EXCEPT ![DumpOf(p)].gdb = IF gdb[p] = "open" THEN "other" ELSE @]
    /\ Lose({DumpOf(p)})

(* No gdb is installed: _exit(127).  Who waits for it makes up for it. *)
GdbFails(p) ==
    /\ GdbEnds(p, "failed")
    /\ UNCHANGED files
    /\ IF Waited(p) THEN UNCHANGED due ELSE Lose({DumpOf(p)})

(* Faulty variant: a gdb that could not be run is not noticed. *)
DumpWaitedAnyStatus(p) ==
    /\ gdb[p] \in {"ok", "failed"}
    /\ Goto(p, "gdb", "success")
    /\ UNCHANGED <<job, gdb, files, due, heap>>

(* waitpid returns: only an exit status other than 0 counts as failure. *)
DumpWaited(p) ==
    /\ gdb[p] \in {"ok", "failed"}
    /\ Goto(p, "gdb", IF gdb[p] = "failed" THEN "fallback" ELSE "success")
    /\ UNCHANGED <<job, gdb, files, due, heap>>

(* stackdump_current_thread truncates its file, and fills it *)
Fallback(p) ==
    /\ Goto(p, "fallback", "trace")
    /\ files' = [files EXCEPT ![DumpOf(p)].bt = "other"]
    /\ UNCHANGED <<job, gdb, due, heap>>

FallbackWrites(p) ==
    /\ Goto(p, "trace", "failure")
    /\ files' = [files EXCEPT ![DumpOf(p)].bt = "trace"]
    /\ due' = due \cup {DumpOf(p)}
    /\ UNCHANGED <<job, gdb, heap>>

(* or returns silently, when it cannot open it. *)
FallbackFails(p) ==
    /\ Goto(p, "fallback", "failure")
    /\ UNCHANGED <<job, gdb, files, heap>>
    /\ Lose({DumpOf(p)})

(* The coloured copy, if there is a schema, and the return. A child in      *)
(* Highlighted mode prints <base>.gdb and exits, in the other mode it exits.*)
DumpDone(p) ==
    /\ pc[p] \in {"success", "failure"}
    /\ ReturnFromDump(p)
    /\ UNCHANGED <<files, due, heap>>

-----------------------------------------------------------------------------
(* crash_handler *)

(* A thread of the application crashes, in the middle of a dump or not; its *)
(* heap may be damaged, or it may hold the lock of the allocator.           *)
Crash(t) ==
    /\ Alive(<<t, 0>>) /\ ~InHandler(<<t, 0>>)
    /\ CutOff({<<t, 0>>}, "fork")
    /\ \E h \in {heap[<<t, 0>>], "broken", "locked"} :
          heap' = [p \in Proc |-> IF p \in App THEN h ELSE heap[p]]

(* A child works on a copy of the broken heap when it opens, colours and    *)
(* prints files (with which colours and in which mode, is abstracted to     *)
(* "may").  The handler is called again unless the signal is the one whose  *)
(* handler forked the child: that one is blocked and kills the child.       *)
ChildCrashes(p) ==
    /\ heap[p] = "broken" /\ p \notin App
    /\ pc[p] \in {"fallback", "trace", "success", "failure"}
    /\ CutOff({p}, "fork") \/ CutOff({p}, "dead")
    /\ UNCHANGED heap

HandlerForkTo(p, base) ==
    /\ pc[p] = "fork" /\ heap[p] # "locked" /\ Child(p) \in Proc
    /\ pc' = [pc EXCEPT ![p] = "wait_child", ![Child(p)] = "dump"]
    /\ heap' = [heap EXCEPT ![Child(p)] = heap[p]]
    /\ StartDump(Child(p), base, "exit")
    /\ UNCHANGED gdb

(* Faulty variant: g_crash_dump_path was not set. *)
HandlerForkNoPath(p) == HandlerForkTo(p, None)

(* fork takes the locks of the allocator, and copies the heap. *)
HandlerFork(p) == HandlerForkTo(p, CrashFile)

(* Faulty variant: the handler waits all the same. *)
HandlerForkFailsWaits(p) ==
    /\ heap[p] # "locked" /\ Child(p) \in Proc
    /\ Goto(p, "fork", "wait_child")
    /\ UNCHANGED <<job, gdb, files, due, heap>>

HandlerForkFails(p) ==
    /\ pc[p] = "fork" /\ heap[p] # "locked"
    /\ Exit(p)
    /\ UNCHANGED heap

(* The child has ended: _exit(128 + sig). *)
HandlerWaited(p) ==
    /\ pc[p] = "wait_child" /\ pc[Child(p)] = "dead"
    /\ Exit(p)
    /\ UNCHANGED heap

-----------------------------------------------------------------------------
ProcessStep(p) ==
    \/ DumpFork(p) \/ DumpForkFails(p) \/ DumpWaited(p)
    \/ Fallback(p) \/ FallbackWrites(p) \/ FallbackFails(p) \/ DumpDone(p)
    \/ HandlerFork(p) \/ HandlerForkFails(p) \/ HandlerWaited(p)
    \/ ChildCrashes(p)
GdbStep(p) ==
    \/ GdbOpen(p) \/ GdbOpenFails(p)
    \/ GdbReports(p) \/ GdbReportsElsewhere(p) \/ GdbFails(p)
Client ==
    \/ \E t \in Thread : Crash(t) \/ \E f \in UserFile : CallStackdump(t, f)
    \/ \E f \in UserFile \cup TempFile : CallBt(f)
    \/ BtShow \/ AppExit

Next == Client \/ \E p \in Proc : ProcessStep(p) \/ GdbStep(p)

Spec == Init /\ [][Next]_vars

(* Processes are scheduled, and gdb -batch ends.  What a thread has started *)
(* (its dump, its handler, the children) waits for nothing else.            *)
StepOf(t) == \E p \in Proc : p[1] = t /\ (ProcessStep(p) \/ GdbStep(p))
FairSpec == Spec /\ \A t \in Thread : WF_vars(StepOf(t))

-----------------------------------------------------------------------------
(* Type invariant. *)
TypeOK ==
    /\ pc \in [Proc -> {"none", "running", "dump", "gdb", "success", "fallback",
                        "trace", "failure", "show", "fork", "wait_child", "dead"}]
    /\ job \in [Proc -> [base : Base \cup {None}, after : {"running", "show", "exit"}]]
    /\ gdb \in [Proc -> {"none", "forked", "open", "stdout", "ok", "failed"}]
    /\ \A p \in Proc : gdb[p] # "none" => DumpOf(p) # None
    /\ files \in [Base -> [gdb : {"none", "dump", "other"},
                            bt : {"none", "trace", "other"}]]
    /\ due \subseteq Base
    /\ heap \in [Proc -> {"ok", "broken", "locked"}]

(***************************************************************************)
(* When the last dump to a path is over, the path has a dump of gdb or a   *)
(* backtrace that is not older than the last call for one: also when       *)
(* several threads and children dump there at once, truncate each other's  *)
(* files and end under each other's gdb.  A call is "lost", and with it the*)
(* claim, unless another one wrote the files meanwhile, only                *)
(*   - when its fork fails: there is no fallback then;                     *)
(*   - when gdb starts but reports nothing to the file (not opened, attach *)
(*     refused, killed): this counts as success, although stackdump.c:170  *)
(*     says "Returns 0 if gdb succeeded";                                  *)
(*   - when gdb cannot start, and the backtrace's file cannot be opened;   *)
(*   - when the caller crashes or ends before it has written.              *)
(***************************************************************************)
DumpOrTrace ==
    \A b \in due : (\A p \in Proc : DumpOf(p) # b) => Settled(files[b])

(***************************************************************************)
(* A crashed application ends: the handler, its child's dump, gdb and the  *)
(* fallback do not wait for one another for ever.  Only a crash inside the *)
(* allocator may hang it (the fork waits for the allocator's lock) or, with*)
(* a broken heap, nest for ever.                                           *)
(***************************************************************************)
CrashEnds == \A p \in App : InHandler(p) ~> pc[p] = "dead" \/ heap[p] # "ok"

(* bt shows a backtrace whenever one was made: "dump backtrace (-f FILE     *)
(* else stdout)" (dbgthread.c:557).                                         *)
BtShowsBacktrace ==
    \A p \in App : pc[p] = "show" /\ files[DumpOf(p)].bt = "trace" =>
        Shown(DumpOf(p)) # "other"
=============================================================================
