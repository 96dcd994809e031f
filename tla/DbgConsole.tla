----------------------------- MODULE DbgConsole -----------------------------
(***************************************************************************)
(* The debug console of src/src/bas/proc/dbgthread.c: a thread that reads  *)
(* command lines, the application that starts and stops it (as             *)
(* src/app/sldbg.c does), and the timer its `w' command controls, which is *)
(* what TimerSpec promises of it.                                          *)
(*                                                                         *)
(* Commands that only print are one step; the printing is left out.        *)
(***************************************************************************)
EXTENDS Integers, Sequences, FiniteSets, SequencesExt

CONSTANTS
    Console,          \* the console threads, one for each start_dbg_thread
    Line,             \* what may be typed: [cmd |-> kind, words |-> of `w']
    Callback,         \* what dbgthread_set_exit_callback may be given
    DefaultInterval,  \* TIMER_DEFAULT_INTERVAL_MS
    IntMax,           \* INT_MAX
    Kilo,             \* milliseconds in a second
    None

Command == {"blank", "unparsable", "nowords", "prints", "timer", "exit"}
Flag == {"stackdump", "health", "dump_fd"}

ASSUME ConsoleAssumption ==
    /\ None \notin Console /\ None # <<"stop">> /\ None \notin {"-f", "-w"}
    /\ Callback \subseteq {"notifies", "stops"}
    /\ \A l \in Line : /\ l.cmd \in Command
                       /\ l.words \in Seq([text : STRING, num : Int, unit : STRING])
    /\ IntMax \in Nat /\ Kilo \in Nat \ {0} /\ DefaultInterval \in 1 .. IntMax

-----------------------------------------------------------------------------
(* The words of `w'.  A word is its text, and its number and unit when it   *)
(* starts with digits (its number is -1 otherwise).                         *)

(* Faulty variant: any number of seconds is multiplied. *)
IntervalUnchecked(w) ==
    IF w.num < 0 \/ w.num > IntMax THEN -1
    ELSE IF w.unit = "s" THEN w.num * Kilo ELSE w.num

(* parse_interval_ms *)
IntervalMs(w) ==
    IF w.num < 0 \/ w.num > IntMax THEN -1
    ELSE IF w.unit # "s" THEN w.num
    ELSE IF w.num > IntMax \div Kilo THEN -1
    ELSE w.num * Kilo

SetInterval(cmd, w) ==
    IF IntervalMs(w) > 0 THEN [cmd EXCEPT !.opts.interval = IntervalMs(w)] ELSE cmd

FlagOf == [w \in {"-s", "--stackdump", "-h", "--health", "-d", "--dump-fd"} |->
    CASE w \in {"-s", "--stackdump"} -> "stackdump"
      [] w \in {"-h", "--health"} -> "health"
      [] OTHER -> "dump_fd"]

(* One round of the loop; a -f or -w takes the next word, whatever it is.   *)
TimerWord(cmd, w) ==
    IF cmd.value = "-f" THEN [cmd EXCEPT !.opts.file = w.text, !.value = None]
    ELSE IF cmd.value = "-w" THEN SetInterval([cmd EXCEPT !.value = None], w)
    ELSE IF w.text \in DOMAIN FlagOf
         THEN [cmd EXCEPT !.opts.flags = @ \cup {FlagOf[w.text]}]
    ELSE IF w.text \in {"-q", "--quit"} THEN [cmd EXCEPT !.quit = TRUE]
    ELSE IF w.text = "-f" THEN [cmd EXCEPT !.value = "-f"]
    ELSE IF w.text \in {"-w", "--interval"} THEN [cmd EXCEPT !.value = "-w"]
    ELSE SetInterval(cmd, w)

NoOptions == [interval |-> DefaultInterval, flags |-> {}, file |-> ""]

(* run_timer_cmd: what the words ask for. *)
TimerCmd(words) ==
    LET cmd == FoldLeft(TimerWord,
                        [opts |-> NoOptions, quit |-> FALSE, value |-> None], words)
    IN  IF cmd.quit THEN <<"stop">>
        ELSE <<"start", IF cmd.opts.flags = {}
                        THEN [cmd.opts EXCEPT !.flags = {"health"}] ELSE cmd.opts>>

TimerCall == {TimerCmd(l.words) : l \in {l \in Line : l.cmd = "timer"}}

-----------------------------------------------------------------------------
VARIABLES
    kbdQuit,      \* g_kbd_quit
    interactive,  \* s_interactive
    dbgThread,    \* g_dbg_thread, until it is joined
    exitCb,       \* s_exit_cb
    main,         \* where the application is: "idle" outside these calls
    pc,           \* where each console thread is
    eof,          \* the end of stdin has been read
    late,         \* lines read since the application asked for a stop, up to 2
    exiting,      \* threads in exit(): "main" and consoles
    exited,       \* the process is gone
    timer, call   \* of TimerSpec

vars == <<kbdQuit, interactive, dbgThread, exitCb, main, pc, eof, late, exiting,
          exited, timer, call>>
console == <<kbdQuit, interactive, dbgThread, exitCb, main, eof, late, exiting, exited>>

(* A timer started without a path has none: see DbgTimer. *)
Timer == INSTANCE TimerSpec WITH
    Client <- Console,
    Option <- {c[2] : c \in {c \in TimerCall : c # <<"stop">>}},
    Params <- LAMBDA o : [interval |-> o.interval, flags |-> o.flags],
    InitialFile <- LAMBDA o : {o.file},
    UpdatedFile <- LAMBDA path, o : IF o.file = "" THEN path ELSE o.file

Init ==
    /\ kbdQuit = FALSE /\ interactive = FALSE
    /\ dbgThread = None /\ exitCb = None
    /\ main = "idle"
    /\ pc = [k \in Console |-> "none"]
    /\ eof = FALSE /\ late = 0
    /\ exiting = {} /\ exited = FALSE
    /\ Timer!Init

-----------------------------------------------------------------------------
(* The application *)

SetExitCallback(cb) ==
    /\ ~exited /\ main = "idle" /\ dbgThread = None
    /\ exitCb' = cb
    /\ UNCHANGED <<kbdQuit, interactive, dbgThread, main, pc, eof, late, exiting,
                   exited, timer, call>>

CallStart ==
    /\ ~exited /\ main = "idle" /\ dbgThread = None
    /\ kbdQuit' = FALSE /\ interactive' = TRUE
    /\ main' = "create"
    /\ UNCHANGED <<dbgThread, exitCb, pc, eof, late, exiting, exited, timer, call>>

Create(k) ==
    /\ ~exited /\ main = "create" /\ pc[k] = "none"
    /\ pc' = [pc EXCEPT ![k] = "loop"]
    /\ dbgThread' = k
    /\ main' = "idle"
    /\ UNCHANGED <<kbdQuit, interactive, exitCb, eof, late, exiting, exited, timer, call>>

CreateFails ==
    /\ ~exited /\ main = "create"
    /\ interactive' = FALSE
    /\ main' = "idle"
    /\ UNCHANGED <<kbdQuit, dbgThread, exitCb, pc, eof, late, exiting, exited, timer,
                   call>>

StopWith(quit) ==
    /\ ~exited /\ main = "idle" /\ dbgThread # None
    /\ kbdQuit' = quit /\ interactive' = FALSE
    /\ main' = "join"
    /\ UNCHANGED <<dbgThread, exitCb, pc, eof, late, exiting, exited, timer, call>>

(* Faulty variant: the flag is not set, only the thread waited for. *)
CallStopNoQuit == StopWith(kbdQuit)

CallStop == StopWith(TRUE)

(* Faulty variant: the thread is not waited for. *)
JoinDetached ==
    /\ ~exited /\ main = "join"
    /\ main' = "idle" /\ dbgThread' = None /\ late' = 0
    /\ UNCHANGED <<kbdQuit, interactive, exitCb, pc, eof, exiting, exited, timer, call>>

JoinDone == JoinDetached /\ pc[dbgThread] = "ended"

(* main returns after it stopped the console, or could not start it. *)
MainReturns ==
    /\ ~exited /\ main = "idle" /\ dbgThread = None
    /\ main' = "returned"
    /\ exiting' = exiting \cup {"main"}
    /\ UNCHANGED <<kbdQuit, interactive, dbgThread, exitCb, pc, eof, late, exited,
                   timer, call>>

(* exit() comes to its end. *)
Terminate ==
    /\ ~exited /\ exiting # {}
    /\ exited' = TRUE
    /\ UNCHANGED <<kbdQuit, interactive, dbgThread, exitCb, main, pc, eof, late, exiting,
                   timer, call>>

-----------------------------------------------------------------------------
(* kbd_monitor_thread *)

Goto(k, from, to) == ~exited /\ pc[k] = from /\ pc' = [pc EXCEPT ![k] = to]

(* Faulty variant: only the end of the input ends the loop. *)
WhileForever(k) ==
    /\ Goto(k, "loop", "read")
    /\ UNCHANGED <<console, timer, call>>

While(k) ==
    /\ Goto(k, "loop", IF kbdQuit THEN "ended" ELSE "read")
    /\ UNCHANGED <<console, timer, call>>

AfterLine(l) ==
    CASE l.cmd = "timer" -> "timer"
      [] l.cmd = "exit" -> "exit"
      [] OTHER -> "loop"

(* A line is read, and run_command begins.  All but `w' and `exit' end at   *)
(* once: nothing to parse, not to be parsed, no word, or a command that     *)
(* prints (an unknown one says so).                                         *)
ReadLine(k) ==
    /\ ~eof
    /\ \E l \in Line :
          /\ Goto(k, "read", AfterLine(l))
          /\ call' = IF l.cmd = "timer" THEN [call EXCEPT ![k] = TimerCmd(l.words)]
                     ELSE call
    /\ late' = IF main = "join" /\ late < 2 THEN late + 1 ELSE late
    /\ UNCHANGED <<kbdQuit, interactive, dbgThread, exitCb, main, eof, exiting, exited,
                   timer>>

(* End of file, which stays, or no memory for the line. *)
ReadEnds(k) ==
    /\ Goto(k, "read", "ended")
    /\ eof' \in {eof, TRUE}
    /\ kbdQuit' = TRUE
    /\ UNCHANGED <<interactive, dbgThread, exitCb, main, late, exiting, exited, timer,
                   call>>

(* start_timer_thread or stop_timer_thread takes effect. *)
TimerEffect(k) ==
    /\ ~exited
    /\ Timer!Start(k) \/ Timer!Update(k) \/ Timer!Stop(k)
    /\ UNCHANGED <<console, pc>>

TimerReturns(k) ==
    /\ call[k] = None
    /\ Goto(k, "timer", "loop")
    /\ UNCHANGED <<console, timer, call>>

(* exit without a callback *)
ExitApp(k) ==
    /\ exitCb = None
    /\ Goto(k, "exit", "exiting")
    /\ exiting' = exiting \cup {k}
    /\ UNCHANGED <<kbdQuit, interactive, dbgThread, exitCb, main, eof, late, exited,
                   timer, call>>

(* A callback that tells the application to stop the console some time, or  *)
(* one that calls stop_dbg_thread itself: the thread cannot join itself     *)
(* (EDEADLK) and goes on.                                                   *)
ExitCallback(k) ==
    /\ exitCb # None
    /\ Goto(k, "exit", "loop")
    /\ kbdQuit' = (kbdQuit \/ exitCb = "stops")
    /\ interactive' = (interactive /\ exitCb # "stops")
    /\ UNCHANGED <<dbgThread, exitCb, main, eof, late, exiting, exited, timer, call>>

-----------------------------------------------------------------------------
ConsoleStep(k) ==
    \/ While(k) \/ ReadLine(k) \/ ReadEnds(k)
    \/ TimerEffect(k) \/ TimerReturns(k) \/ ExitApp(k) \/ ExitCallback(k)

Next ==
    \/ \E cb \in Callback : SetExitCallback(cb)
    \/ CallStart \/ CreateFails \/ CallStop \/ JoinDone \/ MainReturns
    \/ \E k \in Console : Create(k) \/ ConsoleStep(k)
    \/ Terminate

Spec == Init /\ [][Next]_vars

(* Threads are scheduled; somebody goes on typing or closes the input; a    *)
(* call to the timer returns (CallsReturn of DbgTimer); exit ends.  Nothing *)
(* makes the application start or stop the console.                         *)
FairSpec ==
    /\ Spec
    /\ \A k \in Console : WF_vars(ConsoleStep(k))
    /\ WF_vars(JoinDone) /\ WF_vars(Terminate)

-----------------------------------------------------------------------------
(* Type invariant; the options of a start have an interval that fits an int *)
(* and at least one thing to do.                                            *)
TypeOK ==
    /\ {kbdQuit, interactive, eof, exited} \subseteq BOOLEAN
    /\ dbgThread \in Console \cup {None}
    /\ exitCb \in Callback \cup {None}
    /\ main \in {"idle", "create", "join", "returned"}
    /\ pc \in [Console -> {"none", "loop", "read", "timer", "exit", "exiting", "ended"}]
    /\ late \in 0 .. 2
    /\ exiting \subseteq Console \cup {"main"}
    /\ timer = None \/ timer.params.interval \in 1 .. IntMax
    /\ \A k \in Console : call[k] \notin {None, <<"stop">>} =>
          /\ call[k][1] = "start"
          /\ call[k][2].interval \in 1 .. IntMax
          /\ call[k][2].flags # {} /\ call[k][2].flags \subseteq Flag

(* stop_timer_thread is safe with one caller at a time only (OneStopper of  *)
(* DbgTimer).  The console is that caller: also when it is stopped and      *)
(* started again, or stops itself in its exit callback, there are never two *)
(* threads that stop the timer.                                             *)
SingleStopper == Cardinality({k \in Console : call[k] = <<"stop">>}) <= 1

(* After stop_dbg_thread has returned, no command is running, none will, and*)
(* the output is no longer interactive; while it waits, at most one more    *)
(* line is run, the one the console was waiting for.  So the return of main *)
(* and the exit command never both run exit(), which would be undefined.    *)
StopHolds ==
    /\ dbgThread = None /\ main # "create" =>
          ~interactive /\ \A k \in Console : pc[k] \in {"none", "ended"} /\ call[k] = None
    /\ late <= 1
    /\ Cardinality(exiting) <= 1

(* stop_dbg_thread returns, or the process ends: one more line or the end of*)
(* the input is enough, whatever command is running and wherever the end of *)
(* the input, an exit callback or a stop of the timer comes in between.     *)
StopReturns == main = "join" ~> main # "join" \/ exited
=============================================================================
