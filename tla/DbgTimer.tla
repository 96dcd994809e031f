------------------------------ MODULE DbgTimer ------------------------------
(***************************************************************************)
(* The periodic debug timer of src/src/bas/proc/dbgthread.c.               *)
(*                                                                         *)
(* Client threads call start_timer_thread, stop_timer_thread and           *)
(* print_timer_status; each started timer is a thread of its own, bound to *)
(* one heap-allocated struct timer_context.  s_timer_mutex serialises the  *)
(* calls and the timer's copy of its parameters, but stop_timer_thread     *)
(* gives it up while it waits for the thread to end, and the timer reads   *)
(* opts.stackdump_file without it.                                         *)
(*                                                                         *)
(* A step is a stretch of code between two points where another thread can *)
(* see a difference.  A context stands for its own timer thread: c is the  *)
(* address of the context and the identity of the thread started on it.    *)
(***************************************************************************)
EXTENDS Naturals

CONSTANTS
    Client,    \* threads that call the timer functions
    Stopper,   \* the clients that may call stop_timer_thread
    Ctx,       \* addresses calloc may return for a struct timer_context
    Option,    \* the struct timer_options values clients pass
    File,      \* stackdump paths
    Null,      \* the NULL pointer; also "nobody holds the mutex"
    Empty,     \* stackdump_file[0] == '\0'
    Partial,   \* what a reader finds while snprintf writes a path
    DefaultInterval, \* TIMER_DEFAULT_INTERVAL_MS, in polls of TIMER_POLL_MS
    TempFile   \* names mkstemp may create

Flag == {"stackdump", "health", "dump_fd"}

ASSUME ClientAssumption == Stopper \subseteq Client
ASSUME AddressAssumption == /\ Client \cap Ctx = {}
                            /\ Null \notin Client \cup Ctx
ASSUME FileAssumption == /\ Empty \notin File \cup {Partial}
                         /\ Partial \notin File
                         /\ TempFile \subseteq File
ASSUME OptionAssumption ==
    Option \subseteq [interval : Nat, flags : SUBSET Flag, file : File \cup {Empty}]
ASSUME IntervalAssumption == DefaultInterval \in Nat \ {0}
ASSUME NullAssumption ==   \* "no timer" is not the value of a timer
    Null \notin [params : [interval : Nat, flags : SUBSET Flag],
                file : File \cup {Empty, Partial}]

VARIABLES
    timerCtx,  \* s_timer_ctx
    mutex,     \* owner of s_timer_mutex
    heap,      \* which contexts are allocated
    quit,      \* quit[c]: ctx->quit
    opts,      \* opts[c]: ctx->opts, the file name apart
    file,      \* file[c]: ctx->opts.stackdump_file
    pc,        \* pc[t]: where client t is
    arg,       \* arg[t]: the options of t's call of start_timer_thread, if any
    my,        \* my[t]: t's local ctx (start) or the thread it joins (stop)
    tpc,       \* tpc[c]: where the timer thread of c is
    snap,      \* snap[c]: that thread's copies of interval and flags
    acc        \* acc[c]: its accumulated_ms, in polls

clientVars == <<pc, arg, my>>
threadVars == <<tpc, snap, acc>>
ctxVars == <<heap, quit, opts, file>>
vars == <<timerCtx, mutex, heap, quit, opts, file, pc, arg, my, tpc, snap, acc>>

-----------------------------------------------------------------------------
(* An interval of 0 or less selects the default. *)
Normalize(interval) == IF interval > 0 THEN interval ELSE DefaultInterval

(* The parameters an option set stands for once start_timer_thread has it. *)
Params(o) == [interval |-> Normalize(o.interval), flags |-> o.flags]

(* mkstemp(3) accepts only templates that end in XXXXXX. *)
Mkstemp(endsInXs) == IF endsInXs THEN TempFile \cup {Empty} ELSE {Empty}

(* Where a new context's stackdump_file may end up: the caller's path, or   *)
(* what mkstemp makes of "/tmp/stack.XXXXXX.dump": nothing, although        *)
(* dbgthread.h:14 says "if empty, use mkstemp with .dump".                  *)
InitialFile(o) == IF o.file # Empty THEN {o.file}
                  ELSE IF "stackdump" \in o.flags THEN Mkstemp(FALSE)
                  ELSE {Empty}

AnyParams == [interval |-> DefaultInterval, flags |-> {}]

Init ==
    /\ timerCtx = Null
    /\ mutex = Null
    /\ heap = [c \in Ctx |-> "free"]
    /\ quit = [c \in Ctx |-> FALSE]
    /\ opts = [c \in Ctx |-> AnyParams]
    /\ file = [c \in Ctx |-> Empty]
    /\ pc = [t \in Client |-> "idle"]
    /\ arg = [t \in Client |-> Null]
    /\ my = [t \in Client |-> Null]
    /\ tpc = [c \in Ctx |-> "none"]
    /\ snap = [c \in Ctx |-> AnyParams]
    /\ acc = [c \in Ctx |-> 0]

Goto(t, from, to) == pc[t] = from /\ pc' = [pc EXCEPT ![t] = to]
ThreadGoto(c, from, to) == tpc[c] = from /\ tpc' = [tpc EXCEPT ![c] = to]
Return(t, from) == Goto(t, from, "idle") /\ arg' = [arg EXCEPT ![t] = Null]
Acquire(thread) == mutex = Null /\ mutex' = thread
Release == mutex' = Null

(* What freed memory holds means nothing: it is given one value. *)
Free(c) ==
    /\ heap' = [heap EXCEPT ![c] = "free"]
    /\ quit' = [quit EXCEPT ![c] = FALSE]
    /\ opts' = [opts EXCEPT ![c] = AnyParams]
    /\ file' = [file EXCEPT ![c] = Empty]
-----------------------------------------------------------------------------
(* Faulty variants of actions below: what the properties must notice.       *)

(* The interval is stored as passed, 0 included. *)
UpdateIntervalRaw(t) ==
    /\ Goto(t, "start", "update_flags")
    /\ timerCtx # Null
    /\ Acquire(t)
    /\ opts' = [opts EXCEPT ![timerCtx].interval = arg[t].interval]
    /\ UNCHANGED <<timerCtx, heap, quit, file, arg, my, threadVars>>

(* The flags are added to the old ones. *)
UpdateFlagsAdds(t) ==
    /\ Goto(t, "update_flags",
            IF arg[t].file = Empty THEN "update_return" ELSE "update_file")
    /\ opts' = [opts EXCEPT ![timerCtx].flags = @ \cup arg[t].flags]
    /\ mutex' = IF arg[t].file = Empty THEN Null ELSE mutex
    /\ UNCHANGED <<timerCtx, heap, quit, file, arg, my, threadVars>>

(* The path is copied even if it is empty. *)
UpdateFlagsEmptyPath(t) ==
    /\ Goto(t, "update_flags", "update_file")
    /\ opts' = [opts EXCEPT ![timerCtx].flags = arg[t].flags]
    /\ UNCHANGED <<timerCtx, mutex, heap, quit, file, arg, my, threadVars>>

(* The mutex is given up between pthread_create and the publication. *)
StartCreateUnlocks(t) ==
    /\ Goto(t, "create", "publish")
    /\ tpc' = [tpc EXCEPT ![my[t]] = "while"]
    /\ acc' = [acc EXCEPT ![my[t]] = 0]
    /\ Release
    /\ UNCHANGED <<timerCtx, ctxVars, arg, my, snap>>

(* The context is not freed when pthread_create fails. *)
StartCreateFailsLeaks(t) ==
    /\ Return(t, "create")
    /\ my' = [my EXCEPT ![t] = Null]
    /\ Release
    /\ UNCHANGED <<timerCtx, ctxVars, threadVars>>

(* stop_timer_thread frees the context without a join. *)
StopQuitNoJoin(t) ==
    /\ Goto(t, "stop", "stop_free")
    /\ mutex = Null
    /\ timerCtx # Null
    /\ quit' = [quit EXCEPT ![timerCtx] = TRUE]
    /\ UNCHANGED <<timerCtx, mutex, heap, opts, file, arg, my, threadVars>>

(* stop_timer_thread joins with the mutex held. *)
StopQuitLocked(t) ==
    /\ Goto(t, "stop", "join_load")
    /\ timerCtx # Null
    /\ Acquire(t)
    /\ quit' = [quit EXCEPT ![timerCtx] = TRUE]
    /\ UNCHANGED <<timerCtx, heap, opts, file, arg, my, threadVars>>

(* s_timer_ctx is not cleared. *)
StopFreeKeepsGlobal(t) ==
    /\ Goto(t, "stop_free", "idle")
    /\ mutex = Null
    /\ Free(timerCtx)
    /\ UNCHANGED <<timerCtx, mutex, arg, my, threadVars>>

(* The timer copies its parameters without the mutex. *)
ThreadCopyIntervalUnlocked(c) ==
    /\ ThreadGoto(c, "lock", "copy")
    /\ snap' = [snap EXCEPT ![c].interval = opts[c].interval]
    /\ UNCHANGED <<timerCtx, mutex, ctxVars, clientVars, acc>>

(* accumulated_ms starts over in every poll. *)
ThreadCountForgets(c) ==
    LET due == acc[c] + 1 >= Normalize(snap[c].interval)
    IN  /\ tpc[c] = "count"
        /\ tpc' = [tpc EXCEPT ![c] = IF due THEN "fire" ELSE "while"]
        /\ acc' = [acc EXCEPT ![c] = 0]
        /\ UNCHANGED <<timerCtx, mutex, ctxVars, clientVars, snap>>

-----------------------------------------------------------------------------
(* start_timer_thread.  (A NULL argument returns at once and does    *)
(* nothing.)                                                               *)
CallStart(t, o) ==
    /\ Goto(t, "idle", "start")
    /\ arg' = [arg EXCEPT ![t] = o]
    /\ UNCHANGED <<timerCtx, mutex, ctxVars, my, threadVars>>

(* A timer exists: take the mutex and overwrite its parameters one by one. *)
UpdateInterval(t) ==
    /\ Goto(t, "start", "update_flags")
    /\ timerCtx # Null
    /\ Acquire(t)
    /\ opts' = [opts EXCEPT ![timerCtx].interval = Normalize(arg[t].interval)]
    /\ UNCHANGED <<timerCtx, heap, quit, file, arg, my, threadVars>>

UpdateFlags(t) ==
    /\ Goto(t, "update_flags",
            IF arg[t].file = Empty THEN "update_return" ELSE "update_file")
    /\ opts' = [opts EXCEPT ![timerCtx].flags = arg[t].flags]
    /\ mutex' = IF arg[t].file = Empty THEN Null ELSE mutex
    /\ UNCHANGED <<timerCtx, heap, quit, file, arg, my, threadVars>>

(* snprintf writes the path: until it is done a reader without the mutex    *)
(* may find nothing or a part of it, also if the path is the one that was   *)
(* there.                                                                   *)
UpdateFileBegin(t) ==
    /\ Goto(t, "update_file", "update_file_end")
    /\ file' = [file EXCEPT ![timerCtx] = Partial]
    /\ UNCHANGED <<timerCtx, mutex, heap, quit, opts, arg, my, threadVars>>

UpdateFileEnd(t) ==
    /\ Goto(t, "update_file_end", "update_return")
    /\ file' = [file EXCEPT ![timerCtx] = arg[t].file]
    /\ Release
    /\ UNCHANGED <<timerCtx, heap, quit, opts, arg, my, threadVars>>

(* `return s_timer_ctx' reads the global after the mutex is given up, and   *)
(* NULL tells the caller that the call failed.                             *)
UpdateReturn(t) ==
    /\ Return(t, "update_return")
    /\ UNCHANGED <<timerCtx, mutex, ctxVars, my, threadVars>>

(* No timer: take the mutex, allocate and fill a context of t's own ... *)
StartAlloc(t) ==
    /\ Goto(t, "start", "create")
    /\ timerCtx = Null
    /\ Acquire(t)
    /\ \E c \in Ctx, path \in InitialFile(arg[t]) :
          /\ heap[c] = "free"
          /\ heap' = [heap EXCEPT ![c] = "live"]
          /\ my' = [my EXCEPT ![t] = c]
          /\ quit' = [quit EXCEPT ![c] = FALSE]
          /\ opts' = [opts EXCEPT ![c] = Params(arg[t])]
          /\ file' = [file EXCEPT ![c] = path]
    /\ UNCHANGED <<timerCtx, arg, threadVars>>

StartAllocFails(t) ==
    /\ Return(t, "start")
    /\ timerCtx = Null
    /\ mutex = Null
    /\ UNCHANGED <<timerCtx, mutex, ctxVars, my, threadVars>>

(* ... start a thread on it, still under the mutex ... *)
StartCreate(t) ==
    /\ Goto(t, "create", "publish")
    /\ tpc' = [tpc EXCEPT ![my[t]] = "while"]
    /\ acc' = [acc EXCEPT ![my[t]] = 0]
    /\ UNCHANGED <<timerCtx, mutex, ctxVars, arg, my, snap>>

StartCreateFails(t) ==
    /\ Return(t, "create")
    /\ Free(my[t])
    /\ my' = [my EXCEPT ![t] = Null]
    /\ Release
    /\ UNCHANGED <<timerCtx, threadVars>>

(* ... and publish it. *)
StartPublish(t) ==
    /\ Return(t, "publish")
    /\ timerCtx' = my[t]
    /\ my' = [my EXCEPT ![t] = Null]
    /\ Release
    /\ UNCHANGED <<ctxVars, threadVars>>

-----------------------------------------------------------------------------
(* stop_timer_thread. *)
CallStop(t) ==
    /\ t \in Stopper
    /\ Goto(t, "idle", "stop")
    /\ UNCHANGED <<timerCtx, mutex, ctxVars, arg, my, threadVars>>

StopNothing(t) ==
    /\ Goto(t, "stop", "idle")
    /\ mutex = Null
    /\ timerCtx = Null
    /\ UNCHANGED <<timerCtx, mutex, ctxVars, arg, my, threadVars>>

(* The mutex is given up for the join: the timer thread may be waiting for it. *)
StopQuit(t) ==
    /\ Goto(t, "stop", "join_load")
    /\ mutex = Null
    /\ timerCtx # Null
    /\ quit' = [quit EXCEPT ![timerCtx] = TRUE]
    /\ UNCHANGED <<timerCtx, mutex, heap, opts, file, arg, my, threadVars>>

(* s_timer_ctx->thread, read without the mutex. *)
StopJoinLoad(t) ==
    /\ Goto(t, "join_load", "join")
    /\ my' = [my EXCEPT ![t] = timerCtx]
    /\ UNCHANGED <<timerCtx, mutex, ctxVars, arg, threadVars>>

StopJoin(t) ==
    /\ Goto(t, "join", "stop_free")
    /\ tpc[my[t]] = "exited"
    /\ tpc' = [tpc EXCEPT ![my[t]] = "none"]
    /\ my' = [my EXCEPT ![t] = Null]
    /\ UNCHANGED <<timerCtx, mutex, ctxVars, arg, snap, acc>>

(* Under the mutex again: log the counter, free, clear the global. *)
StopFree(t) ==
    /\ Goto(t, "stop_free", "idle")
    /\ mutex = Null
    /\ Free(timerCtx)
    /\ timerCtx' = Null
    /\ UNCHANGED <<mutex, arg, my, threadVars>>

-----------------------------------------------------------------------------
(* print_timer_status: everything is printed under the mutex. *)
CallStatus(t) ==
    /\ Goto(t, "idle", "status_lock")
    /\ UNCHANGED <<timerCtx, mutex, ctxVars, arg, my, threadVars>>

StatusLock(t) ==
    /\ Goto(t, "status_lock", "status")
    /\ Acquire(t)
    /\ UNCHANGED <<timerCtx, ctxVars, arg, my, threadVars>>

StatusUnlock(t) ==
    /\ Goto(t, "status", "idle")
    /\ Release
    /\ UNCHANGED <<timerCtx, ctxVars, arg, my, threadVars>>

-----------------------------------------------------------------------------
(* timer_thread, running on context c. *)
ThreadWhile(c) ==
    /\ ThreadGoto(c, "while", IF quit[c] THEN "exited" ELSE "sleep")
    /\ snap' = [snap EXCEPT ![c] = AnyParams]   \* the copies are local to the loop
    /\ UNCHANGED <<timerCtx, mutex, ctxVars, clientVars, acc>>

(* nanosleep returns and the quit flag is read again. *)
ThreadWake(c) ==
    /\ ThreadGoto(c, "sleep", IF quit[c] THEN "exited" ELSE "lock")
    /\ UNCHANGED <<timerCtx, mutex, ctxVars, clientVars, snap, acc>>

(* Under the mutex: copy the parameters one by one. *)
ThreadCopyInterval(c) ==
    /\ ThreadGoto(c, "lock", "copy")
    /\ Acquire(c)
    /\ snap' = [snap EXCEPT ![c].interval = opts[c].interval]
    /\ UNCHANGED <<timerCtx, ctxVars, clientVars, acc>>

ThreadCopyFlags(c) ==
    /\ ThreadGoto(c, "copy", "count")
    /\ Release
    /\ snap' = [snap EXCEPT ![c].flags = opts[c].flags]
    /\ UNCHANGED <<timerCtx, ctxVars, clientVars, acc>>

(* One poll more; the interval in force is the one copied in this poll. *)
ThreadCount(c) ==
    LET due == acc[c] + 1 >= Normalize(snap[c].interval)
    IN  /\ ThreadGoto(c, "count", IF due THEN "fire" ELSE "while")
        /\ acc' = [acc EXCEPT ![c] = IF due THEN 0 ELSE acc[c] + 1]
        /\ UNCHANGED <<timerCtx, mutex, ctxVars, clientVars, snap>>

(* Whether stackdump_file[0] is a character. *)
HasPath(path) == IF path = Partial THEN BOOLEAN ELSE {path # Empty}

(* The counter, the health line and dump_fd are abstracted into this step; *)
(* stackdump_file[0] is read without the mutex.                            *)
ThreadFire(c) ==
    /\ \E there \in HasPath(file[c]) :
          ThreadGoto(c, "fire", IF "stackdump" \in snap[c].flags /\ there
                                THEN "stackdump" ELSE "while")
    /\ UNCHANGED <<timerCtx, mutex, ctxVars, clientVars, snap, acc>>

(* stackdump(ctx->opts.stackdump_file, ...) reads the whole path. *)
ThreadStackdump(c) ==
    /\ ThreadGoto(c, "stackdump", "while")
    /\ UNCHANGED <<timerCtx, mutex, ctxVars, clientVars, snap, acc>>

-----------------------------------------------------------------------------
Call(t) ==
    \/ \E o \in Option : CallStart(t, o)
    \/ CallStop(t) \/ CallStatus(t)

(* The steps of a call that wait for nobody, and those that take the mutex. *)
PlainStep(t) ==
    \/ UpdateFlags(t) \/ UpdateFileBegin(t) \/ UpdateFileEnd(t) \/ UpdateReturn(t)
    \/ StartCreate(t) \/ StartCreateFails(t) \/ StartPublish(t)
    \/ StopJoinLoad(t) \/ StopJoin(t) \/ StatusUnlock(t)
LockStep(t) ==
    \/ UpdateInterval(t) \/ StartAlloc(t) \/ StartAllocFails(t)
    \/ StopNothing(t) \/ StopQuit(t) \/ StopFree(t) \/ StatusLock(t)

ThreadPlainStep(c) ==
    \/ ThreadWhile(c) \/ ThreadWake(c) \/ ThreadCopyFlags(c)
    \/ ThreadCount(c) \/ ThreadFire(c) \/ ThreadStackdump(c)

Next ==
    \/ \E t \in Client : Call(t) \/ PlainStep(t) \/ LockStep(t)
    \/ \E c \in Ctx : ThreadPlainStep(c) \/ ThreadCopyInterval(c)

Spec == Init /\ [][Next]_vars

(***************************************************************************)
(* Every thread that can run is scheduled (weak fairness).  A thread that  *)
(* waits for the mutex gets it if it is free again and again (strong       *)
(* fairness): holders run for a few statements and the timer then sleeps   *)
(* 100 ms.  Nothing obliges a client to make a call.                       *)
(***************************************************************************)
Fairness ==
    /\ \A t \in Client : WF_vars(PlainStep(t)) /\ SF_vars(LockStep(t))
    /\ \A c \in Ctx : WF_vars(ThreadPlainStep(c)) /\ SF_vars(ThreadCopyInterval(c))

FairSpec == Spec /\ Fairness

-----------------------------------------------------------------------------
(* Type invariant. *)
ClientPC == {"idle", "start", "update_flags", "update_file", "update_file_end",
             "update_return", "create", "publish", "stop", "join_load", "join",
             "stop_free", "status_lock", "status"}
ThreadPC == {"none", "while", "sleep", "lock", "copy", "count", "fire",
             "stackdump", "exited"}
ParamsType == [interval : Nat \ {0}, flags : SUBSET Flag]

TypeOK ==
    /\ timerCtx \in Ctx \cup {Null}
    /\ mutex \in Client \cup Ctx \cup {Null}
    /\ heap \in [Ctx -> {"free", "live"}]
    /\ quit \in [Ctx -> BOOLEAN]
    /\ opts \in [Ctx -> ParamsType]
    /\ file \in [Ctx -> File \cup {Empty, Partial}]
    /\ pc \in [Client -> ClientPC]
    /\ arg \in [Client -> Option \cup {Null}]
    /\ my \in [Client -> Ctx \cup {Null}]
    /\ tpc \in [Ctx -> ThreadPC]
    /\ snap \in [Ctx -> ParamsType]
    /\ acc \in [Ctx -> Nat]

Running(c) == tpc[c] \notin {"none", "exited"}

(* t has told the timer to quit and has not yet cleared s_timer_ctx. *)
Stopping(t) == pc[t] \in {"join_load", "join", "stop_free"}

(* t is overwriting the parameters of the timer. *)
Updating(t) == pc[t] \in {"update_flags", "update_file", "update_file_end"}

(* The parameters that one call stands for. *)
OptionParams == {Params(o) : o \in Option}

(* The steps of a client that dereference s_timer_ctx. *)
UsesTimerCtx(t) == Updating(t) \/ pc[t] \in {"join_load", "stop_free"}

(***************************************************************************)
(* No thread touches a context that is not allocated: not a client that    *)
(* re-reads s_timer_ctx after giving up the mutex, not the timer thread    *)
(* while stop_timer_thread frees its context (free at dbgthread.c:323), not*)
(* a join of a thread already joined.                                      *)
(***************************************************************************)
NoDanglingAccess ==
    /\ \A t \in Client : UsesTimerCtx(t) => timerCtx # Null /\ heap[timerCtx] = "live"
    /\ \A t \in Client : pc[t] = "join" => my[t] # Null /\ tpc[my[t]] # "none"
    /\ \A c \in Ctx : tpc[c] # "none" => heap[c] = "live"

(***************************************************************************)
(* At most one timer thread exists, whatever start and stop calls overlap: *)
(* s_timer_ctx is cleared only after the old thread was joined.            *)
(***************************************************************************)
AtMostOneTimer ==
    \A c, d \in Ctx : tpc[c] # "none" /\ tpc[d] # "none" => c = d

(***************************************************************************)
(* Nothing leaks: an allocated context is the published one or belongs to  *)
(* a call of start_timer_thread that still holds the mutex, also when      *)
(* calloc or pthread_create fails.                                         *)
(***************************************************************************)
NoLeak ==
    \A c \in Ctx : heap[c] = "live" =>
        \/ c = timerCtx
        \/ \E t \in Client : pc[t] \in {"create", "publish"} /\ my[t] = c /\ mutex = t

(***************************************************************************)
(* The interval and the flags the timer acts on were passed together in    *)
(* one call: an update of both is never seen half done.                    *)
(***************************************************************************)
SnapshotCoherent ==
    \A c \in Ctx : tpc[c] \in {"count", "fire", "stackdump"} =>
        snap[c] \in OptionParams

(***************************************************************************)
(* A published timer that nobody asked to quit is being served by a        *)
(* thread; quit is only ever set while a stop_timer_thread is on its way   *)
(* to free the context.                                                    *)
(***************************************************************************)
TimerServed ==
    timerCtx # Null =>
        \/ Running(timerCtx) /\ ~quit[timerCtx]
        \/ \E t \in Stopper : Stopping(t)

(* Every call returns: in particular stop_timer_thread's join ends although *)
(* the timer thread may be waiting for the mutex at that moment.            *)
CallsReturn == \A t \in Client : pc[t] # "idle" ~> pc[t] = "idle"

(* A timer that is not asked to quit fires again and again, however often   *)
(* its interval is changed (accumulated_ms survives an update).             *)
TimerKeepsFiring ==
    \A c \in Ctx : []<>(tpc[c] \in {"none", "exited", "fire"} \/ quit[c])

(* The timer tests stackdump_file (dbgthread.c:236) and hands it to         *)
(* stackdump() (238) without the mutex.  The path it has found is still     *)
(* there when it is used, whatever updates come between: an update may put  *)
(* another one in its place, but takes none away.  Only while an update is  *)
(* writing a path the timer may find nothing, or a part of it.              *)
WritingPath == \E t \in Client : pc[t] = "update_file_end"
DumpPathStays == ~WritingPath => \A c \in Ctx : tpc[c] = "stackdump" => file[c] \in File

-----------------------------------------------------------------------------
(* How the promise of TimerSpec is kept.  An update counts from the moment  *)
(* its call has the mutex: nobody reads parameters before it is complete.   *)
UpdatedFile(path, o) == IF o.file = Empty THEN path ELSE o.file

TimerValue ==
    IF timerCtx = Null THEN Null
    ELSE IF \E t \in Client : Updating(t)
    THEN LET o == arg[CHOOSE t \in Client : Updating(t)]
         IN  [params |-> Params(o), file |-> UpdatedFile(file[timerCtx], o)]
    ELSE [params |-> opts[timerCtx], file |-> file[timerCtx]]

PendingCall ==
    [t \in Client |->
        IF pc[t] \in {"start", "create", "publish"} THEN <<"start", arg[t]>>
        ELSE IF pc[t] \in {"stop", "join_load", "join", "stop_free"} THEN <<"stop">>
        ELSE Null]

Promise == INSTANCE TimerSpec WITH timer <- TimerValue, call <- PendingCall, None <- Null

(* Overlapping calls behave as if executed one at a time: an update replaces *)
(* all parameters together and a stop ends with no timer.                    *)
ImplementsTimerSpec == Promise!Spec
=============================================================================
