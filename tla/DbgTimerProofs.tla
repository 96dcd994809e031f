--------------------------- MODULE DbgTimerProofs ---------------------------
(***************************************************************************)
(* Safety of the debug timer, and that it keeps the promise of TimerSpec,  *)
(* for any number of client threads, contexts, option sets and paths,      *)
(* provided one client at most stops the timer.                            *)
(***************************************************************************)
EXTENDS DbgTimer, TLAPS

OneStopper == \A s, t \in Stopper : s = t

(***************************************************************************)
(* The inductive invariant.                                                *)
(***************************************************************************)
HoldsMutex(t) == Updating(t) \/ pc[t] \in {"create", "publish", "status"}
Starting(t) == pc[t] \in {"create", "publish"}

MutexInv ==
    /\ \A t \in Client : HoldsMutex(t) <=> mutex = t
    /\ \A c \in Ctx : tpc[c] = "copy" <=> mutex = c

ArgInv ==
    \A t \in Client : pc[t] = "start" \/ Starting(t) \/ Updating(t) => arg[t] \in Option

StartInv ==
    \A t \in Client : Starting(t) =>
        /\ timerCtx = Null
        /\ my[t] \in Ctx
        /\ heap[my[t]] = "live"
        /\ ~quit[my[t]]
        /\ tpc[my[t]] = "none" <=> pc[t] = "create"

StopInv ==
    \A t \in Client :
        /\ pc[t] = "stop" \/ Stopping(t) => t \in Stopper
        /\ Stopping(t) => timerCtx # Null /\ quit[timerCtx]
        /\ pc[t] \in {"join_load", "join"} => tpc[timerCtx] # "none"
        /\ pc[t] = "join" => my[t] = timerCtx
        /\ pc[t] = "stop_free" => tpc[timerCtx] = "none"

UpdateInv == \A t \in Client : Updating(t) => timerCtx # Null

(* Who may own an allocated context, and what threads and quit flags imply. *)
HeapInv ==
    /\ timerCtx # Null => heap[timerCtx] = "live"
    /\ NoLeak
    /\ \A c \in Ctx : tpc[c] # "none" => heap[c] = "live"
    /\ \A c \in Ctx : quit[c] => c = timerCtx /\ \E t \in Stopper : Stopping(t)
    /\ \A c \in Ctx : tpc[c] = "exited" => quit[c]
    /\ timerCtx # Null /\ tpc[timerCtx] = "none" => \E t \in Stopper : pc[t] = "stop_free"

(* The parameters of a context come from one call unless one is half done. *)
HalfWritten(c) == c = timerCtx /\ \E t \in Client : pc[t] = "update_flags"

ParamsInv ==
    /\ \A c \in Ctx : heap[c] = "live" => opts[c] \in OptionParams \/ HalfWritten(c)
    /\ \A t \in Client : pc[t] = "update_flags" =>
          opts[timerCtx].interval = Normalize(arg[t].interval)
    /\ \A c \in Ctx : tpc[c] = "copy" => snap[c].interval = opts[c].interval
    /\ SnapshotCoherent

IInv == /\ TypeOK
        /\ MutexInv
        /\ ArgInv
        /\ StartInv
        /\ StopInv
        /\ UpdateInv
        /\ HeapInv
        /\ ParamsInv
(* Overwriting the interval or the flags of one context keeps the type. *)
LEMMA ParamsUpdate ==
    ASSUME NEW p \in [Ctx -> ParamsType], NEW c,
           NEW i \in Nat \ {0}, NEW f \in SUBSET Flag
    PROVE  /\ [p EXCEPT ![c].interval = i] \in [Ctx -> ParamsType]
           /\ [p EXCEPT ![c].flags = f] \in [Ctx -> ParamsType]
<1>1. \A d \in Ctx : p[d] = [interval |-> p[d].interval, flags |-> p[d].flags]
  BY DEF ParamsType
<1>2. \A d \in Ctx : p[d].interval \in Nat \ {0} /\ p[d].flags \in SUBSET Flag
  BY DEF ParamsType
<1> DEFINE q == [p EXCEPT ![c].interval = i]
           r == [p EXCEPT ![c].flags = f]
<1>3. \A d \in Ctx : q[d] \in ParamsType
  <2> SUFFICES ASSUME NEW d \in Ctx PROVE q[d] \in ParamsType
    OBVIOUS
  <2>1. CASE d = c
    BY <1>1, <1>2, <2>1 DEF ParamsType
  <2>2. CASE d # c
    BY <2>2
  <2> QED
    BY <2>1, <2>2
<1>4. \A d \in Ctx : r[d] \in ParamsType
  <2> SUFFICES ASSUME NEW d \in Ctx PROVE r[d] \in ParamsType
    OBVIOUS
  <2>1. CASE d = c
    BY <1>1, <1>2, <2>1 DEF ParamsType
  <2>2. CASE d # c
    BY <2>2
  <2> QED
    BY <2>1, <2>2
<1>5. q \in [Ctx -> ParamsType] /\ r \in [Ctx -> ParamsType]
  <2> HIDE DEF ParamsType
  <2> QED
    BY <1>3, <1>4
<1> QED
  BY <1>5

(* Every action keeps the types; options are read only inside a call. *)
LEMMA TypeOKStep == ASSUME TypeOK, ArgInv, Next PROVE TypeOK'
<1> USE ClientAssumption, AddressAssumption, FileAssumption, OptionAssumption, IntervalAssumption
        DEF TypeOK, ArgInv, Starting, Updating, Params, ClientPC, ThreadPC, ParamsType, Normalize, AnyParams, Flag, InitialFile, Mkstemp, Free,
            Goto, ThreadGoto, Acquire, Release, Return, ctxVars, threadVars, clientVars
<1>1. ASSUME NEW t \in Client, NEW o \in Option, CallStart(t, o) PROVE TypeOK'
  BY <1>1 DEF CallStart
<1>2. ASSUME NEW t \in Client, CallStop(t) PROVE TypeOK'
  BY <1>2 DEF CallStop
<1>3. ASSUME NEW t \in Client, UpdateInterval(t) PROVE TypeOK'
  <2> USE DEF UpdateInterval
  <2>1. arg[t] \in Option
    BY <1>3
  <2>2. Normalize(arg[t].interval) \in Nat \ {0}
    BY <2>1 DEF Normalize
  <2>3. opts' \in [Ctx -> ParamsType]
    BY <1>3, <2>2, ParamsUpdate DEF ClientPC
  <2> QED
    BY <1>3, <2>3 DEF ClientPC
<1>4. ASSUME NEW t \in Client, UpdateFlags(t) PROVE TypeOK'
  <2> USE DEF UpdateFlags
  <2>1. arg[t].flags \in SUBSET Flag
    BY <1>4
  <2>2. opts' \in [Ctx -> ParamsType]
    BY <1>4, <2>1, ParamsUpdate
  <2> QED
    BY <1>4, <2>2 DEF ClientPC
<1>5. ASSUME NEW t \in Client, UpdateFileBegin(t) PROVE TypeOK'
  BY <1>5 DEF UpdateFileBegin
<1>6. ASSUME NEW t \in Client, UpdateFileEnd(t) PROVE TypeOK'
  <2> USE DEF UpdateFileEnd
  <2>1. arg[t].file \in File \cup {Empty}
    BY <1>6
  <2>2. file' \in [Ctx -> File \cup {Empty, Partial}]
    BY <1>6, <2>1
  <2> QED
    BY <1>6, <2>2
<1>7. ASSUME NEW t \in Client, UpdateReturn(t) PROVE TypeOK'
  BY <1>7 DEF UpdateReturn
<1>8. ASSUME NEW t \in Client, StartAlloc(t) PROVE TypeOK'
  BY <1>8 DEF StartAlloc
<1>9. ASSUME NEW t \in Client, StartAllocFails(t) PROVE TypeOK'
  BY <1>9 DEF StartAllocFails
<1>10. ASSUME NEW t \in Client, StartCreate(t) PROVE TypeOK'
  BY <1>10 DEF StartCreate
<1>11. ASSUME NEW t \in Client, StartCreateFails(t) PROVE TypeOK'
  BY <1>11 DEF StartCreateFails
<1>12. ASSUME NEW t \in Client, StartPublish(t) PROVE TypeOK'
  BY <1>12 DEF StartPublish
<1>13. ASSUME NEW t \in Client, StopNothing(t) PROVE TypeOK'
  BY <1>13 DEF StopNothing
<1>14. ASSUME NEW t \in Client, StopQuit(t) PROVE TypeOK'
  BY <1>14 DEF StopQuit
<1>15. ASSUME NEW t \in Client, StopJoinLoad(t) PROVE TypeOK'
  BY <1>15 DEF StopJoinLoad
<1>16. ASSUME NEW t \in Client, StopJoin(t) PROVE TypeOK'
  BY <1>16 DEF StopJoin
<1>17. ASSUME NEW t \in Client, StopFree(t) PROVE TypeOK'
  BY <1>17 DEF StopFree
<1>18. ASSUME NEW t \in Client, CallStatus(t) PROVE TypeOK'
  BY <1>18 DEF CallStatus
<1>19. ASSUME NEW t \in Client, StatusLock(t) PROVE TypeOK'
  BY <1>19 DEF StatusLock
<1>20. ASSUME NEW t \in Client, StatusUnlock(t) PROVE TypeOK'
  BY <1>20 DEF StatusUnlock
<1>21. ASSUME NEW x \in Ctx, ThreadWhile(x) PROVE TypeOK'
  BY <1>21 DEF ThreadWhile
<1>22. ASSUME NEW x \in Ctx, ThreadWake(x) PROVE TypeOK'
  BY <1>22 DEF ThreadWake
<1>23. ASSUME NEW x \in Ctx, ThreadCopyInterval(x) PROVE TypeOK'
  <2>1. snap' \in [Ctx -> ParamsType]
    BY <1>23, ParamsUpdate DEF ThreadCopyInterval
  <2> QED
    BY <1>23, <2>1 DEF ThreadCopyInterval, ThreadPC
<1>24. ASSUME NEW x \in Ctx, ThreadCopyFlags(x) PROVE TypeOK'
  BY <1>24 DEF ThreadCopyFlags
<1>25. ASSUME NEW x \in Ctx, ThreadCount(x) PROVE TypeOK'
  BY <1>25 DEF ThreadCount
<1>26. ASSUME NEW x \in Ctx, ThreadFire(x) PROVE TypeOK'
  BY <1>26 DEF ThreadFire
<1>27. ASSUME NEW x \in Ctx, ThreadStackdump(x) PROVE TypeOK'
  BY <1>27 DEF ThreadStackdump
<1> QED
  BY ONLY Next, <1>1, <1>2, <1>3, <1>4, <1>5, <1>6, <1>7, <1>8, <1>9, <1>10, <1>11, <1>12, <1>13, <1>14, <1>15, <1>16, <1>17, <1>18, <1>19, <1>20, <1>21, <1>22, <1>23, <1>24, <1>25, <1>26, <1>27
     DEF Next, Call, PlainStep, LockStep, ThreadPlainStep

(* s_timer_mutex is held exactly in the critical sections. *)
LEMMA MutexInvStep == ASSUME TypeOK, MutexInv, Next PROVE MutexInv'
<1> USE ClientAssumption, AddressAssumption
        DEF TypeOK, MutexInv, HoldsMutex, Updating,
            Goto, ThreadGoto, Acquire, Release, Return, ctxVars, threadVars, clientVars
<1>1. ASSUME NEW t \in Client, NEW o \in Option, CallStart(t, o) PROVE MutexInv'
  BY <1>1 DEF CallStart
<1>2. ASSUME NEW t \in Client, CallStop(t) PROVE MutexInv'
  BY <1>2 DEF CallStop
<1>3. ASSUME NEW t \in Client, UpdateInterval(t) PROVE MutexInv'
  BY <1>3 DEF UpdateInterval
<1>4. ASSUME NEW t \in Client, UpdateFlags(t) PROVE MutexInv'
  BY <1>4 DEF UpdateFlags
<1>5. ASSUME NEW t \in Client, UpdateFileBegin(t) PROVE MutexInv'
  BY <1>5 DEF UpdateFileBegin
<1>6. ASSUME NEW t \in Client, UpdateFileEnd(t) PROVE MutexInv'
  BY <1>6 DEF UpdateFileEnd
<1>7. ASSUME NEW t \in Client, UpdateReturn(t) PROVE MutexInv'
  BY <1>7 DEF UpdateReturn
<1>8. ASSUME NEW t \in Client, StartAlloc(t) PROVE MutexInv'
  BY <1>8 DEF StartAlloc
<1>9. ASSUME NEW t \in Client, StartAllocFails(t) PROVE MutexInv'
  BY <1>9 DEF StartAllocFails
<1>10. ASSUME NEW t \in Client, StartCreate(t) PROVE MutexInv'
  BY <1>10 DEF StartCreate
<1>11. ASSUME NEW t \in Client, StartCreateFails(t) PROVE MutexInv'
  BY <1>11 DEF StartCreateFails
<1>12. ASSUME NEW t \in Client, StartPublish(t) PROVE MutexInv'
  BY <1>12 DEF StartPublish
<1>13. ASSUME NEW t \in Client, StopNothing(t) PROVE MutexInv'
  BY <1>13 DEF StopNothing
<1>14. ASSUME NEW t \in Client, StopQuit(t) PROVE MutexInv'
  BY <1>14 DEF StopQuit
<1>15. ASSUME NEW t \in Client, StopJoinLoad(t) PROVE MutexInv'
  BY <1>15 DEF StopJoinLoad
<1>16. ASSUME NEW t \in Client, StopJoin(t) PROVE MutexInv'
  BY <1>16 DEF StopJoin
<1>17. ASSUME NEW t \in Client, StopFree(t) PROVE MutexInv'
  BY <1>17 DEF StopFree
<1>18. ASSUME NEW t \in Client, CallStatus(t) PROVE MutexInv'
  BY <1>18 DEF CallStatus
<1>19. ASSUME NEW t \in Client, StatusLock(t) PROVE MutexInv'
  BY <1>19 DEF StatusLock
<1>20. ASSUME NEW t \in Client, StatusUnlock(t) PROVE MutexInv'
  BY <1>20 DEF StatusUnlock
<1>21. ASSUME NEW x \in Ctx, ThreadWhile(x) PROVE MutexInv'
  BY <1>21 DEF ThreadWhile
<1>22. ASSUME NEW x \in Ctx, ThreadWake(x) PROVE MutexInv'
  BY <1>22 DEF ThreadWake
<1>23. ASSUME NEW x \in Ctx, ThreadCopyInterval(x) PROVE MutexInv'
  BY <1>23 DEF ThreadCopyInterval
<1>24. ASSUME NEW x \in Ctx, ThreadCopyFlags(x) PROVE MutexInv'
  BY <1>24 DEF ThreadCopyFlags
<1>25. ASSUME NEW x \in Ctx, ThreadCount(x) PROVE MutexInv'
  BY <1>25 DEF ThreadCount
<1>26. ASSUME NEW x \in Ctx, ThreadFire(x) PROVE MutexInv'
  BY <1>26 DEF ThreadFire
<1>27. ASSUME NEW x \in Ctx, ThreadStackdump(x) PROVE MutexInv'
  BY <1>27 DEF ThreadStackdump
<1> QED
  BY ONLY Next, <1>1, <1>2, <1>3, <1>4, <1>5, <1>6, <1>7, <1>8, <1>9, <1>10, <1>11, <1>12, <1>13, <1>14, <1>15, <1>16, <1>17, <1>18, <1>19, <1>20, <1>21, <1>22, <1>23, <1>24, <1>25, <1>26, <1>27
     DEF Next, Call, PlainStep, LockStep, ThreadPlainStep

(* A call of start_timer_thread keeps the options it was given. *)
LEMMA ArgInvStep == ASSUME TypeOK, ArgInv, Next PROVE ArgInv'
<1> USE ClientAssumption, AddressAssumption
        DEF TypeOK, ArgInv, Starting, Updating,
            Goto, ThreadGoto, Acquire, Release, Return, ctxVars, threadVars, clientVars
<1>1. ASSUME NEW t \in Client, NEW o \in Option, CallStart(t, o) PROVE ArgInv'
  BY <1>1 DEF CallStart
<1>2. ASSUME NEW t \in Client, CallStop(t) PROVE ArgInv'
  BY <1>2 DEF CallStop
<1>3. ASSUME NEW t \in Client, UpdateInterval(t) PROVE ArgInv'
  BY <1>3 DEF UpdateInterval
<1>4. ASSUME NEW t \in Client, UpdateFlags(t) PROVE ArgInv'
  BY <1>4 DEF UpdateFlags
<1>5. ASSUME NEW t \in Client, UpdateFileBegin(t) PROVE ArgInv'
  BY <1>5 DEF UpdateFileBegin
<1>6. ASSUME NEW t \in Client, UpdateFileEnd(t) PROVE ArgInv'
  BY <1>6 DEF UpdateFileEnd
<1>7. ASSUME NEW t \in Client, UpdateReturn(t) PROVE ArgInv'
  BY <1>7 DEF UpdateReturn
<1>8. ASSUME NEW t \in Client, StartAlloc(t) PROVE ArgInv'
  BY <1>8 DEF StartAlloc
<1>9. ASSUME NEW t \in Client, StartAllocFails(t) PROVE ArgInv'
  BY <1>9 DEF StartAllocFails
<1>10. ASSUME NEW t \in Client, StartCreate(t) PROVE ArgInv'
  BY <1>10 DEF StartCreate
<1>11. ASSUME NEW t \in Client, StartCreateFails(t) PROVE ArgInv'
  BY <1>11 DEF StartCreateFails
<1>12. ASSUME NEW t \in Client, StartPublish(t) PROVE ArgInv'
  BY <1>12 DEF StartPublish
<1>13. ASSUME NEW t \in Client, StopNothing(t) PROVE ArgInv'
  BY <1>13 DEF StopNothing
<1>14. ASSUME NEW t \in Client, StopQuit(t) PROVE ArgInv'
  BY <1>14 DEF StopQuit
<1>15. ASSUME NEW t \in Client, StopJoinLoad(t) PROVE ArgInv'
  BY <1>15 DEF StopJoinLoad
<1>16. ASSUME NEW t \in Client, StopJoin(t) PROVE ArgInv'
  BY <1>16 DEF StopJoin
<1>17. ASSUME NEW t \in Client, StopFree(t) PROVE ArgInv'
  BY <1>17 DEF StopFree
<1>18. ASSUME NEW t \in Client, CallStatus(t) PROVE ArgInv'
  BY <1>18 DEF CallStatus
<1>19. ASSUME NEW t \in Client, StatusLock(t) PROVE ArgInv'
  BY <1>19 DEF StatusLock
<1>20. ASSUME NEW t \in Client, StatusUnlock(t) PROVE ArgInv'
  BY <1>20 DEF StatusUnlock
<1>21. ASSUME NEW x \in Ctx, ThreadWhile(x) PROVE ArgInv'
  BY <1>21 DEF ThreadWhile
<1>22. ASSUME NEW x \in Ctx, ThreadWake(x) PROVE ArgInv'
  BY <1>22 DEF ThreadWake
<1>23. ASSUME NEW x \in Ctx, ThreadCopyInterval(x) PROVE ArgInv'
  BY <1>23 DEF ThreadCopyInterval
<1>24. ASSUME NEW x \in Ctx, ThreadCopyFlags(x) PROVE ArgInv'
  BY <1>24 DEF ThreadCopyFlags
<1>25. ASSUME NEW x \in Ctx, ThreadCount(x) PROVE ArgInv'
  BY <1>25 DEF ThreadCount
<1>26. ASSUME NEW x \in Ctx, ThreadFire(x) PROVE ArgInv'
  BY <1>26 DEF ThreadFire
<1>27. ASSUME NEW x \in Ctx, ThreadStackdump(x) PROVE ArgInv'
  BY <1>27 DEF ThreadStackdump
<1> QED
  BY ONLY Next, <1>1, <1>2, <1>3, <1>4, <1>5, <1>6, <1>7, <1>8, <1>9, <1>10, <1>11, <1>12, <1>13, <1>14, <1>15, <1>16, <1>17, <1>18, <1>19, <1>20, <1>21, <1>22, <1>23, <1>24, <1>25, <1>26, <1>27
     DEF Next, Call, PlainStep, LockStep, ThreadPlainStep

(* A starting call owns a fresh context until it publishes it. *)
LEMMA StartInvStep == ASSUME TypeOK, MutexInv, StartInv, StopInv, HeapInv, Next PROVE StartInv'
<1> USE ClientAssumption, AddressAssumption
        DEF TypeOK, MutexInv, StartInv, StopInv, HeapInv, HoldsMutex, Starting, Updating, Stopping, Free,
            Goto, ThreadGoto, Acquire, Release, Return, ctxVars, threadVars, clientVars
<1>1. ASSUME NEW t \in Client, NEW o \in Option, CallStart(t, o) PROVE StartInv'
  BY <1>1 DEF CallStart
<1>2. ASSUME NEW t \in Client, CallStop(t) PROVE StartInv'
  BY <1>2 DEF CallStop
<1>3. ASSUME NEW t \in Client, UpdateInterval(t) PROVE StartInv'
  BY <1>3 DEF UpdateInterval
<1>4. ASSUME NEW t \in Client, UpdateFlags(t) PROVE StartInv'
  BY <1>4 DEF UpdateFlags
<1>5. ASSUME NEW t \in Client, UpdateFileBegin(t) PROVE StartInv'
  BY <1>5 DEF UpdateFileBegin
<1>6. ASSUME NEW t \in Client, UpdateFileEnd(t) PROVE StartInv'
  BY <1>6 DEF UpdateFileEnd
<1>7. ASSUME NEW t \in Client, UpdateReturn(t) PROVE StartInv'
  BY <1>7 DEF UpdateReturn
<1>8. ASSUME NEW t \in Client, StartAlloc(t) PROVE StartInv'
  BY <1>8 DEF StartAlloc
<1>9. ASSUME NEW t \in Client, StartAllocFails(t) PROVE StartInv'
  BY <1>9 DEF StartAllocFails
<1>10. ASSUME NEW t \in Client, StartCreate(t) PROVE StartInv'
  BY <1>10 DEF StartCreate
<1>11. ASSUME NEW t \in Client, StartCreateFails(t) PROVE StartInv'
  BY <1>11 DEF StartCreateFails
<1>12. ASSUME NEW t \in Client, StartPublish(t) PROVE StartInv'
  BY <1>12 DEF StartPublish
<1>13. ASSUME NEW t \in Client, StopNothing(t) PROVE StartInv'
  BY <1>13 DEF StopNothing
<1>14. ASSUME NEW t \in Client, StopQuit(t) PROVE StartInv'
  BY <1>14 DEF StopQuit
<1>15. ASSUME NEW t \in Client, StopJoinLoad(t) PROVE StartInv'
  BY <1>15 DEF StopJoinLoad
<1>16. ASSUME NEW t \in Client, StopJoin(t) PROVE StartInv'
  BY <1>16 DEF StopJoin
<1>17. ASSUME NEW t \in Client, StopFree(t) PROVE StartInv'
  BY <1>17 DEF StopFree
<1>18. ASSUME NEW t \in Client, CallStatus(t) PROVE StartInv'
  BY <1>18 DEF CallStatus
<1>19. ASSUME NEW t \in Client, StatusLock(t) PROVE StartInv'
  BY <1>19 DEF StatusLock
<1>20. ASSUME NEW t \in Client, StatusUnlock(t) PROVE StartInv'
  BY <1>20 DEF StatusUnlock
<1>21. ASSUME NEW x \in Ctx, ThreadWhile(x) PROVE StartInv'
  BY <1>21 DEF ThreadWhile
<1>22. ASSUME NEW x \in Ctx, ThreadWake(x) PROVE StartInv'
  BY <1>22 DEF ThreadWake
<1>23. ASSUME NEW x \in Ctx, ThreadCopyInterval(x) PROVE StartInv'
  BY <1>23 DEF ThreadCopyInterval
<1>24. ASSUME NEW x \in Ctx, ThreadCopyFlags(x) PROVE StartInv'
  BY <1>24 DEF ThreadCopyFlags
<1>25. ASSUME NEW x \in Ctx, ThreadCount(x) PROVE StartInv'
  BY <1>25 DEF ThreadCount
<1>26. ASSUME NEW x \in Ctx, ThreadFire(x) PROVE StartInv'
  BY <1>26 DEF ThreadFire
<1>27. ASSUME NEW x \in Ctx, ThreadStackdump(x) PROVE StartInv'
  BY <1>27 DEF ThreadStackdump
<1> QED
  BY ONLY Next, <1>1, <1>2, <1>3, <1>4, <1>5, <1>6, <1>7, <1>8, <1>9, <1>10, <1>11, <1>12, <1>13, <1>14, <1>15, <1>16, <1>17, <1>18, <1>19, <1>20, <1>21, <1>22, <1>23, <1>24, <1>25, <1>26, <1>27
     DEF Next, Call, PlainStep, LockStep, ThreadPlainStep

(* Between setting quit and clearing s_timer_ctx nobody replaces the timer. *)
LEMMA StopInvStep == ASSUME OneStopper, TypeOK, MutexInv, StartInv, StopInv, HeapInv, Next PROVE StopInv'
<1> USE ClientAssumption, AddressAssumption
        DEF TypeOK, MutexInv, StartInv, StopInv, HeapInv, OneStopper, HoldsMutex, Starting, Updating, Stopping, Free,
            Goto, ThreadGoto, Acquire, Release, Return, ctxVars, threadVars, clientVars
<1>1. ASSUME NEW t \in Client, NEW o \in Option, CallStart(t, o) PROVE StopInv'
  BY <1>1 DEF CallStart
<1>2. ASSUME NEW t \in Client, CallStop(t) PROVE StopInv'
  BY <1>2 DEF CallStop
<1>3. ASSUME NEW t \in Client, UpdateInterval(t) PROVE StopInv'
  BY <1>3 DEF UpdateInterval
<1>4. ASSUME NEW t \in Client, UpdateFlags(t) PROVE StopInv'
  BY <1>4 DEF UpdateFlags
<1>5. ASSUME NEW t \in Client, UpdateFileBegin(t) PROVE StopInv'
  BY <1>5 DEF UpdateFileBegin
<1>6. ASSUME NEW t \in Client, UpdateFileEnd(t) PROVE StopInv'
  BY <1>6 DEF UpdateFileEnd
<1>7. ASSUME NEW t \in Client, UpdateReturn(t) PROVE StopInv'
  BY <1>7 DEF UpdateReturn
<1>8. ASSUME NEW t \in Client, StartAlloc(t) PROVE StopInv'
  BY <1>8 DEF StartAlloc
<1>9. ASSUME NEW t \in Client, StartAllocFails(t) PROVE StopInv'
  BY <1>9 DEF StartAllocFails
<1>10. ASSUME NEW t \in Client, StartCreate(t) PROVE StopInv'
  BY <1>10 DEF StartCreate
<1>11. ASSUME NEW t \in Client, StartCreateFails(t) PROVE StopInv'
  BY <1>11 DEF StartCreateFails
<1>12. ASSUME NEW t \in Client, StartPublish(t) PROVE StopInv'
  BY <1>12 DEF StartPublish
<1>13. ASSUME NEW t \in Client, StopNothing(t) PROVE StopInv'
  BY <1>13 DEF StopNothing
<1>14. ASSUME NEW t \in Client, StopQuit(t) PROVE StopInv'
  BY <1>14 DEF StopQuit
<1>15. ASSUME NEW t \in Client, StopJoinLoad(t) PROVE StopInv'
  BY <1>15 DEF StopJoinLoad
<1>16. ASSUME NEW t \in Client, StopJoin(t) PROVE StopInv'
  BY <1>16 DEF StopJoin
<1>17. ASSUME NEW t \in Client, StopFree(t) PROVE StopInv'
  BY <1>17 DEF StopFree
<1>18. ASSUME NEW t \in Client, CallStatus(t) PROVE StopInv'
  BY <1>18 DEF CallStatus
<1>19. ASSUME NEW t \in Client, StatusLock(t) PROVE StopInv'
  BY <1>19 DEF StatusLock
<1>20. ASSUME NEW t \in Client, StatusUnlock(t) PROVE StopInv'
  BY <1>20 DEF StatusUnlock
<1>21. ASSUME NEW x \in Ctx, ThreadWhile(x) PROVE StopInv'
  BY <1>21 DEF ThreadWhile
<1>22. ASSUME NEW x \in Ctx, ThreadWake(x) PROVE StopInv'
  BY <1>22 DEF ThreadWake
<1>23. ASSUME NEW x \in Ctx, ThreadCopyInterval(x) PROVE StopInv'
  BY <1>23 DEF ThreadCopyInterval
<1>24. ASSUME NEW x \in Ctx, ThreadCopyFlags(x) PROVE StopInv'
  BY <1>24 DEF ThreadCopyFlags
<1>25. ASSUME NEW x \in Ctx, ThreadCount(x) PROVE StopInv'
  BY <1>25 DEF ThreadCount
<1>26. ASSUME NEW x \in Ctx, ThreadFire(x) PROVE StopInv'
  BY <1>26 DEF ThreadFire
<1>27. ASSUME NEW x \in Ctx, ThreadStackdump(x) PROVE StopInv'
  BY <1>27 DEF ThreadStackdump
<1> QED
  BY ONLY Next, <1>1, <1>2, <1>3, <1>4, <1>5, <1>6, <1>7, <1>8, <1>9, <1>10, <1>11, <1>12, <1>13, <1>14, <1>15, <1>16, <1>17, <1>18, <1>19, <1>20, <1>21, <1>22, <1>23, <1>24, <1>25, <1>26, <1>27
     DEF Next, Call, PlainStep, LockStep, ThreadPlainStep

(* The timer being updated stays published: freeing needs the mutex. *)
LEMMA UpdateInvStep == ASSUME TypeOK, MutexInv, UpdateInv, Next PROVE UpdateInv'
<1> USE ClientAssumption, AddressAssumption
        DEF TypeOK, MutexInv, UpdateInv, HoldsMutex, Updating,
            Goto, ThreadGoto, Acquire, Release, Return, ctxVars, threadVars, clientVars
<1>1. ASSUME NEW t \in Client, NEW o \in Option, CallStart(t, o) PROVE UpdateInv'
  BY <1>1 DEF CallStart
<1>2. ASSUME NEW t \in Client, CallStop(t) PROVE UpdateInv'
  BY <1>2 DEF CallStop
<1>3. ASSUME NEW t \in Client, UpdateInterval(t) PROVE UpdateInv'
  BY <1>3 DEF UpdateInterval
<1>4. ASSUME NEW t \in Client, UpdateFlags(t) PROVE UpdateInv'
  BY <1>4 DEF UpdateFlags
<1>5. ASSUME NEW t \in Client, UpdateFileBegin(t) PROVE UpdateInv'
  BY <1>5 DEF UpdateFileBegin
<1>6. ASSUME NEW t \in Client, UpdateFileEnd(t) PROVE UpdateInv'
  BY <1>6 DEF UpdateFileEnd
<1>7. ASSUME NEW t \in Client, UpdateReturn(t) PROVE UpdateInv'
  BY <1>7 DEF UpdateReturn
<1>8. ASSUME NEW t \in Client, StartAlloc(t) PROVE UpdateInv'
  BY <1>8 DEF StartAlloc
<1>9. ASSUME NEW t \in Client, StartAllocFails(t) PROVE UpdateInv'
  BY <1>9 DEF StartAllocFails
<1>10. ASSUME NEW t \in Client, StartCreate(t) PROVE UpdateInv'
  BY <1>10 DEF StartCreate
<1>11. ASSUME NEW t \in Client, StartCreateFails(t) PROVE UpdateInv'
  BY <1>11 DEF StartCreateFails
<1>12. ASSUME NEW t \in Client, StartPublish(t) PROVE UpdateInv'
  BY <1>12 DEF StartPublish
<1>13. ASSUME NEW t \in Client, StopNothing(t) PROVE UpdateInv'
  BY <1>13 DEF StopNothing
<1>14. ASSUME NEW t \in Client, StopQuit(t) PROVE UpdateInv'
  BY <1>14 DEF StopQuit
<1>15. ASSUME NEW t \in Client, StopJoinLoad(t) PROVE UpdateInv'
  BY <1>15 DEF StopJoinLoad
<1>16. ASSUME NEW t \in Client, StopJoin(t) PROVE UpdateInv'
  BY <1>16 DEF StopJoin
<1>17. ASSUME NEW t \in Client, StopFree(t) PROVE UpdateInv'
  BY <1>17 DEF StopFree
<1>18. ASSUME NEW t \in Client, CallStatus(t) PROVE UpdateInv'
  BY <1>18 DEF CallStatus
<1>19. ASSUME NEW t \in Client, StatusLock(t) PROVE UpdateInv'
  BY <1>19 DEF StatusLock
<1>20. ASSUME NEW t \in Client, StatusUnlock(t) PROVE UpdateInv'
  BY <1>20 DEF StatusUnlock
<1>21. ASSUME NEW x \in Ctx, ThreadWhile(x) PROVE UpdateInv'
  BY <1>21 DEF ThreadWhile
<1>22. ASSUME NEW x \in Ctx, ThreadWake(x) PROVE UpdateInv'
  BY <1>22 DEF ThreadWake
<1>23. ASSUME NEW x \in Ctx, ThreadCopyInterval(x) PROVE UpdateInv'
  BY <1>23 DEF ThreadCopyInterval
<1>24. ASSUME NEW x \in Ctx, ThreadCopyFlags(x) PROVE UpdateInv'
  BY <1>24 DEF ThreadCopyFlags
<1>25. ASSUME NEW x \in Ctx, ThreadCount(x) PROVE UpdateInv'
  BY <1>25 DEF ThreadCount
<1>26. ASSUME NEW x \in Ctx, ThreadFire(x) PROVE UpdateInv'
  BY <1>26 DEF ThreadFire
<1>27. ASSUME NEW x \in Ctx, ThreadStackdump(x) PROVE UpdateInv'
  BY <1>27 DEF ThreadStackdump
<1> QED
  BY ONLY Next, <1>1, <1>2, <1>3, <1>4, <1>5, <1>6, <1>7, <1>8, <1>9, <1>10, <1>11, <1>12, <1>13, <1>14, <1>15, <1>16, <1>17, <1>18, <1>19, <1>20, <1>21, <1>22, <1>23, <1>24, <1>25, <1>26, <1>27
     DEF Next, Call, PlainStep, LockStep, ThreadPlainStep

(* Ownership of contexts, and what a live thread or a quit flag implies. *)
LEMMA HeapInvStep == ASSUME OneStopper, TypeOK, MutexInv, StartInv, StopInv, HeapInv, Next PROVE HeapInv'
<1> USE ClientAssumption, AddressAssumption
        DEF TypeOK, MutexInv, StartInv, StopInv, HeapInv, OneStopper, NoLeak, HoldsMutex, Starting, Updating, Stopping, Free,
            Goto, ThreadGoto, Acquire, Release, Return, ctxVars, threadVars, clientVars
<1>1. ASSUME NEW t \in Client, NEW o \in Option, CallStart(t, o) PROVE HeapInv'
  BY <1>1 DEF CallStart
<1>2. ASSUME NEW t \in Client, CallStop(t) PROVE HeapInv'
  BY <1>2 DEF CallStop
<1>3. ASSUME NEW t \in Client, UpdateInterval(t) PROVE HeapInv'
  BY <1>3 DEF UpdateInterval
<1>4. ASSUME NEW t \in Client, UpdateFlags(t) PROVE HeapInv'
  BY <1>4 DEF UpdateFlags
<1>5. ASSUME NEW t \in Client, UpdateFileBegin(t) PROVE HeapInv'
  BY <1>5 DEF UpdateFileBegin
<1>6. ASSUME NEW t \in Client, UpdateFileEnd(t) PROVE HeapInv'
  BY <1>6 DEF UpdateFileEnd
<1>7. ASSUME NEW t \in Client, UpdateReturn(t) PROVE HeapInv'
  BY <1>7 DEF UpdateReturn
<1>8. ASSUME NEW t \in Client, StartAlloc(t) PROVE HeapInv'
  BY <1>8 DEF StartAlloc
<1>9. ASSUME NEW t \in Client, StartAllocFails(t) PROVE HeapInv'
  BY <1>9 DEF StartAllocFails
<1>10. ASSUME NEW t \in Client, StartCreate(t) PROVE HeapInv'
  BY <1>10 DEF StartCreate
<1>11. ASSUME NEW t \in Client, StartCreateFails(t) PROVE HeapInv'
  BY <1>11 DEF StartCreateFails
<1>12. ASSUME NEW t \in Client, StartPublish(t) PROVE HeapInv'
  BY <1>12 DEF StartPublish
<1>13. ASSUME NEW t \in Client, StopNothing(t) PROVE HeapInv'
  BY <1>13 DEF StopNothing
<1>14. ASSUME NEW t \in Client, StopQuit(t) PROVE HeapInv'
  BY <1>14 DEF StopQuit
<1>15. ASSUME NEW t \in Client, StopJoinLoad(t) PROVE HeapInv'
  BY <1>15 DEF StopJoinLoad
<1>16. ASSUME NEW t \in Client, StopJoin(t) PROVE HeapInv'
  BY <1>16 DEF StopJoin
<1>17. ASSUME NEW t \in Client, StopFree(t) PROVE HeapInv'
  BY <1>17 DEF StopFree
<1>18. ASSUME NEW t \in Client, CallStatus(t) PROVE HeapInv'
  BY <1>18 DEF CallStatus
<1>19. ASSUME NEW t \in Client, StatusLock(t) PROVE HeapInv'
  BY <1>19 DEF StatusLock
<1>20. ASSUME NEW t \in Client, StatusUnlock(t) PROVE HeapInv'
  BY <1>20 DEF StatusUnlock
<1>21. ASSUME NEW x \in Ctx, ThreadWhile(x) PROVE HeapInv'
  BY <1>21 DEF ThreadWhile
<1>22. ASSUME NEW x \in Ctx, ThreadWake(x) PROVE HeapInv'
  BY <1>22 DEF ThreadWake
<1>23. ASSUME NEW x \in Ctx, ThreadCopyInterval(x) PROVE HeapInv'
  BY <1>23 DEF ThreadCopyInterval
<1>24. ASSUME NEW x \in Ctx, ThreadCopyFlags(x) PROVE HeapInv'
  BY <1>24 DEF ThreadCopyFlags
<1>25. ASSUME NEW x \in Ctx, ThreadCount(x) PROVE HeapInv'
  BY <1>25 DEF ThreadCount
<1>26. ASSUME NEW x \in Ctx, ThreadFire(x) PROVE HeapInv'
  BY <1>26 DEF ThreadFire
<1>27. ASSUME NEW x \in Ctx, ThreadStackdump(x) PROVE HeapInv'
  BY <1>27 DEF ThreadStackdump
<1> QED
  BY ONLY Next, <1>1, <1>2, <1>3, <1>4, <1>5, <1>6, <1>7, <1>8, <1>9, <1>10, <1>11, <1>12, <1>13, <1>14, <1>15, <1>16, <1>17, <1>18, <1>19, <1>20, <1>21, <1>22, <1>23, <1>24, <1>25, <1>26, <1>27
     DEF Next, Call, PlainStep, LockStep, ThreadPlainStep

(* Parameters are half written only inside the critical section of an update. *)
LEMMA ParamsInvStep == ASSUME OneStopper, TypeOK, MutexInv, ArgInv, StartInv, StopInv, UpdateInv, HeapInv, ParamsInv, Next PROVE ParamsInv'
<1> USE ClientAssumption, AddressAssumption, FileAssumption, OptionAssumption, IntervalAssumption
        DEF TypeOK, MutexInv, ArgInv, StartInv, StopInv, UpdateInv, HeapInv, ParamsInv, OneStopper, SnapshotCoherent, HalfWritten, HoldsMutex, Starting, Updating, Stopping, Free, NoLeak,
            Goto, ThreadGoto, Acquire, Release, Return, ctxVars, threadVars, clientVars
<1>1. ASSUME NEW t \in Client, NEW o \in Option, CallStart(t, o) PROVE ParamsInv'
  BY <1>1 DEF CallStart
<1>2. ASSUME NEW t \in Client, CallStop(t) PROVE ParamsInv'
  BY <1>2 DEF CallStop
<1>3. ASSUME NEW t \in Client, UpdateInterval(t) PROVE ParamsInv'
  BY <1>3 DEF UpdateInterval
<1>4. ASSUME NEW t \in Client, UpdateFlags(t) PROVE ParamsInv'
  <2>1. PICK o \in Option : o = arg[t]
    BY <1>4 DEF UpdateFlags
  <2>2. timerCtx \in Ctx /\ mutex = t
    BY <1>4 DEF UpdateFlags
  <2>3. opts[timerCtx] = [interval |-> Normalize(o.interval), flags |-> opts[timerCtx].flags]
    BY <1>4, <2>1, <2>2 DEF UpdateFlags, ParamsType
  <2>4. opts'[timerCtx] = Params(o)
    BY <1>4, <2>1, <2>2, <2>3 DEF UpdateFlags, Params
  <2>5. opts'[timerCtx] \in OptionParams
    BY <2>4 DEF OptionParams
  <2> QED
    BY <1>4, <2>2, <2>5 DEF UpdateFlags
<1>5. ASSUME NEW t \in Client, UpdateFileBegin(t) PROVE ParamsInv'
  BY <1>5 DEF UpdateFileBegin
<1>6. ASSUME NEW t \in Client, UpdateFileEnd(t) PROVE ParamsInv'
  BY <1>6 DEF UpdateFileEnd
<1>7. ASSUME NEW t \in Client, UpdateReturn(t) PROVE ParamsInv'
  BY <1>7 DEF UpdateReturn
<1>8. ASSUME NEW t \in Client, StartAlloc(t) PROVE ParamsInv'
  <2>1. Params(arg[t]) \in OptionParams
    BY <1>8 DEF StartAlloc, OptionParams
  <2> QED
    BY <1>8, <2>1 DEF StartAlloc
<1>9. ASSUME NEW t \in Client, StartAllocFails(t) PROVE ParamsInv'
  BY <1>9 DEF StartAllocFails
<1>10. ASSUME NEW t \in Client, StartCreate(t) PROVE ParamsInv'
  BY <1>10 DEF StartCreate
<1>11. ASSUME NEW t \in Client, StartCreateFails(t) PROVE ParamsInv'
  BY <1>11 DEF StartCreateFails
<1>12. ASSUME NEW t \in Client, StartPublish(t) PROVE ParamsInv'
  BY <1>12 DEF StartPublish
<1>13. ASSUME NEW t \in Client, StopNothing(t) PROVE ParamsInv'
  BY <1>13 DEF StopNothing
<1>14. ASSUME NEW t \in Client, StopQuit(t) PROVE ParamsInv'
  BY <1>14 DEF StopQuit
<1>15. ASSUME NEW t \in Client, StopJoinLoad(t) PROVE ParamsInv'
  BY <1>15 DEF StopJoinLoad
<1>16. ASSUME NEW t \in Client, StopJoin(t) PROVE ParamsInv'
  BY <1>16 DEF StopJoin
<1>17. ASSUME NEW t \in Client, StopFree(t) PROVE ParamsInv'
  BY <1>17 DEF StopFree
<1>18. ASSUME NEW t \in Client, CallStatus(t) PROVE ParamsInv'
  BY <1>18 DEF CallStatus
<1>19. ASSUME NEW t \in Client, StatusLock(t) PROVE ParamsInv'
  BY <1>19 DEF StatusLock
<1>20. ASSUME NEW t \in Client, StatusUnlock(t) PROVE ParamsInv'
  BY <1>20 DEF StatusUnlock
<1>21. ASSUME NEW x \in Ctx, ThreadWhile(x) PROVE ParamsInv'
  BY <1>21 DEF ThreadWhile
<1>22. ASSUME NEW x \in Ctx, ThreadWake(x) PROVE ParamsInv'
  BY <1>22 DEF ThreadWake
<1>23. ASSUME NEW x \in Ctx, ThreadCopyInterval(x) PROVE ParamsInv'
  <2>1. snap'[x].interval = opts[x].interval
    BY <1>23 DEF ThreadCopyInterval, ParamsType
  <2> QED
    BY <1>23, <2>1 DEF ThreadCopyInterval
<1>24. ASSUME NEW x \in Ctx, ThreadCopyFlags(x) PROVE ParamsInv'
  <2>1. opts[x] \in OptionParams
    BY <1>24 DEF ThreadCopyFlags
  <2>2. snap'[x] = opts[x]
    BY <1>24 DEF ThreadCopyFlags, ParamsType
  <2> QED
    BY <1>24, <2>1, <2>2 DEF ThreadCopyFlags
<1>25. ASSUME NEW x \in Ctx, ThreadCount(x) PROVE ParamsInv'
  BY <1>25 DEF ThreadCount
<1>26. ASSUME NEW x \in Ctx, ThreadFire(x) PROVE ParamsInv'
  BY <1>26 DEF ThreadFire
<1>27. ASSUME NEW x \in Ctx, ThreadStackdump(x) PROVE ParamsInv'
  BY <1>27 DEF ThreadStackdump
<1> QED
  BY ONLY Next, <1>1, <1>2, <1>3, <1>4, <1>5, <1>6, <1>7, <1>8, <1>9, <1>10, <1>11, <1>12, <1>13, <1>14, <1>15, <1>16, <1>17, <1>18, <1>19, <1>20, <1>21, <1>22, <1>23, <1>24, <1>25, <1>26, <1>27
     DEF Next, Call, PlainStep, LockStep, ThreadPlainStep

(* The inductive invariant holds in every reachable state. *)
THEOREM Invariance == ASSUME OneStopper PROVE Spec => []IInv
<1>1. Init => IInv
  <2> SUFFICES ASSUME Init PROVE IInv
    OBVIOUS
  <2> USE AddressAssumption, IntervalAssumption DEF Init
  <2>1. TypeOK
    BY DEF TypeOK, AnyParams, ParamsType, ClientPC, ThreadPC
  <2>2. MutexInv /\ ArgInv /\ StartInv /\ StopInv /\ UpdateInv
    BY DEF MutexInv, ArgInv, StartInv, StopInv, UpdateInv, HoldsMutex, Starting,
           Updating, Stopping
  <2>3. HeapInv /\ ParamsInv
    BY DEF HeapInv, NoLeak, ParamsInv, SnapshotCoherent
  <2> QED
    BY <2>1, <2>2, <2>3 DEF IInv
<1>2. IInv /\ [Next]_vars => IInv'
  <2> SUFFICES ASSUME IInv, [Next]_vars PROVE IInv'
    OBVIOUS
  <2>1. CASE Next
    BY <2>1, OneStopper, TypeOKStep, MutexInvStep, ArgInvStep, StartInvStep, StopInvStep,
       UpdateInvStep, HeapInvStep, ParamsInvStep DEF IInv
  <2>2. CASE UNCHANGED vars
    BY <2>2 DEF vars, IInv, TypeOK, MutexInv, ArgInv, StartInv, StopInv, UpdateInv,
       HeapInv, ParamsInv, HoldsMutex, Starting, Updating, Stopping, NoLeak,
       HalfWritten, SnapshotCoherent
  <2> QED
    BY <2>1, <2>2
<1> QED
  BY <1>1, <1>2, PTL DEF Spec

(* Every variable keeps its type. *)
THEOREM TypeCorrect == ASSUME OneStopper PROVE Spec => []TypeOK
<1>1. IInv => TypeOK
  BY DEF IInv
<1> QED
  BY <1>1, Invariance, PTL

(* No client and no timer thread ever uses a context that was freed. *)
THEOREM MemorySafety == ASSUME OneStopper PROVE Spec => []NoDanglingAccess
<1>1. IInv => NoDanglingAccess
  BY DEF IInv, StopInv, UpdateInv, HeapInv, NoDanglingAccess, UsesTimerCtx, Stopping
<1> QED
  BY <1>1, Invariance, PTL

(* Two timer threads never coexist. *)
THEOREM SingleTimer == ASSUME OneStopper PROVE Spec => []AtMostOneTimer
<1>1. IInv => AtMostOneTimer
  BY AddressAssumption
     DEF IInv, MutexInv, StartInv, HeapInv, NoLeak, HoldsMutex, Starting, AtMostOneTimer
<1> QED
  BY <1>1, Invariance, PTL

(* No context is lost, whichever call fails. *)
THEOREM LeakFree == ASSUME OneStopper PROVE Spec => []NoLeak
<1>1. IInv => NoLeak
  BY DEF IInv, HeapInv
<1> QED
  BY <1>1, Invariance, PTL

(* The timer acts on an interval and flags that belong together. *)
THEOREM CoherentSnapshots == ASSUME OneStopper PROVE Spec => []SnapshotCoherent
<1>1. IInv => SnapshotCoherent
  BY DEF IInv, ParamsInv
<1> QED
  BY <1>1, Invariance, PTL

(* A published timer runs, or its one stopper is on the way to free it. *)
THEOREM ServedTimer == ASSUME OneStopper PROVE Spec => []TimerServed
<1>1. IInv => TimerServed
  BY DEF IInv, TypeOK, HeapInv, TimerServed, Running, Stopping, ThreadPC
<1> QED
  BY <1>1, Invariance, PTL

(***************************************************************************)
(* The path, which the timer reads without the mutex: a path is only       *)
(* written over, by the one client that holds the mutex, and a timer that  *)
(* has found one keeps it until it is freed.                               *)
(***************************************************************************)
ReplacesPath(t) == pc[t] \in {"update_file", "update_file_end"}

PathInv ==
    /\ \A t \in Client : ReplacesPath(t) => arg[t].file \in File
    /\ \A c \in Ctx : file[c] = Partial => c = timerCtx /\ WritingPath
    /\ DumpPathStays

LEMMA PathInvStep == ASSUME IInv, PathInv, Next PROVE PathInv'
<1> USE ClientAssumption, AddressAssumption, FileAssumption, OptionAssumption
        DEF IInv, TypeOK, MutexInv, ArgInv, UpdateInv, HeapInv, PathInv, ReplacesPath, DumpPathStays,
            WritingPath, HoldsMutex, Starting, Updating, Stopping, Free, AnyParams, Goto, ThreadGoto,
            Acquire, Release, Return, ctxVars, threadVars, clientVars
<1>1. ASSUME NEW t \in Client, Call(t) \/ UpdateReturn(t) PROVE PathInv'
  BY <1>1 DEF Call, CallStart, CallStop, CallStatus, UpdateReturn
<1>2. ASSUME NEW t \in Client, UpdateInterval(t) PROVE PathInv'
  BY <1>2 DEF UpdateInterval
<1>3. ASSUME NEW t \in Client, UpdateFlags(t) PROVE PathInv'
  <2>1. arg[t] \in Option /\ UNCHANGED <<timerCtx, file, tpc, snap, arg>>
    BY <1>3 DEF UpdateFlags
  <2>2. ReplacesPath(t)' => arg[t].file \in File
    BY <1>3, <2>1 DEF UpdateFlags
  <2>3. \A u \in Client \ {t} : pc'[u] = pc[u]
    BY <1>3 DEF UpdateFlags
  <2>4. WritingPath' <=> WritingPath
    BY <1>3, <2>3 DEF UpdateFlags
  <2> QED
    BY ONLY <2>1, <2>2, <2>3, <2>4, PathInv, t \in Client DEF PathInv, DumpPathStays, ReplacesPath
<1>4. ASSUME NEW t \in Client, UpdateFileBegin(t) PROVE PathInv'
  <2>1. /\ pc'[t] = "update_file_end" /\ \A u \in Client \ {t} : pc'[u] = pc[u]
        /\ UNCHANGED <<timerCtx, arg>>
    BY <1>4 DEF UpdateFileBegin
  <2>2. arg[t].file \in File /\ \A c \in Ctx \ {timerCtx} : file'[c] = file[c]
    BY <1>4 DEF UpdateFileBegin
  <2> QED
    BY ONLY <2>1, <2>2, PathInv, t \in Client DEF PathInv, DumpPathStays, WritingPath, ReplacesPath
<1>5. ASSUME NEW t \in Client, UpdateFileEnd(t) PROVE PathInv'
  <2>1. timerCtx \in Ctx /\ UNCHANGED <<timerCtx, opts, tpc, snap, arg>> /\ arg[t].file \in File
    BY <1>5 DEF UpdateFileEnd
  <2>2. file'[timerCtx] = arg[t].file /\ \A c \in Ctx \ {timerCtx} : file'[c] = file[c]
    BY <1>5, <2>1 DEF UpdateFileEnd
  <2>3. \A u \in Client : ReplacesPath(u) => u = t
    BY <1>5 DEF UpdateFileEnd
  <2>4. \A u \in Client : ~ReplacesPath(u)'
    BY <1>5, <2>3 DEF UpdateFileEnd
  <2>5. \A c \in Ctx \ {timerCtx} : tpc[c] = "none" /\ file[c] # Partial
    BY <1>5 DEF UpdateFileEnd, NoLeak
  <2> QED
    BY ONLY <2>1, <2>2, <2>4, <2>5, PathInv, FileAssumption
       DEF PathInv, DumpPathStays, WritingPath, ReplacesPath
<1>6. ASSUME NEW t \in Client, StartAlloc(t) PROVE PathInv'
  BY <1>6 DEF StartAlloc, InitialFile, Mkstemp
<1>7. ASSUME NEW t \in Client, StartAllocFails(t) \/ StartCreate(t) PROVE PathInv'
  BY <1>7 DEF StartAllocFails, StartCreate
<1>8. ASSUME NEW t \in Client, StartCreateFails(t) PROVE PathInv'
  BY <1>8 DEF StartCreateFails, StartInv
<1>9. ASSUME NEW t \in Client, StartPublish(t) PROVE PathInv'
  BY <1>9 DEF StartPublish
<1>10. ASSUME NEW t \in Client, StopNothing(t) \/ StopQuit(t) PROVE PathInv'
  BY <1>10 DEF StopNothing, StopQuit
<1>11. ASSUME NEW t \in Client, StopJoinLoad(t) \/ StopJoin(t) PROVE PathInv'
  BY <1>11 DEF StopJoinLoad, StopJoin
<1>12. ASSUME NEW t \in Client, StopFree(t) PROVE PathInv'
  BY <1>12 DEF StopFree, StopInv
<1>13. ASSUME NEW t \in Client, StatusLock(t) \/ StatusUnlock(t) PROVE PathInv'
  BY <1>13 DEF StatusLock, StatusUnlock
<1>14. ASSUME NEW x \in Ctx, ThreadWhile(x) \/ ThreadWake(x) PROVE PathInv'
  BY <1>14 DEF ThreadWhile, ThreadWake
<1>15. ASSUME NEW x \in Ctx, ThreadCopyInterval(x) \/ ThreadCopyFlags(x) \/ ThreadCount(x)
       PROVE  PathInv'
  BY <1>15 DEF ThreadCopyInterval, ThreadCopyFlags, ThreadCount
<1>16. ASSUME NEW x \in Ctx, ThreadFire(x) PROVE PathInv'
  <2>1. PICK there \in HasPath(file[x]) :
           ThreadGoto(x, "fire", IF "stackdump" \in snap[x].flags /\ there
                                 THEN "stackdump" ELSE "while")
    BY <1>16 DEF ThreadFire
  <2>2. UNCHANGED <<timerCtx, file, pc, arg>> /\ \A c \in Ctx \ {x} : tpc'[c] = tpc[c]
    BY <1>16, <2>1 DEF ThreadFire
  <2>3. ~WritingPath /\ tpc'[x] = "stackdump" => file[x] \in File
    BY <2>1 DEF HasPath
  <2> QED
    BY ONLY <2>2, <2>3, PathInv, x \in Ctx DEF PathInv, DumpPathStays, WritingPath, ReplacesPath
<1>17. ASSUME NEW x \in Ctx, ThreadStackdump(x) PROVE PathInv'
  BY <1>17 DEF ThreadStackdump
<1> QED
  BY ONLY Next, <1>1, <1>2, <1>3, <1>4, <1>5, <1>6, <1>7, <1>8, <1>9, <1>10, <1>11, <1>12,
          <1>13, <1>14, <1>15, <1>16, <1>17
     DEF Next, PlainStep, LockStep, ThreadPlainStep

(* The path a timer has found is there when it dumps, but for an update     *)
(* that is writing it.                                                      *)
THEOREM KeptDumpPaths == ASSUME OneStopper PROVE Spec => []DumpPathStays
<1>1. Init => PathInv
  BY FileAssumption DEF Init, PathInv, ReplacesPath, WritingPath, DumpPathStays
<1>2. IInv /\ PathInv /\ [Next]_vars => PathInv'
  <2> SUFFICES ASSUME IInv, PathInv, [Next]_vars PROVE PathInv'
    OBVIOUS
  <2>1. CASE Next
    BY <2>1, PathInvStep
  <2>2. CASE UNCHANGED vars
    BY <2>2 DEF vars, PathInv, ReplacesPath, WritingPath, DumpPathStays
  <2> QED
    BY <2>1, <2>2
<1>3. PathInv => DumpPathStays
  BY DEF PathInv
<1> QED
  BY <1>1, <1>2, <1>3, Invariance, PTL DEF Spec

-----------------------------------------------------------------------------
(***************************************************************************)
(* What the invariant does not say: the context that a starting call is    *)
(* about to publish holds what it was asked for, and an update that has    *)
(* come to the path has replaced interval and flags.                       *)
(***************************************************************************)
CallInv ==
    /\ \A t \in Client : Starting(t) =>
          /\ opts[my[t]] = Params(arg[t])
          /\ file[my[t]] \in InitialFile(arg[t])
    /\ \A t \in Client : pc[t] \in {"update_file", "update_file_end"} =>
          /\ arg[t].file # Empty
          /\ opts[timerCtx] = Params(arg[t])

(* An update of the interval and then the flags replaces the parameters. *)
LEMMA FlagsComplete ==
    ASSUME TypeOK, MutexInv, ArgInv, UpdateInv, ParamsInv, NEW t \in Client, UpdateFlags(t)
    PROVE  timerCtx \in Ctx /\ opts'[timerCtx] = Params(arg[t])
<1>1. timerCtx \in Ctx /\ pc[t] = "update_flags"
  BY DEF TypeOK, UpdateInv, Updating, UpdateFlags, Goto
<1>2. opts[timerCtx] \in ParamsType /\ opts[timerCtx].interval = Normalize(arg[t].interval)
  BY <1>1 DEF TypeOK, ParamsInv
<1>3. opts[timerCtx] = [interval |-> Normalize(arg[t].interval), flags |-> opts[timerCtx].flags]
  BY <1>2 DEF ParamsType
<1>4. opts'[timerCtx] = [opts[timerCtx] EXCEPT !.flags = arg[t].flags]
  BY <1>1 DEF UpdateFlags, TypeOK
<1> QED
  BY <1>1, <1>3, <1>4 DEF Params

(* One step per action: others leave a starting or updating call's context alone. *)
LEMMA CallInvStep == ASSUME IInv, CallInv, Next PROVE CallInv'
<1> USE ClientAssumption, AddressAssumption
        DEF IInv, TypeOK, MutexInv, StartInv, UpdateInv, HeapInv, CallInv, HoldsMutex,
            Starting, Updating, Stopping, NoLeak, Goto, ThreadGoto, Acquire, Release, Return,
            ctxVars, threadVars, clientVars
<1>1. ASSUME NEW t \in Client, NEW o \in Option, CallStart(t, o) PROVE CallInv'
  BY <1>1 DEF CallStart
<1>2. ASSUME NEW t \in Client, CallStop(t) \/ CallStatus(t) \/ UpdateReturn(t) PROVE CallInv'
  BY <1>2 DEF CallStop, CallStatus, UpdateReturn
<1>3. ASSUME NEW t \in Client, UpdateInterval(t) PROVE CallInv'
  BY <1>3 DEF UpdateInterval
<1>4. ASSUME NEW t \in Client, UpdateFlags(t) PROVE CallInv'
  <2>1. timerCtx' = timerCtx /\ arg' = arg /\ opts'[timerCtx] = Params(arg[t])
    BY <1>4, FlagsComplete DEF UpdateFlags
  <2>2. \A u \in Client : HoldsMutex(u) => u = t
    BY <1>4 DEF UpdateFlags
  <2>3. \A u \in Client \ {t} : ~HoldsMutex(u)'
    BY <1>4, <2>2 DEF UpdateFlags
  <2>4. ~Starting(t)' /\ (pc'[t] = "update_file" => arg[t].file # Empty)
    BY <1>4 DEF UpdateFlags
  <2>5. pc'[t] # "update_file_end"
    BY <1>4 DEF UpdateFlags
  <2> QED
    BY ONLY <2>1, <2>3, <2>4, <2>5 DEF CallInv, HoldsMutex, Starting, Updating
<1>5. ASSUME NEW t \in Client, UpdateFileBegin(t) \/ UpdateFileEnd(t) PROVE CallInv'
  BY <1>5 DEF UpdateFileBegin, UpdateFileEnd
<1>6. ASSUME NEW t \in Client, StartAlloc(t) PROVE CallInv'
  BY <1>6 DEF StartAlloc
<1>7. ASSUME NEW t \in Client, StartAllocFails(t) \/ StartCreate(t) PROVE CallInv'
  BY <1>7 DEF StartAllocFails, StartCreate
<1>8. ASSUME NEW t \in Client, StartCreateFails(t) PROVE CallInv'
  BY <1>8 DEF StartCreateFails, Free
<1>9. ASSUME NEW t \in Client, StartPublish(t) PROVE CallInv'
  BY <1>9 DEF StartPublish
<1>10. ASSUME NEW t \in Client, StopNothing(t) \/ StopQuit(t) PROVE CallInv'
  BY <1>10 DEF StopNothing, StopQuit
<1>11. ASSUME NEW t \in Client, StopJoinLoad(t) \/ StopJoin(t) PROVE CallInv'
  BY <1>11 DEF StopJoinLoad, StopJoin
<1>12. ASSUME NEW t \in Client, StopFree(t) PROVE CallInv'
  BY <1>12 DEF StopFree, Free
<1>13. ASSUME NEW t \in Client, StatusLock(t) \/ StatusUnlock(t) PROVE CallInv'
  BY <1>13 DEF StatusLock, StatusUnlock
<1>14. ASSUME NEW c \in Ctx, ThreadPlainStep(c) \/ ThreadCopyInterval(c) PROVE CallInv'
  BY <1>14 DEF ThreadPlainStep, ThreadWhile, ThreadWake, ThreadCopyFlags, ThreadCount,
               ThreadFire, ThreadStackdump, ThreadCopyInterval
<1> QED
  BY ONLY Next, <1>1, <1>2, <1>3, <1>4, <1>5, <1>6, <1>7, <1>8, <1>9, <1>10, <1>11, <1>12,
          <1>13, <1>14
     DEF Next, Call, PlainStep, LockStep

(***************************************************************************)
(* The value of the timer while one call updates it, and while none does.  *)
(***************************************************************************)
LEMMA UpdatingValue ==
    IInv => \A t \in Client : Updating(t) =>
        /\ timerCtx # Null
        /\ TimerValue = [params |-> Params(arg[t]), file |-> UpdatedFile(file[timerCtx], arg[t])]
<1> SUFFICES ASSUME IInv, NEW t \in Client, Updating(t)
             PROVE  /\ timerCtx # Null
                    /\ TimerValue = [params |-> Params(arg[t]),
                                     file |-> UpdatedFile(file[timerCtx], arg[t])]
  OBVIOUS
<1>1. timerCtx # Null
  BY DEF IInv, UpdateInv
<1>2. \A u \in Client : Updating(u) => u = t
  BY DEF IInv, MutexInv, HoldsMutex
<1>3. (CHOOSE u \in Client : Updating(u)) = t
  BY <1>2
<1> QED
  BY <1>1, <1>3 DEF TimerValue

LEMMA NextUpdatingValue ==
    IInv' => \A t \in Client : Updating(t)' =>
        TimerValue' = [params |-> Params(arg'[t]),
                       file |-> UpdatedFile(file'[timerCtx'], arg'[t])]
<1>1. (\A t \in Client : Updating(t) =>
        /\ timerCtx # Null
        /\ TimerValue = [params |-> Params(arg[t]),
                         file |-> UpdatedFile(file[timerCtx], arg[t])])' \/ ~IInv'
  BY UpdatingValue, PTL
<1> QED
  BY <1>1

LEMMA QuietValue ==
    (\A t \in Client : ~Updating(t)) =>
        TimerValue = IF timerCtx = Null THEN Null
                     ELSE [params |-> opts[timerCtx], file |-> file[timerCtx]]
BY DEF TimerValue

(* A timer is never mistaken for no timer. *)
LEMMA ValueOfTimer == TypeOK /\ timerCtx # Null /\ (\A t \in Client : ~Updating(t)) => TimerValue # Null
<1> SUFFICES ASSUME TypeOK, timerCtx # Null, \A t \in Client : ~Updating(t)
             PROVE  TimerValue # Null
  OBVIOUS
<1>1. TimerValue = [params |-> opts[timerCtx], file |-> file[timerCtx]]
  BY QuietValue
<1>2. /\ opts[timerCtx] \in [interval : Nat, flags : SUBSET Flag]
      /\ file[timerCtx] \in File \cup {Empty, Partial}
  BY DEF TypeOK, ParamsType
<1> QED
  BY <1>1, <1>2, NullAssumption

(* Whoever has taken the mutex, or finds it free, is alone: nobody updates. *)
LEMMA NobodyUpdates ==
    IInv => \A t \in Client : mutex = Null \/ (mutex = t /\ ~Updating(t)) =>
        \A u \in Client : ~Updating(u)
BY AddressAssumption DEF IInv, MutexInv, HoldsMutex

-----------------------------------------------------------------------------
(* What can change the value of the timer. *)
LEMMA ValueKept ==
    ASSUME UNCHANGED <<timerCtx, opts, file>>,
           \A t \in Client : Updating(t)' <=> Updating(t),
           \A t \in Client : Updating(t) => arg'[t] = arg[t]
    PROVE  TimerValue' = TimerValue
<1>1. (CHOOSE t \in Client : Updating(t))' = CHOOSE t \in Client : Updating(t)
  OBVIOUS
<1>2. (\E t \in Client : Updating(t)) => Updating(CHOOSE t \in Client : Updating(t))
  OBVIOUS
<1>3. CASE \E t \in Client : Updating(t)
  BY <1>1, <1>2, <1>3 DEF TimerValue
<1>4. CASE ~\E t \in Client : Updating(t)
  BY <1>4 DEF TimerValue
<1> QED
  BY <1>3, <1>4

(* Whatever a thread does, callers see nothing of it. *)
LEMMA ThreadStutters ==
    ASSUME NEW c \in Ctx, ThreadPlainStep(c) \/ ThreadCopyInterval(c)
    PROVE  UNCHANGED Promise!vars
<1>1. UNCHANGED <<timerCtx, opts, file, pc, arg>>
  BY DEF ThreadPlainStep, ThreadWhile, ThreadWake, ThreadCopyFlags, ThreadCount, ThreadFire,
         ThreadStackdump, ThreadCopyInterval, ctxVars, clientVars
<1>2. PendingCall' = PendingCall /\ TimerValue' = TimerValue
  BY <1>1, ValueKept DEF PendingCall, Updating
<1> QED
  BY <1>2 DEF Promise!vars

(***************************************************************************)
(* Each step of a client is a step of the promise or a stutter.  A call of *)
(* start_timer_thread takes effect when it takes the mutex of a running    *)
(* timer, when it publishes a new one, or when it fails; a call of         *)
(* stop_timer_thread when it finds no timer or clears s_timer_ctx.         *)
(***************************************************************************)
LEMMA BeginRefines ==
    ASSUME IInv, NEW t \in Client, Call(t)
    PROVE  Promise!Begin(t) \/ UNCHANGED Promise!vars
<1> USE DEF Goto
<1>1. pc \in [Client -> ClientPC] /\ arg \in [Client -> Option \cup {Null}]
  BY DEF IInv, TypeOK
<1>2. /\ UNCHANGED <<timerCtx, opts, file>>
      /\ \A u \in Client : Updating(u)' <=> Updating(u)
      /\ \A u \in Client : Updating(u) => arg'[u] = arg[u]
  BY <1>1 DEF Call, CallStart, CallStop, CallStatus, Updating, ctxVars
<1>3. TimerValue' = TimerValue
  BY <1>2, ValueKept
<1>4. ASSUME NEW o \in Option, CallStart(t, o) PROVE Promise!Begin(t)
  <2>1. PendingCall[t] = Null /\ PendingCall' = [PendingCall EXCEPT ![t] = <<"start", o>>]
    BY <1>1, <1>4 DEF CallStart, PendingCall
  <2> QED
    BY <1>3, <2>1 DEF Promise!Begin
<1>5. ASSUME CallStop(t) PROVE Promise!Begin(t)
  <2>1. PendingCall[t] = Null /\ PendingCall' = [PendingCall EXCEPT ![t] = <<"stop">>]
    BY <1>1, <1>5 DEF CallStop, PendingCall
  <2> QED
    BY <1>3, <2>1 DEF Promise!Begin
<1>6. ASSUME CallStatus(t) PROVE UNCHANGED Promise!vars
  <2>1. PendingCall' = PendingCall
    BY <1>1, <1>6 DEF CallStatus, PendingCall
  <2> QED
    BY <1>3, <2>1 DEF Promise!vars
<1> QED
  BY <1>4, <1>5, <1>6 DEF Call

LEMMA UpdateRefines ==
    ASSUME IInv, IInv', NEW t \in Client, UpdateInterval(t)
    PROVE  Promise!Update(t)
<1>1. pc[t] = "start" /\ arg[t] \in Option /\ timerCtx # Null
  BY DEF IInv, ArgInv, UpdateInterval, Goto
<1>2. \A u \in Client : ~Updating(u)
  BY NobodyUpdates DEF UpdateInterval, Acquire
<1>3. TimerValue = [params |-> opts[timerCtx], file |-> file[timerCtx]] /\ TimerValue # Null
  BY <1>1, <1>2, QuietValue, ValueOfTimer DEF IInv
<1>4. Updating(t)' /\ UNCHANGED <<timerCtx, file, arg>>
  BY DEF IInv, TypeOK, UpdateInterval, Goto, Updating
<1>5. TimerValue' = [params |-> Params(arg[t]), file |-> UpdatedFile(TimerValue.file, arg[t])]
  BY <1>3, <1>4, NextUpdatingValue
<1>6. PendingCall[t] = <<"start", arg[t]>> /\ PendingCall' = [PendingCall EXCEPT ![t] = Null]
  BY <1>1, <1>4 DEF IInv, TypeOK, UpdateInterval, Goto, PendingCall
<1> QED
  BY <1>1, <1>3, <1>5, <1>6 DEF Promise!Update, Promise!Done

(* The parameters an update leaves behind are those it counted for. *)
LEMMA UpdatingStutters ==
    ASSUME IInv, IInv', CallInv, CallInv', NEW t \in Client,
           UpdateFlags(t) \/ UpdateFileBegin(t) \/ UpdateFileEnd(t)
    PROVE  UNCHANGED Promise!vars
<1> USE DEF Goto
<1>1. pc \in [Client -> ClientPC] /\ Updating(t) /\ arg' = arg /\ timerCtx' = timerCtx
  BY DEF IInv, TypeOK, UpdateFlags, UpdateFileBegin, UpdateFileEnd, Updating
<1>2. PendingCall' = PendingCall
  BY <1>1 DEF UpdateFlags, UpdateFileBegin, UpdateFileEnd, PendingCall
<1>3. /\ timerCtx \in Ctx
      /\ TimerValue = [params |-> Params(arg[t]), file |-> UpdatedFile(file[timerCtx], arg[t])]
  BY <1>1, UpdatingValue DEF IInv, TypeOK
<1>4. CASE Updating(t)'
  <2>1. TimerValue' = [params |-> Params(arg[t]),
                       file |-> UpdatedFile(file'[timerCtx], arg[t])]
    BY <1>1, <1>4, NextUpdatingValue
  <2>2. UpdatedFile(file[timerCtx], arg[t])' = UpdatedFile(file[timerCtx], arg[t])
    BY <1>1, <1>4 DEF UpdateFlags, UpdateFileBegin, UpdateFileEnd, UpdatedFile, Updating, CallInv
  <2>3. TimerValue' = TimerValue
    BY <1>1, <1>3, <1>4, <2>1, <2>2
  <2> QED
    BY <1>2, <2>3 DEF Promise!vars
<1>5. CASE ~Updating(t)'
  <2>1. \A u \in Client : Updating(u) => u = t
    BY <1>1 DEF IInv, MutexInv, HoldsMutex
  <2>2. \A u \in Client : ~Updating(u)'
    BY <1>1, <1>5, <2>1 DEF UpdateFlags, UpdateFileBegin, UpdateFileEnd, Updating
  <2>3. TimerValue' = [params |-> opts'[timerCtx], file |-> file'[timerCtx]]
    BY <1>1, <1>3, <2>2, AddressAssumption DEF TimerValue
  <2>4. opts'[timerCtx] = Params(arg[t]) /\ file'[timerCtx] = UpdatedFile(file[timerCtx], arg[t])
    <3>1. CASE UpdateFlags(t)
      <4>1. arg[t].file = Empty
        BY <1>1, <1>5, <3>1 DEF UpdateFlags, Updating
      <4> QED
        BY <3>1, <4>1, FlagsComplete DEF IInv, UpdateFlags, UpdatedFile
    <3>2. CASE UpdateFileBegin(t)
      BY <1>1, <1>5, <3>2 DEF UpdateFileBegin, Updating
    <3>3. CASE UpdateFileEnd(t)
      BY <1>3, <3>3 DEF UpdateFileEnd, UpdatedFile, CallInv, IInv, TypeOK
    <3> QED
      BY <3>1, <3>2, <3>3
  <2> QED
    BY <1>2, <1>3, <2>3, <2>4 DEF Promise!vars
<1> QED
  BY <1>4, <1>5

(* Steps that change neither the timer nor what a call is waiting for. *)
LEMMA CallStutters ==
    ASSUME IInv, NEW t \in Client,
           \/ UpdateReturn(t) \/ StartAlloc(t) \/ StartCreate(t) \/ StopQuit(t)
           \/ StopJoinLoad(t) \/ StopJoin(t) \/ StatusLock(t) \/ StatusUnlock(t)
    PROVE  UNCHANGED Promise!vars
<1> USE DEF Goto, Return, ctxVars, threadVars
<1>1. pc \in [Client -> ClientPC] /\ arg \in [Client -> Option \cup {Null}]
  BY DEF IInv, TypeOK
<1>2. PendingCall' = PendingCall
  BY <1>1 DEF PendingCall, UpdateReturn, StartAlloc, StartCreate, StopQuit, StopJoinLoad,
              StopJoin, StatusLock, StatusUnlock
<1>3. TimerValue' = TimerValue
  <2>1. CASE StartAlloc(t)
    BY <2>1 DEF StartAlloc, TimerValue
  <2>2. CASE ~StartAlloc(t)
    <3>1. /\ UNCHANGED <<timerCtx, opts, file>>
          /\ \A u \in Client : Updating(u)' <=> Updating(u)
          /\ \A u \in Client : Updating(u) => arg'[u] = arg[u]
      BY <1>1, <2>2 DEF Updating, UpdateReturn, StartCreate, StopQuit, StopJoinLoad,
                        StopJoin, StatusLock, StatusUnlock
    <3> QED
      BY <3>1, ValueKept
  <2> QED
    BY <2>1, <2>2
<1> QED
  BY <1>2, <1>3 DEF Promise!vars

(* A call that fails leaves no timer where there was none. *)
LEMMA FailureRefines ==
    ASSUME IInv, NEW t \in Client, StartAllocFails(t) \/ StartCreateFails(t)
    PROVE  Promise!Start(t)
<1> USE DEF Goto, Return, ctxVars
<1>1. /\ timerCtx = Null /\ timerCtx' = Null
      /\ pc[t] \in {"start", "create"} /\ arg[t] \in Option
  BY DEF IInv, ArgInv, StartInv, Starting, StartAllocFails, StartCreateFails
<1>2. TimerValue = Null /\ TimerValue' = Null
  BY <1>1 DEF TimerValue
<1>3. PendingCall[t] = <<"start", arg[t]>> /\ PendingCall' = [PendingCall EXCEPT ![t] = Null]
  BY <1>1 DEF IInv, TypeOK, StartAllocFails, StartCreateFails, PendingCall
<1> QED
  BY <1>1, <1>2, <1>3 DEF Promise!Start, Promise!Done

LEMMA PublishRefines ==
    ASSUME IInv, CallInv, NEW t \in Client, StartPublish(t)
    PROVE  Promise!Start(t)
<1> USE DEF Goto, Return, ctxVars
<1>1. timerCtx = Null /\ timerCtx' = my[t] /\ my[t] \in Ctx /\ arg[t] \in Option
  BY DEF IInv, ArgInv, StartInv, Starting, StartPublish
<1>2. opts'[my[t]] = Params(arg[t]) /\ file'[my[t]] \in InitialFile(arg[t])
  BY DEF CallInv, Starting, StartPublish
<1>3. \A u \in Client : HoldsMutex(u) => u = t
  BY DEF IInv, MutexInv, HoldsMutex, StartPublish
<1>4. \A u \in Client : ~Updating(u)'
  BY <1>3 DEF IInv, TypeOK, HoldsMutex, Updating, StartPublish
<1>5. TimerValue = Null /\ TimerValue' = [params |-> Params(arg[t]), file |-> file'[my[t]]]
  BY <1>1, <1>2, <1>4, AddressAssumption DEF TimerValue
<1>6. PendingCall[t] = <<"start", arg[t]>> /\ PendingCall' = [PendingCall EXCEPT ![t] = Null]
  BY DEF IInv, TypeOK, StartPublish, PendingCall
<1> QED
  BY <1>1, <1>2, <1>5, <1>6 DEF Promise!Start, Promise!Done

LEMMA StopRefines ==
    ASSUME IInv, NEW t \in Client, StopNothing(t) \/ StopFree(t)
    PROVE  Promise!Stop(t)
<1>1. TimerValue' = Null
  BY DEF TimerValue, StopNothing, StopFree
<1>2. PendingCall[t] = <<"stop">> /\ PendingCall' = [PendingCall EXCEPT ![t] = Null]
  BY DEF IInv, TypeOK, StopNothing, StopFree, PendingCall, Goto
<1> QED
  BY <1>1, <1>2 DEF Promise!Stop, Promise!Done

(***************************************************************************)
(* The stronger invariant, and the refinement.                             *)
(***************************************************************************)
THEOREM CallInvariance == ASSUME OneStopper PROVE Spec => [](IInv /\ CallInv)
<1>1. Init => CallInv
  BY DEF Init, CallInv, Starting
<1>2. IInv /\ CallInv /\ [Next]_vars => CallInv'
  <2> SUFFICES ASSUME IInv, CallInv, [Next]_vars PROVE CallInv'
    OBVIOUS
  <2>1. CASE Next
    BY <2>1, CallInvStep
  <2>2. CASE UNCHANGED vars
    BY <2>2 DEF vars, CallInv, Starting
  <2> QED
    BY <2>1, <2>2
<1> QED
  BY <1>1, <1>2, Invariance, PTL DEF Spec

(* Overlapping calls behave as if they were executed one at a time. *)
THEOREM Refinement == ASSUME OneStopper PROVE Spec => ImplementsTimerSpec
<1>1. Init => Promise!Init
  BY DEF Init, Promise!Init, TimerValue, PendingCall
<1>2. IInv /\ CallInv /\ IInv' /\ CallInv' /\ [Next]_vars => [Promise!Next]_Promise!vars
  <2> SUFFICES ASSUME IInv, CallInv, IInv', CallInv', [Next]_vars
               PROVE  Promise!Next \/ UNCHANGED Promise!vars
    OBVIOUS
  <2>1. ASSUME NEW t \in Client, Call(t) PROVE Promise!Next \/ UNCHANGED Promise!vars
    BY <2>1, BeginRefines DEF Promise!Next
  <2>2. ASSUME NEW t \in Client, PlainStep(t) \/ LockStep(t)
        PROVE  Promise!Next \/ UNCHANGED Promise!vars
    BY <2>2, UpdateRefines, UpdatingStutters, CallStutters, FailureRefines, PublishRefines,
       StopRefines DEF PlainStep, LockStep, Promise!Next
  <2>3. ASSUME NEW c \in Ctx, ThreadPlainStep(c) \/ ThreadCopyInterval(c)
        PROVE  UNCHANGED Promise!vars
    BY <2>3, ThreadStutters
  <2>4. CASE UNCHANGED vars
    BY <2>4 DEF vars, Promise!vars, TimerValue, PendingCall, Updating
  <2> QED
    BY <2>1, <2>2, <2>3, <2>4 DEF Next
<1> QED
  BY <1>1, <1>2, CallInvariance, PTL DEF Spec, ImplementsTimerSpec, Promise!Spec
=============================================================================
