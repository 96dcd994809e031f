-------------------------- MODULE DbgConsoleProofs --------------------------
(***************************************************************************)
(* Starting, stopping and leaving the debug console, for any number of     *)
(* starts, any lines typed and any callbacks.                              *)
(***************************************************************************)
EXTENDS DbgConsole, SequenceLemmas

(***************************************************************************)
(* The inductive invariant.                                                *)
(***************************************************************************)
Active(k) == pc[k] \notin {"none", "ended"}

ControlType ==
    /\ kbdQuit \in BOOLEAN /\ interactive \in BOOLEAN /\ eof \in BOOLEAN /\ exited \in BOOLEAN
    /\ dbgThread \in Console \cup {None}
    /\ exitCb \in Callback \cup {None}
    /\ main \in {"idle", "create", "join", "returned"}
    /\ pc \in [Console -> {"none", "loop", "read", "timer", "exit", "exiting", "ended"}]
    /\ call = [k \in Console |-> call[k]]

(* There is one console thread, the one stop_dbg_thread would join, and it  *)
(* alone calls the timer.                                                   *)
ThreadInv ==
    /\ \A k \in Console : Active(k) => k = dbgThread
    /\ \A k \in Console : call[k] # None => pc[k] = "timer"
    /\ main \in {"create", "returned"} => dbgThread = None
    /\ main = "join" => dbgThread # None

(* While stop_dbg_thread waits, the flags are set for good, and the thread  *)
(* runs the line it was reading, if any.                                    *)
StopInv ==
    /\ main = "join" => kbdQuit /\ ~interactive
    /\ dbgThread = None /\ main # "create" => ~interactive
    /\ late \in {0, 1}
    /\ main # "join" => late = 0
    /\ late = 1 => \A k \in Console : pc[k] # "read"

ExitInv ==
    \A x \in exiting : \/ x = "main" /\ main = "returned"
                       \/ x \in Console /\ pc[x] = "exiting"

IInv == ControlType /\ ThreadInv /\ StopInv /\ ExitInv

LEMMA InvariantStep == ASSUME IInv, Next PROVE IInv'
<1> USE DEF IInv, ControlType, ThreadInv, StopInv, ExitInv, Active, Goto, console
<1>0. None \notin Console /\ Callback \subseteq {"notifies", "stops"}
  BY ConsoleAssumption
<1> USE <1>0
<1>1. ASSUME NEW cb \in Callback, SetExitCallback(cb) PROVE IInv'
  BY <1>1 DEF SetExitCallback
<1>2. CASE CallStart
  BY <1>2 DEF CallStart
<1>3. CASE CreateFails
  BY <1>3 DEF CreateFails
<1>4. CASE CallStop
  BY <1>4 DEF CallStop, StopWith
<1>5. CASE JoinDone
  BY <1>5 DEF JoinDone, JoinDetached
<1>6. CASE MainReturns
  BY <1>6 DEF MainReturns
<1>7. CASE Terminate
  BY <1>7 DEF Terminate
<1>8. ASSUME NEW k \in Console, Create(k) PROVE IInv'
  BY <1>8 DEF Create
<1>9. ASSUME NEW k \in Console, While(k) PROVE IInv'
  BY <1>9 DEF While
<1>10. ASSUME NEW k \in Console, ReadLine(k) PROVE IInv'
  BY <1>10 DEF ReadLine, AfterLine
<1>11. ASSUME NEW k \in Console, ReadEnds(k) PROVE IInv'
  BY <1>11 DEF ReadEnds
<1>12. ASSUME NEW k \in Console, TimerEffect(k) PROVE IInv'
  <2>1. call' = [call EXCEPT ![k] = None]
    BY <1>12 DEF TimerEffect, Timer!Start, Timer!Update, Timer!Stop, Timer!Done
  <2> QED
    BY <1>12, <2>1 DEF TimerEffect
<1>13. ASSUME NEW k \in Console, TimerReturns(k) PROVE IInv'
  BY <1>13 DEF TimerReturns
<1>14. ASSUME NEW k \in Console, ExitApp(k) PROVE IInv'
  BY <1>14 DEF ExitApp
<1>15. ASSUME NEW k \in Console, ExitCallback(k) PROVE IInv'
  BY <1>15 DEF ExitCallback
<1> QED
  BY ONLY Next, <1>1, <1>2, <1>3, <1>4, <1>5, <1>6, <1>7, <1>8, <1>9, <1>10, <1>11, <1>12,
          <1>13, <1>14, <1>15
     DEF Next, ConsoleStep

(* However often the console is started, stopped, and left, in whatever     *)
(* order its thread and the application take their steps, the invariant     *)
(* holds.                                                                   *)
THEOREM Invariance == Spec => []IInv
<1>1. Init => IInv
  BY ConsoleAssumption
     DEF Init, Timer!Init, IInv, ControlType, ThreadInv, StopInv, ExitInv, Active
<1>2. IInv /\ [Next]_vars => IInv'
  <2>1. CASE Next
    BY <2>1, InvariantStep
  <2>2. CASE UNCHANGED vars
    BY <2>2 DEF vars, IInv, ControlType, ThreadInv, StopInv, ExitInv, Active
  <2> QED
    BY <2>1, <2>2
<1> QED
  BY <1>1, <1>2, PTL DEF Spec

-----------------------------------------------------------------------------
(* A set all of whose members are equal has at most one.                    *)
LEMMA AtMostOne ==
    ASSUME NEW S, \A x, y \in S : x = y
    PROVE  Cardinality(S) <= 1
<1>1. CASE S = {}
  BY <1>1, FS_EmptySet
<1>2. ASSUME NEW x \in S PROVE Cardinality(S) <= 1
  <2>1. S = {x}
    OBVIOUS
  <2> QED
    BY <2>1, FS_Singleton
<1> QED
  BY <1>1, <1>2

(* The console is the one caller at a time of stop_timer_thread that the    *)
(* timer's proofs assume (OneStopper).                                      *)
THEOREM OneCaller == Spec => []SingleStopper
<1>1. IInv => SingleStopper
  <2> SUFFICES ASSUME IInv PROVE SingleStopper
    OBVIOUS
  <2> DEFINE Stopping == {k \in Console : call[k] = <<"stop">>}
  <2>1. ASSUME NEW k \in Stopping PROVE k = dbgThread
    BY <2>1, ConsoleAssumption DEF IInv, ThreadInv, Active
  <2>2. \A x, y \in Stopping : x = y
    BY <2>1
  <2> QED
    BY <2>2, AtMostOne DEF SingleStopper
<1> QED
  BY <1>1, Invariance, PTL

(* After stop_dbg_thread has returned no command runs, at most one more     *)
(* line is run while it waits, and main and the exit command never both run *)
(* exit().                                                                  *)
THEOREM StopIsFinal == Spec => []StopHolds
<1>1. IInv => StopHolds
  <2> SUFFICES ASSUME IInv PROVE StopHolds
    OBVIOUS
  <2> USE ConsoleAssumption DEF IInv
  <2>1. dbgThread = None /\ main # "create" =>
           ~interactive /\ \A k \in Console : pc[k] \in {"none", "ended"} /\ call[k] = None
    BY DEF ControlType, ThreadInv, StopInv, Active
  <2>2. late <= 1
    BY DEF StopInv
  <2>3. ASSUME NEW x \in exiting, NEW y \in exiting PROVE x = y
    BY <2>3 DEF ExitInv, ThreadInv, Active
  <2> QED
    BY <2>1, <2>2, <2>3, AtMostOne DEF StopHolds
<1> QED
  BY <1>1, Invariance, PTL

-----------------------------------------------------------------------------
(* What the words of a timer command come to: options that start_timer_-    *)
(* thread can use, whatever is typed.                                       *)
TypedWord == [text : STRING, num : Int, unit : STRING]
Path == STRING \cup {""}
TimerOptions == [interval : 1 .. IntMax, flags : SUBSET Flag, file : Path]
CmdType == [opts : TimerOptions, quit : BOOLEAN, value : {None, "-f", "-w"}]

LEMMA IntervalFits ==
    ASSUME NEW w \in TypedWord
    PROVE  IntervalMs(w) \in Int /\ IntervalMs(w) <= IntMax
<1>1. w.num \in Int /\ IntMax \in Nat /\ Kilo \in Nat \ {0}
  BY ConsoleAssumption DEF TypedWord
<1>2. ASSUME 0 <= w.num, w.num <= IntMax \div Kilo PROVE w.num * Kilo \in Int /\ w.num * Kilo <= IntMax
  <2>1. IntMax \div Kilo \in Nat /\ (IntMax \div Kilo) * Kilo <= IntMax
    BY <1>1
  <2>2. w.num * Kilo <= (IntMax \div Kilo) * Kilo
    BY <1>1, <1>2, <2>1
  <2> QED
    BY <1>1, <2>1, <2>2
<1>3. CASE w.num < 0 \/ w.num > IntMax
  BY <1>1, <1>3 DEF IntervalMs
<1>4. CASE ~(w.num < 0 \/ w.num > IntMax)
  <2>1. IntMax \div Kilo \in Int
    BY <1>1
  <2> QED
    BY <1>1, <1>2, <1>4, <2>1 DEF IntervalMs
<1> QED
  BY <1>3, <1>4

LEMMA SetIntervalType ==
    ASSUME NEW cmd \in CmdType, NEW w \in TypedWord
    PROVE  SetInterval(cmd, w) \in CmdType
<1>1. PICK ms \in Int : ms = IntervalMs(w) /\ ms <= IntMax
  BY IntervalFits
<1>2. ms > 0 => ms \in 1 .. IntMax
  BY <1>1, ConsoleAssumption
<1> QED
  BY <1>1, <1>2 DEF SetInterval, CmdType, TimerOptions

LEMMA TimerWordType ==
    ASSUME NEW cmd \in CmdType, NEW w \in TypedWord
    PROVE  TimerWord(cmd, w) \in CmdType
<1>1. w.text \in Path
  BY DEF TypedWord, Path
<1>2. \A x \in DOMAIN FlagOf : FlagOf[x] \in Flag
  BY DEF FlagOf, Flag
<1>3. [cmd EXCEPT !.value = None] \in CmdType
  BY DEF CmdType
<1>4. [cmd EXCEPT !.opts.file = w.text, !.value = None] \in CmdType
  BY <1>1 DEF CmdType, TimerOptions
<1>5. [cmd EXCEPT !.quit = TRUE] \in CmdType /\ [cmd EXCEPT !.value = "-f"] \in CmdType
      /\ [cmd EXCEPT !.value = "-w"] \in CmdType
  BY DEF CmdType
<1>6. ASSUME w.text \in DOMAIN FlagOf
      PROVE  [cmd EXCEPT !.opts.flags = @ \cup {FlagOf[w.text]}] \in CmdType
  BY <1>2, <1>6 DEF CmdType, TimerOptions
<1> QED
  BY <1>3, <1>4, <1>5, <1>6, SetIntervalType DEF TimerWord

LEMMA TimerCmdType ==
    ASSUME NEW words \in Seq(TypedWord)
    PROVE  \/ TimerCmd(words) = <<"stop">>
           \/ \E o \in TimerOptions : TimerCmd(words) = <<"start", o>> /\ o.flags # {}
<1> DEFINE base == [opts |-> NoOptions, quit |-> FALSE, value |-> None]
           Dom == DOMAIN words
           D == SUBSET Dom
           Right(f, s) == IF s = {} THEN base
                          ELSE TimerWord(f[s \ {Max(s)}], words[Max(s)])
           rank == [s \in D |-> Cardinality(s)]
           body == [f \in [D -> CmdType] |-> [s \in D |-> Right(f, s)]]
           N == Len(words) + 1
<1>1. base \in CmdType
  BY ConsoleAssumption DEF CmdType, TimerOptions, NoOptions, Path
<1>2. IsFiniteSet(Dom) /\ Cardinality(Dom) = Len(words) /\ Len(words) \in Nat /\ Dom \subseteq Nat
  <2>1. Dom = 1 .. Len(words) /\ Len(words) \in Nat
    OBVIOUS
  <2> QED
    BY <2>1, FS_Interval
<1>3. ASSUME NEW s \in D
      PROVE  IsFiniteSet(s) /\ Cardinality(s) \in Nat /\ Cardinality(s) < N
  BY <1>2, FS_Subset, FS_CardinalityType
<1>4. ASSUME NEW s \in D, s # {} PROVE Max(s) \in s
  <2> DEFINE Bound == {n \in Nat : \A x \in s : x <= n}
  <2>1. \A x \in s : x \in Nat /\ x <= Len(words)
    BY <1>2
  <2>2. Bound \in SUBSET Nat /\ Len(words) \in Bound
    BY <1>2, <2>1
  <2>3. PICK m \in Bound : \A n \in Bound : m <= n
    <3> HIDE DEF Bound
    <3> QED
      BY <2>2, LeastExists
  <2>4. m \in Nat /\ \A x \in s : x <= m
    BY <2>3
  <2>5. ASSUME m \notin s PROVE FALSE
    <3>1. PICK y \in s : y \in Nat /\ y <= m /\ y # m
      BY <1>4, <2>1, <2>4, <2>5
    <3>2. m - 1 \in Nat /\ \A x \in s : x <= m - 1
      BY <2>1, <2>4, <2>5, <3>1
    <3>3. m - 1 \in Bound
      BY <3>2
    <3> QED
      BY <2>3, <2>4, <3>3
  <2>6. \E x \in s : \A y \in s : x >= y
    BY <2>4, <2>5
  <2> QED
    BY <2>6, Zenon DEF Max
<1>5. ASSUME NEW s \in D, s # {}
      PROVE  s \ {Max(s)} \in D /\ rank[s \ {Max(s)}] < rank[s] /\ words[Max(s)] \in TypedWord
  <2>1. PICK x \in s : x = Max(s)
    BY <1>4, <1>5
  <2>2. Cardinality(s \ {x}) = Cardinality(s) - 1
    BY <1>3, FS_RemoveElement
  <2>3. s \ {x} \in D /\ x \in Dom
    OBVIOUS
  <2> QED
    BY <1>3, <2>1, <2>2, <2>3
<1>6. rank \in [D -> Nat] /\ N \in Nat /\ \A s \in D : rank[s] < N
  BY <1>2, <1>3
<1>7. ASSUME NEW f \in [D -> CmdType], NEW s \in D PROVE Right(f, s) \in CmdType
  <2>1. CASE s = {}
    BY <1>1, <2>1
  <2>2. CASE s # {}
    <3>1. f[s \ {Max(s)}] \in CmdType /\ words[Max(s)] \in TypedWord
      <4> HIDE DEF D
      <4> QED
        BY <1>5, <2>2
    <3> QED
      BY <2>2, <3>1, TimerWordType
  <2> QED
    BY <2>1, <2>2
<1>8. body \in [[D -> CmdType] -> [D -> CmdType]]
  <2> HIDE DEF D, Right
  <2> QED
    BY <1>7
<1>9. \A f, g \in [D -> CmdType] : \A s \in D :
        (\A r \in D : rank[r] < rank[s] => f[r] = g[r]) => body[f][s] = body[g][s]
  <2> TAKE f, g \in [D -> CmdType]
  <2> TAKE s \in D
  <2> HAVE \A r \in D : rank[r] < rank[s] => f[r] = g[r]
  <2>1. s # {} => f[s \ {Max(s)}] = g[s \ {Max(s)}]
    <3> HIDE DEF D, rank
    <3> QED
      BY <1>5
  <2>2. Right(f, s) = Right(g, s)
    BY <2>1
  <2> HIDE DEF D, Right
  <2> QED
    BY <2>2
<1>10. PICK f \in [D -> CmdType] : f = body[f]
  <2> DEFINE S == CmdType
  <2>1. S # {}
    BY <1>1
  <2> HIDE DEF D, rank, body, S, N
  <2>2. Recursion(D, S, rank, N, body)
    BY <1>6, <1>8, <1>9, <2>1 DEF Recursion, S
  <2>3. \E f \in [D -> S] : f = body[f]
    BY <2>2, RecursionExists
  <2> QED
    BY <2>3 DEF S
<1>11. f = [s \in D |-> Right(f, s)]
  <2> HIDE DEF D, Right
  <2> QED
    BY <1>10
<1>12. PICK h : h = [s \in D |-> Right(h, s)] /\ FoldLeft(TimerWord, base, words) = h[Dom]
  <2> DEFINE h == CHOOSE h : h = [s \in D |-> Right(h, s)]
  <2>1. h = [s \in D |-> Right(h, s)]
    BY <1>11, Zenon
  <2>2. FoldLeft(TimerWord, base, words) = h[Dom]
    BY Zenon DEF FoldLeft, MapThenFoldSet
  <2> QED
    BY <2>1, <2>2
<1>13. D \subseteq {s \in D : h[s] \in CmdType}
  <2> DEFINE Good == {s \in D : h[s] \in CmdType}
  <2>1. ASSUME NEW s \in D, \A r \in D : rank[r] < rank[s] => r \in Good PROVE s \in Good
    <3>1. s # {} => h[s \ {Max(s)}] \in CmdType
      <4> HIDE DEF D, rank
      <4> QED
        BY <1>5, <2>1
    <3>2. Right(h, s) \in CmdType
      <4> HIDE DEF D
      <4> QED
        BY <1>1, <1>5, <3>1, TimerWordType
    <3> HIDE DEF D, Right, rank
    <3>3. h[s] = Right(h, s)
      BY <1>12
    <3> QED
      BY <3>2, <3>3
  <2> HIDE DEF D, rank, Good
  <2>2. \A s \in D : (\A r \in D : rank[r] < rank[s] => r \in Good) => s \in Good
    BY <2>1
  <2>3. D \subseteq Good
    BY <1>6, <2>2, RankInduction
  <2> QED
    BY <2>3 DEF Good
<1>14. PICK cmd \in CmdType : cmd = FoldLeft(TimerWord, base, words)
  <2>1. Dom \in D
    OBVIOUS
  <2> HIDE DEF D, Dom
  <2> QED
    BY <1>12, <1>13, <2>1
<1>15. TimerCmd(words) = IF cmd.quit THEN <<"stop">>
                         ELSE <<"start", IF cmd.opts.flags = {}
                                         THEN [cmd.opts EXCEPT !.flags = {"health"}] ELSE cmd.opts>>
  BY <1>14, Zenon DEF TimerCmd
<1>16. cmd.opts \in TimerOptions /\ [cmd.opts EXCEPT !.flags = {"health"}] \in TimerOptions
  BY DEF CmdType, TimerOptions, Flag
<1>17. [cmd.opts EXCEPT !.flags = {"health"}].flags # {}
  BY <1>16 DEF TimerOptions
<1> QED
  BY <1>15, <1>16, <1>17

(* Calls to the timer carry such options, and the timer runs with them. *)
CallInv ==
    /\ \A k \in Console : call[k] \in {None} \cup TimerCall
    /\ timer = None \/ timer.params.interval \in 1 .. IntMax

LEMMA TimerCalls ==
    ASSUME NEW c \in TimerCall
    PROVE  c = <<"stop">> \/ \E o \in TimerOptions : c = <<"start", o>> /\ o.flags # {}
<1>1. PICK l \in Line : c = TimerCmd(l.words)
  BY DEF TimerCall
<1>2. PICK words \in Seq(TypedWord) : words = l.words
  BY ConsoleAssumption DEF TypedWord
<1> QED
  BY <1>1, <1>2, TimerCmdType

LEMMA StartOptions ==
    ASSUME NEW c \in TimerCall, c # <<"stop">>
    PROVE  c[1] = "start" /\ c[2] \in TimerOptions /\ c[2].flags # {}
<1>1. PICK o \in TimerOptions : c = <<"start", o>> /\ o.flags # {}
  BY TimerCalls
<1> QED
  BY <1>1

LEMMA CallStep == ASSUME IInv, CallInv, [Next]_vars PROVE CallInv'
<1>1. call = [k \in Console |-> call[k]]
  BY DEF IInv, ControlType
<1>2. ASSUME timer' = timer, call' = call PROVE CallInv'
  BY <1>2 DEF CallInv
<1>3. ASSUME NEW k \in Console, ReadLine(k) PROVE CallInv'
  <2>1. PICK l \in Line : call' = IF l.cmd = "timer" THEN [call EXCEPT ![k] = TimerCmd(l.words)] ELSE call
    BY <1>3 DEF ReadLine
  <2>2. l.cmd = "timer" => TimerCmd(l.words) \in TimerCall
    BY DEF TimerCall
  <2>3. timer' = timer
    BY <1>3 DEF ReadLine
  <2> QED
    BY <1>1, <2>1, <2>2, <2>3 DEF CallInv
<1>4. ASSUME NEW k \in Console, TimerEffect(k) PROVE CallInv'
  <2>1. call' = [call EXCEPT ![k] = None]
    BY <1>4 DEF TimerEffect, Timer!Start, Timer!Update, Timer!Stop, Timer!Done
  <2>2. \A x \in Console : call'[x] \in {None} \cup TimerCall
    BY <1>1, <2>1 DEF CallInv
  <2>3. ASSUME NEW o \in {c[2] : c \in {c \in TimerCall : c # <<"stop">>}}
        PROVE  o.interval \in 1 .. IntMax
    <3>1. o \in TimerOptions
      BY StartOptions
    <3> QED
      BY <3>1 DEF TimerOptions
  <2>4. timer' = None \/ timer'.params.interval \in 1 .. IntMax
    <3>1. CASE Timer!Start(k)
      BY <2>3, <3>1 DEF Timer!Start, CallInv
    <3>2. CASE Timer!Update(k)
      <4>1. PICK o \in {c[2] : c \in {c \in TimerCall : c # <<"stop">>}} :
               \E path : timer' = [params |-> [interval |-> o.interval, flags |-> o.flags],
                                   file |-> path]
        BY <3>2, Zenon DEF Timer!Update
      <4> QED
        BY <2>3, <4>1
    <3>3. CASE Timer!Stop(k)
      BY <3>3 DEF Timer!Stop
    <3> QED
      BY <1>4, <3>1, <3>2, <3>3 DEF TimerEffect
  <2> QED
    BY <2>2, <2>4 DEF CallInv
<1>5. ASSUME NEW k \in Console,
             Create(k) \/ While(k) \/ ReadEnds(k) \/ TimerReturns(k) \/ ExitApp(k) \/ ExitCallback(k)
      PROVE  timer' = timer /\ call' = call
  BY <1>5 DEF Create, While, ReadEnds, TimerReturns, ExitApp, ExitCallback
<1>6. ASSUME \/ \E cb \in Callback : SetExitCallback(cb)
             \/ CallStart \/ CreateFails \/ CallStop \/ JoinDone \/ MainReturns \/ Terminate
             \/ UNCHANGED vars
      PROVE  timer' = timer /\ call' = call
  BY <1>6 DEF SetExitCallback, CallStart, CreateFails, CallStop, StopWith, JoinDone,
              JoinDetached, MainReturns, Terminate, vars
<1> QED
  BY <1>2, <1>3, <1>4, <1>5, <1>6 DEF Next, ConsoleStep

(* Types; whatever is typed after `w', a call of start_timer_thread asks    *)
(* for an interval that fits an int and for at least one thing to do.       *)
THEOREM TypeCorrect == Spec => []TypeOK
<1>1. ASSUME Init PROVE CallInv
  BY <1>1 DEF Init, Timer!Init, CallInv
<1>2. Spec => []CallInv
  BY <1>1, CallStep, Invariance, PTL DEF Spec
<1>3. ASSUME IInv, CallInv PROVE TypeOK
  <2>1. ASSUME NEW k \in Console, call[k] \notin {None, <<"stop">>}
        PROVE  /\ call[k][1] = "start" /\ call[k][2].interval \in 1 .. IntMax
               /\ call[k][2].flags # {} /\ call[k][2].flags \subseteq Flag
    <3>1. PICK c \in TimerCall : c = call[k]
      BY <1>3, <2>1 DEF CallInv
    <3>2. c[1] = "start" /\ c[2] \in TimerOptions /\ c[2].flags # {}
      BY <2>1, <3>1, StartOptions
    <3> QED
      BY <3>1, <3>2 DEF TimerOptions
  <2>2. exiting \subseteq Console \cup {"main"} /\ late \in 0 .. 2
    BY <1>3 DEF IInv, ExitInv, StopInv
  <2> QED
    BY <1>3, <2>1, <2>2 DEF TypeOK, IInv, ControlType, CallInv
<1> QED
  BY <1>2, <1>3, Invariance, PTL
=============================================================================
