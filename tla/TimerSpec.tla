----------------------------- MODULE TimerSpec ------------------------------
(***************************************************************************)
(* What the timer of dbgthread.c promises its callers: there is one timer  *)
(* or none, and each call of start_timer_thread or stop_timer_thread takes *)
(* effect at one instant between its begin and its return.                 *)
(***************************************************************************)
CONSTANTS
    Client,        \* threads that make calls
    Option,        \* the options they pass
    Params(_),     \* the interval and flags an option set stands for
    InitialFile(_),\* the possible stackdump paths of a timer started with it
    UpdatedFile(_, _), \* the path of a running timer after an update
    None           \* no timer, no call

VARIABLES
    timer,   \* None, or the parameters and the path of the running timer
    call     \* call[t]: the call of t that has not taken effect yet

vars == <<timer, call>>

Init == timer = None /\ call = [t \in Client |-> None]

Begin(t) ==
    /\ call[t] = None
    /\ \/ \E o \in Option : call' = [call EXCEPT ![t] = <<"start", o>>]
       \/ call' = [call EXCEPT ![t] = <<"stop">>]
    /\ UNCHANGED timer

Done(t) == call' = [call EXCEPT ![t] = None]

(* Without a timer, a start creates one or fails and changes nothing. *)
Start(t) ==
    /\ timer = None
    /\ \E o \in Option :
          /\ call[t] = <<"start", o>>
          /\ \/ \E path \in InitialFile(o) : timer' = [params |-> Params(o), file |-> path]
             \/ UNCHANGED timer
    /\ Done(t)

(* With one, it replaces the parameters; an empty path keeps the old path. *)
Update(t) ==
    /\ timer # None
    /\ \E o \in Option :
          /\ call[t] = <<"start", o>>
          /\ timer' = [params |-> Params(o), file |-> UpdatedFile(timer.file, o)]
    /\ Done(t)

Stop(t) == call[t] = <<"stop">> /\ timer' = None /\ Done(t)

Next == \E t \in Client : Begin(t) \/ Start(t) \/ Update(t) \/ Stop(t)

Spec == Init /\ [][Next]_vars
=============================================================================
