--------------------------- MODULE CrashDumpProofs ---------------------------
(***************************************************************************)
(* What stack dumps leave behind, for any number of threads that dump and  *)
(* crash, any paths, and any depth of crashes in the dump of a crash.      *)
(***************************************************************************)
EXTENDS CrashDump, TLAPS

(***************************************************************************)
(* The inductive invariant.                                                *)
(***************************************************************************)
Dumping == {"dump", "gdb", "success", "fallback", "trace", "failure", "show"}

(* A dump has a path from its call to its return, and as long as its gdb is *)
(* there, which may survive the caller.                                     *)
JobInv ==
    \A p \in Proc :
        /\ pc[p] \in Dumping => DumpOf(p) # None
        /\ pc[p] \in {"none", "running"} => job[p] = NoJob /\ gdb[p] = "none"
        /\ gdb[p] \in {"forked", "open"} => pc[p] \in {"gdb", "fork", "wait_child", "dead"}
        /\ gdb[p] = "stdout" => pc[p] = "gdb"

(* A handler forks one child, and has not forked it before. *)
ForkInv ==
    \A p \in Proc : Child(p) \in Proc /\ pc[Child(p)] # "none" =>
        pc[p] \in {"wait_child", "dead"}

(* The dumps that may still write their files, or will be told that they    *)
(* have to: not those whose gdb's status will be taken as success.          *)
Owes(p) ==
    \/ pc[p] \in {"dump", "fallback", "trace"}
    \/ gdb[p] \in {"forked", "open"}
    \/ pc[p] = "gdb" /\ gdb[p] \in {"stdout", "failed"}

(* What is due has been written since the last call, or somebody owes it. *)
DueInv ==
    \A b \in due : Settled(files[b]) \/ \E p \in Proc : DumpOf(p) = b /\ Owes(p)

IInv == TypeOK /\ JobInv /\ ForkInv /\ DueInv

(***************************************************************************)
(* Processes.                                                              *)
(***************************************************************************)
LEMMA Processes ==
    /\ \A t \in Thread : <<t, 0>> \in App
    /\ \A p \in Proc : Child(p) # p /\ Child(p) \notin App
    /\ \A p, q \in Proc : Child(p) = Child(q) => p = q
<1>1. \A p \in Proc : p[2] \in Nat /\ p = <<p[1], p[2]>>
  BY CrashAssumption DEF Proc
<1>2. \A t \in Thread : <<t, 0>> \in Proc
  BY CrashAssumption DEF Proc
<1>3. \A p \in Proc : Child(p) # p /\ Child(p) \notin App
  BY <1>1 DEF Child, App
<1>4. \A p, q \in Proc : Child(p) = Child(q) => p = q
  BY <1>1 DEF Child
<1> QED
  BY <1>2, <1>3, <1>4 DEF App

-----------------------------------------------------------------------------
(* Ends of dumps, and processes that are cut off, keep the types. *)
LEMMA ReturnKeepsType ==
    ASSUME TypeOK, NEW p \in Proc, pc[p] \in Dumping, ReturnFromDump(p), UNCHANGED <<files, heap>>,
           due' \subseteq due
    PROVE  TypeOK'
BY DEF TypeOK, ReturnFromDump, NoJob, DumpOf, Base

LEMMA CutOffKeepsType ==
    ASSUME TypeOK, NEW P \in SUBSET Proc, NEW where \in {"fork", "dead"}, CutOff(P, where),
           heap' \in [Proc -> {"ok", "broken", "locked"}]
    PROVE  TypeOK'
BY DEF TypeOK, CutOff, Lose, NoJob, DumpOf, Base

LEMMA GdbEndKeepsJob ==
    ASSUME TypeOK, JobInv, NEW p \in Proc, NEW how \in {"ok", "failed"},
           GdbEnds(p, how)
    PROVE  /\ JobInv'
           /\ job' \in [Proc -> [base : Base \cup {None}, after : {"running", "show", "exit"}]]
           /\ gdb' \in [Proc -> {"none", "forked", "open", "stdout", "ok", "failed"}]
           /\ \A q \in Proc : gdb'[q] # "none" => job'[q].base # None
           /\ DumpOf(p) \in Base
<1> USE DEF TypeOK, JobInv, Dumping, DumpOf, NoJob, GdbEnds, EndDump, Waited
<1>1. DumpOf(p) \in Base /\ pc' = pc
  OBVIOUS
<1>2. CASE Waited(p)
  <2>1. pc' = pc /\ job' = job /\ gdb' = [gdb EXCEPT ![p] = how]
    BY <1>2
  <2> QED
    BY <1>1, <1>2, <2>1
<1>3. CASE ~Waited(p)
  <2>1. job' = [job EXCEPT ![p] = NoJob] /\ gdb' = [gdb EXCEPT ![p] = "none"]
    BY <1>3
  <2>2. pc[p] \in {"fork", "wait_child", "dead"}
    BY <1>3
  <2> QED
    BY <1>1, <2>1, <2>2
<1> QED
  BY <1>1, <1>2, <1>3

LEMMA TypeOKStep == ASSUME TypeOK, JobInv, Next PROVE TypeOK'
<1> USE CrashAssumption, Processes
<1> USE DEF TypeOK, JobInv, Dumping, DumpOf, NoJob, NoFiles, Goto, StartDump, EndDump, App, Lose,
            Older
<1>1. ASSUME NEW t \in Thread, Crash(t) PROVE TypeOK'
  <2>1. heap' \in [Proc -> {"ok", "broken", "locked"}]
    BY <1>1 DEF Crash
  <2> QED
    BY <1>1, <2>1, CutOffKeepsType DEF Crash
<1>2. ASSUME NEW t \in Thread, NEW f \in UserFile, CallStackdump(t, f) PROVE TypeOK'
  BY <1>2 DEF CallStackdump, Base
<1>3. ASSUME NEW f \in UserFile \cup TempFile, CallBt(f) PROVE TypeOK'
  BY <1>3 DEF CallBt, Base
<1>4. ASSUME BtShow PROVE TypeOK'
  BY <1>4 DEF BtShow
<1>5. ASSUME AppExit PROVE TypeOK'
  BY <1>5, CutOffKeepsType DEF AppExit, Exit
<1>6. ASSUME NEW p \in Proc, DumpFork(p) PROVE TypeOK'
  BY <1>6 DEF DumpFork
<1>7. ASSUME NEW p \in Proc, DumpForkFails(p) PROVE TypeOK'
  BY <1>7, ReturnKeepsType DEF DumpForkFails
<1>8. ASSUME NEW p \in Proc, DumpWaited(p) PROVE TypeOK'
  BY <1>8 DEF DumpWaited
<1>9. ASSUME NEW p \in Proc, Fallback(p) \/ FallbackWrites(p) \/ FallbackFails(p) PROVE TypeOK'
  <2>1. CASE Fallback(p)
    BY <2>1 DEF Fallback
  <2>2. CASE FallbackWrites(p)
    BY <2>2 DEF FallbackWrites
  <2>3. CASE FallbackFails(p)
    BY <2>3 DEF FallbackFails
  <2> QED
    BY <1>9, <2>1, <2>2, <2>3
<1>10. ASSUME NEW p \in Proc, DumpDone(p) PROVE TypeOK'
  BY <1>10, ReturnKeepsType DEF DumpDone
<1>11. ASSUME NEW p \in Proc, HandlerFork(p) PROVE TypeOK'
  BY <1>11 DEF HandlerFork, HandlerForkTo, Base
<1>12. ASSUME NEW p \in Proc, HandlerForkFails(p) PROVE TypeOK'
  BY <1>12, CutOffKeepsType DEF HandlerForkFails, Exit
<1>13. ASSUME NEW p \in Proc, HandlerWaited(p) PROVE TypeOK'
  BY <1>13, CutOffKeepsType DEF HandlerWaited, Exit
<1>14. ASSUME NEW p \in Proc, ChildCrashes(p) PROVE TypeOK'
  BY <1>14, CutOffKeepsType DEF ChildCrashes
<1>15. ASSUME NEW p \in Proc, GdbOpen(p) \/ GdbOpenFails(p) PROVE TypeOK'
  <2>1. CASE GdbOpen(p)
    BY <2>1 DEF GdbOpen
  <2>2. CASE GdbOpenFails(p)
    <3>1. gdb' \in [Proc -> {"none", "forked", "open", "stdout", "ok", "failed"}] /\ due' \subseteq Base
      BY <2>2 DEF GdbOpenFails
    <3>2. \A q \in Proc : gdb'[q] # "none" => job'[q].base # None
      BY <2>2 DEF GdbOpenFails
    <3>3. job' \in [Proc -> [base : Base \cup {None}, after : {"running", "show", "exit"}]]
      BY <2>2 DEF GdbOpenFails
    <3> QED
      BY <2>2, <3>1, <3>2, <3>3 DEF GdbOpenFails
  <2> QED
    BY <1>15, <2>1, <2>2
<1>16. ASSUME NEW p \in Proc, GdbReports(p) \/ GdbReportsElsewhere(p) \/ GdbFails(p)
       PROVE  TypeOK'
  <2>1. \E how \in {"ok", "failed"} : GdbEnds(p, how)
    BY <1>16 DEF GdbReports, GdbReportsElsewhere, GdbFails
  <2>2. /\ files' \in [Base -> [gdb : {"none", "dump", "other"}, bt : {"none", "trace", "other"}]]
        /\ due' \subseteq Base
    <3>1. DumpOf(p) \in Base
      BY ONLY <2>1, GdbEndKeepsJob, TypeOK, JobInv, p \in Proc
    <3>2. CASE GdbReports(p)
      BY <3>1, <3>2 DEF GdbReports
    <3>3. CASE GdbReportsElsewhere(p)
      <4>1. files' \in [Base -> [gdb : {"none", "dump", "other"}, bt : {"none", "trace", "other"}]]
        BY <3>1, <3>3 DEF GdbReportsElsewhere
      <4> QED
        BY <3>3, <4>1 DEF GdbReportsElsewhere
    <3>4. CASE GdbFails(p)
      BY <3>4 DEF GdbFails
    <3> QED
      BY <1>16, <3>2, <3>3, <3>4
  <2>3. UNCHANGED <<pc, heap>>
    BY <2>1 DEF GdbEnds
  <2> QED
    BY ONLY <2>1, <2>2, <2>3, GdbEndKeepsJob, TypeOK, JobInv, p \in Proc DEF TypeOK, DumpOf
<1> QED
  BY ONLY Next, <1>1, <1>2, <1>3, <1>4, <1>5, <1>6, <1>7, <1>8, <1>9, <1>10, <1>11, <1>12,
          <1>13, <1>14, <1>15, <1>16
     DEF Next, Client, ProcessStep, GdbStep

(* A dump keeps its path until it returns, and its gdb until that ends. *)
LEMMA JobInvStep == ASSUME TypeOK, JobInv, ForkInv, Next PROVE JobInv'
<1> USE CrashAssumption, Processes
<1> USE DEF TypeOK, JobInv, Dumping, DumpOf, NoJob, Goto, StartDump, EndDump, App, Base, MayWrite
<1>1. ASSUME NEW t \in Thread, Crash(t) PROVE JobInv'
  BY <1>1 DEF Crash, CutOff, Alive
<1>2. ASSUME NEW t \in Thread, NEW f \in UserFile, CallStackdump(t, f) PROVE JobInv'
  BY <1>2 DEF CallStackdump
<1>3. ASSUME NEW f \in UserFile \cup TempFile, CallBt(f) PROVE JobInv'
  BY <1>3 DEF CallBt
<1>4. ASSUME BtShow PROVE JobInv'
  BY <1>4 DEF BtShow
<1>5. ASSUME AppExit PROVE JobInv'
  BY <1>5 DEF AppExit, Exit, CutOff
<1>6. ASSUME NEW p \in Proc, DumpFork(p) PROVE JobInv'
  BY <1>6 DEF DumpFork
<1>7. ASSUME NEW p \in Proc, DumpForkFails(p) \/ DumpDone(p) PROVE JobInv'
  BY <1>7 DEF DumpForkFails, DumpDone, ReturnFromDump
<1>8. ASSUME NEW p \in Proc,
             DumpWaited(p) \/ Fallback(p) \/ FallbackWrites(p) \/ FallbackFails(p)
      PROVE  JobInv'
  BY <1>8 DEF DumpWaited, Fallback, FallbackWrites, FallbackFails
<1>9. ASSUME NEW p \in Proc, HandlerFork(p) PROVE JobInv'
  <2>1. pc[Child(p)] = "none" /\ Child(p) \in Proc /\ Child(p) # p
    BY <1>9 DEF HandlerFork, HandlerForkTo, ForkInv
  <2> QED
    BY <1>9, <2>1 DEF HandlerFork, HandlerForkTo
<1>10. ASSUME NEW p \in Proc, HandlerForkFails(p) \/ HandlerWaited(p) PROVE JobInv'
  BY <1>10 DEF HandlerForkFails, HandlerWaited, Exit, CutOff
<1>11. ASSUME NEW p \in Proc, ChildCrashes(p) PROVE JobInv'
  BY <1>11 DEF ChildCrashes, CutOff
<1>12. ASSUME NEW p \in Proc, GdbOpen(p) \/ GdbOpenFails(p) PROVE JobInv'
  BY <1>12 DEF GdbOpen, GdbOpenFails, Waited
<1>13. ASSUME NEW p \in Proc, GdbReports(p) \/ GdbReportsElsewhere(p) \/ GdbFails(p)
       PROVE  JobInv'
  <2>1. \E how \in {"ok", "failed"} : GdbEnds(p, how)
    BY <1>13 DEF GdbReports, GdbReportsElsewhere, GdbFails
  <2> QED
    BY ONLY <2>1, GdbEndKeepsJob, TypeOK, JobInv, p \in Proc
<1> QED
  BY ONLY Next, <1>1, <1>2, <1>3, <1>4, <1>5, <1>6, <1>7, <1>8, <1>9, <1>10, <1>11, <1>12,
          <1>13
     DEF Next, Client, ProcessStep, GdbStep

(* A child exists only while its handler waits for it, and after. *)
LEMMA ForkInvStep == ASSUME TypeOK, ForkInv, Next PROVE ForkInv'
<1> USE CrashAssumption, Processes
<1> USE DEF TypeOK, ForkInv, Goto, App
<1>1. ASSUME NEW t \in Thread, Crash(t) PROVE ForkInv'
  <2>1. \A p \in Proc : pc'[p] = IF p = <<t, 0>> THEN "fork" ELSE pc[p]
    BY <1>1 DEF Crash, CutOff
  <2>2. pc[<<t, 0>>] \notin {"none", "wait_child", "dead"}
    BY <1>1 DEF Crash, Alive, InHandler
  <2> QED
    BY <2>1, <2>2
<1>2. ASSUME NEW P \in SUBSET Proc, CutOff(P, "dead"),
             \A p \in Proc : Child(p) \in P => pc[Child(p)] # "none"
      PROVE  ForkInv'
  BY <1>2 DEF CutOff
<1>3. ASSUME AppExit PROVE ForkInv'
  BY <1>2, <1>3 DEF AppExit, Exit
<1>4. ASSUME NEW p \in Proc, HandlerForkFails(p) \/ HandlerWaited(p) PROVE ForkInv'
  BY <1>2, <1>4 DEF HandlerForkFails, HandlerWaited, Exit
<1>5. ASSUME NEW p \in Proc, ChildCrashes(p) PROVE ForkInv'
  <2>1. CASE CutOff({p}, "fork")
    <3>1. pc' = [pc EXCEPT ![p] = "fork"] /\ pc[p] \in {"fallback", "trace", "success", "failure"}
      <4>1. pc' = [q \in Proc |-> IF q \in {p} THEN "fork" ELSE pc[q]]
        BY <2>1 DEF CutOff
      <4>2. pc[p] \in {"fallback", "trace", "success", "failure"} /\ DOMAIN pc = Proc
        BY <1>5, <2>1 DEF ChildCrashes
      <4> QED
        BY <4>1, <4>2
    <3> QED
      BY <3>1
  <2>2. CASE CutOff({p}, "dead")
    BY <1>2, <1>5, <2>2 DEF ChildCrashes
  <2> QED
    BY <1>5, <2>1, <2>2 DEF ChildCrashes
<1>6. ASSUME NEW p \in Proc, HandlerFork(p) PROVE ForkInv'
  <2>1. /\ pc' = [pc EXCEPT ![p] = "wait_child", ![Child(p)] = "dump"]
        /\ pc[Child(p)] = "none" /\ Child(p) \in Proc /\ Child(p) # p
        /\ pc[p] = "fork"
    BY <1>6 DEF HandlerFork, HandlerForkTo
  <2>2. \A q \in Proc : pc[q] \in {"wait_child", "dead"} => pc'[q] = pc[q]
    BY <2>1
  <2>3. \A q \in Proc : pc'[q] # "none" => pc[q] # "none" \/ q = Child(p)
    BY <2>1
  <2> QED
    BY <2>1, <2>2, <2>3
<1>7. ASSUME NEW p \in Proc, UNCHANGED pc \/ \E where : Goto(p, pc[p], where),
             pc[p] \notin {"none", "wait_child", "dead"}
      PROVE  ForkInv'
  BY <1>7
<1>8. ASSUME NEW p \in Proc, DumpForkFails(p) \/ DumpDone(p) PROVE ForkInv'
  BY <1>7, <1>8 DEF DumpForkFails, DumpDone, ReturnFromDump
<1>9. ASSUME NEW p \in Proc, DumpFork(p) \/ DumpWaited(p) \/ Fallback(p) \/ FallbackWrites(p)
                              \/ FallbackFails(p)
      PROVE  ForkInv'
  BY <1>7, <1>9 DEF DumpFork, DumpWaited, Fallback, FallbackWrites, FallbackFails
<1>10. ASSUME NEW t \in Thread, NEW f, CallStackdump(t, f) \/ CallBt(f) \/ BtShow PROVE ForkInv'
  BY <1>7, <1>10 DEF CallStackdump, CallBt, BtShow
<1>11. ASSUME NEW p \in Proc, GdbStep(p) PROVE ForkInv'
  BY <1>11 DEF GdbStep, GdbOpen, GdbOpenFails, GdbReports, GdbReportsElsewhere, GdbFails,
                GdbEnds
<1> QED
  BY ONLY Next, CrashAssumption, <1>1, <1>3, <1>4, <1>5, <1>6, <1>8, <1>9, <1>10, <1>11
     DEF Next, Client, ProcessStep

-----------------------------------------------------------------------------
(* Whatever is due stays settled or owed when dumps stop to owe only paths  *)
(* (in B) that are settled or no longer due.                                *)
LEMMA DebtKept ==
    ASSUME DueInv, NEW B,
           \A b \in due' : \/ b \in due \ B /\ files'[b] = files[b]
                          \/ Settled(files'[b])
                          \/ \E p \in Proc : job'[p].base = b /\ Owes(p)',
           \A p \in Proc : Owes(p) =>
               DumpOf(p) \in B \/ (Owes(p)' /\ job'[p].base = job[p].base)
    PROVE  DueInv'
<1> SUFFICES ASSUME NEW b \in due', ~Settled(files'[b])
             PROVE  \E p \in Proc : job'[p].base = b /\ Owes(p)'
  BY DEF DueInv, DumpOf
<1>1. CASE b \in due \ B /\ files'[b] = files[b]
  <2>1. PICK p \in Proc : DumpOf(p) = b /\ Owes(p)
    BY <1>1 DEF DueInv
  <2> QED
    BY <1>1, <2>1 DEF DumpOf
<1> QED
  BY <1>1

LEMMA DebtUnchanged ==
    ASSUME DueInv, due' \subseteq due,
           \A b \in due' : \/ files'[b] = files[b]
                          \/ \E p \in Proc : job'[p].base = b /\ Owes(p)',
           \A p \in Proc : Owes(p) => Owes(p)' /\ job'[p].base = job[p].base
    PROVE  DueInv'
<1>1. \A b \in due' : \/ b \in due \ {} /\ files'[b] = files[b]
                     \/ Settled(files'[b])
                     \/ \E p \in Proc : job'[p].base = b /\ Owes(p)'
  OBVIOUS
<1>2. \A p \in Proc : Owes(p) => DumpOf(p) \in {} \/ (Owes(p)' /\ job'[p].base = job[p].base)
  OBVIOUS
<1> QED
  BY ONLY <1>1, <1>2, DueInv, DebtKept

(* Whoever is cut off without a gdb that has his file loses it. *)
LEMMA DebtCutOff ==
    ASSUME TypeOK, JobInv, DueInv, NEW P \in SUBSET Proc, NEW where, CutOff(P, where)
    PROVE  DueInv'
<1> DEFINE B == {DumpOf(p) : p \in {q \in P : ~MayWrite(q)}}
<1>1. files' = files /\ \A b \in due' : b \in due \ B \/ Settled(files'[b])
  BY DEF CutOff, Lose
<1>2. ASSUME NEW p \in Proc, Owes(p), DumpOf(p) \notin B
      PROVE  Owes(p)' /\ job'[p].base = job[p].base
  <2>1. CASE p \notin P
    BY <1>2, <2>1 DEF CutOff, Owes, TypeOK
  <2>2. CASE p \in P
    <3>1. MayWrite(p)
      BY <1>2, <2>2
    <3> QED
      BY <2>2, <3>1 DEF CutOff, Owes, MayWrite
  <2> QED
    BY <2>1, <2>2
<1> HIDE DEF B
<1> QED
  BY <1>1, <1>2, DebtKept

(* A call: the path becomes due, and the caller owes it. *)
LEMMA DebtStarted ==
    ASSUME TypeOK, JobInv, DueInv, NEW p \in Proc, NEW base, NEW after, StartDump(p, base, after),
           pc[p] \in {"none", "running"}, pc'[p] = "dump", gdb' = gdb,
           \A q \in Proc : Owes(q) => pc'[q] = pc[q]
    PROVE  DueInv'
<1>1. ~Owes(p)
  BY DEF Owes, JobInv, NoJob
<1>2. Owes(p)' /\ job'[p].base = base
  BY DEF Owes, StartDump, TypeOK
<1>3. \A q \in Proc : Owes(q) => Owes(q)' /\ job'[q].base = job[q].base
  BY <1>1 DEF Owes, StartDump, TypeOK
<1>4. \A b \in due' : b = base \/ (b \in due /\ files'[b] = files[b])
  BY DEF StartDump, TypeOK
<1> QED
  BY <1>2, <1>3, <1>4, DebtKept

LEMMA DueInvStep == ASSUME TypeOK, JobInv, ForkInv, DueInv, Next PROVE DueInv'
<1> USE CrashAssumption, Processes
<1> USE DEF TypeOK, Owes, DumpOf, Goto, App
<1>1. ASSUME NEW t \in Thread, Crash(t) PROVE DueInv'
  BY <1>1, DebtCutOff DEF Crash
<1>2. ASSUME AppExit PROVE DueInv'
  BY <1>2, DebtCutOff DEF AppExit, Exit
<1>3. ASSUME NEW p \in Proc, HandlerForkFails(p) \/ HandlerWaited(p) \/ ChildCrashes(p)
      PROVE  DueInv'
  BY <1>3, DebtCutOff DEF HandlerForkFails, HandlerWaited, ChildCrashes, Exit
<1>4. ASSUME NEW t \in Thread, NEW f \in UserFile, CallStackdump(t, f) PROVE DueInv'
  <2>1. \A q \in Proc : pc'[q] = IF q = <<t, 0>> THEN "dump" ELSE pc[q]
    BY <1>4 DEF CallStackdump
  <2>2. pc[<<t, 0>>] = "running" /\ <<t, 0>> \in Proc /\ ~Owes(<<t, 0>>)
    BY <1>4 DEF CallStackdump, JobInv, NoJob
  <2> QED
    BY <1>4, <2>1, <2>2, DebtStarted DEF CallStackdump
<1>5. ASSUME NEW f \in UserFile \cup TempFile, CallBt(f) PROVE DueInv'
  <2>1. \A q \in Proc : pc'[q] = IF q = <<Console, 0>> THEN "dump" ELSE pc[q]
    BY <1>5 DEF CallBt
  <2>2. pc[<<Console, 0>>] = "running" /\ <<Console, 0>> \in Proc /\ ~Owes(<<Console, 0>>)
    BY <1>5 DEF CallBt, JobInv, NoJob
  <2> QED
    BY <1>5, <2>1, <2>2, DebtStarted DEF CallBt
<1>6. ASSUME NEW p \in Proc, HandlerFork(p) PROVE DueInv'
  <2>1. pc[Child(p)] = "none" /\ Child(p) \in Proc /\ Child(p) # p /\ pc[p] = "fork"
    BY <1>6 DEF HandlerFork, HandlerForkTo, ForkInv
  <2>2. StartDump(Child(p), CrashFile, "exit") /\ gdb' = gdb /\ pc'[Child(p)] = "dump"
    BY <1>6, <2>1 DEF HandlerFork, HandlerForkTo
  <2>3. \A q \in Proc : q # p /\ q # Child(p) => pc'[q] = pc[q]
    BY <1>6, <2>1 DEF HandlerFork, HandlerForkTo
  <2>4. \A q \in Proc : Owes(q) => Owes(q)' /\ job'[q].base = job[q].base
    <3>1. ~Owes(Child(p))
      BY <2>1 DEF JobInv, NoJob
    <3>2. pc'[p] = "wait_child"
      BY <1>6, <2>1 DEF HandlerFork, HandlerForkTo
    <3> QED
      BY <2>1, <2>2, <2>3, <3>1, <3>2 DEF StartDump
  <2>5. \A b \in due' : b = CrashFile \/ (b \in due /\ files'[b] = files[b])
    BY <2>2 DEF StartDump
  <2>6. Owes(Child(p))' /\ job'[Child(p)].base = CrashFile
    BY <2>1, <2>2 DEF StartDump
  <2> QED
    BY <2>1, <2>4, <2>5, <2>6, DebtKept
<1>7. ASSUME BtShow PROVE DueInv'
  <2>1. \A p \in Proc : Owes(p) => Owes(p)' /\ job'[p].base = job[p].base
    BY <1>7 DEF BtShow, EndDump, JobInv
  <2>2. \A b \in due' : b \in due /\ files'[b] = files[b]
    BY <1>7 DEF BtShow
  <2> QED
    BY <2>1, <2>2, DebtKept
<1>8. ASSUME NEW p \in Proc, DumpFork(p) \/ DumpWaited(p) \/ DumpDone(p) \/ GdbOpen(p)
      PROVE  DueInv'
  <2>1. \A q \in Proc : Owes(q) => Owes(q)' /\ job'[q].base = job[q].base
    BY <1>8 DEF DumpFork, DumpWaited, DumpDone, GdbOpen, ReturnFromDump, JobInv
  <2>2. \A b \in due' : b \in due /\ (files'[b] = files[b] \/ (Owes(p)' /\ job'[p].base = b))
    BY <1>8 DEF DumpFork, DumpWaited, DumpDone, GdbOpen
  <2> QED
    BY ONLY <2>1, <2>2, p \in Proc, DueInv, DebtUnchanged
<1>9. ASSUME NEW p \in Proc, DumpForkFails(p) \/ FallbackFails(p) PROVE DueInv'
  <2>1. \A q \in Proc : Owes(q) =>
           DumpOf(q) \in {DumpOf(p)} \/ (Owes(q)' /\ job'[q].base = job[q].base)
    BY <1>9 DEF DumpForkFails, FallbackFails, ReturnFromDump
  <2>2. files' = files /\ Lose({DumpOf(p)})
    BY <1>9 DEF DumpForkFails, FallbackFails
  <2> QED
    BY ONLY <2>1, <2>2, DueInv, DebtKept DEF Lose
<1>10. ASSUME NEW p \in Proc, Fallback(p) \/ FallbackWrites(p) PROVE DueInv'
  <2>1. \A q \in Proc : Owes(q) => (Owes(q)' \/ q = p) /\ job'[q].base = job[q].base
    BY <1>10 DEF Fallback, FallbackWrites
  <2>2. Owes(p)' \/ Settled(files'[DumpOf(p)])
    BY <1>10 DEF Fallback, FallbackWrites, Settled, JobInv, Dumping
  <2>3. \A b \in due' : b = DumpOf(p) \/ (b \in due /\ files'[b] = files[b])
    BY <1>10 DEF Fallback, FallbackWrites
  <2>4. job'[p].base = DumpOf(p)
    BY <1>10 DEF Fallback, FallbackWrites
  <2>5. \A b \in due' : \/ b \in due \ {DumpOf(p)} /\ files'[b] = files[b]
                       \/ Settled(files'[b])
                       \/ \E q \in Proc : job'[q].base = b /\ Owes(q)'
    BY ONLY <2>2, <2>3, <2>4, p \in Proc
  <2>6. \A q \in Proc : Owes(q) =>
           DumpOf(q) \in {DumpOf(p)} \/ (Owes(q)' /\ job'[q].base = job[q].base)
    BY ONLY <2>1
  <2> QED
    BY ONLY <2>5, <2>6, DueInv, DebtKept
<1>11. ASSUME NEW p \in Proc, GdbOpenFails(p) PROVE DueInv'
  <2>1. \A q \in Proc : Owes(q) /\ q # p => Owes(q)' /\ job'[q].base = job[q].base
    BY <1>11 DEF GdbOpenFails, EndDump
  <2>2. files' = files
    BY <1>11 DEF GdbOpenFails
  <2>3. CASE Waited(p)
    <3>1. Owes(p)' /\ job' = job /\ due' = due
      BY <1>11, <2>3 DEF GdbOpenFails, Waited
    <3>2. \A q \in Proc : Owes(q) => Owes(q)' /\ job'[q].base = job[q].base
      BY ONLY <2>1, <3>1
    <3> QED
      BY ONLY <2>2, <3>1, <3>2, DueInv, DebtUnchanged
  <2>4. CASE ~Waited(p)
    <3>1. Lose({DumpOf(p)})
      BY <1>11, <2>4 DEF GdbOpenFails
    <3> QED
      BY ONLY <2>1, <2>2, <3>1, DueInv, DebtKept DEF Lose, DumpOf
  <2> QED
    BY <2>3, <2>4
<1>12. ASSUME NEW p \in Proc, NEW how, GdbEnds(p, how), NEW q \in Proc, Owes(q), q # p
       PROVE  Owes(q)' /\ job'[q].base = job[q].base
  BY <1>12 DEF GdbEnds, EndDump
<1>13. ASSUME NEW p \in Proc, GdbReports(p) PROVE DueInv'
  <2>1. \A q \in Proc : Owes(q) =>
           DumpOf(q) \in {DumpOf(p)} \/ (Owes(q)' /\ job'[q].base = job[q].base)
    BY <1>12, <1>13 DEF GdbReports
  <2>2. DumpOf(p) \in Base /\ Settled(files'[DumpOf(p)])
    BY <1>13 DEF GdbReports, Settled
  <2>3. \A b \in due' : b = DumpOf(p) \/ (b \in due /\ files'[b] = files[b])
    BY <1>13 DEF GdbReports
  <2>4. \A b \in due' :
          (b \in due \ {DumpOf(p)} /\ files'[b] = files[b]) \/ Settled(files'[b])
    BY ONLY <2>2, <2>3
  <2> QED
    BY ONLY <2>1, <2>4, DueInv, DebtKept
<1>14. ASSUME NEW p \in Proc, GdbReportsElsewhere(p) PROVE DueInv'
  <2>1. \A q \in Proc : Owes(q) =>
           DumpOf(q) \in {DumpOf(p)} \/ (Owes(q)' /\ job'[q].base = job[q].base)
    BY <1>12, <1>14 DEF GdbReportsElsewhere
  <2>2. Lose({DumpOf(p)}) /\ \A b \in Base : b # DumpOf(p) => files'[b] = files[b]
    BY <1>14 DEF GdbReportsElsewhere
  <2>3. \A b \in due' :
          (b \in due \ {DumpOf(p)} /\ files'[b] = files[b]) \/ Settled(files'[b])
    BY <2>2 DEF Lose
  <2> QED
    BY ONLY <2>1, <2>3, DueInv, DebtKept
<1>15. ASSUME NEW p \in Proc, GdbFails(p) PROVE DueInv'
  <2>1. files' = files
    BY <1>15 DEF GdbFails
  <2>2. \A q \in Proc : Owes(q) /\ q # p => Owes(q)' /\ job'[q].base = job[q].base
    BY <1>12, <1>15 DEF GdbFails
  <2>3. CASE Waited(p)
    <3>1. Owes(p)' /\ job' = job /\ due' = due
      BY <1>15, <2>3 DEF GdbFails, GdbEnds, Waited
    <3>2. \A q \in Proc : Owes(q) => Owes(q)' /\ job'[q].base = job[q].base
      BY ONLY <2>2, <3>1
    <3> QED
      BY ONLY <2>1, <3>1, <3>2, DueInv, DebtUnchanged
  <2>4. CASE ~Waited(p)
    <3>1. Lose({DumpOf(p)})
      BY <1>15, <2>4 DEF GdbFails
    <3> QED
      BY ONLY <2>1, <2>2, <3>1, DueInv, DebtKept DEF Lose, DumpOf
  <2> QED
    BY <2>3, <2>4
<1> QED
  BY ONLY Next, <1>1, <1>2, <1>3, <1>4, <1>5, <1>6, <1>7, <1>8, <1>9, <1>10, <1>11,
          <1>13, <1>14, <1>15
     DEF Next, Client, ProcessStep, GdbStep

(***************************************************************************)
(* The theorems.                                                           *)
(***************************************************************************)
(* The inductive invariant holds in every reachable state. *)
THEOREM Invariance == Spec => []IInv
<1>1. Init => IInv
  <2> SUFFICES ASSUME Init PROVE IInv
    OBVIOUS
  <2> USE CrashAssumption DEF Init, NoJob, NoFiles, DumpOf
  <2>1. TypeOK
    BY DEF TypeOK
  <2>2. JobInv
    BY DEF JobInv, Dumping
  <2>3. ForkInv
    BY Processes DEF ForkInv
  <2>4. DueInv
    BY DEF DueInv
  <2> QED
    BY <2>1, <2>2, <2>3, <2>4 DEF IInv
<1>2. IInv /\ [Next]_vars => IInv'
  <2> SUFFICES ASSUME IInv, [Next]_vars PROVE IInv'
    OBVIOUS
  <2>1. CASE Next
    BY <2>1, TypeOKStep, JobInvStep, ForkInvStep, DueInvStep DEF IInv
  <2>2. CASE UNCHANGED vars
    BY <2>2 DEF vars, IInv, TypeOK, JobInv, ForkInv, DueInv, DumpOf, Owes
  <2> QED
    BY <2>1, <2>2
<1> QED
  BY <1>1, <1>2, PTL DEF Spec

(* Every variable keeps its type; in particular no gdb of a dump without a  *)
(* path, whatever crashes in whatever dump.                                 *)
THEOREM TypeCorrect == Spec => []TypeOK
<1>1. IInv => TypeOK
  BY DEF IInv
<1> QED
  BY <1>1, Invariance, PTL

(* A path whose last dump is over has the dump it was last asked for, but   *)
(* for calls that were lost.                                                *)
THEOREM DumpsLeaveATrace == Spec => []DumpOrTrace
<1>1. IInv => DumpOrTrace
  <2> SUFFICES ASSUME IInv, NEW b \in due, \A p \in Proc : DumpOf(p) # b
               PROVE  Settled(files[b])
    BY DEF DumpOrTrace
  <2> QED
    BY DEF IInv, DueInv
<1> QED
  BY <1>1, Invariance, PTL
=============================================================================
