-------------------------- MODULE SupervisorProofs --------------------------
(***************************************************************************)
(* Proofs about DeadlineSupervisor, for any descendants, return codes and  *)
(* signals.                                                                *)
(***************************************************************************)
EXTENDS DeadlineSupervisor, TLAPS

\* No process and no status at first.
LEMMA InitIInv == Init => IInv
  BY GroupAssumption
  DEF Init, GroupInit, IInv, TypeOK, GroupTypeOK, LeaderNeverLeft, GraceBeforeKill, Procs

\* Every step of supervise and of its surroundings preserves the invariant, ...
LEMMA NextIInv == IInv /\ [Next]_vars => IInv'
<1> SUFFICES ASSUME IInv, [Next]_vars PROVE IInv'
  OBVIOUS
<1> USE GroupAssumption, SignalsAssumption
    DEF IInv, TypeOK, GroupTypeOK, LeaderNeverLeft, GraceBeforeKill, Procs
<1>1. CASE Prepare
  <2>1. CASE received_signal = None
    BY <1>1, <2>1 DEF Prepare, Go, group
  <2>2. CASE received_signal # None
    BY <1>1, <2>2 DEF Prepare, Return, group
  <2> QED BY <2>1, <2>2
<1>2. CASE Spawn
  BY <1>2 DEF Spawn, SpawnGroup, Go
<1>3. CASE SpawnFails
  BY <1>3 DEF SpawnFails, Return, group
<1>4. CASE Loop
  <2>1. LoopStatus \in {128 + s : s \in Signals} \cup {None, TIMED_OUT}
    BY DEF LoopStatus
  <2> QED BY <1>4, <2>1 DEF Loop, group
<1>5. CASE WaitReturns
  BY <1>5 DEF WaitReturns, LeaderEnded, Return, group
<1>6. CASE WaitTimesOut
  BY <1>6 DEF WaitTimesOut, Go, group
<1>7. CASE Term
  BY <1>7 DEF Term, TermGroup, Go
<1>8. CASE GraceExpires
  BY <1>8 DEF GraceExpires, KillGroup, LeaderEnded, Go
<1>9. CASE Reaped
  BY <1>9 DEF Reaped, LeaderEnded, Return, group
<1>10. ASSUME NEW s \in Signals, Signal(s)
       PROVE  IInv'
  BY <1>10 DEF Signal, group
<1>11. CASE DeadlinePasses
  BY <1>11 DEF DeadlinePasses, group
<1>12. CASE Processes
  <2>1. ASSUME NEW p \in Procs, NEW d \in Descendants, Fork(p, d)
        PROVE  IInv'
    BY <1>12, <2>1 DEF Processes, Fork
  <2>2. CASE EndStep
    BY <1>12, <2>2 DEF Processes, EndStep, Exits, Obeys, Dies, End, ReturnCodes,
                       SIGTERM, SIGKILL
  <2> QED BY <1>12, <2>1, <2>2 DEF Processes
<1>13. CASE UNCHANGED vars
  BY <1>13 DEF vars, group
<1> QED
  BY <1>1, <1>2, <1>3, <1>4, <1>5, <1>6, <1>7, <1>8, <1>9, <1>10, <1>11, <1>12, <1>13
  DEF Next, SuperviseStep

\* ... so it always holds.
LEMMA AlwaysIInv == Spec => []IInv
  BY InitIInv, NextIInv, PTL DEF Spec

\* supervise never returns while the process it started runs.
THEOREM LeavesNoLeader == Spec => []LeaderNeverLeft
<1>1. IInv => LeaderNeverLeft
  BY DEF IInv
<1> QED BY <1>1, AlwaysIInv, PTL

\* SIGKILL never comes without the SIGTERM and the grace period before it.
THEOREM TermsBeforeKilling == Spec => []GraceBeforeKill
<1>1. IInv => GraceBeforeKill
  BY DEF IInv
<1> QED BY <1>1, AlwaysIInv, PTL
=============================================================================
