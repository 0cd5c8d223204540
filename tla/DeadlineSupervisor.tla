------------------------- MODULE DeadlineSupervisor -------------------------
(***************************************************************************)
(* supervise of deadline_supervisor.py: one command in a process group of  *)
(* its own, a deadline, signals forwarded as SIGTERM and a bounded grace   *)
(* period before SIGKILL.  Signals and the deadline fall between any two   *)
(* steps of the loop.  The handshake pipe is part of Prepare: it is filled *)
(* and closed before anything else can happen.                             *)
(***************************************************************************)
EXTENDS ProcessGroup

CONSTANTS
  Signals,         \* the numbers of SIGINT, SIGTERM and SIGHUP
  Raised           \* supervise ended with an exception

VARIABLES
  pc,                \* where supervise is
  received_signal,   \* the first signal the handlers saw
  expired,           \* the deadline has passed
  exit_status,       \* the local of that name
  result             \* what supervise returned, or Raised

vars == <<group, pc, received_signal, expired, exit_status, result>>

ASSUME SignalsAssumption == Signals \subseteq 1..64 /\ None \notin 1..192 /\ Raised # None

TIMED_OUT == 124

Init ==
  /\ GroupInit
  /\ pc = "prepare"
  /\ received_signal = None /\ expired = FALSE
  /\ exit_status = None /\ result = None

Go(l) == pc' = l /\ UNCHANGED <<received_signal, expired, exit_status, result>>

Return(v) ==
  /\ pc' = "done" /\ result' = v
  /\ UNCHANGED <<received_signal, expired, exit_status>>

\* Handshake, then the last look at the signals before the child exists.
Prepare ==
  /\ pc = "prepare" /\ UNCHANGED group
  /\ IF received_signal # None THEN Return(128 + received_signal) ELSE Go("popen")

Spawn == pc = "popen" /\ SpawnGroup /\ Go("loop")

\* The pipe or the child cannot be made: supervise raises.
SpawnFails == pc \in {"prepare", "popen"} /\ UNCHANGED group /\ Return(Raised)

\* The head of the loop.  A mutant that only looks at the clock:
LoopStatusIgnoresSignal == IF expired THEN TIMED_OUT ELSE None

LoopStatus ==
  CASE received_signal # None -> 128 + received_signal
    [] received_signal = None /\ expired -> TIMED_OUT
    [] OTHER -> None

Loop ==
  /\ pc = "loop"
  /\ exit_status' = LoopStatus
  /\ pc' = IF LoopStatus = None THEN "wait" ELSE "term"
  /\ UNCHANGED <<group, received_signal, expired, result>>

\* child.wait in the loop: the child ended, or 0.25 s went by.
WaitReturns == pc = "wait" /\ LeaderEnded /\ UNCHANGED group /\ Return(returncode)
WaitTimesOut == pc = "wait" /\ ~LeaderEnded /\ UNCHANGED group /\ Go("loop")

\* Two mutants: kill without warning, and return without waiting.
KillAtOnce == pc = "term" /\ KillGroup /\ Go("reap")
TermAndReturn == pc = "term" /\ TermGroup /\ Return(exit_status)

Term == pc = "term" /\ TermGroup /\ Go("grace")

\* A mutant that waits on for a leader that ignores SIGTERM:
GraceExpiresSilently == pc = "grace" /\ ~LeaderEnded /\ UNCHANGED group /\ Go("reap")

GraceExpires == pc = "grace" /\ ~LeaderEnded /\ KillGroup /\ Go("reap")

\* The wait after SIGTERM, or the one after SIGKILL, returns.
Reaped == pc \in {"grace", "reap"} /\ LeaderEnded /\ UNCHANGED group /\ Return(exit_status)

\* remember_signal: the first signal counts.
Signal(s) ==
  /\ pc # "done"
  /\ received_signal' = IF received_signal = None THEN s ELSE received_signal
  /\ UNCHANGED <<group, pc, expired, exit_status, result>>

DeadlinePasses ==
  /\ pc \in {"loop", "wait"} /\ ~expired
  /\ expired' = TRUE
  /\ UNCHANGED <<group, pc, received_signal, exit_status, result>>

Processes ==
  /\ \/ \E p \in Procs, d \in Descendants : Fork(p, d)
     \/ EndStep
  /\ UNCHANGED <<pc, received_signal, expired, exit_status, result>>

SuperviseStep ==
  Prepare \/ Spawn \/ Loop \/ WaitReturns \/ WaitTimesOut \/ Term \/ GraceExpires \/ Reaped

Next ==
  \/ SuperviseStep
  \/ SpawnFails
  \/ \E s \in Signals : Signal(s)
  \/ DeadlinePasses
  \/ Processes

Spec == Init /\ [][Next]_vars

KillTakesEffect(p) ==
  Dies(p) /\ UNCHANGED <<pc, received_signal, expired, exit_status, result>>

\* The supervisor runs, time passes, SIGKILL kills.  Nothing is asked of the
\* supervised processes.
FairSpec ==
  /\ Spec
  /\ WF_vars(SuperviseStep) /\ WF_vars(DeadlinePasses)
  /\ \A p \in Procs : WF_vars(KillTakesEffect(p))

\* The locals of supervise keep their types; it has a result exactly at its end.
TypeOK ==
  /\ GroupTypeOK
  /\ pc \in {"prepare", "popen", "loop", "wait", "term", "grace", "reap", "done"}
  /\ received_signal \in Signals \cup {None} /\ expired \in BOOLEAN
  /\ exit_status \in {128 + s : s \in Signals} \cup {None, TIMED_OUT}
  /\ (result # None) <=> (pc = "done")

\* supervise returns only when the process it waits for has ended, whichever of
\* the deadline, a signal and the child's own exit came first.
LeaderNeverLeft == pc = "done" => Leader \notin alive

\* SIGKILL falls only on a run that is being stopped, whose leader was sent
\* SIGTERM before and so had its grace period for the cleanup trap.
GraceBeforeKill == killed # {} => Leader \in termed /\ exit_status # None

\* The inductive invariant behind both: the child exists from Popen on, a run is
\* stopped only with its status chosen, and SIGKILL comes after SIGTERM.
IInv ==
  /\ TypeOK /\ LeaderNeverLeft /\ GraceBeforeKill
  /\ pc \in {"prepare", "popen"} => started = {}
  /\ pc \notin {"prepare", "popen", "done"} => Leader \in started
  /\ Leader \in started => Leader \in alive \/ returncode # None
  /\ pc \in {"prepare", "popen", "loop", "wait"} => exit_status = None
  /\ pc \in {"term", "grace", "reap"} => exit_status # None
  /\ pc \notin {"reap", "done"} => killed = {}
  /\ pc \in {"grace", "reap"} => Leader \in termed \/ Leader \notin alive

\* supervise always returns, even when the child ignores SIGTERM and never ends:
\* the deadline, the grace period and SIGKILL bound it.
SuperviseEnds == <>(pc = "done")

\* A signal that arrives at any time before the child is waited for, during the
\* spawn too, stops the run and is its status (comment at line 89).
SignalForwarded ==
  \A s \in Signals :
    (pc \in {"prepare", "popen", "loop"} /\ received_signal = s)
      ~> (pc = "done" /\ result \in {128 + s, Raised})
=============================================================================
