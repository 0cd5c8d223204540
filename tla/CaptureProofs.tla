---------------------------- MODULE CaptureProofs ---------------------------
(***************************************************************************)
(* Proofs about BoundedCapture, for any limits, chunk size, earlier files, *)
(* output, descendants and signals.                                        *)
(***************************************************************************)
EXTENDS CaptureInvariant, TLAPS

\* Nothing is open, written or started at first.
LEMMA InitIInv == Init => IInv
<1> SUFFICES ASSUME Init PROVE IInv
  OBVIOUS
<1> USE GroupAssumption, CaptureAssumption DEF Init, GroupInit, Streams, StopReasons
<1>1. TypeOK
  BY DEF TypeOK, GroupTypeOK, Procs
<1>2. LeaderAccounted /\ StopAccounted /\ ExitMeansComplete
  BY DEF LeaderAccounted, StopAccounted, ExitMeansComplete, Reports, Running
<1>3. FilesAccounted
  BY DEF FilesAccounted, Running
<1>4. BytesAccounted
  BY DEF BytesAccounted, LimitOutcome
<1> QED BY <1>1, <1>2, <1>3, <1>4 DEF IInv

\* Opening the files and starting the child.
LEMMA OpeningIInv ==
  ASSUME IInv, OpenCaptures \/ OpenFails \/ Prepare \/ Spawn \/ SpawnFails
  PROVE  IInv'
<1> USE GroupAssumption, CaptureAssumption
    DEF IInv, TypeOK, GroupTypeOK, LeaderAccounted, FilesAccounted, BytesAccounted,
        StopAccounted, ExitMeansComplete, Running, Reports, AtEof, Streams, LimitOutcome,
        StopReasons, Outcomes, Procs
<1>1. CASE OpenCaptures
  BY <1>1 DEF OpenCaptures, Opens, Created, group
<1>2. CASE OpenFails
  BY <1>2 DEF OpenFails, Go, Created, group
<1>3. CASE Prepare
  <2>1. CASE received_signal = None
    BY <1>3, <2>1 DEF Prepare, Go, Outside, group, plumbing
  <2>2. CASE received_signal # None
    BY <1>3, <2>2 DEF Prepare, Finish, Outside, group, plumbing
  <2> QED BY <2>1, <2>2
<1>4. CASE Spawn
  BY <1>4 DEF Spawn, SpawnGroup
<1>5. CASE SpawnFails
  BY <1>5 DEF SpawnFails, Finish, Outside, group, plumbing
<1> QED BY <1>1, <1>2, <1>3, <1>4, <1>5

\* The reading loop; ReadChunk is where the bytes are accounted for.
LEMMA RoundIInv ==
  ASSUME IInv,
         \/ Stop \/ Select
         \/ \E s \in Streams : ReadEof(s) \/ ReadChunk(s)
         \/ PollStops \/ PollContinues \/ PollEnded
  PROVE  IInv'
<1> USE GroupAssumption, CaptureAssumption
    DEF IInv, TypeOK, GroupTypeOK, LeaderAccounted, FilesAccounted, BytesAccounted,
        StopAccounted, ExitMeansComplete, Running, Reports, AtEof, Streams, LimitOutcome,
        StopReasons, Outcomes, Procs
<1>1. CASE Stop
  BY <1>1 DEF Stop, StopDue, Outside, group, plumbing
<1>2. CASE Select
  BY <1>2 DEF Select, Ready, StopDue, Outside, group, plumbing
<1>3. ASSUME NEW s \in Streams, ReadEof(s)
      PROVE  IInv'
  BY <1>3 DEF ReadEof, Outside, group, plumbing
<1>4. ASSUME NEW s \in Streams, ReadChunk(s)
      PROVE  IInv'
  <2>1. /\ initial[s] \in Nat /\ written[s] \in Nat /\ Limit[s] \in Nat /\ file[s] \in Nat
        /\ Chunk(s) \in 1..pipe[s] /\ Available(s) \in Nat
        /\ stop_reason = None
    BY <1>4 DEF ReadChunk, Chunk, Available
  <2>2. /\ Take(s) \in 0..Chunk(s) /\ Take(s) <= Available(s)
        /\ Chunk(s) <= Available(s) => Take(s) = Chunk(s)
        /\ Chunk(s) > Available(s) => Take(s) = Available(s)
    BY <2>1 DEF Take
  <2>3. PICK k \in OnDisk(Take(s)) : file' = [file EXCEPT ![s] = @ + k]
    BY <1>4 DEF ReadChunk
  <2>4. k \in 0..Take(s)
    BY <2>2, <2>3 DEF OnDisk
  <2>5. /\ file'[s] \in Nat /\ file'[s] <= initial[s] + written'[s]
        /\ written'[s] = written[s] + Take(s)
        /\ initial[s] + written'[s] <= Limit[s]
        /\ pipe'[s] = pipe[s] - Chunk(s)
    BY <1>4, <2>1, <2>2, <2>3, <2>4 DEF ReadChunk, Available
  <2>6. TypeOK'
    <3>1. /\ written' \in [Streams -> Nat] /\ pipe' \in [Streams -> Nat]
          /\ file' \in [Streams -> Nat \cup {None}]
      BY <1>4, <2>1, <2>2, <2>3, <2>4 DEF ReadChunk
    <3>2. stop_reason' \in {None, "stdout_limit", "stderr_limit"} /\ events' \subseteq registered
      <4>1. CASE Chunk(s) > Available(s)
        BY <1>4, <4>1 DEF ReadChunk
      <4>2. CASE ~(Chunk(s) > Available(s))
        BY <1>4, <2>1, <4>2 DEF ReadChunk
      <4> QED BY <4>1, <4>2
    <3> QED BY <1>4, <3>1, <3>2 DEF ReadChunk, group
  <2>7. LeaderAccounted' /\ StopAccounted' /\ ExitMeansComplete'
    BY <1>4 DEF ReadChunk, group
  <2>8. FilesAccounted'
    BY <1>4, <2>1, <2>3, <2>5 DEF ReadChunk
  <2>9. BytesAccounted'
    <3>1. CASE Chunk(s) > Available(s)
      <4>1. /\ stop_reason' = LimitOutcome[s]
            /\ initial[s] + written'[s] = Limit[s] /\ initial[s] + produced[s] > Limit[s]
        BY <1>4, <2>1, <2>2, <2>5, <3>1 DEF ReadChunk, Available
      <4> QED BY <1>4, <2>1, <4>1 DEF ReadChunk, group
    <3>2. CASE Chunk(s) <= Available(s)
      <4>1. stop_reason' = None /\ produced[s] = written'[s] + pipe'[s]
        BY <1>4, <2>1, <2>2, <2>5, <3>2 DEF ReadChunk
      <4> QED BY <1>4, <2>1, <4>1 DEF ReadChunk, group
    <3> QED BY <2>1, <3>1, <3>2
  <2> QED BY <2>6, <2>7, <2>8, <2>9
<1>5. CASE PollStops
  BY <1>5 DEF PollStops, Go, Outside, group, plumbing
<1>6. CASE PollContinues
  BY <1>6 DEF PollContinues, CapturedAll, Go, Outside, group, plumbing
<1>7. CASE PollEnded
  BY <1>7 DEF PollEnded, CapturedAll, LeaderEnded, Finish, Outside, group, plumbing
<1> QED BY <1>1, <1>2, <1>3, <1>4, <1>5, <1>6, <1>7

\* Failure, termination and the report.
LEMMA StoppingIInv ==
  ASSUME IInv,
         LoopFails \/ Term \/ GraceExpires \/ Stopped \/ WriteResult \/ WriteResultFails
  PROVE  IInv'
<1> USE GroupAssumption, CaptureAssumption
    DEF IInv, TypeOK, GroupTypeOK, LeaderAccounted, FilesAccounted, BytesAccounted,
        StopAccounted, ExitMeansComplete, Running, Reports, AtEof, Streams, LimitOutcome,
        StopReasons, Outcomes, Procs
<1>1. CASE LoopFails
  <2>1. CASE LeaderEnded
    BY <1>1, <2>1 DEF LoopFails, LeaderEnded, Finish, Outside, group, plumbing
  <2>2. CASE ~LeaderEnded
    <3>1. /\ pc \in {"loop", "round"} /\ pc' = "term" /\ events' = {}
          /\ stop_reason' = "wrapper_error"
          /\ UNCHANGED <<append, initial, written, registered, received_signal, result, saved>>
          /\ UNCHANGED <<started, alive, stubborn, termed, killed, returncode>>
          /\ UNCHANGED <<file, writers, produced, pipe, expired>>
      BY <1>1, <2>2 DEF LoopFails, Outside, group, plumbing
    <3> QED BY <3>1
  <2> QED BY <2>1, <2>2
<1>2. CASE Term
  BY <1>2 DEF Term, TermGroup, Go, plumbing
<1>3. CASE GraceExpires
  BY <1>3 DEF GraceExpires, KillGroup, Go, plumbing
<1>4. CASE Stopped
  BY <1>4 DEF Stopped, LeaderEnded, Finish, Outside, group, plumbing
<1>5. CASE WriteResult
  BY <1>5 DEF WriteResult, Outside, group, plumbing
<1>6. CASE WriteResultFails
  BY <1>6 DEF WriteResultFails, Outside, group, plumbing
<1> QED BY <1>1, <1>2, <1>3, <1>4, <1>5, <1>6

\* Signals, time and the processes.
LEMMA OutsideIInv ==
  ASSUME IInv, DeadlinePasses \/ Processes \/ \E n \in Signals : Signal(n)
  PROVE  IInv'
<1> USE GroupAssumption, CaptureAssumption
    DEF IInv, TypeOK, GroupTypeOK, LeaderAccounted, FilesAccounted, BytesAccounted,
        StopAccounted, ExitMeansComplete, Running, Reports, AtEof, Streams, LimitOutcome,
        StopReasons, Outcomes, Procs
<1>1. CASE DeadlinePasses
  BY <1>1 DEF DeadlinePasses, group, wrapper, plumbing
<1>2. ASSUME NEW n \in Signals, Signal(n)
      PROVE  IInv'
  BY <1>2 DEF Signal, Outside, group, plumbing
<1>3. ASSUME NEW p \in Procs, NEW s \in Streams, Emit(p, s)
      PROVE  IInv'
  BY <1>3 DEF Emit, group, wrapper
<1>4. ASSUME NEW p \in Procs, NEW s \in Streams, CloseStream(p, s)
      PROVE  IInv'
  BY <1>4 DEF CloseStream, group, wrapper
<1>5. ASSUME NEW p \in Procs, NEW d \in Descendants, ForkWithStreams(p, d)
      PROVE  IInv'
  <2>1. \A s \in Streams : writers[s] \cap alive = {} => writers'[s] \cap alive' = {}
    BY <1>5 DEF ForkWithStreams, Fork
  <2>2. TypeOK' /\ LeaderAccounted' /\ FilesAccounted' /\ StopAccounted'
    BY <1>5 DEF ForkWithStreams, Fork, wrapper
  <2>3. BytesAccounted' /\ ExitMeansComplete'
    BY <1>5, <2>1 DEF ForkWithStreams, Fork, wrapper
  <2> QED BY <2>2, <2>3
<1>6. CASE EndStep /\ UNCHANGED <<wrapper, plumbing, expired>>
  BY <1>6 DEF EndStep, Exits, Obeys, Dies, End, ReturnCodes, SIGTERM, SIGKILL, wrapper, plumbing
<1> QED BY <1>1, <1>2, <1>3, <1>4, <1>5, <1>6 DEF Processes

\* Every step preserves the invariant, ...
LEMMA NextIInv == IInv /\ [Next]_vars => IInv'
<1>1. ASSUME IInv, UNCHANGED vars PROVE IInv'
  BY <1>1
  DEF vars, group, wrapper, plumbing, IInv, TypeOK, GroupTypeOK, LeaderAccounted,
      FilesAccounted, BytesAccounted, StopAccounted, ExitMeansComplete, Reports, AtEof
<1> QED
  BY <1>1, OpeningIInv, RoundIInv, StoppingIInv, OutsideIInv DEF Next, CaptureStep, Failure

\* ... so it always holds.
LEMMA AlwaysIInv == Spec => []IInv
  BY InitIInv, NextIInv, PTL DEF Spec

-----------------------------------------------------------------------------
\* The locals of capture_command and the processes' state keep their types.
THEOREM TypeCorrect == Spec => []TypeOK
<1>1. IInv => TypeOK
  BY DEF IInv
<1> QED BY <1>1, AlwaysIInv, PTL

\* No capture file exceeds its limit, for any limit, chunk size, earlier file and
\* output of the command.
THEOREM StaysWithinLimits == Spec => []WithinLimits
<1>1. IInv => WithinLimits
  BY CaptureAssumption DEF IInv, TypeOK, FilesAccounted, WithinLimits, Streams
<1> QED BY <1>1, AlwaysIInv, PTL

\* A run reported as the child's own end lost no byte, for any interleaving of
\* writes, forks, closes and exits with the reading loop.
THEOREM LosesNothing == Spec => []ExitMeansComplete
<1>1. IInv => ExitMeansComplete
  BY DEF IInv
<1> QED BY <1>1, AlwaysIInv, PTL

\* A reported limit was exceeded and the file count stopped exactly there.
THEOREM TruncatesExactly == Spec => []LimitMeansExceeded
<1>1. IInv => LimitMeansExceeded
  BY DEF IInv, StopAccounted, BytesAccounted, LimitMeansExceeded
<1> QED BY <1>1, AlwaysIInv, PTL

\* capture_command never reports while its child runs.
THEOREM LeavesNoLeader == Spec => []LeaderNeverLeft
<1>1. IInv => LeaderNeverLeft
  BY DEF IInv, LeaderAccounted, LeaderNeverLeft
<1> QED BY <1>1, AlwaysIInv, PTL
=============================================================================
