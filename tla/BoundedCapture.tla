--------------------------- MODULE BoundedCapture ---------------------------
(***************************************************************************)
(* capture_command of bounded_capture.py: one command in a process group,  *)
(* its stdout and stderr read from pipes into files of bounded size, under *)
(* a deadline, with signals remembered and a JSON result at the end.  The  *)
(* processes write, fork, close and end between any two steps; signals and *)
(* the deadline too.  Bytes are counted, not stored.                       *)
(***************************************************************************)
EXTENDS ProcessGroup

CONSTANTS
  Limit,              \* stdout_limit and stderr_limit
  READ_CHUNK_BYTES,
  Signals,            \* the numbers of SIGINT, SIGTERM and SIGHUP
  AppendModes,        \* values of the append argument
  OldSizes,           \* sizes of capture files that exist before
  MaxOutput           \* bound on what the group writes to one stream

Streams == {"stdout", "stderr"}

VARIABLES
  pc,                \* where capture_command is
  append,            \* its argument
  file,              \* size of each capture file on disk, None if absent
  initial,           \* size found when opened, None if not opened
  written,           \* stdout_written and stderr_written
  writers,           \* processes that hold the write end of each pipe
  produced,          \* bytes written into each pipe
  pipe,              \* bytes not yet read from it
  registered,        \* streams in the selector
  events,            \* streams of the current round still to be read
  received_signal,   \* the first signal the handlers saw
  expired,           \* the deadline has passed
  stop_reason,       \* the local of that name, or "wrapper_error"
  exit_status,       \* what capture_command returns
  result,            \* the outcome, return code and signal to report
  saved              \* the result file is written

wrapper == <<pc, append, initial, written, registered, events, received_signal,
             stop_reason, exit_status, result, saved>>
plumbing == <<file, writers, produced, pipe>>
vars == <<group, wrapper, plumbing, expired>>

StopReasons == {"interrupted", "stdout_limit", "stderr_limit", "timed_out", "wrapper_error"}
Outcomes == StopReasons \cup {"child_exit", "child_signal"}

ASSUME CaptureAssumption ==
  /\ Limit \in [Streams -> Nat] /\ READ_CHUNK_BYTES \in Nat \ {0}
  /\ AppendModes \subseteq BOOLEAN /\ Signals \subseteq 1..64
  /\ OldSizes \subseteq Nat /\ MaxOutput \in Nat
  /\ None \notin Nat \cup StopReasons

EXIT_TIMEOUT == 124
EXIT_LIMIT == 125
EXIT_WRAPPER_ERROR == 126

LimitOutcome == [stdout |-> "stdout_limit", stderr |-> "stderr_limit"]

Init ==
  /\ GroupInit
  /\ pc = "open" /\ append \in AppendModes
  /\ file \in [Streams -> OldSizes \cup {None}]
  /\ initial = [s \in Streams |-> None] /\ written = [s \in Streams |-> 0]
  /\ writers = [s \in Streams |-> {}]
  /\ produced = [s \in Streams |-> 0] /\ pipe = [s \in Streams |-> 0]
  /\ registered = {} /\ events = {}
  /\ received_signal = None /\ expired = FALSE
  /\ stop_reason = None /\ exit_status = EXIT_WRAPPER_ERROR
  /\ result = None /\ saved = FALSE

Go(l) ==
  /\ pc' = l
  /\ UNCHANGED <<append, initial, written, registered, events, received_signal,
                 stop_reason, exit_status, result, saved>>

\* The size of the file of s once open has created it.
Created(s) == IF file[s] = None THEN 0 ELSE file[s]

\* _open_capture accepts the destination of s.  A mutant forgets the size:
OpensAnySize(s) == append \/ file[s] = None

Opens(s) == IF append THEN Created(s) <= Limit[s] ELSE file[s] = None

\* Both files open; then the handlers are installed.
OpenCaptures ==
  /\ pc = "open" /\ \A s \in Streams : Opens(s)
  /\ file' = [s \in Streams |-> Created(s)]
  /\ initial' = [s \in Streams |-> Created(s)]
  /\ pc' = "prepare"
  /\ UNCHANGED <<append, written, registered, events, received_signal, stop_reason,
                 exit_status, result, saved>>
  /\ UNCHANGED <<group, writers, produced, pipe, expired>>

\* The arguments or a destination are refused, or the system fails: main prints
\* and returns 126 without a result.  Files opened before may have been created.
OpenFails ==
  /\ pc = "open"
  /\ \E made \in {{}, {"stdout"}, Streams} :
       file' = [s \in Streams |-> IF s \in made THEN Created(s) ELSE file[s]]
  /\ Go("done")
  /\ UNCHANGED <<group, writers, produced, pipe, expired>>

\* Pipes and destinations are closed and the handlers restored; the result is
\* made and yet to be written.
Finish(outcome, code, sig, status) ==
  /\ pc' = "report"
  /\ exit_status' = status
  /\ result' = [outcome |-> outcome, child_returncode |-> code, child_signal |-> sig]
  /\ registered' = {} /\ events' = {}
  /\ UNCHANGED <<append, initial, written, received_signal, stop_reason, saved>>

Outside == UNCHANGED <<group, plumbing, expired>>

\* The last look at the signals before the child exists.
Prepare ==
  /\ pc = "prepare" /\ Outside
  /\ IF received_signal # None
       THEN Finish("interrupted", None, received_signal, 128 + received_signal)
       ELSE Go("popen")

Spawn ==
  /\ pc = "popen" /\ SpawnGroup
  /\ writers' = [s \in Streams |-> {Leader}]
  /\ pc' = "loop" /\ registered' = Streams
  /\ UNCHANGED <<append, initial, written, events, received_signal, stop_reason,
                 exit_status, result, saved, file, produced, pipe, expired>>

SpawnFails ==
  pc = "popen" /\ Outside /\ Finish("wrapper_error", None, None, EXIT_WRAPPER_ERROR)

\* No process can write to s any more and everything was read.
AtEof(s) == writers[s] \cap alive = {} /\ pipe[s] = 0
Ready == {s \in registered : pipe[s] > 0 \/ AtEof(s)}

\* The head of the loop.
StopDue ==
  CASE received_signal # None -> "interrupted"
    [] received_signal = None /\ expired -> "timed_out"
    [] OTHER -> None

Stop ==
  /\ pc = "loop" /\ StopDue # None /\ Outside
  /\ stop_reason' = StopDue /\ pc' = "term"
  /\ UNCHANGED <<append, initial, written, registered, events, received_signal,
                 exit_status, result, saved>>

\* select, or the sleep when nothing is registered: 0.1 s without an event
\* leaves the round empty.
Select ==
  /\ pc = "loop" /\ StopDue = None /\ Outside
  /\ events' = Ready /\ pc' = "round"
  /\ UNCHANGED <<append, initial, written, registered, received_signal, stop_reason,
                 exit_status, result, saved>>

\* An empty read: the stream is unregistered and closed.
ReadEof(s) ==
  /\ pc = "round" /\ s \in events /\ AtEof(s) /\ Outside
  /\ registered' = registered \ {s} /\ events' = events \ {s}
  /\ UNCHANGED <<pc, append, initial, written, received_signal, stop_reason,
                 exit_status, result, saved>>

Chunk(s) == IF pipe[s] < READ_CHUNK_BYTES THEN pipe[s] ELSE READ_CHUNK_BYTES

\* The room left for s.  A mutant that ignores what an appended file held:
AvailableFresh(s) == Limit[s] - written[s]

Available(s) == Limit[s] - initial[s] - written[s]

Take(s) == IF Chunk(s) > Available(s) THEN Available(s) ELSE Chunk(s)

\* The bytes that reach the disk when write is asked for n: the destination is
\* unbuffered, so a file system that fills up may take fewer, and the code
\* does not look at the return value.
OnDisk(n) == IF n = 0 THEN {0} ELSE 1..n

\* A chunk is read and as much of it as fits is written; past the limit the
\* round ends.
ReadChunk(s) ==
  /\ pc = "round" /\ s \in events /\ pipe[s] > 0
  /\ pipe' = [pipe EXCEPT ![s] = @ - Chunk(s)]
  /\ \E k \in OnDisk(Take(s)) : file' = [file EXCEPT ![s] = @ + k]
  /\ written' = [written EXCEPT ![s] = @ + Take(s)]
  /\ IF Chunk(s) > Available(s)
       THEN stop_reason' = LimitOutcome[s] /\ events' = {}
       ELSE events' = events \ {s} /\ UNCHANGED stop_reason
  /\ UNCHANGED <<group, pc, append, initial, registered, received_signal, exit_status,
                 result, saved, writers, produced, expired>>

\* The end of a round.  A mutant that takes the child's exit for the end of its
\* output:
CapturedAllOnExit == LeaderEnded

CapturedAll == LeaderEnded /\ registered = {}

PollStops == pc = "round" /\ events = {} /\ stop_reason # None /\ Outside /\ Go("term")

PollContinues ==
  pc = "round" /\ events = {} /\ stop_reason = None /\ ~CapturedAll /\ Outside /\ Go("loop")

PollEnded ==
  /\ pc = "round" /\ events = {} /\ stop_reason = None /\ CapturedAll /\ Outside
  /\ IF returncode < 0
       THEN Finish("child_signal", None, -returncode, 128 - returncode)
       ELSE Finish("child_exit", returncode, None, returncode)

\* A call of the loop raises OSError: the group is terminated if the leader is
\* still there.  A mutant that leaves it running:
LoopFailsAndLeaves ==
  /\ pc \in {"loop", "round"} /\ Outside
  /\ Finish("wrapper_error", None, None, EXIT_WRAPPER_ERROR)

LoopFails ==
  /\ pc \in {"loop", "round"} /\ Outside
  /\ \/ LeaderEnded /\ Finish("wrapper_error", None, None, EXIT_WRAPPER_ERROR)
     \/ /\ ~LeaderEnded
        /\ pc' = "term" /\ stop_reason' = "wrapper_error" /\ events' = {}
        /\ UNCHANGED <<append, initial, written, registered, received_signal,
                       exit_status, result, saved>>

Term ==
  pc = "term" /\ TermGroup /\ Go("grace") /\ UNCHANGED <<plumbing, expired>>

\* The leader outlives the grace period.  A mutant waits on:
GraceExpiresSilently == pc = "grace" /\ ~LeaderEnded /\ Outside /\ Go("reap")

GraceExpires ==
  pc = "grace" /\ ~LeaderEnded /\ KillGroup /\ Go("reap") /\ UNCHANGED <<plumbing, expired>>

\* wait returned, at once or after SIGKILL.
Stopped ==
  /\ pc \in {"grace", "reap"} /\ LeaderEnded /\ Outside
  /\ Finish(stop_reason, None,
            IF stop_reason = "interrupted" THEN received_signal ELSE None,
            CASE stop_reason = "interrupted" -> 128 + received_signal
              [] stop_reason = "timed_out" -> EXIT_TIMEOUT
              [] stop_reason = "wrapper_error" -> EXIT_WRAPPER_ERROR
              [] OTHER -> EXIT_LIMIT)

\* _write_result: exclusive creation of the result file.
WriteResult ==
  /\ pc = "report" /\ Outside
  /\ pc' = "done" /\ saved' = TRUE
  /\ UNCHANGED <<append, initial, written, registered, events, received_signal,
                 stop_reason, exit_status, result>>

WriteResultFails ==
  /\ pc = "report" /\ Outside
  /\ pc' = "done" /\ exit_status' = EXIT_WRAPPER_ERROR
  /\ UNCHANGED <<append, initial, written, registered, events, received_signal,
                 stop_reason, result, saved>>

\* remember_signal, or the default action while no handler is installed.
Signal(n) ==
  /\ pc \notin {"done", "killed"} /\ Outside
  /\ IF pc \in {"open", "report"}
       THEN pc' = "killed" /\ UNCHANGED received_signal
       ELSE /\ UNCHANGED pc
            /\ received_signal' = IF received_signal = None THEN n ELSE received_signal
  /\ UNCHANGED <<append, initial, written, registered, events, stop_reason, exit_status,
                 result, saved>>

DeadlinePasses ==
  /\ pc \in {"loop", "round"} /\ ~expired
  /\ expired' = TRUE
  /\ UNCHANGED <<group, wrapper, plumbing>>

\* What the processes do: write, close a stream, fork, end.
Emit(p, s) ==
  /\ p \in writers[s] \cap (alive \ killed) /\ s \in registered
  /\ produced[s] < MaxOutput
  /\ produced' = [produced EXCEPT ![s] = @ + 1]
  /\ pipe' = [pipe EXCEPT ![s] = @ + 1]
  /\ UNCHANGED <<group, wrapper, file, writers, expired>>

CloseStream(p, s) ==
  /\ p \in writers[s] \cap (alive \ killed)
  /\ writers' = [writers EXCEPT ![s] = @ \ {p}]
  /\ UNCHANGED <<group, wrapper, file, produced, pipe, expired>>

ForkWithStreams(p, d) ==
  /\ Fork(p, d)
  /\ writers' = [s \in Streams |-> IF p \in writers[s] THEN writers[s] \cup {d} ELSE writers[s]]
  /\ UNCHANGED <<wrapper, file, produced, pipe, expired>>

Processes ==
  \/ \E p \in Procs, s \in Streams : Emit(p, s) \/ CloseStream(p, s)
  \/ \E p \in Procs, d \in Descendants : ForkWithStreams(p, d)
  \/ EndStep /\ UNCHANGED <<wrapper, plumbing, expired>>

CaptureStep ==
  \/ OpenCaptures \/ Prepare \/ Spawn \/ Stop \/ Select
  \/ \E s \in Streams : ReadEof(s) \/ ReadChunk(s)
  \/ PollStops \/ PollContinues \/ PollEnded
  \/ Term \/ GraceExpires \/ Stopped \/ WriteResult

Failure == OpenFails \/ SpawnFails \/ LoopFails \/ WriteResultFails

Next ==
  \/ CaptureStep
  \/ Failure
  \/ \E n \in Signals : Signal(n)
  \/ DeadlinePasses
  \/ Processes

Spec == Init /\ [][Next]_vars

KillTakesEffect(p) == Dies(p) /\ UNCHANGED <<wrapper, plumbing, expired>>

\* The wrapper runs, time passes, SIGKILL kills.  Nothing is asked of the
\* captured processes.
FairSpec ==
  /\ Spec
  /\ WF_vars(CaptureStep \/ OpenFails) /\ WF_vars(DeadlinePasses)
  /\ \A p \in Procs : WF_vars(KillTakesEffect(p))

-----------------------------------------------------------------------------
\* The locals of capture_command, the files and the pipes keep their types.
TypeOK ==
  /\ GroupTypeOK
  /\ pc \in {"open", "prepare", "popen", "loop", "round", "term", "grace", "reap",
             "report", "done", "killed"}
  /\ append \in BOOLEAN /\ expired \in BOOLEAN /\ saved \in BOOLEAN
  /\ file \in [Streams -> Nat \cup {None}] /\ initial \in [Streams -> Nat \cup {None}]
  /\ written \in [Streams -> Nat] /\ produced \in [Streams -> Nat] /\ pipe \in [Streams -> Nat]
  /\ writers \in [Streams -> SUBSET Procs]
  /\ events \subseteq registered /\ registered \subseteq Streams
  /\ received_signal \in Signals \cup {None}
  /\ stop_reason \in StopReasons \cup {None}
  /\ result # None => result.outcome \in Outcomes

\* No capture file ever exceeds its limit, with what an appended file held
\* before included, whatever the chunks and the child's timing.
WithinLimits == \A s \in Streams : initial[s] # None => file[s] <= Limit[s]

Reports(o) == pc \in {"report", "done"} /\ result # None /\ result.outcome = o

\* When the outcome is the child's own end, everything the group ever wrote
\* was read and handed to the files: nothing stayed in a pipe when the leader
\* ended before it was drained.
ExitMeansComplete ==
  \A o \in {"child_exit", "child_signal"} :
    Reports(o) => \A s \in Streams : written[s] = produced[s] /\ writers[s] \cap alive = {}

\* A limit outcome means that the stream really went over, and that it was kept
\* up to exactly its limit (test_stdout_is_truncated_at_cap_...).
LimitMeansExceeded ==
  \A s \in Streams :
    Reports(LimitOutcome[s]) =>
      /\ initial[s] + written[s] = Limit[s]
      /\ initial[s] + produced[s] > Limit[s]

\* The leader never outlives capture_command, on its error paths neither.
LeaderNeverLeft == pc \in {"report", "done"} => Leader \notin alive

\* capture_command always ends, even when the processes ignore SIGTERM, hold the
\* pipes open and never end.
CaptureEnds == <>(pc \in {"done", "killed"})

\* capture_command's docstring (line 149) has no descendant escape the bounds.
\* When a bound or a signal stopped the run, whoever SIGTERM could not end was
\* sent SIGKILL.
NoDescendantEscapes ==
  \A o \in {"interrupted", "stdout_limit", "stderr_limit", "timed_out"} :
    Reports(o) => alive \cap termed \cap stubborn \subseteq killed

\* The byte counts reported for a command that ran to its end are the sizes of
\* the files (test_bounded_capture.py:52-55 compares both with the cap).
CountsMatchFiles ==
  Reports("child_exit") => \A s \in Streams : file[s] = initial[s] + written[s]
=============================================================================
