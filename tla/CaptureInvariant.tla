-------------------------- MODULE CaptureInvariant --------------------------
(***************************************************************************)
(* The inductive invariant of BoundedCapture.                              *)
(***************************************************************************)
EXTENDS BoundedCapture

Running == {"loop", "round", "term", "grace", "reap"}

\* The child exists from Popen on, and only its end leads to the report.
LeaderAccounted ==
  /\ pc \in {"open", "prepare", "popen"} => started = {}
  /\ pc \in Running => Leader \in started
  /\ pc \in {"report", "done"} => Leader \notin alive
  /\ Leader \in started => Leader \in alive \/ returncode # None

\* Files are opened before anything is written, and stay bounded by the count.
FilesAccounted ==
  \A s \in Streams :
    /\ pc = "open" => initial[s] = None /\ written[s] = 0
    /\ pc \in {"prepare", "popen"} \cup Running => initial[s] # None
    /\ initial[s] # None =>
         /\ file[s] # None
         /\ file[s] <= initial[s] + written[s]
         /\ initial[s] + written[s] <= Limit[s]

\* Until a limit is hit every byte is either counted or still in its pipe, and a
\* stream leaves the selector only when nobody can write to it any more.
BytesAccounted ==
  \A s \in Streams :
    /\ writers[s] \subseteq started
    /\ pc \in {"open", "prepare", "popen"} => stop_reason = None
    /\ stop_reason = None => produced[s] = written[s] + pipe[s]
    /\ pc \in {"loop", "round"} /\ s \notin registered => AtEof(s)
    /\ stop_reason = LimitOutcome[s] =>
         initial[s] # None /\ initial[s] + written[s] = Limit[s]
           /\ initial[s] + produced[s] > Limit[s]

\* When a stop is recorded, and what the report says of it.
StopAccounted ==
  /\ pc = "loop" => stop_reason = None
  /\ pc \in {"term", "grace", "reap"} => stop_reason # None
  /\ pc = "round" /\ stop_reason # None => events = {}
  /\ result # None => pc \in {"report", "done", "killed"} /\ registered = {}
  /\ \A s \in Streams : Reports(LimitOutcome[s]) => stop_reason = LimitOutcome[s]

\* What every step of capture_command and of the processes preserves.
IInv ==
  /\ TypeOK /\ LeaderAccounted /\ FilesAccounted /\ BytesAccounted /\ StopAccounted
  /\ ExitMeansComplete
=============================================================================
