---------------------------- MODULE ProcessGroup ----------------------------
(***************************************************************************)
(* The process group that bounded_capture.py and deadline_supervisor.py    *)
(* start with Popen(start_new_session=True): a leader, which the parent    *)
(* waits for, and the descendants it forks, which only killpg reaches.     *)
(* Operating-system behaviour, modelled from how both programs use it.  A  *)
(* descendant that leaves the group is out of killpg's reach and is left   *)
(* out, and so is a group the parent may not signal.                       *)
(***************************************************************************)
EXTENDS Integers

CONSTANTS
  None,            \* Python's None
  Leader,          \* the process Popen starts
  Descendants,     \* the processes it may fork
  OwnCodes         \* return codes of a process that ends without our signals

VARIABLES
  started,      \* processes that have existed
  alive,        \* processes that run
  stubborn,     \* processes that ignore SIGTERM
  termed,       \* processes that were sent SIGTERM
  killed,       \* processes that were sent SIGKILL
  returncode    \* how the leader ended: its exit code or minus the signal

group == <<started, alive, stubborn, termed, killed, returncode>>

Procs == {Leader} \cup Descendants

SIGTERM == 15
SIGKILL == 9

ReturnCodes == OwnCodes \cup {-SIGTERM, -SIGKILL}

ASSUME GroupAssumption ==
  /\ None \notin ReturnCodes /\ OwnCodes \subseteq Int
  /\ Leader \notin Descendants

GroupInit ==
  /\ started = {} /\ alive = {} /\ termed = {} /\ killed = {}
  /\ stubborn \in SUBSET Procs
  /\ returncode = None

\* Popen succeeds.
SpawnGroup ==
  /\ started' = {Leader} /\ alive' = {Leader}
  /\ UNCHANGED <<stubborn, termed, killed, returncode>>

\* p forks d.
Fork(p, d) ==
  /\ p \in alive \ killed
  /\ d \in Descendants \ started
  /\ started' = started \cup {d}
  /\ alive' = alive \cup {d}
  /\ UNCHANGED <<stubborn, termed, killed, returncode>>

\* p ends; the parent learns the return code rc if it is the leader.
End(p, rc) ==
  /\ alive' = alive \ {p}
  /\ returncode' = IF p = Leader THEN rc ELSE returncode
  /\ UNCHANGED <<started, stubborn, termed, killed>>

\* p ends by itself, ...
Exits(p) == p \in alive \ killed /\ \E rc \in OwnCodes : End(p, rc)

\* ... obeys SIGTERM, at once or after its clean-up, ...
Obeys(p) ==
  /\ p \in (alive \cap termed) \ (stubborn \cup killed)
  /\ \E rc \in OwnCodes \cup {-SIGTERM} : End(p, rc)

\* ... or dies of SIGKILL.
Dies(p) == p \in alive \cap killed /\ End(p, -SIGKILL)

\* killpg(SIGTERM); an empty group is ProcessLookupError, which is ignored.
TermGroup ==
  /\ termed' = termed \cup alive
  /\ UNCHANGED <<started, alive, stubborn, killed, returncode>>

\* killpg(SIGKILL)
KillGroup ==
  /\ killed' = killed \cup alive
  /\ UNCHANGED <<started, alive, stubborn, termed, returncode>>

\* The leader has ended: poll and wait return.
LeaderEnded == Leader \in started \ alive

EndStep == \E p \in Procs : Exits(p) \/ Obeys(p) \/ Dies(p)

\* Only started processes run or were signalled.
GroupTypeOK ==
  /\ alive \subseteq started /\ started \subseteq Procs
  /\ stubborn \subseteq Procs /\ termed \subseteq started /\ killed \subseteq started
  /\ returncode \in ReturnCodes \cup {None}
=============================================================================
