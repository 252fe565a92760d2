----------------------------- MODULE AppOwnership -----------------------------
(***************************************************************************)
(* What the WSO2SP controller promises about the applications of the       *)
(* identity server, without caches, queues, conflicts or calls:            *)
(*                                                                         *)
(*   - an application comes into being only in the hands of a worker that  *)
(*     took on an object with finalizer, and such an object goes away only *)
(*     after it was deleted and no worker has it in hand;                  *)
(*   - the ID of the application, once recorded in the status, stays as    *)
(*     long as the object, and Ready is never recorded without it;         *)
(*   - only the worker that has the object in hand declares it Ready.      *)
(***************************************************************************)
CONSTANTS
    Objects,  \* keys of WSO2SP objects
    Apps,     \* names of applications
    Nobody    \* no object

VARIABLES
    stage,   \* how far an object is: without finalizer, guarded by it, closing
    known,   \* the objects whose status holds the ID of the application
    ready,   \* the objects whose phase is Ready
    worker,  \* the object that is in hand
    present  \* the applications there are

avars == <<stage, known, ready, worker, present>>

Stages == {"absent", "bare", "guarded", "closing"}

AInit ==
    /\ stage = [s \in Objects |-> "absent"]
    /\ known = {} /\ ready = {}
    /\ worker = Nobody /\ present = {}

Moves(s, from, to) ==
    /\ stage[s] = from /\ stage' = [stage EXCEPT ![s] = to]
    /\ UNCHANGED <<worker, present>>

Keeps == UNCHANGED <<known, ready>>

Create(s) == Moves(s, "absent", "bare") /\ Keeps
Guard(s)  == Moves(s, "bare", "guarded") /\ Keeps
Close(s)  == Moves(s, "guarded", "closing") /\ Keeps

\* Without finalizer an object is gone as soon as it is deleted.
Abandon(s) ==
    Moves(s, "bare", "absent") /\ known' = known \ {s} /\ ready' = ready \ {s}

Release(s) ==
    /\ worker # s /\ Moves(s, "closing", "absent")
    /\ known' = known \ {s} /\ ready' = ready \ {s}

Engage(s) ==
    /\ worker = Nobody /\ stage[s] \in {"guarded", "closing"}
    /\ worker' = s /\ UNCHANGED <<stage, known, ready, present>>

\* The worker creates, renames or updates applications; it may stop then.
Serve ==
    /\ worker # Nobody /\ worker' \in {worker, Nobody}
    /\ present' \in SUBSET Apps
    /\ UNCHANGED <<stage, known, ready>>

\* The worker records an outcome, and possibly the ID.
Report(s) ==
    /\ worker = s /\ worker' \in {s, Nobody} /\ stage[s] # "absent"
    /\ known' \in {known, known \cup {s}}
    /\ ready' \in {ready \ {s}, (ready \cup {s}) \cap known'}
    /\ UNCHANGED <<stage, present>>

\* An object that is paused, or whose instance is not ready, is not Ready.
Demote(s) ==
    /\ ready' = ready \ {s}
    /\ UNCHANGED <<stage, known, worker, present>>

\* Applications go away with their objects, or because somebody removes them.
Vanish ==
    /\ present' \in SUBSET present
    /\ UNCHANGED <<stage, known, ready, worker>>

ANext ==
    \/ \E s \in Objects :
          \/ Create(s) \/ Guard(s) \/ Close(s) \/ Abandon(s) \/ Release(s)
          \/ Engage(s) \/ Report(s) \/ Demote(s)
    \/ Serve \/ Vanish

ASpec == AInit /\ [][ANext]_avars
==============================================================================
