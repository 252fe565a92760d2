--------------------------- MODULE SPOwnershipProofs ---------------------------
(***************************************************************************)
(* SPReconciler implements AppOwnership, for all values of its constants:  *)
(* every step of the controller, of its users and of its faults is a step  *)
(* of the abstract specification or changes nothing there.                 *)
(***************************************************************************)
EXTENDS SPSecretProofs

------------------------------------------------------------------------------
(* The invariant: what the writes of a reconciliation rely on *)

\* The copy was live, and one to work on while it is in hand; the finalizer is
\* added to a copy without one that is not being deleted; setPhase writes a
\* failure, or Pending and nothing else.
HandShape ==
    /\ job.pc # "idle" => job.copy.live
    /\ InHand => Workable(job.copy)
    /\ job.pc = "addFin" => ~job.copy.deleting /\ ~job.copy.fin
    /\ job.pc = "setPhase" =>
          \/ job.mem.why \in Failures
          \/ /\ job.mem.phase = "Pending" /\ job.mem.id = job.copy.st.id
             /\ job.mem.admin = job.copy.st.admin

\* An object that does not exist has no status that counts.
AbsentBlank == \A s \in SPs : ~sps[s].live => sps[s].st = NoStatus

OwnInv == CoreInv /\ IdInv /\ HandShape /\ AbsentBlank

------------------------------------------------------------------------------
(* Calls: the object stays in hand, or the reconciliation ends *)

Onward ==
    \/ job' = Idle
    \/ job'.pc \in AppSteps
    \/ job'.pc = "setPhase" /\ job'.mem.why \in Failures

\* The steps in hand, by name.
LEMMA StepSets ==
    /\ Parts \cup {"appGet", "appCreate", "patchPending", "appUpdate", "patchReady"}
          = AppSteps
    /\ {"oauthGet", "oauthCreate", "oauthSecret", "oauthUpdate", "samlGet",
        "samlCreate", "samlSecret", "samlDelete", "samlReadd", "adminGet",
        "adminJoin", "appGet", "appCreate", "patchPending", "appUpdate",
        "patchReady"} = AppSteps
    /\ AppSteps \subseteq Steps
    /\ {"idle", "setPhase", "pause", "addFin", "delApp", "rmFin"} \cap AppSteps = {}
BY DEF AppSteps, Parts, OAuthSteps, SamlSteps, AdminSteps, Steps

\* A failure stays in hand until its status is written.
LEMMA FailureOnward ==
    ASSUME NEW j \in Job, NEW why \in Failures, SetPhase(j, "Failed", why)
    PROVE  Onward
<1>1. CASE job' = Idle
  BY <1>1 DEF Onward
<1>2. CASE job' = [j EXCEPT !.pc = "setPhase",
                            !.mem.phase = "Failed", !.mem.why = why]
  BY <1>2 DEF Onward, Job, Status
<1> QED
  BY <1>1, <1>2 DEF SetPhase

\* The outcomes that calls share.
LEMMA SharedOnward ==
    ASSUME TypeInv, job.pc \in AppSteps
    PROVE  /\ job \in Job /\ job.mem \in Status
           /\ Done \/ Requeue => Onward
           /\ job.pc \in Failures /\ Fail => Onward
           /\ \A pc \in AppSteps : Goto(pc) => Onward
           /\ \A j \in Job : job' = InSync(j) => Onward
<1>1. job \in Job /\ job.mem \in Status
  BY DEF TypeInv, TypeOK, ControlOK, Job
<1>2. Done \/ Requeue => Onward
  BY DEF Done, Requeue, Onward
<1>3. job.pc \in Failures /\ Fail => Onward
  BY <1>1, FailureOnward DEF Fail
<1>4. ASSUME NEW pc \in AppSteps, Goto(pc) PROVE Onward
  BY <1>1, <1>4 DEF Goto, Job, Onward
<1>5. ASSUME NEW j \in Job, job' = InSync(j) PROVE Onward
  BY <1>5, StepSets DEF InSync, Job, Onward
<1> QED
  BY <1>1, <1>2, <1>3, <1>4, <1>5

\* The steps of the inbound protocols.
LEMMA InboundOnward ==
    ASSUME TypeInv,
           \/ OAuthSecret \/ SamlSecret \/ OAuthGet \/ OAuthCreate \/ OAuthUpdate
           \/ SamlGet \/ SamlCreate \/ SamlDelete \/ SamlReadd
    PROVE  job.pc \in AppSteps /\ Onward
<1>1. job.pc \in AppSteps
  BY StepSets
     DEF OAuthSecret, SamlSecret, OAuthGet, OAuthCreate, OAuthUpdate, SamlGet,
         SamlCreate, SamlDelete, SamlReadd
<1>2. job \in Job /\ job.copy \in SPObject
  BY DEF TypeInv, TypeOK, ControlOK, Job
<1>3. CASE OAuthSecret \/ SamlSecret
  <2>1. ASSUME NEW new, NEW pc \in AppSteps, UpsertSecret(new, pc) PROVE Onward
    BY <1>1, <2>1, SharedOnward DEF UpsertSecret
  <2>2. /\ (IF job.dirty THEN "oauthUpdate" ELSE AfterOAuth(job.copy)) \in AppSteps
        /\ (IF job.dirty THEN "samlDelete" ELSE "appGet") \in AppSteps
    BY <1>2, NextStepType, StepSets
  <2> QED
    BY <1>1, <1>3, <2>1, <2>2 DEF OAuthSecret, SamlSecret
<1>4. CASE OAuthGet \/ OAuthCreate \/ OAuthUpdate
  <2>1. "oauthCreate" \in AppSteps /\ job.pc \in Failures
    BY <1>4, StepSets DEF OAuthGet, OAuthCreate, OAuthUpdate, Failures
  <2>2. ASSUME NEW ref, NEW dirty,
               job' = [job EXCEPT !.pc = "oauthSecret", !.ref = ref, !.dirty = dirty]
        PROVE  Onward
    BY <1>2, <2>2, StepSets DEF Job, Onward
  <2> QED
    BY <1>1, <1>4, <2>1, <2>2, SharedOnward
       DEF OAuthGet, OAuthCreate, OAuthUpdate, Call, Refused
<1>5. CASE SamlGet \/ SamlCreate \/ SamlDelete \/ SamlReadd
  <2>1. {"appGet", "samlReadd"} \subseteq AppSteps /\ job.pc \in Failures
    BY <1>5, StepSets DEF SamlGet, SamlCreate, SamlDelete, SamlReadd, Failures
  <2>2. ASSUME NEW pc \in {"samlCreate", "samlSecret"}, NEW meta, NEW dirty,
               job' = [job EXCEPT !.pc = pc, !.meta = meta, !.dirty = dirty]
        PROVE  Onward
    BY <1>2, <2>2, StepSets DEF Job, Onward
  <2> QED
    BY <1>1, <1>5, <2>1, <2>2, SharedOnward
       DEF SamlGet, SamlCreate, SamlDelete, SamlReadd, AddSaml, Call, Refused
<1> QED
  BY <1>1, <1>3, <1>4, <1>5

\* The calls that concern the application and the admin group.
LEMMA ApplicationOnward ==
    ASSUME TypeInv, AppGet \/ AppCreate \/ AppUpdate \/ AdminGet \/ AdminJoin
    PROVE  job.pc \in AppSteps /\ Onward
<1>1. job.pc \in AppSteps /\ job.pc \in Failures
  BY StepSets DEF AppGet, AppCreate, AppUpdate, AdminGet, AdminJoin, Failures
<1>2. job \in Job /\ job.mem \in Status
  BY <1>1, SharedOnward
<1>3. CASE AppGet
  <2> DEFINE have  == apps[Wanted.name]
             found == [job EXCEPT !.mem.id = have.id]
  <2>1. "appCreate" \in AppSteps /\ "script" \in Failures
    BY StepSets DEF Failures
  <2>2. have.id \in Nat
    BY <1>2 DEF TypeInv, TypeOK, RemoteOK, Job, SPObject, SPSpec, App, Wanted
  <2> HIDE DEF have
  <2>3. found \in Job
    BY <1>2, <2>2 DEF Job, Status
  <2>4. ASSUME job' = [found EXCEPT !.pc = "appUpdate"] PROVE Onward
    BY <2>3, <2>4, StepSets DEF Job, Onward
  <2> HIDE DEF found
  <2>5. SetPhase(found, "Failed", "script") => Onward
    BY <2>1, <2>3, FailureOnward
  <2> QED
    BY <1>1, <1>3, <2>1, <2>3, <2>4, <2>5, SharedOnward DEF AppGet, found, have
<1>4. CASE AppCreate
  <2>1. ASSUME job' = [job EXCEPT !.pc = "patchPending",
                           !.mem.phase = "Pending", !.mem.why = "created"]
        PROVE  Onward
    BY <1>2, <2>1, StepSets DEF Job, Onward
  <2> QED
    BY <1>1, <1>4, <2>1, SharedOnward DEF AppCreate, Call, Refused
<1>5. CASE AppUpdate
  BY <1>1, <1>2, <1>5, SharedOnward DEF AppUpdate, Call, Refused
<1>6. CASE AdminGet \/ AdminJoin
  <2>1. ASSUME job' = [job EXCEPT !.pc = "patchReady", !.mem.admin = TRUE]
        PROVE  Onward
    BY <1>2, <2>1, StepSets DEF Job, Onward
  <2>2. ASSUME NEW ref, job' = [job EXCEPT !.pc = "adminJoin", !.ref = ref]
        PROVE  Onward
    BY <1>2, <2>2, StepSets DEF Job, Onward
  <2> QED
    BY <1>1, <1>6, <2>1, <2>2, SharedOnward DEF AdminGet, AdminJoin, Call, Refused
<1> QED
  BY <1>1, <1>3, <1>4, <1>5, <1>6

\* A call works for an object that is in hand, and keeps it or lets it go.
LEMMA CallsInHand ==
    ASSUME TypeInv, JobStep, ~DelApp, ~Writes
    PROVE  /\ job.pc \in AppSteps /\ Onward /\ UNCHANGED kube
           /\ job' = Idle \/ (job'.sp = job.sp /\ job'.copy = job.copy)
<1>1. job.pc \in AppSteps /\ Onward
  BY InboundOnward, ApplicationOnward DEF JobStep, Writes
<1>2. QuietJob
  BY QuietInbound, QuietApplication DEF JobStep, Writes
<1> QED
  BY <1>1, <1>2 DEF QuietJob

------------------------------------------------------------------------------
(* The start of a reconciliation *)

\* What Begin puts into the job.
LEMMA BeginInHand ==
    ASSUME TypeInv, NEW s \in SPs, Begin(s)
    PROVE  /\ HandShape' /\ UNCHANGED <<sps, apps>> /\ ~InHand
           /\ InHand' => job'.sp = s /\ Workable(cache[s])
<1>1. cache[s] \in SPObject /\ cache[s].st \in Status
  BY DEF TypeInv, TypeOK, KubeOK, SPObject
<1>2. UNCHANGED <<sps, apps>> /\ job = Idle
  BY DEF Begin, ReconcileGone, ReconcilePaused, ReconcileNotReady, ReconcileDelete,
         ReconcileFinalize, ReconcileApply, Take, kube, remote
<1>3. Idle.pc = "idle" /\ (job' = Idle => HandShape' /\ ~InHand') /\ ~InHand
  BY <1>2, StepSets DEF Idle, HandShape, InHand
<1>4. ASSUME NEW pc \in Steps \ {"setPhase"}, Start(s, pc), cache[s].live,
             pc = "addFin" => ~cache[s].deleting /\ ~cache[s].fin,
             pc \in AppSteps => Workable(cache[s])
      PROVE  HandShape' /\ (InHand' => job'.sp = s /\ Workable(cache[s]))
  <2>1. job'.pc = pc /\ job'.sp = s /\ job'.copy = cache[s]
    BY <1>4, SnapshotType DEF Start, TypeInv, TypeOK
  <2> QED
    BY <1>4, <2>1 DEF HandShape, InHand
<1>5. CASE ReconcileGone(s)
  BY <1>2, <1>3, <1>5 DEF ReconcileGone
<1>6. CASE ReconcileNotReady(s)
  <2>1. "idle" \in Steps
    BY DEF Steps
  <2>2. PICK j \in Job :
           /\ j = Snapshot(s, "idle") /\ j.sp = s /\ j.copy = cache[s]
           /\ j.mem = cache[s].st
    BY <2>1, SnapshotType DEF TypeInv, TypeOK
  <2>3. SetPhase(j, "Pending", "instance") /\ cache[s].live
    BY <1>6, <2>2 DEF ReconcileNotReady, Served
  <2>4. CASE job' = [j EXCEPT !.pc = "setPhase",
                              !.mem.phase = "Pending", !.mem.why = "instance"]
    <3>1. /\ job'.pc = "setPhase" /\ job'.copy = cache[s]
          /\ job'.mem.why = "instance" /\ job'.mem.phase = "Pending"
          /\ job'.mem.id = cache[s].st.id /\ job'.mem.admin = cache[s].st.admin
      BY <1>1, <2>2, <2>4 DEF Job, Status
    <3> QED
      BY <1>2, <1>3, <2>3, <3>1, StepSets DEF HandShape, InHand, Failures
  <2> QED
    BY <1>2, <1>3, <2>3, <2>4 DEF SetPhase
<1>7. CASE ReconcilePaused(s) \/ ReconcileDelete(s) \/ ReconcileFinalize(s)
  <2>1. {"pause", "delApp", "rmFin", "addFin"} \subseteq Steps \ {"setPhase"}
    BY DEF Steps
  <2> QED
    BY <1>2, <1>3, <1>4, <1>7, <2>1, StepSets
       DEF ReconcilePaused, ReconcileDelete, ReconcileFinalize, Served
<1>8. CASE ReconcileApply(s)
  <2>1. FirstStep(cache[s]) \in {"oauthGet", "samlGet", "appGet"}
    BY <1>1, NextStepType
  <2>2. FirstStep(cache[s]) \in Steps \ {"setPhase", "addFin"}
    BY <2>1, StepSets
  <2> QED
    BY <1>2, <1>3, <1>4, <1>8, <2>2 DEF ReconcileApply, Served, Workable
<1> QED
  BY <1>5, <1>6, <1>7, <1>8 DEF Begin

------------------------------------------------------------------------------
(* Writes of the object *)

\* A write ends the reconciliation, or leaves it in hand.
LEMMA WritesInHand ==
    ASSUME TypeInv, Writes
    PROVE  /\ job.sp \in SPs /\ job.pc # "idle" /\ UNCHANGED apps
           /\ \/ job' = Idle
              \/ /\ InHand /\ job'.pc \in AppSteps
                 /\ job'.sp = job.sp /\ job'.copy = job.copy
<1>1. job.pc # "idle" /\ UNCHANGED apps
  BY DEF Writes, SetPhaseWrite, PauseWrite, AddFinalizer, RemoveFinalizer,
         PatchPending, PatchReady, WriteFrame, remote
<1>2. job.sp \in SPs
  BY <1>1 DEF TypeInv, JobShape
<1>3. Done \/ Requeue => job' = Idle
  BY DEF Done, Requeue
<1>4. CASE SetPhaseWrite
  <2>1. job.pc = "setPhase" /\ (Requeue \/ Swallowed)
    BY <1>4 DEF SetPhaseWrite, Update
  <2>2. ASSUME NEW pc \in {"samlGet", "appGet", "patchReady"}, GoOn(pc),
               job.mem.why \in Parts
        PROVE  InHand /\ job'.pc \in AppSteps /\ job'.sp = job.sp /\ job'.copy = job.copy
    <3>1. pc \in AppSteps /\ pc \in Steps
      BY StepSets
    <3>2. job.mem.why \in Failures
      <4>1. job.mem.why \in Reasons
        BY DEF TypeInv, TypeOK, ControlOK, Job, Status
      <4> QED
        BY <2>2, <4>1
           DEF Parts, OAuthSteps, SamlSteps, AdminSteps, Reasons, Failures
    <3> QED
      BY <2>1, <2>2, <3>1, <3>2, GoOnFields DEF InHand
  <2> QED
    BY <1>1, <1>2, <1>3, <2>1, <2>2, SwallowedSteps
<1>5. CASE PauseWrite \/ AddFinalizer \/ RemoveFinalizer \/ PatchPending \/ PatchReady
  BY <1>1, <1>2, <1>3, <1>5
     DEF PauseWrite, AddFinalizer, RemoveFinalizer, PatchPending, PatchReady,
         PatchCall, Update
<1> QED
  BY <1>4, <1>5 DEF Writes

\* The three kinds of writes there are: o takes the place of the object s.
StatusWrite(s, o) ==
    /\ o.st \in Status /\ o = [sps[s] EXCEPT !.st = o.st]
    /\ sps[s].live
    /\ IF InHand
       THEN /\ sps[s].fin
            /\ o.st \in {job.mem, StatusPatch(sps[s].st, job.base, job.mem)}
            /\ o.st = job.mem \/ AtWork
       ELSE /\ o.st.phase # "Ready"
            /\ o.st.id = sps[s].st.id /\ o.st.admin = sps[s].st.admin

GuardWrite(s, o) ==
    /\ ~InHand /\ sps[s].live /\ ~sps[s].deleting /\ ~sps[s].fin
    /\ pending[s] = <<>> /\ cache[s] = sps[s]
    /\ o.live /\ ~o.deleting /\ o.fin /\ o.st = sps[s].st

ReleaseWrite(s, o) == ~InHand /\ sps[s].live /\ sps[s].deleting /\ o = Gone

\* The object is as it was, or written in one of the three ways.
LEMMA WriteKinds ==
    ASSUME OwnInv, Writes, NEW s \in SPs, s = job.sp
    PROVE  \/ UNCHANGED sps
           \/ \E o \in SPObject :
                 /\ sps' = [sps EXCEPT ![s] = o] /\ Recorded(s, o)
                 /\ StatusWrite(s, o) \/ GuardWrite(s, o) \/ ReleaseWrite(s, o)
<1>1. /\ sps[s] \in SPObject /\ job.copy \in SPObject /\ job.mem \in Status
      /\ job.base \in Status /\ sps[s].st \in Status /\ sps \in [SPs -> SPObject]
  BY DEF OwnInv, CoreInv, TypeInv, TypeOK, KubeOK, ControlOK, Job, SPObject
<1>2. \/ UNCHANGED sps
      \/ \E o \in SPObject : sps' = [sps EXCEPT ![s] = o] /\ Recorded(s, o)
  BY WriteOutcome DEF OwnInv, kube, Put
<1>3. ASSUME NEW o \in SPObject, sps' = [sps EXCEPT ![s] = o],
             StatusWrite(s, o) \/ GuardWrite(s, o) \/ ReleaseWrite(s, o), ~UNCHANGED sps
      PROVE  \E v \in SPObject :
                 /\ sps' = [sps EXCEPT ![s] = v] /\ Recorded(s, v)
                 /\ StatusWrite(s, v) \/ GuardWrite(s, v) \/ ReleaseWrite(s, v)
  <2>1. PICK v \in SPObject : sps' = [sps EXCEPT ![s] = v] /\ Recorded(s, v)
    BY <1>2, <1>3
  <2>2. v = o
    BY <1>1, <1>3, <2>1
  <2> QED
    BY <1>3, <2>1, <2>2
<1>4. job.pc # "idle" /\ job.copy.live
  BY WritesInHand DEF OwnInv, CoreInv, HandShape
<1>5. job.current => job.copy = sps[s] /\ pending[s] = <<>> /\ cache[s] = sps[s]
  BY <1>4, CopyIsCurrent DEF OwnInv
<1>6. ASSUME NEW o, NEW Ok, NEW Err, Update(o, Ok, Err)
      PROVE  UNCHANGED sps \/ (job.current /\ sps' = [sps EXCEPT ![s] = o])
  BY <1>6 DEF Update, Put, kube
<1>7. CASE SetPhaseWrite
  <2> DEFINE o == [sps[s] EXCEPT !.st = job.mem]
  <2>1. UNCHANGED sps \/ (job.current /\ sps' = [sps EXCEPT ![s] = o])
    BY <1>7, <1>6 DEF SetPhaseWrite
  <2>2. o \in SPObject /\ o.st = job.mem
    BY <1>1 DEF SPObject
  <2>3. job.pc = "setPhase"
    BY <1>7 DEF SetPhaseWrite
  <2>4. IF InHand THEN job.copy.fin
        ELSE /\ job.mem.phase = "Pending" /\ job.mem.id = job.copy.st.id
             /\ job.mem.admin = job.copy.st.admin
    BY <2>3 DEF OwnInv, HandShape, InHand, Workable
  <2>5. job.current => StatusWrite(s, o)
    BY <1>1, <1>4, <1>5, <2>2, <2>4 DEF StatusWrite
  <2> HIDE DEF o
  <2> QED
    BY <1>3, <2>1, <2>2, <2>5
<1>8. CASE PauseWrite
  <2> DEFINE o == [sps[s] EXCEPT !.st.phase = "Paused"]
  <2>1. UNCHANGED sps \/ (job.current /\ sps' = [sps EXCEPT ![s] = o])
    BY <1>8, <1>6 DEF PauseWrite
  <2>2. [sps[s].st EXCEPT !.phase = "Paused"] \in Status
    BY <1>1 DEF Status, Phases
  <2>3. /\ o \in SPObject /\ o.st.phase = "Paused" /\ o.st.id = sps[s].st.id
        /\ o.st.admin = sps[s].st.admin
        /\ o = [sps[s] EXCEPT !.st = o.st] /\ o.st \in Status
    BY <1>1, <2>2 DEF SPObject, Status
  <2>4. ~InHand
    BY <1>8, StepSets DEF PauseWrite, InHand
  <2>5. job.current => StatusWrite(s, o)
    BY <1>4, <1>5, <2>3, <2>4 DEF StatusWrite
  <2> HIDE DEF o
  <2> QED
    BY <1>3, <2>1, <2>3, <2>5
<1>9. CASE AddFinalizer
  <2> DEFINE o == Updated(sps[s], [job.copy EXCEPT !.fin = TRUE])
  <2>1. UNCHANGED sps \/ (job.current /\ sps' = [sps EXCEPT ![s] = o])
    BY <1>9, <1>6 DEF AddFinalizer
  <2>2. o \in SPObject
    BY <1>1, DefaultedType DEF Updated, SPObject
  <2>3. /\ o.live = job.copy.live /\ o.fin = TRUE
        /\ o.deleting = job.copy.deleting /\ o.st = sps[s].st
    BY <1>1 DEF Updated, SPObject
  <2>4. job.pc = "addFin" /\ ~job.copy.deleting /\ ~job.copy.fin
    BY <1>9 DEF AddFinalizer, OwnInv, HandShape
  <2>5. ~InHand
    BY <2>4, StepSets DEF InHand
  <2>6. job.current => GuardWrite(s, o)
    BY <1>1, <1>4, <1>5, <2>3, <2>4, <2>5 DEF GuardWrite, SPObject
  <2> HIDE DEF o
  <2> QED
    BY <1>3, <2>1, <2>2, <2>6
<1>10. CASE RemoveFinalizer
  <2>1. UNCHANGED sps \/ (job.current /\ sps' = [sps EXCEPT ![s] = Gone])
    BY <1>10, <1>6 DEF RemoveFinalizer
  <2>2. job.pc = "rmFin" /\ job.copy.deleting
    BY <1>10 DEF RemoveFinalizer, OwnInv, CoreInv, TypeInv, JobShape
  <2>3. ~InHand
    BY <2>2, StepSets DEF InHand
  <2>4. job.current => ReleaseWrite(s, Gone)
    BY <1>4, <1>5, <2>2, <2>3 DEF ReleaseWrite
  <2> QED
    BY <1>3, <2>1, <2>4, ConstantTypes
<1>11. CASE PatchPending \/ PatchReady
  <2> DEFINE o == [sps[s] EXCEPT !.st = StatusPatch(sps[s].st, job.base, job.mem)]
  <2>1. UNCHANGED sps \/ (sps[s].live /\ sps' = [sps EXCEPT ![s] = o])
    BY <1>11, PatchOutcome DEF OwnInv, kube, Put
  <2>2. InHand /\ AtWork /\ sps[s].fin
    BY <1>11, StepSets
       DEF PatchPending, PatchReady, InHand, AtWork, OwnInv, CoreInv, FinalizerAtWork
  <2>3. StatusPatch(sps[s].st, job.base, job.mem) \in Status
    BY <1>1, StatusPatchFields
  <2>4. /\ o \in SPObject /\ o.st \in Status /\ o = [sps[s] EXCEPT !.st = o.st]
        /\ o.st = StatusPatch(sps[s].st, job.base, job.mem)
    BY <1>1, <2>3 DEF SPObject
  <2>5. sps[s].live => StatusWrite(s, o)
    BY <2>2, <2>4 DEF StatusWrite
  <2> HIDE DEF o
  <2> QED
    BY <1>3, <2>1, <2>4, <2>5
<1> QED
  BY <1>7, <1>8, <1>9, <1>10, <1>11 DEF Writes

------------------------------------------------------------------------------
(* The invariant is inductive *)

\* An idle controller has nothing in hand.
LEMMA IdleHand == Idle.pc = "idle" /\ (job' = Idle => HandShape' /\ ~InHand')
BY StepSets DEF Idle, HandShape, InHand

\* Steps that leave the job alone, but for its being outdated.
LEMMA HandKept ==
    ASSUME HandShape, job'.pc = job.pc, job'.copy = job.copy, job'.mem = job.mem
    PROVE  HandShape' /\ (InHand' <=> InHand)
BY DEF HandShape, InHand

\* The steps of the job.
LEMMA HandJobStep == ASSUME TypeInv, HandShape, JobStep PROVE HandShape'
<1>1. ASSUME InHand, job'.copy = job.copy, job.pc # "idle", Onward PROVE HandShape'
  BY <1>1, IdleHand, StepSets DEF HandShape, Onward
<1>2. CASE Writes
  <2>1. job'.pc \in AppSteps => Onward
    BY DEF Onward
  <2> QED
    BY <1>1, <1>2, <2>1, WritesInHand, IdleHand
<1>3. CASE DelApp
  <2>1. job.pc # "idle" /\ job'.pc = "rmFin" /\ job'.copy = job.copy
    BY <1>3 DEF DelApp, Goto, TypeInv, TypeOK, ControlOK, Job
  <2> QED
    BY <2>1, StepSets DEF HandShape, InHand
<1>4. CASE ~Writes /\ ~DelApp
  <2>1. job.pc # "idle" /\ InHand
    BY <1>4, CallsInHand, StepSets DEF InHand
  <2> QED
    BY <1>1, <1>4, <2>1, CallsInHand, IdleHand
<1> QED
  BY <1>2, <1>3, <1>4

\* What users do to the object and to the job.
LEMMA UserHand ==
    ASSUME TypeInv, NEW s \in SPs,
           CreateSP(s) \/ EditSpec(s) \/ Annotate(s) \/ DeleteSP(s)
    PROVE  /\ job'.pc = job.pc /\ job'.sp = job.sp /\ job'.copy = job.copy
           /\ job'.mem = job.mem /\ UNCHANGED apps
<1>1. PICK o \in SPObject : UserWrite(s, o)
  BY UserOutcome
<1> QED
  BY <1>1, OutdatedJobType DEF UserWrite, remote, TypeInv, TypeOK, ControlOK

\* Steps of neither the job nor the users of the object leave the objects alone
\* and the job too, unless the manager stops.
LEMMA RestHand ==
    ASSUME TypeInv, [Next]_vars, ~JobStep,
           \A s \in SPs : /\ ~Begin(s)
                          /\ ~(CreateSP(s) \/ EditSpec(s) \/ Annotate(s) \/ DeleteSP(s))
    PROVE  /\ UNCHANGED sps /\ (job' = job \/ job' = Idle)
           /\ \A n \in Names : apps'[n].id # 0 => apps[n].id # 0
<1>1. ASSUME NEW s \in SPs, Deliver(s) \/ SecretDeliver(s) \/ Wake(s)
      PROVE  UNCHANGED <<sps, job>>
  BY <1>1 DEF Deliver, SecretDeliver, Wake, control, kube
<1>2. ASSUME NEW s \in SPs, MetadataChange(s) \/ SecretRemoved(s)
      PROVE  UNCHANGED <<sps, job>>
  BY <1>2 DEF MetadataChange, SecretRemoved, control, kube
<1>3. ASSUME NEW n \in Names, AppDrift(n) \/ AppRemoval(n) PROVE UNCHANGED <<sps, job>>
  BY <1>3 DEF AppDrift, AppRemoval, control, kube
<1>4. InstanceChange \/ UNCHANGED vars => UNCHANGED <<sps, job>>
  BY DEF InstanceChange, vars, control, kube
<1>5. Crash => UNCHANGED sps /\ job' = Idle
  BY DEF Crash, Restart
<1>6. UNCHANGED sps /\ (job' = job \/ job' = Idle)
  BY <1>1, <1>2, <1>3, <1>4, <1>5 DEF Next, Environment, Users
<1> QED
  BY <1>6, AppsElsewhere

\* The objects after a write of the controller or of a user.
LEMMA BlankAfterPut ==
    ASSUME AbsentBlank, sps \in [SPs -> SPObject], NEW s \in SPs, NEW o \in SPObject,
           sps' = [sps EXCEPT ![s] = o], ~o.live => o.st = NoStatus
    PROVE  AbsentBlank'
BY DEF AbsentBlank

\* What a user puts in the place of the object s, and which abstract action it
\* is: creation, deletion with and without finalizer, or none.
UserKinds(s, o) ==
    \/ Stage(sps[s]) = "absent" /\ Stage(o) = "bare" /\ o.st = NoStatus
    \/ Stage(o) = Stage(sps[s]) /\ o.live /\ o.st = sps[s].st
    \/ Stage(sps[s]) = "guarded" /\ Stage(o) = "closing" /\ o.st = sps[s].st
    \/ Stage(sps[s]) = "bare" /\ Stage(o) = "absent" /\ o.st = NoStatus

LEMMA UserObject ==
    ASSUME TypeInv, NEW s \in SPs,
           CreateSP(s) \/ EditSpec(s) \/ Annotate(s) \/ DeleteSP(s)
    PROVE  \E o \in SPObject :
              /\ sps' = [sps EXCEPT ![s] = o] /\ UserKinds(s, o)
              /\ ~o.live => o.st = NoStatus
<1>1. sps[s] \in SPObject
  BY DEF TypeInv, TypeOK, KubeOK
<1>2. ASSUME NEW o, UserWrite(s, o) PROVE sps' = [sps EXCEPT ![s] = o]
  BY <1>2 DEF UserWrite, Put
<1>3. CASE CreateSP(s)
  <2>1. PICK spec \in Specs : UserWrite(s, NewSP(spec)) /\ ~sps[s].live
    BY <1>3 DEF CreateSP
  <2>2. UserKinds(s, NewSP(spec)) /\ NewSP(spec).live
    BY <2>1 DEF UserKinds, Stage, NewSP
  <2> QED
    BY <1>2, <2>1, <2>2, ConstantTypes
<1>4. CASE EditSpec(s)
  <2>1. PICK spec \in Specs : UserWrite(s, [sps[s] EXCEPT !.spec = spec]) /\ sps[s].live
    BY <1>4 DEF EditSpec
  <2> DEFINE o == [sps[s] EXCEPT !.spec = spec]
  <2>2. /\ o \in SPObject /\ o.live = sps[s].live /\ o.fin = sps[s].fin
        /\ o.deleting = sps[s].deleting /\ o.st = sps[s].st
    BY <1>1, TypesAssumption DEF SPObject
  <2>3. UserKinds(s, o) /\ o.live
    BY <2>1, <2>2 DEF UserKinds, Stage
  <2> QED
    BY <1>2, <2>1, <2>2, <2>3
<1>5. CASE Annotate(s)
  <2>1. PICK skip \in Skips : UserWrite(s, [sps[s] EXCEPT !.skip = skip]) /\ sps[s].live
    BY <1>5 DEF Annotate
  <2> DEFINE o == [sps[s] EXCEPT !.skip = skip]
  <2>2. /\ o \in SPObject /\ o.live = sps[s].live /\ o.fin = sps[s].fin
        /\ o.deleting = sps[s].deleting /\ o.st = sps[s].st
    BY <1>1, TypesAssumption DEF SPObject
  <2>3. UserKinds(s, o) /\ o.live
    BY <2>1, <2>2 DEF UserKinds, Stage
  <2> QED
    BY <1>2, <2>1, <2>2, <2>3
<1>6. CASE DeleteSP(s) /\ sps[s].fin
  <2> DEFINE o == [sps[s] EXCEPT !.deleting = TRUE]
  <2>1. UserWrite(s, o) /\ sps[s].live /\ ~sps[s].deleting
    BY <1>6 DEF DeleteSP
  <2>2. /\ o \in SPObject /\ o.live = sps[s].live /\ o.deleting /\ o.st = sps[s].st
    BY <1>1 DEF SPObject
  <2>3. UserKinds(s, o) /\ o.live
    BY <1>6, <2>1, <2>2 DEF UserKinds, Stage
  <2> QED
    BY <1>2, <2>1, <2>2, <2>3
<1>7. CASE DeleteSP(s) /\ ~sps[s].fin
  <2>1. UserWrite(s, Gone) /\ sps[s].live /\ ~sps[s].deleting
    BY <1>7 DEF DeleteSP
  <2>2. UserKinds(s, Gone)
    BY <1>7, <2>1, GoneFields DEF UserKinds, Stage
  <2> QED
    BY <1>2, <2>1, <2>2, ConstantTypes, GoneFields
<1> QED
  BY <1>3, <1>4, <1>5, <1>6, <1>7

\* The initial states.
LEMMA OwnInit == Init => OwnInv
<1> SUFFICES ASSUME Init PROVE OwnInv
  OBVIOUS
<1>1. HandShape
  <2>1. job.pc = "idle"
    BY DEF Init, Idle
  <2> QED
    BY <2>1, StepSets DEF HandShape, InHand
<1>2. AbsentBlank
  BY GoneFields DEF Init, AbsentBlank
<1> QED
  BY <1>1, <1>2, CoreInit, IdInit DEF OwnInv

\* Every step.
LEMMA OwnNext == OwnInv /\ [Next]_vars => OwnInv'
<1> SUFFICES ASSUME OwnInv, [Next]_vars PROVE HandShape' /\ AbsentBlank'
  BY CoreNext, IdNext DEF OwnInv
<1>1. TypeInv /\ sps \in [SPs -> SPObject]
  BY DEF OwnInv, CoreInv, TypeInv, TypeOK, KubeOK
<1>2. UNCHANGED sps => AbsentBlank'
  BY DEF OwnInv, AbsentBlank
<1>3. CASE JobStep
  <2>1. HandShape'
    BY <1>1, <1>3, HandJobStep DEF OwnInv
  <2>2. CASE Writes
    <3>1. PICK s \in SPs : s = job.sp
      BY <1>1, <2>2, WritesInHand
    <3>2. ASSUME NEW o \in SPObject, sps' = [sps EXCEPT ![s] = o],
                 StatusWrite(s, o) \/ GuardWrite(s, o) \/ ReleaseWrite(s, o)
          PROVE  AbsentBlank'
      <4>1. sps[s] \in SPObject
        BY <1>1
      <4>2. ~o.live => o.st = NoStatus
        BY <3>2, <4>1, GoneFields
           DEF StatusWrite, GuardWrite, ReleaseWrite, SPObject
      <4> QED
        BY <1>1, <3>2, <4>2, BlankAfterPut DEF OwnInv
    <3> QED
      BY <1>2, <2>1, <2>2, <3>1, <3>2, WriteKinds
  <2>3. CASE ~Writes
    <3>1. UNCHANGED sps
      BY <1>1, <1>3, <2>3, CallsInHand DEF DelApp, CallFrame, kube
    <3> QED
      BY <1>2, <2>1, <3>1
  <2> QED
    BY <2>2, <2>3
<1>4. ASSUME NEW s \in SPs, Begin(s) PROVE HandShape' /\ AbsentBlank'
  BY <1>1, <1>2, <1>4, BeginInHand
<1>5. ASSUME NEW s \in SPs,
             CreateSP(s) \/ EditSpec(s) \/ Annotate(s) \/ DeleteSP(s)
      PROVE  HandShape' /\ AbsentBlank'
  BY <1>1, <1>5, UserHand, UserObject, HandKept, BlankAfterPut DEF OwnInv
<1>6. CASE /\ ~JobStep
           /\ \A s \in SPs :
                 /\ ~Begin(s)
                 /\ ~(CreateSP(s) \/ EditSpec(s) \/ Annotate(s) \/ DeleteSP(s))
  <2>1. UNCHANGED sps /\ (job' = job \/ job' = Idle)
    BY <1>1, <1>6, RestHand
  <2> QED
    BY <1>2, <2>1, IdleHand, HandKept DEF OwnInv
<1> QED
  BY <1>3, <1>4, <1>5, <1>6

\* The invariant, in every behaviour.
LEMMA OwnInvariant == Spec => []OwnInv
BY OwnInit, OwnNext, PTL DEF Spec

------------------------------------------------------------------------------
(* The abstract state *)

AStage   == [s \in SPs |-> Stage(sps[s])]
AKnown   == {s \in SPs : sps[s].st.id # 0}
AReady   == {s \in SPs : sps[s].st.phase = "Ready"}
AWorker  == IF InHand THEN job.sp ELSE None
APresent == {n \in Names : apps[n].id # 0}

\* Steps that change nothing but the worker and the applications.
LEMMA Vanishes ==
    ASSUME UNCHANGED <<AStage, AKnown, AReady, AWorker>>, APresent' \subseteq APresent
    PROVE  AO!ANext
BY DEF AO!ANext, AO!Vanish, AStage, AKnown, AReady, AWorker, APresent

LEMMA Serves ==
    ASSUME UNCHANGED <<AStage, AKnown, AReady>>, AWorker # None,
           AWorker' \in {AWorker, None}
    PROVE  AO!ANext
<1>1. APresent' \in SUBSET Names
  BY DEF APresent
<1> QED
  BY <1>1 DEF AO!ANext, AO!Serve, AStage, AKnown, AReady, AWorker, APresent

LEMMA Engages ==
    ASSUME UNCHANGED <<AStage, AKnown, AReady, APresent>>, NEW s \in SPs,
           AWorker = None, AWorker' = s, AStage[s] \in {"guarded", "closing"}
    PROVE  AO!ANext
BY DEF AO!ANext, AO!Engage, AStage, AKnown, AReady, AWorker, APresent

\* Steps that change how far the object s is.
Staged(s, from, to) ==
    /\ AStage[s] = from /\ AStage' = [AStage EXCEPT ![s] = to]
    /\ UNCHANGED <<AWorker, APresent>>

LEMMA Stages ==
    ASSUME NEW s \in SPs,
           \/ /\ UNCHANGED <<AKnown, AReady>>
              /\ \/ Staged(s, "absent", "bare") \/ Staged(s, "bare", "guarded")
                 \/ Staged(s, "guarded", "closing")
           \/ /\ AKnown' = AKnown \ {s} /\ AReady' = AReady \ {s}
              /\ \/ Staged(s, "bare", "absent")
                 \/ AWorker # s /\ Staged(s, "closing", "absent")
    PROVE  AO!ANext
BY DEF AO!ANext, AO!Create, AO!Guard, AO!Close, AO!Abandon, AO!Release, AO!Moves,
       AO!Keeps, Staged, AStage, AKnown, AReady, AWorker, APresent

\* Steps that write the status of the object s.
LEMMA Reports ==
    ASSUME NEW s \in SPs, UNCHANGED <<AStage, APresent>>,
           AWorker = s, AWorker' \in {s, None}, AStage[s] # "absent",
           AKnown' \in {AKnown, AKnown \cup {s}},
           AReady' \in {AReady \ {s}, (AReady \cup {s}) \cap AKnown'}
    PROVE  AO!ANext
BY DEF AO!ANext, AO!Report, AStage, AKnown, AReady, AWorker, APresent

LEMMA Demotes ==
    ASSUME NEW s \in SPs, UNCHANGED <<AStage, AKnown, AWorker, APresent>>,
           AReady' = AReady \ {s}
    PROVE  AO!ANext
BY DEF AO!ANext, AO!Demote, AStage, AKnown, AReady, AWorker, APresent

\* What is left of a step that leaves the objects, or the applications, alone.
LEMMA StillObjects == UNCHANGED sps => UNCHANGED <<AStage, AKnown, AReady>>
BY DEF AStage, AKnown, AReady

LEMMA StillApps == UNCHANGED apps => UNCHANGED APresent
BY DEF APresent

LEMMA FewerApps ==
    ASSUME \A n \in Names : apps'[n].id # 0 => apps[n].id # 0
    PROVE  APresent' \subseteq APresent
BY DEF APresent

\* An object put in the place of s.
LEMMA ObjectStep ==
    ASSUME sps \in [SPs -> SPObject], NEW s \in SPs, NEW o \in SPObject,
           sps' = [sps EXCEPT ![s] = o]
    PROVE  /\ AStage[s] = Stage(sps[s]) /\ AStage' = [AStage EXCEPT ![s] = Stage(o)]
           /\ AKnown' = IF o.st.id # 0 THEN AKnown \cup {s} ELSE AKnown \ {s}
           /\ AReady' = IF o.st.phase = "Ready" THEN AReady \cup {s} ELSE AReady \ {s}
           /\ s \in AKnown <=> sps[s].st.id # 0
           /\ s \in AReady <=> sps[s].st.phase = "Ready"
           /\ Stage(o) = Stage(sps[s]) => UNCHANGED AStage
           /\ o.st = sps[s].st => UNCHANGED <<AKnown, AReady>>
<1>1. sps' \in [SPs -> SPObject] /\ sps'[s] = o /\ \A t \in SPs \ {s} : sps'[t] = sps[t]
  OBVIOUS
<1>2. AStage[s] = Stage(sps[s])
  BY DEF AStage
<1>3. AStage' = [AStage EXCEPT ![s] = Stage(o)]
  <2>1. AStage' = [t \in SPs |-> Stage(sps'[t])]
    BY DEF AStage, Stage
  <2>2. \A t \in SPs : Stage(sps'[t]) = IF t = s THEN Stage(o) ELSE Stage(sps[t])
    BY <1>1
  <2> QED
    BY <2>1, <2>2 DEF AStage
<1>4. AKnown' = IF o.st.id # 0 THEN AKnown \cup {s} ELSE AKnown \ {s}
  BY <1>1 DEF AKnown
<1>5. AReady' = IF o.st.phase = "Ready" THEN AReady \cup {s} ELSE AReady \ {s}
  BY <1>1 DEF AReady
<1>6. (s \in AKnown <=> sps[s].st.id # 0) /\ (s \in AReady <=> sps[s].st.phase = "Ready")
  BY DEF AKnown, AReady
<1>7. Stage(o) = Stage(sps[s]) => UNCHANGED AStage
  BY <1>2, <1>3 DEF AStage
<1>8. o.st = sps[s].st => UNCHANGED <<AKnown, AReady>>
  BY <1>4, <1>5, <1>6
<1> QED
  BY <1>2, <1>3, <1>4, <1>5, <1>6, <1>7, <1>8

------------------------------------------------------------------------------
(* Every step is one of the abstract specification *)

LEMMA WriteRefines ==
    ASSUME OwnInv, Writes, NEW s \in SPs, s = job.sp
    PROVE  AO!ANext
<1>1. /\ s # None /\ UNCHANGED APresent /\ TypeInv
      /\ sps \in [SPs -> SPObject] /\ sps[s] \in SPObject
  BY WritesInHand, StillApps, TypesAssumption
     DEF OwnInv, CoreInv, TypeInv, TypeOK, KubeOK
<1>2. /\ InHand => AWorker = s /\ AWorker' \in {s, None}
      /\ ~InHand => AWorker = None /\ AWorker' = None
  BY <1>1, WritesInHand, IdleHand DEF AWorker
<1>3. AReady \subseteq AKnown
  BY DEF AReady, AKnown, OwnInv, IdInv, IdKept, IdIfReady
<1>4. CASE UNCHANGED sps
  BY <1>1, <1>2, <1>4, StillObjects, Vanishes, Serves
<1>5. ASSUME NEW o \in SPObject, sps' = [sps EXCEPT ![s] = o], Recorded(s, o),
             StatusWrite(s, o)
      PROVE  AO!ANext
  <2>1. Stage(o) = Stage(sps[s]) /\ Stage(sps[s]) # "absent"
    BY <1>1, <1>5 DEF StatusWrite, Stage, SPObject
  <2>2. UNCHANGED AStage /\ AStage[s] # "absent"
    BY <1>1, <1>5, <2>1, ObjectStep
  <2>3. o.live /\ IdIfReady(o.st) /\ (sps[s].st.id # 0 => o.st.id # 0)
    BY <1>1, <1>5 DEF StatusWrite, SPObject, Recorded
  <2>4. CASE InHand
    <3>1. AKnown' \in {AKnown, AKnown \cup {s}}
      <4>1. CASE o.st.id # 0
        BY <1>1, <1>5, <4>1, ObjectStep
      <4>2. CASE o.st.id = 0
        <5>1. AKnown' = AKnown \ {s} /\ s \notin AKnown
          BY <1>1, <1>5, <2>3, <4>2, ObjectStep
        <5> QED
          BY <5>1
      <4> QED
        BY <4>1, <4>2
    <3>2. CASE o.st.phase = "Ready"
      <4>1. AReady' = AReady \cup {s} /\ AKnown' = AKnown \cup {s}
        BY <1>1, <1>5, <2>3, <3>2, ObjectStep DEF IdIfReady
      <4>2. AReady' = (AReady \cup {s}) \cap AKnown'
        BY <1>3, <4>1
      <4> QED
        BY <1>1, <1>2, <2>2, <2>4, <3>1, <4>2, Reports
    <3>3. CASE o.st.phase # "Ready"
      <4>1. AReady' = AReady \ {s}
        BY <1>1, <1>5, <3>3, ObjectStep
      <4> QED
        BY <1>1, <1>2, <2>2, <2>4, <3>1, <4>1, Reports
    <3> QED
      BY <3>2, <3>3
  <2>5. CASE ~InHand
    <3>1. o.st.phase # "Ready" /\ o.st.id = sps[s].st.id
      BY <1>5, <2>5 DEF StatusWrite
    <3>2. /\ AReady' = AReady \ {s}
          /\ AKnown' = IF o.st.id # 0 THEN AKnown \cup {s} ELSE AKnown \ {s}
          /\ s \in AKnown <=> o.st.id # 0
      BY <1>1, <1>5, <3>1, ObjectStep
    <3>3. AKnown' = AKnown
      BY <3>2
    <3> QED
      BY <1>1, <1>2, <2>2, <2>5, <3>2, <3>3, Demotes
  <2> QED
    BY <2>4, <2>5
<1>6. ASSUME NEW o \in SPObject, sps' = [sps EXCEPT ![s] = o], GuardWrite(s, o)
      PROVE  AO!ANext
  <2>1. Stage(sps[s]) = "bare" /\ Stage(o) = "guarded" /\ o.st = sps[s].st
    BY <1>6 DEF GuardWrite, Stage
  <2>2. UNCHANGED <<AKnown, AReady, AWorker>>
    BY <1>1, <1>2, <1>6, <2>1, ObjectStep DEF GuardWrite
  <2> QED
    BY <1>1, <1>6, <2>1, <2>2, ObjectStep, Stages DEF Staged
<1>7. ASSUME NEW o \in SPObject, sps' = [sps EXCEPT ![s] = o], ReleaseWrite(s, o)
      PROVE  AO!ANext
  <2>1. Stage(sps[s]) = "closing" /\ Stage(o) = "absent" /\ o.st = NoStatus
    BY <1>7, GoneFields DEF ReleaseWrite, Stage
  <2>2. AKnown' = AKnown \ {s} /\ AReady' = AReady \ {s}
    <3>1. o.st.id = 0 /\ o.st.phase # "Ready"
      BY <2>1, GoneFields
    <3> QED
      BY <1>1, <1>7, <3>1, ObjectStep
  <2>3. AWorker = None /\ UNCHANGED AWorker
    BY <1>2, <1>7 DEF ReleaseWrite
  <2>4. AStage[s] = Stage(sps[s]) /\ AStage' = [AStage EXCEPT ![s] = Stage(o)]
    BY <1>1, <1>7, ObjectStep
  <2>5. Staged(s, "closing", "absent")
    BY <1>1, <2>1, <2>3, <2>4 DEF Staged
  <2> QED
    BY <1>1, <2>2, <2>3, <2>5, Stages
<1> QED
  BY <1>4, <1>5, <1>6, <1>7, WriteKinds

\* Calls of the server, and the deletion of the application.
LEMMA CallRefines == ASSUME OwnInv, JobStep, ~Writes PROVE AO!ANext
<1>1. TypeInv
  BY DEF OwnInv, CoreInv
<1>2. CASE ~DelApp
  <2>1. /\ job.pc \in AppSteps /\ UNCHANGED kube
        /\ job' = Idle \/ (job'.sp = job.sp /\ job'.copy = job.copy)
    BY <1>1, <1>2, CallsInHand
  <2>2. InHand /\ job.sp \in SPs
    BY <1>1, <2>1, StepSets DEF InHand, TypeInv, JobShape
  <2>3. AWorker # None /\ AWorker' \in {AWorker, None}
    BY <2>1, <2>2, IdleHand, TypesAssumption DEF AWorker
  <2> QED
    BY <2>1, <2>3, StillObjects, Serves DEF kube
<1>3. CASE DelApp
  <2>1. job.pc = "delApp" /\ job'.pc = "rmFin" /\ UNCHANGED sps
    BY <1>1, <1>3 DEF DelApp, Goto, TypeInv, TypeOK, ControlOK, Job, CallFrame, kube
  <2>2. ~InHand /\ ~InHand'
    BY <2>1, StepSets DEF InHand
  <2>3. \A n \in Names : apps'[n].id # 0 => apps[n].id # 0
    BY <1>1, <1>3 DEF DelApp, DropApp, remote, NoApp, TypeInv, TypeOK, RemoteOK
  <2> QED
    BY <2>1, <2>2, <2>3, StillObjects, FewerApps, Vanishes DEF AWorker
<1> QED
  BY <1>2, <1>3

LEMMA BeginRefines ==
    ASSUME OwnInv, NEW s \in SPs, Begin(s)
    PROVE  AO!ANext
<1>1. TypeInv
  BY DEF OwnInv, CoreInv
<1>2. /\ UNCHANGED <<AStage, AKnown, AReady, APresent>> /\ AWorker = None
      /\ InHand' => job'.sp = s /\ Workable(cache[s])
  BY <1>1, BeginInHand, StillObjects, StillApps DEF AWorker
<1>3. CASE InHand'
  <2>1. sps[s].live /\ sps[s].fin
    BY <1>2, <1>3 DEF OwnInv, CoreInv, FinalizerStays, Readable
  <2>2. AStage[s] \in {"guarded", "closing"}
    BY <2>1 DEF AStage, Stage
  <2>3. AWorker' = s
    BY <1>2, <1>3 DEF AWorker
  <2> QED
    BY <1>2, <2>2, <2>3, Engages
<1>4. CASE ~InHand'
  <2>1. AWorker' = None
    BY <1>4 DEF AWorker
  <2> QED
    BY <1>2, <2>1, Vanishes
<1> QED
  BY <1>3, <1>4

LEMMA UserRefines ==
    ASSUME OwnInv, NEW s \in SPs,
           CreateSP(s) \/ EditSpec(s) \/ Annotate(s) \/ DeleteSP(s)
    PROVE  AO!ANext
<1>1. TypeInv /\ HandShape /\ sps \in [SPs -> SPObject]
  BY DEF OwnInv, CoreInv, TypeInv, TypeOK, KubeOK
<1>2. UNCHANGED <<AWorker, APresent>>
  BY <1>1, UserHand, HandKept, StillApps DEF AWorker
<1>3. PICK o \in SPObject : sps' = [sps EXCEPT ![s] = o] /\ UserKinds(s, o)
  BY <1>1, UserObject
<1>4. CASE Stage(sps[s]) = "absent" /\ Stage(o) = "bare" /\ o.st = NoStatus
  <2>1. sps[s].st = NoStatus
    BY <1>4 DEF OwnInv, AbsentBlank, Stage
  <2> QED
    BY <1>1, <1>2, <1>3, <1>4, <2>1, ObjectStep, Stages DEF Staged
<1>5. CASE Stage(o) = Stage(sps[s]) /\ o.live /\ o.st = sps[s].st
  BY <1>1, <1>2, <1>3, <1>5, ObjectStep, Vanishes
<1>6. CASE Stage(sps[s]) = "guarded" /\ Stage(o) = "closing" /\ o.st = sps[s].st
  BY <1>1, <1>2, <1>3, <1>6, ObjectStep, Stages DEF Staged
<1>7. CASE Stage(sps[s]) = "bare" /\ Stage(o) = "absent" /\ o.st = NoStatus
  <2>1. AKnown' = AKnown \ {s} /\ AReady' = AReady \ {s}
    BY <1>1, <1>3, <1>7, ObjectStep, GoneFields
  <2> QED
    BY <1>1, <1>2, <1>3, <1>7, <2>1, ObjectStep, Stages DEF Staged
<1> QED
  BY <1>3, <1>4, <1>5, <1>6, <1>7 DEF UserKinds

LEMMA RestRefines ==
    ASSUME OwnInv, [Next]_vars, ~JobStep,
           \A s \in SPs : /\ ~Begin(s)
                          /\ ~(CreateSP(s) \/ EditSpec(s) \/ Annotate(s) \/ DeleteSP(s))
    PROVE  AO!ANext
<1>1. TypeInv /\ HandShape
  BY DEF OwnInv, CoreInv
<1>2. /\ UNCHANGED <<AStage, AKnown, AReady>> /\ (job' = job \/ job' = Idle)
      /\ APresent' \subseteq APresent
  BY <1>1, RestHand, StillObjects, FewerApps
<1>3. CASE job' = job
  BY <1>1, <1>2, <1>3, HandKept, Vanishes DEF AWorker
<1>4. CASE job' = Idle
  <2>1. AWorker' = None
    BY <1>4, IdleHand DEF AWorker
  <2> QED
    BY <1>2, <2>1, Vanishes, Serves
<1> QED
  BY <1>2, <1>3, <1>4

\* The initial states.
LEMMA RefinesInit == Init => AO!AInit
<1>1. ASSUME Init, NEW s \in SPs
      PROVE  Stage(sps[s]) = "absent" /\ sps[s].st.id = 0 /\ sps[s].st.phase = ""
  BY <1>1, GoneFields DEF Init, Stage
<1>2. ASSUME Init PROVE ~InHand /\ \A n \in Names : apps[n].id = 0
  BY <1>2, StepSets DEF Init, Idle, InHand, NoApp
<1> QED
  BY <1>1, <1>2 DEF AO!AInit

\* Every step, of the controller or not.
LEMMA RefinesNext == ASSUME OwnInv, [Next]_vars PROVE AO!ANext
<1>1. Writes => job.sp \in SPs
  BY WritesInHand DEF OwnInv, CoreInv
<1> QED
  BY <1>1, WriteRefines, CallRefines, BeginRefines, UserRefines,
     RestRefines

\* The controller implements AppOwnership: with stale caches, conflicts that
\* are swallowed, failed calls and restarts, it creates applications only while
\* it has an object with finalizer in hand, keeps the IDs it recorded, declares
\* Ready only what has one, and releases no object that is in hand (Reconcile,
\* handleDelete, reconcileApplication, setPhase).
THEOREM ControllerOwns == Spec => Ownership
<1>1. OwnInv /\ [Next]_vars => [AO!ANext]_(AO!avars)
  BY RefinesNext
<1> QED
  BY <1>1, RefinesInit, OwnInvariant, PTL DEF Ownership, AO!ASpec, Spec

------------------------------------------------------------------------------
(* The controller as a part of something larger *)

\* A server refuses a call, whatever the budget; handleDelete goes on.
Refusal ==
    /\ job.pc \in (AppSteps \cap Failures) \cup {"delApp"}
    /\ IF job.pc = "delApp" THEN Goto("rmFin") ELSE Requeue \/ Fail
    /\ CallFrame /\ UNCHANGED <<remote, left>>

\* buildClient sees another instance.
Sight == inst' \in InstStates /\ UNCHANGED <<kube, md, secrets, control, remote, left>>

\* The manager stops, and the next one sees another instance.
Stop == Spend("crash") /\ Restart /\ inst' \in InstStates

\* What the surroundings may do besides.
Outer == Refusal \/ Sight \/ Stop

LEMMA OuterType == ASSUME TypeInv, Outer PROVE TypeInv'
<1>1. CASE Refusal
  <2>1. job.pc # "idle" /\ job \in Job /\ RemoteOK
    BY <1>1, StepSets DEF Refusal, TypeInv, TypeOK, ControlOK
  <2>2. JobInv'
    <3>1. CASE job.pc = "delApp"
      BY <1>1, <2>1, <3>1, GotoType
         DEF Refusal, Steps, OAuthSteps, SamlSteps, TypeInv, JobShape
    <3>2. CASE job.pc \in Failures /\ job.pc # "delApp"
      BY <1>1, <2>1, <3>2, EndType, FailType DEF Refusal
    <3> QED
      BY <1>1, <3>1, <3>2 DEF Refusal
  <2>3. RemoteOK' /\ left' \in [Kinds -> Nat]
    BY <1>1, <2>1 DEF Refusal, remote, RemoteOK, TypeInv, TypeOK
  <2> QED
    BY <1>1, <2>2, <2>3, CallStepType DEF Refusal
<1>2. CASE Sight
  BY <1>2
     DEF Sight, kube, secrets, control, remote, TypeInv, TypeOK, KubeOK, EnvOK,
         SecretsOK, ControlOK, RemoteOK, JobShape, Wanted
<1> QED
  BY <1>1, <1>2, RestartType DEF Outer, Stop

\* A refused call leaves the object alone, and keeps it in hand or lets it go.
LEMMA RefusalInHand ==
    ASSUME TypeInv, Refusal
    PROVE  /\ QuietJob /\ UNCHANGED apps
           /\ \/ InHand /\ Onward
              \/ ~InHand /\ job'.pc = "rmFin"
<1>1. /\ job \in Job /\ job.mem \in Status /\ job.pc # "idle"
      /\ UNCHANGED <<kube, queue, apps>>
  BY StepSets DEF Refusal, CallFrame, remote, TypeInv, TypeOK, ControlOK, Job
<1>2. CASE job.pc = "delApp"
  <2>1. Goto("rmFin") /\ job'.pc = "rmFin"
    BY <1>1, <1>2 DEF Refusal, Goto, Job
  <2>2. "rmFin" \in Steps \ (AppSteps \cup {"setPhase"})
    BY StepSets DEF Steps
  <2>3. QuietJob
    BY <1>1, <2>1, <2>2, QuietOutcomes DEF AppSteps, Parts
  <2> QED
    BY <1>1, <1>2, <2>1, <2>3, StepSets DEF InHand
<1>3. CASE job.pc # "delApp"
  <2>1. job.pc \in AppSteps /\ job.pc \in Failures /\ (Requeue \/ Fail)
    BY <1>3 DEF Refusal
  <2> QED
    BY <1>1, <2>1, QuietOutcomes, SharedOnward DEF InHand
<1> QED
  BY <1>2, <1>3

\* No such step leads out of the invariant ...
LEMMA OuterOwn == ASSUME OwnInv, Outer PROVE OwnInv'
<1>1. TypeInv /\ TypeInv' /\ CoreInv /\ IdInv /\ HandShape
  BY OuterType DEF OwnInv, CoreInv
<1>2. CASE Refusal
  <2>1. QuietJob /\ (job' = Idle \/ job'.copy = job.copy) /\ job.pc # "idle"
    BY <1>1, <1>2, RefusalInHand DEF QuietJob
  <2>2. CoreInv' /\ IdInv'
    BY <1>1, <2>1, CoreQuiet, IdQuiet
  <2>3. HandShape'
    BY <1>1, <1>2, <2>1, RefusalInHand, IdleHand, StepSets DEF HandShape, InHand, Onward
  <2>4. AbsentBlank'
    BY <2>1 DEF QuietJob, kube, OwnInv, AbsentBlank
  <2> QED
    BY <2>2, <2>3, <2>4 DEF OwnInv
<1>3. CASE Sight
  <2>1. UNCHANGED <<kube, job>> /\ queue' = queue
    BY <1>3 DEF Sight, control
  <2>2. CoreInv' /\ HandShape'
    BY <1>1, <2>1, CoreElsewhere, HandKept
  <2> QED
    BY <2>1, <2>2
       DEF kube, OwnInv, AbsentBlank, IdInv, IdKept, IdInJob, IdAtWork, At, AtWork, Readable
<1>4. CASE Stop
  <2>1. Restart /\ job' = Idle /\ sps' = sps
    BY <1>4 DEF Stop, Restart
  <2>2. CoreInv' /\ IdInv' /\ HandShape'
    BY <1>1, <2>1, CoreRestart, IdDelivery, IdleHand
  <2> QED
    BY <2>1, <2>2 DEF OwnInv, AbsentBlank
<1> QED
  BY <1>2, <1>3, <1>4 DEF Outer

\* ... each is one of the abstract specification ...
LEMMA OuterRefines == ASSUME OwnInv, Outer PROVE AO!ANext
<1>1. TypeInv /\ HandShape
  BY DEF OwnInv, CoreInv
<1>2. UNCHANGED <<AStage, AKnown, AReady, APresent>>
  <2>1. UNCHANGED <<sps, apps>>
    BY <1>1, RefusalInHand DEF Outer, QuietJob, kube, Sight, Stop, Restart, remote
  <2> QED
    BY <2>1, StillObjects, StillApps
<1>3. CASE AWorker' = AWorker
  BY <1>2, <1>3, Vanishes
<1>4. CASE InHand /\ AWorker' \in {AWorker, None}
  <2>1. job.sp \in SPs
    BY <1>1, <1>4, StepSets DEF InHand, TypeInv, JobShape
  <2> QED
    BY <1>2, <1>4, <2>1, Serves, TypesAssumption DEF AWorker
<1>5. CASE job' = Idle
  BY <1>3, <1>4, <1>5, IdleHand DEF AWorker
<1>6. CASE Refusal /\ job' # Idle
  BY <1>1, <1>3, <1>4, <1>6, RefusalInHand, StepSets DEF QuietJob, InHand, AWorker
<1>7. CASE Sight
  BY <1>3, <1>7 DEF Sight, control, AWorker, InHand
<1> QED
  BY <1>5, <1>6, <1>7 DEF Outer, Stop, Restart

\* ... and none forgets an object.
LEMMA OuterAwake == ASSUME CoreInv, AwakeInv, Outer PROVE AwakeInv'
<1>1. TypeInv
  BY DEF CoreInv
<1>2. UNCHANGED left \/ Spend("crash")
  BY DEF Outer, Refusal, Sight, Stop
<1>3. BudgetKept' /\ left'["api"] = left["api"]
  BY <1>1, <1>2, BudgetAssumption DEF AwakeInv, BudgetKept, Spend, Kinds, TypeInv, TypeOK
<1>4. StaysAwake => StaysAwake'
  <2>1. QuietJob \/ Elsewhere \/ Restart
    BY <1>1, RefusalInHand DEF Outer, Sight, Stop, Elsewhere, control
  <2> QED
    BY <2>1, AwakeElsewhere
<1> QED
  BY <1>3, <1>4 DEF AwakeInv, NoLostWakeup

\* None of it changes an object, a Secret or what the server has.
LEMMA OuterLeaves == ASSUME Outer PROVE UNCHANGED <<sps, secret, apps, oauth, saml>>
BY DEF Outer, Refusal, CallFrame, Sight, Stop, Restart, kube, secrets, remote

LEMMA OuterKey == ASSUME SecretInv, Outer PROVE KeyInJob'
<1>1. TypeInv /\ KeyInJob
  BY DEF SecretInv
<1>2. KeyFree => KeyInJob'
  BY DEF KeyFree, KeyInJob
<1>3. CASE Refusal
  BY <1>1, <1>2, <1>3, EndKeyFree, OtherSteps DEF Refusal
<1>4. CASE Sight
  BY <1>1, <1>4 DEF Sight, control, KeyInJob
<1>5. CASE Stop
  BY <1>1, <1>2, <1>5, EndKeyFree DEF Stop, Restart
<1> QED
  BY <1>3, <1>4, <1>5 DEF Outer

\* What holds of a reconciliation holds of it with another sight.
LEMMA SightKeeps ==
    ASSUME Sight
    PROVE  /\ Dropped => Dropped'
           /\ (AtWork /\ Spared => PartsServed) => (AtWork' /\ Spared' => PartsServed')
<1>1. UNCHANGED <<job, apps, oauth, saml, secret, legacy, left>>
  BY DEF Sight, control, remote, secrets
<1>2. Dropped => Dropped'
  BY <1>1 DEF Dropped, Wanted
<1>3. (AtWork' <=> AtWork) /\ (Spared' <=> Spared) /\ (PartsServed' <=> PartsServed)
  BY <1>1 DEF AtWork, Spared, PartsServed, OAuthDue, SamlDue, Wanted, At
<1> QED
  BY <1>2, <1>3

==============================================================================
