------------------------- MODULE SPReconcilerProofs -------------------------
(***************************************************************************)
(* Theorems about SPReconciler, for all values of its constants: types,    *)
(* and the safety properties that the runs of MCSPReconciler check.        *)
(***************************************************************************)
EXTENDS SPReconciler, SequenceTheorems, TLAPS

------------------------------------------------------------------------------
(* Values *)

\* The constants of the types are in their sets.
LEMMA ConstantTypes ==
    /\ Gone \in SPObject /\ ~Gone.live
    /\ NoStatus \in Status /\ NoSecret \in Secret
    /\ NoApp \in App /\ NoOAuth \in OAuthRecord /\ Idle \in Job
    /\ \A spec \in Specs : NewSP(spec) \in SPObject
<1>1. NoStatus \in Status
  BY DEF NoStatus, Status, Phases, Reasons
<1>2. \A spec \in Specs : NewSP(spec) \in SPObject
  BY <1>1, TypesAssumption DEF NewSP, SPObject
<1>3. Gone \in SPObject /\ ~Gone.live
  <2>1. (CHOOSE spec \in Specs : TRUE) \in Specs
    BY TypesAssumption
  <2> QED
    BY <2>1, <1>2 DEF Gone, SPObject
<1>4. NoSecret \in Secret
  BY DEF NoSecret, Secret
<1>5. NoApp \in App /\ NoOAuth \in OAuthRecord
  BY TypesAssumption DEF NoApp, App, BareCfg, AppCfg, NoOAuth, OAuthRecord
<1>6. Idle \in Job
  BY <1>1, <1>3 DEF Idle, Job, Steps
<1> QED
  BY <1>1, <1>2, <1>3, <1>4, <1>5, <1>6

\* The fields of an object that does not exist.
LEMMA GoneFields == ~Gone.live /\ Gone.st = NoStatus /\ NoStatus.id = 0 /\ NoStatus.phase = ""
BY DEF Gone, NewSP, NoStatus

\* Defaults are put into a spec, and never take it out of its type.
LEMMA DefaultedType ==
    ASSUME NEW spec \in SPSpec PROVE Defaulted(spec) \in SPSpec
BY TypesAssumption DEF Defaulted, SPSpec, OAuthCfg

\* A merge patch yields a status, and each field is the old or the new one.
LEMMA StatusPatchFields ==
    ASSUME NEW server \in Status, NEW base \in Status, NEW new \in Status
    PROVE  LET st == StatusPatch(server, base, new) IN
           /\ st \in Status
           /\ st.phase = IF base.phase # new.phase THEN new.phase ELSE server.phase
           /\ st.id = IF base.id # new.id THEN new.id ELSE server.id
<1>1. DOMAIN server = {"phase", "why", "id", "admin"}
  BY DEF Status
<1> QED
  BY <1>1 DEF StatusPatch, Status

\* updateApplication yields an application.
LEMMA AppliedType ==
    ASSUME NEW app \in App, NEW spec \in SPSpec, NEW sec \in Secret
    PROVE  Applied(app, spec, sec) \in App /\ Applied(app, spec, sec).id = app.id
<1>1. InboundKey(spec, sec) \in Nat /\ InboundIssuer(spec, sec) \in Issuers \cup {None}
  BY DEF InboundKey, InboundIssuer, Secret
<1> QED
  BY <1>1, TypesAssumption DEF Applied, App, SPSpec

------------------------------------------------------------------------------
(* Types: the parts that several actions share *)

TypeInv == TypeOK /\ JobShape

\* What an action owes of the job and of the delayed keys.
JobInv == job \in Job /\ delayed \subseteq SPs /\ JobShape

\* A disturbance leaves natural numbers in the budget.
LEMMA SpendType ==
    ASSUME left \in [Kinds -> Nat], NEW k \in Kinds, Spend(k)
    PROVE  left' \in [Kinds -> Nat]
BY DEF Spend

\* A write of an object keeps the types of the Kubernetes side.
LEMMA PutType ==
    ASSUME KubeOK, NEW s \in SPs, NEW o \in SPObject, Put(s, o)
    PROVE  KubeOK'
<1>1. Append(pending[s], o) \in Seq(SPObject)
  BY DEF KubeOK
<1> QED
  BY <1>1 DEF KubeOK, Put

\* What a reconciliation starts with.
LEMMA SnapshotType ==
    ASSUME KubeOK, NEW s \in SPs, NEW pc \in Steps
    PROVE  /\ Snapshot(s, pc) \in Job
           /\ Snapshot(s, pc).pc = pc /\ Snapshot(s, pc).sp = s
           /\ Snapshot(s, pc).copy = cache[s] /\ Snapshot(s, pc).mem = cache[s].st
           /\ Snapshot(s, pc).base = cache[s].st
           /\ Snapshot(s, pc).current = (pending[s] = <<>>)
<1>1. cache[s] \in SPObject /\ cache[s].st \in Status
  BY DEF KubeOK, SPObject
<1> QED
  BY <1>1, ConstantTypes DEF Snapshot, Idle, Job

\* Ends of a reconciliation.
LEMMA EndType ==
    ASSUME TypeInv, job.pc # "idle", Done \/ Requeue
    PROVE  JobInv'
<1>1. job.sp \in SPs
  BY DEF TypeInv, JobShape
<1>2. Idle \in Job /\ Idle.pc = "idle"
  BY ConstantTypes DEF Idle
<1> QED
  BY <1>1, <1>2
     DEF TypeInv, TypeOK, ControlOK, JobInv, JobShape, Done, Requeue, OAuthSteps,
         SamlSteps

\* Both branches of setPhase.
LEMMA SetPhaseType ==
    ASSUME delayed \subseteq SPs, NEW j \in Job, j.sp \in SPs,
           NEW phase \in Phases, NEW why \in Reasons, SetPhase(j, phase, why)
    PROVE  JobInv'
<1>1. Idle \in Job /\ Idle.pc = "idle"
  BY ConstantTypes DEF Idle
<1>2. CASE job' = [j EXCEPT !.pc = "setPhase", !.mem.phase = phase, !.mem.why = why]
           /\ UNCHANGED delayed
  <2>1. j.mem \in Status
    BY DEF Job
  <2>2. [[j.mem EXCEPT !.phase = phase] EXCEPT !.why = why] \in Status
    BY <2>1 DEF Status
  <2>3. job' \in Job /\ job'.pc = "setPhase" /\ job'.sp = j.sp
    BY <1>2, <2>1, <2>2 DEF Job, Steps
  <2> QED
    BY <1>2, <2>3 DEF JobInv, JobShape, OAuthSteps, SamlSteps
<1>3. CASE job' = Idle /\ delayed' = delayed \cup {j.sp}
  BY <1>1, <1>3 DEF JobInv, JobShape, OAuthSteps, SamlSteps
<1> QED
  BY <1>2, <1>3 DEF SetPhase

\* setPhase with the failure of the step the job is in.
LEMMA FailType ==
    ASSUME TypeInv, job.pc \in Failures, Fail
    PROVE  JobInv'
<1>1. job \in Job /\ job.sp \in SPs /\ delayed \subseteq SPs
  BY DEF TypeInv, TypeOK, ControlOK, JobShape, Failures
<1> QED
  BY <1>1, SetPhaseType DEF Fail, Phases, Reasons

\* A step to pc finds there what JobShape promises.
LEMMA GotoType ==
    ASSUME TypeInv, NEW pc \in Steps, job.pc # "idle", Goto(pc),
           pc \in OAuthSteps => Wanted.oauth # None,
           pc \in SamlSteps \ {"samlGet"} => job.meta # None,
           pc = "addFin" => job.copy.live /\ ~job.copy.fin,
           pc \in {"delApp", "rmFin"} => job.copy.deleting
    PROVE  JobInv'
<1>1. job \in Job /\ job.sp \in SPs /\ delayed \subseteq SPs
  BY DEF TypeInv, TypeOK, ControlOK, JobShape
<1>2. job' \in Job /\ job'.pc = pc /\ job'.sp = job.sp /\ job'.copy = job.copy
      /\ job'.meta = job.meta /\ delayed' = delayed
  BY <1>1 DEF Goto, Job
<1> QED
  BY <1>1, <1>2 DEF JobInv, JobShape, Wanted

\* The application steps come after the inbound ones.
LEMMA NextStepType ==
    ASSUME NEW o \in SPObject
    PROVE  /\ AfterOAuth(o) \in {"samlGet", "appGet"}
           /\ FirstStep(o) \in {"oauthGet", "samlGet", "appGet"}
           /\ FirstStep(o) = "oauthGet" => o.spec.oauth # None
BY DEF AfterOAuth, FirstStep

\* The cascade of an application that is deleted.
LEMMA DropAppType ==
    ASSUME RemoteOK, NEW n \in Names, DropApp(n)
    PROVE  RemoteOK'
<1>1. NoApp \in App /\ NoOAuth \in OAuthRecord
  BY ConstantTypes
<1>2. apps' \in [Names -> App]
  BY <1>1 DEF RemoteOK, DropApp
<1>3. oauth' \in [Names -> OAuthRecord]
  BY <1>1 DEF RemoteOK, DropApp
<1>4. saml' \in [Issuers -> AcsLists \cup {None}]
  BY DEF RemoteOK, DropApp
<1> QED
  BY <1>2, <1>3, <1>4 DEF RemoteOK, DropApp

------------------------------------------------------------------------------
(* Types: the steps of a reconciliation *)

\* The first step of a reconciliation finds what JobShape promises.
LEMMA StartType ==
    ASSUME TypeInv, NEW s \in SPs, NEW pc \in Steps, Start(s, pc),
           pc \in OAuthSteps => cache[s].spec.oauth # None,
           pc \notin SamlSteps \ {"samlGet"},
           pc = "addFin" => cache[s].live /\ ~cache[s].fin,
           pc \in {"delApp", "rmFin"} => cache[s].deleting
    PROVE  JobInv'
BY SnapshotType DEF Start, TypeInv, TypeOK, ControlOK, JobInv, JobShape, Wanted

\* The start of a reconciliation.
LEMMA BeginType == ASSUME TypeInv, NEW s \in SPs, Begin(s) PROVE TypeInv'
<1> USE DEF TypeInv, TypeOK
<1>1. Take(s)
  BY DEF Begin, ReconcileGone, ReconcilePaused, ReconcileNotReady, ReconcileDelete,
         ReconcileFinalize, ReconcileApply
<1>2. KubeOK' /\ EnvOK' /\ SecretsOK' /\ RemoteOK' /\ left' \in [Kinds -> Nat]
      /\ queue' \subseteq SPs
  BY <1>1
     DEF Take, kube, env, remote, KubeOK, EnvOK, SecretsOK, Legacies, RemoteOK, ControlOK
<1>3. cache[s] \in SPObject
  BY DEF KubeOK
<1>4. JobInv'
  <2>1. CASE UNCHANGED <<delayed, job>>
    BY <2>1 DEF JobInv, JobShape, ControlOK, Wanted
  <2>2. CASE ReconcilePaused(s)
    BY <2>1, <2>2, StartType DEF ReconcilePaused, Steps, OAuthSteps, SamlSteps
  <2>3. CASE ReconcileNotReady(s)
    <3>1. "idle" \in Steps /\ "Pending" \in Phases /\ "instance" \in Reasons
      BY DEF Steps, Phases, Reasons
    <3>2. PICK j \in Job : j = Snapshot(s, "idle") /\ j.sp = s
      BY <3>1, SnapshotType
    <3>3. SetPhase(j, "Pending", "instance")
      BY <2>3, <3>2 DEF ReconcileNotReady
    <3> QED
      BY <3>1, <3>2, <3>3, SetPhaseType DEF ControlOK
  <2>4. CASE ReconcileDelete(s)
    BY <2>4, StartType DEF ReconcileDelete, Steps, OAuthSteps, SamlSteps
  <2>5. CASE ReconcileFinalize(s)
    BY <2>5, StartType DEF ReconcileFinalize, Served, Steps, OAuthSteps, SamlSteps
  <2>6. CASE ReconcileApply(s)
    BY <2>6, <1>3, NextStepType, StartType
       DEF ReconcileApply, Steps, AppSteps, Parts, AdminSteps, OAuthSteps, SamlSteps
  <2>7. CASE ReconcileGone(s)
    BY <2>1, <2>7 DEF ReconcileGone
  <2> QED
    BY <2>2, <2>3, <2>4, <2>5, <2>6, <2>7 DEF Begin
<1> QED
  BY <1>2, <1>4 DEF ControlOK, JobInv

\* Where a reconciliation goes on after a failure that setPhase swallowed.
LEMMA GoOnFields ==
    ASSUME TypeInv, NEW pc \in Steps, GoOn(pc)
    PROVE  /\ job' \in Job /\ job'.pc = pc /\ job'.sp = job.sp
           /\ job'.copy = job.copy /\ job'.mem = job.mem /\ job'.meta = job.meta
           /\ job'.base = IF pc = "patchReady" THEN job.base ELSE job.mem
           /\ job'.current = (job.current /\ kube' = kube)
           /\ delayed' = delayed
<1>1. job \in Job
  BY DEF TypeInv, TypeOK, ControlOK
<1> QED
  BY <1>1 DEF GoOn, Job

\* A swallowed failure ends the job, or it goes on after the part that failed.
LEMMA SwallowedSteps ==
    ASSUME TypeInv, Swallowed
    PROVE  \/ Done /\ job.mem.why \notin Parts
           \/ \E pc \in {"samlGet", "appGet", "patchReady"} :
                 /\ GoOn(pc) /\ job.mem.why \in Parts
                 /\ pc = "patchReady" => job.mem.why \in AdminSteps
                 /\ pc # "patchReady" => job.mem.why \in OAuthSteps \cup SamlSteps
<1>1. AfterOAuth(job.copy) \in {"samlGet", "appGet"}
  BY NextStepType DEF TypeInv, TypeOK, ControlOK, Job
<1> QED
  BY <1>1 DEF Swallowed, Parts

\* A job that goes on after a swallowed failure.
LEMMA SwallowedType ==
    ASSUME TypeInv, job.pc = "setPhase", Swallowed
    PROVE  JobInv'
<1>1. CASE Done
  BY <1>1, EndType
<1>2. ASSUME NEW pc \in {"samlGet", "appGet", "patchReady"}, GoOn(pc)
      PROVE  JobInv'
  <2>1. pc \in Steps /\ pc \notin OAuthSteps /\ pc \notin SamlSteps \ {"samlGet"}
    BY DEF Steps, AppSteps, Parts, AdminSteps, OAuthSteps, SamlSteps
  <2>2. job.sp \in SPs /\ delayed \subseteq SPs
    BY DEF TypeInv, TypeOK, ControlOK, JobShape
  <2> QED
    BY <1>2, <2>1, <2>2, GoOnFields DEF JobInv, JobShape
<1> QED
  BY <1>1, <1>2, SwallowedSteps

\* Steps that write the object.
LEMMA WriteType ==
    ASSUME TypeInv, job.pc # "idle", WriteFrame, JobInv',
           NEW o \in SPObject, Put(job.sp, o) \/ UNCHANGED kube,
           UNCHANGED left \/ Spend("api")
    PROVE  TypeInv'
<1> USE DEF TypeInv, TypeOK
<1>1. KubeOK'
  BY PutType DEF KubeOK, kube, JobShape
<1>2. left' \in [Kinds -> Nat]
  BY SpendType DEF Kinds
<1>3. EnvOK' /\ SecretsOK' /\ RemoteOK' /\ queue' \subseteq SPs
  BY DEF WriteFrame, env, secrets, remote, EnvOK, SecretsOK, RemoteOK, ControlOK
<1> QED
  BY <1>1, <1>2, <1>3 DEF ControlOK, JobInv


\* The steps that write the WSO2SP object.
LEMMA WriteStepType ==
    ASSUME TypeInv,
           \/ SetPhaseWrite \/ PauseWrite \/ AddFinalizer \/ RemoveFinalizer
           \/ PatchPending \/ PatchReady
    PROVE  TypeInv'
<1>1. PICK s \in SPs : s = job.sp
  BY DEF TypeInv, JobShape, SetPhaseWrite, PauseWrite, AddFinalizer, RemoveFinalizer,
         PatchPending, PatchReady
<1>2. sps[s] \in SPObject /\ job.copy \in SPObject /\ job.mem \in Status
      /\ job.base \in Status /\ sps[s].st \in Status
  BY DEF TypeInv, TypeOK, KubeOK, ControlOK, Job, SPObject
<1>3. CASE SetPhaseWrite
  <2>1. [sps[s] EXCEPT !.st = job.mem] \in SPObject
    BY <1>2 DEF SPObject
  <2>2. Requeue \/ Swallowed => JobInv'
    BY <1>3, EndType, SwallowedType DEF SetPhaseWrite
  <2> QED
    BY <1>1, <1>3, <2>1, <2>2, WriteType DEF SetPhaseWrite, Update, kube
<1>4. CASE PauseWrite
  <2>1. [sps[s].st EXCEPT !.phase = "Paused"] \in Status
    BY <1>2 DEF Status, Phases
  <2>2. [sps[s] EXCEPT !.st.phase = "Paused"] \in SPObject
    BY <1>2, <2>1 DEF SPObject
  <2> QED
    BY <1>1, <1>4, <2>2, EndType, WriteType DEF PauseWrite, Update, kube
<1>5. CASE AddFinalizer
  <2>1. Updated(sps[s], [job.copy EXCEPT !.fin = TRUE]) \in SPObject
    BY <1>2, DefaultedType DEF Updated, SPObject
  <2> QED
    BY <1>1, <1>5, <2>1, EndType, WriteType DEF AddFinalizer, Update, kube
<1>6. CASE RemoveFinalizer
  BY <1>6, ConstantTypes, EndType, WriteType DEF RemoveFinalizer, Update, kube
<1>7. CASE PatchPending \/ PatchReady
  <2> DEFINE st == StatusPatch(sps[s].st, job.base, job.mem)
  <2>1. st \in Status
    BY <1>2, StatusPatchFields
  <2>2. [sps[s] EXCEPT !.st = st] \in SPObject
    BY <1>2, <2>1 DEF SPObject
  <2>3. /\ job.pc # "idle" /\ WriteFrame /\ (Done \/ Requeue)
        /\ Put(s, [sps[s] EXCEPT !.st = st]) \/ UNCHANGED kube
        /\ UNCHANGED left \/ Spend("api")
    BY <1>1, <1>7 DEF PatchPending, PatchReady, PatchCall, Patch, kube
  <2> QED
    BY <1>1, <2>2, <2>3, EndType, WriteType
<1> QED
  BY <1>3, <1>4, <1>5, <1>6, <1>7

\* upsertApplicationSecret, with the step that follows it.
LEMMA UpsertType ==
    ASSUME TypeInv, job.pc # "idle", NEW new \in Secret, NEW next \in Steps,
           UpsertSecret(new, next), Goto(next) => JobInv'
    PROVE  TypeInv'
<1> USE DEF TypeInv, TypeOK
<1>1. JobInv'
  BY EndType DEF UpsertSecret
<1>2. secret' \in [SPs -> Secret]
  BY DEF UpsertSecret, SecretsOK
<1>3. left' \in [Kinds -> Nat]
  BY SpendType DEF UpsertSecret, Kinds
<1>4. KubeOK' /\ EnvOK' /\ RemoteOK' /\ SecretsOK' /\ queue' \subseteq SPs
  BY <1>2
     DEF UpsertSecret, kube, env, remote, KubeOK, EnvOK, RemoteOK, SecretsOK, ControlOK
<1> QED
  BY <1>1, <1>3, <1>4 DEF ControlOK, JobInv

\* The steps that write the Secret.
LEMMA SecretStepType == ASSUME TypeInv, OAuthSecret \/ SamlSecret PROVE TypeInv'
<1>1. job.sp \in SPs /\ job \in Job /\ job.copy \in SPObject
      /\ seen[job.sp] \in Secret
  BY DEF TypeInv, TypeOK, ControlOK, SecretsOK, JobShape, OAuthSecret, SamlSecret, Job
<1>2. CASE OAuthSecret
  <2> DEFINE new  == [seen[job.sp] EXCEPT !.live = TRUE, !.okey = job.ref]
             next == IF job.dirty THEN "oauthUpdate" ELSE AfterOAuth(job.copy)
  <2>1. new \in Secret
    BY <1>1 DEF Secret, Job
  <2>2. job.pc = "oauthSecret" /\ UpsertSecret(new, next)
    BY <1>2 DEF OAuthSecret
  <2>3. next \in {"oauthUpdate", "samlGet", "appGet"} /\ Wanted.oauth # None
    BY <1>1, <2>2, NextStepType DEF TypeInv, JobShape, OAuthSteps
  <2>4. next \in Steps /\ (Goto(next) => JobInv')
    <3> HIDE DEF next
    <3> QED
      BY <2>2, <2>3, GotoType
         DEF Steps, AppSteps, Parts, AdminSteps, OAuthSteps, SamlSteps
  <2> HIDE DEF new, next
  <2> QED
    BY <2>1, <2>2, <2>4, UpsertType
<1>3. CASE SamlSecret
  <2> DEFINE new  == [seen[job.sp] EXCEPT !.live = TRUE,
                                          !.issuer = job.meta.issuer]
             next == IF job.dirty THEN "samlDelete" ELSE "appGet"
  <2>1. job.pc = "samlSecret" /\ UpsertSecret(new, next)
    BY <1>3 DEF SamlSecret
  <2>2. job.meta \in Metadata /\ job.meta # None
    BY <1>1, <2>1 DEF TypeInv, JobShape, SamlSteps, Job
  <2>3. new \in Secret
    BY <1>1, <2>2 DEF Secret, Metadata
  <2>4. next \in {"samlDelete", "appGet"}
    OBVIOUS
  <2>5. next \in Steps /\ (Goto(next) => JobInv')
    <3> HIDE DEF next
    <3> QED
      BY <2>1, <2>2, <2>4, GotoType
         DEF Steps, AppSteps, Parts, AdminSteps, OAuthSteps, SamlSteps
  <2> HIDE DEF new, next
  <2> QED
    BY <2>1, <2>3, <2>5, UpsertType
<1> QED
  BY <1>2, <1>3

\* A call of the server: what is left to show is the job and the answer.
LEMMA CallStepType ==
    ASSUME TypeInv, CallFrame, JobInv', RemoteOK', left' \in [Kinds -> Nat]
    PROVE  TypeInv'
BY DEF TypeInv, TypeOK, CallFrame, kube, env, secrets, KubeOK, EnvOK, SecretsOK,
       ControlOK, JobInv

\* A call that changes nothing, or whose effect keeps the types, and after
\* which the reconciliation fails or goes on with an admissible job.
LEMMA CallType ==
    ASSUME TypeInv, CallFrame, job.pc \in Failures,
           Reads \/ RemoteOK', Fail \/ JobInv',
           UNCHANGED left \/ Spend("remote") \/ Spend("edit")
    PROVE  TypeInv'
<1>1. JobInv'
  BY FailType
<1>2. RemoteOK'
  BY DEF TypeInv, TypeOK, Reads, remote, RemoteOK
<1>3. left' \in [Kinds -> Nat]
  BY SpendType DEF TypeInv, TypeOK, Kinds
<1> QED
  BY <1>1, <1>2, <1>3, CallStepType

\* The calls of reconcileApplicationOAuth2.
LEMMA OAuthStepType ==
    ASSUME TypeInv, OAuthGet \/ OAuthCreate \/ OAuthUpdate
    PROVE  TypeInv'
<1> DEFINE n == Wanted.name
<1>1. /\ job \in Job /\ job.sp \in SPs /\ delayed \subseteq SPs
      /\ n \in Names /\ Wanted.oauth \in OAuthCfg /\ Wanted.oauth # None
      /\ oauth[n] \in OAuthRecord /\ RemoteOK
      /\ job.pc \in Failures /\ job.pc # "idle"
  BY DEF TypeInv, TypeOK, ControlOK, RemoteOK, JobShape, Job, SPObject, SPSpec,
         OAuthSteps, Failures, OAuthGet, OAuthCreate, OAuthUpdate, Wanted
<1>2. CASE OAuthGet
  <2>1. ASSUME job' = [job EXCEPT !.pc = "oauthSecret", !.ref = oauth[n].key,
                           !.dirty = OAuth2HasChanged(oauth[n].cfg, Wanted.oauth)],
               UNCHANGED delayed
        PROVE  JobInv'
    <3>1. oauth[n].key \in Nat
          /\ OAuth2HasChanged(oauth[n].cfg, Wanted.oauth) \in BOOLEAN
      BY <1>1 DEF OAuthRecord, OAuth2HasChanged
    <3>2. job' \in Job /\ job'.pc = "oauthSecret" /\ job'.sp = job.sp
          /\ job'.copy = job.copy
      BY <1>1, <2>1, <3>1 DEF Job, Steps, AppSteps, Parts, AdminSteps, OAuthSteps
    <3> QED
      BY <1>1, <2>1, <3>2 DEF JobInv, JobShape, OAuthSteps, SamlSteps, Wanted
  <2>2. Goto("oauthCreate") => JobInv'
    BY <1>1, GotoType DEF Steps, AppSteps, Parts, AdminSteps, OAuthSteps, SamlSteps
  <2> QED
    BY <1>1, <1>2, <2>1, <2>2, EndType, CallType DEF OAuthGet
<1>3. CASE OAuthCreate
  <2>1. ASSUME oauth' = [oauth EXCEPT ![n] =
                           [key |-> issued + 1, cfg |-> Sent(Wanted.oauth)]],
               issued' = issued + 1, UNCHANGED <<apps, saml>>
        PROVE  RemoteOK'
    <3>1. Sent(Wanted.oauth) \in OAuthCfg
      BY <1>1 DEF Sent, OAuthCfg
    <3> QED
      BY <1>1, <2>1, <3>1 DEF RemoteOK, OAuthRecord
  <2> QED
    BY <1>1, <1>3, <2>1, EndType, CallType DEF OAuthCreate, Call, Refused, Reads, remote
<1>4. CASE OAuthUpdate
  <2>1. ASSUME oauth' = [oauth EXCEPT ![n].cfg = Sent(Wanted.oauth)],
               UNCHANGED <<apps, saml, issued>>
        PROVE  RemoteOK'
    <3>1. Sent(Wanted.oauth) \in OAuthCfg
      BY <1>1 DEF Sent, OAuthCfg
    <3> QED
      BY <1>1, <2>1, <3>1 DEF RemoteOK, OAuthRecord
  <2> QED
    BY <1>1, <1>4, <2>1, EndType, CallType DEF OAuthUpdate, Call, Refused, Reads, remote
<1> QED
  BY <1>2, <1>3, <1>4

\* The calls of reconcileSAMLApplication.
LEMMA SamlStepType ==
    ASSUME TypeInv, SamlGet \/ SamlCreate \/ SamlDelete \/ SamlReadd
    PROVE  TypeInv'
<1>1. /\ job \in Job /\ job.sp \in SPs /\ delayed \subseteq SPs /\ RemoteOK
      /\ job.pc \in Failures /\ job.pc # "idle" /\ md[job.sp] \in Metadata
  BY DEF TypeInv, TypeOK, EnvOK, ControlOK, JobShape, Failures, SamlGet, SamlCreate,
         SamlDelete, SamlReadd
<1>2. CASE SamlGet
  <2> DEFINE m == md[job.sp]
             have == saml[m.issuer]
  <2>1. ASSUME job' = [job EXCEPT
                   !.pc = IF have = None THEN "samlCreate" ELSE "samlSecret",
                   !.meta = m, !.dirty = (have # m.acs)],
               UNCHANGED delayed
        PROVE  JobInv'
    <3>1. job' \in Job /\ job'.sp = job.sp /\ job'.meta = m
          /\ job'.pc \in {"samlCreate", "samlSecret"}
      BY <1>1, <2>1 DEF Job, Steps, AppSteps, Parts, AdminSteps, SamlSteps
    <3>2. m # None
      BY <1>1, TypesAssumption
    <3> QED
      BY <1>1, <2>1, <3>1, <3>2 DEF JobInv, JobShape, OAuthSteps, SamlSteps, Wanted
  <2> QED
    BY <1>1, <1>2, <2>1, EndType, CallType DEF SamlGet
<1>3. ASSUME job.pc \in {"samlCreate", "samlDelete", "samlReadd"}
      PROVE  job.meta # None /\ job.meta.issuer \in Issuers /\ job.meta.acs \in AcsLists
  BY <1>1, <1>3 DEF TypeInv, JobShape, SamlSteps, Job, Metadata
<1>4. ASSUME job.pc \in {"samlCreate", "samlReadd"},
             saml' = [saml EXCEPT ![job.meta.issuer] = job.meta.acs],
             UNCHANGED <<apps, oauth, issued>>
      PROVE  RemoteOK'
  BY <1>1, <1>3, <1>4 DEF RemoteOK
<1>5. CASE SamlCreate
  BY <1>1, <1>4, <1>5, EndType, CallType
     DEF SamlCreate, AddSaml, Call, Refused, Reads, remote
<1>6. CASE SamlReadd
  <2>1. Goto("appGet") => JobInv'
    BY <1>1, GotoType DEF Steps, AppSteps, Parts, AdminSteps, OAuthSteps, SamlSteps
  <2> QED
    BY <1>1, <1>4, <1>6, <2>1, CallType
       DEF SamlReadd, AddSaml, Call, Refused, Reads, remote
<1>7. CASE SamlDelete
  <2>1. Goto("samlReadd") => JobInv'
    BY <1>1, <1>3, <1>7, GotoType
       DEF SamlDelete, Steps, AppSteps, Parts, AdminSteps, OAuthSteps, SamlSteps
  <2> QED
    BY <1>1, <1>7, <2>1, DropAppType, CallType
       DEF SamlDelete, Call, Refused, Reads, remote
<1> QED
  BY <1>2, <1>5, <1>6, <1>7

\* A job that goes on with the application, its status in memory changed.
LEMMA AppJobType ==
    ASSUME TypeInv, job.sp \in SPs, NEW pc \in Steps, NEW st \in Status, NEW ref \in Nat,
           pc \notin OAuthSteps \cup SamlSteps \cup {"addFin", "delApp", "rmFin"},
           job' = [job EXCEPT !.pc = pc, !.mem = st, !.ref = ref], UNCHANGED delayed
    PROVE  JobInv'
<1>1. job \in Job /\ delayed \subseteq SPs
  BY DEF TypeInv, TypeOK, ControlOK
<1>2. job' \in Job /\ job'.pc = pc /\ job'.sp = job.sp
  BY <1>1 DEF Job
<1> QED
  BY <1>1, <1>2 DEF JobInv, JobShape

\* Ready in memory keeps the type of the job.
LEMMA InSyncType ==
    ASSUME TypeInv, job.sp \in SPs, NEW id \in Nat,
           job' = InSync([job EXCEPT !.mem.id = id]), UNCHANGED delayed
    PROVE  JobInv'
<1> DEFINE pc == IF job.mem.admin THEN "patchReady" ELSE "adminGet"
           st == [job.mem EXCEPT !.id = id, !.phase = "Ready", !.why = "inSync"]
<1>1. job \in Job /\ job.mem \in Status /\ job.ref \in Nat
  BY DEF TypeInv, TypeOK, ControlOK, Job
<1>2. st \in Status
  BY <1>1 DEF Status, Phases, Reasons
<1>3. pc \in Steps /\ pc \notin OAuthSteps \cup SamlSteps \cup {"addFin", "delApp",
   "rmFin"}
  BY DEF Steps, AppSteps, Parts, AdminSteps, OAuthSteps, SamlSteps
<1>4. job' = [job EXCEPT !.pc = pc, !.mem = st, !.ref = job.ref]
  BY <1>1 DEF InSync, Job, Status
<1> QED
  BY <1>1, <1>2, <1>3, <1>4, AppJobType

\* GetApplicationByName and the comparison.
LEMMA AppGetType == ASSUME TypeInv, AppGet PROVE TypeInv'
<1> DEFINE have  == apps[Wanted.name]
           found == [job EXCEPT !.mem.id = have.id]
<1>1. /\ job \in Job /\ job.sp \in SPs /\ delayed \subseteq SPs
      /\ job.mem \in Status /\ job.ref \in Nat /\ have \in App
      /\ job.pc = "appGet" /\ job.pc \in Failures /\ job.pc # "idle"
  BY DEF TypeInv, TypeOK, ControlOK, RemoteOK, JobShape, Failures, Job, AppGet, Wanted,
         SPObject, SPSpec
<1>2. have.id \in Nat
  BY <1>1 DEF App
<1>3. [job.mem EXCEPT !.id = have.id] \in Status
  BY <1>1, <1>2 DEF Status
<1>4. Goto("appCreate") => JobInv'
  BY <1>1, GotoType DEF Steps, AppSteps, Parts, AdminSteps, OAuthSteps, SamlSteps
<1>5. job' = [found EXCEPT !.pc = "appUpdate"] /\ UNCHANGED delayed => JobInv'
  <2>1. [found EXCEPT !.pc = "appUpdate"] =
           [job EXCEPT !.pc = "appUpdate", !.mem = [job.mem EXCEPT !.id = have.id],
                       !.ref = job.ref]
    BY <1>1 DEF Job
  <2>2. "appUpdate" \in Steps
        /\ "appUpdate" \notin OAuthSteps \cup SamlSteps \cup {"addFin", "delApp", "rmFin"}
    BY DEF Steps, AppSteps, Parts, AdminSteps, OAuthSteps, SamlSteps
  <2> QED
    BY <1>1, <1>3, <2>1, <2>2, AppJobType
<1>6. job' = InSync(found) /\ UNCHANGED delayed => JobInv'
  BY <1>1, <1>2, InSyncType
<1>7. SetPhase(found, "Failed", "script") => JobInv'
  <2>1. found \in Job /\ found.sp \in SPs
    BY <1>1, <1>3 DEF Job
  <2>2. "Failed" \in Phases /\ "script" \in Reasons
    BY DEF Phases, Reasons, Failures
  <2> QED
    BY <1>1, <2>1, <2>2, SetPhaseType
<1>8. CallFrame /\ Reads /\ (Fail \/ JobInv')
  BY <1>4, <1>5, <1>6, <1>7 DEF AppGet
<1>9. UNCHANGED left \/ Spend("remote") \/ Spend("edit")
  BY DEF AppGet
<1> QED
  BY <1>1, <1>8, <1>9, CallType

\* CreateApplication.
LEMMA AppCreateType == ASSUME TypeInv, AppCreate PROVE TypeInv'
<1>1. /\ job \in Job /\ job.sp \in SPs /\ delayed \subseteq SPs
      /\ job.mem \in Status /\ job.ref \in Nat /\ RemoteOK /\ job.pc \in Failures
  BY DEF TypeInv, TypeOK, ControlOK, JobShape, Failures, Job, AppCreate
<1>2. ASSUME apps' = [apps EXCEPT ![Wanted.name] = [NoApp EXCEPT !.id = issued + 1]],
             issued' = issued + 1, UNCHANGED <<oauth, saml>>
      PROVE  RemoteOK'
  <2> DEFINE new == [NoApp EXCEPT !.id = issued + 1]
  <2>1. issued' \in Nat /\ new \in App
    BY <1>1, <1>2, ConstantTypes DEF RemoteOK, App
  <2>2. apps' = [apps EXCEPT ![Wanted.name] = new]
    BY <1>2
  <2> HIDE DEF new
  <2> QED
    BY <1>1, <1>2, <2>1, <2>2 DEF RemoteOK
<1>3. ASSUME job' = [job EXCEPT !.pc = "patchPending",
                                !.mem.phase = "Pending", !.mem.why = "created"],
             UNCHANGED delayed
      PROVE  JobInv'
  <2> DEFINE st == [job.mem EXCEPT !.phase = "Pending", !.why = "created"]
  <2>1. st \in Status
    BY <1>1 DEF Status, Phases, Reasons
  <2>2. job' = [job EXCEPT !.pc = "patchPending", !.mem = st, !.ref = job.ref]
    BY <1>1, <1>3 DEF Job
  <2>3. "patchPending" \in Steps
        /\ "patchPending" \notin OAuthSteps \cup SamlSteps \cup {"addFin", "delApp",
           "rmFin"}
    BY DEF Steps, AppSteps, Parts, AdminSteps, OAuthSteps, SamlSteps
  <2> QED
    BY <1>1, <1>3, <2>1, <2>2, <2>3, AppJobType
<1> QED
  BY <1>1, <1>2, <1>3, CallType DEF AppCreate, Call, Refused, Reads, remote

\* UpdateApplication, whichever application it hits.
LEMMA AppUpdateType == ASSUME TypeInv, AppUpdate PROVE TypeInv'
<1> DEFINE n == Wanted.name
<1>1. /\ job \in Job /\ job.sp \in SPs /\ job.mem \in Status /\ job.mem.id \in Nat
      /\ Wanted \in SPSpec /\ n \in Names /\ RemoteOK /\ seen[job.sp] \in Secret
      /\ job.pc \in Failures
  BY DEF TypeInv, TypeOK, ControlOK, SecretsOK, JobShape, Failures, Job, AppUpdate,
         Wanted, SPObject, SPSpec, Status
<1>2. ASSUME NEW m \in Names,
             apps' = [apps EXCEPT ![m] = NoApp,
                                  ![n] = Applied(apps[m], Wanted, seen[job.sp])],
             UNCHANGED <<oauth, saml, issued>>
      PROVE  RemoteOK'
  <2>1. Applied(apps[m], Wanted, seen[job.sp]) \in App
    BY <1>1, AppliedType DEF RemoteOK
  <2> QED
    BY <1>1, <1>2, <2>1, ConstantTypes DEF RemoteOK
<1>3. ASSUME job' = InSync(job), UNCHANGED delayed
      PROVE  JobInv'
  <2>1. [job EXCEPT !.mem.id = job.mem.id] = job
    BY <1>1 DEF Job, Status
  <2> QED
    BY <1>1, <1>3, <2>1, InSyncType
<1>4. CASE Refused
  BY <1>1, <1>4, CallType DEF AppUpdate, Refused, Reads
<1>5. ASSUME NEW m \in Targets,
             Call(/\ apps' = [apps EXCEPT ![m] = NoApp, ![n] =
                                 Applied(apps[m], Wanted, seen[job.sp])]
                  /\ UNCHANGED <<oauth, saml, issued>>,
                  job' = InSync(job) /\ UNCHANGED delayed)
      PROVE  TypeInv'
  <2>1. m \in Names
    BY DEF Targets
  <2>2. /\ Reads \/ RemoteOK'
        /\ Fail \/ (job' = InSync(job) /\ UNCHANGED delayed)
        /\ UNCHANGED left \/ Spend("remote")
    BY <1>2, <1>5, <2>1 DEF Call, Reads
  <2>3. Fail \/ JobInv'
    BY <1>3, <2>2
  <2>4. CallFrame
    BY DEF AppUpdate
  <2> QED
    BY <1>1, <2>2, <2>3, <2>4, CallType
<1> QED
  BY <1>4, <1>5 DEF AppUpdate

\* The calls of reconcileAdminAccess.
LEMMA AdminStepType == ASSUME TypeInv, AdminGet \/ AdminJoin PROVE TypeInv'
<1> DEFINE have == apps[Wanted.name]
<1>1. /\ job \in Job /\ job.sp \in SPs /\ job.mem \in Status /\ job.ref \in Nat
      /\ have.id \in Nat /\ RemoteOK /\ job.pc \in Failures /\ job.pc # "idle"
  BY DEF TypeInv, TypeOK, ControlOK, RemoteOK, JobShape, Failures, Job, AdminGet,
         AdminJoin, Wanted, SPObject, SPSpec, App
<1>2. CASE AdminGet
  <2>1. ASSUME job' = [job EXCEPT !.pc = "patchReady", !.mem.admin = TRUE],
               UNCHANGED delayed
        PROVE  JobInv'
    <3>1. [job.mem EXCEPT !.admin = TRUE] \in Status
      BY <1>1 DEF Status
    <3>2. job' = [job EXCEPT !.pc = "patchReady",
                      !.mem = [job.mem EXCEPT !.admin = TRUE], !.ref = job.ref]
      BY <1>1, <2>1 DEF Job
    <3>3. "patchReady" \in Steps
          /\ "patchReady" \notin OAuthSteps \cup SamlSteps \cup {"addFin", "delApp",
             "rmFin"}
      BY DEF Steps, AppSteps, Parts, AdminSteps, OAuthSteps, SamlSteps
    <3> QED
      BY <1>1, <2>1, <3>1, <3>2, <3>3, AppJobType
  <2>2. ASSUME job' = [job EXCEPT !.pc = "adminJoin", !.ref = have.id],
               UNCHANGED delayed
        PROVE  JobInv'
    <3>1. job' = [job EXCEPT !.pc = "adminJoin", !.mem = job.mem, !.ref = have.id]
      BY <1>1, <2>2 DEF Job
    <3>2. "adminJoin" \in Steps
          /\ "adminJoin" \notin OAuthSteps \cup SamlSteps \cup {"addFin", "delApp",
             "rmFin"}
      BY DEF Steps, AppSteps, Parts, AdminSteps, OAuthSteps, SamlSteps
    <3> QED
      BY <1>1, <2>2, <3>1, <3>2, AppJobType
  <2> QED
    BY <1>1, <1>2, <2>1, <2>2, CallType DEF AdminGet
<1>3. CASE AdminJoin
  <2>1. ASSUME apps' = [n \in Names |-> IF apps[n].id = job.ref
                          THEN [apps[n] EXCEPT !.admin = TRUE] ELSE apps[n]],
               UNCHANGED <<oauth, saml, issued>>
        PROVE  RemoteOK'
    <3>1. \A n \in Names : apps[n] \in App /\ [apps[n] EXCEPT !.admin = TRUE] \in App
      BY <1>1 DEF RemoteOK, App
    <3> QED
      BY <1>1, <2>1, <3>1 DEF RemoteOK
  <2> QED
    BY <1>1, <1>3, <2>1, EndType, CallType DEF AdminJoin, Call, Refused, Reads, remote
<1> QED
  BY <1>2, <1>3

\* The deletion of the application.
LEMMA DelAppType == ASSUME TypeInv, DelApp PROVE TypeInv'
<1>1. job \in Job /\ job.copy.deleting /\ Wanted.name \in Names /\ RemoteOK
      /\ job.pc # "idle"
  BY DEF TypeInv, TypeOK, ControlOK, JobShape, DelApp, Job, Wanted, SPObject, SPSpec
<1>2. JobInv'
  BY <1>1, GotoType DEF DelApp, Steps, OAuthSteps, SamlSteps
<1>3. RemoteOK'
  BY <1>1, DropAppType DEF DelApp, remote, RemoteOK
<1>4. left' \in [Kinds -> Nat]
  BY SpendType DEF DelApp, TypeInv, TypeOK, Kinds
<1> QED
  BY <1>2, <1>3, <1>4, CallStepType DEF DelApp

------------------------------------------------------------------------------
(* Types: the environment, and the theorem *)

\* A job that only loses its claim to have the current version.
LEMMA OutdatedJobType ==
    ASSUME job \in Job, JobShape, NEW s \in SPs,
           job' = IF job.sp = s THEN [job EXCEPT !.current = FALSE] ELSE job
    PROVE  /\ job' \in Job /\ JobShape'
           /\ job'.pc = job.pc /\ job'.sp = job.sp /\ job'.copy = job.copy
           /\ job'.mem = job.mem /\ job'.base = job.base /\ job'.meta = job.meta
           /\ job'.current => job.current /\ job.sp # s
<1>1. /\ job' \in Job
      /\ job'.pc = job.pc /\ job'.sp = job.sp /\ job'.copy = job.copy
      /\ job'.mem = job.mem /\ job'.base = job.base /\ job'.meta = job.meta
      /\ job'.current => job.current /\ job.sp # s
  BY DEF Job
<1> QED
  BY <1>1 DEF JobShape, Wanted

\* A write of a user.
LEMMA UserWriteType ==
    ASSUME TypeInv, NEW s \in SPs, NEW o \in SPObject, UserWrite(s, o)
    PROVE  TypeInv'
<1> USE DEF TypeInv, TypeOK
<1>1. KubeOK'
  BY PutType DEF UserWrite
<1>2. job' \in Job /\ JobShape'
  BY OutdatedJobType DEF UserWrite, ControlOK
<1>3. left' \in [Kinds -> Nat]
  BY SpendType DEF UserWrite, Kinds
<1>4. SecretsOK'
  BY DEF UserWrite, SecretsOK, Legacies
<1> QED
  BY <1>1, <1>2, <1>3, <1>4
     DEF UserWrite, env, remote, EnvOK, RemoteOK, ControlOK

\* What users write keeps the finalizer, and the status with it.
LEMMA UserOutcome ==
    ASSUME TypeInv, NEW s \in SPs,
           CreateSP(s) \/ EditSpec(s) \/ Annotate(s) \/ DeleteSP(s)
    PROVE  \E o \in SPObject :
              /\ UserWrite(s, o)
              /\ o.st \in {sps[s].st, NoStatus}
              /\ sps[s].live /\ sps[s].fin => o.live /\ o.fin /\ o.st = sps[s].st
<1>1. sps[s] \in SPObject
  BY DEF TypeInv, TypeOK, KubeOK
<1>2. CASE CreateSP(s)
  <2>1. PICK spec \in Specs : UserWrite(s, NewSP(spec)) /\ ~sps[s].live
    BY <1>2 DEF CreateSP
  <2>2. NewSP(spec).st = NoStatus
    BY DEF NewSP
  <2> QED
    BY <2>1, <2>2, ConstantTypes
<1>3. CASE EditSpec(s)
  <2>1. PICK spec \in Specs : UserWrite(s, [sps[s] EXCEPT !.spec = spec])
    BY <1>3 DEF EditSpec
  <2> DEFINE o == [sps[s] EXCEPT !.spec = spec]
  <2>2. o \in SPObject /\ o.live = sps[s].live /\ o.fin = sps[s].fin /\ o.st = sps[s].st
    BY <1>1, TypesAssumption DEF SPObject
  <2> QED
    BY <2>1, <2>2
<1>4. CASE Annotate(s)
  <2>1. PICK skip \in Skips : UserWrite(s, [sps[s] EXCEPT !.skip = skip])
    BY <1>4 DEF Annotate
  <2> DEFINE o == [sps[s] EXCEPT !.skip = skip]
  <2>2. o \in SPObject /\ o.live = sps[s].live /\ o.fin = sps[s].fin /\ o.st = sps[s].st
    BY <1>1, TypesAssumption DEF SPObject
  <2> QED
    BY <2>1, <2>2
<1>5. CASE DeleteSP(s)
  <2> DEFINE o == [sps[s] EXCEPT !.deleting = TRUE]
  <2>1. CASE sps[s].fin
    <3>1. o \in SPObject /\ o.live = sps[s].live /\ o.fin = sps[s].fin /\ o.st = sps[s].st
      BY <1>1 DEF SPObject
    <3>2. UserWrite(s, o)
      BY <1>5, <2>1 DEF DeleteSP
    <3> QED
      BY <3>1, <3>2
  <2>2. CASE ~sps[s].fin
    <3>1. UserWrite(s, Gone)
      BY <1>5, <2>2 DEF DeleteSP
    <3> QED
      BY <2>2, <3>1, ConstantTypes, GoneFields
  <2> QED
    BY <2>1, <2>2
<1> QED
  BY <1>2, <1>3, <1>4, <1>5

\* A restart, whatever the instance is by then.
LEMMA RestartType ==
    ASSUME TypeInv, Restart, Spend("crash"), inst' \in InstStates
    PROVE  TypeInv'
<1> USE DEF TypeInv, TypeOK
<1>1. job' \in Job /\ JobShape'
  BY ConstantTypes DEF Restart, JobShape, Idle, OAuthSteps, SamlSteps
<1>2. KubeOK' /\ SecretsOK'
  BY DEF Restart, KubeOK, SecretsOK
<1> QED
  BY <1>1, <1>2, SpendType DEF Restart, Kinds, remote, EnvOK, RemoteOK, ControlOK

\* Users, administrators and restarts.
LEMMA EnvironmentType == ASSUME TypeInv, Environment PROVE TypeInv'
<1> USE DEF TypeInv, TypeOK
<1>1. ASSUME NEW s \in SPs,
             CreateSP(s) \/ EditSpec(s) \/ Annotate(s) \/ DeleteSP(s)
      PROVE  TypeInv'
  BY <1>1, UserOutcome, UserWriteType
<1>2. ASSUME UNCHANGED control PROVE ControlOK' /\ JobShape'
  BY <1>2 DEF control, ControlOK, JobShape, Wanted
<1>3. ASSUME NEW s \in SPs, MetadataChange(s) PROVE TypeInv'
  BY <1>2, <1>3, SpendType
     DEF MetadataChange, Kinds, kube, secrets, remote, KubeOK, EnvOK, SecretsOK,
         RemoteOK
<1>4. ASSUME NEW s \in SPs, SecretRemoved(s) PROVE TypeInv'
  BY <1>2, <1>4, SpendType, ConstantTypes
     DEF SecretRemoved, Legacies, Kinds, kube, env, remote, KubeOK, EnvOK, SecretsOK,
         RemoteOK
<1>5. ASSUME NEW n \in Names, AppDrift(n) PROVE TypeInv'
  <2>1. [apps[n] EXCEPT !.cfg = BareCfg] \in App
    BY TypesAssumption DEF RemoteOK, App, BareCfg, AppCfg
  <2>2. RemoteOK'
    BY <1>5, <2>1 DEF AppDrift, RemoteOK
  <2> QED
    BY <1>2, <1>5, <2>2, SpendType
       DEF AppDrift, Kinds, kube, env, secrets, KubeOK, EnvOK, SecretsOK
<1>6. ASSUME NEW n \in Names, AppRemoval(n) PROVE TypeInv'
  BY <1>2, <1>6, SpendType, DropAppType
     DEF AppRemoval, Kinds, kube, env, secrets, KubeOK, EnvOK, SecretsOK
<1>7. CASE InstanceChange
  BY <1>2, <1>7, SpendType
     DEF InstanceChange, Kinds, kube, secrets, remote, KubeOK, EnvOK, SecretsOK,
         RemoteOK
<1>8. Crash => TypeInv'
  BY RestartType DEF Crash, EnvOK
<1> QED
  BY <1>1, <1>3, <1>4, <1>5, <1>6, <1>7, <1>8 DEF Environment, Users

\* Informers and timers.
LEMMA DeliveryType ==
    ASSUME TypeInv, NEW s \in SPs, Deliver(s) \/ SecretDeliver(s) \/ Wake(s)
    PROVE  TypeInv'
<1> USE DEF TypeInv, TypeOK
<1>1. CASE Deliver(s)
  <2>1. Head(pending[s]) \in SPObject /\ Tail(pending[s]) \in Seq(SPObject)
    BY <1>1 DEF Deliver, KubeOK
  <2>2. KubeOK'
    BY <1>1, <2>1 DEF Deliver, KubeOK
  <2> QED
    BY <1>1, <2>2
       DEF Deliver, env, secrets, remote, EnvOK, SecretsOK, RemoteOK, ControlOK,
           JobShape, Wanted
<1>2. CASE SecretDeliver(s)
  BY <1>2
     DEF SecretDeliver, kube, env, control, remote, KubeOK, EnvOK, SecretsOK, RemoteOK,
         ControlOK, JobShape, Wanted
<1>3. CASE Wake(s)
  BY <1>3
     DEF Wake, kube, env, secrets, remote, KubeOK, EnvOK, SecretsOK, RemoteOK,
         ControlOK, JobShape, Wanted
<1> QED
  BY <1>1, <1>2, <1>3

\* The initial states.
LEMMA InitType == Init => TypeInv
<1> SUFFICES ASSUME Init PROVE TypeInv
  OBVIOUS
<1>1. KubeOK
  BY ConstantTypes DEF Init, KubeOK
<1>2. JobShape /\ ControlOK
  BY ConstantTypes DEF Init, JobShape, ControlOK, Idle, OAuthSteps, SamlSteps
<1>3. EnvOK /\ SecretsOK /\ RemoteOK
  BY ConstantTypes DEF Init, EnvOK, SecretsOK, Legacies, RemoteOK
<1> QED
  BY <1>1, <1>2, <1>3, BudgetAssumption DEF TypeInv, TypeOK, Init

\* Every step, action by action.
LEMMA NextType == TypeInv /\ [Next]_vars => TypeInv'
<1> SUFFICES ASSUME TypeInv, [Next]_vars PROVE TypeInv'
  OBVIOUS
<1>1. ASSUME NEW s \in SPs, Begin(s) PROVE TypeInv'
  BY <1>1, BeginType
<1>2. ASSUME NEW s \in SPs, Deliver(s) \/ SecretDeliver(s) \/ Wake(s) PROVE TypeInv'
  BY <1>2, DeliveryType
<1>3. CASE JobStep
  BY <1>3, WriteStepType, SecretStepType, OAuthStepType, SamlStepType, AppGetType,
     AppCreateType, AppUpdateType, AdminStepType, DelAppType
     DEF JobStep
<1>4. CASE Environment
  BY <1>4, EnvironmentType
<1>5. CASE UNCHANGED vars
  BY <1>5
     DEF vars, kube, env, secrets, control, remote, TypeInv, TypeOK, KubeOK, EnvOK,
         SecretsOK, ControlOK, RemoteOK, JobShape, Wanted
<1> QED
  BY <1>1, <1>2, <1>3, <1>4, <1>5 DEF Next

\* Types and the shape of the job, in every behaviour.
LEMMA TypeInvariant == Spec => []TypeInv
<1>1. Init => TypeInv
  BY InitType
<1>2. TypeInv /\ [Next]_vars => TypeInv'
  BY NextType
<1> QED
  BY <1>1, <1>2, PTL DEF Spec

\* Every variable keeps its type in every behaviour; with it (TypeInv) a
\* reconciliation finds what each of its steps needs: the OAuth section of the
\* spec, the metadata it fetched, a deletion under way.
THEOREM TypeCorrect == Spec => []TypeOK
<1>1. TypeInv => TypeOK
  BY DEF TypeInv
<1> QED
  BY <1>1, TypeInvariant, PTL

------------------------------------------------------------------------------
(* Steps, as the invariants of the cache see them *)

\* A step of the job that leaves the object alone: the job ends and its key
\* comes back, or it goes on with the same copy.
QuietJob ==
    /\ UNCHANGED <<kube, queue>> /\ delayed \subseteq delayed'
    /\ job.pc # "idle"
    /\ \/ job' = Idle /\ job.sp \in delayed'
       \/ /\ job'.sp = job.sp /\ job'.copy = job.copy
          /\ job'.current = job.current
          /\ AtWork' => AtWork
          /\ IdInJob => IdInJob'

\* The outcomes of a step of the job, one by one.
LEMMA QuietOutcomes ==
    ASSUME TypeInv, job.pc # "idle", UNCHANGED <<kube, queue>>,
           \/ Requeue \/ Fail
           \/ \E pc \in Steps \ (AdminSteps \cup {"setPhase", "appUpdate", "patchReady"}) :
                 /\ Goto(pc) /\ (pc \in AppSteps => job.pc \in AppSteps)
                 /\ pc \in OAuthSteps \cup SamlSteps =>
                       job.pc \in OAuthSteps \cup SamlSteps
    PROVE  QuietJob
<1>1. job \in Job /\ job.mem \in Status
  BY DEF TypeInv, TypeOK, ControlOK, Job
<1>2. CASE Requeue
  BY <1>2 DEF Requeue, QuietJob
<1>3. CASE Fail
  <2>1. CASE job' = Idle /\ delayed' = delayed \cup {job.sp}
    BY <2>1 DEF QuietJob
  <2>2. CASE /\ job' = [job EXCEPT !.pc = "setPhase",
                                   !.mem.phase = "Failed", !.mem.why = job.pc]
             /\ UNCHANGED delayed
    <3>1. job'.mem.id = job.mem.id /\ job'.mem.phase = "Failed"
          /\ job'.mem.why = job.pc /\ job'.base = job.base
          /\ job'.copy = job.copy /\ job'.sp = job.sp /\ job'.pc = "setPhase"
          /\ job'.current = job.current
      BY <1>1, <2>2 DEF Job, Status
    <3>2. \A steps \in SUBSET AppSteps :
             (job'.pc \in steps \/ (job'.pc = "setPhase" /\ job'.mem.why \in steps)) =>
                 At(steps)
      BY <3>1 DEF At, AppSteps, Parts, AdminSteps, OAuthSteps, SamlSteps
    <3>3. /\ At(AdminSteps \cup {"appUpdate", "patchReady"})' =>
                At(AdminSteps \cup {"appUpdate", "patchReady"})
          /\ At(OAuthSteps \cup SamlSteps)' => At(OAuthSteps \cup SamlSteps)
      BY <3>2 DEF At, AppSteps, Parts
    <3>4. IdInJob => IdInJob'
      BY <3>1, <3>3 DEF IdInJob, IdIfReady
    <3>5. AtWork' => AtWork
      BY <3>1 DEF AtWork, AppSteps, Parts, AdminSteps, OAuthSteps, SamlSteps
    <3> QED
      BY <2>2, <3>1, <3>4, <3>5 DEF QuietJob
  <2> QED
    BY <1>3, <2>1, <2>2 DEF Fail, SetPhase
<1>4. ASSUME NEW pc \in Steps \ (AdminSteps \cup {"setPhase", "appUpdate", "patchReady"}),
             Goto(pc), pc \in AppSteps => job.pc \in AppSteps,
             pc \in OAuthSteps \cup SamlSteps => job.pc \in OAuthSteps \cup SamlSteps
      PROVE  QuietJob
  <2>1. job'.mem = job.mem /\ job'.copy = job.copy /\ job'.sp = job.sp
        /\ job'.pc = pc /\ job'.current = job.current /\ delayed' = delayed
        /\ job'.base = job.base
    BY <1>1, <1>4 DEF Goto, Job
  <2>2. IdInJob => IdInJob'
    BY <1>4, <2>1 DEF IdInJob, At
  <2>3. AtWork' => AtWork
    BY <1>4, <2>1 DEF AtWork
  <2> QED
    BY <2>1, <2>2, <2>3 DEF QuietJob
<1> QED
  BY <1>2, <1>3, <1>4

\* A step that goes on with another status in memory.
LEMMA QuietMove ==
    ASSUME TypeInv, job.pc \in AppSteps, UNCHANGED <<kube, queue, delayed>>,
           job'.sp = job.sp, job'.copy = job.copy, job'.current = job.current,
           job'.base = job.base,
           IdInJob =>
              /\ job'.mem.phase = "Ready" => job'.mem.id # 0
              /\ At(AdminSteps \cup {"appUpdate", "patchReady"})' => job'.mem.id # 0
              /\ job'.mem.id = job.copy.st.id \/ job'.mem.id # 0
              /\ At(OAuthSteps \cup SamlSteps)' => job'.mem.id = job.copy.st.id
    PROVE  QuietJob
<1>1. AtWork /\ job.pc # "idle"
  BY DEF AtWork, AppSteps, Parts, AdminSteps, OAuthSteps, SamlSteps
<1>2. IdInJob => IdInJob'
  BY DEF IdInJob, IdIfReady
<1> QED
  BY <1>1, <1>2 DEF QuietJob

\* The steps of the inbound protocols are quiet.
LEMMA QuietInbound ==
    ASSUME TypeInv,
           \/ OAuthSecret \/ SamlSecret \/ OAuthGet \/ OAuthCreate \/ OAuthUpdate
           \/ SamlGet \/ SamlCreate \/ SamlDelete \/ SamlReadd
    PROVE  QuietJob
<1> DEFINE Next1 == {"oauthCreate", "oauthUpdate", "samlGet", "samlDelete",
                     "samlReadd", "appGet"}
<1>1. job \in Job /\ job.pc \in AppSteps /\ job.pc # "idle"
      /\ job.pc \in OAuthSteps \cup SamlSteps
      /\ UNCHANGED <<kube, queue>> /\ job.copy \in SPObject
  BY DEF TypeInv, TypeOK, ControlOK, Job, AppSteps, Parts, AdminSteps, OAuthSteps,
         SamlSteps, OAuthSecret, SamlSecret, UpsertSecret, OAuthGet, OAuthCreate,
         OAuthUpdate, SamlGet, SamlCreate, SamlDelete, SamlReadd, CallFrame
<1>2. ASSUME NEW pc \in Next1, Goto(pc) PROVE QuietJob
  BY <1>1, <1>2, QuietOutcomes
     DEF Steps, AppSteps, Parts, AdminSteps, OAuthSteps, SamlSteps
<1>3. CASE OAuthSecret
  <2>1. (IF job.dirty THEN "oauthUpdate" ELSE AfterOAuth(job.copy)) \in Next1
    BY <1>1, NextStepType
  <2> QED
    BY <1>1, <1>2, <1>3, <2>1, QuietOutcomes DEF OAuthSecret, UpsertSecret
<1>4. CASE SamlSecret
  <2>1. (IF job.dirty THEN "samlDelete" ELSE "appGet") \in Next1
    OBVIOUS
  <2> QED
    BY <1>1, <1>2, <1>4, <2>1, QuietOutcomes DEF SamlSecret, UpsertSecret
<1>5. CASE OAuthGet
  <2>1. ASSUME job' = [job EXCEPT !.pc = "oauthSecret", !.ref = oauth[Wanted.name].key,
                   !.dirty = OAuth2HasChanged(oauth[Wanted.name].cfg, Wanted.oauth)],
               UNCHANGED delayed
        PROVE  QuietJob
    <3>1. job'.sp = job.sp /\ job'.copy = job.copy /\ job'.current = job.current
          /\ job'.mem = job.mem /\ job'.base = job.base /\ job'.pc = "oauthSecret"
      BY <1>1, <2>1 DEF Job
    <3> QED
      BY <1>1, <2>1, <3>1, QuietMove
         DEF IdInJob, IdIfReady, At, AdminSteps, OAuthSteps, SamlSteps
  <2> QED
    BY <1>1, <1>2, <1>5, <2>1, QuietOutcomes DEF OAuthGet
<1>6. CASE OAuthCreate \/ OAuthUpdate \/ SamlCreate
  BY <1>1, <1>6, QuietOutcomes
     DEF OAuthCreate, OAuthUpdate, SamlCreate, AddSaml, Call, Refused
<1>7. CASE SamlGet
  <2>1. ASSUME NEW pc \in {"samlCreate", "samlSecret"}, NEW dirty, NEW meta,
               job' = [job EXCEPT !.pc = pc, !.meta = meta, !.dirty = dirty],
               UNCHANGED delayed
        PROVE  QuietJob
    <3>1. job'.sp = job.sp /\ job'.copy = job.copy /\ job'.current = job.current
          /\ job'.mem = job.mem /\ job'.base = job.base /\ job'.pc = pc
      BY <1>1, <2>1 DEF Job
    <3> QED
      BY <1>1, <2>1, <3>1, QuietMove
         DEF IdInJob, IdIfReady, At, AdminSteps, OAuthSteps, SamlSteps
  <2> QED
    BY <1>1, <1>7, <2>1, QuietOutcomes DEF SamlGet
<1>8. CASE SamlDelete \/ SamlReadd
  BY <1>1, <1>2, <1>8, QuietOutcomes DEF SamlDelete, SamlReadd, AddSaml, Call, Refused
<1> QED
  BY <1>3, <1>4, <1>5, <1>6, <1>7, <1>8

\* So is Ready in memory, once the ID is known.
LEMMA QuietInSync ==
    ASSUME TypeInv, job.pc \in AppSteps, UNCHANGED <<kube, queue, delayed>>,
           NEW id \in Nat, IdInJob => id # 0, job' = InSync([job EXCEPT !.mem.id = id])
    PROVE  QuietJob
<1>1. job \in Job /\ job.mem \in Status
  BY DEF TypeInv, TypeOK, ControlOK, Job
<1>2. job'.sp = job.sp /\ job'.copy = job.copy /\ job'.current = job.current
      /\ job'.mem.id = id /\ job'.base = job.base
      /\ job'.pc \in {"patchReady", "adminGet"}
  BY <1>1 DEF InSync, Job, Status
<1> QED
  BY <1>2, QuietMove DEF At, AdminSteps, OAuthSteps, SamlSteps

\* So are the calls that concern the application and the admin group.
LEMMA QuietApplication ==
    ASSUME TypeInv, AppGet \/ AppCreate \/ AppUpdate \/ AdminGet \/ AdminJoin \/ DelApp
    PROVE  QuietJob
<1> DEFINE have  == apps[Wanted.name]
           found == [job EXCEPT !.mem.id = have.id]
<1>1. /\ job \in Job /\ job.mem \in Status /\ job.mem.id \in Nat /\ have.id \in Nat
      /\ job.pc # "idle" /\ UNCHANGED <<kube, queue>>
      /\ ~DelApp => job.pc \in AppSteps
  BY DEF TypeInv, TypeOK, ControlOK, RemoteOK, Job, Status, SPObject, SPSpec, App,
         Wanted, AppSteps, Parts, AdminSteps, AppGet, AppCreate, AppUpdate, AdminGet,
         AdminJoin, DelApp, CallFrame
<1>2. CASE AppGet
  <2>1. job.pc \in AppSteps
    BY <1>2 DEF AppGet, AppSteps, Parts, AdminSteps
  <2>2. Goto("appCreate") => QuietJob
    BY <1>1, <2>1, QuietOutcomes
       DEF Steps, AppSteps, Parts, AdminSteps, OAuthSteps, SamlSteps
  <2>3. ASSUME have.id # 0, UNCHANGED delayed,
               job' = [found EXCEPT !.pc = "appUpdate"] \/ job' = InSync(found)
        PROVE  QuietJob
    <3>1. CASE job' = [found EXCEPT !.pc = "appUpdate"]
      <4>1. job'.sp = job.sp /\ job'.copy = job.copy /\ job'.current = job.current
            /\ job'.mem.id = have.id /\ job'.base = job.base
            /\ job'.pc = "appUpdate"
        BY <1>1, <3>1 DEF Job, Status
      <4> QED
        BY <1>1, <2>1, <2>3, <4>1, QuietMove DEF At, AdminSteps, OAuthSteps, SamlSteps
    <3> QED
      BY <1>1, <2>1, <2>3, <3>1, QuietInSync
  <2>4. ASSUME have.id # 0, SetPhase(found, "Failed", "script") PROVE QuietJob
    <3>1. CASE job' = Idle /\ delayed' = delayed \cup {found.sp}
      BY <1>1, <3>1 DEF QuietJob, Job
    <3>2. CASE /\ job' = [found EXCEPT !.pc = "setPhase",
                                 !.mem.phase = "Failed", !.mem.why = "script"]
               /\ UNCHANGED delayed
      <4>1. job'.sp = job.sp /\ job'.copy = job.copy /\ job'.current = job.current
            /\ job'.mem.id = have.id /\ job'.base = job.base
            /\ job'.pc = "setPhase" /\ job'.mem.why = "script"
        BY <1>1, <3>2 DEF Job, Status
      <4> QED
        BY <1>1, <2>1, <2>4, <3>2, <4>1, QuietMove
           DEF At, AdminSteps, OAuthSteps, SamlSteps
    <3> QED
      BY <2>4, <3>1, <3>2 DEF SetPhase
  <2> QED
    BY <1>1, <1>2, <2>2, <2>3, <2>4, QuietOutcomes DEF AppGet
<1>3. CASE AppCreate
  <2>1. ASSUME job' = [job EXCEPT !.pc = "patchPending",
                           !.mem.phase = "Pending", !.mem.why = "created"],
               UNCHANGED delayed
        PROVE  QuietJob
    <3>1. job'.sp = job.sp /\ job'.copy = job.copy /\ job'.current = job.current
          /\ job'.mem.id = job.mem.id /\ job'.mem.phase = "Pending"
          /\ job'.pc = "patchPending" /\ job'.base = job.base
      BY <1>1, <2>1 DEF Job, Status
    <3>2. job.pc \in AppSteps
      BY <1>3 DEF AppCreate, AppSteps, Parts, AdminSteps
    <3> QED
      BY <1>1, <2>1, <3>1, <3>2, QuietMove
         DEF IdInJob, At, AdminSteps, OAuthSteps, SamlSteps
  <2> QED
    BY <1>1, <1>3, <2>1, QuietOutcomes DEF AppCreate, Call, Refused
<1>4. CASE AppUpdate
  <2>1. job.pc = "appUpdate" /\ job.pc \in AppSteps
    BY <1>4 DEF AppUpdate, AppSteps, Parts, AdminSteps
  <2>2. [job EXCEPT !.mem.id = job.mem.id] = job
    BY <1>1 DEF Job, Status
  <2>3. job' = InSync(job) /\ UNCHANGED delayed => QuietJob
    BY <1>1, <2>1, <2>2, QuietInSync DEF IdInJob, At
  <2>4. Fail \/ (job' = InSync(job) /\ UNCHANGED delayed)
    BY <1>4 DEF AppUpdate, Call, Refused
  <2> QED
    BY <1>1, <2>3, <2>4, QuietOutcomes
<1>5. CASE AdminGet
  <2>1. job.pc = "adminGet" /\ job.pc \in AppSteps
    BY <1>5 DEF AdminGet, AppSteps, Parts, AdminSteps
  <2>2. ASSUME UNCHANGED delayed,
               \/ job' = [job EXCEPT !.pc = "patchReady", !.mem.admin = TRUE]
               \/ job' = [job EXCEPT !.pc = "adminJoin", !.ref = have.id]
        PROVE  QuietJob
    <3> DEFINE Same == /\ job'.sp = job.sp /\ job'.copy = job.copy
                       /\ job'.current = job.current /\ job'.mem.id = job.mem.id
                       /\ job'.base = job.base /\ job'.pc \in {"patchReady", "adminJoin"}
    <3>1. job' = [job EXCEPT !.pc = "patchReady", !.mem.admin = TRUE] => Same
      BY <1>1 DEF Job, Status
    <3>2. job' = [job EXCEPT !.pc = "adminJoin", !.ref = have.id] => Same
      BY <1>1 DEF Job, Status
    <3>3. Same
      BY <2>2, <3>1, <3>2
    <3> QED
      BY <1>1, <2>1, <2>2, <3>3, QuietMove
         DEF IdInJob, At, AdminSteps, OAuthSteps, SamlSteps
  <2> QED
    BY <1>1, <1>5, <2>2, QuietOutcomes DEF AdminGet
<1>6. CASE AdminJoin
  BY <1>1, <1>6, QuietOutcomes DEF AdminJoin, Call, Refused
<1>7. CASE DelApp
  BY <1>1, <1>7, QuietOutcomes
     DEF DelApp, Steps, AppSteps, Parts, AdminSteps, OAuthSteps, SamlSteps
<1> QED
  BY <1>2, <1>3, <1>4, <1>5, <1>6, <1>7

\* What Begin leaves: a reconciliation of the cached version, a delayed key, or
\* nothing to do.
LEMMA BeginOutcome ==
    ASSUME TypeInv, NEW s \in SPs, Begin(s)
    PROVE  /\ UNCHANGED <<kube, left>> /\ job = Idle /\ queue' = queue \ {s}
           /\ delayed \subseteq delayed'
           /\ \/ /\ job' = Idle
                 /\ \/ s \in delayed'
                    \/ ~cache[s].live \/ SkipReconcile("app", cache[s])
              \/ /\ job'.sp = s /\ job'.copy = cache[s]
                 /\ job'.current = (pending[s] = <<>>)
                 /\ AtWork' => Workable(cache[s])
                 /\ ~At(AdminSteps \cup {"appUpdate", "patchReady"})'
                 /\ job'.mem.id = cache[s].st.id /\ job'.base.id = cache[s].st.id
                 /\ job'.mem.phase \in {cache[s].st.phase, "Pending"}
<1> USE DEF TypeInv, TypeOK
<1>1. Take(s) /\ cache[s] \in SPObject /\ cache[s].st \in Status
  BY DEF Begin, ReconcileGone, ReconcilePaused, ReconcileNotReady, ReconcileDelete,
         ReconcileFinalize, ReconcileApply, KubeOK, SPObject
<1>2. UNCHANGED <<kube, left>> /\ job = Idle /\ queue' = queue \ {s}
  BY <1>1 DEF Take
<1>3. ASSUME NEW pc \in {"pause", "delApp", "rmFin", "addFin", "oauthGet", "samlGet", "appGet"},
             Start(s, pc), pc \in AppSteps => Workable(cache[s])
      PROVE  /\ delayed' = delayed
             /\ job'.sp = s /\ job'.copy = cache[s] /\ job'.mem = cache[s].st
             /\ job'.base = cache[s].st /\ job'.current = (pending[s] = <<>>)
             /\ AtWork' => Workable(cache[s])
             /\ ~At(AdminSteps \cup {"appUpdate", "patchReady"})'
  <2>1. pc \in Steps
    BY DEF Steps, AppSteps, Parts, AdminSteps, OAuthSteps, SamlSteps
  <2>2. /\ delayed' = delayed
        /\ job'.sp = s /\ job'.copy = cache[s] /\ job'.mem = cache[s].st
        /\ job'.base = cache[s].st /\ job'.current = (pending[s] = <<>>) /\ job'.pc = pc
    BY <1>3, <2>1, SnapshotType DEF Start
  <2> QED
    BY <1>3, <2>2 DEF At, AtWork, AdminSteps
<1>4. CASE ReconcileGone(s)
  BY <1>2, <1>4 DEF ReconcileGone
<1>5. CASE ReconcilePaused(s)
  <2>1. "pause" \notin AppSteps
    BY DEF AppSteps, Parts, AdminSteps, OAuthSteps, SamlSteps
  <2> QED
    BY <1>2, <1>3, <1>5, <2>1 DEF ReconcilePaused
<1>6. CASE ReconcileNotReady(s)
  <2>1. "idle" \in Steps
    BY DEF Steps
  <2>2. PICK j \in Job :
           /\ j = Snapshot(s, "idle") /\ j.sp = s /\ j.copy = cache[s]
           /\ j.mem = cache[s].st /\ j.base = cache[s].st
           /\ j.current = (pending[s] = <<>>)
    BY <2>1, SnapshotType
  <2>3. SetPhase(j, "Pending", "instance")
    BY <1>6, <2>2 DEF ReconcileNotReady
  <2>4. CASE job' = Idle /\ delayed' = delayed \cup {j.sp}
    BY <1>2, <2>2, <2>4
  <2>5. CASE /\ job' = [j EXCEPT !.pc = "setPhase",
                               !.mem.phase = "Pending", !.mem.why = "instance"]
             /\ UNCHANGED delayed
    <3>1. /\ job'.sp = s /\ job'.copy = cache[s] /\ job'.pc = "setPhase"
          /\ job'.current = (pending[s] = <<>>) /\ job'.mem.phase = "Pending"
          /\ job'.mem.id = cache[s].st.id /\ job'.base = cache[s].st
          /\ job'.mem.why = "instance"
      BY <1>1, <2>2, <2>5 DEF Job, Status
    <3> QED
      BY <1>2, <2>5, <3>1
         DEF At, AtWork, AppSteps, Parts, AdminSteps, OAuthSteps, SamlSteps
  <2> QED
    BY <2>3, <2>4, <2>5 DEF SetPhase
<1>7. CASE ReconcileDelete(s)
  <2>1. "delApp" \notin AppSteps /\ "rmFin" \notin AppSteps
    BY DEF AppSteps, Parts, AdminSteps, OAuthSteps, SamlSteps
  <2> QED
    BY <1>2, <1>3, <1>7, <2>1 DEF ReconcileDelete
<1>8. CASE ReconcileFinalize(s)
  <2>1. "addFin" \notin AppSteps
    BY DEF AppSteps, Parts, AdminSteps, OAuthSteps, SamlSteps
  <2> QED
    BY <1>2, <1>3, <1>8, <2>1 DEF ReconcileFinalize
<1>9. CASE ReconcileApply(s)
  <2>1. FirstStep(cache[s]) \in {"oauthGet", "samlGet", "appGet"}
    BY <1>1, NextStepType
  <2>2. Workable(cache[s]) /\ Start(s, FirstStep(cache[s]))
    BY <1>9 DEF ReconcileApply, Served, Workable
  <2> QED
    BY <1>2, <1>3, <2>1, <2>2
<1> QED
  BY <1>4, <1>5, <1>6, <1>7, <1>8, <1>9 DEF Begin

\* The versions that may be read after a write and after a delivery.
LEMMA ReadableAfterPut ==
    ASSUME KubeOK, NEW s \in SPs, NEW o \in SPObject, Put(s, o)
    PROVE  \A t \in SPs :
              /\ sps'[t] = IF t = s THEN o ELSE sps[t]
              /\ t = s => pending'[t] # <<>> /\ pending'[t][Len(pending'[t])] = o
              /\ t # s => pending'[t] = pending[t]
              /\ cache'[t] = cache[t]
              /\ \A v \in Readable(t)' : v \in Readable(t) \/ (t = s /\ v = o)
<1> TAKE t \in SPs
<1>1. /\ sps'[t] = IF t = s THEN o ELSE sps[t]
      /\ pending'[t] = IF t = s THEN Append(pending[t], o) ELSE pending[t]
      /\ cache' = cache
  BY DEF KubeOK, Put
<1>2. pending[t] \in Seq(SPObject)
  BY DEF KubeOK
<1>3. /\ Append(pending[t], o) # <<>>
      /\ Len(Append(pending[t], o)) = Len(pending[t]) + 1
      /\ Append(pending[t], o)[Len(pending[t]) + 1] = o
      /\ \A i \in 1..Len(pending[t]) : Append(pending[t], o)[i] = pending[t][i]
      /\ Len(pending[t]) \in Nat
  BY <1>2
<1>4. ASSUME NEW v \in Readable(t)'
      PROVE  v \in Readable(t) \/ (t = s /\ v = o)
  <2>1. CASE v = cache'[t]
    BY <1>1, <2>1 DEF Readable
  <2>2. CASE \E i \in 1..Len(pending'[t]) : v = pending'[t][i]
    <3>1. PICK i \in 1..Len(pending'[t]) : v = pending'[t][i]
      BY <2>2
    <3>2. CASE t # s
      BY <1>1, <3>1, <3>2 DEF Readable
    <3>3. CASE t = s /\ i = Len(pending[t]) + 1
      BY <1>1, <1>3, <3>1, <3>3
    <3>4. CASE t = s /\ i # Len(pending[t]) + 1
      <4>1. i \in 1..Len(pending[t])
        BY <1>1, <1>3, <3>1, <3>4
      <4> QED
        BY <1>1, <1>3, <3>1, <3>4, <4>1 DEF Readable
    <3> QED
      BY <3>2, <3>3, <3>4
  <2> QED
    BY <1>4, <2>1, <2>2 DEF Readable
<1> QED
  BY <1>1, <1>3, <1>4

\* A delivery takes versions away and adds none.
LEMMA ReadableAfterDeliver ==
    ASSUME KubeOK, NEW s \in SPs, Deliver(s), InformerChain
    PROVE  \A t \in SPs : /\ Readable(t)' \subseteq Readable(t)
                          /\ t # s => pending'[t] = pending[t] /\ cache'[t] = cache[t]
                          /\ IF pending'[t] = <<>> THEN cache'[t] = sps[t]
                             ELSE pending'[t][Len(pending'[t])] = sps[t]
<1> TAKE t \in SPs
<1>1. CASE t # s
  <2>1. pending'[t] = pending[t] /\ cache'[t] = cache[t]
    BY <1>1 DEF Deliver, KubeOK
  <2> QED
    BY <1>1, <2>1 DEF Readable, InformerChain
<1>2. CASE t = s
  <2>1. /\ pending[s] \in Seq(SPObject) /\ pending[s] # <<>>
        /\ cache'[s] = Head(pending[s]) /\ pending'[s] = Tail(pending[s])
        /\ pending[s][Len(pending[s])] = sps[s]
    BY DEF Deliver, KubeOK, InformerChain
  <2>2. /\ Len(pending[s]) \in Nat \ {0} /\ Head(pending[s]) = pending[s][1]
        /\ Len(Tail(pending[s])) = Len(pending[s]) - 1
        /\ \A i \in 1..(Len(pending[s]) - 1) : Tail(pending[s])[i] = pending[s][i + 1]
        /\ Tail(pending[s]) = <<>> => Len(pending[s]) = 1
    <3>1. Len(pending[s]) \in Nat \ {0}
      BY <2>1, EmptySeq
    <3>2. /\ Len(Tail(pending[s])) = Len(pending[s]) - 1
          /\ \A i \in 1..Len(Tail(pending[s])) : Tail(pending[s])[i] = pending[s][i + 1]
      BY <2>1, HeadTailProperties
    <3>3. Head(pending[s]) = pending[s][1]
      BY <2>1
    <3>4. Tail(pending[s]) = <<>> => Len(pending[s]) = 1
      <4>1. Len(<<>>) = 0
        BY EmptySeq, Zenon
      <4>2. Tail(pending[s]) = <<>> => Len(Tail(pending[s])) = 0
        BY <4>1, Zenon
      <4> QED
        BY <3>1, <3>2, <4>2
    <3> QED
      BY <3>1, <3>2, <3>3, <3>4
  <2>3. ASSUME NEW v \in Readable(s)' PROVE v \in Readable(s)
    <3>1. CASE v = cache'[s]
      BY <2>1, <2>2, <3>1 DEF Readable
    <3>2. CASE \E i \in 1..Len(pending'[s]) : v = pending'[s][i]
      <4>1. PICK i \in 1..(Len(pending[s]) - 1) : v = pending[s][i + 1]
        BY <2>1, <2>2, <3>2
      <4>2. i + 1 \in 1..Len(pending[s])
        BY <2>2
      <4> QED
        BY <4>1, <4>2 DEF Readable
    <3> QED
      BY <2>3, <3>1, <3>2 DEF Readable
  <2>4. IF pending'[s] = <<>> THEN cache'[s] = sps[s]
        ELSE pending'[s][Len(pending'[s])] = sps[s]
    BY <2>1, <2>2
  <2> QED
    BY <1>2, <2>3, <2>4
<1> QED
  BY <1>1, <1>2

------------------------------------------------------------------------------
(* The invariant about versions: what the cache and the pending versions     *)
(* hold, the copy a reconciliation works on, and the finalizer.              *)

CoreInv == /\ TypeInv /\ InformerChain /\ CurrentCopy /\ OldCopyFollowed
           /\ FinalizerStays /\ FinalizerAtWork

\* A new version keeps the finalizer, or nothing that is still to be read
\* makes the controller work on the server.
LEMMA IdleAtRest == job' = Idle => ~AtWork'
BY DEF Idle, AtWork, AppSteps, Parts, AdminSteps, OAuthSteps, SamlSteps

\* A write keeps the finalizer where the controller may still rely on it.
LEMMA StaysAfterPut ==
    ASSUME KubeOK, InformerChain, FinalizerStays,
           NEW s \in SPs, NEW o \in SPObject, Put(s, o),
           \/ sps[s].live /\ sps[s].fin => o.live /\ o.fin
           \/ \A v \in Readable(s) : ~Workable(v)
    PROVE  InformerChain' /\ FinalizerStays'
<1>1. InformerChain'
  <2> SUFFICES ASSUME NEW t \in SPs
               PROVE  IF pending'[t] = <<>> THEN cache'[t] = sps'[t]
                      ELSE pending'[t][Len(pending'[t])] = sps'[t]
    BY DEF InformerChain
  <2> QED
    BY ReadableAfterPut DEF InformerChain
<1>2. ASSUME NEW t \in SPs, NEW v \in Readable(t)', Workable(v)
      PROVE  sps'[t].live /\ sps'[t].fin
  <2>1. CASE t # s
    BY <1>2, <2>1, ReadableAfterPut DEF FinalizerStays
  <2>2. CASE t = s /\ v = o
    BY <1>2, <2>2, ReadableAfterPut DEF Workable
  <2>3. CASE t = s /\ v \in Readable(s)
    BY <1>2, <2>3, ReadableAfterPut DEF FinalizerStays
  <2> QED
    BY <1>2, <2>1, <2>2, <2>3, ReadableAfterPut
<1> QED
  BY <1>1, <1>2 DEF FinalizerStays

\* Quiet steps of the job.
LEMMA CoreQuiet == ASSUME CoreInv, TypeInv', QuietJob PROVE CoreInv'
<1>1. InformerChain' /\ FinalizerStays'
  BY DEF QuietJob, kube, CoreInv, InformerChain, FinalizerStays, Readable
<1>2. Idle.pc = "idle" /\ (job' = Idle => ~AtWork')
  BY IdleAtRest DEF Idle
<1>3. CurrentCopy' /\ OldCopyFollowed' /\ FinalizerAtWork'
  BY <1>2 DEF QuietJob, kube, CoreInv, CurrentCopy, OldCopyFollowed, FinalizerAtWork
<1> QED
  BY <1>1, <1>3 DEF CoreInv

\* The start of a reconciliation.
LEMMA CoreBegin == ASSUME CoreInv, NEW s \in SPs, Begin(s) PROVE CoreInv'
<1>1. TypeInv'
  BY BeginType DEF CoreInv
<1>2. UNCHANGED kube
  BY BeginOutcome DEF CoreInv
<1>3. InformerChain' /\ FinalizerStays'
  BY <1>2 DEF kube, CoreInv, InformerChain, FinalizerStays, Readable
<1>4. CASE job' = Idle
  BY <1>1, <1>3, <1>4, IdleAtRest
     DEF CoreInv, CurrentCopy, OldCopyFollowed, FinalizerAtWork, Idle
<1>5. CASE job' # Idle
  <2>1. /\ job'.sp = s /\ job'.copy = cache[s] /\ job'.current = (pending[s] = <<>>)
        /\ AtWork' => Workable(cache[s])
    BY <1>5, BeginOutcome DEF CoreInv
  <2>2. CurrentCopy' /\ OldCopyFollowed'
    BY <1>2, <2>1 DEF kube, CurrentCopy, OldCopyFollowed
  <2>3. Workable(cache[s]) => sps[s].live /\ sps[s].fin
    BY DEF CoreInv, FinalizerStays, Readable
  <2>4. FinalizerAtWork'
    BY <1>2, <2>1, <2>3 DEF kube, FinalizerAtWork
  <2> QED
    BY <1>1, <1>3, <2>2, <2>4 DEF CoreInv
<1> QED
  BY <1>4, <1>5

\* What a write of the controller may put in the place of the object.
Intended(s, o) ==
    IF o.live THEN /\ o.live = sps[s].live /\ o.fin \in {sps[s].fin, TRUE}
                   /\ \/ o.spec = sps[s].spec
                      \/ /\ ~sps[s].fin /\ o.fin
                         /\ o.spec = Defaulted(sps[s].spec)
                   /\ o.skip = sps[s].skip
                   /\ o.deleting = sps[s].deleting
              ELSE \/ ~sps[s].live
                   \/ sps[s].deleting /\ job.current /\ job.pc = "rmFin"

\* ... and in the place of its status.
Recorded(s, o) ==
    /\ IdIfReady(o.st)
    /\ o.live /\ sps[s].st.id # 0 => o.st.id # 0

Writes == \/ SetPhaseWrite \/ PauseWrite \/ AddFinalizer \/ RemoveFinalizer
          \/ PatchPending \/ PatchReady

IdInv == IdKept /\ IdInJob /\ IdAtWork

\* An Update writes the object as the server has it, but for what it changes.
LEMMA CopyIsCurrent ==
    ASSUME CoreInv, job.pc # "idle", job.current
    PROVE  /\ job.copy = sps[job.sp] /\ pending[job.sp] = <<>>
           /\ cache[job.sp] = sps[job.sp]
BY DEF CoreInv, TypeInv, JobShape, CurrentCopy, InformerChain

\* A reconciliation that goes on after a failure that setPhase swallowed.
Continued ==
    /\ job.pc = "setPhase" /\ job'.sp = job.sp /\ job'.copy = job.copy
    /\ job'.current <=> job.current /\ kube' = kube
    /\ AtWork' => AtWork
    /\ IdInJob => IdInJob'

\* A swallowed failure ends the job or leaves it at work.
LEMMA SwallowedOutcome ==
    ASSUME TypeInv, job.pc = "setPhase", Swallowed
    PROVE  /\ job' = Idle \/ Continued
           /\ delayed' = delayed
<1>1. Done => job' = Idle /\ delayed' = delayed
  BY DEF Done
<1>2. ASSUME NEW pc \in {"samlGet", "appGet", "patchReady"}, GoOn(pc), job.mem.why \in Parts,
             pc = "patchReady" => job.mem.why \in AdminSteps,
             pc # "patchReady" => job.mem.why \in OAuthSteps \cup SamlSteps
      PROVE  Continued /\ delayed' = delayed
  <2>1. pc \in Steps
    BY DEF Steps, AppSteps, Parts, AdminSteps, OAuthSteps, SamlSteps
  <2>2. /\ job'.pc = pc /\ job'.sp = job.sp /\ job'.copy = job.copy
        /\ job'.mem = job.mem /\ job'.base = IF pc = "patchReady" THEN job.base ELSE job.mem
        /\ job'.current = (job.current /\ kube' = kube) /\ delayed' = delayed
    BY <1>2, <2>1, GoOnFields
  <2>3. AtWork
    BY <1>2 DEF AtWork
  <2>4. IdInJob => IdInJob'
    <3>1. CASE pc = "patchReady"
      BY <1>2, <2>2, <3>1 DEF IdInJob, At, AdminSteps, OAuthSteps, SamlSteps
    <3>2. CASE pc # "patchReady"
      BY <1>2, <2>2, <3>2 DEF IdInJob, At, AdminSteps
    <3> QED
      BY <3>1, <3>2
  <2> QED
    BY <2>2, <2>3, <2>4 DEF Continued
<1> QED
  BY <1>1, <1>2, SwallowedSteps

\* The outcomes of an Update: nothing changes, or the object of the job does.
LEMMA UpdateOutcome ==
    ASSUME CoreInv, job.pc # "idle", WriteFrame, NEW s \in SPs, s = job.sp,
           NEW o,
           \/ Update(o, Done, Requeue)
           \/ job.pc = "setPhase" /\ Update(o, Requeue, Swallowed)
    PROVE  /\ job' = Idle \/ Continued
           /\ queue' = queue /\ delayed \subseteq delayed'
           /\ UNCHANGED left \/ Spend("api")
           /\ \/ UNCHANGED kube /\ (s \in delayed' \/ ~job.current \/ Spend("api"))
              \/ Put(s, o) /\ job.current
<1>1. CASE Update(o, Done, Requeue)
  BY <1>1 DEF Update, Requeue, Done, WriteFrame
<1>2. CASE job.pc = "setPhase" /\ Update(o, Requeue, Swallowed)
  BY <1>2, SwallowedOutcome DEF Update, Requeue, WriteFrame, CoreInv
<1> QED
  BY <1>1, <1>2

\* The two patches of the status.
LEMMA PatchOutcome ==
    ASSUME CoreInv, PatchPending \/ PatchReady, NEW s \in SPs, s = job.sp
    PROVE  /\ job' = Idle /\ queue' = queue /\ delayed \subseteq delayed'
           /\ UNCHANGED left \/ Spend("api")
           /\ s \in delayed'
           /\ \/ UNCHANGED kube
              \/ /\ Put(s, [sps[s] EXCEPT !.st =
                              StatusPatch(sps[s].st, job.base, job.mem)])
                 /\ sps[s].live
BY DEF PatchPending, PatchReady, PatchCall, Patch, Requeue, WriteFrame, kube

\* The merge patch of a stale base keeps the ID and sends Ready with one.
LEMMA PatchRecords ==
    ASSUME CoreInv, IdInv, job.pc \in AppSteps, NEW s \in SPs, s = job.sp,
           NEW st, st = StatusPatch(sps[s].st, job.base, job.mem)
    PROVE  IdIfReady(st) /\ (sps[s].st.id # 0 => st.id # 0)
<1>1. /\ sps[s].st \in Status /\ job.base \in Status /\ job.mem \in Status
  BY DEF CoreInv, TypeInv, TypeOK, KubeOK, ControlOK, Job, SPObject
<1>2. /\ st.id = IF job.base.id # job.mem.id THEN job.mem.id ELSE sps[s].st.id
      /\ st.phase = IF job.base.phase # job.mem.phase THEN job.mem.phase
                                                         ELSE sps[s].st.phase
  BY <1>1 DEF StatusPatch, Status
<1>3. /\ IdIfReady(job.mem) /\ IdIfReady(sps[s].st)
      /\ job.mem.id = job.copy.st.id \/ job.mem.id # 0
      /\ job.base.id = job.copy.st.id
      /\ job.copy.st.id # 0 => sps[s].st.id # 0
  BY DEF IdInv, IdKept, IdInJob, IdAtWork, AtWork
<1> QED
  BY <1>2, <1>3 DEF IdIfReady

\* What the steps that write the object do to it.
LEMMA WriteOutcome ==
    ASSUME CoreInv, Writes, NEW s \in SPs, s = job.sp
    PROVE  /\ job.pc # "idle" /\ queue' = queue /\ (job' = Idle \/ Continued)
           /\ delayed \subseteq delayed'
           /\ UNCHANGED left \/ Spend("api")
           /\ \/ UNCHANGED kube /\ (s \in delayed' \/ ~job.current \/ Spend("api"))
              \/ \E o \in SPObject :
                    Put(s, o) /\ Intended(s, o) /\ (IdInv => Recorded(s, o))
<1>1. /\ sps[s] \in SPObject /\ job.copy \in SPObject /\ job.mem \in Status
      /\ job.base \in Status /\ sps[s].st \in Status
  BY DEF CoreInv, TypeInv, TypeOK, KubeOK, ControlOK, Job, SPObject
<1>2. CASE SetPhaseWrite
  <2> DEFINE o == [sps[s] EXCEPT !.st = job.mem]
  <2>1. job.pc = "setPhase" /\ job.pc # "idle" /\ WriteFrame
        /\ Update(o, Requeue, Swallowed)
    BY <1>2 DEF SetPhaseWrite
  <2>2. o \in SPObject /\ Intended(s, o) /\ o.st = job.mem
    BY <1>1 DEF SPObject, Intended
  <2>3. job.current => job.copy = sps[s]
    BY <2>1, CopyIsCurrent
  <2>4. job.current /\ IdInv => Recorded(s, o)
    BY <2>2, <2>3 DEF IdInv, IdInJob, Recorded
  <2> HIDE DEF o
  <2> QED
    BY <2>1, <2>2, <2>4, UpdateOutcome
<1>3. CASE PauseWrite
  <2> DEFINE o == [sps[s] EXCEPT !.st.phase = "Paused"]
  <2>1. job.pc # "idle" /\ WriteFrame /\ Update(o, Done, Requeue)
    BY <1>3 DEF PauseWrite
  <2>2. [sps[s].st EXCEPT !.phase = "Paused"] \in Status
    BY <1>1 DEF Status, Phases
  <2>3. o \in SPObject /\ Intended(s, o)
        /\ o.st.phase = "Paused" /\ o.st.id = sps[s].st.id
    BY <1>1, <2>2 DEF SPObject, Status, Intended
  <2>4. Recorded(s, o)
    BY <2>3 DEF Recorded, IdIfReady
  <2> HIDE DEF o
  <2> QED
    BY <2>1, <2>3, <2>4, UpdateOutcome
<1>4. CASE AddFinalizer
  <2> DEFINE o == Updated(sps[s], [job.copy EXCEPT !.fin = TRUE])
  <2>1. job.pc # "idle" /\ WriteFrame /\ Update(o, Done, Requeue) /\ ~job.copy.fin
    BY <1>4 DEF AddFinalizer, CoreInv, TypeInv, JobShape
  <2>2. o \in SPObject
    BY <1>1, DefaultedType DEF Updated, SPObject
  <2>3. /\ o.live = job.copy.live /\ o.fin = TRUE
        /\ o.spec = Defaulted(job.copy.spec)
        /\ o.skip = job.copy.skip /\ o.deleting = job.copy.deleting
        /\ o.st = sps[s].st
    BY <1>1 DEF Updated, SPObject
  <2>4. job.current => job.copy = sps[s]
    BY <2>1, CopyIsCurrent
  <2>5. job.current => Intended(s, o)
    BY <2>1, <2>3, <2>4 DEF Intended
  <2>6. IdInv => Recorded(s, o)
    BY <2>3 DEF IdInv, IdKept, Recorded
  <2> HIDE DEF o
  <2> QED
    BY <2>1, <2>2, <2>5, <2>6, UpdateOutcome
<1>5. CASE RemoveFinalizer
  <2>1. job.pc = "rmFin" /\ job.pc # "idle" /\ WriteFrame /\ Update(Gone, Done, Requeue)
    BY <1>5 DEF RemoveFinalizer
  <2>2. job.copy.deleting
    BY <2>1 DEF CoreInv, TypeInv, JobShape
  <2>3. job.current => Intended(s, Gone)
    BY <2>1, <2>2, GoneFields, CopyIsCurrent DEF Intended
  <2>4. Recorded(s, Gone)
    BY GoneFields DEF Recorded, IdIfReady
  <2> QED
    BY <2>1, <2>3, <2>4, ConstantTypes, UpdateOutcome
<1>6. CASE PatchPending \/ PatchReady
  <2> DEFINE st == StatusPatch(sps[s].st, job.base, job.mem)
             o  == [sps[s] EXCEPT !.st = st]
  <2>1. job.pc # "idle" /\ job.pc \in AppSteps
    BY <1>6 DEF PatchPending, PatchReady, AppSteps, Parts, AdminSteps
  <2>2. st \in Status
    BY <1>1, StatusPatchFields
  <2> HIDE DEF st
  <2>3. o \in SPObject /\ Intended(s, o) /\ o.st = st
    BY <1>1, <2>2 DEF SPObject, Intended
  <2>4. IdInv => Recorded(s, o)
    BY <2>1, <2>3, PatchRecords DEF st, Recorded
  <2>5. /\ job' = Idle /\ queue' = queue /\ delayed \subseteq delayed'
        /\ UNCHANGED left \/ Spend("api")
        /\ s \in delayed' /\ (UNCHANGED kube \/ Put(s, o))
    BY <1>6, PatchOutcome DEF st
  <2> QED
    BY <2>1, <2>3, <2>4, <2>5
<1> QED
  BY <1>2, <1>3, <1>4, <1>5, <1>6 DEF Writes

\* Writes of the controller.
LEMMA CoreWrite == ASSUME CoreInv, Writes PROVE CoreInv'
<1>1. PICK s \in SPs : s = job.sp
  BY DEF CoreInv, TypeInv, JobShape, Writes, SetPhaseWrite, PauseWrite, AddFinalizer,
         RemoveFinalizer, PatchPending, PatchReady
<1>2. job.pc # "idle" /\ queue' = queue
  BY <1>1, WriteOutcome
<1>3. TypeInv'
  BY WriteStepType DEF CoreInv, Writes
<1>4. CurrentCopy' /\ OldCopyFollowed' /\ FinalizerAtWork'
  <2>1. CASE job' = Idle
    BY <2>1, IdleAtRest DEF CurrentCopy, OldCopyFollowed, FinalizerAtWork, Idle
  <2>2. CASE Continued /\ UNCHANGED kube
    BY <1>2, <2>2
       DEF kube, Continued, CoreInv, CurrentCopy, OldCopyFollowed, FinalizerAtWork
  <2>3. ASSUME Continued, ~UNCHANGED kube, NEW o \in SPObject, Put(s, o), Intended(s, o)
        PROVE  CurrentCopy' /\ OldCopyFollowed' /\ FinalizerAtWork'
    <3>1. sps'[s] = o /\ pending'[s] # <<>>
      BY <2>3, ReadableAfterPut DEF CoreInv, TypeInv, TypeOK
    <3>2. sps[s].live /\ sps[s].fin => o.live /\ o.fin
      BY <2>3 DEF Intended, Continued
    <3>3. ~job'.current /\ job'.sp = s
      BY <1>1, <2>3 DEF Continued
    <3>4. FinalizerAtWork'
      BY <1>1, <2>3, <3>1, <3>2, <3>3 DEF Continued, CoreInv, FinalizerAtWork
    <3> QED
      BY <3>1, <3>3, <3>4 DEF CurrentCopy, OldCopyFollowed
  <2> QED
    BY <1>1, <2>1, <2>2, <2>3, WriteOutcome
<1>5. InformerChain' /\ FinalizerStays'
  <2>1. CASE UNCHANGED kube
    BY <2>1 DEF kube, CoreInv, InformerChain, FinalizerStays, Readable
  <2>2. ASSUME NEW o \in SPObject, Put(s, o), Intended(s, o)
        PROVE  InformerChain' /\ FinalizerStays'
    <3>1. CASE o.live \/ ~sps[s].live
      <4>1. sps[s].live /\ sps[s].fin => o.live /\ o.fin
        BY <2>2, <3>1 DEF Intended
      <4> QED
        BY <2>2, <4>1, StaysAfterPut DEF CoreInv, TypeInv, TypeOK
    <3>2. CASE sps[s].deleting /\ job.current
      <4>1. pending[s] = <<>> /\ cache[s] = sps[s]
        BY <1>1, <1>2, <3>2, CopyIsCurrent
      <4>2. Len(<<>>) = 0
        BY EmptySeq, Zenon
      <4>3. Readable(s) = {cache[s]}
        BY <4>1, <4>2 DEF Readable
      <4>4. \A v \in Readable(s) : ~Workable(v)
        BY <3>2, <4>1, <4>3 DEF Workable
      <4> QED
        BY <2>2, <4>4, StaysAfterPut DEF CoreInv, TypeInv, TypeOK
    <3> QED
      BY <2>2, <3>1, <3>2 DEF Intended
  <2> QED
    BY <1>1, <2>1, <2>2, WriteOutcome
<1> QED
  BY <1>3, <1>4, <1>5 DEF CoreInv

\* Writes of users.
LEMMA CoreUser ==
    ASSUME CoreInv, NEW s \in SPs,
           CreateSP(s) \/ EditSpec(s) \/ Annotate(s) \/ DeleteSP(s)
    PROVE  CoreInv'
<1>1. PICK o \in SPObject :
         UserWrite(s, o) /\ (sps[s].live /\ sps[s].fin => o.live /\ o.fin)
  BY UserOutcome DEF CoreInv
<1>2. Put(s, o) /\ queue' = queue
  BY <1>1 DEF UserWrite
<1>3. TypeInv'
  BY <1>1, UserWriteType DEF CoreInv
<1>4. InformerChain' /\ FinalizerStays'
  BY <1>1, <1>2, StaysAfterPut DEF CoreInv, TypeInv, TypeOK
<1>5. /\ job'.pc = job.pc /\ job'.sp = job.sp /\ job'.copy = job.copy
      /\ job'.mem = job.mem
      /\ job.sp # s => job'.current = job.current
      /\ job.sp = s => ~job'.current
      /\ job.pc # "idle" => job.sp \in SPs
  BY <1>1 DEF UserWrite, CoreInv, TypeInv, TypeOK, ControlOK, JobShape, Job
<1>6. \A t \in SPs : /\ sps'[t] = IF t = s THEN o ELSE sps[t]
                     /\ t = s => pending'[t] # <<>>
                     /\ t # s => pending'[t] = pending[t]
                     /\ cache'[t] = cache[t]
  BY <1>2, ReadableAfterPut DEF CoreInv, TypeInv, TypeOK
<1>7. CurrentCopy' /\ OldCopyFollowed'
  BY <1>2, <1>5, <1>6 DEF CoreInv, CurrentCopy, OldCopyFollowed
<1>8. AtWork => job.pc # "idle"
  BY DEF AtWork, AppSteps, Parts, AdminSteps, OAuthSteps, SamlSteps
<1>9. FinalizerAtWork'
  BY <1>1, <1>5, <1>6, <1>8 DEF CoreInv, FinalizerAtWork, AtWork
<1> QED
  BY <1>3, <1>4, <1>7, <1>9 DEF CoreInv

\* Deliveries.
LEMMA CoreDeliver == ASSUME CoreInv, NEW s \in SPs, Deliver(s) PROVE CoreInv'
<1>1. TypeInv'
  BY DeliveryType DEF CoreInv
<1>2. /\ UNCHANGED <<sps, job>> /\ queue' = queue \cup {s} /\ pending[s] # <<>>
      /\ job.pc # "idle" => job.sp \in SPs
  BY DEF Deliver, CoreInv, TypeInv, JobShape
<1>3. \A t \in SPs : /\ Readable(t)' \subseteq Readable(t)
                     /\ t # s => pending'[t] = pending[t] /\ cache'[t] = cache[t]
                     /\ IF pending'[t] = <<>> THEN cache'[t] = sps[t]
                        ELSE pending'[t][Len(pending'[t])] = sps[t]
  BY ReadableAfterDeliver DEF CoreInv, TypeInv, TypeOK
<1>4. InformerChain' /\ FinalizerStays'
  BY <1>2, <1>3 DEF CoreInv, InformerChain, FinalizerStays
<1>5. CurrentCopy' /\ OldCopyFollowed'
  BY <1>2, <1>3 DEF CoreInv, CurrentCopy, OldCopyFollowed
<1>6. FinalizerAtWork'
  BY <1>2 DEF CoreInv, FinalizerAtWork, AtWork
<1> QED
  BY <1>1, <1>4, <1>5, <1>6 DEF CoreInv

\* Steps that concern neither the objects nor the job.
LEMMA CoreElsewhere ==
    ASSUME CoreInv, TypeInv', UNCHANGED <<kube, job>>, queue \subseteq queue'
    PROVE  CoreInv'
<1>1. InformerChain' /\ FinalizerStays'
  BY DEF kube, CoreInv, InformerChain, FinalizerStays, Readable
<1>2. CurrentCopy' /\ OldCopyFollowed' /\ FinalizerAtWork'
  BY DEF kube, CoreInv, CurrentCopy, OldCopyFollowed, FinalizerAtWork, AtWork
<1> QED
  BY <1>1, <1>2 DEF CoreInv

\* Restarts.
LEMMA CoreRestart == ASSUME CoreInv, TypeInv', Restart PROVE CoreInv'
<1>1. /\ job' = Idle /\ sps' = sps
      /\ \A s \in SPs : cache'[s] = sps[s] /\ pending'[s] = <<>>
  BY DEF Restart
<1>2. Len(<<>>) = 0
  BY EmptySeq, Zenon
<1>3. \A s \in SPs : Readable(s)' = {sps[s]}
  BY <1>1, <1>2 DEF Readable
<1>4. InformerChain' /\ FinalizerStays'
  BY <1>1, <1>3 DEF InformerChain, FinalizerStays, Workable
<1>5. CurrentCopy' /\ OldCopyFollowed' /\ FinalizerAtWork'
  BY <1>1, IdleAtRest DEF CurrentCopy, OldCopyFollowed, FinalizerAtWork, Idle
<1> QED
  BY <1>4, <1>5 DEF CoreInv

\* The kinds of steps there are.
Elsewhere == UNCHANGED <<kube, job>> /\ queue \subseteq queue' /\ UNCHANGED delayed

\* Every step is of one of these kinds.
LEMMA StepKinds ==
    ASSUME TypeInv, [Next]_vars
    PROVE  \/ \E s \in SPs : Begin(s)
           \/ QuietJob
           \/ Writes
           \/ \E s \in SPs : CreateSP(s) \/ EditSpec(s) \/ Annotate(s) \/ DeleteSP(s)
           \/ \E s \in SPs : Deliver(s)
           \/ \E s \in SPs : Wake(s)
           \/ Crash
           \/ Elsewhere
<1>1. CASE JobStep
  BY <1>1, QuietInbound, QuietApplication DEF JobStep, Writes
<1>2. CASE Environment
  BY <1>2
     DEF Environment, Users, Elsewhere, MetadataChange, SecretRemoved, AppDrift, AppRemoval,
         InstanceChange, control
<1>3. ASSUME NEW s \in SPs, SecretDeliver(s) PROVE Elsewhere
  BY <1>3 DEF SecretDeliver, Elsewhere, control
<1>4. CASE UNCHANGED vars
  BY <1>4 DEF vars, control, Elsewhere
<1> QED
  BY <1>1, <1>2, <1>3, <1>4 DEF Next

\* The initial states.
LEMMA CoreInit == Init => CoreInv
<1> SUFFICES ASSUME Init PROVE CoreInv
  OBVIOUS
<1>1. Len(<<>>) = 0
  BY EmptySeq, Zenon
<1>2. ASSUME NEW s \in SPs PROVE Readable(s) = {Gone}
  <2>1. cache[s] = Gone /\ pending[s] = <<>>
    BY DEF Init
  <2> QED
    BY <1>1, <2>1 DEF Readable
<1>3. InformerChain /\ FinalizerStays
  BY <1>2, GoneFields DEF Init, InformerChain, FinalizerStays, Workable
<1>4. CurrentCopy /\ OldCopyFollowed /\ FinalizerAtWork
  BY DEF Init, Idle, CurrentCopy, OldCopyFollowed, FinalizerAtWork, AtWork, AppSteps,
         Parts, AdminSteps, OAuthSteps, SamlSteps
<1> QED
  BY <1>3, <1>4, InitType DEF CoreInv

\* Every step, kind by kind.
LEMMA CoreNext == CoreInv /\ [Next]_vars => CoreInv'
<1> SUFFICES ASSUME CoreInv, [Next]_vars PROVE CoreInv'
  OBVIOUS
<1>1. TypeInv'
  BY NextType DEF CoreInv
<1>2. CASE \E s \in SPs : Wake(s)
  BY <1>1, <1>2, CoreElsewhere DEF Wake
<1>3. CASE Elsewhere
  BY <1>1, <1>3, CoreElsewhere DEF Elsewhere
<1> QED
  BY <1>1, <1>2, <1>3, StepKinds, CoreBegin, CoreQuiet, CoreWrite, CoreUser,
     CoreDeliver, CoreRestart
     DEF CoreInv, Crash

\* The cache, the copy of the job and the finalizer, in every behaviour.
LEMMA CoreInvariant == Spec => []CoreInv
<1>1. Init => CoreInv
  BY CoreInit
<1>2. CoreInv /\ [Next]_vars => CoreInv'
  BY CoreNext
<1> QED
  BY <1>1, <1>2, PTL DEF Spec

\* The controller works on the server only for an object that carries the
\* finalizer on the API server, although Reconcile decides by a copy from the
\* informer cache that may be several versions old.
THEOREM FinalizerGuards == Spec => []FinalizerGuardsRemote
<1>1. CoreInv => FinalizerGuardsRemote
  BY DEF CoreInv, FinalizerAtWork, AtWork, FinalizerGuardsRemote
<1> QED
  BY <1>1, CoreInvariant, PTL

------------------------------------------------------------------------------
(* IDs: once recorded they stay, and Ready comes with one. *)

\* What is put in the place of an object keeps IdKept.
LEMMA IdAfterPut ==
    ASSUME KubeOK, IdKept, NEW s \in SPs, NEW o \in SPObject, Put(s, o),
           IdIfReady(o.st),
           \/ sps[s].st.id # 0 => o.st.id # 0
           \/ \A v \in Readable(s) : ~Workable(v)
    PROVE  IdKept'
<1> SUFFICES ASSUME NEW t \in SPs
             PROVE  /\ IdIfReady(sps'[t].st)
                    /\ \A v \in Readable(t)' :
                          /\ IdIfReady(v.st)
                          /\ Workable(v) /\ v.st.id # 0 => sps'[t].st.id # 0
  BY DEF IdKept, IdIfReady, Workable
<1>1. sps'[t] = IF t = s THEN o ELSE sps[t]
  BY ReadableAfterPut
<1>2. IdIfReady(sps'[t].st)
  BY <1>1 DEF IdKept
<1>3. ASSUME NEW v \in Readable(t)'
      PROVE  /\ IdIfReady(v.st)
             /\ Workable(v) /\ v.st.id # 0 => sps'[t].st.id # 0
  <2>1. CASE t = s /\ v = o
    BY <1>1, <2>1
  <2>2. CASE v \in Readable(t)
    BY <1>1, <2>2 DEF IdKept
  <2> QED
    BY <1>3, <2>1, <2>2, ReadableAfterPut
<1> QED
  BY <1>2, <1>3

\* Nothing is owed of an idle job.
LEMMA IdIdle == ASSUME job' = Idle PROVE IdInJob' /\ IdAtWork'
<1>1. /\ job'.pc = "idle" /\ job'.mem = NoStatus /\ job'.copy = Gone
      /\ job'.base = NoStatus
  BY DEF Idle
<1> QED
  BY <1>1, GoneFields, IdleAtRest
     DEF IdInJob, IdAtWork, IdIfReady, At, AdminSteps, OAuthSteps, SamlSteps

\* The start of a reconciliation.
LEMMA IdBegin ==
    ASSUME CoreInv, IdInv, NEW s \in SPs, Begin(s) PROVE IdInv'
<1>1. UNCHANGED kube /\ cache[s] \in Readable(s)
  BY BeginOutcome DEF CoreInv, Readable
<1>2. IdKept'
  BY <1>1 DEF IdInv, IdKept, kube, Readable
<1>3. CASE job' = Idle
  BY <1>2, <1>3, IdIdle DEF IdInv
<1>4. CASE job' # Idle
  <2>1. /\ job'.sp = s /\ job'.copy = cache[s] /\ job'.mem.id = cache[s].st.id
        /\ job'.base.id = cache[s].st.id
        /\ AtWork' => Workable(cache[s])
        /\ ~At(AdminSteps \cup {"appUpdate", "patchReady"})'
        /\ job'.mem.phase \in {cache[s].st.phase, "Pending"}
    BY <1>4, BeginOutcome DEF CoreInv
  <2>2. IdInJob'
    BY <1>1, <2>1 DEF IdInv, IdKept, IdInJob, IdIfReady
  <2>3. IdAtWork'
    BY <1>1, <2>1 DEF IdInv, IdKept, IdAtWork, kube
  <2> QED
    BY <1>2, <2>2, <2>3 DEF IdInv
<1> QED
  BY <1>3, <1>4

\* Quiet steps of the job.
LEMMA IdQuiet == ASSUME CoreInv, IdInv, QuietJob PROVE IdInv'
<1>1. IdKept'
  BY DEF QuietJob, IdInv, IdKept, kube, Readable
<1>2. CASE job' = Idle
  BY <1>1, <1>2, IdIdle DEF IdInv
<1>3. CASE job' # Idle
  BY <1>1, <1>3 DEF QuietJob, IdInv, IdAtWork, kube
<1> QED
  BY <1>2, <1>3

\* Writes of the controller.
LEMMA IdWrite == ASSUME CoreInv, IdInv, Writes PROVE IdInv'
<1>1. PICK s \in SPs : s = job.sp
  BY DEF CoreInv, TypeInv, JobShape, Writes, SetPhaseWrite, PauseWrite, AddFinalizer,
         RemoveFinalizer, PatchPending, PatchReady
<1>2. IdInJob'
  BY <1>1, WriteOutcome, IdIdle DEF IdInv, Continued
<1>3. CASE UNCHANGED kube
  <2>1. IdAtWork'
    BY <1>1, <1>3, WriteOutcome, IdIdle DEF IdInv, IdAtWork, Continued, kube
  <2> QED
    BY <1>2, <1>3, <2>1 DEF IdInv, IdKept, kube, Readable
<1>4. ASSUME NEW o \in SPObject, Put(s, o), Intended(s, o), Recorded(s, o)
      PROVE  IdKept' /\ IdAtWork'
  <2>1. \/ sps[s].st.id # 0 => o.st.id # 0
        \/ \A v \in Readable(s) : ~Workable(v)
    <3>1. CASE o.live
      BY <1>4, <3>1 DEF Recorded
    <3>2. CASE ~sps[s].live
      BY <3>2 DEF CoreInv, FinalizerStays
    <3>3. CASE sps[s].deleting /\ job.current
      <4>1. pending[s] = <<>> /\ cache[s] = sps[s]
        BY <1>1, <3>3, WriteOutcome, CopyIsCurrent
      <4>2. Len(<<>>) = 0
        BY EmptySeq, Zenon
      <4> QED
        BY <3>3, <4>1, <4>2 DEF Readable, Workable
    <3> QED
      BY <1>4, <3>1, <3>2, <3>3 DEF Intended
  <2>2. sps'[s] = o
    BY <1>4, ReadableAfterPut DEF CoreInv, TypeInv, TypeOK
  <2>3. ASSUME Continued, AtWork', job'.copy.st.id # 0 PROVE sps'[job'.sp].st.id # 0
    <3>1. AtWork /\ job'.sp = s /\ job.copy.st.id # 0
      BY <1>1, <2>3 DEF Continued
    <3>2. sps[s].live /\ sps[s].st.id # 0
      BY <1>1, <3>1 DEF CoreInv, FinalizerAtWork, IdInv, IdAtWork
    <3>3. o.live
      BY <1>4, <2>3, <3>2 DEF Intended, Continued
    <3> QED
      BY <1>4, <2>2, <3>1, <3>2, <3>3 DEF Recorded
  <2>4. IdAtWork'
    BY <1>1, <2>3, WriteOutcome, IdIdle DEF IdAtWork
  <2> QED
    BY <1>4, <2>1, <2>4, IdAfterPut DEF CoreInv, TypeInv, TypeOK, IdInv, Recorded
<1> QED
  BY <1>1, <1>2, <1>3, <1>4, WriteOutcome DEF IdInv

\* Writes of users.
LEMMA IdUser ==
    ASSUME CoreInv, IdInv, NEW s \in SPs,
           CreateSP(s) \/ EditSpec(s) \/ Annotate(s) \/ DeleteSP(s)
    PROVE  IdInv'
<1>1. PICK o \in SPObject :
         /\ UserWrite(s, o)
         /\ o.st \in {sps[s].st, NoStatus}
         /\ sps[s].live /\ sps[s].fin => o.live /\ o.fin /\ o.st = sps[s].st
  BY UserOutcome DEF CoreInv
<1>2. Put(s, o)
  BY <1>1 DEF UserWrite
<1>3. /\ job'.pc = job.pc /\ job'.sp = job.sp /\ job'.copy = job.copy
      /\ job'.mem = job.mem /\ job'.base = job.base
  BY <1>1 DEF UserWrite, CoreInv, TypeInv, TypeOK, ControlOK, Job
<1>4. IdIfReady(o.st)
  BY <1>1, GoneFields DEF IdInv, IdKept, IdIfReady
<1>5. \/ sps[s].st.id # 0 => o.st.id # 0
      \/ \A v \in Readable(s) : ~Workable(v)
  BY <1>1 DEF CoreInv, FinalizerStays
<1>6. IdKept'
  BY <1>2, <1>4, <1>5, IdAfterPut DEF CoreInv, TypeInv, TypeOK, IdInv
<1>7. IdInJob'
  BY <1>3 DEF IdInv, IdInJob, At
<1>8. ASSUME AtWork PROVE sps'[job.sp].st = sps[job.sp].st
  <2>1. job.sp \in SPs /\ sps[job.sp].live /\ sps[job.sp].fin
    BY <1>8
       DEF CoreInv, TypeInv, JobShape, FinalizerAtWork, AtWork, AppSteps, Parts,
           AdminSteps, OAuthSteps, SamlSteps
  <2> QED
    BY <1>1, <1>2, <2>1, ReadableAfterPut DEF CoreInv, TypeInv, TypeOK
<1>9. IdAtWork'
  BY <1>3, <1>8 DEF IdInv, IdAtWork, AtWork
<1> QED
  BY <1>6, <1>7, <1>9 DEF IdInv

\* Deliveries and restarts.
LEMMA IdDelivery ==
    ASSUME CoreInv, IdInv, (\E s \in SPs : Deliver(s)) \/ Restart PROVE IdInv'
<1>1. sps' = sps /\ (job' = job \/ job' = Idle)
  BY DEF Deliver, Restart
<1>2. IdInJob' /\ IdAtWork'
  <2>1. CASE job' = job
    BY <1>1, <2>1 DEF IdInv, IdInJob, IdAtWork, At, AtWork
  <2> QED
    BY <1>1, <2>1, IdIdle
<1>3. ASSUME NEW s \in SPs, Deliver(s), NEW t \in SPs
      PROVE  Readable(t)' \subseteq Readable(t)
  BY <1>3, ReadableAfterDeliver DEF CoreInv, TypeInv, TypeOK
<1>4. ASSUME Restart, NEW t \in SPs PROVE Readable(t)' = {sps[t]}
  <2>1. cache'[t] = sps[t] /\ pending'[t] = <<>>
    BY <1>4 DEF Restart
  <2>2. Len(<<>>) = 0
    BY EmptySeq, Zenon
  <2> QED
    BY <2>1, <2>2 DEF Readable
<1>5. IdKept'
  BY <1>1, <1>3, <1>4 DEF IdInv, IdKept
<1> QED
  BY <1>2, <1>5 DEF IdInv

\* The initial states.
LEMMA IdInit == Init => IdInv
<1> SUFFICES ASSUME Init PROVE IdInv
  OBVIOUS
<1>1. Len(<<>>) = 0
  BY EmptySeq, Zenon
<1>2. ASSUME NEW s \in SPs PROVE Readable(s) = {Gone} /\ sps[s] = Gone
  <2>1. cache[s] = Gone /\ pending[s] = <<>> /\ sps[s] = Gone
    BY DEF Init
  <2> QED
    BY <1>1, <2>1 DEF Readable
<1> QED
  BY <1>2, GoneFields
     DEF Init, IdInv, IdKept, IdInJob, IdAtWork, IdIfReady, Idle, At, AtWork,
         AppSteps, Parts, AdminSteps, OAuthSteps, SamlSteps

\* Every step, kind by kind.
LEMMA IdNext == CoreInv /\ IdInv /\ [Next]_vars => IdInv'
<1> SUFFICES ASSUME CoreInv, IdInv, [Next]_vars PROVE IdInv'
  OBVIOUS
<1>1. CASE (\E s \in SPs : Wake(s)) \/ Elsewhere
  <2>1. UNCHANGED <<kube, job>>
    BY <1>1 DEF Wake, Elsewhere
  <2> QED
    BY <2>1 DEF kube, IdInv, IdKept, IdInJob, IdAtWork, At, AtWork, Readable
<1> QED
  BY <1>1, StepKinds, IdBegin, IdQuiet, IdWrite, IdUser, IdDelivery
     DEF CoreInv, Crash

\* IDs stay and Ready comes with one, in every behaviour.
LEMMA IdInvariant == Spec => []IdInv
<1>1. Init => IdInv
  BY IdInit
<1>2. CoreInv /\ IdInv /\ [Next]_vars => IdInv'
  BY IdNext
<1> QED
  BY <1>1, <1>2, CoreInvariant, PTL DEF Spec

\* Ready is never recorded without the ID that handleDelete depends on, though
\* the merge patch of reconcileApplication sends only the fields that differ
\* from a base that may be older than what the server has.
THEOREM ReadyComesWithId == Spec => []ReadyHasId
<1>1. IdInv => ReadyHasId
  BY DEF IdInv, IdKept, IdIfReady, ReadyHasId
<1> QED
  BY <1>1, IdInvariant, PTL

------------------------------------------------------------------------------
(* What users wrote stays *)

\* A step that no user takes.
LEMMA IntentNext ==
    ASSUME CoreInv, [Next]_vars, left'["edit"] = left["edit"],
           NEW s \in SPs, sps[s].live
    PROVE  Preserved(s)
<1>1. CASE sps' = sps
  BY <1>1 DEF Preserved
<1>2. CASE Writes
  <2>1. job.sp \in SPs
    BY <1>2
       DEF CoreInv, TypeInv, JobShape, Writes, SetPhaseWrite, PauseWrite,
           AddFinalizer, RemoveFinalizer, PatchPending, PatchReady
  <2>2. ASSUME NEW o \in SPObject, Put(job.sp, o), Intended(job.sp, o)
        PROVE  Preserved(s)
    <3>1. sps'[s] = IF s = job.sp THEN o ELSE sps[s]
      BY <2>1, <2>2, ReadableAfterPut DEF CoreInv, TypeInv, TypeOK
    <3> QED
      BY <2>2, <3>1 DEF Preserved, Intended
  <2> QED
    BY <1>1, <1>2, <2>1, <2>2, WriteOutcome DEF kube
<1>3. ASSUME NEW t \in SPs,
             CreateSP(t) \/ EditSpec(t) \/ Annotate(t) \/ DeleteSP(t)
      PROVE  FALSE
  <2>1. Spend("edit")
    BY <1>3 DEF CreateSP, EditSpec, Annotate, DeleteSP, UserWrite
  <2> QED
    BY <2>1 DEF Spend, Kinds, CoreInv, TypeInv, TypeOK
<1>4. ASSUME NEW t \in SPs, Begin(t) PROVE sps' = sps
  BY <1>4, BeginOutcome DEF CoreInv, kube
<1> QED
  BY <1>1, <1>2, <1>3, <1>4, StepKinds
     DEF CoreInv, QuietJob, Deliver, Wake, Crash, Restart, Elsewhere, kube

\* No step but the users' own undoes what they wrote: the annotations and the
\* deletion mark stay, only an object that users deleted goes away, and the spec
\* stays but for the step that puts the finalizer on, which turns pkcePlain on;
\* although the controller writes whole objects that it read from the cache.
THEOREM IntentPreserved == Spec => ControllerPreservesIntent
<1>1. ASSUME CoreInv, [Next]_vars
      PROVE  [left'["edit"] = left["edit"] =>
                \A s \in SPs : sps[s].live => Preserved(s)]_vars
  BY <1>1, IntentNext
<1> QED
  BY <1>1, CoreInvariant, PTL DEF Spec, ControllerPreservesIntent

------------------------------------------------------------------------------
(* Nothing is forgotten *)

\* A step spends at most one disturbance.
LEMMA StepSpends ==
    ASSUME [Next]_vars PROVE UNCHANGED left \/ \E k \in Kinds : Spend(k)
<1> USE DEF Kinds
<1>1. CASE SetPhaseWrite \/ PauseWrite \/ AddFinalizer \/ RemoveFinalizer
           \/ PatchPending \/ PatchReady
  BY <1>1
     DEF SetPhaseWrite, PauseWrite, AddFinalizer, RemoveFinalizer, PatchPending,
         PatchReady, PatchCall, Update
<1>2. CASE OAuthSecret \/ SamlSecret
  BY <1>2 DEF OAuthSecret, SamlSecret, UpsertSecret
<1>3. CASE OAuthGet \/ OAuthCreate \/ OAuthUpdate
  BY <1>3 DEF OAuthGet, OAuthCreate, OAuthUpdate, Call, Refused
<1>4. CASE SamlGet \/ SamlCreate \/ SamlDelete \/ SamlReadd
  BY <1>4 DEF SamlGet, SamlCreate, SamlDelete, SamlReadd, AddSaml, Call, Refused
<1>5. CASE AppGet \/ AppCreate \/ AppUpdate
  BY <1>5 DEF AppGet, AppCreate, AppUpdate, Call, Refused
<1>6. CASE AdminGet \/ AdminJoin \/ DelApp
  BY <1>6 DEF AdminGet, AdminJoin, DelApp, Call, Refused
<1>7. CASE Environment
  BY <1>7
     DEF Environment, Users, CreateSP, EditSpec, Annotate, DeleteSP, UserWrite, MetadataChange,
         SecretRemoved, AppDrift, AppRemoval, InstanceChange, Crash, Restart
<1>8. ASSUME NEW s \in SPs, Begin(s) PROVE UNCHANGED left
  BY <1>8
     DEF Begin, ReconcileGone, ReconcilePaused, ReconcileNotReady, ReconcileDelete,
         ReconcileFinalize, ReconcileApply, Take
<1>9. ASSUME NEW s \in SPs, Deliver(s) \/ SecretDeliver(s) \/ Wake(s)
      PROVE  UNCHANGED left
  BY <1>9 DEF Deliver, SecretDeliver, Wake
<1> QED
  BY <1>1, <1>2, <1>3, <1>4, <1>5, <1>6, <1>7, <1>8, <1>9 DEF Next, JobStep, vars

\* What was spent is not given back.
LEMMA StepBudget ==
    ASSUME TypeInv, BudgetKept, [Next]_vars
    PROVE  /\ BudgetKept'
           /\ \A k \in Kinds : left'[k] = Budget[k] => left[k] = Budget[k] /\ ~Spend(k)
<1>1. left \in [Kinds -> Nat] /\ Budget \in [Kinds -> Nat]
  BY BudgetAssumption DEF TypeInv, TypeOK
<1>2. ASSUME NEW k \in Kinds
      PROVE  left'[k] = left[k] \/ (Spend(k) /\ left'[k] = left[k] - 1)
  BY <1>1, StepSpends DEF Spend
<1>3. ASSUME NEW k \in Kinds, Spend(k) PROVE left'[k] = left[k] - 1
  BY <1>1, <1>3 DEF Spend
<1>4. ASSUME NEW k \in Kinds
      PROVE  /\ left'[k] <= Budget[k]
             /\ left'[k] = Budget[k] => left[k] = Budget[k] /\ ~Spend(k)
  <2>1. left[k] \in Nat /\ Budget[k] \in Nat /\ left[k] <= Budget[k]
    BY <1>1 DEF BudgetKept
  <2> QED
    BY <1>2, <1>3, <2>1
<1> QED
  BY <1>4 DEF BudgetKept

AwakeInv == BudgetKept /\ NoLostWakeup

Awake(s) == s \in queue \cup delayed \/ job.sp = s \/ pending[s] # <<>>
Wanting(s) == sps[s].live /\ ~SkipReconcile("app", sps[s])

\* A key that is taken is in work, or its object needs no more.
LEMMA AwakeBegin ==
    ASSUME CoreInv, StaysAwake, NEW s \in SPs, Begin(s) PROVE StaysAwake'
<1>1. UNCHANGED kube /\ job = Idle /\ queue' = queue \ {s} /\ delayed \subseteq delayed'
  BY BeginOutcome DEF CoreInv
<1>2. job.sp \notin SPs
  BY <1>1, TypesAssumption DEF Idle
<1>3. ASSUME NEW t \in SPs, Wanting(t)' PROVE Awake(t)'
  <2>1. Wanting(t)
    BY <1>1, <1>3 DEF kube, Wanting
  <2>2. CASE t # s
    BY <1>1, <1>2, <2>1, <2>2 DEF kube, StaysAwake, Wanting, Awake
  <2>3. CASE t = s
    <3>1. pending[s] = <<>> => cache[s].live /\ ~SkipReconcile("app", cache[s])
      BY <2>1, <2>3 DEF CoreInv, InformerChain, Wanting
    <3>2. s \in delayed' \/ job'.sp = s \/ pending[s] # <<>>
      BY <3>1, BeginOutcome DEF CoreInv
    <3> QED
      BY <1>1, <2>3, <3>2 DEF kube, Awake
  <2> QED
    BY <2>2, <2>3
<1> QED
  BY <1>3 DEF StaysAwake, Wanting, Awake

\* Writes that do not fail leave a version on its way.
LEMMA AwakeWrite ==
    ASSUME CoreInv, StaysAwake, Writes, ~Spend("api") PROVE StaysAwake'
<1>1. PICK s \in SPs : s = job.sp
  BY DEF CoreInv, TypeInv, JobShape, Writes, SetPhaseWrite, PauseWrite, AddFinalizer,
         RemoveFinalizer, PatchPending, PatchReady
<1>2. queue' = queue /\ delayed \subseteq delayed' /\ job.pc # "idle"
  BY <1>1, WriteOutcome
<1>3. Awake(s)'
  <2>1. CASE UNCHANGED kube /\ (s \in delayed' \/ ~job.current)
    BY <1>1, <1>2, <2>1 DEF Awake, CoreInv, OldCopyFollowed, kube
  <2>2. CASE \E o \in SPObject : Put(s, o)
    BY <2>2, ReadableAfterPut DEF Awake, CoreInv, TypeInv, TypeOK
  <2> QED
    BY <1>1, <2>1, <2>2, WriteOutcome
<1>4. ASSUME NEW t \in SPs, t # s PROVE sps'[t] = sps[t] /\ pending'[t] = pending[t]
  <2>1. UNCHANGED kube \/ \E o \in SPObject : Put(s, o)
    BY <1>1, WriteOutcome
  <2> QED
    BY <1>4, <2>1, ReadableAfterPut DEF kube, CoreInv, TypeInv, TypeOK
<1>5. ASSUME NEW t \in SPs, Wanting(t)' PROVE Awake(t)'
  <2>1. CASE t = s
    BY <1>3, <2>1
  <2>2. CASE t # s
    BY <1>1, <1>2, <1>4, <1>5, <2>2 DEF StaysAwake, Wanting, Awake
  <2> QED
    BY <2>1, <2>2
<1> QED
  BY <1>5 DEF StaysAwake, Wanting, Awake

\* So do the writes of users.
LEMMA AwakeUser ==
    ASSUME CoreInv, StaysAwake, NEW s \in SPs,
           CreateSP(s) \/ EditSpec(s) \/ Annotate(s) \/ DeleteSP(s)
    PROVE  StaysAwake'
<1>1. PICK o \in SPObject : UserWrite(s, o)
  BY UserOutcome DEF CoreInv
<1>2. queue' = queue /\ delayed' = delayed /\ Put(s, o) /\ job'.sp = job.sp
  BY <1>1 DEF UserWrite, CoreInv, TypeInv, TypeOK, ControlOK, Job
<1>3. \A t \in SPs : /\ t = s => pending'[t] # <<>>
                     /\ t # s => pending'[t] = pending[t] /\ sps'[t] = sps[t]
  BY <1>2, ReadableAfterPut DEF CoreInv, TypeInv, TypeOK
<1> QED
  BY <1>2, <1>3 DEF StaysAwake

\* Other steps take no key away.
LEMMA AwakeElsewhere ==
    ASSUME CoreInv, StaysAwake,
           \/ QuietJob \/ Elsewhere \/ Restart
           \/ \E s \in SPs : Deliver(s) \/ Wake(s)
    PROVE  StaysAwake'
<1>1. CASE QuietJob
  BY <1>1 DEF QuietJob, StaysAwake, kube
<1>2. CASE Elsewhere
  BY <1>2 DEF Elsewhere, StaysAwake, kube
<1>3. CASE Restart
  BY <1>3 DEF Restart, StaysAwake
<1>4. ASSUME NEW s \in SPs, Deliver(s) PROVE StaysAwake'
  BY <1>4, ReadableAfterDeliver DEF Deliver, StaysAwake, CoreInv, TypeInv, TypeOK
<1>5. ASSUME NEW s \in SPs, Wake(s) PROVE StaysAwake'
  BY <1>5 DEF Wake, StaysAwake, kube
<1> QED
  BY <1>1, <1>2, <1>3, <1>4, <1>5

\* The initial states.
LEMMA AwakeInit == Init => AwakeInv
<1> SUFFICES ASSUME Init PROVE AwakeInv
  OBVIOUS
<1>1. BudgetKept
  BY BudgetAssumption DEF Init, BudgetKept
<1>2. StaysAwake
  BY GoneFields DEF Init, StaysAwake
<1> QED
  BY <1>1, <1>2 DEF AwakeInv, NoLostWakeup

\* Every step: the wakeups are lost with a request to the API only.
LEMMA AwakeNext == CoreInv /\ AwakeInv /\ [Next]_vars => AwakeInv'
<1> SUFFICES ASSUME CoreInv, AwakeInv, [Next]_vars PROVE AwakeInv'
  OBVIOUS
<1>1. /\ BudgetKept'
      /\ left'["api"] = Budget["api"] => left["api"] = Budget["api"] /\ ~Spend("api")
  BY StepBudget DEF AwakeInv, CoreInv, Kinds
<1>2. ASSUME StaysAwake, ~Spend("api") PROVE StaysAwake'
  BY <1>2, StepKinds, AwakeBegin, AwakeWrite, AwakeUser, AwakeElsewhere
     DEF CoreInv, Crash
<1> QED
  BY <1>1, <1>2 DEF AwakeInv, NoLostWakeup

\* As long as no request to the API server fails, no object that is not paused
\* is ever without a key in the queue, a reconciliation, a timer or a version
\* on its way, although setPhase swallows the conflicts of its Status().Update.
THEOREM NothingForgotten == Spec => []NoLostWakeup
<1>1. Init => AwakeInv
  BY AwakeInit
<1>2. CoreInv /\ AwakeInv /\ [Next]_vars => AwakeInv'
  BY AwakeNext
<1>3. AwakeInv => NoLostWakeup
  BY DEF AwakeInv
<1> QED
  BY <1>1, <1>2, <1>3, CoreInvariant, PTL DEF Spec

------------------------------------------------------------------------------
(* The application goes first *)

\* The finalizer is removed in two cases: the status knows no application, or
\* the server was asked to delete it.
LEMMA JobStepEnds ==
    ASSUME TypeInv, JobStep, ~DelApp PROVE job'.pc # "rmFin"
<1>1. job \in Job /\ job.mem \in Status /\ Idle.pc = "idle"
  BY DEF TypeInv, TypeOK, ControlOK, Job, Idle
<1>2. Done \/ Requeue => job'.pc # "rmFin"
  BY <1>1 DEF Done, Requeue
<1>3. ASSUME NEW j \in Job, NEW phase, NEW why, SetPhase(j, phase, why)
      PROVE  job'.pc # "rmFin"
  BY <1>1, <1>3 DEF SetPhase, Job
<1>4. Fail => job'.pc # "rmFin"
  BY <1>1, <1>3 DEF Fail
<1>5. ASSUME NEW pc \in Steps \ {"rmFin"}, Goto(pc) PROVE job'.pc # "rmFin"
  BY <1>1, <1>5 DEF Goto, Job
<1>6. ASSUME NEW j \in Job, job' = InSync(j) PROVE job'.pc # "rmFin"
  BY <1>6 DEF InSync, Job
<1>7. CASE Writes
  <2>1. ASSUME Swallowed PROVE job'.pc # "rmFin"
    <3>1. {"samlGet", "appGet", "patchReady"} \subseteq Steps \ {"rmFin"}
      BY DEF Steps, AppSteps, Parts, SamlSteps
    <3> QED
      BY <1>2, <2>1, <3>1, SwallowedSteps, GoOnFields
  <2> QED
    BY <1>2, <1>7, <2>1
       DEF Writes, SetPhaseWrite, PauseWrite, AddFinalizer, RemoveFinalizer,
           PatchPending, PatchReady, PatchCall, Update
<1>8. CASE OAuthSecret \/ SamlSecret
  <2>1. ASSUME NEW new, NEW pc \in Steps \ {"rmFin"}, UpsertSecret(new, pc)
        PROVE  job'.pc # "rmFin"
    BY <1>2, <1>5, <2>1 DEF UpsertSecret
  <2>2. job.copy \in SPObject
    BY <1>1 DEF Job
  <2>3. /\ (IF job.dirty THEN "oauthUpdate" ELSE AfterOAuth(job.copy)) \in Steps \ {"rmFin"}
        /\ (IF job.dirty THEN "samlDelete" ELSE "appGet") \in Steps \ {"rmFin"}
    BY <2>2, NextStepType DEF Steps, AppSteps, Parts, AdminSteps, OAuthSteps, SamlSteps
  <2> QED
    BY <1>8, <2>1, <2>3 DEF OAuthSecret, SamlSecret
<1>9. CASE OAuthGet \/ OAuthCreate \/ OAuthUpdate
  <2>1. "oauthCreate" \in Steps \ {"rmFin"}
    BY DEF Steps, AppSteps, Parts, AdminSteps, OAuthSteps
  <2>2. ASSUME NEW ref, NEW dirty,
               job' = [job EXCEPT !.pc = "oauthSecret", !.ref = ref, !.dirty = dirty]
        PROVE  job'.pc # "rmFin"
    BY <1>1, <2>2 DEF Job
  <2> QED
    BY <1>2, <1>4, <1>5, <1>9, <2>1, <2>2
       DEF OAuthGet, OAuthCreate, OAuthUpdate, Call, Refused
<1>10. CASE SamlGet \/ SamlCreate \/ SamlDelete \/ SamlReadd
  <2>1. {"appGet", "samlReadd"} \subseteq Steps \ {"rmFin"}
    BY DEF Steps, AppSteps, Parts, AdminSteps, SamlSteps
  <2>2. ASSUME NEW pc \in {"samlCreate", "samlSecret"}, NEW meta, NEW dirty,
               job' = [job EXCEPT !.pc = pc, !.meta = meta, !.dirty = dirty]
        PROVE  job'.pc # "rmFin"
    BY <1>1, <2>2 DEF Job
  <2> QED
    BY <1>2, <1>4, <1>5, <1>10, <2>1, <2>2
       DEF SamlGet, SamlCreate, SamlDelete, SamlReadd, AddSaml, Call, Refused
<1>11. CASE AppGet
  <2> DEFINE have  == apps[Wanted.name]
             found == [job EXCEPT !.mem.id = have.id]
  <2>1. "appCreate" \in Steps \ {"rmFin"}
    BY DEF Steps, AppSteps, Parts, AdminSteps
  <2>2. have.id \in Nat
    BY <1>1 DEF TypeInv, TypeOK, RemoteOK, Job, SPObject, SPSpec, App, Wanted
  <2> HIDE DEF have
  <2>3. found \in Job
    BY <1>1, <2>2 DEF Job, Status
  <2>4. [found EXCEPT !.pc = "appUpdate"].pc # "rmFin"
    BY <2>3 DEF Job
  <2> HIDE DEF found
  <2> QED
    BY <1>3, <1>4, <1>5, <1>6, <1>11, <2>1, <2>3, <2>4 DEF AppGet, found, have
<1>12. CASE AppCreate
  <2>1. ASSUME job' = [job EXCEPT !.pc = "patchPending",
                           !.mem.phase = "Pending", !.mem.why = "created"]
        PROVE  job'.pc # "rmFin"
    BY <1>1, <2>1 DEF Job
  <2> QED
    BY <1>4, <1>12, <2>1 DEF AppCreate, Call, Refused
<1>13. CASE AppUpdate
  BY <1>1, <1>4, <1>6, <1>13 DEF AppUpdate, Call, Refused
<1>14. CASE AdminGet \/ AdminJoin
  <2>1. ASSUME job' = [job EXCEPT !.pc = "patchReady", !.mem.admin = TRUE]
        PROVE  job'.pc # "rmFin"
    BY <1>1, <2>1 DEF Job
  <2>2. ASSUME NEW ref, job' = [job EXCEPT !.pc = "adminJoin", !.ref = ref]
        PROVE  job'.pc # "rmFin"
    BY <1>1, <2>2 DEF Job
  <2> QED
    BY <1>2, <1>4, <1>14, <2>1, <2>2 DEF AdminGet, AdminJoin, Call, Refused
<1> QED
  BY <1>7, <1>8, <1>9, <1>10, <1>11, <1>12, <1>13, <1>14 DEF JobStep, Writes

\* Only the job makes applications.
LEMMA AppsElsewhere ==
    ASSUME TypeInv, [Next]_vars, ~JobStep, NEW n \in Names, apps[n].id = 0
    PROVE  apps'[n].id = 0
<1>1. apps \in [Names -> App] /\ NoApp.id = 0
  BY DEF TypeInv, TypeOK, RemoteOK, NoApp
<1>2. ASSUME NEW m \in Names, AppDrift(m) PROVE apps'[n].id = 0
  BY <1>1, <1>2 DEF AppDrift, App
<1>3. ASSUME NEW m \in Names, AppRemoval(m) PROVE apps'[n].id = 0
  BY <1>1, <1>3 DEF AppRemoval, DropApp
<1>4. ASSUME NEW s \in SPs, Begin(s) PROVE apps' = apps
  BY <1>4
     DEF Begin, ReconcileGone, ReconcilePaused, ReconcileNotReady, ReconcileDelete,
         ReconcileFinalize, ReconcileApply, Take, remote
<1>5. ASSUME NEW s \in SPs, Deliver(s) \/ SecretDeliver(s) \/ Wake(s)
      PROVE  apps' = apps
  BY <1>5 DEF Deliver, SecretDeliver, Wake, remote
<1>6. ASSUME NEW s \in SPs,
             \/ CreateSP(s) \/ EditSpec(s) \/ Annotate(s) \/ DeleteSP(s)
             \/ MetadataChange(s) \/ SecretRemoved(s)
      PROVE  apps' = apps
  BY <1>6
     DEF CreateSP, EditSpec, Annotate, DeleteSP, UserWrite, MetadataChange,
         SecretRemoved, remote
<1>7. InstanceChange \/ Crash \/ UNCHANGED vars => apps' = apps
  BY DEF InstanceChange, Crash, Restart, vars, remote
<1> QED
  BY <1>2, <1>3, <1>4, <1>5, <1>6, <1>7 DEF Next, Environment, Users

\* Without a call, the finalizer goes only when the status knows no ID.
LEMMA DroppedBegin ==
    ASSUME CoreInv, NEW s \in SPs, Begin(s), job'.pc = "rmFin"
    PROVE  job'.copy.st.id = 0
<1>1. cache[s] \in SPObject
  BY DEF CoreInv, TypeInv, TypeOK, KubeOK
<1>2. FirstStep(cache[s]) \in {"oauthGet", "samlGet", "appGet"}
  BY <1>1, NextStepType
<1>3. ASSUME NEW pc \in Steps, Start(s, pc) PROVE job'.pc = pc /\ job'.copy = cache[s]
  BY <1>3, SnapshotType DEF Start, CoreInv, TypeInv, TypeOK
<1>4. job.pc # "rmFin"
  BY BeginOutcome DEF CoreInv, Idle
<1>5. CASE ReconcileDelete(s)
  <2>1. \/ Start(s, "delApp")
        \/ Start(s, "rmFin") /\ cache[s].st.id = 0
    BY <1>5 DEF ReconcileDelete
  <2> QED
    BY <1>3, <2>1 DEF Steps
<1>6. CASE ReconcileNotReady(s)
  <2>1. PICK j \in Job : j = Snapshot(s, "idle")
    BY SnapshotType DEF Steps, CoreInv, TypeInv, TypeOK
  <2>2. SetPhase(j, "Pending", "instance")
    BY <1>6, <2>1 DEF ReconcileNotReady
  <2>3. Idle.pc = "idle"
    BY DEF Idle
  <2>4. [j EXCEPT !.pc = "setPhase",
                  !.mem.phase = "Pending", !.mem.why = "instance"].pc = "setPhase"
    BY DEF Job
  <2> QED
    BY <2>2, <2>3, <2>4 DEF SetPhase
<1>7. CASE ReconcileGone(s) \/ ReconcilePaused(s) \/ ReconcileFinalize(s)
           \/ ReconcileApply(s)
  BY <1>2, <1>3, <1>4, <1>7
     DEF ReconcileGone, ReconcilePaused, ReconcileFinalize, ReconcileApply, Steps,
         AppSteps, Parts, AdminSteps, OAuthSteps, SamlSteps
<1> QED
  BY <1>5, <1>6, <1>7 DEF Begin

\* A deletion that does not fail deletes the application.
LEMMA DroppedByDelApp ==
    ASSUME TypeInv, DelApp, ~Spend("remote")
    PROVE  job'.copy = job.copy /\ apps'[Wanted.name].id = 0
<1>1. job \in Job /\ Wanted.name \in Names /\ NoApp.id = 0 /\ apps \in [Names -> App]
  BY DEF TypeInv, TypeOK, ControlOK, RemoteOK, Job, SPObject, SPSpec, Wanted, NoApp
<1> QED
  BY <1>1 DEF DelApp, Goto, DropApp, Job

\* What the job is about, when it does not move by itself.
LEMMA JobElsewhere ==
    ASSUME TypeInv, [Next]_vars, ~JobStep, \A s \in SPs : ~Begin(s),
           job'.pc = "rmFin"
    PROVE  job.pc = "rmFin" /\ job'.copy = job.copy
<1>1. ASSUME NEW s \in SPs, Deliver(s) \/ SecretDeliver(s) \/ Wake(s) PROVE job' = job
  BY <1>1 DEF Deliver, SecretDeliver, Wake, control
<1>2. ASSUME NEW s \in SPs,
             CreateSP(s) \/ EditSpec(s) \/ Annotate(s) \/ DeleteSP(s)
      PROVE  job'.pc = job.pc /\ job'.copy = job.copy
  BY <1>2, UserOutcome, OutdatedJobType DEF UserWrite, TypeInv, TypeOK, ControlOK
<1>3. ASSUME NEW s \in SPs, MetadataChange(s) \/ SecretRemoved(s) PROVE job' = job
  BY <1>3 DEF MetadataChange, SecretRemoved, control
<1>4. ASSUME NEW n \in Names, AppDrift(n) \/ AppRemoval(n) PROVE job' = job
  BY <1>4 DEF AppDrift, AppRemoval, control
<1>5. InstanceChange \/ UNCHANGED vars => job' = job
  BY DEF InstanceChange, vars, control
<1>6. ~Crash
  BY DEF Crash, Restart, Idle
<1> QED
  BY <1>1, <1>2, <1>3, <1>4, <1>5, <1>6 DEF Next, Environment, Users

\* A reconciliation that is about to remove the finalizer has dropped the
\* application its copy knows of.
Dropped == job.pc = "rmFin" /\ job.copy.st.id # 0 => apps[Wanted.name].id = 0

\* Every step that is not a failed call keeps it so.
LEMMA DroppedNext ==
    ASSUME CoreInv, Dropped, [Next]_vars, ~Spend("remote")
    PROVE  Dropped'
<1> SUFFICES ASSUME job'.pc = "rmFin", job'.copy.st.id # 0
             PROVE  apps'[job'.copy.spec.name].id = 0
  BY DEF Dropped, Wanted
<1>1. CASE DelApp
  BY <1>1, DroppedByDelApp DEF CoreInv, Wanted
<1>2. CASE JobStep /\ ~DelApp
  BY <1>2, JobStepEnds DEF CoreInv
<1>3. CASE \E s \in SPs : Begin(s)
  BY <1>3, DroppedBegin
<1>4. CASE ~JobStep /\ \A s \in SPs : ~Begin(s)
  <2>1. job.pc = "rmFin" /\ job'.copy = job.copy
    BY <1>4, JobElsewhere DEF CoreInv
  <2>2. job.copy.spec.name \in Names
    BY DEF CoreInv, TypeInv, TypeOK, ControlOK, Job, SPObject, SPSpec
  <2>3. apps[job.copy.spec.name].id = 0
    BY <2>1 DEF Dropped, Wanted
  <2> QED
    BY <1>4, <2>1, <2>2, <2>3, AppsElsewhere DEF CoreInv
<1> QED
  BY <1>1, <1>2, <1>3, <1>4 DEF JobStep

DropInv == BudgetKept /\ DroppedFirst

\* The application is dropped before the finalizer, in every behaviour.
LEMMA DropInvariant == Spec => []DropInv
<1>1. Init => DropInv
  BY BudgetAssumption DEF Init, DropInv, BudgetKept, DroppedFirst, Idle
<1>2. CoreInv /\ DropInv /\ [Next]_vars => DropInv'
  <2> SUFFICES ASSUME CoreInv, DropInv, [Next]_vars PROVE DropInv'
    OBVIOUS
  <2>1. /\ BudgetKept'
        /\ left'["remote"] = Budget["remote"] =>
              left["remote"] = Budget["remote"] /\ ~Spend("remote")
    BY StepBudget DEF DropInv, CoreInv, Kinds
  <2>2. left'["remote"] = Budget["remote"] => Dropped'
    BY <2>1, DroppedNext DEF DropInv, DroppedFirst, Dropped
  <2> QED
    BY <2>1, <2>2 DEF DropInv, DroppedFirst, Dropped
<1> QED
  BY <1>1, <1>2, CoreInvariant, PTL DEF Spec

\* An object that goes away goes with the removal of its finalizer.
LEMMA DroppedRelease ==
    ASSUME CoreInv, Dropped, [Next]_vars,
           NEW s \in SPs, Released(s), sps[s].st.id # 0
    PROVE  /\ apps'[sps[s].spec.name].id = 0
           /\ KnownByName(s) => \A n \in Names : apps'[n].id # sps[s].st.id
<1>1. ASSUME sps' = sps PROVE FALSE
  BY <1>1 DEF Released
<1>2. CASE Writes
  <2>1. job.sp \in SPs
    BY <1>2
       DEF CoreInv, TypeInv, JobShape, Writes, SetPhaseWrite, PauseWrite,
           AddFinalizer, RemoveFinalizer, PatchPending, PatchReady
  <2>2. PICK o \in SPObject : Put(job.sp, o) /\ Intended(job.sp, o)
    BY <1>1, <1>2, <2>1, WriteOutcome DEF kube
  <2>3. sps'[s] = IF s = job.sp THEN o ELSE sps[s]
    BY <2>1, <2>2, ReadableAfterPut DEF CoreInv, TypeInv, TypeOK
  <2>4. s = job.sp /\ job.current /\ job.pc = "rmFin"
    BY <2>2, <2>3 DEF Released, Intended
  <2>5. job.copy = sps[s]
    BY <2>4, CopyIsCurrent
  <2>6. apps' = apps
    BY <1>2
       DEF Writes, SetPhaseWrite, PauseWrite, AddFinalizer, RemoveFinalizer,
           PatchPending, PatchReady, WriteFrame, remote
  <2>7. apps[sps[s].spec.name].id = 0
    BY <2>4, <2>5 DEF Dropped, Wanted
  <2>8. ASSUME KnownByName(s), NEW n \in Names, apps[n].id = sps[s].st.id PROVE FALSE
    BY <2>7, <2>8 DEF KnownByName
  <2> QED
    BY <2>6, <2>7, <2>8
<1>3. ASSUME NEW t \in SPs,
             CreateSP(t) \/ EditSpec(t) \/ Annotate(t) \/ DeleteSP(t)
      PROVE  FALSE
  <2>1. PICK o \in SPObject :
           UserWrite(t, o) /\ (sps[t].live /\ sps[t].fin => o.live)
    BY <1>3, UserOutcome DEF CoreInv
  <2>2. sps'[s] = IF s = t THEN o ELSE sps[s]
    BY <2>1, ReadableAfterPut DEF UserWrite, CoreInv, TypeInv, TypeOK
  <2> QED
    BY <2>1, <2>2 DEF Released
<1>4. ASSUME NEW t \in SPs, Begin(t) PROVE sps' = sps
  BY <1>4, BeginOutcome DEF CoreInv, kube
<1> QED
  BY <1>1, <1>2, <1>3, <1>4, StepKinds
     DEF CoreInv, QuietJob, Deliver, Wake, Crash, Restart, Elsewhere, kube

\* When no call of the server failed, an object whose status has an ID outlives
\* the application that spec.name names, and the one with that ID as long as
\* that is its name: the finalizer goes after the application, although the
\* deletion works with a cached copy and users edit meanwhile.
THEOREM DeletionIsComplete == Spec => DeleteIsComplete
<1>1. ASSUME CoreInv, DropInv, [Next]_vars
      PROVE  [left["remote"] = Budget["remote"] =>
                \A s \in SPs : Released(s) /\ sps[s].st.id # 0 =>
                    /\ apps'[sps[s].spec.name].id = 0
                    /\ KnownByName(s) =>
                          \A n \in Names : apps'[n].id # sps[s].st.id]_vars
  BY <1>1, DroppedRelease DEF DropInv, DroppedFirst, Dropped
<1> QED
  BY <1>1, CoreInvariant, DropInvariant, PTL DEF Spec, DeleteIsComplete
==============================================================================
