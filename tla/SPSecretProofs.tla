---------------------------- MODULE SPSecretProofs ----------------------------
(***************************************************************************)
(* The Secret that two protocols share keeps the entries of both, and has  *)
(* those that are asked for before the status says Ready, for all values   *)
(* of the constants of SPReconciler.                                       *)
(***************************************************************************)
EXTENDS SPReconcilerProofs

\* What upsertApplicationSecret is given is not blank: a consumer key the
\* server gave out, an issuer (JobShape).
KeyInJob == job.pc = "oauthSecret" => job.ref # 0

SecretInv == TypeInv /\ KeyInJob

\* The step does not lead to the Secret of the OAuth application.
KeyFree == job'.pc # "oauthSecret"

------------------------------------------------------------------------------
(* Only GetApplicationOAuth2Config leads there, with a key *)

LEMMA SetPhaseKeyFree ==
    ASSUME NEW j \in Job, NEW phase, NEW why, SetPhase(j, phase, why)
    PROVE  KeyFree
<1>1. CASE job' = Idle
  BY <1>1 DEF KeyFree, Idle
<1>2. CASE job' = [j EXCEPT !.pc = "setPhase", !.mem.phase = phase, !.mem.why = why]
  BY <1>2 DEF KeyFree, Job
<1> QED
  BY <1>1, <1>2 DEF SetPhase

LEMMA EndKeyFree ==
    ASSUME TypeInv
    PROVE  /\ job \in Job
           /\ job' = Idle \/ Done \/ Requeue \/ Fail => KeyFree
           /\ \A pc \in Steps \ {"oauthSecret"} : Goto(pc) => KeyFree
           /\ \A pc \in Steps \ {"oauthSecret"} : GoOn(pc) => KeyFree
           /\ \A j \in Job : job' = InSync(j) => KeyFree
<1>1. job \in Job
  BY DEF TypeInv, TypeOK, ControlOK
<1>2. job' = Idle \/ Done \/ Requeue => KeyFree
  BY DEF Done, Requeue, Idle, KeyFree
<1>3. Fail => KeyFree
  BY <1>1, SetPhaseKeyFree DEF Fail
<1>4. ASSUME NEW pc \in Steps \ {"oauthSecret"}, Goto(pc) PROVE KeyFree
  BY <1>1, <1>4 DEF Goto, Job, KeyFree
<1>5. ASSUME NEW pc \in Steps \ {"oauthSecret"}, GoOn(pc) PROVE KeyFree
  BY <1>5, GoOnFields DEF KeyFree
<1>6. ASSUME NEW j \in Job, job' = InSync(j) PROVE KeyFree
  BY <1>6 DEF InSync, Job, KeyFree
<1> QED
  BY <1>1, <1>2, <1>3, <1>4, <1>5, <1>6

\* The steps that the others lead to.
LEMMA OtherSteps ==
    /\ {"oauthGet", "oauthCreate", "oauthUpdate", "samlGet", "samlReadd", "appGet",
        "appCreate", "samlDelete", "patchReady", "rmFin", "pause", "delApp",
        "addFin"} \subseteq Steps \ {"oauthSecret"}
    /\ "oauthSecret" \in Steps
BY DEF Steps, AppSteps, Parts, OAuthSteps, SamlSteps, AdminSteps

LEMMA WriteKeyFree ==
    ASSUME TypeInv,
           \/ SetPhaseWrite \/ PauseWrite \/ AddFinalizer \/ RemoveFinalizer
           \/ PatchPending \/ PatchReady
    PROVE  KeyFree
<1>1. job.copy \in SPObject
  BY DEF TypeInv, TypeOK, ControlOK, Job
<1>2. Swallowed => KeyFree
  BY <1>1, NextStepType, EndKeyFree, OtherSteps DEF Swallowed
<1>3. ASSUME NEW o, Update(o, Requeue, Swallowed) \/ Update(o, Done, Requeue)
      PROVE  KeyFree
  BY <1>2, <1>3, EndKeyFree DEF Update
<1> QED
  BY <1>3, EndKeyFree
     DEF SetPhaseWrite, PauseWrite, AddFinalizer, RemoveFinalizer, PatchPending,
         PatchReady, PatchCall

LEMMA InboundKeyFree ==
    ASSUME TypeInv,
           \/ OAuthSecret \/ SamlSecret \/ OAuthCreate \/ OAuthUpdate
           \/ SamlGet \/ SamlCreate \/ SamlDelete \/ SamlReadd
    PROVE  KeyFree
<1>1. job \in Job /\ job.copy \in SPObject
  BY DEF TypeInv, TypeOK, ControlOK, Job
<1>2. CASE OAuthSecret \/ SamlSecret
  <2>1. ASSUME NEW new, NEW pc \in Steps \ {"oauthSecret"}, UpsertSecret(new, pc)
        PROVE  KeyFree
    BY <2>1, EndKeyFree DEF UpsertSecret
  <2>2. /\ (IF job.dirty THEN "oauthUpdate" ELSE AfterOAuth(job.copy))
              \in Steps \ {"oauthSecret"}
        /\ (IF job.dirty THEN "samlDelete" ELSE "appGet") \in Steps \ {"oauthSecret"}
    BY <1>1, NextStepType, OtherSteps
  <2> QED
    BY <1>2, <2>1, <2>2 DEF OAuthSecret, SamlSecret
<1>3. CASE SamlGet
  <2>1. ASSUME NEW pc \in {"samlCreate", "samlSecret"}, NEW meta, NEW dirty,
               job' = [job EXCEPT !.pc = pc, !.meta = meta, !.dirty = dirty]
        PROVE  KeyFree
    BY <1>1, <2>1 DEF Job, KeyFree
  <2> QED
    BY <1>3, <2>1, EndKeyFree DEF SamlGet
<1>4. CASE OAuthCreate \/ OAuthUpdate \/ SamlCreate \/ SamlDelete \/ SamlReadd
  BY <1>4, EndKeyFree, OtherSteps
     DEF OAuthCreate, OAuthUpdate, SamlCreate, SamlDelete, SamlReadd, AddSaml, Call,
         Refused
<1> QED
  BY <1>2, <1>3, <1>4

LEMMA ApplicationKeyFree ==
    ASSUME TypeInv, AppGet \/ AppCreate \/ AppUpdate \/ AdminGet \/ AdminJoin \/ DelApp
    PROVE  KeyFree
<1>1. job \in Job /\ job.mem \in Status
  BY DEF TypeInv, TypeOK, ControlOK, Job
<1>2. CASE AppGet
  <2> DEFINE have  == apps[Wanted.name]
             found == [job EXCEPT !.mem.id = have.id]
  <2>1. have.id \in Nat
    BY <1>1 DEF TypeInv, TypeOK, RemoteOK, Job, SPObject, SPSpec, App, Wanted
  <2> HIDE DEF have
  <2>2. found \in Job
    BY <1>1, <2>1 DEF Job, Status
  <2>3. ASSUME job' = [found EXCEPT !.pc = "appUpdate"] PROVE KeyFree
    BY <2>2, <2>3 DEF Job, KeyFree
  <2> HIDE DEF found
  <2>4. SetPhase(found, "Failed", "script") => KeyFree
    BY <2>2, SetPhaseKeyFree
  <2> QED
    BY <1>2, <2>2, <2>3, <2>4, EndKeyFree, OtherSteps DEF AppGet, found, have
<1>3. CASE AppCreate
  <2>1. ASSUME job' = [job EXCEPT !.pc = "patchPending",
                           !.mem.phase = "Pending", !.mem.why = "created"]
        PROVE  KeyFree
    BY <1>1, <2>1 DEF Job, KeyFree
  <2> QED
    BY <1>3, <2>1, EndKeyFree DEF AppCreate, Call, Refused
<1>4. CASE AppUpdate
  BY <1>4, EndKeyFree DEF AppUpdate, Call, Refused
<1>5. CASE AdminGet
  <2>1. ASSUME job' = [job EXCEPT !.pc = "patchReady", !.mem.admin = TRUE]
        PROVE  KeyFree
    BY <1>1, <2>1 DEF Job, KeyFree
  <2>2. ASSUME NEW ref, job' = [job EXCEPT !.pc = "adminJoin", !.ref = ref]
        PROVE  KeyFree
    BY <1>1, <2>2 DEF Job, KeyFree
  <2> QED
    BY <1>5, <2>1, <2>2, EndKeyFree DEF AdminGet
<1>6. CASE AdminJoin \/ DelApp
  BY <1>6, EndKeyFree, OtherSteps DEF AdminJoin, DelApp, Call, Refused
<1> QED
  BY <1>2, <1>3, <1>4, <1>5, <1>6

LEMMA BeginKeyFree ==
    ASSUME TypeInv, NEW s \in SPs, Begin(s)
    PROVE  KeyFree
<1>1. KubeOK /\ cache[s] \in SPObject
  BY DEF TypeInv, TypeOK, KubeOK
<1>2. ASSUME NEW pc \in Steps \ {"oauthSecret"}, Start(s, pc) PROVE KeyFree
  BY <1>1, <1>2, SnapshotType DEF Start, KeyFree
<1>3. CASE ReconcileGone(s) \/ ReconcilePaused(s)
  <2>1. job = Idle
    BY <1>3 DEF ReconcileGone, ReconcilePaused, Take
  <2> QED
    BY <1>2, <1>3, <2>1, EndKeyFree, OtherSteps DEF ReconcileGone, ReconcilePaused
<1>4. CASE ReconcileNotReady(s)
  <2>1. "idle" \in Steps
    BY DEF Steps
  <2> QED
    BY <1>1, <1>4, <2>1, SnapshotType, SetPhaseKeyFree DEF ReconcileNotReady
<1>5. CASE ReconcileDelete(s) \/ ReconcileFinalize(s) \/ ReconcileApply(s)
  BY <1>1, <1>2, <1>5, NextStepType, OtherSteps
     DEF ReconcileDelete, ReconcileFinalize, ReconcileApply
<1> QED
  BY <1>3, <1>4, <1>5 DEF Begin

\* The consumer key that GetApplicationOAuth2Config returned.
LEMMA KeyFound == ASSUME TypeInv, OAuthGet PROVE KeyInJob'
<1>1. job \in Job
  BY EndKeyFree
<1>2. ASSUME NEW ref, NEW dirty, ref # 0,
             job' = [job EXCEPT !.pc = "oauthSecret", !.ref = ref, !.dirty = dirty]
      PROVE  KeyInJob'
  BY <1>1, <1>2 DEF Job, KeyInJob
<1>3. KeyFree => KeyInJob'
  BY DEF KeyFree, KeyInJob
<1> QED
  BY <1>2, <1>3, EndKeyFree, OtherSteps DEF OAuthGet

\* What is not a step of a reconciliation leaves the key alone.
LEMMA KeyKept ==
    ASSUME TypeInv, Environment \/ UNCHANGED vars
                    \/ \E s \in SPs : Deliver(s) \/ SecretDeliver(s) \/ Wake(s)
    PROVE  job' = Idle \/ (job'.pc = job.pc /\ job'.ref = job.ref)
<1>1. ASSUME NEW s \in SPs,
             CreateSP(s) \/ EditSpec(s) \/ Annotate(s) \/ DeleteSP(s)
      PROVE  job'.pc = job.pc /\ job'.ref = job.ref
  <2>1. PICK o \in SPObject : UserWrite(s, o)
    BY <1>1, UserOutcome
  <2> QED
    BY <2>1, EndKeyFree DEF UserWrite, Job
<1>2. ASSUME NEW s \in SPs, \/ MetadataChange(s) \/ SecretRemoved(s)
                            \/ Deliver(s) \/ SecretDeliver(s) \/ Wake(s)
      PROVE  UNCHANGED job
  BY <1>2 DEF MetadataChange, SecretRemoved, Deliver, SecretDeliver, Wake, control
<1>3. ASSUME NEW n \in Names, AppDrift(n) \/ AppRemoval(n) PROVE UNCHANGED job
  BY <1>3 DEF AppDrift, AppRemoval, control
<1>4. InstanceChange \/ UNCHANGED vars => UNCHANGED job
  BY DEF InstanceChange, vars, control
<1>5. Crash => job' = Idle
  BY DEF Crash, Restart
<1> QED
  BY <1>1, <1>2, <1>3, <1>4, <1>5 DEF Environment, Users

LEMMA KeyNext == ASSUME SecretInv, [Next]_vars PROVE KeyInJob'
<1>1. TypeInv /\ KeyInJob
  BY DEF SecretInv
<1>2. KeyFree => KeyInJob'
  BY DEF KeyFree, KeyInJob
<1>3. CASE JobStep
  BY <1>1, <1>2, <1>3, WriteKeyFree, InboundKeyFree, ApplicationKeyFree,
     KeyFound DEF JobStep
<1>4. ASSUME NEW s \in SPs, Begin(s) PROVE KeyInJob'
  BY <1>1, <1>2, <1>4, BeginKeyFree
<1>5. CASE Environment \/ UNCHANGED vars
           \/ \E s \in SPs : Deliver(s) \/ SecretDeliver(s) \/ Wake(s)
  BY <1>1, <1>2, <1>5, KeyKept, EndKeyFree DEF KeyInJob
<1> QED
  BY <1>3, <1>4, <1>5 DEF Next

LEMMA SecretInvariant == Spec => []SecretInv
<1>1. Init => KeyInJob
  BY DEF Init, Idle, KeyInJob
<1> QED
  BY <1>1, KeyNext, TypeInvariant, PTL DEF Spec, SecretInv

------------------------------------------------------------------------------
(* The entries of the Secret *)

EntriesKept ==
    \A s \in SPs : secret[s].live /\ secret'[s].live =>
        /\ secret[s].okey # 0 => secret'[s].okey # 0
        /\ secret[s].issuer # None => secret'[s].issuer # None

\* An Update of the Secret that is not refused meets the version that was read,
\* and puts a key, or an issuer, in.
LEMMA UpsertKeeps == ASSUME SecretInv, OAuthSecret \/ SamlSecret PROVE EntriesKept
<1>1. /\ secret \in [SPs -> Secret] /\ seen \in [SPs -> Secret] /\ job \in Job
      /\ JobShape
  BY DEF SecretInv, TypeInv, TypeOK, SecretsOK, ControlOK
<1>2. job.pc \in {"oauthSecret", "samlSecret"} /\ job.sp \in SPs
  BY <1>1 DEF OAuthSecret, SamlSecret, JobShape
<1>3. ASSUME NEW new \in Secret, NEW pc, UpsertSecret(new, pc),
             seen[job.sp].okey # 0 => new.okey # 0,
             seen[job.sp].issuer # None => new.issuer # None
      PROVE  EntriesKept
  <2>1. UNCHANGED secret \/ (seen[job.sp] = secret[job.sp]
                             /\ secret' = [secret EXCEPT ![job.sp] = new])
    BY <1>3 DEF UpsertSecret
  <2> QED
    BY <1>1, <1>2, <1>3, <2>1 DEF EntriesKept
<1>4. CASE OAuthSecret
  <2> DEFINE new == [seen[job.sp] EXCEPT !.live = TRUE, !.okey = job.ref]
  <2>1. job.ref \in Nat /\ job.ref # 0
    BY <1>1, <1>4 DEF OAuthSecret, SecretInv, KeyInJob, Job
  <2>2. new \in Secret /\ new.okey # 0 /\ new.issuer = seen[job.sp].issuer
    BY <1>1, <1>2, <2>1 DEF Secret
  <2> HIDE DEF new
  <2> QED
    BY <1>3, <1>4, <2>2 DEF OAuthSecret, new
<1>5. CASE SamlSecret
  <2> DEFINE new == [seen[job.sp] EXCEPT !.live = TRUE, !.issuer = job.meta.issuer]
  <2>1. job.meta # None /\ job.pc = "samlSecret"
    BY <1>1, <1>5 DEF SamlSecret, JobShape, SamlSteps
  <2>2. job.meta.issuer \in Issuers /\ job.meta.issuer # None
    BY <1>1, <2>1, TypesAssumption DEF Job, Metadata
  <2>3. new \in Secret /\ new.issuer # None /\ new.okey = seen[job.sp].okey
    BY <1>1, <1>2, <2>2 DEF Secret
  <2> HIDE DEF new
  <2> QED
    BY <1>3, <1>5, <2>3 DEF SamlSecret, new
<1> QED
  BY <1>4, <1>5

\* All other steps leave the Secrets alone, or remove one.
LEMMA OthersKeep ==
    ASSUME SecretInv, [Next]_vars, ~(OAuthSecret \/ SamlSecret)
    PROVE  EntriesKept
<1>1. secret \in [SPs -> Secret] /\ ~NoSecret.live
  BY DEF SecretInv, TypeInv, TypeOK, SecretsOK, NoSecret
<1>2. UNCHANGED secret => EntriesKept
  BY DEF EntriesKept
<1>3. CASE JobStep
  BY <1>2, <1>3
     DEF JobStep, SetPhaseWrite, PauseWrite, AddFinalizer, RemoveFinalizer,
         PatchPending, PatchReady, WriteFrame, OAuthGet, OAuthCreate, OAuthUpdate,
         SamlGet, SamlCreate, SamlDelete, SamlReadd, AppGet, AppCreate, AppUpdate,
         AdminGet, AdminJoin, DelApp, CallFrame, secrets
<1>4. ASSUME NEW s \in SPs, \/ Begin(s) \/ Deliver(s) \/ SecretDeliver(s) \/ Wake(s)
                            \/ CreateSP(s) \/ EditSpec(s) \/ Annotate(s)
                            \/ DeleteSP(s) \/ MetadataChange(s)
      PROVE  UNCHANGED secret
  BY <1>4
     DEF Begin, ReconcileGone, ReconcilePaused, ReconcileNotReady, ReconcileDelete,
         ReconcileFinalize, ReconcileApply, Take, Deliver, SecretDeliver, Wake,
         CreateSP, EditSpec, Annotate, DeleteSP, UserWrite, MetadataChange, secrets
<1>5. ASSUME NEW s \in SPs, SecretRemoved(s) PROVE EntriesKept
  BY <1>1, <1>5 DEF SecretRemoved, EntriesKept
<1>6. ASSUME NEW n \in Names, AppDrift(n) \/ AppRemoval(n) PROVE UNCHANGED secret
  BY <1>6 DEF AppDrift, AppRemoval, secrets
<1>7. InstanceChange \/ Crash \/ UNCHANGED vars => UNCHANGED secret
  BY DEF InstanceChange, Crash, Restart, vars, secrets
<1> QED
  BY <1>2, <1>3, <1>4, <1>5, <1>6, <1>7 DEF Next, Environment, Users

LEMMA EntriesNext == ASSUME SecretInv, [Next]_vars PROVE EntriesKept
BY UpsertKeeps, OthersKeep

\* Through whatever stale cache, failed request or restart: serving one protocol
\* never takes the entry of the other out of the Secret that both share
\* (upsertApplicationSecret).
THEOREM EntriesStay == Spec => SecretKeepsEntries
<1>1. SecretInv /\ [Next]_vars => [EntriesKept]_vars
  BY EntriesNext
<1> QED
  BY <1>1, SecretInvariant, PTL DEF Spec, SecretKeepsEntries, EntriesKept

------------------------------------------------------------------------------
(* Inbound protocols before Ready *)

\* No call of the server failed, and nobody interfered.
Untouched == left["remote"] = Budget["remote"] /\ left["drift"] = Budget["drift"]

OAuthDue == Wanted.oauth # None /\ ~SkipReconcile("oauth", job.copy)
SamlDue  == Wanted.saml = "on" /\ ~SkipReconcile("saml", job.copy)

\* Steps that come before the entry of a protocol is in the Secret.
Early == {"oauthGet", "oauthCreate", "samlGet", "samlCreate"}

\* Steps that come after it.
OAuthPast == AppSteps \ {"oauthGet", "oauthCreate", "oauthSecret"}
SamlPast  == AppSteps \ (OAuthSteps \cup {"samlGet", "samlCreate", "samlSecret"})

\* Early steps do not fail, since what they create is not there; so the parts of
\* reconcileApplication that are over have put their entries in.
PartsServed ==
    /\ job.pc = "setPhase" => job.mem.why \notin Early
    /\ job.pc = "oauthCreate" => oauth[Wanted.name].key = 0
    /\ job.pc = "samlCreate" => saml[job.meta.issuer] = None
    /\ OAuthDue /\ At(OAuthPast) => secret[job.sp].okey # 0
    /\ SamlDue /\ At(SamlPast) => secret[job.sp].issuer # None

\* No Secret of a predecessor was collected from under the reconciliation.
Spared == legacy[job.sp] # "collected"

ServedInv == Untouched /\ AtWork /\ Spared => PartsServed

\* How the steps lie to each other.
LEMMA ServedSteps ==
    /\ AppSteps = {"oauthGet", "oauthCreate", "oauthSecret", "oauthUpdate", "samlGet",
                   "samlCreate", "samlSecret", "samlDelete", "samlReadd", "adminGet",
                   "adminJoin", "appGet", "appCreate", "patchPending", "appUpdate",
                   "patchReady"}
    /\ Parts = {"oauthGet", "oauthCreate", "oauthSecret", "oauthUpdate", "samlGet",
                "samlCreate", "samlSecret", "samlDelete", "samlReadd", "adminGet",
                "adminJoin"}
    /\ OAuthPast = {"oauthUpdate", "samlGet", "samlCreate", "samlSecret",
                    "samlDelete", "samlReadd", "adminGet", "adminJoin", "appGet",
                    "appCreate", "patchPending", "appUpdate", "patchReady"}
    /\ SamlPast = {"samlDelete", "samlReadd", "adminGet", "adminJoin", "appGet",
                   "appCreate", "patchPending", "appUpdate", "patchReady"}
BY DEF AppSteps, Parts, OAuthPast, SamlPast, OAuthSteps, SamlSteps, AdminSteps

\* A step that goes on to another step.
LEMMA ServedOn ==
    ASSUME PartsServed, job'.pc \in AppSteps, job'.sp = job.sp, job'.copy = job.copy,
           secret'[job.sp].okey = 0 => secret[job.sp].okey = 0,
           secret'[job.sp].issuer = None => secret[job.sp].issuer = None,
           job'.pc = "oauthCreate" => oauth'[Wanted.name].key = 0,
           job'.pc = "samlCreate" => saml'[job'.meta.issuer] = None,
           job'.pc \in OAuthPast =>
              At(OAuthPast) \/ ~OAuthDue \/ secret'[job.sp].okey # 0,
           job'.pc \in SamlPast =>
              At(SamlPast) \/ ~SamlDue \/ secret'[job.sp].issuer # None
    PROVE  PartsServed'
<1>1. job'.pc # "setPhase"
  BY ServedSteps
<1>2. (OAuthDue' <=> OAuthDue) /\ (SamlDue' <=> SamlDue)
  BY DEF OAuthDue, SamlDue, Wanted, SkipReconcile
<1>3. At(OAuthPast)' => job'.pc \in OAuthPast
  BY <1>1 DEF At, OAuthPast, AppSteps, Parts, OAuthSteps, SamlSteps, AdminSteps
<1>4. At(SamlPast)' => job'.pc \in SamlPast
  BY <1>1 DEF At, SamlPast, AppSteps, Parts, OAuthSteps, SamlSteps, AdminSteps
<1>5. OAuthDue' /\ At(OAuthPast)' => secret'[job'.sp].okey # 0
  BY <1>2, <1>3 DEF PartsServed
<1>6. SamlDue' /\ At(SamlPast)' => secret'[job'.sp].issuer # None
  BY <1>2, <1>4 DEF PartsServed
<1> QED
  BY <1>1, <1>5, <1>6 DEF PartsServed, Wanted

\* A step that is not early and fails.
LEMMA ServedFailure ==
    ASSUME TypeInv, PartsServed, job.pc \in AppSteps \ Early, Fail, UNCHANGED secret
    PROVE  AtWork' => PartsServed'
<1>1. job \in Job /\ job.mem \in Status
  BY DEF TypeInv, TypeOK, ControlOK, Job
<1>2. CASE job' = Idle
  BY <1>2, IdleAtRest
<1>3. CASE job' = [job EXCEPT !.pc = "setPhase", !.mem.phase = "Failed",
                              !.mem.why = job.pc]
  <2>1. /\ job'.pc = "setPhase" /\ job'.mem.why = job.pc /\ job'.sp = job.sp
        /\ job'.copy = job.copy
    BY <1>1, <1>3 DEF Job, Status
  <2>2. (OAuthDue' <=> OAuthDue) /\ (SamlDue' <=> SamlDue)
    BY <2>1 DEF OAuthDue, SamlDue, Wanted, SkipReconcile
  <2>3. At(OAuthPast)' => At(OAuthPast)
    BY <2>1 DEF At, OAuthPast, AppSteps, Parts, OAuthSteps, SamlSteps, AdminSteps
  <2>4. At(SamlPast)' => At(SamlPast)
    BY <2>1 DEF At, SamlPast, AppSteps, Parts, OAuthSteps, SamlSteps, AdminSteps
  <2>5. OAuthDue' /\ At(OAuthPast)' => secret'[job'.sp].okey # 0
    BY <2>1, <2>2, <2>3 DEF PartsServed
  <2>6. SamlDue' /\ At(SamlPast)' => secret'[job'.sp].issuer # None
    BY <2>1, <2>2, <2>4 DEF PartsServed
  <2> QED
    BY <2>1, <2>5, <2>6 DEF PartsServed, Early
<1> QED
  BY <1>2, <1>3 DEF Fail, SetPhase

\* What the outcomes of a call do.
LEMMA ServedOutcomes ==
    ASSUME TypeInv, PartsServed, job.pc \in AppSteps, UNCHANGED secret
    PROVE  /\ Done \/ Requeue => ~AtWork'
           /\ Fail /\ job.pc \notin Early => (AtWork' => PartsServed')
           /\ \A pc \in SamlPast : Goto(pc) /\ job.pc \in SamlPast => PartsServed'
           /\ \A j \in Job : /\ job' = InSync(j) /\ job.pc \in SamlPast
                             /\ j.sp = job.sp /\ j.copy = job.copy
                             => PartsServed'
<1>1. job \in Job
  BY DEF TypeInv, TypeOK, ControlOK
<1>2. Done \/ Requeue => ~AtWork'
  BY IdleAtRest DEF Done, Requeue
<1>3. Fail /\ job.pc \notin Early => (AtWork' => PartsServed')
  BY ServedFailure
<1>4. job.pc \in SamlPast => At(OAuthPast) /\ At(SamlPast)
  BY ServedSteps DEF At
<1>5. ASSUME NEW pc \in SamlPast, Goto(pc), job.pc \in SamlPast PROVE PartsServed'
  <2>1. job'.pc = pc /\ job'.sp = job.sp /\ job'.copy = job.copy
    BY <1>1, <1>5 DEF Goto, Job
  <2> QED
    BY <1>4, <1>5, <2>1, ServedOn, ServedSteps
<1>6. ASSUME NEW j \in Job, job' = InSync(j), job.pc \in SamlPast,
             j.sp = job.sp, j.copy = job.copy
      PROVE  PartsServed'
  <2>1. job'.pc \in {"patchReady", "adminGet"} /\ job'.sp = job.sp /\ job'.copy = job.copy
    BY <1>6 DEF InSync, Job
  <2> QED
    BY <1>4, <1>6, <2>1, ServedOn, ServedSteps
<1> QED
  BY <1>2, <1>3, <1>5, <1>6

LEMMA OAuthServed ==
    ASSUME TypeInv, PartsServed, ~Spend("remote"), OAuthGet \/ OAuthCreate \/ OAuthUpdate
    PROVE  AtWork' => PartsServed'
<1>1. /\ job \in Job /\ job.pc \in AppSteps /\ UNCHANGED secret
      /\ job.pc \in {"oauthGet", "oauthCreate", "oauthUpdate"}
  BY ServedSteps
     DEF TypeInv, TypeOK, ControlOK, OAuthGet, OAuthCreate, OAuthUpdate, CallFrame,
         secrets
<1>2. CASE OAuthGet
  <2>1. ASSUME NEW ref, NEW dirty,
               job' = [job EXCEPT !.pc = "oauthSecret", !.ref = ref, !.dirty = dirty]
        PROVE  PartsServed'
    <3>1. job'.pc = "oauthSecret" /\ job'.sp = job.sp /\ job'.copy = job.copy
      BY <1>1, <2>1 DEF Job
    <3> QED
      BY <1>1, <3>1, ServedOn, ServedSteps
  <2>2. ASSUME Goto("oauthCreate"), oauth[Wanted.name].key = 0 PROVE PartsServed'
    <3>1. job'.pc = "oauthCreate" /\ job'.sp = job.sp /\ job'.copy = job.copy
      BY <1>1, <2>2 DEF Goto, Job
    <3>2. oauth' = oauth
      BY <1>2 DEF OAuthGet, Reads, remote
    <3> QED
      BY <1>1, <2>2, <3>1, <3>2, ServedOn, ServedSteps
  <2> QED
    BY <1>2, <2>1, <2>2 DEF OAuthGet
<1>3. CASE OAuthCreate
  <2>1. Requeue
    BY <1>3 DEF OAuthCreate, PartsServed, Call
  <2> QED
    BY <1>1, <2>1, ServedOutcomes
<1>4. CASE OAuthUpdate
  <2>1. job.pc \notin Early /\ (Requeue \/ Fail)
    BY <1>4 DEF OAuthUpdate, Call, Refused, Early
  <2> QED
    BY <1>1, <2>1, ServedOutcomes
<1> QED
  BY <1>2, <1>3, <1>4

LEMMA SamlServed ==
    ASSUME TypeInv, PartsServed, ~Spend("remote"),
           SamlGet \/ SamlCreate \/ SamlDelete \/ SamlReadd
    PROVE  AtWork' => PartsServed'
<1>1. /\ job \in Job /\ job.pc \in AppSteps /\ UNCHANGED secret
      /\ job.pc \in {"samlGet", "samlCreate", "samlDelete", "samlReadd"}
  BY ServedSteps
     DEF TypeInv, TypeOK, ControlOK, SamlGet, SamlCreate, SamlDelete, SamlReadd,
         CallFrame, secrets
<1>2. At(OAuthPast) /\ "samlReadd" \in SamlPast /\ "appGet" \in SamlPast
  BY <1>1, ServedSteps DEF At
<1>3. CASE SamlGet
  <2> DEFINE m == md[job.sp]
             pc == IF saml[m.issuer] = None THEN "samlCreate" ELSE "samlSecret"
  <2>1. ASSUME job' = [job EXCEPT !.pc = pc, !.meta = m,
                                  !.dirty = (saml[m.issuer] # m.acs)]
        PROVE  PartsServed'
    <3>1. /\ job'.pc = pc /\ job'.sp = job.sp /\ job'.copy = job.copy /\ job'.meta = m
      BY <1>1, <2>1 DEF Job
    <3>2. saml' = saml
      BY <1>3 DEF SamlGet, Reads, remote
    <3>3. pc = "samlCreate" => saml[m.issuer] = None
      OBVIOUS
    <3>4. pc \in {"samlCreate", "samlSecret"}
      OBVIOUS
    <3> HIDE DEF m, pc
    <3> QED
      BY <1>1, <1>2, <3>1, <3>2, <3>3, <3>4, ServedOn, ServedSteps
  <2>2. Requeue => ~AtWork'
    BY <1>1, ServedOutcomes
  <2> QED
    BY <1>3, <2>1, <2>2 DEF SamlGet
<1>4. CASE SamlCreate
  <2>1. Requeue
    BY <1>4 DEF SamlCreate, AddSaml, PartsServed, Call
  <2> QED
    BY <1>1, <2>1, ServedOutcomes
<1>5. CASE SamlDelete \/ SamlReadd
  <2>1. /\ job.pc \notin Early /\ job.pc \in SamlPast
        /\ Fail \/ Goto("samlReadd") \/ Goto("appGet")
    BY <1>5, ServedSteps
       DEF SamlDelete, SamlReadd, AddSaml, Call, Refused, Early
  <2> QED
    BY <1>1, <1>2, <2>1, ServedOutcomes
<1> QED
  BY <1>3, <1>4, <1>5

LEMMA ApplicationServed ==
    ASSUME TypeInv, PartsServed, ~Spend("remote"),
           AppGet \/ AppCreate \/ AppUpdate \/ AdminGet \/ AdminJoin
    PROVE  AtWork' => PartsServed'
<1>1. /\ job \in Job /\ job.pc \in AppSteps /\ UNCHANGED secret
      /\ job.pc \in SamlPast /\ job.pc \notin Early /\ job.mem \in Status
  BY ServedSteps
     DEF TypeInv, TypeOK, ControlOK, Job, AppGet, AppCreate, AppUpdate, AdminGet,
         AdminJoin, CallFrame, secrets, Early
<1>2. At(OAuthPast) /\ At(SamlPast)
  BY <1>1, ServedSteps DEF At
<1>3. CASE AppGet
  <2> DEFINE have  == apps[Wanted.name]
             found == [job EXCEPT !.mem.id = have.id]
  <2>1. have.id \in Nat
    BY <1>1 DEF TypeInv, TypeOK, RemoteOK, Job, SPObject, SPSpec, App, Wanted
  <2> HIDE DEF have
  <2>2. found \in Job /\ found.sp = job.sp /\ found.copy = job.copy
    BY <1>1, <2>1 DEF Job, Status
  <2>3. ASSUME job' = [found EXCEPT !.pc = "appUpdate"] PROVE PartsServed'
    <3>1. job'.pc = "appUpdate" /\ job'.sp = job.sp /\ job'.copy = job.copy
      BY <2>2, <2>3 DEF Job
    <3> QED
      BY <1>1, <1>2, <3>1, ServedOn, ServedSteps
  <2> HIDE DEF found
  <2>4. SetPhase(found, "Failed", "script") => ~AtWork'
    <3>1. CASE job' = Idle
      BY <3>1, IdleAtRest
    <3>2. CASE job' = [found EXCEPT !.pc = "setPhase",
                                    !.mem.phase = "Failed", !.mem.why = "script"]
      <4>1. job'.pc = "setPhase" /\ job'.mem.why = "script"
        BY <2>2, <3>2 DEF Job, Status
      <4> QED
        BY <4>1, ServedSteps DEF AtWork
    <3> QED
      BY <3>1, <3>2 DEF SetPhase
  <2>5. "appCreate" \in SamlPast
    BY ServedSteps
  <2> QED
    BY <1>1, <1>3, <2>2, <2>3, <2>4, <2>5, ServedOutcomes DEF AppGet, found, have
<1>4. CASE AppCreate
  <2>1. ASSUME job' = [job EXCEPT !.pc = "patchPending",
                           !.mem.phase = "Pending", !.mem.why = "created"]
        PROVE  PartsServed'
    <3>1. job'.pc = "patchPending" /\ job'.sp = job.sp /\ job'.copy = job.copy
      BY <1>1, <2>1 DEF Job
    <3> QED
      BY <1>1, <1>2, <3>1, ServedOn, ServedSteps
  <2> QED
    BY <1>1, <1>4, <2>1, ServedOutcomes DEF AppCreate, Call, Refused
<1>5. CASE AppUpdate
  BY <1>1, <1>5, ServedOutcomes DEF AppUpdate, Call, Refused
<1>6. CASE AdminGet \/ AdminJoin
  <2>1. ASSUME job' = [job EXCEPT !.pc = "patchReady", !.mem.admin = TRUE]
        PROVE  PartsServed'
    <3>1. job'.pc = "patchReady" /\ job'.sp = job.sp /\ job'.copy = job.copy
      BY <1>1, <2>1 DEF Job
    <3> QED
      BY <1>1, <1>2, <3>1, ServedOn, ServedSteps
  <2>2. ASSUME NEW ref, job' = [job EXCEPT !.pc = "adminJoin", !.ref = ref]
        PROVE  PartsServed'
    <3>1. job'.pc = "adminJoin" /\ job'.sp = job.sp /\ job'.copy = job.copy
      BY <1>1, <2>2 DEF Job
    <3> QED
      BY <1>1, <1>2, <3>1, ServedOn, ServedSteps
  <2> QED
    BY <1>1, <1>6, <2>1, <2>2, ServedOutcomes DEF AdminGet, AdminJoin, Call, Refused
<1> QED
  BY <1>3, <1>4, <1>5, <1>6

\* The step that puts an entry in.
LEMMA EntryServed ==
    ASSUME SecretInv, PartsServed, OAuthSecret \/ SamlSecret
    PROVE  AtWork' => PartsServed'
<1>1. /\ secret \in [SPs -> Secret] /\ seen \in [SPs -> Secret] /\ job \in Job
      /\ JobShape /\ job.copy \in SPObject
  BY DEF SecretInv, TypeInv, TypeOK, SecretsOK, ControlOK, Job
<1>2. job.pc \in {"oauthSecret", "samlSecret"} /\ job.sp \in SPs
  BY <1>1 DEF OAuthSecret, SamlSecret, JobShape
<1>3. ASSUME NEW new \in Secret, NEW pc, UpsertSecret(new, pc), AtWork'
      PROVE  /\ job'.pc = pc /\ job'.sp = job.sp /\ job'.copy = job.copy
             /\ seen[job.sp] = secret[job.sp] /\ secret'[job.sp] = new
  <2>1. ~Requeue
    BY <1>3, IdleAtRest DEF Requeue
  <2> QED
    BY <1>1, <1>2, <1>3, <2>1 DEF UpsertSecret, Goto, Job
<1>4. CASE OAuthSecret
  <2> DEFINE new == [seen[job.sp] EXCEPT !.live = TRUE, !.okey = job.ref]
             pc  == IF job.dirty THEN "oauthUpdate" ELSE AfterOAuth(job.copy)
  <2>1. job.ref \in Nat /\ job.ref # 0
    BY <1>1, <1>4 DEF OAuthSecret, SecretInv, KeyInJob, Job
  <2>2. new \in Secret /\ new.okey # 0 /\ new.issuer = seen[job.sp].issuer
    BY <1>1, <1>2, <2>1 DEF Secret
  <2>3. /\ pc \in {"oauthUpdate", "samlGet", "appGet"}
        /\ pc = "appGet" => ~SamlDue
    BY <1>1, NextStepType DEF AfterOAuth, SamlDue, Wanted
  <2>4. UpsertSecret(new, pc)
    BY <1>4 DEF OAuthSecret
  <2> HIDE DEF new, pc
  <2> QED
    BY <1>3, <2>2, <2>3, <2>4, ServedOn, ServedSteps
<1>5. CASE SamlSecret
  <2> DEFINE new == [seen[job.sp] EXCEPT !.live = TRUE, !.issuer = job.meta.issuer]
             pc  == IF job.dirty THEN "samlDelete" ELSE "appGet"
  <2>1. job.meta # None /\ job.pc = "samlSecret"
    BY <1>1, <1>5 DEF SamlSecret, JobShape, SamlSteps
  <2>2. job.meta.issuer \in Issuers /\ job.meta.issuer # None
    BY <1>1, <2>1, TypesAssumption DEF Job, Metadata
  <2>3. new \in Secret /\ new.issuer # None /\ new.okey = seen[job.sp].okey
    BY <1>1, <1>2, <2>2 DEF Secret
  <2>4. pc \in {"samlDelete", "appGet"} /\ At(OAuthPast)
    BY <2>1, ServedSteps DEF At
  <2>5. UpsertSecret(new, pc)
    BY <1>5 DEF SamlSecret
  <2> HIDE DEF new, pc
  <2> QED
    BY <1>3, <2>3, <2>4, <2>5, ServedOn, ServedSteps
<1> QED
  BY <1>4, <1>5

\* After a swallowed failure, which was not an early one.
LEMMA WriteServed ==
    ASSUME TypeInv, AtWork => PartsServed,
           \/ SetPhaseWrite \/ PauseWrite \/ AddFinalizer \/ RemoveFinalizer
           \/ PatchPending \/ PatchReady
    PROVE  AtWork' => PartsServed'
<1>1. Done \/ Requeue => ~AtWork'
  BY IdleAtRest DEF Done, Requeue
<1>2. job.copy \in SPObject /\ job.mem.why \in Reasons
  BY DEF TypeInv, TypeOK, ControlOK, Job, Status
<1>3. ASSUME SetPhaseWrite, Swallowed, AtWork' PROVE PartsServed'
  <2>1. PICK pc \in {"samlGet", "appGet", "patchReady"} :
           /\ GoOn(pc) /\ job.mem.why \in Parts
           /\ pc = "patchReady" => job.mem.why \in AdminSteps
           /\ pc # "patchReady" => job.mem.why \in OAuthSteps \cup SamlSteps
    BY <1>1, <1>3, SwallowedSteps
  <2>2. job'.pc = pc /\ job'.sp = job.sp /\ job'.copy = job.copy /\ pc \in Steps
    BY <2>1, GoOnFields, ServedSteps DEF Steps
  <2>3. job.pc = "setPhase" /\ UNCHANGED secret
    BY <1>3 DEF SetPhaseWrite, WriteFrame, secrets
  <2>4. PartsServed
    BY <2>1, <2>3 DEF AtWork
  <2>5. job.mem.why \in {"oauthUpdate", "samlDelete", "samlReadd", "adminGet", "adminJoin"}
    BY <1>2, <2>1, <2>3, <2>4, ServedSteps DEF PartsServed, Early, Reasons, Failures
  <2>6. At(OAuthPast)
    BY <2>3, <2>5, ServedSteps DEF At
  <2>7. At(SamlPast) \/ pc = "samlGet" \/ ~SamlDue
    <3>1. CASE job.mem.why = "oauthUpdate"
      <4>1. job.mem.why \in OAuthSteps /\ job.mem.why \notin SamlSteps \cup AdminSteps
        BY <3>1 DEF OAuthSteps, SamlSteps, AdminSteps
      <4>2. GoOn(AfterOAuth(job.copy)) /\ AfterOAuth(job.copy) \in Steps
        BY <1>2, <1>3, <4>1, NextStepType DEF Swallowed, Parts, Steps, AppSteps, SamlSteps
      <4>3. pc = AfterOAuth(job.copy)
        BY <2>2, <4>2, GoOnFields
      <4> QED
        BY <4>3 DEF AfterOAuth, SamlDue, Wanted
    <3>2. CASE job.mem.why # "oauthUpdate"
      BY <2>3, <2>5, <3>2, ServedSteps DEF At
    <3> QED
      BY <3>1, <3>2
  <2> QED
    BY <2>2, <2>3, <2>4, <2>6, <2>7, ServedOn, ServedSteps
<1>4. CASE SetPhaseWrite
  <2>1. Requeue \/ Swallowed
    BY <1>4 DEF SetPhaseWrite, Update
  <2> QED
    BY <1>1, <1>3, <1>4, <2>1
<1>5. CASE PauseWrite \/ AddFinalizer \/ RemoveFinalizer \/ PatchPending \/ PatchReady
  <2>1. Done \/ Requeue
    BY <1>5
       DEF PauseWrite, AddFinalizer, RemoveFinalizer, PatchPending, PatchReady,
           PatchCall, Update
  <2> QED
    BY <1>1, <2>1
<1> QED
  BY <1>4, <1>5

\* A reconciliation begins with the first protocol that is due.
LEMMA BeginServed ==
    ASSUME TypeInv, NEW s \in SPs, Begin(s), AtWork'
    PROVE  PartsServed'
<1>1. KubeOK /\ cache[s] \in SPObject
  BY DEF TypeInv, TypeOK, KubeOK
<1>2. job = Idle
  BY DEF Begin, ReconcileGone, ReconcilePaused, ReconcileNotReady, ReconcileDelete,
         ReconcileFinalize, ReconcileApply, Take
<1>3. job' # Idle
  BY IdleAtRest
<1>4. ASSUME NEW pc \in {"pause", "delApp", "rmFin", "addFin"}, Start(s, pc)
      PROVE  FALSE
  <2>1. job'.pc = pc
    BY <1>1, <1>4, OtherSteps, SnapshotType DEF Start
  <2> QED
    BY <2>1, ServedSteps DEF AtWork
<1>5. ~ReconcileNotReady(s)
  <2> SUFFICES ASSUME ReconcileNotReady(s) PROVE FALSE
    OBVIOUS
  <2>1. PICK j \in Job : j = Snapshot(s, "idle")
    BY <1>1, SnapshotType DEF Steps
  <2>2. job' = [j EXCEPT !.pc = "setPhase",
                         !.mem.phase = "Pending", !.mem.why = "instance"]
    BY <1>3, <2>1 DEF ReconcileNotReady, SetPhase
  <2>3. job'.pc = "setPhase" /\ job'.mem.why = "instance"
    BY <2>2 DEF Job, Status
  <2> QED
    BY <2>3, ServedSteps DEF AtWork
<1>6. ReconcileApply(s)
  BY <1>2, <1>3, <1>4, <1>5
     DEF Begin, ReconcileGone, ReconcilePaused, ReconcileDelete, ReconcileFinalize
<1>7. /\ FirstStep(cache[s]) \in {"oauthGet", "samlGet", "appGet"}
      /\ job'.pc = FirstStep(cache[s]) /\ job'.copy = cache[s]
  BY <1>1, <1>6, NextStepType, OtherSteps, SnapshotType DEF ReconcileApply, Start
<1>8. /\ job'.pc # "oauthGet" => ~OAuthDue'
      /\ job'.pc = "appGet" => ~SamlDue'
  BY <1>7 DEF FirstStep, AfterOAuth, OAuthDue, SamlDue, Wanted, SkipReconcile
<1>9. job'.pc # "setPhase" /\ (At(OAuthPast)' => job'.pc # "oauthGet")
      /\ (At(SamlPast)' => job'.pc = "appGet")
  BY <1>7 DEF At, OAuthPast, SamlPast, AppSteps, Parts, OAuthSteps, SamlSteps,
              AdminSteps
<1> QED
  BY <1>7, <1>8, <1>9 DEF PartsServed

\* What others do: nothing that is missing appears, nothing that is there goes.
LEMMA RestServed ==
    ASSUME TypeInv, FinalizerAtWork, AtWork, Spared => PartsServed, ~Spend("drift"),
           Environment \/ UNCHANGED vars
              \/ \E s \in SPs : Deliver(s) \/ SecretDeliver(s) \/ Wake(s)
    PROVE  AtWork' /\ Spared' => PartsServed'
<1>1. /\ oauth \in [Names -> OAuthRecord] /\ saml \in [Issuers -> AcsLists \cup {None}]
      /\ job \in Job /\ job.sp \in SPs /\ sps[job.sp].live
      /\ secret \in [SPs -> Secret] /\ legacy \in [SPs -> Legacies]
  BY ServedSteps
     DEF TypeInv, TypeOK, RemoteOK, ControlOK, SecretsOK, FinalizerAtWork, AtWork,
         JobShape
<1>2. Wanted.name \in Names
  BY <1>1 DEF Job, SPObject, SPSpec, Wanted
<1>3. \/ job' = Idle
      \/ /\ job'.pc = job.pc /\ job'.sp = job.sp /\ job'.copy = job.copy
         /\ job'.mem = job.mem /\ job'.meta = job.meta
  <2>1. ASSUME NEW s \in SPs,
               CreateSP(s) \/ EditSpec(s) \/ Annotate(s) \/ DeleteSP(s)
        PROVE  /\ job'.pc = job.pc /\ job'.sp = job.sp /\ job'.copy = job.copy
               /\ job'.mem = job.mem /\ job'.meta = job.meta
    BY <2>1, UserOutcome, OutdatedJobType DEF UserWrite, TypeInv, TypeOK, ControlOK
  <2>2. ASSUME NEW s \in SPs, \/ MetadataChange(s) \/ SecretRemoved(s)
                              \/ Deliver(s) \/ SecretDeliver(s) \/ Wake(s)
        PROVE  UNCHANGED job
    BY <2>2 DEF MetadataChange, SecretRemoved, Deliver, SecretDeliver, Wake, control
  <2>3. ASSUME NEW n \in Names, AppDrift(n) \/ AppRemoval(n) PROVE UNCHANGED job
    BY <2>3 DEF AppDrift, AppRemoval, control
  <2>4. InstanceChange \/ UNCHANGED vars => UNCHANGED job
    BY DEF InstanceChange, vars, control
  <2>5. Crash => job' = Idle
    BY DEF Crash, Restart
  <2> QED
    BY <2>1, <2>2, <2>3, <2>4, <2>5 DEF Environment, Users
<1>4. /\ oauth[Wanted.name].key = 0 => oauth'[Wanted.name].key = 0
      /\ \A i \in Issuers : saml[i] = None => saml'[i] = None
      /\ legacy'[job.sp] # "collected" =>
            legacy[job.sp] # "collected" /\ secret'[job.sp] = secret[job.sp]
  <2>1. ASSUME NEW s \in SPs,
               \/ CreateSP(s) \/ EditSpec(s) \/ Annotate(s) \/ DeleteSP(s)
               \/ Deliver(s) \/ SecretDeliver(s) \/ Wake(s)
        PROVE  UNCHANGED <<oauth, saml, secret>> /\ legacy'[job.sp] = legacy[job.sp]
    BY <1>1, <2>1
       DEF CreateSP, EditSpec, Annotate, DeleteSP, UserWrite, Deliver, SecretDeliver,
           Wake, remote, secrets
  <2>2. ASSUME NEW s \in SPs, MetadataChange(s)
        PROVE  UNCHANGED <<oauth, saml, secret, legacy>>
    BY <2>2 DEF MetadataChange, secrets, remote
  <2>3. ASSUME NEW s \in SPs, SecretRemoved(s)
        PROVE  /\ UNCHANGED <<oauth, saml>>
               /\ legacy'[job.sp] # "collected" =>
                     legacy[job.sp] # "collected" /\ secret'[job.sp] = secret[job.sp]
    <3>1. UNCHANGED <<oauth, saml>>
      BY <2>3 DEF SecretRemoved, remote
    <3>2. /\ secret' = [secret EXCEPT ![s] = NoSecret]
          /\ legacy' = [legacy EXCEPT ![s] = IF legacy[s] = "inherited" THEN "collected"
                                             ELSE legacy[s]]
      BY <2>3 DEF SecretRemoved
    <3>3. CASE s = job.sp
      <4>1. legacy[s] = "inherited"
        BY <1>1, <2>3, <3>3 DEF SecretRemoved
      <4>2. legacy'[s] = "collected"
        BY <1>1, <3>2, <4>1
      <4> QED
        BY <3>1, <3>3, <4>2
    <3>4. CASE s # job.sp
      <4>1. legacy'[job.sp] = legacy[job.sp] /\ secret'[job.sp] = secret[job.sp]
        BY <1>1, <3>2, <3>4
      <4> QED
        BY <3>1, <4>1
    <3> QED
      BY <3>3, <3>4
  <2>4. ASSUME NEW n \in Names, AppDrift(n) \/ AppRemoval(n)
        PROVE  /\ oauth[Wanted.name].key = 0 => oauth'[Wanted.name].key = 0
               /\ \A i \in Issuers : saml[i] = None => saml'[i] = None
               /\ UNCHANGED <<secret, legacy>>
    BY <1>1, <1>2, <2>4 DEF AppDrift, AppRemoval, DropApp, NoOAuth, secrets
  <2>5. InstanceChange \/ Crash \/ UNCHANGED vars =>
           UNCHANGED <<oauth, saml, secret, legacy>>
    BY DEF InstanceChange, Crash, Restart, vars, remote, secrets
  <2> QED
    BY <2>1, <2>2, <2>3, <2>4, <2>5 DEF Environment, Users
<1>5. CASE job' = Idle
  BY <1>5, IdleAtRest
<1>6. CASE /\ job'.pc = job.pc /\ job'.sp = job.sp /\ job'.copy = job.copy
           /\ job'.mem = job.mem /\ job'.meta = job.meta
  <2>1. job.pc = "samlCreate" => job.meta.issuer \in Issuers
    BY <1>1 DEF TypeInv, JobShape, SamlSteps, Job, Metadata
  <2>2. (OAuthDue' <=> OAuthDue) /\ (SamlDue' <=> SamlDue)
    BY <1>6 DEF OAuthDue, SamlDue, Wanted, SkipReconcile
  <2>3. (At(OAuthPast)' <=> At(OAuthPast)) /\ (At(SamlPast)' <=> At(SamlPast))
    BY <1>6
       DEF At, OAuthPast, SamlPast, AppSteps, Parts, OAuthSteps, SamlSteps, AdminSteps
  <2> QED
    BY <1>4, <1>6, <2>1, <2>2, <2>3 DEF PartsServed, Spared, Wanted, Early
<1> QED
  BY <1>3, <1>5, <1>6

\* Users, informers and timers do not move the job.
LEMMA JobStays ==
    ASSUME TypeInv,
           Users \/ \E s \in SPs : Deliver(s) \/ SecretDeliver(s) \/ Wake(s)
    PROVE  job'.pc = job.pc /\ job'.mem = job.mem
<1>1. ASSUME NEW s \in SPs,
             CreateSP(s) \/ EditSpec(s) \/ Annotate(s) \/ DeleteSP(s)
      PROVE  job'.pc = job.pc /\ job'.mem = job.mem
  BY <1>1, UserOutcome, OutdatedJobType DEF UserWrite, TypeInv, TypeOK, ControlOK
<1>2. ASSUME NEW s \in SPs, \/ MetadataChange(s) \/ SecretRemoved(s)
                            \/ Deliver(s) \/ SecretDeliver(s) \/ Wake(s)
      PROVE  UNCHANGED job
  BY <1>2 DEF MetadataChange, SecretRemoved, Deliver, SecretDeliver, Wake, control
<1>3. ASSUME NEW n \in Names, AppDrift(n) \/ AppRemoval(n) PROVE UNCHANGED job
  BY <1>3 DEF AppDrift, AppRemoval, control
<1> QED
  BY <1>1, <1>2, <1>3 DEF Users

\* Steps of others do not put a reconciliation to work.
LEMMA RestAtWork ==
    ASSUME TypeInv, AtWork', Environment \/ UNCHANGED vars
              \/ \E s \in SPs : Deliver(s) \/ SecretDeliver(s) \/ Wake(s)
    PROVE  AtWork
<1>1. InstanceChange \/ UNCHANGED vars => UNCHANGED job
  BY DEF InstanceChange, vars, control
<1>2. ~Crash
  BY IdleAtRest DEF Crash, Restart
<1>3. job'.pc = job.pc /\ job'.mem = job.mem
  BY <1>1, <1>2, JobStays DEF Environment
<1> QED
  BY <1>3 DEF AtWork, Parts, AppSteps, OAuthSteps, SamlSteps, AdminSteps

\* The steps of a reconciliation change nothing of the Secrets' past.
LEMMA JobStepSpares == ASSUME CoreInv, JobStep, AtWork', Spared' PROVE Spared
<1>1. TypeInv /\ job' # Idle
  BY IdleAtRest DEF CoreInv
<1>2. legacy' = legacy
  BY DEF JobStep, SetPhaseWrite, PauseWrite, AddFinalizer, RemoveFinalizer, PatchPending,
         PatchReady, WriteFrame, OAuthSecret, SamlSecret, UpsertSecret, OAuthGet,
         OAuthCreate, OAuthUpdate, SamlGet, SamlCreate, SamlDelete, SamlReadd, AppGet,
         AppCreate, AppUpdate, AdminGet, AdminJoin, DelApp, CallFrame, secrets
<1>3. CASE Writes
  <2>1. job.sp \in SPs
    BY <1>1, <1>3
       DEF TypeInv, JobShape, Writes, SetPhaseWrite, PauseWrite, AddFinalizer,
           RemoveFinalizer, PatchPending, PatchReady
  <2>2. job'.sp = job.sp
    BY <1>1, <1>3, <2>1, WriteOutcome DEF Continued
  <2> QED
    BY <1>2, <2>2 DEF Spared
<1>4. CASE ~Writes
  <2>1. QuietJob
    BY <1>1, <1>4, QuietInbound, QuietApplication DEF JobStep, Writes
  <2> QED
    BY <1>1, <1>2, <2>1 DEF QuietJob, Spared
<1> QED
  BY <1>3, <1>4

\* Every step that is neither a failed call nor an interference.
LEMMA ServedNext ==
    ASSUME CoreInv, KeyInJob, AtWork /\ Spared => PartsServed, [Next]_vars,
           ~Spend("remote"), ~Spend("drift")
    PROVE  AtWork' /\ Spared' => PartsServed'
<1> SUFFICES ASSUME AtWork', Spared' PROVE PartsServed'
  OBVIOUS
<1>0. JobStep /\ AtWork => PartsServed
  BY JobStepSpares
<1>1. TypeInv /\ FinalizerAtWork /\ SecretInv
  BY DEF CoreInv, SecretInv
<1>2. CASE SetPhaseWrite \/ PauseWrite \/ AddFinalizer \/ RemoveFinalizer
           \/ PatchPending \/ PatchReady
  BY <1>0, <1>1, <1>2, WriteServed DEF JobStep
<1>3. CASE OAuthSecret \/ SamlSecret
  BY <1>0, <1>1, <1>3, EntryServed, ServedSteps DEF AtWork, JobStep, OAuthSecret, SamlSecret
<1>4. CASE OAuthGet \/ OAuthCreate \/ OAuthUpdate
  BY <1>0, <1>1, <1>4, OAuthServed, ServedSteps DEF AtWork, JobStep, OAuthGet, OAuthCreate, OAuthUpdate
<1>5. CASE SamlGet \/ SamlCreate \/ SamlDelete \/ SamlReadd
  BY <1>0, <1>1, <1>5, SamlServed, ServedSteps
     DEF AtWork, JobStep, SamlGet, SamlCreate, SamlDelete, SamlReadd
<1>6. CASE AppGet \/ AppCreate \/ AppUpdate \/ AdminGet \/ AdminJoin
  BY <1>0, <1>1, <1>6, ApplicationServed, ServedSteps
     DEF AtWork, JobStep, AppGet, AppCreate, AppUpdate, AdminGet, AdminJoin
<1>7. ~DelApp
  <2> SUFFICES ASSUME DelApp PROVE FALSE
    OBVIOUS
  <2>1. job'.pc = "rmFin"
    BY <1>1 DEF DelApp, Goto, TypeInv, TypeOK, ControlOK, Job
  <2> QED
    BY <2>1, ServedSteps DEF AtWork
<1>8. ASSUME NEW s \in SPs, Begin(s) PROVE PartsServed'
  BY <1>1, <1>8, BeginServed
<1>9. CASE Environment \/ UNCHANGED vars
           \/ \E s \in SPs : Deliver(s) \/ SecretDeliver(s) \/ Wake(s)
  BY <1>1, <1>9, RestServed, RestAtWork
<1> QED
  BY <1>2, <1>3, <1>4, <1>5, <1>6, <1>7, <1>8, <1>9 DEF Next, JobStep

LEMMA ServedInvariant == Spec => []ServedInv
<1>1. Init => ServedInv
  BY ServedSteps DEF Init, Idle, ServedInv, AtWork
<1>2. CoreInv /\ DropInv /\ SecretInv /\ ServedInv /\ [Next]_vars => ServedInv'
  <2> SUFFICES ASSUME CoreInv, DropInv, SecretInv, ServedInv, [Next]_vars, Untouched'
               PROVE  AtWork' /\ Spared' => PartsServed'
    BY DEF ServedInv
  <2>1. Untouched /\ ~Spend("remote") /\ ~Spend("drift")
    BY StepBudget DEF DropInv, CoreInv, Kinds, Untouched
  <2> QED
    BY <2>1, ServedNext DEF ServedInv, SecretInv
<1> QED
  BY <1>1, <1>2, CoreInvariant, DropInvariant, SecretInvariant, PTL DEF Spec

\* As long as no call of the server failed and nobody interfered, a reconciliation
\* says Ready only after the client credentials and the issuer the spec asks for
\* are in the Secret, although setPhase swallows conflicts and the reconciliation
\* goes on after them (reconcileApplicationOAuth2, reconcileSAMLApplication), and
\* although the Secret may be the one of a predecessor, unless that one is
\* collected while the reconciliation goes on.
THEOREM InboundFirst == Spec => []InboundBeforeReady
<1>1. ServedInv => InboundBeforeReady
  <2>1. "patchReady" \in OAuthPast /\ "patchReady" \in SamlPast /\ "patchReady" \in AppSteps
    BY ServedSteps
  <2> QED
    BY <2>1
       DEF ServedInv, InboundBeforeReady, InboundServed, Untouched, PartsServed, AtWork,
           At, OAuthDue, SamlDue, Spared
<1> QED
  BY <1>1, ServedInvariant, PTL
==============================================================================
