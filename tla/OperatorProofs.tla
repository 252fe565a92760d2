---------------------------- MODULE OperatorProofs ----------------------------
(***************************************************************************)
(* Theorems about Operator, for all values of its constants: what each of  *)
(* the two controllers promises alone, it keeps beside the other one, in   *)
(* a process they share, while calls are refused and the instance changes. *)
(*                                                                         *)
(* The proofs of SPReconciler are taken over with InstView for inst, as    *)
(* PR.  A step of the operator is for the WSO2SP controller one of its own *)
(* (PR!Next) or one of its surroundings (PR!Outer), and for the            *)
(* WSO2ISInstance controller one of its own (ISNext) or a restart.         *)
(***************************************************************************)
EXTENDS Operator, InstanceReconcilerProofs

PR == INSTANCE SPStatusProofs WITH inst <- InstView

------------------------------------------------------------------------------
(* SP and PR are two names of one module: the definitions behind them agree. *)

\* The assumptions that the proofs rest on.
LEMMA SameAssumptions ==
    /\ SP!SPSpec = PR!SPSpec /\ SP!Components = PR!Components
    /\ SP!OAuthCfg = PR!OAuthCfg /\ SP!Metadata = PR!Metadata
    /\ SP!Kinds = PR!Kinds
BY DEF SP!SPSpec, PR!SPSpec, SP!Components, PR!Components, SP!OAuthCfg,
       PR!OAuthCfg, SP!Metadata, PR!Metadata, SP!Kinds, PR!Kinds, SP!AppCfg,
       PR!AppCfg, SP!SamlModes, PR!SamlModes

LEMMA ProofAssumptions ==
    /\ Bare \in Bodies
    /\ Specs \subseteq PR!SPSpec /\ Specs # {}
    /\ Skips \subseteq SUBSET PR!Components
    /\ None \notin SPs \cup Issuers \cup AcsLists \cup PR!OAuthCfg \cup PR!Metadata
    /\ KeepsBlank \in BOOLEAN
    /\ Budget \in [PR!Kinds -> Nat] /\ MaxIssued \in Nat
BY SameAssumptions, ControllerAssumption

\* The steps that Operator takes from the WSO2SP controller.
LEMMA SameSteps ==
    /\ SP!Init <=> PR!Init
    /\ \A s \in SPs : /\ SP!Begin(s) <=> PR!Begin(s)
                      /\ SP!Deliver(s) <=> PR!Deliver(s)
                      /\ SP!SecretDeliver(s) <=> PR!SecretDeliver(s)
                      /\ SP!Wake(s) <=> PR!Wake(s)
    /\ SP!JobStep <=> PR!JobStep
    /\ SP!Users <=> PR!Users
    /\ SP!Restart <=> PR!Restart
    /\ SP!Spend("crash") <=> PR!Spend("crash")
    /\ SP!Goto("rmFin") <=> PR!Goto("rmFin")
    /\ SP!Requeue <=> PR!Requeue
    /\ SP!Fail <=> PR!Fail
<1> USE DEF
      SP!InstStates, PR!InstStates, SP!Failures, PR!Failures, SP!AppCfg,
      PR!AppCfg, SP!OAuthCfg, PR!OAuthCfg, SP!Metadata, PR!Metadata,
      SP!NoStatus, PR!NoStatus, SP!NewSP, PR!NewSP, SP!Gone, PR!Gone,
      SP!NoSecret, PR!NoSecret, SP!SkipReconcile, PR!SkipReconcile,
      SP!Defaulted, PR!Defaulted, SP!Updated, PR!Updated, SP!StatusPatch,
      PR!StatusPatch, SP!BareCfg, PR!BareCfg, SP!NoApp, PR!NoApp, SP!NoOAuth,
      PR!NoOAuth, SP!Sent, PR!Sent, SP!ReadBack, PR!ReadBack,
      SP!OAuth2HasChanged, PR!OAuth2HasChanged, SP!AppHasChanged,
      PR!AppHasChanged, SP!InboundKey, PR!InboundKey, SP!InboundIssuer,
      PR!InboundIssuer, SP!Applied, PR!Applied, SP!Kinds, PR!Kinds, SP!kube,
      PR!kube, SP!env, PR!env, SP!secrets, PR!secrets, SP!control, PR!control,
      SP!remote, PR!remote, SP!OAuthSteps, PR!OAuthSteps, SP!SamlSteps,
      PR!SamlSteps, SP!AdminSteps, PR!AdminSteps, SP!Parts, PR!Parts,
      SP!AppSteps, PR!AppSteps, SP!Idle, PR!Idle, SP!Init, PR!Init, SP!Spend,
      PR!Spend, SP!Done, PR!Done, SP!Requeue, PR!Requeue, SP!Goto, PR!Goto,
      SP!SetPhase, PR!SetPhase, SP!Fail, PR!Fail, SP!Snapshot, PR!Snapshot,
      SP!Take, PR!Take, SP!Start, PR!Start, SP!AfterOAuth, PR!AfterOAuth,
      SP!FirstStep, PR!FirstStep, SP!ReconcileGone, PR!ReconcileGone,
      SP!ReconcilePaused, PR!ReconcilePaused, SP!Served, PR!Served,
      SP!ReconcileNotReady, PR!ReconcileNotReady, SP!ReconcileDelete,
      PR!ReconcileDelete, SP!ReconcileFinalize, PR!ReconcileFinalize,
      SP!ReconcileApply, PR!ReconcileApply, SP!Begin, PR!Begin, SP!Put, PR!Put,
      SP!Update, PR!Update, SP!Patch, PR!Patch, SP!PatchCall, PR!PatchCall,
      SP!WriteFrame, PR!WriteFrame, SP!GoOn, PR!GoOn, SP!Swallowed,
      PR!Swallowed, SP!SetPhaseWrite, PR!SetPhaseWrite, SP!PauseWrite,
      PR!PauseWrite, SP!AddFinalizer, PR!AddFinalizer, SP!RemoveFinalizer,
      PR!RemoveFinalizer, SP!PatchPending, PR!PatchPending, SP!PatchReady,
      PR!PatchReady, SP!UpsertSecret, PR!UpsertSecret, SP!OAuthSecret,
      PR!OAuthSecret, SP!SamlSecret, PR!SamlSecret, SP!CallFrame, PR!CallFrame,
      SP!Reads, PR!Reads, SP!Call, PR!Call, SP!Refused, PR!Refused, SP!Wanted,
      PR!Wanted, SP!DropApp, PR!DropApp, SP!OAuthGet, PR!OAuthGet,
      SP!OAuthCreate, PR!OAuthCreate, SP!OAuthUpdate, PR!OAuthUpdate,
      SP!SamlGet, PR!SamlGet, SP!AddSaml, PR!AddSaml, SP!SamlCreate,
      PR!SamlCreate, SP!SamlDelete, PR!SamlDelete, SP!SamlReadd, PR!SamlReadd,
      SP!InSync, PR!InSync, SP!AppGet, PR!AppGet, SP!AppCreate, PR!AppCreate,
      SP!UpdateId, PR!UpdateId, SP!Targets, PR!Targets, SP!AppUpdate,
      PR!AppUpdate, SP!AdminGet, PR!AdminGet, SP!AdminJoin, PR!AdminJoin,
      SP!DelApp, PR!DelApp, SP!JobStep, PR!JobStep, SP!UserWrite, PR!UserWrite,
      SP!CreateSP, PR!CreateSP, SP!EditSpec, PR!EditSpec, SP!Annotate,
      PR!Annotate, SP!DeleteSP, PR!DeleteSP, SP!MetadataChange,
      PR!MetadataChange, SP!AppDrift, PR!AppDrift, SP!AppRemoval,
      PR!AppRemoval, SP!SecretRemoved, PR!SecretRemoved, SP!Deliver,
      PR!Deliver, SP!SecretDeliver, PR!SecretDeliver, SP!Wake, PR!Wake,
      SP!Restart, PR!Restart, SP!Users, PR!Users
<1>1. SP!Init <=> PR!Init
  BY Zenon
<1>2. ASSUME NEW s \in SPs PROVE SP!Begin(s) <=> PR!Begin(s)
  BY Zenon
<1>3. ASSUME NEW s \in SPs
      PROVE  /\ SP!Deliver(s) <=> PR!Deliver(s)
             /\ SP!SecretDeliver(s) <=> PR!SecretDeliver(s)
             /\ SP!Wake(s) <=> PR!Wake(s)
  BY Zenon
<1>4. SP!JobStep <=> PR!JobStep
  BY Zenon
<1>5. SP!Users <=> PR!Users
  BY Zenon
<1>6. /\ SP!Restart <=> PR!Restart
      /\ SP!Spend("crash") <=> PR!Spend("crash")
      /\ SP!Goto("rmFin") <=> PR!Goto("rmFin")
      /\ SP!Requeue <=> PR!Requeue
      /\ SP!Fail <=> PR!Fail
  BY Zenon
<1> QED
  BY <1>1, <1>2, <1>3, <1>4, <1>5, <1>6

\* The properties of it.
LEMMA SamePromises ==
    SPPromises <=> PR!FinalizerGuardsRemote /\ PR!ReadyHasId /\ PR!NoLostWakeup
BY Zenon
   DEF SPPromises,
       SP!FinalizerGuardsRemote, PR!FinalizerGuardsRemote, SP!ReadyHasId,
       PR!ReadyHasId, SP!NoLostWakeup, PR!NoLostWakeup, SP!StaysAwake,
       PR!StaysAwake, SP!SkipReconcile, PR!SkipReconcile, SP!AppSteps,
       PR!AppSteps, SP!Parts, PR!Parts, SP!OAuthSteps, PR!OAuthSteps,
       SP!SamlSteps, PR!SamlSteps, SP!AdminSteps, PR!AdminSteps

\* The properties that the history of a reconciliation is about, and those of
\* steps.
LEMMA SameProperties ==
    /\ SP!InboundBeforeReady <=> PR!InboundBeforeReady
    /\ SP!StatusNamesItsApplication <=> PR!StatusNamesItsApplication
    /\ \A s \in SPs : SP!Released(s) <=> PR!Released(s)
    /\ \A s \in SPs : SP!KnownByName(s) <=> PR!KnownByName(s)
    /\ \A s \in SPs : SP!Preserved(s) <=> PR!Preserved(s)
<1>1. SP!InboundBeforeReady <=> PR!InboundBeforeReady
  BY Zenon
     DEF SP!InboundBeforeReady, PR!InboundBeforeReady, SP!InboundServed,
         PR!InboundServed, SP!Wanted, PR!Wanted, SP!SkipReconcile, PR!SkipReconcile
<1>2. SP!StatusNamesItsApplication <=> PR!StatusNamesItsApplication
  BY Zenon
     DEF SP!StatusNamesItsApplication, PR!StatusNamesItsApplication, SP!Alone,
         PR!Alone, SP!UpdateId, PR!UpdateId, SP!IdIsTrue, PR!IdIsTrue,
         SP!AdminIsTrue, PR!AdminIsTrue
<1>3. /\ \A s \in SPs : SP!Released(s) <=> PR!Released(s)
      /\ \A s \in SPs : SP!KnownByName(s) <=> PR!KnownByName(s)
  BY Zenon DEF SP!Released, PR!Released, SP!KnownByName, PR!KnownByName
<1>4. \A s \in SPs : SP!Preserved(s) <=> PR!Preserved(s)
  BY Zenon DEF SP!Preserved, PR!Preserved, SP!Defaulted, PR!Defaulted
<1> QED
  BY <1>1, <1>2, <1>3, <1>4

\* The abstract specification.
LEMMA SameOwnership ==
    /\ SP!AO!AInit <=> PR!AO!AInit
    /\ SP!AO!ANext <=> PR!AO!ANext
BY Zenon
   DEF
       SP!Stage, PR!Stage, SP!InHand, PR!InHand, SP!AppSteps, PR!AppSteps,
       SP!Parts, PR!Parts, SP!OAuthSteps, PR!OAuthSteps, SP!SamlSteps,
       PR!SamlSteps, SP!AdminSteps, PR!AdminSteps, SP!Failures, PR!Failures,
       SP!AO!AInit, PR!AO!AInit, SP!AO!ANext, PR!AO!ANext, SP!AO!Moves,
       PR!AO!Moves, SP!AO!Keeps, PR!AO!Keeps, SP!AO!Create, PR!AO!Create,
       SP!AO!Guard, PR!AO!Guard, SP!AO!Close, PR!AO!Close, SP!AO!Abandon,
       PR!AO!Abandon, SP!AO!Release, PR!AO!Release, SP!AO!Engage, PR!AO!Engage,
       SP!AO!Serve, PR!AO!Serve, SP!AO!Report, PR!AO!Report, SP!AO!Demote,
       PR!AO!Demote, SP!AO!Vanish, PR!AO!Vanish

------------------------------------------------------------------------------
(* The steps of the operator, as each of the two controllers sees them *)

LEMMA ViewKept == UNCHANGED isvars => UNCHANGED InstView
BY DEF isvars, isobjects, isworld, InstView

\* A call that the server refuses.
LEMMA RefusedIsRefusal == ASSUME SPRefused PROVE PR!Refusal
<1>1. job.pc \in (PR!AppSteps \cap PR!Failures) \cup {"delApp"}
  BY DEF SPRefused, Calls, PR!AppSteps, PR!Parts, PR!OAuthSteps, PR!SamlSteps,
         PR!AdminSteps, PR!Failures
<1>2. IF job.pc = "delApp" THEN PR!Goto("rmFin") ELSE PR!Requeue \/ PR!Fail
  <2>1. CASE job.pc = "delApp"
    BY <2>1, SameSteps DEF SPRefused
  <2>2. CASE job.pc = "oauthGet" /\ server[client.url] = "down"
    BY <2>2, SameSteps DEF SPRefused
  <2>3. CASE ~(job.pc = "delApp" \/ (job.pc = "oauthGet" /\ server[client.url] = "down"))
    BY <2>3, SameSteps DEF SPRefused
  <2> QED
    BY <2>1, <2>2, <2>3
<1>3. PR!CallFrame /\ UNCHANGED <<PR!remote, left>>
  BY ViewKept DEF SPRefused, PR!CallFrame, PR!kube, PR!env, PR!secrets, PR!remote
<1> QED
  BY <1>1, <1>2, <1>3 DEF PR!Refusal

LEMMA ControllerSteps ==
    ASSUME [OpNext]_opvars
    PROVE  [PR!Next]_(PR!vars) \/ PR!Outer
<1>1. ASSUME NEW s \in SPs, SPBegin(s) \/ SPDeliver(s) \/ SPSecretDeliver(s) \/ SPWake(s)
      PROVE  PR!Next
  BY <1>1, SameSteps DEF SPBegin, SPDeliver, SPSecretDeliver, SPWake, PR!Next
<1>2. CASE SPStep \/ SPUsers
  BY <1>2, SameSteps DEF SPStep, SPUsers, PR!Next, PR!Environment
<1>3. CASE SPRefused
  BY <1>3, RefusedIsRefusal DEF PR!Outer
<1>4. CASE Aside(ISMachinery) \/ Aside(ISUsers)
  <2>1. UNCHANGED spvars /\ InstView' \in PR!InstStates
    BY <1>4 DEF Aside, InstView, PR!InstStates
  <2> QED
    BY <2>1
       DEF spvars, PR!Outer, PR!Sight, PR!kube, PR!secrets, PR!control, PR!remote
<1>5. CASE OpCrash
  <2>1. InstView' \in PR!InstStates
    BY DEF InstView, PR!InstStates
  <2> QED
    BY <1>5, <2>1, SameSteps DEF OpCrash, PR!Outer, PR!Stop
<1>6. CASE UNCHANGED opvars
  BY <1>6, ViewKept
     DEF opvars, spvars, PR!vars, PR!kube, PR!env, PR!secrets, PR!control, PR!remote
<1> QED
  BY <1>1, <1>2, <1>3, <1>4, <1>5, <1>6 DEF OpNext

LEMMA InstanceParts ==
    ASSUME [OpNext]_opvars
    PROVE  [ISNext]_isvars \/ (ISRestart /\ UNCHANGED isleft)
<1>1. CASE \E s \in SPs : SPBegin(s) \/ SPDeliver(s) \/ SPSecretDeliver(s) \/ SPWake(s)
  BY <1>1 DEF SPBegin, SPDeliver, SPSecretDeliver, SPWake
<1>2. CASE SPStep \/ SPRefused \/ SPUsers
  BY <1>2 DEF SPStep, SPRefused, SPUsers
<1>3. CASE Aside(ISMachinery) \/ Aside(ISUsers)
  BY <1>3 DEF Aside, ISNext
<1>4. CASE OpCrash
  BY <1>4 DEF OpCrash
<1> QED
  BY <1>1, <1>2, <1>3, <1>4 DEF OpNext, opvars

\* The history begins and ends with the job, and a call that is refused goes
\* down in it.
LEMMA History ==
    ASSUME PR!TypeInv, refused \in BOOLEAN, refused => job.pc # "idle", [OpNext]_opvars
    PROVE  /\ refused' \in BOOLEAN
           /\ refused' => job'.pc # "idle"
           /\ \/ job'.pc = "idle" \/ refused'
              \/ ~refused /\ ([PR!Next]_(PR!vars) \/ PR!Sight)
<1> DEFINE Kept == /\ refused' \in BOOLEAN
                   /\ refused' => job'.pc # "idle"
                   /\ \/ job'.pc = "idle" \/ refused'
                      \/ ~refused /\ ([PR!Next]_(PR!vars) \/ PR!Sight)
<1> SUFFICES Kept
  OBVIOUS
<1>1. ASSUME NEW s \in SPs, SPBegin(s) PROVE Kept
  BY <1>1, SameSteps DEF SPBegin, PR!Next
<1>2. CASE SPStep
  <2>1. PR!Next
    BY <1>2, SameSteps DEF SPStep, PR!Next
  <2> QED
    BY <1>2, <2>1 DEF SPStep, KeepsClient
<1>3. CASE SPRefused
  BY <1>3 DEF SPRefused, KeepsClient
<1>4. CASE SPUsers \/ \E s \in SPs : SPDeliver(s) \/ SPSecretDeliver(s) \/ SPWake(s)
  <2>1. UNCHANGED refused /\ PR!Next
    BY <1>4, SameSteps
       DEF SPUsers, SPDeliver, SPSecretDeliver, SPWake, PR!Next, PR!Environment
  <2>2. job'.pc = job.pc
    BY <1>4, SameSteps, ProofAssumptions, PR!JobStays
       DEF SPUsers, SPDeliver, SPSecretDeliver, SPWake
  <2> QED
    BY <2>1, <2>2
<1>5. CASE Aside(ISMachinery) \/ Aside(ISUsers) \/ UNCHANGED opvars
  <2>1. UNCHANGED <<spvars, refused>> /\ InstView' \in PR!InstStates
    BY <1>5 DEF Aside, opvars, InstView, PR!InstStates
  <2>2. PR!Sight /\ UNCHANGED <<job, refused>>
    BY <2>1 DEF spvars, PR!Sight, PR!kube, PR!secrets, PR!control, PR!remote
  <2> QED
    BY <2>2
<1>6. CASE OpCrash
  <2>1. ~refused' /\ refused' \in BOOLEAN /\ job' = PR!Idle
    BY <1>6, SameSteps DEF OpCrash, PR!Restart
  <2> QED
    BY <2>1 DEF PR!Idle
<1> HIDE DEF Kept
<1> QED
  BY <1>1, <1>2, <1>3, <1>4, <1>5, <1>6 DEF OpNext

------------------------------------------------------------------------------
(* The invariant: what is invariant of each of the two alone, and what the job *)
(* has achieved as long as no server refused it a call                         *)

OpHistory ==
    /\ refused \in BOOLEAN
    /\ refused => job.pc # "idle"
    /\ ~refused /\ left["remote"] = Budget["remote"] => PR!Dropped
    /\ ~refused /\ PR!Untouched => (PR!AtWork /\ PR!Spared => PR!PartsServed)

OpInv == /\ ISInv /\ InstancePromises
         /\ PR!OwnInv /\ PR!StatusInv /\ PR!AwakeInv /\ PR!KeyInJob
         /\ OpHistory

\* An idle controller has achieved nothing, and promises nothing.
LEMMA NothingIdle ==
    /\ job.pc = "idle" => PR!Dropped /\ ~PR!AtWork /\ PR!KeyInJob
    /\ job'.pc = "idle" => PR!Dropped' /\ ~PR!AtWork'
BY ProofAssumptions, PR!ServedSteps DEF PR!Dropped, PR!AtWork, PR!KeyInJob

LEMMA OpInvInit == OpInit => OpInv
<1> SUFFICES ASSUME OpInit PROVE OpInv
  OBVIOUS
<1>1. PR!Init /\ ~refused /\ refused \in BOOLEAN
  BY SameSteps DEF OpInit
<1>2. job.pc = "idle"
  BY <1>1 DEF PR!Init, PR!Idle
<1> QED
  BY <1>1, <1>2, NothingIdle, ISInvInit, PromisesInit, ProofAssumptions, PR!OwnInit,
     PR!AwakeInit, PR!FollowsInit, PR!BareInit, PR!FitsInit
     DEF OpInit, OpInv, OpHistory, InstancePromises, PR!StatusInv

\* What the budget says of a step of the controller, or of another sight.
LEMMA CleanBudget ==
    ASSUME PR!TypeInv, PR!BudgetKept, [PR!Next]_(PR!vars) \/ PR!Sight
    PROVE  \A k \in {"remote", "drift"} :
               left'[k] = Budget[k] =>
                   left[k] = Budget[k] /\ ([PR!Next]_(PR!vars) => ~PR!Spend(k))
<1>1. CASE [PR!Next]_(PR!vars)
  BY <1>1, ProofAssumptions, PR!StepBudget DEF PR!Kinds
<1>2. CASE PR!Sight /\ ~[PR!Next]_(PR!vars)
  BY <1>2 DEF PR!Sight
<1> QED
  BY <1>1, <1>2

LEMMA HistoryNext == ASSUME OpInv, [OpNext]_opvars PROVE OpHistory'
<1> DEFINE Clean == ~refused /\ ([PR!Next]_(PR!vars) \/ PR!Sight)
<1>1. PR!CoreInv /\ PR!TypeInv /\ PR!BudgetKept /\ PR!KeyInJob /\ OpHistory
  BY DEF OpInv, PR!OwnInv, PR!CoreInv, PR!AwakeInv
<1>2. /\ refused' \in BOOLEAN
      /\ refused' => job'.pc # "idle"
      /\ job'.pc = "idle" \/ refused' \/ Clean
  BY <1>1, History DEF OpHistory
<1>3. ASSUME Clean, left'["remote"] = Budget["remote"] PROVE PR!Dropped'
  <2>1. PR!Dropped /\ ([PR!Next]_(PR!vars) => ~PR!Spend("remote"))
    BY <1>1, <1>3, CleanBudget DEF OpHistory
  <2> QED
    BY <1>1, <1>3, <2>1, ProofAssumptions, PR!DroppedNext, PR!SightKeeps
<1>4. ASSUME Clean, PR!Untouched' PROVE PR!AtWork' /\ PR!Spared' => PR!PartsServed'
  <2>1. /\ PR!AtWork /\ PR!Spared => PR!PartsServed
        /\ [PR!Next]_(PR!vars) => ~PR!Spend("remote") /\ ~PR!Spend("drift")
    BY <1>1, <1>4, CleanBudget DEF OpHistory, PR!Untouched
  <2> QED
    BY <1>1, <1>4, <2>1, ProofAssumptions, PR!ServedNext, PR!SightKeeps
<1> QED
  BY <1>2, <1>3, <1>4, NothingIdle DEF OpHistory

LEMMA OpInvNext == OpInv /\ [OpNext]_opvars => OpInv'
<1> SUFFICES ASSUME OpInv, [OpNext]_opvars PROVE OpInv'
  OBVIOUS
<1>1. ISInv' /\ InstancePromises'
  <2>1. CASE [ISNext]_isvars
    BY <2>1, ISInvStep, ObservedStep, ForgottenStep, PursuedStep
       DEF OpInv, InstancePromises
  <2>2. CASE ISRestart /\ UNCHANGED isleft
    <3>1. isleft' \in [ISKinds -> Nat]
      BY <2>2 DEF OpInv, ISInv, ISTypeOK
    <3> QED
      BY <2>2, <3>1, RestartKeeps, PromisesRestart DEF OpInv, InstancePromises
  <2> QED
    BY <2>1, <2>2, InstanceParts
<1>2. PR!OwnInv'
  BY ControllerSteps, ProofAssumptions, PR!OwnNext, PR!OuterOwn DEF OpInv
<1>3. PR!StatusInv'
  BY ControllerSteps, ProofAssumptions, PR!StatusNext, PR!OuterStatus
     DEF OpInv, PR!AwakeInv
<1>4. PR!AwakeInv'
  BY ControllerSteps, ProofAssumptions, PR!AwakeNext, PR!OuterAwake
     DEF OpInv, PR!OwnInv
<1>5. PR!KeyInJob'
  <2>1. PR!SecretInv
    BY DEF OpInv, PR!OwnInv, PR!CoreInv, PR!SecretInv
  <2> QED
    BY <2>1, ControllerSteps, ProofAssumptions, PR!KeyNext, PR!OuterKey
<1> QED
  BY <1>1, <1>2, <1>3, <1>4, <1>5, HistoryNext DEF OpInv

\* The invariant, in every behaviour.
LEMMA OpInvariant == OpSpec => []OpInv
BY OpInvInit, OpInvNext, PTL DEF OpSpec

------------------------------------------------------------------------------
(* The theorems *)

\* Beside the WSO2SP controller, and with restarts of the process that nothing
\* of its own counts, the WSO2ISInstance controller records Ready of the
\* current spec only, and leaves no instance and no outdated status behind
\* (Reconcile, setPhaseNoRequeue, cmd/main.go).
THEOREM InstanceSideHolds == OpSpec => []InstancePromises
<1>1. OpInv => InstancePromises
  BY DEF OpInv
<1> QED
  BY <1>1, OpInvariant, PTL

\* Whatever buildClient sees of the instance, and however many calls the server
\* refuses, the WSO2SP controller calls it only for objects with finalizer,
\* records Ready only with an ID, and forgets no object.
THEOREM ControllerSideHolds == OpSpec => []SPPromises
<1>1. OpInv => SPPromises
  BY SamePromises
     DEF OpInv, PR!OwnInv, PR!AwakeInv, PR!CoreInv, PR!FinalizerAtWork, PR!AtWork,
         PR!FinalizerGuardsRemote, PR!IdInv, PR!IdKept, PR!IdIfReady, PR!ReadyHasId
<1> QED
  BY <1>1, OpInvariant, PTL

\* The operator implements AppOwnership: what is shown of the WSO2SP controller
\* with a budget of failed calls and changes of the instance holds of it in the
\* operator, where the instance and its server decide (Reconcile, doSOAP).
THEOREM OperatorOwns == OpSpec => OwnershipInOperator
<1>1. OpInit => SP!AO!AInit
  BY SameSteps, SameOwnership, ProofAssumptions, PR!RefinesInit DEF OpInit
<1>2. OpInv /\ [OpNext]_opvars => [SP!AO!ANext]_(SP!AO!avars)
  BY ControllerSteps, SameOwnership, ProofAssumptions, PR!RefinesNext, PR!OuterRefines
     DEF OpInv
<1> QED
  BY <1>1, <1>2, OpInvariant, PTL
     DEF OpSpec, OwnershipInOperator, SP!Ownership, SP!AO!ASpec

\* The server may refuse any call, at any time: unless it refused one of this very
\* reconciliation, the inbound protocols are served before Ready, as long as nobody
\* interfered and no Secret of a predecessor is collected meanwhile.  So what a
\* reconciliation that was cut short leaves behind misleads none that follows
\* (reconcileApplicationOAuth2, reconcileSAMLApplication, doSOAP).
THEOREM OperatorServesFirst == OpSpec => []InboundInOperator
<1>1. OpInv => InboundInOperator
  <2>1. "patchReady" \in PR!OAuthPast /\ "patchReady" \in PR!SamlPast
        /\ "patchReady" \in PR!AppSteps
    BY ProofAssumptions, PR!ServedSteps
  <2> QED
    BY <2>1, SameProperties
       DEF OpInv, OpHistory, InboundInOperator, PR!InboundBeforeReady,
           PR!InboundServed, PR!Untouched, PR!Spared, PR!PartsServed, PR!AtWork, PR!At,
           PR!OAuthDue, PR!SamlDue
<1> QED
  BY <1>1, OpInvariant, PTL

\* The same of the deletion: unless the server refused this very reconciliation
\* to delete it, an object with an ID in its status outlives the application that
\* spec.name names, and the one with that ID as long as that is its name
\* (handleDelete, RemoveFinalizer).
THEOREM OperatorDeletesFirst == OpSpec => DeletionInOperator
<1>1. ASSUME OpInv, [OpNext]_opvars, ~refused, left["remote"] = Budget["remote"],
             NEW s \in SPs, SP!Released(s), sps[s].st.id # 0
      PROVE  /\ apps'[sps[s].spec.name].id = 0
             /\ SP!KnownByName(s) => \A n \in Names : apps'[n].id # sps[s].st.id
  <2>1. PR!Released(s) /\ PR!CoreInv /\ PR!Dropped
    BY <1>1, SameProperties DEF OpInv, OpHistory, PR!OwnInv
  <2>2. ~PR!Outer
    BY <2>1, ProofAssumptions, PR!OuterLeaves DEF PR!Released
  <2>3. /\ apps'[sps[s].spec.name].id = 0
        /\ PR!KnownByName(s) => \A n \in Names : apps'[n].id # sps[s].st.id
    BY <1>1, <2>1, <2>2, ControllerSteps, ProofAssumptions, PR!DroppedRelease
  <2> QED
    BY <2>3, SameProperties
<1>2. OpInv /\ [OpNext]_opvars =>
          [~refused /\ left["remote"] = Budget["remote"] =>
              \A s \in SPs : SP!Released(s) /\ sps[s].st.id # 0 =>
                  /\ apps'[sps[s].spec.name].id = 0
                  /\ SP!KnownByName(s) =>
                        \A n \in Names : apps'[n].id # sps[s].st.id]_opvars
  BY <1>1
<1> QED
  BY <1>2, OpInvariant, PTL DEF OpSpec, DeletionInOperator

\* Beside another controller, behind a server that comes and goes: no write of the
\* WSO2SP controller undoes what users wrote, but for pkcePlain, which the one that
\* puts the finalizer on turns on; and no object goes away that they did not delete
\* (AddFinalizer, RemoveFinalizer, setPhase).
THEOREM OperatorPreservesIntent == OpSpec => SP!ControllerPreservesIntent
<1>1. ASSUME OpInv, [OpNext]_opvars, left'["edit"] = left["edit"],
             NEW s \in SPs, sps[s].live
      PROVE  SP!Preserved(s)
  <2>1. CASE [PR!Next]_(PR!vars)
    BY <1>1, <2>1, SameProperties, ProofAssumptions, PR!IntentNext DEF OpInv, PR!OwnInv
  <2>2. CASE PR!Outer
    BY <1>1, <2>2, PR!OuterLeaves, ProofAssumptions DEF SP!Preserved
  <2> QED
    BY <1>1, <2>1, <2>2, ControllerSteps
<1>2. OpInv /\ [OpNext]_opvars =>
          [left'["edit"] = left["edit"] =>
              \A s \in SPs : sps[s].live => SP!Preserved(s)]_(SP!vars)
  BY <1>1
<1> QED
  BY <1>2, OpInvariant, PTL DEF OpSpec, SP!ControllerPreservesIntent

\* And serving one protocol never takes the entry of the other out of the Secret
\* that both share, wherever the server broke off (upsertApplicationSecret).
THEOREM OperatorKeepsEntries == OpSpec => SP!SecretKeepsEntries
<1>1. ASSUME OpInv, [OpNext]_opvars PROVE PR!EntriesKept
  <2>1. PR!SecretInv
    BY <1>1 DEF OpInv, PR!OwnInv, PR!CoreInv, PR!SecretInv
  <2>2. CASE [PR!Next]_(PR!vars)
    BY <2>1, <2>2, ProofAssumptions, PR!EntriesNext
  <2>3. CASE PR!Outer
    BY <2>3, ProofAssumptions, PR!OuterLeaves DEF PR!EntriesKept
  <2> QED
    BY <1>1, <2>2, <2>3, ControllerSteps
<1>2. OpInv /\ [OpNext]_opvars =>
          [\A s \in SPs : secret[s].live /\ secret'[s].live =>
              /\ secret[s].okey # 0 => secret'[s].okey # 0
              /\ secret[s].issuer # None => secret'[s].issuer # None]_(SP!vars)
  BY <1>1 DEF PR!EntriesKept
<1> QED
  BY <1>2, OpInvariant, PTL DEF OpSpec, SP!SecretKeepsEntries

\* A call that is refused, in whatever step, and a restart after it leave no
\* status behind with the ID of another application than the one there is, nor with
\* AdminCanView when the administrators may not see it, as long as there is one
\* object and one name and nobody else removes applications; only an object that is
\* being deleted may keep the ID of an application that is gone
\* (reconcileApplication, reconcileAdminAccess, handleDelete).
THEOREM OperatorNamesItsApplication == OpSpec => []SP!StatusNamesItsApplication
<1>1. OpInv => SP!StatusNamesItsApplication
  BY SameProperties, ProofAssumptions, PR!StatusNames DEF OpInv
<1> QED
  BY <1>1, OpInvariant, PTL
==============================================================================
