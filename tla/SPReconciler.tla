---------------------------- MODULE SPReconciler ----------------------------
(***************************************************************************)
(* The WSO2SP controller: WSO2SPReconciler.Reconcile and everything it     *)
(* calls, between a Kubernetes API it reads through an informer cache and  *)
(* a WSO2 Identity Server it drives over SOAP, REST and SCIM.              *)
(*                                                                         *)
(* One worker runs one reconciliation (job) at a time.  A reconciliation   *)
(* is cut at every write to the API and at every call of the server, so    *)
(* that users, administrators, the informer and a crash act in between;    *)
(* what it computes between two calls belongs to the step of the first.    *)
(***************************************************************************)
EXTENDS WSO2SPTypes, Sequences

CONSTANTS
    Budget,    \* how often each kind of disturbance may happen
    MaxIssued  \* how many ids and keys the server can give out

\* edit: users' writes; drift: changes made outside of the operator; removal:
\* applications removed there; inst: the phase of the instance; remote, api:
\* calls that fail; crash: restarts.
Kinds == {"edit", "drift", "removal", "inst", "remote", "api", "crash"}

ASSUME BudgetAssumption == Budget \in [Kinds -> Nat] /\ MaxIssued \in Nat

VARIABLES
    sps,      \* WSO2SP objects, as the API server has them
    cache,    \* ... as the informer last delivered them
    pending,  \* ... the versions between, not yet delivered
    inst,     \* buildClient's view of the WSO2ISInstance and its credentials
    md,       \* the SAML metadata each metadataURL serves
    secret,   \* the <name>-inbound Secrets
    seen,     \* ... as the informer last delivered them
    legacy,   \* ... and what became of those of deleted predecessors
    queue,    \* keys in the work queue
    delayed,  \* keys waiting for RequeueAfter or for the error backoff
    job,      \* the reconciliation that runs
    apps,     \* applications of the identity server
    oauth,    \* its OAuth consumer applications
    saml,     \* its SAML service providers
    issued,   \* how many ids and keys the server gave out
    left      \* what is left of Budget

kube    == <<sps, cache, pending>>
env     == <<inst, md>>
secrets == <<secret, seen, legacy>>
control == <<queue, delayed, job>>
remote  == <<apps, oauth, saml, issued>>
vars    == <<kube, env, secrets, control, remote, left>>

OAuthSteps == {"oauthGet", "oauthCreate", "oauthSecret", "oauthUpdate"}
SamlSteps  == {"samlGet", "samlCreate", "samlSecret", "samlDelete", "samlReadd"}
AdminSteps == {"adminGet", "adminJoin"}
Parts      == OAuthSteps \cup SamlSteps \cup AdminSteps
AppSteps   == Parts \cup
              {"appGet", "appCreate", "patchPending", "appUpdate", "patchReady"}
Steps      == AppSteps \cup
              {"idle", "pause", "setPhase", "addFin", "delApp", "rmFin"}

\* copy is the object as Get returned it, mem the status in memory, base the
\* one that patches are computed from, current whether the API server still
\* has that version of the object; ref, dirty and meta are what a call
\* returned and a later one needs.
Job == [pc : Steps, sp : SPs \cup {None}, copy : SPObject, mem : Status,
        base : Status, current : BOOLEAN, ref : Nat, dirty : BOOLEAN,
        meta : Metadata \cup {None}]

Idle == [pc |-> "idle", sp |-> None, copy |-> Gone, mem |-> NoStatus,
         base |-> NoStatus, current |-> FALSE, ref |-> 0, dirty |-> FALSE,
         meta |-> None]

\* An object may find the Secret of a predecessor that had its name, until the
\* garbage collector takes it; "collected" lasts as long as a reconciliation
\* that may have seen it goes on.
Legacies == {"none", "inherited", "collected"}

KubeOK    == /\ sps \in [SPs -> SPObject] /\ cache \in [SPs -> SPObject]
             /\ pending \in [SPs -> Seq(SPObject)]
EnvOK     == inst \in InstStates /\ md \in [SPs -> Metadata]
SecretsOK == /\ secret \in [SPs -> Secret] /\ seen \in [SPs -> Secret]
             /\ legacy \in [SPs -> Legacies]
ControlOK == queue \subseteq SPs /\ delayed \subseteq SPs /\ job \in Job
RemoteOK  == /\ apps \in [Names -> App] /\ oauth \in [Names -> OAuthRecord]
             /\ saml \in [Issuers -> AcsLists \cup {None}] /\ issued \in Nat

TypeOK == /\ KubeOK /\ EnvOK /\ SecretsOK /\ ControlOK /\ RemoteOK
          /\ left \in [Kinds -> Nat]

Init ==
    /\ sps = [s \in SPs |-> Gone] /\ cache = sps
    /\ pending = [s \in SPs |-> <<>>]
    /\ inst \in InstStates /\ md \in [SPs -> Metadata]
    /\ secret = [s \in SPs |-> NoSecret] /\ seen = secret
    /\ legacy = [s \in SPs |-> "none"]
    /\ queue = {} /\ delayed = {} /\ job = Idle
    /\ apps = [n \in Names |-> NoApp] /\ oauth = [n \in Names |-> NoOAuth]
    /\ saml = [i \in Issuers |-> None] /\ issued = 0
    /\ left = Budget

Spend(k) == left[k] > 0 /\ left' = [left EXCEPT ![k] = @ - 1]

------------------------------------------------------------------------------
(* Ends of a reconciliation *)

\* return ctrl.Result{}, nil
Done == job' = Idle /\ UNCHANGED delayed

\* return ctrl.Result{RequeueAfter: d}, nil, or an error, or a panic
Requeue == job' = Idle /\ delayed' = delayed \cup {job.sp}

Goto(pc) == job' = [job EXCEPT !.pc = pc] /\ UNCHANGED delayed

\* setPhase up to its Status().Update; an unchanged phase and message end it.
MutSetPhase(j, phase, why) ==
    \/ /\ job' = [j EXCEPT !.pc = "setPhase",
                           !.mem.phase = phase, !.mem.why = why]
       /\ UNCHANGED delayed
    \/ /\ j.mem.phase = phase /\ j.mem.why = why
       /\ job' = Idle /\ UNCHANGED delayed
SetPhase(j, phase, why) ==
    \/ /\ job' = [j EXCEPT !.pc = "setPhase",
                           !.mem.phase = phase, !.mem.why = why]
       /\ UNCHANGED delayed
    \/ /\ j.mem.phase = phase /\ j.mem.why = why
       /\ job' = Idle /\ delayed' = delayed \cup {j.sp}

Fail == SetPhase(job, "Failed", job.pc)

------------------------------------------------------------------------------
(* Reconcile up to its first write: the object comes from the cache, and so *)
(* does the instance that buildClient looks up.                             *)

Snapshot(s, pc) ==
    [Idle EXCEPT !.pc = pc, !.sp = s, !.copy = cache[s], !.mem = cache[s].st,
                 !.base = cache[s].st, !.current = (pending[s] = <<>>)]

Take(s) ==
    /\ job = Idle /\ s \in queue
    /\ queue' = queue \ {s}
    /\ legacy' = [legacy EXCEPT ![s] = IF @ = "collected" THEN "none" ELSE @]
    /\ UNCHANGED <<kube, env, secret, seen, remote, left>>

Start(s, pc) == job' = Snapshot(s, pc) /\ UNCHANGED delayed

\* The steps of reconcileApplication the spec and the annotations ask for.
AfterOAuth(o) ==
    IF o.spec.saml = "on" /\ ~SkipReconcile("saml", o) THEN "samlGet"
                                                       ELSE "appGet"
FirstStep(o) ==
    IF o.spec.oauth # None /\ ~SkipReconcile("oauth", o) THEN "oauthGet"
                                                         ELSE AfterOAuth(o)

ReconcileGone(s) == Take(s) /\ ~cache[s].live /\ UNCHANGED <<delayed, job>>

ReconcilePaused(s) ==
    /\ Take(s) /\ cache[s].live /\ SkipReconcile("app", cache[s])
    /\ IF cache[s].st.phase = "Paused" THEN UNCHANGED <<delayed, job>>
                                       ELSE Start(s, "pause")

Served(s) == cache[s].live /\ ~SkipReconcile("app", cache[s])

ReconcileNotReady(s) ==
    /\ Take(s) /\ Served(s) /\ inst # "Ready"
    /\ SetPhase(Snapshot(s, "idle"), "Pending", "instance")

\* handleDelete asks the server only when the status knows the application.
MutReconcileDelete(s) ==
    /\ Take(s) /\ Served(s) /\ inst = "Ready" /\ cache[s].deleting
    /\ Start(s, IF cache[s].st.phase = "Ready" THEN "delApp" ELSE "rmFin")
ReconcileDelete(s) ==
    /\ Take(s) /\ Served(s) /\ inst = "Ready" /\ cache[s].deleting
    /\ Start(s, IF cache[s].st.id # 0 THEN "delApp" ELSE "rmFin")

ReconcileFinalize(s) ==
    /\ Take(s) /\ Served(s) /\ inst = "Ready"
    /\ ~cache[s].deleting /\ ~cache[s].fin
    /\ Start(s, "addFin")

MutReconcileApply(s) ==
    /\ Take(s) /\ Served(s) /\ inst = "Ready" /\ ~cache[s].deleting
    /\ Start(s, FirstStep(cache[s]))
ReconcileApply(s) ==
    /\ Take(s) /\ Served(s) /\ inst = "Ready"
    /\ ~cache[s].deleting /\ cache[s].fin
    /\ Start(s, FirstStep(cache[s]))

Begin(s) ==
    \/ ReconcileGone(s) \/ ReconcilePaused(s) \/ ReconcileNotReady(s)
    \/ ReconcileDelete(s) \/ ReconcileFinalize(s) \/ ReconcileApply(s)

------------------------------------------------------------------------------
(* Writes of the WSO2SP object: the end of every such reconciliation *)

\* A write gives the object a version the informer has yet to deliver.
Put(s, o) == /\ sps' = [sps EXCEPT ![s] = o]
             /\ pending' = [pending EXCEPT ![s] = Append(@, o)]
             /\ UNCHANGED cache

\* An Update carries the resourceVersion of the copy and is refused when the
\* server has another one; a failed one may have been applied all the same.
MutUpdate(o, Ok, Err) ==
    \/ Put(job.sp, o) /\ Ok /\ UNCHANGED left
    \/ Spend("api") /\ (Put(job.sp, o) \/ UNCHANGED kube) /\ Err
Update(o, Ok, Err) ==
    \/ job.current /\ Put(job.sp, o) /\ Ok /\ UNCHANGED left
    \/ ~job.current /\ UNCHANGED <<kube, left>> /\ Err
    \/ Spend("api") /\ ((job.current /\ Put(job.sp, o)) \/ UNCHANGED kube) /\ Err

\* A merge patch carries no resourceVersion and meets any version.
Patch ==
    LET o  == sps[job.sp]
        st == StatusPatch(o.st, job.base, job.mem)
    IN  IF o.st = st THEN UNCHANGED kube
                     ELSE Put(job.sp, [o EXCEPT !.st = st])

PatchCall ==
    /\ \/ sps[job.sp].live /\ Patch /\ UNCHANGED left
       \/ ~sps[job.sp].live /\ UNCHANGED <<kube, left>>
       \/ Spend("api") /\ ((sps[job.sp].live /\ Patch) \/ UNCHANGED kube)
    /\ Requeue

WriteFrame == UNCHANGED <<env, secrets, queue, remote>>

\* setPhase swallows the failure of its Update, and reconcileApplication takes
\* the empty result of a part of it for success: it goes on, with the failure
\* in memory, to the next part or to the last patch.  base is copied after the
\* inbound protocols.
GoOn(pc) ==
    /\ job' = [job EXCEPT !.pc = pc,
                          !.base = IF pc = "patchReady" THEN job.base ELSE job.mem,
                          !.current = job.current /\ kube' = kube]
    /\ UNCHANGED delayed

MutSwallowed ==
    GoOn(IF job.mem.why \in OAuthSteps THEN AfterOAuth(job.copy) ELSE "appGet")
Swallowed ==
    \/ job.mem.why \in OAuthSteps /\ GoOn(AfterOAuth(job.copy))
    \/ job.mem.why \in SamlSteps /\ GoOn("appGet")
    \/ job.mem.why \in AdminSteps /\ GoOn("patchReady")
    \/ job.mem.why \notin Parts /\ Done

SetPhaseWrite ==
    /\ job.pc = "setPhase" /\ WriteFrame
    /\ Update([sps[job.sp] EXCEPT !.st = job.mem], Requeue, Swallowed)

PauseWrite ==
    /\ job.pc = "pause" /\ WriteFrame
    /\ Update([sps[job.sp] EXCEPT !.st.phase = "Paused"], Done, Requeue)

AddFinalizer ==
    /\ job.pc = "addFin" /\ WriteFrame
    /\ Update(Updated(sps[job.sp], [job.copy EXCEPT !.fin = TRUE]), Done, Requeue)

\* The API server removes an object that is being deleted with its last
\* finalizer.
RemoveFinalizer ==
    /\ job.pc = "rmFin" /\ WriteFrame
    /\ Update(Gone, Done, Requeue)

PatchPending == job.pc = "patchPending" /\ WriteFrame /\ PatchCall
PatchReady == job.pc = "patchReady" /\ WriteFrame /\ PatchCall

------------------------------------------------------------------------------
(* upsertApplicationSecret: Get from the cache, then Create or Update, which *)
(* the API server refuses when the cache is stale.  Only Create makes the    *)
(* object the owner; Update leaves the Secret with the owner it has.         *)

MutUpsertSecret(new, next) ==
    /\ secret' = [secret EXCEPT ![job.sp] = new]
    /\ Goto(next)
    /\ UNCHANGED <<kube, env, seen, legacy, queue, remote, left>>
MutIgnoreConflict(new, next) ==
    LET s       == job.sp
        Written == seen[s] = secret[s] /\ secret' = [secret EXCEPT ![s] = new]
    IN  /\ Written \/ (seen[s] # secret[s] /\ UNCHANGED secret)
        /\ Goto(next)
        /\ UNCHANGED <<kube, env, seen, legacy, queue, remote, left>>
UpsertSecret(new, next) ==
    LET s       == job.sp
        Written == seen[s] = secret[s] /\ secret' = [secret EXCEPT ![s] = new]
    IN  /\ \/ Written /\ Goto(next) /\ UNCHANGED left
           \/ seen[s] # secret[s] /\ Requeue /\ UNCHANGED <<secret, left>>
           \/ Spend("api") /\ Requeue /\ (Written \/ UNCHANGED secret)
        /\ UNCHANGED <<kube, env, seen, legacy, queue, remote>>

OAuthSecret ==
    /\ job.pc = "oauthSecret"
    /\ UpsertSecret([seen[job.sp] EXCEPT !.live = TRUE, !.okey = job.ref],
                    IF job.dirty THEN "oauthUpdate" ELSE AfterOAuth(job.copy))

SamlSecret ==
    /\ job.pc = "samlSecret"
    /\ UpsertSecret([seen[job.sp] EXCEPT !.live = TRUE, !.issuer = job.meta.issuer],
                    IF job.dirty THEN "samlDelete" ELSE "appGet")

------------------------------------------------------------------------------
(* Calls of the identity server.  A call that fails may have been applied.   *)

CallFrame == UNCHANGED <<kube, env, secrets, queue>>

Reads == UNCHANGED remote

Call(Effect, Ok) ==
    \/ Effect /\ Ok /\ UNCHANGED left
    \/ Spend("remote") /\ Fail /\ (Effect \/ UNCHANGED remote)

Refused == Fail /\ UNCHANGED <<remote, left>>

Wanted == job.copy.spec

\* Deleting an application deletes the inbound configurations it refers to.
DropApp(n) ==
    /\ apps' = [apps EXCEPT ![n] = NoApp]
    /\ oauth' = [m \in Names |-> IF apps[n].okey # 0 /\ oauth[m].key = apps[n].okey
                                 THEN NoOAuth ELSE oauth[m]]
    /\ saml' = [i \in Issuers |-> IF apps[n].issuer = i THEN None ELSE saml[i]]
    /\ UNCHANGED issued

\* What is there already is taken for served, by whatever reconciliation.
MutOAuthGet ==
    /\ job.pc = "oauthGet" /\ CallFrame /\ Reads /\ UNCHANGED left
    /\ Goto(IF oauth[Wanted.name].key # 0 THEN AfterOAuth(job.copy) ELSE "oauthCreate")

\* GetApplicationOAuth2Config: HTTP 500 reads as "no such application", and
\* an answer that never comes is dereferenced.
OAuthGet ==
    /\ job.pc = "oauthGet" /\ CallFrame /\ Reads
    /\ LET have == oauth[Wanted.name] IN
       \/ /\ have.key # 0
          /\ job' = [job EXCEPT !.pc = "oauthSecret", !.ref = have.key,
                         !.dirty = OAuth2HasChanged(have.cfg, Wanted.oauth)]
          /\ UNCHANGED <<delayed, left>>
       \/ have.key = 0 /\ Goto("oauthCreate") /\ UNCHANGED left
       \/ Spend("remote") /\ (Goto("oauthCreate") \/ Requeue \/ Fail)

OAuthCreate ==
    /\ job.pc = "oauthCreate" /\ issued < MaxIssued /\ CallFrame
    /\ IF oauth[Wanted.name].key # 0 THEN Refused
       ELSE Call(/\ oauth' = [oauth EXCEPT ![Wanted.name] =
                              [key |-> issued + 1, cfg |-> Sent(Wanted.oauth)]]
                 /\ issued' = issued + 1 /\ UNCHANGED <<apps, saml>>,
                 Requeue)

OAuthUpdate ==
    /\ job.pc = "oauthUpdate" /\ CallFrame
    /\ IF oauth[Wanted.name].key # job.ref THEN Refused
       ELSE Call(/\ oauth' = [oauth EXCEPT ![Wanted.name].cfg = Sent(Wanted.oauth)]
                 /\ UNCHANGED <<apps, saml, issued>>,
                 Requeue)

\* GetApplicationSAMLConfig returns nil, which is dereferenced, when the
\* answer for an unknown issuer has no <return>; an empty one reads as new.
SamlGet ==
    /\ job.pc = "samlGet" /\ CallFrame /\ Reads
    /\ LET m    == md[job.sp]
           have == saml[m.issuer]
       IN
       \/ /\ job' = [job EXCEPT
                !.pc = IF have = None THEN "samlCreate" ELSE "samlSecret",
                !.meta = m, !.dirty = (have # m.acs)]
          /\ UNCHANGED <<delayed, left>>
       \/ have = None /\ Requeue /\ UNCHANGED left
       \/ Spend("remote") /\ Fail

AddSaml(Ok) ==
    IF saml[job.meta.issuer] # None THEN Refused
    ELSE Call(/\ saml' = [saml EXCEPT ![job.meta.issuer] = job.meta.acs]
              /\ UNCHANGED <<apps, oauth, issued>>,
              Ok)

SamlCreate == job.pc = "samlCreate" /\ CallFrame /\ AddSaml(Requeue)

\* UpdateSAMLApplication deletes the application named like the issuer.
SamlDelete ==
    /\ job.pc = "samlDelete" /\ CallFrame
    /\ LET i == job.meta.issuer IN
       IF i \in Names /\ apps[i].id # 0 THEN Call(DropApp(i), Goto("samlReadd"))
                                        ELSE Refused

SamlReadd == job.pc = "samlReadd" /\ CallFrame /\ AddSaml(Goto("appGet"))

\* The application is in sync: Ready is set in memory, and the membership of
\* the admin group comes before the patch that records it.
InSync(j) ==
    [j EXCEPT !.pc = IF j.mem.admin THEN "patchReady" ELSE "adminGet",
              !.mem.phase = "Ready", !.mem.why = "inSync"]

\* GetApplicationByName, the status taken over from the answer, the ConfigMap
\* of the authentication script, and the comparison.
AppGet ==
    /\ job.pc = "appGet" /\ CallFrame /\ Reads
    /\ LET have  == apps[Wanted.name]
           found == [job EXCEPT !.mem.id = have.id]
       IN
       \/ have.id = 0 /\ Goto("appCreate") /\ UNCHANGED left
       \/ /\ have.id # 0
          /\ job' = IF AppHasChanged(have, Wanted)
                    THEN [found EXCEPT !.pc = "appUpdate"] ELSE InSync(found)
          /\ UNCHANGED <<delayed, left>>
       \/ /\ have.id # 0 /\ Wanted.script
          /\ Spend("edit") /\ SetPhase(found, "Failed", "script")
       \/ Spend("remote") /\ Fail

AppCreate ==
    /\ job.pc = "appCreate" /\ issued < MaxIssued /\ CallFrame
    /\ IF apps[Wanted.name].id # 0 THEN Refused
       ELSE Call(/\ apps' = [apps EXCEPT ![Wanted.name] =
                             [NoApp EXCEPT !.id = issued + 1]]
                 /\ issued' = issued + 1 /\ UNCHANGED <<oauth, saml>>,
                 /\ job' = [job EXCEPT !.pc = "patchPending",
                                !.mem.phase = "Pending", !.mem.why = "created"]
                 /\ UNCHANGED delayed)

\* The request carries the ID the status had before AppGet.  The server takes
\* it for the application to change, and the name for its new name; without
\* an ID it either goes by the name or refuses.
UpdateId == job.copy.st.id

Targets ==
    {m \in Names : /\ apps[m].id # 0
                   /\ apps[m].id = UpdateId \/ (UpdateId = 0 /\ m = Wanted.name)
                   /\ m = Wanted.name \/ apps[Wanted.name].id = 0}

AppUpdate ==
    /\ job.pc = "appUpdate" /\ CallFrame
    /\ \/ \E m \in Targets :
            Call(/\ apps' = [apps EXCEPT ![m] = NoApp, ![Wanted.name] =
                                Applied(apps[m], Wanted, seen[job.sp])]
                 /\ UNCHANGED <<oauth, saml, issued>>,
                 job' = InSync(job) /\ UNCHANGED delayed)
       \/ (UpdateId = 0 \/ Targets = {}) /\ Refused

\* reconcileAdminAccess; the group is found by the application's name and
\* joined by its own id.
MutAdminGet ==
    /\ job.pc = "adminGet" /\ CallFrame /\ Reads
    /\ LET have == apps[Wanted.name] IN
       \/ /\ have.id # 0
          /\ job' = IF have.admin
                    THEN [job EXCEPT !.pc = "patchReady", !.mem.admin = TRUE]
                    ELSE [job EXCEPT !.pc = "adminJoin", !.ref = have.id,
                                     !.mem.admin = TRUE]
          /\ UNCHANGED <<delayed, left>>
       \/ have.id = 0 /\ Fail /\ UNCHANGED left
       \/ Spend("remote") /\ Fail
AdminGet ==
    /\ job.pc = "adminGet" /\ CallFrame /\ Reads
    /\ LET have == apps[Wanted.name] IN
       \/ /\ have.id # 0
          /\ job' = IF have.admin
                    THEN [job EXCEPT !.pc = "patchReady", !.mem.admin = TRUE]
                    ELSE [job EXCEPT !.pc = "adminJoin", !.ref = have.id]
          /\ UNCHANGED <<delayed, left>>
       \/ have.id = 0 /\ Fail /\ UNCHANGED left
       \/ Spend("remote") /\ Fail

MutAdminJoin ==
    /\ job.pc = "adminJoin" /\ CallFrame
    /\ IF \E n \in Names : apps[n].id = job.ref
       THEN Call(/\ apps' = [n \in Names |-> IF apps[n].id = job.ref
                                THEN [apps[n] EXCEPT !.admin = TRUE] ELSE apps[n]]
                 /\ UNCHANGED <<oauth, saml, issued>>,
                 Done)
       ELSE Refused
AdminJoin ==
    /\ job.pc = "adminJoin" /\ CallFrame
    /\ IF \E n \in Names : apps[n].id = job.ref
       THEN Call(/\ apps' = [n \in Names |-> IF apps[n].id = job.ref
                                THEN [apps[n] EXCEPT !.admin = TRUE] ELSE apps[n]]
                 /\ UNCHANGED <<oauth, saml, issued>>,
                 Requeue)
       ELSE Refused

\* handleDelete logs a failure and goes on to the finalizer.
DelApp ==
    /\ job.pc = "delApp" /\ CallFrame /\ Goto("rmFin")
    /\ \/ DropApp(Wanted.name) /\ UNCHANGED left
       \/ Spend("remote") /\ (DropApp(Wanted.name) \/ UNCHANGED remote)

JobStep ==
    \/ SetPhaseWrite \/ PauseWrite \/ AddFinalizer \/ RemoveFinalizer
    \/ PatchPending \/ PatchReady \/ OAuthSecret \/ SamlSecret
    \/ OAuthGet \/ OAuthCreate \/ OAuthUpdate
    \/ SamlGet \/ SamlCreate \/ SamlDelete \/ SamlReadd
    \/ AppGet \/ AppCreate \/ AppUpdate \/ AdminGet \/ AdminJoin \/ DelApp

------------------------------------------------------------------------------
(* Users, administrators, the informer, timers and restarts *)

\* A new object takes over the Secret of the one before, if it is still there.
UserWrite(s, o) ==
    /\ Spend("edit") /\ Put(s, o)
    /\ legacy' = IF sps[s].live THEN legacy
                 ELSE [legacy EXCEPT ![s] = IF secret[s].live THEN "inherited" ELSE "none"]
    /\ job' = IF job.sp = s THEN [job EXCEPT !.current = FALSE] ELSE job
    /\ UNCHANGED <<env, secret, seen, queue, delayed, remote>>

CreateSP(s) ==
    ~sps[s].live /\ \E spec \in Specs : UserWrite(s, NewSP(spec))

EditSpec(s) ==
    /\ sps[s].live
    /\ \E spec \in Specs \ {sps[s].spec} :
          UserWrite(s, [sps[s] EXCEPT !.spec = spec])

Annotate(s) ==
    /\ sps[s].live
    /\ \E skip \in Skips \ {sps[s].skip} :
          UserWrite(s, [sps[s] EXCEPT !.skip = skip])

DeleteSP(s) ==
    /\ sps[s].live /\ ~sps[s].deleting
    /\ UserWrite(s, IF sps[s].fin THEN [sps[s] EXCEPT !.deleting = TRUE] ELSE Gone)

InstanceChange ==
    /\ Spend("inst")
    /\ inst' \in InstStates \ {inst}
    /\ UNCHANGED <<kube, md, secrets, control, remote>>

MetadataChange(s) ==
    /\ Spend("drift")
    /\ \E m \in Metadata \ {md[s]} : md' = [md EXCEPT ![s] = m]
    /\ UNCHANGED <<kube, inst, secrets, control, remote>>

\* Somebody reconfigures or deletes an application in the console.
AppDrift(n) ==
    /\ apps[n].id # 0 /\ apps[n].cfg # BareCfg /\ Spend("drift")
    /\ apps' = [apps EXCEPT ![n].cfg = BareCfg]
    /\ UNCHANGED <<oauth, saml, issued, kube, env, secrets, control>>

AppRemoval(n) ==
    /\ apps[n].id # 0 /\ Spend("removal") /\ DropApp(n)
    /\ UNCHANGED <<kube, env, secrets, control>>

\* Somebody deletes the Secret, or the garbage collector after its owner, though
\* the Secret may be in use for a new object by then.
SecretRemoved(s) ==
    /\ secret[s].live
    /\ IF sps[s].live /\ legacy[s] # "inherited" THEN Spend("drift")
                                                 ELSE UNCHANGED left
    /\ secret' = [secret EXCEPT ![s] = NoSecret]
    /\ legacy' = [legacy EXCEPT ![s] = IF @ = "inherited" THEN "collected" ELSE @]
    /\ UNCHANGED <<kube, env, seen, control, remote>>

\* The informer delivers the next version and its handler enqueues the key.
Deliver(s) ==
    /\ pending[s] # <<>>
    /\ cache' = [cache EXCEPT ![s] = Head(pending[s])]
    /\ pending' = [pending EXCEPT ![s] = Tail(@)]
    /\ queue' = queue \cup {s}
    /\ UNCHANGED <<sps, env, secrets, delayed, job, remote, left>>

SecretDeliver(s) ==
    /\ seen[s] # secret[s]
    /\ seen' = [seen EXCEPT ![s] = secret[s]]
    /\ UNCHANGED <<kube, env, secret, legacy, control, remote, left>>

\* RequeueAfter or the error backoff is over.
Wake(s) ==
    /\ s \in delayed
    /\ queue' = queue \cup {s} /\ delayed' = delayed \ {s}
    /\ UNCHANGED <<kube, env, secrets, job, remote, left>>

\* The manager stops at any point; the next one lists what there is.
Restart ==
    /\ job' = Idle /\ delayed' = {} /\ queue' = {s \in SPs : sps[s].live}
    /\ cache' = sps /\ pending' = [s \in SPs |-> <<>>] /\ seen' = secret
    /\ UNCHANGED <<sps, md, secret, legacy, remote>>

Crash == Spend("crash") /\ Restart /\ UNCHANGED inst

Users ==
    \/ \E s \in SPs : CreateSP(s) \/ EditSpec(s) \/ Annotate(s) \/ DeleteSP(s)
                   \/ MetadataChange(s) \/ SecretRemoved(s)
    \/ \E n \in Names : AppDrift(n) \/ AppRemoval(n)

Environment == Users \/ InstanceChange \/ Crash

Next ==
    \/ \E s \in SPs : Begin(s) \/ Deliver(s) \/ SecretDeliver(s) \/ Wake(s)
    \/ JobStep
    \/ Environment

Spec == Init /\ [][Next]_vars

\* Informers and timers run; the work queue is FIFO, so that a key in it is
\* taken however often other keys are; a running reconciliation goes on.
Fairness ==
    /\ WF_vars(JobStep)
    /\ \A s \in SPs : /\ SF_vars(Begin(s)) /\ WF_vars(Deliver(s))
                      /\ WF_vars(SecretDeliver(s)) /\ WF_vars(Wake(s))

FairSpec == Spec /\ Fairness

------------------------------------------------------------------------------
(* Safety *)

\* The controller works on the server only for an object that, whatever the
\* cache said, carries the finalizer now: nothing is created that a deletion
\* of the WSO2SP would not come back for (Reconcile, handleDelete).
FinalizerGuardsRemote ==
    job.pc \in AppSteps => sps[job.sp].live /\ sps[job.sp].fin

\* Ready is never recorded without the ID that the deletion depends on, though
\* the patch of reconcileApplication sends only what differs from a base that
\* may be stale.
ReadyHasId ==
    \A s \in SPs : sps[s].live /\ sps[s].st.phase = "Ready" => sps[s].st.id # 0

\* An object that is not paused is in the queue, in work, due later, or has a
\* version on its way: "requeueing" is said and done.
StaysAwake ==
    \A s \in SPs :
        sps[s].live /\ ~SkipReconcile("app", sps[s]) =>
            \/ s \in queue \cup delayed
            \/ job.sp = s
            \/ pending[s] # <<>>

\* As long as no request to the API server failed, no object is forgotten:
\* the conflicts that setPhase swallows always have a version on its way.
NoLostWakeup == left["api"] = Budget["api"] => StaysAwake

\* No write of the controller undoes what users wrote meanwhile: neither spec nor
\* annotations, and only an object that users deleted goes away; but for the one
\* write that puts the finalizer on, which turns pkcePlain on with it (AddFinalizer,
\* RemoveFinalizer and the status writes send what they read from the cache).
Preserved(s) ==
    IF sps'[s].live
    THEN /\ \/ sps'[s].spec = sps[s].spec
            \/ /\ ~sps[s].fin /\ sps'[s].fin
               /\ sps'[s].spec = Defaulted(sps[s].spec)
         /\ sps'[s].skip = sps[s].skip
         /\ sps'[s].deleting = sps[s].deleting
    ELSE sps[s].deleting

ControllerPreservesIntent ==
    [][left'["edit"] = left["edit"] =>
          \A s \in SPs : sps[s].live => Preserved(s)]_vars

\* The object with finalizer goes away in this step.
Released(s) == sps[s].live /\ sps[s].fin /\ ~sps'[s].live

\* One object and one name, and no service provider that is called like it.
Alone ==
    /\ \E s \in SPs : SPs = {s}
    /\ \E n \in Names : Names = {n}
    /\ Names \cap Issuers = {}

\* AdminCanView is true of the application the status names.
AdminIsTrue(s, n) ==
    sps[s].live /\ sps[s].st.admin /\ apps[n].id # 0 /\ apps[n].id = sps[s].st.id =>
        apps[n].admin

\* The ID in the status is that of the application, if there is one in it; only
\* an object that is being deleted may outlive its application.
IdIsTrue(s, n) ==
    sps[s].live => \/ sps[s].st.id \in {0, apps[n].id}
                   \/ sps[s].deleting /\ apps[n].id = 0

\* As long as nobody else removes applications (by hand, with another object
\* of the same name, or with a service provider that is called like one), the
\* status names the application there is, and AdminCanView is true of it; an
\* update carries the ID of the application just read, or none
\* (reconcileApplication computes desired before it looks, patches against a
\* stale base, and reconcileAdminAccess never looks again).
StatusNamesItsApplication ==
    left["removal"] = Budget["removal"] /\ Alone =>
        /\ job.pc = "appUpdate" => UpdateId \in {0, job.mem.id}
        /\ \A s \in SPs, n \in Names : IdIsTrue(s, n) /\ AdminIsTrue(s, n)

\* The application with the ID in the status, if there is one, is called what
\* the spec calls it: nobody renamed it.
KnownByName(s) ==
    \A n \in Names : apps[n].id = sps[s].st.id => n = sps[s].spec.name

\* When no call of the server failed, an object whose status has an ID does not
\* go away before the application that spec.name names, and not before the one
\* with that ID, unless that one goes by another name (handleDelete looks at the
\* ID and deletes by the name).
DeleteIsComplete ==
    [][left["remote"] = Budget["remote"] =>
          \A s \in SPs : Released(s) /\ sps[s].st.id # 0 =>
              /\ apps'[sps[s].spec.name].id = 0
              /\ KnownByName(s) => \A n \in Names : apps'[n].id # sps[s].st.id]_vars

\* The client credentials and the issuer the spec asks for are in the Secret,
\* unless somebody interfered, or the garbage collector took the Secret of a
\* predecessor from under this very reconciliation.
InboundServed ==
    left["drift"] = Budget["drift"] /\ legacy[job.sp] # "collected" =>
        /\ Wanted.oauth # None /\ ~SkipReconcile("oauth", job.copy) =>
              secret[job.sp].okey # 0
        /\ Wanted.saml = "on" /\ ~SkipReconcile("saml", job.copy) =>
              secret[job.sp].issuer # None

\* When no call of the server failed, the inbound protocols are served before
\* the status says Ready, whatever conflicts setPhase swallows
\* (reconcileApplicationOAuth2 and reconcileSAMLApplication come first).
InboundBeforeReady ==
    job.pc = "patchReady" /\ left["remote"] = Budget["remote"] => InboundServed

\* Two protocols share one Secret: writing the entries of one never loses
\* those of the other (upsertApplicationSecret through a stale cache).
SecretKeepsEntries ==
    [][\A s \in SPs : secret[s].live /\ secret'[s].live =>
          /\ secret[s].okey # 0 => secret'[s].okey # 0
          /\ secret[s].issuer # None => secret'[s].issuer # None]_vars

------------------------------------------------------------------------------
(* The inductive invariant behind the safety properties *)

\* What a step needs to find in the job.
JobShape ==
    /\ job.pc # "idle" => job.sp \in SPs
    /\ job.pc \in OAuthSteps => Wanted.oauth # None
    /\ job.pc \in SamlSteps \ {"samlGet"} => job.meta # None
    /\ job.pc = "addFin" => job.copy.live /\ ~job.copy.fin
    /\ job.pc \in {"delApp", "rmFin"} => job.copy.deleting

\* The versions of s that the controller may still read.
Readable(s) == {cache[s]} \cup {pending[s][i] : i \in 1..Len(pending[s])}

\* The informer ends up with the version of the server.
InformerChain ==
    \A s \in SPs : IF pending[s] = <<>> THEN cache[s] = sps[s]
                   ELSE pending[s][Len(pending[s])] = sps[s]

\* What an Update that is not refused overwrites.
CurrentCopy ==
    job.pc # "idle" /\ job.current =>
        pending[job.sp] = <<>> /\ job.copy = cache[job.sp]

\* The controller works on the server for such a version only.
Workable(o) == o.live /\ o.fin /\ ~o.deleting

\* The job is in one of the steps, or writes the failure of one that it may
\* come back from.
At(steps) == job.pc \in steps \/ (job.pc = "setPhase" /\ job.mem.why \in steps)

AtWork == job.pc \in AppSteps \/ (job.pc = "setPhase" /\ job.mem.why \in Parts)

FinalizerAtWork == AtWork => sps[job.sp].live /\ sps[job.sp].fin

FinalizerStays ==
    \A s \in SPs : \A o \in Readable(s) :
        Workable(o) => sps[s].live /\ sps[s].fin

\* IDs, once recorded, stay; Ready comes with one.
IdIfReady(st) == st.phase = "Ready" => st.id # 0

IdKept ==
    \A s \in SPs :
        /\ IdIfReady(sps[s].st)
        /\ \A o \in Readable(s) :
              /\ IdIfReady(o.st)
              /\ Workable(o) /\ o.st.id # 0 => sps[s].st.id # 0

IdInJob ==
    /\ IdIfReady(job.mem)
    /\ At(AdminSteps \cup {"appUpdate", "patchReady"}) => job.mem.id # 0
    /\ job.mem.id = job.copy.st.id \/ job.mem.id # 0
    /\ At(OAuthSteps \cup SamlSteps) => job.mem.id = job.copy.st.id
    /\ job.base.id = job.copy.st.id

IdAtWork ==
    AtWork /\ job.copy.st.id # 0 => sps[job.sp].st.id # 0

\* A reconciliation that works on an old version has a successor.
OldCopyFollowed ==
    job.pc # "idle" /\ ~job.current =>
        pending[job.sp] # <<>> \/ job.sp \in queue

\* The budget is never exceeded, so that "no failure yet" stays true backwards.
BudgetKept == \A k \in Kinds : left[k] <= Budget[k]

\* The finalizer is removed after the application.
DroppedFirst ==
    job.pc = "rmFin" /\ job.copy.st.id # 0 /\ left["remote"] = Budget["remote"] =>
        apps[Wanted.name].id = 0

\* A version to work on never follows one that is being deleted.
InOrder(s) ==
    /\ cache[s].deleting => \A i \in 1..Len(pending[s]) : ~Workable(pending[s][i])
    /\ \A i, j \in 1..Len(pending[s]) :
          i < j /\ pending[s][i].deleting => ~Workable(pending[s][j])

NothingFollows ==
    /\ \A s \in SPs : InOrder(s)
    /\ job.pc \in {"delApp", "rmFin"} => \A o \in Readable(job.sp) : ~Workable(o)

------------------------------------------------------------------------------
(* The abstract specification, and how its state is found in this one *)

Stage(o) == IF ~o.live THEN "absent" ELSE IF o.deleting THEN "closing"
            ELSE IF o.fin THEN "guarded" ELSE "bare"

\* A reconciliation has its object in hand from reconcileApplication on, until
\* the end of the status write of a failure of it.
InHand == job.pc \in AppSteps \/ (job.pc = "setPhase" /\ job.mem.why \in Failures)

\* Nothing is recorded before the finalizer.
BareIsBlank ==
    \A s \in SPs : Stage(sps[s]) = "bare" => sps[s].st.id = 0 /\ ~sps[s].st.admin

\* The status is about the application n, or about none.
Fits(st, n) ==
    /\ st.id \in {0, apps[n].id}
    /\ st.admin => st.id # 0 /\ apps[n].admin

\* So is what a reconciliation has in hand, and what one may come to work with;
\* what is being deleted need not be.
HandFits(s, n) ==
    InHand => Fits(job.copy.st, n) /\ Fits(job.mem, n) /\ Fits(sps[s].st, n)

CacheFits(s, n) ==
    \A o \in Readable(s) : Workable(o) => Fits(o.st, n) /\ Fits(sps[s].st, n)

StatusFits ==
    left["removal"] = Budget["removal"] /\ Alone =>
        \A s \in SPs, n \in Names :
            /\ HandFits(s, n) /\ CacheFits(s, n)
            /\ IdIsTrue(s, n) /\ AdminIsTrue(s, n)

AO == INSTANCE AppOwnership WITH
    Objects <- SPs, Apps <- Names, Nobody <- None,
    stage   <- [s \in SPs |-> Stage(sps[s])],
    known   <- {s \in SPs : sps[s].st.id # 0},
    ready   <- {s \in SPs : sps[s].st.phase = "Ready"},
    worker  <- IF InHand THEN job.sp ELSE None,
    present <- {n \in Names : apps[n].id # 0}

\* The controller implements the abstract specification: with caches, lost
\* conflicts, failures and restarts it still creates applications only for
\* guarded objects, keeps their IDs and releases no object that is in hand.
Ownership == AO!ASpec

------------------------------------------------------------------------------
(* Liveness *)

Managed(s) ==
    sps[s].live /\ ~sps[s].deleting /\ ~SkipReconcile("app", sps[s])

\* The status says Ready and names the application, which has the wanted
\* configuration; the OAuth application too, and its key is in the Secret and
\* in the application.
Converged(s) ==
    LET spec == sps[s].spec
        have == apps[spec.name]
        key  == oauth[spec.name]
    IN  /\ sps[s].st.phase = "Ready"
        /\ have.id # 0 /\ sps[s].st.id = have.id /\ have.cfg = spec.cfg
        /\ spec.oauth # None =>
              /\ key.key # 0 /\ key.cfg = spec.oauth
              /\ secret[s].okey = key.key /\ have.okey = key.key

\* "move the current state of the cluster closer to the desired state": once
\* the instance stays ready and the disturbances are over, every object that
\* is not paused reaches the wanted state and stays there.
Convergence ==
    <>[](inst = "Ready") => \A s \in SPs : <>[](Managed(s) => Converged(s))

\* A deleted object that is not paused goes away when the instance is ready.
DeletionCompletes ==
    \A s \in SPs :
        <>[](inst = "Ready" /\ ~SkipReconcile("app", sps[s])) =>
            []<>~sps[s].deleting

------------------------------------------------------------------------------
(* What documents, comments and messages of the repository say, and the code *)
(* does not keep.                                                            *)

\* The ID is stored so that the application can be deleted: no application
\* outlives the WSO2SP it was created for (handleDelete).
NoOrphan == [][\A s \in SPs : Released(s) => apps'[sps[s].spec.name].id = 0]_vars

\* "WSO2SPSpec defines the desired state": users write it, and the controller
\* does not (AddFinalizer).
SpecIsUsers ==
    [][left'["edit"] = left["edit"] =>
          \A s \in SPs : sps[s].live /\ sps'[s].live =>
              sps'[s].spec = sps[s].spec]_vars

\* "Application in sync" is what the status is about to say, and the inbound
\* protocols were not served: reconcileApplication went on after a failure of
\* reconcileApplicationOAuth2 or reconcileSAMLApplication.
InSyncIsServed ==
    job.pc = "patchReady" /\ job.mem.phase = "Ready" => InboundServed

\* "SAML SP updated": the update of a SAML service provider leaves the
\* applications alone (UpdateSAMLApplication).
SamlUpdateSparesApplications ==
    [][job.pc = "samlDelete" /\ job'.pc = "samlReadd" =>
          \A n \in Names : apps'[n].id = apps[n].id]_vars
==============================================================================
