# WSO2 Identity Server operator: TLA+ specification

This directory specifies the Kubernetes operator of this repository: what its
controllers do to the objects in the cluster and to the identity server, step
by step, what is promised of that, what TLC checks on small instances and what
TLAPS proves for all of them.  Paths below are relative to `src/`.

## 1. The system

The operator watches two custom resources.  A `WSO2ISInstance` names an identity
server and the Secret with its credentials.  A `WSO2SP` describes a service
provider (application) that should exist there: claims, authentication steps,
an OAuth 2 client, a SAML service provider.

| Component | State it keeps | Operations | Correct when | Module |
|---|---|---|---|---|
| WSO2SP controller (`internal/controller/wso2sp_controller.go`, `helpers.go`) | status and finalizer of each WSO2SP, a Secret `<name>-inbound` with client credentials and SAML issuer; between calls only what it holds in memory | `Reconcile`, `handleDelete`, `reconcileApplication`, its parts `reconcileApplicationOAuth2`, `reconcileSAMLApplication`, `reconcileAdminAccess`, `upsertApplicationSecret`, `populateInboundSecrets`, `setPhase` | no application is left behind or touched by mistake, no object is forgotten, users' writes survive, Ready is true, the wanted state is reached | `SPReconciler` |
| WSO2ISInstance controller (`wso2isinstance_controller.go`) | phase, message and `Available` condition of each instance | `Reconcile` (read the credentials, ping, set the phase), `setPhaseNoRequeue`, `setCondition` | the phase is true of the current spec, follows the reachability of the server, and is never left as it is; a condition changes its transition time only with its status | `InstanceReconciler` |
| The two together, in one manager (`cmd/main.go`, `buildClient` in `helpers.go`) | the caches and the process that both share | `buildClient` takes the phase of the instance at its word | an outage shows, a recovery reaches every object | `Operator` |
| Comparison and conversion (`helpers.go`, `builder.go`, `mapper.go`, `soap.go`, `application.go`) | none | spec to request, answer to spec, `appHasChanged`, `oauth2HasChanged`, `samlSPHasChanged` | what is compared is also sent and read back, so that updates come to an end | `Mapping`, `Exchange` |
| SAML metadata (`saml.go`) | none | fetch and read a metadata URL | the addresses, certificates and alias registered are the right ones, whatever the order in the document | `SAMLMetadata`, `Exchange` |
| Client of the identity server (`internal/wso2/client.go`) | none | SOAP calls for applications, OAuth and SAML, a REST search, SCIM group calls | a failed call is reported as such | its calls are steps of the controllers |
| API types, SCIM messages, generated code, manifests, tests | - | - | - | `WSO2SPTypes` for the types, otherwise none |

How they interact.  A controller never calls the other one: the WSO2SP
controller reads the phase of the instance (`buildClient`).  Both read objects
through the informer caches of controller-runtime, which lag behind the API
server, and write to the API server, which refuses an update with an outdated
`resourceVersion` but takes a merge patch at any version.  Every write comes
back as an event and puts the key into the work queue; a result with
`RequeueAfter` and an error put it there later.  Nothing watches Secrets of
credentials or servers, and a change of an instance enqueues no WSO2SP.  A key
is reconciled by one worker at a time.  Calls of the identity server may fail,
hang, or succeed and lose their answer, and administrators change the server
behind the operator.

What is hard here: the cache is stale when it is used; a reconciliation has up
to ten remote effects and may stop between any two of them; failures are
swallowed in places (`setPhase`, `handleDelete`); the ID that deletion depends
on is recorded in a later reconciliation than the one that creates the
application; two parts share one Secret; the phase of an instance is as old as
its last ping; what is compared is not always what was sent.  The list of
hazards, each with its line and the properties that watch it, is in
`PROJECT.json`.

## 2. The modules

```
WSO2SPTypes <- SPReconciler <- SPReconcilerProofs <- SPSecretProofs
                  |      |       <- SPOwnershipProofs <- SPStatusProofs
                  |      \---- MCSPReconciler
                  |  INSTANCE AppOwnership  (the abstract specification)
                  |
InstanceReconciler <- Operator (INSTANCE SPReconciler) <- MCOperator
        |      |          \---- OperatorProofs (INSTANCE SPStatusProofs)
        |      \----- InstanceReconcilerProofs <---/
        \------------ MCInstanceReconciler
Mapping, SAMLMetadata <- Exchange <- MCExchange
             |              \---- ExchangeProofs
             \--- SAMLMetadataProofs <---/
```

### `WSO2SPTypes`: the data

Objects and status as the Kubernetes API keeps them, records of the identity
server, and the pure functions between them at the grain the controller needs:
`SkipReconcile`, `AppHasChanged`, `OAuth2HasChanged`, what a request conveys
(`Sent`, `Applied`), what an answer is read as (`ReadBack`), the inbound keys
of an update (`InboundKey`, `InboundIssuer`), a merge patch (`StatusPatch`), and
what the API server makes of a field that `omitempty` leaves out (`Defaulted`).

### `SPReconciler`: the WSO2SP controller between cluster and server

| Variables | In the program |
|---|---|
| `sps`, `pending`, `cache` | a WSO2SP at the API server, the versions on their way, the informer's version |
| `secret`, `seen` | the inbound Secret at the API server and in the cache |
| `legacy` | whether that Secret was left by a deleted object of the same name (`inherited`), or was taken by the garbage collector since the last reconciliation began (`collected`) |
| `queue`, `delayed` | the work queue; keys with `RequeueAfter` or in backoff |
| `job` | the running reconciliation: the next call (`pc`), the object as `Get` returned it (`copy`), the status in memory (`mem`), the base of the patch, whether the copy is the server's version (`current`), answers needed later |
| `apps`, `oauth`, `saml`, `issued` | the identity server |
| `inst`, `md` | the instance as `buildClient` sees it; metadata URLs |
| `left` | how many disturbances may still happen |

A reconciliation is cut at every write to the API and at every call of the
server, because users, administrators, the informer, timers and a crash may act
there.  What the code computes between two calls belongs to the step of the
first one.

| Actions | Code |
|---|---|
| `ReconcileGone`, `ReconcilePaused`, `ReconcileNotReady`, `ReconcileDelete`, `ReconcileFinalize`, `ReconcileApply` | `Reconcile` up to its first call |
| `PauseWrite`, `AddFinalizer`, `RemoveFinalizer`, `SetPhaseWrite`, `PatchPending`, `PatchReady` | writes of the object |
| `OAuthGet`, `OAuthCreate`, `OAuthSecret`, `OAuthUpdate` | `reconcileApplicationOAuth2` |
| `SamlGet`, `SamlCreate`, `SamlSecret`, `SamlDelete`, `SamlReadd` | `reconcileSAMLApplication`, `UpdateSAMLApplication` |
| `AppGet`, `AppCreate`, `AppUpdate` | `reconcileApplication` |
| `AdminGet`, `AdminJoin` | `reconcileAdminAccess` |
| `DelApp` | `handleDelete` |
| `Deliver`, `SecretDeliver`, `Wake` | informers, timers |
| `CreateSP`, `EditSpec`, `Annotate`, `DeleteSP`, `InstanceChange`, `MetadataChange`, `AppDrift`, `AppRemoval`, `SecretRemoved`, `Crash` | the surroundings |

`setPhase` deserves a word.  It returns early when phase and message are those
already in memory (`SetPhase`), and it returns an empty result without an error
when its write fails.  Its callers within `reconcileApplication` take an empty
result for success, so the reconciliation goes on after the part that failed,
with the failure in memory (`Swallowed`, `GoOn`).

The inbound Secret does, too.  `upsertApplicationSecret` sets the owner only when it
creates the Secret (`wso2sp_controller.go:115`) and updates one that is there as it
is (`:130`).  An object that is deleted and created again therefore works with a
Secret whose owner is gone, and the garbage collector may take it at any time.
`SecretRemoved` is three things: the garbage collector after a deletion, the garbage
collector under a new object (`legacy`), both free, and somebody's interference,
which the budget counts.

### `AppOwnership`: what that controller promises

The abstract specification knows no caches, queues, conflicts or calls.  An
object is absent, bare, guarded by the finalizer or closing; a worker engages
an object that has the finalizer, serves applications, reports, and only then
may the object be released; the ID once recorded stays as long as the object,
and Ready comes with it.  `SPReconciler` ends with the refinement mapping
(`AO`): the stage is read off the object at the API server, the worker is the
object of a job from `reconcileApplication` on (`InHand`).  The property
`Ownership == AO!ASpec` says that every step of the controller, its users and
its faults is a step of the abstract one or changes nothing there.

### `InstanceReconciler`: the WSO2ISInstance controller

`ins`, `icache`, `iversions` are the instances at the API server, in the
informer cache and between; `creds`, `icreds` the credentials Secrets and their
cache; `server` is the password a server accepts, or `down`, or `hung`; `iqueue`,
`timer` (the `RequeueAfter`) and `backoff` (the rate limiter after an error) hold
keys; `isjob` is the reconciliation that runs.

| Actions | Code |
|---|---|
| `TakeGone`, `TakeLive` | `Reconcile` up to the ping: the two lookups and their failures |
| `Ping` | `Client.Ping` and the phase it leads to (`WithPhase`: `setPhaseNoRequeue`, `setCondition`) |
| `StatusUpdate` | `Status().Update`, whose error makes the reconciliation fail and whose success comes with `RequeueAfter` |
| `ISDeliver`, `CredentialsDeliver`, `TimerFires`, `BackoffEnds` | informers, timers |
| `CreateInstance`, `EditInstance`, `DeleteInstance`, `CredentialsChange`, `ServerChange`, `ISCrash` | the surroundings |

### `Operator`: both controllers

It extends `InstanceReconciler` and instantiates `SPReconciler` with its view of the
instance, `InstView`, for `inst`: what `buildClient` finds in the cache the
other controller's writes come through.  A job keeps the address and the password
its client was built with (`client`), and its calls are answered when the server
at that address accepts that password (`SPStep`), refused otherwise
(`SPRefused`), and not at all when the server hangs.  `refused` is a history
variable: it says whether the running job was refused a call, and only properties
read it.  One crash stops both (`OpCrash`).  The records are those of one identity server, which several addresses
may lead to; what becomes of an object whose instance is pointed at a different
server is not modelled: of the properties, `StatusNamesItsApplication` and the
liveness of the whole depend on that.  The run has one address.

### `Mapping`, `SAMLMetadata` and `Exchange`: the data, field by field

`Mapping` has the requests of `builder.go` (`BuildUpdate`, `BuildStep`, `BuildOAuth`),
what `mapper.go` reads back (`MapApplication`, `MapOAuth`), the filters and
`normalizeApplication` of `helpers.go`, and the comparisons.  `SAMLMetadata` has
what `saml.go` makes of a document: consumer services, logout endpoints,
certificates, the alias.  `Exchange` lets users edit, others reconfigure, the
server reorder claims, and the controller pass: `OAuthPass`, `SamlPass` and
`AppPass` are `reconcileApplication` with its parts, each of which returns early
unless it finds nothing to do.  Caches, failures and crashes are the business
of `SPReconciler`; here a pass is one step, and data is what matters.  In particular
`AppPass` reads the Secret as `OAuthPass` and `SamlPass` have left it, where
`populateInboundSecrets` may get an older one from the cache: that is in `SPReconciler`
(`seen`), whose `Convergence` has to cope with it.  The keys of a document are read by
a fold (`TakeKey`, the body of the loop), as the endpoints and consumer services are.

### Abstractions

- In `SPReconciler`, contents that are only compared (descriptions, claims,
  callback URLs, ACS lists) are members of `Bodies` and `AcsLists`; `Exchange`
  looks into them.  A numeric ID and its resource ID are one number, so are a
  consumer key and its secret.
- In `Mapping`, fields that travel as they are, unchanged in both directions,
  are one value, `rest`.  Claim URIs are numbers because they are sorted; a grant
  type is a sequence of words, because the request separates grant types as it
  separates words; a grant type without text is one empty word.  The
  authenticators that the server returns have names.
- In `SAMLMetadata`, an entity ID is the sequence of its parts.  The two flags
  of attributes that `samlSPHasChanged` compares are left out: like the ACS URLs
  they can only lead to the update that fails.
- A status message is the step that wrote it, and whether two messages of one
  step have the same text is left open: both branches of `setPhase` are possible.
- All WSO2SP objects refer to one instance, in `SPReconciler` its state is `inst`.
- The `<name>-inbound` Secret has its content for a version; several writes of
  it between two deliveries are one delivery.
- A missing or unreadable ConfigMap of the authentication script is a
  disturbance that the budget of edits pays for.
- A call that fails may have been applied.  So may a request to the Kubernetes
  API.
- The identity server is modelled from what the client expects of it: an
  application takes the inbound configurations it refers to along when it is
  deleted (`DropApp`); an update goes to the application with the ID it carries
  and gives it the name it carries (`Targets`); an inbound entry without a key
  is kept or dropped (`KeepsBlank`); an answer has the fields that the request
  had (`StoredApp`).

### Bounds

`Budget` (WSO2SP side) and `ISBudget` (instance side) say how often each kind of
disturbance happens: edits by users, changes and removals behind the operator,
changes of the instance, its credentials or its server, failed calls of the
server, failed requests to the API, restarts.  The servers are all up, all down or
all hung at first, so that one change of a server is an outage or a recovery.  `MaxIssued` bounds the IDs and keys
the server gives out, `MaxChanges` the changes in `Exchange`, `Times` the readings
of the clock.  All are constants, the theorems hold for all their values, and the
runs choose them so that the case in question happens.  Two writes of users are a
creation and a deletion, or a creation and an edit (`SPConverge`); three are a
creation, a deletion and a creation under the same name (`SPLifecycle`, `SPInbound`),
so that caches, Secrets and records of the first object meet the second; four let an
object be created, paused, resumed and deleted in any order (`SPDeletion`).  One
failure or restart may strike at any step, and two changes of the instance let it go
and come back.  To afford that, no run has every disturbance: `SPLifecycle` has no
annotations, `SPInbound` no failed calls of the server and no restart, `SPConverge`
no restart, `SPDeletion` no failures.  What takes longer repeats what was there.  Three edits and two readings
of the clock let an instance be created, deleted, created anew, and be overtaken
by the ping of its predecessor.  One object is enough for the safety properties of the
runs, each of which is about one object and what it owns; the theorems are about
any number.  In `Exchange` two changes make every pair of an old and a new spec,
or an edit and a change on the server, meet; the documents hold every order of
up to two endpoints, consumer services and keys, and every order of the three
kinds of logout endpoint.

### Fairness

`FairSpec` adds: a running reconciliation makes its next step, informers deliver,
timers fire (weak fairness of `JobStep`, `Deliver`, `SecretDeliver`, `Wake`), and
a key in the queue is taken (strong fairness of `Begin`, since the FIFO queue
serves a key whose object becomes workable again and again).  The same holds of
`ISFairSpec` and `OpFairSpec`.  Fairness is stated key by key and step by step:
a failed ping may write its message again and again, the event of that write
enqueues the instance at once, and a single condition for all of the machinery
would be met by that loop alone.  The operator sets no HTTP timeout (only the
metadata download has one, of 15 seconds), so that a call ends is an assumption
of `FairSpec`.  `InstanceReconciler` and `Operator` do without it: a server that is
`hung` gives no answer, `Ping` and `SPStep` are not enabled then, and their
properties only exclude a server that hangs for good.  No fairness is assumed of
users, administrators or the server.

### Deadlock

Every run but those of `Exchange` has `CHECK_DEADLOCK FALSE`: once the last object
is gone and the budget is used up, the system stops, as it should.  That it never
stops too early is what `NoLostWakeup`, `NeverForgotten` and the liveness
properties say.  A pass of `Exchange` is always possible.

## 3. What the runs check

Runs that pass:

| Run | Properties | What happens in it |
|---|---|---|
| `SPLifecycle` | `TypeOK`, `FinalizerGuardsRemote`, `ReadyHasId`, `NoLostWakeup`, `StatusNamesItsApplication`, `ControllerPreservesIntent`, `DeleteIsComplete`, `Ownership` | three writes of users (create, delete, create again), an application removed, a call of the server and a request to the API that fail, a restart |
| `SPInbound` | `FinalizerGuardsRemote`, `InboundBeforeReady`, `SecretKeepsEntries` | OAuth and SAML in one Secret, metadata that changes, a Secret that is deleted, or inherited and collected, a stale cache, conflicts that `setPhase` swallows, a failed request to the API, OAuth paused and resumed |
| `SPConverge` | `Convergence` | edits, changes behind the operator, a failed or lost call, with and without OAuth |
| `SPDeletion` | `NoLostWakeup`, `Convergence`, `DeletionCompletes` | objects paused and resumed at any time, an instance that goes and comes back, a restart |
| `ISHealth` | `ISTypeOK`, `ObservedIsTrue`, `NeverForgotten`, `StaleStatusIsPursued`, `TransitionTimeHonest`, `HealthFollows` | an instance created, edited, deleted, created anew, during a ping or not; a Secret and a server, up or not at first, that change unseen; a failed write or a restart |
| `OpConverge` | `InstancePromises`, `SPPromises`, `InboundInOperator`, `OwnershipInOperator`, `EndToEnd`, `OutageShows` | instance and WSO2SP (with OAuth, hence a Secret) created in any order, a server that fails or hangs at any time, or is away at first and comes at any time, a restart of the manager |
| `Exchange` | `ExTypeOK`, `InSyncMeansWanted`, `SettlesExactly`, `DefaultIsDeclared`, `SloPrefersFront`, `CertificateServes`, `AliasNamesTheHost` | specs and documents edited, applications and OAuth applications reconfigured, claims reordered, the Secret deleted |

The WSO2SP controller:

- `FinalizerGuardsRemote`: while the controller works on the server for an
  object, that object exists and has the finalizer, although the controller
  looked at a cache.
- `ReadyHasId`: Ready never without the ID that deletion needs.
- `NoLostWakeup`: unless a request to the API failed, each object that is not
  paused is queued, in work, due later or has a version on its way.
- `StatusNamesItsApplication`: with one object of one name, no issuer that is
  called like it (`Alone`), and no removal behind the operator, the ID in the status
  is that of the application, or there is none in it (`IdIsTrue`; only an object that
  is being deleted outlives its application), `AdminCanView` is true of that
  application, and an update carries the ID of the application just read, or none.
- `ControllerPreservesIntent`: the controller's writes of whole objects undo
  nothing that users wrote meanwhile, but for one: the write that puts the
  finalizer on turns `pkcePlain` on with it, which `SPPkcePlain` shows.  No other
  write changes the spec, and none annotations or deletion.
- `DeleteIsComplete`: unless a call of the server failed, an object with an ID in
  its status goes away only after the application that `spec.name` names, and, if
  nobody renamed it (`KnownByName`), only after the one with that ID.
- `Ownership`: the controller implements `AppOwnership`.
- `InboundBeforeReady`: the Secret has the credentials and the issuer before the
  last patch, unless a call of the server failed, somebody interfered, or the
  garbage collector took an inherited Secret during this very reconciliation.
- `SecretKeepsEntries`: neither protocol loses the entries of the other.
- `Convergence`: once disturbances are over and the instance stays ready, every
  managed object reaches Ready with the ID of an application that has the wanted
  configuration; the key of its OAuth application is in the Secret and in the
  application.
- `DeletionCompletes`: deleted objects go away once the instance stays ready.

The WSO2ISInstance controller and the whole:

- `ObservedIsTrue`: a Ready status whose observed generation is the current one
  names the server of the current spec.
- `NeverForgotten`: a live instance is always polled again.
- `StaleStatusIsPursued`: a status of an older generation is never left to the
  two-minute timer.
- `TransitionTimeHonest`: the transition time moves only with the condition.
- `HealthFollows`: the phase stays Ready once the server accepts the credentials
  for good, and Failed once it does not, unless a server hangs.
- `InstancePromises`: `ObservedIsTrue`, `NeverForgotten` and `StaleStatusIsPursued`
  hold in the composition too, where the manager stops for reasons that the
  controller's own budget does not count.  With one address and one write of the
  instance, the run puts only the last two to the test; `ISHealth` does so with the
  first.
- `SPPromises`: so do `FinalizerGuardsRemote`, `ReadyHasId` and `NoLostWakeup`, where
  the server refuses calls as long as the phase is out of date and the view of the
  instance follows the other controller.
- `OwnershipInOperator`: so does `Ownership`: what follows a refused call (giving
  up, or, in `handleDelete`, going on) is a step of `AppOwnership`.
- `InboundInOperator`: unless the server refused a call of this very reconciliation,
  `InboundBeforeReady` holds: what an earlier one, which was broken off, left behind
  misleads none that follows.
- `EndToEnd`: once the server accepts the credentials of the instance for good,
  every object is settled for good: converged, or gone if it was deleted (in the
  run, none is).
- `OutageShows`: once the server is lost for good, no object keeps saying Ready.

`DeletionInOperator`, `DeleteIsComplete` with the condition of `InboundInOperator`, is
proved only: the one write of the object in the run is its creation.

The data:

- `InSyncMeansWanted`: a pass that finds nothing to do is right about it; the
  record on the server has what the spec asks for.
- `SettlesExactly`: an update is followed by a pass that finds nothing to do
  exactly when a request can convey the spec.  `AppConveyed` and `OAuthConveyed` say
  when that is: they are the list of the specs that never come to rest (see
  below).
- `DefaultIsDeclared`, `SloPrefersFront`, `CertificateServes`, `AliasNamesTheHost`:
  what is registered of a metadata document follows the rules that the comments
  of `saml.go` state, whatever the order in the document.  The first two allow
  for what a missing address does: a default service without `Location` leaves
  the choice to the lowest index, and logout endpoints are promised something
  only if each has an address.  The third says which of the keys the loop ends up
  with: the first in the document that may sign, whatever stands before it.  The last one is about entity IDs that are URLs.

Runs that TLC finds violated, each of one sentence that the repository says of
itself (the quotes are in `PROJECT.json`, `findings`):

| Run | Property | What the counterexample shows |
|---|---|---|
| `SPOrphan` | `NoOrphan` | deleted after the creation of the application and before its ID is recorded: the application stays |
| `SPPkcePlain` | `SpecIsUsers` | adding the finalizer turns `pkcePlain: false` into true, through `omitempty` and the default |
| `SPSwallowed` | `InSyncIsServed` | OAuth is added while the copy is outdated by a status patch; the look-up of the OAuth application fails, the write of that failure conflicts, and Ready follows with no credentials in the Secret (the SAML part is written the same way) |
| `SPSamlUpdate` | `SamlUpdateSparesApplications` | updating a SAML service provider deletes the application named like the issuer |
| `ExAlias` | `AliasesDiffer` | two service providers on one host register different certificates under one alias |

### Where the properties stop

The properties are stated within limits that the code sets.  What lies beyond:

- After a rename, or when an application was removed and created anew, the
  update carries the ID of another application, and `AdminCanView` outlives the
  application it was true of (`wso2sp_controller.go:304`, `:59`).  Two more ways
  to the same end came up in the proof, and TLC has counterexamples of both: a
  second object with the same `spec.name`, whose deletion takes the application
  away, and an issuer called like the application, whose update as a SAML
  service provider deletes it.  `Alone` excludes them from
  `StatusNamesItsApplication`; `Convergence` is about specs of one name.
- `handleDelete` looks at the ID in the status and deletes by `spec.name`
  (`wso2sp_controller.go:401`).  When an object is renamed and deleted, the application
  with the recorded ID stays behind (TLC shows it with two names); `DeleteIsComplete` promises something of it only as long as it goes by
  that name (`KnownByName`).
- A deletion that fails on the server is logged and the finalizer removed all the same.
- A reconciliation under which the garbage collector takes an inherited Secret may
  write Ready with entries missing from it, until the next one.
- An object that is created again, whose OAuth calls fail on the way, may keep in its
  application the key that an inherited Secret has of its predecessor.  Keys are not
  compared, so that `Convergence` does not hold with three writes of users, OAuth and a
  failed call (TLC has the counterexample); `SPConverge` has two.
- `setPhase` returns early when phase and message are unchanged although the ID
  in memory is new (`helpers.go:236`), so that a new application which the
  server refuses to update under its old ID is never recorded.  The runs of
  `Convergence` have no removal in their budget.
- When a request to the API fails, `setPhase` drops the requeue: that is the
  condition of `NoLostWakeup`, and `StaysAwake` without it does not hold.
- A deleted object whose instance is gone, or never ready, stays for good.
- Specs that never come to rest: a public client, two grant types in one string
  or none, a marked step other than 0 that is not among the steps, an identity provider without
  authenticator (the next pass panics, and the panic is retried), the flag that
  sends back authenticated IdPs, and, if the server keeps blank inbound entries,
  every spec that does not use both protocols.
- Inbound keys are not compared: a key that changes after the application was
  updated is not noticed.
- The record of a SAML service provider is written once.  Only issuer and ACS URLs
  are compared, so that a new certificate or logout address never reaches the
  server, and when the URLs change the update fails unless an application has the
  issuer for a name.
- `XACMLValidator` and `RoleValidator` have each other's display name
  (`soap.go:326`); both directions use the same table, and nothing says which is
  right.

## 4. What is proved

All for every value of the constants, from the assumptions on them that the
modules state by name, and nothing else.

### `SPReconcilerProofs`

Six properties of `SPLifecycle`, from `TypesAssumption` and `BudgetAssumption`.  The
argument, in the order of the module:

1. `TypeCorrect`.  `TypeOK` is not inductive: a step uses what an earlier one
   put into the job.  `JobShape` says what each step finds (the OAuth section,
   the metadata, a deletion under way), and `TypeInv == TypeOK /\ JobShape` is.
2. `FinalizerGuards`, by `CoreInv`.  The informer ends up with the server's
   version (`InformerChain`); a copy that counts as current is the server's
   (`CurrentCopy`); for any version the controller may still read that looks
   workable, the object exists and has the finalizer now (`FinalizerStays`).
   The last one is the point: a version with finalizer and without deletion is
   never followed by one without the finalizer before all readers have passed it,
   because the finalizer is only removed by an update of the newest version,
   and that one is being deleted.  `FinalizerAtWork` carries it through a
   reconciliation, swallowed failures included (`AtWork`).
3. `ReadyComesWithId`, by `IdInv`.  IDs once recorded stay in every version that
   follows; memory, base and copy of a job agree on the ID until the application
   has been read (`IdInJob`); and if the copy had an ID, so has the server's
   object (`IdAtWork`).  So a merge patch that sends Ready either sends the ID
   too, or meets an object that has one.
4. `IntentPreserved` needs `CurrentCopy`, an update that is not refused overwrites
   what it read, and that the finalizer is added to a copy that has none
   (`JobShape`): so the default goes with the finalizer, and with no other write.
5. `NothingForgotten`.  A job that works on an old version has a version on its
   way or its key in the queue (`OldCopyFollowed`), so that a conflict that
   `setPhase` swallows does no harm.  `BudgetKept` makes "no failure so far"
   true backwards.
6. `DeletionIsComplete`, by `DroppedFirst`: in the state between the two calls
   of `handleDelete` the application is gone, and nothing creates it again
   before the finalizer is removed, because one job runs at a time.  That is the
   application called `spec.name`; it is the one with the recorded ID as well when
   that one has no other name (`KnownByName`).

Steps of the job are first sorted by their effect on the cache (`QuietJob`:
those that leave the object alone), so that each invariant is proved for a
few kinds of steps (`StepKinds`) and not for thirty actions.

### `SPSecretProofs`

Two properties of `SPInbound`, from the same assumptions.

- `EntriesStay` (`SecretKeepsEntries`).  An update of the Secret that is not
  refused meets the version that was read, so it keeps the other protocol's entry;
  its own is not blank, because only an answer with a consumer key leads to
  `oauthSecret` (`KeyInJob`) and metadata has an issuer (`JobShape`).
- `InboundFirst` (`InboundBeforeReady`), by `ServedInv`: when no call of the server
  failed and nobody interfered, no failure is an early one (of reading or creating
  an inbound configuration), since what `GetApplicationOAuth2Config` or
  `GetApplicationSAMLConfig` did not find is still not there when it is created.
  So every part of `reconcileApplication` that is over, also one that `setPhase`
  ended with a conflict and that was taken for success, has put its entry in; and
  the entry stays, because the object at work is live (`FinalizerAtWork`), so that
  only the garbage collector could take an inherited Secret.  `Spared` says that it
  did not since the job began; it only turns from true to false within a job
  (`JobStepSpares`), so the implication `Spared => PartsServed` is carried on.

### `SPOwnershipProofs`

`ControllerOwns`: the refinement `Ownership`, from the same assumptions.  The
inductive invariant `OwnInv` adds two parts to `CoreInv` and `IdInv`:

- `HandShape`: the copy of a job was live, the finalizer is added to a copy
  without one that is not being deleted, and `setPhase` writes either a failure or
  `Pending` with the ID of the copy.  So a status write outside of
  `reconcileApplication` never claims Ready or an ID (`Demote`), and the one that
  `setPhase` leaves behind belongs to a job that still has its object in hand.
- `AbsentBlank`: an object that does not exist has no status, so that one which is
  created anew begins without ID.

A write of the controller then is one of three (`WriteKinds`): of the status, of
the finalizer, or the removal of the object; what users do is one of four
(`UserKinds`).  Each of them, the start of a reconciliation, a call and a crash
is mapped to one action of `AppOwnership`.  The stage an `Engage` needs is
`FinalizerStays`, the ID a `Report` of Ready needs is `IdKept`.

### `SPStatusProofs`

`StatusIsAboutItsApplication`: the property `StatusNamesItsApplication`, from the
assumptions above.  That the object on the server says the truth is not enough,
because what a reconciliation writes comes from a copy that may be old.  The
invariant has three parts:

- `StatusFits`: the object, the copy and the memory of a job at work, and every
  version that one may come to work with, name the application of today or none,
  and `AdminCanView` only with the membership.  Of the object this holds deleted or
  not (`IdIsTrue`): one that is being deleted may also name an application that is
  gone.  Of the versions on their way it breaks when the application is deleted, by
  `DelApp`;
- hence `NothingFollows`: behind a version that is being deleted there is none to
  work on, so after `DelApp` the controller can read no version that makes it work
  with that ID;
- `BareIsBlank`: an object without finalizer has recorded nothing, so that
  `AddFinalizer` does not turn a version which may be wrong into one to work on.

The rest goes by kinds of steps: writes and users' edits (`FollowsWrite`,
`FollowsUser`), calls that only make applications grow (`CallsGrow`), and calls
that learn an ID (`CallsLearn`).

### `InstanceReconcilerProofs`

The five safety properties of `ISHealth`, from `InstanceAssumption`.  The inductive
invariant `ISInv` adds to the types that a job is about a live copy (`ISJobShape`),
that the informer ends up with the server's version (`ISChain`), that a copy which
counts as current is the server's object (`ISCurrentCopy`), that the status about
to be written says of that copy what `setPhaseNoRequeue` makes it say
(`ISStatusOfCopy`), and that no status is ahead of its object (`ISGenerations`).

- `ObservedStatusIsTrue` and `TransitionTimeIsHonest` follow from the last four: an
  update that is not refused meets the object the status was computed from, and
  an edit raises the generation above every status there is.
- `InstanceNeverForgotten` and `StaleStatusPursued` share one lemma on the steps
  (`MovingSteps`): each step keeps the reason why an instance is not forgotten, or
  hands it on to another place (queue, job, timer, backoff, version on its way);
  only the update of a current copy hands it to the timer, and that one brings
  the status up to date.

### `OperatorProofs`

Eight theorems about `OpSpec`, from `InstanceAssumption`, `TheInstanceAssumption` and
`ControllerAssumption` (the assumptions of `SPReconciler`, stated of the constants
of `Operator`).  The run has one write of the WSO2SP object, the theorems have any
number, deletions included.

- The four safety properties of `OpConverge`: `InstanceSideHolds`,
  `ControllerSideHolds`, `OperatorServesFirst` and `OperatorOwns`.
- `OperatorDeletesFirst`: `DeletionInOperator`, an object that knows its application
  outlives it, unless the server refused this very reconciliation the deletion.
- `OperatorPreservesIntent`, `OperatorKeepsEntries` and `OperatorNamesItsApplication`:
  the properties `ControllerPreservesIntent`, `SecretKeepsEntries` and
  `StatusNamesItsApplication` of `SPReconciler`, unchanged.

`InboundBeforeReady` and `DeleteIsComplete` say "unless a call of the server
failed", by the budget.  A refused call is one that no budget counts: `DeleteIsComplete`
as it stands does not hold of the operator (the finalizer is removed after a refused
deletion, `wso2sp_controller.go:401`).  The condition for both is `refused`, about
the running reconciliation only.

The invariant `OpInv` is what is invariant of each of the two alone, and
`OpHistory`.  What has to be shown is that the other one's steps, and those of the
composition, do not disturb it:

- For the WSO2ISInstance controller a step of the operator is one of its own, or
  none, or a restart that its budget does not count (`InstanceParts`); a restart
  keeps the invariant whoever counts it (`RestartKeeps`, `PromisesRestart`).
- For the WSO2SP controller it is one of its own or one of its surroundings
  (`ControllerSteps`).  `SPOwnershipProofs` describes those as `Outer`: a call is
  refused (`Refusal`), `buildClient` sees another instance (`Sight`), the manager
  stops and the next one sees another instance (`Stop`).  `OuterOwn`, `OuterAwake`,
  `OuterKey`, `OuterStatus` and `OuterRefines` show that they keep the invariants and
  are steps of `AppOwnership`, `OuterLeaves` that they leave objects and Secrets alone.
- `OpHistory` says what a job has achieved that was refused nothing: the application
  is gone before `RemoveFinalizer` (`Dropped`), the parts behind it are served
  (`PartsServed`).  It is vacuous when a job begins and from the first refused call
  on, and in between a step of the operator is one of the WSO2SP controller or a
  `Sight`, which the job does not notice (`History`, `SightKeeps`).  So `DroppedNext` and
  `ServedNext`, the step lemmas of `DeletionIsComplete` and `InboundFirst`, carry it on.

The proofs are taken over by `PR == INSTANCE SPStatusProofs WITH inst <- InstView`.
The prover takes `SP!Begin` and `PR!Begin` for two operators, so that `SameSteps`,
`SamePromises`, `SameProperties` and `SameOwnership` show first that they agree.

### `SAMLMetadataProofs` and `ExchangeProofs`

The seven safety invariants of `Exchange`, for specs with any number of claims,
steps, authenticators, grant types and validators, and for documents of any length.
The assumptions are `ExchangeAssumption` (what users write, others leave and
documents contain has the types of the API), `NoneAssumption` (`None` is no record)
and `NamesAssumption` (names are strings).

The loops of `saml.go` are folds.  The induction theorems of the library take an
operator, which the provers cannot instantiate, so the induction is done with
sets: numbers are well-founded, hence a set of positions that has 0 and with each
the next has all (`Induction`).  Each loop is unrolled into the sequence of values
that its variable takes, and its invariant is such a set of positions.  That gives
`DeclaredDefault`, `FrontChannelFirst` and `CertificateForItsUse`.

`HostIsTheAlias`, `InSyncIsWanted` and `UpdatesSettle` are about records written in
earlier steps.  Their inductive invariant is
`ExTypeOK /\ Documented /\ VerdictFits`:

- `Documented` says that the SAML service provider of an entity is what some document
  of that entity leads to.
- `VerdictFits` says what the last verdict stands for: a part that was found in
  sync is served, one that was updated is on the server as it was sent.  Every
  change resets it.

What is left is arithmetic of `builder.go` and `mapper.go`.  `BuiltSteps`,
`MappedIs`, `EncodeDecode` and `BindingBack` say what the one writes and the other
reads, field by field; `FilterRule` and `DecodeRule` what the filters keep; and
`AppSettles`, `OAuthSettles` and `SamlInSync` put them together, in both directions:
a spec that `AppConveyed` or `OAuthConveyed` admits comes back as it was, and one
that they do not admit comes back different.  The second direction makes sure that
the list of specs that never come to rest is complete and has no entry too many.

Proving this for all specs showed cases that the instances of the runs did not
contain, and the definitions now treat them as the code does: a marked step 0,
which is read back although no step has it, because no mark reads as 0; grant
types without text; endpoints and consumer services without `Location`.

### Only model-checked

Liveness under fairness (`Convergence`, `DeletionCompletes`, `HealthFollows`,
`EndToEnd`, `OutageShows`), which is beyond the prover.  A proof would need
`ENABLED` of the fair actions and an induction over the disturbances left.

All other properties of the runs that pass are theorems.

## 5. Plan

Done: both controllers and their composition, the abstract specification and the
proof that it is implemented, the data field by field, metadata, and the proofs of
all safety invariants, action properties and the refinement that the runs check.

Left: an operator whose addresses lead to different servers, each with its own
records; what should hold of two objects with one `spec.name`.

## 6. Not modelled

- The bootstrap in `cmd/main.go` beyond the two controllers and the stop of the
  process: flags, TLS, metrics, probes.  What matters of it is one active manager
  with one worker per controller; leader election is off by default, so that one
  manager is an assumption.
- Generated deep copies, CRDs, RBAC and deployment manifests, events and logs.
- The envelopes of SOAP and JSON, XML names, headers, HTTP transport and TLS, the
  plain structs of `scim.go`: their calls are steps, their encoding is not.
- `FetchIDPMetadata`, the raw-XML parsers and `RemoveSAMLApplication`, which have no
  caller; NameID formats and the signing flags, which are copied.
- The tests, which start the manager and run one reconciliation.
