------------------------------- MODULE Operator -------------------------------
(***************************************************************************)
(* The operator: both controllers in one manager.  The WSO2SP controller   *)
(* sees an instance as the informer last delivered it (buildClient), works *)
(* against the server that instance names, and shares the fate of the      *)
(* process with the WSO2ISInstance controller.  Each of the two has its    *)
(* own worker, so their steps interleave.                                  *)
(***************************************************************************)
EXTENDS InstanceReconciler

CONSTANTS
    SPs, Names, Issuers, Bodies, AcsLists, Bare, Specs, Skips, KeepsBlank, Budget, MaxIssued,
    TheInstance  \* the instance that every spec.instanceRef names

ASSUME TheInstanceAssumption == TheInstance \in Instances

VARIABLES
    sps, cache, pending, md, secret, seen, legacy, queue, delayed, job,
    apps, oauth, saml, issued, left,
    client,      \* the url and password of the client of the running job
    refused      \* has a server refused it a call? (history, read by properties only)

spvars == <<sps, cache, pending, md, secret, seen, legacy, queue, delayed,
            job, apps, oauth, saml, issued, left>>
opvars == <<isvars, spvars, client, refused>>

\* buildClient: the phase is taken at its word, and the Secret has to be there;
\* whether it is complete is not looked at.
InstView ==
    LET o == icache[TheInstance] IN
    IF ~o.live THEN "Missing"
    ELSE IF o.st.phase = "Ready" /\ icreds[o.spec.sec] # "missing" THEN "Ready"
    ELSE "NotReady"

NewClient == [url  |-> icache[TheInstance].spec.url,
              pass |-> icreds[icache[TheInstance].spec.sec]]

SP == INSTANCE SPReconciler WITH inst <- InstView

ASSUME ControllerAssumption ==
    /\ Bare \in Bodies
    /\ Specs \subseteq SP!SPSpec /\ Specs # {}
    /\ Skips \subseteq SUBSET SP!Components
    /\ None \notin SPs \cup Issuers \cup AcsLists \cup SP!OAuthCfg \cup SP!Metadata
    /\ KeepsBlank \in BOOLEAN
    /\ Budget \in [SP!Kinds -> Nat] /\ MaxIssued \in Nat

OpInit == ISInit /\ SP!Init /\ client = None /\ refused = FALSE

------------------------------------------------------------------------------
(* Steps of the WSO2SP controller *)

\* The steps that call the identity server.
Calls == {"oauthGet", "oauthCreate", "oauthUpdate", "samlGet", "samlCreate",
          "samlDelete", "samlReadd", "appGet", "appCreate", "appUpdate",
          "adminGet", "adminJoin", "delApp"}

Answers == server[client.url] = client.pass
Hangs   == server[client.url] = "hung"

SPBegin(s) ==
    /\ job.pc = "idle" /\ UNCHANGED isvars
    /\ SP!Begin(s)
    /\ client' = IF job'.pc = "idle" THEN None ELSE NewClient
    /\ UNCHANGED refused

\* A client lives as long as the job.
KeepsClient(Refused) ==
    IF job'.pc = "idle" THEN client' = None /\ refused' = FALSE
    ELSE UNCHANGED client /\ refused' = Refused

SPStep ==
    /\ job.pc # "idle" /\ UNCHANGED isvars
    /\ job.pc \in Calls => Answers
    /\ SP!JobStep
    /\ KeepsClient(refused)

\* A refused call that is taken for done.
MutSPRefused ==
    /\ job.pc \in Calls /\ ~Answers /\ ~Hangs
    /\ UNCHANGED isvars
    /\ IF server[client.url] = "down" THEN SP!Done ELSE SP!Fail
    /\ UNCHANGED <<sps, cache, pending, md, secret, seen, legacy, queue,
                   apps, oauth, saml, issued, left>>
    /\ KeepsClient(TRUE)

\* Every call of a server that is down, or refuses the credentials, is an
\* error; GetApplicationOAuth2Config dereferences the answer that is not there,
\* and handleDelete goes on.
SPRefused ==
    /\ job.pc \in Calls /\ ~Answers /\ ~Hangs
    /\ UNCHANGED isvars
    /\ CASE job.pc = "delApp" -> SP!Goto("rmFin")
         [] job.pc = "oauthGet" /\ server[client.url] = "down" -> SP!Requeue
         [] OTHER -> SP!Fail
    /\ UNCHANGED <<sps, cache, pending, md, secret, seen, legacy, queue,
                   apps, oauth, saml, issued, left>>
    /\ KeepsClient(TRUE)

SPUsers == UNCHANGED <<isvars, client, refused>> /\ SP!Users

\* The informers and timers of an object.
SPDeliver(s) ==
    pending[s] # <<>> /\ UNCHANGED <<isvars, client, refused>> /\ SP!Deliver(s)
SPSecretDeliver(s) ==
    seen[s] # secret[s] /\ UNCHANGED <<isvars, client, refused>> /\ SP!SecretDeliver(s)
SPWake(s) ==
    s \in delayed /\ UNCHANGED <<isvars, client, refused>> /\ SP!Wake(s)

------------------------------------------------------------------------------
(* Steps of the WSO2ISInstance controller, and of the process *)

Aside(Step) == UNCHANGED <<spvars, client, refused>> /\ Step

\* Both controllers go down with the manager.
OpCrash ==
    /\ SP!Spend("crash") /\ UNCHANGED isleft
    /\ ISRestart /\ SP!Restart
    /\ client' = None /\ refused' = FALSE

OpNext ==
    \/ \E s \in SPs : SPBegin(s) \/ SPDeliver(s) \/ SPSecretDeliver(s) \/ SPWake(s)
    \/ SPStep \/ SPRefused \/ SPUsers
    \/ Aside(ISMachinery) \/ Aside(ISUsers)
    \/ OpCrash

OpSpec == OpInit /\ [][OpNext]_opvars

\* The two workers, the informers and the timers run on.
OpFairness ==
    /\ WF_opvars(SPStep \/ SPRefused)
    /\ \A s \in SPs : /\ SF_opvars(SPBegin(s)) /\ WF_opvars(SPDeliver(s))
                      /\ WF_opvars(SPSecretDeliver(s)) /\ WF_opvars(SPWake(s))
    /\ WF_opvars(Aside(ISStep))
    /\ \A i \in Instances :
          /\ SF_opvars(Aside(ISBegin(i))) /\ WF_opvars(Aside(ISDeliver(i)))
          /\ WF_opvars(Aside(TimerFires(i))) /\ WF_opvars(Aside(BackoffEnds(i)))
    /\ \A k \in Secrets : WF_opvars(Aside(CredentialsDeliver(k)))

OpFairSpec == OpSpec /\ OpFairness

------------------------------------------------------------------------------
(* Safety of the whole: neither controller breaks what the other one promises, *)
(* although they share a process, and the calls of one are refused whenever    *)
(* the status that the other recorded is out of date.                          *)

\* What the WSO2ISInstance controller promises: a Ready status is about the
\* current spec, and no instance, no outdated status is left without a key in
\* the queue or a timer, also when the manager stops for other reasons.
InstancePromises == ObservedIsTrue /\ NeverForgotten /\ StaleStatusIsPursued

\* What the WSO2SP controller promises: the finalizer precedes every call, Ready
\* comes with an ID, and no object is forgotten, however often the server
\* refuses calls (which no budget counts here, doSOAP) and whatever buildClient
\* makes of the instance in between.
SPPromises == SP!FinalizerGuardsRemote /\ SP!ReadyHasId /\ SP!NoLostWakeup

\* With refused calls and a changing instance the WSO2SP controller still
\* implements AppOwnership: handleDelete goes on after a refused call only with
\* an object that is being deleted, and reconcileApplication gives up its object.
OwnershipInOperator == SP!Ownership

\* The inbound protocols are served before Ready whatever the server does,
\* unless it refused this very reconciliation a call: one that found it away
\* leaves nothing behind that a later one relies on (reconcileApplication).
InboundInOperator == ~refused => SP!InboundBeforeReady

\* The application that spec.name names, and the one with the ID in the status if it
\* goes by that name, go before the finalizer, unless the server refused this very
\* reconciliation its deletion (handleDelete).
DeletionInOperator ==
    [][~refused /\ left["remote"] = Budget["remote"] =>
          \A s \in SPs : SP!Released(s) /\ sps[s].st.id # 0 =>
              /\ apps'[sps[s].spec.name].id = 0
              /\ SP!KnownByName(s) => \A n \in Names : apps'[n].id # sps[s].st.id]_opvars

------------------------------------------------------------------------------
(* Liveness of the whole *)

NoHang == \A u \in Urls : server[u] # "hung"

\* An object that is not paused has the wanted state, and none is waiting for
\* its deletion.
Settled(s) ==
    sps[s].live /\ ~SP!SkipReconcile("app", sps[s]) =>
        ~sps[s].deleting /\ SP!Converged(s)

\* Once the server accepts the credentials of the instance for good, every
\* object reaches the wanted state and stays there, and every deleted one goes
\* away: the phase recovers from an outage, and no reconciliation is lost to it.
EndToEnd ==
    <>[](NoHang /\ Reachable(TheInstance)) => <>[](\A s \in SPs : Settled(s))

\* Once the server is lost for good, no object keeps saying that its
\* application is in sync, though nothing tells the WSO2SP controller of it.
OutageShows ==
    <>[](NoHang /\ ins[TheInstance].live /\ ~Reachable(TheInstance)) =>
        <>[](\A s \in SPs : SP!Managed(s) => sps[s].st.phase # "Ready")
==============================================================================
