-------------------------- MODULE InstanceReconciler --------------------------
(***************************************************************************)
(* The WSO2ISInstance controller: WSO2ISInstanceReconciler.Reconcile, the  *)
(* ping of the identity server and the status it records, which            *)
(* buildClient of the WSO2SP controller takes at its word.                 *)
(*                                                                         *)
(* One worker runs one reconciliation (isjob) at a time.  It reads the     *)
(* instance and its credentials from informer caches, pings the server,    *)
(* and writes the status; users, the informers, the servers and a crash    *)
(* act in between.  Only instances are watched: a change of a credentials  *)
(* Secret or of a server is noticed when RequeueAfter is over.             *)
(***************************************************************************)
EXTENDS Naturals, Sequences

CONSTANTS
    Instances,  \* keys (namespace/name) of WSO2ISInstance objects
    Urls,       \* values of spec.baseURL, one server each
    Secrets,    \* Secrets that spec.credentialsSecret may name
    Passwords,  \* contents of a complete Secret
    None,       \* "nil"
    Times,      \* readings of the clock
    ISBudget    \* how often each kind of disturbance may happen

\* edit: users' writes of instances; creds: changes of Secrets; server: outages
\* and recoveries; fault: API calls that fail, and restarts.
ISKinds == {"edit", "creds", "server", "fault"}

ASSUME InstanceAssumption ==
    /\ None \notin Urls \cup Passwords \cup Instances
    /\ Instances # {} /\ Urls # {} /\ Secrets # {} /\ Passwords # {}
    /\ Times # {} /\ None \notin Times
    /\ {"missing", "incomplete", "down", "hung"} \cap Passwords = {}
    /\ ISBudget \in [ISKinds -> Nat]

VARIABLES
    ins,      \* WSO2ISInstance objects, as the API server has them
    icache,   \* ... as the informer last delivered them
    iversions,\* ... the versions between, not yet delivered
    creds,    \* the credentials Secrets
    icreds,   \* ... as the informer last delivered them
    server,   \* the password each server accepts, or why it gives no answer
    iqueue,   \* keys in the work queue
    timer,    \* keys waiting for RequeueAfter
    backoff,  \* keys waiting for the rate limiter after an error
    isjob,    \* the reconciliation that runs
    isleft    \* what is left of ISBudget

isobjects == <<ins, icache, iversions>>
isworld   == <<creds, icreds, server>>
iscontrol == <<iqueue, timer, backoff, isjob>>
isvars    == <<isobjects, isworld, iscontrol, isleft>>

\* "hung": the connection is accepted and never answered.
Outages     == {"down", "hung"}
Credentials == {"missing", "incomplete"} \cup Passwords

\* why is the message: the step that failed, or "Connected to" url; gen is
\* ObservedGeneration and since LastTransitionTime of the condition Available,
\* whose status says whether phase is Ready.
InstSpec   == [url : Urls, sec : Secrets]
InstStatus == [phase : {"", "Pending", "Ready", "Failed"},
               why : {"", "secret", "keys", "ping", "connected"},
               url : Urls \cup {None}, gen : Nat, since : Times \cup {None}]
InstObject == [live : BOOLEAN, spec : InstSpec, gen : Nat, st : InstStatus]

NoInstStatus ==
    [phase |-> "", why |-> "", url |-> None, gen |-> 0, since |-> None]

NewInstance(spec) ==
    [live |-> TRUE, spec |-> spec, gen |-> 1, st |-> NoInstStatus]

NoInstance == [NewInstance(CHOOSE spec \in InstSpec : TRUE) EXCEPT !.live = FALSE]

\* copy is the object Get returned, pass the password read with it, st the
\* status to write, current whether the API server still has that version.
ISJob == [pc : {"idle", "ping", "status"}, key : Instances \cup {None},
          copy : InstObject, pass : Passwords \cup {None}, st : InstStatus,
          current : BOOLEAN]

ISIdle == [pc |-> "idle", key |-> None, copy |-> NoInstance, pass |-> None,
           st |-> NoInstStatus, current |-> FALSE]

ISTypeOK ==
    /\ ins \in [Instances -> InstObject] /\ icache \in [Instances -> InstObject]
    /\ iversions \in [Instances -> Seq(InstObject)]
    /\ creds \in [Secrets -> Credentials] /\ icreds \in [Secrets -> Credentials]
    /\ server \in [Urls -> Outages \cup Passwords]
    /\ iqueue \subseteq Instances
    /\ timer \subseteq Instances /\ backoff \subseteq Instances
    /\ isjob \in ISJob
    /\ isleft \in [ISKinds -> Nat]

\* A cluster without instances, and servers that are up or not.
ISInit ==
    /\ ins = [i \in Instances |-> NoInstance] /\ icache = ins
    /\ iversions = [i \in Instances |-> <<>>]
    /\ \E p \in Passwords : creds = [k \in Secrets |-> p]
    /\ \E a \in Outages \cup Passwords : server = [u \in Urls |-> a]
    /\ icreds = creds
    /\ iqueue = {} /\ timer = {} /\ backoff = {} /\ isjob = ISIdle
    /\ isleft = ISBudget

ISSpend(k) == isleft[k] > 0 /\ isleft' = [isleft EXCEPT ![k] = @ - 1]

------------------------------------------------------------------------------
(* Reconcile *)

\* setPhaseNoRequeue with setCondition: the time of the condition moves only
\* with its status.
MutWithPhase(o, phase, why, url, now) ==
    [phase |-> phase, why |-> why, url |-> url, gen |-> o.gen, since |-> now]
WithPhase(o, phase, why, url, now) ==
    LET same == o.st.phase # "" /\ (o.st.phase = "Ready" <=> phase = "Ready")
    IN  [phase |-> phase, why |-> why, url |-> url, gen |-> o.gen,
         since |-> IF same THEN o.st.since ELSE now]

MutFailedPhase(o, why, now) == WithPhase(o, "Unreachable", why, None, now)
FailedPhase(o, why, now) == WithPhase(o, "Failed", why, None, now)

ISTake(i) ==
    /\ isjob = ISIdle /\ i \in iqueue
    /\ iqueue' = iqueue \ {i}
    /\ UNCHANGED <<isobjects, isworld, timer, backoff, isleft>>

TakeGone(i) == ISTake(i) /\ ~icache[i].live /\ UNCHANGED isjob

Taken(i, pc) == [ISIdle EXCEPT !.pc = pc, !.key = i, !.copy = icache[i],
                               !.current = (iversions[i] = <<>>)]

\* The credentials Secret is looked up, and has both keys or not.
TakeLive(i) ==
    LET o == icache[i]
        c == icreds[o.spec.sec]
    IN  /\ ISTake(i) /\ o.live
        /\ \/ /\ c \notin Passwords
              /\ \E now \in Times : isjob' =
                    [Taken(i, "status") EXCEPT !.st = FailedPhase(o,
                         IF c = "missing" THEN "secret" ELSE "keys", now)]
           \/ c \in Passwords /\ isjob' = [Taken(i, "ping") EXCEPT !.pass = c]

ISBegin(i) == TakeGone(i) \/ TakeLive(i)

\* Ping: any answer but 200 is an error; the client has no timeout.
Accepted(j) == server[j.copy.spec.url] = j.pass

PingStatus(j, now) ==
    IF Accepted(j) THEN WithPhase(j.copy, "Ready", "connected", j.copy.spec.url, now)
                   ELSE FailedPhase(j.copy, "ping", now)

Ping ==
    /\ isjob.pc = "ping" /\ server[isjob.copy.spec.url] # "hung"
    /\ \E now \in Times :
          isjob' = [isjob EXCEPT !.pc = "status", !.st = PingStatus(isjob, now)]
    /\ UNCHANGED <<isobjects, isworld, iqueue, timer, backoff, isleft>>

ISPut(i, o) == /\ ins' = [ins EXCEPT ![i] = o]
               /\ iversions' = [iversions EXCEPT ![i] = Append(@, o)]
               /\ UNCHANGED icache

\* An update that changes nothing makes no version; the text of a failed ping
\* may differ from the one before although its reason is the same.
Recorded ==
    LET i == isjob.key
        o == [ins[i] EXCEPT !.st = isjob.st]
    IN  \/ ISPut(i, o) /\ (o # ins[i] \/ isjob.st.why = "ping")
        \/ o = ins[i] /\ UNCHANGED isobjects

Written == timer' = timer \cup {isjob.key} /\ UNCHANGED backoff
Errored == backoff' = backoff \cup {isjob.key} /\ UNCHANGED timer

\* Status().Update carries the resourceVersion of the copy; its error makes
\* the reconciliation fail, its success comes with RequeueAfter.
MutBlindUpdate ==
    /\ isjob.pc = "status" /\ ins[isjob.key].live
    /\ Recorded /\ Written /\ isjob' = ISIdle
    /\ UNCHANGED <<isworld, iqueue, isleft>>
MutSwallowedUpdate ==
    /\ isjob.pc = "status" /\ Written /\ isjob' = ISIdle
    /\ \/ isjob.current /\ Recorded /\ UNCHANGED isleft
       \/ ~isjob.current /\ UNCHANGED <<isobjects, isleft>>
       \/ ISSpend("fault") /\ UNCHANGED isobjects
    /\ UNCHANGED <<isworld, iqueue>>
MutReadyIsFinal ==
    /\ isjob.pc = "status" /\ isjob.current /\ Recorded
    /\ IF isjob.st.phase = "Ready" THEN UNCHANGED <<timer, backoff>> ELSE Written
    /\ isjob' = ISIdle
    /\ UNCHANGED <<isworld, iqueue, isleft>>
StatusUpdate ==
    /\ isjob.pc = "status" /\ isjob' = ISIdle
    /\ \/ isjob.current /\ Recorded /\ Written /\ UNCHANGED isleft
       \/ ~isjob.current /\ UNCHANGED <<isobjects, isleft>> /\ Errored
       \/ /\ ISSpend("fault") /\ Errored
          /\ (isjob.current /\ Recorded) \/ UNCHANGED isobjects
    /\ UNCHANGED <<isworld, iqueue>>

ISStep == Ping \/ StatusUpdate

------------------------------------------------------------------------------
(* Users, servers, the informers, timers and restarts *)

InstanceWrite(i, o) ==
    /\ ISSpend("edit") /\ ISPut(i, o)
    /\ isjob' = IF isjob.key = i THEN [isjob EXCEPT !.current = FALSE] ELSE isjob
    /\ UNCHANGED <<isworld, iqueue, timer, backoff>>

CreateInstance(i) ==
    ~ins[i].live /\ \E spec \in InstSpec : InstanceWrite(i, NewInstance(spec))

\* The API server counts the versions of the spec in metadata.generation.
EditInstance(i) ==
    /\ ins[i].live
    /\ \E spec \in InstSpec \ {ins[i].spec} :
          InstanceWrite(i, [ins[i] EXCEPT !.spec = spec, !.gen = @ + 1])

\* There is no finalizer: a deleted instance is gone.
DeleteInstance(i) == ins[i].live /\ InstanceWrite(i, NoInstance)

CredentialsChange(k) ==
    /\ ISSpend("creds")
    /\ \E c \in Credentials \ {creds[k]} : creds' = [creds EXCEPT ![k] = c]
    /\ UNCHANGED <<isobjects, icreds, server, iscontrol>>

ServerChange(u) ==
    /\ ISSpend("server")
    /\ \E a \in (Outages \cup Passwords) \ {server[u]} :
          server' = [server EXCEPT ![u] = a]
    /\ UNCHANGED <<isobjects, creds, icreds, iscontrol>>

ISDeliver(i) ==
    /\ iversions[i] # <<>>
    /\ icache' = [icache EXCEPT ![i] = Head(iversions[i])]
    /\ iversions' = [iversions EXCEPT ![i] = Tail(@)]
    /\ iqueue' = iqueue \cup {i}
    /\ UNCHANGED <<ins, isworld, timer, backoff, isjob, isleft>>

\* No watch of this controller is on Secrets: the cache changes and no key is
\* enqueued.
CredentialsDeliver(k) ==
    /\ icreds[k] # creds[k]
    /\ icreds' = [icreds EXCEPT ![k] = creds[k]]
    /\ UNCHANGED <<isobjects, creds, server, iscontrol, isleft>>

TimerFires(i) ==
    /\ i \in timer
    /\ iqueue' = iqueue \cup {i} /\ timer' = timer \ {i}
    /\ UNCHANGED <<isobjects, isworld, backoff, isjob, isleft>>

BackoffEnds(i) ==
    /\ i \in backoff
    /\ iqueue' = iqueue \cup {i} /\ backoff' = backoff \ {i}
    /\ UNCHANGED <<isobjects, isworld, timer, isjob, isleft>>

ISRestart ==
    /\ isjob' = ISIdle /\ timer' = {} /\ backoff' = {}
    /\ iqueue' = {i \in Instances : ins[i].live}
    /\ icache' = ins /\ iversions' = [i \in Instances |-> <<>>]
    /\ icreds' = creds
    /\ UNCHANGED <<ins, creds, server>>

ISCrash == ISSpend("fault") /\ ISRestart

ISUsers ==
    \/ \E i \in Instances : CreateInstance(i) \/ EditInstance(i) \/ DeleteInstance(i)
    \/ \E k \in Secrets : CredentialsChange(k)
    \/ \E u \in Urls : ServerChange(u)

ISMachinery ==
    \/ \E i \in Instances : \/ ISBegin(i) \/ ISDeliver(i)
                            \/ TimerFires(i) \/ BackoffEnds(i)
    \/ \E k \in Secrets : CredentialsDeliver(k)
    \/ ISStep

ISNext == ISMachinery \/ ISUsers \/ ISCrash

ISSpec == ISInit /\ [][ISNext]_isvars

\* Informers and timers run, and the work queue is FIFO.  A ping of a server
\* that hangs is not enabled, and nothing is assumed of it.
ISFairness ==
    /\ WF_isvars(ISStep)
    /\ \A i \in Instances : /\ SF_isvars(ISBegin(i)) /\ WF_isvars(ISDeliver(i))
                            /\ WF_isvars(TimerFires(i)) /\ WF_isvars(BackoffEnds(i))
    /\ \A k \in Secrets : WF_isvars(CredentialsDeliver(k))

ISFairSpec == ISSpec /\ ISFairness

------------------------------------------------------------------------------
(* Safety *)

\* The status of an instance whose observed generation is the current one
\* speaks of the current spec: Ready means that the server of that baseURL
\* answered, also when the instance was deleted and created anew while the
\* ping was under way (setPhaseNoRequeue, Status().Update).
ObservedIsTrue ==
    \A i \in Instances :
        ins[i].live /\ ins[i].st.phase = "Ready" /\ ins[i].st.gen = ins[i].gen =>
            ins[i].st.url = ins[i].spec.url

\* An instance is polled for ever: whatever fails, a live one is in work, in
\* the queue, due later, or has a version on its way (every return of
\* Reconcile but NotFound requeues).
NeverForgotten ==
    \A i \in Instances :
        ins[i].live => \/ i \in iqueue \cup timer \cup backoff
                       \/ isjob.key = i
                       \/ iversions[i] # <<>>

\* A status of an older generation, which buildClient takes at its word, is
\* never left to the two-minute timer: the new spec is in work, in the queue,
\* about to be retried, or on its way.
StaleStatusIsPursued ==
    \A i \in Instances :
        ins[i].live /\ ins[i].st.gen # ins[i].gen =>
            \/ i \in iqueue \cup backoff
            \/ isjob.key = i
            \/ iversions[i] # <<>>

\* LastTransitionTime moves only when the condition does, though it is
\* computed from a copy of the conditions that may be stale (setCondition).
TransitionTimeHonest ==
    [][\A i \in Instances :
          ins[i].live /\ ins'[i].live /\ ins[i].st.phase # ""
              /\ ins'[i].st.since # ins[i].st.since =>
                ~(ins[i].st.phase = "Ready" <=> ins'[i].st.phase = "Ready")]_isvars

------------------------------------------------------------------------------
(* Liveness *)

Reachable(i) ==
    /\ ins[i].live
    /\ server[ins[i].spec.url] = creds[ins[i].spec.sec]

\* The phase follows the server and the credentials, though neither is
\* watched: it stays Ready once the server accepts the credentials for good,
\* and Failed once it does not, unless some server hangs.
HealthFollows ==
    \A i \in Instances :
        LET Polled(P) == P /\ \A u \in Urls : server[u] # "hung" IN
        /\ <>[]Polled(Reachable(i)) =>
              <>[](ins[i].st.phase = "Ready" /\ ins[i].st.gen = ins[i].gen)
        /\ <>[]Polled(ins[i].live /\ ~Reachable(i)) =>
              <>[](ins[i].st.phase = "Failed")
==============================================================================
