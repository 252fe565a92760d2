---------------------- MODULE InstanceReconcilerProofs ----------------------
(***************************************************************************)
(* Theorems about InstanceReconciler, for all values of its constants:     *)
(* types, and the safety properties that the run ISHealth checks.          *)
(***************************************************************************)
EXTENDS InstanceReconciler, SequenceTheorems, TLAPS

------------------------------------------------------------------------------
(* The invariant *)

\* What a running reconciliation has found: a live object.
ISJobShape ==
    isjob.pc # "idle" => isjob.key \in Instances /\ isjob.copy.live

\* The informer ends up with the version of the API server.
ISChain ==
    \A i \in Instances :
        IF iversions[i] = <<>> THEN icache[i] = ins[i]
                               ELSE iversions[i][Len(iversions[i])] = ins[i]

\* A copy that counts as current is the object of the API server, and none of
\* its versions is on its way.
ISCurrentCopy ==
    isjob.pc # "idle" /\ isjob.current =>
        iversions[isjob.key] = <<>> /\ isjob.copy = ins[isjob.key]

\* The status about to be written says what it says of the copy.
StatusOf(st, o) ==
    /\ st \in InstStatus /\ st.gen = o.gen
    /\ st.phase = "Ready" => st.url = o.spec.url
    /\ o.st.phase # "" /\ (o.st.phase = "Ready" <=> st.phase = "Ready") =>
          st.since = o.st.since

ISStatusOfCopy == isjob.pc = "status" => StatusOf(isjob.st, isjob.copy)

\* No status is ahead of its object, so that an edit makes each one outdated.
ISGenerations == \A i \in Instances : ins[i].st.gen <= ins[i].gen

ISInv == /\ ISTypeOK /\ ISJobShape /\ ISChain /\ ISCurrentCopy /\ ISStatusOfCopy
         /\ ISGenerations

------------------------------------------------------------------------------
(* Values *)

\* The constants of the types are in their sets.
LEMMA InstanceTypes ==
    /\ NoInstStatus \in InstStatus
    /\ \A spec \in InstSpec :
          /\ NewInstance(spec) \in InstObject
          /\ NewInstance(spec).st = NoInstStatus /\ NewInstance(spec).gen = 1
    /\ NoInstance \in InstObject /\ ~NoInstance.live
    /\ NoInstance.st = NoInstStatus /\ NoInstance.gen = 1 /\ NoInstStatus.gen = 0
    /\ ISIdle \in ISJob
<1>1. NoInstStatus \in InstStatus /\ NoInstStatus.gen = 0
  BY DEF NoInstStatus, InstStatus
<1>2. \A spec \in InstSpec :
         /\ NewInstance(spec) \in InstObject
         /\ NewInstance(spec).st = NoInstStatus /\ NewInstance(spec).gen = 1
  BY <1>1 DEF NewInstance, InstObject
<1>3. (CHOOSE spec \in InstSpec : TRUE) \in InstSpec
  <2>1. PICK u \in Urls, k \in Secrets : TRUE
    BY InstanceAssumption
  <2>2. [url |-> u, sec |-> k] \in InstSpec
    BY DEF InstSpec
  <2> QED
    BY <2>2
<1>4. /\ NoInstance \in InstObject /\ ~NoInstance.live
      /\ NoInstance.st = NoInstStatus /\ NoInstance.gen = 1
  BY <1>2, <1>3 DEF NoInstance, NewInstance, InstObject
<1>5. ISIdle \in ISJob
  BY <1>1, <1>4 DEF ISIdle, ISJob
<1> QED
  BY <1>1, <1>2, <1>4, <1>5

\* setPhaseNoRequeue yields a status of the object it is given.
LEMMA PhaseFields ==
    ASSUME NEW o \in InstObject, NEW now \in Times
    PROVE  /\ \A why \in {"secret", "keys", "ping"} :
                 StatusOf(FailedPhase(o, why, now), o)
           /\ StatusOf(WithPhase(o, "Ready", "connected", o.spec.url, now), o)
<1>1. /\ o.gen \in Nat /\ o.spec.url \in Urls
      /\ o.st.since \in Times \cup {None}
  BY DEF InstObject, InstSpec, InstStatus
<1>2. ASSUME NEW why \in {"secret", "keys", "ping"}
      PROVE  StatusOf(FailedPhase(o, why, now), o)
  BY <1>1 DEF FailedPhase, WithPhase, StatusOf, InstStatus
<1>3. StatusOf(WithPhase(o, "Ready", "connected", o.spec.url, now), o)
  BY <1>1 DEF WithPhase, StatusOf, InstStatus
<1> QED
  BY <1>2, <1>3

\* A write is the last version of its object and concerns no other one.
LEMMA ISPutEffect ==
    ASSUME ISTypeOK, NEW i \in Instances, NEW o \in InstObject, ISPut(i, o)
    PROVE  /\ ins' \in [Instances -> InstObject]
           /\ iversions' \in [Instances -> Seq(InstObject)]
           /\ icache' = icache
           /\ ins'[i] = o /\ iversions'[i] # <<>>
           /\ iversions'[i][Len(iversions'[i])] = o
           /\ \A j \in Instances \ {i} : ins'[j] = ins[j] /\ iversions'[j] = iversions[j]
<1>1. iversions[i] \in Seq(InstObject)
  BY DEF ISTypeOK
<1>2. /\ Append(iversions[i], o) \in Seq(InstObject)
      /\ Append(iversions[i], o) # <<>>
      /\ Append(iversions[i], o)[Len(Append(iversions[i], o))] = o
  BY <1>1
<1> QED
  BY <1>2 DEF ISPut, ISTypeOK

------------------------------------------------------------------------------
(* The invariant holds in every step: one lemma per kind of step. *)

\* In a reconciliation that is not running nothing is claimed of the job.
LEMMA ISIdleFields == ISIdle.pc = "idle" /\ ISIdle.key = None /\ ~ISIdle.current
BY DEF ISIdle

\* The first step of a reconciliation (Reconcile up to the ping).
LEMMA BeginKeeps == ASSUME ISInv, NEW i \in Instances, ISBegin(i) PROVE ISInv'
<1>1. /\ isjob = ISIdle /\ iqueue' = iqueue \ {i}
      /\ UNCHANGED <<isobjects, isworld, timer, backoff, isleft>>
  BY DEF ISBegin, TakeGone, TakeLive, ISTake
<1>2. ISChain' /\ ISGenerations'
  BY <1>1 DEF ISInv, ISChain, ISGenerations, isobjects
<1>3. CASE TakeGone(i)
  BY <1>1, <1>2, <1>3
     DEF ISInv, TakeGone, ISTypeOK, ISJobShape, ISCurrentCopy, ISStatusOfCopy,
         isobjects, isworld
<1>4. CASE TakeLive(i)
  <2>1. /\ icache[i] \in InstObject /\ icache[i].live
        /\ icache[i].spec \in InstSpec
        /\ icreds[icache[i].spec.sec] \in Credentials
    BY <1>4 DEF TakeLive, ISInv, ISTypeOK, InstObject, InstSpec
  <2>2. /\ Taken(i, "ping") \in ISJob /\ Taken(i, "status") \in ISJob
        /\ \A pc \in {"ping", "status"} :
              LET j == Taken(i, pc) IN
              j.pc = pc /\ j.key = i /\ j.copy = icache[i]
                /\ j.current = (iversions[i] = <<>>)
    BY <2>1, InstanceTypes DEF Taken, ISIdle, ISJob
  <2>3. /\ isjob' \in ISJob /\ isjob'.pc \in {"ping", "status"} /\ isjob'.key = i
        /\ isjob'.copy = icache[i] /\ isjob'.current = (iversions[i] = <<>>)
        /\ isjob'.pc = "status" => StatusOf(isjob'.st, icache[i])
    <3>1. CASE icreds[icache[i].spec.sec] \in Passwords
      BY <1>4, <2>1, <2>2, <3>1 DEF TakeLive, ISJob
    <3>2. CASE icreds[icache[i].spec.sec] \notin Passwords
      <4>1. PICK now \in Times : \E why \in {"secret", "keys"} :
               isjob' = [Taken(i, "status") EXCEPT
                            !.st = FailedPhase(icache[i], why, now)]
        BY <1>4, <3>2 DEF TakeLive
      <4>2. PICK why \in {"secret", "keys"} :
               isjob' = [Taken(i, "status") EXCEPT
                            !.st = FailedPhase(icache[i], why, now)]
        BY <4>1
      <4>3. StatusOf(FailedPhase(icache[i], why, now), icache[i])
        BY <2>1, PhaseFields
      <4>4. FailedPhase(icache[i], why, now) \in InstStatus
        BY <4>3 DEF StatusOf
      <4> QED
        BY <2>2, <4>2, <4>3, <4>4 DEF ISJob
    <3> QED
      BY <3>1, <3>2
  <2>4. ISTypeOK'
    BY <1>1, <2>3 DEF ISInv, ISTypeOK, isobjects, isworld
  <2>5. ISJobShape' /\ ISStatusOfCopy'
    BY <2>1, <2>3 DEF ISJobShape, ISStatusOfCopy
  <2>6. ISCurrentCopy'
    BY <1>1, <2>3 DEF ISInv, ISChain, ISCurrentCopy, isobjects
  <2> QED
    BY <1>2, <2>4, <2>5, <2>6 DEF ISInv
<1> QED
  BY <1>3, <1>4 DEF ISBegin

\* The ping and what its answer makes of the status.
LEMMA PingKeeps == ASSUME ISInv, Ping PROVE ISInv'
<1>1. /\ isjob.pc = "ping" /\ isjob \in ISJob /\ isjob.copy \in InstObject
      /\ isjob.copy.spec.url \in Urls
      /\ UNCHANGED <<isobjects, isworld, iqueue, timer, backoff, isleft>>
  BY DEF Ping, ISInv, ISTypeOK, ISJob, InstObject, InstSpec
<1>2. PICK now \in Times :
         isjob' = [isjob EXCEPT !.pc = "status", !.st = PingStatus(isjob, now)]
  BY DEF Ping
<1>3. StatusOf(PingStatus(isjob, now), isjob.copy)
  BY <1>1, PhaseFields DEF PingStatus
<1>4. PingStatus(isjob, now) \in InstStatus
  BY <1>3 DEF StatusOf
<1>5. /\ isjob' \in ISJob /\ isjob'.pc = "status" /\ isjob'.key = isjob.key
      /\ isjob'.copy = isjob.copy /\ isjob'.current = isjob.current
      /\ isjob'.st = PingStatus(isjob, now)
  BY <1>1, <1>2, <1>4 DEF ISJob
<1>6. ISTypeOK'
  BY <1>1, <1>5 DEF ISInv, ISTypeOK, isobjects, isworld
<1>7. ISJobShape' /\ ISStatusOfCopy'
  BY <1>1, <1>3, <1>5 DEF ISInv, ISJobShape, ISStatusOfCopy
<1>8. ISCurrentCopy' /\ ISChain' /\ ISGenerations'
  BY <1>1, <1>5 DEF ISInv, ISCurrentCopy, ISChain, ISGenerations, isobjects
<1> QED
  BY <1>6, <1>7, <1>8 DEF ISInv

\* What Status().Update does to the objects: a new version of a current copy
\* that differs from it in the status, or nothing.
LEMMA UpdateEffect ==
    ASSUME ISInv, StatusUpdate
    PROVE  /\ isjob.key \in Instances /\ isjob' = ISIdle
           /\ UNCHANGED <<isworld, iqueue>>
           /\ LET o == [ins[isjob.key] EXCEPT !.st = isjob.st] IN
              /\ o \in InstObject /\ o.spec = ins[isjob.key].spec
              /\ o.gen = ins[isjob.key].gen /\ o.live = ins[isjob.key].live
              /\ o.st = isjob.st
              /\ \/ /\ ISPut(isjob.key, o) /\ isjob.current
                    /\ isjob.copy = ins[isjob.key]
                 \/ UNCHANGED isobjects
           /\ \/ backoff' = backoff \cup {isjob.key} /\ timer' = timer
              \/ /\ timer' = timer \cup {isjob.key} /\ backoff' = backoff
                 /\ \/ ISPut(isjob.key, [ins[isjob.key] EXCEPT !.st = isjob.st])
                    \/ ins[isjob.key].st.gen = ins[isjob.key].gen
           /\ isleft' \in [ISKinds -> Nat]
<1>1. isjob.pc = "status" /\ isjob' = ISIdle /\ UNCHANGED <<isworld, iqueue>>
  BY DEF StatusUpdate
<1>2. isjob.key \in Instances /\ isjob.st \in InstStatus /\ ins[isjob.key] \in InstObject
  BY <1>1 DEF ISInv, ISJobShape, ISTypeOK, ISJob
<1> DEFINE o == [ins[isjob.key] EXCEPT !.st = isjob.st]
<1>3. /\ o \in InstObject /\ o.spec = ins[isjob.key].spec
      /\ o.gen = ins[isjob.key].gen /\ o.live = ins[isjob.key].live /\ o.st = isjob.st
  BY <1>2 DEF InstObject
<1>4. isjob.current => isjob.copy = ins[isjob.key]
  BY <1>1 DEF ISInv, ISCurrentCopy
<1>5. isleft' \in [ISKinds -> Nat]
  <2>1. CASE UNCHANGED isleft
    BY <2>1 DEF ISInv, ISTypeOK
  <2>2. CASE ISSpend("fault")
    BY <2>2 DEF ISSpend, ISInv, ISTypeOK, ISKinds
  <2> QED
    BY <2>1, <2>2 DEF StatusUpdate
<1>6. isjob.current /\ o = ins[isjob.key] => ins[isjob.key].st.gen = ins[isjob.key].gen
  BY <1>1, <1>3, <1>4 DEF ISInv, ISStatusOfCopy, StatusOf
<1>7. Recorded => ISPut(isjob.key, o) \/ (o = ins[isjob.key] /\ UNCHANGED isobjects)
  BY DEF Recorded
<1> HIDE DEF o
<1>8. /\ \/ ISPut(isjob.key, o) /\ isjob.current /\ isjob.copy = ins[isjob.key]
         \/ UNCHANGED isobjects
      /\ \/ backoff' = backoff \cup {isjob.key} /\ timer' = timer
         \/ /\ timer' = timer \cup {isjob.key} /\ backoff' = backoff
            /\ \/ ISPut(isjob.key, o)
               \/ ins[isjob.key].st.gen = ins[isjob.key].gen
  BY <1>4, <1>6, <1>7 DEF StatusUpdate, Written, Errored
<1> QED
  BY <1>1, <1>2, <1>3, <1>5, <1>8 DEF o

\* A write of a status keeps the chain and the generations.
LEMMA UpdateKeeps == ASSUME ISInv, StatusUpdate PROVE ISInv'
<1> DEFINE k == isjob.key
           o == [ins[k] EXCEPT !.st = isjob.st]
<1>1. /\ k \in Instances /\ isjob' = ISIdle /\ UNCHANGED <<isworld, iqueue>>
      /\ o \in InstObject /\ o.gen = ins[k].gen /\ o.st = isjob.st
      /\ \/ ISPut(k, o) /\ isjob.copy = ins[k]
         \/ UNCHANGED isobjects
      /\ timer' \subseteq Instances /\ backoff' \subseteq Instances
      /\ isleft' \in [ISKinds -> Nat]
  BY UpdateEffect DEF ISInv, ISTypeOK
<1>2. isjob.pc = "status"
  BY DEF StatusUpdate
<1>3. ISJobShape' /\ ISCurrentCopy' /\ ISStatusOfCopy'
  BY <1>1, ISIdleFields DEF ISJobShape, ISCurrentCopy, ISStatusOfCopy
<1>4. CASE UNCHANGED isobjects
  <2>1. ISTypeOK'
    BY <1>1, <1>4, InstanceTypes DEF ISInv, ISTypeOK, isobjects, isworld
  <2>2. ISChain' /\ ISGenerations'
    BY <1>4 DEF ISInv, ISChain, ISGenerations, isobjects
  <2> QED
    BY <1>3, <2>1, <2>2 DEF ISInv
<1>5. CASE ISPut(k, o) /\ isjob.copy = ins[k]
  <2> HIDE DEF o
  <2>1. /\ ins' \in [Instances -> InstObject]
        /\ iversions' \in [Instances -> Seq(InstObject)] /\ icache' = icache
        /\ ins'[k] = o /\ iversions'[k] # <<>>
        /\ iversions'[k][Len(iversions'[k])] = o
        /\ \A j \in Instances \ {k} : ins'[j] = ins[j] /\ iversions'[j] = iversions[j]
    BY <1>1, <1>5, ISPutEffect DEF ISInv
  <2>2. ISTypeOK'
    BY <1>1, <2>1, InstanceTypes DEF ISInv, ISTypeOK, isworld
  <2>3. ISChain'
    BY <2>1 DEF ISInv, ISChain
  <2>4. o.st.gen = o.gen /\ o.gen \in Nat
    BY <1>1, <1>2, <1>5 DEF ISInv, ISStatusOfCopy, StatusOf, InstObject
  <2>5. ISGenerations'
    BY <2>1, <2>4 DEF ISInv, ISGenerations
  <2> QED
    BY <1>3, <2>2, <2>3, <2>5 DEF ISInv
<1> QED
  BY <1>1, <1>4, <1>5

\* A user's write: a version that the running reconciliation has not read.
LEMMA WriteKeeps ==
    ASSUME ISInv, NEW i \in Instances, NEW o \in InstObject, InstanceWrite(i, o),
           o.st.gen <= o.gen
    PROVE  ISInv'
<1>1. /\ ISPut(i, o) /\ ISSpend("edit")
      /\ isjob' = IF isjob.key = i THEN [isjob EXCEPT !.current = FALSE] ELSE isjob
      /\ UNCHANGED <<isworld, iqueue, timer, backoff>>
  BY DEF InstanceWrite
<1>2. /\ ins' \in [Instances -> InstObject]
      /\ iversions' \in [Instances -> Seq(InstObject)] /\ icache' = icache
      /\ ins'[i] = o /\ iversions'[i] # <<>>
      /\ iversions'[i][Len(iversions'[i])] = o
      /\ \A j \in Instances \ {i} : ins'[j] = ins[j] /\ iversions'[j] = iversions[j]
  BY <1>1, ISPutEffect DEF ISInv
<1>3. /\ isjob' \in ISJob /\ isjob'.pc = isjob.pc /\ isjob'.key = isjob.key
      /\ isjob'.copy = isjob.copy /\ isjob'.st = isjob.st
      /\ isjob'.current => isjob.current /\ isjob.key # i
  BY <1>1 DEF ISInv, ISTypeOK, ISJob
<1>4. ISTypeOK'
  BY <1>1, <1>2, <1>3 DEF ISInv, ISTypeOK, ISSpend, ISKinds, isworld
<1>5. ISJobShape' /\ ISStatusOfCopy'
  BY <1>3 DEF ISInv, ISJobShape, ISStatusOfCopy
<1>6. ISCurrentCopy'
  BY <1>2, <1>3 DEF ISInv, ISJobShape, ISCurrentCopy
<1>7. ISChain' /\ ISGenerations'
  BY <1>2 DEF ISInv, ISChain, ISGenerations
<1> QED
  BY <1>4, <1>5, <1>6, <1>7 DEF ISInv

\* The three kinds of users' writes, and what each does to its object.
LEMMA UserWrites ==
    ASSUME ISInv, NEW i \in Instances,
           CreateInstance(i) \/ EditInstance(i) \/ DeleteInstance(i)
    PROVE  \E o \in InstObject :
              /\ InstanceWrite(i, o) /\ o.st.gen <= o.gen
              /\ \/ o.st = NoInstStatus /\ ~(ins[i].live /\ o.live)
                 \/ o.st = ins[i].st /\ ins[i].live /\ o.st.gen # o.gen
<1>1. ins[i] \in InstObject /\ ins[i].gen \in Nat /\ ins[i].st.gen \in Nat
      /\ ins[i].st.gen <= ins[i].gen
  BY DEF ISInv, ISTypeOK, InstObject, InstStatus, ISGenerations
<1>2. CASE CreateInstance(i)
  <2>1. PICK spec \in InstSpec : ~ins[i].live /\ InstanceWrite(i, NewInstance(spec))
    BY <1>2 DEF CreateInstance
  <2>2. NewInstance(spec) \in InstObject /\ NewInstance(spec).st = NoInstStatus
        /\ NewInstance(spec).st.gen <= NewInstance(spec).gen
    BY InstanceTypes
  <2> QED
    BY <2>1, <2>2
<1>3. CASE EditInstance(i)
  <2>1. PICK spec \in InstSpec :
           /\ ins[i].live
           /\ InstanceWrite(i, [ins[i] EXCEPT !.spec = spec, !.gen = @ + 1])
    BY <1>3 DEF EditInstance
  <2> DEFINE o == [ins[i] EXCEPT !.spec = spec, !.gen = @ + 1]
  <2>2. o \in InstObject /\ o.st = ins[i].st /\ o.gen = ins[i].gen + 1
    <3>1. ins[i].gen + 1 \in Nat
      BY <1>1
    <3>2. o = [[ins[i] EXCEPT !.spec = spec] EXCEPT !.gen = ins[i].gen + 1]
      BY <1>1 DEF InstObject
    <3> QED
      BY <1>1, <3>1, <3>2 DEF InstObject
  <2>3. InstanceWrite(i, o) /\ ins[i].live
    BY <2>1
  <2> HIDE DEF o
  <2>4. o.st.gen <= o.gen /\ o.st.gen # o.gen
    BY <1>1, <2>2
  <2> QED
    BY <2>2, <2>3, <2>4
<1>4. CASE DeleteInstance(i)
  <2>1. NoInstance.st.gen <= NoInstance.gen
    BY InstanceTypes
  <2> QED
    BY <1>4, <2>1, InstanceTypes DEF DeleteInstance
<1> QED
  BY <1>2, <1>3, <1>4

\* A delivery of the informer takes the oldest version away.
LEMMA DeliverKeeps ==
    ASSUME ISInv, NEW i \in Instances, ISDeliver(i)
    PROVE  /\ ISInv' /\ iqueue' = iqueue \cup {i}
           /\ UNCHANGED <<ins, isworld, timer, backoff, isjob, isleft>>
           /\ \A j \in Instances \ {i} : iversions'[j] = iversions[j]
<1>1. /\ iversions[i] \in Seq(InstObject) /\ iversions[i] # <<>>
      /\ icache' = [icache EXCEPT ![i] = Head(iversions[i])]
      /\ iversions' = [iversions EXCEPT ![i] = Tail(iversions[i])]
      /\ iqueue' = iqueue \cup {i}
      /\ UNCHANGED <<ins, isworld, timer, backoff, isjob, isleft>>
  BY DEF ISDeliver, ISInv, ISTypeOK
<1>2. /\ Head(iversions[i]) \in InstObject /\ Tail(iversions[i]) \in Seq(InstObject)
      /\ Len(iversions[i]) \in Nat \ {0} /\ Head(iversions[i]) = iversions[i][1]
      /\ Len(Tail(iversions[i])) = Len(iversions[i]) - 1
      /\ \A n \in 1..(Len(iversions[i]) - 1) : Tail(iversions[i])[n] = iversions[i][n + 1]
  <2>1. Len(iversions[i]) \in Nat \ {0}
    BY <1>1, EmptySeq
  <2> QED
    BY <1>1, <2>1, HeadTailProperties
<1>3. Tail(iversions[i]) = <<>> => Len(iversions[i]) = 1
  <2>1. Len(<<>>) = 0
    BY EmptySeq, Zenon
  <2>2. Tail(iversions[i]) = <<>> => Len(Tail(iversions[i])) = 0
    BY <2>1, Zenon
  <2> QED
    BY <1>2, <2>2
<1>4. /\ icache'[i] = Head(iversions[i]) /\ iversions'[i] = Tail(iversions[i])
      /\ \A j \in Instances \ {i} :
            icache'[j] = icache[j] /\ iversions'[j] = iversions[j]
  BY <1>1 DEF ISInv, ISTypeOK
<1>5. ISTypeOK'
  BY <1>1, <1>2 DEF ISInv, ISTypeOK, isworld
<1>6. ISChain'
  <2>1. iversions[i][Len(iversions[i])] = ins[i]
    BY <1>1 DEF ISInv, ISChain
  <2>2. IF iversions'[i] = <<>> THEN icache'[i] = ins'[i]
                                ELSE iversions'[i][Len(iversions'[i])] = ins'[i]
    <3>1. CASE Tail(iversions[i]) = <<>>
      BY <1>1, <1>2, <1>3, <1>4, <2>1, <3>1
    <3>2. CASE Tail(iversions[i]) # <<>>
      <4>1. Len(Tail(iversions[i])) # 0
        BY <1>2, <3>2, EmptySeq
      <4>2. Len(iversions[i]) - 1 \in 1..(Len(iversions[i]) - 1)
        <5>1. Len(iversions[i]) \in Nat \ {0} /\ Len(iversions[i]) - 1 # 0
          BY <1>2, <4>1
        <5>2. \A n \in Nat \ {0} : n - 1 # 0 => n - 1 \in 1..(n - 1)
          OBVIOUS
        <5> QED
          BY <5>1, <5>2, Zenon
      <4>3. Tail(iversions[i])[Len(Tail(iversions[i]))] = ins[i]
        BY <1>2, <2>1, <4>2
      <4> QED
        BY <1>1, <1>4, <3>2, <4>3
    <3> QED
      BY <3>1, <3>2
  <2> QED
    BY <1>1, <1>4, <2>2 DEF ISInv, ISChain
<1>7. ISCurrentCopy'
  BY <1>1, <1>4 DEF ISInv, ISJobShape, ISCurrentCopy
<1>8. ISJobShape' /\ ISStatusOfCopy' /\ ISGenerations'
  BY <1>1 DEF ISInv, ISJobShape, ISStatusOfCopy, ISGenerations
<1> QED
  BY <1>1, <1>4, <1>5, <1>6, <1>7, <1>8 DEF ISInv

\* Timers, servers, credentials: no object, no version, no job.
ISElsewhere ==
    /\ UNCHANGED <<isobjects, isjob>>
    /\ iqueue \cup backoff \subseteq iqueue' \cup backoff'
    /\ iqueue \cup timer \cup backoff \subseteq iqueue' \cup timer' \cup backoff'

LEMMA ElsewhereSteps ==
    ASSUME ISInv,
           \/ \E i \in Instances : TimerFires(i) \/ BackoffEnds(i)
           \/ \E k \in Secrets : CredentialsChange(k) \/ CredentialsDeliver(k)
           \/ \E u \in Urls : ServerChange(u)
           \/ UNCHANGED isvars
    PROVE  ISTypeOK' /\ ISElsewhere
<1>1. CASE \E i \in Instances : TimerFires(i) \/ BackoffEnds(i)
  BY <1>1 DEF ISInv, ISTypeOK, TimerFires, BackoffEnds, ISElsewhere, isobjects, isworld
<1>2. CASE \E k \in Secrets : CredentialsChange(k) \/ CredentialsDeliver(k)
  <2>1. PICK k \in Secrets : CredentialsChange(k) \/ CredentialsDeliver(k)
    BY <1>2
  <2>2. /\ creds \in [Secrets -> Credentials] /\ icreds \in [Secrets -> Credentials]
        /\ isleft \in [ISKinds -> Nat]
    BY DEF ISInv, ISTypeOK
  <2>3. /\ isleft' \in [ISKinds -> Nat] /\ creds' \in [Secrets -> Credentials]
        /\ icreds' \in [Secrets -> Credentials]
        /\ UNCHANGED <<isobjects, server, iscontrol>>
    <3>1. CASE CredentialsChange(k)
      <4>1. /\ \E c \in Credentials : creds' = [creds EXCEPT ![k] = c]
            /\ ISSpend("creds") /\ UNCHANGED <<isobjects, icreds, server, iscontrol>>
        BY <3>1 DEF CredentialsChange
      <4> QED
        BY <2>2, <4>1 DEF ISSpend, ISKinds
    <3>2. CASE CredentialsDeliver(k)
      BY <2>2, <3>2 DEF CredentialsDeliver
    <3> QED
      BY <2>1, <3>1, <3>2
  <2> QED
    BY <2>3 DEF ISInv, ISTypeOK, ISElsewhere, isobjects, iscontrol
<1>3. CASE \E u \in Urls : ServerChange(u)
  <2>1. /\ isleft' \in [ISKinds -> Nat] /\ server' \in [Urls -> Outages \cup Passwords]
        /\ UNCHANGED <<isobjects, creds, icreds, iscontrol>>
    BY <1>3 DEF ISInv, ISTypeOK, ServerChange, ISSpend, ISKinds
  <2> QED
    BY <2>1 DEF ISInv, ISTypeOK, ISElsewhere, isobjects, iscontrol
<1>4. CASE UNCHANGED isvars
  BY <1>4 DEF ISInv, ISTypeOK, ISElsewhere, isvars, isobjects, isworld, iscontrol
<1> QED
  BY <1>1, <1>2, <1>3, <1>4

LEMMA ElsewhereKeeps == ASSUME ISInv, ISTypeOK', ISElsewhere PROVE ISInv'
BY DEF ISInv, ISElsewhere, isobjects, ISJobShape, ISChain, ISCurrentCopy,
       ISStatusOfCopy, ISGenerations

\* A restart reads everything anew, whoever counts it.
LEMMA RestartKeeps ==
    ASSUME ISInv, ISRestart, isleft' \in [ISKinds -> Nat]
    PROVE  ISInv'
<1>1. /\ isjob' = ISIdle /\ ins' = ins /\ icache' = ins
      /\ iversions' = [i \in Instances |-> <<>>]
  BY DEF ISRestart
<1>2. ISTypeOK'
  BY <1>1, InstanceTypes DEF ISInv, ISTypeOK, ISRestart
<1>3. ISJobShape' /\ ISCurrentCopy' /\ ISStatusOfCopy'
  BY <1>1, ISIdleFields DEF ISJobShape, ISCurrentCopy, ISStatusOfCopy
<1>4. ISChain' /\ ISGenerations'
  BY <1>1 DEF ISInv, ISChain, ISGenerations
<1> QED
  BY <1>2, <1>3, <1>4 DEF ISInv

LEMMA ISCrashKeeps == ASSUME ISInv, ISCrash PROVE ISInv'
<1>1. ISRestart /\ isleft' \in [ISKinds -> Nat]
  BY DEF ISCrash, ISSpend, ISInv, ISTypeOK, ISKinds
<1> QED
  BY <1>1, RestartKeeps

\* Every step is of one of these kinds.
LEMMA InstanceSteps ==
    ASSUME ISInv, [ISNext]_isvars
    PROVE  \/ \E i \in Instances : ISBegin(i)
           \/ Ping
           \/ StatusUpdate
           \/ \E i \in Instances : CreateInstance(i) \/ EditInstance(i) \/ DeleteInstance(i)
           \/ \E i \in Instances : ISDeliver(i)
           \/ ISCrash
           \/ ISTypeOK' /\ ISElsewhere
<1>1. CASE ISMachinery
  BY <1>1, ElsewhereSteps DEF ISMachinery, ISStep
<1>2. CASE ISUsers
  BY <1>2, ElsewhereSteps DEF ISUsers
<1>3. CASE UNCHANGED isvars
  BY <1>3, ElsewhereSteps
<1> QED
  BY <1>1, <1>2, <1>3 DEF ISNext

LEMMA ISInvInit == ASSUME ISInit PROVE ISInv
<1>1. /\ \E p \in Passwords : creds = [k \in Secrets |-> p]
      /\ \E a \in Outages \cup Passwords : server = [u \in Urls |-> a]
  BY DEF ISInit
<1>2. creds \in [Secrets -> Credentials] /\ server \in [Urls -> Outages \cup Passwords]
  BY <1>1 DEF Credentials
<1>3. ISTypeOK
  BY <1>2, InstanceTypes, InstanceAssumption DEF ISInit, ISTypeOK
<1>4. ISJobShape /\ ISCurrentCopy /\ ISStatusOfCopy
  BY ISIdleFields DEF ISInit, ISJobShape, ISCurrentCopy, ISStatusOfCopy
<1>5. ISChain /\ ISGenerations
  BY InstanceTypes DEF ISInit, ISChain, ISGenerations
<1> QED
  BY <1>3, <1>4, <1>5 DEF ISInv

LEMMA ISInvStep == ASSUME ISInv, [ISNext]_isvars PROVE ISInv'
<1>1. ASSUME NEW i \in Instances,
             CreateInstance(i) \/ EditInstance(i) \/ DeleteInstance(i)
      PROVE  ISInv'
  BY <1>1, UserWrites, WriteKeeps
<1> QED
  BY <1>1, InstanceSteps, BeginKeeps, PingKeeps, UpdateKeeps, DeliverKeeps, ISCrashKeeps,
     ElsewhereKeeps

\* The values of the variables stay in their types.
THEOREM InstanceTypeCorrect == ISSpec => []ISTypeOK
<1>1. ISInv => ISTypeOK
  BY DEF ISInv
<1> QED
  BY <1>1, ISInvInit, ISInvStep, PTL DEF ISSpec

------------------------------------------------------------------------------
(* The properties *)

\* In a cluster without instances.
LEMMA PromisesInit ==
    ASSUME ISInit PROVE ObservedIsTrue /\ NeverForgotten /\ StaleStatusIsPursued
BY InstanceTypes DEF ISInit, ObservedIsTrue, NeverForgotten, StaleStatusIsPursued

\* A restart enqueues every instance.
LEMMA PromisesRestart ==
    ASSUME ObservedIsTrue, ISRestart
    PROVE  ObservedIsTrue' /\ NeverForgotten' /\ StaleStatusIsPursued'
BY DEF ISRestart, ObservedIsTrue, NeverForgotten, StaleStatusIsPursued

\* What a step may do to the status of an object: StatusUpdate writes one that
\* was computed from the same version, users write a new spec or a new object.
LEMMA StatusSteps ==
    ASSUME ISInv, [ISNext]_isvars, NEW i \in Instances
    PROVE  \/ ins'[i] = ins[i]
           \/ /\ ins'[i].live = ins[i].live /\ ins'[i].spec = ins[i].spec
              /\ ins'[i].gen = ins[i].gen /\ StatusOf(ins'[i].st, ins[i])
           \/ ins'[i].st = NoInstStatus /\ ~(ins[i].live /\ ins'[i].live)
           \/ /\ ins'[i].st = ins[i].st /\ ins[i].live
              /\ ins'[i].st.gen # ins'[i].gen
<1>1. ASSUME NEW k \in Instances, ISBegin(k) PROVE ins' = ins
  BY <1>1 DEF ISBegin, TakeGone, TakeLive, ISTake, isobjects
<1>2. CASE Ping
  BY <1>2 DEF Ping, isobjects
<1>3. CASE StatusUpdate
  <2> DEFINE k == isjob.key
             o == [ins[k] EXCEPT !.st = isjob.st]
  <2>1. /\ k \in Instances /\ o \in InstObject /\ o.spec = ins[k].spec
        /\ o.gen = ins[k].gen /\ o.live = ins[k].live /\ o.st = isjob.st
        /\ \/ ISPut(k, o) /\ isjob.copy = ins[k]
           \/ UNCHANGED isobjects
    BY <1>3, UpdateEffect
  <2>2. StatusOf(isjob.st, isjob.copy)
    BY <1>3 DEF StatusUpdate, ISInv, ISStatusOfCopy
  <2> HIDE DEF o
  <2>3. CASE ISPut(k, o) /\ isjob.copy = ins[k]
    <3>1. ins'[k] = o /\ \A j \in Instances \ {k} : ins'[j] = ins[j]
      BY <2>1, <2>3, ISPutEffect DEF ISInv
    <3> QED
      BY <2>1, <2>2, <2>3, <3>1
  <2>4. CASE UNCHANGED isobjects
    BY <2>4 DEF isobjects
  <2> QED
    BY <2>1, <2>3, <2>4
<1>4. ASSUME NEW k \in Instances,
             CreateInstance(k) \/ EditInstance(k) \/ DeleteInstance(k)
      PROVE  \/ ins'[i] = ins[i]
             \/ ins'[i].st = NoInstStatus /\ ~(ins[i].live /\ ins'[i].live)
             \/ /\ ins'[i].st = ins[i].st /\ ins[i].live
                /\ ins'[i].st.gen # ins'[i].gen
  <2>1. PICK o \in InstObject :
           /\ InstanceWrite(k, o)
           /\ \/ o.st = NoInstStatus /\ ~(ins[k].live /\ o.live)
              \/ o.st = ins[k].st /\ ins[k].live /\ o.st.gen # o.gen
    BY <1>4, UserWrites
  <2>2. ins'[k] = o /\ \A j \in Instances \ {k} : ins'[j] = ins[j]
    BY <2>1, ISPutEffect DEF InstanceWrite, ISInv
  <2> QED
    BY <2>1, <2>2
<1>5. ASSUME NEW k \in Instances, ISDeliver(k) PROVE ins' = ins
  BY <1>5 DEF ISDeliver
<1>6. CASE ISCrash \/ ISElsewhere
  BY <1>6 DEF ISCrash, ISRestart, ISElsewhere, isobjects
<1> QED
  BY <1>1, <1>2, <1>3, <1>4, <1>5, <1>6, InstanceSteps

LEMMA ObservedStep ==
    ASSUME ISInv, ObservedIsTrue, [ISNext]_isvars
    PROVE  ObservedIsTrue'
<1> SUFFICES ASSUME NEW i \in Instances,
                    ins'[i].live, ins'[i].st.phase = "Ready",
                    ins'[i].st.gen = ins'[i].gen
             PROVE  ins'[i].st.url = ins'[i].spec.url
  BY DEF ObservedIsTrue
<1>1. NoInstStatus.phase # "Ready"
  BY DEF NoInstStatus
<1> QED
  BY <1>1, StatusSteps DEF ObservedIsTrue, StatusOf

\* Ready of the current generation means the server of the current spec.
THEOREM ObservedStatusIsTrue == ISSpec => []ObservedIsTrue
<1>1. ISInit => ObservedIsTrue
  BY PromisesInit
<1> QED
  BY <1>1, ObservedStep, ISInvInit, ISInvStep, PTL DEF ISSpec

\* The transition time moves only when the condition does.
THEOREM TransitionTimeIsHonest == ISSpec => TransitionTimeHonest
<1>1. ASSUME ISInv, [ISNext]_isvars, NEW i \in Instances,
             ins[i].live, ins'[i].live, ins[i].st.phase # "",
             ins'[i].st.since # ins[i].st.since
      PROVE  ~(ins[i].st.phase = "Ready" <=> ins'[i].st.phase = "Ready")
  BY <1>1, StatusSteps DEF StatusOf
<1> DEFINE Honest ==
      \A i \in Instances :
          ins[i].live /\ ins'[i].live /\ ins[i].st.phase # ""
              /\ ins'[i].st.since # ins[i].st.since =>
                ~(ins[i].st.phase = "Ready" <=> ins'[i].st.phase = "Ready")
<1>2. ISInv /\ [ISNext]_isvars => [Honest]_isvars
  BY <1>1
<1> QED
  BY <1>2, ISInvInit, ISInvStep, PTL DEF ISSpec, TransitionTimeHonest

\* What keeps the key of an instance moving, and what keeps a new spec so.
Moving(i)  == i \in iqueue \cup timer \cup backoff \/ isjob.key = i \/ iversions[i] # <<>>
Pursued(i) == i \in iqueue \cup backoff \/ isjob.key = i \/ iversions[i] # <<>>

\* How a key that moves goes on moving: taken for an object that is gone, it
\* was stale; recorded, it has its timer and, unless the status was there, a
\* new version.
LEMMA MovingSteps ==
    ASSUME ISInv, [ISNext]_isvars, NEW i \in Instances
    PROVE  /\ ins'[i].live /\ (ins'[i] = ins[i] => Moving(i)) => Moving(i)'
           /\ ins'[i].live /\ (ins'[i] = ins[i] => Pursued(i)) =>
                 Pursued(i)' \/ ins'[i].st.gen = ins'[i].gen
<1>1. ASSUME NEW k \in Instances, ISBegin(k) PROVE
         /\ ins' = ins
         /\ ins[i].live => /\ Moving(i) => Moving(i)'
                           /\ Pursued(i) => Pursued(i)'
  <2>1. /\ UNCHANGED <<isobjects, timer, backoff>> /\ isjob = ISIdle
        /\ iqueue' = iqueue \ {k}
        /\ TakeGone(k) => isjob' = isjob
    BY <1>1 DEF ISBegin, TakeGone, TakeLive, ISTake
  <2>2. TakeLive(k) => isjob'.key = k
    <3>1. /\ Taken(k, "ping") \in ISJob /\ Taken(k, "ping").key = k
          /\ Taken(k, "status") \in ISJob /\ Taken(k, "status").key = k
      BY InstanceTypes DEF ISInv, ISTypeOK, Taken, ISIdle, ISJob
    <3> QED
      BY <3>1 DEF TakeLive, ISJob
  <2>3. isjob.key # i
    BY <2>1, ISIdleFields, InstanceAssumption
  <2>4. CASE k # i
    BY <1>1, <2>1, <2>2, <2>3, <2>4 DEF ISBegin, Moving, Pursued, isobjects
  <2>5. CASE k = i /\ TakeGone(k)
    <3>1. ins[i].live => iversions'[i] # <<>>
      BY <2>1, <2>5 DEF TakeGone, ISInv, ISChain, isobjects
    <3> QED
      BY <2>1, <3>1 DEF Moving, Pursued, isobjects
  <2>6. CASE k = i /\ TakeLive(k)
    BY <2>1, <2>2, <2>6 DEF Moving, Pursued, isobjects
  <2> QED
    BY <1>1, <2>4, <2>5, <2>6 DEF ISBegin
<1>2. CASE Ping
  <2>1. isjob'.key = isjob.key
    BY <1>2 DEF Ping, ISInv, ISTypeOK, ISJob
  <2> QED
    BY <1>2, <2>1 DEF Ping, Moving, Pursued, isobjects
<1>3. CASE StatusUpdate
  <2> DEFINE k == isjob.key
             o == [ins[k] EXCEPT !.st = isjob.st]
  <2>1. /\ k \in Instances /\ o \in InstObject /\ iqueue' = iqueue
        /\ ISPut(k, o) \/ UNCHANGED isobjects
        /\ \/ backoff' = backoff \cup {k} /\ timer' = timer
           \/ /\ timer' = timer \cup {k} /\ backoff' = backoff
              /\ ISPut(k, o) \/ ins[k].st.gen = ins[k].gen
    BY <1>3, UpdateEffect
  <2> HIDE DEF o
  <2>2. ISPut(k, o) => /\ iversions'[k] # <<>>
                       /\ \A j \in Instances \ {k} :
                             ins'[j] = ins[j] /\ iversions'[j] = iversions[j]
    BY <2>1, ISPutEffect DEF ISInv
  <2>3. CASE k = i
    <3>1. Moving(i)'
      BY <2>1, <2>3 DEF Moving
    <3>2. CASE ISPut(k, o)
      BY <2>2, <2>3, <3>1, <3>2 DEF Pursued
    <3>3. CASE UNCHANGED isobjects
      <4>1. i \in backoff' \/ ins'[i].st.gen = ins'[i].gen \/ iversions'[i] # <<>>
        BY <2>1, <2>2, <2>3, <3>3 DEF isobjects
      <4> QED
        BY <3>1, <4>1 DEF Pursued
    <3> QED
      BY <2>1, <3>2, <3>3
  <2>4. CASE k # i
    <3>1. /\ ins'[i] = ins[i] /\ iversions'[i] = iversions[i]
      BY <2>1, <2>2, <2>4 DEF isobjects
    <3> QED
      BY <2>1, <2>4, <3>1 DEF Moving, Pursued
  <2> QED
    BY <2>3, <2>4
<1>4. ASSUME NEW k \in Instances,
             CreateInstance(k) \/ EditInstance(k) \/ DeleteInstance(k)
      PROVE  \/ Moving(i)' /\ Pursued(i)'
             \/ ins'[i] = ins[i] /\ (Moving(i) => Moving(i)') /\ (Pursued(i) => Pursued(i)')
  <2>1. PICK o \in InstObject : InstanceWrite(k, o)
    BY <1>4, UserWrites
  <2>2. /\ iversions'[k] # <<>>
        /\ \A j \in Instances \ {k} : ins'[j] = ins[j] /\ iversions'[j] = iversions[j]
    BY <2>1, ISPutEffect DEF InstanceWrite, ISInv
  <2>3. /\ isjob'.key = isjob.key /\ UNCHANGED <<iqueue, timer, backoff>>
    BY <2>1 DEF InstanceWrite, ISInv, ISTypeOK, ISJob
  <2> QED
    BY <2>2, <2>3 DEF Moving, Pursued
<1>5. ASSUME NEW k \in Instances, ISDeliver(k)
      PROVE  /\ ins' = ins
             /\ (Moving(i) => Moving(i)') /\ (Pursued(i) => Pursued(i)')
  BY <1>5, DeliverKeeps DEF Moving, Pursued
<1>6. CASE ISCrash
  <2>1. ins' = ins /\ iqueue' = {k \in Instances : ins[k].live}
    BY <1>6 DEF ISCrash, ISRestart
  <2> QED
    BY <2>1 DEF Moving, Pursued
<1>7. CASE ISElsewhere
  BY <1>7 DEF ISElsewhere, Moving, Pursued, isobjects
<1> QED
  BY <1>1, <1>2, <1>3, <1>4, <1>5, <1>6, <1>7, InstanceSteps

LEMMA ForgottenStep ==
    ASSUME ISInv, NeverForgotten, [ISNext]_isvars
    PROVE  NeverForgotten'
BY MovingSteps DEF NeverForgotten, Moving

LEMMA PursuedStep ==
    ASSUME ISInv, StaleStatusIsPursued, [ISNext]_isvars
    PROVE  StaleStatusIsPursued'
BY MovingSteps DEF StaleStatusIsPursued, Pursued

\* No live instance is ever forgotten: it is polled again, whatever fails.
THEOREM InstanceNeverForgotten == ISSpec => []NeverForgotten
<1>1. ISInit => NeverForgotten
  BY PromisesInit
<1> QED
  BY <1>1, ForgottenStep, ISInvInit, ISInvStep, PTL DEF ISSpec

\* A status of an older generation is never left to the timer.
THEOREM StaleStatusPursued == ISSpec => []StaleStatusIsPursued
<1>1. ISInit => StaleStatusIsPursued
  BY PromisesInit
<1> QED
  BY <1>1, PursuedStep, ISInvInit, ISInvStep, PTL DEF ISSpec
==============================================================================
