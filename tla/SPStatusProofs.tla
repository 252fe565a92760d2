----------------------------- MODULE SPStatusProofs -----------------------------
(***************************************************************************)
(* The status is about the application that there is, for all values of    *)
(* the constants: what the WSO2SP controller records of an application, or  *)
(* is about to record, is true of it, and what a deletion leaves behind is *)
(* never worked with.                                                      *)
(***************************************************************************)
EXTENDS SPOwnershipProofs

------------------------------------------------------------------------------
(* The order of versions *)

\* A version to work on is a guarded object.
LEMMA WorkableStage == \A o : Workable(o) <=> Stage(o) = "guarded"
BY DEF Workable, Stage

\* The version of the server is the last one that the controller may read.
LEMMA LastReadable ==
    ASSUME KubeOK, InformerChain, NEW s \in SPs
    PROVE  /\ sps[s] \in Readable(s) /\ cache[s] \in Readable(s)
           /\ pending[s] # <<>> => /\ Len(pending[s]) \in 1..Len(pending[s])
                                   /\ pending[s][Len(pending[s])] = sps[s]
<1>1. pending[s] \in Seq(SPObject) /\ cache[s] \in Readable(s)
  BY DEF KubeOK, Readable
<1>2. CASE pending[s] = <<>>
  BY <1>1, <1>2 DEF InformerChain, Readable
<1>3. CASE pending[s] # <<>>
  <2>1. Len(pending[s]) \in Nat \ {0}
    BY <1>1, <1>3, EmptySeq
  <2> QED
    BY <1>1, <1>3, <2>1 DEF InformerChain, Readable
<1> QED
  BY <1>2, <1>3

\* As long as the version of the server is one to work on, none is being
\* deleted.
LEMMA NoneDeleting ==
    ASSUME KubeOK, InformerChain, NEW s \in SPs, InOrder(s), Workable(sps[s])
    PROVE  \A o \in Readable(s) : ~o.deleting
<1>1. CASE pending[s] = <<>>
  <2>1. Len(<<>>) = 0
    BY EmptySeq, Zenon
  <2>2. Readable(s) = {cache[s]} /\ cache[s] = sps[s]
    BY <1>1, <2>1 DEF Readable, InformerChain
  <2> QED
    BY <2>2 DEF Workable
<1>2. CASE pending[s] # <<>>
  <2>1. pending[s][Len(pending[s])] = sps[s] /\ Len(pending[s]) \in 1..Len(pending[s])
    BY <1>2, LastReadable
  <2>2. ~cache[s].deleting
    BY <2>1 DEF InOrder
  <2>3. ASSUME NEW i \in 1..Len(pending[s]) PROVE ~pending[s][i].deleting
    <3>1. CASE i = Len(pending[s])
      BY <2>1, <3>1 DEF Workable
    <3>2. CASE i < Len(pending[s])
      BY <2>1, <3>2 DEF InOrder
    <3> QED
      BY <2>1, <3>1, <3>2
  <2> QED
    BY <2>2, <2>3 DEF Readable
<1> QED
  BY <1>1, <1>2

\* A write keeps the order when it does not revive what is being deleted.
LEMMA InOrderAfterPut ==
    ASSUME KubeOK, \A t \in SPs : InOrder(t), NEW s \in SPs, NEW o \in SPObject,
           Put(s, o), Workable(o) => \A v \in Readable(s) : ~v.deleting
    PROVE  \A t \in SPs : InOrder(t)'
<1> SUFFICES ASSUME NEW t \in SPs PROVE InOrder(t)'
  OBVIOUS
<1>1. /\ cache' = cache
      /\ pending'[t] = IF t = s THEN Append(pending[t], o) ELSE pending[t]
      /\ pending[t] \in Seq(SPObject) /\ InOrder(t)
  BY DEF KubeOK, Put
<1>2. CASE t # s
  BY <1>1, <1>2 DEF InOrder
<1>3. CASE t = s
  <2> DEFINE n == Len(pending[s])
             p == pending'[s]
  <2>1. /\ n \in Nat /\ Len(p) = n + 1 /\ p[n + 1] = o
        /\ \A i \in 1..n : p[i] = pending[s][i]
    BY <1>1, <1>3
  <2>2. cache[s] \in Readable(s) /\ \A i \in 1..n : pending[s][i] \in Readable(s)
    BY DEF Readable
  <2>3. \A i \in 1..Len(p) : i \in 1..n \/ i = n + 1
    BY <2>1
  <2>4. ASSUME cache[s].deleting, NEW i \in 1..Len(p) PROVE ~Workable(p[i])
    <3>1. CASE i \in 1..n
      BY <1>1, <1>3, <2>1, <2>4, <3>1 DEF InOrder
    <3>2. CASE i = n + 1
      BY <2>1, <2>2, <2>4, <3>2
    <3> QED
      BY <2>3, <2>4, <3>1, <3>2
  <2>5. ASSUME NEW i \in 1..Len(p), NEW j \in 1..Len(p), i < j, p[i].deleting
        PROVE  ~Workable(p[j])
    <3>1. i \in 1..n
      BY <2>1, <2>5
    <3>2. p[i] = pending[s][i] /\ p[i] \in Readable(s)
      BY <2>1, <2>2, <3>1
    <3>3. CASE j \in 1..n
      BY <1>1, <1>3, <2>1, <2>5, <3>1, <3>2, <3>3 DEF InOrder
    <3>4. CASE j = n + 1
      BY <2>1, <2>5, <3>2, <3>4
    <3> QED
      BY <2>3, <3>3, <3>4
  <2> QED
    BY <1>1, <1>3, <2>4, <2>5 DEF InOrder
<1> QED
  BY <1>2, <1>3

\* So does a delivery.
LEMMA InOrderAfterDeliver ==
    ASSUME KubeOK, \A t \in SPs : InOrder(t), NEW s \in SPs, Deliver(s)
    PROVE  \A t \in SPs : InOrder(t)'
<1> SUFFICES ASSUME NEW t \in SPs PROVE InOrder(t)'
  OBVIOUS
<1>1. CASE t # s
  <2>1. pending'[t] = pending[t] /\ cache'[t] = cache[t]
    BY <1>1 DEF Deliver, KubeOK
  <2> QED
    BY <2>1 DEF InOrder
<1>2. CASE t = s
  <2> DEFINE p == pending[s]
             q == pending'[s]
  <2>1. /\ p \in Seq(SPObject) /\ p # <<>> /\ cache'[s] = Head(p) /\ q = Tail(p)
        /\ InOrder(s)
    BY DEF Deliver, KubeOK
  <2>2. /\ Len(p) \in Nat \ {0} /\ Head(p) = p[1] /\ Len(q) = Len(p) - 1
        /\ \A i \in 1..Len(q) : q[i] = p[i + 1]
    <3>1. Len(p) \in Nat \ {0}
      BY <2>1, EmptySeq
    <3>2. Len(Tail(p)) = Len(p) - 1 /\ \A i \in 1..Len(Tail(p)) : Tail(p)[i] = p[i + 1]
      BY <2>1, HeadTailProperties
    <3> QED
      BY <2>1, <3>1, <3>2
  <2> HIDE DEF p, q
  <2>3. ASSUME cache'[s].deleting, NEW i \in 1..Len(q) PROVE ~Workable(q[i])
    <3>1. 1 \in 1..Len(p) /\ i + 1 \in 1..Len(p) /\ 1 < i + 1
      BY <2>2
    <3> QED
      BY <2>1, <2>2, <2>3, <3>1 DEF InOrder, p
  <2>4. ASSUME NEW i \in 1..Len(q), NEW j \in 1..Len(q), i < j, q[i].deleting
        PROVE  ~Workable(q[j])
    <3>1. i + 1 \in 1..Len(p) /\ j + 1 \in 1..Len(p) /\ i + 1 < j + 1
      BY <2>2, <2>4
    <3> QED
      BY <2>1, <2>2, <2>4, <3>1 DEF InOrder, p
  <2> QED
    BY <1>2, <2>3, <2>4 DEF InOrder, q
<1> QED
  BY <1>1, <1>2

------------------------------------------------------------------------------
(* What is written, and the version it leaves to read *)

\* A write of the controller leaves the object alone, or gives it a version
\* that is the old one again, or of one of the three kinds.
LEMMA WriteForm ==
    ASSUME OwnInv, Writes, NEW s \in SPs, s = job.sp
    PROVE  \/ UNCHANGED kube
           \/ \E o \in SPObject :
                 /\ Put(s, o)
                 /\ \/ o = sps[s]
                    \/ StatusWrite(s, o) \/ GuardWrite(s, o) \/ ReleaseWrite(s, o)
<1>1. CASE \E o \in SPObject : Put(s, o)
  <2>1. PICK o \in SPObject : Put(s, o)
    BY <1>1
  <2>2. sps'[s] = o
    BY <2>1 DEF Put, OwnInv, CoreInv, TypeInv, TypeOK, KubeOK
  <2>3. CASE UNCHANGED sps
    BY <2>1, <2>2, <2>3
  <2>4. CASE ~UNCHANGED sps
    <3>1. PICK v \in SPObject :
             /\ sps' = [sps EXCEPT ![s] = v]
             /\ StatusWrite(s, v) \/ GuardWrite(s, v) \/ ReleaseWrite(s, v)
      BY <2>4, WriteKinds
    <3>2. v = o
      BY <2>2, <3>1 DEF OwnInv, CoreInv, TypeInv, TypeOK, KubeOK
    <3> QED
      BY <2>1, <3>1, <3>2
  <2> QED
    BY <2>3, <2>4
<1> QED
  BY <1>1, WriteOutcome DEF OwnInv

\* A user gives the object a version that is none to work on, unless the last
\* one was, and leaves the job at what it does.
LEMMA UserForm ==
    ASSUME TypeInv, NEW s \in SPs,
           CreateSP(s) \/ EditSpec(s) \/ Annotate(s) \/ DeleteSP(s)
    PROVE  /\ job'.pc = job.pc /\ job'.sp = job.sp /\ job'.copy = job.copy
           /\ job'.mem = job.mem /\ UNCHANGED apps
           /\ \E o \in SPObject :
                 /\ Put(s, o) /\ UserKinds(s, o) /\ (~o.live => o.st = NoStatus)
                 /\ Workable(o) => Workable(sps[s])
<1>1. PICK o \in SPObject : Put(s, o)
  BY UserOutcome DEF UserWrite
<1>2. PICK v \in SPObject :
         sps' = [sps EXCEPT ![s] = v] /\ UserKinds(s, v) /\ (~v.live => v.st = NoStatus)
  BY UserObject
<1>3. v = o
  BY <1>1, <1>2 DEF Put, TypeInv, TypeOK, KubeOK
<1>4. Workable(v) => Workable(sps[s])
  BY <1>2, WorkableStage DEF UserKinds
<1> QED
  BY <1>1, <1>2, <1>3, <1>4, UserHand

\* Where the deletion of an application leaves the job.
Deletion == {"delApp", "rmFin"}

LEMMA DeletionSteps == Deletion \cap (AppSteps \cup {"idle", "setPhase"}) = {}
BY StepSets DEF Deletion

------------------------------------------------------------------------------
(* Nothing to work on follows a deletion *)

LEMMA FollowsWrite ==
    ASSUME OwnInv, NothingFollows, Writes
    PROVE  NothingFollows'
<1>1. KubeOK /\ InformerChain /\ \A s \in SPs : InOrder(s)
  BY DEF OwnInv, CoreInv, TypeInv, TypeOK, NothingFollows
<1>2. job'.pc \notin Deletion
  BY WritesInHand, IdleHand, DeletionSteps DEF OwnInv, CoreInv
<1>3. PICK s \in SPs : s = job.sp
  BY WritesInHand DEF OwnInv, CoreInv
<1>4. \A t \in SPs : InOrder(t)'
  <2>1. CASE UNCHANGED kube
    BY <1>1, <2>1 DEF kube, InOrder
  <2>2. ASSUME NEW o \in SPObject, Put(s, o),
               \/ o = sps[s]
               \/ StatusWrite(s, o) \/ GuardWrite(s, o) \/ ReleaseWrite(s, o)
        PROVE  \A t \in SPs : InOrder(t)'
    <3>1. sps[s] \in SPObject
      BY <1>1 DEF KubeOK
    <3>2. CASE GuardWrite(s, o)
      <4>1. Len(<<>>) = 0
        BY EmptySeq, Zenon
      <4>2. Readable(s) = {sps[s]} /\ ~sps[s].deleting
        BY <3>2, <4>1 DEF GuardWrite, Readable
      <4> QED
        BY <1>1, <2>2, <4>2, InOrderAfterPut
    <3>3. CASE ~GuardWrite(s, o)
      <4>1. Workable(o) => Workable(sps[s])
        BY <2>2, <3>1, <3>3, GoneFields DEF StatusWrite, ReleaseWrite, Workable, SPObject
      <4>2. Workable(o) => \A v \in Readable(s) : ~v.deleting
        BY <1>1, <4>1, NoneDeleting
      <4> QED
        BY <1>1, <2>2, <4>2, InOrderAfterPut
    <3> QED
      BY <3>2, <3>3
  <2> QED
    BY <1>3, <2>1, <2>2, WriteForm
<1> QED
  BY <1>2, <1>4 DEF NothingFollows, Deletion

LEMMA FollowsUser ==
    ASSUME OwnInv, NothingFollows, NEW s \in SPs,
           CreateSP(s) \/ EditSpec(s) \/ Annotate(s) \/ DeleteSP(s)
    PROVE  NothingFollows'
<1>1. KubeOK /\ InformerChain /\ TypeInv /\ \A t \in SPs : InOrder(t)
  BY DEF OwnInv, CoreInv, TypeInv, TypeOK, NothingFollows
<1>2. PICK o \in SPObject : Put(s, o) /\ (Workable(o) => Workable(sps[s]))
  BY <1>1, UserForm
<1>3. \A t \in SPs : InOrder(t)'
  <2>1. Workable(o) => \A v \in Readable(s) : ~v.deleting
    BY <1>1, <1>2, NoneDeleting
  <2> QED
    BY <1>1, <1>2, <2>1, InOrderAfterPut
<1>4. ASSUME job'.pc \in Deletion, NEW t \in SPs, t = job.sp
      PROVE  \A v \in Readable(t)' : ~Workable(v)
  <2>1. \A w \in Readable(t) : ~Workable(w)
    BY <1>1, <1>4, UserForm DEF NothingFollows, Deletion
  <2>2. \A v \in Readable(t)' : v \in Readable(t) \/ (t = s /\ v = o)
    BY <1>1, <1>2, ReadableAfterPut
  <2>3. t = s => ~Workable(o)
    BY <1>1, <1>2, <2>1, LastReadable
  <2> QED
    BY <2>1, <2>2, <2>3
<1>5. job'.sp = job.sp /\ (job'.pc \in Deletion => job.sp \in SPs)
  BY <1>1, UserForm, DeletionSteps DEF TypeInv, JobShape
<1>6. job'.pc \in Deletion => \A v \in Readable(job.sp)' : ~Workable(v)
  BY <1>4, <1>5
<1> QED
  BY <1>3, <1>6 DEF NothingFollows, Deletion

LEMMA FollowsBegin ==
    ASSUME OwnInv, NothingFollows, NEW s \in SPs, Begin(s)
    PROVE  NothingFollows'
<1>1. TypeInv /\ TypeInv' /\ UNCHANGED kube
  BY BeginType, BeginOutcome DEF OwnInv, CoreInv
<1>2. \A t \in SPs : InOrder(t)'
  BY <1>1 DEF NothingFollows, InOrder, kube
<1>3. ASSUME job'.pc \in Deletion
      PROVE  job'.sp = s /\ cache[s].deleting
  <2>1. job'.sp = s /\ job'.copy = cache[s]
    BY <1>1, <1>3, BeginOutcome, IdleHand, DeletionSteps
  <2> QED
    BY <1>1, <1>3, <2>1 DEF TypeInv, JobShape, Deletion
<1>4. cache[s].deleting => \A v \in Readable(s) : ~Workable(v)
  BY DEF NothingFollows, InOrder, Readable, Workable
<1>5. Readable(s)' = Readable(s)
  BY <1>1 DEF Readable, kube
<1>6. job'.pc \in Deletion => \A v \in Readable(job.sp)' : ~Workable(v)
  BY <1>3, <1>4, <1>5
<1> QED
  BY <1>2, <1>6 DEF NothingFollows, Deletion

\* Steps that leave the objects alone, and delete no application.
LEMMA FollowsQuiet ==
    ASSUME NothingFollows, UNCHANGED kube,
           job'.pc \in Deletion => job.pc \in Deletion /\ job'.sp = job.sp
    PROVE  NothingFollows'
<1>1. \A t \in SPs : InOrder(t)'
  BY DEF NothingFollows, InOrder, kube
<1>2. ASSUME job'.pc \in Deletion PROVE \A o \in Readable(job.sp)' : ~Workable(o)
  <2>1. Readable(job.sp)' = Readable(job.sp)
    BY <1>2 DEF Readable, kube
  <2> QED
    BY <1>2, <2>1 DEF NothingFollows, Deletion
<1> QED
  BY <1>1, <1>2 DEF NothingFollows, Deletion

\* The calls of the server.
LEMMA FollowsCall ==
    ASSUME OwnInv, NothingFollows, JobStep, ~Writes
    PROVE  NothingFollows'
<1>1. TypeInv
  BY DEF OwnInv, CoreInv
<1>2. CASE DelApp
  <2>1. /\ job.pc = "delApp" /\ job'.pc = "rmFin" /\ job'.sp = job.sp
        /\ UNCHANGED kube
    BY <1>1, <1>2 DEF DelApp, Goto, CallFrame, TypeInv, TypeOK, ControlOK, Job
  <2> QED
    BY <2>1, FollowsQuiet DEF Deletion
<1>3. CASE ~DelApp
  <2>1. UNCHANGED kube /\ job'.pc \notin Deletion
    BY <1>1, <1>3, CallsInHand, IdleHand, DeletionSteps DEF Onward
  <2> QED
    BY <2>1, FollowsQuiet
<1> QED
  BY <1>2, <1>3

\* Deliveries take versions away, and a restart leaves the last one.
LEMMA FollowsDelivery ==
    ASSUME OwnInv, NothingFollows, NEW s \in SPs, Deliver(s)
    PROVE  NothingFollows'
<1>1. KubeOK /\ InformerChain /\ TypeInv
  BY DEF OwnInv, CoreInv, TypeInv, TypeOK
<1>2. \A t \in SPs : InOrder(t)'
  BY <1>1, InOrderAfterDeliver DEF NothingFollows
<1>3. job' = job /\ (job.pc \in Deletion => job.sp \in SPs)
  BY <1>1, DeletionSteps DEF Deliver, TypeInv, JobShape
<1>4. \A t \in SPs : Readable(t)' \subseteq Readable(t)
  BY <1>1, ReadableAfterDeliver
<1> QED
  BY <1>2, <1>3, <1>4 DEF NothingFollows, Deletion

LEMMA FollowsRestart == ASSUME Restart PROVE NothingFollows'
<1>1. Len(<<>>) = 0
  BY EmptySeq, Zenon
<1>2. job' = Idle /\ \A t \in SPs : pending'[t] = <<>>
  BY DEF Restart
<1>3. \A t \in SPs : InOrder(t)'
  BY <1>1, <1>2 DEF InOrder
<1> QED
  BY <1>2, <1>3, IdleHand, DeletionSteps DEF NothingFollows, Deletion

\* Whatever is still to be read after a deletion is no version to work on.
LEMMA FollowsInit == Init => NothingFollows
<1>1. Len(<<>>) = 0
  BY EmptySeq, Zenon
<1> QED
  BY <1>1, IdleHand, DeletionSteps DEF Init, NothingFollows, InOrder, Deletion

LEMMA FollowsNext == ASSUME OwnInv, NothingFollows, [Next]_vars PROVE NothingFollows'
<1>1. CASE JobStep
  BY <1>1, FollowsWrite, FollowsCall
<1>2. CASE ~JobStep
  <2>1. \/ \E s \in SPs : Begin(s)
        \/ \E s \in SPs : CreateSP(s) \/ EditSpec(s) \/ Annotate(s) \/ DeleteSP(s)
        \/ (\E s \in SPs : Deliver(s)) \/ Restart
        \/ UNCHANGED <<kube, job>>
    BY <1>2
       DEF Next, Environment, Users, SecretDeliver, Wake, MetadataChange,
           SecretRemoved, AppDrift, AppRemoval, InstanceChange, Crash, control, vars
  <2>2. UNCHANGED <<kube, job>> => NothingFollows'
    BY FollowsQuiet
  <2> QED
    BY <2>1, <2>2, FollowsBegin, FollowsUser, FollowsDelivery, FollowsRestart
<1> QED
  BY <1>1, <1>2

------------------------------------------------------------------------------
(* Nothing is recorded before the finalizer *)

LEMMA BareAfterPut ==
    ASSUME BareIsBlank, sps \in [SPs -> SPObject], NEW s \in SPs, NEW o \in SPObject,
           sps' = [sps EXCEPT ![s] = o],
           Stage(o) = "bare" => o.st.id = 0 /\ ~o.st.admin
    PROVE  BareIsBlank'
BY DEF BareIsBlank, Stage

LEMMA BareInit == Init => BareIsBlank
BY GoneFields DEF Init, BareIsBlank, Stage

LEMMA BareNext == ASSUME OwnInv, BareIsBlank, [Next]_vars PROVE BareIsBlank'
<1>1. TypeInv /\ sps \in [SPs -> SPObject] /\ (UNCHANGED sps => BareIsBlank')
  BY DEF OwnInv, CoreInv, TypeInv, TypeOK, KubeOK, BareIsBlank, Stage
<1>2. CASE JobStep /\ Writes
  <2>1. PICK s \in SPs : s = job.sp
    BY <1>1, <1>2, WritesInHand
  <2>2. ASSUME NEW o \in SPObject, sps' = [sps EXCEPT ![s] = o],
               StatusWrite(s, o) \/ GuardWrite(s, o) \/ ReleaseWrite(s, o)
        PROVE  Stage(o) = "bare" => o.st.id = 0 /\ ~o.st.admin
    <3>1. sps[s] \in SPObject
      BY <1>1
    <3>2. CASE StatusWrite(s, o)
      <4>1. o.live = sps[s].live /\ o.deleting = sps[s].deleting /\ o.fin = sps[s].fin
        BY <3>1, <3>2 DEF StatusWrite, SPObject
      <4> QED
        BY <3>2, <4>1 DEF StatusWrite, BareIsBlank, Stage
    <3>3. CASE GuardWrite(s, o) \/ ReleaseWrite(s, o)
      BY <3>3, GoneFields DEF GuardWrite, ReleaseWrite, Stage
    <3> QED
      BY <2>2, <3>2, <3>3
  <2> QED
    BY <1>1, <1>2, <2>1, <2>2, WriteKinds, BareAfterPut
<1>3. CASE JobStep /\ ~Writes
  BY <1>1, <1>3, CallsInHand DEF DelApp, CallFrame, kube
<1>4. ASSUME NEW s \in SPs, Begin(s) PROVE BareIsBlank'
  BY <1>1, <1>4, BeginInHand
<1>5. ASSUME NEW s \in SPs,
             CreateSP(s) \/ EditSpec(s) \/ Annotate(s) \/ DeleteSP(s)
      PROVE  BareIsBlank'
  <2>1. PICK o \in SPObject : sps' = [sps EXCEPT ![s] = o] /\ UserKinds(s, o)
    BY <1>1, <1>5, UserObject
  <2>2. NoStatus.id = 0 /\ ~NoStatus.admin
    BY DEF NoStatus
  <2>3. Stage(o) = "bare" => o.st.id = 0 /\ ~o.st.admin
    BY <2>1, <2>2 DEF UserKinds, BareIsBlank
  <2> QED
    BY <1>1, <2>1, <2>3, BareAfterPut
<1>6. CASE /\ ~JobStep
           /\ \A s \in SPs :
                 /\ ~Begin(s)
                 /\ ~(CreateSP(s) \/ EditSpec(s) \/ Annotate(s) \/ DeleteSP(s))
  BY <1>1, <1>6, RestHand
<1> QED
  BY <1>2, <1>3, <1>4, <1>5, <1>6

------------------------------------------------------------------------------
(* What a step learns of the application, and does to it *)

\* The application n is not there yet, or stays what the status says of it.
Grows(n) ==
    apps[n].id = 0 \/ (apps'[n].id = apps[n].id /\ (apps[n].admin => apps'[n].admin))

LEMMA FitsKept ==
    ASSUME NEW n \in Names, Grows(n), NEW st, Fits(st, n)
    PROVE  Fits(st, n)'
BY DEF Grows, Fits

\* A status with the same ID and the same flag says the same.
Alike(st, old) == st.id = old.id /\ st.admin = old.admin

LEMMA FitsAlike ==
    ASSUME NEW n \in Names, NEW st, NEW old, Alike(st, old), Fits(old, n)
    PROVE  Fits(st, n)
BY DEF Alike, Fits

LEMMA BlankFits == \A n \in Names : Fits(NoStatus, n)
BY DEF Fits, NoStatus

\* The status in memory after a step that ends the job or goes on.
Recalls(old) == job' = Idle \/ Alike(job'.mem, old)

LEMMA RecallsOutcomes ==
    ASSUME TypeInv
    PROVE  /\ job \in Job /\ job.mem \in Status
           /\ Done \/ Requeue => Recalls(job.mem)
           /\ \A j \in Job : \A phase, why : SetPhase(j, phase, why) => Recalls(j.mem)
           /\ Fail => Recalls(job.mem)
           /\ \A pc : Goto(pc) => Recalls(job.mem)
           /\ \A j \in Job : job' = InSync(j) => Recalls(j.mem)
<1>1. job \in Job /\ job.mem \in Status
  BY DEF TypeInv, TypeOK, ControlOK, Job
<1>2. Done \/ Requeue => Recalls(job.mem)
  BY DEF Done, Requeue, Recalls
<1>3. ASSUME NEW j \in Job, NEW phase, NEW why, SetPhase(j, phase, why)
      PROVE  Recalls(j.mem)
  <2>1. CASE job' = Idle
    BY <2>1 DEF Recalls
  <2>2. CASE job' = [j EXCEPT !.pc = "setPhase", !.mem.phase = phase, !.mem.why = why]
    <3>1. j.mem \in Status
      BY DEF Job
    <3>2. job'.mem.id = j.mem.id /\ job'.mem.admin = j.mem.admin
      BY <2>2, <3>1 DEF Job, Status
    <3> QED
      BY <3>2 DEF Recalls, Alike
  <2> QED
    BY <1>3, <2>1, <2>2 DEF SetPhase
<1>4. Fail => Recalls(job.mem)
  BY <1>1, <1>3 DEF Fail
<1>5. ASSUME NEW pc, Goto(pc) PROVE Recalls(job.mem)
  BY <1>1, <1>5 DEF Goto, Recalls, Alike, Job
<1>6. ASSUME NEW j \in Job, job' = InSync(j) PROVE Recalls(j.mem)
  BY <1>6 DEF InSync, Recalls, Alike, Job, Status
<1> QED
  BY <1>1, <1>2, <1>3, <1>4, <1>5, <1>6

\* The inbound protocols learn nothing of the application.
LEMMA InboundRecalls ==
    ASSUME TypeInv,
           \/ OAuthSecret \/ SamlSecret \/ OAuthGet \/ OAuthCreate \/ OAuthUpdate
           \/ SamlGet \/ SamlCreate \/ SamlDelete \/ SamlReadd
    PROVE  Recalls(job.mem)
<1>1. job \in Job /\ job.mem \in Status
  BY RecallsOutcomes
<1>2. CASE OAuthSecret \/ SamlSecret
  <2>1. ASSUME NEW new, NEW pc, UpsertSecret(new, pc) PROVE Recalls(job.mem)
    BY <2>1, RecallsOutcomes DEF UpsertSecret
  <2> QED
    BY <1>2, <2>1 DEF OAuthSecret, SamlSecret
<1>3. CASE OAuthGet \/ OAuthCreate \/ OAuthUpdate
  <2>1. ASSUME NEW ref, NEW dirty,
               job' = [job EXCEPT !.pc = "oauthSecret", !.ref = ref, !.dirty = dirty]
        PROVE  Recalls(job.mem)
    BY <1>1, <2>1 DEF Recalls, Alike, Job
  <2> QED
    BY <1>3, <2>1, RecallsOutcomes DEF OAuthGet, OAuthCreate, OAuthUpdate, Call, Refused
<1>4. CASE SamlGet \/ SamlCreate \/ SamlDelete \/ SamlReadd
  <2>1. SamlGet => Requeue \/ Fail \/ job'.mem = job.mem
    BY <1>1 DEF SamlGet, Job
  <2>2. CASE SamlGet
    BY <2>1, <2>2, RecallsOutcomes DEF Recalls, Alike
  <2>3. ASSUME NEW Ok, AddSaml(Ok), Ok => Recalls(job.mem) PROVE Recalls(job.mem)
    BY <2>3, RecallsOutcomes DEF AddSaml, Call, Refused
  <2> QED
    BY <1>4, <2>2, <2>3, RecallsOutcomes
       DEF SamlCreate, SamlDelete, SamlReadd, Call, Refused
<1> QED
  BY <1>2, <1>3, <1>4

\* A call takes the ID over from the application that it read, or records that
\* the administrators may see it.
LEMMA CallsLearn ==
    ASSUME TypeInv, JobStep, ~Writes, ~DelApp
    PROVE  \/ Recalls(job.mem)
           \/ /\ job'.mem.id = apps[Wanted.name].id /\ job'.mem.id # 0
              /\ job'.mem.admin = job.mem.admin /\ UNCHANGED apps
           \/ /\ job.pc = "adminGet" /\ job'.mem.id = job.mem.id
              /\ apps[Wanted.name].admin /\ UNCHANGED apps
<1>1. job \in Job /\ job.mem \in Status
  BY RecallsOutcomes
<1>2. CASE AppGet
  <2> DEFINE have  == apps[Wanted.name]
             found == [job EXCEPT !.mem.id = have.id]
  <2>1. have.id \in Nat
    BY <1>1 DEF TypeInv, TypeOK, RemoteOK, Job, SPObject, SPSpec, App, Wanted
  <2>2. UNCHANGED apps
    BY <1>2 DEF AppGet, Reads, remote
  <2> HIDE DEF have
  <2>3. found \in Job /\ found.mem.id = have.id /\ found.mem.admin = job.mem.admin
    BY <1>1, <2>1 DEF Job, Status
  <2>4. ASSUME job' = [found EXCEPT !.pc = "appUpdate"] PROVE Recalls(found.mem)
    BY <2>3, <2>4 DEF Recalls, Alike, Job
  <2> HIDE DEF found
  <2>5. Recalls(job.mem) \/ (have.id # 0 /\ Recalls(found.mem))
    BY <1>2, <2>3, <2>4, RecallsOutcomes DEF AppGet, found, have
  <2> QED
    BY <2>2, <2>3, <2>5 DEF Recalls, Alike, have
<1>3. CASE AppCreate
  <2>1. ASSUME job' = [job EXCEPT !.pc = "patchPending",
                           !.mem.phase = "Pending", !.mem.why = "created"]
        PROVE  Recalls(job.mem)
    BY <1>1, <2>1 DEF Recalls, Alike, Job, Status
  <2> QED
    BY <1>3, <2>1, RecallsOutcomes DEF AppCreate, Call, Refused
<1>4. CASE AppUpdate
  BY <1>1, <1>4, RecallsOutcomes DEF AppUpdate, Call, Refused
<1>5. CASE AdminGet
  <2>1. job.pc = "adminGet" /\ UNCHANGED apps
    BY <1>5 DEF AdminGet, Reads, remote
  <2>2. ASSUME job' = [job EXCEPT !.pc = "patchReady", !.mem.admin = TRUE]
        PROVE  job'.mem.id = job.mem.id
    BY <1>1, <2>2 DEF Job, Status
  <2>3. ASSUME NEW ref, job' = [job EXCEPT !.pc = "adminJoin", !.ref = ref]
        PROVE  Recalls(job.mem)
    BY <1>1, <2>3 DEF Recalls, Alike, Job
  <2> QED
    BY <1>5, <2>1, <2>2, <2>3, RecallsOutcomes DEF AdminGet
<1>6. CASE AdminJoin
  BY <1>6, RecallsOutcomes DEF AdminJoin, Call, Refused
<1> QED
  BY <1>2, <1>3, <1>4, <1>5, <1>6, InboundRecalls DEF JobStep, Writes

\* When there is one name and no service provider is called like it, a call
\* takes no application away.
LEMMA CallsGrow ==
    ASSUME TypeInv, JobStep, ~Writes, ~DelApp, Alone, NEW n \in Names
    PROVE  Grows(n)
<1>1. /\ apps \in [Names -> App] /\ Wanted.name = n
      /\ \A m \in Names : m = n
  BY DEF TypeInv, TypeOK, RemoteOK, ControlOK, Job, SPObject, SPSpec, Wanted, Alone
<1>2. UNCHANGED apps => Grows(n)
  BY DEF Grows
<1>3. CASE OAuthSecret \/ SamlSecret \/ OAuthGet \/ OAuthCreate \/ OAuthUpdate
  BY <1>2, <1>3
     DEF OAuthSecret, SamlSecret, UpsertSecret, OAuthGet, OAuthCreate, OAuthUpdate,
         Reads, Call, Refused, remote
<1>4. CASE SamlGet \/ SamlCreate \/ SamlReadd
  BY <1>2, <1>4
     DEF SamlGet, SamlCreate, SamlReadd, AddSaml, Reads, Call, Refused, remote
<1>5. CASE SamlDelete
  <2>1. job.meta.issuer \notin Names
    BY <1>5
       DEF SamlDelete, SamlSteps, TypeInv, TypeOK, ControlOK, JobShape, Job, Metadata,
           Alone
  <2> QED
    BY <1>2, <1>5, <2>1 DEF SamlDelete, Refused, remote
<1>6. CASE AppGet \/ AdminGet
  BY <1>2, <1>6 DEF AppGet, AdminGet, Reads, remote
<1>7. CASE AppCreate
  BY <1>1, <1>2, <1>7 DEF AppCreate, Refused, Grows, remote
<1>8. CASE AppUpdate
  <2>1. apps[n] \in App /\ seen[job.sp] \in Secret /\ Wanted \in SPSpec
    BY <1>1, <1>8
       DEF AppUpdate, TypeInv, TypeOK, SecretsOK, ControlOK, JobShape, Job, SPObject,
           Wanted
  <2>2. ASSUME apps' = [apps EXCEPT ![n] = NoApp,
                                    ![n] = Applied(apps[n], Wanted, seen[job.sp])]
        PROVE  Grows(n)
    BY <1>1, <2>1, <2>2 DEF Grows, Applied, App
  <2> QED
    BY <1>1, <1>2, <1>8, <2>2 DEF AppUpdate, Targets, Call, Refused, remote
<1>9. CASE AdminJoin
  <2>1. ASSUME apps' = [m \in Names |-> IF apps[m].id = job.ref
                           THEN [apps[m] EXCEPT !.admin = TRUE] ELSE apps[m]]
        PROVE  Grows(n)
    BY <1>1, <2>1 DEF Grows, App
  <2> QED
    BY <1>2, <1>9, <2>1 DEF AdminJoin, Call, Refused, remote
<1> QED
  BY <1>3, <1>4, <1>5, <1>6, <1>7, <1>8, <1>9 DEF JobStep, Writes

------------------------------------------------------------------------------
(* The status is about the application *)

Fitting(s, n) ==
    HandFits(s, n) /\ CacheFits(s, n) /\ IdIsTrue(s, n) /\ AdminIsTrue(s, n)

\* What the induction step may use, apart from the budget.
FitInv == OwnInv /\ NothingFollows /\ BareIsBlank /\ Alone

\* With one object and one name, there is only one pair to look at.
LEMMA AloneAgain ==
    ASSUME TypeInv, Alone, NEW s \in SPs, NEW n \in Names
    PROVE  /\ job.pc # "idle" => job.sp = s
           /\ Wanted.name = n
           /\ Alone'
<1>1. Wanted.name \in Names /\ (job.pc # "idle" => job.sp \in SPs)
  BY DEF TypeInv, TypeOK, ControlOK, JobShape, Job, SPObject, SPSpec, Wanted
<1> QED
  BY <1>1 DEF Alone

\* Steps that leave the object alone, and no version to read that was none.
LEMMA FitsQuiet ==
    ASSUME NEW s \in SPs, NEW n \in Names, Fitting(s, n), Grows(n),
           UNCHANGED sps, Readable(s)' \subseteq Readable(s),
           apps'[n].id # 0 => apps[n].id # 0 \/ InHand,
           HandFits(s, n)'
    PROVE  Fitting(s, n)'
<1>1. CacheFits(s, n)'
  <2>1. \A o \in Readable(s)' : Workable(o) => Fits(o.st, n) /\ Fits(sps[s].st, n)
    BY DEF Fitting, CacheFits
  <2>2. \A st : Fits(st, n) => Fits(st, n)'
    BY FitsKept
  <2> QED
    BY <2>1, <2>2 DEF CacheFits, Fits
<1>2. AdminIsTrue(s, n)'
  <2>1. CASE apps[n].id = 0 /\ apps'[n].id # 0
    BY <2>1 DEF Fitting, HandFits, Fits, AdminIsTrue
  <2> QED
    BY <2>1 DEF Grows, Fitting, AdminIsTrue
<1>3. IdIsTrue(s, n)'
  <2>1. CASE apps[n].id = 0 /\ apps'[n].id # 0
    BY <2>1 DEF Fitting, HandFits, Fits, IdIsTrue
  <2> QED
    BY <2>1 DEF Grows, Fitting, IdIsTrue
<1> QED
  BY <1>1, <1>2, <1>3 DEF Fitting

\* The job stays as it is, or ends.
LEMMA HandFitsKept ==
    ASSUME NEW s \in SPs, NEW n \in Names, HandFits(s, n), Grows(n),
           UNCHANGED sps, job' = job \/ job' = Idle
    PROVE  HandFits(s, n)'
<1>1. CASE job' = Idle
  BY <1>1, IdleHand DEF HandFits
<1>2. CASE job' = job
  <2>1. ASSUME InHand
        PROVE  Fits(job.copy.st, n)' /\ Fits(job.mem, n)' /\ Fits(sps[s].st, n)'
    BY <1>2, <2>1, FitsKept DEF HandFits, Fits
  <2> QED
    BY <1>2, <2>1 DEF HandFits, InHand
<1> QED
  BY <1>1, <1>2

------------------------------------------------------------------------------
(* Writes of the object *)

\* A merge patch from a base of another version says nothing that neither the
\* memory nor the object says.
LEMMA PatchFits ==
    ASSUME OwnInv, AtWork, InHand, NEW s \in SPs, s = job.sp, NEW n \in Names,
           HandFits(s, n)
    PROVE  Fits(StatusPatch(sps[s].st, job.base, job.mem), n)
<1> DEFINE st == StatusPatch(sps[s].st, job.base, job.mem)
<1>1. sps[s].st \in Status /\ job.base \in Status /\ job.mem \in Status
  BY DEF OwnInv, CoreInv, TypeInv, TypeOK, KubeOK, ControlOK, Job, SPObject
<1>2. /\ st.id = IF job.base.id # job.mem.id THEN job.mem.id ELSE sps[s].st.id
      /\ st.admin = IF job.base.admin # job.mem.admin THEN job.mem.admin
                                                      ELSE sps[s].st.admin
  BY <1>1 DEF StatusPatch, Status
<1>3. /\ job.mem.id = job.copy.st.id \/ job.mem.id # 0
      /\ job.base.id = job.copy.st.id
      /\ job.copy.st.id # 0 => sps[s].st.id # 0
  BY DEF OwnInv, IdInv, IdInJob, IdAtWork
<1>4. Fits(job.mem, n) /\ Fits(sps[s].st, n)
  BY DEF HandFits
<1> HIDE DEF st
<1>5. st.id \in {0, apps[n].id}
  BY <1>2, <1>4 DEF Fits
<1>6. st.admin => apps[n].admin /\ (job.mem.id # 0 \/ sps[s].st.id # 0)
  BY <1>2, <1>4 DEF Fits
<1>7. job.mem.id # 0 \/ sps[s].st.id # 0 => st.id # 0
  BY <1>2, <1>3
<1> QED
  BY <1>5, <1>6, <1>7 DEF Fits, st

\* What is written in hand, before the finalizer, or at the end.
LEMMA WrittenFits ==
    ASSUME FitInv, NEW s \in SPs, s = job.sp, NEW n \in Names, Fitting(s, n),
           NEW o \in SPObject,
           \/ o = sps[s]
           \/ StatusWrite(s, o) \/ GuardWrite(s, o) \/ ReleaseWrite(s, o)
    PROVE  \/ Fits(o.st, n)
           \/ /\ ~InHand /\ Alike(o.st, sps[s].st) /\ sps[s].live
              /\ sps[s].deleting => o.deleting
              /\ Workable(o) => Workable(sps[s])
           \/ o = sps[s]
<1>1. sps[s] \in SPObject
  BY DEF FitInv, OwnInv, CoreInv, TypeInv, TypeOK, KubeOK
<1>2. CASE StatusWrite(s, o) /\ InHand
  BY <1>2, PatchFits DEF StatusWrite, FitInv, Fitting, HandFits
<1>3. CASE StatusWrite(s, o) /\ ~InHand
  BY <1>1, <1>3 DEF StatusWrite, Alike, Workable, SPObject
<1>4. CASE GuardWrite(s, o)
  BY <1>4 DEF GuardWrite, FitInv, BareIsBlank, Stage, Fits
<1>5. CASE ReleaseWrite(s, o)
  BY <1>5, GoneFields, BlankFits DEF ReleaseWrite
<1> QED
  BY <1>2, <1>3, <1>4, <1>5

\* Who reads what was written.
LEMMA FitsPut ==
    ASSUME KubeOK, NEW s \in SPs, NEW n \in Names, Fitting(s, n), UNCHANGED apps,
           NEW o \in SPObject, Put(s, o),
           \/ Fits(o.st, n)
           \/ /\ Alike(o.st, sps[s].st) /\ sps[s].live
              /\ sps[s].deleting => o.deleting
              /\ Workable(o) => \E v \in Readable(s) : Workable(v)
    PROVE  CacheFits(s, n)' /\ IdIsTrue(s, n)' /\ AdminIsTrue(s, n)'
<1>1. sps'[s] = o /\ \A v \in Readable(s)' : v \in Readable(s) \/ v = o
  BY ReadableAfterPut
<1>2. \A st : Fits(st, n)' <=> Fits(st, n)
  BY DEF Fits
<1>3. ASSUME NEW v \in Readable(s)', Workable(v)
      PROVE  Fits(v.st, n) /\ Fits(o.st, n)
  <2>1. CASE Fits(o.st, n)
    BY <1>1, <1>3, <2>1 DEF Fitting, CacheFits
  <2>2. CASE /\ Alike(o.st, sps[s].st)
             /\ Workable(o) => \E w \in Readable(s) : Workable(w)
    <3>1. Fits(sps[s].st, n) /\ (v # o => Fits(v.st, n))
      BY <1>1, <1>3, <2>2 DEF Fitting, CacheFits
    <3> QED
      BY <2>2, <3>1, FitsAlike
  <2> QED
    BY <2>1, <2>2
<1>4. CacheFits(s, n)'
  BY <1>1, <1>2, <1>3 DEF CacheFits
<1>5. AdminIsTrue(s, n)'
  BY <1>1 DEF AdminIsTrue, Fitting, Fits, Alike
<1>6. IdIsTrue(s, n)'
  BY <1>1 DEF IdIsTrue, Fitting, Fits, Alike
<1> QED
  BY <1>4, <1>5, <1>6

\* A write leaves the status in memory as it is, unless it ends the job.
LEMMA WritesRecall ==
    ASSUME TypeInv, Writes PROVE job' = Idle \/ job'.mem = job.mem
<1>1. Done \/ Requeue => job' = Idle
  BY DEF Done, Requeue
<1>2. ASSUME NEW pc \in {"samlGet", "appGet", "patchReady"}, GoOn(pc)
      PROVE  job'.mem = job.mem
  BY <1>2, GoOnFields, StepSets
<1>3. Swallowed => job' = Idle \/ job'.mem = job.mem
  BY <1>1, <1>2, SwallowedSteps
<1> QED
  BY <1>1, <1>3
     DEF Writes, SetPhaseWrite, PauseWrite, AddFinalizer, RemoveFinalizer,
         PatchPending, PatchReady, PatchCall, Update

LEMMA WriteFits ==
    ASSUME FitInv, Writes, NEW s \in SPs, s = job.sp, NEW n \in Names, Fitting(s, n)
    PROVE  Fitting(s, n)'
<1>1. KubeOK /\ InformerChain /\ TypeInv /\ sps[s] \in Readable(s)
  BY LastReadable DEF FitInv, OwnInv, CoreInv, TypeInv, TypeOK
<1>2. /\ UNCHANGED apps
      /\ \A st : Fits(st, n)' <=> Fits(st, n)
      /\ InHand' => /\ InHand /\ job'.copy = job.copy /\ job'.mem = job.mem
                    /\ Fits(job.copy.st, n) /\ Fits(job.mem, n)
  BY <1>1, WritesInHand, WritesRecall, IdleHand DEF Fits, Fitting, HandFits
<1>3. CASE UNCHANGED kube
  <2>1. sps' = sps /\ Readable(s)' = Readable(s)
    BY <1>3 DEF kube, Readable
  <2> QED
    BY <1>2, <2>1 DEF Fitting, HandFits, CacheFits, IdIsTrue, AdminIsTrue, Fits
<1>4. ASSUME NEW o \in SPObject, Put(s, o),
             \/ o = sps[s]
             \/ StatusWrite(s, o) \/ GuardWrite(s, o) \/ ReleaseWrite(s, o)
      PROVE  Fitting(s, n)'
  <2>1. \/ Fits(o.st, n)
        \/ /\ ~InHand /\ Alike(o.st, sps[s].st) /\ sps[s].live
           /\ sps[s].deleting => o.deleting
           /\ Workable(o) => Workable(sps[s])
        \/ o = sps[s]
    BY <1>4, WrittenFits
  <2>2. sps'[s] = o
    BY <1>1, <1>4, ReadableAfterPut
  <2>3. HandFits(s, n)'
    BY <1>2, <2>1, <2>2 DEF Fitting, HandFits, Fits
  <2>4. CASE o = sps[s]
    <3>1. Readable(s)' \subseteq Readable(s)
      BY <1>1, <1>4, <2>4, ReadableAfterPut
    <3>2. UNCHANGED sps
      BY <1>1, <1>4, <2>4 DEF Put, KubeOK
    <3> QED
      BY <1>2, <2>3, <3>1, <3>2, FitsQuiet DEF Grows
  <2>5. CASE o # sps[s]
    <3>1. \/ Fits(o.st, n)
          \/ /\ Alike(o.st, sps[s].st) /\ sps[s].live
             /\ sps[s].deleting => o.deleting
             /\ Workable(o) => \E v \in Readable(s) : Workable(v)
      BY <1>1, <2>1, <2>5
    <3> QED
      BY <1>1, <1>2, <1>4, <2>3, <3>1, FitsPut DEF Fitting
  <2> QED
    BY <2>4, <2>5
<1> QED
  BY <1>3, <1>4, WriteForm DEF FitInv

------------------------------------------------------------------------------
(* Calls, starts, users and the rest *)

LEMMA CallFits ==
    ASSUME FitInv, JobStep, ~Writes, NEW s \in SPs, NEW n \in Names, Fitting(s, n)
    PROVE  Fitting(s, n)'
<1>1. TypeInv /\ (job.pc # "idle" => job.sp = s) /\ Wanted.name = n
  BY AloneAgain DEF FitInv, OwnInv, CoreInv
<1>2. CASE ~DelApp
  <2>1. /\ job.pc \in AppSteps /\ UNCHANGED kube
        /\ job' = Idle \/ job'.copy = job.copy
    BY <1>1, <1>2, CallsInHand
  <2>2. InHand /\ Grows(n) /\ sps' = sps /\ Readable(s)' = Readable(s)
    BY <1>1, <1>2, <2>1, CallsGrow DEF FitInv, InHand, kube, Readable
  <2>3. Fits(job.copy.st, n) /\ Fits(job.mem, n) /\ Fits(sps[s].st, n)
    BY <2>2 DEF Fitting, HandFits
  <2>4. \A st : Fits(st, n) => Fits(st, n)'
    BY <2>2, FitsKept
  <2>5. CASE job' = Idle
    <3>1. HandFits(s, n)'
      BY <2>5, IdleHand DEF HandFits
    <3> QED
      BY <2>2, <3>1, FitsQuiet
  <2>6. CASE job' # Idle
    <3>1. ASSUME Alike(job'.mem, job.mem) PROVE Fits(job.mem, n)'
      BY <2>3, <2>4, <3>1 DEF Alike, Fits
    <3>2. ASSUME job'.mem.id = apps[Wanted.name].id, job'.mem.id # 0,
                 job'.mem.admin = job.mem.admin, UNCHANGED apps
          PROVE  Fits(job.mem, n)'
      BY <1>1, <2>3, <3>2 DEF Fits
    <3>3. ASSUME job.pc = "adminGet", job'.mem.id = job.mem.id,
                 apps[Wanted.name].admin, UNCHANGED apps
          PROVE  Fits(job.mem, n)'
      <4>1. job.mem.id # 0
        BY <3>3 DEF FitInv, OwnInv, IdInv, IdInJob, At, AdminSteps
      <4> QED
        BY <1>1, <2>3, <3>3, <4>1 DEF Fits
    <3>4. Fits(job.mem, n)'
      BY <1>1, <1>2, <2>6, <3>1, <3>2, <3>3, CallsLearn DEF Recalls, Fits
    <3>5. HandFits(s, n)'
      BY <2>1, <2>2, <2>3, <2>4, <2>6, <3>4 DEF HandFits, Fits
    <3> QED
      BY <2>2, <3>5, FitsQuiet
  <2> QED
    BY <2>5, <2>6
<1>3. CASE DelApp
  <2>1. /\ job.pc = "delApp" /\ job'.pc = "rmFin" /\ UNCHANGED kube
        /\ UNCHANGED apps \/ apps'[n].id = 0
    BY <1>1, <1>3
       DEF DelApp, Goto, CallFrame, DropApp, NoApp, remote, TypeInv, TypeOK, ControlOK,
           RemoteOK, Job
  <2>2. ~InHand' /\ sps' = sps /\ Readable(s)' = Readable(s)
    BY <2>1, StepSets DEF InHand, kube, Readable
  <2>3. \A o \in Readable(s) : ~Workable(o)
    BY <1>1, <2>1 DEF FitInv, NothingFollows
  <2>4. sps[s].live => sps[s].deleting \/ sps[s].st.id = 0
    <3>1. sps[s] \in Readable(s)
      BY LastReadable DEF FitInv, OwnInv, CoreInv, TypeInv, TypeOK
    <3> QED
      BY <2>3, <3>1 DEF Workable, FitInv, BareIsBlank, Stage
  <2>5. IdIsTrue(s, n)'
    BY <2>1, <2>2, <2>4 DEF Fitting, IdIsTrue
  <2> QED
    BY <2>1, <2>2, <2>3, <2>5 DEF Fitting, HandFits, CacheFits, AdminIsTrue
<1> QED
  BY <1>2, <1>3

\* A reconciliation starts with the status of its copy.
LEMMA BeginRecalls ==
    ASSUME TypeInv, NEW s \in SPs, Begin(s)
    PROVE  job' = Idle \/ (job'.copy = cache[s] /\ Alike(job'.mem, cache[s].st))
<1>1. cache[s] \in SPObject /\ cache[s].st \in Status /\ job = Idle
  BY BeginOutcome DEF TypeInv, TypeOK, KubeOK, SPObject
<1>2. ASSUME NEW pc \in Steps, Start(s, pc)
      PROVE  job'.copy = cache[s] /\ Alike(job'.mem, cache[s].st)
  BY <1>2, SnapshotType DEF Start, Alike, TypeInv, TypeOK
<1>3. CASE ReconcileNotReady(s)
  <2>1. PICK j \in Job :
           /\ j = Snapshot(s, "idle") /\ j.copy = cache[s] /\ j.mem = cache[s].st
    BY SnapshotType DEF Steps, TypeInv, TypeOK
  <2>2. SetPhase(j, "Pending", "instance")
    BY <1>3, <2>1 DEF ReconcileNotReady
  <2>3. CASE job' = [j EXCEPT !.pc = "setPhase",
                              !.mem.phase = "Pending", !.mem.why = "instance"]
    BY <1>1, <2>1, <2>3 DEF Alike, Job, Status
  <2> QED
    BY <2>2, <2>3 DEF SetPhase
<1>4. CASE ReconcileApply(s)
  <2>1. FirstStep(cache[s]) \in {"oauthGet", "samlGet", "appGet"}
    BY <1>1, NextStepType
  <2>2. FirstStep(cache[s]) \in Steps
    BY <2>1, StepSets
  <2> QED
    BY <1>2, <1>4, <2>2 DEF ReconcileApply
<1>5. CASE ReconcileGone(s) \/ ReconcilePaused(s) \/ ReconcileDelete(s)
           \/ ReconcileFinalize(s)
  BY <1>1, <1>2, <1>5
     DEF ReconcileGone, ReconcilePaused, ReconcileDelete, ReconcileFinalize, Steps
<1> QED
  BY <1>3, <1>4, <1>5 DEF Begin

LEMMA BeginFits ==
    ASSUME FitInv, NEW s \in SPs, Begin(s), NEW n \in Names, Fitting(s, n)
    PROVE  Fitting(s, n)'
<1>1. TypeInv /\ UNCHANGED kube /\ sps' = sps /\ Readable(s)' = Readable(s)
      /\ UNCHANGED apps /\ cache[s] \in Readable(s)
  BY BeginOutcome, BeginInHand DEF FitInv, OwnInv, CoreInv, kube, Readable
<1>2. ASSUME InHand'
      PROVE  /\ Fits(cache[s].st, n) /\ Fits(sps[s].st, n)
             /\ job'.copy = cache[s] /\ Alike(job'.mem, cache[s].st)
  BY <1>1, <1>2, BeginInHand, BeginRecalls, IdleHand DEF Fitting, CacheFits
<1>3. HandFits(s, n)'
  BY <1>1, <1>2 DEF HandFits, Fits, Alike
<1> QED
  BY <1>1, <1>3, FitsQuiet DEF Grows

LEMMA UserFits ==
    ASSUME FitInv, NEW s \in SPs, NEW n \in Names, Fitting(s, n),
           CreateSP(s) \/ EditSpec(s) \/ Annotate(s) \/ DeleteSP(s)
    PROVE  Fitting(s, n)'
<1>1. KubeOK /\ InformerChain /\ TypeInv /\ sps[s] \in Readable(s)
  BY LastReadable DEF FitInv, OwnInv, CoreInv, TypeInv, TypeOK
<1>2. /\ job'.pc = job.pc /\ job'.sp = job.sp /\ job'.copy = job.copy
      /\ job'.mem = job.mem /\ UNCHANGED apps
  BY <1>1, UserForm
<1>3. PICK o \in SPObject :
         Put(s, o) /\ UserKinds(s, o) /\ (Workable(o) => Workable(sps[s]))
  BY <1>1, UserForm
<1>4. \/ Fits(o.st, n)
      \/ /\ Alike(o.st, sps[s].st) /\ sps[s].live
         /\ sps[s].deleting => o.deleting
  BY <1>3, BlankFits DEF UserKinds, Stage, Alike
<1>5. CacheFits(s, n)' /\ IdIsTrue(s, n)' /\ AdminIsTrue(s, n)'
  BY <1>1, <1>2, <1>3, <1>4, FitsPut
<1>6. sps'[s] = o
  BY <1>1, <1>3, ReadableAfterPut
<1>7. InHand' <=> InHand
  BY <1>2 DEF InHand
<1>8. HandFits(s, n)'
  BY <1>2, <1>4, <1>6, <1>7 DEF Fitting, HandFits, Fits, Alike
<1> QED
  BY <1>5, <1>8 DEF Fitting

\* The new manager lists what there is.
LEMMA ReadableAfterRestart ==
    ASSUME Restart, NEW s \in SPs, sps[s] \in Readable(s)
    PROVE  Readable(s)' \subseteq Readable(s)
<1>1. Len(<<>>) = 0
  BY EmptySeq, Zenon
<1>2. cache'[s] = sps[s] /\ pending'[s] = <<>>
  BY DEF Restart
<1>3. Readable(s)' = {sps[s]}
  BY <1>1, <1>2 DEF Readable
<1> QED
  BY <1>3

\* Steps of neither the controller nor its users read no more versions, and
\* take no application away by themselves.
LEMMA RestFits ==
    ASSUME FitInv, [Next]_vars, ~JobStep, NEW s \in SPs, NEW n \in Names,
           \A t \in SPs : /\ ~Begin(t)
                          /\ ~(CreateSP(t) \/ EditSpec(t) \/ Annotate(t) \/ DeleteSP(t)),
           ~Spend("removal"), Fitting(s, n)
    PROVE  Fitting(s, n)'
<1>1. TypeInv /\ KubeOK /\ InformerChain /\ sps[s] \in Readable(s)
  BY LastReadable DEF FitInv, OwnInv, CoreInv, TypeInv, TypeOK
<1>2. /\ UNCHANGED sps /\ (job' = job \/ job' = Idle)
      /\ apps'[n].id # 0 => apps[n].id # 0
  BY <1>1, RestHand
<1>3. Readable(s)' \subseteq Readable(s)
  <2>1. CASE UNCHANGED kube
    BY <2>1 DEF kube, Readable
  <2>2. ASSUME NEW t \in SPs, Deliver(t) PROVE Readable(s)' \subseteq Readable(s)
    BY <1>1, <2>2, ReadableAfterDeliver
  <2>3. CASE Crash
    BY <1>1, <2>3, ReadableAfterRestart DEF Crash
  <2> QED
    BY <2>1, <2>2, <2>3
       DEF Next, Environment, Users, SecretDeliver, Wake, MetadataChange,
           SecretRemoved, AppDrift, AppRemoval, InstanceChange, vars
<1>4. Grows(n)
  <2>1. UNCHANGED apps => Grows(n)
    BY DEF Grows
  <2>2. ASSUME NEW m \in Names, AppDrift(m) PROVE Grows(n)
    BY <1>1, <2>2 DEF AppDrift, Grows, TypeInv, TypeOK, RemoteOK, App
  <2> QED
    BY <2>1, <2>2
       DEF Next, Environment, Users, Deliver, SecretDeliver, Wake, MetadataChange,
           SecretRemoved, AppRemoval, InstanceChange, Crash, Restart, remote, vars
<1> QED
  BY <1>2, <1>3, <1>4, HandFitsKept, FitsQuiet DEF Fitting

\* Every step, as long as the premise of StatusFits lasts.
LEMMA NextFits ==
    ASSUME FitInv, [Next]_vars, ~Spend("removal"), NEW s \in SPs, NEW n \in Names,
           Fitting(s, n)
    PROVE  Fitting(s, n)'
<1>1. TypeInv /\ \A t \in SPs : t = s
  BY DEF FitInv, OwnInv, CoreInv, Alone
<1>2. Writes => s = job.sp
  BY <1>1, WritesInHand
<1>3. CASE JobStep
  BY <1>2, <1>3, WriteFits, CallFits
<1>4. CASE \E t \in SPs : Begin(t)
  BY <1>1, <1>4, BeginFits
<1>5. CASE \E t \in SPs : CreateSP(t) \/ EditSpec(t) \/ Annotate(t) \/ DeleteSP(t)
  BY <1>1, <1>5, UserFits
<1> QED
  BY <1>3, <1>4, <1>5, RestFits

LEMMA FitsInit == Init => StatusFits
<1> SUFFICES ASSUME Init, NEW s \in SPs, NEW n \in Names PROVE Fitting(s, n)
  BY DEF StatusFits, Fitting
<1>1. ~InHand /\ ~sps[s].live
  BY GoneFields, IdleHand, StepSets DEF Init, InHand
<1>2. Readable(s) = {Gone}
  <2>1. Len(<<>>) = 0 /\ cache[s] = Gone /\ pending[s] = <<>>
    BY EmptySeq, Zenon DEF Init
  <2> QED
    BY <2>1 DEF Readable
<1> QED
  BY <1>1, <1>2, GoneFields
     DEF Fitting, HandFits, CacheFits, IdIsTrue, AdminIsTrue, Workable

\* What is invariant of the status and of what it is read from.
StatusInv == NothingFollows /\ BareIsBlank /\ StatusFits

LEMMA StatusNext ==
    ASSUME OwnInv, StatusInv, BudgetKept, [Next]_vars
    PROVE  StatusInv'
<1>1. NothingFollows' /\ BareIsBlank'
  BY FollowsNext, BareNext DEF StatusInv
<1>2. ASSUME Alone, left'["removal"] = Budget["removal"], NEW s \in SPs, NEW n \in Names
      PROVE  Fitting(s, n)'
  <2>1. left["removal"] = Budget["removal"] /\ ~Spend("removal")
    BY <1>2, StepBudget DEF Kinds, OwnInv, CoreInv
  <2>2. Fitting(s, n)
    BY <1>2, <2>1 DEF StatusInv, StatusFits, Fitting
  <2> QED
    BY <1>2, <2>1, <2>2, NextFits DEF FitInv, StatusInv
<1>3. StatusFits'
  BY <1>2 DEF StatusFits, Fitting, Alone
<1> QED
  BY <1>1, <1>3 DEF StatusInv

\* What the status says of the application, in every behaviour.
LEMMA StatusInvariant == Spec => []StatusInv
<1>1. Init => StatusInv
  BY FollowsInit, BareInit, FitsInit DEF StatusInv
<1>2. OwnInv /\ StatusInv /\ DropInv /\ [Next]_vars => StatusInv'
  BY StatusNext DEF DropInv
<1> QED
  BY <1>1, <1>2, OwnInvariant, DropInvariant, PTL DEF Spec

LEMMA StatusNames == ASSUME OwnInv, StatusInv PROVE StatusNamesItsApplication
<1> SUFFICES ASSUME left["removal"] = Budget["removal"], Alone
             PROVE  /\ job.pc = "appUpdate" => UpdateId \in {0, job.mem.id}
                    /\ \A s \in SPs, n \in Names : IdIsTrue(s, n) /\ AdminIsTrue(s, n)
  BY DEF StatusNamesItsApplication
<1>1. \A s \in SPs, n \in Names : HandFits(s, n) /\ IdIsTrue(s, n) /\ AdminIsTrue(s, n)
  BY DEF StatusInv, StatusFits
<1>2. CASE job.pc = "appUpdate"
  <2>1. InHand /\ job.mem.id # 0
    BY <1>2, StepSets DEF InHand, OwnInv, IdInv, IdInJob, At
  <2>2. job.sp \in SPs /\ Wanted.name \in Names
    BY <1>2
       DEF OwnInv, CoreInv, TypeInv, TypeOK, ControlOK, JobShape, Job, SPObject,
           SPSpec, Wanted
  <2>3. Fits(job.copy.st, Wanted.name) /\ Fits(job.mem, Wanted.name)
    BY <1>1, <2>1, <2>2 DEF HandFits
  <2> QED
    BY <1>1, <2>1, <2>3 DEF Fits, UpdateId
<1> QED
  BY <1>1, <1>2

\* With one object and one name, and as long as nobody else removes applications,
\* the status is about the application that there is, although the ID and the flag
\* are written from copies that may be old, patched over versions that nobody read,
\* and survive deletions: the ID in it, if any, is that of the application, but for
\* an object that is being deleted and whose application is gone; an update carries
\* the ID of the application just read, or none; and AdminCanView is never true of
\* an application that the administrators may not see (reconcileApplication,
\* reconcileAdminAccess, handleDelete).
THEOREM StatusIsAboutItsApplication == Spec => []StatusNamesItsApplication
<1>1. OwnInv /\ StatusInv => StatusNamesItsApplication
  BY StatusNames
<1> QED
  BY <1>1, OwnInvariant, StatusInvariant, PTL

------------------------------------------------------------------------------
(* The controller as a part of something larger *)

\* A refused call learns nothing, and leaves everything as it is but the job.
LEMMA RefusedFits ==
    ASSUME FitInv, Refusal, NEW s \in SPs, NEW n \in Names, Fitting(s, n)
    PROVE  Fitting(s, n)'
<1>1. TypeInv /\ job.mem \in Status
  BY RecallsOutcomes DEF FitInv, OwnInv, CoreInv
<1>2. /\ UNCHANGED <<sps, apps>> /\ Grows(n) /\ Readable(s)' = Readable(s)
      /\ job' = Idle \/ job'.copy = job.copy
  BY <1>1, RefusalInHand DEF QuietJob, kube, Readable, Grows
<1>3. HandFits(s, n)'
  <2>1. CASE InHand /\ Onward /\ job.pc # "delApp"
    <3>1. Fits(job.copy.st, n) /\ Fits(job.mem, n) /\ Fits(sps[s].st, n)
      BY <2>1 DEF Fitting, HandFits
    <3>2. Recalls(job.mem)
      BY <1>1, <2>1, RecallsOutcomes DEF Refusal
    <3>3. job' = Idle => ~InHand'
      BY IdleHand
    <3> QED
      BY <1>2, <3>1, <3>2, <3>3 DEF Recalls, Alike, HandFits, Fits
  <2>2. CASE job'.pc = "rmFin"
    BY <2>2, StepSets DEF InHand, HandFits
  <2>3. InHand => job.pc # "delApp"
    BY StepSets DEF InHand
  <2> QED
    BY <1>1, <2>1, <2>2, <2>3, RefusalInHand
<1> QED
  BY <1>2, <1>3, FitsQuiet

LEMMA OuterStatus == ASSUME OwnInv, StatusInv, Outer PROVE StatusInv'
<1>1. TypeInv /\ InformerChain /\ UNCHANGED <<sps, apps>>
  BY OuterLeaves DEF OwnInv, CoreInv
<1>2. NothingFollows'
  <2>1. CASE Refusal
    <3>1. UNCHANGED kube /\ (job' = Idle \/ job'.sp = job.sp)
      BY <1>1, <2>1, RefusalInHand DEF QuietJob
    <3>2. job'.pc \in Deletion => job.pc \in Deletion /\ job' # Idle
      BY <1>1, <2>1, RefusalInHand, DeletionSteps, IdleHand, StepSets
         DEF Onward, InHand, Deletion, Refusal
    <3> QED
      BY <3>1, <3>2, FollowsQuiet DEF StatusInv
  <2>2. CASE Sight
    BY <2>2, FollowsQuiet DEF StatusInv, Sight, control
  <2> QED
    BY <2>1, <2>2, FollowsRestart DEF Outer, Stop
<1>3. BareIsBlank'
  BY <1>1 DEF StatusInv, BareIsBlank
<1>4. ASSUME Alone, left'["removal"] = Budget["removal"], NEW s \in SPs, NEW n \in Names
      PROVE  Fitting(s, n)'
  <2>1. left["removal"] = Budget["removal"]
    BY <1>1, <1>4
       DEF Outer, Refusal, Sight, Stop, Spend, Kinds, TypeInv, TypeOK
  <2>2. FitInv /\ Fitting(s, n) /\ sps[s] \in Readable(s)
    BY <1>1, <1>4, <2>1, LastReadable
       DEF FitInv, StatusInv, StatusFits, Fitting, TypeInv, TypeOK
  <2>3. ASSUME job' = job \/ job' = Idle, Readable(s)' \subseteq Readable(s)
        PROVE  Fitting(s, n)'
    <3>1. Grows(n)
      BY <1>1 DEF Grows
    <3>2. HandFits(s, n)'
      BY <1>1, <2>2, <2>3, <3>1, HandFitsKept DEF Fitting
    <3> QED
      BY <1>1, <2>2, <2>3, <3>1, <3>2, FitsQuiet
  <2>4. CASE Sight
    BY <2>3, <2>4 DEF Sight, control, kube, Readable
  <2>5. CASE Stop
    BY <2>2, <2>3, <2>5, ReadableAfterRestart DEF Stop, Restart
  <2> QED
    BY <2>2, <2>4, <2>5, RefusedFits DEF Outer
<1>5. StatusFits'
  BY <1>4 DEF StatusFits, Fitting, Alone
<1> QED
  BY <1>2, <1>3, <1>5 DEF StatusInv
==============================================================================
