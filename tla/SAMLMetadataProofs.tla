------------------------- MODULE SAMLMetadataProofs -------------------------
(***************************************************************************)
(* What the loops of saml.go compute, for documents of any length.  Each   *)
(* loop is a FoldLeft; induction over data is at hand for concrete sets    *)
(* only, so a fold is first unrolled into the values that its loop variable*)
(* takes (the lemmas named ...Fold), and an invariant of the loop is then a *)
(* set of positions that contains 0 and, with a position, the next one.    *)
(***************************************************************************)
EXTENDS SAMLMetadata, TLAPS, WellFoundedInduction

\* Induction over the numbers is used through sets only.
Less == {p \in Nat \X Nat : p[1] < p[2]}
\* The order of the numbers, as a set of pairs, is well-founded.
LEMMA LessIsWellFounded == IsWellFoundedOn(Less, Nat)
  BY NatLessThanWellFounded DEF OpToRel, Less

\* Every set of numbers with an element has a least one.
LEMMA LeastElement ==
  ASSUME NEW T, T \subseteq Nat, T # {}
  PROVE  \E x \in T : \A y \in T : x <= y
<1>1. PICK x \in T : \A y \in T : ~ (<<y, x>> \in Less)
  BY WFMin, LessIsWellFounded
<1>2. ASSUME NEW y \in T PROVE x <= y
  <2>1. <<y, x>> \notin Less BY <1>1
  <2>2. <<y, x>> \in Nat \X Nat BY <1>2
  <2>3. ~(y < x)
    <3>1. <<y, x>>[1] = y /\ <<y, x>>[2] = x OBVIOUS
    <3> QED BY <2>1, <2>2, <3>1 DEF Less
  <2> QED BY <2>3
<1> QED BY <1>2

\* A set with 0 that has, with each number below n, the next one, has all of 0..n.
LEMMA Induction ==
  ASSUME NEW n \in Nat, NEW S, 0 \in S,
         \A i \in 0..(n - 1) : i \in S => i + 1 \in S
  PROVE  \A i \in 0..n : i \in S
<1> DEFINE T == {i \in 0..n : i \notin S}
<1> SUFFICES ASSUME T # {} PROVE FALSE
  OBVIOUS
<1>0. T \subseteq Nat
  OBVIOUS
<1> HIDE DEF T
<1>1. PICK x \in T : \A y \in T : x <= y
  BY <1>0, LeastElement
<1>2. x # 0 /\ x - 1 \in 0..(n - 1) /\ x - 1 \notin T
  BY <1>1 DEF T
<1> QED BY <1>1, <1>2 DEF T

\* A set of positions with an element has a maximum.
LEMMA MaxOf ==
  ASSUME NEW n \in Nat, NEW T, T \subseteq 1..n, T # {}
  PROVE  Max(T) \in T /\ \A y \in T : y <= Max(T)
<1> DEFINE U == {i \in 0..n : n - i \in T}
<1>1. U \subseteq Nat
  OBVIOUS
<1>a. PICK a \in T : TRUE OBVIOUS
<1>b. n - a \in U BY <1>a
<1>2. PICK x \in U : \A y \in U : x <= y
  <2> HIDE DEF U
  <2> QED BY <1>1, <1>b, LeastElement
<1>3. \A y \in T : n - y \in U
  OBVIOUS
<1>4. n - x \in T /\ \A y \in T : n - x >= y
  BY <1>2, <1>3
<1>5. \E z \in T : \A y \in T : z >= y
  BY <1>4
<1> QED BY <1>5 DEF Max

\* ... and a minimum.
LEMMA MinOf ==
  ASSUME NEW n \in Nat, NEW T, T \subseteq 1..n, T # {}
  PROVE  Min(T) \in T /\ \A y \in T : Min(T) <= y
<1>0. T \subseteq Nat OBVIOUS
<1>1. \E z \in T : \A y \in T : z <= y
  BY <1>0, LeastElement
<1> QED BY <1>1 DEF Min

\* An element that none exceeds is the maximum.
LEMMA MaxIs ==
  ASSUME NEW n \in Nat, NEW T, T \subseteq 1..n, NEW m \in T, \A y \in T : y <= m
  PROVE  Max(T) = m
<1>1. PICK x \in T : x = Max(T) /\ m <= x BY MaxOf
<1>2. x <= m OBVIOUS
<1>3. x \in Nat /\ m \in Nat OBVIOUS
<1>4. x = m BY <1>1, <1>2, <1>3
<1> QED BY <1>1, <1>4

\* it is what FoldLeft computes on every set of positions, going by the last one;
\* the loop's body is the function g of the loop variable and the position.
Recurs(it, base, n, g) ==
    \A s \in SUBSET (1..n) :
       it[s] = IF s = {} THEN base ELSE g[<<it[s \ {Max(s)}], Max(s)>>]

\* Such a function exists, whatever the body of the loop.
LEMMA SubsetRecursion ==
  ASSUME NEW V, NEW base \in V, NEW n \in Nat, NEW g \in [V \X (1..n) -> V]
  PROVE  \E it \in [SUBSET (1..n) -> V] : Recurs(it, base, n, g)
<1> DEFINE P(it, k) == Recurs(it, base, k, g)
           S == {k \in 0..n : \E it \in [SUBSET (1..k) -> V] : P(it, k)}
<1>1. 0 \in S
  <2> DEFINE it == [s \in SUBSET (1..0) |-> base]
  <2>1. it \in [SUBSET (1..0) -> V] OBVIOUS
  <2>2. P(it, 0) BY DEF Recurs
  <2>3. 0 \in 0..n OBVIOUS
  <2> HIDE DEF it, P
  <2> QED BY <2>1, <2>2, <2>3
<1>2. ASSUME NEW k \in 0..(n - 1), k \in S PROVE k + 1 \in S
  <2>1. PICK it \in [SUBSET (1..k) -> V] : P(it, k)
    BY <1>2
  <2> DEFINE jt == [s \in SUBSET (1..(k + 1)) |->
                      IF k + 1 \in s THEN g[<<it[s \ {k + 1}], k + 1>>] ELSE it[s]]
  <2>2. ASSUME NEW s \in SUBSET (1..(k + 1)) PROVE s \ {k + 1} \in SUBSET (1..k)
    OBVIOUS
  <2>3. jt \in [SUBSET (1..(k + 1)) -> V]
    <3> SUFFICES ASSUME NEW s \in SUBSET (1..(k + 1))
                 PROVE (IF k + 1 \in s THEN g[<<it[s \ {k + 1}], k + 1>>] ELSE it[s]) \in V
      OBVIOUS
    <3>1. CASE k + 1 \in s
      <4>1. it[s \ {k + 1}] \in V BY <2>2
      <4> QED BY <3>1, <4>1
    <3>2. CASE k + 1 \notin s
      <4>1. s = s \ {k + 1} BY <3>2
      <4> QED BY <3>2, <4>1, <2>2
    <3> QED BY <3>1, <3>2
  <2>4. ASSUME NEW s \in SUBSET (1..(k + 1))
        PROVE  jt[s] = IF s = {} THEN base ELSE g[<<jt[s \ {Max(s)}], Max(s)>>]
    <3>1. CASE k + 1 \in s
      <4>1. Max(s) = k + 1
        <5>1. k + 1 \in Nat /\ s \subseteq 1..(k + 1) /\ \A y \in s : y <= k + 1 OBVIOUS
        <5> QED BY <3>1, <5>1, MaxIs
      <4>2. jt[s \ {k + 1}] = it[s \ {k + 1}] BY <2>2
      <4> QED BY <3>1, <4>1, <4>2
    <3>2. CASE k + 1 \notin s /\ s = {}
      BY <2>1, <3>2 DEF Recurs
    <3>3. CASE k + 1 \notin s /\ s # {}
      <4>1. s \in SUBSET (1..k) BY <3>3
      <4>2. jt[s] = it[s] BY <3>3
      <4>3. s \ {Max(s)} \in SUBSET (1..k) /\ k + 1 \notin s \ {Max(s)} BY <4>1, <3>3
      <4>4. jt[s \ {Max(s)}] = it[s \ {Max(s)}] BY <4>3
      <4> QED BY <2>1, <3>3, <4>1, <4>2, <4>4 DEF Recurs
    <3> QED BY <3>1, <3>2, <3>3
  <2> HIDE DEF jt
  <2>5. P(jt, k + 1) BY <2>4 DEF Recurs
  <2>6. k + 1 \in 0..n BY <1>2
  <2> HIDE DEF P
  <2> QED BY <2>3, <2>5, <2>6
<1>3. n \in S
  <2> HIDE DEF S
  <2> QED BY <1>1, <1>2, Induction
<1> QED BY <1>3

\* The positions up to i end with i, and without it they are those up to i - 1.
LEMMA Segments ==
  ASSUME NEW n \in Nat, NEW i \in 1..n
  PROVE  /\ 1..i \in SUBSET (1..n) /\ 1..i # {}
         /\ Max(1..i) = i
         /\ (1..i) \ {i} = 1..(i - 1)
<1>1. i \in Nat /\ i \in 1..i /\ \A y \in 1..i : y <= i
  OBVIOUS
<1>2. \A j \in 1..i : j \in 1..n
  OBVIOUS
<1>3. Max(1..i) = i
  BY <1>1, MaxIs
<1>4. (1..i) \ {i} = 1..(i - 1)
  OBVIOUS
<1> QED BY <1>1, <1>2, <1>3, <1>4

\* An element below all others is the minimum.
LEMMA MinIs ==
  ASSUME NEW n \in Nat, NEW T, T \subseteq 1..n, NEW m \in T, \A y \in T : m <= y
  PROVE  Min(T) = m
<1>1. PICK x \in T : x = Min(T) /\ x <= m BY MinOf
<1>2. m <= x OBVIOUS
<1>3. x \in Nat /\ m \in Nat OBVIOUS
<1>4. x = m BY <1>1, <1>2, <1>3
<1> QED BY <1>1, <1>4

------------------------------------------------------------------------------
(* The loops, unrolled *)

\* The values that the loop variables of collectACSURLs and parseSLOEndpoints take.
Urls == STRING \cup {""}
Slos == [on : BOOLEAN, front : {"", "post", "redirect"},
         request : Urls, answer : Urls]

\* parseSLOEndpoints keeps to these values.
LEMMA TakeSloType ==
  ASSUME NEW a \in Slos, NEW e \in SloEndpoint
  PROVE  TakeSlo(a, e) \in Slos
<1> DEFINE w == IF e.answerAt = "" THEN e.at ELSE e.answerAt
<1>2. w \in Urls /\ e.at \in Urls
  BY DEF SloEndpoint, Urls
<1> HIDE DEF w
<1>3. CASE e.binding = "post" \/ (e.binding = "redirect" /\ a.front = "")
  <2>1. TakeSlo(a, e) = [a EXCEPT !.front = e.binding, !.request = e.at, !.answer = w]
    BY <1>3 DEF TakeSlo, w
  <2>2. e.binding \in {"", "post", "redirect"} BY <1>3
  <2> QED BY <1>2, <2>1, <2>2 DEF Slos
<1>4. CASE ~(e.binding = "post" \/ (e.binding = "redirect" /\ a.front = ""))
  <2>1. TakeSlo(a, e) = a \/ TakeSlo(a, e) = [a EXCEPT !.request = e.at, !.answer = e.at]
    BY <1>4 DEF TakeSlo
  <2> QED BY <1>2, <2>1 DEF Slos
<1> QED BY <1>3, <1>4

\* The loop of parseSLOEndpoints: h[i] is its variable after the i-th endpoint.
LEMMA SloFold ==
  ASSUME NEW s \in Seq(SloEndpoint), NEW base \in Slos
  PROVE  \E h : /\ h[0] = base
                /\ \A i \in 1..Len(s) : h[i] = TakeSlo(h[i - 1], s[i])
                /\ FoldLeft(TakeSlo, base, s) = h[Len(s)]
<1> DEFINE n == Len(s)
           g == [p \in Slos \X (1..n) |-> TakeSlo(p[1], s[p[2]])]
           Eq(it) == it = [t \in SUBSET (1..n) |->
                        IF t = {} THEN base ELSE TakeSlo(it[t \ {Max(t)}], s[Max(t)])]
           fix == CHOOSE it : Eq(it)
           h == [i \in 0..n |-> fix[1..i]]
<1>1. n \in Nat /\ DOMAIN s = 1..n
  OBVIOUS
<1>2. ASSUME NEW a \in Slos, NEW i \in 1..n PROVE TakeSlo(a, s[i]) \in Slos
  BY TakeSloType
<1>3. g \in [Slos \X (1..n) -> Slos]
  BY <1>2
<1>4. ASSUME NEW a \in Slos, NEW i \in 1..n PROVE g[<<a, i>>] = TakeSlo(a, s[i])
  OBVIOUS
<1>5. Eq(fix)
  <2> HIDE DEF g, n
  <2>1. PICK it \in [SUBSET (1..n) -> Slos] : Recurs(it, base, n, g)
    BY <1>1, <1>3, SubsetRecursion
  <2>2. ASSUME NEW t \in SUBSET (1..n), t # {}
        PROVE  it[t] = TakeSlo(it[t \ {Max(t)}], s[Max(t)])
    <3>1. Max(t) \in 1..n BY <1>1, <2>2, MaxOf
    <3> QED BY <2>1, <2>2, <3>1, <1>4 DEF Recurs
  <2>3. it = [t \in SUBSET (1..n) |->
                IF t = {} THEN base ELSE TakeSlo(it[t \ {Max(t)}], s[Max(t)])]
    BY <2>1, <2>2 DEF Recurs
  <2> QED BY <2>3
<1>6. FoldLeft(TakeSlo, base, s) = fix[1..n]
  BY <1>1 DEF FoldLeft, MapThenFoldSet
<1>7. ASSUME NEW t \in SUBSET (1..n)
      PROVE  fix[t] = IF t = {} THEN base ELSE TakeSlo(fix[t \ {Max(t)}], s[Max(t)])
  <2> HIDE DEF fix
  <2> QED BY <1>5
<1>8. fix[1..0] = base
  <2>1. 1..0 = {} /\ 1..0 \in SUBSET (1..n) BY <1>1
  <2> HIDE DEF fix
  <2> QED BY <1>7, <2>1
<1>9. ASSUME NEW i \in 1..n PROVE fix[1..i] = TakeSlo(fix[1..(i - 1)], s[i])
  <2> HIDE DEF fix, n
  <2> QED BY <1>1, <1>7, Segments
<1>10. /\ h[0] = base /\ h[n] = fix[1..n]
       /\ \A i \in 1..n : h[i] = fix[1..i] /\ h[i - 1] = fix[1..(i - 1)]
  <2> HIDE DEF fix, n
  <2> QED BY <1>1, <1>8
<1> HIDE DEF h, fix
<1> QED BY <1>6, <1>9, <1>10

\* The loop of collectACSURLs, as far as the services marked as default go.
LEMMA MarkFold ==
  ASSUME NEW s \in Seq(AcsService), NEW base \in Urls
  PROVE  \E h : /\ h[0] = base
                /\ \A i \in 1..Len(s) : h[i] = Mark(h[i - 1], s[i])
                /\ FoldLeft(Mark, base, s) = h[Len(s)]
<1> DEFINE n == Len(s)
           g == [p \in Urls \X (1..n) |-> Mark(p[1], s[p[2]])]
           Eq(it) == it = [t \in SUBSET (1..n) |->
                        IF t = {} THEN base ELSE Mark(it[t \ {Max(t)}], s[Max(t)])]
           fix == CHOOSE it : Eq(it)
           h == [i \in 0..n |-> fix[1..i]]
<1>1. n \in Nat /\ DOMAIN s = 1..n
  OBVIOUS
<1>2. ASSUME NEW a \in Urls, NEW i \in 1..n PROVE Mark(a, s[i]) \in Urls
  <2>1. s[i] \in AcsService
    BY <1>2
  <2>2. s[i].url \in Urls
    BY <2>1 DEF AcsService, Urls
  <2> QED BY <1>2, <2>2 DEF Mark
<1>3. g \in [Urls \X (1..n) -> Urls]
  BY <1>2
<1>4. ASSUME NEW a \in Urls, NEW i \in 1..n PROVE g[<<a, i>>] = Mark(a, s[i])
  OBVIOUS
<1>5. Eq(fix)
  <2> HIDE DEF g, n
  <2>1. PICK it \in [SUBSET (1..n) -> Urls] : Recurs(it, base, n, g)
    BY <1>1, <1>3, SubsetRecursion
  <2>2. ASSUME NEW t \in SUBSET (1..n), t # {}
        PROVE  it[t] = Mark(it[t \ {Max(t)}], s[Max(t)])
    <3>1. Max(t) \in 1..n BY <1>1, <2>2, MaxOf
    <3> QED BY <2>1, <2>2, <3>1, <1>4 DEF Recurs
  <2>3. it = [t \in SUBSET (1..n) |->
                IF t = {} THEN base ELSE Mark(it[t \ {Max(t)}], s[Max(t)])]
    BY <2>1, <2>2 DEF Recurs
  <2> QED BY <2>3
<1>6. FoldLeft(Mark, base, s) = fix[1..n]
  BY <1>1 DEF FoldLeft, MapThenFoldSet
<1>7. ASSUME NEW t \in SUBSET (1..n)
      PROVE  fix[t] = IF t = {} THEN base ELSE Mark(fix[t \ {Max(t)}], s[Max(t)])
  <2> HIDE DEF fix
  <2> QED BY <1>5
<1>8. fix[1..0] = base
  <2>1. 1..0 = {} /\ 1..0 \in SUBSET (1..n) BY <1>1
  <2> HIDE DEF fix
  <2> QED BY <1>7, <2>1
<1>9. ASSUME NEW i \in 1..n PROVE fix[1..i] = Mark(fix[1..(i - 1)], s[i])
  <2> HIDE DEF fix, n
  <2> QED BY <1>1, <1>7, Segments
<1>10. /\ h[0] = base /\ h[n] = fix[1..n]
       /\ \A i \in 1..n : h[i] = fix[1..i] /\ h[i - 1] = fix[1..(i - 1)]
  <2> HIDE DEF fix, n
  <2> QED BY <1>1, <1>8
<1> HIDE DEF h, fix
<1> QED BY <1>6, <1>9, <1>10

\* ... and as far as the service with the lowest index goes.
LEMMA LowerFold ==
  ASSUME NEW s \in Seq(AcsService), NEW base \in AcsService
  PROVE  \E h : /\ h[0] = base
                /\ \A i \in 1..Len(s) : h[i] = Lower(h[i - 1], s[i])
                /\ FoldLeft(Lower, base, s) = h[Len(s)]
<1> DEFINE n == Len(s)
           g == [p \in AcsService \X (1..n) |-> Lower(p[1], s[p[2]])]
           Eq(it) == it = [t \in SUBSET (1..n) |->
                        IF t = {} THEN base ELSE Lower(it[t \ {Max(t)}], s[Max(t)])]
           fix == CHOOSE it : Eq(it)
           h == [i \in 0..n |-> fix[1..i]]
<1>1. n \in Nat /\ DOMAIN s = 1..n
  OBVIOUS
<1>2. ASSUME NEW a \in AcsService, NEW i \in 1..n PROVE Lower(a, s[i]) \in AcsService
  BY DEF Lower
<1>3. g \in [AcsService \X (1..n) -> AcsService]
  BY <1>2
<1>4. ASSUME NEW a \in AcsService, NEW i \in 1..n PROVE g[<<a, i>>] = Lower(a, s[i])
  OBVIOUS
<1>5. Eq(fix)
  <2> HIDE DEF g, n
  <2>1. PICK it \in [SUBSET (1..n) -> AcsService] : Recurs(it, base, n, g)
    BY <1>1, <1>3, SubsetRecursion
  <2>2. ASSUME NEW t \in SUBSET (1..n), t # {}
        PROVE  it[t] = Lower(it[t \ {Max(t)}], s[Max(t)])
    <3>1. Max(t) \in 1..n BY <1>1, <2>2, MaxOf
    <3> QED BY <2>1, <2>2, <3>1, <1>4 DEF Recurs
  <2>3. it = [t \in SUBSET (1..n) |->
                IF t = {} THEN base ELSE Lower(it[t \ {Max(t)}], s[Max(t)])]
    BY <2>1, <2>2 DEF Recurs
  <2> QED BY <2>3
<1>6. FoldLeft(Lower, base, s) = fix[1..n]
  BY <1>1 DEF FoldLeft, MapThenFoldSet
<1>7. ASSUME NEW t \in SUBSET (1..n)
      PROVE  fix[t] = IF t = {} THEN base ELSE Lower(fix[t \ {Max(t)}], s[Max(t)])
  <2> HIDE DEF fix
  <2> QED BY <1>5
<1>8. fix[1..0] = base
  <2>1. 1..0 = {} /\ 1..0 \in SUBSET (1..n) BY <1>1
  <2> HIDE DEF fix
  <2> QED BY <1>7, <2>1
<1>9. ASSUME NEW i \in 1..n PROVE fix[1..i] = Lower(fix[1..(i - 1)], s[i])
  <2> HIDE DEF fix, n
  <2> QED BY <1>1, <1>7, Segments
<1>10. /\ h[0] = base /\ h[n] = fix[1..n]
       /\ \A i \in 1..n : h[i] = fix[1..i] /\ h[i - 1] = fix[1..(i - 1)]
  <2> HIDE DEF fix, n
  <2> QED BY <1>1, <1>8
<1> HIDE DEF h, fix
<1> QED BY <1>6, <1>9, <1>10

------------------------------------------------------------------------------
(* collectACSURLs *)

\* The i-th service is the last of the first n that is marked as default.
LastDeclared(acs, n, i) ==
    i \in 1..n /\ acs[i].default /\ \A j \in 1..n : acs[j].default => j <= i

\* collectACSURLs: defaultURL is the address of the last service marked as
\* default, and empty when none is.
LEMMA MarkedRule ==
  ASSUME NEW acs \in Seq(AcsService)
  PROVE  \E url : /\ url = FoldLeft(Mark, "", acs)
                  /\ url # "" => \E j \in 1..Len(acs) : acs[j].default /\ acs[j].url = url
                  /\ \A j : LastDeclared(acs, Len(acs), j) => acs[j].url = url
<1> DEFINE n == Len(acs)
<1>1. n \in Nat
  OBVIOUS
<1>2. PICK h : /\ h[0] = ""
               /\ \A i \in 1..Len(acs) : h[i] = Mark(h[i - 1], acs[i])
               /\ FoldLeft(Mark, "", acs) = h[Len(acs)]
  <2>1. "" \in Urls BY DEF Urls
  <2> QED BY <2>1, MarkFold
<1> HIDE DEF n
<1> DEFINE Inv(i) == /\ h[i] # "" => \E j \in 1..i : acs[j].default /\ acs[j].url = h[i]
                     /\ \A j : LastDeclared(acs, i, j) => acs[j].url = h[i]
           S == {i \in 0..n : Inv(i)}
<1>3. 0 \in S
  <2>1. 0 \in 0..n /\ \A j : ~LastDeclared(acs, 0, j) BY <1>1 DEF LastDeclared
  <2>2. Inv(0) BY <1>2, <2>1
  <2> HIDE DEF Inv
  <2> QED BY <2>1, <2>2
<1>4. ASSUME NEW i \in 0..(n - 1), i \in S PROVE i + 1 \in S
  <2>1. i \in Nat /\ i + 1 \in 1..n /\ (i + 1) - 1 = i
    BY <1>1
  <2>a. i + 1 \in 0..n
    BY <1>1
  <2>2. h[i + 1] = Mark(h[i], acs[i + 1])
    BY <1>2, <2>1 DEF n
  <2>3. Inv(i)
    BY <1>4
  <2>4. CASE acs[i + 1].default
    <3>1. h[i + 1] = acs[i + 1].url BY <2>2, <2>4 DEF Mark
    <3>2. ASSUME NEW j, LastDeclared(acs, i + 1, j) PROVE j = i + 1
      BY <2>1, <2>4, <3>2 DEF LastDeclared
    <3>3. i + 1 \in 1..(i + 1) BY <2>1
    <3>4. Inv(i + 1) BY <2>4, <3>1, <3>2, <3>3
    <3> HIDE DEF Inv
    <3> QED BY <2>a, <3>4
  <2>5. CASE ~acs[i + 1].default
    <3>1. h[i + 1] = h[i] BY <2>2, <2>5 DEF Mark
    <3>2. ASSUME NEW j, LastDeclared(acs, i + 1, j) PROVE LastDeclared(acs, i, j)
      BY <2>1, <2>5, <3>2 DEF LastDeclared
    <3>3. \A j \in 1..i : j \in 1..(i + 1) BY <2>1
    <3>4. Inv(i + 1) BY <2>3, <3>1, <3>2, <3>3
    <3> HIDE DEF Inv
    <3> QED BY <2>a, <3>4
  <2> QED BY <2>4, <2>5
<1>5. n \in S
  <2> HIDE DEF S
  <2>1. \A i \in 0..n : i \in S BY <1>1, <1>3, <1>4, Induction
  <2>2. n \in 0..n BY <1>1
  <2> QED BY <2>1, <2>2
<1> QED BY <1>2, <1>5 DEF n

\* The j-th service is the first of those of the first n with the lowest index.
IsFirst(acs, n, j) ==
    /\ j \in 1..Len(acs)
    /\ \A k \in 1..n : IF k < j THEN acs[j].index < acs[k].index
                       ELSE acs[j].index <= acs[k].index

\* collectACSURLs: lowestURL is the address of the first service with the lowest
\* index.
LEMMA LowerRule ==
  ASSUME NEW acs \in Seq(AcsService), acs # <<>>
  PROVE  \E j : IsFirst(acs, Len(acs), j) /\ FoldLeft(Lower, acs[1], acs) = acs[j]
<1> DEFINE n == Len(acs)
<1>1. n \in Nat /\ 1 \in 1..n
  OBVIOUS
<1>2. PICK h : /\ h[0] = acs[1]
               /\ \A i \in 1..Len(acs) : h[i] = Lower(h[i - 1], acs[i])
               /\ FoldLeft(Lower, acs[1], acs) = h[Len(acs)]
  <2>1. acs[1] \in AcsService BY <1>1
  <2> QED BY <2>1, LowerFold
<1>3. ASSUME NEW j \in 1..n PROVE acs[j].index \in Int
  <2>1. acs[j] \in AcsService OBVIOUS
  <2> QED BY <2>1 DEF AcsService
<1> HIDE DEF n
<1> DEFINE Inv(i) == \E j : IsFirst(acs, i, j) /\ (j <= i \/ j = 1) /\ h[i] = acs[j]
           S == {i \in 0..n : Inv(i)}
<1>4. 0 \in S
  <2>1. IsFirst(acs, 0, 1) BY <1>1 DEF IsFirst, n
  <2> QED BY <1>1, <1>2, <2>1
<1>5. ASSUME NEW i \in 0..(n - 1), i \in S PROVE i + 1 \in S
  <2>1. i \in Nat /\ i + 1 \in 1..n /\ (i + 1) - 1 = i
    BY <1>1
  <2>a. i + 1 \in 0..n
    BY <1>1
  <2>2. h[i + 1] = Lower(h[i], acs[i + 1])
    BY <1>2, <2>1 DEF n
  <2>3. PICK j : IsFirst(acs, i, j) /\ (j <= i \/ j = 1) /\ h[i] = acs[j]
    BY <1>5
  <2>4. j \in 1..n /\ acs[j].index \in Int /\ acs[i + 1].index \in Int
    BY <1>3, <2>1, <2>3 DEF IsFirst, n
  <2>5. CASE acs[i + 1].index < acs[j].index
    <3>1. h[i + 1] = acs[i + 1] BY <2>2, <2>3, <2>5 DEF Lower
    <3>2. ASSUME NEW k \in 1..(i + 1)
          PROVE  IF k < i + 1 THEN acs[i + 1].index < acs[k].index
                 ELSE acs[i + 1].index <= acs[k].index
      <4>1. CASE k = i + 1 BY <2>1, <2>4, <4>1
      <4>2. CASE k # i + 1
        <5>1. k \in 1..i /\ k \in 1..n BY <1>1, <2>1, <4>2
        <5>2. acs[j].index <= acs[k].index
          BY <1>3, <2>3, <2>4, <5>1 DEF IsFirst, n
        <5>3. acs[k].index \in Int BY <1>3, <5>1
        <5> QED BY <2>4, <2>5, <5>1, <5>2, <5>3
      <4> QED BY <4>1, <4>2
    <3>3. IsFirst(acs, i + 1, i + 1) BY <2>1, <3>2 DEF IsFirst, n
    <3>4. i + 1 <= i + 1 BY <2>1
    <3>5. Inv(i + 1) BY <3>1, <3>3, <3>4
    <3> HIDE DEF Inv
    <3> QED BY <2>a, <3>5
  <2>6. CASE ~(acs[i + 1].index < acs[j].index)
    <3>1. h[i + 1] = acs[j] BY <2>2, <2>3, <2>6 DEF Lower
    <3>2. j <= i + 1 /\ ~(i + 1 < j)
      BY <1>1, <2>1, <2>3, <2>4
    <3>3. ASSUME NEW k \in 1..(i + 1)
          PROVE  IF k < j THEN acs[j].index < acs[k].index
                 ELSE acs[j].index <= acs[k].index
      <4>1. CASE k = i + 1 BY <2>1, <2>4, <2>6, <3>2, <4>1
      <4>2. CASE k # i + 1
        <5>1. k \in 1..i BY <2>1, <4>2
        <5> QED BY <2>3, <5>1 DEF IsFirst, n
      <4> QED BY <4>1, <4>2
    <3>4. IsFirst(acs, i + 1, j) BY <2>4, <3>3 DEF IsFirst, n
    <3>5. Inv(i + 1) BY <3>1, <3>2, <3>4
    <3> HIDE DEF Inv
    <3> QED BY <2>a, <3>5
  <2> QED BY <2>5, <2>6
<1>6. n \in S
  <2> HIDE DEF S
  <2>1. \A i \in 0..n : i \in S BY <1>1, <1>4, <1>5, Induction
  <2>2. n \in 0..n BY <1>1
  <2> QED BY <2>1, <2>2
<1> QED BY <1>2, <1>6 DEF n

------------------------------------------------------------------------------
(* parseSLOEndpoints *)

\* One of the first i endpoints has the binding b; the preferred binding among
\* them; where the answer to a logout goes.
Has(slo, i, b) == \E j \in 1..i : slo[j].binding = b
Best(slo, i) == IF Has(slo, i, "post") THEN "post"
                ELSE IF Has(slo, i, "redirect") THEN "redirect"
                ELSE IF Has(slo, i, "soap") THEN "soap" ELSE ""
Answer(e) == IF e.answerAt = "" \/ e.binding = "soap" THEN e.at ELSE e.answerAt
\* The variables of parseSLOEndpoints after i endpoints.
Serving(slo, i, state) ==
    /\ state.front = IF Best(slo, i) = "soap" THEN "" ELSE Best(slo, i)
    /\ Best(slo, i) = "" => state.request = ""
    /\ Best(slo, i) # "" => \E j \in 1..i : /\ slo[j].binding = Best(slo, i)
                                            /\ state.request = slo[j].at
                                            /\ state.answer = Answer(slo[j])

\* What the body of the loop of parseSLOEndpoints does, by the binding.
LEMMA TakeSloRule ==
  ASSUME NEW state \in Slos, NEW e \in SloEndpoint
  PROVE  /\ e.binding = "post" \/ (e.binding = "redirect" /\ state.front = "")
            => /\ TakeSlo(state, e).front = e.binding
               /\ TakeSlo(state, e).request = e.at
               /\ TakeSlo(state, e).answer = Answer(e)
         /\ e.binding = "soap" /\ state.request = ""
            => /\ TakeSlo(state, e).front = state.front
               /\ TakeSlo(state, e).request = e.at
               /\ TakeSlo(state, e).answer = Answer(e)
         /\ \/ e.binding = "artifact"
            \/ e.binding = "redirect" /\ state.front # ""
            \/ e.binding = "soap" /\ state.request # ""
            => TakeSlo(state, e) = state
<1>1. CASE e.binding = "post" \/ (e.binding = "redirect" /\ state.front = "")
  <2>1. TakeSlo(state, e) = [state EXCEPT !.front = e.binding, !.request = e.at, !.answer = Answer(e)]
    BY <1>1 DEF TakeSlo, Answer
  <2> QED BY <1>1, <2>1 DEF Slos
<1>2. CASE e.binding = "soap" /\ state.request = ""
  <2>1. TakeSlo(state, e) = [state EXCEPT !.request = e.at, !.answer = Answer(e)]
    BY <1>2 DEF TakeSlo, Answer
  <2> QED BY <1>2, <2>1 DEF Slos
<1>3. CASE \/ e.binding = "artifact"
           \/ e.binding = "redirect" /\ state.front # ""
           \/ e.binding = "soap" /\ state.request # ""
  BY <1>3 DEF TakeSlo
<1> QED BY <1>1, <1>2, <1>3

\* How one more endpoint changes the preferred binding.
LEMMA BestStep ==
  ASSUME NEW slo \in Seq(SloEndpoint), NEW i \in Nat, i + 1 \in 1..Len(slo)
  PROVE  Best(slo, i + 1) =
           CASE slo[i + 1].binding = "post" -> "post"
             [] slo[i + 1].binding = "redirect" ->
                  IF Best(slo, i) = "post" THEN "post" ELSE "redirect"
             [] slo[i + 1].binding = "soap" ->
                  IF Best(slo, i) = "" THEN "soap" ELSE Best(slo, i)
             [] OTHER -> Best(slo, i)
<1>1. ASSUME NEW b PROVE Has(slo, i + 1, b) <=> Has(slo, i, b) \/ slo[i + 1].binding = b
  <2>1. 1..(i + 1) = 1..i \cup {i + 1} OBVIOUS
  <2> QED BY <2>1 DEF Has
<1> QED BY <1>1 DEF Best

\* Every endpoint has an address.
Addressed(slo) == \A j \in 1..Len(slo) : slo[j].at # ""

\* parseSLOEndpoints: whatever the order of the endpoints, the two addresses are
\* those of one endpoint of the preferred binding.
LEMMA ParseSloRule ==
  ASSUME NEW slo \in Seq(SloEndpoint), Addressed(slo)
  PROVE  Serving(slo, Len(slo), ParseSlo(slo))
<1> DEFINE n == Len(slo)
           base == [NoSlo EXCEPT !.on = (slo # <<>>)]
<1>1. n \in Nat
  OBVIOUS
<1>2. base \in Slos /\ base.front = "" /\ base.request = ""
  BY DEF Slos, NoSlo, Urls
<1>3. PICK h : /\ h[0] = base
               /\ \A i \in 1..Len(slo) : h[i] = TakeSlo(h[i - 1], slo[i])
               /\ FoldLeft(TakeSlo, base, slo) = h[Len(slo)]
  <2> HIDE DEF base
  <2> QED BY <1>2, SloFold
<1> HIDE DEF n
<1> DEFINE Inv(i) == h[i] \in Slos /\ Serving(slo, i, h[i])
           S == {i \in 0..n : Inv(i)}
<1>4. 0 \in S
  <2>0. 1..0 = {} OBVIOUS
  <2>1. Best(slo, 0) = "" BY <2>0 DEF Best, Has
  <2>2. Inv(0) BY <1>2, <1>3, <2>1 DEF Serving
  <2>3. 0 \in 0..n BY <1>1
  <2> HIDE DEF Inv
  <2> QED BY <2>2, <2>3
<1>5. ASSUME NEW i \in 0..(n - 1), i \in S PROVE i + 1 \in S
  <2>1. i \in Nat /\ i + 1 \in 1..n /\ (i + 1) - 1 = i /\ i + 1 \in 0..n
    BY <1>1
  <2>2. h[i + 1] = TakeSlo(h[i], slo[i + 1])
    BY <1>3, <2>1 DEF n
  <2>3. h[i] \in Slos /\ Serving(slo, i, h[i])
    BY <1>5
  <2> DEFINE e == slo[i + 1]
  <2>4. e \in SloEndpoint
    BY <2>1 DEF n
  <2>5. e.binding \in {"post", "redirect", "soap", "artifact"}
    BY <2>4 DEF SloEndpoint
  <2>6. h[i + 1] \in Slos
    BY <2>2, <2>3, <2>4, TakeSloType
  <2>7. Best(slo, i + 1) =
           CASE e.binding = "post" -> "post"
             [] e.binding = "redirect" -> IF Best(slo, i) = "post" THEN "post" ELSE "redirect"
             [] e.binding = "soap" -> IF Best(slo, i) = "" THEN "soap" ELSE Best(slo, i)
             [] OTHER -> Best(slo, i)
    BY <2>1, BestStep DEF n
  <2>8. i + 1 \in 1..(i + 1) /\ \A j \in 1..i : j \in 1..(i + 1)
    BY <2>1
  <2>9. Best(slo, i) \in {"", "post", "redirect", "soap"}
    BY DEF Best
  <2>10. h[i].request = "" => Best(slo, i) = ""
    <3>0. \A j \in 1..i : j \in 1..n
      BY <1>1, <2>1
    <3> SUFFICES ASSUME Best(slo, i) # "" PROVE h[i].request # ""
      OBVIOUS
    <3>1. PICK j \in 1..i : h[i].request = slo[j].at
      BY <2>3 DEF Serving
    <3>2. j \in 1..n BY <3>0
    <3> QED BY <3>1, <3>2 DEF n, Addressed
  <2>11. Serving(slo, i + 1, h[i + 1])
    <3> HIDE DEF e
    <3> DEFINE b1 == Best(slo, i + 1)
    <3>a. ASSUME b1 = e.binding, b1 # "",
                 h[i + 1].front = IF b1 = "soap" THEN "" ELSE b1,
                 h[i + 1].request = e.at, h[i + 1].answer = Answer(e)
          PROVE  Serving(slo, i + 1, h[i + 1])
      BY <2>8, <3>a DEF Serving, e
    <3>b. ASSUME b1 = Best(slo, i), h[i + 1] = h[i]
          PROVE  Serving(slo, i + 1, h[i + 1])
      BY <2>3, <2>8, <3>b DEF Serving
    <3>c. h[i].front = IF Best(slo, i) = "soap" THEN "" ELSE Best(slo, i)
      BY <2>3 DEF Serving
    <3>d. Best(slo, i) = "" => h[i].request = ""
      BY <2>3 DEF Serving
    <3>e. h[i] \in Slos /\ e \in SloEndpoint /\ h[i + 1] = TakeSlo(h[i], e)
      BY <2>2, <2>3, <2>4 DEF e
    <3>1. CASE e.binding = "post"
      <4>1. b1 = "post" BY <2>7, <3>1
      <4> HIDE DEF b1
      <4>2. /\ h[i + 1].front = e.binding /\ h[i + 1].request = e.at
            /\ h[i + 1].answer = Answer(e)
        BY <3>1, <3>e, TakeSloRule
      <4> QED BY <3>1, <3>a, <4>1, <4>2
    <3>2. CASE e.binding = "redirect" /\ Best(slo, i) \in {"post", "redirect"}
      <4>1. b1 = Best(slo, i) BY <2>7, <3>2
      <4>2. h[i].front # "" BY <3>2, <3>c
      <4> HIDE DEF b1
      <4>3. h[i + 1] = h[i] BY <3>2, <3>e, <4>2, TakeSloRule
      <4> QED BY <3>b, <4>1, <4>3
    <3>3. CASE e.binding = "redirect" /\ Best(slo, i) \in {"", "soap"}
      <4>1. b1 = "redirect" BY <2>7, <3>3
      <4>2. h[i].front = "" BY <3>3, <3>c
      <4> HIDE DEF b1
      <4>3. /\ h[i + 1].front = e.binding /\ h[i + 1].request = e.at
            /\ h[i + 1].answer = Answer(e)
        BY <3>3, <3>e, <4>2, TakeSloRule
      <4> QED BY <3>3, <3>a, <4>1, <4>3
    <3>4. CASE e.binding = "soap" /\ Best(slo, i) = ""
      <4>1. b1 = "soap" BY <2>7, <3>4
      <4>2. h[i].front = "" /\ h[i].request = "" BY <3>4, <3>c, <3>d
      <4> HIDE DEF b1
      <4>3. /\ h[i + 1].front = h[i].front /\ h[i + 1].request = e.at
            /\ h[i + 1].answer = Answer(e)
        BY <3>4, <3>e, <4>2, TakeSloRule
      <4> QED BY <3>4, <3>a, <4>1, <4>2, <4>3
    <3>5. CASE e.binding = "soap" /\ Best(slo, i) # ""
      <4>1. b1 = Best(slo, i) BY <2>7, <3>5
      <4>2. h[i].request # "" BY <2>10, <3>5
      <4> HIDE DEF b1
      <4>3. h[i + 1] = h[i] BY <3>5, <3>e, <4>2, TakeSloRule
      <4> QED BY <3>b, <4>1, <4>3
    <3>6. CASE e.binding = "artifact"
      <4>1. b1 = Best(slo, i) BY <2>7, <3>6
      <4> HIDE DEF b1
      <4>2. h[i + 1] = h[i] BY <3>6, <3>e, TakeSloRule
      <4> QED BY <3>b, <4>1, <4>2
    <3> QED BY <2>5, <2>9, <3>1, <3>2, <3>3, <3>4, <3>5, <3>6
  <2>12. Inv(i + 1) BY <2>6, <2>11
  <2> HIDE DEF Inv
  <2> QED BY <2>1, <2>12
<1>6. n \in S
  <2> HIDE DEF S
  <2>1. \A i \in 0..n : i \in S BY <1>1, <1>4, <1>5, Induction
  <2>2. n \in 0..n BY <1>1
  <2> QED BY <2>1, <2>2
<1>7. ParseSlo(slo) = h[n]
  BY <1>3 DEF ParseSlo, n
<1> QED BY <1>6, <1>7 DEF n

------------------------------------------------------------------------------
(* Certificates *)

\* The values of the variables of the loop.
Taken == [cert : Urls, encrypt : BOOLEAN]
\* The body of the loop stays within them.
LEMMA TakeKeyType ==
  ASSUME NEW c \in Taken, NEW k \in KeyInfo
  PROVE  TakeKey(c, k) \in Taken
BY DEF TakeKey, Taken, KeyInfo, Urls

\* The loop over the keys of a document, step by step.
LEMMA KeyFold ==
  ASSUME NEW s \in Seq(KeyInfo), NEW base \in Taken
  PROVE  \E h : /\ h[0] = base
                /\ \A i \in 1..Len(s) : h[i] = TakeKey(h[i - 1], s[i])
                /\ FoldLeft(TakeKey, base, s) = h[Len(s)]
<1> DEFINE n == Len(s)
           g == [p \in Taken \X (1..n) |-> TakeKey(p[1], s[p[2]])]
           Eq(it) == it = [t \in SUBSET (1..n) |->
                        IF t = {} THEN base ELSE TakeKey(it[t \ {Max(t)}], s[Max(t)])]
           fix == CHOOSE it : Eq(it)
           h == [i \in 0..n |-> fix[1..i]]
<1>1. n \in Nat /\ DOMAIN s = 1..n
  OBVIOUS
<1>2. ASSUME NEW a \in Taken, NEW i \in 1..n PROVE TakeKey(a, s[i]) \in Taken
  BY TakeKeyType
<1>3. g \in [Taken \X (1..n) -> Taken]
  BY <1>2
<1>4. ASSUME NEW a \in Taken, NEW i \in 1..n PROVE g[<<a, i>>] = TakeKey(a, s[i])
  OBVIOUS
<1>5. Eq(fix)
  <2> HIDE DEF g, n
  <2>1. PICK it \in [SUBSET (1..n) -> Taken] : Recurs(it, base, n, g)
    BY <1>1, <1>3, SubsetRecursion
  <2>2. ASSUME NEW t \in SUBSET (1..n), t # {}
        PROVE  it[t] = TakeKey(it[t \ {Max(t)}], s[Max(t)])
    <3>1. Max(t) \in 1..n BY <1>1, <2>2, MaxOf
    <3> QED BY <2>1, <2>2, <3>1, <1>4 DEF Recurs
  <2>3. it = [t \in SUBSET (1..n) |->
                IF t = {} THEN base ELSE TakeKey(it[t \ {Max(t)}], s[Max(t)])]
    BY <2>1, <2>2 DEF Recurs
  <2> QED BY <2>3
<1>6. FoldLeft(TakeKey, base, s) = fix[1..n]
  BY <1>1 DEF FoldLeft, MapThenFoldSet
<1>7. ASSUME NEW t \in SUBSET (1..n)
      PROVE  fix[t] = IF t = {} THEN base ELSE TakeKey(fix[t \ {Max(t)}], s[Max(t)])
  <2> HIDE DEF fix
  <2> QED BY <1>5
<1>8. fix[1..0] = base
  <2>1. 1..0 = {} /\ 1..0 \in SUBSET (1..n) BY <1>1
  <2> HIDE DEF fix
  <2> QED BY <1>7, <2>1
<1>9. ASSUME NEW i \in 1..n PROVE fix[1..i] = TakeKey(fix[1..(i - 1)], s[i])
  <2> HIDE DEF fix, n
  <2> QED BY <1>1, <1>7, Segments
<1>10. /\ h[0] = base /\ h[n] = fix[1..n]
       /\ \A i \in 1..n : h[i] = fix[1..i] /\ h[i - 1] = fix[1..(i - 1)]
  <2> HIDE DEF fix, n
  <2> QED BY <1>1, <1>8
<1> HIDE DEF h, fix
<1> QED BY <1>6, <1>9, <1>10

\* The keys that serve a purpose, as positions.
KeysFor(keys, purpose) ==
    {i \in 1..Len(keys) : keys[i].cert # "" /\ keys[i].use \in {purpose, ""}}
\* What the variables say of the first n keys.
KeysSay(keys, n, c) ==
    /\ c.cert = "" => \A i \in 1..n : i \notin KeysFor(keys, "signing")
    /\ c.cert # "" => \E i \in 1..n : /\ i \in KeysFor(keys, "signing")
                                      /\ c.cert = keys[i].cert
                                      /\ \A j \in 1..n : j \in KeysFor(keys, "signing") => i <= j
    /\ c.encrypt <=> \E i \in 1..n : i \in KeysFor(keys, "encryption")

\* One more key keeps it so.
LEMMA TakeKeyRule ==
  ASSUME NEW keys \in Seq(KeyInfo), NEW n \in Nat, n + 1 \in 1..Len(keys),
         NEW c \in Taken, KeysSay(keys, n, c)
  PROVE  KeysSay(keys, n + 1, TakeKey(c, keys[n + 1]))
<1> DEFINE k == keys[n + 1]
           d == TakeKey(c, k)
           sign == KeysFor(keys, "signing")
           crypt == KeysFor(keys, "encryption")
<1>1. k \in KeyInfo
  OBVIOUS
<1>2. /\ n + 1 \in sign <=> k.cert # "" /\ k.use # "encryption"
      /\ n + 1 \in crypt <=> k.cert # "" /\ k.use # "signing"
  BY <1>1 DEF KeysFor, KeyInfo
<1>3. /\ d.cert = IF n + 1 \in sign /\ c.cert = "" THEN k.cert ELSE c.cert
      /\ d.encrypt <=> c.encrypt \/ n + 1 \in crypt
  <2>1. CASE k.cert = "" BY <1>2, <2>1 DEF TakeKey
  <2>2. CASE k.cert # ""
    <3>1. /\ d.cert = IF k.use # "encryption" /\ c.cert = "" THEN k.cert ELSE c.cert
          /\ d.encrypt = (c.encrypt \/ k.use # "signing")
      BY <2>2 DEF TakeKey, Taken
    <3> HIDE DEF d, sign, crypt
    <3> QED BY <1>2, <2>2, <3>1
  <2> QED BY <2>1, <2>2
<1>4. 1..(n + 1) = (1..n) \cup {n + 1}
  OBVIOUS
<1>5. /\ c.cert = "" => \A i \in 1..n : i \notin sign
      /\ c.cert # "" => \E i \in 1..n : /\ i \in sign /\ c.cert = keys[i].cert
                                        /\ \A j \in 1..n : j \in sign => i <= j
      /\ c.encrypt <=> \E i \in 1..n : i \in crypt
  BY DEF KeysSay
<1>6. n + 1 \in sign => k.cert # ""
  BY <1>2
<1> HIDE DEF d, sign, crypt
<1>7. d.cert = "" => \A i \in 1..(n + 1) : i \notin sign
  BY <1>3, <1>4, <1>5, <1>6
<1>8. ASSUME d.cert # ""
      PROVE  \E i \in 1..(n + 1) : /\ i \in sign /\ d.cert = keys[i].cert
                                   /\ \A j \in 1..(n + 1) : j \in sign => i <= j
  <2>1. CASE c.cert = ""
    <3>1. n + 1 \in sign /\ d.cert = k.cert BY <1>3, <1>8, <2>1
    <3>2. \A j \in 1..(n + 1) : j \in sign => j = n + 1 BY <1>4, <1>5, <2>1
    <3>3. n + 1 \in 1..(n + 1) /\ n + 1 <= n + 1 BY <1>4
    <3> QED BY <3>1, <3>2, <3>3 DEF k
  <2>2. CASE c.cert # ""
    <3>1. PICK i \in 1..n : /\ i \in sign /\ c.cert = keys[i].cert
                            /\ \A j \in 1..n : j \in sign => i <= j
      BY <1>5, <2>2
    <3>2. d.cert = keys[i].cert BY <1>3, <2>2, <3>1
    <3>3. \A j \in 1..(n + 1) : j \in sign => i <= j BY <3>1
    <3>4. i \in 1..(n + 1) BY <1>4, <3>1
    <3> QED BY <3>1, <3>2, <3>3, <3>4
  <2> QED BY <2>1, <2>2
<1>9. d.encrypt <=> \E i \in 1..(n + 1) : i \in crypt
  BY <1>3, <1>4, <1>5
<1> QED BY <1>7, <1>8, <1>9 DEF KeysSay, d, k, sign, crypt

\* spConfigFromDescriptor: the loop says of all keys what it says of each prefix.
LEMMA KeysRule ==
  ASSUME NEW keys \in Seq(KeyInfo)
  PROVE  KeysSay(keys, Len(keys), ParseKeys(keys))
<1> DEFINE n == Len(keys)
<1>1. n \in Nat
  OBVIOUS
<1>2. NoKey \in Taken
  BY DEF NoKey, Taken, Urls
<1>3. PICK h : /\ h[0] = NoKey
               /\ \A i \in 1..Len(keys) : h[i] = TakeKey(h[i - 1], keys[i])
               /\ FoldLeft(TakeKey, NoKey, keys) = h[Len(keys)]
  BY <1>2, KeyFold
<1> HIDE DEF n
<1> DEFINE S == {i \in 0..n : h[i] \in Taken /\ KeysSay(keys, i, h[i])}
<1>4. 0 \in S
  <2>1. KeysSay(keys, 0, NoKey) BY DEF KeysSay, NoKey
  <2> QED BY <1>1, <1>2, <1>3, <2>1
<1>5. ASSUME NEW i \in 0..(n - 1), i \in S PROVE i + 1 \in S
  <2>1. i \in Nat /\ i + 1 \in 1..Len(keys) /\ (i + 1) - 1 = i /\ i + 1 \in 0..n
    BY <1>1 DEF n
  <2>2. h[i + 1] = TakeKey(h[i], keys[i + 1])
    BY <1>3, <2>1
  <2>3. h[i] \in Taken /\ KeysSay(keys, i, h[i])
    BY <1>5
  <2>4. keys[i + 1] \in KeyInfo
    BY <2>1
  <2>5. h[i + 1] \in Taken
    BY <2>2, <2>3, <2>4, TakeKeyType
  <2>6. KeysSay(keys, i + 1, h[i + 1])
    BY <2>1, <2>2, <2>3, TakeKeyRule
  <2> QED BY <2>1, <2>5, <2>6
<1>6. n \in S
  <2> HIDE DEF S
  <2>1. \A i \in 0..n : i \in S BY <1>1, <1>4, <1>5, Induction
  <2>2. n \in 0..n BY <1>1
  <2> QED BY <2>1, <2>2
<1> QED BY <1>3, <1>6 DEF n, ParseKeys

------------------------------------------------------------------------------
(* deriveAlias *)

\* A position in P with none before it is the first in P.
LEMMA FirstIs ==
  ASSUME NEW s \in Seq(STRING), NEW P, NEW i \in 1..Len(s), s[i] \in P,
         \A j \in 1..(i - 1) : s[j] \notin P
  PROVE  SelectInSeq(s, LAMBDA x : x \in P) = i
<1> DEFINE I == {j \in 1..Len(s) : s[j] \in P}
<1>1. Len(s) \in Nat /\ I \subseteq 1..Len(s) /\ i \in I OBVIOUS
<1>2. SelectInSeq(s, LAMBDA x : x \in P) = IF I # {} THEN Min(I) ELSE 0
  BY DEF SelectInSeq
<1>3. \A y \in I : i <= y
  OBVIOUS
<1> HIDE DEF I
<1>4. Min(I) = i
  BY <1>1, <1>3, MinIs
<1> QED BY <1>1, <1>2, <1>4

\* The part of a sequence up to its first element.
LEMMA FirstPart ==
  ASSUME NEW s \in Seq(STRING), Len(s) >= 1
  PROVE  SubSeq(s, 1, 1) = <<s[1]>> /\ <<s[1]>> # <<>>
<1>1. Len(SubSeq(s, 1, 1)) = 1 /\ SubSeq(s, 1, 1)[1] = s[1] /\ SubSeq(s, 1, 1) \in Seq(STRING)
  OBVIOUS
<1> DEFINE p == SubSeq(s, 1, 1)
<1> HIDE DEF p
<1>2. p \in Seq(STRING) /\ Len(p) = 1 /\ p[1] = s[1]
  BY <1>1 DEF p
<1>3. p = <<s[1]>>
  BY <1>2
<1> QED BY <1>3 DEF p

\* A position in P with none after it is the last in P.
LEMMA LastIs ==
  ASSUME NEW s \in Seq(STRING), NEW P, NEW i \in 1..Len(s), s[i] \in P,
         \A j \in (i + 1)..Len(s) : s[j] \notin P
  PROVE  SelectLastInSeq(s, LAMBDA x : x \in P) = i
<1> DEFINE I == {j \in 1..Len(s) : s[j] \in P}
<1>1. Len(s) \in Nat /\ I \subseteq 1..Len(s) /\ i \in I OBVIOUS
<1>2. SelectLastInSeq(s, LAMBDA x : x \in P) = IF I # {} THEN Max(I) ELSE 0
  BY DEF SelectLastInSeq
<1>3. \A y \in I : y <= i
  OBVIOUS
<1> HIDE DEF I
<1>4. Max(I) = i
  BY <1>1, <1>3, MaxIs
<1> QED BY <1>1, <1>2, <1>4

\* deriveAlias: of a URL the host remains, without its port.
LEMMA AliasRule ==
  ASSUME NEW e \in Seq(STRING), IsUrl(e), NEW cert
  PROVE  DeriveAlias(cert, e) = <<e[3]>>
<1> DEFINE start == SelectInSeq(e, LAMBDA x : x = "://")
           rest  == SubSeq(e, start + 1, Len(e))
           cut   == SelectInSeq(rest, LAMBDA x : x \in UrlEnds)
           path  == Before(rest, cut)
           colon == SelectLastInSeq(path, LAMBDA x : x = ":")
           host  == Before(path, colon)
<1>1. DeriveAlias(cert, e) = IF host = <<>> THEN <<cert>> ELSE host
  BY DEF DeriveAlias
<1>2. start = 2
  <2>1. start = SelectInSeq(e, LAMBDA x : x \in {"://"})
    BY DEF SelectInSeq
  <2>2. 2 \in 1..Len(e) /\ e[2] \in {"://"} /\ \A j \in 1..(2 - 1) : e[j] \notin {"://"}
    BY DEF IsUrl
  <2> HIDE DEF start
  <2> QED BY <2>1, <2>2, FirstIs
<1> HIDE DEF start
<1>3. /\ rest \in Seq(STRING) /\ Len(rest) = Len(e) - 2
      /\ \A i \in 1..Len(rest) : rest[i] = e[i + 2]
  BY <1>2 DEF IsUrl
<1>0. Len(e) \in Nat
  OBVIOUS
<1>a. Len(e) \in Nat /\ Len(e) >= 3 /\ e[3] \in STRING /\ e[3] \notin UrlEnds \cup {":"}
  BY DEF IsUrl
<1> HIDE DEF rest
<1>b. Len(rest) \in Nat /\ Len(rest) >= 1 /\ rest[1] = e[3]
  BY <1>3, <1>a
<1>4. CASE Len(e) = 3 \/ e[4] \in UrlEnds
  <2>1. path = <<e[3]>>
    <3>1. CASE Len(e) = 3
      <4>1. Len(rest) = 1 /\ rest = <<e[3]>> BY <1>3, <1>a, <1>b, <3>1
      <4>2. \A j \in 1..Len(rest) : rest[j] \notin UrlEnds BY <4>1, <1>a
      <4>3. cut = 0 BY <4>2 DEF SelectInSeq
      <4> HIDE DEF cut
      <4> QED BY <4>1, <4>3 DEF Before
    <3>2. CASE Len(e) # 3
      <4>1. 2 \in 1..Len(rest) /\ rest[2] \in UrlEnds BY <1>3, <1>4, <1>a, <3>2
      <4>2. \A j \in 1..(2 - 1) : rest[j] \notin UrlEnds BY <1>a, <1>b
      <4>3. cut = 2 BY <1>3, <4>1, <4>2, FirstIs
      <4> HIDE DEF cut
      <4>4. path = SubSeq(rest, 1, 1) BY <4>3 DEF Before
      <4> QED BY <4>4, <1>3, <1>b, FirstPart
    <3> QED BY <3>1, <3>2
  <2> HIDE DEF path
  <2>2. colon = 0
    <3>1. path \in Seq(STRING) /\ Len(path) = 1 /\ path[1] = e[3] BY <2>1, <1>a
    <3> DEFINE C == {":"}
    <3>2. \A j \in 1..Len(path) : path[j] \notin C BY <3>1, <1>a
    <3>4. colon = SelectLastInSeq(path, LAMBDA x : x \in C)
      BY DEF SelectLastInSeq
    <3> HIDE DEF C
    <3>3. SelectLastInSeq(path, LAMBDA x : x \in C) = 0 BY <3>2 DEF SelectLastInSeq
    <3> HIDE DEF colon
    <3> QED BY <3>3, <3>4
  <2> HIDE DEF colon
  <2>3. host = <<e[3]>> /\ host # <<>> BY <2>1, <2>2 DEF Before
  <2> QED BY <1>1, <2>3
<1>5. CASE Len(e) > 3 /\ e[4] \notin UrlEnds
  <2>0. /\ e[4] = ":" /\ Len(e) >= 5 /\ e[5] \notin UrlEnds \cup {":"}
        /\ (6 > Len(e) \/ e[6] \in UrlEnds)
    BY <1>5, <1>a DEF IsUrl
  <2>a. Len(rest) >= 3 /\ rest[2] = ":" /\ rest[3] = e[5]
    BY <2>0, <1>3, <1>a
  <2>1. path = SubSeq(rest, 1, 3)
    <3>1. CASE Len(e) = 5
      <4>1. Len(rest) = 3 BY <1>3, <1>a, <3>1
      <4>2. \A j \in 1..Len(rest) : rest[j] \notin UrlEnds BY <4>1, <1>a, <1>b, <2>0, <2>a DEF UrlEnds
      <4>3. cut = 0 BY <4>2 DEF SelectInSeq
      <4> HIDE DEF cut
      <4>4. path = rest BY <4>3 DEF Before
      <4> QED BY <1>3, <4>1, <4>4
    <3>2. CASE Len(e) # 5
      <4>1. 4 \in 1..Len(rest) /\ rest[4] \in UrlEnds BY <1>3, <2>0, <1>a, <3>2
      <4>2. \A j \in 1..(4 - 1) : rest[j] \notin UrlEnds BY <1>a, <1>b, <2>0, <2>a DEF UrlEnds
      <4>3. cut = 4 BY <1>3, <4>1, <4>2, FirstIs
      <4> HIDE DEF cut
      <4> QED BY <4>3 DEF Before
    <3> QED BY <3>1, <3>2
  <2> HIDE DEF path
  <2>b. /\ path \in Seq(STRING) /\ Len(path) = 3
        /\ path[1] = e[3] /\ path[2] = ":" /\ path[3] = e[5]
    BY <2>1, <2>a, <1>3, <1>b
  <2>2. colon = 2
    <3>1. 2 \in 1..Len(path) /\ path[2] \in {":"} BY <2>b
    <3>2. \A j \in (2 + 1)..Len(path) : path[j] \notin {":"} BY <2>b, <2>0
    <3>3. SelectLastInSeq(path, LAMBDA x : x \in {":"}) = 2 BY <2>b, <3>1, <3>2, LastIs
    <3>4. colon = SelectLastInSeq(path, LAMBDA x : x \in {":"})
      BY DEF SelectLastInSeq
    <3> HIDE DEF colon
    <3> QED BY <3>3, <3>4
  <2> HIDE DEF colon
  <2>3. host = SubSeq(path, 1, 1) BY <2>2 DEF Before
  <2>4. host = <<e[3]>> /\ host # <<>> BY <2>3, <2>b, FirstPart
  <2> QED BY <1>1, <2>4
<1>6. Len(e) = 3 \/ Len(e) > 3
  <2>1. Len(e) >= 3 BY <1>a
  <2>2. ASSUME NEW k \in Nat, k >= 3 PROVE k = 3 \/ k > 3 BY <2>2
  <2> QED BY <1>0, <2>1, <2>2
<1> QED BY <1>4, <1>5, <1>6
==============================================================================
