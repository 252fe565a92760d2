---------------------------- MODULE ExchangeProofs ----------------------------
(***************************************************************************)
(* What holds of Exchange whatever the specs, the metadata documents and   *)
(* the records that others leave on the server, of any size.  Two facts    *)
(* carry the rest: every record has the shape of what soap.go decodes      *)
(* (ExTypeOK), and a verdict stays true of the records that it was found   *)
(* for until something changes (VerdictFits).  What is left is a matter of *)
(* builder.go and mapper.go: what the one writes the other reads back.     *)
(***************************************************************************)
EXTENDS Exchange, SAMLMetadataProofs, FiniteSetTheorems

(* Lists *)

\* A sequence is a function on the positions up to its length.
LEMMA Positions ==
  ASSUME NEW S, NEW s \in Seq(S)
  PROVE  Len(s) \in Nat /\ DOMAIN s = 1..Len(s) /\ s = [i \in 1..Len(s) |-> s[i]]
  OBVIOUS

\* A function on the positions of a sequence is a sequence of the same length.
LEMMA Mapped ==
  ASSUME NEW S, NEW s \in Seq(S), NEW T, NEW f \in [DOMAIN s -> T]
  PROVE  f \in Seq(T) /\ Len(f) = Len(s)
  OBVIOUS

\* Append, position by position.
LEMMA Appended ==
  ASSUME NEW S, NEW s \in Seq(S), NEW x \in S
  PROVE  /\ Append(s, x) \in Seq(S) /\ Len(Append(s, x)) = Len(s) + 1
         /\ \A i \in 1..Len(s) : Append(s, x)[i] = s[i]
         /\ Append(s, x)[Len(s) + 1] = x
  OBVIOUS

\* Concatenation, position by position.
LEMMA Concatenated ==
  ASSUME NEW S, NEW s \in Seq(S), NEW t \in Seq(S)
  PROVE  /\ s \o t \in Seq(S) /\ Len(s \o t) = Len(s) + Len(t)
         /\ Len(s) \in Nat /\ Len(t) \in Nat
         /\ \A i \in 1..Len(s) : (s \o t)[i] = s[i]
         /\ \A i \in 1..Len(t) : (s \o t)[Len(s) + i] = t[i]
  OBVIOUS

\* Joining lists of words, list by list.
LEMMA FlattenFold ==
  ASSUME NEW S, NEW seqs \in Seq(Seq(S)), Len(seqs) # 0
  PROVE  \E h : /\ h[1] = seqs[1]
                /\ \A i \in 2..Len(seqs) : h[i] = h[i - 1] \o seqs[i]
                /\ FlattenSeq(seqs) = h[Len(seqs)]
<1> DEFINE n == Len(seqs)
           V == Seq(S)
           g == [p \in V \X (1..n) |-> IF p[2] = 1 THEN seqs[p[2]] ELSE p[1] \o seqs[p[2]]]
           Eq(f) == f = [i \in 1..n |-> IF i = 1 THEN seqs[i] ELSE f[i - 1] \o seqs[i]]
           fix == CHOOSE f : Eq(f)
<1>1. n \in Nat /\ 1 \in 1..n /\ n \in 1..n
  OBVIOUS
<1>2. ASSUME NEW a \in V, NEW i \in 1..n
      PROVE  (IF i = 1 THEN seqs[i] ELSE a \o seqs[i]) \in V
  OBVIOUS
<1>3. g \in [V \X (1..n) -> V]
  BY <1>2
<1>4. ASSUME NEW a \in V, NEW i \in 1..n
      PROVE  g[<<a, i>>] = IF i = 1 THEN seqs[i] ELSE a \o seqs[i]
  OBVIOUS
<1>5. Eq(fix)
  <2>0. <<>> \in V OBVIOUS
  <2> HIDE DEF g, n, V
  <2>1. PICK it \in [SUBSET (1..n) -> V] : Recurs(it, <<>>, n, g)
    BY <1>1, <1>3, <2>0, SubsetRecursion
  <2>2. ASSUME NEW i \in 1..n
        PROVE  /\ it[1..i] = IF i = 1 THEN seqs[i] ELSE it[1..(i - 1)] \o seqs[i]
    <3>1. 1..i \in SUBSET (1..n) /\ 1..i # {} /\ Max(1..i) = i /\ (1..i) \ {i} = 1..(i - 1)
      BY <1>1, Segments
    <3>2. it[1..i] = g[<<it[1..(i - 1)], i>>]
      BY <2>1, <3>1 DEF Recurs
    <3>3. 1..(i - 1) \in SUBSET (1..n)
      BY <1>1
    <3>4. it[1..(i - 1)] \in V
      BY <2>1, <3>3
    <3> QED BY <1>4, <3>2, <3>4
  <2> DEFINE f == [i \in 1..n |-> it[1..i]]
  <2>3. ASSUME NEW i \in 1..n, i # 1 PROVE f[i - 1] = it[1..(i - 1)]
    BY <1>1, <2>3
  <2>4. f = [i \in 1..n |-> IF i = 1 THEN seqs[i] ELSE f[i - 1] \o seqs[i]]
    BY <2>2, <2>3
  <2>5. Eq(f)
    BY <2>4
  <2> HIDE DEF f, Eq
  <2> QED BY <2>5
<1>6. FlattenSeq(seqs) = fix[n]
  BY <1>1 DEF FlattenSeq
<1>7. ASSUME NEW i \in 1..n
      PROVE  fix[i] = IF i = 1 THEN seqs[i] ELSE fix[i - 1] \o seqs[i]
  <2> HIDE DEF fix
  <2> QED BY <1>5
<1>8. fix[1] = seqs[1]
  <2> HIDE DEF fix
  <2> QED BY <1>1, <1>7
<1>9. ASSUME NEW i \in 2..n PROVE fix[i] = fix[i - 1] \o seqs[i]
  <2> HIDE DEF fix, n, V, g
  <2>1. i \in 1..n /\ i # 1 BY <1>1
  <2> QED BY <1>7, <2>1
<1> HIDE DEF fix
<1> QED BY <1>6, <1>8, <1>9

\* The grant types as one text: a text of words, and word for grant type when
\* every grant type is one word.
LEMMA Flattened ==
  ASSUME NEW S, NEW seqs \in Seq(Seq(S) \ {<<>>}), Len(seqs) # 0
  PROVE  /\ FlattenSeq(seqs) \in Seq(S) \ {<<>>}
         /\ (\A i \in 1..Len(seqs) : Len(seqs[i]) = 1) =>
               /\ Len(FlattenSeq(seqs)) = Len(seqs)
               /\ \A i \in 1..Len(seqs) : FlattenSeq(seqs)[i] = seqs[i][1]
<1> DEFINE n == Len(seqs)
           Ones == \A i \in 1..n : Len(seqs[i]) = 1
<1>1. n \in Nat /\ 1 \in 1..n /\ n \in 1..n /\ seqs \in Seq(Seq(S))
  OBVIOUS
<1>2. ASSUME NEW i \in 1..n PROVE seqs[i] \in Seq(S) /\ Len(seqs[i]) \in Nat /\ Len(seqs[i]) > 0
  <2>1. seqs[i] \in Seq(S) /\ seqs[i] # <<>> BY <1>1
  <2> QED BY <2>1
<1>3. PICK h : /\ h[1] = seqs[1]
               /\ \A i \in 2..Len(seqs) : h[i] = h[i - 1] \o seqs[i]
               /\ FlattenSeq(seqs) = h[Len(seqs)]
  BY <1>1, FlattenFold
<1> DEFINE P(i) == /\ h[i] \in Seq(S) /\ Len(h[i]) > 0
                   /\ Ones => Len(h[i]) = i /\ \A j \in 1..i : h[i][j] = seqs[j][1]
           T == {i \in 0..n : i # 0 => P(i)}
<1>4. 0 \in T
  BY <1>1
<1>5. ASSUME NEW i \in 0..(n - 1), i \in T PROVE i + 1 \in T
  <2>1. i + 1 \in 1..n /\ i + 1 \in 0..n BY <1>1
  <2>2. CASE i = 0
    <3>1. h[1] = seqs[1] BY <1>3
    <3>2. P(1)
      BY <1>1, <1>2, <3>1
    <3> QED BY <2>1, <2>2, <3>2
  <2>3. CASE i # 0
    <3>1. P(i) BY <1>5, <2>3
    <3>2. h[i + 1] = h[i] \o seqs[i + 1]
      <4>1. i + 1 \in 2..n /\ (i + 1) - 1 = i BY <1>1, <2>3
      <4> QED BY <1>3, <4>1
    <3>3. seqs[i + 1] \in Seq(S) /\ Len(seqs[i + 1]) \in Nat /\ Len(seqs[i + 1]) > 0 BY <1>2, <2>1
    <3>4. /\ h[i + 1] \in Seq(S) /\ Len(h[i + 1]) = Len(h[i]) + Len(seqs[i + 1])
          /\ Len(h[i]) \in Nat
          /\ \A j \in 1..Len(h[i]) : h[i + 1][j] = h[i][j]
          /\ \A j \in 1..Len(seqs[i + 1]) : h[i + 1][Len(h[i]) + j] = seqs[i + 1][j]
      <4> DEFINE a == h[i]
                 b == seqs[i + 1]
      <4>1. a \in Seq(S) /\ b \in Seq(S) /\ h[i + 1] = a \o b BY <3>1, <3>2, <3>3
      <4> HIDE DEF a, b
      <4>2. /\ a \o b \in Seq(S) /\ Len(a \o b) = Len(a) + Len(b) /\ Len(a) \in Nat
            /\ \A j \in 1..Len(a) : (a \o b)[j] = a[j]
            /\ \A j \in 1..Len(b) : (a \o b)[Len(a) + j] = b[j]
        BY <4>1, Concatenated
      <4> QED BY <4>1, <4>2 DEF a, b
    <3>5. ASSUME Ones PROVE Len(h[i + 1]) = i + 1 /\ \A j \in 1..(i + 1) : h[i + 1][j] = seqs[j][1]
      <4>1. Len(h[i]) = i /\ Len(seqs[i + 1]) = 1 BY <2>1, <3>1, <3>5
      <4>2. /\ \A j \in 1..i : h[i + 1][j] = h[i][j]
            /\ h[i + 1][i + 1] = seqs[i + 1][1]
        BY <3>4, <4>1
      <4>3. ASSUME NEW j \in 1..(i + 1) PROVE h[i + 1][j] = seqs[j][1]
        <5>1. CASE j <= i
          <6>1. j \in 1..i BY <5>1
          <6> QED BY <3>1, <3>5, <4>2, <6>1
        <5>2. CASE ~(j <= i)
          <6>1. j = i + 1 BY <5>2
          <6> QED BY <4>2, <6>1
        <5> QED BY <5>1, <5>2
      <4> QED BY <3>4, <4>1, <4>3
    <3>6. Len(h[i + 1]) > 0
      <4> DEFINE k == Len(h[i])
                 l == Len(seqs[i + 1])
      <4>1. k > 0 BY <3>1
      <4>2. k \in Nat /\ l \in Nat /\ l > 0 /\ Len(h[i + 1]) = k + l BY <3>3, <3>4
      <4> HIDE DEF k, l
      <4> QED BY <4>1, <4>2
    <3> QED BY <2>1, <3>4, <3>5, <3>6
  <2> QED BY <2>2, <2>3
<1>6. n \in T
  <2> HIDE DEF T
  <2>1. n \in 0..n BY <1>1
  <2> QED BY <1>1, <1>4, <1>5, <2>1, Induction
<1>7. P(n)
  BY <1>1, <1>6
<1> QED BY <1>3, <1>7

------------------------------------------------------------------------------
(* Scope validators *)

\* The scope validators that wso2is-operator knows.
Known == DOMAIN ValidatorNames

\* filterScopeValidators keeps to them.
LEMMA KeepKnownType ==
  ASSUME NEW a \in Seq(Known), NEW x
  PROVE  KeepKnown(a, x) \in Seq(Known)
<1>1. CASE x \in Known
  <2>1. KeepKnown(a, x) = Append(a, x) BY <1>1 DEF KeepKnown, Known
  <2> HIDE DEF Known
  <2> QED BY <1>1, <2>1, Appended
<1>2. CASE x \notin Known
  BY <1>2 DEF KeepKnown, Known
<1> QED BY <1>1, <1>2

\* What the names of the validators are decoded to.
LEMMA DecodedValidator ==
  /\ Known = {"xacml", "role"} /\ "" \notin Known
  /\ \A y : Decoded(ValidatorNames, y) # "" =>
          Decoded(ValidatorNames, y) \in Known /\ ValidatorNames[Decoded(ValidatorNames, y)] = y
  /\ \A x \in Known : Decoded(ValidatorNames, ValidatorNames[x]) = x
<1>1. Known = {"xacml", "role"} /\ "" \notin Known
  BY DEF Known, ValidatorNames
<1>2. ASSUME NEW y, Decoded(ValidatorNames, y) # ""
      PROVE  Decoded(ValidatorNames, y) \in Known /\ ValidatorNames[Decoded(ValidatorNames, y)] = y
  BY <1>2 DEF Decoded, Known
<1>3. ASSUME NEW x \in Known PROVE Decoded(ValidatorNames, ValidatorNames[x]) = x
  <2>1. \A z \in Known : ValidatorNames[z] = ValidatorNames[x] => z = x
    <3>1. /\ ValidatorNames.xacml = "Role based scope validator"
          /\ ValidatorNames.role = "XACML Scope Validator"
      BY DEF ValidatorNames
    <3>2. /\ ValidatorNames["xacml"] # ValidatorNames["role"]
      BY <3>1
    <3> QED BY <1>1, <1>3, <3>2
  <2> QED BY <1>3, <2>1 DEF Decoded, Known
<1> QED BY <1>1, <1>2, <1>3

\* mapScopeValidators keeps to them too.
LEMMA TakeDecodedType ==
  ASSUME NEW a \in Seq(Known), NEW y
  PROVE  TakeDecoded(a, y) \in Seq(Known)
<1> DEFINE x == Decoded(ValidatorNames, y)
<1>1. TakeDecoded(a, y) = IF x = "" THEN a ELSE Append(a, x) BY DEF TakeDecoded
<1>2. x # "" => x \in Known BY DecodedValidator
<1> HIDE DEF x, Known
<1>3. CASE x = "" BY <1>1, <1>3
<1>4. CASE x # ""
  <2>1. TakeDecoded(a, y) = Append(a, x) /\ x \in Known BY <1>1, <1>2, <1>4
  <2> QED BY <2>1, Appended
<1> QED BY <1>3, <1>4

\* The loop of filterScopeValidators, unrolled.
LEMMA KeepKnownFold ==
  ASSUME NEW S, NEW s \in Seq(S), NEW base \in Seq(Known)
  PROVE  \E h : /\ h[0] = base
                /\ \A i \in 1..Len(s) : h[i] = KeepKnown(h[i - 1], s[i])
                /\ FoldLeft(KeepKnown, base, s) = h[Len(s)]
<1> DEFINE n == Len(s)
           g == [p \in Seq(Known) \X (1..n) |-> KeepKnown(p[1], s[p[2]])]
           Eq(it) == it = [t \in SUBSET (1..n) |->
                        IF t = {} THEN base ELSE KeepKnown(it[t \ {Max(t)}], s[Max(t)])]
           fix == CHOOSE it : Eq(it)
           h == [i \in 0..n |-> fix[1..i]]
<1>1. n \in Nat /\ DOMAIN s = 1..n
  OBVIOUS
<1>2. ASSUME NEW a \in Seq(Known), NEW i \in 1..n PROVE KeepKnown(a, s[i]) \in Seq(Known)
  BY KeepKnownType
<1>3. g \in [Seq(Known) \X (1..n) -> Seq(Known)]
  BY <1>2
<1>4. ASSUME NEW a \in Seq(Known), NEW i \in 1..n PROVE g[<<a, i>>] = KeepKnown(a, s[i])
  OBVIOUS
<1>5. Eq(fix)
  <2> HIDE DEF g, n
  <2>1. PICK it \in [SUBSET (1..n) -> Seq(Known)] : Recurs(it, base, n, g)
    BY <1>1, <1>3, SubsetRecursion
  <2>2. ASSUME NEW t \in SUBSET (1..n), t # {}
        PROVE  it[t] = KeepKnown(it[t \ {Max(t)}], s[Max(t)])
    <3>1. Max(t) \in 1..n BY <1>1, <2>2, MaxOf
    <3> QED BY <2>1, <2>2, <3>1, <1>4 DEF Recurs
  <2>3. it = [t \in SUBSET (1..n) |->
                IF t = {} THEN base ELSE KeepKnown(it[t \ {Max(t)}], s[Max(t)])]
    BY <2>1, <2>2 DEF Recurs
  <2> QED BY <2>3
<1>6. FoldLeft(KeepKnown, base, s) = fix[1..n]
  BY <1>1 DEF FoldLeft, MapThenFoldSet
<1>7. ASSUME NEW t \in SUBSET (1..n)
      PROVE  fix[t] = IF t = {} THEN base ELSE KeepKnown(fix[t \ {Max(t)}], s[Max(t)])
  <2> HIDE DEF fix
  <2> QED BY <1>5
<1>8. fix[1..0] = base
  <2>1. 1..0 = {} /\ 1..0 \in SUBSET (1..n) BY <1>1
  <2> HIDE DEF fix
  <2> QED BY <1>7, <2>1
<1>9. ASSUME NEW i \in 1..n PROVE fix[1..i] = KeepKnown(fix[1..(i - 1)], s[i])
  <2> HIDE DEF fix, n
  <2> QED BY <1>1, <1>7, Segments
<1>10. /\ h[0] = base /\ h[n] = fix[1..n]
       /\ \A i \in 1..n : h[i] = fix[1..i] /\ h[i - 1] = fix[1..(i - 1)]
  <2> HIDE DEF fix, n
  <2> QED BY <1>1, <1>8
<1> HIDE DEF h, fix
<1> QED BY <1>6, <1>9, <1>10

\* The loop of mapScopeValidators, unrolled.
LEMMA TakeDecodedFold ==
  ASSUME NEW S, NEW s \in Seq(S), NEW base \in Seq(Known)
  PROVE  \E h : /\ h[0] = base
                /\ \A i \in 1..Len(s) : h[i] = TakeDecoded(h[i - 1], s[i])
                /\ FoldLeft(TakeDecoded, base, s) = h[Len(s)]
<1> DEFINE n == Len(s)
           g == [p \in Seq(Known) \X (1..n) |-> TakeDecoded(p[1], s[p[2]])]
           Eq(it) == it = [t \in SUBSET (1..n) |->
                        IF t = {} THEN base ELSE TakeDecoded(it[t \ {Max(t)}], s[Max(t)])]
           fix == CHOOSE it : Eq(it)
           h == [i \in 0..n |-> fix[1..i]]
<1>1. n \in Nat /\ DOMAIN s = 1..n
  OBVIOUS
<1>2. ASSUME NEW a \in Seq(Known), NEW i \in 1..n PROVE TakeDecoded(a, s[i]) \in Seq(Known)
  BY TakeDecodedType
<1>3. g \in [Seq(Known) \X (1..n) -> Seq(Known)]
  BY <1>2
<1>4. ASSUME NEW a \in Seq(Known), NEW i \in 1..n PROVE g[<<a, i>>] = TakeDecoded(a, s[i])
  OBVIOUS
<1>5. Eq(fix)
  <2> HIDE DEF g, n
  <2>1. PICK it \in [SUBSET (1..n) -> Seq(Known)] : Recurs(it, base, n, g)
    BY <1>1, <1>3, SubsetRecursion
  <2>2. ASSUME NEW t \in SUBSET (1..n), t # {}
        PROVE  it[t] = TakeDecoded(it[t \ {Max(t)}], s[Max(t)])
    <3>1. Max(t) \in 1..n BY <1>1, <2>2, MaxOf
    <3> QED BY <2>1, <2>2, <3>1, <1>4 DEF Recurs
  <2>3. it = [t \in SUBSET (1..n) |->
                IF t = {} THEN base ELSE TakeDecoded(it[t \ {Max(t)}], s[Max(t)])]
    BY <2>1, <2>2 DEF Recurs
  <2> QED BY <2>3
<1>6. FoldLeft(TakeDecoded, base, s) = fix[1..n]
  BY <1>1 DEF FoldLeft, MapThenFoldSet
<1>7. ASSUME NEW t \in SUBSET (1..n)
      PROVE  fix[t] = IF t = {} THEN base ELSE TakeDecoded(fix[t \ {Max(t)}], s[Max(t)])
  <2> HIDE DEF fix
  <2> QED BY <1>5
<1>8. fix[1..0] = base
  <2>1. 1..0 = {} /\ 1..0 \in SUBSET (1..n) BY <1>1
  <2> HIDE DEF fix
  <2> QED BY <1>7, <2>1
<1>9. ASSUME NEW i \in 1..n PROVE fix[1..i] = TakeDecoded(fix[1..(i - 1)], s[i])
  <2> HIDE DEF fix, n
  <2> QED BY <1>1, <1>7, Segments
<1>10. /\ h[0] = base /\ h[n] = fix[1..n]
       /\ \A i \in 1..n : h[i] = fix[1..i] /\ h[i - 1] = fix[1..(i - 1)]
  <2> HIDE DEF fix, n
  <2> QED BY <1>1, <1>8
<1> HIDE DEF h, fix
<1> QED BY <1>6, <1>9, <1>10

\* filterScopeValidators keeps every validator that it knows.
LEMMA FilterRule ==
  ASSUME NEW S, NEW s \in Seq(S)
  PROVE  \E out : /\ out = FoldLeft(KeepKnown, <<>>, s) /\ out \in Seq(Known)
                  /\ \A x \in ToSet(s) \cap Known : x \in ToSet(out)
<1> DEFINE n == Len(s)
<1>1. n \in Nat /\ DOMAIN s = 1..n
  OBVIOUS
<1>2. PICK h : /\ h[0] = <<>>
               /\ \A i \in 1..Len(s) : h[i] = KeepKnown(h[i - 1], s[i])
               /\ FoldLeft(KeepKnown, <<>>, s) = h[Len(s)]
  <2>1. <<>> \in Seq(Known) OBVIOUS
  <2> QED BY <2>1, KeepKnownFold
<1> DEFINE P(i) == /\ h[i] \in Seq(Known)
                   /\ \A j \in 1..i : s[j] \in Known => s[j] \in ToSet(h[i])
           T == {i \in 0..n : P(i)}
<1>3. 0 \in T
  <2>1. <<>> \in Seq(Known) OBVIOUS
  <2>2. P(0)
    <3>1. 1..0 = {} OBVIOUS
    <3> QED BY <1>2, <2>1, <3>1
  <2> QED BY <1>1, <2>2
<1>4. ASSUME NEW i \in 0..(n - 1), i \in T PROVE i + 1 \in T
  <2>1. i + 1 \in 1..n /\ i + 1 \in 0..n /\ (i + 1) - 1 = i BY <1>1
  <2>2. h[i + 1] = KeepKnown(h[i], s[i + 1]) BY <1>2, <2>1
  <2>3. h[i] \in Seq(Known) BY <1>4
  <2> DEFINE a == h[i]
             b == h[i + 1]
             x == s[i + 1]
  <2>4. h[i + 1] \in Seq(Known) BY <2>2, <2>3, KeepKnownType
  <2>5. /\ ToSet(a) \subseteq ToSet(b)
        /\ x \in Known => x \in ToSet(b)
    <3>1. a \in Seq(Known) /\ b \in Seq(Known) BY <2>3, <2>4
    <3>2. b = IF x \in Known THEN Append(a, x) ELSE a BY <2>2 DEF KeepKnown, Known
    <3> HIDE DEF a, b, x, Known
    <3>3. CASE x \in Known
      <4>1. /\ \A j \in 1..Len(a) : b[j] = a[j]
            /\ b[Len(a) + 1] = x /\ Len(b) = Len(a) + 1
        BY <3>1, <3>2, <3>3, Appended
      <4>2. DOMAIN a = 1..Len(a) /\ DOMAIN b = 1..Len(b) /\ Len(a) \in Nat BY <3>1
      <4>3. \A j \in DOMAIN a : j \in DOMAIN b /\ b[j] = a[j] BY <4>1, <4>2
      <4>4. Len(a) + 1 \in DOMAIN b BY <4>1, <4>2
      <4> QED BY <4>1, <4>3, <4>4 DEF ToSet
    <3>4. CASE x \notin Known BY <3>2, <3>4
    <3> QED BY <3>3, <3>4
  <2>6. ASSUME NEW j \in 1..(i + 1), s[j] \in Known PROVE s[j] \in ToSet(h[i + 1])
    <3>1. CASE j = i + 1 BY <2>5, <2>6, <3>1
    <3>2. CASE j # i + 1
      <4>1. j \in 1..i BY <3>2
      <4>2. s[j] \in ToSet(h[i]) BY <1>4, <2>6, <4>1
      <4> QED BY <2>5, <4>2
    <3> QED BY <3>1, <3>2
  <2> QED BY <2>1, <2>4, <2>6
<1>5. n \in T
  <2> HIDE DEF T
  <2>1. n \in 0..n BY <1>1
  <2> QED BY <1>1, <1>3, <1>4, <2>1, Induction
<1>6. h[n] \in Seq(Known) /\ \A x \in ToSet(s) \cap Known : x \in ToSet(h[n])
  <2>1. P(n) BY <1>5
  <2>2. ASSUME NEW x \in ToSet(s) \cap Known PROVE x \in ToSet(h[n])
    <3>1. PICK j \in 1..n : s[j] = x BY <1>1 DEF ToSet
    <3> HIDE DEF n, Known
    <3> QED BY <2>1, <3>1
  <2> QED BY <2>1, <2>2
<1> QED BY <1>2, <1>6

\* mapScopeValidators makes nothing up.
LEMMA DecodeRule ==
  ASSUME NEW S, NEW s \in Seq(S)
  PROVE  \E out : /\ out = FoldLeft(TakeDecoded, <<>>, s) /\ out \in Seq(Known)
                  /\ \A x \in ToSet(out) : ValidatorNames[x] \in ToSet(s)
<1> DEFINE n == Len(s)
<1>1. n \in Nat /\ DOMAIN s = 1..n
  OBVIOUS
<1>2. PICK h : /\ h[0] = <<>>
               /\ \A i \in 1..Len(s) : h[i] = TakeDecoded(h[i - 1], s[i])
               /\ FoldLeft(TakeDecoded, <<>>, s) = h[Len(s)]
  <2>1. <<>> \in Seq(Known) OBVIOUS
  <2> QED BY <2>1, TakeDecodedFold
<1> DEFINE P(i) == h[i] \in Seq(Known) /\ \A x \in ToSet(h[i]) : ValidatorNames[x] \in ToSet(s)
           T == {i \in 0..n : P(i)}
<1>3. 0 \in T
  <2>1. ToSet(<<>>) = {} BY DEF ToSet
  <2>2. <<>> \in Seq(Known) OBVIOUS
  <2>3. P(0) BY <1>2, <2>1, <2>2
  <2> QED BY <1>1, <2>3
<1>4. ASSUME NEW i \in 0..(n - 1), i \in T PROVE i + 1 \in T
  <2>1. i + 1 \in 1..n /\ i + 1 \in 0..n /\ (i + 1) - 1 = i BY <1>1
  <2>2. h[i + 1] = TakeDecoded(h[i], s[i + 1]) BY <1>2, <2>1
  <2>3. P(i) BY <1>4
  <2>4. h[i + 1] \in Seq(Known) BY <2>2, <2>3, TakeDecodedType
  <2> DEFINE a == h[i]
             b == h[i + 1]
             x == Decoded(ValidatorNames, s[i + 1])
  <2>5. a \in Seq(Known) /\ b \in Seq(Known) BY <2>3, <2>4
  <2>6. x # "" => ValidatorNames[x] = s[i + 1] /\ x \in Known BY DecodedValidator
  <2>7. s[i + 1] \in ToSet(s) BY <1>1, <2>1 DEF ToSet
  <2>8. b = IF x = "" THEN a ELSE Append(a, x) BY <2>2 DEF TakeDecoded
  <2>9. \A y \in ToSet(a) : ValidatorNames[y] \in ToSet(s) BY <2>3
  <2>10. ASSUME NEW y \in ToSet(b) PROVE ValidatorNames[y] \in ToSet(s)
    <3> HIDE DEF a, b, x, n, Known, T
    <3>1. CASE x = "" BY <2>8, <2>9, <2>10, <3>1
    <3>2. CASE x # ""
      <4>1. b = Append(a, x) /\ x \in Known BY <2>6, <2>8, <3>2
      <4>2. y \in ToSet(a) \/ y = x
        <5>1. PICK j \in DOMAIN b : b[j] = y BY <2>10 DEF ToSet
        <5>2. /\ \A k \in 1..Len(a) : b[k] = a[k]
              /\ b[Len(a) + 1] = x /\ Len(b) = Len(a) + 1
          BY <2>5, <4>1, Appended
        <5>3. DOMAIN a = 1..Len(a) /\ DOMAIN b = 1..Len(b) /\ Len(a) \in Nat
          BY <2>5, Positions
        <5>4. j \in 1..Len(a) \/ j = Len(a) + 1
          <6>1. j \in 1..(Len(a) + 1) BY <5>1, <5>2, <5>3
          <6> QED BY <5>3, <6>1
        <5> QED BY <5>1, <5>2, <5>3, <5>4 DEF ToSet
      <4> QED BY <2>6, <2>7, <2>9, <3>2, <4>2
    <3> QED BY <3>1, <3>2
  <2> QED BY <2>1, <2>4, <2>10
<1>5. n \in T
  <2> HIDE DEF T
  <2>1. n \in 0..n BY <1>1
  <2> QED BY <1>1, <1>3, <1>4, <2>1, Induction
<1> QED BY <1>2, <1>5

\* What buildCreateOAuthApplicaiton encodes is decoded to what it was.
LEMMA EncodeDecode ==
  ASSUME NEW s \in Seq(Known)
  PROVE  FoldLeft(TakeDecoded, <<>>, [i \in DOMAIN s |-> Encoded(ValidatorNames, s[i])]) = s
<1> DEFINE n == Len(s)
           e == [i \in DOMAIN s |-> Encoded(ValidatorNames, s[i])]
           S == {Encoded(ValidatorNames, s[i]) : i \in DOMAIN s}
<1>1. n \in Nat /\ DOMAIN s = 1..n
  OBVIOUS
<1>2. e \in Seq(S) /\ Len(e) = n
  <2>1. e \in [DOMAIN s -> S] OBVIOUS
  <2> HIDE DEF e, S, Known
  <2> QED BY <2>1, Mapped
<1>a. ASSUME NEW i \in 1..n PROVE s[i] \in Known /\ Decoded(ValidatorNames, e[i]) = s[i] /\ s[i] # ""
  <2>1. s[i] \in Known OBVIOUS
  <2>2. e[i] = ValidatorNames[s[i]] BY <1>1, <2>1 DEF Encoded, Known
  <2> QED BY <2>1, <2>2, DecodedValidator
<1> HIDE DEF e, S
<1>3. PICK h : /\ h[0] = <<>>
               /\ \A i \in 1..Len(e) : h[i] = TakeDecoded(h[i - 1], e[i])
               /\ FoldLeft(TakeDecoded, <<>>, e) = h[Len(e)]
  <2>1. <<>> \in Seq(Known) OBVIOUS
  <2> QED BY <1>2, <2>1, TakeDecodedFold
<1> DEFINE P(i) == h[i] \in Seq(Known) /\ Len(h[i]) = i /\ \A j \in 1..i : h[i][j] = s[j]
           T == {i \in 0..n : P(i)}
<1>4. 0 \in T
  <2>1. <<>> \in Seq(Known) /\ Len(<<>>) = 0 OBVIOUS
  <2>2. P(0)
    <3>1. 1..0 = {} OBVIOUS
    <3> QED BY <1>3, <2>1, <3>1
  <2> QED BY <1>1, <2>2
<1>5. ASSUME NEW i \in 0..(n - 1), i \in T PROVE i + 1 \in T
  <2>1. i + 1 \in 1..n /\ i + 1 \in 0..n /\ (i + 1) - 1 = i BY <1>1
  <2>2. h[i + 1] = TakeDecoded(h[i], e[i + 1]) BY <1>2, <1>3, <2>1
  <2>3. P(i) BY <1>5
  <2>4. Decoded(ValidatorNames, e[i + 1]) = s[i + 1] /\ s[i + 1] # "" /\ s[i + 1] \in Known
    BY <1>a, <2>1
  <2>5. h[i + 1] = Append(h[i], s[i + 1])
    BY <2>2, <2>4 DEF TakeDecoded
  <2> DEFINE a == h[i]
             x == s[i + 1]
  <2>6. a \in Seq(Known) /\ Len(a) = i /\ x \in Known BY <2>3, <2>4
  <2>7. /\ Append(a, x) \in Seq(Known) /\ Len(Append(a, x)) = i + 1
        /\ \A j \in 1..i : Append(a, x)[j] = a[j]
        /\ Append(a, x)[i + 1] = x
    <3> HIDE DEF a, x, n, Known, T
    <3> QED BY <2>6, Appended
  <2>8. ASSUME NEW j \in 1..(i + 1) PROVE h[i + 1][j] = s[j]
    <3>1. CASE j = i + 1 BY <2>5, <2>7, <3>1
    <3>2. CASE j # i + 1
      <4>1. j \in 1..i BY <3>2
      <4> QED BY <2>3, <2>5, <2>7, <4>1
    <3> QED BY <3>1, <3>2
  <2> QED BY <2>1, <2>5, <2>7, <2>8
<1>6. n \in T
  <2> HIDE DEF T
  <2>1. n \in 0..n BY <1>1
  <2> QED BY <1>1, <1>4, <1>5, <2>1, Induction
<1>7. h[n] = s
  <2>1. h[n] \in Seq(Known) /\ Len(h[n]) = n /\ \A j \in 1..n : h[n][j] = s[j] BY <1>6
  <2> HIDE DEF Known
  <2> QED BY <2>1
<1> QED BY <1>2, <1>3, <1>7 DEF e

------------------------------------------------------------------------------
(* The records that builder.go makes *)

\* What an Encoded name may be.
LEMMA EncodedType ==
  /\ \A x : Encoded(ValidatorNames, x) \in STRING
  /\ \A x : Encoded(BindingNames, x) \in STRING
<1>1. /\ "" \in STRING
      /\ ValidatorNames.xacml \in STRING /\ ValidatorNames.role \in STRING
      /\ BindingNames.session \in STRING /\ BindingNames.cookie \in STRING
  BY NamesAssumption
<1>2. DOMAIN ValidatorNames = {"xacml", "role"} /\ DOMAIN BindingNames = {"session", "cookie"}
  BY DEF ValidatorNames, BindingNames
<1>3. ASSUME NEW x PROVE Encoded(ValidatorNames, x) \in STRING
  <2>1. CASE x \in DOMAIN ValidatorNames
    <3>1. x = "xacml" \/ x = "role" BY <1>2, <2>1
    <3>2. Encoded(ValidatorNames, x) = ValidatorNames[x] BY <2>1 DEF Encoded
    <3> QED BY <1>1, <3>1, <3>2
  <2>2. CASE x \notin DOMAIN ValidatorNames BY <1>1, <2>2 DEF Encoded
  <2> QED BY <2>1, <2>2
<1>4. ASSUME NEW x PROVE Encoded(BindingNames, x) \in STRING
  <2>1. CASE x \in DOMAIN BindingNames
    <3>1. x = "session" \/ x = "cookie" BY <1>2, <2>1
    <3>2. Encoded(BindingNames, x) = BindingNames[x] BY <2>1 DEF Encoded
    <3> QED BY <1>1, <3>1, <3>2
  <2>2. CASE x \notin DOMAIN BindingNames BY <1>1, <2>2 DEF Encoded
  <2> QED BY <2>1, <2>2
<1> QED BY <1>3, <1>4

\* A list of one word.
LEMMA OneWord ==
  ASSUME NEW S, NEW x \in S
  PROVE  <<x>> \in Seq(S) /\ <<x>> # <<>> /\ <<>> \in Seq(S)
  OBVIOUS

\* The grant types as one text.
LEMMA JoinedType ==
  ASSUME NEW g \in Seq(Text)
  PROVE  Joined(g) \in Text
<1>1. CASE g = <<>>
  <2>1. "" \in STRING BY NamesAssumption
  <2>2. <<"">> \in Text BY <2>1, OneWord DEF Text
  <2> QED BY <1>1, <2>2 DEF Joined
<1>2. CASE g # <<>>
  <2>1. g \in Seq(Seq(STRING) \ {<<>>}) /\ Len(g) # 0 BY <1>2 DEF Text
  <2> QED BY <1>2, <2>1, Flattened DEF Joined, Text
<1> QED BY <1>1, <1>2

\* What filterScopeValidators and filterTokenBindings leave of a spec.
LEMMA DesiredOAuthIs ==
  ASSUME NEW o \in OAuthSpec
  PROVE  /\ DesiredOAuth(o).rest = o.rest /\ DesiredOAuth(o).grants = o.grants
         /\ DesiredOAuth(o).public = o.public
         /\ DesiredOAuth(o).binding = IF o.binding \in DOMAIN BindingNames THEN o.binding ELSE ""
         /\ DesiredOAuth(o).validators = FoldLeft(KeepKnown, <<>>, o.validators)
         /\ DesiredOAuth(o) = [rest |-> DesiredOAuth(o).rest, grants |-> DesiredOAuth(o).grants,
                               public |-> DesiredOAuth(o).public, binding |-> DesiredOAuth(o).binding,
                               validators |-> DesiredOAuth(o).validators]
         /\ DesiredOAuth(o).validators \in Seq(Known)
<1> DEFINE v == FoldLeft(KeepKnown, <<>>, o.validators)
<1>1. v \in Seq(Known)
  <2>1. o.validators \in Seq(STRING) BY DEF OAuthSpec
  <2> QED BY <2>1, FilterRule
<1> HIDE DEF v
<1>2. DesiredOAuth(o) = [o EXCEPT !.validators = v,
                                  !.binding = IF @ \in DOMAIN BindingNames THEN @ ELSE ""]
  BY DEF DesiredOAuth, v
<1>3. o = [rest |-> o.rest, grants |-> o.grants, public |-> o.public, binding |-> o.binding,
           validators |-> o.validators]
  BY DEF OAuthSpec
<1> QED BY <1>1, <1>2, <1>3 DEF v

\* buildCreateOAuthApplicaiton makes an OAuth application of a spec.
LEMMA BuildOAuthType ==
  ASSUME NEW o \in OAuthSpec
  PROVE  BuildOAuth(DesiredOAuth(o)) \in OAuthRecord
<1> DEFINE d == DesiredOAuth(o)
           e == [i \in DOMAIN d.validators |-> Encoded(ValidatorNames, d.validators[i])]
<1>1. d.rest \in Rests /\ d.grants \in Seq(Text) /\ d.validators \in Seq(Known)
  BY DesiredOAuthIs DEF OAuthSpec
<1> HIDE DEF d
<1>2. e \in Seq(STRING)
  <2>1. e \in [DOMAIN d.validators -> STRING] BY EncodedType
  <2> HIDE DEF e, Known
  <2> QED BY <1>1, <2>1, Mapped
<1>3. Joined(d.grants) \in Text BY <1>1, JoinedType
<1>4. Encoded(BindingNames, d.binding) \in STRING BY EncodedType
<1>5. BuildOAuth(d) = [rest |-> d.rest, grants |-> Joined(d.grants), public |-> FALSE,
                       binding |-> Encoded(BindingNames, d.binding), validators |-> e]
  BY DEF BuildOAuth
<1> HIDE DEF e
<1> QED BY <1>1, <1>2, <1>3, <1>4, <1>5 DEF d, OAuthRecord

\* applicationFromSpec changes two fields.
LEMMA DesiredIs ==
  ASSUME NEW s \in AppSpec
  PROVE  Desired(s) = [rest |-> s.rest, claims |-> s.claims, steps |-> s.steps,
                       script |-> IF s.steps = <<>> THEN "" ELSE s.script,
                       subject |-> s.subject, attribute |-> s.attribute,
                       sendIdps |-> s.sendIdps, inbound |-> s.inbound \cap Protocols]
<1> DEFINE script == IF s.steps = <<>> THEN "" ELSE s.script
           in == s.inbound \cap Protocols
<1>1. s = [rest |-> s.rest, claims |-> s.claims, steps |-> s.steps, script |-> s.script,
           subject |-> s.subject, attribute |-> s.attribute, sendIdps |-> s.sendIdps,
           inbound |-> s.inbound]
  BY DEF AppSpec
<1>2. Desired(s) = [s EXCEPT !.script = script, !.inbound = in]
  BY <1>1 DEF Desired
<1> HIDE DEF script, in
<1>3. Desired(s) = [rest |-> s.rest, claims |-> s.claims, steps |-> s.steps, script |-> script,
                    subject |-> s.subject, attribute |-> s.attribute,
                    sendIdps |-> s.sendIdps, inbound |-> in]
  BY <1>1, <1>2
<1> QED BY <1>3 DEF script, in

\* The application that the server has after buildUpdateApplication.
LEMMA StoredIs ==
  ASSUME NEW s \in AppSpec, NEW ks
  PROVE  StoredApp(BuildUpdate(Desired(s), ks)) =
           [rest |-> s.rest, claims |-> s.claims,
            script |-> IF s.steps = <<>> THEN "" ELSE s.script,
            steps |-> [i \in DOMAIN s.steps |-> BuildStep(s.steps[i], Desired(s))],
            inbound |-> {p \in Protocols : p \in s.inbound \cap ks \/ KeepsBlank},
            sendIdps |-> s.sendIdps]
<1> DEFINE d == Desired(s)
           st == [i \in DOMAIN s.steps |-> BuildStep(s.steps[i], d)]
<1>1. /\ d.rest = s.rest /\ d.claims = s.claims /\ d.steps = s.steps /\ d.sendIdps = s.sendIdps
      /\ d.script = IF s.steps = <<>> THEN "" ELSE s.script
      /\ d.inbound = s.inbound \cap Protocols
  <2> DEFINE script == IF s.steps = <<>> THEN "" ELSE s.script
             in == s.inbound \cap Protocols
  <2>1. d = [rest |-> s.rest, claims |-> s.claims, steps |-> s.steps, script |-> script,
             subject |-> s.subject, attribute |-> s.attribute,
             sendIdps |-> s.sendIdps, inbound |-> in]
    BY DesiredIs
  <2> HIDE DEF script, in, d
  <2>2. /\ d.rest = s.rest /\ d.claims = s.claims /\ d.steps = s.steps /\ d.sendIdps = s.sendIdps
        /\ d.script = script /\ d.inbound = in
    BY <2>1
  <2> QED BY <2>2 DEF script, in
<1>2. BuildUpdate(d, ks) = [rest |-> d.rest, claims |-> d.claims, script |-> d.script, steps |-> st,
                            inbound |-> BuildInbound(d, ks), sendIdps |-> d.sendIdps]
  BY <1>1 DEF BuildUpdate
<1>3. ASSUME NEW p \in Protocols PROVE BuildInbound(d, ks)[p] <=> p \in s.inbound \cap ks
  <2> HIDE DEF d
  <2>1. BuildInbound(d, ks)[p] = (p \in d.inbound \cap ks) BY DEF BuildInbound
  <2>2. p \in d.inbound \cap ks <=> p \in s.inbound \cap ks BY <1>1
  <2> QED BY <2>1, <2>2
<1> HIDE DEF d, st
<1>4. StoredApp(BuildUpdate(d, ks)) =
        [rest |-> d.rest, claims |-> d.claims, script |-> d.script, steps |-> st,
         inbound |-> {p \in Protocols : BuildInbound(d, ks)[p] \/ KeepsBlank},
         sendIdps |-> d.sendIdps]
  BY <1>2 DEF StoredApp
<1>5. {p \in Protocols : BuildInbound(d, ks)[p] \/ KeepsBlank}
        = {p \in Protocols : p \in s.inbound \cap ks \/ KeepsBlank}
  BY <1>3
<1> QED BY <1>1, <1>4, <1>5 DEF d, st

\* buildAuthenticationSteps.
LEMMA BuildStepType ==
  ASSUME NEW s \in AppSpec, NEW c \in AuthStep
  PROVE  BuildStep(c, Desired(s)) \in StepEntry
<1>1. BuildIdps(c) \in Seq(Provider)
  <2>0. <<>> \in Seq(Provider) OBVIOUS
  <2>1. CASE c.idp = "" /\ c.auth = "" BY <2>0, <2>1 DEF BuildIdps
  <2>2. CASE ~(c.idp = "" /\ c.auth = "")
    <3> DEFINE auths == IF c.auth = "" THEN <<>> ELSE <<c.auth>>
    <3>1. auths \in Seq(STRING \ {""})
      <4>0. <<>> \in Seq(STRING \ {""}) OBVIOUS
      <4>1. CASE c.auth = "" BY <4>0, <4>1
      <4>2. CASE c.auth # ""
        <5>1. c.auth \in STRING \ {""} BY <4>2 DEF AuthStep
        <5>2. <<c.auth>> \in Seq(STRING \ {""}) BY <5>1, OneWord
        <5> QED BY <4>2, <5>2
      <4> QED BY <4>1, <4>2
    <3>2. BuildIdps(c) = <<[name |-> c.idp, auths |-> auths]>> BY <2>2 DEF BuildIdps
    <3>3. c.idp \in STRING BY DEF AuthStep
    <3> HIDE DEF auths
    <3>4. [name |-> c.idp, auths |-> auths] \in Provider BY <3>1, <3>3 DEF Provider
    <3> HIDE DEF Provider
    <3> QED BY <3>2, <3>4, OneWord
  <2> QED BY <2>1, <2>2
<1> QED BY <1>1 DEF BuildStep, StepEntry, AuthStep

\* buildUpdateApplication makes an application of a spec.
LEMMA StoredType ==
  ASSUME NEW s \in AppSpec, NEW ks
  PROVE  StoredApp(BuildUpdate(Desired(s), ks)) \in AppRecord
<1> DEFINE st == [i \in DOMAIN s.steps |-> BuildStep(s.steps[i], Desired(s))]
           script == IF s.steps = <<>> THEN "" ELSE s.script
           in == {p \in Protocols : p \in s.inbound \cap ks \/ KeepsBlank}
<1>1. st \in Seq(StepEntry)
  <2>1. s.steps \in Seq(AuthStep) BY DEF AppSpec
  <2>2. st \in [DOMAIN s.steps -> StepEntry] BY <2>1, BuildStepType
  <2> HIDE DEF st
  <2> QED BY <2>1, <2>2, Mapped
<1>2. script \in STRING BY NamesAssumption DEF AppSpec
<1>3. in \in SUBSET Protocols OBVIOUS
<1>4. s.rest \in Rests /\ s.claims \in Seq(Claim) /\ s.sendIdps \in BOOLEAN BY DEF AppSpec
<1>5. StoredApp(BuildUpdate(Desired(s), ks)) =
        [rest |-> s.rest, claims |-> s.claims, script |-> script, steps |-> st,
         inbound |-> in, sendIdps |-> s.sendIdps]
  BY StoredIs
<1> HIDE DEF st, script, in
<1> QED BY <1>1, <1>2, <1>3, <1>4, <1>5 DEF AppRecord

\* The server gives the same claims in another order.
LEMMA ReorderedType ==
  ASSUME NEW a \in AppRecord, NEW b \in Reordered(a)
  PROVE  b \in AppRecord
<1> DEFINE S == ToSet(a.claims)
<1>1. a.claims \in Seq(Claim) BY DEF AppRecord
<1>2. S \subseteq Claim
  <2> HIDE DEF Claim
  <2> QED BY <1>1 DEF ToSet
<1>3. Cardinality(S) \in Nat
  <2>1. DOMAIN a.claims = 1..Len(a.claims) /\ Len(a.claims) \in Nat BY <1>1, Positions
  <2>2. IsFiniteSet(DOMAIN a.claims) BY <2>1, FS_Interval
  <2>3. a.claims \in Surjection(DOMAIN a.claims, S)
    <3>1. DOMAIN a.claims = 1..Len(a.claims) BY <2>1
    <3>2. a.claims \in [DOMAIN a.claims -> S] BY <1>1 DEF ToSet
    <3>3. \A x \in S : \E i \in DOMAIN a.claims : a.claims[i] = x BY DEF ToSet
    <3> HIDE DEF S
    <3> QED BY <3>2, <3>3 DEF Surjection
  <2> HIDE DEF S
  <2>4. IsFiniteSet(S) BY <2>2, <2>3, FS_Surjection
  <2> QED BY <2>4, FS_CardinalityType
<1>4. PICK c \in SetToSeqs(S) : b = [a EXCEPT !.claims = c] BY DEF Reordered
<1>5. c \in [1..Cardinality(S) -> S] BY <1>4 DEF SetToSeqs
<1>6. c \in Seq(Claim)
  <2> HIDE DEF S, Claim
  <2> QED BY <1>2, <1>3, <1>5
<1> HIDE DEF S
<1> QED BY <1>4, <1>6 DEF AppRecord

------------------------------------------------------------------------------
(* Types *)

\* What a pass finds of a part is a verdict.
LEMMA VerdictType ==
  /\ Open \in [Parts -> Verdicts]
  /\ \A p \in Parts, v \in Verdicts : [Open EXCEPT ![p] = v] \in [Parts -> Verdicts]
  /\ OAuthVerdict \in Verdicts /\ SamlVerdict \in Verdicts /\ AppVerdict \in Verdicts
<1>1. Open \in [Parts -> Verdicts] BY DEF Open, Verdicts
<1>2. OAuthVerdict \in Verdicts BY DEF OAuthVerdict, Verdicts
<1>3. SamlVerdict \in Verdicts BY DEF SamlVerdict, Verdicts
<1>4. AppVerdict \in Verdicts BY DEF AppVerdict, Verdicts
<1> QED BY <1>1, <1>2, <1>3, <1>4

\* What is wanted is one of the given specs and documents, and the SAML service
\* provider of an entity ID is the configuration of a document of that entity:
\* CreateSAMLSP registers nothing else.
Documented ==
    /\ ospec \in OAuthSpecs /\ meta \in Descriptors
    /\ \A e \in Entities : sps[e] # None =>
          \E m \in Descriptors : m.entity = e /\ sps[e] = SpConfig(m)

\* The records and the verdicts that there are to begin with.
LEMMA TypeInit == Init => ExTypeOK /\ Documented
<1> SUFFICES ASSUME Init PROVE ExTypeOK /\ Documented
  OBVIOUS
<1>1. spec \in AppSpec /\ ospec \in OAuthSpecs /\ meta \in Descriptors
  BY ExchangeAssumption DEF Init
<1>2. app \in AppRecord /\ oapp = None
  <2>1. PICK rest \in Rests : app = CreatedApp(rest) BY DEF Init
  <2>2. "" \in STRING BY NamesAssumption
  <2>3. <<>> \in Seq(Claim) /\ <<>> \in Seq(StepEntry) OBVIOUS
  <2>4. app = [rest |-> rest, claims |-> <<>>, script |-> "", steps |-> <<>>,
               inbound |-> {}, sendIdps |-> FALSE]
    BY <2>1 DEF CreatedApp
  <2>5. app \in AppRecord BY <2>2, <2>3, <2>4 DEF AppRecord
  <2> QED BY <2>5 DEF Init
<1>3. sps = [e \in Entities |-> None] /\ keys = {} /\ verdict = Open /\ changes = 0
  BY DEF Init
<1>4. changes \in 0..MaxChanges BY <1>3, ExchangeAssumption
<1>5. ospec \in OAuthSpec /\ meta \in Descriptor /\ meta.entity \in Entities
  BY <1>1, ExchangeAssumption DEF Entities
<1> QED BY <1>1, <1>2, <1>3, <1>4, <1>5, VerdictType DEF ExTypeOK, Documented

\* Every change and every pass of the controller keeps to records that soap.go
\* can decode: one step per action.
LEMMA TypeStep == ExTypeOK /\ Documented /\ [Next]_vars => ExTypeOK' /\ Documented'
<1> SUFFICES ASSUME ExTypeOK, Documented, [Next]_vars PROVE ExTypeOK' /\ Documented'
  OBVIOUS
<1> DEFINE SpsOK == /\ DOMAIN sps = Entities
                    /\ \A e \in Entities : sps[e] # None =>
                          \E m \in Descriptors : m.entity = e /\ sps[e] = SpConfig(m)
           Rest == /\ keys \subseteq Protocols
                   /\ app \in AppRecord /\ oapp \in OAuthRecord \cup {None}
                   /\ SpsOK
           Wanted == spec \in AppSpec /\ ospec \in OAuthSpecs /\ meta \in Descriptors
<1>0. /\ Wanted /\ Rest
      /\ verdict \in [Parts -> Verdicts] /\ changes \in 0..MaxChanges
  BY DEF ExTypeOK, Documented
<1>a. ASSUME Wanted', Rest', verdict' \in [Parts -> Verdicts], changes' \in 0..MaxChanges
      PROVE  ExTypeOK' /\ Documented'
  <2>1. ospec' \in OAuthSpec /\ meta' \in Descriptor /\ meta'.entity \in Entities
    BY <1>a, ExchangeAssumption DEF Entities
  <2>2. ASSUME NEW e \in Entities, sps'[e] # None PROVE sps'[e].issuer = e
    <3>1. PICK m \in Descriptors : m.entity = e /\ sps'[e] = SpConfig(m) BY <1>a, <2>2
    <3>2. SpConfig(m).issuer = m.entity BY DEF SpConfig
    <3> QED BY <3>1, <3>2
  <2> QED BY <1>a, <2>1, <2>2 DEF ExTypeOK, Documented
<1>b. UNCHANGED wanted => Wanted' BY <1>0 DEF wanted
<1>c. UNCHANGED sps => SpsOK' BY <1>0
<1>d. UNCHANGED <<keys, records>> => Rest' BY <1>0, <1>c DEF records
<1>e. Change => verdict' \in [Parts -> Verdicts] /\ changes' \in 0..MaxChanges
  BY <1>0, ExchangeAssumption, VerdictType DEF Change
<1>f. OAuthKey \subseteq Protocols /\ SamlKey \subseteq Protocols /\ {"oauth2", "samlsso"} \subseteq Protocols
  BY DEF OAuthKey, SamlKey, Protocols
<1> HIDE DEF SpsOK
<1>1. CASE EditSpec
  <2>1. CASE spec' \in AppSpecs /\ UNCHANGED ospec
    BY <1>0, <1>a, <1>d, <1>e, <1>1, <2>1, ExchangeAssumption DEF EditSpec
  <2>2. CASE \E i \in Inbounds, o \in OAuthSpecs : spec' = [spec EXCEPT !.inbound = i] /\ ospec' = o
    <3>1. PICK i \in Inbounds, o \in OAuthSpecs : spec' = [spec EXCEPT !.inbound = i] /\ ospec' = o
      BY <2>2
    <3>2. i \in SUBSET (Protocols \cup {"metadataURL"}) BY ExchangeAssumption
    <3>3. spec' \in AppSpec BY <1>0, <3>1, <3>2 DEF AppSpec
    <3> QED BY <1>0, <1>a, <1>d, <1>e, <1>1, <3>1, <3>3 DEF EditSpec
  <2> QED BY <1>1, <2>1, <2>2 DEF EditSpec
<1>2. CASE PublishMetadata
  BY <1>0, <1>a, <1>d, <1>e, <1>2 DEF PublishMetadata
<1>3. CASE DropSecret
  BY <1>0, <1>a, <1>b, <1>c, <1>e, <1>3 DEF DropSecret, records
<1>4. CASE DriftApp
  <2>1. app' \in AppRecord
    BY <1>0, <1>4, ExchangeAssumption, ReorderedType DEF DriftApp
  <2> QED BY <1>0, <1>a, <1>b, <1>c, <1>e, <1>4, <2>1 DEF DriftApp
<1>5. CASE DriftOAuth
  <2>1. oapp' \in OAuthRecord \cup {None}
    BY <1>0, <1>5, ExchangeAssumption DEF DriftOAuth
  <2> QED BY <1>0, <1>a, <1>b, <1>c, <1>e, <1>5, <2>1 DEF DriftOAuth
<1>6. CASE OAuthPass
  <2>1. oapp' \in OAuthRecord
    BY <1>0, <1>6, ExchangeAssumption, BuildOAuthType DEF OAuthPass
  <2>2. keys' \subseteq Protocols
    BY <1>0, <1>6, <1>f DEF OAuthPass
  <2>3. verdict' \in [Parts -> Verdicts]
    BY <1>6, VerdictType DEF OAuthPass, Parts
  <2> QED BY <1>0, <1>a, <1>b, <1>c, <1>6, <2>1, <2>2, <2>3 DEF OAuthPass
<1>7. CASE SamlPass
  <2>1. SpsOK'
    <3>1. CASE SamlVerdict = "updated"
      <4>1. sps' = [sps EXCEPT ![meta.entity] = SpConfig(meta)] BY <1>7, <3>1 DEF SamlPass
      <4>2. meta.entity \in Entities BY <1>0 DEF Entities
      <4> QED BY <1>0, <4>1, <4>2 DEF SpsOK
    <3>2. CASE SamlVerdict # "updated"
      BY <1>7, <1>c, <3>2 DEF SamlPass
    <3> QED BY <3>1, <3>2
  <2>2. keys' \subseteq Protocols
    <3>1. keys' = keys \cup OAuthKey \cup (IF SamlVerdict = "failed" THEN {"samlsso"} ELSE {})
      BY <1>7 DEF SamlPass
    <3>2. (IF SamlVerdict = "failed" THEN {"samlsso"} ELSE {}) \subseteq Protocols BY <1>f
    <3> QED BY <1>0, <1>f, <3>1, <3>2
  <2>3. verdict' \in [Parts -> Verdicts]
    BY <1>7, VerdictType DEF SamlPass, Parts
  <2> QED BY <1>0, <1>a, <1>b, <1>7, <2>1, <2>2, <2>3 DEF SamlPass
<1>8. CASE AppPass
  <2>1. app' \in AppRecord
    BY <1>0, <1>8, StoredType DEF AppPass
  <2>2. keys' \subseteq Protocols
    BY <1>0, <1>8, <1>f DEF AppPass
  <2>3. verdict' \in [Parts -> Verdicts]
    <3>1. verdict' = [oauth |-> "inSync", saml |-> "inSync", app |-> AppVerdict] BY <1>8 DEF AppPass
    <3> QED BY <3>1, VerdictType DEF Parts, Verdicts
  <2> QED BY <1>0, <1>a, <1>b, <1>c, <1>8, <2>1, <2>2, <2>3 DEF AppPass
<1>9. CASE UNCHANGED vars
  BY <1>0, <1>a, <1>b, <1>c, <1>9 DEF vars, records
<1> QED BY <1>1, <1>2, <1>3, <1>4, <1>5, <1>6, <1>7, <1>8, <1>9 DEF Next

\* The type invariant, strengthened with where a registration comes from.
LEMMA TypeInvariant == Spec => [](ExTypeOK /\ Documented)
  BY TypeInit, TypeStep, PTL DEF Spec

\* Whatever is written, read back and changed, the spec, the records on the server
\* and the verdicts keep their types, and a SAML service provider is registered
\* under its own entity ID (ExTypeOK).
THEOREM ExTypeCorrect == Spec => []ExTypeOK
  BY TypeInvariant, PTL

------------------------------------------------------------------------------
(* Metadata *)

\* collectACSURLs: "explicit isDefault > lowest index" (DefaultIsDeclared), for
\* documents with any number of services.
THEOREM DeclaredDefault == Spec => []DefaultIsDeclared
<1>1. ExTypeOK => DefaultIsDeclared
  <2> SUFFICES ASSUME ExTypeOK, meta.acs # <<>> PROVE DefaultIsDeclared
    BY DEF DefaultIsDeclared
  <2> DEFINE acs == meta.acs
             url == DefaultAcs(acs)
  <2>1. acs \in Seq(AcsService)
    BY ExchangeAssumption DEF ExTypeOK, Descriptor
  <2>2. SpConfig(meta).default = url
    BY DEF SpConfig
  <2>3. PICK marked : /\ marked = FoldLeft(Mark, "", acs)
                      /\ marked # "" => \E j \in 1..Len(acs) : acs[j].default /\ acs[j].url = marked
                      /\ \A j : LastDeclared(acs, Len(acs), j) => acs[j].url = marked
    BY <2>1, MarkedRule
  <2>4. PICK first : IsFirst(acs, Len(acs), first) /\ FoldLeft(Lower, acs[1], acs) = acs[first]
    BY <2>1, LowerRule
  <2>5. DOMAIN acs = 1..Len(acs)
    BY <2>1
  <2>6. url = IF marked # "" THEN marked ELSE acs[first].url
    BY <2>3, <2>4 DEF DefaultAcs
  <2> HIDE DEF acs, url
  <2>7. CASE marked # ""
    BY <2>2, <2>3, <2>5, <2>6, <2>7 DEF DefaultIsDeclared, acs
  <2>8. CASE marked = ""
    <3>1. url = acs[first].url BY <2>6, <2>8
    <3>2. ASSUME NEW i \in DOMAIN acs, acs[i].default, \A j \in DOMAIN acs : acs[j].default => j <= i
          PROVE  acs[i].url = ""
      BY <2>3, <2>5, <2>8, <3>2 DEF LastDeclared
    <3>3. /\ first \in DOMAIN acs
          /\ \A j \in DOMAIN acs : IF j < first THEN acs[first].index < acs[j].index
                                   ELSE acs[first].index <= acs[j].index
      BY <2>4, <2>5 DEF IsFirst
    <3> QED BY <2>2, <3>1, <3>2, <3>3 DEF DefaultIsDeclared, acs
  <2> QED BY <2>7, <2>8
<1> QED BY <1>1, ExTypeCorrect, PTL

\* parseSLOEndpoints: "Prefer front-channel (POST > Redirect) over SOAP
\* back-channel" (SloPrefersFront), for any number of endpoints in any order.
THEOREM FrontChannelFirst == Spec => []SloPrefersFront
<1>1. ExTypeOK => SloPrefersFront
  <2> SUFFICES ASSUME ExTypeOK, \A i \in DOMAIN meta.slo : meta.slo[i].at # "" PROVE SloPrefersFront
    BY DEF SloPrefersFront
  <2> DEFINE slo == meta.slo
  <2>1. slo \in Seq(SloEndpoint)
    BY ExchangeAssumption DEF ExTypeOK, Descriptor
  <2>2. DOMAIN slo = 1..Len(slo)
    BY <2>1, Positions
  <2>3. Serving(slo, Len(slo), ParseSlo(slo))
    BY <2>1, <2>2, ParseSloRule DEF Addressed
  <2>4. SpConfig(meta).slo = ParseSlo(slo)
    BY DEF SpConfig
  <2> HIDE DEF slo
  <2> QED BY <2>2, <2>3, <2>4 DEF SloPrefersFront, Serving, Best, Has, Answer, slo
<1> QED BY <1>1, ExTypeCorrect, PTL

\* spConfigFromDescriptor registers the certificate of the first key that may
\* sign, whatever keys stand before and after it, and asks for encryption exactly
\* when a key allows for it (CertificateServes), for any number of keys.
THEOREM CertificateForItsUse == Spec => []CertificateServes
<1>1. ExTypeOK => CertificateServes
  <2> SUFFICES ASSUME ExTypeOK PROVE CertificateServes
    OBVIOUS
  <2> DEFINE ks == meta.keys
             sign == KeysFor(ks, "signing")
             crypt == KeysFor(ks, "encryption")
             key == ParseKeys(ks)
  <2>1. ks \in Seq(KeyInfo)
    BY ExchangeAssumption DEF ExTypeOK, Descriptor
  <2>2. DOMAIN ks = 1..Len(ks)
    BY <2>1, Positions
  <2>3. SpConfig(meta).cert = key.cert /\ SpConfig(meta).encrypt = key.encrypt
    BY DEF SpConfig
  <2>4. KeysSay(ks, Len(ks), key)
    BY <2>1, KeysRule
  <2>5. sign \subseteq 1..Len(ks) /\ crypt \subseteq 1..Len(ks)
    BY DEF KeysFor
  <2>6. /\ key.cert = "" <=> sign = {}
        /\ sign # {} => \E i \in sign : (\A j \in sign : i <= j) /\ key.cert = ks[i].cert
        /\ key.encrypt <=> crypt # {}
    <3> HIDE DEF key, sign, crypt, ks
    <3>1. /\ key.cert = "" => \A i \in 1..Len(ks) : i \notin sign
          /\ key.cert # "" => \E i \in 1..Len(ks) :
                /\ i \in sign /\ key.cert = ks[i].cert
                /\ \A j \in 1..Len(ks) : j \in sign => i <= j
          /\ key.encrypt <=> \E i \in 1..Len(ks) : i \in crypt
      BY <2>4 DEF KeysSay, sign, crypt
    <3> QED BY <2>5, <3>1
  <2> HIDE DEF key
  <2> QED BY <2>2, <2>3, <2>6 DEF CertificateServes, KeysFor
<1> QED BY <1>1, ExTypeCorrect, PTL

\* deriveAlias: the alias of an issuer that is a URL is its host (AliasNamesTheHost),
\* for every service provider that is registered.
THEOREM HostIsTheAlias == Spec => []AliasNamesTheHost
<1>1. Documented => AliasNamesTheHost
  <2> SUFFICES ASSUME Documented, NEW e \in Entities, sps[e] # None, sps[e].cert # "", IsUrl(e)
               PROVE  sps[e].alias = <<e[3]>>
    BY DEF AliasNamesTheHost
  <2>1. PICK m \in Descriptors : m.entity = e /\ sps[e] = SpConfig(m)
    BY DEF Documented
  <2>2. e \in Seq(STRING) BY <2>1, ExchangeAssumption DEF Descriptor
  <2> DEFINE cert == ParseKeys(m.keys).cert
  <2>3. sps[e].cert = cert /\ sps[e].alias = IF cert = "" THEN <<>> ELSE DeriveAlias(cert, m.entity)
    <3>1. SpConfig(m).cert = cert BY DEF SpConfig
    <3>2. SpConfig(m).alias = IF cert = "" THEN <<>> ELSE DeriveAlias(cert, m.entity)
      BY DEF SpConfig
    <3> HIDE DEF cert
    <3> QED BY <2>1, <3>1, <3>2
  <2> HIDE DEF cert
  <2>4. sps[e].alias = DeriveAlias(cert, e) BY <2>1, <2>3
  <2> QED BY <2>2, <2>4, AliasRule
<1> QED BY <1>1, TypeInvariant, PTL

------------------------------------------------------------------------------
(* Verdicts *)

\* What a verdict says of the records, and of the data that it was found for.
VerdictFits ==
    /\ verdict["app"] = "inSync" => AppVerdict = "inSync"
    /\ verdict["app"] = "updated" => app = StoredApp(BuildUpdate(Desired(spec), keys))
    /\ verdict["oauth"] = "inSync" => OAuthServed
    /\ verdict["oauth"] = "updated" => oapp = BuildOAuth(DesiredOAuth(ospec))
    /\ verdict["saml"] = "inSync" => SamlServed

\* A verdict is written with what it is about, every change resets it, and a pass
\* that leaves the other parts alone has found them in sync.
LEMMA FitsStep == ExTypeOK /\ ExTypeOK' /\ VerdictFits /\ [Next]_vars => VerdictFits'
<1> SUFFICES ASSUME ExTypeOK, VerdictFits, [Next]_vars PROVE VerdictFits'
  OBVIOUS
<1>1. CASE Change
  <2>1. \A p \in Parts : verdict'[p] = "open" BY <1>1 DEF Change, Open
  <2>2. verdict'["app"] = "open" /\ verdict'["oauth"] = "open" /\ verdict'["saml"] = "open"
    BY <2>1 DEF Parts
  <2> QED BY <2>2 DEF VerdictFits
<1>2. CASE OAuthPass
  <2>1. verdict' = [Open EXCEPT !["oauth"] = OAuthVerdict] BY <1>2 DEF OAuthPass
  <2>2. verdict'["app"] = "open" /\ verdict'["saml"] = "open" /\ verdict'["oauth"] = OAuthVerdict
    BY <2>1 DEF Open, Parts
  <2>3. OAuthVerdict # "inSync" BY <1>2 DEF OAuthPass
  <2>4. oapp' = BuildOAuth(DesiredOAuth(ospec')) BY <1>2 DEF OAuthPass, wanted
  <2> QED BY <2>2, <2>3, <2>4 DEF VerdictFits
<1>3. CASE SamlPass
  <2>1. verdict' = [Open EXCEPT !["saml"] = SamlVerdict] BY <1>3 DEF SamlPass
  <2>2. verdict'["app"] = "open" /\ verdict'["oauth"] = "open" /\ verdict'["saml"] = SamlVerdict
    BY <2>1 DEF Open, Parts
  <2>3. SamlVerdict # "inSync" BY <1>3 DEF SamlPass
  <2> QED BY <2>2, <2>3 DEF VerdictFits
<1>4. CASE AppPass
  <2>1. verdict' = [oauth |-> "inSync", saml |-> "inSync", app |-> AppVerdict] BY <1>4 DEF AppPass
  <2>2. verdict'["app"] = AppVerdict /\ verdict'["oauth"] = "inSync" /\ verdict'["saml"] = "inSync"
    BY <2>1
  <2>3. spec' = spec /\ ospec' = ospec /\ meta' = meta /\ oapp' = oapp /\ sps' = sps
    BY <1>4 DEF AppPass, wanted
  <2>4. OAuthServed'
    BY <1>4, <2>3 DEF AppPass, OAuthServed, OAuthVerdict
  <2>5. SamlServed'
    BY <1>4, <2>3 DEF AppPass, SamlServed, SamlVerdict, FetchesMetadata
  <2>6. AppVerdict = "inSync" => AppVerdict' = "inSync"
    <3>1. AppVerdict = "inSync" => app' = app BY <1>4 DEF AppPass
    <3> QED BY <2>3, <3>1 DEF AppVerdict
  <2>7. AppVerdict = "updated" => app' = StoredApp(BuildUpdate(Desired(spec'), keys'))
    BY <1>4, <2>3 DEF AppPass
  <2> QED BY <2>2, <2>4, <2>5, <2>6, <2>7 DEF VerdictFits
<1>5. CASE UNCHANGED vars
  BY <1>5 DEF vars, wanted, records, VerdictFits, AppVerdict, OAuthServed, OAuthVerdict,
     SamlServed, SamlVerdict, FetchesMetadata
<1> QED
  BY <1>1, <1>2, <1>3, <1>4, <1>5
  DEF Next, EditSpec, PublishMetadata, DropSecret, DriftApp, DriftOAuth

\* The verdicts are true of the records, in every state.
LEMMA FitsInvariant == Spec => [](ExTypeOK /\ VerdictFits)
<1>1. Init => VerdictFits
  <2> SUFFICES ASSUME Init PROVE VerdictFits
    OBVIOUS
  <2>1. verdict["app"] = "open" /\ verdict["oauth"] = "open" /\ verdict["saml"] = "open"
    BY DEF Init, Open, Parts
  <2> QED BY <2>1 DEF VerdictFits
<1> QED BY <1>1, TypeInit, TypeStep, FitsStep, PTL DEF Spec

------------------------------------------------------------------------------
(* In sync *)

\* A record with the fields of an ApplicationConfig; the application a is read as
\* the one that d describes.
IsConfig(d) == d = [rest |-> d.rest, claims |-> d.claims, steps |-> d.steps, script |-> d.script,
                    subject |-> d.subject, attribute |-> d.attribute,
                    sendIdps |-> d.sendIdps, inbound |-> d.inbound]
ReadsAs(a, d) ==
    /\ a.rest = d.rest /\ ToSet(a.claims) = ToSet(d.claims) /\ a.script = d.script
    /\ [i \in DOMAIN a.steps |-> MapStep(a.steps[i])] = d.steps
    /\ MarkedStep(a.steps, "subject") = d.subject
    /\ MarkedStep(a.steps, "attribute") = d.attribute
    /\ a.inbound = d.inbound /\ d.sendIdps = FALSE

\* mapGetApplication and appHasChanged, field by field.
LEMMA MappedIs ==
  ASSUME NEW a, NEW d, IsConfig(d)
  PROVE  Normalized(MapApplication(a)) = Normalized(d) <=> ReadsAs(a, d)
<1> DEFINE st == [i \in DOMAIN a.steps |-> MapStep(a.steps[i])]
           su == MarkedStep(a.steps, "subject")
           at == MarkedStep(a.steps, "attribute")
<1>1. MapApplication(a) = [rest |-> a.rest, claims |-> a.claims, script |-> a.script, steps |-> st,
                           subject |-> su, attribute |-> at, inbound |-> a.inbound, sendIdps |-> FALSE]
  BY DEF MapApplication
<1> HIDE DEF st, su, at
<1> DEFINE x == Normalized(MapApplication(a))
           y == Normalized(d)
<1>2. x = [rest |-> a.rest, claims |-> ToSet(a.claims), script |-> a.script, steps |-> st,
           subject |-> su, attribute |-> at, inbound |-> a.inbound, sendIdps |-> FALSE]
  <2> DEFINE m == MapApplication(a)
             c == ToSet(a.claims)
  <2>1. m.claims = a.claims BY <1>1
  <2>2. Normalized(m) = [m EXCEPT !.claims = c] BY <2>1 DEF Normalized
  <2>a. m = [rest |-> a.rest, claims |-> a.claims, script |-> a.script, steps |-> st,
             subject |-> su, attribute |-> at, inbound |-> a.inbound, sendIdps |-> FALSE]
    BY <1>1
  <2> HIDE DEF c, m
  <2>3. Normalized(m) = [rest |-> a.rest, claims |-> c, script |-> a.script, steps |-> st,
                         subject |-> su, attribute |-> at, inbound |-> a.inbound, sendIdps |-> FALSE]
    BY <2>a, <2>2
  <2> QED BY <2>3 DEF c, m
<1>3. y = [rest |-> d.rest, claims |-> ToSet(d.claims), steps |-> d.steps, script |-> d.script,
           subject |-> d.subject, attribute |-> d.attribute, sendIdps |-> d.sendIdps,
           inbound |-> d.inbound]
  BY DEF Normalized, IsConfig
<1> HIDE DEF x, y
<1>5. /\ x.rest = a.rest /\ x.claims = ToSet(a.claims) /\ x.script = a.script /\ x.steps = st
      /\ x.subject = su /\ x.attribute = at /\ x.inbound = a.inbound /\ x.sendIdps = FALSE
  BY <1>2
<1>6. /\ y.rest = d.rest /\ y.claims = ToSet(d.claims) /\ y.script = d.script /\ y.steps = d.steps
      /\ y.subject = d.subject /\ y.attribute = d.attribute /\ y.inbound = d.inbound
      /\ y.sendIdps = d.sendIdps
  BY <1>3
<1> DEFINE Same == /\ a.rest = d.rest /\ ToSet(a.claims) = ToSet(d.claims) /\ a.script = d.script
                   /\ st = d.steps /\ su = d.subject /\ at = d.attribute
                   /\ a.inbound = d.inbound /\ d.sendIdps = FALSE
<1>7. x = y => Same
  BY <1>5, <1>6
<1>8. Same => x = y
  BY <1>2, <1>3
<1> QED BY <1>7, <1>8 DEF ReadsAs, x, y, st, su, at

\* mapAuthenticationSteps: the number that it takes from the marks is that of a
\* marked step, or 0 when there is none.
LEMMA MarkedRuleOfSteps ==
  ASSUME NEW steps \in Seq(StepEntry), steps # <<>>, NEW flag
  PROVE  Marks(steps, flag, MarkedStep(steps, flag))
<1> DEFINE I == {i \in 1..Len(steps) : steps[i][flag]}
<1> HIDE DEF StepEntry
<1>1. Len(steps) \in Nat /\ DOMAIN steps = 1..Len(steps)
  BY Positions
<1>2. I \subseteq 1..Len(steps)
  OBVIOUS
<1>3. SelectLastInSeq(steps, LAMBDA r : r[flag]) = IF I # {} THEN Max(I) ELSE 0
  BY DEF SelectLastInSeq
<1>4. I = {i \in DOMAIN steps : steps[i][flag]}
  BY <1>1
<1>5. \A i : i \in I <=> i \in DOMAIN steps /\ steps[i][flag]
  BY <1>4
<1> HIDE DEF I
<1>6. CASE I = {}
  <2>1. SelectLastInSeq(steps, LAMBDA r : r[flag]) = 0
    BY <1>3, <1>6
  <2>2. MarkedStep(steps, flag) = 0 BY <2>1 DEF MarkedStep
  <2> QED BY <1>4, <1>6, <2>2 DEF Marks
<1>7. CASE I # {}
  <2>1. PICK last \in I : last = Max(I) BY <1>1, <1>2, <1>7, MaxOf
  <2>2. SelectLastInSeq(steps, LAMBDA r : r[flag]) = last
    BY <1>3, <1>7, <2>1
  <2>3. last # 0 BY <1>1, <1>2, <2>1
  <2>4. MarkedStep(steps, flag) = steps[last].order BY <2>2, <2>3 DEF MarkedStep
  <2> QED BY <1>4, <1>5, <1>7, <2>1, <2>4 DEF Marks
<1> QED BY <1>6, <1>7

\* A list that is not empty has a first element.
LEMMA FirstOf ==
  ASSUME NEW S, NEW s \in Seq(S), s # <<>>
  PROVE  s[1] \in S /\ 1 \in DOMAIN s
  OBVIOUS

\* mapFederatedIDP: a step that is read back as s is what s asks for. An
\* authenticator that the server names is not empty, which is why none is read as
\* none only.
LEMMA StepMeantRule ==
  ASSUME NEW r \in StepEntry, r.idps # <<>> => r.idps[1].auths # <<>>, NEW s, s = MapStep(r)
  PROVE  StepMeant(s, r)
<1>1. /\ s.step = r.order /\ s.local = r.local
      /\ s.idp = IF r.idps = <<>> THEN "" ELSE r.idps[1].name
      /\ s.auth = IF r.idps = <<>> THEN "" ELSE r.idps[1].auths[1]
  BY DEF MapStep
<1>2. CASE r.idps = <<>>
  BY <1>1, <1>2 DEF StepMeant
<1>3. CASE r.idps # <<>>
  <2>1. r.idps \in Seq(Provider) BY DEF StepEntry
  <2>2. r.idps[1] \in Provider
    <3> HIDE DEF Provider
    <3> QED BY <1>3, <2>1
  <2>3. r.idps[1].auths \in Seq(STRING \ {""}) /\ r.idps[1].auths # <<>> BY <1>3, <2>2 DEF Provider
  <2>4. r.idps[1].auths[1] \in STRING \ {""} BY <2>3, FirstOf
  <2> QED BY <1>1, <1>3, <2>4 DEF StepMeant
<1> QED BY <1>2, <1>3

\* appHasChanged misses nothing but the flag on authenticated IdPs.
LEMMA AppInSync ==
  ASSUME ExTypeOK, AppVerdict = "inSync"
  PROVE  AppMeant
<1> DEFINE d == Desired(spec)
<1>1. spec \in AppSpec /\ app \in AppRecord BY DEF ExTypeOK
<1>2. ~Unmappable(app) /\ Normalized(MapApplication(app)) = Normalized(d)
  BY DEF AppVerdict, AppHasChanged
<1>3. d = [rest |-> spec.rest, claims |-> spec.claims, steps |-> spec.steps,
           script |-> IF spec.steps = <<>> THEN "" ELSE spec.script,
           subject |-> spec.subject, attribute |-> spec.attribute,
           sendIdps |-> spec.sendIdps, inbound |-> spec.inbound \cap Protocols]
  BY <1>1, DesiredIs
<1>4. /\ d.rest = spec.rest /\ d.claims = spec.claims /\ d.steps = spec.steps
      /\ d.script = IF spec.steps = <<>> THEN "" ELSE spec.script
      /\ d.subject = spec.subject /\ d.attribute = spec.attribute
      /\ d.inbound = spec.inbound \cap Protocols
  <2> DEFINE script == IF spec.steps = <<>> THEN "" ELSE spec.script
             in == spec.inbound \cap Protocols
  <2>1. d = [rest |-> spec.rest, claims |-> spec.claims, steps |-> spec.steps, script |-> script,
             subject |-> spec.subject, attribute |-> spec.attribute,
             sendIdps |-> spec.sendIdps, inbound |-> in]
    BY <1>3
  <2> HIDE DEF script, in, d
  <2>2. /\ d.rest = spec.rest /\ d.claims = spec.claims /\ d.steps = spec.steps
        /\ d.script = script /\ d.subject = spec.subject /\ d.attribute = spec.attribute
        /\ d.inbound = in
    BY <2>1
  <2> QED BY <2>2 DEF script, in
<1>5. IsConfig(d)
  <2> HIDE DEF d
  <2> QED BY <1>3 DEF IsConfig
<1> HIDE DEF d
<1>a. ReadsAs(app, d)
  BY <1>2, <1>5, MappedIs
<1>6. /\ app.rest = d.rest /\ ToSet(app.claims) = ToSet(d.claims) /\ app.script = d.script
      /\ [i \in DOMAIN app.steps |-> MapStep(app.steps[i])] = d.steps
      /\ MarkedStep(app.steps, "subject") = d.subject
      /\ MarkedStep(app.steps, "attribute") = d.attribute
      /\ app.inbound = d.inbound
  BY <1>a DEF ReadsAs
<1>7. app.steps \in Seq(StepEntry) /\ spec.steps \in Seq(AuthStep)
  BY <1>1 DEF AppRecord, AppSpec
<1>8. DOMAIN app.steps = DOMAIN spec.steps /\ \A i \in DOMAIN app.steps : spec.steps[i] = MapStep(app.steps[i])
  BY <1>4, <1>6
<1>9. Len(app.steps) = Len(spec.steps)
  <2> HIDE DEF StepEntry, AuthStep
  <2>1. /\ DOMAIN app.steps = 1..Len(app.steps) /\ Len(app.steps) \in Nat
        /\ DOMAIN spec.steps = 1..Len(spec.steps) /\ Len(spec.steps) \in Nat
    BY <1>7, Positions
  <2> DEFINE m == Len(app.steps)
             n == Len(spec.steps)
  <2>2. m \in Nat /\ n \in Nat /\ 1..m = 1..n BY <1>8, <2>1
  <2> HIDE DEF m, n
  <2>3. m = n BY <2>2
  <2> QED BY <2>3 DEF m, n
<1>10. ASSUME NEW i \in DOMAIN app.steps PROVE StepMeant(spec.steps[i], app.steps[i])
  <2>1. app.steps[i] \in StepEntry
    <3> HIDE DEF StepEntry
    <3> QED BY <1>7
  <2>2. app.steps[i].idps # <<>> => app.steps[i].idps[1].auths # <<>>
    BY <1>2 DEF Unmappable
  <2> QED BY <1>8, <2>1, <2>2, StepMeantRule
<1>11. ASSUME app.steps # <<>>
       PROVE  /\ Marks(app.steps, "subject", spec.subject)
              /\ Marks(app.steps, "attribute", spec.attribute)
  <2>1. \A flag : Marks(app.steps, flag, MarkedStep(app.steps, flag))
    BY <1>7, <1>11, MarkedRuleOfSteps
  <2> QED BY <1>4, <1>6, <2>1
<1> QED BY <1>4, <1>6, <1>9, <1>10, <1>11 DEF AppMeant

\* oauth2HasChanged misses nothing of a section, but for validators that mapper.go
\* does not know.
LEMMA OAuthInSync ==
  ASSUME ExTypeOK, OAuthVerdict = "inSync"
  PROVE  OAuthMeant
<1> DEFINE d == DesiredOAuth(ospec)
           x == MapOAuth(oapp)
           g == [i \in DOMAIN oapp.grants |-> <<oapp.grants[i]>>]
<1>1. oapp # None /\ x = d
  BY DEF OAuthVerdict, OAuth2HasChanged
<1>2. oapp \in OAuthRecord /\ ospec \in OAuthSpec
  BY <1>1, ExchangeAssumption DEF ExTypeOK
<1>3. /\ d.rest = ospec.rest /\ d.grants = ospec.grants /\ d.public = ospec.public
      /\ d.binding = IF ospec.binding \in DOMAIN BindingNames THEN ospec.binding ELSE ""
      /\ d.validators = FoldLeft(KeepKnown, <<>>, ospec.validators)
  BY <1>2, DesiredOAuthIs
<1>4. /\ x.rest = oapp.rest /\ x.public = oapp.public /\ x.grants = g
      /\ x.binding = Decoded(BindingNames, oapp.binding)
      /\ x.validators = FoldLeft(TakeDecoded, <<>>, oapp.validators)
  <2> DEFINE v == FoldLeft(TakeDecoded, <<>>, oapp.validators)
             b == Decoded(BindingNames, oapp.binding)
  <2>1. x = [rest |-> oapp.rest, public |-> oapp.public, grants |-> g, binding |-> b, validators |-> v]
    BY DEF MapOAuth
  <2> HIDE DEF v, b, g, x
  <2>2. x.rest = oapp.rest /\ x.public = oapp.public /\ x.grants = g /\ x.binding = b /\ x.validators = v
    BY <2>1
  <2> QED BY <2>2 DEF v, b
<1> HIDE DEF x, d, g
<1>5. ASSUME NEW v \in ToSet(ospec.validators) \cap Known
      PROVE  ValidatorNames[v] \in ToSet(oapp.validators)
  <2>1. PICK out : /\ out = FoldLeft(KeepKnown, <<>>, ospec.validators)
                   /\ \A u \in ToSet(ospec.validators) \cap Known : u \in ToSet(out)
    <3>1. ospec.validators \in Seq(STRING) BY <1>2 DEF OAuthSpec
    <3> QED BY <3>1, FilterRule
  <2>2. PICK in : /\ in = FoldLeft(TakeDecoded, <<>>, oapp.validators)
                  /\ \A u \in ToSet(in) : ValidatorNames[u] \in ToSet(oapp.validators)
    <3>1. oapp.validators \in Seq(STRING) BY <1>2 DEF OAuthRecord
    <3> QED BY <3>1, DecodeRule
  <2>3. in = out BY <1>1, <1>3, <1>4, <2>1, <2>2
  <2> QED BY <1>5, <2>1, <2>2, <2>3
<1>6. ASSUME ospec.binding \in DOMAIN BindingNames PROVE oapp.binding = BindingNames[ospec.binding]
  <2>1. Decoded(BindingNames, oapp.binding) = ospec.binding BY <1>1, <1>3, <1>4, <1>6
  <2>2. ospec.binding # "" BY <1>6 DEF BindingNames
  <2> QED BY <2>1, <2>2 DEF Decoded
<1> QED BY <1>1, <1>3, <1>4, <1>5, <1>6 DEF OAuthMeant, Known, g

\* samlSPHasChanged compares the URLs.
LEMMA SamlInSync ==
  ASSUME ExTypeOK, SamlVerdict = "inSync"
  PROVE  SamlMeant
<1> DEFINE urls == [i \in DOMAIN meta.acs |-> meta.acs[i].url]
<1>1. sps[meta.entity] # None /\ ~SamlHasChanged(sps[meta.entity], SpConfig(meta))
  BY DEF SamlVerdict
<1>2. SpConfig(meta).acs = urls
  BY DEF SpConfig
<1> HIDE DEF urls
<1>3. sps[meta.entity].acs = urls
  BY <1>1, <1>2 DEF SamlHasChanged
<1> QED BY <1>1, <1>3 DEF SamlMeant, urls

\* A pass that finds nothing to do is right about it (InSyncMeansWanted), for specs
\* with any number of claims, steps, grant types and validators, and whatever
\* others left on the server.
THEOREM InSyncIsWanted == Spec => []InSyncMeansWanted
<1>1. ExTypeOK /\ VerdictFits => InSyncMeansWanted
  <2> SUFFICES ASSUME ExTypeOK, VerdictFits PROVE InSyncMeansWanted
    OBVIOUS
  <2>1. verdict["app"] = "inSync" => AppMeant BY AppInSync DEF VerdictFits
  <2>2. verdict["oauth"] = "inSync" /\ "oauth2" \in spec.inbound => OAuthMeant
    BY OAuthInSync DEF VerdictFits, OAuthServed
  <2>3. verdict["saml"] = "inSync" /\ FetchesMetadata => SamlMeant
    BY SamlInSync DEF VerdictFits, SamlServed
  <2> QED BY <2>1, <2>2, <2>3 DEF InSyncMeansWanted
<1> QED BY <1>1, FitsInvariant, PTL

------------------------------------------------------------------------------
(* Settling *)

\* What mapGetApplication reads back of a step that buildAuthenticationSteps wrote.
LEMMA BuiltStep ==
  ASSUME NEW c \in AuthStep, NEW d
  PROVE  LET r == BuildStep(c, d)
         IN  /\ r.order = c.step
             /\ r.subject = (d.subject = c.step) /\ r.attribute = (d.attribute = c.step)
             /\ r.idps # <<>> /\ r.idps[1].auths = <<>> <=> c.idp # "" /\ c.auth = ""
             /\ ~(c.idp # "" /\ c.auth = "") => MapStep(r) = c
<1> DEFINE r == BuildStep(c, d)
           ps == BuildIdps(c)
           su == d.subject = c.step
           at == d.attribute = c.step
<1>1. r = [order |-> c.step, local |-> c.local, idps |-> ps, subject |-> su, attribute |-> at]
  BY DEF BuildStep
<1>2. ps = IF c.idp = "" /\ c.auth = "" THEN <<>>
           ELSE <<[name |-> c.idp, auths |-> IF c.auth = "" THEN <<>> ELSE <<c.auth>>]>>
  BY DEF BuildIdps
<1> HIDE DEF ps, su, at, r
<1>3. r.order = c.step /\ r.local = c.local /\ r.idps = ps /\ r.subject = su /\ r.attribute = at
  BY <1>1
<1>4. CASE c.idp = "" /\ c.auth = ""
  <2>1. r.idps = <<>> BY <1>2, <1>3, <1>4
  <2>2. MapStep(r) = [step |-> c.step, local |-> c.local, idp |-> "", auth |-> ""]
    BY <1>3, <2>1 DEF MapStep
  <2>3. MapStep(r) = c BY <1>4, <2>2 DEF AuthStep
  <2> QED BY <1>3, <1>4, <2>1, <2>3 DEF r, su, at
<1>5. CASE ~(c.idp = "" /\ c.auth = "")
  <2> DEFINE auths == IF c.auth = "" THEN <<>> ELSE <<c.auth>>
  <2>1. ps = <<[name |-> c.idp, auths |-> auths]>> BY <1>2, <1>5
  <2> HIDE DEF auths
  <2>2. r.idps # <<>> /\ r.idps[1].name = c.idp /\ r.idps[1].auths = auths
    BY <1>3, <2>1
  <2>3. CASE c.auth = ""
    <3>1. auths = <<>> BY <2>3 DEF auths
    <3>2. c.idp # "" BY <1>5, <2>3
    <3> QED BY <1>3, <2>2, <2>3, <3>1, <3>2 DEF r, su, at
  <2>4. CASE c.auth # ""
    <3>1. auths # <<>> /\ auths[1] = c.auth BY <2>4 DEF auths
    <3>2. MapStep(r) = [step |-> c.step, local |-> c.local, idp |-> c.idp, auth |-> c.auth]
      BY <1>3, <2>2, <3>1 DEF MapStep
    <3>3. MapStep(r) = c BY <3>2 DEF AuthStep
    <3> QED BY <1>3, <2>2, <2>4, <3>1, <3>3 DEF r, su, at
  <2> QED BY <2>3, <2>4
<1> QED BY <1>4, <1>5

\* The steps with the number n are those that are marked.
MarkedFor(steps, flag, n) == \A i \in DOMAIN steps : steps[i][flag] = (n = steps[i].order)

\* Steps that are marked for their number give that number back if it is that
\* of a step, 0, or 1 when there are no steps.
LEMMA MarkedBuilt ==
  ASSUME NEW steps \in Seq(StepEntry), NEW flag, NEW n, MarkedFor(steps, flag, n)
  PROVE  MarkedStep(steps, flag) = n <=>
            n \in IF steps = <<>> THEN {1} ELSE {0} \cup {steps[i].order : i \in DOMAIN steps}
<1>1. CASE steps = <<>>
  BY <1>1 DEF MarkedStep
<1>2. CASE steps # <<>>
  <2> DEFINE k == MarkedStep(steps, flag)
             marked == {i \in DOMAIN steps : steps[i][flag]}
  <2>1. IF marked = {} THEN k = 0 ELSE \E i \in marked : steps[i].order = k
    BY <1>2, MarkedRuleOfSteps DEF Marks
  <2>2. \A i \in DOMAIN steps : i \in marked <=> n = steps[i].order
    BY DEF MarkedFor
  <2>3. marked \subseteq DOMAIN steps
    OBVIOUS
  <2> HIDE DEF k, marked
  <2>4. k = n <=> n = 0 \/ \E i \in DOMAIN steps : steps[i].order = n
    BY <2>1, <2>2, <2>3
  <2> QED BY <1>2, <2>4 DEF k
<1> QED BY <1>1, <1>2

\* An identity provider without authenticator is among the steps of a spec; the
\* numbers that a request can convey as those of the marked steps.
Bare(steps) == \E i \in DOMAIN steps : steps[i].idp # "" /\ steps[i].auth = ""
Numbers(steps) == IF steps = <<>> THEN {1} ELSE {0} \cup {steps[i].step : i \in DOMAIN steps}

\* What mapAuthenticationSteps finds in what buildAuthenticationSteps wrote.
ReadBack(steps, d, st) ==
    /\ (\E i \in DOMAIN st : st[i].idps # <<>> /\ st[i].idps[1].auths = <<>>) <=> Bare(steps)
    /\ ~Bare(steps) => [i \in DOMAIN st |-> MapStep(st[i])] = steps
    /\ MarkedStep(st, "subject") = d.subject <=> d.subject \in Numbers(steps)
    /\ MarkedStep(st, "attribute") = d.attribute <=> d.attribute \in Numbers(steps)
Built(steps, d) == [i \in DOMAIN steps |-> BuildStep(steps[i], d)]

\* mapAuthenticationSteps after buildAuthenticationSteps.
LEMMA BuiltSteps ==
  ASSUME NEW steps \in Seq(AuthStep), NEW d, NEW st \in Seq(StepEntry), st = Built(steps, d)
  PROVE  ReadBack(steps, d, st)
<1> HIDE DEF AuthStep, StepEntry
<1>1. DOMAIN st = DOMAIN steps /\ \A i \in DOMAIN steps : st[i] = BuildStep(steps[i], d)
  BY DEF Built
<1>2. \A i \in DOMAIN steps : steps[i] \in AuthStep
  OBVIOUS
<1>3. ASSUME NEW i \in DOMAIN steps
      PROVE  /\ st[i].order = steps[i].step
             /\ st[i].subject = (d.subject = steps[i].step)
             /\ st[i].attribute = (d.attribute = steps[i].step)
             /\ st[i].idps # <<>> /\ st[i].idps[1].auths = <<>> <=> steps[i].idp # "" /\ steps[i].auth = ""
             /\ ~(steps[i].idp # "" /\ steps[i].auth = "") => MapStep(st[i]) = steps[i]
  <2> DEFINE c == steps[i]
  <2>1. c \in AuthStep /\ st[i] = BuildStep(c, d) BY <1>1, <1>2
  <2> HIDE DEF c
  <2>2. LET r == BuildStep(c, d)
         IN  /\ r.order = c.step
             /\ r.subject = (d.subject = c.step) /\ r.attribute = (d.attribute = c.step)
             /\ r.idps # <<>> /\ r.idps[1].auths = <<>> <=> c.idp # "" /\ c.auth = ""
             /\ ~(c.idp # "" /\ c.auth = "") => MapStep(r) = c
    BY <2>1, BuiltStep
  <2> DEFINE r == BuildStep(c, d)
  <2>3. st[i] = r BY <2>1
  <2>4. /\ r.order = c.step
        /\ r.subject = (d.subject = c.step) /\ r.attribute = (d.attribute = c.step)
        /\ r.idps # <<>> /\ r.idps[1].auths = <<>> <=> c.idp # "" /\ c.auth = ""
        /\ ~(c.idp # "" /\ c.auth = "") => MapStep(r) = c
    BY <2>2
  <2> HIDE DEF r
  <2> QED BY <2>3, <2>4, Zenon DEF c
<1>4. (\E i \in DOMAIN st : st[i].idps # <<>> /\ st[i].idps[1].auths = <<>>) <=> Bare(steps)
  BY <1>1, <1>3, Zenon DEF Bare
<1>5. ASSUME ~Bare(steps) PROVE [i \in DOMAIN st |-> MapStep(st[i])] = steps
  <2>1. ASSUME NEW i \in DOMAIN steps PROVE MapStep(st[i]) = steps[i]
    BY <1>3, <1>5, Zenon DEF Bare
  <2>2. steps = [i \in DOMAIN steps |-> steps[i]]
    OBVIOUS
  <2> QED BY <1>1, <2>1, <2>2, Zenon
<1>6. (IF st = <<>> THEN {1} ELSE {0} \cup {st[i].order : i \in DOMAIN st}) = Numbers(steps)
  <2>1. {st[i].order : i \in DOMAIN st} = {steps[i].step : i \in DOMAIN steps}
    <3>1. \A i \in DOMAIN steps : st[i].order = steps[i].step BY <1>3, Zenon
    <3> QED BY <1>1, <3>1, Zenon
  <2>2. st = <<>> <=> steps = <<>>
    <3>1. DOMAIN st = {} <=> st = <<>> OBVIOUS
    <3>2. DOMAIN steps = {} <=> steps = <<>> OBVIOUS
    <3> QED BY <1>1, <3>1, <3>2
  <2> QED BY <2>1, <2>2, Zenon DEF Numbers
<1>7. MarkedStep(st, "subject") = d.subject <=> d.subject \in Numbers(steps)
  <2>1. ASSUME NEW i \in DOMAIN st PROVE st[i]["subject"] = (d.subject = st[i].order)
    <3>1. st[i].order = steps[i].step /\ st[i].subject = (d.subject = steps[i].step)
      BY <1>1, <1>3, Zenon
    <3> QED BY <3>1, Zenon
  <2>2. MarkedFor(st, "subject", d.subject) BY <2>1 DEF MarkedFor
  <2>3. MarkedStep(st, "subject") = d.subject <=>
            d.subject \in IF st = <<>> THEN {1} ELSE {0} \cup {st[i].order : i \in DOMAIN st}
    BY <2>2, MarkedBuilt
  <2> QED BY <1>6, <2>3
<1>8. MarkedStep(st, "attribute") = d.attribute <=> d.attribute \in Numbers(steps)
  <2>1. ASSUME NEW i \in DOMAIN st PROVE st[i]["attribute"] = (d.attribute = st[i].order)
    <3>1. st[i].order = steps[i].step /\ st[i].attribute = (d.attribute = steps[i].step)
      BY <1>1, <1>3, Zenon
    <3> QED BY <3>1, Zenon
  <2>2. MarkedFor(st, "attribute", d.attribute) BY <2>1 DEF MarkedFor
  <2>3. MarkedStep(st, "attribute") = d.attribute <=>
            d.attribute \in IF st = <<>> THEN {1} ELSE {0} \cup {st[i].order : i \in DOMAIN st}
    BY <2>2, MarkedBuilt
  <2> QED BY <1>6, <2>3
<1> QED BY <1>4, <1>5, <1>7, <1>8 DEF ReadBack

\* After an update, the application is in sync exactly when the request could
\* convey the spec.
LEMMA AppSettles ==
  ASSUME ExTypeOK, app = StoredApp(BuildUpdate(Desired(spec), keys))
  PROVE  AppVerdict = "inSync" <=> AppConveyed
<1> DEFINE d == Desired(spec)
           script == IF spec.steps = <<>> THEN "" ELSE spec.script
           in == spec.inbound \cap Protocols
           kept == {p \in Protocols : p \in spec.inbound \cap keys \/ KeepsBlank}
           st == [i \in DOMAIN spec.steps |-> BuildStep(spec.steps[i], d)]
<1>1. spec \in AppSpec /\ app \in AppRecord /\ spec.steps \in Seq(AuthStep) /\ spec.sendIdps \in BOOLEAN
  BY DEF ExTypeOK, AppSpec
<1>2. d = [rest |-> spec.rest, claims |-> spec.claims, steps |-> spec.steps, script |-> script,
           subject |-> spec.subject, attribute |-> spec.attribute,
           sendIdps |-> spec.sendIdps, inbound |-> in]
  BY <1>1, DesiredIs
<1>3. app = [rest |-> spec.rest, claims |-> spec.claims, script |-> script, steps |-> st,
             inbound |-> kept, sendIdps |-> spec.sendIdps]
  BY <1>1, StoredIs
<1> HIDE DEF script, in, kept, st, d
<1>4. /\ d.rest = spec.rest /\ d.claims = spec.claims /\ d.steps = spec.steps
      /\ d.script = script /\ d.subject = spec.subject /\ d.attribute = spec.attribute
      /\ d.inbound = in /\ d.sendIdps = spec.sendIdps
  BY <1>2
<1>5. IsConfig(d)
  BY <1>2 DEF IsConfig
<1>6. /\ app.rest = spec.rest /\ app.claims = spec.claims /\ app.script = script
      /\ app.steps = st /\ app.inbound = kept
  BY <1>3
<1>7. st = Built(spec.steps, d)
  BY DEF st, Built
<1>8. st \in Seq(StepEntry) BY <1>1, <1>6 DEF AppRecord
<1>9. /\ (\E i \in DOMAIN st : st[i].idps # <<>> /\ st[i].idps[1].auths = <<>>) <=> Bare(spec.steps)
      /\ ~Bare(spec.steps) => [i \in DOMAIN st |-> MapStep(st[i])] = spec.steps
      /\ MarkedStep(st, "subject") = d.subject <=> d.subject \in Numbers(spec.steps)
      /\ MarkedStep(st, "attribute") = d.attribute <=> d.attribute \in Numbers(spec.steps)
  <2>1. ReadBack(spec.steps, d, st)
    BY <1>1, <1>7, <1>8, BuiltSteps
  <2> QED BY <2>1 DEF ReadBack
<1>10. Unmappable(app) <=> Bare(spec.steps)
  BY <1>6, <1>9 DEF Unmappable
<1>15. kept = in <=> IF KeepsBlank THEN Protocols \subseteq spec.inbound
                     ELSE spec.inbound \cap Protocols \subseteq keys
  BY DEF kept, in
<1>16. AppVerdict = "inSync" <=> ~Unmappable(app) /\ Normalized(MapApplication(app)) = Normalized(d)
  BY DEF AppVerdict, AppHasChanged, d
<1>17. Normalized(MapApplication(app)) = Normalized(d) <=>
           /\ app.rest = d.rest /\ ToSet(app.claims) = ToSet(d.claims) /\ app.script = d.script
           /\ [i \in DOMAIN app.steps |-> MapStep(app.steps[i])] = d.steps
           /\ MarkedStep(app.steps, "subject") = d.subject
           /\ MarkedStep(app.steps, "attribute") = d.attribute
           /\ app.inbound = d.inbound /\ d.sendIdps = FALSE
  <2>1. Normalized(MapApplication(app)) = Normalized(d) <=> ReadsAs(app, d)
    BY <1>5, MappedIs
  <2> QED BY <2>1, Zenon DEF ReadsAs
<1>18. AppVerdict = "inSync" <=>
           /\ ~Bare(spec.steps) /\ spec.subject \in Numbers(spec.steps) /\ spec.attribute \in Numbers(spec.steps)
           /\ kept = in /\ spec.sendIdps = FALSE
  BY <1>4, <1>6, <1>9, <1>10, <1>16, <1>17
<1>19. AppConveyed <=>
           /\ ~Bare(spec.steps) /\ spec.subject \in Numbers(spec.steps) /\ spec.attribute \in Numbers(spec.steps)
           /\ kept = in /\ spec.sendIdps = FALSE
  <2>1. {s.step : s \in ToSet(spec.steps)} = {spec.steps[i].step : i \in DOMAIN spec.steps}
    BY DEF ToSet
  <2>2. (\A s \in ToSet(spec.steps) : s.idp # "" => s.auth # "") <=> ~Bare(spec.steps)
    BY DEF ToSet, Bare
  <2>3. (\A n \in {spec.subject, spec.attribute} :
             n \in (IF spec.steps = <<>> THEN {1} ELSE {0} \cup {s.step : s \in ToSet(spec.steps)}))
        <=> spec.subject \in Numbers(spec.steps) /\ spec.attribute \in Numbers(spec.steps)
    BY <2>1 DEF Numbers
  <2> QED BY <1>1, <1>15, <2>2, <2>3 DEF AppConveyed
<1> QED BY <1>18, <1>19

\* Every grant type is one word.
OneWordEach(g) == g # <<>> /\ \A i \in DOMAIN g : Len(g[i]) = 1

\* mapGetOAuthApplication splits the text of the grant types into those that it
\* was made of exactly when each of them is one word.
LEMMA JoinSplit ==
  ASSUME NEW g \in Seq(Text)
  PROVE  [i \in DOMAIN Joined(g) |-> <<Joined(g)[i]>>] = g <=> OneWordEach(g)
<1> DEFINE j == Joined(g)
           split == [i \in DOMAIN j |-> <<j[i]>>]
<1>1. j \in Text
  BY JoinedType
<1>2. j \in Seq(STRING) /\ j # <<>>
  BY <1>1 DEF Text
<1>3. ASSUME split = g PROVE OneWordEach(g)
  <2> HIDE DEF j
  <2>1. 1 \in DOMAIN j BY <1>2, FirstOf
  <2>2. 1 \in DOMAIN g BY <1>3, <2>1
  <2>3. g # <<>> BY <2>2
  <2>4. ASSUME NEW i \in DOMAIN g PROVE Len(g[i]) = 1
    <3>1. g[i] = <<j[i]>> BY <1>3, <2>4
    <3> QED BY <3>1
  <2> QED BY <2>3, <2>4 DEF OneWordEach
<1>4. ASSUME OneWordEach(g) PROVE split = g
  <2>1. DOMAIN g = 1..Len(g) /\ Len(g) \in Nat /\ g = [i \in DOMAIN g |-> g[i]]
    <3> HIDE DEF Text
    <3> QED BY Positions
  <2>2. Len(g) # 0
    <3>1. 1 \in DOMAIN g
      <4> HIDE DEF Text
      <4> QED BY <1>4, FirstOf DEF OneWordEach
    <3> QED BY <2>1, <3>1
  <2>3. j = FlattenSeq(g) BY <1>4 DEF Joined, OneWordEach
  <2>4. g \in Seq(Seq(STRING) \ {<<>>}) BY DEF Text
  <2>5. /\ Len(j) = Len(g) /\ \A i \in 1..Len(g) : j[i] = g[i][1]
    <3>1. \A i \in 1..Len(g) : Len(g[i]) = 1 BY <1>4, <2>1 DEF OneWordEach
    <3> HIDE DEF j
    <3> QED BY <2>2, <2>3, <2>4, <3>1, Flattened
  <2> HIDE DEF j
  <2>6. DOMAIN j = DOMAIN g BY <1>2, <2>1, <2>5
  <2>7. ASSUME NEW i \in DOMAIN g PROVE <<j[i]>> = g[i]
    <3>1. g[i] \in Seq(STRING) /\ Len(g[i]) = 1
      <4>1. g[i] \in Seq(STRING) \ {<<>>} BY <2>4
      <4> QED BY <1>4, <4>1 DEF OneWordEach
    <3> DEFINE w == g[i]
    <3>2. w \in Seq(STRING) /\ Len(w) = 1 /\ j[i] = w[1] BY <2>1, <2>5, <3>1
    <3> HIDE DEF w
    <3>3. w = <<w[1]>> BY <3>2
    <3> QED BY <3>2, <3>3 DEF w
  <2> QED BY <2>1, <2>6, <2>7, Zenon
<1> QED BY <1>3, <1>4

\* filterTokenBindings leaves what is decoded to what it was.
LEMMA BindingBack ==
  ASSUME NEW b, b = "" \/ b \in DOMAIN BindingNames
  PROVE  Decoded(BindingNames, Encoded(BindingNames, b)) = b
<1>1. DOMAIN BindingNames = {"session", "cookie"}
  BY DEF BindingNames
<1>2. BindingNames.session = "sso-session" /\ BindingNames.cookie = "cookie"
  BY DEF BindingNames
<1>3. CASE b = ""
  <2>1. Encoded(BindingNames, b) = "" BY <1>1, <1>3 DEF Encoded
  <2>2. \A x \in DOMAIN BindingNames : BindingNames[x] # "" BY <1>1, <1>2
  <2> QED BY <1>3, <2>1, <2>2 DEF Decoded
<1>4. CASE b \in DOMAIN BindingNames
  <2>1. Encoded(BindingNames, b) = BindingNames[b] BY <1>4 DEF Encoded
  <2>2. \A x \in DOMAIN BindingNames : BindingNames[x] = BindingNames[b] => x = b
    <3>1. BindingNames["session"] # BindingNames["cookie"] BY <1>2
    <3> QED BY <1>1, <1>4, <3>1
  <2> QED BY <1>4, <2>1, <2>2 DEF Decoded
<1> QED BY <1>3, <1>4

\* After a creation or an update, the OAuth application is in sync exactly when
\* the request could convey the section.
LEMMA OAuthSettles ==
  ASSUME ExTypeOK, oapp = BuildOAuth(DesiredOAuth(ospec))
  PROVE  OAuthVerdict = "inSync" <=> OAuthConveyed
<1> DEFINE d == DesiredOAuth(ospec)
           x == MapOAuth(oapp)
           j == Joined(ospec.grants)
           g == [i \in DOMAIN j |-> <<j[i]>>]
           e == [i \in DOMAIN d.validators |-> Encoded(ValidatorNames, d.validators[i])]
           b == IF ospec.binding \in DOMAIN BindingNames THEN ospec.binding ELSE ""
           eb == Encoded(BindingNames, b)
<1>1. ospec \in OAuthSpec /\ ospec.grants \in Seq(Text) /\ ospec.public \in BOOLEAN
  BY ExchangeAssumption DEF ExTypeOK, OAuthSpec
<1>2. /\ d.rest = ospec.rest /\ d.grants = ospec.grants /\ d.public = ospec.public
      /\ d.binding = b /\ d.validators \in Seq(Known)
      /\ d = [rest |-> d.rest, grants |-> d.grants, public |-> d.public,
              binding |-> d.binding, validators |-> d.validators]
  BY <1>1, DesiredOAuthIs
<1>3. oapp # None
  BY <1>1, BuildOAuthType, NoneAssumption
<1> HIDE DEF d, j, b
<1>4. oapp = [rest |-> d.rest, grants |-> j, public |-> FALSE, binding |-> eb, validators |-> e]
  BY <1>2 DEF BuildOAuth, d, j
<1>5. FoldLeft(TakeDecoded, <<>>, e) = d.validators
  BY <1>2, EncodeDecode
<1>6. Decoded(BindingNames, eb) = b
  BY BindingBack DEF b
<1> HIDE DEF e, eb
<1>7. /\ oapp.rest = d.rest /\ oapp.grants = j /\ oapp.public = FALSE /\ oapp.binding = eb /\ oapp.validators = e
  BY <1>4
<1>8. x = [rest |-> d.rest, public |-> FALSE, grants |-> g, binding |-> b, validators |-> d.validators]
  BY <1>5, <1>6, <1>7 DEF MapOAuth
<1>9. g = ospec.grants <=> OneWordEach(ospec.grants)
  BY <1>1, JoinSplit DEF j
<1> HIDE DEF g, x
<1>10. x = d <=> ospec.public = FALSE /\ g = ospec.grants
  <2>1. x = d => ospec.public = FALSE /\ g = ospec.grants
    <3>1. x.public = FALSE /\ x.grants = g BY <1>8
    <3> QED BY <1>2, <3>1
  <2>2. ASSUME ospec.public = FALSE, g = ospec.grants PROVE x = d
    <3>1. d.public = FALSE /\ d.grants = g /\ d.binding = b BY <1>2, <2>2
    <3>2. d = [rest |-> d.rest, grants |-> g, public |-> FALSE, binding |-> b, validators |-> d.validators]
      BY <1>2, <3>1, Zenon
    <3> QED BY <1>8, <3>2
  <2> QED BY <2>1, <2>2
<1>11. OAuthVerdict = "inSync" <=> x = d
  BY <1>3 DEF OAuthVerdict, OAuth2HasChanged, x, d
<1>12. OAuthConveyed <=> ospec.public = FALSE /\ OneWordEach(ospec.grants)
  BY <1>1 DEF OAuthConveyed, OneWordEach, ToSet
<1> QED BY <1>9, <1>10, <1>11, <1>12

\* An update is the last one exactly when a request can convey the spec
\* (SettlesExactly): otherwise the next pass fails or updates again.
THEOREM UpdatesSettle == Spec => []SettlesExactly
<1>1. ExTypeOK /\ VerdictFits => SettlesExactly
  BY AppSettles, OAuthSettles DEF VerdictFits, SettlesExactly
<1> QED BY <1>1, FitsInvariant, PTL
==============================================================================
