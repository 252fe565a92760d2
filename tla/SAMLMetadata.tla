----------------------------- MODULE SAMLMetadata -----------------------------
(***************************************************************************)
(* What saml.go makes of the SAML metadata of a service provider: the      *)
(* configuration that reconcileSAMLApplication registers.  An entity ID is *)
(* the sequence of its parts, the separators "://", ":", "/", "?" and "#"  *)
(* among them.  "" is an absent attribute.                                 *)
(***************************************************************************)
EXTENDS Integers, SequencesExt

\* Descriptions of metadata: acs, slo and keys are in document order.
AcsService  == [binding : {"post", "artifact"}, url : STRING, index : Int,
                default : BOOLEAN]
SloEndpoint == [binding : {"post", "redirect", "soap", "artifact"},
                at : STRING, answerAt : STRING]
KeyInfo     == [use : {"signing", "encryption", ""}, cert : STRING]
Descriptor  == [entity : Seq(STRING), acs : Seq(AcsService),
                slo : Seq(SloEndpoint), keys : Seq(KeyInfo)]

------------------------------------------------------------------------------

\* collectACSURLs: the address of the last service marked as default; if there
\* is none, or it is empty, that of the first service with the lowest index.
Mark(url, s) == IF s.default THEN s.url ELSE url

MutLower(low, s) == IF s.index <= low.index THEN s ELSE low
Lower(low, s) == IF s.index < low.index THEN s ELSE low

DefaultAcs(services) ==
    IF services = <<>> THEN ""
    ELSE LET marked == FoldLeft(Mark, "", services)
         IN  IF marked # "" THEN marked
             ELSE FoldLeft(Lower, services[1], services).url

NoSlo == [on |-> FALSE, front |-> "", request |-> "", answer |-> ""]

\* parseSLOEndpoints: front is the binding of the front channel, if any.
MutTakeSlo(slo, e) ==
    IF e.binding \in {"post", "redirect"} /\ slo.front # "post"
    THEN [slo EXCEPT !.front = e.binding, !.request = e.at,
                     !.answer = IF e.answerAt = "" THEN e.at ELSE e.answerAt]
    ELSE IF e.binding = "soap"
    THEN [slo EXCEPT !.request = e.at, !.answer = e.at]
    ELSE slo
TakeSlo(slo, e) ==
    IF e.binding = "post" \/ (e.binding = "redirect" /\ slo.front = "")
    THEN [slo EXCEPT !.front = e.binding, !.request = e.at,
                     !.answer = IF e.answerAt = "" THEN e.at ELSE e.answerAt]
    ELSE IF e.binding = "soap" /\ slo.request = ""
    THEN [slo EXCEPT !.request = e.at, !.answer = e.at]
    ELSE slo

ParseSlo(endpoints) ==
    FoldLeft(TakeSlo, [NoSlo EXCEPT !.on = (endpoints # <<>>)], endpoints)

\* The part of s that ends before position i, or s when there is none.
Before(s, i) == IF i = 0 THEN s ELSE SubSeq(s, 1, i - 1)

\* What ends the authority of a URL.
UrlEnds == {"/", "?", "#"}

\* deriveAlias: without scheme, path, query and fragment, up to the last colon.
MutDeriveAlias(cert, entity) ==
    LET start == SelectInSeq(entity, LAMBDA x : x = "://")
        rest  == SubSeq(entity, start + 1, Len(entity))
        host  == Before(rest, SelectInSeq(rest, LAMBDA x : x \in UrlEnds))
    IN  IF host = <<>> THEN <<cert>> ELSE host
DeriveAlias(cert, entity) ==
    LET start == SelectInSeq(entity, LAMBDA x : x = "://")
        rest  == SubSeq(entity, start + 1, Len(entity))
        path  == Before(rest, SelectInSeq(rest, LAMBDA x : x \in UrlEnds))
        host  == Before(path, SelectLastInSeq(path, LAMBDA x : x = ":"))
    IN  IF host = <<>> THEN <<cert>> ELSE host

\* An entity ID that is a URL: scheme, host, maybe a port, and whatever follows;
\* the properties of the alias are about these.
IsUrl(e) ==
    LET Ends(i) == i > Len(e) \/ e[i] \in UrlEnds
    IN  /\ Len(e) >= 3 /\ e[1] # "://" /\ e[2] = "://"
        /\ e[3] \notin UrlEnds \cup {":"}
        /\ \/ Ends(4)
           \/ e[4] = ":" /\ Len(e) >= 5 /\ e[5] \notin UrlEnds \cup {":"} /\ Ends(6)

NoKey == [cert |-> "", encrypt |-> FALSE]

\* The loop over the keys: one without certificate is skipped, one without use
\* serves both purposes, and the first certificate for signing stays.
MutTakeKey(c, k) ==
    IF k.cert = "" THEN c
    ELSE [c EXCEPT !.cert    = IF k.use # "encryption" THEN k.cert ELSE @,
                   !.encrypt = @ \/ k.use # "signing"]
TakeKey(c, k) ==
    IF k.cert = "" THEN c
    ELSE [c EXCEPT !.cert    = IF k.use # "encryption" /\ @ = "" THEN k.cert ELSE @,
                   !.encrypt = @ \/ k.use # "signing"]

ParseKeys(keys) == FoldLeft(TakeKey, NoKey, keys)

\* spConfigFromDescriptor; the certificate goes with an alias.
SpConfig(m) ==
    LET key == ParseKeys(m.keys)
    IN  [issuer   |-> m.entity,
         acs      |-> [i \in DOMAIN m.acs |-> m.acs[i].url],
         default  |-> DefaultAcs(m.acs),
         artifact |-> \E i \in DOMAIN m.acs : m.acs[i].binding = "artifact",
         slo      |-> ParseSlo(m.slo),
         cert     |-> key.cert,
         alias    |-> IF key.cert = "" THEN <<>> ELSE DeriveAlias(key.cert, m.entity),
         encrypt  |-> key.encrypt]

\* samlSPHasChanged looks at the issuer and the ACS URLs, in their order (and
\* at two flags of the spec).
SamlHasChanged(existing, desired) ==
    \/ existing.issuer # desired.issuer
    \/ existing.acs # desired.acs
==============================================================================
