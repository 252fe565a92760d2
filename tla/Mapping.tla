------------------------------- MODULE Mapping -------------------------------
(***************************************************************************)
(* Field by field, what the requests of builder.go convey of a spec and    *)
(* what mapper.go reads back of the answers, so that appHasChanged and     *)
(* oauth2HasChanged can be compared with what was wanted.  Fields that are *)
(* sent and read back as they are (descriptions, flags, callback URLs,     *)
(* audiences, expiries, ...) are one value, rest.                          *)
(***************************************************************************)
EXTENDS Integers, SequencesExt

CONSTANTS
    Rests,       \* contents that are conveyed as they are
    KeepsBlank,  \* does the server keep an inbound entry whose key is ""
    None

Protocols == {"oauth2", "samlsso"}

------------------------------------------------------------------------------
(* Specs *)

\* Claim URIs are numbers, because normalizeApplication sorts them; the URIs
\* of one spec differ.  "" is an absent name.
Claim    == [uri : Nat, mandatory : BOOLEAN]
AuthStep == [step : Int, local : Seq(STRING), idp : STRING, auth : STRING]

\* The WSO2SP spec; script is the content of the ConfigMap, inbound has the
\* protocols there is a section of, and whether that has a metadataURL.
AppSpec  == [rest : Rests, claims : Seq(Claim), steps : Seq(AuthStep),
             script : STRING, subject : Int, attribute : Int, sendIdps : BOOLEAN,
             inbound : SUBSET (Protocols \cup {"metadataURL"})]

\* A grant type is a sequence of words, because the request separates grant
\* types as it separates words; the empty text is one empty word.
Text      == Seq(STRING) \ {<<>>}
OAuthSpec == [rest : Rests, grants : Seq(Text), public : BOOLEAN,
              binding : STRING, validators : Seq(STRING)]

\* applicationFromSpec; an authentication script goes with steps only.
Desired(spec) == [spec EXCEPT !.script = IF spec.steps = <<>> THEN "" ELSE @,
                              !.inbound = @ \cap Protocols]

------------------------------------------------------------------------------
(* Applications *)

\* An application as the server keeps and returns it; authenticators have names.
Provider  == [name : STRING, auths : Seq(STRING \ {""})]
StepEntry == [order : Int, local : Seq(STRING), idps : Seq(Provider),
              subject : BOOLEAN, attribute : BOOLEAN]
AppRecord == [rest : Rests, claims : Seq(Claim), script : STRING,
              steps : Seq(StepEntry), inbound : SUBSET Protocols,
              sendIdps : BOOLEAN]

\* buildFederatedAuthenticators: an identity provider without authenticator
\* has an empty list of them.
BuildIdps(c) ==
    IF c.idp = "" /\ c.auth = "" THEN <<>>
    ELSE <<[name |-> c.idp, auths |-> IF c.auth = "" THEN <<>> ELSE <<c.auth>>]>>

BuildStep(c, d) ==
    [order |-> c.step, local |-> c.local, idps |-> BuildIdps(c),
     subject |-> d.subject = c.step, attribute |-> d.attribute = c.step]

\* buildInboundAuthConfig: both protocols always have an entry, whose key is
\* what populateInboundSecrets found.
BuildInbound(d, keys) == [p \in Protocols |-> p \in d.inbound \cap keys]

BuildUpdate(d, keys) ==
    [rest |-> d.rest, claims |-> d.claims, script |-> d.script,
     steps |-> [i \in DOMAIN d.steps |-> BuildStep(d.steps[i], d)],
     inbound |-> BuildInbound(d, keys), sendIdps |-> d.sendIdps]

\* The server keeps what it gets; an inbound entry without key is kept or not.
StoredApp(request) ==
    [request EXCEPT !.inbound = {p \in Protocols : @[p] \/ KeepsBlank}]

\* mapFederatedAuthenticator takes the first authenticator of the first
\* provider without looking whether there is one.
Unmappable(app) ==
    \E i \in DOMAIN app.steps :
        app.steps[i].idps # <<>> /\ app.steps[i].idps[1].auths = <<>>

\* mapFederatedIDP and mapFederatedAuthenticator.
MapStep(r) ==
    [step |-> r.order, local |-> r.local,
     idp  |-> IF r.idps = <<>> THEN "" ELSE r.idps[1].name,
     auth |-> IF r.idps = <<>> THEN "" ELSE r.idps[1].auths[1]]

\* mapAuthenticationSteps: the last marked step counts; none marked is 0, but
\* no steps at all are 1.
MarkedStep(steps, flag) ==
    IF steps = <<>> THEN 1
    ELSE LET last == SelectLastInSeq(steps, LAMBDA r : r[flag])
         IN  IF last = 0 THEN 0 ELSE steps[last].order

\* mapGetApplication; the flag on authenticated IdPs is not read.
MapApplication(app) ==
    [rest |-> app.rest, claims |-> app.claims, script |-> app.script,
     steps     |-> [i \in DOMAIN app.steps |-> MapStep(app.steps[i])],
     subject   |-> MarkedStep(app.steps, "subject"),
     attribute |-> MarkedStep(app.steps, "attribute"),
     inbound   |-> app.inbound, sendIdps |-> FALSE]

\* normalizeApplication sorts the claims: lists of different URIs are equal
\* when their claims are.
MutNormalized(a) == [a EXCEPT !.claims = {c.uri : c \in ToSet(@)}]
Normalized(a) == [a EXCEPT !.claims = ToSet(@)]

AppHasChanged(existing, desired) == Normalized(existing) # Normalized(desired)

------------------------------------------------------------------------------
(* OAuth applications *)

\* What soap.go calls XACMLValidator, RoleValidator, SessionBinding and
\* CookieBinding.
ValidatorNames == [xacml |-> "Role based scope validator",
                   role  |-> "XACML Scope Validator"]
BindingNames   == [session |-> "sso-session", cookie |-> "cookie"]

\* These names, and the empty one, are strings.
ASSUME NamesAssumption ==
    {"", ValidatorNames.xacml, ValidatorNames.role,
     BindingNames.session, BindingNames.cookie} \subseteq STRING

\* An OAuth application as the server keeps and returns it.
OAuthRecord == [rest : Rests, grants : Text, public : BOOLEAN,
                binding : STRING, validators : Seq(STRING)]

\* filterScopeValidators, filterTokenBindings.
KeepKnown(out, v) == IF v \in DOMAIN ValidatorNames THEN Append(out, v) ELSE out

DesiredOAuth(spec) ==
    [spec EXCEPT
        !.validators = FoldLeft(KeepKnown, <<>>, @),
        !.binding    = IF @ \in DOMAIN BindingNames THEN @ ELSE ""]

Encoded(names, x) == IF x \in DOMAIN names THEN names[x] ELSE ""
Decoded(names, y) ==
    IF \E x \in DOMAIN names : names[x] = y
    THEN CHOOSE x \in DOMAIN names : names[x] = y ELSE ""

\* The grant types as one text.
Joined(grants) == IF grants = <<>> THEN <<"">> ELSE FlattenSeq(grants)

\* buildCreateOAuthApplicaiton and buildUpdateOAuthApplication, which never set
\* BypassClientCredentials.
BuildOAuth(d) ==
    [rest |-> d.rest, grants |-> Joined(d.grants), public |-> FALSE,
     binding    |-> Encoded(BindingNames, d.binding),
     validators |-> [i \in DOMAIN d.validators |->
                        Encoded(ValidatorNames, d.validators[i])]]

\* mapScopeValidators leaves out what it does not know.
TakeDecoded(out, y) ==
    LET x == Decoded(ValidatorNames, y) IN IF x = "" THEN out ELSE Append(out, x)

\* mapGetOAuthApplication: every word is a grant type.
MapOAuth(o) ==
    [rest |-> o.rest, public |-> o.public,
     grants     |-> [i \in DOMAIN o.grants |-> <<o.grants[i]>>],
     binding    |-> Decoded(BindingNames, o.binding),
     validators |-> FoldLeft(TakeDecoded, <<>>, o.validators)]

OAuth2HasChanged(existing, desired) == existing # desired
==============================================================================
