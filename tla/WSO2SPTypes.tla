----------------------------- MODULE WSO2SPTypes -----------------------------
(***************************************************************************)
(* The data of the operator: WSO2SP objects and their status as the        *)
(* Kubernetes API keeps them, the records WSO2 Identity Server keeps, and  *)
(* the pure functions of the controller and of the client package that     *)
(* compare and convert them.                                               *)
(*                                                                         *)
(* Contents that the controller only compares (descriptions, claims,       *)
(* callback URLs, ...) are members of Bodies or AcsLists.  The numeric ID   *)
(* and the resource ID of an application always travel together, so one    *)
(* number stands for both; 0 is "not set".  An OAuth consumer key stands   *)
(* for the key and its secret.  A status message is kept as the step that  *)
(* wrote it (why): setPhase compares the new text with the old one, and    *)
(* two texts of one step may differ, those of different steps always do.   *)
(***************************************************************************)
EXTENDS Naturals

CONSTANTS
    SPs,         \* keys (namespace/name) of WSO2SP objects
    Names,       \* values of spec.name: application names on the server
    Issuers,     \* SAML entity IDs
    Bodies,      \* contents of a configuration
    AcsLists,    \* lists of assertion consumer URLs
    Bare,        \* the content of an application that was only just created
    None,        \* "nil"
    Specs,       \* the specs users write
    Skips,       \* the sets of components users annotate with "false"
    KeepsBlank   \* does the server keep an inbound entry whose key is ""

Components == {"app", "saml", "oauth"}
Phases     == {"", "Pending", "Failed", "Ready", "Paused"}
SamlModes  == {"off", "noURL", "on"}  \* no saml section; no metadataURL; both
InstStates == {"Missing", "NotReady", "Ready"}

\* The steps that write a status message.
Failures == {"oauthGet", "oauthCreate", "oauthUpdate", "samlGet", "samlCreate",
             "samlDelete", "samlReadd", "appGet", "script", "appCreate",
             "appUpdate", "adminGet", "adminJoin"}
Reasons  == Failures \cup {"", "instance", "created", "inSync"}

AppCfg   == [body : Bodies, sendIdps : BOOLEAN]
OAuthCfg == [body : Bodies, public : BOOLEAN, plain : BOOLEAN]
Metadata == [issuer : Issuers, acs : AcsLists]

SPSpec   == [name : Names, cfg : AppCfg, oauth : OAuthCfg \cup {None},
             saml : SamlModes, script : BOOLEAN]
Status   == [phase : Phases, why : Reasons, id : Nat, admin : BOOLEAN]
SPObject == [live : BOOLEAN, spec : SPSpec, skip : SUBSET Components,
             deleting : BOOLEAN, fin : BOOLEAN, st : Status]

App         == [id : Nat, cfg : AppCfg, oauth : BOOLEAN, okey : Nat,
                saml : BOOLEAN, issuer : Issuers \cup {None}, admin : BOOLEAN]
OAuthRecord == [key : Nat, cfg : OAuthCfg \cup {None}]
Secret      == [live : BOOLEAN, okey : Nat, issuer : Issuers \cup {None}]

ASSUME TypesAssumption ==
    /\ Bare \in Bodies
    /\ Specs \subseteq SPSpec /\ Specs # {}
    /\ Skips \subseteq SUBSET Components
    /\ None \notin SPs \cup Issuers \cup AcsLists \cup OAuthCfg \cup Metadata
    /\ KeepsBlank \in BOOLEAN

------------------------------------------------------------------------------
(* Objects of the Kubernetes API *)

NoStatus == [phase |-> "", why |-> "", id |-> 0, admin |-> FALSE]

NewSP(spec) == [live |-> TRUE, spec |-> spec, skip |-> {}, deleting |-> FALSE,
                fin |-> FALSE, st |-> NoStatus]

Gone == [NewSP(CHOOSE spec \in Specs : TRUE) EXCEPT !.live = FALSE]

NoSecret == [live |-> FALSE, okey |-> 0, issuer |-> None]

\* skipReconcile: the annotation of component c says "false".
SkipReconcile(c, o) == c \in o.skip

\* A field with omitempty whose value is zero is not sent, and the API server
\* puts its default in: pkcePlain = false comes back as true.
Defaulted(spec) ==
    IF spec.oauth = None THEN spec
    ELSE [spec EXCEPT !.oauth = [spec.oauth EXCEPT !.plain = TRUE]]

\* Update of an object with a status subresource: the status sent is ignored.
Updated(old, new) == [new EXCEPT !.spec = Defaulted(new.spec), !.st = old.st]

\* Status().Patch(MergeFrom(base)): only fields that differ from base are sent.
MutStatusPatch(server, base, new) ==
    [server EXCEPT !.phase = new.phase, !.why = new.why, !.admin = new.admin]
StatusPatch(server, base, new) ==
    [f \in DOMAIN server |-> IF base[f] # new[f] THEN new[f] ELSE server[f]]

------------------------------------------------------------------------------
(* Records of the identity server and what requests convey of them *)

BareCfg  == [body |-> Bare, sendIdps |-> FALSE]
NoApp    == [id |-> 0, cfg |-> BareCfg, oauth |-> FALSE, okey |-> 0,
             saml |-> FALSE, issuer |-> None, admin |-> FALSE]
NoOAuth  == [key |-> 0, cfg |-> None]

\* buildCreate/UpdateOAuthApplication never set bypassClientCredentials.
Sent(c) == [c EXCEPT !.public = FALSE]

\* mapGetApplication never reads alwaysSendBackAuthenticatedListOfIdPs.
ReadBack(c) == [c EXCEPT !.sendIdps = FALSE]

OAuth2HasChanged(existing, desired) == existing # desired

MutAppHasChanged(app, spec) ==
    \/ app.oauth # (spec.oauth # None)
    \/ app.saml # (spec.saml # "off")
AppHasChanged(app, spec) ==
    \/ ReadBack(app.cfg) # spec.cfg
    \/ app.oauth # (spec.oauth # None)
    \/ app.saml # (spec.saml # "off")

\* populateInboundSecrets: the keys the update carries, "" when the secret
\* was not found or has no such entry.
MutInboundKey(spec, sec) ==
    IF spec.oauth # None /\ sec.live THEN sec.okey ELSE None
InboundKey(spec, sec) ==
    IF spec.oauth # None /\ sec.live THEN sec.okey ELSE 0
InboundIssuer(spec, sec) ==
    IF spec.saml # "off" /\ sec.live THEN sec.issuer ELSE None

\* updateApplication as applied by the server: buildInboundAuthConfig always
\* sends an oauth2 and a samlsso entry, blank ones included.
Applied(app, spec, sec) ==
    LET k == InboundKey(spec, sec)
        i == InboundIssuer(spec, sec)
    IN  [app EXCEPT !.cfg = spec.cfg,
                    !.okey = k,   !.oauth = (k # 0 \/ KeepsBlank),
                    !.issuer = i, !.saml = (i # None \/ KeepsBlank)]
==============================================================================
