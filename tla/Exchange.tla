------------------------------- MODULE Exchange -------------------------------
(***************************************************************************)
(* What the two sides make of each other's data: users write specs and     *)
(* publish SAML metadata, the identity server keeps records, others change *)
(* them, and each pass of the controller compares, and creates or updates. *)
(* Failed calls, caches and stale copies are the business of               *)
(* SPReconciler; here a pass is one step, up to where it returns.          *)
(***************************************************************************)
EXTENDS Mapping, SAMLMetadata

CONSTANTS
    AppSpecs,     \* the specs users write, without inbound sections
    OAuthSpecs,   \* ... their oauth2 sections
    Inbounds,     \* ... and the protocols they have a section of
    AppDrifts,    \* applications somebody may leave on the server
    OAuthDrifts,  \* ... and OAuth applications
    Descriptors,  \* the metadata documents there are
    MaxChanges    \* how often users and others change something

ASSUME ExchangeAssumption ==
    /\ AppSpecs # {} /\ OAuthSpecs # {} /\ Descriptors # {}
    /\ AppSpecs \subseteq AppSpec /\ \A s \in AppSpecs : s.inbound = {}
    /\ OAuthSpecs \subseteq OAuthSpec /\ Descriptors \subseteq Descriptor
    /\ AppDrifts \subseteq AppRecord /\ OAuthDrifts \subseteq OAuthRecord
    /\ Inbounds \subseteq SUBSET (Protocols \cup {"metadataURL"}) /\ {} \in Inbounds
    /\ MaxChanges \in Nat /\ KeepsBlank \in BOOLEAN

\* None is no record of the server.
ASSUME NoneAssumption ==
    /\ None \notin OAuthRecord
    /\ \A m \in Descriptors : None # SpConfig(m)

VARIABLES
    spec,     \* the spec, without the contents of ...
    ospec,    \* ... its oauth2 section
    meta,     \* the metadata document that metadataURL serves
    keys,     \* the protocols whose key is in the Secret
    app,      \* the application on the server
    oapp,     \* the OAuth application, or None
    sps,      \* the SAML service providers, by entity ID, or None
    verdict,  \* what the last pass found, unless something changed since
    changes   \* how many changes there were

wanted  == <<spec, ospec, meta>>
records == <<app, oapp, sps>>
vars    == <<wanted, keys, records, verdict, changes>>

Entities == {m.entity : m \in Descriptors}
Parts    == {"app", "oauth", "saml"}
Verdicts == {"open", "updated", "inSync", "failed", "panic"}

ExTypeOK ==
    /\ spec \in AppSpec /\ ospec \in OAuthSpec
    /\ meta \in Descriptor /\ meta.entity \in Entities
    /\ keys \subseteq Protocols
    /\ app \in AppRecord /\ oapp \in OAuthRecord \cup {None}
    /\ DOMAIN sps = Entities
    /\ \A e \in Entities : sps[e] # None => sps[e].issuer = e
    /\ verdict \in [Parts -> Verdicts] /\ changes \in 0..MaxChanges

\* buildCreateApplication sends a name and a description only; the rest is what
\* the server begins with.
MutCreatedApp(rest) ==
    [rest |-> rest, claims |-> <<>>, script |-> "", steps |-> <<>>,
     inbound |-> {"openid", "passivests"}, sendIdps |-> FALSE]
CreatedApp(rest) ==
    [rest |-> rest, claims |-> <<>>, script |-> "", steps |-> <<>>,
     inbound |-> {}, sendIdps |-> FALSE]

Open == [p \in Parts |-> "open"]

Init ==
    /\ spec \in AppSpecs
    /\ ospec = CHOOSE o \in OAuthSpecs : TRUE
    /\ meta = CHOOSE m \in Descriptors : TRUE
    /\ keys = {}
    /\ app \in {CreatedApp(rest) : rest \in Rests} /\ oapp = None
    /\ sps = [e \in Entities |-> None]
    /\ verdict = Open /\ changes = 0

------------------------------------------------------------------------------
(* Changes *)

Change ==
    /\ changes < MaxChanges /\ changes' = changes + 1
    /\ verdict' = Open

EditSpec ==
    /\ Change
    /\ \/ spec' \in AppSpecs /\ UNCHANGED ospec
       \/ \E i \in Inbounds, o \in OAuthSpecs :
             spec' = [spec EXCEPT !.inbound = i] /\ ospec' = o
    /\ UNCHANGED <<meta, keys, records>>

PublishMetadata ==
    /\ Change /\ meta' \in Descriptors
    /\ UNCHANGED <<spec, ospec, keys, records>>

\* Somebody deletes the Secret.
DropSecret == Change /\ keys' = {} /\ UNCHANGED <<wanted, records>>

\* The server gives the claims in another order, or somebody reconfigures the
\* application.
Reordered(a) == {[a EXCEPT !.claims = c] : c \in SetToSeqs(ToSet(a.claims))}

DriftApp ==
    /\ Change /\ app' \in AppDrifts \cup Reordered(app)
    /\ UNCHANGED <<wanted, keys, oapp, sps>>

DriftOAuth ==
    /\ Change /\ oapp' \in OAuthDrifts \cup {None}
    /\ UNCHANGED <<wanted, keys, app, sps>>

------------------------------------------------------------------------------
(* The pass, reconcileApplication, returns early unless a part is in sync *)

\* reconcileApplicationOAuth2: an OAuth application that is not there, or not
\* as wanted, is created or updated with the same request.
OAuthVerdict ==
    IF oapp = None \/ OAuth2HasChanged(MapOAuth(oapp), DesiredOAuth(ospec))
    THEN "updated" ELSE "inSync"

\* upsertApplicationSecret comes after the creation and before the update.
OAuthPass ==
    /\ "oauth2" \in spec.inbound
    /\ verdict' = [Open EXCEPT !["oauth"] = OAuthVerdict]
    /\ OAuthVerdict # "inSync"
    /\ keys' = IF oapp = None THEN keys ELSE keys \cup {"oauth2"}
    /\ oapp' = BuildOAuth(DesiredOAuth(ospec))
    /\ UNCHANGED <<wanted, app, sps, changes>>

OAuthServed == "oauth2" \in spec.inbound => OAuthVerdict = "inSync"
OAuthKey    == IF "oauth2" \in spec.inbound THEN {"oauth2"} ELSE {}

\* reconcileSAMLApplication: an update deletes an application with the name of
\* the issuer first, which fails when there is none.
SamlVerdict ==
    LET desired  == SpConfig(meta)
        existing == sps[meta.entity]
    IN  IF existing = None THEN "updated"
        ELSE IF SamlHasChanged(existing, desired) THEN "failed" ELSE "inSync"

FetchesMetadata == {"samlsso", "metadataURL"} \subseteq spec.inbound

SamlPass ==
    /\ OAuthServed /\ FetchesMetadata /\ SamlVerdict # "inSync"
    /\ verdict' = [Open EXCEPT !["saml"] = SamlVerdict]
    /\ keys' = keys \cup OAuthKey \cup
               (IF SamlVerdict = "failed" THEN {"samlsso"} ELSE {})
    /\ sps' = IF SamlVerdict = "updated"
              THEN [sps EXCEPT ![meta.entity] = SpConfig(meta)] ELSE sps
    /\ UNCHANGED <<wanted, app, oapp, changes>>

SamlServed == FetchesMetadata => SamlVerdict = "inSync"
SamlKey    == IF FetchesMetadata THEN {"samlsso"} ELSE {}

\* GetApplicationByName, appHasChanged, UpdateApplication.  The Secret is taken
\* as just written: that populateInboundSecrets reads it through a cache that
\* lags is in SPReconciler, where the update goes out with the Secret as seen.
AppVerdict ==
    IF Unmappable(app) THEN "panic"
    ELSE IF AppHasChanged(MapApplication(app), Desired(spec)) THEN "updated"
    ELSE "inSync"

MutAppPass ==
    /\ OAuthServed /\ SamlServed
    /\ verdict' = [oauth |-> "inSync", saml |-> "inSync", app |-> AppVerdict]
    /\ keys' = keys \cup OAuthKey \cup SamlKey
    /\ app' = IF AppVerdict = "updated"
              THEN StoredApp(BuildUpdate(Desired(spec), keys)) ELSE app
    /\ UNCHANGED <<wanted, oapp, sps, changes>>
AppPass ==
    /\ OAuthServed /\ SamlServed
    /\ verdict' = [oauth |-> "inSync", saml |-> "inSync", app |-> AppVerdict]
    /\ keys' = keys \cup OAuthKey \cup SamlKey
    /\ app' = IF AppVerdict = "updated"
              THEN StoredApp(BuildUpdate(Desired(spec), keys')) ELSE app
    /\ UNCHANGED <<wanted, oapp, sps, changes>>

Next ==
    \/ EditSpec \/ PublishMetadata \/ DropSecret \/ DriftApp \/ DriftOAuth
    \/ OAuthPass \/ SamlPass \/ AppPass

Spec == Init /\ [][Next]_vars

------------------------------------------------------------------------------
(* Properties *)

\* What a spec asks for, said of the record that the server keeps.
StepMeant(s, r) ==
    /\ r.order = s.step /\ r.local = s.local
    /\ s.idp = "" /\ s.auth = "" <=> r.idps = <<>>
    /\ r.idps # <<>> => r.idps[1].name = s.idp /\ s.auth = r.idps[1].auths[1]

\* A step number is wanted for a purpose: one step that has the number serves
\* it, or the number is 0 and no step does.
Marks(steps, flag, n) ==
    LET marked == {i \in DOMAIN steps : steps[i][flag]}
    IN  IF marked = {} THEN n = 0 ELSE \E i \in marked : steps[i].order = n

AppMeant ==
    /\ app.rest = spec.rest /\ ToSet(app.claims) = ToSet(spec.claims)
    /\ Len(app.steps) = Len(spec.steps)
    /\ \A i \in DOMAIN app.steps : StepMeant(spec.steps[i], app.steps[i])
    /\ app.steps # <<>> =>
          /\ Marks(app.steps, "subject", spec.subject)
          /\ Marks(app.steps, "attribute", spec.attribute)
    /\ app.script = IF spec.steps = <<>> THEN "" ELSE spec.script
    /\ app.inbound = spec.inbound \cap Protocols

\* The server has the wanted scope validators and the wanted token binding, if
\* there are any, and maybe others that mapper.go does not know.
OAuthMeant ==
    /\ oapp.rest = ospec.rest /\ oapp.public = ospec.public
    /\ [i \in DOMAIN oapp.grants |-> <<oapp.grants[i]>>] = ospec.grants
    /\ \A v \in ToSet(ospec.validators) \cap DOMAIN ValidatorNames :
          ValidatorNames[v] \in ToSet(oapp.validators)
    /\ ospec.binding \in DOMAIN BindingNames =>
          oapp.binding = BindingNames[ospec.binding]

\* The URLs of the SAML metadata are those in force.
SamlMeant ==
    /\ sps[meta.entity] # None
    /\ sps[meta.entity].acs = [i \in DOMAIN meta.acs |-> meta.acs[i].url]

\* A pass that finds nothing to do is right about it: whatever users or others
\* changed, the server has what the spec asks for, but for the flag on
\* authenticated IdPs (appHasChanged, oauth2HasChanged, samlSPHasChanged on
\* what mapper.go reads back).
InSyncMeansWanted ==
    /\ verdict["app"] = "inSync" => AppMeant
    /\ verdict["oauth"] = "inSync" /\ "oauth2" \in spec.inbound => OAuthMeant
    /\ verdict["saml"] = "inSync" /\ FetchesMetadata => SamlMeant

\* The specs that a request can convey: the marked step is one of the steps or
\* 0, or 1 when there are none; an identity provider has its authenticator; every
\* wanted protocol has its key, or, when blank entries are kept, every protocol
\* is wanted.
AppConveyed ==
    /\ \A n \in {spec.subject, spec.attribute} :
          n \in (IF spec.steps = <<>> THEN {1}
                 ELSE {0} \cup {s.step : s \in ToSet(spec.steps)})
    /\ \A s \in ToSet(spec.steps) : s.idp # "" => s.auth # ""
    /\ IF KeepsBlank THEN Protocols \subseteq spec.inbound
       ELSE spec.inbound \cap Protocols \subseteq keys
    /\ ~spec.sendIdps

OAuthConveyed ==
    /\ ~ospec.public
    /\ ospec.grants # <<>> /\ \A g \in ToSet(ospec.grants) : Len(g) = 1

\* An update is the last one exactly when a request can convey the spec: the
\* pass after it has nothing to do then, and otherwise it fails or updates
\* again, for ever (UpdateApplication, UpdateApplicationOAuth2Config).
SettlesExactly ==
    /\ verdict["app"] = "updated" => (AppVerdict = "inSync" <=> AppConveyed)
    /\ verdict["oauth"] = "updated" => (OAuthVerdict = "inSync" <=> OAuthConveyed)

\* "Priority: explicit isDefault > lowest index": the default URL that is
\* registered is that of a service declared so, unless there is none or the last
\* one has no address; then it is that of the first service with the lowest index.
DefaultIsDeclared ==
    LET acs      == meta.acs
        url      == SpConfig(meta).default
        declared == {i \in DOMAIN acs : acs[i].default}
        IsFirst(i) == \A j \in DOMAIN acs :
                         IF j < i THEN acs[i].index < acs[j].index
                         ELSE acs[i].index <= acs[j].index
    IN  acs # <<>> =>
            \/ url # "" /\ \E i \in declared : acs[i].url = url
            \/ /\ \A i \in declared : (\A j \in declared : j <= i) => acs[i].url = ""
               /\ \E i \in DOMAIN acs : IsFirst(i) /\ acs[i].url = url

\* "Prefer front-channel (POST > Redirect) over SOAP back-channel": whatever
\* the order in the document, requests and answers of a logout go to the two
\* addresses of one endpoint of the preferred binding that is there, if every
\* endpoint has an address.
SloPrefersFront ==
    LET slo     == SpConfig(meta).slo
        Has(b)  == \E i \in DOMAIN meta.slo : meta.slo[i].binding = b
        best    == IF Has("post") THEN "post" ELSE IF Has("redirect") THEN "redirect"
                   ELSE IF Has("soap") THEN "soap" ELSE ""
    IN  (\A i \in DOMAIN meta.slo : meta.slo[i].at # "") =>
            /\ slo.front = IF best = "soap" THEN "" ELSE best
            /\ best # "" => \E i \in DOMAIN meta.slo :
                  LET e == meta.slo[i]
                  IN  /\ e.binding = best /\ slo.request = e.at
                      /\ slo.answer = IF e.answerAt = "" \/ best = "soap"
                                      THEN e.at ELSE e.answerAt

\* However many keys there are and in whatever order, the certificate that is
\* registered is that of the first key that may sign, whatever stands before or
\* after it, and none when no key may; assertions are encrypted exactly when
\* some key allows for it (spConfigFromDescriptor).
CertificateServes ==
    LET ks   == meta.keys
        cfg  == SpConfig(meta)
        For(purpose) ==
            {i \in DOMAIN ks : ks[i].cert # "" /\ ks[i].use \in {purpose, ""}}
        sign == For("signing")
    IN  /\ sign = {} => cfg.cert = ""
        /\ sign # {} => \E i \in sign : /\ \A j \in sign : i <= j
                                        /\ cfg.cert = ks[i].cert
        /\ cfg.encrypt <=> For("encryption") # {}

\* "We use the entityID host segment": the alias of an issuer that is a URL is
\* its host, whatever port and path follow.
AliasNamesTheHost ==
    \A e \in Entities :
        sps[e] # None /\ sps[e].cert # "" /\ IsUrl(e) => sps[e].alias = <<e[3]>>

------------------------------------------------------------------------------
(* What a comment says, and the code does not keep *)

\* "a stable, collision-resistant alias": service providers with different
\* certificates have different aliases.
AliasesDiffer ==
    \A e, f \in Entities :
        sps[e] # None /\ sps[f] # None /\ sps[e].cert # sps[f].cert =>
            sps[e].alias # sps[f].alias
==============================================================================
