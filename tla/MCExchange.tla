----------------------------- MODULE MCExchange -----------------------------
(* Instances of Exchange for TLC. *)
EXTENDS Exchange

CONSTANTS r1, r2

C(uri, mandatory) == [uri |-> uri, mandatory |-> mandatory]
S(step, local, idp, auth) ==
    [step |-> step, local |-> local, idp |-> idp, auth |-> auth]

MCPlain ==
    [rest |-> r1, claims |-> <<>>, steps |-> <<>>, script |-> "", subject |-> 1,
     attribute |-> 1, inbound |-> {}, sendIdps |-> FALSE]

\* Steps: none, one, two of which one is federated, an authenticator without
\* provider and a provider without authenticator.
StepLists ==
    {<<>>, <<S(1, <<"basic">>, "", "")>>,
     <<S(1, <<"basic">>, "", ""), S(2, <<>>, "corp", "oidc")>>,
     <<S(2, <<>>, "", "oidc")>>, <<S(1, <<>>, "corp", "")>>}

MCAppSpecs ==
    {[MCPlain EXCEPT !.steps = st, !.subject = m[1], !.attribute = m[2], !.script = "js"] :
        st \in StepLists, m \in {<<1, 1>>, <<1, 2>>, <<2, 0>>}}
    \cup {[MCPlain EXCEPT !.claims = c] :
             c \in {<<C(2, FALSE), C(1, TRUE)>>, <<C(1, TRUE), C(2, TRUE)>>}}
    \cup {MCPlain, [MCPlain EXCEPT !.rest = r2], [MCPlain EXCEPT !.sendIdps = TRUE]}

MCInbounds == {{}, {"oauth2"}, {"samlsso"}, {"samlsso", "metadataURL"},
               {"oauth2", "samlsso", "metadataURL"}}

O(grants, public, binding, validators) ==
    [rest |-> r1, grants |-> grants, public |-> public, binding |-> binding,
     validators |-> validators]

Code == <<<<"code">>>>
MCOAuthSpecs ==
    {O(g, FALSE, "", <<>>) : g \in {<<>>, <<<<"">>>>, Code, <<<<"code">>, <<"refresh">>>>,
                                    <<<<"code", "refresh">>>>}}
    \cup {O(Code, TRUE, "", <<>>)}
    \cup {O(Code, FALSE, b, <<"role">>) : b \in {"session", "other"}}
    \cup {O(Code, FALSE, "", v) : v \in {<<"xacml", "role">>, <<"role", "other">>}}

\* An application whose provider lost its authenticator, and others that
\* appHasChanged has to tell from what is wanted.
MCAppDrifts ==
    LET made(s) == StoredApp(BuildUpdate(s, {}))
    IN  {made(s) : s \in MCAppSpecs}
        \cup {[made(MCPlain) EXCEPT !.script = "js"],
              [made(MCPlain) EXCEPT !.inbound = Protocols]}

MCOAuthDrifts ==
    {BuildOAuth(DesiredOAuth(o)) : o \in MCOAuthSpecs}
    \cup {[BuildOAuth(O(Code, FALSE, "", <<>>)) EXCEPT !.public = TRUE],
          [BuildOAuth(O(Code, FALSE, "", <<>>)) EXCEPT !.validators = <<"OIDC Scope Validator">>]}

------------------------------------------------------------------------------
(* Metadata of two service providers on one host, and of one named by a URN *)

Entity1 == <<"https", "://", "host", ":", "8443", "/", "sp1">>
Entity2 == <<"https", "://", "host", "/", "sp2">>
Entity3 == <<"urn", ":", "sp", ":", "three">>

Acs(url, index, default) ==
    [binding |-> "post", url |-> url, index |-> index, default |-> default]
AcsServices == {Acs("u1", 0, FALSE), Acs("u2", 0, FALSE), Acs("u3", 1, TRUE),
                [Acs("", 1, TRUE) EXCEPT !.binding = "artifact"]}

Slo(binding, at, answerAt) == [binding |-> binding, at |-> at, answerAt |-> answerAt]
SloEndpoints == {Slo("post", "p1", ""), Slo("post", "p2", "q2"),
                 Slo("redirect", "r1", "q1"), Slo("soap", "s1", "t1"),
                 Slo("artifact", "a1", "")}

Key(use, cert) == [use |-> use, cert |-> cert]
KeyInfos == {Key("signing", "c1"), Key("encryption", "c2"), Key("", "c3"),
             Key("signing", "")}

Doc(entity, acs, slo, ks) ==
    [entity |-> entity, acs |-> acs, slo |-> slo, keys |-> ks]

MCDescriptors ==
    {Doc(Entity1, acs, <<>>, <<>>) : acs \in BoundedSeq(AcsServices, 2)}
    \cup {Doc(Entity1, <<>>, slo, <<>>) : slo \in BoundedSeq(SloEndpoints, 2)}
    \cup {Doc(Entity1, <<>>, slo, <<>>) :
             slo \in SetToSeqs(SloEndpoints \ {Slo("artifact", "a1", ""), Slo("post", "p2", "q2")})}
    \cup {Doc(Entity1, <<>>, <<>>, ks) : ks \in BoundedSeq(KeyInfos, 2)}
    \cup {Doc(e, <<>>, <<>>, <<Key("signing", "c4")>>) : e \in {Entity2, Entity3}}
==============================================================================
