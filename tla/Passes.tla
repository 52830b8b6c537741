------------------------------- MODULE Passes -------------------------------
(***************************************************************************)
(* What the passes of one registration put into the customer's zone: the   *)
(* plan its lane derives (internal/derive, internal/lane), the records     *)
(* Amazon and Cloudflare owe merged into it (internal/relay, relayInto),   *)
(* the bounds on the whole (internal/dnsplan), and the order in which it   *)
(* is published.                                                           *)
(*                                                                         *)
(* A name, and the value of a CNAME, is its sequence of labels in the form *)
(* of dnsplan.NormalizeName.  A pass reads each upstream once, so it is    *)
(* one action; Reconcile has its publishing step by step, and the          *)
(* customer's own rows.  Every pass here has a grant: one that has none    *)
(* (GrantLifecycle) writes nothing, which CutShort covers.                 *)
(***************************************************************************)
EXTENDS Integers, Sequences, FiniteSets, Functions

CONSTANTS
  Labels,          \* what a name may be made of
  Deployments,     \* [config, reg] pairs to look at
  PlatformLabels,  \* lane 1's siblings, in order; "cdn" is one of them
  Slugs,           \* what a caller may name an app
  Identifiers,     \* what Cloudflare may report for a zone, or be configured
  Tokens,          \* DKIM selectors SES may issue
  HostedZones,     \* what SES may name as the zone its keys are in
  Challenges,      \* what ACM may put in front of a host, and where it points
  Proofs,          \* what Cloudflare may put in front of a host
  MaxRelayed, MaxRecords,
  MaxChanges       \* bound: the upstreams' and the customer's steps

(* Labels that are not one LDH label, as the empty one is not; "a.b"       *)
(* stands for any that has a dot.                                          *)
Underscored == {"_acme-challenge", "_cf-custom-hostname", "_domainkey",
                "_mirrorstack-challenge", "_token"}

(* The labels that the records themselves spell out.                       *)
Written == {"*", "proof", "uuid", "dcv", "cloudflare", "com", "amazonses", "acm-validations",
            "aws", "api", "other"}
LDH(label)  == label \notin Underscored \union {"", "*", "a.b"}

(* dnsplan.Contains: at or under.                                          *)
Beneath(n, above) == /\ Len(n) >= Len(above)
                     /\ SubSeq(n, Len(n) - Len(above) + 1, Len(n)) = above
Under(n, S)       == \E s \in S : Beneath(n, s)

Lanes == {"org_platform_domain", "org_app_domain", "app_domain"}
Zones == {"org", "app"}     \* MirrorStack's two SaaS zones
NoSlug == "no slug"         \* Advance's plan, not BindApp's

Name == Seq(Labels)
Vocabularies ==
  [target : [Zones -> Name], suffixes : SUBSET Name, exempt : [Lanes -> SUBSET Name],
   uuid : [Zones -> Identifiers \union {""}]]

ASSUME DeploymentsAssumption ==
  Deployments \subseteq [config : Vocabularies, reg : [lane : Lanes, anchor : Name]]
ASSUME LabelsAssumption ==
  /\ Underscored \union Written \union Slugs \union Identifiers \union Tokens \subseteq Labels
  /\ PlatformLabels \in Seq({l \in Labels : LDH(l)}) /\ "cdn" \in Range(PlatformLabels)
  /\ NoSlug \notin Slugs

ASSUME AnswersAssumption ==
  HostedZones \subseteq Name /\ Challenges \subseteq Name \X Name /\ Proofs \subseteq Name

ASSUME BoundsAssumption == MaxChanges \in Nat

(* No name of MirrorStack's lies strictly beneath a customer's anchor.     *)
ASSUME NestingAssumption == \A d \in Deployments : \A s \in d.config.suffixes :
  Beneath(s, d.reg.anchor) => s = d.reg.anchor

Rec(type, name, value, proxied) ==
  [type |-> type, name |-> name, value |-> value, proxied |-> proxied]

(* An answer that cannot be read, that names nothing, or whose type is not *)
(* the one asked for: a warning, and none of that reader's records.        *)
Unreadable == Rec("TXT", <<>>, <<>>, FALSE)

-----------------------------------------------------------------------------
(* internal/lane: which hosts a lane has, and which names may be connected *)

IsDomain(n) == Len(n) >= 2 /\ \A k \in DOMAIN n : LDH(n[k])

Siblings(a) == [k \in DOMAIN PlatformLabels |-> <<PlatformLabels[k]>> \o a]

Hosts(l, a) == CASE l = "org_platform_domain" -> Siblings(a)
                 [] l = "org_app_domain"      -> << <<"*">> \o a >>
                 [] l = "app_domain"          -> << a >>

CertificateHosts(l, a) ==
  IF l = "org_platform_domain" THEN Range(Siblings(a)) \ {<<"cdn">> \o a} ELSE {}

(* Mutant: every lane has an anchor.                                       *)
MailOnEveryLane(l) == TRUE

(* MailIdentityAnchor is not empty.                                        *)
SendsMail(l) == l = "org_platform_domain"

Reserved(c) == c.suffixes \union {c.target[z] : z \in Zones}

(* An exemption is one name beneath a reserved one; a list with any other  *)
(* entry admits nothing at all.                                            *)
ListSound(c, l) == \A e \in c.exempt[l] : e \notin Reserved(c) /\ Under(e, Reserved(c))

(* Mutant: an exemption covers what is beneath it.                         *)
AdmitsBeneath(c, l, a) ==
  IsDomain(a) /\ ListSound(c, l) /\ (Under(a, Reserved(c)) => Under(a, c.exempt[l]))

(* ValidateDomainExempt.                                                   *)
Admits(c, l, a) ==
  /\ IsDomain(a) /\ ListSound(c, l)
  /\ Under(a, Reserved(c)) => a \in c.exempt[l]

-----------------------------------------------------------------------------
(* internal/derive: the records of a lane                                  *)

(* The SaaS zone in which this lane's custom hostnames live.               *)
ZoneOf(l) == IF l = "org_platform_domain" THEN "org" ELSE "app"

(* Config.Validate; an entry of no label is one that normalizes to nothing *)
Valid(c) == /\ \A z \in Zones : IsDomain(c.target[z])
            /\ c.suffixes # {} /\ <<>> \notin c.suffixes

Identifier(c, l) == IF ZoneOf(l) = "app" /\ c.uuid["app"] # "" THEN c.uuid["app"]
                    ELSE c.uuid["org"]

(* Mutant: the org zone's field, whatever the lane.                        *)
WithOrgIdentifier(c, l, u) == [c EXCEPT !.uuid["org"] = u]

WithIdentifier(c, l, u) == [c EXCEPT !.uuid[ZoneOf(l)] = u]

(* Mutant: a pointer with an empty label.                                  *)
NeedsNoIdentifier(c, l) == TRUE

(* ValidateLane.                                                           *)
HasIdentifier(c, l) == Identifier(c, l) # "" /\ LDH(Identifier(c, l))

(* Mutant: orange in any zone of MirrorStack's.                            *)
ProxiedAnywhere(c, l, a) == Under(a, c.suffixes)

(* proxyRouting.                                                           *)
Proxied(c, l, a) == \E s \in c.suffixes : Beneath(c.target[ZoneOf(l)], s) /\ Beneath(a, s)

Ownership(a) == Rec("TXT", <<"_mirrorstack-challenge">> \o a, <<"proof">>, FALSE)

Routing(c, l, a, h) == Rec("CNAME", h, c.target[ZoneOf(l)], Proxied(c, l, a))

Pointer(c, l, h) == Rec("CNAME", <<"_acme-challenge">> \o h,
                        h \o <<Identifier(c, l), "dcv", "cloudflare", "com">>, FALSE)

Each(s, Op(_)) == [k \in DOMAIN s |-> Op(s[k])]

Registration(c, l, a) ==
  LET hosts == Hosts(l, a)
      route(h) == Routing(c, l, a, h)
      point(h) == Pointer(c, l, h)
  IN <<Ownership(a)>> \o Each(hosts, route)
       \o (IF l = "org_app_domain" THEN <<>> ELSE Each(hosts, point))

BindApp(c, a, slug) == << Pointer(c, "org_app_domain", <<slug>> \o a) >>

-----------------------------------------------------------------------------
VARIABLES
  config, reg,  \* the deployment's vocabulary; the sealed lane and anchor
  acm, ses,     \* what Amazon would hand back: records
  edge,         \* host -> what Cloudflare would: a record, or none yet
  dcv,          \* SaaS zone -> its identifier, "none" to ask, or "failed"
  zone,         \* the engine's rows in the customer's zone
  answer,       \* of the last pass
  changes

given    == <<config, reg>>
upstream == <<acm, ses, edge, dcv>>
vars     == <<given, upstream, zone, answer, changes>>

Anchor == reg.anchor
Lane   == reg.lane

HostsOf(slug) == IF slug = NoSlug THEN Range(Hosts(Lane, Anchor)) ELSE {<<slug>> \o Anchor}

Plans    == {NoSlug} \union Slugs
Bindable == IF Lane = "org_app_domain" THEN Plans ELSE {NoSlug}
AllHosts == {h \in UNION {HostsOf(s) : s \in Bindable} : h[1] # "*"}

Told == dcv[ZoneOf(Lane)] \in Identifiers /\ LDH(dcv[ZoneOf(Lane)])

(* deriveFor: what Cloudflare reports beats what is configured, and a read *)
(* that fails or says something odd leaves that standing.                  *)
Effective == IF Told THEN WithIdentifier(config, Lane, dcv[ZoneOf(Lane)]) ELSE config

Derived(slug) == IF slug = NoSlug THEN Registration(Effective, Lane, Anchor)
                 ELSE BindApp(Effective, Anchor, slug)

Refusal(slug) ==
  CASE slug \notin Bindable                -> "invalid"
    [] ~Valid(config)                      -> "unavailable"
    [] ~Admits(config, Lane, Anchor)       -> "invalid"
    [] slug # NoSlug /\ ~LDH(slug)         -> "invalid"
    [] OTHER -> IF HasIdentifier(Effective, Lane) THEN "none" ELSE "unavailable"

-----------------------------------------------------------------------------
(* internal/relay: which of the upstreams' records may be published        *)

StrictlyBeneath(n, hosts) == \E h \in hosts : n # h /\ Beneath(n, h)

ForAnotherHost(hosts, r) == r.name # <<>> /\ ~StrictlyBeneath(r.name, hosts)

(* checkedRelayedName.                                                     *)
RelayedName(hosts, r, first) == /\ r.name # <<>> /\ Head(r.name) \in first
                                /\ StrictlyBeneath(r.name, hosts)

CheckedValidation(hosts, r) == /\ RelayedName(hosts, r, Underscored)
                               /\ r.type = "CNAME"
                               /\ StrictlyBeneath(r.value, {<<"acm-validations", "aws">>})

(* Mutant: what SES says is published as it stands.                        *)
DkimUnchecked(r) == TRUE

CheckedDkim(r) == /\ r.type = "CNAME" /\ Len(r.name) = Len(Anchor) + 2
                  /\ Beneath(r.name, <<"_domainkey">> \o Anchor)
                  /\ StrictlyBeneath(r.value, {<<"amazonses", "com">>})
                  /\ Head(r.name) = Head(r.value)

CheckedServing(h, r) == /\ RelayedName({h}, r, {"_cf-custom-hostname"})
                        /\ r.type = "TXT" /\ r.value # <<>>

(* One record that breaks the contract, and the reader's answer is void.   *)
Whole(S, Check(_)) == IF \A r \in S : Check(r) THEN S ELSE {}
Bounded(S) == IF Cardinality(S) > MaxRelayed THEN {} ELSE S

ValidationRecords(hosts) ==
  LET ok(r) == CheckedValidation(hosts, r)
  IN IF hosts = {} THEN {} ELSE Bounded(Whole({r \in acm : ~ForAnotherHost(hosts, r)}, ok))

DkimRecords == IF SendsMail(Lane) THEN Bounded(Whole(ses, CheckedDkim)) ELSE {}

(* relayInto skips the wildcard, which is no custom hostname.              *)
ServingHosts(slug) == {h \in HostsOf(slug) : h[1] # "*"}

ServingProofs(slug) ==
  LET hosts == ServingHosts(slug)
  IN IF \A h \in hosts : \A r \in edge[h] : CheckedServing(h, r)
     THEN UNION {edge[h] : h \in hosts} ELSE {}

(* Mutant: what cannot be read stops what follows.                         *)
RelayedUntilFailure(slug) ==
  IF Unreadable \in acm THEN <<>>
  ELSE <<ValidationRecords(CertificateHosts(Lane, Anchor)), DkimRecords, ServingProofs(slug)>>

(* relayInto, reader by reader: a failure costs that reader's records only *)
Relayed(slug) ==
  <<ValidationRecords(CertificateHosts(Lane, Anchor)), DkimRecords, ServingProofs(slug)>>

(* A plan in publishing order: derived records one by one, then each       *)
(* reader's, whose order among themselves makes no difference.             *)
Merged(slug) == LET alone(r) == {r} IN Each(Derived(slug), alone) \o Relayed(slug)
Records(plan) == UNION Range(plan)

-----------------------------------------------------------------------------
(* internal/dnsplan and internal/reconcile: bounds, and order              *)

Conflict(r, q) == r.type = "CNAME" /\ q.type = "CNAME" /\ r.name = q.name /\ r.value # q.value

(* NewSnapshot, then validateNoConflictingCNAMEs.                          *)
Bounds(records) ==
  CASE Cardinality(records) > MaxRecords            -> "preparing"
    [] \E r \in records : ~Beneath(r.name, Anchor)  -> "escape"
    [] \E r \in records : \E q \in records : Conflict(r, q) -> "conflicting"
    [] OTHER                                        -> "none"

(* Publish stops at a CNAME whose name is in use for another target.       *)
InUse(r) == \E q \in zone : Conflict(r, q)

(* The step of a plan at which it stops.                                   *)
Stop(plan) == LET stops == {k \in DOMAIN plan : \E r \in plan[k] : InUse(r)}
              IN IF stops = {} THEN Len(plan) + 1
                 ELSE CHOOSE k \in stops : \A j \in stops : k <= j

Init ==
  /\ \E d \in Deployments : config = d.config /\ reg = d.reg
  /\ acm = {} /\ ses = {}
  /\ edge = [h \in AllHosts |-> {}]
  /\ dcv = [z \in Zones |-> "none"]
  /\ zone = {} /\ answer = "none" /\ changes = 0

Before(plan, n) == zone \union UNION {plan[k] : k \in {k \in DOMAIN plan : k < n}}

(* All steps before n, and some records of step n.                         *)
WriteUpTo(plan, n) ==
  \E some \in SUBSET {r \in UNION {plan[k] : k \in DOMAIN plan \intersect {n}} : ~InUse(r)} :
    zone' = Before(plan, n) \union some

Publish(plan, stop) ==
  /\ WriteUpTo(plan, stop)
  /\ answer' = IF stop > Len(plan) THEN "published" ELSE "name_in_use"

Decline(why) == answer' = why /\ UNCHANGED zone

Pass(slug) ==
  /\ UNCHANGED <<given, upstream, changes>>
  /\ IF Refusal(slug) # "none" THEN Decline(Refusal(slug))
     ELSE \E plan \in {Merged(slug)} : \E bounds \in {Bounds(Records(plan))} :
            IF bounds # "none" THEN Decline(bounds)
            ELSE \E stop \in {Stop(plan)} : Publish(plan, stop)

(* No credential, or the window closes, or the provider fails, somewhere   *)
(* in the loop.                                                            *)
CutShort(slug) ==
  /\ UNCHANGED <<given, upstream, changes>>
  /\ Refusal(slug) = "none"
  /\ \E plan \in {Merged(slug)} :
       /\ Bounds(Records(plan)) = "none"
       /\ \E stop \in {Stop(plan)} : \E n \in DOMAIN plan : n <= stop /\ WriteUpTo(plan, n)
  /\ answer' = "cut"

-----------------------------------------------------------------------------
(* Amazon, Cloudflare and the customer.                                    *)

Elsewhere == <<"api", "other", "com">>

(* Certificates may cover other hosts too; a record may have any name that *)
(* ends in a host's, and any target.  Neither ACM nor SES is asked on a    *)
(* lane that has no certificate hosts or sends no mail.                    *)
Validation(c, h) == Rec("CNAME", c[1] \o h, c[2], FALSE)
AcmRecords ==
  IF CertificateHosts(Lane, Anchor) = {} THEN {}
  ELSE {Unreadable} \union {Validation(c, h) : c \in Challenges, h \in AllHosts \union {Elsewhere}}

(* The adapter builds these from tokens and the zone that SES names.       *)
Dkim(t, z) == Rec("CNAME", <<t>> \o (<<"_domainkey">> \o Anchor), <<t>> \o z, FALSE)
SesAnswers ==
  IF ~SendsMail(Lane) THEN {{}}
  ELSE {{}, {Unreadable}} \union {{Dkim(t, z) : t \in Tokens} : z \in HostedZones}

Serving(p, h)  == Rec("TXT", p \o h, <<"uuid">>, FALSE)
EdgeAnswers(h) == {{}, {Unreadable}, {Rec("CNAME", h, <<"uuid">>, FALSE)}}
                    \union {{Serving(p, h)} : p \in Proofs}

Changes == changes < MaxChanges /\ changes' = changes + 1

UpstreamChanges ==
  /\ Changes
  /\ \/ \E r \in AcmRecords : acm' = (acm \ {r}) \union ({r} \ acm) /\ UNCHANGED <<ses, edge, dcv>>
     \/ ses' \in SesAnswers \ {ses} /\ UNCHANGED <<acm, edge, dcv>>
     \/ /\ \E h \in AllHosts : \E r \in EdgeAnswers(h) \ {edge[h]} :
              edge' = [edge EXCEPT ![h] = r]
        /\ UNCHANGED <<acm, ses, dcv>>
     \/ /\ \E z \in Zones : \E u \in Identifiers \union {"none", "failed"} :
              u # dcv[z] /\ dcv' = [dcv EXCEPT ![z] = u]
        /\ UNCHANGED <<acm, ses, edge>>
  /\ UNCHANGED <<given, zone, answer>>

CustomerDeletes ==
  /\ Changes
  /\ \E r \in zone : zone' = zone \ {r}
  /\ UNCHANGED <<given, upstream, answer>>

Next == \/ \E s \in Plans : Pass(s) \/ CutShort(s)
        \/ UpstreamChanges \/ CustomerDeletes

Spec == Init /\ [][Next]_vars

(* The caller's schedule repeats the passes of every plan; nothing is owed *)
(* by the upstreams or the customer.                                       *)
FairSpec == Spec /\ \A s \in Plans : WF_vars(s \in Bindable /\ Pass(s))

-----------------------------------------------------------------------------
Row == [type : {"CNAME", "TXT"}, name : Name \ {<<>>}, value : Name, proxied : BOOLEAN]

TypeOK ==
  /\ [config |-> config, reg |-> reg] \in Deployments
  /\ acm \subseteq AcmRecords /\ ses \in SesAnswers
  /\ DOMAIN edge = AllHosts /\ \A h \in AllHosts : edge[h] \in EdgeAnswers(h)
  /\ dcv \in [Zones -> Identifiers \union {"none", "failed"}]
  /\ zone \subseteq Row
  /\ answer \in {"none", "unavailable", "invalid", "preparing", "escape",
                 "conflicting", "published", "name_in_use", "cut"}
  /\ changes \in 0..MaxChanges

(* The kinds of row a consent page names, at the names it names.           *)
IsOwnership(r) == r.type = "TXT" /\ r.name = <<"_mirrorstack-challenge">> \o Anchor
IsRouting(r)   == /\ r.type = "CNAME" /\ r.value = config.target[ZoneOf(Lane)]
                  /\ CASE Lane = "org_platform_domain" ->
                            Tail(r.name) = Anchor /\ r.name[1] \in Range(PlatformLabels)
                       [] Lane = "org_app_domain"      -> r.name = <<"*">> \o Anchor
                       [] Lane = "app_domain"          -> r.name = Anchor
IsPointer(r)   == /\ r.type = "CNAME" /\ Head(r.name) = "_acme-challenge"
                  /\ \E u \in Identifiers :
                       r.value = Tail(r.name) \o <<u, "dcv", "cloudflare", "com">>
                  /\ IsDomain(Tail(r.name)) /\ Beneath(Tail(r.name), Anchor)
IsDkim(r)      == /\ Lane = "org_platform_domain" /\ r.type = "CNAME"
                  /\ Tail(r.name) = <<"_domainkey">> \o Anchor /\ Head(r.value) = Head(r.name)
                  /\ Beneath(Tail(r.value), <<"amazonses", "com">>)
IsValidation(r) == /\ Lane = "org_platform_domain" /\ r.type = "CNAME"
                   /\ r.name # <<>> /\ Head(r.name) \in Underscored
                   /\ Beneath(r.value, <<"acm-validations", "aws">>)
                   /\ \E l \in Range(PlatformLabels) \ {"cdn"} :
                        Beneath(Tail(r.name), <<l>> \o Anchor)
IsServing(r)   == /\ r.type = "TXT" /\ r.name # <<>> /\ Head(r.name) = "_cf-custom-hostname"
                  /\ \E h \in AllHosts : Beneath(Tail(r.name), h)

(* Whatever Amazon and Cloudflare answer, in whatever order, the engine's  *)
(* rows are of the kinds the customer was told of, each in front of a host *)
(* of the registration and into the zone of whoever asked for it; and none *)
(* is where the customer serves anything, but for the route they asked for *)
(* - on lanes 1 and 2 never at the anchor itself.                          *)
OnlyAsDisclosed == \A r \in zone :
  /\ Beneath(r.name, Anchor)
  /\ \/ IsOwnership(r) \/ IsRouting(r) \/ IsPointer(r)
     \/ IsDkim(r) \/ IsValidation(r) \/ IsServing(r)

(* Nothing is written in a zone of MirrorStack's own except under a name   *)
(* that was exempted by itself, for this very lane.                        *)
PlatformKeptOut == \A r \in zone :
  Under(r.name, config.suffixes) => Anchor \in config.exempt[Lane]

(* A proxied row answers at the edge of the zone it is in; its target is a *)
(* custom hostname of that very zone, or the edge answers 526.             *)
ProxiedAtHome == \A r \in zone : r.proxied <=>
  /\ IsRouting(r)
  /\ \E s \in config.suffixes : Beneath(r.name, s) /\ Beneath(r.value, s)

IdentifierIn(r) == r.value[Len(r.value) - 3]

(* A pointer written while Cloudflare can be read carries the identifier   *)
(* of the zone that validates this lane's hosts, whatever is configured.   *)
PointerFollowsZone == [][
  Told => \A r \in {q \in zone' \ zone : IsPointer(q)} : IdentifierIn(r) = dcv[ZoneOf(Lane)]]_vars

(* Amazon's validation records contradict one another, or stand where the  *)
(* plan points Cloudflare's authority.                                     *)
Validations == {r \in acm : IsValidation(r)}
Contradictory ==
  \E r \in Validations : \E q \in Validations \union Range(Derived(NoSlug)) : Conflict(r, q)

(* No upstream holds back the proof or the route: they are published       *)
(* however Amazon and Cloudflare answer, as soon as Amazon's records do    *)
(* not contradict the plan - for then, and only then, the whole of it is   *)
(* refused (validateNoConflictingCNAMEs).                                  *)
Basis == {r \in Range(Registration(config, Lane, Anchor)) : IsOwnership(r) \/ IsRouting(r)}
RoutedAtLast ==
  Refusal(NoSlug) = "none" /\ HasIdentifier(config, Lane) /\ ~Contradictory
    ~> Basis \subseteq zone \/ Contradictory

(* What the upstreams owe: a certificate authority in order, a mail        *)
(* identity in order; and a host's serving proof unless Cloudflare's       *)
(* answer for another host of the same plan is in disorder, which costs    *)
(* every host of it (relay.ServingProofs).                                 *)
Owed(slug) ==
  LET certified == CertificateHosts(Lane, Anchor)
      theirs(r) == r.name # <<>> /\ \A h \in certified : ~Beneath(r.name, h)
      inOrder   == \A h \in ServingHosts(slug) : \A r \in edge[h] :
                     IsServing(r) /\ Beneath(Tail(r.name), h)
  IN (IF \A r \in acm : IsValidation(r) \/ theirs(r) THEN Validations ELSE {})
     \union (IF \A r \in ses : IsDkim(r) THEN ses ELSE {})
     \union (IF inOrder THEN UNION {edge[h] : h \in ServingHosts(slug)} ELSE {})

(* A row of an earlier plan - a pointer to another identifier than today's *)
(* or a record that Amazon issued anew - stands in the way.                *)
Hindered(slug) == \E r \in Records(Merged(slug)) : InUse(r)

(* Whatever an upstream owes is published once the upstreams have come to  *)
(* rest, in every plan that is not refused, though other upstreams fail.   *)
OwedArrives == []<>(\A s \in Plans :
  Refusal(s) = "none" /\ ~Contradictory /\ ~Hindered(s) => Owed(s) \subseteq zone)

(* service.go, deriveFor: the identifier's read failing does not stop a    *)
(* lane publishing everything else it can derive.                          *)
OutageStopsNothingElse == [][
  Pass(NoSlug) /\ dcv[ZoneOf(Lane)] = "failed" /\ Refusal(NoSlug) = "none" /\ ~Contradictory
    => {r \in Records(Merged(NoSlug)) : ~IsPointer(r)} \subseteq zone']_vars
=============================================================================
