---------------------------- MODULE PassesProofs ----------------------------
(***************************************************************************)
(* Proofs about Passes, for every vocabulary, anchor and set of labels,    *)
(* and for whatever the upstreams answer and the customer deletes.         *)
(***************************************************************************)
EXTENDS Passes, SequenceTheorems, TLAPS

-----------------------------------------------------------------------------
(* Names.                                                                  *)

LEMMA BeneathByLabel ==
  ASSUME NEW n \in Name, NEW a \in Name
  PROVE  Beneath(n, a) <=> /\ Len(n) >= Len(a)
                           /\ \A k \in 1..Len(a) : n[Len(n) - Len(a) + k] = a[k]
<1> DEFINE top == SubSeq(n, Len(n) - Len(a) + 1, Len(n))
<1>1. SUFFICES ASSUME Len(n) >= Len(a)
               PROVE  top = a <=> \A k \in 1..Len(a) : n[Len(n) - Len(a) + k] = a[k]
  BY DEF Beneath
<1>2. Len(n) \in Nat /\ Len(a) \in Nat
  BY DEF Name
<1>3. top \in Seq(Labels) /\ Len(top) = Len(a) /\ \A k \in 1..Len(a) : top[k] = n[Len(n) - Len(a) + k]
  BY <1>1, <1>2 DEF Name
<1>4. ASSUME \A k \in 1..Len(a) : n[Len(n) - Len(a) + k] = a[k]
      PROVE  top = a
  <2> HIDE DEF top
  <2>1. a \in Seq(Labels) /\ \A k \in 1..Len(top) : top[k] = a[k]
    BY <1>3, <1>4 DEF Name
  <2> QED BY <1>3, <2>1, SeqEqual, Zenon
<1>5. top = a => \A k \in 1..Len(a) : n[Len(n) - Len(a) + k] = a[k]
  <2> HIDE DEF top
  <2> QED BY <1>3
<1> QED BY <1>4, <1>5

LEMMA BeneathItself == \A n \in Name : Beneath(n, n)
BY BeneathByLabel DEF Name

LEMMA BeneathTrans ==
  ASSUME NEW n \in Name, NEW a \in Name, NEW s \in Name, Beneath(n, a), Beneath(a, s)
  PROVE  Beneath(n, s)
<1>1. Len(n) \in Nat /\ Len(a) \in Nat /\ Len(s) \in Nat /\ Len(n) >= Len(a) /\ Len(a) >= Len(s)
  BY BeneathByLabel DEF Name
<1>2. ASSUME NEW k \in 1..Len(s)
      PROVE  n[Len(n) - Len(s) + k] = s[k]
  <2>1. a[Len(a) - Len(s) + k] = s[k] /\ Len(a) - Len(s) + k \in 1..Len(a)
    BY <1>1, BeneathByLabel
  <2>2. n[Len(n) - Len(a) + (Len(a) - Len(s) + k)] = a[Len(a) - Len(s) + k]
    BY <2>1, BeneathByLabel
  <2> QED BY <1>1, <2>1, <2>2
<1> QED BY <1>1, <1>2, BeneathByLabel

(* Of two names above a third, one is above the other.                     *)
LEMMA BeneathSplit ==
  ASSUME NEW n \in Name, NEW a \in Name, NEW s \in Name, Beneath(n, a), Beneath(n, s),
         Len(a) >= Len(s)
  PROVE  Beneath(a, s)
<1>1. Len(n) \in Nat /\ Len(a) \in Nat /\ Len(s) \in Nat /\ Len(n) >= Len(a)
  BY BeneathByLabel DEF Name
<1>2. ASSUME NEW k \in 1..Len(s)
      PROVE  a[Len(a) - Len(s) + k] = s[k]
  <2>1. n[Len(n) - Len(s) + k] = s[k] /\ Len(a) - Len(s) + k \in 1..Len(a)
    BY <1>1, BeneathByLabel
  <2>2. n[Len(n) - Len(a) + (Len(a) - Len(s) + k)] = a[Len(a) - Len(s) + k]
    BY <2>1, BeneathByLabel
  <2> QED BY <1>1, <2>1, <2>2
<1> QED BY <1>1, <1>2, BeneathByLabel

LEMMA SameLength ==
  ASSUME NEW n \in Name, NEW a \in Name, Beneath(n, a), Len(n) = Len(a)
  PROVE  n = a
BY BeneathByLabel DEF Name

LEMMA OneLabel == \A x \in Labels : <<x>> \in Seq(Labels) /\ Len(<<x>>) = 1 /\ <<x>>[1] = x
OBVIOUS

LEMMA Nonempty ==
  ASSUME NEW n \in Name, Len(n) # 0
  PROVE  n # <<>> /\ Head(n) = n[1]
BY DEF Name

(* A label in front of a name.                                             *)
LEMMA Prefixed ==
  ASSUME NEW x \in Labels, NEW h \in Name, NEW n, n = <<x>> \o h
  PROVE  /\ n \in Name /\ Len(n) = Len(h) + 1 /\ Head(n) = x /\ n[1] = x /\ Tail(n) = h
         /\ \A k \in 1..Len(h) : n[k + 1] = h[k]
         /\ Beneath(n, h)
<1>1. h \in Seq(Labels) /\ <<x>> \in Seq(Labels) /\ Len(<<x>>) = 1 /\ <<x>>[1] = x /\ Len(h) \in Nat
  <2>1. h \in Seq(Labels) /\ Len(h) \in Nat
    BY DEF Name
  <2> QED BY <2>1, OneLabel, Zenon
<1>2. /\ n \in Seq(Labels) /\ Len(n) = Len(<<x>>) + Len(h)
      /\ \A k \in 1..(Len(<<x>>) + Len(h)) :
           n[k] = IF k <= Len(<<x>>) THEN <<x>>[k] ELSE h[k - Len(<<x>>)]
  BY <1>1, ConcatProperties, Zenon
<1>3. Len(n) = Len(h) + 1 /\ n[1] = x /\ \A k \in 1..Len(h) : n[k + 1] = h[k]
  BY <1>1, <1>2
<1>4. n \in Name /\ n # <<>> /\ Head(n) = x
  <2>1. n \in Name /\ Len(n) # 0
    BY <1>1, <1>2, <1>3 DEF Name
  <2> QED BY <1>3, <2>1, Nonempty
<1>5. Tail(n) = h
  <2>1. /\ Tail(n) \in Seq(Labels) /\ Len(Tail(n)) = Len(n) - 1
        /\ \A k \in 1..Len(Tail(n)) : Tail(n)[k] = n[k + 1]
    BY <1>2, <1>4, HeadTailProperties, Zenon
  <2>2. Len(Tail(n)) = Len(h) /\ \A k \in 1..Len(Tail(n)) : Tail(n)[k] = h[k]
    BY <1>1, <1>3, <2>1
  <2> QED BY <1>1, <2>1, <2>2, SeqEqual, Zenon
<1>6. Beneath(n, h)
  <2>1. Len(n) >= Len(h) /\ \A k \in 1..Len(h) : n[Len(n) - Len(h) + k] = h[k]
    BY <1>1, <1>3
  <2> QED BY <1>4, <2>1, BeneathByLabel
<1> QED BY <1>3, <1>4, <1>5, <1>6

LEMMA PrefixedName ==
  \A x \in Labels, h \in Name : <<x>> \o h \in Name \ {<<>>} /\ Len(<<x>> \o h) = Len(h) + 1 /\ Len(h) \in Nat
<1> SUFFICES ASSUME NEW x \in Labels, NEW h \in Name
             PROVE  <<x>> \o h \in Name \ {<<>>} /\ Len(<<x>> \o h) = Len(h) + 1 /\ Len(h) \in Nat
  OBVIOUS
<1>1. PICK n : n = <<x>> \o h
  OBVIOUS
<1>2. n \in Name
  BY <1>1, Prefixed
<1>3. Len(n) = Len(h) + 1
  BY <1>1, Prefixed
<1>4. Len(h) \in Nat
  BY DEF Name
<1>5. n # <<>>
  BY <1>3, <1>4
<1> QED BY <1>1, <1>2, <1>3, <1>4, <1>5

LEMMA PrefixedEnds ==
  \A x \in Labels, h \in Name :
    Head(<<x>> \o h) = x /\ (<<x>> \o h)[1] = x /\ Tail(<<x>> \o h) = h /\ Beneath(<<x>> \o h, h)
<1> SUFFICES ASSUME NEW x \in Labels, NEW h \in Name
             PROVE  Head(<<x>> \o h) = x /\ (<<x>> \o h)[1] = x /\ Tail(<<x>> \o h) = h
                    /\ Beneath(<<x>> \o h, h)
  OBVIOUS
<1>1. PICK n : n = <<x>> \o h
  OBVIOUS
<1>2. Head(n) = x
  BY <1>1, Prefixed
<1>3. n[1] = x
  BY <1>1, Prefixed
<1>4. Tail(n) = h
  BY <1>1, Prefixed
<1>5. Beneath(n, h)
  BY <1>1, Prefixed
<1> QED BY <1>1, <1>2, <1>3, <1>4, <1>5

(* What is strictly beneath a name stays beneath it without its first      *)
(* label.                                                                  *)
LEMMA TailBeneath ==
  ASSUME NEW n \in Name, NEW a \in Name, Beneath(n, a), n # a
  PROVE  /\ Len(n) > Len(a) /\ n # <<>>
         /\ Tail(n) \in Name /\ Len(Tail(n)) = Len(n) - 1 /\ Beneath(Tail(n), a)
<1>1. Len(n) \in Nat /\ Len(a) \in Nat /\ Len(n) > Len(a)
  BY SameLength, BeneathByLabel DEF Name
<1>2. n \in Seq(Labels) /\ n # <<>>
  BY <1>1, Nonempty DEF Name
<1>3. /\ Tail(n) \in Seq(Labels) /\ Len(Tail(n)) = Len(n) - 1
      /\ \A k \in 1..Len(Tail(n)) : Tail(n)[k] = n[k + 1]
  BY <1>2, HeadTailProperties, Zenon
<1>4. ASSUME NEW k \in 1..Len(a)
      PROVE  Tail(n)[Len(Tail(n)) - Len(a) + k] = a[k]
  <2>1. n[Len(n) - Len(a) + k] = a[k]
    BY BeneathByLabel
  <2>2. Len(Tail(n)) - Len(a) + k \in 1..Len(Tail(n))
    BY <1>1, <1>3
  <2> QED BY <1>1, <1>3, <2>1, <2>2
<1>5. Tail(n) \in Name /\ Len(Tail(n)) >= Len(a)
  BY <1>1, <1>3 DEF Name
<1>6. Beneath(Tail(n), a)
  BY <1>4, <1>5, BeneathByLabel
<1> QED BY <1>1, <1>2, <1>3, <1>5, <1>6

-----------------------------------------------------------------------------
(* Types of what derivation starts from.                                   *)

LEMMA SpokenLabels ==
  /\ Underscored \subseteq Labels /\ Written \subseteq Labels
  /\ Slugs \subseteq Labels /\ Identifiers \subseteq Labels /\ Tokens \subseteq Labels
BY LabelsAssumption

LEMMA GivenTypes ==
  ASSUME TypeOK
  PROVE  /\ config \in Vocabularies /\ Lane \in Lanes /\ Anchor \in Name
         /\ \A s \in config.suffixes : s \in Name /\ (Beneath(s, Anchor) => s = Anchor)
<1>1. PICK d \in Deployments : d.config = config /\ d.reg = reg
  BY DEF TypeOK
<1>2. d.config \in Vocabularies /\ d.reg \in [lane : Lanes, anchor : Name]
  BY DeploymentsAssumption
<1>3. config \in Vocabularies /\ Lane \in Lanes /\ Anchor \in Name
  BY <1>1, <1>2 DEF Lane, Anchor
<1>4. config.suffixes \subseteq Name
  BY <1>3 DEF Vocabularies
<1> QED BY <1>1, <1>3, <1>4, NestingAssumption DEF Anchor

LEMMA ZoneOfType == \A l \in Lanes : ZoneOf(l) \in Zones
BY DEF ZoneOf, Zones, Lanes

LEMMA EffectiveTypes ==
  ASSUME TypeOK
  PROVE  Effective \in Vocabularies /\ Effective.target = config.target /\ Effective.suffixes = config.suffixes
<1>1. CASE Told
  <2>1. dcv[ZoneOf(Lane)] \in Identifiers
    BY <1>1 DEF Told
  <2>2. Effective = [config EXCEPT !.uuid = [config.uuid EXCEPT ![ZoneOf(Lane)] = dcv[ZoneOf(Lane)]]]
    BY <1>1 DEF Effective, WithIdentifier
  <2>3. [config.uuid EXCEPT ![ZoneOf(Lane)] = dcv[ZoneOf(Lane)]] \in [Zones -> Identifiers \union {""}]
    BY <2>1, GivenTypes DEF Vocabularies
  <2> QED BY <2>2, <2>3, GivenTypes DEF Vocabularies
<1>2. CASE ~Told
  BY <1>2, GivenTypes DEF Effective
<1> QED BY <1>1, <1>2

LEMMA IdentifierTypes ==
  ASSUME NEW c \in Vocabularies, NEW l \in Lanes, HasIdentifier(c, l)
  PROVE  Identifier(c, l) \in Identifiers
<1>1. c.uuid["app"] \in Identifiers \union {""} /\ c.uuid["org"] \in Identifiers \union {""}
  BY DEF Vocabularies, Zones
<1> QED BY <1>1 DEF HasIdentifier, Identifier

LEMMA Platform ==
  ASSUME NEW k \in DOMAIN PlatformLabels
  PROVE  PlatformLabels[k] \in Labels /\ LDH(PlatformLabels[k])
BY LabelsAssumption

LEMMA HostTypes ==
  ASSUME NEW l \in Lanes, NEW a \in Name, NEW k \in DOMAIN Hosts(l, a)
  PROVE  LET h == Hosts(l, a)[k]
         IN /\ h \in Name /\ Beneath(h, a)
            /\ l = "org_platform_domain" => k \in DOMAIN PlatformLabels /\ h = <<PlatformLabels[k]>> \o a
            /\ l = "org_app_domain" => h = <<"*">> \o a
            /\ l = "app_domain" => h = a
<1>1. CASE l = "org_platform_domain"
  <2>1. k \in DOMAIN PlatformLabels /\ Hosts(l, a)[k] = <<PlatformLabels[k]>> \o a
    BY <1>1 DEF Hosts, Siblings
  <2>2. PlatformLabels[k] \in Labels
    BY <2>1, Platform
  <2>3. Hosts(l, a)[k] \in Name
    BY <2>1, <2>2, PrefixedName
  <2>4. Beneath(Hosts(l, a)[k], a)
    BY <2>1, <2>2, PrefixedEnds
  <2> QED BY <1>1, <2>1, <2>3, <2>4
<1>2. CASE l = "org_app_domain"
  <2>1. Hosts(l, a)[k] = <<"*">> \o a
    BY <1>2 DEF Hosts
  <2>2. "*" \in Labels
    BY SpokenLabels DEF Written
  <2>3. Hosts(l, a)[k] \in Name
    BY <2>1, <2>2, PrefixedName
  <2>4. Beneath(Hosts(l, a)[k], a)
    BY <2>1, <2>2, PrefixedEnds
  <2> QED BY <1>2, <2>1, <2>3, <2>4
<1>3. CASE l = "app_domain"
  <2>1. Hosts(l, a)[k] = a
    BY <1>3 DEF Hosts
  <2> QED BY <1>3, <2>1, BeneathItself
<1> QED BY <1>1, <1>2, <1>3 DEF Lanes

-----------------------------------------------------------------------------
(* What every record of a plan is.                                         *)

Disclosed(r) == \/ IsOwnership(r) \/ IsRouting(r) \/ IsPointer(r)
                \/ IsDkim(r) \/ IsValidation(r) \/ IsServing(r)

AtHome(r) == r.proxied <=>
  /\ IsRouting(r)
  /\ \E s \in config.suffixes : Beneath(r.name, s) /\ Beneath(r.value, s)

Proper(r) == r \in Row /\ Disclosed(r) /\ AtHome(r)

(* A pointer carries the identifier Cloudflare tells, if it tells one.     *)
Current(r) == Told /\ IsPointer(r) => IdentifierIn(r) = dcv[ZoneOf(Lane)]

(* A name of MirrorStack's above one beneath the anchor is above the       *)
(* anchor.                                                                 *)
LEMMA AnchorUnder ==
  ASSUME TypeOK, NEW n \in Name, NEW s \in config.suffixes, Beneath(n, Anchor), Beneath(n, s)
  PROVE  Beneath(Anchor, s)
<1>1. Anchor \in Name /\ s \in Name /\ (Beneath(s, Anchor) => s = Anchor)
  BY GivenTypes
<1>2. Len(Anchor) \in Nat /\ Len(s) \in Nat
  BY <1>1 DEF Name
<1>3. CASE Len(Anchor) >= Len(s)
  BY <1>1, <1>3, BeneathSplit
<1>4. CASE Len(s) >= Len(Anchor)
  BY <1>1, <1>4, BeneathSplit, BeneathItself
<1> QED BY <1>2, <1>3, <1>4

(* A row at an underscore label beneath the anchor is no route.            *)
LEMMA NotRouting ==
  ASSUME TypeOK, NEW r, r.name \in Name, Head(r.name) \in Underscored, Len(r.name) > Len(Anchor)
  PROVE  ~IsRouting(r)
<1>1. Anchor \in Name /\ Len(Anchor) \in Nat /\ Len(r.name) \in Nat
  BY GivenTypes DEF Name
<1>2. r.name[1] \in Underscored
  BY <1>1, Nonempty
<1>3. CASE Lane = "org_platform_domain"
  <2>1. r.name[1] \notin Range(PlatformLabels)
    BY <1>2, Platform DEF Range, LDH
  <2> QED BY <1>3, <2>1 DEF IsRouting
<1>4. CASE Lane = "org_app_domain"
  <2>1. "*" \in Labels /\ "*" \notin Underscored
    BY SpokenLabels DEF Written, Underscored
  <2>2. (<<"*">> \o Anchor)[1] = "*"
    BY <1>1, <2>1, PrefixedEnds
  <2> QED BY <1>2, <1>4, <2>1, <2>2 DEF IsRouting
<1>5. CASE Lane = "app_domain"
  BY <1>1, <1>5 DEF IsRouting
<1> QED BY <1>3, <1>4, <1>5, GivenTypes DEF Lanes

LEMMA OwnershipProper ==
  ASSUME TypeOK
  PROVE  Proper(Ownership(Anchor)) /\ Current(Ownership(Anchor))
<1> DEFINE r == Ownership(Anchor)
<1>1. "_mirrorstack-challenge" \in Labels /\ "proof" \in Labels
  BY SpokenLabels DEF Underscored, Written
<1>2. r.type = "TXT" /\ r.name = <<"_mirrorstack-challenge">> \o Anchor /\ r.proxied = FALSE
  BY DEF Ownership, Rec
<1>3. r.name \in Name \ {<<>>}
  BY <1>1, <1>2, GivenTypes, PrefixedName, PrefixedEnds, OneLabel DEF Name
<1>4. <<"proof">> \in Name
  BY <1>1, OneLabel DEF Name
<1>5. r \in Row
  BY <1>3, <1>4 DEF Row, Ownership, Rec
<1>6. Current(r)
  BY <1>2 DEF Current, IsPointer
<1> QED BY <1>2, <1>5, <1>6 DEF Proper, Disclosed, AtHome, IsOwnership, IsRouting

LEMMA RoutingProper ==
  ASSUME TypeOK, NEW k \in DOMAIN Hosts(Lane, Anchor), IsDomain(Anchor)
  PROVE  /\ Proper(Routing(Effective, Lane, Anchor, Hosts(Lane, Anchor)[k]))
         /\ Current(Routing(Effective, Lane, Anchor, Hosts(Lane, Anchor)[k]))
<1> DEFINE h == Hosts(Lane, Anchor)[k]
           r == Routing(Effective, Lane, Anchor, h)
           target == config.target[ZoneOf(Lane)]
<1>1. /\ h \in Name /\ Beneath(h, Anchor) /\ Lane \in Lanes /\ Anchor \in Name
      /\ Lane = "org_platform_domain" => k \in DOMAIN PlatformLabels /\ h = <<PlatformLabels[k]>> \o Anchor
      /\ Lane = "org_app_domain" => h = <<"*">> \o Anchor
      /\ Lane = "app_domain" => h = Anchor
  BY HostTypes, GivenTypes
<1>2. target \in Name
  BY GivenTypes, ZoneOfType DEF Vocabularies
<1>3. r = Rec("CNAME", h, target, Proxied(Effective, Lane, Anchor))
  BY EffectiveTypes DEF Routing
<1>4. Proxied(Effective, Lane, Anchor) = \E s \in config.suffixes : Beneath(target, s) /\ Beneath(Anchor, s)
  BY EffectiveTypes DEF Proxied
<1>5. Len(h) >= Len(Anchor) /\ h # <<>>
  BY <1>1, BeneathByLabel DEF IsDomain, Name
<1>6. r.type = "CNAME" /\ r.name = h /\ r.value = target /\ r.proxied = Proxied(Effective, Lane, Anchor)
  BY <1>3 DEF Rec
<1>7. IsRouting(r)
  <2>1. CASE Lane = "org_platform_domain"
    <3>1. Tail(h) = Anchor /\ h[1] = PlatformLabels[k]
      <4>1. PlatformLabels[k] \in Labels /\ h = <<PlatformLabels[k]>> \o Anchor
        BY <1>1, <2>1, Platform
      <4> QED BY <1>1, <4>1, PrefixedEnds
    <3> QED BY <1>1, <1>6, <2>1, <3>1 DEF IsRouting, Range
  <2>2. CASE Lane # "org_platform_domain"
    BY <1>1, <1>6, <2>2 DEF IsRouting, Lanes
  <2> QED BY <2>1, <2>2
<1>8. r \in Row
  BY <1>1, <1>2, <1>3, <1>4, <1>5 DEF Row, Rec
<1>9. \A s \in config.suffixes : Beneath(h, s) <=> Beneath(Anchor, s)
  BY <1>1, GivenTypes, AnchorUnder, BeneathTrans
<1>10. Current(r)
  <2>1. Head(h) # "_acme-challenge"
    <3>1. CASE Lane = "org_platform_domain"
      <4>1. PlatformLabels[k] \in Labels /\ LDH(PlatformLabels[k]) /\ h = <<PlatformLabels[k]>> \o Anchor
        BY <1>1, <3>1, Platform
      <4>2. PICK x \in Labels : x = PlatformLabels[k]
        BY <4>1
      <4>3. h = <<x>> \o Anchor /\ Anchor \in Name
        BY <1>1, <4>1, <4>2
      <4>4. Head(h) = PlatformLabels[k]
        BY <4>2, <4>3, PrefixedEnds, ZenonT(30)
      <4> QED BY <4>1, <4>4 DEF LDH, Underscored
    <3>2. CASE Lane = "org_app_domain"
      <4>1. PICK x \in Labels : x = "*"
        BY SpokenLabels DEF Written
      <4>2. h = <<x>> \o Anchor /\ Anchor \in Name
        BY <1>1, <3>2, <4>1
      <4>3. Head(h) = x
        BY <4>2, PrefixedEnds, ZenonT(30)
      <4> QED BY <4>1, <4>3
    <3>3. CASE Lane = "app_domain"
      <4>1. Len(Anchor) # 0 /\ 1 \in DOMAIN Anchor
        BY <1>1 DEF Name, IsDomain
      <4>2. Head(Anchor) = Anchor[1]
        BY <1>1, <4>1, Nonempty
      <4> QED BY <1>1, <3>3, <4>1, <4>2 DEF IsDomain, LDH, Underscored
    <3> QED BY <1>1, <3>1, <3>2, <3>3 DEF Lanes
  <2> QED BY <1>6, <2>1 DEF Current, IsPointer
<1> QED BY <1>4, <1>6, <1>7, <1>8, <1>9, <1>10 DEF Proper, Disclosed, AtHome

LEMMA ConcatName == \A h \in Name, n \in Name : h \o n \in Name
BY DEF Name

LEMMA CdnLabels ==
  ASSUME NEW u \in Identifiers
  PROVE  /\ <<u, "dcv", "cloudflare", "com">> \in Name
         /\ Len(<<u, "dcv", "cloudflare", "com">>) = 4 /\ <<u, "dcv", "cloudflare", "com">>[1] = u
<1>1. u \in Labels /\ "dcv" \in Labels /\ "cloudflare" \in Labels /\ "com" \in Labels
  BY SpokenLabels DEF Written
<1> QED BY <1>1 DEF Name

(* What is told beats what is configured, whichever zone it is told of.    *)
LEMMA ToldIsEffective ==
  ASSUME TypeOK, Told
  PROVE  Identifier(Effective, Lane) = dcv[ZoneOf(Lane)]
<1> DEFINE u == dcv[ZoneOf(Lane)]
<1>1. u # ""
  BY DEF Told, LDH
<1>2. config.uuid \in [Zones -> Identifiers \union {""}] /\ ZoneOf(Lane) \in Zones
  BY GivenTypes, ZoneOfType DEF Vocabularies
<1>3. Effective.uuid = [config.uuid EXCEPT ![ZoneOf(Lane)] = u]
  BY GivenTypes DEF Effective, WithIdentifier, Vocabularies
<1>4. Effective.uuid[ZoneOf(Lane)] = u
  BY <1>2, <1>3
<1> QED BY <1>1, <1>4 DEF Identifier, ZoneOf

(* The identifier of a pointer is where IdentifierIn looks for it.         *)
LEMMA Identified ==
  ASSUME NEW h \in Name, NEW n \in Name, Len(n) = 4
  PROVE  (h \o n)[Len(h \o n) - 3] = n[1]
<1>1. Len(h) \in Nat /\ h \in Seq(Labels) /\ n \in Seq(Labels)
  BY DEF Name
<1>2. /\ Len(h \o n) = Len(h) + Len(n)
      /\ \A k \in 1..(Len(h) + Len(n)) : (h \o n)[k] = IF k <= Len(h) THEN h[k] ELSE n[k - Len(h)]
  BY <1>1, ConcatProperties, Zenon
<1>3. Len(h \o n) - 3 = Len(h) + 1 /\ Len(h) + 1 \in 1..(Len(h) + Len(n))
  BY <1>1, <1>2
<1>4. (h \o n)[Len(h) + 1] = IF Len(h) + 1 <= Len(h) THEN h[Len(h) + 1] ELSE n[(Len(h) + 1) - Len(h)]
  BY <1>2, <1>3
<1>5. ~(Len(h) + 1 <= Len(h)) /\ (Len(h) + 1) - Len(h) = 1
  BY <1>1
<1> QED BY <1>3, <1>4, <1>5

LEMMA PointerProper ==
  ASSUME TypeOK, NEW h \in Name, IsDomain(h), Beneath(h, Anchor), HasIdentifier(Effective, Lane)
  PROVE  Proper(Pointer(Effective, Lane, h)) /\ Current(Pointer(Effective, Lane, h))
<1> DEFINE r == Pointer(Effective, Lane, h)
           u == Identifier(Effective, Lane)
<1>1. u \in Identifiers
  BY EffectiveTypes, GivenTypes, IdentifierTypes
<1>2. r = Rec("CNAME", <<"_acme-challenge">> \o h, h \o <<u, "dcv", "cloudflare", "com">>, FALSE)
  BY DEF Pointer
<1> HIDE DEF r, u
<1>3. /\ r.type = "CNAME" /\ r.name = <<"_acme-challenge">> \o h /\ r.proxied = FALSE
      /\ r.value = h \o <<u, "dcv", "cloudflare", "com">>
  BY <1>2 DEF Rec
<1>4. "_acme-challenge" \in Labels /\ "_acme-challenge" \in Underscored
  BY SpokenLabels DEF Underscored
<1>5. /\ r.name \in Name /\ Head(r.name) = "_acme-challenge" /\ Tail(r.name) = h
      /\ Len(r.name) = Len(h) + 1 /\ Len(h) \in Nat
  <2>1. PICK x \in Labels : x = "_acme-challenge"
    BY <1>4
  <2>2. r.name = <<x>> \o h
    BY <1>3, <2>1
  <2>3. r.name \in Name /\ Len(r.name) = Len(h) + 1 /\ Len(h) \in Nat
    BY <2>2, PrefixedName
  <2>4. Head(r.name) = x /\ Tail(r.name) = h
    BY <2>2, PrefixedEnds, Zenon
  <2> QED BY <2>1, <2>3, <2>4
<1>6. r.value \in Name
  <2>1. PICK tail \in Name : tail = <<u, "dcv", "cloudflare", "com">>
    BY <1>1, CdnLabels
  <2>2. r.value = h \o tail
    BY <1>3, <2>1
  <2> QED BY <2>1, <2>2, ConcatName
<1>7. r.name # <<>>
  BY <1>5
<1>8. r \in Row
  BY <1>2, <1>3, <1>5, <1>6, <1>7 DEF Row, Rec
<1>9. IsPointer(r)
  BY <1>1, <1>3, <1>5 DEF IsPointer
<1>10. ~IsRouting(r)
  <2>1. Len(r.name) > Len(Anchor)
    BY <1>5, GivenTypes, BeneathByLabel DEF Name
  <2> QED BY <1>4, <1>5, <2>1, NotRouting
<1>11. Disclosed(r)
  BY <1>9 DEF Disclosed
<1>12. AtHome(r)
  BY <1>3, <1>10 DEF AtHome
<1>13. Told => u = dcv[ZoneOf(Lane)]
  BY ToldIsEffective DEF u
<1>14. IdentifierIn(r) = u
  <2>1. PICK tail \in Name : /\ tail = <<u, "dcv", "cloudflare", "com">>
                             /\ Len(tail) = 4 /\ tail[1] = u
    BY <1>1, CdnLabels
  <2>2. r.value = h \o tail
    BY <1>3, <2>1
  <2> QED BY <2>1, <2>2, Identified DEF IdentifierIn
<1>15. Current(r)
  BY <1>13, <1>14 DEF Current
<1> QED BY <1>8, <1>11, <1>12, <1>15 DEF Proper, r

LEMMA DomainPrefixed ==
  ASSUME NEW x \in Labels, LDH(x), NEW a \in Name, IsDomain(a)
  PROVE  IsDomain(<<x>> \o a)
<1>0. PICK n : n = <<x>> \o a
  OBVIOUS
<1>1. /\ n \in Name /\ Len(n) = Len(a) + 1 /\ n[1] = x /\ \A k \in 1..Len(a) : n[k + 1] = a[k]
  <2>1. n \in Name 
    BY <1>0, Prefixed
  <2>2. Len(n) = Len(a) + 1
    BY <1>0, Prefixed
  <2>3. n[1] = x
    BY <1>0, Prefixed
  <2>4. \A k \in 1..Len(a) : n[k + 1] = a[k]
    BY <1>0, Prefixed
  <2> QED BY <2>1, <2>2, <2>3, <2>4
<1>2. DOMAIN n = 1..(Len(a) + 1) /\ DOMAIN a = 1..Len(a) /\ Len(a) \in Nat
  BY <1>1 DEF Name
<1>3. ASSUME NEW k \in DOMAIN n
      PROVE  LDH(n[k])
  <2>1. CASE k = 1
    BY <1>1, <2>1
  <2>2. CASE k # 1
    <3>1. k - 1 \in DOMAIN a /\ n[k] = a[k - 1]
      BY <1>1, <1>2, <2>2
    <3> QED BY <3>1 DEF IsDomain
  <2> QED BY <2>1, <2>2
<1>4. Len(n) >= 2
  BY <1>1, <1>2 DEF IsDomain
<1> QED BY <1>0, <1>3, <1>4 DEF IsDomain

Propers == {r \in Row : Proper(r) /\ Current(r)}

LEMMA Singleton == \A r \in Propers : <<r>> \in Seq(Propers)
OBVIOUS

LEMMA RegistrationProper ==
  ASSUME TypeOK, IsDomain(Anchor), HasIdentifier(Effective, Lane)
  PROVE  Registration(Effective, Lane, Anchor) \in Seq(Propers)
<1> DEFINE hosts  == Hosts(Lane, Anchor)
           routes == [k \in DOMAIN hosts |-> Routing(Effective, Lane, Anchor, hosts[k])]
           points == [k \in DOMAIN hosts |-> Pointer(Effective, Lane, hosts[k])]
           rest   == IF Lane = "org_app_domain" THEN <<>> ELSE points
<1>1. DOMAIN hosts = 1..Len(hosts) /\ Len(hosts) \in Nat
  <2>1. Len(PlatformLabels) \in Nat /\ DOMAIN PlatformLabels = 1..Len(PlatformLabels)
    BY LabelsAssumption
  <2>2. CASE Lane = "org_platform_domain"
    <3>1. hosts = [k \in 1..Len(PlatformLabels) |-> <<PlatformLabels[k]>> \o Anchor]
      BY <2>1, <2>2 DEF Hosts, Siblings
    <3> QED BY <2>1, <3>1
  <2>3. CASE Lane # "org_platform_domain"
    <3>1. hosts = << <<"*">> \o Anchor >> \/ hosts = << Anchor >>
      BY <2>3, GivenTypes DEF Hosts, Lanes
    <3> QED BY <3>1
  <2> QED BY <2>2, <2>3
<1>2. <<Ownership(Anchor)>> \in Seq(Propers)
  BY OwnershipProper, Singleton DEF Propers, Proper
<1>3. \A k \in DOMAIN hosts : routes[k] \in Propers
  BY RoutingProper DEF Propers, Proper
<1>4. Lane # "org_app_domain" => \A k \in DOMAIN hosts : points[k] \in Propers
  <2> SUFFICES ASSUME Lane # "org_app_domain", NEW k \in DOMAIN hosts
               PROVE  /\ Proper(Pointer(Effective, Lane, hosts[k]))
                      /\ Current(Pointer(Effective, Lane, hosts[k]))
    BY DEF Propers, Proper
  <2>1. /\ hosts[k] \in Name /\ Beneath(hosts[k], Anchor) /\ Lane \in Lanes /\ Anchor \in Name
        /\ Lane = "org_platform_domain" => k \in DOMAIN PlatformLabels /\ hosts[k] = <<PlatformLabels[k]>> \o Anchor
        /\ Lane = "app_domain" => hosts[k] = Anchor
    BY HostTypes, GivenTypes
  <2>2. IsDomain(hosts[k])
    BY <2>1, Platform, DomainPrefixed DEF Lanes
  <2> QED BY <2>1, <2>2, PointerProper
<1>5. Registration(Effective, Lane, Anchor) = <<Ownership(Anchor)>> \o routes \o rest
  BY DEF Registration, Each
<1> HIDE DEF hosts
<1>6. routes \in Seq(Propers)
  BY <1>1, <1>3
<1>7. rest \in Seq(Propers)
  BY <1>1, <1>4
<1> HIDE DEF routes, rest
<1>8. <<Ownership(Anchor)>> \o routes \o rest \in Seq(Propers)
  BY <1>2, <1>6, <1>7
<1> QED BY <1>5, <1>8

LEMMA DerivedProper ==
  ASSUME TypeOK, NEW slug \in Plans, Refusal(slug) = "none"
  PROVE  /\ Derived(slug) \in Seq(Propers)
         /\ Admits(config, Lane, Anchor) /\ slug \in Bindable /\ HasIdentifier(Effective, Lane)
<1>1. /\ slug \in Bindable /\ Admits(config, Lane, Anchor) /\ HasIdentifier(Effective, Lane)
      /\ slug # NoSlug => LDH(slug)
  BY DEF Refusal
<1>2. IsDomain(Anchor)
  BY <1>1 DEF Admits
<1>3. CASE slug = NoSlug
  BY <1>1, <1>2, <1>3, RegistrationProper DEF Derived
<1>4. CASE slug # NoSlug
  <2>1. slug \in Slugs /\ slug \in Labels /\ Lane = "org_app_domain"
    BY <1>1, <1>4, SpokenLabels DEF Bindable, Plans
  <2>2. /\ <<slug>> \o Anchor \in Name /\ Beneath(<<slug>> \o Anchor, Anchor)
        /\ IsDomain(<<slug>> \o Anchor)
    BY <1>1, <1>2, <1>4, <2>1, GivenTypes, PrefixedName, PrefixedEnds, DomainPrefixed
  <2>3. /\ Proper(Pointer(Effective, Lane, <<slug>> \o Anchor))
        /\ Current(Pointer(Effective, Lane, <<slug>> \o Anchor))
    BY <1>1, <2>2, PointerProper
  <2>4. Derived(slug) = << Pointer(Effective, Lane, <<slug>> \o Anchor) >>
    BY <1>4, <2>1 DEF Derived, BindApp
  <2> QED BY <1>1, <2>3, <2>4, Singleton DEF Propers, Proper
<1> QED BY <1>1, <1>3, <1>4

-----------------------------------------------------------------------------
(* What the upstreams' records are, once they have passed their checks.    *)

LEMMA TwoLabels ==
  ASSUME NEW x \in Labels, NEW y \in Labels
  PROVE  <<x, y>> \in Name /\ Len(<<x, y>>) = 2 /\ <<x, y>>[1] = x /\ <<x, y>>[2] = y
BY DEF Name

LEMMA Spelled ==
  /\ <<"acm-validations", "aws">> \in Name /\ Len(<<"acm-validations", "aws">>) = 2
  /\ <<"acm-validations", "aws">>[2] = "aws"
  /\ <<"amazonses", "com">> \in Name /\ <<"uuid">> \in Name
<1>1. /\ "acm-validations" \in Labels /\ "aws" \in Labels /\ "amazonses" \in Labels
      /\ "com" \in Labels /\ "uuid" \in Labels
  BY SpokenLabels DEF Written
<1> QED BY <1>1, OneLabel, TwoLabels DEF Name

LEMMA ElsewhereType == Elsewhere \in Name
<1>1. "api" \in Labels /\ "other" \in Labels /\ "com" \in Labels
  BY SpokenLabels DEF Written
<1> QED BY <1>1 DEF Elsewhere, Name

LEMMA AllHostTypes ==
  ASSUME TypeOK, NEW h \in AllHosts
  PROVE  h \in Name /\ Beneath(h, Anchor)
<1>1. PICK slug \in Bindable : h \in HostsOf(slug)
  BY DEF AllHosts
<1>2. CASE slug = NoSlug
  <2>1. PICK k \in DOMAIN Hosts(Lane, Anchor) : h = Hosts(Lane, Anchor)[k]
    BY <1>1, <1>2 DEF HostsOf, Range
  <2> QED BY <2>1, GivenTypes, HostTypes
<1>3. CASE slug # NoSlug
  <2>1. slug \in Labels /\ h = <<slug>> \o Anchor
    BY <1>1, <1>3, SpokenLabels DEF Bindable, Plans, HostsOf
  <2>2. h \in Name /\ Beneath(h, Anchor)
    BY <2>1, GivenTypes, PrefixedName, PrefixedEnds
  <2> QED BY <2>1, <2>2
<1> QED BY <1>2, <1>3

(* A record of an upstream's that is a CNAME or a text at an underscore    *)
(* label beneath the anchor.                                               *)
LEMMA RelayedRow ==
  ASSUME TypeOK, NEW n \in Name, n # <<>>, Head(n) \in Underscored, Len(n) > Len(Anchor),
         NEW v \in Name, NEW t \in {"CNAME", "TXT"}, NEW r, r = Rec(t, n, v, FALSE)
  PROVE  r \in Row /\ AtHome(r)
<1>1. r.type = t /\ r.name = n /\ r.value = v /\ r.proxied = FALSE
  BY DEF Rec
<1>2. r \in Row
  BY <1>1 DEF Row, Rec
<1>3. ~IsRouting(r)
  BY <1>1, NotRouting
<1> QED BY <1>1, <1>2, <1>3 DEF AtHome

(* What is beneath Amazon's authority is not beneath Cloudflare's.         *)
LEMMA LastLabel ==
  ASSUME NEW h \in Name, NEW u \in Identifiers, NEW v \in Name,
         Beneath(v, <<"acm-validations", "aws">>)
  PROVE  v # h \o <<u, "dcv", "cloudflare", "com">>
<1>1. PICK n \in Name : n = <<u, "dcv", "cloudflare", "com">> /\ Len(n) = 4 /\ n[4] = "com"
  <2>1. <<u, "dcv", "cloudflare", "com">>[4] = "com"
    OBVIOUS
  <2> QED BY <2>1, CdnLabels
<1>2. PICK a \in Name : a = <<"acm-validations", "aws">> /\ Len(a) = 2 /\ a[2] = "aws"
  BY Spelled
<1>3. v[Len(v)] = "aws"
  <2>0. Beneath(v, a) /\ 2 \in 1..Len(a)
    BY <1>2
  <2>1. v[Len(v) - Len(a) + 2] = a[2]
    BY <2>0, BeneathByLabel
  <2>2. Len(v) \in Nat
    BY DEF Name
  <2> QED BY <1>2, <2>1, <2>2
<1>4. (h \o n)[Len(h \o n)] = n[4]
  <2>1. Len(h) \in Nat /\ h \in Seq(Labels) /\ n \in Seq(Labels)
    BY DEF Name
  <2>2. /\ Len(h \o n) = Len(h) + Len(n)
        /\ \A k \in 1..(Len(h) + Len(n)) : (h \o n)[k] = IF k <= Len(h) THEN h[k] ELSE n[k - Len(h)]
    BY <2>1, ConcatProperties, Zenon
  <2>3. Len(h \o n) = Len(h) + 4 /\ Len(h) + 4 \in 1..(Len(h) + Len(n))
    BY <1>1, <2>1, <2>2
  <2>4. (h \o n)[Len(h) + 4] = IF Len(h) + 4 <= Len(h) THEN h[Len(h) + 4] ELSE n[(Len(h) + 4) - Len(h)]
    BY <2>2, <2>3
  <2>5. ~(Len(h) + 4 <= Len(h)) /\ (Len(h) + 4) - Len(h) = 4
    BY <2>1
  <2> QED BY <2>3, <2>4, <2>5
<1>5. n[4] # "aws"
  BY <1>1
<1>6. v # h \o n
  BY <1>3, <1>4, <1>5
<1> QED BY <1>1, <1>6

LEMMA ValidationProper ==
  ASSUME TypeOK, NEW r \in ValidationRecords(CertificateHosts(Lane, Anchor))
  PROVE  r \in Propers
<1> DEFINE hosts == CertificateHosts(Lane, Anchor)
           authority == <<"acm-validations", "aws">>
<1>1. Lane = "org_platform_domain"
  BY DEF ValidationRecords, CertificateHosts
<1>2. r \in acm /\ CheckedValidation(hosts, r)
  BY DEF ValidationRecords, Bounded, Whole
<1>3. /\ r.type = "CNAME" /\ r.name # <<>> /\ Head(r.name) \in Underscored
      /\ StrictlyBeneath(r.name, hosts) /\ Beneath(r.value, authority)
  BY <1>2 DEF CheckedValidation, RelayedName, StrictlyBeneath
<1>4. PICK c \in Challenges, h \in AllHosts \union {Elsewhere} : r = Validation(c, h)
  <2>1. r # Unreadable
    BY <1>3 DEF Unreadable, Rec
  <2>2. r \in AcmRecords
    BY <1>2 DEF TypeOK
  <2> QED BY <2>1, <2>2 DEF AcmRecords
<1>5. r = Rec("CNAME", r.name, r.value, FALSE) /\ r.name = c[1] \o h /\ r.value = c[2]
  BY <1>4 DEF Validation, Rec
<1>6. r.name \in Name /\ r.value \in Name
  <2>1. c[1] \in Name /\ c[2] \in Name /\ h \in Name
    BY AnswersAssumption, AllHostTypes, ElsewhereType
  <2> QED BY <1>5, <2>1, ConcatName
<1>7. PICK l \in Range(PlatformLabels) \ {"cdn"} :
        r.name # <<l>> \o Anchor /\ Beneath(r.name, <<l>> \o Anchor)
  <2>1. PICK host \in hosts : r.name # host /\ Beneath(r.name, host)
    BY <1>3 DEF StrictlyBeneath
  <2>2. PICK k \in DOMAIN PlatformLabels : host = <<PlatformLabels[k]>> \o Anchor
    BY <1>1, <2>1 DEF CertificateHosts, Siblings, Range
  <2>3. PlatformLabels[k] # "cdn"
    BY <2>1, <2>2 DEF CertificateHosts
  <2> QED BY <2>1, <2>2, <2>3 DEF Range
<1>8. PICK host \in Name : host = <<l>> \o Anchor /\ Len(host) = Len(Anchor) + 1 /\ Len(Anchor) \in Nat
  BY Platform, GivenTypes, PrefixedName DEF Range
<1>9. Len(r.name) > Len(host) /\ Tail(r.name) \in Name /\ Beneath(Tail(r.name), host)
  BY <1>6, <1>7, <1>8, TailBeneath
<1>10. IsValidation(r)
  BY <1>1, <1>3, <1>7, <1>8, <1>9 DEF IsValidation
<1>11. r \in Row /\ AtHome(r)
  <2>1. Len(r.name) > Len(Anchor)
    BY <1>6, <1>8, <1>9 DEF Name
  <2> QED BY <1>3, <1>5, <1>6, <2>1, RelayedRow
<1>12. Current(r)
  <2>1. \A u \in Identifiers : r.value # Tail(r.name) \o <<u, "dcv", "cloudflare", "com">>
    BY <1>3, <1>6, <1>9, LastLabel
  <2> QED BY <2>1 DEF Current, IsPointer
<1> QED BY <1>10, <1>11, <1>12 DEF Propers, Proper, Disclosed

LEMMA DkimProper ==
  ASSUME TypeOK, NEW r \in DkimRecords
  PROVE  r \in Propers
<1>1. Lane = "org_platform_domain"
  BY DEF DkimRecords, SendsMail
<1>2. r \in ses /\ CheckedDkim(r)
  BY DEF DkimRecords, Bounded, Whole
<1>3. PICK t \in Tokens, z \in HostedZones : r = Dkim(t, z)
  <2>1. r # Unreadable
    BY <1>2 DEF CheckedDkim, Unreadable, Rec
  <2>2. ses \in SesAnswers
    BY DEF TypeOK
  <2> QED BY <1>2, <2>1, <2>2 DEF SesAnswers
<1> DEFINE n == <<"_domainkey">> \o Anchor
<1>4. t \in Labels /\ "_domainkey" \in Labels /\ Anchor \in Name /\ z \in Name
  BY SpokenLabels, GivenTypes, AnswersAssumption DEF Underscored
<1>5. /\ r.type = "CNAME" /\ r.name = <<t>> \o n /\ r.value = <<t>> \o z /\ r.proxied = FALSE
      /\ r = Rec("CNAME", <<t>> \o n, <<t>> \o z, FALSE)
  BY <1>3 DEF Dkim, Rec
<1>6. n \in Name /\ Len(n) = Len(Anchor) + 1 /\ Len(Anchor) \in Nat
  BY <1>4, PrefixedName
<1> HIDE DEF n
<1>7. /\ <<t>> \o n \in Name \ {<<>>} /\ Head(<<t>> \o n) = t /\ Tail(<<t>> \o n) = n
      /\ <<t>> \o z \in Name /\ Head(<<t>> \o z) = t
  BY <1>4, <1>6, PrefixedName, PrefixedEnds
<1>8. IsDkim(r)
  <2>1. PICK a \in Name : a = <<"amazonses", "com">>
    BY Spelled
  <2>2. r.value # a /\ Beneath(r.value, a)
    BY <1>2, <2>1 DEF CheckedDkim, StrictlyBeneath
  <2>3. Beneath(Tail(r.value), a)
    BY <1>5, <1>7, <2>2, TailBeneath
  <2> QED BY <1>1, <1>5, <1>7, <2>1, <2>3 DEF IsDkim, n
<1>9. r \in Row
  BY <1>5, <1>7 DEF Row, Rec
<1>10. ~IsRouting(r)
  <2>1. Tail(r.name) # Anchor
    BY <1>5, <1>6, <1>7
  <2> QED BY <1>1, <2>1 DEF IsRouting
<1>11. AtHome(r)
  BY <1>5, <1>10 DEF AtHome
<1>12. Current(r)
  <2>1. PICK x \in Labels : x = "_domainkey"
    BY <1>4
  <2>2. n[1] = x
    BY <1>4, <2>1, PrefixedEnds, Zenon DEF n
  <2>3. 1 \in DOMAIN n
    BY <1>6 DEF Name
  <2>4. ~LDH(x)
    BY <2>1 DEF LDH, Underscored
  <2>5. ~IsDomain(Tail(r.name))
    BY <1>5, <1>7, <2>2, <2>3, <2>4 DEF IsDomain
  <2> QED BY <2>5 DEF Current, IsPointer
<1> QED BY <1>8, <1>9, <1>11, <1>12 DEF Propers, Proper, Disclosed

LEMMA ServingProper ==
  ASSUME TypeOK, NEW slug \in Bindable, NEW r \in ServingProofs(slug)
  PROVE  r \in Propers
<1>1. PICK h \in ServingHosts(slug) : r \in edge[h] /\ CheckedServing(h, r)
  BY DEF ServingProofs
<1>2. h \in AllHosts
  BY <1>1 DEF ServingHosts, AllHosts
<1>3. /\ r.type = "TXT" /\ r.value # <<>> /\ r.name # <<>> /\ Head(r.name) = "_cf-custom-hostname"
      /\ r.name # h /\ Beneath(r.name, h)
  BY <1>1 DEF CheckedServing, RelayedName, StrictlyBeneath
<1>4. PICK p \in Proofs : r = Serving(p, h)
  <2>1. r # Unreadable /\ r # Rec("CNAME", h, <<"uuid">>, FALSE)
    BY <1>3 DEF Unreadable, Rec
  <2>2. edge[h] \in EdgeAnswers(h)
    BY <1>2 DEF TypeOK
  <2> QED BY <1>1, <2>1, <2>2 DEF EdgeAnswers
<1>5. h \in Name /\ Beneath(h, Anchor) /\ Anchor \in Name /\ Len(Anchor) \in Nat
  BY <1>2, AllHostTypes, GivenTypes DEF Name
<1>6. r = Rec("TXT", r.name, <<"uuid">>, FALSE) /\ r.name \in Name
  <2>1. r = Rec("TXT", r.name, <<"uuid">>, FALSE) /\ r.name = p \o h
    BY <1>4 DEF Serving, Rec
  <2> QED BY <1>5, <2>1, AnswersAssumption, ConcatName
<1>7. Len(r.name) > Len(h) /\ Beneath(Tail(r.name), h) /\ Len(h) >= Len(Anchor)
  BY <1>3, <1>5, <1>6, TailBeneath, BeneathByLabel
<1>8. r \in Row /\ AtHome(r)
  <2>1. Len(r.name) > Len(Anchor)
    BY <1>5, <1>6, <1>7 DEF Name
  <2>2. Head(r.name) \in Underscored
    BY <1>3 DEF Underscored
  <2> QED BY <1>3, <1>6, <2>1, <2>2, Spelled, RelayedRow
<1>9. IsServing(r)
  BY <1>2, <1>3, <1>7 DEF IsServing
<1>10. Current(r)
  BY <1>3 DEF Current, IsPointer
<1> QED BY <1>8, <1>9, <1>10 DEF Propers, Proper, Disclosed

(* Every record of a plan is one that was disclosed.                       *)
LEMMA MergedProper ==
  ASSUME TypeOK, NEW slug \in Plans, Refusal(slug) = "none"
  PROVE  /\ \A k \in DOMAIN Merged(slug) : Merged(slug)[k] \subseteq Propers
         /\ Records(Merged(slug)) \subseteq Propers
<1> DEFINE derived == Derived(slug)
           alone == [k \in DOMAIN derived |-> {derived[k]}]
           validations == ValidationRecords(CertificateHosts(Lane, Anchor))
           relayed == <<validations, DkimRecords, ServingProofs(slug)>>
<1>1. Merged(slug) = alone \o relayed
  BY DEF Merged, Each, Relayed
<1>2. /\ derived \in Seq(Propers) /\ IsDomain(Anchor) /\ slug \in Bindable
  BY DerivedProper DEF Admits
<1>3. validations \subseteq Propers
  BY <1>2, ValidationProper
<1>4. DkimRecords \subseteq Propers /\ ServingProofs(slug) \subseteq Propers
  BY <1>2, DkimProper, ServingProper
<1> HIDE DEF derived, validations
<1>5. alone \in Seq(SUBSET Propers)
  BY <1>2
<1>6. relayed \in Seq(SUBSET Propers)
  BY <1>3, <1>4
<1> HIDE DEF alone, relayed
<1>7. Merged(slug) \in Seq(SUBSET Propers)
  BY <1>1, <1>5, <1>6
<1>8. \A k \in DOMAIN Merged(slug) : Merged(slug)[k] \subseteq Propers
  BY <1>7
<1> QED BY <1>8 DEF Records, Range

-----------------------------------------------------------------------------
(* The invariant: every row is a proper one, beneath an anchor that may be *)
(* connected at all.                                                       *)

Kept == \A r \in zone : Proper(r) /\ Beneath(r.name, Anchor) /\ Admits(config, Lane, Anchor)

Inv == TypeOK /\ Kept

LEMMA GivenStands ==
  ASSUME UNCHANGED given
  PROVE  /\ AllHosts' = AllHosts /\ AcmRecords' = AcmRecords /\ SesAnswers' = SesAnswers
         /\ \A h : EdgeAnswers(h)' = EdgeAnswers(h)
         /\ \A r : /\ Proper(r)' <=> Proper(r)
                   /\ Beneath(r.name, Anchor)' <=> Beneath(r.name, Anchor)
         /\ Admits(config, Lane, Anchor)' <=> Admits(config, Lane, Anchor)
<1>1. config' = config /\ Lane' = Lane /\ Anchor' = Anchor
  BY DEF given, Lane, Anchor
<1>2. AllHosts' = AllHosts
  BY <1>1 DEF AllHosts, HostsOf, Bindable, Plans, Hosts, Siblings
<1>3. AcmRecords' = AcmRecords
  BY <1>1, <1>2 DEF AcmRecords, Validation, Elsewhere, CertificateHosts
<1>4. SesAnswers' = SesAnswers
  BY <1>1 DEF SesAnswers, SendsMail, Dkim
<1>5. \A h : EdgeAnswers(h)' = EdgeAnswers(h)
  BY DEF EdgeAnswers, Serving
<1>6. ASSUME NEW r
      PROVE  /\ IsOwnership(r)' = IsOwnership(r) /\ IsRouting(r)' = IsRouting(r)
             /\ IsPointer(r)' = IsPointer(r) /\ IsDkim(r)' = IsDkim(r)
             /\ IsValidation(r)' = IsValidation(r) /\ IsServing(r)' = IsServing(r)
  BY <1>1, <1>2 DEF IsOwnership, IsRouting, IsPointer, IsDkim, IsValidation, IsServing
<1>7. ASSUME NEW r
      PROVE  Proper(r)' <=> Proper(r)
  BY <1>1, <1>6 DEF Proper, Disclosed, AtHome
<1>8. Admits(config, Lane, Anchor)' <=> Admits(config, Lane, Anchor)
  BY <1>1
<1> QED BY <1>1, <1>2, <1>3, <1>4, <1>5, <1>7, <1>8

LEMMA TypeInit == Init => Inv
<1> SUFFICES ASSUME Init PROVE Inv
  OBVIOUS
<1> USE DEF Init
<1>1. PICK d \in Deployments : config = d.config /\ reg = d.reg
  OBVIOUS
<1>2. [config |-> config, reg |-> reg] \in Deployments
  BY <1>1, DeploymentsAssumption
<1>3. ses \in SesAnswers /\ acm \subseteq AcmRecords
  BY DEF SesAnswers
<1>4. DOMAIN edge = AllHosts /\ \A h \in AllHosts : edge[h] \in EdgeAnswers(h)
  BY DEF EdgeAnswers
<1>5. /\ dcv \in [Zones -> Identifiers \union {"none", "failed"}] /\ zone \subseteq Row
      /\ answer = "none" /\ changes \in 0..MaxChanges
  BY BoundsAssumption
<1> QED BY <1>2, <1>3, <1>4, <1>5 DEF Inv, TypeOK, Kept

(* What a pass may write, whatever it answers.                             *)
LEMMA WritesProper ==
  ASSUME Inv, NEW slug \in Plans, Refusal(slug) = "none", Bounds(Records(Merged(slug))) = "none",
         NEW n, WriteUpTo(Merged(slug), n), UNCHANGED <<given, upstream, changes>>
  PROVE  zone' \subseteq Row /\ Kept'
<1> DEFINE plan == Merged(slug)
<1>0. TypeOK
  BY DEF Inv
<1>1. zone' \subseteq zone \union Records(plan)
  BY DEF WriteUpTo, Before, Records, Range
<1>2. \A r \in Records(plan) : r \in Row /\ Proper(r)
  BY <1>0, MergedProper DEF Propers
<1>3. \A r \in Records(plan) : Beneath(r.name, Anchor)
  BY DEF Bounds
<1>4. Admits(config, Lane, Anchor)
  BY <1>0, DerivedProper
<1> HIDE DEF plan
<1>5. \A r \in zone' : r \in Row /\ Proper(r) /\ Beneath(r.name, Anchor) /\ Admits(config, Lane, Anchor)
  BY <1>1, <1>2, <1>3, <1>4 DEF Inv, TypeOK, Kept
<1> QED BY <1>5, GivenStands DEF Kept

LEMMA InvStep == Inv /\ [Next]_vars => Inv'
<1> SUFFICES ASSUME Inv, [Next]_vars PROVE Inv'
  OBVIOUS
<1>1. ASSUME UNCHANGED <<given, upstream, changes>>, zone' \subseteq Row, Kept',
             answer' \in {"none", "unavailable", "invalid", "preparing", "escape",
                          "conflicting", "published", "name_in_use", "cut"}
      PROVE  Inv'
  BY <1>1, GivenStands DEF Inv, TypeOK, given, upstream
<1>2. ASSUME UNCHANGED given, zone' \subseteq zone
      PROVE  zone' \subseteq Row /\ Kept'
  BY <1>2, GivenStands DEF Inv, TypeOK, Kept
<1>3. ASSUME NEW slug \in Plans, Pass(slug)
      PROVE  Inv'
  <2>1. UNCHANGED <<given, upstream, changes>>
    BY <1>3 DEF Pass
  <2>2. CASE Refusal(slug) # "none"
    <3>1. UNCHANGED zone /\ answer' = Refusal(slug)
      BY <1>3, <2>2 DEF Pass, Decline
    <3>2. Refusal(slug) \in {"invalid", "unavailable", "none"}
      BY DEF Refusal
    <3> QED BY <1>1, <1>2, <2>1, <3>1, <3>2
  <2>3. CASE Refusal(slug) = "none" /\ Bounds(Records(Merged(slug))) # "none"
    <3>1. UNCHANGED zone /\ answer' = Bounds(Records(Merged(slug)))
      BY <1>3, <2>3 DEF Pass, Decline
    <3>2. Bounds(Records(Merged(slug))) \in {"preparing", "escape", "conflicting", "none"}
      BY DEF Bounds
    <3> QED BY <1>1, <1>2, <2>1, <3>1, <3>2
  <2>4. CASE Refusal(slug) = "none" /\ Bounds(Records(Merged(slug))) = "none"
    <3>1. Publish(Merged(slug), Stop(Merged(slug)))
      BY <1>3, <2>4 DEF Pass
    <3>2. zone' \subseteq Row /\ Kept'
      BY <2>1, <2>4, <3>1, WritesProper DEF Publish
    <3>3. answer' \in {"published", "name_in_use"}
      BY <3>1 DEF Publish
    <3> QED BY <1>1, <2>1, <3>2, <3>3
  <2> QED BY <2>2, <2>3, <2>4
<1>4. ASSUME NEW slug \in Plans, CutShort(slug)
      PROVE  Inv'
  <2>1. UNCHANGED <<given, upstream, changes>> /\ answer' = "cut"
    BY <1>4 DEF CutShort
  <2>2. PICK n : WriteUpTo(Merged(slug), n)
    BY <1>4 DEF CutShort
  <2>3. zone' \subseteq Row /\ Kept'
    BY <1>4, <2>1, <2>2, WritesProper DEF CutShort
  <2> QED BY <1>1, <2>1, <2>3
<1>5. CASE CustomerDeletes
  <2>1. UNCHANGED <<given, upstream, answer>> /\ zone' \subseteq zone /\ changes' \in 0..MaxChanges
    BY <1>5, BoundsAssumption DEF CustomerDeletes, Changes, Inv, TypeOK
  <2> QED BY <1>2, <2>1, GivenStands DEF Inv, TypeOK, given, upstream
<1>6. CASE UpstreamChanges
  <2>1. UNCHANGED <<given, zone, answer>> /\ changes' \in 0..MaxChanges
    BY <1>6, BoundsAssumption DEF UpstreamChanges, Changes, Inv, TypeOK
  <2>2. acm' \subseteq AcmRecords /\ ses' \in SesAnswers
    BY <1>6 DEF UpstreamChanges, Inv, TypeOK
  <2>3. DOMAIN edge' = AllHosts /\ \A h \in AllHosts : edge'[h] \in EdgeAnswers(h)
    BY <1>6 DEF UpstreamChanges, Inv, TypeOK
  <2>4. dcv' \in [Zones -> Identifiers \union {"none", "failed"}]
    BY <1>6 DEF UpstreamChanges, Inv, TypeOK
  <2> QED BY <1>2, <2>1, <2>2, <2>3, <2>4, GivenStands DEF Inv, TypeOK, given
<1>7. CASE UNCHANGED vars
  BY <1>2, <1>7, GivenStands DEF vars, given, upstream, Inv, TypeOK
<1> QED BY <1>3, <1>4, <1>5, <1>6, <1>7 DEF Next

(* What a step adds is of a plan, made from what is told in that step.     *)
LEMMA AddsCurrent ==
  ASSUME Inv, [Next]_vars, NEW r \in zone' \ zone
  PROVE  Current(r)
<1>1. TypeOK
  BY DEF Inv
<1>2. ASSUME NEW slug \in Plans, NEW n, WriteUpTo(Merged(slug), n), Refusal(slug) = "none"
      PROVE  Current(r)
  <2>1. r \in Records(Merged(slug))
    BY <1>2 DEF WriteUpTo, Before, Records, Range
  <2> QED BY <1>1, <1>2, <2>1, MergedProper DEF Propers
<1>3. ASSUME NEW slug \in Plans, Pass(slug)
      PROVE  Current(r)
  <2>1. zone' # zone
    OBVIOUS
  <2>2. Refusal(slug) = "none" /\ Bounds(Records(Merged(slug))) = "none"
    BY <1>3, <2>1 DEF Pass, Decline
  <2>3. Publish(Merged(slug), Stop(Merged(slug)))
    BY <1>3, <2>2 DEF Pass
  <2> QED BY <1>2, <2>2, <2>3 DEF Publish
<1>4. ASSUME NEW slug \in Plans, CutShort(slug)
      PROVE  Current(r)
  BY <1>2, <1>4 DEF CutShort
<1>5. ~UpstreamChanges /\ ~CustomerDeletes /\ ~UNCHANGED vars
  BY DEF UpstreamChanges, CustomerDeletes, vars
<1> QED BY <1>3, <1>4, <1>5 DEF Next

LEMMA InvHolds == Spec => []Inv
BY TypeInit, InvStep, PTL DEF Spec

(* Every variable keeps its type, and every row is one a zone can hold.    *)
THEOREM TypeCorrect == Spec => []TypeOK
<1>1. Inv => TypeOK
  BY DEF Inv
<1> QED BY <1>1, InvHolds, PTL

(* Whatever names and targets Amazon and Cloudflare answer with, and       *)
(* wherever passes are cut short, the engine's rows are of the kinds and   *)
(* at the names a customer consents to (internal/derive, internal/relay).  *)
THEOREM OnlyAsDisclosedHolds == Spec => []OnlyAsDisclosed
<1>1. Inv => OnlyAsDisclosed
  BY DEF Inv, Kept, Proper, Disclosed, OnlyAsDisclosed
<1> QED BY <1>1, InvHolds, PTL

(* MirrorStack's own names are out of reach but for an anchor exempted by  *)
(* itself, as long as none of them lies strictly beneath an anchor         *)
(* (lane.ValidateDomainExempt).                                            *)
THEOREM PlatformKeptOutHolds == Spec => []PlatformKeptOut
<1>1. Inv => PlatformKeptOut
  <2> SUFFICES ASSUME Inv, NEW r \in zone, NEW s \in config.suffixes, Beneath(r.name, s)
               PROVE  Anchor \in config.exempt[Lane]
    BY DEF PlatformKeptOut, Under
  <2>1. Beneath(r.name, Anchor) /\ Admits(config, Lane, Anchor) /\ r.name \in Name
    BY DEF Inv, TypeOK, Kept, Row
  <2>2. Beneath(Anchor, s)
    BY <2>1, AnchorUnder DEF Inv
  <2>3. Under(Anchor, Reserved(config))
    BY <2>2 DEF Under, Reserved
  <2> QED BY <2>1, <2>3 DEF Admits
<1> QED BY <1>1, InvHolds, PTL

(* A row is proxied just where the edge it points into serves it           *)
(* (derive.proxyRouting).                                                  *)
THEOREM ProxiedAtHomeHolds == Spec => []ProxiedAtHome
<1>1. Inv => ProxiedAtHome
  BY DEF Inv, Kept, Proper, AtHome, ProxiedAtHome
<1> QED BY <1>1, InvHolds, PTL

(* A pointer that is written while Cloudflare can be read carries the      *)
(* identifier it tells for the zone of this lane, whatever is configured   *)
(* and in whatever order the passes and the answers come (deriveFor,       *)
(* Config.WithIdentifier).                                                 *)
THEOREM PointerFollowsZoneHolds == Spec => PointerFollowsZone
<1>1. Inv /\ [Next]_vars =>
        [(Told =>
            \A r \in {q \in zone' \ zone : IsPointer(q)} : IdentifierIn(r) = dcv[ZoneOf(Lane)])]_vars
  BY AddsCurrent DEF Current
<1> QED BY <1>1, InvHolds, PTL DEF Spec, PointerFollowsZone
=============================================================================
