------------------------------ MODULE MCPasses ------------------------------
EXTENDS Passes

Org == <<"ms", "ai">>
App == <<"ms", "app">>
Hosted   == <<"stage", "ms", "ai">>  \* staging hosts, one in each zone
Crossed  == <<"stage", "ms", "app">>
Customer == <<"d", "com">>

Nobody == [l \in Lanes |-> {}]
Staging == [Nobody EXCEPT !["org_platform_domain"] = {Hosted},
                          !["org_app_domain"] = {Hosted, Crossed}]
Careless == [Nobody EXCEPT !["org_platform_domain"] = {Org}]

Vocabulary(exempt, org, app) ==
  [target |-> [z \in Zones |-> IF z = "org" THEN <<"connect">> \o Org ELSE <<"connect">> \o App],
   suffixes |-> {Org, App}, exempt |-> exempt, uuid |-> [z \in Zones |-> IF z = "org" THEN org ELSE app]]

At(l, a) == [lane |-> l, anchor |-> a]
Of(c, regs) == {[config |-> c, reg |-> r] : r \in regs}

MCDeployments ==
  Of(Vocabulary(Nobody, "u0", ""), {At("org_app_domain", Customer)})
    \union Of(Vocabulary(Nobody, "", "u0"),
             {At("app_domain", Customer)})
    \union Of(Vocabulary(Nobody, "", ""),
             {At("app_domain", Customer)})
    \union Of(Vocabulary(Staging, "u0", "u0"),
             {At("org_platform_domain", Hosted), At("org_app_domain", Hosted),
              At("org_app_domain", Crossed), At("app_domain", Crossed),
              At("org_platform_domain", <<"api">> \o Hosted)})
    \union Of(Vocabulary(Careless, "u0", "u0"), {At("org_platform_domain", Customer)})

(* A record in order, one issued anew, one where the plan has its pointer, *)
(* one deeper down, and one that points elsewhere.                         *)
Authority(label) == <<label, "acm-validations", "aws">>
MCChallenges ==
  { << <<"_token">>, Authority("v")>>, << <<"_token">>, Authority("w")>>,
    << <<"_acme-challenge">>, Authority("v")>>, << <<"_token", "deep">>, Authority("v")>>,
    << <<"_token">>, <<"v", "com">> >> }

(* In this region and in another; and a zone that is not Amazon's.         *)
MCHostedZones == { <<"dkim", "amazonses", "com">>, <<"dkim", "eu-west-3", "amazonses", "com">>, <<"com">> }

(* In front of the host, deeper down, and at the host itself.              *)
MCProofs == { <<"_cf-custom-hostname">>, <<"_cf-custom-hostname", "deep">>, <<>> }

MCPlatform == <<"api", "cdn">>
MCLabels   == Underscored \union Written \union {"cdn", "ms", "ai", "app", "stage", "d", "connect",
               "blog", "u0", "u1", "a.b", "t1", "t2", "v", "w", "deep", "dkim", "eu-west-3"}
=============================================================================
