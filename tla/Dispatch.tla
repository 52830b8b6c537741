------------------------------ MODULE Dispatch ------------------------------
(***************************************************************************)
(* cmd/dns-delegate-api, the boundary every RPC crosses on its way back:   *)
(* errorCode turns what the engine refused with into the one word the      *)
(* caller acts on.  Go's errors wrap one another, so an error here is the  *)
(* set of the sentinels errors.Is finds in it, and the first arm of        *)
(* errorCode that finds one decides.                                       *)
(***************************************************************************)
EXTENDS Integers, Sequences

(* Sentinels that carry a general one wherever they go (errors.go,         *)
(* derive.go), and the wrappings of internal/intent and internal/sealed.   *)
ConfigError   == {"ErrConfig", "ErrDerive"}
AnchorEscape  == {"ErrAnchorEscape", "ErrPlanInvalid"}

(* A reserved suffix or an exemption the operator mistyped: lane refuses   *)
(* every domain for it, and derive wraps that as it does a bad domain.     *)
MalformedList == {"lane.ErrInvalid", "ErrDerive"}

(* An envelope sealed under a key this instance does not hold; one that    *)
(* opens, too late; a plan that moved; an authorization code the provider  *)
(* did not exchange.                                                       *)
UnknownKey     == {"ErrInvalidRequest", "ErrInvalidEnvelope", "ErrUnknownKey"}
Stale          == {"ErrInvalidRequest", "ErrExpired"}
PlanChanged    == {"ErrPlanChanged"}
ExchangeFailed == {"ErrUnavailable"}

(* deriveError: the deployment's fault before the request's.               *)
deriveError(err) ==
  IF "ErrConfig" \in err THEN err \union {"ErrUnavailable"}
  ELSE IF "ErrDerive" \in err THEN err \union {"ErrInvalidRequest"} ELSE err

-----------------------------------------------------------------------------
Arm(sentinels, code) == [is |-> sentinels, code |-> code]

Arms ==
  << Arm({"errUnknownAction"},   "unknown_action"),
     Arm({"ErrExpired"},         "state_expired"),
     Arm({"ErrNotProven"},       "not_proven"),
     Arm({"ErrConsentRequired"}, "consent_required"),
     Arm({"ErrConfig"},          "unavailable"),
     Arm({"ErrDerive"},          "invalid_request"),
     Arm({"ErrAnchorEscape"},    "anchor_escape"),
     Arm({"ErrPlanChanged"},     "plan_changed"),
     Arm({"ErrPlanPreparing"},   "plan_preparing"),
     Arm({"ErrPlanInvalid"},     "plan_invalid"),
     Arm({"errInvalidInput", "ErrInvalidRequest", "lane.ErrInvalid"}, "invalid_request"),
     Arm({"ErrUnavailable"},     "unavailable") >>

Finds(n, err) == Arms[n].is \cap err # {}

FirstArm(err) == CHOOSE n \in DOMAIN Arms : Finds(n, err) /\ \A k \in 1..(n - 1) : ~Finds(k, err)

(* Mutant: the general refusal tested above the specific ones it carries.  *)
errorCodeGeneral(err) ==
  IF "ErrInvalidRequest" \in err THEN "invalid_request"
  ELSE IF \E n \in DOMAIN Arms : Finds(n, err) THEN Arms[FirstArm(err)].code ELSE "internal"

errorCode(err) ==
  IF \E n \in DOMAIN Arms : Finds(n, err) THEN Arms[FirstArm(err)].code ELSE "internal"

-----------------------------------------------------------------------------
(* What the caller does with the word.  "unavailable" and "internal" it    *)
(* takes for a retry; a stale screen sends it back to the plan; a request  *)
(* or a plan that is wrong makes it give up on the domain.                 *)
Retries(code) == code \in {"unavailable", "internal", "plan_preparing"}
GivesUp(code) == code \in {"unknown_action", "invalid_request", "anchor_escape", "plan_invalid"}
=============================================================================
