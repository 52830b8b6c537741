--------------------------- MODULE GrantLifecycle ---------------------------
(***************************************************************************)
(* internal/intent: the credential half of Complete, Advance and           *)
(* BindAppToOrgAppDomain (op "pass"), Orphans and Release, each call a     *)
(* sequence of steps: refusals, then exchange or open and refresh, then    *)
(* seal, publish, and revoke what could not be held.                       *)
(*                                                                         *)
(* Around them: the provider's OAuth server, which replaces the refresh    *)
(* token on use and then knows only the new one; the caller, which stores  *)
(* one envelope per registration and follows the contract of types.go; the *)
(* customer, who may authorize again and may revoke; the operator, who may *)
(* replace the OAuth client's secret.  What Publish does to the zone is    *)
(* Reconcile; here it is one step with its outcome.                        *)
(***************************************************************************)
EXTENDS Naturals

CONSTANTS Calls,      \* calls of the engine, each made at most once
          Regs,       \* sealed registrations: lane, identity, anchor
          MaxGrants,  \* bound: authorizations the customer ever gives
          MaxFaults,  \* bound: lost messages, unreadable keysets, crashes
          MaxOutside, \* bound: revocations in the customer's dashboard and
                      \* replacements of the OAuth client's secret
          OneAtATime  \* the caller waits for an answer before the next call
                      \* for the same registration

Grants == 1..MaxGrants
Ops    == {"complete", "pass", "orphans", "release"}

(* A refresh token: the n-th the provider issued under grant g.            *)
Token    == [grant : Grants, n : Nat \ {0}]
NoToken  == [grant |-> 0, n |-> 0]
NoReg    == "no registration"

(* A sealed grant.  Opening needs the associated data it was sealed under. *)
Envelope == [token : Token, aad : Regs]
NoEnv    == [token |-> NoToken, aad |-> NoReg]
Job      == [op : Ops, reg : Regs, env : Envelope \union {NoEnv}]
NoJob    == [op |-> "none", reg |-> NoReg, env |-> NoEnv]

Results  == {"none", "error", "deferred", "manual", "published", "report",
             "released", "unreadable"}
Failures == {"none", "no_grant", "token_unreadable", "invalid_grant",
             "provider_failure", "plan_preparing", "reseal_failed"}

ASSUME BoundsAssumption == MaxGrants \in Nat /\ MaxFaults \in Nat /\ MaxOutside \in Nat
ASSUME RegsAssumption   == NoReg \notin Regs
ASSUME ModeAssumption   == OneAtATime \in BOOLEAN

VARIABLES
  codes,    \* registrations whose authorization code is not yet spent
  minted,   \* grants the provider ever issued: 1..minted
  owner,    \* grant -> the registration its code was issued for
  current,  \* grant -> the refresh token the provider accepts; 0 when none
  row,      \* the caller's column: registration -> stored envelope
  pc, job,  \* per call: control point, what it was asked
  hand,     \* per call: the refresh token it holds in memory
  sealed,   \* per call: the envelope its answer carries
  answer,   \* per call: result, failure code and the Revoked flag
  outdated, \* the provider refuses the client some instance still presents
  faults, outside,  \* how much of the budgets is used
  lapsed    \* history: grants that something befell

provider == <<codes, minted, owner, current>>
calls    == <<pc, job, hand, sealed, answer>>
vars     == <<provider, row, calls, outdated, faults, outside, lapsed>>

NoAnswer == [result |-> "none", failure |-> "none", revoked |-> FALSE]

InFlight == {"plan", "exchange", "open", "refresh", "seal", "publish", "read", "revoke", "answer"}

TypeOK ==
  /\ codes \subseteq Regs /\ minted \in 0..MaxGrants
  /\ owner \in [Grants -> Regs \union {NoReg}] /\ current \in [Grants -> Nat]
  /\ row \in [Regs -> Envelope \union {NoEnv}]
  /\ pc \in [Calls -> InFlight \union {"idle", "done"}]
  /\ job \in [Calls -> Job \union {NoJob}]
  /\ hand \in [Calls -> Token \union {NoToken}]
  /\ sealed \in [Calls -> Envelope \union {NoEnv}]
  /\ answer \in [Calls -> [result : Results, failure : Failures, revoked : BOOLEAN]]
  /\ outdated \in BOOLEAN /\ faults \in 0..MaxFaults /\ outside \in 0..MaxOutside
  /\ lapsed \subseteq Grants
  /\ \A c \in Calls : pc[c] \in InFlight => job[c] \in Job
  /\ \A c \in Calls : pc[c] = "refresh" => job[c].env \in [token : Token, aad : {job[c].reg}]

Init ==
  /\ codes = {} /\ minted = 0
  /\ owner = [g \in Grants |-> NoReg] /\ current = [g \in Grants |-> 0]
  /\ row = [r \in Regs |-> NoEnv]
  /\ pc = [c \in Calls |-> "idle"]     /\ job = [c \in Calls |-> NoJob]
  /\ hand = [c \in Calls |-> NoToken]  /\ sealed = [c \in Calls |-> NoEnv]
  /\ answer = [c \in Calls |-> NoAnswer]
  /\ outdated = FALSE /\ faults = 0 /\ outside = 0 /\ lapsed = {}

Fault == faults < MaxFaults /\ faults' = faults + 1

Befalls(g) == lapsed' = lapsed \union ({g} \cap Grants)

Goto(c, l) == pc' = [pc EXCEPT ![c] = l]

(* The answer is decided; the caller has yet to receive it.                *)
Says(c, result, failure, revoked) ==
  answer' = [answer EXCEPT ![c] =
               [result |-> result, failure |-> failure, revoked |-> revoked]]

Answers(c, result, failure, revoked) ==
  Says(c, result, failure, revoked) /\ Goto(c, "answer")

Reg(c) == job[c].reg
Op(c)  == job[c].op

-----------------------------------------------------------------------------
(* The customer, the operator and the caller.                              *)

(* For the first time, or once more while an earlier grant is stored.      *)
Approve(r) ==
  /\ r \notin codes /\ minted < MaxGrants
  /\ codes' = codes \union {r}
  /\ UNCHANGED <<minted, owner, current, row, calls, outdated, faults, outside, lapsed>>

Outside == outside < MaxOutside /\ outside' = outside + 1

CustomerRevokes(g) ==
  /\ Outside /\ current[g] # 0
  /\ current' = [current EXCEPT ![g] = 0]
  /\ UNCHANGED <<codes, minted, owner, row, calls, outdated, faults, lapsed>>

(* The client's secret is replaced; until every instance has it (Caches),  *)
(* the token endpoint may answer any request with 400 or 401.              *)
ClientReplaced ==
  /\ Outside /\ ~outdated /\ outdated' = TRUE
  /\ UNCHANGED <<provider, row, calls, faults, lapsed>>

ClientReloaded ==
  /\ outdated /\ outdated' = FALSE
  /\ UNCHANGED <<provider, row, calls, faults, outside, lapsed>>

Refused == outdated /\ UNCHANGED faults

Free(r) == OneAtATime => \A c \in Calls : pc[c] \in InFlight => Reg(c) # r

(* The caller sends the envelope it stores; Complete takes a code instead, *)
(* which a reloaded callback may already have spent.                       *)
Start(c, op, r) ==
  /\ pc[c] = "idle" /\ Free(r)
  /\ Goto(c, "plan")
  /\ job' = [job EXCEPT ![c] =
               [op |-> op, reg |-> r, env |-> IF op = "complete" THEN NoEnv ELSE row[r]]]
  /\ UNCHANGED <<provider, row, hand, sealed, answer, outdated, faults, outside, lapsed>>

(* A row of the caller's database copied over another one.                 *)
Misfile(r, s) ==
  /\ row[r] # NoEnv /\ row[s] = NoEnv /\ Fault
  /\ row' = [row EXCEPT ![s] = row[r]]
  /\ UNCHANGED <<provider, calls, outdated, outside, lapsed>>

(* The call is over, and nothing of it is left in memory.                  *)
Ends(c) ==
  /\ Goto(c, "done")
  /\ job' = [job EXCEPT ![c] = NoJob]        /\ hand' = [hand EXCEPT ![c] = NoToken]
  /\ sealed' = [sealed EXCEPT ![c] = NoEnv]  /\ answer' = [answer EXCEPT ![c] = NoAnswer]

(* types.go: persist a SealedToken; discard the stored one only on Revoked *)
(* or a failure code that says the grant is dead; otherwise keep it.       *)
Discards(c) == \/ answer[c].revoked \/ answer[c].result = "unreadable"
               \/ answer[c].failure \in {"token_unreadable", "invalid_grant", "reseal_failed"}

Stores(c) == IF sealed[c] # NoEnv THEN sealed[c]
             ELSE IF Discards(c) THEN NoEnv ELSE row[Reg(c)]

(* An answer to Complete, which was not sent the stored envelope, may take *)
(* its place or have it discarded: nothing then names the earlier grant.   *)
Replaces(c) == /\ Op(c) = "complete" /\ Stores(c) # row[Reg(c)]
               /\ row[Reg(c)].aad = Reg(c)

Deliver(c) ==
  /\ pc[c] = "answer" /\ Ends(c)
  /\ row' = [row EXCEPT ![Reg(c)] = Stores(c)]
  /\ IF Replaces(c) THEN Befalls(row[Reg(c)].token.grant) ELSE UNCHANGED lapsed
  /\ UNCHANGED <<provider, outdated, faults, outside>>

(* The instance dies, or the answer never reaches the caller.              *)
Lost(c) ==
  /\ pc[c] \in InFlight /\ Fault /\ Ends(c)
  /\ Befalls(hand[c].grant)
  /\ UNCHANGED <<provider, row, outdated, outside>>

-----------------------------------------------------------------------------
(* Everything before the credential: configuration, registration, digest,  *)
(* proof, relay, write set.  Each may refuse; none touches the credential. *)

Refuse(c) ==
  /\ pc[c] = "plan"
  /\ \/ Answers(c, "error", "none", FALSE)
     \/ Op(c) \in {"complete", "pass"} /\ Answers(c, "deferred", "plan_preparing", FALSE)
     \/ Op(c) = "orphans" /\ Answers(c, "report", "none", FALSE)
  /\ UNCHANGED <<provider, row, job, hand, sealed, outdated, faults, outside, lapsed>>

Proceed(c) ==
  /\ pc[c] = "plan"
  /\ Goto(c, IF Op(c) = "complete" THEN "exchange" ELSE "open")
  /\ UNCHANGED <<provider, row, job, hand, sealed, answer, outdated, faults, outside, lapsed>>

-----------------------------------------------------------------------------
(* exchange: the provider spends the code and issues the grant's first     *)
(* token, or an access token with no refresh token behind it.              *)

Issues(r, first) ==
  /\ r \in codes /\ minted < MaxGrants
  /\ codes' = codes \ {r} /\ minted' = minted + 1
  /\ owner' = [owner EXCEPT ![minted + 1] = r]
  /\ current' = [current EXCEPT ![minted + 1] = first]

Exchange(c) ==
  /\ pc[c] = "exchange"
  /\ \E first \in {0, 1} :
       /\ Issues(Reg(c), first)
       /\ hand' = [hand EXCEPT ![c] = IF first = 0 THEN NoToken
                                      ELSE [grant |-> minted + 1, n |-> 1]]
  /\ Goto(c, "seal")
  /\ UNCHANGED <<row, job, sealed, answer, outdated, faults, outside, lapsed>>

(* The answer to the exchange is lost, or the provider is not reached or   *)
(* refuses the client.                                                     *)
LoseExchange(c) ==
  /\ pc[c] = "exchange"
  /\ \/ Fault /\ Issues(Reg(c), 1) /\ Befalls(minted + 1)
     \/ (Fault \/ Refused) /\ UNCHANGED <<provider, lapsed>>
  /\ Answers(c, "error", "none", FALSE)
  /\ UNCHANGED <<row, job, hand, sealed, outdated, outside>>

(* A code somebody else's call has spent.                                  *)
SpentCode(c) ==
  /\ pc[c] = "exchange" /\ Reg(c) \notin codes
  /\ Answers(c, "error", "none", FALSE)
  /\ UNCHANGED <<provider, row, job, hand, sealed, outdated, faults, outside, lapsed>>

-----------------------------------------------------------------------------
(* resolveGrant and Release: open the envelope under the registration's    *)
(* own associated data, and nothing else.                                  *)

(* Mutant: associated data that leaves the registration out.               *)
OpensAnywhere(c) == job[c].env # NoEnv

Opens(c) == job[c].env # NoEnv /\ job[c].env.aad = Reg(c)

Open(c) ==
  /\ pc[c] = "open" /\ Opens(c)
  /\ IF Op(c) = "release"
       THEN /\ hand' = [hand EXCEPT ![c] = job[c].env.token]
            /\ Says(c, "released", "none", TRUE) /\ Goto(c, "revoke")
       ELSE Goto(c, "refresh") /\ UNCHANGED <<hand, answer>>
  /\ UNCHANGED <<provider, row, job, sealed, outdated, faults, outside, lapsed>>

NoGrant(c) ==
  /\ pc[c] = "open" /\ job[c].env = NoEnv
  /\ CASE Op(c) = "release" -> Answers(c, "unreadable", "none", FALSE)
       [] Op(c) = "orphans" -> Goto(c, "read") /\ UNCHANGED answer
       [] OTHER             -> Answers(c, "manual", "no_grant", FALSE)
  /\ UNCHANGED <<provider, row, job, hand, sealed, outdated, faults, outside, lapsed>>

Unresolved(c, failure) ==
  CASE Op(c) = "orphans" -> Says(c, "none", failure, FALSE) /\ Goto(c, "read")
    [] Op(c) = "release" -> Answers(c, "unreadable", "none", FALSE)
    [] OTHER -> Answers(c, IF failure = "provider_failure" THEN "deferred" ELSE "manual",
                        failure, FALSE)

(* Sealed for another registration, or under a keyset this instance does   *)
(* not have at this moment (the sealer is asked for again at every step).  *)
Unreadable(c) ==
  /\ pc[c] = "open" /\ job[c].env # NoEnv
  /\ IF Opens(c) THEN Fault /\ Befalls(job[c].env.token.grant) ELSE UNCHANGED <<faults, lapsed>>
  /\ Unresolved(c, "token_unreadable")
  /\ UNCHANGED <<provider, row, job, hand, sealed, outdated, outside>>

(* The provider replaces the token it is shown, or lets it stand.          *)
Known(t)     == t # NoToken /\ current[t.grant] = t.n
Rotates(t)   == current' = [current EXCEPT ![t.grant] = t.n + 1]

Refresh(c) ==
  LET t == job[c].env.token IN
  /\ pc[c] = "refresh" /\ Known(t)
  /\ \/ Rotates(t) /\ hand' = [hand EXCEPT ![c] = [grant |-> t.grant, n |-> t.n + 1]]
     \/ UNCHANGED current /\ hand' = [hand EXCEPT ![c] = t]
  /\ Goto(c, "seal")
  /\ UNCHANGED <<codes, minted, owner, row, job, sealed, answer, outdated, faults, outside, lapsed>>

(* isInvalidGrant: the token endpoint refuses the token or, with a 400 or  *)
(* 401 as well, the client; both are taken for a dead grant.               *)
InvalidGrant(c) ==
  LET t == job[c].env.token IN
  /\ pc[c] = "refresh"
  /\ IF Known(t) THEN Refused /\ Befalls(t.grant) ELSE UNCHANGED <<faults, lapsed>>
  /\ Unresolved(c, "invalid_grant")
  /\ UNCHANGED <<provider, row, job, hand, sealed, outdated, outside>>

(* The provider is not reached, or rotates the token and the answer with   *)
(* the new one is lost.                                                    *)
LoseRefresh(c) ==
  LET t == job[c].env.token IN
  /\ pc[c] = "refresh" /\ Fault
  /\ \/ Known(t) /\ Rotates(t) /\ Befalls(t.grant)
     \/ UNCHANGED <<current, lapsed>>
  /\ Unresolved(c, "provider_failure")
  /\ UNCHANGED <<codes, minted, owner, row, job, hand, sealed, outdated, outside>>

-----------------------------------------------------------------------------
(* write and Orphans: seal first; publish or read; then end at the         *)
(* provider what could not be sealed.                                      *)

Seal(c) ==
  /\ pc[c] = "seal" /\ hand[c] # NoToken
  /\ sealed' = [sealed EXCEPT ![c] = [token |-> hand[c], aad |-> Reg(c)]]
  /\ Goto(c, IF Op(c) = "orphans" THEN "read" ELSE "publish")
  /\ UNCHANGED <<provider, row, job, hand, answer, outdated, faults, outside, lapsed>>

(* No refresh token to seal, or no keyset to seal it under.                *)
SealFails(c) ==
  /\ pc[c] = "seal"
  /\ IF hand[c] # NoToken THEN Fault ELSE UNCHANGED faults
  /\ IF Op(c) = "orphans"
       THEN Says(c, "none", "reseal_failed", TRUE) /\ Goto(c, "revoke")
       ELSE Goto(c, "publish") /\ UNCHANGED answer
  /\ UNCHANGED <<provider, row, job, hand, sealed, outdated, outside, lapsed>>

Held(c) == sealed[c] # NoEnv

(* Mutants: a grant that could not be held is let go of only when the      *)
(* publication went well; a failed publication carries no envelope.        *)
PublishFailsLenient(c) ==
  /\ pc[c] = "publish"
  /\ Answers(c, "deferred", "provider_failure", FALSE)
  /\ UNCHANGED <<provider, row, job, hand, sealed, outdated, faults, outside, lapsed>>

PublishFailsBare(c) ==
  /\ pc[c] = "publish"
  /\ Says(c, "deferred", "provider_failure", ~Held(c))
  /\ Goto(c, IF Held(c) THEN "answer" ELSE "revoke")
  /\ sealed' = [sealed EXCEPT ![c] = NoEnv]
  /\ UNCHANGED <<provider, row, job, hand, outdated, faults, outside, lapsed>>

PublishFails(c) ==
  /\ pc[c] = "publish"
  /\ Says(c, "deferred", "provider_failure", ~Held(c))
  /\ Goto(c, IF Held(c) THEN "answer" ELSE "revoke")
  /\ UNCHANGED <<provider, row, job, hand, sealed, outdated, faults, outside, lapsed>>

Published(c) ==
  /\ pc[c] = "publish"
  /\ IF Held(c) THEN Answers(c, "published", "none", FALSE)
     ELSE Says(c, "published", "reseal_failed", TRUE) /\ Goto(c, "revoke")
  /\ UNCHANGED <<provider, row, job, hand, sealed, outdated, faults, outside, lapsed>>

(* Orphans: through the provider or, failing that, public DNS.             *)
Report(c) ==
  /\ pc[c] = "read"
  /\ Answers(c, "report", answer[c].failure, answer[c].revoked)
  /\ UNCHANGED <<provider, row, job, hand, sealed, outdated, faults, outside, lapsed>>

(* The zone could not be read and no public report can be made either: an  *)
(* error is returned, and with it none of the answer's fields.             *)
ReportFails(c) ==
  /\ pc[c] = "read" /\ Fault
  /\ sealed' = [sealed EXCEPT ![c] = NoEnv]
  /\ Befalls(hand[c].grant)
  /\ Answers(c, "error", "none", FALSE)
  /\ UNCHANGED <<provider, row, job, hand, outdated, outside>>

(* revokeToken: the refresh token ends the whole grant - if it is the one  *)
(* the provider still knows.  A failure is a log line and nothing else.    *)
AfterRevoke(c) == IF Op(c) = "orphans" THEN "read" ELSE "answer"

Revoke(c) ==
  /\ pc[c] = "revoke"
  /\ current' = IF Known(hand[c]) THEN [current EXCEPT ![hand[c].grant] = 0] ELSE current
  /\ hand' = [hand EXCEPT ![c] = NoToken]
  /\ Goto(c, AfterRevoke(c))
  /\ UNCHANGED <<codes, minted, owner, row, job, sealed, answer, outdated, faults, outside, lapsed>>

RevokeFails(c) ==
  /\ pc[c] = "revoke" /\ (Fault \/ Refused)
  /\ Befalls(hand[c].grant)
  /\ hand' = [hand EXCEPT ![c] = NoToken]
  /\ Goto(c, AfterRevoke(c))
  /\ UNCHANGED <<provider, row, job, sealed, answer, outdated, outside>>

-----------------------------------------------------------------------------
Progress(c) ==
  \/ Refuse(c) \/ Proceed(c) \/ Exchange(c) \/ LoseExchange(c) \/ SpentCode(c)
  \/ Open(c) \/ NoGrant(c) \/ Unreadable(c) \/ Refresh(c) \/ InvalidGrant(c) \/ LoseRefresh(c)
  \/ Seal(c) \/ SealFails(c) \/ Published(c) \/ PublishFails(c)
  \/ Report(c) \/ ReportFails(c) \/ Revoke(c) \/ RevokeFails(c)

Next ==
  \/ \E c \in Calls : Progress(c) \/ Deliver(c) \/ Lost(c)
  \/ \E c \in Calls, op \in Ops, r \in Regs : Start(c, op, r)
  \/ \E r \in Regs : Approve(r)
  \/ \E r, s \in Regs : Misfile(r, s)
  \/ \E g \in Grants : CustomerRevokes(g)
  \/ ClientReplaced \/ ClientReloaded

Spec == Init /\ [][Next]_vars

-----------------------------------------------------------------------------
InHand(g) == \E c \in Calls :
  /\ pc[c] \in InFlight /\ hand[c] = [grant |-> g, n |-> current[g]]
  /\ pc[c] = "answer" => Held(c)

InRow(g) == \E r \in Regs : row[r] = [token |-> [grant |-> g, n |-> current[g]], aad |-> r]

custodyOf(g) == IF g > minted THEN "none"
                ELSE IF current[g] = 0 THEN "ended"
                ELSE IF InHand(g) THEN "engine"
                ELSE IF InRow(g) THEN "caller" ELSE "lost"

(* Every step, seen from the grants, is one GrantCustody allows: with one  *)
(* call at a time per registration no live grant drops out of everybody's  *)
(* hands but for a fault, a client that the provider refuses, or a later   *)
(* authorization of the same registration, and then no other grant with it *)
(* (write, Orphans, Release, isInvalidGrant).                              *)
Custody == INSTANCE GrantCustody
  WITH custody <- [g \in Grants |-> custodyOf(g)]
ImplementsCustody == Custody!Spec

(* A call for one registration never has in its hands a grant another one  *)
(* was authorized for, even from a misfiled row (GrantAAD).                *)
OwnGrantOnly ==
  \A c \in Calls : hand[c] # NoToken => owner[hand[c].grant] = Reg(c)

(* Between calls the stored envelope is the token the provider knows, or   *)
(* the grant has ended, or something befell it: a rotation is never        *)
(* answered without its replacement ("measured 2026-08-24", write).        *)
StoredIsCurrent ==
  \A r \in Regs : LET e == row[r] IN
    e # NoEnv /\ e.aad = r /\ (\A c \in Calls : pc[c] \in InFlight => Reg(c) # r) =>
      current[e.token.grant] \in {0, e.token.n} \/ e.token.grant \in lapsed

-----------------------------------------------------------------------------
(* What types.go tells the caller, to be compared with what the code does. *)

Answered(c) == pc[c] = "answer" /\ Op(c) # "complete"
Given(c)    == job[c].env.token.grant

(* FailureInvalidGrant: "Dead; release it, and do NOT attempt to revoke:   *)
(* there is nothing to revoke."                                            *)
InvalidGrantMeansDead ==
  \A c \in Calls : Answered(c) /\ answer[c].failure = "invalid_grant"
    => current[Given(c)] = 0

(* Orphans seals before it reads, so that "a read that fails afterwards    *)
(* must not take the replacement with it".                                 *)
ReadKeepsReplacement ==
  \A c \in Calls : pc[c] = "answer" /\ Op(c) = "orphans" /\ hand[c] # NoToken => Held(c)
=============================================================================
