-------------------------- MODULE IdentityVerifiers -------------------------
(***************************************************************************)
(* Which identity an id token stands for: the verifiers of                  *)
(* server/internal/adapters/oidc.                                           *)
(*                                                                         *)
(* A token is a record of what the verifiers look at: who signed it, its    *)
(* issuer, audience, subject, email and email_verified claims, and whether  *)
(* it has expired.  The issuer of a Microsoft token names a tenant.  What   *)
(* the OIDC library checks (signature, expiry, audience and, unless it is   *)
(* told not to, issuer) is taken from how the code configures it.           *)
(***************************************************************************)
EXTENDS Naturals

CONSTANTS Tenants,  \* of Microsoft: the issuers its tokens may have
          AnyTenant,  \* MICROSOFT_TENANT values that restrict nothing
          None        \* an empty client id or claim

Providers == {"google", "apple", "microsoft"}

\* Mutant of NewVerifier: every provider without a client id is a development one.
DevForTheRest(clientIDs, development) ==
  [p \in Providers |-> IF clientIDs[p] # None THEN "oidc" ELSE "dev"]

\* newWithOptions fails when no provider is left.
CanVerify(clientIDs, development) ==
  development \/ \E p \in Providers : clientIDs[p] # None

\* newWithOptions: which provider is verified how.
NewVerifier(clientIDs, development) ==
  LET configured == {p \in Providers : clientIDs[p] # None}
  IN  IF configured = {} /\ development THEN [p \in Providers |-> "dev"]
      ELSE [p \in configured |-> "oidc"]

\* The issuer check of the library and, for Microsoft, of the code.
IssuerAccepted(provider, issuer, tenant) ==
  CASE provider = "google"    -> issuer = "google"
    [] provider = "apple"     -> issuer = "apple"
    [] provider = "microsoft" -> /\ issuer \in Tenants
                                 /\ tenant \in AnyTenant \/ issuer = tenant

\* flexibleBool: Apple writes a Boolean, or the same as a string.
FlexiblyTrue == {"true", "string"}

\* What email_verified may be for the email to count; Microsoft's is not read.
EmailAccepted(provider, token) ==
  CASE provider = "google"    -> token.email # None /\ token.verified = "true"
    [] provider = "apple"     -> token.email # None /\ token.verified \in FlexiblyTrue
    [] provider = "microsoft" -> TRUE

\* One of the three verifiers of a provider that is configured.
Accepted(provider, token, clientID, tenant) ==
  /\ token.signer = provider
  /\ ~token.expired
  /\ token.audience = clientID
  /\ IssuerAccepted(provider, token.issuer, tenant)
  /\ EmailAccepted(provider, token)

\* devVerifier: the token is the subject.
DevIdentity(provider, token) ==
  [is |-> "identity", provider |-> provider, subject |-> token, email |-> None]

\* What Verify answers: an identity, or one of two errors.
Verify(byProvider, provider, token, clientIDs, tenant) ==
  IF provider \notin DOMAIN byProvider THEN [is |-> "unavailable"]
  ELSE IF byProvider[provider] = "dev"
       THEN DevIdentity(provider, token)
  ELSE IF Accepted(provider, token, clientIDs[provider], tenant)
       THEN [is |-> "identity", provider |-> provider,
             subject |-> token.subject, email |-> token.email]
  ELSE [is |-> "rejected"]
=============================================================================
