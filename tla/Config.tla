------------------------------- MODULE Config -------------------------------
(***************************************************************************)
(* What the server makes of its environment at start: Load, Validate and    *)
(* parseTrustedProxies (server/pkg/config/config.go).                       *)
(*                                                                         *)
(* An environment is a record of the variables that decide something, after *)
(* the defaults are filled in; a number that does not parse reads as zero.  *)
(* A duration is a signed integer of the machine's width, so that the       *)
(* product of hours and time.Hour may wrap.                                 *)
(***************************************************************************)
EXTENDS Integers, Sequences

CONSTANTS Hour,      \* time.Hour in the unit of time.Duration
          MaxInt,    \* the largest time.Duration
          Blank,     \* an entry of TRUSTED_PROXIES with nothing in it
          Networks,  \* [valid entry of TRUSTED_PROXIES -> the addresses in it]
          None       \* an empty variable

\* Two's complement.
Wrap(n) == ((n + MaxInt + 1) % (2 * (MaxInt + 1))) - (MaxInt + 1)

UserTokenTTL(env) == Wrap(env.user_token_ttl_hours * Hour)

IsDevelopment(env) == env.env = "development"

ClientIDs(env) == [google |-> env.google_client_id, apple |-> env.apple_client_id,
                   microsoft |-> env.microsoft_client_id]
Configured(env) == {p \in DOMAIN ClientIDs(env) : ClientIDs(env)[p] # None}

Given(env) == {env.trusted_proxies[i] : i \in DOMAIN env.trusted_proxies} \ {Blank}

\* An address without a mask is a network of its own; blank entries are skipped,
\* and one bad entry fails the whole.
ProxiesValid(env) == Given(env) \subseteq DOMAIN Networks
TrustedProxies(env) == UNION {Networks[e] : e \in Given(env) \cap DOMAIN Networks}

Ports == 1..65535

\* Mutant of Validate: the lifetime is checked before it is multiplied.
ValidateHours(env) ==
  /\ env.port \in Ports
  /\ IsDevelopment(env) \/ Configured(env) # {}
  /\ env.database_url # None
  /\ env.user_token_ttl_hours > 0
  /\ env.max_agents_per_user >= 1
  /\ env.rate_limit_events_per_day >= 1
  /\ env.rate_limit_exchange_per_hour >= 1

Validate(env) ==
  /\ env.port \in Ports
  /\ IsDevelopment(env) \/ Configured(env) # {}
  /\ env.database_url # None
  /\ UserTokenTTL(env) > 0
  /\ env.max_agents_per_user >= 1
  /\ env.rate_limit_events_per_day >= 1
  /\ env.rate_limit_exchange_per_hour >= 1

\* Load returns a configuration, or an error that ends the start.
Loads(env) == ProxiesValid(env) /\ Validate(env)
=============================================================================
