---------------------------- MODULE ExchangeDoor ----------------------------
(***************************************************************************)
(* POST /auth/exchange up to the verified identity, in a server that was    *)
(* started from some environment: config.Load and oidc.New when it starts   *)
(* (server/cmd/api/main.go), and for each request the handler's clientIP,   *)
(* the sign-in limit and the verifier (server/internal/core/usecase/auth.go).*)
(* SignIn goes on from there.                                               *)
(*                                                                         *)
(* A request comes from a client straight, or through a chain of proxies    *)
(* each of which appends the address it was called from to                  *)
(* X-Forwarded-For; what the client itself wrote there stays in front.  The *)
(* limiter is FixedWindowQuota, which RateLimiter implements.               *)
(***************************************************************************)
EXTENDS Integers, Sequences, FiniteSets, SequencesExt

CONSTANTS Requests,
          Environments,  \* environments the server may be started from
          Clients,       \* addresses that send requests
          Chains,        \* the sequences of proxies they may come through
          Headers,       \* what clients write into X-Forwarded-For
          Malformed,     \* entries of it that are no addresses
          Tokens, Tenants, AnyTenant,
          limits, Capacity, MaxClock,
          Hour, MaxInt, Networks, Blank, None

exchange == "auth.exchange"

Addresses == Clients \cup UNION {ToSet(chain) : chain \in Chains}

\* What an entry of the header may be.
Entries == Addresses \cup Malformed \cup {Blank}

\* A network holds addresses only, and no tenant is called common.
ASSUME ExchangeDoorAssumption ==
  /\ DOMAIN limits = {exchange}
  /\ limits[exchange].Max \in Nat \ {0} /\ limits[exchange].Window \in Nat \ {0}
  /\ Capacity \in Nat \ {0} /\ MaxClock \in Nat
  /\ \A e \in DOMAIN Networks : Networks[e] \cap (Malformed \cup {Blank}) = {}
  /\ Blank \notin Addresses \cup Malformed \cup {None}
  /\ None \notin Addresses \cup Malformed
  /\ \A chain \in Chains : chain \in Seq(Addresses)
  /\ \A header \in Headers : header \in Seq(Entries)
  /\ Tenants \cap AnyTenant = {}
  /\ Hour \in Nat \ {0} /\ MaxInt \in Nat
  /\ \A e \in Environments :
       {e.user_token_ttl_hours, e.max_agents_per_user, e.rate_limit_events_per_day,
        e.rate_limit_exchange_per_hour} \subseteq Int

VARIABLES env,         \* the environment of the process
          up,          \* whether it has started
          byProvider,  \* oidc.Verifier
          trusted,     \* the addresses in cfg.TrustedProxies
          clock, spent,  \* of FixedWindowQuota
          pc,          \* where a handler is, or the answer it has given
          src,         \* the client a request came from
          honest,      \* it is no proxy, and came through trusted proxies only
          addr,        \* its clientIP
          checks       \* history: sign-ins tried by a client in a running window

process == <<env, up, byProvider, trusted>>
vars == <<process, clock, spent, pc, src, honest, addr, checks>>

Quota == INSTANCE FixedWindowQuota WITH Keys <- Addresses \cup Malformed, reply <- <<>>
Address == INSTANCE ClientAddress
Cfg == INSTANCE Config
Oidc == INSTANCE IdentityVerifiers

NoProcess == /\ up' = FALSE
             /\ byProvider' = <<>> /\ trusted' = {}
             /\ spent' = [s \in Quota!Slots |-> 0]
             /\ pc' = [r \in Requests |-> "idle"]
             /\ src' = [r \in Requests |-> None]
             /\ honest' = [r \in Requests |-> FALSE]
             /\ addr' = [r \in Requests |-> None]
             /\ checks' = [s \in Quota!Slots |-> 0]

Init == /\ env \in Environments
        /\ up = FALSE /\ byProvider = <<>> /\ trusted = {}
        /\ clock = 0
        /\ spent = [s \in Quota!Slots |-> 0]
        /\ pc = [r \in Requests |-> "idle"]
        /\ src = [r \in Requests |-> None]
        /\ honest = [r \in Requests |-> FALSE]
        /\ addr = [r \in Requests |-> None]
        /\ checks = [s \in Quota!Slots |-> 0]
-----------------------------------------------------------------------------
ClientIDs == Cfg!ClientIDs(env)

\* The server starts when the configuration loads and a verifier can be made; the
\* providers' discovery, which may fail it, is in Lifecycle.
Start ==
  /\ ~up
  /\ Cfg!Loads(env)
  /\ Oidc!CanVerify(ClientIDs, Cfg!IsDevelopment(env))
  /\ up' = TRUE
  /\ byProvider' = Oidc!NewVerifier(ClientIDs, Cfg!IsDevelopment(env))
  /\ trusted' = Cfg!TrustedProxies(env)
  /\ UNCHANGED <<env, clock, spent, pc, src, honest, addr, checks>>

\* It ends, and is started again, perhaps from another environment.
Restart == /\ NoProcess
           /\ env' \in Environments
           /\ UNCHANGED clock

\* Who is connected to the server, and what X-Forwarded-For says there, when a client
\* comes through a chain of proxies.
Peer(c, chain) == IF chain = <<>> THEN c ELSE Last(chain)
Forwarded(c, chain, header) ==
  IF chain = <<>> THEN header ELSE header \o <<c>> \o Front(chain)

Straight(c, chain, proxies) == c \notin proxies /\ ToSet(chain) \subseteq proxies

\* The handler decodes and validates the body and finds the client's address.
Arrive(r) ==
  /\ up /\ pc[r] = "idle"
  /\ \E c \in Clients, chain \in Chains, header \in Headers :
       /\ src' = [src EXCEPT ![r] = c]
       /\ honest' = [honest EXCEPT ![r] = Straight(c, chain, trusted)]
       /\ addr' = [addr EXCEPT ![r] = Address!clientIP(Peer(c, chain),
                                        Forwarded(c, chain, header), trusted)]
  /\ pc' = [pc EXCEPT ![r] = "allow"] \/ pc' = [pc EXCEPT ![r] = "invalid"]
  /\ UNCHANGED <<process, clock, spent, checks>>

\* What is tried in a window that the limiter forgets is counted no more.
Count(r, s, new) ==
  checks' = [t \in Quota!Slots |->
               IF spent'[t] < spent[t] + (IF t = s THEN new ELSE 0) THEN 0
               ELSE IF honest[r] /\ new = 1 /\ t = Quota!Slot(exchange, src[r])
                    THEN checks[t] + 1 ELSE checks[t]]

\* Mutant of Allow: a call that is not allowed is logged, and goes on.
AllowLogsOnly(r) ==
  LET s == Quota!Slot(exchange, addr[r])
  IN  /\ pc[r] = "allow"
      /\ pc' = [pc EXCEPT ![r] = "verify"]
      /\ checks' = [checks EXCEPT ![s] = @ + 1]
      /\ Quota!Spend(s) \/ Quota!Overdraw(s)
      /\ UNCHANGED <<process, clock, src, honest, addr>>

\* "ip:"+in.ClientIP
Allow(r) ==
  LET s == Quota!Slot(exchange, addr[r])
  IN  /\ pc[r] = "allow"
      /\ \/ Quota!Spend(s) /\ Count(r, s, 1) /\ pc' = [pc EXCEPT ![r] = "verify"]
         \/ Quota!Overdraw(s) /\ Count(r, s, 0) /\ pc' = [pc EXCEPT ![r] = "too_many"]
      /\ UNCHANGED <<process, clock, src, honest, addr>>

\* What the verifier may say of a token that names a provider.
Outcomes ==
  {Oidc!Verify(byProvider, provider, token, ClientIDs, env.microsoft_tenant).is :
     provider \in Oidc!Providers, token \in Tokens}

\* An error of any kind but ErrProviderUnavailable is answered as unauthorized.
AnswerTo(is) == CASE is = "identity"    -> "identified"
                  [] is = "unavailable" -> "invalid"
                  [] is = "rejected"    -> "unauthorized"

Verify(r) ==
  /\ pc[r] = "verify"
  /\ \E is \in Outcomes : pc' = [pc EXCEPT ![r] = AnswerTo(is)]
  /\ UNCHANGED <<process, clock, spent, src, honest, addr, checks>>

Return(r) == /\ pc[r] \in {"identified", "invalid", "too_many", "unauthorized"}
             /\ pc' = [pc EXCEPT ![r] = "idle"]
             /\ src' = [src EXCEPT ![r] = None]
             /\ honest' = [honest EXCEPT ![r] = FALSE]
             /\ addr' = [addr EXCEPT ![r] = None]
             /\ UNCHANGED <<process, clock, spent, checks>>

Tick == /\ clock < MaxClock
        /\ Quota!Tick
        /\ checks' = [s \in Quota!Slots |-> IF spent'[s] = 0 THEN 0 ELSE checks[s]]
        /\ UNCHANGED <<process, pc, src, honest, addr>>

Next == \/ Start \/ Restart \/ Tick
        \/ \E r \in Requests : Arrive(r) \/ Allow(r) \/ Verify(r) \/ Return(r)

Spec == Init /\ [][Next]_vars
-----------------------------------------------------------------------------
\* Client IPs are taken from X-Forwarded-For behind trusted proxies and the header
\* is never trusted otherwise (README.md): whatever a client writes into it, with
\* blanks and entries that are no addresses, it is counted under its own address.
\* Nobody is counted under a blank, which all who send one would share.
CountedByClient == \A r \in Requests : addr[r] # Blank /\ (honest[r] => addr[r] = src[r])

\* A client tries no more than Max sign-ins in a window that the limiter has not
\* forgotten, whichever way and under whichever header its requests come.
ClientsWithinQuota == \A s \in Quota!Slots : checks[s] <= limits[exchange].Max

\* Outside development, and in it as soon as one provider is configured, an
\* identity is that of a person the provider itself has named in a token for this
\* application that is still good, and of the tenant that the operator has named: no
\* identity is two persons.
NoForgedIdentity ==
  up /\ ~(Cfg!IsDevelopment(env) /\ Cfg!Configured(env) = {}) =>
    \A provider \in Oidc!Providers, token \in Tokens :
      LET answer == Oidc!Verify(byProvider, provider, token, ClientIDs, env.microsoft_tenant)
      IN  answer.is = "identity" =>
            /\ answer.provider = token.signer /\ answer.subject = token.subject
            /\ token.audience = ClientIDs[provider] /\ ~token.expired
            /\ provider = "microsoft" /\ env.microsoft_tenant \in Tenants =>
                 token.issuer = env.microsoft_tenant

\* A server that has started gives the other components what they rely on: limits
\* of at least one (RateLimiter, AgentKeys), tokens that live (SignIn), and every
\* network that the operator listed, none left out.
ConfigKeepsPromises ==
  up => /\ env.rate_limit_events_per_day > 0 /\ env.rate_limit_exchange_per_hour > 0
        /\ env.max_agents_per_user > 0
        /\ Cfg!UserTokenTTL(env) > 0
        /\ \A e \in Cfg!Given(env) : e \in DOMAIN Networks /\ Networks[e] \subseteq trusted
        /\ Cfg!Configured(env) # {} => DOMAIN byProvider = Cfg!Configured(env)
=============================================================================
