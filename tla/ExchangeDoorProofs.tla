------------------------- MODULE ExchangeDoorProofs -------------------------
(***************************************************************************)
(* Proofs about ExchangeDoor, for every set of environments, clients,       *)
(* proxies, headers and tokens and every limit: whom a sign-in is counted   *)
(* under, how many are tried, and whose identity comes out.                 *)
(***************************************************************************)
EXTENDS ExchangeDoor, WellFoundedInduction, TLAPS

(***************************************************************************)
(* What clientIP returns, for headers of any length.                        *)
(***************************************************************************)
\* Of the places where the scan may end, the one behind which there is none is
\* where it ends.
LEMMA RightmostIs ==
  ASSUME NEW places \in SUBSET Int, NEW i \in places, \A j \in places : j <= i
  PROVE  Address!Rightmost(places) = i
<1>1. \E k \in places : \A j \in places : j <= k
  OBVIOUS
<1>2. /\ Address!Rightmost(places) \in places
      /\ \A j \in places : j <= Address!Rightmost(places)
  BY <1>1 DEF Address!Rightmost
<1>. DEFINE k == Address!Rightmost(places)
<1>3. k \in Int /\ i \in Int
  BY <1>2
<1>4. k <= i /\ i <= k
  BY <1>2
<1>. HIDE DEF k
<1>5. k = i
  BY <1>3, <1>4
<1>. QED
  BY <1>5 DEF k

\* Behind trusted proxies that append the address they were called from, clientIP
\* is the client's own address: nothing the client wrote in front of it matters,
\* and neither do blanks the proxies leave behind it (clientIP, auth.go).
THEOREM ClientIsFound ==
  ASSUME NEW Entry, NEW peer, NEW proxies, peer \in proxies,
         NEW written \in Seq(Entry), NEW appended \in Seq(Entry),
         NEW client \in Entry, client # Blank, client \notin proxies,
         \A i \in 1..Len(appended) : appended[i] = Blank \/ appended[i] \in proxies
  PROVE  Address!clientIP(peer, written \o <<client>> \o appended, proxies) = client
<1>. DEFINE header == written \o <<client>> \o appended
            n == Len(written) + 1
            places == Address!Foreign(header, proxies)
<1>1. /\ Len(header) = n + Len(appended)
      /\ DOMAIN header = 1..(n + Len(appended))
      /\ n \in 1..Len(header)
      /\ header[n] = client
      /\ \A i \in (n + 1)..(n + Len(appended)) : header[i] = appended[i - n]
  OBVIOUS
<1>2. n \in places
  BY <1>1 DEF Address!Foreign
<1>3. \A j \in places : j <= n
  <2>. SUFFICES ASSUME NEW j \in places, ~(j <= n) PROVE FALSE
    OBVIOUS
  <2>1. j \in (n + 1)..(n + Len(appended))
    BY <1>1 DEF Address!Foreign
  <2>2. header[j] = appended[j - n] /\ j - n \in 1..Len(appended)
    BY <1>1, <2>1
  <2>3. header[j] # Blank /\ header[j] \notin proxies
    BY DEF Address!Foreign
  <2>. QED
    BY <2>2, <2>3
<1>4. places \in SUBSET Int
  BY <1>1 DEF Address!Foreign
<1>5. Address!Rightmost(places) = n
  BY <1>2, <1>3, <1>4, RightmostIs
<1>6. Address!clientIP(peer, header, proxies) = header[Address!Rightmost(places)]
  BY <1>2 DEF Address!clientIP
<1>. QED
  BY <1>1, <1>5, <1>6

\* Without a trusted peer the header is not read at all (README.md).
THEOREM HeaderIgnored ==
  ASSUME NEW peer, NEW proxies, peer \notin proxies, NEW header
  PROVE  Address!clientIP(peer, header, proxies) = peer
BY DEF Address!clientIP
-----------------------------------------------------------------------------
(***************************************************************************)
(* The process.  What a running server verifies and trusts with is what it  *)
(* made of the environment it was started from.                             *)
(***************************************************************************)
ProcessFollows ==
  /\ env \in Environments /\ up \in BOOLEAN
  /\ up => /\ Cfg!Loads(env)
           /\ byProvider = Oidc!NewVerifier(ClientIDs, Cfg!IsDevelopment(env))
           /\ trusted = Cfg!TrustedProxies(env)

LEMMA ProcessInvariant == Spec => []ProcessFollows
<1>1. Init => ProcessFollows
  BY DEF Init, ProcessFollows
<1>2. ProcessFollows /\ [Next]_vars => ProcessFollows'
  <2>. SUFFICES ASSUME ProcessFollows, [Next]_vars PROVE ProcessFollows'
    OBVIOUS
  <2>1. CASE Start
    <3>1. Cfg!Loads(env)' /\ env' = env
      BY <2>1 DEF Start
    <3>2. byProvider' = Oidc!NewVerifier(ClientIDs', Cfg!IsDevelopment(env)')
      BY <2>1 DEF Start, ClientIDs
    <3>3. trusted' = Cfg!TrustedProxies(env)' /\ up'
      BY <2>1 DEF Start
    <3>. QED
      BY <3>1, <3>2, <3>3 DEF ProcessFollows
  <2>2. CASE Restart
    BY <2>2 DEF Restart, NoProcess, ProcessFollows
  <2>3. CASE UNCHANGED process
    BY <2>3 DEF process, ProcessFollows, ClientIDs
  <2>. QED
    BY <2>1, <2>2, <2>3 DEF Next, Tick, Arrive, Allow, Verify, Return, vars
<1>. QED
  BY <1>1, <1>2, PTL DEF Spec

\* A server that starts at all starts with what the other components rely on, and with
\* every proxy it was given (Load, Validate and parseTrustedProxies, config.go).
THEOREM PromisesKept == Spec => []ConfigKeepsPromises
<1>1. ProcessFollows => ConfigKeepsPromises
  <2>. SUFFICES ASSUME ProcessFollows, up PROVE ConfigKeepsPromises
    BY DEF ConfigKeepsPromises
  <2>1. Cfg!Validate(env) /\ Cfg!ProxiesValid(env) /\ env \in Environments
    BY DEF ProcessFollows, Cfg!Loads
  <2>2. /\ env.rate_limit_events_per_day > 0 /\ env.rate_limit_exchange_per_hour > 0
        /\ env.max_agents_per_user > 0 /\ Cfg!UserTokenTTL(env) > 0
    <3>1. /\ env.rate_limit_events_per_day \in Int /\ env.max_agents_per_user \in Int
          /\ env.rate_limit_exchange_per_hour \in Int
      BY <2>1, ExchangeDoorAssumption
    <3>2. /\ Cfg!UserTokenTTL(env) > 0 /\ env.max_agents_per_user >= 1
          /\ env.rate_limit_events_per_day >= 1 /\ env.rate_limit_exchange_per_hour >= 1
      BY <2>1 DEF Cfg!Validate
    <3>. QED
      BY <3>1, <3>2
  <2>3. \A e \in Cfg!Given(env) : e \in DOMAIN Networks /\ Networks[e] \subseteq trusted
    BY <2>1 DEF ProcessFollows, Cfg!ProxiesValid, Cfg!TrustedProxies
  <2>4. ASSUME Cfg!Configured(env) # {} PROVE DOMAIN byProvider = Cfg!Configured(env)
    <3>1. Cfg!Configured(env) = {p \in Oidc!Providers : ClientIDs[p] # None}
      BY DEF Cfg!Configured, ClientIDs, Cfg!ClientIDs, Oidc!Providers
    <3>. QED
      BY <2>4, <3>1 DEF ProcessFollows, Oidc!NewVerifier
  <2>. QED
    BY <2>2, <2>3, <2>4 DEF ConfigKeepsPromises
<1>. QED
  BY <1>1, ProcessInvariant, PTL

-----------------------------------------------------------------------------
(***************************************************************************)
(* The lifetime of a token.  ConfigKeepsPromises asks only that tokens live *)
(* at all; this says when they live as long as the configuration has it.    *)
(***************************************************************************)
LEMMA Division ==
  ASSUME NEW w \in Nat \ {0}, NEW t \in Int
  PROVE  t \div w \in Int /\ (t \div w) * w = t - (t % w) /\ t % w \in 0..(w - 1)
  OBVIOUS

\* An integer of the machine's width is what fits, and nothing else.
LEMMA WrapIs ==
  ASSUME NEW n \in Int
  PROVE  /\ Cfg!Wrap(n) \in (-(MaxInt + 1))..MaxInt
         /\ n \in (-(MaxInt + 1))..MaxInt => Cfg!Wrap(n) = n
<1>1. PICK half \in Nat \ {0} : half = MaxInt + 1
  BY ExchangeDoorAssumption
<1>2. PICK m \in Nat \ {0} : m = 2 * half
  <2>1. 2 * half \in Nat \ {0}
    OBVIOUS
  <2>. QED
    BY <2>1
<1>3. PICK k \in Int : k = n + half
  OBVIOUS
<1>4. k % m \in 0..(m - 1) /\ k \div m \in Int /\ (k \div m) * m = k - (k % m)
  BY Division
<1>5. Cfg!Wrap(n) = (k % m) - half
  <2>1. n + MaxInt + 1 = k /\ 2 * (MaxInt + 1) = m
    BY <1>1, <1>2, <1>3, ExchangeDoorAssumption
  <2>. QED
    BY <1>1, <2>1 DEF Cfg!Wrap
<1>6. Cfg!Wrap(n) \in (-half)..(half - 1)
  BY <1>2, <1>4, <1>5
<1>7. ASSUME n \in (-half)..(half - 1) PROVE Cfg!Wrap(n) = n
  <2>1. k \in 0..(m - 1)
    BY <1>2, <1>3, <1>7
  <2>2. ASSUME NEW q \in Int, q * m = k - (k % m) PROVE q = 0
    <3>1. ASSUME q >= 1 PROVE FALSE
      <4>1. PICK d \in Nat : q = d + 1
        <5>1. q - 1 \in Nat /\ q = (q - 1) + 1
          BY <3>1
        <5>. QED
          BY <5>1
      <4>2. q * m = d * m + m /\ d * m \in Nat
        BY <4>1
      <4>. QED
        BY <1>4, <2>1, <2>2, <4>2
    <3>2. ASSUME q <= -1 PROVE FALSE
      <4>1. PICK d \in Nat : q = -1 - d
        <5>1. -1 - q \in Nat /\ q = -1 - (-1 - q)
          BY <3>2
        <5>. QED
          BY <5>1
      <4>2. q * m = -m - d * m /\ d * m \in Nat
        BY <4>1
      <4>. QED
        BY <1>4, <2>1, <2>2, <4>2
    <3>. QED
      BY <3>1, <3>2
  <2>3. k \div m = 0
    BY <1>4, <2>2
  <2>4. k % m = k
    BY <1>4, <2>3
  <2>. QED
    BY <1>3, <1>5, <2>4
<1>. QED
  BY <1>1, <1>6, <1>7, ExchangeDoorAssumption

\* The tokens of a server that started live for USER_TOKEN_TTL_HOURS (config.go) just when
\* that many hours, as nanoseconds, fit the machine; else for some other positive time.
LifetimeAsWritten ==
  up => LET written == env.user_token_ttl_hours * Hour
            lifetime == Cfg!UserTokenTTL(env)
        IN  lifetime \in 1..MaxInt /\ (lifetime = written <=> written \in 1..MaxInt)

\* However long the hours, what Validate lets through is a lifetime the machine has, and it
\* is the one that was asked for unless the product is out of range.
THEOREM LifetimesAreAsWritten == Spec => []LifetimeAsWritten
<1>1. ProcessFollows => LifetimeAsWritten
  <2>. SUFFICES ASSUME ProcessFollows, up PROVE LifetimeAsWritten
    BY DEF LifetimeAsWritten
  <2>1. env \in Environments /\ Cfg!UserTokenTTL(env) > 0
    BY DEF ProcessFollows, Cfg!Loads, Cfg!Validate
  <2>2. PICK hours \in Int : hours = env.user_token_ttl_hours
    BY <2>1, ExchangeDoorAssumption
  <2>3. PICK written \in Int : written = hours * Hour
    <3>1. hours * Hour \in Int
      BY ExchangeDoorAssumption
    <3>. QED
      BY <3>1
  <2>4. Cfg!UserTokenTTL(env) = Cfg!Wrap(written)
    BY <2>2, <2>3 DEF Cfg!UserTokenTTL
  <2>5. Cfg!Wrap(written) \in 1..MaxInt /\ (Cfg!Wrap(written) = written <=> written \in 1..MaxInt)
    BY <2>1, <2>4, WrapIs, ExchangeDoorAssumption
  <2>. QED
    BY <2>2, <2>3, <2>4, <2>5 DEF LifetimeAsWritten
<1>. QED
  BY <1>1, ProcessInvariant, PTL
-----------------------------------------------------------------------------
\* With a provider configured, or outside development, no verifier takes a token at its
\* word, one provider's for another's, another application's, or another tenant's.
THEOREM IdentitiesAreReal == Spec => []NoForgedIdentity
<1>1. ProcessFollows => NoForgedIdentity
  <2>. SUFFICES ASSUME ProcessFollows, up,
                       ~(Cfg!IsDevelopment(env) /\ Cfg!Configured(env) = {}),
                       NEW provider \in Oidc!Providers, NEW token \in Tokens,
                       Oidc!Verify(byProvider, provider, token, ClientIDs,
                                   env.microsoft_tenant).is = "identity"
                PROVE  LET answer == Oidc!Verify(byProvider, provider, token, ClientIDs,
                                                 env.microsoft_tenant)
                       IN  /\ answer.provider = token.signer /\ answer.subject = token.subject
                           /\ token.audience = ClientIDs[provider] /\ ~token.expired
                           /\ provider = "microsoft" /\ env.microsoft_tenant \in Tenants =>
                                token.issuer = env.microsoft_tenant
    BY DEF NoForgedIdentity
  <2>1. Cfg!Configured(env) = {p \in Oidc!Providers : ClientIDs[p] # None}
    BY DEF Cfg!Configured, ClientIDs, Cfg!ClientIDs, Oidc!Providers
  <2>2. Cfg!Configured(env) # {}
    <3>1. Cfg!Validate(env)
      BY DEF ProcessFollows, Cfg!Loads
    <3>. QED
      BY <3>1 DEF Cfg!Validate
  <2>3. byProvider = [p \in Cfg!Configured(env) |-> "oidc"]
    BY <2>1, <2>2 DEF ProcessFollows, Oidc!NewVerifier
  <2>4. /\ Oidc!Accepted(provider, token, ClientIDs[provider], env.microsoft_tenant)
        /\ Oidc!Verify(byProvider, provider, token, ClientIDs, env.microsoft_tenant)
             = [is |-> "identity", provider |-> provider, subject |-> token.subject,
                email |-> token.email]
    BY <2>3 DEF Oidc!Verify
  <2>5. provider = "microsoft" /\ env.microsoft_tenant \in Tenants =>
          token.issuer = env.microsoft_tenant
    BY <2>4, ExchangeDoorAssumption DEF Oidc!Accepted, Oidc!IssuerAccepted
  <2>. QED
    BY <2>4, <2>5 DEF Oidc!Accepted
<1>. QED
  BY <1>1, ProcessInvariant, PTL
-----------------------------------------------------------------------------
(***************************************************************************)
(* The client's address.                                                    *)
(***************************************************************************)
\* A scan that has somewhere to end ends there.
LEMMA RightmostIsLast ==
  ASSUME NEW n \in Nat, NEW places \in SUBSET (1..n), places # {}
  PROVE  /\ Address!Rightmost(places) \in places
         /\ \A j \in places : j <= Address!Rightmost(places)
<1>. DEFINE fromTheEnd == {n - i : i \in places}
<1>1. fromTheEnd \subseteq Nat /\ fromTheEnd # {}
  <2>1. \A i \in places : i \in Int /\ n - i \in Nat
    OBVIOUS
  <2>. QED
    BY <2>1
<1>2. PICK x \in fromTheEnd : \A y \in fromTheEnd : ~(<<y, x>> \in OpToRel(<, Nat))
  BY <1>1, NatLessThanWellFounded, WFMin
<1>3. \A y \in fromTheEnd : x <= y
  <2>. SUFFICES ASSUME NEW y \in fromTheEnd PROVE x <= y
    OBVIOUS
  <2>1. x \in Nat /\ y \in Nat
    BY <1>1
  <2>2. ~(y < x)
    BY <1>2, <2>1 DEF OpToRel
  <2>. QED
    BY <2>1, <2>2
<1>4. PICK i \in places : x = n - i
  OBVIOUS
<1>5. ASSUME NEW j \in places PROVE j <= i
  <2>1. n - j \in fromTheEnd
    OBVIOUS
  <2>. HIDE DEF fromTheEnd
  <2>2. n - i <= n - j
    BY <1>3, <1>4, <2>1
  <2>3. i \in Int /\ j \in Int
    OBVIOUS
  <2>. QED
    BY <2>2, <2>3
<1>. QED
  BY <1>4, <1>5 DEF Address!Rightmost

\* The whole of clientIP behind a trusted peer, for headers of any length: the entry that is
\* neither blank nor a proxy and has only such ones behind it, or else the peer.
THEOREM ScanFromTheRight ==
  ASSUME NEW Entry, NEW peer, NEW proxies, peer \in proxies, NEW header \in Seq(Entry)
  PROVE  LET Skipped(i) == header[i] = Blank \/ header[i] \in proxies
             found == Address!clientIP(peer, header, proxies)
         IN  \/ found = peer /\ \A i \in 1..Len(header) : Skipped(i)
             \/ \E n \in 1..Len(header) :
                  /\ found = header[n] /\ ~Skipped(n)
                  /\ \A i \in (n + 1)..Len(header) : Skipped(i)
<1>. DEFINE places == Address!Foreign(header, proxies)
            n == Address!Rightmost(places)
<1>1. Len(header) \in Nat /\ DOMAIN header = 1..Len(header)
  OBVIOUS
<1>2. \A i \in 1..Len(header) :
        i \notin places <=> header[i] = Blank \/ header[i] \in proxies
  BY <1>1 DEF Address!Foreign
<1>3. CASE places = {}
  BY <1>2, <1>3 DEF Address!clientIP
<1>4. CASE places # {}
  <2>1. places \in SUBSET (1..Len(header))
    BY <1>1 DEF Address!Foreign
  <2>2. n \in places /\ \A j \in places : j <= n
    BY <1>1, <1>4, <2>1, RightmostIsLast
  <2>3. Address!clientIP(peer, header, proxies) = header[n]
    BY <1>4 DEF Address!clientIP
  <2>. HIDE DEF places, n
  <2>4. n \in 1..Len(header) /\ \A i \in (n + 1)..Len(header) : i \in 1..Len(header) /\ i \notin places
    BY <1>1, <2>1, <2>2
  <2>. QED
    BY <1>2, <2>2, <2>3, <2>4
<1>. QED
  BY <1>3, <1>4

\* What stands in front of an entry that no proxy wrote decides nothing: whatever a client
\* puts there, it is counted under the same address.
THEOREM FrontIgnored ==
  ASSUME NEW Entry, NEW peer, NEW proxies, NEW back \in Seq(Entry),
         NEW k \in 1..Len(back), back[k] # Blank, back[k] \notin proxies,
         NEW front \in Seq(Entry), NEW other \in Seq(Entry)
  PROVE  Address!clientIP(peer, front \o back, proxies)
           = Address!clientIP(peer, other \o back, proxies)
<1>1. CASE peer \notin proxies
  BY <1>1, HeaderIgnored
<1>2. CASE peer \in proxies
  <2>1. PICK n \in 1..Len(back) :
          /\ back[n] # Blank /\ back[n] \notin proxies
          /\ \A i \in (n + 1)..Len(back) : back[i] = Blank \/ back[i] \in proxies
    BY <1>2, ScanFromTheRight
  <2>2. ASSUME NEW some \in Seq(Entry)
        PROVE  Address!clientIP(peer, some \o back, proxies) = back[n]
    <3>. DEFINE header == some \o back
                m == Len(some) + n
                places == Address!Foreign(header, proxies)
    <3>1. /\ Len(some) \in Nat /\ Len(back) \in Nat
          /\ DOMAIN header = 1..(Len(some) + Len(back))
          /\ m \in 1..(Len(some) + Len(back)) /\ header[m] = back[n]
          /\ \A i \in (m + 1)..(Len(some) + Len(back)) :
               header[i] = back[i - Len(some)] /\ i - Len(some) \in (n + 1)..Len(back)
      OBVIOUS
    <3>. HIDE DEF header, m
    <3>2. m \in places
      BY <2>1, <3>1 DEF Address!Foreign
    <3>3. places \in SUBSET Int /\ \A j \in places : j \in 1..(Len(some) + Len(back))
      BY <3>1 DEF Address!Foreign
    <3>4. ASSUME NEW j \in places PROVE j <= m
      <4>1. CASE j \in (m + 1)..(Len(some) + Len(back))
        <5>1. header[j] = Blank \/ header[j] \in proxies
          BY <2>1, <3>1, <4>1
        <5>. QED
          BY <5>1 DEF Address!Foreign
      <4>. QED
        BY <3>1, <3>3, <4>1
    <3>5. Address!Rightmost(places) = m
      BY <3>2, <3>3, <3>4, RightmostIs
    <3>6. Address!clientIP(peer, header, proxies) = header[Address!Rightmost(places)]
      BY <1>2, <3>2 DEF Address!clientIP
    <3>. QED
      BY <3>1, <3>5, <3>6 DEF header
  <2>. QED
    BY <2>2
<1>. QED
  BY <1>1, <1>2

LEMMA AddressIs ==
  ASSUME NEW peer \in Addresses, NEW header \in Seq(Entries), NEW proxies
  PROVE  Address!clientIP(peer, header, proxies) \in Addresses \cup Malformed
<1>. DEFINE places == Address!Foreign(header, proxies)
<1>1. CASE peer \notin proxies \/ places = {}
  BY <1>1 DEF Address!clientIP
<1>2. CASE peer \in proxies /\ places # {}
  <2>1. Len(header) \in Nat /\ places \in SUBSET (1..Len(header))
    BY DEF Address!Foreign
  <2>2. Address!Rightmost(places) \in places
    BY <1>2, <2>1, RightmostIsLast
  <2>3. \A i \in places : header[i] \in Addresses \cup Malformed
    BY DEF Address!Foreign, Entries
  <2>. QED
    BY <1>2, <2>2, <2>3 DEF Address!clientIP
<1>. QED
  BY <1>1, <1>2

\* The last of a chain of proxies is one of them, and so are those before it.
LEMMA ChainIs ==
  ASSUME NEW chain \in Seq(Addresses), chain # <<>>
  PROVE  /\ Last(chain) \in ToSet(chain) /\ Last(chain) \in Addresses
         /\ Front(chain) \in Seq(Addresses)
         /\ \A i \in 1..Len(Front(chain)) : Front(chain)[i] \in ToSet(chain)
<1>1. Len(chain) \in Nat \ {0} /\ DOMAIN chain = 1..Len(chain)
  OBVIOUS
<1>. QED
  BY <1>1 DEF Last, Front, ToSet

LEMMA ArrivesAs ==
  ASSUME NEW c \in Clients, NEW chain \in Chains, NEW header \in Headers, NEW proxies
  PROVE  LET a == Address!clientIP(Peer(c, chain), Forwarded(c, chain, header), proxies)
         IN  a \in Addresses \cup Malformed /\ (Straight(c, chain, proxies) => a = c)
<1>1. /\ c \in Addresses /\ c # Blank /\ Addresses \subseteq Entries
      /\ header \in Seq(Entries) /\ chain \in Seq(Addresses)
  BY ExchangeDoorAssumption DEF Addresses, Entries
<1>2. CASE chain = <<>>
  BY <1>1, <1>2, AddressIs, HeaderIgnored DEF Peer, Forwarded, Straight
<1>3. CASE chain # <<>>
  <2>1. /\ Last(chain) \in ToSet(chain) /\ Last(chain) \in Addresses
        /\ Front(chain) \in Seq(Addresses)
        /\ \A i \in 1..Len(Front(chain)) : Front(chain)[i] \in ToSet(chain)
    BY <1>1, <1>3, ChainIs
  <2>2. Front(chain) \in Seq(Entries) /\ c \in Entries
    BY <1>1, <2>1
  <2>3. header \o <<c>> \o Front(chain) \in Seq(Entries)
    BY <1>1, <2>2
  <2>4. /\ Peer(c, chain) = Last(chain)
        /\ Forwarded(c, chain, header) = header \o <<c>> \o Front(chain)
    BY <1>3 DEF Peer, Forwarded
  <2>5. Address!clientIP(Peer(c, chain), Forwarded(c, chain, header), proxies)
          \in Addresses \cup Malformed
    BY <2>1, <2>3, <2>4, AddressIs
  <2>6. ASSUME Straight(c, chain, proxies)
        PROVE  Address!clientIP(Last(chain), header \o <<c>> \o Front(chain), proxies) = c
    BY <1>1, <2>1, <2>2, <2>6, ClientIsFound DEF Straight
  <2>. QED
    BY <2>4, <2>5, <2>6
<1>. QED
  BY <1>2, <1>3

LEMMA VerifyAnswers ==
  ASSUME NEW r \in Requests, Verify(r)
  PROVE  \E answer \in {"identified", "invalid", "unauthorized"} :
           pc' = [pc EXCEPT ![r] = answer]
<1>1. PICK is \in Outcomes : pc' = [pc EXCEPT ![r] = AnswerTo(is)]
  BY DEF Verify
<1>2. is \in {"identity", "unavailable", "rejected"}
  BY DEF Outcomes, Oidc!Verify, Oidc!DevIdentity
<1>3. AnswerTo(is) \in {"identified", "invalid", "unauthorized"}
  BY <1>2 DEF AnswerTo
<1>. QED
  BY <1>1, <1>3

RequestsFollow ==
  /\ pc \in [Requests -> {"idle", "allow", "verify", "identified", "invalid", "too_many",
                          "unauthorized"}]
  /\ src \in [Requests -> Clients \cup {None}]
  /\ honest \in [Requests -> BOOLEAN]
  /\ addr \in [Requests -> Addresses \cup Malformed \cup {None}]
  /\ \A r \in Requests : pc[r] # "idle" => addr[r] \in Addresses \cup Malformed
  /\ \A r \in Requests : honest[r] => addr[r] = src[r]

LEMMA RequestsInvariant == Spec => []RequestsFollow
<1>1. Init => RequestsFollow
  BY DEF Init, RequestsFollow
<1>2. RequestsFollow /\ [Next]_vars => RequestsFollow'
  <2>. SUFFICES ASSUME RequestsFollow, [Next]_vars PROVE RequestsFollow'
    OBVIOUS
  <2>. USE DEF RequestsFollow
  <2>1. ASSUME NEW r \in Requests, Arrive(r) PROVE RequestsFollow'
    <3>1. PICK c \in Clients, a \in Addresses \cup Malformed, straight \in BOOLEAN :
            /\ src' = [src EXCEPT ![r] = c]
            /\ honest' = [honest EXCEPT ![r] = straight]
            /\ addr' = [addr EXCEPT ![r] = a]
            /\ straight => a = c
      <4>1. PICK c \in Clients, chain \in Chains, header \in Headers :
              /\ src' = [src EXCEPT ![r] = c]
              /\ honest' = [honest EXCEPT ![r] = Straight(c, chain, trusted)]
              /\ addr' = [addr EXCEPT ![r] = Address!clientIP(Peer(c, chain),
                                               Forwarded(c, chain, header), trusted)]
        BY <2>1 DEF Arrive
      <4>2. Straight(c, chain, trusted) \in BOOLEAN
        BY DEF Straight
      <4>. QED
        BY <4>1, <4>2, ArrivesAs
    <3>2. /\ pc' = [pc EXCEPT ![r] = "allow"] \/ pc' = [pc EXCEPT ![r] = "invalid"]
      BY <2>1 DEF Arrive
    <3>. QED
      BY <3>1, <3>2
  <2>2. ASSUME NEW r \in Requests, Allow(r) PROVE RequestsFollow'
    BY <2>2 DEF Allow
  <2>3. ASSUME NEW r \in Requests, Verify(r) PROVE RequestsFollow'
    <3>1. /\ pc[r] = "verify" /\ UNCHANGED <<src, honest, addr>>
          /\ \E answer \in {"identified", "invalid", "unauthorized"} :
               pc' = [pc EXCEPT ![r] = answer]
      BY <2>3, VerifyAnswers DEF Verify
    <3>. QED
      BY <3>1
  <2>4. ASSUME NEW r \in Requests, Return(r) PROVE RequestsFollow'
    BY <2>4 DEF Return
  <2>5. CASE Restart
    BY <2>5 DEF Restart, NoProcess
  <2>6. CASE Start \/ Tick \/ UNCHANGED vars
    BY <2>6 DEF Start, Tick, vars
  <2>. QED
    BY <2>1, <2>2, <2>3, <2>4, <2>5, <2>6 DEF Next
<1>. QED
  BY <1>1, <1>2, PTL DEF Spec

\* Through trusted proxies that append to it, X-Forwarded-For names the client, and
\* from anywhere else nothing in it is believed; never is a blank counted
\* (clientIP, auth.go).
THEOREM CountedUnderOwnAddress == Spec => []CountedByClient
<1>1. RequestsFollow => CountedByClient
  BY ExchangeDoorAssumption DEF RequestsFollow, CountedByClient
<1>. QED
  BY <1>1, RequestsInvariant, PTL
-----------------------------------------------------------------------------
(***************************************************************************)
(* The quota.                                                               *)
(***************************************************************************)
Limit == limits[exchange].Max

\* What a client has tried, its own window has spent.
CountsFollow ==
  /\ clock \in 0..MaxClock
  /\ spent \in [Quota!Slots -> 0..Limit]
  /\ checks \in [Quota!Slots -> 0..Limit]
  /\ \A s \in Quota!Slots : checks[s] <= spent[s]

LEMMA SlotIs ==
  ASSUME clock \in 0..MaxClock, NEW a \in Addresses \cup Malformed
  PROVE  Quota!Slot(exchange, a) \in Quota!Slots
<1>1. ASSUME NEW w \in Nat \ {0}, NEW t \in Nat
      PROVE  (t \div w) * w \in 0..t
  <2>1. (t \div w) * w = t - (t % w) /\ t % w \in 0..(w - 1) /\ t \div w \in Nat
    OBVIOUS
  <2>2. ASSUME NEW q \in Nat PROVE q * w \in Nat
    OBVIOUS
  <2>. QED
    BY <2>1, <2>2
<1>. DEFINE start == (clock \div limits[exchange].Window) * limits[exchange].Window
<1>2. start \in 0..clock
  BY <1>1, ExchangeDoorAssumption
<1>. HIDE DEF start
<1>3. start \in 0..MaxClock
  BY <1>2, ExchangeDoorAssumption
<1>4. Quota!Slot(exchange, a) = [action |-> exchange, key |-> a, windowStart |-> start]
  BY DEF Quota!Slot, start
<1>. QED
  BY <1>3, <1>4, ExchangeDoorAssumption DEF Quota!Slots

LEMMA AllowKeepsCounts ==
  ASSUME RequestsFollow, CountsFollow, NEW r \in Requests, Allow(r)
  PROVE  CountsFollow'
<1>1. pc[r] = "allow" /\ UNCHANGED clock
  BY DEF Allow
<1>2. addr[r] \in Addresses \cup Malformed /\ (honest[r] => addr[r] = src[r])
  BY <1>1 DEF RequestsFollow
<1>. DEFINE current == Quota!Slot(exchange, addr[r])
<1>3. current \in Quota!Slots
  BY <1>2, SlotIs DEF CountsFollow
<1>4. honest[r] => Quota!Slot(exchange, src[r]) = current
  BY <1>2
<1>5. PICK new \in {0, 1} :
        /\ \/ new = 1 /\ Quota!Spend(current)
           \/ new = 0 /\ Quota!Overdraw(current)
        /\ Count(r, current, new)
  BY DEF Allow
<1>. HIDE DEF current
<1>6. spent' \in [Quota!Slots -> 0..Limit]
  <2>1. ASSUME NEW rest PROVE Quota!Kept(rest) \in [Quota!Slots -> 0..Limit]
    BY ExchangeDoorAssumption DEF Quota!Kept, CountsFollow, Limit
  <2>2. limits[current.action].Max = Limit /\ Limit \in Nat
    BY <1>3, ExchangeDoorAssumption DEF Quota!Slots, Limit
  <2>3. CASE Quota!Spend(current)
    <3>1. PICK rest : /\ Quota!Kept(rest)[current] < Limit
                      /\ spent' = [Quota!Kept(rest) EXCEPT ![current] = @ + 1]
      BY <2>2, <2>3 DEF Quota!Spend
    <3>2. Quota!Kept(rest)[current] + 1 \in 0..Limit
      BY <1>3, <2>1, <2>2, <3>1
    <3>. QED
      BY <2>1, <3>1, <3>2
  <2>4. CASE Quota!Overdraw(current)
    BY <2>1, <2>4 DEF Quota!Overdraw
  <2>. QED
    BY <1>5, <2>3, <2>4
<1>7. ASSUME NEW t \in Quota!Slots
      PROVE  /\ checks'[t] \in 0..Limit
             /\ checks'[t] <= spent'[t]
  <2>. DEFINE more == IF t = current THEN new ELSE 0
  <2>1. /\ checks[t] \in 0..Limit /\ spent[t] \in 0..Limit /\ checks[t] <= spent[t]
        /\ spent'[t] \in 0..Limit /\ Limit \in Nat /\ more \in {0, 1}
    BY <1>6, ExchangeDoorAssumption DEF CountsFollow, Limit
  <2>2. checks'[t] = IF spent'[t] < spent[t] + more THEN 0
                     ELSE IF honest[r] /\ new = 1 /\ t = Quota!Slot(exchange, src[r])
                          THEN checks[t] + 1 ELSE checks[t]
    BY <1>5 DEF Count
  <2>3. honest[r] /\ new = 1 /\ t = Quota!Slot(exchange, src[r]) => more = 1
    BY <1>4
  <2>. HIDE DEF more
  <2>. QED
    BY <2>1, <2>2, <2>3
<1>8. checks' = [t \in Quota!Slots |-> checks'[t]]
  BY <1>5 DEF Count
<1>. QED
  BY <1>1, <1>6, <1>7, <1>8 DEF CountsFollow, Quota!Slots, Limit

LEMMA CountsInvariant == Spec => []CountsFollow
<1>1. Init => CountsFollow
  BY ExchangeDoorAssumption DEF Init, CountsFollow, Limit
<1>2. RequestsFollow /\ CountsFollow /\ [Next]_vars => CountsFollow'
  <2>. SUFFICES ASSUME RequestsFollow, CountsFollow, [Next]_vars PROVE CountsFollow'
    OBVIOUS
  <2>1. CASE Restart
    BY <2>1, ExchangeDoorAssumption DEF Restart, NoProcess, CountsFollow, Quota!Slots, Limit
  <2>2. CASE Tick
    <3>1. /\ clock \in Nat /\ clock < MaxClock /\ clock' = clock + 1
          /\ spent' = [s \in Quota!Slots |->
                         IF s.windowStart + limits[s.action].Window <= clock + 1
                         THEN 0 ELSE spent[s]]
          /\ checks' = [s \in Quota!Slots |-> IF spent'[s] = 0 THEN 0 ELSE checks[s]]
      BY <2>2 DEF Tick, Quota!Tick, Quota!Slots, CountsFollow
    <3>2. clock' \in 0..MaxClock
      BY <3>1, ExchangeDoorAssumption
    <3>3. \A s \in Quota!Slots : /\ spent'[s] \in 0..Limit /\ checks'[s] \in 0..Limit
                                  /\ checks'[s] <= spent'[s]
      BY <3>1, ExchangeDoorAssumption DEF CountsFollow, Limit
    <3>4. /\ spent' = [s \in Quota!Slots |-> spent'[s]]
          /\ checks' = [s \in Quota!Slots |-> checks'[s]]
      BY <3>1
    <3>. QED
      BY <3>2, <3>3, <3>4 DEF CountsFollow, Quota!Slots, Limit
  <2>3. CASE UNCHANGED <<clock, spent, checks>>
    BY <2>3 DEF CountsFollow, Quota!Slots, Limit
  <2>. QED
    BY <2>1, <2>2, <2>3, AllowKeepsCounts DEF Next, Start, Arrive, Verify, Return, vars
<1>. QED
  BY <1>1, <1>2, RequestsInvariant, PTL DEF Spec

\* Limiter.Allow is asked with the address that clientIP finds: as that is the
\* client's own, its sign-ins in a window are no more than RATE_LIMIT_EXCHANGE_PER_HOUR.
THEOREM QuotaForClients == Spec => []ClientsWithinQuota
<1>1. CountsFollow => ClientsWithinQuota
  BY ExchangeDoorAssumption DEF CountsFollow, ClientsWithinQuota, Limit
<1>. QED
  BY <1>1, CountsInvariant, PTL
=============================================================================
