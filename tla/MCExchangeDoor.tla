--------------------------- MODULE MCExchangeDoor ---------------------------
EXTENDS ExchangeDoor, TLC

CONSTANTS r1, r2, c1, c2, p1, p2, junk, app, other, common, home, away, ann,
          gProxy, gNet, gBad

\* A start that succeeds, and starts that differ from it.
Base == [port |-> 8080, env |-> "production", database_url |-> "postgres",
         google_client_id |-> app, apple_client_id |-> None, microsoft_client_id |-> app,
         microsoft_tenant |-> home, user_token_ttl_hours |-> 2, max_agents_per_user |-> 1,
         rate_limit_events_per_day |-> 1, rate_limit_exchange_per_hour |-> 1,
         trusted_proxies |-> <<gNet, Blank, gProxy>>]
NoIDs == [Base EXCEPT !.google_client_id = None, !.microsoft_client_id = None]

\* Three hours wrap to a negative duration, and six to a positive one.
MCEnvironments ==
  {Base, NoIDs, [NoIDs EXCEPT !.env = "development"], [Base EXCEPT !.env = "development"],
   [Base EXCEPT !.apple_client_id = app, !.microsoft_tenant = common],
   [Base EXCEPT !.trusted_proxies = <<>>], [Base EXCEPT !.trusted_proxies = <<gProxy>>],
   [Base EXCEPT !.trusted_proxies = <<gProxy, gBad>>],
   [Base EXCEPT !.port = 0], [Base EXCEPT !.database_url = None],
   [Base EXCEPT !.max_agents_per_user = 0], [Base EXCEPT !.rate_limit_events_per_day = 0],
   [Base EXCEPT !.rate_limit_exchange_per_hour = 0]}
  \cup {[Base EXCEPT !.user_token_ttl_hours = h] : h \in {-1, 0, 3, 6}}

MCNetworks == gProxy :> {p1} @@ gNet :> {p1, p2}
MCChains == {<<>>, <<p1>>, <<p2, p1>>}
MCHeaders == {<<>>, <<c2, Blank>>, <<junk, p1>>, <<Blank>>}
\* An audience and an expiry are wrong one at a time.
MCTokens ==
  {t \in [signer: {"google", "apple", "microsoft", "nobody"},
          issuer: {"google", "apple", home, away}, audience: {app, other}, subject: {ann},
          email: {ann, None}, verified: {"true", "string", "false"}, expired: BOOLEAN] :
     (t.email = None => t.verified = "true") /\ (t.expired => t.audience = app)}
MCLimits == exchange :> [Max |-> 1, Window |-> 1]
MCSymmetry == Permutations(Requests)
=============================================================================
