------------------------------- MODULE SignIn -------------------------------
(***************************************************************************)
(* Users and their tokens: exchange an identity token for a user token,     *)
(* authenticate with it, log out, and the background deletion of expired    *)
(* tokens (server/internal/core/usecase/auth.go over the user and the token *)
(* repository; cleanupExpiredTokens in server/cmd/api/main.go).             *)
(*                                                                         *)
(* Each SQL statement is one step and commits by itself.  A token stands    *)
(* for its hash: it is made of 32 random bytes.  The rate limiter and the   *)
(* identity verifier are outside parties that refuse or let through.  Users *)
(* are never deleted, so the lookup of a stored token's user succeeds.  The *)
(* email, which every sign-in overwrites and no step reads, is left out.    *)
(***************************************************************************)
EXTENDS Naturals

CONSTANTS Requests,      \* handlers that may run at once
          Identities,    \* what a verifier may vouch for: (provider, subject)
          UserIDs,       \* ids uuid.NewString may return
          TokenIDs,      \* tokens newToken may return
          UserTokenTTL,  \* config.UserTokenTTL
          MaxClock,      \* model bound: the clock stops there
          None           \* no value: a missing row, an unknown token

Row == [user: UserIDs, expires: 1..(MaxClock + UserTokenTTL)]

\* config.go refuses a lifetime that is not positive.
ASSUME SignInAssumption ==
  /\ UserTokenTTL \in Nat \ {0}
  /\ MaxClock \in Nat \ {0}
  /\ None \notin Requests \cup Identities \cup UserIDs \cup TokenIDs \cup Row

VARIABLES users,      \* rows of table users: whose identity each one is
          tokens,     \* rows of table user_tokens
          clock,      \* time.Now()
          pc,         \* where a handler is, or the answer it has given
          call,       \* the operation it runs and its arguments
          user,       \* the domain.User it has in hand
          at,         \* the time stamp it took
          cleanup,    \* the background loop: "waiting" or "deleting"
          cutoff,     \* the time stamp of its latest DeleteExpired
          shown,      \* tokens some client was given
          loggedOut,  \* history: tokens whose logout was answered with success
          late        \* history: the token was dead when its request came

vars == <<users, tokens, clock, pc, call, user, at, cleanup, cutoff,
          shown, loggedOut, late>>
cleaner == <<cleanup, cutoff>>
history == <<shown, loggedOut, late>>

NoCall == [op |-> "none", identity |-> None, token |-> None]
Calls == [op: {"none", "exchange", "use", "logout"},
          identity: Identities \cup {None}, token: TokenIDs \cup {None}]

Statements == {"upsert", "insert", "auth_token", "auth_user", "delete"}
Steps == Statements \cup {"allow", "verify", "new_token"}
Answers == {"ok", "invalid", "too_many", "unauthorized", "internal"}

TypeOK == /\ users \in [UserIDs -> Identities \cup {None}]
          /\ tokens \in [TokenIDs -> Row \cup {None}]
          /\ clock \in 1..MaxClock
          /\ pc \in [Requests -> {"idle"} \cup Steps \cup Answers]
          /\ call \in [Requests -> Calls]
          /\ user \in [Requests -> UserIDs \cup {None}]
          /\ \A r \in Requests :
                pc[r] \in {"new_token", "insert", "auth_user"} => user[r] \in UserIDs
          /\ at \in [Requests -> 0..MaxClock]
          /\ cleanup \in {"waiting", "deleting"}
          /\ cutoff \in 1..MaxClock
          /\ shown \subseteq TokenIDs
          /\ loggedOut \subseteq TokenIDs
          /\ late \in [Requests -> BOOLEAN]

\* The loop deletes once as soon as the process starts.
Init == /\ users = [u \in UserIDs |-> None]
        /\ tokens = [t \in TokenIDs |-> None]
        /\ clock = 1
        /\ pc = [r \in Requests |-> "idle"]
        /\ call = [r \in Requests |-> NoCall]
        /\ user = [r \in Requests |-> None]
        /\ at = [r \in Requests |-> 0]
        /\ cleanup = "deleting" /\ cutoff = 1
        /\ shown = {} /\ loggedOut = {}
        /\ late = [r \in Requests |-> FALSE]
-----------------------------------------------------------------------------
StoredTokens == {t \in TokenIDs : tokens[t] # None}

UsersOf(identity) == {u \in UserIDs : users[u] = identity}

\* newToken returns a token nobody has.
FreshTokens == {t \in TokenIDs \ (StoredTokens \cup shown) :
                  \A q \in Requests : call[q].token # t}

Goto(r, step) == pc' = [pc EXCEPT ![r] = step]

\* UserToken.Expired
Expired(token) == token.expires <= clock
-----------------------------------------------------------------------------
\* POST /auth/exchange; a provider that does not exist is refused at once.
ExchangeArrives(r) ==
  /\ pc[r] = "idle"
  /\ \E i \in Identities :
       call' = [call EXCEPT ![r] = [op |-> "exchange", identity |-> i, token |-> None]]
  /\ Goto(r, "allow") \/ Goto(r, "invalid")
  /\ UNCHANGED <<users, tokens, clock, user, at, cleaner, history>>

\* A request behind RequireUser, with a token some client was given or with an
\* unknown one; logout is one of them.
TokenArrives(r) ==
  /\ pc[r] = "idle"
  /\ \E op \in {"use", "logout"}, t \in shown \cup {None} :
       /\ call' = [call EXCEPT ![r] = [op |-> op, identity |-> None, token |-> t]]
       /\ late' = [late EXCEPT ![r] = \/ t \notin StoredTokens \ loggedOut
                                      \/ tokens[t].expires <= clock]
  /\ Goto(r, "auth_token")
  /\ UNCHANGED <<users, tokens, clock, user, at, cleaner, shown, loggedOut>>

\* The limiter answers, or fails.
Allow(r) == /\ pc[r] = "allow"
            /\ Goto(r, "verify") \/ Goto(r, "too_many")
            /\ UNCHANGED <<users, tokens, clock, call, user, at, cleaner, history>>

\* The provider is not configured, the token is rejected, or the identity holds.
Verify(r) == /\ pc[r] = "verify"
             /\ Goto(r, "invalid") \/ Goto(r, "unauthorized") \/ Goto(r, "upsert")
             /\ UNCHANGED <<users, tokens, clock, call, user, at, cleaner, history>>

\* Mutants of UpsertByIdentity: it inserts without looking for a conflict; it
\* answers with the id it drew and not with the one of the row.
InsertUser(r) ==
  /\ pc[r] = "upsert"
  /\ \E u \in UsersOf(None) : /\ users' = [users EXCEPT ![u] = call[r].identity]
                              /\ user' = [user EXCEPT ![r] = u]
  /\ Goto(r, "new_token")
  /\ UNCHANGED <<tokens, clock, call, at, cleaner, history>>
UpsertReturnsDrawnID(r) ==
  /\ pc[r] = "upsert"
  /\ \E u \in UsersOf(None) :
       /\ users' = IF UsersOf(call[r].identity) = {}
                   THEN [users EXCEPT ![u] = call[r].identity] ELSE users
       /\ user' = [user EXCEPT ![r] = u]
  /\ Goto(r, "new_token")
  /\ UNCHANGED <<tokens, clock, call, at, cleaner, history>>

\* INSERT ... ON CONFLICT (provider, subject) DO UPDATE ... RETURNING: the row of
\* the identity, old or new.  Its effect may stay while its answer is lost.
UpsertByIdentity(r) ==
  /\ pc[r] = "upsert"
  /\ \E u \in UserIDs :
       /\ \/ users[u] = call[r].identity
          \/ users[u] = None /\ UsersOf(call[r].identity) = {}
       /\ users' = [users EXCEPT ![u] = call[r].identity]
       /\ \/ user' = [user EXCEPT ![r] = u] /\ Goto(r, "new_token")
          \/ UNCHANGED user /\ Goto(r, "internal")
  /\ UNCHANGED <<tokens, clock, call, at, cleaner, history>>

\* newToken, and the time from which the token's lifetime counts.
NewToken(r) ==
  /\ pc[r] = "new_token"
  /\ \E t \in FreshTokens : call' = [call EXCEPT ![r].token = t]
  /\ at' = [at EXCEPT ![r] = clock]
  /\ Goto(r, "insert")
  /\ UNCHANGED <<users, tokens, clock, user, cleaner, history>>

InsertToken(r) ==
  /\ pc[r] = "insert"
  /\ tokens' = [tokens EXCEPT ![call[r].token] =
                  [user |-> user[r], expires |-> at[r] + UserTokenTTL]]
  /\ Goto(r, "ok") \/ Goto(r, "internal")
  /\ UNCHANGED <<users, clock, call, user, at, cleaner, history>>
-----------------------------------------------------------------------------
\* Mutant of AuthGetByHash: an unknown token is not told from a known one.
AuthWithoutNotFound(r) ==
  LET t == call[r].token
  IN  /\ pc[r] = "auth_token"
      /\ IF t \in StoredTokens /\ Expired(tokens[t])
         THEN Goto(r, "unauthorized") /\ UNCHANGED user
         ELSE /\ user' = [user EXCEPT ![r] =
                            IF t \in StoredTokens THEN tokens[t].user ELSE None]
              /\ Goto(r, "auth_user")
      /\ UNCHANGED <<users, tokens, clock, call, at, cleaner, history>>

\* The token is read and must not have expired.
AuthGetByHash(r) ==
  LET t == call[r].token
  IN  /\ pc[r] = "auth_token"
      /\ IF t \in StoredTokens /\ ~Expired(tokens[t])
         THEN user' = [user EXCEPT ![r] = tokens[t].user] /\ Goto(r, "auth_user")
         ELSE Goto(r, "unauthorized") /\ UNCHANGED user
      /\ UNCHANGED <<users, tokens, clock, call, at, cleaner, history>>

\* The token's user is read; then RequireUser calls the handler.
AuthGetUser(r) ==
  /\ pc[r] = "auth_user"
  /\ Goto(r, IF call[r].op = "logout" THEN "delete" ELSE "ok")
  /\ UNCHANGED <<users, tokens, clock, call, user, at, cleaner, history>>

\* Mutant of DeleteByHash: the error of the DELETE is dropped.
DeleteDropsError(r) ==
  /\ pc[r] = "delete"
  /\ tokens' = [tokens EXCEPT ![call[r].token] = None] \/ UNCHANGED tokens
  /\ Goto(r, "ok")
  /\ UNCHANGED <<users, clock, call, user, at, cleaner, history>>

\* Mutant of DeleteByHash: a logout ends every session of the user.
DeleteAllOfUser(r) ==
  /\ pc[r] = "delete"
  /\ tokens' = [t \in TokenIDs |->
                  IF t \in StoredTokens /\ tokens[t].user = user[r] THEN None ELSE tokens[t]]
  /\ Goto(r, "ok") \/ Goto(r, "internal")
  /\ UNCHANGED <<users, clock, call, user, at, cleaner, history>>

\* DELETE ... WHERE token_hash = $1 succeeds whether or not the row is there.
DeleteByHash(r) ==
  /\ pc[r] = "delete"
  /\ tokens' = [tokens EXCEPT ![call[r].token] = None]
  /\ Goto(r, "ok") \/ Goto(r, "internal")
  /\ UNCHANGED <<users, clock, call, user, at, cleaner, history>>
-----------------------------------------------------------------------------
\* The ticker fires, or fired while a deletion ran: DeleteExpired takes the time.
CleanupWakes == /\ cleanup = "waiting"
                /\ cleanup' = "deleting" /\ cutoff' = clock
                /\ UNCHANGED <<users, tokens, clock, pc, call, user, at, history>>

\* Mutant of DeleteExpired: it deletes what expires within the next instant.
DeleteOneInstantEarly ==
  /\ cleanup = "deleting"
  /\ tokens' = [t \in TokenIDs |->
                  IF t \in StoredTokens /\ tokens[t].expires <= cutoff + 1
                  THEN None ELSE tokens[t]]
  /\ cleanup' = "waiting"
  /\ UNCHANGED <<users, clock, pc, call, user, at, cutoff, history>>

\* DELETE ... WHERE expires_at < $1
DeleteExpired ==
  /\ cleanup = "deleting"
  /\ tokens' = [t \in TokenIDs |->
                  IF t \in StoredTokens /\ tokens[t].expires < cutoff
                  THEN None ELSE tokens[t]]
  /\ cleanup' = "waiting"
  /\ UNCHANGED <<users, clock, pc, call, user, at, cutoff, history>>

\* Mutant of CleanupFails: the loop does not go on after an error.
CleanupGivesUp ==
  /\ cleanup = "deleting"
  /\ cleanup' = "returned"
  /\ UNCHANGED <<users, tokens, clock, pc, call, user, at, cutoff, history>>

\* A failed deletion is logged; the loop goes on.
CleanupFails == /\ cleanup = "deleting"
                /\ cleanup' = "waiting"
                /\ UNCHANGED <<users, tokens, clock, pc, call, user, at, cutoff, history>>
-----------------------------------------------------------------------------
\* A statement, or the limiter, fails without effect.
StepFails(r) ==
  /\ pc[r] \in Statements \cup {"allow"}
  /\ Goto(r, "internal")
  /\ UNCHANGED <<users, tokens, clock, call, user, at, cleaner, history>>

\* The answer reaches the client, who then has the token or knows it is dead.
Return(r) ==
  /\ pc[r] \in Answers
  /\ shown' = IF pc[r] = "ok" /\ call[r].op = "exchange"
              THEN shown \cup {call[r].token} ELSE shown
  /\ loggedOut' = IF pc[r] = "ok" /\ call[r].op = "logout"
                  THEN loggedOut \cup {call[r].token} ELSE loggedOut
  /\ Goto(r, "idle")
  /\ call' = [call EXCEPT ![r] = NoCall]
  /\ user' = [user EXCEPT ![r] = None]
  /\ at' = [at EXCEPT ![r] = 0]
  /\ late' = [late EXCEPT ![r] = FALSE]
  /\ UNCHANGED <<users, tokens, clock, cleaner>>

\* The process dies with its handlers and is started again.
Crash == /\ pc' = [r \in Requests |-> "idle"]
         /\ call' = [r \in Requests |-> NoCall]
         /\ user' = [r \in Requests |-> None]
         /\ at' = [r \in Requests |-> 0]
         /\ late' = [r \in Requests |-> FALSE]
         /\ cleanup' = "deleting" /\ cutoff' = clock
         /\ UNCHANGED <<users, tokens, clock, shown, loggedOut>>

Tick == /\ clock < MaxClock
        /\ clock' = clock + 1
        /\ UNCHANGED <<users, tokens, pc, call, user, at, cleaner, history>>

Exchange(r) == \/ Allow(r) \/ Verify(r) \/ UpsertByIdentity(r)
               \/ NewToken(r) \/ InsertToken(r)
AuthenticateUser(r) == AuthGetByHash(r) \/ AuthGetUser(r)

Next == \/ \E r \in Requests :
             \/ ExchangeArrives(r) \/ TokenArrives(r)
             \/ Exchange(r) \/ AuthenticateUser(r) \/ DeleteByHash(r)
             \/ StepFails(r) \/ Return(r)
        \/ CleanupWakes \/ DeleteExpired \/ CleanupFails
        \/ Crash
        \/ Tick

Spec == Init /\ [][Next]_vars

\* The ticker fires, and of the deletions it starts not all fail.  Requests, the
\* clock and crashes owe nothing.
FairSpec == Spec /\ WF_vars(CleanupWakes) /\ SF_vars(DeleteExpired)
-----------------------------------------------------------------------------
IdentityKept(u) ==
  /\ users[u] \in {None, users'[u]}
  /\ users'[u] # None => \A v \in UserIDs \ {u} : users'[v] # users'[u]

\* "one user per provider identity" (README.md), and for good: whatever sign-ins
\* race or fail half way, an identity keeps the one user it first got.
OneUserPerIdentity ==
  [][\A u \in UserIDs : IdentityKept(u)]_vars

\* A sign-in hands out a token of the very user its identity belongs to.
SignedInAsIdentity ==
  \A r \in Requests : pc[r] = "ok" /\ call[r].op = "exchange" =>
    /\ users[user[r]] = call[r].identity
    /\ call[r].token \in StoredTokens => tokens[call[r].token].user = user[r]

\* A token that had expired, was logged out or was unknown when its request came
\* does not let the request in, for use or for logout.
DeadTokenRefused ==
  \A r \in Requests : pc[r] \in {"delete", "ok"} => ~late[r]

Ends(t) == /\ tokens'[t] = None
           /\ \/ tokens[t].expires <= clock
              \/ \E r \in Requests : pc[r] = "delete" /\ call[r].token = t

\* A token that has not expired disappears only by a logout that presented that
\* very token: neither the cleanup with its older time stamp nor a logout of
\* another token of the user ends it.  While it is stored it does not change.
LiveTokenKept ==
  [][\A t \in StoredTokens : tokens'[t] = tokens[t] \/ Ends(t)]_vars

\* An expired token is deleted in the end, although single cleanups fail and the
\* process may crash.
ExpiredTokensGo ==
  \A t \in TokenIDs :
    (t \in StoredTokens /\ tokens[t].expires < clock) ~> t \notin StoredTokens
-----------------------------------------------------------------------------
(***************************************************************************)
(* The accounts and sessions that requests take part in, as clients see     *)
(* them.  A row that has expired is no session, whether or not the cleanup  *)
(* has come by; a token is drawn before it means anything.                  *)
(***************************************************************************)
AccountOf(identity) ==
  IF UsersOf(identity) = {} THEN None ELSE CHOOSE u \in UserIDs : users[u] = identity

SessionOf(t) == IF t \in StoredTokens /\ ~Expired(tokens[t]) THEN tokens[t] ELSE None

Phase(step) == IF step \in {"auth_user", "delete"} THEN "admitted"
               ELSE IF step \in Steps THEN "pending" ELSE step

RequestOf(r) == IF call[r].op = "exchange" /\ pc[r] # "ok"
                THEN [call[r] EXCEPT !.token = None] ELSE call[r]

ActorOf(r) == IF call[r].op = "exchange" THEN None ELSE user[r]

account == [i \in Identities |-> AccountOf(i)]
session == [t \in TokenIDs |-> SessionOf(t)]
phase == [r \in Requests |-> Phase(pc[r])]
request == [r \in Requests |-> RequestOf(r)]
actor == [r \in Requests |-> ActorOf(r)]

Sessions == INSTANCE UserSessions WITH issued <- shown, call <- request, since <- at

\* Sign-in, authentication and log-out are several statements each, with the
\* cleanup running against them, and yet behave as UserSessions says: a request
\* is let in or refused at the instant its token is read, a session has the
\* user of its identity and its full time, and only a log-out or time ends it.
ImplementsSessions == Sessions!Spec
=============================================================================
