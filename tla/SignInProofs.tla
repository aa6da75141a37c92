---------------------------- MODULE SignInProofs ----------------------------
(***************************************************************************)
(* Proofs about SignIn for every number of requests, identities, users and  *)
(* tokens and every lifetime.                                               *)
(***************************************************************************)
EXTENDS SignIn, TLAPS

ExchangePCs == {"allow", "verify", "upsert", "new_token", "insert"}

\* Where a handler is says which operation it runs and what it was given.
StepArgs ==
  \A r \in Requests :
    /\ pc[r] \in ExchangePCs => /\ call[r].op = "exchange"
                                /\ call[r].identity \in Identities
    /\ pc[r] = "insert" => call[r].token \in TokenIDs
    /\ pc[r] = "auth_token" => /\ call[r].op \in {"use", "logout"}
                               /\ call[r].token \in shown \cup {None}
    /\ pc[r] \in {"auth_user", "delete"} => /\ call[r].op \in {"use", "logout"}
                                            /\ call[r].token \in shown
    /\ pc[r] = "delete" => call[r].op = "logout"
    /\ pc[r] = "ok" =>
         \/ /\ call[r].op = "exchange"
            /\ call[r].identity \in Identities /\ call[r].token \in TokenIDs
         \/ call[r].op \in {"use", "logout"} /\ call[r].token \in shown

TInv == TypeOK /\ StepArgs

LEMMA ArriveKeepsTInv ==
  ASSUME TInv, NEW r \in Requests, ExchangeArrives(r) \/ TokenArrives(r)
  PROVE  TInv'
<1> USE DEF TInv, TypeOK, StepArgs, Goto, cleaner, history, Calls, ExchangePCs,
      Statements, Steps, Answers
<1>1. CASE ExchangeArrives(r)
  <2>1. PICK i \in Identities :
          call' = [call EXCEPT ![r] = [op |-> "exchange", identity |-> i, token |-> None]]
    BY <1>1 DEF ExchangeArrives
  <2>2. /\ call' \in [Requests -> Calls]
        /\ call'[r].op = "exchange" /\ call'[r].identity = i
        /\ \A q \in Requests \ {r} : call'[q] = call[q]
    BY <2>1
  <2> QED BY <1>1, <2>2 DEF ExchangeArrives
<1>2. CASE TokenArrives(r)
  BY <1>2 DEF TokenArrives
<1> QED BY <1>1, <1>2

LEMMA ExchangeKeepsTInv ==
  ASSUME TInv, NEW r \in Requests, Exchange(r) PROVE TInv'
<1> USE DEF TInv, TypeOK, StepArgs, Goto, cleaner, history, ExchangePCs,
      Statements, Steps, Answers
<1>1. CASE Allow(r)
  BY <1>1 DEF Allow
<1>2. CASE Verify(r)
  BY <1>2 DEF Verify
<1>3. CASE UpsertByIdentity(r)
  BY <1>3 DEF UpsertByIdentity
<1>4. CASE NewToken(r)
  <2>1. PICK t \in TokenIDs : call' = [call EXCEPT ![r].token = t]
    BY <1>4 DEF NewToken, FreshTokens
  <2>2. call' \in [Requests -> Calls]
    BY <2>1 DEF Calls
  <2>3. /\ \A q \in Requests : call'[q].op = call[q].op
                               /\ call'[q].identity = call[q].identity
        /\ \A q \in Requests \ {r} : call'[q].token = call[q].token
        /\ call'[r].token = t
    BY <2>1 DEF Calls
  <2> QED BY <1>4, <2>2, <2>3 DEF NewToken
<1>5. CASE InsertToken(r)
  <2> DEFINE new == [user |-> user[r], expires |-> at[r] + UserTokenTTL]
  <2>1. new \in Row
    BY <1>5, SignInAssumption DEF InsertToken, Row
  <2>2. tokens' = [tokens EXCEPT ![call[r].token] = new]
    BY <1>5 DEF InsertToken
  <2> HIDE DEF new
  <2> QED BY <1>5, <2>1, <2>2 DEF InsertToken
<1> QED BY <1>1, <1>2, <1>3, <1>4, <1>5 DEF Exchange

LEMMA TokenStepKeepsTInv ==
  ASSUME TInv, NEW r \in Requests, AuthenticateUser(r) \/ DeleteByHash(r)
  PROVE  TInv'
<1> USE DEF TInv, TypeOK, StepArgs, Goto, cleaner, history, ExchangePCs,
      Statements, Steps, Answers
<1>1. CASE AuthGetByHash(r)
  BY <1>1, SignInAssumption DEF AuthGetByHash, StoredTokens, Row
<1>2. CASE AuthGetUser(r)
  BY <1>2 DEF AuthGetUser
<1>3. CASE DeleteByHash(r)
  BY <1>3 DEF DeleteByHash
<1> QED BY <1>1, <1>2, <1>3 DEF AuthenticateUser

LEMMA OtherStepsKeepTInv ==
  ASSUME TInv,
         \/ \E r \in Requests : StepFails(r) \/ Return(r)
         \/ CleanupWakes \/ DeleteExpired \/ CleanupFails
         \/ Crash \/ Tick \/ UNCHANGED vars
  PROVE  TInv'
<1> USE DEF TInv, TypeOK, StepArgs, Goto, cleaner, history, ExchangePCs,
      Statements, Steps, Answers
<1>1. ASSUME NEW r \in Requests, StepFails(r) PROVE TInv'
  BY <1>1 DEF StepFails
<1>2. ASSUME NEW r \in Requests, Return(r) PROVE TInv'
  BY <1>2, SignInAssumption DEF Return, NoCall, Calls
<1>3. CASE CleanupWakes \/ DeleteExpired \/ CleanupFails
  BY <1>3 DEF CleanupWakes, DeleteExpired, CleanupFails
<1>4. CASE Crash
  BY <1>4, SignInAssumption DEF Crash, NoCall, Calls
<1>5. CASE Tick
  BY <1>5, SignInAssumption DEF Tick
<1>6. CASE UNCHANGED vars
  BY <1>6 DEF vars
<1> QED BY <1>1, <1>2, <1>3, <1>4, <1>5, <1>6

LEMMA TInvInductive == (Init => TInv) /\ (TInv /\ [Next]_vars => TInv')
<1>1. Init => TInv
  BY SignInAssumption DEF Init, TInv, TypeOK, StepArgs, NoCall, Calls, ExchangePCs
<1>2. TInv /\ [Next]_vars => TInv'
  BY ArriveKeepsTInv, ExchangeKeepsTInv, TokenStepKeepsTInv, OtherStepsKeepTInv DEF Next
<1> QED BY <1>1, <1>2

\* Every reachable state is well typed; in particular an authentication that
\* goes on has a user in hand.
THEOREM TypeCorrect == Spec => []TypeOK
<1>1. TInv => TypeOK
  BY DEF TInv
<1> QED BY <1>1, TInvInductive, PTL DEF Spec
-----------------------------------------------------------------------------
(***************************************************************************)
(* Users.  That the upsert finds at most one row of its identity, and that  *)
(* a handler between upsert and answer still has that row in hand.          *)
(***************************************************************************)
UniqueUsers == \A u, v \in UserIDs : users[u] # None /\ users[u] = users[v] => u = v

UserInHand ==
  \A r \in Requests :
    pc[r] \in {"new_token", "insert"} \/ (pc[r] = "ok" /\ call[r].op = "exchange") =>
      user[r] \in UserIDs /\ users[user[r]] = call[r].identity

UserInv == UniqueUsers /\ UserInHand

LEMMA UpsertKeepsUsers ==
  ASSUME TInv, UserInv, NEW r \in Requests, UpsertByIdentity(r)
  PROVE  UserInv' /\ \A u \in UserIDs : IdentityKept(u)
<1>1. PICK w \in UserIDs :
        /\ \/ users[w] = call[r].identity
           \/ users[w] = None /\ UsersOf(call[r].identity) = {}
        /\ users' = [users EXCEPT ![w] = call[r].identity]
        /\ \/ user' = [user EXCEPT ![r] = w] /\ Goto(r, "new_token")
           \/ UNCHANGED user /\ Goto(r, "internal")
  BY DEF UpsertByIdentity
<1>2. call[r].identity # None /\ call' = call
  BY SignInAssumption DEF TInv, StepArgs, ExchangePCs, UpsertByIdentity
<1>3. /\ users'[w] = call[r].identity
      /\ \A u \in UserIDs \ {w} : users'[u] = users[u] /\ users[u] # call[r].identity
  BY <1>1, <1>2 DEF TInv, TypeOK, UserInv, UniqueUsers, UsersOf
<1>4. UniqueUsers'
  BY <1>2, <1>3 DEF UserInv, UniqueUsers
<1>5. \A u \in UserIDs : IdentityKept(u)
  BY <1>1, <1>2, <1>3 DEF IdentityKept, UserInv, UniqueUsers
<1>6. UserInHand'
  <2>1. ASSUME NEW u \in UserIDs, users[u] = call[r].identity \/ users[u] # None
        PROVE  users'[u] = users[u]
    BY <1>1, <1>2, <1>3, <2>1
  <2>2. ASSUME NEW q \in Requests \ {r},
               pc[q] \in {"new_token", "insert"} \/ (pc[q] = "ok" /\ call[q].op = "exchange")
        PROVE  user[q] \in UserIDs /\ users'[user[q]] = call[q].identity
    <3>1. /\ user[q] \in UserIDs /\ users[user[q]] = call[q].identity
          /\ call[q].identity # None
      BY <2>2, SignInAssumption DEF TInv, StepArgs, ExchangePCs, UserInv, UserInHand
    <3> QED BY <2>1, <3>1
  <2>3. \A q \in Requests \ {r} : pc'[q] = pc[q] /\ user'[q] = user[q]
    BY <1>1 DEF TInv, TypeOK, Goto
  <2>4. pc'[r] = "internal" \/ (pc'[r] = "new_token" /\ user'[r] = w)
    BY <1>1 DEF TInv, TypeOK, Goto
  <2> QED BY <1>2, <1>3, <2>2, <2>3, <2>4 DEF UserInHand
<1> QED BY <1>4, <1>5, <1>6 DEF UserInv

\* Every other step leaves the users alone.
LEMMA OtherStepsKeepUsers ==
  ASSUME TInv, UserInv,
         \/ \E r \in Requests :
              \/ ExchangeArrives(r) \/ TokenArrives(r) \/ Allow(r) \/ Verify(r)
              \/ NewToken(r) \/ InsertToken(r) \/ AuthenticateUser(r)
              \/ DeleteByHash(r) \/ StepFails(r) \/ Return(r)
         \/ CleanupWakes \/ DeleteExpired \/ CleanupFails
         \/ Crash \/ Tick \/ UNCHANGED vars
  PROVE  UserInv' /\ users' = users
<1>1. users' = users
  BY DEF ExchangeArrives, TokenArrives, Allow, Verify, NewToken, InsertToken,
       AuthenticateUser, AuthGetByHash, AuthGetUser, DeleteByHash, StepFails, Return,
       CleanupWakes, DeleteExpired, CleanupFails, Crash, Tick, vars
<1>2. UniqueUsers'
  BY <1>1 DEF UserInv, UniqueUsers
<1> USE <1>1 DEF TInv, TypeOK, StepArgs, UserInv, UserInHand, Goto, ExchangePCs, history
<1>3. ASSUME NEW r \in Requests, ExchangeArrives(r) \/ TokenArrives(r) PROVE UserInHand'
  BY <1>3 DEF ExchangeArrives, TokenArrives
<1>4. ASSUME NEW r \in Requests, Allow(r) \/ Verify(r) PROVE UserInHand'
  BY <1>4 DEF Allow, Verify
<1>5. ASSUME NEW r \in Requests, NewToken(r) PROVE UserInHand'
  <2>1. PICK t \in TokenIDs : call' = [call EXCEPT ![r].token = t]
    BY <1>5 DEF NewToken, FreshTokens
  <2>2. \A q \in Requests : call'[q].op = call[q].op
                            /\ call'[q].identity = call[q].identity
    BY <2>1 DEF Calls
  <2> QED BY <1>5, <2>2 DEF NewToken
<1>6. ASSUME NEW r \in Requests, InsertToken(r) PROVE UserInHand'
  BY <1>6 DEF InsertToken
<1>7. ASSUME NEW r \in Requests, AuthenticateUser(r) \/ DeleteByHash(r)
      PROVE  UserInHand'
  BY <1>7 DEF AuthenticateUser, AuthGetByHash, AuthGetUser, DeleteByHash
<1>8. ASSUME NEW r \in Requests, StepFails(r) \/ Return(r) PROVE UserInHand'
  BY <1>8 DEF StepFails, Return
<1>9. ASSUME CleanupWakes \/ DeleteExpired \/ CleanupFails \/ Crash \/ Tick
             \/ UNCHANGED vars
      PROVE  UserInHand'
  BY <1>9 DEF CleanupWakes, DeleteExpired, CleanupFails, Crash, Tick, vars
<1> HIDE DEF TInv, TypeOK, StepArgs, UserInv, UserInHand, Goto
<1>10. UserInHand'
  BY <1>3, <1>4, <1>5, <1>6, <1>7, <1>8, <1>9
<1> QED BY <1>1, <1>2, <1>10 DEF UserInv

LEMMA UserInvInductive ==
  /\ Init => UserInv
  /\ TInv /\ UserInv /\ [Next]_vars => UserInv' /\ \A u \in UserIDs : IdentityKept(u)
<1>1. Init => UserInv
  BY DEF Init, UserInv, UniqueUsers, UserInHand
<1>2. ASSUME UserInv, users' = users, NEW u \in UserIDs PROVE IdentityKept(u)
  BY <1>2 DEF IdentityKept, UserInv, UniqueUsers
<1>3. TInv /\ UserInv /\ [Next]_vars => UserInv' /\ \A u \in UserIDs : IdentityKept(u)
  BY <1>2, UpsertKeepsUsers, OtherStepsKeepUsers DEF Next, Exchange
<1> QED BY <1>1, <1>3

\* An identity keeps the one user it first got, however many sign-ins race.
THEOREM UsersAreForGood == Spec => OneUserPerIdentity
<1>1. TInv /\ UserInv /\ [Next]_vars => [\A u \in UserIDs : IdentityKept(u)]_vars
  BY UserInvInductive
<1> QED BY <1>1, TInvInductive, UserInvInductive, PTL DEF Spec, OneUserPerIdentity
-----------------------------------------------------------------------------
(***************************************************************************)
(* Tokens.  A token is nobody else's from the moment it is drawn until its  *)
(* row is stored, so no row is ever written twice; a request that came with *)
(* a dead token finds it dead when it looks.                                *)
(***************************************************************************)
LoggedOutGone == loggedOut \subseteq shown /\ loggedOut \cap StoredTokens = {}

FreshUntilStored ==
  \A r \in Requests : pc[r] = "insert" =>
    /\ call[r].token \notin StoredTokens \cup shown
    /\ \A q \in Requests \ {r} : call[q].token # call[r].token

NewTokenKept ==
  \A r \in Requests : pc[r] = "ok" /\ call[r].op = "exchange" =>
    (call[r].token \in StoredTokens => tokens[call[r].token].user = user[r])

LogoutDone ==
  \A r \in Requests : pc[r] = "ok" /\ call[r].op = "logout" =>
    call[r].token \notin StoredTokens

LateStaysOut ==
  \A r \in Requests : late[r] =>
    /\ pc[r] \in {"auth_token", "unauthorized", "internal"}
    /\ pc[r] = "auth_token" => \/ call[r].token \notin StoredTokens
                               \/ tokens[call[r].token].expires <= clock

CutoffPast == cutoff <= clock

TokenInv == /\ LoggedOutGone /\ FreshUntilStored /\ NewTokenKept
            /\ LogoutDone /\ LateStaysOut /\ CutoffPast

LiveKept == \A t \in StoredTokens : tokens'[t] = tokens[t] \/ Ends(t)

\* What ends a token, or stores nothing, keeps all that TokenInv says of tokens.
LEMMA FewerTokensKeepTokenInv ==
  ASSUME TInv, TokenInv, UNCHANGED <<clock, pc, call, user, shown, loggedOut, late>>,
         \A t \in TokenIDs : tokens'[t] \in {tokens[t], None},
         cutoff' \in {cutoff, clock}
  PROVE  TokenInv'
<1>1. StoredTokens' \subseteq StoredTokens
  BY DEF StoredTokens
<1>2. \A t \in StoredTokens' : tokens'[t] = tokens[t]
  BY DEF StoredTokens
<1>3. (LoggedOutGone /\ FreshUntilStored /\ LogoutDone)'
  BY <1>1 DEF TokenInv, LoggedOutGone, FreshUntilStored, LogoutDone
<1>4. (NewTokenKept /\ LateStaysOut)'
  BY <1>1, <1>2 DEF TokenInv, NewTokenKept, LateStaysOut
<1>5. CutoffPast'
  BY DEF TInv, TypeOK, TokenInv, CutoffPast
<1> QED BY <1>3, <1>4, <1>5 DEF TokenInv

LEMMA CleanupKeepsTokens ==
  ASSUME TInv, TokenInv, CleanupWakes \/ DeleteExpired \/ CleanupFails
  PROVE  TokenInv' /\ LiveKept
<1>1. UNCHANGED <<clock, pc, call, user, shown, loggedOut, late>>
      /\ cutoff' \in {cutoff, clock}
  BY DEF CleanupWakes, DeleteExpired, CleanupFails, history
<1>2. ASSUME NEW t \in TokenIDs
      PROVE  \/ tokens'[t] = tokens[t]
             \/ DeleteExpired /\ tokens'[t] = None
                /\ t \in StoredTokens /\ tokens[t].expires < cutoff
  BY DEF CleanupWakes, DeleteExpired, CleanupFails
<1>3. ASSUME NEW t \in StoredTokens, tokens[t].expires < cutoff
      PROVE  tokens[t].expires <= clock
  <2>1. tokens[t].expires \in Nat /\ cutoff \in Nat /\ clock \in Nat /\ cutoff <= clock
    BY SignInAssumption DEF TInv, TypeOK, Row, StoredTokens, TokenInv, CutoffPast
  <2> QED BY <1>3, <2>1
<1>4. LiveKept
  BY <1>2, <1>3 DEF LiveKept, Ends, StoredTokens
<1>5. TokenInv'
  BY <1>1, <1>2, FewerTokensKeepTokenInv
<1> QED BY <1>4, <1>5

LEMMA ArriveKeepsTokens ==
  ASSUME TInv, TokenInv, NEW r \in Requests, ExchangeArrives(r) \/ TokenArrives(r)
  PROVE  TokenInv'
<1>1. UNCHANGED <<tokens, clock, cutoff, shown, loggedOut, user>>
  BY DEF ExchangeArrives, TokenArrives, history, cleaner
<1>2. /\ pc[r] = "idle" /\ pc'[r] \in {"allow", "invalid", "auth_token"}
      /\ \A q \in Requests \ {r} : /\ pc'[q] = pc[q] /\ call'[q] = call[q]
                                   /\ late'[q] = late[q]
  BY DEF ExchangeArrives, TokenArrives, TInv, TypeOK, Goto, history
<1>3. call'[r].token \in shown \cup {None}
  BY DEF ExchangeArrives, TokenArrives, TInv, TypeOK
<1>4. late'[r] => /\ pc'[r] = "auth_token"
                  /\ \/ call'[r].token \notin StoredTokens
                     \/ tokens[call'[r].token].expires <= clock
  <2>1. CASE ExchangeArrives(r)
    BY <2>1 DEF ExchangeArrives, TokenInv, LateStaysOut, history
  <2>2. CASE TokenArrives(r)
    <3>1. PICK op \in {"use", "logout"}, t \in shown \cup {None} :
            /\ call' = [call EXCEPT ![r] = [op |-> op, identity |-> None, token |-> t]]
            /\ late' = [late EXCEPT ![r] = \/ t \notin StoredTokens \ loggedOut
                                           \/ tokens[t].expires <= clock]
      BY <2>2 DEF TokenArrives
    <3>2. call'[r].token = t
      BY <3>1 DEF TInv, TypeOK
    <3>3. late'[r] => t \notin StoredTokens \ loggedOut \/ tokens[t].expires <= clock
      BY <3>1, Zenon DEF TInv, TypeOK
    <3>4. t \in loggedOut => t \notin StoredTokens
      BY DEF TokenInv, LoggedOutGone
    <3>5. pc'[r] = "auth_token"
      BY <2>2 DEF TokenArrives, TInv, TypeOK, Goto
    <3> QED BY <3>2, <3>3, <3>4, <3>5
  <2> QED BY <2>1, <2>2
<1>5. StoredTokens' = StoredTokens
  BY <1>1 DEF StoredTokens
<1>6. LoggedOutGone' /\ CutoffPast' /\ NewTokenKept' /\ LogoutDone'
  BY <1>1, <1>2, <1>5
     DEF TokenInv, LoggedOutGone, CutoffPast, NewTokenKept, LogoutDone
<1>7. FreshUntilStored'
  <2>1. ASSUME NEW q \in Requests, pc[q] = "insert" PROVE call[q].token # None
    BY <2>1, SignInAssumption DEF TInv, StepArgs
  <2> QED BY <1>1, <1>2, <1>3, <1>5, <2>1 DEF TokenInv, FreshUntilStored
<1>8. LateStaysOut'
  BY <1>1, <1>2, <1>4, <1>5 DEF TokenInv, LateStaysOut
<1> QED BY <1>6, <1>7, <1>8 DEF TokenInv

LEMMA NewTokenKeepsTokens ==
  ASSUME TInv, TokenInv, NEW r \in Requests, NewToken(r) PROVE TokenInv'
<1>1. PICK t \in FreshTokens : call' = [call EXCEPT ![r].token = t]
  BY DEF NewToken
<1>2. /\ \A q \in Requests : call'[q].op = call[q].op
      /\ \A q \in Requests \ {r} : call'[q].token = call[q].token
      /\ call'[r].token = t
  BY <1>1 DEF TInv, TypeOK, Calls
<1>3. /\ pc[r] = "new_token" /\ pc'[r] = "insert"
      /\ \A q \in Requests \ {r} : pc'[q] = pc[q]
      /\ UNCHANGED <<tokens, clock, cutoff, shown, loggedOut, late, user>>
  BY DEF NewToken, TInv, TypeOK, Goto, history, cleaner
<1>4. StoredTokens' = StoredTokens
  BY <1>3 DEF StoredTokens
<1>5. t \notin StoredTokens \cup shown /\ \A q \in Requests : call[q].token # t
  BY DEF FreshTokens
<1>6. FreshUntilStored'
  BY <1>2, <1>3, <1>4, <1>5 DEF TokenInv, FreshUntilStored
<1>7. (LoggedOutGone /\ NewTokenKept /\ LogoutDone /\ CutoffPast)'
  BY <1>2, <1>3, <1>4
     DEF TokenInv, LoggedOutGone, NewTokenKept, LogoutDone, CutoffPast
<1>8. LateStaysOut'
  BY <1>2, <1>3, <1>4 DEF TokenInv, LateStaysOut
<1> QED BY <1>6, <1>7, <1>8 DEF TokenInv

\* The only step that stores a token, and one that nobody has yet.
LEMMA InsertTokenKeepsTokens ==
  ASSUME TInv, TokenInv, NEW r \in Requests, InsertToken(r)
  PROVE  TokenInv' /\ LiveKept
<1> DEFINE new == [user |-> user[r], expires |-> at[r] + UserTokenTTL]
<1>1. PICK t \in TokenIDs : t = call[r].token
  BY DEF InsertToken, TInv, StepArgs
<1>2. /\ tokens' = [tokens EXCEPT ![t] = new] /\ new.user = user[r]
      /\ t \notin StoredTokens \cup shown
      /\ \A q \in Requests \ {r} : call[q].token # t
  BY <1>1 DEF InsertToken, TokenInv, FreshUntilStored
<1>3. /\ pc[r] = "insert" /\ pc'[r] \in {"ok", "internal"} /\ call[r].op = "exchange"
      /\ \A q \in Requests \ {r} : pc'[q] = pc[q]
      /\ UNCHANGED <<clock, call, user, cutoff, shown, loggedOut, late>>
  BY DEF InsertToken, TInv, TypeOK, StepArgs, ExchangePCs, Goto, history, cleaner
<1> HIDE DEF new
<1>4. /\ tokens'[t] = new
      /\ \A s \in TokenIDs \ {t} : tokens'[s] = tokens[s]
  BY <1>2 DEF TInv, TypeOK
<1>5. StoredTokens' \subseteq StoredTokens \cup {t}
  BY <1>4 DEF StoredTokens
<1>6. LiveKept
  BY <1>2, <1>4 DEF LiveKept, StoredTokens
<1>7. (LoggedOutGone /\ FreshUntilStored /\ LogoutDone /\ CutoffPast)'
  BY <1>1, <1>2, <1>3, <1>5
     DEF TokenInv, LoggedOutGone, FreshUntilStored, LogoutDone, CutoffPast
<1>8. NewTokenKept'
  <2>1. ASSUME NEW q \in Requests \ {r}, call[q].token \in StoredTokens'
        PROVE  call[q].token \in StoredTokens
               /\ tokens'[call[q].token] = tokens[call[q].token]
    BY <1>2, <1>4, <1>5, <2>1 DEF StoredTokens
  <2> QED BY <1>1, <1>2, <1>3, <1>4, <2>1 DEF TokenInv, NewTokenKept
<1>9. LateStaysOut'
  <2>1. ~late[r]
    BY <1>3 DEF TokenInv, LateStaysOut
  <2>2. ASSUME NEW q \in Requests \ {r}, call[q].token \in StoredTokens'
        PROVE  call[q].token \in StoredTokens
               /\ tokens'[call[q].token] = tokens[call[q].token]
    BY <1>2, <1>4, <1>5, <2>2 DEF StoredTokens
  <2> QED BY <1>3, <2>1, <2>2 DEF TokenInv, LateStaysOut
<1> QED BY <1>6, <1>7, <1>8, <1>9 DEF TokenInv

LEMMA AuthKeepsTokens ==
  ASSUME TInv, TokenInv, NEW r \in Requests, AuthenticateUser(r) PROVE TokenInv'
<1>1. UNCHANGED <<tokens, clock, call, cutoff, shown, loggedOut, late>>
  BY DEF AuthenticateUser, AuthGetByHash, AuthGetUser, history, cleaner
<1>2. /\ \A q \in Requests \ {r} : pc'[q] = pc[q] /\ user'[q] = user[q]
      /\ pc'[r] \in {"auth_user", "unauthorized", "delete", "ok"}
      /\ pc'[r] = "ok" => call[r].op = "use"
  BY DEF AuthenticateUser, AuthGetByHash, AuthGetUser, TInv, TypeOK, StepArgs, Goto
<1>3. late[r] => pc'[r] = "unauthorized"
  <2>1. CASE AuthGetByHash(r)
    BY <2>1 DEF AuthGetByHash, Expired, TokenInv, LateStaysOut, TInv, TypeOK, Goto
  <2>2. CASE AuthGetUser(r)
    BY <2>2 DEF AuthGetUser, TokenInv, LateStaysOut
  <2> QED BY <2>1, <2>2 DEF AuthenticateUser
<1>4. StoredTokens' = StoredTokens
  BY <1>1 DEF StoredTokens
<1>5. (LoggedOutGone /\ FreshUntilStored /\ NewTokenKept /\ LogoutDone /\ CutoffPast)'
  BY <1>1, <1>2, <1>4
     DEF TokenInv, LoggedOutGone, FreshUntilStored, NewTokenKept, LogoutDone, CutoffPast
<1>6. LateStaysOut'
  BY <1>1, <1>2, <1>3, <1>4 DEF TokenInv, LateStaysOut
<1> QED BY <1>5, <1>6 DEF TokenInv

LEMMA DeleteByHashKeepsTokens ==
  ASSUME TInv, TokenInv, NEW r \in Requests, DeleteByHash(r)
  PROVE  TokenInv' /\ LiveKept
<1>1. PICK t \in TokenIDs : t = call[r].token
  BY DEF DeleteByHash, TInv, TypeOK, StepArgs
<1>2. /\ tokens'[t] = None
      /\ \A s \in TokenIDs \ {t} : tokens'[s] = tokens[s]
  BY <1>1 DEF DeleteByHash, TInv, TypeOK
<1>3. /\ pc[r] = "delete" /\ pc'[r] \in {"ok", "internal"} /\ call[r].op = "logout"
      /\ \A q \in Requests \ {r} : pc'[q] = pc[q]
      /\ UNCHANGED <<clock, call, user, cutoff, shown, loggedOut, late>>
  BY DEF DeleteByHash, TInv, TypeOK, StepArgs, Goto, history, cleaner
<1>4. LiveKept
  BY <1>1, <1>2, <1>3 DEF LiveKept, Ends, StoredTokens
<1>5. /\ StoredTokens' \subseteq StoredTokens \ {t}
      /\ \A s \in StoredTokens' : tokens'[s] = tokens[s]
  BY <1>2 DEF StoredTokens
<1>6. (LoggedOutGone /\ FreshUntilStored /\ NewTokenKept /\ LogoutDone /\ CutoffPast)'
  BY <1>1, <1>3, <1>5
     DEF TokenInv, LoggedOutGone, FreshUntilStored, NewTokenKept, LogoutDone, CutoffPast
<1>7. LateStaysOut'
  BY <1>3, <1>5 DEF TokenInv, LateStaysOut
<1> QED BY <1>4, <1>6, <1>7 DEF TokenInv

\* Steps that only move a handler that has no token in hand yet, or fail it.
LEMMA MovesKeepTokens ==
  ASSUME TInv, TokenInv, NEW r \in Requests,
         Allow(r) \/ Verify(r) \/ UpsertByIdentity(r) \/ StepFails(r)
  PROVE  TokenInv'
<1>1. UNCHANGED <<tokens, clock, call, cutoff, shown, loggedOut, late>>
  BY DEF Allow, Verify, UpsertByIdentity, StepFails, history, cleaner
<1>2. /\ \A q \in Requests \ {r} : pc'[q] = pc[q] /\ user'[q] = user[q]
      /\ pc'[r] \notin {"insert", "ok"}
  BY DEF Allow, Verify, UpsertByIdentity, StepFails, TInv, TypeOK, Goto
<1>3. late[r] => pc'[r] = "internal"
  BY DEF Allow, Verify, UpsertByIdentity, StepFails, TInv, TypeOK, TokenInv,
         LateStaysOut, Goto
<1>4. StoredTokens' = StoredTokens
  BY <1>1 DEF StoredTokens
<1>5. (LoggedOutGone /\ FreshUntilStored /\ NewTokenKept /\ LogoutDone /\ CutoffPast)'
  BY <1>1, <1>2, <1>4
     DEF TokenInv, LoggedOutGone, FreshUntilStored, NewTokenKept, LogoutDone, CutoffPast
<1>6. LateStaysOut'
  BY <1>1, <1>2, <1>3, <1>4 DEF TokenInv, LateStaysOut
<1> QED BY <1>5, <1>6 DEF TokenInv

\* A client learns of a token, or of its end, only here.
LEMMA ReturnKeepsTokens ==
  ASSUME TInv, TokenInv, NEW r \in Requests, Return(r) PROVE TokenInv'
<1>1. /\ UNCHANGED <<tokens, clock, cutoff>>
      /\ \A q \in Requests \ {r} : /\ pc'[q] = pc[q] /\ user'[q] = user[q]
                                   /\ call'[q] = call[q] /\ late'[q] = late[q]
      /\ pc'[r] = "idle" /\ call'[r].token = None /\ ~late'[r]
  BY DEF Return, NoCall, TInv, TypeOK, Goto, cleaner
<1>2. /\ shown \subseteq shown' /\ shown' \subseteq shown \cup {call[r].token}
      /\ loggedOut' \subseteq shown'
      /\ loggedOut' \cap StoredTokens = {}
  BY DEF Return, TInv, StepArgs, TokenInv, LoggedOutGone, LogoutDone
<1>3. StoredTokens' = StoredTokens
  BY <1>1 DEF StoredTokens
<1>4. FreshUntilStored'
  <2>1. ASSUME NEW q \in Requests \ {r}, pc[q] = "insert"
        PROVE  call[q].token \notin StoredTokens \cup shown' /\ call[q].token # None
    BY <1>2, <2>1, SignInAssumption DEF TInv, StepArgs, TokenInv, FreshUntilStored
  <2> QED BY <1>1, <1>3, <2>1 DEF TokenInv, FreshUntilStored
<1>5. (LoggedOutGone /\ NewTokenKept /\ LogoutDone /\ CutoffPast)'
  BY <1>1, <1>2, <1>3
     DEF TokenInv, LoggedOutGone, NewTokenKept, LogoutDone, CutoffPast
<1>6. LateStaysOut'
  BY <1>1, <1>3 DEF TokenInv, LateStaysOut
<1> QED BY <1>4, <1>5, <1>6 DEF TokenInv

LEMMA EnvironmentKeepsTokens ==
  ASSUME TInv, TokenInv, Crash \/ Tick \/ UNCHANGED vars PROVE TokenInv'
<1> USE DEF TokenInv, LoggedOutGone, FreshUntilStored, NewTokenKept, LogoutDone,
      LateStaysOut, CutoffPast, StoredTokens
<1>1. CASE Crash
  BY <1>1 DEF Crash, TInv, TypeOK
<1>2. CASE Tick
  <2>1. ASSUME NEW t \in StoredTokens, tokens[t].expires <= clock
        PROVE  tokens[t].expires <= clock'
    <3>1. tokens[t].expires \in Nat /\ clock \in Nat /\ clock' = clock + 1
      BY <1>2, SignInAssumption DEF Tick, TInv, TypeOK, Row
    <3> QED BY <2>1, <3>1
  <2>2. CutoffPast'
    BY <1>2, SignInAssumption DEF Tick, TInv, TypeOK, cleaner
  <2>3. UNCHANGED <<tokens, pc, call, user, shown, loggedOut, late>>
    BY <1>2 DEF Tick, history
  <2>4. LateStaysOut'
    <3>1. ASSUME NEW q \in Requests, late[q], pc[q] = "auth_token",
                 call[q].token \in StoredTokens
          PROVE  tokens[call[q].token].expires <= clock'
      BY <3>1, <2>1
    <3> QED BY <2>3, <3>1
  <2> QED BY <2>2, <2>3, <2>4
<1>3. CASE UNCHANGED vars
  BY <1>3 DEF vars
<1> QED BY <1>1, <1>2, <1>3

LEMMA TokenInvInductive ==
  /\ Init => TokenInv
  /\ TInv /\ TokenInv /\ [Next]_vars => TokenInv' /\ LiveKept
<1>1. Init => TokenInv
  BY DEF Init, TokenInv, LoggedOutGone, FreshUntilStored, NewTokenKept, LogoutDone,
         LateStaysOut, CutoffPast, StoredTokens
<1>2. ASSUME tokens' = tokens PROVE LiveKept
  BY <1>2 DEF LiveKept
<1>3. ASSUME NEW r \in Requests,
             \/ ExchangeArrives(r) \/ TokenArrives(r) \/ Allow(r) \/ Verify(r)
             \/ UpsertByIdentity(r) \/ NewToken(r) \/ AuthenticateUser(r)
             \/ StepFails(r) \/ Return(r)
      PROVE  LiveKept
  BY <1>2, <1>3 DEF ExchangeArrives, TokenArrives, Allow, Verify, UpsertByIdentity,
       NewToken, AuthenticateUser, AuthGetByHash, AuthGetUser, StepFails, Return
<1>4. ASSUME Crash \/ Tick \/ UNCHANGED vars PROVE LiveKept
  BY <1>2, <1>4 DEF Crash, Tick, vars
<1>5. TInv /\ TokenInv /\ [Next]_vars => TokenInv' /\ LiveKept
  BY <1>3, <1>4, ArriveKeepsTokens, NewTokenKeepsTokens, InsertTokenKeepsTokens,
     AuthKeepsTokens, DeleteByHashKeepsTokens, MovesKeepTokens, ReturnKeepsTokens,
     CleanupKeepsTokens, EnvironmentKeepsTokens DEF Next, Exchange
<1> QED BY <1>1, <1>5

\* A sign-in hands out a token of the user its identity belongs to.
THEOREM SignInIsOwn == Spec => []SignedInAsIdentity
<1>1. UserInv /\ TokenInv => SignedInAsIdentity
  BY DEF UserInv, UserInHand, TokenInv, NewTokenKept, SignedInAsIdentity
<1> QED BY <1>1, TInvInductive, UserInvInductive, TokenInvInductive, PTL DEF Spec

\* A token that was expired, logged out or unknown when its request came never
\* lets the request in.
THEOREM DeadStayDead == Spec => []DeadTokenRefused
<1>1. TokenInv => DeadTokenRefused
  BY DEF TokenInv, LateStaysOut, DeadTokenRefused
<1> QED BY <1>1, TInvInductive, TokenInvInductive, PTL DEF Spec

\* Until it expires a token ends only by a logout that presents it.
THEOREM LiveStayLive == Spec => LiveTokenKept
<1>1. TInv /\ TokenInv /\ [Next]_vars =>
        [\A t \in StoredTokens : tokens'[t] = tokens[t] \/ Ends(t)]_vars
  BY TokenInvInductive DEF LiveKept
<1> QED BY <1>1, TInvInductive, TokenInvInductive, PTL DEF Spec, LiveTokenKept
-----------------------------------------------------------------------------
(***************************************************************************)
(* SignIn implements UserSessions.  What the mapping needs beyond the       *)
(* invariants above: a request acts for nobody before its token was read,   *)
(* and a token that is to be stored has its time stamp.                     *)
(***************************************************************************)
ActorFollows == \A r \in Requests : pc[r] \in {"idle", "auth_token"} => user[r] = None

StampFollows == \A r \in Requests : pc[r] = "insert" => at[r] # 0

SInv == TInv /\ UserInv /\ TokenInv /\ ActorFollows /\ StampFollows

LEMMA RequestsKeepStamps ==
  ASSUME TInv, ActorFollows, StampFollows, NEW r \in Requests,
         \/ ExchangeArrives(r) \/ TokenArrives(r)
         \/ Exchange(r) \/ AuthenticateUser(r) \/ DeleteByHash(r)
         \/ StepFails(r) \/ Return(r)
  PROVE  (ActorFollows /\ StampFollows)'
<1> USE DEF ActorFollows, StampFollows, TInv, TypeOK, Goto, Statements
<1>1. CASE ExchangeArrives(r) \/ TokenArrives(r)
  BY <1>1 DEF ExchangeArrives, TokenArrives
<1>2. CASE Exchange(r)
  BY <1>2 DEF Exchange, Allow, Verify, UpsertByIdentity, NewToken, InsertToken
<1>3. CASE AuthenticateUser(r) \/ DeleteByHash(r)
  BY <1>3 DEF AuthenticateUser, AuthGetByHash, AuthGetUser, DeleteByHash
<1>4. CASE StepFails(r) \/ Return(r)
  BY <1>4 DEF StepFails, Return
<1> QED BY <1>1, <1>2, <1>3, <1>4

LEMMA SInvInductive == (Init => SInv) /\ (SInv /\ [Next]_vars => SInv')
<1>1. Init => SInv
  BY TInvInductive, UserInvInductive, TokenInvInductive
     DEF Init, SInv, ActorFollows, StampFollows
<1>2. ASSUME TInv, ActorFollows, StampFollows,
             \/ CleanupWakes \/ DeleteExpired \/ CleanupFails
             \/ Crash \/ Tick \/ UNCHANGED vars
      PROVE  (ActorFollows /\ StampFollows)'
  BY <1>2 DEF ActorFollows, StampFollows, CleanupWakes, DeleteExpired, CleanupFails,
              Crash, Tick, vars
<1>3. SInv /\ [Next]_vars => SInv'
  BY <1>2, TInvInductive, UserInvInductive, TokenInvInductive, RequestsKeepStamps
     DEF SInv, Next
<1> QED BY <1>1, <1>3

\* The account of an identity is the one row it has, if it has one.
LEMMA AccountIs ==
  ASSUME SInv, NEW i \in Identities
  PROVE  /\ account[i] = None <=> UsersOf(i) = {}
         /\ \A u \in UserIDs : account[i] = u <=> users[u] = i
<1>1. i # None /\ None \notin UserIDs
  BY SignInAssumption
<1>2. \A u, v \in UsersOf(i) : u = v
  BY <1>1 DEF SInv, UserInv, UniqueUsers, UsersOf
<1>3. CASE UsersOf(i) = {}
  BY <1>1, <1>3 DEF account, AccountOf, UsersOf
<1>4. CASE UsersOf(i) # {}
  <2>1. PICK u \in UserIDs : users[u] = i
    BY <1>4 DEF UsersOf
  <2>2. account[i] \in UserIDs /\ users[account[i]] = i
    BY <1>4, <2>1 DEF account, AccountOf
  <2> QED BY <1>1, <1>2, <1>4, <2>2 DEF UsersOf
<1> QED BY <1>3, <1>4

LEMMA SessionIs ==
  ASSUME SInv, NEW t \in TokenIDs
  PROVE  /\ Sessions!Live(t) <=> t \in StoredTokens /\ ~Expired(tokens[t])
         /\ Sessions!Live(t) => session[t] = tokens[t]
BY DEF Sessions!Live, session, SessionOf, StoredTokens

\* A handler that moves on with the same call and, unless it signs in, for the
\* same user.
LEMMA Moved ==
  ASSUME SInv, NEW r \in Requests, NEW p, pc' = [pc EXCEPT ![r] = p], pc[r] # "ok",
         call' = call, p = "ok" => call[r].op # "exchange",
         user' = user \/ (call[r].op = "exchange" /\ \A q \in Requests \ {r} : user'[q] = user[q])
  PROVE  /\ phase' = [phase EXCEPT ![r] = Phase(p)]
         /\ request' = request /\ actor' = actor
<1>1. \A q \in Requests : pc'[q] = IF q = r THEN p ELSE pc[q]
  BY DEF SInv, TInv, TypeOK
<1>2. phase' = [phase EXCEPT ![r] = Phase(p)]
  <2>1. \A q \in Requests : Phase(pc'[q]) = IF q = r THEN Phase(p) ELSE Phase(pc[q])
    BY <1>1
  <2> QED BY <2>1 DEF phase
<1>3. request' = request
  BY <1>1 DEF request, RequestOf
<1>4. actor' = actor
  BY DEF actor, ActorOf
<1> QED BY <1>2, <1>3, <1>4

LEMMA Pending ==
  ASSUME NEW r \in Requests
  PROVE  /\ pc[r] \in ExchangePCs \cup {"auth_token"} => phase[r] = "pending"
         /\ pc[r] \in {"auth_user", "delete"} => phase[r] = "admitted"
         /\ pc[r] = "idle" => phase[r] = "idle"
         /\ pc[r] \in Answers => phase[r] = pc[r]
         /\ \A p \in ExchangePCs \cup {"auth_token"} : Phase(p) = "pending"
         /\ \A p \in {"auth_user", "delete"} : Phase(p) = "admitted"
         /\ \A p \in Answers : Phase(p) = p
         /\ Phase("idle") = "idle"
BY DEF phase, Phase, ExchangePCs, Steps, Statements, Answers

LEMMA TablesKept ==
  ASSUME TRUE
  PROVE  /\ users' = users => account' = account
         /\ tokens' = tokens /\ clock' = clock => session' = session
<1>1. users' = users => account' = account
  BY DEF account, AccountOf, UsersOf
<1>2. tokens' = tokens /\ clock' = clock => session' = session
  BY DEF session, SessionOf, StoredTokens, Expired
<1> QED BY <1>1, <1>2

SessionVars == <<clock, account, session, shown, phase, request, actor, at>>

LEMMA ArriveMaps ==
  ASSUME SInv, NEW r \in Requests, ExchangeArrives(r) \/ TokenArrives(r)
  PROVE  Sessions!ArriveToSignIn(r) \/ Sessions!ArriveWithToken(r)
<1>1. UNCHANGED <<clock, account, session, shown, at, user>> /\ pc[r] = "idle"
  BY TablesKept DEF ExchangeArrives, TokenArrives, history
<1>2. ASSUME NEW p, Goto(r, p)
      PROVE  /\ phase' = [phase EXCEPT ![r] = Phase(p)]
             /\ \A q \in Requests : pc'[q] = IF q = r THEN p ELSE pc[q]
  BY <1>2 DEF phase, Goto, SInv, TInv, TypeOK
<1>3. ASSUME NEW c \in Calls, call' = [call EXCEPT ![r] = c], NEW p, Goto(r, p), p # "ok",
             c.op = "exchange" => c.token = None
      PROVE  request' = [request EXCEPT ![r] = c] /\ actor' = actor
  <2>1. \A q \in Requests : call'[q] = IF q = r THEN c ELSE call[q]
    BY <1>3 DEF SInv, TInv, TypeOK
  <2>2. c.op = "exchange" => [c EXCEPT !.token = None] = c
    BY <1>3 DEF Calls
  <2>3. pc'[r] # "ok" /\ \A q \in Requests \ {r} : pc'[q] = pc[q]
    BY <1>2, <1>3
  <2>4. \A q \in Requests : RequestOf(q)' = IF q = r THEN c ELSE RequestOf(q)
    BY <2>1, <2>2, <2>3 DEF RequestOf
  <2>5. request' = [request EXCEPT ![r] = c]
    BY <2>4 DEF request
  <2>6. \A q \in Requests : ActorOf(q)' = ActorOf(q)
    BY <1>1, <2>1 DEF ActorOf, SInv, ActorFollows
  <2> QED BY <2>5, <2>6 DEF actor
<1>4. CASE ExchangeArrives(r)
  <2>1. PICK i \in Identities :
          call' = [call EXCEPT ![r] = [op |-> "exchange", identity |-> i, token |-> None]]
    BY <1>4 DEF ExchangeArrives
  <2>2. PICK p \in {"allow", "invalid"} : Goto(r, p)
    BY <1>4 DEF ExchangeArrives
  <2>3. [op |-> "exchange", identity |-> i, token |-> None] \in Calls
    BY DEF Calls
  <2>4. /\ request' = [request EXCEPT ![r] =
                         [op |-> "exchange", identity |-> i, token |-> None]]
        /\ actor' = actor
    BY <1>3, <2>1, <2>2, <2>3
  <2>5. \/ Sessions!Moves(r, "idle", "pending")
        \/ Sessions!Moves(r, "idle", "invalid")
    BY <1>1, <1>2, <2>2, Pending DEF Sessions!Moves, ExchangePCs, Answers
  <2> QED BY <1>1, <2>4, <2>5 DEF Sessions!ArriveToSignIn
<1>5. CASE TokenArrives(r)
  <2>1. PICK op \in {"use", "logout"}, t \in shown \cup {None} :
          call' = [call EXCEPT ![r] = [op |-> op, identity |-> None, token |-> t]]
    BY <1>5 DEF TokenArrives
  <2>2. Goto(r, "auth_token")
    BY <1>5 DEF TokenArrives
  <2>3. [op |-> op, identity |-> None, token |-> t] \in Calls
    BY DEF Calls, SInv, TInv, TypeOK
  <2>4. /\ request' = [request EXCEPT ![r] = [op |-> op, identity |-> None, token |-> t]]
        /\ actor' = actor
    BY <1>3, <2>1, <2>2, <2>3
  <2>5. Sessions!Moves(r, "idle", "pending")
    BY <1>1, <1>2, <2>2, Pending DEF Sessions!Moves
  <2> QED BY <1>1, <2>1, <2>4, <2>5 DEF Sessions!ArriveWithToken
<1> QED BY <1>4, <1>5

\* A request that is refused or fails, or goes on with what clients do not see.
LEMMA QuietStep ==
  ASSUME SInv, NEW r \in Requests, NEW p, pc' = [pc EXCEPT ![r] = p],
         pc[r] # "ok", p = "ok" => call[r].op # "exchange",
         UNCHANGED <<users, tokens, clock, call, shown, at>>,
         user' = user \/ (call[r].op = "exchange" /\ \A q \in Requests \ {r} : user'[q] = user[q])
  PROVE  /\ phase' = [phase EXCEPT ![r] = Phase(p)]
         /\ UNCHANGED <<clock, account, session, shown, request, actor, at>>
         /\ Phase(p) = phase[r] => UNCHANGED SessionVars
<1>1. /\ phase' = [phase EXCEPT ![r] = Phase(p)]
      /\ UNCHANGED <<clock, account, session, shown, request, actor, at>>
  BY Moved, TablesKept
<1>2. Phase(p) = phase[r] => phase' = phase
  BY <1>1 DEF phase
<1> QED BY <1>1, <1>2 DEF SessionVars

LEMMA RequestIs ==
  ASSUME NEW r \in Requests
  PROVE  /\ request[r].op = call[r].op /\ request[r].identity = call[r].identity
         /\ call[r].op # "exchange" \/ pc[r] = "ok" => request[r] = call[r]
BY DEF request, RequestOf

LEMMA DoorMaps ==
  ASSUME SInv, NEW r \in Requests, Allow(r) \/ Verify(r)
  PROVE  Sessions!Refuse(r) \/ UNCHANGED SessionVars
<1>1. /\ pc[r] \in ExchangePCs /\ call[r].op = "exchange"
      /\ UNCHANGED <<users, tokens, clock, call, user, shown, at>>
  BY DEF Allow, Verify, SInv, TInv, StepArgs, ExchangePCs, history
<1>2. PICK p \in {"verify", "upsert", "too_many", "invalid", "unauthorized"} :
        pc' = [pc EXCEPT ![r] = p]
  BY DEF Allow, Verify, Goto
<1>3. phase[r] = "pending" /\ pc[r] # "ok"
  BY <1>1, Pending DEF ExchangePCs
<1>4. /\ phase' = [phase EXCEPT ![r] = Phase(p)]
      /\ UNCHANGED <<clock, account, session, shown, request, actor, at>>
      /\ Phase(p) = phase[r] => UNCHANGED SessionVars
  BY <1>1, <1>2, <1>3, QuietStep
<1>5. CASE p \in {"verify", "upsert"}
  BY <1>3, <1>4, <1>5, Pending DEF ExchangePCs
<1>6. CASE p \in {"too_many", "invalid", "unauthorized"}
  <2>1. Phase(p) = p
    BY <1>6, Pending DEF Answers
  <2> QED BY <1>1, <1>3, <1>4, <1>6, <2>1, RequestIs DEF Sessions!Refuse, Sessions!Moves
<1> QED BY <1>5, <1>6

LEMMA FailMaps ==
  ASSUME SInv, NEW r \in Requests, pc[r] \in Steps, pc' = [pc EXCEPT ![r] = "internal"],
         UNCHANGED <<users, tokens, clock, call, user, shown, at>>
  PROVE  Sessions!Fail(r)
<1>1. phase[r] \in {"pending", "admitted"} /\ pc[r] # "ok"
  BY DEF phase, Phase, Steps, Statements
<1>2. Phase("internal") = "internal"
  BY Pending DEF Answers
<1>3. /\ phase' = [phase EXCEPT ![r] = Phase("internal")]
      /\ UNCHANGED <<clock, account, session, shown, request, actor, at>>
  BY <1>1, QuietStep
<1> QED BY <1>1, <1>2, <1>3 DEF Sessions!Fail, Sessions!Moves

\* The first upsert of an identity makes its account; a later one finds it.
LEMMA UpsertMaps ==
  ASSUME SInv, NEW r \in Requests, UpsertByIdentity(r)
  PROVE  Sessions!Register(r) \/ Sessions!Fail(r) \/ UNCHANGED SessionVars
<1> DEFINE i == call[r].identity
<1>1. PICK u \in UserIDs :
        /\ users[u] = i \/ (users[u] = None /\ UsersOf(i) = {})
        /\ users' = [users EXCEPT ![u] = i]
        /\ \/ user' = [user EXCEPT ![r] = u] /\ Goto(r, "new_token")
           \/ UNCHANGED user /\ Goto(r, "internal")
  BY DEF UpsertByIdentity
<1>2. /\ pc[r] = "upsert" /\ call[r].op = "exchange" /\ i \in Identities /\ i # None
      /\ UNCHANGED <<tokens, clock, call, shown, at>>
  BY SignInAssumption DEF UpsertByIdentity, SInv, TInv, StepArgs, ExchangePCs, history
<1>3. PICK p \in {"new_token", "internal"} :
        /\ pc' = [pc EXCEPT ![r] = p]
        /\ p = "internal" => user' = user
        /\ \A q \in Requests \ {r} : user'[q] = user[q]
  BY <1>1 DEF Goto, SInv, TInv, TypeOK
<1>4. phase[r] = "pending" /\ Phase("new_token") = "pending" /\ Phase("internal") = "internal"
  BY <1>2, Pending DEF ExchangePCs, Answers
<1>5. CASE users[u] = i
  <2>1. users' = users
    BY <1>1, <1>5 DEF SInv, TInv, TypeOK
  <2>2. /\ phase' = [phase EXCEPT ![r] = Phase(p)]
        /\ UNCHANGED <<clock, account, session, shown, request, actor, at>>
        /\ Phase(p) = phase[r] => UNCHANGED SessionVars
    BY <1>2, <1>3, <2>1, QuietStep
  <2> QED BY <1>3, <1>4, <2>2 DEF Sessions!Fail, Sessions!Moves
<1>6. CASE users[u] = None /\ UsersOf(i) = {}
  <2>1. \A v \in UserIDs : users'[v] = IF v = u THEN i ELSE users[v]
    BY <1>1 DEF SInv, TInv, TypeOK
  <2>2. \A j \in Identities : account[j] # u
    BY <1>6, AccountIs, SignInAssumption
  <2>3. account[i] = None
    BY <1>2, <1>6, AccountIs
  <2>4. SInv'
    BY SInvInductive DEF Next, Exchange
  <2>5. account'[i] = u
    <3>1. UsersOf(i)' = {u}
      BY <1>2, <1>6, <2>1 DEF UsersOf
    <3>2. AccountOf(i)' = u
      BY <3>1 DEF AccountOf, UsersOf
    <3> QED BY <1>2, <3>2 DEF account
  <2>6. \A j \in Identities \ {i} : account'[j] = account[j]
    <3>1. ASSUME NEW j \in Identities \ {i}
          PROVE  \A v \in UserIDs : users'[v] = j <=> users[v] = j
      BY <1>6, <2>1, SignInAssumption
    <3>2. ASSUME NEW j \in Identities \ {i} PROVE AccountOf(j)' = AccountOf(j)
      <4>1. UsersOf(j)' = UsersOf(j)
        BY <3>1 DEF UsersOf
      <4>2. (CHOOSE v \in UserIDs : users'[v] = j) = (CHOOSE v \in UserIDs : users[v] = j)
        BY <3>1
      <4>3. AccountOf(j)' = IF UsersOf(j)' = {} THEN None
                            ELSE CHOOSE v \in UserIDs : users'[v] = j
        BY Zenon DEF AccountOf
      <4>4. AccountOf(j) = IF UsersOf(j) = {} THEN None
                           ELSE CHOOSE v \in UserIDs : users[v] = j
        BY Zenon DEF AccountOf
      <4> QED BY <4>1, <4>2, <4>3, <4>4, Zenon
    <3> QED BY <3>2 DEF account
  <2>7. account' = [account EXCEPT ![i] = u]
    BY <1>2, <2>5, <2>6 DEF account
  <2>8. /\ phase' = [phase EXCEPT ![r] = Phase(p)]
        /\ request' = request /\ actor' = actor /\ session' = session
    BY <1>2, <1>3, Moved, TablesKept
  <2>9. request[r].op = "exchange" /\ request[r].identity = i
    BY <1>2, RequestIs
  <2>10. Sessions!Moves(r, "pending", "pending") \/ Sessions!Moves(r, "pending", "internal")
    BY <1>3, <1>4, <2>8 DEF Sessions!Moves
  <2>11. Sessions!Register(r)
    BY <1>2, <2>2, <2>3, <2>7, <2>8, <2>9, <2>10 DEF Sessions!Register
  <2> QED BY <2>11
<1> QED BY <1>1, <1>5, <1>6

\* A handler past its upsert has the account of its identity in hand.
LEMMA AccountInHand ==
  ASSUME SInv, NEW r \in Requests, pc[r] \in {"new_token", "insert"}
  PROVE  /\ call[r].op = "exchange" /\ call[r].identity \in Identities
         /\ user[r] \in UserIDs /\ account[call[r].identity] = user[r]
         /\ account[call[r].identity] # None
<1>1. /\ call[r].op = "exchange" /\ call[r].identity \in Identities
      /\ user[r] \in UserIDs /\ users[user[r]] = call[r].identity
  BY DEF SInv, TInv, StepArgs, ExchangePCs, UserInv, UserInHand
<1> QED BY <1>1, AccountIs, SignInAssumption

LEMMA NewTokenMaps ==
  ASSUME SInv, NEW r \in Requests, NewToken(r)
  PROVE  Sessions!Begin(r)
<1>1. PICK t \in FreshTokens : call' = [call EXCEPT ![r].token = t]
  BY DEF NewToken
<1>2. /\ pc[r] = "new_token" /\ pc' = [pc EXCEPT ![r] = "insert"]
      /\ at' = [at EXCEPT ![r] = clock]
      /\ UNCHANGED <<users, tokens, clock, user, shown>>
  BY DEF NewToken, Goto, history
<1>3. /\ call[r].op = "exchange" /\ account[call[r].identity] # None
      /\ request[r].op = "exchange" /\ request[r].identity = call[r].identity
  BY <1>2, AccountInHand, RequestIs
<1>4. account' = account /\ session' = session
  BY <1>2, TablesKept
<1>5. \A q \in Requests : pc'[q] = IF q = r THEN "insert" ELSE pc[q]
  BY <1>2 DEF SInv, TInv, TypeOK
<1>6. Sessions!Moves(r, "pending", "pending")
  <2>1. phase[r] = "pending" /\ Phase("insert") = "pending"
    BY <1>2, Pending DEF ExchangePCs
  <2>2. \A q \in Requests : Phase(pc'[q]) = Phase(pc[q])
    BY <1>2, <1>5, <2>1 DEF phase
  <2>3. phase' = phase
    BY <2>2 DEF phase
  <2> QED BY <2>1, <2>3 DEF Sessions!Moves, phase
<1>7. \A q \in Requests \ {r} : call'[q] = call[q]
  BY <1>1 DEF SInv, TInv, TypeOK
<1>8. call'[r] = [call[r] EXCEPT !.token = t]
  BY <1>1 DEF SInv, TInv, TypeOK
<1>9. /\ [call'[r] EXCEPT !.token = None] = [call[r] EXCEPT !.token = None]
      /\ call'[r].op = "exchange"
  BY <1>3, <1>8 DEF SInv, TInv, TypeOK, Calls
<1>10. request' = request
  <2>1. RequestOf(r)' = RequestOf(r)
    BY <1>2, <1>3, <1>5, <1>9 DEF RequestOf
  <2>2. \A q \in Requests \ {r} : RequestOf(q)' = RequestOf(q)
    BY <1>5, <1>7 DEF RequestOf
  <2> QED BY <2>1, <2>2 DEF request
<1>11. actor' = actor
  <2>1. \A q \in Requests : ActorOf(q)' = ActorOf(q)
    BY <1>2, <1>3, <1>7, <1>9 DEF ActorOf
  <2> QED BY <2>1 DEF actor
<1> QED BY <1>2, <1>3, <1>4, <1>6, <1>10, <1>11 DEF Sessions!Begin

LEMMA InsertMaps ==
  ASSUME SInv, NEW r \in Requests, InsertToken(r)
  PROVE  Sessions!Open(r)
<1> DEFINE new == [user |-> user[r], expires |-> at[r] + UserTokenTTL]
<1>0. PICK t \in TokenIDs : t = call[r].token
  BY DEF InsertToken, SInv, TInv, StepArgs
<1>1. /\ pc[r] = "insert" /\ tokens' = [tokens EXCEPT ![t] = new]
      /\ UNCHANGED <<users, clock, call, user, at, shown>>
  BY <1>0 DEF InsertToken, history
<1>2. PICK p \in {"ok", "internal"} : pc' = [pc EXCEPT ![r] = p]
  BY DEF InsertToken, Goto
<1>3. /\ t \in TokenIDs \ shown /\ t \notin StoredTokens
      /\ at[r] # 0 /\ at[r] \in Nat /\ clock \in Nat
  BY <1>0, <1>1, SignInAssumption
     DEF SInv, TInv, TypeOK, TokenInv, FreshUntilStored, StampFollows
<1>4. /\ call[r].op = "exchange" /\ account[call[r].identity] = user[r]
      /\ request[r].op = "exchange" /\ request[r].identity = call[r].identity
  BY <1>1, AccountInHand, RequestIs
<1>5. account' = account
  BY <1>1, TablesKept
<1>6. new # None /\ new.expires = at[r] + UserTokenTTL
  <2>1. new \in Row
    BY <1>1, SignInAssumption DEF Row, SInv, TInv, TypeOK
  <2> QED BY <2>1, SignInAssumption
<1>7. session' = [session EXCEPT ![t] = IF new.expires > clock THEN new ELSE None]
  <2>1. \A s \in TokenIDs : tokens'[s] = IF s = t THEN new ELSE tokens[s]
    BY <1>1 DEF SInv, TInv, TypeOK
  <2>2. SessionOf(t)' = IF new.expires > clock THEN new ELSE None
    <3>1. tokens'[t] = new /\ t \in TokenIDs /\ clock' = clock
      BY <1>1, <1>3, <2>1
    <3>2. new.expires \in Nat
      BY <1>3, <1>6, SignInAssumption
    <3> HIDE DEF new
    <3> QED BY <1>3, <1>6, <3>1, <3>2 DEF SessionOf, StoredTokens, Expired
  <2>3. \A s \in TokenIDs \ {t} : SessionOf(s)' = SessionOf(s)
    BY <1>1, <2>1 DEF SessionOf, StoredTokens, Expired
  <2> HIDE DEF new
  <2> QED BY <2>2, <2>3 DEF session
<1>8. ~Sessions!Live(t)
  BY <1>3, SessionIs
<1>9. \A q \in Requests : pc'[q] = IF q = r THEN p ELSE pc[q]
  BY <1>2 DEF SInv, TInv, TypeOK
<1>10. Sessions!Moves(r, "pending", p)
  <2>1. phase[r] = "pending" /\ Phase(p) = p
    BY <1>1, Pending DEF ExchangePCs, Answers
  <2>2. \A q \in Requests : Phase(pc'[q]) = IF q = r THEN p ELSE Phase(pc[q])
    BY <1>9, <2>1
  <2> QED BY <2>1, <2>2 DEF Sessions!Moves, phase
<1>11. actor' = actor
  BY <1>1 DEF actor, ActorOf
<1>12. IF p = "ok" THEN request' = [request EXCEPT ![r].token = t] ELSE request' = request
  <2>1. \A q \in Requests \ {r} : RequestOf(q)' = RequestOf(q)
    BY <1>1, <1>9 DEF RequestOf
  <2>2. CASE p = "ok"
    <3>1. RequestOf(r) = [call[r] EXCEPT !.token = None]
      BY <1>1, <1>4 DEF RequestOf
    <3>2. RequestOf(r)' = call[r]
      BY <1>1, <1>9, <2>2 DEF RequestOf
    <3>3. call[r] = [RequestOf(r) EXCEPT !.token = t]
      BY <1>0, <3>1 DEF SInv, TInv, TypeOK, Calls
    <3> QED BY <2>1, <2>2, <3>2, <3>3 DEF request
  <2>3. CASE p # "ok"
    BY <1>1, <1>9, <2>1, <2>3 DEF request, RequestOf
  <2> QED BY <2>2, <2>3
<1>13. /\ request[r].op = "exchange" /\ at[r] # 0 /\ t \in TokenIDs \ shown
       /\ ~Sessions!Live(t)
       /\ session' = [session EXCEPT ![t] =
                        IF new.expires > clock
                        THEN [user |-> account[request[r].identity],
                              expires |-> at[r] + UserTokenTTL]
                        ELSE None]
  BY <1>3, <1>4, <1>7, <1>8
<1>14. new.expires = [user |-> account[request[r].identity],
                      expires |-> at[r] + UserTokenTTL].expires
  BY <1>6
<1>15. \/ Sessions!Moves(r, "pending", "ok") /\ request' = [request EXCEPT ![r].token = t]
       \/ Sessions!Moves(r, "pending", "internal") /\ UNCHANGED request
  BY <1>10, <1>12
<1> HIDE DEF new
<1> QED BY <1>1, <1>5, <1>11, <1>13, <1>14, <1>15 DEF Sessions!Open

\* A request is let in, or refused, when its token is read.
LEMMA AuthMaps ==
  ASSUME SInv, NEW r \in Requests, AuthGetByHash(r)
  PROVE  Sessions!Admit(r) \/ Sessions!Refuse(r)
<1>0. PICK t \in TokenIDs \cup {None} : t = call[r].token
  BY DEF SInv, TInv, TypeOK, Calls
<1>1. /\ pc[r] = "auth_token" /\ call[r].op \in {"use", "logout"}
      /\ UNCHANGED <<users, tokens, clock, call, at, shown>>
  BY DEF AuthGetByHash, SInv, TInv, StepArgs, history
<1>2. /\ phase[r] = "pending" /\ Phase("auth_user") = "admitted"
      /\ Phase("unauthorized") = "unauthorized"
  BY <1>1, Pending DEF Answers
<1>3. request[r] = call[r] /\ account' = account /\ session' = session
  BY <1>1, RequestIs, TablesKept
<1>4. None \notin TokenIDs
  BY SignInAssumption
<1>5. CASE t \in StoredTokens /\ ~Expired(tokens[t])
  <2>1. user' = [user EXCEPT ![r] = tokens[t].user] /\ pc' = [pc EXCEPT ![r] = "auth_user"]
    BY <1>0, <1>5 DEF AuthGetByHash, Goto
  <2>2. Sessions!Live(t) /\ session[t] = tokens[t]
    BY <1>5, SessionIs DEF StoredTokens
  <2>3. /\ \A q \in Requests : pc'[q] = IF q = r THEN "auth_user" ELSE pc[q]
        /\ \A q \in Requests : user'[q] = IF q = r THEN tokens[t].user ELSE user[q]
    BY <2>1 DEF SInv, TInv, TypeOK
  <2>4. actor' = [actor EXCEPT ![r] = session[t].user]
    <3>1. \A q \in Requests : ActorOf(q)' = IF q = r THEN session[t].user ELSE ActorOf(q)
      BY <1>1, <2>2, <2>3 DEF ActorOf
    <3> QED BY <3>1 DEF actor
  <2>5. request' = request
    BY <1>1, <2>3 DEF request, RequestOf
  <2>6. Sessions!Moves(r, "pending", "admitted")
    <3>1. \A q \in Requests : Phase(pc'[q]) = IF q = r THEN "admitted" ELSE Phase(pc[q])
      BY <1>2, <2>3
    <3> QED BY <1>2, <3>1 DEF Sessions!Moves, phase
  <2> QED BY <1>0, <1>1, <1>3, <2>2, <2>4, <2>5, <2>6 DEF Sessions!Admit
<1>6. CASE ~(t \in StoredTokens /\ ~Expired(tokens[t]))
  <2>1. pc' = [pc EXCEPT ![r] = "unauthorized"] /\ UNCHANGED user
    BY <1>0, <1>6 DEF AuthGetByHash, Goto
  <2>2. ~Sessions!Live(t)
    BY <1>6, SessionIs DEF Sessions!Live
  <2>3. /\ phase' = [phase EXCEPT ![r] = Phase("unauthorized")]
        /\ UNCHANGED <<clock, account, session, shown, request, actor, at>>
    BY <1>1, <2>1, QuietStep
  <2>4. Sessions!Moves(r, "pending", "unauthorized")
    BY <1>2, <2>3 DEF Sessions!Moves
  <2> QED BY <1>0, <1>1, <1>3, <2>2, <2>3, <2>4 DEF Sessions!Refuse
<1> QED BY <1>5, <1>6

LEMMA ServeMaps ==
  ASSUME SInv, NEW r \in Requests, AuthGetUser(r)
  PROVE  Sessions!Serve(r) \/ UNCHANGED SessionVars
<1>1. /\ pc[r] = "auth_user" /\ call[r].op \in {"use", "logout"}
      /\ UNCHANGED <<users, tokens, clock, call, user, at, shown>>
  BY DEF AuthGetUser, SInv, TInv, StepArgs, history
<1>2. PICK p \in {"delete", "ok"} :
        /\ pc' = [pc EXCEPT ![r] = p]
        /\ p = "ok" => call[r].op = "use"
  BY <1>1 DEF AuthGetUser, Goto
<1>3. phase[r] = "admitted" /\ Phase("delete") = "admitted" /\ Phase("ok") = "ok"
  BY <1>1, Pending DEF Answers
<1>4. /\ phase' = [phase EXCEPT ![r] = Phase(p)]
      /\ UNCHANGED <<clock, account, session, shown, request, actor, at>>
      /\ Phase(p) = phase[r] => UNCHANGED SessionVars
  BY <1>1, <1>2, QuietStep
<1>5. request[r].op = call[r].op
  BY RequestIs
<1> QED BY <1>2, <1>3, <1>4, <1>5 DEF Sessions!Serve, Sessions!Moves

LEMMA LogOutMaps ==
  ASSUME SInv, NEW r \in Requests, DeleteByHash(r)
  PROVE  Sessions!LogOut(r)
<1>1. PICK t \in TokenIDs : t = call[r].token
  BY DEF DeleteByHash, SInv, TInv, TypeOK, StepArgs
<1>2. /\ pc[r] = "delete" /\ call[r].op = "logout"
      /\ tokens' = [tokens EXCEPT ![t] = None]
      /\ UNCHANGED <<users, clock, call, user, at, shown>>
  BY <1>1 DEF DeleteByHash, SInv, TInv, StepArgs, history
<1>3. PICK p \in {"ok", "internal"} : pc' = [pc EXCEPT ![r] = p]
  BY DEF DeleteByHash, Goto
<1>4. phase[r] = "admitted" /\ Phase(p) = p
  BY <1>2, Pending DEF Answers
<1>5. phase' = [phase EXCEPT ![r] = Phase(p)] /\ request' = request /\ actor' = actor
  BY <1>2, <1>3, Moved
<1>6. account' = account
  BY <1>2, TablesKept
<1>7. session' = [session EXCEPT ![t] = None]
  <2>1. \A s \in TokenIDs : tokens'[s] = IF s = t THEN None ELSE tokens[s]
    BY <1>2 DEF SInv, TInv, TypeOK
  <2>2. \A s \in TokenIDs : SessionOf(s)' = IF s = t THEN None ELSE SessionOf(s)
    BY <1>2, <2>1 DEF SessionOf, StoredTokens, Expired
  <2> QED BY <2>2 DEF session
<1>8. request[r] = call[r]
  BY <1>2, RequestIs
<1>9. Sessions!Moves(r, "admitted", "ok") \/ Sessions!Moves(r, "admitted", "internal")
  BY <1>3, <1>4, <1>5 DEF Sessions!Moves
<1> QED BY <1>1, <1>2, <1>5, <1>6, <1>7, <1>8, <1>9 DEF Sessions!LogOut

LEMMA ReturnMaps ==
  ASSUME SInv, NEW r \in Requests, Return(r)
  PROVE  Sessions!Return(r)
<1>1. /\ pc[r] \in Answers /\ pc' = [pc EXCEPT ![r] = "idle"]
      /\ call' = [call EXCEPT ![r] = NoCall] /\ user' = [user EXCEPT ![r] = None]
      /\ at' = [at EXCEPT ![r] = 0]
      /\ UNCHANGED <<users, tokens, clock>>
  BY DEF Return, Goto
<1>2. account' = account /\ session' = session
  BY <1>1, TablesKept
<1>3. \A q \in Requests : /\ pc'[q] = IF q = r THEN "idle" ELSE pc[q]
                          /\ call'[q] = IF q = r THEN NoCall ELSE call[q]
                          /\ user'[q] = IF q = r THEN None ELSE user[q]
  BY <1>1 DEF SInv, TInv, TypeOK
<1>4. Sessions!NoCall = NoCall /\ NoCall.op # "exchange"
  BY DEF Sessions!NoCall, NoCall
<1>5. request' = [request EXCEPT ![r] = NoCall]
  <2>1. \A q \in Requests : RequestOf(q)' = IF q = r THEN NoCall ELSE RequestOf(q)
    BY <1>3, <1>4 DEF RequestOf
  <2> QED BY <2>1 DEF request
<1>6. actor' = [actor EXCEPT ![r] = None]
  <2>1. \A q \in Requests : ActorOf(q)' = IF q = r THEN None ELSE ActorOf(q)
    BY <1>3, <1>4 DEF ActorOf
  <2> QED BY <2>1 DEF actor
<1>7. phase[r] = pc[r] /\ Phase("idle") = "idle"
  BY <1>1, Pending
<1>8. Sessions!Moves(r, pc[r], "idle")
  <2>1. \A q \in Requests : Phase(pc'[q]) = IF q = r THEN "idle" ELSE Phase(pc[q])
    BY <1>3, <1>7
  <2> QED BY <1>7, <2>1 DEF Sessions!Moves, phase
<1>9. shown' = IF phase[r] = "ok" /\ request[r].op = "exchange"
               THEN shown \cup {request[r].token} ELSE shown
  <2>1. pc[r] = "ok" => request[r] = call[r]
    BY RequestIs
  <2> QED BY <1>7, <2>1, RequestIs DEF Return
<1>10. pc[r] \in Sessions!Answers
  BY <1>1 DEF Answers, Sessions!Answers
<1> QED BY <1>1, <1>2, <1>4, <1>5, <1>6, <1>8, <1>9, <1>10 DEF Sessions!Return

\* The cleanup deletes rows that are no sessions any more.
LEMMA CleanupMaps ==
  ASSUME SInv, CleanupWakes \/ DeleteExpired \/ CleanupFails
  PROVE  UNCHANGED SessionVars
<1>1. UNCHANGED <<users, clock, pc, call, user, at, shown>>
  BY DEF CleanupWakes, DeleteExpired, CleanupFails, history
<1>2. account' = account /\ phase' = phase /\ request' = request /\ actor' = actor
  BY <1>1, TablesKept DEF phase, request, RequestOf, actor, ActorOf
<1>3. ASSUME NEW t \in TokenIDs PROVE SessionOf(t)' = SessionOf(t)
  <2>1. \/ tokens'[t] = tokens[t]
        \/ tokens'[t] = None /\ t \in StoredTokens /\ tokens[t].expires < cutoff
    BY DEF CleanupWakes, DeleteExpired, CleanupFails
  <2>2. CASE tokens'[t] = tokens[t]
    BY <1>1, <2>2 DEF SessionOf, StoredTokens, Expired
  <2>3. CASE tokens'[t] = None /\ t \in StoredTokens /\ tokens[t].expires < cutoff
    <3>1. tokens[t].expires \in Nat /\ cutoff \in Nat /\ clock \in Nat /\ cutoff <= clock
      BY <2>3, SignInAssumption
         DEF SInv, TInv, TypeOK, Row, StoredTokens, TokenInv, CutoffPast
    <3>2. Expired(tokens[t])
      BY <2>3, <3>1 DEF Expired
    <3> QED BY <2>3, <3>2 DEF SessionOf, StoredTokens
  <2> QED BY <2>1, <2>2, <2>3
<1>4. session' = session
  BY <1>3 DEF session
<1> QED BY <1>1, <1>2, <1>4 DEF SessionVars

LEMMA TickMaps ==
  ASSUME SInv, Tick PROVE Sessions!Tick
<1>1. clock' = clock + 1 /\ UNCHANGED <<users, tokens, pc, call, user, at, shown>>
  BY DEF Tick, history
<1>2. account' = account /\ phase' = phase /\ request' = request /\ actor' = actor
  BY <1>1, TablesKept DEF phase, request, RequestOf, actor, ActorOf
<1>3. ASSUME NEW t \in TokenIDs
      PROVE  SessionOf(t)' = IF Sessions!Live(t) /\ session[t].expires > clock + 1
                             THEN session[t] ELSE None
  <2>1. t \in StoredTokens => tokens[t].expires \in Nat
    BY SignInAssumption DEF SInv, TInv, TypeOK, Row, StoredTokens
  <2>2. clock \in Nat
    BY SignInAssumption DEF SInv, TInv, TypeOK
  <2> QED BY <1>1, <2>1, <2>2, SessionIs DEF SessionOf, StoredTokens, Expired
<1>4. session' = [t \in TokenIDs |-> IF Sessions!Live(t) /\ session[t].expires > clock + 1
                                     THEN session[t] ELSE None]
  BY <1>3 DEF session
<1> QED BY <1>1, <1>2, <1>4 DEF Sessions!Tick

LEMMA CrashMaps ==
  ASSUME SInv, Crash PROVE Sessions!Crash
<1>1. /\ pc' = [r \in Requests |-> "idle"] /\ call' = [r \in Requests |-> NoCall]
      /\ user' = [r \in Requests |-> None] /\ at' = [r \in Requests |-> 0]
      /\ UNCHANGED <<users, tokens, clock, shown>>
  BY DEF Crash
<1>2. account' = account /\ session' = session
  BY <1>1, TablesKept
<1>3. Sessions!NoCall = NoCall /\ NoCall.op # "exchange"
  BY DEF Sessions!NoCall, NoCall
<1>4. phase' = [r \in Requests |-> "idle"]
  BY <1>1 DEF phase, Phase, Steps, Statements
<1>5. \A r \in Requests : RequestOf(r)' = NoCall /\ ActorOf(r)' = None
  BY <1>1, <1>3 DEF RequestOf, ActorOf
<1>6. request' = [r \in Requests |-> NoCall] /\ actor' = [r \in Requests |-> None]
  BY <1>5 DEF request, actor
<1> QED BY <1>1, <1>2, <1>3, <1>4, <1>6 DEF Sessions!Crash

LEMMA SessionsInit == Init => Sessions!Init
<1> SUFFICES ASSUME Init PROVE Sessions!Init
  OBVIOUS
<1>1. account = [i \in Identities |-> None]
  BY SignInAssumption DEF Init, account, AccountOf, UsersOf
<1>2. session = [t \in TokenIDs |-> None]
  BY DEF Init, session, SessionOf, StoredTokens
<1>3. phase = [r \in Requests |-> "idle"]
  BY DEF Init, phase, Phase, Steps, Statements
<1>4. Sessions!NoCall = NoCall /\ NoCall.op # "exchange"
  BY DEF Sessions!NoCall, NoCall
<1>5. \A r \in Requests : RequestOf(r) = NoCall /\ ActorOf(r) = None
  BY <1>4 DEF Init, RequestOf, ActorOf
<1>6. request = [r \in Requests |-> NoCall] /\ actor = [r \in Requests |-> None]
  BY <1>5 DEF request, actor
<1> QED BY <1>1, <1>2, <1>3, <1>4, <1>6 DEF Init, Sessions!Init

LEMMA SessionsStep == SInv /\ [Next]_vars => [Sessions!Next]_(Sessions!vars)
<1> SUFFICES ASSUME SInv, [Next]_vars PROVE Sessions!Next \/ UNCHANGED Sessions!vars
  OBVIOUS
<1>0. UNCHANGED SessionVars => UNCHANGED Sessions!vars
  BY DEF SessionVars, Sessions!vars
<1>1. ASSUME NEW r \in Requests, ExchangeArrives(r) \/ TokenArrives(r)
      PROVE  Sessions!Next
  BY <1>1, ArriveMaps DEF Sessions!Next
<1>2. ASSUME NEW r \in Requests, Exchange(r)
      PROVE  Sessions!Next \/ UNCHANGED SessionVars
  BY <1>2, DoorMaps, UpsertMaps, NewTokenMaps, InsertMaps DEF Exchange, Sessions!Next
<1>3. ASSUME NEW r \in Requests, AuthenticateUser(r) \/ DeleteByHash(r)
      PROVE  Sessions!Next \/ UNCHANGED SessionVars
  BY <1>3, AuthMaps, ServeMaps, LogOutMaps DEF AuthenticateUser, Sessions!Next
<1>4. ASSUME NEW r \in Requests, StepFails(r) PROVE Sessions!Next
  <2>1. /\ pc[r] \in Steps /\ pc' = [pc EXCEPT ![r] = "internal"]
        /\ UNCHANGED <<users, tokens, clock, call, user, shown, at>>
    BY <1>4 DEF StepFails, Steps, Goto, history
  <2> QED BY <2>1, FailMaps DEF Sessions!Next
<1>5. ASSUME NEW r \in Requests, Return(r) PROVE Sessions!Next
  BY <1>5, ReturnMaps DEF Sessions!Next
<1>6. CASE CleanupWakes \/ DeleteExpired \/ CleanupFails
  BY <1>0, <1>6, CleanupMaps
<1>7. CASE Crash \/ Tick
  BY <1>7, CrashMaps, TickMaps DEF Sessions!Next
<1>8. CASE UNCHANGED vars
  <2>1. UNCHANGED <<users, tokens, clock, pc, call, user, at, shown>>
    BY <1>8 DEF vars
  <2>2. UNCHANGED SessionVars
    BY <2>1, TablesKept DEF SessionVars, phase, request, RequestOf, actor, ActorOf
  <2> QED BY <1>0, <2>2
<1> QED BY <1>0, <1>1, <1>2, <1>3, <1>4, <1>5, <1>6, <1>7, <1>8 DEF Next

\* Sign-in, authentication, log-out and the cleanup behave as UserSessions says,
\* however their statements interleave: a request is let in at an instant at which
\* its session is live, and the cleanup is not to be seen.
THEOREM SessionsImplemented == Spec => ImplementsSessions
BY SInvInductive, SessionsInit, SessionsStep, PTL
   DEF Spec, ImplementsSessions, Sessions!Spec
=============================================================================
