---------------------------- MODULE UserSessions ----------------------------
(***************************************************************************)
(* What signing in and out promises: each identity has one account for      *)
(* good, and a token is a session of one account that lives for a fixed     *)
(* time unless a log-out with that very token ends it.  A request with a    *)
(* token is let in, or refused, at one instant between its arrival and its  *)
(* answer, and at that instant its session is live, or is not.  A request   *)
(* that fails has done its work or a part of it, or nothing.                *)
(***************************************************************************)
EXTENDS Naturals

CONSTANTS Requests, Identities, UserIDs, TokenIDs, UserTokenTTL, None

VARIABLES clock,
          account,   \* the user of an identity, None when it has not signed in yet
          session,   \* [user, expires] of each live token, None of all others
          issued,    \* tokens that clients have
          phase,     \* idle, pending, admitted or the answer
          call,      \* the operation of a request, and its arguments
          actor,     \* the user an admitted request acts for
          since      \* when the session a request is about to open began

vars == <<clock, account, session, issued, phase, call, actor, since>>

NoCall == [op |-> "none", identity |-> None, token |-> None]
Answers == {"ok", "invalid", "too_many", "unauthorized", "internal"}

Live(t) == t \in TokenIDs /\ session[t] # None

Init == /\ clock = 1
        /\ account = [i \in Identities |-> None]
        /\ session = [t \in TokenIDs |-> None]
        /\ issued = {}
        /\ phase = [r \in Requests |-> "idle"]
        /\ call = [r \in Requests |-> NoCall]
        /\ actor = [r \in Requests |-> None]
        /\ since = [r \in Requests |-> 0]

Moves(r, from, to) == phase[r] = from /\ phase' = [phase EXCEPT ![r] = to]

\* A provider nobody has heard of is refused at once.
ArriveToSignIn(r) ==
  /\ Moves(r, "idle", "pending") \/ Moves(r, "idle", "invalid")
  /\ \E i \in Identities :
       call' = [call EXCEPT ![r] = [op |-> "exchange", identity |-> i, token |-> None]]
  /\ UNCHANGED <<clock, account, session, issued, actor, since>>

ArriveWithToken(r) ==
  /\ Moves(r, "idle", "pending")
  /\ \E op \in {"use", "logout"}, t \in issued \cup {None} :
       call' = [call EXCEPT ![r] = [op |-> op, identity |-> None, token |-> t]]
  /\ UNCHANGED <<clock, account, session, issued, actor, since>>

\* The first sign-in of an identity makes its account, also when it fails later.
Register(r) ==
  /\ call[r].op = "exchange" /\ account[call[r].identity] = None
  /\ \E u \in UserIDs : /\ \A i \in Identities : account[i] # u
                        /\ account' = [account EXCEPT ![call[r].identity] = u]
  /\ Moves(r, "pending", "pending") \/ Moves(r, "pending", "internal")
  /\ UNCHANGED <<clock, session, issued, call, actor, since>>

\* The session's time runs from before it is open.
Begin(r) ==
  /\ call[r].op = "exchange" /\ account[call[r].identity] # None
  /\ Moves(r, "pending", "pending")
  /\ since' = [since EXCEPT ![r] = clock]
  /\ UNCHANGED <<clock, account, session, issued, call, actor>>

\* A session of the identity's account under a token nobody has.  It may be over
\* before it starts.
Open(r) ==
  LET new == [user |-> account[call[r].identity], expires |-> since[r] + UserTokenTTL]
  IN  /\ call[r].op = "exchange" /\ since[r] # 0
      /\ \E t \in TokenIDs \ issued :
           /\ ~Live(t)
           /\ session' = [session EXCEPT ![t] = IF new.expires > clock THEN new ELSE None]
           /\ \/ /\ Moves(r, "pending", "ok")
                 /\ call' = [call EXCEPT ![r].token = t]
              \/ Moves(r, "pending", "internal") /\ UNCHANGED call
      /\ UNCHANGED <<clock, account, issued, actor, since>>

Admit(r) ==
  /\ call[r].op \in {"use", "logout"} /\ Live(call[r].token)
  /\ Moves(r, "pending", "admitted")
  /\ actor' = [actor EXCEPT ![r] = session[call[r].token].user]
  /\ UNCHANGED <<clock, account, session, issued, call, since>>

Serve(r) == /\ call[r].op = "use"
            /\ Moves(r, "admitted", "ok")
            /\ UNCHANGED <<clock, account, session, issued, call, actor, since>>

LogOut(r) == /\ call[r].op = "logout"
             /\ Moves(r, "admitted", "ok") \/ Moves(r, "admitted", "internal")
             /\ session' = [session EXCEPT ![call[r].token] = None]
             /\ UNCHANGED <<clock, account, issued, call, actor, since>>

Refuse(r) ==
  /\ \/ /\ call[r].op = "exchange"
        /\ \E answer \in {"invalid", "too_many", "unauthorized"} : Moves(r, "pending", answer)
     \/ /\ call[r].op \in {"use", "logout"} /\ ~Live(call[r].token)
        /\ Moves(r, "pending", "unauthorized")
  /\ UNCHANGED <<clock, account, session, issued, call, actor, since>>

Fail(r) == /\ Moves(r, "pending", "internal") \/ Moves(r, "admitted", "internal")
           /\ UNCHANGED <<clock, account, session, issued, call, actor, since>>

Return(r) ==
  /\ \E answer \in Answers : Moves(r, answer, "idle")
  /\ issued' = IF phase[r] = "ok" /\ call[r].op = "exchange"
               THEN issued \cup {call[r].token} ELSE issued
  /\ call' = [call EXCEPT ![r] = NoCall]
  /\ actor' = [actor EXCEPT ![r] = None]
  /\ since' = [since EXCEPT ![r] = 0]
  /\ UNCHANGED <<clock, account, session>>

\* Accounts and sessions outlive the process.
Crash == /\ phase' = [r \in Requests |-> "idle"]
         /\ call' = [r \in Requests |-> NoCall]
         /\ actor' = [r \in Requests |-> None]
         /\ since' = [r \in Requests |-> 0]
         /\ UNCHANGED <<clock, account, session, issued>>

\* Time ends sessions, and nothing else does but a log-out.
Tick == /\ clock' = clock + 1
        /\ session' = [t \in TokenIDs |-> IF Live(t) /\ session[t].expires > clock + 1
                                          THEN session[t] ELSE None]
        /\ UNCHANGED <<account, issued, phase, call, actor, since>>

Next == \/ \E r \in Requests :
             \/ ArriveToSignIn(r) \/ ArriveWithToken(r)
             \/ Register(r) \/ Begin(r) \/ Open(r)
             \/ Admit(r) \/ Serve(r) \/ LogOut(r)
             \/ Refuse(r) \/ Fail(r) \/ Return(r)
        \/ Crash \/ Tick

Spec == Init /\ [][Next]_vars
=============================================================================
