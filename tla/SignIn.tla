------------------------------- MODULE SignIn -------------------------------
(***************************************************************************)
(* Sign-in with Apple of one identity (src/auth): the account is looked up, or  *)
(* else a user made for the email and the account linked to it; then the plan,   *)
(* then the session. Two calls of the identity may run at the same time, and     *)
(* the email is given at the first sign-in only, so that they may come with      *)
(* different ones.                                                          *)
(*                                                                         *)
(* Left out: the token's check, names, devices and audit rows. A token is good   *)
(* until it expires: no route asks for its session.                            *)
(***************************************************************************)
EXTENDS FiniteSets

CONSTANTS
    Emails,         \* the email of the identity, and its stand-in
    SignInCalls     \* sign-ins that run at the same time

VARIABLES
    users,          \* users, known by their email
    account,        \* auth_accounts: the user the identity is linked to
    plans,          \* user_plans: users that have one
    authSessions,   \* auth_sessions
    deletion,       \* account_deletion_requests: the status of the last
    signIns,        \* what each call does
    rivals          \* history: users of the other first sign-ins under way at the link

signInVars == <<users, account, plans, authSessions, deletion, signIns, rivals>>

Nobody == "nobody"

ASSUME NobodyHasNoEmail == Nobody \notin Emails
NotSigningIn == [pc |-> "none"]

SignInInit ==
    /\ users = {} /\ account = Nobody /\ plans = {} /\ authSessions = {} /\ deletion = "none"
    /\ signIns = [c \in SignInCalls |-> NotSigningIn] /\ rivals = {}

SignInTypeOK ==
    /\ users \subseteq Emails /\ plans \subseteq users /\ account \in users \cup {Nobody}
    /\ authSessions \subseteq [user : users, linked : BOOLEAN, revoked : BOOLEAN]
    /\ deletion \in {"none", "requested", "canceled"} /\ rivals \subseteq Emails
    /\ \A c \in SignInCalls : signIns[c].pc \in
         {"none", "account", "user", "link", "plan", "newPlan", "session"}

-----------------------------------------------------------------------------
(* A definition marked "mutant" is a faulty variant of the one after it; no    *)
(* formula uses it.                                                          *)

SignInAt(c, pc) == signIns[c].pc = pc
SignInSet(c, call) == signIns' = [signIns EXCEPT ![c] = call]
SignInGoes(c, pc) == signIns' = [signIns EXCEPT ![c].pc = pc]
SignInDone(c) == SignInSet(c, NotSigningIn)

StartSignIn(c, email) ==
    /\ SignInAt(c, "none")
    /\ SignInSet(c, [pc |-> "account", user |-> email, linked |-> FALSE])
    /\ UNCHANGED <<users, account, plans, authSessions, deletion, rivals>>

ReadAccount(c) ==
    /\ SignInAt(c, "account")
    /\ IF account = Nobody THEN SignInGoes(c, "user")
       ELSE SignInSet(c, [pc |-> "plan", user |-> account, linked |-> TRUE])
    /\ UNCHANGED <<users, account, plans, authSessions, deletion, rivals>>

\* The user of the email is made, or is there already.
UpsertUser(c) ==
    /\ SignInAt(c, "user") /\ SignInGoes(c, "link")
    /\ users' = users \cup {signIns[c].user}
    /\ UNCHANGED <<account, plans, authSessions, deletion, rivals>>

\* The history: who else had found no account when it was linked.
LinkIsSeen(c) == rivals' =
    IF account # Nobody THEN rivals
    ELSE {signIns[d].user : d \in {x \in SignInCalls \ {c} : signIns[x].pc \in {"user", "link"}}}

LinkAccountAgain(c) ==                                           \* mutant
    /\ SignInAt(c, "link") /\ SignInGoes(c, "plan")
    /\ account' = signIns[c].user /\ LinkIsSeen(c)
    /\ UNCHANGED <<users, plans, authSessions, deletion>>

\* An account that was linked meanwhile stays as it is, and the call goes on with
\* the user it made.
LinkAccount(c) ==
    /\ SignInAt(c, "link") /\ SignInGoes(c, "plan")
    /\ account' = IF account = Nobody THEN signIns[c].user ELSE account
    /\ LinkIsSeen(c)
    /\ UNCHANGED <<users, plans, authSessions, deletion>>

\* getOrCreateUserPlan: the INSERT fails if there is a plan by now, and the call
\* with it.
ReadPlan(c) ==
    /\ SignInAt(c, "plan")
    /\ SignInGoes(c, IF signIns[c].user \in plans THEN "session" ELSE "newPlan")
    /\ UNCHANGED <<users, account, plans, authSessions, deletion, rivals>>

InsertPlan(c) ==
    /\ SignInAt(c, "newPlan")
    /\ IF signIns[c].user \in plans THEN SignInDone(c) ELSE SignInGoes(c, "session")
    /\ plans' = plans \cup {signIns[c].user}
    /\ UNCHANGED <<users, account, authSessions, deletion, rivals>>

\* createAuthSession
InsertSession(c) ==
    /\ SignInAt(c, "session") /\ SignInDone(c)
    /\ authSessions' = authSessions \cup
         {[user |-> signIns[c].user, linked |-> signIns[c].linked, revoked |-> FALSE]}
    /\ UNCHANGED <<users, account, plans, deletion, rivals>>

SignInFails(c) ==
    /\ ~SignInAt(c, "none") /\ SignInDone(c)
    /\ UNCHANGED <<users, account, plans, authSessions, deletion, rivals>>

\* POST /account/sign-out
SignOut(s) ==
    /\ authSessions' = (authSessions \ {s}) \cup {[s EXCEPT !.revoked = TRUE]}
    /\ UNCHANGED <<users, account, plans, deletion, signIns, rivals>>

\* POST /dev/users and /ops/test-user make the user of an email.
MakeTestUser(email) ==
    /\ users' = users \cup {email}
    /\ UNCHANGED <<account, plans, authSessions, deletion, signIns, rivals>>

\* POST /account/delete-request and /account/delete-cancel; nothing is deleted.
RequestDeletion ==
    /\ account # Nobody /\ deletion' = "requested"
    /\ UNCHANGED <<users, account, plans, authSessions, signIns, rivals>>

CancelDeletion ==
    /\ deletion = "requested" /\ deletion' = "canceled"
    /\ UNCHANGED <<users, account, plans, authSessions, signIns, rivals>>

-----------------------------------------------------------------------------

SignInNext ==
    \/ \E c \in SignInCalls :
         \/ \E email \in Emails : StartSignIn(c, email)
         \/ ReadAccount(c) \/ UpsertUser(c) \/ LinkAccount(c) \/ ReadPlan(c) \/ InsertPlan(c)
         \/ InsertSession(c) \/ SignInFails(c)
    \/ \E s \in authSessions : SignOut(s)
    \/ \E email \in Emails : MakeTestUser(email)
    \/ RequestDeletion \/ CancelDeletion

-----------------------------------------------------------------------------
(* Properties *)

\* A session is of the user its identity is linked to, also later: the link never moves.
\* The one exception is two first sign-ins at once, with two emails: the call that links
\* second goes on as the user it made, whom the identity is not linked to. So a stray
\* session is of a user whose sign-in had found no account when the link was made, and no
\* later sign-in makes one. Every session's user has a plan, though two calls may make it.
SessionsFollowAccount == \A s \in authSessions :
    /\ s.linked => s.user = account
    /\ s.user = account \/ s.user \in rivals
    /\ s.user \in plans
=============================================================================
