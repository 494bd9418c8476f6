---------------------------- MODULE PhoneAccount ----------------------------
(***************************************************************************)
(* Who is signed in on the phone (apps/ios, AppState, AuthViewModel): the token *)
(* is in the keychain, and the status and the account that views show are        *)
(* copies of it, renewed by calls that wait for the backend while the user signs   *)
(* out, signs in again or pastes a token in the settings.                      *)
(*                                                                         *)
(* Left out: e-mail sign-in, which no build enables, the plan, messages and a     *)
(* keychain that fails. A token is the number of the sign-in that gave it, and an  *)
(* account that of its token. The backend never names a token invalid in its      *)
(* answer to /account/me, so the branch of refreshAccount for that is not here.   *)
(***************************************************************************)
EXTENDS Naturals

CONSTANTS
    MaxTokens,      \* tokens given out (bound)
    AccountCalls    \* calls that wait at the same time

ASSUME AccountAssumption == MaxTokens \in Nat

VARIABLES
    keychain,       \* the stored token, 0 for none
    issued,         \* tokens given out
    tokenStatus,    \* isAuthenticated is that it is "stored"
    shownAccount,   \* account: 0 for nil
    accountCalls,   \* what each call does, and the token it bears
    outdated        \* history: tokens replaced by another one, or removed while an
                    \* account request that bore them waited

accountVars == <<keychain, issued, tokenStatus, shownAccount, accountCalls, outdated>>

NoAccountCall == [pc |-> "none", token |-> 0]

AccountInit ==
    /\ keychain = 0 /\ issued = 0 /\ tokenStatus = "missing" /\ shownAccount = 0
    /\ accountCalls = [c \in AccountCalls |-> NoAccountCall] /\ outdated = {}

AccountTypeOK ==
    /\ {keychain, shownAccount} \cup outdated \subseteq 0..issued /\ issued \in 0..MaxTokens
    /\ tokenStatus \in {"missing", "stored", "invalid"}
    /\ accountCalls \in [AccountCalls ->
         [pc : {"none", "send", "account", "signOut", "signIn"}, token : 0..MaxTokens]]

-----------------------------------------------------------------------------
(* A definition marked "mutant" is a faulty variant of the one after it; no    *)
(* formula uses it.                                                          *)

AccountAt(c, pc) == accountCalls[c].pc = pc
AccountGo(c, pc, token) ==
    accountCalls' = [accountCalls EXCEPT ![c] = [pc |-> pc, token |-> token]]
AccountDone(c) == accountCalls' = [accountCalls EXCEPT ![c] = NoAccountCall]

RefreshKeepsAccount ==                                           \* mutant
    /\ tokenStatus' = IF keychain' # 0 THEN "stored" ELSE "missing"
    /\ UNCHANGED shownAccount

\* refreshAuthStatus, once the keychain is what it will be.
Refreshed ==
    /\ tokenStatus' = IF keychain' # 0 THEN "stored" ELSE "missing"
    /\ shownAccount' = IF keychain' # 0 THEN shownAccount ELSE 0

RefreshAuthStatus ==
    /\ UNCHANGED keychain /\ Refreshed
    /\ UNCHANGED <<issued, accountCalls, outdated>>

\* The tokens that an answer may still show when they are no longer stored.
Borne == {accountCalls[c].token : c \in {d \in AccountCalls : AccountAt(d, "account")}}

\* A token is pasted in the settings or at the welcome.
SaveToken ==
    /\ issued < MaxTokens /\ issued' = issued + 1
    /\ keychain' = issued + 1 /\ Refreshed
    /\ outdated' = outdated \cup ({keychain} \ {0})
    /\ UNCHANGED accountCalls

ClearToken ==
    /\ keychain' = 0 /\ Refreshed
    /\ outdated' = outdated \cup ({keychain} \cap Borne)
    /\ UNCHANGED <<issued, accountCalls>>

\* refreshAccount; its request reads the token when it is sent.
StartRefresh(c) ==
    /\ AccountAt(c, "none")
    /\ UNCHANGED keychain /\ Refreshed
    /\ IF keychain # 0 THEN AccountGo(c, "send", 0) ELSE UNCHANGED accountCalls
    /\ UNCHANGED <<issued, outdated>>

SendRequest(c) ==
    /\ AccountAt(c, "send")
    /\ IF keychain # 0 THEN AccountGo(c, "account", keychain) ELSE AccountDone(c)
    /\ UNCHANGED <<keychain, issued, tokenStatus, shownAccount, outdated>>

\* The account of the token, a signed-out one too; or an answer not understood.
AccountReturns(c) ==
    /\ AccountAt(c, "account") /\ AccountDone(c)
    /\ shownAccount' \in {accountCalls[c].token, 0}
    /\ UNCHANGED <<keychain, issued, tokenStatus, outdated>>

\* signOut: the backend's answer is ignored.
StartSignOut(c) ==
    /\ AccountAt(c, "none") /\ AccountGo(c, "signOut", 0)
    /\ UNCHANGED <<keychain, issued, tokenStatus, shownAccount, outdated>>

SignOutReturns(c) ==
    /\ AccountAt(c, "signOut") /\ AccountDone(c)
    /\ keychain' = 0 /\ Refreshed
    /\ outdated' = outdated \cup ({keychain} \cap Borne)
    /\ UNCHANGED issued

\* signInWithApple
StartSignInWithApple(c) ==
    /\ AccountAt(c, "none") /\ AccountGo(c, "signIn", 0)
    /\ UNCHANGED <<keychain, issued, tokenStatus, shownAccount, outdated>>

SignInReturns(c) ==
    /\ AccountAt(c, "signIn") /\ AccountDone(c)
    /\ issued < MaxTokens /\ issued' = issued + 1
    /\ keychain' = issued + 1 /\ shownAccount' = issued + 1 /\ tokenStatus' = "stored"
    /\ outdated' = outdated \cup ({keychain} \cap Borne)

AccountCallFails(c) ==
    /\ accountCalls[c].pc \in {"account", "signIn"} /\ AccountDone(c)
    /\ UNCHANGED <<keychain, issued, tokenStatus, shownAccount, outdated>>

\* The smoke test of a session was refused; the next refresh forgets it.
MarkTokenInvalid ==
    /\ tokenStatus' = "invalid"
    /\ UNCHANGED <<keychain, issued, shownAccount, accountCalls, outdated>>

AccountNext ==
    \/ RefreshAuthStatus \/ SaveToken \/ ClearToken \/ MarkTokenInvalid
    \/ \E c \in AccountCalls :
         \/ StartRefresh(c) \/ SendRequest(c) \/ AccountReturns(c)
         \/ StartSignOut(c) \/ SignOutReturns(c)
         \/ StartSignInWithApple(c) \/ SignInReturns(c) \/ AccountCallFails(c)

AccountSpec == AccountInit /\ [][AccountNext]_accountVars

-----------------------------------------------------------------------------
(* Properties *)

\* The account that is shown is that of the stored token, unless it is of a token
\* that was replaced, or removed while a request that bore it waited; and a status
\* that tells of a token tells the truth (refreshAccount, signOut, refreshAuthStatus).
AccountIsOwn ==
    /\ shownAccount \in {0, keychain} \cup outdated
    /\ tokenStatus = "stored" => keychain # 0
    /\ tokenStatus = "missing" => keychain = 0
=============================================================================
