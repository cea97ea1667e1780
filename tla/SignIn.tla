------------------------------- MODULE SignIn -------------------------------
(***************************************************************************)
(* Signing in: with a password, where failures of one name from one        *)
(* address are counted within a window, and through Feishu, where a cookie *)
(* of the browser carries the transaction until the callback.  Sessions    *)
(* are signed cookies; the service keeps only the counts, and loses them   *)
(* at a restart.                                                           *)
(***************************************************************************)
EXTENDS Integers, FiniteSets

CONSTANTS
    SignInName,        \* names as they are typed
    FoldedName,        \* the same in one case
    SignInAddress,     \* where requests come from
    Accounts,          \* configurations: sequences of [name, roles]
    SupportedRole,
    FeishuUser,        \* who may answer at Feishu: [id, tenant, mapped]
    OwnTenant,         \* the tenant that is configured
    LandingPage, SafePage, \* pages asked for, those of this site
    Tab,               \* tabs of one browser
    SignInThread,      \* requests that can be under way at once
    NoCookie,
    MaxFailures, FailureWindow, SessionTtl, TransactionTtl,
    LastTick, MaxSignIns \* time and requests in one behaviour (bounds)

\* Those who may be signed in, and what a browser may keep of a transaction.
SignInPerson == FeishuUser \cup UNION {{list[i] : i \in DOMAIN list} : list \in Accounts}
Transactions ==
    [state : 1 .. MaxSignIns, page : SafePage \cup {"/"}, until : 0 .. LastTick + TransactionTtl]

ASSUME SignInAssumption ==
    /\ FoldedName \in [SignInName -> SignInName]
    /\ SafePage \subseteq LandingPage
    /\ {MaxFailures, FailureWindow, SessionTtl, TransactionTtl} \subseteq Nat \ {0}
    /\ LastTick \in Nat /\ MaxSignIns \in Nat
    /\ IsFiniteSet(SignInThread)
    /\ NoCookie \notin Transactions \cup [who : SignInPerson, at : 0 .. LastTick]

VARIABLES
    entrance,    \* the way in that is configured
    tick,        \* the clock
    accounts,    \* the accounts that are configured
    windows,     \* the failures that are kept, by key
    requests,    \* password requests: step, address, name
    tabs,        \* each tab's errand with Feishu
    transaction, \* the transaction's cookie
    session,     \* the session's cookie
    landed,      \* where tabs ended
    seen,        \* whom the last request was answered for
    signIns,     \* requests so far
    \* What happened, for the properties.
    failedAt, lastSignIn

signInVars ==
    <<entrance, tick, accounts, windows, requests, tabs, transaction, session, landed, seen,
      signIns, failedAt, lastSignIn>>

clockVars == <<entrance, accounts, windows, requests, failedAt>>

-----------------------------------------------------------------------------
(* Configuration.                                                          *)

UniqueNames(list) ==
    \A i, j \in DOMAIN list : FoldedName[list[i].name] = FoldedName[list[j].name] => i = j

Configurable(list) ==
    /\ UniqueNames(list)
    /\ \A i \in DOMAIN list : list[i].roles # {} /\ list[i].roles \subseteq SupportedRole

AccountsOf(list, name) ==
    {list[i] : i \in {j \in DOMAIN list : FoldedName[list[j].name] = FoldedName[name]}}

NoErrand == [pc |-> "idle", state |-> 0, page |-> "", landing |-> "", user |-> NoCookie,
             undisturbed |-> TRUE, failure |-> ""]
NoFailures == [key \in {} |-> {}]
NoSignIn == [pc |-> "idle", address |-> NoCookie, name |-> NoCookie]

SignInInit ==
    /\ entrance \in {"password", "feishu"}
    /\ tick = 0
    /\ accounts \in {list \in Accounts : Configurable(list)}
    /\ windows = NoFailures
    /\ requests = [r \in SignInThread |-> NoSignIn]
    /\ tabs = [t \in Tab |-> NoErrand]
    /\ transaction = NoCookie /\ session = NoCookie
    /\ landed = {} /\ seen = NoCookie /\ signIns = 0
    /\ failedAt = NoFailures /\ lastSignIn = NoCookie

-----------------------------------------------------------------------------
(* Passwords.                                                              *)

\* Mutant: every name from one address counts together.
MutLimiterKey(address, name) == <<address>>

LimiterKey(address, name) == <<address, FoldedName[name]>>

\* Mutant: failures count for ever.
MutActiveFailures(key) == IF key \in DOMAIN windows THEN windows[key] ELSE {}

ActiveFailures(key) ==
    IF key \in DOMAIN windows
    THEN {failure \in windows[key] : failure.at >= tick - FailureWindow} ELSE {}

\* The window that is kept has only what still counts, and is dropped when empty.
KeptWindow(key, failures) ==
    [k \in (DOMAIN windows \ {key}) \cup (IF failures = {} THEN {} ELSE {key}) |->
        IF k = key THEN failures ELSE windows[k]]

\* Several of one time are told apart.
NewFailure(failures) ==
    [at |-> tick, nth |-> Cardinality({failure \in failures : failure.at = tick})]

\* Mutant: one failure too many.
MutLimited(key) == Cardinality(ActiveFailures(key)) > MaxFailures

Limited(key) == Cardinality(ActiveFailures(key)) >= MaxFailures

CheckLimit(r, address, name) ==
    LET key == LimiterKey(address, name)
    IN /\ entrance = "password"
       /\ requests[r].pc # "verify" /\ signIns < MaxSignIns
       /\ requests' = [requests EXCEPT ![r] =
              [pc |-> IF Limited(key) THEN "refused" ELSE "verify", address |-> address, name |-> name]]
       /\ windows' = KeptWindow(key, ActiveFailures(key))
       /\ signIns' = signIns + 1
       /\ UNCHANGED <<entrance, tick, accounts, tabs, transaction, session, landed, seen, failedAt,
                      lastSignIn>>

\* Mutant: a session outlives its time.
MutIssueSession(who) == [who |-> who, until |-> tick + 2 * SessionTtl]

IssueSession(who) == [who |-> who, until |-> tick + SessionTtl]

SignsIn(who) == session' = IssueSession(who) /\ lastSignIn' = [who |-> who, at |-> tick]

FailedOf(address, name) ==
    LET key == <<address, FoldedName[name]>>
    IN IF key \in DOMAIN failedAt THEN failedAt[key] ELSE {}

FailedWith(address, name, failures) ==
    [k \in DOMAIN failedAt \cup {<<address, FoldedName[name]>>} |->
        IF k = <<address, FoldedName[name]>> THEN failures ELSE failedAt[k]]

\* A name without an account is verified against a password nobody has.
WrongPassword(r) ==
    LET request == requests[r]
        active  == ActiveFailures(LimiterKey(request.address, request.name))
        failed  == FailedOf(request.address, request.name)
    IN /\ request.pc = "verify"
       /\ windows' = KeptWindow(LimiterKey(request.address, request.name), active \cup {NewFailure(active)})
       /\ failedAt' = FailedWith(request.address, request.name, failed \cup {NewFailure(failed)})
       /\ requests' = [requests EXCEPT ![r] = NoSignIn]
       /\ UNCHANGED <<entrance, tick, accounts, tabs, transaction, session, landed, seen, signIns,
                      lastSignIn>>

\* Mutant: a success leaves the failures.
MutAfterSuccess(key) == windows

AfterSuccess(key) == KeptWindow(key, {})

RightPassword(r) ==
    LET request == requests[r]
    IN /\ request.pc = "verify"
       /\ \E account \in AccountsOf(accounts, request.name) : SignsIn(account)
       /\ windows' = AfterSuccess(LimiterKey(request.address, request.name))
       /\ failedAt' = FailedWith(request.address, request.name, {})
       /\ requests' = [requests EXCEPT ![r] = NoSignIn]
       /\ UNCHANGED <<entrance, tick, accounts, tabs, transaction, landed, seen, signIns>>

-----------------------------------------------------------------------------
(* Feishu.  A callback carries the state of the transaction its tab began. *)

\* Mutant: any page is returned to.
MutSafe(page) == page

Safe(page) == IF page \in SafePage THEN page ELSE "/"

\* Mutant: a transaction that is under way is kept.
MutBegun(state, page) ==
    IF transaction # NoCookie THEN transaction
    ELSE [state |-> state, page |-> Safe(page), until |-> tick + TransactionTtl]

Begun(state, page) == [state |-> state, page |-> Safe(page), until |-> tick + TransactionTtl]

\* What the other tabs do to the cookie under a tab that waits for it.
Disturbing(t) == [u \in Tab |-> IF u = t THEN tabs[u] ELSE [tabs[u] EXCEPT !.undisturbed = FALSE]]

StartFeishu(t, page) ==
    /\ entrance = "feishu"
    /\ tabs[t].pc = "idle" /\ signIns < MaxSignIns
    /\ signIns' = signIns + 1
    /\ transaction' = Begun(signIns', page)
    /\ tabs' = [Disturbing(t) EXCEPT ![t] =
           [NoErrand EXCEPT !.pc = "consent", !.state = signIns', !.page = page]]
    /\ UNCHANGED <<clockVars, tick, session, landed, seen, lastSignIn>>

\* The person leaves Feishu's page without an answer.
LeaveFeishu(t) ==
    /\ tabs[t].pc = "consent"
    /\ tabs' = [tabs EXCEPT ![t] = NoErrand]
    /\ UNCHANGED <<clockVars, tick, transaction, session, landed, seen, signIns, lastSignIn>>

\* The cookie's transaction is that of the state, so the verifier in it is that of
\* the code.
Consumable(state) ==
    transaction # NoCookie /\ transaction.until > tick /\ transaction.state = state

CallbackFails(t, failure) ==
    /\ tabs' = [Disturbing(t) EXCEPT ![t] = [NoErrand EXCEPT !.failure = failure,
                                                !.state = tabs[t].state,
                                                !.undisturbed = tabs[t].undisturbed]]
    /\ transaction' = NoCookie
    /\ UNCHANGED <<session, landed, lastSignIn>>

Callback(t, user) ==
    LET tab == tabs[t]
    IN /\ tab.pc = "consent"
       /\ \/ ~Consumable(tab.state) /\ CallbackFails(t, "invalid_state")
          \/ Consumable(tab.state) /\ user = NoCookie /\ CallbackFails(t, "access_denied")
          \/ /\ Consumable(tab.state) /\ user # NoCookie
             /\ tabs' = [tabs EXCEPT ![t].pc = "exchange", ![t].user = user,
                                     ![t].landing = transaction.page]
             /\ UNCHANGED <<transaction, session, landed, lastSignIn>>
       /\ UNCHANGED <<clockVars, tick, seen, signIns>>

\* Mutant: anyone of the tenant is let in.
MutAuthorized(user) == user.tenant = OwnTenant

Authorized(user) == user.tenant = OwnTenant /\ user.mapped

\* Mutant: the page is read when the answer comes.
MutLandingOf(t) == IF transaction = NoCookie THEN tabs[t].landing ELSE transaction.page

LandingOf(t) == tabs[t].landing

\* Feishu may not answer.  The cookie goes with the answer, whoever began the
\* transaction that it holds by then.
Exchange(t) ==
    LET tab == tabs[t]
    IN /\ tab.pc = "exchange"
       /\ \/ CallbackFails(t, "provider_unavailable")
          \/ ~Authorized(tab.user) /\ CallbackFails(t, "not_authorized")
          \/ /\ Authorized(tab.user)
             /\ SignsIn(tab.user)
             /\ landed' = landed \cup {[page |-> tab.page, landing |-> LandingOf(t), user |-> tab.user]}
             /\ transaction' = NoCookie
             /\ tabs' = [Disturbing(t) EXCEPT ![t] = NoErrand]
       /\ UNCHANGED <<clockVars, tick, seen, signIns>>

-----------------------------------------------------------------------------
(* Sessions and time.                                                      *)

\* Mutant: a session is good while its cookie is there.
MutStillValid(cookie) == TRUE

StillValid(cookie) == cookie.until > tick

GetSession ==
    /\ seen' = IF session # NoCookie /\ StillValid(session) THEN session.who ELSE NoCookie
    /\ UNCHANGED <<clockVars, tick, tabs, transaction, session, landed, signIns, lastSignIn>>

\* Mutant: signing out leaves the cookie.
MutCookieAfterLogout == session

CookieAfterLogout == NoCookie

Logout ==
    /\ session # NoCookie
    /\ session' = CookieAfterLogout
    /\ lastSignIn' = NoCookie
    /\ UNCHANGED <<clockVars, tick, tabs, transaction, landed, seen, signIns>>

\* What was seen is history once time goes on.
Tick ==
    /\ tick < LastTick
    /\ tick' = tick + 1
    /\ seen' = NoCookie
    /\ UNCHANGED <<clockVars, tabs, transaction, session, landed, signIns, lastSignIn>>

\* The counts and the requests under way are gone, what browsers keep is not.
RestartService(list) ==
    /\ entrance = "password"
    /\ list # accounts /\ Configurable(list)
    /\ accounts' = list
    /\ windows' = NoFailures /\ failedAt' = NoFailures
    /\ requests' = [r \in SignInThread |-> NoSignIn]
    /\ UNCHANGED <<entrance, tick, tabs, transaction, session, landed, seen, signIns, lastSignIn>>

SignInNext ==
    \/ \E r \in SignInThread, address \in SignInAddress, name \in SignInName :
           CheckLimit(r, address, name)
    \/ \E r \in SignInThread : WrongPassword(r) \/ RightPassword(r)
    \/ \E t \in Tab, page \in LandingPage : StartFeishu(t, page)
    \/ \E t \in Tab, user \in FeishuUser \cup {NoCookie} : Callback(t, user)
    \/ \E t \in Tab : LeaveFeishu(t) \/ Exchange(t)
    \/ GetSession \/ Logout \/ Tick
    \/ \E list \in Accounts : RestartService(list)

SignInSpec == SignInInit /\ [][SignInNext]_signInVars

-----------------------------------------------------------------------------

CountedAt(failures) == Cardinality({failure \in failures : failure.at >= tick - FailureWindow})

\* A request is refused only for failures of its own name, in any case, from its
\* own address, within the window, since the last success (authentication.py:81).
RefusedWithCause ==
    [][\A r \in SignInThread : (requests'[r].pc = "refused" /\ requests[r].pc # "refused") =>
           CountedAt(FailedOf(requests'[r].address, requests'[r].name)) >= MaxFailures]_signInVars

\* The check and the count are two steps: requests that were checked together
\* exceed the limit, each by one at most (authentication.py:169).
FailuresBounded ==
    \A k \in DOMAIN failedAt : CountedAt(failedAt[k]) < MaxFailures + Cardinality(SignInThread)

\* Whoever signs in through Feishu is one of the tenant's people that are
\* configured and lands where the tab began, if that is on this site, whatever
\* other tabs did meanwhile (auth.py:153).
LandsWhereBegun ==
    \A l \in landed :
        /\ l.landing = IF l.page \in SafePage THEN l.page ELSE "/"
        /\ l.user.mapped /\ l.user.tenant = OwnTenant

\* The state of a callback is found wrong only after another tab touched the
\* cookie, or too late (auth.py:160).
OvertakenOrLate ==
    [][\A t \in Tab :
           (tabs'[t].failure = "invalid_state" /\ tabs[t].pc = "consent" /\ tabs[t].undisturbed) =>
               transaction.until <= tick]_signInVars

\* A request is answered for the last to sign in with this browser, in time and
\* until signing out, across restarts (authentication.py:231).
SeenAsSignedIn ==
    [][(seen' # seen /\ seen' # NoCookie) =>
           /\ lastSignIn # NoCookie
           /\ seen' = lastSignIn.who
           /\ tick < lastSignIn.at + SessionTtl]_signInVars

SignInSound ==
    [](FailuresBounded /\ LandsWhereBegun) /\ RefusedWithCause /\ OvertakenOrLate /\ SeenAsSignedIn
=============================================================================
