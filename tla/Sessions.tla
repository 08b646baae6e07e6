------------------------------ MODULE Sessions ------------------------------
(***************************************************************************)
(* Accounts and their sessions: the setup of the first local account, the  *)
(* login, the callback of the identity provider, the password change, the  *)
(* logout, an administrator's change, and the commands of the CLI.  A      *)
(* cookie is signed, so a browser holds what the server once set, for      *)
(* itself or for the browser it was copied from, and keeps it.             *)
(* Each browser has one request under way; a read or a write of the        *)
(* database is a step.  How many guesses are let through is the matter of  *)
(* LoginThrottle: a login that is refused or wrong leaves no trace here.   *)
(* Who is an administrator is left open: any verdict may come.             *)
(***************************************************************************)
EXTENDS LocalAccounts, FiniteSets

CONSTANTS
  Users, Browsers,
  SessionTTL,     \* SESSION_TTL_MS
  ReauthMax,      \* FRESH_LOGIN_MAX_AGE_S
  LoginTime,      \* bound: from the proof of presence to the marker of it
  MaxEvents       \* bound: requests, copied cookies, what the operator does but Add

ASSUME SessionsAssumption ==
  /\ {SessionTTL, ReauthMax, LoginTime, MaxEvents} \subseteq Nat
  /\ None \notin Users \cup Browsers

VARIABLES
  account,    \* account[u]: its rows in users and local_users
  jar,        \* jar[b]: the cookies of b: session, reauth, device
  call,       \* call[b]: the request of b under way: its pc, the cookies it will set
  setupLock,  \* the browser whose setup holds the advisory lock, or None
  events,     \* bound only: how many such events there were
  ended,      \* history: how often the sessions and the devices of u were revoked
  entered,    \* history: when u last proved presence, to us or to the provider
  bySetup     \* history: the accounts that /setup has created

history == << ended, entered, bySetup >>
vars == << now, account, jar, call, setupLock, events, history >>

-----------------------------------------------------------------------------
(* local: it signs in with a password, and not at the identity provider.   *)
NoAccount ==
  [local |-> TRUE, exists |-> FALSE, active |-> FALSE, sessionEpoch |-> 0, deviceEpoch |-> 0]
NoCookies == [session |-> None, reauth |-> None, device |-> None]

(* way: how the session comes about; proved: when the proof of presence was *)
(* checked, if there is one; new: the cookies that the response will set.   *)
NewCall(pc, user, way, proved) ==
  [pc |-> pc, user |-> user, way |-> way, proved |-> proved, new |-> NoCookies]
NoCall == NewCall("idle", None, "none", 0)

Init ==
  /\ now = 0
  /\ account \in [Users -> {[NoAccount EXCEPT !.local = local] : local \in BOOLEAN}]
  /\ jar = [b \in Browsers |-> NoCookies]
  /\ call = [b \in Browsers |-> NoCall]
  /\ setupLock = None
  /\ events = 0
  /\ ended = [u \in Users |-> [sessions |-> 0, devices |-> 0]]
  /\ entered = [u \in Users |-> None]
  /\ bySetup = {}

Accounts == {u \in Users : account[u].local /\ account[u].exists}

Event == events < MaxEvents /\ events' = events + 1

Called(b, new) == call' = [call EXCEPT ![b] = new]
Goes(b, pc) == Called(b, [call[b] EXCEPT !.pc = pc])
Return(b) == Called(b, NoCall)
Calls(b, user, pc) == call[b].pc = "idle" /\ Called(b, NewCall(pc, user, "none", 0))

(* What a response sets takes the place of what the browser had.           *)
Merged(old, new) == [c \in DOMAIN old |-> IF new[c] = None THEN old[c] ELSE new[c]]

-----------------------------------------------------------------------------
(* The cookies.  They note, as history, how many revocations there were    *)
(* when the epoch they carry was read or written.                          *)

SessionCookie(u, epoch, after) == [user |-> u, epoch |-> epoch, at |-> now, after |-> after]

DeviceCookie(u) == [user |-> u, epoch |-> account[u].deviceEpoch, after |-> ended[u].devices]

(* getSession *)
SessionAccepted(c) ==
  /\ c # None
  /\ now - c.at <= SessionTTL
  /\ account[c.user].active /\ account[c.user].sessionEpoch = c.epoch

(* validDeviceCookieNonce *)
DeviceAccepted(c) ==
  /\ c # None
  /\ account[c.user].active /\ account[c.user].deviceEpoch = c.epoch

AnyMarker(c, u) == c # None

(* reauthenticatedAt *)
MarkerOf(c, u) == c # None /\ c.user = u

RecentReauth(c, u) == MarkerOf(c, u) /\ now - c.at <= ReauthMax

-----------------------------------------------------------------------------
(* POST /setup: a look, the lock, a count, the rows, then a session.       *)

SetupPost(b, u) ==
  /\ Event
  /\ Accounts = {} /\ account[u].local
  /\ Calls(b, u, "locks")
  /\ UNCHANGED << now, account, jar, setupLock, history >>

FreeOrNot(b) == TRUE
LockFree(b) == setupLock = None

SetupLock(b) ==
  /\ call[b].pc = "locks" /\ LockFree(b)
  /\ setupLock' = b
  /\ Goes(b, "counts")
  /\ UNCHANGED << now, account, jar, events, history >>

SetupCount(b) ==
  /\ call[b].pc = "counts"
  /\ IF Accounts # {} THEN Return(b) /\ setupLock' = None
                      ELSE Goes(b, "creates") /\ UNCHANGED setupLock
  /\ UNCHANGED << now, account, jar, events, history >>

Created(u) == account' = [account EXCEPT ![u].exists = TRUE, ![u].active = TRUE]

(* The ways that prove presence.                                           *)
Marks(way) == way \in {"password", "fresh"}

SignsIn(b, pc, u, way) ==
  Called(b, NewCall(pc, u, way, IF Marks(way) THEN now ELSE 0))

(* The insert fails if the name is taken; the commit gives the lock back.  *)
SetupCreate(b) ==
  LET u == call[b].user IN
  /\ call[b].pc = "creates"
  /\ setupLock' = None
  /\ IF account[u].exists
     THEN Return(b) /\ UNCHANGED << account, bySetup >>
     ELSE Created(u) /\ bySetup' = bySetup \cup {u} /\ SignsIn(b, "starts", u, "setup")
  /\ UNCHANGED << now, jar, events, ended, entered >>

-----------------------------------------------------------------------------
(* POST /auth/login with the right password, and GET /oauth/callback.      *)

(* validateLocalUser: the row is read, and the password compared with it.  *)
LoginPost(b, u) ==
  /\ Event
  /\ account[u].local /\ account[u].exists /\ account[u].active
  /\ call[b].pc = "idle" /\ SignsIn(b, "starts", u, "password")
  /\ entered' = [entered EXCEPT ![u] = now]
  /\ UNCHANGED << now, account, jar, setupLock, ended, bySetup >>

(* handleUpstreamCallback: the code is exchanged.  If the flow asked for a *)
(* fresh login, the provider says when the user last proved presence.      *)
CallbackGet(b, u, fresh) ==
  /\ Event
  /\ ~account[u].local /\ call[b].pc = "idle"
  /\ SignsIn(b, "upserts", u, IF fresh THEN "fresh" ELSE "silent")
  /\ IF fresh
     THEN \E at \in 0 .. now :
            /\ now - at <= ReauthMax
            /\ entered' = [entered EXCEPT ![u] = IF @ # None /\ @ > at THEN @ ELSE at]
     ELSE UNCHANGED entered
  /\ UNCHANGED << now, account, jar, setupLock, ended, bySetup >>

(* The row of the user, unless the account is deactivated.                 *)
Upsert(b) ==
  LET u == call[b].user IN
  /\ call[b].pc = "upserts"
  /\ IF account[u].exists THEN UNCHANGED account ELSE Created(u)
  /\ IF account'[u].active THEN Goes(b, "starts") ELSE Return(b)
  /\ UNCHANGED << now, jar, setupLock, events, history >>

(* startSession, and markReauthenticated where presence has been proved.   *)
StartSession(b) ==
  LET u == call[b].user
      way == call[b].way
      marker == IF Marks(way) THEN [user |-> u, at |-> now] ELSE None IN
  /\ call[b].pc = "starts"
  /\ Called(b, [NewCall(IF way = "password" THEN "trusts" ELSE "answers", u, "none", 0) EXCEPT
        !.new = [NoCookies EXCEPT
                   !.session = SessionCookie(u, account[u].sessionEpoch, ended[u].sessions),
                   !.reauth = marker]])
  /\ UNCHANGED << now, account, jar, setupLock, events, history >>

(* issueDeviceCookie *)
TrustDevice(b) ==
  /\ call[b].pc = "trusts"
  /\ Called(b, [call[b] EXCEPT !.pc = "answers", !.new.device = DeviceCookie(call[b].user)])
  /\ UNCHANGED << now, account, jar, setupLock, events, history >>

(* The response reaches the browser, with the cookies.                     *)
Answer(b) ==
  /\ call[b].pc = "answers"
  /\ jar' = [jar EXCEPT ![b] = Merged(@, call[b].new)]
  /\ Return(b)
  /\ UNCHANGED << now, account, setupLock, events, history >>

-----------------------------------------------------------------------------
(* POST /auth/password with the right current password; POST /auth/logout. *)

Ended(u, sessions, devices) ==
  ended' = [ended EXCEPT ![u] = [sessions |-> @.sessions + sessions, devices |-> @.devices + devices]]

BothEpochs(row) == [row EXCEPT !.sessionEpoch = @ + 1, !.deviceEpoch = @ + 1]

WithSession(b, pc) ==
  LET c == jar[b].session IN SessionAccepted(c) /\ Calls(b, c.user, pc)

PasswordPost(b) ==
  /\ Event
  /\ WithSession(b, "reads")
  /\ UNCHANGED << now, account, jar, setupLock, history >>

Cleared(b) == jar' = [jar EXCEPT ![b].session = None, ![b].reauth = None]

(* changePassword: the hash is read, and the current password compared.    *)
ReadHash(b) ==
  /\ call[b].pc = "reads"
  /\ IF account[call[b].user].local THEN Goes(b, "changes") /\ UNCHANGED jar
                                   ELSE Return(b) /\ Cleared(b)
  /\ UNCHANGED << now, account, setupLock, events, history >>

(* The epoch that the transaction returns goes into the new cookie.        *)
ChangePassword(b) ==
  LET u == call[b].user IN
  /\ call[b].pc = "changes"
  /\ account' = [account EXCEPT ![u] = BothEpochs(@)]
  /\ Ended(u, 1, 1)
  /\ Called(b, [call[b] EXCEPT !.pc = "keeps", !.new.session =
                  SessionCookie(u, account'[u].sessionEpoch, ended'[u].sessions)])
  /\ UNCHANGED << now, jar, setupLock, events, entered, bySetup >>

KeepsCurrent(b) ==
  /\ call[b].pc = "keeps"
  /\ Called(b, [call[b] EXCEPT !.pc = "answers", !.new.session =
                  [@ EXCEPT !.epoch = account[call[b].user].sessionEpoch, !.at = now]])
  /\ UNCHANGED << now, account, jar, setupLock, events, history >>

(* setSession, with that epoch and not with what it has become.            *)
KeepSession(b) ==
  /\ call[b].pc = "keeps"
  /\ Called(b, [call[b] EXCEPT !.pc = "answers", !.new.session.at = now])
  /\ UNCHANGED << now, account, jar, setupLock, events, history >>

LogoutPost(b) ==
  /\ Event
  /\ WithSession(b, "revokes")
  /\ UNCHANGED << now, account, jar, setupLock, history >>

(* revokeSessions and clearSession. *)
Logout(b) ==
  LET u == call[b].user IN
  /\ call[b].pc = "revokes"
  /\ account' = [account EXCEPT ![u].sessionEpoch = @ + 1]
  /\ Ended(u, 1, 0)
  /\ Cleared(b)
  /\ Return(b)
  /\ UNCHANGED << now, setupLock, events, entered, bySetup >>

-----------------------------------------------------------------------------
(* A post to /admin: requireAdminWrite, then the change.                   *)

AdminPost(b) ==
  /\ Event
  /\ WithSession(b, "asks")
  /\ UNCHANGED << now, account, jar, setupLock, history >>

(* isAdmin, then what is checked with no read: rate, token, marker.        *)
AdminCheck(b) ==
  LET u == call[b].user IN
  /\ call[b].pc = "asks"
  /\ \/ /\ account[u].local => account[u].active
        /\ RecentReauth(jar[b].reauth, u) /\ Goes(b, "admitted")
     \/ Return(b)
  /\ UNCHANGED << now, account, jar, setupLock, events, history >>

AdminWrite(b) ==
  /\ call[b].pc = "admitted"
  /\ Return(b)
  /\ UNCHANGED << now, account, jar, setupLock, events, history >>

-----------------------------------------------------------------------------
(* The CLI: add and deactivate.                                            *)

Add(u) ==
  /\ account[u].local /\ ~account[u].exists
  /\ Created(u)
  /\ UNCHANGED << now, jar, call, setupLock, events, history >>

Deactivated(row) == BothEpochs([row EXCEPT !.active = FALSE])

Deactivate(u) ==
  /\ Event
  /\ account[u].local /\ account[u].exists
  /\ account' = [account EXCEPT ![u] = Deactivated(@)]
  /\ Ended(u, 1, 1)
  /\ UNCHANGED << now, jar, call, setupLock, entered, bySetup >>

(* By hand, in the database.                                               *)
SetActive(u, active) ==
  /\ Event
  /\ account[u].exists /\ account[u].active # active
  /\ account' = [account EXCEPT ![u].active = active]
  /\ UNCHANGED << now, jar, call, setupLock, history >>

(* Cookies are copied from one browser to the other. *)
Copy(b, c) ==
  /\ Event
  /\ b # c /\ jar[b] # NoCookies
  /\ jar' = [jar EXCEPT ![c] = jar[b]]
  /\ UNCHANGED << now, account, call, setupLock, history >>

(* A sign-in takes no longer than LoginTime from the proof to its marker.  *)
Tick ==
  /\ now < MaxTime /\ now' = now + 1
  /\ \A b \in Browsers :
       call[b].pc \in {"upserts", "starts"} /\ Marks(call[b].way)
         => now' - call[b].proved <= LoginTime
  /\ UNCHANGED << account, jar, call, setupLock, events, history >>

-----------------------------------------------------------------------------
Step(b) ==
  \/ SetupLock(b) \/ SetupCount(b) \/ SetupCreate(b)
  \/ Upsert(b) \/ StartSession(b) \/ TrustDevice(b) \/ Answer(b)
  \/ ReadHash(b) \/ ChangePassword(b) \/ KeepSession(b) \/ Logout(b)
  \/ AdminCheck(b) \/ AdminWrite(b)

Post(b) ==
  \/ \E u \in Users : SetupPost(b, u) \/ LoginPost(b, u)
  \/ \E u \in Users, fresh \in BOOLEAN : CallbackGet(b, u, fresh)
  \/ PasswordPost(b) \/ LogoutPost(b) \/ AdminPost(b)

Command ==
  \E u \in Users : Add(u) \/ Deactivate(u) \/ \E active \in BOOLEAN : SetActive(u, active)

Next ==
  \/ \E b \in Browsers : Step(b) \/ Post(b) \/ \E c \in Browsers : Copy(b, c)
  \/ Command \/ Tick

Spec == Init /\ [][Next]_vars

-----------------------------------------------------------------------------
(* A logout, a password change and a deactivation end every session cookie *)
(* whose epoch was read before it, a copied one and one that a response    *)
(* under way has yet to set included, and the last two every device        *)
(* cookie; none comes back, whatever else is under way and even if the     *)
(* account is reactivated (session.ts:17-23, local-user.ts:99).            *)
RevokedStaysDead ==
  \A b \in Browsers :
    /\ SessionAccepted(jar[b].session)
         => jar[b].session.after = ended[jar[b].session.user].sessions
    /\ DeviceAccepted(jar[b].device)
         => jar[b].device.after = ended[jar[b].device.user].devices

(* The age of the proof behind a marker that is still good: a sign-in      *)
(* upstream may already be ReauthMax old when it is checked.               *)
ProofMax(u) == LoginTime + (IF account[u].local THEN 1 ELSE 2) * ReauthMax

(* An administrator's change is admitted only while its very account has   *)
(* lately proved presence, with its password or freshly upstream: neither  *)
(* a session, a setup, a password change or a silent sign-in upstream, nor *)
(* the marker of another account, will do (session.ts:46-59).              *)
AdminRecent ==
  [][\A b \in Browsers :
       call[b].pc = "asks" /\ call'[b].pc = "admitted"
         => LET u == call[b].user IN
            entered[u] # None /\ now - entered[u] <= ProofMax(u)]_vars

(* However many post to /setup at once, it creates one account             *)
(* (local-accounts.ts:201-205). *)
SetupOnce == Cardinality(bySetup) <= 1
=============================================================================
