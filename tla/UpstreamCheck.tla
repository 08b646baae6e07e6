--------------------------- MODULE UpstreamCheck ---------------------------
(***************************************************************************)
(* What the proxy knows of one user from the upstream provider: sign-ins   *)
(* (identity/oidc.ts) and the re-check at each refresh                     *)
(* (identity/upstream-refresh.ts).  The user is one of the configured      *)
(* issuer; a local account or one of another issuer is answered at once.   *)
(*                                                                         *)
(* The provider is external: it may rotate the refresh token at each use,  *)
(* takes the second use of a spent one for theft, and may disable the      *)
(* user, be unreachable, or answer with anything.  Its verdicts are those  *)
(* of classifyUpstreamError.                                               *)
(***************************************************************************)
EXTENDS Naturals

CONSTANTS
  Callers,      \* of recheckUpstream
  Callbacks,    \* requests of GET /oauth/callback
  Tokens,       \* the provider's refresh tokens
  None,
  Interval,     \* UPSTREAM_RECHECK_INTERVAL_MS
  FailOpen,     \* UPSTREAM_FAIL_OPEN_MS
  Backoff,      \* UPSTREAM_FAILURE_BACKOFF_MS
  CallTime,     \* the requests to the provider, and what they lead to, end in this time
  MaxFlows,     \* bound: the sign-ins begun
  MaxTime       \* bound: the clock

ASSUME UpstreamAssumption ==
  /\ {Interval, FailOpen, Backoff, CallTime, MaxFlows, MaxTime} \subseteq Nat
  /\ 0 < Interval /\ Interval <= FailOpen
  /\ None \notin Nat /\ None \notin Callers \cup Tokens

VARIABLES
  now,
  user,         \* upstream_refresh_token and upstream_checked_at
  check,        \* check[c]: its pc, when it asked or read, what it read and heard
  inflight,     \* the caller whose doRecheck is shared, or None
  failedAt,     \* recentFailures of the user
  state,        \* upstream_state of the flow: "set", or "null" once consumed
  callback,     \* callback[s]: its pc, and what it has heard
  provider,     \* the valid and the spent tokens; is the user enabled
  flows,        \* history: sign-ins begun and codes exchanged
  confirmed,    \* history: when the provider last confirmed the user
  overdue,      \* history: how long after it began one that was let through
  orphaned,     \* history: a rotated token was not stored
  theft         \* history: a spent token was used

history == << flows, confirmed, overdue, orphaned, theft >>
signIn == << state, callback >>
vars == << now, user, check, inflight, failedAt, signIn, provider, history >>

-----------------------------------------------------------------------------
Idle == [pc |-> "idle", leader |-> None, token |-> None, checkedAt |-> None, at |-> 0,
         new |-> None, heard |-> None, outrun |-> FALSE]
NoCallback == [pc |-> "idle", new |-> None, heard |-> None]

Init ==
  /\ now = 0
  /\ user = [token |-> None, checkedAt |-> None]
  /\ check = [c \in Callers |-> Idle]
  /\ inflight = None /\ failedAt = None
  /\ state = "null"
  /\ callback = [s \in Callbacks |-> NoCallback]
  /\ provider = [valid |-> {}, spent |-> {}, enabled |-> TRUE]
  /\ flows = [begun |-> 0, exchanged |-> 0]
  /\ confirmed = None /\ overdue = 0
  /\ orphaned = FALSE /\ theft = FALSE

Called(c, new) == check' = [check EXCEPT ![c] = new]

(* Past the read of the row, and not answered. *)
Calling(c) == check[c].pc \notin {"idle", "joins", "reads"}

(* The promise settles: all who share it get the verdict. *)
Sharing(c) == {c} \cup {d \in Callers : check[d].pc = "joins" /\ check[d].leader = c}

Larger(m, n) == IF m > n THEN m ELSE n

(* Any one of them shows how late those who are let through may be.        *)
Answer(c, ok) ==
  /\ check' = [d \in Callers |-> IF d \in Sharing(c) THEN Idle ELSE check[d]]
  /\ inflight' = None
  /\ IF ok THEN \E d \in Sharing(c) : overdue' = Larger(overdue, check[d].at - confirmed)
           ELSE UNCHANGED overdue

-----------------------------------------------------------------------------
(* recheckUpstream                                                         *)

NeverShares(c) == FALSE

Shares(c) == inflight # None

Ask(c) ==
  /\ check[c].pc = "idle"
  /\ IF Shares(c)
     THEN Called(c, [Idle EXCEPT !.pc = "joins", !.leader = inflight, !.at = now]) /\ UNCHANGED inflight
     ELSE Called(c, [Idle EXCEPT !.pc = "reads", !.at = now]) /\ inflight' = c
  /\ UNCHANGED << now, user, failedAt, signIn, provider, history >>

Within(t, length, at) == t # None /\ at < t + length

(* doRecheck: the row is read, and what needs no call is answered at once: *)
(* a recent check, no token, the back-off after a failure. *)
Reading(c) == [Idle EXCEPT !.pc = "calls", !.token = user.token,
                           !.checkedAt = user.checkedAt, !.at = now]

BackingOff == Within(failedAt, Backoff, now)

EverChecked(checkedAt, at) == checkedAt # None

(* failOpen *)
FailsOpen(checkedAt, at) == Within(checkedAt, FailOpen, at)

ReadRecent(c) ==
  /\ check[c].pc = "reads"
  /\ Within(user.checkedAt, Interval, now)
  /\ Answer(c, TRUE)
  /\ UNCHANGED << now, user, failedAt, signIn, provider, flows, confirmed, orphaned, theft >>

ReadNoToken(c) ==
  /\ check[c].pc = "reads"
  /\ ~Within(user.checkedAt, Interval, now) /\ user.token = None
  /\ Answer(c, FALSE)
  /\ UNCHANGED << now, user, failedAt, signIn, provider, flows, confirmed, orphaned, theft >>

ReadBackingOff(c) ==
  /\ check[c].pc = "reads"
  /\ ~Within(user.checkedAt, Interval, now) /\ user.token # None /\ BackingOff
  /\ Answer(c, FailsOpen(user.checkedAt, now))
  /\ UNCHANGED << now, user, failedAt, signIn, provider, flows, confirmed, orphaned, theft >>

ReadToken(c) ==
  /\ check[c].pc = "reads"
  /\ ~Within(user.checkedAt, Interval, now) /\ user.token # None /\ ~BackingOff
  /\ Called(c, Reading(c))
  /\ UNCHANGED << now, user, inflight, failedAt, signIn, provider, history >>

-----------------------------------------------------------------------------
(* refreshTokenGrant and fetchUserInfo.  The provider answers, or the      *)
(* answer never arrives. *)

Unused == Tokens \ (provider.valid \cup provider.spent)

(* The next token of a grant: the same one, or a new one in its place.     *)
Rotations(t) == {t} \cup Unused
Rotated(t, new) ==
  IF new = t THEN provider
  ELSE [provider EXCEPT !.valid = (@ \ {t}) \cup {new}, !.spent = @ \cup {t}]

(* Confirmed by the ID token, or asked for at userinfo. *)
Confirms(c) ==
  LET t == check[c].token IN
  /\ check[c].pc = "calls"
  /\ t \in provider.valid /\ provider.enabled
  /\ \E new \in Rotations(t) :
       /\ provider' = Rotated(t, new)
       /\ \/ /\ Called(c, [check[c] EXCEPT !.pc = "stores", !.new = new, !.heard = now])
             /\ confirmed' = now
          \/ /\ Called(c, [check[c] EXCEPT !.pc = "asks", !.new = new])
             /\ UNCHANGED confirmed
  /\ UNCHANGED << now, user, inflight, failedAt, signIn, flows, overdue, orphaned, theft >>

AnswerLost(c) ==
  LET t == check[c].token IN
  /\ check[c].pc = "calls"
  /\ t \in provider.valid /\ provider.enabled
  /\ \E new \in Unused : provider' = Rotated(t, new)
  /\ orphaned' = TRUE
  /\ Called(c, [check[c] EXCEPT !.pc = "unavailable"])
  /\ UNCHANGED << now, user, inflight, failedAt, signIn, flows, confirmed, overdue, theft >>

(* invalid_grant.  The use of a spent token ends all that came of it.      *)
Rejects(c) ==
  LET t == check[c].token IN
  /\ check[c].pc = "calls"
  /\ t \notin provider.valid \/ ~provider.enabled
  /\ provider' = IF t \in provider.spent THEN [provider EXCEPT !.valid = {}] ELSE provider
  /\ theft' = (theft \/ t \in provider.spent)
  /\ Called(c, [check[c] EXCEPT !.pc = "rejected"])
  /\ UNCHANGED << now, user, inflight, failedAt, signIn, flows, confirmed, overdue, orphaned >>

Lost(c) == check[c].pc = "asks" /\ check[c].new # check[c].token

(* No connection, a server error, or an answer that says nothing of the    *)
(* user; a rotated token is then forgotten. *)
NoVerdict(c) ==
  /\ check[c].pc \in {"calls", "asks"}
  /\ \E verdict \in {"unavailable", "refused"} : Called(c, [check[c] EXCEPT !.pc = verdict])
  /\ orphaned' = (orphaned \/ Lost(c))
  /\ UNCHANGED << now, user, inflight, failedAt, signIn, provider, flows, confirmed, overdue, theft >>

(* A refusal, or an answer of another subject. *)
Userinfo(c) ==
  /\ check[c].pc = "asks"
  /\ \/ /\ provider.enabled
        /\ Called(c, [check[c] EXCEPT !.pc = "stores", !.heard = now])
        /\ confirmed' = now /\ UNCHANGED orphaned
     \/ /\ Called(c, [check[c] EXCEPT !.pc = "rejected"])
        /\ orphaned' = (orphaned \/ Lost(c)) /\ UNCHANGED confirmed
  /\ UNCHANGED << now, user, inflight, failedAt, signIn, provider, flows, overdue, theft >>

-----------------------------------------------------------------------------
(* What doRecheck makes of the verdict.                                    *)

SameToken(c) == user.token = check[c].token

Unchanged(c) == user.token = check[c].token /\ user.checkedAt = check[c].checkedAt

(* clearUpstreamToken, which may fail *)
Reject(c) ==
  /\ check[c].pc = "rejected"
  /\ failedAt' = None
  /\ \/ user' = IF Unchanged(c) THEN [user EXCEPT !.token = None] ELSE user
     \/ UNCHANGED user
  /\ Answer(c, FALSE)
  /\ UNCHANGED << now, signIn, provider, flows, confirmed, orphaned, theft >>

Unavailable(c) ==
  /\ check[c].pc = "unavailable"
  /\ failedAt' = now
  /\ Answer(c, FailsOpen(check[c].checkedAt, check[c].at))
  /\ UNCHANGED << now, user, signIn, provider, flows, confirmed, orphaned, theft >>

Refuse(c) ==
  /\ check[c].pc = "refused"
  /\ failedAt' = None
  /\ Answer(c, FALSE)
  /\ UNCHANGED << now, user, signIn, provider, flows, confirmed, orphaned, theft >>

(* The compare-and-set, which may fail: the answer is the same. *)
Store(c) ==
  /\ check[c].pc = "stores"
  /\ failedAt' = None
  /\ \/ user' = IF Unchanged(c) THEN [token |-> check[c].new, checkedAt |-> now] ELSE user
     \/ UNCHANGED user
  /\ orphaned' = (orphaned \/ check[c].new \notin {check[c].token, user'.token})
  /\ Answer(c, TRUE)
  /\ UNCHANGED << now, signIn, provider, flows, confirmed, theft >>

-----------------------------------------------------------------------------
(* handleUpstreamCallback.                                                 *)

(* startUpstreamAuth *)
BeginFlow ==
  /\ flows.begun < MaxFlows
  /\ flows' = [flows EXCEPT !.begun = @ + 1]
  /\ state' = "set"
  /\ UNCHANGED << now, user, check, inflight, failedAt, callback, provider, confirmed, overdue, orphaned, theft >>

Hears(s, new) == callback' = [callback EXCEPT ![s] = new]

FindFlow(s) ==
  /\ callback[s].pc = "idle" /\ state = "set"
  /\ Hears(s, [NoCallback EXCEPT !.pc = "consumes"])
  /\ UNCHANGED << now, user, check, inflight, failedAt, state, provider, history >>

FoundBefore(s) == TRUE

StateIsSet(s) == state = "set"

(* updateMany on the state: only one request finds it. *)
ConsumeState(s) ==
  /\ callback[s].pc = "consumes"
  /\ IF StateIsSet(s)
     THEN Hears(s, [callback[s] EXCEPT !.pc = "exchanges"]) /\ state' = "null"
     ELSE Hears(s, NoCallback) /\ UNCHANGED state
  /\ UNCHANGED << now, user, check, inflight, failedAt, provider, history >>

(* authorizationCodeGrant: the provider issues a refresh token, or none.   *)
Exchange(s) ==
  /\ callback[s].pc = "exchanges" /\ provider.enabled
  /\ flows' = [flows EXCEPT !.exchanged = @ + 1]
  /\ \E new \in Unused \cup {None} :
       /\ provider' = IF new = None THEN provider ELSE [provider EXCEPT !.valid = @ \cup {new}]
       /\ Hears(s, [pc |-> "upserts", new |-> new, heard |-> now])
  /\ confirmed' = now
  /\ UNCHANGED << now, user, check, inflight, failedAt, state, overdue, orphaned, theft >>

ExchangeFails(s) ==
  /\ callback[s].pc = "exchanges"
  /\ Hears(s, NoCallback)
  /\ UNCHANGED << now, user, check, inflight, failedAt, state, provider, history >>

Upsert(s) ==
  LET new == callback[s].new IN
  /\ callback[s].pc = "upserts"
  /\ user' = [token |-> IF new = None THEN user.token ELSE new, checkedAt |-> now]
  /\ check' = [c \in Callers |-> IF Calling(c) THEN [check[c] EXCEPT !.outrun = TRUE] ELSE check[c]]
  /\ Hears(s, NoCallback)
  /\ UNCHANGED << now, inflight, failedAt, state, provider, history >>

-----------------------------------------------------------------------------
SetEnabled ==
  /\ provider' = [provider EXCEPT !.enabled = ~@]
  /\ UNCHANGED << now, user, check, inflight, failedAt, signIn, history >>

Passed(t, length) == IF t # None /\ now' >= t + length THEN None ELSE t

(* A request to the provider times out, and what was heard is stored soon. *)
Tick ==
  /\ now < MaxTime /\ now' = now + 1
  /\ \A c \in Callers : Calling(c) => now < check[c].at + CallTime
  /\ \A s \in Callbacks : callback[s].heard # None => now < callback[s].heard + CallTime
  /\ failedAt' = Passed(failedAt, Backoff)
  /\ UNCHANGED << user, check, inflight, signIn, provider, history >>

-----------------------------------------------------------------------------
Recheck(c) ==
  \/ Ask(c) \/ ReadRecent(c) \/ ReadNoToken(c) \/ ReadBackingOff(c) \/ ReadToken(c)
  \/ Confirms(c) \/ AnswerLost(c) \/ Rejects(c) \/ NoVerdict(c) \/ Userinfo(c)
  \/ Reject(c) \/ Unavailable(c) \/ Refuse(c) \/ Store(c)

SignIn(s) == FindFlow(s) \/ ConsumeState(s) \/ Exchange(s) \/ ExchangeFails(s) \/ Upsert(s)

Next ==
  \/ \E c \in Callers : Recheck(c)
  \/ \E s \in Callbacks : SignIn(s)
  \/ BeginFlow \/ SetEnabled \/ Tick

Spec == Init /\ [][Next]_vars

-----------------------------------------------------------------------------
(* A sign-in that is stored while a re-check is under way wins: the        *)
(* re-check neither overwrites nor clears what the sign-in left, with a    *)
(* new token or without (upstream-refresh.ts:161-168, 242-243). *)
SignInWins ==
  [][\A c \in Callers : check[c].outrun /\ check'[c] = Idle => user' = user]_vars

(* No refresh is let through that began more than FailOpen after the       *)
(* provider last confirmed the user, but for the time of two calls: one    *)
(* that was late to store the confirmation, and one whose answer it shares *)
(* though it came to it late; whatever failed (upstream-refresh.ts:13-15). *)
LetThroughInTime == overdue < FailOpen + 2 * CallTime

(* The provider sees a spent token again only after a rotated one was not  *)
(* stored: concurrent refreshes share one call (upstream-refresh.ts:19-22).*)
NoTokenTwice == theft => orphaned

(* However often a callback is replayed, each sign-in begun exchanges one  *)
(* code (oidc.ts:171-178). *)
ExchangedOnce == flows.exchanged <= flows.begun
=============================================================================
