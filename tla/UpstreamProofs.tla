--------------------------- MODULE UpstreamProofs ---------------------------
(***************************************************************************)
(* Theorems about UpstreamCheck, for any number of callers, callbacks and  *)
(* tokens.                                                                 *)
(*                                                                         *)
(* One caller at a time is past the read (Led).  What it has read is older *)
(* than a sign-in that outruns it, and no time of a check is later than    *)
(* the provider's word and the call (Timed).  Until an answer is lost, the *)
(* stored token is unspent unless the one caller has its successor         *)
(* (TokensOK).                                                             *)
(***************************************************************************)
EXTENDS UpstreamCheck, FiniteSets, FiniteSetTheorems, TLAPS

Check == [pc : {"idle", "joins", "reads", "calls", "asks", "stores", "rejected", "unavailable", "refused"},
          leader : Callers \cup {None}, token : Tokens \cup {None}, checkedAt : Nat \cup {None},
          at : Nat, new : Tokens \cup {None}, heard : Nat \cup {None}, outrun : BOOLEAN]
Callback == [pc : {"idle", "consumes", "exchanges", "upserts"},
             new : Tokens \cup {None}, heard : Nat \cup {None}]
User == [token : Tokens \cup {None}, checkedAt : Nat \cup {None}]
Provider == [valid : SUBSET Tokens, spent : SUBSET Tokens, enabled : BOOLEAN]

TypeOK ==
  /\ now \in Nat
  /\ user \in User
  /\ check \in [Callers -> Check]
  /\ inflight \in Callers \cup {None}
  /\ failedAt \in Nat \cup {None}
  /\ state \in {"set", "null"}
  /\ callback \in [Callbacks -> Callback]
  /\ provider \in Provider
  /\ flows \in [begun : Nat, exchanged : Nat]
  /\ confirmed \in Nat \cup {None}
  /\ overdue \in Nat
  /\ orphaned \in BOOLEAN /\ theft \in BOOLEAN

Busy(c) == check[c].pc \notin {"idle", "joins"}

Led == \A c \in Callers : Busy(c) => inflight = c

-----------------------------------------------------------------------------
(* Times.                                                                  *)

ConfirmedBy(t) == t # None => confirmed # None /\ t <= confirmed + CallTime
HeardOK(t) == t # None => confirmed # None /\ t <= confirmed /\ now <= t + CallTime

TimedUser ==
  /\ ConfirmedBy(user.checkedAt)
  /\ user.checkedAt # None => user.checkedAt <= now
  /\ confirmed # None => confirmed <= now

TimedCall(c) ==
  /\ check[c].at <= now
  /\ Calling(c) =>
       /\ now <= check[c].at + CallTime
       /\ ConfirmedBy(check[c].checkedAt) /\ HeardOK(check[c].heard)
       /\ check[c].checkedAt # None => check[c].checkedAt + Interval <= now
       /\ check[c].heard # None => check[c].at <= check[c].heard
       /\ check[c].pc = "stores" => check[c].heard # None
  /\ check[c].outrun =>
       /\ Calling(c) /\ user.checkedAt # None
       /\ check[c].checkedAt # None => check[c].checkedAt < user.checkedAt

TimedCallback(s) ==
  /\ HeardOK(callback[s].heard)
  /\ callback[s].pc = "upserts" => callback[s].heard # None

Timed ==
  /\ TimedUser /\ (\A c \in Callers : TimedCall(c)) /\ (\A s \in Callbacks : TimedCallback(s))
  /\ LetThroughInTime

-----------------------------------------------------------------------------
(* Tokens.                                                                 *)

Known == provider.valid \cup provider.spent
HasNew(c) == check[c].pc \in {"asks", "stores"}
Brings(s) == callback[s].pc = "upserts" /\ callback[s].new # None

TokenUser ==
  /\ user.token # None => user.token \in Known
  /\ user.token \in provider.spent =>
       \E c \in Callers : HasNew(c) /\ check[c].token = user.token /\ check[c].new # user.token

TokenCall(c) ==
  Calling(c) =>
    /\ check[c].token \in Known
    /\ check[c].pc = "calls" => check[c].token \notin provider.spent
    /\ HasNew(c) => check[c].new \in Known \ provider.spent

TokenCallback(s) ==
  Brings(s) =>
    /\ callback[s].new \in Known \ provider.spent
    /\ callback[s].new # user.token
    /\ \A c \in Callers : Calling(c) => /\ callback[s].new # check[c].token
                                        /\ HasNew(c) => callback[s].new # check[c].new
    /\ \A r \in Callbacks \ {s} : Brings(r) => callback[r].new # callback[s].new

TokensOK ==
  ~orphaned => /\ ~theft /\ TokenUser
               /\ \A c \in Callers : TokenCall(c)
               /\ \A s \in Callbacks : TokenCallback(s)

-----------------------------------------------------------------------------
(* Flows: a code yet to be exchanged, or a state yet to be consumed, is of *)
(* a sign-in of its own. *)
Exchanging == {s \in Callbacks : callback[s].pc = "exchanges"}
FlowsOK ==
  /\ IsFiniteSet(Exchanging)
  /\ flows.exchanged + Cardinality(Exchanging) + (IF state = "set" THEN 1 ELSE 0) <= flows.begun

IInv == TypeOK /\ Led /\ Timed /\ TokensOK /\ FlowsOK

-----------------------------------------------------------------------------
(* How the callers move.                                                   *)

Kept(c) == check'[c] = check[c]

LEMMA Constants ==
  /\ Interval \in Nat /\ FailOpen \in Nat /\ Backoff \in Nat /\ CallTime \in Nat
  /\ 0 < Interval /\ Interval <= FailOpen
  /\ None \notin Nat /\ None \notin Callers /\ None \notin Tokens
BY UpstreamAssumption

LEMMA IdleType ==
  Idle \in Check /\ Idle.pc = "idle" /\ Idle.at = 0 /\ Idle.outrun = FALSE /\ NoCallback \in Callback
  /\ NoCallback.pc = "idle" /\ NoCallback.heard = None
BY DEF Idle, Check, NoCallback, Callback

LEMMA CalledType ==
  ASSUME TypeOK, NEW c \in Callers, NEW r \in Check, Called(c, r)
  PROVE  check' \in [Callers -> Check] /\ (\A d \in Callers \ {c} : Kept(d)) /\ check'[c] = r
BY DEF TypeOK, Called, Kept

(* Nobody who is not busy is past the read, or outrun. *)
LEMMA OthersIdle ==
  ASSUME IInv, NEW c \in Callers, Busy(c)
  PROVE  inflight = c /\ \A d \in Callers \ {c} : ~Busy(d) /\ ~Calling(d) /\ ~check[d].outrun
<1>1. inflight = c /\ \A d \in Callers \ {c} : ~Busy(d)
  BY DEF IInv, Led
<1>2. ASSUME NEW d \in Callers \ {c} PROVE ~Calling(d) /\ ~check[d].outrun
  <2>1. TimedCall(d) /\ ~Busy(d)
    BY <1>1 DEF IInv, Timed
  <2> QED
    BY <2>1 DEF TimedCall, Calling, Busy
<1> QED
  BY <1>1, <1>2

LEMMA AnswerType ==
  ASSUME IInv, NEW c \in Callers, Busy(c), NEW ok \in BOOLEAN, Answer(c, ok)
  PROVE  /\ check' \in [Callers -> Check] /\ inflight' = None
         /\ check'[c] = Idle
         /\ \A d \in Callers : check'[d] = Idle \/ (d # c /\ Kept(d))
         /\ \A d \in Callers : ~Busy(d)' /\ ~Calling(d)' /\ ~check'[d].outrun
<1>1. check \in [Callers -> Check] /\ Sharing(c) \in SUBSET Callers /\ c \in Sharing(c)
  BY DEF IInv, TypeOK, Sharing
<1>2. check' = [d \in Callers |-> IF d \in Sharing(c) THEN Idle ELSE check[d]] /\ inflight' = None
  BY DEF Answer
<1>3. /\ check' \in [Callers -> Check] /\ check'[c] = Idle
      /\ \A d \in Callers : check'[d] = Idle \/ (d # c /\ Kept(d))
  BY <1>1, <1>2, IdleType DEF Kept
<1>4. \A d \in Callers : ~Busy(d)' /\ ~Calling(d)' /\ ~check'[d].outrun
  BY <1>3, IdleType, OthersIdle DEF Busy, Calling, Kept
<1> QED
  BY <1>2, <1>3, <1>4

(* The leader answers, after it has stored a confirmation of its token or  *)
(* has not. *)
LEMMA Settles ==
  ASSUME IInv, NEW c \in Callers, Busy(c), NEW ok \in BOOLEAN, Answer(c, ok),
         ok => confirmed # None /\ now < confirmed + FailOpen + 2 * CallTime,
         user' \in User, failedAt' \in Nat \cup {None}, orphaned' \in BOOLEAN,
         \/ user'.checkedAt = user.checkedAt
         \/ user'.checkedAt = now /\ ConfirmedBy(now),
         ~orphaned' => /\ ~orphaned /\ user'.token \notin provider.spent
                       /\ user'.token # None => user'.token \in Known
                       /\ \A s \in Callbacks : Brings(s) => callback[s].new # user'.token,
         UNCHANGED << now, signIn, provider, flows, confirmed, theft >>
  PROVE  IInv'
<1>1. TypeOK /\ now \in Nat /\ overdue \in Nat /\ confirmed \in Nat \cup {None}
  BY DEF IInv, TypeOK
<1>2. /\ check' \in [Callers -> Check] /\ inflight' = None
      /\ \A d \in Callers : ~Busy(d)' /\ ~Calling(d)' /\ ~check'[d].outrun
  BY AnswerType
<1>3. overdue' \in Nat /\ overdue' < FailOpen + 2 * CallTime
  <2>1. overdue < FailOpen + 2 * CallTime
    BY DEF IInv, Timed, LetThroughInTime
  <2>2. CASE ok
    <3>1. PICK d \in Sharing(c) : overdue' = Larger(overdue, check[d].at - confirmed)
      BY <2>2 DEF Answer
    <3>2. d \in Callers
      BY DEF Sharing
    <3>3. check[d].at \in Nat /\ check[d].at <= now
      BY <1>1, <3>2 DEF IInv, TypeOK, Check, Timed, TimedCall
    <3>4. confirmed \in Nat /\ check[d].at - confirmed < FailOpen + 2 * CallTime
      BY <1>1, <2>2, <3>3, Constants
    <3>5. overdue' = IF overdue > check[d].at - confirmed THEN overdue ELSE check[d].at - confirmed
      BY <3>1 DEF Larger
    <3> QED
      BY <1>1, <2>1, <3>3, <3>4, <3>5, Constants
  <2>3. CASE ~ok
    BY <1>1, <2>1, <2>3 DEF Answer
  <2> QED
    BY <2>2, <2>3
<1>4. TypeOK'
  BY <1>1, <1>2, <1>3 DEF TypeOK, signIn
<1>5. Led'
  BY <1>2 DEF Led
<1>6. TimedUser'
  <2>1. TimedUser
    BY DEF IInv, Timed
  <2> QED
    BY <1>1, <2>1 DEF TimedUser, ConfirmedBy
<1>7. ASSUME NEW d \in Callers PROVE TimedCall(d)'
  <2>1. check'[d].at = 0 \/ check'[d] = check[d]
    BY AnswerType DEF Idle, Kept
  <2>2. check'[d].at <= now
    BY <1>1, <2>1 DEF IInv, Timed, TimedCall
  <2> QED
    BY <1>2, <2>2 DEF TimedCall
<1>8. \A s \in Callbacks : TimedCallback(s)'
  BY DEF IInv, Timed, TimedCallback, HeardOK, signIn
<1>9. LetThroughInTime'
  BY <1>3 DEF LetThroughInTime
<1>10. TokensOK'
  <2> SUFFICES ASSUME ~orphaned'
               PROVE  ~theft' /\ TokenUser' /\ (\A d \in Callers : TokenCall(d)')
                      /\ (\A s \in Callbacks : TokenCallback(s)')
    BY DEF TokensOK
  <2>1. ~theft /\ \A s \in Callbacks : TokenCallback(s)
    BY DEF IInv, TokensOK
  <2>2. TokenUser' /\ \A d \in Callers : TokenCall(d)'
    BY <1>2 DEF TokenUser, TokenCall, Known
  <2>3. ASSUME NEW s \in Callbacks PROVE TokenCallback(s)'
    BY <1>2, <2>1 DEF TokenCallback, Known, Brings, signIn
  <2> QED
    BY <2>1, <2>2, <2>3
<1>11. FlowsOK'
  BY DEF IInv, FlowsOK, Exchanging, signIn
<1> QED
  BY <1>4, <1>5, <1>6, <1>7, <1>8, <1>9, <1>10, <1>11 DEF IInv, Timed

(* The leader goes on. *)
LEMMA Proceeds ==
  ASSUME IInv, NEW c \in Callers, Busy(c),
         check' \in [Callers -> Check], \A d \in Callers \ {c} : Kept(d),
         provider' \in Provider, orphaned' \in BOOLEAN, theft' \in BOOLEAN,
         confirmed' = confirmed \/ confirmed' = now,
         TimedCall(c)', TokensOK',
         UNCHANGED << now, user, inflight, failedAt, signIn, flows, overdue >>
  PROVE  IInv'
<1>1. TypeOK /\ now \in Nat /\ confirmed \in Nat \cup {None}
  BY DEF IInv, TypeOK
<1>2. TypeOK'
  BY <1>1 DEF TypeOK, signIn
<1>3. /\ inflight = c
      /\ \A d \in Callers \ {c} : ~Busy(d) /\ ~Calling(d) /\ ~check[d].outrun
  BY OthersIdle
<1>4. Led'
  BY <1>3 DEF Led, Busy, Kept
<1>5. \A d \in Callers \ {c} : TimedCall(d)'
  BY <1>3 DEF IInv, Timed, TimedCall, Calling, Kept
<1>6. confirmed # None => confirmed' # None /\ confirmed <= confirmed' /\ confirmed \in Nat /\ confirmed' \in Nat
  BY <1>1, Constants DEF IInv, Timed, TimedUser
<1>7. TimedUser'
  <2>1. TimedUser /\ user.checkedAt \in Nat \cup {None}
    BY <1>1 DEF IInv, Timed, TypeOK, User
  <2> QED
    BY <1>1, <1>6, <2>1, Constants DEF TimedUser, ConfirmedBy
<1>8. ASSUME NEW s \in Callbacks PROVE TimedCallback(s)'
  <2>1. TimedCallback(s) /\ callback[s].heard \in Nat \cup {None}
    BY <1>1 DEF IInv, Timed, TypeOK, Callback
  <2> QED
    BY <1>1, <1>6, <2>1 DEF TimedCallback, HeardOK, signIn
<1>9. LetThroughInTime' /\ FlowsOK'
  BY DEF IInv, Timed, LetThroughInTime, FlowsOK, Exchanging, signIn
<1> QED
  BY <1>2, <1>4, <1>5, <1>7, <1>8, <1>9 DEF IInv, Timed

(* What the tokens are when the leader has no new one. *)
LEMMA NoneSpent ==
  ASSUME IInv, ~orphaned, NEW c \in Callers, Busy(c), ~HasNew(c)
  PROVE  ~theft /\ user.token \notin provider.spent
<1>1. \A d \in Callers : ~HasNew(d)
  BY OthersIdle DEF Busy, HasNew
<1> QED
  BY <1>1 DEF IInv, TokensOK, TokenUser
(* The leader answers and the row is as it was. *)
LEMMA Answers ==
  ASSUME IInv, NEW c \in Callers, Busy(c), ~HasNew(c),
         NEW ok \in BOOLEAN, Answer(c, ok),
         ok => confirmed # None /\ now < confirmed + FailOpen + 2 * CallTime,
         failedAt' \in Nat \cup {None},
         UNCHANGED << now, user, signIn, provider, flows, confirmed, orphaned, theft >>
  PROVE  IInv'
<1>1. user' \in User /\ orphaned' \in BOOLEAN
  BY DEF IInv, TypeOK
<1>2. ~orphaned' => /\ ~orphaned /\ user'.token \notin provider.spent
                    /\ user'.token # None => user'.token \in Known
                    /\ \A s \in Callbacks : Brings(s) => callback[s].new # user'.token
  BY NoneSpent DEF IInv, TokensOK, TokenUser, TokenCallback
<1> QED
  BY <1>1, <1>2, Settles

-----------------------------------------------------------------------------
(* Steps before the call.                                                  *)

LEMMA AskStep == ASSUME IInv, NEW c \in Callers, Ask(c) PROVE IInv'
<1>1. /\ TypeOK /\ check[c].pc = "idle"
      /\ UNCHANGED << now, user, failedAt, signIn, provider, history >>
  BY DEF IInv, Ask
<1> DEFINE joins == [Idle EXCEPT !.pc = "joins", !.leader = inflight, !.at = now]
           reads == [Idle EXCEPT !.pc = "reads", !.at = now]
<1>2. /\ joins \in Check /\ joins.pc = "joins" /\ joins.at = now /\ ~joins.outrun
      /\ reads \in Check /\ reads.pc = "reads" /\ reads.at = now /\ ~reads.outrun
  BY <1>1 DEF Idle, Check, TypeOK
<1>3. \/ inflight # None /\ Called(c, joins) /\ UNCHANGED inflight
      \/ inflight = None /\ Called(c, reads) /\ inflight' = c
  BY DEF Ask, Shares
<1> HIDE DEF joins, reads
<1>4. /\ check' \in [Callers -> Check] /\ \A d \in Callers \ {c} : Kept(d)
      /\ \/ check'[c].pc = "joins" /\ UNCHANGED inflight
         \/ check'[c].pc = "reads" /\ inflight = None /\ inflight' = c
      /\ ~check'[c].outrun /\ check'[c].at = now
  BY <1>1, <1>2, <1>3, CalledType
<1>5. TypeOK'
  BY <1>1, <1>4 DEF TypeOK, signIn, history
<1>6. Led'
  BY <1>4, Constants DEF IInv, Led, Busy, Kept
<1>7. \A d \in Callers : TimedCall(d)'
  BY <1>1, <1>4 DEF IInv, TypeOK, Timed, TimedCall, Calling, Kept, ConfirmedBy, HeardOK, history
<1>8. TimedUser' /\ LetThroughInTime' /\ \A s \in Callbacks : TimedCallback(s)'
  BY <1>1 DEF IInv, Timed, TimedUser, TimedCallback, LetThroughInTime, ConfirmedBy, HeardOK, history, signIn
<1>9. TokensOK'
  <2> SUFFICES ASSUME ~orphaned'
               PROVE  ~theft' /\ TokenUser' /\ (\A d \in Callers : TokenCall(d)')
                      /\ (\A s \in Callbacks : TokenCallback(s)')
    BY DEF TokensOK
  <2>1. ~theft /\ TokenUser /\ (\A d \in Callers : TokenCall(d)) /\ (\A s \in Callbacks : TokenCallback(s))
    BY <1>1 DEF IInv, TokensOK, history
  <2>2. ~HasNew(c) /\ ~Calling(c)' /\ ~HasNew(c)'
    BY <1>1, <1>4 DEF HasNew, Calling
  <2>3. TokenUser'
    BY <1>1, <1>4, <2>1, <2>2 DEF TokenUser, HasNew, Known, Kept
  <2>4. \A d \in Callers : TokenCall(d)'
    BY <1>1, <1>4, <2>1, <2>2 DEF TokenCall, HasNew, Calling, Known, Kept
  <2>5. ASSUME NEW s \in Callbacks PROVE TokenCallback(s)'
    BY <1>1, <1>4, <2>1, <2>2 DEF TokenCallback, Brings, HasNew, Calling, Known, Kept, signIn
  <2> QED
    BY <1>1, <2>1, <2>3, <2>4, <2>5 DEF history
<1>10. FlowsOK'
  BY <1>1 DEF IInv, FlowsOK, Exchanging, signIn, history
<1> QED
  BY <1>5, <1>6, <1>7, <1>8, <1>9, <1>10 DEF IInv, Timed

LEMMA ReadRecentStep == ASSUME IInv, NEW c \in Callers, ReadRecent(c) PROVE IInv'
<1>1. /\ now \in Nat /\ confirmed \in Nat \cup {None} /\ user.checkedAt \in Nat \cup {None}
      /\ failedAt \in Nat \cup {None}
  BY DEF IInv, TypeOK, User
<1>2. Busy(c) /\ ~HasNew(c) /\ Within(user.checkedAt, Interval, now)
  BY DEF ReadRecent, Busy, HasNew
<1>3. confirmed # None /\ now < confirmed + FailOpen + 2 * CallTime
  BY <1>1, <1>2, Constants DEF IInv, Timed, TimedUser, ConfirmedBy, Within
<1> QED
  BY <1>1, <1>2, <1>3, Answers DEF ReadRecent

LEMMA ReadNoTokenStep == ASSUME IInv, NEW c \in Callers, ReadNoToken(c) PROVE IInv'
<1>1. now \in Nat /\ failedAt \in Nat \cup {None} /\ Busy(c) /\ ~HasNew(c)
  BY DEF IInv, TypeOK, ReadNoToken, Busy, HasNew
<1> QED
  BY <1>1, Answers DEF ReadNoToken

LEMMA OpenInTime ==
  ASSUME NEW t \in Nat \cup {None}, NEW at \in Nat, confirmed \in Nat \cup {None}, now \in Nat,
         ConfirmedBy(t), FailsOpen(t, at), now <= at + CallTime
  PROVE  confirmed # None /\ now < confirmed + FailOpen + 2 * CallTime
BY Constants DEF ConfirmedBy, FailsOpen, Within

LEMMA ReadBackingOffStep == ASSUME IInv, NEW c \in Callers, ReadBackingOff(c) PROVE IInv'
<1>1. /\ now \in Nat /\ confirmed \in Nat \cup {None} /\ user.checkedAt \in Nat \cup {None}
      /\ failedAt \in Nat \cup {None} /\ ConfirmedBy(user.checkedAt)
  BY DEF IInv, TypeOK, User, Timed, TimedUser
<1>2. Busy(c) /\ ~HasNew(c) /\ Answer(c, FailsOpen(user.checkedAt, now))
  BY DEF ReadBackingOff, Busy, HasNew
<1>3. FailsOpen(user.checkedAt, now) \in BOOLEAN
  BY DEF FailsOpen, Within
<1>4. FailsOpen(user.checkedAt, now) => confirmed # None /\ now < confirmed + FailOpen + 2 * CallTime
  <2>1. now <= now + CallTime
    BY <1>1, Constants
  <2> QED
    BY <1>1, <2>1, OpenInTime
<1>5. UNCHANGED << now, user, failedAt, signIn, provider, flows, confirmed, orphaned, theft >>
  BY DEF ReadBackingOff
<1> QED
  BY <1>1, <1>2, <1>3, <1>4, <1>5, Answers

LEMMA ReadTokenStep == ASSUME IInv, NEW c \in Callers, ReadToken(c) PROVE IInv'
<1>1. /\ TypeOK /\ now \in Nat /\ user.checkedAt \in Nat \cup {None} /\ user.token \in Tokens \cup {None}
      /\ check[c].pc = "reads" /\ user.token # None
      /\ ~Within(user.checkedAt, Interval, now)
      /\ Called(c, Reading(c))
      /\ UNCHANGED << now, user, inflight, failedAt, signIn, provider, history >>
  BY DEF IInv, TypeOK, User, ReadToken
<1>2. /\ Reading(c) \in Check /\ Reading(c).pc = "calls" /\ Reading(c).token = user.token
      /\ Reading(c).checkedAt = user.checkedAt /\ Reading(c).at = now
      /\ Reading(c).heard = None /\ ~Reading(c).outrun
  BY <1>1 DEF Reading, Idle, Check
<1>3. /\ check' \in [Callers -> Check] /\ (\A d \in Callers \ {c} : Kept(d))
      /\ check'[c].pc = "calls" /\ check'[c].token = user.token
      /\ check'[c].checkedAt = user.checkedAt /\ check'[c].at = now
      /\ check'[c].heard = None /\ ~check'[c].outrun
  BY <1>1, <1>2, CalledType
<1>4. Busy(c) /\ ~HasNew(c)
  BY <1>1 DEF Busy, HasNew
<1>5. user.checkedAt # None => user.checkedAt + Interval <= now
  BY <1>1, Constants DEF Within
<1>6. TimedCall(c)'
  BY <1>1, <1>3, <1>5, Constants DEF IInv, Timed, TimedUser, TimedCall, ConfirmedBy, HeardOK, history
<1>7. TokensOK'
  <2> SUFFICES ASSUME ~orphaned'
               PROVE  ~theft' /\ TokenUser' /\ (\A d \in Callers : TokenCall(d)')
                      /\ (\A s \in Callbacks : TokenCallback(s)')
    BY DEF TokensOK
  <2>1. /\ ~theft /\ user.token \notin provider.spent
        /\ TokenUser /\ (\A d \in Callers : TokenCall(d)) /\ (\A s \in Callbacks : TokenCallback(s))
    BY <1>1, <1>4, NoneSpent DEF IInv, TokensOK, history
  <2>2. TokenUser'
    BY <1>1, <2>1 DEF TokenUser, Known
  <2>3. ASSUME NEW d \in Callers PROVE TokenCall(d)'
    BY <1>1, <1>3, <2>1 DEF TokenCall, TokenUser, HasNew, Calling, Known, Kept
  <2>4. ASSUME NEW s \in Callbacks PROVE TokenCallback(s)'
    <3>1. ASSUME NEW d \in Callers, Calling(d)', Brings(s)
          PROVE  callback[s].new # check'[d].token /\ (HasNew(d)' => callback[s].new # check'[d].new)
      BY <1>1, <1>3, <2>1, <3>1 DEF TokenCallback, Calling, HasNew, Kept
    <3> QED
      BY <1>1, <2>1, <3>1 DEF TokenCallback, Brings, Known, signIn
  <2> QED
    BY <1>1, <2>1, <2>2, <2>3, <2>4 DEF history
<1> QED
  BY <1>1, <1>3, <1>4, <1>6, <1>7, Proceeds DEF IInv, TypeOK, history

-----------------------------------------------------------------------------
(* Steps after the call.                                                   *)

LEMMA UnavailableStep == ASSUME IInv, NEW c \in Callers, Unavailable(c) PROVE IInv'
<1>1. /\ now \in Nat /\ confirmed \in Nat \cup {None} /\ check[c] \in Check
      /\ check[c].pc = "unavailable"
  BY DEF IInv, TypeOK, Unavailable
<1>2. /\ check[c].at \in Nat /\ check[c].checkedAt \in Nat \cup {None}
      /\ Busy(c) /\ Calling(c) /\ ~HasNew(c)
  BY <1>1 DEF Check, Busy, Calling, HasNew
<1>3. ConfirmedBy(check[c].checkedAt) /\ now <= check[c].at + CallTime
  BY <1>2 DEF IInv, Timed, TimedCall
<1>4. FailsOpen(check[c].checkedAt, check[c].at) \in BOOLEAN
  BY DEF FailsOpen, Within
<1>5. FailsOpen(check[c].checkedAt, check[c].at) =>
        confirmed # None /\ now < confirmed + FailOpen + 2 * CallTime
  BY <1>1, <1>2, <1>3, OpenInTime
<1>6. /\ failedAt' = now /\ Answer(c, FailsOpen(check[c].checkedAt, check[c].at))
      /\ UNCHANGED << now, user, signIn, provider, flows, confirmed, orphaned, theft >>
  BY DEF Unavailable
<1> QED
  BY <1>1, <1>2, <1>4, <1>5, <1>6, Answers

LEMMA RefuseStep == ASSUME IInv, NEW c \in Callers, Refuse(c) PROVE IInv'
<1>1. check[c] \in Check /\ check[c].pc = "refused"
  BY DEF IInv, TypeOK, Refuse
<1>2. check[c].at \in Nat /\ Busy(c) /\ ~HasNew(c)
  BY <1>1 DEF Check, Busy, HasNew
<1> QED
  BY <1>2, Answers DEF Refuse

LEMMA RejectStep == ASSUME IInv, NEW c \in Callers, Reject(c) PROVE IInv'
<1>1. check[c] \in Check /\ check[c].pc = "rejected" /\ user \in User
  BY DEF IInv, TypeOK, Reject
<1>2. check[c].at \in Nat /\ Busy(c) /\ ~HasNew(c)
  BY <1>1 DEF Check, Busy, HasNew
<1>3. /\ failedAt' = None /\ Answer(c, FALSE)
      /\ UNCHANGED << now, signIn, provider, flows, confirmed, orphaned, theft >>
  BY DEF Reject
<1>4. CASE UNCHANGED user
  BY <1>2, <1>3, <1>4, Answers
<1>5. CASE user' = [user EXCEPT !.token = None]
  <2>1. user' \in User /\ user'.token = None /\ user'.checkedAt = user.checkedAt
    BY <1>1, <1>5 DEF User
  <2>2. None \notin provider.spent
    BY Constants DEF IInv, TypeOK, Provider
  <2>3. orphaned' \in BOOLEAN
    BY <1>3 DEF IInv, TypeOK
  <2>4. \A s \in Callbacks : Brings(s) => callback[s].new # user'.token
    BY <2>1 DEF Brings
  <2> QED
    BY <1>2, <1>3, <2>1, <2>2, <2>3, <2>4, Settles
<1> QED
  BY <1>4, <1>5 DEF Reject

LEMMA StoreStep == ASSUME IInv, NEW c \in Callers, Store(c) PROVE IInv'
<1>1. /\ TypeOK /\ check[c] \in Check /\ check[c].pc = "stores" /\ user \in User /\ now \in Nat
      /\ confirmed \in Nat \cup {None} /\ None \notin provider.spent
  BY Constants DEF IInv, TypeOK, Store, Provider
<1>2. /\ check[c].at \in Nat /\ check[c].new \in Tokens \cup {None}
      /\ check[c].heard \in Nat \cup {None}
      /\ Busy(c) /\ HasNew(c) /\ Calling(c)
  BY <1>1 DEF Check, Busy, HasNew, Calling
<1>3. /\ failedAt' = None /\ Answer(c, TRUE)
      /\ \/ Unchanged(c) /\ user' = [token |-> check[c].new, checkedAt |-> now]
         \/ UNCHANGED user
      /\ orphaned' = (orphaned \/ check[c].new \notin {check[c].token, user'.token})
      /\ UNCHANGED << now, signIn, provider, flows, confirmed, theft >>
  BY DEF Store
<1>4. /\ confirmed # None /\ check[c].at <= confirmed /\ now <= confirmed + CallTime
  BY <1>1, <1>2, Constants DEF IInv, Timed, TimedCall, HeardOK
<1>5. confirmed # None /\ now < confirmed + FailOpen + 2 * CallTime
  BY <1>1, <1>2, <1>4, Constants
<1>6. user' \in User /\ orphaned' \in BOOLEAN
  BY <1>1, <1>2, <1>3 DEF User, TypeOK
<1>7. \/ user'.checkedAt = user.checkedAt
      \/ user'.checkedAt = now /\ ConfirmedBy(now)
  BY <1>3, <1>4 DEF ConfirmedBy
<1>8. ASSUME ~orphaned'
      PROVE  /\ ~orphaned /\ user'.token \notin provider.spent
             /\ user'.token # None => user'.token \in Known
             /\ \A s \in Callbacks : Brings(s) => callback[s].new # user'.token
  <2>1. ~orphaned /\ check[c].new \in {check[c].token, user'.token}
    BY <1>3, <1>8
  <2>2. TokenUser /\ TokenCall(c) /\ \A s \in Callbacks : TokenCallback(s)
    BY <2>1 DEF IInv, TokensOK
  <2>3. check[c].new \in Known \ provider.spent
    BY <1>2, <2>2 DEF TokenCall
  <2>4. CASE user'.token = check[c].new
    BY <1>2, <2>1, <2>2, <2>3, <2>4 DEF TokenCallback
  <2>5. CASE user' = user /\ check[c].new = check[c].token
    <3>1. \A d \in Callers : HasNew(d) => d = c
      BY <1>2, OthersIdle DEF Busy, HasNew
    <3>2. user.token \notin provider.spent
      BY <2>2, <2>5, <3>1 DEF TokenUser
    <3> QED
      BY <2>1, <2>2, <2>5, <3>2 DEF TokenUser, TokenCallback
  <2> QED
    BY <1>3, <2>1, <2>4, <2>5
<1> QED
  BY <1>2, <1>3, <1>5, <1>6, <1>7, <1>8, Settles
-----------------------------------------------------------------------------
(* Steps of the call.                                                      *)

(* What a step of the call leaves in the record of the leader. *)
Went(c, pc, new, heard) ==
  /\ check' \in [Callers -> Check] /\ \A d \in Callers \ {c} : Kept(d)
  /\ check'[c].pc = pc /\ check'[c].new = new /\ check'[c].heard = heard
  /\ check'[c].token = check[c].token /\ check'[c].checkedAt = check[c].checkedAt
  /\ check'[c].at = check[c].at /\ check'[c].outrun = check[c].outrun

From(r, c) ==
  /\ r \in Check /\ r.token = check[c].token /\ r.checkedAt = check[c].checkedAt
  /\ r.at = check[c].at /\ r.outrun = check[c].outrun

LEMMA Goes ==
  ASSUME TypeOK, NEW c \in Callers, NEW r, Called(c, r), From(r, c)
  PROVE  Went(c, r.pc, r.new, r.heard)
BY CalledType DEF Went, From

LEMMA GoesOn ==
  ASSUME TypeOK, NEW c \in Callers,
         NEW pc \in {"calls", "asks", "stores", "rejected", "unavailable", "refused"},
         Called(c, [check[c] EXCEPT !.pc = pc])
  PROVE  Went(c, pc, check[c].new, check[c].heard)
<1> DEFINE r == [check[c] EXCEPT !.pc = pc]
<1>1. check[c] \in Check
  BY DEF TypeOK
<1>2. From(r, c) /\ r.pc = pc /\ r.new = check[c].new /\ r.heard = check[c].heard
  BY <1>1 DEF Check, From
<1>3. Called(c, r)
  OBVIOUS
<1> HIDE DEF r
<1> QED
  BY <1>2, <1>3, Goes

(* Times, when nothing new is heard, and when something is. *)
LEMMA Unheard ==
  ASSUME IInv, NEW c \in Callers, Calling(c), NEW pc \in {"calls", "asks", "rejected", "unavailable", "refused"},
         NEW new, Went(c, pc, new, check[c].heard), UNCHANGED << now, user, confirmed >>
  PROVE  TimedCall(c)'
BY DEF IInv, Timed, TimedCall, Calling, ConfirmedBy, HeardOK, Went

LEMMA Hearing ==
  ASSUME IInv, NEW c \in Callers, Calling(c), NEW new, Went(c, "stores", new, now),
         UNCHANGED << now, user >>, confirmed' = now
  PROVE  TimedCall(c)'
<1>1. /\ TimedCall(c) /\ now \in Nat /\ confirmed \in Nat \cup {None} /\ check[c] \in Check
      /\ confirmed # None => confirmed <= now
  BY DEF IInv, Timed, TimedUser, TypeOK
<1>2. check[c].checkedAt \in Nat \cup {None} /\ check[c].at \in Nat
  BY <1>1 DEF Check
<1>3. check[c].checkedAt # None => check[c].checkedAt <= now + CallTime
  BY <1>1, <1>2, Constants DEF TimedCall, ConfirmedBy
<1> QED
  BY <1>1, <1>2, <1>3, Constants DEF TimedCall, Calling, ConfirmedBy, HeardOK, Went

(* The leader has no new token any more, or never had one. *)
LEMMA Drops ==
  ASSUME IInv, NEW c \in Callers, Calling(c), NEW pc \in {"rejected", "unavailable", "refused"},
         NEW new, NEW heard, Went(c, pc, new, heard),
         UNCHANGED << user, provider, callback >>,
         ~orphaned' => ~orphaned /\ ~theft' /\ user.token \notin provider.spent
  PROVE  TokensOK'
<1> SUFFICES ASSUME ~orphaned'
             PROVE  ~theft' /\ TokenUser' /\ (\A d \in Callers : TokenCall(d)')
                    /\ (\A s \in Callbacks : TokenCallback(s)')
  BY DEF TokensOK
<1>1. /\ user.token \notin provider.spent
      /\ TokenUser /\ (\A d \in Callers : TokenCall(d)) /\ (\A s \in Callbacks : TokenCallback(s))
  BY DEF IInv, TokensOK
<1>2. \A d \in Callers : TokenCall(d)'
  BY <1>1 DEF TokenCall, HasNew, Calling, Known, Kept, Went
<1>3. ASSUME NEW s \in Callbacks PROVE TokenCallback(s)'
  BY <1>1 DEF TokenCallback, Brings, HasNew, Calling, Known, Kept, Went
<1> QED
  BY <1>1, <1>2, <1>3 DEF TokenUser, Known

LEMMA AnswerLostStep == ASSUME IInv, NEW c \in Callers, AnswerLost(c) PROVE IInv'
<1>1. /\ TypeOK /\ check[c].pc = "calls" /\ Calling(c) /\ Busy(c) /\ orphaned' = TRUE
      /\ Called(c, [check[c] EXCEPT !.pc = "unavailable"])
      /\ UNCHANGED << now, user, inflight, failedAt, signIn, flows, confirmed, overdue, theft >>
  BY DEF IInv, AnswerLost, Calling, Busy
<1>2. Went(c, "unavailable", check[c].new, check[c].heard)
  BY <1>1, GoesOn
<1>3. provider' \in Provider
  <2>1. check[c].token \in Tokens /\ provider \in Provider
    BY <1>1 DEF TypeOK, Provider, AnswerLost
  <2>2. PICK new \in Unused : provider' = Rotated(check[c].token, new)
    BY DEF AnswerLost
  <2> QED
    BY <2>1, <2>2 DEF Rotated, Unused, Provider
<1>4. TimedCall(c)'
  BY <1>1, <1>2, Unheard
<1> QED
  BY <1>1, <1>2, <1>3, <1>4, Proceeds DEF TokensOK, Went, TypeOK

LEMMA RejectsStep == ASSUME IInv, NEW c \in Callers, Rejects(c) PROVE IInv'
<1> DEFINE t == check[c].token
<1>1. /\ TypeOK /\ check[c].pc = "calls" /\ Calling(c) /\ Busy(c) /\ ~HasNew(c)
      /\ provider' = IF t \in provider.spent THEN [provider EXCEPT !.valid = {}] ELSE provider
      /\ theft' = (theft \/ t \in provider.spent)
      /\ Called(c, [check[c] EXCEPT !.pc = "rejected"])
      /\ UNCHANGED << now, user, inflight, failedAt, signIn, flows, confirmed, overdue, orphaned >>
  BY DEF IInv, Rejects, Calling, Busy, HasNew
<1>2. Went(c, "rejected", check[c].new, check[c].heard)
  BY <1>1, GoesOn
<1> HIDE DEF t
<1>3. provider' \in Provider /\ theft' \in BOOLEAN
  BY <1>1 DEF TypeOK, Provider
<1>4. TimedCall(c)'
  BY <1>1, <1>2, Unheard
<1>5. TokensOK'
  <2>1. CASE orphaned
    BY <1>1, <2>1 DEF TokensOK
  <2>2. CASE ~orphaned
    <3>1. t \notin provider.spent /\ ~theft /\ user.token \notin provider.spent
      BY <1>1, <2>2, NoneSpent DEF IInv, TokensOK, TokenCall, t
    <3> QED
      BY <1>1, <1>2, <3>1, Drops DEF signIn
  <2> QED
    BY <2>1, <2>2
<1> QED
  BY <1>1, <1>2, <1>3, <1>4, <1>5, Proceeds DEF Went, TypeOK

(* The leader has dropped no token that it had instead of the stored one.  *)
LEMMA NotLost ==
  ASSUME IInv, NEW c \in Callers, check[c].pc \in {"calls", "asks"}, ~orphaned, ~Lost(c)
  PROVE  ~theft /\ user.token \notin provider.spent
<1>1. Busy(c) /\ ~theft /\ TokenUser
  BY DEF IInv, TokensOK, Busy
<1>2. \A d \in Callers : HasNew(d) => d = c
  BY <1>1, OthersIdle DEF Busy, HasNew
<1> QED
  BY <1>1, <1>2 DEF TokenUser, HasNew, Lost

LEMMA NoVerdictStep == ASSUME IInv, NEW c \in Callers, NoVerdict(c) PROVE IInv'
<1>1. PICK verdict \in {"unavailable", "refused"} : Called(c, [check[c] EXCEPT !.pc = verdict])
  BY DEF NoVerdict
<1>2. /\ TypeOK /\ check[c].pc \in {"calls", "asks"} /\ Calling(c) /\ Busy(c)
      /\ orphaned' = (orphaned \/ Lost(c))
      /\ UNCHANGED << now, user, inflight, failedAt, signIn, provider, flows, confirmed, overdue, theft >>
  BY DEF IInv, NoVerdict, Calling, Busy
<1>3. Went(c, verdict, check[c].new, check[c].heard)
  BY <1>1, <1>2, GoesOn
<1>4. TimedCall(c)'
  BY <1>2, <1>3, Unheard
<1>5. TokensOK'
  BY <1>2, <1>3, NotLost, Drops DEF signIn
<1> QED
  BY <1>2, <1>3, <1>4, <1>5, Proceeds DEF Went, TypeOK, Lost

LEMMA UserinfoStep == ASSUME IInv, NEW c \in Callers, Userinfo(c) PROVE IInv'
<1>1. /\ TypeOK /\ check[c] \in Check /\ check[c].pc = "asks" /\ Calling(c) /\ Busy(c) /\ HasNew(c)
      /\ now \in Nat
      /\ UNCHANGED << now, user, inflight, failedAt, signIn, provider, flows, overdue, theft >>
  BY DEF IInv, TypeOK, Userinfo, Calling, Busy, HasNew
<1>2. CASE /\ Called(c, [check[c] EXCEPT !.pc = "stores", !.heard = now])
           /\ confirmed' = now /\ UNCHANGED orphaned
  <2> DEFINE r == [check[c] EXCEPT !.pc = "stores", !.heard = now]
  <2>1. From(r, c) /\ r.pc = "stores" /\ r.new = check[c].new /\ r.heard = now
    BY <1>1 DEF Check, From
  <2>2. Called(c, r)
    BY <1>2
  <2> HIDE DEF r
  <2>3. Went(c, "stores", check[c].new, now)
    BY <1>1, <2>1, <2>2, Goes
  <2>4. TimedCall(c)'
    BY <1>1, <1>2, <2>3, Hearing
  <2>5. TokensOK'
    <3> SUFFICES ASSUME ~orphaned'
                 PROVE  ~theft' /\ TokenUser' /\ (\A d \in Callers : TokenCall(d)')
                        /\ (\A s \in Callbacks : TokenCallback(s)')
      BY DEF TokensOK
    <3>1. /\ ~theft
          /\ TokenUser /\ (\A d \in Callers : TokenCall(d)) /\ (\A s \in Callbacks : TokenCallback(s))
      BY <1>2 DEF IInv, TokensOK
    <3>2. \A d \in Callers : HasNew(d)' = HasNew(d) /\ Calling(d)' = Calling(d)
                             /\ check'[d].token = check[d].token /\ check'[d].new = check[d].new
      BY <1>1, <2>3 DEF HasNew, Calling, Kept, Went
    <3>3. TokenUser'
      BY <1>1, <3>1, <3>2 DEF TokenUser, Known
    <3>4. ASSUME NEW d \in Callers PROVE TokenCall(d)'
      BY <1>1, <2>3, <3>1, <3>2 DEF TokenCall, Known, Kept, Went
    <3>5. ASSUME NEW s \in Callbacks PROVE TokenCallback(s)'
      BY <1>1, <3>1, <3>2 DEF TokenCallback, Brings, Known, signIn
    <3> QED
      BY <1>1, <3>1, <3>3, <3>4, <3>5
  <2> QED
    BY <1>1, <1>2, <2>3, <2>4, <2>5, Proceeds DEF Went, TypeOK
<1>3. CASE /\ Called(c, [check[c] EXCEPT !.pc = "rejected"])
           /\ orphaned' = (orphaned \/ Lost(c)) /\ UNCHANGED confirmed
  <2>1. Went(c, "rejected", check[c].new, check[c].heard)
    BY <1>1, <1>3, GoesOn
  <2>2. TimedCall(c)'
    BY <1>1, <1>3, <2>1, Unheard
  <2>3. TokensOK'
    BY <1>1, <1>3, <2>1, NotLost, Drops DEF signIn
  <2> QED
    BY <1>1, <1>3, <2>1, <2>2, <2>3, Proceeds DEF Went, TypeOK, Lost
<1> QED
  BY <1>2, <1>3 DEF Userinfo

LEMMA ConfirmsStep == ASSUME IInv, NEW c \in Callers, Confirms(c) PROVE IInv'
<1> DEFINE t == check[c].token
<1>1. /\ TypeOK /\ check[c] \in Check /\ check[c].pc = "calls" /\ Calling(c) /\ Busy(c) /\ ~HasNew(c)
      /\ t \in provider.valid /\ t \in Tokens /\ now \in Nat /\ provider \in Provider
      /\ UNCHANGED << now, user, inflight, failedAt, signIn, flows, overdue, orphaned, theft >>
  BY DEF IInv, TypeOK, Confirms, Calling, Busy, HasNew, Provider
<1>2. PICK new \in Rotations(t) :
        /\ provider' = Rotated(t, new)
        /\ \/ /\ Called(c, [check[c] EXCEPT !.pc = "stores", !.new = new, !.heard = now])
              /\ confirmed' = now
           \/ /\ Called(c, [check[c] EXCEPT !.pc = "asks", !.new = new])
              /\ UNCHANGED confirmed
  BY DEF Confirms
<1>3. new \in Tokens /\ (new = t \/ new \in Unused)
  BY <1>1, <1>2 DEF Rotations, Unused
<1>4. ASSUME Called(c, [check[c] EXCEPT !.pc = "stores", !.new = new, !.heard = now])
      PROVE  Went(c, "stores", new, now)
  <2> DEFINE r == [check[c] EXCEPT !.pc = "stores", !.new = new, !.heard = now]
  <2>1. From(r, c) /\ r.pc = "stores" /\ r.new = new /\ r.heard = now
    BY <1>1, <1>3 DEF Check, From
  <2>2. Called(c, r)
    BY <1>4
  <2> HIDE DEF r
  <2> QED
    BY <1>1, <2>1, <2>2, Goes
<1>5. ASSUME Called(c, [check[c] EXCEPT !.pc = "asks", !.new = new])
      PROVE  Went(c, "asks", new, check[c].heard)
  <2> DEFINE r == [check[c] EXCEPT !.pc = "asks", !.new = new]
  <2>1. From(r, c) /\ r.pc = "asks" /\ r.new = new /\ r.heard = check[c].heard
    BY <1>1, <1>3 DEF Check, From
  <2>2. Called(c, r)
    BY <1>5
  <2> HIDE DEF r
  <2> QED
    BY <1>1, <2>1, <2>2, Goes
<1>7. \/ Went(c, "stores", new, now) /\ confirmed' = now
      \/ Went(c, "asks", new, check[c].heard) /\ UNCHANGED confirmed
  BY <1>2, <1>4, <1>5
<1>8. TimedCall(c)'
  BY <1>1, <1>7, Hearing, Unheard
<1>9. /\ check' \in [Callers -> Check] /\ \A d \in Callers \ {c} : Kept(d)
      /\ HasNew(c)' /\ Calling(c)' /\ check'[c].pc # "calls"
      /\ check'[c].token = t /\ check'[c].new = new
  BY <1>7 DEF Went, HasNew, Calling
<1> HIDE DEF t
<1>10. /\ provider' \in Provider
       /\ provider'.spent = IF new = t THEN provider.spent ELSE provider.spent \cup {t}
       /\ Known' = Known \cup {new}
  <2>1. CASE new = t
    BY <1>1, <1>2, <2>1 DEF Rotated, Known
  <2>2. CASE new # t
    <3>1. provider' = [provider EXCEPT !.valid = (provider.valid \ {t}) \cup {new},
                                       !.spent = provider.spent \cup {t}]
      BY <1>2, <2>2 DEF Rotated
    <3>2. /\ provider'.valid = (provider.valid \ {t}) \cup {new}
          /\ provider'.spent = provider.spent \cup {t} /\ provider' \in Provider
      BY <1>1, <1>3, <3>1 DEF Provider
    <3> QED
      BY <1>1, <2>2, <3>2 DEF Known
  <2> QED
    BY <2>1, <2>2
<1>11. TokensOK'
  <2> SUFFICES ASSUME ~orphaned'
               PROVE  ~theft' /\ TokenUser' /\ (\A d \in Callers : TokenCall(d)')
                      /\ (\A s \in Callbacks : TokenCallback(s)')
    BY DEF TokensOK
  <2>1. /\ ~theft /\ user.token \notin provider.spent
        /\ TokenUser /\ TokenCall(c) /\ (\A s \in Callbacks : TokenCallback(s))
    BY <1>1, NoneSpent DEF IInv, TokensOK
  <2>2. t \in Known /\ t \notin provider.spent /\ (new = t \/ new \notin Known)
    BY <1>1, <1>3, <2>1 DEF TokenCall, Unused, Known, t
  <2>3. new \notin provider'.spent
    BY <1>10, <2>2 DEF Known
  <2>4. TokenUser'
    BY <1>1, <1>9, <1>10, <2>1 DEF TokenUser
  <2>5. \A d \in Callers \ {c} : ~Calling(d)' /\ ~HasNew(d)'
    BY <1>1, <1>9, OthersIdle DEF Calling, HasNew, Kept
  <2>6. ASSUME NEW d \in Callers PROVE TokenCall(d)'
    BY <1>9, <1>10, <2>2, <2>3, <2>5 DEF TokenCall
  <2>7. ASSUME NEW s \in Callbacks PROVE TokenCallback(s)'
    <3>1. Brings(s)' = Brings(s) /\ callback' = callback /\ user' = user
      BY <1>1 DEF Brings, signIn
    <3>2. ASSUME Brings(s)
          PROVE  /\ callback[s].new # t /\ callback[s].new # new
                 /\ callback[s].new \in Known' \ provider'.spent
      BY <1>1, <1>10, <2>1, <2>2, <3>2 DEF TokenCallback, t
    <3>3. \A r \in Callbacks : Brings(r)' = Brings(r)
      BY <1>1 DEF Brings, signIn
    <3> QED
      BY <1>9, <2>1, <2>5, <3>1, <3>2, <3>3 DEF TokenCallback
  <2> QED
    BY <1>1, <2>1, <2>4, <2>6, <2>7
<1> QED
  BY <1>1, <1>7, <1>8, <1>9, <1>10, <1>11, Proceeds DEF TypeOK
-----------------------------------------------------------------------------
(* Sign-ins.                                                               *)

Waits(s) == callback'[s] = callback[s]

LEMMA HearsType ==
  ASSUME TypeOK, NEW s \in Callbacks, NEW r \in Callback, Hears(s, r)
  PROVE  /\ callback' \in [Callbacks -> Callback] /\ callback'[s] = r
         /\ \A q \in Callbacks \ {s} : Waits(q)
BY DEF TypeOK, Hears, Waits

(* A callback that has no token, before or after, goes on. *)
LEMMA Empty ==
  ASSUME IInv, NEW s \in Callbacks, callback' \in [Callbacks -> Callback],
         \A q \in Callbacks \ {s} : Waits(q), ~Brings(s)', callback'[s].pc # "upserts",
         callback'[s].heard = None \/ callback'[s].heard = callback[s].heard,
         state' \in {"set", "null"}, FlowsOK',
         UNCHANGED << now, user, check, inflight, failedAt, provider, flows, confirmed, overdue, orphaned, theft >>
  PROVE  IInv'
<1>1. TypeOK'
  BY DEF IInv, TypeOK
<1>2. Led' /\ TimedUser' /\ LetThroughInTime' /\ \A c \in Callers : TimedCall(c)'
  BY DEF IInv, Led, Busy, Timed, TimedUser, TimedCall, Calling, ConfirmedBy, HeardOK, LetThroughInTime
<1>3. \A q \in Callbacks : TimedCallback(q)'
  BY DEF IInv, Timed, TimedCallback, HeardOK, Waits
<1>4. TokensOK'
  <2> SUFFICES ASSUME ~orphaned'
               PROVE  ~theft' /\ TokenUser' /\ (\A d \in Callers : TokenCall(d)')
                      /\ (\A q \in Callbacks : TokenCallback(q)')
    BY DEF TokensOK
  <2>1. ~theft /\ TokenUser /\ (\A d \in Callers : TokenCall(d)) /\ (\A q \in Callbacks : TokenCallback(q))
    BY DEF IInv, TokensOK
  <2>2. TokenUser' /\ \A d \in Callers : TokenCall(d)'
    BY <2>1 DEF TokenUser, TokenCall, Known, HasNew, Calling
  <2>3. ASSUME NEW q \in Callbacks PROVE TokenCallback(q)'
    <3>1. \A r \in Callbacks : Brings(r)' => Brings(r) /\ callback'[r] = callback[r]
      BY DEF Brings, Waits
    <3> QED
      BY <2>1, <3>1 DEF TokenCallback, Known, HasNew, Calling
  <2> QED
    BY <2>1, <2>2, <2>3
<1> QED
  BY <1>1, <1>2, <1>3, <1>4 DEF IInv, Timed

LEMMA FindFlowStep == ASSUME IInv, NEW s \in Callbacks, FindFlow(s) PROVE IInv'
<1> DEFINE new == [NoCallback EXCEPT !.pc = "consumes"]
<1>1. new \in Callback /\ new.pc = "consumes" /\ new.heard = None
  BY DEF NoCallback, Callback
<1>2. /\ TypeOK /\ callback[s].pc = "idle" /\ Hears(s, new)
      /\ UNCHANGED << now, user, check, inflight, failedAt, state, provider, history >>
  BY DEF IInv, FindFlow
<1> HIDE DEF new
<1>3. /\ callback' \in [Callbacks -> Callback] /\ callback'[s] = new
      /\ \A q \in Callbacks \ {s} : Waits(q)
  BY <1>1, <1>2, HearsType
<1>4. Exchanging' = Exchanging
  BY <1>1, <1>2, <1>3 DEF Exchanging, Waits
<1>5. FlowsOK'
  BY <1>2, <1>4 DEF IInv, FlowsOK, history
<1> QED
  BY <1>1, <1>2, <1>3, <1>5, Empty DEF TypeOK, Brings, history

LEMMA ConsumeStateStep == ASSUME IInv, NEW s \in Callbacks, ConsumeState(s) PROVE IInv'
<1>1. /\ TypeOK /\ callback[s].pc = "consumes"
      /\ callback[s] \in Callback
      /\ UNCHANGED << now, user, check, inflight, failedAt, provider, history >>
  BY DEF IInv, TypeOK, ConsumeState
<1>2. CASE state = "set"
  <2> DEFINE new == [callback[s] EXCEPT !.pc = "exchanges"]
  <2>1. new \in Callback /\ new.pc = "exchanges" /\ new.heard = callback[s].heard
    BY <1>1 DEF Callback
  <2>2. Hears(s, new) /\ state' = "null"
    BY <1>2 DEF ConsumeState, StateIsSet
  <2> HIDE DEF new
  <2>3. /\ callback' \in [Callbacks -> Callback] /\ callback'[s] = new
        /\ \A q \in Callbacks \ {s} : Waits(q)
    BY <1>1, <2>1, <2>2, HearsType
  <2>4. Exchanging' = Exchanging \cup {s} /\ s \notin Exchanging
    BY <1>1, <2>1, <2>3 DEF Exchanging, Waits
  <2>5. IsFiniteSet(Exchanging)
        /\ flows.exchanged + Cardinality(Exchanging) + 1 <= flows.begun
    BY <1>2 DEF IInv, FlowsOK
  <2>6. IsFiniteSet(Exchanging') /\ Cardinality(Exchanging') = Cardinality(Exchanging) + 1
        /\ Cardinality(Exchanging) \in Nat
    BY <2>4, <2>5, FS_AddElement, FS_CardinalityType
  <2>7. flows.exchanged \in Nat /\ flows.begun \in Nat /\ flows' = flows
    BY <1>1 DEF TypeOK, history
  <2>8. FlowsOK'
    BY <2>2, <2>5, <2>6, <2>7 DEF FlowsOK
  <2> QED
    BY <1>1, <2>1, <2>2, <2>3, <2>8, Empty DEF Brings, history
<1>3. CASE state # "set"
  <2>1. Hears(s, NoCallback) /\ UNCHANGED state
    BY <1>3 DEF ConsumeState, StateIsSet
  <2>2. /\ callback' \in [Callbacks -> Callback] /\ callback'[s] = NoCallback
        /\ \A q \in Callbacks \ {s} : Waits(q)
    BY <1>1, <2>1, IdleType, HearsType
  <2>3. Exchanging' = Exchanging
    BY <1>1, <2>2, IdleType DEF Exchanging, Waits
  <2>4. FlowsOK'
    BY <1>1, <2>1, <2>3 DEF IInv, FlowsOK, history
  <2> QED
    BY <1>1, <2>1, <2>2, <2>4, IdleType, Empty DEF Brings, history, TypeOK
<1> QED
  BY <1>2, <1>3

(* A code that is exchanged, or fails to be. *)
LEMMA LessExchanging ==
  ASSUME IInv, NEW s \in Callbacks, callback[s].pc = "exchanges",
         callback'[s].pc # "exchanges", \A q \in Callbacks \ {s} : Waits(q)
  PROVE  /\ IsFiniteSet(Exchanging') /\ Cardinality(Exchanging) \in Nat /\ Cardinality(Exchanging') \in Nat
         /\ Cardinality(Exchanging') = Cardinality(Exchanging) - 1
<1>1. Exchanging' = Exchanging \ {s} /\ s \in Exchanging
  BY DEF Exchanging, Waits
<1>2. IsFiniteSet(Exchanging)
  BY DEF IInv, FlowsOK
<1> QED
  BY <1>1, <1>2, FS_RemoveElement, FS_CardinalityType

LEMMA ExchangeFailsStep == ASSUME IInv, NEW s \in Callbacks, ExchangeFails(s) PROVE IInv'
<1>1. /\ TypeOK /\ callback[s].pc = "exchanges" /\ Hears(s, NoCallback)
      /\ UNCHANGED << now, user, check, inflight, failedAt, state, provider, history >>
  BY DEF IInv, ExchangeFails
<1>2. /\ callback' \in [Callbacks -> Callback] /\ callback'[s] = NoCallback
      /\ \A q \in Callbacks \ {s} : Waits(q)
  BY <1>1, IdleType, HearsType
<1>3. /\ IsFiniteSet(Exchanging') /\ Cardinality(Exchanging) \in Nat /\ Cardinality(Exchanging') \in Nat
      /\ Cardinality(Exchanging') = Cardinality(Exchanging) - 1
  BY <1>1, <1>2, IdleType, LessExchanging
<1>4. flows.exchanged \in Nat /\ flows.begun \in Nat /\ flows' = flows
  BY <1>1 DEF TypeOK, history
<1>5. FlowsOK'
  BY <1>1, <1>3, <1>4 DEF IInv, FlowsOK
<1> QED
  BY <1>1, <1>2, <1>5, IdleType, Empty DEF Brings, history, TypeOK

LEMMA ExchangeStep == ASSUME IInv, NEW s \in Callbacks, Exchange(s) PROVE IInv'
<1>1. /\ TypeOK /\ callback[s].pc = "exchanges" /\ now \in Nat /\ provider \in Provider
      /\ confirmed \in Nat \cup {None} /\ confirmed' = now
      /\ flows' = [flows EXCEPT !.exchanged = @ + 1]
      /\ UNCHANGED << now, user, check, inflight, failedAt, state, overdue, orphaned, theft >>
  BY DEF IInv, TypeOK, Exchange
<1>2. PICK new \in Unused \cup {None} :
        /\ provider' = IF new = None THEN provider
                       ELSE [provider EXCEPT !.valid = provider.valid \cup {new}]
        /\ Hears(s, [pc |-> "upserts", new |-> new, heard |-> now])
  BY DEF Exchange
<1>3. new \in Tokens \cup {None} /\ (new = None \/ new \notin Known)
  BY <1>2 DEF Unused, Known
<1> DEFINE r == [pc |-> "upserts", new |-> new, heard |-> now]
<1>4. r \in Callback /\ r.pc = "upserts" /\ r.new = new /\ r.heard = now
  BY <1>1, <1>3 DEF Callback
<1>5. Hears(s, r)
  BY <1>2
<1> HIDE DEF r
<1>6. /\ callback' \in [Callbacks -> Callback] /\ callback'[s].pc = "upserts"
      /\ callback'[s].new = new /\ callback'[s].heard = now
      /\ \A q \in Callbacks \ {s} : Waits(q)
  BY <1>1, <1>4, <1>5, HearsType
<1>7. /\ provider' \in Provider /\ provider'.spent = provider.spent
      /\ Known' = Known \cup (IF new = None THEN {} ELSE {new})
  <2>1. CASE new = None
    BY <1>1, <1>2, <2>1 DEF Known
  <2>2. CASE new # None
    <3>1. provider' = [provider EXCEPT !.valid = provider.valid \cup {new}]
      BY <1>2, <2>2
    <3>2. /\ provider' \in Provider /\ provider'.spent = provider.spent
          /\ provider'.valid = provider.valid \cup {new}
      BY <1>1, <1>3, <2>2, <3>1 DEF Provider
    <3> QED
      BY <2>2, <3>2 DEF Known
  <2> QED
    BY <2>1, <2>2
<1>8. /\ flows' \in [begun : Nat, exchanged : Nat] /\ flows'.begun = flows.begun
      /\ flows'.exchanged = flows.exchanged + 1 /\ flows.exchanged \in Nat /\ flows.begun \in Nat
  BY <1>1 DEF TypeOK
<1>9. TypeOK'
  BY <1>1, <1>6, <1>7, <1>8 DEF TypeOK
<1>10. Led'
  BY <1>1 DEF IInv, Led, Busy
<1>11. confirmed # None => confirmed <= now /\ confirmed \in Nat
  BY <1>1 DEF IInv, Timed, TimedUser
<1>12. TimedUser'
  <2>1. TimedUser /\ user.checkedAt \in Nat \cup {None}
    BY <1>1 DEF IInv, Timed, TypeOK, User
  <2> QED
    BY <1>1, <1>11, <2>1, Constants DEF TimedUser, ConfirmedBy
<1>13. ASSUME NEW c \in Callers PROVE TimedCall(c)'
  <2>1. TimedCall(c) /\ check[c].checkedAt \in Nat \cup {None} /\ check[c].heard \in Nat \cup {None}
    BY <1>1 DEF IInv, Timed, TypeOK, Check
  <2> QED
    BY <1>1, <1>11, <2>1, Constants DEF TimedCall, Calling, ConfirmedBy, HeardOK
<1>14. ASSUME NEW q \in Callbacks PROVE TimedCallback(q)'
  <2>1. TimedCallback(q) /\ callback[q].heard \in Nat \cup {None}
    BY <1>1 DEF IInv, Timed, TypeOK, Callback
  <2>2. CASE q = s
    BY <1>1, <1>6, <2>2, Constants DEF TimedCallback, HeardOK
  <2>3. CASE q # s
    BY <1>1, <1>6, <1>11, <2>1, <2>3, Constants DEF TimedCallback, HeardOK, Waits
  <2> QED
    BY <2>2, <2>3
<1>15. LetThroughInTime'
  BY <1>1 DEF IInv, Timed, LetThroughInTime
<1>16. TokensOK'
  <2> SUFFICES ASSUME ~orphaned'
               PROVE  ~theft' /\ TokenUser' /\ (\A d \in Callers : TokenCall(d)')
                      /\ (\A q \in Callbacks : TokenCallback(q)')
    BY DEF TokensOK
  <2>1. ~theft /\ TokenUser /\ (\A d \in Callers : TokenCall(d)) /\ (\A q \in Callbacks : TokenCallback(q))
    BY <1>1 DEF IInv, TokensOK
  <2>2. TokenUser' /\ \A d \in Callers : TokenCall(d)'
    BY <1>1, <1>7, <2>1 DEF TokenUser, TokenCall, HasNew, Calling
  <2>3. \A d \in Callers : HasNew(d)' = HasNew(d) /\ Calling(d)' = Calling(d) /\ check'[d] = check[d]
    BY <1>1 DEF HasNew, Calling
  <2>4. \A q \in Callbacks \ {s} : Brings(q)' = Brings(q) /\ callback'[q] = callback[q]
    BY <1>6 DEF Brings, Waits
  <2>5. ASSUME NEW q \in Callbacks PROVE TokenCallback(q)'
    <3>1. CASE q = s
      <4> SUFFICES ASSUME Brings(s)' PROVE TokenCallback(s)'
        BY <3>1 DEF TokenCallback
      <4>1. new # None /\ new \notin Known /\ callback'[s].new = new
        BY <1>3, <1>6 DEF Brings
      <4>2. new \in Known' \ provider'.spent /\ new # user'.token
        BY <1>1, <1>7, <2>1, <4>1 DEF TokenUser, Known
      <4>3. \A c \in Callers : Calling(c)' => new # check'[c].token /\ (HasNew(c)' => new # check'[c].new)
        BY <2>1, <2>3, <4>1 DEF TokenCall
      <4>4. \A t \in Callbacks \ {s} : Brings(t)' => callback'[t].new # new
        BY <2>1, <2>4, <4>1 DEF TokenCallback
      <4> QED
        BY <4>1, <4>2, <4>3, <4>4 DEF TokenCallback
    <3>2. CASE q # s
      <4> SUFFICES ASSUME Brings(q)' PROVE TokenCallback(q)'
        BY DEF TokenCallback
      <4>1. Brings(q) /\ callback'[q] = callback[q] /\ TokenCallback(q)
        BY <2>1, <2>4, <3>2
      <4>2. Brings(s)' => callback'[s].new # callback[q].new
        BY <1>3, <1>6, <4>1 DEF Brings, TokenCallback
      <4> QED
        BY <1>1, <1>7, <2>3, <2>4, <4>1, <4>2 DEF TokenCallback
    <3> QED
      BY <3>1, <3>2
  <2> QED
    BY <1>1, <2>1, <2>2, <2>5
<1>17. FlowsOK'
  <2>1. /\ IsFiniteSet(Exchanging') /\ Cardinality(Exchanging) \in Nat /\ Cardinality(Exchanging') \in Nat
        /\ Cardinality(Exchanging') = Cardinality(Exchanging) - 1
    BY <1>1, <1>6, LessExchanging
  <2> QED
    BY <1>1, <1>8, <2>1 DEF IInv, FlowsOK
<1> QED
  BY <1>9, <1>10, <1>12, <1>13, <1>14, <1>15, <1>16, <1>17 DEF IInv, Timed
LEMMA UpsertStep == ASSUME IInv, NEW s \in Callbacks, Upsert(s) PROVE IInv'
<1> DEFINE new == callback[s].new
           marked(c) == [check[c] EXCEPT !.outrun = TRUE]
<1>1. /\ TypeOK /\ now \in Nat /\ callback[s] \in Callback /\ callback[s].pc = "upserts"
      /\ user \in User /\ confirmed \in Nat \cup {None}
      /\ user' = [token |-> IF new = None THEN user.token ELSE new, checkedAt |-> now]
      /\ check' = [c \in Callers |-> IF ~Calling(c) THEN check[c] ELSE marked(c)]
      /\ Hears(s, NoCallback)
      /\ UNCHANGED << now, inflight, failedAt, state, provider, history >>
  BY DEF IInv, TypeOK, Upsert, Calling
<1>2. new \in Tokens \cup {None} /\ callback[s].heard \in Nat \cup {None}
  BY <1>1 DEF Callback
<1>3. /\ user' \in User /\ user'.checkedAt = now
      /\ user'.token = IF new = None THEN user.token ELSE new
  BY <1>1, <1>2 DEF User
<1>4. /\ callback' \in [Callbacks -> Callback] /\ callback'[s] = NoCallback
      /\ \A q \in Callbacks \ {s} : Waits(q)
  BY <1>1, IdleType, HearsType
<1>5. \A c \in Callers : /\ marked(c) \in Check /\ marked(c).pc = check[c].pc
                         /\ marked(c).token = check[c].token /\ marked(c).new = check[c].new
                         /\ marked(c).checkedAt = check[c].checkedAt
                         /\ marked(c).at = check[c].at /\ marked(c).heard = check[c].heard
  BY <1>1 DEF TypeOK, Check
<1> HIDE DEF new, marked
<1>6. /\ check' \in [Callers -> Check]
      /\ \A c \in Callers : /\ check'[c].pc = check[c].pc
                            /\ check'[c].token = check[c].token /\ check'[c].new = check[c].new
                            /\ check'[c].checkedAt = check[c].checkedAt
                            /\ check'[c].at = check[c].at /\ check'[c].heard = check[c].heard
                            /\ ~Calling(c) => check'[c] = check[c]
  BY <1>1, <1>5 DEF TypeOK
<1>7. TypeOK'
  BY <1>1, <1>3, <1>4, <1>6 DEF TypeOK, history
<1>8. Led'
  BY <1>1, <1>6 DEF IInv, Led, Busy
<1>9. confirmed # None /\ now <= confirmed + CallTime /\ confirmed <= now
  BY <1>1, <1>2, Constants DEF IInv, Timed, TimedUser, TimedCallback, HeardOK
<1>10. TimedUser'
  BY <1>1, <1>3, <1>9 DEF TimedUser, ConfirmedBy, history
<1>11. ASSUME NEW c \in Callers PROVE TimedCall(c)'
  <2>1. TimedCall(c) /\ check[c].checkedAt \in Nat \cup {None}
    BY <1>1 DEF IInv, Timed, TypeOK, Check
  <2>2. CASE Calling(c)
    <3>1. check[c].checkedAt # None => check[c].checkedAt < now
      BY <1>1, <2>1, <2>2, Constants DEF TimedCall
    <3> QED
      BY <1>1, <1>3, <1>6, <2>1, <2>2, <3>1, Constants DEF TimedCall, Calling, ConfirmedBy, HeardOK, history
  <2>3. CASE ~Calling(c)
    BY <1>1, <1>6, <2>1, <2>3 DEF TimedCall, Calling, history
  <2> QED
    BY <2>2, <2>3
<1>12. \A q \in Callbacks : TimedCallback(q)'
  BY <1>1, <1>4, IdleType DEF IInv, Timed, TimedCallback, HeardOK, Waits, history
<1>13. LetThroughInTime' /\ FlowsOK'
  <2>1. Exchanging' = Exchanging
    BY <1>1, <1>4, IdleType DEF Exchanging, Waits
  <2> QED
    BY <1>1, <2>1 DEF IInv, Timed, LetThroughInTime, FlowsOK, history
<1>14. TokensOK'
  <2> SUFFICES ASSUME ~orphaned'
               PROVE  ~theft' /\ TokenUser' /\ (\A d \in Callers : TokenCall(d)')
                      /\ (\A q \in Callbacks : TokenCallback(q)')
    BY DEF TokensOK
  <2>1. ~theft /\ TokenUser /\ (\A d \in Callers : TokenCall(d)) /\ (\A q \in Callbacks : TokenCallback(q))
    BY <1>1 DEF IInv, TokensOK, history
  <2>2. \A d \in Callers : HasNew(d)' = HasNew(d) /\ Calling(d)' = Calling(d)
    BY <1>6 DEF HasNew, Calling
  <2>3. \A q \in Callbacks : Brings(q)' => q # s /\ Brings(q) /\ callback'[q] = callback[q]
    BY <1>4, IdleType DEF Brings, Waits
  <2>4. new # None => Brings(s) /\ new \in Known \ provider.spent
    BY <1>1, <2>1 DEF Brings, TokenCallback, new
  <2>5. TokenUser'
    <3>1. CASE new = None
      BY <1>1, <1>3, <1>6, <2>1, <2>2, <3>1 DEF TokenUser, Known
    <3>2. CASE new # None
      BY <1>1, <1>3, <2>4, <3>2 DEF TokenUser, Known
    <3> QED
      BY <3>1, <3>2
  <2>6. \A d \in Callers : TokenCall(d)'
    BY <1>1, <1>6, <2>1, <2>2 DEF TokenCall, Known
  <2>7. ASSUME NEW q \in Callbacks PROVE TokenCallback(q)'
    <3> SUFFICES ASSUME Brings(q)' PROVE TokenCallback(q)'
      BY DEF TokenCallback
    <3>1. q # s /\ Brings(q) /\ callback'[q] = callback[q] /\ TokenCallback(q)
      BY <2>1, <2>3
    <3>2. callback[q].new # user'.token
      BY <1>3, <2>4, <3>1 DEF TokenCallback, new
    <3> QED
      BY <1>1, <1>6, <2>2, <2>3, <3>1, <3>2 DEF TokenCallback, Known
  <2> QED
    BY <1>1, <2>1, <2>5, <2>6, <2>7 DEF history
<1> QED
  BY <1>7, <1>8, <1>10, <1>11, <1>12, <1>13, <1>14 DEF IInv, Timed

-----------------------------------------------------------------------------
(* Steps of the others.                                                    *)

LEMMA BeginFlowStep == ASSUME IInv, BeginFlow PROVE IInv'
<1>1. /\ TypeOK /\ flows' = [flows EXCEPT !.begun = @ + 1] /\ state' = "set"
      /\ UNCHANGED << now, user, check, inflight, failedAt, callback, provider, confirmed, overdue, orphaned, theft >>
  BY DEF IInv, BeginFlow
<1>2. /\ flows' \in [begun : Nat, exchanged : Nat] /\ flows'.begun = flows.begun + 1
      /\ flows'.exchanged = flows.exchanged /\ flows.exchanged \in Nat /\ flows.begun \in Nat
  BY <1>1 DEF TypeOK
<1>3. TypeOK' /\ Led'
  BY <1>1, <1>2 DEF TypeOK, IInv, Led, Busy
<1>4. Timed'
  BY <1>1 DEF IInv, Timed, TimedUser, TimedCall, TimedCallback, Calling, ConfirmedBy, HeardOK, LetThroughInTime
<1>5. TokensOK'
  BY <1>1 DEF IInv, TokensOK, TokenUser, TokenCall, TokenCallback, Brings, Known, HasNew, Calling
<1>6. FlowsOK'
  <2>1. Exchanging' = Exchanging /\ IsFiniteSet(Exchanging)
    BY <1>1 DEF IInv, FlowsOK, Exchanging
  <2>2. Cardinality(Exchanging) \in Nat
    BY <2>1, FS_CardinalityType
  <2> QED
    BY <1>1, <1>2, <2>1, <2>2 DEF IInv, FlowsOK
<1> QED
  BY <1>3, <1>4, <1>5, <1>6 DEF IInv

LEMMA SetEnabledStep == ASSUME IInv, SetEnabled PROVE IInv'
<1>1. /\ TypeOK /\ provider \in Provider /\ provider' = [provider EXCEPT !.enabled = ~@]
      /\ UNCHANGED << now, user, check, inflight, failedAt, signIn, history >>
  BY DEF IInv, TypeOK, SetEnabled
<1>2. provider' \in Provider /\ provider'.valid = provider.valid /\ provider'.spent = provider.spent
  BY <1>1 DEF Provider
<1>3. TypeOK' /\ Led' /\ FlowsOK'
  BY <1>1, <1>2 DEF TypeOK, IInv, Led, Busy, FlowsOK, Exchanging, signIn, history
<1>4. Timed'
  BY <1>1 DEF IInv, Timed, TimedUser, TimedCall, TimedCallback, Calling, ConfirmedBy, HeardOK,
     LetThroughInTime, signIn, history
<1>5. TokensOK'
  BY <1>1, <1>2 DEF IInv, TokensOK, TokenUser, TokenCall, TokenCallback, Brings, Known, HasNew, Calling, signIn, history
<1> QED
  BY <1>3, <1>4, <1>5 DEF IInv

LEMMA TickStep == ASSUME IInv, Tick PROVE IInv'
<1>1. /\ TypeOK /\ now \in Nat /\ now' = now + 1 /\ now' \in Nat
      /\ failedAt' \in {failedAt, None}
      /\ \A c \in Callers : Calling(c) => now < check[c].at + CallTime
      /\ \A s \in Callbacks : callback[s].heard # None => now < callback[s].heard + CallTime
      /\ UNCHANGED << user, check, inflight, signIn, provider, history >>
  BY DEF IInv, TypeOK, Tick, Passed
<1>2. TypeOK' /\ Led' /\ FlowsOK'
  BY <1>1 DEF TypeOK, IInv, Led, Busy, FlowsOK, Exchanging, signIn, history
<1>3. TimedUser' /\ LetThroughInTime'
  <2>1. TimedUser /\ user.checkedAt \in Nat \cup {None} /\ confirmed \in Nat \cup {None}
    BY <1>1 DEF IInv, Timed, TypeOK, User
  <2> QED
    BY <1>1, <2>1 DEF IInv, Timed, TimedUser, ConfirmedBy, LetThroughInTime, history
<1>4. ASSUME NEW c \in Callers PROVE TimedCall(c)'
  <2>1. /\ TimedCall(c) /\ check[c].checkedAt \in Nat \cup {None} /\ check[c].at \in Nat
        /\ check[c].heard \in Nat \cup {None}
    BY <1>1 DEF IInv, Timed, TypeOK, Check
  <2> QED
    BY <1>1, <2>1, Constants DEF TimedCall, Calling, ConfirmedBy, HeardOK, history
<1>5. ASSUME NEW s \in Callbacks PROVE TimedCallback(s)'
  <2>1. TimedCallback(s) /\ callback[s].heard \in Nat \cup {None}
    BY <1>1 DEF IInv, Timed, TypeOK, Callback
  <2> QED
    BY <1>1, <2>1, Constants DEF TimedCallback, HeardOK, signIn, history
<1>6. TokensOK'
  BY <1>1 DEF IInv, TokensOK, TokenUser, TokenCall, TokenCallback, Brings, Known, HasNew, Calling, signIn, history
<1> QED
  BY <1>2, <1>3, <1>4, <1>5, <1>6 DEF IInv, Timed

-----------------------------------------------------------------------------
LEMMA Initially == Init => IInv
<1> SUFFICES ASSUME Init PROVE IInv
  OBVIOUS
<1>1. /\ check \in [Callers -> Check]
      /\ \A c \in Callers : check[c].pc = "idle" /\ check[c].at = 0 /\ ~check[c].outrun
      /\ callback \in [Callbacks -> Callback]
      /\ \A s \in Callbacks : callback[s].pc = "idle" /\ callback[s].heard = None
  BY IdleType DEF Init
<1>2. TypeOK
  BY <1>1 DEF Init, TypeOK, User, Provider
<1>3. Led /\ Timed
  BY <1>1, Constants, IdleType DEF Init, Led, Busy, Timed, TimedUser, TimedCall, TimedCallback, Calling,
     ConfirmedBy, HeardOK, LetThroughInTime
<1>4. TokensOK
  BY <1>1 DEF Init, TokensOK, TokenUser, TokenCall, TokenCallback, Brings, Calling
<1>5. FlowsOK
  <2>1. Exchanging = {}
    BY <1>1 DEF Exchanging
  <2>2. IsFiniteSet(Exchanging) /\ Cardinality(Exchanging) = 0
    BY <2>1, FS_EmptySet
  <2> QED
    BY <2>2 DEF Init, FlowsOK
<1> QED
  BY <1>2, <1>3, <1>4, <1>5 DEF IInv

LEMMA Stuttering == IInv /\ UNCHANGED vars => IInv'
<1> SUFFICES ASSUME IInv, UNCHANGED vars PROVE IInv'
  OBVIOUS
<1>1. /\ UNCHANGED << now, user, check, inflight, failedAt, state, callback, provider >>
      /\ UNCHANGED << flows, confirmed, overdue, orphaned, theft >>
  BY DEF vars, signIn, history
<1>2. TypeOK' /\ Led' /\ FlowsOK'
  BY <1>1 DEF TypeOK, IInv, Led, Busy, FlowsOK, Exchanging
<1>3. Timed'
  BY <1>1 DEF IInv, Timed, TimedUser, TimedCall, TimedCallback, Calling, ConfirmedBy, HeardOK, LetThroughInTime
<1>4. TokensOK'
  BY <1>1 DEF IInv, TokensOK, TokenUser, TokenCall, TokenCallback, Brings, Known, HasNew, Calling
<1> QED
  BY <1>2, <1>3, <1>4 DEF IInv

LEMMA Inductive == IInv /\ [Next]_vars => IInv'
<1> SUFFICES ASSUME IInv, [Next]_vars PROVE IInv'
  OBVIOUS
<1>1. CASE UNCHANGED vars
  BY <1>1, Stuttering
<1>2. ASSUME NEW c \in Callers, Recheck(c) PROVE IInv'
  BY <1>2, AskStep, ReadRecentStep, ReadNoTokenStep, ReadBackingOffStep, ReadTokenStep,
     ConfirmsStep, AnswerLostStep, RejectsStep, NoVerdictStep, UserinfoStep,
     RejectStep, UnavailableStep, RefuseStep, StoreStep DEF Recheck
<1>3. ASSUME NEW s \in Callbacks, SignIn(s) PROVE IInv'
  BY <1>3, FindFlowStep, ConsumeStateStep, ExchangeStep, ExchangeFailsStep, UpsertStep DEF SignIn
<1>4. CASE BeginFlow \/ SetEnabled \/ Tick
  BY <1>4, BeginFlowStep, SetEnabledStep, TickStep
<1> QED
  BY <1>1, <1>2, <1>3, <1>4 DEF Next

(* What is kept of the user, of each check and of each sign-in is of its   *)
(* type (upstream-refresh.ts, oidc.ts). *)
THEOREM TypeCorrect == Spec => []TypeOK
<1>1. IInv => TypeOK
  BY DEF IInv
<1> QED
  BY <1>1, Initially, Inductive, PTL DEF Spec

(* Whoever is let through, having called the provider or shared the call   *)
(* of another, began within the window after the provider's last word, but *)
(* for the time of two calls; whatever fails (upstream-refresh.ts:13-15).  *)
THEOREM NobodyOverdue == Spec => []LetThroughInTime
<1>1. IInv => LetThroughInTime
  BY DEF IInv, Timed
<1> QED
  BY <1>1, Initially, Inductive, PTL DEF Spec

(* No spent token is used before an answer, or a rotated token, was lost   *)
(* (upstream-refresh.ts:19-22). *)
THEOREM TokensOnce == Spec => []NoTokenTwice
<1>1. IInv => NoTokenTwice
  BY DEF IInv, TypeOK, TokensOK, NoTokenTwice
<1> QED
  BY <1>1, Initially, Inductive, PTL DEF Spec

(* No sign-in exchanges two codes, however often its callback is replayed  *)
(* (oidc.ts:171-178). *)
THEOREM CodesOnce == Spec => []ExchangedOnce
<1>1. IInv => ExchangedOnce
  <2> SUFFICES ASSUME IInv PROVE ExchangedOnce
    OBVIOUS
  <2>1. Cardinality(Exchanging) \in Nat /\ flows.exchanged \in Nat /\ flows.begun \in Nat
    BY FS_CardinalityType DEF IInv, FlowsOK, TypeOK
  <2> QED
    BY <2>1 DEF IInv, FlowsOK, ExchangedOnce
<1> QED
  BY <1>1, Initially, Inductive, PTL DEF Spec

Leaves(c) == check[c].outrun /\ check'[c] = Idle

(* Who is outrun is past the read, and has not the row as it is. *)
LEMMA OutrunPast ==
  ASSUME IInv, NEW c \in Callers, check[c].outrun
  PROVE  Calling(c) /\ Busy(c) /\ inflight = c /\ ~Unchanged(c)
<1>1. TimedCall(c) /\ check[c] \in Check /\ user \in User
  BY DEF IInv, Timed, TypeOK
<1>2. Calling(c) /\ Busy(c)
  BY <1>1 DEF TimedCall, Calling, Busy
<1>3. check[c].checkedAt \in Nat \cup {None} /\ user.checkedAt \in Nat \cup {None}
  BY <1>1 DEF Check, User
<1>4. check[c].checkedAt # user.checkedAt
  BY <1>1, <1>3 DEF TimedCall
<1> QED
  BY <1>2, <1>4 DEF IInv, Led, Unchanged

LEMMA WinsStep ==
  ASSUME IInv, [Next]_vars, NEW c \in Callers, Leaves(c)
  PROVE  user' = user
<1>1. Calling(c) /\ inflight = c /\ ~Unchanged(c) /\ check[c] # Idle
  BY OutrunPast, IdleType DEF Leaves
<1>2. ASSUME NEW d \in Callers, Reject(d) \/ Store(d) PROVE user' = user
  <2>1. Busy(d)
    BY <1>2 DEF Reject, Store, Busy
  <2>2. d = c
    BY <1>1, <2>1 DEF IInv, Led
  <2> QED
    BY <1>1, <1>2, <2>2 DEF Reject, Store
<1>3. ASSUME NEW s \in Callbacks, Upsert(s) PROVE FALSE
  <2>1. check[c] \in Check
    BY DEF IInv, TypeOK
  <2>2. check' = [d \in Callers |-> IF ~Calling(d) THEN check[d] ELSE [check[d] EXCEPT !.outrun = TRUE]]
    BY <1>3 DEF Upsert, Calling
  <2>3. check'[c].outrun
    BY <1>1, <2>1, <2>2 DEF Check
  <2> QED
    BY <2>3, IdleType DEF Leaves
<1> QED
  BY <1>2, <1>3 DEF Next, Recheck, SignIn, vars, Ask, ReadRecent, ReadNoToken, ReadBackingOff, ReadToken,
     Confirms, AnswerLost, Rejects, NoVerdict, Userinfo, Unavailable, Refuse,
     FindFlow, ConsumeState, Exchange, ExchangeFails, BeginFlow, SetEnabled, Tick

(* A sign-in stored while a re-check is under way is neither overwritten   *)
(* nor cleared by it (upstream-refresh.ts:161-168, 242-243). *)
THEOREM SignInsWin == Spec => SignInWins
<1>1. IInv /\ [Next]_vars => [\A c \in Callers : check[c].outrun /\ check'[c] = Idle => user' = user]_vars
  BY WinsStep DEF Leaves
<1> QED
  BY <1>1, Initially, Inductive, PTL DEF Spec, SignInWins
=============================================================================
