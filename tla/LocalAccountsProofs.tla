------------------------ MODULE LocalAccountsProofs ------------------------
(***************************************************************************)
(* Theorems about accounts: their sessions (Sessions), for any number of   *)
(* users, browsers and requests under way, and the throttle of what can be *)
(* guessed at (LoginThrottle), for any number of attempts and any limits.  *)
(***************************************************************************)
EXTENDS Sessions, LoginThrottle, TLAPS, FiniteSetTheorems

-----------------------------------------------------------------------------
(***************************************************************************)
(* Sessions.  The epochs of an account count its revocations (AccountsOK), *)
(* and a cookie carries the epoch of its time (SessionCookies), so one     *)
(* that carries the epoch of its account now was made after all of them.   *)
(* A marker is not much later than the last proof of presence (MarkerOK),  *)
(* in a jar or on its way (CallOK), and who counts or creates under the    *)
(* setup lock is alone.                                                    *)
(***************************************************************************)

Account ==
  [local : BOOLEAN, exists : BOOLEAN, active : BOOLEAN, sessionEpoch : Nat, deviceEpoch : Nat]

SessionCookies == {c \in [user : Users, epoch : Nat, at : Nat, after : Nat] : c.after = c.epoch}
DeviceCookies == {c \in [user : Users, epoch : Nat, after : Nat] : c.after = c.epoch}
Markers == [user : Users, at : Nat]

Cookies ==
  [session : SessionCookies \cup {None}, reauth : Markers \cup {None},
   device : DeviceCookies \cup {None}]

SetupPCs == {"locks", "counts", "creates"}

Call ==
  [pc : SetupPCs \cup {"idle", "upserts", "starts", "trusts", "answers", "reads", "changes",
                       "keeps", "revokes", "asks", "admitted"},
   user : Users \cup {None}, way : {"none", "setup", "password", "fresh", "silent"},
   proved : Nat, new : Cookies]

SessionsTypes ==
  /\ now \in Nat
  /\ account \in [Users -> Account]
  /\ jar \in [Browsers -> Cookies]
  /\ call \in [Browsers -> Call]
  /\ setupLock \in Browsers \cup {None}
  /\ ended \in [Users -> [sessions : Nat, devices : Nat]]
  /\ entered \in [Users -> Nat \cup {None}]
  /\ bySetup \subseteq Users

AccountsOK ==
  \A u \in Users :
    /\ account[u].active => account[u].exists
    /\ account[u].sessionEpoch = ended[u].sessions
    /\ account[u].deviceEpoch = ended[u].devices

(* How old a proof may be when it is checked. *)
ProofAge(u) == IF account[u].local THEN 0 ELSE ReauthMax

Proved(u, at) == entered[u] \in Nat /\ at <= entered[u] + ProofAge(u)

MarkerOK(c) ==
  c # None => entered[c.user] \in Nat /\ c.at <= entered[c.user] + ProofAge(c.user) + LoginTime

CallOK(b) ==
  /\ call[b].pc # "idle" => call[b].user \in Users
  /\ call[b].pc \in SetupPCs => account[call[b].user].local
  /\ call[b].pc \notin SetupPCs \cup {"idle", "upserts"} => account[call[b].user].exists
  /\ call[b].pc \in {"counts", "creates"} => setupLock = b
  /\ call[b].pc = "creates" => bySetup = {}
  /\ (call[b].pc \in {"upserts", "starts"} /\ Marks(call[b].way)) =>
       /\ Proved(call[b].user, call[b].proved)
       /\ now <= call[b].proved + LoginTime
  /\ call[b].pc = "keeps" => call[b].new.session \in SessionCookies
  /\ MarkerOK(call[b].new.reauth)

CallsOK == \A b \in Browsers : CallOK(b)

MarkersOK ==
  /\ \A u \in Users : entered[u] \in Nat => entered[u] <= now
  /\ \A b \in Browsers : MarkerOK(jar[b].reauth)

SetupOK ==
  /\ bySetup = {} \/ \E u \in Users : bySetup = {u}
  /\ bySetup \subseteq Accounts

SessionsInv ==
  SessionsTypes /\ AccountsOK /\ CallsOK /\ MarkersOK /\ SetupOK

-----------------------------------------------------------------------------
(* What every step keeps of accounts and of proofs of presence.            *)

Grown ==
  \A u \in Users : /\ account'[u].local = account[u].local
                   /\ account[u].exists => account'[u].exists

Later ==
  \A u \in Users : entered[u] \in Nat => entered'[u] \in Nat /\ entered[u] <= entered'[u]

LEMMA CalledEffect ==
  ASSUME SessionsTypes, NEW b \in Browsers, NEW new \in Call, Called(b, new)
  PROVE  /\ call' \in [Browsers -> Call] /\ call'[b] = new
         /\ \A c \in Browsers \ {b} : call'[c] = call[c]
BY DEF SessionsTypes, Called

LEMMA NoCookiesType == NoCookies \in Cookies /\ NoCookies.reauth = None
BY DEF NoCookies, Cookies

LEMMA NoCallType ==
  /\ NoCall \in Call /\ NoCall.pc = "idle" /\ NoCall.user = None /\ NoCall.way = "none"
  /\ NoCall.proved = 0 /\ NoCall.new = NoCookies
BY NoCookiesType DEF NoCall, NewCall, Call, SetupPCs

LEMMA ProofsStay ==
  ASSUME SessionsTypes, Grown, Later, NEW u \in Users, NEW at \in Nat
  PROVE  /\ Proved(u, at) => Proved(u, at)'
         /\ ProofAge(u)' = ProofAge(u) /\ ProofAge(u) \in Nat
<1>1. ProofAge(u)' = ProofAge(u) /\ ProofAge(u) \in Nat
  BY SessionsAssumption DEF Grown, ProofAge
<1> QED
  BY <1>1 DEF Proved, Later, SessionsTypes

LEMMA MarkersStay ==
  ASSUME SessionsTypes, Grown, Later, NEW c \in Markers \cup {None}, MarkerOK(c)
  PROVE  /\ c # None => entered'[c.user] \in Nat
         /\ c # None => c.at <= entered'[c.user] + ProofAge(c.user)' + LoginTime
<1> SUFFICES ASSUME c # None
             PROVE  /\ entered'[c.user] \in Nat
                    /\ c.at <= entered'[c.user] + ProofAge(c.user)' + LoginTime
  OBVIOUS
<1>1. c.user \in Users /\ c.at \in Nat
  BY DEF Markers
<1>2. ProofAge(c.user)' = ProofAge(c.user) /\ ProofAge(c.user) \in Nat
  BY <1>1, ProofsStay
<1> QED
  BY <1>1, <1>2, SessionsAssumption DEF MarkerOK, Later

(* A call that a step does not move. *)
LEMMA StillOK ==
  ASSUME SessionsInv, NEW c \in Browsers, call'[c] = call[c], now' = now, Grown, Later,
         setupLock = c => setupLock' = c /\ bySetup' = bySetup
  PROVE  CallOK(c)'
<1>1. CallOK(c) /\ call[c] \in Call
  BY DEF SessionsInv, CallsOK, SessionsTypes
<1>2. PICK r \in Call : r = call[c]
  BY <1>1
<1>3. MarkerOK(r.new.reauth)'
  <2>1. r.new.reauth \in Markers \cup {None} /\ MarkerOK(r.new.reauth)
    BY <1>1, <1>2 DEF Call, Cookies, CallOK
  <2> QED
    BY <2>1, MarkersStay DEF MarkerOK, SessionsInv
<1>4. r.pc # "idle" => r.user \in Users
  BY <1>1, <1>2 DEF CallOK
<1>5. (r.pc \in {"upserts", "starts"} /\ Marks(r.way)) =>
         Proved(r.user, r.proved)' /\ now' <= r.proved + LoginTime
  <2> SUFFICES ASSUME r.pc \in {"upserts", "starts"}, Marks(r.way)
               PROVE  Proved(r.user, r.proved)' /\ now' <= r.proved + LoginTime
    OBVIOUS
  <2>1. /\ r.user \in Users /\ r.proved \in Nat
        /\ Proved(r.user, r.proved) /\ now <= r.proved + LoginTime
    BY <1>1, <1>2 DEF CallOK, Call
  <2> QED
    BY <2>1, ProofsStay DEF SessionsInv
<1>6. /\ r.pc \in SetupPCs => account'[r.user].local
      /\ r.pc \notin SetupPCs \cup {"idle", "upserts"} => account'[r.user].exists
      /\ r.pc \in {"counts", "creates"} => setupLock' = c
      /\ r.pc = "creates" => bySetup' = {}
      /\ r.pc = "keeps" => r.new.session \in SessionCookies
  BY <1>1, <1>2, <1>4 DEF CallOK, Grown, SetupPCs
<1> QED
  BY <1>2, <1>3, <1>4, <1>5, <1>6 DEF CallOK, Marks, MarkerOK, Proved, ProofAge

(* A step that moves the call of b, and what it does beside. *)
LEMMA CallMoves ==
  ASSUME SessionsInv, NEW b \in Browsers, NEW new \in Call, Called(b, new), CallOK(b)',
         now' = now, Grown, Later, AccountsOK', SetupOK',
         account' \in [Users -> Account], jar' \in [Browsers -> Cookies],
         ended' \in [Users -> [sessions : Nat, devices : Nat]],
         entered' \in [Users -> Nat \cup {None}],
         \A u \in Users : entered'[u] \in Nat => entered'[u] <= now,
         \A c \in Browsers : jar'[c].reauth \in {jar[c].reauth, call[b].new.reauth, None},
         setupLock' = setupLock \/ setupLock \in {None, b}, setupLock' \in Browsers \cup {None},
         setupLock = b \/ bySetup' = bySetup
  PROVE  SessionsInv'
<1>1. /\ call' \in [Browsers -> Call]
      /\ \A c \in Browsers \ {b} : call'[c] = call[c]
  BY CalledEffect DEF SessionsInv
<1>2. ASSUME NEW c \in Browsers \ {b} PROVE CallOK(c)'
  BY <1>1, StillOK, SessionsAssumption
<1>3. bySetup' \subseteq Users
  BY DEF SetupOK, Accounts
<1>4. SessionsTypes' /\ CallsOK'
  BY <1>1, <1>2, <1>3 DEF SessionsInv, SessionsTypes, CallsOK
<1>5. ASSUME NEW c \in Browsers PROVE MarkerOK(jar[c].reauth)'
  <2>1. PICK m \in Markers \cup {None} : m = jar'[c].reauth /\ MarkerOK(m)
    <3>1. MarkerOK(jar[c].reauth) /\ MarkerOK(call[b].new.reauth) /\ MarkerOK(None)
      BY DEF SessionsInv, MarkersOK, CallsOK, CallOK, MarkerOK
    <3>2. jar'[c].reauth \in Markers \cup {None}
      BY DEF Cookies
    <3> QED
      BY <3>1, <3>2
  <2> QED
    BY <2>1, MarkersStay DEF MarkerOK, SessionsInv, ProofAge
<1> QED
  BY <1>4, <1>5 DEF SessionsInv, MarkersOK

LEMMA Unmoved ==
  ASSUME SessionsInv, UNCHANGED << account, ended, entered >>
  PROVE  /\ Grown /\ Later /\ AccountsOK'
         /\ account' \in [Users -> Account]
         /\ ended' \in [Users -> [sessions : Nat, devices : Nat]]
         /\ entered' \in [Users -> Nat \cup {None}]
         /\ \A u \in Users : entered'[u] \in Nat => entered'[u] <= now
<1>1. \A u \in Users : entered[u] \in Nat => entered[u] <= entered[u]
  OBVIOUS
<1> QED
  BY <1>1 DEF Grown, Later, SessionsInv, SessionsTypes, AccountsOK, MarkersOK

(* A step that moves the call of b, and perhaps the lock or the jar. *)
LEMMA CallOnly ==
  ASSUME SessionsInv, NEW b \in Browsers, NEW new \in Call, Called(b, new), CallOK(b)',
         jar' \in [Browsers -> Cookies],
         \A c \in Browsers : jar'[c].reauth \in {jar[c].reauth, call[b].new.reauth, None},
         setupLock' = setupLock \/ setupLock \in {None, b}, setupLock' \in Browsers \cup {None},
         UNCHANGED << now, account, ended, entered, bySetup >>
  PROVE  SessionsInv'
<1>1. SetupOK'
  BY DEF SessionsInv, SetupOK, Accounts
<1> QED
  BY <1>1, Unmoved, CallMoves

LEMMA JarUnmoved ==
  ASSUME SessionsInv, NEW b \in Browsers, UNCHANGED jar
  PROVE  /\ jar' \in [Browsers -> Cookies]
         /\ \A c \in Browsers : jar'[c].reauth \in {jar[c].reauth, call[b].new.reauth, None}
BY DEF SessionsInv, SessionsTypes

LEMMA ReturnOK ==
  ASSUME SessionsTypes, NEW b \in Browsers, Return(b)
  PROVE  Called(b, NoCall) /\ NoCall \in Call /\ CallOK(b)'
<1>1. Called(b, NoCall) /\ NoCall \in Call
  BY NoCallType DEF Return
<1> QED
  BY <1>1, CalledEffect, NoCallType, NoCookiesType DEF CallOK, SetupPCs, MarkerOK

LEMMA ReturnMoves ==
  ASSUME SessionsInv, NEW b \in Browsers, Return(b), jar' \in [Browsers -> Cookies],
         \A c \in Browsers : jar'[c].reauth \in {jar[c].reauth, call[b].new.reauth, None},
         setupLock' = setupLock \/ setupLock \in {None, b}, setupLock' \in Browsers \cup {None},
         UNCHANGED << now, account, ended, entered, bySetup >>
  PROVE  SessionsInv'
BY ReturnOK, CallOnly DEF SessionsInv

(* The call of b goes on to pc, as what it has read allows. *)
LEMMA GoesOn ==
  ASSUME SessionsInv, NEW b \in Browsers, NEW pc, Goes(b, pc),
         \/ call[b].pc = "locks" /\ pc = "counts" /\ setupLock' = b
         \/ /\ call[b].pc = "counts" /\ pc = "creates" /\ bySetup = {}
            /\ UNCHANGED setupLock
         \/ /\ call[b].pc \notin SetupPCs \cup {"idle", "upserts"}
            /\ pc \in {"changes", "admitted"} /\ UNCHANGED setupLock,
         setupLock' = setupLock \/ setupLock \in {None, b},
         UNCHANGED << now, account, jar, ended, entered, bySetup >>
  PROVE  SessionsInv'
<1> DEFINE new == [call[b] EXCEPT !.pc = pc]
<1>1. call[b] \in Call /\ CallOK(b) /\ setupLock \in Browsers \cup {None}
  BY DEF SessionsInv, SessionsTypes, CallsOK
<1>2. new \in Call /\ new.pc = pc /\ new.user = call[b].user /\ new.new = call[b].new
  BY <1>1 DEF Call, SetupPCs
<1>3. Called(b, new)
  BY DEF Goes
<1> HIDE DEF new
<1>4. call'[b] = new
  BY <1>2, <1>3, CalledEffect DEF SessionsInv
<1>5. MarkerOK(call[b].new.reauth)'
  BY <1>1, <1>2, <1>4 DEF CallOK, MarkerOK, ProofAge
<1>6. CallOK(b)'
  BY <1>1, <1>2, <1>4, <1>5 DEF CallOK, SetupPCs
<1> QED
  BY <1>1, <1>2, <1>3, <1>6, CallOnly, JarUnmoved

(* A post begins a call. *)
LEMMA BeginsOK ==
  ASSUME SessionsTypes, NEW b \in Browsers, NEW u \in Users,
         NEW pc \in {"locks", "upserts", "starts", "reads", "revokes", "asks"},
         NEW way \in {"none", "setup", "password", "fresh", "silent"}, NEW at \in Nat,
         pc = "locks" => account'[u].local,
         pc \notin {"locks", "upserts"} => account'[u].exists,
         Marks(way) => Proved(u, at)' /\ now' <= at + LoginTime,
         Called(b, NewCall(pc, u, way, at))
  PROVE  /\ CallOK(b)'
         /\ NewCall(pc, u, way, at) \in Call
<1> DEFINE new == NewCall(pc, u, way, at)
<1>1. new \in Call /\ new.pc = pc /\ new.user = u /\ new.way = way /\ new.proved = at
      /\ new.new = NoCookies
  BY NoCookiesType DEF NewCall, Call, SetupPCs
<1>2. Called(b, new)
  OBVIOUS
<1> HIDE DEF new
<1>3. call'[b] = new
  BY <1>1, <1>2, CalledEffect
<1>4. CallOK(b)'
  BY <1>1, <1>3, NoCookiesType DEF CallOK, SetupPCs, MarkerOK, Marks, Proved, ProofAge
<1> QED
  BY <1>1, <1>4 DEF new

LEMMA CallsKeeps ==
  ASSUME SessionsInv, NEW b \in Browsers, NEW u \in Users,
         NEW pc \in {"locks", "reads", "revokes", "asks"},
         IF pc = "locks" THEN account[u].local ELSE account[u].exists, Calls(b, u, pc),
         UNCHANGED << now, account, jar, setupLock, ended, entered, bySetup >>
  PROVE  SessionsInv'
<1>1. Called(b, NewCall(pc, u, "none", 0))
  BY DEF Calls
<1>2. ~Marks("none")
  BY DEF Marks
<1> QED
  BY <1>1, <1>2, BeginsOK, CallOnly, JarUnmoved DEF SessionsInv, SessionsTypes

LEMMA WithSessionKeeps ==
  ASSUME SessionsInv, NEW b \in Browsers, NEW pc \in {"reads", "revokes", "asks"},
         WithSession(b, pc),
         UNCHANGED << now, account, jar, setupLock, ended, entered, bySetup >>
  PROVE  SessionsInv'
<1>1. jar[b].session # None /\ jar[b].session.user \in Users
  BY DEF WithSession, SessionAccepted, SessionsInv, SessionsTypes, Cookies, SessionCookies
<1>2. account[jar[b].session.user].exists
  BY <1>1 DEF WithSession, SessionAccepted, SessionsInv, AccountsOK
<1> QED
  BY <1>1, <1>2, CallsKeeps DEF WithSession

LEMMA PostKeeps ==
  ASSUME SessionsInv, NEW b \in Browsers, PasswordPost(b) \/ LogoutPost(b) \/ AdminPost(b)
  PROVE  SessionsInv'
BY WithSessionKeeps DEF PasswordPost, LogoutPost, AdminPost, history

LEMMA SetupPostKeeps ==
  ASSUME SessionsInv, NEW b \in Browsers, NEW u \in Users, SetupPost(b, u)
  PROVE  SessionsInv'
BY CallsKeeps DEF SetupPost, history

LEMMA CallStepsKeep ==
  ASSUME SessionsInv, NEW b \in Browsers,
         SetupLock(b) \/ SetupCount(b) \/ AdminCheck(b) \/ AdminWrite(b)
  PROVE  SessionsInv'
<1>1. CASE SetupLock(b)
  BY <1>1, GoesOn DEF SetupLock, LockFree, history
<1>2. CASE SetupCount(b)
  <2>1. setupLock = b /\ bySetup \subseteq Accounts
    BY <1>2 DEF SetupCount, SessionsInv, CallsOK, CallOK, SetupOK
  <2>2. CASE Return(b) /\ setupLock' = None
    BY <1>2, <2>1, <2>2, ReturnMoves, JarUnmoved DEF SetupCount, history
  <2>3. CASE Accounts = {} /\ Goes(b, "creates") /\ UNCHANGED setupLock
    BY <1>2, <2>1, <2>3, GoesOn DEF SetupCount, history
  <2> QED
    BY <1>2, <2>2, <2>3 DEF SetupCount
<1>3. CASE AdminCheck(b) \/ AdminWrite(b)
  <2>1. CASE Return(b)
    BY <1>3, <2>1, ReturnMoves, JarUnmoved
       DEF AdminCheck, AdminWrite, history, SessionsInv, SessionsTypes
  <2>2. CASE AdminCheck(b) /\ Goes(b, "admitted")
    BY <2>2, GoesOn DEF AdminCheck, SetupPCs, history
  <2> QED
    BY <1>3, <2>1, <2>2 DEF AdminCheck, AdminWrite
<1> QED
  BY <1>1, <1>2, <1>3

LEMMA ClearedJar ==
  ASSUME SessionsInv, NEW b \in Browsers, Cleared(b)
  PROVE  /\ jar' \in [Browsers -> Cookies]
         /\ \A c \in Browsers : jar'[c].reauth \in {jar[c].reauth, call[b].new.reauth, None}
<1> DEFINE cookies == [jar[b] EXCEPT !.session = None, !.reauth = None]
<1>1. jar \in [Browsers -> Cookies]
  BY DEF SessionsInv, SessionsTypes
<1>2. cookies \in Cookies /\ cookies.reauth = None
  BY <1>1 DEF Cookies
<1>3. jar' = [jar EXCEPT ![b] = cookies]
  BY <1>1 DEF Cleared
<1> HIDE DEF cookies
<1> QED
  BY <1>1, <1>2, <1>3

LEMMA ReadHashKeeps ==
  ASSUME SessionsInv, NEW b \in Browsers, ReadHash(b)
  PROVE  SessionsInv'
<1>1. UNCHANGED << now, account, setupLock, ended, entered, bySetup >>
  BY DEF ReadHash, history
<1>2. CASE account[call[b].user].local
  BY <1>1, <1>2, GoesOn DEF ReadHash, SetupPCs
<1>3. CASE ~account[call[b].user].local
  BY <1>1, <1>3, ReturnMoves, ClearedJar DEF ReadHash, SessionsInv, SessionsTypes
<1> QED
  BY <1>2, <1>3

-----------------------------------------------------------------------------
(* Signing in.                                                             *)

LEMMA LoginPostKeeps ==
  ASSUME SessionsInv, NEW b \in Browsers, NEW u \in Users, LoginPost(b, u)
  PROVE  SessionsInv'
<1> DEFINE new == NewCall("starts", u, "password", now)
<1>1. SessionsTypes /\ now \in Nat /\ entered \in [Users -> Nat \cup {None}]
  BY DEF SessionsInv, SessionsTypes
<1>2. /\ entered' = [entered EXCEPT ![u] = now] /\ account[u].exists
      /\ UNCHANGED << now, account, jar, setupLock, ended, bySetup >>
      /\ Called(b, new)
  BY DEF LoginPost, SignsIn, Marks
<1>3. /\ entered' \in [Users -> Nat \cup {None}]
      /\ \A v \in Users : entered'[v] \in Nat => entered'[v] <= now
      /\ Later /\ Grown /\ entered'[u] = now
  BY <1>1, <1>2 DEF Later, Grown, SessionsInv, MarkersOK
<1>4. Proved(u, now)' /\ now' <= now + LoginTime
  <2>1. ProofAge(u) \in Nat /\ ProofAge(u)' = ProofAge(u)
    BY <1>1, <1>3, ProofsStay
  <2> QED
    BY <1>1, <1>2, <1>3, <2>1, SessionsAssumption DEF Proved
<1>5. CallOK(b)' /\ new \in Call
  BY <1>1, <1>2, <1>4, BeginsOK
<1>6. AccountsOK' /\ SetupOK'
  BY <1>2 DEF SessionsInv, AccountsOK, SetupOK, Accounts
<1> HIDE DEF new
<1> QED
  BY <1>1, <1>2, <1>3, <1>5, <1>6, JarUnmoved, CallMoves DEF SessionsInv, SessionsTypes

LEMMA CallbackKeeps ==
  ASSUME SessionsInv, NEW b \in Browsers, NEW u \in Users, NEW fresh \in BOOLEAN,
         CallbackGet(b, u, fresh)
  PROVE  SessionsInv'
<1> DEFINE way == IF fresh THEN "fresh" ELSE "silent"
           at == IF fresh THEN now ELSE 0
           new == NewCall("upserts", u, way, at)
<1>1. SessionsTypes /\ now \in Nat /\ entered \in [Users -> Nat \cup {None}]
  BY DEF SessionsInv, SessionsTypes
<1>2. /\ ~account[u].local /\ UNCHANGED << now, account, jar, setupLock, ended, bySetup >>
      /\ Called(b, new)
  BY DEF CallbackGet, SignsIn, Marks
<1>3. /\ entered' \in [Users -> Nat \cup {None}]
      /\ \A v \in Users : entered'[v] \in Nat => entered'[v] <= now
      /\ Later /\ Grown
      /\ fresh => entered'[u] \in Nat /\ now <= entered'[u] + ReauthMax
  <2>1. Grown
    BY <1>2 DEF Grown
  <2>2. CASE ~fresh
    BY <1>1, <2>1, <2>2 DEF CallbackGet, Later, SessionsInv, MarkersOK
  <2>3. CASE fresh
    <3>1. PICK t \in 0 .. now :
            /\ now - t <= ReauthMax
            /\ entered' = [entered EXCEPT ![u] =
                 IF entered[u] # None /\ entered[u] > t THEN entered[u] ELSE t]
      BY <1>1, <2>3 DEF CallbackGet
    <3>2. t \in Nat /\ t <= now /\ now <= t + ReauthMax
      BY <1>1, <3>1, SessionsAssumption
    <3> DEFINE s == IF entered[u] # None /\ entered[u] > t THEN entered[u] ELSE t
    <3>3. s \in Nat /\ t <= s /\ s <= now /\ (entered[u] \in Nat => entered[u] <= s)
      BY <1>1, <3>2, ClockAssumption DEF SessionsInv, MarkersOK
    <3>4. entered' = [entered EXCEPT ![u] = s]
      BY <3>1
    <3> HIDE DEF s
    <3>5. Later /\ entered' \in [Users -> Nat \cup {None}] /\ entered'[u] = s
      BY <1>1, <3>3, <3>4 DEF Later
    <3>6. \A v \in Users : entered'[v] \in Nat => entered'[v] <= now
      BY <1>1, <3>3, <3>4 DEF SessionsInv, MarkersOK
    <3> QED
      BY <1>1, <2>1, <3>2, <3>3, <3>5, <3>6, SessionsAssumption
  <2> QED
    BY <2>2, <2>3
<1>4. Marks(way) => Proved(u, at)' /\ now' <= at + LoginTime
  <2>1. CASE fresh
    <3>1. ProofAge(u)' = ReauthMax
      BY <1>2 DEF ProofAge
    <3> QED
      BY <1>1, <1>2, <1>3, <2>1, <3>1, SessionsAssumption DEF Proved
  <2>2. CASE ~fresh
    BY <2>2 DEF Marks
  <2> QED
    BY <2>1, <2>2
<1>5. way \in {"none", "setup", "password", "fresh", "silent"} /\ at \in Nat
  BY <1>1
<1>6. CallOK(b)' /\ new \in Call
  <2>1. PICK w, t : w = way /\ t = at
    OBVIOUS
  <2>2. Marks(w) => Proved(u, t)' /\ now' <= t + LoginTime
    BY <1>2, <1>4, <2>1 DEF Proved, ProofAge
  <2>3. Called(b, NewCall("upserts", u, w, t))
    BY <1>2, <2>1
  <2>4. w \in {"none", "setup", "password", "fresh", "silent"} /\ t \in Nat
    BY <1>5, <2>1
  <2> DEFINE r == NewCall("upserts", u, w, t)
  <2>5. CallOK(b)' /\ r \in Call
    BY <1>1, <2>2, <2>3, <2>4, BeginsOK
  <2>6. r = new
    BY <2>1
  <2> QED
    BY <2>5, <2>6
<1>7. AccountsOK' /\ SetupOK'
  BY <1>2 DEF SessionsInv, AccountsOK, SetupOK, Accounts
<1>8. PICK r \in Call : Called(b, r)
  BY <1>2, <1>6
<1> HIDE DEF new, way, at
<1> QED
  BY <1>1, <1>2, <1>3, <1>6, <1>8, <1>7, JarUnmoved, CallMoves DEF SessionsInv, SessionsTypes

(* An account comes to be, or changes by hand. *)
LEMMA AccountKeeps ==
  ASSUME SessionsInv, NEW u \in Users, NEW new \in Account,
         new.local = account[u].local, account[u].exists => new.exists,
         new.active => new.exists,
         new.sessionEpoch = account[u].sessionEpoch, new.deviceEpoch = account[u].deviceEpoch,
         account' = [account EXCEPT ![u] = new],
         UNCHANGED << ended, entered >>
  PROVE  account' \in [Users -> Account] /\ AccountsOK' /\ Grown /\ Later
<1>1. /\ account' \in [Users -> Account] /\ account'[u] = new
      /\ \A v \in Users \ {u} : account'[v] = account[v]
  BY DEF SessionsInv, SessionsTypes
<1>2. \A v \in Users : /\ account'[v].sessionEpoch = account[v].sessionEpoch
                       /\ account'[v].deviceEpoch = account[v].deviceEpoch
                       /\ account'[v].active => account'[v].exists
  BY <1>1 DEF SessionsInv, AccountsOK
<1>3. AccountsOK' /\ Grown
  BY <1>1, <1>2 DEF SessionsInv, AccountsOK, Grown
<1>4. \A v \in Users : entered[v] \in Nat => entered[v] <= entered[v]
  OBVIOUS
<1> QED
  BY <1>1, <1>3, <1>4 DEF Later

LEMMA CreatedKeeps ==
  ASSUME SessionsInv, NEW u \in Users, Created(u), UNCHANGED << ended, entered >>
  PROVE  /\ account' \in [Users -> Account] /\ AccountsOK' /\ Grown /\ Later
         /\ account'[u].exists /\ account'[u].active
<1> DEFINE new == [account[u] EXCEPT !.exists = TRUE, !.active = TRUE]
<1>1. account \in [Users -> Account] /\ account[u] \in Account
  BY DEF SessionsInv, SessionsTypes
<1>2. /\ new \in Account /\ new.local = account[u].local /\ new.exists /\ new.active
      /\ new.sessionEpoch = account[u].sessionEpoch /\ new.deviceEpoch = account[u].deviceEpoch
  BY <1>1 DEF Account
<1>3. account' = [account EXCEPT ![u] = new]
  BY <1>1 DEF Created
<1> HIDE DEF new
<1> QED
  BY <1>1, <1>2, <1>3, AccountKeeps

LEMMA UpsertKeeps ==
  ASSUME SessionsInv, NEW b \in Browsers, Upsert(b)
  PROVE  SessionsInv'
<1> DEFINE u == call[b].user
           new == [call[b] EXCEPT !.pc = "starts"]
<1>1. /\ call[b] \in Call /\ CallOK(b) /\ call[b].pc = "upserts" /\ u \in Users
      /\ account \in [Users -> Account]
  BY DEF Upsert, SessionsInv, SessionsTypes, CallsOK, CallOK
<1>2. UNCHANGED << now, jar, setupLock, ended, entered, bySetup >>
  BY DEF Upsert, history
<1>3. account' \in [Users -> Account] /\ AccountsOK' /\ Grown /\ Later
  <2>1. CASE account[u].exists
    BY <1>2, <2>1, Unmoved DEF Upsert
  <2>2. CASE ~account[u].exists
    BY <1>1, <1>2, <2>2, CreatedKeeps DEF Upsert
  <2> QED
    BY <2>1, <2>2
<1>4. SetupOK'
  BY <1>2, <1>3 DEF SessionsInv, SetupOK, Accounts, Grown
<1>5. /\ entered' \in [Users -> Nat \cup {None}] /\ ended' \in [Users -> [sessions : Nat, devices : Nat]]
      /\ \A v \in Users : entered'[v] \in Nat => entered'[v] <= now
      /\ setupLock' \in Browsers \cup {None}
  BY <1>2 DEF SessionsInv, SessionsTypes, MarkersOK
<1>6. CASE account'[u].active
  <2>1. /\ new \in Call /\ new.pc = "starts" /\ new.user = u /\ new.way = call[b].way
        /\ new.proved = call[b].proved /\ new.new = call[b].new
    BY <1>1 DEF Call
  <2>2. PICK r \in Call :
          /\ Called(b, r) /\ r.pc = "starts" /\ r.user = u /\ r.way = call[b].way
          /\ r.proved = call[b].proved /\ r.new = call[b].new
    BY <1>6, <2>1 DEF Upsert, Goes
  <2> HIDE DEF new
  <2>3. call'[b] = r /\ r.user \in Users /\ r.proved \in Nat
        /\ r.new.reauth \in Markers \cup {None}
    BY <1>1, <2>2, CalledEffect DEF SessionsInv, Call, Cookies
  <2>4. account'[r.user].exists
    BY <1>1, <1>3, <1>6, <2>2 DEF AccountsOK
  <2>5. MarkerOK(r.new.reauth) /\ (Marks(r.way) => Proved(r.user, r.proved)
                                                  /\ now <= r.proved + LoginTime)
    BY <1>1, <2>2 DEF CallOK
  <2>6. MarkerOK(r.new.reauth)'
    BY <1>3, <2>3, <2>5, MarkersStay DEF MarkerOK, SessionsInv
  <2>7. Marks(r.way) => Proved(r.user, r.proved)' /\ now' <= r.proved + LoginTime
    BY <1>2, <1>3, <2>3, <2>5, ProofsStay DEF SessionsInv
  <2>8. CallOK(b)'
    BY <2>2, <2>3, <2>4, <2>6, <2>7 DEF CallOK, SetupPCs, Marks, Proved, ProofAge, MarkerOK
  <2> QED
    BY <1>2, <1>3, <1>4, <1>5, <2>2, <2>8, JarUnmoved, CallMoves
<1>7. CASE ~account'[u].active
  <2>1. Called(b, NoCall) /\ NoCall \in Call /\ CallOK(b)'
    BY <1>7, ReturnOK DEF Upsert, SessionsInv
  <2> QED
    BY <1>2, <1>3, <1>4, <1>5, <2>1, JarUnmoved, CallMoves
<1> QED
  BY <1>6, <1>7

LEMMA NewCookie ==
  ASSUME SessionsInv, NEW u \in Users
  PROVE  /\ SessionCookie(u, account[u].sessionEpoch, ended[u].sessions) \in SessionCookies
         /\ DeviceCookie(u) \in DeviceCookies
<1>1. /\ account[u].sessionEpoch \in Nat /\ account[u].deviceEpoch \in Nat /\ now \in Nat
      /\ ended[u].sessions = account[u].sessionEpoch /\ ended[u].devices = account[u].deviceEpoch
  BY DEF SessionsInv, SessionsTypes, Account, AccountsOK
<1> QED
  BY <1>1 DEF SessionCookie, DeviceCookie, SessionCookies, DeviceCookies

LEMMA StartSessionKeeps ==
  ASSUME SessionsInv, NEW b \in Browsers, StartSession(b)
  PROVE  SessionsInv'
<1> DEFINE u == call[b].user
           way == call[b].way
           marker == IF Marks(way) THEN [user |-> u, at |-> now] ELSE None
           cookie == SessionCookie(u, account[u].sessionEpoch, ended[u].sessions)
           cookies == [NoCookies EXCEPT !.session = cookie, !.reauth = marker]
           fresh == NewCall(IF way = "password" THEN "trusts" ELSE "answers", u, "none", 0)
           new == [fresh EXCEPT !.new = cookies]
<1>1. /\ call[b] \in Call /\ CallOK(b) /\ u \in Users /\ account[u].exists /\ now \in Nat
      /\ call[b].pc = "starts" /\ call[b].proved \in Nat
  BY DEF StartSession, SessionsInv, SessionsTypes, CallsOK, CallOK, SetupPCs, Call
<1>2. marker \in Markers \cup {None} /\ MarkerOK(marker)
  <2>1. CASE Marks(way)
    <3>1. Proved(u, call[b].proved) /\ now <= call[b].proved + LoginTime
      BY <1>1, <2>1 DEF CallOK
    <3>2. ProofAge(u) \in Nat
      BY SessionsAssumption DEF ProofAge
    <3>3. marker = [user |-> u, at |-> now]
      BY <2>1
    <3>4. entered[u] \in Nat /\ now <= entered[u] + ProofAge(u) + LoginTime
      BY <1>1, <3>1, <3>2, SessionsAssumption DEF Proved
    <3> QED
      BY <1>1, <3>3, <3>4 DEF MarkerOK, Markers
  <2>2. CASE ~Marks(way)
    BY <2>2 DEF MarkerOK
  <2> QED
    BY <2>1, <2>2
<1>3. cookie \in SessionCookies
  BY <1>1, NewCookie
<1>4. UNCHANGED << now, account, jar, setupLock, ended, entered, bySetup >>
  BY DEF StartSession, history
<1>5. Called(b, new)
  BY DEF StartSession
<1> HIDE DEF cookie, marker
<1>6. cookies \in Cookies /\ cookies.reauth = marker
  BY <1>2, <1>3 DEF NoCookies, Cookies
<1> HIDE DEF cookies
<1>7. fresh \in Call /\ fresh.pc \in {"trusts", "answers"} /\ fresh.user = u
  BY <1>1, NoCookiesType DEF NewCall, Call
<1> HIDE DEF fresh
<1>8. new \in Call /\ new.pc \in {"trusts", "answers"} /\ new.user = u /\ new.new = cookies
  BY <1>6, <1>7 DEF Call
<1> HIDE DEF new
<1>9. PICK r \in Call :
        /\ Called(b, r) /\ r.pc \in {"trusts", "answers"} /\ r.user \in Users
        /\ account[r.user].exists /\ MarkerOK(r.new.reauth)
  BY <1>1, <1>2, <1>5, <1>6, <1>8
<1>10. call'[b] = r
  BY <1>9, CalledEffect DEF SessionsInv
<1>11. CallOK(b)'
  BY <1>4, <1>9, <1>10 DEF CallOK, SetupPCs, MarkerOK, ProofAge
<1> QED
  BY <1>4, <1>9, <1>11, CallOnly, JarUnmoved DEF SessionsInv, SessionsTypes

(* The cookies of a call that has begun its answer. *)
LEMMA TrustDeviceKeeps ==
  ASSUME SessionsInv, NEW b \in Browsers, TrustDevice(b)
  PROVE  SessionsInv'
<1> DEFINE cookie == DeviceCookie(call[b].user)
           cookies == [call[b].new EXCEPT !.device = cookie]
           new == [call[b] EXCEPT !.pc = "answers", !.new = cookies]
<1>1. /\ call[b] \in Call /\ CallOK(b) /\ call[b].pc = "trusts" /\ call[b].user \in Users
      /\ account[call[b].user].exists /\ call[b].new \in Cookies /\ MarkerOK(call[b].new.reauth)
  BY DEF TrustDevice, SessionsInv, SessionsTypes, CallsOK, CallOK, SetupPCs, Call
<1>2. cookie \in DeviceCookies
  BY <1>1, NewCookie
<1>3. UNCHANGED << now, account, jar, setupLock, ended, entered, bySetup >>
  BY DEF TrustDevice, history
<1>4. Called(b, new)
  BY <1>1 DEF TrustDevice, Call
<1> HIDE DEF cookie
<1>5. cookies \in Cookies /\ cookies.reauth = call[b].new.reauth
  BY <1>1, <1>2 DEF Cookies
<1> HIDE DEF cookies
<1>6. new \in Call /\ new.pc = "answers" /\ new.user = call[b].user /\ new.new = cookies
  BY <1>1, <1>5 DEF Call
<1> HIDE DEF new
<1>7. PICK r \in Call :
        /\ Called(b, r) /\ r.pc = "answers" /\ r.user \in Users
        /\ account[r.user].exists /\ MarkerOK(r.new.reauth)
  BY <1>1, <1>4, <1>5, <1>6
<1>8. call'[b] = r
  BY <1>7, CalledEffect DEF SessionsInv
<1>9. CallOK(b)'
  BY <1>3, <1>7, <1>8 DEF CallOK, SetupPCs, MarkerOK, ProofAge
<1> QED
  BY <1>3, <1>7, <1>9, CallOnly, JarUnmoved DEF SessionsInv, SessionsTypes

LEMMA KeepSessionKeeps ==
  ASSUME SessionsInv, NEW b \in Browsers, KeepSession(b)
  PROVE  SessionsInv'
<1> DEFINE cookie == [call[b].new.session EXCEPT !.at = now]
           cookies == [call[b].new EXCEPT !.session = cookie]
           new == [call[b] EXCEPT !.pc = "answers", !.new = cookies]
<1>1. /\ call[b] \in Call /\ CallOK(b) /\ call[b].pc = "keeps" /\ call[b].user \in Users
      /\ account[call[b].user].exists /\ call[b].new \in Cookies /\ MarkerOK(call[b].new.reauth)
      /\ call[b].new.session \in SessionCookies /\ now \in Nat
  BY DEF KeepSession, SessionsInv, SessionsTypes, CallsOK, CallOK, SetupPCs, Call, Cookies
<1>2. cookie \in SessionCookies
  BY <1>1 DEF SessionCookies
<1>3. UNCHANGED << now, account, jar, setupLock, ended, entered, bySetup >>
  BY DEF KeepSession, history
<1>4. Called(b, new)
  BY <1>1 DEF KeepSession, Call, Cookies, SessionCookies
<1> HIDE DEF cookie
<1>5. cookies \in Cookies /\ cookies.reauth = call[b].new.reauth
  BY <1>1, <1>2 DEF Cookies
<1> HIDE DEF cookies
<1>6. new \in Call /\ new.pc = "answers" /\ new.user = call[b].user /\ new.new = cookies
  BY <1>1, <1>5 DEF Call
<1> HIDE DEF new
<1>7. PICK r \in Call :
        /\ Called(b, r) /\ r.pc = "answers" /\ r.user \in Users
        /\ account[r.user].exists /\ MarkerOK(r.new.reauth)
  BY <1>1, <1>4, <1>5, <1>6
<1>8. call'[b] = r
  BY <1>7, CalledEffect DEF SessionsInv
<1>9. CallOK(b)'
  BY <1>3, <1>7, <1>8 DEF CallOK, SetupPCs, MarkerOK, ProofAge
<1> QED
  BY <1>3, <1>7, <1>9, CallOnly, JarUnmoved DEF SessionsInv, SessionsTypes

LEMMA AnswerKeeps ==
  ASSUME SessionsInv, NEW b \in Browsers, Answer(b)
  PROVE  SessionsInv'
<1> DEFINE merged == Merged(jar[b], call[b].new)
<1>1. jar \in [Browsers -> Cookies] /\ jar[b] \in Cookies /\ call[b].new \in Cookies
  BY DEF SessionsInv, SessionsTypes, Call
<1>2. merged \in Cookies /\ merged.reauth \in {jar[b].reauth, call[b].new.reauth}
  <2> DEFINE pick(x, y) == IF x = None THEN y ELSE x
  <2>1. DOMAIN jar[b] = {"session", "reauth", "device"}
    BY <1>1 DEF Cookies
  <2>2. merged = [c \in {"session", "reauth", "device"} |-> pick(call[b].new[c], jar[b][c])]
    BY <2>1 DEF Merged
  <2>3. merged = [session |-> pick(call[b].new.session, jar[b].session),
                  reauth |-> pick(call[b].new.reauth, jar[b].reauth),
                  device |-> pick(call[b].new.device, jar[b].device)]
    BY <2>2
  <2> QED
    BY <1>1, <2>3 DEF Cookies
<1>3. jar' = [jar EXCEPT ![b] = merged]
  BY <1>1 DEF Answer
<1> HIDE DEF merged
<1>4. /\ jar' \in [Browsers -> Cookies]
      /\ \A c \in Browsers : jar'[c].reauth \in {jar[c].reauth, call[b].new.reauth, None}
  BY <1>1, <1>2, <1>3
<1> QED
  BY <1>4, ReturnMoves DEF Answer, history, SessionsInv, SessionsTypes

-----------------------------------------------------------------------------
(* Revocations and accounts.                                               *)

LEMMA RevocationKeeps ==
  ASSUME SessionsInv, NEW u \in Users, NEW n \in {0, 1}, NEW new \in Account,
         new.local = account[u].local, new.exists = account[u].exists, new.active => new.exists,
         new.sessionEpoch = account[u].sessionEpoch + 1,
         new.deviceEpoch = account[u].deviceEpoch + n,
         account' = [account EXCEPT ![u] = new], Ended(u, 1, n), UNCHANGED entered
  PROVE  /\ account' \in [Users -> Account] /\ account'[u] = new
         /\ ended' \in [Users -> [sessions : Nat, devices : Nat]]
         /\ ended'[u].sessions = new.sessionEpoch
         /\ AccountsOK' /\ Grown /\ Later
<1>1. /\ account \in [Users -> Account]
      /\ ended \in [Users -> [sessions : Nat, devices : Nat]]
  BY DEF SessionsInv, SessionsTypes
<1>2. /\ account' \in [Users -> Account] /\ account'[u] = new
      /\ \A v \in Users \ {u} : account'[v] = account[v]
  BY <1>1
<1>3. ended' = [ended EXCEPT ![u] = [sessions |-> ended[u].sessions + 1,
                                     devices |-> ended[u].devices + n]]
  BY DEF Ended
<1>4. /\ ended' \in [Users -> [sessions : Nat, devices : Nat]]
      /\ ended'[u].sessions = ended[u].sessions + 1 /\ ended'[u].devices = ended[u].devices + n
      /\ \A v \in Users \ {u} : ended'[v] = ended[v]
  BY <1>1, <1>3
<1>5. AccountsOK'
  <2>1. ASSUME NEW v \in Users \ {u}
        PROVE  account'[v] = account[v] /\ ended'[v] = ended[v]
    BY <1>2, <1>4
  <2>2. /\ account'[u].sessionEpoch = ended'[u].sessions
        /\ account'[u].deviceEpoch = ended'[u].devices
        /\ account'[u].active => account'[u].exists
    BY <1>2, <1>4 DEF SessionsInv, AccountsOK
  <2> QED
    BY <2>1, <2>2 DEF SessionsInv, AccountsOK
<1>6. Grown
  BY <1>2 DEF Grown
<1>7. Later
  BY Unmoved DEF Later, SessionsInv, SessionsTypes
<1> QED
  BY <1>2, <1>4, <1>5, <1>6, <1>7 DEF SessionsInv, AccountsOK

LEMMA BumpedRow ==
  ASSUME NEW r \in Account, NEW bumped, bumped = BothEpochs(r) \/ bumped = Deactivated(r)
  PROVE  /\ bumped \in Account /\ bumped.exists = r.exists /\ bumped.local = r.local
         /\ bumped.active => r.active
         /\ bumped.sessionEpoch = r.sessionEpoch + 1 /\ bumped.deviceEpoch = r.deviceEpoch + 1
<1>1. ASSUME NEW q \in Account, NEW p, p = BothEpochs(q)
      PROVE  /\ p \in Account /\ p.exists = q.exists /\ p.local = q.local /\ p.active = q.active
             /\ p.sessionEpoch = q.sessionEpoch + 1 /\ p.deviceEpoch = q.deviceEpoch + 1
  <2>1. /\ q = [local |-> q.local, exists |-> q.exists, active |-> q.active,
              sessionEpoch |-> q.sessionEpoch, deviceEpoch |-> q.deviceEpoch]
        /\ q.local \in BOOLEAN /\ q.exists \in BOOLEAN /\ q.active \in BOOLEAN
        /\ q.sessionEpoch \in Nat /\ q.deviceEpoch \in Nat
    BY DEF Account
  <2>2. p = [local |-> q.local, exists |-> q.exists, active |-> q.active,
             sessionEpoch |-> q.sessionEpoch + 1, deviceEpoch |-> q.deviceEpoch + 1]
    BY <1>1, <2>1 DEF BothEpochs
  <2> QED
    BY <2>1, <2>2 DEF Account
<1>2. CASE bumped = BothEpochs(r)
  BY <1>1, <1>2
<1>3. CASE bumped = Deactivated(r)
  <2> DEFINE q == [r EXCEPT !.active = FALSE]
  <2>1. /\ q \in Account /\ q.exists = r.exists /\ q.local = r.local /\ q.active = FALSE
        /\ q.sessionEpoch = r.sessionEpoch /\ q.deviceEpoch = r.deviceEpoch
    BY DEF Account
  <2>2. bumped = BothEpochs(q)
    BY <1>3 DEF Deactivated
  <2> HIDE DEF q
  <2> QED
    BY <1>1, <2>1, <2>2
<1> QED
  BY <1>2, <1>3

LEMMA ChangePasswordKeeps ==
  ASSUME SessionsInv, NEW b \in Browsers, ChangePassword(b)
  PROVE  SessionsInv'
<1> DEFINE u == call[b].user
           bumped == BothEpochs(account[u])
<1>1. /\ call[b] \in Call /\ u \in Users /\ account[u].exists /\ account[u] \in Account
      /\ CallOK(b) /\ call[b].pc = "changes"
  BY DEF ChangePassword, SessionsInv, SessionsTypes, CallsOK, CallOK, SetupPCs
<1>2. /\ bumped \in Account /\ bumped.exists /\ bumped.local = account[u].local
      /\ bumped.active => account[u].active
      /\ bumped.sessionEpoch = account[u].sessionEpoch + 1
      /\ bumped.deviceEpoch = account[u].deviceEpoch + 1
  BY <1>1, BumpedRow
<1>3. /\ account' = [account EXCEPT ![u] = bumped] /\ Ended(u, 1, 1)
      /\ UNCHANGED << now, jar, setupLock, entered, bySetup >>
  BY DEF ChangePassword
<1> HIDE DEF bumped
<1>4. /\ account' \in [Users -> Account] /\ account'[u] = bumped
      /\ ended' \in [Users -> [sessions : Nat, devices : Nat]]
      /\ ended'[u].sessions = bumped.sessionEpoch
      /\ AccountsOK' /\ Grown /\ Later
  <2>1. bumped.exists = account[u].exists
    BY <1>1, <1>2
  <2>2. bumped.active => bumped.exists
    BY <1>2
  <2> QED
    BY <1>1, <1>2, <1>3, <2>1, <2>2, RevocationKeeps
<1>5. PICK cookie \in SessionCookies :
        cookie = SessionCookie(u, account'[u].sessionEpoch, ended'[u].sessions)
  <2>1. account'[u].sessionEpoch \in Nat /\ now \in Nat
    BY <1>1, <1>4 DEF Account, SessionsInv, SessionsTypes
  <2> QED
    BY <1>1, <1>4, <2>1 DEF SessionCookie, SessionCookies
<1> DEFINE cookies == [call[b].new EXCEPT !.session = cookie]
           new == [call[b] EXCEPT !.pc = "keeps", !.new = cookies]
<1>6. Called(b, new)
  BY <1>1, <1>5 DEF ChangePassword, Call
<1>7. cookies \in Cookies /\ cookies.reauth = call[b].new.reauth /\ cookies.session = cookie
  BY <1>1 DEF Call, Cookies
<1> HIDE DEF cookies
<1>8. new \in Call /\ new.pc = "keeps" /\ new.user = u /\ new.new = cookies
  BY <1>1, <1>7 DEF Call
<1> HIDE DEF new
<1>9. PICK r \in Call :
        /\ Called(b, r) /\ r.pc = "keeps" /\ r.user = u
        /\ r.new.session = cookie /\ r.new.reauth = call[b].new.reauth
  BY <1>6, <1>7, <1>8
<1>10. call'[b] = r /\ r.user \in Users /\ r.new.reauth \in Markers \cup {None}
       /\ MarkerOK(r.new.reauth) /\ account'[r.user].exists
  BY <1>1, <1>2, <1>4, <1>9, CalledEffect DEF SessionsInv, Call, Cookies, CallOK
<1>11. MarkerOK(r.new.reauth)'
  BY <1>4, <1>10, MarkersStay DEF MarkerOK, SessionsInv
<1>12. CallOK(b)'
  BY <1>9, <1>10, <1>11 DEF CallOK, SetupPCs, MarkerOK, ProofAge
<1>13. SetupOK'
  BY <1>3, <1>4 DEF SessionsInv, SetupOK, Accounts, Grown
<1>14. /\ entered' \in [Users -> Nat \cup {None}]
       /\ \A v \in Users : entered'[v] \in Nat => entered'[v] <= now
       /\ setupLock' \in Browsers \cup {None}
  BY <1>3 DEF SessionsInv, SessionsTypes, MarkersOK
<1> QED
  BY <1>3, <1>4, <1>9, <1>12, <1>13, <1>14, JarUnmoved, CallMoves

LEMMA LogoutKeeps ==
  ASSUME SessionsInv, NEW b \in Browsers, Logout(b)
  PROVE  SessionsInv'
<1> DEFINE u == call[b].user
           bumped == [account[u] EXCEPT !.sessionEpoch = @ + 1]
<1>1. call[b] \in Call /\ u \in Users /\ account[u].exists /\ account[u] \in Account
  BY DEF Logout, SessionsInv, SessionsTypes, CallsOK, CallOK, SetupPCs
<1>2. /\ bumped \in Account /\ bumped.exists = account[u].exists
      /\ bumped.local = account[u].local /\ (bumped.active => bumped.exists)
      /\ bumped.sessionEpoch = account[u].sessionEpoch + 1
      /\ bumped.deviceEpoch = account[u].deviceEpoch + 0
  <2>1. PICK r \in Account : r = account[u]
    BY <1>1
  <2>2. /\ r.local \in BOOLEAN /\ r.active \in BOOLEAN /\ r.exists = TRUE
        /\ r.sessionEpoch \in Nat /\ r.deviceEpoch \in Nat
    BY <1>1, <2>1 DEF Account
  <2>3. bumped = [local |-> r.local, exists |-> r.exists, active |-> r.active,
                  sessionEpoch |-> r.sessionEpoch + 1, deviceEpoch |-> r.deviceEpoch]
    BY <2>1 DEF Account
  <2>4. r.sessionEpoch + 1 \in Nat /\ r.deviceEpoch + 0 = r.deviceEpoch
    BY <2>2
  <2> HIDE DEF bumped
  <2>5. bumped \in Account
    BY <2>2, <2>3, <2>4 DEF Account
  <2> QED
    BY <2>1, <2>2, <2>3, <2>4, <2>5
<1>3. /\ account' = [account EXCEPT ![u] = bumped] /\ Ended(u, 1, 0) /\ Cleared(b) /\ Return(b)
      /\ UNCHANGED << now, setupLock, entered, bySetup >>
  BY <1>1 DEF Logout
<1> HIDE DEF bumped
<1>4. /\ account' \in [Users -> Account]
      /\ ended' \in [Users -> [sessions : Nat, devices : Nat]]
      /\ AccountsOK' /\ Grown /\ Later
  BY <1>1, <1>2, <1>3, RevocationKeeps
<1>5. SetupOK'
  BY <1>3, <1>4 DEF SessionsInv, SetupOK, Accounts, Grown
<1>6. /\ entered' \in [Users -> Nat \cup {None}]
      /\ \A v \in Users : entered'[v] \in Nat => entered'[v] <= now
      /\ setupLock' \in Browsers \cup {None}
  BY <1>3 DEF SessionsInv, SessionsTypes, MarkersOK
<1>7. Called(b, NoCall) /\ NoCall \in Call /\ CallOK(b)'
  BY <1>3, ReturnOK DEF SessionsInv
<1> QED
  BY <1>3, <1>4, <1>5, <1>6, <1>7, ClearedJar, CallMoves

-----------------------------------------------------------------------------
(* The commands, the copies and the clock; they move no call.              *)

LEMMA NoCallMoves ==
  ASSUME SessionsInv, UNCHANGED << now, call, setupLock, entered, bySetup >>,
         Grown, Later, AccountsOK',
         account' \in [Users -> Account], jar' \in [Browsers -> Cookies],
         ended' \in [Users -> [sessions : Nat, devices : Nat]],
         \A b \in Browsers : \E c \in Browsers : jar'[b].reauth = jar[c].reauth
  PROVE  SessionsInv'
<1>1. CallsOK'
  BY StillOK DEF CallsOK
<1>2. SetupOK'
  BY DEF SessionsInv, SetupOK, Accounts, Grown
<1>3. ASSUME NEW b \in Browsers PROVE MarkerOK(jar[b].reauth)'
  <2>1. PICK c \in Browsers : jar'[b].reauth = jar[c].reauth
    OBVIOUS
  <2>2. PICK m \in Markers \cup {None} : m = jar'[b].reauth /\ MarkerOK(m)
    BY <2>1 DEF SessionsInv, SessionsTypes, MarkersOK, Cookies
  <2> QED
    BY <2>2, MarkersStay DEF MarkerOK, SessionsInv, ProofAge
<1>4. SessionsTypes' /\ MarkersOK'
  BY <1>3 DEF SessionsInv, SessionsTypes, MarkersOK
<1> QED
  BY <1>1, <1>2, <1>4 DEF SessionsInv

LEMMA CommandKeeps ==
  ASSUME SessionsInv, Command
  PROVE  SessionsInv'
<1>1. account \in [Users -> Account] /\ jar \in [Browsers -> Cookies]
      /\ ended \in [Users -> [sessions : Nat, devices : Nat]]
  BY DEF SessionsInv, SessionsTypes
<1>2. ASSUME NEW u \in Users, Add(u) PROVE SessionsInv'
  BY <1>1, <1>2, CreatedKeeps, NoCallMoves DEF Add, history
<1>3. ASSUME NEW u \in Users, NEW active \in BOOLEAN, SetActive(u, active) PROVE SessionsInv'
  <2> DEFINE new == [account[u] EXCEPT !.active = active]
  <2>1. /\ new \in Account /\ new.local = account[u].local /\ new.exists
        /\ new.sessionEpoch = account[u].sessionEpoch /\ new.deviceEpoch = account[u].deviceEpoch
    BY <1>1, <1>3 DEF SetActive, Account
  <2>2. account' = [account EXCEPT ![u] = new]
    BY <1>3 DEF SetActive
  <2> HIDE DEF new
  <2>3. UNCHANGED << now, jar, call, setupLock, ended, entered, bySetup >>
    BY <1>3 DEF SetActive, history
  <2>4. account' \in [Users -> Account] /\ AccountsOK' /\ Grown /\ Later
    BY <2>1, <2>2, <2>3, AccountKeeps
  <2> QED
    BY <1>1, <2>3, <2>4, NoCallMoves
<1>4. ASSUME NEW u \in Users, Deactivate(u) PROVE SessionsInv'
  <2> DEFINE bumped == Deactivated(account[u])
  <2>1. account[u].exists /\ account[u] \in Account
    BY <1>1, <1>4 DEF Deactivate
  <2>2. /\ bumped \in Account /\ bumped.exists = account[u].exists
        /\ bumped.local = account[u].local /\ (bumped.active => bumped.exists)
        /\ bumped.sessionEpoch = account[u].sessionEpoch + 1
        /\ bumped.deviceEpoch = account[u].deviceEpoch + 1
    BY <2>1, BumpedRow
  <2>3. /\ account' = [account EXCEPT ![u] = bumped] /\ Ended(u, 1, 1)
        /\ UNCHANGED << now, jar, call, setupLock, entered, bySetup >>
    BY <1>4 DEF Deactivate
  <2> HIDE DEF bumped
  <2>4. /\ account' \in [Users -> Account]
        /\ ended' \in [Users -> [sessions : Nat, devices : Nat]]
        /\ AccountsOK' /\ Grown /\ Later
    BY <2>2, <2>3, RevocationKeeps
  <2> QED
    BY <1>1, <2>3, <2>4, NoCallMoves
<1> QED
  BY <1>2, <1>3, <1>4 DEF Command

LEMMA CopyKeeps ==
  ASSUME SessionsInv, NEW b \in Browsers, NEW c \in Browsers, Copy(b, c)
  PROVE  SessionsInv'
<1>1. /\ jar \in [Browsers -> Cookies] /\ jar' = [jar EXCEPT ![c] = jar[b]]
      /\ UNCHANGED << now, account, call, setupLock, ended, entered, bySetup >>
  BY DEF Copy, history, SessionsInv, SessionsTypes
<1>2. /\ jar' \in [Browsers -> Cookies]
      /\ \A d \in Browsers : \E e \in Browsers : jar'[d].reauth = jar[e].reauth
  BY <1>1
<1> QED
  BY <1>1, <1>2, Unmoved, NoCallMoves

LEMMA TickKeeps ==
  ASSUME SessionsInv, Tick
  PROVE  SessionsInv'
<1>1. /\ now' = now + 1 /\ now \in Nat
      /\ UNCHANGED << account, jar, call, setupLock, ended, entered, bySetup >>
  BY DEF Tick, history, SessionsInv, SessionsTypes
<1>2. SessionsTypes' /\ AccountsOK' /\ SetupOK'
  BY <1>1 DEF SessionsInv, SessionsTypes, AccountsOK, SetupOK, Accounts
<1>3. MarkersOK'
  BY <1>1 DEF SessionsInv, SessionsTypes, MarkersOK, MarkerOK, ProofAge
<1>4. ASSUME NEW b \in Browsers PROVE CallOK(b)'
  <2>1. call[b] \in Call /\ CallOK(b)
    BY DEF SessionsInv, SessionsTypes, CallsOK
  <2>2. (call[b].pc \in {"upserts", "starts"} /\ Marks(call[b].way)) =>
          now' <= call[b].proved + LoginTime
    BY <1>1, <2>1, SessionsAssumption DEF Tick, Call
  <2> QED
    BY <1>1, <2>1, <2>2 DEF CallOK, MarkerOK, Proved, ProofAge
<1> QED
  BY <1>2, <1>3, <1>4 DEF SessionsInv, CallsOK

(* Of those at the insert there is one, and nobody came before. *)
LEMMA SetupCreateKeeps ==
  ASSUME SessionsInv, NEW b \in Browsers, SetupCreate(b)
  PROVE  SessionsInv'
<1> DEFINE u == call[b].user
<1>1. /\ call[b] \in Call /\ u \in Users /\ bySetup = {} /\ setupLock = b /\ account[u].local
  BY DEF SetupCreate, SessionsInv, SessionsTypes, CallsOK, CallOK, SetupPCs
<1>2. setupLock' = None /\ UNCHANGED << now, jar, ended, entered >>
  BY DEF SetupCreate
<1>3. CASE account[u].exists
  BY <1>1, <1>2, <1>3, ReturnMoves, JarUnmoved DEF SetupCreate
<1>4. CASE ~account[u].exists
  <2>1. PICK v \in Users : v = u
    BY <1>1
  <2>2. Created(v) /\ bySetup' = {v} /\ Called(b, NewCall("starts", v, "setup", 0))
    BY <1>1, <1>4, <2>1 DEF SetupCreate, SignsIn, Marks
  <2>3. /\ account' \in [Users -> Account] /\ AccountsOK' /\ Grown /\ Later
        /\ account'[v].exists
    BY <1>2, <2>2, CreatedKeeps
  <2>4. CallOK(b)' /\ NewCall("starts", v, "setup", 0) \in Call
    BY <2>2, <2>3, BeginsOK DEF Marks, SessionsInv
  <2>5. SetupOK'
    BY <1>1, <2>1, <2>2, <2>3 DEF SetupOK, Accounts, Grown
  <2>6. /\ entered' \in [Users -> Nat \cup {None}] /\ ended' \in [Users -> [sessions : Nat, devices : Nat]]
        /\ \A w \in Users : entered'[w] \in Nat => entered'[w] <= now
    BY <1>2 DEF SessionsInv, SessionsTypes, MarkersOK
  <2> QED
    BY <1>1, <1>2, <2>2, <2>3, <2>4, <2>5, <2>6, JarUnmoved, CallMoves
<1> QED
  BY <1>3, <1>4

-----------------------------------------------------------------------------
(* The theorems about Sessions.                                            *)

LEMMA SessionsInitially == Init => SessionsInv
<1> SUFFICES ASSUME Init PROVE SessionsInv
  OBVIOUS
<1>1. \A local \in BOOLEAN :
        LET r == [NoAccount EXCEPT !.local = local] IN
        r \in Account /\ ~r.active /\ ~r.exists /\ r.sessionEpoch = 0 /\ r.deviceEpoch = 0
  BY DEF NoAccount, Account
<1>2. ASSUME NEW u \in Users
      PROVE  /\ account[u] \in Account /\ ~account[u].active
             /\ account[u].sessionEpoch = 0 /\ account[u].deviceEpoch = 0
  <2>1. PICK local \in BOOLEAN : account[u] = [NoAccount EXCEPT !.local = local]
    BY DEF Init
  <2> QED
    BY <1>1, <2>1
<1>3. account \in [Users -> Account]
  BY <1>2 DEF Init
<1>4. SessionsTypes
  BY <1>3, NoCookiesType, NoCallType DEF Init, SessionsTypes
<1>5. CallsOK
  BY NoCallType, NoCookiesType DEF Init, CallsOK, CallOK, SetupPCs, MarkerOK
<1>6. AccountsOK /\ SetupOK
  BY <1>2 DEF Init, AccountsOK, SetupOK
<1>7. MarkersOK
  BY ClockAssumption, NoCookiesType DEF Init, MarkersOK, MarkerOK
<1> QED
  BY <1>4, <1>5, <1>6, <1>7 DEF SessionsInv

LEMMA SessionsStepKeeps == SessionsInv /\ [Next]_vars => SessionsInv'
<1> SUFFICES ASSUME SessionsInv, [Next]_vars PROVE SessionsInv'
  OBVIOUS
<1>1. ASSUME NEW b \in Browsers, Step(b) PROVE SessionsInv'
  BY <1>1, CallStepsKeep, SetupCreateKeeps, UpsertKeeps, StartSessionKeeps,
     TrustDeviceKeeps, AnswerKeeps, ReadHashKeeps, ChangePasswordKeeps, KeepSessionKeeps,
     LogoutKeeps
     DEF Step
<1>2. ASSUME NEW b \in Browsers, Post(b) PROVE SessionsInv'
  BY <1>2, SetupPostKeeps, LoginPostKeeps, CallbackKeeps, PostKeeps DEF Post
<1>3. ASSUME NEW b \in Browsers, NEW c \in Browsers, Copy(b, c) PROVE SessionsInv'
  BY <1>3, CopyKeeps
<1>4. CASE Command
  BY <1>4, CommandKeeps
<1>5. CASE Tick
  BY <1>5, TickKeeps
<1>6. CASE UNCHANGED vars
  BY <1>6, Unmoved, NoCallMoves DEF vars, history, SessionsInv, SessionsTypes
<1> QED
  BY <1>1, <1>2, <1>3, <1>4, <1>5, <1>6 DEF Next

(* The inductive invariant. *)
THEOREM SessionsInductive == Spec => []SessionsInv
BY SessionsInitially, SessionsStepKeeps, PTL DEF Spec

(* Accounts, cookies and calls are what the code makes them. *)
THEOREM SessionsTypeCorrect == Spec => []SessionsTypes
<1>1. SessionsInv => SessionsTypes
  BY DEF SessionsInv
<1> QED
  BY <1>1, SessionsInductive, PTL

(* No cookie whose epoch was read before a revocation is accepted after    *)
(* it, copied or still to be set by a response under way, for any number   *)
(* of browsers and requests (session.ts:17-23). *)
THEOREM Revoked == Spec => []RevokedStaysDead
<1>1. SessionsInv => RevokedStaysDead
  <2> SUFFICES ASSUME SessionsInv, NEW b \in Browsers
               PROVE  /\ SessionAccepted(jar[b].session)
                           => jar[b].session.after = ended[jar[b].session.user].sessions
                      /\ DeviceAccepted(jar[b].device)
                           => jar[b].device.after = ended[jar[b].device.user].devices
    BY DEF RevokedStaysDead
  <2>1. jar[b] \in Cookies
    BY DEF SessionsInv, SessionsTypes
  <2> QED
    BY <2>1 DEF SessionAccepted, DeviceAccepted, Cookies, SessionCookies, DeviceCookies,
                SessionsInv, AccountsOK
<1> QED
  BY <1>1, SessionsInductive, PTL

(* /setup creates at most one account, however many post to it at once     *)
(* (local-accounts.ts:201-205). *)
THEOREM OneSetup == Spec => []SetupOnce
<1>1. SessionsInv => SetupOnce
  <2> SUFFICES ASSUME SessionsInv PROVE Cardinality(bySetup) <= 1
    BY DEF SetupOnce
  <2>1. CASE bySetup = {}
    BY <2>1, FS_EmptySet
  <2>2. CASE \E u \in Users : bySetup = {u}
    <3>1. PICK u \in Users : bySetup = {u}
      BY <2>2
    <3>2. Cardinality({u}) = 1
      BY FS_Singleton
    <3> QED
      BY <3>1, <3>2
  <2> QED
    BY <2>1, <2>2 DEF SessionsInv, SetupOK
<1> QED
  BY <1>1, SessionsInductive, PTL

(* Only a post that requireAdminWrite admits becomes admitted. *)
LEMMA OnlyCheckAdmits ==
  ASSUME SessionsInv, [Next]_vars, NEW b \in Browsers,
         call[b].pc = "asks", call'[b].pc = "admitted"
  PROVE  RecentReauth(jar[b].reauth, call[b].user) /\ call[b].user \in Users
<1>1. call \in [Browsers -> Call] /\ call[b].user \in Users
  BY DEF SessionsInv, SessionsTypes, CallsOK, CallOK
<1>2. ASSUME NEW c \in Browsers, NEW new, Called(c, new), c # b \/ new.pc # "admitted" PROVE FALSE
  BY <1>1, <1>2 DEF Called
<1>3. ASSUME NEW c \in Browsers, NEW pc, NEW u, NEW way, NEW at, pc # "admitted",
             Called(c, NewCall(pc, u, way, at))
      PROVE  FALSE
  BY <1>2, <1>3 DEF NewCall
<1>4. ASSUME NEW c \in Browsers, Step(c), ~AdminCheck(c) PROVE FALSE
  <2>1. ASSUME NEW pc, pc # "admitted", Goes(c, pc) PROVE FALSE
    BY <1>1, <1>2, <2>1 DEF Goes, Call
  <2>2. CASE Return(c)
    BY <1>2, <2>2, NoCallType DEF Return
  <2>3. CASE StartSession(c)
    <3>1. ASSUME NEW r, NEW new, r.pc # "admitted", DOMAIN r = DOMAIN NoCall,
                 Called(c, [r EXCEPT !.new = new])
          PROVE  FALSE
      <4>1. [r EXCEPT !.new = new].pc = r.pc
        BY <3>1 DEF NoCall, NewCall
      <4> QED
        BY <1>2, <3>1, <4>1
    <3>2. ASSUME NEW pc, NEW u
          PROVE  NewCall(pc, u, "none", 0).pc = pc /\ DOMAIN NewCall(pc, u, "none", 0) = DOMAIN NoCall
      BY DEF NewCall, NoCall
    <3> DEFINE pc == IF call[c].way = "password" THEN "trusts" ELSE "answers"
               r == NewCall(pc, call[c].user, "none", 0)
    <3>3. \E new : Called(c, [r EXCEPT !.new = new])
      BY <2>3 DEF StartSession
    <3>4. r.pc # "admitted" /\ DOMAIN r = DOMAIN NoCall
      BY <3>2
    <3> HIDE DEF r
    <3> QED
      BY <3>1, <3>3, <3>4
  <2>4. CASE TrustDevice(c) \/ ChangePassword(c) \/ KeepSession(c)
    <3>1. \E new : call'[c] = new /\ new.pc # "admitted"
      BY <1>1, <2>4 DEF TrustDevice, ChangePassword, KeepSession, Called, Call
    <3>2. c # b
      BY <3>1
    <3> QED
      BY <1>1, <2>4, <3>2 DEF TrustDevice, ChangePassword, KeepSession, Called
  <2>5. CASE SetupCreate(c)
    BY <1>3, <2>2, <2>5 DEF SetupCreate, SignsIn
  <2> QED
    BY <1>4, <2>1, <2>2, <2>3, <2>4, <2>5
       DEF Step, SetupLock, SetupCount, Upsert, Answer, ReadHash, Logout, AdminWrite
<1>5. ASSUME NEW c \in Browsers, Post(c) PROVE FALSE
  <2>1. CASE \E u \in Users : SetupPost(c, u)
    BY <1>3, <2>1 DEF SetupPost, Calls
  <2>2. CASE \E u \in Users : LoginPost(c, u)
    BY <1>3, <2>2 DEF LoginPost, SignsIn
  <2>3. CASE \E u \in Users, fresh \in BOOLEAN : CallbackGet(c, u, fresh)
    BY <1>3, <2>3 DEF CallbackGet, SignsIn
  <2>4. CASE PasswordPost(c) \/ LogoutPost(c) \/ AdminPost(c)
    BY <1>3, <2>4 DEF PasswordPost, LogoutPost, AdminPost, WithSession, Calls
  <2> QED
    BY <1>5, <2>1, <2>2, <2>3, <2>4 DEF Post
<1>6. CASE UNCHANGED call
  BY <1>6
<1>7. PICK c \in Browsers : AdminCheck(c)
  BY <1>4, <1>5, <1>6
     DEF Next, vars, Copy, Command, Add, Deactivate, SetActive, Tick
<1>8. ~Return(c) /\ Goes(c, "admitted")
  BY <1>2, <1>7, NoCallType DEF AdminCheck, Return
<1>9. c = b
  BY <1>2, <1>8 DEF Goes
<1>10. RecentReauth(jar[c].reauth, call[c].user)
  BY <1>7, <1>8 DEF AdminCheck
<1> QED
  BY <1>1, <1>9, <1>10

(* An administrator's change is admitted only while that very account has  *)
(* proved presence in the last ProofMax (session.ts:46-59). *)
THEOREM AdminsReauthenticate == Spec => AdminRecent
<1> DEFINE P == \A b \in Browsers :
                  call[b].pc = "asks" /\ call'[b].pc = "admitted"
                    => LET u == call[b].user IN
                       entered[u] # None /\ now - entered[u] <= ProofMax(u)
<1>1. SessionsInv /\ [Next]_vars => P
  <2> SUFFICES ASSUME SessionsInv, [Next]_vars, NEW b \in Browsers,
                      call[b].pc = "asks", call'[b].pc = "admitted"
               PROVE  /\ entered[call[b].user] # None
                      /\ now - entered[call[b].user] <= ProofMax(call[b].user)
    OBVIOUS
  <2>1. /\ jar[b].reauth # None /\ jar[b].reauth.user = call[b].user
        /\ now - jar[b].reauth.at <= ReauthMax
    BY OnlyCheckAdmits DEF RecentReauth, MarkerOf
  <2> DEFINE at == jar[b].reauth.at
             u == call[b].user
  <2>2. /\ entered[u] \in Nat /\ at <= entered[u] + ProofAge(u) + LoginTime
        /\ at \in Nat /\ now \in Nat
    BY <2>1 DEF SessionsInv, MarkersOK, MarkerOK, SessionsTypes, Cookies, Markers
  <2>3. ProofMax(u) = LoginTime + ProofAge(u) + ReauthMax
        /\ ProofAge(u) \in Nat /\ LoginTime \in Nat /\ ReauthMax \in Nat
    BY SessionsAssumption DEF ProofMax, ProofAge
  <2> HIDE DEF at, u
  <2>4. now - entered[u] <= ProofMax(u)
    BY <2>1, <2>2, <2>3 DEF at
  <2> QED
    BY <2>2, <2>4, ClockAssumption DEF u
<1>2. SessionsInv /\ [Next]_vars => [P]_vars
  BY <1>1
<1> QED
  BY <1>2, SessionsInductive, PTL DEF Spec, AdminRecent

(* Epochs only grow, so that a cookie refused for its epoch is refused for *)
(* good (session.ts:17-23, local-user.ts:99). *)
EpochsOnlyGrow ==
  [][\A u \in Users : /\ account[u].sessionEpoch <= account'[u].sessionEpoch
                      /\ account[u].deviceEpoch <= account'[u].deviceEpoch]_vars

LEMMA RevocationsAreCounted ==
  ASSUME SessionsInv, [Next]_vars, NEW u \in Users
  PROVE  ended[u].sessions <= ended'[u].sessions /\ ended[u].devices <= ended'[u].devices
<1>1. ended \in [Users -> [sessions : Nat, devices : Nat]]
  BY DEF SessionsInv, SessionsTypes
<1>2. CASE UNCHANGED ended
  BY <1>1, <1>2
<1>3. ASSUME NEW v \in Users, NEW n \in {0, 1}, Ended(v, 1, n)
      PROVE  ended[u].sessions <= ended'[u].sessions /\ ended[u].devices <= ended'[u].devices
  <2>1. ended' = [ended EXCEPT ![v] = [sessions |-> ended[v].sessions + 1,
                                       devices |-> ended[v].devices + n]]
    BY <1>3 DEF Ended
  <2>2. CASE u = v
    BY <1>1, <2>1, <2>2
  <2>3. CASE u # v
    BY <1>1, <2>1, <2>3
  <2> QED
    BY <2>2, <2>3
<1>4. ASSUME NEW b \in Browsers, ChangePassword(b) \/ Logout(b)
      PROVE  ended[u].sessions <= ended'[u].sessions /\ ended[u].devices <= ended'[u].devices
  <2>1. call[b].user \in Users
    BY <1>4 DEF ChangePassword, Logout, SessionsInv, CallsOK, CallOK
  <2> QED
    BY <1>3, <1>4, <2>1 DEF ChangePassword, Logout
<1>5. ASSUME NEW v \in Users, Deactivate(v)
      PROVE  ended[u].sessions <= ended'[u].sessions /\ ended[u].devices <= ended'[u].devices
  BY <1>3, <1>5 DEF Deactivate
<1>6. ASSUME NEW b \in Browsers, Step(b), ~ChangePassword(b), ~Logout(b) PROVE UNCHANGED ended
  BY <1>6 DEF Step, SetupLock, SetupCount, SetupCreate, Upsert, StartSession, TrustDevice,
              Answer, ReadHash, KeepSession, AdminCheck, AdminWrite, history
<1>7. ASSUME NEW b \in Browsers, Post(b) PROVE UNCHANGED ended
  BY <1>7 DEF Post, SetupPost, LoginPost, CallbackGet, PasswordPost, LogoutPost, AdminPost, history
<1> QED
  BY <1>2, <1>4, <1>5, <1>6, <1>7 DEF Next, Command, Copy, Add, SetActive, Tick, vars, history

THEOREM RefusedForGood == Spec => EpochsOnlyGrow
<1>1. SessionsInv /\ SessionsInv' /\ [Next]_vars =>
        [\A u \in Users : /\ account[u].sessionEpoch <= account'[u].sessionEpoch
                          /\ account[u].deviceEpoch <= account'[u].deviceEpoch]_vars
  BY RevocationsAreCounted DEF SessionsInv, AccountsOK
<1> QED
  BY <1>1, SessionsInductive, PTL DEF Spec, EpochsOnlyGrow

-----------------------------------------------------------------------------
(***************************************************************************)
(* LoginThrottle.  Who has counted holds the locks of its address and of   *)
(* its key (Locked), so that until it records, nobody adds a row to what   *)
(* it counted (~AtLimit).  And the rows it counted are all that matter:    *)
(* what was evaluated and not forgiven has its row until the window is     *)
(* over (RowOK).                                                           *)
(***************************************************************************)

LockName == ({"ip"} \cup {"login", "device", "password_change", "setup"})
              \X (Addresses \cup Keys \cup {None})

Slot ==
  [pc : {"idle", "locks", "counts", "records", "guesses", "wrong", "right", "done", "over"},
   request : Requests \cup {None}, since : Nat, at : Nat, locks : Seq(LockName)]

ThrottleTypes ==
  /\ now \in Nat
  /\ attempt \in [Attempts -> Slot]
  /\ row \in [Attempts -> Nat \cup {None}]
  /\ forgiven \subseteq Evaluated

Counted == Evaluated \ forgiven

Locked(a) ==
  /\ attempt[a].pc \notin {"locks", "counts", "records"} => attempt[a].locks = << >>
  /\ attempt[a].pc = "locks" =>
       \A i \in 1 .. Len(attempt[a].locks) :
         /\ i <= Len(LockNames(attempt[a].request))
         /\ attempt[a].locks[i] = LockNames(attempt[a].request)[i]
  /\ attempt[a].pc \in {"counts", "records"} =>
       \A i \in 1 .. Len(LockNames(attempt[a].request)) :
         LockNames(attempt[a].request)[i] \in Held(a)

Exclusive == \A a, b \in Attempts : a # b => Held(a) \cap Held(b) = {}

RowOK(a) ==
  /\ row[a] # None => a \in Counted /\ row[a] = attempt[a].at
  /\ a \in Counted => row[a] = attempt[a].at \/ attempt[a].at + Window < now

AttemptOK(a) ==
  /\ attempt[a].pc \notin {"idle", "over"} => attempt[a].request \in Requests
  /\ attempt[a].since <= now /\ attempt[a].at <= now
  /\ Locked(a) /\ RowOK(a)
  /\ attempt[a].pc = "records" => ~AtLimit(a)

(* What GuessesBounded counts, for the window that begins with a.          *)
InWindow(b, a) == attempt[b].at \in attempt[a].at .. attempt[a].at + Window

IpWindow(a) ==
  {b \in Counted : InWindow(b, a) /\ attempt[b].request.kind \in IpLimited
                                  /\ attempt[b].request.ip = attempt[a].request.ip}

KeyWindow(a) == {b \in Counted : InWindow(b, a) /\ SameKey(b, a)}

BoundedAt(a) ==
  /\ attempt[a].request.kind \in IpLimited => Cardinality(IpWindow(a)) <= MaxPerIp
  /\ attempt[a].request.key # None =>
       Cardinality(KeyWindow(a)) <= KeyLimit(attempt[a].request.kind)

Bounded == \A a \in Counted : BoundedAt(a)

ThrottleInv ==
  /\ ThrottleTypes /\ Exclusive /\ IsFiniteSet(Evaluated) /\ Bounded
  /\ \A a \in Attempts : AttemptOK(a)

-----------------------------------------------------------------------------
(* Sets that count.                                                        *)

LEMMA OneMore ==
  ASSUME NEW S, IsFiniteSet(S), NEW n \in Nat, ~(Cardinality(S) >= n),
         NEW c, NEW T, T \subseteq S \cup {c}
  PROVE  Cardinality(T) <= n
<1>1. Cardinality(S) \in Nat
  BY FS_CardinalityType
<1>2. IsFiniteSet(S \cup {c}) /\ Cardinality(S \cup {c}) <= Cardinality(S) + 1
  BY <1>1, FS_AddElement
<1>3. /\ Cardinality(S \cup {c}) \in Nat /\ Cardinality(T) \in Nat
      /\ Cardinality(T) <= Cardinality(S \cup {c})
  BY <1>2, FS_Subset, FS_CardinalityType
<1> QED
  BY <1>1, <1>2, <1>3

LEMMA NoMore ==
  ASSUME NEW S, IsFiniteSet(S), NEW T, T \subseteq S
  PROVE  /\ IsFiniteSet(T)
         /\ \A n \in Nat : Cardinality(S) <= n => Cardinality(T) <= n
         /\ \A n \in Nat : Cardinality(T) >= n => Cardinality(S) >= n
<1>1. /\ IsFiniteSet(T) /\ Cardinality(T) <= Cardinality(S)
      /\ Cardinality(S) \in Nat /\ Cardinality(T) \in Nat
  BY FS_Subset, FS_CardinalityType
<1> QED
  BY <1>1

-----------------------------------------------------------------------------
(* Requests and the names of their locks.                                  *)

LEMMA RequestFacts ==
  ASSUME NEW r \in Requests
  PROVE  /\ r.kind \in {"login", "device", "password_change", "setup"}
         /\ r.ip \in Addresses \cup {None} /\ r.key \in Keys \cup {None}
         /\ r.key # None => KeyLimit(r.kind) \in Nat
<1>1. \/ r \in [kind : {"login", "device"}, ip : Addresses, key : Keys]
      \/ r \in [kind : {"password_change"}, ip : {None}, key : Keys]
      \/ r \in [kind : {"setup"}, ip : Addresses, key : {None}]
  BY DEF Requests
<1>2. /\ r.kind \in {"login", "device", "password_change", "setup"}
      /\ r.ip \in Addresses \cup {None} /\ r.key \in Keys \cup {None}
      /\ r.key # None => r.kind \in {"login", "device", "password_change"}
  BY <1>1
<1>3. \A kind \in {"login", "device", "password_change"} : KeyLimit(kind) \in Nat
  BY ThrottleAssumption DEF KeyLimit
<1> QED
  BY <1>2, <1>3

LEMMA LockNamesOf ==
  ASSUME NEW r \in Requests
  PROVE  /\ LockNames(r) \in Seq(LockName)
         /\ r.kind \in IpLimited =>
              \E i \in 1 .. Len(LockNames(r)) : LockNames(r)[i] = << "ip", r.ip >>
         /\ r.key # None =>
              \E i \in 1 .. Len(LockNames(r)) : LockNames(r)[i] = << r.kind, r.key >>
<1>1. << "ip", r.ip >> \in LockName /\ << r.kind, r.key >> \in LockName
  BY RequestFacts DEF LockName
<1> DEFINE ip == IpLock(r)
           key == KeyLock(r)
<1>2. /\ ip \in Seq(LockName) /\ (ip = << >> \/ ip = << << "ip", r.ip >> >>)
      /\ r.kind \in IpLimited => Len(ip) = 1 /\ ip[1] = << "ip", r.ip >>
  BY <1>1 DEF IpLock
<1>3. /\ key \in Seq(LockName) /\ (key = << >> \/ key = << << r.kind, r.key >> >>)
      /\ r.key # None => Len(key) = 1 /\ key[1] = << r.kind, r.key >>
  BY <1>1 DEF KeyLock
<1>4. LockNames(r) = key \o ip \/ LockNames(r) = ip \o key
  BY DEF LockNames
<1> HIDE DEF ip, key
<1>5. ASSUME NEW s \in Seq(LockName), NEW t \in Seq(LockName), Len(s) <= 1, Len(t) <= 1
      PROVE  /\ s \o t \in Seq(LockName) /\ Len(s \o t) = Len(s) + Len(t)
             /\ Len(s) = 1 => (s \o t)[1] = s[1]
             /\ Len(t) = 1 => (s \o t)[Len(s) + 1] = t[1]
  BY <1>5
<1>6. Len(ip) \in {0, 1} /\ Len(key) \in {0, 1}
  BY <1>2, <1>3
<1>7. CASE LockNames(r) = key \o ip
  <2>1. /\ LockNames(r) \in Seq(LockName) /\ Len(LockNames(r)) = Len(key) + Len(ip)
        /\ Len(key) = 1 => LockNames(r)[1] = key[1]
        /\ Len(ip) = 1 => LockNames(r)[Len(key) + 1] = ip[1]
    BY <1>2, <1>3, <1>5, <1>6, <1>7
  <2>2. r.kind \in IpLimited =>
          Len(key) + 1 \in 1 .. Len(LockNames(r)) /\ LockNames(r)[Len(key) + 1] = << "ip", r.ip >>
    BY <1>2, <1>6, <2>1
  <2>3. r.key # None => 1 \in 1 .. Len(LockNames(r)) /\ LockNames(r)[1] = << r.kind, r.key >>
    BY <1>3, <1>6, <2>1
  <2> QED
    BY <2>1, <2>2, <2>3
<1>8. CASE LockNames(r) = ip \o key
  <2>1. /\ LockNames(r) \in Seq(LockName) /\ Len(LockNames(r)) = Len(ip) + Len(key)
        /\ Len(ip) = 1 => LockNames(r)[1] = ip[1]
        /\ Len(key) = 1 => LockNames(r)[Len(ip) + 1] = key[1]
    BY <1>2, <1>3, <1>5, <1>6, <1>8
  <2>2. r.key # None =>
          Len(ip) + 1 \in 1 .. Len(LockNames(r)) /\ LockNames(r)[Len(ip) + 1] = << r.kind, r.key >>
    BY <1>3, <1>6, <2>1
  <2>3. r.kind \in IpLimited => 1 \in 1 .. Len(LockNames(r)) /\ LockNames(r)[1] = << "ip", r.ip >>
    BY <1>2, <1>6, <2>1
  <2> QED
    BY <2>1, <2>2, <2>3
<1> QED
  BY <1>4, <1>7, <1>8

(* Two attempts that have counted share neither an address nor a key.      *)
LEMMA CountedAlone ==
  ASSUME ThrottleInv, NEW a \in Attempts, NEW b \in Attempts, a # b,
         attempt[a].pc \in {"counts", "records"}, attempt[b].pc \in {"counts", "records"}
  PROVE  /\ ~(/\ attempt[a].request.kind \in IpLimited /\ attempt[b].request.kind \in IpLimited
              /\ attempt[a].request.ip = attempt[b].request.ip)
         /\ attempt[a].request.key # None => ~SameKey(b, a)
<1>1. ASSUME NEW c \in {a, b}
      PROVE  /\ attempt[c].request.kind \in IpLimited =>
                  << "ip", attempt[c].request.ip >> \in Held(c)
             /\ attempt[c].request.key # None =>
                  << attempt[c].request.kind, attempt[c].request.key >> \in Held(c)
  <2>1. /\ attempt[c].request \in Requests
        /\ \A i \in 1 .. Len(LockNames(attempt[c].request)) :
             LockNames(attempt[c].request)[i] \in Held(c)
    BY DEF ThrottleInv, AttemptOK, Locked
  <2> QED
    BY <2>1, LockNamesOf
<1>2. \A name : ~(name \in Held(a) /\ name \in Held(b))
  BY DEF ThrottleInv, Exclusive
<1> QED
  BY <1>1, <1>2 DEF SameKey

-----------------------------------------------------------------------------
(* What a step leaves of a count and of a window.                          *)

LEMMA RowsCount == ThrottleInv => /\ Rows \subseteq Counted /\ IsFiniteSet(Rows)
                                  /\ IsFiniteSet(Counted)
                                  /\ \A b \in Rows : row[b] = attempt[b].at
<1> SUFFICES ASSUME ThrottleInv PROVE /\ Rows \subseteq Counted /\ IsFiniteSet(Rows)
                                      /\ IsFiniteSet(Counted)
                                      /\ \A b \in Rows : row[b] = attempt[b].at
  OBVIOUS
<1>1. Rows \subseteq Counted /\ \A b \in Rows : row[b] = attempt[b].at
  BY DEF ThrottleInv, AttemptOK, RowOK, Rows
<1>2. Counted \subseteq Evaluated /\ IsFiniteSet(Evaluated)
  BY DEF Counted, ThrottleInv
<1>3. IsFiniteSet(Counted)
  BY <1>2, NoMore
<1>4. IsFiniteSet(Rows)
  BY <1>1, <1>3, NoMore
<1> QED
  BY <1>1, <1>3, <1>4

LEMMA CountsFinite ==
  ASSUME ThrottleInv, NEW a
  PROVE  IsFiniteSet(ByIp(a)) /\ IsFiniteSet(ByKey(a))
<1>1. ByIp(a) \subseteq Rows /\ ByKey(a) \subseteq Rows
  BY DEF ByIp, ByKey, Recent
<1> QED
  BY <1>1, RowsCount, NoMore

LEMMA StaysBelow ==
  ASSUME ThrottleInv, NEW a \in Attempts, attempt[a].request \in Requests,
         attempt'[a].request = attempt[a].request, ~AtLimit(a),
         attempt[a].request.kind \in IpLimited => ByIp(a)' \subseteq ByIp(a),
         attempt[a].request.key # None => ByKey(a)' \subseteq ByKey(a)
  PROVE  ~AtLimit(a)'
<1> DEFINE r == attempt[a].request
<1>1. MaxPerIp \in Nat /\ (r.key # None => KeyLimit(r.kind) \in Nat)
  BY RequestFacts, ThrottleAssumption
<1>2. CASE r.kind \in IpLimited /\ Cardinality(ByIp(a)') >= MaxPerIp
  <2>1. Cardinality(ByIp(a)) >= MaxPerIp
    BY <1>1, <1>2, CountsFinite, NoMore
  <2> QED
    BY <1>2, <2>1 DEF AtLimit
<1>3. CASE r.key # None /\ Cardinality(ByKey(a)') >= KeyLimit(r.kind)
  <2>1. Cardinality(ByKey(a)) >= KeyLimit(r.kind)
    BY <1>1, <1>3, CountsFinite, NoMore
  <2> QED
    BY <1>3, <2>1 DEF AtLimit
<1> QED
  BY <1>2, <1>3 DEF AtLimit

LEMMA BoundedStays ==
  ASSUME ThrottleInv, Counted' \subseteq Counted,
         \A b \in Counted' : /\ attempt'[b].request = attempt[b].request
                             /\ attempt'[b].at = attempt[b].at
  PROVE  Bounded'
<1> SUFFICES ASSUME NEW a \in Counted' PROVE BoundedAt(a)'
  BY DEF Bounded
<1>1. /\ BoundedAt(a) /\ attempt[a].request \in Requests
      /\ attempt'[a].request = attempt[a].request /\ attempt'[a].at = attempt[a].at
  BY DEF ThrottleInv, Bounded, AttemptOK, Counted, Evaluated
<1>2. IpWindow(a)' \subseteq IpWindow(a) /\ KeyWindow(a)' \subseteq KeyWindow(a)
  BY <1>1 DEF IpWindow, KeyWindow, InWindow, SameKey
<1>3. IsFiniteSet(IpWindow(a)) /\ IsFiniteSet(KeyWindow(a))
  <2>1. IpWindow(a) \subseteq Counted /\ KeyWindow(a) \subseteq Counted
    BY DEF IpWindow, KeyWindow
  <2> QED
    BY <2>1, RowsCount, NoMore
<1>4. /\ MaxPerIp \in Nat
      /\ attempt[a].request.key # None => KeyLimit(attempt[a].request.kind) \in Nat
  BY <1>1, RequestFacts, ThrottleAssumption
<1>5. attempt[a].request.kind \in IpLimited => Cardinality(IpWindow(a)') <= MaxPerIp
  BY <1>1, <1>2, <1>3, <1>4, NoMore DEF BoundedAt
<1>6. attempt[a].request.key # None =>
        Cardinality(KeyWindow(a)') <= KeyLimit(attempt[a].request.kind)
  BY <1>1, <1>2, <1>3, <1>4, NoMore DEF BoundedAt
<1> QED
  BY <1>1, <1>5, <1>6 DEF BoundedAt

-----------------------------------------------------------------------------
(* The steps.                                                              *)

EvaluatedPCs == {"guesses", "wrong", "right", "done"}

(* Before the record: the attempt a goes on, or is over. *)
LEMMA WaitingKeeps ==
  ASSUME ThrottleInv, NEW a \in Attempts, NEW new \in Slot, attempt' = [attempt EXCEPT ![a] = new],
         attempt[a].pc \notin EvaluatedPCs, new.pc \notin EvaluatedPCs,
         new.pc \notin {"idle", "over"} => new.request \in Requests,
         new.since <= now, new.at <= now, Locked(a)',
         new.pc = "records" => /\ ~AtLimit(a) /\ attempt[a].request \in Requests
                               /\ new.request = attempt[a].request /\ new.since = attempt[a].since,
         \A b \in Attempts \ {a} : Held(a)' \cap Held(b) = {},
         UNCHANGED << now, row, forgiven >>
  PROVE  ThrottleInv'
<1>1. /\ attempt' \in [Attempts -> Slot] /\ attempt'[a] = new
      /\ \A b \in Attempts \ {a} : attempt'[b] = attempt[b]
  BY DEF ThrottleInv, ThrottleTypes
<1>2. a \notin Evaluated /\ Evaluated' = Evaluated /\ Counted' = Counted
  BY <1>1 DEF Evaluated, EvaluatedPCs, Counted
<1>3. a \notin Counted /\ row[a] = None
  BY <1>2 DEF Counted, ThrottleInv, AttemptOK, RowOK
<1>4. \A b \in Attempts \ {a} : Held(b)' = Held(b)
  BY <1>1 DEF Held
<1>5. Exclusive'
  BY <1>4 DEF Exclusive, ThrottleInv
<1>6. Bounded'
  BY <1>1, <1>2, <1>3, BoundedStays
<1>7. Rows' = Rows /\ \A b \in Rows : attempt'[b] = attempt[b]
  BY <1>1, <1>3 DEF Rows
<1>8. ASSUME NEW b \in Attempts, attempt'[b].since = attempt[b].since,
             attempt'[b].request = attempt[b].request
      PROVE  ByIp(b)' \subseteq ByIp(b) /\ ByKey(b)' \subseteq ByKey(b)
  BY <1>7, <1>8 DEF ByIp, ByKey, Recent, SameKey
<1>9. AttemptOK(a)'
  <2>1. RowOK(a)'
    BY <1>2, <1>3 DEF RowOK
  <2>2. attempt'[a].pc = "records" => ~AtLimit(a)'
    BY <1>1, <1>8, StaysBelow
  <2> QED
    BY <1>1, <2>1, <2>2 DEF AttemptOK
<1>10. ASSUME NEW b \in Attempts \ {a} PROVE AttemptOK(b)'
  <2>1. AttemptOK(b) /\ attempt'[b] = attempt[b]
    BY <1>1 DEF ThrottleInv
  <2>2. Locked(b)' /\ RowOK(b)'
    BY <1>2, <1>4, <2>1 DEF AttemptOK, Locked, RowOK
  <2>3. attempt'[b].pc = "records" => ~AtLimit(b)'
    BY <1>8, <2>1, StaysBelow DEF AttemptOK
  <2> QED
    BY <2>1, <2>2, <2>3 DEF AttemptOK
<1>11. ThrottleTypes'
  BY <1>1, <1>2 DEF ThrottleInv, ThrottleTypes
<1> QED
  BY <1>2, <1>5, <1>6, <1>9, <1>10, <1>11 DEF ThrottleInv

LEMMA SlotOf ==
  ASSUME ThrottleInv, NEW a \in Attempts
  PROVE  attempt[a] \in Slot /\ AttemptOK(a) /\ now \in Nat
BY DEF ThrottleInv, ThrottleTypes

(* Whoever gives up its locks. *)
LEMMA NothingHeld ==
  ASSUME NEW a, attempt'[a].locks = << >>
  PROVE  Held(a)' = {}
BY DEF Held

LEMMA LocklessKeeps ==
  ASSUME ThrottleInv, NEW a \in Attempts, attempt[a].pc \notin EvaluatedPCs,
         NEW new \in Slot, attempt' = [attempt EXCEPT ![a] = new],
         \/ new.pc = "over"
         \/ new.pc = "locks" /\ new.request \in Requests,
         new.locks = << >>, new.since <= now, new.at = 0, UNCHANGED << now, row, forgiven >>
  PROVE  ThrottleInv'
<1>1. attempt'[a] = new /\ 0 <= now
  BY SlotOf DEF ThrottleInv, ThrottleTypes
<1>2. Held(a)' = {}
  BY <1>1, NothingHeld
<1>3. Locked(a)'
  BY <1>1 DEF Locked
<1> QED
  BY <1>1, <1>2, <1>3, WaitingKeeps DEF EvaluatedPCs

LEMMA OverKeeps ==
  ASSUME ThrottleInv, NEW a \in Attempts, attempt[a].pc \in {"locks", "counts", "records"},
         Over(a), UNCHANGED << now, row, forgiven >>
  PROVE  ThrottleInv'
<1> DEFINE new == [Unused EXCEPT !.pc = "over"]
<1>1. << >> \in Seq(LockName)
  OBVIOUS
<1>2. new = [pc |-> "over", request |-> None, since |-> 0, at |-> 0, locks |-> << >>]
  BY DEF Unused
<1>3. attempt' = [attempt EXCEPT ![a] = new]
  BY DEF Over
<1> HIDE DEF new
<1>4. new \in Slot /\ new.pc = "over" /\ new.since = 0 /\ new.at = 0 /\ new.locks = << >>
  BY <1>1, <1>2 DEF Slot
<1>5. 0 <= now
  BY SlotOf
<1> QED
  BY <1>3, <1>4, <1>5, LocklessKeeps DEF EvaluatedPCs

LEMMA BeginKeeps ==
  ASSUME ThrottleInv, NEW a \in Attempts, NEW r \in Requests, Begin(a, r)
  PROVE  ThrottleInv'
<1> DEFINE new == [Unused EXCEPT !.pc = "locks", !.request = r, !.since = now]
<1>1. << >> \in Seq(LockName) /\ now \in Nat
  BY SlotOf
<1>2. Unused \in Slot /\ Unused.at = 0 /\ Unused.locks = << >>
  BY <1>1 DEF Unused, Slot
<1>3. /\ attempt' = [attempt EXCEPT ![a] = new] /\ attempt[a].pc = "idle"
      /\ UNCHANGED << now, row, forgiven >>
  BY DEF Begin
<1>4. /\ new \in Slot /\ new.pc = "locks" /\ new.request = r
      /\ new.since = now /\ new.at = 0 /\ new.locks = << >>
  BY <1>1, <1>2 DEF Slot
<1> HIDE DEF new
<1>5. attempt[a].pc \notin EvaluatedPCs /\ now <= now
  BY <1>1, <1>3 DEF EvaluatedPCs
<1>6. new.since <= now /\ new.request \in Requests
  BY <1>4, <1>5
<1> QED
  BY <1>3, <1>4, <1>5, <1>6, LocklessKeeps

LEMMA TakeLockKeeps ==
  ASSUME ThrottleInv, NEW a \in Attempts, TakeLock(a)
  PROVE  ThrottleInv'
<1> DEFINE names == LockNames(attempt[a].request)
           locks == attempt[a].locks
           next == Len(locks) + 1
<1>1. /\ attempt[a] \in Slot /\ AttemptOK(a) /\ attempt[a].pc = "locks"
      /\ attempt[a].request \in Requests
      /\ names \in Seq(LockName) /\ locks \in Seq(LockName)
  BY SlotOf, LockNamesOf DEF TakeLock, AttemptOK, Slot
<1>2. Len(locks) \in Nat /\ Len(names) \in Nat
  BY <1>1
<1>3. \A i \in 1 .. Len(locks) : i <= Len(names) /\ locks[i] = names[i]
  BY <1>1 DEF AttemptOK, Locked
<1>4. Held(a) = {locks[i] : i \in 1 .. Len(locks)}
  BY <1>1 DEF Held
<1>5. UNCHANGED << now, row, forgiven >>
  BY DEF TakeLock
<1>6. CASE next > Len(names)
  <2> DEFINE new == [attempt[a] EXCEPT !.pc = "counts"]
  <2>1. attempt' = [attempt EXCEPT ![a] = new]
    BY <1>1, <1>6 DEF TakeLock, Proceeds, ThrottleInv, ThrottleTypes
  <2>2. /\ new \in Slot /\ new.pc = "counts" /\ new.request = attempt[a].request
        /\ new.since = attempt[a].since /\ new.at = attempt[a].at /\ new.locks = locks
    BY <1>1 DEF Slot
  <2> HIDE DEF new
  <2>3. attempt'[a] = new
    BY <2>1 DEF ThrottleInv, ThrottleTypes
  <2>4. Held(a)' = Held(a)
    BY <2>2, <2>3 DEF Held
  <2>5. Locked(a)'
    <3>1. ASSUME NEW i \in 1 .. Len(names) PROVE names[i] \in Held(a)
      BY <1>2, <1>3, <1>4, <1>6
    <3> QED
      BY <2>2, <2>3, <2>4, <3>1 DEF Locked
  <2> QED
    BY <1>1, <1>5, <2>1, <2>2, <2>4, <2>5, WaitingKeeps
       DEF EvaluatedPCs, AttemptOK, ThrottleInv, Exclusive
<1>7. CASE next <= Len(names)
  <2> DEFINE taken == Append(locks, names[next])
             new == [attempt[a] EXCEPT !.locks = taken]
  <2>1. /\ attempt' = [attempt EXCEPT ![a] = new]
        /\ \A b \in Attempts : names[next] \notin Held(b)
    BY <1>1, <1>2, <1>7 DEF TakeLock, ThrottleInv, ThrottleTypes
  <2>2. /\ taken \in Seq(LockName) /\ Len(taken) = next
        /\ \A i \in 1 .. next : taken[i] = names[i]
    BY <1>1, <1>2, <1>3, <1>7
  <2> HIDE DEF taken
  <2>3. /\ new \in Slot /\ new.pc = "locks" /\ new.request = attempt[a].request
        /\ new.since = attempt[a].since /\ new.at = attempt[a].at /\ new.locks = taken
    BY <1>1, <2>2 DEF Slot
  <2> HIDE DEF new
  <2>4. attempt'[a] = new
    BY <2>1 DEF ThrottleInv, ThrottleTypes
  <2>5. Held(a)' \subseteq Held(a) \cup {names[next]}
    <3>1. Held(a)' = {taken[i] : i \in 1 .. next}
      BY <2>2, <2>3, <2>4 DEF Held
    <3>2. ASSUME NEW i \in 1 .. next PROVE taken[i] \in Held(a) \cup {names[next]}
      <4>1. CASE i = next
        BY <2>2, <4>1
      <4>2. CASE i # next
        <5>1. i \in 1 .. Len(locks)
          BY <1>2, <4>2
        <5>2. taken[i] = locks[i]
          BY <1>3, <2>2, <5>1
        <5> QED
          BY <1>4, <5>1, <5>2
      <4> QED
        BY <4>1, <4>2
    <3> QED
      BY <3>1, <3>2
  <2>6. Locked(a)'
    BY <1>2, <1>7, <2>2, <2>3, <2>4 DEF Locked
  <2>7. \A b \in Attempts \ {a} : Held(a)' \cap Held(b) = {}
    BY <2>1, <2>5 DEF ThrottleInv, Exclusive
  <2> QED
    BY <1>1, <1>5, <2>1, <2>3, <2>6, <2>7, WaitingKeeps DEF EvaluatedPCs, AttemptOK
<1> QED
  BY <1>2, <1>6, <1>7

LEMMA CountKeeps ==
  ASSUME ThrottleInv, NEW a \in Attempts, Count(a)
  PROVE  ThrottleInv'
<1> DEFINE new == [attempt[a] EXCEPT !.pc = "records"]
<1>1. /\ attempt[a] \in Slot /\ AttemptOK(a) /\ attempt[a].pc = "counts"
      /\ ~AtLimit(a) /\ attempt[a].request \in Requests /\ UNCHANGED << now, row, forgiven >>
  BY SlotOf DEF Count, AttemptOK
<1>2. attempt' = [attempt EXCEPT ![a] = new]
  BY DEF Count, Proceeds, ThrottleInv, ThrottleTypes
<1>3. /\ new \in Slot /\ new.pc = "records" /\ new.request = attempt[a].request
      /\ new.since = attempt[a].since /\ new.at = attempt[a].at /\ new.locks = attempt[a].locks
  BY <1>1 DEF Slot
<1> HIDE DEF new
<1>4. attempt'[a] = new
  BY <1>2 DEF ThrottleInv, ThrottleTypes
<1>5. Held(a)' = Held(a)
  BY <1>3, <1>4 DEF Held
<1>6. Locked(a)'
  BY <1>1, <1>3, <1>4, <1>5 DEF Locked, AttemptOK
<1> QED
  BY <1>1, <1>2, <1>3, <1>5, <1>6, WaitingKeeps
     DEF EvaluatedPCs, AttemptOK, ThrottleInv, Exclusive

(* After the record: verdicts, successes, the pruning, time. *)
LEMMA LaterKeeps ==
  ASSUME ThrottleInv, ThrottleTypes', now <= now',
         \A a \in Attempts :
           \/ attempt'[a] = attempt[a]
           \/ /\ attempt[a].pc \in EvaluatedPCs /\ attempt'[a].pc \in EvaluatedPCs
              /\ attempt'[a].request = attempt[a].request /\ attempt'[a].since = attempt[a].since
              /\ attempt'[a].at = attempt[a].at /\ attempt'[a].locks = attempt[a].locks,
         forgiven \subseteq forgiven',
         \A a \in Attempts :
           \/ row'[a] = row[a] /\ (a \in forgiven' \ forgiven => row[a] = None)
           \/ row'[a] = None /\ (a \in forgiven' \/ (row[a] # None /\ row[a] + Window < now'))
  PROVE  ThrottleInv'
<1>1. Evaluated' = Evaluated /\ Counted' \subseteq Counted
  BY DEF Evaluated, EvaluatedPCs, Counted
<1>2. \A a \in Attempts : /\ attempt'[a].request = attempt[a].request
                          /\ attempt'[a].since = attempt[a].since
                          /\ attempt'[a].at = attempt[a].at /\ attempt'[a].locks = attempt[a].locks
                          /\ attempt'[a].pc \notin EvaluatedPCs => attempt'[a] = attempt[a]
  OBVIOUS
<1>3. Bounded'
  BY <1>1, <1>2, BoundedStays DEF Counted, Evaluated
<1>4. \A a \in Attempts : Held(a)' = Held(a)
  BY <1>2 DEF Held
<1>5. Exclusive'
  BY <1>4 DEF ThrottleInv, Exclusive
<1>6. \A b \in Rows' : b \in Rows /\ row'[b] = row[b]
  BY DEF Rows
<1>7. \A a \in Attempts : ByIp(a)' \subseteq ByIp(a) /\ ByKey(a)' \subseteq ByKey(a)
  BY <1>2, <1>6 DEF ByIp, ByKey, Recent, SameKey, Rows
<1>8. ASSUME NEW a \in Attempts PROVE AttemptOK(a)'
  <2>1. AttemptOK(a) /\ attempt[a] \in Slot /\ now \in Nat /\ now' \in Nat
    BY SlotOf DEF ThrottleTypes
  <2>2. Locked(a)'
    BY <1>2, <1>4, <2>1 DEF AttemptOK, Locked, EvaluatedPCs
  <2>3. RowOK(a)'
    <3>1. RowOK(a) /\ row[a] \in Nat \cup {None} /\ attempt[a].at \in Nat /\ Window \in Nat
      BY <2>1, ThrottleAssumption DEF AttemptOK, Slot, ThrottleInv, ThrottleTypes
    <3>2. row'[a] # None => a \in Counted' /\ row'[a] = attempt'[a].at
      BY <1>1, <1>2, <3>1 DEF RowOK, Counted
    <3>3. a \in Counted' => row'[a] = attempt'[a].at \/ attempt'[a].at + Window < now'
      BY <1>1, <1>2, <2>1, <3>1 DEF RowOK, Counted
    <3> QED
      BY <3>2, <3>3 DEF RowOK
  <2>4. attempt'[a].pc = "records" => ~AtLimit(a)'
    <3>1. attempt'[a].pc = "records" => attempt'[a] = attempt[a]
      BY <1>2 DEF EvaluatedPCs
    <3> QED
      BY <1>7, <2>1, <3>1, StaysBelow DEF AttemptOK
  <2>5. attempt'[a].pc \notin {"idle", "over"} => attempt'[a].request \in Requests
    BY <2>1 DEF AttemptOK, EvaluatedPCs
  <2>6. attempt'[a].since <= now' /\ attempt'[a].at <= now'
    BY <1>2, <2>1 DEF AttemptOK, Slot
  <2> QED
    BY <2>2, <2>3, <2>4, <2>5, <2>6 DEF AttemptOK
<1> QED
  BY <1>1, <1>3, <1>5, <1>8 DEF ThrottleInv

(* The record: one row more, for the one that counted. *)
LEMMA RecordKeeps ==
  ASSUME ThrottleInv, NEW c \in Attempts, Record(c)
  PROVE  ThrottleInv'
<1> DEFINE new == [attempt[c] EXCEPT !.pc = "guesses", !.at = now, !.locks = << >>]
<1>1. /\ attempt[c] \in Slot /\ AttemptOK(c) /\ now \in Nat /\ attempt[c].pc = "records"
      /\ attempt[c].request \in Requests /\ ~AtLimit(c) /\ UNCHANGED << now, forgiven >>
      /\ row' = [row EXCEPT ![c] = now] /\ row \in [Attempts -> Nat \cup {None}]
      /\ attempt \in [Attempts -> Slot]
  BY SlotOf DEF Record, AttemptOK, ThrottleInv, ThrottleTypes
<1>2. attempt' = [attempt EXCEPT ![c] = new]
  BY <1>1 DEF Record
<1>3. << >> \in Seq(LockName)
  OBVIOUS
<1>4. /\ new \in Slot /\ new.pc = "guesses" /\ new.request = attempt[c].request
      /\ new.since = attempt[c].since /\ new.at = now /\ new.locks = << >>
  BY <1>1, <1>3 DEF Slot
<1> HIDE DEF new
<1>5. /\ attempt' \in [Attempts -> Slot] /\ attempt'[c] = new
      /\ \A b \in Attempts \ {c} : attempt'[b] = attempt[b]
      /\ row' \in [Attempts -> Nat \cup {None}] /\ row'[c] = now
      /\ \A b \in Attempts \ {c} : row'[b] = row[b]
  BY <1>1, <1>2, <1>4
<1>6. /\ c \notin Evaluated /\ Evaluated' = Evaluated \cup {c}
      /\ c \notin forgiven /\ c \notin Counted /\ Counted' = Counted \cup {c}
  BY <1>1, <1>4, <1>5 DEF Evaluated, Counted, ThrottleInv, ThrottleTypes
<1>7. row[c] = None
  BY <1>1, <1>6 DEF AttemptOK, RowOK
<1>8. ThrottleTypes' /\ IsFiniteSet(Evaluated')
  <2>1. IsFiniteSet(Evaluated')
    BY <1>6, FS_AddElement DEF ThrottleInv
  <2> QED
    BY <1>1, <1>5, <1>6, <2>1 DEF ThrottleInv, ThrottleTypes
<1>9. Held(c)' = {} /\ \A b \in Attempts \ {c} : Held(b)' = Held(b)
  BY <1>4, <1>5, NothingHeld DEF Held
<1>10. Exclusive'
  BY <1>9 DEF ThrottleInv, Exclusive
<1>11. AttemptOK(c)'
  BY <1>1, <1>4, <1>5, <1>6 DEF AttemptOK, Locked, RowOK, Slot
<1>12. ASSUME NEW d \in Attempts \ {c} PROVE AttemptOK(d)'
  <2>1. AttemptOK(d) /\ attempt'[d] = attempt[d] /\ row'[d] = row[d]
    BY <1>5 DEF ThrottleInv
  <2>2. Locked(d)' /\ RowOK(d)'
    BY <1>1, <1>6, <1>9, <2>1 DEF AttemptOK, Locked, RowOK
  <2>3. attempt[d].pc = "records" => ~AtLimit(d)'
    <3> SUFFICES ASSUME attempt[d].pc = "records" PROVE ~AtLimit(d)'
      OBVIOUS
    <3>1. /\ ~(/\ attempt[c].request.kind \in IpLimited /\ attempt[d].request.kind \in IpLimited
               /\ attempt[c].request.ip = attempt[d].request.ip)
          /\ attempt[d].request.key # None => ~SameKey(c, d)
      BY <1>1, CountedAlone
    <3>2. \A b \in Rows' \ {c} : b \in Rows /\ row'[b] = row[b] /\ attempt'[b] = attempt[b]
      BY <1>5 DEF Rows
    <3>3. attempt[d].request.kind \in IpLimited => ByIp(d)' \subseteq ByIp(d)
      <4>1. attempt[d].request.kind \in IpLimited => c \notin ByIp(d)'
        BY <1>4, <1>5, <2>1, <3>1 DEF ByIp
      <4> QED
        BY <2>1, <3>2, <4>1 DEF ByIp, Recent
    <3>4. attempt[d].request.key # None => ByKey(d)' \subseteq ByKey(d)
      <4>1. attempt[d].request.key # None => c \notin ByKey(d)'
        BY <1>4, <1>5, <2>1, <3>1 DEF ByKey, SameKey
      <4> QED
        BY <2>1, <3>2, <4>1 DEF ByKey, Recent, SameKey
    <3>5. ~AtLimit(d) /\ attempt[d].request \in Requests
      BY <2>1 DEF AttemptOK
    <3> QED
      BY <2>1, <3>3, <3>4, <3>5, StaysBelow
  <2> QED
    BY <1>1, <2>1, <2>2, <2>3 DEF AttemptOK
(* Whatever was recorded in a window that the new row is in was counted.   *)
<1>13. ASSUME NEW a \in Counted', NEW b \in Counted, InWindow(c, a)', InWindow(b, a)'
       PROVE  b \in Recent(c)
  <2>1. /\ b \in Attempts /\ b # c /\ attempt'[b] = attempt[b] /\ AttemptOK(b)
        /\ attempt[b].at \in Nat /\ attempt[c].since \in Nat /\ Window \in Nat
    BY <1>1, <1>5, <1>6, ThrottleAssumption DEF Counted, Evaluated, ThrottleInv, Slot
  <2>2. a \in Attempts /\ attempt'[a].at \in Nat
    BY <1>5, <1>6 DEF Counted, Evaluated, Slot
  <2>3. now <= attempt'[a].at + Window /\ attempt'[a].at <= attempt[b].at
    BY <1>4, <1>5, <1>13, <2>1, <2>2 DEF InWindow
  <2>4. attempt[b].at + Window >= now /\ now >= attempt[c].since
    BY <1>1, <2>1, <2>2, <2>3 DEF AttemptOK
  <2>5. row[b] = attempt[b].at
    BY <1>1, <2>1, <2>4 DEF AttemptOK, RowOK
  <2>6. row[b] # None
    BY <2>1, <2>5, ClockAssumption
  <2> QED
    BY <1>1, <2>1, <2>4, <2>5, <2>6 DEF Recent, Rows
<1>14. ASSUME NEW a \in Counted' PROVE BoundedAt(a)'
  <2>1. /\ a \in Attempts /\ attempt'[a].request \in Requests
        /\ a # c => a \in Counted /\ attempt'[a] = attempt[a] /\ BoundedAt(a)
    BY <1>1, <1>4, <1>5, <1>6 DEF Counted, Evaluated, ThrottleInv, AttemptOK, Bounded
  <2>2. /\ MaxPerIp \in Nat
        /\ attempt'[a].request.key # None => KeyLimit(attempt'[a].request.kind) \in Nat
    BY <2>1, RequestFacts, ThrottleAssumption
  <2>3. \A b \in Counted : attempt'[b] = attempt[b]
    BY <1>5, <1>6 DEF Counted, Evaluated
  <2>4. ASSUME attempt'[a].request.kind \in IpLimited
        PROVE  Cardinality(IpWindow(a)') <= MaxPerIp
    <3>1. CASE c \in IpWindow(a)'
      <4>1. /\ InWindow(c, a)' /\ attempt[c].request.kind \in IpLimited
            /\ attempt[c].request.ip = attempt'[a].request.ip
        BY <1>4, <1>5, <3>1 DEF IpWindow
      <4>2. IpWindow(a)' \subseteq ByIp(c) \cup {c}
        BY <1>6, <1>13, <2>3, <4>1 DEF IpWindow, ByIp
      <4>3. ~(Cardinality(ByIp(c)) >= MaxPerIp)
        BY <1>1, <4>1 DEF AtLimit
      <4> QED
        BY <2>2, <4>2, <4>3, CountsFinite, OneMore
    <3>2. CASE c \notin IpWindow(a)'
      <4>1. a # c
        BY <1>4, <1>5, <1>6, <2>4, <3>2, ThrottleAssumption, <1>1 DEF IpWindow, InWindow
      <4>2. IpWindow(a)' \subseteq IpWindow(a)
        BY <1>6, <2>1, <2>3, <3>2, <4>1 DEF IpWindow, InWindow
      <4>3. IpWindow(a) \subseteq Counted
        BY DEF IpWindow
      <4>4. IsFiniteSet(IpWindow(a))
        BY <4>3, RowsCount, NoMore
      <4> QED
        BY <2>1, <2>2, <2>4, <4>1, <4>2, <4>4, NoMore DEF BoundedAt
    <3> QED
      BY <3>1, <3>2
  <2>5. ASSUME attempt'[a].request.key # None
        PROVE  Cardinality(KeyWindow(a)') <= KeyLimit(attempt'[a].request.kind)
    <3>1. CASE c \in KeyWindow(a)'
      <4>1. /\ InWindow(c, a)' /\ attempt[c].request.kind = attempt'[a].request.kind
            /\ attempt[c].request.key = attempt'[a].request.key
        BY <1>4, <1>5, <3>1 DEF KeyWindow, SameKey
      <4>2. KeyWindow(a)' \subseteq ByKey(c) \cup {c}
        BY <1>6, <1>13, <2>3, <4>1 DEF KeyWindow, ByKey, SameKey
      <4>3. ~(Cardinality(ByKey(c)) >= KeyLimit(attempt'[a].request.kind))
        BY <1>1, <2>5, <4>1 DEF AtLimit
      <4> QED
        BY <2>2, <2>5, <4>2, <4>3, CountsFinite, OneMore
    <3>2. CASE c \notin KeyWindow(a)'
      <4>1. a # c
        BY <1>4, <1>5, <1>6, <2>5, <3>2, ThrottleAssumption, <1>1
           DEF KeyWindow, InWindow, SameKey
      <4>2. KeyWindow(a)' \subseteq KeyWindow(a)
        BY <1>6, <2>1, <2>3, <3>2, <4>1 DEF KeyWindow, InWindow, SameKey
      <4>3. KeyWindow(a) \subseteq Counted
        BY DEF KeyWindow
      <4>4. IsFiniteSet(KeyWindow(a))
        BY <4>3, RowsCount, NoMore
      <4> QED
        BY <2>1, <2>2, <2>5, <4>1, <4>2, <4>4, NoMore DEF BoundedAt
    <3> QED
      BY <3>1, <3>2
  <2> QED
    BY <2>4, <2>5 DEF BoundedAt
<1> QED
  BY <1>8, <1>10, <1>11, <1>12, <1>14 DEF ThrottleInv, Bounded

LEMMA VerdictKeeps ==
  ASSUME ThrottleInv, NEW a \in Attempts, attempt[a].pc \in {"guesses", "right"},
         NEW pc \in {"wrong", "right", "done"}, Proceeds(a, pc), now' = now,
         row' \in [Attempts -> Nat \cup {None}],
         forgiven \subseteq forgiven', forgiven' \subseteq Evaluated,
         \A b \in Attempts :
           \/ row'[b] = row[b] /\ (b \in forgiven' \ forgiven => row[b] = None)
           \/ row'[b] = None /\ b \in forgiven'
  PROVE  ThrottleInv'
<1> DEFINE new == [attempt[a] EXCEPT !.pc = pc]
<1>1. attempt \in [Attempts -> Slot] /\ attempt[a] \in Slot /\ now \in Nat
  BY DEF ThrottleInv, ThrottleTypes
<1>2. attempt' = [attempt EXCEPT ![a] = new]
  BY <1>1 DEF Proceeds
<1>3. /\ new \in Slot /\ new.pc = pc /\ new.request = attempt[a].request
      /\ new.since = attempt[a].since /\ new.at = attempt[a].at /\ new.locks = attempt[a].locks
  BY <1>1 DEF Slot
<1> HIDE DEF new
<1>4. /\ attempt' \in [Attempts -> Slot] /\ attempt'[a] = new
      /\ \A b \in Attempts \ {a} : attempt'[b] = attempt[b]
  BY <1>1, <1>2, <1>3
<1>5. Evaluated' = Evaluated
  BY <1>3, <1>4 DEF Evaluated
<1>6. ThrottleTypes'
  BY <1>1, <1>4, <1>5 DEF ThrottleTypes
<1>7. \A b \in Attempts :
        \/ attempt'[b] = attempt[b]
        \/ /\ attempt[b].pc \in EvaluatedPCs /\ attempt'[b].pc \in EvaluatedPCs
           /\ attempt'[b].request = attempt[b].request /\ attempt'[b].since = attempt[b].since
           /\ attempt'[b].at = attempt[b].at /\ attempt'[b].locks = attempt[b].locks
  BY <1>3, <1>4 DEF EvaluatedPCs
<1>8. now <= now'
  BY <1>1
<1> QED
  BY <1>6, <1>7, <1>8, LaterKeeps

LEMMA EndAttemptKeeps ==
  ASSUME ThrottleInv, NEW a \in Attempts, EndAttempt(a)
  PROVE  ThrottleInv'
<1>1. /\ row \in [Attempts -> Nat \cup {None}] /\ forgiven \subseteq Evaluated
      /\ a \in Evaluated /\ Rows \subseteq Evaluated
  BY RowsCount DEF ThrottleInv, ThrottleTypes, EndAttempt, Evaluated, Counted
<1>2. row' = [b \in Attempts |-> IF b \in Clears(a) THEN None ELSE row[b]]
  BY DEF EndAttempt
<1>3. row' \in [Attempts -> Nat \cup {None}]
  BY <1>1, <1>2
<1>4. forgiven \subseteq forgiven' /\ forgiven' \subseteq Evaluated
  BY <1>1 DEF EndAttempt, Evaluated
<1>5. Clears(a) \subseteq forgiven'
  BY <1>1 DEF Clears, EndAttempt, SameKey, Evaluated
<1>6. ASSUME NEW b \in forgiven' \ forgiven, b \notin Clears(a) PROVE row[b] = None
  BY <1>1, <1>4, <1>6 DEF Clears, EndAttempt, SameKey, Rows, Evaluated
<1>7. \A b \in Attempts :
        \/ row'[b] = row[b] /\ (b \in forgiven' \ forgiven => row[b] = None)
        \/ row'[b] = None /\ b \in forgiven'
  BY <1>2, <1>5, <1>6
<1>8. attempt[a].pc = "right" /\ Proceeds(a, "done") /\ now' = now
  BY DEF EndAttempt
<1> QED
  BY <1>3, <1>4, <1>7, <1>8, VerdictKeeps

LEMMA NoAttemptKeeps ==
  ASSUME ThrottleInv, Prune \/ ThrottleTick \/ UNCHANGED throttleVars
  PROVE  ThrottleInv'
<1>1. /\ now \in Nat /\ now' \in Nat /\ now <= now' /\ UNCHANGED << attempt, forgiven >>
  BY DEF ThrottleInv, ThrottleTypes, Prune, ThrottleTick, throttleVars
<1>2. /\ row' \in [Attempts -> Nat \cup {None}]
      /\ \A a \in Attempts : \/ row'[a] = row[a]
                             \/ row'[a] = None /\ row[a] # None /\ row[a] + Window < now'
  BY DEF ThrottleInv, ThrottleTypes, Prune, ThrottleTick, throttleVars, Rows
<1>3. ThrottleTypes'
  BY <1>1, <1>2 DEF ThrottleInv, ThrottleTypes, Evaluated
<1> QED
  BY <1>1, <1>2, <1>3, LaterKeeps

LEMMA ThrottleStarts == ThrottleInit => ThrottleInv
<1> SUFFICES ASSUME ThrottleInit PROVE ThrottleInv
  OBVIOUS
<1>1. << >> \in Seq(LockName) /\ \A a \in Attempts : attempt[a] = Unused /\ row[a] = None
  BY DEF ThrottleInit
<1>2. Evaluated = {} /\ Counted = {}
  BY <1>1 DEF Evaluated, Counted, Unused
<1>3. ThrottleTypes
  <2>1. Unused \in Slot
    BY <1>1 DEF Unused, Slot
  <2> QED
    BY <1>2, <2>1 DEF ThrottleInit, ThrottleTypes
<1>4. IsFiniteSet(Evaluated) /\ Bounded
  BY <1>2, FS_EmptySet DEF Bounded
<1>5. \A a \in Attempts : Held(a) = {}
  BY <1>1 DEF Held, Unused
<1>6. \A a \in Attempts : AttemptOK(a)
  BY <1>1, <1>2 DEF ThrottleInit, AttemptOK, Locked, RowOK, Unused
<1> QED
  BY <1>3, <1>4, <1>5, <1>6 DEF ThrottleInv, Exclusive

LEMMA ThrottleStepKeeps == ThrottleInv /\ [ThrottleNext]_throttleVars => ThrottleInv'
<1> SUFFICES ASSUME ThrottleInv, [ThrottleNext]_throttleVars PROVE ThrottleInv'
  OBVIOUS
<1>1. ASSUME NEW a \in Attempts, NEW r \in Requests, Begin(a, r) PROVE ThrottleInv'
  BY <1>1, BeginKeeps
<1>2. ASSUME NEW a \in Attempts, TakeLock(a) PROVE ThrottleInv'
  BY <1>2, TakeLockKeeps
<1>3. ASSUME NEW a \in Attempts, Refuse(a) \/ RollBack(a) PROVE ThrottleInv'
  BY <1>3, OverKeeps DEF Refuse, RollBack
<1>4. ASSUME NEW a \in Attempts, Count(a) PROVE ThrottleInv'
  BY <1>4, CountKeeps
<1>5. ASSUME NEW a \in Attempts, Record(a) PROVE ThrottleInv'
  BY <1>5, RecordKeeps
<1>6. ASSUME NEW a \in Attempts, GuessWrong(a) \/ GuessRight(a) PROVE ThrottleInv'
  <2>1. /\ attempt[a].pc = "guesses" /\ UNCHANGED << now, row, forgiven >>
        /\ Proceeds(a, "wrong") \/ Proceeds(a, "right")
    BY <1>6 DEF GuessWrong, GuessRight
  <2>2. forgiven \subseteq Evaluated /\ row \in [Attempts -> Nat \cup {None}]
    BY DEF ThrottleInv, ThrottleTypes
  <2> QED
    BY <2>1, <2>2, VerdictKeeps
<1>7. ASSUME NEW a \in Attempts, EndAttempt(a) PROVE ThrottleInv'
  BY <1>7, EndAttemptKeeps
<1> QED
  BY <1>1, <1>2, <1>3, <1>4, <1>5, <1>6, <1>7, NoAttemptKeeps DEF ThrottleNext, AttemptStep

(* The invariant of the throttle: who has counted holds its locks, nobody  *)
(* holds another's, the rows are those of the attempts that count, and     *)
(* the limits are kept (reserveAttempt, endAttempt, pruneLoginFailures).   *)
THEOREM ThrottleInductive == ThrottleSpec => []ThrottleInv
BY ThrottleStarts, ThrottleStepKeeps, PTL DEF ThrottleSpec

(* Every attempt has a request that its kind allows, and nothing is        *)
(* forgiven that was not compared (reserveAttempt, endAttempt).            *)
THEOREM ThrottleTypeCorrect == ThrottleSpec => []ThrottleTypes
<1>1. ThrottleInv => ThrottleTypes
  BY DEF ThrottleInv
<1> QED
  BY <1>1, ThrottleInductive, PTL

(* Two transactions of the same address, or of the same kind against the   *)
(* same key, are never both between their locks and their row, whatever    *)
(* else they are locked on (reserveAttempt, local-accounts.ts:133-206).    *)
ReservesAlone ==
  \A a, b \in Attempts :
    (/\ a # b
     /\ attempt[a].pc \in {"counts", "records"} /\ attempt[b].pc \in {"counts", "records"})
    => /\ ~(/\ attempt[a].request.kind \in IpLimited /\ attempt[b].request.kind \in IpLimited
            /\ attempt[a].request.ip = attempt[b].request.ip)
       /\ attempt[a].request.key # None => ~SameKey(b, a)

THEOREM NoTwoReserve == ThrottleSpec => []ReservesAlone
<1>1. ThrottleInv => ReservesAlone
  BY CountedAlone DEF ReservesAlone
<1> QED
  BY <1>1, ThrottleInductive, PTL

(* GuessesBounded for any number of attempts, addresses and keys, any      *)
(* limits and any window (local-accounts.ts:34-46).                        *)
THEOREM GuessesStayBounded == ThrottleSpec => []GuessesBounded
<1>1. ThrottleInv => GuessesBounded
  <2> SUFFICES ASSUME ThrottleInv, NEW a \in Evaluated \ forgiven
               PROVE  LET window == {b \in Evaluated \ forgiven :
                                       attempt[b].at \in attempt[a].at .. attempt[a].at + Window}
                          r == attempt[a].request IN
                      /\ r.kind \in IpLimited =>
                           Cardinality({b \in window : /\ attempt[b].request.kind \in IpLimited
                                                       /\ attempt[b].request.ip = r.ip}) <= MaxPerIp
                      /\ r.key # None =>
                           Cardinality({b \in window : /\ attempt[b].request.kind = r.kind
                                                       /\ attempt[b].request.key = r.key})
                             <= KeyLimit(r.kind)
    BY DEF GuessesBounded
  <2> DEFINE window == {b \in Evaluated \ forgiven :
                          attempt[b].at \in attempt[a].at .. attempt[a].at + Window}
             r == attempt[a].request
  <2>1. BoundedAt(a)
    BY DEF ThrottleInv, Bounded, Counted
  <2>2. {b \in window : attempt[b].request.kind \in IpLimited /\ attempt[b].request.ip = r.ip}
          = IpWindow(a)
    BY DEF IpWindow, InWindow, Counted
  <2>3. {b \in window : attempt[b].request.kind = r.kind /\ attempt[b].request.key = r.key}
          = KeyWindow(a)
    BY DEF KeyWindow, InWindow, SameKey, Counted
  <2> QED
    BY <2>1, <2>2, <2>3 DEF BoundedAt
<1> QED
  BY <1>1, ThrottleInductive, PTL

(* RefusedWithCause, likewise (local-accounts.ts:113-117, 133-142).        *)
THEOREM NobodyRefusedWithoutCause == ThrottleSpec => []RefusedWithCause
<1>1. ThrottleInv => RefusedWithCause
  <2> SUFFICES ASSUME ThrottleInv, NEW a \in Attempts, attempt[a].pc = "counts", AtLimit(a)
               PROVE  LET r == attempt[a].request IN
                      \/ r.kind \in IpLimited /\
                           Cardinality({b \in Cause(a) : /\ attempt[b].request.kind \in IpLimited
                                                         /\ attempt[b].request.ip = r.ip}) >= MaxPerIp
                      \/ r.key # None /\
                           Cardinality({b \in Cause(a) : /\ attempt[b].request.kind = r.kind
                                                         /\ attempt[b].request.key = r.key})
                             >= KeyLimit(r.kind)
    BY DEF RefusedWithCause
  <2> DEFINE r == attempt[a].request
             ofIp == {b \in Cause(a) : attempt[b].request.kind \in IpLimited /\ attempt[b].request.ip = r.ip}
             ofKey == {b \in Cause(a) : attempt[b].request.kind = r.kind /\ attempt[b].request.key = r.key}
  <2>1. ofIp \subseteq Counted /\ ofKey \subseteq Counted
    BY DEF Cause, Counted
  <2>2. IsFiniteSet(ofIp) /\ IsFiniteSet(ofKey)
    BY <2>1, RowsCount, NoMore
  <2>3. ByIp(a) \subseteq ofIp /\ ByKey(a) \subseteq ofKey
    BY RowsCount DEF ByIp, ByKey, SameKey, Recent, Cause, Counted
  <2>4. MaxPerIp \in Nat /\ (r.key # None => KeyLimit(r.kind) \in Nat)
    BY RequestFacts, ThrottleAssumption DEF ThrottleInv, AttemptOK
  <2> HIDE DEF ofIp, ofKey
  <2>5. /\ Cardinality(ByIp(a)) >= MaxPerIp => Cardinality(ofIp) >= MaxPerIp
        /\ r.key # None /\ Cardinality(ByKey(a)) >= KeyLimit(r.kind)
             => Cardinality(ofKey) >= KeyLimit(r.kind)
    BY <2>2, <2>3, <2>4, NoMore
  <2> USE DEF ofIp, ofKey
  <2> QED
    BY <2>5 DEF AtLimit
<1> QED
  BY <1>1, ThrottleInductive, PTL

-----------------------------------------------------------------------------
(* Who waits for a lock holds only locks that are sorted before it, so     *)
(* that waits never come round to where they began.                        *)

Waits(a) ==
  attempt[a].pc = "locks" /\ Len(attempt[a].locks) < Len(LockNames(attempt[a].request))

Wanted(a) == LockNames(attempt[a].request)[Len(attempt[a].locks) + 1]

WaitsFor(a, b) == Waits(a) /\ Wanted(a) \in Held(b)

NoCircularWait ==
  \A S \in SUBSET Attempts : S # {} => \E a \in S : \A b \in S : ~WaitsFor(a, b)

(* The order of the names: login:device, login:ip, and the other keys.     *)
Rank(name) == IF name[1] = "device" THEN 0 ELSE IF name[1] = "ip" THEN 1 ELSE 2

LEMMA NamesAreSorted ==
  ASSUME NEW r \in Requests, NEW i \in 1 .. Len(LockNames(r)), NEW j \in 1 .. Len(LockNames(r)),
         i < j
  PROVE  Rank(LockNames(r)[i]) < Rank(LockNames(r)[j])
<1>1. r.kind \in {"login", "device", "password_change", "setup"}
  BY RequestFacts
<1>2. IpLock(r) = << >> \/ IpLock(r) = << << "ip", r.ip >> >>
  BY DEF IpLock
<1>3. KeyLock(r) = << >> \/ KeyLock(r) = << << r.kind, r.key >> >>
  BY DEF KeyLock
<1>4. CASE IpLock(r) = << >> \/ KeyLock(r) = << >>
  <2>1. Len(LockNames(r)) \in {0, 1}
    BY <1>2, <1>3, <1>4 DEF LockNames
  <2> QED
    BY <2>1
<1>5. CASE /\ IpLock(r) = << << "ip", r.ip >> >>
           /\ KeyLock(r) = << << r.kind, r.key >> >>
  <2> DEFINE ip == << "ip", r.ip >>
             key == << r.kind, r.key >>
  <2>1. Rank(ip) = 1 /\ Rank(key) = IF r.kind = "device" THEN 0 ELSE 2
    BY <1>1 DEF Rank
  <2>2. LockNames(r) = IF r.kind = "device" THEN << key >> \o << ip >> ELSE << ip >> \o << key >>
    BY <1>5 DEF LockNames
  <2> HIDE DEF ip, key
  <2>3. ASSUME NEW x, NEW y
        PROVE  /\ Len(<< x >> \o << y >>) = 2
               /\ (<< x >> \o << y >>)[1] = x /\ (<< x >> \o << y >>)[2] = y
    OBVIOUS
  <2>4. /\ Len(LockNames(r)) = 2
        /\ r.kind = "device" => LockNames(r)[1] = key /\ LockNames(r)[2] = ip
        /\ r.kind # "device" => LockNames(r)[1] = ip /\ LockNames(r)[2] = key
    <3> DEFINE names == LockNames(r)
    <3>1. CASE r.kind = "device"
      <4>1. names = << key >> \o << ip >>
        BY <2>2, <3>1
      <4> HIDE DEF names
      <4>2. Len(names) = 2 /\ names[1] = key /\ names[2] = ip
        BY <2>3, <4>1
      <4> QED
        BY <3>1, <4>2 DEF names
    <3>2. CASE r.kind # "device"
      <4>1. names = << ip >> \o << key >>
        BY <2>2, <3>2
      <4> HIDE DEF names
      <4>2. Len(names) = 2 /\ names[1] = ip /\ names[2] = key
        BY <2>3, <4>1
      <4> QED
        BY <3>2, <4>2 DEF names
    <3> QED
      BY <3>1, <3>2
  <2>5. i = 1 /\ j = 2
    BY <2>4
  <2> QED
    BY <2>1, <2>4, <2>5
<1> QED
  BY <1>2, <1>3, <1>4, <1>5

LEMMA WaitsRise ==
  ASSUME ThrottleInv, NEW a \in Attempts, NEW b \in Attempts, WaitsFor(a, b), Waits(b)
  PROVE  Rank(Wanted(a)) < Rank(Wanted(b))
<1> DEFINE names == LockNames(attempt[b].request)
           locks == attempt[b].locks
<1>1. attempt[b] \in Slot /\ AttemptOK(b) /\ attempt[b].pc = "locks" /\ attempt[b].request \in Requests
  BY SlotOf DEF Waits, AttemptOK
<1>2. names \in Seq(LockName) /\ locks \in Seq(LockName)
  BY <1>1, LockNamesOf DEF Slot
<1>3. PICK i \in 1 .. Len(locks) : Wanted(a) = locks[i]
  BY <1>2 DEF WaitsFor, Held
<1>4. Wanted(a) = names[i]
  BY <1>1, <1>3 DEF AttemptOK, Locked
<1>5. /\ i \in 1 .. Len(names) /\ Len(locks) + 1 \in 1 .. Len(names) /\ i < Len(locks) + 1
      /\ Wanted(b) = names[Len(locks) + 1]
  BY <1>2, <1>3 DEF Waits, Wanted
<1> QED
  BY <1>1, <1>4, <1>5, NamesAreSorted

(* Attempts that wait for each other's advisory locks never wait in a      *)
(* circle, which only the timeout of the transaction could break: the      *)
(* names are sorted (reserveAttempt, local-accounts.ts:78-83).             *)
THEOREM NobodyWaitsInACircle == ThrottleSpec => []NoCircularWait
<1>1. ThrottleInv => NoCircularWait
  <2> SUFFICES ASSUME ThrottleInv, NEW S \in SUBSET Attempts, S # {},
                      \A a \in S : \E b \in S : WaitsFor(a, b)
               PROVE  FALSE
    BY DEF NoCircularWait
  <2>1. \A a \in S : Rank(Wanted(a)) \in 0 .. 2
    BY DEF Rank
  <2>2. \A a \in S : \E b \in S : Rank(Wanted(a)) < Rank(Wanted(b))
    BY WaitsRise DEF WaitsFor
  <2>3. PICK a \in S, b \in S, c \in S, d \in S :
          /\ Rank(Wanted(a)) < Rank(Wanted(b)) /\ Rank(Wanted(b)) < Rank(Wanted(c))
          /\ Rank(Wanted(c)) < Rank(Wanted(d))
    BY <2>2
  <2> QED
    BY <2>1, <2>3
<1> QED
  BY <1>1, ThrottleInductive, PTL
=============================================================================
