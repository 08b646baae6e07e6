--------------------------- MODULE LoginThrottle ---------------------------
(***************************************************************************)
(* The throttle of everything that can be guessed at (local-accounts.ts):  *)
(* an attempt is recorded, under advisory locks, before the secret is      *)
(* compared.  Four kinds of attempt share one table, login_failures.  A    *)
(* row is named after the attempt it was inserted for, and an attempt      *)
(* happens once.  Keys are plain strings: a username may be spelled like   *)
(* the nonce of a device cookie or like the id of a user.                  *)
(*                                                                         *)
(* Init, Next and Spec carry the name of the module, because the theorems  *)
(* about it stand beside those about Sessions.                             *)
(***************************************************************************)
EXTENDS LocalAccounts, FiniteSets, Sequences

CONSTANTS
  Attempts, Addresses, Keys,
  MaxPerIp, MaxPerUsername, MaxPerCookie, MaxPerUser,
  Window      \* FAILURE_WINDOW_MS

ASSUME ThrottleAssumption ==
  {MaxPerIp, MaxPerUsername, MaxPerCookie, MaxPerUser, Window} \subseteq Nat

VARIABLES
  attempt,    \* attempt[a]: its request, its pc, its row and the locks it has taken
  row,        \* row[a]: failed_at of the row inserted for a, or None
  forgiven    \* history: the attempts that a success has cleared

throttleVars == << now, attempt, row, forgiven >>

-----------------------------------------------------------------------------
(* The requests: beginLoginAttempt, beginDeviceLoginAttempt,               *)
(* beginPasswordChangeAttempt, beginIpAttempt.                             *)

IpLimited == {"login", "device", "setup"}

Requests ==
  [kind : {"login", "device"}, ip : Addresses, key : Keys]
    \cup [kind : {"password_change"}, ip : {None}, key : Keys]
    \cup [kind : {"setup"}, ip : Addresses, key : {None}]

KeyLimit(kind) ==
  CASE kind = "login" -> MaxPerUsername
    [] kind = "device" -> MaxPerCookie
    [] kind = "password_change" -> MaxPerUser

(* What the advisory locks are named after. *)
IpLock(r) == IF r.kind \in IpLimited THEN << << "ip", r.ip >> >> ELSE << >>
KeyLock(r) == IF r.key # None THEN << << r.kind, r.key >> >> ELSE << >>

NoLocks(r) == << >>

(* Sorted: "login:device" < "login:ip" < "login:login". *)
LockNames(r) == IF r.kind = "device" THEN KeyLock(r) \o IpLock(r) ELSE IpLock(r) \o KeyLock(r)

Unused == [pc |-> "idle", request |-> None, since |-> 0, at |-> 0, locks |-> << >>]

ThrottleInit ==
  /\ now = 0
  /\ attempt = [a \in Attempts |-> Unused]
  /\ row = [a \in Attempts |-> None]
  /\ forgiven = {}

Rows == {a \in Attempts : row[a] # None}
Held(a) == {attempt[a].locks[i] : i \in DOMAIN attempt[a].locks}
Proceeds(a, pc) == attempt' = [attempt EXCEPT ![a].pc = pc]

-----------------------------------------------------------------------------
(* reserveAttempt: the locks one after the other, a count per key, the row.*)

Begin(a, r) ==
  /\ attempt[a].pc = "idle"
  /\ attempt' = [attempt EXCEPT ![a] = [Unused EXCEPT !.pc = "locks", !.request = r, !.since = now]]
  /\ UNCHANGED << now, row, forgiven >>

TakeLock(a) ==
  LET names == LockNames(attempt[a].request)
      next == Len(attempt[a].locks) + 1 IN
  /\ attempt[a].pc = "locks"
  /\ IF next > Len(names) THEN Proceeds(a, "counts")
     ELSE /\ \A b \in Attempts : names[next] \notin Held(b)
          /\ attempt' = [attempt EXCEPT ![a].locks = Append(@, names[next])]
  /\ UNCHANGED << now, row, forgiven >>

(* The rows of the window that was computed before the locks. *)
Recent(a) == {b \in Rows : row[b] + Window >= attempt[a].since}

ByIp(a) == {b \in Recent(a) : /\ attempt[b].request.kind \in IpLimited
                              /\ attempt[b].request.ip = attempt[a].request.ip}

KeyAlone(b, a) == attempt[b].request.key = attempt[a].request.key

SameKey(b, a) == /\ attempt[b].request.kind = attempt[a].request.kind
                 /\ attempt[b].request.key = attempt[a].request.key

ByKey(a) == {b \in Recent(a) : SameKey(b, a)}

AtLimit(a) ==
  LET r == attempt[a].request IN
  \/ r.kind \in IpLimited /\ Cardinality(ByIp(a)) >= MaxPerIp
  \/ r.key # None /\ Cardinality(ByKey(a)) >= KeyLimit(r.kind)

(* The transaction ends without a row; it gives its locks back. *)
Over(a) == attempt' = [attempt EXCEPT ![a] = [Unused EXCEPT !.pc = "over"]]

Refuse(a) ==
  /\ attempt[a].pc = "counts" /\ AtLimit(a)
  /\ Over(a)
  /\ UNCHANGED << now, row, forgiven >>

Count(a) ==
  /\ attempt[a].pc = "counts" /\ ~AtLimit(a)
  /\ Proceeds(a, "records")
  /\ UNCHANGED << now, row, forgiven >>

Record(a) ==
  /\ attempt[a].pc = "records"
  /\ attempt' = [attempt EXCEPT ![a].pc = "guesses", ![a].at = now, ![a].locks = << >>]
  /\ row' = [row EXCEPT ![a] = now]
  /\ UNCHANGED << now, forgiven >>

(* An error of the database or its timeout: nothing is evaluated. *)
RollBack(a) ==
  /\ attempt[a].pc \in {"locks", "counts", "records"}
  /\ Over(a)
  /\ UNCHANGED << now, row, forgiven >>

-----------------------------------------------------------------------------
(* The comparison, and endAttempt.                                         *)

GuessWrong(a) ==
  /\ attempt[a].pc = "guesses"
  /\ Proceeds(a, "wrong")
  /\ UNCHANGED << now, row, forgiven >>

GuessRight(a) ==
  /\ attempt[a].pc = "guesses"
  /\ Proceeds(a, "right")
  /\ UNCHANGED << now, row, forgiven >>

(* The rows that endAttempt deletes. *)
Clears(a) == {a} \cup IF attempt[a].request.key = None THEN {} ELSE {b \in Rows : SameKey(b, a)}

EndAttempt(a) ==
  /\ attempt[a].pc = "right"
  /\ Proceeds(a, "done")
  /\ row' = [b \in Attempts |-> IF b \in Clears(a) THEN None ELSE row[b]]
  /\ forgiven' = forgiven \cup {a} \cup
       {b \in Attempts : /\ attempt[b].pc \in {"guesses", "wrong", "right", "done"}
                         /\ attempt[a].request.key # None
                         /\ attempt[b].request.kind = attempt[a].request.kind
                         /\ attempt[b].request.key = attempt[a].request.key}
  /\ UNCHANGED now

(* pruneLoginFailures, a job. *)
Prune ==
  /\ row' = [b \in Attempts |-> IF b \in Rows /\ row[b] + Window < now THEN None ELSE row[b]]
  /\ UNCHANGED << now, attempt, forgiven >>

ThrottleTick ==
  /\ now < MaxTime /\ now' = now + 1
  /\ UNCHANGED << attempt, row, forgiven >>

-----------------------------------------------------------------------------
AttemptStep(a) ==
  \/ TakeLock(a) \/ Refuse(a) \/ Count(a) \/ Record(a)
  \/ GuessWrong(a) \/ GuessRight(a) \/ EndAttempt(a)

ThrottleNext ==
  \/ \E a \in Attempts : (\E r \in Requests : Begin(a, r)) \/ AttemptStep(a) \/ RollBack(a)
  \/ Prune \/ ThrottleTick

ThrottleSpec == ThrottleInit /\ [][ThrottleNext]_throttleVars

-----------------------------------------------------------------------------
Evaluated == {a \in Attempts : attempt[a].pc \in {"guesses", "wrong", "right", "done"}}

(* Whatever runs at once: of the secrets compared in any one window, those *)
(* of one address stay within the limit of the address, and those against  *)
(* one username, cookie or user within the limit of that key, not counting *)
(* what a success of the same key has cleared (local-accounts.ts:34-46).   *)
GuessesBounded ==
  \A a \in Evaluated \ forgiven :
    LET window == {b \in Evaluated \ forgiven : attempt[b].at \in attempt[a].at .. attempt[a].at + Window}
        r == attempt[a].request IN
    /\ r.kind \in IpLimited =>
         Cardinality({b \in window : attempt[b].request.kind \in IpLimited /\ attempt[b].request.ip = r.ip})
           <= MaxPerIp
    /\ r.key # None =>
         Cardinality({b \in window : attempt[b].request.kind = r.kind /\ attempt[b].request.key = r.key})
           <= KeyLimit(r.kind)

(* Nobody is kept out without cause: an attempt is refused only while the  *)
(* limit is reached by recent attempts of its own address, or of its own   *)
(* kind against its own key, that no success has cleared.  So who knows    *)
(* only a username cannot keep out a browser with a device cookie, and a   *)
(* success starts its key afresh (local-accounts.ts:113-117, 133-142).     *)
Cause(a) == {b \in Evaluated \ forgiven : attempt[b].at + Window >= attempt[a].since}

RefusedWithCause ==
  \A a \in Attempts :
    attempt[a].pc = "counts" /\ AtLimit(a) =>
      LET r == attempt[a].request IN
      \/ r.kind \in IpLimited /\
           Cardinality({b \in Cause(a) : attempt[b].request.kind \in IpLimited /\ attempt[b].request.ip = r.ip})
             >= MaxPerIp
      \/ r.key # None /\
           Cardinality({b \in Cause(a) : attempt[b].request.kind = r.kind /\ attempt[b].request.key = r.key})
             >= KeyLimit(r.kind)
=============================================================================
