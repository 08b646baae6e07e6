---------------------------- MODULE ConsentProofs ----------------------------
(***************************************************************************)
(* Theorems about ConsentFlow, for any number of requests, device codes,   *)
(* users, browsers and posts under way, and any policies.                  *)
(*                                                                         *)
(* The inductive invariant says what a post carries (CallOK), that the row *)
(* locks exclude (LocksOK), and that nothing still undecided has a verdict *)
(* (RowsOK).  A step is then quiet (no verdict: QuietStep), moves one  *)
(* request on (CallStep), or gives a verdict.                              *)
(***************************************************************************)
EXTENDS ConsentFlow, TLAPS

Tx == {"decideDevice", "readGrant", "commit"}
Writing == {"readGrant", "commit"}

FormOf(r) == [flow |-> r.flow, user |-> r.row.subject, listed |-> r.listed]

(* What a page load or a post that is under way carries. *)
CallOK(r) ==
  /\ r.pc # "idle" =>
       /\ r.flow \in Flows /\ r.row.subject \in Users /\ r.row.browser \in Browsers
       /\ requests[r.flow].st # "unborn"
       /\ requests[r.flow].browser = r.row.browser
       /\ requests[r.flow].device = r.row.device
  /\ r.pc \in Tx => requests[r.flow].st \in There
  /\ r.pc = "decideDevice" => r.row.device \in Devices
  /\ (r.pc \in Writing /\ r.row.device # None) =>
       devices[r.row.device].st \in {"pending", "expired"}
  /\ (r.pc # "idle" /\ r.approve) => FormOf(r) \in pages[r.row.browser]

CallsOK == \A w \in Workers : CallOK(req[w])

(* Two transactions never hold the same request or the same device code. *)
SameRow(r, s) ==
  \/ r.pc \in Tx /\ s.pc \in Tx /\ r.flow = s.flow
  \/ r.pc \in Writing /\ s.pc \in Writing /\ r.row.device = s.row.device /\ r.row.device # None

LocksOK == \A v, w \in Workers : SameRow(req[v], req[w]) => v = w

RowsOK ==
  /\ \A f \in Flows :
       /\ requests[f].st # "unborn" => requests[f].browser \in Browsers
       /\ requests[f].st \in There \cup {"unborn"} => verdicts[f] = 0
  /\ \A d \in Devices : devices[d].st \in {"unborn", "pending", "expired"} => verdicts[d] = 0

IInv ==
  TypeOK /\ CallsOK /\ LocksOK /\ RowsOK /\ ApprovalWasShown /\ DeviceFollowsVerdict

-----------------------------------------------------------------------------
(* How the row of a request moves without a verdict on it. *)
QuietRequest(f) ==
  \/ requests'[f] = requests[f]
  \/ /\ requests[f].st = "unborn" /\ requests'[f].st = "open"
     /\ requests'[f].browser \in Browsers
  \/ /\ requests[f].st \in There
     /\ requests'[f].device = requests[f].device
     /\ requests'[f].browser = requests[f].browser
     /\ requests'[f].st \in There \/ (requests'[f].st = "dropped" /\ ~FlowLocked(f))

QuietDevice(d) ==
  \/ devices'[d] = devices[d]
  \/ devices[d].st = "unborn" /\ devices'[d].st = "pending"
  \/ devices[d].st = "pending" /\ devices'[d].st = "expired"

LEMMA IdleOK == Idle \in Call /\ CallOK(Idle) /\ Idle.pc = "idle"
<1>1. UnbornRequest \in RequestRow
  BY DEF UnbornRequest, RequestRow
<1> QED
  BY <1>1 DEF Idle, Call, PCs, CallOK, Tx, Writing

(* A call keeps what it carries while the rows it relies on are kept. *)
LEMMA CallStays ==
  ASSUME NEW r \in Call, CallOK(r),
         r.pc # "idle" =>
           /\ requests'[r.flow].st # "unborn"
           /\ requests'[r.flow].browser = requests[r.flow].browser
           /\ requests'[r.flow].device = requests[r.flow].device,
         r.pc \in Tx => requests'[r.flow].st \in There,
         (r.pc \in Writing /\ r.row.device # None) =>
           devices'[r.row.device].st \in {"pending", "expired"},
         \A b \in Browsers : pages[b] \subseteq pages'[b]
  PROVE  CallOK(r)'
BY DEF CallOK, FormOf, Tx

(* A load of the page goes on from its pin to the answer. *)
Pins(w) ==
  /\ req[w].pc = "getPin" /\ req'[w].pc = "getRender"
  /\ req'[w].flow = req[w].flow /\ req'[w].row = req[w].row
  /\ req'[w].approve = req[w].approve /\ req'[w].listed = req[w].listed

(* A step that gives no verdict: rows move quietly, a request may end. *)
LEMMA QuietStep ==
  ASSUME IInv, TypeOK',
         \A f \in Flows : QuietRequest(f), \A d \in Devices : QuietDevice(d),
         \A b \in Browsers : pages[b] \subseteq pages'[b],
         \A w \in Workers : req'[w] = req[w] \/ req'[w] = Idle \/ Pins(w),
         UNCHANGED << verdicts, approvals >>
  PROVE  IInv'
<1> USE DEF IInv
<1>1. ASSUME NEW r \in Call, CallOK(r), r.pc \in Tx => FlowLocked(r.flow)
      PROVE  CallOK(r)'
  <2>1. ASSUME r.pc # "idle" PROVE QuietRequest(r.flow) /\ r.flow \in Flows
    BY <1>1, <2>1 DEF CallOK
  <2>2. r.pc # "idle" =>
          /\ requests'[r.flow].st # "unborn"
          /\ requests'[r.flow].browser = requests[r.flow].browser
          /\ requests'[r.flow].device = requests[r.flow].device
    BY <1>1, <2>1 DEF QuietRequest, CallOK, There
  <2>3. r.pc \in Tx => requests'[r.flow].st \in There
    <3> SUFFICES ASSUME r.pc \in Tx PROVE requests'[r.flow].st \in There
      OBVIOUS
    <3>1. r.pc # "idle"
      BY DEF Tx
    <3> QED
      BY <1>1, <3>1, <2>1 DEF QuietRequest, CallOK, There
  <2>4. (r.pc \in Writing /\ r.row.device # None) =>
          devices'[r.row.device].st \in {"pending", "expired"}
    <3> SUFFICES ASSUME r.pc \in Writing, r.row.device # None
                 PROVE  devices'[r.row.device].st \in {"pending", "expired"}
      OBVIOUS
    <3>1. r.row.device \in Devices
      BY <1>1 DEF Call, RequestRow
    <3> QED
      BY <1>1, <3>1 DEF CallOK, QuietDevice
  <2> HIDE DEF IInv
  <2> QED
    BY <1>1, <2>2, <2>3, <2>4, CallStays
<1>2. ASSUME NEW w \in Workers PROVE CallOK(req[w])'
  <2>1. req[w] \in Call /\ CallOK(req[w]) /\ (req[w].pc \in Tx => FlowLocked(req[w].flow))
    BY DEF TypeOK, CallsOK, FlowLocked, Flow, Tx
  <2>2. PICK r \in Call : r = req[w] /\ CallOK(r) /\ (r.pc \in Tx => FlowLocked(r.flow))
    BY <2>1
  <2>3. CallOK(r)'
    BY <2>2, <1>1
  <2>4. CASE req'[w] = Idle
    BY <2>4, IdleOK DEF CallOK, Tx, Writing
  <2>5. CASE req'[w] = req[w]
    BY <2>2, <2>3, <2>5 DEF CallOK, FormOf
  <2>6. CASE Pins(w)
    BY <2>2, <2>3, <2>6 DEF Pins, CallOK, FormOf, Tx, Writing
  <2> QED
    BY <2>4, <2>5, <2>6
<1>3. LocksOK'
  BY IdleOK DEF LocksOK, SameRow, Pins, Tx, Writing
<1>4. RowsOK'
  BY DEF RowsOK, QuietRequest, QuietDevice, There
<1>5. ApprovalWasShown'
  <2> SUFFICES ASSUME NEW f \in Flows, requests'[f].st = "approved"
               PROVE  [flow |-> f, user |-> approvals[f].user, listed |-> approvals[f].listed]
                        \in pages'[requests'[f].browser]
    BY DEF ApprovalWasShown
  <2>1. requests'[f] = requests[f]
    BY DEF QuietRequest, There
  <2>2. [flow |-> f, user |-> approvals[f].user, listed |-> approvals[f].listed]
           \in pages[requests[f].browser]
    BY <2>1 DEF ApprovalWasShown
  <2>3. requests[f].browser \in Browsers
    BY <2>1 DEF RowsOK
  <2> QED
    BY <2>1, <2>2, <2>3
<1>6. DeviceFollowsVerdict'
  <2> SUFFICES ASSUME NEW f \in Flows, requests'[f].device # None, requests'[f].st = "approved"
               PROVE  /\ devices'[requests'[f].device].st = "approved"
                      /\ devices'[requests'[f].device].user = approvals[f].user
    BY DEF DeviceFollowsVerdict
  <2>1. requests'[f] = requests[f]
    BY DEF QuietRequest, There
  <2>2. requests[f].device \in Devices
    BY <2>1 DEF TypeOK, RequestRow
  <2>3. devices[requests[f].device].st = "approved"
    BY <2>1 DEF DeviceFollowsVerdict
  <2>4. devices'[requests[f].device] = devices[requests[f].device]
    BY <2>2, <2>3 DEF QuietDevice
  <2> QED
    BY <2>1, <2>4 DEF DeviceFollowsVerdict
<1> QED
  BY <1>2, <1>3, <1>4, <1>5, <1>6 DEF CallsOK, TypeOK

(* A request goes on to its next await, with no row changed. *)
LEMMA CallStep ==
  ASSUME IInv, TypeOK', NEW w \in Workers, NEW r \in Call,
         req' = [req EXCEPT ![w] = r], CallOK(r),
         UNCHANGED << requests, devices, pages, verdicts, approvals >>,
         \A v \in Workers \ {w} : ~SameRow(r, req[v])
  PROVE  IInv'
<1> USE DEF IInv
<1>1. \A v \in Workers : req'[v] = IF v = w THEN r ELSE req[v]
  BY DEF TypeOK
<1>2. CallsOK'
  BY <1>1 DEF CallsOK, CallOK
<1>3. LocksOK'
  BY <1>1 DEF LocksOK, SameRow
<1>4. RowsOK' /\ ApprovalWasShown' /\ DeviceFollowsVerdict'
  BY DEF RowsOK, ApprovalWasShown, DeviceFollowsVerdict
<1> QED
  BY <1>2, <1>3, <1>4

(* A request gets its verdict, and perhaps its device code with it. *)
LEMMA VerdictStep ==
  ASSUME IInv, TypeOK', NEW w \in Workers, NEW s \in {"approved", "refused"},
         ~At(w, "idle"), Return(w),
         requests' = [requests EXCEPT ![Flow(w)].st = s],
         \A v \in Workers \ {w} : ~(req[v].pc \in Tx /\ Flow(v) = Flow(w)),
         \A d \in Devices :
           \/ devices'[d] = devices[d]
           \/ \A v \in Workers \ {w} : ~(req[v].pc \in Writing /\ Row(v).device = d),
         UNCHANGED pages,
         RowsOK', ApprovalWasShown', DeviceFollowsVerdict'
  PROVE  IInv'
<1> USE DEF IInv
<1>1. \A v \in Workers : req'[v] = IF v = w THEN Idle ELSE req[v]
  BY DEF TypeOK, Return
<1>2. LocksOK'
  BY <1>1, IdleOK DEF LocksOK, SameRow, Tx, Writing
<1>3. ASSUME NEW v \in Workers PROVE CallOK(req[v])'
  <2>1. CASE v = w
    BY <2>1, <1>1, IdleOK DEF CallOK, Tx, Writing
  <2>2. CASE v # w
    <3> DEFINE r == req[v]
    <3>1. r \in Call /\ CallOK(r)
      BY DEF TypeOK, CallsOK
    <3>2. r.pc # "idle" =>
            /\ requests'[r.flow].st # "unborn"
            /\ requests'[r.flow].browser = requests[r.flow].browser
            /\ requests'[r.flow].device = requests[r.flow].device
      <4> SUFFICES ASSUME r.pc # "idle", r.flow \in Flows
                   PROVE  /\ requests'[r.flow].st # "unborn"
                          /\ requests'[r.flow].browser = requests[r.flow].browser
                          /\ requests'[r.flow].device = requests[r.flow].device
        BY <3>1 DEF CallOK
      <4>1. requests[r.flow] \in RequestRow /\ requests[r.flow].st # "unborn"
        BY <3>1 DEF CallOK, TypeOK
      <4> HIDE DEF r
      <4> QED
        BY <4>1 DEF TypeOK, RequestRow
    <3>3. r.pc \in Tx => requests'[r.flow].st \in There
      <4> SUFFICES ASSUME r.pc \in Tx PROVE requests'[r.flow].st \in There
        OBVIOUS
      <4>1. r.flow # Flow(w)
        BY <2>2 DEF Flow
      <4>2. r.flow \in Flows /\ requests[r.flow].st \in There
        BY <3>1 DEF CallOK, Tx
      <4> HIDE DEF r
      <4> QED
        BY <4>1, <4>2 DEF TypeOK
    <3>4. (r.pc \in Writing /\ r.row.device # None) =>
            devices'[r.row.device].st \in {"pending", "expired"}
      <4> SUFFICES ASSUME r.pc \in Writing, r.row.device # None
                   PROVE  devices'[r.row.device].st \in {"pending", "expired"}
        OBVIOUS
      <4>1. r.row.device \in Devices
        BY <3>1 DEF Call, RequestRow
      <4>2. devices'[r.row.device] = devices[r.row.device]
        BY <4>1, <2>2 DEF Row
      <4> QED
        BY <3>1, <4>2 DEF CallOK
    <3>5. CallOK(r)'
      <4>1. r' = r
        BY <2>2, <1>1
      <4> HIDE DEF r
      <4> QED
        BY <3>1, <3>2, <3>3, <3>4, <4>1, CallStays DEF r
    <3> QED
      BY <3>5
  <2> QED
    BY <2>1, <2>2
<1> QED
  BY <1>2, <1>3 DEF CallsOK
-----------------------------------------------------------------------------
(* Types.                                                                  *)

LEMMA PolicyType == TypeOK => policy \in Policy /\ policy.fresh \subseteq policy.short
BY FlowAssumption DEF TypeOK

LEMMA RowTypes ==
  ASSUME TypeOK, NEW f \in Flows
  PROVE  /\ requests[f] \in RequestRow
         /\ \A st \in {"open", "expired", "approved", "refused", "dropped"} :
              [requests[f] EXCEPT !.st = st] \in RequestRow
         /\ \A u \in Users : [requests[f] EXCEPT !.subject = u] \in RequestRow
         /\ \A C \in SUBSET Claims : [requests[f] EXCEPT !.shown = C] \in RequestRow
<1> DEFINE row == requests[f]
<1>1. row \in RequestRow
  BY DEF TypeOK
<1> HIDE DEF row
<1>2. ASSUME NEW st \in {"open", "expired", "approved", "refused", "dropped"}
      PROVE  [row EXCEPT !.st = st] \in RequestRow
  BY <1>1 DEF RequestRow
<1>3. ASSUME NEW u \in Users PROVE [row EXCEPT !.subject = u] \in RequestRow
  BY <1>1 DEF RequestRow
<1>4. ASSUME NEW C \in SUBSET Claims PROVE [row EXCEPT !.shown = C] \in RequestRow
  BY <1>1 DEF RequestRow
<1> QED
  BY <1>1, <1>2, <1>3, <1>4 DEF row

LEMMA DeviceTypes ==
  ASSUME TypeOK, NEW d \in Devices
  PROVE  /\ devices[d] \in DeviceRow
         /\ \A st \in {"denied", "expired"} : [devices[d] EXCEPT !.st = st] \in DeviceRow
         /\ \A u \in Users :
              [devices[d] EXCEPT !.st = "approved", !.user = u] \in DeviceRow
<1> DEFINE row == devices[d]
<1>1. row \in DeviceRow
  BY DEF TypeOK
<1> HIDE DEF row
<1>2. ASSUME NEW st \in {"denied", "expired"} PROVE [row EXCEPT !.st = st] \in DeviceRow
  BY <1>1 DEF DeviceRow
<1>3. ASSUME NEW u \in Users
      PROVE  [row EXCEPT !.st = "approved", !.user = u] \in DeviceRow
  BY <1>1 DEF DeviceRow
<1> QED
  BY <1>1, <1>2, <1>3 DEF row

LEMMA OpenedType ==
  ASSUME TypeOK, NEW b \in Browsers, NEW d \in Devices \cup {None}, NEW S \in SUBSET Scopes
  PROVE  Opened(b, d, S) \in RequestRow /\ Opened(b, d, S).st = "open"
         /\ Opened(b, d, S).browser = b /\ Opened(b, d, S).device = d
BY DEF Opened, UnbornRequest, RequestRow, NeedsFresh

LEMMA EventType == TypeOK /\ Event => events' \in 0 .. MaxEvents
BY FlowAssumption DEF TypeOK, Event

LEMMA ReturnType ==
  ASSUME TypeOK, NEW w \in Workers, Return(w)
  PROVE  /\ req' \in [Workers -> Call]
         /\ \A v \in Workers : req'[v] = IF v = w THEN Idle ELSE req[v]
         /\ \A v \in Workers : req'[v].pc \in {"readGrant", "commit"} => req'[v].approve
<1>1. \A v \in Workers : req'[v] = IF v = w THEN Idle ELSE req[v]
  BY DEF TypeOK, Return
<1>2. req' \in [Workers -> Call]
  BY IdleOK DEF TypeOK, Return
<1> QED
  BY <1>1, <1>2, IdleOK DEF TypeOK

LEMMA GoType ==
  ASSUME TypeOK, NEW w \in Workers, NEW r \in Call, req' = [req EXCEPT ![w] = r],
         r.pc \in {"readGrant", "commit"} => r.approve
  PROVE  /\ req' \in [Workers -> Call]
         /\ \A v \in Workers : req'[v].pc \in {"readGrant", "commit"} => req'[v].approve
BY DEF TypeOK

-----------------------------------------------------------------------------
(* Requests begin, and what happens around them.                           *)

LEMMA QuietKeeps ==
  ASSUME IInv,
         \/ \E f \in Flows, b \in Browsers, S \in Requested : Authorize(f, b, S)
         \/ \E d \in Devices, S \in Requested : IssueDeviceCode(d, S)
         \/ \E f \in Flows, b \in Browsers, d \in Devices : EnterUserCode(f, b, d)
         \/ \E f \in Flows, b \in Browsers, u \in Users : SignIn(b, f, u)
         \/ \E b \in Browsers, u \in Users \cup {None} : SetSession(b, u)
         \/ \E w \in Workers : Fail(w)
         \/ \E u \in Users : UserRevoke(u)
         \/ \E f \in Flows : ExpireRequest(f) \/ DropExpired(f)
         \/ \E d \in Devices : DeviceExpires(d)
         \/ \E p \in Policies : SetPolicy(p)
         \/ Rest
  PROVE  IInv'
<1>0. TypeOK
  BY DEF IInv
<1> DEFINE Rows == /\ \A f \in Flows : QuietRequest(f)
                   /\ \A d \in Devices : QuietDevice(d)
<1>1. ASSUME NEW f \in Flows, NEW b \in Browsers, NEW S \in Requested, Authorize(f, b, S)
      PROVE  IInv'
  <2>1. Opened(b, None, S) \in RequestRow /\ Opened(b, None, S).st = "open"
        /\ Opened(b, None, S).browser = b
    BY <1>0, OpenedType, FlowAssumption
  <2>2. TypeOK'
    BY <1>0, <1>1, <2>1 DEF Authorize, TypeOK, history
  <2>3. Rows
    BY <1>0, <1>1, <2>1 DEF Authorize, TypeOK, QuietRequest, QuietDevice
  <2> QED
    BY <1>1, <2>2, <2>3, QuietStep DEF Authorize, history
<1>2. ASSUME NEW d \in Devices, NEW S \in Requested, IssueDeviceCode(d, S) PROVE IInv'
  <2> DEFINE row == [st |-> "pending", scopes |-> S, user |-> None]
  <2>1. row \in DeviceRow /\ row.st = "pending"
    BY FlowAssumption DEF DeviceRow
  <2>2. devices' = [devices EXCEPT ![d] = row] /\ devices[d].st = "unborn"
    BY <1>2 DEF IssueDeviceCode
  <2> HIDE DEF row
  <2>3. TypeOK'
    BY <1>0, <1>2, <2>1, <2>2 DEF IssueDeviceCode, TypeOK, history
  <2>4. Rows
    BY <1>0, <1>2, <2>1, <2>2 DEF IssueDeviceCode, TypeOK, QuietRequest, QuietDevice
  <2> QED
    BY <1>2, <2>3, <2>4, QuietStep DEF IssueDeviceCode, history
<1>3. ASSUME NEW f \in Flows, NEW b \in Browsers, NEW d \in Devices, EnterUserCode(f, b, d)
      PROVE  IInv'
  <2>0. devices[d].scopes \in SUBSET Scopes
    BY <1>0 DEF TypeOK, DeviceRow
  <2> DEFINE o == Opened(b, d, devices[d].scopes)
  <2>1. o \in RequestRow /\ o.st = "open" /\ o.browser = b
    BY <1>0, <2>0, OpenedType
  <2>2. requests' = [requests EXCEPT ![f] = o] /\ requests[f].st = "unborn"
    BY <1>3 DEF EnterUserCode
  <2> HIDE DEF o
  <2>3. TypeOK'
    BY <1>0, <1>3, <2>1, <2>2 DEF EnterUserCode, TypeOK, history
  <2>4. Rows
    BY <1>0, <1>3, <2>1, <2>2 DEF EnterUserCode, TypeOK, QuietRequest, QuietDevice
  <2> QED
    BY <1>3, <2>3, <2>4, QuietStep DEF EnterUserCode, history
<1>4. ASSUME NEW f \in Flows, NEW b \in Browsers, NEW u \in Users, SignIn(b, f, u) PROVE IInv'
  <2>1. requests' \in [Flows -> RequestRow]
    BY <1>0, <1>4, RowTypes DEF SignIn, TypeOK
  <2>2. TypeOK'
    BY <1>0, <1>4, <2>1, EventType DEF SignIn, TypeOK, history
  <2>3. Rows
    BY <1>0, <1>4, RowTypes DEF SignIn, TypeOK, RequestRow, QuietRequest, QuietDevice, There
  <2> QED
    BY <1>4, <2>2, <2>3, QuietStep DEF SignIn, history
<1>5. ASSUME NEW b \in Browsers, NEW u \in Users \cup {None}, SetSession(b, u) PROVE IInv'
  <2>1. TypeOK'
    BY <1>0, <1>5, EventType DEF SetSession, TypeOK, history, tables
  <2> QED
    BY <1>5, <2>1, QuietStep DEF SetSession, history, tables, QuietRequest, QuietDevice
<1>6. ASSUME NEW w \in Workers, Fail(w) PROVE IInv'
  <2>1. TypeOK'
    BY <1>0, <1>6, EventType, ReturnType DEF Fail, TypeOK, history, tables
  <2>2. \A v \in Workers : req'[v] = req[v] \/ req'[v] = Idle
    BY <1>0, <1>6, ReturnType DEF Fail
  <2> QED
    BY <1>6, <2>1, <2>2, QuietStep DEF Fail, history, tables, QuietRequest, QuietDevice
<1>7. ASSUME NEW u \in Users, UserRevoke(u) PROVE IInv'
  <2> DEFINE g == [grants[u] EXCEPT !.st = "revoked"]
  <2>0. grants[u] \in Grant
    BY <1>0 DEF TypeOK
  <2>1. g \in Grant
    BY <2>0 DEF Grant
  <2>3. grants' = [grants EXCEPT ![u] = g]
    BY <1>7 DEF UserRevoke
  <2> HIDE DEF g
  <2>2. TypeOK'
    BY <1>0, <1>7, <2>1, <2>3, EventType DEF UserRevoke, TypeOK, history
  <2> QED
    BY <1>7, <2>2, QuietStep DEF UserRevoke, history, QuietRequest, QuietDevice
<1>8. ASSUME NEW f \in Flows, ExpireRequest(f) PROVE IInv'
  <2>1. requests' \in [Flows -> RequestRow]
    BY <1>0, <1>8, RowTypes DEF ExpireRequest, TypeOK
  <2>2. TypeOK'
    BY <1>0, <1>8, <2>1, EventType DEF ExpireRequest, TypeOK, history
  <2>3. Rows
    BY <1>0, <1>8, RowTypes DEF ExpireRequest, TypeOK, RequestRow, QuietRequest, QuietDevice, There
  <2> QED
    BY <1>8, <2>2, <2>3, QuietStep DEF ExpireRequest, history
<1>9. ASSUME NEW f \in Flows, DropExpired(f) PROVE IInv'
  <2>1. requests' \in [Flows -> RequestRow]
    BY <1>0, <1>9, RowTypes DEF DropExpired, TypeOK
  <2>2. TypeOK'
    BY <1>0, <1>9, <2>1 DEF DropExpired, TypeOK, history
  <2>3. Rows
    BY <1>0, <1>9, RowTypes DEF DropExpired, TypeOK, RequestRow, QuietRequest, QuietDevice, There
  <2> QED
    BY <1>9, <2>2, <2>3, QuietStep DEF DropExpired, history
<1>10. ASSUME NEW d \in Devices, DeviceExpires(d) PROVE IInv'
  <2>1. devices' \in [Devices -> DeviceRow]
    BY <1>0, <1>10, DeviceTypes DEF DeviceExpires, TypeOK
  <2>2. TypeOK'
    BY <1>0, <1>10, <2>1, EventType DEF DeviceExpires, TypeOK, history
  <2>3. Rows
    BY <1>0, <1>10 DEF DeviceExpires, TypeOK, DeviceRow, QuietRequest, QuietDevice
  <2> QED
    BY <1>10, <2>2, <2>3, QuietStep DEF DeviceExpires, history
<1>11. ASSUME NEW p \in Policies, SetPolicy(p) PROVE IInv'
  <2>1. TypeOK'
    BY <1>0, <1>11, EventType DEF SetPolicy, TypeOK, history, tables
  <2> QED
    BY <1>11, <2>1, QuietStep DEF SetPolicy, history, tables, QuietRequest, QuietDevice
<1>12. ASSUME Rest PROVE IInv'
  <2>1. TypeOK'
    BY <1>0, <1>12 DEF Rest, vars, TypeOK, history
  <2> QED
    BY <1>12, <2>1, QuietStep DEF Rest, vars, history, QuietRequest, QuietDevice
<1> QED
  BY <1>1, <1>2, <1>3, <1>4, <1>5, <1>6, <1>7, <1>8, <1>9, <1>10, <1>11, <1>12
-----------------------------------------------------------------------------
(* Page loads and posts on their way to the verdict.                       *)

LEMMA BeginKeeps ==
  ASSUME IInv, NEW w \in Workers, NEW b \in Browsers, NEW f \in Flows, Usable(f, b),
         NEW pc \in {"getCheck", "postCheck", "consume"}, NEW approve \in BOOLEAN,
         NEW listed \in SUBSET Claims,
         approve => [flow |-> f, user |-> requests[f].subject, listed |-> listed] \in pages[b],
         Begin(w, pc, f, approve, listed),
         UNCHANGED << tables, session, pages, policy, events, history >>
  PROVE  IInv'
<1> DEFINE r == [Idle EXCEPT !.pc = pc, !.flow = f, !.row = requests[f],
                             !.approve = approve, !.listed = listed]
<1>1. TypeOK /\ requests[f] \in RequestRow
  BY DEF IInv, TypeOK
<1>2. /\ r.pc = pc /\ r.flow = f /\ r.row = requests[f]
      /\ r.approve = approve /\ r.listed = listed
  BY DEF Idle
<1>3. r \in Call
  BY <1>1, IdleOK DEF Idle, Call, PCs
<1>4. req' = [req EXCEPT ![w] = r]
  BY DEF Begin
<1> HIDE DEF r
<1>5. TypeOK'
  BY <1>1, <1>2, <1>3, <1>4, GoType DEF TypeOK, tables, history
<1>6. CallOK(r)
  BY <1>1, <1>2 DEF CallOK, Usable, FormOf, RequestRow, Tx, Writing
<1>7. \A v \in Workers \ {w} : ~SameRow(r, req[v])
  BY <1>2 DEF SameRow, Tx, Writing
<1> QED
  BY <1>3, <1>4, <1>5, <1>6, <1>7, CallStep DEF tables, history

(* A request moves on to await r.pc with what it carries; locks are free. *)
LEMMA GoKeeps ==
  ASSUME IInv, NEW w \in Workers, ~At(w, "idle"), NEW r \in Call,
         req' = [req EXCEPT ![w] = r], r.pc # "idle",
         r.flow = Flow(w), r.row = Row(w), r.listed = req[w].listed,
         r.approve => req[w].approve,
         r.pc \in Tx =>
           /\ requests[Flow(w)].st \in There
           /\ ~FlowLocked(Flow(w)) \/ req[w].pc \in Tx,
         r.pc = "decideDevice" => Row(w).device \in Devices,
         r.pc \in Writing => r.approve,
         (r.pc \in Writing /\ Row(w).device # None) =>
           /\ devices[Row(w).device].st \in {"pending", "expired"}
           /\ ~DeviceLocked(Row(w).device) \/ req[w].pc \in Writing,
         UNCHANGED << tables, session, pages, policy, events, history >>
  PROVE  IInv'
<1>1. TypeOK /\ CallOK(req[w]) /\ LocksOK
  BY DEF IInv, CallsOK
<1>2. TypeOK'
  BY <1>1, GoType DEF TypeOK, tables, history, Writing
<1>3. CallOK(r)
  BY <1>1 DEF CallOK, Flow, Row, At, FormOf
<1>4. ASSUME NEW v \in Workers \ {w} PROVE ~SameRow(r, req[v])
  <2>1. ~(r.pc \in Tx /\ req[v].pc \in Tx /\ r.flow = req[v].flow)
    BY <1>1 DEF LocksOK, SameRow, FlowLocked, Flow, Tx
  <2>2. ~(/\ r.pc \in Writing /\ req[v].pc \in Writing
          /\ r.row.device = req[v].row.device /\ r.row.device # None)
    BY <1>1 DEF LocksOK, SameRow, DeviceLocked, Row, Writing
  <2> QED
    BY <2>1, <2>2 DEF SameRow
<1> QED
  BY <1>2, <1>3, <1>4, CallStep DEF tables, history

LEMMA ReturnKeeps ==
  ASSUME IInv, NEW w \in Workers, Return(w),
         UNCHANGED << tables, session, pages, policy, events, history >>
  PROVE  IInv'
<1>1. TypeOK'
  BY ReturnType DEF IInv, TypeOK, tables, history
<1>2. \A v \in Workers : req'[v] = req[v] \/ req'[v] = Idle
  BY ReturnType DEF IInv
<1> QED
  BY <1>1, <1>2, QuietStep DEF tables, history, QuietRequest, QuietDevice

LEMMA CheckKeeps ==
  ASSUME IInv, NEW w \in Workers, ~At(w, "idle"), NEW next \in {"getPin", "consume"},
         Check(w, next)
  PROVE  IInv'
<1>1. req[w] \in Call /\ policy \in Policy
  BY PolicyType DEF IInv, TypeOK
<1>2. CASE ~policy.registered
  BY <1>2, ReturnKeeps DEF Check
<1>3. CASE policy.registered /\ MustRefuse(Row(w))
  <2> DEFINE r == [req[w] EXCEPT !.pc = "consume", !.approve = FALSE]
  <2>1. r \in Call /\ r.pc = "consume" /\ r.approve = FALSE /\ r.flow = Flow(w)
        /\ r.row = Row(w) /\ r.listed = req[w].listed
    BY <1>1 DEF Call, PCs, Flow, Row
  <2>2. req' = [req EXCEPT ![w] = r]
    BY <1>3 DEF Check
  <2> HIDE DEF r
  <2> QED
    BY <2>1, <2>2, GoKeeps DEF Check, Tx, Writing
<1>4. CASE policy.registered /\ ~MustRefuse(Row(w))
  <2> DEFINE r == [req[w] EXCEPT !.pc = next, !.released = policy.released]
  <2>1. r \in Call /\ r.pc = next /\ r.approve = req[w].approve /\ r.flow = Flow(w)
        /\ r.row = Row(w) /\ r.listed = req[w].listed
    BY <1>1 DEF Call, PCs, Flow, Row, Policy
  <2>2. req' = [req EXCEPT ![w] = r]
    BY <1>4 DEF Check
  <2> HIDE DEF r
  <2> QED
    BY <2>1, <2>2, GoKeeps DEF Check, Tx, Writing
<1> QED
  BY <1>2, <1>3, <1>4

LEMMA PageType ==
  ASSUME IInv, NEW w \in Workers, ~At(w, "idle")
  PROVE  /\ req[w] \in Call /\ CallOK(req[w])
         /\ Flow(w) \in Flows /\ Row(w).browser \in Browsers
         /\ req[w].released \in SUBSET Claims /\ PageOf(w) \in Page
<1>1. req[w] \in Call /\ CallOK(req[w])
  BY DEF IInv, TypeOK, CallsOK
<1>2. Flow(w) \in Flows /\ Row(w).subject \in Users /\ Row(w).browser \in Browsers
      /\ req[w].released \in SUBSET Claims
  BY <1>1 DEF CallOK, Flow, Row, Call, At
<1> QED
  BY <1>1, <1>2 DEF PageOf, Page

LEMMA GetPinKeeps ==
  ASSUME IInv, NEW w \in Workers, GetPin(w)
  PROVE  IInv'
<1>1. TypeOK /\ req[w].pc = "getPin" /\ ~At(w, "idle")
  BY DEF IInv, GetPin, At
<1>2. req[w] \in Call /\ Flow(w) \in Flows /\ req[w].released \in SUBSET Claims
      /\ PageOf(w) \in Page
  BY <1>1, PageType
<1> DEFINE f == Flow(w)
           row == [requests[f] EXCEPT !.shown = req[w].released]
           r == [req[w] EXCEPT !.pc = "getRender"]
<1>3. row \in RequestRow /\ row.st = requests[f].st /\ row.device = requests[f].device
      /\ row.browser = requests[f].browser
  <2>1. requests[f] \in RequestRow /\ row \in RequestRow
    BY <1>1, <1>2, RowTypes
  <2> QED
    BY <2>1 DEF RequestRow
<1>4. r \in Call /\ r.pc = "getRender" /\ r.flow = req[w].flow /\ r.row = req[w].row
      /\ r.approve = req[w].approve /\ r.listed = req[w].listed
  BY <1>2 DEF Call, PCs
<1>5. /\ \/ requests' = requests
         \/ requests[f].st \in There /\ requests' = [requests EXCEPT ![f] = row]
      /\ pinned' \in {pinned, pinned \cup {PageOf(w)}}
      /\ req' = [req EXCEPT ![w] = r]
  BY DEF GetPin, Goto
<1> HIDE DEF row, r, f
<1>6. TypeOK'
  <2>1. pinned' \in SUBSET Page /\ req' \in [Workers -> Call]
    BY <1>1, <1>2, <1>4, <1>5 DEF TypeOK
  <2>2. requests' \in [Flows -> RequestRow]
    BY <1>1, <1>2, <1>3, <1>5 DEF TypeOK, f
  <2>3. \A v \in Workers : req'[v].pc \in {"readGrant", "commit"} => req'[v].approve
    BY <1>1, <1>4, <1>5 DEF TypeOK
  <2> QED
    BY <1>1, <2>1, <2>2, <2>3 DEF GetPin, TypeOK
<1>7. \A g \in Flows : QuietRequest(g)
  BY <1>1, <1>3, <1>5 DEF QuietRequest, TypeOK
<1>8. \A v \in Workers : req'[v] = req[v] \/ Pins(v)
  BY <1>1, <1>4, <1>5 DEF TypeOK, Pins
<1> QED
  BY <1>6, <1>7, <1>8, QuietStep DEF GetPin, QuietDevice

LEMMA GetRenderKeeps ==
  ASSUME IInv, NEW w \in Workers, GetRender(w)
  PROVE  IInv'
<1>1. TypeOK /\ ~At(w, "idle")
  BY DEF IInv, GetRender, At
<1>2. Row(w).browser \in Browsers /\ PageOf(w) \in Page
  BY <1>1, PageType
<1> DEFINE page == PageOf(w)
<1>3. pages' = [pages EXCEPT ![Row(w).browser] = @ \cup {page}] /\ Return(w)
  BY DEF GetRender
<1> HIDE DEF page
<1>4. pages' \in [Browsers -> SUBSET Page]
  BY <1>1, <1>2, <1>3 DEF TypeOK, page
<1>5. TypeOK'
  BY <1>1, <1>3, <1>4, ReturnType DEF GetRender, TypeOK, tables, history
<1>6. \A b \in Browsers : pages[b] \subseteq pages'[b]
  BY <1>1, <1>3 DEF TypeOK
<1>7. \A v \in Workers : req'[v] = req[v] \/ req'[v] = Idle
  BY <1>1, <1>3, ReturnType
<1> QED
  BY <1>5, <1>6, <1>7, QuietStep DEF GetRender, tables, history, QuietRequest, QuietDevice

-----------------------------------------------------------------------------
(* Verdicts.                                                               *)

LEMMA VerdictType ==
  ASSUME TypeOK, NEW D, Verdict(D)
  PROVE  /\ verdicts' \in [Flows \cup Devices -> Nat]
         /\ \A i \in Flows \cup Devices :
              verdicts'[i] = verdicts[i] + (IF i \in D THEN 1 ELSE 0)
BY DEF TypeOK, Verdict

(* A plain refusal, and a refusal that finds its device code settled. *)
LEMMA RefuseKeeps ==
  ASSUME IInv, NEW w \in Workers, ~At(w, "idle"), Return(w),
         requests[Flow(w)].st \in There,
         ~FlowLocked(Flow(w)) \/ req[w].pc \in Tx,
         Refused(Flow(w)), Verdict({Flow(w)}),
         UNCHANGED << devices, grants, session, pages, policy, events, approvals, pinned >>
  PROVE  IInv'
<1>1. TypeOK /\ CallOK(req[w]) /\ RowsOK /\ LocksOK
  BY DEF IInv, CallsOK
<1>2. Flow(w) \in Flows
  BY <1>1 DEF CallOK, Flow, At
<1> DEFINE f == Flow(w)
           row == [requests[f] EXCEPT !.st = "refused"]
<1>3. requests[f] \in RequestRow /\ row \in RequestRow
  BY <1>1, <1>2, RowTypes
<1>4. row.st = "refused" /\ row.browser = requests[f].browser
  BY <1>3 DEF RequestRow
<1>5. requests' = [requests EXCEPT ![f] = row]
  BY DEF Refused
<1> HIDE DEF row
<1>6. TypeOK'
  BY <1>1, <1>2, <1>3, <1>5, VerdictType, ReturnType DEF TypeOK
<1>7. RowsOK'
  BY <1>1, <1>2, <1>4, <1>5, VerdictType, FlowAssumption DEF RowsOK, TypeOK, There
<1>8. ApprovalWasShown' /\ DeviceFollowsVerdict'
  BY <1>1, <1>2, <1>4, <1>5 DEF IInv, ApprovalWasShown, DeviceFollowsVerdict, TypeOK
<1>9. \A v \in Workers \ {w} : ~(req[v].pc \in Tx /\ Flow(v) = Flow(w))
  BY <1>1 DEF LocksOK, SameRow, FlowLocked, Flow, Tx
<1> QED
  BY <1>6, <1>7, <1>8, <1>9, VerdictStep DEF Refused

LEMMA DenyKeeps ==
  ASSUME IInv, NEW w \in Workers, At(w, "decideDevice"), Return(w),
         ~DeviceLocked(Row(w).device), devices[Row(w).device].st = "pending",
         devices' = [devices EXCEPT ![Row(w).device].st = "denied"],
         Refused(Flow(w)), Verdict({Flow(w), Row(w).device}),
         UNCHANGED << grants, session, pages, policy, events, approvals, pinned >>
  PROVE  IInv'
<1>1. TypeOK /\ CallOK(req[w]) /\ RowsOK /\ LocksOK /\ req[w].pc \in Tx /\ ~At(w, "idle")
  BY DEF IInv, CallsOK, At, Tx
<1>2. /\ Flow(w) \in Flows /\ Row(w).device \in Devices
      /\ requests[Flow(w)].st \in There
  BY <1>1 DEF CallOK, Flow, Row, At
<1> DEFINE f == Flow(w)
           d == Row(w).device
           row == [requests[f] EXCEPT !.st = "refused"]
           drow == [devices[d] EXCEPT !.st = "denied"]
<1>3. requests[f] \in RequestRow /\ row \in RequestRow /\ devices[d] \in DeviceRow
      /\ drow \in DeviceRow
  BY <1>1, <1>2, RowTypes, DeviceTypes
<1>4. row.st = "refused" /\ row.browser = requests[f].browser /\ drow.st = "denied"
  BY <1>3 DEF RequestRow, DeviceRow
<1>5. requests' = [requests EXCEPT ![f] = row] /\ devices' = [devices EXCEPT ![d] = drow]
  BY DEF Refused
<1> HIDE DEF row, drow
<1>6. TypeOK'
  BY <1>1, <1>2, <1>3, <1>5, VerdictType, ReturnType DEF TypeOK
<1>7. RowsOK'
  <2>1. \A i \in Flows \cup Devices : i \notin {f, d} => verdicts'[i] = verdicts[i]
    BY <1>1, VerdictType DEF TypeOK
  <2>2. ASSUME NEW g \in Flows
        PROVE  /\ requests'[g].st # "unborn" => requests'[g].browser \in Browsers
               /\ requests'[g].st \in There \cup {"unborn"} => verdicts'[g] = 0
    BY <1>1, <1>2, <1>4, <1>5, <2>1, FlowAssumption DEF RowsOK, TypeOK, There
  <2>3. ASSUME NEW e \in Devices
        PROVE  devices'[e].st \in {"unborn", "pending", "expired"} => verdicts'[e] = 0
    BY <1>1, <1>2, <1>4, <1>5, <2>1, FlowAssumption DEF RowsOK, TypeOK
  <2> QED
    BY <2>2, <2>3 DEF RowsOK
<1>8. ApprovalWasShown'
  BY <1>1, <1>2, <1>4, <1>5 DEF IInv, ApprovalWasShown, TypeOK
<1>9. DeviceFollowsVerdict'
  BY <1>1, <1>2, <1>4, <1>5 DEF IInv, DeviceFollowsVerdict, TypeOK, RequestRow
<1>10. \A v \in Workers \ {w} : ~(req[v].pc \in Tx /\ Flow(v) = Flow(w))
  BY <1>1 DEF LocksOK, SameRow, Flow, Tx
<1>11. \A e \in Devices :
         \/ devices'[e] = devices[e]
         \/ \A v \in Workers \ {w} : ~(req[v].pc \in Writing /\ Row(v).device = e)
  BY <1>1, <1>5 DEF DeviceLocked, Writing, TypeOK
<1> QED
  BY <1>1, <1>6, <1>7, <1>8, <1>9, <1>10, <1>11, VerdictStep DEF Refused

LEMMA ConsumeKeeps ==
  ASSUME IInv, NEW w \in Workers, Consume(w)
  PROVE  IInv'
<1>1. TypeOK /\ req[w] \in Call /\ CallOK(req[w]) /\ ~At(w, "idle")
  BY DEF IInv, TypeOK, CallsOK, Consume, ConsumeIf, At
<1>2. ~FlowLocked(Flow(w)) /\ Row(w).device \in Devices \cup {None}
  BY <1>1 DEF Consume, ConsumeIf, Call, RequestRow, Row
<1>3. ASSUME NEW pc \in {"decideDevice", "readGrant"}, Goto(w, pc),
             requests[Flow(w)].st \in There,
             pc = "decideDevice" => Row(w).device # None,
             pc = "readGrant" => Row(w).device = None /\ req[w].approve,
             UNCHANGED << tables, session, pages, policy, events, history >>
      PROVE  IInv'
  <2> DEFINE r == [req[w] EXCEPT !.pc = pc]
  <2>1. r \in Call /\ r.pc = pc /\ r.approve = req[w].approve /\ r.flow = Flow(w)
        /\ r.row = Row(w) /\ r.listed = req[w].listed
    BY <1>1 DEF Call, PCs, Flow, Row
  <2>2. req' = [req EXCEPT ![w] = r]
    BY <1>3 DEF Goto
  <2> HIDE DEF r
  <2> QED
    BY <1>1, <1>2, <1>3, <2>1, <2>2, GoKeeps DEF Tx, Writing
<1> USE DEF Consume, ConsumeIf
<1>4. CASE requests[Flow(w)].st \notin There
  BY <1>4, ReturnKeeps DEF tables, history
<1>5. CASE requests[Flow(w)].st \in There /\ Row(w).device # None
  BY <1>5, <1>3 DEF tables, history
<1>6. CASE requests[Flow(w)].st \in There /\ Row(w).device = None /\ req[w].approve
  BY <1>6, <1>3 DEF tables, history
<1>7. CASE requests[Flow(w)].st \in There /\ Row(w).device = None /\ ~req[w].approve
  BY <1>1, <1>7, RefuseKeeps
<1> QED
  BY <1>4, <1>5, <1>6, <1>7

LEMMA DecideKeeps ==
  ASSUME IInv, NEW w \in Workers, DecideDevice(w)
  PROVE  IInv'
<1>1. TypeOK /\ req[w] \in Call /\ CallOK(req[w]) /\ req[w].pc = "decideDevice" /\ ~At(w, "idle")
  BY DEF IInv, TypeOK, CallsOK, DecideDevice, At
<1>2. ~DeviceLocked(Row(w).device) /\ requests[Flow(w)].st \in There
      /\ Row(w).device \in Devices
  BY <1>1 DEF DecideDevice, Decide, CallOK, Tx, Flow, Row
<1> USE DEF DecideDevice, Decide
<1>3. CASE devices[Row(w).device].st = "pending" /\ req[w].approve
  <2> DEFINE r == [req[w] EXCEPT !.pc = "readGrant"]
  <2>1. r \in Call /\ r.pc = "readGrant" /\ r.approve = req[w].approve /\ r.flow = Flow(w)
        /\ r.row = Row(w) /\ r.listed = req[w].listed
    BY <1>1 DEF Call, PCs, Flow, Row
  <2>2. req' = [req EXCEPT ![w] = r]
    BY <1>3 DEF Goto
  <2> HIDE DEF r
  <2> QED
    BY <1>1, <1>2, <1>3, <2>1, <2>2, GoKeeps DEF Tx, Writing, tables, history
<1>4. CASE devices[Row(w).device].st = "pending" /\ ~req[w].approve
  BY <1>2, <1>4, DenyKeeps
<1>5. CASE devices[Row(w).device].st # "pending"
  BY <1>1, <1>2, <1>5, RefuseKeeps DEF Tx
<1> QED
  BY <1>3, <1>4, <1>5
LEMMA ReadGrantKeeps ==
  ASSUME IInv, NEW w \in Workers, ReadGrant(w)
  PROVE  IInv'
<1>1. TypeOK /\ req[w] \in Call /\ CallOK(req[w]) /\ req[w].pc = "readGrant" /\ req[w].approve
  BY DEF IInv, TypeOK, CallsOK, ReadGrant, At
<1>2. /\ requests[Flow(w)].st \in There /\ ~At(w, "idle") /\ Row(w).subject \in Users
      /\ req[w].pc \in Tx /\ req[w].pc \in Writing
      /\ Row(w).device # None => devices[Row(w).device].st \in {"pending", "expired"}
  BY <1>1 DEF CallOK, Tx, Writing, Flow, Row, At
<1> DEFINE g == grants[Row(w).subject]
           S == IF g.st = "live" THEN g.scopes ELSE {}
           C == IF g.st = "live" THEN g.claims ELSE {}
           r == [req[w] EXCEPT !.pc = "commit", !.baseScopes = S, !.baseClaims = C]
<1>3. g \in Grant
  BY <1>1, <1>2 DEF TypeOK
<1>4. S \in SUBSET Scopes /\ C \in SUBSET Claims
  <2> HIDE DEF g
  <2> QED
    BY <1>3 DEF Grant
<1>5. req' = [req EXCEPT ![w] = r]
  BY DEF ReadGrant
<1> HIDE DEF S, C, g
<1>6. r \in Call /\ r.pc = "commit" /\ r.approve = req[w].approve /\ r.flow = Flow(w)
      /\ r.row = Row(w) /\ r.listed = req[w].listed
  BY <1>1, <1>4 DEF Call, PCs, Flow, Row
<1> HIDE DEF r
<1> QED
  BY <1>1, <1>2, <1>5, <1>6, GoKeeps DEF ReadGrant, Tx, Writing

LEMMA MergedType ==
  ASSUME TypeOK, NEW w \in Workers, NEW claims \in SUBSET Claims
  PROVE  Merged(w, claims) \in Grant /\ Merged(w, claims).st = "live"
<1>1. req[w] \in Call /\ Row(w) \in RequestRow
  BY DEF TypeOK, Call, Row
<1>2. req[w].baseScopes \in SUBSET Scopes /\ Row(w).scopes \in SUBSET Scopes
      /\ req[w].baseClaims \in SUBSET Claims
  BY <1>1 DEF Call, RequestRow
<1> QED
  BY <1>2 DEF Merged, ShortLived, Grant

LEMMA CommitKeeps ==
  ASSUME IInv, NEW w \in Workers, Commit(w)
  PROVE  IInv'
<1> DEFINE f == Flow(w)
           d == Row(w).device
           u == Row(w).subject
           claims == Row(w).shown \cap req[w].released
           row == [requests[f] EXCEPT !.st = "approved"]
           drow == [devices[d] EXCEPT !.st = "approved", !.user = u]
           grant == Merged(w, claims)
           approval == [user |-> u, listed |-> req[w].listed, recorded |-> claims]
<1>1. TypeOK /\ req[w] \in Call /\ CallOK(req[w]) /\ RowsOK /\ LocksOK
      /\ req[w].pc = "commit" /\ req[w].approve
  BY DEF IInv, TypeOK, CallsOK, Commit, CommitOf, At
<1>2. /\ f \in Flows /\ u \in Users /\ Row(w).browser \in Browsers
      /\ requests[f].st \in There /\ ~At(w, "idle")
      /\ requests[f].browser = Row(w).browser /\ requests[f].device = d
      /\ d \in Devices \cup {None}
      /\ d # None => devices[d].st \in {"pending", "expired"}
      /\ FormOf(req[w]) \in pages[Row(w).browser]
  BY <1>1 DEF CallOK, Flow, Row, At, Tx, Writing, Call, RequestRow
<1>3. claims \in SUBSET Claims /\ req[w].listed \in SUBSET Claims
  BY <1>1 DEF Call, RequestRow, Row
<1>4. grant \in Grant
  BY <1>1, <1>3, MergedType
<1>5. /\ requests[f] \in RequestRow /\ row \in RequestRow
      /\ d # None => devices[d] \in DeviceRow /\ drow \in DeviceRow
  BY <1>1, <1>2, RowTypes, DeviceTypes
<1>6. /\ row.st = "approved" /\ row.browser = requests[f].browser /\ row.device = d
      /\ d # None => drow.st = "approved" /\ drow.user = u
  BY <1>2, <1>5 DEF RequestRow, DeviceRow
<1>7. /\ requests' = [requests EXCEPT ![f] = row]
      /\ devices' = IF d = None THEN devices ELSE [devices EXCEPT ![d] = drow]
      /\ grants' = [grants EXCEPT ![u] = grant]
      /\ approvals' = [approvals EXCEPT ![f] = approval]
      /\ Verdict({f, d} \ {None}) /\ Return(w)
      /\ requests' = [requests EXCEPT ![Flow(w)].st = "approved"]
      /\ UNCHANGED << session, pages, policy, events, pinned >>
  BY DEF Commit, CommitOf
<1>8. /\ approval \in [user : Users \cup {None}, listed : SUBSET Claims, recorded : SUBSET Claims]
      /\ approval.user = u
      /\ [flow |-> f, user |-> approval.user, listed |-> approval.listed] = FormOf(req[w])
  BY <1>2, <1>3 DEF FormOf, Flow, Row
<1> HIDE DEF row, drow, grant, approval, claims
<1>9. TypeOK'
  <2>1. /\ requests' \in [Flows -> RequestRow] /\ devices' \in [Devices -> DeviceRow]
        /\ grants' \in [Users -> Grant]
    BY <1>1, <1>2, <1>4, <1>5, <1>7 DEF TypeOK
  <2>2. approvals' \in [Flows -> [user : Users \cup {None}, listed : SUBSET Claims,
                                  recorded : SUBSET Claims]]
    BY <1>1, <1>2, <1>7, <1>8 DEF TypeOK
  <2> QED
    BY <1>1, <1>7, <2>1, <2>2, VerdictType, ReturnType DEF TypeOK
<1>10. RowsOK'
  <2>1. requests' = [requests EXCEPT ![f] = row] /\ row.st = "approved"
        /\ row.browser \in Browsers /\ row.device = d
    BY <1>1, <1>2, <1>6, <1>7 DEF RowsOK, There
  <2>2. \A g \in Flows : g # f => requests'[g] = requests[g]
    BY <2>1, <1>1 DEF TypeOK
  <2>3. requests'[f] = row
    BY <2>1, <1>1, <1>2 DEF TypeOK
  <2>4. \A i \in Flows \cup Devices : i \notin {f, d} => verdicts'[i] = verdicts[i]
    BY <1>1, <1>7, VerdictType DEF TypeOK
  <2>5. ASSUME NEW g \in Flows
        PROVE  /\ requests'[g].st # "unborn" => requests'[g].browser \in Browsers
               /\ requests'[g].st \in There \cup {"unborn"} => verdicts'[g] = 0
    <3>1. CASE g = f
      BY <3>1, <2>1, <2>3 DEF There
    <3>2. CASE g # f
      BY <3>2, <1>1, <1>2, <2>2, <2>4, FlowAssumption DEF RowsOK
    <3> QED
      BY <3>1, <3>2
  <2>6. ASSUME NEW e \in Devices, devices'[e].st \in {"unborn", "pending", "expired"}
        PROVE  verdicts'[e] = 0
    <3>1. e # d /\ devices'[e] = devices[e]
      <4>1. CASE d = None
        BY <4>1, <1>7, FlowAssumption
      <4>2. CASE d # None
        <5>1. devices' = [devices EXCEPT ![d] = drow] /\ drow.st = "approved"
          BY <4>2, <1>6, <1>7
        <5> QED
          BY <5>1, <2>6, <1>1 DEF TypeOK
      <4> QED
        BY <4>1, <4>2
    <3> QED
      BY <3>1, <2>6, <2>4, <1>1, <1>2, FlowAssumption DEF RowsOK
  <2> QED
    BY <2>5, <2>6 DEF RowsOK
<1>11. ApprovalWasShown'
  BY <1>1, <1>2, <1>6, <1>7, <1>8 DEF IInv, ApprovalWasShown, TypeOK
<1>12. DeviceFollowsVerdict'
  <2> SUFFICES ASSUME NEW g \in Flows, requests'[g].device # None, requests'[g].st = "approved"
               PROVE  /\ devices'[requests'[g].device].st = "approved"
                      /\ devices'[requests'[g].device].user = approvals'[g].user
    BY DEF DeviceFollowsVerdict
  <2>1. CASE g = f
    BY <2>1, <1>1, <1>2, <1>6, <1>7, <1>8 DEF TypeOK
  <2>2. CASE g # f
    <3>1. requests'[g] = requests[g] /\ approvals'[g] = approvals[g]
      BY <2>2, <1>1, <1>7 DEF TypeOK
    <3>2. devices[requests[g].device].st = "approved"
          /\ devices[requests[g].device].user = approvals[g].user
          /\ requests[g].device \in Devices
      BY <3>1, <1>1 DEF IInv, DeviceFollowsVerdict, TypeOK, RequestRow
    <3>3. requests[g].device # d
      BY <3>1, <3>2, <1>2
    <3>4. devices'[requests[g].device] = devices[requests[g].device]
      BY <3>2, <3>3, <1>1, <1>7 DEF TypeOK
    <3> QED
      BY <3>1, <3>2, <3>4
  <2> QED
    BY <2>1, <2>2
<1>13. \A v \in Workers \ {w} : ~(req[v].pc \in Tx /\ Flow(v) = Flow(w))
  BY <1>1 DEF LocksOK, SameRow, Flow, Tx
<1>14. \A e \in Devices :
         \/ devices'[e] = devices[e]
         \/ \A v \in Workers \ {w} : ~(req[v].pc \in Writing /\ Row(v).device = e)
  BY <1>1, <1>7, FlowAssumption DEF LocksOK, SameRow, Row, Writing, TypeOK
<1> HIDE DEF f, d, u
<1> QED
  BY <1>2, <1>7, <1>9, <1>10, <1>11, <1>12, <1>13, <1>14, VerdictStep

-----------------------------------------------------------------------------
LEMMA InitIInv == Init => IInv
<1> SUFFICES ASSUME Init PROVE IInv
  OBVIOUS
<1>1. TypeOK
  <2>1. requests \in [Flows -> RequestRow]
    BY DEF Init, UnbornRequest, RequestRow
  <2>2. devices \in [Devices -> DeviceRow] /\ grants \in [Users -> Grant]
    BY DEF Init, DeviceRow, Grant
  <2>3. approvals \in [Flows -> [user : Users \cup {None}, listed : SUBSET Claims,
                                 recorded : SUBSET Claims]]
    BY DEF Init, NoApproval
  <2>4. req \in [Workers -> Call] /\ \A w \in Workers : req[w].pc = "idle"
    BY IdleOK DEF Init
  <2>5. /\ session \in [Browsers -> Users \cup {None}] /\ pages \in [Browsers -> SUBSET Page]
        /\ verdicts \in [Flows \cup Devices -> Nat] /\ events \in 0 .. MaxEvents
        /\ pinned \in SUBSET Page
    BY FlowAssumption DEF Init
  <2> QED
    BY <2>1, <2>2, <2>3, <2>4, <2>5 DEF Init, TypeOK
<1>2. CallsOK /\ LocksOK
  BY IdleOK DEF Init, CallsOK, LocksOK, SameRow, Tx, Writing
<1>3. RowsOK
  BY DEF Init, RowsOK, UnbornRequest
<1>4. ApprovalWasShown /\ DeviceFollowsVerdict
  BY DEF Init, ApprovalWasShown, DeviceFollowsVerdict, UnbornRequest
<1> QED
  BY <1>1, <1>2, <1>3, <1>4 DEF IInv

LEMMA NextKeepsIInv == IInv /\ [Next]_vars => IInv'
<1> SUFFICES ASSUME IInv, [Next]_vars PROVE IInv'
  OBVIOUS
<1>1. CASE UNCHANGED vars
  <2>1. TypeOK'
    BY <1>1 DEF IInv, vars, history, TypeOK
  <2> QED
    BY <1>1, <2>1, QuietStep DEF vars, history, QuietRequest, QuietDevice
<1>2. ASSUME NEW w \in Workers, Handle(w) PROVE IInv'
  <2>1. CASE GetCheck(w)
    BY <2>1, CheckKeeps DEF GetCheck, At
  <2>2. CASE PostCheck(w)
    BY <2>2, CheckKeeps DEF PostCheck, At
  <2> QED
    BY <1>2, <2>1, <2>2, GetPinKeeps, GetRenderKeeps, ConsumeKeeps, DecideKeeps, ReadGrantKeeps, CommitKeeps
       DEF Handle
<1>3. ASSUME NEW w \in Workers, NEW b \in Browsers, NEW f \in Flows, GetConsent(w, b, f)
      PROVE  IInv'
  <2>1. Begin(w, "getCheck", f, FALSE, {}) /\ Usable(f, b)
        /\ UNCHANGED << tables, session, pages, policy, events, history >>
    BY <1>3 DEF GetConsent
  <2>2. FALSE \in BOOLEAN /\ {} \in SUBSET Claims
        /\ "getCheck" \in {"getCheck", "postCheck", "consume"}
    OBVIOUS
  <2> QED
    BY <2>1, <2>2, BeginKeeps
<1>4. ASSUME NEW w \in Workers, NEW b \in Browsers, NEW approve \in BOOLEAN,
             NEW page \in pages[b], Submit(w, b, page, approve)
      PROVE  IInv'
  <2>1. page \in Page
    BY DEF IInv, TypeOK
  <2>2. page.flow \in Flows /\ page.listed \in SUBSET Claims
        /\ page = [flow |-> page.flow, user |-> page.user, listed |-> page.listed]
    BY <2>1 DEF Page
  <2> DEFINE pc == IF approve THEN "postCheck" ELSE "consume"
  <2>3. pc \in {"getCheck", "postCheck", "consume"}
    OBVIOUS
  <2>4. Begin(w, pc, page.flow, approve, page.listed) /\ Usable(page.flow, b)
        /\ page.user = requests[page.flow].subject
        /\ UNCHANGED << tables, session, pages, policy, events, history >>
    BY <1>4 DEF Submit
  <2> HIDE DEF pc
  <2> QED
    BY <2>2, <2>3, <2>4, BeginKeeps
<1> QED
  BY <1>1, <1>2, <1>3, <1>4, QuietKeeps DEF Next

(* Every reachable state satisfies the inductive invariant. *)
THEOREM Inductive == Spec => []IInv
<1> QED
  BY InitIInv, NextKeepsIInv, PTL DEF Spec

(* Types, and that a grant is written only for an approving post. *)
THEOREM TypeCorrect == Spec => []TypeOK
<1>1. IInv => TypeOK
  BY DEF IInv
<1> QED
  BY <1>1, Inductive, PTL

(* Whatever signs in or out in a browser, and however many pages of however *)
(* many requests are open, an approval is of a page its user was shown.     *)
THEOREM ApprovedWasShown == Spec => []ApprovalWasShown
<1>1. IInv => ApprovalWasShown
  BY DEF IInv
<1> QED
  BY <1>1, Inductive, PTL

(* A device code stays with the verdict of the request that decided it. *)
THEOREM DeviceKeepsVerdict == Spec => []DeviceFollowsVerdict
<1>1. IInv => DeviceFollowsVerdict
  BY DEF IInv
<1> QED
  BY <1>1, Inductive, PTL
-----------------------------------------------------------------------------
(* The implementation of the ledger of approvals.                          *)

Live == {u \in Users : grants[u].st = "live"}
Items == Flows \cup Devices

(* A verdict on items that had none is a verdict of the ledger. *)
LEMMA VerdictIsDecide ==
  ASSUME IInv, NEW D \in SUBSET Items, Verdict(D), \A i \in D : verdicts[i] = 0
  PROVE  Ledger!Decide(D)
<1>1. \A i \in Items : verdicts[i] \in Nat
  BY DEF IInv, TypeOK, Items
<1> QED
  BY <1>1 DEF Ledger!Decide, Verdict, Items

LEMMA RefuseIsRefuse ==
  ASSUME IInv, NEW D \in SUBSET Items, Verdict(D), \A i \in D : verdicts[i] = 0,
         UNCHANGED grants
  PROVE  Ledger!Next
<1>1. Ledger!Refuse(D)
  BY VerdictIsDecide DEF Ledger!Refuse
<1> QED
  BY <1>1 DEF Ledger!Next, Items

LEMMA ApproveIsApprove ==
  ASSUME IInv, NEW D \in SUBSET Items, D # {}, Verdict(D), \A i \in D : verdicts[i] = 0,
         NEW u \in Users, Live' = Live \cup {u}
  PROVE  Ledger!Next
<1>1. Ledger!Approve(D, u)
  BY VerdictIsDecide DEF Ledger!Approve, Live
<1> QED
  BY <1>1 DEF Ledger!Next, Items

(* The request of a post that is about to get its verdict has none yet. *)
LEMMA Undecided ==
  ASSUME IInv, NEW w \in Workers, ~At(w, "idle"), requests[Flow(w)].st \in There
  PROVE  Flow(w) \in Flows /\ verdicts[Flow(w)] = 0
BY DEF IInv, CallsOK, CallOK, RowsOK, Flow, At

LEMMA LedgerStep ==
  ASSUME IInv, [Next]_vars
  PROVE  [Ledger!Next]_(Ledger!vars)
<1>1. CASE UNCHANGED << grants, verdicts >>
  BY <1>1 DEF Ledger!vars
<1>2. ASSUME NEW u \in Users, UserRevoke(u) PROVE Ledger!Next
  <2>1. Live' = Live \ {u}
    BY <1>2 DEF UserRevoke, Live, IInv, TypeOK, Grant
  <2>2. Ledger!Revoke({u}) /\ {u} \in SUBSET Users
    BY <1>2, <2>1 DEF Ledger!Revoke, Live, UserRevoke, history
  <2> QED
    BY <2>2 DEF Ledger!Next
<1>3. ASSUME NEW w \in Workers, Consume(w), ~UNCHANGED << grants, verdicts >> PROVE Ledger!Next
  <2>1. Verdict({Flow(w)}) /\ requests[Flow(w)].st \in There /\ ~At(w, "idle") /\ UNCHANGED grants
    BY <1>3 DEF Consume, ConsumeIf, At
  <2>2. {Flow(w)} \in SUBSET Items /\ \A i \in {Flow(w)} : verdicts[i] = 0
    BY <2>1, Undecided DEF Items
  <2> QED
    BY <2>1, <2>2, RefuseIsRefuse
<1>4. ASSUME NEW w \in Workers, DecideDevice(w), ~UNCHANGED << grants, verdicts >>
      PROVE  Ledger!Next
  <2> DEFINE d == Row(w).device
  <2>1. req[w].pc = "decideDevice" /\ ~At(w, "idle")
    BY <1>4 DEF DecideDevice, At
  <2>2. requests[Flow(w)].st \in There /\ d \in Devices
    BY <2>1 DEF IInv, CallsOK, CallOK, Tx, Flow, Row
  <2>3. Flow(w) \in Flows /\ verdicts[Flow(w)] = 0
    BY <2>1, <2>2, Undecided
  <2>4. /\ UNCHANGED grants
        /\ \/ devices[d].st = "pending" /\ Verdict({Flow(w), d})
           \/ Verdict({Flow(w)})
    BY <1>4 DEF DecideDevice, Decide
  <2>5. devices[d].st = "pending" => verdicts[d] = 0
    BY <2>2 DEF IInv, RowsOK
  <2>8. UNCHANGED grants
    BY <2>4
  <2> HIDE DEF d
  <2>6. CASE devices[d].st = "pending" /\ Verdict({Flow(w), d})
    <3>1. {Flow(w), d} \in SUBSET Items /\ \A i \in {Flow(w), d} : verdicts[i] = 0
      BY <2>2, <2>3, <2>5, <2>6 DEF Items
    <3> QED
      BY <2>8, <2>6, <3>1, RefuseIsRefuse
  <2>7. CASE Verdict({Flow(w)})
    <3>1. {Flow(w)} \in SUBSET Items /\ \A i \in {Flow(w)} : verdicts[i] = 0
      BY <2>3 DEF Items
    <3> QED
      BY <2>8, <2>7, <3>1, RefuseIsRefuse
  <2> QED
    BY <2>4, <2>6, <2>7
<1>5. ASSUME NEW w \in Workers, Commit(w) PROVE Ledger!Next
  <2> DEFINE d == Row(w).device
             u == Row(w).subject
             D == {Flow(w), d} \ {None}
             claims == Row(w).shown \cap req[w].released
             grant == Merged(w, claims)
  <2>1. TypeOK /\ req[w] \in Call /\ CallOK(req[w]) /\ req[w].pc = "commit" /\ ~At(w, "idle")
    BY <1>5 DEF IInv, TypeOK, CallsOK, Commit, CommitOf, At
  <2>2. /\ requests[Flow(w)].st \in There /\ u \in Users /\ d \in Devices \cup {None}
        /\ d # None => devices[d].st \in {"pending", "expired"}
    BY <2>1 DEF CallOK, Tx, Writing, Flow, Row, Call, RequestRow
  <2>3. Flow(w) \in Flows /\ verdicts[Flow(w)] = 0
    BY <2>1, <2>2, Undecided
  <2>4. D \in SUBSET Items /\ \A i \in D : verdicts[i] = 0
    BY <2>2, <2>3 DEF Items, IInv, RowsOK
  <2>5. Verdict(D) /\ grants' = [grants EXCEPT ![u] = grant]
    BY <1>5 DEF Commit, CommitOf
  <2>6. grant.st = "live"
    BY DEF Merged
  <2> HIDE DEF grant, u, D
  <2>7. Live' = Live \cup {u}
    BY <2>1, <2>2, <2>5, <2>6 DEF Live, TypeOK
  <2>8. D # {}
    BY <2>3, FlowAssumption DEF D
  <2> QED
    BY <2>2, <2>4, <2>5, <2>7, <2>8, ApproveIsApprove
<1>6. ASSUME \A w \in Workers : ~Consume(w) /\ ~DecideDevice(w) /\ ~Commit(w),
             \A u \in Users : ~UserRevoke(u)
      PROVE  UNCHANGED << grants, verdicts >>
  <2>1. CASE \E w \in Workers : \/ GetCheck(w) \/ GetPin(w) \/ GetRender(w)
                               \/ PostCheck(w) \/ ReadGrant(w) \/ Fail(w)
    BY <2>1 DEF GetCheck, GetPin, GetRender, PostCheck, Check, ReadGrant, Fail, tables, history
  <2>2. CASE \/ \E f \in Flows, b \in Browsers, S \in Requested : Authorize(f, b, S)
             \/ \E d \in Devices, S \in Requested : IssueDeviceCode(d, S)
             \/ \E f \in Flows, b \in Browsers, d \in Devices : EnterUserCode(f, b, d)
             \/ \E f \in Flows, b \in Browsers, u \in Users : SignIn(b, f, u)
             \/ \E b \in Browsers, u \in Users \cup {None} : SetSession(b, u)
    BY <2>2 DEF Authorize, IssueDeviceCode, EnterUserCode, SignIn, SetSession, tables, history
  <2>3. CASE \/ \E f \in Flows : ExpireRequest(f) \/ DropExpired(f)
             \/ \E d \in Devices : DeviceExpires(d)
             \/ \E p \in Policies : SetPolicy(p)
             \/ Rest \/ UNCHANGED vars
    BY <2>3 DEF ExpireRequest, DropExpired, DeviceExpires, SetPolicy, Rest, vars, tables, history
  <2>4. CASE \/ \E w \in Workers, b \in Browsers, f \in Flows : GetConsent(w, b, f)
             \/ \E w \in Workers, b \in Browsers, approve \in BOOLEAN :
                  \E page \in pages[b] : Submit(w, b, page, approve)
    BY <2>4 DEF GetConsent, Submit, tables, history
  <2> QED
    BY <1>6, <2>1, <2>2, <2>3, <2>4 DEF Next, Handle
<1> QED
  BY <1>1, <1>2, <1>3, <1>4, <1>5, <1>6

(* The consent page implements the ledger of approvals: one verdict for     *)
(* each request and device code, and no grant comes to life without one.    *)
THEOREM ImplementsLedger == Spec => LedgerSpec
<1>1. Init => Ledger!Init
  BY DEF Init, Ledger!Init
<1> QED
  BY <1>1, LedgerStep, Inductive, PTL DEF Spec, LedgerSpec, Ledger!Spec
-----------------------------------------------------------------------------
(* Where the claims on a grant come from.                                  *)

PinnedFor(f, c) == \E page \in pinned : page.flow = f /\ c \in page.listed

ConsentedTo(u, c) ==
  \E f \in Flows : requests[f].st = "approved" /\ approvals[f].user = u /\ PinnedFor(f, c)

(* What a row or a request shows was pinned for it, and a merge starts from *)
(* claims consented to. *)
ClaimsInv ==
  /\ \A f \in Flows : \A c \in requests[f].shown : PinnedFor(f, c)
  /\ \A w \in Workers : req[w].pc # "idle" => \A c \in Row(w).shown : PinnedFor(Flow(w), c)
  /\ \A w \in Workers : req[w].pc = "commit" =>
       \A c \in req[w].baseClaims : ConsentedTo(Row(w).subject, c)
  /\ \A u \in Users : \A c \in grants[u].claims : ConsentedTo(u, c)

(* What was pinned stays noted, and what was approved stays approved. *)
Lasting ==
  /\ pinned \subseteq pinned'
  /\ \A f \in Flows : requests[f].st = "approved" =>
       requests'[f].st = "approved" /\ approvals'[f] = approvals[f]

LEMMA LastingStep ==
  ASSUME IInv, [Next]_vars
  PROVE  Lasting
<1>0. TypeOK
  BY DEF IInv
<1>1. ASSUME NEW w \in Workers, ~At(w, "idle"), NEW s \in {"approved", "refused"},
             requests[Flow(w)].st \in There,
             requests' = [requests EXCEPT ![Flow(w)].st = s], UNCHANGED pinned,
             \A f \in Flows : f # Flow(w) => approvals'[f] = approvals[f]
      PROVE  Lasting
  BY <1>0, <1>1 DEF Lasting, TypeOK, There
<1>2. ASSUME NEW w \in Workers, GetPin(w) PROVE Lasting
  <2>1. req[w].pc = "getPin" /\ CallOK(req[w])
    BY <1>2 DEF GetPin, At, IInv, CallsOK
  <2>2. Flow(w) \in Flows
    BY <2>1 DEF CallOK, Flow
  <2>3. pinned \subseteq pinned'
    BY <1>2 DEF GetPin
  <2>4. \A f \in Flows : requests'[f].st = requests[f].st
    <3> DEFINE row == [requests[Flow(w)] EXCEPT !.shown = req[w].released]
    <3>1. row.st = requests[Flow(w)].st
      BY <1>0, <2>2 DEF TypeOK, RequestRow
    <3>2. requests' = requests \/ requests' = [requests EXCEPT ![Flow(w)] = row]
      BY <1>2 DEF GetPin
    <3> HIDE DEF row
    <3> QED
      BY <1>0, <3>1, <3>2 DEF TypeOK
  <2> QED
    BY <1>2, <2>3, <2>4 DEF GetPin, Lasting
<1>3. ASSUME NEW w \in Workers, Consume(w) PROVE Lasting
  <2>1. ~At(w, "idle") /\ UNCHANGED << pinned, approvals >>
    BY <1>3 DEF Consume, ConsumeIf, At
  <2>2. CASE UNCHANGED requests
    BY <2>1, <2>2 DEF Lasting
  <2>3. CASE ~UNCHANGED requests
    <3>1. requests[Flow(w)].st \in There /\ Refused(Flow(w))
      BY <1>3, <2>3 DEF Consume, ConsumeIf
    <3> QED
      BY <2>1, <3>1, <1>1 DEF Refused
  <2> QED
    BY <2>2, <2>3
<1>4. ASSUME NEW w \in Workers, DecideDevice(w) PROVE Lasting
  <2>1. ~At(w, "idle") /\ UNCHANGED << pinned, approvals >> /\ req[w].pc \in Tx
    BY <1>4 DEF DecideDevice, Decide, At, Tx
  <2>2. requests[Flow(w)].st \in There
    BY <2>1 DEF IInv, CallsOK, CallOK, Flow
  <2>3. UNCHANGED requests \/ Refused(Flow(w))
    BY <1>4 DEF DecideDevice, Decide
  <2> QED
    BY <2>1, <2>2, <2>3, <1>1 DEF Refused, Lasting
<1>5. ASSUME NEW w \in Workers, Commit(w) PROVE Lasting
  <2>1. /\ ~At(w, "idle") /\ req[w].pc \in Tx
        /\ UNCHANGED pinned
        /\ requests' = [requests EXCEPT ![Flow(w)].st = "approved"]
        /\ \A f \in Flows : f # Flow(w) => approvals'[f] = approvals[f]
    BY <1>0, <1>5 DEF Commit, CommitOf, At, Tx, TypeOK
  <2>2. requests[Flow(w)].st \in There
    BY <2>1 DEF IInv, CallsOK, CallOK, Flow
  <2> QED
    BY <2>1, <2>2, <1>1
<1>6. CASE \E w \in Workers : \/ GetCheck(w) \/ GetRender(w) \/ PostCheck(w)
                             \/ ReadGrant(w) \/ Fail(w)
  BY <1>6 DEF GetCheck, GetRender, PostCheck, Check, ReadGrant, Fail, tables, history, Lasting
<1>7. CASE \/ \E f \in Flows, b \in Browsers, S \in Requested : Authorize(f, b, S)
           \/ \E f \in Flows, b \in Browsers, d \in Devices : EnterUserCode(f, b, d)
           \/ \E f \in Flows, b \in Browsers, u \in Users : SignIn(b, f, u)
           \/ \E f \in Flows : ExpireRequest(f) \/ DropExpired(f)
  BY <1>0, <1>7 DEF Authorize, EnterUserCode, SignIn, ExpireRequest, DropExpired, history,
     Lasting, TypeOK
<1>8. CASE \/ \E d \in Devices, S \in Requested : IssueDeviceCode(d, S)
           \/ \E b \in Browsers, u \in Users \cup {None} : SetSession(b, u)
           \/ \E u \in Users : UserRevoke(u)
           \/ \E d \in Devices : DeviceExpires(d)
           \/ \E p \in Policies : SetPolicy(p)
           \/ Rest \/ UNCHANGED vars
  BY <1>8 DEF IssueDeviceCode, SetSession, UserRevoke, DeviceExpires, SetPolicy, Rest, vars,
     tables, history, Lasting
<1>9. CASE \/ \E w \in Workers, b \in Browsers, f \in Flows : GetConsent(w, b, f)
           \/ \E w \in Workers, b \in Browsers, approve \in BOOLEAN :
                \E page \in pages[b] : Submit(w, b, page, approve)
  BY <1>9 DEF GetConsent, Submit, tables, history, Lasting
<1> QED
  BY <1>2, <1>3, <1>4, <1>5, <1>6, <1>7, <1>8, <1>9 DEF Next, Handle

LEMMA PinnedLasts ==
  ASSUME Lasting, NEW f \in Flows, NEW c
  PROVE  PinnedFor(f, c) => PinnedFor(f, c)'
BY DEF Lasting, PinnedFor

LEMMA ConsentLasts ==
  ASSUME Lasting, NEW u, NEW c
  PROVE  ConsentedTo(u, c) => ConsentedTo(u, c)'
BY PinnedLasts DEF Lasting, ConsentedTo

(* The shown claims of a row, the claims a request carries and those of a   *)
(* grant are kept, copied or backed by a page.                              *)
ShownKept(f) ==
  requests'[f].shown = requests[f].shown \/ \A c \in requests'[f].shown : PinnedFor(f, c)'

CallKept(w) ==
  \/ req'[w].pc = "idle"
  \/ /\ \/ req[w].pc # "idle" /\ req'[w].flow = req[w].flow /\ req'[w].row = req[w].row
        \/ req'[w].flow \in Flows /\ req'[w].row = requests[req'[w].flow]
     /\ req'[w].pc = "commit" =>
          \/ /\ req'[w].row.subject \in Users
             /\ req'[w].baseClaims \subseteq grants[req'[w].row.subject].claims
          \/ req'[w] = req[w]

GrantKept(u) ==
  \/ grants'[u].claims = grants[u].claims
  \/ \A c \in grants'[u].claims : ConsentedTo(u, c)'

LEMMA ClaimsStep ==
  ASSUME IInv, ClaimsInv, Lasting, \A f \in Flows : ShownKept(f),
         \A w \in Workers : CallKept(w), \A u \in Users : GrantKept(u)
  PROVE  ClaimsInv'
<1>1. ASSUME NEW f \in Flows, NEW c \in requests'[f].shown PROVE PinnedFor(f, c)'
  BY <1>1, PinnedLasts DEF ShownKept, ClaimsInv
<1>2. ASSUME NEW w \in Workers, req'[w].pc # "idle", NEW c \in req'[w].row.shown
      PROVE  PinnedFor(req[w].flow, c)'
  <2> DEFINE f == req'[w].flow
  <2>1. f \in Flows /\ PinnedFor(f, c)
    <3>1. CASE req[w].pc # "idle" /\ req'[w].flow = req[w].flow /\ req'[w].row = req[w].row
      BY <1>2, <3>1 DEF ClaimsInv, Flow, Row, IInv, CallsOK, CallOK
    <3>2. CASE f \in Flows /\ req'[w].row = requests[f]
      BY <1>2, <3>2 DEF ClaimsInv
    <3> QED
      BY <1>2, <3>1, <3>2 DEF CallKept
  <2> HIDE DEF f
  <2>2. \E page \in pinned' : page.flow = f /\ c \in page.listed
    BY <2>1 DEF PinnedFor, Lasting
  <2> QED
    BY <2>2 DEF PinnedFor, f
<1>3. ASSUME NEW w \in Workers, req'[w].pc = "commit", NEW c \in req'[w].baseClaims
      PROVE  ConsentedTo(req[w].row.subject, c)'
  <2> DEFINE u == req'[w].row.subject
  <2>1. ConsentedTo(u, c)
    BY <1>3 DEF CallKept, ClaimsInv, Row
  <2> HIDE DEF u
  <2>2. \E f \in Flows : /\ requests'[f].st = "approved" /\ approvals'[f].user = u
                         /\ PinnedFor(f, c)'
    BY <2>1, PinnedLasts DEF ConsentedTo, Lasting
  <2> QED
    BY <2>2 DEF ConsentedTo, u
<1>4. ASSUME NEW u \in Users, NEW c \in grants'[u].claims PROVE ConsentedTo(u, c)'
  BY <1>4, ConsentLasts DEF GrantKept, ClaimsInv
<1> QED
  BY <1>1, <1>2, <1>3, <1>4 DEF ClaimsInv, Flow, Row

LEMMA RowsKept ==
  ASSUME IInv, NEW g \in Flows,
         \/ \E s \in {"open", "expired", "approved", "refused", "dropped"} :
              requests' = [requests EXCEPT ![g].st = s]
         \/ \E u \in Users : requests' = [requests EXCEPT ![g].subject = u]
         \/ \E b, d, S : requests' = [requests EXCEPT ![g] = Opened(b, d, S)]
         \/ UNCHANGED requests
  PROVE  \A f \in Flows : ShownKept(f)
<1>1. TypeOK /\ requests[g] \in RequestRow
  BY DEF IInv, TypeOK
<1>2. CASE \E s \in {"open", "expired", "approved", "refused", "dropped"} :
             requests' = [requests EXCEPT ![g].st = s]
  BY <1>1, <1>2 DEF TypeOK, ShownKept, RequestRow
<1>3. CASE \E u \in Users : requests' = [requests EXCEPT ![g].subject = u]
  BY <1>1, <1>3 DEF TypeOK, ShownKept, RequestRow
<1>4. CASE \E b, d, S : requests' = [requests EXCEPT ![g] = Opened(b, d, S)]
  BY <1>1, <1>4 DEF TypeOK, ShownKept, Opened, UnbornRequest
<1> QED
  BY <1>2, <1>3, <1>4 DEF ShownKept

LEMMA CallsKept ==
  ASSUME IInv, \/ UNCHANGED req
               \/ \E w \in Workers : Return(w)
               \/ \E w \in Workers, pc \in PCs \ {"commit"} : ~At(w, "idle") /\ Goto(w, pc)
  PROVE  \A w \in Workers : CallKept(w)
<1>1. TypeOK
  BY DEF IInv
<1>2. CASE UNCHANGED req
  BY <1>2 DEF CallKept
<1>3. CASE \E w \in Workers : Return(w)
  BY <1>1, <1>3, ReturnType, IdleOK DEF CallKept
<1>4. ASSUME NEW w \in Workers, NEW pc \in PCs \ {"commit"}, ~At(w, "idle"), Goto(w, pc)
      PROVE  \A v \in Workers : CallKept(v)
  <2> DEFINE r == [req[w] EXCEPT !.pc = pc]
  <2>1. r.pc = pc /\ r.flow = req[w].flow /\ r.row = req[w].row
    BY <1>1 DEF TypeOK, Call
  <2>2. req' = [req EXCEPT ![w] = r]
    BY <1>4 DEF Goto
  <2> HIDE DEF r
  <2> QED
    BY <1>1, <1>4, <2>1, <2>2 DEF TypeOK, CallKept, At
<1> QED
  BY <1>2, <1>3, <1>4

(* Only a commit adds a claim to a grant, and only one pinned and released. *)
LEMMA CommitClaims ==
  ASSUME IInv, ClaimsInv, Lasting, NEW w \in Workers, Commit(w)
  PROVE  \A u \in Users : GrantKept(u)
<1>0. Row(w).subject \in Users /\ Flow(w) \in Flows
  BY DEF IInv, CallsOK, CallOK, Commit, CommitOf, At, Flow, Row
<1> SUFFICES ASSUME NEW u \in Users, NEW f \in Flows, u = Row(w).subject, f = Flow(w)
             PROVE  \A v \in Users : GrantKept(v)
  BY <1>0
<1> DEFINE claims == Row(w).shown \cap req[w].released
           grant == Merged(w, claims)
<1>1. TypeOK /\ req[w] \in Call /\ CallOK(req[w]) /\ req[w].pc = "commit"
  BY DEF IInv, TypeOK, CallsOK, Commit, CommitOf, At
<1>3. grant.claims = req[w].baseClaims \cup claims
  BY DEF Merged
<1>4. /\ grants' = [grants EXCEPT ![u] = grant]
      /\ requests' = [requests EXCEPT ![f].st = "approved"]
      /\ approvals' = [approvals EXCEPT ![f] =
                          [user |-> u, listed |-> req[w].listed, recorded |-> claims]]
  BY DEF Commit, CommitOf
<1>5. \A c \in claims : PinnedFor(f, c)
  BY <1>1 DEF ClaimsInv
<1>6. \A c \in req[w].baseClaims : ConsentedTo(u, c)
  BY <1>1 DEF ClaimsInv
<1> HIDE DEF claims, grant
<1>7. requests'[f].st = "approved" /\ approvals'[f].user = u
  <2>1. requests[f] \in RequestRow /\ requests \in [Flows -> RequestRow] /\ approvals'[f].user = u
    BY <1>1, <1>4 DEF TypeOK
  <2>2. [requests[f] EXCEPT !.st = "approved"].st = "approved"
    BY <2>1 DEF RequestRow
  <2> QED
    BY <1>4, <2>1, <2>2
<1>8. ASSUME NEW c \in grant.claims PROVE ConsentedTo(u, c)'
  <2>1. CASE c \in claims
    <3>1. PinnedFor(f, c)'
      <4>1. PinnedFor(f, c)
        BY <1>5, <2>1
      <4> QED
        BY <4>1, PinnedLasts
    <3>2. \E g \in Flows : requests'[g].st = "approved" /\ approvals'[g].user = u /\ PinnedFor(g, c)'
      BY <1>7, <3>1
    <3> QED
      BY <3>2 DEF ConsentedTo
  <2>2. CASE c \in req[w].baseClaims
    <3>1. ConsentedTo(u, c)
      BY <1>6, <2>2
    <3> QED
      BY <3>1, ConsentLasts
  <2> QED
    BY <1>3, <2>1, <2>2
<1> QED
  BY <1>1, <1>4, <1>8 DEF TypeOK, GrantKept

(* The steps that change what a request carries, or what is pinned. *)
LEMMA HandleClaims ==
  ASSUME IInv, ClaimsInv, Lasting, NEW w \in Workers, Handle(w)
  PROVE  ClaimsInv'
<1> DEFINE Kept == /\ \A f \in Flows : ShownKept(f)
                   /\ \A v \in Workers : CallKept(v)
                   /\ \A u \in Users : GrantKept(u)
<1> SUFFICES Kept
  BY ClaimsStep
<1>0. TypeOK /\ req[w] \in Call
  BY DEF IInv, TypeOK
<1>1. ASSUME NEW pc \in {"getPin", "consume"}, ~At(w, "idle"), Check(w, pc) PROVE Kept
  <2>1. \E r \in Call : /\ req' = [req EXCEPT ![w] = r]
                        /\ r.pc \in {"idle", "getPin", "consume"}
                        /\ r = Idle \/ (r.flow = req[w].flow /\ r.row = req[w].row)
    <3>1. CASE Return(w)
      BY <3>1, IdleOK DEF Return
    <3>2. CASE req' = [req EXCEPT ![w].pc = "consume", ![w].approve = FALSE]
      <4> DEFINE r == [req[w] EXCEPT !.pc = "consume", !.approve = FALSE]
      <4>1. /\ r \in Call /\ r.pc = "consume" /\ r.flow = req[w].flow
            /\ r.row = req[w].row
        BY <1>0 DEF Call, PCs
      <4>2. req' = [req EXCEPT ![w] = r]
        BY <1>0, <3>2 DEF TypeOK
      <4> HIDE DEF r
      <4> QED
        BY <4>1, <4>2
    <3>3. CASE req' = [req EXCEPT ![w].pc = pc, ![w].released = policy.released]
      <4> DEFINE r == [req[w] EXCEPT !.pc = pc, !.released = policy.released]
      <4>1. policy.released \in SUBSET Claims
        BY <1>0, PolicyType DEF Policy
      <4>2. /\ r \in Call /\ r.pc = pc /\ r.flow = req[w].flow
            /\ r.row = req[w].row
        BY <1>0, <4>1 DEF Call, PCs
      <4>3. req' = [req EXCEPT ![w] = r]
        BY <1>0, <3>3 DEF TypeOK
      <4> HIDE DEF r
      <4> QED
        BY <4>2, <4>3
    <3> QED
      BY <1>1, <3>1, <3>2, <3>3 DEF Check
  <2>2. \A v \in Workers : CallKept(v)
    BY <1>0, <1>1, <2>1, IdleOK DEF TypeOK, CallKept, At
  <2> QED
    BY <1>1, <2>2 DEF Check, tables, ShownKept, GrantKept
<1>2. CASE GetPin(w)
  <2>1. req[w].pc = "getPin" /\ CallOK(req[w]) /\ ~At(w, "idle")
    BY <1>2 DEF GetPin, At, IInv, CallsOK
  <2>2. PICK f \in Flows : f = Flow(w)
    BY <2>1 DEF CallOK, Flow
  <2>3. CASE UNCHANGED requests
    BY <1>2, <2>1, <2>3, CallsKept DEF GetPin, PCs, ShownKept, GrantKept
  <2>4. CASE ~UNCHANGED requests
    <3> DEFINE page == PageOf(w)
               row == [requests[f] EXCEPT !.shown = req[w].released]
    <3>1. page.flow = f /\ page.listed = req[w].released /\ row.shown = req[w].released
      BY <1>0, <2>2 DEF PageOf, TypeOK, RequestRow
    <3>2. page \in pinned' /\ requests' = [requests EXCEPT ![f] = row]
      BY <1>2, <2>2, <2>4 DEF GetPin
    <3> HIDE DEF page, row
    <3>3. \A c \in req[w].released : PinnedFor(f, c)'
      BY <3>1, <3>2 DEF PinnedFor
    <3>4. \A g \in Flows : ShownKept(g)
      BY <1>0, <3>1, <3>2, <3>3 DEF TypeOK, ShownKept
    <3> QED
      BY <1>2, <2>1, <3>4, CallsKept DEF GetPin, PCs, GrantKept
  <2> QED
    BY <2>3, <2>4
<1>8. CASE GetRender(w)
  BY <1>8, CallsKept DEF GetRender, tables, ShownKept, GrantKept
<1>3. CASE Consume(w)
  <2>1. /\ ~At(w, "idle") /\ UNCHANGED grants
        /\ Return(w) \/ Goto(w, "decideDevice") \/ Goto(w, "readGrant")
        /\ UNCHANGED requests \/ Refused(Flow(w))
    BY <1>3 DEF Consume, ConsumeIf, At
  <2>2. Flow(w) \in Flows
    BY <2>1 DEF IInv, CallsOK, CallOK, At, Flow
  <2> QED
    BY <2>1, <2>2, RowsKept, CallsKept DEF Refused, PCs, GrantKept
<1>4. CASE DecideDevice(w)
  <2>1. /\ ~At(w, "idle") /\ UNCHANGED grants
        /\ Return(w) \/ Goto(w, "readGrant")
        /\ UNCHANGED requests \/ Refused(Flow(w))
    BY <1>4 DEF DecideDevice, Decide, At
  <2>2. Flow(w) \in Flows
    BY <2>1 DEF IInv, CallsOK, CallOK, At, Flow
  <2> QED
    BY <2>1, <2>2, RowsKept, CallsKept DEF Refused, PCs, GrantKept
<1>5. CASE ReadGrant(w)
  <2> DEFINE g == grants[Row(w).subject]
             live == g.st = "live"
             r == [req[w] EXCEPT !.pc = "commit",
                     !.baseScopes = IF live THEN g.scopes ELSE {},
                     !.baseClaims = IF live THEN g.claims ELSE {}]
  <2>1. req' = [req EXCEPT ![w] = r]
    BY <1>0, <1>5 DEF ReadGrant, TypeOK
  <2>2. /\ r.flow = req[w].flow /\ r.row = req[w].row
        /\ r.baseClaims \subseteq grants[r.row.subject].claims
    BY <1>0 DEF Call, Row
  <2>3. req[w].pc = "readGrant" /\ req[w].row.subject \in Users
    BY <1>5 DEF ReadGrant, At, IInv, CallsOK, CallOK
  <2> HIDE DEF r
  <2>4. \A v \in Workers : CallKept(v)
    BY <1>0, <2>1, <2>2, <2>3 DEF TypeOK, CallKept
  <2> QED
    BY <1>5, <2>4 DEF ReadGrant, tables, ShownKept, GrantKept
<1>6. CASE Commit(w)
  <2>1. /\ ~At(w, "idle") /\ Return(w)
        /\ requests' = [requests EXCEPT ![Flow(w)].st = "approved"]
    BY <1>6 DEF Commit, CommitOf, At
  <2>2. Flow(w) \in Flows
    BY <2>1 DEF IInv, CallsOK, CallOK, At, Flow
  <2>3. \A f \in Flows : ShownKept(f)
    BY <2>1, <2>2, RowsKept
  <2>4. \A v \in Workers : CallKept(v)
    BY <2>1, CallsKept
  <2> QED
    BY <1>6, <2>3, <2>4, CommitClaims
<1>7. CASE GetCheck(w) \/ PostCheck(w)
  BY <1>1, <1>7 DEF GetCheck, PostCheck, At
<1> QED
  BY <1>2, <1>3, <1>4, <1>5, <1>6, <1>7, <1>8 DEF Handle

LEMMA ClaimsKept ==
  ASSUME IInv, ClaimsInv, [Next]_vars
  PROVE  ClaimsInv'
<1> DEFINE Kept == /\ \A f \in Flows : ShownKept(f)
                   /\ \A v \in Workers : CallKept(v)
                   /\ \A u \in Users : GrantKept(u)
<1>0. TypeOK /\ Lasting
  BY LastingStep DEF IInv
<1>1. Kept => ClaimsInv'
  BY <1>0, ClaimsStep
<1>2. ASSUME NEW w \in Workers, NEW f \in Flows, NEW pc \in {"getCheck", "postCheck", "consume"},
             NEW approve, NEW listed, Begin(w, pc, f, approve, listed), UNCHANGED tables
      PROVE  Kept
  <2> DEFINE r == [Idle EXCEPT !.pc = pc, !.flow = f, !.row = requests[f],
                               !.approve = approve, !.listed = listed]
  <2>1. r.pc = pc /\ r.flow = f /\ r.row = requests[f]
    BY DEF Idle
  <2>2. req' = [req EXCEPT ![w] = r]
    BY <1>2 DEF Begin
  <2> HIDE DEF r
  <2>3. \A v \in Workers : CallKept(v)
    BY <1>0, <2>1, <2>2 DEF TypeOK, CallKept
  <2> QED
    BY <1>2, <2>3 DEF tables, ShownKept, GrantKept
<1>3. CASE \/ \E w \in Workers, b \in Browsers, f \in Flows : GetConsent(w, b, f)
           \/ \E w \in Workers, b \in Browsers, approve \in BOOLEAN :
                \E page \in pages[b] : Submit(w, b, page, approve)
  <2>1. ASSUME NEW w \in Workers, NEW b \in Browsers, NEW f \in Flows, GetConsent(w, b, f)
        PROVE  Kept
    BY <2>1, <1>2 DEF GetConsent
  <2>2. ASSUME NEW w \in Workers, NEW b \in Browsers, NEW approve \in BOOLEAN,
               NEW page \in pages[b], Submit(w, b, page, approve)
        PROVE  Kept
    <3>1. page.flow \in Flows
      BY <1>0 DEF TypeOK, Page
    <3> DEFINE pc == IF approve THEN "postCheck" ELSE "consume"
    <3>2. pc \in {"getCheck", "postCheck", "consume"}
      OBVIOUS
    <3>3. Begin(w, pc, page.flow, approve, page.listed) /\ UNCHANGED tables
      BY <2>2 DEF Submit
    <3> HIDE DEF pc, Kept
    <3> QED
      BY <3>1, <3>2, <3>3, <1>2
  <2> HIDE DEF Kept
  <2> QED
    BY <1>1, <1>3, <2>1, <2>2
<1>4. CASE UNCHANGED << requests, grants >> /\ (UNCHANGED req \/ \E w \in Workers : Fail(w))
  BY <1>1, <1>4, CallsKept DEF ShownKept, GrantKept, Fail
<1>5. CASE \/ \E d \in Devices, S \in Requested : IssueDeviceCode(d, S)
           \/ \E b \in Browsers, u \in Users \cup {None} : SetSession(b, u)
           \/ \E d \in Devices : DeviceExpires(d)
           \/ \E p \in Policies : SetPolicy(p)
           \/ Rest \/ UNCHANGED vars
           \/ \E w \in Workers : Fail(w)
  BY <1>4, <1>5 DEF IssueDeviceCode, SetSession, DeviceExpires, SetPolicy, Rest, vars, Fail,
     tables, history
<1>6. ASSUME NEW f \in Flows,
             \/ \E b \in Browsers, S \in Requested : Authorize(f, b, S)
             \/ \E b \in Browsers, d \in Devices : EnterUserCode(f, b, d)
             \/ \E b \in Browsers, u \in Users : SignIn(b, f, u)
             \/ ExpireRequest(f) \/ DropExpired(f)
      PROVE  ClaimsInv'
  <2>1. UNCHANGED << req, grants >>
    BY <1>6 DEF Authorize, EnterUserCode, SignIn, ExpireRequest, DropExpired
  <2>2. \A g \in Flows : ShownKept(g)
    BY <1>6, RowsKept DEF Authorize, EnterUserCode, SignIn, ExpireRequest, DropExpired
  <2> QED
    BY <1>1, <2>1, <2>2, CallsKept DEF GrantKept
<1>7. ASSUME NEW u \in Users, UserRevoke(u) PROVE ClaimsInv'
  <2>1. \A v \in Users : GrantKept(v)
    <3> DEFINE g == [grants[u] EXCEPT !.st = "revoked"]
    <3>1. g.claims = grants[u].claims
      BY <1>0 DEF TypeOK, Grant
    <3>2. grants' = [grants EXCEPT ![u] = g]
      BY <1>7 DEF UserRevoke
    <3> HIDE DEF g
    <3> QED
      BY <1>0, <3>1, <3>2 DEF TypeOK, GrantKept
  <2> QED
    BY <1>1, <1>7, <2>1, CallsKept DEF UserRevoke, ShownKept
<1>8. CASE \E w \in Workers : Handle(w)
  BY <1>0, <1>8, HandleClaims
<1> QED
  BY <1>3, <1>5, <1>6, <1>7, <1>8 DEF Next

(* Every claim on a grant was pinned by a load of the page of a request     *)
(* that the user approved, however loads, posts, policies and revocations   *)
(* interleave (consent.ts:356, 452-454). *)
THEOREM ClaimsStayPinned == Spec => []ClaimsWerePinned
<1>1. Init => ClaimsInv
  BY IdleOK DEF Init, ClaimsInv, UnbornRequest
<1>2. IInv /\ ClaimsInv => ClaimsWerePinned
  BY DEF ClaimsInv, ClaimsWerePinned, ConsentedTo, PinnedFor
<1>3. IInv /\ ClaimsInv /\ [Next]_vars => ClaimsInv'
  BY ClaimsKept
<1> QED
  BY <1>1, <1>2, <1>3, Inductive, PTL DEF Spec
=============================================================================
