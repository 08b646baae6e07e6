------------------------- MODULE TokenEndpointProofs -------------------------
(***************************************************************************)
(* Theorems about TokenEndpoint, for any number of requests in flight and  *)
(* any pool of users, clients, resources, scopes and credentials.          *)
(*                                                                         *)
(* The inductive invariant is TypeOK and ClaimsHold, strengthened by what  *)
(* a row that was drawn holds (RowsOK) and what a request that has left    *)
(* its first await carries (CredsOK).  What the steps do to the three      *)
(* tables of credentials is then one of four moves (Moves), and the chain  *)
(* invariants and the refinement of CredentialLedger follow from those.    *)
(***************************************************************************)
EXTENDS TokenEndpoint, TLAPS

CodePCs ==
  {"codeBurn", "codeGrant", "codeUser", "codeMint", "codeClaim", "codeCommit"}
RefreshPCs ==
  {"refreshGrant", "refreshUser", "refreshUpstream", "refreshScopes",
   "refreshClaim", "refreshCommit"}
DevicePCs == {"deviceUser", "deviceMint", "deviceClaim", "deviceGrant", "deviceCommit"}

DrawnCode(c) == c \in Codes /\ codes[c].st # "unborn"
DrawnDevice(d) == d \in Devices /\ devices[d].st # "unborn"
DrawnToken(t) == t \in Tokens /\ tokens[t].st # "unborn"

(* The credential a chain started from can no longer be exchanged. *)
Exchanged(a) ==
  \/ a \in Codes /\ codes[a].st \in {"consumed", "deleted"}
  \/ a \in Devices /\ devices[a].st \in {"consumed", "deleted"}

RowsOK ==
  /\ \A c \in Codes : codes[c].st # "unborn" => codes[c].grant \in GrantKeys
  /\ \A d \in Devices : devices[d].st # "unborn" => devices[d].grant \in GrantKeys
  /\ \A t \in Tokens :
       /\ tokens[t].st = "unborn" => tokens[t] = UnbornToken
       /\ tokens[t].st # "unborn" =>
            /\ tokens[t].grant \in GrantKeys
            /\ tokens[t].origin \in Codes \cup Devices
            /\ Exchanged(tokens[t].origin)

(* What request r carries. *)
CredOK(r) ==
  /\ r.pc \in CodePCs => DrawnCode(r.cred)
  /\ r.pc \in RefreshPCs => DrawnToken(r.cred)
  /\ r.pc \in DevicePCs => DrawnDevice(r.cred)
  /\ r.pc \in {"refreshClaim", "refreshCommit"} => r.scopes \subseteq tokens[r.cred].scopes
  /\ r.pc = "revokeChain" => DrawnCode(r.cred) \/ DrawnToken(r.cred)
  /\ r.cred \in Devices => r.pc \in DevicePCs

CredsOK == \A w \in Workers : CredOK(req[w])

(* The claim that r's transaction has made, if it has made one. *)
ClaimOK(r) ==
  /\ r.pc = "codeCommit" => r.cred \in OpenCodes
  /\ r.pc = "refreshCommit" => r.cred \in OpenTokens
  /\ r.pc \in {"deviceGrant", "deviceCommit"} => r.cred \in OpenDevices

IInv == TypeOK /\ RowsOK /\ CredsOK /\ ClaimsHold

-----------------------------------------------------------------------------
(* A step that moves one request and leaves the tables alone. *)
LEMMA RequestStep ==
  ASSUME IInv, NEW w \in Workers, NEW r \in Request,
         req' = [req EXCEPT ![w] = r],
         UNCHANGED << tables, active, policy, now, answers >>,
         failures' \in Nat,
         CredOK(r), ClaimOK(r),
         r.pc \in CommitPCs =>
           \/ ~Locked(r.cred)
           \/ req[w].pc \in CommitPCs /\ Cred(w) = r.cred
  PROVE  IInv'
<1> USE DEF IInv
<1>1. TypeOK'
  BY DEF TypeOK, tables, policy
<1>2. RowsOK'
  BY DEF RowsOK, tables, Exchanged
<1>3. \A v \in Workers : req'[v] = IF v = w THEN r ELSE req[v]
  BY DEF TypeOK
<1>4. CredsOK'
  BY <1>3 DEF CredsOK, CredOK, tables, DrawnCode, DrawnDevice, DrawnToken
<1>5. ClaimsHold'
  <2>1. OpenCodes' = OpenCodes /\ OpenTokens' = OpenTokens /\ OpenDevices' = OpenDevices
    BY DEF OpenCodes, OpenTokens, OpenDevices, Claimable, UnrevokedRow, tables
  <2>2. \A v \in Workers : ClaimOK(req[v])
    BY DEF ClaimsHold, ClaimOK, At, Cred
  <2>3. \A v \in Workers : ClaimOK(req[v])'
    BY <1>3, <2>1, <2>2 DEF ClaimOK
  <2>4. ASSUME NEW u \in Workers, NEW v \in Workers,
               req'[u].pc \in CommitPCs, req'[v].pc \in CommitPCs,
               req'[u].cred = req'[v].cred
        PROVE  u = v
    BY <1>3, <2>4 DEF ClaimsHold, Locked, Cred
  <2> QED
    BY <2>3, <2>4 DEF ClaimsHold, ClaimOK, At, Cred
<1> QED
  BY <1>1, <1>2, <1>4, <1>5

LEMMA ReturnType ==
  ASSUME TypeOK, NEW w \in Workers, Return(w)
  PROVE  req' \in [Workers -> Request]
<1>1. Idle \in Request
  BY DEF Idle, Request, PCs
<1> QED
  BY <1>1 DEF Return, TypeOK

(* A request ends without having changed a table: it was refused, or it died. *)
LEMMA ReturnStep ==
  ASSUME IInv, NEW w \in Workers, Return(w), failures' \in Nat,
         UNCHANGED << tables, active, policy, now, answers >>
  PROVE  IInv'
<1>1. Idle \in Request /\ CredOK(Idle) /\ ClaimOK(Idle) /\ Idle.pc \notin CommitPCs
  BY ConstantsAssumption
     DEF Request, Idle, PCs, CredOK, ClaimOK, CodePCs, RefreshPCs, DevicePCs, CommitPCs,
         Credentials
<1> QED
  BY <1>1, RequestStep DEF Return

(* A request goes on to its next await with the credential it has. *)
LEMMA GotoStep ==
  ASSUME IInv, NEW w \in Workers, NEW pc \in PCs,
         Goto(w, pc),
         UNCHANGED << tables, active, policy, now, failures, answers >>,
         CredOK([req[w] EXCEPT !.pc = pc]),
         ClaimOK([req[w] EXCEPT !.pc = pc]),
         pc \in CommitPCs => ~Locked(Cred(w)) \/ req[w].pc \in CommitPCs
  PROVE  IInv'
<1> DEFINE r == [req[w] EXCEPT !.pc = pc]
<1>1. req[w] \in Request /\ failures' \in Nat
  BY DEF IInv, TypeOK
<1>2. r \in Request /\ r.cred = Cred(w) /\ r.pc = pc
  BY <1>1 DEF Request, Cred
<1>3. req' = [req EXCEPT ![w] = r]
  BY DEF Goto
<1>4. CredOK(r) /\ ClaimOK(r)
  OBVIOUS
<1> HIDE DEF r
<1> QED
  BY <1>1, <1>2, <1>3, <1>4, RequestStep

(* A request arrives with a credential that was drawn. *)
LEMMA BeginStep ==
  ASSUME IInv, NEW w \in Workers, NEW pc \in PCs \ CommitPCs, NEW c \in Credentials,
         Begin(w, pc, c),
         UNCHANGED << tables, active, policy, now, failures, answers >>,
         CredOK([Idle EXCEPT !.pc = pc, !.cred = c])
  PROVE  IInv'
<1> DEFINE r == [Idle EXCEPT !.pc = pc, !.cred = c]
<1>1. r \in Request /\ r.pc = pc
  BY DEF Request, Idle, PCs
<1>2. req' = [req EXCEPT ![w] = r] /\ failures' \in Nat
  BY DEF Begin, IInv, TypeOK
<1>3. ClaimOK(r) /\ r.pc \notin CommitPCs
  BY <1>1 DEF ClaimOK, CommitPCs
<1>4. CredOK(r)
  OBVIOUS
<1> HIDE DEF r
<1> QED
  BY <1>1, <1>2, <1>3, <1>4, RequestStep

(* A revocation has read its snapshot. *)
LEMMA RevokingStep ==
  ASSUME IInv, NEW w \in Workers,
         NEW rows \in SUBSET Tokens, NEW grantRows \in SUBSET GrantKeys,
         NEW users \in SUBSET Users, NEW resources \in SUBSET Resources,
         Cred(w) \notin Devices,
         Revoking(w, rows, grantRows, users, resources),
         UNCHANGED << tables, active, policy, now, failures, answers >>
  PROVE  IInv'
<1> DEFINE r == [Idle EXCEPT !.pc = "revoking", !.cred = req[w].cred, !.rows = rows,
                             !.grantRows = grantRows, !.users = users,
                             !.resources = resources]
<1>1. req[w] \in Request /\ failures' \in Nat
  BY DEF IInv, TypeOK
<1>2. r \in Request /\ r.pc = "revoking" /\ r.cred = Cred(w)
  BY <1>1 DEF Request, Idle, PCs, Cred
<1>3. CredOK(r) /\ ClaimOK(r) /\ r.pc \notin CommitPCs
  BY <1>2 DEF CredOK, ClaimOK, CodePCs, RefreshPCs, DevicePCs, CommitPCs
<1>4. req' = [req EXCEPT ![w] = r]
  BY DEF Revoking
<1> HIDE DEF r
<1> QED
  BY <1>1, <1>2, <1>3, <1>4, RequestStep

-----------------------------------------------------------------------------
(* What a request carries stays true while rows stay drawn. *)
LEMMA CredStays ==
  ASSUME NEW v \in Workers, CredOK(req[v]), req'[v] = req[v],
         \A c \in Codes : codes[c].st # "unborn" => codes'[c].st # "unborn",
         \A d \in Devices : devices[d].st # "unborn" => devices'[d].st # "unborn",
         \A t \in Tokens : tokens[t].st # "unborn" =>
           tokens'[t].st # "unborn" /\ tokens'[t].scopes = tokens[t].scopes
  PROVE  CredOK(req[v])'
<1>1. DrawnCode(req[v].cred) => DrawnCode(req[v].cred)'
  BY DEF DrawnCode
<1>2. DrawnDevice(req[v].cred) => DrawnDevice(req[v].cred)'
  BY DEF DrawnDevice
<1>3. DrawnToken(req[v].cred) =>
        DrawnToken(req[v].cred)' /\ tokens'[req[v].cred].scopes = tokens[req[v].cred].scopes
  BY DEF DrawnToken
<1>4. req[v].pc \in {"refreshClaim", "refreshCommit"} => DrawnToken(req[v].cred)
  BY DEF CredOK, RefreshPCs
<1> QED
  BY <1>1, <1>2, <1>3, <1>4 DEF CredOK

(* A step that changes rows.  No transaction but w's own holds a row that    *)
(* changes, rows are never undrawn, and w returns.                          *)
LEMMA TableStep ==
  ASSUME IInv, NEW w \in Workers, Return(w), TypeOK', RowsOK',
         failures' = failures,
         \A c \in Codes : codes[c].st # "unborn" => codes'[c].st # "unborn",
         \A d \in Devices : devices[d].st # "unborn" => devices'[d].st # "unborn",
         \A t \in Tokens : tokens[t].st # "unborn" =>
           tokens'[t].st # "unborn" /\ tokens'[t].scopes = tokens[t].scopes,
         \A v \in Workers \ {w} :
           /\ At(v, "codeCommit") => codes'[Cred(v)] = codes[Cred(v)]
           /\ At(v, "refreshCommit") => tokens'[Cred(v)] = tokens[Cred(v)]
           /\ req[v].pc \in {"deviceGrant", "deviceCommit"} =>
                devices'[Cred(v)] = devices[Cred(v)]
  PROVE  IInv'
<1> USE DEF IInv
<1>1. \A v \in Workers : req'[v] = IF v = w THEN Idle ELSE req[v]
  BY DEF TypeOK, Return
<1>2. CredOK(Idle)' /\ Idle.pc \notin CommitPCs
  BY ConstantsAssumption
     DEF CredOK, Idle, CodePCs, RefreshPCs, DevicePCs, CommitPCs, Credentials
<1>3. CredsOK'
  <2>1. ASSUME NEW v \in Workers, v # w PROVE CredOK(req[v])'
    BY <1>1, <2>1, CredStays DEF CredsOK
  <2>2. ASSUME NEW v \in Workers, v = w PROVE CredOK(req[v])'
    BY <1>1, <1>2, <2>2
       DEF CredOK, Idle, CodePCs, RefreshPCs, DevicePCs
  <2> QED
    BY <2>1, <2>2 DEF CredsOK
<1>4. ASSUME NEW v \in Workers, req'[v].pc \in CommitPCs
      PROVE  v # w /\ req'[v] = req[v]
  BY <1>1, <1>2, <1>4
<1>5. ASSUME NEW v \in Workers, At(v, "codeCommit")' PROVE (Cred(v) \in OpenCodes)'
  <2>1. v # w /\ req'[v] = req[v] /\ At(v, "codeCommit")
    BY <1>4, <1>5 DEF At, CommitPCs
  <2>2. Cred(v) \in OpenCodes /\ codes'[Cred(v)] = codes[Cred(v)]
    BY <2>1 DEF ClaimsHold
  <2> QED
    BY <2>1, <2>2 DEF OpenCodes, Cred
<1>6. ASSUME NEW v \in Workers, At(v, "refreshCommit")' PROVE (Cred(v) \in OpenTokens)'
  <2>1. v # w /\ req'[v] = req[v] /\ At(v, "refreshCommit")
    BY <1>4, <1>6 DEF At, CommitPCs
  <2>2. Cred(v) \in OpenTokens /\ tokens'[Cred(v)] = tokens[Cred(v)]
    BY <2>1 DEF ClaimsHold
  <2> QED
    BY <2>1, <2>2 DEF OpenTokens, Claimable, UnrevokedRow, Cred
<1>7. ASSUME NEW v \in Workers, req'[v].pc \in {"deviceGrant", "deviceCommit"}
      PROVE  (Cred(v) \in OpenDevices)'
  <2>1. v # w /\ req'[v] = req[v] /\ req[v].pc \in {"deviceGrant", "deviceCommit"}
    BY <1>4, <1>7 DEF At, CommitPCs
  <2>2. Cred(v) \in OpenDevices /\ devices'[Cred(v)] = devices[Cred(v)]
    BY <2>1 DEF ClaimsHold
  <2> QED
    BY <2>1, <2>2 DEF OpenDevices, Cred
<1>8. ASSUME NEW u \in Workers, NEW v \in Workers,
             req'[u].pc \in CommitPCs, req'[v].pc \in CommitPCs, req'[u].cred = req'[v].cred
      PROVE  u = v
  BY <1>4, <1>8 DEF ClaimsHold, Cred
<1>9. ClaimsHold'
  BY <1>5, <1>6, <1>7, <1>8 DEF ClaimsHold, Cred
<1> QED
  BY <1>3, <1>9

-----------------------------------------------------------------------------
LEMMA CodeKeeps ==
  ASSUME IInv, NEW w \in Workers, CodeStep(w)
  PROVE  IInv'
<1>1. req[w] \in Request /\ CredOK(req[w])
  BY DEF IInv, TypeOK, CredsOK
<1>0. PICK c : c = Cred(w)
  OBVIOUS
<1>2. DrawnCode(c) /\ c \in Codes \ Devices
  BY <1>0, <1>1, ConstantsAssumption
     DEF CodeStep, CodeBurn, CodeCheckGrant, CodeCheckUser, CodeMint, CodeClaim, CodeCommit,
         At, CredOK, CodePCs, Cred, DrawnCode
<1>3. ASSUME NEW pc \in CodePCs \cup {"revokeChain"}
      PROVE  /\ pc \in PCs
             /\ CredOK([req[w] EXCEPT !.pc = pc])
             /\ pc # "codeCommit" => ClaimOK([req[w] EXCEPT !.pc = pc])
  BY <1>0, <1>1, <1>2 DEF PCs, CredOK, ClaimOK, CodePCs, RefreshPCs, DevicePCs, Request, Cred
<1>10. ASSUME NEW pc \in CodePCs \ CommitPCs, Goto(w, pc) \/ Return(w),
              UNCHANGED << tables, active, policy, now, failures, answers >>
       PROVE  IInv'
  <2>1. failures' \in Nat /\ pc # "codeCommit"
    BY <1>0, <1>10 DEF IInv, TypeOK, CommitPCs
  <2> QED
    BY <1>0, <1>3, <1>10, <2>1, GotoStep, ReturnStep
<1>4. CASE CodeBurn(w)
  <2>1. c \notin {Cred(v) : v \in {u \in Workers : At(u, "codeCommit")}}
    BY <1>0, <1>4 DEF CodeBurn, Locked, At, CommitPCs
  <2>2. TypeOK'
    <3>1. codes' \in [Codes -> CodeRow]
      BY <1>0, <1>4, <1>2 DEF CodeBurn, IInv, TypeOK, CodeRow
    <3>2. req' \in [Workers -> Request]
      BY <1>4, ReturnType DEF CodeBurn, IInv
    <3> QED
      BY <1>4, <3>1, <3>2 DEF CodeBurn, IInv, TypeOK, policy
  <2>3. RowsOK'
    BY <1>0, <1>4, <1>2 DEF CodeBurn, IInv, TypeOK, CodeRow, RowsOK, Exchanged, DrawnCode
  <2> QED
    BY <1>0, <1>4, <1>2, <2>1, <2>2, <2>3, TableStep DEF CodeBurn, IInv, TypeOK, CodeRow
<1>5. CASE CodeCheckGrant(w)
  BY <1>0, <1>5, <1>3, <1>10 DEF CodeCheckGrant, Check, CodePCs, CommitPCs
<1>6. CASE CodeCheckUser(w)
  BY <1>0, <1>6, <1>3, <1>10 DEF CodeCheckUser, Check, CodePCs, CommitPCs
<1>7. CASE CodeMint(w)
  BY <1>0, <1>7, <1>3, <1>10 DEF CodeMint, Check, CodePCs, CommitPCs
<1>8. CASE CodeClaim(w)
  <2> DEFINE pc == IF codes[c].st = "open" THEN "codeCommit" ELSE "revokeChain"
  <2>1. Goto(w, pc) /\ UNCHANGED << tables, active, policy, now, failures, answers >>
    BY <1>0, <1>8 DEF CodeClaim
  <2>2. ClaimOK([req[w] EXCEPT !.pc = pc])
    BY <1>0, <1>1, <1>2 DEF ClaimOK, OpenCodes, Request, Cred
  <2>3. ~Locked(c) /\ pc \in CodePCs \cup {"revokeChain"}
    BY <1>0, <1>8 DEF CodeClaim, CodePCs
  <2> HIDE DEF pc
  <2> QED
    BY <1>0, <1>3, <2>1, <2>2, <2>3, GotoStep
<1>9. CASE CodeCommit(w)
  <2>1. codes[c].st = "open" /\ codes[c].grant \in GrantKeys /\ codes[c] \in CodeRow
    BY <1>0, <1>9, <1>2 DEF CodeCommit, IInv, ClaimsHold, OpenCodes, RowsOK, TypeOK
  <2>2. Refreshable(codes[c].grant, codes[c].scopes) \in SUBSET Scopes
    BY <2>1 DEF Refreshable, CodeRow
  <2>3. Issued(c, codes[c]) \in TokenRow
    BY <1>0, <1>2, <2>1, <2>2, ConstantsAssumption DEF Issued, TokenRow, IInv, TypeOK
  <2>4. codes' \in [Codes -> CodeRow]
    BY <1>0, <1>9, <1>2, <2>1 DEF CodeCommit, IInv, TypeOK, CodeRow
  <2>5. tokens' \in [Tokens -> TokenRow]
    BY <1>0, <1>9, <2>3 DEF CodeCommit, IInv, TypeOK
  <2>6. req' \in [Workers -> Request] /\ answers' \in [Credentials -> Nat]
    BY <1>0, <1>9, <1>2, ReturnType DEF CodeCommit, Answered, IInv, TypeOK, Credentials
  <2>7. TypeOK'
    BY <1>0, <1>9, <2>4, <2>5, <2>6 DEF CodeCommit, IInv, TypeOK, policy
  <2>8. \A k \in Codes : codes'[k] = IF k = c THEN [codes[c] EXCEPT !.st = "consumed"]
                                              ELSE codes[k]
    BY <1>0, <1>9 DEF CodeCommit, IInv, TypeOK
  <2>9. \A t \in Tokens : \/ tokens'[t] = tokens[t]
                          \/ tokens[t].st = "unborn" /\ tokens'[t] = Issued(c, codes[c])
    BY <1>0, <1>9 DEF CodeCommit, IInv, TypeOK
  <2>10. RowsOK'
    <3>1. \A k \in Codes : codes'[k].st # "unborn" => codes'[k].grant \in GrantKeys
      BY <2>1, <2>8 DEF IInv, RowsOK, TypeOK, CodeRow
    <3>2. \A a : Exchanged(a) => Exchanged(a)'
      BY <1>0, <1>9, <2>1, <2>8 DEF Exchanged, CodeCommit, CodeRow
    <3>3. Exchanged(c)'
      BY <1>0, <1>2, <2>1, <2>8 DEF Exchanged, CodeRow
    <3>4. \A t \in Tokens : tokens'[t] = Issued(c, codes[c]) =>
            /\ tokens'[t].st # "unborn" /\ tokens'[t].grant \in GrantKeys
            /\ tokens'[t].origin \in Codes \cup Devices
            /\ Exchanged(tokens[t].origin)'
      BY <1>0, <1>2, <2>1, <3>3 DEF Issued
    <3> QED
      BY <1>0, <1>9, <2>9, <3>1, <3>2, <3>4 DEF IInv, RowsOK, CodeCommit
  <2>11. \A v \in Workers \ {w} : At(v, "codeCommit") => Cred(v) # c
    BY <1>0, <1>9 DEF CodeCommit, IInv, ClaimsHold, At, CommitPCs
  <2>12. \A v \in Workers : At(v, "refreshCommit") => tokens[Cred(v)].st = "row"
    BY DEF IInv, ClaimsHold, OpenTokens, Claimable, UnrevokedRow
  <2>13. \A v \in Workers : At(v, "refreshCommit") => Cred(v) \in Tokens
    BY DEF IInv, ClaimsHold, OpenTokens
  <2>14. \A v \in Workers : At(v, "codeCommit") => Cred(v) \in Codes
    BY DEF IInv, ClaimsHold, OpenCodes
  <2> QED
    BY <1>0, <1>9, <2>1, <2>7, <2>8, <2>9, <2>10, <2>11, <2>12, <2>13, <2>14, TableStep
       DEF CodeCommit, Issued, CodeRow
<1> QED
  BY <1>0, <1>4, <1>5, <1>6, <1>7, <1>8, <1>9 DEF CodeStep

-----------------------------------------------------------------------------
LEMMA RefreshKeeps ==
  ASSUME IInv, NEW w \in Workers, RefreshStep(w)
  PROVE  IInv'
<1>1. PICK t : t = Cred(w)
  OBVIOUS
<1>2. req[w] \in Request /\ CredOK(req[w])
  BY DEF IInv, TypeOK, CredsOK
<1>3. DrawnToken(t) /\ t \in Tokens \ Devices
  BY <1>1, <1>2, ConstantsAssumption
     DEF RefreshStep, RefreshCheckGrant, RefreshCheckUser, RefreshUpstream, RefreshScopes,
         RefreshClaim, RefreshCommit, At, CredOK, RefreshPCs, Cred, DrawnToken
<1>4. /\ tokens[t] \in TokenRow /\ tokens[t].grant \in GrantKeys
      /\ tokens[t].origin \in Codes \cup Devices /\ Exchanged(tokens[t].origin)
  BY <1>3 DEF IInv, TypeOK, RowsOK, DrawnToken
<1>5. ASSUME NEW pc \in (RefreshPCs \ {"refreshClaim"}) \cup {"revokeChain"},
             pc = "refreshCommit" => req[w].pc = "refreshClaim"
      PROVE  /\ pc \in PCs
             /\ CredOK([req[w] EXCEPT !.pc = pc])
             /\ pc # "refreshCommit" => ClaimOK([req[w] EXCEPT !.pc = pc])
  BY <1>1, <1>2, <1>3, <1>5
     DEF PCs, CredOK, ClaimOK, CodePCs, RefreshPCs, DevicePCs, Request, Cred
<1>6. ASSUME NEW pc \in RefreshPCs \ (CommitPCs \cup {"refreshClaim"}), Goto(w, pc) \/ Return(w),
             UNCHANGED << tables, active, policy, now, failures, answers >>
      PROVE  IInv'
  <2>1. failures' \in Nat /\ pc # "refreshCommit"
    BY <1>6 DEF IInv, TypeOK, CommitPCs
  <2> QED
    BY <1>5, <1>6, <2>1, GotoStep, ReturnStep
<1>7. CASE RefreshCheckGrant(w)
  BY <1>6, <1>7 DEF RefreshCheckGrant, Check, RefreshPCs, CommitPCs
<1>8. CASE RefreshCheckUser(w)
  BY <1>6, <1>8 DEF RefreshCheckUser, Check, RefreshPCs, CommitPCs
<1>9. CASE RefreshUpstream(w)
  BY <1>6, <1>9 DEF RefreshUpstream, Check, RefreshPCs, CommitPCs
<1>10. CASE RefreshScopes(w)
  <2> DEFINE S == Permitted(tokens[t].grant, Refreshable(tokens[t].grant, tokens[t].scopes))
             r == [req[w] EXCEPT !.pc = "refreshClaim", !.scopes = S]
  <2>1. CASE Return(w)
    BY <1>10, <2>1, ReturnStep DEF RefreshScopes, IInv, TypeOK
  <2>2. CASE req' = [req EXCEPT ![w].pc = "refreshClaim", ![w].scopes = S]
    <3>1. S \in SUBSET Scopes /\ S \subseteq tokens[t].scopes
      BY <1>4 DEF Permitted, Refreshable, TokenRow
    <3>2. r \in Request /\ r.cred = t /\ r.pc = "refreshClaim" /\ r.scopes = S
      BY <1>1, <1>2, <3>1 DEF Request, PCs, Cred
    <3>3. CredOK(r) /\ ClaimOK(r) /\ r.pc \notin CommitPCs
      BY <1>3, <3>1, <3>2 DEF CredOK, ClaimOK, CodePCs, RefreshPCs, DevicePCs, CommitPCs
    <3>4. req' = [req EXCEPT ![w] = r] /\ failures' \in Nat
      BY <1>2, <1>10, <2>2 DEF Request, IInv, TypeOK, RefreshScopes
    <3>5. UNCHANGED << tables, active, policy, now, answers >>
      BY <1>10 DEF RefreshScopes
    <3> HIDE DEF r
    <3> QED
      BY <3>2, <3>3, <3>4, <3>5, RequestStep
  <2> QED
    BY <1>1, <1>10, <2>1, <2>2 DEF RefreshScopes
<1>11. CASE RefreshClaim(w)
  <2> DEFINE pc == IF Claimable(t) THEN "refreshCommit" ELSE "revokeChain"
  <2>1. Goto(w, pc) /\ UNCHANGED << tables, active, policy, now, failures, answers >>
    BY <1>1, <1>11 DEF RefreshClaim
  <2>2. ClaimOK([req[w] EXCEPT !.pc = pc])
    BY <1>1, <1>2, <1>3 DEF ClaimOK, OpenTokens, Request, Cred
  <2>3. ~Locked(t) /\ pc \in (RefreshPCs \ {"refreshClaim"}) \cup {"revokeChain"}
        /\ req[w].pc = "refreshClaim"
    BY <1>1, <1>11 DEF RefreshClaim, RefreshPCs, At
  <2> HIDE DEF pc
  <2> QED
    BY <1>1, <1>5, <2>1, <2>2, <2>3, GotoStep
<1>12. CASE RefreshCommit(w)
  <2>1. PICK s \in Tokens : /\ tokens[s].st = "unborn"
                            /\ tokens' = [tokens EXCEPT ![t].rotatedTo = s,
                                                        ![s] = Successor(w, tokens[t])]
    BY <1>1, <1>12 DEF RefreshCommit
  <2>2. s # t
    BY <1>3, <2>1 DEF DrawnToken
  <2>3. Successor(w, tokens[t]) \in TokenRow
    BY <1>2, <1>4 DEF Successor, TokenRow, Request
  <2>4. \A k \in Tokens : tokens'[k] = IF k = s THEN Successor(w, tokens[t])
                                       ELSE IF k = t THEN [tokens[t] EXCEPT !.rotatedTo = s]
                                       ELSE tokens[k]
    BY <1>3, <2>1, <2>2 DEF IInv, TypeOK
  <2>5. tokens' \in [Tokens -> TokenRow]
    <3>1. [tokens[t] EXCEPT !.rotatedTo = s] \in TokenRow
      BY <1>4 DEF TokenRow
    <3>2. \A k \in Tokens : tokens'[k] \in TokenRow
      BY <2>3, <2>4, <3>1 DEF IInv, TypeOK
    <3>3. tokens' = [k \in Tokens |-> tokens'[k]]
      BY <2>1 DEF IInv, TypeOK
    <3> QED
      BY <3>2, <3>3
  <2>6. req' \in [Workers -> Request] /\ answers' \in [Credentials -> Nat]
    BY <1>1, <1>3, <1>12, ReturnType DEF RefreshCommit, Answered, IInv, TypeOK, Credentials
  <2>7. TypeOK'
    BY <1>12, <2>5, <2>6 DEF RefreshCommit, IInv, TypeOK, policy
  <2>8. RowsOK'
    <3>1. \A a : Exchanged(a)' = Exchanged(a)
      BY <1>12 DEF RefreshCommit, Exchanged
    <3>2. \A k \in Tokens : (k = s \/ k = t) =>
            /\ tokens'[k].st # "unborn" /\ tokens'[k].grant \in GrantKeys
            /\ tokens'[k].origin = tokens[t].origin
      BY <1>3, <1>4, <2>2, <2>4 DEF Successor, TokenRow, DrawnToken
    <3>3. \A k \in Tokens : tokens'[k].st # "unborn" => Exchanged(tokens[k].origin)'
      BY <1>4, <2>4, <3>1, <3>2 DEF IInv, RowsOK
    <3> QED
      BY <1>4, <1>12, <2>4, <3>2, <3>3 DEF IInv, RowsOK, RefreshCommit
  <2>9. \A v \in Workers \ {w} :
          At(v, "refreshCommit") => Cred(v) \in Tokens /\ Cred(v) # t /\ Cred(v) # s
    BY <1>1, <1>12, <2>1
       DEF RefreshCommit, IInv, ClaimsHold, OpenTokens, Claimable, UnrevokedRow, At, CommitPCs
  <2>10. \A k \in Tokens : tokens[k].st # "unborn" =>
           tokens'[k].st # "unborn" /\ tokens'[k].scopes = tokens[k].scopes
    <3>1. \A k \in Tokens : tokens[k].st # "unborn" => k # s
      BY <2>1
    <3>2. [tokens[t] EXCEPT !.rotatedTo = s].scopes = tokens[t].scopes
          /\ [tokens[t] EXCEPT !.rotatedTo = s].st = tokens[t].st
      BY <1>4 DEF TokenRow
    <3> QED
      BY <2>4, <3>1, <3>2
  <2>11. \A v \in Workers \ {w} : At(v, "refreshCommit") => tokens'[Cred(v)] = tokens[Cred(v)]
    BY <2>4, <2>9
  <2>12. Return(w) /\ codes' = codes /\ devices' = devices /\ failures' = failures
    BY <1>12 DEF RefreshCommit
  <2> QED
    BY <2>7, <2>8, <2>10, <2>11, <2>12, TableStep
<1> QED
  BY <1>7, <1>8, <1>9, <1>10, <1>11, <1>12 DEF RefreshStep

-----------------------------------------------------------------------------
LEMMA DeviceKeeps ==
  ASSUME IInv, NEW w \in Workers, DeviceStep(w)
  PROVE  IInv'
<1>1. PICK d : d = Cred(w)
  OBVIOUS
<1>2. req[w] \in Request /\ CredOK(req[w])
  BY DEF IInv, TypeOK, CredsOK
<1>3. DrawnDevice(d)
  BY <1>1, <1>2
     DEF DeviceStep, DeviceCheckUser, DeviceMint, DeviceClaim, DeviceCheckGrant, DeviceCommit,
         At, CredOK, DevicePCs, Cred, DrawnDevice
<1>4. d \in Devices /\ devices[d] \in DeviceRow /\ devices[d].grant \in GrantKeys
  BY <1>3 DEF IInv, TypeOK, RowsOK, DrawnDevice
<1>5. ASSUME NEW pc \in DevicePCs
      PROVE  /\ pc \in PCs
             /\ CredOK([req[w] EXCEPT !.pc = pc])
             /\ (pc \in CommitPCs => d \in OpenDevices) => ClaimOK([req[w] EXCEPT !.pc = pc])
  BY <1>1, <1>2, <1>3
     DEF PCs, CredOK, ClaimOK, CodePCs, RefreshPCs, DevicePCs, CommitPCs, Request, Cred
<1>6. ASSUME NEW pc \in DevicePCs, Goto(w, pc) \/ Return(w),
             Goto(w, pc) => (pc \in CommitPCs => d \in OpenDevices),
             Goto(w, pc) => (pc \in CommitPCs => ~Locked(d) \/ req[w].pc \in CommitPCs),
             UNCHANGED << tables, active, policy, now, failures, answers >>
      PROVE  IInv'
  <2>1. failures' \in Nat
    BY <1>6 DEF IInv, TypeOK
  <2> QED
    BY <1>1, <1>5, <1>6, <2>1, GotoStep, ReturnStep
<1>7. CASE DeviceCheckUser(w)
  BY <1>6, <1>7 DEF DeviceCheckUser, Check, DevicePCs, CommitPCs
<1>8. CASE DeviceMint(w)
  BY <1>6, <1>8 DEF DeviceMint, Check, DevicePCs, CommitPCs
<1>9. CASE DeviceClaim(w)
  <2>1. CASE devices[d].st = "approved"
    BY <1>1, <1>4, <1>6, <1>9, <2>1 DEF DeviceClaim, Check, DevicePCs, OpenDevices
  <2>2. CASE devices[d].st # "approved"
    BY <1>1, <1>9, <2>2, ReturnStep DEF DeviceClaim, Check, IInv, TypeOK
  <2> QED
    BY <2>1, <2>2
(* The two steps that end the transaction consume the row, and may issue. *)
<1>10. ASSUME devices[d].st = "approved", req[w].pc \in CommitPCs,
              devices' = [devices EXCEPT ![d].st = "consumed"],
              \/ tokens' = tokens
              \/ \E t \in Tokens : /\ tokens[t].st = "unborn"
                                   /\ tokens' = [tokens EXCEPT ![t] = Issued(d, devices[d])],
              answers' = answers \/ Answered(d), Return(w),
              UNCHANGED << codes, grants, active, policy, now, failures >>
       PROVE  IInv'
  <2>1. Refreshable(devices[d].grant, devices[d].scopes) \in SUBSET Scopes
    BY <1>4 DEF Refreshable, DeviceRow
  <2>2. Issued(d, devices[d]) \in TokenRow
    BY <1>4, <2>1, ConstantsAssumption DEF Issued, TokenRow, IInv, TypeOK
  <2>3. devices' \in [Devices -> DeviceRow]
    BY <1>4, <1>10 DEF IInv, TypeOK, DeviceRow
  <2>4. tokens' \in [Tokens -> TokenRow]
    BY <1>10, <2>2 DEF IInv, TypeOK
  <2>5. req' \in [Workers -> Request] /\ answers' \in [Credentials -> Nat]
    BY <1>4, <1>10, ReturnType DEF Answered, IInv, TypeOK, Credentials
  <2>6. TypeOK'
    BY <1>10, <2>3, <2>4, <2>5 DEF IInv, TypeOK, policy
  <2>7. \A k \in Devices : devices'[k] = IF k = d THEN [devices[d] EXCEPT !.st = "consumed"]
                                                  ELSE devices[k]
    BY <1>10 DEF IInv, TypeOK
  <2>8. \A t \in Tokens : \/ tokens'[t] = tokens[t]
                          \/ tokens[t].st = "unborn" /\ tokens'[t] = Issued(d, devices[d])
    BY <1>10 DEF IInv, TypeOK
  <2>9. RowsOK'
    <3>1. \A k \in Devices : devices'[k].st # "unborn" => devices'[k].grant \in GrantKeys
      BY <1>4, <2>7 DEF IInv, RowsOK, TypeOK, DeviceRow
    <3>2. \A a : Exchanged(a) => Exchanged(a)'
      BY <1>4, <1>10, <2>7 DEF Exchanged, DeviceRow
    <3>3. Exchanged(d)'
      BY <1>4, <2>7 DEF Exchanged, DeviceRow
    <3>4. \A t \in Tokens : tokens'[t] = Issued(d, devices[d]) =>
            /\ tokens'[t].st # "unborn" /\ tokens'[t].grant \in GrantKeys
            /\ tokens'[t].origin \in Codes \cup Devices
            /\ Exchanged(tokens[t].origin)'
      BY <1>4, <3>3 DEF Issued
    <3> QED
      BY <1>10, <2>8, <3>1, <3>2, <3>4 DEF IInv, RowsOK
  <2>10. \A v \in Workers \ {w} : req[v].pc \in {"deviceGrant", "deviceCommit"} => Cred(v) # d
    BY <1>1, <1>10 DEF IInv, ClaimsHold, CommitPCs
  <2>11. \A v \in Workers :
           /\ At(v, "refreshCommit") => Cred(v) \in Tokens /\ tokens[Cred(v)].st = "row"
           /\ req[v].pc \in {"deviceGrant", "deviceCommit"} => Cred(v) \in Devices
    BY DEF IInv, ClaimsHold, OpenTokens, Claimable, UnrevokedRow, OpenDevices
  <2>12. \A k \in Devices : devices[k].st # "unborn" => devices'[k].st # "unborn"
    BY <1>4, <2>7 DEF DeviceRow
  <2>13. \A t \in Tokens : tokens[t].st # "unborn" => tokens'[t] = tokens[t]
    BY <2>8
  <2> QED
    BY <1>10, <2>6, <2>7, <2>9, <2>10, <2>11, <2>12, <2>13, TableStep
<1>11. CASE DeviceCheckGrant(w)
  <2>1. d \in OpenDevices /\ req[w].pc = "deviceGrant" /\ req[w].pc \in CommitPCs
    BY <1>1, <1>11 DEF DeviceCheckGrant, At, IInv, ClaimsHold, CommitPCs
  <2>2. CASE Goto(w, "deviceCommit") /\ UNCHANGED devices
    BY <1>6, <1>11, <2>1, <2>2 DEF DeviceCheckGrant, DevicePCs, tables
  <2>3. CASE Return(w) /\ devices' = [devices EXCEPT ![d].st = "consumed"]
    BY <1>10, <1>11, <2>1, <2>3 DEF DeviceCheckGrant, OpenDevices
  <2> QED
    BY <1>1, <1>11, <2>2, <2>3 DEF DeviceCheckGrant
<1>12. CASE DeviceCommit(w)
  <2>1. devices[d].st = "approved" /\ req[w].pc \in CommitPCs
    BY <1>1, <1>12 DEF DeviceCommit, At, IInv, ClaimsHold, CommitPCs, OpenDevices
  <2> QED
    BY <1>1, <1>10, <1>12, <2>1 DEF DeviceCommit
<1> QED
  BY <1>7, <1>8, <1>9, <1>11, <1>12 DEF DeviceStep

-----------------------------------------------------------------------------
LEMMA HandleKeeps ==
  ASSUME IInv, NEW w \in Workers, Handle(w)
  PROVE  IInv'
<1>1. CASE CodeStep(w)
  BY <1>1, CodeKeeps
<1>2. CASE RefreshStep(w)
  BY <1>2, RefreshKeeps
<1>3. CASE DeviceStep(w)
  BY <1>3, DeviceKeeps
<1>4. CASE CreateFails(w)
  BY <1>4, ReturnStep DEF CreateFails, IInv, TypeOK
<1>5. CASE RevokeChain(w)
  <2> DEFINE G == {GrantOf(Cred(w))}
  <2>1. RowsOf(G) \in SUBSET Tokens /\ Cred(w) \notin Devices
    BY <1>5 DEF RowsOf, RevokeChain, At, IInv, CredsOK, CredOK, DevicePCs, Cred
  <2> QED
    BY <1>5, <2>1, RevokingStep DEF RevokeChain
<1>6. CASE FinishRevoke(w)
  <2>1. \A t \in Tokens : tokens'[t] = RevokedRow(req[w].rows, t)
    BY <1>6 DEF FinishRevoke
  <2>2. \A t \in Tokens :
          /\ tokens[t] \in TokenRow
          /\ tokens'[t] = [tokens[t] EXCEPT !.revoked = tokens'[t].revoked]
          /\ tokens'[t].revoked \in BOOLEAN
          /\ tokens[t].st = "unborn" => tokens'[t] = tokens[t]
    <3> SUFFICES ASSUME NEW t \in Tokens
                 PROVE  /\ tokens[t] \in TokenRow
                        /\ tokens'[t] = [tokens[t] EXCEPT !.revoked = tokens'[t].revoked]
                        /\ tokens'[t].revoked \in BOOLEAN
                        /\ tokens[t].st = "unborn" => tokens'[t] = tokens[t]
      OBVIOUS
    <3>1. tokens[t] \in TokenRow
      BY DEF IInv, TypeOK
    <3>2. tokens'[t] = [tokens[t] EXCEPT !.revoked =
             tokens[t].revoked \/ (t \in req[w].rows /\ tokens[t].st = "row")]
      BY <2>1 DEF RevokedRow
    <3>3. CASE t \in req[w].rows /\ tokens[t].st = "row"
      BY <3>1, <3>2, <3>3 DEF TokenRow
    <3>4. CASE ~(t \in req[w].rows /\ tokens[t].st = "row")
      BY <3>1, <3>2, <3>4 DEF TokenRow
    <3> QED
      BY <3>3, <3>4
  <2>3. TypeOK'
    <3>1. \A t \in Tokens : tokens'[t] \in TokenRow
      BY <2>2 DEF TokenRow
    <3>2. tokens' \in [Tokens -> TokenRow]
      BY <1>6, <3>1 DEF FinishRevoke
    <3>3. grants' \in [GrantKeys -> {"none", "live", "revoked"}]
      BY <1>6 DEF FinishRevoke, IInv, TypeOK
    <3>4. req' \in [Workers -> Request]
      BY <1>6, ReturnType DEF FinishRevoke, IInv
    <3> QED
      BY <1>6, <3>2, <3>3, <3>4 DEF FinishRevoke, IInv, TypeOK
  <2>4. RowsOK'
    <3>1. \A t \in Tokens : /\ tokens'[t].st = tokens[t].st
                            /\ tokens'[t].grant = tokens[t].grant
                            /\ tokens'[t].origin = tokens[t].origin
      BY <2>2 DEF TokenRow
    <3>2. \A a : Exchanged(a)' = Exchanged(a)
      BY <1>6 DEF FinishRevoke, Exchanged
    <3> QED
      BY <1>6, <2>2, <3>1, <3>2 DEF FinishRevoke, IInv, RowsOK, UnbornToken
  <2>5. ASSUME NEW v \in Workers, At(v, "refreshCommit")
        PROVE  tokens'[Cred(v)] = tokens[Cred(v)]
    <3>1. Cred(v) \in Tokens /\ tokens[Cred(v)].revoked = FALSE
      BY <2>2, <2>5 DEF IInv, ClaimsHold, OpenTokens, Claimable, UnrevokedRow, TokenRow
    <3>2. Cred(v) \notin req[w].rows
      BY <1>6, <2>5 DEF FinishRevoke, Locked, At, CommitPCs
    <3>3. tokens'[Cred(v)] = [tokens[Cred(v)] EXCEPT !.revoked = tokens[Cred(v)].revoked]
      BY <2>1, <3>1, <3>2 DEF RevokedRow
    <3> QED
      BY <2>2, <3>1, <3>3 DEF TokenRow
  <2>6. \A t \in Tokens : tokens[t].st # "unborn" =>
          tokens'[t].st # "unborn" /\ tokens'[t].scopes = tokens[t].scopes
    BY <2>2 DEF TokenRow
  <2>7. Return(w) /\ codes' = codes /\ devices' = devices /\ failures' = failures
    BY <1>6 DEF FinishRevoke
  <2> QED
    BY <2>3, <2>4, <2>5, <2>6, <2>7, TableStep
<1> QED
  BY <1>1, <1>2, <1>3, <1>4, <1>5, <1>6 DEF Handle

LEMMA ArriveKeeps ==
  ASSUME IInv, NEW w \in Workers, Arrive(w)
  PROVE  IInv'
<1>1. ASSUME NEW c \in Codes, NEW pc \in {"codeGrant", "codeBurn", "revokeChain"},
             codes[c].st # "unborn", Begin(w, pc, c),
             UNCHANGED << tables, active, policy, now, failures, answers >>
      PROVE  IInv'
  <2>1. CredOK([Idle EXCEPT !.pc = pc, !.cred = c])
    BY <1>1, ConstantsAssumption
       DEF CredOK, Idle, CodePCs, RefreshPCs, DevicePCs, DrawnCode
  <2>2. pc \in PCs \ CommitPCs /\ c \in Credentials
    BY <1>1 DEF PCs, CommitPCs, Credentials
  <2> QED
    BY <1>1, <2>1, <2>2, BeginStep
<1>2. ASSUME NEW t \in Tokens, NEW pc \in {"refreshGrant", "revokeChain"},
             tokens[t].st # "unborn", Begin(w, pc, t),
             UNCHANGED << tables, active, policy, now, failures, answers >>
      PROVE  IInv'
  <2>1. CredOK([Idle EXCEPT !.pc = pc, !.cred = t])
    BY <1>2, ConstantsAssumption
       DEF CredOK, Idle, CodePCs, RefreshPCs, DevicePCs, DrawnToken
  <2>2. pc \in PCs \ CommitPCs /\ t \in Credentials
    BY <1>2 DEF PCs, CommitPCs, Credentials
  <2> QED
    BY <1>2, <2>1, <2>2, BeginStep
<1>3. ASSUME NEW d \in Devices, DevicePresented(w, d) PROVE IInv'
  <2>1. CredOK([Idle EXCEPT !.pc = "deviceUser", !.cred = d])
    BY <1>3 DEF DevicePresented, CredOK, Idle, CodePCs, RefreshPCs, DevicePCs, DrawnDevice
  <2>2. "deviceUser" \in PCs \ CommitPCs /\ d \in Credentials
    BY DEF PCs, CommitPCs, Credentials
  <2> QED
    BY <1>3, <2>1, <2>2, BeginStep DEF DevicePresented
<1>4. ASSUME NEW rows \in SUBSET Tokens, NEW grantRows \in SUBSET GrantKeys,
             NEW users \in SUBSET Users, NEW resources \in SUBSET Resources,
             At(w, "idle"), Revoking(w, rows, grantRows, users, resources),
             UNCHANGED << tables, active, policy, now, failures, answers >>
      PROVE  IInv'
  <2>1. Cred(w) \notin Devices
    BY <1>4 DEF At, Cred, IInv, CredsOK, CredOK, DevicePCs
  <2> QED
    BY <1>4, <2>1, RevokingStep
<1>5. \A G : RowsOf(G) \in SUBSET Tokens
  BY DEF RowsOf
<1>6. ASSUME NEW c \in Codes, CodePresented(w, c) \/ CodeReplayed(w, c) \/ CodeMismatched(w, c)
      PROVE  IInv'
  BY <1>1, <1>6 DEF CodePresented, CodeReplayed, CodeMismatched
<1>7. ASSUME NEW t \in Tokens, RefreshPresented(w, t) \/ RefreshReused(w, t) \/ ClientRevoke(w, t)
      PROVE  IInv'
  BY <1>2, <1>7 DEF RefreshPresented, RefreshReused, ClientRevoke, Claimable, UnrevokedRow
<1>8. ASSUME NEW g \in GrantKeys, UserRevoke(w, g) PROVE IInv'
  <2>1. {g} \in SUBSET GrantKeys /\ {} \in SUBSET Users /\ {} \in SUBSET Resources
    OBVIOUS
  <2> QED
    BY <1>4, <1>5, <1>8, <2>1 DEF UserRevoke
<1>9. ASSUME NEW u \in Users, Deactivate(w, u) PROVE IInv'
  <2> DEFINE G == {g \in GrantKeys : UserOf(g) = u}
  <2>1. LiveGrants(G) \in SUBSET GrantKeys /\ {u} \in SUBSET Users /\ {} \in SUBSET Resources
    BY DEF LiveGrants
  <2>2. Revoking(w, RowsOf(G), LiveGrants(G), {u}, {}) /\ At(w, "idle")
        /\ UNCHANGED << tables, active, policy, now, failures, answers >>
    BY <1>9 DEF Deactivate
  <2> HIDE DEF G
  <2> QED
    BY <1>4, <1>5, <2>1, <2>2
<1>10. ASSUME NEW r \in Resources, RemoveResource(w, r) PROVE IInv'
  <2> DEFINE G == {g \in GrantKeys : ResourceOf(g) = r}
  <2>1. LiveGrants(G) \in SUBSET GrantKeys /\ {} \in SUBSET Users /\ {r} \in SUBSET Resources
    BY DEF LiveGrants
  <2>2. Revoking(w, RowsOf(G), LiveGrants(G), {}, {r}) /\ At(w, "idle")
        /\ UNCHANGED << tables, active, policy, now, failures, answers >>
    BY <1>10 DEF RemoveResource
  <2> HIDE DEF G
  <2> QED
    BY <1>4, <1>5, <2>1, <2>2
<1> QED
  BY <1>3, <1>6, <1>7, <1>8, <1>9, <1>10 DEF Arrive

-----------------------------------------------------------------------------
(* Steps of nobody's request: consent, cleanup, policy and the clock. *)
LEMMA RowStep ==
  ASSUME IInv, req' = req, TypeOK', RowsOK',
         \A c \in Codes : codes[c].st # "unborn" => codes'[c].st # "unborn",
         \A d \in Devices : devices[d].st # "unborn" => devices'[d].st # "unborn",
         \A t \in Tokens : tokens[t].st # "unborn" =>
           tokens'[t].st # "unborn" /\ tokens'[t].scopes = tokens[t].scopes,
         \A c \in Codes : Locked(c) => codes'[c] = codes[c],
         \A d \in Devices : Locked(d) => devices'[d] = devices[d],
         \A t \in Tokens : Locked(t) => tokens'[t] = tokens[t]
  PROVE  IInv'
<1> USE DEF IInv
<1>1. CredsOK'
  BY CredStays DEF CredsOK
<1>2. \A v \in Workers :
        /\ At(v, "codeCommit") => Cred(v) \in OpenCodes'
        /\ At(v, "refreshCommit") => Cred(v) \in OpenTokens'
        /\ req[v].pc \in {"deviceGrant", "deviceCommit"} => Cred(v) \in OpenDevices'
  <2> SUFFICES ASSUME NEW v \in Workers
               PROVE  /\ At(v, "codeCommit") => Cred(v) \in OpenCodes'
                      /\ At(v, "refreshCommit") => Cred(v) \in OpenTokens'
                      /\ req[v].pc \in {"deviceGrant", "deviceCommit"} => Cred(v) \in OpenDevices'
    OBVIOUS
  <2>1. req[v].pc \in CommitPCs => Locked(Cred(v))
    BY DEF Locked
  <2>2. At(v, "codeCommit") => Cred(v) \in OpenCodes'
    BY <2>1 DEF ClaimsHold, OpenCodes, At, CommitPCs
  <2>3. At(v, "refreshCommit") => Cred(v) \in OpenTokens'
    BY <2>1 DEF ClaimsHold, OpenTokens, Claimable, UnrevokedRow, At, CommitPCs
  <2>4. req[v].pc \in {"deviceGrant", "deviceCommit"} => Cred(v) \in OpenDevices'
    BY <2>1 DEF ClaimsHold, OpenDevices, CommitPCs
  <2> QED
    BY <2>2, <2>3, <2>4
<1>3. ClaimsHold'
  BY <1>2 DEF ClaimsHold, At, Cred
<1> QED
  BY <1>1, <1>3

(* Nothing locks a row that was not drawn. *)
LEMMA LockedDrawn ==
  ASSUME IInv, NEW c, Locked(c)
  PROVE  \/ c \in Codes /\ codes[c].st = "open"
         \/ c \in Devices /\ devices[c].st = "approved"
         \/ c \in Tokens /\ tokens[c].st = "row"
BY DEF Locked, CommitPCs, IInv, ClaimsHold, At, OpenCodes, OpenDevices, OpenTokens, Claimable,
       UnrevokedRow

LEMMA ConsentKeeps ==
  ASSUME IInv, Consent
  PROVE  IInv'
<1>1. ASSUME NEW g \in GrantKeys, NEW S \in SUBSET Scopes, NEW c \in Codes, Approve(c, g, S)
      PROVE  IInv'
  <2> DEFINE row == [st |-> "open", grant |-> g, scopes |-> S, expires |-> now + CodeLifetime]
  <2>1. row \in CodeRow /\ row.st = "open" /\ row.grant \in GrantKeys
    BY ConstantsAssumption DEF CodeRow, IInv, TypeOK
  <2> HIDE DEF row
  <2>2. /\ codes' = [codes EXCEPT ![c] = row] /\ codes[c].st = "unborn"
        /\ UNCHANGED << devices, tokens, active, policy, now, req, failures, answers >>
        /\ grants' = [grants EXCEPT ![g] = "live"]
    BY <1>1 DEF Approve, row
  <2>3. \A k \in Codes : codes'[k] = IF k = c THEN row ELSE codes[k]
    BY <2>2 DEF IInv, TypeOK
  <2>4. codes' \in [Codes -> CodeRow]
    BY <2>1, <2>2 DEF IInv, TypeOK
  <2>5. TypeOK'
    BY <2>2, <2>4 DEF IInv, TypeOK, policy
  <2>6. RowsOK'
    <3>1. \A a : Exchanged(a) => Exchanged(a)'
      BY <2>2, <2>3 DEF Exchanged
    <3> QED
      BY <2>1, <2>2, <2>3, <3>1 DEF IInv, RowsOK
  <2>7. ~Locked(c)
    BY <2>2, LockedDrawn, ConstantsAssumption
  <2> QED
    BY <2>1, <2>2, <2>3, <2>5, <2>6, <2>7, RowStep
<1>2. ASSUME NEW g \in GrantKeys, NEW S \in SUBSET Scopes, NEW d \in Devices,
             ApproveDevice(d, g, S)
      PROVE  IInv'
  <2> DEFINE row == [st |-> "approved", grant |-> g, scopes |-> S,
                     expires |-> now + DeviceLifetime]
  <2>1. row \in DeviceRow /\ row.st = "approved" /\ row.grant \in GrantKeys
    BY ConstantsAssumption DEF DeviceRow, IInv, TypeOK
  <2> HIDE DEF row
  <2>2. /\ devices' = [devices EXCEPT ![d] = row] /\ devices[d].st = "unborn"
        /\ UNCHANGED << codes, tokens, active, policy, now, req, failures, answers >>
        /\ grants' = [grants EXCEPT ![g] = "live"]
    BY <1>2 DEF ApproveDevice, row
  <2>3. \A k \in Devices : devices'[k] = IF k = d THEN row ELSE devices[k]
    BY <2>2 DEF IInv, TypeOK
  <2>4. devices' \in [Devices -> DeviceRow]
    BY <2>1, <2>2 DEF IInv, TypeOK
  <2>5. TypeOK'
    BY <2>2, <2>4 DEF IInv, TypeOK, policy
  <2>6. RowsOK'
    <3>1. \A a : Exchanged(a) => Exchanged(a)'
      BY <2>2, <2>3 DEF Exchanged
    <3> QED
      BY <2>1, <2>2, <2>3, <3>1 DEF IInv, RowsOK
  <2>7. ~Locked(d)
    BY <2>2, LockedDrawn, ConstantsAssumption
  <2> QED
    BY <2>1, <2>2, <2>3, <2>5, <2>6, <2>7, RowStep
<1> QED
  BY <1>1, <1>2 DEF Consent

LEMMA CleanupKeeps ==
  ASSUME IInv, Cleanup
  PROVE  IInv'
<1>1. ASSUME NEW c \in Codes, DeleteExpiredCode(c) PROVE IInv'
  <2>1. /\ codes' = [codes EXCEPT ![c].st = "deleted"] /\ codes[c].st # "unborn" /\ ~Locked(c)
        /\ UNCHANGED << devices, tokens, grants, active, policy, now, req, failures, answers >>
    BY <1>1 DEF DeleteExpiredCode
  <2>2. \A k \in Codes : codes'[k] = IF k = c THEN [codes[c] EXCEPT !.st = "deleted"]
                                              ELSE codes[k]
    BY <2>1 DEF IInv, TypeOK
  <2>3. codes[c] \in CodeRow /\ codes' \in [Codes -> CodeRow]
    BY <2>1 DEF IInv, TypeOK, CodeRow
  <2>4. TypeOK'
    BY <2>1, <2>3 DEF IInv, TypeOK, policy
  <2>5. RowsOK'
    <3>1. \A a : Exchanged(a) => Exchanged(a)'
      BY <2>1, <2>2, <2>3 DEF Exchanged, CodeRow
    <3> QED
      BY <2>1, <2>2, <2>3, <3>1 DEF IInv, RowsOK, CodeRow
  <2> QED
    BY <2>1, <2>2, <2>3, <2>4, <2>5, RowStep DEF CodeRow
<1>2. ASSUME NEW d \in Devices, DeleteExpiredDevice(d) PROVE IInv'
  <2>1. /\ devices' = [devices EXCEPT ![d].st = "deleted"] /\ devices[d].st # "unborn"
        /\ ~Locked(d)
        /\ UNCHANGED << codes, tokens, grants, active, policy, now, req, failures, answers >>
    BY <1>2 DEF DeleteExpiredDevice
  <2>2. \A k \in Devices : devices'[k] = IF k = d THEN [devices[d] EXCEPT !.st = "deleted"]
                                                  ELSE devices[k]
    BY <2>1 DEF IInv, TypeOK
  <2>3. devices[d] \in DeviceRow /\ devices' \in [Devices -> DeviceRow]
    BY <2>1 DEF IInv, TypeOK, DeviceRow
  <2>4. TypeOK'
    BY <2>1, <2>3 DEF IInv, TypeOK, policy
  <2>5. RowsOK'
    <3>1. \A a : Exchanged(a) => Exchanged(a)'
      BY <2>1, <2>2, <2>3 DEF Exchanged, DeviceRow
    <3> QED
      BY <2>1, <2>2, <2>3, <3>1 DEF IInv, RowsOK, DeviceRow
  <2> QED
    BY <2>1, <2>2, <2>3, <2>4, <2>5, RowStep DEF DeviceRow
<1>3. ASSUME NEW t \in Tokens, DeleteExpiredToken(t) PROVE IInv'
  <2>1. /\ tokens' = [tokens EXCEPT ![t].st = "deleted"] /\ tokens[t].st # "unborn" /\ ~Locked(t)
        /\ UNCHANGED << codes, devices, grants, active, policy, now, req, failures, answers >>
    BY <1>3 DEF DeleteExpiredToken
  <2>2. \A k \in Tokens : tokens'[k] = IF k = t THEN [tokens[t] EXCEPT !.st = "deleted"]
                                                ELSE tokens[k]
    BY <2>1 DEF IInv, TypeOK
  <2>3. tokens[t] \in TokenRow /\ tokens' \in [Tokens -> TokenRow]
    BY <2>1 DEF IInv, TypeOK, TokenRow
  <2>4. TypeOK'
    BY <2>1, <2>3 DEF IInv, TypeOK, policy
  <2>5. RowsOK'
    <3>1. \A a : Exchanged(a)' = Exchanged(a)
      BY <2>1 DEF Exchanged
    <3>2. tokens'[t].st # "unborn" /\ tokens'[t].grant = tokens[t].grant
          /\ tokens'[t].origin = tokens[t].origin
      BY <2>2, <2>3 DEF TokenRow
    <3> QED
      BY <2>1, <2>2, <3>1, <3>2 DEF IInv, RowsOK
  <2> QED
    BY <2>1, <2>2, <2>3, <2>4, <2>5, RowStep DEF TokenRow
<1> QED
  BY <1>1, <1>2, <1>3 DEF Cleanup

LEMMA EnvironmentKeeps ==
  ASSUME IInv, Environment
  PROVE  IInv'
<1>1. UNCHANGED << tables, active, req, failures, answers >>
  BY DEF Environment, Tick, SetRegistered, SetScopePolicy, SetGroups, policy
<1>2. TypeOK'
  <2>1. CASE Tick
    BY <2>1 DEF Tick, IInv, TypeOK, tables, policy
  <2>2. CASE \E r \in Resources : SetRegistered(r)
    BY <2>2 DEF SetRegistered, IInv, TypeOK, tables
  <2>3. CASE \E S \in SUBSET PolicyScopes : SetScopePolicy(S)
    BY <2>3 DEF SetScopePolicy, IInv, TypeOK, tables
  <2>4. CASE \E u \in Users, S \in SUBSET PolicyScopes : SetGroups(u, S)
    BY <2>4 DEF SetGroups, IInv, TypeOK, tables
  <2> QED
    BY <2>1, <2>2, <2>3, <2>4 DEF Environment
<1>3. RowsOK'
  BY <1>1 DEF IInv, RowsOK, Exchanged, tables
<1> QED
  BY <1>1, <1>2, <1>3, RowStep DEF tables

-----------------------------------------------------------------------------
LEMMA InitIInv == Init => IInv
<1> SUFFICES ASSUME Init PROVE IInv
  OBVIOUS
<1>1. Idle \in Request
  BY DEF Idle, Request, PCs
<1>2. TypeOK
  BY <1>1 DEF Init, TypeOK, CodeRow, DeviceRow, TokenRow, Unborn, UnbornToken
<1>3. RowsOK
  BY DEF Init, RowsOK, Unborn, UnbornToken
<1>4. \A w \in Workers : req[w].pc = "idle" /\ req[w].cred = None
  BY DEF Init, Idle
<1>5. CredsOK
  BY <1>4, ConstantsAssumption
     DEF CredsOK, CredOK, CodePCs, RefreshPCs, DevicePCs, Credentials
<1>6. ClaimsHold
  BY <1>4 DEF ClaimsHold, At, CommitPCs
<1> QED
  BY <1>2, <1>3, <1>5, <1>6 DEF IInv

LEMMA NextKeepsIInv == IInv /\ [Next]_vars => IInv'
<1> SUFFICES ASSUME IInv, [Next]_vars PROVE IInv'
  OBVIOUS
<1>1. CASE UNCHANGED vars
  BY <1>1 DEF vars, policy, IInv, TypeOK, RowsOK, Exchanged, CredsOK, CredOK, DrawnCode,
     DrawnDevice, DrawnToken, ClaimsHold, At, Cred, OpenCodes, OpenTokens, OpenDevices,
     Claimable, UnrevokedRow
<1>2. CASE \E w \in Workers : Arrive(w) \/ Handle(w) \/ Fail(w)
  <2>1. ASSUME NEW w \in Workers, Fail(w) PROVE IInv'
    BY <2>1, ReturnStep DEF Fail, IInv, TypeOK
  <2> QED
    BY <1>2, <2>1, ArriveKeeps, HandleKeeps
<1> QED
  BY <1>1, <1>2, ConsentKeeps, CleanupKeeps, EnvironmentKeeps DEF Next

(* Every reachable state satisfies the inductive invariant. *)
THEOREM Inductive == Spec => []IInv
<1> QED
  BY InitIInv, NextKeepsIInv, PTL DEF Spec

(* Types: the tables, the requests and the registry hold what they should, *)
(* for any number of requests in flight. *)
THEOREM TypeCorrect == Spec => []TypeOK
<1>1. IInv => TypeOK
  BY DEF IInv
<1> QED
  BY <1>1, Inductive, PTL

(* What a transaction has claimed stays claimable until it commits, and two *)
(* transactions never hold the same claim. *)
THEOREM ClaimsAlwaysHold == Spec => []ClaimsHold
<1>1. IInv => ClaimsHold
  BY DEF IInv
<1> QED
  BY <1>1, Inductive, PTL
-----------------------------------------------------------------------------
(***************************************************************************)
(* The chains of refresh tokens, from the inductive invariant.             *)
(*                                                                         *)
(* Of all the steps only a few touch the tables of credentials, and those  *)
(* are of three kinds: a consent, one of the three exchanges, and steps    *)
(* that only take credentials away (Withdrawing).  The lemma Moves says    *)
(* so; everything after it is about the kinds, not about the actions.      *)
(***************************************************************************)

(* No row is drawn; rows are only burned, consumed, revoked or deleted. *)
Withdrawing ==
  /\ \A c \in Codes :
       \/ codes'[c] = codes[c]
       \/ codes[c].st # "unborn" /\ codes'[c] = [codes[c] EXCEPT !.st = "deleted"]
  /\ \A d \in Devices :
       \/ devices'[d] = devices[d]
       \/ devices[d].st # "unborn" /\ \E st \in {"consumed", "deleted"} :
            devices'[d] = [devices[d] EXCEPT !.st = st]
  /\ \A t \in Tokens :
       \/ tokens'[t] = tokens[t]
       \/ tokens[t].st = "row" /\ tokens'[t] = [tokens[t] EXCEPT !.revoked = TRUE]
       \/ /\ tokens[t].st = "row" /\ Expired(tokens[t])
          /\ tokens'[t] = [tokens[t] EXCEPT !.st = "deleted"]
  /\ answers' = answers

Exchanging == \E w \in Workers : CodeCommit(w) \/ RefreshCommit(w) \/ DeviceCommit(w)

LEMMA StillWithdraws ==
  ASSUME UNCHANGED << tables, answers >>
  PROVE  Withdrawing
BY DEF Withdrawing, tables

LEMMA HandleMoves ==
  ASSUME IInv, NEW w \in Workers, Handle(w)
  PROVE  Withdrawing \/ Exchanging
<1>1. CASE CodeStep(w)
  <2>1. CASE CodeBurn(w)
    <3>1. DrawnCode(Cred(w))
      BY <2>1 DEF CodeBurn, At, Cred, IInv, CredsOK, CredOK, CodePCs
    <3> QED
      BY <2>1, <3>1 DEF CodeBurn, Withdrawing, DrawnCode, IInv, TypeOK
  <2>2. CASE CodeCommit(w)
    BY <2>2 DEF Exchanging
  <2>3. CASE CodeCheckGrant(w) \/ CodeCheckUser(w) \/ CodeMint(w) \/ CodeClaim(w)
    BY <2>3, StillWithdraws DEF CodeCheckGrant, CodeCheckUser, CodeMint, CodeClaim, Check
  <2> QED
    BY <1>1, <2>1, <2>2, <2>3 DEF CodeStep
<1>2. CASE RefreshStep(w)
  <2>1. CASE RefreshCommit(w)
    BY <2>1 DEF Exchanging
  <2>2. CASE ~RefreshCommit(w)
    BY <1>2, <2>2, StillWithdraws
       DEF RefreshStep, RefreshCheckGrant, RefreshCheckUser, RefreshUpstream, RefreshScopes,
           RefreshClaim, Check
  <2> QED
    BY <2>1, <2>2
<1>3. CASE DeviceStep(w)
  <2>1. CASE DeviceCommit(w)
    BY <2>1 DEF Exchanging
  <2>2. CASE DeviceCheckGrant(w)
    <3>1. DrawnDevice(Cred(w))
      BY <2>2 DEF DeviceCheckGrant, At, Cred, IInv, CredsOK, CredOK, DevicePCs
    <3> QED
      BY <2>2, <3>1 DEF DeviceCheckGrant, Withdrawing, DrawnDevice, IInv, TypeOK
  <2>3. CASE DeviceCheckUser(w) \/ DeviceMint(w) \/ DeviceClaim(w)
    BY <2>3, StillWithdraws DEF DeviceCheckUser, DeviceMint, DeviceClaim, Check
  <2> QED
    BY <1>3, <2>1, <2>2, <2>3 DEF DeviceStep
<1>4. CASE CreateFails(w) \/ RevokeChain(w)
  BY <1>4, StillWithdraws DEF CreateFails, RevokeChain
<1>5. CASE FinishRevoke(w)
  <2>1. ASSUME NEW t \in Tokens
        PROVE  \/ tokens'[t] = tokens[t]
               \/ tokens[t].st = "row" /\ tokens'[t] = [tokens[t] EXCEPT !.revoked = TRUE]
    <3>1. tokens[t] \in TokenRow
      BY DEF IInv, TypeOK
    <3>2. tokens'[t] = [tokens[t] EXCEPT !.revoked =
             tokens[t].revoked \/ (t \in req[w].rows /\ tokens[t].st = "row")]
      BY <1>5 DEF FinishRevoke, RevokedRow
    <3>3. CASE t \in req[w].rows /\ tokens[t].st = "row"
      BY <3>1, <3>2, <3>3 DEF TokenRow
    <3>4. CASE ~(t \in req[w].rows /\ tokens[t].st = "row")
      BY <3>1, <3>2, <3>4 DEF TokenRow
    <3> QED
      BY <3>3, <3>4
  <2> QED
    BY <1>5, <2>1 DEF FinishRevoke, Withdrawing
<1> QED
  BY <1>1, <1>2, <1>3, <1>4, <1>5 DEF Handle

(* What a step can do to the tables of credentials. *)
LEMMA Moves ==
  ASSUME IInv, [Next]_vars
  PROVE  Withdrawing \/ Exchanging \/ Consent
<1>1. CASE UNCHANGED vars
  BY <1>1, StillWithdraws DEF vars, tables
<1>2. ASSUME NEW w \in Workers, Arrive(w) PROVE Withdrawing
  <2>1. UNCHANGED << tables, answers >>
    BY <1>2 DEF Arrive, CodePresented, CodeReplayed, CodeMismatched, RefreshPresented,
       RefreshReused, ClientRevoke, DevicePresented, UserRevoke, Deactivate, RemoveResource
  <2> QED
    BY <2>1, StillWithdraws
<1>3. ASSUME NEW w \in Workers, Fail(w) PROVE Withdrawing
  BY <1>3, StillWithdraws DEF Fail
<1>4. CASE Cleanup
  <2>1. ASSUME NEW c \in Codes, DeleteExpiredCode(c) PROVE Withdrawing
    BY <2>1 DEF DeleteExpiredCode, Withdrawing, IInv, TypeOK
  <2>2. ASSUME NEW d \in Devices, DeleteExpiredDevice(d) PROVE Withdrawing
    BY <2>2 DEF DeleteExpiredDevice, Withdrawing, IInv, TypeOK
  <2>3. ASSUME NEW t \in Tokens, DeleteExpiredToken(t) PROVE Withdrawing
    BY <2>3 DEF DeleteExpiredToken, Withdrawing, IInv, TypeOK
  <2> QED
    BY <1>4, <2>1, <2>2, <2>3 DEF Cleanup
<1>5. CASE Environment
  BY <1>5, StillWithdraws DEF Environment, Tick, SetRegistered, SetScopePolicy, SetGroups
<1> QED
  BY <1>1, <1>2, <1>3, <1>4, <1>5, HandleMoves DEF Next

-----------------------------------------------------------------------------
OpenCredentials == OpenCodes \cup OpenDevices \cup OpenTokens

(* The approval behind a credential, and the grant it is on. *)
OriginOf(c) == IF c \in Tokens THEN tokens[c].origin ELSE c
GrantBehind(c) ==
  IF c \in Tokens THEN tokens[c].grant
  ELSE IF c \in Codes THEN codes[c].grant ELSE devices[c].grant

ScopesBehind(c) ==
  IF c \in Tokens THEN tokens[c].scopes
  ELSE IF c \in Codes THEN codes[c].scopes ELSE devices[c].scopes

(* Credential c is exchanged; N holds the refresh token it yields, if any. *)
ExchangeOf(c, N) ==
  /\ c \in OpenCredentials
  /\ N \subseteq Tokens /\ \A m, n \in N : m = n
  /\ \A k \in Codes :
       codes'[k] = IF k = c THEN [codes[k] EXCEPT !.st = "consumed"] ELSE codes[k]
  /\ \A k \in Devices :
       devices'[k] = IF k = c THEN [devices[k] EXCEPT !.st = "consumed"] ELSE devices[k]
  /\ \A k \in Tokens \ N :
       /\ k # c => tokens'[k] = tokens[k]
       /\ k = c => \E n \in N : tokens'[k] = [tokens[k] EXCEPT !.rotatedTo = n]
  /\ \A n \in N :
       /\ tokens[n].st = "unborn"
       /\ tokens'[n].st = "row" /\ ~tokens'[n].revoked /\ tokens'[n].rotatedTo = None
       /\ tokens'[n].origin = OriginOf(c)
       /\ tokens'[n].grant = GrantBehind(c)
       /\ tokens'[n].scopes \subseteq ScopesBehind(c)
       /\ c \in Tokens => tokens'[n].expires = tokens[c].expires
  /\ answers' = [answers EXCEPT ![c] = @ + 1]

LEMMA ExchangeEffect ==
  ASSUME IInv, Exchanging
  PROVE  \E c \in Credentials, N \in SUBSET Tokens : ExchangeOf(c, N)
<1>1. PICK w \in Workers : CodeCommit(w) \/ RefreshCommit(w) \/ DeviceCommit(w)
  BY DEF Exchanging
<1>2. PICK c : c = Cred(w)
  OBVIOUS
<1>3. CASE CodeCommit(w)
  <2>1. c \in OpenCodes /\ c \in Codes /\ c \notin Devices /\ c \notin Tokens
    BY <1>2, <1>3, ConstantsAssumption DEF CodeCommit, IInv, ClaimsHold, OpenCodes
  <2>2. \A k \in Codes :
          codes'[k] = IF k = c THEN [codes[k] EXCEPT !.st = "consumed"] ELSE codes[k]
    BY <1>2, <1>3 DEF CodeCommit, IInv, TypeOK
  <2>3. devices' = devices /\ answers' = [answers EXCEPT ![c] = @ + 1] /\ c \in Credentials
    BY <1>2, <1>3, <2>1 DEF CodeCommit, Answered, Credentials
  <2>4. CASE tokens' = tokens
    <3>1. ExchangeOf(c, {})
      BY <2>1, <2>2, <2>3, <2>4 DEF ExchangeOf, OpenCredentials
    <3> QED
      BY <2>3, <3>1
  <2>5. ASSUME NEW t \in Tokens, tokens[t].st = "unborn",
               tokens' = [tokens EXCEPT ![t] = Issued(c, codes[c])]
        PROVE  ExchangeOf(c, {t})
    <3>1. tokens'[t] = Issued(c, codes[c]) /\ \A k \in Tokens \ {t} : tokens'[k] = tokens[k]
      BY <2>5 DEF IInv, TypeOK
    <3> QED
      BY <2>1, <2>2, <2>3, <2>5, <3>1
         DEF ExchangeOf, OpenCredentials, Issued, OriginOf, GrantBehind, ScopesBehind,
             Refreshable
  <2> QED
    BY <1>2, <1>3, <2>3, <2>4, <2>5 DEF CodeCommit
<1>4. CASE DeviceCommit(w)
  <2>1. c \in OpenDevices /\ c \in Devices /\ c \notin Codes /\ c \notin Tokens
    BY <1>2, <1>4, ConstantsAssumption DEF DeviceCommit, At, IInv, ClaimsHold, OpenDevices
  <2>2. \A k \in Devices :
          devices'[k] = IF k = c THEN [devices[k] EXCEPT !.st = "consumed"] ELSE devices[k]
    BY <1>2, <1>4 DEF DeviceCommit, IInv, TypeOK
  <2>3. codes' = codes /\ answers' = [answers EXCEPT ![c] = @ + 1] /\ c \in Credentials
    BY <1>2, <1>4, <2>1 DEF DeviceCommit, Answered, Credentials
  <2>4. CASE tokens' = tokens
    <3>1. ExchangeOf(c, {})
      BY <2>1, <2>2, <2>3, <2>4 DEF ExchangeOf, OpenCredentials
    <3> QED
      BY <2>3, <3>1
  <2>5. ASSUME NEW t \in Tokens, tokens[t].st = "unborn",
               tokens' = [tokens EXCEPT ![t] = Issued(c, devices[c])]
        PROVE  ExchangeOf(c, {t})
    <3>1. tokens'[t] = Issued(c, devices[c]) /\ \A k \in Tokens \ {t} : tokens'[k] = tokens[k]
      BY <2>5 DEF IInv, TypeOK
    <3> QED
      BY <2>1, <2>2, <2>3, <2>5, <3>1
         DEF ExchangeOf, OpenCredentials, Issued, OriginOf, GrantBehind, ScopesBehind,
             Refreshable
  <2> QED
    BY <1>2, <1>4, <2>3, <2>4, <2>5 DEF DeviceCommit
<1>5. CASE RefreshCommit(w)
  <2>1. c \in OpenTokens /\ c \in Tokens /\ c \notin Devices /\ c \notin Codes
        /\ tokens[c].st = "row" /\ c \in Credentials
    BY <1>2, <1>5, ConstantsAssumption
       DEF RefreshCommit, IInv, ClaimsHold, OpenTokens, Claimable, UnrevokedRow, Credentials
  <2>2. PICK s \in Tokens : /\ tokens[s].st = "unborn"
                            /\ tokens' = [tokens EXCEPT ![c].rotatedTo = s,
                                                        ![s] = Successor(w, tokens[c])]
    BY <1>2, <1>5 DEF RefreshCommit
  <2>3. tokens'[s] = Successor(w, tokens[c])
    BY <2>2 DEF IInv, TypeOK
  <2>4. \A k \in Tokens \ {s} : /\ k # c => tokens'[k] = tokens[k]
                                /\ k = c => tokens'[k] = [tokens[k] EXCEPT !.rotatedTo = s]
    BY <2>2 DEF IInv, TypeOK
  <2>5. /\ tokens'[s].st = "row" /\ ~tokens'[s].revoked /\ tokens'[s].rotatedTo = None
        /\ tokens'[s].origin = OriginOf(c)
        /\ tokens'[s].grant = GrantBehind(c)
        /\ tokens'[s].expires = tokens[c].expires
        /\ tokens'[s].scopes = req[w].scopes
    BY <2>1, <2>3 DEF Successor, OriginOf, GrantBehind
  <2>8. tokens'[s].scopes \subseteq ScopesBehind(c)
    <3>1. req[w].scopes \subseteq tokens[c].scopes
      BY <1>2, <1>5 DEF RefreshCommit, At, Cred, IInv, CredsOK, CredOK
    <3> QED
      BY <2>1, <2>5, <3>1 DEF ScopesBehind
  <2>6. codes' = codes /\ devices' = devices /\ answers' = [answers EXCEPT ![c] = @ + 1]
    BY <1>2, <1>5 DEF RefreshCommit, Answered
  <2>7. ExchangeOf(c, {s})
    BY <2>1, <2>2, <2>4, <2>5, <2>6, <2>8 DEF ExchangeOf, OpenCredentials
  <2> QED
    BY <2>1, <2>7
<1> QED
  BY <1>1, <1>3, <1>4, <1>5

-----------------------------------------------------------------------------
(* Nobody descends from a credential that can still be exchanged once. *)
LEMMA OpenHasNoChain ==
  ASSUME IInv, NEW a \in OpenCodes \cup OpenDevices, NEW t \in Tokens,
         tokens[t].st # "unborn"
  PROVE  tokens[t].origin # a
BY ConstantsAssumption DEF IInv, RowsOK, Exchanged, OpenCodes, OpenDevices

LEMMA UnbornIsBlank ==
  ASSUME IInv, NEW t \in Tokens, tokens[t].st = "unborn"
  PROVE  tokens[t].rotatedTo = None /\ tokens[t].origin = None /\ ~Claimable(t)
BY DEF IInv, RowsOK, UnbornToken, Claimable, UnrevokedRow

LEMMA OriginIsApproval ==
  ASSUME IInv, NEW c \in OpenCredentials
  PROVE  OriginOf(c) \in Codes \cup Devices
BY ConstantsAssumption
   DEF OriginOf, OpenCredentials, OpenTokens, OpenCodes, OpenDevices, Claimable, UnrevokedRow,
       IInv, RowsOK

(* A row keeps what its chain is made of, but for the token that is exchanged. *)
SameLine(t) ==
  /\ tokens'[t].rotatedTo = tokens[t].rotatedTo
  /\ tokens'[t].origin = tokens[t].origin
  /\ tokens'[t].grant = tokens[t].grant
  /\ tokens'[t].expires = tokens[t].expires
  /\ tokens'[t].scopes = tokens[t].scopes
  /\ tokens'[t].st = "unborn" <=> tokens[t].st = "unborn"
  /\ (Claimable(t))' => Claimable(t)

LEMMA WithdrawingKeepsLines ==
  ASSUME IInv, Withdrawing, NEW t \in Tokens
  PROVE  SameLine(t)
<1>1. tokens[t] \in TokenRow
  BY DEF IInv, TypeOK
<1> QED
  BY <1>1 DEF Withdrawing, SameLine, TokenRow, Claimable, UnrevokedRow

LEMMA ConsentKeepsLines ==
  ASSUME Consent
  PROVE  tokens' = tokens /\ answers' = answers
BY DEF Consent, Approve, ApproveDevice

(* Exchanging the code or the device code c starts a line of its own, and   *)
(* exchanging the token c makes the line of c one longer.                   *)
LEMMA ExchangeLines ==
  ASSUME IInv, NEW c \in Credentials, NEW N \in SUBSET Tokens, ExchangeOf(c, N)
  PROVE  /\ c \notin N
         /\ \A t \in Tokens \ (N \cup {c}) : SameLine(t)
         /\ c \in Tokens =>
              /\ tokens'[c].rotatedTo \in N /\ tokens[c].rotatedTo = None
              /\ tokens'[c].origin = tokens[c].origin
              /\ tokens'[c].grant = tokens[c].grant
              /\ tokens'[c].expires = tokens[c].expires
              /\ tokens'[c].scopes = tokens[c].scopes
              /\ tokens'[c].st # "unborn" /\ tokens[c].st # "unborn"
              /\ Claimable(c) /\ ~(Claimable(c))'
<1>1. ASSUME c \in Tokens
      PROVE  tokens[c] \in TokenRow /\ Claimable(c) /\ tokens[c].st = "row"
             /\ tokens[c].rotatedTo = None
  BY <1>1, ConstantsAssumption
     DEF ExchangeOf, OpenCredentials, OpenCodes, OpenDevices, OpenTokens, Claimable,
         UnrevokedRow, IInv, TypeOK
<1>2. c \notin N
  BY <1>1 DEF ExchangeOf
<1>3. ASSUME NEW t \in Tokens \ (N \cup {c}) PROVE SameLine(t)
  <2>1. tokens'[t] = tokens[t]
    BY DEF ExchangeOf
  <2> QED
    BY <2>1 DEF SameLine, Claimable, UnrevokedRow
<1>4. ASSUME c \in Tokens
      PROVE  /\ tokens'[c].rotatedTo \in N /\ tokens[c].rotatedTo = None
             /\ tokens'[c].origin = tokens[c].origin
             /\ tokens'[c].grant = tokens[c].grant
             /\ tokens'[c].expires = tokens[c].expires
             /\ tokens'[c].scopes = tokens[c].scopes
             /\ tokens'[c].st # "unborn" /\ tokens[c].st # "unborn"
             /\ Claimable(c) /\ ~(Claimable(c))'
  <2>1. PICK n \in N : tokens'[c] = [tokens[c] EXCEPT !.rotatedTo = n]
    BY <1>2, <1>4 DEF ExchangeOf
  <2>2. n # None
    BY ConstantsAssumption DEF Credentials
  <2> QED
    BY <1>1, <1>4, <2>1, <2>2 DEF TokenRow, Claimable, UnrevokedRow
<1> QED
  BY <1>2, <1>3, <1>4

(* Open approvals only become fewer, but for a consent. *)
LEMMA WithdrawingCloses ==
  ASSUME IInv, Withdrawing
  PROVE  OpenCodes' \subseteq OpenCodes /\ OpenDevices' \subseteq OpenDevices
<1>1. \A c \in Codes : codes[c] \in CodeRow
  BY DEF IInv, TypeOK
<1>2. \A d \in Devices : devices[d] \in DeviceRow
  BY DEF IInv, TypeOK
<1>3. \A c \in Codes : codes'[c].st = "open" => codes[c].st = "open"
  BY <1>1 DEF Withdrawing, CodeRow
<1>4. \A d \in Devices : devices'[d].st = "approved" => devices[d].st = "approved"
  BY <1>2 DEF Withdrawing, DeviceRow
<1> QED
  BY <1>3, <1>4 DEF OpenCodes, OpenDevices

LEMMA ExchangeCloses ==
  ASSUME IInv, NEW c, NEW N, ExchangeOf(c, N)
  PROVE  OpenCodes' = OpenCodes \ {c} /\ OpenDevices' = OpenDevices \ {c}
<1>1. \A k \in Codes : codes[k] \in CodeRow
  BY DEF IInv, TypeOK
<1>2. \A k \in Devices : devices[k] \in DeviceRow
  BY DEF IInv, TypeOK
<1>3. \A k \in Codes : codes'[k].st = "open" <=> (codes[k].st = "open" /\ k # c)
  <2> SUFFICES ASSUME NEW k \in Codes
               PROVE  codes'[k].st = "open" <=> (codes[k].st = "open" /\ k # c)
    OBVIOUS
  <2>1. CASE k = c
    <3>1. codes'[k] = [codes[k] EXCEPT !.st = "consumed"]
      BY <2>1 DEF ExchangeOf
    <3> QED
      BY <1>1, <2>1, <3>1 DEF CodeRow
  <2>2. CASE k # c
    BY <2>2 DEF ExchangeOf
  <2> QED
    BY <2>1, <2>2
<1>4. \A k \in Devices : devices'[k].st = "approved" <=> (devices[k].st = "approved" /\ k # c)
  <2> SUFFICES ASSUME NEW k \in Devices
               PROVE  devices'[k].st = "approved" <=> (devices[k].st = "approved" /\ k # c)
    OBVIOUS
  <2>1. CASE k = c
    <3>1. devices'[k] = [devices[k] EXCEPT !.st = "consumed"]
      BY <2>1 DEF ExchangeOf
    <3> QED
      BY <1>2, <2>1, <3>1 DEF DeviceRow
  <2>2. CASE k # c
    BY <2>2 DEF ExchangeOf
  <2> QED
    BY <2>1, <2>2
<1> QED
  BY <1>3, <1>4 DEF OpenCodes, OpenDevices

LEMMA OneLiveStep ==
  ASSUME IInv, OneLivePerApproval, [Next]_vars
  PROVE  OneLivePerApproval'
<1>1. CASE Withdrawing
  <2>1. \A t \in Tokens : SameLine(t)
    BY <1>1, WithdrawingKeepsLines
  <2>2. OpenCodes' \subseteq OpenCodes /\ OpenDevices' \subseteq OpenDevices
    BY <1>1, WithdrawingCloses
  <2>4. OpenTokens' \subseteq OpenTokens
    BY <2>1 DEF OpenTokens, SameLine
  <2> QED
    BY <2>1, <2>2, <2>4 DEF OneLivePerApproval, SameLine, OpenTokens
<1>2. CASE Exchanging
  <2>1. PICK c \in Credentials, N \in SUBSET Tokens : ExchangeOf(c, N)
    BY <1>2, ExchangeEffect
  <2>2. /\ c \notin N
        /\ \A t \in Tokens \ (N \cup {c}) : SameLine(t)
        /\ c \in Tokens => ~(Claimable(c))' /\ Claimable(c)
    BY <2>1, ExchangeLines
  <2>3. OpenCodes' \subseteq OpenCodes \ {c} /\ OpenDevices' \subseteq OpenDevices \ {c}
    BY <2>1, ExchangeCloses
  <2>4. ASSUME NEW t \in OpenTokens'
        PROVE  \/ t \in OpenTokens \ {c} /\ t \notin N /\ tokens'[t].origin = tokens[t].origin
               \/ t \in N /\ tokens'[t].origin = OriginOf(c)
    BY <2>1, <2>2 DEF OpenTokens, SameLine, ExchangeOf
  <2>5. ASSUME NEW t \in OpenTokens \ {c} PROVE tokens[t].origin # OriginOf(c)
    <3>1. t \in Tokens /\ tokens[t].st # "unborn"
      BY DEF OpenTokens, Claimable, UnrevokedRow
    <3>2. CASE c \in Tokens
      <4>1. c \in OpenTokens /\ tokens[c].origin \in Codes \cup Devices
        BY <2>1, <2>2, <3>2, OriginIsApproval DEF OpenTokens, OriginOf, ExchangeOf
      <4> QED
        BY <3>2, <4>1 DEF OneLivePerApproval, OriginOf
    <3>3. CASE c \notin Tokens
      <4>1. c \in OpenCodes \cup OpenDevices
        BY <2>1, <3>3 DEF ExchangeOf, OpenCredentials, OpenTokens
      <4> QED
        BY <3>1, <3>3, <4>1, OpenHasNoChain DEF OriginOf
    <3> QED
      BY <3>2, <3>3
  <2>6. \A m, n \in N : m = n
    BY <2>1 DEF ExchangeOf
  <2>7. ASSUME c \in Tokens PROVE OriginOf(c) \notin OpenCodes \cup OpenDevices
    <3>1. tokens[c].st # "unborn"
      BY <2>2, <2>7 DEF Claimable, UnrevokedRow
    <3> QED
      BY <2>7, <3>1, OpenHasNoChain DEF OriginOf
  <2>8. OriginOf(c) \notin OpenCodes' \cup OpenDevices'
    BY <2>3, <2>7 DEF OriginOf
  <2> QED
    BY <2>3, <2>4, <2>5, <2>6, <2>8 DEF OneLivePerApproval
<1>3. CASE Consent
  <2>1. OpenTokens' = OpenTokens /\ tokens' = tokens
    BY <1>3, ConsentKeepsLines DEF OpenTokens, Claimable, UnrevokedRow
  <2>2. ASSUME NEW a \in OpenCodes' \cup OpenDevices', NEW t \in OpenTokens
        PROVE  tokens[t].origin # a
    <3>1. t \in Tokens /\ tokens[t].st # "unborn" /\ Exchanged(tokens[t].origin)
      BY DEF OpenTokens, Claimable, UnrevokedRow, IInv, RowsOK
    <3>2. IInv'
      BY NextKeepsIInv
    <3>3. Exchanged(tokens[t].origin)'
      BY <2>1, <3>1, <3>2 DEF IInv, RowsOK
    <3> QED
      BY <2>1, <3>3, ConstantsAssumption DEF Exchanged, OpenCodes, OpenDevices
  <2> QED
    BY <2>1, <2>2 DEF OneLivePerApproval
<1> QED
  BY <1>1, <1>2, <1>3, Moves

(* A step that draws no token leaves every line as it is. *)
LEMMA SameLinesAreLinear ==
  ASSUME LinearChain, \A t \in Tokens : SameLine(t), TypeOK
  PROVE  LinearChain'
<1>1. \A t \in Tokens : tokens[t].rotatedTo \in Tokens \cup {None}
  BY DEF TypeOK, TokenRow
<1>2. \A t \in Tokens : HasPredecessor(t)' <=> HasPredecessor(t)
  BY DEF HasPredecessor, SameLine
<1> QED
  BY <1>1, <1>2 DEF LinearChain, SameLine

LEMMA LinearStep ==
  ASSUME IInv, LinearChain, [Next]_vars
  PROVE  LinearChain'
<1>0. TypeOK /\ \A t \in Tokens : tokens[t] \in TokenRow
  BY DEF IInv, TypeOK
<1>1. CASE Withdrawing
  BY <1>0, <1>1, WithdrawingKeepsLines, SameLinesAreLinear
<1>2. CASE Consent
  <2>1. \A t \in Tokens : SameLine(t)
    BY <1>2, ConsentKeepsLines DEF SameLine, Claimable, UnrevokedRow
  <2> QED
    BY <1>0, <2>1, SameLinesAreLinear
<1>3. CASE Exchanging
  <2>1. PICK c \in Credentials, N \in SUBSET Tokens : ExchangeOf(c, N)
    BY <1>3, ExchangeEffect
  <2>2. /\ c \notin N
        /\ \A t \in Tokens \ (N \cup {c}) : SameLine(t)
        /\ c \in Tokens =>
              /\ tokens'[c].rotatedTo \in N /\ tokens[c].rotatedTo = None
              /\ tokens'[c].origin = tokens[c].origin
              /\ tokens'[c].grant = tokens[c].grant
              /\ tokens'[c].expires = tokens[c].expires
              /\ tokens'[c].st # "unborn" /\ tokens[c].st # "unborn"
    BY <2>1, ExchangeLines
  <2>3. \A n \in N : /\ n \in Tokens /\ tokens[n].st = "unborn" /\ tokens[n].rotatedTo = None
                     /\ tokens'[n].rotatedTo = None /\ tokens'[n].st # "unborn"
                     /\ tokens'[n].origin = OriginOf(c) /\ tokens'[n].grant = GrantBehind(c)
                     /\ c \in Tokens => tokens'[n].expires = tokens[c].expires
    BY <2>1, UnbornIsBlank DEF ExchangeOf
  <2>4. \A m, n \in N : m = n
    BY <2>1 DEF ExchangeOf
  <2>5. ASSUME NEW t \in Tokens, tokens[t].rotatedTo # None
        PROVE  t \notin N /\ t # c /\ tokens[t].rotatedTo \notin N
               /\ tokens'[t].rotatedTo = tokens[t].rotatedTo
    BY <1>0, <2>2, <2>3, <2>5 DEF LinearChain, SameLine, TokenRow
  <2>6. ASSUME NEW t \in Tokens, tokens'[t].rotatedTo # None
        PROVE  \/ tokens[t].rotatedTo = tokens'[t].rotatedTo
               \/ t = c /\ tokens'[t].rotatedTo \in N
    BY <2>2, <2>3, <2>6 DEF SameLine
  <2>7. ASSUME NEW t \in Tokens, t \notin N
        PROVE  /\ tokens'[t].origin = tokens[t].origin
               /\ tokens'[t].grant = tokens[t].grant
               /\ tokens'[t].expires = tokens[t].expires
               /\ tokens'[t].st = "unborn" <=> tokens[t].st = "unborn"
    BY <2>2, <2>7 DEF SameLine
  <2>8. ASSUME NEW t \in Tokens, tokens'[t].rotatedTo # None
        PROVE  LET s == tokens'[tokens'[t].rotatedTo] IN
               /\ s.st # "unborn"
               /\ s.origin = tokens'[t].origin
               /\ s.grant = tokens'[t].grant
               /\ s.expires = tokens'[t].expires
    <3>1. CASE t = c /\ tokens'[t].rotatedTo \in N
      BY <2>2, <2>3, <3>1 DEF OriginOf, GrantBehind
    <3>2. CASE tokens[t].rotatedTo = tokens'[t].rotatedTo
      <4> DEFINE s == tokens[t].rotatedTo
      <4>1. t \notin N /\ s \notin N /\ s \in Tokens
        BY <1>0, <2>5, <2>8, <3>2 DEF TokenRow
      <4>2. /\ tokens[s].st # "unborn" /\ tokens[s].origin = tokens[t].origin
            /\ tokens[s].grant = tokens[t].grant /\ tokens[s].expires = tokens[t].expires
        BY <2>8, <3>2 DEF LinearChain
      <4> QED
        BY <2>7, <3>2, <4>1, <4>2
    <3> QED
      BY <2>6, <2>8, <3>1, <3>2
  <2>9. ASSUME NEW s \in Tokens, NEW t \in Tokens, tokens'[s].rotatedTo = tokens'[t].rotatedTo,
               tokens'[s].rotatedTo # None
        PROVE  s = t
    BY <2>5, <2>6, <2>9 DEF LinearChain
  <2>10. ASSUME NEW t \in Tokens, HasPredecessor(t) PROVE HasPredecessor(t)'
    <3>1. PICK p \in Tokens : tokens[p].rotatedTo = t
      BY <2>10 DEF HasPredecessor
    <3>2. t # None
      BY ConstantsAssumption DEF Credentials
    <3> QED
      BY <2>5, <3>1, <3>2 DEF HasPredecessor
  <2>11. ASSUME NEW s \in Tokens, NEW t \in Tokens,
                tokens'[s].origin = tokens'[t].origin,
                tokens'[s].st # "unborn", tokens'[t].st # "unborn",
                ~HasPredecessor(s)', ~HasPredecessor(t)'
         PROVE  s = t
    <3>1. CASE s \notin N /\ t \notin N
      BY <2>7, <2>10, <2>11, <3>1 DEF LinearChain
    <3>2. ASSUME NEW n \in N, c \in Tokens PROVE HasPredecessor(n)'
      BY <2>2, <2>4, <3>2 DEF HasPredecessor
    <3>3. ASSUME c \notin Tokens, NEW k \in Tokens, k \notin N, tokens'[k].st # "unborn"
          PROVE  tokens'[k].origin # c
      <4>1. c \in OpenCodes \cup OpenDevices
        BY <2>1, <3>3 DEF ExchangeOf, OpenCredentials, OpenTokens
      <4>2. tokens[k].st # "unborn" /\ tokens'[k].origin = tokens[k].origin
        BY <2>7, <3>3
      <4> QED
        BY <4>1, <4>2, OpenHasNoChain
    <3>4. CASE s \in N \/ t \in N
      BY <2>3, <2>4, <2>11, <3>2, <3>3, <3>4 DEF OriginOf
    <3> QED
      BY <3>1, <3>4
  <2> QED
    BY <2>8, <2>9, <2>11 DEF LinearChain
<1> QED
  BY <1>1, <1>2, <1>3, Moves

LEMMA InitChains == Init => LinearChain /\ OneLivePerApproval
BY ConstantsAssumption
   DEF Init, LinearChain, OneLivePerApproval, UnbornToken, Unborn, OpenTokens, OpenCodes,
       OpenDevices, Claimable, UnrevokedRow

(* One approval of the user never stands behind two credentials that can be *)
(* exchanged, whatever requests race, fail, are retried or are revoked.     *)
THEOREM OneLive == Spec => []OneLivePerApproval
<1>1. Init => OneLivePerApproval
  BY InitChains
<1>2. IInv /\ OneLivePerApproval /\ [Next]_vars => OneLivePerApproval'
  BY OneLiveStep
<1> QED
  BY <1>1, <1>2, Inductive, PTL DEF Spec

(* The tokens of an approval form one line, with one grant and one deadline. *)
THEOREM Linear == Spec => []LinearChain
<1>1. Init => LinearChain
  BY InitChains
<1>2. IInv /\ LinearChain /\ [Next]_vars => LinearChain'
  BY LinearStep
<1> QED
  BY <1>1, <1>2, Inductive, PTL DEF Spec

-----------------------------------------------------------------------------
(* Only an expired row is deleted. *)
DeletedExpired == \A t \in Tokens : tokens[t].st = "deleted" => Expired(tokens[t])

LEMMA ClockRuns ==
  ASSUME IInv, [Next]_vars
  PROVE  now' = now \/ now' = now + 1
<1>1. CASE UNCHANGED vars
  BY <1>1 DEF vars
<1>2. ASSUME NEW w \in Workers, Arrive(w) PROVE now' = now
  BY <1>2 DEF Arrive, CodePresented, CodeReplayed, CodeMismatched, RefreshPresented,
     RefreshReused, ClientRevoke, DevicePresented, UserRevoke, Deactivate, RemoveResource
<1>3. ASSUME NEW w \in Workers, Handle(w) PROVE now' = now
  BY <1>3 DEF Handle, CodeStep, CodeBurn, CodeCheckGrant, CodeCheckUser, CodeMint, CodeClaim,
     CodeCommit, RefreshStep, RefreshCheckGrant, RefreshCheckUser, RefreshUpstream,
     RefreshScopes, RefreshClaim, RefreshCommit, DeviceStep, DeviceCheckUser, DeviceMint,
     DeviceClaim, DeviceCheckGrant, DeviceCommit, CreateFails, RevokeChain, FinishRevoke, Check
<1>4. ASSUME NEW w \in Workers, Fail(w) PROVE now' = now
  BY <1>4 DEF Fail
<1>5. CASE Consent \/ Cleanup \/ Environment
  BY <1>5 DEF Consent, Approve, ApproveDevice, Cleanup, DeleteExpiredCode, DeleteExpiredDevice,
     DeleteExpiredToken, Environment, Tick, SetRegistered, SetScopePolicy, SetGroups, policy
<1> QED
  BY <1>1, <1>2, <1>3, <1>4, <1>5 DEF Next

LEMMA DeletedExpiredStep ==
  ASSUME IInv, DeletedExpired, [Next]_vars
  PROVE  DeletedExpired'
<1>1. now \in Nat /\ \A t \in Tokens : tokens[t] \in TokenRow
  BY DEF IInv, TypeOK
<1>2. ASSUME NEW t \in Tokens, tokens'[t].st = "deleted"
      PROVE  tokens'[t].expires = tokens[t].expires /\ tokens[t].expires < now
  <2>1. CASE Withdrawing
    <3>1. CASE tokens[t].st = "deleted"
      BY <1>1, <2>1, <3>1, WithdrawingKeepsLines DEF SameLine, DeletedExpired, Expired
    <3>2. CASE tokens[t].st # "deleted"
      BY <1>1, <1>2, <2>1, <3>2 DEF Withdrawing, TokenRow, Expired
    <3> QED
      BY <3>1, <3>2
  <2>2. CASE Consent
    BY <1>2, <2>2, ConsentKeepsLines DEF DeletedExpired, Expired
  <2>3. CASE Exchanging
    <3>1. PICK c \in Credentials, N \in SUBSET Tokens : ExchangeOf(c, N)
      BY <2>3, ExchangeEffect
    <3>2. t \notin N
      BY <1>2, <3>1 DEF ExchangeOf
    <3>3. t # c
      <4> SUFFICES ASSUME t = c PROVE FALSE
        OBVIOUS
      <4>1. tokens[t].st = "row"
        BY <3>1, ExchangeLines DEF Claimable, UnrevokedRow
      <4>2. PICK n \in N : tokens'[t] = [tokens[t] EXCEPT !.rotatedTo = n]
        BY <3>1, <3>2 DEF ExchangeOf
      <4> QED
        BY <1>1, <1>2, <4>1, <4>2 DEF TokenRow
    <3>4. tokens'[t] = tokens[t]
      BY <3>1, <3>2, <3>3 DEF ExchangeOf
    <3> QED
      BY <1>2, <3>4 DEF DeletedExpired, Expired
  <2> QED
    BY <2>1, <2>2, <2>3, Moves
<1>3. now' \in Nat /\ now <= now'
  BY <1>1, ClockRuns
<1>4. ASSUME NEW t \in Tokens, tokens'[t].st = "deleted" PROVE tokens'[t].expires < now'
  <2>1. tokens[t].expires \in Nat
    BY <1>1 DEF TokenRow
  <2> QED
    BY <1>1, <1>2, <1>3, <1>4, <2>1
<1> QED
  BY <1>4 DEF DeletedExpired, Expired

LEMMA EvidenceFromDeadline ==
  ASSUME IInv, LinearChain, DeletedExpired
  PROVE  EvidenceKept
<1> SUFFICES ASSUME NEW p \in Tokens, NEW t \in Tokens, tokens[p].rotatedTo = t,
                    ~Expired(tokens[t])
             PROVE  tokens[p].st = "row"
  BY DEF EvidenceKept
<1>1. t # None
  BY ConstantsAssumption DEF Credentials
<1>2. tokens[t].expires = tokens[p].expires
  BY <1>1 DEF LinearChain
<1>3. tokens[p].st # "deleted"
  BY <1>2 DEF DeletedExpired, Expired
<1>4. tokens[p].st # "unborn"
  BY <1>1, UnbornIsBlank
<1> QED
  BY <1>3, <1>4 DEF IInv, TypeOK, TokenRow

(* The row of a rotated token outlives every token downstream of it, so the *)
(* cleanup of expired rows never hides a replay while the chain works.      *)
THEOREM Evidence == Spec => []EvidenceKept
<1>1. Init => LinearChain /\ DeletedExpired
  BY InitChains DEF Init, DeletedExpired, UnbornToken
<1>2. IInv /\ LinearChain /\ DeletedExpired /\ [Next]_vars => LinearChain' /\ DeletedExpired'
  BY LinearStep, DeletedExpiredStep
<1>3. IInv /\ LinearChain /\ DeletedExpired => EvidenceKept
  BY EvidenceFromDeadline
<1> QED
  BY <1>1, <1>2, <1>3, Inductive, PTL DEF Spec

-----------------------------------------------------------------------------
(* A step other than a consent never turns a grant with nothing left to     *)
(* exchange into one with a working credential.                             *)
THEOREM NoRevival == Spec => OnlyConsentRevives
<1> DEFINE Revives ==
      \A g \in GrantKeys :
        (OpenOn(g) = {} /\ OpenOn(g)' # {}) => OpenOn(g)' \subseteq Codes \cup Devices
<1>1. IInv /\ [Next]_vars => [Revives]_vars
  <2> SUFFICES ASSUME IInv, [Next]_vars,
                      NEW g \in GrantKeys, OpenOn(g) = {}, NEW x \in OpenOn(g)'
               PROVE  x \in Codes \cup Devices
    BY DEF Revives
  <2> SUFFICES ASSUME x \in OpenTokens', tokens'[x].grant = g PROVE FALSE
    BY DEF OpenOn, OpenCodes, OpenDevices
  <2>1. x \in Tokens /\ (Claimable(x))'
    BY DEF OpenTokens
  <2>2. CASE Withdrawing
    BY <2>1, <2>2, WithdrawingKeepsLines DEF SameLine, OpenOn, OpenTokens
  <2>3. CASE Consent
    BY <2>1, <2>3, ConsentKeepsLines DEF OpenOn, OpenTokens, Claimable, UnrevokedRow
  <2>4. CASE Exchanging
    <3>1. PICK c \in Credentials, N \in SUBSET Tokens : ExchangeOf(c, N)
      BY <2>4, ExchangeEffect
    <3>2. CASE x \in N
      <4>1. GrantBehind(c) = g /\ c \in OpenCredentials
        BY <3>1, <3>2 DEF ExchangeOf
      <4>2. c \in OpenOn(g)
        BY <4>1, ConstantsAssumption
           DEF OpenOn, GrantBehind, OpenCredentials, OpenCodes, OpenDevices, OpenTokens
      <4> QED
        BY <4>2
    <3>3. CASE x \notin N
      BY <2>1, <3>1, <3>3, ExchangeLines DEF SameLine, OpenOn, OpenTokens
    <3> QED
      BY <3>2, <3>3
  <2> QED
    BY <2>2, <2>3, <2>4, Moves
<1> QED
  BY <1>1, Inductive, PTL DEF Spec, OnlyConsentRevives

-----------------------------------------------------------------------------
(* What was approved does not change once it was. *)
LEMMA ApprovalsKeepScopes ==
  ASSUME IInv, [Next]_vars
  PROVE  /\ \A c \in Codes : codes[c].st # "unborn" => codes'[c].scopes = codes[c].scopes
         /\ \A d \in Devices :
              devices[d].st # "unborn" => devices'[d].scopes = devices[d].scopes
<1>1. /\ \A c \in Codes : codes[c] \in CodeRow
      /\ \A d \in Devices : devices[d] \in DeviceRow
  BY DEF IInv, TypeOK
<1>2. CASE Withdrawing
  <2>1. ASSUME NEW c \in Codes PROVE codes'[c].scopes = codes[c].scopes
    BY <1>1, <1>2 DEF Withdrawing, CodeRow
  <2>2. ASSUME NEW d \in Devices PROVE devices'[d].scopes = devices[d].scopes
    BY <1>1, <1>2 DEF Withdrawing, DeviceRow
  <2> QED
    BY <2>1, <2>2
<1>3. CASE Exchanging
  <2>1. PICK x \in Credentials, N \in SUBSET Tokens : ExchangeOf(x, N)
    BY <1>3, ExchangeEffect
  <2>2. ASSUME NEW c \in Codes PROVE codes'[c].scopes = codes[c].scopes
    <3>1. codes'[c] = codes[c] \/ codes'[c] = [codes[c] EXCEPT !.st = "consumed"]
      BY <2>1 DEF ExchangeOf
    <3> QED
      BY <1>1, <3>1 DEF CodeRow
  <2>3. ASSUME NEW d \in Devices PROVE devices'[d].scopes = devices[d].scopes
    <3>1. devices'[d] = devices[d] \/ devices'[d] = [devices[d] EXCEPT !.st = "consumed"]
      BY <2>1 DEF ExchangeOf
    <3> QED
      BY <1>1, <3>1 DEF DeviceRow
  <2> QED
    BY <2>2, <2>3
<1>4. CASE Consent
  BY <1>4 DEF Consent, Approve, ApproveDevice, IInv, TypeOK
<1> QED
  BY <1>2, <1>3, <1>4, Moves

LEMMA ScopesStep ==
  ASSUME IInv, ScopesWithinApproval, [Next]_vars
  PROVE  ScopesWithinApproval'
<1> DEFINE Approved(a) == IF a \in Codes THEN codes[a].scopes ELSE devices[a].scopes
           Drawn(a) == DrawnCode(a) \/ DrawnDevice(a)
<1>1. \A a : Drawn(a) => Approved(a)' = Approved(a)
  <2>1. \A c \in Codes : DrawnCode(c) => codes'[c].scopes = codes[c].scopes
    BY ApprovalsKeepScopes DEF DrawnCode
  <2>2. \A d \in Devices : DrawnDevice(d) => devices'[d].scopes = devices[d].scopes
    BY ApprovalsKeepScopes DEF DrawnDevice
  <2>3. \A a : (DrawnCode(a) => a \in Codes) /\ (DrawnDevice(a) => a \in Devices \ Codes)
    BY ConstantsAssumption DEF DrawnCode, DrawnDevice
  <2> QED
    BY <2>1, <2>2, <2>3
<1>2. ASSUME NEW t \in Tokens, tokens[t].st # "unborn"
      PROVE  Drawn(tokens[t].origin) /\ tokens[t].scopes \subseteq Approved(tokens[t].origin)
  BY <1>2, ConstantsAssumption
     DEF IInv, RowsOK, Exchanged, DrawnCode, DrawnDevice, ScopesWithinApproval
<1> HIDE DEF Drawn
<1>3. ASSUME NEW t \in Tokens, SameLine(t), tokens'[t].st # "unborn"
      PROVE  tokens'[t].scopes \subseteq Approved(tokens[t].origin)'
  <2>1. tokens[t].st # "unborn" /\ tokens'[t].scopes = tokens[t].scopes
        /\ tokens'[t].origin = tokens[t].origin
    BY <1>3 DEF SameLine
  <2>2. Drawn(tokens[t].origin) /\ tokens[t].scopes \subseteq Approved(tokens[t].origin)
    BY <1>2, <2>1
  <2>3. PICK a : a = tokens[t].origin
    OBVIOUS
  <2>4. Approved(a)' = Approved(a) /\ tokens'[t].scopes \subseteq Approved(a)
    BY <1>1, <2>1, <2>2, <2>3
  <2> QED
    BY <2>1, <2>3, <2>4
<1>4. ASSUME NEW t \in Tokens, tokens'[t].st # "unborn"
      PROVE  tokens'[t].scopes \subseteq Approved(tokens[t].origin)'
  <2>1. CASE Withdrawing
    BY <1>3, <1>4, <2>1, WithdrawingKeepsLines
  <2>2. CASE Consent
    <3>1. SameLine(t)
      BY <2>2, ConsentKeepsLines DEF SameLine, Claimable, UnrevokedRow
    <3> QED
      BY <1>3, <1>4, <3>1
  <2>3. CASE Exchanging
    <3>1. PICK c \in Credentials, N \in SUBSET Tokens : ExchangeOf(c, N)
      BY <2>3, ExchangeEffect
    <3>2. PICK a : a = OriginOf(c)
      OBVIOUS
    <3>3. Drawn(a) /\ ScopesBehind(c) \subseteq Approved(a)
      <4>1. CASE c \in Tokens
        <5>1. tokens[c].st # "unborn"
          BY <3>1, <4>1, ExchangeLines
        <5> QED
          BY <1>2, <3>2, <4>1, <5>1 DEF OriginOf, ScopesBehind
      <4>2. CASE c \notin Tokens
        <5>1. c \in OpenCodes \/ c \in OpenDevices
          BY <3>1, <4>2 DEF ExchangeOf, OpenCredentials, OpenTokens
        <5> QED
          BY <3>2, <4>2, <5>1
             DEF OriginOf, ScopesBehind, OpenCodes, OpenDevices, Drawn, DrawnCode, DrawnDevice
      <4> QED
        BY <4>1, <4>2
    <3>4. Approved(a)' = Approved(a)
      BY <1>1, <3>3
    <3>5. CASE t \in N
      <4>1. tokens'[t].origin = a /\ tokens'[t].scopes \subseteq ScopesBehind(c)
        BY <3>1, <3>2, <3>5 DEF ExchangeOf
      <4> QED
        BY <3>3, <3>4, <4>1
    <3>6. CASE t = c
      <4>1. tokens'[t].origin = a /\ tokens'[t].scopes = ScopesBehind(c)
        BY <3>1, <3>2, <3>6, ExchangeLines DEF OriginOf, ScopesBehind
      <4> QED
        BY <3>3, <3>4, <4>1
    <3>7. CASE t \notin N /\ t # c
      BY <1>3, <1>4, <3>1, <3>7, ExchangeLines
    <3> QED
      BY <3>5, <3>6, <3>7
  <2> QED
    BY <2>1, <2>2, <2>3, Moves
<1> QED
  BY <1>4, ConstantsAssumption DEF ScopesWithinApproval

(* No refresh token carries a scope outside the approval its line starts    *)
(* from, whatever becomes of policies, groups and the grant.                *)
THEOREM ScopesStayWithin == Spec => []ScopesWithinApproval
<1>1. Init => ScopesWithinApproval
  BY DEF Init, ScopesWithinApproval, UnbornToken
<1>2. IInv /\ ScopesWithinApproval /\ [Next]_vars => ScopesWithinApproval'
  BY ScopesStep
<1> QED
  BY <1>1, <1>2, Inductive, PTL DEF Spec

-----------------------------------------------------------------------------
(* The ledger's variables: open is OpenCredentials, retired is what was     *)
(* drawn and is not open any more.                                          *)
Drawn ==
  {c \in Codes : codes[c].st # "unborn"} \cup {d \in Devices : devices[d].st # "unborn"}
    \cup {t \in Tokens : tokens[t].st # "unborn"}

Retired ==
  {c \in Codes : codes[c].st \in {"consumed", "deleted"}}
    \cup {d \in Devices : devices[d].st \in {"consumed", "deleted"}}
    \cup {t \in Tokens : tokens[t].st # "unborn" /\ ~Claimable(t)}

LEMMA RetiredIsDrawn ==
  IInv => Retired = Drawn \ OpenCredentials /\ OpenCredentials \subseteq Drawn
<1> SUFFICES ASSUME IInv
             PROVE  Retired = Drawn \ OpenCredentials /\ OpenCredentials \subseteq Drawn
  OBVIOUS
<1>1. /\ \A c \in Codes : codes[c].st \in {"unborn", "open", "consumed", "deleted"}
      /\ \A d \in Devices : devices[d].st \in {"unborn", "approved", "consumed", "deleted"}
  BY DEF IInv, TypeOK, CodeRow, DeviceRow
<1> QED
  BY <1>1, ConstantsAssumption
     DEF Retired, Drawn, OpenCredentials, OpenCodes, OpenDevices, OpenTokens, Claimable,
         UnrevokedRow

LEMMA DrawnAre ==
  Drawn \subseteq Credentials
BY DEF Drawn, Credentials

(* No code or device code comes into being but by a consent. *)
LEMMA UnbornStays ==
  ASSUME IInv, Withdrawing \/ Exchanging
  PROVE  /\ \A k \in Codes : codes'[k].st = "unborn" <=> codes[k].st = "unborn"
         /\ \A k \in Devices : devices'[k].st = "unborn" <=> devices[k].st = "unborn"
<1>0. /\ \A k \in Codes : codes[k] \in CodeRow
      /\ \A k \in Devices : devices[k] \in DeviceRow
  BY DEF IInv, TypeOK
<1>1. CASE Withdrawing
  BY <1>0, <1>1 DEF Withdrawing, CodeRow, DeviceRow
<1>2. CASE Exchanging
  <2>1. PICK c \in Credentials, N \in SUBSET Tokens : ExchangeOf(c, N)
    BY <1>2, ExchangeEffect
  <2>2. c \notin Tokens => c \in OpenCodes \cup OpenDevices
    BY <2>1 DEF ExchangeOf, OpenCredentials, OpenTokens
  <2>3. ASSUME NEW k \in Codes PROVE codes'[k].st = "unborn" <=> codes[k].st = "unborn"
    <3>1. CASE k # c
      BY <2>1, <3>1 DEF ExchangeOf
    <3>2. CASE k = c
      <4>1. codes'[k] = [codes[k] EXCEPT !.st = "consumed"] /\ codes[k].st = "open"
        BY <2>1, <2>2, <3>2, ConstantsAssumption DEF ExchangeOf, OpenCodes, OpenDevices
      <4> QED
        BY <1>0, <4>1 DEF CodeRow
    <3> QED
      BY <3>1, <3>2
  <2>4. ASSUME NEW k \in Devices PROVE devices'[k].st = "unborn" <=> devices[k].st = "unborn"
    <3>1. CASE k # c
      BY <2>1, <3>1 DEF ExchangeOf
    <3>2. CASE k = c
      <4>1. devices'[k] = [devices[k] EXCEPT !.st = "consumed"] /\ devices[k].st = "approved"
        BY <2>1, <2>2, <3>2, ConstantsAssumption DEF ExchangeOf, OpenCodes, OpenDevices
      <4> QED
        BY <1>0, <4>1 DEF DeviceRow
    <3> QED
      BY <3>1, <3>2
  <2> QED
    BY <2>3, <2>4
<1> QED
  BY <1>1, <1>2

LEMMA LedgerStep ==
  ASSUME IInv, [Next]_vars
  PROVE  \/ /\ \E c \in Credentials :
                 /\ c \notin Drawn /\ Drawn' = Drawn \cup {c}
                 /\ OpenCredentials' = OpenCredentials \cup {c}
            /\ answers' = answers
         \/ \E c \in Credentials, N \in SUBSET Credentials :
              /\ c \in OpenCredentials /\ N \cap Drawn = {} /\ \A m, n \in N : m = n
              /\ Drawn' = Drawn \cup N
              /\ OpenCredentials' = (OpenCredentials \ {c}) \cup N
              /\ answers' = [answers EXCEPT ![c] = @ + 1]
         \/ /\ Drawn' = Drawn /\ OpenCredentials' \subseteq OpenCredentials
            /\ answers' = answers
<1>1. CASE Withdrawing
  <2>1. \A t \in Tokens : SameLine(t)
    BY <1>1, WithdrawingKeepsLines
  <2>2. /\ \A c \in Codes : codes'[c].st = "unborn" <=> codes[c].st = "unborn"
        /\ \A d \in Devices : devices'[d].st = "unborn" <=> devices[d].st = "unborn"
    BY <1>1, UnbornStays
  <2>4. Drawn' = Drawn
    BY <2>1, <2>2 DEF Drawn, SameLine
  <2>5. OpenTokens' \subseteq OpenTokens
    BY <2>1 DEF OpenTokens, SameLine
  <2> QED
    BY <1>1, <2>4, <2>5, WithdrawingCloses DEF OpenCredentials, Withdrawing
<1>2. CASE Consent
  <2>1. tokens' = tokens /\ answers' = answers /\ OpenTokens' = OpenTokens
    BY <1>2, ConsentKeepsLines DEF OpenTokens, Claimable, UnrevokedRow
  <2>2. ASSUME NEW c \in Codes, NEW g \in GrantKeys, NEW S \in SUBSET Scopes, Approve(c, g, S)
        PROVE  /\ c \in Credentials /\ c \notin Drawn /\ Drawn' = Drawn \cup {c}
               /\ OpenCredentials' = OpenCredentials \cup {c}
    <3>1. codes[c].st = "unborn" /\ devices' = devices
      BY <2>2 DEF Approve
    <3>2. \A k \in Codes : /\ k = c => codes'[k].st = "open"
                           /\ k # c => codes'[k] = codes[k]
      BY <2>2 DEF Approve, IInv, TypeOK
    <3>3. OpenCodes' = OpenCodes \cup {c} /\ OpenDevices' = OpenDevices
      BY <3>1, <3>2 DEF OpenCodes, OpenDevices
    <3> QED
      BY <2>1, <3>1, <3>2, <3>3, ConstantsAssumption DEF Drawn, OpenCredentials, Credentials
  <2>3. ASSUME NEW d \in Devices, NEW g \in GrantKeys, NEW S \in SUBSET Scopes,
               ApproveDevice(d, g, S)
        PROVE  /\ d \in Credentials /\ d \notin Drawn /\ Drawn' = Drawn \cup {d}
               /\ OpenCredentials' = OpenCredentials \cup {d}
    <3>1. devices[d].st = "unborn" /\ codes' = codes
      BY <2>3 DEF ApproveDevice
    <3>2. \A k \in Devices : /\ k = d => devices'[k].st = "approved"
                             /\ k # d => devices'[k] = devices[k]
      BY <2>3 DEF ApproveDevice, IInv, TypeOK
    <3>3. OpenDevices' = OpenDevices \cup {d} /\ OpenCodes' = OpenCodes
      BY <3>1, <3>2 DEF OpenCodes, OpenDevices
    <3> QED
      BY <2>1, <3>1, <3>2, <3>3, ConstantsAssumption DEF Drawn, OpenCredentials, Credentials
  <2> QED
    BY <1>2, <2>1, <2>2, <2>3 DEF Consent
<1>3. CASE Exchanging
  <2>1. PICK c \in Credentials, N \in SUBSET Tokens : ExchangeOf(c, N)
    BY <1>3, ExchangeEffect
  <2>2. /\ c \notin N
        /\ \A t \in Tokens \ (N \cup {c}) : SameLine(t)
        /\ \A t \in Tokens \ (N \cup {c}) : tokens'[t] = tokens[t]
        /\ c \in Tokens => ~(Claimable(c))' /\ tokens'[c].st # "unborn" /\ tokens[c].st # "unborn"
    BY <2>1, ExchangeLines DEF ExchangeOf
  <2>3. \A n \in N : /\ tokens[n].st = "unborn" /\ tokens'[n].st # "unborn"
                     /\ (Claimable(n))'
    BY <2>1 DEF ExchangeOf, Claimable, UnrevokedRow
  <2>4. OpenCodes' = OpenCodes \ {c} /\ OpenDevices' = OpenDevices \ {c}
    BY <2>1, ExchangeCloses
  <2>5. OpenTokens' = (OpenTokens \ {c}) \cup N
    BY <2>2, <2>3 DEF OpenTokens, Claimable, UnrevokedRow
  <2>6. /\ \A k \in Codes : codes'[k].st = "unborn" <=> codes[k].st = "unborn"
        /\ \A k \in Devices : devices'[k].st = "unborn" <=> devices[k].st = "unborn"
    BY <1>3, UnbornStays
  <2>9. Drawn' = Drawn \cup N
    BY <2>2, <2>3, <2>6 DEF Drawn
  <2>10. N \cap Drawn = {}
    BY <2>3, ConstantsAssumption DEF Drawn
  <2>11. OpenCredentials' = (OpenCredentials \ {c}) \cup N
    BY <2>4, <2>5 DEF OpenCredentials
  <2>12. /\ c \in OpenCredentials /\ N \in SUBSET Credentials /\ \A m, n \in N : m = n
         /\ answers' = [answers EXCEPT ![c] = @ + 1]
    BY <2>1 DEF ExchangeOf, Credentials
  <2> QED
    BY <2>9, <2>10, <2>11, <2>12
<1> QED
  BY <1>1, <1>2, <1>3, Moves

(* The token endpoint implements the ledger of credentials: every exchange  *)
(* the code makes is one the ledger allows, whoever else is at work.        *)
THEOREM ImplementsLedger == Spec => LedgerSpec
<1>1. Init => Ledger!Init
  BY DEF Init, Ledger!Init, OpenCodes, OpenDevices, OpenTokens, Unborn, UnbornToken,
         Claimable, UnrevokedRow
<1>2. IInv' => (Retired = Drawn \ OpenCredentials)'
  BY RetiredIsDrawn, PTL
<1>3. IInv /\ IInv' /\ [Next]_vars => [Ledger!Next]_(Ledger!vars)
  <2> SUFFICES ASSUME IInv, IInv', [Next]_vars PROVE Ledger!Next
    OBVIOUS
  <2>1. Retired = Drawn \ OpenCredentials /\ Retired' = Drawn' \ OpenCredentials'
        /\ OpenCredentials \subseteq Drawn
    BY <1>2, RetiredIsDrawn
  <2>2. ASSUME NEW c \in Credentials, c \notin Drawn, Drawn' = Drawn \cup {c},
               OpenCredentials' = OpenCredentials \cup {c}, answers' = answers
        PROVE  Ledger!Approve(c)
    <3>1. c \notin OpenCredentials \cup Retired /\ Retired' = Retired
      BY <2>1, <2>2
    <3> QED
      BY <2>2, <3>1 DEF Ledger!Approve, Ledger!Fresh, OpenCredentials, Retired
  <2>3. ASSUME NEW c \in Credentials, NEW N \in SUBSET Credentials,
               c \in OpenCredentials, N \cap Drawn = {}, \A m, n \in N : m = n,
               Drawn' = Drawn \cup N, OpenCredentials' = (OpenCredentials \ {c}) \cup N,
               answers' = [answers EXCEPT ![c] = @ + 1]
        PROVE  Ledger!Exchange(c, N)
    <3>1. Retired' = Retired \cup {c} /\ \A n \in N : n \notin OpenCredentials \cup Retired
      BY <2>1, <2>3
    <3> QED
      BY <2>3, <3>1 DEF Ledger!Exchange, Ledger!Fresh, OpenCredentials, Retired
  <2>4. ASSUME Drawn' = Drawn, OpenCredentials' \subseteq OpenCredentials, answers' = answers
        PROVE  \E S \in SUBSET Credentials : Ledger!Withdraw(S)
    <3>0. PICK S : S = OpenCredentials \ OpenCredentials'
      OBVIOUS
    <3>1. /\ S \subseteq OpenCredentials /\ OpenCredentials' = OpenCredentials \ S
          /\ Retired' = Retired \cup S /\ S \in SUBSET Credentials
      BY <2>1, <2>4, <3>0, DrawnAre
    <3>2. Ledger!Withdraw(S)
      BY <2>4, <3>1 DEF Ledger!Withdraw, OpenCredentials, Retired
    <3> QED
      BY <3>1, <3>2
  <2> QED
    BY <2>2, <2>3, <2>4, LedgerStep DEF Ledger!Next
<1> QED
  BY <1>1, <1>3, Inductive, PTL DEF Spec, LedgerSpec, Ledger!Spec

=============================================================================
