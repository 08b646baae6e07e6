------------------------ MODULE ResourceServerProofs ------------------------
(***************************************************************************)
(* Theorems about the two halves of resource-servers/: the view that every *)
(* handler reads (RegistrySync), for any number of callers, changes and    *)
(* failures, and the documents of a server (ServerMetadata), for any       *)
(* documents and operators.                                                *)
(*                                                                         *)
(* The view.  Generations order the loads as they begin (Ordered), and a   *)
(* load knows by its generation on which side of what has been applied it  *)
(* is (LoadOK): a load that is not applied began no later than the one     *)
(* that was, so that what is owed to its caller is shown all the same.     *)
(***************************************************************************)
EXTENDS RegistrySync, ServerMetadata, TLAPS

Active(l) == load[l].pc \in {"rows", "policies", "apply"}

LoadOK(l) ==
  /\ load[l].pc # "idle" => load[l].mine <= version
  /\ Active(l) =>
       /\ load[l].mine <= load[l].since /\ load[l].since <= version
       /\ load[l].generation <= nextGeneration
       /\ load[l].generation >= appliedGeneration => floor <= load[l].since
       /\ load[l].generation < appliedGeneration => load[l].since <= floor
  /\ load[l].pc \in {"policies", "apply"} => load[l].since <= load[l].rows
  /\ load[l].pc = "apply" => load[l].since <= load[l].policies

Ordered ==
  \A l, m \in Loaders : (Active(l) /\ Active(m) /\ l # m) =>
    /\ load[l].generation # load[m].generation
    /\ load[l].generation < load[m].generation => load[l].since <= load[m].since

Bounds ==
  /\ appliedGeneration <= nextGeneration /\ acked <= floor /\ floor <= version
  /\ floor <= view.rows /\ floor <= view.policies

LoadsInv == Bounds /\ Ordered /\ \A l \in Loaders : LoadOK(l)

(* What the listener owes: as NothingMissed, of the changes every applied   *)
(* load has seen. *)
ListenerInv ==
  /\ running # "on" => client = "none"
  /\ session => client \in {"listening", "up"}
  /\ note => session
  /\ (client = "up" /\ session /\ floor < version) =>
       \/ note \/ reload = "sleeping"
       \/ reload = "loading" /\ (reloadQueued \/ load[Listener].since = version)

IInv == TypeOK /\ LoadsInv /\ ListenerInv

-----------------------------------------------------------------------------
(* Types.                                                                  *)

LEMMA LoadTypes ==
  ASSUME TypeOK, NEW mine \in Nat
  PROVE  /\ Started(mine) \in Load
         /\ Started(mine).pc = "rows" /\ Started(mine).mine = mine
         /\ Started(mine).since = version /\ Started(mine).generation = nextGeneration + 1
<1>1. version \in Nat /\ nextGeneration \in Nat
  BY SyncAssumption DEF TypeOK
<1> QED
  BY <1>1 DEF NoLoad, Load, Started

LEMMA CommittedType ==
  ASSUME NEW mine \in Nat, NEW r, r = [NoLoad EXCEPT !.pc = "committed", !.mine = mine]
  PROVE  r \in Load /\ r.pc = "committed" /\ r.mine = mine
BY DEF NoLoad, Load

LEMMA CommitType == TypeOK /\ Commit => version' \in 0 .. MaxChanges /\ note' \in BOOLEAN
BY SyncAssumption DEF TypeOK, Commit

LEMMA FailureType == TypeOK /\ Failure => failures' \in 0 .. MaxFailures
BY SyncAssumption DEF TypeOK, Failure

LEMMA SwapType ==
  ASSUME TypeOK, NEW l \in Loaders, Swap(l)
  PROVE  appliedGeneration' \in Nat /\ view' \in [rows : Nat, policies : Nat] /\ floor' \in Nat
BY DEF TypeOK, Swap, SwapIf, Load, Larger

LEMMA VersionNat == TypeOK => version \in Nat
BY SyncAssumption DEF TypeOK

-----------------------------------------------------------------------------
(* Loads.                                                                  *)

Kept(l) == load'[l] = load[l]
Begun(l) ==
  /\ load'[l].pc = "rows" /\ load'[l].since = version /\ load'[l].mine <= version
  /\ load'[l].generation = nextGeneration + 1

(* Any step that begins at most one load, ends some, and applies none. *)
LEMMA LoadsMove ==
  ASSUME TypeOK, TypeOK', LoadsInv, version <= version',
         \A l \in Loaders :
           \/ Kept(l)
           \/ load'[l].pc \in {"idle", "committed"} /\ load'[l].mine <= version'
           \/ Begun(l) /\ nextGeneration' = nextGeneration + 1,
         \A l, m \in Loaders : (Begun(l) /\ Begun(m) /\ ~Kept(l) /\ ~Kept(m)) => l = m,
         nextGeneration <= nextGeneration',
         UNCHANGED << view, appliedGeneration, floor, acked >>
  PROVE  LoadsInv'
<1>1. /\ version \in Nat /\ version' \in Nat /\ nextGeneration \in Nat /\ nextGeneration' \in Nat
      /\ appliedGeneration \in Nat /\ floor \in Nat /\ acked \in Nat
      /\ view.rows \in Nat /\ view.policies \in Nat
  BY VersionNat, SyncAssumption DEF TypeOK
<1>2. \A l \in Loaders : load[l] \in Load /\ load'[l] \in Load
  BY DEF TypeOK
<1>3. Bounds'
  BY <1>1 DEF LoadsInv, Bounds
<1>4. ASSUME NEW l \in Loaders PROVE LoadOK(l)'
  BY <1>1, <1>2 DEF LoadsInv, Bounds, LoadOK, Active, Kept, Begun, Load
<1>5. Ordered'
  BY <1>1, <1>2 DEF LoadsInv, Ordered, LoadOK, Active, Kept, Begun, Load
<1> QED
  BY <1>3, <1>4, <1>5 DEF LoadsInv

(* A load is applied or passed over, and its loader stops or begins again. *)
LEMMA LoadsSwap ==
  ASSUME TypeOK, TypeOK', LoadsInv, NEW l \in Loaders, load[l].pc = "apply", Swap(l),
         \A m \in Loaders \ {l} : Kept(m),
         \/ load'[l].pc = "idle" /\ nextGeneration' = nextGeneration
         \/ Begun(l) /\ nextGeneration' = nextGeneration + 1,
         acked' = acked \/ acked' = Larger(acked, load[l].mine),
         UNCHANGED version
  PROVE  LoadsInv' /\ floor <= floor' /\ load[l].since <= floor'
<1>1. /\ version \in Nat /\ nextGeneration \in Nat /\ nextGeneration' \in Nat
      /\ appliedGeneration \in Nat /\ floor \in Nat /\ acked \in Nat /\ acked' \in Nat
      /\ view.rows \in Nat /\ view.policies \in Nat /\ floor' \in Nat
  BY VersionNat DEF TypeOK
<1>2. \A m \in Loaders : load[m] \in Load /\ load'[m] \in Load
  BY DEF TypeOK
<1>3. /\ load[l].generation \in Nat /\ load[l].since \in Nat /\ load[l].mine \in Nat
      /\ load[l].rows \in Nat /\ load[l].policies \in Nat
  BY <1>2 DEF Load
<1>4. /\ load[l].mine <= load[l].since /\ load[l].since <= version
      /\ load[l].generation <= nextGeneration
      /\ load[l].generation >= appliedGeneration => floor <= load[l].since
      /\ load[l].generation < appliedGeneration => load[l].since <= floor
      /\ load[l].since <= load[l].rows /\ load[l].since <= load[l].policies
  BY DEF LoadsInv, LoadOK, Active
<1>5. \/ /\ load[l].generation >= appliedGeneration
         /\ appliedGeneration' = load[l].generation /\ floor' = load[l].since
         /\ view'.rows = load[l].rows /\ view'.policies = load[l].policies
      \/ /\ load[l].generation < appliedGeneration
         /\ UNCHANGED << appliedGeneration, view, floor >>
  BY <1>1, <1>3, <1>4 DEF Swap, SwapIf, Larger
<1>6. floor <= floor' /\ load[l].since <= floor'
  BY <1>1, <1>3, <1>4, <1>5
<1>7. Bounds'
  BY <1>1, <1>3, <1>4, <1>5 DEF LoadsInv, Bounds, Larger
<1>8. ASSUME NEW m \in Loaders PROVE LoadOK(m)'
  <2>1. CASE m = l
    <3>1. CASE load'[l].pc = "idle"
      BY <2>1, <3>1 DEF LoadOK, Active
    <3>2. CASE Begun(l) /\ nextGeneration' = nextGeneration + 1
      <4>1. appliedGeneration' <= nextGeneration + 1 /\ floor' <= version' /\ version' = version
        BY <3>2, <1>7 DEF Bounds
      <4>2. appliedGeneration' \in Nat /\ load'[l].mine \in Nat
        BY <1>2 DEF TypeOK, Load
      <4> QED
        BY <2>1, <3>2, <4>1, <4>2, <1>1 DEF LoadOK, Active, Begun
    <3> QED
      BY <3>1, <3>2
  <2>2. CASE m # l
    <3>1. load'[m] = load[m] /\ LoadOK(m) /\ load[m] \in Load /\ load[m].generation \in Nat
          /\ load[m].since \in Nat
      BY <2>2, <1>2 DEF LoadsInv, Kept, Load
    <3>2. Active(m) =>
            /\ load[l].generation # load[m].generation
            /\ load[l].generation < load[m].generation => load[l].since <= load[m].since
            /\ load[m].generation < load[l].generation => load[m].since <= load[l].since
      BY <2>2 DEF LoadsInv, Ordered, Active
    <3>3. Active(m) =>
            /\ load[m].generation >= appliedGeneration' => floor' <= load[m].since
            /\ load[m].generation < appliedGeneration' => load[m].since <= floor'
      BY <3>1, <3>2, <1>1, <1>3, <1>5 DEF LoadOK
    <3>4. nextGeneration <= nextGeneration' /\ (Active(m) => load[m].generation <= nextGeneration')
      BY <3>1, <1>1 DEF LoadOK
    <3> QED
      BY <3>1, <3>3, <3>4 DEF LoadOK, Active
  <2> QED
    BY <2>1, <2>2
<1>9. Ordered'
  BY <1>1, <1>2 DEF LoadsInv, Ordered, LoadOK, Active, Kept, Begun, Load
<1> QED
  BY <1>6, <1>7, <1>8, <1>9 DEF LoadsInv

-----------------------------------------------------------------------------
(* The steps.  Each keeps the types, the loads and what the listener owes.  *)

LEMMA ReadKeeps ==
  ASSUME IInv, NEW l \in Loaders, LoadStep(l)
  PROVE  IInv'
<1>1. TypeOK /\ version \in Nat /\ load[l] \in Load
  BY VersionNat DEF IInv, TypeOK
<1>2. PICK r \in Load :
        /\ load' = [load EXCEPT ![l] = r]
        /\ r.mine = load[l].mine /\ r.since = load[l].since /\ r.generation = load[l].generation
        /\ \/ load[l].pc = "rows" /\ r.pc = "policies" /\ r.rows = version
           \/ /\ load[l].pc = "policies" /\ r.pc = "apply" /\ r.policies = version
              /\ r.rows = load[l].rows
  <2>1. CASE ReadRows(l)
    <3> DEFINE r == [load[l] EXCEPT !.pc = "policies", !.rows = version]
    <3>1. /\ r \in Load /\ r.mine = load[l].mine /\ r.since = load[l].since
          /\ r.generation = load[l].generation /\ r.pc = "policies" /\ r.rows = version
      BY <1>1 DEF Load
    <3> HIDE DEF r
    <3>2. load' = [load EXCEPT ![l] = r] /\ load[l].pc = "rows"
      BY <2>1 DEF ReadRows, r
    <3> QED
      BY <3>1, <3>2
  <2>2. CASE ReadPolicies(l)
    <3> DEFINE r == [load[l] EXCEPT !.pc = "apply", !.policies = version]
    <3>1. /\ r \in Load /\ r.mine = load[l].mine /\ r.since = load[l].since
          /\ r.generation = load[l].generation /\ r.pc = "apply" /\ r.policies = version
          /\ r.rows = load[l].rows
      BY <1>1 DEF Load
    <3> HIDE DEF r
    <3>2. load' = [load EXCEPT ![l] = r] /\ load[l].pc = "policies"
      BY <2>2 DEF ReadPolicies, r
    <3> QED
      BY <3>1, <3>2
  <2> QED
    BY <2>1, <2>2 DEF LoadStep
<1>3. UNCHANGED << version, view, generations, loop, running, connection, failures, floor, acked >>
  BY DEF LoadStep, ReadRows, ReadPolicies
<1>4. \A m \in Loaders : load'[m] = IF m = l THEN r ELSE load[m]
  BY <1>1, <1>2 DEF TypeOK
<1>5. TypeOK'
  BY <1>1, <1>2, <1>3, <1>4 DEF TypeOK, generations, loop, connection, Loaders
<1>6. Bounds' /\ Ordered'
  BY <1>2, <1>3, <1>4 DEF IInv, LoadsInv, Bounds, Ordered, Active, generations
<1>7. \A m \in Loaders : LoadOK(m)'
  BY <1>1, <1>2, <1>3, <1>4 DEF IInv, LoadsInv, LoadOK, Active, generations
<1>8. ListenerInv'
  BY <1>2, <1>3, <1>4 DEF IInv, ListenerInv, loop, connection, Loaders
<1> QED
  BY <1>5, <1>6, <1>7, <1>8 DEF IInv, LoadsInv

(* The caller's side, and the changes. *)
LEMMA CommitKeepsListener ==
  ASSUME IInv, Commit, UNCHANGED << loop, running, client, session, floor >>
  PROVE  ListenerInv'
BY DEF IInv, ListenerInv, Commit, loop

LEMMA ChangeKeeps ==
  ASSUME IInv, NEW c \in Callers, Change(c)
  PROVE  IInv'
<1> DEFINE r == [NoLoad EXCEPT !.pc = "committed", !.mine = version']
<1>1. TypeOK /\ version \in Nat /\ version' \in Nat /\ version' = version + 1 /\ Commit
  BY VersionNat DEF IInv, Change, Commit
<1>2. r \in Load /\ r.pc = "committed" /\ r.mine = version'
  BY <1>1, CommittedType
<1>3. load' = [load EXCEPT ![c] = r] /\ load[c].pc = "idle"
  BY DEF Change
<1> HIDE DEF r
<1>4. \A l \in Loaders : load'[l] = IF l = c THEN r ELSE load[l]
  BY <1>1, <1>3 DEF TypeOK
<1>5. TypeOK'
  BY <1>1, <1>2, <1>3, <1>4, CommitType, SyncAssumption
     DEF Change, TypeOK, generations, loop, Loaders
<1>6. LoadsInv'
  BY <1>1, <1>2, <1>4, <1>5, LoadsMove DEF Change, IInv, Kept, Begun, generations, TypeOK
<1>7. ListenerInv'
  BY <1>1, CommitKeepsListener DEF Change
<1> QED
  BY <1>5, <1>6, <1>7 DEF IInv

LEMMA CliChangeKeeps == IInv /\ CliChange => IInv'
<1> SUFFICES ASSUME IInv, CliChange PROVE IInv'
  OBVIOUS
<1>1. TypeOK /\ version \in Nat /\ version' = version + 1 /\ Commit
  BY VersionNat DEF IInv, CliChange, Commit
<1>2. TypeOK'
  BY <1>1, CommitType DEF CliChange, TypeOK, generations, loop
<1>3. LoadsInv'
  BY <1>1, <1>2, LoadsMove DEF CliChange, IInv, Kept, generations, TypeOK
<1>4. ListenerInv'
  BY <1>1, CommitKeepsListener DEF CliChange
<1> QED
  BY <1>2, <1>3, <1>4 DEF IInv

(* A load begins: facts used by every action that calls loadRegistry. *)
LEMMA Begins ==
  ASSUME TypeOK, NEW l \in Loaders, NEW mine \in Nat, mine <= version, BeginLoad(l, mine)
  PROVE  /\ load' \in [Loaders -> Load]
         /\ \A m \in Loaders \ {l} : load'[m] = load[m]
         /\ Begun(l) /\ load'[l].mine = mine
         /\ nextGeneration' = nextGeneration + 1 /\ nextGeneration' \in Nat
<1> DEFINE r == Started(mine)
<1>1. /\ r \in Load /\ r.pc = "rows" /\ r.mine = mine
      /\ r.since = version /\ r.generation = nextGeneration + 1
  BY LoadTypes
<1>2. load' = [load EXCEPT ![l] = r] /\ nextGeneration' = nextGeneration + 1
  BY DEF BeginLoad
<1> HIDE DEF r
<1>3. nextGeneration \in Nat
  BY DEF TypeOK
<1> QED
  BY <1>1, <1>2, <1>3 DEF TypeOK, Begun

LEMMA Ends ==
  ASSUME TypeOK, NEW l \in Loaders, load' = [load EXCEPT ![l] = NoLoad]
  PROVE  /\ load' \in [Loaders -> Load]
         /\ \A m \in Loaders \ {l} : load'[m] = load[m]
         /\ load'[l].pc = "idle" /\ load'[l].mine = 0
<1>1. NoLoad \in Load /\ NoLoad.pc = "idle" /\ NoLoad.mine = 0
  BY DEF NoLoad, Load
<1> QED
  BY <1>1 DEF TypeOK

LEMMA CallerKeeps ==
  ASSUME IInv, NEW c \in Callers, CallerLoads(c) \/ CallerReturns(c) \/ CallerFails(c)
  PROVE  IInv'
<1>1. TypeOK /\ LoadsInv /\ version \in Nat /\ c \in Loaders /\ c # Listener
      /\ load[c] \in Load /\ load[c].mine \in Nat
  BY VersionNat, SyncAssumption DEF IInv, Loaders, TypeOK, Load
<1>2. CASE CallerLoads(c)
  <2>1. load[c].mine <= version
    BY <1>1, <1>2 DEF CallerLoads, LoadsInv, LoadOK
  <2>2. /\ load' \in [Loaders -> Load]
        /\ \A m \in Loaders \ {c} : load'[m] = load[m]
        /\ Begun(c) /\ nextGeneration' = nextGeneration + 1 /\ nextGeneration' \in Nat
    BY <1>1, <1>2, <2>1, Begins DEF CallerLoads
  <2>3. TypeOK'
    BY <1>1, <1>2, <2>2 DEF CallerLoads, TypeOK, loop, connection, Loaders
  <2>4. LoadsInv'
    BY <1>1, <1>2, <2>2, <2>3, LoadsMove DEF CallerLoads, Kept, TypeOK
  <2>5. ListenerInv'
    BY <1>1, <1>2, <2>2 DEF CallerLoads, IInv, ListenerInv, loop, connection, Loaders
  <2> QED
    BY <2>3, <2>4, <2>5 DEF IInv
<1>3. CASE CallerReturns(c)
  <2>1. /\ load' \in [Loaders -> Load]
        /\ \A m \in Loaders \ {c} : load'[m] = load[m]
        /\ load'[c].pc = "idle"
    BY <1>1, <1>3, Ends DEF CallerReturns
  <2>2. TypeOK'
    BY <1>1, <1>3, <2>1, SwapType DEF CallerReturns, TypeOK, loop, connection, Loaders, Larger
  <2>3. LoadsInv' /\ floor <= floor'
    BY <1>1, <1>3, <2>1, <2>2, LoadsSwap DEF CallerReturns, Kept
  <2>4. floor \in Nat /\ floor' \in Nat
    BY <1>1, <2>2 DEF TypeOK
  <2>5. ListenerInv'
    BY <1>1, <1>3, <2>1, <2>3, <2>4 DEF CallerReturns, IInv, ListenerInv, loop, connection, Loaders
  <2> QED
    BY <2>2, <2>3, <2>5 DEF IInv
<1>4. CASE CallerFails(c)
  <2>1. /\ load' \in [Loaders -> Load]
        /\ \A m \in Loaders \ {c} : load'[m] = load[m]
        /\ load'[c].pc = "idle" /\ load'[c].mine = 0
    BY <1>1, <1>4, Ends DEF CallerFails
  <2>2. TypeOK'
    BY <1>1, <1>4, <2>1, FailureType DEF CallerFails, TypeOK, generations, loop, connection, Loaders
  <2>3. LoadsInv'
    BY <1>1, <1>4, <2>1, <2>2, LoadsMove DEF CallerFails, Kept, Begun, generations, TypeOK
  <2>4. ListenerInv'
    BY <1>1, <1>4, <2>1 DEF CallerFails, IInv, ListenerInv, loop, connection, Loaders
  <2> QED
    BY <2>2, <2>3, <2>4 DEF IInv
<1> QED
  BY <1>2, <1>3, <1>4

-----------------------------------------------------------------------------
(* The loop of requestReload, and the connection.                          *)

LEMMA ReloadedKeeps == IInv /\ Reloaded => IInv'
<1> SUFFICES ASSUME IInv, Reloaded PROVE IInv'
  OBVIOUS
<1>1. /\ TypeOK /\ LoadsInv /\ version \in Nat /\ Listener \in Loaders
      /\ load[Listener].pc = "apply" /\ Swap(Listener) /\ 0 <= version
      /\ UNCHANGED << version, running, connection, failures, acked >>
  BY VersionNat DEF IInv, Loaders, Reloaded, ReloadedThen
<1>2. CASE reloadQueued
  <2>1. /\ reloadQueued' = FALSE /\ reload' = reload /\ reload = "loading"
        /\ load' \in [Loaders -> Load]
        /\ \A m \in Loaders \ {Listener} : load'[m] = load[m]
        /\ Begun(Listener) /\ nextGeneration' = nextGeneration + 1 /\ nextGeneration' \in Nat
    BY <1>1, <1>2, Begins DEF Reloaded, ReloadedThen, TypeOK
  <2>2. TypeOK'
    BY <1>1, <2>1, SwapType DEF TypeOK, connection, Begun
  <2>3. LoadsInv'
    BY <1>1, <2>1, <2>2, LoadsSwap DEF Kept
  <2>4. ListenerInv'
    BY <1>1, <2>1 DEF IInv, ListenerInv, connection, Begun
  <2> QED
    BY <2>2, <2>3, <2>4 DEF IInv
<1>3. CASE ~reloadQueued
  <2>1. /\ reloadQueued' = reloadQueued /\ reload' = "off"
        /\ load' \in [Loaders -> Load]
        /\ \A m \in Loaders \ {Listener} : load'[m] = load[m]
        /\ load'[Listener].pc = "idle" /\ nextGeneration' = nextGeneration
    BY <1>1, <1>3, Ends DEF Reloaded, ReloadedThen
  <2>2. TypeOK'
    BY <1>1, <2>1, SwapType DEF TypeOK, connection
  <2>3. LoadsInv' /\ floor <= floor' /\ load[Listener].since <= floor'
    BY <1>1, <2>1, <2>2, LoadsSwap DEF Kept
  <2>4. floor \in Nat /\ floor' \in Nat
    BY <1>1, <2>2 DEF TypeOK
  <2>5. ListenerInv'
    BY <1>1, <1>3, <2>1, <2>3, <2>4 DEF IInv, ListenerInv, connection, TypeOK
  <2> QED
    BY <2>2, <2>3, <2>5 DEF IInv
<1> QED
  BY <1>2, <1>3

LEMMA ReloadFailsKeeps == IInv /\ ReloadFails => IInv'
<1> SUFFICES ASSUME IInv, ReloadFails PROVE IInv'
  OBVIOUS
<1>1. /\ TypeOK /\ LoadsInv /\ version \in Nat /\ Listener \in Loaders /\ Failure
      /\ reload' = IF running = "on" THEN "sleeping" ELSE "off"
      /\ UNCHANGED << version, view, generations, reloadQueued, running, connection, floor, acked >>
  BY VersionNat DEF IInv, Loaders, ReloadFails, ReloadFailsThen
<1>2. /\ load' \in [Loaders -> Load]
      /\ \A m \in Loaders \ {Listener} : load'[m] = load[m]
      /\ load'[Listener].pc = "idle" /\ load'[Listener].mine = 0
  BY <1>1, Ends DEF ReloadFails, ReloadFailsThen
<1>3. TypeOK'
  BY <1>1, <1>2, FailureType DEF TypeOK, generations, connection
<1>4. LoadsInv'
  BY <1>1, <1>2, <1>3, LoadsMove DEF Kept, Begun, generations, TypeOK
<1>5. ListenerInv'
  BY <1>1 DEF IInv, ListenerInv, connection
<1> QED
  BY <1>3, <1>4, <1>5 DEF IInv

LEMMA RetryKeeps == IInv /\ RetryReload => IInv'
<1> SUFFICES ASSUME IInv, RetryReload PROVE IInv'
  OBVIOUS
<1>1. /\ TypeOK /\ LoadsInv /\ version \in Nat /\ Listener \in Loaders /\ reload = "sleeping"
      /\ 0 <= version
      /\ UNCHANGED << version, view, appliedGeneration, running, connection, failures, floor, acked >>
  BY VersionNat DEF IInv, Loaders, RetryReload
<1>2. CASE running = "on"
  <2>1. /\ reloadQueued' = FALSE /\ reload' = "loading"
        /\ load' \in [Loaders -> Load]
        /\ \A m \in Loaders \ {Listener} : load'[m] = load[m]
        /\ Begun(Listener) /\ nextGeneration' = nextGeneration + 1 /\ nextGeneration' \in Nat
    BY <1>1, <1>2, Begins DEF RetryReload
  <2>2. TypeOK'
    BY <1>1, <2>1 DEF TypeOK, connection, Begun
  <2>3. LoadsInv'
    BY <1>1, <2>1, <2>2, LoadsMove DEF Kept, TypeOK
  <2>4. ListenerInv'
    BY <1>1, <2>1 DEF IInv, ListenerInv, connection, Begun
  <2> QED
    BY <2>2, <2>3, <2>4 DEF IInv
<1>3. CASE running # "on"
  <2>1. reload' = "off" /\ UNCHANGED << reloadQueued, nextGeneration, load >>
    BY <1>1, <1>3 DEF RetryReload
  <2>2. TypeOK'
    BY <1>1, <2>1 DEF TypeOK, connection
  <2>3. LoadsInv'
    BY <1>1, <2>1, <2>2, LoadsMove DEF Kept, TypeOK
  <2>4. ListenerInv'
    BY <1>1, <1>3 DEF IInv, ListenerInv, connection
  <2> QED
    BY <2>2, <2>3, <2>4 DEF IInv
<1> QED
  BY <1>2, <1>3

(* A reload was asked for: whatever is committed by now will be seen. *)
LEMMA RequestKeeps ==
  ASSUME IInv, RequestReload, client' \in {"listening", "up"}, running = "on" \/ client' = client,
         note' \in BOOLEAN, note' => note,
         UNCHANGED << version, view, appliedGeneration, running, session, failures, floor, acked >>
  PROVE  IInv'
<1>1. /\ TypeOK /\ LoadsInv /\ version \in Nat /\ Listener \in Loaders /\ 0 <= version
  BY VersionNat DEF IInv, Loaders
<1>2. CASE reload = "off"
  <2>1. /\ reloadQueued' = FALSE /\ reload' = "loading"
        /\ load' \in [Loaders -> Load]
        /\ \A m \in Loaders \ {Listener} : load'[m] = load[m]
        /\ Begun(Listener) /\ nextGeneration' = nextGeneration + 1 /\ nextGeneration' \in Nat
    BY <1>1, <1>2, Begins DEF RequestReload
  <2>2. TypeOK'
    BY <1>1, <2>1 DEF TypeOK, Begun
  <2>3. LoadsInv'
    BY <1>1, <2>1, <2>2, LoadsMove DEF Kept, TypeOK
  <2>4. ListenerInv'
    BY <1>1, <2>1 DEF IInv, ListenerInv, Begun
  <2> QED
    BY <2>2, <2>3, <2>4 DEF IInv
<1>3. CASE reload # "off"
  <2>1. reloadQueued' = TRUE /\ UNCHANGED << reload, nextGeneration, load >>
    BY <1>3 DEF RequestReload
  <2>2. TypeOK'
    BY <1>1, <2>1 DEF TypeOK
  <2>3. LoadsInv'
    BY <1>1, <2>1, <2>2, LoadsMove DEF Kept, TypeOK
  <2>4. ListenerInv'
    BY <1>1, <1>3, <2>1 DEF IInv, ListenerInv, TypeOK
  <2> QED
    BY <2>2, <2>3, <2>4 DEF IInv
<1> QED
  BY <1>2, <1>3

LEMMA ConnectedKeeps == IInv /\ Connected => IInv'
<1> SUFFICES ASSUME IInv, Connected PROVE IInv'
  OBVIOUS
<1>1. running = "on" /\ note' \in BOOLEAN /\ note' = note
  BY DEF IInv, ListenerInv, TypeOK, Connected, ConnectedThen
<1> QED
  BY <1>1, RequestKeeps DEF Connected, ConnectedThen

(* It finds the client there: a note goes with its session, and the session *)
(* with the client. *)
LEMMA NotificationKeeps == IInv /\ Notification => IInv'
<1> SUFFICES ASSUME IInv, Notification PROVE IInv'
  OBVIOUS
<1>1. client' = client /\ note' = FALSE /\ client \in {"listening", "up"}
  BY DEF Notification, IInv, ListenerInv
<1> QED
  BY <1>1, RequestKeeps DEF Notification

LEMMA ConnectionKeeps ==
  ASSUME IInv,
         \/ StartRegistryListener \/ Listen \/ ConnectFails \/ DropSession \/ Lost \/ Reconnect
         \/ StopRegistryListener \/ Stopped \/ UNCHANGED vars
  PROVE  IInv'
<1>1. TypeOK /\ LoadsInv
  BY DEF IInv
<1>2. UNCHANGED << version, view, nextGeneration, appliedGeneration, load, reload, reloadQueued,
                   floor, acked >>
  BY DEF StartRegistryListener, Listen, ConnectFails, DropSession, Lost, Reconnect,
     StopRegistryListener, Stopped, vars, generations, loop
<1>3. LoadsInv'
  BY <1>1, <1>2 DEF LoadsInv, Bounds, Ordered, LoadOK, Active
<1>4. CASE StartRegistryListener \/ Listen \/ Lost \/ Reconnect \/ Stopped \/ UNCHANGED vars
  <2>1. TypeOK'
    BY <1>1, <1>2, <1>4 DEF StartRegistryListener, Listen, Lost, Reconnect, Stopped, vars,
       connection, TypeOK
  <2>2. ListenerInv'
    BY <1>1, <1>2, <1>4 DEF StartRegistryListener, Listen, Lost, Reconnect, Stopped, vars,
       connection, IInv, ListenerInv, TypeOK
  <2> QED
    BY <1>3, <2>1, <2>2 DEF IInv
<1>5. CASE ConnectFails \/ DropSession \/ StopRegistryListener
  <2>1. failures' \in 0 .. MaxFailures
    BY <1>1, <1>5, FailureType DEF ConnectFails, DropSession, StopRegistryListener, TypeOK
  <2>2. TypeOK'
    BY <1>1, <1>2, <1>5, <2>1 DEF ConnectFails, DropSession, StopRegistryListener, TypeOK
  <2>3. ListenerInv'
    BY <1>1, <1>2, <1>5 DEF ConnectFails, DropSession, StopRegistryListener, IInv, ListenerInv,
       TypeOK
  <2> QED
    BY <1>3, <2>2, <2>3 DEF IInv
<1> QED
  BY <1>4, <1>5

-----------------------------------------------------------------------------
LEMMA InitIInv == Init => IInv
<1> SUFFICES ASSUME Init PROVE IInv
  OBVIOUS
<1>1. NoLoad \in Load /\ NoLoad.pc = "idle" /\ NoLoad.mine = 0
  BY DEF NoLoad, Load
<1>2. TypeOK
  <2>1. load \in [Loaders -> Load] /\ load[Listener].pc = "idle"
    BY <1>1 DEF Init, Loaders
  <2>2. version \in 0 .. MaxChanges /\ failures \in 0 .. MaxFailures
    BY SyncAssumption DEF Init
  <2>3. view \in [rows : Nat, policies : Nat]
    BY DEF Init
  <2> QED
    BY <2>1, <2>2, <2>3 DEF Init, TypeOK
<1>3. LoadsInv
  BY <1>1 DEF Init, LoadsInv, Bounds, Ordered, LoadOK, Active
<1>4. ListenerInv
  BY DEF Init, ListenerInv
<1> QED
  BY <1>2, <1>3, <1>4 DEF IInv

LEMMA NextKeepsIInv == IInv /\ [Next]_vars => IInv'
<1>1. ASSUME IInv, NEW c \in Callers, CallerStep(c) PROVE IInv'
  BY <1>1, ReadKeeps, CallerKeeps DEF CallerStep, Loaders
<1>2. ASSUME IInv, LoopStep PROVE IInv'
  BY <1>2, ReadKeeps, ReloadedKeeps, RetryKeeps DEF LoopStep, Loaders
<1>3. ASSUME IInv, ConnectionStep PROVE IInv'
  BY <1>3, ConnectionKeeps, ConnectedKeeps, NotificationKeeps DEF ConnectionStep
<1>4. ASSUME IInv, NEW c \in Callers, Change(c) \/ CallerFails(c) PROVE IInv'
  BY <1>4, ChangeKeeps, CallerKeeps
<1>5. ASSUME IInv, \/ StartRegistryListener \/ StopRegistryListener \/ Stopped \/ Ended
                   \/ ConnectFails \/ DropSession \/ UNCHANGED vars
      PROVE  IInv'
  BY <1>5, ConnectionKeeps DEF Ended
<1> QED
  BY <1>1, <1>2, <1>3, <1>4, <1>5, CliChangeKeeps, ReloadFailsKeeps DEF Next

(* Every reachable state satisfies the inductive invariant. *)
THEOREM Inductive == Spec => []IInv
<1> QED
  BY InitIInv, NextKeepsIInv, PTL DEF Spec

(* Types, and that the loop is loading exactly while a load of it is. *)
THEOREM TypeCorrect == Spec => []TypeOK
<1>1. IInv => TypeOK
  BY DEF IInv
<1> QED
  BY <1>1, Inductive, PTL

(* However many loads overlap, and in whichever order they read and end,    *)
(* what an applied load was bound to see is never lost from the view.       *)
THEOREM ViewKeepsApplied == Spec => []AppliedStays
<1>1. IInv => AppliedStays
  BY DEF IInv, LoadsInv, Bounds, AppliedStays, Shows, TypeOK
<1> QED
  BY <1>1, Inductive, PTL

(* A change that an operator was told of is served by this process, also    *)
(* when the load made for it was passed over.                               *)
THEOREM AnswersAreServed == Spec => []AnsweredIsServed
<1>1. IInv => AnsweredIsServed
  BY DEF IInv, LoadsInv, Bounds, AnsweredIsServed, Shows, TypeOK
<1> QED
  BY <1>1, Inductive, PTL

(* While the listener is connected, a change that the view lacks is on its  *)
(* way to it.                                                               *)
THEOREM NoChangeMissed == Spec => []NothingMissed
<1>1. IInv => NothingMissed
  <2> SUFFICES ASSUME IInv, client = "up", session, ~Shows(version)
               PROVE  \/ note \/ reload = "sleeping"
                      \/ reload = "loading" /\ (reloadQueued \/ load[Listener].since = version)
    BY DEF NothingMissed
  <2>1. version \in Nat /\ floor \in Nat /\ view.rows \in Nat /\ view.policies \in Nat
    BY VersionNat DEF IInv, TypeOK
  <2>2. floor < version
    BY <2>1 DEF IInv, LoadsInv, Bounds, Shows
  <2> QED
    BY <2>2 DEF IInv, ListenerInv
<1> QED
  BY <1>1, Inductive, PTL

-----------------------------------------------------------------------------
(***************************************************************************)
(* The documents of a server (ServerMetadata).                             *)
(*                                                                         *)
(* What a handler has read under the lock is still the row when it stores, *)
(* unless it locked nothing; and what it has read is covered by what       *)
(* operators agreed to, even if the row is another one by now (CallOK).    *)
(***************************************************************************)

MetadataRow ==
  [inForce : Document, pending : Document \cup {None},
   enabled : BOOLEAN, expired : BOOLEAN, tried : BOOLEAN]

MetadataCall ==
  [pc : {"idle", "fetch", "create", "lock", "read", "store"},
   op : {"none", "approve", "refresh", "accept"},
   doc : Document \cup {None}, seen : Document \cup {None}, missed : BOOLEAN]

MetadataTypes ==
  /\ served \in Published
  /\ row \in MetadataRow \cup {None}
  /\ lock \in Workers \cup {None}
  /\ req \in [Workers -> MetadataCall]
  /\ shown \subseteq Document /\ agreed \subseteq Document

(* No scope of d is wider than in a document of the set. *)
CoveredBy(d, documents) ==
  \A s \in DOMAIN d : \E e \in documents :
    s \in DOMAIN e /\ e[s].flags \subseteq d[s].flags /\ e[s].description = d[s].description

CallOK(w) ==
  /\ req[w].pc \in {"create", "lock", "read", "store"} => req[w].doc \in Document
  /\ req[w].pc \in {"read", "store"} /\ ~req[w].missed => lock = w
  /\ req[w].pc = "store" =>
       /\ req[w].seen \in Document
       /\ req[w].op = "accept" => req[w].seen = req[w].doc
       /\ req[w].op # "accept" =>
            /\ CoveredBy(req[w].seen, agreed)
            /\ ~req[w].missed /\ row # None => row.inForce = req[w].seen

CallsOK == \A w \in Workers : CallOK(w)

MetadataInv == MetadataTypes /\ CallsOK /\ PendingWidens /\ InForceAgreed

-----------------------------------------------------------------------------
(* The comparison of two documents.                                        *)

LEMMA ParsedType == \A p \in Published : Parsed(p) \in Document
<1> SUFFICES ASSUME NEW p \in Published PROVE Parsed(p) \in Document
  OBVIOUS
<1>1. ASSUME NEW names \in SUBSET Scopes, NEW f \in [names -> Scope] PROVE f \in Document
  BY <1>1 DEF Document
<1>2. CASE p.declared
  <2>1. PICK names \in SUBSET Scopes : p.scopes \in [names -> Scope]
    BY MetadataAssumption DEF Document
  <2>2. ASSUME NEW s \in names PROVE [p.scopes[s] EXCEPT !.flags = Implied(@)] \in Scope
    BY <2>1 DEF Scope, Implied, Flags
  <2>3. Parsed(p) \in [names -> Scope]
    BY <1>2, <2>1, <2>2 DEF Parsed
  <2> QED
    BY <1>1, <2>3
<1>3. CASE ~p.declared
  <2>1. p.supported \in SUBSET Scopes
    BY MetadataAssumption
  <2>2. Parsed(p) \in [p.supported -> Scope]
    BY <1>3, <2>1 DEF Parsed, Scope
  <2> QED
    BY <1>1, <2>1, <2>2
<1> QED
  BY <1>2, <1>3

LEMMA DocumentIsFunction ==
  ASSUME NEW d \in Document
  PROVE  /\ DOMAIN d \subseteq Scopes
         /\ \A s \in DOMAIN d : d[s] \in Scope
BY DEF Document

LEMMA MergeType == \A a, c \in Document : Merge(a, c) \in Document
<1> SUFFICES ASSUME NEW a \in Document, NEW c \in Document PROVE Merge(a, c) \in Document
  OBVIOUS
<1>1. ASSUME NEW s \in DOMAIN a \cap DOMAIN c
      PROVE  [description |-> a[s].description, flags |-> a[s].flags \cup c[s].flags] \in Scope
  BY DocumentIsFunction DEF Scope
<1>2. Merge(a, c) \in [DOMAIN a \cap DOMAIN c -> Scope]
  BY <1>1 DEF Merge, MergeWith
<1>3. DOMAIN a \cap DOMAIN c \in SUBSET Scopes
  BY DocumentIsFunction
<1> QED
  BY <1>2, <1>3 DEF Document

(* Merging a wider document narrows what is in force at most, and leaves   *)
(* the wider one wider. *)
LEMMA MergeOnlyNarrows == \A a, c : ~Widens(a, Merge(a, c))
BY DEF Widens, Merge, MergeWith

LEMMA MergeLeavesWider == \A a, c : Widens(a, c) => Widens(Merge(a, c), c)
BY DEF Widens, Merge, MergeWith

LEMMA NotWiderThanItself == \A a : ~Widens(a, a)
BY DEF Widens

LEMMA NarrowerIsCovered ==
  ASSUME NEW a, NEW c, NEW documents, CoveredBy(a, documents), ~Widens(a, c)
  PROVE  CoveredBy(c, documents)
<1> SUFFICES ASSUME NEW s \in DOMAIN c
             PROVE  \E e \in documents : /\ s \in DOMAIN e /\ e[s].flags \subseteq c[s].flags
                                         /\ e[s].description = c[s].description
  BY DEF CoveredBy
<1>1. s \in DOMAIN a /\ a[s].flags \subseteq c[s].flags /\ a[s].description = c[s].description
  BY DEF Widens
<1> QED
  BY <1>1 DEF CoveredBy

LEMMA AgreedCovers ==
  /\ \A d, documents : d \in documents => CoveredBy(d, documents)
  /\ \A d, documents, more : CoveredBy(d, documents) /\ documents \subseteq more => CoveredBy(d, more)
BY DEF CoveredBy

LEMMA InForceIsCovered == InForceAgreed <=> (row # None => CoveredBy(row.inForce, agreed))
BY DEF InForceAgreed, CoveredBy

(* What a refresh stores, given what it read. *)
LEMMA RefreshedDocuments ==
  ASSUME row \in MetadataRow, NEW a \in Document, NEW c \in Document
  PROVE  /\ Refreshed(a, c) \in MetadataRow
         /\ ~Widens(a, Refreshed(a, c).inForce)
         /\ Refreshed(a, c).pending # None =>
              Widens(Refreshed(a, c).inForce, Refreshed(a, c).pending)
<1>1. CASE Widens(a, c)
  <2>1. /\ Refreshed(a, c) \in MetadataRow
        /\ Refreshed(a, c).inForce = Merge(a, c) /\ Refreshed(a, c).pending = c
    BY <1>1, MergeType DEF Refreshed, MetadataRow
  <2> QED
    BY <1>1, <2>1, MergeOnlyNarrows, MergeLeavesWider
<1>2. CASE ~Widens(a, c)
  <2>1. /\ Refreshed(a, c) \in MetadataRow
        /\ Refreshed(a, c).inForce = c /\ Refreshed(a, c).pending = None
    BY <1>2 DEF Refreshed, MetadataRow
  <2> QED
    BY <1>2, <2>1
<1> QED
  BY <1>1, <1>2

-----------------------------------------------------------------------------
(* The calls that a step does not move.                                    *)

(* Who holds no lock, or its own, changes the row for no one who holds it. *)
LEMMA OthersKeep ==
  ASSUME MetadataInv, NEW w \in Workers,
         \A v \in Workers \ {w} : req'[v] = req[v],
         lock' = lock \/ lock \in {None, w},
         agreed \subseteq agreed',
         \/ lock \in {None, w}
         \/ row' # None => row # None /\ row'.inForce = row.inForce
  PROVE  \A v \in Workers \ {w} : CallOK(v)'
<1> SUFFICES ASSUME NEW v \in Workers \ {w} PROVE CallOK(v)'
  OBVIOUS
<1>1. CallOK(v) /\ v # None /\ req'[v] = req[v]
  BY MetadataAssumption DEF MetadataInv, CallsOK
<1> QED
  BY <1>1, AgreedCovers DEF CallOK

(* Steps that move no call, and no document. *)
LEMMA Unmoved ==
  ASSUME MetadataInv, MetadataTypes',
         UNCHANGED << req, lock, agreed >>,
         row' # None => /\ row # None /\ row'.inForce = row.inForce
                        /\ row'.pending = row.pending
  PROVE  MetadataInv'
<1>1. CallsOK'
  BY AgreedCovers DEF MetadataInv, CallsOK, CallOK
<1>2. PendingWidens'
  BY DEF MetadataInv, PendingWidens
<1>3. InForceAgreed'
  BY DEF MetadataInv, InForceAgreed
<1> QED
  BY <1>1, <1>2, <1>3 DEF MetadataInv

(* Steps that move the call of w, and no document. *)
LEMMA Moved ==
  ASSUME MetadataInv, MetadataTypes', NEW w \in Workers, CallOK(w)',
         \A v \in Workers \ {w} : req'[v] = req[v],
         lock' = lock \/ lock \in {None, w},
         UNCHANGED agreed,
         row' # None => /\ row # None /\ row'.inForce = row.inForce
                        /\ row'.pending = row.pending
  PROVE  MetadataInv'
<1>1. CallsOK'
  BY OthersKeep DEF CallsOK
<1>2. PendingWidens'
  BY DEF MetadataInv, PendingWidens
<1>3. InForceAgreed'
  BY DEF MetadataInv, InForceAgreed
<1> QED
  BY <1>1, <1>2, <1>3 DEF MetadataInv

LEMMA EndEffect ==
  ASSUME MetadataTypes, NEW w \in Workers, End(w)
  PROVE  /\ req' \in [Workers -> MetadataCall] /\ lock' \in Workers \cup {None}
         /\ CallOK(w)' /\ \A v \in Workers \ {w} : req'[v] = req[v]
         /\ lock' = lock \/ lock = w
BY DEF MetadataTypes, End, NoRequest, MetadataCall, CallOK

LEMMA BeginEffect ==
  ASSUME MetadataInv, NEW w \in Workers,
         NEW op \in {"approve", "refresh", "accept"}, NEW pc \in {"fetch", "lock"},
         NEW doc \in Document \cup {None}, pc = "lock" => doc \in Document,
         Begin(w, op, pc, doc)
  PROVE  MetadataInv'
<1>1. req'[w] = [pc |-> pc, op |-> op, doc |-> doc, seen |-> None, missed |-> FALSE]
  BY DEF Begin, NoRequest, MetadataInv, MetadataTypes
<1>2. req'[w] \in MetadataCall
  BY <1>1 DEF MetadataCall
<1>3. MetadataTypes' /\ \A v \in Workers \ {w} : req'[v] = req[v]
  BY <1>2 DEF Begin, MetadataInv, MetadataTypes
<1>4. CallOK(w)'
  BY <1>1 DEF CallOK
<1> QED
  BY <1>3, <1>4, Moved DEF Begin

LEMMA FetchedKeeps ==
  ASSUME MetadataInv, NEW w \in Workers, Fetched(w)
  PROVE  MetadataInv'
<1>1. req[w] \in MetadataCall /\ Parsed(served) \in Document
  BY ParsedType DEF MetadataInv, MetadataTypes
<1>2. /\ req'[w] \in MetadataCall /\ req'[w].pc \in {"create", "lock"}
      /\ req'[w].doc \in Document
  BY <1>1 DEF Fetched, MetadataInv, MetadataTypes, MetadataCall
<1>3. MetadataTypes' /\ \A v \in Workers \ {w} : req'[v] = req[v]
  BY <1>2 DEF Fetched, MetadataInv, MetadataTypes
<1>4. CallOK(w)'
  BY <1>2 DEF CallOK
<1> QED
  BY <1>3, <1>4, Moved DEF Fetched

LEMMA NotFetchedKeeps ==
  ASSUME MetadataInv, NEW w \in Workers, NotFetched(w)
  PROVE  MetadataInv'
<1>1. /\ row' \in MetadataRow \cup {None}
      /\ row' # None => /\ row # None /\ row'.inForce = row.inForce
                        /\ row'.pending = row.pending
  BY DEF NotFetched, MetadataInv, MetadataTypes, MetadataRow
<1>2. End(w) /\ UNCHANGED << served, shown, agreed >>
  BY DEF NotFetched
<1>3. MetadataTypes'
  BY <1>1, <1>2, EndEffect DEF MetadataInv, MetadataTypes
<1> QED
  BY <1>1, <1>2, <1>3, EndEffect, Moved DEF MetadataInv

LEMMA FailsKeeps ==
  ASSUME MetadataInv, NEW w \in Workers, Fails(w)
  PROVE  MetadataInv'
<1>1. End(w) /\ UNCHANGED << served, row, shown, agreed >>
  BY DEF Fails
<1>2. MetadataTypes'
  BY <1>1, EndEffect DEF MetadataInv, MetadataTypes
<1> QED
  BY <1>1, <1>2, EndEffect, Moved DEF MetadataInv

LEMMA LockKeeps ==
  ASSUME MetadataInv, NEW w \in Workers, Lock(w)
  PROVE  MetadataInv'
<1>1. req[w] \in MetadataCall /\ req[w].pc = "lock" /\ lock = None /\ UNCHANGED << row, agreed >>
  BY DEF Lock, LockIf, MetadataInv, MetadataTypes
<1>2. /\ req'[w] \in MetadataCall /\ req'[w].pc = "read" /\ req'[w].doc = req[w].doc
      /\ req'[w].missed = (row = None)
      /\ lock' = IF row # None THEN w ELSE None
  BY <1>1 DEF Lock, LockIf, MetadataInv, MetadataTypes, MetadataCall
<1>3. MetadataTypes' /\ \A v \in Workers \ {w} : req'[v] = req[v]
  BY <1>2 DEF Lock, LockIf, MetadataInv, MetadataTypes
<1>4. CallOK(w)'
  BY <1>1, <1>2 DEF CallOK, MetadataInv, CallsOK
<1> QED
  BY <1>1, <1>3, <1>4, Moved

LEMMA ReadKeepsDocuments ==
  ASSUME MetadataInv, NEW w \in Workers, Read(w)
  PROVE  MetadataInv'
<1>1. /\ req[w] \in MetadataCall /\ req[w].pc = "read" /\ req[w].doc \in Document
      /\ ~req[w].missed => lock = w
      /\ UNCHANGED << served, row, shown, agreed >>
  BY DEF Read, ReadIf, MetadataInv, MetadataTypes, CallsOK, CallOK
<1>2. CASE row # None /\ (req[w].op = "refresh" \/ AsShown(w))
  <2>1. row \in MetadataRow
    BY <1>2 DEF MetadataInv, MetadataTypes
  <2>2. /\ req' = [req EXCEPT ![w] = [@ EXCEPT !.pc = "store",
                       !.seen = IF req[w].op = "accept" THEN row.pending ELSE row.inForce]]
        /\ UNCHANGED lock
    BY <1>2 DEF Read, ReadIf
  <2>3. /\ req'[w] \in MetadataCall /\ req'[w].pc = "store"
        /\ req'[w].doc = req[w].doc /\ req'[w].op = req[w].op /\ req'[w].missed = req[w].missed
        /\ req'[w].seen = IF req[w].op = "accept" THEN row.pending ELSE row.inForce
        /\ \A v \in Workers \ {w} : req'[v] = req[v]
    BY <1>1, <2>1, <2>2 DEF MetadataInv, MetadataTypes, MetadataCall, MetadataRow
  <2>4. MetadataTypes'
    BY <1>1, <2>2, <2>3 DEF MetadataInv, MetadataTypes
  <2>5. req[w].op = "accept" => row.pending = req[w].doc
    BY <1>2 DEF AsShown
  <2>6. row.inForce \in Document /\ CoveredBy(row.inForce, agreed)
    BY <1>2, <2>1, InForceIsCovered DEF MetadataInv, MetadataRow
  <2>7. CallOK(w)'
    BY <1>1, <2>2, <2>3, <2>5, <2>6 DEF CallOK
  <2> QED
    BY <1>1, <2>2, <2>3, <2>4, <2>7, Moved
<1>3. CASE ~(row # None /\ (req[w].op = "refresh" \/ AsShown(w)))
  <2>1. End(w)
    BY <1>3 DEF Read, ReadIf
  <2>2. MetadataTypes'
    BY <1>1, <2>1, EndEffect DEF MetadataInv, MetadataTypes
  <2> QED
    BY <1>1, <2>1, <2>2, EndEffect, Moved DEF MetadataInv
<1> QED
  BY <1>2, <1>3

(* The approval, and what a refresh or an accept stores. *)
LEMMA CreateKeeps ==
  ASSUME MetadataInv, NEW w \in Workers, Create(w)
  PROVE  MetadataInv'
<1>1. End(w) /\ lock = None /\ UNCHANGED << served, shown >> /\ req[w].doc \in Document
  BY DEF Create, MetadataInv, CallsOK, CallOK
<1>2. \/ UNCHANGED << row, agreed >>
      \/ row' = Row(req[w].doc) /\ agreed' = agreed \cup {req[w].doc}
  BY DEF Create
<1>3. /\ Row(req[w].doc) \in MetadataRow
      /\ Row(req[w].doc).inForce = req[w].doc /\ Row(req[w].doc).pending = None
  BY <1>1 DEF Row, MetadataRow
<1>4. MetadataTypes'
  BY <1>1, <1>2, <1>3, EndEffect DEF MetadataInv, MetadataTypes
<1>5. CallsOK'
  BY <1>1, <1>2, EndEffect, OthersKeep DEF CallsOK, MetadataInv
<1>6. PendingWidens'
  BY <1>2, <1>3 DEF MetadataInv, PendingWidens
<1>7. InForceAgreed'
  <2>1. row' # None => CoveredBy(row'.inForce, agreed')
    BY <1>2, <1>3, InForceIsCovered, AgreedCovers DEF MetadataInv
  <2> QED
    BY <2>1 DEF InForceAgreed, CoveredBy
<1> QED
  BY <1>4, <1>5, <1>6, <1>7 DEF MetadataInv

LEMMA StoreKeeps ==
  ASSUME MetadataInv, NEW w \in Workers, Store(w)
  PROVE  MetadataInv'
<1>1. /\ End(w) /\ lock \in {None, w} /\ UNCHANGED << served, shown >>
      /\ req[w].doc \in Document /\ req[w].seen \in Document /\ req[w].pc = "store"
      /\ agreed \subseteq agreed' /\ agreed' \subseteq Document
  BY DEF Store, Free, MetadataInv, MetadataTypes, CallsOK, CallOK
<1>2. CASE row = None
  <2>1. row' = None
    BY <1>2 DEF Store
  <2>2. MetadataTypes'
    BY <1>1, <2>1, EndEffect DEF MetadataInv, MetadataTypes
  <2>3. CallsOK'
    BY <1>1, EndEffect, OthersKeep DEF CallsOK, MetadataInv
  <2> QED
    BY <2>1, <2>2, <2>3 DEF MetadataInv, PendingWidens, InForceAgreed
<1>3. CASE row # None
  <2>1. row \in MetadataRow
    BY <1>3 DEF MetadataInv, MetadataTypes
  <2>2. /\ row' \in MetadataRow /\ CoveredBy(row'.inForce, agreed')
        /\ row'.pending # None => Widens(row'.inForce, row'.pending)
    <3>1. CASE req[w].op = "accept"
      <4>1. row' = Accepted(req[w].seen) /\ req[w].seen = req[w].doc /\ req[w].doc \in agreed'
        BY <1>1, <1>3, <3>1 DEF Store, MetadataInv, CallsOK, CallOK
      <4>2. row' \in MetadataRow /\ row'.inForce = req[w].doc /\ row'.pending = None
        BY <1>1, <2>1, <4>1 DEF Accepted, MetadataRow
      <4> QED
        BY <4>1, <4>2, AgreedCovers
    <3>2. CASE req[w].op # "accept"
      <4>1. row' = Refreshed(req[w].seen, req[w].doc) /\ CoveredBy(req[w].seen, agreed)
        BY <1>1, <1>3, <3>2 DEF Store, MetadataInv, CallsOK, CallOK
      <4>2. /\ row' \in MetadataRow /\ ~Widens(req[w].seen, row'.inForce)
            /\ row'.pending # None => Widens(row'.inForce, row'.pending)
        BY <1>1, <2>1, <4>1, RefreshedDocuments
      <4>3. CoveredBy(row'.inForce, agreed)
        BY <4>1, <4>2, NarrowerIsCovered
      <4> QED
        BY <1>1, <4>2, <4>3, AgreedCovers
    <3> QED
      BY <3>1, <3>2
  <2>3. MetadataTypes'
    BY <1>1, <2>2, EndEffect DEF MetadataInv, MetadataTypes
  <2>4. CallsOK'
    BY <1>1, EndEffect, OthersKeep DEF CallsOK, MetadataInv
  <2>5. PendingWidens' /\ InForceAgreed'
    BY <2>2 DEF PendingWidens, InForceAgreed, CoveredBy
  <2> QED
    BY <2>3, <2>4, <2>5 DEF MetadataInv
<1> QED
  BY <1>2, <1>3

LEMMA MetadataInitially == MetadataInit => MetadataInv
<1> SUFFICES ASSUME MetadataInit PROVE MetadataInv
  OBVIOUS
<1>1. MetadataTypes
  BY DEF MetadataInit, MetadataTypes, NoRequest, MetadataCall
<1>2. CallsOK
  BY DEF MetadataInit, CallsOK, CallOK, NoRequest
<1> QED
  BY <1>1, <1>2 DEF MetadataInit, MetadataInv, PendingWidens, InForceAgreed

LEMMA BeginsKeep ==
  ASSUME MetadataInv, NEW w \in Workers,
         BeginApprove(w) \/ BeginRefresh(w) \/ BeginAccept(w) \/ (w = Job /\ RefreshDue)
  PROVE  MetadataInv'
<1>1. \/ Begin(w, "approve", "fetch", None) \/ Begin(w, "refresh", "fetch", None)
      \/ \E d \in Document : Begin(w, "accept", "lock", d)
  BY DEF BeginApprove, BeginRefresh, BeginAccept, RefreshDue, MetadataInv, MetadataTypes
<1> QED
  BY <1>1, BeginEffect

(* Steps of the world, which move no call. *)
LEMMA WorldKeeps ==
  ASSUME MetadataInv,
         Show \/ Remove \/ SetEnabled \/ Publish \/ Expire \/ MinutePasses
  PROVE  MetadataInv'
<1>1. CASE Show
  <2>1. row.pending \in Document /\ shown' = shown \cup {row.pending}
    BY <1>1 DEF Show, MetadataInv, MetadataTypes, MetadataRow
  <2> QED
    BY <1>1, <2>1, Unmoved DEF Show, MetadataInv, MetadataTypes
<1>2. CASE Remove \/ Publish
  BY <1>2, Unmoved DEF Remove, Publish, MetadataInv, MetadataTypes
<1>3. CASE SetEnabled \/ Expire \/ MinutePasses
  <2>1. /\ row \in MetadataRow /\ UNCHANGED << served, lock, req, shown, agreed >>
        /\ \/ row' = [row EXCEPT !.enabled = ~@] \/ row' = [row EXCEPT !.expired = TRUE]
           \/ row' = [row EXCEPT !.tried = FALSE]
    BY <1>3 DEF SetEnabled, Expire, MinutePasses, MetadataInv, MetadataTypes
  <2>2. row' \in MetadataRow /\ row'.inForce = row.inForce /\ row'.pending = row.pending
    BY <2>1 DEF MetadataRow
  <2>3. row # None
    BY <1>3 DEF SetEnabled, Expire, MinutePasses
  <2>4. MetadataTypes'
    BY <2>1, <2>2 DEF MetadataInv, MetadataTypes
  <2> QED
    BY <2>1, <2>2, <2>3, <2>4, Unmoved
<1> QED
  BY <1>1, <1>2, <1>3

LEMMA MetadataStepKeeps == MetadataInv /\ [MetadataNext]_metadataVars => MetadataInv'
<1> SUFFICES ASSUME MetadataInv, [MetadataNext]_metadataVars PROVE MetadataInv'
  OBVIOUS
<1>1. ASSUME NEW w \in Workers, Step(w) \/ Lock(w) \/ FetchFails(w) \/ Fails(w)
      PROVE  MetadataInv'
  BY <1>1, FetchedKeeps, NotFetchedKeeps, CreateKeeps, ReadKeepsDocuments, StoreKeeps,
     LockKeeps, FailsKeeps
     DEF Step, FetchRejected, FetchFails
<1>2. ASSUME NEW w \in Operators, BeginApprove(w) \/ BeginRefresh(w) \/ BeginAccept(w)
      PROVE  MetadataInv'
  BY <1>2, BeginsKeep DEF Workers
<1>3. CASE RefreshDue
  BY <1>3, BeginsKeep DEF Workers
<1>4. CASE Show \/ Remove \/ SetEnabled \/ Publish \/ Expire \/ MinutePasses
  BY <1>4, WorldKeeps
<1>5. CASE UNCHANGED metadataVars
  BY <1>5, Unmoved DEF metadataVars, MetadataInv, MetadataTypes
<1> QED
  BY <1>1, <1>2, <1>3, <1>4, <1>5 DEF MetadataNext

(* The inductive invariant. *)
THEOREM MetadataInductive == MetadataSpec => []MetadataInv
BY MetadataInitially, MetadataStepKeeps, PTL DEF MetadataSpec

(* Every document in the row, in a call, shown or agreed to is one.        *)
THEOREM MetadataTypeCorrect == MetadataSpec => []MetadataTypes
<1>1. MetadataInv => MetadataTypes
  BY DEF MetadataInv
<1> QED
  BY <1>1, MetadataInductive, PTL

(* What waits is wider than what is in force, whatever the handlers that   *)
(* merge and accept do at once (service.ts:423-436, 471-478). *)
THEOREM WhatWaitsIsWider == MetadataSpec => []PendingWidens
<1>1. MetadataInv => PendingWidens
  BY DEF MetadataInv
<1> QED
  BY <1>1, MetadataInductive, PTL

(* Nothing in force is wider than what an operator agreed to, for any      *)
(* documents, operators and removals (metadata-changes.ts:1-4). *)
THEOREM NothingUnagreed == MetadataSpec => []InForceAgreed
<1>1. MetadataInv => InForceAgreed
  BY DEF MetadataInv
<1> QED
  BY <1>1, MetadataInductive, PTL

-----------------------------------------------------------------------------
(* Who widens.                                                             *)

Widening == row # None /\ row' # None /\ Widens(row.inForce, row'.inForce)

Excused(w) == req[w].pc = "store" /\ (req[w].op = "accept" \/ req[w].missed)

LEMMA SameIsNotWidening ==
  ASSUME row' # None => row # None /\ row'.inForce = row.inForce
  PROVE  ~Widening
BY NotWiderThanItself DEF Widening

LEMMA StoreWidens ==
  ASSUME MetadataInv, NEW w \in Workers, Store(w), Widening
  PROVE  Excused(w)
<1> SUFFICES ASSUME ~Excused(w) PROVE FALSE
  OBVIOUS
<1>1. /\ req[w].pc = "store" /\ req[w].op # "accept" /\ ~req[w].missed
      /\ req[w].seen \in Document /\ req[w].doc \in Document
      /\ row # None /\ row.inForce = req[w].seen
  BY DEF Excused, Store, Widening, MetadataInv, CallsOK, CallOK
<1>2. row \in MetadataRow /\ row' = Refreshed(req[w].seen, req[w].doc)
  BY <1>1 DEF Store, MetadataInv, MetadataTypes
<1> QED
  BY <1>1, <1>2, RefreshedDocuments DEF Widening

LEMMA OthersDoNotWiden ==
  ASSUME MetadataInv, [MetadataNext]_metadataVars, ~\E w \in Workers : Store(w)
  PROVE  ~Widening
<1>1. ASSUME NEW w \in Workers,
             Fetched(w) \/ Read(w) \/ Lock(w) \/ Fails(w) \/ Publish \/ Show \/ RefreshDue
               \/ BeginApprove(w) \/ BeginRefresh(w) \/ BeginAccept(w) \/ UNCHANGED metadataVars
      PROVE  ~Widening
  <2>1. UNCHANGED row
    BY <1>1 DEF Fetched, Read, ReadIf, Lock, LockIf, Fails, Publish, Show, RefreshDue,
                BeginApprove, BeginRefresh, BeginAccept, Begin, metadataVars
  <2> QED
    BY <2>1, SameIsNotWidening DEF Widening
<1>2. ASSUME NEW w \in Workers, Create(w) PROVE ~Widening
  <2>1. row = None \/ row' = row
    BY <1>2 DEF Create
  <2> QED
    BY <2>1, SameIsNotWidening DEF Widening
<1>3. ASSUME NEW w \in Workers, NotFetched(w) PROVE ~Widening
  <2>1. row' # None => row # None /\ row'.inForce = row.inForce
    BY <1>3 DEF NotFetched, MetadataInv, MetadataTypes, MetadataRow
  <2> QED
    BY <2>1, SameIsNotWidening
<1>4. CASE Remove \/ SetEnabled \/ Expire \/ MinutePasses
  <2>1. row' # None => row # None /\ row'.inForce = row.inForce
    BY <1>4 DEF Remove, SetEnabled, Expire, MinutePasses, MetadataInv, MetadataTypes, MetadataRow
  <2> QED
    BY <2>1, SameIsNotWidening
<1>5. Job \in Workers /\ Operators \subseteq Workers
  BY DEF Workers
<1> QED
  BY <1>1, <1>2, <1>3, <1>4, <1>5
     DEF MetadataNext, Step, FetchRejected, FetchFails

(* No step widens what is in force but an accept, and the refresh of a     *)
(* server whose row was away when it came to lock it (service.ts:416-436).  *)
THEOREM OnlyOperatorsWiden == MetadataSpec => OnlyAcceptWidens
<1>1. MetadataInv /\ [MetadataNext]_metadataVars =>
        [Widening => \E w \in Workers : Excused(w)]_metadataVars
  BY StoreWidens, OthersDoNotWiden
<1>2. [Widening => \E w \in Workers : Excused(w)]_metadataVars =>
        [(row # None /\ row' # None /\ Widens(row.inForce, row'.inForce)) =>
          \E w \in Workers :
            req[w].pc = "store" /\ (req[w].op = "accept" \/ req[w].missed)]_metadataVars
  BY DEF Widening, Excused
<1> QED
  BY <1>1, <1>2, MetadataInductive, PTL DEF MetadataSpec, OnlyAcceptWidens
=============================================================================
