--------------------------- MODULE AgentFleetProofs ---------------------------
(***************************************************************************)
(* Proofs about AgentFleet, for any set of callers, any limits, any number *)
(* of launches and of member objects, and any number of placements and     *)
(* disturbances.                                                           *)
(*                                                                         *)
(* Every step moves one caller, and does one of four things to the leases: *)
(* nothing, takes one, gives the caller's one back, or leaves it behind    *)
(* (LedgerStep).  That these keep the accounts needs to know where a       *)
(* caller has a lease at all (CallOK).  One reservation per member object  *)
(* (BoundOK) gives one per VM because a VM has one object until a refresh  *)
(* takes it in (MadeOK), which in turn needs that the VM a caller is       *)
(* launching is no other caller's (Owners).  Growth counts the callers     *)
(* that are launching, for a growth or for a replacement (Counted).        *)
(***************************************************************************)
EXTENDS AgentFleet, FiniteSetTheorems, WellFoundedInduction, TLAPS

Pcs == {"idle", "placing", "probing", "pinging", "growing", "leased", "running", "noting",
        "listing", "listed", "terminating", "filling", "checking"}
Holding == {"probing", "pinging", "leased", "running"}
Thens == {"none", "place", "error", "route", "status", "reconcile", "stop"}
MaybeVm == Launches \union {0}
MaybeObject == Objects \union {NoObject}
HostType == [open : BOOLEAN, health : {"unknown", "healthy", "busy", "unavailable"},
             pinged : BOOLEAN, failed : Nat]
CallType == [pc : Pcs, own : BOOLEAN, target : MaybeVm, obj : MaybeObject, reserved : BOOLEAN,
             vm : MaybeVm, listing : SUBSET Launches, subject : MaybeObject,
             todo : SUBSET Objects, left : Nat, then : Thens]
SettingsType == [open : BOOLEAN, project : BOOLEAN, dedicated : BOOLEAN, minVms : Nat, maxVms : Nat]
Marks == Callers \X {"reserved", "session"}

Typed ==
    /\ settings \in SettingsType
    /\ vm \in [Launches -> {"absent", "booting", "up", "gone"}]
    /\ made \in [Launches -> Nat]
    /\ members \subseteq Objects
    /\ growing \in Nat /\ replaced \in Nat
    /\ sessions \in [Callers -> MaybeVm]
    /\ inflight \in [Objects -> Nat] /\ leaked \in [Objects -> Nat]
    /\ bound \in [Objects -> SUBSET Marks]
    /\ host \in [Objects -> HostType]
    /\ call \in [Callers -> CallType]
    /\ adopted \subseteq Launches

(* Where a caller has a lease, a VM that starts, or a member to end.       *)
CallOK(c) ==
    /\ call[c].pc \in Holding => call[c].obj \in Objects
    /\ (call[c].pc \in {"terminating", "filling"} /\ call[c].then = "place") => call[c].obj \in Objects
    /\ call[c].obj # NoObject =>
          \/ call[c].pc \in Holding
          \/ call[c].pc \in {"terminating", "filling"} /\ call[c].then \in {"place", "error"}
    /\ call[c].obj = NoObject => ~call[c].reserved
    /\ call[c].vm # 0 => call[c].pc \in {"growing", "filling"} /\ vm[call[c].vm] # "absent"
    /\ (call[c].pc = "filling" /\ call[c].vm # 0) => call[c].left > 0
    /\ call[c].pc \in {"noting", "terminating"} => call[c].subject \in Objects
    /\ ~settings.open => call[c] = Idle
CallsOK == \A c \in Callers : CallOK(c)

(* The leases, and at most one mark on a member object.                    *)
Accounts ==
    \A o \in Objects :
        /\ inflight[o] = Cardinality(Holders(o)) + leaked[o]
        /\ \A c \in Callers : (call[c].obj = o /\ call[c].reserved) => Reservation(c) \in bound[o]
        /\ leaked[o] = 0 => \A c \in Callers :
              Reservation(c) \in bound[o] => call[c].obj = o /\ call[c].reserved
BoundOK == \A o \in Objects : \A x, y \in bound[o] : x = y

(* The objects that are in use were made, one for each VM that no refresh  *)
(* took in; none is in use before the fleet is open.                       *)
IsMade(o) == o[2] <= made[o[1]]
MadeOK ==
    /\ \A o \in members : IsMade(o)
    /\ \A o \in Objects : bound[o] # {} => IsMade(o)
    /\ \A c \in Callers : call[c].obj # NoObject => IsMade(call[c].obj)
    /\ \A v \in Launches : v \notin adopted =>
          made[v] <= 1 /\ (vm[v] = "absent" => made[v] = 0)
    /\ ~settings.open => \A o \in Objects : bound[o] = {}
Owners ==
    /\ \A c, d \in Callers : (c # d /\ call[c].vm = call[d].vm) => call[c].vm = 0
    /\ \A c \in Callers : (call[c].vm # 0 /\ call[c].vm \notin adopted) => made[call[c].vm] = 0

Growers == {c \in Callers : call[c].pc = "growing"}
Fillers == {c \in Callers : call[c].pc = "filling" /\ call[c].vm # 0}
Counted ==
    /\ growing = Cardinality(Growers)
    /\ Cardinality(Fillers) <= replaced
    /\ adopted = {} =>
          Cardinality(members) + growing + Cardinality(Fillers) <= settings.maxVms + replaced

FleetInv ==
    /\ Typed
    /\ CallsOK
    /\ Accounts
    /\ BoundOK
    /\ MadeOK
    /\ Owners
    /\ Counted
    /\ LostNeverListed

-----------------------------------------------------------------------------
(* The object identities.                                                  *)
LEMMA ObjectParts ==
    /\ \A o \in Objects : o[1] \in Launches /\ o[2] \in 1..MaxObjects /\ o = <<o[1], o[2]>>
    /\ NoObject \notin Objects
    /\ 0 \notin Launches
    /\ \A v \in Launches, g \in 1..MaxObjects : <<v, g>> \in Objects
BY FleetAssumption DEF Objects, NoObject, Launches

LEMMA FiniteObjects == \A S \in SUBSET Objects : IsFiniteSet(S)
<1>1. IsFiniteSet(Launches) /\ IsFiniteSet(1..MaxObjects)
  BY FS_Interval, FleetAssumption DEF Launches
<1>2. IsFiniteSet(Objects)
  BY <1>1, FS_Product DEF Objects
<1>. QED
  BY <1>2, FS_Subset

(* What one caller does to a set of callers.                               *)
LEMMA CardStep ==
    \A S, T \in SUBSET Callers, c \in Callers :
        (\A d \in Callers : d # c => (d \in S <=> d \in T)) =>
            /\ Cardinality(S) \in Nat /\ Cardinality(T) \in Nat
            /\ (c \in S <=> c \in T) => Cardinality(T) = Cardinality(S)
            /\ (c \notin S /\ c \in T) => Cardinality(T) = Cardinality(S) + 1
            /\ (c \in S /\ c \notin T) => Cardinality(T) = Cardinality(S) - 1
<1>. SUFFICES ASSUME NEW S \in SUBSET Callers, NEW T \in SUBSET Callers, NEW c \in Callers,
                     \A d \in Callers : d # c => (d \in S <=> d \in T)
              PROVE  /\ Cardinality(S) \in Nat /\ Cardinality(T) \in Nat
                     /\ (c \in S <=> c \in T) => Cardinality(T) = Cardinality(S)
                     /\ (c \notin S /\ c \in T) => Cardinality(T) = Cardinality(S) + 1
                     /\ (c \in S /\ c \notin T) => Cardinality(T) = Cardinality(S) - 1
  OBVIOUS
<1>1. IsFiniteSet(S) /\ IsFiniteSet(T)
  BY FS_Subset, FleetAssumption
<1>2. Cardinality(S) \in Nat /\ Cardinality(T) \in Nat
  BY <1>1, FS_CardinalityType
<1>3. (c \in S <=> c \in T) => T = S
  OBVIOUS
<1>4. ASSUME c \notin S, c \in T PROVE Cardinality(T) = Cardinality(S) + 1
  <2>1. T = S \union {c}
    BY <1>4
  <2>. QED
    BY <1>1, <1>4, <2>1, FS_AddElement
<1>5. ASSUME c \in S, c \notin T PROVE Cardinality(T) = Cardinality(S) - 1
  <2>1. T = S \ {c}
    BY <1>5
  <2>. QED
    BY <1>1, <1>5, <2>1, FS_RemoveElement
<1>. QED
  BY <1>2, <1>3, <1>4, <1>5

-----------------------------------------------------------------------------
LEMMA FleetInitInv == FleetInit => FleetInv
<1>. SUFFICES ASSUME FleetInit PROVE FleetInv
  OBVIOUS
<1>1. Typed
  BY FleetAssumption DEF FleetInit, Typed, SettingsType, HostType, CallType, newMember, Idle, MaybeVm,
     MaybeObject, Pcs, Thens
<1>2. CallsOK
  BY DEF FleetInit, CallsOK, CallOK, Idle, Holding
<1>3. Accounts
  <2>1. \A o \in Objects : Holders(o) = {}
    BY ObjectParts DEF FleetInit, Holders, Idle
  <2>2. \A o \in Objects, c \in Callers : call[c].obj # o
    BY ObjectParts DEF FleetInit, Idle
  <2>3. \A o \in Objects : inflight[o] = 0 /\ leaked[o] = 0 /\ bound[o] = {}
    BY DEF FleetInit
  <2>. QED
    BY <2>1, <2>2, <2>3, FS_EmptySet DEF Accounts
<1>4. BoundOK /\ MadeOK /\ Owners
  BY DEF FleetInit, BoundOK, MadeOK, Owners, Idle
<1>5. Counted
  <2>1. Growers = {} /\ Fillers = {}
    BY DEF FleetInit, Growers, Fillers, Idle
  <2>. QED
    BY <2>1, FS_EmptySet DEF FleetInit, Counted
<1>6. LostNeverListed
  BY DEF FleetInit, LostNeverListed
<1>. QED
  BY <1>1, <1>2, <1>3, <1>4, <1>5, <1>6 DEF FleetInv

-----------------------------------------------------------------------------
(* The records of a call.                                                  *)
LEMMA CallFields ==
    \A r \in CallType :
        /\ r.pc \in Pcs /\ r.own \in BOOLEAN /\ r.target \in MaybeVm /\ r.obj \in MaybeObject
        /\ r.reserved \in BOOLEAN /\ r.vm \in MaybeVm /\ r.listing \subseteq Launches
        /\ r.subject \in MaybeObject /\ r.todo \subseteq Objects /\ r.left \in Nat /\ r.then \in Thens
BY DEF CallType

LEMMA IdleFields ==
    /\ Idle \in CallType
    /\ Idle.pc = "idle" /\ Idle.obj = NoObject /\ Idle.reserved = FALSE /\ Idle.vm = 0 /\ Idle.left = 0
BY DEF Idle, CallType, Pcs, Thens, MaybeVm, MaybeObject

LEMMA AnewFields ==
    ASSUME Typed, NEW c \in Callers
    PROVE  /\ Anew(c) \in CallType
           /\ Anew(c).pc = "placing" /\ Anew(c).obj = NoObject /\ Anew(c).reserved = FALSE
           /\ Anew(c).vm = 0 /\ Anew(c).then = "none"
           /\ \A o \in Objects, b \in BOOLEAN :
                /\ Leased(c, o, b) \in CallType
                /\ Leased(c, o, b).pc = "leased" /\ Leased(c, o, b).obj = o
                /\ Leased(c, o, b).reserved = b /\ Leased(c, o, b).vm = 0
<1>1. call[c] \in CallType
  BY DEF Typed
<1>2. call[c].own \in BOOLEAN /\ call[c].target \in MaybeVm
  BY <1>1, CallFields
<1>. QED
  BY <1>2 DEF Anew, Leased, Idle, CallType, Pcs, Thens, MaybeVm, MaybeObject

LEMMA TerminatingFields ==
    ASSUME NEW r \in CallType, NEW o \in Objects, NEW then \in Thens
    PROVE  /\ Terminating(r, o, then) \in CallType
           /\ Terminating(r, o, then).pc = "terminating" /\ Terminating(r, o, then).subject = o
           /\ Terminating(r, o, then).obj = r.obj /\ Terminating(r, o, then).reserved = r.reserved
           /\ Terminating(r, o, then).vm = r.vm /\ Terminating(r, o, then).then = then
BY DEF Terminating, CallType, Pcs, MaybeObject

LEMMA Needed ==
    ASSUME Typed, NEW kept \in SUBSET Objects
    PROVE  replacementsNeeded(kept) \in Nat
<1>1. Cardinality(kept) \in Nat
  BY FiniteObjects, FS_CardinalityType
<1>2. settings.minVms \in Nat
  BY DEF Typed, SettingsType
<1>. QED
  BY <1>1, <1>2 DEF replacementsNeeded

LEMMA FillingFields ==
    ASSUME Typed, NEW kept \in SUBSET Objects, NEW r \in CallType
    PROVE  /\ Filling(r, kept) \in CallType
           /\ Filling(r, kept).pc = "filling" /\ Filling(r, kept).obj = r.obj
           /\ Filling(r, kept).reserved = r.reserved /\ Filling(r, kept).vm = r.vm
           /\ Filling(r, kept).then = r.then
BY Needed DEF Filling, CallType, Pcs, MaybeObject

LEMMA BecomesFacts ==
    ASSUME Typed, NEW c \in Callers, NEW r \in CallType, Becomes(c, r)
    PROVE  /\ call' \in [Callers -> CallType]
           /\ call'[c] = r
           /\ \A d \in Callers : d # c => call'[d] = call[d]
BY DEF Typed, Becomes

-----------------------------------------------------------------------------
(* What a step of one caller may do to the leases.                         *)
Moves(c) == call' \in [Callers -> CallType] /\ \A d \in Callers : d # c => call'[d] = call[d]
Keeps(c) ==
    /\ call'[c].obj = call[c].obj /\ call'[c].reserved = call[c].reserved
    /\ inflight' = inflight /\ bound' = bound /\ leaked' = leaked
Takes(c, o) ==
    /\ o \in Objects /\ call[c].obj = NoObject /\ call'[c].obj = o
    /\ inflight' = [inflight EXCEPT ![o] = @ + 1] /\ leaked' = leaked
    /\ IF call'[c].reserved
       THEN bound[o] = {} /\ bound' = [bound EXCEPT ![o] = @ \union {Reservation(c)}]
       ELSE bound' = bound
Gives(c) ==
    /\ call[c].obj \in Objects /\ call'[c].obj = NoObject /\ call'[c].reserved = FALSE
    /\ \E keep \in BOOLEAN : unlease(c, keep)
Leaves(c) ==
    /\ call[c].obj \in Objects /\ call'[c].obj = NoObject /\ call'[c].reserved = FALSE
    /\ leak(c)
LedgerStep(c) == Keeps(c) \/ (\E o \in Objects : Takes(c, o)) \/ Gives(c) \/ Leaves(c)

(* The holders of a member object after a step of c.                       *)
LEMMA HoldersStep ==
    ASSUME NEW c \in Callers, Moves(c), NEW p \in Objects
    PROVE  /\ Cardinality(Holders(p)) \in Nat
           /\ (call[c].obj = p <=> call'[c].obj = p) => Cardinality(Holders(p))' = Cardinality(Holders(p))
           /\ (call[c].obj # p /\ call'[c].obj = p) => Cardinality(Holders(p))' = Cardinality(Holders(p)) + 1
           /\ (call[c].obj = p /\ call'[c].obj # p) => Cardinality(Holders(p))' = Cardinality(Holders(p)) - 1
<1>1. Holders(p) \in SUBSET Callers /\ Holders(p)' \in SUBSET Callers
  BY DEF Holders
<1>2. \A d \in Callers : d # c => (d \in Holders(p) <=> d \in Holders(p)')
  BY DEF Holders, Moves
<1>3. (c \in Holders(p) <=> call[c].obj = p) /\ (c \in Holders(p)' <=> call'[c].obj = p)
  BY DEF Holders
<1>. QED
  BY <1>1, <1>2, <1>3, CardStep

LEMMA Marked ==
    /\ \A c, d \in Callers : Reservation(c) = Reservation(d) => c = d
    /\ \A c, d \in Callers : Reservation(c) # <<d, "session">>
    /\ \A c \in Callers : Reservation(c) \in Marks /\ <<c, "session">> \in Marks
BY DEF Reservation, Marks

LEMMA KeepsLedger ==
    ASSUME FleetInv, NEW c \in Callers, Moves(c), Keeps(c)
    PROVE  Accounts' /\ BoundOK'
<1>1. \A p \in Objects : Cardinality(Holders(p))' = Cardinality(Holders(p))
  BY HoldersStep DEF Keeps
<1>2. \A d \in Callers : call'[d].obj = call[d].obj /\ call'[d].reserved = call[d].reserved
  BY DEF Keeps, Moves
<1>3. Accounts /\ BoundOK
  BY DEF FleetInv
<1>. QED
  BY <1>1, <1>2, <1>3 DEF Accounts, BoundOK, Keeps

LEMMA TakesLedger ==
    ASSUME FleetInv, NEW c \in Callers, Moves(c), NEW o \in Objects, Takes(c, o)
    PROVE  /\ Accounts' /\ BoundOK'
           /\ inflight' \in [Objects -> Nat] /\ bound' \in [Objects -> SUBSET Marks]
           /\ \A p \in Objects : p # o => bound'[p] = bound[p]
<1>1. Accounts /\ BoundOK /\ Typed
  BY DEF FleetInv
<1>2. inflight \in [Objects -> Nat] /\ bound \in [Objects -> SUBSET Marks]
  BY <1>1 DEF Typed
<1>3. o # NoObject
  BY ObjectParts
<1>4. inflight' \in [Objects -> Nat] /\ inflight'[o] = inflight[o] + 1
      /\ \A p \in Objects : p # o => inflight'[p] = inflight[p]
  BY <1>2 DEF Takes
<1>5. leaked' = leaked
  BY DEF Takes
<1>6. \A p \in Objects : p # o => bound'[p] = bound[p]
  BY <1>2 DEF Takes
<1>7. call'[c].reserved => bound[o] = {} /\ bound'[o] = {Reservation(c)}
  BY <1>2 DEF Takes
<1>8. ~call'[c].reserved => bound' = bound
  BY DEF Takes
<1>9. bound' \in [Objects -> SUBSET Marks]
  <2>1. CASE call'[c].reserved
    <3>1. bound' = [bound EXCEPT ![o] = @ \union {Reservation(c)}]
      BY <2>1 DEF Takes
    <3>2. bound[o] \union {Reservation(c)} \in SUBSET Marks
      BY <1>2, Marked
    <3>. QED
      BY <1>2, <3>1, <3>2
  <2>2. CASE ~call'[c].reserved
    BY <1>2, <1>8, <2>2
  <2>. QED
    BY <2>1, <2>2
<1>10. \A p \in Objects : inflight'[p] = Cardinality(Holders(p))' + leaked'[p]
  <2>. SUFFICES ASSUME NEW p \in Objects PROVE inflight'[p] = Cardinality(Holders(p))' + leaked'[p]
    OBVIOUS
  <2>1. inflight[p] = Cardinality(Holders(p)) + leaked[p] /\ leaked[p] \in Nat
    BY <1>1 DEF Accounts, Typed
  <2>2. CASE p = o
    <3>1. Cardinality(Holders(p))' = Cardinality(Holders(p)) + 1 /\ Cardinality(Holders(p)) \in Nat
      BY <1>3, <2>2, HoldersStep DEF Takes
    <3>. QED
      BY <1>4, <1>5, <2>1, <2>2, <3>1
  <2>3. CASE p # o
    <3>1. Cardinality(Holders(p))' = Cardinality(Holders(p))
      BY <2>3, ObjectParts, HoldersStep DEF Takes
    <3>. QED
      BY <1>4, <1>5, <2>1, <2>3, <3>1
  <2>. QED
    BY <2>2, <2>3
<1>11. \A p \in Objects, d \in Callers :
          (call'[d].obj = p /\ call'[d].reserved) => Reservation(d) \in bound'[p]
  <2>. SUFFICES ASSUME NEW p \in Objects, NEW d \in Callers, call'[d].obj = p, call'[d].reserved
                PROVE  Reservation(d) \in bound'[p]
    OBVIOUS
  <2>1. CASE d = c
    BY <1>7, <2>1 DEF Takes
  <2>2. CASE d # c
    <3>1. call[d].obj = p /\ call[d].reserved
      BY <2>2 DEF Moves
    <3>2. Reservation(d) \in bound[p]
      BY <1>1, <3>1 DEF Accounts
    <3>. QED
      BY <1>6, <1>7, <1>8, <3>2
  <2>. QED
    BY <2>1, <2>2
<1>12. \A p \in Objects, d \in Callers :
          (leaked'[p] = 0 /\ Reservation(d) \in bound'[p]) => call'[d].obj = p /\ call'[d].reserved
  <2>. SUFFICES ASSUME NEW p \in Objects, NEW d \in Callers, leaked[p] = 0, Reservation(d) \in bound'[p]
                PROVE  call'[d].obj = p /\ call'[d].reserved
    BY <1>5
  <2>1. CASE p = o /\ call'[c].reserved
    <3>1. d = c
      BY <1>7, <2>1, Marked
    <3>. QED
      BY <2>1, <3>1 DEF Takes
  <2>2. CASE ~(p = o /\ call'[c].reserved)
    <3>1. Reservation(d) \in bound[p]
      BY <1>6, <1>8, <2>2
    <3>2. call[d].obj = p /\ call[d].reserved
      BY <1>1, <3>1 DEF Accounts
    <3>3. d # c
      BY <3>2, ObjectParts DEF Takes
    <3>. QED
      BY <3>2, <3>3 DEF Moves
  <2>. QED
    BY <2>1, <2>2
<1>13. BoundOK'
  BY <1>1, <1>6, <1>7, <1>8 DEF BoundOK
<1>14. Accounts'
  BY <1>10, <1>11, <1>12 DEF Accounts
<1>. QED
  BY <1>4, <1>6, <1>9, <1>13, <1>14

LEMMA GivesLedger ==
    ASSUME FleetInv, NEW c \in Callers, Moves(c), Gives(c)
    PROVE  /\ Accounts' /\ BoundOK'
           /\ inflight' \in [Objects -> Nat] /\ bound' \in [Objects -> SUBSET Marks] /\ leaked' = leaked
           /\ sessions' \in [Callers -> MaybeVm]
           /\ \A p \in Objects : bound'[p] # {} => bound[p] # {}
<1>1. Accounts /\ BoundOK /\ Typed
  BY DEF FleetInv
<1>2. inflight \in [Objects -> Nat] /\ bound \in [Objects -> SUBSET Marks] /\ leaked \in [Objects -> Nat]
      /\ sessions \in [Callers -> MaybeVm]
  BY <1>1 DEF Typed
<1>3. PICK keep \in BOOLEAN : unlease(c, keep)
  BY DEF Gives
<1>4. PICK o \in Objects : o = call[c].obj
  BY DEF Gives
<1>5. call'[c].obj # o /\ call'[c].reserved = FALSE /\ \A p \in Objects : call'[c].obj # p
  BY ObjectParts DEF Gives
<1>6. inflight' = [inflight EXCEPT ![o] = IF @ > 0 THEN @ - 1 ELSE 0] /\ leaked' = leaked
  BY <1>3, <1>4 DEF unlease
<1>7. inflight' \in [Objects -> Nat] /\ inflight'[o] = (IF inflight[o] > 0 THEN inflight[o] - 1 ELSE 0)
      /\ \A p \in Objects : p # o => inflight'[p] = inflight[p]
  BY <1>2, <1>6
<1>8. ~call[c].reserved => bound' = bound
  BY <1>3 DEF unlease
<1>9. call[c].reserved => bound[o] = {Reservation(c)}
  BY <1>1, <1>4 DEF Accounts, BoundOK
<1>10. call[c].reserved =>
          bound' = [bound EXCEPT ![o] = (@ \ {Reservation(c)}) \union (IF keep THEN {<<c, "session">>} ELSE {})]
  BY <1>3, <1>4 DEF unlease
<1>11. \A p \in Objects : p # o => bound'[p] = bound[p]
  BY <1>2, <1>8, <1>10
<1>12. call[c].reserved => bound'[o] = (IF keep THEN {<<c, "session">>} ELSE {})
  BY <1>2, <1>9, <1>10
<1>13. bound' \in [Objects -> SUBSET Marks]
  <2>1. CASE call[c].reserved
    <3>1. (bound[o] \ {Reservation(c)}) \union (IF keep THEN {<<c, "session">>} ELSE {}) \in SUBSET Marks
      BY <1>2, Marked
    <3>. QED
      BY <1>2, <1>10, <2>1, <3>1
  <2>. QED
    BY <1>2, <1>8, <2>1
<1>14. sessions' \in [Callers -> MaybeVm]
  <2>1. VmOf(o) \in MaybeVm
    BY ObjectParts DEF VmOf, MaybeVm
  <2>2. sessions' = sessions \/ sessions' = [sessions EXCEPT ![c] = VmOf(o)]
    BY <1>3, <1>4 DEF unlease
  <2>. QED
    BY <1>2, <2>1, <2>2
<1>15. \A p \in Objects : bound'[p] # {} => bound[p] # {}
  BY <1>8, <1>9, <1>11
<1>16. \A p \in Objects : inflight'[p] = Cardinality(Holders(p))' + leaked'[p]
  <2>. SUFFICES ASSUME NEW p \in Objects PROVE inflight'[p] = Cardinality(Holders(p))' + leaked'[p]
    OBVIOUS
  <2>1. inflight[p] = Cardinality(Holders(p)) + leaked[p] /\ leaked[p] \in Nat /\ inflight[p] \in Nat
        /\ Cardinality(Holders(p)) \in Nat
    BY <1>1, <1>2, HoldersStep DEF Accounts
  <2>2. CASE p = o
    <3>1. Cardinality(Holders(p))' = Cardinality(Holders(p)) - 1
      BY <1>4, <1>5, <2>2, HoldersStep
    <3>2. Cardinality(Holders(p)) # 0
      <4>1. IsFiniteSet(Holders(p)) /\ c \in Holders(p)
        BY <1>4, <2>2, FS_Subset, FleetAssumption DEF Holders
      <4>. QED
        BY <4>1, FS_EmptySet
    <3>. QED
      BY <1>6, <1>7, <2>1, <2>2, <3>1, <3>2
  <2>3. CASE p # o
    <3>1. Cardinality(Holders(p))' = Cardinality(Holders(p))
      BY <1>4, <1>5, <2>3, HoldersStep
    <3>. QED
      BY <1>6, <1>7, <2>1, <2>3, <3>1
  <2>. QED
    BY <2>2, <2>3
<1>17. \A p \in Objects, d \in Callers :
          (call'[d].obj = p /\ call'[d].reserved) => Reservation(d) \in bound'[p]
  <2>. SUFFICES ASSUME NEW p \in Objects, NEW d \in Callers, call'[d].obj = p, call'[d].reserved
                PROVE  Reservation(d) \in bound'[p]
    OBVIOUS
  <2>1. d # c
    BY <1>5
  <2>2. call[d].obj = p /\ call[d].reserved
    BY <2>1 DEF Moves
  <2>3. Reservation(d) \in bound[p]
    BY <1>1, <2>2 DEF Accounts
  <2>4. ~(p = o /\ call[c].reserved)
    BY <1>9, <2>1, <2>3, Marked
  <2>. QED
    BY <1>8, <1>11, <2>3, <2>4
<1>18. \A p \in Objects, d \in Callers :
          (leaked'[p] = 0 /\ Reservation(d) \in bound'[p]) => call'[d].obj = p /\ call'[d].reserved
  <2>. SUFFICES ASSUME NEW p \in Objects, NEW d \in Callers, leaked[p] = 0, Reservation(d) \in bound'[p]
                PROVE  call'[d].obj = p /\ call'[d].reserved
    BY <1>6
  <2>1. ~(p = o /\ call[c].reserved)
    BY <1>12, Marked
  <2>2. Reservation(d) \in bound[p]
    BY <1>8, <1>11, <2>1
  <2>3. call[d].obj = p /\ call[d].reserved
    BY <1>1, <2>2 DEF Accounts
  <2>4. d # c
    BY <1>4, <2>1, <2>3
  <2>. QED
    BY <2>3, <2>4 DEF Moves
<1>19. BoundOK'
  BY <1>1, <1>8, <1>11, <1>12 DEF BoundOK
<1>20. Accounts'
  BY <1>16, <1>17, <1>18 DEF Accounts
<1>. QED
  BY <1>6, <1>7, <1>13, <1>14, <1>15, <1>19, <1>20

LEMMA LeavesLedger ==
    ASSUME FleetInv, NEW c \in Callers, Moves(c), Leaves(c)
    PROVE  /\ Accounts' /\ BoundOK'
           /\ inflight' = inflight /\ bound' = bound /\ leaked' \in [Objects -> Nat] /\ sessions' = sessions
<1>1. Accounts /\ BoundOK /\ Typed
  BY DEF FleetInv
<1>2. inflight \in [Objects -> Nat] /\ leaked \in [Objects -> Nat]
  BY <1>1 DEF Typed
<1>3. PICK o \in Objects : o = call[c].obj
  BY DEF Leaves
<1>4. inflight' = inflight /\ bound' = bound /\ sessions' = sessions /\ leaked' = [leaked EXCEPT ![o] = @ + 1]
  BY <1>3 DEF Leaves, leak
<1>5. leaked' \in [Objects -> Nat] /\ leaked'[o] = leaked[o] + 1 /\ \A p \in Objects : p # o => leaked'[p] = leaked[p]
  BY <1>2, <1>4
<1>6. call'[c].reserved = FALSE /\ \A p \in Objects : call'[c].obj # p
  BY ObjectParts DEF Leaves
<1>7. \A p \in Objects : inflight'[p] = Cardinality(Holders(p))' + leaked'[p]
  <2>. SUFFICES ASSUME NEW p \in Objects PROVE inflight'[p] = Cardinality(Holders(p))' + leaked'[p]
    OBVIOUS
  <2>1. inflight[p] = Cardinality(Holders(p)) + leaked[p] /\ leaked[p] \in Nat
        /\ Cardinality(Holders(p)) \in Nat
    BY <1>1, <1>2, HoldersStep DEF Accounts
  <2>2. CASE p = o
    <3>1. Cardinality(Holders(p))' = Cardinality(Holders(p)) - 1
      BY <1>3, <1>6, <2>2, HoldersStep
    <3>. QED
      BY <1>4, <1>5, <2>1, <2>2, <3>1
  <2>3. CASE p # o
    <3>1. Cardinality(Holders(p))' = Cardinality(Holders(p))
      BY <1>3, <1>6, <2>3, HoldersStep
    <3>. QED
      BY <1>4, <1>5, <2>1, <2>3, <3>1
  <2>. QED
    BY <2>2, <2>3
<1>8. \A p \in Objects, d \in Callers :
          (call'[d].obj = p /\ call'[d].reserved) => Reservation(d) \in bound'[p]
  BY <1>1, <1>4, <1>6 DEF Accounts, Moves
<1>9. \A p \in Objects, d \in Callers :
          (leaked'[p] = 0 /\ Reservation(d) \in bound'[p]) => call'[d].obj = p /\ call'[d].reserved
  <2>. SUFFICES ASSUME NEW p \in Objects, NEW d \in Callers, leaked'[p] = 0, Reservation(d) \in bound[p]
                PROVE  call'[d].obj = p /\ call'[d].reserved
    BY <1>4
  <2>1. p # o /\ leaked[p] = 0
    BY <1>2, <1>5
  <2>2. call[d].obj = p /\ call[d].reserved
    BY <1>1, <2>1 DEF Accounts
  <2>3. d # c
    BY <1>3, <2>1, <2>2
  <2>. QED
    BY <2>2, <2>3 DEF Moves
<1>10. BoundOK'
  BY <1>1, <1>4 DEF BoundOK
<1>11. Accounts'
  BY <1>7, <1>8, <1>9 DEF Accounts
<1>. QED
  BY <1>4, <1>5, <1>10, <1>11

LEMMA LedgerFacts ==
    ASSUME FleetInv, NEW c \in Callers, Moves(c), LedgerStep(c)
    PROVE  /\ Accounts' /\ BoundOK'
           /\ inflight' \in [Objects -> Nat] /\ leaked' \in [Objects -> Nat] /\ bound' \in [Objects -> SUBSET Marks]
           /\ \A p \in Objects : bound'[p] # {} => (bound[p] # {} \/ p = call'[c].obj)
<1>1. inflight \in [Objects -> Nat] /\ bound \in [Objects -> SUBSET Marks] /\ leaked \in [Objects -> Nat]
  BY DEF FleetInv, Typed
<1>2. CASE Keeps(c)
  BY <1>1, <1>2, KeepsLedger DEF Keeps
<1>3. ASSUME NEW o \in Objects, Takes(c, o)
      PROVE  /\ Accounts' /\ BoundOK'
             /\ inflight' \in [Objects -> Nat] /\ leaked' = leaked /\ bound' \in [Objects -> SUBSET Marks]
             /\ \A p \in Objects : p # call'[c].obj => bound'[p] = bound[p]
  <2>1. o = call'[c].obj /\ leaked' = leaked
    BY <1>3 DEF Takes
  <2>. QED
    BY <1>3, <2>1, TakesLedger
<1>4. CASE Gives(c)
  BY <1>1, <1>4, GivesLedger
<1>5. CASE Leaves(c)
  BY <1>1, <1>5, LeavesLedger
<1>. QED
  BY <1>1, <1>2, <1>3, <1>4, <1>5 DEF LedgerStep

-----------------------------------------------------------------------------
(* A step that launches nothing and takes no VM in.                        *)
VmType == [Launches -> {"absent", "booting", "up", "gone"}]
Quiet(c) ==
    /\ settings.open /\ settings' = settings /\ members' \subseteq members
    /\ made' = made /\ adopted' = adopted /\ replaced' = replaced
    /\ growing' = (IF call[c].pc = "growing" THEN growing - 1 ELSE growing)
    /\ vm' \in VmType /\ \A v \in Launches : vm'[v] = "absent" => vm[v] = "absent"
    /\ sessions' \in [Callers -> MaybeVm] /\ host' \in [Objects -> HostType]
    /\ \A o \in members' : ~isLost(host'[o])
    /\ Moves(c) /\ LedgerStep(c)
    /\ call'[c].pc # "growing" /\ call'[c].vm = 0
    /\ call'[c].obj # NoObject => IsMade(call'[c].obj)
    /\ CallOK(c)'

(* Callers that launch, before and after a step of c.                      *)
LEMMA LaunchersStep ==
    ASSUME NEW c \in Callers, Moves(c)
    PROVE  /\ Cardinality(Growers) \in Nat /\ Cardinality(Fillers) \in Nat
           /\ Cardinality(Fillers)' \in Nat
           /\ (c \in Growers <=> c \in Growers') => Cardinality(Growers)' = Cardinality(Growers)
           /\ (c \notin Growers /\ c \in Growers') => Cardinality(Growers)' = Cardinality(Growers) + 1
           /\ (c \in Growers /\ c \notin Growers') => Cardinality(Growers)' = Cardinality(Growers) - 1
           /\ (c \in Fillers <=> c \in Fillers') => Cardinality(Fillers)' = Cardinality(Fillers)
           /\ (c \notin Fillers /\ c \in Fillers') => Cardinality(Fillers)' = Cardinality(Fillers) + 1
           /\ (c \in Fillers /\ c \notin Fillers') => Cardinality(Fillers)' = Cardinality(Fillers) - 1
<1>1. Growers \in SUBSET Callers /\ Growers' \in SUBSET Callers
      /\ Fillers \in SUBSET Callers /\ Fillers' \in SUBSET Callers
  BY DEF Growers, Fillers
<1>2. \A d \in Callers : d # c => ((d \in Growers <=> d \in Growers') /\ (d \in Fillers <=> d \in Fillers'))
  BY DEF Growers, Fillers, Moves
<1>. QED
  BY <1>1, <1>2, CardStep

LEMMA GrowerIsCounted == ASSUME FleetInv, NEW c \in Callers, call[c].pc = "growing" PROVE growing - 1 \in Nat
<1>1. growing = Cardinality(Growers)
  BY DEF FleetInv, Counted
<1>2. IsFiniteSet(Growers) /\ c \in Growers
  BY FS_Subset, FleetAssumption DEF Growers
<1>3. Cardinality(Growers) \in Nat /\ Cardinality(Growers) # 0
  BY <1>2, FS_CardinalityType, FS_EmptySet
<1>. QED
  BY <1>1, <1>3

(* Any step of one caller, in terms of what it does to each part.          *)
Step(c) ==
    /\ settings.open /\ settings' = settings
    /\ Moves(c) /\ LedgerStep(c) /\ CallOK(c)'
    /\ vm' \in VmType /\ \A v \in Launches : vm'[v] = "absent" => vm[v] = "absent"
    /\ made' \in [Launches -> Nat] /\ \A v \in Launches : made[v] <= made'[v]
    /\ adopted' \subseteq Launches
    /\ growing' \in Nat /\ replaced' \in Nat
    /\ sessions' \in [Callers -> MaybeVm] /\ host' \in [Objects -> HostType]
    /\ members' \subseteq Objects
    /\ \A o \in members' : IsMade(o)' /\ ~isLost(host'[o])
    /\ \A o \in Objects : call'[c].obj = o => IsMade(o)'
    /\ \A v \in Launches : v \notin adopted' => made'[v] <= 1 /\ (vm'[v] = "absent" => made'[v] = 0)
    /\ Owners' /\ Counted'

LEMMA StepInv ==
    ASSUME FleetInv, NEW c \in Callers, Step(c)
    PROVE  FleetInv'
<1>1. Typed /\ CallsOK /\ MadeOK
  BY DEF FleetInv
<1>2. Moves(c) /\ LedgerStep(c) /\ settings' = settings /\ settings.open
  BY DEF Step
<1>3. /\ Accounts' /\ BoundOK'
      /\ inflight' \in [Objects -> Nat] /\ leaked' \in [Objects -> Nat] /\ bound' \in [Objects -> SUBSET Marks]
      /\ \A p \in Objects : bound'[p] # {} => (bound[p] # {} \/ p = call'[c].obj)
  BY <1>2, LedgerFacts
<1>4. Typed'
  BY <1>1, <1>2, <1>3 DEF Typed, Step, Moves, VmType
<1>5. CallsOK'
  <2>. SUFFICES ASSUME NEW d \in Callers PROVE CallOK(d)'
    BY DEF CallsOK
  <2>1. CASE d = c
    BY <2>1 DEF Step
  <2>2. CASE d # c
    <3>1. call'[d] = call[d] /\ CallOK(d)
      BY <1>1, <1>2, <2>2 DEF Moves, CallsOK
    <3>2. call[d].vm # 0 => call[d].vm \in Launches
      BY <1>1, CallFields DEF Typed, MaybeVm
    <3>3. call[d].vm # 0 => vm'[call[d].vm] # "absent"
      BY <3>1, <3>2 DEF CallOK, Step
    <3>. QED
      BY <1>2, <3>1, <3>3 DEF CallOK
  <2>. QED
    BY <2>1, <2>2
<1>6. MadeOK'
  <2>1. \A o \in Objects : IsMade(o) => IsMade(o)'
    <3>. SUFFICES ASSUME NEW o \in Objects, IsMade(o) PROVE IsMade(o)'
      OBVIOUS
    <3>1. o[1] \in Launches /\ o[2] \in Nat
      BY ObjectParts
    <3>2. made[o[1]] \in Nat /\ made'[o[1]] \in Nat /\ made[o[1]] <= made'[o[1]]
      BY <1>1, <3>1 DEF Typed, Step
    <3>. QED
      BY <3>1, <3>2 DEF IsMade
  <2>2. \A d \in Callers : call'[d].obj # NoObject => call'[d].obj \in Objects
    BY <1>4, CallFields DEF Typed, MaybeObject
  <2>3. \A d \in Callers, o \in Objects : call'[d].obj = o => IsMade(o)'
    <3>. SUFFICES ASSUME NEW d \in Callers, NEW o \in Objects, call'[d].obj = o PROVE IsMade(o)'
      OBVIOUS
    <3>1. CASE d = c
      BY <3>1 DEF Step
    <3>2. CASE d # c
      <4>1. call[d].obj = o
        BY <1>2, <3>2 DEF Moves
      <4>. QED
        BY <1>1, <2>1, <4>1, ObjectParts DEF MadeOK
    <3>. QED
      BY <3>1, <3>2
  <2>4. \A d \in Callers : call'[d].obj # NoObject => IsMade(call[d].obj)'
    BY <2>2, <2>3 DEF IsMade
  <2>5. \A p \in Objects : bound'[p] # {} => IsMade(p)'
    BY <1>1, <1>3, <2>1, <2>3 DEF MadeOK
  <2>6. \A v \in Launches : v \notin adopted' => made'[v] <= 1 /\ (vm'[v] = "absent" => made'[v] = 0)
    BY DEF Step
  <2>7. \A o \in members' : IsMade(o)'
    BY DEF Step
  <2>. QED
    BY <1>2, <2>4, <2>5, <2>6, <2>7 DEF MadeOK
<1>7. Owners' /\ Counted' /\ LostNeverListed'
  BY DEF LostNeverListed, Step, isLost
<1>. QED
  BY <1>3, <1>4, <1>5, <1>6, <1>7 DEF FleetInv

LEMMA QuietStep ==
    ASSUME FleetInv, NEW c \in Callers, Quiet(c)
    PROVE  FleetInv'
<1>1. Typed /\ MadeOK /\ Owners /\ Counted
  BY DEF FleetInv
<1>2. Moves(c) /\ made' = made /\ adopted' = adopted /\ replaced' = replaced /\ members' \subseteq members
      /\ settings' = settings
  BY DEF Quiet
<1>3. growing' \in Nat
  BY <1>1, GrowerIsCounted DEF Quiet, Typed
<1>4. \A o \in members' : IsMade(o)'
  BY <1>1, <1>2 DEF MadeOK, IsMade
<1>5. \A o \in Objects : call'[c].obj = o => IsMade(o)'
  <2>. SUFFICES ASSUME NEW o \in Objects, call'[c].obj = o PROVE IsMade(o)'
    OBVIOUS
  <2>1. IsMade(o)
    BY ObjectParts DEF Quiet
  <2>. QED
    BY <1>2, <2>1 DEF IsMade
<1>6. \A v \in Launches : v \notin adopted' => made'[v] <= 1 /\ (vm'[v] = "absent" => made'[v] = 0)
  BY <1>1, <1>2 DEF MadeOK, Quiet
<1>7. Owners'
  BY <1>1, <1>2 DEF Owners, Moves, Quiet
<1>8. Counted'
  <2>1. c \notin Growers' /\ c \notin Fillers' /\ (c \in Growers <=> call[c].pc = "growing")
    BY DEF Growers, Fillers, Quiet
  <2>2. growing' = Cardinality(Growers)'
    BY <1>1, <1>2, <2>1, LaunchersStep DEF Counted, Quiet
  <2>3. Cardinality(Fillers)' <= Cardinality(Fillers)
    BY <1>2, <2>1, LaunchersStep
  <2>4. Cardinality(members') <= Cardinality(members)
        /\ Cardinality(members) \in Nat /\ Cardinality(members') \in Nat
    BY <1>1, <1>2, FiniteObjects, FS_Subset, FS_CardinalityType DEF Typed
  <2>5. growing' <= growing
    BY <1>1 DEF Quiet, Typed
  <2>6. settings.maxVms \in Nat /\ replaced \in Nat /\ growing \in Nat
    BY <1>1 DEF Typed, SettingsType
  <2>7. Cardinality(Fillers) \in Nat /\ Cardinality(Fillers)' \in Nat
    BY <1>2, LaunchersStep
  <2>8. adopted' = {} => Cardinality(members') + growing' + Cardinality(Fillers)' <= settings'.maxVms + replaced'
    BY <1>1, <1>2, <1>3, <2>3, <2>4, <2>5, <2>6, <2>7 DEF Counted
  <2>9. Cardinality(Fillers)' <= replaced'
    BY <1>1, <1>2, <2>3, <2>6, <2>7 DEF Counted
  <2>. QED
    BY <2>2, <2>8, <2>9 DEF Counted
<1>9. \A v \in Launches : made[v] <= made'[v]
  BY <1>1, <1>2 DEF Typed
<1>10. Step(c)
  BY <1>1, <1>2, <1>3, <1>4, <1>5, <1>6, <1>7, <1>8, <1>9 DEF Step, Quiet, Typed
<1>. QED
  BY <1>10, StepInv

-----------------------------------------------------------------------------
(* The same in terms of the record r the caller goes on with.              *)
Ready(r) ==
    /\ r.pc \in Holding => r.obj \in Objects
    /\ (r.pc \in {"terminating", "filling"} /\ r.then = "place") => r.obj \in Objects
    /\ r.obj # NoObject =>
          \/ r.pc \in Holding
          \/ r.pc \in {"terminating", "filling"} /\ r.then \in {"place", "error"}
    /\ r.obj = NoObject => ~r.reserved
    /\ r.pc \in {"noting", "terminating"} => r.subject \in Objects
    /\ r.pc # "growing" /\ r.vm = 0
Calm(c) ==
    /\ settings.open /\ settings' = settings
    /\ made' = made /\ adopted' = adopted /\ replaced' = replaced
    /\ growing' = (IF call[c].pc = "growing" THEN growing - 1 ELSE growing)

LEMMA CallerFacts ==
    ASSUME FleetInv, NEW c \in Callers
    PROVE  /\ call[c] \in CallType /\ CallOK(c) /\ Typed
           /\ call[c].obj # NoObject => call[c].obj \in Objects /\ IsMade(call[c].obj)
           /\ call[c].subject # NoObject => call[c].subject \in Objects
<1>1. Typed /\ CallsOK /\ MadeOK
  BY DEF FleetInv
<1>2. call[c] \in CallType /\ CallOK(c)
  BY <1>1 DEF Typed, CallsOK
<1>3. call[c].obj \in MaybeObject /\ call[c].subject \in MaybeObject
  BY <1>2, CallFields
<1>. QED
  BY <1>1, <1>2, <1>3 DEF MadeOK, MaybeObject

LEMMA Turn ==
    ASSUME FleetInv, NEW c \in Callers, NEW r \in CallType, Becomes(c, r), Ready(r), Calm(c), LedgerStep(c),
           r.obj # NoObject => IsMade(r.obj),
           vm' \in VmType, \A v \in Launches : vm'[v] = "absent" => vm[v] = "absent",
           sessions' \in [Callers -> MaybeVm], host' \in [Objects -> HostType],
           members' \subseteq members, \A o \in members' : ~isLost(host'[o])
    PROVE  FleetInv'
<1>1. Typed
  BY DEF FleetInv
<1>2. call'[c] = r /\ Moves(c)
  BY <1>1, BecomesFacts DEF Moves
<1>3. CallOK(c)'
  BY <1>2 DEF CallOK, Ready, Calm
<1>4. Quiet(c)
  BY <1>2, <1>3 DEF Quiet, Calm, Ready
<1>. QED
  BY <1>4, QuietStep

(* Most steps leave the VMs, or the hosts, as they are.                    *)
LEMMA SameVms ==
    ASSUME FleetInv, vm' = vm
    PROVE  vm' \in VmType /\ \A v \in Launches : vm'[v] = "absent" => vm[v] = "absent"
BY DEF FleetInv, Typed, VmType

LEMMA SameHosts ==
    ASSUME FleetInv, host' = host, members' \subseteq members
    PROVE  host' \in [Objects -> HostType] /\ \A o \in members' : ~isLost(host'[o])
BY DEF FleetInv, Typed, LostNeverListed

LEMMA SameSessions == ASSUME FleetInv, sessions' = sessions PROVE sessions' \in [Callers -> MaybeVm]
BY DEF FleetInv, Typed

LEMMA RememberFacts ==
    ASSUME FleetInv, NEW c \in Callers, NEW v \in Launches, remember(c, v)
    PROVE  sessions' \in [Callers -> MaybeVm]
<1>1. sessions \in [Callers -> MaybeVm] /\ v \in MaybeVm
  BY DEF FleetInv, Typed, MaybeVm
<1>2. sessions' = sessions \/ sessions' = [sessions EXCEPT ![c] = v]
  BY DEF remember
<1>. QED
  BY <1>1, <1>2

(* A ping of one host.                                                     *)
LEMMA PingFacts ==
    ASSUME FleetInv, NEW o \in Objects, NEW s \in pings(o), NEW memo, memo = recordPing(host[o], s),
           host' = [host EXCEPT ![o] = memo], members' \subseteq members, isLost(memo) => o \notin members'
    PROVE  host' \in [Objects -> HostType] /\ \A p \in members' : ~isLost(host'[p])
<1>1. host \in [Objects -> HostType] /\ members \subseteq Objects /\ \A p \in members : ~isLost(host[p])
  BY DEF FleetInv, Typed, LostNeverListed
<1>2. s \in {"unknown", "healthy", "busy", "unavailable"}
  BY DEF pings
<1>3. host[o].failed \in Nat
  BY <1>1 DEF HostType
<1>4. memo \in HostType
  BY <1>2, <1>3 DEF recordPing, HostType
<1>5. host'[o] = memo /\ \A p \in Objects : p # o => host'[p] = host[p]
  BY <1>1
<1>. QED
  BY <1>1, <1>4, <1>5

(* A member is opened, or found busy.                                      *)
LEMMA TouchFacts ==
    ASSUME FleetInv, NEW o \in Objects, members' \subseteq members,
           host' = [host EXCEPT ![o].open = TRUE] \/ host' = [host EXCEPT ![o].health = "busy"]
    PROVE  host' \in [Objects -> HostType] /\ \A p \in members' : ~isLost(host'[p])
<1>1. host \in [Objects -> HostType] /\ members \subseteq Objects /\ \A p \in members : ~isLost(host[p])
  BY DEF FleetInv, Typed, LostNeverListed
<1>2. host[o] \in HostType
  BY <1>1
<1>3. PICK memo \in HostType : memo.failed = host[o].failed /\ host' = [host EXCEPT ![o] = memo]
  <2>1. CASE host' = [host EXCEPT ![o].open = TRUE]
    <3>1. [host[o] EXCEPT !.open = TRUE] \in HostType /\ [host[o] EXCEPT !.open = TRUE].failed = host[o].failed
      BY <1>2 DEF HostType
    <3>2. host' = [host EXCEPT ![o] = [host[o] EXCEPT !.open = TRUE]]
      BY <1>1, <2>1
    <3>. QED
      BY <3>1, <3>2
  <2>2. CASE host' = [host EXCEPT ![o].health = "busy"]
    <3>1. [host[o] EXCEPT !.health = "busy"] \in HostType /\ [host[o] EXCEPT !.health = "busy"].failed = host[o].failed
      BY <1>2 DEF HostType
    <3>2. host' = [host EXCEPT ![o] = [host[o] EXCEPT !.health = "busy"]]
      BY <1>1, <2>2
    <3>. QED
      BY <3>1, <3>2
  <2>. QED
    BY <2>1, <2>2
<1>4. host'[o] = memo /\ \A p \in Objects : p # o => host'[p] = host[p]
  BY <1>1, <1>3
<1>. QED
  BY <1>1, <1>3, <1>4 DEF isLost

(* The three ends of a lease that are not a new one.                       *)
LEMMA KeepsLease ==
    ASSUME FleetInv, NEW c \in Callers, NEW r \in CallType, Becomes(c, r),
           r.obj = call[c].obj, r.reserved = call[c].reserved, UNCHANGED ledger
    PROVE  LedgerStep(c)
<1>1. call'[c] = r
  BY BecomesFacts DEF FleetInv
<1>. QED
  BY <1>1 DEF LedgerStep, Keeps, ledger

LEMMA GivesLease ==
    ASSUME FleetInv, NEW c \in Callers, NEW r \in CallType, Becomes(c, r),
           call[c].obj \in Objects, r.obj = NoObject, r.reserved = FALSE,
           NEW keep \in BOOLEAN, unlease(c, keep)
    PROVE  LedgerStep(c) /\ sessions' \in [Callers -> MaybeVm]
<1>1. call'[c] = r /\ Moves(c)
  BY BecomesFacts DEF FleetInv, Moves
<1>2. Gives(c)
  BY <1>1 DEF Gives
<1>. QED
  BY <1>1, <1>2, GivesLedger DEF LedgerStep

LEMMA LeavesLease ==
    ASSUME FleetInv, NEW c \in Callers, NEW r \in CallType, Becomes(c, r),
           call[c].obj \in Objects, r.obj = NoObject, r.reserved = FALSE, leak(c)
    PROVE  LedgerStep(c) /\ sessions' \in [Callers -> MaybeVm]
<1>1. call'[c] = r /\ Moves(c)
  BY BecomesFacts DEF FleetInv, Moves
<1>2. Leaves(c)
  BY <1>1 DEF Leaves
<1>. QED
  BY <1>2, SameSessions DEF LedgerStep, leak

-----------------------------------------------------------------------------
(* The steps that launch nothing and take no VM in.                        *)
LEMMA invokeInv == ASSUME FleetInv, NEW c \in Callers, invoke(c) PROVE FleetInv'
<1>1. PICK own \in BOOLEAN, target \in {0} \union (Launches \ Absent) :
        Becomes(c, [Idle EXCEPT !.pc = "placing", !.own = own, !.target = target])
  BY DEF invoke
<1>2. PICK r : r = [Idle EXCEPT !.pc = "placing", !.own = own, !.target = target]
  OBVIOUS
<1>3. r \in CallType /\ r.pc = "placing" /\ r.obj = NoObject /\ r.reserved = FALSE /\ r.vm = 0
  BY <1>2 DEF Idle, CallType, Pcs, Thens, MaybeVm, MaybeObject
<1>4. call[c].pc = "idle" /\ call[c].obj = NoObject /\ ~call[c].reserved /\ call[c].reserved \in BOOLEAN
  BY CallerFacts, CallFields DEF invoke, At, CallOK, Holding
<1>5. Ready(r) /\ Calm(c)
  BY <1>3, <1>4 DEF Ready, Calm, Holding, invoke, At, machines
<1>6. LedgerStep(c)
  BY <1>1, <1>2, <1>3, <1>4, KeepsLease DEF invoke
<1>. QED
  BY <1>1, <1>2, <1>3, <1>5, <1>6, Turn, SameVms, SameHosts, SameSessions DEF invoke, machines

LEMMA refreshInv == ASSUME FleetInv, NEW c \in Callers, refresh(c) PROVE FleetInv'
<1>1. PICK then \in {"status", "reconcile"} : Becomes(c, [Idle EXCEPT !.pc = "listing", !.then = then])
  BY DEF refresh
<1>2. PICK r : r = [Idle EXCEPT !.pc = "listing", !.then = then]
  OBVIOUS
<1>3. r \in CallType /\ r.pc = "listing" /\ r.obj = NoObject /\ r.reserved = FALSE /\ r.vm = 0
  BY <1>2 DEF Idle, CallType, Pcs, Thens, MaybeVm, MaybeObject
<1>4. call[c].pc = "idle" /\ call[c].obj = NoObject /\ ~call[c].reserved /\ call[c].reserved \in BOOLEAN
  BY CallerFacts, CallFields DEF refresh, At, CallOK, Holding
<1>5. Ready(r) /\ Calm(c)
  BY <1>3, <1>4 DEF Ready, Calm, Holding, refresh, At, machines
<1>6. LedgerStep(c)
  BY <1>1, <1>2, <1>3, <1>4, KeepsLease DEF refresh
<1>. QED
  BY <1>1, <1>2, <1>3, <1>5, <1>6, Turn, SameVms, SameHosts, SameSessions DEF refresh, machines

(* #trim and stop() for a caller that has no VM.                           *)
LEMMA SweepFacts ==
    ASSUME FleetInv, NEW c \in Callers, NEW r \in CallType, NEW todo \in SUBSET Objects, NEW kept \in SUBSET Objects,
           r.vm = 0, r.obj = NoObject, r.reserved = FALSE, r.then \in {"stop", "reconcile"},
           sweep(c, r, todo, kept)
    PROVE  /\ members' \subseteq kept
           /\ \E s \in CallType : /\ Becomes(c, s) /\ Ready(s) /\ s.obj = NoObject /\ s.reserved = FALSE
<1>1. CASE \E o \in todo : /\ members' = kept \ {o}
                           /\ Becomes(c, [Terminating(r, o, r.then) EXCEPT !.todo = todo \ {o}])
  <2>1. PICK o \in todo : /\ members' = kept \ {o}
                          /\ Becomes(c, [Terminating(r, o, r.then) EXCEPT !.todo = todo \ {o}])
    BY <1>1
  <2>2. PICK t : t = Terminating(r, o, r.then)
    OBVIOUS
  <2>3. r.then \in Thens
    BY DEF Thens
  <2>4. /\ t \in CallType /\ t.pc = "terminating" /\ t.subject = o /\ t.obj = NoObject
        /\ t.reserved = FALSE /\ t.vm = 0 /\ t.then = r.then
    BY <2>2, <2>3, TerminatingFields
  <2>5. PICK s : s = [t EXCEPT !.todo = todo \ {o}]
    OBVIOUS
  <2>6. s \in CallType
    BY <2>4, <2>5 DEF CallType
  <2>7. /\ s.pc = "terminating" /\ s.subject = o /\ s.obj = NoObject
        /\ s.reserved = FALSE /\ s.vm = 0 /\ s.then = r.then
    BY <2>4, <2>5 DEF CallType
  <2>8. Ready(s)
    BY <2>7 DEF Ready, Holding
  <2>. QED
    BY <2>1, <2>2, <2>5, <2>6, <2>7, <2>8
<1>2. CASE /\ todo = {} /\ members' = kept
           /\ Becomes(c, IF r.then = "stop" THEN Idle ELSE Filling(r, kept))
  <2>1. PICK s : s = IF r.then = "stop" THEN Idle ELSE Filling(r, kept)
    OBVIOUS
  <2>2. s \in CallType /\ s.obj = NoObject /\ s.reserved = FALSE /\ s.vm = 0
    BY <2>1, FillingFields, IdleFields DEF FleetInv
  <2>3. s.pc = "idle" \/ (s.pc = "filling" /\ s.then = "reconcile")
    BY <2>1, FillingFields, IdleFields DEF FleetInv
  <2>4. Ready(s)
    BY <2>2, <2>3 DEF Ready, Holding
  <2>. QED
    BY <1>2, <2>1, <2>2, <2>4
<1>. QED
  BY <1>1, <1>2 DEF sweep

LEMMA stopInv == ASSUME FleetInv, NEW c \in Callers, stop(c) PROVE FleetInv'
<1>1. PICK r : r = [Idle EXCEPT !.then = "stop"]
  OBVIOUS
<1>2. r \in CallType /\ r.obj = NoObject /\ r.reserved = FALSE /\ r.vm = 0 /\ r.then = "stop"
  BY <1>1 DEF Idle, CallType, Pcs, Thens, MaybeVm, MaybeObject
<1>3. sweep(c, r, members, {}) /\ members \in SUBSET Objects
  BY <1>1 DEF stop, FleetInv, Typed
<1>4. members' \subseteq {} /\ \E s \in CallType : Becomes(c, s) /\ Ready(s) /\ s.obj = NoObject /\ s.reserved = FALSE
  <2>1. PICK kept \in SUBSET Objects : kept = {}
    OBVIOUS
  <2>2. sweep(c, r, members, kept)
    BY <1>3, <2>1
  <2>3. members' \subseteq kept /\ \E s \in CallType : Becomes(c, s) /\ Ready(s) /\ s.obj = NoObject /\ s.reserved = FALSE
    BY <1>2, <1>3, <2>2, SweepFacts
  <2>. QED
    BY <2>1, <2>3
<1>5. PICK s \in CallType : Becomes(c, s) /\ Ready(s) /\ s.obj = NoObject /\ s.reserved = FALSE
  BY <1>4
<1>6. call[c].pc = "idle" /\ call[c].obj = NoObject /\ ~call[c].reserved /\ call[c].reserved \in BOOLEAN
  BY CallerFacts, CallFields DEF stop, At, CallOK, Holding
<1>7. Calm(c)
  BY <1>6 DEF Calm, stop, At
<1>8. LedgerStep(c)
  BY <1>5, <1>6, KeepsLease DEF stop
<1>. QED
  BY <1>4, <1>5, <1>7, <1>8, Turn, SameVms, SameHosts, SameSessions DEF stop

(* A lease of a member of the list, without a reservation.                 *)
LEMMA TakesLease ==
    ASSUME FleetInv, NEW c \in Callers, NEW r \in CallType, Becomes(c, r), NEW o \in Objects,
           call[c].obj = NoObject, r.obj = o,
           inflight' = [inflight EXCEPT ![o] = @ + 1], leaked' = leaked,
           IF r.reserved THEN bound[o] = {} /\ bound' = [bound EXCEPT ![o] = @ \union {Reservation(c)}]
           ELSE bound' = bound
    PROVE  LedgerStep(c)
<1>1. call'[c] = r
  BY BecomesFacts DEF FleetInv
<1>2. Takes(c, o)
  BY <1>1 DEF Takes
<1>. QED
  BY <1>2 DEF LedgerStep

LEMMA routeMemberInv == ASSUME FleetInv, NEW c \in Callers, routeMember(c) PROVE FleetInv'
<1>1. /\ call[c] \in CallType /\ call[c].pc = "placing" /\ call[c].obj = NoObject /\ call[c].reserved = FALSE
      /\ call[c].vm = 0 /\ settings.open
  BY CallerFacts, CallFields DEF routeMember, At, CallOK, Holding
<1>2. Calm(c)
  BY <1>1 DEF Calm, routeMember, machines
<1>3. vm' = vm /\ host' = host /\ members' = members /\ sessions' = sessions
  BY DEF routeMember, machines
<1>4. ASSUME NEW o \in find(Known(c)), routed(c, o) PROVE FleetInv'
  <2>1. o \in members /\ o \in Objects /\ IsMade(o)
    BY <1>4 DEF find, FleetInv, Typed, MadeOK
  <2>2. PICK r : r = Leased(c, o, FALSE)
    OBVIOUS
  <2>3. r \in CallType /\ r.pc = "leased" /\ r.obj = o /\ r.reserved = FALSE /\ r.vm = 0
    BY <2>1, <2>2, AnewFields DEF FleetInv
  <2>4. Becomes(c, r) /\ inflight' = [inflight EXCEPT ![o] = @ + 1] /\ bound' = bound /\ leaked' = leaked
    BY <1>4, <2>2 DEF routed
  <2>5. LedgerStep(c)
    BY <1>1, <2>1, <2>3, <2>4, TakesLease
  <2>6. Ready(r)
    BY <2>1, <2>3, ObjectParts DEF Ready, Holding
  <2>. QED
    BY <1>2, <1>3, <2>1, <2>3, <2>4, <2>5, <2>6, Turn, SameVms, SameHosts, SameSessions
<1>5. ASSUME Becomes(c, [call[c] EXCEPT !.pc = "listing", !.then = "route"]), UNCHANGED ledger PROVE FleetInv'
  <2>1. PICK r : r = [call[c] EXCEPT !.pc = "listing", !.then = "route"]
    OBVIOUS
  <2>2. r \in CallType
    BY <1>1, <2>1 DEF CallType, Pcs, Thens
  <2>3. r.pc = "listing" /\ r.obj = NoObject /\ r.reserved = FALSE /\ r.vm = 0
    BY <1>1, <2>1 DEF CallType
  <2>4. Ready(r)
    BY <2>3 DEF Ready, Holding
  <2>5. LedgerStep(c)
    BY <1>1, <1>5, <2>1, <2>2, <2>3, KeepsLease
  <2>. QED
    BY <1>2, <1>3, <1>5, <2>1, <2>2, <2>3, <2>4, <2>5, Turn, SameVms, SameHosts, SameSessions
<1>. QED
  BY <1>4, <1>5 DEF routeMember

LEMMA placeInMemberInv ==
    ASSUME FleetInv, NEW c \in Callers, NEW stale \in SUBSET members, placeInMember(c, stale)
    PROVE  FleetInv'
<1>1. /\ call[c].pc = "placing" /\ call[c].obj = NoObject /\ settings.open
  BY CallerFacts, CallFields DEF placeInMember, At, CallOK, Holding
<1>2. PICK o \in chooseMember(stale) :
        reserve(c, o) /\ Becomes(c, [Leased(c, o, settings.dedicated) EXCEPT !.pc = "probing"])
  BY DEF placeInMember
<1>3. o \in Objects /\ IsMade(o)
  BY <1>2 DEF chooseMember, FleetInv, Typed, MadeOK
<1>4. settings.dedicated => bound[o] = {}
  BY <1>2 DEF chooseMember, isFree
<1>5. settings.dedicated \in BOOLEAN
  BY DEF FleetInv, Typed, SettingsType
<1>6. PICK t : t = Leased(c, o, settings.dedicated)
  OBVIOUS
<1>7. t \in CallType /\ t.obj = o /\ t.reserved = settings.dedicated /\ t.vm = 0
  BY <1>3, <1>5, <1>6, AnewFields DEF FleetInv
<1>8. PICK r : r = [t EXCEPT !.pc = "probing"]
  OBVIOUS
<1>9. r \in CallType
  BY <1>7, <1>8 DEF CallType, Pcs
<1>10. r.pc = "probing" /\ r.obj = o /\ r.reserved = settings.dedicated /\ r.vm = 0
  BY <1>7, <1>8 DEF CallType
<1>11. Becomes(c, r)
  BY <1>2, <1>6, <1>8
<1>12. LedgerStep(c)
  BY <1>1, <1>2, <1>3, <1>4, <1>9, <1>10, <1>11, TakesLease DEF reserve
<1>13. Ready(r) /\ Calm(c)
  BY <1>1, <1>3, <1>10, ObjectParts DEF Ready, Calm, Holding, placeInMember, machines
<1>. QED
  BY <1>3, <1>9, <1>10, <1>11, <1>12, <1>13, Turn, SameVms, SameHosts, SameSessions DEF placeInMember, machines

(* A caller that has no lease any more.                                    *)
LEMMA Free ==
    ASSUME Typed, NEW c \in Callers, NEW r, r = Idle \/ r = Anew(c)
    PROVE  r \in CallType /\ Ready(r) /\ r.obj = NoObject /\ r.reserved = FALSE
<1>1. /\ r \in CallType /\ r.obj = NoObject /\ r.reserved = FALSE /\ r.vm = 0
      /\ r.pc \in {"idle", "placing"}
  BY IdleFields, AnewFields
<1>. QED
  BY <1>1 DEF Ready, Holding

LEMMA LaunchFailsFacts ==
    ASSUME FleetInv, NEW v \in MaybeVm, LaunchFails(v)
    PROVE  vm' \in VmType /\ \A w \in Launches : vm'[w] = "absent" => vm[w] = "absent"
<1>1. vm \in VmType
  BY DEF FleetInv, Typed, VmType
<1>2. CASE v = 0
  BY <1>1, <1>2 DEF LaunchFails
<1>3. CASE v # 0
  <2>1. v \in Launches
    BY <1>3 DEF MaybeVm
  <2>2. PICK s \in {"gone", "up"} : vm' = [vm EXCEPT ![v] = IF @ = "booting" THEN s ELSE @]
    BY <1>3 DEF LaunchFails
  <2>. QED
    BY <1>1, <2>1, <2>2 DEF VmType
<1>. QED
  BY <1>2, <1>3

LEMMA growFailsInv == ASSUME FleetInv, NEW c \in Callers, growFails(c) PROVE FleetInv'
<1>1. /\ call[c].pc = "growing" /\ call[c].obj = NoObject /\ call[c].reserved = FALSE /\ call[c].vm \in MaybeVm
      /\ settings.open
  BY CallerFacts, CallFields DEF growFails, At, CallOK, Holding
<1>2. Calm(c)
  BY <1>1 DEF Calm, growFails
<1>3. Becomes(c, Idle) /\ LaunchFails(call[c].vm)
  BY DEF growFails
<1>4. Idle \in CallType /\ Ready(Idle) /\ Idle.obj = NoObject /\ Idle.reserved = FALSE
  BY Free DEF FleetInv
<1>5. LedgerStep(c)
  BY <1>1, <1>3, <1>4, KeepsLease DEF growFails
<1>6. vm' \in VmType /\ \A w \in Launches : vm'[w] = "absent" => vm[w] = "absent"
  BY <1>1, <1>3, LaunchFailsFacts
<1>. QED
  BY <1>2, <1>3, <1>4, <1>5, <1>6, Turn, SameHosts, SameSessions DEF growFails

LEMMA queueExpiresInv == ASSUME FleetInv, NEW c \in Callers, queueExpires(c) PROVE FleetInv'
<1>1. /\ call[c].pc = "placing" /\ call[c].obj = NoObject /\ call[c].reserved = FALSE /\ settings.open
  BY CallerFacts, CallFields DEF queueExpires, At, CallOK, Holding
<1>2. Calm(c)
  BY <1>1 DEF Calm, queueExpires, machines
<1>3. Becomes(c, Idle)
  BY DEF queueExpires
<1>4. Idle \in CallType /\ Ready(Idle) /\ Idle.obj = NoObject /\ Idle.reserved = FALSE
  BY Free DEF FleetInv
<1>5. LedgerStep(c)
  BY <1>1, <1>3, <1>4, KeepsLease DEF queueExpires
<1>. QED
  BY <1>2, <1>3, <1>4, <1>5, Turn, SameVms, SameHosts, SameSessions DEF queueExpires, machines

(* A caller with a lease, and one that only moves on with it.              *)
LEMMA Leaseholder ==
    ASSUME FleetInv, NEW c \in Callers, call[c].pc \in Holding
    PROVE  /\ call[c] \in CallType /\ call[c].obj \in Objects /\ call[c].obj # NoObject
           /\ VmOf(call[c].obj) \in Launches /\ IsMade(call[c].obj) /\ call[c].vm = 0 /\ call[c].pc # "growing"
<1>1. call[c] \in CallType /\ call[c].obj \in Objects
  BY CallerFacts DEF CallOK
<1>2. call[c].obj # NoObject
  BY <1>1, ObjectParts
<1>3. VmOf(call[c].obj) \in Launches /\ IsMade(call[c].obj)
  BY <1>1, <1>2, CallerFacts, ObjectParts DEF VmOf
<1>4. call[c].vm = 0 /\ call[c].pc # "growing"
  BY CallerFacts DEF CallOK, Holding
<1>. QED
  BY <1>1, <1>2, <1>3, <1>4

LEMMA GotoHolding ==
    ASSUME FleetInv, NEW c \in Callers, call[c].pc \in Holding, NEW pc \in Holding, Goto(c, pc), UNCHANGED ledger
    PROVE  LedgerStep(c) /\ \E r \in CallType : Becomes(c, r) /\ Ready(r) /\ (r.obj # NoObject => IsMade(r.obj))
<1>1. call[c] \in CallType /\ call[c].obj \in Objects /\ IsMade(call[c].obj) /\ call[c].vm = 0
  BY Leaseholder
<1>2. PICK r : r = [call[c] EXCEPT !.pc = pc]
  OBVIOUS
<1>3. r \in CallType
  BY <1>1, <1>2 DEF CallType, Pcs, Holding
<1>4. r.pc = pc /\ r.obj = call[c].obj /\ r.reserved = call[c].reserved /\ r.vm = 0
  BY <1>1, <1>2 DEF CallType
<1>5. Becomes(c, r)
  BY <1>2 DEF Goto
<1>6. Ready(r)
  BY <1>1, <1>4, ObjectParts DEF Ready, Holding
<1>7. LedgerStep(c)
  BY <1>3, <1>4, <1>5, KeepsLease
<1>. QED
  BY <1>1, <1>3, <1>4, <1>5, <1>6, <1>7

LEMMA FreeTurn ==
    ASSUME FleetInv, NEW c \in Callers, call[c].obj \in Objects, NEW keep \in BOOLEAN, unlease(c, keep),
           Becomes(c, Idle) \/ Becomes(c, Anew(c))
    PROVE  /\ LedgerStep(c) /\ sessions' \in [Callers -> MaybeVm]
           /\ \E r \in CallType : Becomes(c, r) /\ Ready(r) /\ (r.obj # NoObject => IsMade(r.obj))
<1>1. PICK r : (r = Idle \/ r = Anew(c)) /\ Becomes(c, r)
  OBVIOUS
<1>2. r \in CallType /\ Ready(r) /\ r.obj = NoObject /\ r.reserved = FALSE
  BY <1>1, Free DEF FleetInv
<1>. QED
  BY <1>1, <1>2, GivesLease

LEMMA probeOpensInv == ASSUME FleetInv, NEW c \in Callers, probeOpens(c) PROVE FleetInv'
<1>1. call[c].pc = "probing" /\ call[c].pc \in Holding /\ settings.open
  BY DEF probeOpens, At, Holding
<1>2. PICK o \in Objects : o = call[c].obj /\ VmOf(o) \in Launches
  BY <1>1, Leaseholder
<1>3. Calm(c)
  BY <1>1 DEF Calm, probeOpens, machines
<1>4. vm' = vm /\ members' = members /\ host' = [host EXCEPT ![o].open = TRUE]
  BY <1>2 DEF probeOpens, machines
<1>5. host' \in [Objects -> HostType] /\ \A p \in members' : ~isLost(host'[p])
  BY <1>4, TouchFacts
<1>6. /\ LedgerStep(c) /\ sessions' \in [Callers -> MaybeVm]
      /\ \E r \in CallType : Becomes(c, r) /\ Ready(r) /\ (r.obj # NoObject => IsMade(r.obj))
  <2>1. CASE remember(c, VmOf(o)) /\ Goto(c, "leased") /\ UNCHANGED ledger
    <3>1. "leased" \in Holding
      BY DEF Holding
    <3>. QED
      BY <1>1, <1>2, <2>1, <3>1, GotoHolding, RememberFacts
  <2>2. CASE unlease(c, FALSE) /\ Becomes(c, Anew(c))
    BY <1>2, <2>2, FreeTurn
  <2>3. CASE Goto(c, "pinging") /\ UNCHANGED <<ledger, sessions>>
    <3>1. "pinging" \in Holding
      BY DEF Holding
    <3>. QED
      BY <1>1, <2>3, <3>1, GotoHolding, SameSessions
  <2>. QED
    BY <1>2, <2>1, <2>2, <2>3 DEF probeOpens
<1>. QED
  BY <1>3, <1>4, <1>5, <1>6, Turn, SameVms

(* #replace by a caller that keeps its lease, or by one without one.       *)
LEMMA ReplaceHolding ==
    ASSUME FleetInv, NEW c \in Callers, call[c].pc \in Holding, NEW o \in Objects, NEW then \in {"place", "error"},
           replace(c, call[c], o, then), UNCHANGED ledger
    PROVE  /\ LedgerStep(c) /\ members' = members \ {o}
           /\ \E r \in CallType : Becomes(c, r) /\ Ready(r) /\ (r.obj # NoObject => IsMade(r.obj))
<1>1. call[c] \in CallType /\ call[c].obj \in Objects /\ IsMade(call[c].obj) /\ call[c].vm = 0
  BY Leaseholder
<1>2. PICK r : r = Terminating(call[c], o, then)
  OBVIOUS
<1>3. then \in Thens
  BY DEF Thens
<1>4. /\ r \in CallType /\ r.pc = "terminating" /\ r.subject = o /\ r.obj = call[c].obj
      /\ r.reserved = call[c].reserved /\ r.vm = 0 /\ r.then = then
  BY <1>1, <1>2, <1>3, TerminatingFields
<1>5. Becomes(c, r) /\ members' = members \ {o}
  BY <1>2 DEF replace
<1>6. Ready(r)
  BY <1>1, <1>4, ObjectParts DEF Ready, Holding
<1>7. LedgerStep(c)
  BY <1>4, <1>5, KeepsLease
<1>. QED
  BY <1>1, <1>4, <1>5, <1>6, <1>7

LEMMA ReplaceFree ==
    ASSUME FleetInv, NEW c \in Callers, NEW o \in Objects, replace(c, Anew(c), o, "error")
    PROVE  /\ members' = members \ {o}
           /\ \E r \in CallType : Becomes(c, r) /\ Ready(r) /\ r.obj = NoObject /\ r.reserved = FALSE
<1>1. PICK t : t = Anew(c)
  OBVIOUS
<1>2. t \in CallType /\ t.obj = NoObject /\ t.reserved = FALSE /\ t.vm = 0
  BY <1>1, AnewFields DEF FleetInv
<1>3. PICK r : r = Terminating(t, o, "error")
  OBVIOUS
<1>4. "error" \in Thens
  BY DEF Thens
<1>5. /\ r \in CallType /\ r.pc = "terminating" /\ r.subject = o /\ r.obj = NoObject
      /\ r.reserved = FALSE /\ r.vm = 0 /\ r.then = "error"
  BY <1>2, <1>3, <1>4, TerminatingFields
<1>6. Becomes(c, r) /\ members' = members \ {o}
  BY <1>1, <1>3 DEF replace
<1>7. Ready(r)
  BY <1>5 DEF Ready, Holding
<1>. QED
  BY <1>5, <1>6, <1>7

LEMMA probeNotFoundInv == ASSUME FleetInv, NEW c \in Callers, probeNotFound(c) PROVE FleetInv'
<1>1. call[c].pc = "probing" /\ call[c].pc \in Holding /\ settings.open
  BY DEF probeNotFound, At, Holding
<1>2. call[c].obj \in Objects
  BY <1>1, Leaseholder
<1>3. Calm(c)
  BY <1>1 DEF Calm, probeNotFound
<1>4. unlease(c, FALSE) /\ Becomes(c, Anew(c)) /\ members' \subseteq members /\ vm' = vm /\ host' = host
  BY DEF probeNotFound
<1>5. /\ LedgerStep(c) /\ sessions' \in [Callers -> MaybeVm]
      /\ \E r \in CallType : Becomes(c, r) /\ Ready(r) /\ (r.obj # NoObject => IsMade(r.obj))
  BY <1>2, <1>4, FreeTurn
<1>. QED
  BY <1>3, <1>4, <1>5, Turn, SameVms, SameHosts

LEMMA probeThrowsInv == ASSUME FleetInv, NEW c \in Callers, probeThrows(c) PROVE FleetInv'
<1>1. call[c].pc \in Holding /\ settings.open
  BY DEF probeThrows, At, Holding
<1>2. call[c].obj \in Objects /\ call[c].pc # "growing"
  BY <1>1, Leaseholder
<1>3. Calm(c)
  BY <1>1, <1>2 DEF Calm, probeThrows, machines
<1>4. leak(c) /\ Becomes(c, Idle) /\ members' \subseteq members /\ vm' = vm /\ host' = host
  BY DEF probeThrows, machines
<1>5. Idle \in CallType /\ Ready(Idle) /\ Idle.obj = NoObject /\ Idle.reserved = FALSE
  BY Free DEF FleetInv
<1>6. LedgerStep(c) /\ sessions' \in [Callers -> MaybeVm]
  BY <1>2, <1>4, <1>5, LeavesLease
<1>. QED
  BY <1>3, <1>4, <1>5, <1>6, Turn, SameVms, SameHosts

LEMMA probePingsInv == ASSUME FleetInv, NEW c \in Callers, probePings(c) PROVE FleetInv'
<1>1. call[c].pc = "pinging" /\ call[c].pc \in Holding /\ settings.open
  BY DEF probePings, At, Holding
<1>2. PICK o \in Objects : o = call[c].obj /\ VmOf(o) \in Launches
  BY <1>1, Leaseholder
<1>3. Calm(c)
  BY <1>1 DEF Calm, probePings
<1>ping. PICK s \in pings(o) :
        \E memo :
          /\ memo = recordPing(host[o], s)
          /\ host' = [host EXCEPT ![o] = memo]
          /\ \/ /\ isLost(memo) /\ replace(c, call[c], o, "place") /\ UNCHANGED <<ledger, sessions>>
             \/ /\ ~isLost(memo) /\ s = "healthy" /\ remember(c, VmOf(o))
                /\ Goto(c, "leased") /\ UNCHANGED <<ledger, members>>
             \/ /\ ~isLost(memo) /\ s # "healthy" /\ unlease(c, FALSE)
                /\ Becomes(c, Anew(c)) /\ UNCHANGED members
  BY <1>2 DEF probePings
<1>4. PICK memo :
        /\ memo = recordPing(host[o], s)
        /\ host' = [host EXCEPT ![o] = memo]
        /\ \/ /\ isLost(memo) /\ replace(c, call[c], o, "place") /\ UNCHANGED <<ledger, sessions>>
           \/ /\ ~isLost(memo) /\ s = "healthy" /\ remember(c, VmOf(o))
              /\ Goto(c, "leased") /\ UNCHANGED <<ledger, members>>
           \/ /\ ~isLost(memo) /\ s # "healthy" /\ unlease(c, FALSE)
              /\ Becomes(c, Anew(c)) /\ UNCHANGED members
  BY <1>ping
<1>5. vm' = vm
  BY DEF probePings
<1>6. /\ LedgerStep(c) /\ sessions' \in [Callers -> MaybeVm]
      /\ \E r \in CallType : Becomes(c, r) /\ Ready(r) /\ (r.obj # NoObject => IsMade(r.obj))
      /\ members' \subseteq members /\ (isLost(memo) => o \notin members')
  <2>1. CASE isLost(memo) /\ replace(c, call[c], o, "place") /\ UNCHANGED <<ledger, sessions>>
    BY <1>1, <2>1, ReplaceHolding, SameSessions
  <2>2. CASE ~isLost(memo) /\ remember(c, VmOf(o)) /\ Goto(c, "leased") /\ UNCHANGED <<ledger, members>>
    <3>1. "leased" \in Holding
      BY DEF Holding
    <3>. QED
      BY <1>1, <1>2, <2>2, <3>1, GotoHolding, RememberFacts
  <2>3. CASE ~isLost(memo) /\ unlease(c, FALSE) /\ Becomes(c, Anew(c)) /\ UNCHANGED members
    BY <1>2, <2>3, FreeTurn
  <2>. QED
    BY <1>4, <2>1, <2>2, <2>3
<1>7. host' \in [Objects -> HostType] /\ \A p \in members' : ~isLost(host'[p])
  BY <1>4, <1>6, PingFacts
<1>. QED
  BY <1>3, <1>5, <1>6, <1>7, Turn, SameVms

LEMMA parkedSlotFailsInv == ASSUME FleetInv, NEW c \in Callers, parkedSlotFails(c) PROVE FleetInv'
<1>1. call[c].pc \in Holding /\ settings.open
  BY DEF parkedSlotFails, At, Holding
<1>2. PICK o \in Objects : o = call[c].obj
  BY <1>1, Leaseholder
<1>3. Calm(c)
  BY <1>1, Leaseholder DEF Calm, parkedSlotFails
<1>4. PICK then \in {"place", "error"} : replace(c, call[c], o, then)
  BY <1>2 DEF parkedSlotFails
<1>5. UNCHANGED ledger /\ vm' = vm /\ host' = host /\ sessions' = sessions
  BY DEF parkedSlotFails
<1>6. /\ LedgerStep(c) /\ members' \subseteq members
      /\ \E r \in CallType : Becomes(c, r) /\ Ready(r) /\ (r.obj # NoObject => IsMade(r.obj))
  BY <1>1, <1>4, <1>5, ReplaceHolding
<1>. QED
  BY <1>3, <1>5, <1>6, Turn, SameVms, SameHosts, SameSessions

LEMMA beginsInv == ASSUME FleetInv, NEW c \in Callers, begins(c) PROVE FleetInv'
<1>1. call[c].pc = "leased" /\ call[c].pc \in Holding /\ "running" \in Holding /\ settings.open
  BY DEF begins, At, Holding
<1>2. PICK o \in Objects : o = call[c].obj
  BY <1>1, Leaseholder
<1>3. Calm(c)
  BY <1>1 DEF Calm, begins, machines
<1>4. /\ vm' = vm /\ members' = members /\ sessions' = sessions /\ UNCHANGED ledger
      /\ host' = [host EXCEPT ![o].open = TRUE] /\ Goto(c, "running")
  BY <1>2 DEF begins, machines
<1>5. host' \in [Objects -> HostType] /\ \A p \in members' : ~isLost(host'[p])
  BY <1>4, TouchFacts
<1>6. LedgerStep(c) /\ \E r \in CallType : Becomes(c, r) /\ Ready(r) /\ (r.obj # NoObject => IsMade(r.obj))
  BY <1>1, <1>4, GotoHolding
<1>. QED
  BY <1>3, <1>4, <1>5, <1>6, Turn, SameVms, SameSessions

LEMMA vmLostInv == ASSUME FleetInv, NEW c \in Callers, vmLost(c) PROVE FleetInv'
<1>1. call[c].pc \in Holding /\ settings.open
  BY DEF vmLost, At, Holding
<1>2. PICK o \in Objects : o = call[c].obj
  BY <1>1, Leaseholder
<1>3. Calm(c)
  BY <1>1, Leaseholder DEF Calm, vmLost
<1>4. unlease(c, FALSE) /\ replace(c, Anew(c), o, "error") /\ vm' = vm /\ host' = host
  BY <1>2 DEF vmLost
<1>5. members' \subseteq members
  BY <1>4, ReplaceFree
<1>6. PICK r \in CallType : Becomes(c, r) /\ Ready(r) /\ r.obj = NoObject /\ r.reserved = FALSE
  BY <1>4, ReplaceFree
<1>7. LedgerStep(c) /\ sessions' \in [Callers -> MaybeVm]
  BY <1>2, <1>4, <1>6, GivesLease
<1>. QED
  BY <1>3, <1>4, <1>5, <1>6, <1>7, Turn, SameVms, SameHosts

LEMMA waitForCapacityInv == ASSUME FleetInv, NEW c \in Callers, waitForCapacity(c) PROVE FleetInv'
<1>1. call[c].pc = "running" /\ call[c].pc \in Holding /\ settings.open
  BY DEF waitForCapacity, At, Holding
<1>2. PICK o \in Objects : o = call[c].obj
  BY <1>1, Leaseholder
<1>3. Calm(c)
  BY <1>1 DEF Calm, waitForCapacity, machines
<1>4. /\ vm' = vm /\ members' = members /\ host' = [host EXCEPT ![o].health = "busy"]
      /\ unlease(c, FALSE) /\ (Becomes(c, Anew(c)) \/ Becomes(c, Idle))
  BY <1>2 DEF waitForCapacity, machines
<1>5. host' \in [Objects -> HostType] /\ \A p \in members' : ~isLost(host'[p])
  BY <1>4, TouchFacts
<1>6. /\ LedgerStep(c) /\ sessions' \in [Callers -> MaybeVm]
      /\ \E r \in CallType : Becomes(c, r) /\ Ready(r) /\ (r.obj # NoObject => IsMade(r.obj))
  BY <1>2, <1>4, FreeTurn
<1>. QED
  BY <1>3, <1>4, <1>5, <1>6, Turn, SameVms

LEMMA succeedsInv == ASSUME FleetInv, NEW c \in Callers, succeeds(c) \/ agentFails(c) PROVE FleetInv'
<1>1. call[c].pc \in Holding /\ settings.open
  BY DEF succeeds, agentFails, At, Holding
<1>2. call[c].obj \in Objects /\ call[c].pc # "growing"
  BY <1>1, Leaseholder
<1>3. Calm(c)
  BY <1>1, <1>2 DEF Calm, succeeds, agentFails, machines
<1>4. vm' = vm /\ members' = members /\ host' = host /\ Becomes(c, Idle)
  BY DEF succeeds, agentFails, machines
<1>5. PICK keep \in BOOLEAN : unlease(c, keep)
  BY DEF succeeds, agentFails
<1>6. /\ LedgerStep(c) /\ sessions' \in [Callers -> MaybeVm]
      /\ \E r \in CallType : Becomes(c, r) /\ Ready(r) /\ (r.obj # NoObject => IsMade(r.obj))
  BY <1>2, <1>4, <1>5, FreeTurn
<1>. QED
  BY <1>3, <1>4, <1>6, Turn, SameVms, SameHosts

(* A caller that is doing something for which it needs no lease.           *)
LEMMA Unleased ==
    ASSUME FleetInv, NEW c \in Callers, call[c].pc \notin Holding,
           call[c].pc \in {"terminating", "filling"} => call[c].then \notin {"place", "error"}
    PROVE  call[c] \in CallType /\ call[c].obj = NoObject /\ call[c].reserved = FALSE
<1>1. call[c] \in CallType /\ CallOK(c)
  BY CallerFacts
<1>2. call[c].reserved \in BOOLEAN
  BY <1>1, CallFields
<1>. QED
  BY <1>1, <1>2 DEF CallOK

LEMMA transportFailsInv == ASSUME FleetInv, NEW c \in Callers, transportFails(c) PROVE FleetInv'
<1>1. call[c].pc = "running" /\ call[c].pc \in Holding /\ settings.open
  BY DEF transportFails, At, Holding
<1>2. PICK o \in Objects : o = call[c].obj
  BY <1>1, Leaseholder
<1>3. Calm(c)
  BY <1>1 DEF Calm, transportFails, machines
<1>4. PICK t : t = Anew(c)
  OBVIOUS
<1>5. t \in CallType /\ t.obj = NoObject /\ t.reserved = FALSE /\ t.vm = 0
  BY <1>4, AnewFields DEF FleetInv
<1>6. PICK r : r = [t EXCEPT !.pc = "noting", !.subject = o]
  OBVIOUS
<1>7. r \in CallType
  BY <1>5, <1>6 DEF CallType, Pcs, MaybeObject
<1>8. r.pc = "noting" /\ r.subject = o /\ r.obj = NoObject /\ r.reserved = FALSE /\ r.vm = 0
  BY <1>5, <1>6 DEF CallType
<1>9. unlease(c, FALSE) /\ Becomes(c, r) /\ vm' = vm /\ members' = members /\ host' = host
  BY <1>2, <1>4, <1>6 DEF transportFails, machines
<1>10. LedgerStep(c) /\ sessions' \in [Callers -> MaybeVm]
  BY <1>2, <1>7, <1>8, <1>9, GivesLease
<1>11. Ready(r)
  BY <1>8 DEF Ready, Holding
<1>. QED
  BY <1>3, <1>7, <1>8, <1>9, <1>10, <1>11, Turn, SameVms, SameHosts

LEMMA noteTransportFailureInv == ASSUME FleetInv, NEW c \in Callers, noteTransportFailure(c) PROVE FleetInv'
<1>1. call[c].pc = "noting" /\ call[c].pc \notin Holding /\ settings.open
  BY DEF noteTransportFailure, At, Holding
<1>2. call[c].obj = NoObject /\ call[c].reserved = FALSE
  BY <1>1, Unleased
<1>3. PICK o \in Objects : o = call[c].subject
  BY <1>1, CallerFacts DEF CallOK
<1>4. Calm(c)
  BY <1>1 DEF Calm, noteTransportFailure
<1>ping. PICK s \in pings(o) :
        \E memo :
          /\ memo = recordPing(host[o], s)
          /\ host' = [host EXCEPT ![o] = memo]
          /\ \/ isLost(memo) /\ replace(c, Anew(c), o, "error")
             \/ ~isLost(memo) /\ Becomes(c, Idle) /\ UNCHANGED members
  BY <1>3 DEF noteTransportFailure
<1>5. PICK memo :
        /\ memo = recordPing(host[o], s)
        /\ host' = [host EXCEPT ![o] = memo]
        /\ \/ isLost(memo) /\ replace(c, Anew(c), o, "error")
           \/ ~isLost(memo) /\ Becomes(c, Idle) /\ UNCHANGED members
  BY <1>ping
<1>6. vm' = vm /\ sessions' = sessions /\ UNCHANGED ledger
  BY DEF noteTransportFailure
<1>7. /\ \E r \in CallType : Becomes(c, r) /\ Ready(r) /\ r.obj = NoObject /\ r.reserved = FALSE
      /\ members' \subseteq members /\ (isLost(memo) => o \notin members')
  <2>1. CASE isLost(memo) /\ replace(c, Anew(c), o, "error")
    BY <2>1, ReplaceFree
  <2>2. CASE ~isLost(memo) /\ Becomes(c, Idle) /\ UNCHANGED members
    <3>1. Idle \in CallType /\ Ready(Idle) /\ Idle.obj = NoObject /\ Idle.reserved = FALSE
      BY Free DEF FleetInv
    <3>. QED
      BY <2>2, <3>1
  <2>. QED
    BY <1>5, <2>1, <2>2
<1>8. PICK r \in CallType : Becomes(c, r) /\ Ready(r) /\ r.obj = NoObject /\ r.reserved = FALSE
  BY <1>7
<1>9. LedgerStep(c)
  BY <1>2, <1>6, <1>8, KeepsLease
<1>10. host' \in [Objects -> HostType] /\ \A p \in members' : ~isLost(host'[p])
  BY <1>5, <1>7, PingFacts
<1>. QED
  BY <1>4, <1>6, <1>7, <1>8, <1>9, <1>10, Turn, SameVms, SameSessions

LEMMA terminateInv == ASSUME FleetInv, NEW c \in Callers, terminate(c) PROVE FleetInv'
<1>1. call[c].pc = "terminating" /\ call[c].pc \notin Holding /\ settings.open
  BY DEF terminate, At, Holding
<1>2. /\ call[c] \in CallType /\ CallOK(c) /\ call[c].vm = 0 /\ call[c].subject \in Objects
      /\ (call[c].obj # NoObject => call[c].obj \in Objects /\ IsMade(call[c].obj))
  BY <1>1, CallerFacts DEF CallOK
<1>3. call[c].todo \in SUBSET Objects /\ call[c].then \in Thens /\ members \in SUBSET Objects
  BY <1>2, CallFields DEF FleetInv, Typed
<1>4. Calm(c)
  BY <1>1 DEF Calm, terminate
<1>5. vm' \in VmType /\ \A v \in Launches : vm'[v] = "absent" => vm[v] = "absent"
  <2>1. VmOf(call[c].subject) \in Launches
    BY <1>2, ObjectParts DEF VmOf
  <2>2. vm \in VmType
    BY DEF FleetInv, Typed, VmType
  <2>3. vm' = vm \/ vm' = [vm EXCEPT ![VmOf(call[c].subject)] = "gone"]
    BY DEF terminate
  <2>. QED
    BY <2>1, <2>2, <2>3 DEF VmType
<1>6. sessions' = sessions /\ host' = host /\ UNCHANGED ledger
  BY DEF terminate
<1>7. CASE call[c].then \in {"stop", "reconcile"} /\ sweep(c, call[c], call[c].todo, members)
  <2>1. call[c].obj = NoObject /\ call[c].reserved = FALSE
    BY <1>1, <1>7, Unleased
  <2>2. /\ members' \subseteq members
        /\ \E s \in CallType : Becomes(c, s) /\ Ready(s) /\ s.obj = NoObject /\ s.reserved = FALSE
    BY <1>2, <1>3, <1>7, <2>1, SweepFacts
  <2>3. PICK s \in CallType : Becomes(c, s) /\ Ready(s) /\ s.obj = NoObject /\ s.reserved = FALSE
    BY <2>2
  <2>4. LedgerStep(c)
    BY <1>6, <2>1, <2>3, KeepsLease
  <2>. QED
    BY <1>4, <1>5, <1>6, <2>2, <2>3, <2>4, Turn, SameHosts, SameSessions
<1>8. CASE /\ call[c].then \notin {"stop", "reconcile"} /\ members' = members
           /\ Becomes(c, Filling(call[c], members))
  <2>1. PICK r : r = Filling(call[c], members)
    OBVIOUS
  <2>2. /\ r \in CallType /\ r.pc = "filling" /\ r.obj = call[c].obj
        /\ r.reserved = call[c].reserved /\ r.vm = 0 /\ r.then = call[c].then
    BY <1>2, <1>3, <2>1, FillingFields DEF FleetInv
  <2>3. Ready(r)
    BY <1>1, <1>2, <2>2 DEF Ready, CallOK, Holding
  <2>4. LedgerStep(c) /\ Becomes(c, r)
    BY <1>6, <1>8, <2>1, <2>2, KeepsLease
  <2>. QED
    BY <1>2, <1>4, <1>5, <1>6, <1>8, <2>2, <2>3, <2>4, Turn, SameHosts, SameSessions
<1>. QED
  BY <1>7, <1>8 DEF terminate

(* The lease of a caller that made a replacement, if it had one.           *)
LEMMA GivesBack ==
    ASSUME FleetInv, NEW c \in Callers, NEW r \in CallType, Becomes(c, r), giveBack(c),
           r.obj = NoObject, r.reserved = FALSE
    PROVE  LedgerStep(c) /\ sessions' \in [Callers -> MaybeVm]
<1>1. CASE call[c].obj = NoObject
  <2>1. call[c].reserved = FALSE
    BY <1>1, CallerFacts, CallFields DEF CallOK
  <2>2. UNCHANGED ledger /\ sessions' = sessions
    BY <1>1 DEF giveBack
  <2>. QED
    BY <1>1, <2>1, <2>2, KeepsLease, SameSessions
<1>2. CASE call[c].obj # NoObject
  BY <1>2, GivesLease, CallerFacts DEF giveBack
<1>. QED
  BY <1>1, <1>2

LEMMA fillEndsInv == ASSUME FleetInv, NEW c \in Callers, fillEnds(c) PROVE FleetInv'
<1>1. call[c].pc = "filling" /\ call[c].left = 0 /\ settings.open
  BY DEF fillEnds, At
<1>2. call[c] \in CallType /\ call[c].vm = 0
  BY <1>1, CallerFacts DEF CallOK
<1>3. Calm(c)
  BY <1>1 DEF Calm, fillEnds, machines
<1>4. vm' = vm /\ members' = members /\ host' = host /\ giveBack(c)
  BY DEF fillEnds, machines
<1>5. PICK r \in CallType : Becomes(c, r) /\ Ready(r) /\ r.obj = NoObject /\ r.reserved = FALSE
  <2>1. CASE call[c].then = "place" /\ Becomes(c, Anew(c))
    BY <2>1, Free DEF FleetInv
  <2>2. CASE call[c].then = "status" /\ Becomes(c, [call[c] EXCEPT !.pc = "checking"])
    <3>1. PICK s : s = [call[c] EXCEPT !.pc = "checking"]
      OBVIOUS
    <3>2. call[c].obj = NoObject /\ call[c].reserved = FALSE
      BY <1>1, <2>2, Unleased DEF Holding
    <3>3. s \in CallType
      BY <1>2, <3>1 DEF CallType, Pcs
    <3>4. s.pc = "checking" /\ s.obj = NoObject /\ s.reserved = FALSE /\ s.vm = 0
      BY <1>2, <3>1, <3>2 DEF CallType
    <3>5. Ready(s)
      BY <3>4 DEF Ready, Holding
    <3>. QED
      BY <2>2, <3>1, <3>3, <3>4, <3>5
  <2>3. CASE Becomes(c, Idle)
    BY <2>3, Free DEF FleetInv
  <2>. QED
    BY <2>1, <2>2, <2>3 DEF fillEnds
<1>6. LedgerStep(c) /\ sessions' \in [Callers -> MaybeVm]
  BY <1>4, <1>5, GivesBack
<1>. QED
  BY <1>3, <1>4, <1>5, <1>6, Turn, SameVms, SameHosts

LEMMA fillThrowsInv == ASSUME FleetInv, NEW c \in Callers, fillThrows(c) PROVE FleetInv'
<1>1. call[c].pc = "filling" /\ settings.open
  BY DEF fillThrows, At
<1>2. call[c] \in CallType /\ CallOK(c) /\ call[c].vm \in MaybeVm
  BY CallerFacts, CallFields
<1>3. Calm(c)
  BY <1>1 DEF Calm, fillThrows
<1>4. members' = members /\ host' = host /\ Becomes(c, Idle) /\ LaunchFails(call[c].vm)
  BY DEF fillThrows
<1>5. Idle \in CallType /\ Ready(Idle) /\ Idle.obj = NoObject /\ Idle.reserved = FALSE
  BY Free DEF FleetInv
<1>6. LedgerStep(c) /\ sessions' \in [Callers -> MaybeVm]
  <2>1. CASE call[c].then = "place"
    <3>1. leak(c) /\ call[c].obj \in Objects
      BY <1>1, <1>2, <2>1 DEF fillThrows, CallOK
    <3>. QED
      BY <1>4, <1>5, <3>1, LeavesLease
  <2>2. CASE call[c].then # "place"
    <3>1. giveBack(c)
      BY <2>2 DEF fillThrows
    <3>. QED
      BY <1>4, <1>5, <3>1, GivesBack
  <2>. QED
    BY <2>1, <2>2
<1>7. vm' \in VmType /\ \A w \in Launches : vm'[w] = "absent" => vm[w] = "absent"
  BY <1>2, <1>4, LaunchFailsFacts
<1>. QED
  BY <1>3, <1>4, <1>5, <1>6, <1>7, Turn, SameHosts

LEMMA listMembersInv == ASSUME FleetInv, NEW c \in Callers, listMembers(c) PROVE FleetInv'
<1>1. call[c].pc = "listing" /\ call[c].pc \notin Holding /\ settings.open
  BY DEF listMembers, At, Holding
<1>2. call[c] \in CallType /\ call[c].obj = NoObject /\ call[c].reserved = FALSE /\ call[c].vm = 0
  BY <1>1, Unleased, CallerFacts DEF CallOK
<1>3. Calm(c)
  BY <1>1 DEF Calm, listMembers, machines
<1>4. vm' = vm /\ members' = members /\ host' = host /\ sessions' = sessions /\ UNCHANGED ledger
  BY DEF listMembers, machines
<1>5. PICK r \in CallType : Becomes(c, r) /\ Ready(r) /\ r.obj = NoObject /\ r.reserved = FALSE
  <2>1. CASE \E L \in SUBSET {v \in Launches : vm[v] \in {"up", "booting"}} :
               Becomes(c, [call[c] EXCEPT !.pc = "listed", !.listing = L])
    <3>1. PICK L \in SUBSET Launches : Becomes(c, [call[c] EXCEPT !.pc = "listed", !.listing = L])
      BY <2>1
    <3>2. PICK s : s = [call[c] EXCEPT !.pc = "listed", !.listing = L]
      OBVIOUS
    <3>3. s \in CallType
      BY <1>2, <3>2 DEF CallType, Pcs
    <3>4. s.pc = "listed" /\ s.obj = NoObject /\ s.reserved = FALSE /\ s.vm = 0
      BY <1>2, <3>2 DEF CallType
    <3>5. Ready(s)
      BY <3>4 DEF Ready, Holding
    <3>. QED
      BY <3>1, <3>2, <3>3, <3>4, <3>5
  <2>2. CASE Becomes(c, Idle)
    BY <2>2, Free DEF FleetInv
  <2>. QED
    BY <2>1, <2>2 DEF listMembers
<1>6. LedgerStep(c)
  BY <1>2, <1>4, <1>5, KeepsLease
<1>. QED
  BY <1>3, <1>4, <1>5, <1>6, Turn, SameVms, SameHosts, SameSessions

LEMMA statusPingsInv == ASSUME FleetInv, NEW c \in Callers, statusPings(c) PROVE FleetInv'
<1>1. call[c].pc = "checking" /\ call[c].pc \notin Holding /\ settings.open
  BY DEF statusPings, At, Holding
<1>2. call[c] \in CallType /\ call[c].obj = NoObject /\ call[c].reserved = FALSE /\ call[c].vm = 0
  BY <1>1, Unleased, CallerFacts DEF CallOK
<1>3. Calm(c)
  BY <1>1 DEF Calm, statusPings
<1>4. vm' = vm /\ sessions' = sessions /\ UNCHANGED ledger
  BY DEF statusPings
<1>5. call[c].todo \subseteq Objects
  BY <1>2, CallFields
<1>6. CASE Becomes(c, Idle) /\ UNCHANGED <<members, host>>
  <2>1. Idle \in CallType /\ Ready(Idle) /\ Idle.obj = NoObject /\ Idle.reserved = FALSE
    BY Free DEF FleetInv
  <2>2. LedgerStep(c)
    BY <1>2, <1>4, <1>6, <2>1, KeepsLease
  <2>. QED
    BY <1>3, <1>4, <1>6, <2>1, <2>2, Turn, SameVms, SameHosts, SameSessions
<1>7. ASSUME NEW o \in call[c].todo, NEW s \in pings(o), NEW memo, NEW rest,
             memo = recordPing(host[o], s), rest = [call[c] EXCEPT !.todo = @ \ {o}],
             host' = [host EXCEPT ![o] = memo],
             \/ isLost(memo) /\ replace(c, rest, o, "status")
             \/ ~isLost(memo) /\ Becomes(c, rest) /\ UNCHANGED members
      PROVE  FleetInv'
  <2>1. o \in Objects
    BY <1>5
  <2>2. rest \in CallType
    BY <1>2, <1>5, <1>7 DEF CallType
  <2>3. rest.pc = "checking" /\ rest.obj = NoObject /\ rest.reserved = FALSE /\ rest.vm = 0
    BY <1>1, <1>2, <1>7 DEF CallType
  <2>4. /\ \E r \in CallType : Becomes(c, r) /\ Ready(r) /\ r.obj = NoObject /\ r.reserved = FALSE
        /\ members' \subseteq members /\ (isLost(memo) => o \notin members')
    <3>1. CASE isLost(memo) /\ replace(c, rest, o, "status")
      <4>1. "status" \in Thens
        BY DEF Thens
      <4>2. PICK r : r = Terminating(rest, o, "status")
        OBVIOUS
      <4>3. /\ r \in CallType /\ r.pc = "terminating" /\ r.subject = o /\ r.obj = NoObject
            /\ r.reserved = FALSE /\ r.vm = 0 /\ r.then = "status"
        BY <2>1, <2>2, <2>3, <4>1, <4>2, TerminatingFields
      <4>4. Ready(r)
        BY <2>1, <4>3 DEF Ready, Holding
      <4>. QED
        BY <3>1, <4>2, <4>3, <4>4 DEF replace
    <3>2. CASE ~isLost(memo) /\ Becomes(c, rest) /\ UNCHANGED members
      <4>1. Ready(rest)
        BY <2>3 DEF Ready, Holding
      <4>. QED
        BY <2>2, <2>3, <3>2, <4>1
    <3>. QED
      BY <1>7, <3>1, <3>2
  <2>5. PICK r \in CallType : Becomes(c, r) /\ Ready(r) /\ r.obj = NoObject /\ r.reserved = FALSE
    BY <2>4
  <2>6. LedgerStep(c)
    BY <1>2, <1>4, <2>5, KeepsLease
  <2>7. host' \in [Objects -> HostType] /\ \A p \in members' : ~isLost(host'[p])
    BY <1>7, <2>1, <2>4, PingFacts
  <2>. QED
    BY <1>3, <1>4, <2>4, <2>5, <2>6, <2>7, Turn, SameVms, SameSessions
<1>. QED
  BY <1>6, <1>7 DEF statusPings

-----------------------------------------------------------------------------
(* The last member object of a VM exists: the numbers it could have are    *)
(* bounded, so one of them leaves the least room above it.                 *)
LEMMA LeastNumber == ASSUME NEW T \in SUBSET Nat, T # {} PROVE \E m \in T : \A k \in T : m <= k
<1>1. PICK R : R = OpToRel(<, Nat)
  OBVIOUS
<1>2. IsWellFoundedOn(R, Nat)
  BY <1>1, NatLessThanWellFounded
<1>3. PICK m \in T : \A k \in T : ~(<<k, m>> \in R)
  BY <1>2, WFMin
<1>4. \A k \in T : k < m => <<k, m>> \in R
  BY <1>1 DEF OpToRel
<1>5. m \in Nat /\ \A k \in T : k \in Nat /\ ~(k < m)
  BY <1>3, <1>4
<1>6. \A k \in T : m <= k
  BY <1>5
<1>. QED
  BY <1>6

LEMMA LastExists ==
    ASSUME Typed, NEW v \in Launches, find(v) # {}
    PROVE  lastOf(v) \in find(v)
<1>1. find(v) \subseteq Objects
  BY DEF Typed, find
<1>2. \A o \in find(v) : o[2] \in Nat /\ MaxObjects - o[2] \in Nat
  BY <1>1, ObjectParts, FleetAssumption
<1>. DEFINE T == {MaxObjects - o[2] : o \in find(v)}
<1>3. T \in SUBSET Nat /\ T # {}
  BY <1>2
<1>4. PICK m \in T : \A k \in T : m <= k
  BY <1>3, LeastNumber
<1>5. PICK o \in find(v) : m = MaxObjects - o[2]
  BY <1>4
<1>6. \A p \in find(v) : p[2] <= o[2]
  <2>. SUFFICES ASSUME NEW p \in find(v) PROVE p[2] <= o[2]
    OBVIOUS
  <2>1. MaxObjects - p[2] \in T
    OBVIOUS
  <2>2. MaxObjects - o[2] <= MaxObjects - p[2]
    BY <1>4, <1>5, <2>1
  <2>. QED
    BY <1>2, <2>2, FleetAssumption
<1>. QED
  BY <1>5, <1>6, Zenon DEF lastOf

(* The object a refresh has for a VM.                                      *)
LEMMA MemberOfFacts ==
    ASSUME Typed, NEW v \in Launches
    PROVE  /\ find(v) # {} => memberOf(v) \in members
           /\ find(v) = {} => memberOf(v) = <<v, made[v] + 1>> /\ memberOf(v) \notin members
<1>1. ASSUME find(v) # {} PROVE memberOf(v) \in members
  <2>1. lastOf(v) \in find(v)
    BY <1>1, LastExists
  <2>. QED
    BY <1>1, <2>1 DEF memberOf, find
<1>2. ASSUME find(v) = {} PROVE memberOf(v) = <<v, made[v] + 1>> /\ memberOf(v) \notin members
  <2>1. memberOf(v) = <<v, made[v] + 1>>
    BY <1>2 DEF memberOf
  <2>2. \A o \in members : VmOf(o) # v
    BY <1>2 DEF find
  <2>3. VmOf(memberOf(v)) = v
    BY <2>1 DEF VmOf
  <2>. QED
    BY <2>1, <2>2, <2>3
<1>. QED
  BY <1>1, <1>2

LEMMA RefreshFacts ==
    ASSUME FleetInv, NEW L \in SUBSET Launches, refreshMembers(L)
    PROVE  /\ made' \in [Launches -> Nat] /\ \A v \in Launches : made[v] <= made'[v]
           /\ \A v \in Launches : v \notin adopted' => made'[v] = made[v]
           /\ adopted \subseteq adopted' /\ adopted' \subseteq Launches
           /\ host' \in [Objects -> HostType]
           /\ Refreshed(L) \subseteq Objects
           /\ \A o \in Refreshed(L) : ~isLost(host'[o])
           /\ \A o \in Refreshed(L) : IsMade(o)'
           /\ adopted' = {} => Refreshed(L) \subseteq members
<1>1. Typed /\ MadeOK /\ LostNeverListed
  BY DEF FleetInv
<1>2. made \in [Launches -> Nat] /\ adopted \subseteq Launches /\ host \in [Objects -> HostType]
  BY <1>1 DEF Typed
<1>3. /\ Refreshed(L) \subseteq Objects
      /\ made' = [v \in Launches |-> IF v \in L /\ memberOf(v) \notin members THEN made[v] + 1 ELSE made[v]]
      /\ host' = [o \in Objects |-> IF o \in Refreshed(L) \ members THEN newMember(FALSE) ELSE host[o]]
      /\ adopted' = adopted \union {v \in L : find(v) = {}}
  BY DEF refreshMembers
<1>4. \A v \in L : /\ find(v) # {} => memberOf(v) \in members
                   /\ find(v) = {} => memberOf(v) = <<v, made[v] + 1>> /\ memberOf(v) \notin members
  BY <1>1, MemberOfFacts
<1>5. made' \in [Launches -> Nat] /\ \A v \in Launches : made[v] <= made'[v]
  BY <1>2, <1>3
<1>6. \A v \in Launches : v \notin adopted' => made'[v] = made[v]
  BY <1>3, <1>4
<1>7. newMember(FALSE) \in HostType /\ ~isLost(newMember(FALSE))
  BY FleetAssumption DEF newMember, HostType, isLost
<1>8. host' \in [Objects -> HostType]
  BY <1>2, <1>3, <1>7
<1>9. \A o \in Refreshed(L) : ~isLost(host'[o])
  <2>. SUFFICES ASSUME NEW o \in Refreshed(L) PROVE ~isLost(host'[o])
    OBVIOUS
  <2>1. host'[o] = IF o \in Refreshed(L) \ members THEN newMember(FALSE) ELSE host[o]
    BY <1>3
  <2>2. o \in members => ~isLost(host[o])
    BY <1>1 DEF LostNeverListed
  <2>. QED
    BY <1>7, <2>1, <2>2
<1>10. \A o \in Refreshed(L) : IsMade(o)'
  <2>. SUFFICES ASSUME NEW o \in Refreshed(L) PROVE IsMade(o)'
    OBVIOUS
  <2>1. PICK v \in L : o = memberOf(v)
    BY DEF Refreshed
  <2>2. o \in Objects /\ o[1] \in Launches /\ o[2] \in Nat
    BY <1>3, ObjectParts
  <2>3. made[o[1]] \in Nat /\ made'[o[1]] \in Nat /\ made[o[1]] <= made'[o[1]]
    BY <1>2, <1>5, <2>2
  <2>4. CASE find(v) # {}
    <3>1. o[2] <= made[o[1]]
      BY <1>1, <1>4, <2>1, <2>4 DEF MadeOK, IsMade
    <3>. QED
      BY <2>2, <2>3, <3>1 DEF IsMade
  <2>5. CASE find(v) = {}
    <3>1. o[1] = v /\ o[2] = made[v] + 1 /\ memberOf(v) \notin members
      BY <1>4, <2>1, <2>5
    <3>2. made'[v] = made[v] + 1
      BY <1>3, <3>1
    <3>. QED
      BY <2>2, <2>3, <3>1, <3>2 DEF IsMade
  <2>. QED
    BY <2>4, <2>5
<1>11. adopted' = {} => Refreshed(L) \subseteq members
  BY <1>3, <1>4 DEF Refreshed
<1>. QED
  BY <1>2, <1>3, <1>5, <1>6, <1>8, <1>9, <1>10, <1>11

LEMMA RefreshStep ==
    ASSUME FleetInv, NEW c \in Callers, NEW L \in SUBSET Launches, refreshMembers(L), members' \subseteq Refreshed(L),
           settings.open, settings' = settings, vm' = vm, growing' = growing, sessions' = sessions,
           replaced' = replaced, call[c].pc = "listed", NEW r \in CallType, Becomes(c, r), Ready(r), LedgerStep(c),
           r.obj # NoObject => r.obj \in Refreshed(L)
    PROVE  FleetInv'
<1>1. Typed /\ MadeOK /\ Owners /\ Counted
  BY DEF FleetInv
<1>2. call'[c] = r /\ Moves(c)
  BY <1>1, BecomesFacts DEF Moves
<1>3. CallOK(c)'
  BY <1>2 DEF CallOK, Ready
<1>4. /\ made' \in [Launches -> Nat] /\ \A v \in Launches : made[v] <= made'[v]
      /\ \A v \in Launches : v \notin adopted' => made'[v] = made[v]
      /\ adopted \subseteq adopted' /\ adopted' \subseteq Launches
      /\ host' \in [Objects -> HostType]
      /\ Refreshed(L) \subseteq Objects
  BY RefreshFacts
<1>5. \A o \in Refreshed(L) : IsMade(o)' /\ ~isLost(host'[o])
  BY RefreshFacts
<1>6. \A o \in Objects : call'[c].obj = o => IsMade(o)'
  BY <1>2, <1>5, ObjectParts
<1>7. \A v \in Launches : v \notin adopted' => made'[v] <= 1 /\ (vm'[v] = "absent" => made'[v] = 0)
  BY <1>1, <1>4 DEF MadeOK
<1>8. Owners'
  <2>1. \A d \in Callers : call'[d].vm # 0 => d # c /\ call'[d] = call[d] /\ call[d].vm \in Launches
    BY <1>1, <1>2, CallFields DEF Moves, Ready, Typed, MaybeVm
  <2>2. \A d, e \in Callers : (d # e /\ call'[d].vm = call'[e].vm) => call'[d].vm = 0
    BY <1>1, <2>1 DEF Owners
  <2>3. \A d \in Callers : (call'[d].vm # 0 /\ call'[d].vm \notin adopted') => made'[call'[d].vm] = 0
    BY <1>1, <1>4, <2>1 DEF Owners
  <2>. QED
    BY <2>2, <2>3 DEF Owners
<1>9. Counted'
  <2>1. c \notin Growers /\ c \notin Fillers /\ c \notin Growers' /\ c \notin Fillers'
    BY <1>2 DEF Growers, Fillers, Ready
  <2>2. Cardinality(Growers)' = Cardinality(Growers) /\ Cardinality(Fillers)' = Cardinality(Fillers)
        /\ Cardinality(Fillers) \in Nat
    BY <1>2, <2>1, LaunchersStep
  <2>3. ASSUME adopted' = {}
        PROVE  Cardinality(members') + growing' + Cardinality(Fillers)' <= settings'.maxVms + replaced'
    <3>1. adopted = {} /\ members' \subseteq members
      BY <1>4, <2>3, RefreshFacts
    <3>2. Cardinality(members') <= Cardinality(members)
          /\ Cardinality(members) \in Nat /\ Cardinality(members') \in Nat
      BY <1>1, <3>1, FiniteObjects, FS_Subset, FS_CardinalityType DEF Typed
    <3>3. settings.maxVms \in Nat /\ replaced \in Nat /\ growing \in Nat
      BY <1>1 DEF Typed, SettingsType
    <3>4. Cardinality(members) + growing + Cardinality(Fillers) <= settings.maxVms + replaced
      BY <1>1, <3>1 DEF Counted
    <3>. QED
      BY <2>2, <3>2, <3>3, <3>4
  <2>4. growing' = Cardinality(Growers)' /\ Cardinality(Fillers)' <= replaced'
    BY <1>1, <2>2 DEF Counted
  <2>. QED
    BY <2>3, <2>4 DEF Counted
<1>10. growing' \in Nat /\ replaced' \in Nat
  BY <1>1 DEF Typed
<1>11. vm' \in VmType /\ sessions' \in [Callers -> MaybeVm]
  BY SameVms, SameSessions
<1>12. Step(c)
  BY <1>2, <1>3, <1>4, <1>5, <1>6, <1>7, <1>8, <1>9, <1>10, <1>11 DEF Step
<1>. QED
  BY <1>12, StepInv

LEMMA Listed ==
    ASSUME FleetInv, NEW c \in Callers, At(c, "listed")
    PROVE  /\ settings.open /\ call[c].pc = "listed" /\ call[c] \in CallType /\ call[c].listing \in SUBSET Launches
           /\ call[c].obj = NoObject /\ call[c].reserved = FALSE /\ call[c].vm = 0
<1>1. call[c].pc = "listed" /\ call[c].pc \notin Holding /\ settings.open
  BY DEF At, Holding
<1>2. call[c] \in CallType /\ call[c].obj = NoObject /\ call[c].reserved = FALSE /\ call[c].vm = 0
  BY <1>1, Unleased, CallerFacts DEF CallOK
<1>. QED
  BY <1>1, <1>2, CallFields

LEMMA routeRefreshedInv == ASSUME FleetInv, NEW c \in Callers, routeRefreshed(c) PROVE FleetInv'
<1>1. PICK L \in SUBSET Launches : L = call[c].listing
  BY Listed DEF routeRefreshed
<1>2. /\ settings.open /\ call[c].pc = "listed" /\ call[c] \in CallType
      /\ call[c].obj = NoObject /\ call[c].reserved = FALSE
  BY Listed DEF routeRefreshed
<1>3. /\ refreshMembers(L) /\ members' = Refreshed(L) /\ settings' = settings /\ vm' = vm /\ growing' = growing
      /\ sessions' = sessions /\ replaced' = replaced
  BY <1>1 DEF routeRefreshed
<1>4. CASE Known(c) \in L /\ routed(c, memberOf(Known(c)))
  <2>1. PICK o : o = memberOf(Known(c))
    OBVIOUS
  <2>2. o \in Refreshed(L) /\ o \in Objects
    BY <1>3, <1>4, <2>1 DEF Refreshed, refreshMembers
  <2>3. PICK r : r = Leased(c, o, FALSE)
    OBVIOUS
  <2>4. r \in CallType /\ r.pc = "leased" /\ r.obj = o /\ r.reserved = FALSE /\ r.vm = 0
    BY <2>2, <2>3, AnewFields DEF FleetInv
  <2>5. Becomes(c, r) /\ inflight' = [inflight EXCEPT ![o] = @ + 1] /\ bound' = bound /\ leaked' = leaked
    BY <1>4, <2>1, <2>3 DEF routed
  <2>6. LedgerStep(c)
    BY <1>2, <2>2, <2>4, <2>5, TakesLease
  <2>7. Ready(r)
    BY <2>2, <2>4, ObjectParts DEF Ready, Holding
  <2>. QED
    BY <1>2, <1>3, <2>2, <2>4, <2>5, <2>6, <2>7, RefreshStep
<1>5. CASE Becomes(c, Idle) /\ UNCHANGED ledger
  <2>1. Idle \in CallType /\ Ready(Idle) /\ Idle.obj = NoObject /\ Idle.reserved = FALSE
    BY Free DEF FleetInv
  <2>2. LedgerStep(c)
    BY <1>2, <1>5, <2>1, KeepsLease
  <2>. QED
    BY <1>2, <1>3, <1>5, <2>1, <2>2, RefreshStep
<1>. QED
  BY <1>1, <1>4, <1>5 DEF routeRefreshed

LEMMA statusRefreshedInv == ASSUME FleetInv, NEW c \in Callers, statusRefreshed(c) PROVE FleetInv'
<1>1. PICK L \in SUBSET Launches : L = call[c].listing
  BY Listed DEF statusRefreshed
<1>2. /\ settings.open /\ call[c].pc = "listed" /\ call[c] \in CallType
      /\ call[c].obj = NoObject /\ call[c].reserved = FALSE /\ call[c].vm = 0
  BY Listed DEF statusRefreshed
<1>3. /\ refreshMembers(L) /\ members' = Refreshed(L) /\ settings' = settings /\ vm' = vm /\ growing' = growing
      /\ sessions' = sessions /\ replaced' = replaced /\ UNCHANGED ledger
  BY <1>1 DEF statusRefreshed
<1>4. Refreshed(L) \in SUBSET Objects
  BY <1>3 DEF refreshMembers
<1>5. PICK r : r = [call[c] EXCEPT !.pc = "checking", !.listing = {}, !.todo = Refreshed(L)]
  OBVIOUS
<1>6. r \in CallType
  BY <1>2, <1>4, <1>5 DEF CallType, Pcs
<1>7. r.pc = "checking" /\ r.obj = NoObject /\ r.reserved = FALSE /\ r.vm = 0
  BY <1>2, <1>5 DEF CallType
<1>8. Becomes(c, r)
  BY <1>1, <1>5 DEF statusRefreshed
<1>9. Ready(r)
  BY <1>7 DEF Ready, Holding
<1>10. LedgerStep(c)
  BY <1>2, <1>3, <1>6, <1>7, <1>8, KeepsLease
<1>. QED
  BY <1>2, <1>3, <1>6, <1>7, <1>8, <1>9, <1>10, RefreshStep

LEMMA reconcileRefreshedInv == ASSUME FleetInv, NEW c \in Callers, reconcileRefreshed(c) PROVE FleetInv'
<1>1. PICK L \in SUBSET Launches : L = call[c].listing
  BY Listed DEF reconcileRefreshed
<1>2. /\ settings.open /\ call[c].pc = "listed" /\ call[c] \in CallType
      /\ call[c].obj = NoObject /\ call[c].reserved = FALSE /\ call[c].vm = 0
  BY Listed DEF reconcileRefreshed
<1>3. /\ refreshMembers(L) /\ settings' = settings /\ vm' = vm /\ growing' = growing
      /\ sessions' = sessions /\ replaced' = replaced /\ UNCHANGED ledger /\ call[c].then = "reconcile"
  BY <1>1 DEF reconcileRefreshed
<1>4. PICK kept \in SUBSET Objects : kept = Refreshed(L)
  BY <1>3 DEF refreshMembers
<1>5. PICK r : r = [call[c] EXCEPT !.listing = {}]
  OBVIOUS
<1>6. r \in CallType
  BY <1>2, <1>5 DEF CallType
<1>7. r.obj = NoObject /\ r.reserved = FALSE /\ r.vm = 0 /\ r.then = "reconcile"
  BY <1>2, <1>3, <1>5 DEF CallType
<1>8. PICK todo \in SUBSET {o \in Refreshed(L) : inflight[o] = 0 /\ bound[o] = {}} : sweep(c, r, todo, kept)
  BY <1>1, <1>4, <1>5 DEF reconcileRefreshed
<1>9. todo \in SUBSET Objects
  BY <1>4, <1>8
<1>10. /\ members' \subseteq kept
       /\ \E s \in CallType : Becomes(c, s) /\ Ready(s) /\ s.obj = NoObject /\ s.reserved = FALSE
  BY <1>6, <1>7, <1>8, <1>9, SweepFacts
<1>11. PICK s \in CallType : Becomes(c, s) /\ Ready(s) /\ s.obj = NoObject /\ s.reserved = FALSE
  BY <1>10
<1>12. LedgerStep(c)
  BY <1>2, <1>3, <1>11, KeepsLease
<1>. QED
  BY <1>2, <1>3, <1>4, <1>10, <1>11, <1>12, RefreshStep

-----------------------------------------------------------------------------
(* Launches: a growth is counted before it begins, a replacement when its  *)
(* VM is launched.                                                         *)
LEMMA placeInNewInv ==
    ASSUME FleetInv, NEW c \in Callers, NEW stale \in SUBSET members, placeInNew(c, stale)
    PROVE  FleetInv'
<1>1. Typed /\ MadeOK /\ Owners /\ Counted /\ LostNeverListed
  BY DEF FleetInv
<1>2. call[c].pc = "placing" /\ call[c].pc \notin Holding /\ settings.open
  BY DEF placeInNew, At, Holding
<1>3. call[c] \in CallType /\ call[c].obj = NoObject /\ call[c].reserved = FALSE /\ call[c].vm = 0
  BY <1>2, Unleased, CallerFacts DEF CallOK
<1>4. PICK r : r = [call[c] EXCEPT !.pc = "growing"]
  OBVIOUS
<1>5. r \in CallType
  BY <1>3, <1>4 DEF CallType, Pcs
<1>6. r.pc = "growing" /\ r.obj = NoObject /\ r.reserved = FALSE /\ r.vm = 0
  BY <1>3, <1>4 DEF CallType
<1>7. /\ Becomes(c, r) /\ growing' = growing + 1 /\ settings' = settings /\ vm' = vm /\ made' = made
      /\ members' = members /\ adopted' = adopted /\ sessions' = sessions /\ host' = host /\ replaced' = replaced
      /\ UNCHANGED ledger
  BY <1>4 DEF placeInNew, Goto, machines
<1>8. call'[c] = r /\ Moves(c)
  BY <1>1, <1>5, <1>7, BecomesFacts DEF Moves
<1>9. LedgerStep(c)
  BY <1>3, <1>5, <1>6, <1>7, KeepsLease
<1>10. CallOK(c)'
  BY <1>2, <1>6, <1>7, <1>8 DEF CallOK, Holding
<1>11. Owners'
  BY <1>1, <1>3, <1>6, <1>7, <1>8 DEF Owners, Moves
<1>12. Counted'
  <2>1. c \notin Growers /\ c \in Growers' /\ c \notin Fillers /\ c \notin Fillers'
    BY <1>2, <1>6, <1>8 DEF Growers, Fillers
  <2>2. /\ Cardinality(Growers)' = Cardinality(Growers) + 1 /\ Cardinality(Fillers)' = Cardinality(Fillers)
        /\ Cardinality(Fillers) \in Nat
    BY <1>8, <2>1, LaunchersStep
  <2>3. Cardinality(members) + growing < settings.maxVms
    BY DEF placeInNew, planPlacement
  <2>4. Cardinality(members) \in Nat /\ growing \in Nat /\ settings.maxVms \in Nat /\ replaced \in Nat
    BY <1>1, FiniteObjects, FS_CardinalityType DEF Typed, SettingsType
  <2>5. Cardinality(members') = Cardinality(members)
    BY <1>7
  <2>6. growing = Cardinality(Growers) /\ Cardinality(Fillers) <= replaced
    BY <1>1 DEF Counted
  <2>7. Cardinality(members') + growing' + Cardinality(Fillers)' <= settings'.maxVms + replaced'
    BY <1>7, <2>2, <2>3, <2>4, <2>5, <2>6
  <2>. QED
    BY <1>7, <2>2, <2>6, <2>7 DEF Counted
<1>13. /\ \A o \in members' : IsMade(o)' /\ ~isLost(host'[o])
       /\ \A v \in Launches : v \notin adopted' => made'[v] <= 1 /\ (vm'[v] = "absent" => made'[v] = 0)
  BY <1>1, <1>7 DEF MadeOK, IsMade, LostNeverListed
<1>14. \A o \in Objects : call'[c].obj # o
  BY <1>6, <1>8, ObjectParts
<1>15. growing' \in Nat /\ replaced' \in Nat /\ members' \subseteq Objects /\ adopted' \subseteq Launches
       /\ made' \in [Launches -> Nat] /\ (\A v \in Launches : made[v] <= made'[v])
       /\ sessions' \in [Callers -> MaybeVm] /\ host' \in [Objects -> HostType]
  BY <1>1, <1>7 DEF Typed
<1>16. Step(c)
  BY <1>2, <1>7, <1>8, <1>9, <1>10, <1>11, <1>12, <1>13, <1>14, <1>15, SameVms DEF Step
<1>. QED
  BY <1>16, StepInv

LEMMA createMemberInv == ASSUME FleetInv, NEW c \in Callers, createMember(c) PROVE FleetInv'
<1>1. Typed /\ MadeOK /\ Owners /\ Counted /\ LostNeverListed /\ CallsOK
  BY DEF FleetInv
<1>2. /\ settings.open /\ call[c].vm = 0
      /\ call[c].pc = "growing" \/ (call[c].pc = "filling" /\ call[c].left > 0)
  BY DEF createMember, At
<1>3. call[c] \in CallType /\ CallOK(c)
  BY CallerFacts
<1>4. PICK v \in Launches : /\ vm[v] = "absent" /\ vm' = [vm EXCEPT ![v] = "booting"]
                            /\ Becomes(c, [call[c] EXCEPT !.vm = v])
  BY DEF createMember, NextLaunch, Absent
<1>5. PICK r : r = [call[c] EXCEPT !.vm = v]
  OBVIOUS
<1>6. r \in CallType
  BY <1>3, <1>5 DEF CallType, MaybeVm
<1>7. /\ r.pc = call[c].pc /\ r.obj = call[c].obj /\ r.reserved = call[c].reserved /\ r.vm = v
      /\ r.left = call[c].left /\ r.then = call[c].then /\ r.subject = call[c].subject
  BY <1>3, <1>5 DEF CallType
<1>8. /\ Becomes(c, r) /\ growing' = growing /\ settings' = settings /\ made' = made
      /\ members' = members /\ adopted' = adopted /\ sessions' = sessions /\ host' = host
      /\ UNCHANGED ledger
  BY <1>4, <1>5 DEF createMember
<1>9. call'[c] = r /\ Moves(c)
  BY <1>1, <1>6, <1>8, BecomesFacts DEF Moves
<1>10. LedgerStep(c)
  BY <1>6, <1>7, <1>8, KeepsLease
<1>11. /\ vm' \in VmType /\ \A w \in Launches : vm'[w] = "absent" => vm[w] = "absent"
       /\ vm'[v] = "booting" /\ v # 0
  BY <1>1, <1>4, ObjectParts DEF Typed, VmType
<1>12. CallOK(c)'
  BY <1>2, <1>3, <1>7, <1>8, <1>9, <1>11 DEF CallOK, Holding
<1>13. \A d \in Callers : d # c => call'[d].vm = call[d].vm /\ call[d].vm # v
  <2>. SUFFICES ASSUME NEW d \in Callers, d # c PROVE call'[d].vm = call[d].vm /\ call[d].vm # v
    OBVIOUS
  <2>1. call'[d] = call[d] /\ CallOK(d)
    BY <1>1, <1>9 DEF Moves, CallsOK
  <2>. QED
    BY <1>4, <1>11, <2>1 DEF CallOK
<1>14. Owners'
  <2>1. \A d, e \in Callers : (d # e /\ call'[d].vm = call'[e].vm) => call'[d].vm = 0
    BY <1>1, <1>7, <1>9, <1>13 DEF Owners
  <2>2. v \notin adopted => made[v] = 0
    BY <1>1, <1>4 DEF MadeOK
  <2>3. \A d \in Callers : (call'[d].vm # 0 /\ call'[d].vm \notin adopted') => made'[call'[d].vm] = 0
    BY <1>1, <1>7, <1>8, <1>9, <1>13, <2>2 DEF Owners
  <2>. QED
    BY <2>1, <2>3 DEF Owners
<1>15. replaced \in Nat /\ growing \in Nat /\ settings.maxVms \in Nat /\ Cardinality(members) \in Nat
  BY <1>1, FiniteObjects, FS_CardinalityType DEF Typed, SettingsType
<1>16. replaced' = (IF call[c].pc = "filling" THEN replaced + 1 ELSE replaced)
  BY <1>2 DEF createMember, At
<1>17. Counted'
  <2>1. (c \in Growers <=> c \in Growers') /\ c \notin Fillers /\ (c \in Fillers' <=> call[c].pc = "filling")
    BY <1>2, <1>7, <1>9, <1>11 DEF Growers, Fillers
  <2>2. /\ Cardinality(Growers)' = Cardinality(Growers)
        /\ Cardinality(Fillers)' = (IF call[c].pc = "filling" THEN Cardinality(Fillers) + 1 ELSE Cardinality(Fillers))
        /\ Cardinality(Fillers) \in Nat
    BY <1>9, <2>1, LaunchersStep
  <2>3. Cardinality(members') = Cardinality(members)
    BY <1>8
  <2>4. growing' = Cardinality(Growers)' /\ Cardinality(Fillers)' <= replaced'
    BY <1>1, <1>8, <1>15, <1>16, <2>2 DEF Counted
  <2>5. adopted' = {} => Cardinality(members') + growing' + Cardinality(Fillers)' <= settings'.maxVms + replaced'
    BY <1>1, <1>8, <1>15, <1>16, <2>2, <2>3 DEF Counted
  <2>. QED
    BY <2>4, <2>5 DEF Counted
<1>18. /\ \A o \in members' : IsMade(o)' /\ ~isLost(host'[o])
       /\ \A w \in Launches : w \notin adopted' => made'[w] <= 1 /\ (vm'[w] = "absent" => made'[w] = 0)
  BY <1>1, <1>8, <1>11 DEF MadeOK, IsMade, LostNeverListed
<1>19. \A o \in Objects : call'[c].obj = o => IsMade(o)'
  <2>. SUFFICES ASSUME NEW o \in Objects, call'[c].obj = o PROVE IsMade(o)'
    OBVIOUS
  <2>1. IsMade(o)
    BY <1>7, <1>9, CallerFacts, ObjectParts
  <2>. QED
    BY <1>8, <2>1 DEF IsMade
<1>20. growing' \in Nat /\ replaced' \in Nat /\ members' \subseteq Objects /\ adopted' \subseteq Launches
       /\ made' \in [Launches -> Nat] /\ (\A w \in Launches : made[w] <= made'[w])
       /\ sessions' \in [Callers -> MaybeVm] /\ host' \in [Objects -> HostType]
  BY <1>1, <1>8, <1>15, <1>16 DEF Typed
<1>21. Step(c)
  BY <1>2, <1>8, <1>9, <1>10, <1>11, <1>12, <1>14, <1>17, <1>18, <1>19, <1>20 DEF Step
<1>. QED
  BY <1>21, StepInv

(* The VM a caller was launching becomes a member: it is nobody else's,    *)
(* and its object is new.                                                  *)
LEMMA JoinsFacts ==
    ASSUME FleetInv, NEW v \in Launches, vm[v] # "absent", v \notin adopted => made[v] = 0,
           Joins(v), adopted' = adopted, NEW o, o = <<v, made[v] + 1>>
    PROVE  /\ o \in Objects /\ bound[o] = {}
           /\ vm' \in VmType /\ \A w \in Launches : vm'[w] = "absent" => vm[w] = "absent"
           /\ made' \in [Launches -> Nat] /\ \A w \in Launches : made[w] <= made'[w]
           /\ \A w \in Launches : w # v => made'[w] = made[w]
           /\ members' \subseteq Objects /\ Cardinality(members') <= Cardinality(members) + 1
           /\ host' \in [Objects -> HostType]
           /\ \A p \in members' : IsMade(p)' /\ ~isLost(host'[p])
           /\ IsMade(o)'
           /\ \A w \in Launches : w \notin adopted' => made'[w] <= 1 /\ (vm'[w] = "absent" => made'[w] = 0)
<1>1. Typed /\ MadeOK /\ LostNeverListed
  BY DEF FleetInv
<1>2. /\ vm \in VmType /\ made \in [Launches -> Nat] /\ members \subseteq Objects /\ host \in [Objects -> HostType]
  BY <1>1 DEF Typed, VmType
<1>3. /\ made[v] < MaxObjects
      /\ vm' = [vm EXCEPT ![v] = IF @ = "booting" THEN "up" ELSE @]
      /\ made' = [made EXCEPT ![v] = @ + 1]
      /\ members' = members \union {o}
      /\ host' = [host EXCEPT ![o] = newMember(TRUE)]
  BY DEF Joins
<1>4. made[v] \in Nat /\ made[v] + 1 \in 1..MaxObjects
  BY <1>2, <1>3, FleetAssumption
<1>5. o \in Objects /\ o[1] = v /\ o[2] = made[v] + 1
  BY <1>4, ObjectParts
<1>6. ~IsMade(o)
  BY <1>4, <1>5 DEF IsMade
<1>7. bound[o] = {}
  BY <1>1, <1>5, <1>6 DEF MadeOK
<1>8. vm' \in VmType /\ (\A w \in Launches : vm'[w] = "absent" => vm[w] = "absent") /\ vm'[v] # "absent"
  BY <1>2, <1>3 DEF VmType
<1>9. /\ made' \in [Launches -> Nat] /\ made'[v] = made[v] + 1
      /\ \A w \in Launches : w # v => made'[w] = made[w]
  BY <1>2, <1>3
<1>10. \A w \in Launches : made[w] <= made'[w]
  BY <1>2, <1>4, <1>9
<1>11. members' \subseteq Objects /\ Cardinality(members') <= Cardinality(members) + 1
  <2>1. IsFiniteSet(members) /\ Cardinality(members) \in Nat
    BY <1>2, FiniteObjects, FS_CardinalityType
  <2>2. Cardinality(members \union {o}) = IF o \in members THEN Cardinality(members) ELSE Cardinality(members) + 1
    BY <2>1, FS_AddElement
  <2>3. Cardinality(members') = IF o \in members THEN Cardinality(members) ELSE Cardinality(members) + 1
    BY <1>3, <2>2
  <2>4. Cardinality(members') <= Cardinality(members) + 1
    BY <2>1, <2>3
  <2>5. members' \subseteq Objects
    BY <1>2, <1>3, <1>5
  <2>. QED
    BY <2>4, <2>5
<1>12. newMember(TRUE) \in HostType /\ ~isLost(newMember(TRUE))
  BY FleetAssumption DEF newMember, HostType, isLost
<1>13. host' \in [Objects -> HostType] /\ host'[o] = newMember(TRUE) /\ \A p \in Objects : p # o => host'[p] = host[p]
  BY <1>2, <1>3, <1>5, <1>12
<1>14. IsMade(o)'
  BY <1>5, <1>9 DEF IsMade
<1>15. \A p \in members' : IsMade(p)'
  <2>. SUFFICES ASSUME NEW p \in members, p # o PROVE IsMade(p)'
    BY <1>3, <1>14
  <2>1. p[1] \in Launches /\ p[2] \in Nat /\ p[2] <= made[p[1]]
    BY <1>1, <1>2, ObjectParts DEF MadeOK, IsMade
  <2>2. made[p[1]] \in Nat /\ made'[p[1]] \in Nat /\ made[p[1]] <= made'[p[1]]
    BY <1>2, <1>9, <1>10, <2>1
  <2>. QED
    BY <2>1, <2>2 DEF IsMade
<1>16. \A p \in members' : ~isLost(host'[p])
  BY <1>1, <1>2, <1>3, <1>12, <1>13 DEF LostNeverListed
<1>17. \A w \in Launches : w \notin adopted' => made'[w] <= 1 /\ (vm'[w] = "absent" => made'[w] = 0)
  BY <1>1, <1>8, <1>9 DEF MadeOK
<1>. QED
  BY <1>5, <1>7, <1>8, <1>9, <1>10, <1>11, <1>13, <1>14, <1>15, <1>16, <1>17

(* The owner of a VM that starts.                                          *)
LEMMA OwnerFacts ==
    ASSUME FleetInv, NEW c \in Callers, call[c].vm # 0
    PROVE  /\ call[c].vm \in Launches /\ vm[call[c].vm] # "absent"
           /\ call[c].vm \notin adopted => made[call[c].vm] = 0
           /\ \A d \in Callers : d # c => call[d].vm # call[c].vm
<1>1. Owners
  BY DEF FleetInv
<1>2. call[c].vm \in MaybeVm
  BY CallerFacts, CallFields
<1>. QED
  BY <1>1, <1>2, CallerFacts DEF Owners, CallOK, MaybeVm

LEMMA OwnersAfter ==
    ASSUME FleetInv, NEW c \in Callers, call[c].vm # 0, Moves(c), call'[c].vm = 0, adopted' = adopted,
           \A w \in Launches : w # call[c].vm => made'[w] = made[w]
    PROVE  Owners'
<1>1. Owners /\ Typed
  BY DEF FleetInv
<1>2. \A d \in Callers : call'[d].vm # 0 => d # c /\ call'[d] = call[d] /\ call[d].vm \in Launches /\ call[d].vm # call[c].vm
  BY <1>1, OwnerFacts, CallFields DEF Moves, Typed, MaybeVm
<1>3. \A d, e \in Callers : (d # e /\ call'[d].vm = call'[e].vm) => call'[d].vm = 0
  BY <1>1, <1>2 DEF Owners
<1>4. \A d \in Callers : (call'[d].vm # 0 /\ call'[d].vm \notin adopted') => made'[call'[d].vm] = 0
  BY <1>1, <1>2 DEF Owners
<1>. QED
  BY <1>3, <1>4 DEF Owners

LEMMA growForInv == ASSUME FleetInv, NEW c \in Callers, growFor(c) PROVE FleetInv'
<1>1. Typed /\ Counted
  BY DEF FleetInv
<1>2. call[c].pc = "growing" /\ call[c].pc \notin Holding /\ settings.open /\ call[c].vm # 0
  BY DEF growFor, At, Holding
<1>3. call[c].obj = NoObject /\ call[c].reserved = FALSE
  BY <1>2, Unleased
<1>4. PICK v \in Launches : v = call[c].vm
  BY <1>2, OwnerFacts
<1>5. PICK o : o = <<v, made[v] + 1>>
  OBVIOUS
<1>6. /\ Joins(v) /\ growing' = growing - 1 /\ reserve(c, o) /\ remember(c, v)
      /\ Becomes(c, Leased(c, o, settings.dedicated))
      /\ settings' = settings /\ adopted' = adopted /\ replaced' = replaced
  BY <1>4, <1>5 DEF growFor
<1>7. vm[v] # "absent" /\ (v \notin adopted => made[v] = 0)
  BY <1>2, <1>4, OwnerFacts
<1>8. o \in Objects /\ bound[o] = {} /\ IsMade(o)'
  BY <1>5, <1>6, <1>7, JoinsFacts
<1>9. /\ vm' \in VmType /\ \A w \in Launches : vm'[w] = "absent" => vm[w] = "absent"
      /\ made' \in [Launches -> Nat] /\ \A w \in Launches : made[w] <= made'[w]
      /\ \A w \in Launches : w # v => made'[w] = made[w]
      /\ members' \subseteq Objects /\ Cardinality(members') <= Cardinality(members) + 1
      /\ host' \in [Objects -> HostType]
  BY <1>5, <1>6, <1>7, JoinsFacts
<1>10. /\ \A p \in members' : IsMade(p)' /\ ~isLost(host'[p])
       /\ \A w \in Launches : w \notin adopted' => made'[w] <= 1 /\ (vm'[w] = "absent" => made'[w] = 0)
  BY <1>5, <1>6, <1>7, JoinsFacts
<1>11. PICK r : r = Leased(c, o, settings.dedicated)
  OBVIOUS
<1>12. settings.dedicated \in BOOLEAN
  BY <1>1 DEF Typed, SettingsType
<1>13. r \in CallType /\ r.pc = "leased" /\ r.obj = o /\ r.reserved = settings.dedicated /\ r.vm = 0
  BY <1>1, <1>8, <1>11, <1>12, AnewFields
<1>14. call'[c] = r /\ Moves(c)
  BY <1>1, <1>6, <1>11, <1>13, BecomesFacts DEF Moves
<1>15. LedgerStep(c)
  BY <1>3, <1>6, <1>8, <1>11, <1>13, TakesLease DEF reserve
<1>16. CallOK(c)'
  BY <1>2, <1>6, <1>8, <1>13, <1>14, ObjectParts DEF CallOK, Holding
<1>17. Owners'
  BY <1>2, <1>4, <1>6, <1>9, <1>13, <1>14, OwnersAfter
<1>18. growing' \in Nat /\ replaced' \in Nat
  BY <1>1, <1>2, <1>6, GrowerIsCounted DEF Typed
<1>19. Counted'
  <2>1. c \in Growers /\ c \notin Growers' /\ c \notin Fillers /\ c \notin Fillers'
    BY <1>2, <1>13, <1>14 DEF Growers, Fillers
  <2>2. /\ Cardinality(Growers)' = Cardinality(Growers) - 1 /\ Cardinality(Fillers)' = Cardinality(Fillers)
        /\ Cardinality(Fillers) \in Nat
    BY <1>14, <2>1, LaunchersStep
  <2>3. /\ Cardinality(members) \in Nat /\ Cardinality(members') \in Nat
        /\ growing \in Nat /\ settings.maxVms \in Nat /\ replaced \in Nat
    BY <1>1, <1>9, FiniteObjects, FS_CardinalityType DEF Typed, SettingsType
  <2>4. growing' = Cardinality(Growers)' /\ Cardinality(Fillers)' <= replaced'
    BY <1>1, <1>6, <2>2 DEF Counted
  <2>5. adopted' = {} => Cardinality(members') + growing' + Cardinality(Fillers)' <= settings'.maxVms + replaced'
    BY <1>1, <1>6, <1>9, <1>18, <2>2, <2>3 DEF Counted
  <2>. QED
    BY <2>4, <2>5 DEF Counted
<1>20. \A p \in Objects : call'[c].obj = p => IsMade(p)'
  BY <1>8, <1>13, <1>14
<1>21. sessions' \in [Callers -> MaybeVm] /\ adopted' \subseteq Launches
  BY <1>1, <1>6, RememberFacts DEF Typed
<1>22. Step(c)
  BY <1>2, <1>6, <1>9, <1>10, <1>14, <1>15, <1>16, <1>17, <1>18, <1>19, <1>20, <1>21 DEF Step
<1>. QED
  BY <1>22, StepInv

LEMMA filledInv == ASSUME FleetInv, NEW c \in Callers, filled(c) PROVE FleetInv'
<1>1. Typed /\ Counted /\ MadeOK
  BY DEF FleetInv
<1>2. call[c].pc = "filling" /\ settings.open /\ call[c].vm # 0
  BY DEF filled, At
<1>3. call[c] \in CallType /\ CallOK(c) /\ call[c].left # 0 /\ call[c].left \in Nat
  BY <1>2, CallerFacts, CallFields DEF CallOK
<1>4. PICK v \in Launches : v = call[c].vm
  BY <1>2, OwnerFacts
<1>5. PICK o : o = <<v, made[v] + 1>>
  OBVIOUS
<1>6. PICK r : r = [call[c] EXCEPT !.vm = 0, !.left = call[c].left - 1]
  OBVIOUS
<1>7. /\ Joins(v) /\ growing' = growing /\ settings' = settings /\ adopted' = adopted /\ replaced' = replaced
      /\ sessions' = sessions /\ UNCHANGED ledger /\ Becomes(c, r)
  BY <1>4, <1>6 DEF filled
<1>8. vm[v] # "absent" /\ (v \notin adopted => made[v] = 0)
  BY <1>2, <1>4, OwnerFacts
<1>9. /\ vm' \in VmType /\ \A w \in Launches : vm'[w] = "absent" => vm[w] = "absent"
      /\ made' \in [Launches -> Nat] /\ \A w \in Launches : made[w] <= made'[w]
      /\ \A w \in Launches : w # v => made'[w] = made[w]
      /\ members' \subseteq Objects /\ Cardinality(members') <= Cardinality(members) + 1
      /\ host' \in [Objects -> HostType]
  BY <1>5, <1>7, <1>8, JoinsFacts
<1>10. /\ \A p \in members' : IsMade(p)' /\ ~isLost(host'[p])
       /\ \A w \in Launches : w \notin adopted' => made'[w] <= 1 /\ (vm'[w] = "absent" => made'[w] = 0)
  BY <1>5, <1>7, <1>8, JoinsFacts
<1>11. r \in CallType
  <2>1. 0 \in MaybeVm
    BY DEF MaybeVm
  <2>2. PICK n \in Nat : n = call[c].left - 1
    BY <1>3
  <2>3. r = [call[c] EXCEPT !.vm = 0, !.left = n]
    BY <1>6, <2>2
  <2>. QED
    BY <1>3, <2>1, <2>3 DEF CallType
<1>12. /\ r.pc = "filling" /\ r.obj = call[c].obj /\ r.reserved = call[c].reserved /\ r.vm = 0
       /\ r.then = call[c].then /\ r.subject = call[c].subject
  BY <1>2, <1>3, <1>6 DEF CallType
<1>13. call'[c] = r /\ Moves(c)
  BY <1>1, <1>7, <1>11, BecomesFacts DEF Moves
<1>14. LedgerStep(c)
  BY <1>7, <1>11, <1>12, KeepsLease
<1>15. CallOK(c)'
  BY <1>2, <1>3, <1>7, <1>12, <1>13 DEF CallOK, Holding
<1>16. Owners'
  BY <1>2, <1>4, <1>7, <1>9, <1>12, <1>13, OwnersAfter
<1>17. growing' \in Nat /\ replaced' \in Nat /\ adopted' \subseteq Launches
  BY <1>1, <1>7 DEF Typed
<1>18. Counted'
  <2>1. c \notin Growers /\ c \notin Growers' /\ c \in Fillers /\ c \notin Fillers'
    BY <1>2, <1>12, <1>13 DEF Growers, Fillers
  <2>2. /\ Cardinality(Growers)' = Cardinality(Growers) /\ Cardinality(Fillers)' = Cardinality(Fillers) - 1
        /\ Cardinality(Fillers) \in Nat /\ Cardinality(Fillers)' \in Nat
    BY <1>13, <2>1, LaunchersStep
  <2>3. /\ Cardinality(members) \in Nat /\ Cardinality(members') \in Nat
        /\ growing \in Nat /\ settings.maxVms \in Nat /\ replaced \in Nat
    BY <1>1, <1>9, FiniteObjects, FS_CardinalityType DEF Typed, SettingsType
  <2>4. growing' = Cardinality(Growers)' /\ Cardinality(Fillers)' <= replaced'
    BY <1>1, <1>7, <2>2, <2>3 DEF Counted
  <2>5. adopted' = {} => Cardinality(members') + growing' + Cardinality(Fillers)' <= settings'.maxVms + replaced'
    BY <1>1, <1>7, <1>9, <2>2, <2>3 DEF Counted
  <2>. QED
    BY <2>4, <2>5 DEF Counted
<1>19. \A p \in Objects : call'[c].obj = p => IsMade(p)'
  <2>. SUFFICES ASSUME NEW p \in Objects, call'[c].obj = p PROVE IsMade(p)'
    OBVIOUS
  <2>1. p[1] \in Launches /\ p[2] \in Nat /\ p[2] <= made[p[1]]
    BY <1>12, <1>13, CallerFacts, ObjectParts DEF IsMade
  <2>2. made[p[1]] \in Nat /\ made'[p[1]] \in Nat /\ made[p[1]] <= made'[p[1]]
    BY <1>1, <1>9, <2>1 DEF Typed
  <2>. QED
    BY <2>1, <2>2 DEF IsMade
<1>20. sessions' \in [Callers -> MaybeVm]
  BY <1>7, SameSessions
<1>21. Step(c)
  BY <1>2, <1>7, <1>9, <1>10, <1>13, <1>14, <1>15, <1>16, <1>17, <1>18, <1>19, <1>20 DEF Step
<1>. QED
  BY <1>21, StepInv

-----------------------------------------------------------------------------
(* The steps of no caller.                                                 *)

(* Before the fleet is open nobody holds anything; a connected fleet above *)
(* its limit counts as taken in.                                           *)
LEMMA startInv == ASSUME FleetInv, start PROVE FleetInv'
<1>1. Typed /\ CallsOK /\ Accounts /\ BoundOK /\ MadeOK /\ Counted
  BY DEF FleetInv
<1>2. PICK dedicated \in BOOLEAN, min \in Minimums, room \in Rooms, n \in Launches \union {0},
           open \in BOOLEAN, project \in BOOLEAN :
         /\ 1 <= min + room /\ (open => n = min /\ project)
         /\ settings' = [open |-> TRUE, project |-> project, dedicated |-> dedicated,
                         minVms |-> min, maxVms |-> min + room]
         /\ vm' = [v \in Launches |-> IF v <= n THEN "up" ELSE "absent"]
         /\ made' = [v \in Launches |-> IF v <= n THEN 1 ELSE 0]
         /\ members' = (1..n) \X {1}
         /\ adopted' = IF n <= min + room THEN {} ELSE 1..n
         /\ host' = [o \in Objects |-> newMember(open /\ o \in (1..n) \X {1})]
  BY Zenon DEF start
<1>3. min \in Nat /\ room \in Nat /\ n \in Nat /\ n <= MaxLaunches /\ 1..n \subseteq Launches
  BY FleetAssumption DEF Launches
<1>4. /\ growing' = growing /\ sessions' = sessions /\ call' = call /\ replaced' = replaced
      /\ inflight' = inflight /\ bound' = bound /\ leaked' = leaked /\ ~settings.open
  BY DEF start, ledger
<1>5. \A c \in Callers : call[c] = Idle
  BY <1>1, <1>4 DEF CallsOK, CallOK
<1>6. \A c \in Callers : call[c].obj = NoObject /\ ~call[c].reserved /\ call[c].vm = 0 /\ call[c].pc = "idle"
  BY <1>5, IdleFields
<1>7. \A o \in Objects : bound[o] = {}
  BY <1>1, <1>4 DEF MadeOK
<1>8. \A b \in BOOLEAN : newMember(b) \in HostType /\ ~isLost(newMember(b))
  BY FleetAssumption DEF newMember, HostType, isLost
<1>9. \A o \in Objects : host'[o] \in HostType /\ ~isLost(host'[o])
  BY <1>2, <1>8
<1>10. members' \subseteq Objects
  BY <1>2, <1>3, FleetAssumption DEF Objects
<1>11. \A o \in members' : IsMade(o)'
  <2>. SUFFICES ASSUME NEW o \in members' PROVE IsMade(o)'
    OBVIOUS
  <2>1. o[1] \in 1..n /\ o[2] = 1
    BY <1>2
  <2>2. made'[o[1]] = 1
    BY <1>2, <1>3, <2>1
  <2>. QED
    BY <2>1, <2>2 DEF IsMade
<1>12. Typed'
  <2>1. settings' \in SettingsType /\ adopted' \subseteq Launches
    BY <1>2, <1>3 DEF SettingsType
  <2>2. vm' \in [Launches -> {"absent", "booting", "up", "gone"}] /\ made' \in [Launches -> Nat]
    BY <1>2
  <2>3. host' \in [Objects -> HostType]
    BY <1>2, <1>8
  <2>. QED
    BY <1>1, <1>4, <1>10, <2>1, <2>2, <2>3 DEF Typed
<1>13. CallsOK'
  BY <1>2, <1>4, <1>6 DEF CallsOK, CallOK, Holding
<1>14. Accounts' /\ BoundOK'
  <2>1. \A o \in Objects : Cardinality(Holders(o))' = Cardinality(Holders(o))
    BY <1>4 DEF Holders
  <2>. QED
    BY <1>1, <1>4, <2>1 DEF Accounts, BoundOK
<1>15. MadeOK'
  <2>1. \A v \in Launches : made'[v] <= 1 /\ (vm'[v] = "absent" => made'[v] = 0)
    BY <1>2
  <2>2. \A c \in Callers : call'[c].obj = NoObject
    BY <1>4, <1>6
  <2>3. \A o \in Objects : bound'[o] = {}
    BY <1>4, <1>7
  <2>. QED
    BY <1>11, <2>1, <2>2, <2>3 DEF MadeOK
<1>16. Owners'
  BY <1>4, <1>6 DEF Owners
<1>17. Counted'
  <2>1. Growers = {} /\ Fillers = {} /\ Growers' = {} /\ Fillers' = {}
    BY <1>4, <1>6 DEF Growers, Fillers
  <2>2. growing = 0 /\ Cardinality(Growers)' = 0 /\ Cardinality(Fillers)' = 0 /\ replaced \in Nat
    BY <1>1, <2>1, FS_EmptySet DEF Counted, Typed
  <2>3. Cardinality(members') = n
    <3>1. IsFiniteSet(1..n) /\ Cardinality(1..n) = n
      BY <1>3, FS_Interval
    <3>2. IsFiniteSet({1}) /\ Cardinality({1}) = 1
      BY FS_Singleton
    <3>3. Cardinality((1..n) \X {1}) = Cardinality(1..n) * Cardinality({1})
      BY <3>1, <3>2, FS_Product
    <3>. QED
      BY <1>2, <1>3, <3>1, <3>2, <3>3
  <2>4. settings'.maxVms = min + room
    BY <1>2
  <2>5. adopted' = {} => n <= min + room
    <3>1. CASE n <= min + room
      BY <3>1
    <3>2. CASE ~(n <= min + room)
      <4>1. 1 \in 1..n
        BY <1>3, <3>2
      <4>2. adopted' = 1..n
        BY <1>2, <3>2, Zenon
      <4>. QED
        BY <4>1, <4>2
    <3>. QED
      BY <3>1, <3>2
  <2>. QED
    BY <1>3, <1>4, <2>2, <2>3, <2>4, <2>5 DEF Counted
<1>18. LostNeverListed'
  BY <1>9, <1>10 DEF LostNeverListed, isLost
<1>. QED
  BY <1>12, <1>13, <1>14, <1>15, <1>16, <1>17, <1>18 DEF FleetInv

(* Nothing changes but, perhaps, what a VM is.                             *)
LEMMA vmStepInv ==
    ASSUME FleetInv,
           UNCHANGED <<settings, made, members, adopted, growing, sessions, ledger, host, call, replaced>>,
           vm' \in VmType, \A v \in Launches : vm'[v] = "absent" => vm[v] = "absent"
    PROVE  FleetInv'
<1>1. Typed /\ CallsOK /\ Accounts /\ BoundOK /\ MadeOK /\ Owners /\ Counted /\ LostNeverListed
  BY DEF FleetInv
<1>2. /\ settings' = settings /\ made' = made /\ members' = members /\ adopted' = adopted
      /\ growing' = growing /\ sessions' = sessions /\ host' = host /\ call' = call /\ replaced' = replaced
      /\ inflight' = inflight /\ bound' = bound /\ leaked' = leaked
  BY DEF ledger
<1>3. Typed'
  BY <1>1, <1>2 DEF Typed, VmType
<1>4. CallsOK'
  <2>. SUFFICES ASSUME NEW d \in Callers PROVE CallOK(d)'
    BY DEF CallsOK
  <2>1. CallOK(d) /\ call'[d] = call[d]
    BY <1>1, <1>2 DEF CallsOK
  <2>2. call[d].vm # 0 => call[d].vm \in Launches
    BY <1>1, CallFields DEF Typed, MaybeVm
  <2>. QED
    BY <1>2, <2>1, <2>2 DEF CallOK
<1>5. Accounts' /\ BoundOK'
  <2>1. \A o \in Objects : Cardinality(Holders(o))' = Cardinality(Holders(o))
    BY <1>2 DEF Holders
  <2>. QED
    BY <1>1, <1>2, <2>1 DEF Accounts, BoundOK
<1>6. MadeOK'
  BY <1>1, <1>2 DEF MadeOK, IsMade
<1>7. Owners'
  BY <1>1, <1>2 DEF Owners
<1>8. Counted'
  <2>1. Growers' = Growers /\ Fillers' = Fillers
    BY <1>2 DEF Growers, Fillers
  <2>. QED
    BY <1>1, <1>2, <2>1 DEF Counted
<1>9. LostNeverListed'
  BY <1>1, <1>2 DEF LostNeverListed, isLost
<1>. QED
  BY <1>3, <1>4, <1>5, <1>6, <1>7, <1>8, <1>9 DEF FleetInv

LEMMA vmDiesInv == ASSUME FleetInv, NEW v \in Launches, vmDies(v) \/ vmAppears(v) PROVE FleetInv'
<1>1. vm \in VmType
  BY DEF FleetInv, Typed, VmType
<1>2. vm' = [vm EXCEPT ![v] = "gone"] \/ vm' = [vm EXCEPT ![v] = "up"]
  BY DEF vmDies, vmAppears
<1>3. vm' \in VmType /\ \A w \in Launches : vm'[w] = "absent" => vm[w] = "absent"
  BY <1>1, <1>2 DEF VmType
<1>4. UNCHANGED <<settings, made, members, adopted, growing, sessions, ledger, host, call, replaced>>
  BY DEF vmDies, vmAppears
<1>. QED
  BY <1>3, <1>4, vmStepInv

-----------------------------------------------------------------------------
LEMMA FleetNextInv == FleetInv /\ [FleetNext]_vars => FleetInv'
<1>. SUFFICES ASSUME FleetInv, [FleetNext]_vars PROVE FleetInv'
  OBVIOUS
<1>1. ASSUME NEW c \in Callers, invoke(c) \/ refresh(c) \/ stop(c) PROVE FleetInv'
  BY <1>1, invokeInv, refreshInv, stopInv
<1>2. ASSUME NEW c \in Callers, Placing(c) PROVE FleetInv'
  <2>1. CASE routeMember(c) \/ createMember(c) \/ growFor(c) \/ growFails(c) \/ queueExpires(c)
    BY <2>1, routeMemberInv, createMemberInv, growForInv, growFailsInv, queueExpiresInv
  <2>2. ASSUME NEW stale \in SUBSET members, placeInMember(c, stale) \/ placeInNew(c, stale) PROVE FleetInv'
    BY <2>2, placeInMemberInv, placeInNewInv
  <2>3. CASE probeOpens(c) \/ probeNotFound(c) \/ probeThrows(c) \/ probePings(c) \/ parkedSlotFails(c)
    BY <2>3, probeOpensInv, probeNotFoundInv, probeThrowsInv, probePingsInv, parkedSlotFailsInv
  <2>. QED
    BY <1>2, <2>1, <2>2, <2>3 DEF Placing
<1>3. ASSUME NEW c \in Callers, Executing(c) PROVE FleetInv'
  BY <1>3, beginsInv, vmLostInv, waitForCapacityInv, succeedsInv, transportFailsInv, noteTransportFailureInv
     DEF Executing
<1>4. ASSUME NEW c \in Callers, Upkeep(c) PROVE FleetInv'
  BY <1>4, terminateInv, filledInv, fillEndsInv, fillThrowsInv, listMembersInv,
     routeRefreshedInv, statusRefreshedInv, statusPingsInv, reconcileRefreshedInv DEF Upkeep
<1>5. ASSUME NEW v \in Launches, vmDies(v) \/ vmAppears(v) PROVE FleetInv'
  BY <1>5, vmDiesInv
<1>6. CASE start
  BY <1>6, startInv
<1>7. CASE UNCHANGED vars
  BY <1>7, vmStepInv, SameVms DEF vars, machines
<1>. QED
  BY <1>1, <1>2, <1>3, <1>4, <1>5, <1>6, <1>7 DEF FleetNext

(* What the invariant is for.  One reservation per VM: two callers that    *)
(* have one on the same object are one caller, and a VM that no refresh    *)
(* took in has one object.                                                 *)
LEMMA FleetInvSound == FleetInv => FleetSound
<1>. SUFFICES ASSUME FleetInv PROVE FleetSound
  OBVIOUS
<1>1. Typed /\ CallsOK /\ Accounts /\ BoundOK /\ MadeOK /\ Counted /\ LostNeverListed
  BY DEF FleetInv
<1>2. LeasesAccounted
  BY <1>1 DEF Accounts, LeasesAccounted
<1>3. DedicatedAlone
  <2>. SUFFICES ASSUME NEW c \in Callers, NEW d \in Callers, c # d, call[c].reserved, call[d].reserved,
                       VmOf(call[c].obj) = VmOf(call[d].obj), VmOf(call[c].obj) \notin adopted
                PROVE  FALSE
    BY DEF DedicatedAlone
  <2>1. call[c].obj # NoObject /\ call[d].obj # NoObject
    BY <1>1 DEF CallsOK, CallOK
  <2>2. call[c].obj \in Objects /\ IsMade(call[c].obj) /\ call[d].obj \in Objects /\ IsMade(call[d].obj)
    BY <2>1, CallerFacts
  <2>3. PICK o \in Objects, p \in Objects : o = call[c].obj /\ p = call[d].obj
    BY <2>2
  <2>4. PICK v \in Launches : v = o[1] /\ v = p[1]
    BY <2>3, ObjectParts DEF VmOf
  <2>5. made[v] \in Nat /\ made[v] <= 1
    BY <1>1, <2>3, <2>4 DEF MadeOK, VmOf, Typed
  <2>6. o[2] \in 1..MaxObjects /\ p[2] \in 1..MaxObjects /\ o[2] <= made[v] /\ p[2] <= made[v]
    BY <2>2, <2>3, <2>4, ObjectParts DEF IsMade
  <2>7. o[2] = p[2]
    BY <2>5, <2>6
  <2>8. o = p
    BY <2>4, <2>7, ObjectParts
  <2>9. Reservation(c) \in bound[o] /\ Reservation(d) \in bound[o]
    BY <1>1, <2>3, <2>8 DEF Accounts
  <2>10. Reservation(c) = Reservation(d)
    BY <1>1, <2>9 DEF BoundOK
  <2>. QED
    BY <2>10, Marked
<1>4. GrowthWithinMax
  <2>. SUFFICES ASSUME adopted = {} PROVE Cardinality(members) + growing <= settings.maxVms + replaced
    BY DEF GrowthWithinMax
  <2>1. Cardinality(members) + growing + Cardinality(Fillers) <= settings.maxVms + replaced
    BY <1>1 DEF Counted
  <2>2. Cardinality(members) \in Nat /\ growing \in Nat /\ settings.maxVms \in Nat /\ replaced \in Nat
    BY <1>1, FiniteObjects, FS_CardinalityType DEF Typed, SettingsType
  <2>3. Cardinality(Fillers) \in Nat
    BY FS_Subset, FS_CardinalityType, FleetAssumption DEF Fillers
  <2>. QED
    BY <2>1, <2>2, <2>3
<1>. QED
  BY <1>1, <1>2, <1>3, <1>4 DEF FleetSound

(* FleetSound holds of every fleet: whatever the number of callers, VMs    *)
(* and refreshes, the leases of #lease, #unlease and #place are those of   *)
(* the calls that hold them, a dedicated VM has one reservation at a time, *)
(* planPlacement never lets concurrent calls grow the fleet past maxVms,   *)
(* and a member with its last failed ping is out of the list.              *)
THEOREM FleetIsSound == FleetSpec => []FleetSound
<1>1. FleetInit => FleetInv
  BY FleetInitInv
<1>2. FleetInv /\ [FleetNext]_vars => FleetInv'
  BY FleetNextInv
<1>3. FleetInv => FleetSound
  BY FleetInvSound
<1>. QED
  BY <1>1, <1>2, <1>3, PTL DEF FleetSpec

=============================================================================
