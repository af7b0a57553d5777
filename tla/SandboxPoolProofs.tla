------------------------- MODULE SandboxPoolProofs -------------------------
(***************************************************************************)
(* Proofs about SandboxPool, for every size, fill concurrency, number of   *)
(* launches, set of takers and number of faults.                           *)
(*                                                                         *)
(* That a VM a client was given is left alone rests on who may still touch *)
(* a VM: the warm-up that launched it until its record is ready (WarmOK),  *)
(* then the one task that took the record out of memory (TakeOK), and      *)
(* nobody after its deletion left the queue of the backend (Released).     *)
(* The queue keeps the order of the calls about one VM (Ordered), so that  *)
(* nothing is saved after the deletion.                                    *)
(*                                                                         *)
(* On top of this: what memory has is in the backend (Rooted), a VM is let *)
(* go only when it has ended (Ended) or somebody else has it (Kept), and   *)
(* what the backend will have after any prefix of its queue (Saved) is     *)
(* within the size, because after all of it this is what memory has ready  *)
(* (Mirrored) beside the warm-ups in flight (Sized).                       *)
(***************************************************************************)
EXTENDS SandboxPool, FiniteSetTheorems, WellFoundedInduction, TLAPS

WarmPc ==
    {"idle", "queued", "launch", "saving", "create", "paused", "parking", "discard", "failed",
     "parkFailed", "forget", "terminate", "end"}
(* Where a warm-up has its VM for itself.                                  *)
Exclusive ==
    {"saving", "create", "paused", "discard", "failed", "parkFailed", "forget", "terminate"}
(* Where it has one for certain.                                           *)
Owning == {"saving", "create", "paused"}
(* Where a warm-up waits for the backend.                                  *)
Saving == {"saving", "parking", "forget"}
(* Where a take() has no VM yet, and where it has or had one.              *)
Quiet == {"idle", "claim", "retry", "register", "wait"}
Live == {"deleting", "resume", "open", "fallback", "done"}

MaybeVM == VMs \cup {NoVM}
States == {"none", "RUNNING", "SUSPENDED"} \cup Over
Bys ==
    {<<"warm", w>> : w \in Warmers} \cup {<<"take", t>> : t \in Takers} \cup
    {<<"sweep">>, <<"close">>}
RecordState == {"none", "warming", "ready"}
Entry == [op : RecordState, id : VMs, by : Bys]
WarmType == [pc : WarmPc, id : MaybeVM, next : {"none", "discard", "failed", "parkFailed"}]
TakeType == [pc : Quiet \cup Live \cup {"failed"}, id : MaybeVM, wait : BOOLEAN]
SweepType ==
    [pc : {"idle", "recover", "recycle", "recycling", "listed", "reconcile", "losing"},
     id : MaybeVM, ids : SUBSET Slots, now : Nat,
     listed : [Slots -> {"absent", "none", "RUNNING", "SUSPENDED", "TERMINATED"}]]

Typed ==
    /\ vm \in [Slots -> States]
    /\ launched \in 0 .. MaxVMs /\ wall \in Nat
    /\ records \in [Slots -> RecordState] /\ backend \in [Slots -> RecordState]
    /\ queue \in Seq(Entry)
    /\ warm \in [Warmers -> WarmType] /\ take \in [Takers -> TakeType] /\ sweep \in SweepType
    /\ held \subseteq VMs /\ draining \subseteq Slots

(* Another pool's slot has no record here, and no task is about it.        *)
ForeignOK ==
    /\ ForeignUntouched
    /\ records[Foreign] = "none"
    /\ Foreign \notin sweep.ids

(* The calls in the queue of the backend, and the one it works on.        *)
Calls == {queue[i] : i \in DOMAIN queue}
Queued(by) == \E e \in Calls : e.by = by

(* Nothing is known of a VM that was not launched yet.                     *)
Unused(v) ==
    /\ records[v] = "none" /\ backend[v] = "none" /\ v \notin held
    /\ \A w \in Warmers : warm[w].id # v
    /\ \A t \in Takers : take[t].id # v
    /\ sweep.id # v /\ v \notin sweep.ids
    /\ \A e \in Calls : e.id # v
Future == \A v \in VMs : v > launched => Unused(v)

(* A call in the backend's queue is the one its task waits for; a task has *)
(* one at most; two about the same VM are a save and then a deletion.      *)
MatchWarm(e) ==
    \A w \in Warmers : e.by = <<"warm", w>> =>
        /\ warm[w].id = e.id
        /\ \/ warm[w].pc = "saving" /\ e.op = "warming"
           \/ warm[w].pc = "parking" /\ e.op = "ready"
           \/ warm[w].pc = "forget" /\ e.op = "none"
MatchTake(e) ==
    \A t \in Takers : e.by = <<"take", t>> =>
        take[t].pc = "deleting" /\ take[t].id = e.id /\ e.op = "none"
Matched ==
    \A e \in Calls :
        /\ MatchWarm(e) /\ MatchTake(e)
        /\ e.by = <<"sweep">> => sweep.id = e.id /\ e.op = "none"
        /\ e.by = <<"close">> => closing = "draining" /\ e.op = "none"
        /\ e.op # "ready" => records[e.id] = "none"
Ordered ==
    \A i, j \in DOMAIN queue : i < j =>
        /\ queue[i].by # queue[j].by
        /\ queue[i].id = queue[j].id => queue[i].op = "ready" /\ queue[j].op = "none"
Awaited ==
    /\ \A w \in Warmers : warm[w].pc \in Saving => Queued(<<"warm", w>>)
    /\ \A t \in Takers : take[t].pc = "deleting" => Queued(<<"take", t>>)
    /\ sweep.id # NoVM => Queued(<<"sweep">>) /\ sweep.pc \in {"recycling", "losing"}

(* Nobody of the pool will do anything to the VM any more.                 *)
Released(v) ==
    /\ records[v] = "none" /\ backend[v] = "none"
    /\ \A e \in Calls : e.id # v
    /\ \A w \in Warmers : warm[w].id = v => warm[w].pc = "end"
    /\ sweep.id # v
    /\ sweep.pc = "recover" => v \notin sweep.ids

(* A warm-up has a VM of its own, for itself until the slot is ready.      *)
WarmAlone(w) ==
    LET v == warm[w].id IN
    /\ records[v] # "ready" /\ v \notin held
    /\ \A t \in Takers : take[t].pc # "failed" => take[t].id # v
    /\ sweep.id # v /\ v \notin sweep.ids
    /\ \A e \in Calls : e.id = v => e.by = <<"warm", w>>
WarmOK ==
    /\ \A w, u \in Warmers : w # u /\ warm[w].id = warm[u].id => warm[w].id = NoVM
    /\ \A w \in Warmers : warm[w].pc \in {"idle", "queued", "launch"} => warm[w].id = NoVM
    /\ \A w \in Warmers : warm[w].pc \in Exclusive /\ warm[w].id # NoVM => WarmAlone(w)
    /\ \A w \in Warmers : warm[w].pc \in Owning => warm[w].id # NoVM
    /\ \A w \in Warmers : warm[w].pc = "forget" => warm[w].next # "none"

(* Two takes have not the same VM, and one that deleted the record has the *)
(* VM for itself.                                                          *)
TakeOK ==
    /\ \A t, u \in Takers :
         t # u /\ take[t].pc \in Live /\ take[u].pc \in Live /\ take[t].id = take[u].id =>
            take[t].id = NoVM
    /\ \A t \in Takers : take[t].pc \in Quiet => take[t].id = NoVM
    /\ \A t \in Takers : take[t].pc \in Live /\ take[t].pc # "deleting" /\ take[t].id # NoVM =>
         Released(take[t].id)
    /\ \A t \in Takers : take[t].pc \in {"deleting", "resume", "open"} => take[t].id # NoVM

HeldOK ==
    \A v \in held :
        /\ Released(v)
        /\ \A t \in Takers : take[t].id = v => take[t].pc \notin {"deleting", "resume", "open"}

(* Warm-ups run only once the pool has started, and not while it drains;   *)
(* the calls of take() that found it not started are over; a sweep runs    *)
(* only while start() or the filler waits for it.                          *)
Early == {"new", "recover", "starting"}
PhaseOK ==
    /\ filler \in Early \/ closing \notin {"open", "settle"} =>
         \A w \in Warmers : warm[w].pc = "idle"
    /\ filler \in Early => \A t \in Takers : take[t].pc \in {"idle", "done", "failed"}
    /\ sweep.pc = "recover" => filler = "recover"
    /\ filler \notin {"recover", "starting", "sweep"} => sweep.pc = "idle"

(* The count of warm-ups is right, so that a deficit can be submitted.     *)
Counted == inflight = Cardinality(Busy)

PIInv ==
    /\ Typed /\ ForeignOK /\ Future /\ Matched /\ Ordered /\ Awaited
    /\ WarmOK /\ TakeOK /\ HeldOK /\ PhaseOK /\ Counted

----------------------------------------------------------------------------
(* Facts about the helpers of the model.                                   *)

(* The slots are natural numbers, so a set of slots has a least one.       *)
LEMMA LeastIn ==
    ASSUME NEW S \in SUBSET Slots, S # {}
    PROVE  Least(S) \in S
<1> DEFINE UpTo(x) == {y \in S : y <= x}
           T == {UpTo(x) : x \in S}
<1>1. S \subseteq Nat /\ Slots = 0 .. MaxVMs
  BY PoolAssumption DEF Slots, VMs, Foreign
<1>2. IsFiniteSet(Slots)
  BY <1>1, FS_Interval, PoolAssumption
<1>3. IsWellFoundedOn(StrictSubsetOrdering(Slots), SUBSET Slots)
  BY <1>2, FS_StrictSubsetOrderingWellFounded, FS_FiniteSubsetsOfFinite
<1>4. T \subseteq SUBSET Slots /\ T # {}
  OBVIOUS
<1>5. PICK m \in T : \A n \in T : ~ (<<n, m>> \in StrictSubsetOrdering(Slots))
  BY <1>3, <1>4, WFMin
<1>6. PICK x \in S : m = UpTo(x)
  BY <1>5
<1>7. ASSUME NEW y \in S
      PROVE  x <= y
  <2> SUFFICES ASSUME y < x
               PROVE  FALSE
    BY <1>1
  <2>1. x \in Nat /\ y \in Nat /\ x <= x /\ ~(x <= y)
    BY <1>1
  <2>2. \A z \in S : z <= y => z <= x
    BY <1>1, <2>1
  <2>3. UpTo(y) \subseteq UpTo(x) /\ x \in UpTo(x) /\ x \notin UpTo(y)
    BY <2>1, <2>2
  <2>4. <<UpTo(y), UpTo(x)>> \in StrictSubsetOrdering(Slots)
    BY <2>3, <1>4 DEF StrictSubsetOrdering
  <2> QED
    BY <1>5, <1>6, <2>4
<1> QED
  BY <1>7 DEF Least

(* A task is told from every other one by its name.                        *)
LEMMA Names ==
    /\ \A w \in Warmers : <<"warm", w>> \in Bys
    /\ \A t \in Takers : <<"take", t>> \in Bys
    /\ <<"sweep">> \in Bys /\ <<"close">> \in Bys
    /\ \A w, u \in Warmers : <<"warm", w>> = <<"warm", u>> => w = u
    /\ \A t, u \in Takers : <<"take", t>> = <<"take", u>> => t = u
    /\ \A w \in Warmers, t \in Takers : <<"warm", w>> # <<"take", t>>
    /\ \A w \in Warmers : <<"warm", w>> # <<"sweep">> /\ <<"warm", w>> # <<"close">>
    /\ \A t \in Takers : <<"take", t>> # <<"sweep">> /\ <<"take", t>> # <<"close">>
    /\ <<"sweep">> # <<"close">>
  BY DEF Bys

(* NoVM is not a VM. *)
LEMMA NoVMs ==
    /\ NoVM \notin VMs /\ NoVM \notin Slots /\ Foreign \notin VMs
    /\ VMs \subseteq Slots /\ Foreign \in Slots /\ NoVM \in MaybeVM /\ VMs \subseteq MaybeVM
  BY PoolAssumption DEF NoVM, VMs, Slots, Foreign, MaybeVM

(* The calls in the queue are of the right type.                           *)
LEMMA CallsTyped ==
    ASSUME queue \in Seq(Entry)
    PROVE  \A e \in Calls :
             e.id \in VMs /\ e.id \in Slots /\ e.by \in Bys /\ e.op \in RecordState
<1>1. \A i \in DOMAIN queue : queue[i] \in Entry
  OBVIOUS
<1> QED
  BY <1>1, NoVMs DEF Calls, Entry

(* A call is queued behind the others. *)
LEMMA AppendCalls ==
    ASSUME NEW e \in Entry, queue \in Seq(Entry), queue' = Append(queue, e)
    PROVE  queue' \in Seq(Entry) /\ Calls' = Calls \cup {e}
<1>1. /\ queue' \in Seq(Entry) /\ Len(queue') = Len(queue) + 1 /\ Len(queue) \in Nat
      /\ \A i \in 1 .. Len(queue) : queue'[i] = queue[i]
      /\ queue'[Len(queue) + 1] = e
      /\ DOMAIN queue = 1 .. Len(queue) /\ DOMAIN queue' = 1 .. Len(queue')
  OBVIOUS
<1>2. ASSUME NEW x \in Calls'
      PROVE  x \in Calls \cup {e}
  <2>1. PICK i \in 1 .. Len(queue') : x = queue'[i]
    BY <1>1, <1>2 DEF Calls
  <2>2. CASE i \in 1 .. Len(queue)
    BY <1>1, <2>1, <2>2 DEF Calls
  <2>3. CASE i = Len(queue) + 1
    BY <1>1, <2>1, <2>3
  <2> QED
    BY <1>1, <2>2, <2>3
<1>3. ASSUME NEW x \in Calls \cup {e}
      PROVE  x \in Calls'
  <2>1. CASE x = e
    BY <1>1, <2>1 DEF Calls
  <2>2. CASE x \in Calls
    <3>1. PICK i \in 1 .. Len(queue) : x = queue[i]
      BY <1>1, <2>2 DEF Calls
    <3>2. i \in DOMAIN queue' /\ queue'[i] = x
      BY <1>1, <3>1
    <3> QED
      BY <3>2 DEF Calls
  <2> QED
    BY <1>3, <2>1, <2>2
<1> QED
  BY <1>1, <1>2, <1>3

(* The queue stays in order when no earlier call is in the way.            *)
LEMMA AppendOrdered ==
    ASSUME NEW e \in Entry, queue \in Seq(Entry), queue' = Append(queue, e), Ordered,
           \A c \in Calls : c.by # e.by /\ (c.id = e.id => c.op = "ready" /\ e.op = "none")
    PROVE  Ordered'
<1>1. /\ Len(queue') = Len(queue) + 1 /\ Len(queue) \in Nat
      /\ \A i \in 1 .. Len(queue) : queue'[i] = queue[i]
      /\ queue'[Len(queue) + 1] = e
      /\ DOMAIN queue = 1 .. Len(queue) /\ DOMAIN queue' = 1 .. Len(queue')
  OBVIOUS
<1>2. \A i \in 1 .. Len(queue) : queue[i] \in Calls
  BY <1>1 DEF Calls
<1> SUFFICES ASSUME NEW i \in DOMAIN queue', NEW j \in DOMAIN queue', i < j
             PROVE  /\ queue'[i].by # queue'[j].by
                    /\ queue'[i].id = queue'[j].id =>
                         queue'[i].op = "ready" /\ queue'[j].op = "none"
  BY DEF Ordered
<1>3. i \in 1 .. Len(queue)
  BY <1>1
<1>4. CASE j \in 1 .. Len(queue)
  BY <1>1, <1>3, <1>4 DEF Ordered
<1>5. CASE j = Len(queue) + 1
  BY <1>1, <1>2, <1>3, <1>5
<1> QED
  BY <1>1, <1>4, <1>5

(* The first call leaves the queue. *)
LEMMA TailCalls ==
    ASSUME queue \in Seq(Entry), queue # <<>>, Ordered, queue' = Tail(queue)
    PROVE  /\ queue' \in Seq(Entry) /\ Ordered'
           /\ Head(queue) \in Calls /\ Head(queue) \in Entry
           /\ Calls' = Calls \ {Head(queue)}
           /\ \A c \in Calls' :
                /\ c.by # Head(queue).by
                /\ c.id = Head(queue).id => Head(queue).op = "ready" /\ c.op = "none"
<1> DEFINE h == Head(queue)
<1>1. /\ queue' \in Seq(Entry) /\ Len(queue') = Len(queue) - 1
      /\ Len(queue) \in Nat /\ Len(queue) > 0
      /\ \A i \in 1 .. Len(queue) - 1 : queue'[i] = queue[i + 1]
      /\ queue[1] = h
      /\ DOMAIN queue = 1 .. Len(queue) /\ DOMAIN queue' = 1 .. Len(queue')
  OBVIOUS
<1>2. h \in Calls /\ h \in Entry
  BY <1>1 DEF Calls
<1>3. Ordered'
  BY <1>1 DEF Ordered
<1>4. ASSUME NEW c \in Calls'
      PROVE  /\ c \in Calls /\ c.by # h.by
             /\ c.id = h.id => h.op = "ready" /\ c.op = "none"
  <2>1. PICK i \in 1 .. Len(queue') : c = queue'[i]
    BY <1>1 DEF Calls
  <2>2. i + 1 \in DOMAIN queue /\ 1 \in DOMAIN queue /\ 1 < i + 1 /\ c = queue[i + 1]
    BY <1>1, <2>1
  <2> QED
    BY <1>1, <2>2 DEF Ordered, Calls
<1>5. ASSUME NEW c \in Calls, c # h
      PROVE  c \in Calls'
  <2>1. PICK i \in 1 .. Len(queue) : c = queue[i]
    BY <1>1 DEF Calls
  <2>2. i # 1
    BY <1>1, <1>5, <2>1
  <2>3. i - 1 \in DOMAIN queue' /\ queue'[i - 1] = c
    BY <1>1, <2>1, <2>2
  <2> QED
    BY <2>3 DEF Calls
<1> QED
  BY <1>1, <1>2, <1>3, <1>4, <1>5

----------------------------------------------------------------------------
(* Steps by the kind of change they make.  Each kind preserves the         *)
(* invariant; an action is shown to be of a kind further down.             *)

(* A step of a warm-up that neither begins nor ends a wait for the backend *)
(* and gets no VM.                                                         *)
WarmStep(w) ==
    /\ warm'[w].id \in {warm[w].id, NoVM}
    /\ warm[w].pc \in Saving \/ warm'[w].pc \in Saving => warm'[w] = warm[w]
    /\ warm'[w].pc \in Exclusive /\ warm'[w].id # NoVM => warm[w].pc \in Exclusive
    /\ warm[w].pc = "end" /\ warm'[w].id # NoVM => warm'[w].pc = "end"
    /\ warm'[w].pc \in Owning => warm[w].pc \in Owning /\ warm'[w].id = warm[w].id
    /\ warm'[w].pc \in {"idle", "queued", "launch"} => warm'[w].id = NoVM

(* The same for a call of take().                                          *)
TakeStep(t) ==
    /\ take'[t].id = take[t].id
    /\ take[t].pc = "deleting" <=> take'[t].pc = "deleting"
    /\ take'[t].pc \in Live => take[t].pc \in Live \/ take[t].id = NoVM
    /\ take'[t].pc \in Quiet => take[t].pc \in Quiet
    /\ take[t].pc = "failed" => take'[t].pc = "failed"
    /\ take'[t].pc \in {"resume", "open"} => take[t].pc \in {"resume", "open"}

(* The same for the sweep, which visits slots that are ready, or that have *)
(* a record in the backend while there are no warm-ups.                    *)
SweepStep ==
    /\ sweep'.id = sweep.id
    /\ sweep.id # NoVM => sweep'.pc = sweep.pc
    /\ \A v \in sweep'.ids :
         \/ v \in sweep.ids
         \/ records[v] = "ready"
         \/ v # Foreign /\ backend[v] # "none" /\ \A w \in Warmers : warm[w].id = NoVM
    /\ sweep'.pc = "recover" => \A v \in sweep'.ids :
         backend[v] # "none" \/ (sweep.pc = "recover" /\ v \in sweep.ids)

(* A VM is given to a client by the take() that has it for itself.         *)
HeldStep ==
    /\ held \subseteq held'
    /\ \A v \in held' \ held :
         /\ v \in VMs /\ v <= launched' /\ Released(v)
         /\ \A t \in Takers : take'[t].id = v => take'[t].pc \notin {"deleting", "resume", "open"}

(* A step of these kinds preserves the invariant.                          *)
LEMMA TasksMove ==
    ASSUME PIInv, Typed', ForeignUntouched', PhaseOK', Counted', UNCHANGED store,
           launched' = launched \/ launched' = launched + 1,
           HeldStep, SweepStep, closing = "draining" => closing' = "draining",
           \A w \in Warmers : WarmStep(w), \A t \in Takers : TakeStep(t)
    PROVE  PIInv'
<1> USE DEF PIInv
<1>1. Calls' = Calls /\ records' = records /\ backend' = backend /\ queue' = queue
  BY DEF Calls, store
<1>2. ASSUME NEW v \in MaybeVM, v # NoVM, Released(v)
      PROVE  Released(v)'
  BY <1>1, <1>2 DEF Released, WarmStep, SweepStep
<1>3. ForeignOK'
  BY <1>1 DEF ForeignOK, SweepStep
<1>4. Future'
  <2> SUFFICES ASSUME NEW v \in VMs, v > launched'
               PROVE  Unused(v)'
    BY DEF Future
  <2>1. v > launched /\ ~(v <= launched')
    BY PoolAssumption DEF Typed, VMs
  <2>2. Unused(v) /\ v # NoVM
    BY <2>1, NoVMs DEF Future
  <2>3. v \notin held'
    BY <2>1, <2>2 DEF Unused, HeldStep
  <2> QED
    BY <1>1, <2>2, <2>3 DEF Unused, WarmStep, TakeStep, SweepStep
<1>5. Matched'
  BY <1>1 DEF Matched, MatchWarm, MatchTake, WarmStep, TakeStep, SweepStep, Saving
<1>6. Ordered'
  BY <1>1 DEF Ordered
<1>7. Awaited'
  BY <1>1 DEF Awaited, Queued, WarmStep, TakeStep, SweepStep
<1>8. WarmOK'
  <2>1. \A w, u \in Warmers : w # u /\ warm'[w].id = warm'[u].id => warm'[w].id = NoVM
    BY DEF WarmOK, WarmStep
  <2>2. \A w \in Warmers : warm'[w].pc \in {"idle", "queued", "launch"} => warm'[w].id = NoVM
    BY DEF WarmStep
  <2>3. ASSUME NEW w \in Warmers, warm'[w].pc \in Exclusive, warm'[w].id # NoVM
        PROVE  WarmAlone(w)'
    <3>1. warm'[w].id = warm[w].id /\ warm[w].pc \in Exclusive /\ WarmAlone(w)
      BY <2>3 DEF WarmStep, WarmOK
    <3>2. warm[w].id \notin held'
      BY <3>1 DEF WarmAlone, HeldStep, Released, Exclusive
    <3>3. \A t \in Takers : take'[t].pc # "failed" => take'[t].id # warm[w].id
      BY <3>1 DEF WarmAlone, TakeStep
    <3>4. sweep'.id # warm[w].id /\ warm[w].id \notin sweep'.ids
      BY <2>3, <3>1 DEF WarmAlone, SweepStep
    <3> QED
      BY <1>1, <3>1, <3>2, <3>3, <3>4 DEF WarmAlone
  <2>4. \A w \in Warmers : warm'[w].pc \in Owning => warm'[w].id # NoVM
    BY DEF WarmStep, WarmOK
  <2>5. \A w \in Warmers : warm'[w].pc = "forget" => warm'[w].next # "none"
    BY DEF WarmStep, WarmOK, Saving
  <2> QED
    BY <2>1, <2>2, <2>3, <2>4, <2>5 DEF WarmOK
<1>9. TakeOK'
  BY <1>1, <1>2 DEF TakeOK, TakeStep, Typed, TakeType
<1>10. HeldOK'
  BY <1>1, <1>2, NoVMs DEF HeldOK, HeldStep, TakeStep, Typed
<1> QED
  BY <1>3, <1>4, <1>5, <1>6, <1>7, <1>8, <1>9, <1>10

(* #forget by the task `by', of a slot that is not another warm-up's: the  *)
(* task waits for the deletion and has the VM.                             *)
Forgets(v, by) ==
    /\ records[v] # "none" /\ Forget(v, by)
    /\ \A w \in Warmers :
         IF by = <<"warm", w>>
         THEN /\ warm[w].pc \in {"discard", "failed", "parkFailed"}
              /\ warm[w].id = v /\ warm'[w].id = v
              /\ warm'[w].pc = "forget" /\ warm'[w].next # "none"
         ELSE /\ warm'[w] = warm[w]
              /\ warm[w].pc \in Exclusive => warm[w].id # v
    /\ \A t \in Takers :
         IF by = <<"take", t>>
         THEN take[t].pc \in {"claim", "retry"} /\ take'[t].pc = "deleting" /\ take'[t].id = v
         ELSE take'[t] = take[t]
    /\ IF by = <<"sweep">>
       THEN /\ sweep.pc \in {"recycle", "reconcile"} /\ sweep'.pc \in {"recycling", "losing"}
            /\ sweep'.id = v /\ sweep'.ids \subseteq sweep.ids
       ELSE sweep' = sweep
    /\ IF by = <<"close">>
       THEN closing = "drain" /\ closing' = "draining"
       ELSE closing' = closing

(* A step of this kind preserves the invariant.                            *)
LEMMA SlotForgotten ==
    ASSUME PIInv, Typed', ForeignUntouched', PhaseOK', Counted', UNCHANGED <<launched, held>>,
           NEW v \in VMs, NEW by \in Bys, Forgets(v, by)
    PROVE  PIInv'
<1> USE DEF PIInv
<1> DEFINE new == [op |-> "none", id |-> v, by |-> by]
<1>1. /\ records' = [records EXCEPT ![v] = "none"] /\ queue' = Append(queue, new)
      /\ backend' = backend /\ records[v] # "none" /\ v # NoVM /\ v \in Slots
  BY NoVMs DEF Forgets, Forget, Call
<1>2. new \in Entry /\ new.op = "none" /\ new.id = v /\ new.by = by
  BY DEF Entry, RecordState
<1> HIDE DEF new
<1>3. queue' \in Seq(Entry) /\ Calls' = Calls \cup {new} /\ queue \in Seq(Entry)
  BY <1>1, <1>2, AppendCalls DEF Typed
<1>4. /\ \A x \in Slots \ {v} : records'[x] = records[x]
      /\ records'[v] = "none" /\ \A x \in Slots : records'[x] = "none" \/ records'[x] = records[x]
  BY <1>1 DEF Typed
<1>5. \A e \in Calls : e.id \in VMs /\ e.id \in Slots /\ e.by \in Bys
  BY CallsTyped DEF Typed
<1>6. \A e \in Calls : e.by # by
  <2>1. by = <<"sweep">> => sweep.id = NoVM
    BY DEF Forgets, Awaited
  <2> QED
    BY <1>5, <2>1, NoVMs, Names DEF Forgets, Matched, MatchWarm, MatchTake, Bys
<1>7. \A e \in Calls : e.id = v => e.op = "ready"
  BY <1>1 DEF Matched
<1>8. ASSUME NEW x \in MaybeVM, Released(x)
      PROVE  x # v /\ (x \in Slots => records'[x] = "none")
  BY <1>1, <1>4, <1>8 DEF Released
<1>9. ASSUME NEW x \in VMs, Released(x)
      PROVE  Released(x)'
  <2>1. x # v /\ records'[x] = "none" /\ backend'[x] = "none" /\ x # NoVM
    BY <1>1, <1>8, <1>9, NoVMs DEF Released, MaybeVM
  <2>2. \A e \in Calls' : e.id # x
    BY <1>2, <1>3, <1>9, <2>1 DEF Released
  <2>3. \A w \in Warmers : warm'[w].id = x => warm'[w].pc = "end"
    BY <1>9, <2>1 DEF Released, Forgets
  <2>4. sweep'.id # x /\ (sweep'.pc = "recover" => x \notin sweep'.ids)
    BY <1>9, <2>1 DEF Released, Forgets
  <2> QED
    BY <2>1, <2>2, <2>3, <2>4 DEF Released
<1>10. ForeignOK'
  BY <1>1, <1>4, NoVMs DEF ForeignOK, Forgets
<1>11. Future'
  <2> SUFFICES ASSUME NEW x \in VMs, x > launched
               PROVE  Unused(x)'
    BY DEF Future
  <2>1. Unused(x) /\ x # v /\ x \in Slots
    BY <1>1, NoVMs DEF Future, Unused
  <2> QED
    BY <1>1, <1>2, <1>3, <1>4, <2>1 DEF Unused, Forgets
<1>12. Matched'
  <2>1. ASSUME NEW e \in Calls
        PROVE  /\ MatchWarm(e)' /\ MatchTake(e)'
               /\ e.by = <<"sweep">> => sweep'.id = e.id /\ e.op = "none"
               /\ e.by = <<"close">> => closing' = "draining" /\ e.op = "none"
               /\ e.op # "ready" => records'[e.id] = "none"
    <3>1. MatchWarm(e)'
      BY <1>6 DEF Matched, MatchWarm, Forgets
    <3>2. MatchTake(e)'
      BY <1>6 DEF Matched, MatchTake, Forgets
    <3> QED
      BY <1>4, <1>5, <1>6, <3>1, <3>2 DEF Matched, Forgets
  <2>2. /\ MatchWarm(new)' /\ MatchTake(new)'
        /\ new.by = <<"sweep">> => sweep'.id = new.id /\ new.op = "none"
        /\ new.by = <<"close">> => closing' = "draining" /\ new.op = "none"
        /\ new.op # "ready" => records'[new.id] = "none"
    <3>1. MatchWarm(new)'
      BY <1>2, Names DEF MatchWarm, Forgets
    <3>2. MatchTake(new)'
      BY <1>2, Names DEF MatchTake, Forgets
    <3> QED
      BY <1>2, <1>4, <3>1, <3>2, Names DEF Forgets
  <2> QED
    BY <1>3, <2>1, <2>2 DEF Matched
<1>13. Ordered'
  BY <1>1, <1>2, <1>3, <1>6, <1>7, AppendOrdered
<1>14. Awaited'
  <2>1. \A b : Queued(b) \/ b = by => Queued(b)'
    BY <1>2, <1>3 DEF Queued
  <2>2. \A w \in Warmers : warm'[w].pc \in Saving => Queued(<<"warm", w>>)'
    BY <2>1 DEF Awaited, Forgets
  <2>3. \A t \in Takers : take'[t].pc = "deleting" => Queued(<<"take", t>>)'
    BY <2>1 DEF Awaited, Forgets
  <2>4. sweep'.id # NoVM => Queued(<<"sweep">>)' /\ sweep'.pc \in {"recycling", "losing"}
    BY <2>1 DEF Awaited, Forgets
  <2> QED
    BY <2>2, <2>3, <2>4 DEF Awaited
<1>15. WarmOK'
  <2>1. \A w \in Warmers : warm'[w].id = warm[w].id
    BY DEF Forgets
  <2>2. \A w \in Warmers : warm'[w].pc \in {"idle", "queued", "launch"} => warm'[w].id = NoVM
    BY DEF Forgets, WarmOK
  <2>3. ASSUME NEW w \in Warmers, warm'[w].pc \in Exclusive, warm'[w].id # NoVM
        PROVE  WarmAlone(w)'
    <3>1. warm[w].pc \in Exclusive /\ WarmAlone(w) /\ warm[w].id \in VMs /\ warm[w].id \in Slots
      BY <2>1, <2>3, NoVMs DEF Forgets, WarmOK, Exclusive, Typed, WarmType, MaybeVM
    <3>2. warm[w].id = v => by = <<"warm", w>>
      BY <3>1 DEF Forgets
    <3>3. \A t \in Takers : take'[t].pc # "failed" => take'[t].id # warm[w].id
      BY <3>1, <3>2, Names DEF WarmAlone, Forgets
    <3>4. sweep'.id # warm[w].id /\ warm[w].id \notin sweep'.ids
      BY <3>1, <3>2, Names DEF WarmAlone, Forgets
    <3>5. \A e \in Calls' : e.id = warm[w].id => e.by = <<"warm", w>>
      BY <1>2, <1>3, <3>1, <3>2 DEF WarmAlone
    <3>6. records'[warm[w].id] # "ready"
      BY <1>4, <3>1 DEF WarmAlone
    <3> QED
      BY <2>1, <3>1, <3>3, <3>4, <3>5, <3>6 DEF WarmAlone
  <2>4. \A w \in Warmers : warm'[w].pc \in Owning => warm'[w].id # NoVM
    BY DEF Forgets, WarmOK, Owning
  <2>5. \A w \in Warmers : warm'[w].pc = "forget" => warm'[w].next # "none"
    BY DEF Forgets, WarmOK
  <2> QED
    BY <2>1, <2>2, <2>3, <2>4, <2>5 DEF WarmOK
<1>16. TakeOK'
  <2>1. ASSUME NEW t \in Takers, take[t].pc \in Live
        PROVE  take[t].id # v
    <3>1. CASE take[t].pc = "deleting"
      <4>1. PICK e \in Calls : e.by = <<"take", t>>
        BY <3>1 DEF Awaited, Queued
      <4> QED
        BY <1>1, <4>1 DEF Matched, MatchTake
    <3>2. CASE take[t].pc # "deleting"
      BY <1>1, <2>1, <3>2 DEF TakeOK, Released
    <3> QED
      BY <3>1, <3>2
  <2>2. \A t, u \in Takers :
          t # u /\ take'[t].pc \in Live /\ take'[u].pc \in Live /\ take'[t].id = take'[u].id =>
             take'[t].id = NoVM
    BY <2>1, Names DEF TakeOK, Forgets
  <2>3. \A t \in Takers : take'[t].pc \in Quiet => take'[t].id = NoVM
    BY DEF TakeOK, Forgets, Quiet
  <2>4. ASSUME NEW t \in Takers, take'[t].pc \in Live, take'[t].pc # "deleting", take'[t].id # NoVM
        PROVE  Released(take[t].id)'
    <3>1. take'[t] = take[t] /\ take[t].id \in VMs /\ Released(take[t].id)
      BY <2>4 DEF TakeOK, Forgets, Typed, TakeType, MaybeVM
    <3> QED
      BY <1>9, <3>1
  <2>5. \A t \in Takers : take'[t].pc \in {"deleting", "resume", "open"} => take'[t].id # NoVM
    BY <1>1 DEF TakeOK, Forgets
  <2> QED
    BY <2>2, <2>3, <2>4, <2>5 DEF TakeOK
<1>17. HeldOK'
  BY <1>1, <1>8, <1>9, NoVMs DEF HeldOK, Forgets, Typed, MaybeVM
<1> QED
  BY <1>10, <1>11, <1>12, <1>13, <1>14, <1>15, <1>16, <1>17

(* The first call is done or has failed, and its task goes on.             *)
Leaves(h) ==
    /\ queue # <<>> /\ h = Head(queue) /\ queue' = Tail(queue)
    /\ backend' = backend \/ backend' = [backend EXCEPT ![h.id] = h.op]
    /\ \A w \in Warmers :
         IF h.by = <<"warm", w>>
         THEN /\ warm'[w].id = warm[w].id
              /\ warm'[w].pc \notin Saving \cup Owning \cup {"idle", "queued", "launch"}
              /\ warm'[w].pc \in Exclusive => warm[w].pc \in Exclusive
         ELSE warm'[w] = warm[w]
    /\ \A t \in Takers :
         IF h.by = <<"take", t>>
         THEN /\ take'[t].id = take[t].id
              /\ \/ take'[t].pc = "failed"
                 \/ take'[t].pc = "resume" /\ backend' = [backend EXCEPT ![h.id] = h.op]
         ELSE TakeStep(t)
    /\ IF h.by = <<"sweep">>
       THEN sweep'.id = NoVM /\ sweep'.ids = sweep.ids /\ sweep'.pc # "recover"
       ELSE sweep' = sweep
    /\ h.by # <<"close">> => closing' = closing

(* A step of this kind preserves the invariant.                            *)
LEMMA CallLeaves ==
    ASSUME PIInv, Typed', ForeignUntouched', PhaseOK', Counted', UNCHANGED <<launched, held, records>>,
           NEW h, Leaves(h)
    PROVE  PIInv'
<1> USE DEF PIInv
<1>1. /\ queue' \in Seq(Entry) /\ Ordered'
      /\ h \in Calls /\ h \in Entry /\ Calls' = Calls \ {h}
      /\ \A c \in Calls' : c.by # h.by /\ (c.id = h.id => h.op = "ready" /\ c.op = "none")
  BY TailCalls DEF Leaves, Typed
<1>2. \A e \in Calls : e.id \in VMs /\ e.id \in Slots /\ e.by \in Bys /\ e.op \in RecordState
  BY CallsTyped DEF Typed
<1>3. \A x \in Slots \ {h.id} : backend'[x] = backend[x]
  BY DEF Leaves, Typed
<1>4. \A w \in Warmers : warm'[w].id = warm[w].id
  BY DEF Leaves
<1>5. \A t \in Takers : take'[t].id = take[t].id
  BY DEF Leaves, TakeStep
<1>6. ASSUME NEW x \in VMs, Released(x)
      PROVE  Released(x)'
  <2>1. x # h.id /\ x # NoVM /\ x \in Slots
    BY <1>1, <1>6, NoVMs DEF Released
  <2>2. \A w \in Warmers : warm'[w].id = x => warm'[w].pc = "end"
    <3> SUFFICES ASSUME NEW w \in Warmers, warm'[w].id = x
                 PROVE  warm'[w].pc = "end"
      OBVIOUS
    <3>1. warm[w].pc = "end" /\ h.by # <<"warm", w>>
      BY <1>1, <1>4, <1>6, <2>1 DEF Released, Matched, MatchWarm
    <3> QED
      BY <3>1 DEF Leaves
  <2>3. sweep'.id # x /\ (sweep'.pc = "recover" => x \notin sweep'.ids)
    BY <1>6, <2>1 DEF Released, Leaves
  <2> QED
    BY <1>1, <1>3, <1>6, <2>1, <2>2, <2>3 DEF Released
<1>7. ForeignOK'
  BY DEF ForeignOK, Leaves
<1>8. Future'
  <2> SUFFICES ASSUME NEW x \in VMs, x > launched
               PROVE  Unused(x)'
    BY DEF Future
  <2>1. Unused(x) /\ x # h.id /\ x \in Slots /\ x # NoVM
    BY <1>1, NoVMs DEF Future, Unused
  <2>2. sweep'.id # x /\ x \notin sweep'.ids
    BY <2>1 DEF Unused, Leaves
  <2> QED
    BY <1>1, <1>3, <1>4, <1>5, <2>1, <2>2 DEF Unused
<1>9. Matched'
  <2> SUFFICES ASSUME NEW e \in Calls'
               PROVE  /\ MatchWarm(e)' /\ MatchTake(e)'
                      /\ e.by = <<"sweep">> => sweep'.id = e.id /\ e.op = "none"
                      /\ e.by = <<"close">> => closing' = "draining" /\ e.op = "none"
                      /\ e.op # "ready" => records'[e.id] = "none"
    BY DEF Matched
  <2>1. e \in Calls /\ e.by # h.by
    BY <1>1
  <2>2. MatchWarm(e)'
    BY <2>1 DEF Matched, MatchWarm, Leaves
  <2>3. MatchTake(e)'
    BY <2>1 DEF Matched, MatchTake, Leaves, TakeStep
  <2> QED
    BY <2>1, <2>2, <2>3 DEF Matched, Leaves
<1>10. Awaited'
  <2>1. \A b : Queued(b) /\ b # h.by => Queued(b)'
    BY <1>1 DEF Queued
  <2>2. \A w \in Warmers : warm'[w].pc \in Saving => Queued(<<"warm", w>>)'
    BY <2>1 DEF Awaited, Leaves
  <2>3. \A t \in Takers : take'[t].pc = "deleting" => Queued(<<"take", t>>)'
    BY <2>1 DEF Awaited, Leaves, TakeStep
  <2>4. sweep'.id # NoVM => Queued(<<"sweep">>)' /\ sweep'.pc \in {"recycling", "losing"}
    BY <2>1 DEF Awaited, Leaves
  <2> QED
    BY <2>2, <2>3, <2>4 DEF Awaited
<1>11. WarmOK'
  <2>1. \A w \in Warmers : warm'[w].pc \in {"idle", "queued", "launch"} => warm'[w].id = NoVM
    BY DEF Leaves, WarmOK
  <2>2. ASSUME NEW w \in Warmers, warm'[w].pc \in Exclusive, warm'[w].id # NoVM
        PROVE  WarmAlone(w)'
    <3>1. warm[w].pc \in Exclusive /\ WarmAlone(w) /\ warm[w].id # NoVM
      BY <1>4, <2>2 DEF Leaves, WarmOK
    <3>2. \A t \in Takers : take'[t].pc # "failed" => take'[t].id # warm[w].id
      <4> SUFFICES ASSUME NEW t \in Takers, take'[t].pc # "failed"
                   PROVE  take'[t].id # warm[w].id
        OBVIOUS
      <4>1. take[t].pc # "failed"
        BY <1>1 DEF Leaves, TakeStep, Matched, MatchTake
      <4> QED
        BY <1>5, <3>1, <4>1 DEF WarmAlone
    <3>3. sweep'.id # warm[w].id /\ warm[w].id \notin sweep'.ids
      BY <3>1 DEF WarmAlone, Leaves
    <3> QED
      BY <1>1, <1>4, <3>1, <3>2, <3>3 DEF WarmAlone
  <2>3. \A w \in Warmers : warm'[w].pc \in Owning => warm'[w].id # NoVM
    BY DEF Leaves, WarmOK
  <2>4. \A w \in Warmers : warm'[w].pc = "forget" => warm'[w].next # "none"
    BY DEF Leaves, WarmOK, Saving
  <2> QED
    BY <1>4, <2>1, <2>2, <2>3, <2>4 DEF WarmOK
<1>12. TakeOK'
  <2>1. \A t \in Takers : h.by = <<"take", t>> => take[t].pc = "deleting" /\ take[t].id = h.id
    BY <1>1 DEF Matched, MatchTake
  <2>2. \A t \in Takers : take'[t].pc \in Live => take[t].pc \in Live \/ take[t].id = NoVM
    BY <2>1 DEF Leaves, TakeStep, Live
  <2>3. \A t, u \in Takers :
          t # u /\ take'[t].pc \in Live /\ take'[u].pc \in Live /\ take'[t].id = take'[u].id =>
             take'[t].id = NoVM
    BY <1>5, <2>2 DEF TakeOK
  <2>4. \A t \in Takers : take'[t].pc \in Quiet => take'[t].id = NoVM
    BY DEF TakeOK, Leaves, TakeStep, Quiet
  <2>5. ASSUME NEW t \in Takers, take'[t].pc \in Live, take'[t].pc # "deleting", take'[t].id # NoVM
        PROVE  Released(take[t].id)'
    <3>1. CASE h.by # <<"take", t>>
      <4>1. take[t].id \in VMs /\ Released(take[t].id)
        BY <1>5, <2>5, <3>1 DEF TakeOK, Leaves, TakeStep, Typed, TakeType, MaybeVM
      <4> QED
        BY <1>5, <1>6, <4>1
    <3>2. CASE h.by = <<"take", t>>
      <4>1. /\ take[t].pc = "deleting" /\ take[t].id = h.id /\ h.op = "none" /\ h.id \in VMs
            /\ records[h.id] = "none"
        BY <1>1, <1>2, <3>2 DEF Matched, MatchTake
      <4>2. backend'[h.id] = "none"
        BY <1>1, <1>2, <2>5, <3>2, <4>1 DEF Leaves, Live, Typed
      <4>3. \A e \in Calls' : e.id # h.id
        BY <1>1, <4>1
      <4>4. ASSUME NEW w \in Warmers, warm'[w].id = h.id
            PROVE  warm'[w].pc = "end"
        <5>1. warm[w].id = h.id /\ h.by # <<"warm", w>> /\ warm'[w] = warm[w]
          BY <1>4, <3>2, <4>4, Names DEF Leaves
        <5>2. warm[w].pc \notin Exclusive
          BY <4>1, <5>1, NoVMs DEF WarmOK, WarmAlone
        <5>3. warm[w].pc \notin {"idle", "queued", "launch"}
          BY <4>1, <5>1, NoVMs DEF WarmOK
        <5>4. warm[w].pc # "parking"
          <6> SUFFICES ASSUME warm[w].pc = "parking"
                       PROVE  FALSE
            OBVIOUS
          <6>1. PICK e \in Calls : e.by = <<"warm", w>>
            BY DEF Awaited, Saving, Queued
          <6>2. e \in Calls' /\ e.id = h.id
            BY <1>1, <5>1, <6>1 DEF Matched, MatchWarm
          <6> QED
            BY <4>3, <6>2
        <5> QED
          BY <5>1, <5>2, <5>3, <5>4 DEF Typed, WarmType, WarmPc, Exclusive
      <4>5. sweep'.id # h.id
        <5> SUFFICES ASSUME sweep'.id = h.id
                     PROVE  FALSE
          OBVIOUS
        <5>1. sweep' = sweep /\ sweep.id = h.id /\ sweep.id # NoVM
          BY <3>2, <4>1, Names, NoVMs DEF Leaves
        <5>2. PICK e \in Calls : e.by = <<"sweep">>
          BY <5>1 DEF Awaited, Queued
        <5>3. e \in Calls' /\ e.id = h.id
          BY <1>1, <3>2, <5>1, <5>2, Names DEF Matched
        <5> QED
          BY <4>3, <5>3
      <4>6. sweep'.pc # "recover"
        BY <3>2, <4>1, Names DEF Leaves, PhaseOK, Early
      <4> QED
        BY <1>5, <4>1, <4>2, <4>3, <4>4, <4>5, <4>6 DEF Released
    <3> QED
      BY <3>1, <3>2
  <2>6. \A t \in Takers : take'[t].pc \in {"deleting", "resume", "open"} => take'[t].id # NoVM
    BY <1>5, <2>1 DEF TakeOK, Leaves, TakeStep
  <2> QED
    BY <2>3, <2>4, <2>5, <2>6 DEF TakeOK
<1>13. HeldOK'
  <2>1. ASSUME NEW v \in held
        PROVE  /\ Released(v)'
               /\ \A t \in Takers : take'[t].id = v => take'[t].pc \notin {"deleting", "resume", "open"}
    <3>1. v \in VMs /\ Released(v) /\ v # h.id
      BY <1>1 DEF HeldOK, Typed, Released
    <3>2. \A t \in Takers : take'[t].id = v => h.by # <<"take", t>>
      BY <1>1, <1>5, <3>1 DEF Matched, MatchTake
    <3> QED
      BY <1>6, <3>1, <3>2 DEF HeldOK, Leaves, TakeStep
  <2> QED
    BY <2>1 DEF HeldOK
<1> QED
  BY <1>1, <1>7, <1>8, <1>9, <1>10, <1>11, <1>12, <1>13

----------------------------------------------------------------------------
(* The changes the actions are made of.                                    *)

(* A warm-up goes on, and nothing else about it changes. *)
LEMMA WarmTo ==
    ASSUME warm \in [Warmers -> WarmType], NEW w \in Warmers, NEW pc \in WarmPc, To(w, pc)
    PROVE  /\ warm' \in [Warmers -> WarmType]
           /\ warm'[w].pc = pc /\ warm'[w].id = warm[w].id
           /\ \A u \in Warmers : u # w => warm'[u] = warm[u]
<1>1. warm' = [warm EXCEPT ![w] = [warm[w] EXCEPT !.pc = pc]]
  BY DEF To
<1>2. [warm[w] EXCEPT !.pc = pc] \in WarmType
  BY DEF WarmType
<1> QED
  BY <1>1, <1>2 DEF WarmType

(* #notifyAll changes no take() but those that wait.                       *)
LEMMA NotifiedTakes ==
    ASSUME take \in [Takers -> TakeType], notifyAll
    PROVE  /\ take' \in [Takers -> TakeType]
           /\ \A t \in Takers : TakeStep(t)
           /\ \A t \in Takers : take[t].pc # "wait" => take'[t] = take[t]
<1>1. \A t \in Takers :
        take'[t] = IF take[t].pc = "wait" THEN [take[t] EXCEPT !.pc = "retry"] ELSE take[t]
  BY DEF notifyAll, Notified
<1>2. \A t \in Takers : take'[t] \in TakeType
  BY <1>1 DEF TakeType, Quiet
<1>3. take' \in [Takers -> TakeType]
  BY <1>2 DEF notifyAll, Notified
<1> QED
  BY <1>1, <1>3 DEF TakeStep, Quiet, Live, TakeType

(* A step of one take().                                                   *)
LEMMA OneTakes ==
    ASSUME take \in [Takers -> TakeType], NEW t \in Takers,
           NEW pc \in Quiet \cup Live \cup {"failed"}, TakeTo(t, pc)
    PROVE  /\ take' \in [Takers -> TakeType]
           /\ take'[t].pc = pc /\ take'[t].id = take[t].id
           /\ \A u \in Takers : u # t => take'[u] = take[u] /\ TakeStep(u)
<1>1. take' = [take EXCEPT ![t] = [take[t] EXCEPT !.pc = pc]]
  BY DEF TakeTo
<1>2. [take[t] EXCEPT !.pc = pc] \in TakeType
  BY DEF TakeType
<1>3. /\ take' \in [Takers -> TakeType]
      /\ take'[t].pc = pc /\ take'[t].id = take[t].id
      /\ \A u \in Takers : u # t => take'[u] = take[u]
  BY <1>1, <1>2 DEF TakeType
<1> QED
  BY <1>3 DEF TakeStep

(* #claimReadySlot ends: a step of one take(), and #notifyAll.             *)
LEMMA ClaimEnds ==
    ASSUME take \in [Takers -> TakeType], NEW t \in Takers,
           NEW pc \in {"fallback", "resume"}, Claimed(t, pc)
    PROVE  /\ take' \in [Takers -> TakeType]
           /\ take'[t].pc = pc /\ take'[t].id = take[t].id
           /\ \A u \in Takers : u # t => TakeStep(u) /\ (take[u].pc # "wait" => take'[u] = take[u])
<1> DEFINE calls == [take EXCEPT ![t] = [take[t] EXCEPT !.pc = pc]]
<1>1. [take[t] EXCEPT !.pc = pc] \in TakeType
  BY DEF TakeType, Live
<1>2. /\ calls[t].pc = pc /\ calls[t].id = take[t].id
      /\ \A u \in Takers : u # t => calls[u] = take[u]
  BY <1>1 DEF TakeType
<1>3. \A u \in Takers : calls[u] \in TakeType
  BY <1>1
<1>4. take' = Notified(calls)
  BY DEF Claimed
<1> HIDE DEF calls
<1>5. \A u \in Takers :
        take'[u] = IF calls[u].pc = "wait" THEN [calls[u] EXCEPT !.pc = "retry"] ELSE calls[u]
  BY <1>4 DEF Notified
<1>6. take'[t] = calls[t]
  BY <1>2, <1>5
<1>7. \A u \in Takers : take'[u] \in TakeType
  BY <1>5, <1>3 DEF TakeType, Quiet
<1>8. take' \in [Takers -> TakeType]
  BY <1>4, <1>7 DEF Notified
<1>9. ASSUME NEW u \in Takers, u # t
      PROVE  TakeStep(u) /\ (take[u].pc # "wait" => take'[u] = take[u])
  <2>1. take[u] \in TakeType /\ calls[u] = take[u]
    BY <1>2, <1>9
  <2>2. CASE take[u].pc = "wait"
    <3>0. take'[u] = [take[u] EXCEPT !.pc = "retry"]
      BY <1>5, <2>1, <2>2
    <3>1. take'[u].pc = "retry" /\ take'[u].id = take[u].id
      BY <2>1, <3>0 DEF TakeType
    <3> QED
      BY <2>2, <3>1 DEF TakeStep, Quiet, Live
  <2>3. CASE take[u].pc # "wait"
    <3>1. take'[u] = take[u]
      BY <1>5, <2>1, <2>3
    <3> QED
      BY <3>1 DEF TakeStep
  <2> QED
    BY <2>2, <2>3
<1> QED
  BY <1>2, <1>6, <1>8, <1>9

(* A VM of the pool changes its state; the other pool's does not.          *)
LEMMA VMStates ==
    ASSUME vm \in [Slots -> States],
           NEW v \in MaybeVM, NEW s \in States \ {"none"},
           vm' = [vm EXCEPT ![v] = s]
    PROVE  /\ vm' \in [Slots -> States]
           /\ vm'[Foreign] = vm[Foreign]
           /\ \A x \in Slots : x # v => vm'[x] = vm[x]
  BY NoVMs DEF MaybeVM

(* A VM is terminated, or left when the call fails.                        *)
LEMMA Terminated ==
    ASSUME vm \in [Slots -> States], NEW v \in MaybeVM, Terminate(v)
    PROVE  /\ vm' \in [Slots -> States]
           /\ vm'[Foreign] = vm[Foreign]
           /\ \A x \in Slots : x # v => vm'[x] = vm[x]
           /\ v \in Slots => vm'[v] \in Over
<1>1. PICK s \in Over : vm' = [vm EXCEPT ![v] = s]
  BY DEF Terminate, Over
<1>2. s \in States \ {"none"}
  BY DEF States, Over
<1> QED
  BY <1>1, <1>2, VMStates

(* A task that stays where it is takes a step of the quiet kind.           *)
LEMMA Stays ==
    ASSUME PIInv
    PROVE  /\ warm' = warm => \A w \in Warmers : WarmStep(w)
           /\ take' = take => \A t \in Takers : TakeStep(t)
           /\ sweep' = sweep => SweepStep
           /\ held' = held => HeldStep
  BY DEF PIInv, WarmOK, WarmStep, TakeStep, SweepStep, HeldStep, ForeignOK

(* No warm-up begins or ends.                                              *)
LEMMA CountKept ==
    ASSUME PIInv, inflight' = inflight,
           \A w \in Warmers : warm'[w].pc = "idle" <=> warm[w].pc = "idle"
    PROVE  Counted'
<1>1. Busy' = Busy
  BY DEF Busy
<1> QED
  BY <1>1 DEF PIInv, Counted

(* A set has subsets of every size up to its own.                          *)
LEMMA SubsetOfSize ==
    ASSUME NEW S, IsFiniteSet(S), NEW n \in Nat, n <= Cardinality(S)
    PROVE  \E T \in SUBSET S : Cardinality(T) = n
<1>1. Cardinality(S) \in Nat /\ ExistsBijection(1 .. Cardinality(S), S)
  BY FS_CardinalityType
<1>2. PICK f \in Bijection(1 .. Cardinality(S), S) : TRUE
  BY <1>1 DEF ExistsBijection
<1>3. /\ f \in [1 .. Cardinality(S) -> S]
      /\ \A i, j \in 1 .. Cardinality(S) : f[i] = f[j] => i = j
  BY <1>2 DEF Bijection, Injection, IsInjective
<1> DEFINE T == {f[i] : i \in 1 .. n}
           g == [i \in 1 .. n |-> f[i]]
<1>4. \A i \in 1 .. n : i \in 1 .. Cardinality(S)
  BY <1>1
<1>5. T \in SUBSET S /\ g \in [1 .. n -> T]
  BY <1>3, <1>4
<1>6. g \in Bijection(1 .. n, T)
  BY <1>3, <1>4, <1>5 DEF Bijection, Injection, Surjection, IsInjective
<1>7. Cardinality(T) = n
  BY <1>6, FS_Bijection, FS_Interval DEF ExistsBijection
<1> QED
  BY <1>5, <1>7

(* The warm-ups to submit are idle, and as many as slots are missing.      *)
LEMMA SubmittedIdle ==
    ASSUME PIInv
    PROVE  /\ Submitted \subseteq {w \in Warmers : warm[w].pc = "idle"}
           /\ IsFiniteSet(Submitted) /\ IsFiniteSet(Busy)
           /\ IF deficit <= 0 THEN Submitted = {} ELSE Cardinality(Submitted) = deficit
<1> DEFINE spare == {w \in Warmers : warm[w].pc = "idle"}
<1>1. IsFiniteSet(Warmers) /\ Cardinality(Warmers) = Size
  BY FS_Interval, PoolAssumption DEF Warmers
<1>2. Busy \subseteq Warmers /\ spare = Warmers \ Busy /\ Warmers \cap Busy = Busy
  BY DEF Busy
<1>3. IsFiniteSet(spare) /\ IsFiniteSet(Busy) /\ Cardinality(Busy) \in Nat
  BY <1>1, <1>2, FS_Subset, FS_CardinalityType
<1>4. Cardinality(spare) = Size - Cardinality(Busy)
  BY <1>1, <1>2, FS_Difference
<1>5. IsFiniteSet(readyRecords) /\ Cardinality(readyRecords) \in Nat
  <2>1. readyRecords \in SUBSET Slots /\ Slots = 0 .. MaxVMs
    BY PoolAssumption DEF readyRecords, Slots, VMs, Foreign
  <2>2. IsFiniteSet(Slots)
    BY <2>1, FS_Interval, PoolAssumption
  <2> QED
    BY <2>1, <2>2, FS_Subset, FS_CardinalityType
<1>6. CASE deficit <= 0
  BY <1>3, <1>6, FS_EmptySet DEF Submitted
<1>7. CASE ~(deficit <= 0)
  <2>1. deficit \in Nat /\ deficit <= Cardinality(spare)
    BY <1>3, <1>4, <1>5, <1>7, PoolAssumption DEF deficit, PIInv, Counted
  <2>2. \E T \in SUBSET spare : Cardinality(T) = deficit
    BY <1>3, <2>1, SubsetOfSize
  <2>3. Submitted = CHOOSE T \in SUBSET spare : Cardinality(T) = deficit
    BY <1>7 DEF Submitted
  <2>4. Submitted \in SUBSET spare /\ Cardinality(Submitted) = deficit
    BY <2>2, <2>3
  <2> QED
    BY <1>3, <1>7, <2>4, FS_Subset
<1> QED
  BY <1>6, <1>7

(* The initial state.                                                      *)
LEMMA PoolStarts == Init => PIInv
<1> SUFFICES ASSUME Init
             PROVE  PIInv
  OBVIOUS
<1>1. Calls = {} /\ queue = <<>>
  BY DEF Init, Calls
<1>2. /\ Idle \in WarmType /\ Idle.pc = "idle" /\ Idle.id = NoVM
      /\ NoTake \in TakeType /\ NoTake.pc = "idle" /\ NoTake.id = NoVM
      /\ NoSweep \in SweepType /\ NoSweep.pc = "idle" /\ NoSweep.id = NoVM /\ NoSweep.ids = {}
  BY NoVMs DEF Idle, NoTake, NoSweep, WarmType, TakeType, SweepType, WarmPc, Quiet
<1>3. /\ \A w \in Warmers : warm[w] = Idle
      /\ \A t \in Takers : take[t] = NoTake
      /\ sweep = NoSweep /\ \A v \in Slots : records[v] = "none"
      /\ \A v \in VMs : backend[v] = "none"
  BY NoVMs DEF Init, NewProcess
<1>4. Typed
  BY <1>1, <1>2, PoolAssumption DEF Init, NewProcess, Typed, RecordState, States, Over
<1>5. ForeignOK
  BY <1>2, <1>3, NoVMs DEF Init, ForeignOK, ForeignUntouched
<1>6. Future
  BY <1>1, <1>2, <1>3, NoVMs DEF Init, Future, Unused
<1>7. Matched /\ Ordered /\ Awaited
  BY <1>1, <1>2, <1>3 DEF Matched, Ordered, Awaited, Saving
<1>8. WarmOK /\ TakeOK /\ HeldOK
  BY <1>2, <1>3 DEF Init, WarmOK, TakeOK, HeldOK, Exclusive, Owning, Live
<1>9. PhaseOK
  BY <1>2, <1>3 DEF Init, PhaseOK
<1>10. Counted
  <2>1. Busy = {}
    BY <1>2, <1>3 DEF Busy
  <2> QED
    BY <2>1, FS_EmptySet DEF Init, Counted
<1> QED
  BY <1>4, <1>5, <1>6, <1>7, <1>8, <1>9, <1>10 DEF PIInv

----------------------------------------------------------------------------
(* start(), the filler and the crash.                                      *)

(* What a sweep is when it begins, and when there is none.                 *)
LEMMA SweepForms ==
    /\ NoSweep \in SweepType /\ NoSweep.pc = "idle" /\ NoSweep.id = NoVM /\ NoSweep.ids = {}
    /\ \A S \in SUBSET Slots :
         LET s == [NoSweep EXCEPT !.pc = "recover", !.ids = S] IN
         s \in SweepType /\ s.pc = "recover" /\ s.id = NoVM /\ s.ids = S
    /\ wall \in Nat => SweepBegins \in SweepType
    /\ SweepBegins.pc = "recycle" /\ SweepBegins.id = NoVM /\ SweepBegins.ids = readyRecords
  BY NoVMs DEF NoSweep, SweepBegins, SweepType, readyRecords

(* start() reads the records of the backend.                               *)
LEMMA StartKeeps == PIInv /\ start => PIInv'
<1> SUFFICES ASSUME PIInv, start
             PROVE  PIInv'
  OBVIOUS
<1> DEFINE S == {v \in Slots : backend[v] # "none" /\ ownsSlot(v)}
<1>1. /\ sweep' \in SweepType /\ sweep'.pc = "recover" /\ sweep'.id = NoVM /\ sweep'.ids = S
      /\ \A v \in S : v \in Slots /\ backend[v] # "none" /\ v # Foreign
  BY SweepForms DEF start, ownsSlot
<1> HIDE DEF S
<1>2. /\ filler = "new" /\ filler' = "recover" /\ closing = "open"
      /\ UNCHANGED <<vm, launched, wall, records, backend, queue, warm, inflight, take, closing, draining, held>>
  BY DEF start, account, store, warming, close, ghost, stopping
<1>3. /\ \A w \in Warmers : warm[w].pc = "idle" /\ warm[w].id = NoVM
      /\ sweep.pc = "idle" /\ sweep.id = NoVM
  BY <1>2 DEF PIInv, PhaseOK, Early, WarmOK, Awaited
<1>4. SweepStep
  BY <1>1, <1>3 DEF SweepStep
<1>5. Typed' /\ ForeignUntouched' /\ UNCHANGED <<launched, store>>
  BY <1>1, <1>2 DEF PIInv, Typed, ForeignOK, ForeignUntouched, store
<1>6. PhaseOK'
  BY <1>1, <1>2 DEF PIInv, PhaseOK, Early
<1> QED
  BY <1>2, <1>4, <1>5, <1>6, TasksMove, Stays, CountKept

(* The recovery ends, and the first sweep begins.                          *)
LEMMA FirstSweepKeeps == PIInv /\ firstSweep => PIInv'
<1> SUFFICES ASSUME PIInv, firstSweep
             PROVE  PIInv'
  OBVIOUS
<1>1. /\ sweep' \in SweepType /\ sweep'.pc = "recycle" /\ sweep'.id = NoVM
      /\ sweep'.ids = readyRecords
  BY SweepForms DEF firstSweep, PIInv, Typed
<1>2. /\ sweep.pc = "recover" /\ filler' = "starting"
      /\ UNCHANGED <<vm, launched, wall, records, backend, queue, warm, inflight, take, closing, draining, held>>
  BY DEF firstSweep, account, store, warming, close, ghost
<1>3. sweep.id = NoVM /\ filler = "recover"
  BY <1>2 DEF PIInv, Awaited, PhaseOK
<1>4. SweepStep
  BY <1>1, <1>3 DEF SweepStep, readyRecords
<1>5. Typed' /\ ForeignUntouched' /\ UNCHANGED <<launched, store>>
  BY <1>1, <1>2 DEF PIInv, Typed, ForeignOK, ForeignUntouched, store
<1>6. PhaseOK'
  BY <1>1, <1>2, <1>3 DEF PIInv, PhaseOK, Early
<1> QED
  BY <1>2, <1>4, <1>5, <1>6, TasksMove, Stays, CountKept

(* A sweep is over and the filler goes on.                                 *)
LEMMA LoopKeeps == PIInv /\ (startFiller \/ sweepReturns) => PIInv'
<1> SUFFICES ASSUME PIInv, startFiller \/ sweepReturns
             PROVE  PIInv'
  OBVIOUS
<1>1. /\ filler \in {"starting", "sweep"} /\ sweep.pc = "idle" /\ filler' = "loop"
      /\ UNCHANGED <<vm, launched, wall, records, backend, queue, warm, inflight, take, closing, draining,
                     held, sweep>>
  BY DEF startFiller, sweepReturns, account, store, warming, close, ghost
<1>2. Typed' /\ ForeignUntouched' /\ UNCHANGED <<launched, store>>
  BY <1>1 DEF PIInv, Typed, ForeignOK, ForeignUntouched, store
<1>3. PhaseOK'
  BY <1>1 DEF PIInv, PhaseOK, Early
<1> QED
  BY <1>1, <1>2, <1>3, TasksMove, Stays, CountKept

(* The filler wakes up, or begins a sweep.                                 *)
LEMMA WakeKeeps == PIInv /\ wake => PIInv'
<1> SUFFICES ASSUME PIInv, wake
             PROVE  PIInv'
  OBVIOUS
<1>1. /\ filler = "wait"
      /\ UNCHANGED <<vm, launched, wall, records, backend, queue, warm, inflight, take, closing, draining, held>>
      /\ \/ filler' = "loop" /\ sweep' = sweep
         \/ filler' = "sweep" /\ sweep' = SweepBegins
  BY DEF wake, account, store, warming, close, ghost
<1>2. sweep.pc = "idle" /\ sweep.id = NoVM
  BY <1>1 DEF PIInv, PhaseOK, Awaited
<1>3. sweep' \in SweepType
  BY <1>1, SweepForms DEF PIInv, Typed
<1>4. SweepStep /\ sweep'.pc # "recover"
  BY <1>1, <1>2, SweepForms, Stays DEF SweepStep, readyRecords
<1>5. Typed' /\ ForeignUntouched' /\ UNCHANGED <<launched, store>>
  BY <1>1, <1>3 DEF PIInv, Typed, ForeignOK, ForeignUntouched, store
<1>6. PhaseOK'
  BY <1>1, <1>2, <1>4 DEF PIInv, PhaseOK, Early
<1> QED
  BY <1>1, <1>4, <1>5, <1>6, TasksMove, Stays, CountKept

(* The slots that are missing are submitted, and counted.                  *)
LEMMA Submits ==
    ASSUME PIInv,
           warm' = [w \in Warmers |-> IF w \in Submitted
                                      THEN [Idle EXCEPT !.pc = "queued"] ELSE warm[w]],
           inflight' = inflight + Cardinality(Submitted)
    PROVE  warm' \in [Warmers -> WarmType] /\ Counted' /\ \A w \in Warmers : WarmStep(w)
<1> DEFINE new == [Idle EXCEPT !.pc = "queued"]
<1>1. new \in WarmType /\ new.pc = "queued" /\ new.id = NoVM
  BY NoVMs DEF Idle, WarmType, WarmPc
<1>2. \A w \in Warmers : warm'[w] = IF w \in Submitted THEN new ELSE warm[w]
  OBVIOUS
<1> HIDE DEF new
<1>3. warm' \in [Warmers -> WarmType]
  <2>1. \A w \in Warmers : warm'[w] \in WarmType
    BY <1>1, <1>2 DEF PIInv, Typed
  <2> QED
    BY <2>1
<1>4. ASSUME NEW w \in Warmers
      PROVE  WarmStep(w)
  <2>1. CASE w \in Submitted
    BY <1>1, <1>2, <2>1, SubmittedIdle DEF WarmStep, Saving, Exclusive, Owning
  <2>2. CASE w \notin Submitted
    BY <1>2, <2>2 DEF PIInv, WarmOK, WarmStep
  <2> QED
    BY <2>1, <2>2
<1>5. Counted'
  <2>1. Busy' = Busy \cup Submitted /\ Busy \cap Submitted = {}
    BY <1>1, <1>2, SubmittedIdle DEF Busy
  <2>2. Cardinality(Busy \cup Submitted) = Cardinality(Busy) + Cardinality(Submitted)
    <3>1. /\ IsFiniteSet(Busy) /\ IsFiniteSet(Submitted) /\ Cardinality(Busy \cap Submitted) = 0
          /\ Cardinality(Busy) \in Nat /\ Cardinality(Submitted) \in Nat
      BY <2>1, SubmittedIdle, FS_EmptySet, FS_CardinalityType
    <3>2. Cardinality(Busy \cup Submitted) =
            Cardinality(Busy) + Cardinality(Submitted) - Cardinality(Busy \cap Submitted)
      BY <3>1, FS_Union
    <3> QED
      BY <3>1, <3>2
  <2> QED
    BY <2>1, <2>2 DEF PIInv, Counted
<1> QED
  BY <1>3, <1>4, <1>5

(* A turn of the filler.                                                   *)
LEMMA FillerKeeps == PIInv /\ (runFiller \/ pause) => PIInv'
<1> SUFFICES ASSUME PIInv, runFiller \/ pause
             PROVE  PIInv'
  OBVIOUS
<1>1. /\ filler \in {"loop", "backoff"} /\ filler' \in {"ended", "backoff", "wait", "loop"}
      /\ UNCHANGED <<vm, launched, wall, records, backend, queue, take, closing, draining, held,
                     sweep>>
  BY DEF runFiller, pause, account, store, close, ghost
<1>2. \/ warm' = warm /\ inflight' = inflight
      \/ /\ ~stopping
         /\ warm' = [w \in Warmers |-> IF w \in Submitted
                                       THEN [Idle EXCEPT !.pc = "queued"] ELSE warm[w]]
         /\ inflight' = inflight + Cardinality(Submitted)
  BY DEF runFiller, pause
<1>3. warm' \in [Warmers -> WarmType] /\ Counted' /\ \A w \in Warmers : WarmStep(w)
  BY <1>2, Submits, Stays, CountKept DEF PIInv, Typed
<1>4. Typed' /\ ForeignUntouched' /\ UNCHANGED <<launched, store>>
  BY <1>1, <1>3 DEF PIInv, Typed, ForeignOK, ForeignUntouched, store
<1>5. PhaseOK'
  BY <1>1, <1>2 DEF PIInv, PhaseOK, Early, stopping
<1> QED
  BY <1>1, <1>3, <1>4, <1>5, TasksMove, Stays

(* A record is recovered from the backend, or an orphan removed from it:   *)
(* no warm-up and no take() is under way, and no VM that was given to a    *)
(* client is among those to recover.                                       *)
LEMMA RecoverKeeps == PIInv /\ recover => PIInv'
<1> SUFFICES ASSUME PIInv, recover
             PROVE  PIInv'
  OBVIOUS
<1> USE DEF PIInv
<1> DEFINE v == Least(sweep.ids)
<1>1. v \in sweep.ids /\ v \in Slots /\ v # Foreign /\ v \in VMs /\ sweep.pc = "recover"
  BY LeastIn DEF recover, Typed, SweepType, ForeignOK, Slots
<1>2. /\ \/ records' = [records EXCEPT ![v] = "ready"] /\ vm' = vm /\ backend' = backend
         \/ /\ backend' = [backend EXCEPT ![v] = "none"] /\ records' = records
            /\ Terminate(v)
      /\ sweep' = [sweep EXCEPT !.ids = @ \ {v}] /\ queue = <<>>
  BY DEF recover
<1> HIDE DEF v
<1>3. /\ sweep' \in SweepType /\ sweep'.pc = "recover" /\ sweep'.id = sweep.id
      /\ sweep'.ids = sweep.ids \ {v}
  <2>1. sweep.ids \ {v} \in SUBSET Slots
    BY DEF Typed, SweepType
  <2> QED
    BY <1>1, <1>2, <2>1 DEF Typed, SweepType
<1>4. UNCHANGED <<launched, wall, queue, filler, warm, inflight, take, closing, draining, held>>
  BY DEF recover, loop, warming, close, ghost
<1>5. /\ \A x \in Slots \ {v} : records'[x] = records[x] /\ backend'[x] = backend[x] /\ vm'[x] = vm[x]
      /\ records' \in [Slots -> RecordState] /\ backend' \in [Slots -> RecordState]
      /\ vm' \in [Slots -> States]
  <2>1. v \in MaybeVM /\ vm \in [Slots -> States]
    BY <1>1 DEF MaybeVM, Typed
  <2>2. vm' \in [Slots -> States] /\ \A x \in Slots \ {v} : vm'[x] = vm[x]
    BY <1>2, <2>1, Terminated
  <2> QED
    BY <1>2, <2>2 DEF Typed, RecordState
<1>6. /\ filler = "recover" /\ Calls = {} /\ Calls' = {} /\ sweep.id = NoVM
      /\ \A w \in Warmers : warm[w].pc = "idle" /\ warm[w].id = NoVM
      /\ \A t \in Takers : take[t].pc \in {"idle", "done", "failed"}
  BY <1>1, <1>2, <1>4 DEF PhaseOK, Early, Calls, WarmOK, Awaited
<1>7. ASSUME NEW x \in VMs, Released(x)
      PROVE  Released(x)'
  <2>1. x # v /\ x \in Slots
    BY <1>1, <1>7, NoVMs DEF Released
  <2> QED
    BY <1>1, <1>3, <1>4, <1>5, <1>6, <1>7, <2>1 DEF Released
<1>8. Typed'
  BY <1>3, <1>4, <1>5 DEF Typed
<1>9. ForeignOK'
  BY <1>1, <1>3, <1>5, NoVMs DEF ForeignOK, ForeignUntouched
<1>10. Future'
  <2> SUFFICES ASSUME NEW x \in VMs, x > launched
               PROVE  Unused(x)'
    BY <1>4 DEF Future
  <2>1. Unused(x) /\ x # v /\ x \in Slots
    BY <1>1, NoVMs DEF Future, Unused
  <2> QED
    BY <1>3, <1>4, <1>5, <1>6, <2>1 DEF Unused
<1>11. Matched' /\ Ordered' /\ Awaited'
  BY <1>2, <1>3, <1>4, <1>6 DEF Matched, Ordered, Awaited, Saving
<1>12. WarmOK'
  BY <1>4, <1>6 DEF WarmOK, Exclusive, Owning
<1>13. TakeOK' /\ HeldOK'
  BY <1>4, <1>7 DEF TakeOK, HeldOK, Typed, TakeType, MaybeVM
<1>14. PhaseOK'
  BY <1>3, <1>4, <1>6 DEF PhaseOK
<1>15. Counted'
  BY <1>4, CountKept
<1> QED
  BY <1>8, <1>9, <1>10, <1>11, <1>12, <1>13, <1>14, <1>15

(* A new process has no task; what was released stays released.            *)
LEMMA CrashKeeps == PIInv /\ Crash => PIInv'
<1> SUFFICES ASSUME PIInv, Crash
             PROVE  PIInv'
  OBVIOUS
<1> USE DEF PIInv
<1>1. Calls' = {} /\ queue' = <<>>
  BY DEF Crash, Calls
<1>2. /\ Idle \in WarmType /\ Idle.pc = "idle" /\ Idle.id = NoVM
      /\ [NoTake EXCEPT !.pc = "failed"] \in TakeType
      /\ [NoTake EXCEPT !.pc = "failed"].pc = "failed"
      /\ [NoTake EXCEPT !.pc = "failed"].id = NoVM
  BY NoVMs DEF Idle, NoTake, WarmType, TakeType, WarmPc, Quiet
<1>3. /\ \A w \in Warmers : warm'[w] = Idle
      /\ warm' \in [Warmers -> WarmType]
      /\ sweep' = NoSweep /\ \A v \in Slots : records'[v] = "none"
      /\ records' \in [Slots -> RecordState] /\ draining' = {} /\ inflight' = 0
      /\ UNCHANGED <<vm, launched, wall, backend, held>>
      /\ filler' = "new" /\ closing' = "open"
  BY <1>2 DEF Crash, NewProcess, RecordState, account
<1>4. \A t \in Takers :
        \/ take'[t] = take[t] /\ take[t].pc \in {"idle", "done", "failed"}
        \/ take'[t].pc = "failed" /\ take'[t].id = NoVM /\ take'[t] \in TakeType
  BY <1>2 DEF Crash
<1>5. take' \in [Takers -> TakeType]
  <2>1. \A t \in Takers : take'[t] \in TakeType
    BY <1>4 DEF Typed
  <2> QED
    BY <2>1 DEF Crash
<1>6. sweep' \in SweepType /\ sweep'.pc = "idle" /\ sweep'.id = NoVM /\ sweep'.ids = {}
  BY <1>3, SweepForms, Zenon
<1>7. queue' \in Seq(Entry) /\ {} \subseteq Slots
  BY <1>1
<1>8. Typed'
  BY <1>3, <1>5, <1>6, <1>7 DEF Typed
<1>9. ForeignOK'
  BY <1>3, NoVMs, <1>6 DEF ForeignOK, ForeignUntouched
<1>10. ASSUME NEW x \in VMs, Released(x)
      PROVE  Released(x)'
  <2>1. x # NoVM /\ x \in Slots
    BY NoVMs
  <2> QED
    BY <1>1, <1>2, <1>3, <1>10, <1>6, <2>1 DEF Released
<1>11. Future'
  <2> SUFFICES ASSUME NEW x \in VMs, x > launched
               PROVE  Unused(x)'
    BY <1>3 DEF Future
  <2>1. Unused(x) /\ x # NoVM /\ x \in Slots
    BY NoVMs DEF Future
  <2> QED
    BY <1>1, <1>2, <1>3, <1>4, <2>1, <1>6 DEF Unused
<1>12. Matched' /\ Ordered' /\ Awaited'
  BY <1>1, <1>2, <1>3, <1>4, <1>6 DEF Matched, Ordered, Awaited, Saving
<1>13. WarmOK'
  BY <1>2, <1>3 DEF WarmOK, Exclusive, Owning
<1>14. TakeOK'
  BY <1>4, <1>10 DEF TakeOK, Typed, TakeType, MaybeVM, Live, Quiet
<1>15. HeldOK'
  BY <1>3, <1>4, <1>10 DEF HeldOK, Typed
<1>16. PhaseOK'
  BY <1>2, <1>3, <1>4, <1>6 DEF PhaseOK
<1>17. Counted'
  <2>1. Busy' = {}
    BY <1>2, <1>3 DEF Busy
  <2> QED
    BY <1>3, <2>1, FS_EmptySet DEF Counted
<1> QED
  BY <1>8, <1>9, <1>11, <1>12, <1>13, <1>14, <1>15, <1>16, <1>17

----------------------------------------------------------------------------
(* The sweep.                                                              *)

(* The call at the head of the queue is done, or fails.                    *)
LEMMA HeadDone ==
    ASSUME PIInv, NEW by, Mine(by), Done \/ Failed
    PROVE  /\ queue # <<>> /\ queue' = Tail(queue) /\ queue' \in Seq(Entry)
           /\ Head(queue) \in Calls /\ Head(queue).by = by
           /\ Head(queue).id \in VMs /\ Head(queue).id \in Slots
           /\ backend' = backend \/ backend' = [backend EXCEPT ![Head(queue).id] = Head(queue).op]
           /\ backend' \in [Slots -> RecordState] /\ backend'[Foreign] = backend[Foreign]
<1>1. queue # <<>> /\ queue' = Tail(queue) /\ Head(queue).by = by
  BY DEF Mine, Done, Failed
<1>2. queue' \in Seq(Entry) /\ Head(queue) \in Calls
  BY <1>1, TailCalls DEF PIInv, Typed
<1>3. /\ Head(queue).id \in VMs /\ Head(queue).id \in Slots /\ Head(queue).op \in RecordState
      /\ Head(queue).id # Foreign
  BY <1>2, CallsTyped, NoVMs DEF PIInv, Typed
<1>4. backend' = backend \/ backend' = [backend EXCEPT ![Head(queue).id] = Head(queue).op]
  BY DEF Done, Failed
<1>5. backend' \in [Slots -> RecordState] /\ backend'[Foreign] = backend[Foreign]
  BY <1>3, <1>4, NoVMs DEF PIInv, Typed
<1> QED
  BY <1>1, <1>2, <1>3, <1>4, <1>5

(* What the sweep leaves alone, the VMs aside.                             *)
SweepFrame ==
    UNCHANGED <<launched, wall, filler, warm, inflight, closing, draining, held>>

(* The sweep passes over a slot, and may suspend its VM again.             *)
LEMMA SweepPasses ==
    ASSUME PIInv, SweepFrame, UNCHANGED <<store, take>>, NEW v \in VMs,
           sweep.pc \in {"recycle", "reconcile"},
           sweep' = [sweep EXCEPT !.ids = @ \ {v}],
           vm' = vm \/ vm' = [vm EXCEPT ![v] = "SUSPENDED"]
    PROVE  PIInv'
<1>1. /\ sweep' \in SweepType /\ sweep'.pc = sweep.pc /\ sweep'.id = sweep.id
      /\ sweep'.ids = sweep.ids \ {v}
  <2>1. sweep.ids \ {v} \in SUBSET Slots
    BY DEF PIInv, Typed, SweepType
  <2> QED
    BY <2>1 DEF PIInv, Typed, SweepType
<1>2. SweepStep
  BY <1>1 DEF SweepStep
<1>3. /\ vm' \in [Slots -> States]
      /\ vm'[Foreign] = vm[Foreign]
  BY VMStates DEF PIInv, Typed, MaybeVM, States
<1>4. Typed' /\ ForeignUntouched' /\ UNCHANGED <<launched, store, closing>>
  BY <1>1, <1>3 DEF PIInv, Typed, ForeignOK, ForeignUntouched, store, SweepFrame
<1>5. PhaseOK'
  BY <1>1 DEF PIInv, PhaseOK, SweepFrame
<1>6. Counted'
  BY CountKept DEF SweepFrame
<1> QED
  BY <1>2, <1>4, <1>5, <1>6, TasksMove, Stays DEF SweepFrame

(* #forget by the sweep.                                                   *)
LEMMA SweepForgetsKeeps ==
    ASSUME PIInv, SweepFrame, UNCHANGED <<vm, take>>, NEW v \in sweep.ids, v # Foreign,
           sweep.pc \in {"recycle", "reconcile"},
           NEW pc \in {"recycling", "losing"}, SweepForgets(v, pc)
    PROVE  PIInv'
<1>1. v \in Slots /\ v \in VMs /\ v # NoVM
  BY NoVMs DEF PIInv, Typed, SweepType, Slots
<1>2. CASE records[v] = "none"
  BY <1>1, <1>2, SweepPasses DEF SweepForgets
<1>3. CASE records[v] # "none"
  <2>1. /\ sweep' = [sweep EXCEPT !.pc = pc, !.id = v, !.ids = @ \ {v}]
        /\ Forget(v, <<"sweep">>)
    BY <1>3 DEF SweepForgets
  <2>2. /\ sweep' \in SweepType /\ sweep'.pc = pc /\ sweep'.id = v
        /\ sweep'.ids = sweep.ids \ {v}
    <3>1. sweep.ids \ {v} \in SUBSET Slots /\ v \in MaybeVM
      BY <1>1 DEF PIInv, Typed, SweepType, MaybeVM
    <3> QED
      BY <2>1, <3>1 DEF PIInv, Typed, SweepType
  <2>3. Forgets(v, <<"sweep">>)
    <3>1. \A w \in Warmers : warm[w].pc \in Exclusive => warm[w].id # v
      BY <1>1 DEF PIInv, WarmOK, WarmAlone
    <3> QED
      BY <1>3, <2>1, <2>2, <3>1, Names DEF Forgets, SweepFrame
  <2>4. Typed'
    <3>1. records' \in [Slots -> RecordState] /\ backend' = backend
      BY <2>1 DEF Forget, PIInv, Typed, RecordState
    <3>2. queue' \in Seq(Entry)
      <4>1. [op |-> "none", id |-> v, by |-> <<"sweep">>] \in Entry
        BY <1>1, Names DEF Entry, RecordState
      <4> QED
        BY <2>1, <4>1 DEF Forget, Call, PIInv, Typed
    <3> QED
      BY <2>2, <3>1, <3>2 DEF PIInv, Typed, SweepFrame
  <2>5. ForeignUntouched'
    BY <2>1 DEF Forget, PIInv, ForeignOK, ForeignUntouched
  <2>6. PhaseOK'
    BY <2>2 DEF PIInv, PhaseOK, SweepFrame
  <2>7. Counted'
    BY CountKept DEF SweepFrame
  <2> QED
    BY <1>1, <2>3, <2>4, <2>5, <2>6, <2>7, SlotForgotten, Names DEF SweepFrame
<1> QED
  BY <1>2, <1>3

(* The sweep visits a slot.                                                *)
LEMMA VisitKeeps ==
    ASSUME PIInv, recycleStale \/ reconcile, UNCHANGED <<warming, close, ghost>>
    PROVE  PIInv'
<1> DEFINE v == Least(sweep.ids)
<1>1. sweep.ids # {} /\ v \in sweep.ids /\ v \in Slots /\ sweep.pc \in {"recycle", "reconcile"}
  BY LeastIn DEF recycleStale, reconcile, PIInv, Typed, SweepType
<1>2. SweepFrame /\ take' = take
  BY DEF recycleStale, reconcile, SweepFrame, account, loop, warming, close, ghost
<1>3. \/ /\ sweep' = [sweep EXCEPT !.ids = @ \ {v}] /\ UNCHANGED store
         /\ vm' = vm \/ vm' = [vm EXCEPT ![v] = "SUSPENDED"]
      \/ vm' = vm /\ \E pc \in {"recycling", "losing"} : SweepForgets(v, pc)
  BY DEF recycleStale, reconcile, account
<1> HIDE DEF v
<1>4. v # Foreign /\ v \in VMs
  BY <1>1 DEF PIInv, ForeignOK, Slots
<1> QED
  BY <1>1, <1>2, <1>3, <1>4, SweepPasses, SweepForgetsKeeps

(* The deletion that the sweep waited for is done.                         *)
LEMMA SweepForgotKeeps ==
    ASSUME PIInv, sweepForgot, UNCHANGED <<warming, close, ghost>>
    PROVE  PIInv'
<1> DEFINE h == Head(queue)
<1>1. /\ queue # <<>> /\ queue' = Tail(queue) /\ queue' \in Seq(Entry)
      /\ h \in Calls /\ h.by = <<"sweep">>
      /\ backend' = backend \/ backend' = [backend EXCEPT ![h.id] = h.op]
      /\ backend' \in [Slots -> RecordState] /\ backend'[Foreign] = backend[Foreign]
  BY HeadDone DEF sweepForgot
<1> HIDE DEF h
<1>2. /\ UNCHANGED <<launched, wall, records, filler, warm, inflight, closing, draining, held>>
      /\ notifyAll /\ sweep.pc \in {"recycling", "losing"}
  BY DEF sweepForgot, warming, close, ghost
<1>3. /\ sweep' \in SweepType /\ sweep'.pc \in {"recycle", "reconcile"} /\ sweep'.id = NoVM
      /\ sweep'.ids = sweep.ids
  <2> DEFINE pc == IF sweep.pc = "recycling" THEN "recycle" ELSE "reconcile"
  <2>1. sweep' = [sweep EXCEPT !.pc = pc, !.id = NoVM] /\ pc \in {"recycle", "reconcile"}
    BY DEF sweepForgot
  <2> HIDE DEF pc
  <2> QED
    BY <2>1, NoVMs DEF PIInv, Typed, SweepType
<1>4. /\ take' \in [Takers -> TakeType] /\ \A t \in Takers : TakeStep(t)
      /\ \A t \in Takers : take[t].pc # "wait" => take'[t] = take[t]
  BY <1>2, NotifiedTakes DEF PIInv, Typed
<1>5. /\ vm' \in [Slots -> States]
      /\ vm'[Foreign] = vm[Foreign]
  BY Terminated DEF sweepForgot, PIInv, Typed, SweepType
<1>6. Leaves(h)
  BY <1>1, <1>2, <1>3, <1>4, Names DEF Leaves, h
<1>7. Typed' /\ ForeignUntouched'
  BY <1>1, <1>2, <1>3, <1>4, <1>5 DEF PIInv, Typed, ForeignOK, ForeignUntouched
<1>8. PhaseOK'
  BY <1>2, <1>3, <1>4 DEF PIInv, PhaseOK
<1>9. Counted'
  BY <1>2, CountKept
<1> QED
  BY <1>2, <1>6, <1>7, <1>8, <1>9, CallLeaves

(* The sweep lists the account, begins to reconcile, or ends.              *)
LEMMA SweepTurnsKeep ==
    ASSUME PIInv, listedStates \/ reconcileBegins \/ sweepEnds, UNCHANGED <<warming, close, ghost>>
    PROVE  PIInv'
<1>1. /\ UNCHANGED <<vm, launched, wall, records, backend, queue, filler, warm, inflight, take,
                     closing, draining, held>>
      /\ sweep.pc \in {"recycle", "listed", "reconcile"}
  BY DEF listedStates, reconcileBegins, sweepEnds, account, store, loop, warming, close, ghost
<1>2. sweep.id = NoVM
  BY <1>1 DEF PIInv, Awaited
<1>3. /\ sweep' \in SweepType /\ sweep'.pc # "recover" /\ sweep'.id = NoVM
      /\ \A v \in sweep'.ids : v \in sweep.ids \/ records[v] = "ready"
  <2>1. CASE sweep' = NoSweep
    BY <2>1, SweepForms
  <2>2. CASE reconcileBegins
    <3>1. sweep' = [sweep EXCEPT !.pc = "reconcile", !.ids = readyRecords]
      BY <2>2 DEF reconcileBegins
    <3>2. readyRecords \in SUBSET Slots /\ \A v \in readyRecords : records[v] = "ready"
      BY DEF readyRecords
    <3> HIDE DEF readyRecords
    <3> QED
      BY <1>2, <3>1, <3>2 DEF PIInv, Typed, SweepType
  <2>3. ASSUME NEW gone \in SUBSET {v \in VMs : vm[v] = "TERMINATED"},
               sweep' = [sweep EXCEPT !.pc = "listed", !.listed =
                 [v \in Slots |-> IF v \in gone THEN "absent" ELSE Shown(vm[v])]]
        PROVE  /\ sweep' \in SweepType /\ sweep'.pc # "recover" /\ sweep'.id = NoVM
               /\ \A v \in sweep'.ids : v \in sweep.ids \/ records[v] = "ready"
    <3> DEFINE l == [v \in Slots |-> IF v \in gone THEN "absent" ELSE Shown(vm[v])]
    <3>1. l \in [Slots -> {"absent", "none", "RUNNING", "SUSPENDED", "TERMINATED"}]
      BY DEF PIInv, Typed, Shown, States, Over
    <3>2. sweep' = [sweep EXCEPT !.pc = "listed", !.listed = l]
      BY <2>3
    <3> HIDE DEF l
    <3> QED
      BY <1>2, <3>1, <3>2 DEF PIInv, Typed, SweepType
  <2> QED
    BY <2>1, <2>2, <2>3 DEF listedStates, sweepEnds
<1>4. SweepStep
  BY <1>2, <1>3 DEF SweepStep
<1>5. Typed' /\ ForeignUntouched' /\ UNCHANGED <<launched, store>>
  BY <1>1, <1>3 DEF PIInv, Typed, ForeignOK, ForeignUntouched, store
<1>6. PhaseOK'
  BY <1>1, <1>3 DEF PIInv, PhaseOK
<1>7. Counted'
  BY <1>1, CountKept
<1> QED
  BY <1>1, <1>4, <1>5, <1>6, <1>7, TasksMove, Stays

(* Every step of the sweep.                                                *)
LEMMA SweepKeeps == PIInv /\ Sweep => PIInv'
  BY VisitKeeps, SweepForgotKeeps, SweepTurnsKeep DEF Sweep

----------------------------------------------------------------------------
(* close(), and what happens outside the pool.                             *)

(* close() stops the pool, finds the warm-ups settled, or ends.            *)
LEMMA ClosesKeep ==
    ASSUME PIInv,
           \/ closeCalled
           \/ (warmUpsSettled \/ closed) /\ UNCHANGED <<sweep, warming, drain, ghost>>
    PROVE  PIInv'
<1>1. /\ UNCHANGED <<vm, launched, wall, records, backend, queue, filler, warm, inflight, sweep, held>>
      /\ closing # "draining" /\ draining' \in SUBSET Slots
      /\ \/ closing' = "settle"
         \/ closing = "drain"
         \/ \A w \in Warmers : warm[w].pc = "idle"
  BY DEF closeCalled, warmUpsSettled, closed, account, store, loop, warming, ghost, PIInv, Typed
<1>2. take' = take \/ notifyAll
  BY DEF closeCalled, warmUpsSettled, closed
<1>3. /\ take' \in [Takers -> TakeType] /\ \A t \in Takers : TakeStep(t)
      /\ \A t \in Takers : take[t].pc # "wait" => take'[t] = take[t]
  BY <1>2, NotifiedTakes, Stays DEF PIInv, Typed
<1>4. Typed' /\ ForeignUntouched' /\ UNCHANGED <<launched, store>>
  BY <1>1, <1>3 DEF PIInv, Typed, ForeignOK, ForeignUntouched, store
<1>5. PhaseOK'
  BY <1>1, <1>3 DEF PIInv, PhaseOK
<1>6. Counted'
  BY <1>1, CountKept
<1> QED
  BY <1>1, <1>3, <1>4, <1>5, <1>6, TasksMove, Stays

(* #drain forgets a slot that is still there.                              *)
LEMMA DrainSlotKeeps ==
    ASSUME PIInv, drainSlot, UNCHANGED <<sweep, warming, drain, ghost>>
    PROVE  PIInv'
<1> DEFINE v == Least(draining)
<1>1. /\ v \in Slots /\ draining' = draining \ {v} /\ closing = "drain"
      /\ IF records[v] = "none"
         THEN UNCHANGED <<store, closing>>
         ELSE Forget(v, <<"close">>) /\ closing' = "draining"
  BY LeastIn DEF drainSlot, PIInv, Typed
<1> HIDE DEF v
<1>2. /\ UNCHANGED <<vm, launched, wall, filler, warm, inflight, take, sweep, held>>
      /\ draining' \in SUBSET Slots
  BY <1>1 DEF drainSlot, account, loop, warming, ghost, PIInv, Typed
<1>3. Counted'
  BY <1>2, CountKept
<1>4. CASE records[v] = "none"
  <2>1. Typed' /\ ForeignUntouched' /\ UNCHANGED <<launched, store>>
    BY <1>1, <1>2, <1>4 DEF PIInv, Typed, ForeignOK, ForeignUntouched, store
  <2>2. PhaseOK'
    BY <1>1, <1>2, <1>4 DEF PIInv, PhaseOK
  <2> QED
    BY <1>1, <1>2, <1>3, <1>4, <2>1, <2>2, TasksMove, Stays
<1>5. CASE records[v] # "none"
  <2>1. v \in VMs /\ v # NoVM
    BY <1>1, <1>5, NoVMs DEF PIInv, ForeignOK, Slots
  <2>2. Forget(v, <<"close">>) /\ closing' = "draining"
    BY <1>1, <1>5
  <2>3. \A w \in Warmers : warm[w].pc = "idle"
    BY <1>1 DEF PIInv, PhaseOK
  <2>4. Forgets(v, <<"close">>)
    BY <1>1, <1>2, <1>5, <2>2, <2>3, Names DEF Forgets, Exclusive
  <2>5. Typed'
    <3>1. records' \in [Slots -> RecordState] /\ backend' = backend
      BY <2>2 DEF Forget, PIInv, Typed, RecordState
    <3>2. queue' \in Seq(Entry)
      <4>1. [op |-> "none", id |-> v, by |-> <<"close">>] \in Entry
        BY <2>1, Names DEF Entry, RecordState
      <4> QED
        BY <2>2, <4>1 DEF Forget, Call, PIInv, Typed
    <3> QED
      BY <1>2, <3>1, <3>2 DEF PIInv, Typed
  <2>6. ForeignUntouched'
    BY <1>2, <2>2 DEF Forget, PIInv, ForeignOK, ForeignUntouched
  <2>7. PhaseOK'
    BY <1>2, <2>3 DEF PIInv, PhaseOK
  <2> QED
    BY <1>2, <1>3, <2>1, <2>4, <2>5, <2>6, <2>7, SlotForgotten, Names
<1> QED
  BY <1>4, <1>5

(* The deletion #drain waited for is done, or failed.                      *)
LEMMA DrainedKeeps ==
    ASSUME PIInv, drained, UNCHANGED <<sweep, warming, drain, ghost>>
    PROVE  PIInv'
<1> DEFINE h == Head(queue)
<1>1. /\ queue # <<>> /\ queue' = Tail(queue) /\ queue' \in Seq(Entry)
      /\ h \in Calls /\ h.by = <<"close">> /\ h.id \in VMs
      /\ backend' = backend \/ backend' = [backend EXCEPT ![h.id] = h.op]
      /\ backend' \in [Slots -> RecordState] /\ backend'[Foreign] = backend[Foreign]
  BY HeadDone DEF drained
<1>2. /\ UNCHANGED <<launched, wall, records, filler, warm, inflight, sweep, draining, held>>
      /\ closing = "draining"
      /\ vm' = vm \/ Terminate(h.id)
      /\ take' = take \/ notifyAll
  BY DEF drained, warming, ghost
<1> HIDE DEF h
<1>3. /\ take' \in [Takers -> TakeType] /\ \A t \in Takers : TakeStep(t)
      /\ \A t \in Takers : take[t].pc # "wait" => take'[t] = take[t]
  BY <1>2, NotifiedTakes, Stays DEF PIInv, Typed
<1>4. /\ vm' \in [Slots -> States]
      /\ vm'[Foreign] = vm[Foreign]
  BY <1>1, <1>2, Terminated DEF PIInv, Typed, MaybeVM
<1>5. Leaves(h)
  BY <1>1, <1>2, <1>3, Names DEF Leaves, h
<1>6. Typed' /\ ForeignUntouched'
  BY <1>1, <1>2, <1>3, <1>4 DEF PIInv, Typed, ForeignOK, ForeignUntouched
<1>7. PhaseOK'
  BY <1>2, <1>3 DEF PIInv, PhaseOK
<1>8. Counted'
  BY <1>2, CountKept
<1> QED
  BY <1>2, <1>5, <1>6, <1>7, <1>8, CallLeaves

(* Every step of close().                                                  *)
LEMMA CloseKeeps == PIInv /\ (Close \/ closeCalled) => PIInv'
  BY ClosesKeep, DrainSlotKeeps, DrainedKeeps DEF Close

(* Time passes, and VMs change by themselves.                              *)
LEMMA OutsideKeeps == PIInv /\ Outside => PIInv'
<1> SUFFICES ASSUME PIInv, Outside
             PROVE  PIInv'
  OBVIOUS
<1>1. UNCHANGED <<launched, records, backend, queue, filler, warm, inflight, take, sweep,
                  closing, draining, held>>
  BY DEF Outside, store, loop, warming, close
<1>2. /\ wall' \in Nat
      /\ vm' \in [Slots -> States]
      /\ vm'[Foreign] = vm[Foreign]
  BY VMStates, PoolAssumption DEF Outside, PIInv, Typed, MaybeVM, States, Over
<1>3. Typed' /\ ForeignUntouched' /\ UNCHANGED <<launched, store>>
  BY <1>1, <1>2 DEF PIInv, Typed, ForeignOK, ForeignUntouched, store
<1>4. PhaseOK'
  BY <1>1 DEF PIInv, PhaseOK
<1>5. Counted'
  BY <1>1, CountKept
<1> QED
  BY <1>1, <1>3, <1>4, <1>5, TasksMove, Stays

----------------------------------------------------------------------------
(* The warm-ups.                                                           *)

WarmFrame == UNCHANGED <<wall, filler, sweep, closing, draining>>

(* A warm-up runs on, without a call of the backend.                       *)
LEMMA WarmRunsOn ==
    ASSUME PIInv, WarmFrame, NEW w \in Warmers, NEW pc \in WarmPc, To(w, pc), WarmStep(w),
           warm[w].pc # "idle", pc # "idle",
           UNCHANGED <<launched, store, inflight, held>>,
           vm' \in [Slots -> States],
           vm'[Foreign] = vm[Foreign], take' = take \/ notifyAll
    PROVE  PIInv'
<1>1. /\ warm' \in [Warmers -> WarmType] /\ warm'[w].pc = pc
      /\ \A u \in Warmers : u # w => warm'[u] = warm[u]
  BY WarmTo DEF PIInv, Typed
<1>2. \A u \in Warmers : WarmStep(u)
  BY <1>1 DEF WarmStep, PIInv, WarmOK
<1>3. take' \in [Takers -> TakeType] /\ \A t \in Takers : TakeStep(t)
  BY NotifiedTakes, Stays DEF PIInv, Typed
<1>4. Typed' /\ ForeignUntouched'
  BY <1>1, <1>3 DEF PIInv, Typed, ForeignOK, ForeignUntouched, WarmFrame, store
<1>5. PhaseOK'
  BY DEF PIInv, PhaseOK, WarmFrame
<1>6. Counted'
  BY <1>1, CountKept
<1> QED
  BY <1>2, <1>3, <1>4, <1>5, <1>6, TasksMove, Stays DEF WarmFrame

(* A warm-up gets its permit, or cannot launch.                            *)
LEMMA AcquireKeeps ==
    ASSUME PIInv, NEW w \in Warmers, acquire(w) \/ launchFails(w), UNCHANGED <<sweep, close, ghost>>
    PROVE  PIInv'
<1>1. PICK pc \in {"launch", "failed"} : /\ To(w, pc) /\ warm[w].pc \in {"queued", "launch"}
                                         /\ pc = "launch" => warm[w].pc = "queued"
  BY DEF acquire, launchFails
<1>2. pc \in WarmPc /\ warm[w].id = NoVM
  BY <1>1 DEF WarmPc, PIInv, WarmOK
<1>3. WarmStep(w)
  <2>1. warm'[w].pc = pc /\ warm'[w].id = warm[w].id
    BY <1>1, <1>2, WarmTo DEF PIInv, Typed
  <2> QED
    BY <1>1, <1>2, <2>1 DEF WarmStep, Saving, Owning
<1>4. WarmFrame /\ UNCHANGED <<vm, launched, store, inflight, held, take>>
  BY DEF acquire, launchFails, WarmFrame, account, loop, close, ghost
<1> QED
  BY <1>1, <1>2, <1>3, <1>4, WarmRunsOn DEF PIInv, Typed

(* create() and #park end in some way.                                     *)
LEMMA CreateKeeps ==
    ASSUME PIInv, NEW w \in Warmers, createAndPark(w), UNCHANGED <<sweep, close, ghost>>
    PROVE  PIInv'
<1>1. PICK pc \in {"failed", "parkFailed", "discard", "paused"} :
        To(w, pc) /\ warm[w].pc = "create"
  BY DEF createAndPark
<1>2. pc \in WarmPc
  BY DEF WarmPc
<1>3. WarmStep(w)
  <2>1. warm'[w].pc = pc /\ warm'[w].id = warm[w].id
    BY <1>1, <1>2, WarmTo DEF PIInv, Typed
  <2> QED
    BY <1>1, <2>1 DEF WarmStep, Saving, Owning, Exclusive
<1>4. WarmFrame /\ UNCHANGED <<launched, store, inflight, held, take>>
  BY DEF createAndPark, WarmFrame, loop, close, ghost
<1>5. /\ vm' \in [Slots -> States]
      /\ vm'[Foreign] = vm[Foreign]
  <2>1. warm[w].id \in MaybeVM
    BY DEF PIInv, Typed, WarmType
  <2> QED
    BY <2>1, VMStates, Terminated DEF createAndPark, PIInv, Typed, States
<1> QED
  BY <1>1, <1>2, <1>3, <1>4, <1>5, WarmRunsOn

(* #forget is over, or had nothing to do.                                  *)
LEMMA ForgottenForms ==
    \A next \in {"discard", "failed", "parkFailed"} :
        Forgotten(next).pc \in {"terminate", "end"}
  BY DEF Forgotten

(* A warm-up that failed, or must be discarded, forgets its slot.          *)
LEMMA FailedKeeps ==
    ASSUME PIInv, NEW w \in Warmers, warmUpFailed(w), UNCHANGED <<sweep, close, ghost>>
    PROVE  PIInv'
<1> DEFINE v == warm[w].id
<1>1. /\ warm[w].pc \in {"discard", "failed", "parkFailed"} /\ WarmFrame
      /\ UNCHANGED <<vm, launched, inflight, held>>
  BY DEF warmUpFailed, WarmFrame, account, close, ghost
<1>2. CASE v # NoVM /\ records[v] # "none"
  <2>1. /\ Forget(v, <<"warm", w>>) /\ take' = take
        /\ warm' = [warm EXCEPT ![w].pc = "forget", ![w].next = warm[w].pc]
    BY <1>2 DEF warmUpFailed
  <2>2. v \in VMs /\ v \in Slots
    BY <1>2, NoVMs DEF PIInv, Typed, WarmType, MaybeVM
  <2>3. /\ warm' \in [Warmers -> WarmType] /\ warm'[w].pc = "forget" /\ warm'[w].id = v
        /\ warm'[w].next # "none" /\ \A u \in Warmers : u # w => warm'[u] = warm[u]
    <3> DEFINE r == [warm[w] EXCEPT !.pc = "forget", !.next = warm[w].pc]
    <3>1. warm' = [warm EXCEPT ![w] = r]
      BY <2>1
    <3>2. r \in WarmType /\ r.pc = "forget" /\ r.id = v /\ r.next # "none"
      BY <1>1 DEF PIInv, Typed, WarmType, WarmPc
    <3> HIDE DEF r, v
    <3> QED
      BY <3>1, <3>2 DEF PIInv, Typed
  <2>4. \A u \in Warmers : u # w => warm[u].id # v
    BY <1>2 DEF PIInv, WarmOK
  <2> HIDE DEF v
  <2>5. Forgets(v, <<"warm", w>>)
    <3>1. v = warm[w].id
      BY DEF v
    <3> QED
      BY <1>1, <1>2, <2>1, <2>3, <2>4, <3>1, Names DEF Forgets, WarmFrame
  <2>6. Typed'
    <3>1. records' \in [Slots -> RecordState] /\ backend' = backend
      BY <2>1 DEF Forget, PIInv, Typed, RecordState
    <3>2. queue' \in Seq(Entry)
      <4>1. [op |-> "none", id |-> v, by |-> <<"warm", w>>] \in Entry
        BY <2>2, Names DEF Entry, RecordState
      <4> QED
        BY <2>1, <4>1 DEF Forget, Call, PIInv, Typed
    <3> QED
      BY <1>1, <2>1, <2>3, <3>1, <3>2 DEF PIInv, Typed, WarmFrame
  <2>7. ForeignUntouched'
    BY <1>1, <2>1 DEF Forget, PIInv, ForeignOK, ForeignUntouched
  <2>8. PhaseOK'
    BY <1>1, <2>1 DEF PIInv, PhaseOK, WarmFrame
  <2>9. Counted'
    BY <1>1, <2>3, CountKept
  <2> QED
    BY <1>1, <2>2, <2>5, <2>6, <2>7, <2>8, <2>9, SlotForgotten, Names
<1>3. CASE ~(v # NoVM /\ records[v] # "none")
  <2>1. PICK pc \in {"terminate", "end"} : To(w, pc)
    BY <1>1, <1>3, ForgottenForms DEF warmUpFailed, AfterForget
  <2>2. pc \in WarmPc /\ notifyAll /\ UNCHANGED store
    BY <1>3 DEF warmUpFailed, AfterForget, WarmPc
  <2>3. WarmStep(w)
    <3>1. warm'[w].pc = pc /\ warm'[w].id = warm[w].id
      BY <2>1, <2>2, WarmTo DEF PIInv, Typed
    <3> QED
      BY <1>1, <3>1 DEF WarmStep, Saving, Owning, Exclusive
  <2> QED
    BY <1>1, <2>1, <2>2, <2>3, WarmRunsOn DEF PIInv, Typed
<1> QED
  BY <1>2, <1>3

(* The warm-up ends, and is counted no more.                               *)
LEMMA EndsKeeps ==
    ASSUME PIInv, NEW w \in Warmers, warmUpEnds(w), UNCHANGED <<sweep, close, ghost>>
    PROVE  PIInv'
<1>1. /\ warm[w].pc \in {"terminate", "end"} /\ warm' = [warm EXCEPT ![w] = Idle]
      /\ inflight' = inflight - 1 /\ notifyAll /\ WarmFrame
      /\ UNCHANGED <<launched, store, held>>
      /\ vm' = vm \/ Terminate(warm[w].id)
  BY DEF warmUpEnds, Ends, WarmFrame, close, ghost
<1>2. Idle \in WarmType /\ Idle.pc = "idle" /\ Idle.id = NoVM
  BY NoVMs DEF Idle, WarmType, WarmPc
<1>3. /\ warm' \in [Warmers -> WarmType] /\ warm'[w] = Idle
      /\ \A u \in Warmers : u # w => warm'[u] = warm[u]
  BY <1>1, <1>2 DEF PIInv, Typed
<1>4. \A u \in Warmers : WarmStep(u)
  BY <1>1, <1>2, <1>3 DEF WarmStep, PIInv, WarmOK, Saving, Owning, Exclusive
<1>5. take' \in [Takers -> TakeType] /\ \A t \in Takers : TakeStep(t)
  BY <1>1, NotifiedTakes DEF PIInv, Typed
<1>6. /\ vm' \in [Slots -> States]
      /\ vm'[Foreign] = vm[Foreign]
  BY <1>1, Terminated DEF PIInv, Typed, WarmType
<1>7. Typed' /\ ForeignUntouched'
  BY <1>1, <1>3, <1>5, <1>6 DEF PIInv, Typed, ForeignOK, ForeignUntouched, WarmFrame, store
<1>8. PhaseOK'
  BY <1>1 DEF PIInv, PhaseOK, WarmFrame
<1>9. Counted'
  <2>1. Busy' = Busy \ {w} /\ w \in Busy
    BY <1>1, <1>2, <1>3 DEF Busy
  <2>2. IsFiniteSet(Busy)
    BY SubmittedIdle
  <2>3. Cardinality(Busy \ {w}) = Cardinality(Busy) - 1
    BY <2>1, <2>2, FS_RemoveElement
  <2> QED
    BY <1>1, <2>1, <2>3 DEF PIInv, Counted
<1> QED
  BY <1>1, <1>4, <1>5, <1>7, <1>8, <1>9, TasksMove, Stays DEF WarmFrame

(* The call a warm-up waited for leaves the queue, and no record changes.  *)
LEMMA WarmCallLeaves ==
    ASSUME PIInv, NEW w \in Warmers, NEW pc \in {"failed", "end", "terminate"}, To(w, pc),
           Mine(<<"warm", w>>), Done \/ Failed, WarmFrame, pc = "end" \/ warm[w].pc \in Exclusive,
           warm[w].pc # "idle", UNCHANGED <<launched, records, inflight, held>>,
           vm' \in [Slots -> States],
           vm'[Foreign] = vm[Foreign], take' = take \/ notifyAll
    PROVE  PIInv'
<1> DEFINE h == Head(queue)
<1>1. /\ queue # <<>> /\ queue' = Tail(queue) /\ queue' \in Seq(Entry)
      /\ h \in Calls /\ h.by = <<"warm", w>> /\ h.id \in VMs
      /\ backend' = backend \/ backend' = [backend EXCEPT ![h.id] = h.op]
      /\ backend' \in [Slots -> RecordState] /\ backend'[Foreign] = backend[Foreign]
  BY HeadDone
<1> HIDE DEF h
<1>2. /\ warm' \in [Warmers -> WarmType] /\ warm'[w].pc = pc /\ warm'[w].id = warm[w].id
      /\ \A u \in Warmers : u # w => warm'[u] = warm[u]
  BY WarmTo DEF PIInv, Typed, WarmPc
<1>3. take' \in [Takers -> TakeType] /\ \A t \in Takers : TakeStep(t)
  BY NotifiedTakes, Stays DEF PIInv, Typed
<1>4. Leaves(h)
  <2>1. \A u \in Warmers :
          IF h.by = <<"warm", u>>
          THEN /\ warm'[u].id = warm[u].id
               /\ warm'[u].pc \notin Saving \cup Owning \cup {"idle", "queued", "launch"}
               /\ warm'[u].pc \in Exclusive => warm[u].pc \in Exclusive
          ELSE warm'[u] = warm[u]
    BY <1>1, <1>2, Names DEF Saving, Owning, Exclusive
  <2> QED
    BY <1>1, <1>3, <2>1, Names DEF Leaves, h, WarmFrame
<1>5. Typed' /\ ForeignUntouched'
  BY <1>1, <1>2, <1>3 DEF PIInv, Typed, ForeignOK, ForeignUntouched, WarmFrame
<1>6. PhaseOK'
  BY DEF PIInv, PhaseOK, WarmFrame
<1>7. Counted'
  BY <1>2, CountKept
<1> QED
  BY <1>4, <1>5, <1>6, <1>7, CallLeaves

(* The slot is saved as ready, or its record deleted.                      *)
LEMMA SavedKeeps ==
    ASSUME PIInv, NEW w \in Warmers, ReadySaved(w) \/ forgetDone(w), UNCHANGED <<sweep, close, ghost>>
    PROVE  PIInv'
<1>1. /\ Mine(<<"warm", w>>) /\ Done /\ notifyAll /\ WarmFrame
      /\ UNCHANGED <<vm, launched, records, inflight, held>>
      /\ warm[w].pc \in {"parking", "forget"}
  BY DEF ReadySaved, forgetDone, AfterForget, WarmFrame, account, close, ghost
<1>2. PICK pc \in {"end", "terminate"} : To(w, pc) /\ (pc = "end" \/ warm[w].pc = "forget")
  <2>1. warm[w].pc = "forget" => warm[w].next \in {"discard", "failed", "parkFailed"}
    BY DEF PIInv, WarmOK, Typed, WarmType
  <2> QED
    BY <2>1, ForgottenForms DEF ReadySaved, forgetDone, AfterForget
<1> QED
  BY <1>1, <1>2, WarmCallLeaves DEF PIInv, Typed, Exclusive

(* The record of a launch is saved: the VM is the warm-up's alone.         *)
LEMMA LaunchSavedKeeps ==
    ASSUME PIInv, NEW w \in Warmers, LaunchSaved(w), UNCHANGED <<sweep, close, ghost>>
    PROVE  PIInv'
<1> DEFINE v == warm[w].id
           h == Head(queue)
<1>1. /\ warm[w].pc = "saving" /\ Mine(<<"warm", w>>) /\ WarmFrame
      /\ UNCHANGED <<launched, inflight, held, take>>
  BY DEF LaunchSaved, WarmFrame, loop, close, ghost
<1>2. v # NoVM /\ v \in VMs /\ v \in Slots /\ v \in MaybeVM /\ v # Foreign /\ WarmAlone(w)
  BY <1>1, NoVMs DEF PIInv, WarmOK, Owning, Exclusive, Typed, WarmType, MaybeVM
<1>3. CASE Failed /\ Terminate(v) /\ To(w, "failed") /\ UNCHANGED records
  <2>1. /\ vm' \in [Slots -> States]
        /\ vm'[Foreign] = vm[Foreign]
    BY <1>2, <1>3, Terminated DEF PIInv, Typed
  <2> QED
    BY <1>1, <1>3, <2>1, WarmCallLeaves DEF Exclusive
<1>4. CASE /\ Done /\ records' = [records EXCEPT ![v] = "warming"]
           /\ To(w, "create") /\ UNCHANGED vm
  <2>1. /\ queue # <<>> /\ queue' = Tail(queue) /\ queue' \in Seq(Entry)
        /\ h \in Calls /\ h.by = <<"warm", w>> /\ h.id \in VMs
        /\ backend' = backend \/ backend' = [backend EXCEPT ![h.id] = h.op]
        /\ backend' \in [Slots -> RecordState] /\ backend'[Foreign] = backend[Foreign]
    BY <1>1, <1>4, HeadDone
  <2>2. /\ Ordered' /\ Calls' = Calls \ {h} /\ \A c \in Calls' : c.by # h.by
    BY <2>1, TailCalls DEF PIInv, Typed
  <2>3. h.id = v
    BY <2>1 DEF PIInv, Matched, MatchWarm
  <2> HIDE DEF h
  <2>4. \A e \in Calls' : e \in Calls /\ e.id # v /\ e.id \in Slots
    BY <1>2, <2>1, <2>2, CallsTyped DEF WarmAlone, PIInv, Typed
  <2>5. /\ warm' \in [Warmers -> WarmType] /\ warm'[w].pc = "create" /\ warm'[w].id = v
        /\ \A u \in Warmers : u # w => warm'[u] = warm[u]
        /\ \A u \in Warmers : warm'[u].id = warm[u].id
    BY <1>4, WarmTo DEF PIInv, Typed, WarmPc
  <2>6. /\ records' \in [Slots -> RecordState] /\ records'[v] = "warming"
        /\ \A x \in Slots \ {v} : records'[x] = records[x] /\ backend'[x] = backend[x]
    BY <1>2, <1>4, <2>1, <2>3 DEF PIInv, Typed, RecordState
  <2>7. \A x \in VMs : Released(x) => x # v /\ x \in Slots
    BY <2>1, <2>3, NoVMs DEF Released
  <2>8. ASSUME NEW x \in VMs, Released(x)
        PROVE  Released(x)'
    BY <1>1, <2>4, <2>5, <2>6, <2>7, <2>8 DEF Released, WarmFrame
  <2>9. Typed'
    BY <1>1, <1>4, <2>1, <2>5, <2>6 DEF PIInv, Typed, WarmFrame
  <2>10. ForeignOK'
    BY <1>1, <1>2, <1>4, <2>1, <2>6, NoVMs DEF PIInv, ForeignOK, ForeignUntouched, WarmFrame
  <2>11. Future'
    <3> SUFFICES ASSUME NEW x \in VMs, x > launched
                 PROVE  Unused(x)'
      BY <1>1 DEF Future
    <3>1. Unused(x) /\ x # v /\ x \in Slots
      BY NoVMs DEF PIInv, Future, Unused
    <3> QED
      BY <1>1, <2>4, <2>5, <2>6, <3>1 DEF Unused, WarmFrame
  <2>12. Matched'
    <3> SUFFICES ASSUME NEW e \in Calls'
                 PROVE  /\ MatchWarm(e)' /\ MatchTake(e)'
                        /\ e.by = <<"sweep">> => sweep'.id = e.id /\ e.op = "none"
                        /\ e.by = <<"close">> => closing' = "draining" /\ e.op = "none"
                        /\ e.op # "ready" => records'[e.id] = "none"
      BY DEF Matched
    <3>1. e \in Calls /\ e.by # <<"warm", w>> /\ e.id # v /\ records'[e.id] = records[e.id]
      BY <2>1, <2>2, <2>4, <2>6
    <3>2. MatchWarm(e)'
      BY <2>5, <3>1 DEF PIInv, Matched, MatchWarm
    <3>3. MatchTake(e)'
      BY <1>1, <3>1 DEF PIInv, Matched, MatchTake
    <3> QED
      BY <1>1, <3>1, <3>2, <3>3 DEF PIInv, Matched, WarmFrame
  <2>13. Awaited'
    <3>1. \A b : Queued(b) /\ b # h.by => Queued(b)'
      BY <2>2 DEF Queued
    <3>2. \A u \in Warmers : warm'[u].pc \in Saving => Queued(<<"warm", u>>)'
      BY <2>1, <2>5, <3>1, Names DEF PIInv, Awaited, Saving
    <3>3. \A t \in Takers : take'[t].pc = "deleting" => Queued(<<"take", t>>)'
      BY <1>1, <2>1, <3>1, Names DEF PIInv, Awaited
    <3>4. sweep'.id # NoVM => Queued(<<"sweep">>)' /\ sweep'.pc \in {"recycling", "losing"}
      BY <1>1, <2>1, <3>1, Names DEF PIInv, Awaited, WarmFrame
    <3> QED
      BY <3>2, <3>3, <3>4 DEF Awaited
  <2>14. WarmOK'
    <3>1. \A u \in Warmers : warm'[u].pc \in {"idle", "queued", "launch"} => warm'[u].id = NoVM
      BY <2>5 DEF PIInv, WarmOK
    <3>2. ASSUME NEW u \in Warmers, warm'[u].pc \in Exclusive, warm'[u].id # NoVM
          PROVE  WarmAlone(u)'
      <4>1. WarmAlone(u) /\ warm'[u].id = warm[u].id /\ warm[u].id \in Slots
        BY <1>2, <2>5, <3>2, NoVMs DEF PIInv, WarmOK, Typed, WarmType, MaybeVM
      <4>2. records'[warm[u].id] # "ready"
        BY <2>6, <4>1 DEF WarmAlone
      <4> QED
        BY <1>1, <2>4, <4>1, <4>2 DEF WarmAlone, WarmFrame
    <3>3. \A u \in Warmers : warm'[u].pc \in Owning => warm'[u].id # NoVM
      BY <1>2, <2>5 DEF PIInv, WarmOK
    <3>4. \A u \in Warmers : warm'[u].pc = "forget" => warm'[u].next # "none"
      BY <2>5 DEF PIInv, WarmOK
    <3>5. \A x, u \in Warmers : x # u /\ warm'[x].id = warm'[u].id => warm'[x].id = NoVM
      BY <2>5 DEF PIInv, WarmOK
    <3> QED
      BY <3>1, <3>2, <3>3, <3>4, <3>5 DEF WarmOK
  <2>15. TakeOK'
    BY <1>1, <2>8 DEF PIInv, TakeOK, Typed, TakeType, MaybeVM
  <2>16. HeldOK'
    BY <1>1, <2>8 DEF PIInv, HeldOK, Typed
  <2>17. PhaseOK'
    BY <1>1 DEF PIInv, PhaseOK, WarmFrame
  <2>18. Counted'
    BY <1>1, <2>5, CountKept
  <2> QED
    BY <2>2, <2>9, <2>10, <2>11, <2>12, <2>13, <2>14, <2>15, <2>16, <2>17, <2>18 DEF PIInv
<1> QED
  BY <1>3, <1>4 DEF LaunchSaved

(* The slot is ready in memory, and its save is queued.                    *)
LEMMA ReadyKeeps ==
    ASSUME PIInv, NEW w \in Warmers, recordReady(w), UNCHANGED <<sweep, close, ghost>>
    PROVE  PIInv'
<1>0. PICK v : v = warm[w].id
  OBVIOUS
<1>1. /\ warm[w].pc = "paused" /\ WarmFrame
      /\ UNCHANGED <<vm, launched, backend, inflight, held, take>>
  BY DEF recordReady, WarmFrame, account, loop, close, ghost
<1>2. v # NoVM /\ v \in VMs /\ v \in Slots /\ v # Foreign /\ WarmAlone(w)
  BY <1>0, <1>1, NoVMs DEF PIInv, WarmOK, Owning, Exclusive, Typed, WarmType, MaybeVM
<1>3. CASE stopping
  <2>1. To(w, "discard") /\ UNCHANGED store /\ "discard" \in WarmPc
    BY <1>1, <1>3 DEF recordReady, store, WarmPc
  <2>2. WarmStep(w)
    <3>1. warm'[w].pc = "discard" /\ warm'[w].id = warm[w].id
      BY <2>1, WarmTo DEF PIInv, Typed
    <3> QED
      BY <1>1, <3>1 DEF WarmStep, Saving, Owning, Exclusive
  <2> QED
    BY <1>1, <2>1, <2>2, WarmRunsOn DEF PIInv, Typed
<1>4. CASE ~stopping
  <2>0. PICK new : new = [op |-> "ready", id |-> v, by |-> <<"warm", w>>]
    OBVIOUS
  <2>1. /\ records' = [records EXCEPT ![v] = "ready"] /\ queue' = Append(queue, new)
        /\ To(w, "parking")
    BY <1>0, <1>4, <2>0 DEF recordReady, Call
  <2>2. new \in Entry /\ new.op = "ready" /\ new.id = v /\ new.by = <<"warm", w>>
    BY <1>2, <2>0, Names DEF Entry, RecordState
  <2>3. queue' \in Seq(Entry) /\ Calls' = Calls \cup {new}
    BY <2>1, <2>2, AppendCalls DEF PIInv, Typed
  <2>4. \A e \in Calls : e.by # <<"warm", w>> /\ e.id # v /\ e.id \in Slots
    BY <1>0, <1>1, <1>2, CallsTyped DEF WarmAlone, PIInv, Matched, MatchWarm, Typed
  <2>5. /\ warm' \in [Warmers -> WarmType] /\ warm'[w].pc = "parking" /\ warm'[w].id = v
        /\ \A u \in Warmers : u # w => warm'[u] = warm[u]
        /\ \A u \in Warmers : warm'[u].id = warm[u].id
    BY <1>0, <2>1, WarmTo DEF PIInv, Typed, WarmPc
  <2>6. /\ records' \in [Slots -> RecordState]
        /\ \A x \in Slots \ {v} : records'[x] = records[x]
    BY <1>2, <2>1 DEF PIInv, Typed, RecordState
  <2>7. \A x \in VMs : Released(x) => x # v /\ x \in Slots
    BY <1>0, <1>1, NoVMs DEF Released
  <2>8. ASSUME NEW x \in VMs, Released(x)
        PROVE  Released(x)'
    BY <1>1, <2>2, <2>3, <2>5, <2>6, <2>7, <2>8 DEF Released, WarmFrame
  <2>9. Typed'
    BY <1>1, <2>3, <2>5, <2>6 DEF PIInv, Typed, WarmFrame
  <2>10. ForeignOK'
    BY <1>1, <1>2, <2>6, NoVMs DEF PIInv, ForeignOK, ForeignUntouched, WarmFrame
  <2>11. Future'
    <3> SUFFICES ASSUME NEW x \in VMs, x > launched
                 PROVE  Unused(x)'
      BY <1>1 DEF Future
    <3>1. Unused(x) /\ x # v /\ x \in Slots
      BY <1>0, NoVMs DEF PIInv, Future, Unused
    <3> QED
      BY <1>1, <2>2, <2>3, <2>5, <2>6, <3>1 DEF Unused, WarmFrame
  <2>12. Matched'
    <3>1. ASSUME NEW e \in Calls
          PROVE  /\ MatchWarm(e)' /\ MatchTake(e)'
                 /\ e.by = <<"sweep">> => sweep'.id = e.id /\ e.op = "none"
                 /\ e.by = <<"close">> => closing' = "draining" /\ e.op = "none"
                 /\ e.op # "ready" => records'[e.id] = "none"
      <4>1. MatchWarm(e)'
        BY <2>4, <2>5 DEF PIInv, Matched, MatchWarm
      <4>2. MatchTake(e)'
        BY <1>1 DEF PIInv, Matched, MatchTake
      <4> QED
        BY <1>1, <2>4, <2>6, <4>1, <4>2 DEF PIInv, Matched, WarmFrame
    <3>2. /\ MatchWarm(new)' /\ MatchTake(new)'
          /\ new.by # <<"sweep">> /\ new.by # <<"close">>
      <4>1. MatchWarm(new)'
        BY <2>2, <2>5, Names DEF MatchWarm
      <4>2. MatchTake(new)'
        BY <2>2, Names DEF MatchTake
      <4> QED
        BY <2>2, <4>1, <4>2, Names
    <3> QED
      BY <2>2, <2>3, <3>1, <3>2 DEF Matched
  <2>13. Ordered'
    BY <2>1, <2>2, <2>4, AppendOrdered DEF PIInv, Typed
  <2>14. Awaited'
    <3>1. \A b : Queued(b) \/ b = <<"warm", w>> => Queued(b)'
      BY <2>2, <2>3 DEF Queued
    <3>2. \A u \in Warmers : warm'[u].pc \in Saving => Queued(<<"warm", u>>)'
      BY <2>5, <3>1 DEF PIInv, Awaited
    <3> QED
      BY <1>1, <3>1, <3>2 DEF PIInv, Awaited, WarmFrame
  <2>15. WarmOK'
    <3>1. \A u \in Warmers : warm'[u].pc \in {"idle", "queued", "launch"} => warm'[u].id = NoVM
      BY <2>5 DEF PIInv, WarmOK
    <3>2. ASSUME NEW u \in Warmers, warm'[u].pc \in Exclusive, warm'[u].id # NoVM
          PROVE  WarmAlone(u)'
      <4>1. /\ WarmAlone(u) /\ warm'[u] = warm[u] /\ warm[u].id \in Slots /\ warm[u].id # v
        BY <1>0, <1>2, <2>5, <3>2, NoVMs DEF PIInv, WarmOK, Typed, WarmType, MaybeVM, Exclusive
      <4>2. records'[warm[u].id] # "ready"
        BY <2>6, <4>1 DEF WarmAlone
      <4>3. \A e \in Calls' : e.id = warm[u].id => e.by = <<"warm", u>>
        BY <2>2, <2>3, <4>1 DEF WarmAlone
      <4> QED
        BY <1>1, <4>1, <4>2, <4>3 DEF WarmAlone, WarmFrame
    <3>3. \A u \in Warmers : warm'[u].pc \in Owning => warm'[u].id # NoVM
      BY <1>2, <2>5 DEF PIInv, WarmOK
    <3>4. \A u \in Warmers : warm'[u].pc = "forget" => warm'[u].next # "none"
      BY <2>5 DEF PIInv, WarmOK
    <3>5. \A x, u \in Warmers : x # u /\ warm'[x].id = warm'[u].id => warm'[x].id = NoVM
      BY <2>5 DEF PIInv, WarmOK
    <3> QED
      BY <3>1, <3>2, <3>3, <3>4, <3>5 DEF WarmOK
  <2>16. TakeOK'
    BY <1>1, <2>8 DEF PIInv, TakeOK, Typed, TakeType, MaybeVM
  <2>17. HeldOK'
    BY <1>1, <2>8 DEF PIInv, HeldOK, Typed
  <2>18. PhaseOK'
    BY <1>1 DEF PIInv, PhaseOK, WarmFrame
  <2>19. Counted'
    BY <1>1, <2>5, CountKept
  <2> QED
    BY <2>9, <2>10, <2>11, <2>12, <2>13, <2>14, <2>15, <2>16, <2>17, <2>18, <2>19 DEF PIInv
<1> QED
  BY <1>3, <1>4

(* The next VM of the account was nobody's before.                         *)
LEMMA NextIsUnused ==
    ASSUME PIInv, launched < MaxVMs
    PROVE  /\ launched + 1 \in VMs /\ launched + 1 \in Slots /\ launched + 1 \in MaybeVM
           /\ launched + 1 # NoVM /\ launched + 1 # Foreign /\ Unused(launched + 1)
           /\ launched + 1 \in 0 .. MaxVMs
           /\ \A x \in VMs : x > launched + 1 => x > launched /\ x # launched + 1
<1>1. launched \in 0 .. MaxVMs
  BY DEF PIInv, Typed
<1>2. launched + 1 \in VMs /\ launched + 1 > launched /\ launched + 1 \in 0 .. MaxVMs
  BY <1>1, PoolAssumption DEF VMs
<1>3. Unused(launched + 1)
  BY <1>2 DEF PIInv, Future
<1>4. \A x \in VMs : x > launched + 1 => x > launched /\ x # launched + 1
  BY <1>1, PoolAssumption DEF VMs
<1> QED
  BY <1>2, <1>3, <1>4, NoVMs

(* A VM is launched, and the save of its record queued.                    *)
LEMMA LaunchKeeps ==
    ASSUME PIInv, NEW w \in Warmers, recordLaunch(w), UNCHANGED <<sweep, close, ghost>>
    PROVE  PIInv'
<1>0. PICK v, new : v = launched + 1 /\ new = [op |-> "warming", id |-> v, by |-> <<"warm", w>>]
  OBVIOUS
<1>1. /\ warm[w].pc = "launch" /\ WarmFrame /\ launched < MaxVMs /\ launched' = v
      /\ UNCHANGED <<records, backend, inflight, held, take>>
      /\ vm' = [vm EXCEPT ![v] = "RUNNING"] /\ queue' = Append(queue, new)
      /\ warm' = [warm EXCEPT ![w].pc = "saving", ![w].id = v]
  BY <1>0 DEF recordLaunch, WarmFrame, Call, loop, close, ghost
<1>2. /\ v \in VMs /\ v \in Slots /\ v \in MaybeVM /\ v # NoVM /\ v # Foreign /\ Unused(v)
      /\ v \in 0 .. MaxVMs /\ \A x \in VMs : x > v => x > launched /\ x # v
  BY <1>0, <1>1, NextIsUnused
<1>3. new \in Entry /\ new.op = "warming" /\ new.id = v /\ new.by = <<"warm", w>>
  BY <1>0, <1>2, Names DEF Entry, RecordState
<1>4. queue' \in Seq(Entry) /\ Calls' = Calls \cup {new}
  BY <1>1, <1>3, AppendCalls DEF PIInv, Typed
<1>5. \A e \in Calls : e.by # <<"warm", w>> /\ e.id # v
  BY <1>1, <1>2 DEF Unused, PIInv, Matched, MatchWarm
<1>6. /\ warm' \in [Warmers -> WarmType] /\ warm'[w].pc = "saving" /\ warm'[w].id = v
      /\ \A u \in Warmers : u # w => warm'[u] = warm[u]
  <2> DEFINE r == [warm[w] EXCEPT !.pc = "saving", !.id = v]
  <2>1. warm' = [warm EXCEPT ![w] = r]
    BY <1>1
  <2>2. r \in WarmType /\ r.pc = "saving" /\ r.id = v
    BY <1>2 DEF PIInv, Typed, WarmType, WarmPc
  <2> HIDE DEF r
  <2> QED
    BY <2>1, <2>2 DEF PIInv, Typed
<1>7. /\ vm' \in [Slots -> States]
      /\ vm'[Foreign] = vm[Foreign]
  BY <1>1, <1>2, VMStates DEF PIInv, Typed, States
<1>8. ASSUME NEW x \in VMs, x # v, Released(x)
      PROVE  Released(x)'
  BY <1>1, <1>3, <1>4, <1>6, <1>8 DEF Released, WarmFrame
<1>9. Typed'
  BY <1>1, <1>2, <1>4, <1>6, <1>7 DEF PIInv, Typed, WarmFrame
<1>10. ForeignOK'
  BY <1>1, <1>7 DEF PIInv, ForeignOK, ForeignUntouched, WarmFrame
<1>11. Future'
  <2> SUFFICES ASSUME NEW x \in VMs, x > v
               PROVE  Unused(x)'
    BY <1>1 DEF Future
  <2>1. Unused(x) /\ x # v
    BY <1>2 DEF PIInv, Future
  <2> QED
    BY <1>1, <1>3, <1>4, <1>6, <2>1 DEF Unused, WarmFrame
<1>12. Matched'
  <2>1. ASSUME NEW e \in Calls
        PROVE  /\ MatchWarm(e)' /\ MatchTake(e)'
               /\ e.by = <<"sweep">> => sweep'.id = e.id /\ e.op = "none"
               /\ e.by = <<"close">> => closing' = "draining" /\ e.op = "none"
               /\ e.op # "ready" => records'[e.id] = "none"
    <3>1. MatchWarm(e)'
      BY <1>5, <1>6 DEF PIInv, Matched, MatchWarm
    <3>2. MatchTake(e)'
      BY <1>1 DEF PIInv, Matched, MatchTake
    <3> QED
      BY <1>1, <3>1, <3>2 DEF PIInv, Matched, WarmFrame
  <2>2. /\ MatchWarm(new)' /\ MatchTake(new)'
        /\ new.by # <<"sweep">> /\ new.by # <<"close">> /\ records'[new.id] = "none"
    <3>1. MatchWarm(new)'
      BY <1>3, <1>6, Names DEF MatchWarm
    <3>2. MatchTake(new)'
      BY <1>3, Names DEF MatchTake
    <3> QED
      BY <1>1, <1>2, <1>3, <3>1, <3>2, Names DEF Unused
  <2> QED
    BY <1>4, <2>1, <2>2 DEF Matched
<1>13. Ordered'
  BY <1>1, <1>3, <1>5, AppendOrdered DEF PIInv, Typed
<1>14. Awaited'
  <2>1. \A b : Queued(b) \/ b = <<"warm", w>> => Queued(b)'
    BY <1>3, <1>4 DEF Queued
  <2>2. \A u \in Warmers : warm'[u].pc \in Saving => Queued(<<"warm", u>>)'
    BY <1>6, <2>1 DEF PIInv, Awaited
  <2> QED
    BY <1>1, <2>1, <2>2 DEF PIInv, Awaited, WarmFrame
<1>15. WarmOK'
  <2>1. \A u \in Warmers : warm'[u].pc \in {"idle", "queued", "launch"} => warm'[u].id = NoVM
    BY <1>6 DEF PIInv, WarmOK
  <2>2. ASSUME NEW u \in Warmers, warm'[u].pc \in Exclusive, warm'[u].id # NoVM
        PROVE  WarmAlone(u)'
    <3>1. CASE u = w
      <4>1. \A e \in Calls' : e.id = v => e.by = <<"warm", w>>
        BY <1>3, <1>4, <1>5
      <4>2. /\ records'[v] # "ready" /\ v \notin held' /\ sweep'.id # v /\ v \notin sweep'.ids
            /\ \A t \in Takers : take'[t].id # v
        BY <1>1, <1>2 DEF WarmFrame, Unused
      <4>3. warm'[u].id = v
        BY <1>6, <3>1
      <4> QED
        BY <3>1, <4>1, <4>2, <4>3 DEF WarmAlone
    <3>2. CASE u # w
      <4>1. WarmAlone(u) /\ warm'[u] = warm[u] /\ warm[u].id # v
        BY <1>2, <1>6, <2>2, <3>2 DEF PIInv, WarmOK, Unused
      <4>2. \A e \in Calls' : e.id = warm[u].id => e.by = <<"warm", u>>
        BY <1>3, <1>4, <4>1 DEF WarmAlone
      <4>3. UNCHANGED <<records, held, take, sweep>>
        BY <1>1 DEF WarmFrame
      <4> QED
        BY <4>1, <4>2, <4>3 DEF WarmAlone
    <3> QED
      BY <3>1, <3>2
  <2>3. \A u \in Warmers : warm'[u].pc \in Owning => warm'[u].id # NoVM
    BY <1>2, <1>6 DEF PIInv, WarmOK
  <2>4. \A u \in Warmers : warm'[u].pc = "forget" => warm'[u].next # "none"
    BY <1>6 DEF PIInv, WarmOK
  <2>5. \A x, u \in Warmers : x # u /\ warm'[x].id = warm'[u].id => warm'[x].id = NoVM
    BY <1>2, <1>6 DEF PIInv, WarmOK, Unused
  <2> QED
    BY <2>1, <2>2, <2>3, <2>4, <2>5 DEF WarmOK
<1>16. TakeOK'
  BY <1>1, <1>2, <1>8 DEF PIInv, TakeOK, Typed, TakeType, MaybeVM, Unused
<1>17. HeldOK'
  BY <1>1, <1>2, <1>8 DEF PIInv, HeldOK, Typed, Unused
<1>18. PhaseOK'
  BY <1>1 DEF PIInv, PhaseOK, WarmFrame
<1>19. Counted'
  BY <1>1, <1>6, CountKept
<1> QED
  BY <1>9, <1>10, <1>11, <1>12, <1>13, <1>14, <1>15, <1>16, <1>17, <1>18, <1>19 DEF PIInv

(* Every step of a warm-up.                                                *)
LEMMA WarmUpKeeps == \A w \in Warmers : PIInv /\ WarmUp(w) => PIInv'
  BY AcquireKeeps, CreateKeeps, FailedKeeps, EndsKeeps, SavedKeeps, LaunchSavedKeeps, ReadyKeeps,
     LaunchKeeps DEF WarmUp

----------------------------------------------------------------------------
(* take().                                                                 *)

TakeFrame == UNCHANGED <<wall, filler, warm, inflight, sweep, closing, draining>>

(* A take() runs on, without a call of the backend.                        *)
LEMMA TakeRunsOn ==
    ASSUME PIInv, TakeFrame, filler \notin Early,
           take' \in [Takers -> TakeType], \A t \in Takers : TakeStep(t), HeldStep,
           UNCHANGED store, launched' \in 0 .. MaxVMs, held' \subseteq VMs,
           launched' = launched \/ launched' = launched + 1,
           vm' \in [Slots -> States],
           vm'[Foreign] = vm[Foreign]
    PROVE  PIInv'
<1>1. Typed' /\ ForeignUntouched'
  BY DEF PIInv, Typed, ForeignOK, ForeignUntouched, TakeFrame, store
<1>2. PhaseOK'
  BY DEF PIInv, PhaseOK, TakeFrame
<1>3. Counted'
  BY CountKept DEF TakeFrame
<1> QED
  BY <1>1, <1>2, <1>3, TasksMove, Stays DEF TakeFrame

(* take() is called.                                                       *)
LEMMA TakeCalledKeeps ==
    ASSUME PIInv, NEW t \in Takers, CallTake(t)
    PROVE  PIInv'
<1>1. PICK wait \in BOOLEAN : take' = [take EXCEPT ![t].pc = "claim", ![t].wait = wait]
  BY DEF CallTake, takeCalled
<1>2. /\ take[t].pc = "idle" /\ filler \notin Early /\ TakeFrame
      /\ UNCHANGED <<vm, launched, store, held>>
  BY DEF CallTake, takeCalled, Started, Early, TakeFrame, account, warming, close
<1>3. /\ take' \in [Takers -> TakeType] /\ take'[t].pc = "claim" /\ take'[t].id = take[t].id
      /\ \A u \in Takers : u # t => take'[u] = take[u]
  <2> DEFINE r == [take[t] EXCEPT !.pc = "claim", !.wait = wait]
  <2>1. take' = [take EXCEPT ![t] = r]
    BY <1>1
  <2>2. r \in TakeType /\ r.pc = "claim" /\ r.id = take[t].id
    BY DEF PIInv, Typed, TakeType, Quiet
  <2> HIDE DEF r
  <2> QED
    BY <2>1, <2>2 DEF PIInv, Typed
<1>4. \A u \in Takers : TakeStep(u)
  BY <1>2, <1>3 DEF TakeStep, Quiet, Live
<1> QED
  BY <1>2, <1>3, <1>4, TakeRunsOn, Stays DEF PIInv, Typed

(* A step of one take() that had no VM, or #notifyAll on top of it.        *)
LEMMA TakeWaits ==
    ASSUME PIInv, NEW t \in Takers, TakeFrame, take[t].pc \in Quiet \ {"idle"},
           \/ \E pc \in {"failed", "register", "wait"} : TakeTo(t, pc)
           \/ Claimed(t, "fallback"),
           UNCHANGED <<vm, launched, store, held>>
    PROVE  PIInv'
<1>1. filler \notin Early /\ take[t].id = NoVM
  BY DEF PIInv, PhaseOK, TakeOK, Quiet
<1>2. /\ take' \in [Takers -> TakeType] /\ take'[t].id = take[t].id
      /\ take'[t].pc \in {"failed", "register", "wait", "fallback"}
      /\ \A u \in Takers : u # t => TakeStep(u)
  BY OneTakes, ClaimEnds DEF PIInv, Typed, Quiet
<1>3. TakeStep(t)
  BY <1>1, <1>2 DEF TakeStep, Quiet, Live
<1> QED
  BY <1>1, <1>2, <1>3, TakeRunsOn, Stays DEF PIInv, Typed

(* A take() waits to be woken, or its time is up.                          *)
LEMMA WaitKeeps ==
    ASSUME PIInv, NEW t \in Takers, waitForWake(t), TakeFrame
    PROVE  PIInv'
<1>1. /\ take[t].pc \in Quiet \ {"idle"} /\ UNCHANGED <<vm, launched, store, held>>
      /\ TakeTo(t, "wait") \/ Claimed(t, "fallback")
  BY DEF waitForWake, Quiet, account
<1> QED
  BY <1>1, TakeWaits

(* A slot is taken from memory: it is ready, so nobody else's.             *)
LEMMA PopKeeps ==
    ASSUME PIInv, NEW t \in Takers, popReady(t), TakeFrame
    PROVE  PIInv'
<1> DEFINE fit == {x \in readyRecords : ~slotIsStale(x, wall)}
<1>1. take[t].pc \in {"claim", "retry"} /\ UNCHANGED <<vm, launched, held>>
  BY DEF popReady, account
<1>2. filler \notin Early /\ take[t].pc \in Quiet \ {"idle"}
  BY <1>1 DEF PIInv, PhaseOK, Quiet
<1>3. \/ /\ \E pc \in {"failed", "register", "wait"} : TakeTo(t, pc)
         /\ UNCHANGED store
      \/ Claimed(t, "fallback") /\ UNCHANGED store
      \/ /\ fit # {}
         /\ take' = [take EXCEPT ![t].pc = "deleting", ![t].id = Least(fit)]
         /\ Forget(Least(fit), <<"take", t>>)
  BY DEF popReady
<1>4. CASE \/ /\ \E pc \in {"failed", "register", "wait"} : TakeTo(t, pc)
              /\ UNCHANGED store
           \/ Claimed(t, "fallback") /\ UNCHANGED store
  BY <1>1, <1>2, <1>4, TakeWaits
<1>5. CASE /\ fit # {}
           /\ take' = [take EXCEPT ![t].pc = "deleting", ![t].id = Least(fit)]
           /\ Forget(Least(fit), <<"take", t>>)
  <2>1. PICK v : v = Least(fit)
    OBVIOUS
  <2>2. v \in Slots /\ records[v] = "ready"
    <3>1. fit \in SUBSET Slots /\ \A x \in fit : records[x] = "ready"
      BY DEF readyRecords
    <3> QED
      BY <1>5, <2>1, <3>1, LeastIn
  <2> HIDE DEF fit
  <2>3. v \in VMs /\ v # NoVM
    BY <2>2, NoVMs DEF PIInv, ForeignOK, Slots
  <2>4. /\ take' \in [Takers -> TakeType] /\ take'[t].pc = "deleting" /\ take'[t].id = v
        /\ \A u \in Takers : u # t => take'[u] = take[u]
    <3> DEFINE r == [take[t] EXCEPT !.pc = "deleting", !.id = v]
    <3>1. take' = [take EXCEPT ![t] = r]
      BY <1>5, <2>1
    <3>2. r \in TakeType /\ r.pc = "deleting" /\ r.id = v
      BY <2>3 DEF PIInv, Typed, TakeType, Live, MaybeVM
    <3> HIDE DEF r
    <3> QED
      BY <3>1, <3>2 DEF PIInv, Typed
  <2>5. Forget(v, <<"take", t>>)
    BY <1>5, <2>1
  <2>6. Forgets(v, <<"take", t>>)
    <3>1. \A w \in Warmers : warm[w].pc \in Exclusive => warm[w].id # v
      BY <2>2, <2>3 DEF PIInv, WarmOK, WarmAlone
    <3> QED
      BY <1>1, <2>2, <2>4, <2>5, <3>1, Names DEF Forgets, TakeFrame
  <2>7. Typed'
    <3>1. records' \in [Slots -> RecordState] /\ backend' = backend
      BY <2>5 DEF Forget, PIInv, Typed, RecordState
    <3>2. queue' \in Seq(Entry)
      <4>1. [op |-> "none", id |-> v, by |-> <<"take", t>>] \in Entry
        BY <2>3, Names DEF Entry, RecordState
      <4> QED
        BY <2>5, <4>1 DEF Forget, Call, PIInv, Typed
    <3> QED
      BY <1>1, <2>4, <3>1, <3>2 DEF PIInv, Typed, TakeFrame
  <2>8. ForeignUntouched'
    BY <1>1, <2>5 DEF Forget, PIInv, ForeignOK, ForeignUntouched
  <2>9. PhaseOK'
    BY <1>2 DEF PIInv, PhaseOK, TakeFrame
  <2>10. Counted'
    BY CountKept DEF TakeFrame
  <2> QED
    BY <1>1, <2>3, <2>6, <2>7, <2>8, <2>9, <2>10, SlotForgotten, Names
<1> QED
  BY <1>3, <1>4, <1>5

(* The record is deleted: from here the VM is the take()'s alone.          *)
LEMMA DeletedKeeps ==
    ASSUME PIInv, NEW t \in Takers, slotDeleted(t), TakeFrame
    PROVE  PIInv'
<1> DEFINE h == Head(queue)
<1>1. /\ take[t].pc = "deleting" /\ Mine(<<"take", t>>) /\ UNCHANGED <<vm, launched, records, held>>
      /\ \/ Done /\ Claimed(t, "resume")
         \/ Failed /\ TakeTo(t, "failed")
  BY DEF slotDeleted, account
<1>2. /\ queue # <<>> /\ queue' = Tail(queue) /\ queue' \in Seq(Entry)
      /\ h \in Calls /\ h.by = <<"take", t>> /\ h.id \in VMs
      /\ backend' = backend \/ backend' = [backend EXCEPT ![h.id] = h.op]
      /\ backend' \in [Slots -> RecordState] /\ backend'[Foreign] = backend[Foreign]
  BY <1>1, HeadDone
<1>3. /\ take' \in [Takers -> TakeType] /\ take'[t].id = take[t].id
      /\ \/ take'[t].pc = "failed"
         \/ take'[t].pc = "resume" /\ backend' = [backend EXCEPT ![h.id] = h.op]
      /\ \A u \in Takers : u # t => TakeStep(u)
  <2>1. CASE Done /\ Claimed(t, "resume")
    BY <2>1, ClaimEnds DEF PIInv, Typed, Done
  <2>2. CASE Failed /\ TakeTo(t, "failed")
    BY <2>2, OneTakes DEF PIInv, Typed
  <2> QED
    BY <1>1, <2>1, <2>2
<1> HIDE DEF h
<1>4. Leaves(h)
  BY <1>2, <1>3, Names DEF Leaves, h, TakeFrame
<1>5. Typed' /\ ForeignUntouched'
  BY <1>1, <1>2, <1>3 DEF PIInv, Typed, ForeignOK, ForeignUntouched, TakeFrame
<1>6. PhaseOK'
  BY <1>1 DEF PIInv, PhaseOK, TakeFrame
<1>7. Counted'
  BY CountKept DEF TakeFrame
<1> QED
  BY <1>1, <1>4, <1>5, <1>6, <1>7, CallLeaves

(* The VM is resumed and opened, or lost.                                  *)
LEMMA OpenKeeps ==
    ASSUME PIInv, NEW t \in Takers, resumeSlot(t) \/ openSlot(t), TakeFrame
    PROVE  PIInv'
<1> DEFINE v == take[t].id
<1>1. PICK pc \in {"open", "fallback", "done", "failed"} :
        /\ TakeTo(t, pc) /\ take[t].pc \in {"resume", "open"}
        /\ \/ held' = held
           \/ held' = held \cup {v} /\ pc = "done"
        /\ vm' = [vm EXCEPT ![v] = "RUNNING"] \/ Terminate(v)
        /\ UNCHANGED <<launched, store>>
  BY DEF resumeSlot, openSlot
<1>2. pc \in Quiet \cup Live \cup {"failed"} /\ filler \notin Early /\ v \in MaybeVM
  BY <1>1 DEF PIInv, PhaseOK, Live, Typed, TakeType
<1>3. /\ take' \in [Takers -> TakeType] /\ take'[t].id = v /\ take'[t].pc = pc
      /\ \A u \in Takers : u # t => take'[u] = take[u] /\ TakeStep(u)
  BY <1>1, <1>2, OneTakes DEF PIInv, Typed
<1>4. TakeStep(t)
  BY <1>1, <1>3 DEF TakeStep, Quiet, Live
<1>5. /\ vm' \in [Slots -> States]
      /\ vm'[Foreign] = vm[Foreign]
  BY <1>1, <1>2, VMStates, Terminated DEF PIInv, Typed, States
<1>6. HeldStep /\ held' \subseteq VMs
  <2>1. CASE held' = held
    BY <2>1, Stays DEF PIInv, Typed
  <2>2. CASE held' = held \cup {v} /\ pc = "done"
    <3>1. v # NoVM /\ v \in VMs /\ Released(v)
      BY <1>1, <1>2 DEF PIInv, TakeOK, Live, MaybeVM
    <3>2. v <= launched'
      <4>1. ~(v > launched)
        BY <3>1 DEF PIInv, Future, Unused
      <4> QED
        BY <1>1, <3>1, <4>1, PoolAssumption DEF PIInv, Typed, VMs
    <3>3. \A u \in Takers : take'[u].id = v => take'[u].pc \notin {"deleting", "resume", "open"}
      BY <1>1, <1>3, <2>2, <3>1 DEF PIInv, TakeOK, Live
    <3> QED
      BY <2>2, <3>1, <3>2, <3>3 DEF HeldStep, PIInv, Typed
  <2> QED
    BY <1>1, <2>1, <2>2
<1> QED
  BY <1>1, <1>2, <1>3, <1>4, <1>5, <1>6, TakeRunsOn DEF PIInv, Typed

(* A plain create() outside the pool's records gives a VM of its own.      *)
LEMMA FallbackKeeps ==
    ASSUME PIInv, NEW t \in Takers, fallback(t), TakeFrame
    PROVE  PIInv'
<1> DEFINE v == launched + 1
<1>1. PICK pc \in {"done", "failed"} :
        /\ TakeTo(t, pc) /\ take[t].pc = "fallback" /\ UNCHANGED store
        /\ \/ UNCHANGED <<launched, vm, held>>
           \/ /\ launched < MaxVMs /\ launched' = v /\ held' = held \cup {v}
              /\ vm' = [vm EXCEPT ![v] = "RUNNING"]
  BY DEF fallback
<1>2. pc \in Quiet \cup Live \cup {"failed"} /\ filler \notin Early
  BY <1>1 DEF PIInv, PhaseOK, Live
<1>3. /\ take' \in [Takers -> TakeType] /\ take'[t].id = take[t].id /\ take'[t].pc = pc
      /\ \A u \in Takers : u # t => take'[u] = take[u] /\ TakeStep(u)
  BY <1>1, <1>2, OneTakes DEF PIInv, Typed
<1>4. TakeStep(t)
  BY <1>1, <1>3 DEF TakeStep, Quiet, Live
<1>5. CASE UNCHANGED <<launched, vm, held>>
  BY <1>1, <1>2, <1>3, <1>4, <1>5, TakeRunsOn, Stays DEF PIInv, Typed
<1>6. CASE /\ launched < MaxVMs /\ launched' = v /\ held' = held \cup {v}
           /\ vm' = [vm EXCEPT ![v] = "RUNNING"]
  <2>1. /\ v \in VMs /\ v \in MaybeVM /\ Unused(v) /\ v \in 0 .. MaxVMs
    BY <1>6, NextIsUnused
  <2>2. /\ vm' \in [Slots -> States]
        /\ vm'[Foreign] = vm[Foreign]
    BY <1>6, <2>1, VMStates DEF PIInv, Typed, States
  <2>3. v <= launched'
    BY <1>6, <2>1, PoolAssumption
  <2>4. Released(v) /\ \A u \in Takers : take'[u].id # v
    BY <1>3, <2>1 DEF Released, Unused
  <2>5. HeldStep /\ held' \subseteq VMs
    BY <1>6, <2>1, <2>3, <2>4 DEF HeldStep, PIInv, Typed
  <2> QED
    BY <1>1, <1>2, <1>3, <1>4, <1>6, <2>1, <2>2, <2>5, TakeRunsOn
<1> QED
  BY <1>1, <1>5, <1>6

(* Every step of a take().                                                 *)
LEMMA TakeKeeps == \A t \in Takers : PIInv /\ (Take(t) \/ CallTake(t)) => PIInv'
<1> SUFFICES ASSUME NEW t \in Takers, PIInv, Take(t) \/ CallTake(t)
             PROVE  PIInv'
  OBVIOUS
<1>1. CASE CallTake(t)
  BY <1>1, TakeCalledKeeps
<1>2. CASE Take(t)
  <2>1. TakeFrame
    BY <1>2 DEF Take, TakeFrame, popReady, waitForWake, slotDeleted, resumeSlot, openSlot, fallback,
                account, warming, close
  <2> QED
    BY <1>2, <2>1, PopKeeps, WaitKeeps, DeletedKeeps, OpenKeeps, FallbackKeeps DEF Take
<1> QED
  BY <1>1, <1>2

(* A step that changes nothing, and every step of Next.                    *)
LEMMA StutterKeeps == PIInv /\ UNCHANGED vars => PIInv'
<1> SUFFICES ASSUME PIInv, UNCHANGED vars
             PROVE  PIInv'
  OBVIOUS
<1>1. UNCHANGED <<vm, launched, wall, records, backend, queue, filler, warm, inflight, take, sweep,
                  closing, draining, held>>
  BY DEF vars, account, store, loop, warming, close, ghost
<1>2. Typed' /\ ForeignUntouched' /\ UNCHANGED store
  BY <1>1 DEF PIInv, Typed, ForeignOK, ForeignUntouched, store
<1>3. PhaseOK' /\ Counted'
  BY <1>1, CountKept DEF PIInv, PhaseOK
<1> QED
  BY <1>1, <1>2, <1>3, TasksMove, Stays

(* Every action keeps the invariant.                                       *)
LEMMA NextKeeps == PIInv /\ Next => PIInv'
  BY StartKeeps, RecoverKeeps, FirstSweepKeeps, LoopKeeps, WakeKeeps, FillerKeeps, SweepKeeps,
     CloseKeeps, CrashKeeps, OutsideKeeps, WarmUpKeeps, TakeKeeps DEF Next, Start, Filler

----------------------------------------------------------------------------
(***************************************************************************)
(* PIInv is inductive: every step of start(), the filler, the sweep,       *)
(* close(), a crash, the warm-ups and the calls of take() keeps who may    *)
(* touch a VM.                                                             *)
(***************************************************************************)
THEOREM PoolInductive == Spec => []PIInv
<1>1. PIInv /\ [Next]_vars => PIInv'
  BY StutterKeeps, NextKeeps
<1> QED
  BY <1>1, PoolStarts, PTL DEF Spec

(* The invariant gives the custody of a VM.                                *)
LEMMA CustodyFollows == PIInv => Custody /\ ForeignUntouched
<1> SUFFICES ASSUME PIInv
             PROVE  Custody /\ ForeignUntouched
  OBVIOUS
<1>1. ASSUME NEW v \in held
      PROVE  /\ records[v] = "none" /\ backend[v] = "none"
             /\ \A i \in DOMAIN queue : queue[i].id # v
             /\ Cardinality({t \in Takers : take[t].id = v /\ take[t].pc # "failed"}) <= 1
  <2> DEFINE H == {t \in Takers : take[t].id = v /\ take[t].pc # "failed"}
  <2>1. Released(v) /\ v # NoVM
    BY NoVMs DEF PIInv, HeldOK, Typed
  <2>2. \A t, u \in H : t = u
    BY <2>1 DEF PIInv, TakeOK, Typed, TakeType
  <2>3. Cardinality(H) <= 1
    <3>1. CASE H = {}
      BY <3>1, FS_EmptySet
    <3>2. CASE H # {}
      <4>1. PICK t \in H : TRUE
        BY <3>2
      <4>2. H = {t}
        BY <2>2, <4>1
      <4>3. Cardinality(H) = 1
        BY <4>2, FS_Singleton, Zenon
      <4> QED
        BY <4>3
    <3> QED
      BY <3>1, <3>2
  <2> HIDE DEF H
  <2>4. \A i \in DOMAIN queue : queue[i] \in Calls
    BY DEF Calls
  <2> QED
    BY <2>1, <2>3, <2>4 DEF Released, H
<1> QED
  BY <1>1 DEF Custody, PIInv, ForeignOK

(***************************************************************************)
(* No step asks AWS to terminate a VM that a client holds (HeldIsSafe):    *)
(* not the recovery of an orphan, not the sweep, not the end of a warm-up, *)
(* not another take(), not the draining.                                   *)
(***************************************************************************)
THEOREM HeldIsNeverTerminated == Spec => HeldIsSafe
<1> DEFINE Spared == \A v \in held : vm'[v] \in Over => vm[v] \in Over
<1>1. ASSUME PIInv, Next
      PROVE  Spared
  <2> USE DEF PIInv
  <2>0. /\ \A v \in held : v \in VMs /\ v \in Slots /\ v # NoVM /\ Released(v)
        /\ vm \in [Slots -> States]
    BY <1>1, NoVMs DEF HeldOK, Typed
  <2>1. ASSUME NEW x, x \notin held, NEW s, vm' = [vm EXCEPT ![x] = s]
        PROVE  Spared
    BY <2>0, <2>1
  <2>2. ASSUME NEW x, NEW s, s \notin Over, vm' = [vm EXCEPT ![x] = s]
        PROVE  Spared
    BY <2>0, <2>2
  <2>12. ASSUME NEW x, x \notin held, Terminate(x)
         PROVE  Spared
    BY <2>1, <2>12 DEF Terminate
  <2>3. CASE vm' = vm
    BY <2>3
  <2>4. CASE Start
    <3>1. CASE recover
      <4>1. Least(sweep.ids) \notin held
        BY <1>1, <2>0, <3>1, LeastIn DEF recover, Released, Typed, SweepType
      <4> QED
        BY <2>1, <2>3, <3>1, <4>1, <2>12 DEF recover
    <3> QED
      BY <2>3, <2>4, <3>1 DEF Start, start, firstSweep, startFiller, account
  <2>5. CASE Filler
    BY <2>3, <2>5 DEF Filler, runFiller, pause, wake, sweepReturns, account
  <2>6. CASE Sweep
    <3>1. CASE sweepForgot
      <4>1. sweep.id \notin held
        BY <1>1, <2>0 DEF Released
      <4> QED
        BY <2>1, <2>3, <3>1, <4>1, <2>12 DEF sweepForgot
    <3>2. CASE reconcile
      BY <2>2, <2>3, <3>2 DEF reconcile, Over
    <3> QED
      BY <2>3, <2>6, <3>1, <3>2 DEF Sweep, recycleStale, listedStates, reconcileBegins, sweepEnds,
                                    account
  <2>7. CASE Close \/ closeCalled
    <3>1. CASE drained
      <4>1. queue # <<>> => Head(queue).id \notin held
        <5>1. queue # <<>> => Head(queue) \in Calls
          BY <1>1 DEF Calls, Typed
        <5> QED
          BY <2>0, <5>1 DEF Released
      <4> QED
        BY <2>1, <2>3, <3>1, <4>1, <2>12 DEF drained, Mine
    <3> QED
      BY <2>3, <2>7, <3>1 DEF Close, closeCalled, warmUpsSettled, drainSlot, closed, account
  <2>8. CASE Crash
    BY <2>3, <2>8 DEF Crash, account
  <2>9. CASE Outside
    BY <2>1, <2>2, <2>3, <2>9 DEF Outside, Over
  <2>10. ASSUME NEW w \in Warmers, WarmUp(w)
         PROVE  Spared
    <3>1. warm[w].pc \in Exclusive => warm[w].id \notin held
      BY <1>1, <2>0 DEF WarmOK, WarmAlone
    <3>2. CASE recordLaunch(w)
      BY <2>2, <3>2 DEF recordLaunch, Over
    <3>3. CASE LaunchSaved(w)
      BY <2>1, <2>3, <3>1, <3>3, <2>12 DEF LaunchSaved, Exclusive
    <3>4. CASE createAndPark(w)
      BY <2>1, <2>2, <2>3, <3>1, <3>4, <2>12 DEF createAndPark, Exclusive, Over
    <3>5. CASE warmUpEnds(w)
      BY <2>1, <2>3, <3>1, <3>5, <2>12 DEF warmUpEnds, Ends, Exclusive
    <3> QED
      BY <2>3, <2>10, <3>2, <3>3, <3>4, <3>5
         DEF WarmUp, acquire, launchFails, recordReady, ReadySaved, warmUpFailed, forgetDone, account
  <2>11. ASSUME NEW t \in Takers, Take(t) \/ CallTake(t)
         PROVE  Spared
    <3>1. take[t].pc \in {"resume", "open"} => take[t].id \notin held
      BY <1>1 DEF HeldOK
    <3>2. CASE resumeSlot(t)
      BY <2>1, <2>2, <3>1, <3>2, <2>12 DEF resumeSlot, Over
    <3>3. CASE openSlot(t)
      BY <2>1, <2>2, <3>1, <3>3, <2>12 DEF openSlot, Over
    <3>4. CASE fallback(t)
      BY <2>2, <2>3, <3>4 DEF fallback, Over
    <3> QED
      BY <2>3, <2>11, <3>2, <3>3, <3>4
         DEF Take, CallTake, takeCalled, popReady, waitForWake, slotDeleted, account
  <2> QED
    BY <1>1, <2>4, <2>5, <2>6, <2>7, <2>8, <2>9, <2>10, <2>11 DEF Next
<1>2. PIInv /\ [Next]_vars => [Spared]_vars
  BY <1>1
<1> QED
  BY <1>2, PoolInductive, PTL DEF Spec, HeldIsSafe

----------------------------------------------------------------------------
(* The permits of the semaphore, and the clock.                            *)

Holders == {w \in Warmers : warm[w].pc \notin {"idle", "queued"}}
Permits == free \in Nat /\ free + Cardinality(Holders) = FillConcurrency
Clock == wall <= launched

(* The warm-ups that hold a permit are finitely many.                      *)
LEMMA HoldersFinite == IsFiniteSet(Holders) /\ Cardinality(Holders) \in Nat
<1>1. IsFiniteSet(Warmers) /\ Holders \in SUBSET Warmers
  BY FS_Interval, PoolAssumption DEF Warmers, Holders
<1> QED
  BY <1>1, FS_Subset, FS_CardinalityType

(* No warm-up gets or returns a permit.                                    *)
LEMMA PermitsKept ==
    ASSUME Permits, free' = free,
           \A w \in Warmers : warm'[w].pc \in {"idle", "queued"} <=> warm[w].pc \in {"idle", "queued"}
    PROVE  Permits'
<1>1. Holders' = Holders
  BY DEF Holders
<1> QED
  BY <1>1 DEF Permits

(* A warm-up has its permit from acquire() to its end.                     *)
LEMMA PermitsStep == PIInv /\ Permits /\ Next => Permits'
<1> SUFFICES ASSUME PIInv, Permits, Next
             PROVE  Permits'
  OBVIOUS
<1>1. CASE warm' = warm /\ free' = free
  BY <1>1, PermitsKept
<1>2. CASE Start \/ Sweep \/ Close \/ closeCalled \/ Outside
  BY <1>1, <1>2 DEF Start, start, recover, firstSweep, startFiller, Sweep, Close, closeCalled, Outside,
                    warming
<1>3. CASE Filler
  <2>1. CASE wake \/ sweepReturns
    BY <1>1, <2>1 DEF wake, sweepReturns, warming
  <2>2. CASE runFiller \/ pause
    <3>1. free' = free
      BY <2>2 DEF runFiller, pause
    <3>2. \/ warm' = warm
          \/ warm' = [w \in Warmers |-> IF w \in Submitted
                                        THEN [Idle EXCEPT !.pc = "queued"] ELSE warm[w]]
      BY <2>2 DEF runFiller, pause
    <3>3. \A w \in Warmers :
            warm'[w].pc \in {"idle", "queued"} <=> warm[w].pc \in {"idle", "queued"}
      BY <3>2, SubmittedIdle DEF Idle
    <3> QED
      BY <3>1, <3>3, PermitsKept
  <2> QED
    BY <1>3, <2>1, <2>2 DEF Filler
<1>4. CASE Crash
  <2>1. Holders' = {} /\ free' = FillConcurrency
    BY <1>4 DEF Crash, NewProcess, Idle, Holders
  <2>2. Cardinality({}) = 0 /\ FillConcurrency \in Nat
    BY FS_EmptySet, PoolAssumption
  <2> QED
    BY <2>1, <2>2 DEF Permits
<1>5. ASSUME NEW w \in Warmers, WarmUp(w)
      PROVE  Permits'
  <2>1. warm \in [Warmers -> WarmType]
    BY DEF PIInv, Typed
  <2>2. CASE acquire(w)
    <3>1. /\ warm[w].pc = "queued" /\ free > 0 /\ free' = free - 1 /\ warm'[w].pc = "launch"
          /\ \A u \in Warmers : u # w => warm'[u] = warm[u]
      BY <2>1, <2>2, WarmTo DEF acquire, WarmPc
    <3>2. Holders' = Holders \cup {w} /\ w \notin Holders
      BY <3>1 DEF Holders
    <3>3. Cardinality(Holders') = Cardinality(Holders) + 1
      BY <3>2, HoldersFinite, FS_AddElement
    <3>4. FillConcurrency \in Nat
      BY PoolAssumption
    <3> QED
      BY <3>1, <3>3, <3>4, HoldersFinite DEF Permits
  <2>3. CASE warmUpEnds(w)
    <3>1. /\ warm[w].pc \in {"terminate", "end"} /\ free' = free + 1 /\ warm'[w] = Idle
          /\ \A u \in Warmers : u # w => warm'[u] = warm[u]
      BY <2>1, <2>3 DEF warmUpEnds, Ends
    <3>2. Holders' = Holders \ {w} /\ w \in Holders
      BY <3>1 DEF Holders, Idle
    <3>3. Cardinality(Holders') = Cardinality(Holders) - 1
      BY <3>2, HoldersFinite, FS_RemoveElement
    <3> QED
      BY <3>1, <3>3, HoldersFinite, PoolAssumption DEF Permits
  <2>4. CASE ~acquire(w) /\ ~warmUpEnds(w)
    <3>1. /\ free' = free /\ warm[w].pc \notin {"idle", "queued"}
      BY <1>5, <2>4 DEF WarmUp, recordLaunch, launchFails, LaunchSaved, createAndPark, recordReady,
                        ReadySaved, warmUpFailed, forgetDone
    <3>2. /\ \A u \in Warmers : u # w => warm'[u] = warm[u]
          /\ warm'[w].pc \notin {"idle", "queued"}
      <4>1. CASE \E pc \in WarmPc \ {"idle", "queued"} : To(w, pc)
        BY <2>1, <4>1, WarmTo
      <4>2. CASE \E x : warm' = [warm EXCEPT ![w].pc = "saving", ![w].id = x]
        BY <2>1, <4>2 DEF WarmType
      <4>3. CASE \E x : warm' = [warm EXCEPT ![w].pc = "forget", ![w].next = x]
        BY <2>1, <4>3 DEF WarmType
      <4>4. ASSUME NEW next \in {"discard", "failed", "parkFailed"}, AfterForget(w, next)
            PROVE  \E pc \in WarmPc \ {"idle", "queued"} : To(w, pc)
        BY <4>4, ForgottenForms DEF AfterForget, WarmPc
      <4>5. warm[w].pc = "forget" => warm[w].next \in {"discard", "failed", "parkFailed"}
        BY <2>1 DEF PIInv, WarmOK, WarmType
      <4>6. CASE warmUpFailed(w) \/ forgetDone(w)
        BY <4>1, <4>3, <4>4, <4>5, <4>6 DEF warmUpFailed, forgetDone
      <4>7. CASE recordLaunch(w)
        BY <4>2, <4>7 DEF recordLaunch
      <4>8. CASE launchFails(w) \/ LaunchSaved(w) \/ createAndPark(w) \/ recordReady(w) \/ ReadySaved(w)
        BY <4>1, <4>8 DEF launchFails, LaunchSaved, createAndPark, recordReady, ReadySaved, WarmPc
      <4> QED
        BY <1>5, <2>4, <4>6, <4>7, <4>8 DEF WarmUp
    <3> QED
      BY <3>1, <3>2, PermitsKept
  <2> QED
    BY <2>2, <2>3, <2>4
<1>6. ASSUME NEW t \in Takers, Take(t) \/ CallTake(t)
      PROVE  Permits'
  BY <1>1, <1>6 DEF Take, CallTake, warming
<1> QED
  BY <1>2, <1>3, <1>4, <1>5, <1>6 DEF Next

(* The clock never passes the launches, by which it is measured.           *)
LEMMA ClockStep == PIInv /\ Clock /\ Next => Clock'
<1> SUFFICES ASSUME PIInv, Clock, Next
             PROVE  Clock'
  OBVIOUS
<1>1. launched \in Nat /\ wall \in Nat
  BY PoolAssumption DEF PIInv, Typed
<1>2. CASE UNCHANGED <<launched, wall>>
  BY <1>2 DEF Clock
<1>3. CASE launched' = launched + 1 /\ wall' = wall
  BY <1>1, <1>3 DEF Clock
<1>4. CASE Outside
  BY <1>1, <1>4 DEF Outside, Clock
<1>5. CASE Start \/ Filler \/ Sweep \/ Close \/ closeCalled \/ Crash
  BY <1>2, <1>5 DEF Start, start, recover, firstSweep, startFiller, Filler, runFiller, pause, wake,
       sweepReturns, Sweep, recycleStale, sweepForgot, listedStates, reconcileBegins, reconcile,
       sweepEnds, Close, warmUpsSettled, drainSlot, drained, closed, closeCalled, Crash, account
<1>6. ASSUME NEW w \in Warmers, WarmUp(w)
      PROVE  Clock'
  BY <1>2, <1>3, <1>6 DEF WarmUp, acquire, recordLaunch, launchFails, LaunchSaved, createAndPark,
       recordReady, ReadySaved, warmUpFailed, forgetDone, warmUpEnds, Ends, account
<1>7. ASSUME NEW t \in Takers, Take(t) \/ CallTake(t)
      PROVE  Clock'
  BY <1>2, <1>3, <1>7 DEF Take, CallTake, takeCalled, popReady, waitForWake, slotDeleted, resumeSlot,
       openSlot, fallback, account
<1> QED
  BY <1>4, <1>5, <1>6, <1>7 DEF Next

----------------------------------------------------------------------------
(* What a step may do to the records, the backend and its queue.           *)

Idles == \A w \in Warmers : warm[w].pc = "idle"
(* The slots whose deletion failed in take(): the backend may keep them.   *)
Undeleted == {take[t].id : t \in {u \in Takers : take[u].pc = "failed"}}

(* What becomes of a VM whose record the backend has deleted: it has       *)
(* ended, or a task goes on with it.                                       *)
LetsGo(v) ==
    \/ vm'[v] \in Over
    \/ vm' = vm /\ sweep.pc = "losing" /\ sweep.id = v
    \/ vm' = vm /\ \E w \in Warmers : /\ warm[w].pc = "forget" /\ warm[w].next = "failed"
                                     /\ warm[w].id = v
    \/ \E w \in Warmers : warm'[w].id = v /\ warm'[w].pc = "terminate"
    \/ \E t \in Takers : take'[t].id = v /\ take'[t].pc = "resume"

Deletes(v) == records[v] # "none" /\ \E by \in Bys : Forget(v, by)
Finishes(h) ==
    /\ queue # <<>> /\ h = Head(queue) /\ Done /\ (h.op = "none" => LetsGo(h.id))
    /\ \/ records' = records
       \/ h.op = "warming" /\ records' = [records EXCEPT ![h.id] = "warming"]
Fails(h) ==
    /\ queue # <<>> /\ h = Head(queue) /\ Failed /\ records' = records
    /\ \/ h.op = "warming" /\ vm'[h.id] \in Over
       \/ h.op = "none" /\ h.id \in Undeleted'
       \/ h.op = "none" /\ closing' = "rejected" /\ Idles
Launches ==
    /\ launched < MaxVMs /\ UNCHANGED <<records, backend>>
    /\ \E by \in Bys : queue' = Call("warming", launched + 1, by)
Readies(w) ==
    /\ warm[w].pc = "paused" /\ records' = [records EXCEPT ![warm[w].id] = "ready"]
    /\ queue' = Call("ready", warm[w].id, <<"warm", w>>) /\ backend' = backend

(* Every step is of one of these kinds.                                    *)
LEMMA StoreKinds ==
    ASSUME PIInv, Next
    PROVE  \/ UNCHANGED store
           \/ \E v \in VMs : Deletes(v)
           \/ \E h \in Calls : Finishes(h) \/ Fails(h)
           \/ Launches
           \/ \E w \in Warmers : Readies(w)
           \/ recover
           \/ Crash
<1> DEFINE Kind == \/ UNCHANGED store
                   \/ \E v \in VMs : Deletes(v)
                   \/ \E h \in Calls : Finishes(h) \/ Fails(h)
                   \/ Launches
                   \/ \E w \in Warmers : Readies(w)
<1> SUFFICES ASSUME ~recover, ~Crash
             PROVE  Kind
  OBVIOUS
<1> USE DEF PIInv
<1>1. /\ vm \in [Slots -> States]
      /\ \A v \in readyRecords : v \in VMs /\ records[v] # "none"
      /\ \A v \in sweep.ids : v \in VMs
      /\ \A v \in Slots : records[v] # "none" => v \in VMs
      /\ queue # <<>> => Head(queue) \in Calls
      /\ draining \in SUBSET Slots
  BY NoVMs DEF Typed, ForeignOK, readyRecords, SweepType, Slots, Calls
<1>2. CASE Start \/ Filler \/ closeCalled \/ Outside
  BY <1>2 DEF Start, start, firstSweep, startFiller, Filler, runFiller, pause, wake, sweepReturns,
              closeCalled, Outside
<1>3. CASE Sweep
  <2>1. ASSUME NEW v \in sweep.ids, NEW pc, SweepForgets(v, pc)
        PROVE  Kind
    BY <1>1, <2>1, Names DEF SweepForgets, Deletes
  <2>2. sweep.ids # {} => Least(sweep.ids) \in sweep.ids
    BY LeastIn DEF Typed, SweepType
  <2>3. CASE recycleStale
    BY <2>1, <2>2, <2>3 DEF recycleStale
  <2>4. CASE reconcile
    BY <2>1, <2>2, <2>4 DEF reconcile
  <2>5. CASE sweepForgot
    <3>1. queue # <<>> /\ Head(queue) \in Calls /\ sweep.id = Head(queue).id /\ Head(queue).id \in Slots
      BY <1>1, <2>5, CallsTyped DEF sweepForgot, Mine, Matched, Typed
    <3>2. LetsGo(Head(queue).id)
      BY <1>1, <2>5, <3>1, Terminated DEF sweepForgot, LetsGo, Typed, SweepType
    <3> QED
      BY <2>5, <3>1, <3>2 DEF sweepForgot, Finishes
  <2> QED
    BY <1>3, <2>3, <2>4, <2>5 DEF Sweep, listedStates, reconcileBegins, sweepEnds
<1>4. CASE Close
  <2>1. CASE drainSlot
    <3>1. draining # {} => Least(draining) \in draining
      BY <1>1, LeastIn
    <3> QED
      BY <1>1, <2>1, <3>1, Names DEF drainSlot, Deletes
  <2>2. CASE drained
    <3>1. CASE Done /\ Terminate(Head(queue).id)
      <4>1. queue # <<>> /\ Head(queue) \in Calls /\ Head(queue).id \in Slots
        BY <1>1, <2>2, CallsTyped DEF drained, Mine, Typed
      <4>3. Head(queue).id \in MaybeVM
        BY <4>1, CallsTyped DEF Typed, MaybeVM
      <4>2. LetsGo(Head(queue).id)
        BY <1>1, <3>1, <4>1, <4>3, Terminated DEF LetsGo
      <4> QED
        BY <2>2, <3>1, <4>1, <4>2 DEF drained, Finishes
    <3>2. CASE Failed /\ closing' = "rejected"
      <4>1. Head(queue) \in Calls /\ Head(queue).op = "none" /\ Idles /\ queue # <<>>
        BY <1>1, <2>2 DEF drained, Mine, Matched, PhaseOK, Idles
      <4> QED
        BY <2>2, <3>2, <4>1 DEF drained, Fails
    <3> QED
      BY <2>2, <3>1, <3>2 DEF drained
  <2> QED
    BY <1>4, <2>1, <2>2 DEF Close, warmUpsSettled, closed
<1>5. ASSUME NEW w \in Warmers, WarmUp(w)
      PROVE  Kind
  <2>1. CASE recordLaunch(w)
    BY <2>1, Names DEF recordLaunch, Launches
  <2>2. CASE LaunchSaved(w)
    <3>4. queue # <<>> /\ Head(queue) \in Calls /\ Head(queue).by = <<"warm", w>> /\ warm[w].pc = "saving"
      BY <1>1, <2>2 DEF LaunchSaved, Mine
    <3>5. Head(queue).op = "warming" /\ Head(queue).id = warm[w].id
      BY <3>4 DEF Matched, MatchWarm
    <3>6. warm[w].id \in Slots
      BY <3>4, NoVMs DEF Typed, WarmType, MaybeVM, WarmOK, Owning
    <3>1. /\ queue # <<>> /\ Head(queue) \in Calls /\ Head(queue).op = "warming"
          /\ Head(queue).id = warm[w].id /\ warm[w].id \in Slots
      BY <3>4, <3>5, <3>6
    <3>2. CASE Done /\ records' = [records EXCEPT ![warm[w].id] = "warming"]
      BY <3>1, <3>2 DEF Finishes
    <3>3. CASE Failed /\ Terminate(warm[w].id) /\ records' = records
      BY <1>1, <3>1, <3>3, Terminated DEF Fails, Typed, WarmType
    <3> QED
      BY <2>2, <3>2, <3>3 DEF LaunchSaved
  <2>3. CASE recordReady(w)
    BY <2>3 DEF recordReady, Readies, store
  <2>4. CASE ReadySaved(w)
    <3>1. queue # <<>> /\ Head(queue) \in Calls /\ Head(queue).op = "ready"
      BY <1>1, <2>4 DEF ReadySaved, Mine, Matched, MatchWarm
    <3> QED
      BY <2>4, <3>1 DEF ReadySaved, Finishes
  <2>5. CASE forgetDone(w)
    <3>1. /\ queue # <<>> /\ Head(queue) \in Calls /\ Head(queue).id = warm[w].id
          /\ warm[w].pc = "forget" /\ warm[w].next \in {"discard", "failed", "parkFailed"}
          /\ warm \in [Warmers -> WarmType]
      BY <1>1, <2>5 DEF forgetDone, Mine, Matched, MatchWarm, WarmOK, Typed, WarmType
    <3>2. LetsGo(Head(queue).id)
      <4>1. CASE warm[w].next = "failed"
        BY <2>5, <3>1, <4>1 DEF forgetDone, account, LetsGo
      <4>2. CASE warm[w].next # "failed"
        <5>1. To(w, "terminate")
          BY <2>5, <3>1, <4>2 DEF forgetDone, AfterForget, Forgotten
        <5>2. warm'[w].id = warm[w].id /\ warm'[w].pc = "terminate"
          BY <3>1, <5>1, WarmTo DEF WarmPc
        <5> QED
          BY <3>1, <5>2 DEF LetsGo
      <4> QED
        BY <4>1, <4>2
    <3> QED
      BY <2>5, <3>1, <3>2 DEF forgetDone, Finishes
  <2>6. CASE warmUpFailed(w)
    BY <1>1, <2>6, Names, NoVMs DEF warmUpFailed, Deletes, Typed, WarmType, MaybeVM
  <2> QED
    BY <1>5, <2>1, <2>2, <2>3, <2>4, <2>5, <2>6
       DEF WarmUp, acquire, launchFails, createAndPark, warmUpEnds, Ends
<1>6. ASSUME NEW t \in Takers, Take(t) \/ CallTake(t)
      PROVE  Kind
  <2>1. take \in [Takers -> TakeType]
    BY DEF Typed
  <2>2. CASE popReady(t)
    <3>1. CASE \E v \in readyRecords : Forget(v, <<"take", t>>)
      BY <1>1, <3>1, Names DEF Deletes
    <3>2. LET fit == {v \in readyRecords : ~slotIsStale(v, wall)} IN fit # {} => Least(fit) \in fit
      BY LeastIn DEF readyRecords
    <3> QED
      BY <2>2, <3>1, <3>2 DEF popReady
  <2>3. CASE slotDeleted(t)
    <3>1. CASE Done /\ Claimed(t, "resume")
      <4>1. queue # <<>> /\ Head(queue) \in Calls /\ take[t].id = Head(queue).id
        BY <1>1, <2>3 DEF slotDeleted, Mine, Matched, MatchTake
      <4>2. take'[t].pc = "resume" /\ take'[t].id = take[t].id
        BY <2>1, <3>1, ClaimEnds
      <4> QED
        BY <2>3, <3>1, <4>1, <4>2 DEF slotDeleted, Finishes, LetsGo
    <3>2. CASE Failed /\ TakeTo(t, "failed")
      <4>1. Head(queue) \in Calls /\ Head(queue).op = "none" /\ queue # <<>> /\ take[t].id = Head(queue).id
        BY <1>1, <2>3 DEF slotDeleted, Mine, Matched, MatchTake
      <4>2. take'[t].pc = "failed" /\ take'[t].id = take[t].id
        BY <2>1, <3>2, OneTakes
      <4> QED
        BY <2>3, <3>2, <4>1, <4>2 DEF slotDeleted, Fails, Undeleted
    <3> QED
      BY <2>3, <3>1, <3>2 DEF slotDeleted
  <2> QED
    BY <1>6, <2>2, <2>3
       DEF Take, CallTake, takeCalled, waitForWake, resumeSlot, openSlot, fallback
<1> QED
  BY <1>2, <1>3, <1>4, <1>5, <1>6 DEF Next, Start

(* A call that saves is of a warm-up.                                      *)
LEMMA SavesAreOfWarmUps ==
    ASSUME PIInv, NEW e \in Calls, e.op # "none"
    PROVE  \E w \in Warmers :
             /\ e.by = <<"warm", w>> /\ warm[w].id = e.id
             /\ \/ warm[w].pc = "saving" /\ e.op = "warming"
                \/ warm[w].pc = "parking" /\ e.op = "ready"
<1>1. e.by \in Bys
  BY CallsTyped DEF PIInv, Typed
<1>2. MatchWarm(e) /\ MatchTake(e) /\ e.by # <<"sweep">> /\ e.by # <<"close">>
  BY DEF PIInv, Matched
<1>3. PICK w \in Warmers : e.by = <<"warm", w>>
  BY <1>1, <1>2 DEF Bys, MatchTake
<1> QED
  BY <1>2, <1>3 DEF MatchWarm

(* How the pool starts: a process is new until start(), and the recovery   *)
(* visits what start() read.                                               *)
LEMMA Beginnings ==
    ASSUME PIInv, Next
    PROVE  /\ filler' = "new" => filler = "new" \/ Crash
           /\ filler' = "recover" => filler = "recover" \/ start
           /\ sweep'.pc = "recover" =>
                start \/ (sweep.pc = "recover" /\ (sweep' = sweep \/ recover))
<1> USE DEF PIInv
<1>1. sweep \in SweepType /\ wall \in Nat
  BY DEF Typed
<1>2. CASE Start
  BY <1>2, SweepForms DEF Start, start, recover, firstSweep, startFiller, loop
<1>3. CASE Filler
  BY <1>3, SweepForms DEF Filler, runFiller, pause, wake, sweepReturns
<1>4. CASE Sweep
  <2>1. filler' = filler
    BY <1>4 DEF Sweep, recycleStale, sweepForgot, listedStates, reconcileBegins, reconcile, sweepEnds,
                loop
  <2>2. sweep.pc # "recover"
    BY <1>4 DEF Sweep, recycleStale, sweepForgot, listedStates, reconcileBegins, reconcile, sweepEnds
  <2>3. ASSUME NEW v, NEW pc \in {"recycling", "losing"}, SweepForgets(v, pc)
        PROVE  sweep'.pc # "recover"
    BY <1>1, <2>2, <2>3 DEF SweepForgets, SweepType
  <2>4. sweep'.pc # "recover"
    <3>1. CASE recycleStale
      BY <1>1, <2>2, <2>3, <3>1 DEF recycleStale, SweepType
    <3>2. CASE reconcile
      BY <1>1, <2>2, <2>3, <3>2 DEF reconcile, SweepType
    <3>3. CASE sweepForgot \/ listedStates \/ reconcileBegins \/ sweepEnds
      BY <1>1, <3>3, SweepForms DEF sweepForgot, listedStates, reconcileBegins, sweepEnds, SweepType
    <3> QED
      BY <1>4, <3>1, <3>2, <3>3 DEF Sweep
  <2> QED
    BY <2>1, <2>4
<1>5. CASE Close \/ closeCalled \/ Outside
  BY <1>5 DEF Close, warmUpsSettled, drainSlot, drained, closed, closeCalled, Outside, loop
<1>6. CASE Crash
  BY <1>6, SweepForms DEF Crash
<1>7. ASSUME NEW w \in Warmers, WarmUp(w)
      PROVE  filler' = filler /\ sweep' = sweep
  BY <1>7 DEF WarmUp, acquire, recordLaunch, launchFails, LaunchSaved, createAndPark, recordReady,
       ReadySaved, warmUpFailed, forgetDone, warmUpEnds, Ends, loop
<1>8. ASSUME NEW t \in Takers, Take(t) \/ CallTake(t)
      PROVE  filler' = filler /\ sweep' = sweep
  BY <1>8 DEF Take, CallTake
<1> QED
  BY <1>2, <1>3, <1>4, <1>5, <1>6, <1>7, <1>8 DEF Next

(* A warm-up reaches create() when its launch was saved.                   *)
LEMMA WarmUpCreates ==
    ASSUME PIInv, Next, NEW w \in Warmers, warm'[w].pc \in {"create", "paused"}
    PROVE  /\ warm'[w].id = warm[w].id
           /\ \/ warm[w].pc \in {"create", "paused"}
              \/ LaunchSaved(w) /\ Done /\ warm[w].pc = "saving"
<1> USE DEF PIInv
<1>1. warm \in [Warmers -> WarmType]
  BY DEF Typed
<1>2. CASE warm' = warm
  BY <1>2
<1>3. CASE Start \/ Sweep \/ Close \/ closeCalled \/ Outside
  BY <1>2, <1>3 DEF Start, start, recover, firstSweep, startFiller, Sweep, Close, closeCalled, Outside,
                    warming
<1>4. CASE Filler
  <2>1. \/ warm' = warm
        \/ warm' = [u \in Warmers |-> IF u \in Submitted
                                      THEN [Idle EXCEPT !.pc = "queued"] ELSE warm[u]]
    BY <1>4 DEF Filler, runFiller, pause, wake, sweepReturns, warming
  <2>2. CASE warm' = [u \in Warmers |-> IF u \in Submitted
                                      THEN [Idle EXCEPT !.pc = "queued"] ELSE warm[u]]
    <3>1. warm'[w] = [Idle EXCEPT !.pc = "queued"] \/ warm'[w] = warm[w]
      BY <2>2
    <3> QED
      BY <3>1 DEF Idle
  <2> QED
    BY <1>2, <2>1, <2>2
<1>5. CASE Crash
  BY <1>5 DEF Crash, NewProcess, Idle
<1>6. ASSUME NEW u \in Warmers, WarmUp(u)
      PROVE  /\ warm'[w].id = warm[w].id
             /\ \/ warm[w].pc \in {"create", "paused"}
                \/ LaunchSaved(w) /\ Done /\ warm[w].pc = "saving"
  <2>1. ASSUME NEW pc \in WarmPc \ {"create", "paused"}, To(u, pc)
        PROVE  warm'[w] = warm[w]
    BY <1>1, <2>1, WarmTo
  <2>2. CASE recordLaunch(u)
    BY <1>1, <2>2 DEF recordLaunch, WarmType
  <2>3. CASE LaunchSaved(u)
    <3>1. CASE To(u, "failed")
      BY <2>1, <2>3, <3>1 DEF WarmPc, LaunchSaved
    <3>2. CASE Done /\ To(u, "create")
      BY <1>1, <2>3, <3>2, WarmTo DEF LaunchSaved, WarmPc
    <3> QED
      BY <2>3, <3>1, <3>2 DEF LaunchSaved
  <2>4. CASE createAndPark(u)
    <3>1. \E pc \in WarmPc : To(u, pc)
      BY <2>4 DEF createAndPark, WarmPc
    <3> QED
      BY <1>1, <2>4, <3>1, WarmTo DEF createAndPark
  <2>5. CASE warmUpFailed(u)
    <3>1. CASE warm' = [warm EXCEPT ![u].pc = "forget", ![u].next = warm[u].pc]
      BY <1>1, <3>1 DEF WarmType
    <3>2. CASE AfterForget(u, warm[u].pc)
      BY <2>1, <2>5, <3>2, ForgottenForms DEF AfterForget, warmUpFailed, WarmPc
    <3> QED
      BY <2>5, <3>1, <3>2 DEF warmUpFailed
  <2>6. CASE forgetDone(u)
    <3>1. warm[u].next \in {"discard", "failed", "parkFailed"}
      BY <1>1, <2>6 DEF forgetDone, WarmOK, WarmType
    <3> QED
      BY <2>1, <2>6, <3>1, ForgottenForms DEF AfterForget, forgetDone, WarmPc
  <2>7. CASE warmUpEnds(u)
    BY <1>1, <2>7 DEF warmUpEnds, Ends, Idle
  <2>8. CASE acquire(u) \/ launchFails(u) \/ ReadySaved(u)
    BY <2>1, <2>8 DEF acquire, launchFails, ReadySaved, WarmPc
  <2>9. CASE recordReady(u)
    BY <2>1, <2>9 DEF recordReady, WarmPc
  <2> QED
    BY <1>6, <2>2, <2>3, <2>4, <2>5, <2>6, <2>7, <2>8, <2>9 DEF WarmUp
<1>7. ASSUME NEW t \in Takers, Take(t) \/ CallTake(t)
      PROVE  warm' = warm
  BY <1>7 DEF Take, CallTake, warming
<1> QED
  BY <1>2, <1>3, <1>4, <1>5, <1>6, <1>7 DEF Next

----------------------------------------------------------------------------
(* What memory has is in the backend.                                      *)

(* What is recorded in memory is in the backend, if only as warming; a     *)
(* deletion that waits in the queue has something to delete; a new process *)
(* has no records, and the recovery copies them from the backend.          *)
Rooted ==
    /\ \A v \in VMs : records[v] # "none" => backend[v] # "none"
    /\ \A e \in Calls : e.op = "none" => backend[e.id] # "none"
    /\ \A w \in Warmers : warm[w].pc \in {"create", "paused"} => backend[warm[w].id] # "none"
    /\ filler = "new" => \A v \in VMs : records[v] = "none"
    /\ sweep.pc = "recover" => \A v \in sweep.ids : records[v] = "none"
    /\ filler \in {"new", "recover"} => \A v \in readyRecords : backend[v] = "ready"

(* The same before the pool has started: nothing is saved.                 *)
LEMMA NothingSavedYet ==
    ASSUME PIInv, filler \in Early
    PROVE  /\ \A w \in Warmers : warm[w].pc = "idle"
           /\ \A e \in Calls : e.op = "none"
<1>1. \A w \in Warmers : warm[w].pc = "idle"
  BY DEF PIInv, PhaseOK
<1> QED
  BY <1>1, SavesAreOfWarmUps

(* What the head of the queue does when it is done.                        *)
LEMMA HeadFacts ==
    ASSUME PIInv, NEW h \in Calls, Finishes(h) \/ Fails(h)
    PROVE  /\ h \in Entry /\ h.id \in VMs /\ h.id \in Slots /\ h.op \in RecordState
           /\ Calls' = Calls \ {h}
           /\ \A c \in Calls' : c.id = h.id => h.op = "ready" /\ c.op = "none"
           /\ h.op # "ready" => records[h.id] = "none"
           /\ \A x \in Slots \ {h.id} : backend'[x] = backend[x] /\ records'[x] = records[x]
           /\ Finishes(h) => backend'[h.id] = h.op
           /\ Fails(h) => backend' = backend /\ records' = records
<1>1. queue # <<>> /\ queue' = Tail(queue) /\ h = Head(queue)
  BY DEF Finishes, Fails, Done, Failed
<1>2. /\ queue \in Seq(Entry) /\ Ordered /\ Matched
      /\ backend \in [Slots -> RecordState] /\ records \in [Slots -> RecordState]
  BY DEF PIInv, Typed
<1>3. /\ h \in Entry /\ Calls' = Calls \ {h}
      /\ \A c \in Calls' : c.id = h.id => h.op = "ready" /\ c.op = "none"
  BY <1>1, <1>2, TailCalls
<1>4. h.id \in VMs /\ h.id \in Slots /\ h.op \in RecordState
  BY <1>2, CallsTyped
<1>5. h.op # "ready" => records[h.id] = "none"
  BY <1>2 DEF Matched
<1>6. CASE Finishes(h)
  BY <1>2, <1>3, <1>4, <1>5, <1>6 DEF Finishes, Done, Fails, Failed
<1>7. CASE Fails(h) /\ ~Finishes(h)
  BY <1>2, <1>3, <1>4, <1>5, <1>7 DEF Fails, Failed
<1> QED
  BY <1>6, <1>7

(* The conjuncts of Rooted are kept by every step.                         *)
LEMMA RootedStep == PIInv /\ Rooted /\ Next => Rooted'
<1> SUFFICES ASSUME PIInv, Rooted, Next
             PROVE  Rooted'
  OBVIOUS
<1>1. /\ records \in [Slots -> RecordState] /\ backend \in [Slots -> RecordState]
      /\ queue \in Seq(Entry) /\ VMs \subseteq Slots /\ Foreign \notin VMs /\ Slots = VMs \cup {Foreign}
      /\ records[Foreign] = "none" /\ sweep.ids \subseteq VMs /\ sweep.ids \subseteq Slots
  BY NoVMs DEF PIInv, Typed, ForeignOK, SweepType, Slots
<1>2. \A e \in Calls : e.id \in VMs
  BY CallsTyped DEF PIInv, Typed
<1>3. \A w \in Warmers : warm[w].pc \in Owning => warm[w].id \in VMs
  BY DEF PIInv, Typed, WarmType, MaybeVM, WarmOK
<1>4. ASSUME NEW v \in VMs, Deletes(v)
      PROVE  /\ records' = [records EXCEPT ![v] = "none"] /\ backend' = backend
             /\ \E by \in Bys : Calls' = Calls \cup {[op |-> "none", id |-> v, by |-> by]}
  <2>1. PICK by \in Bys : Forget(v, by)
    BY <1>4 DEF Deletes
  <2>2. [op |-> "none", id |-> v, by |-> by] \in Entry
    BY DEF Entry, RecordState
  <2> QED
    BY <1>1, <2>1, <2>2, AppendCalls DEF Forget, Call
<1>5. ASSUME Launches
      PROVE  /\ records' = records /\ backend' = backend
             /\ \E e \in Entry : e.op = "warming" /\ Calls' = Calls \cup {e}
  <2>1. PICK by \in Bys : queue' = Call("warming", launched + 1, by)
    BY <1>5 DEF Launches
  <2>2. launched + 1 \in VMs
    BY <1>5, NextIsUnused DEF Launches
  <2>3. [op |-> "warming", id |-> launched + 1, by |-> by] \in Entry
    BY <2>2 DEF Entry, RecordState
  <2> QED
    BY <1>1, <1>5, <2>1, <2>3, AppendCalls DEF Call, Launches
<1>6. ASSUME NEW w \in Warmers, Readies(w)
      PROVE  /\ records' = [records EXCEPT ![warm[w].id] = "ready"] /\ backend' = backend
             /\ warm[w].id \in VMs /\ warm[w].pc = "paused"
             /\ \E e \in Entry : e.op = "ready" /\ Calls' = Calls \cup {e}
  <2>1. warm[w].id \in VMs /\ warm[w].pc = "paused"
    BY <1>3, <1>6 DEF Readies, Owning
  <2>2. [op |-> "ready", id |-> warm[w].id, by |-> <<"warm", w>>] \in Entry
    BY <2>1, Names DEF Entry, RecordState
  <2> QED
    BY <1>1, <1>6, <2>1, <2>2, AppendCalls DEF Call, Readies
<1>7. ASSUME recover
      PROVE  \E v \in sweep.ids :
               /\ sweep'.ids = sweep.ids \ {v} /\ records[v] = "none" /\ Calls = {} /\ Calls' = {}
               /\ sweep.pc = "recover" /\ filler = "recover"
               /\ \/ /\ backend[v] = "ready" /\ backend' = backend
                     /\ records' = [records EXCEPT ![v] = "ready"]
                  \/ backend' = [backend EXCEPT ![v] = "none"] /\ records' = records
  <2>1. Least(sweep.ids) \in sweep.ids /\ sweep.pc = "recover" /\ filler = "recover" /\ sweep \in SweepType
    BY <1>1, <1>7, LeastIn DEF recover, PIInv, PhaseOK, Typed
  <2>2. sweep'.ids = sweep.ids \ {Least(sweep.ids)} /\ Calls = {} /\ Calls' = {}
    BY <1>7, <2>1 DEF recover, Calls, SweepType
  <2> QED
    BY <1>7, <2>1, <2>2 DEF recover, Rooted
<1>8. ASSUME Crash
      PROVE  (\A v \in Slots : records'[v] = "none") /\ backend' = backend /\ Calls' = {}
  BY <1>8 DEF Crash, NewProcess, Calls
<1>9. UNCHANGED store => records' = records /\ backend' = backend /\ Calls' = Calls
  BY DEF store, Calls
<1>10. \A v \in VMs : records'[v] # "none" => backend'[v] # "none"
  <2> USE DEF Rooted
  <2>1. CASE UNCHANGED store
    BY <1>9, <2>1
  <2>2. CASE \E v \in VMs : Deletes(v)
    BY <1>1, <1>4, <2>2
  <2>3. ASSUME NEW h \in Calls, Finishes(h) \/ Fails(h)
        PROVE  \A v \in VMs : records'[v] # "none" => backend'[v] # "none"
    <3>1. \A x \in VMs \ {h.id} : backend'[x] = backend[x] /\ records'[x] = records[x]
      BY <1>1, <2>3, HeadFacts
    <3>2. records'[h.id] # "none" => backend'[h.id] # "none"
      <4>1. CASE Fails(h)
        BY <1>2, <2>3, <4>1, HeadFacts
      <4>2. CASE Finishes(h) /\ h.op = "none"
        BY <2>3, <4>2, HeadFacts DEF Finishes
      <4>3. CASE Finishes(h) /\ h.op # "none"
        BY <4>3, HeadFacts
      <4> QED
        BY <2>3, <4>1, <4>2, <4>3
    <3> QED
      BY <3>1, <3>2
  <2>4. CASE Launches
    BY <1>5, <2>4
  <2>5. CASE \E w \in Warmers : Readies(w)
    BY <1>1, <1>6, <2>5
  <2>6. CASE recover
    BY <1>1, <1>7, <2>6
  <2>7. CASE Crash
    BY <1>1, <1>8, <2>7
  <2> QED
    BY <2>1, <2>2, <2>3, <2>4, <2>5, <2>6, <2>7, StoreKinds
<1>11. \A e \in Calls' : e.op = "none" => backend'[e.id] # "none"
  <2> USE DEF Rooted
  <2>1. CASE UNCHANGED store
    BY <1>9, <2>1
  <2>2. ASSUME NEW v \in VMs, Deletes(v)
        PROVE  \A e \in Calls' : e.op = "none" => backend'[e.id] # "none"
    BY <1>4, <2>2 DEF Deletes
  <2>3. ASSUME NEW h \in Calls, Finishes(h) \/ Fails(h)
        PROVE  \A e \in Calls' : e.op = "none" => backend'[e.id] # "none"
    BY <1>1, <1>2, <2>3, HeadFacts
  <2>4. CASE Launches
    BY <1>5, <2>4
  <2>5. CASE \E w \in Warmers : Readies(w)
    BY <1>6, <2>5
  <2>6. CASE recover
    BY <1>7, <2>6
  <2>7. CASE Crash
    BY <1>8, <2>7
  <2> QED
    BY <2>1, <2>2, <2>3, <2>4, <2>5, <2>6, <2>7, StoreKinds
<1>12. ASSUME NEW w \in Warmers, warm'[w].pc \in {"create", "paused"}
       PROVE  backend'[warm'[w].id] # "none"
  <2>1. warm'[w].id = warm[w].id
    BY <1>12, WarmUpCreates
  <2>2. CASE LaunchSaved(w) /\ Done /\ warm[w].pc = "saving"
    <3>1. queue # <<>> /\ Head(queue) \in Calls /\ Head(queue).by = <<"warm", w>>
      BY <1>1, <2>2 DEF LaunchSaved, Mine, Calls
    <3>2. Head(queue).id = warm[w].id /\ Head(queue).op = "warming" /\ Head(queue).id \in Slots
      BY <1>1, <1>2, <2>2, <3>1 DEF PIInv, Matched, MatchWarm
    <3> QED
      BY <1>1, <2>1, <2>2, <3>2 DEF Done
  <2>3. CASE warm[w].pc \in {"create", "paused"}
    <3>1. /\ backend[warm[w].id] # "none" /\ WarmAlone(w) /\ warm[w].id \in VMs
          /\ warm[w].pc \in Exclusive /\ warm[w].pc # "idle"
      BY <1>3, <2>3, NoVMs DEF Rooted, PIInv, WarmOK, Exclusive, Owning
    <3>2. \A e \in Calls : e.id # warm[w].id
      BY <2>3, <3>1 DEF WarmAlone, PIInv, Matched, MatchWarm
    <3>3. ~recover
      BY <1>7, <3>1, NothingSavedYet DEF Early
    <3>4. \A h \in Calls : Finishes(h) \/ Fails(h) => backend'[warm[w].id] = backend[warm[w].id]
      BY <1>1, <3>1, <3>2, HeadFacts
    <3>5. backend'[warm[w].id] = backend[warm[w].id]
      BY <1>4, <1>5, <1>6, <1>8, <1>9, <3>3, <3>4, StoreKinds
    <3> QED
      BY <2>1, <3>1, <3>5
  <2> QED
    BY <1>12, <2>2, <2>3, WarmUpCreates
<1>13. filler \in Early =>
         /\ \A h \in Calls : Finishes(h) \/ Fails(h) => records' = records
         /\ \A h \in Calls : (Finishes(h) \/ Fails(h)) /\ records[h.id] # "none" => FALSE
         /\ ~ \E w \in Warmers : Readies(w)
  BY NothingSavedYet, HeadFacts DEF Finishes, Fails, Readies
<1>14. filler' = "new" => \A v \in VMs : records'[v] = "none"
  <2>1. CASE Crash
    BY <1>1, <1>8, <2>1
  <2>2. CASE filler = "new" /\ ~Crash
    <3>1. ~recover /\ ~(\E w \in Warmers : Readies(w)) /\ \A v \in VMs : records[v] = "none"
      BY <1>7, <1>13, <2>2 DEF Early, Rooted
    <3> QED
      BY <1>1, <1>4, <1>5, <1>9, <1>13, <2>2, <3>1, StoreKinds DEF Early
  <2> QED
    BY <2>1, <2>2, Beginnings
<1>15. sweep'.pc = "recover" => \A v \in sweep'.ids : records'[v] = "none"
  <2>1. CASE start
    <3>1. filler = "new" /\ records' = records
      BY <2>1 DEF start, store
    <3>2. sweep'.ids \subseteq VMs
      <4>1. sweep'.ids = {v \in Slots : backend[v] # "none" /\ ownsSlot(v)}
        BY <2>1 DEF start, NoSweep
      <4> QED
        BY <1>1, <4>1 DEF ownsSlot
    <3> QED
      BY <3>1, <3>2 DEF Rooted
  <2>2. CASE recover
    BY <1>1, <1>7, <2>2 DEF Rooted
  <2>3. CASE sweep.pc = "recover" /\ sweep' = sweep /\ ~recover
    <3>1. filler \in Early /\ \A v \in sweep.ids : records[v] = "none"
      BY <2>3 DEF PIInv, PhaseOK, Rooted, Early
    <3> QED
      BY <1>1, <1>4, <1>5, <1>8, <1>9, <1>13, <2>3, <3>1, StoreKinds
  <2> QED
    BY <2>1, <2>2, <2>3, Beginnings
<1>16. filler' \in {"new", "recover"} => \A v \in readyRecords' : backend'[v] = "ready"
  <2> SUFFICES ASSUME filler' \in {"new", "recover"}, NEW v \in Slots, records'[v] = "ready"
               PROVE  backend'[v] = "ready"
    BY DEF readyRecords
  <2>1. ~Crash
    BY <1>8
  <2>2. filler \in {"new", "recover"} /\ filler \in Early
    BY <2>1, Beginnings DEF start, Early
  <2>3. records[v] = "ready" => backend[v] = "ready"
    BY <2>2 DEF Rooted, readyRecords
  <2>4. ASSUME NEW h \in Calls, Finishes(h) \/ Fails(h)
        PROVE  backend'[v] = "ready"
    BY <1>13, <2>2, <2>3, <2>4, HeadFacts
  <2>5. CASE recover
    BY <1>1, <1>7, <2>3, <2>5
  <2> QED
    BY <1>1, <1>4, <1>5, <1>9, <1>13, <2>1, <2>2, <2>3, <2>4, <2>5, StoreKinds
<1> QED
  BY <1>10, <1>11, <1>12, <1>14, <1>15, <1>16 DEF Rooted

----------------------------------------------------------------------------
(* The account's VMs.                                                      *)

(* Where the pool lets go of a VM without terminating it, the VM has       *)
(* ended; a VM that was not launched is none.                              *)
Ended ==
    /\ \A v \in VMs : v > launched => vm[v] = "none"
    /\ \A w \in Warmers :
         /\ warm[w].id # NoVM
         /\ warm[w].pc = "failed" \/ (warm[w].pc = "forget" /\ warm[w].next = "failed")
         => vm[warm[w].id] \in Over
    /\ sweep.pc = "losing" => sweep.id \in VMs /\ vm[sweep.id] = "TERMINATED"
    /\ \A v \in VMs : sweep.listed[v] = "TERMINATED" => vm[v] = "TERMINATED"

Up == {"RUNNING", "SUSPENDED"}
VMStep ==
    \A v \in VMs :
        /\ vm[v] = "TERMINATED" => vm'[v] = "TERMINATED"
        /\ vm[v] \in Over => vm'[v] \in Over
        /\ v > launched' => vm'[v] = "none"
        /\ vm'[v] \in Up => \/ vm[v] \in Up \/ v \in held'
                            \/ v = launched + 1 /\ \E e \in Calls' : e.id = v

(* One VM that was launched changes.                                       *)
LEMMA OneVM ==
    ASSUME PIInv, Ended, launched' = launched,
           NEW x \in MaybeVM, x \in VMs => ~(x > launched),
           NEW s \in States \ {"none"}, vm' = [vm EXCEPT ![x] = s],
           \/ s = "TERMINATED" \/ (s = "LEFT" /\ vm[x] # "TERMINATED")
           \/ x \in VMs /\ vm[x] \in Up
           \/ x \in held' /\ vm[x] \notin Over
    PROVE  VMStep
<1>1. /\ vm \in [Slots -> States]
      /\ VMs \subseteq Slots /\ NoVM \notin VMs
  BY NoVMs DEF PIInv, Typed
<1> SUFFICES ASSUME NEW v \in VMs
             PROVE  /\ vm[v] = "TERMINATED" => vm'[v] = "TERMINATED"
                    /\ vm[v] \in Over => vm'[v] \in Over
                    /\ v > launched' => vm'[v] = "none"
                    /\ vm'[v] \in Up => vm[v] \in Up \/ v \in held'
  BY DEF VMStep
<1>2. CASE v # x
  BY <1>1, <1>2 DEF Ended
<1>3. CASE v = x
  BY <1>1, <1>3 DEF Up, Over, States
<1> QED
  BY <1>2, <1>3

(* A VM that was launched is terminated or left.                           *)
LEMMA VMEnds ==
    ASSUME PIInv, Ended, launched' = launched,
           NEW x \in MaybeVM, x \in VMs => ~(x > launched), Terminate(x)
    PROVE  VMStep
<1>1. PICK s \in Over : /\ vm' = [vm EXCEPT ![x] = s]
                        /\ s = "TERMINATED" \/ (s = "LEFT" /\ vm[x] # "TERMINATED")
  BY DEF Terminate, Over
<1>2. s \in States \ {"none"}
  BY DEF States, Over
<1> QED
  BY <1>1, <1>2, OneVM

(* A VM is launched.                                                       *)
LEMMA NewVM ==
    ASSUME PIInv, Ended, launched < MaxVMs, launched' = launched + 1,
           vm' = [vm EXCEPT ![launched + 1] = "RUNNING"],
           launched + 1 \in held' \/ \E e \in Calls' : e.id = launched + 1
    PROVE  VMStep
<1>1. /\ vm \in [Slots -> States]
      /\ VMs \subseteq Slots /\ NoVM \notin VMs /\ launched \in Nat
      /\ launched + 1 \in VMs /\ \A v \in VMs : v \in Nat
  BY NoVMs, NextIsUnused, PoolAssumption DEF PIInv, Typed, VMs
<1>2. vm[launched + 1] = "none"
  BY <1>1 DEF Ended
<1> SUFFICES ASSUME NEW v \in VMs
             PROVE  /\ vm[v] = "TERMINATED" => vm'[v] = "TERMINATED"
                    /\ vm[v] \in Over => vm'[v] \in Over
                    /\ v > launched' => vm'[v] = "none"
                    /\ vm'[v] \in Up => \/ vm[v] \in Up \/ v \in held'
                                        \/ v = launched + 1 /\ \E e \in Calls' : e.id = v
  BY DEF VMStep
<1>3. CASE v # launched + 1
  <2>1. v > launched' => v > launched
    BY <1>1
  <2> QED
    BY <1>1, <1>3, <2>1 DEF Ended
<1>4. CASE v = launched + 1
  BY <1>1, <1>2, <1>4 DEF Up, Over
<1> QED
  BY <1>3, <1>4

(* An ended VM stays so; a VM that comes up was up, is a client's, or was  *)
(* launched and is about to be recorded.                                   *)
LEMMA VMSteps == PIInv /\ Ended /\ Next => VMStep
<1> SUFFICES ASSUME PIInv, Ended, Next
             PROVE  VMStep
  OBVIOUS
<1> USE DEF PIInv
<1>1. /\ \A w \in Warmers : warm[w].id \in MaybeVM /\ (warm[w].id \in VMs => ~(warm[w].id > launched))
      /\ \A t \in Takers : take[t].id \in MaybeVM /\ (take[t].id \in VMs => ~(take[t].id > launched))
      /\ \A v \in sweep.ids : v \in VMs /\ v \in MaybeVM /\ ~(v > launched)
      /\ sweep.id \in MaybeVM /\ (sweep.id \in VMs => ~(sweep.id > launched))
      /\ \A e \in Calls : e.id \in VMs /\ e.id \in MaybeVM /\ ~(e.id > launched)
  <2>1. \A v \in VMs : v > launched => Unused(v)
    BY DEF Future
  <2>2. VMs \subseteq MaybeVM /\ \A v \in sweep.ids : v \in VMs
    BY DEF Typed, ForeignOK, SweepType, MaybeVM, Slots
  <2>3. \A e \in Calls : e.id \in VMs
    BY CallsTyped DEF Typed
  <2> QED
    BY <2>1, <2>2, <2>3 DEF Unused, Typed, WarmType, TakeType, SweepType
<1>2. CASE UNCHANGED <<vm, launched>>
  BY <1>2 DEF VMStep, Ended
<1>3. CASE Start
  <2>1. CASE recover
    <3>1. Least(sweep.ids) \in sweep.ids /\ launched' = launched
      BY <2>1, LeastIn DEF recover, Typed, SweepType
    <3>2. vm' = vm \/ Terminate(Least(sweep.ids))
      BY <2>1 DEF recover
    <3> QED
      BY <1>1, <1>2, <3>1, <3>2, VMEnds
  <2> QED
    BY <1>2, <1>3, <2>1 DEF Start, start, firstSweep, startFiller, account
<1>4. CASE Filler \/ Crash
  BY <1>2, <1>4 DEF Filler, runFiller, pause, wake, sweepReturns, Crash, account
<1>5. CASE Sweep
  <2>1. CASE sweepForgot
    <3>1. launched' = launched /\ (vm' = vm \/ Terminate(sweep.id))
      BY <2>1 DEF sweepForgot
    <3> QED
      BY <1>1, <1>2, <3>1, VMEnds
  <2>2. CASE reconcile
    <3>1. Least(sweep.ids) \in sweep.ids /\ launched' = launched
      BY <2>2, LeastIn DEF reconcile, Typed, SweepType
    <3>2. \/ vm' = vm
          \/ vm[Least(sweep.ids)] = "RUNNING" /\ vm' = [vm EXCEPT ![Least(sweep.ids)] = "SUSPENDED"]
      BY <2>2 DEF reconcile
    <3> QED
      BY <1>1, <1>2, <3>1, <3>2, OneVM DEF Up, States
  <2> QED
    BY <1>2, <1>5, <2>1, <2>2 DEF Sweep, recycleStale, listedStates, reconcileBegins, sweepEnds,
                                  account
<1>6. CASE Close \/ closeCalled
  <2>1. CASE drained
    <3>1. launched' = launched /\ (vm' = vm \/ Terminate(Head(queue).id))
      BY <2>1 DEF drained
    <3>2. Head(queue) \in Calls
      BY <2>1 DEF drained, Mine, Calls, Typed
    <3> QED
      BY <1>1, <1>2, <3>1, <3>2, VMEnds
  <2> QED
    BY <1>2, <1>6, <2>1 DEF Close, closeCalled, warmUpsSettled, drainSlot, closed, account
<1>7. CASE Outside
  <2>1. launched' = launched
    BY <1>7 DEF Outside
  <2>2. \/ vm' = vm
        \/ \E v \in VMs : \E s \in {"RUNNING", "TERMINATED"} :
             vm[v] \in Up /\ vm' = [vm EXCEPT ![v] = s]
    BY <1>7 DEF Outside, Up
  <2>3. \A v \in VMs : vm[v] \in Up => ~(v > launched) /\ v \in MaybeVM
    BY DEF Ended, Up, MaybeVM
  <2> QED
    BY <1>2, <2>1, <2>2, <2>3, OneVM DEF States, Over
<1>8. ASSUME NEW w \in Warmers, WarmUp(w)
      PROVE  VMStep
  <2>1. CASE recordLaunch(w)
    <3>1. launched < MaxVMs /\ launched' = launched + 1 /\ vm' = [vm EXCEPT ![launched + 1] = "RUNNING"]
      BY <2>1 DEF recordLaunch
    <3>2. launched + 1 \in VMs
      BY <3>1, NextIsUnused
    <3>3. [op |-> "warming", id |-> launched + 1, by |-> <<"warm", w>>] \in Calls'
      <4>1. [op |-> "warming", id |-> launched + 1, by |-> <<"warm", w>>] \in Entry
        BY <3>2, Names DEF Entry, RecordState
      <4> QED
        BY <2>1, <4>1, AppendCalls DEF recordLaunch, Call, Typed
    <3> QED
      BY <3>1, <3>3, NewVM
  <2>2. ASSUME launched' = launched, Terminate(warm[w].id)
        PROVE  VMStep
    BY <1>1, <2>2, VMEnds
  <2>3. CASE LaunchSaved(w)
    BY <1>2, <2>2, <2>3 DEF LaunchSaved
  <2>4. CASE createAndPark(w)
    <3>1. launched' = launched
      BY <2>4 DEF createAndPark
    <3>2. CASE vm[warm[w].id] = "RUNNING" /\ vm' = [vm EXCEPT ![warm[w].id] = "SUSPENDED"]
      <4>1. warm[w].id \in VMs
        BY <2>4 DEF createAndPark, WarmOK, Owning, Typed, WarmType, MaybeVM
      <4> QED
        BY <1>1, <3>1, <3>2, <4>1, OneVM DEF Up, States
    <3> QED
      BY <1>2, <2>2, <2>4, <3>1, <3>2 DEF createAndPark
  <2>5. CASE warmUpEnds(w)
    BY <1>2, <2>2, <2>5 DEF warmUpEnds, Ends
  <2> QED
    BY <1>2, <1>8, <2>1, <2>3, <2>4, <2>5
       DEF WarmUp, acquire, launchFails, recordReady, ReadySaved, warmUpFailed, forgetDone, account
<1>9. ASSUME NEW t \in Takers, Take(t) \/ CallTake(t)
      PROVE  VMStep
  <2>1. ASSUME launched' = launched, Terminate(take[t].id)
        PROVE  VMStep
    BY <1>1, <2>1, VMEnds
  <2>2. CASE resumeSlot(t)
    <3>1. launched' = launched /\ take[t].id \in VMs
      BY <2>2 DEF resumeSlot, TakeOK, Typed, TakeType, MaybeVM
    <3>2. CASE vm[take[t].id] = "SUSPENDED" /\ vm' = [vm EXCEPT ![take[t].id] = "RUNNING"]
      BY <1>1, <3>1, <3>2, OneVM DEF Up, States
    <3> QED
      BY <2>1, <2>2, <3>1, <3>2 DEF resumeSlot
  <2>3. CASE openSlot(t)
    <3>1. launched' = launched
      BY <2>3 DEF openSlot
    <3>2. CASE /\ vm[take[t].id] \notin Over /\ vm' = [vm EXCEPT ![take[t].id] = "RUNNING"]
               /\ held' = held \cup {take[t].id}
      BY <1>1, <3>1, <3>2, OneVM DEF States
    <3> QED
      BY <2>1, <2>3, <3>1, <3>2 DEF openSlot
  <2>4. CASE fallback(t)
    BY <1>2, <2>4, NewVM DEF fallback
  <2> QED
    BY <1>2, <1>9, <2>2, <2>3, <2>4
       DEF Take, CallTake, takeCalled, popReady, waitForWake, slotDeleted, account
<1> QED
  BY <1>3, <1>4, <1>5, <1>6, <1>7, <1>8, <1>9 DEF Next

(* A warm-up that changes by a step that is not its own is a new one, or   *)
(* died with the process.                                                  *)
LEMMA WarmMoves ==
    ASSUME PIInv, Next, NEW w \in Warmers
    PROVE  \/ warm'[w] = warm[w]
           \/ WarmUp(w)
           \/ (warm[w].pc = "idle" \/ Crash) /\ warm'[w].pc \in {"idle", "queued"}
<1>1. warm \in [Warmers -> WarmType]
  BY DEF PIInv, Typed
<1>2. CASE Start \/ Sweep \/ Close \/ closeCalled \/ Outside
  BY <1>2 DEF Start, start, recover, firstSweep, startFiller, Sweep, Close, closeCalled, Outside,
              warming
<1>3. CASE Filler
  <2>1. \/ warm' = warm
        \/ warm' = [u \in Warmers |-> IF u \in Submitted
                                      THEN [Idle EXCEPT !.pc = "queued"] ELSE warm[u]]
    BY <1>3 DEF Filler, runFiller, pause, wake, sweepReturns, warming
  <2>2. \/ warm'[w] = [Idle EXCEPT !.pc = "queued"] /\ w \in Submitted
        \/ warm'[w] = warm[w]
    BY <2>1
  <2> QED
    BY <2>2, SubmittedIdle DEF Idle
<1>4. CASE Crash
  BY <1>4 DEF Crash, NewProcess, Idle
<1>5. ASSUME NEW u \in Warmers, u # w, WarmUp(u)
      PROVE  warm'[w] = warm[w]
  <2>1. \/ \E pc : To(u, pc)
        \/ \E x : warm' = [warm EXCEPT ![u].pc = "saving", ![u].id = x]
        \/ \E x : warm' = [warm EXCEPT ![u].pc = "forget", ![u].next = x]
        \/ warm' = [warm EXCEPT ![u] = Idle]
    BY <1>5 DEF WarmUp, acquire, recordLaunch, launchFails, LaunchSaved, createAndPark, recordReady,
         ReadySaved, warmUpFailed, AfterForget, forgetDone, warmUpEnds, Ends
  <2> QED
    BY <1>1, <1>5, <2>1 DEF To
<1>6. ASSUME NEW t \in Takers, Take(t) \/ CallTake(t)
      PROVE  warm' = warm
  BY <1>6 DEF Take, CallTake, warming
<1> QED
  BY <1>2, <1>3, <1>4, <1>5, <1>6 DEF Next

(* A sweep that changes by a step that is not its own begins, or died.     *)
LEMMA SweepMoves ==
    ASSUME PIInv, Next
    PROVE  \/ sweep' = sweep
           \/ Sweep
           \/ sweep'.pc # "losing" /\ \A v \in Slots : sweep'.listed[v] = "absent"
           \/ recover
<1>1. CASE Start \/ Filler \/ Crash
  <2>1. \/ sweep' \in {sweep, NoSweep, SweepBegins} \/ recover
        \/ \E S : sweep' = [NoSweep EXCEPT !.pc = "recover", !.ids = S]
    BY <1>1 DEF Start, start, firstSweep, startFiller, Filler, runFiller, pause, wake, sweepReturns, Crash
  <2>2. ASSUME NEW S, NEW pc \in {"recover", "recycle"}, NEW n,
               sweep' = [NoSweep EXCEPT !.pc = pc, !.ids = S, !.now = n]
        PROVE  sweep'.pc # "losing" /\ \A v \in Slots : sweep'.listed[v] = "absent"
    BY <2>2 DEF NoSweep
  <2>3. ASSUME NEW S, sweep' = [NoSweep EXCEPT !.pc = "recover", !.ids = S]
        PROVE  sweep'.pc # "losing" /\ \A v \in Slots : sweep'.listed[v] = "absent"
    BY <2>3 DEF NoSweep
  <2>4. sweep' = NoSweep => sweep'.pc # "losing" /\ \A v \in Slots : sweep'.listed[v] = "absent"
    BY DEF NoSweep
  <2> QED
    BY <2>1, <2>2, <2>3, <2>4 DEF SweepBegins
<1>2. CASE Close \/ closeCalled \/ Outside
  BY <1>2 DEF Close, closeCalled, Outside
<1>3. ASSUME NEW w \in Warmers, WarmUp(w)
      PROVE  sweep' = sweep
  BY <1>3 DEF WarmUp
<1>4. ASSUME NEW t \in Takers, Take(t) \/ CallTake(t)
      PROVE  sweep' = sweep
  BY <1>4 DEF Take, CallTake
<1> QED
  BY <1>1, <1>2, <1>3, <1>4 DEF Next

(* The conjuncts of Ended are kept by every step.                          *)
LEMMA EndedStep == PIInv /\ Ended /\ Next => Ended'
<1> SUFFICES ASSUME PIInv, Ended, Next
             PROVE  Ended'
  OBVIOUS
<1>1. VMStep
  BY VMSteps
<1>2. /\ vm \in [Slots -> States]
      /\ warm \in [Warmers -> WarmType] /\ sweep \in SweepType /\ VMs \subseteq Slots
      /\ \A w \in Warmers : warm[w].id \in MaybeVM
  BY NoVMs DEF PIInv, Typed, WarmType
<1>3. ASSUME NEW w \in Warmers, warm'[w].id # NoVM,
             warm'[w].pc = "failed" \/ (warm'[w].pc = "forget" /\ warm'[w].next = "failed")
      PROVE  vm'[warm'[w].id] \in Over
  <2>1. ASSUME warm'[w].id = warm[w].id, vm[warm[w].id] \in Over
        PROVE  vm'[warm'[w].id] \in Over
    <3>1. warm[w].id \in VMs
      BY <1>2, <1>3, <2>1 DEF MaybeVM
    <3> QED
      BY <1>1, <2>1, <3>1 DEF VMStep
  <2>2. CASE warm'[w] = warm[w]
    BY <1>3, <2>1, <2>2 DEF Ended
  <2>3. ASSUME Terminate(warm[w].id), warm'[w].id = warm[w].id
        PROVE  vm'[warm'[w].id] \in Over
    <3>1. warm[w].id \in Slots
      BY <1>2, <1>3, <2>3 DEF MaybeVM
    <3> QED
      BY <1>2, <2>3, <3>1, Terminated
  <2>4. CASE WarmUp(w)
    <3>1. ASSUME NEW pc \in WarmPc \ {"forget"}, To(w, pc)
          PROVE  pc = "failed" /\ warm'[w].id = warm[w].id
      <4>1. warm'[w].pc = pc /\ warm'[w].id = warm[w].id
        BY <1>2, <3>1, WarmTo
      <4> QED
        BY <1>3, <4>1
    <3>2. CASE launchFails(w)
      BY <1>3, <3>1, <3>2 DEF launchFails, PIInv, WarmOK, WarmPc
    <3>3. CASE LaunchSaved(w)
      BY <2>3, <3>1, <3>3 DEF LaunchSaved, WarmPc
    <3>4. CASE createAndPark(w)
      BY <2>3, <3>1, <3>4 DEF createAndPark, WarmPc
    <3>5. CASE warmUpFailed(w)
      <4>1. CASE warm' = [warm EXCEPT ![w].pc = "forget", ![w].next = warm[w].pc]
        <5>1. warm'[w].id = warm[w].id /\ warm'[w].next = warm[w].pc /\ warm'[w].pc = "forget"
          BY <1>2, <4>1 DEF WarmType
        <5> QED
          BY <1>3, <2>1, <5>1 DEF Ended
      <4>2. CASE AfterForget(w, warm[w].pc)
        BY <3>1, <3>5, <4>2, ForgottenForms DEF AfterForget, warmUpFailed, WarmPc
      <4> QED
        BY <3>5, <4>1, <4>2 DEF warmUpFailed
    <3>6. CASE forgetDone(w)
      <4>1. warm[w].next \in {"discard", "failed", "parkFailed"}
        BY <1>2, <3>6 DEF forgetDone, PIInv, WarmOK, WarmType
      <4> QED
        BY <3>1, <3>6, <4>1, ForgottenForms DEF AfterForget, forgetDone, WarmPc
    <3>7. CASE recordLaunch(w)
      BY <1>2, <1>3, <3>7 DEF recordLaunch, WarmType
    <3>8. CASE acquire(w) \/ recordReady(w) \/ ReadySaved(w)
      BY <3>1, <3>8 DEF acquire, recordReady, ReadySaved, WarmPc
    <3>9. CASE warmUpEnds(w)
      BY <1>2, <1>3, <3>9 DEF warmUpEnds, Ends, Idle
    <3> QED
      BY <2>4, <3>2, <3>3, <3>4, <3>5, <3>6, <3>7, <3>8, <3>9 DEF WarmUp
  <2> QED
    BY <1>3, <2>2, <2>4, WarmMoves
<1>4. ASSUME sweep'.pc = "losing"
      PROVE  sweep'.id \in VMs /\ vm'[sweep'.id] = "TERMINATED"
  <2>1. CASE sweep'.id = sweep.id /\ sweep.pc = "losing"
    BY <1>1, <2>1 DEF Ended, VMStep
  <2>2. CASE Sweep
    <3>1. ASSUME NEW v \in Slots, sweep' = [sweep EXCEPT !.ids = @ \ {v}]
          PROVE  sweep'.id \in VMs /\ vm'[sweep'.id] = "TERMINATED"
      <4>1. sweep'.pc = sweep.pc /\ sweep'.id = sweep.id
        BY <1>2, <3>1 DEF SweepType
      <4> QED
        BY <1>4, <2>1, <4>1
    <3>2. CASE recycleStale
      <4>1. Least(sweep.ids) \in Slots
        BY <1>2, <3>2, LeastIn DEF recycleStale, SweepType
      <4>2. \/ sweep' = [sweep EXCEPT !.ids = @ \ {Least(sweep.ids)}]
            \/ sweep'.pc = "recycling"
        BY <1>2, <3>2 DEF recycleStale, SweepForgets, SweepType
      <4> QED
        BY <1>4, <3>1, <4>1, <4>2
    <3>3. CASE reconcile
      <4>1. Least(sweep.ids) \in Slots /\ Least(sweep.ids) \in VMs
        BY <1>2, <3>3, LeastIn DEF reconcile, PIInv, ForeignOK, SweepType, Slots
      <4>2. \/ sweep' = [sweep EXCEPT !.ids = @ \ {Least(sweep.ids)}]
            \/ /\ SweepForgets(Least(sweep.ids), "losing") /\ vm' = vm
               /\ \/ reconcileAction(sweep.listed[Least(sweep.ids)]) = "drop"
                  \/ vm[Least(sweep.ids)] = "TERMINATED"
        BY <3>3 DEF reconcile
      <4>3. \A s \in {"absent", "none", "RUNNING", "SUSPENDED", "TERMINATED"} :
              reconcileAction(s) = "drop" => s = "TERMINATED"
        BY DEF reconcileAction
      <4>4. sweep.listed[Least(sweep.ids)] \in {"absent", "none", "RUNNING", "SUSPENDED", "TERMINATED"}
        BY <1>2, <4>1 DEF SweepType
      <4>5. CASE SweepForgets(Least(sweep.ids), "losing") /\ vm' = vm /\ vm[Least(sweep.ids)] = "TERMINATED"
        <5>1. \/ sweep' = [sweep EXCEPT !.ids = @ \ {Least(sweep.ids)}]
              \/ sweep'.id = Least(sweep.ids)
          BY <1>2, <4>5 DEF SweepForgets, SweepType
        <5> QED
          BY <3>1, <4>1, <4>5, <5>1
      <4> QED
        BY <3>1, <4>1, <4>2, <4>3, <4>4, <4>5 DEF Ended
    <3>4. ASSUME NEW pc \in {"recycle", "reconcile", "listed"}, NEW a, NEW b, NEW c,
                 \/ sweep' = [sweep EXCEPT !.pc = pc, !.id = a]
                 \/ sweep' = [sweep EXCEPT !.pc = pc, !.ids = b]
                 \/ sweep' = [sweep EXCEPT !.pc = pc, !.listed = c]
                 \/ sweep' = NoSweep
          PROVE  FALSE
      <4>1. sweep'.pc = pc \/ sweep'.pc = "idle"
        <5>1. CASE sweep' = [sweep EXCEPT !.pc = pc, !.id = a]
          BY <1>2, <5>1 DEF SweepType
        <5>2. CASE sweep' = [sweep EXCEPT !.pc = pc, !.ids = b]
          BY <1>2, <5>2 DEF SweepType
        <5>3. CASE sweep' = [sweep EXCEPT !.pc = pc, !.listed = c]
          BY <1>2, <5>3 DEF SweepType
        <5>4. CASE sweep' = NoSweep
          BY <5>4, SweepForms
        <5> QED
          BY <3>4, <5>1, <5>2, <5>3, <5>4
      <4> QED
        BY <1>4, <4>1
    <3>5. ~sweepForgot
      BY <3>4 DEF sweepForgot
    <3>6. ~listedStates
      BY <3>4 DEF listedStates
    <3>7. ~reconcileBegins /\ ~sweepEnds
      BY <3>4 DEF reconcileBegins, sweepEnds
    <3> QED
      BY <2>2, <3>2, <3>3, <3>5, <3>6, <3>7 DEF Sweep
  <2>3. CASE recover
    BY <1>2, <1>4, <2>3 DEF recover, SweepType
  <2> QED
    BY <1>4, <2>1, <2>2, <2>3, SweepMoves
<1>5. ASSUME NEW v \in VMs, sweep'.listed[v] = "TERMINATED"
      PROVE  vm'[v] = "TERMINATED"
  <2>1. sweep'.listed[v] = sweep.listed[v] \/ vm[v] = "TERMINATED"
    <3>1. CASE Sweep /\ ~listedStates
      <4>1. sweep'.listed = sweep.listed \/ sweep' = NoSweep
        BY <1>2, <3>1 DEF Sweep, recycleStale, SweepForgets, sweepForgot, reconcileBegins, reconcile,
                          sweepEnds, SweepType
      <4> QED
        BY <1>2, <1>5, <4>1 DEF NoSweep
    <3>2. CASE listedStates
      <4>1. sweep' = NoSweep => sweep'.listed[v] = "absent"
        BY <1>2 DEF NoSweep
      <4>2. ASSUME NEW gone, sweep' = [sweep EXCEPT !.pc = "listed", !.listed =
                [x \in Slots |-> IF x \in gone THEN "absent" ELSE Shown(vm[x])]]
            PROVE  vm[v] = "TERMINATED"
        <5>1. sweep'.listed = [x \in Slots |-> IF x \in gone THEN "absent" ELSE Shown(vm[x])]
          BY <1>2, <4>2 DEF SweepType
        <5> QED
          BY <1>2, <1>5, <5>1 DEF Shown
      <4> QED
        BY <1>5, <3>2, <4>1, <4>2 DEF listedStates
    <3>3. CASE recover
      BY <1>2, <3>3 DEF recover, SweepType
    <3> QED
      BY <1>2, <1>5, <3>1, <3>2, <3>3, SweepMoves
  <2> QED
    BY <1>1, <1>5, <2>1 DEF Ended, VMStep
<1>6. \A v \in VMs : v > launched' => vm'[v] = "none"
  BY <1>1 DEF VMStep
<1> QED
  BY <1>3, <1>4, <1>5, <1>6 DEF Ended

(* A take() that has a slot, or has failed, is moved by its own steps only.*)
LEMMA TakeMoves ==
    ASSUME PIInv, Next, NEW t \in Takers, take[t].pc \in {"resume", "open", "failed"}
    PROVE  \/ take'[t] = take[t]
           \/ resumeSlot(t) \/ openSlot(t)
           \/ Crash /\ take[t].pc # "failed"
<1>1. take \in [Takers -> TakeType]
  BY DEF PIInv, Typed
<1>2. notifyAll => take'[t] = take[t]
  BY <1>1, NotifiedTakes
<1>3. CASE Start \/ Filler \/ Outside
  BY <1>3 DEF Start, start, recover, firstSweep, startFiller, Filler, runFiller, pause, wake,
       sweepReturns, Outside
<1>4. CASE Sweep \/ Close \/ closeCalled
  BY <1>2, <1>4 DEF Sweep, recycleStale, sweepForgot, listedStates, reconcileBegins, reconcile,
       sweepEnds, Close, warmUpsSettled, drainSlot, drained, closed, closeCalled
<1>5. CASE Crash
  BY <1>5 DEF Crash
<1>6. ASSUME NEW w \in Warmers, WarmUp(w)
      PROVE  take'[t] = take[t]
  BY <1>2, <1>6 DEF WarmUp, acquire, recordLaunch, launchFails, LaunchSaved, createAndPark, recordReady,
       ReadySaved, warmUpFailed, AfterForget, forgetDone, warmUpEnds, Ends
<1>7. ASSUME NEW u \in Takers, u # t, Take(u) \/ CallTake(u)
      PROVE  take'[t] = take[t]
  <2>1. ASSUME NEW pc \in {"fallback", "resume"}, Claimed(u, pc)
        PROVE  take'[t] = take[t]
    BY <1>1, <1>7, <2>1, ClaimEnds
  <2>2. ASSUME NEW pc, TakeTo(u, pc)
        PROVE  take'[t] = take[t]
    BY <1>1, <1>7, <2>2 DEF TakeTo
  <2>3. \/ \E pc \in {"fallback", "resume"} : Claimed(u, pc)
        \/ \E pc : TakeTo(u, pc)
        \/ \E x : take' = [take EXCEPT ![u].pc = "deleting", ![u].id = x]
        \/ \E x : take' = [take EXCEPT ![u].pc = "claim", ![u].wait = x]
    BY <1>7 DEF Take, CallTake, takeCalled, popReady, waitForWake, slotDeleted, resumeSlot, openSlot,
                fallback
  <2> QED
    BY <1>1, <1>7, <2>1, <2>2, <2>3
<1>8. CASE Take(t) \/ CallTake(t)
  BY <1>8 DEF Take, CallTake, takeCalled, popReady, waitForWake, slotDeleted, fallback
<1> QED
  BY <1>3, <1>4, <1>5, <1>6, <1>7, <1>8 DEF Next

(* Somebody has the VM: a client, the backend, a call to the backend, the  *)
(* warm-up that is about to terminate it, or the take() that opens it.     *)
Kept(v) ==
    \/ v \in held
    \/ backend[v] # "none"
    \/ \E e \in Calls : e.id = v
    \/ \E w \in Warmers : warm[w].id = v /\ warm[w].pc \in {"discard", "parkFailed", "terminate"}
    \/ \E t \in Takers : take[t].id = v /\ take[t].pc \in {"resume", "open"}
NoneLost ==
    /\ crashes \in Nat
    /\ crashes = 0 => \A v \in VMs : vm[v] \in Up => Kept(v)

(* A VM is passed on from one to the next until it ends.                   *)
LEMMA KeptStep ==
    ASSUME PIInv, Rooted, Ended, Next, ~Crash, NEW v \in VMs, vm'[v] \in Up
    PROVE  Kept(v) => Kept(v)'
<1>1. /\ vm \in [Slots -> States]
      /\ backend \in [Slots -> RecordState] /\ queue \in Seq(Entry)
      /\ warm \in [Warmers -> WarmType] /\ take \in [Takers -> TakeType]
      /\ v \in Slots /\ vm'[v] \notin Over /\ v # NoVM /\ v \in MaybeVM
  BY NoVMs DEF PIInv, Typed, Up, Over, MaybeVM
<1>2. VMStep /\ vm[v] \notin Over /\ vm[v] # "TERMINATED" /\ vm'[v] # "TERMINATED"
  BY <1>1, VMSteps DEF VMStep, Over
<1>12. ~Terminate(v)
  BY <1>1, Terminated
<1>3. ASSUME NEW h \in Calls, Finishes(h), h.id = v
      PROVE  Kept(v)'
  <2>1. CASE h.op # "none"
    BY <1>3, <2>1, HeadFacts DEF Kept
  <2>2. CASE h.op = "none"
    <3>1. LetsGo(v)
      BY <1>3, <2>2 DEF Finishes
    <3> QED
      BY <1>1, <1>2, <3>1 DEF LetsGo, Ended, Kept
  <2> QED
    BY <2>1, <2>2
<1>4. ASSUME NEW h \in Calls, Fails(h), h.id = v
      PROVE  Kept(v)'
  <2>1. h.op = "none" /\ backend' = backend
    BY <1>1, <1>4 DEF Fails, Failed
  <2>2. backend[v] # "none"
    BY <1>4, <2>1 DEF Rooted
  <2> QED
    BY <2>1, <2>2 DEF Kept
<1>5. ASSUME NEW e \in Entry, queue' = Append(queue, e)
      PROVE  Calls' = Calls \cup {e}
  BY <1>1, <1>5, AppendCalls
<1>6. \/ \E h \in Calls : Finishes(h) \/ Fails(h)
      \/ Calls \subseteq Calls'
  <2>1. UNCHANGED store => Calls' = Calls
    BY DEF store, Calls
  <2>2. ASSUME NEW x \in VMs, Deletes(x)
        PROVE  Calls \subseteq Calls'
    <3>1. PICK by \in Bys : queue' = Append(queue, [op |-> "none", id |-> x, by |-> by])
      BY <2>2 DEF Deletes, Forget, Call
    <3> QED
      BY <1>5, <3>1 DEF Entry, RecordState
  <2>3. ASSUME Launches
        PROVE  Calls \subseteq Calls'
    <3>1. PICK by \in Bys : queue' = Append(queue, [op |-> "warming", id |-> launched + 1, by |-> by])
      BY <2>3 DEF Launches, Call
    <3>2. launched + 1 \in VMs
      BY <2>3, NextIsUnused DEF Launches
    <3> QED
      BY <1>5, <3>1, <3>2 DEF Entry, RecordState
  <2>4. ASSUME NEW w \in Warmers, Readies(w)
        PROVE  Calls \subseteq Calls'
    <3>1. queue' = Append(queue, [op |-> "ready", id |-> warm[w].id, by |-> <<"warm", w>>])
      BY <2>4 DEF Readies, Call
    <3>2. warm[w].id \in VMs
      BY <2>4 DEF Readies, PIInv, WarmOK, Owning, Typed, WarmType, MaybeVM
    <3> QED
      BY <1>5, <3>1, <3>2, Names DEF Entry, RecordState
  <2>5. recover => Calls = {}
    BY DEF recover, Calls
  <2> QED
    BY <2>1, <2>2, <2>3, <2>4, <2>5, StoreKinds
<1>7. CASE v \in held
  <2>1. held \subseteq held'
    BY DEF Next, Start, start, recover, firstSweep, startFiller, Filler, runFiller, pause, wake,
       sweepReturns, Sweep, Close, closeCalled, Outside, WarmUp, Take, CallTake, takeCalled, popReady,
       waitForWake, slotDeleted, resumeSlot, openSlot, fallback, ghost
  <2> QED
    BY <1>7, <2>1 DEF Kept
<1>8. CASE backend[v] # "none"
  <2>1. ASSUME NEW h \in Calls, Finishes(h) \/ Fails(h), h.id # v
        PROVE  backend'[v] = backend[v]
    BY <1>1, <2>1, HeadFacts
  <2>2. recover => backend'[v] = backend[v]
    <3>1. sweep.ids \in SUBSET Slots
      BY DEF PIInv, Typed, SweepType
    <3>2. ASSUME recover
          PROVE  LET x == Least(sweep.ids) IN
                 /\ x \in Slots
                 /\ \/ backend' = backend
                    \/ backend' = [backend EXCEPT ![x] = "none"] /\ Terminate(x)
      BY <3>1, <3>2, LeastIn DEF recover
    <3> QED
      BY <1>1, <1>12, <3>2
  <2>3. \/ \E h \in Calls : (Finishes(h) \/ Fails(h)) /\ h.id = v
        \/ backend'[v] = backend[v]
    BY <2>1, <2>2, StoreKinds DEF store, Deletes, Forget, Launches, Readies
  <2> QED
    BY <1>3, <1>4, <1>8, <2>3 DEF Kept
<1>9. ASSUME NEW e \in Calls, e.id = v
      PROVE  Kept(v)'
  <2>1. ASSUME NEW h \in Calls, Finishes(h) \/ Fails(h), h # e
        PROVE  e \in Calls'
    BY <1>9, <2>1, HeadFacts
  <2> QED
    BY <1>3, <1>4, <1>6, <1>9, <2>1 DEF Kept
<1>10. ASSUME NEW w \in Warmers, warm[w].id = v, warm[w].pc \in {"discard", "parkFailed", "terminate"}
       PROVE  Kept(v)'
  <2>1. CASE warm'[w] = warm[w]
    BY <1>10, <2>1 DEF Kept
  <2>2. CASE warmUpFailed(w)
    <3>1. CASE Forget(v, <<"warm", w>>)
      <4>1. [op |-> "none", id |-> v, by |-> <<"warm", w>>] \in Calls'
        BY <1>5, <3>1, Names DEF Forget, Call, Entry, RecordState
      <4> QED
        BY <4>1 DEF Kept
    <3>2. CASE AfterForget(w, warm[w].pc)
      <4>1. To(w, "terminate")
        BY <1>10, <2>2, <3>2 DEF AfterForget, Forgotten, warmUpFailed
      <4>2. warm'[w].id = v /\ warm'[w].pc = "terminate"
        BY <1>1, <1>10, <4>1, WarmTo DEF WarmPc
      <4> QED
        BY <4>2 DEF Kept
    <3> QED
      BY <1>10, <2>2, <3>1, <3>2 DEF warmUpFailed
  <2>3. CASE warmUpEnds(w)
    BY <1>1, <1>10, <1>12, <2>3 DEF warmUpEnds, Ends
  <2> QED
    BY <1>10, <2>1, <2>2, <2>3, WarmMoves
       DEF WarmUp, acquire, recordLaunch, launchFails, LaunchSaved, createAndPark, recordReady,
           ReadySaved, forgetDone
<1>11. ASSUME NEW t \in Takers, take[t].id = v, take[t].pc \in {"resume", "open"}
       PROVE  Kept(v)'
  <2>1. CASE take'[t] = take[t]
    BY <1>11, <2>1 DEF Kept
  <2>2. CASE resumeSlot(t)
    <3>1. TakeTo(t, "open")
      BY <1>1, <1>11, <1>12, <2>2 DEF resumeSlot
    <3>2. take'[t].id = v /\ take'[t].pc = "open"
      BY <1>1, <1>11, <3>1, OneTakes DEF Live
    <3> QED
      BY <3>2 DEF Kept
  <2>3. CASE openSlot(t)
    BY <1>1, <1>11, <1>12, <2>3 DEF openSlot, Kept
  <2> QED
    BY <1>11, <2>1, <2>2, <2>3, TakeMoves
<1> QED
  BY <1>7, <1>8, <1>9, <1>10, <1>11 DEF Kept

(* Without a crash, no VM that is up is lost.                              *)
LEMMA NoneLostStep == PIInv /\ Rooted /\ Ended /\ NoneLost /\ Next => NoneLost'
<1> SUFFICES ASSUME PIInv, Rooted, Ended, NoneLost, Next
             PROVE  NoneLost'
  OBVIOUS
<1>1. CASE Crash
  BY <1>1 DEF Crash, NoneLost
<1>2. CASE ~Crash
  <2>1. crashes' = crashes
    BY <1>2 DEF Next, Start, start, recover, firstSweep, startFiller, Filler, runFiller, pause, wake,
       sweepReturns, Sweep, Close, closeCalled, Outside, WarmUp, Take, CallTake, ghost
  <2>2. VMStep
    BY VMSteps
  <2>3. ASSUME crashes = 0, NEW v \in VMs, vm'[v] \in Up
        PROVE  Kept(v)'
    <3>1. CASE vm[v] \in Up
      BY <1>2, <2>3, <3>1, KeptStep DEF NoneLost
    <3>2. CASE v \in held' \/ \E e \in Calls' : e.id = v
      BY <3>2 DEF Kept
    <3> QED
      BY <2>2, <2>3, <3>1, <3>2 DEF VMStep
  <2> QED
    BY <2>1, <2>3 DEF NoneLost
<1> QED
  BY <1>1, <1>2

----------------------------------------------------------------------------
(* The size of the pool, in memory and in the backend.                     *)

(* What the backend has ready once it has done the first i calls, apart    *)
(* from the slots whose deletion failed.                                   *)
Saved(i) ==
    {v \in VMs \ Undeleted :
        /\ backend[v] = "ready" \/ \E j \in 1 .. i : queue[j].id = v /\ queue[j].op = "ready"
        /\ \A j \in 1 .. i : queue[j].id = v => queue[j].op # "none"}

(* Once every call is done this is ready in memory too, but for what the   *)
(* recovery has not read yet; a draining that was refused ends the pool.   *)
Mirrored ==
    closing # "rejected" /\ filler # "new" =>
        \A v \in Saved(Len(queue)) :
            records[v] = "ready" \/ (sweep.pc = "recover" /\ v \in sweep.ids)

(* Slots that are ready and of no warm-up that runs.                       *)
Parked == (readyRecords \ {warm[w].id : w \in Busy}) \ Undeleted
Sized ==
    /\ Cardinality(Parked) + inflight <= Size
    /\ \A i \in 0 .. Len(queue) : Cardinality(Saved(i)) <= Size

(* A deletion that failed stays so.                                        *)
LEMMA UndeletedGrows ==
    ASSUME PIInv, Next
    PROVE  Undeleted \subseteq Undeleted'
<1>1. \A t \in Takers : take[t].pc = "failed" => take'[t] = take[t]
  BY TakeMoves DEF resumeSlot, openSlot
<1> QED
  BY <1>1 DEF Undeleted

(* A call is queued.                                                       *)
LEMMA SavedAppend ==
    ASSUME PIInv, Next, backend' = backend, NEW e \in Entry, queue' = Append(queue, e)
    PROVE  /\ Len(queue') = Len(queue) + 1
           /\ \A i \in 0 .. Len(queue) : Saved(i)' \subseteq Saved(i)
           /\ \A i : i = Len(queue) + 1 => \A v \in Saved(i)' :
                /\ v \in Saved(Len(queue)) \/ (e.op = "ready" /\ v = e.id)
                /\ e.op = "none" => v # e.id
<1>1. /\ Len(queue') = Len(queue) + 1 /\ Len(queue) \in Nat
      /\ \A j \in 1 .. Len(queue) : queue'[j] = queue[j]
      /\ queue'[Len(queue) + 1] = e
  BY DEF PIInv, Typed
<1>2. Undeleted \subseteq Undeleted'
  BY UndeletedGrows
<1>3. ASSUME NEW i \in 0 .. Len(queue)
      PROVE  Saved(i)' \subseteq Saved(i)
  <2>1. \A j \in 1 .. i : queue'[j] = queue[j]
    BY <1>1
  <2> QED
    BY <1>2, <2>1 DEF Saved
<1>4. ASSUME NEW i, i = Len(queue) + 1, NEW v \in Saved(i)'
      PROVE  /\ v \in Saved(Len(queue)) \/ (e.op = "ready" /\ v = e.id)
             /\ e.op = "none" => v # e.id
  <2>1. /\ v \in VMs \ Undeleted
        /\ \/ backend[v] = "ready"
           \/ \E j \in 1 .. Len(queue) + 1 : queue'[j].id = v /\ queue'[j].op = "ready"
        /\ \A j \in 1 .. Len(queue) + 1 : queue'[j].id = v => queue'[j].op # "none"
    BY <1>2, <1>4 DEF Saved
  <2>2. e.op = "none" => v # e.id
    BY <1>1, <2>1
  <2>3. \A j \in 1 .. Len(queue) : queue[j].id = v => queue[j].op # "none"
    BY <1>1, <2>1
  <2>4. ASSUME ~(e.op = "ready" /\ v = e.id)
        PROVE  backend[v] = "ready" \/ \E j \in 1 .. Len(queue) : queue[j].id = v /\ queue[j].op = "ready"
    BY <1>1, <2>1, <2>4
  <2> QED
    BY <2>1, <2>2, <2>3, <2>4 DEF Saved
<1> QED
  BY <1>1, <1>3, <1>4

(* The first call is done, or fails without a trace.                       *)
LEMMA SavedTail ==
    ASSUME PIInv, Next, NEW h \in Calls,
           Finishes(h) \/ (Fails(h) /\ (h.op = "warming" \/ h.id \in Undeleted'))
    PROVE  /\ Len(queue) = Len(queue') + 1
           /\ \A i \in 0 .. Len(queue') : Saved(i)' \subseteq Saved(i + 1)
<1>1. /\ Len(queue) = Len(queue') + 1 /\ Len(queue') \in Nat /\ queue[1] = h
      /\ \A j \in 1 .. Len(queue') : queue'[j] = queue[j + 1]
      /\ DOMAIN queue' = 1 .. Len(queue')
  <2>1. queue \in Seq(Entry) /\ queue # <<>> /\ queue' = Tail(queue) /\ h = Head(queue)
    BY DEF PIInv, Typed, Finishes, Fails, Done, Failed
  <2> QED
    BY <2>1
<1>2. Undeleted \subseteq Undeleted'
  BY UndeletedGrows
<1>3. /\ \A x \in Slots \ {h.id} : backend'[x] = backend[x]
      /\ Finishes(h) => backend'[h.id] = h.op
      /\ Fails(h) => backend' = backend
      /\ VMs \subseteq Slots /\ h.op \in RecordState
  BY HeadFacts, NoVMs
<1>4. ASSUME NEW i \in 0 .. Len(queue'), NEW v \in Saved(i)'
      PROVE  v \in Saved(i + 1)
  <2>1. /\ v \in VMs /\ v \notin Undeleted'
        /\ \/ backend'[v] = "ready"
           \/ \E j \in 1 .. i : queue'[j].id = v /\ queue'[j].op = "ready"
        /\ \A j \in 1 .. i : queue'[j].id = v => queue'[j].op # "none"
    BY DEF Saved
  <2>2. h.id = v => h.op # "none" \/ backend'[v] # "ready"
    BY <1>3, <2>1 DEF Fails
  <2>3. ASSUME NEW j \in 1 .. i
        PROVE  j + 1 \in 1 .. i + 1 /\ queue'[j] = queue[j + 1]
    BY <1>1
  <2>4. backend[v] = "ready" \/ \E j \in 1 .. i + 1 : queue[j].id = v /\ queue[j].op = "ready"
    <3>1. CASE \E j \in 1 .. i : queue'[j].id = v /\ queue'[j].op = "ready"
      BY <2>3, <3>1
    <3>2. CASE backend'[v] = "ready"
      <4>1. backend[v] = "ready" \/ (h.id = v /\ h.op = "ready")
        BY <1>3, <2>1, <3>2
      <4>2. 1 \in 1 .. i + 1
        OBVIOUS
      <4> QED
        BY <1>1, <4>1, <4>2
    <3> QED
      BY <2>1, <3>1, <3>2
  <2>5. ASSUME NEW j \in 1 .. i + 1, queue[j].id = v
        PROVE  queue[j].op # "none"
    <3>1. CASE j = 1
      <4>1. h.id = v
        BY <1>1, <2>5, <3>1
      <4>2. \A k \in 1 .. i : queue'[k].id = v => queue'[k].op = "none"
        <5>1. \A k \in 1 .. i : queue'[k] \in Calls'
          <6>1. \A k \in 1 .. i : k \in DOMAIN queue'
            BY <1>1
          <6>2. Calls' = {queue'[k] : k \in DOMAIN queue'}
            BY DEF Calls
          <6> QED
            BY <6>1, <6>2
        <5> QED
          BY <4>1, <5>1, HeadFacts
      <4>3. backend'[v] = "ready"
        BY <2>1, <4>2
      <4> QED
        BY <1>1, <2>2, <3>1, <4>1, <4>3
    <3>2. CASE j # 1
      <4>1. j - 1 \in 1 .. i /\ queue[j] = queue'[j - 1]
        BY <1>1, <3>2
      <4> QED
        BY <2>1, <2>5, <4>1
    <3> QED
      BY <3>1, <3>2
  <2> QED
    BY <1>2, <2>1, <2>4, <2>5 DEF Saved
<1> QED
  BY <1>1, <1>4

(* The backend will have no slot that it would not have had, unless a      *)
(* warm-up's slot is ready.                                                *)
LEMMA SavedKinds ==
    ASSUME PIInv, Next, NEW i \in 0 .. Len(queue')
    PROVE  \/ \E j \in 0 .. Len(queue) : Saved(i)' \subseteq Saved(j)
           \/ \E w \in Warmers :
                Readies(w) /\ Saved(i)' \subseteq Saved(Len(queue)) \cup {warm[w].id}
<1>1. queue \in Seq(Entry) /\ Len(queue) \in Nat /\ VMs \subseteq Slots
      /\ backend \in [Slots -> RecordState]
  BY NoVMs DEF PIInv, Typed
<1>2. Undeleted \subseteq Undeleted'
  BY UndeletedGrows
<1>3. ASSUME queue' = queue, \A v \in VMs : backend'[v] = "ready" => backend[v] = "ready"
      PROVE  i \in 0 .. Len(queue) /\ Saved(i)' \subseteq Saved(i)
  BY <1>2, <1>3 DEF Saved
<1>4. ASSUME NEW e \in Entry, queue' = Append(queue, e), backend' = backend
      PROVE  \/ \E j \in 0 .. Len(queue) : Saved(i)' \subseteq Saved(j)
             \/ e.op = "ready" /\ Saved(i)' \subseteq Saved(Len(queue)) \cup {e.id}
  <2>1. /\ Len(queue') = Len(queue) + 1
        /\ \A k \in 0 .. Len(queue) : Saved(k)' \subseteq Saved(k)
        /\ \A k : k = Len(queue) + 1 => \A v \in Saved(k)' :
             v \in Saved(Len(queue)) \/ (e.op = "ready" /\ v = e.id)
    BY <1>4, SavedAppend
  <2>2. CASE i \in 0 .. Len(queue)
    BY <2>1, <2>2
  <2>3. CASE i = Len(queue) + 1
    BY <1>1, <2>1, <2>3
  <2> QED
    BY <1>1, <2>1, <2>2, <2>3
<1>5. CASE UNCHANGED store
  BY <1>3, <1>5 DEF store
<1>6. ASSUME NEW v \in VMs, Deletes(v)
      PROVE  \E j \in 0 .. Len(queue) : Saved(i)' \subseteq Saved(j)
  <2>1. PICK by \in Bys : Forget(v, by)
    BY <1>6 DEF Deletes
  <2>2. [op |-> "none", id |-> v, by |-> by] \in Entry
    BY DEF Entry, RecordState
  <2> QED
    BY <1>4, <2>1, <2>2 DEF Forget, Call
<1>7. ASSUME NEW h \in Calls, Finishes(h) \/ Fails(h)
      PROVE  \E j \in 0 .. Len(queue) : Saved(i)' \subseteq Saved(j)
  <2>1. CASE Finishes(h) \/ (Fails(h) /\ (h.op = "warming" \/ h.id \in Undeleted'))
    <3>1. Len(queue) = Len(queue') + 1 /\ Saved(i)' \subseteq Saved(i + 1)
      BY <2>1, SavedTail
    <3>2. Len(queue') \in Nat
      BY <1>1, <1>7 DEF Finishes, Fails, Done, Failed
    <3>3. i + 1 \in 0 .. Len(queue)
      BY <3>1, <3>2
    <3> QED
      BY <3>1, <3>3
  <2>2. CASE Fails(h) /\ Idles
    <3>1. \A e \in Calls : e.op # "ready"
      BY <2>2, SavesAreOfWarmUps DEF Idles
    <3>2. Calls' \subseteq Calls /\ backend' = backend
      BY <2>2, HeadFacts
    <3>3. \A j \in 1 .. i : queue'[j] \in Calls'
      <4>1. queue' \in Seq(Entry)
        BY <1>1, <2>2 DEF Fails, Failed
      <4>2. \A j \in 1 .. i : j \in DOMAIN queue'
        BY <4>1
      <4>3. Calls' = {queue'[k] : k \in DOMAIN queue'}
        BY DEF Calls
      <4> QED
        BY <4>2, <4>3
    <3>4. Saved(i)' \subseteq Saved(0)
      BY <1>2, <3>1, <3>2, <3>3 DEF Saved
    <3>5. 0 \in 0 .. Len(queue)
      BY <1>1
    <3> QED
      BY <3>4, <3>5
  <2> QED
    BY <1>7, <2>1, <2>2 DEF Fails
<1>8. CASE Launches
  <2>1. PICK by \in Bys : queue' = Append(queue, [op |-> "warming", id |-> launched + 1, by |-> by])
    BY <1>8 DEF Launches, Call
  <2>2. [op |-> "warming", id |-> launched + 1, by |-> by] \in Entry
    BY <1>8, NextIsUnused DEF Launches, Entry, RecordState
  <2> QED
    BY <1>4, <1>8, <2>1, <2>2 DEF Launches
<1>9. ASSUME NEW w \in Warmers, Readies(w)
      PROVE  \/ \E j \in 0 .. Len(queue) : Saved(i)' \subseteq Saved(j)
             \/ Saved(i)' \subseteq Saved(Len(queue)) \cup {warm[w].id}
  <2>1. warm[w].id \in VMs
    BY <1>9 DEF Readies, PIInv, WarmOK, Owning, Typed, WarmType, MaybeVM
  <2>2. [op |-> "ready", id |-> warm[w].id, by |-> <<"warm", w>>] \in Entry
    BY <2>1, Names DEF Entry, RecordState
  <2> QED
    BY <1>4, <1>9, <2>2 DEF Readies, Call
<1>10. CASE recover
  <2>1. /\ queue' = queue
        /\ \/ backend' = backend
           \/ backend' = [backend EXCEPT ![Least(sweep.ids)] = "none"]
    BY <1>10 DEF recover
  <2> QED
    BY <1>1, <1>3, <2>1
<1>11. CASE Crash
  <2>1. queue' = <<>> /\ backend' = backend /\ i = 0 /\ 0 \in 0 .. Len(queue)
    BY <1>1, <1>11 DEF Crash
  <2>2. Saved(i)' \subseteq Saved(0)
    BY <1>2, <2>1 DEF Saved
  <2> QED
    BY <2>1, <2>2
<1> QED
  BY <1>5, <1>6, <1>7, <1>8, <1>9, <1>10, <1>11, StoreKinds

(* The pool leaves its first phases by start() and the first sweep.        *)
LEMMA Progress ==
    ASSUME PIInv, Next, ~Crash
    PROVE  /\ filler = "new" => filler' = "new" \/ start
           /\ sweep.pc = "recover" => sweep' = sweep \/ recover \/ sweep.ids = {}
           /\ closing = "rejected" => closing' = "rejected"
<1>1. sweep.pc = "recover" => filler = "recover"
  BY DEF PIInv, PhaseOK
<1>2. CASE Start
  BY <1>1, <1>2 DEF Start, start, recover, firstSweep, startFiller, close, loop
<1>3. CASE Filler
  BY <1>1, <1>3 DEF Filler, runFiller, pause, wake, sweepReturns, close
<1>4. CASE Sweep
  BY <1>4 DEF Sweep, recycleStale, sweepForgot, listedStates, reconcileBegins, reconcile, sweepEnds,
              loop, close
<1>5. CASE Close \/ closeCalled \/ Outside
  BY <1>5 DEF Close, warmUpsSettled, drainSlot, drained, closed, closeCalled, Outside, loop, close
<1>6. ASSUME NEW w \in Warmers, WarmUp(w)
      PROVE  UNCHANGED <<filler, sweep, closing>>
  BY <1>6 DEF WarmUp, acquire, recordLaunch, launchFails, LaunchSaved, createAndPark, recordReady,
       ReadySaved, warmUpFailed, forgetDone, warmUpEnds, Ends, loop, close
<1>7. ASSUME NEW t \in Takers, Take(t) \/ CallTake(t)
      PROVE  UNCHANGED <<filler, sweep, closing>>
  BY <1>7 DEF Take, CallTake, close
<1> QED
  BY <1>2, <1>3, <1>4, <1>5, <1>6, <1>7 DEF Next

(* What the backend will have is ready in memory.                          *)
LEMMA MirroredStep == PIInv /\ Rooted /\ Mirrored /\ Next => Mirrored'
<1> SUFFICES ASSUME PIInv, Rooted, Mirrored, Next, closing' # "rejected", filler' # "new",
                    NEW v \in Saved(Len(queue))'
             PROVE  records'[v] = "ready" \/ (sweep'.pc = "recover" /\ v \in sweep'.ids)
  BY DEF Mirrored
<1>1. /\ queue \in Seq(Entry) /\ Len(queue) \in Nat /\ VMs \subseteq Slots
      /\ backend \in [Slots -> RecordState] /\ records \in [Slots -> RecordState]
      /\ sweep \in SweepType
  BY NoVMs DEF PIInv, Typed
<1>2. ~Crash
  BY DEF Crash
<1>3. PICK n : n = Len(queue')
  OBVIOUS
<1>4. v \in Saved(n)' /\ v \in VMs /\ v \in Slots /\ v \notin Undeleted /\ v \notin Undeleted'
  BY <1>1, <1>3, UndeletedGrows DEF Saved
<1>5. closing # "rejected"
  BY <1>2, Progress
<1>6. CASE start
  <2>1. filler = "new" /\ queue' = queue /\ backend' = backend
    BY <1>6 DEF start, store
  <2>2. \A j \in 1 .. n : queue[j].op = "none"
    <3>1. \A j \in 1 .. n : queue[j] \in Calls
      BY <1>1, <1>3, <2>1 DEF Calls
    <3> QED
      BY <2>1, <3>1, NothingSavedYet DEF Early
  <2>3. backend[v] = "ready"
    BY <1>4, <2>1, <2>2 DEF Saved
  <2>4. sweep'.pc = "recover" /\ sweep'.ids = {x \in Slots : backend[x] # "none" /\ ownsSlot(x)}
    BY <1>6 DEF start, NoSweep
  <2> QED
    BY <1>4, <2>3, <2>4, NoVMs DEF ownsSlot
<1>7. ~start => filler # "new"
  BY <1>2, Progress
<1>8. CASE recover
  <2>1. /\ sweep.pc = "recover" /\ queue = <<>> /\ queue' = <<>> /\ filler # "new" /\ sweep.ids # {}
        /\ sweep' = [sweep EXCEPT !.ids = @ \ {Least(sweep.ids)}]
    BY <1>8 DEF recover, PIInv, PhaseOK
  <2>2. PICK x : x = Least(sweep.ids)
    OBVIOUS
  <2>3. x \in Slots /\ sweep'.pc = "recover" /\ sweep'.ids = sweep.ids \ {x}
    BY <1>1, <2>1, <2>2, LeastIn DEF SweepType
  <2>4. \/ backend[x] = "ready" /\ backend' = backend /\ records' = [records EXCEPT ![x] = "ready"]
        \/ backend' = [backend EXCEPT ![x] = "none"] /\ records' = records
    BY <1>8, <2>2 DEF recover
  <2>5. backend'[v] = "ready"
    BY <1>3, <1>4, <2>1 DEF Saved
  <2>6. CASE v = x
    BY <1>1, <2>3, <2>4, <2>5, <2>6
  <2>7. CASE v # x
    <3>1. backend[v] = "ready" /\ records'[v] = records[v]
      BY <1>1, <1>4, <2>3, <2>4, <2>5, <2>7
    <3>2. v \in Saved(Len(queue))
      BY <1>4, <2>1, <3>1 DEF Saved
    <3> QED
      BY <1>5, <2>1, <2>3, <2>7, <3>1, <3>2 DEF Mirrored
  <2> QED
    BY <2>6, <2>7
<1>9. CASE ~start /\ ~recover
  <2>1. ASSUME v \in Saved(Len(queue)), records'[v] = records[v]
        PROVE  records'[v] = "ready" \/ (sweep'.pc = "recover" /\ v \in sweep'.ids)
    BY <1>2, <1>5, <1>7, <1>9, <2>1, Progress DEF Mirrored
  <2>2. ASSUME NEW e \in Entry, queue' = Append(queue, e), backend' = backend
        PROVE  /\ v \in Saved(Len(queue)) \/ (e.op = "ready" /\ v = e.id)
               /\ e.op = "none" => v # e.id
    BY <1>3, <1>4, <2>2, SavedAppend
  <2>3. CASE UNCHANGED store
    BY <1>3, <1>4, <2>1, <2>3 DEF Saved, store
  <2>4. ASSUME NEW x \in VMs, Deletes(x)
        PROVE  records'[v] = "ready" \/ (sweep'.pc = "recover" /\ v \in sweep'.ids)
    <3>1. PICK by \in Bys : Forget(x, by)
      BY <2>4 DEF Deletes
    <3>2. [op |-> "none", id |-> x, by |-> by] \in Entry
      BY DEF Entry, RecordState
    <3>3. v \in Saved(Len(queue)) /\ v # x
      BY <2>2, <3>1, <3>2 DEF Forget, Call
    <3>4. records'[v] = records[v]
      BY <1>1, <1>4, <3>1, <3>3 DEF Forget
    <3> QED
      BY <2>1, <3>3, <3>4
  <2>5. ASSUME NEW h \in Calls, Finishes(h) \/ Fails(h)
        PROVE  records'[v] = "ready" \/ (sweep'.pc = "recover" /\ v \in sweep'.ids)
    <3>1. Finishes(h) \/ (Fails(h) /\ (h.op = "warming" \/ h.id \in Undeleted'))
      BY <2>5 DEF Fails
    <3>2. /\ Len(queue) = Len(queue') + 1 /\ Len(queue') \in Nat
          /\ \A i \in 0 .. Len(queue') : Saved(i)' \subseteq Saved(i + 1)
      <4>1. queue # <<>> /\ queue' = Tail(queue)
        BY <2>5 DEF Finishes, Fails, Done, Failed
      <4>2. queue' \in Seq(Entry)
        BY <1>1, <4>1
      <4> QED
        BY <3>1, <4>2, SavedTail
    <3>3. v \in Saved(Len(queue))
      BY <1>3, <1>4, <3>2
    <3>4. CASE records'[v] = records[v]
      BY <2>1, <3>3, <3>4
    <3>5. CASE records'[v] # records[v]
      <4>1. v = h.id /\ h.op = "warming" /\ records[v] = "none"
        BY <1>1, <1>4, <2>5, <3>5, HeadFacts DEF Finishes, Fails
      <4>2. filler \notin Early
        BY <4>1, NothingSavedYet
      <4> QED
        BY <1>5, <3>3, <4>1, <4>2 DEF Mirrored, Early, PIInv, PhaseOK
    <3> QED
      BY <3>4, <3>5
  <2>6. CASE Launches
    <3>1. PICK by \in Bys : queue' = Append(queue, [op |-> "warming", id |-> launched + 1, by |-> by])
      BY <2>6 DEF Launches, Call
    <3>2. [op |-> "warming", id |-> launched + 1, by |-> by] \in Entry
      BY <2>6, NextIsUnused DEF Launches, Entry, RecordState
    <3> QED
      BY <2>1, <2>2, <2>6, <3>1, <3>2 DEF Launches
  <2>7. ASSUME NEW w \in Warmers, Readies(w)
        PROVE  records'[v] = "ready" \/ (sweep'.pc = "recover" /\ v \in sweep'.ids)
    <3>1. warm[w].id \in VMs
      BY <2>7 DEF Readies, PIInv, WarmOK, Owning, Typed, WarmType, MaybeVM
    <3>2. [op |-> "ready", id |-> warm[w].id, by |-> <<"warm", w>>] \in Entry
      BY <3>1, Names DEF Entry, RecordState
    <3>3. v \in Saved(Len(queue)) \/ v = warm[w].id
      BY <2>2, <2>7, <3>2 DEF Readies, Call
    <3> QED
      BY <1>1, <1>4, <2>1, <2>7, <3>1, <3>3 DEF Readies
  <2> QED
    BY <1>2, <1>9, <2>3, <2>4, <2>5, <2>6, <2>7, StoreKinds
<1> QED
  BY <1>6, <1>8, <1>9

(* The sets whose sizes are compared are finite.                           *)
LEMMA SizesFinite ==
    /\ IsFiniteSet(Slots) /\ IsFiniteSet(Warmers) /\ IsFiniteSet(Busy) /\ IsFiniteSet(readyRecords)
    /\ Size \in Nat /\ Cardinality(Busy) \in Nat /\ Cardinality(readyRecords) \in Nat
    /\ \A S \in SUBSET Slots : IsFiniteSet(S) /\ Cardinality(S) \in Nat
    /\ \A S \in SUBSET Warmers : IsFiniteSet(S) /\ Cardinality(S) \in Nat
<1>1. IsFiniteSet(Slots) /\ IsFiniteSet(Warmers) /\ Size \in Nat
  <2>1. Slots = 0 .. MaxVMs
    BY PoolAssumption DEF Slots, VMs, Foreign
  <2> QED
    BY <2>1, FS_Interval, PoolAssumption DEF Warmers
<1>2. /\ \A S \in SUBSET Slots : IsFiniteSet(S) /\ Cardinality(S) \in Nat
      /\ \A S \in SUBSET Warmers : IsFiniteSet(S) /\ Cardinality(S) \in Nat
  BY <1>1, FS_Subset, FS_CardinalityType
<1>3. readyRecords \in SUBSET Slots /\ Busy \in SUBSET Warmers
  BY DEF readyRecords, Busy
<1> QED
  BY <1>1, <1>2, <1>3

(* A set of slots is no larger than one that includes it.                  *)
LEMMA SlotsWithin ==
    ASSUME NEW T \in SUBSET Slots, NEW S \in SUBSET T
    PROVE  Cardinality(S) <= Cardinality(T)
  BY SizesFinite, FS_Subset

(* One more makes a finite set larger by one at most.                      *)
LEMMA OneMore ==
    ASSUME NEW S, NEW x, IsFiniteSet(S)
    PROVE  /\ IsFiniteSet(S \cup {x}) /\ Cardinality(S \cup {x}) \in Nat
           /\ Cardinality(S \cup {x}) <= Cardinality(S) + 1
<1>1. IsFiniteSet(S \cup {x}) /\ Cardinality(S) \in Nat
  BY FS_AddElement, FS_CardinalityType
<1>2. Cardinality(S \cup {x}) = IF x \in S THEN Cardinality(S) ELSE Cardinality(S) + 1
  BY FS_AddElement
<1> QED
  BY <1>1, <1>2

(* A warm-up with a VM runs on with it until it ends.                      *)
LEMMA BusyOn ==
    ASSUME PIInv, Next, ~Crash, NEW w \in Busy, warm[w].id # NoVM
    PROVE  (w \in Busy' /\ warm'[w].id = warm[w].id) \/ warmUpEnds(w)
<1>1. warm \in [Warmers -> WarmType] /\ w \in Warmers /\ warm[w].pc # "idle"
  BY DEF PIInv, Typed, Busy
<1>2. CASE warm'[w] = warm[w]
  BY <1>1, <1>2 DEF Busy
<1>3. ASSUME NEW pc \in WarmPc \ {"idle"}, To(w, pc)
      PROVE  w \in Busy' /\ warm'[w].id = warm[w].id
  BY <1>1, <1>3, WarmTo DEF Busy
<1>4. CASE WarmUp(w) /\ ~warmUpEnds(w)
  <2>1. CASE recordLaunch(w)
    BY <1>1, <2>1 DEF recordLaunch, PIInv, WarmOK
  <2>2. CASE warmUpFailed(w)
    <3>1. CASE warm' = [warm EXCEPT ![w].pc = "forget", ![w].next = warm[w].pc]
      <4>1. warm'[w].pc = "forget" /\ warm'[w].id = warm[w].id
        BY <1>1, <3>1 DEF WarmType
      <4> QED
        BY <1>1, <4>1 DEF Busy
    <3>2. CASE AfterForget(w, warm[w].pc)
      BY <1>3, <2>2, <3>2, ForgottenForms DEF AfterForget, warmUpFailed, WarmPc
    <3> QED
      BY <2>2, <3>1, <3>2 DEF warmUpFailed
  <2>3. CASE forgetDone(w)
    <3>1. warm[w].next \in {"discard", "failed", "parkFailed"}
      BY <1>1, <2>3 DEF forgetDone, PIInv, WarmOK, WarmType
    <3> QED
      BY <1>3, <2>3, <3>1, ForgottenForms DEF AfterForget, forgetDone, WarmPc
  <2>4. CASE acquire(w) \/ launchFails(w) \/ LaunchSaved(w) \/ ReadySaved(w)
    BY <1>3, <2>4 DEF acquire, launchFails, LaunchSaved, ReadySaved, WarmPc
  <2>5. CASE createAndPark(w) \/ recordReady(w)
    BY <1>3, <2>5 DEF createAndPark, recordReady, WarmPc
  <2> QED
    BY <1>4, <2>1, <2>2, <2>3, <2>4, <2>5 DEF WarmUp
<1> QED
  BY <1>1, <1>2, <1>4, WarmMoves

(* What is ready was, or is the slot of a warm-up that runs.               *)
LEMMA ReadyOn ==
    ASSUME PIInv, Next, ~Crash, ~recover, NEW v \in readyRecords'
    PROVE  v \in readyRecords \/ \E w \in Busy' : warm'[w].id = v
<1>1. records \in [Slots -> RecordState] /\ v \in Slots /\ records'[v] = "ready"
  BY DEF PIInv, Typed, readyRecords
<1>2. CASE records' = records
  BY <1>1, <1>2 DEF readyRecords
<1>3. ASSUME NEW x \in VMs, Deletes(x)
      PROVE  v \in readyRecords
  BY <1>1, <1>3 DEF Deletes, Forget, readyRecords
<1>4. ASSUME NEW h \in Calls, Finishes(h) \/ Fails(h)
      PROVE  v \in readyRecords
  BY <1>1, <1>4 DEF Finishes, Fails, readyRecords
<1>5. ASSUME NEW w \in Warmers, Readies(w)
      PROVE  v \in readyRecords \/ \E u \in Busy' : warm'[u].id = v
  <2>1. w \in Busy /\ warm[w].id # NoVM /\ ~warmUpEnds(w)
    BY <1>5 DEF Readies, Busy, PIInv, WarmOK, Owning, warmUpEnds, Ends
  <2>2. w \in Busy' /\ warm'[w].id = warm[w].id
    BY <2>1, BusyOn
  <2> QED
    BY <1>1, <1>5, <2>2 DEF Readies, readyRecords
<1> QED
  BY <1>2, <1>3, <1>4, <1>5, StoreKinds DEF store, Launches

(* Parked slots and warm-ups in flight stay within the size.               *)
LEMMA ParkedStep ==
    ASSUME PIInv, PIInv', Rooted', Sized, Next, Cardinality(Saved(0)') <= Size
    PROVE  Cardinality(Parked') + inflight' <= Size
<1>1. Parked \in SUBSET Slots /\ Parked' \in SUBSET Slots /\ Undeleted \subseteq Undeleted'
  BY UndeletedGrows DEF Parked, readyRecords
<1>2. /\ Cardinality(Parked) \in Nat /\ Cardinality(Parked') \in Nat /\ Size \in Nat
      /\ inflight \in Nat /\ inflight = Cardinality(Busy)
      /\ inflight' \in Nat /\ inflight' = Cardinality(Busy')
  <2>1. Busy \in SUBSET Warmers /\ Busy' \in SUBSET Warmers
    BY DEF Busy
  <2> QED
    BY <1>1, <2>1, SizesFinite DEF PIInv, Counted
<1>3. CASE Crash
  <2>1. Parked' = {} /\ inflight' = 0
    BY <1>3 DEF Crash, NewProcess, Parked, readyRecords
  <2>2. Cardinality({}) = 0
    BY FS_EmptySet
  <2> QED
    BY <1>2, <2>1, <2>2
<1>4. CASE recover
  <2>1. filler = "recover" /\ filler' = "recover" /\ inflight' = inflight /\ warm' = warm /\ queue' = <<>>
    BY <1>4 DEF recover, PIInv, PhaseOK, loop, warming
  <2>2. Busy = {}
    BY <2>1, NothingSavedYet DEF Early, Busy
  <2>3. inflight' = 0
    BY <1>2, <2>1, <2>2, FS_EmptySet
  <2>4. Parked' \subseteq Saved(0)'
    <3>1. \A v \in Parked' : v \in VMs /\ v \notin Undeleted' /\ backend'[v] = "ready"
      BY <2>1 DEF Parked, Rooted, readyRecords, PIInv, ForeignOK, Slots
    <3> QED
      BY <3>1 DEF Saved
  <2>5. Saved(0)' \in SUBSET Slots
    BY NoVMs DEF Saved
  <2>6. Cardinality(Parked') <= Cardinality(Saved(0)') /\ Cardinality(Saved(0)') \in Nat
    BY <2>4, <2>5, SlotsWithin, SizesFinite
  <2> QED
    BY <1>2, <2>3, <2>6
<1>5. ASSUME ~Crash, ~recover, \A w \in Warmers : ~warmUpEnds(w)
      PROVE  Cardinality(Parked') <= Cardinality(Parked)
  <2>1. ASSUME NEW v \in Parked'
        PROVE  v \in Parked
    <3>1. v \in readyRecords' /\ v \notin Undeleted' /\ ~ \E w \in Busy' : warm'[w].id = v
      BY DEF Parked
    <3>2. v \in readyRecords /\ v # NoVM
      BY <1>5, <3>1, ReadyOn, NoVMs DEF readyRecords
    <3>3. ~ \E w \in Busy : warm[w].id = v
      BY <1>5, <3>1, <3>2, BusyOn DEF Busy
    <3> QED
      BY <1>1, <3>1, <3>2, <3>3 DEF Parked
  <2> QED
    BY <1>1, <2>1, SlotsWithin
<1>6. ASSUME NEW w \in Warmers, warmUpEnds(w), ~Crash, ~recover
      PROVE  Cardinality(Parked') + inflight' <= Size
  <2>1. /\ inflight' = inflight - 1 /\ records' = records
        /\ \A u \in Warmers : u # w => warm'[u] = warm[u]
    BY <1>6 DEF warmUpEnds, Ends, store, PIInv, Typed
  <2>2. PICK x : x = warm[w].id
    OBVIOUS
  <2>3. Parked' \subseteq Parked \cup {x}
    BY <1>1, <2>1, <2>2 DEF Parked, readyRecords, Busy
  <2>4. IsFiniteSet(Parked)
    BY <1>1, SizesFinite
  <2>5. /\ IsFiniteSet(Parked \cup {x})
        /\ Cardinality(Parked \cup {x}) <= Cardinality(Parked) + 1
        /\ Cardinality(Parked \cup {x}) \in Nat
    BY <2>4, OneMore
  <2>6. Cardinality(Parked') <= Cardinality(Parked \cup {x})
    BY <2>3, <2>5, FS_Subset
  <2> QED
    BY <1>2, <2>1, <2>5, <2>6 DEF Sized
<1>7. ASSUME ~Crash, \A w \in Warmers : ~warmUpEnds(w)
      PROVE  \/ inflight' = inflight
             \/ inflight' = inflight + Cardinality(Submitted) /\ ~recover
  <2>1. CASE Start \/ Sweep \/ Close \/ closeCalled \/ Outside
    BY <2>1 DEF Start, start, recover, firstSweep, startFiller, Sweep, Close, closeCalled, Outside,
                warming
  <2>2. CASE Filler
    <3>1. Filler => ~recover
      BY DEF Filler, runFiller, pause, wake, sweepReturns, recover, PIInv, PhaseOK
    <3> QED
      BY <2>2, <3>1 DEF Filler, runFiller, pause, wake, sweepReturns, warming
  <2>3. ASSUME NEW w \in Warmers, WarmUp(w)
        PROVE  inflight' = inflight
    BY <1>7, <2>3 DEF WarmUp, acquire, recordLaunch, launchFails, LaunchSaved, createAndPark,
         recordReady, ReadySaved, warmUpFailed, forgetDone
  <2>4. ASSUME NEW t \in Takers, Take(t) \/ CallTake(t)
        PROVE  inflight' = inflight
    BY <2>4 DEF Take, CallTake, warming
  <2> QED
    BY <1>7, <2>1, <2>2, <2>3, <2>4 DEF Next
<1>8. CASE inflight' = inflight + Cardinality(Submitted) /\ Cardinality(Parked') <= Cardinality(Parked)
  <2>1. CASE deficit <= 0
    <3>1. Cardinality(Submitted) = 0
      BY <2>1, SubmittedIdle, FS_EmptySet
    <3> QED
      BY <1>2, <1>8, <3>1 DEF Sized
  <2>2. CASE ~(deficit <= 0)
    <3>1. Cardinality(Submitted) = Size - (Cardinality(readyRecords) + inflight)
      BY <2>2, SubmittedIdle DEF deficit
    <3>2. Cardinality(Parked) <= Cardinality(readyRecords) /\ Cardinality(readyRecords) \in Nat
      <4>1. readyRecords \in SUBSET Slots /\ Parked \in SUBSET readyRecords
        BY DEF readyRecords, Parked
      <4> QED
        BY <4>1, SlotsWithin, SizesFinite
    <3> QED
      BY <1>2, <1>8, <3>1, <3>2
  <2> QED
    BY <2>1, <2>2
<1>9. CASE inflight' = inflight /\ Cardinality(Parked') <= Cardinality(Parked)
  BY <1>2, <1>9 DEF Sized
<1> QED
  BY <1>3, <1>4, <1>5, <1>6, <1>7, <1>8, <1>9

(* What the backend has, or will have, stays within the size.              *)
LEMMA SavedStep ==
    ASSUME PIInv, Mirrored, Sized, Next, NEW i \in 0 .. Len(queue')
    PROVE  Cardinality(Saved(i)') <= Size
<1>1. \A j \in 0 .. Len(queue) : Saved(j) \in SUBSET Slots
  BY NoVMs DEF Saved
<1>2. Saved(i)' \in SUBSET Slots /\ Size \in Nat /\ Len(queue) \in Nat
  BY NoVMs, SizesFinite DEF Saved, PIInv, Typed
<1>3. ASSUME NEW j \in 0 .. Len(queue), Saved(i)' \subseteq Saved(j)
      PROVE  Cardinality(Saved(i)') <= Size
  <2>1. Cardinality(Saved(i)') <= Cardinality(Saved(j)) /\ Cardinality(Saved(j)) <= Size
    BY <1>1, <1>3, SlotsWithin DEF Sized
  <2>2. Cardinality(Saved(i)') \in Nat /\ Cardinality(Saved(j)) \in Nat
    BY <1>1, <1>2, SizesFinite
  <2> QED
    BY <1>2, <2>1, <2>2
<1>4. ASSUME NEW w \in Warmers, Readies(w), Saved(i)' \subseteq Saved(Len(queue)) \cup {warm[w].id}
      PROVE  Cardinality(Saved(i)') <= Size
  <2>1. PICK S : S = Saved(Len(queue))
    OBVIOUS
  <2>2. PICK x : x = warm[w].id
    OBVIOUS
  <2>3. /\ warm[w].pc = "paused" /\ w \in Busy /\ x \in VMs /\ x \in Slots /\ x # NoVM
        /\ x \notin readyRecords
    BY <1>4, <2>2, NoVMs DEF Readies, Busy, PIInv, WarmOK, WarmAlone, Owning, Exclusive, Typed, WarmType,
                             MaybeVM, readyRecords
  <2>4. closing # "rejected" /\ filler \notin Early /\ sweep.pc # "recover"
    BY <2>3 DEF PIInv, PhaseOK, Early
  <2>5. S \subseteq readyRecords \ Undeleted /\ S \in SUBSET Slots
    BY <1>1, <2>1, <2>4, NoVMs DEF Mirrored, Early, readyRecords, Saved
  <2> DEFINE others == Busy \ {w}
             ids == {warm[u].id : u \in others}
             f == [u \in others |-> warm[u].id]
  <2>6. S \subseteq Parked \cup ids
    BY <2>2, <2>3, <2>5 DEF Parked
  <2>7. IsFiniteSet(others) /\ Cardinality(others) = inflight - 1 /\ inflight \in Nat
    BY <2>3, SizesFinite, FS_RemoveElement DEF PIInv, Counted
  <2>8. f \in Surjection(others, ids)
    BY DEF Surjection
  <2>9. IsFiniteSet(ids) /\ Cardinality(ids) <= inflight - 1 /\ Cardinality(ids) \in Nat
    <3> HIDE DEF f, ids, others
    <3>1. IsFiniteSet(ids) /\ Cardinality(ids) <= Cardinality(others)
      BY <2>7, <2>8, FS_Surjection
    <3> QED
      BY <2>7, <3>1, FS_CardinalityType
  <2> HIDE DEF f, ids, others
  <2>10. IsFiniteSet(Parked) /\ Cardinality(Parked) \in Nat
    <3>1. Parked \in SUBSET Slots
      BY DEF Parked, readyRecords
    <3> QED
      BY <3>1, SizesFinite
  <2>11. /\ IsFiniteSet(Parked \cup ids) /\ Cardinality(Parked \cup ids) \in Nat
         /\ Cardinality(Parked \cup ids) <= Cardinality(Parked) + Cardinality(ids)
    <3>1. IsFiniteSet(Parked \cap ids)
      BY <2>9, FS_Subset
    <3>2. Cardinality(Parked \cap ids) \in Nat
      BY <3>1, FS_CardinalityType
    <3>3. /\ IsFiniteSet(Parked \cup ids)
          /\ Cardinality(Parked \cup ids) =
               Cardinality(Parked) + Cardinality(ids) - Cardinality(Parked \cap ids)
      BY <2>9, <2>10, FS_Union
    <3>4. Cardinality(Parked \cup ids) \in Nat
      BY <3>3, FS_CardinalityType
    <3> QED
      BY <2>9, <2>10, <3>2, <3>3, <3>4
  <2>12. Cardinality(S) <= Cardinality(Parked \cup ids) /\ Cardinality(S) \in Nat /\ IsFiniteSet(S)
    BY <2>5, <2>6, <2>11, FS_Subset, SizesFinite
  <2>13. Cardinality(S) + 1 <= Size
    BY <1>2, <2>7, <2>9, <2>10, <2>11, <2>12 DEF Sized
  <2>14. S \cup {x} \in SUBSET Slots /\ Saved(i)' \in SUBSET (S \cup {x})
    BY <1>4, <2>1, <2>2, <2>3, <2>5
  <2>15. Cardinality(S \cup {x}) <= Cardinality(S) + 1
    BY <2>12, OneMore
  <2>16. /\ Cardinality(Saved(i)') <= Cardinality(S \cup {x})
         /\ Cardinality(S \cup {x}) \in Nat /\ Cardinality(Saved(i)') \in Nat
    BY <1>2, <2>14, SlotsWithin, SizesFinite
  <2> QED
    BY <1>2, <2>12, <2>13, <2>15, <2>16
<1> QED
  BY <1>3, <1>4, SavedKinds

----------------------------------------------------------------------------
(* The whole inductive invariant, and what it implies.                     *)

PoolInv == PIInv /\ Permits /\ Clock /\ Rooted /\ Ended /\ NoneLost /\ Mirrored /\ Sized

(* It holds of a new pool.                                                 *)
LEMMA PoolBegins == Init => PoolInv
<1> SUFFICES ASSUME Init
             PROVE  PoolInv
  OBVIOUS
<1>1. PIInv
  BY PoolStarts
<1>2. /\ queue = <<>> /\ launched = 0 /\ wall = 0 /\ held = {} /\ crashes = 0 /\ inflight = 0
      /\ free = FillConcurrency /\ filler = "new"
      /\ records = [v \in Slots |-> "none"] /\ warm = [w \in Warmers |-> Idle]
      /\ backend = [v \in Slots |-> IF v = Foreign THEN "ready" ELSE "none"]
      /\ vm = [v \in Slots |-> IF v = Foreign THEN "SUSPENDED" ELSE "none"]
      /\ sweep = NoSweep
  BY DEF Init, NewProcess
<1>3. Calls = {} /\ Len(queue) = 0
  BY <1>2 DEF Calls
<1>4. /\ VMs \subseteq Slots /\ Foreign \notin VMs /\ Cardinality({}) = 0
      /\ Size \in Nat /\ FillConcurrency \in Nat
  BY NoVMs, FS_EmptySet, PoolAssumption
<1>5. \A w \in Warmers : warm[w].pc = "idle" /\ warm[w].id = NoVM
  BY <1>2 DEF Idle
<1>6. Permits
  <2>1. Holders = {}
    BY <1>5 DEF Holders
  <2> QED
    BY <1>2, <1>4, <2>1 DEF Permits
<1>7. Clock /\ NoneLost
  BY <1>2, <1>4 DEF Clock, NoneLost, Up
<1>8. sweep.pc = "idle" /\ \A v \in VMs : sweep.listed[v] = "absent"
  BY <1>2, <1>4 DEF NoSweep
<1>9. Rooted
  BY <1>2, <1>3, <1>4, <1>5, <1>8 DEF Rooted, readyRecords
<1>10. Ended
  BY <1>2, <1>4, <1>5, <1>8 DEF Ended
<1>11. Mirrored
  BY <1>2 DEF Mirrored
<1>12. Sized
  <2>1. Parked = {} /\ Saved(0) = {}
    BY <1>2, <1>4 DEF Parked, readyRecords, Saved
  <2>2. \A i \in 0 .. Len(queue) : i = 0
    BY <1>3
  <2>3. Cardinality(Parked) + inflight <= Size
    BY <1>2, <1>4, <2>1
  <2>4. Cardinality(Saved(0)) <= Size
    BY <1>4, <2>1
  <2> QED
    BY <2>2, <2>3, <2>4 DEF Sized
<1> QED
  BY <1>1, <1>6, <1>7, <1>9, <1>10, <1>11, <1>12 DEF PoolInv

(* Every step keeps it.                                                    *)
LEMMA PoolStep == PoolInv /\ [Next]_vars => PoolInv'
<1>1. ASSUME PoolInv, Next
      PROVE  PoolInv'
  <2> USE <1>1 DEF PoolInv
  <2>1. PIInv'
    BY NextKeeps
  <2>2. Permits' /\ Clock' /\ Rooted' /\ Ended' /\ NoneLost' /\ Mirrored'
    BY PermitsStep, ClockStep, RootedStep, EndedStep, NoneLostStep, MirroredStep
  <2>3. \A i \in 0 .. Len(queue') : Cardinality(Saved(i)') <= Size
    BY SavedStep
  <2>4. 0 \in 0 .. Len(queue')
    BY <2>1 DEF PIInv, Typed
  <2>5. Cardinality(Parked') + inflight' <= Size
    BY <2>1, <2>2, <2>3, <2>4, ParkedStep
  <2>6. Sized'
    BY <2>3, <2>5 DEF Sized
  <2> QED
    BY <2>1, <2>2, <2>6
<1>2. ASSUME PoolInv, UNCHANGED vars
      PROVE  PoolInv'
  <2> USE <1>2 DEF PoolInv
  <2>1. UNCHANGED <<vm, launched, wall, records, backend, queue, filler, warm, inflight, free, take,
                    sweep, closing, held, crashes>>
    BY DEF vars, account, store, loop, warming, close, ghost
  <2>2. PIInv'
    BY StutterKeeps
  <2>3. Calls' = Calls /\ readyRecords' = readyRecords /\ Undeleted' = Undeleted /\ Busy' = Busy
    BY <2>1 DEF Calls, readyRecords, Undeleted, Busy
  <2>4. Permits' /\ Clock'
    BY <2>1 DEF Permits, Holders, Clock
  <2>5. Rooted'
    BY <2>1, <2>3 DEF Rooted
  <2>6. Ended'
    BY <2>1 DEF Ended
  <2>7. NoneLost'
    BY <2>1, <2>3 DEF NoneLost, Kept
  <2>8. \A i : Saved(i)' = Saved(i)
    BY <2>1, <2>3 DEF Saved
  <2>9. Mirrored' /\ Sized'
    BY <2>1, <2>3, <2>8 DEF Mirrored, Sized, Parked
  <2> QED
    BY <2>2, <2>4, <2>5, <2>6, <2>7, <2>9
<1> QED
  BY <1>1, <1>2

(* Parked slots and warm-ups are never more than the size, and neither are *)
(* the slots that a restarted pool would find.                             *)
LEMMA PoolFits == PoolInv => TypeOK /\ NoOverfill
<1> SUFFICES ASSUME PoolInv
             PROVE  TypeOK /\ NoOverfill
  OBVIOUS
<1> USE DEF PoolInv
<1>1. inflight = Cardinality(Busy) /\ Len(queue) \in Nat
  BY DEF PIInv, Counted, Typed
<1>2. NoOverfill
  <2>1. {v \in VMs : backend[v] = "ready"} \ Undeleted = Saved(0)
    BY DEF Saved
  <2>2. Cardinality(Saved(0)) <= Size
    BY <1>1 DEF Sized
  <2> QED
    BY <1>1, <2>1, <2>2 DEF NoOverfill, Sized, Parked, Undeleted
<1>3. TypeOK
  <2>1. inflight \in 0 .. Size
    <3>1. Busy \in SUBSET Warmers /\ Cardinality(Warmers) = Size /\ IsFiniteSet(Warmers)
      BY FS_Interval, PoolAssumption DEF Busy, Warmers
    <3>2. Cardinality(Busy) <= Size /\ Cardinality(Busy) \in Nat /\ Size \in Nat
      BY <3>1, FS_Subset, SizesFinite
    <3> QED
      BY <1>1, <3>2
  <2>2. free \in 0 .. FillConcurrency
    BY HoldersFinite, PoolAssumption DEF Permits
  <2>3. wall \in 0 .. MaxVMs /\ launched \in 0 .. MaxVMs
    BY PoolAssumption DEF Clock, PIInv, Typed
  <2> QED
    BY <2>1, <2>2, <2>3 DEF TypeOK, PIInv, Typed, WarmType, TakeType, MaybeVM, RecordState, States
<1> QED
  BY <1>2, <1>3

(* Who keeps a VM is somebody who records or ends it.                      *)
LEMMA PoolForgetsNone == PoolInv => NothingForgotten
<1> SUFFICES ASSUME PoolInv, crashes = 0, NEW v \in VMs, vm[v] \in {"RUNNING", "SUSPENDED"}
             PROVE  v \in held \/ records[v] # "none" \/ backend[v] # "none" \/ Tasked(v)
  BY DEF NothingForgotten
<1>1. Kept(v)
  BY DEF PoolInv, NoneLost, Up
<1>2. (\E e \in Calls : e.id = v) => Tasked(v)
  BY DEF Calls, Tasked
<1> QED
  BY <1>1, <1>2 DEF Kept, Tasked, Busy

(***************************************************************************)
(* The pool is sound, for every size, number of launches, set of takers    *)
(* and number of crashes: PoolSound is what the run checks for one slot.   *)
(***************************************************************************)
THEOREM PoolIsSound == Spec => []PoolSound
<1>1. PoolInv => Custody /\ ForeignUntouched
  BY CustodyFollows DEF PoolInv
<1>2. PoolInv => PoolSound
  BY <1>1, PoolFits, PoolForgetsNone DEF PoolSound
<1> QED
  BY <1>2, PoolBegins, PoolStep, PTL DEF Spec

=============================================================================
