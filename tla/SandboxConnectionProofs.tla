---------------------- MODULE SandboxConnectionProofs ----------------------
(***************************************************************************)
(* Proofs about SandboxConnection, for every set of calls, every number of *)
(* resumes and cuts, and both idle policies.                               *)
(*                                                                         *)
(* What a call may still do is a fact about its record alone (Budget), and *)
(* what it knows of the VM's generations one about its record and the      *)
(* agent's generation (Timely), so a step only has to be checked for the   *)
(* calls it moves.  That a suspension is reopened once rests on Marks:     *)
(* the generation a suspension is marked with is newer than every mark     *)
(* made, being reopened or reopened before.                                *)
(***************************************************************************)
EXTENDS SandboxConnection, FiniteSetTheorems, TLAPS

(* Where a request is out, where it waits for a reopening, and where it    *)
(* waits for the VM.                                                       *)
Sending == {"sent", "forbidden", "minting"}
Reopeners == {"expired", "reopening"}
Waiters == {"asleep", "lock", "poll", "probed"}
AllPc == {"idle", "cut", "done", "failed"} \cup Sending \cup Reopeners \cup Waiters

MaybeGen == Gens \cup {NoGen}
CallType ==
    [pc : AllPc, kind : Kinds, seen : Gens, reopens : Nat,
     reason : {"none", "reset", "gate", "expired", "forbidden"}, tries : 0 .. 2,
     minted : BOOLEAN, wake : BOOLEAN, answer : MaybeGen, runs : Nat, gated : MaybeGen]
HandleType ==
    [gen : Gens, paused : BOOLEAN, closed : BOOLEAN, lock : BOOLEAN, mark : MaybeGen,
     reopens : Nat]
TriggerType == [pc : {"armed", "off", "health", "suspend"}, gen : Gens]
ReopenType ==
    [pc : {"none", "probed", "set", "cut"}, gen : MaybeGen, answer : MaybeGen, expired : BOOLEAN,
     tries : 0 .. 2, seen : Gens, gate : BOOLEAN]

(* How often the request of a call ran, against the times it was sent.     *)
Budget(r) ==
    /\ r.pc \in Sending =>
         r.tries \in {1, 2} /\ r.runs < r.tries /\ (r.kind = "execute" => r.runs = 0)
    /\ r.pc \in Reopeners => r.tries = 1 /\ r.runs = 0
    /\ r.pc = "cut" => r.tries = 1 /\ r.runs <= 1
    /\ r.pc \in Waiters => r.tries = 1 /\ r.runs <= 1 /\ r.kind # "execute"
    /\ r.runs <= IF r.kind = "execute" THEN 1 ELSE 2

(* What a call knows, when the agent is at generation g.                   *)
Timely(r, g) ==
    /\ r.seen <= g
    /\ r.answer # NoGen => r.seen <= r.answer /\ r.answer <= g
    /\ r.pc \in {"forbidden", "minting"} \cup Reopeners => r.reason # "gate"
    /\ r.pc = "sent" /\ r.tries = 2 /\ r.reason = "gate" => g > r.seen
    /\ r.reason = "gate" => r.gated \in Gens /\ r.seen <= r.gated

Good(r, g) == r \in CallType /\ Budget(r) /\ Timely(r, g)

CallsGood ==
    /\ DOMAIN call = Calls
    /\ \A c \in Calls : Good(call[c], gen)

(* The handle's fields, and what it read of the agent.                     *)
HandleGood ==
    /\ vm \in {"RUNNING", "SUSPENDING", "SUSPENDED", "TERMINATED"}
    /\ gen \in Gens /\ expired \in BOOLEAN
    /\ handle \in HandleType /\ handle.gen <= gen
    /\ trigger \in TriggerType
    /\ reopen \in ReopenType
    /\ reopen.answer # NoGen => reopen.answer <= gen

(* The reconnect lock is held exactly while one call polls.                *)
OnePoller ==
    IF handle.lock THEN \E c \in Calls : Pollers = {c} ELSE Pollers = {}

(* The generations with which a suspension was marked, or is being or was  *)
(* reopened.                                                               *)
Issued(g) == handle.mark = g \/ reopen.gen = g \/ opened[g] # "none"
Marks ==
    /\ opened \in [Gens -> {"none", "lost", "done"}]
    /\ \A g \in Gens : Issued(g) =>
         /\ g <= gen
         /\ vm = "RUNNING" \/ trigger.pc = "health" => g < gen
         /\ trigger.pc = "suspend" => g < trigger.gen
    /\ trigger.pc = "suspend" => trigger.gen <= gen
    /\ handle.mark # NoGen => opened[handle.mark] # "done"
    /\ reopen.pc # "none" => reopen.gen # NoGen /\ opened[reopen.gen] # "done"

NIInv == CallsGood /\ HandleGood /\ OnePoller /\ Marks

----------------------------------------------------------------------------
(* Generations are numbers, and the undefined one is none of them.         *)
LEMMA GenFacts ==
  /\ NoGen \notin Gens /\ NoGen \in Nat
  /\ Gens \subseteq Nat /\ MaybeGen \subseteq Nat
  /\ 0 \in Gens
  BY ConnectionAssumption DEF NoGen, Gens, MaybeGen

(* A resume takes nothing from what a call knew.                           *)
LEMMA LaterIsGood ==
  ASSUME NEW r, NEW g \in Nat, NEW h \in Nat, g <= h, Good(r, g)
  PROVE  Good(r, h)
  <1>1. r.seen \in Nat /\ r.answer \in Nat
    BY GenFacts DEF Good, CallType
  <1> QED
    BY <1>1 DEF Good, Timely

(* A call that ended keeps what it did.                                    *)
LEMMA EndedIsGood ==
  ASSUME NEW c \in Calls, NEW pc \in {"done", "failed"}, CallsGood, gen \in Gens
  PROVE  /\ At(c, pc) = [call EXCEPT ![c] = At(c, pc)[c]]
         /\ Good(At(c, pc)[c], gen)
         /\ At(c, pc)[c].pc = pc
  <1> DEFINE r == [NewCall EXCEPT !.pc = pc, !.kind = call[c].kind, !.runs = call[c].runs]
  <1>1. At(c, pc) = [call EXCEPT ![c] = r]
    BY DEF At
  <1>2. At(c, pc)[c] = r
    BY <1>1 DEF CallsGood
  <1>3. call[c] \in CallType /\ Budget(call[c])
    BY DEF CallsGood, Good
  <1>4. /\ r.pc = pc /\ r.kind = call[c].kind /\ r.seen = 0 /\ r.reason = "none" /\ r.tries = 0
        /\ r.answer = NoGen /\ r.runs = call[c].runs
    BY DEF NewCall
  <1>8. NewCall \in CallType
    BY GenFacts DEF NewCall, CallType, AllPc, MaybeGen, Kinds
  <1>5. r \in CallType
    BY <1>3, <1>8 DEF CallType, AllPc
  <1> HIDE DEF r
  <1>6. Budget(r)
    BY <1>3, <1>4 DEF Budget, Sending, Reopeners, Waiters
  <1>7. Timely(r, gen)
    BY <1>4, GenFacts DEF Timely, Reopeners
  <1> QED
    BY <1>1, <1>2, <1>4, <1>5, <1>6, <1>7 DEF Good

(* A call that waited may repeat its request: once, not an Execute that    *)
(* ran, and one that a suspension cut only after the resume.               *)
LEMMA AgainIsGood ==
  ASSUME NEW c \in Calls, CallsGood, gen \in Gens, call[c].pc \in Waiters \cup Reopeners,
         call[c].reason = "gate" => gen > call[c].seen
  PROVE  Good(Again(c), gen) /\ Again(c).pc \in {"sent", "done"}
  <1> DEFINE r == [call[c] EXCEPT !.pc = "sent", !.tries = 2, !.answer = NoGen]
  <1>1. CASE call[c].kind = "stream"
    BY <1>1, EndedIsGood DEF Again
  <1>2. CASE call[c].kind # "stream"
    <2>1. Good(call[c], gen)
      BY DEF CallsGood
    <2>2. r \in CallType
      <3>1. NoGen \in MaybeGen /\ "sent" \in AllPc /\ 2 \in 0 .. 2
        BY DEF MaybeGen, AllPc, Sending
      <3>2. call[c] \in CallType
        BY <2>1 DEF Good
      <3> QED
        BY <3>1, <3>2 DEF CallType
    <2>3. /\ r.pc = "sent" /\ r.tries = 2 /\ r.answer = NoGen
          /\ r.kind = call[c].kind /\ r.seen = call[c].seen /\ r.reason = call[c].reason
          /\ r.runs = call[c].runs /\ r.gated = call[c].gated
      BY <2>1 DEF Good, CallType
    <2>4. Again(c) = r
      BY <1>2 DEF Again
    <2>5. call[c].runs \in Nat
      BY <2>1 DEF Good, CallType
    <2> HIDE DEF r
    <2>6. Budget(r)
      BY <2>1, <2>3, <2>5 DEF Good, Budget, Sending, Reopeners, Waiters
    <2>7. Timely(r, gen)
      BY <2>1, <2>3 DEF Good, Timely, Reopeners
    <2> QED
      BY <2>2, <2>3, <2>4, <2>6, <2>7 DEF Good
  <1> QED
    BY <1>1, <1>2

(* A step of one call.                                                     *)
LEMMA OneMoves ==
  ASSUME NEW c \in Calls, NEW r, CallsGood, gen' = gen, Good(r, gen),
         call' = [call EXCEPT ![c] = r]
  PROVE  /\ CallsGood'
         /\ Pollers' = IF r.pc \in {"poll", "probed"} THEN Pollers \cup {c} ELSE Pollers \ {c}
  <1>1. call'[c] = r /\ \A d \in Calls \ {c} : call'[d] = call[d]
    BY DEF CallsGood
  <1>2. CallsGood'
    BY <1>1 DEF CallsGood
  <1>3. Pollers' = IF r.pc \in {"poll", "probed"} THEN Pollers \cup {c} ELSE Pollers \ {c}
    BY <1>1 DEF Pollers
  <1> QED
    BY <1>2, <1>3

(* A step of one call that leaves the handle and the lock alone.           *)
LEMMA CallAlone ==
  ASSUME NIInv, NEW c \in Calls, NEW r, Good(r, gen), call' = [call EXCEPT ![c] = r],
         UNCHANGED <<vm, gen, expired, handle, trigger, reopen, opened>>,
         call[c].pc \in {"poll", "probed"} <=> r.pc \in {"poll", "probed"}
  PROVE  NIInv'
  <1>1. CallsGood' /\ Pollers' = Pollers
    <2>1. c \in Pollers <=> r.pc \in {"poll", "probed"}
      BY DEF Pollers
    <2> QED
      BY <2>1, OneMoves DEF NIInv
  <1>2. HandleGood' /\ OnePoller'
    BY <1>1 DEF NIInv, HandleGood, OnePoller
  <1>3. Marks'
    BY DEF NIInv, Marks, Issued
  <1> QED
    BY <1>1, <1>2, <1>3 DEF NIInv

(* A call that goes on changes its place only.                             *)
LEMMA AtMoves ==
  ASSUME NEW c \in Calls, NEW pc \in AllPc \ {"done", "failed"}, CallsGood
  PROVE  LET r == At(c, pc)[c] IN
         /\ At(c, pc) = [call EXCEPT ![c] = r]
         /\ r \in CallType
         /\ r.pc = pc /\ r.kind = call[c].kind /\ r.seen = call[c].seen
         /\ r.reason = call[c].reason /\ r.tries = call[c].tries
         /\ r.answer = call[c].answer /\ r.runs = call[c].runs /\ r.gated = call[c].gated
  <1> DEFINE r == [call[c] EXCEPT !.pc = pc]
  <1>1. At(c, pc) = [call EXCEPT ![c] = r] /\ At(c, pc)[c] = r
    BY DEF At, CallsGood
  <1>2. call[c] \in CallType
    BY DEF CallsGood, Good
  <1>3. r \in CallType
    BY <1>2 DEF CallType
  <1>4. /\ r.pc = pc /\ r.kind = call[c].kind /\ r.seen = call[c].seen
        /\ r.reason = call[c].reason /\ r.tries = call[c].tries
        /\ r.answer = call[c].answer /\ r.runs = call[c].runs /\ r.gated = call[c].gated
    BY <1>2 DEF CallType
  <1> HIDE DEF r
  <1> QED
    BY <1>1, <1>3, <1>4

(* A new call.                                                             *)
LEMMA SendsPreserves ==
  ASSUME NIInv, NEW c \in Calls, Sends(c)
  PROVE  NIInv'
  <1>1. PICK k \in Kinds :
          call' = [call EXCEPT ![c] = [NewCall EXCEPT !.pc = "sent", !.kind = k,
                    !.seen = handle.gen, !.reopens = handle.reopens, !.tries = 1]]
    BY DEF Sends
  <1> DEFINE r == [NewCall EXCEPT !.pc = "sent", !.kind = k, !.seen = handle.gen,
                                  !.reopens = handle.reopens, !.tries = 1]
  <1>2. handle.gen \in Gens /\ handle.gen <= gen /\ handle.reopens \in Nat
    BY DEF NIInv, HandleGood, HandleType
  <1>3. NewCall \in CallType
    BY GenFacts DEF NewCall, CallType, AllPc, MaybeGen, Kinds
  <1>4. r \in CallType
    <2>1. "sent" \in AllPc /\ 1 \in 0 .. 2
      BY DEF AllPc, Sending
    <2> QED
      BY <1>2, <1>3, <2>1 DEF CallType
  <1>5. /\ r.pc = "sent" /\ r.tries = 1 /\ r.runs = 0 /\ r.seen = handle.gen /\ r.answer = NoGen
        /\ r.reason = "none"
    BY DEF NewCall
  <1> HIDE DEF r
  <1>6. Budget(r)
    BY <1>5 DEF Budget, Sending, Reopeners, Waiters
  <1>7. Timely(r, gen)
    BY <1>2, <1>5 DEF Timely, Reopeners
  <1>8. call' = [call EXCEPT ![c] = r]
    BY <1>1 DEF r
  <1> QED
    BY <1>4, <1>5, <1>6, <1>7, <1>8, CallAlone DEF Sends, world, Good

(* The request runs: a call that ran had a try left.                       *)
LEMMA RunsPreserves ==
  ASSUME NIInv, NEW c \in Calls, Runs(c)
  PROVE  NIInv'
  <1>1. Good(call[c], gen) /\ call[c] \in CallType /\ call[c].pc = "sent"
    BY DEF NIInv, CallsGood, Good, Runs
  <1>2. call[c].runs \in Nat /\ call[c].kind \in Kinds
    BY <1>1 DEF CallType
  <1>3. CASE call' = [call EXCEPT ![c] =
                 [NewCall EXCEPT !.pc = "done", !.kind = call[c].kind, !.runs = call[c].runs + 1]]
    <2> DEFINE r == [NewCall EXCEPT !.pc = "done", !.kind = call[c].kind, !.runs = call[c].runs + 1]
    <2>1. NewCall \in CallType
      BY GenFacts DEF NewCall, CallType, AllPc, MaybeGen, Kinds
    <2>2. r \in CallType
      <3>1. "done" \in AllPc /\ call[c].runs + 1 \in Nat
        BY <1>2 DEF AllPc
      <3> QED
        BY <1>2, <2>1, <3>1 DEF CallType
    <2>3. /\ r.pc = "done" /\ r.kind = call[c].kind /\ r.runs = call[c].runs + 1 /\ r.seen = 0
          /\ r.answer = NoGen /\ r.reason = "none"
      BY DEF NewCall
    <2> HIDE DEF r
    <2>4. Budget(r)
      BY <1>1, <1>2, <2>3 DEF Good, Budget, Sending, Reopeners, Waiters
    <2>5. Timely(r, gen)
      BY <2>3, GenFacts DEF Timely, Reopeners, NIInv, HandleGood
    <2>6. call' = [call EXCEPT ![c] = r]
      BY <1>3 DEF r
    <2> QED
      BY <1>1, <2>2, <2>3, <2>4, <2>5, <2>6, CallAlone DEF Runs, Good
  <1>4. CASE call' = [call EXCEPT ![c].pc = IF call[c].tries = 2 THEN "failed" ELSE "cut",
                                  ![c].reason = "reset", ![c].runs = @ + 1]
    <2> DEFINE r == [call[c] EXCEPT !.pc = IF call[c].tries = 2 THEN "failed" ELSE "cut",
                                    !.reason = "reset", !.runs = @ + 1]
    <2>1. call' = [call EXCEPT ![c] = r]
      BY <1>4 DEF NIInv, CallsGood
    <2>2. r \in CallType
      <3>1. /\ (IF call[c].tries = 2 THEN "failed" ELSE "cut") \in AllPc
            /\ call[c].runs + 1 \in Nat
        BY <1>2 DEF AllPc
      <3> QED
        BY <1>1, <3>1 DEF CallType
    <2>3. /\ r.pc = IF call[c].tries = 2 THEN "failed" ELSE "cut"
          /\ r.kind = call[c].kind /\ r.runs = call[c].runs + 1 /\ r.seen = call[c].seen
          /\ r.answer = call[c].answer /\ r.tries = call[c].tries /\ r.reason = "reset"
      BY <1>1 DEF CallType
    <2> HIDE DEF r
    <2>4. Budget(r)
      BY <1>1, <1>2, <2>3 DEF Good, Budget, Sending, Reopeners, Waiters
    <2>5. Timely(r, gen)
      BY <1>1, <2>3 DEF Good, Timely, Reopeners
    <2> QED
      BY <1>1, <2>1, <2>2, <2>3, <2>4, <2>5, CallAlone DEF Runs, Good
  <1> QED
    BY <1>3, <1>4 DEF Runs

(* The request does not run.                                               *)
LEMMA RefusedPreserves ==
  ASSUME NIInv, NEW c \in Calls, Refused(c)
  PROVE  NIInv'
  <1> DEFINE Place(reason) ==
        CASE reason = "forbidden" /\ ~call[c].minted -> "forbidden"
          [] reason = "expired" /\ call[c].tries # 2 -> "expired"
          [] isReconnectable(c, reason) /\ call[c].tries # 2 -> "cut"
          [] OTHER -> "failed"
  <1>1. PICK reason \in {"reset", "gate", "expired", "forbidden"} :
          call' = [At(c, Place(reason)) EXCEPT ![c].reason = reason,
                                               ![c].gated = IF reason = "gate" THEN gen ELSE NoGen]
    BY DEF Refused
  <1> DEFINE place == Place(reason)
  <1> DEFINE q == At(c, place)[c]
  <1> DEFINE r == [q EXCEPT !.reason = reason, !.gated = IF reason = "gate" THEN gen ELSE NoGen]
  <1>2. /\ place \in {"failed", "forbidden", "expired", "cut"}
        /\ place = "forbidden" => reason = "forbidden"
        /\ place = "expired" => reason = "expired" /\ call[c].tries # 2
        /\ place = "cut" => call[c].tries # 2
    BY DEF isReconnectable
  <1>3. CallsGood /\ gen \in Gens /\ Good(call[c], gen) /\ call[c] \in CallType /\ call[c].pc = "sent"
    BY DEF NIInv, CallsGood, HandleGood, Good, Refused
  <1> HIDE DEF Place, place
  <1>4. At(c, place) = [call EXCEPT ![c] = q] /\ q \in CallType /\ q.pc = place
    <2>1. CASE place = "failed"
      BY <1>3, <2>1, EndedIsGood DEF Good
    <2>2. CASE place # "failed"
      <3>1. place \in AllPc \ {"done", "failed"}
        BY <1>2, <2>2 DEF AllPc, Sending, Reopeners
      <3> QED
        BY <1>3, <3>1, AtMoves
    <2> QED
      BY <2>1, <2>2
  <1>5. place # "failed" => /\ q.kind = call[c].kind /\ q.seen = call[c].seen /\ q.tries = call[c].tries
                            /\ q.answer = call[c].answer /\ q.runs = call[c].runs /\ q.gated = call[c].gated
    <2> SUFFICES ASSUME place # "failed"
                 PROVE  /\ q.kind = call[c].kind /\ q.seen = call[c].seen
                        /\ q.tries = call[c].tries
                        /\ q.answer = call[c].answer /\ q.runs = call[c].runs /\ q.gated = call[c].gated
      OBVIOUS
    <2>1. place \in AllPc \ {"done", "failed"}
      BY <1>2 DEF AllPc, Sending, Reopeners
    <2> QED
      BY <1>3, <2>1, AtMoves
  <1>6. place = "failed" => Good(q, gen)
    BY <1>3, EndedIsGood
  <1>7. call' = [call EXCEPT ![c] = r]
    BY <1>1, <1>3, <1>4 DEF place, CallsGood
  <1> HIDE DEF q
  <1>8. r \in CallType
    <2>1. (IF reason = "gate" THEN gen ELSE NoGen) \in MaybeGen
      BY <1>3 DEF MaybeGen
    <2> QED
      BY <1>4, <2>1 DEF CallType
  <1>9. /\ r.pc = place /\ r.kind = q.kind /\ r.seen = q.seen /\ r.tries = q.tries
        /\ r.answer = q.answer /\ r.runs = q.runs /\ r.reason = reason
        /\ r.gated = IF reason = "gate" THEN gen ELSE NoGen
    BY <1>4 DEF CallType
  <1> HIDE DEF r
  <1>10. Budget(r)
    <2>1. CASE place = "failed"
      BY <1>6, <1>9, <2>1 DEF Good, Budget, Sending, Reopeners, Waiters
    <2>2. CASE place # "failed"
      <3>1. call[c].tries \in {1, 2} /\ call[c].runs < call[c].tries /\ call[c].runs \in Nat
        BY <1>3 DEF Good, Budget, Sending, CallType
      <3>2. call[c].kind = "execute" => call[c].runs = 0
        BY <1>3 DEF Good, Budget, Sending
      <3> QED
        BY <1>2, <1>5, <1>9, <2>2, <3>1, <3>2 DEF Budget, Sending, Reopeners, Waiters
    <2> QED
      BY <2>1, <2>2
  <1>11. Timely(r, gen)
    <2>1. r.seen <= gen /\ (r.answer # NoGen => r.seen <= r.answer /\ r.answer <= gen)
      BY <1>3, <1>5, <1>6, <1>9 DEF Good, Timely
    <2>2. reason = "gate" => r.gated \in Gens /\ r.seen <= r.gated
      BY <1>3, <1>9, <2>1
    <2> QED
      BY <1>2, <1>9, <2>1, <2>2 DEF Timely, Reopeners
  <1> QED
    BY <1>2, <1>3, <1>7, <1>8, <1>9, <1>10, <1>11, CallAlone DEF Refused, world, Good

(* A call waits for a mint, for the VM, or for the answer to its probe.    *)
LEMMA WaitsPreserve ==
  ASSUME NIInv, NEW c \in Calls,
         refreshAll(c) \/ reconnect(c) \/ sleepWhileSuspended(c) \/ probeHealth(c)
  PROVE  NIInv'
  <1>1. CallsGood /\ gen \in Gens /\ Good(call[c], gen) /\ call[c] \in CallType
    BY DEF NIInv, CallsGood, HandleGood, Good
  <1>2. CASE refreshAll(c)
    <2> DEFINE r == At(c, "minting")[c]
    <2>1. "minting" \in AllPc \ {"done", "failed"}
      BY DEF AllPc, Sending
    <2>2. /\ call' = [call EXCEPT ![c] = r] /\ r \in CallType
          /\ r.pc = "minting" /\ r.kind = call[c].kind /\ r.seen = call[c].seen
          /\ r.reason = call[c].reason /\ r.tries = call[c].tries
          /\ r.answer = call[c].answer /\ r.runs = call[c].runs /\ r.gated = call[c].gated
      BY <1>1, <1>2, <2>1, AtMoves DEF refreshAll
    <2>3. call[c].pc = "forbidden"
      BY <1>2 DEF refreshAll
    <2> HIDE DEF r
    <2>4. Good(r, gen)
      BY <1>1, <2>2, <2>3 DEF Good, Budget, Timely, Sending, Reopeners, Waiters
    <2> QED
      BY <1>2, <2>2, <2>3, <2>4, CallAlone DEF refreshAll, world
  <1>3. CASE reconnect(c)
    <2>1. CASE ~mayReconnect(c)
      BY <1>1, <1>3, <2>1, EndedIsGood, CallAlone DEF reconnect, world
    <2>2. CASE mayReconnect(c)
      <3>1. PICK foreground \in BOOLEAN :
              call' = [call EXCEPT ![c].wake = wakes(c, foreground),
                                   ![c].pc = IF wakes(c, foreground) THEN "lock" ELSE "asleep"]
        BY <1>3, <2>2 DEF reconnect
      <3> DEFINE w == wakes(c, foreground)
      <3> DEFINE place == IF w THEN "lock" ELSE "asleep"
      <3> DEFINE r == [call[c] EXCEPT !.wake = w, !.pc = place]
      <3>2. w \in BOOLEAN
        BY DEF wakes
      <3>3. place \in {"lock", "asleep"} /\ place \in AllPc
        BY DEF AllPc, Waiters
      <3>4. call' = [call EXCEPT ![c] = r]
        BY <1>1, <3>1 DEF CallsGood
      <3> HIDE DEF w, place
      <3>5. r \in CallType
        BY <1>1, <3>2, <3>3 DEF CallType
      <3>6. /\ r.pc = place /\ r.kind = call[c].kind /\ r.seen = call[c].seen
            /\ r.tries = call[c].tries /\ r.answer = call[c].answer /\ r.runs = call[c].runs
            /\ r.reason = call[c].reason /\ r.gated = call[c].gated
        BY <1>1 DEF CallType
      <3> HIDE DEF r
      <3>7. call[c].pc = "cut" /\ call[c].kind # "execute"
        BY <1>3, <2>2 DEF reconnect, mayReconnect
      <3>8. Good(r, gen)
        BY <1>1, <3>3, <3>5, <3>6, <3>7 DEF Good, Budget, Timely, Sending, Reopeners, Waiters
      <3> QED
        BY <1>3, <3>3, <3>4, <3>6, <3>7, <3>8, CallAlone DEF reconnect, world
    <2> QED
      BY <2>1, <2>2
  <1>4. CASE sleepWhileSuspended(c)
    <2>1. CASE vm = "TERMINATED"
      BY <1>1, <1>4, <2>1, EndedIsGood, CallAlone DEF sleepWhileSuspended, Waiting, world
    <2>2. CASE vm # "TERMINATED"
      <3> DEFINE r == At(c, "lock")[c]
      <3>1. "lock" \in AllPc \ {"done", "failed"}
        BY DEF AllPc, Waiters
      <3>2. /\ call' = [call EXCEPT ![c] = r] /\ r \in CallType
            /\ r.pc = "lock" /\ r.kind = call[c].kind /\ r.seen = call[c].seen
            /\ r.reason = call[c].reason /\ r.tries = call[c].tries
            /\ r.answer = call[c].answer /\ r.runs = call[c].runs /\ r.gated = call[c].gated
        BY <1>1, <1>4, <2>2, <3>1, AtMoves DEF sleepWhileSuspended
      <3>3. call[c].pc = "asleep"
        BY <1>4 DEF sleepWhileSuspended, Waiting
      <3> HIDE DEF r
      <3>4. Good(r, gen)
        BY <1>1, <3>2, <3>3 DEF Good, Budget, Timely, Sending, Reopeners, Waiters
      <3> QED
        BY <1>4, <3>2, <3>3, <3>4, CallAlone DEF sleepWhileSuspended, world
    <2> QED
      BY <2>1, <2>2
  <1>5. CASE probeHealth(c)
    <2>1. PICK g \in healthAnswers : call' = [call EXCEPT ![c].pc = "probed", ![c].answer = g]
      BY <1>5 DEF probeHealth
    <2> DEFINE r == [call[c] EXCEPT !.pc = "probed", !.answer = g]
    <2>2. g \in {gen, NoGen} /\ g \in MaybeGen
      BY <1>1 DEF healthAnswers, MaybeGen
    <2>3. call' = [call EXCEPT ![c] = r]
      BY <1>1, <2>1 DEF CallsGood
    <2>4. r \in CallType
      <3>1. "probed" \in AllPc
        BY DEF AllPc, Waiters
      <3> QED
        BY <1>1, <2>2, <3>1 DEF CallType
    <2>5. /\ r.pc = "probed" /\ r.kind = call[c].kind /\ r.seen = call[c].seen
          /\ r.tries = call[c].tries /\ r.answer = g /\ r.runs = call[c].runs
          /\ r.reason = call[c].reason /\ r.gated = call[c].gated
      BY <1>1 DEF CallType
    <2>6. call[c].pc = "poll"
      BY <1>5 DEF probeHealth, Waiting
    <2> HIDE DEF r
    <2>7. Good(r, gen)
      <3>1. gen <= gen
        BY <1>1, GenFacts
      <3>2. Budget(r)
        BY <1>1, <2>5, <2>6 DEF Good, Budget, Sending, Reopeners, Waiters
      <3>3. Timely(r, gen)
        BY <1>1, <2>2, <2>5, <3>1 DEF Good, Timely, Reopeners
      <3> QED
        BY <2>4, <3>2, <3>3 DEF Good
    <2> QED
      BY <1>5, <2>3, <2>5, <2>6, <2>7, CallAlone DEF probeHealth, world
  <1> QED
    BY <1>2, <1>3, <1>4, <1>5

----------------------------------------------------------------------------
(* What recordHealth may change.                                           *)
LEMMA RecordHealth ==
  ASSUME HandleGood, NEW g \in MaybeGen, g # NoGen => g <= gen
  PROVE  LET h == recordHealth(g) IN
         /\ h \in HandleType /\ h.gen <= gen /\ h.mark = handle.mark /\ h.lock = handle.lock
         /\ h.reopens = handle.reopens
  <1>1. handle \in HandleType /\ handle.gen <= gen
    BY DEF HandleGood
  <1>2. CASE g = NoGen \/ g = handle.gen
    BY <1>1, <1>2 DEF recordHealth, HandleType
  <1>3. CASE g # NoGen /\ g # handle.gen
    <2> DEFINE h == [handle EXCEPT !.gen = g, !.paused = FALSE]
    <2>1. recordHealth(g) = h
      BY <1>3 DEF recordHealth
    <2>2. g \in Gens /\ g <= gen
      BY <1>3 DEF MaybeGen
    <2>3. h \in HandleType
      BY <1>1, <2>2 DEF HandleType
    <2>4. h.gen = g /\ h.mark = handle.mark /\ h.lock = handle.lock /\ h.reopens = handle.reopens
      BY <1>1 DEF HandleType
    <2> HIDE DEF h
    <2> QED
      BY <2>1, <2>2, <2>3, <2>4
  <1> QED
    BY <1>2, <1>3

(* recordLifecycle arms the trigger or leaves it.                          *)
LEMMA RecordLifecycle ==
  ASSUME HandleGood
  PROVE  recordLifecycle \in TriggerType /\ (recordLifecycle = trigger \/ recordLifecycle.pc = "armed")
  BY DEF HandleGood, recordLifecycle, TriggerType

(* A step that records no suspension keeps the marks.                      *)
LEMMA NoNewMark ==
  ASSUME NIInv, UNCHANGED <<vm, gen, expired, reopen, opened>>,
         handle' \in HandleType, handle'.gen <= gen, handle'.mark = handle.mark,
         trigger' \in TriggerType, trigger' = trigger \/ trigger'.pc \in {"armed", "off"}
  PROVE  HandleGood' /\ Marks'
  <1>1. HandleGood'
    BY DEF NIInv, HandleGood
  <1>2. \A g \in Gens : Issued(g)' <=> Issued(g)
    BY DEF Issued
  <1>3. Marks'
    BY <1>2 DEF NIInv, Marks
  <1> QED
    BY <1>1, <1>3

(* A call that polls is the only one.                                      *)
LEMMA LonePoller ==
  ASSUME NIInv, NEW c \in Calls, call[c].pc \in {"poll", "probed"}
  PROVE  Pollers = {c}
  <1>1. c \in Pollers
    BY DEF Pollers
  <1> QED
    BY <1>1 DEF NIInv, OnePoller

(* A call that does not poll moves on while the handle keeps its lock.     *)
LEMMA Bystander ==
  ASSUME NIInv, NEW c \in Calls, NEW r, call[c].pc \notin {"poll", "probed"}, Good(r, gen),
         r.pc \notin {"poll", "probed"}, call' = [call EXCEPT ![c] = r], gen' = gen,
         handle'.lock = handle.lock
  PROVE  CallsGood' /\ OnePoller'
  <1>1. c \notin Pollers
    BY DEF Pollers
  <1>2. CallsGood' /\ Pollers' = Pollers
    BY <1>1, OneMoves DEF NIInv
  <1> QED
    BY <1>2 DEF NIInv, OnePoller

(* The loops of reconnect() end: the VM is back, or the handle closed.     *)
LEMMA ReturnsPreserves ==
  ASSUME NIInv, NEW c \in Calls, Returns(c)
  PROVE  NIInv'
  <1> DEFINE r == IF alreadyBack(c) THEN Again(c) ELSE At(c, "failed")[c]
  <1>1. CallsGood /\ gen \in Gens /\ HandleGood
    BY DEF NIInv, HandleGood
  <1>2. Good(r, gen) /\ r.pc \notin {"poll", "probed"}
    <2>1. CASE alreadyBack(c)
      <3>1. call[c].pc \in Waiters
        BY DEF Returns, Waiters
      <3>2. gen > call[c].seen
        <4>1. handle.gen \in Nat /\ handle.gen <= gen /\ gen \in Nat
          BY <1>1, GenFacts DEF HandleGood, HandleType
        <4>2. call[c].seen \in Nat
          BY <1>1, GenFacts DEF CallsGood, Good, CallType
        <4> QED
          BY <2>1, <4>1, <4>2 DEF alreadyBack
      <3> QED
        BY <1>1, <2>1, <3>1, <3>2, AgainIsGood
    <2>2. CASE ~alreadyBack(c)
      BY <1>1, <2>2, EndedIsGood
    <2> QED
      BY <2>1, <2>2
  <1>3. call' = [call EXCEPT ![c] = r]
    BY DEF Returns
  <1> HIDE DEF r
  <1>4. handle \in HandleType
    BY <1>1 DEF HandleGood
  <1>5. handle' \in HandleType /\ handle'.gen = handle.gen /\ handle'.mark = handle.mark
    BY <1>4 DEF Returns, HandleType
  <1>6. CallsGood' /\ OnePoller'
    <2>1. CASE call[c].pc = "poll"
      <3>1. ~handle'.lock
        BY <1>4, <2>1 DEF Returns, HandleType
      <3>2. gen' = gen /\ call[c].pc \in {"poll", "probed"}
        BY <2>1 DEF Returns, world
      <3>3. CallsGood' /\ Pollers' = {}
        BY <1>1, <1>2, <1>3, <3>2, LonePoller, OneMoves
      <3> QED
        BY <3>1, <3>3 DEF OnePoller
    <2>2. CASE call[c].pc # "poll"
      BY <1>2, <1>3, <2>2, Bystander DEF Returns, world
    <2> QED
      BY <2>1, <2>2
  <1>7. HandleGood' /\ Marks'
    BY <1>1, <1>5, NoNewMark DEF Returns, world, HandleGood
  <1> QED
    BY <1>6, <1>7 DEF NIInv

(* The lock is taken only when nobody polls, and given back on a timeout.  *)
LEMMA LockPreserves ==
  ASSUME NIInv, NEW c \in Calls, pollHoldingTheLock(c) \/ reconnectTimedOut(c)
  PROVE  NIInv'
  <1>1. CallsGood /\ gen \in Gens /\ HandleGood /\ handle \in HandleType
    BY DEF NIInv, HandleGood
  <1>2. handle' \in HandleType /\ handle'.gen = handle.gen /\ handle'.mark = handle.mark
    BY <1>1 DEF pollHoldingTheLock, reconnectTimedOut, HandleType
  <1>3. HandleGood' /\ Marks'
    BY <1>1, <1>2, NoNewMark DEF pollHoldingTheLock, reconnectTimedOut, world, HandleGood
  <1>4. CASE pollHoldingTheLock(c)
    <2> DEFINE r == At(c, "poll")[c]
    <2>1. "poll" \in AllPc \ {"done", "failed"}
      BY DEF AllPc, Waiters
    <2>2. /\ call' = [call EXCEPT ![c] = r] /\ r \in CallType
          /\ r.pc = "poll" /\ r.kind = call[c].kind /\ r.seen = call[c].seen
          /\ r.reason = call[c].reason /\ r.tries = call[c].tries
          /\ r.answer = call[c].answer /\ r.runs = call[c].runs /\ r.gated = call[c].gated
      BY <1>1, <1>4, <2>1, AtMoves DEF pollHoldingTheLock
    <2>3. call[c].pc = "lock" /\ ~handle.lock
      BY <1>4 DEF pollHoldingTheLock, Waiting
    <2> HIDE DEF r
    <2>4. Good(r, gen)
      BY <1>1, <2>2, <2>3 DEF CallsGood, Good, Budget, Timely, Sending, Reopeners, Waiters
    <2>5. CallsGood' /\ Pollers' = Pollers \cup {c}
      BY <1>1, <1>4, <2>2, <2>4, OneMoves DEF pollHoldingTheLock, world
    <2>6. Pollers = {}
      BY <2>3 DEF NIInv, OnePoller
    <2>7. handle'.lock
      BY <1>1, <1>4 DEF pollHoldingTheLock, HandleType
    <2>8. OnePoller'
      BY <2>5, <2>6, <2>7 DEF OnePoller
    <2> QED
      BY <1>3, <2>5, <2>8 DEF NIInv
  <1>5. CASE reconnectTimedOut(c)
    <2>1. ~handle'.lock
      BY <1>1, <1>5 DEF reconnectTimedOut, HandleType
    <2>2. call[c].pc \in {"poll", "probed"}
      BY <1>5 DEF reconnectTimedOut, Waiting
    <2> DEFINE r == At(c, "failed")[c]
    <2>4. Good(r, gen) /\ r.pc \notin {"poll", "probed"} /\ call' = [call EXCEPT ![c] = r] /\ gen' = gen
      BY <1>1, <1>5, EndedIsGood DEF reconnectTimedOut, world
    <2> HIDE DEF r
    <2>5. CallsGood' /\ Pollers' = {}
      BY <1>1, <2>2, <2>4, LonePoller, OneMoves
    <2>6. OnePoller'
      BY <2>1, <2>5 DEF OnePoller
    <2> QED
      BY <1>3, <2>5, <2>6 DEF NIInv
  <1> QED
    BY <1>4, <1>5

(* The answer to a probe is read.                                          *)
LEMMA ReconnectedPreserves ==
  ASSUME NIInv, NEW c \in Calls, reconnected(c)
  PROVE  NIInv'
  <1> DEFINE back == healthReconnected(call[c].answer, call[c].seen, call[c].reason = "gate")
  <1> DEFINE asleep == ~call[c].wake /\ vm = "SUSPENDED"
  <1> DEFINE gone == vm = "TERMINATED" \/ (call[c].wake /\ vm = "SUSPENDED" /\ ~AutoResume)
  <1>1. /\ CallsGood /\ gen \in Gens /\ HandleGood /\ handle \in HandleType
        /\ handle.gen <= gen /\ trigger \in TriggerType
    BY DEF NIInv, HandleGood
  <1>2. Good(call[c], gen) /\ call[c] \in CallType /\ call[c].pc = "probed"
    BY <1>1 DEF CallsGood, Good, reconnected
  <1>3. Pollers = {c} /\ handle.lock
    <2>1. Pollers = {c}
      BY <1>2, LonePoller
    <2> QED
      BY <2>1 DEF NIInv, OnePoller
  <1>4. /\ handle' = IF back THEN [recordHealth(call[c].answer) EXCEPT !.lock = FALSE]
                     ELSE IF asleep \/ gone THEN [handle EXCEPT !.lock = FALSE] ELSE handle
        /\ trigger' = IF back THEN recordLifecycle ELSE trigger
        /\ call' = [call EXCEPT ![c] = IF back THEN Again(c)
                      ELSE IF gone THEN At(c, "failed")[c]
                      ELSE [@ EXCEPT !.answer = NoGen, !.pc = IF asleep THEN "asleep" ELSE "poll"]]
        /\ UNCHANGED <<vm, gen, expired, reopen, opened>>
    BY DEF reconnected, world
  <1>5. call[c].answer \in MaybeGen /\ call[c].seen \in Nat /\ call[c].answer \in Nat
    BY <1>2, GenFacts DEF CallType
  <1>6. ASSUME back
        PROVE  NIInv'
    <2> DEFINE h == recordHealth(call[c].answer)
    <2>1. call[c].answer # NoGen /\ call[c].answer <= gen /\ call[c].seen <= call[c].answer
      BY <1>2, <1>6 DEF healthReconnected, Good, Timely
    <2>2. call[c].reason = "gate" => gen > call[c].seen
      BY <1>1, <1>5, <1>6, <2>1, GenFacts DEF healthReconnected
    <2>3. Good(Again(c), gen) /\ Again(c).pc \in {"sent", "done"}
      <3>1. call[c].pc \in Waiters \cup Reopeners
        BY <1>2 DEF Waiters
      <3> QED
        BY <1>1, <2>2, <3>1, AgainIsGood
    <2>4. call' = [call EXCEPT ![c] = Again(c)]
      BY <1>4, <1>6
    <2>5. CallsGood' /\ Pollers' = {}
      BY <1>1, <1>3, <1>4, <2>3, <2>4, OneMoves
    <2>6. h \in HandleType /\ h.gen <= gen /\ h.mark = handle.mark
      BY <1>1, <1>5, <2>1, RecordHealth
    <2>7. handle' = [h EXCEPT !.lock = FALSE]
      BY <1>4, <1>6
    <2> HIDE DEF h
    <2>8. /\ handle' \in HandleType /\ handle'.gen = h.gen /\ handle'.mark = handle.mark
          /\ ~handle'.lock
      BY <2>6, <2>7 DEF HandleType
    <2>9. OnePoller'
      BY <2>5, <2>8 DEF OnePoller
    <2>10. HandleGood' /\ Marks'
      <3>1. trigger' \in TriggerType /\ (trigger' = trigger \/ trigger'.pc \in {"armed", "off"})
        BY <1>1, <1>4, <1>6, RecordLifecycle
      <3> QED
        BY <1>4, <2>6, <2>8, <3>1, NoNewMark
    <2> QED
      BY <2>5, <2>9, <2>10 DEF NIInv
  <1>7. ASSUME ~back
        PROVE  NIInv'
    <2>1. /\ handle' = IF asleep \/ gone THEN [handle EXCEPT !.lock = FALSE] ELSE handle
          /\ trigger' = trigger
          /\ call' = [call EXCEPT ![c] = IF gone THEN At(c, "failed")[c]
                      ELSE [@ EXCEPT !.answer = NoGen, !.pc = IF asleep THEN "asleep" ELSE "poll"]]
      BY <1>4, <1>7
    <2> HIDE DEF back
    <2>2. handle' \in HandleType /\ handle'.gen = handle.gen /\ handle'.mark = handle.mark
      BY <1>1, <2>1 DEF HandleType
    <2>3. HandleGood' /\ Marks'
      BY <1>1, <1>4, <2>1, <2>2, NoNewMark
    <2>4. CASE gone
      <3> DEFINE r == At(c, "failed")[c]
      <3>1. call' = [call EXCEPT ![c] = r] /\ Good(r, gen) /\ r.pc = "failed"
        BY <1>1, <2>1, <2>4, EndedIsGood
      <3> HIDE DEF r
      <3>2. CallsGood' /\ Pollers' = {}
        BY <1>1, <1>3, <1>4, <3>1, OneMoves
      <3>3. ~handle'.lock
        BY <1>1, <2>1, <2>4 DEF HandleType
      <3> QED
        BY <2>3, <3>2, <3>3 DEF NIInv, OnePoller
    <2>5. CASE ~gone
      <3> DEFINE place == IF asleep THEN "asleep" ELSE "poll"
      <3> DEFINE r == [call[c] EXCEPT !.answer = NoGen, !.pc = place]
      <3>1. call' = [call EXCEPT ![c] = r]
        BY <1>1, <2>1, <2>5 DEF CallsGood
      <3>2. place \in {"asleep", "poll"} /\ place \in AllPc /\ NoGen \in MaybeGen
        BY DEF AllPc, Waiters, MaybeGen
      <3>3. place = "asleep" <=> asleep
        OBVIOUS
      <3> HIDE DEF place
      <3>4. r \in CallType
        BY <1>2, <3>2 DEF CallType
      <3>5. /\ r.pc = place /\ r.kind = call[c].kind /\ r.seen = call[c].seen
            /\ r.tries = call[c].tries /\ r.answer = NoGen /\ r.runs = call[c].runs
            /\ r.reason = call[c].reason /\ r.gated = call[c].gated
        BY <1>2 DEF CallType
      <3> HIDE DEF r
      <3>6. Good(r, gen)
        BY <1>2, <3>2, <3>4, <3>5 DEF Good, Budget, Timely, Sending, Reopeners, Waiters
      <3>7. CallsGood' /\ Pollers' = IF place = "poll" THEN {c} ELSE {}
        <4>1. /\ CallsGood'
              /\ Pollers' = IF r.pc \in {"poll", "probed"} THEN Pollers \cup {c} ELSE Pollers \ {c}
          BY <1>1, <1>4, <3>1, <3>6, OneMoves
        <4> QED
          BY <1>3, <3>2, <3>5, <4>1
      <3>8. CASE asleep
        <4>1. ~handle'.lock
          BY <1>1, <2>1, <3>8 DEF HandleType
        <4> QED
          BY <2>3, <3>3, <3>7, <3>8, <4>1 DEF NIInv, OnePoller
      <3>9. CASE ~asleep
        <4>1. handle' = handle
          BY <2>1, <2>5, <3>9
        <4>2. place = "poll"
          BY <3>2, <3>3, <3>9
        <4>3. OnePoller'
          BY <1>3, <3>7, <4>1, <4>2 DEF OnePoller
        <4> QED
          BY <2>3, <3>7, <4>3 DEF NIInv
      <3> QED
        BY <3>8, <3>9
    <2> QED
      BY <2>4, <2>5
  <1> QED
    BY <1>6, <1>7

----------------------------------------------------------------------------
(* No reopening is in flight.                                              *)
LEMMA NoReopenTyped ==
  NoReopen \in ReopenType /\ NoReopen.pc = "none" /\ NoReopen.gen = NoGen /\ NoReopen.answer = NoGen
  BY GenFacts DEF NoReopen, ReopenType, MaybeGen

(* A call asks for the reopening: done, in flight, refused or begun.       *)
LEMMA AsksPreserves ==
  ASSUME NIInv, NEW c \in Calls, reopenedAfterDeadlinePause(c)
  PROVE  NIInv'
  <1>1. /\ CallsGood /\ gen \in Gens /\ HandleGood /\ handle \in HandleType
        /\ expired \in BOOLEAN /\ Marks
    BY DEF NIInv, HandleGood
  <1>2. Good(call[c], gen) /\ call[c] \in CallType /\ call[c].pc = "expired"
    BY <1>1 DEF CallsGood, Good, reopenedAfterDeadlinePause
  <1>3. UNCHANGED <<vm, gen, expired, handle, trigger, opened>>
    BY DEF reopenedAfterDeadlinePause, world
  <1>4. /\ Good(At(c, "failed")[c], gen) /\ At(c, "failed")[c].pc = "failed"
        /\ At(c, "failed") = [call EXCEPT ![c] = At(c, "failed")[c]]
    BY <1>1, EndedIsGood
  <1>5. Good(Again(c), gen) /\ Again(c).pc \in {"sent", "done"}
    <2>1. call[c].pc \in Waiters \cup Reopeners /\ call[c].reason # "gate"
      BY <1>2 DEF Reopeners, Good, Timely
    <2> QED
      BY <1>1, <2>1, AgainIsGood
  <1> DEFINE r == At(c, "reopening")[c]
  <1>6. /\ At(c, "reopening") = [call EXCEPT ![c] = r] /\ r.pc = "reopening" /\ Good(r, gen)
    <2>1. "reopening" \in AllPc \ {"done", "failed"}
      BY DEF AllPc, Reopeners
    <2>2. /\ At(c, "reopening") = [call EXCEPT ![c] = r] /\ r \in CallType
          /\ r.pc = "reopening" /\ r.kind = call[c].kind /\ r.seen = call[c].seen
          /\ r.reason = call[c].reason /\ r.tries = call[c].tries
          /\ r.answer = call[c].answer /\ r.runs = call[c].runs /\ r.gated = call[c].gated
      BY <1>1, <2>1, AtMoves
    <2> HIDE DEF r
    <2>3. Good(r, gen)
      BY <1>2, <2>2 DEF Good, Budget, Timely, Sending, Reopeners, Waiters
    <2> QED
      BY <2>2, <2>3
  <1> HIDE DEF r
  <1>7. CASE UNCHANGED reopen
    <2>1. CASE call' = At(c, "failed")
      BY <1>2, <1>3, <1>4, <1>7, <2>1, CallAlone
    <2>2. CASE call' = [call EXCEPT ![c] = Again(c)]
      BY <1>2, <1>3, <1>5, <1>7, <2>2, CallAlone
    <2>3. CASE call' = At(c, "reopening")
      BY <1>2, <1>3, <1>6, <1>7, <2>3, CallAlone
    <2> QED
      BY <1>7, <2>1, <2>2, <2>3 DEF reopenedAfterDeadlinePause
  <1>8. CASE reopen' # reopen
    <2>1. handle.mark # NoGen /\ call' = At(c, "reopening")
      BY <1>8 DEF reopenedAfterDeadlinePause
    <2>2. PICK g \in healthAnswers :
            reopen' = [NoReopen EXCEPT !.pc = "probed", !.gen = handle.mark, !.answer = g,
                                       !.expired = expired]
      BY <1>8 DEF reopenedAfterDeadlinePause
    <2>3. g \in {gen, NoGen} /\ g \in MaybeGen
      BY <1>1 DEF healthAnswers, MaybeGen
    <2>4. handle.mark \in MaybeGen
      BY <1>1 DEF HandleType
    <2>5. reopen' \in ReopenType
      BY <1>1, <2>2, <2>3, <2>4, NoReopenTyped DEF ReopenType
    <2>6. reopen'.pc = "probed" /\ reopen'.gen = handle.mark /\ reopen'.answer = g
      BY <2>2 DEF NoReopen
    <2>7. HandleGood'
      <3>1. gen <= gen
        BY <1>1, GenFacts
      <3> QED
        BY <1>1, <1>3, <2>3, <2>5, <2>6, <3>1 DEF HandleGood
    <2>8. CallsGood' /\ OnePoller'
      BY <1>2, <1>3, <1>6, <2>1, Bystander
    <2>9. Marks'
      <3>1. \A i \in Gens : Issued(i)' => Issued(i)
        BY <1>3, <2>6 DEF Issued
      <3> QED
        BY <1>1, <1>3, <2>1, <2>6, <3>1 DEF Marks
    <2> QED
      BY <2>7, <2>8, <2>9 DEF NIInv
  <1> QED
    BY <1>7, <1>8

(* Those who waited for a mint or for the reopening go on.                 *)
LEMMA SettledIsGood ==
  ASSUME NIInv, NEW ok \in BOOLEAN, call' = Settled(ok), gen' = gen
  PROVE  CallsGood' /\ Pollers' = Pollers
  <1>1. CallsGood /\ gen \in Gens
    BY DEF NIInv, HandleGood
  <1>2. ASSUME NEW c \in Calls, call[c].pc = "reopening"
        PROVE  /\ Good(Again(c), gen) /\ Again(c).pc \in {"sent", "done"}
               /\ Good(At(c, "failed")[c], gen) /\ At(c, "failed")[c].pc = "failed"
    <2>1. call[c].pc \in Waiters \cup Reopeners /\ call[c].reason # "gate"
      BY <1>1, <1>2 DEF CallsGood, Reopeners, Good, Timely
    <2> QED
      BY <1>1, <2>1, AgainIsGood, EndedIsGood
  <1>3. ASSUME NEW c \in Calls
        PROVE  /\ Good(call'[c], gen)
               /\ call'[c].pc \in {"poll", "probed"} <=> call[c].pc \in {"poll", "probed"}
    <2>1. call'[c] = IF call[c].pc # "reopening" THEN call[c]
                     ELSE IF ok THEN Again(c) ELSE At(c, "failed")[c]
      BY DEF Settled
    <2>2. Good(call[c], gen)
      BY <1>1 DEF CallsGood
    <2> QED
      BY <1>2, <2>1, <2>2
  <1>4. DOMAIN call' = Calls
    BY DEF Settled
  <1> QED
    BY <1>3, <1>4 DEF CallsGood, Pollers

(* A mint settles every call that waits for it.                            *)
LEMMA MintPreserves ==
  ASSUME NIInv, mintNow
  PROVE  NIInv'
  <1>1. CallsGood /\ gen \in Gens
    BY DEF NIInv, HandleGood
  <1>2. ASSUME NEW c \in Calls
        PROVE  /\ Good(call'[c], gen)
               /\ call'[c].pc \in {"poll", "probed"} <=> call[c].pc \in {"poll", "probed"}
    <2>1. Good(call[c], gen) /\ call[c] \in CallType
      BY <1>1 DEF CallsGood, Good
    <2> DEFINE r == [call[c] EXCEPT !.pc = "sent", !.minted = TRUE]
    <2>2. CASE call[c].pc = "minting" /\ call'[c] = r
      <3>1. "sent" \in AllPc
        BY DEF AllPc, Sending
      <3>2. r \in CallType
        BY <2>1, <3>1 DEF CallType
      <3>3. /\ r.pc = "sent" /\ r.kind = call[c].kind /\ r.seen = call[c].seen
            /\ r.tries = call[c].tries /\ r.answer = call[c].answer /\ r.runs = call[c].runs
            /\ r.gated = call[c].gated /\ r.reason = call[c].reason
        BY <2>1 DEF CallType
      <3> HIDE DEF r
      <3>4. Good(r, gen)
        BY <2>1, <2>2, <3>2, <3>3 DEF Good, Budget, Timely, Sending, Reopeners, Waiters
      <3> QED
        BY <2>2, <3>3, <3>4
    <2>3. CASE call[c].pc = "minting" /\ call'[c] = At(c, "failed")[c]
      BY <1>1, <2>3, EndedIsGood
    <2>4. CASE call'[c] = call[c]
      BY <2>1, <2>4
    <2> QED
      BY <2>2, <2>3, <2>4 DEF mintNow
  <1>3. DOMAIN call' = Calls
    BY DEF mintNow
  <1>4. UNCHANGED <<vm, gen, expired, handle, trigger, reopen, opened>>
    BY DEF mintNow
  <1>5. CallsGood' /\ Pollers' = Pollers
    BY <1>2, <1>3, <1>4 DEF CallsGood, Pollers
  <1>6. HandleGood' /\ OnePoller'
    BY <1>4, <1>5 DEF NIInv, HandleGood, OnePoller
  <1>7. Marks'
    BY <1>4 DEF NIInv, Marks, Issued
  <1> QED
    BY <1>5, <1>6, <1>7 DEF NIInv

(* consumeDeadlinePause takes a mark away or leaves it.                    *)
LEMMA Consumed ==
  ASSUME NEW h \in HandleType, NEW g
  PROVE  LET k == consumeDeadlinePause(h, g) IN
         /\ k \in HandleType /\ k.gen = h.gen /\ k.lock = h.lock /\ k.reopens = h.reopens
         /\ k.mark = IF h.mark = g THEN NoGen ELSE h.mark
  BY DEF consumeDeadlinePause, HandleType, MaybeGen

(* A step of the reopening that is answered nothing.                       *)
LEMMA ReopenMoves ==
  ASSUME NIInv, UNCHANGED <<vm, gen>>, expired' \in BOOLEAN,
         \/ opened' = opened
         \/ reopen.gen \in Gens /\ opened[reopen.gen] # "done" /\ opened' = Applied("lost"),
         handle' \in HandleType, handle'.gen <= gen, handle'.mark \in {handle.mark, NoGen},
         trigger' \in TriggerType, trigger' = trigger \/ trigger'.pc \in {"armed", "off"},
         reopen' \in ReopenType, reopen'.answer # NoGen => reopen'.answer <= gen,
         reopen'.gen \in {reopen.gen, NoGen},
         reopen'.pc # "none" => reopen.pc # "none" /\ reopen'.gen = reopen.gen
  PROVE  HandleGood' /\ Marks'
  <1>1. HandleGood'
    BY DEF NIInv, HandleGood
  <1>4. opened \in [Gens -> {"none", "lost", "done"}]
    BY DEF NIInv, Marks
  <1>5. /\ opened' \in [Gens -> {"none", "lost", "done"}]
        /\ \A g \in Gens : opened'[g] # opened[g] => g = reopen.gen /\ opened'[g] = "lost"
    BY <1>4 DEF Applied
  <1>2. \A g \in Gens : Issued(g)' => Issued(g)
    BY <1>5, GenFacts DEF Issued
  <1>6. \A g \in Gens : opened[g] # "done" => opened'[g] # "done"
    BY <1>5
  <1>7. handle'.mark \in MaybeGen /\ reopen'.gen \in MaybeGen
    BY DEF HandleType, ReopenType
  <1>8. handle'.mark # NoGen => opened'[handle'.mark] # "done"
    BY <1>6, <1>7 DEF NIInv, Marks, MaybeGen
  <1>9. reopen'.pc # "none" => reopen'.gen # NoGen /\ opened'[reopen'.gen] # "done"
    BY <1>6, <1>7 DEF NIInv, Marks, MaybeGen
  <1>3. Marks'
    BY <1>2, <1>5, <1>8, <1>9 DEF NIInv, Marks
  <1> QED
    BY <1>1, <1>3

(* The Health answer of the reopening is read.                             *)
LEMMA ReopenPreserves ==
  ASSUME NIInv, reopenAfterDeadlinePause
  PROVE  NIInv'
  <1> DEFINE h == recordHealth(reopen.answer)
  <1>1. /\ CallsGood /\ gen \in Gens /\ HandleGood /\ handle \in HandleType
        /\ trigger \in TriggerType /\ reopen \in ReopenType /\ expired \in BOOLEAN
        /\ (reopen.answer # NoGen => reopen.answer <= gen)
    BY DEF NIInv, HandleGood
  <1>2. UNCHANGED <<vm, gen, expired, opened>>
    BY DEF reopenAfterDeadlinePause, world
  <1>3. h \in HandleType /\ h.gen <= gen /\ h.mark = handle.mark /\ h.lock = handle.lock
    <2>1. reopen.answer \in MaybeGen
      BY <1>1 DEF ReopenType
    <2> QED
      BY <1>1, <2>1, RecordHealth
  <1>4. trigger' \in TriggerType /\ (trigger' = trigger \/ trigger'.pc \in {"armed", "off"})
    BY <1>1, RecordLifecycle DEF reopenAfterDeadlinePause
  <1>5. \/ reopen' = NoReopen /\ call' = Settled(FALSE) /\ handle' = h
        \/ /\ reopen' = [reopen EXCEPT !.pc = "set", !.tries = 1, !.seen = h.gen]
           /\ handle' = h /\ call' = call
        \/ reopen' = NoReopen /\ call' = Settled(FALSE) /\ handle' = consumeDeadlinePause(h, reopen.gen)
    BY DEF reopenAfterDeadlinePause
  <1> HIDE DEF h
  <1>6. /\ handle' \in HandleType /\ handle'.gen <= gen /\ handle'.mark \in {handle.mark, NoGen}
        /\ handle'.lock = handle.lock
    <2>1. CASE handle' = h
      BY <1>3, <2>1
    <2>2. CASE handle' = consumeDeadlinePause(h, reopen.gen)
      <3> DEFINE k == consumeDeadlinePause(h, reopen.gen)
      <3>1. /\ k \in HandleType /\ k.gen = h.gen /\ k.lock = h.lock
            /\ k.mark = IF h.mark = reopen.gen THEN NoGen ELSE h.mark
        BY <1>3, Consumed
      <3> HIDE DEF k
      <3>2. handle' = k
        BY <2>2 DEF k
      <3> QED
        BY <1>3, <3>1, <3>2
    <2> QED
      BY <1>5, <2>1, <2>2
  <1>7. /\ reopen' \in ReopenType /\ (reopen'.answer # NoGen => reopen'.answer <= gen)
        /\ reopen'.gen \in {reopen.gen, NoGen}
        /\ (reopen'.pc # "none" => reopen.pc # "none" /\ reopen'.gen = reopen.gen)
    <2>1. CASE reopen' = NoReopen
      BY <2>1, NoReopenTyped
    <2>2. CASE reopen' = [reopen EXCEPT !.pc = "set", !.tries = 1, !.seen = h.gen]
      <3>1. reopen.pc = "probed" /\ h.gen \in Gens /\ 1 \in 0 .. 2
        BY <1>3 DEF reopenAfterDeadlinePause, HandleType
      <3>2. reopen' \in ReopenType /\ reopen'.gen = reopen.gen /\ reopen'.answer = reopen.answer
        BY <1>1, <2>2, <3>1 DEF ReopenType
      <3> QED
        BY <1>1, <3>1, <3>2
    <2> QED
      BY <1>5, <2>1, <2>2
  <1>8. HandleGood' /\ Marks'
    BY <1>1, <1>2, <1>4, <1>6, <1>7, ReopenMoves
  <1>9. CallsGood' /\ Pollers' = Pollers
    <2>1. CASE call' = call
      BY <1>1, <1>2, <2>1 DEF CallsGood, Pollers
    <2>2. CASE call' = Settled(FALSE)
      BY <1>2, <2>2, SettledIsGood
    <2> QED
      BY <1>5, <2>1, <2>2
  <1>10. OnePoller'
    BY <1>6, <1>9 DEF NIInv, OnePoller
  <1> QED
    BY <1>8, <1>9, <1>10 DEF NIInv

(* A SetTimeout without an answer is sent again, or given up.              *)
LEMMA SetAgainMoves ==
  ASSUME NIInv, SetAgain, reopen.pc # "none", UNCHANGED <<vm, gen, handle, trigger>>,
         expired' \in BOOLEAN,
         opened' = opened \/ opened' = Applied("lost")
  PROVE  NIInv'
  <1>1. /\ CallsGood /\ gen \in Gens /\ HandleGood /\ handle \in HandleType /\ handle.gen <= gen
        /\ trigger \in TriggerType /\ reopen \in ReopenType /\ Marks
        /\ (reopen.answer # NoGen => reopen.answer <= gen)
    BY DEF NIInv, HandleGood
  <1>2. reopen.gen \in Gens /\ opened[reopen.gen] # "done"
    BY <1>1 DEF Marks, ReopenType, MaybeGen
  <1>3. /\ reopen' \in ReopenType /\ (reopen'.answer # NoGen => reopen'.answer <= gen)
        /\ reopen'.gen \in {reopen.gen, NoGen}
        /\ (reopen'.pc # "none" => reopen'.gen = reopen.gen)
    <2>1. CASE reopen' = NoReopen
      BY <2>1, NoReopenTyped
    <2>2. CASE reopen' = [reopen EXCEPT !.pc = "cut", !.gate = (vm = "SUSPENDING")]
      BY <1>1, <2>2 DEF ReopenType
    <2> QED
      BY <2>1, <2>2 DEF SetAgain
  <1>4. HandleGood' /\ Marks'
    BY <1>1, <1>2, <1>3, ReopenMoves
  <1>5. CallsGood' /\ Pollers' = Pollers
    <2>1. CASE call' = call
      BY <1>1, <2>1 DEF CallsGood, Pollers
    <2>2. CASE call' = Settled(FALSE)
      BY <2>2, SettledIsGood
    <2> QED
      BY <2>1, <2>2 DEF SetAgain
  <1> QED
    BY <1>4, <1>5 DEF NIInv, OnePoller

(* The reconnection of a SetTimeout that was cut.                          *)
LEMMA ReopenReconnects ==
  ASSUME NIInv, reopenReconnects
  PROVE  NIInv'
  <1>1. /\ CallsGood /\ gen \in Gens /\ HandleGood /\ handle \in HandleType /\ handle.gen <= gen
        /\ trigger \in TriggerType /\ reopen \in ReopenType /\ expired \in BOOLEAN
        /\ (reopen.answer # NoGen => reopen.answer <= gen)
    BY DEF NIInv, HandleGood
  <1>2. UNCHANGED <<vm, gen, expired, opened>> /\ reopen.pc = "cut"
    BY DEF reopenReconnects, world
  <1>3. CASE reopen' = NoReopen /\ call' = Settled(FALSE) /\ UNCHANGED <<handle, trigger>>
    <2>1. HandleGood' /\ Marks'
      BY <1>1, <1>2, <1>3, NoReopenTyped, ReopenMoves
    <2>2. CallsGood' /\ Pollers' = Pollers
      BY <1>2, <1>3, SettledIsGood
    <2> QED
      BY <1>3, <2>1, <2>2 DEF NIInv, OnePoller
  <1>4. CASE /\ \E g \in healthAnswers : handle' = recordHealth(g)
             /\ trigger' = recordLifecycle
             /\ reopen' = [reopen EXCEPT !.pc = "set", !.tries = 2] /\ UNCHANGED call
    <2>1. PICK g \in healthAnswers : handle' = recordHealth(g)
      BY <1>4
    <2>2. g \in MaybeGen /\ (g # NoGen => g <= gen)
      BY <1>1, GenFacts DEF healthAnswers, MaybeGen
    <2>3. /\ handle' \in HandleType /\ handle'.gen <= gen /\ handle'.mark = handle.mark
          /\ handle'.lock = handle.lock
      BY <1>1, <2>1, <2>2, RecordHealth
    <2>4. trigger' \in TriggerType /\ (trigger' = trigger \/ trigger'.pc \in {"armed", "off"})
      BY <1>1, <1>4, RecordLifecycle
    <2>5. reopen' \in ReopenType /\ reopen'.gen = reopen.gen /\ reopen'.answer = reopen.answer
      <3>1. reopen' = [reopen EXCEPT !.pc = "set", !.tries = 2] /\ 2 \in 0 .. 2
        BY <1>4
      <3> QED
        BY <1>1, <3>1 DEF ReopenType
    <2>6. HandleGood' /\ Marks'
      BY <1>1, <1>2, <2>3, <2>4, <2>5, ReopenMoves
    <2>7. CallsGood' /\ Pollers' = Pollers
      BY <1>1, <1>2, <1>4 DEF CallsGood, Pollers
    <2> QED
      BY <2>3, <2>6, <2>7 DEF NIInv, OnePoller
  <1> QED
    BY <1>3, <1>4 DEF reopenReconnects

(* SetTimeout: the suspension it is for was not reopened before.           *)
LEMMA SetTimeoutPreserves ==
  ASSUME NIInv, setTimeout
  PROVE  NIInv'
  <1>1. /\ CallsGood /\ gen \in Gens /\ HandleGood /\ handle \in HandleType /\ handle.gen <= gen
        /\ trigger \in TriggerType /\ reopen \in ReopenType /\ expired \in BOOLEAN /\ Marks
    BY DEF NIInv, HandleGood
  <1>2. UNCHANGED <<vm, gen>> /\ reopen.pc = "set"
    BY DEF setTimeout
  <1>3. CASE /\ SetAgain /\ UNCHANGED <<handle, trigger>> /\ expired' \in BOOLEAN
             /\ opened' = opened \/ opened' = Applied("lost")
    BY <1>2, <1>3, SetAgainMoves
  <1>4. CASE /\ expired' = FALSE /\ call' = Settled(TRUE) /\ reopen' = NoReopen
             /\ handle' = [consumeDeadlinePause(handle, reopen.gen) EXCEPT !.reopens = @ + 1]
             /\ trigger' = recordLifecycle
             /\ opened' = Applied("done")
    <2> DEFINE k == consumeDeadlinePause(handle, reopen.gen)
    <2>1. /\ k \in HandleType /\ k.gen = handle.gen /\ k.lock = handle.lock
          /\ k.mark = IF handle.mark = reopen.gen THEN NoGen ELSE handle.mark
      BY <1>1, Consumed
    <2>2. handle' = [k EXCEPT !.reopens = @ + 1]
      BY <1>4
    <2> HIDE DEF k
    <2>3. /\ handle' \in HandleType /\ handle'.gen = handle.gen /\ handle'.lock = handle.lock
          /\ handle'.mark = IF handle.mark = reopen.gen THEN NoGen ELSE handle.mark
      BY <2>1, <2>2 DEF HandleType
    <2>4. trigger' \in TriggerType /\ (trigger' = trigger \/ trigger'.pc \in {"armed", "off"})
      BY <1>1, <1>4, RecordLifecycle
    <2>5. CallsGood' /\ Pollers' = Pollers
      BY <1>2, <1>4, SettledIsGood
    <2>6. reopen.gen \in Gens /\ opened[reopen.gen] # "done" /\ opened \in [Gens -> {"none", "lost", "done"}]
      BY <1>1, <1>2 DEF Marks, ReopenType, MaybeGen
    <2>7. /\ opened' \in [Gens -> {"none", "lost", "done"}] /\ opened'[reopen.gen] = "done"
          /\ \A g \in Gens \ {reopen.gen} : opened'[g] = opened[g]
      BY <1>4, <2>6 DEF Applied
    <2>8. reopen' \in ReopenType /\ reopen'.pc = "none" /\ reopen'.gen = NoGen
          /\ reopen'.answer = NoGen
      BY <1>4, NoReopenTyped
    <2>9. HandleGood'
      <3>1. expired' \in BOOLEAN
        BY <1>4
      <3> QED
        BY <1>1, <1>2, <2>3, <2>4, <2>8, <3>1 DEF HandleGood
    <2>10. \A g \in Gens : Issued(g)' => Issued(g)
      <3> SUFFICES ASSUME NEW g \in Gens, Issued(g)'
                   PROVE  Issued(g)
        OBVIOUS
      <3>1. handle'.mark = g \/ opened'[g] # "none"
        BY <2>8, GenFacts DEF Issued
      <3>2. CASE handle'.mark = g
        BY <2>3, <3>2, GenFacts DEF Issued
      <3>3. CASE opened'[g] # "none"
        BY <2>6, <2>7, <3>3 DEF Issued
      <3> QED
        BY <3>1, <3>2, <3>3
    <2>11. handle'.mark # NoGen => opened'[handle'.mark] # "done"
      <3> SUFFICES ASSUME handle'.mark # NoGen
                   PROVE  opened'[handle'.mark] # "done"
        OBVIOUS
      <3>1. handle'.mark = handle.mark /\ handle.mark # reopen.gen /\ handle.mark \in Gens
        BY <1>1, <2>3 DEF HandleType, MaybeGen
      <3> QED
        BY <1>1, <2>7, <3>1, GenFacts DEF Marks
    <2>12. Marks'
      BY <1>1, <1>2, <2>4, <2>7, <2>8, <2>10, <2>11 DEF Marks
    <2>13. OnePoller'
      BY <2>3, <2>5 DEF NIInv, OnePoller
    <2> QED
      BY <2>5, <2>9, <2>12, <2>13 DEF NIInv
  <1> QED
    BY <1>1, <1>3, <1>4, Zenon DEF setTimeout

----------------------------------------------------------------------------
(* The trigger reads, decides and suspends: only the last step marks.      *)
LEMMA DeadlinePreserves ==
  ASSUME NIInv, Deadline
  PROVE  NIInv'
  <1>1. /\ CallsGood /\ gen \in Gens /\ HandleGood /\ handle \in HandleType /\ handle.gen <= gen
        /\ trigger \in TriggerType /\ Marks
    BY DEF NIInv, HandleGood
  <1>2. UNCHANGED <<gen, expired, reopen, call, opened>>
    BY DEF Deadline, onDeadline, suspendIfExpired, suspendForDeadline, world
  <1>3. CallsGood' /\ Pollers' = Pollers
    BY <1>1, <1>2 DEF CallsGood, Pollers
  <1>4. CASE onDeadline
    <2>1. /\ UNCHANGED <<vm, handle>> /\ trigger' \in TriggerType
          /\ trigger'.pc = "off" \/ (trigger'.pc = "health" /\ vm = "RUNNING")
      BY <1>1, <1>4 DEF onDeadline, world, TriggerType
    <2>2. HandleGood' /\ OnePoller'
      BY <1>2, <1>3, <2>1 DEF NIInv, HandleGood, OnePoller
    <2>3. \A g \in Gens : Issued(g)' <=> Issued(g)
      BY <1>2, <2>1 DEF Issued
    <2>4. Marks'
      BY <1>1, <1>2, <2>1, <2>3 DEF Marks
    <2> QED
      BY <1>3, <2>2, <2>4 DEF NIInv
  <1>5. CASE suspendIfExpired
    <2>1. PICK g \in healthAnswers :
            /\ handle' = recordHealth(g)
            /\ trigger' = IF g = NoGen THEN [trigger EXCEPT !.pc = "off"]
                          ELSE IF expired THEN [pc |-> "suspend", gen |-> g]
                          ELSE [trigger EXCEPT !.pc = IF handle.closed THEN "off" ELSE "armed"]
      BY <1>5 DEF suspendIfExpired
    <2>2. g \in {gen, NoGen} /\ g \in MaybeGen
      BY <1>1 DEF healthAnswers, MaybeGen
    <2>3. gen \in Nat /\ gen <= gen
      BY <1>1, GenFacts
    <2>4. /\ handle' \in HandleType /\ handle'.gen <= gen /\ handle'.mark = handle.mark
          /\ handle'.lock = handle.lock
      BY <1>1, <2>1, <2>2, <2>3, RecordHealth
    <2>5. /\ trigger' \in TriggerType
          /\ \/ trigger'.pc \in {"armed", "off"}
             \/ trigger'.pc = "suspend" /\ trigger'.gen = gen
      BY <1>1, <2>1, <2>2 DEF TriggerType
    <2>6. vm' = vm /\ trigger.pc = "health"
      BY <1>5 DEF suspendIfExpired, world
    <2>7. HandleGood' /\ OnePoller'
      <3>1. HandleGood'
        BY <1>1, <1>2, <2>4, <2>5, <2>6 DEF HandleGood
      <3> QED
        BY <1>3, <2>4, <3>1 DEF NIInv, OnePoller
    <2>8. \A i \in Gens : Issued(i)' <=> Issued(i)
      BY <1>2, <2>4 DEF Issued
    <2>9. Marks'
      BY <1>1, <1>2, <2>3, <2>4, <2>5, <2>6, <2>8 DEF Marks
    <2> QED
      BY <1>3, <2>7, <2>9 DEF NIInv
  <1>6. CASE suspendForDeadline
    <2>1. trigger.pc = "suspend" /\ trigger' = [pc |-> "off", gen |-> 0]
      BY <1>6 DEF suspendForDeadline
    <2>2. trigger' \in TriggerType /\ trigger'.pc = "off"
      BY <2>1, GenFacts DEF TriggerType
    <2>3. CASE UNCHANGED <<vm, handle>>
      <3>1. HandleGood' /\ Marks'
        BY <1>1, <1>2, <2>2, <2>3, NoNewMark
      <3> QED
        BY <1>3, <2>3, <3>1 DEF NIInv, OnePoller
    <2>4. CASE vm' = "SUSPENDING" /\ handle' = [handle EXCEPT !.mark = trigger.gen]
      <3>1. trigger.gen \in Gens /\ trigger.gen <= gen
        BY <1>1, <2>1 DEF TriggerType, Marks
      <3>2. /\ handle' \in HandleType /\ handle'.gen = handle.gen /\ handle'.lock = handle.lock
            /\ handle'.mark = trigger.gen
        BY <1>1, <2>4, <3>1 DEF HandleType, MaybeGen
      <3>3. HandleGood'
        BY <1>1, <1>2, <2>2, <2>4, <3>2 DEF HandleGood
      <3>4. OnePoller'
        BY <1>3, <3>2 DEF NIInv, OnePoller
      <3>5. opened[trigger.gen] = "none"
        <4>1. ASSUME NEW g \in Gens, g = trigger.gen
              PROVE  ~(opened[g] # "none")
          <5>1. Issued(g) => g < g
            BY <1>1, <2>1, <4>1 DEF Marks
          <5>2. g \in Nat
            BY GenFacts
          <5> QED
            BY <1>1, <5>1, <5>2 DEF Issued, Marks
        <4> QED
          BY <3>1, <4>1
      <3>6. \A g \in Gens : Issued(g)' => Issued(g) \/ g = trigger.gen
        BY <1>2, <3>2 DEF Issued
      <3>7. Marks'
        BY <1>1, <1>2, <2>2, <2>4, <3>1, <3>2, <3>5, <3>6 DEF Marks
      <3> QED
        BY <1>3, <3>3, <3>4, <3>7 DEF NIInv
    <2> QED
      BY <1>6, <2>3, <2>4 DEF suspendForDeadline
  <1> QED
    BY <1>4, <1>5, <1>6 DEF Deadline

(* The user of the handle, and the platform.                               *)
LEMMA EnvironmentPreserves ==
  ASSUME NIInv, tick \/ suspendMarkingPaused \/ close \/ Platform
  PROVE  NIInv'
  <1>1. /\ CallsGood /\ gen \in Gens /\ HandleGood /\ handle \in HandleType /\ handle.gen <= gen
        /\ trigger \in TriggerType /\ expired \in BOOLEAN /\ Marks
    BY DEF NIInv, HandleGood
  <1>2. gen \in Nat /\ UNCHANGED <<reopen, call, opened>>
    BY <1>1, GenFacts
    DEF tick, suspendMarkingPaused, close, Platform, Freeze, Resume, Expire, TokenExpires, TerminateVM
  <1>3. /\ gen' \in Gens /\ gen <= gen' /\ (gen' # gen => gen' = gen + 1)
        /\ vm' \in {"RUNNING", "SUSPENDING", "SUSPENDED", "TERMINATED"}
        /\ (vm' = "RUNNING" => vm = "RUNNING" \/ gen' = gen + 1)
    BY <1>1, <1>2, ConnectionAssumption
    DEF tick, suspendMarkingPaused, close, Platform, Freeze, Resume, Expire, TokenExpires, TerminateVM,
        HandleGood, Gens, world
  <1>4. /\ handle' \in HandleType /\ handle'.gen = handle.gen /\ handle'.mark = handle.mark
        /\ handle'.lock = handle.lock
    BY <1>1
    DEF tick, suspendMarkingPaused, close, Platform, Freeze, Resume, Expire, TokenExpires, TerminateVM,
        HandleType
  <1>5. /\ trigger' \in TriggerType
        /\ trigger' = trigger \/ (trigger'.pc = "off" /\ trigger.pc = "armed")
    BY <1>1
    DEF tick, suspendMarkingPaused, close, Platform, Freeze, Resume, Expire, TokenExpires, TerminateVM,
        TriggerType
  <1>6. expired' \in BOOLEAN
    BY <1>1, Zenon
    DEF tick, suspendMarkingPaused, close, Platform, Freeze, Resume, Expire, TokenExpires, TerminateVM,
        world
  <1>7. CallsGood' /\ Pollers' = Pollers
    <2>1. gen' \in Nat
      BY <1>3, GenFacts
    <2> QED
      BY <1>1, <1>2, <1>3, <2>1, LaterIsGood DEF CallsGood, Pollers
  <1>8. HandleGood' /\ OnePoller'
    <2>1. handle.gen \in Nat /\ gen' \in Nat /\ (reopen.answer # NoGen => reopen.answer <= gen)
          /\ reopen \in ReopenType
      BY <1>1, <1>3, GenFacts DEF HandleGood, HandleType
    <2>2. reopen.answer \in Nat
      BY <2>1, GenFacts DEF ReopenType
    <2>3. HandleGood'
      BY <1>1, <1>2, <1>3, <1>4, <1>5, <1>6, <2>1, <2>2 DEF HandleGood
    <2> QED
      BY <1>4, <1>7, <2>3 DEF NIInv, OnePoller
  <1>9. \A g \in Gens : Issued(g)' <=> Issued(g)
    BY <1>2, <1>4 DEF Issued
  <1>10. Marks'
    <2>1. trigger.gen \in Nat /\ gen' \in Nat
      BY <1>1, <1>3, GenFacts DEF TriggerType
    <2>2. \A g \in Gens : Issued(g)' =>
            /\ g <= gen'
            /\ vm' = "RUNNING" \/ trigger'.pc = "health" => g < gen'
            /\ trigger'.pc = "suspend" => g < trigger'.gen
      BY <1>1, <1>2, <1>3, <1>5, <1>9, <2>1, GenFacts DEF Marks
    <2>3. trigger'.pc = "suspend" => trigger'.gen <= gen'
      BY <1>1, <1>2, <1>3, <1>5, <2>1 DEF Marks
    <2> QED
      BY <1>1, <1>2, <1>4, <2>2, <2>3 DEF Marks
  <1> QED
    BY <1>7, <1>8, <1>10 DEF NIInv

----------------------------------------------------------------------------
(* The invariant of the connection is inductive.                           *)
THEOREM ConnectionInductive == Spec => []NIInv
  <1>1. Init => NIInv
    <2> SUFFICES ASSUME Init
                 PROVE  NIInv
      OBVIOUS
    <2>1. NewCall \in CallType
      BY GenFacts DEF NewCall, CallType, AllPc, MaybeGen, Kinds
    <2>2. /\ NewCall.pc = "idle" /\ NewCall.seen = 0 /\ NewCall.answer = NoGen /\ NewCall.runs = 0
          /\ NewCall.reason = "none"
      BY DEF NewCall
    <2>3. Good(NewCall, 0)
      BY <2>1, <2>2 DEF Good, Budget, Timely, Sending, Reopeners, Waiters
    <2>4. CallsGood /\ Pollers = {}
      BY <2>2, <2>3 DEF Init, CallsGood, Pollers
    <2>5. /\ handle \in HandleType /\ handle.gen = 0 /\ ~handle.lock /\ handle.mark = NoGen
      BY GenFacts DEF Init, HandleType, MaybeGen
    <2>6. reopen \in ReopenType /\ reopen.pc = "none" /\ reopen.gen = NoGen /\ reopen.answer = NoGen
      BY NoReopenTyped DEF Init, NoReopen
    <2>7. trigger \in TriggerType /\ trigger.pc = "armed"
      BY GenFacts DEF Init, TriggerType
    <2>8. HandleGood
      <3>1. expired \in BOOLEAN
        BY DEF Init
      <3>2. vm = "RUNNING" /\ gen = 0 /\ gen \in Gens
        BY GenFacts DEF Init
      <3> QED
        BY <2>5, <2>6, <2>7, <3>1, <3>2 DEF HandleGood
    <2>9. OnePoller
      BY <2>4, <2>5 DEF OnePoller
    <2>10. Marks
      <3>1. opened \in [Gens -> {"none", "lost", "done"}] /\ \A g \in Gens : opened[g] = "none"
        BY DEF Init
      <3>2. \A g \in Gens : ~Issued(g)
        BY <2>5, <2>6, <3>1, GenFacts DEF Issued
      <3> QED
        BY <2>5, <2>6, <2>7, <3>1, <3>2 DEF Marks
    <2> QED
      BY <2>4, <2>8, <2>9, <2>10 DEF NIInv
  <1>2. NIInv /\ [Next]_vars => NIInv'
    <2> SUFFICES ASSUME NIInv, [Next]_vars
                 PROVE  NIInv'
      OBVIOUS
    <2>1. CASE UNCHANGED vars
      <3>1. UNCHANGED <<vm, gen, expired, handle, trigger, reopen, call, opened>>
        BY <2>1 DEF vars, world
      <3> QED
        BY <3>1 DEF NIInv, CallsGood, HandleGood, OnePoller, Pollers, Marks, Issued
    <2>2. ASSUME NEW c \in Calls, Sends(c) \/ Step(c)
          PROVE  NIInv'
      BY <2>2, SendsPreserves, RunsPreserves, RefusedPreserves, WaitsPreserve, ReturnsPreserves,
         LockPreserves, ReconnectedPreserves, AsksPreserves
      DEF Step, Waits
    <2>3. CASE Shared
      BY <2>3, MintPreserves, ReopenPreserves, SetTimeoutPreserves, ReopenReconnects DEF Shared
    <2>4. CASE Deadline
      BY <2>4, DeadlinePreserves
    <2>5. CASE tick \/ suspendMarkingPaused \/ close \/ Platform
      BY <2>5, EnvironmentPreserves
    <2> QED
      BY <2>1, <2>2, <2>3, <2>4, <2>5 DEF Next
  <1> QED
    BY <1>1, <1>2, PTL DEF Spec

(* The connection of a handle is sound: one poller holds the lock, nothing *)
(* that may not repeat runs twice, a call the phase gate cut is sent again *)
(* only after the resume of the suspension that cut it (if its handle had  *)
(* missed none), and once a SetTimeout was answered no other is applied    *)
(* for that suspension, although one whose answer was lost is repeated.    *)
THEOREM ConnectionIsSound == Spec => []ConnectionSound
  <1>1. NIInv => ConnectionSound
    <2> SUFFICES ASSUME NIInv
                 PROVE  ConnectionSound
      OBVIOUS
    <2>1. Cardinality(Pollers) = IF handle.lock THEN 1 ELSE 0
      <3>1. CASE handle.lock
        <4>1. PICK c \in Calls : Pollers = {c}
          BY <3>1 DEF NIInv, OnePoller
        <4> QED
          BY <3>1, <4>1, FS_Singleton
      <3>2. CASE ~handle.lock
        BY <3>2, FS_EmptySet DEF NIInv, OnePoller
      <3> QED
        BY <3>1, <3>2
    <2>2. TypeOK
      BY <2>1 DEF NIInv, TypeOK, HandleGood, HandleType, CallsGood, Good, CallType, MaybeGen
    <2>3. NeverTwice
      BY DEF NIInv, NeverTwice, CallsGood, Good, Budget
    <2>4. RepeatedAfterResume
      <3> SUFFICES ASSUME NEW c \in Calls, call[c].pc = "sent", call[c].tries = 2,
                          call[c].reason = "gate"
                   PROVE  gen > call[c].gated \/ call[c].seen < call[c].gated
        BY DEF RepeatedAfterResume
      <3>1. Timely(call[c], gen) /\ call[c] \in CallType /\ gen \in Gens
        BY DEF NIInv, CallsGood, Good, HandleGood
      <3>2. gen \in Nat /\ call[c].seen \in Nat /\ call[c].gated \in Nat
        BY <3>1, GenFacts DEF CallType
      <3> QED
        BY <3>1, <3>2 DEF Timely
    <2>5. OneReopenPerSuspension
      BY DEF NIInv, OneReopenPerSuspension, Marks
    <2> QED
      BY <2>2, <2>3, <2>4, <2>5 DEF ConnectionSound
  <1> QED
    BY <1>1, ConnectionInductive, PTL

(* The reopening of one suspension never takes away the mark of another.   *)
THEOREM MarkIsNeverAnothers == Spec => MarkIsOwn
  <1>1. NIInv /\ [Next]_vars =>
          [handle.mark # NoGen /\ handle'.mark = NoGen => reopen.gen = handle.mark]_vars
    <2> SUFFICES ASSUME NIInv, Next, handle.mark # NoGen, handle'.mark = NoGen
                 PROVE  reopen.gen = handle.mark
      BY DEF vars
    <2>1. /\ HandleGood /\ handle \in HandleType /\ gen \in Gens /\ reopen \in ReopenType
          /\ trigger \in TriggerType
      BY DEF NIInv, HandleGood
    <2>2. handle' # handle
      OBVIOUS
    <2>3. CASE reopenAfterDeadlinePause
      <3> DEFINE h == recordHealth(reopen.answer)
      <3>1. h \in HandleType /\ h.mark = handle.mark
        <4>1. reopen.answer \in MaybeGen /\ (reopen.answer # NoGen => reopen.answer <= gen)
          BY <2>1 DEF HandleGood, ReopenType
        <4> QED
          BY <2>1, <4>1, RecordHealth
      <3>2. handle' = h \/ handle' = consumeDeadlinePause(h, reopen.gen)
        BY <2>3 DEF reopenAfterDeadlinePause
      <3> HIDE DEF h
      <3> QED
        BY <3>1, <3>2 DEF consumeDeadlinePause, HandleType
    <2>4. CASE setTimeout
      <3> DEFINE k == consumeDeadlinePause(handle, reopen.gen)
      <3>1. k \in HandleType /\ k.mark = IF handle.mark = reopen.gen THEN NoGen ELSE handle.mark
        BY <2>1, Consumed
      <3>2. handle' = [k EXCEPT !.reopens = @ + 1]
        BY <2>2, <2>4 DEF setTimeout, SetAgain
      <3> HIDE DEF k
      <3>3. handle'.mark = k.mark
        BY <3>1, <3>2 DEF HandleType
      <3> QED
        BY <3>1, <3>3
    <2>5. CASE suspendForDeadline
      <3>1. handle' = [handle EXCEPT !.mark = trigger.gen] /\ trigger.gen \in Gens
        BY <2>1, <2>2, <2>5 DEF suspendForDeadline, TriggerType
      <3> QED
        BY <2>1, <3>1, GenFacts DEF HandleType
    <2>6. CASE suspendIfExpired \/ reopenReconnects
      <3>1. PICK g \in healthAnswers : handle' = recordHealth(g)
        BY <2>2, <2>6 DEF suspendIfExpired, reopenReconnects
      <3> QED
        BY <2>1, <3>1 DEF recordHealth, HandleType
    <2>7. CASE tick \/ suspendMarkingPaused \/ close \/ Platform \/ onDeadline \/ mintNow
      BY <2>1, <2>7
      DEF tick, suspendMarkingPaused, close, Platform, Freeze, Resume, Expire, TokenExpires,
          TerminateVM, onDeadline, mintNow, HandleType
    <2>8. ASSUME NEW c \in Calls, Sends(c) \/ Step(c)
          PROVE  handle'.mark = handle.mark
      <3>1. CASE reconnected(c)
        BY <2>1, <3>1 DEF reconnected, recordHealth, HandleType
      <3>2. CASE pollHoldingTheLock(c) \/ reconnectTimedOut(c) \/ Returns(c)
        BY <2>1, <3>2 DEF pollHoldingTheLock, reconnectTimedOut, Returns, HandleType
      <3>3. CASE \/ Sends(c) \/ Runs(c) \/ Refused(c) \/ refreshAll(c) \/ reconnect(c)
                 \/ sleepWhileSuspended(c) \/ probeHealth(c) \/ reopenedAfterDeadlinePause(c)
        BY <3>3
        DEF Sends, Runs, Refused, refreshAll, reconnect, sleepWhileSuspended, probeHealth,
            reopenedAfterDeadlinePause
      <3> QED
        BY <2>8, <3>1, <3>2, <3>3 DEF Step, Waits
    <2> QED
      BY <2>3, <2>4, <2>5, <2>6, <2>7, <2>8 DEF Next, Shared, Deadline
  <1> QED
    BY <1>1, ConnectionInductive, PTL DEF Spec, MarkIsOwn

=============================================================================
