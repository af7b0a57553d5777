-------------------------- MODULE AgentHostProofs --------------------------
(***************************************************************************)
(* Proofs about the supervisor of the deployed application (the second     *)
(* part of AgentHost), for any restart policy, any clock and any number of *)
(* launches, as a flow of MCSdkFlows.                                      *)
(*                                                                         *)
(* OneAppAtATime needs to know that only the newest process can be present *)
(* (OnlyNewest) and that the monitor has killed it before it counts the    *)
(* death and launches the next (Cleared).  StopLeavesNothing follows the   *)
(* one who must kill the process: the supervisor's field while no stop()   *)
(* took it, then the thread of the stop (Held); it needs that a stop which *)
(* was not early is never forgotten (Flagged).  GivesUpFairly needs that   *)
(* the deque of the budget is the end of the true history, and that this   *)
(* history grows with the clock (Remembered).                              *)
(***************************************************************************)
EXTENDS MCSdkFlows, FiniteSetTheorems, TLAPS

(* The values of every field of the supervisor.                            *)
AppState == {"none", "up", "ready", "rest", "gone"}
MainPc == {"idle", "keep", "clear", "await", "state", "returned", "raised"}
MonPc == {"none", "watch", "wait", "recover", "budget", "backoff", "publish", "await", "over"}
Slot == 0..MaxApps                    \* a process, or none
Count == 1..(MaxApps + 1)
CrewTypeOK ==
    crew \in [on : BOOLEAN, now : Nat, app : [Apps -> AppState],
              next : Count, st : {"stopped", "running", "restarting", "failed"},
              stop : BOOLEAN, child : Slot, main : MainPc, mon : MonPc, mine : Slot,
              stopper : {"idle", "take", "kill", "done"}, taken : Slot,
              deaths : Seq(Nat), hist : Seq(Nat), told : BOOLEAN, early : BOOLEAN]

(* No process of any group is left.                                        *)
Empty == \A a \in Apps : crew.app[a] \in {"none", "gone"}

(* Only the process launched last can be present.                          *)
OnlyNewest ==
    /\ crew.mine = crew.next - 1 /\ crew.child < crew.next /\ crew.taken < crew.next
    /\ \A a \in Apps : a >= crew.next => crew.app[a] = "none"
    /\ \A a \in Apps : a # crew.mine => crew.app[a] \in {"none", "gone"}

(* The start comes before the monitor, and finds nothing.                  *)
Started ==
    /\ crew.main = "idle" => crew.next = 1 /\ crew.stopper = "idle"
    /\ crew.main \in {"idle", "keep"} => crew.child = 0
    /\ crew.mon # "none" => crew.main = "returned"

(* The monitor counts a death, and waits, with nothing left of the dead.   *)
Cleared == crew.mon \in {"budget", "backoff"} => Empty

(* The child recorded is the newest, except while its successor is being   *)
(* launched and after the monitor is gone.                                 *)
Recorded == crew.mon \notin {"publish", "over"} => crew.child \in {0, crew.mine}

(* A stop is on record, unless start() cleared it afterwards.              *)
Flagged ==
    /\ crew.stopper = "idle" => ~crew.early
    /\ crew.stopper # "idle" /\ crew.main \in {"keep", "clear"} => crew.early
    /\ crew.stopper # "idle" /\ ~crew.early => crew.stop

(* Who will kill what is present: stop() through the recorded child, or    *)
(* the stop that already took it.                                          *)
Held ==
    (~crew.early /\ crew.main \notin {"idle", "keep"} /\ crew.mon # "publish") =>
        /\ crew.stopper \in {"idle", "take"} => Empty \/ crew.child = crew.mine
        /\ crew.stopper = "kill" => Empty \/ crew.taken = crew.mine
        /\ crew.stopper = "done" => Empty

(* The deque is the end of the history of the deaths, which is in order.   *)
Remembered ==
    /\ \A i \in 1..Len(crew.hist) : crew.hist[i] <= crew.now
    /\ \A i, j \in 1..Len(crew.hist) : i <= j => crew.hist[i] <= crew.hist[j]
    /\ ~crew.told =>
         /\ Len(crew.deaths) <= Len(crew.hist)
         /\ \A i \in 1..Len(crew.deaths) :
               crew.deaths[i] = crew.hist[Len(crew.hist) - Len(crew.deaths) + i]
    /\ crew.told => crew.mon = "over"

CrewInv ==
    /\ CrewTypeOK /\ OnlyNewest /\ Started /\ Cleared /\ Recorded /\ Flagged /\ Held
    /\ Remembered /\ GivesUpFairly
-----------------------------------------------------------------------------
(* The history of the deaths does not change.                              *)
LEMMA HistoryKept ==
  ASSUME CrewInv, crew'.hist = crew.hist, crew'.deaths = crew.deaths, crew'.told = crew.told,
         crew'.now \in Nat, crew'.now >= crew.now, crew.told => crew'.mon = "over"
  PROVE  Remembered' /\ GivesUpFairly'
  <1>1. crew.now \in Nat /\ crew.hist \in Seq(Nat)
    BY DEF CrewInv, CrewTypeOK
  <1>2. Remembered'
    <2>1. \A i \in 1..Len(crew.hist) : crew.hist[i] \in Nat /\ crew.hist[i] <= crew'.now
      BY <1>1 DEF CrewInv, Remembered
    <2>2. \A i, j \in 1..Len(crew.hist) : i <= j => crew.hist[i] <= crew.hist[j]
      BY DEF CrewInv, Remembered
    <2>3. CASE crew.told
      BY <2>1, <2>2, <2>3 DEF Remembered
    <2>4. CASE ~crew.told
      <3>1. /\ Len(crew.deaths) <= Len(crew.hist)
            /\ \A i \in 1..Len(crew.deaths) :
                  crew.deaths[i] = crew.hist[Len(crew.hist) - Len(crew.deaths) + i]
        BY <2>4 DEF CrewInv, Remembered
      <3> QED
        BY <2>1, <2>2, <2>4, <3>1 DEF Remembered
    <2> QED
      BY <2>3, <2>4
  <1>3. GivesUpFairly'
    BY DEF CrewInv, GivesUpFairly
  <1> QED
    BY <1>2, <1>3

(* The numbers of the processes are integers.                              *)
LEMMA CrewInts ==
  ASSUME CrewInv
  PROVE  /\ Apps \subseteq Int /\ Slot \subseteq Int /\ Count \subseteq Int
         /\ crew.next \in Int /\ crew.child \in Int /\ crew.taken \in Int /\ crew.mine \in Int
         /\ crew.mine < crew.next /\ 0 < crew.next
  <1>1. Apps \subseteq Int /\ Slot \subseteq Int /\ Count \subseteq Int
    BY RestartPolicyAssumption DEF Apps, Slot, Count
  <1>2. crew.next \in Int /\ crew.child \in Int /\ crew.taken \in Int /\ crew.mine \in Int
    BY <1>1 DEF CrewInv, CrewTypeOK
  <1>3. 0 < crew.next
    BY RestartPolicyAssumption DEF CrewInv, CrewTypeOK, Count
  <1> QED
    BY <1>1, <1>2, <1>3 DEF CrewInv, OnlyNewest

(* The two values of a flag, kept folded where a record is updated.        *)
Yes == TRUE
No == FALSE
(* They are Booleans.                                                      *)
LEMMA YesNo == Yes \in BOOLEAN /\ No \in BOOLEAN /\ Yes = TRUE /\ No = FALSE
  BY Zenon DEF Yes, No

(* The host starts.                                                        *)
LEMMA LaunchHostPreserves ==
  ASSUME CrewInv, launchHost
  PROVE  CrewInv'
  <1>0. crew' = [crew EXCEPT !.on = Yes]
    BY YesNo, Zenon DEF launchHost
  <1>1. /\ crew'.now = crew.now /\ crew'.app = crew.app /\ crew'.next = crew.next
        /\ crew'.st = crew.st /\ crew'.stop = crew.stop /\ crew'.child = crew.child
        /\ crew'.main = crew.main /\ crew'.mon = crew.mon /\ crew'.mine = crew.mine
        /\ crew'.stopper = crew.stopper /\ crew'.taken = crew.taken
        /\ crew'.deaths = crew.deaths /\ crew'.hist = crew.hist
        /\ crew'.told = crew.told /\ crew'.early = crew.early
    BY <1>0 DEF CrewInv, CrewTypeOK
  <1>2. CrewTypeOK'
    BY <1>0, YesNo DEF CrewInv, CrewTypeOK
  <1>3. Remembered' /\ GivesUpFairly'
    BY <1>1, <1>2, HistoryKept DEF CrewInv, Remembered, CrewTypeOK
  <1>4. OnlyNewest' /\ Started' /\ Cleared' /\ Recorded' /\ Flagged' /\ Held'
    BY <1>1 DEF CrewInv, OnlyNewest, Started, Cleared, Recorded, Flagged, Held, Empty
  <1> QED
    BY <1>2, <1>3, <1>4 DEF CrewInv

(* The clock advances.                                                     *)
LEMMA TickPreserves ==
  ASSUME CrewInv, tick
  PROVE  CrewInv'
  <1>0. crew' = [crew EXCEPT !.now = @ + 1]
    BY DEF tick
  <1>1. /\ crew'.on = crew.on /\ crew'.app = crew.app /\ crew'.next = crew.next
        /\ crew'.st = crew.st /\ crew'.stop = crew.stop /\ crew'.child = crew.child
        /\ crew'.main = crew.main /\ crew'.mon = crew.mon /\ crew'.mine = crew.mine
        /\ crew'.stopper = crew.stopper /\ crew'.taken = crew.taken
        /\ crew'.deaths = crew.deaths /\ crew'.hist = crew.hist
        /\ crew'.told = crew.told /\ crew'.early = crew.early
        /\ crew'.now = crew.now + 1
    BY <1>0 DEF CrewInv, CrewTypeOK
  <1>2. CrewTypeOK'
    BY <1>0 DEF CrewInv, CrewTypeOK
  <1>3. Remembered' /\ GivesUpFairly'
    BY <1>1, <1>2, HistoryKept DEF CrewInv, Remembered, CrewTypeOK
  <1>4. OnlyNewest' /\ Started' /\ Cleared' /\ Recorded' /\ Flagged' /\ Held'
    BY <1>1 DEF CrewInv, OnlyNewest, Started, Cleared, Recorded, Flagged, Held, Empty
  <1> QED
    BY <1>2, <1>3, <1>4 DEF CrewInv

(* The app answers, or exits: only the newest one can.                     *)
LEMMA AppPreserves ==
  ASSUME CrewInv, appReady \/ appDies
  PROVE  CrewInv'
  <1>0. PICK a \in Apps, r \in {"ready", "rest", "gone"} :
           crew.app[a] \in {"up", "ready"} /\ crew' = [crew EXCEPT !.app[a] = r]
    BY DEF appReady, appDies, Alive
  <1>1. /\ crew'.on = crew.on /\ crew'.now = crew.now /\ crew'.next = crew.next
        /\ crew'.st = crew.st /\ crew'.stop = crew.stop /\ crew'.child = crew.child
        /\ crew'.main = crew.main /\ crew'.mon = crew.mon /\ crew'.mine = crew.mine
        /\ crew'.stopper = crew.stopper /\ crew'.taken = crew.taken
        /\ crew'.deaths = crew.deaths /\ crew'.hist = crew.hist
        /\ crew'.told = crew.told /\ crew'.early = crew.early
        /\ crew'.app = [crew.app EXCEPT ![a] = r]
    BY <1>0 DEF CrewInv, CrewTypeOK
  <1>2. CrewTypeOK'
    BY <1>0 DEF CrewInv, CrewTypeOK, AppState
  <1>3. Remembered' /\ GivesUpFairly'
    BY <1>1, <1>2, HistoryKept DEF CrewInv, Remembered, CrewTypeOK
  <1>4. ~Empty /\ a = crew.mine /\ a < crew.next
    BY <1>0, RestartPolicyAssumption DEF CrewInv, CrewTypeOK, OnlyNewest, Empty, Apps, Slot, Count
  <1>5. OnlyNewest'
    <2>1. \A b \in Apps : crew'.app[b] = IF b = a THEN r ELSE crew.app[b]
      BY <1>1 DEF CrewInv, CrewTypeOK
    <2> QED
      BY <1>1, <1>4, <2>1, CrewInts DEF CrewInv, OnlyNewest
  <1>6. Started' /\ Cleared' /\ Recorded' /\ Flagged'
    BY <1>1, <1>4 DEF CrewInv, Started, Cleared, Recorded, Flagged
  <1>7. Held'
    BY <1>1, <1>4 DEF CrewInv, Held
  <1> QED
    BY <1>2, <1>3, <1>5, <1>6, <1>7 DEF CrewInv

(* The absence of a process is one of the values of a field.               *)
LEMMA NoneIsSlot == 0 \in Slot
  BY RestartPolicyAssumption DEF Slot

(* The processes after a kill() of one group, and after a launch.          *)
Killed(a) == IF a = 0 THEN crew.app ELSE [crew.app EXCEPT ![a] = "gone"]
Launched == [crew.app EXCEPT ![crew.next] = "up"]

(* kill() touches one group and nothing else, and none when there is none. *)
LEMMA KillIs ==
  ASSUME CrewTypeOK, NEW a \in Slot
  PROVE  /\ kill(crew, a) = [crew EXCEPT !.app = Killed(a)]
         /\ Killed(a) \in [Apps -> AppState]
         /\ \A b \in Apps : Killed(a)[b] = IF b = a THEN "gone" ELSE crew.app[b]
  <1>1. CASE a = 0
    BY <1>1 DEF CrewTypeOK, kill, Killed, Apps
  <1>2. CASE a # 0
    <2>1. a \in Apps
      BY <1>2, RestartPolicyAssumption DEF Apps, Slot
    <2> QED
      BY <1>2, <2>1 DEF CrewTypeOK, kill, Killed, AppState
  <1> QED
    BY <1>1, <1>2

(* A launch adds the next process and nothing else.                        *)
LEMMA SpawnIs ==
  ASSUME CrewTypeOK, crew.next \in Apps
  PROVE  /\ spawn(crew) = [crew EXCEPT !.app = Launched, !.next = crew.next + 1]
         /\ Launched \in [Apps -> AppState] /\ crew.next + 1 \in Count /\ crew.next \in Slot
         /\ \A b \in Apps : Launched[b] = IF b = crew.next THEN "up" ELSE crew.app[b]
  <1>1. Launched \in [Apps -> AppState]
    BY DEF CrewTypeOK, Launched, AppState
  <1>2. spawn(crew) = [crew EXCEPT !.app = Launched, !.next = crew.next + 1]
    BY DEF CrewTypeOK, spawn, Launched
  <1>3. crew.next + 1 \in Count /\ crew.next \in Slot
    BY RestartPolicyAssumption DEF CrewTypeOK, Apps, Slot, Count
  <1> QED
    BY <1>1, <1>2, <1>3 DEF CrewTypeOK, Launched

(* start() launches the first process: there was none.                     *)
LEMMA StartPreserves ==
  ASSUME CrewInv, start
  PROVE  CrewInv'
  <1>0. /\ crew.main = "idle" /\ crew.next \in Apps
        /\ crew' = [crew EXCEPT !.app = Launched, !.next = crew.next + 1,
                                !.main = "keep", !.mine = crew.next]
    BY SpawnIs DEF start, Main, canSpawn, CrewInv
  <1>k. Launched \in [Apps -> AppState] /\ crew.next + 1 \in Count /\ crew.next \in Slot
    BY <1>0, SpawnIs DEF CrewInv
  <1>1. /\ crew'.on = crew.on /\ crew'.now = crew.now /\ crew'.st = crew.st
        /\ crew'.stop = crew.stop /\ crew'.child = crew.child /\ crew'.mon = crew.mon
        /\ crew'.stopper = crew.stopper /\ crew'.taken = crew.taken
        /\ crew'.deaths = crew.deaths /\ crew'.hist = crew.hist
        /\ crew'.told = crew.told /\ crew'.early = crew.early
        /\ crew'.app = Launched /\ crew'.next = crew.next + 1 /\ crew'.main = "keep"
        /\ crew'.mine = crew.next
    BY <1>0 DEF CrewInv, CrewTypeOK
  <1>2. CrewTypeOK'
    BY <1>0, NoneIsSlot, <1>k DEF CrewInv, CrewTypeOK, MainPc, MonPc
  <1>3. Remembered' /\ GivesUpFairly'
    BY <1>0, <1>1, <1>2, HistoryKept DEF CrewInv, Remembered, Started, CrewTypeOK
  <1>4. OnlyNewest' /\ Started' /\ Cleared' /\ Recorded' /\ Flagged' /\ Held'
    <2>1. crew.next = 1 /\ crew.stopper = "idle" /\ crew.child = 0 /\ crew.mon = "none"
      BY <1>0 DEF CrewInv, Started
    <2>2. \A a \in Apps : crew.app[a] = "none"
      BY <2>1 DEF CrewInv, OnlyNewest, Apps
    <2>l. \A b \in Apps : crew'.app[b] = IF b = crew.next THEN "up" ELSE crew.app[b]
      BY <1>0, <1>1, SpawnIs DEF CrewInv
    <2>3. OnlyNewest'
      BY <1>0, <1>1, <2>1, <2>2, <2>l, CrewInts DEF CrewInv, OnlyNewest
    <2> QED
      BY <1>1, <2>1, <2>3 DEF CrewInv, Started, Cleared, Recorded, Flagged, Held
  <1> QED
    BY <1>2, <1>3, <1>4 DEF CrewInv

(* start() records the process.                                            *)
LEMMA StartKeepsPreserves ==
  ASSUME CrewInv, startKeeps
  PROVE  CrewInv'
  <1>0. crew.main = "keep" /\ crew' = [crew EXCEPT !.child = crew.mine, !.main = "clear"]
    BY DEF startKeeps, Main
  <1>1. /\ crew'.on = crew.on /\ crew'.now = crew.now /\ crew'.app = crew.app
        /\ crew'.next = crew.next /\ crew'.st = crew.st /\ crew'.stop = crew.stop
        /\ crew'.mon = crew.mon /\ crew'.mine = crew.mine
        /\ crew'.stopper = crew.stopper /\ crew'.taken = crew.taken
        /\ crew'.deaths = crew.deaths /\ crew'.hist = crew.hist
        /\ crew'.told = crew.told /\ crew'.early = crew.early
        /\ crew'.child = crew.mine /\ crew'.main = "clear"
    BY <1>0 DEF CrewInv, CrewTypeOK
  <1>2. CrewTypeOK'
    BY <1>0, NoneIsSlot DEF CrewInv, CrewTypeOK, MainPc, MonPc
  <1>3. Remembered' /\ GivesUpFairly'
    BY <1>0, <1>1, <1>2, HistoryKept DEF CrewInv, Remembered, Started, CrewTypeOK
  <1>4. OnlyNewest' /\ Started' /\ Cleared' /\ Recorded' /\ Flagged' /\ Held'
    BY <1>0, <1>1
    DEF CrewInv, CrewTypeOK, Slot, Count, OnlyNewest, Started, Cleared, Recorded, Flagged, Held, Empty
  <1> QED
    BY <1>2, <1>3, <1>4 DEF CrewInv

(* start() clears the flag: a stop that came before it was early.          *)
LEMMA StartClearsPreserves ==
  ASSUME CrewInv, startClears
  PROVE  CrewInv'
  <1>0. crew.main = "clear" /\ crew' = [crew EXCEPT !.stop = No, !.main = "await"]
    BY YesNo, Zenon DEF startClears, Main
  <1>1. /\ crew'.on = crew.on /\ crew'.now = crew.now /\ crew'.app = crew.app
        /\ crew'.next = crew.next /\ crew'.st = crew.st /\ crew'.child = crew.child
        /\ crew'.mon = crew.mon /\ crew'.mine = crew.mine
        /\ crew'.stopper = crew.stopper /\ crew'.taken = crew.taken
        /\ crew'.deaths = crew.deaths /\ crew'.hist = crew.hist
        /\ crew'.told = crew.told /\ crew'.early = crew.early
        /\ crew'.stop = No /\ crew'.main = "await"
    BY <1>0 DEF CrewInv, CrewTypeOK
  <1>2. CrewTypeOK'
    BY <1>0, NoneIsSlot, YesNo DEF CrewInv, CrewTypeOK, MainPc, MonPc
  <1>3. Remembered' /\ GivesUpFairly'
    BY <1>0, <1>1, <1>2, HistoryKept DEF CrewInv, Remembered, Started, CrewTypeOK
  <1>4. OnlyNewest' /\ Started' /\ Cleared' /\ Recorded' /\ Flagged' /\ Held'
    BY <1>0, <1>1
    DEF CrewInv, CrewTypeOK, Slot, Count, OnlyNewest, Started, Cleared, Recorded, Flagged, Held, Empty
  <1> QED
    BY <1>2, <1>3, <1>4 DEF CrewInv

(* The app answered in time.                                               *)
LEMMA StartAnsweredPreserves ==
  ASSUME CrewInv, crew.main = "await", crew' = [crew EXCEPT !.main = "state"]
  PROVE  CrewInv'
  <1>0. crew.main = "await" /\ crew' = [crew EXCEPT !.main = "state"]
    BY Zenon
  <1>1. /\ crew'.on = crew.on /\ crew'.now = crew.now /\ crew'.app = crew.app
        /\ crew'.next = crew.next /\ crew'.st = crew.st /\ crew'.stop = crew.stop
        /\ crew'.child = crew.child /\ crew'.mon = crew.mon /\ crew'.mine = crew.mine
        /\ crew'.stopper = crew.stopper /\ crew'.taken = crew.taken
        /\ crew'.deaths = crew.deaths /\ crew'.hist = crew.hist
        /\ crew'.told = crew.told /\ crew'.early = crew.early
        /\ crew'.main = "state"
    BY <1>0 DEF CrewInv, CrewTypeOK
  <1>2. CrewTypeOK'
    BY <1>0, NoneIsSlot DEF CrewInv, CrewTypeOK, MainPc, MonPc
  <1>3. Remembered' /\ GivesUpFairly'
    BY <1>0, <1>1, <1>2, HistoryKept DEF CrewInv, Remembered, Started, CrewTypeOK
  <1>4. OnlyNewest' /\ Started' /\ Cleared' /\ Recorded' /\ Flagged' /\ Held'
    BY <1>0, <1>1
    DEF CrewInv, CrewTypeOK, Slot, Count, OnlyNewest, Started, Cleared, Recorded, Flagged, Held, Empty
  <1> QED
    BY <1>2, <1>3, <1>4 DEF CrewInv

(* The monitor takes over.                                                 *)
LEMMA StartRunsPreserves ==
  ASSUME CrewInv, startRuns
  PROVE  CrewInv'
  <1>0. /\ crew.main = "state"
        /\ crew' = [crew EXCEPT !.st = "running", !.main = "returned", !.mon = "watch"]
    BY DEF startRuns, Main
  <1>1. /\ crew'.on = crew.on /\ crew'.now = crew.now /\ crew'.app = crew.app
        /\ crew'.next = crew.next /\ crew'.stop = crew.stop
        /\ crew'.child = crew.child /\ crew'.mine = crew.mine
        /\ crew'.stopper = crew.stopper /\ crew'.taken = crew.taken
        /\ crew'.deaths = crew.deaths /\ crew'.hist = crew.hist
        /\ crew'.told = crew.told /\ crew'.early = crew.early
        /\ crew'.st = "running" /\ crew'.main = "returned" /\ crew'.mon = "watch"
    BY <1>0 DEF CrewInv, CrewTypeOK
  <1>2. CrewTypeOK'
    BY <1>0, NoneIsSlot DEF CrewInv, CrewTypeOK, MainPc, MonPc
  <1>3. Remembered' /\ GivesUpFairly'
    BY <1>0, <1>1, <1>2, HistoryKept DEF CrewInv, Remembered, Started, CrewTypeOK
  <1>4. OnlyNewest' /\ Started' /\ Cleared' /\ Recorded' /\ Flagged' /\ Held'
    BY <1>0, <1>1
    DEF CrewInv, CrewTypeOK, Slot, Count, OnlyNewest, Started, Cleared, Recorded, Flagged, Held, Empty
  <1> QED
    BY <1>2, <1>3, <1>4 DEF CrewInv

(* The start failed: the inline stop() kills what is recorded; what an     *)
(* earlier stop() took is still for that stop to kill.                     *)
LEMMA StartFailedPreserves ==
  ASSUME CrewInv, Main("await"), awaitFails(crew.mine),
         crew' = [kill(crew, crew.child) EXCEPT !.main = "raised", !.stop = TRUE,
                                                !.child = 0, !.st = "stopped"]
  PROVE  CrewInv'
  <1>k. crew.child \in Slot /\ Killed(crew.child) \in [Apps -> AppState]
    BY KillIs DEF CrewInv, CrewTypeOK
  <1>0. /\ crew.main = "await" /\ crew.mon = "none" /\ crew.child \in {0, crew.mine}
        /\ crew' = [crew EXCEPT !.app = Killed(crew.child), !.main = "raised", !.stop = Yes,
                                !.child = 0, !.st = "stopped"]
    <2>1. crew.main = "await" /\ crew.mon = "none" /\ crew.child \in {0, crew.mine}
      BY DEF Main, CrewInv, Started, Recorded
    <2>2. crew' = [kill(crew, crew.child) EXCEPT !.main = "raised", !.stop = Yes,
                                                  !.child = 0, !.st = "stopped"]
      BY YesNo, Zenon
    <2> QED
      BY <1>k, <2>1, <2>2, KillIs DEF CrewInv
  <1>1. /\ crew'.on = crew.on /\ crew'.now = crew.now /\ crew'.next = crew.next
        /\ crew'.mon = crew.mon /\ crew'.mine = crew.mine
        /\ crew'.stopper = crew.stopper /\ crew'.taken = crew.taken
        /\ crew'.deaths = crew.deaths /\ crew'.hist = crew.hist
        /\ crew'.told = crew.told /\ crew'.early = crew.early
        /\ crew'.app = Killed(crew.child) /\ crew'.st = "stopped" /\ crew'.stop = Yes
        /\ crew'.child = 0 /\ crew'.main = "raised"
    BY <1>0 DEF CrewInv, CrewTypeOK
  <1>2. CrewTypeOK'
    BY <1>0, NoneIsSlot, <1>k, YesNo DEF CrewInv, CrewTypeOK, MainPc, MonPc
  <1>3. Remembered' /\ GivesUpFairly'
    BY <1>0, <1>1, <1>2, HistoryKept DEF CrewInv, Remembered, Started, CrewTypeOK
  <1>4. OnlyNewest' /\ Started' /\ Cleared' /\ Recorded' /\ Flagged' /\ Held'
    <2>1. \A b \in Apps : crew'.app[b] = IF b = crew.child THEN "gone" ELSE crew.app[b]
      BY <1>1, <1>k, KillIs DEF CrewInv
    <2>2. OnlyNewest'
      BY <1>0, <1>1, <2>1, CrewInts DEF CrewInv, OnlyNewest
    <2>3. Empty => Empty'
      BY <2>1 DEF Empty
    <2>4. crew.child = crew.mine => Empty'
      BY <2>1 DEF CrewInv, OnlyNewest, Empty
    <2>5. crew'.stop
      BY <1>1, YesNo
    <2> QED
      BY <1>0, <1>1, <2>2, <2>3, <2>4, <2>5 DEF CrewInv, Started, Cleared, Recorded, Flagged, Held
  <1> QED
    BY <1>2, <1>3, <1>4 DEF CrewInv

(* stop() sets the flag.                                                   *)
LEMMA StopSetsPreserves ==
  ASSUME CrewInv, stopSets
  PROVE  CrewInv'
  <1>e. PICK e : e = (crew.main \in {"keep", "clear"})
    BY Zenon
  <1>0. /\ crew.main # "idle" /\ crew.stopper = "idle" /\ e \in BOOLEAN
        /\ e <=> crew.main \in {"keep", "clear"}
        /\ crew' = [crew EXCEPT !.stop = Yes, !.stopper = "take", !.early = e]
    <2>0. e \in BOOLEAN
      BY <1>e
    <2>1. e <=> crew.main \in {"keep", "clear"}
      <3>1. CASE crew.main \in {"keep", "clear"}
        BY <1>e, <3>1, Zenon
      <3>2. CASE ~(crew.main \in {"keep", "clear"})
        BY <1>e, <3>2, Zenon
      <3> QED
        BY <3>1, <3>2
    <2>2. crew' = [crew EXCEPT !.stop = Yes, !.stopper = "take", !.early = e]
      BY <1>e, YesNo, Zenon DEF stopSets
    <2>3. crew.main # "idle" /\ crew.stopper = "idle"
      BY Zenon DEF stopSets
    <2> QED
      BY <2>0, <2>1, <2>2, <2>3, Zenon
  <1>1. /\ crew'.on = crew.on /\ crew'.now = crew.now /\ crew'.app = crew.app
        /\ crew'.next = crew.next /\ crew'.st = crew.st /\ crew'.child = crew.child
        /\ crew'.main = crew.main /\ crew'.mon = crew.mon /\ crew'.mine = crew.mine
        /\ crew'.taken = crew.taken /\ crew'.deaths = crew.deaths
        /\ crew'.hist = crew.hist /\ crew'.told = crew.told
        /\ crew'.stop = Yes /\ crew'.stopper = "take" /\ crew'.early = e
    BY <1>0 DEF CrewInv, CrewTypeOK
  <1>2. CrewTypeOK'
    BY <1>0, NoneIsSlot, YesNo DEF CrewInv, CrewTypeOK, MainPc, MonPc
  <1>3. Remembered' /\ GivesUpFairly'
    BY <1>0, <1>1, <1>2, HistoryKept DEF CrewInv, Remembered, Started, CrewTypeOK
  <1>4. OnlyNewest' /\ Started' /\ Cleared' /\ Recorded' /\ Flagged' /\ Held'
    <2>1. crew'.stop /\ ~crew.early
      BY <1>0, <1>1, YesNo DEF CrewInv, Flagged
    <2> QED
      BY <1>0, <1>1, <2>1
      DEF CrewInv, CrewTypeOK, Slot, Count, OnlyNewest, Started, Cleared, Recorded, Flagged, Held, Empty
  <1> QED
    BY <1>2, <1>3, <1>4 DEF CrewInv

(* stop() takes the recorded child.                                        *)
LEMMA StopTakesPreserves ==
  ASSUME CrewInv, stopTakes
  PROVE  CrewInv'
  <1>0. /\ crew.stopper = "take"
        /\ crew' = [crew EXCEPT !.taken = crew.child, !.child = 0, !.st = "stopped",
                                !.stopper = "kill"]
    BY DEF stopTakes
  <1>1. /\ crew'.on = crew.on /\ crew'.now = crew.now /\ crew'.app = crew.app
        /\ crew'.next = crew.next /\ crew'.stop = crew.stop /\ crew'.main = crew.main
        /\ crew'.mon = crew.mon /\ crew'.mine = crew.mine
        /\ crew'.deaths = crew.deaths /\ crew'.hist = crew.hist
        /\ crew'.told = crew.told /\ crew'.early = crew.early
        /\ crew'.taken = crew.child /\ crew'.child = 0 /\ crew'.st = "stopped"
        /\ crew'.stopper = "kill"
    BY <1>0 DEF CrewInv, CrewTypeOK
  <1>2. CrewTypeOK'
    BY <1>0, NoneIsSlot DEF CrewInv, CrewTypeOK, MainPc, MonPc
  <1>3. Remembered' /\ GivesUpFairly'
    BY <1>0, <1>1, <1>2, HistoryKept DEF CrewInv, Remembered, Started, CrewTypeOK
  <1>4. OnlyNewest' /\ Started' /\ Cleared' /\ Recorded' /\ Flagged' /\ Held'
    BY <1>0, <1>1
    DEF CrewInv, CrewTypeOK, Slot, Count, OnlyNewest, Started, Cleared, Recorded, Flagged, Held, Empty
  <1> QED
    BY <1>2, <1>3, <1>4 DEF CrewInv

(* stop() kills what it took.                                              *)
LEMMA StopKillsPreserves ==
  ASSUME CrewInv, stopKills
  PROVE  CrewInv'
  <1>k. crew.taken \in Slot /\ Killed(crew.taken) \in [Apps -> AppState]
    BY KillIs DEF CrewInv, CrewTypeOK
  <1>0. /\ crew.stopper = "kill"
        /\ crew' = [crew EXCEPT !.app = Killed(crew.taken), !.stopper = "done"]
    BY <1>k, KillIs DEF stopKills, CrewInv
  <1>1. /\ crew'.on = crew.on /\ crew'.now = crew.now /\ crew'.next = crew.next
        /\ crew'.st = crew.st /\ crew'.stop = crew.stop /\ crew'.child = crew.child
        /\ crew'.main = crew.main /\ crew'.mon = crew.mon /\ crew'.mine = crew.mine
        /\ crew'.taken = crew.taken /\ crew'.deaths = crew.deaths
        /\ crew'.hist = crew.hist /\ crew'.told = crew.told
        /\ crew'.early = crew.early
        /\ crew'.app = Killed(crew.taken) /\ crew'.stopper = "done"
    BY <1>0 DEF CrewInv, CrewTypeOK
  <1>2. CrewTypeOK'
    BY <1>0, NoneIsSlot, <1>k DEF CrewInv, CrewTypeOK, MainPc, MonPc
  <1>3. Remembered' /\ GivesUpFairly'
    BY <1>0, <1>1, <1>2, HistoryKept DEF CrewInv, Remembered, Started, CrewTypeOK
  <1>4. OnlyNewest' /\ Started' /\ Cleared' /\ Recorded' /\ Flagged' /\ Held'
    <2>1. \A b \in Apps : crew'.app[b] = IF b = crew.taken THEN "gone" ELSE crew.app[b]
      BY <1>1, <1>k, KillIs DEF CrewInv
    <2>2. OnlyNewest'
      BY <1>1, <2>1, CrewInts DEF CrewInv, OnlyNewest
    <2>3. Empty => Empty'
      BY <2>1 DEF Empty
    <2>4. crew.taken = crew.mine => Empty'
      BY <2>1 DEF CrewInv, OnlyNewest, Empty
    <2> QED
      BY <1>0, <1>1, <2>2, <2>3, <2>4 DEF CrewInv, Started, Cleared, Recorded, Flagged, Held
  <1> QED
    BY <1>2, <1>3, <1>4 DEF CrewInv

(* The monitor ends, from watch or from a wait that stop() cut.            *)
LEMMA MonitorEndsPreserves ==
  ASSUME CrewInv, crew.mon \in {"watch", "wait", "backoff"}, crew' = Over(crew)
  PROVE  CrewInv'
  <1>0. crew' = [crew EXCEPT !.mon = "over"]
    BY DEF Over
  <1>1. /\ crew'.on = crew.on /\ crew'.now = crew.now /\ crew'.app = crew.app
        /\ crew'.next = crew.next /\ crew'.st = crew.st /\ crew'.stop = crew.stop
        /\ crew'.child = crew.child /\ crew'.main = crew.main
        /\ crew'.mine = crew.mine /\ crew'.stopper = crew.stopper
        /\ crew'.taken = crew.taken /\ crew'.deaths = crew.deaths
        /\ crew'.hist = crew.hist /\ crew'.told = crew.told
        /\ crew'.early = crew.early
        /\ crew'.mon = "over"
    BY <1>0 DEF CrewInv, CrewTypeOK
  <1>2. CrewTypeOK'
    BY <1>0, NoneIsSlot DEF CrewInv, CrewTypeOK, MainPc, MonPc
  <1>3. Remembered' /\ GivesUpFairly'
    BY <1>0, <1>1, <1>2, HistoryKept DEF CrewInv, Remembered, Started, CrewTypeOK
  <1>4. OnlyNewest' /\ Started' /\ Cleared' /\ Recorded' /\ Flagged' /\ Held'
    BY <1>1 DEF CrewInv, CrewTypeOK, OnlyNewest, Started, Cleared, Recorded, Flagged, Held, Empty
  <1> QED
    BY <1>2, <1>3, <1>4 DEF CrewInv

(* The monitor waits for the recorded child, which is the newest.          *)
LEMMA WatchPreserves ==
  ASSUME CrewInv, Mon("watch"), crew.child # 0,
         crew' = [crew EXCEPT !.mine = crew.child, !.mon = "wait"]
  PROVE  CrewInv'
  <1>0. /\ crew.mon = "watch" /\ crew.child = crew.mine
        /\ crew' = [crew EXCEPT !.mine = crew.child, !.mon = "wait"]
    BY DEF Mon, CrewInv, Recorded
  <1>1. /\ crew'.on = crew.on /\ crew'.now = crew.now /\ crew'.app = crew.app
        /\ crew'.next = crew.next /\ crew'.st = crew.st /\ crew'.stop = crew.stop
        /\ crew'.child = crew.child /\ crew'.main = crew.main
        /\ crew'.stopper = crew.stopper /\ crew'.taken = crew.taken
        /\ crew'.deaths = crew.deaths /\ crew'.hist = crew.hist
        /\ crew'.told = crew.told /\ crew'.early = crew.early
        /\ crew'.mine = crew.mine /\ crew'.mon = "wait"
    BY <1>0 DEF CrewInv, CrewTypeOK
  <1>2. CrewTypeOK'
    BY <1>0, NoneIsSlot DEF CrewInv, CrewTypeOK, MainPc, MonPc
  <1>3. Remembered' /\ GivesUpFairly'
    BY <1>0, <1>1, <1>2, HistoryKept DEF CrewInv, Remembered, Started, CrewTypeOK
  <1>4. OnlyNewest' /\ Started' /\ Cleared' /\ Recorded' /\ Flagged' /\ Held'
    BY <1>0, <1>1
    DEF CrewInv, CrewTypeOK, Slot, Count, OnlyNewest, Started, Cleared, Recorded, Flagged, Held, Empty
  <1> QED
    BY <1>2, <1>3, <1>4 DEF CrewInv

(* The child died, and nobody stopped it.                                  *)
LEMMA WatchWakesPreserves ==
  ASSUME CrewInv, Mon("wait"), crew' = [crew EXCEPT !.mon = "recover"]
  PROVE  CrewInv'
  <1>0. crew.mon = "wait" /\ crew' = [crew EXCEPT !.mon = "recover"]
    BY DEF Mon
  <1>1. /\ crew'.on = crew.on /\ crew'.now = crew.now /\ crew'.app = crew.app
        /\ crew'.next = crew.next /\ crew'.st = crew.st /\ crew'.stop = crew.stop
        /\ crew'.child = crew.child /\ crew'.main = crew.main
        /\ crew'.mine = crew.mine /\ crew'.stopper = crew.stopper
        /\ crew'.taken = crew.taken /\ crew'.deaths = crew.deaths
        /\ crew'.hist = crew.hist /\ crew'.told = crew.told
        /\ crew'.early = crew.early
        /\ crew'.mon = "recover"
    BY <1>0 DEF CrewInv, CrewTypeOK
  <1>2. CrewTypeOK'
    BY <1>0, NoneIsSlot DEF CrewInv, CrewTypeOK, MainPc, MonPc
  <1>3. Remembered' /\ GivesUpFairly'
    BY <1>0, <1>1, <1>2, HistoryKept DEF CrewInv, Remembered, Started, CrewTypeOK
  <1>4. OnlyNewest' /\ Started' /\ Cleared' /\ Recorded' /\ Flagged' /\ Held'
    BY <1>0, <1>1
    DEF CrewInv, CrewTypeOK, Slot, Count, OnlyNewest, Started, Cleared, Recorded, Flagged, Held, Empty
  <1> QED
    BY <1>2, <1>3, <1>4 DEF CrewInv

(* The group of the dead one is killed before the death is counted.        *)
LEMMA RecoverPreserves ==
  ASSUME CrewInv, recover
  PROVE  CrewInv'
  <1>k. crew.mine \in Slot /\ Killed(crew.mine) \in [Apps -> AppState]
    BY KillIs DEF CrewInv, CrewTypeOK
  <1>0. /\ crew.mon = "recover"
        /\ crew' = [crew EXCEPT !.app = Killed(crew.mine), !.mon = "budget"]
    BY <1>k, KillIs DEF recover, Mon, clearGroup, CrewInv
  <1>1. /\ crew'.on = crew.on /\ crew'.now = crew.now /\ crew'.next = crew.next
        /\ crew'.st = crew.st /\ crew'.stop = crew.stop /\ crew'.child = crew.child
        /\ crew'.main = crew.main /\ crew'.mine = crew.mine
        /\ crew'.stopper = crew.stopper /\ crew'.taken = crew.taken
        /\ crew'.deaths = crew.deaths /\ crew'.hist = crew.hist
        /\ crew'.told = crew.told /\ crew'.early = crew.early
        /\ crew'.app = Killed(crew.mine) /\ crew'.mon = "budget"
    BY <1>0 DEF CrewInv, CrewTypeOK
  <1>2. CrewTypeOK'
    BY <1>0, NoneIsSlot, <1>k DEF CrewInv, CrewTypeOK, MainPc, MonPc
  <1>3. Remembered' /\ GivesUpFairly'
    BY <1>0, <1>1, <1>2, HistoryKept DEF CrewInv, Remembered, Started, CrewTypeOK
  <1>4. OnlyNewest' /\ Started' /\ Cleared' /\ Recorded' /\ Flagged' /\ Held'
    <2>0. \A b \in Apps : crew'.app[b] = IF b = crew.mine THEN "gone" ELSE crew.app[b]
      BY <1>1, <1>k, KillIs DEF CrewInv
    <2>1. Empty'
      BY <2>0 DEF CrewInv, OnlyNewest, Empty
    <2>2. OnlyNewest'
      BY <1>1, <2>0, CrewInts DEF CrewInv, OnlyNewest
    <2> QED
      BY <1>0, <1>1, <2>1, <2>2 DEF CrewInv, Started, Cleared, Recorded, Flagged, Held
  <1> QED
    BY <1>2, <1>3, <1>4 DEF CrewInv

(* A relaunched app that did not answer is killed and counted.             *)
LEMMA AwaitFailedPreserves ==
  ASSUME CrewInv, Mon("await"),
         crew' = [kill(crew, crew.mine) EXCEPT !.mon = "budget"]
  PROVE  CrewInv'
  <1>k. crew.mine \in Slot /\ Killed(crew.mine) \in [Apps -> AppState]
    BY KillIs DEF CrewInv, CrewTypeOK
  <1>0. /\ crew.mon = "await"
        /\ crew' = [crew EXCEPT !.app = Killed(crew.mine), !.mon = "budget"]
    BY <1>k, KillIs DEF Mon, CrewInv
  <1>1. /\ crew'.on = crew.on /\ crew'.now = crew.now /\ crew'.next = crew.next
        /\ crew'.st = crew.st /\ crew'.stop = crew.stop /\ crew'.child = crew.child
        /\ crew'.main = crew.main /\ crew'.mine = crew.mine
        /\ crew'.stopper = crew.stopper /\ crew'.taken = crew.taken
        /\ crew'.deaths = crew.deaths /\ crew'.hist = crew.hist
        /\ crew'.told = crew.told /\ crew'.early = crew.early
        /\ crew'.app = Killed(crew.mine) /\ crew'.mon = "budget"
    BY <1>0 DEF CrewInv, CrewTypeOK
  <1>2. CrewTypeOK'
    BY <1>0, NoneIsSlot, <1>k DEF CrewInv, CrewTypeOK, MainPc, MonPc
  <1>3. Remembered' /\ GivesUpFairly'
    BY <1>0, <1>1, <1>2, HistoryKept DEF CrewInv, Remembered, Started, CrewTypeOK
  <1>4. OnlyNewest' /\ Started' /\ Cleared' /\ Recorded' /\ Flagged' /\ Held'
    <2>0. \A b \in Apps : crew'.app[b] = IF b = crew.mine THEN "gone" ELSE crew.app[b]
      BY <1>1, <1>k, KillIs DEF CrewInv
    <2>1. Empty'
      BY <2>0 DEF CrewInv, OnlyNewest, Empty
    <2>2. OnlyNewest'
      BY <1>1, <2>0, CrewInts DEF CrewInv, OnlyNewest
    <2> QED
      BY <1>0, <1>1, <2>1, <2>2 DEF CrewInv, Started, Cleared, Recorded, Flagged, Held
  <1> QED
    BY <1>2, <1>3, <1>4 DEF CrewInv

(* A stop() that came during the launch: the new process is killed.        *)
LEMMA PublishStoppedPreserves ==
  ASSUME CrewInv, Mon("publish"), crew' = Over(kill(crew, crew.mine))
  PROVE  CrewInv'
  <1>k. crew.mine \in Slot /\ Killed(crew.mine) \in [Apps -> AppState]
    BY KillIs DEF CrewInv, CrewTypeOK
  <1>0. /\ crew.mon = "publish"
        /\ crew' = [crew EXCEPT !.app = Killed(crew.mine), !.mon = "over"]
    BY <1>k, KillIs DEF Mon, Over, CrewInv
  <1>1. /\ crew'.on = crew.on /\ crew'.now = crew.now /\ crew'.next = crew.next
        /\ crew'.st = crew.st /\ crew'.stop = crew.stop /\ crew'.child = crew.child
        /\ crew'.main = crew.main /\ crew'.mine = crew.mine
        /\ crew'.stopper = crew.stopper /\ crew'.taken = crew.taken
        /\ crew'.deaths = crew.deaths /\ crew'.hist = crew.hist
        /\ crew'.told = crew.told /\ crew'.early = crew.early
        /\ crew'.app = Killed(crew.mine) /\ crew'.mon = "over"
    BY <1>0 DEF CrewInv, CrewTypeOK
  <1>2. CrewTypeOK'
    BY <1>0, NoneIsSlot, <1>k DEF CrewInv, CrewTypeOK, MainPc, MonPc
  <1>3. Remembered' /\ GivesUpFairly'
    BY <1>0, <1>1, <1>2, HistoryKept DEF CrewInv, Remembered, Started, CrewTypeOK
  <1>4. OnlyNewest' /\ Started' /\ Cleared' /\ Recorded' /\ Flagged' /\ Held'
    <2>0. \A b \in Apps : crew'.app[b] = IF b = crew.mine THEN "gone" ELSE crew.app[b]
      BY <1>1, <1>k, KillIs DEF CrewInv
    <2>1. Empty'
      BY <2>0 DEF CrewInv, OnlyNewest, Empty
    <2>2. OnlyNewest'
      BY <1>1, <2>0, CrewInts DEF CrewInv, OnlyNewest
    <2> QED
      BY <1>0, <1>1, <2>1, <2>2 DEF CrewInv, Started, Cleared, Recorded, Flagged, Held
  <1> QED
    BY <1>2, <1>3, <1>4 DEF CrewInv

(* The next process is launched: nothing was left of the last.             *)
LEMMA RelaunchPreserves ==
  ASSUME CrewInv, Mon("backoff"), canSpawn,
         crew' = [spawn(crew) EXCEPT !.mine = crew.next, !.mon = "publish"]
  PROVE  CrewInv'
  <1>0. /\ crew.mon = "backoff" /\ crew.next \in Apps
        /\ crew' = [crew EXCEPT !.app = Launched, !.next = crew.next + 1,
                                !.mine = crew.next, !.mon = "publish"]
    BY SpawnIs DEF Mon, canSpawn, CrewInv
  <1>k. Launched \in [Apps -> AppState] /\ crew.next + 1 \in Count /\ crew.next \in Slot
    BY <1>0, SpawnIs DEF CrewInv
  <1>1. /\ crew'.on = crew.on /\ crew'.now = crew.now /\ crew'.st = crew.st
        /\ crew'.stop = crew.stop /\ crew'.child = crew.child
        /\ crew'.main = crew.main /\ crew'.stopper = crew.stopper
        /\ crew'.taken = crew.taken /\ crew'.deaths = crew.deaths
        /\ crew'.hist = crew.hist /\ crew'.told = crew.told
        /\ crew'.early = crew.early
        /\ crew'.app = Launched /\ crew'.next = crew.next + 1
        /\ crew'.mine = crew.next /\ crew'.mon = "publish"
    BY <1>0 DEF CrewInv, CrewTypeOK
  <1>2. CrewTypeOK'
    BY <1>0, NoneIsSlot, <1>k DEF CrewInv, CrewTypeOK, MainPc, MonPc
  <1>3. Remembered' /\ GivesUpFairly'
    BY <1>0, <1>1, <1>2, HistoryKept DEF CrewInv, Remembered, Started, CrewTypeOK
  <1>4. OnlyNewest' /\ Started' /\ Cleared' /\ Recorded' /\ Flagged' /\ Held'
    <2>1. Empty /\ crew.main = "returned"
      BY <1>0 DEF CrewInv, Cleared, Started
    <2>l. \A b \in Apps : crew'.app[b] = IF b = crew.next THEN "up" ELSE crew.app[b]
      BY <1>0, <1>1, SpawnIs DEF CrewInv
    <2>2. OnlyNewest'
      BY <1>0, <1>1, <2>1, <2>l, CrewInts DEF CrewInv, OnlyNewest, Empty
    <2> QED
      BY <1>1, <2>1, <2>2 DEF CrewInv, Started, Cleared, Recorded, Flagged, Held
  <1> QED
    BY <1>2, <1>3, <1>4 DEF CrewInv

(* The new process is recorded: no stop() came that would miss it.         *)
LEMMA PublishPreserves ==
  ASSUME CrewInv, Mon("publish"), ~crew.stop,
         crew' = [crew EXCEPT !.child = crew.mine, !.mon = "await"]
  PROVE  CrewInv'
  <1>0. /\ crew.mon = "publish" /\ crew.main = "returned"
        /\ crew' = [crew EXCEPT !.child = crew.mine, !.mon = "await"]
    BY DEF Mon, CrewInv, Started
  <1>1. /\ crew'.on = crew.on /\ crew'.now = crew.now /\ crew'.app = crew.app
        /\ crew'.next = crew.next /\ crew'.st = crew.st /\ crew'.stop = crew.stop
        /\ crew'.main = crew.main /\ crew'.mine = crew.mine
        /\ crew'.stopper = crew.stopper /\ crew'.taken = crew.taken
        /\ crew'.deaths = crew.deaths /\ crew'.hist = crew.hist
        /\ crew'.told = crew.told /\ crew'.early = crew.early
        /\ crew'.child = crew.mine /\ crew'.mon = "await"
    BY <1>0 DEF CrewInv, CrewTypeOK
  <1>2. CrewTypeOK'
    BY <1>0, NoneIsSlot DEF CrewInv, CrewTypeOK, MainPc, MonPc
  <1>3. Remembered' /\ GivesUpFairly'
    BY <1>0, <1>1, <1>2, HistoryKept DEF CrewInv, Remembered, Started, CrewTypeOK
  <1>4. OnlyNewest' /\ Started' /\ Cleared' /\ Recorded' /\ Flagged' /\ Held'
    BY <1>0, <1>1
    DEF CrewInv, CrewTypeOK, Slot, Count, OnlyNewest, Started, Cleared, Recorded, Flagged, Held, Empty
  <1> QED
    BY <1>2, <1>3, <1>4 DEF CrewInv

(* The relaunched app answers.                                             *)
LEMMA AnswersAgainPreserves ==
  ASSUME CrewInv, Mon("await"),
         crew' = [SetState(crew, "running") EXCEPT !.mon = "watch"]
  PROVE  CrewInv'
  <1>s. PICK s : s = IF crew.st = "stopped" THEN "stopped" ELSE "running"
    OBVIOUS
  <1>0. /\ crew.mon = "await" /\ s \in {"stopped", "running", "restarting", "failed"}
        /\ crew' = [crew EXCEPT !.st = s, !.mon = "watch"]
    BY <1>s DEF Mon, SetState, CrewInv, CrewTypeOK
  <1>1. /\ crew'.on = crew.on /\ crew'.now = crew.now /\ crew'.app = crew.app
        /\ crew'.next = crew.next /\ crew'.stop = crew.stop
        /\ crew'.child = crew.child /\ crew'.main = crew.main
        /\ crew'.mine = crew.mine /\ crew'.stopper = crew.stopper
        /\ crew'.taken = crew.taken /\ crew'.deaths = crew.deaths
        /\ crew'.hist = crew.hist /\ crew'.told = crew.told
        /\ crew'.early = crew.early
        /\ crew'.st = s /\ crew'.mon = "watch"
    BY <1>0 DEF CrewInv, CrewTypeOK
  <1>2. CrewTypeOK'
    BY <1>0, NoneIsSlot DEF CrewInv, CrewTypeOK, MainPc, MonPc
  <1>3. Remembered' /\ GivesUpFairly'
    BY <1>0, <1>1, <1>2, HistoryKept DEF CrewInv, Remembered, Started, CrewTypeOK
  <1>4. OnlyNewest' /\ Started' /\ Cleared' /\ Recorded' /\ Flagged' /\ Held'
    BY <1>0, <1>1
    DEF CrewInv, CrewTypeOK, Slot, Count, OnlyNewest, Started, Cleared, Recorded, Flagged, Held, Empty
  <1> QED
    BY <1>2, <1>3, <1>4 DEF CrewInv

(* What popleft leaves.                                                    *)
LEMMA KeptIs ==
  ASSUME NEW d \in Seq(Nat), NEW k \in 0..Len(d)
  PROVE  /\ SubSeq(d, k + 1, Len(d)) \in Seq(Nat)
         /\ Len(SubSeq(d, k + 1, Len(d))) = Len(d) - k
         /\ \A i \in 1..(Len(d) - k) : SubSeq(d, k + 1, Len(d))[i] = d[k + i]
  OBVIOUS

(* What append adds.                                                       *)
LEMMA AppendIs ==
  ASSUME NEW d \in Seq(Nat), NEW n \in Nat
  PROVE  /\ Append(d, n) \in Seq(Nat)
         /\ Len(Append(d, n)) = Len(d) + 1
         /\ \A i \in 1..Len(d) : Append(d, n)[i] = d[i]
         /\ Append(d, n)[Len(d) + 1] = n
  OBVIOUS

(* The history stays in order when a death is recorded at the clock.       *)
LEMMA HistoryGrows ==
  ASSUME CrewInv, crew'.hist = Append(crew.hist, crew.now), crew'.now = crew.now
  PROVE  /\ \A i \in 1..Len(crew'.hist) : crew'.hist[i] <= crew'.now
         /\ \A i, j \in 1..Len(crew'.hist) : i <= j => crew'.hist[i] <= crew'.hist[j]
  <1>1. crew.now \in Nat /\ crew.hist \in Seq(Nat)
    BY DEF CrewInv, CrewTypeOK
  <1>2. /\ Len(crew'.hist) = Len(crew.hist) + 1 /\ Len(crew.hist) \in Nat
        /\ \A i \in 1..Len(crew.hist) : crew'.hist[i] = crew.hist[i]
        /\ crew'.hist[Len(crew.hist) + 1] = crew.now
    BY <1>1, AppendIs
  <1>3. /\ \A i \in 1..Len(crew.hist) : crew.hist[i] <= crew.now
        /\ \A i, j \in 1..Len(crew.hist) : i <= j => crew.hist[i] <= crew.hist[j]
    BY DEF CrewInv, Remembered
  <1>4. \A i \in 1..Len(crew'.hist) : crew'.hist[i] <= crew'.now
    BY <1>1, <1>2, <1>3
  <1>5. \A i, j \in 1..Len(crew'.hist) : i <= j => crew'.hist[i] <= crew'.hist[j]
    <2>1. SUFFICES ASSUME NEW i \in 1..Len(crew'.hist), NEW j \in 1..Len(crew'.hist), i <= j
                   PROVE  crew'.hist[i] <= crew'.hist[j]
      OBVIOUS
    <2>2. CASE j = Len(crew.hist) + 1
      BY <1>2, <1>4, <2>2
    <2>3. CASE j # Len(crew.hist) + 1
      BY <1>2, <1>3, <2>1, <2>3
    <2> QED
      BY <2>2, <2>3
  <1> QED
    BY <1>4, <1>5

(* The deaths are instants.                                                *)
LEMMA Element == ASSUME NEW D \in Seq(Nat) PROVE \A j \in 1..Len(D) : D[j] \in Nat
  OBVIOUS

(* What comes after a death within the window is within it.                *)
LEMMA Younger ==
  ASSUME NEW x \in Nat, NEW y \in Nat, NEW horizon \in Int, x <= y, x > horizon
  PROVE  y > horizon
  OBVIOUS

(* Where an element of the end of an end lies in the whole.                *)
LEMMA Shift ==
  ASSUME NEW h \in Nat, NEW d \in Nat, NEW k \in 0..d, NEW i \in 1..(d - k), d <= h
  PROVE  /\ k + i \in 1..d /\ k + 1 \in 1..d /\ k < d
         /\ h - d + (k + i) \in 1..h /\ h - d + (k + 1) \in 1..h
         /\ h - d + (k + 1) <= h - d + (k + i) /\ h - d + (k + i) = h - (d - k) + i
  OBVIOUS

(* The end of an end is an end; past the first one younger than the        *)
(* horizon all are.                                                        *)
LEMMA RecentSuffix ==
  ASSUME NEW H \in Seq(Nat), NEW D \in Seq(Nat), NEW K \in Seq(Nat), NEW horizon \in Int,
         NEW h \in Nat, NEW d \in Nat, NEW k \in 0..d, h = Len(H), d = Len(D), Len(K) = d - k, d <= h,
         \A i \in 1..d : D[i] = H[h - d + i],
         \A i, j \in 1..h : i <= j => H[i] <= H[j],
         \A i \in 1..(d - k) : K[i] = D[k + i],
         k < d => D[k + 1] > horizon
  PROVE  \A i \in 1..(d - k) : K[i] = H[h - (d - k) + i] /\ K[i] > horizon
  <1> SUFFICES ASSUME NEW i \in 1..(d - k)
               PROVE  K[i] = H[h - (d - k) + i] /\ K[i] > horizon
    OBVIOUS
  <1>1. k + i \in 1..d /\ k + 1 \in 1..d /\ k < d
    BY Shift
  <1>2. /\ h - d + (k + i) \in 1..h /\ h - d + (k + 1) \in 1..h
        /\ h - d + (k + 1) <= h - d + (k + i) /\ h - d + (k + i) = h - (d - k) + i
    BY Shift
  <1>3. D[k + i] = H[h - d + (k + i)] /\ D[k + 1] = H[h - d + (k + 1)] /\ K[i] = D[k + i]
    BY <1>1
  <1>4. H[h - d + (k + 1)] <= H[h - d + (k + i)]
    BY <1>2
  <1>5. \A j \in 1..d : D[j] \in Nat
    BY Element, Zenon
  <1>6. D[k + 1] \in Nat /\ D[k + i] \in Nat
    BY <1>1, <1>5
  <1>7. K[i] = H[h - (d - k) + i]
    BY <1>2, <1>3
  <1>8. D[k + 1] <= D[k + i] /\ D[k + 1] > horizon
    BY <1>1, <1>3, <1>4
  <1>9. K[i] > horizon
    <2>1. D[k + i] > horizon
      BY <1>6, <1>8, Younger, Zenon
    <2> QED
      BY <1>3, <2>1, Zenon
  <1> QED
    BY <1>7, <1>9

(* What the deaths that are kept say of the history: each one is less than *)
(* a window old, and they are its end.                                     *)
LEMMA KeptIsRecent ==
  ASSUME CrewInv, ~crew.told, NEW k \in 0..Len(crew.deaths), popsOld(k)
  PROVE  /\ kept(k) \in Seq(Nat) /\ Len(kept(k)) = Len(crew.deaths) - k
         /\ Len(kept(k)) <= Len(crew.hist)
         /\ \A i \in 1..Len(kept(k)) :
               /\ kept(k)[i] = crew.hist[Len(crew.hist) - Len(kept(k)) + i]
               /\ kept(k)[i] > crew.now - Window
  <1>1. /\ crew.now \in Nat /\ crew.hist \in Seq(Nat) /\ crew.deaths \in Seq(Nat) /\ Window \in Nat
        /\ Len(crew.hist) \in Nat /\ Len(crew.deaths) \in Nat
    BY RestartPolicyAssumption DEF CrewInv, CrewTypeOK
  <1>2. /\ kept(k) \in Seq(Nat) /\ Len(kept(k)) = Len(crew.deaths) - k
        /\ \A i \in 1..Len(kept(k)) : kept(k)[i] = crew.deaths[k + i]
    BY <1>1, KeptIs DEF kept
  <1>3. /\ Len(crew.deaths) <= Len(crew.hist)
        /\ \A i \in 1..Len(crew.deaths) :
              crew.deaths[i] = crew.hist[Len(crew.hist) - Len(crew.deaths) + i]
        /\ \A i, j \in 1..Len(crew.hist) : i <= j => crew.hist[i] <= crew.hist[j]
    BY DEF CrewInv, Remembered
  <1>4. crew.now - Window \in Int /\ (k < Len(crew.deaths) => crew.deaths[k + 1] > crew.now - Window)
    <2>1. ASSUME k < Len(crew.deaths) PROVE crew.deaths[k + 1] \in Nat
      BY <1>1, <2>1
    <2> QED
      BY <1>1, <2>1 DEF popsOld, outOfWindow
  <1>5. \A i \in 1..(Len(crew.deaths) - k) :
            /\ kept(k)[i] = crew.hist[Len(crew.hist) - (Len(crew.deaths) - k) + i]
            /\ kept(k)[i] > crew.now - Window
    <2>1. \A i \in 1..(Len(crew.deaths) - k) : kept(k)[i] = crew.deaths[k + i]
      BY <1>2
    <2> QED
      BY <1>1, <1>2, <1>3, <1>4, <2>1, RecentSuffix, Zenon
  <1>6. Len(crew.deaths) - k <= Len(crew.hist)
    BY <1>1, <1>3
  <1> QED
    BY <1>2, <1>5, <1>6

(* Both ends grow by the same death.                                       *)
LEMMA SuffixGrows ==
  ASSUME NEW H \in Seq(Nat), NEW K \in Seq(Nat), NEW n \in Nat, Len(K) <= Len(H),
         \A i \in 1..Len(K) : K[i] = H[Len(H) - Len(K) + i]
  PROVE  \A i \in 1..(Len(K) + 1) :
            Append(K, n)[i] = Append(H, n)[(Len(H) + 1) - (Len(K) + 1) + i]
  <1> DEFINE h == Len(H)
             m == Len(K)
  <1>0. h \in Nat /\ m \in Nat /\ m <= h /\ \A i \in 1..m : K[i] = H[h - m + i]
    OBVIOUS
  <1> SUFFICES ASSUME NEW i \in 1..(m + 1)
               PROVE  Append(K, n)[i] = Append(H, n)[(h + 1) - (m + 1) + i]
    OBVIOUS
  <1>1. CASE i = m + 1
    <2>1. (h + 1) - (m + 1) + i = h + 1
      BY <1>0, <1>1
    <2>2. Append(K, n)[m + 1] = n /\ Append(H, n)[h + 1] = n
      BY AppendIs, Zenon
    <2> QED
      BY <1>1, <2>1, <2>2
  <1>2. CASE i # m + 1
    <2>1. i \in 1..m /\ h - m + i \in 1..h /\ (h + 1) - (m + 1) + i = h - m + i
      BY <1>0, <1>2
    <2>2. Append(K, n)[i] = K[i] /\ Append(H, n)[h - m + i] = H[h - m + i]
      BY <2>1, AppendIs, Zenon
    <2>3. K[i] = H[h - m + i]
      BY <1>0, <2>1
    <2> QED
      BY <2>1, <2>2, <2>3
  <1> QED
    BY <1>1, <1>2

(* Where the death that opens the window lies in the history.              *)
LEMMA Place ==
  ASSUME NEW h \in Nat, NEW m \in Nat, NEW r \in Nat, m <= h, r <= m, r # 0
  PROVE  (h + 1) - r \in 1..h /\ (h + 1) - r = h - m + (m + 1 - r)
  OBVIOUS

(* What recording a death leaves alone.                                    *)
LEMMA DeathKeepsCrew ==
  ASSUME CrewInv, crew.mon = "budget", crew'.mon \in {"over", "backoff"},
         crew'.app = crew.app, crew'.next = crew.next, crew'.stop = crew.stop, crew'.child = crew.child,
         crew'.main = crew.main, crew'.mine = crew.mine, crew'.stopper = crew.stopper,
         crew'.taken = crew.taken, crew'.early = crew.early
  PROVE  OnlyNewest' /\ Started' /\ Cleared' /\ Recorded' /\ Flagged' /\ Held'
  BY DEF CrewInv, OnlyNewest, Started, Cleared, Recorded, Flagged, Held, Empty

(* SetState() leaves the other fields, and a stopped supervisor stopped.   *)
LEMMA SetStateIs ==
  ASSUME CrewTypeOK, NEW c, NEW to \in {"restarting", "failed"}, c = recorded
  PROVE  \E s \in {"stopped", "running", "restarting", "failed"} :
            SetState(c, to) = [crew EXCEPT !.hist = Append(crew.hist, crew.now), !.st = s]
  <1>1. c = [crew EXCEPT !.hist = Append(crew.hist, crew.now)]
    BY DEF recorded
  <1>2. c.st = crew.st /\ crew.st \in {"stopped", "running", "restarting", "failed"}
    BY <1>1 DEF CrewTypeOK
  <1>3. CASE crew.st = "stopped"
    <2>1. c = [crew EXCEPT !.hist = Append(crew.hist, crew.now), !.st = "stopped"]
      BY <1>1, <1>3 DEF CrewTypeOK
    <2> QED
      BY <1>2, <1>3, <2>1 DEF SetState
  <1>4. CASE crew.st # "stopped"
    BY <1>1, <1>2, <1>4 DEF SetState, CrewTypeOK
  <1> QED
    BY <1>3, <1>4

(* The death that exhausts the budget: max_restarts others are less than a *)
(* window old.                                                             *)
LEMMA GiveUpPreserves ==
  ASSUME CrewInv, Mon("budget"), NEW k \in 0..Len(crew.deaths), popsOld(k),
         Len(kept(k)) >= MaxRestarts,
         crew' = [Over(SetState(recorded, "failed")) EXCEPT !.told = TRUE, !.deaths = kept(k)]
  PROVE  CrewInv'
  <1>0. crew.mon = "budget" /\ ~crew.told /\ CrewTypeOK
    BY DEF Mon, CrewInv, Remembered
  <1>1. PICK s \in {"stopped", "running", "restarting", "failed"} :
           SetState(recorded, "failed") = [crew EXCEPT !.hist = Append(crew.hist, crew.now), !.st = s]
    BY <1>0, SetStateIs
  <1>2. crew' = [Over(SetState(recorded, "failed")) EXCEPT !.told = Yes, !.deaths = kept(k)]
    BY YesNo, Zenon
  <1>3. crew' = [crew EXCEPT !.hist = Append(crew.hist, crew.now), !.st = s, !.mon = "over",
                             !.told = Yes, !.deaths = kept(k)]
    BY <1>1, <1>2 DEF Over
  <1>4. /\ crew'.on = crew.on /\ crew'.now = crew.now /\ crew'.app = crew.app
        /\ crew'.next = crew.next /\ crew'.stop = crew.stop
        /\ crew'.child = crew.child /\ crew'.main = crew.main
        /\ crew'.mine = crew.mine /\ crew'.stopper = crew.stopper
        /\ crew'.taken = crew.taken /\ crew'.early = crew.early
        /\ crew'.hist = Append(crew.hist, crew.now) /\ crew'.mon = "over"
        /\ crew'.told = Yes /\ crew'.deaths = kept(k) /\ crew'.st = s
    BY <1>0, <1>3 DEF CrewTypeOK
  <1>5. /\ kept(k) \in Seq(Nat) /\ Len(kept(k)) <= Len(crew.hist)
        /\ \A i \in 1..Len(kept(k)) :
              /\ kept(k)[i] = crew.hist[Len(crew.hist) - Len(kept(k)) + i]
              /\ kept(k)[i] > crew.now - Window
    BY <1>0, KeptIsRecent
  <1>6. crew.hist \in Seq(Nat) /\ crew.now \in Nat
    BY <1>0 DEF CrewTypeOK
  <1>7. /\ Append(crew.hist, crew.now) \in Seq(Nat) /\ Len(crew'.hist) = Len(crew.hist) + 1
        /\ \A i \in 1..Len(crew.hist) : crew'.hist[i] = crew.hist[i]
        /\ crew'.hist[Len(crew.hist) + 1] = crew.now
    BY <1>4, <1>6, AppendIs
  <1>8. CrewTypeOK'
    BY <1>0, <1>3, <1>5, <1>7, YesNo DEF CrewTypeOK, MonPc
  <1>9. Remembered'
    BY <1>4, HistoryGrows, YesNo DEF Remembered
  <1>10. GivesUpFairly'
    <2>1. Len(kept(k)) \in Nat /\ Len(crew.hist) \in Nat /\ MaxRestarts \in Nat /\ Window \in Nat
      BY <1>5, <1>6, RestartPolicyAssumption
    <2>2. Len(crew'.hist) > MaxRestarts
      BY <1>5, <1>7, <2>1
    <2>3. ASSUME MaxRestarts # 0
          PROVE  crew'.hist[Len(crew'.hist)] - crew'.hist[Len(crew'.hist) - MaxRestarts] < Window
      <3> DEFINE i == Len(kept(k)) + 1 - MaxRestarts
                 p == Len(crew'.hist) - MaxRestarts
      <3>1. i \in 1..Len(kept(k))
        BY <2>1, <2>3
      <3>2. p \in 1..Len(crew.hist) /\ p = Len(crew.hist) - Len(kept(k)) + i
        <4>1. Len(kept(k)) <= Len(crew.hist) /\ MaxRestarts <= Len(kept(k))
          BY <1>5, <2>1
        <4>2. p = (Len(crew.hist) + 1) - MaxRestarts
          BY <1>7
        <4> QED
          BY <2>1, <2>3, <4>1, <4>2, Place
      <3>3. crew'.hist[p] = kept(k)[i] /\ kept(k)[i] > crew.now - Window
        BY <1>5, <1>7, <3>1, <3>2
      <3>4. kept(k)[i] \in Nat
        BY <1>5, <3>1, Element
      <3>5. crew'.hist[Len(crew'.hist)] = crew.now
        BY <1>7
      <3> HIDE DEF i, p
      <3>6. crew.now - crew'.hist[p] < Window
        BY <1>6, <2>1, <3>3, <3>4
      <3> QED
        BY <3>5, <3>6 DEF p
    <2> QED
      BY <2>2, <2>3 DEF GivesUpFairly
  <1>11. OnlyNewest' /\ Started' /\ Cleared' /\ Recorded' /\ Flagged' /\ Held'
    BY <1>0, <1>4, DeathKeepsCrew
  <1> QED
    BY <1>8, <1>9, <1>10, <1>11 DEF CrewInv

(* A death within the budget is appended to both the deque and the history. *)
LEMMA CountPreserves ==
  ASSUME CrewInv, Mon("budget"), NEW k \in 0..Len(crew.deaths), popsOld(k),
         crew' = [SetState(recorded, "restarting") EXCEPT !.deaths = Append(kept(k), crew.now),
                                                           !.mon = "backoff"]
  PROVE  CrewInv'
  <1>0. crew.mon = "budget" /\ ~crew.told /\ CrewTypeOK
    BY DEF Mon, CrewInv, Remembered
  <1>1. PICK s \in {"stopped", "running", "restarting", "failed"} :
           SetState(recorded, "restarting") = [crew EXCEPT !.hist = Append(crew.hist, crew.now), !.st = s]
    BY <1>0, SetStateIs
  <1>3. crew' = [crew EXCEPT !.hist = Append(crew.hist, crew.now), !.st = s, !.mon = "backoff",
                             !.deaths = Append(kept(k), crew.now)]
    BY <1>1
  <1>4. /\ crew'.on = crew.on /\ crew'.now = crew.now /\ crew'.app = crew.app
        /\ crew'.next = crew.next /\ crew'.stop = crew.stop
        /\ crew'.child = crew.child /\ crew'.main = crew.main
        /\ crew'.mine = crew.mine /\ crew'.stopper = crew.stopper
        /\ crew'.taken = crew.taken /\ crew'.told = crew.told
        /\ crew'.early = crew.early /\ crew'.hist = Append(crew.hist, crew.now)
        /\ crew'.mon = "backoff" /\ crew'.deaths = Append(kept(k), crew.now)
        /\ crew'.st = s
    BY <1>0, <1>3 DEF CrewTypeOK
  <1>5. /\ kept(k) \in Seq(Nat) /\ Len(kept(k)) <= Len(crew.hist)
        /\ \A i \in 1..Len(kept(k)) : kept(k)[i] = crew.hist[Len(crew.hist) - Len(kept(k)) + i]
    BY <1>0, KeptIsRecent
  <1>6. crew.hist \in Seq(Nat) /\ crew.now \in Nat
    BY <1>0 DEF CrewTypeOK
  <1>7. /\ Append(crew.hist, crew.now) \in Seq(Nat) /\ Len(crew'.hist) = Len(crew.hist) + 1
        /\ Append(kept(k), crew.now) \in Seq(Nat) /\ Len(crew'.deaths) = Len(kept(k)) + 1
        /\ Len(crew.hist) \in Nat /\ Len(kept(k)) \in Nat
    BY <1>4, <1>5, <1>6, AppendIs
  <1>8. CrewTypeOK'
    BY <1>0, <1>3, <1>7 DEF CrewTypeOK, MonPc
  <1>9. Remembered'
    <2>1. \A i \in 1..(Len(kept(k)) + 1) :
             Append(kept(k), crew.now)[i]
               = Append(crew.hist, crew.now)[(Len(crew.hist) + 1) - (Len(kept(k)) + 1) + i]
      <3>1. PICK K \in Seq(Nat) : K = kept(k)
        BY <1>5
      <3>2. PICK H \in Seq(Nat) : H = crew.hist
        BY <1>6
      <3>3. Len(K) \in Nat /\ Len(H) \in Nat /\ Len(K) <= Len(H) /\ crew.now \in Nat
        BY <1>5, <1>6, <1>7, <3>1, <3>2
      <3>4. \A i \in 1..Len(K) : K[i] = H[Len(H) - Len(K) + i]
        BY <1>5, <3>1, <3>2
      <3>5. \A i \in 1..(Len(K) + 1) :
               Append(K, crew.now)[i] = Append(H, crew.now)[(Len(H) + 1) - (Len(K) + 1) + i]
        BY <3>3, <3>4, SuffixGrows, Zenon
      <3> QED
        BY <3>1, <3>2, <3>5
    <2>2. \A i \in 1..Len(crew'.deaths) :
             crew'.deaths[i] = crew'.hist[Len(crew'.hist) - Len(crew'.deaths) + i]
      BY <1>4, <1>7, <2>1
    <2>3. Len(crew'.deaths) <= Len(crew'.hist)
      BY <1>5, <1>7
    <2> QED
      BY <1>0, <1>4, <2>2, <2>3, HistoryGrows DEF Remembered
  <1>10. GivesUpFairly'
    BY <1>0, <1>4 DEF GivesUpFairly
  <1>11. OnlyNewest' /\ Started' /\ Cleared' /\ Recorded' /\ Flagged' /\ Held'
    BY <1>0, <1>4, DeathKeepsCrew
  <1> QED
    BY <1>8, <1>9, <1>10, <1>11 DEF CrewInv

-----------------------------------------------------------------------------
(* The supervisor before its host starts.                                  *)
LEMMA CrewStarts == CrewInit => CrewInv
  <1> SUFFICES ASSUME CrewInit PROVE CrewInv
    OBVIOUS
  <1>1. crew = [on |-> No, now |-> 0, app |-> [a \in Apps |-> "none"], next |-> 1, st |-> "stopped",
                stop |-> No, child |-> 0, main |-> "idle", mon |-> "none", mine |-> 0,
                stopper |-> "idle", taken |-> 0, deaths |-> <<>>, hist |-> <<>>, told |-> No,
                early |-> No]
    BY YesNo, Zenon DEF CrewInit
  <1>2. 1 \in Count
    BY RestartPolicyAssumption DEF Count
  <1>3. CrewTypeOK
    BY <1>1, <1>2, NoneIsSlot, YesNo DEF CrewTypeOK, MainPc, MonPc, AppState
  <1>4. /\ crew.app = [a \in Apps |-> "none"] /\ crew.next = 1 /\ crew.child = 0 /\ crew.mine = 0
        /\ crew.taken = 0 /\ crew.main = "idle" /\ crew.mon = "none" /\ crew.stopper = "idle"
        /\ crew.deaths = <<>> /\ crew.hist = <<>> /\ crew.told = No /\ crew.early = No
    BY <1>1
  <1>5. ~crew.told /\ ~crew.early
    BY <1>4, YesNo
  <1>6. OnlyNewest /\ Started /\ Cleared /\ Recorded /\ Flagged /\ Held
    BY <1>4, <1>5 DEF OnlyNewest, Started, Cleared, Recorded, Flagged, Held
  <1>7. Remembered /\ GivesUpFairly
    BY <1>4, <1>5 DEF Remembered, GivesUpFairly
  <1> QED
    BY <1>3, <1>6, <1>7 DEF CrewInv

(* Every step of the supervisor, of its apps, of a stop and of the clock   *)
(* preserves the invariant.                                                *)
LEMMA CrewPreserves ==
  ASSUME CrewInv, CrewNext
  PROVE  CrewInv'
  <1>1. CASE launchHost
    BY <1>1, LaunchHostPreserves
  <1>2. CASE tick
    BY <1>2, TickPreserves
  <1>3. CASE appReady \/ appDies
    BY <1>3, AppPreserves
  <1>4. CASE start
    BY <1>4, StartPreserves
  <1>5. CASE startKeeps
    BY <1>5, StartKeepsPreserves
  <1>6. CASE startClears
    BY <1>6, StartClearsPreserves
  <1>7. CASE startAwaits
    <2>1. CASE crew.main = "await" /\ crew' = [crew EXCEPT !.main = "state"]
      BY <2>1, StartAnsweredPreserves
    <2>2. CASE /\ awaitFails(crew.mine)
               /\ crew' = [kill(crew, crew.child) EXCEPT !.main = "raised", !.stop = TRUE,
                                                          !.child = 0, !.st = "stopped"]
      BY <1>7, <2>2, StartFailedPreserves, Zenon DEF startAwaits
    <2> QED
      BY <1>7, <2>1, <2>2, Zenon DEF startAwaits, Main
  <1>8. CASE startRuns
    BY <1>8, StartRunsPreserves
  <1>9. CASE stopSets
    BY <1>9, StopSetsPreserves
  <1>10. CASE stopTakes
    BY <1>10, StopTakesPreserves
  <1>11. CASE stopKills
    BY <1>11, StopKillsPreserves
  <1>12. CASE watch
    <2>1. CASE crew' = Over(crew)
      BY <1>12, <2>1, MonitorEndsPreserves DEF watch, Mon
    <2>2. CASE crew.child # 0 /\ crew' = [crew EXCEPT !.mine = crew.child, !.mon = "wait"]
      BY <1>12, <2>2, WatchPreserves DEF watch
    <2> QED
      BY <1>12, <2>1, <2>2, Zenon DEF watch
  <1>13. CASE watchWakes
    <2>1. CASE crew' = Over(crew)
      BY <1>13, <2>1, MonitorEndsPreserves DEF watchWakes, Mon
    <2>2. CASE crew' = [crew EXCEPT !.mon = "recover"]
      BY <1>13, <2>2, WatchWakesPreserves DEF watchWakes
    <2> QED
      BY <1>13, <2>1, <2>2, Zenon DEF watchWakes
  <1>14. CASE recover
    BY <1>14, RecoverPreserves
  <1>15. CASE record_death
    BY <1>15, GiveUpPreserves, CountPreserves, Zenon DEF record_death
  <1>16. CASE backoff
    <2>1. CASE crew' = Over(crew)
      BY <1>16, <2>1, MonitorEndsPreserves DEF backoff, Mon
    <2>2. CASE canSpawn /\ crew' = [spawn(crew) EXCEPT !.mine = crew.next, !.mon = "publish"]
      BY <1>16, <2>2, RelaunchPreserves, Zenon DEF backoff
    <2> QED
      BY <1>16, <2>1, <2>2, Zenon DEF backoff
  <1>17. CASE publish
    <2>1. CASE crew' = Over(kill(crew, crew.mine))
      BY <1>17, <2>1, PublishStoppedPreserves, Zenon DEF publish
    <2>2. CASE ~crew.stop /\ crew' = [crew EXCEPT !.child = crew.mine, !.mon = "await"]
      BY <1>17, <2>2, PublishPreserves, Zenon DEF publish
    <2> QED
      BY <1>17, <2>1, <2>2, Zenon DEF publish, published
  <1>18. CASE awaitAgain
    <2>1. CASE crew' = [SetState(crew, "running") EXCEPT !.mon = "watch"]
      BY <1>18, <2>1, AnswersAgainPreserves, Zenon DEF awaitAgain
    <2>2. CASE crew' = [kill(crew, crew.mine) EXCEPT !.mon = "budget"]
      BY <1>18, <2>2, AwaitFailedPreserves, Zenon DEF awaitAgain
    <2> QED
      BY <1>18, <2>1, <2>2, Zenon DEF awaitAgain
  <1> QED
    BY <1>1, <1>2, <1>3, <1>4, <1>5, <1>6, <1>7, <1>8, <1>9, <1>10, <1>11, <1>12, <1>13, <1>14,
       <1>15, <1>16, <1>17, <1>18 DEF CrewNext

(* The invariant does not read anything but the supervisor.                *)
LEMMA CrewUnmoved ==
  ASSUME CrewInv, UNCHANGED crew
  PROVE  CrewInv'
  BY DEF CrewInv, CrewTypeOK, OnlyNewest, Started, Cleared, Recorded, Flagged, Held, Empty,
         Remembered, GivesUpFairly

(* The invariant says what the run checks.                                 *)
LEMMA CrewInvSound == CrewInv => AppSupervisorSound
  <1> SUFFICES ASSUME CrewInv PROVE AppSupervisorSound
    OBVIOUS
  <1>1. OneAppAtATime
    <2>1. Present \subseteq {crew.mine}
      BY DEF CrewInv, OnlyNewest, Present
    <2>2. IsFiniteSet({crew.mine}) /\ Cardinality({crew.mine}) = 1
      BY FS_Singleton
    <2>3. Cardinality(Present) <= Cardinality({crew.mine})
      BY <2>1, <2>2, FS_Subset
    <2> QED
      BY <2>2, <2>3 DEF OneAppAtATime
  <1>2. StopLeavesNothing
    <2> SUFFICES ASSUME crew.stopper = "done", ~crew.early, crew.mon # "publish"
                 PROVE  Present = {}
      BY DEF StopLeavesNothing
    <2>1. crew.main \notin {"idle", "keep"}
      BY DEF CrewInv, Started, Flagged
    <2>2. Empty
      BY <2>1 DEF CrewInv, Held
    <2> QED
      BY <2>2 DEF Empty, Present
  <1> QED
    BY <1>1, <1>2 DEF CrewInv, AppSupervisorSound

(* For every restart policy, whatever the order of a death, a relaunch, a  *)
(* health check and a stop(): never two applications at a time, a stop()   *)
(* leaves no process of the group behind, and the supervisor gives up only *)
(* after max_restarts + 1 deaths within one window.                        *)
THEOREM AppSupervisorIsSound == Spec => []AppSupervisorSound
  <1>1. Init => CrewInv
    BY CrewStarts DEF Init
  <1>2. CrewInv /\ [Next]_vars => CrewInv'
    <2> SUFFICES ASSUME CrewInv, [Next]_vars PROVE CrewInv'
      OBVIOUS
    <2>1. CrewNext \/ UNCHANGED crew
      BY DEF Next, vars
    <2> QED
      BY <2>1, CrewPreserves, CrewUnmoved
  <1> QED
    BY <1>1, <1>2, CrewInvSound, PTL DEF Spec
=============================================================================
