-------------------------- MODULE StreamingProperties --------------------------
(* What the streaming system promises. *)
EXTENDS StreamingSystem

Occupied == {i \in DOMAIN slots : slots[i].record # None}
Records == {slots[i].record : i \in Occupied}
Loads(c) == {i \in Occupied : slots[i].record.class = c /\ slots[i].record.state = "Loading"}
Residents(c) == {i \in Occupied : slots[i].record.class = c /\ slots[i].record.state = "Resident"}
Cpu == [i \in Occupied |-> slots[i].record.size.cpu]
Gpu == [i \in Occupied |-> slots[i].record.size.gpu]

(* A handle only ever reaches the request that it was returned for, however *)
(* often its slot has been released, closed and used again since, and the    *)
(* active handles are those of the occupied slots: a worker's late call      *)
(* cannot disturb another request ("stale-handle cancellation",              *)
(* Docs/Architecture.md:572).  The table stays within the storage reserved   *)
(* for it ("so noexcept release and close do not allocate", :579).           *)
HandlesStayTheirs ==
    /\ \A id \in DOMAIN issued : Matches(issued[id]) => RecordOf(issued[id]).id = id
    /\ IsInjective(active) /\ \A h \in ToSet(active) : Matches(h)
    /\ {h.slot : h \in ToSet(active)} = Occupied
    /\ IsInjective(free) /\ ToSet(free) = DOMAIN slots \ Occupied
    /\ Len(slots) <= MaximumRequests

(* The statistics of a class are the sums over its requests, at any time    *)
(* between the calls of all threads: the bytes over those that load or are   *)
(* resident, and every request is counted as ended once.                    *)
StatisticsAgree ==
    \A c \in Class :
        LET s == statistics[c]
        IN /\ s.inFlight = SumFunctionOnSet(Cpu, Loads(c))
           /\ s.cpu = SumFunctionOnSet(Cpu, Residents(c)) /\ s.gpu = SumFunctionOnSet(Gpu, Residents(c))
           /\ s.requested = s.inFlight + s.cpu
           /\ s.requests = s.completed + s.failures + s.cancelled + Cardinality(Loads(c))

(* No worker reads for nobody: of a request that was cancelled, released or  *)
(* closed, the read is over or knows that it is cancelled.  The bounded      *)
(* queue holds as many reads as have not left it, such ones included.        *)
ReadsAreAwaited ==
    /\ \A id \in DOMAIN operations :
          \/ IsTerminal(operations[id].state) \/ operations[id].cancel
          \/ \E r \in Records : r.id = id /\ r.state = "Loading"
    /\ queueSize = Cardinality({id \in DOMAIN operations : operations[id].job # "over"})

Over(c, percent) == ~WithinBudget(c, statistics[c].cpu, statistics[c].gpu, percent)
Lost(c) == {i \in Residents(c) : slots'[i].record # None /\ slots'[i].record.state = "Evicted"}
OlderThan(i, j) == slots[i].record.touch < slots[j].record.touch

(* "100/90 percent eviction hysteresis, pins" (Docs/Architecture.md:572): a *)
(* class over its threshold, and only such a class, is brought within its   *)
(* target at the expense of its least recently touched requests, and of no  *)
(* more of them than needed; a pinned one stays.                            *)
LosesLeastRecent(c) ==
    /\ Lost(c) # {} => Over(c, EvictionThreshold)
    /\ \A i \in Lost(c) :
          /\ ~slots[i].record.pinned
          /\ \A j \in Residents(c) \ Lost(c) : slots[j].record.pinned \/ OlderThan(i, j)
    /\ \A i \in Lost(c) :
          (\A j \in Lost(c) : j = i \/ OlderThan(j, i)) =>
              ~WithinBudget(c, statistics'[c].cpu + slots[i].record.size.cpu,
                               statistics'[c].gpu + slots[i].record.size.gpu, EvictionTarget)
    /\ pumping /\ ~pumping' /\ open /\ Over(c, EvictionThreshold) =>
          \/ ~Over(c, EvictionTarget)'
          \/ \A i \in Residents(c) \ Lost(c) : slots[i].record.pinned
(* No step, the eviction of a frame or any other, takes more than that.      *)
EvictsLeastRecent ==
    [][statistics' # statistics \/ pumping # pumping' => \A c \in Class : LosesLeastRecent(c)]_vars

(* Every request ends, as long as the workers read and the owner pumps; and  *)
(* one that was cancelled, has failed or was evicted does not come back,     *)
(* whenever its read ends.                                                  *)
Waits(id) == id \in DOMAIN issued /\ StateOf(issued[id]) = "Loading"
EndedStays ==
    \A id \in DOMAIN issued :
        StateOf(issued[id]) \in {"Evicted", "Failed", "Cancelled"} =>
            StateOf(issued[id])' \in {StateOf(issued[id]), "Stale"}
RequestsEnd ==
    /\ \A id \in 1..MaxIssued : Waits(id) ~> ~Waits(id)
    /\ [][EndedStays]_vars
=============================================================================
