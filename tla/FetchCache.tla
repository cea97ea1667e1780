----------------------------- MODULE FetchCache -----------------------------
(***************************************************************************)
(* Coordinated reads of an external source: a shared cache with expiring   *)
(* entries, a lease per request so that one reader fetches what many miss, *)
(* and a bound on the concurrent calls of a process.                       *)
(*                                                                         *)
(* A lease is kept by a heartbeat thread.  A reader whose heartbeat stalls *)
(* loses the lease without knowing it until the next refresh, and nothing  *)
(* but that thread stands between it and the cache.                        *)
(***************************************************************************)
EXTENDS Naturals, FiniteSets

CONSTANTS
    Request,        \* cache keys
    Reader,         \* calls of the coordinator, one request each
    Remote,         \* readers of other processes: they do not share the permits
    NoReader,       \* owner of a free lease
    Permits,        \* source_concurrency of this process
    MaxAttempts,    \* retry_max_attempts
    MaxSource,      \* states of the external source (a bound)
    FetchFaults,    \* faults of the environment, each at most once
    MaxFetchFaults  \* number of them in one behaviour (a bound)

\* A heartbeat that stalls for the life of the lease, a process that dies, an
\* entry that is damaged, a cache that is not reached, a source that refuses.
FetchFaultKinds == {"stall", "crash", "corrupt", "cache", "source"}

ASSUME FetchAssumption ==
    /\ NoReader \notin Reader /\ Remote \subseteq Reader
    /\ Permits \in Nat \ {0} /\ MaxAttempts \in Nat \ {0}
    /\ MaxSource \in Nat \ {0} /\ MaxFetchFaults \in Nat
    /\ FetchFaults \subseteq FetchFaultKinds

VARIABLES
    source,     \* state of the external source
    entry,      \* per request: the cached state of the source, 0 for none
    damaged,    \* requests whose entry cannot be decoded
    lease,      \* per request: the owner of the lock key
    reader,     \* the calls
    fetchFaults \* faults that have happened

fetchVars == <<source, entry, damaged, lease, reader, fetchFaults>>

-----------------------------------------------------------------------------

ReaderState ==
    [phase : {"idle", "missed", "waiting", "owner", "queued", "calling", "fetched", "storing",
              "releasing", "ended", "dead"},
     request : Request, value : 0 .. MaxSource, attempts : 0 .. MaxAttempts, lost : BOOLEAN]

\* Phases in which a reader believes that it holds the lease of its request.
Owning == {"owner", "queued", "calling", "fetched", "storing", "releasing"}

FetchFault(kind) ==
    /\ kind \in FetchFaults \ fetchFaults
    /\ Cardinality(fetchFaults) < MaxFetchFaults
    /\ fetchFaults' = fetchFaults \cup {kind}

FetchInit ==
    /\ source = 1
    /\ entry = [q \in Request |-> 0]
    /\ damaged = {}
    /\ lease = [q \in Request |-> NoReader]
    /\ \E asked \in [Reader -> Request] :
           reader = [r \in Reader |->
               [phase |-> "idle", request |-> asked[r], value |-> 0, attempts |-> 0, lost |-> FALSE]]
    /\ fetchFaults = {}

Move(r, phase) == reader' = [reader EXCEPT ![r].phase = phase]
Got(r, phase, value) == reader' = [reader EXCEPT ![r].phase = phase, ![r].value = value]

\* A look into the cache: an entry that cannot be decoded is deleted and the
\* call fails, a value is returned, a miss goes on.
Look(r, hit, miss, failed) ==
    LET q == reader[r].request
    IN  IF q \in damaged
        THEN /\ entry' = [entry EXCEPT ![q] = 0]
             /\ damaged' = damaged \ {q}
             /\ Move(r, failed)
        ELSE /\ IF entry[q] # 0 THEN Got(r, hit, entry[q]) ELSE Move(r, miss)
             /\ UNCHANGED <<entry, damaged>>

-----------------------------------------------------------------------------

ReadCache(r) ==
    /\ reader[r].phase = "idle"
    /\ Look(r, "ended", "missed", "ended")
    /\ UNCHANGED <<source, lease, fetchFaults>>

\* SET NX: the lease of a request has one owner.
TryLock(r) ==
    LET q == reader[r].request
    IN  /\ reader[r].phase = "missed"
        /\ IF lease[q] = NoReader
           THEN lease' = [lease EXCEPT ![q] = r] /\ Move(r, "owner")
           ELSE UNCHANGED lease /\ Move(r, "waiting")
        /\ UNCHANGED <<source, entry, damaged, fetchFaults>>

\* A waiter polls the cache.  It never takes the lease over.
Poll(r) ==
    /\ reader[r].phase = "waiting"
    /\ Look(r, "ended", "waiting", "ended")
    /\ UNCHANGED <<source, lease, fetchFaults>>

\* Mutant: a waiter waits as long as it takes.
MutGiveUp(r) == FALSE /\ UNCHANGED fetchVars

\* lock_wait_seconds have passed and the last poll was a miss.
GiveUp(r) ==
    /\ reader[r].phase = "waiting"
    /\ entry[reader[r].request] = 0
    /\ Move(r, "ended")
    /\ UNCHANGED <<source, entry, damaged, lease, fetchFaults>>

\* Mutant: the owner does not look again.
MutRecheck(r) ==
    /\ reader[r].phase = "owner"
    /\ Move(r, "queued")
    /\ UNCHANGED <<source, entry, damaged, lease, fetchFaults>>

\* Between the miss and the lease another owner may have filled the entry.
Recheck(r) ==
    /\ reader[r].phase = "owner"
    /\ Look(r, "releasing", "queued", "releasing")
    /\ UNCHANGED <<source, lease, fetchFaults>>

\* The semaphore of the source, held over all attempts.
TakePermit(r) ==
    /\ reader[r].phase = "queued"
    /\ r \in Remote \/ Cardinality({s \in Reader \ Remote : reader[s].phase = "calling"}) < Permits
    /\ Move(r, "calling")
    /\ UNCHANGED <<source, entry, damaged, lease, fetchFaults>>

\* Transport errors, timeouts and 5xx are retried, others and the last one end
\* the call.
CallSource(r) ==
    /\ reader[r].phase = "calling"
    /\ \/ Got(r, "fetched", source) /\ UNCHANGED fetchFaults
       \/ /\ FetchFault("source")
          /\ IF reader[r].attempts + 1 < MaxAttempts
             THEN reader' = [reader EXCEPT ![r].attempts = @ + 1]
             ELSE Move(r, "releasing")
       \/ FetchFault("source") /\ Move(r, "releasing")
    /\ UNCHANGED <<source, entry, damaged, lease>>

CheckLease(r) ==
    /\ reader[r].phase = "fetched"
    /\ Move(r, IF reader[r].lost THEN "releasing" ELSE "storing")
    /\ UNCHANGED <<source, entry, damaged, lease, fetchFaults>>

Store(r) ==
    LET q == reader[r].request
    IN  /\ reader[r].phase = "storing"
        /\ Move(r, "releasing")
        /\ \/ /\ entry' = [entry EXCEPT ![q] = reader[r].value]
              /\ damaged' = damaged \ {q}
              /\ UNCHANGED fetchFaults
           \/ FetchFault("cache") /\ UNCHANGED <<entry, damaged>>
        /\ UNCHANGED <<source, lease>>

\* The release script deletes the key only if it still carries the owner.
Release(r) ==
    LET q == reader[r].request
    IN  /\ reader[r].phase = "releasing"
        /\ lease' = IF lease[q] = r THEN [lease EXCEPT ![q] = NoReader] ELSE lease
        /\ Move(r, "ended")
        /\ UNCHANGED <<source, entry, damaged, fetchFaults>>

-----------------------------------------------------------------------------
(* The heartbeat and the environment.                                      *)

\* A refresh finds another owner, or none, or does not reach the cache.
NoticeLoss(r) ==
    /\ reader[r].phase \in Owning \ {"releasing"} /\ ~reader[r].lost
    /\ \/ lease[reader[r].request] # r /\ UNCHANGED fetchFaults
       \/ FetchFault("cache")
    /\ reader' = [reader EXCEPT ![r].lost = TRUE]
    /\ UNCHANGED <<source, entry, damaged, lease>>

\* Mutant: the lease is not refreshed.
MutExpirable(q) == lease[q] # NoReader /\ UNCHANGED fetchFaults

\* The lease of a dead reader or of one that has heard of its loss runs out,
\* that of a live one only if its heartbeat stalls.
Expirable(q) ==
    /\ lease[q] # NoReader
    /\ IF reader[lease[q]].phase = "dead" \/ reader[lease[q]].lost
       THEN UNCHANGED fetchFaults ELSE FetchFault("stall")

LeaseExpires(q) ==
    /\ Expirable(q)
    /\ lease' = [lease EXCEPT ![q] = NoReader]
    /\ UNCHANGED <<source, entry, damaged, reader>>

EntryExpires(q) ==
    /\ entry[q] # 0
    /\ entry' = [entry EXCEPT ![q] = 0]
    /\ damaged' = damaged \ {q}
    /\ UNCHANGED <<source, lease, reader, fetchFaults>>

Damage(q) ==
    /\ entry[q] # 0 /\ q \notin damaged
    /\ FetchFault("corrupt")
    /\ damaged' = damaged \cup {q}
    /\ UNCHANGED <<source, entry, lease, reader>>

Die(r) ==
    /\ reader[r].phase \in Owning \cup {"waiting"}
    /\ FetchFault("crash")
    /\ Move(r, "dead")
    /\ UNCHANGED <<source, entry, damaged, lease>>

SourceChanges ==
    /\ source < MaxSource
    /\ source' = source + 1
    /\ UNCHANGED <<entry, damaged, lease, reader, fetchFaults>>

FetchStep(r) ==
    \/ ReadCache(r) \/ TryLock(r) \/ Poll(r) \/ GiveUp(r) \/ Recheck(r) \/ TakePermit(r)
    \/ CallSource(r) \/ CheckLease(r) \/ Store(r) \/ Release(r)

FetchNext ==
    \/ \E r \in Reader : FetchStep(r) \/ NoticeLoss(r) \/ Die(r)
    \/ \E q \in Request : LeaseExpires(q) \/ EntryExpires(q) \/ Damage(q)
    \/ SourceChanges

\* Threads run, and a waiter's deadline passes.
FetchSpec == FetchInit /\ [][FetchNext]_fetchVars /\ \A r \in Reader : WF_fetchVars(FetchStep(r))

-----------------------------------------------------------------------------
(* What the coordinator guarantees.                                        *)

FetchTypeOK ==
    /\ source \in 1 .. MaxSource
    /\ entry \in [Request -> 0 .. MaxSource]
    /\ damaged \subseteq {q \in Request : entry[q] # 0}
    /\ lease \in [Request -> Reader \cup {NoReader}]
    /\ reader \in [Reader -> ReaderState]
    /\ fetchFaults \subseteq FetchFaultKinds

\* Readers that fetch, or have fetched and not stored, for the same request.
Flights(q) ==
    {r \in Reader : reader[r].request = q /\ reader[r].phase \in {"queued", "calling", "fetched", "storing"}}

\* One reader fetches what many miss.  A stalled heartbeat, or one that could
\* not reach the cache, admits one more.
FlightsBounded ==
    \A q \in Request : Cardinality(Flights(q)) <= 1 + Cardinality(fetchFaults \cap {"stall", "cache"})

\* A cached answer is not replaced before it expires, except by a reader that
\* lost its lease and had not noticed when it looked.
NoOverwrite ==
    [][\A q \in Request : entry[q] # 0 /\ entry'[q] # 0 => \/ entry'[q] = entry[q]
                                                           \/ fetchFaults \cap {"stall", "cache"} # {}]_fetchVars

\* What the coordinator promises to readers that share a cache.
FetchSound == [](FetchTypeOK /\ FlightsBounded) /\ NoOverwrite

\* A call, and its end: an answer or an error, though the owner of its flight
\* may have died or failed and nobody takes over.
FetchDue(r) == reader[r].phase # "idle"
FetchOver(r) == reader[r].phase \in {"ended", "dead"}
=============================================================================
