--------------------------- MODULE TlsStatusProofs ---------------------------
(***************************************************************************)
(* Proofs about the TLS statuses, for any domains and routes and any       *)
(* number of refreshes.                                                    *)
(***************************************************************************)
EXTENDS TLAPS, TlsStatus

TlsRows == [state : {"none", "here", "gone"}, status : TlsStatuses,
            fresh : BOOLEAN, by : 0 .. TlsProbes]
TlsJobs == [step : {"idle", "probing", "read", "write", "reload", "rejected"},
            found : TlsStatuses, seen : TlsStatuses \cup {"gone"}, number : 0 .. TlsProbes]
TlsRouteRows == [here : BOOLEAN, status : {"unchecked", "active", "error"},
                 probes : 0 .. TlsRouteProbes]

TlsTypes ==
  /\ TlsTypeOK
  /\ tlsAsked \in [TlsDomains -> 0 .. TlsProbes]

\* A refresh under way is in the set, is the newest of its domain and knows
\* whether the row is gone: a row that is gone never comes back.
JobSound(d, k) ==
  tlsJob[d][k].step # "idle" =>
    /\ d \in tlsInFlight
    /\ tlsJob[d][k].number = tlsAsked[d]
    /\ tlsRow[d].state # "none"
    /\ tlsJob[d][k].step \in {"write", "reload"} /\ tlsJob[d][k].seen = "gone"
         => tlsRow[d].state = "gone"

\* One refresh at a time, in the set exactly while it runs; none of a loopback
\* domain; the row is written by refreshes that were started.
DomainSound(d) ==
  /\ tlsRow[d].by <= tlsAsked[d]
  /\ d \in TlsLoopback => tlsRow[d].by = 0 /\ d \notin tlsInFlight
  /\ d \in tlsInFlight => \E k \in {1, 2} : tlsJob[d][k].step # "idle"
  /\ tlsJob[d][1].step = "idle" \/ tlsJob[d][2].step = "idle"
  /\ \A k \in {1, 2} : JobSound(d, k)

DomainsSound == \A d \in TlsDomains : DomainSound(d)

\* An HTTP-only route is never probed.
RoutesSound ==
  \A r \in TlsHttpOnly : tlsRoute[r].status = "unchecked" /\ tlsRoute[r].probes = 0

TlsInv == TlsTypes /\ DomainsSound /\ RoutesSound /\ FallbackFollowsStatus

-----------------------------------------------------------------------------

LEMMA TlsInvInit == TlsInit => TlsInv
<1> SUFFICES ASSUME TlsInit PROVE TlsInv
  OBVIOUS
<1>1. TlsTypes
  <2>1. TlsProbes \in Nat /\ TlsRouteProbes \in Nat
    BY TlsAssumption
  <2>2. tlsRow \in [TlsDomains -> TlsRows]
    BY <2>1 DEF TlsInit, TlsRows, TlsStatuses
  <2>3. tlsJob \in [TlsDomains -> [{1, 2} -> TlsJobs]]
    BY <2>1 DEF TlsInit, TlsIdle, TlsJobs, TlsStatuses
  <2>4. tlsRoute \in [TlsRoutes -> TlsRouteRows]
    BY <2>1 DEF TlsInit, TlsRouteRows
  <2> QED
    BY <2>1, <2>2, <2>3, <2>4 DEF TlsInit, TlsTypes, TlsTypeOK, TlsRows, TlsJobs, TlsRouteRows
<1>2. DomainsSound
  BY TlsAssumption DEF TlsInit, TlsIdle, DomainsSound, DomainSound, JobSound
<1>3. RoutesSound
  BY TlsAssumption DEF TlsInit, RoutesSound
<1>4. FallbackFollowsStatus
  BY DEF TlsInit, FallbackFollowsStatus, TlsFallback
<1> QED
  BY <1>1, <1>2, <1>3, <1>4 DEF TlsInv

-----------------------------------------------------------------------------
(* Pieces of the steps                                                     *)

\* The types, folded.
LEMMA TypesFolded ==
  TlsTypes <=> /\ tlsRow \in [TlsDomains -> TlsRows]
               /\ tlsJob \in [TlsDomains -> [{1, 2} -> TlsJobs]]
               /\ tlsAsked \in [TlsDomains -> 0 .. TlsProbes]
               /\ tlsInFlight \subseteq TlsDomains /\ tlsServed \subseteq TlsDomains
               /\ tlsSilent \subseteq TlsDomains
               /\ tlsReload \in {"none", "asked", "failed"}
               /\ tlsRoute \in [TlsRoutes -> TlsRouteRows]
BY DEF TlsTypes, TlsTypeOK, TlsRows, TlsJobs, TlsRouteRows

LEMMA TypesAfter ==
    ASSUME tlsRow' \in [TlsDomains -> TlsRows],
           tlsJob' \in [TlsDomains -> [{1, 2} -> TlsJobs]],
           tlsAsked' \in [TlsDomains -> 0 .. TlsProbes],
           tlsInFlight' \subseteq TlsDomains, tlsServed' \subseteq TlsDomains,
           tlsSilent' \subseteq TlsDomains,
           tlsReload' \in {"none", "asked", "failed"},
           tlsRoute' \in [TlsRoutes -> TlsRouteRows]
    PROVE  TlsTypes'
BY DEF TlsTypes, TlsTypeOK, TlsRows, TlsJobs, TlsRouteRows

\* What a step does to the refreshes of other domains: nothing.
LEMMA DomainKept ==
    ASSUME NEW d \in TlsDomains, DomainSound(d),
           tlsRow'[d] = tlsRow[d], tlsJob'[d] = tlsJob[d], tlsAsked'[d] = tlsAsked[d],
           d \in tlsInFlight' <=> d \in tlsInFlight
    PROVE  DomainSound(d)'
BY DEF DomainSound, JobSound

\* A step about one domain.
LEMMA OthersKept ==
    ASSUME DomainsSound, NEW d \in TlsDomains,
           \A e \in TlsDomains \ {d} :
             /\ tlsRow'[e] = tlsRow[e]
             /\ tlsJob'[e] = tlsJob[e],
           tlsAsked' = tlsAsked,
           tlsInFlight' = tlsInFlight \/ tlsInFlight' = tlsInFlight \ {d},
           DomainSound(d)'
    PROVE  DomainsSound'
<1> SUFFICES ASSUME NEW e \in TlsDomains, e # d PROVE DomainSound(e)'
  BY DEF DomainsSound
<1>1. /\ DomainSound(e) /\ tlsRow'[e] = tlsRow[e] /\ tlsJob'[e] = tlsJob[e]
      /\ tlsAsked'[e] = tlsAsked[e] /\ (e \in tlsInFlight' <=> e \in tlsInFlight)
  BY DEF DomainsSound
<1> QED
  BY <1>1, DomainKept

LEMMA JobMoves ==
    ASSUME TlsTypes, NEW d \in TlsDomains, NEW k \in {1, 2}, NEW rec \in TlsJobs,
           TlsJobBecomes(d, k, rec)
    PROVE  /\ tlsJob' \in [TlsDomains -> [{1, 2} -> TlsJobs]]
           /\ tlsJob'[d][k] = rec
           /\ \A l \in {1, 2} \ {k} : tlsJob'[d][l] = tlsJob[d][l]
           /\ \A e \in TlsDomains \ {d} : tlsJob'[e] = tlsJob[e]
BY TypesFolded DEF TlsJobBecomes

LEMMA IdleIsJob == TlsIdle \in TlsJobs
BY TlsAssumption DEF TlsIdle, TlsJobs, TlsStatuses

\* A new record of a row.
LEMMA RowStored ==
    ASSUME TlsTypes, NEW d \in TlsDomains, NEW status \in TlsStatuses,
           NEW number \in 0 .. TlsProbes, TlsStored(d, status, number)
    PROVE  /\ tlsRow' \in [TlsDomains -> TlsRows]
           /\ tlsRow'[d].state = tlsRow[d].state
           /\ tlsRow'[d].status = status
           /\ tlsRow'[d].by = number
           /\ \A e \in TlsDomains \ {d} : tlsRow'[e] = tlsRow[e]
<1>1. tlsRow \in [TlsDomains -> TlsRows] /\ tlsRow[d] \in TlsRows
  BY TypesFolded
<1> DEFINE new == [tlsRow[d] EXCEPT !.status = status, !.fresh = TRUE, !.by = number]
<1>2. new \in TlsRows
  BY <1>1 DEF TlsRows
<1>3. tlsRow' = [tlsRow EXCEPT ![d] = new]
  BY <1>1 DEF TlsStored
<1>4. new.state = tlsRow[d].state /\ new.status = status /\ new.by = number
  BY <1>1 DEF TlsRows
<1> HIDE DEF new
<1> QED
  BY <1>1, <1>2, <1>3, <1>4

\* The end of a refresh.
LEMMA EndIsSound ==
    ASSUME TlsTypes, NEW d \in TlsDomains, NEW k \in {1, 2}, DomainSound(d),
           TlsEnd(d, k), tlsJob[d][k].step # "idle",
           tlsAsked' = tlsAsked, tlsRow'[d].state = tlsRow[d].state,
           tlsRow'[d].by = tlsRow[d].by \/ tlsRow'[d].by = tlsAsked[d]
    PROVE  DomainSound(d)'
<1>1. /\ tlsJob'[d][k] = TlsIdle
      /\ \A l \in {1, 2} \ {k} : tlsJob'[d][l] = tlsJob[d][l]
  BY IdleIsJob, JobMoves DEF TlsEnd
<1>2. tlsInFlight' = tlsInFlight \ {d}
  BY DEF TlsEnd
<1>3. d \in tlsInFlight
  BY DEF DomainSound, JobSound
<1>4. tlsJob'[d][1].step = "idle" /\ tlsJob'[d][2].step = "idle"
  BY <1>1 DEF DomainSound, TlsIdle
<1>5. tlsAsked[d] \in Nat /\ tlsRow[d].by <= tlsAsked[d]
  BY TypesFolded, TlsAssumption DEF DomainSound
<1>6. tlsRow'[d].by <= tlsAsked'[d]
  BY <1>5
<1>7. d \notin TlsLoopback
  BY <1>3 DEF DomainSound
<1> QED
  BY <1>2, <1>4, <1>6, <1>7 DEF DomainSound, JobSound

\* A refresh goes on: its record changes, its number does not.
LEMMA MoveIsSound ==
    ASSUME TlsTypes, NEW d \in TlsDomains, NEW k \in {1, 2}, DomainSound(d),
           NEW rec \in TlsJobs, TlsJobBecomes(d, k, rec),
           tlsJob[d][k].step # "idle", rec.step # "idle",
           rec.number = tlsJob[d][k].number,
           rec.step \in {"write", "reload"} /\ rec.seen = "gone" => tlsRow[d].state = "gone",
           UNCHANGED <<tlsInFlight, tlsAsked>>, tlsRow'[d].state = tlsRow[d].state,
           tlsRow'[d].by = tlsRow[d].by \/ tlsRow'[d].by = tlsAsked[d]
    PROVE  DomainSound(d)'
<1>1. /\ tlsJob'[d][k] = rec
      /\ \A l \in {1, 2} \ {k} : tlsJob'[d][l] = tlsJob[d][l]
  BY JobMoves
<1>2. d \in tlsInFlight /\ d \notin TlsLoopback /\ rec.number = tlsAsked[d]
      /\ tlsRow[d].state # "none"
  BY DEF DomainSound, JobSound
<1>3. \A l \in {1, 2} \ {k} : tlsJob'[d][l].step = "idle"
  BY <1>1 DEF DomainSound
<1>4. \A l \in {1, 2} : JobSound(d, l)'
  BY <1>1, <1>2, <1>3 DEF JobSound
<1>5. tlsAsked[d] \in Nat /\ tlsRow[d].by <= tlsAsked[d]
  BY TypesFolded, TlsAssumption DEF DomainSound
<1>6. tlsRow'[d].by <= tlsAsked'[d]
  BY <1>5
<1> QED
  BY <1>1, <1>2, <1>3, <1>4, <1>6 DEF DomainSound

-----------------------------------------------------------------------------
(* The steps of a refresh                                                  *)

LEMMA Probed_Step ==
    ASSUME TlsInv, NEW d \in TlsDomains, NEW k \in {1, 2}, TlsProbed(d, k)
    PROVE  TlsInv'
<1>1. TlsTypes /\ DomainSound(d) /\ tlsJob[d][k] \in TlsJobs
  BY TypesFolded DEF TlsInv, DomainsSound
<1>2. PICK rec \in TlsJobs :
        /\ TlsJobBecomes(d, k, rec)
        /\ rec.step \in {"read", "rejected"}
        /\ rec.number = tlsJob[d][k].number
  <2>1. \A f \in TlsFound :
          LET rec == [tlsJob[d][k] EXCEPT !.step = "read", !.found = f]
          IN rec \in TlsJobs /\ rec.step = "read" /\ rec.number = tlsJob[d][k].number
    BY <1>1 DEF TlsJobs, TlsFound, TlsStatuses
  <2>2. LET rec == [tlsJob[d][k] EXCEPT !.step = "rejected"]
        IN rec \in TlsJobs /\ rec.step = "rejected" /\ rec.number = tlsJob[d][k].number
    BY <1>1 DEF TlsJobs
  <2>3. CASE \E f \in TlsFound :
               TlsJobBecomes(d, k, [tlsJob[d][k] EXCEPT !.step = "read", !.found = f])
    BY <2>1, <2>3
  <2>4. CASE TlsJobBecomes(d, k, [tlsJob[d][k] EXCEPT !.step = "rejected"])
    BY <2>2, <2>4
  <2> QED
    BY <2>3, <2>4 DEF TlsProbed
<1>3. /\ tlsJob[d][k].step # "idle"
      /\ UNCHANGED <<tlsRow, tlsInFlight, tlsAsked, tlsReload, tlsServed, tlsSilent, tlsRoute>>
  BY DEF TlsProbed, TlsJobStep
<1>4. DomainSound(d)'
  BY <1>1, <1>2, <1>3, MoveIsSound
<1>5. DomainsSound'
  BY <1>1, <1>2, <1>3, <1>4, JobMoves, OthersKept DEF TlsInv
<1>6. TlsTypes'
  BY <1>1, <1>2, <1>3, JobMoves, TypesFolded, TypesAfter
<1> QED
  BY <1>3, <1>4, <1>5, <1>6
     DEF TlsInv, DomainsSound, RoutesSound, FallbackFollowsStatus, TlsFallback

LEMMA Read_Step ==
    ASSUME TlsInv, NEW d \in TlsDomains, NEW k \in {1, 2}, TlsRead(d, k)
    PROVE  TlsInv'
<1> DEFINE seen == IF tlsRow[d].state = "here" THEN tlsRow[d].status ELSE "gone"
           rec == [tlsJob[d][k] EXCEPT !.step = "write", !.seen = seen]
<1>1. /\ TlsTypes /\ DomainSound(d) /\ tlsJob[d][k] \in TlsJobs /\ tlsRow[d] \in TlsRows
  BY TypesFolded DEF TlsInv, DomainsSound
<1>2. /\ tlsJob[d][k].step # "idle"
      /\ UNCHANGED <<tlsRow, tlsInFlight, tlsAsked, tlsReload, tlsServed, tlsSilent, tlsRoute>>
      /\ TlsJobBecomes(d, k, rec)
  BY DEF TlsRead, TlsJobStep
<1>3. seen \in TlsStatuses \cup {"gone"}
  BY <1>1 DEF TlsRows
<1>4. seen = "gone" => tlsRow[d].state = "gone"
  <2>1. tlsRow[d].state # "none"
    BY <1>1, <1>2 DEF DomainSound, JobSound
  <2> QED
    BY <1>1, <2>1 DEF TlsRows, TlsStatuses
<1>5. rec \in TlsJobs /\ rec.step = "write" /\ rec.seen = seen
      /\ rec.number = tlsJob[d][k].number
  <2> HIDE DEF seen
  <2> QED
    BY <1>1, <1>3 DEF TlsJobs
<1> HIDE DEF seen, rec
<1>6. DomainSound(d)'
  BY <1>1, <1>2, <1>4, <1>5, MoveIsSound
<1>7. DomainsSound'
  BY <1>1, <1>2, <1>5, <1>6, JobMoves, OthersKept DEF TlsInv
<1>8. TlsTypes'
  BY <1>1, <1>2, <1>5, JobMoves, TypesFolded, TypesAfter
<1> QED
  BY <1>2, <1>6, <1>7, <1>8
     DEF TlsInv, DomainsSound, RoutesSound, FallbackFollowsStatus, TlsFallback

\* The status that is stored leaves Caddy's fallback right, or a reload is asked for.
LEMMA Write_Step ==
    ASSUME TlsInv, NEW d \in TlsDomains, NEW k \in {1, 2}, TlsWrite(d, k)
    PROVE  TlsInv'
<1> DEFINE job == tlsJob[d][k]
           rec == [job EXCEPT !.step = "reload"]
<1>1. TlsTypes /\ DomainSound(d) /\ tlsJob[d][k] \in TlsJobs /\ tlsRow[d] \in TlsRows
  BY TypesFolded DEF TlsInv, DomainsSound
<1>2. /\ job.step = "write" /\ UNCHANGED <<tlsAsked, tlsServed, tlsRoute>>
      /\ job.number = tlsAsked[d] /\ job.number \in 0 .. TlsProbes /\ job.found \in TlsStatuses
      /\ job.seen = "gone" => tlsRow[d].state = "gone"
  BY <1>1 DEF TlsWrite, TlsJobStep, DomainSound, JobSound, TlsJobs
<1>3. rec \in TlsJobs /\ rec.step = "reload" /\ rec.number = job.number /\ rec.seen = job.seen
  BY <1>1 DEF TlsJobs
<1>4. CASE tlsRow[d].state # "here"
  <2>1. TlsEnd(d, k) /\ UNCHANGED <<tlsRow, tlsReload, tlsSilent>>
    BY <1>4 DEF TlsWrite
  <2> HIDE DEF job, rec
  <2>2. DomainSound(d)'
    BY <1>1, <1>2, <2>1, EndIsSound DEF job
  <2>3. DomainsSound'
    BY <1>1, <1>2, <2>1, <2>2, IdleIsJob, JobMoves, OthersKept DEF TlsInv, TlsEnd
  <2>4. TlsTypes'
    BY <1>1, <1>2, <2>1, IdleIsJob, JobMoves, TypesFolded, TypesAfter DEF TlsEnd
  <2> QED
    BY <1>2, <2>1, <2>2, <2>3, <2>4
       DEF TlsInv, DomainsSound, RoutesSound, FallbackFollowsStatus, TlsFallback
<1>5. CASE tlsRow[d].state = "here"
  <2>1. /\ TlsStored(d, job.found, job.number)
        /\ tlsSilent' = IF tlsRow[d].status = job.seen THEN tlsSilent ELSE tlsSilent \cup {d}
        /\ IF TlsChanged(job)
           THEN /\ tlsReload' = "asked"
                /\ TlsJobBecomes(d, k, rec)
                /\ UNCHANGED tlsInFlight
           ELSE TlsEnd(d, k) /\ UNCHANGED tlsReload
    BY <1>5 DEF TlsWrite
  <2>2. /\ tlsRow' \in [TlsDomains -> TlsRows]
        /\ tlsRow'[d].state = tlsRow[d].state
        /\ tlsRow'[d].status = job.found
        /\ tlsRow'[d].by = job.number
        /\ \A e \in TlsDomains \ {d} : tlsRow'[e] = tlsRow[e]
    BY <1>1, <1>2, <2>1, RowStored
  <2> HIDE DEF job, rec
  <2>3. DomainSound(d)'
    <3>1. CASE TlsChanged(job)
      BY <1>1, <1>2, <1>3, <2>1, <2>2, <3>1, MoveIsSound DEF job
    <3>2. CASE ~TlsChanged(job)
      BY <1>1, <1>2, <2>1, <2>2, <3>2, EndIsSound DEF job
    <3> QED
      BY <3>1, <3>2
  <2>4. /\ tlsJob' \in [TlsDomains -> [{1, 2} -> TlsJobs]]
        /\ \A e \in TlsDomains \ {d} : tlsJob'[e] = tlsJob[e]
        /\ tlsInFlight' \in {tlsInFlight, tlsInFlight \ {d}}
        /\ tlsReload' \in {"asked", tlsReload}
    <3>1. CASE TlsChanged(job)
      BY <1>1, <1>3, <2>1, <3>1, JobMoves
    <3>2. CASE ~TlsChanged(job)
      BY <1>1, <2>1, <3>2, IdleIsJob, JobMoves DEF TlsEnd
    <3> QED
      BY <3>1, <3>2
  <2>5. DomainsSound'
    BY <1>2, <2>2, <2>3, <2>4, OthersKept DEF TlsInv
  <2>6. TlsTypes'
    BY <1>1, <1>2, <2>1, <2>2, <2>4, TypesFolded, TypesAfter
  <2>7. FallbackFollowsStatus'
    <3>1. CASE TlsChanged(job)
      BY <2>1, <3>1 DEF FallbackFollowsStatus
    <3>2. CASE ~TlsChanged(job) /\ tlsRow[d].status = job.seen
      <4>1. job.found = tlsRow[d].status
        BY <1>2, <1>5, <3>2 DEF TlsChanged
      <4>2. TlsFallback' = TlsFallback
        BY <2>2, <4>1 DEF TlsFallback
      <4> QED
        BY <1>2, <2>1, <3>2, <4>2 DEF TlsInv, FallbackFollowsStatus
    <3>3. CASE ~TlsChanged(job) /\ tlsRow[d].status # job.seen
      <4>1. TlsFallback' \ {d} = TlsFallback \ {d}
        BY <2>2 DEF TlsFallback
      <4> QED
        BY <1>2, <2>1, <3>3, <4>1 DEF TlsInv, FallbackFollowsStatus
    <3> QED
      BY <3>1, <3>2, <3>3
  <2> QED
    BY <1>2, <2>3, <2>5, <2>6, <2>7 DEF TlsInv, DomainsSound, RoutesSound
<1> QED
  BY <1>4, <1>5

LEMMA Reloaded_Step ==
    ASSUME TlsInv, NEW d \in TlsDomains, NEW k \in {1, 2}, TlsReloaded(d, k)
    PROVE  TlsInv'
<1>1. TlsTypes /\ DomainSound(d)
  BY DEF TlsInv, DomainsSound
<1>2. /\ tlsJob[d][k].step # "idle" /\ TlsEnd(d, k)
      /\ UNCHANGED <<tlsRow, tlsAsked, tlsReload, tlsServed, tlsSilent, tlsRoute>>
  BY DEF TlsReloaded, TlsJobStep
<1>3. DomainSound(d)'
  BY <1>1, <1>2, EndIsSound
<1>4. DomainsSound'
  BY <1>1, <1>2, <1>3, IdleIsJob, JobMoves, OthersKept DEF TlsInv, TlsEnd
<1>5. TlsTypes'
  BY <1>1, <1>2, IdleIsJob, JobMoves, TypesFolded, TypesAfter DEF TlsEnd
<1> QED
  BY <1>2, <1>3, <1>4, <1>5
     DEF TlsInv, DomainsSound, RoutesSound, FallbackFollowsStatus, TlsFallback

LEMMA Rejected_Step ==
    ASSUME TlsInv, NEW d \in TlsDomains, NEW k \in {1, 2}, TlsRejected(d, k)
    PROVE  TlsInv'
<1>1. TlsTypes /\ DomainSound(d) /\ tlsJob[d][k] \in TlsJobs
  BY TypesFolded DEF TlsInv, DomainsSound
<1>2. /\ tlsJob[d][k].step # "idle" /\ TlsEnd(d, k)
      /\ UNCHANGED <<tlsAsked, tlsReload, tlsServed, tlsRoute>>
      /\ tlsJob[d][k].number = tlsAsked[d] /\ tlsJob[d][k].number \in 0 .. TlsProbes
  BY <1>1 DEF TlsRejected, TlsJobStep, DomainSound, JobSound, TlsJobs
<1>3. /\ tlsRow' \in [TlsDomains -> TlsRows]
      /\ tlsRow'[d].state = tlsRow[d].state
      /\ tlsRow'[d].by = tlsRow[d].by \/ tlsRow'[d].by = tlsAsked[d]
      /\ \A e \in TlsDomains \ {d} : tlsRow'[e] = tlsRow[e]
      /\ \/ tlsRow' = tlsRow /\ tlsSilent' = tlsSilent
         \/ tlsSilent' = tlsSilent \cup {d}
  <2>1. CASE tlsRow[d].state # "here"
    BY <1>1, <2>1, TypesFolded DEF TlsRejected
  <2>2. CASE tlsRow[d].state = "here"
    <3>1. TlsStored(d, "error", tlsJob[d][k].number) /\ tlsSilent' = tlsSilent \cup {d}
      BY <2>2 DEF TlsRejected
    <3>2. "error" \in TlsStatuses
      BY DEF TlsStatuses
    <3> QED
      BY <1>1, <1>2, <3>1, <3>2, RowStored
  <2> QED
    BY <2>1, <2>2
<1>4. DomainSound(d)'
  BY <1>1, <1>2, <1>3, EndIsSound
<1>5. DomainsSound'
  BY <1>1, <1>2, <1>3, <1>4, IdleIsJob, JobMoves, OthersKept DEF TlsInv, TlsEnd
<1>6. TlsTypes'
  BY <1>1, <1>2, <1>3, IdleIsJob, JobMoves, TypesFolded, TypesAfter DEF TlsEnd
<1>7. FallbackFollowsStatus'
  <2>1. TlsFallback' \ {d} = TlsFallback \ {d}
    BY <1>3 DEF TlsFallback
  <2>2. tlsRow' = tlsRow => TlsFallback' = TlsFallback
    BY DEF TlsFallback
  <2> QED
    BY <1>2, <1>3, <2>1, <2>2 DEF TlsInv, FallbackFollowsStatus
<1> QED
  BY <1>2, <1>4, <1>5, <1>6, <1>7 DEF TlsInv, DomainsSound, RoutesSound

-----------------------------------------------------------------------------
(* The starts                                                              *)

\* A refresh is started only of a domain that has none, and gets the next number.
LEMMA StartIsSound ==
    ASSUME TlsInv, NEW S \in SUBSET TlsDomains, TlsStart(S), UNCHANGED tlsRow
    PROVE  /\ tlsJob' \in [TlsDomains -> [{1, 2} -> TlsJobs]]
           /\ tlsAsked' \in [TlsDomains -> 0 .. TlsProbes]
           /\ tlsInFlight' \subseteq TlsDomains
           /\ DomainsSound'
<1> DEFINE idle(d) == {k \in {1, 2} : tlsJob[d][k].step = "idle"}
           started == {d \in S : /\ tlsRow[d].state = "here" /\ ~tlsRow[d].fresh
                                 /\ TlsMayStart(d)
                                 /\ idle(d) # {} /\ tlsAsked[d] < TlsProbes}
           slot(d) == CHOOSE k \in idle(d) : TRUE
           rec(d) == [TlsIdle EXCEPT !.step = "probing", !.number = tlsAsked[d] + 1]
<1>1. /\ tlsInFlight' = tlsInFlight \cup started
      /\ tlsAsked' = [d \in TlsDomains |-> IF d \in started THEN tlsAsked[d] + 1
                                           ELSE tlsAsked[d]]
      /\ tlsJob' = [d \in TlsDomains |->
                      IF d \notin started THEN tlsJob[d]
                      ELSE [tlsJob[d] EXCEPT ![slot(d)] = rec(d)]]
  BY DEF TlsStart
<1>2. /\ TlsProbes \in Nat /\ started \subseteq TlsDomains
      /\ tlsAsked \in [TlsDomains -> 0 .. TlsProbes]
      /\ tlsJob \in [TlsDomains -> [{1, 2} -> TlsJobs]]
      /\ tlsRow \in [TlsDomains -> TlsRows]
      /\ tlsInFlight \subseteq TlsDomains
  BY TlsAssumption, TypesFolded DEF TlsInv
<1>3. \A d \in started : /\ slot(d) \in {1, 2}
                         /\ tlsAsked[d] \in Nat /\ tlsAsked[d] < TlsProbes
                         /\ tlsRow[d].state = "here"
                         /\ d \notin TlsLoopback /\ d \notin tlsInFlight
  BY <1>2 DEF TlsMayStart
<1>4. \A d \in started : /\ rec(d) \in TlsJobs
                         /\ rec(d).step = "probing" /\ rec(d).number = tlsAsked[d] + 1
  <2> HIDE DEF started
  <2> SUFFICES ASSUME NEW d \in started
               PROVE  /\ rec(d) \in TlsJobs
                      /\ rec(d).step = "probing" /\ rec(d).number = tlsAsked[d] + 1
    OBVIOUS
  <2>1. tlsAsked[d] + 1 \in 0 .. TlsProbes
    BY <1>2, <1>3
  <2> QED
    BY <2>1, IdleIsJob DEF TlsIdle, TlsJobs
<1> HIDE DEF idle, started, slot, rec
<1>5. /\ tlsInFlight' \subseteq TlsDomains
      /\ tlsAsked' \in [TlsDomains -> 0 .. TlsProbes]
  BY <1>1, <1>2, <1>3
<1>6. tlsJob' \in [TlsDomains -> [{1, 2} -> TlsJobs]]
  <2>1. \A d \in started : [tlsJob[d] EXCEPT ![slot(d)] = rec(d)] \in [{1, 2} -> TlsJobs]
    BY <1>2, <1>4
  <2> QED
    BY <1>1, <1>2, <2>1
<1>7. ASSUME NEW d \in started
      PROVE  DomainSound(d)'
  <2>1. /\ d \in TlsDomains /\ DomainSound(d)
        /\ tlsJob[d][1].step = "idle" /\ tlsJob[d][2].step = "idle"
    BY <1>2, <1>3, <1>7 DEF TlsInv, DomainsSound, DomainSound, JobSound
  <2>2. /\ tlsJob'[d][slot(d)] = rec(d)
        /\ \A k \in {1, 2} \ {slot(d)} : tlsJob'[d][k] = tlsJob[d][k]
    BY <1>1, <1>2, <1>3, <1>7, <2>1
  <2>3. tlsAsked'[d] = tlsAsked[d] + 1 /\ d \in tlsInFlight' /\ tlsRow'[d] = tlsRow[d]
    BY <1>1, <1>7, <2>1
  <2>4. tlsRow[d].by \in Nat /\ tlsRow[d].by <= tlsAsked[d]
    BY <1>2, <2>1 DEF TlsRows, DomainSound
  <2>5. tlsRow'[d].by <= tlsAsked'[d]
    BY <1>3, <1>7, <2>3, <2>4
  <2>6. \A k \in {1, 2} : JobSound(d, k)'
    BY <1>3, <1>4, <1>7, <2>1, <2>2, <2>3 DEF JobSound
  <2>7. tlsJob'[d][1].step = "idle" \/ tlsJob'[d][2].step = "idle"
    BY <1>3, <1>7, <2>1, <2>2
  <2> QED
    BY <1>3, <1>4, <1>7, <2>2, <2>3, <2>5, <2>6, <2>7 DEF DomainSound
<1>8. ASSUME NEW d \in TlsDomains, d \notin started
      PROVE  DomainSound(d)'
  <2>1. /\ DomainSound(d) /\ tlsRow'[d] = tlsRow[d] /\ tlsJob'[d] = tlsJob[d]
        /\ tlsAsked'[d] = tlsAsked[d] /\ (d \in tlsInFlight' <=> d \in tlsInFlight)
    BY <1>1, <1>8 DEF TlsInv, DomainsSound
  <2> QED
    BY <2>1, DomainKept
<1> QED
  BY <1>5, <1>6, <1>7, <1>8 DEF DomainsSound

LEMMA List_Step ==
    ASSUME TlsInv, TlsList
    PROVE  TlsInv'
<1>1. TlsStart(TlsDomains \ TlsLoopback)
      /\ UNCHANGED <<tlsRow, tlsReload, tlsServed, tlsSilent, tlsRoute>>
  BY DEF TlsList
<1>2. TlsDomains \ TlsLoopback \in SUBSET TlsDomains
  OBVIOUS
<1>3. TlsTypes' /\ DomainsSound'
  BY <1>1, <1>2, StartIsSound, TypesFolded, TypesAfter DEF TlsInv
<1> QED
  BY <1>1, <1>3 DEF TlsInv, RoutesSound, FallbackFollowsStatus, TlsFallback

LEMMA GetService_Step ==
    ASSUME TlsInv, NEW R \in SUBSET TlsRoutes, TlsGetService(R)
    PROVE  TlsInv'
<1> DEFINE new == {r \in R : /\ TlsProbeAllowed(r) /\ tlsRoute[r].status = "unchecked"
                             /\ tlsRoute[r].probes < TlsRouteProbes}
<1>1. /\ TlsStart({TlsOwner[r] : r \in R})
      /\ tlsRoute' = [r \in TlsRoutes |->
                        IF r \in new THEN [tlsRoute[r] EXCEPT !.probes = @ + 1] ELSE tlsRoute[r]]
      /\ UNCHANGED <<tlsRow, tlsReload, tlsServed, tlsSilent>>
  BY DEF TlsGetService
<1>2. {TlsOwner[r] : r \in R} \in SUBSET TlsDomains
  BY TlsAssumption
<1>3. tlsRoute \in [TlsRoutes -> TlsRouteRows] /\ TlsRouteProbes \in Nat
  BY TypesFolded, TlsAssumption DEF TlsInv
<1>4. \A r \in new : /\ r \notin TlsHttpOnly
                     /\ tlsRoute[r].probes < TlsRouteProbes /\ r \in TlsRoutes
  BY DEF TlsProbeAllowed
<1> HIDE DEF new
<1>5. \A r \in new : [tlsRoute[r] EXCEPT !.probes = @ + 1] \in TlsRouteRows
  <2> SUFFICES ASSUME NEW r \in new
               PROVE  [tlsRoute[r] EXCEPT !.probes = @ + 1] \in TlsRouteRows
    OBVIOUS
  <2>1. tlsRoute[r] \in TlsRouteRows /\ tlsRoute[r].probes + 1 \in 0 .. TlsRouteProbes
    BY <1>3, <1>4 DEF TlsRouteRows
  <2> QED
    BY <2>1 DEF TlsRouteRows
<1>6. tlsRoute' \in [TlsRoutes -> TlsRouteRows]
  BY <1>1, <1>3, <1>5
<1>7. RoutesSound'
  BY <1>1, <1>4, TlsAssumption DEF TlsInv, RoutesSound
<1>8. TlsTypes' /\ DomainsSound'
  BY <1>1, <1>2, <1>6, StartIsSound, TypesFolded, TypesAfter DEF TlsInv
<1> QED
  BY <1>1, <1>7, <1>8 DEF TlsInv, FallbackFollowsStatus, TlsFallback

\* Changes of the routes alone.
LEMMA RoutesChange ==
    ASSUME TlsInv, tlsRoute' \in [TlsRoutes -> TlsRouteRows], RoutesSound',
           UNCHANGED <<tlsRow, tlsJob, tlsInFlight, tlsAsked, tlsReload, tlsServed, tlsSilent>>
    PROVE  TlsInv'
<1>1. TlsTypes'
  BY TypesFolded, TypesAfter DEF TlsInv
<1>2. DomainsSound'
  BY DEF TlsInv, DomainsSound, DomainSound, JobSound
<1> QED
  BY <1>1, <1>2 DEF TlsInv, FallbackFollowsStatus, TlsFallback

LEMMA RetryRoute_Step ==
    ASSUME TlsInv, NEW r \in TlsRoutes, TlsRetryRoute(r)
    PROVE  TlsInv'
<1>1. tlsRoute \in [TlsRoutes -> TlsRouteRows] /\ TlsRouteProbes \in Nat
  BY TypesFolded, TlsAssumption DEF TlsInv
<1>2. tlsRoute[r] \in TlsRouteRows /\ tlsRoute[r].probes + 1 \in 0 .. TlsRouteProbes
  BY <1>1 DEF TlsRetryRoute, TlsRouteRows
<1> DEFINE new == [tlsRoute[r] EXCEPT !.probes = @ + 1]
<1>3. new \in TlsRouteRows
  BY <1>2 DEF TlsRouteRows
<1>4. tlsRoute' = [tlsRoute EXCEPT ![r] = new] /\ r \notin TlsHttpOnly
  BY DEF TlsRetryRoute, TlsProbeAllowed
<1> HIDE DEF new
<1>5. tlsRoute' \in [TlsRoutes -> TlsRouteRows]
  BY <1>1, <1>3, <1>4
<1>6. RoutesSound'
  BY <1>4, TlsAssumption DEF TlsInv, RoutesSound
<1> QED
  BY <1>5, <1>6, RoutesChange DEF TlsRetryRoute

LEMMA RouteProbed_Step ==
    ASSUME TlsInv, NEW r \in TlsRoutes, TlsRouteProbed(r)
    PROVE  TlsInv'
<1>1. tlsRoute \in [TlsRoutes -> TlsRouteRows] /\ TlsRouteProbes \in Nat
  BY TypesFolded, TlsAssumption DEF TlsInv
<1>2. PICK s \in {"active", "error"} :
        tlsRoute' = [tlsRoute EXCEPT ![r].probes = @ - 1,
                                     ![r].status = IF tlsRoute[r].here THEN s ELSE @]
  BY DEF TlsRouteProbed
<1> DEFINE status == IF tlsRoute[r].here THEN s ELSE tlsRoute[r].status
           new == [tlsRoute[r] EXCEPT !.probes = @ - 1, !.status = status]
<1>3. /\ tlsRoute[r] \in TlsRouteRows /\ tlsRoute[r].probes - 1 \in 0 .. TlsRouteProbes
      /\ status \in {"unchecked", "active", "error"} /\ tlsRoute[r].probes > 0
  BY <1>1 DEF TlsRouteProbed, TlsRouteRows
<1>4. tlsRoute' = [tlsRoute EXCEPT ![r] = new]
  BY <1>1, <1>2, <1>3 DEF TlsRouteRows
<1> HIDE DEF status
<1>5. new \in TlsRouteRows
  BY <1>3 DEF TlsRouteRows
<1> HIDE DEF new
<1>6. tlsRoute' \in [TlsRoutes -> TlsRouteRows]
  BY <1>1, <1>4, <1>5
<1>7. r \notin TlsHttpOnly
  BY <1>3 DEF TlsInv, RoutesSound
<1>8. RoutesSound'
  BY <1>4, <1>7, TlsAssumption DEF TlsInv, RoutesSound
<1> QED
  BY <1>6, <1>8, RoutesChange DEF TlsRouteProbed

-----------------------------------------------------------------------------
(* The handlers                                                            *)

\* The row of one domain changes, and neither who wrote it last nor its
\* refreshes; a row that is not there has none.
LEMMA RowChange ==
    ASSUME TlsInv, NEW d \in TlsDomains, NEW row \in TlsRows,
           tlsRow' = [tlsRow EXCEPT ![d] = row],
           row.by = tlsRow[d].by,
           row.state = "none" => tlsRow[d].state = "none",
           tlsRow[d].state = "gone" => row.state = "gone",
           tlsJob' = tlsJob, tlsInFlight' = tlsInFlight, tlsAsked' = tlsAsked,
           tlsServed' = tlsServed, tlsSilent' \subseteq TlsDomains,
           tlsReload' \in {"none", "asked", "failed"},
           tlsRoute' \in [TlsRoutes -> TlsRouteRows]
    PROVE  TlsTypes' /\ DomainsSound'
<1>1. /\ tlsRow \in [TlsDomains -> TlsRows]
      /\ tlsRow' \in [TlsDomains -> TlsRows] /\ tlsRow'[d] = row
      /\ \A e \in TlsDomains \ {d} : tlsRow'[e] = tlsRow[e]
  BY TypesFolded DEF TlsInv
<1>2. DomainSound(d)'
  <2>1. DomainSound(d)
    BY DEF TlsInv, DomainsSound
  <2>2. \A k \in {1, 2} : JobSound(d, k)'
    BY <1>1, <2>1 DEF DomainSound, JobSound
  <2> QED
    BY <1>1, <2>1, <2>2 DEF DomainSound
<1>3. DomainsSound'
  BY <1>1, <1>2, OthersKept DEF TlsInv
<1>4. TlsTypes'
  BY <1>1, TypesFolded, TypesAfter DEF TlsInv
<1> QED
  BY <1>3, <1>4

LEMMA Create_Step ==
    ASSUME TlsInv, NEW d \in TlsDomains, TlsCreate(d)
    PROVE  TlsInv'
<1> DEFINE status == IF d \in TlsLoopback THEN "active" ELSE "pending"
           row == [tlsRow[d] EXCEPT !.state = "here", !.status = status]
<1>1. tlsRow \in [TlsDomains -> TlsRows] /\ tlsRow[d] \in TlsRows
      /\ tlsSilent \subseteq TlsDomains /\ tlsRoute \in [TlsRoutes -> TlsRouteRows]
  BY TypesFolded DEF TlsInv
<1>2. status \in TlsStatuses
  BY DEF TlsStatuses
<1>3. /\ tlsRow' = [tlsRow EXCEPT ![d] = row] /\ tlsReload' = "asked"
      /\ tlsRow[d].state = "none"
      /\ UNCHANGED <<tlsJob, tlsInFlight, tlsAsked, tlsServed, tlsSilent, tlsRoute>>
  BY <1>1 DEF TlsCreate
<1> HIDE DEF status
<1>4. row \in TlsRows /\ row.by = tlsRow[d].by /\ row.state = "here"
  BY <1>1, <1>2 DEF TlsRows
<1> HIDE DEF row
<1>5. TlsTypes' /\ DomainsSound'
  <2>1. tlsSilent' \subseteq TlsDomains /\ tlsRoute' \in [TlsRoutes -> TlsRouteRows]
    BY <1>1, <1>3
  <2> QED
    BY <1>3, <1>4, <2>1, RowChange
<1> QED
  BY <1>3, <1>5 DEF TlsInv, RoutesSound, FallbackFollowsStatus

LEMMA Delete_Step ==
    ASSUME TlsInv, NEW d \in TlsDomains, TlsDelete(d)
    PROVE  TlsInv'
<1> DEFINE row == [tlsRow[d] EXCEPT !.state = "gone"]
           here(r) == tlsRoute[r].here /\ TlsOwner[r] # d
           route(r) == [tlsRoute[r] EXCEPT !.here = here(r)]
<1>1. tlsRow \in [TlsDomains -> TlsRows] /\ tlsRow[d] \in TlsRows
      /\ tlsSilent \subseteq TlsDomains /\ tlsRoute \in [TlsRoutes -> TlsRouteRows]
  BY TypesFolded DEF TlsInv
<1>2. /\ tlsRow' = [tlsRow EXCEPT ![d] = row] /\ tlsReload' = "asked"
      /\ tlsRow[d].state = "here"
      /\ UNCHANGED <<tlsJob, tlsInFlight, tlsAsked, tlsServed, tlsSilent>>
  BY <1>1 DEF TlsDelete
<1>3. tlsRoute' = [r \in TlsRoutes |-> route(r)]
  BY DEF TlsDelete
<1>4. row \in TlsRows /\ row.by = tlsRow[d].by /\ row.state = "gone"
  BY <1>1 DEF TlsRows
<1>5. \A r \in TlsRoutes : /\ route(r) \in TlsRouteRows
                           /\ route(r).status = tlsRoute[r].status
                           /\ route(r).probes = tlsRoute[r].probes
  <2>1. \A r \in TlsRoutes : here(r) \in BOOLEAN
    OBVIOUS
  <2> HIDE DEF here
  <2> QED
    BY <1>1, <2>1 DEF TlsRouteRows
<1> HIDE DEF row, route
<1>6. tlsRoute' \in [TlsRoutes -> TlsRouteRows] /\ RoutesSound'
  BY <1>3, <1>5, TlsAssumption DEF TlsInv, RoutesSound
<1>7. TlsTypes' /\ DomainsSound'
  BY <1>1, <1>2, <1>4, <1>6, RowChange
<1> QED
  BY <1>2, <1>6, <1>7 DEF TlsInv, FallbackFollowsStatus

LEMMA AdminUpdate_Step ==
    ASSUME TlsInv, NEW d \in TlsDomains, TlsAdminUpdate(d)
    PROVE  TlsInv'
<1>1. tlsRow \in [TlsDomains -> TlsRows] /\ tlsRow[d] \in TlsRows
      /\ tlsSilent \subseteq TlsDomains /\ tlsRoute \in [TlsRoutes -> TlsRouteRows]
      /\ tlsReload \in {"none", "asked", "failed"}
  BY TypesFolded DEF TlsInv
<1>2. PICK s \in TlsStatuses : /\ tlsRow' = [tlsRow EXCEPT ![d].status = s]
                               /\ tlsSilent' = tlsSilent \cup {d}
  BY DEF TlsAdminUpdate
<1> DEFINE row == [tlsRow[d] EXCEPT !.status = s]
<1>3. row \in TlsRows /\ row.by = tlsRow[d].by /\ row.state = tlsRow[d].state
  BY <1>1 DEF TlsRows
<1>4. /\ tlsRow' = [tlsRow EXCEPT ![d] = row]
      /\ UNCHANGED <<tlsJob, tlsInFlight, tlsAsked, tlsReload, tlsServed, tlsRoute>>
  BY <1>1, <1>2 DEF TlsAdminUpdate
<1> HIDE DEF row
<1>5. TlsTypes' /\ DomainsSound'
  <2>1. /\ tlsSilent' \subseteq TlsDomains /\ tlsRoute' \in [TlsRoutes -> TlsRouteRows]
        /\ tlsReload' \in {"none", "asked", "failed"}
    BY <1>1, <1>2, <1>4
  <2> QED
    BY <1>3, <1>4, <2>1, RowChange
<1>6. TlsFallback' \ {d} = TlsFallback \ {d}
  BY <1>1, <1>4 DEF TlsFallback
<1>7. FallbackFollowsStatus'
  BY <1>2, <1>4, <1>6 DEF TlsInv, FallbackFollowsStatus
<1> QED
  BY <1>4, <1>5, <1>7 DEF TlsInv, RoutesSound

LEMMA Expire_Step ==
    ASSUME TlsInv, NEW d \in TlsDomains, TlsExpire(d)
    PROVE  TlsInv'
<1>1. tlsRow \in [TlsDomains -> TlsRows] /\ tlsRow[d] \in TlsRows
      /\ tlsSilent \subseteq TlsDomains /\ tlsRoute \in [TlsRoutes -> TlsRouteRows]
      /\ tlsReload \in {"none", "asked", "failed"}
  BY TypesFolded DEF TlsInv
<1> DEFINE row == [tlsRow[d] EXCEPT !.fresh = FALSE]
<1>2. row \in TlsRows /\ row.by = tlsRow[d].by /\ row.state = tlsRow[d].state
      /\ row.status = tlsRow[d].status
  BY <1>1 DEF TlsRows
<1>3. /\ tlsRow' = [tlsRow EXCEPT ![d] = row]
      /\ UNCHANGED <<tlsJob, tlsInFlight, tlsAsked, tlsReload, tlsServed, tlsSilent, tlsRoute>>
  BY <1>1 DEF TlsExpire
<1> HIDE DEF row
<1>4. TlsTypes' /\ DomainsSound'
  <2>1. /\ tlsSilent' \subseteq TlsDomains /\ tlsRoute' \in [TlsRoutes -> TlsRouteRows]
        /\ tlsReload' \in {"none", "asked", "failed"}
    BY <1>1, <1>3
  <2> QED
    BY <1>2, <1>3, <2>1, RowChange
<1>5. TlsFallback' = TlsFallback
  BY <1>1, <1>2, <1>3 DEF TlsFallback
<1> QED
  BY <1>3, <1>4, <1>5 DEF TlsInv, RoutesSound, FallbackFollowsStatus

\* A reload that is asked for, and one that ends.
LEMMA Reload_Step ==
    ASSUME TlsInv, UNCHANGED <<tlsRow, tlsJob, tlsInFlight, tlsAsked, tlsRoute>>,
           \/ tlsReload' \in {"asked", "failed"} /\ UNCHANGED <<tlsServed, tlsSilent>>
           \/ tlsReload' = "none" /\ tlsServed' = TlsFallback /\ tlsSilent' = {}
    PROVE  TlsInv'
<1>1. TlsFallback \subseteq TlsDomains /\ TlsFallback' = TlsFallback
  BY DEF TlsFallback
<1>2. TlsTypes'
  BY <1>1, TypesFolded, TypesAfter DEF TlsInv
<1>3. DomainsSound'
  BY DEF TlsInv, DomainsSound, DomainSound, JobSound
<1>4. FallbackFollowsStatus'
  BY <1>1 DEF FallbackFollowsStatus
<1> QED
  BY <1>2, <1>3, <1>4 DEF TlsInv, RoutesSound

LEMMA TlsInvStep == TlsInv /\ [TlsNext]_TlsVars => TlsInv'
<1> SUFFICES ASSUME TlsInv, [TlsNext]_TlsVars PROVE TlsInv'
  OBVIOUS
<1>1. ASSUME NEW d \in TlsDomains, NEW k \in {1, 2}, TlsRefreshStep(d, k)
      PROVE  TlsInv'
  BY <1>1, Probed_Step, Read_Step, Write_Step, Reloaded_Step, Rejected_Step DEF TlsRefreshStep
<1>2. ASSUME NEW d \in TlsDomains, TlsSwitchPanel(d)
      PROVE  TlsInv'
  BY <1>2, Reload_Step DEF TlsSwitchPanel
<1>3. CASE TlsDeliver
  BY <1>3, Reload_Step DEF TlsDeliver
<1>4. CASE UNCHANGED TlsVars
  <2>1. RoutesSound' /\ tlsRoute' \in [TlsRoutes -> TlsRouteRows]
    BY <1>4, TypesFolded DEF TlsVars, TlsInv, RoutesSound
  <2> QED
    BY <1>4, <2>1, RoutesChange DEF TlsVars
<1> QED
  BY <1>1, <1>2, <1>3, <1>4, Create_Step, Delete_Step, AdminUpdate_Step, Expire_Step,
     List_Step, GetService_Step, RetryRoute_Step, RouteProbed_Step DEF TlsNext

\* The invariant holds in every reachable state.
THEOREM TlsInvariant == TlsSpec => []TlsInv
BY TlsInvInit, TlsInvStep, PTL DEF TlsSpec

\* Statuses come from probes that were due, no domain is shut out of refreshes,
\* and Caddy's fallback follows, however refreshes, edits and reloads overlap.
THEOREM TlsIsSoundHolds == TlsSpec => []TlsIsSound
<1>1. TlsInv => TlsIsSound
  <2> SUFFICES ASSUME TlsInv PROVE TlsIsSound
    OBVIOUS
  <2>1. TlsTypeOK /\ FallbackFollowsStatus
    BY DEF TlsInv, TlsTypes
  <2>2. InFlightIsRunning
    BY <2>1 DEF TlsInv, TlsTypeOK, DomainsSound, DomainSound, InFlightIsRunning
  <2>3. NothingToProbe
    BY TlsAssumption DEF TlsInv, DomainsSound, DomainSound, RoutesSound, NothingToProbe
  <2> QED
    BY <2>1, <2>2, <2>3 DEF TlsIsSound
<1> QED
  BY <1>1, TlsInvariant, PTL

-----------------------------------------------------------------------------

\* The number of the refresh a row was written by.
LEMMA NewerProbe ==
    ASSUME TlsInv, [TlsNext]_TlsVars, NEW d \in TlsDomains
    PROVE  tlsRow'[d].by >= tlsRow[d].by
<1>1. tlsRow \in [TlsDomains -> TlsRows] /\ tlsRow[d].by \in Nat
  BY TypesFolded DEF TlsInv, TlsRows
<1>2. CASE tlsRow' = tlsRow
  BY <1>1, <1>2
<1>3. ASSUME NEW e \in TlsDomains, NEW k \in {1, 2}, NEW status,
             tlsJob[e][k].step # "idle", TlsStored(e, status, tlsJob[e][k].number)
      PROVE  tlsRow'[d].by >= tlsRow[d].by
  <2>1. tlsJob[e][k].number >= tlsRow[e].by /\ tlsJob[e][k].number = tlsAsked[e]
    BY <1>3, TypesFolded DEF TlsInv, DomainsSound, DomainSound, JobSound, TlsRows
  <2> QED
    BY <1>1, <1>3, <2>1 DEF TlsStored, TlsRows
<1>4. ASSUME NEW e \in TlsDomains, NEW k \in {1, 2}, TlsRefreshStep(e, k)
      PROVE  tlsRow'[d].by >= tlsRow[d].by
  <2>1. TlsWrite(e, k) /\ tlsRow' # tlsRow
          => tlsJob[e][k].step # "idle" /\ TlsStored(e, tlsJob[e][k].found, tlsJob[e][k].number)
    BY DEF TlsWrite, TlsJobStep
  <2>2. TlsRejected(e, k) /\ tlsRow' # tlsRow
          => tlsJob[e][k].step # "idle" /\ TlsStored(e, "error", tlsJob[e][k].number)
    BY DEF TlsRejected, TlsJobStep
  <2>3. TlsProbed(e, k) \/ TlsRead(e, k) \/ TlsReloaded(e, k) => tlsRow' = tlsRow
    BY DEF TlsProbed, TlsRead, TlsReloaded
  <2> QED
    BY <1>2, <1>3, <1>4, <2>1, <2>2, <2>3 DEF TlsRefreshStep
<1>5. ASSUME NEW e \in TlsDomains,
             TlsCreate(e) \/ TlsDelete(e) \/ TlsAdminUpdate(e) \/ TlsExpire(e)
      PROVE  tlsRow'[d].by >= tlsRow[d].by
  <2>1. tlsRow'[d].by = tlsRow[d].by
    BY <1>1, <1>5 DEF TlsCreate, TlsDelete, TlsAdminUpdate, TlsExpire, TlsRows
  <2> QED
    BY <1>1, <2>1
<1>6. TlsDeliver \/ TlsList \/ (\E R \in SUBSET TlsRoutes : TlsGetService(R))
        \/ (\E r \in TlsRoutes : TlsRetryRoute(r) \/ TlsRouteProbed(r))
        \/ (\E e \in TlsDomains : TlsSwitchPanel(e)) \/ UNCHANGED TlsVars
      => tlsRow' = tlsRow
  BY DEF TlsDeliver, TlsList, TlsGetService, TlsRetryRoute, TlsRouteProbed, TlsSwitchPanel,
         TlsVars
<1> QED
  BY <1>2, <1>4, <1>5, <1>6 DEF TlsNext

\* A row never goes back to the result of an older refresh.
THEOREM NewestProbeKeptHolds == TlsSpec => NewestProbeKept
<1>1. TlsInv /\ [TlsNext]_TlsVars
        => [\A d \in TlsDomains : tlsRow'[d].by >= tlsRow[d].by]_TlsVars
  BY NewerProbe
<1> QED
  BY <1>1, TlsInvariant, PTL DEF TlsSpec, NewestProbeKept
=============================================================================
