------------------------- MODULE CaddyReloaderProofs -------------------------
(***************************************************************************)
(* Proofs about the Caddy reloader, for any parts of the configuration,    *)
(* any set of callers and any number of changes, about the site blocks of  *)
(* the Caddyfile it loads, for any rows, routes, labels and services, and  *)
(* about the directives of static services in them, for any text.          *)
(***************************************************************************)
EXTENDS TLAPS, CaddyReloader, CaddySites, StaticFragment, FiniteSetTheorems, SequenceTheorems, WellFoundedInduction

(***************************************************************************)
(* Versions only grow on the way from the database to Caddy: what Caddy    *)
(* runs is at most as new as every request it still has, an earlier        *)
(* request at most as new as a later one, and every request at most as new *)
(* as the database.                                                        *)
(***************************************************************************)
Chain ==
    /\ AtMost(active, db)
    /\ \A i \in 1..Len(inbox) : AtMost(active, inbox[i]) /\ AtMost(inbox[i], db)
    /\ \A i, k \in 1..Len(inbox) : i <= k => AtMost(inbox[i], inbox[k])

(***************************************************************************)
(* What the current build has read is at least as new as everything posted *)
(* before it, so appending it to the requests keeps them in order.         *)
(***************************************************************************)
BuildIsNewest ==
    phase = "building" =>
        \A p \in readSet :
            /\ active[p] <= built[p]
            /\ built[p] <= db[p]
            /\ \A i \in 1..Len(inbox) : inbox[i][p] <= built[p]

(***************************************************************************)
(* While its push is in flight, the build is Caddy's last request; a       *)
(* success means that Caddy runs it.                                       *)
(***************************************************************************)
PushInFlight ==
    phase = "pushing" =>
        /\ readSet = Part
        /\ reply = "none" => inbox # <<>> /\ inbox[Len(inbox)] = built
        /\ reply # "none" => inbox = <<>>
        /\ reply = "ok" => active = built

(***************************************************************************)
(* A caller that waits is covered: the loop has not begun, or another turn *)
(* of it is queued, or whatever the current turn has read was read after   *)
(* the call.                                                               *)
(***************************************************************************)
Covered(c) ==
    /\ phase # "idle"
    /\ \/ phase = "scheduled"
       \/ reloadQueued
       \/ \A p \in readSet : need[c][p] <= built[p]

CallersCovered ==
    \A c \in Caller : /\ AtMost(need[c], db)
                      /\ caller[c] = "waiting" => Covered(c)

ReloaderInv ==
    /\ TypeOK
    /\ Chain
    /\ BuildIsNewest
    /\ PushInFlight
    /\ CallersCovered
    /\ ReloadDelivers
    /\ CommittedWasAccepted

-----------------------------------------------------------------------------
(* Lemmas about the order of versions. *)

LEMMA BlankConfig == Blank \in Config
BY VersionAssumption DEF Blank, Config

LEMMA AtMostReflexive ==
    ASSUME NEW u \in Config
    PROVE  AtMost(u, u)
BY VersionAssumption DEF Config, AtMost

LEMMA AtMostTransitive ==
    ASSUME NEW u \in Config, NEW v \in Config, NEW w \in Config,
           AtMost(u, v), AtMost(v, w)
    PROVE  AtMost(u, w)
BY VersionAssumption DEF Config, AtMost

\* A committed change is a larger version and leaves the others alone.
LEMMA CommitGrows ==
    ASSUME TypeOK, NEW c \in Caller, NEW p \in Part, Change(c, p)
    PROVE  db' \in Config /\ AtMost(db, db')
<1>1. db \in [Part -> 0..MaxVersion] /\ db[p] < MaxVersion /\ db' = [db EXCEPT ![p] = db[p] + 1]
  BY DEF TypeOK, Config, Change
<1>2. db[p] + 1 \in 0..MaxVersion
  BY <1>1, VersionAssumption
<1>3. db' \in [Part -> 0..MaxVersion]
  BY <1>1, <1>2
<1>4. ASSUME NEW q \in Part PROVE db[q] <= db'[q]
  <2>1. CASE q = p
    BY <1>1, <1>2, <2>1, VersionAssumption
  <2>2. CASE q # p
    BY <1>1, <2>2, VersionAssumption
  <2>3. QED  BY <2>1, <2>2
<1>5. QED  BY <1>3, <1>4 DEF AtMost, Config

-----------------------------------------------------------------------------
(* Types. *)

CallerState == {"idle", "changed", "waiting", "ok", "failed"}

LEMMA SettleTypes ==
    ASSUME TypeOK, NEW how \in {"ok", "failed"}, SettleAll(how)
    PROVE  phase' = "idle" /\ caller' \in [Caller -> CallerState]
BY DEF TypeOK, SettleAll, CallerState

LEMMA TypeOK_Init == Init => TypeOK
<1> SUFFICES ASSUME Init PROVE TypeOK
  OBVIOUS
<1>1. need \in [Caller -> Config] /\ inbox \in Seq(Config)
  BY BlankConfig DEF Init
<1>2. QED  BY <1>1, BlankConfig DEF Init, TypeOK

LEMMA TypeOK_Step == TypeOK /\ [Next]_vars => TypeOK'
<1> SUFFICES ASSUME TypeOK, [Next]_vars
             PROVE  TypeOK'
  OBVIOUS
<1> USE VersionAssumption
<1>1. ASSUME NEW c \in Caller, NEW p \in Part, Change(c, p) PROVE TypeOK'
  BY <1>1, CommitGrows DEF TypeOK, Change, loopVars, caddyVars
<1>2. ASSUME NEW c \in Caller, Call(c) PROVE TypeOK'
  BY <1>2 DEF TypeOK, Call, caddyVars
<1>3. ASSUME NEW c \in Caller, Resume(c) PROVE TypeOK'
  BY <1>3 DEF TypeOK, Resume, loopVars, caddyVars
<1>4. CASE Begin
  BY <1>4 DEF TypeOK, Begin, StartTurn, caddyVars
<1>5. ASSUME NEW p \in Part, ReadPart(p) PROVE TypeOK'
  BY <1>5 DEF TypeOK, ReadPart, caddyVars, Config
<1>6. CASE BuildFails
  BY <1>6, SettleTypes DEF TypeOK, BuildFails, caddyVars, CallerState
<1>7. CASE Push
  BY <1>7 DEF TypeOK, Push
<1>8. CASE PushSucceeds
  BY <1>8, SettleTypes DEF TypeOK, PushSucceeds, StartTurn, caddyVars, CallerState
<1>9. CASE PushFails
  BY <1>9, SettleTypes DEF TypeOK, PushFails, caddyVars, CallerState
<1>10. CASE CaddyApplies
  BY <1>10 DEF TypeOK, CaddyApplies, Answers, loopVars
<1>11. CASE CaddyRejects
  BY <1>11 DEF TypeOK, CaddyRejects, Answers, loopVars
<1>12. CASE Restart
  BY <1>12, BlankConfig DEF TypeOK, Restart, caddyVars
<1>13. CASE UNCHANGED vars
  BY <1>13 DEF TypeOK, vars, loopVars, caddyVars
<1>14. QED
  BY <1>1, <1>2, <1>3, <1>4, <1>5, <1>6, <1>7, <1>8, <1>9, <1>10, <1>11, <1>12,
     <1>13 DEF Next

-----------------------------------------------------------------------------
(* The order of versions: Chain, BuildIsNewest, PushInFlight. *)

LEMMA Chain_Step == ReloaderInv /\ [Next]_vars => Chain'
<1> SUFFICES ASSUME ReloaderInv, [Next]_vars
             PROVE  Chain'
  OBVIOUS
<1>1. /\ inbox \in Seq(Config) /\ active \in Config /\ db \in Config /\ built \in Config
      /\ Len(inbox) \in Nat
      /\ \A i \in 1..Len(inbox) : inbox[i] \in Config
  BY DEF ReloaderInv, TypeOK
<1>2. ASSUME NEW c \in Caller, NEW p \in Part, Change(c, p) PROVE Chain'
  <2>1. db' \in Config /\ AtMost(db, db') /\ inbox' = inbox /\ active' = active
    BY <1>2, CommitGrows DEF ReloaderInv, Change, caddyVars
  <2>2. AtMost(active, db')
    BY <1>1, <2>1, AtMostTransitive DEF ReloaderInv, Chain
  <2>3. \A i \in 1..Len(inbox) : AtMost(inbox[i], db')
    BY <1>1, <2>1, AtMostTransitive DEF ReloaderInv, Chain
  <2>4. QED  BY <2>1, <2>2, <2>3 DEF ReloaderInv, Chain
<1>3. CASE Push
  <2> DEFINE next == Append(inbox, built)
  <2>1. inbox' = next /\ active' = active /\ db' = db /\ phase = "building" /\ readSet = Part
    BY <1>3 DEF Push
  <2>2. /\ AtMost(active, built) /\ AtMost(built, db)
        /\ \A i \in 1..Len(inbox) : AtMost(inbox[i], built)
    BY <2>1 DEF ReloaderInv, BuildIsNewest, AtMost
  <2>3. /\ Len(next) = Len(inbox) + 1
        /\ next[Len(inbox) + 1] = built
        /\ \A i \in 1..Len(inbox) : next[i] = inbox[i]
    BY <1>1
  <2>4. AtMost(built, built)
    BY <1>1, AtMostReflexive
  <2> HIDE DEF next
  <2>5. ASSUME NEW i \in 1..Len(next)
        PROVE  AtMost(active, next[i]) /\ AtMost(next[i], db) /\ AtMost(next[i], built)
    <3>1. CASE i = Len(inbox) + 1
      BY <2>2, <2>3, <2>4, <3>1
    <3>2. CASE i \in 1..Len(inbox)
      BY <2>2, <2>3, <3>2 DEF ReloaderInv, Chain
    <3>3. QED  BY <1>1, <2>3, <3>1, <3>2
  <2>6. ASSUME NEW i \in 1..Len(next), NEW k \in 1..Len(next), i <= k
        PROVE  AtMost(next[i], next[k])
    <3>1. CASE k = Len(inbox) + 1
      BY <2>3, <2>5, <3>1
    <3>2. CASE k \in 1..Len(inbox)
      <4>1. i \in 1..Len(inbox)
        BY <1>1, <2>3, <2>6, <3>2
      <4>2. QED  BY <2>3, <2>6, <3>2, <4>1 DEF ReloaderInv, Chain
    <3>3. QED  BY <1>1, <2>3, <3>1, <3>2
  <2>7. QED  BY <2>1, <2>5, <2>6 DEF ReloaderInv, Chain
<1>4. ASSUME inbox # <<>>, inbox' = Tail(inbox), db' = db, active' \in {active, Head(inbox)}
      PROVE  Chain'
  <2> DEFINE rest == Tail(inbox)
  <2>1. /\ Len(inbox) >= 1 /\ Head(inbox) = inbox[1]
        /\ Len(rest) = Len(inbox) - 1
        /\ \A i \in 1..Len(rest) : rest[i] = inbox[i + 1] /\ i + 1 \in 1..Len(inbox)
    BY <1>1, <1>4
  <2>2. AtMost(active', db) /\ \A i \in 1..Len(inbox) : AtMost(active', inbox[i])
    BY <1>1, <1>4, <2>1 DEF ReloaderInv, Chain
  <2> HIDE DEF rest
  <2>3. \A i \in 1..Len(rest) : AtMost(active', rest[i]) /\ AtMost(rest[i], db)
    BY <2>1, <2>2 DEF ReloaderInv, Chain
  <2>4. ASSUME NEW i \in 1..Len(rest), NEW k \in 1..Len(rest), i <= k
        PROVE  AtMost(rest[i], rest[k])
    <3>1. i + 1 \in 1..Len(inbox) /\ k + 1 \in 1..Len(inbox) /\ i + 1 <= k + 1
      BY <1>1, <2>1, <2>4
    <3>2. AtMost(inbox[i + 1], inbox[k + 1])
      BY <3>1 DEF ReloaderInv, Chain
    <3>3. QED  BY <2>1, <3>2
  <2>5. inbox' = rest
    BY <1>4 DEF rest
  <2>6. QED  BY <1>4, <2>2, <2>3, <2>4, <2>5 DEF Chain
<1>5. CASE CaddyApplies \/ CaddyRejects
  BY <1>4, <1>5 DEF CaddyApplies, CaddyRejects
<1>6. CASE UNCHANGED <<inbox, active, db>>
  BY <1>6 DEF ReloaderInv, Chain
<1>7. QED
  BY <1>2, <1>3, <1>5, <1>6
     DEF Next, Call, Resume, Begin, ReadPart, BuildFails, PushSucceeds, PushFails,
         Restart, vars, caddyVars, loopVars

LEMMA BuildIsNewest_Step == ReloaderInv /\ [Next]_vars => BuildIsNewest'
<1> SUFFICES ASSUME ReloaderInv, [Next]_vars
             PROVE  BuildIsNewest'
  OBVIOUS
<1>1. /\ inbox \in Seq(Config) /\ active \in Config /\ db \in Config /\ built \in Config
      /\ Len(inbox) \in Nat
      /\ \A i \in 1..Len(inbox) : inbox[i] \in Config
  BY DEF ReloaderInv, TypeOK
<1>2. ASSUME NEW c \in Caller, NEW p \in Part, Change(c, p) PROVE BuildIsNewest'
  <2>1. /\ db' \in Config /\ AtMost(db, db')
        /\ UNCHANGED <<phase, readSet, built, inbox, active>>
    BY <1>2, CommitGrows DEF ReloaderInv, Change, caddyVars, loopVars
  <2>2. \A q \in Part : built[q] <= db[q] => built[q] <= db'[q]
    BY <1>1, <2>1, VersionAssumption DEF AtMost, Config
  <2>3. readSet \subseteq Part
    BY DEF ReloaderInv, TypeOK
  <2>4. QED  BY <2>1, <2>2, <2>3 DEF ReloaderInv, BuildIsNewest
<1>3. ASSUME NEW p \in Part, ReadPart(p) PROVE BuildIsNewest'
  <2>1. /\ phase = "building"
        /\ readSet' = readSet \union {p}
        /\ built' = [built EXCEPT ![p] = db[p]]
        /\ UNCHANGED <<db, inbox, active>>
    BY <1>3 DEF ReadPart, caddyVars
  <2>2. \A q \in Part : built'[q] = IF q = p THEN db[p] ELSE built[q]
    BY <1>1, <2>1 DEF Config
  <2>3. /\ active[p] <= db[p] /\ db[p] <= db[p]
        /\ \A i \in 1..Len(inbox) : inbox[i][p] <= db[p]
    BY <1>1, AtMostReflexive DEF ReloaderInv, Chain, AtMost
  <2>4. ASSUME NEW q \in readSet'
        PROVE  /\ active[q] <= built'[q] /\ built'[q] <= db[q]
               /\ \A i \in 1..Len(inbox) : inbox[i][q] <= built'[q]
    <3>1. CASE q = p
      BY <2>2, <2>3, <3>1
    <3>2. CASE q # p
      <4>1. q \in readSet /\ q \in Part
        BY <2>1, <2>4, <3>2 DEF ReloaderInv, TypeOK
      <4>2. QED  BY <2>1, <2>2, <3>2, <4>1 DEF ReloaderInv, BuildIsNewest
    <3>3. QED  BY <3>1, <3>2
  <2>5. QED  BY <2>1, <2>4 DEF BuildIsNewest
<1>4. CASE CaddyApplies \/ CaddyRejects
  <2>1. /\ inbox # <<>> /\ inbox' = Tail(inbox) /\ active' \in {active, Head(inbox)}
        /\ UNCHANGED <<db, phase, readSet, built>>
    BY <1>4 DEF CaddyApplies, CaddyRejects, loopVars
  <2>2. /\ Head(inbox) = inbox[1] /\ 1 \in 1..Len(inbox)
        /\ \A i \in 1..Len(inbox') : inbox'[i] = inbox[i + 1] /\ i + 1 \in 1..Len(inbox)
    BY <1>1, <2>1
  <2>3. QED  BY <2>1, <2>2 DEF ReloaderInv, BuildIsNewest
<1>5. CASE phase' # "building" \/ readSet' = {}
  BY <1>5 DEF BuildIsNewest
<1>6. CASE UNCHANGED <<phase, readSet, built, inbox, active, db>>
  BY <1>6 DEF ReloaderInv, BuildIsNewest
<1>7. ASSUME NEW c \in Caller, Call(c) PROVE BuildIsNewest'
  BY <1>5, <1>6, <1>7 DEF Call, caddyVars
<1>8. ASSUME NEW c \in Caller, Resume(c) PROVE BuildIsNewest'
  BY <1>6, <1>8 DEF Resume, caddyVars, loopVars
<1>9. CASE Begin \/ BuildFails \/ Push \/ PushSucceeds \/ PushFails \/ Restart
  BY <1>5, <1>9
     DEF Begin, StartTurn, BuildFails, SettleAll, Push, PushSucceeds, PushFails, Restart
<1>10. CASE UNCHANGED vars
  BY <1>6, <1>10 DEF vars, loopVars
<1>11. QED
  BY <1>2, <1>3, <1>4, <1>7, <1>8, <1>9, <1>10 DEF Next

LEMMA PushInFlight_Step == ReloaderInv /\ [Next]_vars => PushInFlight'
<1> SUFFICES ASSUME ReloaderInv, [Next]_vars
             PROVE  PushInFlight'
  OBVIOUS
<1>1. inbox \in Seq(Config) /\ built \in Config /\ Len(inbox) \in Nat
  BY DEF ReloaderInv, TypeOK
<1>2. CASE Push
  <2>1. inbox' = Append(inbox, built) /\ UNCHANGED <<built, readSet>>
        /\ readSet = Part /\ reply' = "none"
    BY <1>2 DEF Push
  <2>2. inbox' # <<>> /\ inbox'[Len(inbox')] = built
    BY <1>1, <2>1
  <2>3. QED  BY <2>1, <2>2 DEF PushInFlight
<1>3. CASE CaddyApplies \/ CaddyRejects
  <2>1. /\ inbox # <<>> /\ inbox' = Tail(inbox)
        /\ UNCHANGED <<phase, readSet, built>>
        /\ \/ Answers("ok") /\ active' = Head(inbox)
           \/ Answers("rejected") /\ active' = active
    BY <1>3 DEF CaddyApplies, CaddyRejects, loopVars
  <2>2. CASE phase = "pushing" /\ Len(inbox) = 1
    <3>1. inbox' = <<>> /\ Head(inbox) = inbox[Len(inbox)]
      BY <1>1, <2>1, <2>2
    <3>2. reply' \in {"ok", "rejected"} /\ (reply' = "ok" => active' = Head(inbox))
      BY <2>1, <2>2 DEF Answers
    <3>3. readSet = Part /\ inbox[Len(inbox)] = built
      BY <2>1, <2>2 DEF ReloaderInv, PushInFlight, TypeOK
    <3>4. QED  BY <2>1, <3>1, <3>2, <3>3 DEF PushInFlight
  <2>3. CASE phase = "pushing" /\ Len(inbox) # 1
    <3>1. inbox' # <<>> /\ inbox'[Len(inbox')] = inbox[Len(inbox)]
      <4>1. Len(inbox) > 1 /\ Len(inbox') = Len(inbox) - 1
        BY <1>1, <2>1, <2>3
      <4>2. \A k \in 1..Len(inbox') : inbox'[k] = inbox[k + 1]
        BY <1>1, <2>1
      <4>3. Len(inbox') \in 1..Len(inbox') /\ Len(inbox') + 1 = Len(inbox)
        BY <1>1, <4>1
      <4>4. inbox' # <<>>
        BY <1>1, <4>1
      <4>5. QED  BY <4>2, <4>3, <4>4
    <3>2. reply' = reply
      BY <2>1, <2>3 DEF Answers
    <3>3. reply = "none" /\ readSet = Part /\ inbox[Len(inbox)] = built
      BY <2>1, <2>3 DEF ReloaderInv, PushInFlight
    <3>4. QED  BY <2>1, <3>1, <3>2, <3>3 DEF PushInFlight
  <2>4. CASE phase # "pushing"
    BY <2>1, <2>4 DEF PushInFlight
  <2>5. QED  BY <2>2, <2>3, <2>4
<1>4. CASE phase' # "pushing"
  BY <1>4 DEF PushInFlight
<1>5. CASE UNCHANGED <<phase, readSet, built, inbox, active, reply>>
  BY <1>5 DEF ReloaderInv, PushInFlight
<1>6. ASSUME NEW c \in Caller, Call(c) PROVE PushInFlight'
  BY <1>4, <1>5, <1>6 DEF Call, caddyVars
<1>7. ASSUME NEW c \in Caller, Resume(c) \/ \E p \in Part : Change(c, p)
      PROVE  PushInFlight'
  BY <1>5, <1>7 DEF Resume, Change, caddyVars, loopVars
<1>8. ASSUME NEW p \in Part, ReadPart(p) PROVE PushInFlight'
  BY <1>4, <1>8 DEF ReadPart
<1>9. CASE Begin \/ BuildFails \/ PushSucceeds \/ PushFails \/ Restart
  BY <1>4, <1>9
     DEF Begin, StartTurn, BuildFails, SettleAll, PushSucceeds, PushFails, Restart
<1>10. CASE UNCHANGED vars
  BY <1>5, <1>10 DEF vars, loopVars
<1>11. QED
  BY <1>2, <1>3, <1>6, <1>7, <1>8, <1>9, <1>10 DEF Next

-----------------------------------------------------------------------------
(* The callers. *)

LEMMA CallersCovered_Step == ReloaderInv /\ [Next]_vars => CallersCovered'
<1> SUFFICES ASSUME ReloaderInv, [Next]_vars
             PROVE  CallersCovered'
  OBVIOUS
<1>1. /\ db \in Config /\ built \in Config /\ readSet \subseteq Part
      /\ \A c \in Caller : need[c] \in Config
      /\ need \in [Caller -> Config] /\ DOMAIN caller = Caller
  BY DEF ReloaderInv, TypeOK
<1>2. \A c \in Caller : AtMost(need[c], db)
  BY DEF ReloaderInv, CallersCovered
<1>3. ASSUME NEW c \in Caller, NEW p \in Part, Change(c, p) PROVE CallersCovered'
  <2>1. /\ db' \in Config /\ AtMost(db, db')
        /\ caller' = [caller EXCEPT ![c] = "changed"]
        /\ UNCHANGED <<need, phase, reloadQueued, readSet, built>>
    BY <1>3, CommitGrows DEF ReloaderInv, Change, loopVars
  <2>2. \A d \in Caller : AtMost(need[d], db')
    BY <1>1, <1>2, <2>1, AtMostTransitive
  <2>3. \A d \in Caller : caller'[d] = "waiting" => caller[d] = "waiting"
    BY <1>1, <2>1
  <2>4. QED  BY <2>1, <2>2, <2>3 DEF ReloaderInv, CallersCovered, Covered
<1>4. ASSUME NEW c \in Caller, Call(c) PROVE CallersCovered'
  <2>1. /\ need' = [need EXCEPT ![c] = db]
        /\ caller' = [caller EXCEPT ![c] = "waiting"]
        /\ UNCHANGED <<db, built>>
        /\ phase' # "idle"
        /\ \/ phase = "idle" /\ phase' = "scheduled"
           \/ phase # "idle" /\ reloadQueued' /\ UNCHANGED <<phase, readSet>>
    BY <1>4 DEF Call
  <2>2. \A d \in Caller : AtMost(need'[d], db)
    BY <1>1, <1>2, <2>1, AtMostReflexive
  <2>3. phase' = "scheduled" \/ reloadQueued'
    BY <2>1
  <2>4. QED  BY <2>1, <2>2, <2>3 DEF CallersCovered, Covered
<1>5. ASSUME NEW c \in Caller, Resume(c) PROVE CallersCovered'
  <2>1. \A d \in Caller : caller'[d] = "waiting" => caller[d] = "waiting"
    BY <1>1, <1>5 DEF Resume
  <2>2. QED  BY <1>5, <2>1 DEF Resume, ReloaderInv, CallersCovered, Covered, loopVars
<1>6. ASSUME StartTurn, UNCHANGED <<db, need>>
      PROVE  CallersCovered'
  BY <1>2, <1>6 DEF StartTurn, CallersCovered, Covered
<1>7. ASSUME NEW how \in {"ok", "failed"}, SettleAll(how), UNCHANGED <<db, need>>
      PROVE  CallersCovered'
  <2>1. \A d \in Caller : caller'[d] # "waiting"
    BY <1>7 DEF SettleAll
  <2>2. QED  BY <1>2, <1>7, <2>1 DEF CallersCovered
<1>8. ASSUME NEW p \in Part, ReadPart(p) PROVE CallersCovered'
  <2>1. /\ readSet' = readSet \union {p}
        /\ built' = [built EXCEPT ![p] = db[p]]
        /\ UNCHANGED <<db, caller, need, phase, reloadQueued>>
        /\ phase = "building"
    BY <1>8 DEF ReadPart
  <2>2. \A q \in Part : built'[q] = IF q = p THEN db[p] ELSE built[q]
    BY <1>1, <2>1 DEF Config
  <2>3. \A d \in Caller : need[d][p] <= db[p]
    BY <1>2 DEF AtMost
  <2>4. ASSUME NEW d \in Caller, \A q \in readSet : need[d][q] <= built[q]
        PROVE  \A q \in readSet' : need[d][q] <= built'[q]
    BY <1>1, <2>1, <2>2, <2>3, <2>4
  <2>5. QED  BY <1>2, <2>1, <2>4 DEF ReloaderInv, CallersCovered, Covered
<1>9. CASE Push
  BY <1>9 DEF Push, ReloaderInv, CallersCovered, Covered
<1>10. CASE Restart
  <2>1. \A d \in Caller : caller'[d] # "waiting"
    BY <1>10 DEF Restart
  <2>2. QED  BY <1>2, <1>10, <2>1 DEF Restart, CallersCovered
<1>11. CASE CaddyApplies \/ CaddyRejects \/ UNCHANGED vars
  BY <1>11 DEF CaddyApplies, CaddyRejects, vars, loopVars, ReloaderInv, CallersCovered, Covered
<1>12. CASE Begin \/ BuildFails \/ PushSucceeds \/ PushFails
  BY <1>6, <1>7, <1>12 DEF Begin, BuildFails, PushSucceeds, PushFails
<1>13. QED
  BY <1>3, <1>4, <1>5, <1>8, <1>9, <1>10, <1>11, <1>12 DEF Next

\* Caddy's configuration only gets newer.
LEMMA ActiveGrows ==
    ASSUME ReloaderInv, [Next]_vars
    PROVE  AtMost(active, active')
<1>1. inbox \in Seq(Config) /\ active \in Config /\ Len(inbox) \in Nat
  BY DEF ReloaderInv, TypeOK
<1>2. AtMost(active, active)
  BY <1>1, AtMostReflexive
<1>3. CASE CaddyApplies
  <2>1. active' = inbox[1] /\ 1 \in 1..Len(inbox)
    BY <1>1, <1>3 DEF CaddyApplies
  <2>2. QED  BY <2>1 DEF ReloaderInv, Chain
<1>4. CASE UNCHANGED active
  BY <1>2, <1>4
<1>5. QED
  BY <1>3, <1>4
     DEF Next, Change, Call, Resume, Begin, ReadPart, BuildFails, Push, PushSucceeds,
         PushFails, CaddyRejects, Restart, vars, caddyVars

\* The push that succeeds is the one Caddy runs, and it covers all who wait.
LEMMA SuccessDelivers ==
    ASSUME ReloaderInv, PushSucceeds
    PROVE  /\ active = built
           /\ ~reloadQueued => \A c \in Waiting : AtMost(need[c], active)
BY DEF PushSucceeds, ReloaderInv, PushInFlight, CallersCovered, Covered, Waiting, AtMost

LEMMA ReloadDelivers_Step == ReloaderInv /\ [Next]_vars => ReloadDelivers'
<1> SUFFICES ASSUME ReloaderInv, [Next]_vars
             PROVE  ReloadDelivers'
  OBVIOUS
<1>1. /\ active \in Config /\ active' \in Config
      /\ \A c \in Caller : need[c] \in Config
      /\ need \in [Caller -> Config] /\ DOMAIN caller = Caller
  BY TypeOK_Step DEF ReloaderInv, TypeOK
<1>2. \A c \in Caller : AtMost(need[c], active) => AtMost(need[c], active')
  BY <1>1, ActiveGrows, AtMostTransitive
<1>3. ASSUME \A c \in Caller : caller'[c] = "ok" => caller[c] = "ok" /\ need'[c] = need[c]
      PROVE  ReloadDelivers'
  BY <1>2, <1>3 DEF ReloaderInv, ReloadDelivers
<1>4. ASSUME NEW c \in Caller, Call(c) \/ Resume(c) \/ \E p \in Part : Change(c, p)
      PROVE  ReloadDelivers'
  BY <1>1, <1>3, <1>4 DEF Call, Resume, Change
<1>5. CASE BuildFails \/ PushFails \/ Restart
  BY <1>3, <1>5 DEF BuildFails, PushFails, SettleAll, Restart
<1>6. CASE PushSucceeds
  <2>1. CASE reloadQueued
    BY <1>3, <1>6, <2>1 DEF PushSucceeds
  <2>2. CASE ~reloadQueued
    <3>1. UNCHANGED <<need, active>> /\ SettleAll("ok")
      BY <1>6, <2>2 DEF PushSucceeds, caddyVars
    <3>2. \A c \in Caller : caller'[c] = "ok" => caller[c] = "ok" \/ c \in Waiting
      BY <3>1 DEF SettleAll, Waiting
    <3>3. QED
      BY <1>6, <2>2, <3>1, <3>2, SuccessDelivers DEF ReloaderInv, ReloadDelivers
  <2>3. QED  BY <2>1, <2>2
<1>7. CASE UNCHANGED <<caller, need>>
  BY <1>3, <1>7
<1>8. QED
  BY <1>4, <1>5, <1>6, <1>7
     DEF Next, Begin, ReadPart, Push, CaddyApplies, CaddyRejects, vars, caddyVars

LEMMA CommittedWasAccepted_Step == ReloaderInv /\ [Next]_vars => CommittedWasAccepted'
<1> SUFFICES ASSUME ReloaderInv, [Next]_vars
             PROVE  CommittedWasAccepted'
  OBVIOUS
<1>1. /\ active \in Config /\ active' \in Config /\ committed \in Config
      /\ AtMost(active, active') /\ AtMost(committed, active)
  BY TypeOK_Step, ActiveGrows DEF ReloaderInv, TypeOK, CommittedWasAccepted
<1>2. CASE PushSucceeds
  <2>1. committed' = active'
    BY <1>2, SuccessDelivers DEF PushSucceeds, caddyVars
  <2>2. QED  BY <1>1, <2>1, AtMostReflexive DEF CommittedWasAccepted
<1>3. CASE Restart
  <2>1. committed' = Blank
    BY <1>3 DEF Restart
  <2>2. AtMost(Blank, active')
    BY <1>1, VersionAssumption DEF Blank, AtMost, Config
  <2>3. QED  BY <2>1, <2>2 DEF CommittedWasAccepted
<1>4. CASE UNCHANGED committed
  BY <1>1, <1>4, AtMostTransitive DEF CommittedWasAccepted
<1>5. QED
  BY <1>2, <1>3, <1>4
     DEF Next, Change, Call, Resume, Begin, ReadPart, BuildFails, Push, PushFails,
         CaddyApplies, CaddyRejects, vars, loopVars

-----------------------------------------------------------------------------
(* The theorems. *)

LEMMA ReloaderInv_Init == Init => ReloaderInv
<1> SUFFICES ASSUME Init PROVE ReloaderInv
  OBVIOUS
<1>1. AtMost(Blank, Blank)
  BY BlankConfig, AtMostReflexive
<1>2. \A c \in Caller : caller[c] = "idle" /\ need[c] = Blank
  BY DEF Init
<1>3. Chain /\ BuildIsNewest /\ PushInFlight /\ CommittedWasAccepted
  BY <1>1 DEF Init, Chain, BuildIsNewest, PushInFlight, CommittedWasAccepted
<1>4. CallersCovered /\ ReloadDelivers
  BY <1>1, <1>2 DEF Init, CallersCovered, ReloadDelivers
<1>5. QED  BY <1>3, <1>4, TypeOK_Init DEF ReloaderInv

LEMMA ReloaderInv_Step == ReloaderInv /\ [Next]_vars => ReloaderInv'
BY TypeOK_Step, Chain_Step, BuildIsNewest_Step, PushInFlight_Step, CallersCovered_Step,
   ReloadDelivers_Step, CommittedWasAccepted_Step DEF ReloaderInv

(***************************************************************************)
(* The invariant holds in every reachable state of the reloader: versions  *)
(* grow from Caddy to the database, and every caller that waits is covered *)
(* by the build in progress or by a turn still to come.                    *)
(***************************************************************************)
THEOREM ReloaderInvariant == Spec => []ReloaderInv
BY ReloaderInv_Init, ReloaderInv_Step, PTL DEF Spec

\* The reloader's variables keep their types.
THEOREM ReloaderTypeCorrect == Spec => []TypeOK
<1>1. ReloaderInv => TypeOK
  BY DEF ReloaderInv
<1>2. QED  BY <1>1, ReloaderInvariant, PTL

\* A reload() that resolves has delivered all that was committed before it.
THEOREM ReloadDeliversHolds == Spec => []ReloadDelivers
<1>1. ReloaderInv => ReloadDelivers
  BY DEF ReloaderInv
<1>2. QED  BY <1>1, ReloaderInvariant, PTL

\* What afterPush commits was accepted by Caddy first.
THEOREM CommittedWasAcceptedHolds == Spec => []CommittedWasAccepted
<1>1. ReloaderInv => CommittedWasAccepted
  BY DEF ReloaderInv
<1>2. QED  BY <1>1, ReloaderInvariant, PTL

\* Together: callers were told the truth, and so were the records.
THEOREM ReloadIsSoundHolds == Spec => []ReloadIsSound
<1>1. ReloaderInv => ReloadIsSound
  BY DEF ReloaderInv, ReloadIsSound
<1>2. QED  BY <1>1, ReloaderInvariant, PTL

\* Caddy never gets an older configuration after a newer one (caddy.ts:1040).
THEOREM NeverOlderHolds == Spec => NeverOlder
<1>1. ReloaderInv /\ [Next]_vars => [AtMost(active, active')]_vars
  BY ActiveGrows
<1>2. QED  BY <1>1, ReloaderInvariant, PTL DEF Spec, NeverOlder

(***************************************************************************)
(* Every step of the loop is a step of the abstract delivery or a stutter. *)
(***************************************************************************)
LEMMA Delivery_Step == ReloaderInv /\ [Next]_vars => [Delivery!Next]_(Delivery!vars)
<1> SUFFICES ASSUME ReloaderInv, [Next]_vars
             PROVE  [Delivery!Next]_(Delivery!vars)
  OBVIOUS
<1>1. ASSUME NEW c \in Caller, NEW p \in Part, Change(c, p) PROVE Delivery!Next
  BY <1>1 DEF Change, caddyVars, Delivery!Next, Delivery!Commit
<1>2. ASSUME NEW c \in Caller, Call(c) PROVE Delivery!Next
  BY <1>2 DEF Call, caddyVars, Delivery!Next, Delivery!Request
<1>3. ASSUME NEW c \in Caller, Resume(c) PROVE Delivery!Next
  BY <1>3 DEF Resume, caddyVars, Delivery!Next, Delivery!Return
<1>4. ASSUME NEW how, SettleAll(how), UNCHANGED <<db, need, active>>
      PROVE  Delivery!Answer(how)
  BY <1>4 DEF SettleAll, Delivery!Answer, Delivery!Waiting
<1>5. CASE BuildFails \/ PushFails
  BY <1>4, <1>5 DEF BuildFails, PushFails, caddyVars, Delivery!Next, Delivery!Fail
<1>6. CASE PushSucceeds
  <2>1. CASE reloadQueued
    BY <1>6, <2>1 DEF PushSucceeds, caddyVars, Delivery!vars
  <2>2. CASE ~reloadQueued
    <3>1. Delivery!Answer("ok")
      BY <1>4, <1>6, <2>2 DEF PushSucceeds, caddyVars
    <3>2. \A c \in Delivery!Waiting : Delivery!AtMost(need[c], active)
      BY <1>6, <2>2, SuccessDelivers DEF Waiting, AtMost, Delivery!Waiting, Delivery!AtMost
    <3>3. QED  BY <3>1, <3>2 DEF Delivery!Next, Delivery!Succeed
  <2>3. QED  BY <2>1, <2>2
<1>7. CASE CaddyApplies
  <2>1. UNCHANGED <<db, caller, need>> /\ active' \in Config /\ AtMost(active', db)
    <3>1. ReloaderInv'
      BY ReloaderInv_Step
    <3>2. UNCHANGED <<db, caller, need>>
      BY <1>7 DEF CaddyApplies
    <3>3. QED  BY <3>1, <3>2 DEF ReloaderInv, TypeOK, Chain, AtMost
  <2>2. QED
    BY <2>1, ActiveGrows
       DEF Config, AtMost, Delivery!Config, Delivery!AtMost, Delivery!Deliver, Delivery!Next
<1>8. CASE Restart
  BY <1>8 DEF Restart, caddyVars, Delivery!Next, Delivery!Forget
<1>9. CASE UNCHANGED <<db, active, caller, need>>
  BY <1>9 DEF Delivery!vars
<1>10. QED
  BY <1>1, <1>2, <1>3, <1>5, <1>6, <1>7, <1>8, <1>9
     DEF Next, Begin, ReadPart, Push, CaddyRejects, vars, caddyVars

(***************************************************************************)
(* reloadCaddy() keeps the promise of ConfigDelivery: coalescing callers   *)
(* into one loop and dropping stale builds is not observable.              *)
(***************************************************************************)
THEOREM ReloaderImplementsDelivery == Spec => ImplementsDelivery
<1>1. Init => Delivery!Init
  BY DEF Init, Blank, Delivery!Init, Delivery!Blank
<1>2. QED
  BY <1>1, Delivery_Step, ReloaderInvariant, PTL DEF Spec, Delivery!Spec, ImplementsDelivery

-----------------------------------------------------------------------------
(***************************************************************************)
(* The site blocks of the Caddyfile (CaddySites).  The model folds over    *)
(* the rows, and over the routes of a wildcard row.  SiteInduct is the     *)
(* induction these folds need; the ...Steps lemmas unfold each of them,    *)
(* and SiteHostsMade says what the hosts are from the set of the rows      *)
(* alone, from which the properties of the file follow.                    *)
(***************************************************************************)

(* A set that has zero, and with a number below L the next one. *)
SiteInductive(S, L) == 0 \in S /\ \A n \in 0 .. L : n \in S /\ n < L => n + 1 \in S

(* A set that is finite and not empty has a least number. *)
LEMMA SiteHasLeast ==
    ASSUME NEW T, T \subseteq Nat, IsFiniteSet(T), T # {}
    PROVE  \E x \in T : \A y \in T : x <= y
<1> DEFINE UpTo(x) == {z \in T : z <= x}
           Segments == {UpTo(x) : x \in T}
           R == StrictSubsetOrdering(T)
<1>1. IsWellFoundedOn(R, SUBSET T)
  BY FS_StrictSubsetOrderingWellFounded, FS_FiniteSubsetsOfFinite
<1>2. Segments \subseteq SUBSET T /\ Segments # {}
  OBVIOUS
<1>3. PICK A \in Segments : \A B \in Segments : ~ (<<B, A>> \in R)
  <2> HIDE DEF R, Segments
  <2> QED  BY <1>1, <1>2, WFMin
<1>4. PICK x \in T : A = UpTo(x)
  BY <1>3
<1>5. \A y \in T : x <= y
  <2>1. SUFFICES ASSUME NEW y \in T, y < x
                 PROVE  FALSE
    OBVIOUS
  <2>2. UpTo(y) \in Segments
    OBVIOUS
  <2>3. UpTo(y) \subseteq UpTo(x)
    <3>1. ASSUME NEW z \in T, z <= y
          PROVE  z <= x
      BY <2>1, <3>1
    <3>2. QED  BY <3>1
  <2>4. x \in UpTo(x) /\ x \notin UpTo(y)
    BY <2>1, T \subseteq Nat
  <2>5. <<UpTo(y), UpTo(x)>> \in R
    BY <2>3, <2>4 DEF StrictSubsetOrdering
  <2>6. QED  BY <1>3, <1>4, <2>2, <2>5
<1>6. QED  BY <1>5

(* Induction up to a bound: what an inductive set leaves out would have a
   least number. *)
LEMMA SiteInduct ==
    ASSUME NEW L \in Nat, NEW S, SiteInductive(S, L)
    PROVE  0 .. L \subseteq S
<1> DEFINE T == (0 .. L) \ S
<1>1. SUFFICES ASSUME T # {} PROVE FALSE
  OBVIOUS
<1>2. T \subseteq Nat /\ IsFiniteSet(T)
  <2>1. IsFiniteSet(0 .. L)
    BY FS_Interval
  <2>2. T \subseteq 0 .. L
    OBVIOUS
  <2>3. IsFiniteSet(T)
    <3> HIDE DEF T
    <3> QED  BY <2>1, <2>2, FS_Subset
  <2> QED  BY <2>2, <2>3
<1>3. PICK x \in T : \A y \in T : x <= y
  <2> HIDE DEF T
  <2> QED  BY <1>1, <1>2, SiteHasLeast
<1>4. x \in 0 .. L /\ x \notin S /\ x # 0
  BY <1>3 DEF SiteInductive
<1>5. x - 1 \in 0 .. L /\ x - 1 < L /\ (x - 1) + 1 = x
  BY <1>4
<1>6. x - 1 \in S
  BY <1>3, <1>5
<1>7. QED  BY <1>4, <1>5, <1>6 DEF SiteInductive

SiteKeptRun(f, s, keep, m) ==
  f[0] = <<>> /\ \A n \in 1 .. m : f[n] = IF s[n] \in keep THEN Append(f[n - 1], s[n]) ELSE f[n - 1]

SiteKeptEqn(f, s, keep) ==
  f = [n \in 0 .. Len(s) |-> IF n = 0 THEN <<>> ELSE IF s[n] \in keep THEN Append(f[n - 1], s[n]) ELSE f[n - 1]]

LEMMA SiteKeptSteps ==
    ASSUME NEW s, Len(s) \in Nat, NEW keep
    PROVE  \E f : SiteKeptRun(f, s, keep, Len(s)) /\ SiteKept(s, keep) = f[Len(s)]
<1> DEFINE S == {m \in 0 .. Len(s) : \E f : SiteKeptRun(f, s, keep, m)}
           f == CHOOSE f : SiteKeptEqn(f, s, keep)
<1>1. 0 \in S
  <2>1. SiteKeptRun([x \in {0} |-> <<>>], s, keep, 0)
    BY DEF SiteKeptRun
  <2> QED  BY <2>1
<1>2. ASSUME NEW m \in 0 .. Len(s), m \in S, m < Len(s)
      PROVE  m + 1 \in S
  <2>1. PICK e : SiteKeptRun(e, s, keep, m)
    BY <1>2
  <2> DEFINE g == [n \in 0 .. (m + 1) |-> IF n = m + 1 THEN IF s[n] \in keep THEN Append(e[n - 1], s[n]) ELSE e[n - 1] ELSE e[n]]
  <2>2. m \in Nat /\ m + 1 \in 0 .. Len(s)
    BY <1>2
  <2>3. g[0] = <<>>
    BY <2>1, <2>2 DEF SiteKeptRun
  <2>4. ASSUME NEW n \in 1 .. (m + 1)
        PROVE  g[n] = IF s[n] \in keep THEN Append(g[n - 1], s[n]) ELSE g[n - 1]
    <3>1. n \in 0 .. (m + 1) /\ n - 1 \in 0 .. (m + 1) /\ n - 1 # m + 1
      BY <2>2
    <3>2. g[n - 1] = e[n - 1]
      BY <3>1
    <3>3. CASE n = m + 1
      <4>1. g[n] = IF s[n] \in keep THEN Append(e[n - 1], s[n]) ELSE e[n - 1]
        BY <3>1, <3>3
      <4> HIDE DEF g
      <4> QED  BY <3>2, <4>1
    <3>4. CASE n # m + 1
      <4>1. n \in 1 .. m
        BY <2>2, <3>4
      <4>2. g[n] = e[n]
        BY <3>1, <3>4
      <4> HIDE DEF g
      <4> QED  BY <2>1, <3>2, <4>1, <4>2 DEF SiteKeptRun
    <3> QED  BY <3>3, <3>4
  <2>5. SiteKeptRun(g, s, keep, m + 1)
    <3> HIDE DEF g
    <3> QED  BY <2>3, <2>4 DEF SiteKeptRun
  <2> QED  BY <2>2, <2>5
<1>3. Len(s) \in S
  <2> HIDE DEF S
  <2>1. SiteInductive(S, Len(s))
    BY <1>1, <1>2 DEF SiteInductive
  <2> QED  BY <2>1, SiteInduct
<1>4. PICK e : SiteKeptRun(e, s, keep, Len(s))
  BY <1>3
<1> DEFINE g == [n \in 0 .. Len(s) |-> e[n]]
<1>5. SiteKeptEqn(g, s, keep)
  <2>1. ASSUME NEW n \in 0 .. Len(s)
        PROVE  e[n] = IF n = 0 THEN <<>> ELSE IF s[n] \in keep THEN Append(g[n - 1], s[n]) ELSE g[n - 1]
    <3>1. n = 0 \/ (n \in 1 .. Len(s) /\ n - 1 \in 0 .. Len(s))
      OBVIOUS
    <3>2. n # 0 => g[n - 1] = e[n - 1]
      BY <3>1
    <3> HIDE DEF g
    <3> QED  BY <1>4, <3>1, <3>2 DEF SiteKeptRun
  <2>2. g = [n \in 0 .. Len(s) |-> IF n = 0 THEN <<>> ELSE IF s[n] \in keep THEN Append(g[n - 1], s[n]) ELSE g[n - 1]]
    BY <2>1
  <2> HIDE DEF g
  <2> QED  BY <2>2 DEF SiteKeptEqn
<1>6. SiteKeptEqn(f, s, keep)
  BY <1>5
<1>7. SiteKept(s, keep) = f[Len(s)]
  BY DEF SiteKept, SiteKeptEqn
<1> HIDE DEF f
<1>8. SiteKeptRun(f, s, keep, Len(s))
  <2>1. f[0] = <<>>
    BY <1>6 DEF SiteKeptEqn
  <2>2. ASSUME NEW n \in 1 .. Len(s) PROVE f[n] = IF s[n] \in keep THEN Append(f[n - 1], s[n]) ELSE f[n - 1]
    <3>1. n \in 0 .. Len(s) /\ n # 0
      OBVIOUS
    <3> QED  BY <1>6, <3>1 DEF SiteKeptEqn
  <2> QED  BY <2>1, <2>2 DEF SiteKeptRun
<1> QED  BY <1>7, <1>8

SiteLabelRun(f, hosts, row, routes, m) ==
  f[0] = hosts /\ \A n \in 1 .. m : f[n] = SiteAddLabel(f[n - 1], row, routes[n])

SiteLabelEqn(f, hosts, row, routes) ==
  f = [n \in 0 .. Len(routes) |-> IF n = 0 THEN hosts ELSE SiteAddLabel(f[n - 1], row, routes[n])]

LEMMA SiteLabelSteps ==
    ASSUME NEW hosts, NEW row, NEW routes, Len(routes) \in Nat
    PROVE  \E f : SiteLabelRun(f, hosts, row, routes, Len(routes)) /\ SiteAddLabels(hosts, row, routes) = f[Len(routes)]
<1> DEFINE S == {m \in 0 .. Len(routes) : \E f : SiteLabelRun(f, hosts, row, routes, m)}
           f == CHOOSE f : SiteLabelEqn(f, hosts, row, routes)
<1>1. 0 \in S
  <2>1. SiteLabelRun([x \in {0} |-> hosts], hosts, row, routes, 0)
    BY DEF SiteLabelRun
  <2> QED  BY <2>1
<1>2. ASSUME NEW m \in 0 .. Len(routes), m \in S, m < Len(routes)
      PROVE  m + 1 \in S
  <2>1. PICK e : SiteLabelRun(e, hosts, row, routes, m)
    BY <1>2
  <2> DEFINE g == [n \in 0 .. (m + 1) |-> IF n = m + 1 THEN SiteAddLabel(e[n - 1], row, routes[n]) ELSE e[n]]
  <2>2. m \in Nat /\ m + 1 \in 0 .. Len(routes)
    BY <1>2
  <2>3. g[0] = hosts
    BY <2>1, <2>2 DEF SiteLabelRun
  <2>4. ASSUME NEW n \in 1 .. (m + 1)
        PROVE  g[n] = SiteAddLabel(g[n - 1], row, routes[n])
    <3>1. n \in 0 .. (m + 1) /\ n - 1 \in 0 .. (m + 1) /\ n - 1 # m + 1
      BY <2>2
    <3>2. g[n - 1] = e[n - 1]
      BY <3>1
    <3>3. CASE n = m + 1
      <4>1. g[n] = SiteAddLabel(e[n - 1], row, routes[n])
        BY <3>1, <3>3
      <4> HIDE DEF g
      <4> QED  BY <3>2, <4>1
    <3>4. CASE n # m + 1
      <4>1. n \in 1 .. m
        BY <2>2, <3>4
      <4>2. g[n] = e[n]
        BY <3>1, <3>4
      <4> HIDE DEF g
      <4> QED  BY <2>1, <3>2, <4>1, <4>2 DEF SiteLabelRun
    <3> QED  BY <3>3, <3>4
  <2>5. SiteLabelRun(g, hosts, row, routes, m + 1)
    <3> HIDE DEF g
    <3> QED  BY <2>3, <2>4 DEF SiteLabelRun
  <2> QED  BY <2>2, <2>5
<1>3. Len(routes) \in S
  <2> HIDE DEF S
  <2>1. SiteInductive(S, Len(routes))
    BY <1>1, <1>2 DEF SiteInductive
  <2> QED  BY <2>1, SiteInduct
<1>4. PICK e : SiteLabelRun(e, hosts, row, routes, Len(routes))
  BY <1>3
<1> DEFINE g == [n \in 0 .. Len(routes) |-> e[n]]
<1>5. SiteLabelEqn(g, hosts, row, routes)
  <2>1. ASSUME NEW n \in 0 .. Len(routes)
        PROVE  e[n] = IF n = 0 THEN hosts ELSE SiteAddLabel(g[n - 1], row, routes[n])
    <3>1. n = 0 \/ (n \in 1 .. Len(routes) /\ n - 1 \in 0 .. Len(routes))
      OBVIOUS
    <3>2. n # 0 => g[n - 1] = e[n - 1]
      BY <3>1
    <3> HIDE DEF g
    <3> QED  BY <1>4, <3>1, <3>2 DEF SiteLabelRun
  <2>2. g = [n \in 0 .. Len(routes) |-> IF n = 0 THEN hosts ELSE SiteAddLabel(g[n - 1], row, routes[n])]
    BY <2>1
  <2> HIDE DEF g
  <2> QED  BY <2>2 DEF SiteLabelEqn
<1>6. SiteLabelEqn(f, hosts, row, routes)
  BY <1>5
<1>7. SiteAddLabels(hosts, row, routes) = f[Len(routes)]
  BY DEF SiteAddLabels, SiteLabelEqn
<1> HIDE DEF f
<1>8. SiteLabelRun(f, hosts, row, routes, Len(routes))
  <2>1. f[0] = hosts
    BY <1>6 DEF SiteLabelEqn
  <2>2. ASSUME NEW n \in 1 .. Len(routes) PROVE f[n] = SiteAddLabel(f[n - 1], row, routes[n])
    <3>1. n \in 0 .. Len(routes) /\ n # 0
      OBVIOUS
    <3> QED  BY <1>6, <3>1 DEF SiteLabelEqn
  <2> QED  BY <2>1, <2>2 DEF SiteLabelRun
<1> QED  BY <1>7, <1>8

SiteHostsRun(f, rows, m) ==
  f[0] = <<>> /\ \A n \in 1 .. m : f[n] = SiteAddRow(f[n - 1], rows[n])

SiteHostsEqn(f, rows) ==
  f = [n \in 0 .. Len(rows) |-> IF n = 0 THEN <<>> ELSE SiteAddRow(f[n - 1], rows[n])]

LEMMA SiteHostsSteps ==
    ASSUME NEW rows, Len(rows) \in Nat
    PROVE  \E f : SiteHostsRun(f, rows, Len(rows)) /\ SiteHosts(rows) = f[Len(rows)]
<1> DEFINE S == {m \in 0 .. Len(rows) : \E f : SiteHostsRun(f, rows, m)}
           f == CHOOSE f : SiteHostsEqn(f, rows)
<1>1. 0 \in S
  <2>1. SiteHostsRun([x \in {0} |-> <<>>], rows, 0)
    BY DEF SiteHostsRun
  <2> QED  BY <2>1
<1>2. ASSUME NEW m \in 0 .. Len(rows), m \in S, m < Len(rows)
      PROVE  m + 1 \in S
  <2>1. PICK e : SiteHostsRun(e, rows, m)
    BY <1>2
  <2> DEFINE g == [n \in 0 .. (m + 1) |-> IF n = m + 1 THEN SiteAddRow(e[n - 1], rows[n]) ELSE e[n]]
  <2>2. m \in Nat /\ m + 1 \in 0 .. Len(rows)
    BY <1>2
  <2>3. g[0] = <<>>
    BY <2>1, <2>2 DEF SiteHostsRun
  <2>4. ASSUME NEW n \in 1 .. (m + 1)
        PROVE  g[n] = SiteAddRow(g[n - 1], rows[n])
    <3>1. n \in 0 .. (m + 1) /\ n - 1 \in 0 .. (m + 1) /\ n - 1 # m + 1
      BY <2>2
    <3>2. g[n - 1] = e[n - 1]
      BY <3>1
    <3>3. CASE n = m + 1
      <4>1. g[n] = SiteAddRow(e[n - 1], rows[n])
        BY <3>1, <3>3
      <4> HIDE DEF g
      <4> QED  BY <3>2, <4>1
    <3>4. CASE n # m + 1
      <4>1. n \in 1 .. m
        BY <2>2, <3>4
      <4>2. g[n] = e[n]
        BY <3>1, <3>4
      <4> HIDE DEF g
      <4> QED  BY <2>1, <3>2, <4>1, <4>2 DEF SiteHostsRun
    <3> QED  BY <3>3, <3>4
  <2>5. SiteHostsRun(g, rows, m + 1)
    <3> HIDE DEF g
    <3> QED  BY <2>3, <2>4 DEF SiteHostsRun
  <2> QED  BY <2>2, <2>5
<1>3. Len(rows) \in S
  <2> HIDE DEF S
  <2>1. SiteInductive(S, Len(rows))
    BY <1>1, <1>2 DEF SiteInductive
  <2> QED  BY <2>1, SiteInduct
<1>4. PICK e : SiteHostsRun(e, rows, Len(rows))
  BY <1>3
<1> DEFINE g == [n \in 0 .. Len(rows) |-> e[n]]
<1>5. SiteHostsEqn(g, rows)
  <2>1. ASSUME NEW n \in 0 .. Len(rows)
        PROVE  e[n] = IF n = 0 THEN <<>> ELSE SiteAddRow(g[n - 1], rows[n])
    <3>1. n = 0 \/ (n \in 1 .. Len(rows) /\ n - 1 \in 0 .. Len(rows))
      OBVIOUS
    <3>2. n # 0 => g[n - 1] = e[n - 1]
      BY <3>1
    <3> HIDE DEF g
    <3> QED  BY <1>4, <3>1, <3>2 DEF SiteHostsRun
  <2>2. g = [n \in 0 .. Len(rows) |-> IF n = 0 THEN <<>> ELSE SiteAddRow(g[n - 1], rows[n])]
    BY <2>1
  <2> HIDE DEF g
  <2> QED  BY <2>2 DEF SiteHostsEqn
<1>6. SiteHostsEqn(f, rows)
  BY <1>5
<1>7. SiteHosts(rows) = f[Len(rows)]
  BY DEF SiteHosts, SiteHostsEqn
<1> HIDE DEF f
<1>8. SiteHostsRun(f, rows, Len(rows))
  <2>1. f[0] = <<>>
    BY <1>6 DEF SiteHostsEqn
  <2>2. ASSUME NEW n \in 1 .. Len(rows) PROVE f[n] = SiteAddRow(f[n - 1], rows[n])
    <3>1. n \in 0 .. Len(rows) /\ n # 0
      OBVIOUS
    <3> QED  BY <1>6, <3>1 DEF SiteHostsEqn
  <2> QED  BY <2>1, <2>2 DEF SiteHostsRun
<1> QED  BY <1>7, <1>8

(* The elements of a sequence that grows. *)
LEMMA SiteInAppend ==
    ASSUME NEW X, NEW s \in Seq(X), NEW x \in X
    PROVE  Append(s, x) \in Seq(X) /\ SiteIn(Append(s, x)) = SiteIn(s) \cup {x}
<1>1. Append(s, x) \in Seq(X) /\ DOMAIN Append(s, x) = DOMAIN s \cup {Len(s) + 1}
  OBVIOUS
<1>2. Append(s, x)[Len(s) + 1] = x /\ \A k \in DOMAIN s : Append(s, x)[k] = s[k]
  OBVIOUS
<1>3. ASSUME NEW y \in SiteIn(Append(s, x))
      PROVE  y \in SiteIn(s) \cup {x}
  <2>1. PICK k \in DOMAIN Append(s, x) : y = Append(s, x)[k]
    BY DEF SiteIn
  <2> QED  BY <1>1, <1>2, <2>1 DEF SiteIn
<1>4. ASSUME NEW y \in SiteIn(s) \cup {x}
      PROVE  y \in SiteIn(Append(s, x))
  <2>1. \E k \in DOMAIN Append(s, x) : y = Append(s, x)[k]
    <3>1. CASE y = x
      BY <1>1, <1>2, <3>1
    <3>2. CASE y # x
      <4>1. PICK k \in DOMAIN s : y = s[k]
        BY <3>2 DEF SiteIn
      <4> QED  BY <1>1, <1>2, <4>1
    <3> QED  BY <3>1, <3>2
  <2> QED  BY <2>1 DEF SiteIn
<1> QED  BY <1>1, <1>3, <1>4

LEMMA SiteInConcat ==
    ASSUME NEW X, NEW s \in Seq(X), NEW t \in Seq(X)
    PROVE  s \o t \in Seq(X) /\ SiteIn(s \o t) = SiteIn(s) \cup SiteIn(t)
<1>1. s \o t \in Seq(X) /\ Len(s \o t) = Len(s) + Len(t)
  OBVIOUS
<1>2. \A k \in 1 .. Len(s) : (s \o t)[k] = s[k]
  OBVIOUS
<1>3. \A k \in 1 .. Len(t) : (s \o t)[Len(s) + k] = t[k]
  OBVIOUS
<1>4. Len(s) \in Nat /\ Len(t) \in Nat /\ DOMAIN s = 1 .. Len(s) /\ DOMAIN t = 1 .. Len(t)
      /\ DOMAIN (s \o t) = 1 .. Len(s \o t)
  BY <1>1
<1>5. ASSUME NEW y \in SiteIn(s \o t)
      PROVE  y \in SiteIn(s) \cup SiteIn(t)
  <2>1. PICK k \in 1 .. Len(s \o t) : y = (s \o t)[k]
    BY <1>4 DEF SiteIn
  <2>2. CASE k <= Len(s)
    <3>1. k \in DOMAIN s /\ y = s[k]
      BY <1>2, <1>4, <2>1, <2>2
    <3> QED  BY <3>1 DEF SiteIn
  <2>3. CASE k > Len(s)
    <3>1. k - Len(s) \in 1 .. Len(t) /\ Len(s) + (k - Len(s)) = k
      BY <1>1, <1>4, <2>3
    <3>2. k - Len(s) \in DOMAIN t /\ y = t[k - Len(s)]
      BY <1>3, <1>4, <2>1, <3>1
    <3> QED  BY <3>2 DEF SiteIn
  <2> QED  BY <1>4, <2>2, <2>3
<1>6. ASSUME NEW y \in SiteIn(s)
      PROVE  y \in SiteIn(s \o t)
  <2>1. PICK k \in DOMAIN s : y = s[k]
    BY DEF SiteIn
  <2>2. k \in DOMAIN (s \o t) /\ y = (s \o t)[k]
    BY <1>1, <1>2, <1>4, <2>1
  <2> QED  BY <2>2 DEF SiteIn
<1>7. ASSUME NEW y \in SiteIn(t)
      PROVE  y \in SiteIn(s \o t)
  <2>1. PICK k \in DOMAIN t : y = t[k]
    BY DEF SiteIn
  <2>2. Len(s) + k \in DOMAIN (s \o t) /\ y = (s \o t)[Len(s) + k]
    BY <1>1, <1>3, <1>4, <2>1
  <2> QED  BY <2>2 DEF SiteIn
<1> QED  BY <1>1, <1>5, <1>6, <1>7

(* What SiteKept leaves of a sequence. *)
LEMMA SiteKeptIn ==
    ASSUME NEW X, NEW s \in Seq(X), NEW keep
    PROVE  SiteKept(s, keep) \in Seq(X) /\ SiteIn(SiteKept(s, keep)) = SiteIn(s) \cap keep
<1>1. Len(s) \in Nat /\ DOMAIN s = 1 .. Len(s)
  OBVIOUS
<1>2. PICK k : SiteKeptRun(k, s, keep, Len(s)) /\ SiteKept(s, keep) = k[Len(s)]
  BY <1>1, SiteKeptSteps
<1> DEFINE Upto(n) == {s[j] : j \in 1 .. n}
           S == {n \in 0 .. Len(s) : k[n] \in Seq(X) /\ SiteIn(k[n]) = Upto(n) \cap keep}
<1>3. 0 \in S
  <2>1. k[0] = <<>>
    BY <1>2 DEF SiteKeptRun
  <2>2. SiteIn(<<>>) = {} /\ Upto(0) = {} /\ <<>> \in Seq(X)
    BY DEF SiteIn
  <2> HIDE DEF Upto
  <2>3. k[0] \in Seq(X) /\ SiteIn(k[0]) = Upto(0) \cap keep
    <3>1. SiteIn(k[0]) = {} /\ k[0] \in Seq(X)
      BY <2>1, <2>2
    <3> QED  BY <2>2, <3>1
  <2>4. 0 \in 0 .. Len(s)
    BY <1>1
  <2> QED  BY <2>3, <2>4
<1>4. ASSUME NEW n \in 0 .. Len(s), n \in S, n < Len(s)
      PROVE  n + 1 \in S
  <2>1. n + 1 \in 1 .. Len(s) /\ (n + 1) - 1 = n /\ n + 1 \in 0 .. Len(s)
    BY <1>1, <1>4
  <2>2. k[n + 1] = IF s[n + 1] \in keep THEN Append(k[n], s[n + 1]) ELSE k[n]
    BY <1>2, <2>1 DEF SiteKeptRun
  <2>3. Upto(n + 1) = Upto(n) \cup {s[n + 1]}
    <3>1. 1 .. (n + 1) = (1 .. n) \cup {n + 1}
      BY <1>4
    <3> QED  BY <3>1
  <2>4. s[n + 1] \in X /\ k[n] \in Seq(X) /\ SiteIn(k[n]) = Upto(n) \cap keep
    BY <1>4, <2>1
  <2> HIDE DEF Upto
  <2>5. Append(k[n], s[n + 1]) \in Seq(X) /\ SiteIn(Append(k[n], s[n + 1])) = SiteIn(k[n]) \cup {s[n + 1]}
    BY <2>4, SiteInAppend
  <2>6. k[n + 1] \in Seq(X) /\ SiteIn(k[n + 1]) = Upto(n + 1) \cap keep
    <3>1. CASE s[n + 1] \in keep
      <4>1. k[n + 1] = Append(k[n], s[n + 1])
        BY <2>2, <3>1
      <4> QED  BY <2>3, <2>4, <2>5, <3>1, <4>1
    <3>2. CASE s[n + 1] \notin keep
      BY <2>2, <2>3, <2>4, <3>2
    <3> QED  BY <3>1, <3>2
  <2> QED  BY <2>1, <2>6
<1>5. Len(s) \in S
  <2> HIDE DEF S
  <2>1. SiteInductive(S, Len(s))
    BY <1>3, <1>4 DEF SiteInductive
  <2> QED  BY <1>1, <2>1, SiteInduct
<1>6. Upto(Len(s)) = SiteIn(s)
  BY <1>1 DEF SiteIn
<1> QED  BY <1>2, <1>5, <1>6

(* What the hosts are made of, from the set of the rows alone. *)
SiteExact(h, R) == \E row \in R : row.name = h

SiteOn(h, R) == {r \in UNION {SiteLive(row) : row \in R} :
                   \E row \in R : r \in SiteLive(row) /\ SiteHostOf(row, r) = {h}}

SiteNamed(h, R) ==
  \/ SiteExact(h, R) \/ SiteOn(h, R) # {}
  \/ \E row \in R : row.name = "*" /\ (h = "sitey-dns-check" \/ (h = "sitey" /\ row.panel))

SiteEmail(h, R) == IF SiteExact(h, R) THEN h ELSE "*"

SitePending(n, R) == \E row \in R : row.name = n /\ ~row.active

SiteEntryIs(e, h, T, R) ==
  /\ e.routes \in Seq(SiteRouteType) /\ SiteIn(e.routes) = T
  /\ e.exact = SiteExact(h, R)
  /\ e.email = SiteEmail(h, R)
  /\ e.fallback = SitePending(SiteEmail(h, R), R)
  /\ e.probe = (h = "sitey-dns-check" /\ ~SiteExact(h, R) /\ T = {})

SiteHostsAre(hosts, R) ==
  /\ DOMAIN hosts = {h \in SiteLabels : SiteNamed(h, R)}
  /\ \A h \in DOMAIN hosts : SiteEntryIs(hosts[h], h, SiteOn(h, R), R)

SiteDistinct(R) == \A a, b \in R : a.name = b.name => a = b

(* What add() leaves under the host and elsewhere. *)
SiteMet(e, cur, row, routes, probe) ==
  /\ e.routes = cur.routes \o routes
  /\ e.email = (IF row.name # "*" THEN row.name ELSE cur.email)
  /\ e.fallback = (IF row.name # "*" THEN ~row.active ELSE cur.fallback)
  /\ e.exact = (cur.exact \/ row.name # "*")
  /\ e.probe = (cur.probe /\ row.name = "*" /\ routes = <<>>)

SiteNew(e, row, routes, probe) ==
  /\ e.routes = routes /\ e.email = row.name
  /\ e.fallback = ~row.active /\ e.exact = (row.name # "*") /\ e.probe = probe

SiteAddIs(m, hosts, row, host, routes, probe) ==
  /\ DOMAIN m = DOMAIN hosts \cup {host}
  /\ \A h \in DOMAIN hosts : h # host => m[h] = hosts[h]
  /\ host \in DOMAIN hosts => SiteMet(m[host], hosts[host], row, routes, probe)
  /\ host \notin DOMAIN hosts => SiteNew(m[host], row, routes, probe)

LEMMA SiteAddAt ==
    ASSUME NEW hosts, NEW row, NEW host, NEW routes, NEW probe
    PROVE  SiteAddIs(SiteAdd(hosts, row, host, routes, probe), hosts, row, host, routes, probe)
<1> DEFINE exact == row.name # "*"
           cur == hosts[host]
           new == [routes |-> routes, email |-> row.name, fallback |-> ~row.active,
                   exact |-> exact, probe |-> probe]
           met == [routes |-> cur.routes \o routes,
                   email |-> IF exact THEN row.name ELSE cur.email,
                   fallback |-> IF exact THEN ~row.active ELSE cur.fallback,
                   exact |-> cur.exact \/ exact,
                   probe |-> cur.probe /\ ~exact /\ routes = <<>>]
           m == SiteAdd(hosts, row, host, routes, probe)
<1>1. m = [h \in DOMAIN hosts \cup {host} |->
             IF h # host THEN hosts[h] ELSE IF host \in DOMAIN hosts THEN met ELSE new]
  BY DEF SiteAdd
<1>2. SiteMet(met, cur, row, routes, probe)
  BY DEF SiteMet
<1>3. SiteNew(new, row, routes, probe)
  BY DEF SiteNew
<1> HIDE DEF met, new, m
<1>4. DOMAIN m = DOMAIN hosts \cup {host} /\ \A h \in DOMAIN hosts : h # host => m[h] = hosts[h]
  BY <1>1
<1>5. m[host] = IF host \in DOMAIN hosts THEN met ELSE new
  BY <1>1
<1> QED  BY <1>2, <1>3, <1>4, <1>5 DEF SiteAddIs, m

(* An exact row adds its routes under its name. *)
LEMMA SiteExactEntry ==
    ASSUME NEW R, R \subseteq SiteRowType, NEW row \in SiteRowType, row.name # "*", row.name \in SiteLabels,
           SiteDistinct(R \cup {row}), row \notin R,
           NEW e, NEW act \in Seq(SiteRouteType), NEW T, NEW cur,
           \/ SiteMet(e, cur, row, act, FALSE) /\ SiteEntryIs(cur, row.name, T, R)
           \/ SiteNew(e, row, act, FALSE) /\ T = {}
    PROVE  SiteEntryIs(e, row.name, T \cup SiteIn(act), R \cup {row})
<1>1. SiteExact(row.name, R \cup {row}) /\ SiteEmail(row.name, R \cup {row}) = row.name
  BY DEF SiteExact, SiteEmail
<1>2. SitePending(row.name, R \cup {row}) = ~row.active
  <2>1. SitePending(row.name, R \cup {row}) <=> ~row.active
    BY DEF SitePending, SiteDistinct
  <2> QED  BY <2>1 DEF SitePending, SiteRowType
<1>3. e.routes \in Seq(SiteRouteType) /\ SiteIn(e.routes) = T \cup SiteIn(act)
  <2>1. CASE SiteMet(e, cur, row, act, FALSE) /\ SiteEntryIs(cur, row.name, T, R)
    <3>1. cur.routes \in Seq(SiteRouteType) /\ SiteIn(cur.routes) = T /\ e.routes = cur.routes \o act
      BY <2>1 DEF SiteMet, SiteEntryIs
    <3> QED  BY <3>1, SiteInConcat
  <2>2. CASE SiteNew(e, row, act, FALSE) /\ T = {}
    BY <2>2 DEF SiteNew
  <2> QED  BY <2>1, <2>2
<1>4. e.exact /\ e.email = row.name /\ e.fallback = ~row.active /\ e.probe = FALSE /\ e.exact = TRUE
  <2>1. CASE SiteMet(e, cur, row, act, FALSE)
    BY <2>1 DEF SiteMet
  <2>2. CASE SiteNew(e, row, act, FALSE)
    BY <2>2 DEF SiteNew
  <2> QED  BY <2>1, <2>2
<1>5. e.exact = SiteExact(row.name, R \cup {row})
  BY <1>1, <1>4 DEF SiteExact
<1>6. e.probe = (row.name = "sitey-dns-check" /\ ~SiteExact(row.name, R \cup {row}) /\ (T \cup SiteIn(act)) = {})
  BY <1>1, <1>4
<1>7. e.email = SiteEmail(row.name, R \cup {row}) /\ e.fallback = SitePending(SiteEmail(row.name, R \cup {row}), R \cup {row})
  BY <1>1, <1>2, <1>4
<1> QED  BY <1>3, <1>5, <1>6, <1>7 DEF SiteEntryIs

LEMMA SiteActiveIn ==
    ASSUME NEW row \in SiteRowType
    PROVE  /\ SiteActive(row) \in Seq(SiteRouteType) /\ SiteIn(SiteActive(row)) = SiteLive(row)
           /\ SiteLive(row) \subseteq SiteRouteType
<1>1. row.routes \in Seq(SiteRouteType)
  BY DEF SiteRowType
<1>2. SiteIn(row.routes) \subseteq SiteRouteType
  BY <1>1 DEF SiteIn
<1>3. SiteLive(row) \subseteq SiteIn(row.routes)
  BY DEF SiteLive
<1>4. /\ SiteKept(row.routes, SiteLive(row)) \in Seq(SiteRouteType)
      /\ SiteIn(SiteKept(row.routes, SiteLive(row))) = SiteIn(row.routes) \cap SiteLive(row)
  BY <1>1, SiteKeptIn
<1> QED  BY <1>2, <1>3, <1>4 DEF SiteActive

LEMMA SiteOnAdded ==
    ASSUME NEW R, NEW row, NEW h
    PROVE  SiteOn(h, R \cup {row})
             = SiteOn(h, R) \cup {r \in SiteLive(row) : SiteHostOf(row, r) = {h}}
BY DEF SiteOn

(* An exact row keeps the hosts what the rows make them. *)
LEMMA SiteExactRow ==
    ASSUME NEW R, R \subseteq SiteRowType, NEW row \in SiteRowType, row.name # "*",
           SiteDistinct(R \cup {row}), row \notin R, NEW hosts, SiteHostsAre(hosts, R)
    PROVE  SiteHostsAre(SiteAddRow(hosts, row), R \cup {row})
<1> DEFINE act == SiteActive(row)
           Q == R \cup {row}
<1>1. act \in Seq(SiteRouteType) /\ SiteIn(act) = SiteLive(row)
  BY SiteActiveIn
<1>2. row.name \in SiteLabels /\ "*" \notin SiteLabels
  BY SiteAssumption DEF SiteRowType
<1> HIDE DEF act, Q
<1>3. PICK m : m = SiteAddRow(hosts, row)
  OBVIOUS
<1>4. m = SiteAdd(hosts, row, row.name, act, FALSE)
  BY <1>3 DEF SiteAddRow, act
<1>5. /\ DOMAIN m = DOMAIN hosts \cup {row.name}
      /\ \A h \in DOMAIN hosts : h # row.name => m[h] = hosts[h]
      /\ row.name \in DOMAIN hosts => SiteMet(m[row.name], hosts[row.name], row, act, FALSE)
      /\ row.name \notin DOMAIN hosts => SiteNew(m[row.name], row, act, FALSE)
  <2>1. SiteAddIs(m, hosts, row, row.name, act, FALSE)
    BY <1>4, SiteAddAt
  <2> QED  BY <2>1 DEF SiteAddIs
<1>6. \A h : SiteOn(h, Q) = SiteOn(h, R) \cup (IF h = row.name THEN SiteLive(row) ELSE {})
  <2>1. \A r : SiteHostOf(row, r) = {row.name}
    BY DEF SiteHostOf
  <2> QED  BY <2>1, SiteOnAdded DEF Q
<1>7. \A h : SiteExact(h, Q) <=> SiteExact(h, R) \/ h = row.name
  BY DEF SiteExact, Q
<1>8. \A h : SiteNamed(h, Q) <=> SiteNamed(h, R) \/ h = row.name
  <2>1. \A h : (\E o \in Q : o.name = "*" /\ (h = "sitey-dns-check" \/ (h = "sitey" /\ o.panel)))
                 <=> (\E o \in R : o.name = "*" /\ (h = "sitey-dns-check" \/ (h = "sitey" /\ o.panel)))
    BY DEF Q
  <2> QED  BY <1>6, <1>7, <2>1 DEF SiteNamed
<1>9. DOMAIN m = {h \in SiteLabels : SiteNamed(h, Q)}
  BY <1>2, <1>5, <1>8 DEF SiteHostsAre
<1>10. ASSUME NEW h \in DOMAIN m
       PROVE  SiteEntryIs(m[h], h, SiteOn(h, Q), Q)
  <2>1. CASE h # row.name
    <3>1. h \in DOMAIN hosts /\ m[h] = hosts[h] /\ SiteOn(h, Q) = SiteOn(h, R)
      BY <1>5, <1>6, <2>1
    <3>2. SiteEntryIs(hosts[h], h, SiteOn(h, R), R)
      BY <3>1 DEF SiteHostsAre
    <3>3. (SiteExact(h, Q) <=> SiteExact(h, R)) /\ SiteEmail(h, Q) = SiteEmail(h, R)
      BY <1>7, <2>1 DEF SiteEmail
    <3>4. SiteEmail(h, R) # row.name
      BY <2>1 DEF SiteEmail
    <3>5. SitePending(SiteEmail(h, R), Q) <=> SitePending(SiteEmail(h, R), R)
      BY <3>4 DEF SitePending, Q
    <3>6. SiteExact(h, Q) = SiteExact(h, R) /\ SitePending(SiteEmail(h, Q), Q) = SitePending(SiteEmail(h, R), R)
      BY <3>3, <3>5 DEF SiteExact, SitePending
    <3> QED  BY <3>1, <3>2, <3>3, <3>6 DEF SiteEntryIs
  <2>2. CASE h = row.name
    <3>1. SiteOn(h, Q) = SiteOn(h, R) \cup SiteIn(act)
      BY <1>1, <1>6, <2>2
    <3>2. CASE h \in DOMAIN hosts
      <4>1. SiteMet(m[h], hosts[h], row, act, FALSE) /\ SiteEntryIs(hosts[h], row.name, SiteOn(h, R), R)
        BY <1>5, <2>2, <3>2 DEF SiteHostsAre
      <4>2. SiteEntryIs(m[h], row.name, SiteOn(h, R) \cup SiteIn(act), R \cup {row})
        BY <1>1, <1>2, <4>1, SiteExactEntry
      <4> QED  BY <2>2, <3>1, <4>2 DEF Q
    <3>3. CASE h \notin DOMAIN hosts
      <4>1. SiteNew(m[h], row, act, FALSE)
        BY <1>5, <2>2, <3>3
      <4>2. SiteOn(h, R) = {}
        BY <1>2, <2>2, <3>3 DEF SiteHostsAre, SiteNamed
      <4>3. SiteEntryIs(m[h], row.name, {} \cup SiteIn(act), R \cup {row})
        BY <1>1, <1>2, <4>1, SiteExactEntry
      <4> QED  BY <2>2, <3>1, <4>2, <4>3 DEF Q
    <3> QED  BY <3>2, <3>3
  <2> QED  BY <2>1, <2>2
<1>11. SiteHostsAre(m, Q)
  BY <1>9, <1>10 DEF SiteHostsAre
<1> QED  BY <1>3, <1>11 DEF Q

(* A host a wildcard row makes: its email and certificate are the wildcard's. *)
LEMMA SiteWildNew ==
    ASSUME NEW Q, NEW row \in Q, row.name = "*", Q \subseteq SiteRowType, SiteDistinct(Q),
           NEW h, ~SiteExact(h, Q), NEW e, NEW routes \in Seq(SiteRouteType), NEW probe,
           SiteNew(e, row, routes, probe), probe = (h = "sitey-dns-check" /\ SiteIn(routes) = {})
    PROVE  SiteEntryIs(e, h, SiteIn(routes), Q)
<1>1. SiteExact(h, Q) = FALSE /\ SiteEmail(h, Q) = "*"
  BY DEF SiteExact, SiteEmail
<1>2. SitePending("*", Q) = ~row.active
  <2>1. SitePending("*", Q) <=> ~row.active
    BY DEF SitePending, SiteDistinct
  <2> QED  BY <2>1 DEF SitePending
<1>3. e.routes = routes /\ e.email = "*" /\ e.fallback = ~row.active /\ e.exact = FALSE /\ e.probe = probe
  BY DEF SiteNew
<1> QED  BY <1>1, <1>2, <1>3 DEF SiteEntryIs

(* A wildcard row's route joins a host that is there. *)
LEMMA SiteWildMet ==
    ASSUME NEW Q, NEW row \in Q, row.name = "*",
           NEW h, NEW T, NEW e, NEW cur, NEW r \in SiteRouteType,
           SiteMet(e, cur, row, <<r>>, FALSE), SiteEntryIs(cur, h, T, Q)
    PROVE  SiteEntryIs(e, h, T \cup {r}, Q)
<1>1. <<r>> \in Seq(SiteRouteType) /\ SiteIn(<<r>>) = {r} /\ <<r>> # <<>>
  BY DEF SiteIn
<1>2. /\ e.routes = cur.routes \o <<r>> /\ e.email = cur.email /\ e.fallback = cur.fallback
      /\ e.exact = (cur.exact \/ FALSE) /\ e.probe = FALSE
  BY <1>1 DEF SiteMet
<1>3. cur.routes \in Seq(SiteRouteType) /\ SiteIn(cur.routes) = T
  BY DEF SiteEntryIs
<1>4. e.routes \in Seq(SiteRouteType) /\ SiteIn(e.routes) = T \cup {r}
  <2>1. PICK s \in Seq(SiteRouteType) : s = <<r>> /\ SiteIn(s) = {r}
    BY <1>1
  <2>2. cur.routes \o s \in Seq(SiteRouteType) /\ SiteIn(cur.routes \o s) = SiteIn(cur.routes) \cup SiteIn(s)
    BY <1>3, SiteInConcat
  <2>3. e.routes = cur.routes \o s
    BY <1>2, <2>1
  <2> QED  BY <1>3, <2>1, <2>2, <2>3
<1>5. e.exact = SiteExact(h, Q)
  <2>1. cur.exact = SiteExact(h, Q)
    BY DEF SiteEntryIs
  <2>2. SiteExact(h, Q) \in BOOLEAN
    BY DEF SiteExact
  <2> QED  BY <1>2, <2>1, <2>2
<1>6. e.email = SiteEmail(h, Q) /\ e.fallback = SitePending(SiteEmail(h, Q), Q)
  BY <1>2 DEF SiteEntryIs
<1>7. e.probe = (h = "sitey-dns-check" /\ ~SiteExact(h, Q) /\ (T \cup {r}) = {})
  BY <1>2
<1> QED  BY <1>4, <1>5, <1>6, <1>7 DEF SiteEntryIs

(* The routes of a host among the first n. *)
SiteAmong(row, act, n, h) == {act[k] : k \in {j \in 1 .. n : SiteHostOf(row, act[j]) = {h}}}

SiteLabelled(hosts, D, On, row, act, n, Q) ==
  /\ DOMAIN hosts = D \cup {h \in SiteLabels : SiteAmong(row, act, n, h) # {}}
  /\ \A h \in DOMAIN hosts : SiteEntryIs(hosts[h], h, On[h] \cup SiteAmong(row, act, n, h), Q)

LEMMA SiteLabelStep ==
    ASSUME NEW Q, NEW row \in Q, row.name = "*", Q \subseteq SiteRowType, SiteDistinct(Q),
           NEW D \in SUBSET SiteLabels, NEW On, \A h \in SiteLabels \ D : On[h] = {} /\ ~SiteExact(h, Q),
           NEW act \in Seq(SiteRouteType), NEW n \in Nat, n < Len(act),
           NEW hosts, SiteLabelled(hosts, D, On, row, act, n, Q)
    PROVE  SiteLabelled(SiteAddLabel(hosts, row, act[n + 1]), D, On, row, act, n + 1, Q)
<1> DEFINE r == act[n + 1]
           m == SiteAddLabel(hosts, row, r)
           A(h) == SiteAmong(row, act, n, h)
           B(h) == SiteAmong(row, act, n + 1, h)
<1>1. r \in SiteRouteType /\ r.label \in SiteLabels
  <2>1. r \in SiteRouteType
    <3>1. Len(act) \in Nat /\ DOMAIN act = 1 .. Len(act) /\ n + 1 \in 1 .. Len(act)
      OBVIOUS
    <3> QED  BY <3>1
  <2> HIDE DEF r
  <2> QED  BY <2>1 DEF SiteRouteType
<1>2. \A h : B(h) = A(h) \cup (IF SiteHostOf(row, r) = {h} THEN {r} ELSE {})
  <2>1. 1 .. (n + 1) = (1 .. n) \cup {n + 1}
    OBVIOUS
  <2> QED  BY <2>1 DEF SiteAmong
<1>3. SiteHostOf(row, r) = (IF r.label = SiteBase THEN {} ELSE {r.label})
  BY DEF SiteHostOf
<1> HIDE DEF r, m, A, B
<1>4. DOMAIN hosts = D \cup {h \in SiteLabels : A(h) # {}}
  BY DEF SiteLabelled, A
<1>5. \A h \in DOMAIN hosts : SiteEntryIs(hosts[h], h, On[h] \cup A(h), Q)
  BY DEF SiteLabelled, A
<1>6. CASE SiteHostOf(row, r) = {}
  <2>1. m = hosts
    BY <1>6 DEF SiteAddLabel, m
  <2>2. \A h : B(h) = A(h)
    BY <1>2, <1>6
  <2> QED  BY <1>4, <1>5, <2>1, <2>2 DEF SiteLabelled, m, r, A, B
<1>7. CASE SiteHostOf(row, r) # {}
  <2> DEFINE l == r.label
  <2>1. SiteHostOf(row, r) = {l} /\ l \in SiteLabels
    BY <1>1, <1>3, <1>7
  <2> HIDE DEF l
  <2>2. m = SiteAdd(hosts, row, l, <<r>>, FALSE)
    BY <1>7 DEF SiteAddLabel, m, l
  <2>3. SiteAddIs(m, hosts, row, l, <<r>>, FALSE)
    BY <2>2, SiteAddAt
  <2>4. /\ DOMAIN m = DOMAIN hosts \cup {l}
        /\ \A h \in DOMAIN hosts : h # l => m[h] = hosts[h]
        /\ l \in DOMAIN hosts => SiteMet(m[l], hosts[l], row, <<r>>, FALSE)
        /\ l \notin DOMAIN hosts => SiteNew(m[l], row, <<r>>, FALSE)
    BY <2>3 DEF SiteAddIs
  <2>5. \A h : B(h) = A(h) \cup (IF h = l THEN {r} ELSE {})
    BY <1>2, <2>1
  <2>6. DOMAIN m = D \cup {h \in SiteLabels : B(h) # {}}
    BY <1>4, <2>1, <2>4, <2>5
  <2>7. ASSUME NEW h \in DOMAIN m
        PROVE  SiteEntryIs(m[h], h, On[h] \cup B(h), Q)
    <3>1. CASE h # l
      BY <1>5, <2>4, <2>5, <3>1
    <3>2. CASE h = l /\ l \in DOMAIN hosts
      <4>1. SiteMet(m[l], hosts[l], row, <<r>>, FALSE) /\ SiteEntryIs(hosts[l], l, On[l] \cup A(l), Q)
        BY <1>5, <2>4, <3>2
      <4>2. SiteEntryIs(m[l], l, (On[l] \cup A(l)) \cup {r}, Q)
        BY <1>1, <4>1, SiteWildMet
      <4>3. On[l] \cup B(l) = (On[l] \cup A(l)) \cup {r}
        BY <2>5
      <4> QED  BY <3>2, <4>2, <4>3
    <3>3. CASE h = l /\ l \notin DOMAIN hosts
      <4>1. A(l) = {} /\ On[l] = {} /\ ~SiteExact(l, Q)
        BY <1>4, <2>1, <3>3
      <4>2. <<r>> \in Seq(SiteRouteType) /\ SiteIn(<<r>>) = {r}
        BY <1>1 DEF SiteIn
      <4>3. FALSE = (l = "sitey-dns-check" /\ SiteIn(<<r>>) = {})
        BY <4>2
      <4>4. SiteNew(m[l], row, <<r>>, FALSE)
        BY <2>4, <3>3
      <4>5. SiteEntryIs(m[l], l, SiteIn(<<r>>), Q)
        BY <4>1, <4>2, <4>3, <4>4, SiteWildNew
      <4> QED  BY <2>5, <3>3, <4>1, <4>2, <4>5
    <3> QED  BY <3>1, <3>2, <3>3
  <2> QED  BY <2>6, <2>7 DEF SiteLabelled, m, r, B
<1> QED  BY <1>6, <1>7

(* A wildcard row keeps the hosts what the rows make them. *)
LEMMA SiteWildRow ==
    ASSUME NEW R, R \subseteq SiteRowType, NEW row \in SiteRowType, row.name = "*",
           SiteDistinct(R \cup {row}), row \notin R, NEW hosts, SiteHostsAre(hosts, R)
    PROVE  SiteHostsAre(SiteAddRow(hosts, row), R \cup {row})
<1> DEFINE Q == R \cup {row}
           act == SiteActive(row)
           D == DOMAIN hosts
           On == [h \in SiteLabels |-> SiteOn(h, R)]
           m == SiteAddLabels(hosts, row, act)
           p == SiteAddIfNew(m, row, "sitey-dns-check", TRUE)
           t == SiteAddIfNew(p, row, "sitey", FALSE)
<1>1. /\ act \in Seq(SiteRouteType) /\ SiteIn(act) = SiteLive(row) /\ SiteLive(row) \subseteq SiteRouteType
      /\ Len(act) \in Nat /\ DOMAIN act = 1 .. Len(act)
  BY SiteActiveIn
<1>2. /\ row \in Q /\ Q \subseteq SiteRowType /\ SiteDistinct(Q)
      /\ "*" \notin SiteLabels /\ "sitey-dns-check" \in SiteLabels /\ "sitey" \in SiteLabels
      /\ \A o \in R : o.name # "*"
  BY SiteAssumption DEF SiteDistinct
<1>3. D = {h \in SiteLabels : SiteNamed(h, R)}
  BY DEF SiteHostsAre
<1>4. ASSUME NEW h \in SiteLabels
      PROVE  /\ On[h] = SiteOn(h, R) /\ (SiteExact(h, Q) <=> SiteExact(h, R))
             /\ SiteNamed(h, R) <=> SiteExact(h, R)
             /\ SiteOn(h, R) # {} => SiteExact(h, R)
  <2>1. SiteExact(h, Q) <=> SiteExact(h, R)
    BY <1>2 DEF SiteExact
  <2>2. SiteOn(h, R) # {} => SiteExact(h, R)
    BY <1>2 DEF SiteOn, SiteHostOf, SiteExact
  <2>3. SiteNamed(h, R) <=> SiteExact(h, R)
    BY <1>2, <2>2 DEF SiteNamed
  <2> QED  BY <2>1, <2>2, <2>3
<1>5. \A h \in SiteLabels \ D : On[h] = {} /\ ~SiteExact(h, Q) /\ SiteOn(h, R) = {}
  <2> HIDE DEF D, On, Q
  <2> QED  BY <1>3, <1>4
<1>6. ASSUME NEW h \in D
      PROVE  SiteEntryIs(hosts[h], h, SiteOn(h, R), Q)
  <2>1. SiteEntryIs(hosts[h], h, SiteOn(h, R), R) /\ h \in SiteLabels /\ SiteExact(h, R) /\ SiteExact(h, Q) /\ h # "*"
    BY <1>2, <1>3, <1>4 DEF SiteHostsAre
  <2>2. SiteExact(h, R) = SiteExact(h, Q) /\ SiteEmail(h, R) = h /\ SiteEmail(h, Q) = h
    BY <2>1 DEF SiteEmail, SiteExact
  <2>3. SitePending(h, R) <=> SitePending(h, Q)
    BY <1>2, <2>1 DEF SitePending
  <2>4. SitePending(h, R) = SitePending(h, Q)
    BY <2>3 DEF SitePending
  <2> HIDE DEF Q
  <2> QED  BY <2>1, <2>2, <2>4 DEF SiteEntryIs
<1>7. PICK f : SiteLabelRun(f, hosts, row, act, Len(act)) /\ m = f[Len(act)]
  BY <1>1, SiteLabelSteps
<1> DEFINE S == {n \in 0 .. Len(act) : SiteLabelled(f[n], D, On, row, act, n, Q)}
<1>8. 0 \in S
  <2>1. f[0] = hosts
    BY <1>7 DEF SiteLabelRun
  <2>2. \A h : SiteAmong(row, act, 0, h) = {}
    BY DEF SiteAmong
  <2>3. \A h \in D : On[h] = SiteOn(h, R)
    BY <1>3, <1>4
  <2>4. SiteLabelled(hosts, D, On, row, act, 0, Q)
    <3> HIDE DEF On, Q
    <3> QED  BY <1>6, <2>2, <2>3 DEF SiteLabelled
  <2> HIDE DEF On, Q, D, act
  <2> QED  BY <1>1, <2>1, <2>4
<1> HIDE DEF Q, act, On, m, p, t
<1>9. ASSUME NEW n \in 0 .. Len(act), n \in S, n < Len(act)
      PROVE  n + 1 \in S
  <2>1. n + 1 \in 1 .. Len(act) /\ (n + 1) - 1 = n /\ n + 1 \in 0 .. Len(act) /\ n \in Nat
    BY <1>1, <1>9
  <2>2. f[n + 1] = SiteAddLabel(f[n], row, act[n + 1])
    BY <1>7, <2>1 DEF SiteLabelRun
  <2>3. SiteLabelled(f[n], D, On, row, act, n, Q)
    BY <1>9
  <2>4. D \in SUBSET SiteLabels
    BY <1>3
  <2> HIDE DEF D
  <2>5. SiteLabelled(SiteAddLabel(f[n], row, act[n + 1]), D, On, row, act, n + 1, Q)
    BY <1>1, <1>2, <1>5, <1>9, <2>1, <2>3, <2>4, SiteLabelStep
  <2> QED  BY <2>1, <2>2, <2>5
<1>10. SiteLabelled(m, D, On, row, act, Len(act), Q)
  <2>1. Len(act) \in S
    <3> HIDE DEF S
    <3>1. SiteInductive(S, Len(act))
      BY <1>8, <1>9 DEF SiteInductive
    <3> QED  BY <1>1, <3>1, SiteInduct
  <2> QED  BY <1>7, <2>1
<1>11. \A h : SiteAmong(row, act, Len(act), h) = {r \in SiteLive(row) : SiteHostOf(row, r) = {h}}
  BY <1>1 DEF SiteAmong, SiteIn
<1>12. \A h \in SiteLabels : SiteOn(h, Q) = SiteOn(h, R) \cup SiteAmong(row, act, Len(act), h)
  BY <1>11, SiteOnAdded DEF Q
<1>13. DOMAIN m = {h \in SiteLabels : SiteExact(h, Q) \/ SiteOn(h, Q) # {}}
  <2>1. DOMAIN m = D \cup {h \in SiteLabels : SiteAmong(row, act, Len(act), h) # {}}
    BY <1>10 DEF SiteLabelled
  <2>2. \A h \in SiteLabels : h \in D <=> SiteExact(h, Q)
    BY <1>3, <1>4
  <2>3. \A h \in SiteLabels : SiteOn(h, R) # {} => SiteExact(h, Q)
    BY <1>4
  <2>4. D \subseteq SiteLabels
    BY <1>3
  <2> HIDE DEF D
  <2> QED  BY <1>12, <2>1, <2>2, <2>3, <2>4
<1>14. \A h \in DOMAIN m : SiteEntryIs(m[h], h, SiteOn(h, Q), Q)
  <2>1. \A h \in SiteLabels : On[h] = SiteOn(h, R)
    BY <1>4
  <2> QED  BY <1>10, <1>12, <1>13, <2>1 DEF SiteLabelled
<1>15. <<>> \in Seq(SiteRouteType) /\ SiteIn(<<>>) = {}
  BY DEF SiteIn
<1>16. /\ DOMAIN p = DOMAIN m \cup {"sitey-dns-check"}
       /\ \A h \in DOMAIN p : SiteEntryIs(p[h], h, SiteOn(h, Q), Q)
  <2>1. CASE "sitey-dns-check" \in DOMAIN m
    <3>1. p = m
      BY <2>1 DEF SiteAddIfNew, p
    <3> QED  BY <1>14, <2>1, <3>1
  <2>2. CASE "sitey-dns-check" \notin DOMAIN m
    <3>1. p = SiteAdd(m, row, "sitey-dns-check", <<>>, TRUE)
      BY <2>2 DEF SiteAddIfNew, p
    <3>2. SiteAddIs(p, m, row, "sitey-dns-check", <<>>, TRUE)
      BY <3>1, SiteAddAt
    <3>3. ~SiteExact("sitey-dns-check", Q) /\ SiteOn("sitey-dns-check", Q) = {}
      BY <1>2, <1>13, <2>2
    <3>4. SiteNew(p["sitey-dns-check"], row, <<>>, TRUE)
      BY <2>2, <3>2 DEF SiteAddIs
    <3>5. TRUE = ("sitey-dns-check" = "sitey-dns-check" /\ SiteIn(<<>>) = {})
      BY <1>15
    <3>6. SiteEntryIs(p["sitey-dns-check"], "sitey-dns-check", SiteIn(<<>>), Q)
      BY <1>2, <1>15, <3>3, <3>4, <3>5, SiteWildNew
    <3> QED  BY <1>14, <1>15, <3>2, <3>3, <3>6 DEF SiteAddIs
  <2> QED  BY <2>1, <2>2
<1>17. /\ DOMAIN t = DOMAIN p \cup {"sitey"}
       /\ \A h \in DOMAIN t : SiteEntryIs(t[h], h, SiteOn(h, Q), Q)
  <2>1. CASE "sitey" \in DOMAIN p
    <3>1. t = p
      BY <2>1 DEF SiteAddIfNew, t
    <3> QED  BY <1>16, <2>1, <3>1
  <2>2. CASE "sitey" \notin DOMAIN p
    <3>1. t = SiteAdd(p, row, "sitey", <<>>, FALSE)
      BY <2>2 DEF SiteAddIfNew, t
    <3>2. SiteAddIs(t, p, row, "sitey", <<>>, FALSE)
      BY <3>1, SiteAddAt
    <3>3. ~SiteExact("sitey", Q) /\ SiteOn("sitey", Q) = {}
      BY <1>2, <1>13, <1>16, <2>2
    <3>4. SiteNew(t["sitey"], row, <<>>, FALSE)
      BY <2>2, <3>2 DEF SiteAddIs
    <3>5. FALSE = ("sitey" = "sitey-dns-check" /\ SiteIn(<<>>) = {})
      OBVIOUS
    <3>6. SiteEntryIs(t["sitey"], "sitey", SiteIn(<<>>), Q)
      BY <1>2, <1>15, <3>3, <3>4, <3>5, SiteWildNew
    <3> QED  BY <1>15, <1>16, <3>2, <3>3, <3>6 DEF SiteAddIs
  <2> QED  BY <2>1, <2>2
<1>18. SiteAddRow(hosts, row) = IF row.panel THEN t ELSE p
  BY DEF SiteAddRow, SiteAddWild, act, m, p, t
<1>19. \A h \in SiteLabels : SiteNamed(h, Q) <=> \/ h \in DOMAIN m \/ h = "sitey-dns-check"
                                                \/ (h = "sitey" /\ row.panel)
  <2>1. \A h : (\E o \in Q : o.name = "*" /\ (h = "sitey-dns-check" \/ (h = "sitey" /\ o.panel)))
                 <=> (h = "sitey-dns-check" \/ (h = "sitey" /\ row.panel))
    BY <1>2 DEF Q
  <2> QED  BY <1>13, <2>1 DEF SiteNamed
<1>20. DOMAIN m \subseteq SiteLabels
  BY <1>13
<1>21. CASE row.panel
  <2>1. DOMAIN t = {h \in SiteLabels : SiteNamed(h, Q)}
    BY <1>2, <1>16, <1>17, <1>19, <1>20, <1>21
  <2> QED  BY <1>17, <1>18, <1>21, <2>1 DEF SiteHostsAre, Q
<1>22. CASE ~row.panel
  <2>1. DOMAIN p = {h \in SiteLabels : SiteNamed(h, Q)}
    BY <1>2, <1>16, <1>19, <1>20, <1>22
  <2> QED  BY <1>16, <1>18, <1>22, <2>1 DEF SiteHostsAre, Q
<1> QED  BY <1>21, <1>22

SiteNamesApart(rows) == \A j, k \in DOMAIN rows : rows[j].name = rows[k].name => j = k

(* The hosts are what the set of the rows makes them, whatever the order of
   the rows: by induction on the rows. *)
THEOREM SiteHostsMade ==
    ASSUME NEW rows \in Seq(SiteRowType), SiteNamesApart(rows)
    PROVE  SiteHostsAre(SiteHosts(rows), SiteIn(rows))
<1>1. Len(rows) \in Nat /\ DOMAIN rows = 1 .. Len(rows)
  OBVIOUS
<1>2. PICK f : SiteHostsRun(f, rows, Len(rows)) /\ SiteHosts(rows) = f[Len(rows)]
  BY <1>1, SiteHostsSteps
<1> DEFINE Upto(n) == {rows[j] : j \in 1 .. n}
           S == {n \in 0 .. Len(rows) : SiteHostsAre(f[n], Upto(n))}
<1>3. 0 \in S
  <2>1. f[0] = <<>>
    BY <1>2 DEF SiteHostsRun
  <2>2. Upto(0) = {}
    OBVIOUS
  <2>3. \A h : ~SiteNamed(h, {})
    BY DEF SiteNamed, SiteExact, SiteOn
  <2>4. SiteHostsAre(<<>>, {})
    BY <2>3 DEF SiteHostsAre
  <2> HIDE DEF Upto
  <2>5. SiteHostsAre(f[0], Upto(0))
    BY <2>1, <2>2, <2>4
  <2>6. 0 \in 0 .. Len(rows)
    BY <1>1
  <2> QED  BY <2>5, <2>6
<1>4. ASSUME NEW n \in 0 .. Len(rows), n \in S, n < Len(rows)
      PROVE  n + 1 \in S
  <2>1. n + 1 \in 1 .. Len(rows) /\ (n + 1) - 1 = n /\ n + 1 \in 0 .. Len(rows) /\ n \in Nat
    BY <1>1, <1>4
  <2> DEFINE row == rows[n + 1]
  <2>2. f[n + 1] = SiteAddRow(f[n], row)
    BY <1>2, <2>1 DEF SiteHostsRun
  <2>3. Upto(n + 1) = Upto(n) \cup {row}
    <3>1. 1 .. (n + 1) = (1 .. n) \cup {n + 1}
      BY <2>1
    <3> QED  BY <3>1
  <2>4. row \in SiteRowType /\ Upto(n) \subseteq SiteRowType
    BY <1>1, <2>1
  <2>5. SiteDistinct(Upto(n) \cup {row}) /\ row \notin Upto(n)
    <3>1. \A a \in Upto(n + 1) : \E j \in DOMAIN rows : a = rows[j]
      BY <1>1, <2>1
    <3>2. SiteDistinct(Upto(n + 1))
      <4> HIDE DEF Upto
      <4> QED  BY <3>1 DEF SiteDistinct, SiteNamesApart
    <3>3. row \notin Upto(n)
      <4>1. SUFFICES ASSUME NEW j \in 1 .. n, rows[j] = row PROVE FALSE
        OBVIOUS
      <4>2. j \in DOMAIN rows /\ n + 1 \in DOMAIN rows /\ j # n + 1
        BY <1>1, <2>1
      <4> QED  BY <4>1, <4>2 DEF SiteNamesApart
    <3> QED  BY <2>3, <3>2, <3>3
  <2>6. SiteHostsAre(f[n], Upto(n))
    BY <1>4
  <2> HIDE DEF Upto, row
  <2>7. SiteHostsAre(SiteAddRow(f[n], row), Upto(n) \cup {row})
    BY <2>4, <2>5, <2>6, SiteExactRow, SiteWildRow
  <2>8. SiteHostsAre(f[n + 1], Upto(n + 1))
    BY <2>2, <2>3, <2>7
  <2> QED  BY <2>1, <2>8
<1>5. Len(rows) \in S
  <2> HIDE DEF S
  <2>1. SiteInductive(S, Len(rows))
    BY <1>3, <1>4 DEF SiteInductive
  <2> QED  BY <1>1, <2>1, SiteInduct
<1>6. Upto(Len(rows)) = SiteIn(rows)
  BY <1>1 DEF SiteIn
<1> HIDE DEF Upto
<1> QED  BY <1>2, <1>5, <1>6

(* Merging: a group has the body and the certificate of its members, and
   their addresses. *)
SiteGroup(blocks, b) == {c \in blocks : SiteSignature(c) = SiteSignature(b)}

SiteGroupBlock(blocks, b) ==
  [labels |-> {c.label : c \in SiteGroup(blocks, b)}, first |-> CHOOSE c \in SiteGroup(blocks, b) : TRUE]

LEMMA SiteMergedGroups ==
    ASSUME NEW blocks
    PROVE  SiteMerged(blocks) = {SiteGroupBlock(blocks, b) : b \in blocks}
<1> DEFINE made(g) == [labels |-> {c.label : c \in g}, first |-> CHOOSE c \in g : TRUE]
           groups == {SiteGroup(blocks, b) : b \in blocks}
<1>1. SiteMerged(blocks) = {made(g) : g \in groups}
  BY DEF SiteMerged, SiteGroup
<1>2. \A b : SiteGroupBlock(blocks, b) = made(SiteGroup(blocks, b))
  BY DEF SiteGroupBlock
<1> HIDE DEF made
<1>3. {made(g) : g \in groups} = {made(SiteGroup(blocks, b)) : b \in blocks}
  OBVIOUS
<1> QED  BY <1>1, <1>2, <1>3

LEMMA SiteGroupOf ==
    ASSUME NEW blocks, NEW b \in blocks, NEW c \in SiteGroup(blocks, b)
    PROVE  /\ SiteGroupBlock(blocks, b).first.body = c.body
           /\ SiteGroupBlock(blocks, b).first.email = c.email
           /\ SiteGroup(blocks, c) = SiteGroup(blocks, b)
           /\ SiteGroupBlock(blocks, c) = SiteGroupBlock(blocks, b)
<1>1. PICK d : d = (CHOOSE x \in SiteGroup(blocks, b) : TRUE)
  OBVIOUS
<1>2. d \in SiteGroup(blocks, b)
  BY <1>1
<1>3. SiteGroupBlock(blocks, b).first = d
  BY <1>1 DEF SiteGroupBlock
<1>4. d.body = c.body /\ d.email = c.email
  BY <1>2 DEF SiteGroup, SiteSignature
<1>5. SiteGroup(blocks, c) = SiteGroup(blocks, b)
  BY DEF SiteGroup
<1>6. SiteGroupBlock(blocks, c) = SiteGroupBlock(blocks, b)
  BY <1>5 DEF SiteGroupBlock
<1> QED  BY <1>3, <1>4, <1>5, <1>6

LEMMA SiteMergeKeeps ==
    ASSUME NEW blocks, NEW b \in blocks
    PROVE  \E m \in SiteMerged(blocks) :
             b.label \in m.labels /\ m.first.body = b.body /\ m.first.email = b.email
<1>1. b \in SiteGroup(blocks, b)
  BY DEF SiteGroup
<1>2. SiteGroupBlock(blocks, b) \in SiteMerged(blocks)
  BY SiteMergedGroups
<1>3. b.label \in SiteGroupBlock(blocks, b).labels
  BY <1>1 DEF SiteGroupBlock
<1>4. SiteGroupBlock(blocks, b).first.body = b.body /\ SiteGroupBlock(blocks, b).first.email = b.email
  BY <1>1, SiteGroupOf
<1> QED  BY <1>2, <1>3, <1>4

LEMMA SiteMergeOnly ==
    ASSUME NEW blocks, NEW m \in SiteMerged(blocks), NEW l \in m.labels
    PROVE  \E b \in blocks : /\ b.label = l /\ m = SiteGroupBlock(blocks, b)
                             /\ m.first.body = b.body /\ m.first.email = b.email
<1>1. PICK b \in blocks : m = SiteGroupBlock(blocks, b)
  BY SiteMergedGroups
<1>2. PICK c \in SiteGroup(blocks, b) : c.label = l
  BY <1>1 DEF SiteGroupBlock
<1>3. c \in blocks
  BY <1>2 DEF SiteGroup
<1>4. m.first.body = c.body /\ m.first.email = c.email /\ SiteGroupBlock(blocks, c) = m
  BY <1>1, SiteGroupOf
<1> QED  BY <1>2, <1>3, <1>4

(* What a block serves at its address. *)
SiteServes(b) ==
  [label |-> b.label, handlers |-> SiteIn(b.body.handlers), rest |-> b.body.rest, email |-> b.email]

SiteBlocks(hosts) == SitePanelBlocks(hosts) \cup SiteUnmerged(hosts)

LEMMA SiteBodyHandlers ==
    ASSUME NEW routes
    PROVE  SiteIn(SiteBody(routes).handlers) = {SiteHandler(r) : r \in SiteIn(routes)}
<1> DEFINE hs == [k \in DOMAIN routes |-> SiteHandler(routes[k])]
<1>1. SiteBody(routes).handlers = hs
  BY DEF SiteBody
<1>2. SiteIn(hs) = {SiteHandler(r) : r \in SiteIn(routes)}
  <2>1. SiteIn(hs) = {SiteHandler(routes[k]) : k \in DOMAIN routes}
    BY DEF SiteIn
  <2> HIDE DEF hs
  <2> QED  BY <2>1 DEF SiteIn
<1> QED  BY <1>1, <1>2

LEMMA SiteInEmpty ==
    ASSUME NEW X, NEW s \in Seq(X)
    PROVE  s = <<>> <=> SiteIn(s) = {}
<1>1. DOMAIN s = 1 .. Len(s) /\ Len(s) \in Nat
  OBVIOUS
<1>2. s = <<>> <=> Len(s) = 0
  OBVIOUS
<1>3. Len(s) = 0 <=> DOMAIN s = {}
  <2>1. Len(s) # 0 => 1 \in DOMAIN s
    BY <1>1
  <2> QED  BY <1>1, <2>1
<1> QED  BY <1>2, <1>3 DEF SiteIn

(* The blocks of one host. *)
LEMMA SiteBlockOfHost ==
    ASSUME NEW h, NEW e, NEW b \in SiteBlocksOf(h, e)
    PROVE  /\ b \in {SiteProbe(h, e), SitePlain(h, e), SiteMain(h, e)}
           /\ b.label \in {<<"http", h>>, <<"https", h>>} /\ b.label[2] = h
           /\ SiteIn(b.body.handlers) \subseteq {SiteHandler(r) : r \in SiteIn(e.routes)}
           /\ \A c \in SiteBlocksOf(h, e) : c.label = b.label => c = b
<1>1. b \in {SiteProbe(h, e), SitePlain(h, e), SiteMain(h, e)}
  BY DEF SiteBlocksOf
<1>2. /\ SiteProbe(h, e).label = <<"https", h>> /\ SiteMain(h, e).label = <<"https", h>>
      /\ SitePlain(h, e).label = <<"http", h>>
  BY DEF SiteProbe, SiteMain, SitePlain
<1>3. <<"http", h>> # <<"https", h>> /\ <<"http", h>>[2] = h /\ <<"https", h>>[2] = h
  OBVIOUS
<1>4. /\ SiteIn(SiteProbe(h, e).body.handlers) = {}
      /\ SiteMain(h, e).body = SiteBody(e.routes) /\ SitePlain(h, e).body = SiteBody(e.routes)
  BY DEF SiteProbe, SiteMain, SitePlain, SiteIn
<1>5. \A c \in SiteBlocksOf(h, e) : c.label = b.label => c = b
  BY <1>2, <1>3 DEF SiteBlocksOf
<1>6. SiteIn(b.body.handlers) \subseteq {SiteHandler(r) : r \in SiteIn(e.routes)}
  BY <1>1, <1>4, SiteBodyHandlers
<1> QED  BY <1>1, <1>2, <1>3, <1>5, <1>6

(* The file has every block, under its address. *)
LEMMA SiteFileHas ==
    ASSUME NEW rows, NEW b \in SiteBlocks(SiteHosts(rows))
    PROVE  \E m \in SiteFile(rows) :
             b.label \in m.labels /\ m.first.body = b.body /\ m.first.email = b.email
<1>1. CASE b \in SitePanelBlocks(SiteHosts(rows))
  <2>1. [labels |-> {b.label}, first |-> b] \in SiteFile(rows)
    BY <1>1 DEF SiteFile
  <2> QED  BY <2>1
<1>2. CASE b \in SiteUnmerged(SiteHosts(rows))
  BY <1>2, SiteMergeKeeps DEF SiteFile
<1> QED  BY <1>1, <1>2 DEF SiteBlocks

(* And nothing else: what it has at an address is a block's. *)
LEMMA SiteFileOnly ==
    ASSUME NEW rows, NEW m \in SiteFile(rows), NEW l \in m.labels
    PROVE  \E b \in SiteBlocks(SiteHosts(rows)) :
             b.label = l /\ m.first.body = b.body /\ m.first.email = b.email
<1>1. CASE m \in SiteMerged(SiteUnmerged(SiteHosts(rows)))
  BY <1>1, SiteMergeOnly DEF SiteBlocks
<1>2. CASE m \in {[labels |-> {b.label}, first |-> b] : b \in SitePanelBlocks(SiteHosts(rows))}
  <2>1. PICK b \in SitePanelBlocks(SiteHosts(rows)) : m = [labels |-> {b.label}, first |-> b]
    BY <1>2
  <2>2. m.labels = {b.label} /\ m.first = b
    BY <2>1
  <2> QED  BY <2>2 DEF SiteBlocks
<1> QED  BY <1>1, <1>2 DEF SiteFile

LEMMA SiteServedBlocks ==
    ASSUME NEW rows
    PROVE  SiteServed(rows) = {SiteServes(b) : b \in SiteBlocks(SiteHosts(rows))}
<1> DEFINE at(m, l) == [label |-> l, handlers |-> SiteIn(m.first.body.handlers), rest |-> m.first.body.rest,
                        email |-> m.first.email]
<1>1. \A x : x \in SiteServed(rows) <=> \E m \in SiteFile(rows) : \E l \in m.labels : x = at(m, l)
  BY DEF SiteServed
<1>2. \A m, l, b : b.label = l /\ m.first.body = b.body /\ m.first.email = b.email => at(m, l) = SiteServes(b)
  BY DEF SiteServes
<1> HIDE DEF at
<1>3. ASSUME NEW x \in SiteServed(rows)
      PROVE  x \in {SiteServes(b) : b \in SiteBlocks(SiteHosts(rows))}
  <2>1. PICK m \in SiteFile(rows) : \E l \in m.labels : x = at(m, l)
    BY <1>1
  <2>2. PICK l \in m.labels : x = at(m, l)
    BY <2>1
  <2>3. PICK b \in SiteBlocks(SiteHosts(rows)) : b.label = l /\ m.first.body = b.body /\ m.first.email = b.email
    BY SiteFileOnly
  <2> QED  BY <1>2, <2>2, <2>3
<1>4. ASSUME NEW b \in SiteBlocks(SiteHosts(rows))
      PROVE  SiteServes(b) \in SiteServed(rows)
  <2>1. PICK m \in SiteFile(rows) : b.label \in m.labels /\ m.first.body = b.body /\ m.first.email = b.email
    BY SiteFileHas
  <2>2. SiteServes(b) = at(m, b.label)
    BY <1>2, <2>1
  <2> QED  BY <1>1, <2>1, <2>2
<1> QED  BY <1>3, <1>4

(* Blocks that are not the panel's. *)
LEMMA SiteUnmergedHost ==
    ASSUME NEW hosts, NEW b \in SiteUnmerged(hosts)
    PROVE  /\ b.label[2] \in SiteEmitted(hosts) /\ b \in SiteBlocksOf(b.label[2], hosts[b.label[2]])
           /\ b.label \in {<<"http", b.label[2]>>, <<"https", b.label[2]>>}
<1>1. PICK h \in SiteEmitted(hosts) : b \in SiteBlocksOf(h, hosts[h])
  BY DEF SiteUnmerged
<1>2. b.label[2] = h /\ b.label \in {<<"http", h>>, <<"https", h>>}
  BY <1>1, SiteBlockOfHost
<1> QED  BY <1>1, <1>2

LEMMA SitePanelHost ==
    ASSUME NEW hosts, NEW b \in SitePanelBlocks(hosts)
    PROVE  /\ b.body = SitePanelBody(hosts)
           /\ \/ b = [label |-> <<"http", ":80">>, body |-> SitePanelBody(hosts), email |-> <<>>]
              \/ \E h \in SiteIn(sitePanel) :
                   b = [label |-> <<"https", h>>, body |-> SitePanelBody(hosts), email |-> <<"env">>]
           /\ \/ b.label = <<"http", ":80">>
              \/ \E h \in SiteIn(sitePanel) : b.label = <<"https", h>>
<1> DEFINE body == SitePanelBody(hosts)
<1> HIDE DEF body
<1>1. \/ b = [label |-> <<"http", ":80">>, body |-> body, email |-> <<>>]
      \/ \E h \in SiteIn(sitePanel) : b = [label |-> <<"https", h>>, body |-> body, email |-> <<"env">>]
  BY DEF SitePanelBlocks, body
<1>2. b.body = body /\ \/ b.label = <<"http", ":80">>
                       \/ \E h \in SiteIn(sitePanel) : b.label = <<"https", h>>
  BY <1>1
<1> QED  BY <1>1, <1>2 DEF body

(* No two blocks have one address. *)
LEMMA SiteBlocksApart ==
    ASSUME NEW hosts, DOMAIN hosts \subseteq SiteLabels,
           NEW b \in SiteBlocks(hosts), NEW c \in SiteBlocks(hosts), b.label = c.label
    PROVE  b = c /\ (b \in SitePanelBlocks(hosts) <=> b \notin SiteUnmerged(hosts))
<1>1. ASSUME NEW x \in SiteUnmerged(hosts)
      PROVE  x.label[2] # ":80" /\ x.label[2] \notin SiteIn(sitePanel)
  BY SiteUnmergedHost, SiteAssumption DEF SiteEmitted
<1>2. ASSUME NEW x \in SitePanelBlocks(hosts)
      PROVE  x.label[2] = ":80" \/ x.label[2] \in SiteIn(sitePanel)
  BY SitePanelHost
<1>3. CASE b \in SiteUnmerged(hosts)
  <2>1. c \in SiteUnmerged(hosts) /\ b \notin SitePanelBlocks(hosts)
    BY <1>1, <1>2, <1>3 DEF SiteBlocks
  <2> DEFINE h == b.label[2]
  <2>2. b \in SiteBlocksOf(h, hosts[h]) /\ c \in SiteBlocksOf(h, hosts[h])
    BY <1>3, <2>1, SiteUnmergedHost
  <2> HIDE DEF h
  <2> QED  BY <1>3, <2>1, <2>2, SiteBlockOfHost
<1>4. CASE b \in SitePanelBlocks(hosts)
  <2>1. c \in SitePanelBlocks(hosts) /\ b \notin SiteUnmerged(hosts)
    BY <1>1, <1>2, <1>4 DEF SiteBlocks
  <2> DEFINE body == SitePanelBody(hosts)
             at(x) == \/ x = [label |-> <<"http", ":80">>, body |-> body, email |-> <<>>]
                      \/ \E h \in SiteIn(sitePanel) : x = [label |-> <<"https", h>>, body |-> body, email |-> <<"env">>]
  <2>2. at(b) /\ at(c)
    BY <1>4, <2>1, SitePanelHost
  <2> HIDE DEF body
  <2>3. b = c
    BY <2>2
  <2> QED  BY <1>4, <2>1, <2>3
<1> QED  BY <1>3, <1>4 DEF SiteBlocks

(* The entry of the file that a block becomes. *)
SiteBecomes(hosts, b) ==
  IF b \in SitePanelBlocks(hosts) THEN [labels |-> {b.label}, first |-> b]
  ELSE SiteGroupBlock(SiteUnmerged(hosts), b)

LEMMA SiteFileUnique ==
    ASSUME NEW rows, DOMAIN SiteHosts(rows) \subseteq SiteLabels
    PROVE  \A m, n \in SiteFile(rows) : m.labels \cap n.labels # {} => m = n
<1> DEFINE hosts == SiteHosts(rows)
<1> HIDE DEF hosts
<1>1. ASSUME NEW m \in SiteFile(rows), NEW l \in m.labels
      PROVE  \E b \in SiteBlocks(hosts) : b.label = l /\ m = SiteBecomes(hosts, b)
  <2>1. CASE m \in SiteMerged(SiteUnmerged(hosts))
    <3>1. PICK b \in SiteUnmerged(hosts) : b.label = l /\ m = SiteGroupBlock(SiteUnmerged(hosts), b)
      BY <2>1, SiteMergeOnly
    <3>2. b \in SiteBlocks(hosts) /\ b \notin SitePanelBlocks(hosts)
      <4>1. b \in SiteBlocks(hosts) /\ DOMAIN hosts \subseteq SiteLabels
        BY DEF SiteBlocks, hosts
      <4> QED  BY <4>1, SiteBlocksApart
    <3> QED  BY <3>1, <3>2 DEF SiteBecomes
  <2>2. CASE m \in {[labels |-> {b.label}, first |-> b] : b \in SitePanelBlocks(hosts)}
    <3>1. PICK b \in SitePanelBlocks(hosts) : m = [labels |-> {b.label}, first |-> b]
      BY <2>2
    <3>2. m.labels = {b.label}
      BY <3>1
    <3> QED  BY <3>1, <3>2 DEF SiteBecomes, SiteBlocks
  <2> QED  BY <2>1, <2>2 DEF SiteFile, hosts
<1>2. ASSUME NEW m \in SiteFile(rows), NEW n \in SiteFile(rows), NEW l \in m.labels \cap n.labels
      PROVE  m = n
  <2>1. PICK b \in SiteBlocks(hosts) : b.label = l /\ m = SiteBecomes(hosts, b)
    BY <1>1
  <2>2. PICK c \in SiteBlocks(hosts) : c.label = l /\ n = SiteBecomes(hosts, c)
    BY <1>1
  <2>3. b = c
    BY <2>1, <2>2, SiteBlocksApart DEF hosts
  <2> QED  BY <2>1, <2>2, <2>3
<1> QED  BY <1>2

(* What the panel's blocks hand on. *)
LEMMA SitePanelHandlers ==
    ASSUME NEW R, NEW hosts, SiteHostsAre(hosts, R),
           sitePanel \in {<<>>} \cup {<<n>> : n \in SitePanels}
    PROVE  /\ SiteIn(SitePanelBody(hosts).handlers)
                = {SiteHandler(r) : r \in {r \in UNION {SiteOn(h, R) : h \in SiteIn(sitePanel)} :
                                             r.prefix # SiteCatchAll}}
           /\ SitePanelBody(hosts).rest = "admin"
<1> DEFINE routes == IF sitePanel # <<>> /\ SiteIn(sitePanel) \subseteq DOMAIN hosts
                     THEN SitePrefixed(hosts[sitePanel[1]].routes) ELSE <<>>
           On == UNION {SiteOn(h, R) : h \in SiteIn(sitePanel)}
           hs == [k \in DOMAIN routes |-> SiteHandler(routes[k])]
<1>1. SitePanelBody(hosts) = [handlers |-> hs, rest |-> "admin"]
  BY DEF SitePanelBody
<1>2. SiteIn(hs) = {SiteHandler(r) : r \in SiteIn(routes)}
  <2> HIDE DEF routes
  <2>1. SiteIn(hs) = {SiteHandler(routes[k]) : k \in DOMAIN routes}
    BY DEF SiteIn
  <2> HIDE DEF hs
  <2> QED  BY <2>1 DEF SiteIn
<1>3. SiteIn(routes) = {r \in On : r.prefix # SiteCatchAll}
  <2>1. CASE sitePanel = <<>>
    <3>1. SiteIn(sitePanel) = {} /\ SiteIn(<<>>) = {}
      BY <2>1 DEF SiteIn
    <3> QED  BY <2>1, <3>1
  <2>2. CASE sitePanel # <<>>
    <3>1. PICK n \in SitePanels : sitePanel = <<n>>
      BY <2>2
    <3>2. SiteIn(sitePanel) = {n} /\ sitePanel[1] = n /\ n \in SiteLabels
      BY <3>1, SiteAssumption DEF SiteIn
    <3>3. On = SiteOn(n, R)
      BY <3>2
    <3>4. CASE n \in DOMAIN hosts
      <4>1. hosts[n].routes \in Seq(SiteRouteType) /\ SiteIn(hosts[n].routes) = SiteOn(n, R)
        BY <3>4 DEF SiteHostsAre, SiteEntryIs
      <4> DEFINE q == hosts[n].routes
      <4>2. routes = SiteKept(q, {r \in SiteIn(q) : r.prefix # SiteCatchAll})
        BY <2>2, <3>2, <3>4 DEF SitePrefixed
      <4> HIDE DEF q, routes
      <4>3. SiteIn(routes) = SiteIn(q) \cap {r \in SiteIn(q) : r.prefix # SiteCatchAll}
        BY <4>1, <4>2, SiteKeptIn DEF q
      <4> QED  BY <3>3, <4>1, <4>3 DEF q
    <3>5. CASE n \notin DOMAIN hosts
      <4>1. SiteOn(n, R) = {}
        BY <3>2, <3>5 DEF SiteHostsAre, SiteNamed
      <4>2. routes = <<>>
        BY <3>2, <3>5
      <4>3. SiteIn(<<>>) = {}
        BY DEF SiteIn
      <4> QED  BY <3>3, <4>1, <4>2, <4>3
    <3> QED  BY <3>4, <3>5
  <2> QED  BY <2>1, <2>2
<1> HIDE DEF hs, routes, On
<1> QED  BY <1>1, <1>2, <1>3 DEF On

SiteServesAll(blocks) == {SiteServes(b) : b \in blocks}

LEMMA SiteServesEqual ==
    ASSUME NEW b, NEW c, b.label = c.label, SiteIn(b.body.handlers) = SiteIn(c.body.handlers),
           b.body.rest = c.body.rest, b.email = c.email
    PROVE  SiteServes(b) = SiteServes(c)
BY DEF SiteServes

(* What a host serves depends on the set of its routes and on its settings. *)
LEMMA SiteSameEntry ==
    ASSUME NEW R, NEW h, NEW T, NEW e, NEW d, SiteEntryIs(e, h, T, R), SiteEntryIs(d, h, T, R)
    PROVE  SiteServesAll(SiteBlocksOf(h, e)) = SiteServesAll(SiteBlocksOf(h, d))
<1>1. /\ e.routes \in Seq(SiteRouteType) /\ SiteIn(e.routes) = T
      /\ d.routes \in Seq(SiteRouteType) /\ SiteIn(d.routes) = T
      /\ e.exact = d.exact /\ e.email = d.email /\ e.fallback = d.fallback /\ e.probe = d.probe
  BY DEF SiteEntryIs
<1>2. e.routes = <<>> <=> d.routes = <<>>
  BY <1>1, SiteInEmpty
<1>3. SiteIn(SiteBody(e.routes).handlers) = SiteIn(SiteBody(d.routes).handlers)
  BY <1>1, SiteBodyHandlers
<1>4. SiteBody(e.routes).rest = SiteBody(d.routes).rest
  <2>1. \A s : SiteBody(s).rest = IF s = <<>> THEN "admin"
                 ELSE IF \E r \in SiteIn(s) : r.prefix = SiteCatchAll THEN "none" ELSE "404"
    BY DEF SiteBody
  <2> QED  BY <1>1, <1>2, <2>1
<1>5. SiteServes(SitePlain(h, e)) = SiteServes(SitePlain(h, d))
  <2>1. \A x : /\ SitePlain(h, x).label = <<"http", h>> /\ SitePlain(h, x).body = SiteBody(x.routes)
               /\ SitePlain(h, x).email = <<>>
    BY DEF SitePlain
  <2> QED  BY <1>3, <1>4, <2>1, SiteServesEqual
<1>6. SiteServes(SiteMain(h, e)) = SiteServes(SiteMain(h, d))
  <2>1. \A x : /\ SiteMain(h, x).label = <<"https", h>> /\ SiteMain(h, x).body = SiteBody(x.routes)
               /\ SiteMain(h, x).email = <<x.email>>
    BY DEF SiteMain
  <2> QED  BY <1>1, <1>3, <1>4, <2>1, SiteServesEqual
<1>7. SiteProbe(h, e) = SiteProbe(h, d)
  BY <1>1 DEF SiteProbe
<1>8. (\E r \in SiteIn(e.routes) : r.httpOnly) <=> (\E r \in SiteIn(d.routes) : r.httpOnly)
  BY <1>1
<1>9. \A b : SiteServesAll({b}) = {SiteServes(b)}
  BY DEF SiteServesAll
<1>10. \A b, c : SiteServesAll({b, c}) = {SiteServes(b), SiteServes(c)}
  BY DEF SiteServesAll
<1>11. CASE e.probe /\ e.routes = <<>> /\ ~e.exact
  BY <1>1, <1>2, <1>7, <1>11 DEF SiteBlocksOf
<1>12. CASE ~(e.probe /\ e.routes = <<>> /\ ~e.exact)
  <2>1. CASE \E r \in SiteIn(e.routes) : r.httpOnly
    <3>1. SiteBlocksOf(h, e) = {SitePlain(h, e)} /\ SiteBlocksOf(h, d) = {SitePlain(h, d)}
      BY <1>1, <1>2, <1>8, <1>12, <2>1 DEF SiteBlocksOf
    <3> QED  BY <1>5, <1>9, <3>1
  <2>2. CASE ~(\E r \in SiteIn(e.routes) : r.httpOnly)
    <3>1. SiteBlocksOf(h, e) = IF e.fallback THEN {SitePlain(h, e), SiteMain(h, e)} ELSE {SiteMain(h, e)}
      BY <1>12, <2>2 DEF SiteBlocksOf
    <3>2. SiteBlocksOf(h, d) = IF e.fallback THEN {SitePlain(h, d), SiteMain(h, d)} ELSE {SiteMain(h, d)}
      BY <1>1, <1>2, <1>8, <1>12, <2>2 DEF SiteBlocksOf
    <3> QED  BY <1>5, <1>6, <1>9, <1>10, <3>1, <3>2
  <2> QED  BY <2>1, <2>2
<1> QED  BY <1>11, <1>12

(* What is served is told by the set of the rows. *)
LEMMA SiteSameHosts ==
    ASSUME NEW R, NEW hosts, NEW other, SiteHostsAre(hosts, R), SiteHostsAre(other, R),
           sitePanel \in {<<>>} \cup {<<n>> : n \in SitePanels}
    PROVE  SiteServesAll(SiteBlocks(hosts)) \subseteq SiteServesAll(SiteBlocks(other))
<1>1. SUFFICES ASSUME NEW b \in SiteBlocks(hosts)
               PROVE  SiteServes(b) \in SiteServesAll(SiteBlocks(other))
  BY DEF SiteServesAll
<1>2. CASE b \in SiteUnmerged(hosts)
  <2> DEFINE h == b.label[2]
  <2>1. h \in SiteEmitted(hosts) /\ b \in SiteBlocksOf(h, hosts[h])
    BY <1>2, SiteUnmergedHost
  <2> HIDE DEF h
  <2>2. h \in DOMAIN hosts /\ h \in DOMAIN other /\ h \in SiteEmitted(other)
    BY <2>1 DEF SiteEmitted, SiteHostsAre
  <2>3. SiteEntryIs(hosts[h], h, SiteOn(h, R), R) /\ SiteEntryIs(other[h], h, SiteOn(h, R), R)
    BY <2>2 DEF SiteHostsAre
  <2>4. SiteServes(b) \in SiteServesAll(SiteBlocksOf(h, other[h]))
    <3>1. SiteServes(b) \in SiteServesAll(SiteBlocksOf(h, hosts[h]))
      BY <2>1 DEF SiteServesAll
    <3> QED  BY <2>3, <3>1, SiteSameEntry
  <2>5. PICK c \in SiteBlocksOf(h, other[h]) : SiteServes(b) = SiteServes(c)
    BY <2>4 DEF SiteServesAll
  <2>6. c \in SiteBlocks(other)
    BY <2>2 DEF SiteBlocks, SiteUnmerged
  <2> QED  BY <2>5, <2>6 DEF SiteServesAll
<1>3. CASE b \in SitePanelBlocks(hosts)
  <2> DEFINE body == SitePanelBody(hosts)
             obody == SitePanelBody(other)
             PH == {SiteHandler(r) : r \in {r \in UNION {SiteOn(h, R) : h \in SiteIn(sitePanel)} :
                                             r.prefix # SiteCatchAll}}
  <2>1. SiteIn(body.handlers) = PH /\ body.rest = "admin"
    BY SitePanelHandlers
  <2>2. SiteIn(obody.handlers) = PH /\ obody.rest = "admin"
    BY SitePanelHandlers
  <2> HIDE DEF PH
  <2>3. SiteIn(body.handlers) = SiteIn(obody.handlers) /\ body.rest = obody.rest
    BY <2>1, <2>2
  <2>4. \/ b = [label |-> <<"http", ":80">>, body |-> body, email |-> <<>>]
        \/ \E h \in SiteIn(sitePanel) : b = [label |-> <<"https", h>>, body |-> body, email |-> <<"env">>]
    BY <1>3, SitePanelHost
  <2>5. \E c \in SitePanelBlocks(other) : c.label = b.label /\ c.body = obody /\ b.body = body /\ c.email = b.email
    <3>1. CASE b = [label |-> <<"http", ":80">>, body |-> body, email |-> <<>>]
      <4> DEFINE c == [label |-> <<"http", ":80">>, body |-> obody, email |-> <<>>]
      <4>1. c \in SitePanelBlocks(other)
        BY DEF SitePanelBlocks
      <4> HIDE DEF body, obody
      <4>2. c.label = b.label /\ c.body = obody /\ b.body = body /\ c.email = b.email
        BY <3>1
      <4> QED  BY <4>1, <4>2
    <3>2. CASE \E h \in SiteIn(sitePanel) : b = [label |-> <<"https", h>>, body |-> body, email |-> <<"env">>]
      <4>1. PICK h \in SiteIn(sitePanel) : b = [label |-> <<"https", h>>, body |-> body, email |-> <<"env">>]
        BY <3>2
      <4> DEFINE c == [label |-> <<"https", h>>, body |-> obody, email |-> <<"env">>]
      <4>2. c \in SitePanelBlocks(other)
        BY DEF SitePanelBlocks
      <4> HIDE DEF body, obody
      <4>3. c.label = b.label /\ c.body = obody /\ b.body = body /\ c.email = b.email
        BY <4>1
      <4> QED  BY <4>2, <4>3
    <3> QED  BY <2>4, <3>1, <3>2
  <2> HIDE DEF body, obody
  <2>6. PICK c \in SitePanelBlocks(other) : c.label = b.label /\ c.body = obody /\ b.body = body /\ c.email = b.email
    BY <2>5
  <2>7. SiteServes(b) = SiteServes(c)
    BY <2>3, <2>6, SiteServesEqual
  <2> QED  BY <2>7 DEF SiteServesAll, SiteBlocks
<1> QED  BY <1>2, <1>3 DEF SiteBlocks

LEMMA SiteOrderIrrelevant == SiteTypeOK => OrderOfRowsIsIrrelevant
<1>1. SUFFICES ASSUME SiteTypeOK, NEW f \in SiteOrders(DOMAIN siteRow)
               PROVE  SiteServed([k \in DOMAIN siteRow |-> siteRow[f[k]]]) = SiteServed(siteRow)
  BY DEF OrderOfRowsIsIrrelevant
<1> DEFINE L == Len(siteRow)
           other == [k \in DOMAIN siteRow |-> siteRow[f[k]]]
<1>2. /\ siteRow \in Seq(SiteRowType) /\ SiteNamesApart(siteRow)
      /\ sitePanel \in {<<>>} \cup {<<n>> : n \in SitePanels}
      /\ DOMAIN siteRow = 1 .. L /\ L \in Nat
  BY <1>1 DEF SiteTypeOK, SiteNamesDiffer, SiteNamesApart
<1>3. f \in [1 .. L -> 1 .. L] /\ \A w \in 1 .. L : \E v \in 1 .. L : f[v] = w
  BY <1>1, <1>2 DEF SiteOrders
<1>4. other \in Seq(SiteRowType) /\ DOMAIN other = 1 .. L
  <2>1. \A k \in 1 .. L : siteRow[f[k]] \in SiteRowType
    BY <1>2, <1>3
  <2>2. other \in [1 .. L -> SiteRowType]
    BY <1>2, <2>1
  <2> HIDE DEF other
  <2> QED  BY <1>2, <2>2
<1>5. SiteIn(other) = SiteIn(siteRow)
  <2>1. SiteIn(other) = {siteRow[f[k]] : k \in 1 .. L}
    BY <1>2 DEF SiteIn
  <2>2. SiteIn(siteRow) = {siteRow[k] : k \in 1 .. L}
    BY <1>2 DEF SiteIn
  <2> HIDE DEF other
  <2>3. SiteIn(other) \subseteq SiteIn(siteRow)
    BY <1>3, <2>1, <2>2
  <2>4. ASSUME NEW w \in 1 .. L
        PROVE  siteRow[w] \in SiteIn(other)
    <3>1. PICK v \in 1 .. L : f[v] = w
      BY <1>3
    <3> QED  BY <2>1, <3>1
  <2> QED  BY <2>2, <2>3, <2>4
<1>6. SiteNamesApart(other)
  <2>1. SUFFICES ASSUME NEW j \in 1 .. L, NEW k \in 1 .. L, other[j].name = other[k].name
                 PROVE  j = k
    BY <1>4 DEF SiteNamesApart
  <2>2. f[j] = f[k]
    <3>1. other[j] = siteRow[f[j]] /\ other[k] = siteRow[f[k]] /\ f[j] \in 1 .. L /\ f[k] \in 1 .. L
      BY <1>2, <1>3
    <3> QED  BY <1>2, <2>1, <3>1 DEF SiteNamesApart
  <2>3. f \in Surjection(1 .. L, 1 .. L) /\ IsFiniteSet(1 .. L)
    <3>1. IsFiniteSet(1 .. L)
      BY <1>2, FS_Interval
    <3> HIDE DEF L
    <3>2. f \in Surjection(1 .. L, 1 .. L)
      BY <1>3 DEF Surjection
    <3> QED  BY <3>1, <3>2
  <2>4. f \in Injection(1 .. L, 1 .. L)
    BY <2>3, FS_SurjSameCardinalityImpliesInj
  <2> QED  BY <2>2, <2>4 DEF Injection, IsInjective
<1> HIDE DEF other
<1>7. SiteHostsAre(SiteHosts(other), SiteIn(siteRow)) /\ SiteHostsAre(SiteHosts(siteRow), SiteIn(siteRow))
  <2>1. SiteHostsAre(SiteHosts(other), SiteIn(other))
    BY <1>4, <1>6, SiteHostsMade
  <2>2. SiteHostsAre(SiteHosts(siteRow), SiteIn(siteRow))
    BY <1>2, SiteHostsMade
  <2> QED  BY <1>5, <2>1, <2>2
<1>8. SiteServesAll(SiteBlocks(SiteHosts(other))) = SiteServesAll(SiteBlocks(SiteHosts(siteRow)))
  <2>1. SiteServesAll(SiteBlocks(SiteHosts(other))) \subseteq SiteServesAll(SiteBlocks(SiteHosts(siteRow)))
    BY <1>2, <1>7, SiteSameHosts
  <2>2. SiteServesAll(SiteBlocks(SiteHosts(siteRow))) \subseteq SiteServesAll(SiteBlocks(SiteHosts(other)))
    BY <1>2, <1>7, SiteSameHosts
  <2> QED  BY <2>1, <2>2
<1>9. /\ SiteServed(other) = SiteServesAll(SiteBlocks(SiteHosts(other)))
      /\ SiteServed(siteRow) = SiteServesAll(SiteBlocks(SiteHosts(siteRow)))
  BY SiteServedBlocks DEF SiteServesAll
<1> QED  BY <1>8, <1>9 DEF other

LEMMA SiteWellMade ==
    ASSUME SiteTypeOK
    PROVE  /\ siteRow \in Seq(SiteRowType) /\ SiteIn(siteRow) \subseteq SiteRowType
           /\ sitePanel \in {<<>>} \cup {<<n>> : n \in SitePanels}
           /\ SiteHostsAre(SiteHosts(siteRow), SiteIn(siteRow))
           /\ DOMAIN SiteHosts(siteRow) \subseteq SiteLabels
<1>1. /\ siteRow \in Seq(SiteRowType) /\ SiteNamesApart(siteRow)
      /\ sitePanel \in {<<>>} \cup {<<n>> : n \in SitePanels}
  BY DEF SiteTypeOK, SiteNamesDiffer, SiteNamesApart
<1>2. SiteIn(siteRow) \subseteq SiteRowType
  BY <1>1 DEF SiteIn
<1>3. SiteHostsAre(SiteHosts(siteRow), SiteIn(siteRow))
  BY <1>1, SiteHostsMade
<1> QED  BY <1>1, <1>2, <1>3 DEF SiteHostsAre

LEMMA SiteOnRow ==
    ASSUME NEW R, NEW h, NEW r \in SiteOn(h, R)
    PROVE  \E row \in R : /\ r \in SiteIn(row.routes) /\ SiteHostOf(row, r) = {h}
                          /\ siteSvc[r.service] # "inactive"
BY DEF SiteOn, SiteLive

(* Where a handler comes from. *)
LEMMA SiteHandlerFrom ==
    ASSUME NEW R, NEW hosts, SiteHostsAre(hosts, R),
           sitePanel \in {<<>>} \cup {<<n>> : n \in SitePanels},
           NEW b \in SiteBlocks(hosts), NEW x \in SiteIn(b.body.handlers)
    PROVE  \E h, r : /\ r \in SiteOn(h, R) /\ SiteHandler(r) = x
                     /\ {h} = (IF b.label[2] = ":80" THEN SiteIn(sitePanel) ELSE {b.label[2]})
<1>1. CASE b \in SiteUnmerged(hosts)
  <2> DEFINE h == b.label[2]
  <2>1. h \in SiteEmitted(hosts) /\ b \in SiteBlocksOf(h, hosts[h])
    BY <1>1, SiteUnmergedHost
  <2>2. h \in DOMAIN hosts /\ h \in SiteLabels /\ h # ":80"
    BY <2>1, SiteAssumption DEF SiteEmitted, SiteHostsAre
  <2> HIDE DEF h
  <2>3. SiteIn(hosts[h].routes) = SiteOn(h, R)
    BY <2>2 DEF SiteHostsAre, SiteEntryIs
  <2>4. PICK r \in SiteOn(h, R) : SiteHandler(r) = x
    BY <2>1, <2>3, SiteBlockOfHost
  <2> QED  BY <2>2, <2>4 DEF h
<1>2. CASE b \in SitePanelBlocks(hosts)
  <2>1. PICK r \in UNION {SiteOn(h, R) : h \in SiteIn(sitePanel)} : SiteHandler(r) = x
    BY <1>2, SitePanelHost, SitePanelHandlers
  <2>2. PICK h \in SiteIn(sitePanel) : r \in SiteOn(h, R)
    BY <2>1
  <2>3. SiteIn(sitePanel) = {h} /\ h \in SiteLabels /\ h # ":80"
    <3>1. sitePanel # <<>>
      BY <2>2 DEF SiteIn
    <3>2. PICK n \in SitePanels : sitePanel = <<n>>
      BY <3>1
    <3>3. SiteIn(sitePanel) = {n}
      BY <3>2 DEF SiteIn
    <3> QED  BY <2>2, <3>3, SiteAssumption
  <2>4. b.label[2] = ":80" \/ b.label[2] = h
    BY <1>2, <2>3, SitePanelHost
  <2> QED  BY <2>1, <2>2, <2>3, <2>4
<1> QED  BY <1>1, <1>2 DEF SiteBlocks

LEMMA SiteNothingElse == SiteTypeOK => NothingElseIsServed
<1>1. SUFFICES ASSUME SiteTypeOK, NEW m \in SiteFile(siteRow), NEW l \in m.labels,
                      NEW x \in SiteIn(m.first.body.handlers)
               PROVE  \E row \in SiteIn(siteRow) : \E r \in SiteIn(row.routes) :
                        /\ SiteHandler(r) = x
                        /\ SiteHostOf(row, r) = IF l[2] = ":80" THEN SiteIn(sitePanel) ELSE {l[2]}
  BY DEF NothingElseIsServed
<1> DEFINE hosts == SiteHosts(siteRow)
<1>2. SiteHostsAre(hosts, SiteIn(siteRow)) /\ sitePanel \in {<<>>} \cup {<<n>> : n \in SitePanels}
  BY <1>1, SiteWellMade
<1>3. PICK b \in SiteBlocks(hosts) : b.label = l /\ m.first.body = b.body
  BY SiteFileOnly
<1> HIDE DEF hosts
<1>4. PICK h, r : /\ r \in SiteOn(h, SiteIn(siteRow)) /\ SiteHandler(r) = x
                  /\ {h} = (IF b.label[2] = ":80" THEN SiteIn(sitePanel) ELSE {b.label[2]})
  BY <1>1, <1>2, <1>3, SiteHandlerFrom
<1>5. PICK row \in SiteIn(siteRow) : r \in SiteIn(row.routes) /\ SiteHostOf(row, r) = {h}
  BY <1>4, SiteOnRow
<1>6. {h} = (IF l[2] = ":80" THEN SiteIn(sitePanel) ELSE {l[2]})
  BY <1>3, <1>4
<1> QED  BY <1>4, <1>5, <1>6

(* A route of an active service is in the entry of its host. *)
LEMMA SiteRouteOn ==
    ASSUME NEW R, R \subseteq SiteRowType, NEW row \in R, NEW r \in SiteIn(row.routes),
           NEW h \in SiteHostOf(row, r), siteSvc[r.service] # "inactive",
           NEW hosts, SiteHostsAre(hosts, R)
    PROVE  r \in SiteOn(h, R) /\ h \in DOMAIN hosts /\ SiteHostOf(row, r) = {h}
<1>1. SiteHostOf(row, r) = {h}
  BY DEF SiteHostOf
<1>2. r \in SiteLive(row)
  BY DEF SiteLive
<1>3. r \in SiteOn(h, R)
  BY <1>1, <1>2 DEF SiteOn
<1>4. row \in SiteRowType /\ r \in SiteRouteType
  <2>1. row.routes \in Seq(SiteRouteType)
    BY DEF SiteRowType
  <2> QED  BY <2>1 DEF SiteIn
<1>5. h \in SiteLabels
  <2>1. CASE row.name # "*"
    BY <1>4, <2>1, SiteAssumption DEF SiteHostOf, SiteRowType
  <2>2. CASE row.name = "*"
    BY <1>4, <2>2 DEF SiteHostOf, SiteRouteType
  <2> QED  BY <2>1, <2>2
<1> QED  BY <1>1, <1>3, <1>5 DEF SiteHostsAre, SiteNamed

LEMMA SiteRoutesServed == SiteTypeOK => RoutesAreServed
<1>1. SUFFICES ASSUME SiteTypeOK, NEW row \in SiteIn(siteRow), NEW r \in SiteIn(row.routes),
                      NEW h \in SiteHostOf(row, r)
               PROVE  /\ siteSvc[r.service] = "inactive" =>
                           \A m \in SiteFile(siteRow) : SiteHandler(r) \notin SiteIn(m.first.body.handlers)
                      /\ siteSvc[r.service] # "inactive" =>
                           ((h \in SiteIn(sitePanel) => r.prefix # SiteCatchAll /\ ~r.httpOnly)
                              => \E m \in SiteFile(siteRow) :
                                   /\ <<IF r.httpOnly THEN "http" ELSE "https", h>> \in m.labels
                                   /\ SiteHandler(r) \in SiteIn(m.first.body.handlers))
  BY DEF RoutesAreServed
<1> DEFINE hosts == SiteHosts(siteRow)
           R == SiteIn(siteRow)
<1>2. /\ SiteHostsAre(hosts, R) /\ sitePanel \in {<<>>} \cup {<<n>> : n \in SitePanels}
      /\ R \subseteq SiteRowType
  BY <1>1, SiteWellMade
<1>3. ASSUME siteSvc[r.service] = "inactive", NEW m \in SiteFile(siteRow),
             SiteHandler(r) \in SiteIn(m.first.body.handlers)
      PROVE  FALSE
  <2>1. m.labels # {}
    <3>1. CASE m \in SiteMerged(SiteUnmerged(hosts))
      <4>1. PICK b \in SiteUnmerged(hosts) : m = SiteGroupBlock(SiteUnmerged(hosts), b)
        BY <3>1, SiteMergedGroups
      <4>2. b \in SiteGroup(SiteUnmerged(hosts), b)
        BY DEF SiteGroup
      <4> QED  BY <4>1, <4>2 DEF SiteGroupBlock
    <3>2. CASE m \in {[labels |-> {b.label}, first |-> b] : b \in SitePanelBlocks(hosts)}
      BY <3>2
    <3> QED  BY <3>1, <3>2 DEF SiteFile
  <2>2. PICK l \in m.labels : TRUE
    BY <2>1
  <2>3. PICK b \in SiteBlocks(hosts) : b.label = l /\ m.first.body = b.body
    BY SiteFileOnly
  <2> HIDE DEF hosts, R
  <2>4. PICK g, q : q \in SiteOn(g, R) /\ SiteHandler(q) = SiteHandler(r)
    BY <1>2, <1>3, <2>3, SiteHandlerFrom
  <2>5. siteSvc[q.service] # "inactive"
    BY <2>4, SiteOnRow
  <2>6. SiteHandler(q).serves = siteSvc[q.service] /\ SiteHandler(r).serves = siteSvc[r.service]
    BY DEF SiteHandler
  <2> QED  BY <1>3, <2>4, <2>5, <2>6
<1>4. ASSUME siteSvc[r.service] # "inactive", h \in SiteIn(sitePanel) => r.prefix # SiteCatchAll /\ ~r.httpOnly
      PROVE  \E m \in SiteFile(siteRow) : /\ <<IF r.httpOnly THEN "http" ELSE "https", h>> \in m.labels
                                          /\ SiteHandler(r) \in SiteIn(m.first.body.handlers)
  <2>1. r \in SiteOn(h, R) /\ h \in DOMAIN hosts /\ SiteHostOf(row, r) = {h}
    BY <1>1, <1>2, <1>4, SiteRouteOn
  <2>2. SUFFICES \E b \in SiteBlocks(hosts) : /\ b.label = <<IF r.httpOnly THEN "http" ELSE "https", h>>
                                              /\ SiteHandler(r) \in SiteIn(b.body.handlers)
    BY SiteFileHas
  <2> HIDE DEF hosts
  <2>3. CASE h \in SiteIn(sitePanel)
    <3> DEFINE b == [label |-> <<"https", h>>, body |-> SitePanelBody(hosts), email |-> <<"env">>]
    <3>1. b \in SiteBlocks(hosts)
      BY <2>3 DEF SiteBlocks, SitePanelBlocks
    <3>2. SiteHandler(r) \in SiteIn(SitePanelBody(hosts).handlers)
      <4>1. r \in {q \in UNION {SiteOn(g, R) : g \in SiteIn(sitePanel)} : q.prefix # SiteCatchAll}
        BY <1>4, <2>1, <2>3
      <4> HIDE DEF R
      <4> QED  BY <1>2, <4>1, SitePanelHandlers
    <3>3. b.label = <<"https", h>> /\ b.body = SitePanelBody(hosts) /\ ~r.httpOnly
      BY <1>4, <2>3
    <3> HIDE DEF b
    <3> QED  BY <3>1, <3>2, <3>3
  <2>4. CASE h \notin SiteIn(sitePanel)
    <3> DEFINE e == hosts[h]
    <3>1. e.routes \in Seq(SiteRouteType) /\ SiteIn(e.routes) = SiteOn(h, R) /\ e.routes # <<>>
      <4>1. e.routes \in Seq(SiteRouteType) /\ SiteIn(e.routes) = SiteOn(h, R)
        BY <1>2, <2>1 DEF SiteHostsAre, SiteEntryIs
      <4> QED  BY <2>1, <4>1, SiteInEmpty
    <3> HIDE DEF e
    <3>2. \A q \in SiteIn(e.routes) : q.httpOnly = r.httpOnly
      <4>1. SUFFICES ASSUME NEW q \in SiteOn(h, R) PROVE q.httpOnly = r.httpOnly
        BY <3>1
      <4>2. PICK other \in R : q \in SiteIn(other.routes) /\ SiteHostOf(other, q) = {h}
        BY SiteOnRow
      <4>3. SiteRoutesAgree
        BY <1>1 DEF SiteTypeOK
      <4> QED  BY <1>1, <2>1, <4>2, <4>3 DEF SiteRoutesAgree
    <3>3. SiteHandler(r) \in SiteIn(SiteBody(e.routes).handlers)
      <4>1. SiteIn(SiteBody(e.routes).handlers) = {SiteHandler(q) : q \in SiteIn(e.routes)}
        BY SiteBodyHandlers
      <4>2. r \in SiteIn(e.routes)
        BY <2>1, <3>1
      <4> QED  BY <4>1, <4>2
    <3>4. \A b \in SiteBlocksOf(h, e) : b \in SiteBlocks(hosts)
      BY <2>1, <2>4 DEF SiteBlocks, SiteUnmerged, SiteEmitted, e
    <3>5. CASE r.httpOnly
      <4>1. \E q \in SiteIn(e.routes) : q.httpOnly
        BY <2>1, <3>1, <3>5
      <4>2. SitePlain(h, e) \in SiteBlocksOf(h, e)
        BY <3>1, <4>1 DEF SiteBlocksOf
      <4>3. SitePlain(h, e).label = <<"http", h>> /\ SitePlain(h, e).body = SiteBody(e.routes)
        BY DEF SitePlain
      <4> QED  BY <3>3, <3>4, <3>5, <4>2, <4>3
    <3>6. CASE ~r.httpOnly
      <4>1. ~ \E q \in SiteIn(e.routes) : q.httpOnly
        BY <3>2, <3>6
      <4>2. SiteMain(h, e) \in SiteBlocksOf(h, e)
        BY <3>1, <4>1 DEF SiteBlocksOf
      <4>3. SiteMain(h, e).label = <<"https", h>> /\ SiteMain(h, e).body = SiteBody(e.routes)
        BY DEF SiteMain
      <4> QED  BY <3>3, <3>4, <3>6, <4>2, <4>3
    <3> QED  BY <3>5, <3>6
  <2> QED  BY <2>3, <2>4
<1> QED  BY <1>3, <1>4

LEMMA SiteFileSound == SiteTypeOK => SitesAreSound
<1>1. SUFFICES ASSUME SiteTypeOK PROVE SitesAreSound
  OBVIOUS
<1>2. AddressesUnique
  BY <1>1, SiteWellMade, SiteFileUnique DEF AddressesUnique
<1>3. MergeKeepsBlocks
  BY SiteMergeKeeps DEF MergeKeepsBlocks
<1> QED  BY <1>1, <1>2, <1>3, SiteOrderIrrelevant, SiteRoutesServed, SiteNothingElse DEF SitesAreSound

(* The rows after a step keep their names and the agreement of their routes
   when each is an old row but for the settings. *)
SiteSame(row, old) == row.name = old.name /\ row.routes = old.routes

LEMMA SiteRowsKept ==
    ASSUME SiteTypeOK, NEW rows \in Seq(SiteRowType), NEW g \in [DOMAIN rows -> DOMAIN siteRow],
           \A j \in DOMAIN rows : SiteSame(rows[j], siteRow[g[j]]),
           \A i, j \in DOMAIN rows : g[i] = g[j] => i = j
    PROVE  /\ \A j, k \in DOMAIN rows : rows[j].name = rows[k].name => j = k
           /\ \A row, other \in SiteIn(rows) : \A r \in SiteIn(row.routes), q \in SiteIn(other.routes) :
                SiteHostOf(row, r) \cap SiteHostOf(other, q) # {} => r.httpOnly = q.httpOnly
<1>1. ASSUME NEW j \in DOMAIN rows, NEW k \in DOMAIN rows, rows[j].name = rows[k].name
      PROVE  j = k
  <2>1. siteRow[g[j]].name = siteRow[g[k]].name /\ g[j] \in DOMAIN siteRow /\ g[k] \in DOMAIN siteRow
    BY <1>1 DEF SiteSame
  <2>2. g[j] = g[k]
    BY <2>1 DEF SiteTypeOK, SiteNamesDiffer
  <2> QED  BY <2>2
<1>2. ASSUME NEW row \in SiteIn(rows), NEW other \in SiteIn(rows),
             NEW r \in SiteIn(row.routes), NEW q \in SiteIn(other.routes),
             SiteHostOf(row, r) \cap SiteHostOf(other, q) # {}
      PROVE  r.httpOnly = q.httpOnly
  <2>1. PICK a \in SiteIn(siteRow) : SiteSame(row, a)
    BY DEF SiteIn
  <2>2. PICK b \in SiteIn(siteRow) : SiteSame(other, b)
    BY DEF SiteIn
  <2>3. r \in SiteIn(a.routes) /\ q \in SiteIn(b.routes)
    BY <2>1, <2>2 DEF SiteSame
  <2>4. SiteHostOf(a, r) = SiteHostOf(row, r) /\ SiteHostOf(b, q) = SiteHostOf(other, q)
    BY <2>1, <2>2 DEF SiteSame, SiteHostOf
  <2>5. SiteRoutesAgree
    BY DEF SiteTypeOK
  <2> QED  BY <1>2, <2>3, <2>4, <2>5 DEF SiteRoutesAgree
<1> QED  BY <1>1, <1>2

LEMMA SiteAddDomainKeeps ==
    ASSUME SiteTypeOK, SiteAddDomain
    PROVE  SiteTypeOK'
<1>1. PICK n \in SiteRowNames \ {siteRow[k].name : k \in DOMAIN siteRow}, a \in BOOLEAN :
        siteRow' = Append(siteRow, [name |-> n, active |-> a, panel |-> FALSE, routes |-> <<>>])
  BY DEF SiteAddDomain
<1> DEFINE row == [name |-> n, active |-> a, panel |-> FALSE, routes |-> <<>>]
<1>2. row \in SiteRowType /\ row.name = n /\ row.routes = <<>>
  BY DEF SiteRowType
<1> HIDE DEF row
<1>3. siteRow \in Seq(SiteRowType) /\ siteRow' = Append(siteRow, row) /\ Len(siteRow) \in Nat
      /\ DOMAIN siteRow = 1 .. Len(siteRow)
  BY <1>1 DEF row, SiteTypeOK
<1>4. /\ siteRow' \in Seq(SiteRowType) /\ SiteIn(siteRow') = SiteIn(siteRow) \cup {row}
      /\ DOMAIN siteRow' = DOMAIN siteRow \cup {Len(siteRow) + 1}
      /\ siteRow'[Len(siteRow) + 1] = row /\ \A k \in DOMAIN siteRow : siteRow'[k] = siteRow[k]
  BY <1>2, <1>3, SiteInAppend
<1>5. SiteNamesDiffer'
  <2>1. \A k \in DOMAIN siteRow : siteRow[k].name # n
    BY <1>1
  <2> QED  BY <1>2, <1>4, <2>1 DEF SiteTypeOK, SiteNamesDiffer
<1>6. SiteRoutesAgree'
  <2>1. \A r \in SiteIn(row.routes) : FALSE
    BY <1>2 DEF SiteIn
  <2>2. \A x, y \in SiteIn(siteRow) : \A r \in SiteIn(x.routes), q \in SiteIn(y.routes) :
          SiteHostOf(x, r) \cap SiteHostOf(y, q) # {} => r.httpOnly = q.httpOnly
    BY DEF SiteTypeOK, SiteRoutesAgree
  <2> QED  BY <1>4, <2>1, <2>2 DEF SiteRoutesAgree
<1>7. siteSvc' = siteSvc /\ sitePanel' = sitePanel
  BY DEF SiteAddDomain
<1> QED  BY <1>4, <1>5, <1>6, <1>7 DEF SiteTypeOK

(* A route that is added agrees with those of its host. *)
LEMMA SiteAddRouteKeeps ==
    ASSUME SiteTypeOK, SiteAddRoute
    PROVE  SiteTypeOK'
<1>1. PICK k \in DOMAIN siteRow, l \in SiteLabels, p \in SitePrefixes, o \in BOOLEAN, s \in SiteServices :
        LET route == [label |-> l, prefix |-> p, httpOnly |-> o, service |-> s]
            host == SiteHostOf(siteRow[k], route)
            there == UNION {SiteOnHost(h) : h \in host}
        IN /\ siteRow[k].name # "*" => l = SiteBase
           /\ \A q \in there : LET r == siteRow[q[1]].routes[q[2]] IN r.prefix # p /\ r.httpOnly = o
           /\ host \cap SiteIn(sitePanel) # {} => p # SiteCatchAll /\ ~o
           /\ siteRow' = [siteRow EXCEPT ![k].routes = Append(@, route)]
  BY DEF SiteAddRoute
<1> DEFINE route == [label |-> l, prefix |-> p, httpOnly |-> o, service |-> s]
           host == SiteHostOf(siteRow[k], route)
<1>2. route \in SiteRouteType /\ route.httpOnly = o
  BY DEF SiteRouteType
<1> HIDE DEF route
<1>3. /\ \A q \in UNION {SiteOnHost(h) : h \in host} : siteRow[q[1]].routes[q[2]].httpOnly = o
      /\ siteRow' = [siteRow EXCEPT ![k].routes = Append(siteRow[k].routes, route)]
  BY <1>1 DEF route
<1>4. siteRow \in Seq(SiteRowType) /\ siteRow[k] \in SiteRowType /\ siteRow[k].routes \in Seq(SiteRouteType)
  <2>1. siteRow \in Seq(SiteRowType)
    BY DEF SiteTypeOK
  <2>2. siteRow[k] \in SiteRowType
    BY <2>1
  <2> QED  BY <2>1, <2>2 DEF SiteRowType
<1> DEFINE row == [siteRow[k] EXCEPT !.routes = Append(siteRow[k].routes, route)]
<1>5. /\ Append(siteRow[k].routes, route) \in Seq(SiteRouteType)
      /\ SiteIn(Append(siteRow[k].routes, route)) = SiteIn(siteRow[k].routes) \cup {route}
  BY <1>2, <1>4, SiteInAppend
<1>6. row \in SiteRowType /\ row.name = siteRow[k].name /\ row.routes = Append(siteRow[k].routes, route)
  BY <1>4, <1>5 DEF SiteRowType
<1> HIDE DEF row
<1>7. siteRow' = [siteRow EXCEPT ![k] = row]
  BY <1>3 DEF row
<1>8. /\ siteRow' \in Seq(SiteRowType) /\ DOMAIN siteRow' = DOMAIN siteRow /\ siteRow'[k] = row
      /\ \A j \in DOMAIN siteRow : j # k => siteRow'[j] = siteRow[j]
  BY <1>4, <1>6, <1>7
<1>9. SiteNamesDiffer'
  <2>1. \A j \in DOMAIN siteRow : siteRow'[j].name = siteRow[j].name
    BY <1>6, <1>8
  <2> QED  BY <1>8, <2>1 DEF SiteTypeOK, SiteNamesDiffer
<1>10. ASSUME NEW j \in DOMAIN siteRow, NEW r \in SiteIn(siteRow[j].routes),
              SiteHostOf(siteRow[j], r) \cap host # {}
       PROVE  r.httpOnly = o
  <2>1. PICK i \in DOMAIN siteRow[j].routes : r = siteRow[j].routes[i]
    BY DEF SiteIn
  <2>2. PICK h \in host : h \in SiteHostOf(siteRow[j], r)
    BY <1>10
  <2>3. SiteHostOf(siteRow[j], r) = {h}
    BY <2>2 DEF SiteHostOf
  <2>4. <<j, i>> \in SiteAllRoutes
    BY <2>1 DEF SiteAllRoutes
  <2>5. <<j, i>> \in SiteOnHost(h)
    BY <2>1, <2>3, <2>4 DEF SiteOnHost
  <2> HIDE DEF host
  <2>6. siteRow[<<j, i>>[1]].routes[<<j, i>>[2]].httpOnly = o
    BY <1>3, <2>2, <2>5
  <2> QED  BY <2>1, <2>6
<1>11. \A x : SiteHostOf(row, x) = SiteHostOf(siteRow[k], x)
  BY <1>6 DEF SiteHostOf
<1>12. \A j \in DOMAIN siteRow : \A x : SiteHostOf(siteRow'[j], x) = SiteHostOf(siteRow[j], x)
  BY <1>8, <1>11
<1>13. \A j \in DOMAIN siteRow : \A r \in SiteIn(siteRow'[j].routes) :
         r \in SiteIn(siteRow[j].routes) \/ (j = k /\ r = route)
  <2>1. ASSUME NEW j \in DOMAIN siteRow, NEW r \in SiteIn(siteRow'[j].routes)
        PROVE  r \in SiteIn(siteRow[j].routes) \/ (j = k /\ r = route)
    <3>1. CASE j # k
      BY <1>8, <2>1, <3>1
    <3>2. CASE j = k
      <4>1. siteRow'[j].routes = Append(siteRow[k].routes, route)
        BY <1>6, <1>8, <3>2
      <4>2. r \in SiteIn(siteRow[k].routes) \cup {route}
        BY <1>5, <4>1
      <4> QED  BY <3>2, <4>2
    <3> QED  BY <3>1, <3>2
  <2> QED  BY <2>1
<1>14. ASSUME NEW i \in DOMAIN siteRow, NEW j \in DOMAIN siteRow,
              NEW r \in SiteIn(siteRow'[i].routes), NEW q \in SiteIn(siteRow'[j].routes),
              SiteHostOf(siteRow'[i], r) \cap SiteHostOf(siteRow'[j], q) # {}
       PROVE  r.httpOnly = q.httpOnly
  <2>1. SiteHostOf(siteRow[i], r) \cap SiteHostOf(siteRow[j], q) # {}
    BY <1>12, <1>14
  <2>2. CASE r \in SiteIn(siteRow[i].routes) /\ q \in SiteIn(siteRow[j].routes)
    <3>1. siteRow[i] \in SiteIn(siteRow) /\ siteRow[j] \in SiteIn(siteRow)
      BY DEF SiteIn
    <3> QED  BY <2>1, <2>2, <3>1 DEF SiteTypeOK, SiteRoutesAgree
  <2>3. CASE i = k /\ r = route /\ q \in SiteIn(siteRow[j].routes)
    BY <1>2, <1>10, <2>1, <2>3
  <2>4. CASE j = k /\ q = route /\ r \in SiteIn(siteRow[i].routes)
    BY <1>2, <1>10, <2>1, <2>4
  <2>5. CASE i = k /\ r = route /\ j = k /\ q = route
    BY <2>5
  <2> QED  BY <1>13, <2>2, <2>3, <2>4, <2>5
<1>15. SiteRoutesAgree'
  <2>1. \A x \in SiteIn(siteRow') : \E j \in DOMAIN siteRow : x = siteRow'[j]
    BY <1>8 DEF SiteIn
  <2> QED  BY <1>14, <2>1 DEF SiteRoutesAgree
<1>16. siteSvc' = siteSvc /\ sitePanel' = sitePanel
  BY DEF SiteAddRoute
<1> QED  BY <1>8, <1>9, <1>15, <1>16 DEF SiteTypeOK

LEMMA SiteSwitchKeeps ==
    ASSUME SiteTypeOK, SiteSwitch
    PROVE  SiteTypeOK'
<1>1. /\ siteRow \in Seq(SiteRowType) /\ DOMAIN siteRow = 1 .. Len(siteRow) /\ Len(siteRow) \in Nat
      /\ siteSvc' = siteSvc /\ sitePanel' = sitePanel
  BY DEF SiteTypeOK, SiteSwitch
<1>2. SUFFICES \E g \in [DOMAIN siteRow' -> DOMAIN siteRow] :
                 /\ siteRow' \in Seq(SiteRowType)
                 /\ \A j \in DOMAIN siteRow' : SiteSame(siteRow'[j], siteRow[g[j]])
                 /\ \A i, j \in DOMAIN siteRow' : g[i] = g[j] => i = j
  BY <1>1, SiteRowsKept DEF SiteTypeOK, SiteNamesDiffer, SiteRoutesAgree
<1>3. PICK k \in DOMAIN siteRow :
        \/ siteRow' = [siteRow EXCEPT ![k].panel = ~siteRow[k].panel]
        \/ siteRow' = [siteRow EXCEPT ![k].active = ~siteRow[k].active]
        \/ siteRow' = SiteWithout(siteRow, k)
  BY DEF SiteSwitch
<1>4. siteRow[k] \in SiteRowType
  BY <1>1
<1>5. ASSUME NEW row \in SiteRowType, SiteSame(row, siteRow[k]), siteRow' = [siteRow EXCEPT ![k] = row]
      PROVE  \E g \in [DOMAIN siteRow' -> DOMAIN siteRow] :
               /\ siteRow' \in Seq(SiteRowType)
               /\ \A j \in DOMAIN siteRow' : SiteSame(siteRow'[j], siteRow[g[j]])
               /\ \A i, j \in DOMAIN siteRow' : g[i] = g[j] => i = j
  <2> DEFINE g == [j \in DOMAIN siteRow' |-> j]
  <2>1. siteRow' \in Seq(SiteRowType) /\ DOMAIN siteRow' = DOMAIN siteRow
    BY <1>1, <1>5
  <2>2. g \in [DOMAIN siteRow' -> DOMAIN siteRow]
    BY <2>1
  <2>3. \A j \in DOMAIN siteRow' : SiteSame(siteRow'[j], siteRow[g[j]])
    BY <1>5, <2>1 DEF SiteSame
  <2> QED  BY <2>1, <2>2, <2>3
<1>6. CASE siteRow' = [siteRow EXCEPT ![k].panel = ~siteRow[k].panel]
  <2> DEFINE row == [siteRow[k] EXCEPT !.panel = ~siteRow[k].panel]
  <2>1. row \in SiteRowType /\ SiteSame(row, siteRow[k])
    BY <1>4 DEF SiteRowType, SiteSame
  <2>2. siteRow' = [siteRow EXCEPT ![k] = row]
    BY <1>6
  <2> HIDE DEF row
  <2> QED  BY <1>5, <2>1, <2>2
<1>7. CASE siteRow' = [siteRow EXCEPT ![k].active = ~siteRow[k].active]
  <2> DEFINE row == [siteRow[k] EXCEPT !.active = ~siteRow[k].active]
  <2>1. row \in SiteRowType /\ SiteSame(row, siteRow[k])
    BY <1>4 DEF SiteRowType, SiteSame
  <2>2. siteRow' = [siteRow EXCEPT ![k] = row]
    BY <1>7
  <2> HIDE DEF row
  <2> QED  BY <1>5, <2>1, <2>2
<1>8. CASE siteRow' = SiteWithout(siteRow, k)
  <2> DEFINE n == Len(siteRow) - 1
             g == [j \in 1 .. n |-> IF j < k THEN j ELSE j + 1]
  <2>1. n \in Nat /\ k \in 1 .. Len(siteRow)
    BY <1>1
  <2>2. siteRow' = [j \in 1 .. n |-> IF j < k THEN siteRow[j] ELSE siteRow[j + 1]]
    BY <1>8 DEF SiteWithout
  <2>3. \A j \in 1 .. n : j \in 1 .. Len(siteRow) /\ j + 1 \in 1 .. Len(siteRow)
    BY <1>1, <2>1
  <2>4. DOMAIN siteRow' = 1 .. n /\ \A j \in 1 .. n : siteRow'[j] = siteRow[g[j]] /\ g[j] \in 1 .. Len(siteRow)
    BY <2>2, <2>3
  <2>5. siteRow' \in [1 .. n -> SiteRowType]
    <3>1. \A j \in 1 .. n : siteRow'[j] \in SiteRowType
      BY <1>1, <2>4
    <3>2. siteRow' = [j \in 1 .. n |-> siteRow'[j]]
      BY <2>2
    <3> HIDE DEF n
    <3> QED  BY <3>1, <3>2
  <2>6. siteRow' \in Seq(SiteRowType)
    <3> HIDE DEF n
    <3> QED  BY <2>1, <2>5
  <2>7. g \in [DOMAIN siteRow' -> DOMAIN siteRow]
    BY <1>1, <2>4
  <2>8. \A i, j \in DOMAIN siteRow' : g[i] = g[j] => i = j
    BY <2>1, <2>4
  <2>9. \A j \in DOMAIN siteRow' : SiteSame(siteRow'[j], siteRow[g[j]])
    BY <2>4 DEF SiteSame
  <2> QED  BY <2>6, <2>7, <2>8, <2>9
<1> QED  BY <1>3, <1>6, <1>7, <1>8

LEMMA SiteTypeInit == SiteInit => SiteTypeOK
<1>1. SiteInit => /\ siteRow \in Seq(SiteRowType) /\ DOMAIN siteRow = {} /\ SiteIn(siteRow) = {}
                  /\ siteSvc \in [SiteServices -> {"inactive", "pending", "ready"}] /\ sitePanel = <<>>
  BY DEF SiteInit, SiteIn
<1> QED  BY <1>1 DEF SiteTypeOK, SiteNamesDiffer, SiteRoutesAgree

LEMMA SiteTypeStep == SiteTypeOK /\ [SiteNext]_SiteVars => SiteTypeOK'
<1>1. SUFFICES ASSUME SiteTypeOK, [SiteNext]_SiteVars PROVE SiteTypeOK'
  OBVIOUS
<1>2. CASE SiteAddDomain
  BY <1>1, <1>2, SiteAddDomainKeeps
<1>3. CASE SiteAddRoute
  BY <1>1, <1>3, SiteAddRouteKeeps
<1>4. CASE SiteSwitch
  BY <1>1, <1>4, SiteSwitchKeeps
<1>5. CASE SiteServiceChanges
  BY <1>1, <1>5 DEF SiteServiceChanges, SiteTypeOK, SiteNamesDiffer, SiteRoutesAgree
<1>6. CASE SiteSetPanel
  BY <1>1, <1>6 DEF SiteSetPanel, SiteTypeOK, SiteNamesDiffer, SiteRoutesAgree
<1>7. CASE UNCHANGED SiteVars
  BY <1>1, <1>7 DEF SiteVars, SiteTypeOK, SiteNamesDiffer, SiteRoutesAgree
<1> QED  BY <1>1, <1>2, <1>3, <1>4, <1>5, <1>6, <1>7 DEF SiteNext

(* Caddy accepts every file the rows give rise to, and it serves what the rows
   say, in whatever order they came (buildCaddyConfig, caddy.ts:659-811). *)
THEOREM SitesSound == SiteSpec => []SitesAreSound
<1>1. SiteTypeOK => SitesAreSound
  BY SiteFileSound
<1> QED  BY <1>1, SiteTypeInit, SiteTypeStep, PTL DEF SiteSpec

-----------------------------------------------------------------------------
(***************************************************************************)
(* The directives of static services.  The lexer is followed symbol by     *)
(* symbol (FragKind, FragDone) through an accepted text, through it with   *)
(* the line ends that indentation gives it, and through the text that is   *)
(* placed: their states stay alike (FragLike), but for carriage returns at *)
(* the end and white space at the start of lines within quotes, and white  *)
(* space at the end changes no token (FragIdle), where what is trimmed is  *)
(* white space for the lexer (FragTrimsBlanks).  So the placed text has    *)
(* the tokens of the accepted one, whose braces balance because            *)
(* checkCaddyFragment's stack of open blocks is as long as opening braces  *)
(* outnumber closing ones.                                                 *)
(***************************************************************************)
(* What lines and tokens are made of, and the states of the lexer. *)
FragChars == FragSymbols \cup {"sp", "cr", "nl", "dq", "respond", "tag", "root"}
FragTokens == [text : Seq(FragChars), quoted : BOOLEAN, line : Nat, endLine : Nat]
FragStates ==
  [tokens : Seq(FragTokens), text : Seq(FragChars), in : BOOLEAN, quote : {FragNoQuote, "dq", "bt"},
   quoteLine : Nat, tokenLine : Nat, line : Nat, continuation : SUBSET Nat, escaped : BOOLEAN,
   comment : BOOLEAN, err : Nat]

(* What the lexer does with a symbol. *)
FragKinds == {"stay", "skip", "escape", "inside", "fail", "close", "end", "comment", "open", "add"}

FragKind(s, ch, next) ==
  IF s.err # 0 \/ s.comment THEN "stay"
  ELSE IF s.escaped THEN "skip"
  ELSE IF s.quote # FragNoQuote
  THEN IF s.quote = "dq" /\ ch = "bs" /\ next = "dq" THEN "escape"
       ELSE IF ch # s.quote THEN "inside" ELSE IF next \notin FragBlanks THEN "fail" ELSE "close"
  ELSE IF ch \in FragLexBlanks THEN "end"
  ELSE IF ~s.in /\ ch = "hash" THEN "comment"
  ELSE IF ~s.in /\ ch \in FragQuotes THEN "open"
  ELSE IF ch \in FragQuotes \cup {"bs"} \/ (~s.in /\ ch = "<<") THEN "fail" ELSE "add"

(* The state after a symbol that is taken as k. *)
FragDone(r, s, k, ch) ==
  /\ r.tokens = IF k \in {"close", "end"} /\ s.in THEN Append(s.tokens, FragToken(s, k = "close")) ELSE s.tokens
  /\ r.text = IF k \in {"close", "end"} THEN <<>> ELSE IF k = "escape" THEN Append(s.text, "dq")
              ELSE IF k \in {"inside", "add"} THEN Append(s.text, ch) ELSE s.text
  /\ r.in = IF k \in {"close", "end"} THEN FALSE ELSE IF k \in {"open", "add"} THEN TRUE ELSE s.in
  /\ r.quote = IF k = "open" THEN ch ELSE IF k = "close" THEN FragNoQuote ELSE s.quote
  /\ r.quoteLine = IF k = "open" THEN s.line ELSE s.quoteLine
  /\ r.tokenLine = IF k = "open" \/ (k = "add" /\ ~s.in) THEN s.line ELSE s.tokenLine
  /\ r.escaped = IF k = "escape" THEN TRUE ELSE IF k = "skip" THEN FALSE ELSE s.escaped
  /\ r.comment = IF k = "comment" THEN TRUE ELSE s.comment
  /\ r.err = IF k = "fail" THEN s.line ELSE s.err
  /\ r.line = s.line /\ r.continuation = s.continuation

(* A state is its fields. *)
LEMMA FragSameFields ==
    ASSUME NEW s \in FragStates, NEW t \in FragStates,
           s.tokens = t.tokens, s.text = t.text, s.in = t.in, s.quote = t.quote, s.quoteLine = t.quoteLine,
           s.tokenLine = t.tokenLine, s.line = t.line, s.continuation = t.continuation,
           s.escaped = t.escaped, s.comment = t.comment, s.err = t.err
    PROVE  s = t
  BY DEF FragStates

LEMMA FragBlankChars ==
    FragLexBlanks \subseteq FragChars /\ FragLexBlanks \subseteq FragBlanks /\ "sp" \in FragLexBlanks /\ "cr" \in FragLexBlanks
  BY DEF FragLexBlanks, FragBlanks, FragChars

LEMMA FragKindIs ==
    ASSUME NEW s, NEW ch, NEW next
    PROVE  FragKind(s, ch, next) \in FragKinds
  BY DEF FragKind, FragKinds

LEMMA FragEndIs ==
    ASSUME NEW s \in FragStates, NEW quoted \in BOOLEAN
    PROVE  LET r == FragEnd(s, quoted) IN
           /\ r \in FragStates
           /\ r.tokens = IF s.in THEN Append(s.tokens, FragToken(s, quoted)) ELSE s.tokens
           /\ r.text = <<>> /\ r.in = FALSE /\ r.quote = s.quote /\ r.quoteLine = s.quoteLine
           /\ r.tokenLine = s.tokenLine /\ r.line = s.line /\ r.continuation = s.continuation
           /\ r.escaped = s.escaped /\ r.comment = s.comment /\ r.err = s.err
<1> DEFINE u == IF s.in THEN Append(s.tokens, FragToken(s, quoted)) ELSE s.tokens
<1>1. FragToken(s, quoted) \in FragTokens
  BY DEF FragToken, FragTokens, FragStates
<1>2. u \in Seq(FragTokens)
  BY <1>1 DEF FragStates
<1>3. FragEnd(s, quoted) = [s EXCEPT !.text = <<>>, !.in = FALSE, !.tokens = u]
  BY DEF FragEnd
<1>4. <<>> \in Seq(FragChars)
  OBVIOUS
<1> HIDE DEF u
<1>5. FragEnd(s, quoted) \in FragStates
  BY <1>2, <1>3, <1>4 DEF FragStates
<1>6. LET r == FragEnd(s, quoted) IN
      /\ r.tokens = u
      /\ r.text = <<>> /\ r.in = FALSE /\ r.quote = s.quote /\ r.quoteLine = s.quoteLine
      /\ r.tokenLine = s.tokenLine /\ r.line = s.line /\ r.continuation = s.continuation
      /\ r.escaped = s.escaped /\ r.comment = s.comment /\ r.err = s.err
  BY <1>3 DEF FragStates
<1> QED  BY <1>5, <1>6 DEF u

LEMMA FragStepIs ==
    ASSUME NEW s \in FragStates, NEW ch \in FragChars, NEW next
    PROVE  /\ FragStep(s, ch, next) \in FragStates
           /\ FragDone(FragStep(s, ch, next), s, FragKind(s, ch, next), ch)
<1> DEFINE r == FragStep(s, ch, next)
           k == FragKind(s, ch, next)
<1>1. s.text \in Seq(FragChars) /\ s.line \in Nat /\ s.quote \in {FragNoQuote, "dq", "bt"} /\ "dq" \in FragChars
  BY DEF FragStates, FragChars
<1>2. Append(s.text, ch) \in Seq(FragChars) /\ Append(s.text, "dq") \in Seq(FragChars)
  BY <1>1
<1>3. CASE k = "stay"
  <2>1. r = s
    BY <1>3 DEF FragKind, FragStep
  <2> HIDE DEF r, k
  <2> QED  BY <1>3, <2>1 DEF FragDone, r, k
<1>4. CASE k = "skip"
  <2>1. r = [s EXCEPT !.escaped = FALSE]
    BY <1>4 DEF FragKind, FragStep
  <2> HIDE DEF r, k
  <2>2. r \in FragStates
    BY <2>1 DEF FragStates
  <2>3. FragDone(r, s, k, ch)
    BY <1>4, <2>1 DEF FragDone, FragStates
  <2> QED  BY <2>2, <2>3 DEF r, k
<1>5. CASE k = "escape"
  <2>1. r = [s EXCEPT !.text = Append(s.text, "dq"), !.escaped = TRUE]
    BY <1>5 DEF FragKind, FragStep, FragQuoted
  <2> HIDE DEF r, k
  <2>2. r \in FragStates
    BY <1>2, <2>1 DEF FragStates
  <2>3. FragDone(r, s, k, ch)
    BY <1>5, <2>1 DEF FragDone, FragStates
  <2> QED  BY <2>2, <2>3 DEF r, k
<1>6. CASE k = "inside"
  <2>1. r = [s EXCEPT !.text = Append(s.text, ch)]
    BY <1>6 DEF FragKind, FragStep, FragQuoted
  <2> HIDE DEF r, k
  <2>2. r \in FragStates
    BY <1>2, <2>1 DEF FragStates
  <2>3. FragDone(r, s, k, ch)
    BY <1>6, <2>1 DEF FragDone, FragStates
  <2> QED  BY <2>2, <2>3 DEF r, k
<1>7. CASE k = "fail"
  <2>1. r = [s EXCEPT !.err = s.line]
    BY <1>7 DEF FragKind, FragStep, FragQuoted, FragUnquoted, FragFail
  <2> HIDE DEF r, k
  <2>2. r \in FragStates
    BY <1>1, <2>1 DEF FragStates
  <2>3. FragDone(r, s, k, ch)
    BY <1>7, <2>1 DEF FragDone, FragStates
  <2> QED  BY <2>2, <2>3 DEF r, k
<1>8. CASE k = "close"
  <2> DEFINE e == FragEnd(s, TRUE)
  <2>1. r = [e EXCEPT !.quote = FragNoQuote]
    BY <1>8 DEF FragKind, FragStep, FragQuoted
  <2>2. /\ e \in FragStates
        /\ e.tokens = IF s.in THEN Append(s.tokens, FragToken(s, TRUE)) ELSE s.tokens
        /\ e.text = <<>> /\ e.in = FALSE /\ e.quote = s.quote /\ e.quoteLine = s.quoteLine
        /\ e.tokenLine = s.tokenLine /\ e.line = s.line /\ e.continuation = s.continuation
        /\ e.escaped = s.escaped /\ e.comment = s.comment /\ e.err = s.err
    BY FragEndIs
  <2> HIDE DEF r, k, e
  <2>3. r \in FragStates
    BY <2>1, <2>2 DEF FragStates
  <2>4. /\ r.tokens = e.tokens /\ r.text = e.text /\ r.in = e.in /\ r.quote = FragNoQuote /\ r.quoteLine = e.quoteLine
        /\ r.tokenLine = e.tokenLine /\ r.line = e.line /\ r.continuation = e.continuation
        /\ r.escaped = e.escaped /\ r.comment = e.comment /\ r.err = e.err
    BY <2>1, <2>2 DEF FragStates
  <2>5. FragDone(r, s, k, ch)
    BY <1>8, <2>2, <2>4 DEF FragDone
  <2> QED  BY <2>3, <2>5 DEF r, k
<1>9. CASE k = "end"
  <2> DEFINE e == FragEnd(s, FALSE)
  <2>1. r = e
    BY <1>9 DEF FragKind, FragStep, FragUnquoted
  <2>2. /\ e \in FragStates
        /\ e.tokens = IF s.in THEN Append(s.tokens, FragToken(s, FALSE)) ELSE s.tokens
        /\ e.text = <<>> /\ e.in = FALSE /\ e.quote = s.quote /\ e.quoteLine = s.quoteLine
        /\ e.tokenLine = s.tokenLine /\ e.line = s.line /\ e.continuation = s.continuation
        /\ e.escaped = s.escaped /\ e.comment = s.comment /\ e.err = s.err
    BY FragEndIs
  <2>3. (k = "close") = FALSE
    BY <1>9
  <2> HIDE DEF r, k, e
  <2>4. FragDone(e, s, k, ch)
    BY <1>9, <2>2, <2>3 DEF FragDone
  <2> QED  BY <2>1, <2>2, <2>4 DEF r, k
<1>10. CASE k = "comment"
  <2>1. r = [s EXCEPT !.comment = TRUE]
    BY <1>10 DEF FragKind, FragStep, FragUnquoted
  <2> HIDE DEF r, k
  <2>2. r \in FragStates
    BY <2>1 DEF FragStates
  <2>3. FragDone(r, s, k, ch)
    BY <1>10, <2>1 DEF FragDone, FragStates
  <2> QED  BY <2>2, <2>3 DEF r, k
<1>11. CASE k = "open"
  <2>1. r = [s EXCEPT !.quote = ch, !.quoteLine = s.line, !.in = TRUE, !.tokenLine = s.line] /\ ch \in FragQuotes
    BY <1>11 DEF FragKind, FragStep, FragUnquoted
  <2> HIDE DEF r, k
  <2>2. r \in FragStates
    BY <1>1, <2>1 DEF FragStates, FragQuotes
  <2>3. FragDone(r, s, k, ch)
    BY <1>11, <2>1 DEF FragDone, FragStates
  <2> QED  BY <2>2, <2>3 DEF r, k
<1>12. CASE k = "add"
  <2> DEFINE l == IF s.in THEN s.tokenLine ELSE s.line
  <2>1. r = [s EXCEPT !.text = Append(s.text, ch), !.in = TRUE, !.tokenLine = l]
    BY <1>12 DEF FragKind, FragStep, FragUnquoted
  <2>2. l \in Nat
    BY DEF FragStates
  <2>3. l = IF k = "open" \/ (k = "add" /\ ~s.in) THEN s.line ELSE s.tokenLine
    BY <1>12
  <2> HIDE DEF r, k, l
  <2>4. r \in FragStates
    BY <1>2, <2>1, <2>2 DEF FragStates
  <2>5. FragDone(r, s, k, ch)
    BY <1>12, <2>1, <2>3 DEF FragDone, FragStates
  <2> QED  BY <2>4, <2>5 DEF r, k
<1>13. k \in FragKinds
  BY FragKindIs
<1> QED  BY <1>3, <1>4, <1>5, <1>6, <1>7, <1>8, <1>9, <1>10, <1>11, <1>12, <1>13 DEF FragKinds

LEMMA FragNewLineIs ==
    ASSUME NEW s \in FragStates
    PROVE  LET r == FragNewLine(s) IN
           /\ r \in FragStates
           /\ s.err # 0 => r = s
           /\ s.err = 0 =>
                /\ r.line = s.line + 1 /\ r.quote = s.quote /\ r.quoteLine = s.quoteLine
                /\ r.tokenLine = s.tokenLine /\ r.escaped = s.escaped /\ r.err = 0
           /\ s.err = 0 /\ s.quote # FragNoQuote =>
                /\ r.tokens = s.tokens /\ r.text = Append(s.text, "nl") /\ r.in = s.in /\ r.comment = s.comment
                /\ r.continuation = s.continuation \cup {s.line + 1}
           /\ s.err = 0 /\ s.quote = FragNoQuote =>
                /\ r.tokens = IF s.in THEN Append(s.tokens, FragToken(s, FALSE)) ELSE s.tokens
                /\ r.text = <<>> /\ r.in = FALSE /\ r.comment = FALSE /\ r.continuation = s.continuation
<1> DEFINE r == FragNewLine(s)
<1>1. CASE s.err # 0
  BY <1>1 DEF FragNewLine
<1>2. CASE s.err = 0 /\ s.quote # FragNoQuote
  <2>1. r = [s EXCEPT !.line = s.line + 1, !.continuation = s.continuation \cup {s.line + 1}, !.text = Append(s.text, "nl")]
    BY <1>2 DEF FragNewLine
  <2>2. s.line + 1 \in Nat /\ s.continuation \cup {s.line + 1} \in SUBSET Nat /\ Append(s.text, "nl") \in Seq(FragChars)
    BY DEF FragStates, FragChars
  <2> HIDE DEF r
  <2>3. r \in FragStates
    BY <2>1, <2>2 DEF FragStates
  <2>4. /\ r.line = s.line + 1 /\ r.quote = s.quote /\ r.quoteLine = s.quoteLine
        /\ r.tokenLine = s.tokenLine /\ r.escaped = s.escaped /\ r.err = s.err
        /\ r.tokens = s.tokens /\ r.text = Append(s.text, "nl") /\ r.in = s.in /\ r.comment = s.comment
        /\ r.continuation = s.continuation \cup {s.line + 1}
    BY <2>1 DEF FragStates
  <2> QED  BY <1>2, <2>3, <2>4 DEF r
<1>3. CASE s.err = 0 /\ s.quote = FragNoQuote
  <2> DEFINE e == FragEnd(s, FALSE)
  <2>1. r = [e EXCEPT !.line = s.line + 1, !.comment = FALSE]
    BY <1>3 DEF FragNewLine
  <2>2. /\ e \in FragStates
        /\ e.tokens = IF s.in THEN Append(s.tokens, FragToken(s, FALSE)) ELSE s.tokens
        /\ e.text = <<>> /\ e.in = FALSE /\ e.quote = s.quote /\ e.quoteLine = s.quoteLine
        /\ e.tokenLine = s.tokenLine /\ e.line = s.line /\ e.continuation = s.continuation
        /\ e.escaped = s.escaped /\ e.comment = s.comment /\ e.err = s.err
    BY FragEndIs
  <2>3. s.line + 1 \in Nat
    BY DEF FragStates
  <2> HIDE DEF r, e
  <2>4. r \in FragStates
    BY <2>1, <2>2, <2>3 DEF FragStates
  <2>5. /\ r.line = s.line + 1 /\ r.quote = e.quote /\ r.quoteLine = e.quoteLine
        /\ r.tokenLine = e.tokenLine /\ r.escaped = e.escaped /\ r.err = e.err
        /\ r.tokens = e.tokens /\ r.text = e.text /\ r.in = e.in /\ r.comment = FALSE
        /\ r.continuation = e.continuation
    BY <2>1, <2>2 DEF FragStates
  <2> QED  BY <1>3, <2>2, <2>4, <2>5 DEF r
<1> QED  BY <1>1, <1>2, <1>3

(* The symbol after the i-th of a line. *)
FragNext(line, i) == IF i < Len(line) THEN line[i + 1] ELSE "nl"

(* The states after each symbol of a line, and the equation that defines them. *)
FragAlongRun(f, s, line, m) ==
  f[0] = s /\ \A n \in 1 .. m : f[n] = FragStep(f[n - 1], line[n], FragNext(line, n))

FragAlongEqn(f, s, line) ==
  f = [n \in 0 .. Len(line) |-> IF n = 0 THEN s ELSE FragStep(f[n - 1], line[n], FragNext(line, n))]

(* FragAlong, unfolded symbol by symbol. *)
LEMMA FragAlongSteps ==
    ASSUME NEW s, NEW line, Len(line) \in Nat
    PROVE  FragAlongRun(FragAlong(s, line), s, line, Len(line))
<1> DEFINE S == {m \in 0 .. Len(line) : \E f : FragAlongRun(f, s, line, m)}
           f == CHOOSE f : FragAlongEqn(f, s, line)
<1>1. 0 \in S
  <2>1. FragAlongRun([x \in {0} |-> s], s, line, 0)
    BY DEF FragAlongRun
  <2> QED  BY <2>1
<1>2. ASSUME NEW m \in 0 .. Len(line), m \in S, m < Len(line)
      PROVE  m + 1 \in S
  <2>1. PICK e : FragAlongRun(e, s, line, m)
    BY <1>2
  <2> DEFINE g == [n \in 0 .. (m + 1) |-> IF n = m + 1 THEN FragStep(e[n - 1], line[n], FragNext(line, n)) ELSE e[n]]
  <2>2. m \in Nat /\ m + 1 \in 0 .. Len(line)
    BY <1>2
  <2>3. g[0] = s
    BY <2>1, <2>2 DEF FragAlongRun
  <2>4. ASSUME NEW n \in 1 .. (m + 1)
        PROVE  g[n] = FragStep(g[n - 1], line[n], FragNext(line, n))
    <3>1. n \in 0 .. (m + 1) /\ n - 1 \in 0 .. (m + 1) /\ n - 1 # m + 1
      BY <2>2
    <3>2. g[n - 1] = e[n - 1] /\ g[0] = e[0]
      BY <2>2, <3>1
    <3>3. CASE n = m + 1
      <4>1. g[n] = FragStep(e[n - 1], line[n], FragNext(line, n))
        BY <3>1, <3>3
      <4> HIDE DEF g
      <4> QED  BY <3>2, <4>1
    <3>4. CASE n # m + 1
      <4>1. n \in 1 .. m
        BY <2>2, <3>4
      <4>2. g[n] = e[n]
        BY <3>1, <3>4
      <4> HIDE DEF g
      <4> QED  BY <2>1, <3>2, <4>1, <4>2 DEF FragAlongRun
    <3> QED  BY <3>3, <3>4
  <2>5. FragAlongRun(g, s, line, m + 1)
    <3> HIDE DEF g
    <3> QED  BY <2>3, <2>4 DEF FragAlongRun
  <2> QED  BY <2>2, <2>5
<1>3. Len(line) \in S
  <2> HIDE DEF S
  <2>1. SiteInductive(S, Len(line))
    BY <1>1, <1>2 DEF SiteInductive
  <2> QED  BY <2>1, SiteInduct
<1>4. PICK e : FragAlongRun(e, s, line, Len(line))
  BY <1>3
<1> DEFINE g == [n \in 0 .. Len(line) |-> e[n]]
<1>5. FragAlongEqn(g, s, line)
  <2>1. ASSUME NEW n \in 0 .. Len(line)
        PROVE  e[n] = IF n = 0 THEN s ELSE FragStep(g[n - 1], line[n], FragNext(line, n))
    <3>1. n = 0 \/ (n \in 1 .. Len(line) /\ n - 1 \in 0 .. Len(line))
      OBVIOUS
    <3>2. n # 0 => g[n - 1] = e[n - 1] /\ g[0] = e[0]
      BY <3>1
    <3> HIDE DEF g
    <3> QED  BY <1>4, <3>1, <3>2 DEF FragAlongRun
  <2>2. g = [n \in 0 .. Len(line) |-> IF n = 0 THEN s ELSE FragStep(g[n - 1], line[n], FragNext(line, n))]
    BY <2>1
  <2> HIDE DEF g
  <2> QED  BY <2>2 DEF FragAlongEqn
<1>6. FragAlongEqn(f, s, line)
  BY <1>5
<1>7. FragAlong(s, line) = f
  BY DEF FragAlong, FragAlongEqn, FragNext
<1> HIDE DEF f
<1>8. FragAlongRun(f, s, line, Len(line))
  <2>1. f[0] = s
    BY <1>6 DEF FragAlongEqn
  <2>2. ASSUME NEW n \in 1 .. Len(line) PROVE f[n] = FragStep(f[n - 1], line[n], FragNext(line, n))
    <3>1. n \in 0 .. Len(line) /\ n # 0
      OBVIOUS
    <3> QED  BY <1>6, <3>1 DEF FragAlongEqn
  <2> QED  BY <2>1, <2>2 DEF FragAlongRun
<1> QED  BY <1>7, <1>8

(* The states after each line of a text. *)
FragLexedRun(f, text, m) ==
  f[0] = FragLexStart /\ \A n \in 1 .. m : f[n] = FragAlong(IF n = 1 THEN f[0] ELSE FragNewLine(f[n - 1]), text[n])[Len(text[n])]

FragLexedEqn(f, text) ==
  f = [n \in 0 .. Len(text) |-> IF n = 0 THEN FragLexStart ELSE FragAlong(IF n = 1 THEN f[0] ELSE FragNewLine(f[n - 1]), text[n])[Len(text[n])]]

(* FragLexed, unfolded line by line. *)
LEMMA FragLexedSteps ==
    ASSUME NEW text, Len(text) \in Nat
    PROVE  FragLexedRun(FragLexed(text), text, Len(text))
<1> DEFINE S == {m \in 0 .. Len(text) : \E f : FragLexedRun(f, text, m)}
           f == CHOOSE f : FragLexedEqn(f, text)
<1>1. 0 \in S
  <2>1. FragLexedRun([x \in {0} |-> FragLexStart], text, 0)
    BY DEF FragLexedRun
  <2> QED  BY <2>1
<1>2. ASSUME NEW m \in 0 .. Len(text), m \in S, m < Len(text)
      PROVE  m + 1 \in S
  <2>1. PICK e : FragLexedRun(e, text, m)
    BY <1>2
  <2> DEFINE g == [n \in 0 .. (m + 1) |-> IF n = m + 1 THEN FragAlong(IF n = 1 THEN e[0] ELSE FragNewLine(e[n - 1]), text[n])[Len(text[n])] ELSE e[n]]
  <2>2. m \in Nat /\ m + 1 \in 0 .. Len(text)
    BY <1>2
  <2>3. g[0] = FragLexStart
    BY <2>1, <2>2 DEF FragLexedRun
  <2>4. ASSUME NEW n \in 1 .. (m + 1)
        PROVE  g[n] = FragAlong(IF n = 1 THEN g[0] ELSE FragNewLine(g[n - 1]), text[n])[Len(text[n])]
    <3>1. n \in 0 .. (m + 1) /\ n - 1 \in 0 .. (m + 1) /\ n - 1 # m + 1
      BY <2>2
    <3>2. g[n - 1] = e[n - 1] /\ g[0] = e[0]
      BY <2>2, <3>1
    <3>3. CASE n = m + 1
      <4>1. g[n] = FragAlong(IF n = 1 THEN e[0] ELSE FragNewLine(e[n - 1]), text[n])[Len(text[n])]
        BY <3>1, <3>3
      <4> HIDE DEF g
      <4> QED  BY <3>2, <4>1
    <3>4. CASE n # m + 1
      <4>1. n \in 1 .. m
        BY <2>2, <3>4
      <4>2. g[n] = e[n]
        BY <3>1, <3>4
      <4> HIDE DEF g
      <4> QED  BY <2>1, <3>2, <4>1, <4>2 DEF FragLexedRun
    <3> QED  BY <3>3, <3>4
  <2>5. FragLexedRun(g, text, m + 1)
    <3> HIDE DEF g
    <3> QED  BY <2>3, <2>4 DEF FragLexedRun
  <2> QED  BY <2>2, <2>5
<1>3. Len(text) \in S
  <2> HIDE DEF S
  <2>1. SiteInductive(S, Len(text))
    BY <1>1, <1>2 DEF SiteInductive
  <2> QED  BY <2>1, SiteInduct
<1>4. PICK e : FragLexedRun(e, text, Len(text))
  BY <1>3
<1> DEFINE g == [n \in 0 .. Len(text) |-> e[n]]
<1>5. FragLexedEqn(g, text)
  <2>1. ASSUME NEW n \in 0 .. Len(text)
        PROVE  e[n] = IF n = 0 THEN FragLexStart ELSE FragAlong(IF n = 1 THEN g[0] ELSE FragNewLine(g[n - 1]), text[n])[Len(text[n])]
    <3>1. n = 0 \/ (n \in 1 .. Len(text) /\ n - 1 \in 0 .. Len(text))
      OBVIOUS
    <3>2. n # 0 => g[n - 1] = e[n - 1] /\ g[0] = e[0]
      BY <3>1
    <3> HIDE DEF g
    <3> QED  BY <1>4, <3>1, <3>2 DEF FragLexedRun
  <2>2. g = [n \in 0 .. Len(text) |-> IF n = 0 THEN FragLexStart ELSE FragAlong(IF n = 1 THEN g[0] ELSE FragNewLine(g[n - 1]), text[n])[Len(text[n])]]
    BY <2>1
  <2> HIDE DEF g
  <2> QED  BY <2>2 DEF FragLexedEqn
<1>6. FragLexedEqn(f, text)
  BY <1>5
<1>7. FragLexed(text) = f
  BY DEF FragLexed, FragLexedEqn
<1> HIDE DEF f
<1>8. FragLexedRun(f, text, Len(text))
  <2>1. f[0] = FragLexStart
    BY <1>6 DEF FragLexedEqn
  <2>2. ASSUME NEW n \in 1 .. Len(text) PROVE f[n] = FragAlong(IF n = 1 THEN f[0] ELSE FragNewLine(f[n - 1]), text[n])[Len(text[n])]
    <3>1. n \in 0 .. Len(text) /\ n # 0
      OBVIOUS
    <3> QED  BY <1>6, <3>1 DEF FragLexedEqn
  <2> QED  BY <2>1, <2>2 DEF FragLexedRun
<1> QED  BY <1>7, <1>8

(* The states after each token, and the equation that defines them. *)
FragCheckedRun(f, tokens, m) ==
  f[0] = FragCheckStart /\ \A n \in 1 .. m : f[n] = IF FragEndsLine(tokens, n) THEN FragCheckLine(f[n - 1], FragLineOf(tokens, n)) ELSE f[n - 1]

FragCheckedEqn(f, tokens) ==
  f = [n \in 0 .. Len(tokens) |-> IF n = 0 THEN FragCheckStart ELSE IF FragEndsLine(tokens, n) THEN FragCheckLine(f[n - 1], FragLineOf(tokens, n)) ELSE f[n - 1]]

(* FragChecked, unfolded token by token. *)
LEMMA FragCheckedSteps ==
    ASSUME NEW tokens, Len(tokens) \in Nat
    PROVE  FragCheckedRun(FragChecked(tokens), tokens, Len(tokens))
<1> DEFINE S == {m \in 0 .. Len(tokens) : \E f : FragCheckedRun(f, tokens, m)}
           f == CHOOSE f : FragCheckedEqn(f, tokens)
<1>1. 0 \in S
  <2>1. FragCheckedRun([x \in {0} |-> FragCheckStart], tokens, 0)
    BY DEF FragCheckedRun
  <2> QED  BY <2>1
<1>2. ASSUME NEW m \in 0 .. Len(tokens), m \in S, m < Len(tokens)
      PROVE  m + 1 \in S
  <2>1. PICK e : FragCheckedRun(e, tokens, m)
    BY <1>2
  <2> DEFINE g == [n \in 0 .. (m + 1) |-> IF n = m + 1 THEN IF FragEndsLine(tokens, n) THEN FragCheckLine(e[n - 1], FragLineOf(tokens, n)) ELSE e[n - 1] ELSE e[n]]
  <2>2. m \in Nat /\ m + 1 \in 0 .. Len(tokens)
    BY <1>2
  <2>3. g[0] = FragCheckStart
    BY <2>1, <2>2 DEF FragCheckedRun
  <2>4. ASSUME NEW n \in 1 .. (m + 1)
        PROVE  g[n] = IF FragEndsLine(tokens, n) THEN FragCheckLine(g[n - 1], FragLineOf(tokens, n)) ELSE g[n - 1]
    <3>1. n \in 0 .. (m + 1) /\ n - 1 \in 0 .. (m + 1) /\ n - 1 # m + 1
      BY <2>2
    <3>2. g[n - 1] = e[n - 1] /\ g[0] = e[0]
      BY <2>2, <3>1
    <3>3. CASE n = m + 1
      <4>1. g[n] = IF FragEndsLine(tokens, n) THEN FragCheckLine(e[n - 1], FragLineOf(tokens, n)) ELSE e[n - 1]
        BY <3>1, <3>3
      <4> HIDE DEF g
      <4> QED  BY <3>2, <4>1
    <3>4. CASE n # m + 1
      <4>1. n \in 1 .. m
        BY <2>2, <3>4
      <4>2. g[n] = e[n]
        BY <3>1, <3>4
      <4> HIDE DEF g
      <4> QED  BY <2>1, <3>2, <4>1, <4>2 DEF FragCheckedRun
    <3> QED  BY <3>3, <3>4
  <2>5. FragCheckedRun(g, tokens, m + 1)
    <3> HIDE DEF g
    <3> QED  BY <2>3, <2>4 DEF FragCheckedRun
  <2> QED  BY <2>2, <2>5
<1>3. Len(tokens) \in S
  <2> HIDE DEF S
  <2>1. SiteInductive(S, Len(tokens))
    BY <1>1, <1>2 DEF SiteInductive
  <2> QED  BY <2>1, SiteInduct
<1>4. PICK e : FragCheckedRun(e, tokens, Len(tokens))
  BY <1>3
<1> DEFINE g == [n \in 0 .. Len(tokens) |-> e[n]]
<1>5. FragCheckedEqn(g, tokens)
  <2>1. ASSUME NEW n \in 0 .. Len(tokens)
        PROVE  e[n] = IF n = 0 THEN FragCheckStart ELSE IF FragEndsLine(tokens, n) THEN FragCheckLine(g[n - 1], FragLineOf(tokens, n)) ELSE g[n - 1]
    <3>1. n = 0 \/ (n \in 1 .. Len(tokens) /\ n - 1 \in 0 .. Len(tokens))
      OBVIOUS
    <3>2. n # 0 => g[n - 1] = e[n - 1] /\ g[0] = e[0]
      BY <3>1
    <3> HIDE DEF g
    <3> QED  BY <1>4, <3>1, <3>2 DEF FragCheckedRun
  <2>2. g = [n \in 0 .. Len(tokens) |-> IF n = 0 THEN FragCheckStart ELSE IF FragEndsLine(tokens, n) THEN FragCheckLine(g[n - 1], FragLineOf(tokens, n)) ELSE g[n - 1]]
    BY <2>1
  <2> HIDE DEF g
  <2> QED  BY <2>2 DEF FragCheckedEqn
<1>6. FragCheckedEqn(f, tokens)
  BY <1>5
<1>7. FragChecked(tokens) = f
  BY DEF FragChecked, FragCheckedEqn
<1> HIDE DEF f
<1>8. FragCheckedRun(f, tokens, Len(tokens))
  <2>1. f[0] = FragCheckStart
    BY <1>6 DEF FragCheckedEqn
  <2>2. ASSUME NEW n \in 1 .. Len(tokens) PROVE f[n] = IF FragEndsLine(tokens, n) THEN FragCheckLine(f[n - 1], FragLineOf(tokens, n)) ELSE f[n - 1]
    <3>1. n \in 0 .. Len(tokens) /\ n # 0
      OBVIOUS
    <3> QED  BY <1>6, <3>1 DEF FragCheckedEqn
  <2> QED  BY <2>1, <2>2 DEF FragCheckedRun
<1> QED  BY <1>7, <1>8

(* Lines count from 1, and no line that is noted is a later one. *)
FragGood(s) ==
  /\ s \in FragStates
  /\ s.tokenLine \in 1 .. s.line /\ s.quoteLine \in 0 .. s.line /\ s.err \in 0 .. s.line
  /\ s.quote # FragNoQuote => s.quoteLine # 0
  /\ \A i \in 1 .. Len(s.tokens) : s.tokens[i].line \in 1 .. s.line

(* The tokens of a state still count their lines after one more. *)
LEMMA FragGoodTokens ==
    ASSUME NEW s, FragGood(s), NEW quoted \in BOOLEAN, NEW n \in Nat, s.line <= n
    PROVE  LET u == IF s.in THEN Append(s.tokens, FragToken(s, quoted)) ELSE s.tokens
           IN \A i \in 1 .. Len(u) : u[i].line \in 1 .. n
<1> DEFINE a == FragToken(s, quoted)
           u == Append(s.tokens, a)
<1>1. s.tokens \in Seq(FragTokens) /\ s.line \in Nat /\ s.tokenLine \in Nat /\ s.tokenLine \in 1 .. s.line
  BY DEF FragGood, FragStates
<1>2. a.line = s.tokenLine
  BY DEF FragToken
<1>3. ASSUME NEW i \in 1 .. Len(s.tokens) PROVE s.tokens[i].line \in 1 .. n
  <2>1. s.tokens[i].line \in 1 .. s.line
    BY DEF FragGood
  <2> QED  BY <1>1, <2>1
<1>4. ASSUME NEW i \in 1 .. Len(u) PROVE u[i].line \in 1 .. n
  <2> HIDE DEF a
  <2>1. Len(u) = Len(s.tokens) + 1 /\ Len(s.tokens) \in Nat
    BY <1>1
  <2>2. CASE i = Len(s.tokens) + 1
    <3>1. u[i] = a
      BY <1>1, <2>2
    <3> QED  BY <1>1, <1>2, <3>1
  <2>3. CASE i # Len(s.tokens) + 1
    <3>1. i \in 1 .. Len(s.tokens)
      BY <2>1, <2>3
    <3>2. u[i] = s.tokens[i]
      BY <1>1, <3>1
    <3> QED  BY <1>3, <3>1, <3>2
  <2> QED  BY <2>2, <2>3
<1> HIDE DEF a, u
<1> QED  BY <1>3, <1>4 DEF a, u

LEMMA FragGoodStart ==
    FragGood(FragLexStart)
<1>1. FragLexStart \in FragStates
  BY DEF FragStates, FragLexStart, FragNoQuote
<1>2. Len(FragLexStart.tokens) = 0
  BY DEF FragLexStart
<1> QED  BY <1>1, <1>2 DEF FragGood, FragLexStart

(* A symbol leaves the line, and a failure for good. *)
LEMMA FragGoodStep ==
    ASSUME NEW s, FragGood(s), NEW ch \in FragChars, NEW next
    PROVE  LET r == FragStep(s, ch, next) IN
           /\ FragGood(r)
           /\ r.line = s.line /\ r.continuation = s.continuation
           /\ s.err # 0 => r = s
<1> DEFINE r == FragStep(s, ch, next)
           k == FragKind(s, ch, next)
<1>1. s \in FragStates /\ s.line \in Nat /\ s.line >= 1
  BY DEF FragGood, FragStates
<1>2. r \in FragStates /\ FragDone(r, s, k, ch)
  BY <1>1, FragStepIs
<1>3. s.err # 0 => r = s
  BY DEF FragStep
<1> HIDE DEF r
<1>4. \A i \in 1 .. Len(r.tokens) : r.tokens[i].line \in 1 .. r.line
  <2> DEFINE q == (k = "close")
             u == IF s.in THEN Append(s.tokens, FragToken(s, q)) ELSE s.tokens
  <2>1. \A i \in 1 .. Len(u) : u[i].line \in 1 .. s.line
    <3>1. q \in BOOLEAN
      OBVIOUS
    <3> HIDE DEF q
    <3> QED  BY <1>1, <3>1, FragGoodTokens
  <2>2. r.line = s.line /\ r.tokens = IF k \in {"close", "end"} THEN u ELSE s.tokens
    <3> HIDE DEF k
    <3> QED  BY <1>2 DEF FragDone
  <2> HIDE DEF u, k
  <2> QED  BY <2>1, <2>2 DEF FragGood
<1>5. r.quote # FragNoQuote => r.quoteLine # 0
  <2> HIDE DEF k
  <2> QED  BY <1>1, <1>2 DEF FragGood, FragDone
<1>6. r.tokenLine \in 1 .. r.line /\ r.quoteLine \in 0 .. r.line /\ r.err \in 0 .. r.line /\ r.line = s.line
  <2> HIDE DEF k
  <2> QED  BY <1>1, <1>2 DEF FragGood, FragDone
<1>7. r.continuation = s.continuation
  BY <1>2 DEF FragDone
<1> QED  BY <1>2, <1>3, <1>4, <1>5, <1>6, <1>7 DEF FragGood, r

LEMMA FragGoodLine ==
    ASSUME NEW s, FragGood(s)
    PROVE  LET r == FragNewLine(s) IN
           /\ FragGood(r)
           /\ r.err = s.err
           /\ r.line = IF s.err = 0 THEN s.line + 1 ELSE s.line
<1> DEFINE r == FragNewLine(s)
<1>1. s \in FragStates /\ s.line \in Nat /\ s.line >= 1
  BY DEF FragGood, FragStates
<1>2. /\ r \in FragStates
      /\ s.err # 0 => r = s
      /\ s.err = 0 =>
           /\ r.line = s.line + 1 /\ r.quote = s.quote /\ r.quoteLine = s.quoteLine
           /\ r.tokenLine = s.tokenLine /\ r.escaped = s.escaped /\ r.err = 0
      /\ s.err = 0 /\ s.quote # FragNoQuote => r.tokens = s.tokens
      /\ s.err = 0 /\ s.quote = FragNoQuote =>
           r.tokens = IF s.in THEN Append(s.tokens, FragToken(s, FALSE)) ELSE s.tokens
  BY <1>1, FragNewLineIs
<1> HIDE DEF r
<1>3. CASE s.err # 0
  BY <1>2, <1>3 DEF r
<1>4. CASE s.err = 0
  <2> DEFINE u == IF s.in THEN Append(s.tokens, FragToken(s, FALSE)) ELSE s.tokens
  <2>1. \A i \in 1 .. Len(u) : u[i].line \in 1 .. (s.line + 1)
    <3>1. s.line + 1 \in Nat /\ s.line <= s.line + 1
      BY <1>1
    <3> QED  BY <3>1, FragGoodTokens
  <2>2. r.line = s.line + 1 /\ (r.tokens = s.tokens \/ r.tokens = u)
    BY <1>2, <1>4
  <2>3. \A i \in 1 .. Len(s.tokens) : s.tokens[i].line \in 1 .. (s.line + 1)
    <3>1. ASSUME NEW i \in 1 .. Len(s.tokens) PROVE s.tokens[i].line \in 1 .. (s.line + 1)
      <4>1. s.tokens[i].line \in 1 .. s.line
        BY DEF FragGood
      <4> QED  BY <1>1, <4>1
    <3> QED  BY <3>1
  <2> HIDE DEF u
  <2>4. \A i \in 1 .. Len(r.tokens) : r.tokens[i].line \in 1 .. r.line
    BY <2>1, <2>2, <2>3
  <2>5. r.tokenLine \in 1 .. r.line /\ r.quoteLine \in 0 .. r.line /\ r.err \in 0 .. r.line
    BY <1>1, <1>2, <1>4 DEF FragGood
  <2>6. r.quote # FragNoQuote => r.quoteLine # 0
    BY <1>2, <1>4 DEF FragGood
  <2> QED  BY <1>2, <1>4, <2>2, <2>4, <2>5, <2>6 DEF FragGood, r
<1> QED  BY <1>3, <1>4

(* Along a line the line stays the same, and a failure. *)
LEMMA FragAlongGood ==
    ASSUME NEW s, FragGood(s), NEW line \in Seq(FragChars)
    PROVE  \A i \in 0 .. Len(line) :
             LET r == FragAlong(s, line)[i] IN
             /\ FragGood(r) /\ r.line = s.line /\ r.continuation = s.continuation
             /\ r.err = 0 => \A j \in 0 .. i : FragAlong(s, line)[j].err = 0
<1> DEFINE f == FragAlong(s, line)
           Good(i) == /\ FragGood(f[i]) /\ f[i].line = s.line /\ f[i].continuation = s.continuation
                      /\ f[i].err = 0 => \A j \in 0 .. i : f[j].err = 0
           S == {i \in 0 .. Len(line) : Good(i)}
<1>1. Len(line) \in Nat
  OBVIOUS
<1>2. f[0] = s /\ \A n \in 1 .. Len(line) : f[n] = FragStep(f[n - 1], line[n], FragNext(line, n))
  BY <1>1, FragAlongSteps DEF FragAlongRun
<1> HIDE DEF f
<1>3. 0 \in S
  <2>1. 0 .. 0 = {0}
    OBVIOUS
  <2> QED  BY <1>1, <1>2, <2>1
<1>4. ASSUME NEW i \in 0 .. Len(line), i \in S, i < Len(line)
      PROVE  i + 1 \in S
  <2>1. i \in Nat /\ i + 1 \in 1 .. Len(line) /\ (i + 1) - 1 = i /\ i + 1 \in 0 .. Len(line)
    BY <1>1, <1>4
  <2>2. f[i + 1] = FragStep(f[i], line[i + 1], FragNext(line, i + 1))
    BY <1>2, <2>1
  <2>3. Good(i) /\ line[i + 1] \in FragChars
    BY <1>4, <2>1
  <2>4. FragGood(f[i + 1]) /\ f[i + 1].line = f[i].line /\ f[i + 1].continuation = f[i].continuation
        /\ (f[i].err # 0 => f[i + 1] = f[i])
    <3>1. FragGood(f[i])
      BY <2>3
    <3> HIDE DEF Good
    <3> QED  BY <2>2, <2>3, <3>1, FragGoodStep
  <2>5. ASSUME f[i + 1].err = 0, NEW j \in 0 .. (i + 1) PROVE f[j].err = 0
    <3>1. f[i].err = 0
      BY <2>4, <2>5
    <3>2. j = i + 1 \/ j \in 0 .. i
      BY <2>1
    <3> QED  BY <2>3, <2>5, <3>1, <3>2
  <2> QED  BY <2>1, <2>3, <2>4, <2>5
<1>5. 0 .. Len(line) \subseteq S
  <2> HIDE DEF S
  <2>1. SiteInductive(S, Len(line))
    BY <1>3, <1>4 DEF SiteInductive
  <2> QED  BY <1>1, <2>1, SiteInduct
<1> QED  BY <1>5 DEF f

(* The state before a line. *)
FragBefore(text, k) == IF k = 1 THEN FragLexStart ELSE FragNewLine(FragLexed(text)[k - 1])

LEMMA FragLexedIs ==
    ASSUME NEW text, Len(text) \in Nat
    PROVE  /\ FragLexed(text)[0] = FragLexStart
           /\ \A k \in 1 .. Len(text) : FragLexed(text)[k] = FragAlong(FragBefore(text, k), text[k])[Len(text[k])]
<1> DEFINE f == FragLexed(text)
<1>1. f[0] = FragLexStart /\ \A n \in 1 .. Len(text) : f[n] = FragAlong(IF n = 1 THEN f[0] ELSE FragNewLine(f[n - 1]), text[n])[Len(text[n])]
  BY FragLexedSteps DEF FragLexedRun
<1> HIDE DEF f
<1>2. ASSUME NEW k \in 1 .. Len(text) PROVE f[k] = FragAlong(FragBefore(text, k), text[k])[Len(text[k])]
  <2>1. f[k] = FragAlong(IF k = 1 THEN f[0] ELSE FragNewLine(f[k - 1]), text[k])[Len(text[k])]
    BY <1>1
  <2>2. FragBefore(text, k) = IF k = 1 THEN f[0] ELSE FragNewLine(f[k - 1])
    BY <1>1 DEF FragBefore, f
  <2> QED  BY <2>1, <2>2
<1> QED  BY <1>1, <1>2 DEF f

(* What the states of a text are: while none has failed, a line ends on the
   line it is. *)
FragLexedWell(text, k) ==
  LET b == FragBefore(text, k)
      r == FragLexed(text)[k]
  IN /\ FragGood(b) /\ FragGood(r) /\ b.line <= k /\ r.line <= k
     /\ r.err = 0 => /\ b.line = k /\ r.line = k /\ b.err = 0 /\ r.continuation = b.continuation
                     /\ \A j \in 1 .. k : FragLexed(text)[j].err = 0
                     /\ \A i \in 0 .. Len(text[k]) : FragAlong(b, text[k])[i].err = 0

LEMMA FragLexedGood ==
    ASSUME NEW text \in Seq(Seq(FragChars))
    PROVE  \A k \in 1 .. Len(text) : FragLexedWell(text, k)
<1> DEFINE f == FragLexed(text)
           S == {k \in 0 .. Len(text) : k = 0 \/ FragLexedWell(text, k)}
<1>1. Len(text) \in Nat
  OBVIOUS
<1>2. f[0] = FragLexStart /\ \A k \in 1 .. Len(text) : f[k] = FragAlong(FragBefore(text, k), text[k])[Len(text[k])]
  BY <1>1, FragLexedIs
<1>3. 0 \in S
  BY <1>1
<1>4. ASSUME NEW i \in 0 .. Len(text), i \in S, i < Len(text)
      PROVE  i + 1 \in S
  <2> DEFINE k == i + 1
             b == FragBefore(text, k)
             line == text[k]
  <2>1. i \in Nat /\ k \in 1 .. Len(text) /\ k - 1 = i /\ k \in 0 .. Len(text)
    BY <1>1, <1>4
  <2>2. line \in Seq(FragChars) /\ Len(line) \in Nat
    BY <2>1
  <2>3. f[k] = FragAlong(b, line)[Len(line)]
    BY <1>2, <2>1
  <2>4. /\ FragGood(b) /\ b.line <= k /\ b.line \in Nat
        /\ b.err = 0 => b.line = k /\ \A j \in 1 .. i : f[j].err = 0
    <3>1. CASE i = 0
      <4>1. b = FragLexStart
        BY <3>1 DEF FragBefore
      <4>2. b.line = 1 /\ k = 1 /\ 1 .. 0 = {}
        BY <3>1, <4>1 DEF FragLexStart
      <4> HIDE DEF b, k
      <4> QED  BY <3>1, <4>1, <4>2, FragGoodStart
    <3>2. CASE i # 0
      <4>1. b = FragNewLine(f[i])
        BY <2>1, <3>2 DEF FragBefore
      <4>2. FragLexedWell(text, i)
        BY <1>4, <3>2
      <4>3. FragGood(f[i]) /\ f[i].line <= i /\ (f[i].err = 0 => f[i].line = i /\ \A j \in 1 .. i : f[j].err = 0)
        BY <4>2 DEF FragLexedWell
      <4> HIDE DEF b, f
      <4>4. FragGood(b) /\ b.err = f[i].err /\ b.line = IF f[i].err = 0 THEN f[i].line + 1 ELSE f[i].line
        BY <4>1, <4>3, FragGoodLine
      <4>5. f[i].line \in Nat
        BY <4>3 DEF FragGood, FragStates
      <4> QED  BY <2>1, <4>3, <4>4, <4>5
    <3> QED  BY <3>1, <3>2
  <2> HIDE DEF b, line
  <2>5. \A n \in 0 .. Len(line) :
             LET r == FragAlong(b, line)[n] IN
             /\ FragGood(r) /\ r.line = b.line /\ r.continuation = b.continuation
             /\ r.err = 0 => \A j \in 0 .. n : FragAlong(b, line)[j].err = 0
    BY <2>2, <2>4, FragAlongGood
  <2>6. /\ FragGood(f[k]) /\ f[k].line = b.line /\ f[k].continuation = b.continuation
        /\ f[k].err = 0 => \A j \in 0 .. Len(line) : FragAlong(b, line)[j].err = 0
    <3>1. Len(line) \in 0 .. Len(line)
      BY <2>2
    <3> HIDE DEF f, k
    <3> QED  BY <2>3, <2>5, <3>1
  <2>7. ASSUME f[k].err = 0 PROVE b.err = 0
    <3>1. FragAlong(b, line)[0] = b
      BY <2>2, FragAlongSteps DEF FragAlongRun
    <3>2. 0 \in 0 .. Len(line)
      BY <2>2
    <3> QED  BY <2>6, <2>7, <3>1, <3>2
  <2>8. ASSUME f[k].err = 0, NEW j \in 1 .. k PROVE f[j].err = 0
    <3>1. j = k \/ j \in 1 .. i
      BY <2>1
    <3> QED  BY <2>4, <2>7, <2>8, <3>1
  <2>9. FragLexedWell(text, k)
    <3> HIDE DEF f, k
    <3> QED  BY <2>4, <2>6, <2>7, <2>8 DEF FragLexedWell, f, b, line
  <2> QED  BY <2>1, <2>9
<1>5. 0 .. Len(text) \subseteq S
  <2> HIDE DEF S
  <2>1. SiteInductive(S, Len(text))
    BY <1>3, <1>4 DEF SiteInductive
  <2> QED  BY <1>1, <2>1, SiteInduct
<1>6. ASSUME NEW k \in 1 .. Len(text) PROVE FragLexedWell(text, k)
  <2>1. k \in 0 .. Len(text) /\ k # 0
    BY <1>1
  <2> QED  BY <1>5, <2>1
<1> QED  BY <1>6

(* Texts, tokens and states that placing a text may tell apart: what is in
   quotes that span lines may differ. *)
FragHasEnd(x) == \E i \in 1 .. Len(x) : x[i] = "nl"
FragLikeText(x, y, may) == x = y \/ (may /\ FragHasEnd(x) /\ FragHasEnd(y))

FragLikeToken(a, b, root) ==
  /\ a.quoted = b.quoted /\ a.line = b.line /\ a.endLine = b.endLine
  /\ FragLikeText(a.text, b.text, root /\ a.quoted /\ a.line # a.endLine)

FragLikeTokens(p, q, root) == Len(p) = Len(q) /\ \A i \in 1 .. Len(p) : FragLikeToken(p[i], q[i], root)

FragLike(s, t, root) ==
  /\ s.in = t.in /\ s.quote = t.quote /\ s.quoteLine = t.quoteLine /\ s.tokenLine = t.tokenLine
  /\ s.line = t.line /\ s.continuation = t.continuation /\ s.escaped = t.escaped /\ s.comment = t.comment
  /\ s.err = t.err
  /\ FragLikeTokens(s.tokens, t.tokens, root)
  /\ FragLikeText(s.text, t.text, root /\ s.quote # FragNoQuote /\ s.tokenLine # s.line)

LEMMA FragHasEndAppend ==
    ASSUME NEW x \in Seq(FragChars), NEW ch \in FragChars, FragHasEnd(x) \/ ch = "nl"
    PROVE  FragHasEnd(Append(x, ch))
<1>1. Len(Append(x, ch)) = Len(x) + 1 /\ Len(x) \in Nat /\ Append(x, ch)[Len(x) + 1] = ch
  OBVIOUS
<1>2. CASE FragHasEnd(x)
  <2>1. PICK i \in 1 .. Len(x) : x[i] = "nl"
    BY <1>2 DEF FragHasEnd
  <2>2. Append(x, ch)[i] = "nl" /\ i \in 1 .. (Len(x) + 1)
    BY <1>1, <2>1
  <2> QED  BY <1>1, <2>2 DEF FragHasEnd
<1>3. CASE ch = "nl"
  <2>1. Len(x) + 1 \in 1 .. (Len(x) + 1)
    BY <1>1
  <2> QED  BY <1>1, <1>3, <2>1 DEF FragHasEnd
<1> QED  BY <1>2, <1>3

LEMMA FragLikeAppend ==
    ASSUME NEW p \in Seq(FragTokens), NEW q \in Seq(FragTokens), NEW root \in BOOLEAN,
           NEW a \in FragTokens, NEW b \in FragTokens,
           FragLikeTokens(p, q, root), FragLikeToken(a, b, root)
    PROVE  FragLikeTokens(Append(p, a), Append(q, b), root)
<1>1. /\ Len(Append(p, a)) = Len(p) + 1 /\ Len(Append(q, b)) = Len(p) + 1 /\ Len(p) \in Nat
      /\ Append(p, a)[Len(p) + 1] = a /\ Append(q, b)[Len(p) + 1] = b
  BY DEF FragLikeTokens
<1>2. ASSUME NEW i \in 1 .. (Len(p) + 1) PROVE FragLikeToken(Append(p, a)[i], Append(q, b)[i], root)
  <2>1. CASE i = Len(p) + 1
    BY <1>1, <2>1
  <2>2. CASE i # Len(p) + 1
    <3>1. i \in 1 .. Len(p) /\ i \in 1 .. Len(q)
      BY <1>1, <2>2 DEF FragLikeTokens
    <3>2. Append(p, a)[i] = p[i] /\ Append(q, b)[i] = q[i]
      BY <3>1
    <3> QED  BY <3>1, <3>2 DEF FragLikeTokens
  <2> QED  BY <2>1, <2>2
<1> QED  BY <1>1, <1>2 DEF FragLikeTokens

(* A token that ends in both. *)
LEMMA FragLikeEnd ==
    ASSUME NEW s \in FragStates, NEW t \in FragStates, NEW root \in BOOLEAN, FragLike(s, t, root),
           NEW quoted \in BOOLEAN, quoted <=> s.quote # FragNoQuote
    PROVE  FragLikeTokens(IF s.in THEN Append(s.tokens, FragToken(s, quoted)) ELSE s.tokens,
                          IF t.in THEN Append(t.tokens, FragToken(t, quoted)) ELSE t.tokens, root)
<1> DEFINE a == FragToken(s, quoted)
           b == FragToken(t, quoted)
<1>1. a \in FragTokens /\ b \in FragTokens /\ s.tokens \in Seq(FragTokens) /\ t.tokens \in Seq(FragTokens)
  BY DEF FragToken, FragTokens, FragStates
<1>2. FragLikeToken(a, b, root)
  <2>1. a.text = s.text /\ b.text = t.text /\ a.quoted = quoted /\ b.quoted = quoted
        /\ a.line = s.tokenLine /\ b.line = t.tokenLine /\ a.endLine = s.line /\ b.endLine = t.line
    BY DEF FragToken
  <2> HIDE DEF a, b
  <2> QED  BY <2>1 DEF FragLikeToken, FragLike, FragLikeText
<1>3. FragLikeTokens(s.tokens, t.tokens, root) /\ s.in = t.in
  BY DEF FragLike
<1> HIDE DEF a, b
<1>4. FragLikeTokens(Append(s.tokens, a), Append(t.tokens, b), root)
  BY <1>1, <1>2, <1>3, FragLikeAppend
<1> QED  BY <1>3, <1>4 DEF a, b

(* The next symbols may differ, if both are white space. *)
LEMMA FragLikeKind ==
    ASSUME NEW s, NEW t, NEW root, FragLike(s, t, root), NEW ch, NEW n, NEW m,
           n = m \/ {n, m} \subseteq FragBlanks
    PROVE  FragKind(s, ch, n) = FragKind(t, ch, m)
<1>1. s.err = t.err /\ s.comment = t.comment /\ s.escaped = t.escaped /\ s.quote = t.quote /\ s.in = t.in
  BY DEF FragLike
<1>2. (n = "dq" <=> m = "dq") /\ (n \in FragBlanks <=> m \in FragBlanks)
  BY DEF FragBlanks, FragLexBlanks
<1> QED  BY <1>1, <1>2 DEF FragKind

LEMMA FragLikeStep ==
    ASSUME NEW s \in FragStates, NEW t \in FragStates, NEW root \in BOOLEAN, FragLike(s, t, root),
           NEW ch \in FragChars, NEW n, NEW m, n = m \/ {n, m} \subseteq FragBlanks
    PROVE  FragLike(FragStep(s, ch, n), FragStep(t, ch, m), root)
<1> DEFINE r == FragStep(s, ch, n)
           q == FragStep(t, ch, m)
           k == FragKind(s, ch, n)
<1>1. k = FragKind(t, ch, m)
  BY FragLikeKind
<1>2. r \in FragStates /\ q \in FragStates /\ FragDone(r, s, k, ch) /\ FragDone(q, t, k, ch)
  BY <1>1, FragStepIs
<1>3. /\ k \in {"escape", "inside", "fail", "close"} => s.quote # FragNoQuote \/ k = "fail"
      /\ k \in {"end", "open", "add", "comment"} => s.quote = FragNoQuote
  BY DEF FragKind
<1> HIDE DEF r, q, k
<1>4. /\ r.in = q.in /\ r.quote = q.quote /\ r.quoteLine = q.quoteLine /\ r.tokenLine = q.tokenLine
      /\ r.line = q.line /\ r.continuation = q.continuation /\ r.escaped = q.escaped /\ r.comment = q.comment
      /\ r.err = q.err
  BY <1>2 DEF FragDone, FragLike
<1>5. FragLikeTokens(r.tokens, q.tokens, root)
  <2>1. CASE k \in {"close", "end"}
    <3> DEFINE quoted == (k = "close")
    <3>1. quoted \in BOOLEAN /\ (quoted <=> s.quote # FragNoQuote)
      BY <1>3, <2>1
    <3>2. /\ r.tokens = IF s.in THEN Append(s.tokens, FragToken(s, quoted)) ELSE s.tokens
          /\ q.tokens = IF t.in THEN Append(t.tokens, FragToken(t, quoted)) ELSE t.tokens
      BY <1>2, <2>1 DEF FragDone
    <3> HIDE DEF quoted
    <3> QED  BY <3>1, <3>2, FragLikeEnd
  <2>2. CASE k \notin {"close", "end"}
    <3>1. r.tokens = s.tokens /\ q.tokens = t.tokens
      BY <1>2, <2>2 DEF FragDone
    <3> QED  BY <3>1 DEF FragLike
  <2> QED  BY <2>1, <2>2
<1>6. FragLikeText(r.text, q.text, root /\ r.quote # FragNoQuote /\ r.tokenLine # r.line)
  <2>1. FragLikeText(s.text, t.text, root /\ s.quote # FragNoQuote /\ s.tokenLine # s.line)
        /\ s.text \in Seq(FragChars) /\ t.text \in Seq(FragChars) /\ "dq" \in FragChars
    BY DEF FragLike, FragStates, FragChars
  <2>2. CASE k \in {"close", "end"}
    BY <1>2, <2>2 DEF FragDone, FragLikeText
  <2>3. CASE k \in {"escape", "inside", "add"}
    <3> DEFINE c == IF k = "escape" THEN "dq" ELSE ch
    <3>1. r.text = Append(s.text, c) /\ q.text = Append(t.text, c) /\ c \in FragChars
      BY <1>2, <2>1, <2>3 DEF FragDone
    <3>2. CASE s.text = t.text
      BY <3>1, <3>2 DEF FragLikeText
    <3>3. CASE s.text # t.text
      <4>1. root /\ s.quote # FragNoQuote /\ s.tokenLine # s.line /\ FragHasEnd(s.text) /\ FragHasEnd(t.text)
        BY <2>1, <3>3 DEF FragLikeText
      <4> HIDE DEF c
      <4>2. FragHasEnd(r.text) /\ FragHasEnd(q.text)
        BY <2>1, <3>1, <4>1, FragHasEndAppend
      <4>3. r.quote = s.quote /\ r.tokenLine = s.tokenLine /\ r.line = s.line
        BY <1>2, <1>3, <2>3, <4>1 DEF FragDone
      <4> QED  BY <4>1, <4>2, <4>3 DEF FragLikeText
    <3> QED  BY <3>2, <3>3
  <2>4. CASE k \notin {"close", "end", "escape", "inside", "add"}
    <3>1. r.text = s.text /\ q.text = t.text
      BY <1>2, <2>4 DEF FragDone
    <3>2. CASE k = "open"
      BY <1>3, <2>1, <3>1, <3>2 DEF FragLikeText
    <3>3. CASE k # "open"
      <4>1. r.quote = s.quote /\ r.tokenLine = s.tokenLine /\ r.line = s.line
        BY <1>2, <2>4, <3>3 DEF FragDone
      <4> QED  BY <2>1, <3>1, <4>1
    <3> QED  BY <3>2, <3>3
  <2> QED  BY <2>2, <2>3, <2>4
<1> QED  BY <1>4, <1>5, <1>6 DEF FragLike, r, q

LEMMA FragLikeLine ==
    ASSUME NEW s, FragGood(s), NEW t, FragGood(t), NEW root \in BOOLEAN, FragLike(s, t, root)
    PROVE  FragLike(FragNewLine(s), FragNewLine(t), root)
<1> DEFINE r == FragNewLine(s)
           q == FragNewLine(t)
<1>1. s \in FragStates /\ t \in FragStates
  BY DEF FragGood
<1>2. s.err = t.err /\ s.quote = t.quote /\ s.line = t.line
  BY DEF FragLike
<1>3. CASE s.err # 0
  BY <1>2, <1>3 DEF FragNewLine
<1>4. CASE s.err = 0 /\ s.quote # FragNoQuote
  <2>1. /\ r.line = s.line + 1 /\ r.quote = s.quote /\ r.quoteLine = s.quoteLine
        /\ r.tokenLine = s.tokenLine /\ r.escaped = s.escaped /\ r.err = 0
        /\ r.tokens = s.tokens /\ r.text = Append(s.text, "nl") /\ r.in = s.in /\ r.comment = s.comment
        /\ r.continuation = s.continuation \cup {s.line + 1}
    BY <1>1, <1>4, FragNewLineIs
  <2>2. /\ q.line = t.line + 1 /\ q.quote = t.quote /\ q.quoteLine = t.quoteLine
        /\ q.tokenLine = t.tokenLine /\ q.escaped = t.escaped /\ q.err = 0
        /\ q.tokens = t.tokens /\ q.text = Append(t.text, "nl") /\ q.in = t.in /\ q.comment = t.comment
        /\ q.continuation = t.continuation \cup {t.line + 1}
    BY <1>1, <1>2, <1>4, FragNewLineIs
  <2> HIDE DEF r, q
  <2>3. FragLikeText(s.text, t.text, root /\ s.quote # FragNoQuote /\ s.tokenLine # s.line)
    BY DEF FragLike
  <2>4. s.text \in Seq(FragChars) /\ t.text \in Seq(FragChars) /\ "nl" \in FragChars
    BY <1>1 DEF FragStates, FragChars
  <2>5. FragLikeText(r.text, q.text, root /\ r.quote # FragNoQuote /\ r.tokenLine # r.line)
    <3>1. CASE s.text = t.text
      BY <2>1, <2>2, <3>1 DEF FragLikeText
    <3>2. CASE s.text # t.text
      <4>1. FragHasEnd(r.text) /\ FragHasEnd(q.text)
        BY <2>1, <2>2, <2>4, FragHasEndAppend
      <4>2. root /\ r.quote # FragNoQuote
        BY <2>1, <2>3, <3>2 DEF FragLikeText
      <4>3. r.tokenLine # r.line
        BY <2>1, <1>1 DEF FragGood, FragStates
      <4> QED  BY <4>1, <4>2, <4>3 DEF FragLikeText
    <3> QED  BY <3>1, <3>2
  <2>6. FragLike(r, q, root)
    BY <1>2, <2>1, <2>2, <2>5 DEF FragLike
  <2> QED  BY <2>6 DEF r, q
<1>5. CASE s.err = 0 /\ s.quote = FragNoQuote
  <2>1. /\ r.line = s.line + 1 /\ r.quote = s.quote /\ r.quoteLine = s.quoteLine
        /\ r.tokenLine = s.tokenLine /\ r.escaped = s.escaped /\ r.err = 0
        /\ r.tokens = IF s.in THEN Append(s.tokens, FragToken(s, FALSE)) ELSE s.tokens
        /\ r.text = <<>> /\ r.in = FALSE /\ r.comment = FALSE /\ r.continuation = s.continuation
    BY <1>1, <1>5, FragNewLineIs
  <2>2. /\ q.line = t.line + 1 /\ q.quote = t.quote /\ q.quoteLine = t.quoteLine
        /\ q.tokenLine = t.tokenLine /\ q.escaped = t.escaped /\ q.err = 0
        /\ q.tokens = IF t.in THEN Append(t.tokens, FragToken(t, FALSE)) ELSE t.tokens
        /\ q.text = <<>> /\ q.in = FALSE /\ q.comment = FALSE /\ q.continuation = t.continuation
    BY <1>1, <1>2, <1>5, FragNewLineIs
  <2> HIDE DEF r, q
  <2>3. FragLikeTokens(r.tokens, q.tokens, root)
    <3>1. FALSE \in BOOLEAN /\ (FALSE <=> s.quote # FragNoQuote)
      BY <1>5
    <3> QED  BY <1>1, <2>1, <2>2, <3>1, FragLikeEnd
  <2>4. FragLike(r, q, root)
    BY <1>2, <2>1, <2>2, <2>3 DEF FragLike, FragLikeText
  <2> QED  BY <2>4 DEF r, q
<1> QED  BY <1>3, <1>4, <1>5

(* Two states stay alike over the same symbols, to the end of the second line
   and in the first to its end or white space. *)
LEMMA FragAlongLike ==
    ASSUME NEW s, FragGood(s), NEW t, FragGood(t), NEW root \in BOOLEAN,
           NEW a \in Seq(FragChars), NEW b \in Seq(FragChars), NEW p \in Nat, NEW q \in Nat, NEW d \in Nat,
           p + d <= Len(a), q + d = Len(b), \A i \in 1 .. d : a[p + i] = b[q + i],
           p + d = Len(a) \/ a[p + d + 1] \in FragLexBlanks,
           FragLike(FragAlong(s, a)[p], FragAlong(t, b)[q], root)
    PROVE  FragLike(FragAlong(s, a)[p + d], FragAlong(t, b)[Len(b)], root)
<1> DEFINE f == FragAlong(s, a)
           g == FragAlong(t, b)
           S == {i \in 0 .. d : FragLike(f[p + i], g[q + i], root)}
<1>1. Len(a) \in Nat /\ Len(b) \in Nat
  OBVIOUS
<1>2. /\ \A n \in 1 .. Len(a) : f[n] = FragStep(f[n - 1], a[n], FragNext(a, n))
      /\ \A n \in 1 .. Len(b) : g[n] = FragStep(g[n - 1], b[n], FragNext(b, n))
  <2>1. FragAlongRun(f, s, a, Len(a)) /\ FragAlongRun(g, t, b, Len(b))
    BY <1>1, FragAlongSteps
  <2> HIDE DEF f, g
  <2> QED  BY <2>1, Zenon DEF FragAlongRun
<1>3. (\A n \in 0 .. Len(a) : FragGood(f[n])) /\ (\A n \in 0 .. Len(b) : FragGood(g[n]))
  BY FragAlongGood
<1>4. FragLike(f[p], g[q], root)
  OBVIOUS
<1> HIDE DEF f, g
<1>5. 0 \in S
  <2>1. p + 0 = p /\ q + 0 = q /\ 0 \in 0 .. d
    OBVIOUS
  <2> QED  BY <1>4, <2>1
<1>6. ASSUME NEW i \in 0 .. d, i \in S, i < d
      PROVE  i + 1 \in S
  <2> DEFINE m == p + (i + 1)
             n == q + (i + 1)
  <2>1. /\ i \in Nat /\ i + 1 \in 1 .. d /\ m \in 1 .. Len(a) /\ n \in 1 .. Len(b)
        /\ m - 1 = p + i /\ n - 1 = q + i /\ m - 1 \in 0 .. Len(a) /\ n - 1 \in 0 .. Len(b)
        /\ i + 1 \in 0 .. d
    <3>1. i \in Nat /\ i < d /\ p + d <= Len(a) /\ q + d = Len(b)
      BY <1>6
    <3> HIDE DEF S
    <3>2. \A x \in Nat : i < d /\ x + d <= Len(a) => x + (i + 1) \in 1 .. Len(a) /\ (x + (i + 1)) - 1 = x + i /\ x + i \in 0 .. Len(a)
      BY <1>1, <3>1
    <3>3. \A x \in Nat : i < d /\ x + d <= Len(b) => x + (i + 1) \in 1 .. Len(b) /\ (x + (i + 1)) - 1 = x + i /\ x + i \in 0 .. Len(b)
      BY <1>1, <3>1
    <3>4. q + d <= Len(b)
      BY <1>1, <3>1
    <3>5. i + 1 \in 1 .. d /\ i + 1 \in 0 .. d
      BY <3>1
    <3> QED  BY <3>1, <3>2, <3>3, <3>4, <3>5
  <2>2. a[m] = b[n]
    BY <2>1
  <2>3. FragNext(a, m) = FragNext(b, n) \/ {FragNext(a, m), FragNext(b, n)} \subseteq FragBlanks
    <3>1. CASE i + 1 = d
      <4>1. n = Len(b) /\ m = p + d
        BY <3>1
      <4>2. FragNext(b, n) = "nl"
        BY <1>1, <4>1 DEF FragNext
      <4>3. FragNext(a, m) \in FragLexBlanks
        <5>1. CASE m = Len(a)
          BY <1>1, <5>1 DEF FragNext, FragLexBlanks
        <5>2. CASE m # Len(a)
          <6>1. m < Len(a) /\ a[m + 1] \in FragLexBlanks
            BY <1>1, <2>1, <4>1, <5>2
          <6> QED  BY <6>1 DEF FragNext
        <5> QED  BY <5>1, <5>2
      <4> QED  BY <4>2, <4>3 DEF FragBlanks, FragLexBlanks
    <3>2. CASE i + 1 # d
      <4>1. i + 2 \in 1 .. d /\ m < Len(a) /\ n < Len(b) /\ m + 1 = p + (i + 2) /\ n + 1 = q + (i + 2)
        BY <1>1, <1>6, <2>1, <3>2
      <4>2. a[p + (i + 2)] = b[q + (i + 2)]
        BY <4>1
      <4>3. FragNext(a, m) = a[m + 1] /\ FragNext(b, n) = b[n + 1]
        BY <4>1 DEF FragNext
      <4> QED  BY <4>1, <4>2, <4>3
    <3> QED  BY <3>1, <3>2
  <2>4. FragLike(f[m - 1], g[n - 1], root)
    BY <1>6, <2>1
  <2>5. f[m - 1] \in FragStates /\ g[n - 1] \in FragStates /\ a[m] \in FragChars
    <3>1. FragGood(f[m - 1]) /\ FragGood(g[n - 1])
      <4> HIDE DEF m, n
      <4> QED  BY <1>3, <2>1
    <3>2. a[m] \in FragChars
      <4> HIDE DEF m, n
      <4> QED  BY <2>1
    <3> QED  BY <3>1, <3>2 DEF FragGood
  <2>6. f[m] = FragStep(f[m - 1], a[m], FragNext(a, m)) /\ g[n] = FragStep(g[n - 1], a[m], FragNext(b, n))
    BY <1>2, <2>1, <2>2
  <2> HIDE DEF m, n
  <2>7. FragLike(f[m], g[n], root)
    BY <2>3, <2>4, <2>5, <2>6, FragLikeStep
  <2> QED  BY <2>1, <2>7 DEF m, n
<1>7. 0 .. d \subseteq S
  <2> HIDE DEF S
  <2>1. SiteInductive(S, d)
    BY <1>5, <1>6 DEF SiteInductive
  <2> QED  BY <2>1, SiteInduct
<1>8. FragLike(f[p + d], g[q + d], root)
  <2>1. d \in 0 .. d
    OBVIOUS
  <2> QED  BY <1>7, <2>1
<1> QED  BY <1>8 DEF f, g

(* Before a token, outside of quotes: white space leaves such a state. *)
FragClean(s) == s.quote = FragNoQuote /\ ~s.in /\ s.text = <<>> /\ ~s.escaped

LEMMA FragCleanStep ==
    ASSUME NEW s \in FragStates, FragClean(s), NEW ch \in FragLexBlanks, NEW n
    PROVE  FragStep(s, ch, n) = s
<1> DEFINE r == FragStep(s, ch, n)
           k == FragKind(s, ch, n)
<1>1. ch \in FragChars /\ s.in = FALSE /\ s.escaped = FALSE /\ s.quote = FragNoQuote /\ s.text = <<>>
  BY FragBlankChars DEF FragClean, FragStates
<1>2. k \in {"stay", "end"}
  BY <1>1 DEF FragKind
<1>3. r \in FragStates /\ FragDone(r, s, k, ch)
  BY <1>1, FragStepIs
<1> HIDE DEF r, k
<1>4. /\ r.tokens = s.tokens /\ r.text = s.text /\ r.in = s.in /\ r.quote = s.quote /\ r.quoteLine = s.quoteLine
      /\ r.tokenLine = s.tokenLine /\ r.line = s.line /\ r.continuation = s.continuation
      /\ r.escaped = s.escaped /\ r.comment = s.comment /\ r.err = s.err
  BY <1>1, <1>2, <1>3 DEF FragDone
<1> QED  BY <1>3, <1>4, FragSameFields DEF r

LEMMA FragAlongLead ==
    ASSUME NEW s \in FragStates, FragClean(s), NEW line, Len(line) \in Nat, NEW n \in Nat, n <= Len(line),
           \A i \in 1 .. n : line[i] \in FragLexBlanks
    PROVE  FragAlong(s, line)[n] = s
<1> DEFINE f == FragAlong(s, line)
           S == {i \in 0 .. n : f[i] = s}
<1>1. f[0] = s /\ \A m \in 1 .. Len(line) : f[m] = FragStep(f[m - 1], line[m], FragNext(line, m))
  BY FragAlongSteps DEF FragAlongRun
<1> HIDE DEF f
<1>2. 0 \in S
  BY <1>1
<1>3. ASSUME NEW i \in 0 .. n, i \in S, i < n
      PROVE  i + 1 \in S
  <2>1. i + 1 \in 1 .. n /\ i + 1 \in 1 .. Len(line) /\ (i + 1) - 1 = i /\ i + 1 \in 0 .. n
    BY <1>3
  <2>2. f[i + 1] = FragStep(f[i], line[i + 1], FragNext(line, i + 1))
    BY <1>1, <2>1
  <2>3. f[i] = s /\ line[i + 1] \in FragLexBlanks
    BY <1>3, <2>1
  <2>4. f[i + 1] = s
    BY <2>2, <2>3, FragCleanStep
  <2> QED  BY <2>1, <2>4
<1>4. 0 .. n \subseteq S
  <2> HIDE DEF S
  <2>1. SiteInductive(S, n)
    BY <1>2, <1>3 DEF SiteInductive
  <2> QED  BY <2>1, SiteInduct
<1>5. n \in 0 .. n
  OBVIOUS
<1> QED  BY <1>4, <1>5 DEF f

(* An escape is over with the quote that follows it on the line. *)
FragEscapes(s, next) == s.escaped => next = "dq" /\ s.err = 0 /\ ~s.comment

LEMMA FragEscapeStep ==
    ASSUME NEW s \in FragStates, NEW ch \in FragChars, NEW next, FragEscapes(s, ch)
    PROVE  FragEscapes(FragStep(s, ch, next), next)
<1> DEFINE r == FragStep(s, ch, next)
           k == FragKind(s, ch, next)
<1>1. FragDone(r, s, k, ch) /\ r \in FragStates
  BY FragStepIs
<1>2. /\ k = "escape" => next = "dq" /\ s.err = 0 /\ ~s.comment
      /\ s.escaped => k = "skip"
  BY DEF FragKind, FragEscapes
<1> HIDE DEF r, k
<1>3. ASSUME r.escaped PROVE k = "escape"
  <2>1. k # "skip" /\ (k = "escape" \/ s.escaped)
    BY <1>1, <1>3 DEF FragDone
  <2> QED  BY <1>2, <2>1
<1>4. ASSUME k = "escape" PROVE r.err = s.err /\ r.comment = s.comment
  BY <1>1, <1>4 DEF FragDone
<1>5. FragEscapes(r, next)
  BY <1>2, <1>3, <1>4 DEF FragEscapes
<1> QED  BY <1>5 DEF r

LEMMA FragAlongEscapes ==
    ASSUME NEW s, FragGood(s), ~s.escaped, NEW line \in Seq(FragChars)
    PROVE  \A i \in 0 .. Len(line) : FragEscapes(FragAlong(s, line)[i], FragNext(line, i))
<1> DEFINE f == FragAlong(s, line)
           S == {i \in 0 .. Len(line) : FragEscapes(f[i], FragNext(line, i))}
<1>1. Len(line) \in Nat
  OBVIOUS
<1>2. f[0] = s /\ \A n \in 1 .. Len(line) : f[n] = FragStep(f[n - 1], line[n], FragNext(line, n))
  BY <1>1, FragAlongSteps DEF FragAlongRun
<1>3. \A n \in 0 .. Len(line) : FragGood(f[n])
  BY FragAlongGood
<1> HIDE DEF f
<1>4. 0 \in S
  BY <1>1, <1>2 DEF FragEscapes
<1>5. ASSUME NEW i \in 0 .. Len(line), i \in S, i < Len(line)
      PROVE  i + 1 \in S
  <2>1. i \in Nat /\ i + 1 \in 1 .. Len(line) /\ (i + 1) - 1 = i /\ i + 1 \in 0 .. Len(line)
    BY <1>1, <1>5
  <2>2. f[i + 1] = FragStep(f[i], line[i + 1], FragNext(line, i + 1))
    BY <1>2, <2>1
  <2>3. FragEscapes(f[i], line[i + 1]) /\ line[i + 1] \in FragChars
    <3>1. FragNext(line, i) = line[i + 1]
      BY <1>5 DEF FragNext
    <3> QED  BY <1>5, <2>1, <3>1
  <2>4. f[i] \in FragStates
    BY <1>3 DEF FragGood
  <2>5. FragEscapes(f[i + 1], FragNext(line, i + 1))
    BY <2>2, <2>3, <2>4, FragEscapeStep
  <2> QED  BY <2>1, <2>5
<1>6. 0 .. Len(line) \subseteq S
  <2> HIDE DEF S
  <2>1. SiteInductive(S, Len(line))
    BY <1>4, <1>5 DEF SiteInductive
  <2> QED  BY <1>1, <2>1, SiteInduct
<1> QED  BY <1>6 DEF f

(* At the end of a line, and so at the start of the next, none is open. *)
LEMMA FragLexedEscapes ==
    ASSUME NEW text \in Seq(Seq(FragChars))
    PROVE  \A k \in 1 .. Len(text) : ~FragBefore(text, k).escaped /\ ~FragLexed(text)[k].escaped
<1> DEFINE f == FragLexed(text)
           Good(k) == ~FragBefore(text, k).escaped /\ ~f[k].escaped
           S == {k \in 0 .. Len(text) : k = 0 \/ Good(k)}
<1>1. Len(text) \in Nat
  OBVIOUS
<1>2. f[0] = FragLexStart /\ \A k \in 1 .. Len(text) : f[k] = FragAlong(FragBefore(text, k), text[k])[Len(text[k])]
  BY <1>1, FragLexedIs
<1>3. 0 \in S
  BY <1>1
<1>4. \A k \in 1 .. Len(text) : FragGood(FragBefore(text, k)) /\ FragGood(f[k])
  BY FragLexedGood DEF FragLexedWell
<1> HIDE DEF f
<1>5. ASSUME NEW i \in 0 .. Len(text), i \in S, i < Len(text)
      PROVE  i + 1 \in S
  <2> DEFINE b == FragBefore(text, i + 1)
             line == text[i + 1]
  <2>1. i \in Nat /\ i + 1 \in 1 .. Len(text) /\ (i + 1) - 1 = i /\ i + 1 \in 0 .. Len(text)
    BY <1>1, <1>5
  <2>2. line \in Seq(FragChars) /\ Len(line) \in Nat /\ FragGood(b)
    BY <1>4, <2>1
  <2>3. ~b.escaped
    <3>1. CASE i = 0
      BY <3>1 DEF FragBefore, FragLexStart
    <3>2. CASE i # 0
      <4>1. b = FragNewLine(f[i])
        BY <2>1, <3>2 DEF FragBefore, f
      <4>2. i \in 1 .. Len(text)
        BY <2>1, <3>2, <1>5
      <4>3. ~f[i].escaped /\ f[i] \in FragStates
        BY <1>4, <1>5, <3>2, <4>2 DEF FragGood
      <4> HIDE DEF b
      <4> QED  BY <4>1, <4>3, FragNewLineIs
    <3> QED  BY <3>1, <3>2
  <2>4. f[i + 1] = FragAlong(b, line)[Len(line)]
    BY <1>2, <2>1
  <2> HIDE DEF b, line
  <2>5. FragEscapes(FragAlong(b, line)[Len(line)], FragNext(line, Len(line)))
    <3>1. Len(line) \in 0 .. Len(line)
      BY <2>2
    <3> QED  BY <2>2, <2>3, <3>1, FragAlongEscapes
  <2>6. FragNext(line, Len(line)) = "nl"
    BY <2>2 DEF FragNext
  <2>7. ~f[i + 1].escaped
    BY <2>4, <2>5, <2>6 DEF FragEscapes
  <2> QED  BY <2>1, <2>3, <2>7 DEF b
<1>6. 0 .. Len(text) \subseteq S
  <2> HIDE DEF S
  <2>1. SiteInductive(S, Len(text))
    BY <1>3, <1>5 DEF SiteInductive
  <2> QED  BY <1>1, <2>1, SiteInduct
<1>7. ASSUME NEW k \in 1 .. Len(text) PROVE Good(k)
  <2>1. k \in 0 .. Len(text) /\ k # 0
    BY <1>1
  <2> QED  BY <1>6, <2>1
<1> QED  BY <1>7 DEF f

(* Within quotes that span lines, white space makes no difference. *)
FragInside(s) ==
  s \in FragStates /\ s.quote # FragNoQuote /\ ~s.escaped /\ s.tokenLine # s.line /\ FragHasEnd(s.text)

LEMMA FragLikeInside ==
    ASSUME NEW b, FragInside(b), NEW c, FragInside(c), FragLike(b, c, TRUE),
           NEW ch \in FragLexBlanks, NEW n
    PROVE  FragInside(FragStep(c, ch, n)) /\ FragLike(b, FragStep(c, ch, n), TRUE)
<1> DEFINE r == FragStep(c, ch, n)
           k == FragKind(c, ch, n)
<1>1. c \in FragStates /\ ch \in FragChars /\ c.text \in Seq(FragChars)
  BY FragBlankChars DEF FragInside, FragStates
<1>2. r \in FragStates /\ FragDone(r, c, k, ch)
  BY <1>1, FragStepIs
<1>3. k \in {"stay", "inside"}
  BY <1>1 DEF FragKind, FragInside, FragStates, FragNoQuote, FragLexBlanks
<1> HIDE DEF r, k
<1>4. /\ r.tokens = c.tokens /\ r.in = c.in /\ r.quote = c.quote /\ r.quoteLine = c.quoteLine
      /\ r.tokenLine = c.tokenLine /\ r.line = c.line /\ r.continuation = c.continuation
      /\ r.escaped = c.escaped /\ r.comment = c.comment /\ r.err = c.err
      /\ r.text \in {c.text, Append(c.text, ch)}
  BY <1>2, <1>3 DEF FragDone
<1>5. FragHasEnd(r.text)
  BY <1>1, <1>4, FragHasEndAppend DEF FragInside
<1>6. FragInside(r)
  BY <1>2, <1>4, <1>5 DEF FragInside
<1>7. FragLikeText(b.text, r.text, TRUE /\ b.quote # FragNoQuote /\ b.tokenLine # b.line)
  BY <1>5 DEF FragInside, FragLikeText
<1>8. FragLikeTokens(b.tokens, r.tokens, TRUE)
  BY <1>4 DEF FragLike
<1>9. FragLike(b, r, TRUE)
  BY <1>4, <1>7, <1>8 DEF FragLike
<1> QED  BY <1>6, <1>9 DEF r

(* Min and Max of the numbers below a bound. *)
LEMMA FragMinIs ==
    ASSUME NEW n \in Nat, NEW T, T \subseteq 1 .. n, T # {}
    PROVE  Min(T) \in T /\ \A y \in T : Min(T) <= y
<1>1. IsFiniteSet(1 .. n)
  BY FS_Interval
<1>2. IsFiniteSet(T)
  BY <1>1, FS_Subset
<1>3. T \subseteq Nat
  OBVIOUS
<1>4. \E x \in T : \A y \in T : x <= y
  BY <1>2, <1>3, SiteHasLeast
<1> QED  BY <1>4 DEF Min

(* Max of numbers is one of them, and none is above it. *)
LEMMA FragMaxIs ==
    ASSUME NEW n \in Nat, NEW T, T \subseteq 1 .. n, T # {}
    PROVE  Max(T) \in T /\ \A y \in T : Max(T) >= y
<1> DEFINE U == {k \in 0 .. n : n - k \in T}
<1>1. IsFiniteSet(0 .. n)
  BY FS_Interval
<1>2. IsFiniteSet(U)
  <2>1. U \subseteq 0 .. n
    OBVIOUS
  <2> HIDE DEF U
  <2> QED  BY <1>1, <2>1, FS_Subset
<1>3. U \subseteq Nat
  OBVIOUS
<1>4. \A y \in T : n - y \in U
  <2>1. ASSUME NEW y \in T PROVE n - y \in 0 .. n /\ n - (n - y) = y
    OBVIOUS
  <2> QED  BY <2>1
<1>5. U # {}
  BY <1>4
<1>6. PICK x \in U : \A y \in U : x <= y
  <2> HIDE DEF U
  <2> QED  BY <1>2, <1>3, <1>5, SiteHasLeast
<1>7. n - x \in T
  BY <1>6
<1>8. ASSUME NEW y \in T PROVE n - x >= y
  <2>1. x <= n - y
    BY <1>4, <1>6
  <2>2. x \in Nat /\ y \in Nat
    BY <1>3, <1>6
  <2> QED  BY <2>1, <2>2
<1>9. \E z \in T : \A y \in T : z >= y
  BY <1>7, <1>8
<1> QED  BY <1>9 DEF Max

(* A concatenation, kept folded. *)
FragCat(q, s) == q \o s

LEMMA FragCatIs ==
    ASSUME NEW X, NEW q \in Seq(X), NEW s \in Seq(X)
    PROVE  /\ FragCat(q, s) \in Seq(X) /\ Len(FragCat(q, s)) = Len(q) + Len(s)
           /\ \A i \in 1 .. Len(q) : FragCat(q, s)[i] = q[i]
           /\ \A i \in 1 .. Len(s) : FragCat(q, s)[Len(q) + i] = s[i]
<1>1. Len(q) \in Nat /\ Len(s) \in Nat
  OBVIOUS
<1>2. ASSUME NEW i \in 1 .. Len(s) PROVE (q \o s)[Len(q) + i] = s[i]
  <2>1. Len(q) + i \in 1 .. (Len(q) + Len(s)) /\ Len(q) + i > Len(q) /\ (Len(q) + i) - Len(q) = i
    BY <1>1
  <2> QED  BY <2>1
<1>3. ASSUME NEW i \in 1 .. Len(q) PROVE (q \o s)[i] = q[i]
  <2>1. i \in 1 .. (Len(q) + Len(s)) /\ i <= Len(q)
    BY <1>1
  <2> QED  BY <2>1
<1>4. q \o s \in Seq(X) /\ Len(q \o s) = Len(q) + Len(s)
  OBVIOUS
<1> QED  BY <1>2, <1>3, <1>4 DEF FragCat

LEMMA FragPushedIs ==
    ASSUME NEW line \in Seq(FragChars)
    PROVE  /\ FragPushed(line) \in Seq(FragChars) /\ Len(FragPushed(line)) = Len(line) + 2
           /\ \A i \in 1 .. 2 : FragPushed(line)[i] = "sp"
           /\ \A i \in 1 .. Len(line) : FragPushed(line)[i + 2] = line[i]
<1>1. \E w \in Seq(FragChars) : w = <<"sp", "sp">>
  <2>1. "sp" \in FragChars
    BY DEF FragChars
  <2>2. <<"sp", "sp">> \in Seq(FragChars)
    BY <2>1
  <2> QED  BY <2>2
<1>2. PICK w \in Seq(FragChars) : w = <<"sp", "sp">>
  BY <1>1
<1>3. FragPushed(line) = FragCat(w, line)
  BY <1>2 DEF FragPushed, FragCat
<1>4. Len(w) = 2 /\ w[1] = "sp" /\ w[2] = "sp"
  BY <1>2
<1>5. FragCat(w, line) \in Seq(FragChars) /\ Len(FragCat(w, line)) = Len(w) + Len(line)
  BY FragCatIs
<1>6. \A i \in 1 .. Len(w) : FragCat(w, line)[i] = w[i]
  BY FragCatIs
<1>7. \A i \in 1 .. Len(line) : FragCat(w, line)[Len(w) + i] = line[i]
  BY FragCatIs
<1>8. Len(FragPushed(line)) = Len(line) + 2
  <2>1. Len(line) \in Nat
    OBVIOUS
  <2> QED  BY <1>3, <1>4, <1>5, <2>1
<1>9. ASSUME NEW i \in 1 .. 2 PROVE FragPushed(line)[i] = "sp"
  <2>1. i = 1 \/ i = 2
    OBVIOUS
  <2> QED  BY <1>3, <1>4, <1>6, <2>1
<1>10. ASSUME NEW i \in 1 .. Len(line) PROVE FragPushed(line)[i + 2] = line[i]
  <2>1. FragCat(w, line)[Len(w) + i] = line[i]
    BY <1>7
  <2>2. Len(w) + i = i + 2
    BY <1>4
  <2> QED  BY <1>3, <2>1, <2>2
<1> QED  BY <1>3, <1>5, <1>8, <1>9, <1>10

LEMMA FragTrimStartIs ==
    ASSUME NEW line \in Seq(FragChars), ~FragBlank(line)
    PROVE  \E p \in Nat :
             /\ p < Len(line) /\ \A i \in 1 .. p : line[i] \in FragBlanks
             /\ FragTrimStart(line) \in Seq(FragChars) /\ Len(FragTrimStart(line)) = Len(line) - p
             /\ \A i \in 1 .. Len(line) - p : FragTrimStart(line)[i] = line[p + i]
<1> DEFINE T == FragFull(line)
           m == Min(T)
<1>1. Len(line) \in Nat /\ DOMAIN line = 1 .. Len(line)
  OBVIOUS
<1>2. T \subseteq 1 .. Len(line) /\ T # {}
  BY <1>1 DEF FragFull, FragBlank
<1> HIDE DEF T
<1>3. m \in T /\ \A y \in T : m <= y
  BY <1>1, <1>2, FragMinIs
<1>4. FragTrimStart(line) = SubSeq(line, m, Len(line))
  BY DEF FragTrimStart, T
<1> HIDE DEF m
<1>5. m \in 1 .. Len(line)
  BY <1>2, <1>3
<1>6. ASSUME NEW i \in 1 .. (m - 1) PROVE line[i] \in FragBlanks
  <2>1. i \in 1 .. Len(line) /\ i < m
    BY <1>1, <1>5
  <2>2. i \notin T
    BY <1>3, <1>5, <2>1
  <2> QED  BY <1>1, <2>1, <2>2 DEF FragFull, T
<1>7. m - 1 \in Nat /\ m - 1 < Len(line) /\ Len(line) - (m - 1) = Len(line) - m + 1
  BY <1>1, <1>5
<1>8. FragTrimStart(line) \in Seq(FragChars) /\ Len(FragTrimStart(line)) = Len(line) - m + 1
  BY <1>1, <1>4, <1>5
<1>9. ASSUME NEW i \in 1 .. Len(line) - (m - 1) PROVE FragTrimStart(line)[i] = line[(m - 1) + i]
  <2>1. i \in 1 .. Len(line) - m + 1 /\ (m - 1) + i = m + i - 1
    BY <1>1, <1>5
  <2>2. SubSeq(line, m, Len(line))[i] = line[m + i - 1]
    BY <1>1, <1>5, <2>1
  <2> QED  BY <1>4, <2>1, <2>2
<1> QED  BY <1>6, <1>7, <1>8, <1>9

LEMMA FragTrimmedIs ==
    ASSUME NEW line \in Seq(FragChars)
    PROVE  LET t == FragTrimmed(line) IN
           /\ t \in Seq(FragChars) /\ Len(t) <= Len(line) /\ \A i \in 1 .. Len(t) : t[i] = line[i]
           /\ \A i \in 1 .. Len(line) : i > Len(t) => line[i] \in FragBlanks
<1> DEFINE T == FragFull(line)
           m == IF FragBlank(line) THEN 0 ELSE Max(T)
           t == FragTrimmed(line)
<1>1. Len(line) \in Nat /\ DOMAIN line = 1 .. Len(line)
  OBVIOUS
<1>2. T \subseteq 1 .. Len(line) /\ (T = {} <=> FragBlank(line))
  BY <1>1 DEF FragFull, FragBlank
<1>3. t = SubSeq(line, 1, m)
  BY DEF FragTrimmed
<1> HIDE DEF T, t
<1>4. T # {} => Max(T) \in T /\ \A y \in T : Max(T) >= y
  BY <1>1, <1>2, FragMaxIs
<1>5. m \in 0 .. Len(line) /\ \A y \in T : m >= y
  <2>1. CASE T = {}
    <3>1. m = 0
      BY <1>2, <2>1
    <3> QED  BY <1>1, <2>1, <3>1
  <2>2. CASE T # {}
    <3>1. m = Max(T)
      BY <1>2, <2>2
    <3> HIDE DEF m
    <3>2. m \in T /\ \A y \in T : m >= y
      BY <1>4, <2>2, <3>1
    <3> QED  BY <1>1, <1>2, <3>2
  <2> QED  BY <2>1, <2>2
<1> HIDE DEF m
<1>6. t \in Seq(FragChars) /\ Len(t) = m
  BY <1>1, <1>3, <1>5
<1>7. ASSUME NEW i \in 1 .. m PROVE t[i] = line[i]
  BY <1>1, <1>3, <1>5
<1>8. ASSUME NEW i \in 1 .. Len(line), i > m PROVE line[i] \in FragBlanks
  <2>1. i \notin T
    BY <1>5, <1>8
  <2> QED  BY <1>1, <2>1 DEF FragFull, T
<1> QED  BY <1>5, <1>6, <1>7, <1>8 DEF t

(* A text without the white space at its end. *)
LEMMA FragTrimEndIs ==
    ASSUME NEW text \in Seq(Seq(FragChars)), text # <<>>
    PROVE  LET l == FragTrimEnd(text) IN
           /\ l \in Seq(Seq(FragChars)) /\ Len(l) \in 1 .. Len(text)
           /\ \A k \in 1 .. Len(l) - 1 : l[k] = text[k]
           /\ l[Len(l)] = FragTrimmed(text[Len(l)])
           /\ \A k \in 1 .. Len(text) : k > Len(l) => FragBlank(text[k])
<1> DEFINE T == {k \in DOMAIN text : ~FragBlank(text[k])}
           m == IF T = {} THEN 1 ELSE Max(T)
           l == [k \in 1 .. m |-> IF k = m THEN FragTrimmed(text[k]) ELSE text[k]]
<1>1. Len(text) \in Nat /\ DOMAIN text = 1 .. Len(text) /\ Len(text) # 0
  OBVIOUS
<1>2. T \subseteq 1 .. Len(text)
  BY <1>1
<1>3. \A k \in 1 .. Len(text) : k \notin T => FragBlank(text[k])
  BY <1>1
<1>4. FragTrimEnd(text) = l
  BY DEF FragTrimEnd
<1> HIDE DEF T
<1>5. T # {} => Max(T) \in T /\ \A y \in T : Max(T) >= y
  BY <1>1, <1>2, FragMaxIs
<1>6. m \in 1 .. Len(text) /\ \A y \in T : m >= y
  <2>1. CASE T = {}
    BY <1>1, <2>1
  <2>2. CASE T # {}
    <3>1. m = Max(T)
      BY <2>2
    <3> HIDE DEF m
    <3>2. m \in T /\ \A y \in T : m >= y
      BY <1>5, <2>2, <3>1
    <3> QED  BY <1>2, <3>2
  <2> QED  BY <2>1, <2>2
<1> HIDE DEF m
<1>7. ASSUME NEW k \in 1 .. m PROVE l[k] \in Seq(FragChars)
  <2>1. text[k] \in Seq(FragChars)
    BY <1>1, <1>6
  <2>2. FragTrimmed(text[k]) \in Seq(FragChars)
    BY <2>1, FragTrimmedIs
  <2> QED  BY <2>1, <2>2
<1>8. l \in Seq(Seq(FragChars)) /\ Len(l) = m
  <2>1. l \in [1 .. m -> Seq(FragChars)]
    BY <1>7
  <2>2. m \in Nat
    BY <1>6
  <2> HIDE DEF l
  <2> QED  BY <2>1, <2>2
<1>9. ASSUME NEW k \in 1 .. m - 1 PROVE l[k] = text[k]
  <2>1. k \in 1 .. m /\ k # m
    BY <1>6
  <2> QED  BY <2>1
<1>10. l[m] = FragTrimmed(text[m])
  BY <1>6
<1>11. ASSUME NEW k \in 1 .. Len(text), k > m PROVE FragBlank(text[k])
  <2>1. k \notin T
    BY <1>6, <1>11
  <2> QED  BY <1>3, <2>1
<1> HIDE DEF l
<1> QED  BY <1>4, <1>6, <1>8, <1>9, <1>10, <1>11

(* What rendering does to a line: the first m symbols of a are those of b, but
   for white space before them; within quotes only under a root route. *)
FragMoved(a, m, b, cont, root) ==
  \E p, q, d \in Nat :
    /\ p + d = m /\ q + d = Len(b)
    /\ (\A i \in 1 .. p : a[i] \in FragLexBlanks) /\ (\A i \in 1 .. q : b[i] \in FragLexBlanks)
    /\ \A i \in 1 .. d : a[p + i] = b[q + i]
    /\ cont => p = 0 /\ (q = 0 \/ (q = 2 /\ root))

LEMMA FragMovedLike ==
    ASSUME NEW s, FragGood(s), NEW t, FragGood(t), NEW root \in BOOLEAN, FragLike(s, t, root),
           NEW a \in Seq(FragChars), NEW b \in Seq(FragChars), NEW m \in 0 .. Len(a),
           m = Len(a) \/ a[m + 1] \in FragLexBlanks, NEW cont, FragMoved(a, m, b, cont, root),
           cont => FragInside(s) /\ FragInside(t), ~cont => FragClean(s) /\ FragClean(t)
    PROVE  FragLike(FragAlong(s, a)[m], FragAlong(t, b)[Len(b)], root)
<1> DEFINE f == FragAlong(s, a)
           g == FragAlong(t, b)
<1>1. PICK p \in Nat, q \in Nat, d \in Nat :
        /\ p + d = m /\ q + d = Len(b)
        /\ (\A i \in 1 .. p : a[i] \in FragLexBlanks) /\ (\A i \in 1 .. q : b[i] \in FragLexBlanks)
        /\ \A i \in 1 .. d : a[p + i] = b[q + i]
        /\ cont => p = 0 /\ (q = 0 \/ (q = 2 /\ root))
  BY DEF FragMoved
<1>2. Len(a) \in Nat /\ Len(b) \in Nat /\ p <= Len(a) /\ q <= Len(b) /\ p + d <= Len(a) /\ q + d = Len(b)
  BY <1>1
<1>3. s \in FragStates /\ t \in FragStates
  BY DEF FragGood
<1>4. f[0] = s /\ g[0] = t /\ \A n \in 1 .. Len(b) : g[n] = FragStep(g[n - 1], b[n], FragNext(b, n))
  BY <1>2, FragAlongSteps DEF FragAlongRun
<1>5. FragLike(f[p], g[q], root)
  <2>1. CASE ~cont
    <3>1. f[p] = s
      BY <1>1, <1>2, <1>3, <2>1, FragAlongLead
    <3>2. g[q] = t
      BY <1>1, <1>2, <1>3, <2>1, FragAlongLead
    <3> QED  BY <3>1, <3>2
  <2>2. CASE cont
    <3> HIDE DEF f, g
    <3>1. CASE q = 0
      BY <1>1, <1>4, <2>2, <3>1
    <3>2. CASE q = 2 /\ root
      <4>1. 1 \in 1 .. Len(b) /\ 2 \in 1 .. Len(b) /\ 1 - 1 = 0 /\ 2 - 1 = 1 /\ 1 \in 1 .. q /\ 2 \in 1 .. q
        BY <1>2, <3>2
      <4>2. b[1] \in FragLexBlanks /\ b[2] \in FragLexBlanks
        BY <1>1, <4>1
      <4>3. g[1] = FragStep(t, b[1], FragNext(b, 1)) /\ g[2] = FragStep(g[1], b[2], FragNext(b, 2))
        BY <1>4, <4>1, <4>2
      <4>4. FragInside(s) /\ FragInside(t) /\ FragLike(s, t, TRUE)
        BY <2>2, <3>2
      <4>5. FragInside(g[1]) /\ FragLike(s, g[1], TRUE)
        BY <4>2, <4>3, <4>4, FragLikeInside
      <4>6. FragLike(s, g[2], TRUE)
        BY <4>2, <4>3, <4>4, <4>5, FragLikeInside
      <4> QED  BY <1>1, <1>4, <2>2, <3>2, <4>6
    <3> QED  BY <1>1, <2>2, <3>1, <3>2
  <2> QED  BY <2>1, <2>2
<1>6. p + d = Len(a) \/ a[p + d + 1] \in FragLexBlanks
  BY <1>1
<1>7. \A i \in 1 .. d : a[p + i] = b[q + i]
  BY <1>1
<1>8. FragLike(f[p + d], g[Len(b)], root)
  <2>1. p + d <= Len(a)
    BY <1>2
  <2>2. q + d = Len(b)
    BY <1>2
  <2> QED  BY <1>5, <1>6, <1>7, <2>1, <2>2, FragAlongLike
<1> QED  BY <1>1, <1>8

(* A function on the numbers from 1 is a sequence. *)
LEMMA FragIsSeq ==
    ASSUME NEW n \in Nat, NEW X, NEW f \in [1 .. n -> X]
    PROVE  f \in Seq(X) /\ Len(f) = n
  OBVIOUS

LEMMA FragMovedIndented ==
    ASSUME NEW a \in Seq(FragChars), NEW l \in Seq(FragChars), Len(l) <= Len(a),
           \A i \in 1 .. Len(l) : l[i] = a[i], NEW cont,
           ~cont /\ ~FragBlank(l) =>
             \A p \in 0 .. Len(l) : (\A i \in 1 .. p : l[i] \in FragBlanks) => \A i \in 1 .. p : l[i] \in FragLexBlanks
    PROVE  LET x == IF cont \/ FragBlank(l) THEN l ELSE FragPushed(FragTrimStart(l))
           IN x \in Seq(FragChars) /\ FragMoved(a, Len(l), x, cont, FALSE)
<1>1. Len(a) \in Nat /\ Len(l) \in Nat /\ DOMAIN l = 1 .. Len(l)
  OBVIOUS
<1>2. CASE cont \/ FragBlank(l)
  <2>1. 0 + Len(l) = Len(l) /\ 0 \in Nat /\ 1 .. 0 = {}
    BY <1>1
  <2>2. \A i \in 1 .. Len(l) : a[0 + i] = l[0 + i]
    <3>1. \A i \in 1 .. Len(l) : 0 + i = i
      OBVIOUS
    <3> QED  BY <3>1
  <2>3. FragMoved(a, Len(l), l, cont, FALSE)
    BY <1>1, <2>1, <2>2 DEF FragMoved
  <2> QED  BY <1>2, <2>3
<1>3. CASE ~cont /\ ~FragBlank(l)
  <2> DEFINE y == FragTrimStart(l)
             x == FragPushed(y)
  <2>1. PICK p \in Nat :
             /\ p < Len(l) /\ \A i \in 1 .. p : l[i] \in FragLexBlanks
             /\ y \in Seq(FragChars) /\ Len(y) = Len(l) - p
             /\ \A i \in 1 .. Len(l) - p : y[i] = l[p + i]
    <3>1. PICK p \in Nat :
               /\ p < Len(l) /\ \A i \in 1 .. p : l[i] \in FragBlanks
               /\ y \in Seq(FragChars) /\ Len(y) = Len(l) - p
               /\ \A i \in 1 .. Len(l) - p : y[i] = l[p + i]
      BY <1>3, FragTrimStartIs
    <3>2. p \in 0 .. Len(l)
      BY <1>1, <3>1
    <3>3. \A i \in 1 .. p : l[i] \in FragLexBlanks
      BY <1>3, <3>1, <3>2
    <3> QED  BY <3>1, <3>3
  <2> HIDE DEF y
  <2>2. /\ x \in Seq(FragChars) /\ Len(x) = Len(y) + 2
        /\ \A i \in 1 .. 2 : x[i] \in FragLexBlanks
        /\ \A i \in 1 .. Len(y) : x[i + 2] = y[i]
    BY <2>1, FragPushedIs, FragBlankChars
  <2> HIDE DEF x
  <2> DEFINE d == Len(l) - p
  <2>3. d \in Nat /\ p + d = Len(l) /\ 2 + d = Len(x) /\ 2 \in Nat /\ Len(y) = d
    BY <1>1, <2>1, <2>2
  <2>4. ASSUME NEW i \in 1 .. p PROVE a[i] \in FragLexBlanks
    <3>1. i \in 1 .. Len(l)
      BY <1>1, <2>1
    <3> QED  BY <2>1, <3>1
  <2>5. ASSUME NEW i \in 1 .. d PROVE a[p + i] = x[2 + i]
    <3>1. p + i \in 1 .. Len(l) /\ 2 + i = i + 2
      BY <2>3
    <3>2. a[p + i] = l[p + i]
      BY <3>1
    <3>3. y[i] = l[p + i]
      BY <2>1, <2>3
    <3>4. x[i + 2] = y[i]
      BY <2>2, <2>3
    <3> QED  BY <3>1, <3>2, <3>3, <3>4
  <2> HIDE DEF d
  <2>6. FragMoved(a, Len(l), x, cont, FALSE)
    BY <1>3, <2>2, <2>3, <2>4, <2>5 DEF FragMoved
  <2> QED  BY <1>3, <2>2, <2>6 DEF x, y
<1> QED  BY <1>2, <1>3

LEMMA FragMovedPushed ==
    ASSUME NEW a, NEW m \in Nat, NEW x \in Seq(FragChars), NEW cont, FragMoved(a, m, x, cont, FALSE)
    PROVE  FragMoved(a, m, FragPushed(x), cont, TRUE)
<1> DEFINE y == FragPushed(x)
<1>1. PICK p \in Nat, q \in Nat, d \in Nat :
        /\ p + d = m /\ q + d = Len(x)
        /\ (\A i \in 1 .. p : a[i] \in FragLexBlanks) /\ (\A i \in 1 .. q : x[i] \in FragLexBlanks)
        /\ \A i \in 1 .. d : a[p + i] = x[q + i]
        /\ cont => p = 0 /\ q = 0
  BY DEF FragMoved
<1>2. /\ Len(y) = Len(x) + 2
      /\ \A i \in 1 .. 2 : y[i] \in FragLexBlanks
      /\ \A i \in 1 .. Len(x) : y[i + 2] = x[i]
  BY FragPushedIs, FragBlankChars
<1> HIDE DEF y
<1>3. q + 2 \in Nat /\ (q + 2) + d = Len(y) /\ (cont => q + 2 = 2) /\ Len(x) = q + d
  BY <1>1, <1>2
<1>4. ASSUME NEW i \in 1 .. (q + 2) PROVE y[i] \in FragLexBlanks
  <2>1. CASE i \in 1 .. 2
    BY <1>2, <2>1
  <2>2. CASE i \notin 1 .. 2
    <3>1. i - 2 \in 1 .. q /\ i - 2 \in 1 .. Len(x) /\ (i - 2) + 2 = i
      BY <1>3, <2>2
    <3>2. y[(i - 2) + 2] = x[i - 2]
      BY <1>2, <3>1
    <3>3. x[i - 2] \in FragLexBlanks
      BY <1>1, <3>1
    <3> QED  BY <3>1, <3>2, <3>3
  <2> QED  BY <2>1, <2>2
<1>5. ASSUME NEW i \in 1 .. d PROVE a[p + i] = y[(q + 2) + i]
  <2>1. q + i \in 1 .. Len(x) /\ (q + i) + 2 = (q + 2) + i
    BY <1>3
  <2>2. y[(q + i) + 2] = x[q + i]
    BY <1>2, <2>1
  <2> QED  BY <1>1, <2>1, <2>2
<1>6. FragMoved(a, m, y, cont, TRUE)
  BY <1>1, <1>3, <1>4, <1>5 DEF FragMoved
<1> QED  BY <1>6 DEF y

LEMMA FragMovedRoot ==
    ASSUME NEW a, NEW m, NEW x, NEW cont, FragMoved(a, m, x, cont, FALSE), NEW root \in BOOLEAN
    PROVE  FragMoved(a, m, x, cont, root)
  BY DEF FragMoved

(* The lines without a carriage return at their end, but for the last. *)
LEMMA FragLineEndsIs ==
    ASSUME NEW text \in Seq(Seq(FragChars)), text # <<>>
    PROVE  LET t == FragLineEnds(text) IN
           /\ t \in Seq(Seq(FragChars)) /\ Len(t) = Len(text) /\ t # <<>>
           /\ \A k \in 1 .. Len(text) :
                /\ \A i \in 1 .. Len(t[k]) : t[k][i] = text[k][i]
                /\ \/ Len(t[k]) = Len(text[k])
                   \/ k < Len(text) /\ Len(text[k]) = Len(t[k]) + 1 /\ text[k][Len(text[k])] = "cr"
<1> DEFINE X(k) == IF k < Len(text) /\ text[k] # <<>> /\ text[k][Len(text[k])] = "cr"
                   THEN SubSeq(text[k], 1, Len(text[k]) - 1) ELSE text[k]
           t == FragLineEnds(text)
<1>1. t = [k \in DOMAIN text |-> X(k)]
  BY DEF FragLineEnds
<1>2. DOMAIN text = 1 .. Len(text) /\ Len(text) \in Nat /\ Len(text) # 0
  OBVIOUS
<1>3. ASSUME NEW k \in 1 .. Len(text)
      PROVE  /\ X(k) \in Seq(FragChars)
             /\ \A i \in 1 .. Len(X(k)) : X(k)[i] = text[k][i]
             /\ \/ Len(X(k)) = Len(text[k])
                \/ k < Len(text) /\ Len(text[k]) = Len(X(k)) + 1 /\ text[k][Len(text[k])] = "cr"
  <2>1. text[k] \in Seq(FragChars)
    BY <1>2
  <2>2. CASE k < Len(text) /\ text[k] # <<>> /\ text[k][Len(text[k])] = "cr"
    <3>1. X(k) = SubSeq(text[k], 1, Len(text[k]) - 1)
      BY <2>2
    <3>2. \A q \in Seq(FragChars) : q # <<>> =>
            LET x == SubSeq(q, 1, Len(q) - 1) IN
            x \in Seq(FragChars) /\ Len(q) = Len(x) + 1 /\ \A i \in 1 .. Len(x) : x[i] = q[i]
      <4>1. SUFFICES ASSUME NEW q \in Seq(FragChars), q # <<>>
                     PROVE  LET x == SubSeq(q, 1, Len(q) - 1) IN
                            x \in Seq(FragChars) /\ Len(q) = Len(x) + 1 /\ \A i \in 1 .. Len(x) : x[i] = q[i]
        OBVIOUS
      <4>2. Len(q) \in Nat /\ Len(q) # 0
        BY <4>1
      <4>3. PICK m : m = Len(q) - 1
        OBVIOUS
      <4>4. m \in 0 .. Len(q) /\ Len(q) = m + 1
        BY <4>2, <4>3
      <4>5. SubSeq(q, 1, m) \in Seq(FragChars) /\ Len(SubSeq(q, 1, m)) = m
        BY <4>2, <4>4
      <4>6. \A i \in 1 .. m : SubSeq(q, 1, m)[i] = q[i]
        BY <4>2, <4>4
      <4> QED  BY <4>3, <4>4, <4>5, <4>6
    <3> HIDE DEF X
    <3> QED  BY <2>1, <2>2, <3>1, <3>2
  <2>3. CASE ~(k < Len(text) /\ text[k] # <<>> /\ text[k][Len(text[k])] = "cr")
    <3>1. X(k) = text[k]
      BY <2>3
    <3> HIDE DEF X
    <3> QED  BY <2>1, <3>1
  <2> QED  BY <2>2, <2>3
<1> HIDE DEF X, t
<1>4. t \in [1 .. Len(text) -> Seq(FragChars)] /\ \A k \in 1 .. Len(text) : t[k] = X(k)
  BY <1>1, <1>2, <1>3
<1>5. t \in Seq(Seq(FragChars)) /\ Len(t) = Len(text)
  BY <1>2, <1>4, FragIsSeq
<1>6. t # <<>>
  BY <1>2, <1>5
<1> QED  BY <1>3, <1>4, <1>5, <1>6 DEF t

(* What is trimmed, where FragTrimsBlanks holds. *)
LEMMA FragTrimsBlanksIs ==
    ASSUME NEW text \in Seq(Seq(FragChars)), text # <<>>, FragTrimsBlanks(text)
    PROVE  LET t == FragLineEnds(text)
               l == FragTrimEnd(t)
           IN /\ \A k \in 1 .. Len(t) : k > Len(l) => \A i \in 1 .. Len(t[k]) : t[k][i] \in FragLexBlanks
              /\ \A k \in 1 .. Len(l) : \A i \in 1 .. Len(t[k]) : i > Len(l[k]) => t[k][i] \in FragLexBlanks
              /\ \A k \in 1 .. Len(l) : ~FragContinues(text, k) /\ ~FragBlank(l[k]) =>
                   \A p \in 0 .. Len(l[k]) :
                     (\A i \in 1 .. p : l[k][i] \in FragBlanks) => \A i \in 1 .. p : l[k][i] \in FragLexBlanks
<1> DEFINE t == FragLineEnds(text)
           l == FragTrimEnd(t)
<1>1. t \in Seq(Seq(FragChars)) /\ t # <<>>
  BY FragLineEndsIs
<1>2. \A k \in DOMAIN t : \A i \in DOMAIN t[k] : t[k][i] = "wide" =>
       /\ \E m \in DOMAIN t : \E j \in FragFull(t[m]) : m > k \/ (m = k /\ j > i)
       /\ FragContinues(text, k) \/ FragBlank(t[k]) \/ \E j \in FragFull(t[k]) : j < i
  BY Zenon DEF FragTrimsBlanks
<1> HIDE DEF t
<1>3. /\ Len(l) \in 1 .. Len(t) /\ l \in Seq(Seq(FragChars))
      /\ \A k \in 1 .. Len(l) - 1 : l[k] = t[k]
      /\ l[Len(l)] = FragTrimmed(t[Len(l)])
      /\ \A k \in 1 .. Len(t) : k > Len(l) => FragBlank(t[k])
  BY <1>1, FragTrimEndIs
<1> HIDE DEF l
<1>4. Len(t) \in Nat /\ DOMAIN t = 1 .. Len(t) /\ Len(l) \in Nat
      /\ \A k \in 1 .. Len(t) : t[k] \in Seq(FragChars) /\ Len(t[k]) \in Nat /\ DOMAIN t[k] = 1 .. Len(t[k])
  BY <1>1, <1>3
<1>5. ASSUME NEW k \in 1 .. Len(t), k > Len(l) PROVE FragFull(t[k]) = {}
  <2>1. FragBlank(t[k])
    BY <1>3, <1>5
  <2> QED  BY <2>1 DEF FragBlank, FragFull
<1>6. \A x \in FragBlanks : x # "wide" => x \in FragLexBlanks
  BY DEF FragBlanks
<1>7. ASSUME NEW k \in 1 .. Len(t), k > Len(l), NEW i \in 1 .. Len(t[k]) PROVE t[k][i] \in FragLexBlanks
  <2>1. t[k][i] \in FragBlanks
    BY <1>3, <1>4, <1>7 DEF FragBlank
  <2>2. ASSUME t[k][i] = "wide" PROVE FALSE
    <3>0. k \in DOMAIN t /\ i \in DOMAIN t[k]
      BY <1>4, <1>7
    <3>1. PICK m \in DOMAIN t : \E j \in FragFull(t[m]) : m > k \/ (m = k /\ j > i)
      BY <1>2, <2>2, <3>0, Zenon
    <3>2. m \in 1 .. Len(t) /\ m > Len(l)
      BY <1>4, <1>7, <3>1
    <3>3. FragFull(t[m]) = {}
      BY <1>5, <3>2
    <3> QED  BY <3>1, <3>3
  <2> QED  BY <1>6, <2>1, <2>2
<1>8. ASSUME NEW k \in 1 .. Len(l), NEW i \in 1 .. Len(t[k]), i > Len(l[k]) PROVE t[k][i] \in FragLexBlanks
  <2>1. k \in 1 .. Len(t)
    BY <1>3, <1>4
  <2>2. k = Len(l)
    <3>1. CASE k # Len(l)
      <4>1. k \in 1 .. Len(l) - 1
        BY <1>4, <3>1
      <4>2. l[k] = t[k]
        BY <1>3, <4>1
      <4> QED  BY <1>4, <1>8, <2>1, <4>2
    <3> QED  BY <3>1
  <2>3. l[k] = FragTrimmed(t[k])
    BY <1>3, <2>2
  <2>4. t[k] \in Seq(FragChars)
    BY <1>4, <2>1
  <2>5. \A j \in 1 .. Len(t[k]) : j > Len(l[k]) => t[k][j] \in FragBlanks
    BY <2>3, <2>4, FragTrimmedIs
  <2>6. ASSUME t[k][i] = "wide" PROVE FALSE
    <3>a. k \in DOMAIN t /\ i \in DOMAIN t[k]
      BY <1>4, <1>8, <2>1
    <3>0. PICK m \in DOMAIN t : \E j \in FragFull(t[m]) : m > k \/ (m = k /\ j > i)
      BY <1>2, <2>6, <3>a, Zenon
    <3>1. PICK j \in FragFull(t[m]) : m > k \/ (m = k /\ j > i)
      BY <3>0
    <3>2. CASE m > k
      <4>1. m \in 1 .. Len(t) /\ m > Len(l)
        BY <1>4, <2>2, <3>2
      <4> QED  BY <1>5, <3>1, <4>1
    <3>3. CASE m = k /\ j > i
      <4>1. j \in 1 .. Len(t[k]) /\ t[k][j] \notin FragBlanks
        BY <1>4, <2>1, <3>1, <3>3 DEF FragFull
      <4>2. j > Len(l[k])
        <5>1. Len(l[k]) \in Nat
          BY <1>3
        <5> QED  BY <1>8, <3>3, <4>1, <5>1
      <4> QED  BY <2>5, <4>1, <4>2
    <3> QED  BY <3>1, <3>2, <3>3
  <2>7. t[k][i] \in FragBlanks
    BY <1>8, <2>5
  <2> QED  BY <1>6, <2>6, <2>7
<1>9. ASSUME NEW k \in 1 .. Len(l), ~FragContinues(text, k), ~FragBlank(l[k]), NEW p \in 0 .. Len(l[k]),
             \A i \in 1 .. p : l[k][i] \in FragBlanks, NEW i \in 1 .. p
      PROVE  l[k][i] \in FragLexBlanks
  <2>1. k \in 1 .. Len(t) /\ l[k] \in Seq(FragChars) /\ Len(l[k]) \in Nat /\ DOMAIN l[k] = 1 .. Len(l[k])
    BY <1>3, <1>4
  <2>2. Len(l[k]) <= Len(t[k]) /\ \A j \in 1 .. Len(l[k]) : l[k][j] = t[k][j]
    <3>1. CASE k # Len(l)
      <4>1. k \in 1 .. Len(l) - 1
        BY <1>4, <3>1
      <4>2. l[k] = t[k]
        BY <1>3, <4>1
      <4> QED  BY <2>1, <4>2
    <3>2. CASE k = Len(l)
      <4>1. l[k] = FragTrimmed(t[k])
        BY <1>3, <3>2
      <4>2. t[k] \in Seq(FragChars)
        BY <1>4, <2>1
      <4> QED  BY <4>1, <4>2, FragTrimmedIs
    <3> QED  BY <3>1, <3>2
  <2>3. ~FragBlank(t[k])
    <3>1. PICK j \in 1 .. Len(l[k]) : l[k][j] \notin FragBlanks
      BY <1>9, <2>1 DEF FragBlank
    <3>2. j \in DOMAIN t[k] /\ t[k][j] \notin FragBlanks
      BY <1>4, <2>1, <2>2, <3>1
    <3> QED  BY <3>2 DEF FragBlank
  <2>4. i \in 1 .. Len(l[k]) /\ i \in DOMAIN t[k] /\ i <= p /\ p <= Len(l[k])
    BY <1>4, <2>1, <2>2
  <2>5. ASSUME t[k][i] = "wide" PROVE FALSE
    <3>1. PICK j \in FragFull(t[k]) : j < i
      BY <1>2, <1>4, <1>9, <2>1, <2>3, <2>4, <2>5
    <3>2. j \in 1 .. Len(t[k]) /\ t[k][j] \notin FragBlanks
      BY <1>4, <2>1, <3>1 DEF FragFull
    <3>3. j \in 1 .. p /\ j \in 1 .. Len(l[k])
      BY <2>1, <2>4, <3>1, <3>2
    <3> QED  BY <1>9, <2>2, <3>2, <3>3
  <2>6. l[k][i] \in FragBlanks /\ l[k][i] = t[k][i]
    BY <1>9, <2>2, <2>4
  <2> QED  BY <1>6, <2>5, <2>6
<1> QED  BY <1>7, <1>8, <1>9 DEF t, l

(* What is rendered has the lines of the text up to the last that is not blank. *)
LEMMA FragIndentedIs ==
    ASSUME NEW text \in Seq(Seq(FragChars)), text # <<>>
    PROVE  LET t == FragLineEnds(text)
               l == FragTrimEnd(t)
               own == FragIndented(text)
           IN /\ own \in Seq(Seq(FragChars)) /\ Len(own) = Len(l)
              /\ \A k \in 1 .. Len(l) :
                   /\ Len(l[k]) \in 0 .. Len(t[k]) /\ l[k] \in Seq(FragChars)
                   /\ FragTrimsBlanks(text) => FragMoved(t[k], Len(l[k]), own[k], FragContinues(text, k), FALSE)
<1> DEFINE t == FragLineEnds(text)
           l == FragTrimEnd(t)
           own == FragIndented(text)
           X(k) == IF FragContinues(text, k) \/ FragBlank(l[k]) THEN l[k] ELSE FragPushed(FragTrimStart(l[k]))
<1>0. t \in Seq(Seq(FragChars)) /\ t # <<>>
  BY FragLineEndsIs
<1>1. /\ l \in Seq(Seq(FragChars)) /\ Len(l) \in 1 .. Len(t)
      /\ \A k \in 1 .. Len(l) - 1 : l[k] = t[k]
      /\ l[Len(l)] = FragTrimmed(t[Len(l)])
  <2> HIDE DEF t
  <2> QED  BY <1>0, FragTrimEndIs
<1>2. own = [k \in DOMAIN l |-> X(k)]
  BY DEF FragIndented
<1>3. FragTrimsBlanks(text) =>
        \A k \in 1 .. Len(l) : ~FragContinues(text, k) /\ ~FragBlank(l[k]) =>
          \A p \in 0 .. Len(l[k]) :
            (\A i \in 1 .. p : l[k][i] \in FragBlanks) => \A i \in 1 .. p : l[k][i] \in FragLexBlanks
  <2> HIDE DEF t, l
  <2> QED  BY FragTrimsBlanksIs, Zenon DEF t, l
<1> HIDE DEF t, l, own
<1>4. DOMAIN l = 1 .. Len(l) /\ Len(l) \in Nat /\ Len(t) \in Nat
  BY <1>0, <1>1
<1>5. ASSUME NEW k \in 1 .. Len(l)
      PROVE  /\ l[k] \in Seq(FragChars) /\ t[k] \in Seq(FragChars) /\ Len(l[k]) \in Nat /\ Len(t[k]) \in Nat
             /\ Len(l[k]) <= Len(t[k]) /\ \A i \in 1 .. Len(l[k]) : l[k][i] = t[k][i]
  <2>1. t[k] \in Seq(FragChars) /\ l[k] \in Seq(FragChars)
    BY <1>0, <1>1, <1>4
  <2>2. CASE k = Len(l)
    <3>1. l[k] = FragTrimmed(t[k])
      BY <1>1, <2>2
    <3> QED  BY <2>1, <3>1, FragTrimmedIs
  <2>3. CASE k # Len(l)
    <3>1. k \in 1 .. Len(l) - 1
      <4>1. \A n \in Nat : k \in 1 .. n /\ k # n => k \in 1 .. n - 1
        OBVIOUS
      <4>2. Len(l) \in Nat
        BY <1>4
      <4> QED  BY <2>3, <4>1, <4>2
    <3>2. l[k] = t[k]
      BY <1>1, <3>1
    <3>3. Len(t[k]) \in Nat
      BY <2>1
    <3> QED  BY <2>1, <3>2, <3>3
  <2> QED  BY <2>2, <2>3
<1>6. ASSUME NEW k \in 1 .. Len(l) PROVE X(k) \in Seq(FragChars)
  <2>1. l[k] \in Seq(FragChars)
    BY <1>5
  <2>2. CASE FragContinues(text, k) \/ FragBlank(l[k])
    BY <2>1, <2>2
  <2>3. CASE ~(FragContinues(text, k) \/ FragBlank(l[k]))
    <3>1. FragTrimStart(l[k]) \in Seq(FragChars)
      BY <2>1, <2>3, FragTrimStartIs
    <3>2. FragPushed(FragTrimStart(l[k])) \in Seq(FragChars)
      BY <3>1, FragPushedIs
    <3> QED  BY <2>3, <3>2
  <2> QED  BY <2>2, <2>3
<1>7. ASSUME NEW k \in 1 .. Len(l), FragTrimsBlanks(text)
      PROVE  FragMoved(t[k], Len(l[k]), X(k), FragContinues(text, k), FALSE)
  <2>1. l[k] \in Seq(FragChars) /\ t[k] \in Seq(FragChars)
    BY <1>5
  <2>2. Len(l[k]) <= Len(t[k])
    BY <1>5
  <2>3. \A i \in 1 .. Len(l[k]) : l[k][i] = t[k][i]
    BY <1>5
  <2>4. ~FragContinues(text, k) /\ ~FragBlank(l[k]) =>
          \A p \in 0 .. Len(l[k]) :
            (\A i \in 1 .. p : l[k][i] \in FragBlanks) => \A i \in 1 .. p : l[k][i] \in FragLexBlanks
    BY <1>3, <1>7
  <2> QED  BY <2>1, <2>2, <2>3, <2>4, FragMovedIndented
<1> HIDE DEF X
<1>8. own \in Seq(Seq(FragChars)) /\ Len(own) = Len(l) /\ \A k \in 1 .. Len(l) : own[k] = X(k)
  <2>1. own \in [1 .. Len(l) -> Seq(FragChars)]
    BY <1>2, <1>4, <1>6
  <2>2. \A k \in 1 .. Len(l) : own[k] = X(k)
    BY <1>2, <1>4
  <2>3. own \in Seq(Seq(FragChars)) /\ Len(own) = Len(l)
    <3>1. Len(l) \in Nat
      BY <1>4
    <3> QED  BY <2>1, <3>1, FragIsSeq
  <2> QED  BY <2>2, <2>3
<1>9. ASSUME NEW k \in 1 .. Len(l)
      PROVE  /\ Len(l[k]) \in 0 .. Len(t[k]) /\ l[k] \in Seq(FragChars)
             /\ FragTrimsBlanks(text) => FragMoved(t[k], Len(l[k]), own[k], FragContinues(text, k), FALSE)
  <2>1. Len(l[k]) \in 0 .. Len(t[k]) /\ l[k] \in Seq(FragChars)
    BY <1>5
  <2>2. own[k] = X(k)
    BY <1>8
  <2> QED  BY <1>7, <2>1, <2>2
<1> QED  BY <1>8, <1>9 DEF t, l, own

LEMMA FragRenderedIs ==
    ASSUME NEW text \in Seq(Seq(FragChars)), NEW root \in BOOLEAN
    PROVE  LET r == FragRendered(text, root) IN
           /\ r \in Seq(Seq(FragChars)) /\ Len(r) = Len(text)
           /\ \A k \in 1 .. Len(text) : r[k] = IF root THEN FragPushed(text[k]) ELSE text[k]
<1> DEFINE r == FragRendered(text, root)
           X(k) == IF root THEN FragPushed(text[k]) ELSE text[k]
<1>1. r = [k \in DOMAIN text |-> X(k)]
  BY DEF FragRendered
<1>2. DOMAIN text = 1 .. Len(text) /\ Len(text) \in Nat
  OBVIOUS
<1>3. ASSUME NEW k \in 1 .. Len(text) PROVE X(k) \in Seq(FragChars)
  <2>1. text[k] \in Seq(FragChars)
    OBVIOUS
  <2>2. FragPushed(text[k]) \in Seq(FragChars)
    BY <2>1, FragPushedIs
  <2> QED  BY <2>1, <2>2
<1> HIDE DEF r, X
<1>4. r \in [1 .. Len(text) -> Seq(FragChars)] /\ \A k \in 1 .. Len(text) : r[k] = X(k)
  BY <1>1, <1>2, <1>3
<1>5. r \in Seq(Seq(FragChars)) /\ Len(r) = Len(text)
  <2>1. Len(text) \in Nat
    BY <1>2
  <2>2. r \in [1 .. Len(text) -> Seq(FragChars)]
    BY <1>4
  <2> QED  BY <2>1, <2>2, FragIsSeq
<1> QED  BY <1>4, <1>5 DEF r, X

(* White space after a state changes neither its tokens nor whether it is in
   quotes. *)
FragFlushed(s) == IF s.in THEN Append(s.tokens, FragToken(s, FALSE)) ELSE s.tokens

FragIdle(s, r) ==
  /\ r.err = s.err /\ ~r.escaped
  /\ s.quote # FragNoQuote => r.quote # FragNoQuote
  /\ s.quote = FragNoQuote => r.quote = FragNoQuote /\ FragFlushed(r) = FragFlushed(s)

LEMMA FragIdleTwice ==
    ASSUME NEW s, NEW r, NEW q, FragIdle(s, r), FragIdle(r, q)
    PROVE  FragIdle(s, q)
  BY DEF FragIdle

LEMMA FragIdleStep ==
    ASSUME NEW s \in FragStates, ~s.escaped, NEW ch \in FragLexBlanks, NEW n
    PROVE  FragIdle(s, FragStep(s, ch, n))
<1> DEFINE r == FragStep(s, ch, n)
           k == FragKind(s, ch, n)
<1>1. ch \in FragChars /\ s.in \in BOOLEAN
  BY FragBlankChars DEF FragStates
<1>2. FragDone(r, s, k, ch)
  BY <1>1, FragStepIs
<1>3. k \in {"stay", "inside", "end"} /\ (k = "inside" => s.quote # FragNoQuote) /\ (k = "end" => s.quote = FragNoQuote)
  BY <1>1 DEF FragKind, FragStates, FragNoQuote, FragLexBlanks
<1> HIDE DEF r, k
<1>4. r.err = s.err /\ ~r.escaped /\ r.quote = s.quote
  BY <1>2, <1>3 DEF FragDone
<1>5. CASE k = "stay"
  <2>1. r.in = s.in /\ r.tokens = s.tokens /\ r.text = s.text /\ r.tokenLine = s.tokenLine /\ r.line = s.line
    BY <1>2, <1>5 DEF FragDone
  <2>2. FragToken(r, FALSE) = FragToken(s, FALSE)
    BY <2>1 DEF FragToken
  <2>3. FragFlushed(r) = FragFlushed(s)
    BY <2>1, <2>2 DEF FragFlushed
  <2> QED  BY <1>4, <2>3 DEF FragIdle, r
<1>6. CASE k = "inside"
  BY <1>3, <1>4, <1>6 DEF FragIdle, r
<1>7. CASE k = "end"
  <2>1. (k = "close") = FALSE
    BY <1>7
  <2>2. r.in = FALSE /\ r.tokens = FragFlushed(s)
    BY <1>2, <1>7, <2>1 DEF FragDone, FragFlushed
  <2>3. FragFlushed(r) = FragFlushed(s)
    BY <2>2 DEF FragFlushed
  <2> QED  BY <1>4, <2>3 DEF FragIdle, r
<1> QED  BY <1>3, <1>5, <1>6, <1>7

LEMMA FragIdleLine ==
    ASSUME NEW s \in FragStates, ~s.escaped
    PROVE  FragIdle(s, FragNewLine(s))
<1> DEFINE r == FragNewLine(s)
<1>1. CASE s.err # 0
  <2>1. r = s
    BY <1>1 DEF FragNewLine
  <2> HIDE DEF r
  <2> QED  BY <2>1 DEF FragIdle, r
<1>2. CASE s.err = 0 /\ s.quote # FragNoQuote
  <2>1. r.quote = s.quote /\ r.escaped = s.escaped /\ r.err = 0
    BY <1>2, FragNewLineIs
  <2> HIDE DEF r
  <2> QED  BY <1>2, <2>1 DEF FragIdle, r
<1>3. CASE s.err = 0 /\ s.quote = FragNoQuote
  <2>1. /\ r.quote = s.quote /\ r.escaped = s.escaped /\ r.err = 0 /\ r.in = FALSE
        /\ r.tokens = FragFlushed(s)
    BY <1>3, FragNewLineIs DEF FragFlushed
  <2> HIDE DEF r
  <2>2. FragFlushed(r) = FragFlushed(s)
    BY <2>1 DEF FragFlushed
  <2> QED  BY <1>3, <2>1, <2>2 DEF FragIdle, r
<1> QED  BY <1>1, <1>2, <1>3

LEMMA FragAlongTail ==
    ASSUME NEW s, FragGood(s), ~s.escaped, NEW line \in Seq(FragChars), NEW m \in 0 .. Len(line),
           \A i \in 1 .. Len(line) : i > m => line[i] \in FragLexBlanks
    PROVE  FragIdle(FragAlong(s, line)[m], FragAlong(s, line)[Len(line)])
<1> DEFINE f == FragAlong(s, line)
           S == {i \in 0 .. Len(line) - m : FragIdle(f[m], f[m + i])}
<1>1. Len(line) \in Nat /\ m \in Nat /\ m <= Len(line) /\ Len(line) - m \in Nat
  OBVIOUS
<1>2. \A n \in 1 .. Len(line) : f[n] = FragStep(f[n - 1], line[n], FragNext(line, n))
  BY <1>1, FragAlongSteps DEF FragAlongRun
<1>3. \A n \in 0 .. Len(line) : FragGood(f[n])
  BY FragAlongGood
<1>4. FragEscapes(f[m], FragNext(line, m))
  BY FragAlongEscapes
<1> HIDE DEF f
<1>5. FragNext(line, m) \in FragLexBlanks
  <2>1. CASE m < Len(line)
    <3>1. m + 1 \in 1 .. Len(line) /\ m + 1 > m
      BY <1>1, <2>1
    <3> QED  BY <2>1, <3>1 DEF FragNext
  <2>2. CASE ~(m < Len(line))
    BY <2>2 DEF FragNext, FragLexBlanks
  <2> QED  BY <2>1, <2>2
<1>6. 0 \in S
  <2>1. ~f[m].escaped
    BY <1>4, <1>5 DEF FragEscapes, FragLexBlanks
  <2>2. FragIdle(f[m], f[m])
    BY <2>1 DEF FragIdle
  <2>3. m + 0 = m /\ 0 \in 0 .. Len(line) - m
    BY <1>1
  <2> QED  BY <2>2, <2>3
<1>7. ASSUME NEW i \in 0 .. Len(line) - m, i \in S, i < Len(line) - m
      PROVE  i + 1 \in S
  <2> DEFINE n == m + (i + 1)
  <2>1. /\ n \in 1 .. Len(line) /\ n > m /\ n - 1 = m + i /\ n - 1 \in 0 .. Len(line)
        /\ i + 1 \in 0 .. Len(line) - m
    <3>1. i \in Nat /\ i < Len(line) - m
      BY <1>7
    <3> HIDE DEF S
    <3> QED  BY <1>1, <3>1
  <2>2. FragIdle(f[m], f[n - 1])
    BY <1>7, <2>1
  <2> HIDE DEF n
  <2>3. f[n] = FragStep(f[n - 1], line[n], FragNext(line, n)) /\ line[n] \in FragLexBlanks
    BY <1>2, <2>1
  <2>4. f[n - 1] \in FragStates /\ ~f[n - 1].escaped
    <3>1. FragGood(f[n - 1])
      BY <1>3, <2>1
    <3> QED  BY <2>2, <3>1 DEF FragGood, FragIdle
  <2>5. FragIdle(f[n - 1], f[n])
    BY <2>3, <2>4, FragIdleStep
  <2>6. FragIdle(f[m], f[n])
    BY <2>2, <2>5, FragIdleTwice
  <2> QED  BY <2>1, <2>6 DEF n
<1>8. 0 .. Len(line) - m \subseteq S
  <2> HIDE DEF S
  <2>1. SiteInductive(S, Len(line) - m)
    BY <1>6, <1>7 DEF SiteInductive
  <2> QED  BY <1>1, <2>1, SiteInduct
<1>9. Len(line) - m \in S
  <2>1. Len(line) - m \in 0 .. Len(line) - m
    BY <1>1
  <2> QED  BY <1>8, <2>1
<1>10. m + (Len(line) - m) = Len(line)
  BY <1>1
<1> QED  BY <1>9, <1>10 DEF f

LEMMA FragLexedTail ==
    ASSUME NEW text \in Seq(Seq(FragChars)), NEW m \in 1 .. Len(text),
           \A k \in 1 .. Len(text) : k > m => \A i \in 1 .. Len(text[k]) : text[k][i] \in FragLexBlanks
    PROVE  FragIdle(FragLexed(text)[m], FragLexed(text)[Len(text)])
<1> DEFINE f == FragLexed(text)
           S == {i \in 0 .. Len(text) - m : FragIdle(f[m], f[m + i])}
<1>1. Len(text) \in Nat /\ m \in Nat /\ m <= Len(text) /\ Len(text) - m \in Nat
  OBVIOUS
<1>2. \A k \in 1 .. Len(text) : f[k] = FragAlong(FragBefore(text, k), text[k])[Len(text[k])]
  BY <1>1, FragLexedIs
<1>3. \A k \in 1 .. Len(text) : FragGood(FragBefore(text, k)) /\ FragGood(f[k])
  BY FragLexedGood DEF FragLexedWell
<1>4. \A k \in 1 .. Len(text) : ~FragBefore(text, k).escaped /\ ~f[k].escaped
  BY FragLexedEscapes
<1>5. 0 \in S
  <2>1. ~f[m].escaped
    BY <1>4
  <2> HIDE DEF f
  <2>2. FragIdle(f[m], f[m])
    BY <2>1 DEF FragIdle
  <2>3. m + 0 = m /\ 0 \in 0 .. Len(text) - m
    BY <1>1
  <2> QED  BY <2>2, <2>3
<1>6. ASSUME NEW i \in 0 .. Len(text) - m, i \in S, i < Len(text) - m
      PROVE  i + 1 \in S
  <2> DEFINE n == m + (i + 1)
             b == FragBefore(text, n)
             line == text[n]
  <2>1. /\ n \in 1 .. Len(text) /\ n > m /\ n - 1 = m + i /\ n - 1 \in 1 .. Len(text) /\ n # 1
        /\ i + 1 \in 0 .. Len(text) - m
    <3>1. i \in Nat /\ i < Len(text) - m
      BY <1>6
    <3>2. PICK h : h = Len(text)
      OBVIOUS
    <3>3. h \in Nat /\ m \in 1 .. h /\ i < h - m
      BY <1>1, <3>1, <3>2
    <3>4. /\ m + (i + 1) \in 1 .. h /\ m + (i + 1) > m /\ (m + (i + 1)) - 1 = m + i /\ (m + (i + 1)) - 1 \in 1 .. h
          /\ m + (i + 1) # 1 /\ i + 1 \in 0 .. h - m
      BY <3>1, <3>3
    <3> QED  BY <3>2, <3>4, Zenon
  <2>2. FragIdle(f[m], f[n - 1])
    <3> HIDE DEF f, b
    <3> QED  BY <1>6, <2>1
  <2> HIDE DEF n
  <2>3. b = FragNewLine(f[n - 1])
    BY <2>1 DEF FragBefore
  <2> HIDE DEF b, line, f
  <2>4. FragIdle(f[n - 1], b)
    <3>1. f[n - 1] \in FragStates /\ ~f[n - 1].escaped
      BY <1>3, <1>4, <2>1 DEF FragGood
    <3> QED  BY <2>3, <3>1, FragIdleLine
  <2>5. line \in Seq(FragChars) /\ Len(line) \in Nat /\ \A j \in 1 .. Len(line) : line[j] \in FragLexBlanks
    BY <2>1 DEF line
  <2>6. FragGood(b) /\ ~b.escaped
    BY <1>3, <1>4, <2>1 DEF b
  <2>7. FragAlong(b, line)[0] = b
    BY <2>5, FragAlongSteps DEF FragAlongRun
  <2>8. FragIdle(FragAlong(b, line)[0], FragAlong(b, line)[Len(line)])
    <3>1. \A j \in 1 .. Len(line) : j > 0 => line[j] \in FragLexBlanks
      BY <2>5
    <3>2. 0 \in 0 .. Len(line)
      BY <2>5
    <3>3. line \in Seq(FragChars)
      BY <2>5
    <3> QED  BY <2>6, <3>1, <3>2, <3>3, FragAlongTail
  <2>9. f[n] = FragAlong(b, line)[Len(line)]
    BY <1>2, <2>1 DEF b, line
  <2>10. FragIdle(f[m], f[n])
    <3>1. FragIdle(f[m], b)
      BY <2>2, <2>4, FragIdleTwice
    <3>2. FragIdle(b, f[n])
      BY <2>7, <2>8, <2>9
    <3> QED  BY <3>1, <3>2, FragIdleTwice
  <2> QED  BY <2>1, <2>10 DEF n
<1> HIDE DEF f
<1>7. 0 .. Len(text) - m \subseteq S
  <2> HIDE DEF S
  <2>1. SiteInductive(S, Len(text) - m)
    BY <1>5, <1>6 DEF SiteInductive
  <2> QED  BY <1>1, <2>1, SiteInduct
<1>8. Len(text) - m \in S
  <2>1. Len(text) - m \in 0 .. Len(text) - m
    BY <1>1
  <2> QED  BY <1>7, <2>1
<1>9. m + (Len(text) - m) = Len(text)
  BY <1>1
<1> QED  BY <1>8, <1>9 DEF f

(* The lines that continue a token are those that begin within quotes. *)
LEMMA FragContinuationIs ==
    ASSUME NEW text \in Seq(Seq(FragChars))
    PROVE  \A k \in 1 .. Len(text) :
             FragLexed(text)[k].err = 0 =>
               FragLexed(text)[k].continuation = {j \in 2 .. k : FragLexed(text)[j - 1].quote # FragNoQuote}
<1> DEFINE f == FragLexed(text)
           C(k) == {j \in 2 .. k : f[j - 1].quote # FragNoQuote}
           Good(k) == f[k].err = 0 => f[k].continuation = C(k)
           S == {k \in 0 .. Len(text) : k = 0 \/ Good(k)}
<1>1. Len(text) \in Nat
  OBVIOUS
<1>2. \A k \in 1 .. Len(text) : FragLexedWell(text, k)
  BY FragLexedGood
<1>3. ASSUME NEW k \in 1 .. Len(text), f[k].err = 0
      PROVE  f[k].continuation = FragBefore(text, k).continuation /\ \A j \in 1 .. k : f[j].err = 0 /\ f[j].line = j /\ FragGood(f[j])
  <2>1. f[k].continuation = FragBefore(text, k).continuation /\ \A j \in 1 .. k : f[j].err = 0
    BY <1>2, <1>3 DEF FragLexedWell
  <2>2. ASSUME NEW j \in 1 .. k PROVE f[j].line = j /\ FragGood(f[j])
    <3>1. j \in 1 .. Len(text) /\ f[j].err = 0
      BY <1>1, <2>1
    <3> QED  BY <1>2, <3>1 DEF FragLexedWell
  <2> QED  BY <2>1, <2>2
<1> HIDE DEF f
<1>4. 0 \in S
  BY <1>1
<1>5. ASSUME NEW i \in 0 .. Len(text), i \in S, i < Len(text)
      PROVE  i + 1 \in S
  <2>1. i \in Nat /\ i + 1 \in 1 .. Len(text) /\ (i + 1) - 1 = i /\ i + 1 \in 0 .. Len(text)
    BY <1>1, <1>5
  <2>2. ASSUME f[i + 1].err = 0 PROVE f[i + 1].continuation = C(i + 1)
    <3> DEFINE b == FragBefore(text, i + 1)
    <3>1. f[i + 1].continuation = b.continuation /\ \A j \in 1 .. (i + 1) : f[j].err = 0 /\ f[j].line = j /\ FragGood(f[j])
      BY <1>3, <2>1, <2>2
    <3>2. CASE i = 0
      <4>1. b = FragLexStart
        BY <3>2 DEF FragBefore
      <4>2. b.continuation = {}
        BY <4>1 DEF FragLexStart
      <4>3. C(i + 1) = {}
        BY <3>2
      <4> HIDE DEF b, C
      <4> QED  BY <3>1, <4>2, <4>3
    <3>3. CASE i # 0
      <4>1. b = FragNewLine(f[i])
        BY <2>1, <3>3 DEF FragBefore, f
      <4>2. i \in 1 .. (i + 1) /\ i \in 1 .. Len(text)
        BY <1>5, <2>1, <3>3
      <4>3. f[i].err = 0 /\ f[i].line = i /\ f[i] \in FragStates
        BY <3>1, <4>2 DEF FragGood
      <4>4. Good(i)
        BY <1>5, <3>3
      <4>5. f[i].continuation = C(i)
        BY <4>3, <4>4
      <4> HIDE DEF b, Good
      <4>6. /\ f[i].quote # FragNoQuote => b.continuation = f[i].continuation \cup {i + 1}
            /\ f[i].quote = FragNoQuote => b.continuation = f[i].continuation
        BY <4>1, <4>3, FragNewLineIs
      <4>7. 2 .. (i + 1) = (2 .. i) \cup {i + 1} /\ i + 1 \notin 2 .. i
        BY <2>1, <3>3
      <4>8. C(i + 1) = IF f[i].quote # FragNoQuote THEN C(i) \cup {i + 1} ELSE C(i)
        BY <2>1, <4>7
      <4> HIDE DEF C
      <4> QED  BY <3>1, <4>5, <4>6, <4>8
    <3> QED  BY <3>2, <3>3
  <2> QED  BY <2>1, <2>2
<1>6. 0 .. Len(text) \subseteq S
  <2> HIDE DEF S
  <2>1. SiteInductive(S, Len(text))
    BY <1>4, <1>5 DEF SiteInductive
  <2> QED  BY <1>1, <2>1, SiteInduct
<1>7. ASSUME NEW k \in 1 .. Len(text) PROVE Good(k)
  <2>1. k \in 0 .. Len(text) /\ k # 0
    BY <1>1
  <2> QED  BY <1>6, <2>1
<1> QED  BY <1>7 DEF f

LEMMA FragInsideLine ==
    ASSUME NEW s, FragGood(s), s.err = 0, s.quote # FragNoQuote, ~s.escaped
    PROVE  FragInside(FragNewLine(s))
<1> DEFINE r == FragNewLine(s)
<1>1. s \in FragStates /\ s.text \in Seq(FragChars) /\ "nl" \in FragChars /\ s.line \in Nat /\ s.tokenLine \in 1 .. s.line
  BY DEF FragGood, FragStates, FragChars
<1>2. /\ r \in FragStates /\ r.line = s.line + 1 /\ r.quote = s.quote /\ r.tokenLine = s.tokenLine
      /\ r.escaped = s.escaped /\ r.text = Append(s.text, "nl")
  BY <1>1, FragNewLineIs
<1> HIDE DEF r
<1>3. FragHasEnd(r.text)
  BY <1>1, <1>2, FragHasEndAppend
<1>4. r.tokenLine # r.line
  BY <1>1, <1>2
<1>5. FragInside(r)
  BY <1>2, <1>3, <1>4 DEF FragInside
<1> QED  BY <1>5 DEF r

LEMMA FragCleanLine ==
    ASSUME NEW s, FragGood(s), s.err = 0, s.quote = FragNoQuote, ~s.escaped
    PROVE  FragClean(FragNewLine(s))
<1>1. s \in FragStates
  BY DEF FragGood
<1> QED  BY <1>1, FragNewLineIs DEF FragClean

LEMMA FragLikeStart ==
    ASSUME NEW root \in BOOLEAN
    PROVE  FragLike(FragLexStart, FragLexStart, root) /\ FragClean(FragLexStart)
  BY DEF FragLike, FragLikeText, FragLikeTokens, FragClean, FragLexStart

(* The result of a lexer that ends outside of quotes. *)
LEMMA FragLexIs ==
    ASSUME NEW text \in Seq(Seq(FragChars)), text # <<>>,
           FragLexed(text)[Len(text)].err = 0, FragLexed(text)[Len(text)].quote = FragNoQuote
    PROVE  /\ FragLex(text).tokens = FragFlushed(FragLexed(text)[Len(text)])
           /\ FragLex(text).continuation = FragLexed(text)[Len(text)].continuation
           /\ FragLex(text).err = 0
<1> DEFINE s == FragLexed(text)[Len(text)]
<1>1. FragLex(text) = FragEnd(s, FALSE)
  BY DEF FragLex
<1>2. s \in FragStates
  <2>1. Len(text) \in 1 .. Len(text)
    OBVIOUS
  <2>2. FragLexedWell(text, Len(text))
    BY <2>1, FragLexedGood
  <2> QED  BY <2>2 DEF FragLexedWell, FragGood
<1>3. s.err = 0
  OBVIOUS
<1> HIDE DEF s
<1>4. /\ FragEnd(s, FALSE).tokens = IF s.in THEN Append(s.tokens, FragToken(s, FALSE)) ELSE s.tokens
      /\ FragEnd(s, FALSE).continuation = s.continuation /\ FragEnd(s, FALSE).err = s.err
  BY <1>2, FragEndIs
<1> QED  BY <1>1, <1>3, <1>4 DEF FragFlushed, s

(* Likeness goes from one state to the next. *)
LEMMA FragLikeTwice ==
    ASSUME NEW s, NEW t, NEW u, NEW root, FragLike(s, t, root), FragLike(t, u, root)
    PROVE  FragLike(s, u, root)
<1>1. FragLikeTokens(s.tokens, u.tokens, root)
  <2>1. FragLikeTokens(s.tokens, t.tokens, root) /\ FragLikeTokens(t.tokens, u.tokens, root)
    BY DEF FragLike
  <2>2. Len(s.tokens) = Len(t.tokens) /\ Len(t.tokens) = Len(u.tokens)
    BY <2>1 DEF FragLikeTokens
  <2>3. ASSUME NEW i \in 1 .. Len(s.tokens) PROVE FragLikeToken(s.tokens[i], u.tokens[i], root)
    <3>1. FragLikeToken(s.tokens[i], t.tokens[i], root) /\ FragLikeToken(t.tokens[i], u.tokens[i], root)
      BY <2>1, <2>2 DEF FragLikeTokens
    <3> QED  BY <3>1, Zenon DEF FragLikeToken, FragLikeText
  <2> QED  BY <2>2, <2>3 DEF FragLikeTokens
<1>2. FragLikeText(s.text, u.text, root /\ s.quote # FragNoQuote /\ s.tokenLine # s.line)
  BY Zenon DEF FragLike, FragLikeText
<1> QED  BY <1>1, <1>2, Zenon DEF FragLike

LEMMA FragLikeSame ==
    ASSUME NEW s, NEW t, NEW root,
           s.tokens = t.tokens, s.in = t.in, s.quote = t.quote, s.quoteLine = t.quoteLine,
           s.tokenLine = t.tokenLine, s.line = t.line, s.continuation = t.continuation,
           s.escaped = t.escaped, s.comment = t.comment, s.err = t.err,
           FragLikeText(s.text, t.text, root /\ s.quote # FragNoQuote /\ s.tokenLine # s.line)
    PROVE  FragLike(s, t, root)
<1>1. FragLikeTokens(s.tokens, t.tokens, root)
  BY Zenon DEF FragLikeTokens, FragLikeToken, FragLikeText
<1> QED  BY <1>1, Zenon DEF FragLike

(* A carriage return before a line end changes at most the text of a token in
   quotes, which then spans lines. *)
LEMMA FragReturnLine ==
    ASSUME NEW u, FragGood(u), ~u.escaped, NEW n
    PROVE  FragLike(FragNewLine(FragStep(u, "cr", n)), FragNewLine(u), TRUE)
<1> DEFINE r == FragStep(u, "cr", n)
           k == FragKind(u, "cr", n)
           x == FragNewLine(r)
           y == FragNewLine(u)
<1>1. u \in FragStates /\ "cr" \in FragChars
  BY FragBlankChars DEF FragGood
<1>2. r \in FragStates /\ FragDone(r, u, k, "cr")
  BY <1>1, FragStepIs
<1>3. k \in {"stay", "inside", "end"}
  BY <1>1 DEF FragKind, FragStates, FragNoQuote, FragLexBlanks
<1>4. CASE k = "stay"
  <2>1. r = u
    BY <1>4 DEF FragKind, FragStep
  <2> HIDE DEF r, k
  <2>2. x = y
    BY <2>1
  <2> HIDE DEF x, y
  <2> QED  BY <2>2, FragLikeSame DEF FragLikeText, x, y, r
<1>5. CASE k = "inside"
  <2>1. u.err = 0 /\ u.quote # FragNoQuote
    BY <1>5 DEF FragKind
  <2> HIDE DEF r, k
  <2>2. /\ r.tokens = u.tokens /\ r.in = u.in /\ r.quote = u.quote /\ r.quoteLine = u.quoteLine
        /\ r.tokenLine = u.tokenLine /\ r.line = u.line /\ r.continuation = u.continuation
        /\ r.escaped = u.escaped /\ r.comment = u.comment /\ r.err = u.err
        /\ r.text = Append(u.text, "cr")
    BY <1>2, <1>5 DEF FragDone
  <2>3. /\ y.line = u.line + 1 /\ y.quote = u.quote /\ y.quoteLine = u.quoteLine
        /\ y.tokenLine = u.tokenLine /\ y.escaped = u.escaped /\ y.err = 0
        /\ y.tokens = u.tokens /\ y.text = Append(u.text, "nl") /\ y.in = u.in /\ y.comment = u.comment
        /\ y.continuation = u.continuation \cup {u.line + 1}
    BY <1>1, <2>1, FragNewLineIs
  <2>4. /\ x.line = r.line + 1 /\ x.quote = r.quote /\ x.quoteLine = r.quoteLine
        /\ x.tokenLine = r.tokenLine /\ x.escaped = r.escaped /\ x.err = 0
        /\ x.tokens = r.tokens /\ x.text = Append(r.text, "nl") /\ x.in = r.in /\ x.comment = r.comment
        /\ x.continuation = r.continuation \cup {r.line + 1}
    BY <1>2, <2>1, <2>2, FragNewLineIs
  <2> HIDE DEF x, y
  <2>5. FragHasEnd(x.text) /\ FragHasEnd(y.text)
    <3>1. u.text \in Seq(FragChars) /\ r.text \in Seq(FragChars) /\ "nl" \in FragChars
      BY <1>1, <1>2 DEF FragStates, FragChars
    <3> QED  BY <2>3, <2>4, <3>1, FragHasEndAppend
  <2>6. x.tokenLine # x.line /\ x.quote # FragNoQuote
    <3>1. u.tokenLine \in 1 .. u.line /\ u.line \in Nat
      BY <1>1 DEF FragGood, FragStates
    <3> QED  BY <2>1, <2>2, <2>4, <3>1
  <2>7. FragLikeText(x.text, y.text, TRUE /\ x.quote # FragNoQuote /\ x.tokenLine # x.line)
    BY <2>5, <2>6 DEF FragLikeText
  <2>8. FragLike(x, y, TRUE)
    BY <2>2, <2>3, <2>4, <2>7, FragLikeSame
  <2> QED  BY <2>8 DEF x, y, r
<1>6. CASE k = "end"
  <2>1. u.err = 0 /\ u.quote = FragNoQuote /\ ~u.comment
    BY <1>6 DEF FragKind
  <2> HIDE DEF r, k
  <2>2. (k = "close") = FALSE
    BY <1>6
  <2>3. /\ r.tokens = IF u.in THEN Append(u.tokens, FragToken(u, FALSE)) ELSE u.tokens
        /\ r.in = FALSE /\ r.quote = u.quote /\ r.quoteLine = u.quoteLine
        /\ r.tokenLine = u.tokenLine /\ r.line = u.line /\ r.continuation = u.continuation
        /\ r.escaped = u.escaped /\ r.comment = u.comment /\ r.err = u.err /\ r.text = <<>>
    BY <1>2, <1>6, <2>2 DEF FragDone
  <2>4. /\ y.line = u.line + 1 /\ y.quote = u.quote /\ y.quoteLine = u.quoteLine
        /\ y.tokenLine = u.tokenLine /\ y.escaped = u.escaped /\ y.err = 0
        /\ y.tokens = IF u.in THEN Append(u.tokens, FragToken(u, FALSE)) ELSE u.tokens
        /\ y.text = <<>> /\ y.in = FALSE /\ y.comment = FALSE /\ y.continuation = u.continuation
    BY <1>1, <2>1, FragNewLineIs
  <2>5. /\ x.line = r.line + 1 /\ x.quote = r.quote /\ x.quoteLine = r.quoteLine
        /\ x.tokenLine = r.tokenLine /\ x.escaped = r.escaped /\ x.err = 0
        /\ x.tokens = IF r.in THEN Append(r.tokens, FragToken(r, FALSE)) ELSE r.tokens
        /\ x.text = <<>> /\ x.in = FALSE /\ x.comment = FALSE /\ x.continuation = r.continuation
    BY <1>2, <2>1, <2>3, FragNewLineIs
  <2> HIDE DEF x, y
  <2>6. x.tokens = r.tokens
    BY <2>3, <2>5
  <2>7. FragLikeText(x.text, y.text, TRUE /\ x.quote # FragNoQuote /\ x.tokenLine # x.line)
    BY <2>4, <2>5 DEF FragLikeText
  <2>8. FragLike(x, y, TRUE)
    BY <2>3, <2>4, <2>5, <2>6, <2>7, FragLikeSame
  <2> QED  BY <2>8 DEF x, y, r
<1> QED  BY <1>3, <1>4, <1>5, <1>6

(* One line, with and without a carriage return at its end. *)
LEMMA FragLineEndStep ==
    ASSUME NEW b, FragGood(b), ~b.escaped, NEW c, FragGood(c), FragLike(b, c, TRUE),
           NEW a \in Seq(FragChars), NEW x \in Seq(FragChars), \A i \in 1 .. Len(x) : x[i] = a[i],
           Len(x) = Len(a) \/ (Len(a) = Len(x) + 1 /\ a[Len(a)] = "cr")
    PROVE  LET f == FragAlong(b, a)[Len(a)]
               g == FragAlong(c, x)[Len(x)]
           IN /\ FragLike(FragNewLine(f), FragNewLine(g), TRUE)
              /\ Len(x) = Len(a) => FragLike(f, g, TRUE)
<1> DEFINE m == Len(x)
           u == FragAlong(b, a)
           v == FragAlong(c, x)
<1>1. m \in Nat /\ Len(a) \in Nat /\ m <= Len(a) /\ m \in 0 .. Len(a) /\ m \in 0 .. Len(x)
  OBVIOUS
<1>2. u[0] = b /\ v[0] = c /\ \A i \in 1 .. Len(a) : u[i] = FragStep(u[i - 1], a[i], FragNext(a, i))
  BY <1>1, FragAlongSteps DEF FragAlongRun
<1>3. (\A i \in 0 .. Len(a) : FragGood(u[i])) /\ (\A i \in 0 .. Len(x) : FragGood(v[i]))
  BY FragAlongGood
<1>4. FragLike(u[m], v[m], TRUE)
  <2>1. 0 + m <= Len(a) /\ 0 + m = Len(x) /\ 0 \in Nat /\ 0 + m = m
    BY <1>1
  <2>2. \A i \in 1 .. m : a[0 + i] = x[0 + i]
    <3>1. \A i \in 1 .. m : 0 + i = i
      BY <1>1
    <3> QED  BY <3>1
  <2>3. 0 + m = Len(a) \/ a[0 + m + 1] \in FragLexBlanks
    BY <1>1, FragBlankChars
  <2>4. FragLike(u[0], v[0], TRUE)
    BY <1>2
  <2>5. TRUE \in BOOLEAN
    OBVIOUS
  <2> HIDE DEF m
  <2>6. FragLike(FragAlong(b, a)[0 + m], FragAlong(c, x)[Len(x)], TRUE)
    BY <1>1, <2>1, <2>2, <2>3, <2>4, <2>5, FragAlongLike
  <2> QED  BY <2>1, <2>6
<1>5. FragGood(u[m]) /\ FragGood(v[m])
  BY <1>1, <1>3
<1>6. FragEscapes(u[m], FragNext(a, m))
  BY <1>1, FragAlongEscapes
<1> HIDE DEF u, v
<1>7. FragLike(FragNewLine(u[m]), FragNewLine(v[m]), TRUE)
  <2>1. TRUE \in BOOLEAN
    OBVIOUS
  <2> HIDE DEF m
  <2> QED  BY <1>4, <1>5, <2>1, FragLikeLine
<1>8. CASE m = Len(a)
  BY <1>4, <1>7, <1>8 DEF u, v
<1>9. CASE m # Len(a)
  <2>1. Len(a) = m + 1 /\ a[m + 1] = "cr" /\ m + 1 \in 1 .. Len(a) /\ (m + 1) - 1 = m
    BY <1>1, <1>9
  <2>2. u[m + 1] = FragStep(u[m], "cr", FragNext(a, m + 1))
    BY <1>2, <2>1
  <2>3. ~u[m].escaped
    <3>1. FragNext(a, m) = "cr"
      BY <1>1, <2>1 DEF FragNext
    <3> QED  BY <1>6, <3>1 DEF FragEscapes
  <2> HIDE DEF m
  <2>4. FragLike(FragNewLine(u[m + 1]), FragNewLine(u[m]), TRUE)
    BY <1>5, <2>2, <2>3, FragReturnLine
  <2>5. FragLike(FragNewLine(u[m + 1]), FragNewLine(v[m]), TRUE)
    BY <1>7, <2>4, FragLikeTwice
  <2> QED  BY <1>9, <2>1, <2>5 DEF u, v, m
<1> QED  BY <1>8, <1>9

(* The states of a text and of its lines without carriage returns at their ends. *)
LEMMA FragLineEndsLike ==
    ASSUME NEW text \in Seq(Seq(FragChars)), text # <<>>
    PROVE  FragLike(FragLexed(text)[Len(text)], FragLexed(FragLineEnds(text))[Len(text)], TRUE)
<1> DEFINE t == FragLineEnds(text)
           N == Len(text)
           f == FragLexed(text)
           g == FragLexed(t)
           S == {k \in 0 .. N - 1 : FragLike(FragBefore(text, k + 1), FragBefore(t, k + 1), TRUE)}
<1>1. /\ t \in Seq(Seq(FragChars)) /\ Len(t) = N
      /\ \A k \in 1 .. N :
           /\ \A i \in 1 .. Len(t[k]) : t[k][i] = text[k][i]
           /\ \/ Len(t[k]) = Len(text[k])
              \/ k < N /\ Len(text[k]) = Len(t[k]) + 1 /\ text[k][Len(text[k])] = "cr"
  BY FragLineEndsIs
<1> HIDE DEF t
<1>2. N \in Nat /\ N # 0 /\ N - 1 \in Nat /\ (N - 1) + 1 = N
  OBVIOUS
<1>3. \A k \in 1 .. N : FragGood(FragBefore(text, k)) /\ FragGood(FragBefore(t, k)) /\ ~FragBefore(text, k).escaped
  <2>1. \A k \in 1 .. N : FragGood(FragBefore(text, k))
    BY FragLexedGood DEF FragLexedWell
  <2>2. \A k \in 1 .. N : FragGood(FragBefore(t, k))
    <3>1. \A k \in 1 .. Len(t) : FragLexedWell(t, k)
      BY <1>1, FragLexedGood
    <3> QED  BY <1>1, <3>1 DEF FragLexedWell
  <2>3. \A k \in 1 .. N : ~FragBefore(text, k).escaped
    BY FragLexedEscapes
  <2> QED  BY <2>1, <2>2, <2>3
<1>4. ASSUME NEW k \in 1 .. N
      PROVE  /\ f[k] = FragAlong(FragBefore(text, k), text[k])[Len(text[k])]
             /\ g[k] = FragAlong(FragBefore(t, k), t[k])[Len(t[k])]
  <2>1. f[k] = FragAlong(FragBefore(text, k), text[k])[Len(text[k])]
    BY <1>2, FragLexedIs
  <2>2. g[k] = FragAlong(FragBefore(t, k), t[k])[Len(t[k])]
    <3>1. Len(t) \in Nat /\ k \in 1 .. Len(t)
      BY <1>1, <1>2
    <3> QED  BY <3>1, FragLexedIs
  <2> QED  BY <2>1, <2>2
<1> HIDE DEF f, g
<1>5. ASSUME NEW k \in 1 .. N, FragLike(FragBefore(text, k), FragBefore(t, k), TRUE)
      PROVE  /\ FragLike(FragNewLine(f[k]), FragNewLine(g[k]), TRUE)
             /\ k = N => FragLike(f[k], g[k], TRUE)
  <2> DEFINE b == FragBefore(text, k)
             c == FragBefore(t, k)
             a == text[k]
             x == t[k]
  <2>1. FragGood(b) /\ ~b.escaped /\ FragGood(c) /\ FragLike(b, c, TRUE)
    BY <1>3, <1>5
  <2>2. a \in Seq(FragChars)
    OBVIOUS
  <2>3. x \in Seq(FragChars)
    BY <1>1
  <2>4. /\ \A i \in 1 .. Len(x) : x[i] = a[i]
        /\ Len(x) = Len(a) \/ (Len(a) = Len(x) + 1 /\ a[Len(a)] = "cr")
        /\ k = N => Len(x) = Len(a)
    <3>1. \/ Len(x) = Len(a)
          \/ k < N /\ Len(a) = Len(x) + 1 /\ a[Len(a)] = "cr"
      BY <1>1, Zenon
    <3>2. k < N => k # N
      <4> HIDE DEF N
      <4>1. k \in Nat /\ N \in Nat
        BY <1>2
      <4> QED  BY <4>1
    <3>3. \A i \in 1 .. Len(x) : x[i] = a[i]
      BY <1>1, Zenon
    <3>4. Len(x) = Len(a) \/ (Len(a) = Len(x) + 1 /\ a[Len(a)] = "cr")
      BY <3>1
    <3>5. k = N => Len(x) = Len(a)
      BY <3>1, <3>2
    <3> QED  BY <3>3, <3>4, <3>5, Zenon
  <2>5. f[k] = FragAlong(b, a)[Len(a)] /\ g[k] = FragAlong(c, x)[Len(x)]
    BY <1>4
  <2> HIDE DEF b, c, a, x
  <2>6. \A i \in 1 .. Len(x) : x[i] = a[i]
    BY <2>4
  <2>7. Len(x) = Len(a) \/ (Len(a) = Len(x) + 1 /\ a[Len(a)] = "cr")
    BY <2>4
  <2>8. /\ FragLike(FragNewLine(FragAlong(b, a)[Len(a)]), FragNewLine(FragAlong(c, x)[Len(x)]), TRUE)
        /\ Len(x) = Len(a) => FragLike(FragAlong(b, a)[Len(a)], FragAlong(c, x)[Len(x)], TRUE)
    BY <2>1, <2>2, <2>3, <2>6, <2>7, FragLineEndStep
  <2> QED  BY <2>4, <2>5, <2>8
<1>6. 0 \in S
  <2>1. FragBefore(text, 0 + 1) = FragLexStart /\ FragBefore(t, 0 + 1) = FragLexStart
    BY DEF FragBefore
  <2>2. FragLike(FragLexStart, FragLexStart, TRUE)
    BY FragLikeStart
  <2>3. 0 \in 0 .. N - 1
    BY <1>2
  <2> QED  BY <2>1, <2>2, <2>3
<1>7. ASSUME NEW i \in 0 .. N - 1, i \in S, i < N - 1
      PROVE  i + 1 \in S
  <2>1. i + 1 \in 1 .. N /\ i + 1 \in 0 .. N - 1 /\ (i + 1) + 1 # 1 /\ ((i + 1) + 1) - 1 = i + 1
    BY <1>2, <1>7
  <2>2. FragLike(FragNewLine(f[i + 1]), FragNewLine(g[i + 1]), TRUE)
    BY <1>5, <1>7, <2>1
  <2>3. FragBefore(text, (i + 1) + 1) = FragNewLine(f[i + 1]) /\ FragBefore(t, (i + 1) + 1) = FragNewLine(g[i + 1])
    BY <2>1 DEF FragBefore, f, g
  <2> QED  BY <2>1, <2>2, <2>3
<1>8. 0 .. N - 1 \subseteq S
  <2> HIDE DEF S, N
  <2>1. SiteInductive(S, N - 1)
    BY <1>6, <1>7 DEF SiteInductive
  <2> QED  BY <1>2, <2>1, SiteInduct
<1>9. FragLike(FragBefore(text, N), FragBefore(t, N), TRUE)
  <2>1. N - 1 \in 0 .. N - 1
    BY <1>2
  <2>2. N - 1 \in S
    BY <1>8, <2>1
  <2> QED  BY <1>2, <2>2
<1>10. N \in 1 .. N
  BY <1>2
<1> QED  BY <1>5, <1>9, <1>10 DEF f, g, t

(* What indentation makes of line ends changes no token but the text of those
   in quotes that span lines, and which lines continue one stays the same. *)
LEMMA FragLineEndsTokens ==
    ASSUME NEW text \in Seq(Seq(FragChars)), text # <<>>,
           FragLexed(text)[Len(text)].err = 0, FragLexed(text)[Len(text)].quote = FragNoQuote
    PROVE  LET t == FragLineEnds(text) IN
           /\ FragLexed(t)[Len(t)].err = 0 /\ FragLexed(t)[Len(t)].quote = FragNoQuote
           /\ FragLex(t).err = 0
           /\ FragLikeTokens(FragLex(text).tokens, FragLex(t).tokens, TRUE)
           /\ \A k : FragContinues(t, k) = FragContinues(text, k)
<1> DEFINE t == FragLineEnds(text)
           s == FragLexed(text)[Len(text)]
           r == FragLexed(t)[Len(t)]
<1>1. t \in Seq(Seq(FragChars)) /\ Len(t) = Len(text) /\ t # <<>>
  BY FragLineEndsIs
<1>2. FragLike(s, r, TRUE)
  BY <1>1, FragLineEndsLike
<1>3. s.err = 0 /\ s.quote = FragNoQuote
  OBVIOUS
<1>4. s \in FragStates /\ r \in FragStates
  <2>1. Len(text) \in 1 .. Len(text)
    OBVIOUS
  <2>2. FragLexedWell(text, Len(text))
    BY <2>1, FragLexedGood
  <2>3. FragLexedWell(t, Len(t))
    <3> HIDE DEF t
    <3>1. Len(t) \in 1 .. Len(t)
      BY <1>1, <2>1
    <3> QED  BY <1>1, <3>1, FragLexedGood
  <2> QED  BY <2>2, <2>3 DEF FragLexedWell, FragGood
<1>5. /\ FragLex(text).tokens = FragFlushed(s) /\ FragLex(text).continuation = s.continuation
  BY FragLexIs
<1> HIDE DEF s
<1>6. r.err = 0 /\ r.quote = FragNoQuote /\ r.continuation = s.continuation
  BY <1>2, <1>3 DEF FragLike
<1>7. FragLex(t).tokens = FragFlushed(r) /\ FragLex(t).continuation = r.continuation /\ FragLex(t).err = 0
  <2> HIDE DEF t
  <2> QED  BY <1>1, <1>6, FragLexIs
<1> HIDE DEF r, t
<1>8. FragLikeTokens(FragFlushed(s), FragFlushed(r), TRUE)
  <2>1. FALSE \in BOOLEAN /\ (FALSE <=> s.quote # FragNoQuote) /\ TRUE \in BOOLEAN
    BY <1>3
  <2> QED  BY <1>2, <1>4, <2>1, FragLikeEnd DEF FragFlushed
<1>9. \A k : FragContinues(t, k) = FragContinues(text, k)
  BY <1>5, <1>6, <1>7, Zenon DEF FragContinues
<1> QED  BY <1>5, <1>6, <1>7, <1>8, <1>9 DEF r, t

(* A text whose lines are moved has the same tokens, but for what is in quotes
   that span lines. *)
FragPlacedLines(text, r, root) ==
  /\ Len(r) = Len(FragTrimEnd(text))
  /\ \A k \in 1 .. Len(text) : k > Len(r) => \A i \in 1 .. Len(text[k]) : text[k][i] \in FragLexBlanks
  /\ \A k \in 1 .. Len(r) : \A i \in 1 .. Len(text[k]) : i > Len(FragTrimEnd(text)[k]) => text[k][i] \in FragLexBlanks
  /\ \A k \in 1 .. Len(r) : Len(FragTrimEnd(text)[k]) \in 0 .. Len(text[k])
  /\ \A k \in 1 .. Len(r) : FragMoved(text[k], Len(FragTrimEnd(text)[k]), r[k], FragContinues(text, k), root)

LEMMA FragPlacedAlike ==
    ASSUME NEW text \in Seq(Seq(FragChars)), text # <<>>, NEW r \in Seq(Seq(FragChars)), NEW root \in BOOLEAN,
           FragLexed(text)[Len(text)].err = 0, FragLexed(text)[Len(text)].quote = FragNoQuote,
           FragPlacedLines(text, r, root)
    PROVE  FragLex(r).err = 0 /\ FragLikeTokens(FragLex(text).tokens, FragLex(r).tokens, root)
<1> DEFINE f == FragLexed(text)
           g == FragLexed(r)
           l == FragTrimEnd(text)
           last == Len(l)
           N == Len(text)
           u(k) == FragAlong(FragBefore(text, k), text[k])[Len(l[k])]
           S == {k \in 0 .. last : k = 0 \/ FragLike(u(k), g[k], root)}
<1>1. /\ Len(l) \in 1 .. Len(text)
      /\ \A k \in 1 .. Len(l) - 1 : l[k] = text[k]
  BY FragTrimEndIs
<1>2. /\ \A k \in 1 .. Len(l) :
           /\ Len(l[k]) \in 0 .. Len(text[k])
           /\ \A i \in 1 .. Len(text[k]) : i > Len(l[k]) => text[k][i] \in FragLexBlanks
      /\ \A k \in 1 .. Len(text) : k > Len(l) => \A i \in 1 .. Len(text[k]) : text[k][i] \in FragLexBlanks
  BY DEF FragPlacedLines
<1>3. Len(r) = Len(l) /\ \A k \in 1 .. Len(r) : FragMoved(text[k], Len(l[k]), r[k], FragContinues(text, k), root)
  BY DEF FragPlacedLines
<1> HIDE DEF l
<1>4. N \in Nat /\ N # 0 /\ last \in Nat /\ last \in 1 .. N /\ Len(r) = last
  <2>1. N \in Nat /\ N # 0
    OBVIOUS
  <2> QED  BY <1>1, <1>3, <2>1
<1>5. f[N].err = 0 /\ f[N].quote = FragNoQuote
  OBVIOUS
<1>6. /\ \A k \in 1 .. N : f[k] = FragAlong(FragBefore(text, k), text[k])[Len(text[k])]
      /\ \A k \in 1 .. last : g[k] = FragAlong(FragBefore(r, k), r[k])[Len(r[k])]
  <2>1. \A k \in 1 .. N : f[k] = FragAlong(FragBefore(text, k), text[k])[Len(text[k])]
    BY <1>4, FragLexedIs
  <2>2. Len(r) \in Nat
    OBVIOUS
  <2>3. \A k \in 1 .. Len(r) : g[k] = FragAlong(FragBefore(r, k), r[k])[Len(r[k])]
    BY <2>2, FragLexedIs
  <2> QED  BY <1>4, <2>1, <2>3
<1>7. /\ \A k \in 1 .. N : FragGood(FragBefore(text, k)) /\ FragGood(f[k]) /\ ~FragBefore(text, k).escaped /\ ~f[k].escaped
      /\ \A k \in 1 .. last : FragGood(FragBefore(r, k)) /\ FragGood(g[k]) /\ ~FragBefore(r, k).escaped /\ ~g[k].escaped
  <2>1. \A k \in 1 .. N : FragLexedWell(text, k) /\ ~FragBefore(text, k).escaped /\ ~f[k].escaped
    BY FragLexedGood, FragLexedEscapes
  <2>2. \A k \in 1 .. Len(r) : FragLexedWell(r, k) /\ ~FragBefore(r, k).escaped /\ ~g[k].escaped
    BY FragLexedGood, FragLexedEscapes
  <2> QED  BY <1>4, <2>1, <2>2 DEF FragLexedWell
<1>8. \A k \in 1 .. N : f[k].err = 0
  <2>1. N \in 1 .. N
    BY <1>4
  <2>2. FragLexedWell(text, N)
    BY <2>1, FragLexedGood
  <2> QED  BY <1>5, <2>2 DEF FragLexedWell
<1>9. ASSUME NEW k \in 1 .. N PROVE FragContinues(text, k) <=> k # 1 /\ f[k - 1].quote # FragNoQuote
  <2>1. FragLex(text).continuation = f[N].continuation
    BY <1>5, FragLexIs
  <2>2. f[N].continuation = {j \in 2 .. N : f[j - 1].quote # FragNoQuote}
    <3>1. N \in 1 .. N
      BY <1>4
    <3> QED  BY <1>5, <3>1, FragContinuationIs
  <2>3. k \in 2 .. N <=> k # 1
    BY <1>4
  <2> HIDE DEF f
  <2> QED  BY <2>1, <2>2, <2>3 DEF FragContinues
<1> HIDE DEF f, g, N, last
<1>10. 0 \in S
  BY <1>4
<1>11. ASSUME NEW i \in 0 .. last, i \in S, i < last
       PROVE  i + 1 \in S
  <2> DEFINE k == i + 1
             b == FragBefore(text, k)
             c == FragBefore(r, k)
             cont == FragContinues(text, k)
  <2>1. i \in Nat /\ k \in 1 .. last /\ k \in 1 .. N /\ k - 1 = i /\ k \in 0 .. last /\ k \in 1 .. Len(l)
    <3>1. i \in Nat /\ i < last /\ last = Len(l)
      BY <1>11 DEF last
    <3>2. last \in Nat /\ N \in Nat /\ last <= N
      BY <1>4
    <3>3. k \in 1 .. last /\ k \in 1 .. N /\ k - 1 = i /\ k \in 0 .. last
      <4> HIDE DEF S
      <4> QED  BY <3>1, <3>2
    <3> HIDE DEF k
    <3> QED  BY <3>1, <3>3
  <2>2. FragGood(b) /\ FragGood(c)
    BY <1>7, <2>1
  <2>5. FragLike(b, c, root) /\ (cont => FragInside(b) /\ FragInside(c)) /\ (~cont => FragClean(b) /\ FragClean(c))
    <3>3. CASE i = 0
      <4>1. b = FragLexStart /\ c = FragLexStart
        BY <3>3 DEF FragBefore
      <4>2. ~cont
        <5>1. k = 1
          BY <3>3
        <5> HIDE DEF k
        <5> QED  BY <1>9, <2>1, <5>1
      <4> HIDE DEF b, c, cont
      <4> QED  BY <4>1, <4>2, FragLikeStart
    <3>4. CASE i # 0
      <4>1. b = FragNewLine(f[i]) /\ c = FragNewLine(g[i])
        BY <2>1, <3>4 DEF FragBefore, f, g
      <4>2. i \in 1 .. last /\ i \in 1 .. N /\ i \in 1 .. Len(l) - 1
        <5>1. i \in Nat /\ i < last
          BY <1>11
        <5> QED  BY <1>4, <3>4, <5>1 DEF last
      <4>3. FragLike(f[i], g[i], root)
        <5>1. l[i] = text[i]
          BY <1>1, <4>2
        <5>2. u(i) = f[i]
          BY <1>6, <4>2, <5>1
        <5>3. FragLike(u(i), g[i], root)
          BY <1>11, <3>4
        <5> HIDE DEF u
        <5> QED  BY <5>2, <5>3
      <4>4. FragGood(f[i]) /\ FragGood(g[i]) /\ ~f[i].escaped /\ ~g[i].escaped /\ f[i].err = 0
        BY <1>7, <1>8, <4>2
      <4>5. g[i].err = 0 /\ g[i].quote = f[i].quote
        BY <4>3, <4>4 DEF FragLike
      <4>6. cont <=> f[i].quote # FragNoQuote
        <5>1. k # 1
          BY <3>4, <2>1
        <5>2. cont <=> k # 1 /\ f[k - 1].quote # FragNoQuote
          BY <1>9, <2>1
        <5> QED  BY <2>1, <5>1, <5>2
      <4> HIDE DEF b, c, cont
      <4>7. FragLike(b, c, root)
        BY <4>1, <4>3, <4>4, FragLikeLine
      <4>8. ASSUME cont PROVE FragInside(b) /\ FragInside(c)
        BY <4>1, <4>4, <4>5, <4>6, <4>8, FragInsideLine
      <4>9. ASSUME ~cont PROVE FragClean(b) /\ FragClean(c)
        BY <4>1, <4>4, <4>5, <4>6, <4>9, FragCleanLine
      <4> QED  BY <4>7, <4>8, <4>9
    <3> QED  BY <3>3, <3>4
  <2>6. g[k] = FragAlong(c, r[k])[Len(r[k])]
    BY <1>6, <2>1
  <2> HIDE DEF b, c, cont
  <2> DEFINE a == text[k]
             m == Len(l[k])
  <2>7. a \in Seq(FragChars) /\ r[k] \in Seq(FragChars) /\ m \in 0 .. Len(a)
    <3>1. k \in 1 .. Len(text) /\ k \in 1 .. Len(r)
      BY <1>4, <2>1 DEF N
    <3> HIDE DEF k
    <3> QED  BY <1>2, <2>1, <3>1
  <2>8. m = Len(a) \/ a[m + 1] \in FragLexBlanks
    <3>1. CASE m # Len(a)
      <4>1. Len(a) \in Nat
        BY <2>7
      <4>2. m + 1 \in 1 .. Len(a) /\ m + 1 > m
        <5> HIDE DEF a, m
        <5> QED  BY <2>7, <3>1, <4>1
      <4> HIDE DEF k
      <4> QED  BY <1>2, <2>1, <4>2
    <3> QED  BY <3>1
  <2>9. FragMoved(a, m, r[k], cont, root)
    <3>1. k \in 1 .. Len(r)
      BY <1>4, <2>1
    <3> HIDE DEF k
    <3> QED  BY <1>3, <3>1 DEF cont
  <2>10. u(k) = FragAlong(b, a)[m]
    BY DEF b
  <2> HIDE DEF a, m, k
  <2>11. FragLike(FragAlong(b, a)[m], FragAlong(c, r[k])[Len(r[k])], root)
    BY <2>2, <2>5, <2>7, <2>8, <2>9, FragMovedLike
  <2>12. FragLike(u(k), g[k], root)
    <3> HIDE DEF u
    <3> QED  BY <2>6, <2>10, <2>11
  <2> QED  BY <2>1, <2>12 DEF k
<1>12. 0 .. last \subseteq S
  <2> HIDE DEF S
  <2>1. SiteInductive(S, last)
    BY <1>10, <1>11 DEF SiteInductive
  <2> QED  BY <1>4, <2>1, SiteInduct
<1>13. FragLike(u(last), g[last], root)
  <2>1. last \in 0 .. last /\ last # 0
    BY <1>4
  <2> HIDE DEF u
  <2> QED  BY <1>12, <2>1
<1> DEFINE b == FragBefore(text, last)
           a == text[last]
           m == Len(l[last])
           w == u(last)
<1>14. FragGood(w) /\ FragIdle(w, f[last])
  <2>1. FragGood(b) /\ ~b.escaped
    BY <1>4, <1>7
  <2>2. a \in Seq(FragChars)
    BY <1>4 DEF N
  <2>3. m \in 0 .. Len(a) /\ \A i \in 1 .. Len(a) : i > m => a[i] \in FragLexBlanks
    BY <1>2, <1>4 DEF last
  <2>4. w = FragAlong(b, a)[m] /\ f[last] = FragAlong(b, a)[Len(a)]
    BY <1>4, <1>6
  <2> HIDE DEF b, a, m, w
  <2>5. FragIdle(FragAlong(b, a)[m], FragAlong(b, a)[Len(a)])
    BY <2>1, <2>2, <2>3, FragAlongTail
  <2>6. FragGood(FragAlong(b, a)[m])
    BY <2>1, <2>2, <2>3, FragAlongGood
  <2> QED  BY <2>4, <2>5, <2>6
<1> HIDE DEF w, a, m, b, u
<1>15. FragIdle(f[last], f[N])
  <2>1. \A k \in 1 .. Len(text) : k > last => \A i \in 1 .. Len(text[k]) : text[k][i] \in FragLexBlanks
    BY <1>2 DEF last
  <2>2. last \in 1 .. Len(text)
    BY <1>4 DEF N
  <2> QED  BY <2>1, <2>2, FragLexedTail DEF f, N
<1>16. FragIdle(w, f[N])
  BY <1>14, <1>15, FragIdleTwice
<1>17. w.err = 0 /\ w.quote = FragNoQuote /\ FragFlushed(w) = FragFlushed(f[N])
  BY <1>5, <1>16 DEF FragIdle
<1>18. FragLike(w, g[last], root) /\ g[last].err = 0 /\ g[last].quote = FragNoQuote
  BY <1>13, <1>17 DEF FragLike, w
<1>19. FragLikeTokens(FragFlushed(w), FragFlushed(g[last]), root)
  <2>1. w \in FragStates /\ g[last] \in FragStates
    BY <1>4, <1>7, <1>14 DEF FragGood
  <2>2. FALSE \in BOOLEAN /\ (FALSE <=> w.quote # FragNoQuote)
    BY <1>17
  <2> QED  BY <1>18, <2>1, <2>2, FragLikeEnd DEF FragFlushed
<1>20. FragLex(text).tokens = FragFlushed(f[N])
  BY <1>5, FragLexIs DEF f, N
<1>21. FragLex(r).tokens = FragFlushed(g[last]) /\ FragLex(r).err = 0
  <2>1. Len(r) = last /\ r # <<>>
    BY <1>4
  <2>2. FragLexed(r)[Len(r)].err = 0 /\ FragLexed(r)[Len(r)].quote = FragNoQuote
    BY <1>18, <2>1 DEF g
  <2>3. FragLex(r).tokens = FragFlushed(FragLexed(r)[Len(r)]) /\ FragLex(r).err = 0
    BY <2>1, <2>2, FragLexIs
  <2> QED  BY <2>1, <2>3 DEF g
<1> QED  BY <1>17, <1>19, <1>20, <1>21

(* What is checked: blocks that are open, and the line that is refused. *)
FragBlocks(n) == [directive : Seq(FragChars), line : 1 .. n, container : BOOLEAN]
FragCheckStates(n) == [stack : Seq(FragBlocks(n)), err : 0 .. n]

(* Tokens on lines up to n. *)
FragUpTo(n) == {t \in FragTokens : t.line \in 1 .. n}

(* The line that a token ends begins after the last that ends one. *)
LEMMA FragLineOfIs ==
    ASSUME NEW X, NEW tokens \in Seq(X), NEW k \in 1 .. Len(tokens)
    PROVE  \E m \in 0 .. k - 1 :
             /\ FragLineOf(tokens, k) \in Seq(X) /\ Len(FragLineOf(tokens, k)) = k - m
             /\ \A i \in 1 .. k - m : FragLineOf(tokens, k)[i] = tokens[m + i]
             /\ m # 0 => FragEndsLine(tokens, m)
<1> DEFINE E == {j \in 1 .. k - 1 : FragEndsLine(tokens, j)}
           m == IF E = {} THEN 0 ELSE Max(E)
           line == FragLineOf(tokens, k)
<1>1. Len(tokens) \in Nat /\ k \in Nat /\ k - 1 \in Nat
  OBVIOUS
<1>2. E \subseteq 1 .. k - 1 /\ \A j \in E : FragEndsLine(tokens, j)
  OBVIOUS
<1>3. line = SubSeq(tokens, IF E = {} THEN 1 ELSE Max(E) + 1, k)
  BY DEF FragLineOf
<1> HIDE DEF E, line
<1>4. E # {} => Max(E) \in E
  BY <1>1, <1>2, FragMaxIs
<1>5. m \in 0 .. k - 1 /\ (m # 0 => FragEndsLine(tokens, m)) /\ line = SubSeq(tokens, m + 1, k)
  <2>1. CASE E = {}
    <3>1. m = 0
      BY <2>1
    <3> QED  BY <1>1, <1>3, <2>1, <3>1
  <2>2. CASE E # {}
    <3>1. m = Max(E)
      BY <2>2
    <3> HIDE DEF m
    <3>2. m \in E
      BY <1>4, <2>2, <3>1
    <3>3. line = SubSeq(tokens, m + 1, k)
      BY <1>3, <2>2, <3>1
    <3>4. m \in 1 .. k - 1 /\ FragEndsLine(tokens, m)
      BY <1>2, <3>2
    <3>5. m \in 0 .. k - 1
      BY <1>1, <3>4
    <3> QED  BY <3>3, <3>4, <3>5
  <2> QED  BY <2>1, <2>2
<1> HIDE DEF m
<1>6. line \in Seq(X) /\ Len(line) = k - m
  BY <1>1, <1>5
<1>7. ASSUME NEW i \in 1 .. k - m PROVE line[i] = tokens[m + i]
  <2>1. i \in 1 .. (k - (m + 1) + 1) /\ (m + 1) + i - 1 = m + i
    BY <1>1, <1>5
  <2>2. SubSeq(tokens, m + 1, k)[i] = tokens[(m + 1) + i - 1]
    BY <1>1, <1>5, <2>1
  <2> QED  BY <1>5, <2>1, <2>2
<1> QED  BY <1>5, <1>6, <1>7 DEF line

(* A line that is not refused, and what it does to the blocks. *)
FragFits(s, line, r) ==
  /\ FragQuotedBraces(line) = {} /\ ~FragBraceMisplaced(line)
  /\ \/ FragBrace(line[1], "}") /\ Len(r.stack) = Len(s.stack) - 1
     \/ ~FragBrace(line[1], "}") /\ FragBrace(line[Len(line)], "{") /\ Len(r.stack) = Len(s.stack) + 1
     \/ ~FragBrace(line[1], "}") /\ ~FragBrace(line[Len(line)], "{") /\ r.stack = s.stack

LEMMA FragCheckLineIs ==
    ASSUME NEW n \in Nat, NEW s \in FragCheckStates(n), NEW line \in Seq(FragUpTo(n)), Len(line) # 0
    PROVE  LET r == FragCheckLine(s, line) IN
           /\ r \in FragCheckStates(n)
           /\ s.err # 0 => r = s
           /\ r.err = 0 => FragFits(s, line, r)
<1> DEFINE r == FragCheckLine(s, line)
           first == line[1]
           closing == FragBrace(first, "}")
           Q == FragQuotedBraces(line)
           Fails(l) == r = FragFail(s, l) /\ l \in 1 .. n
           D(x) == [directive |-> first.text, line |-> first.line, container |-> x]
<1>1. Len(line) \in Nat /\ 1 \in 1 .. Len(line) /\ DOMAIN line = 1 .. Len(line)
  OBVIOUS
<1>2. s.stack \in Seq(FragBlocks(n)) /\ s.err \in 0 .. n
  BY DEF FragCheckStates
<1>3. first \in FragUpTo(n)
  BY <1>1
<1>4. first.line \in 1 .. n /\ first.text \in Seq(FragChars)
  BY <1>3 DEF FragUpTo, FragTokens
<1>5. ASSUME NEW l, Fails(l) PROVE r \in FragCheckStates(n) /\ r.err # 0
  <2>1. r = [s EXCEPT !.err = l] /\ l \in 1 .. n /\ l \in 0 .. n /\ l # 0
    BY <1>5 DEF FragFail
  <2> HIDE DEF r
  <2> QED  BY <2>1 DEF FragCheckStates
<1>6. CASE s.err # 0
  <2>1. r = s
    BY <1>6 DEF FragCheckLine
  <2> HIDE DEF r
  <2> QED  BY <1>6, <2>1 DEF r
<1>7. CASE s.err = 0 /\ Q # {}
  <2>1. r = FragFail(s, line[Min(Q)].line)
    BY <1>7 DEF FragCheckLine
  <2>2. Q \subseteq 1 .. Len(line)
    BY <1>1 DEF FragQuotedBraces
  <2> HIDE DEF Q
  <2>3. Min(Q) \in Q
    BY <1>1, <1>7, <2>2, FragMinIs
  <2>4. line[Min(Q)] \in FragUpTo(n)
    <3>1. \A q \in 1 .. Len(line) : line[q] \in FragUpTo(n)
      OBVIOUS
    <3>2. Min(Q) \in 1 .. Len(line)
      BY <2>2, <2>3
    <3> QED  BY <3>1, <3>2
  <2>5. Fails(line[Min(Q)].line)
    BY <2>1, <2>4 DEF FragUpTo
  <2> HIDE DEF Fails, r
  <2>6. r \in FragCheckStates(n) /\ r.err # 0
    BY <1>5, <2>5
  <2> QED  BY <1>7, <2>6 DEF r
<1>8. CASE s.err = 0 /\ Q = {} /\ (FragBraceMisplaced(line) \/ (closing /\ s.stack = <<>>))
  <2>1. r = FragFail(s, first.line)
    BY <1>8 DEF FragCheckLine
  <2>2. Fails(first.line)
    BY <1>4, <2>1
  <2> HIDE DEF Fails, r
  <2>3. r \in FragCheckStates(n) /\ r.err # 0
    BY <1>5, <2>2
  <2> QED  BY <1>8, <2>3 DEF r
<1> DEFINE fits == s.err = 0 /\ Q = {} /\ ~FragBraceMisplaced(line)
<1>9. CASE fits /\ closing /\ s.stack # <<>>
  <2>1. r = [s EXCEPT !.stack = SubSeq(s.stack, 1, Len(s.stack) - 1)]
    BY <1>9 DEF FragCheckLine
  <2>2. SubSeq(s.stack, 1, Len(s.stack) - 1) \in Seq(FragBlocks(n)) /\ Len(SubSeq(s.stack, 1, Len(s.stack) - 1)) = Len(s.stack) - 1
    <3>1. Len(s.stack) \in Nat /\ Len(s.stack) # 0
      <4>1. \A t \in Seq(FragBlocks(n)) : t # <<>> => Len(t) \in Nat /\ Len(t) # 0
        OBVIOUS
      <4>2. s.stack # <<>>
        BY <1>9
      <4> QED  BY <1>2, <4>1, <4>2
    <3> QED  BY <1>2, <3>1
  <2> HIDE DEF r
  <2>3. r \in FragCheckStates(n) /\ Len(r.stack) = Len(s.stack) - 1
    BY <2>1, <2>2 DEF FragCheckStates
  <2>4. FragFits(s, line, r)
    BY <1>9, <2>3 DEF FragFits
  <2> QED  BY <1>9, <2>3, <2>4 DEF r
<1>10. CASE fits /\ ~closing /\ (FragNameRefused(s.stack, first) \/ FragBrowses(s.stack, line))
  <2>1. r = FragFail(s, first.line)
    BY <1>10 DEF FragCheckLine
  <2>2. Fails(first.line)
    BY <1>4, <2>1
  <2> HIDE DEF Fails, r
  <2>3. r \in FragCheckStates(n) /\ r.err # 0
    BY <1>5, <2>2
  <2> QED  BY <1>10, <2>3 DEF r
<1> DEFINE named == ~(FragNameRefused(s.stack, first) \/ FragBrowses(s.stack, line))
<1>11. CASE fits /\ ~closing /\ named /\ ~FragBrace(line[Len(line)], "{")
  <2>1. r = s
    BY <1>11 DEF FragCheckLine
  <2> HIDE DEF r
  <2>2. FragFits(s, line, r)
    BY <1>11, <2>1 DEF FragFits
  <2> QED  BY <1>11, <2>1, <2>2 DEF r
<1>12. CASE fits /\ ~closing /\ named /\ FragBrace(line[Len(line)], "{")
  <2> DEFINE x == FragInDirectives(s.stack) /\ first.text \in FragContainers
             d == D(x)
  <2>1. r = [s EXCEPT !.stack = Append(s.stack, d)]
    BY <1>12 DEF FragCheckLine
  <2>2. x \in BOOLEAN
    BY DEF FragInDirectives
  <2> HIDE DEF x
  <2>3. d \in FragBlocks(n)
    BY <1>4, <2>2 DEF FragBlocks
  <2> HIDE DEF d
  <2>4. Append(s.stack, d) \in Seq(FragBlocks(n)) /\ Len(Append(s.stack, d)) = Len(s.stack) + 1
    BY <1>2, <2>3
  <2> HIDE DEF r
  <2>5. r \in FragCheckStates(n) /\ Len(r.stack) = Len(s.stack) + 1
    BY <2>1, <2>4 DEF FragCheckStates
  <2>6. FragFits(s, line, r)
    BY <1>12, <2>5 DEF FragFits
  <2> QED  BY <1>12, <2>5, <2>6 DEF r
<1> HIDE DEF r, Fails, Q, closing
<1> QED  BY <1>6, <1>7, <1>8, <1>9, <1>10, <1>11, <1>12 DEF r

(* Only the last token of such a line can be a brace, a closing one only if
   the line has no other. *)
LEMMA FragFitsBraces ==
    ASSUME NEW line, Len(line) \in Nat, DOMAIN line = 1 .. Len(line), NEW s, NEW r, FragFits(s, line, r),
           NEW i \in 1 .. Len(line)
    PROVE  /\ line[i].text = <<"{">> => i = Len(line) /\ FragBrace(line[Len(line)], "{")
           /\ line[i].text = <<"}">> => Len(line) = 1 /\ i = 1 /\ FragBrace(line[1], "}")
           /\ FragBrace(line[1], "}") => Len(line) = 1
<1> DEFINE opens == {k \in DOMAIN line : FragBrace(line[k], "{")}
           closes == {k \in DOMAIN line : FragBrace(line[k], "}")}
<1>1. 1 \in DOMAIN line /\ i \in DOMAIN line
  OBVIOUS
<1>2. closes = {} \/ ~(Len(line) > 1)
  BY DEF FragFits, FragBraceMisplaced
<1>3. opens = {} \/ opens = {Len(line)}
  BY DEF FragFits, FragBraceMisplaced
<1>4. line[i].text \in {<<"{">>, <<"}">>} => ~line[i].quoted
  BY <1>1 DEF FragFits, FragQuotedBraces
<1>5. ASSUME line[i].text = <<"{">> PROVE i = Len(line) /\ FragBrace(line[Len(line)], "{")
  <2>1. FragBrace(line[i], "{")
    BY <1>4, <1>5 DEF FragBrace
  <2>2. i \in opens
    BY <1>1, <2>1
  <2> HIDE DEF opens
  <2>3. i = Len(line)
    BY <1>3, <2>2
  <2> QED  BY <2>1, <2>3
<1>6. ASSUME line[i].text = <<"}">> PROVE Len(line) = 1 /\ i = 1 /\ FragBrace(line[1], "}")
  <2>1. FragBrace(line[i], "}")
    BY <1>4, <1>6 DEF FragBrace
  <2>2. i \in closes
    BY <1>1, <2>1
  <2> HIDE DEF closes
  <2>3. Len(line) = 1 /\ i = 1
    BY <1>2, <2>2
  <2> QED  BY <2>1, <2>3
<1>7. ASSUME FragBrace(line[1], "}") PROVE Len(line) = 1
  <2>1. 1 \in closes
    BY <1>1, <1>7
  <2> HIDE DEF closes
  <2> QED  BY <1>2, <2>1
<1> QED  BY <1>5, <1>6, <1>7

(* Every state of the check is one, and a refusal is for good. *)
LEMMA FragCheckedGood ==
    ASSUME NEW n \in Nat, NEW tokens \in Seq(FragUpTo(n))
    PROVE  \A k \in 0 .. Len(tokens) :
             /\ FragChecked(tokens)[k] \in FragCheckStates(n)
             /\ FragChecked(tokens)[k].err = 0 => \A j \in 0 .. k : FragChecked(tokens)[j].err = 0
             /\ k # 0 /\ FragChecked(tokens)[k].err = 0 =>
                  IF FragEndsLine(tokens, k)
                  THEN FragFits(FragChecked(tokens)[k - 1], FragLineOf(tokens, k), FragChecked(tokens)[k])
                  ELSE FragChecked(tokens)[k] = FragChecked(tokens)[k - 1]
<1> DEFINE c == FragChecked(tokens)
           Good(k) == /\ c[k] \in FragCheckStates(n)
                      /\ c[k].err = 0 => \A j \in 0 .. k : c[j].err = 0
                      /\ k # 0 /\ c[k].err = 0 =>
                           IF FragEndsLine(tokens, k) THEN FragFits(c[k - 1], FragLineOf(tokens, k), c[k]) ELSE c[k] = c[k - 1]
           S == {k \in 0 .. Len(tokens) : Good(k)}
<1>1. Len(tokens) \in Nat
  OBVIOUS
<1>2. /\ c[0] = FragCheckStart
      /\ \A k \in 1 .. Len(tokens) : c[k] = IF FragEndsLine(tokens, k) THEN FragCheckLine(c[k - 1], FragLineOf(tokens, k)) ELSE c[k - 1]
  BY <1>1, FragCheckedSteps DEF FragCheckedRun
<1> HIDE DEF c
<1>3. 0 \in S
  <2>1. FragCheckStart \in FragCheckStates(n)
    BY DEF FragCheckStart, FragCheckStates
  <2>2. 0 .. 0 = {0}
    OBVIOUS
  <2> QED  BY <1>1, <1>2, <2>1, <2>2
<1>4. ASSUME NEW i \in 0 .. Len(tokens), i \in S, i < Len(tokens)
      PROVE  i + 1 \in S
  <2> DEFINE k == i + 1
             line == FragLineOf(tokens, k)
  <2>1. i \in Nat /\ k \in 1 .. Len(tokens) /\ k - 1 = i /\ k \in 0 .. Len(tokens) /\ k # 0
    BY <1>1, <1>4
  <2>2. c[k] = IF FragEndsLine(tokens, k) THEN FragCheckLine(c[i], line) ELSE c[i]
    BY <1>2, <2>1
  <2>3. c[i] \in FragCheckStates(n) /\ (c[i].err = 0 => \A j \in 0 .. i : c[j].err = 0)
    BY <1>4
  <2>4. line \in Seq(FragUpTo(n)) /\ Len(line) # 0
    <3>1. PICK m \in 0 .. k - 1 : line \in Seq(FragUpTo(n)) /\ Len(line) = k - m
      <4> HIDE DEF k
      <4> QED  BY <2>1, FragLineOfIs
    <3> QED  BY <2>1, <3>1
  <2> HIDE DEF line
  <2>5. CASE FragEndsLine(tokens, k)
    <3>1. c[k] = FragCheckLine(c[i], line)
      BY <2>2, <2>5
    <3>2. c[k] \in FragCheckStates(n) /\ (c[i].err # 0 => c[k] = c[i]) /\ (c[k].err = 0 => FragFits(c[i], line, c[k]))
      <4>1. c[i] \in FragCheckStates(n)
        BY <2>3
      <4>2. /\ FragCheckLine(c[i], line) \in FragCheckStates(n)
            /\ c[i].err # 0 => FragCheckLine(c[i], line) = c[i]
            /\ FragCheckLine(c[i], line).err = 0 => FragFits(c[i], line, FragCheckLine(c[i], line))
        BY <2>4, <4>1, FragCheckLineIs
      <4> QED  BY <3>1, <4>2
    <3>3. ASSUME c[k].err = 0, NEW j \in 0 .. k PROVE c[j].err = 0
      <4>1. c[i].err = 0
        BY <3>2, <3>3
      <4>2. j = k \/ j \in 0 .. i
        BY <2>1
      <4> HIDE DEF k
      <4> QED  BY <2>3, <3>3, <4>1, <4>2
    <3>4. Good(k)
      <4> HIDE DEF k
      <4> QED  BY <2>1, <2>5, <3>2, <3>3 DEF line
    <3> QED  BY <2>1, <3>4
  <2>6. CASE ~FragEndsLine(tokens, k)
    <3>1. c[k] = c[i]
      BY <2>2, <2>6
    <3>2. ASSUME c[k].err = 0, NEW j \in 0 .. k PROVE c[j].err = 0
      <4>1. j = k \/ j \in 0 .. i
        BY <2>1
      <4> HIDE DEF k
      <4> QED  BY <2>3, <3>1, <3>2, <4>1
    <3>3. Good(k)
      <4> HIDE DEF k
      <4> QED  BY <2>1, <2>3, <2>6, <3>1, <3>2
    <3> QED  BY <2>1, <3>3
  <2> QED  BY <2>5, <2>6
<1>5. 0 .. Len(tokens) \subseteq S
  <2> HIDE DEF S
  <2>1. SiteInductive(S, Len(tokens))
    BY <1>3, <1>4 DEF SiteInductive
  <2> QED  BY <1>1, <2>1, SiteInduct
<1> QED  BY <1>5 DEF c

(* How many of the first k tokens are that one symbol. *)
FragAre(tokens, k, ch) == {j \in 1 .. k : tokens[j].text = <<ch>>}
FragCount(tokens, k, ch) == Cardinality(FragAre(tokens, k, ch))

LEMMA FragCountIs ==
    ASSUME NEW tokens, NEW ch, NEW k \in Nat
    PROVE  /\ FragCount(tokens, k, ch) \in Nat
           /\ FragCount(tokens, 0, ch) = 0
           /\ FragCount(tokens, k + 1, ch) = IF tokens[k + 1].text = <<ch>> THEN FragCount(tokens, k, ch) + 1 ELSE FragCount(tokens, k, ch)
<1> DEFINE A == FragAre(tokens, k, ch)
           B == FragAre(tokens, k + 1, ch)
<1>1. IsFiniteSet(A)
  <2>1. IsFiniteSet(1 .. k)
    BY FS_Interval
  <2>2. A \subseteq 1 .. k
    BY DEF FragAre
  <2> HIDE DEF A
  <2> QED  BY <2>1, <2>2, FS_Subset
<1>2. FragAre(tokens, 0, ch) = {}
  BY DEF FragAre
<1>3. 1 .. (k + 1) = (1 .. k) \cup {k + 1} /\ k + 1 \notin 1 .. k
  OBVIOUS
<1>4. B = (IF tokens[k + 1].text = <<ch>> THEN A \cup {k + 1} ELSE A) /\ k + 1 \notin A
  <2>1. CASE tokens[k + 1].text = <<ch>>
    BY <1>3, <2>1 DEF FragAre
  <2>2. CASE tokens[k + 1].text # <<ch>>
    BY <1>3, <2>2 DEF FragAre
  <2> QED  BY <2>1, <2>2
<1> HIDE DEF A, B
<1>5. Cardinality(A) \in Nat
  BY <1>1, FS_CardinalityType
<1>6. Cardinality(A \cup {k + 1}) = Cardinality(A) + 1
  BY <1>1, <1>4, FS_AddElement
<1>7. Cardinality({}) = 0
  BY FS_EmptySet
<1> QED  BY <1>2, <1>4, <1>5, <1>6, <1>7 DEF FragCount, A, B

(* ... and of them those that open a block, and those that close one. *)
FragOpens(tokens, k) == FragCount(tokens, k, "{")
FragCloses(tokens, k) == FragCount(tokens, k, "}")
FragIsOpen(t) == t.text = <<"{">>
FragIsClose(t) == t.text = <<"}">>

LEMMA FragOpensAre ==
    ASSUME NEW tokens, NEW k \in Nat
    PROVE  /\ FragOpens(tokens, k) \in Nat
           /\ FragOpens(tokens, 0) = 0
           /\ FragOpens(tokens, k + 1) = IF FragIsOpen(tokens[k + 1]) THEN FragOpens(tokens, k) + 1 ELSE FragOpens(tokens, k)
<1>1. PICK ch : ch = "{"
  OBVIOUS
<1>2. /\ FragCount(tokens, k, ch) \in Nat
      /\ FragCount(tokens, 0, ch) = 0
      /\ FragCount(tokens, k + 1, ch) = IF tokens[k + 1].text = <<ch>> THEN FragCount(tokens, k, ch) + 1 ELSE FragCount(tokens, k, ch)
  BY FragCountIs
<1> QED  BY <1>1, <1>2, Zenon DEF FragOpens, FragIsOpen

LEMMA FragClosesAre ==
    ASSUME NEW tokens, NEW k \in Nat
    PROVE  /\ FragCloses(tokens, k) \in Nat
           /\ FragCloses(tokens, 0) = 0
           /\ FragCloses(tokens, k + 1) = IF FragIsClose(tokens[k + 1]) THEN FragCloses(tokens, k) + 1 ELSE FragCloses(tokens, k)
<1>1. PICK ch : ch = "}"
  OBVIOUS
<1>2. /\ FragCount(tokens, k, ch) \in Nat
      /\ FragCount(tokens, 0, ch) = 0
      /\ FragCount(tokens, k + 1, ch) = IF tokens[k + 1].text = <<ch>> THEN FragCount(tokens, k, ch) + 1 ELSE FragCount(tokens, k, ch)
  BY FragCountIs
<1> QED  BY <1>1, <1>2, Zenon DEF FragCloses, FragIsClose

(* A token that does not end its line is no brace. *)
LEMMA FragInnerToken ==
    ASSUME NEW n \in Nat, NEW tokens \in Seq(FragUpTo(n)), FragChecked(tokens)[Len(tokens)].err = 0,
           NEW k \in 1 .. Len(tokens), ~FragEndsLine(tokens, k)
    PROVE  tokens[k].text # <<"{">> /\ tokens[k].text # <<"}">>
<1> DEFINE N == Len(tokens)
           E == {j \in 1 .. N : j >= k /\ FragEndsLine(tokens, j)}
           e == Min(E)
           line == FragLineOf(tokens, e)
           c == FragChecked(tokens)
<1>1. N \in Nat /\ k \in Nat /\ N \in 1 .. N /\ k <= N
  OBVIOUS
<1>2. E \subseteq 1 .. N /\ E # {}
  <2>1. FragEndsLine(tokens, N)
    BY DEF FragEndsLine
  <2> QED  BY <1>1, <2>1
<1>3. \A j \in 1 .. N : j >= k /\ FragEndsLine(tokens, j) => j \in E
  OBVIOUS
<1>4. \A j \in E : j \in 1 .. N /\ j >= k /\ FragEndsLine(tokens, j)
  OBVIOUS
<1> HIDE DEF E, N
<1>5. e \in E /\ \A j \in E : e <= j
  BY <1>1, <1>2, FragMinIs
<1> HIDE DEF e
<1>6. e \in 1 .. N /\ e > k /\ FragEndsLine(tokens, e)
  <2>1. e \in 1 .. N /\ e >= k /\ FragEndsLine(tokens, e)
    BY <1>4, <1>5
  <2>2. e # k
    BY <2>1
  <2> QED  BY <1>1, <2>1, <2>2
<1>7. PICK m \in 0 .. e - 1 :
             /\ line \in Seq(FragUpTo(n)) /\ Len(line) = e - m
             /\ \A i \in 1 .. e - m : line[i] = tokens[m + i]
             /\ m # 0 => FragEndsLine(tokens, m)
  BY <1>6, FragLineOfIs DEF N
<1>8. m < k
  <2>1. SUFFICES ASSUME m >= k PROVE FALSE
    BY <1>1, <1>7
  <2>2. m \in 1 .. N /\ m # 0 /\ m < e
    BY <1>1, <1>6, <1>7, <2>1
  <2>3. m \in E
    BY <1>3, <1>7, <2>1, <2>2
  <2>4. e <= m
    BY <1>5, <2>3
  <2> QED  BY <1>6, <2>2, <2>4
<1> DEFINE i == k - m
<1>9. i \in 1 .. e - m /\ i < e - m /\ m + i = k /\ e - m \in Nat
  BY <1>1, <1>6, <1>7, <1>8
<1>10. line[i] = tokens[k] /\ Len(line) = e - m
  BY <1>7, <1>9
<1>11. FragFits(c[e - 1], line, c[e])
  <2>1. \A j \in 0 .. Len(tokens) :
             /\ c[j].err = 0 => \A h \in 0 .. j : c[h].err = 0
             /\ j # 0 /\ c[j].err = 0 =>
                  IF FragEndsLine(tokens, j) THEN FragFits(c[j - 1], FragLineOf(tokens, j), c[j]) ELSE c[j] = c[j - 1]
    BY FragCheckedGood
  <2>2. c[Len(tokens)].err = 0 /\ Len(tokens) \in 0 .. Len(tokens) /\ e \in 0 .. Len(tokens) /\ e # 0
    BY <1>1, <1>6 DEF N
  <2> HIDE DEF c
  <2>3. c[e].err = 0
    BY <2>1, <2>2
  <2> QED  BY <1>6, <2>1, <2>2, <2>3
<1> HIDE DEF i, line, c
<1>12. Len(line) \in Nat /\ DOMAIN line = 1 .. Len(line) /\ i \in 1 .. Len(line) /\ i # Len(line)
  <2>1. line \in Seq(FragUpTo(n))
    BY <1>7
  <2>2. Len(line) \in Nat /\ DOMAIN line = 1 .. Len(line)
    BY <2>1
  <2> QED  BY <1>9, <1>10, <2>2
<1>13. /\ line[i].text = <<"{">> => i = Len(line)
       /\ line[i].text = <<"}">> => Len(line) = 1 /\ i = 1
  BY <1>11, <1>12, FragFitsBraces
<1> QED  BY <1>10, <1>12, <1>13

(* The braces of a text that passes: each opens a block or closes one. *)
LEMMA FragCheckedCounts ==
    ASSUME NEW n \in Nat, NEW tokens \in Seq(FragUpTo(n)), FragChecked(tokens)[Len(tokens)].err = 0
    PROVE  \A k \in 0 .. Len(tokens) :
             /\ Len(FragChecked(tokens)[k].stack) \in Nat
             /\ FragOpens(tokens, k) = FragCloses(tokens, k) + Len(FragChecked(tokens)[k].stack)
<1> DEFINE c == FragChecked(tokens)
           N == Len(tokens)
           Good(k) == FragOpens(tokens, k) = FragCloses(tokens, k) + Len(c[k].stack)
           S == {k \in 0 .. N : Good(k)}
<1>1. N \in Nat /\ N \in 0 .. N
  OBVIOUS
<1>2. \A k \in 0 .. N :
             /\ c[k] \in FragCheckStates(n)
             /\ c[k].err = 0 => \A j \in 0 .. k : c[j].err = 0
             /\ k # 0 /\ c[k].err = 0 =>
                  IF FragEndsLine(tokens, k) THEN FragFits(c[k - 1], FragLineOf(tokens, k), c[k]) ELSE c[k] = c[k - 1]
  BY FragCheckedGood
<1>3. c[0] = FragCheckStart
  BY <1>1, FragCheckedSteps DEF FragCheckedRun
<1>4. c[N].err = 0
  OBVIOUS
<1> HIDE DEF c
<1>5. ASSUME NEW k \in 0 .. N PROVE c[k].err = 0 /\ c[k].stack \in Seq(FragBlocks(n)) /\ Len(c[k].stack) \in Nat
  <2>1. c[k].err = 0
    BY <1>1, <1>2, <1>4
  <2>2. c[k].stack \in Seq(FragBlocks(n))
    <3>1. c[k] \in FragCheckStates(n)
      BY <1>2
    <3> QED  BY <3>1 DEF FragCheckStates
  <2> QED  BY <2>1, <2>2
<1>6. 0 \in S
  <2>1. FragOpens(tokens, 0) = 0 /\ FragCloses(tokens, 0) = 0
    BY FragOpensAre, FragClosesAre
  <2>2. Len(c[0].stack) = 0
    BY <1>3 DEF FragCheckStart
  <2>3. Good(0)
    BY <2>1, <2>2
  <2> HIDE DEF Good
  <2> QED  BY <1>1, <2>3
<1>7. ASSUME NEW i \in 0 .. N, i \in S, i < N
      PROVE  i + 1 \in S
  <2> DEFINE k == i + 1
             t == tokens[k]
             O(j) == FragOpens(tokens, j)
             C(j) == FragCloses(tokens, j)
             line == FragLineOf(tokens, k)
  <2>1. i \in Nat /\ k \in 1 .. N /\ k - 1 = i /\ k \in 0 .. N /\ k # 0 /\ i \in 0 .. N
    <3>1. i \in Nat /\ i < N
      BY <1>7
    <3>2. N \in Nat
      BY <1>1
    <3> HIDE DEF S, N
    <3> QED  BY <3>1, <3>2
  <2>2. /\ O(i) \in Nat /\ C(i) \in Nat
        /\ O(k) = IF FragIsOpen(t) THEN O(i) + 1 ELSE O(i)
        /\ C(k) = IF FragIsClose(t) THEN C(i) + 1 ELSE C(i)
    BY <2>1, FragOpensAre, FragClosesAre
  <2>3. O(i) = C(i) + Len(c[i].stack) /\ Len(c[i].stack) \in Nat
    BY <1>5, <1>7
  <2>4. c[k].err = 0 /\ Len(c[k].stack) \in Nat
    BY <1>5, <2>1
  <2> HIDE DEF O, C, line, t
  <2>5. CASE ~FragEndsLine(tokens, k)
    <3>1. c[k] = c[i]
      BY <1>2, <2>1, <2>4, <2>5
    <3>2. ~FragIsOpen(t) /\ ~FragIsClose(t)
      <4>1. FragChecked(tokens)[Len(tokens)].err = 0 /\ k \in 1 .. Len(tokens)
        BY <2>1
      <4> HIDE DEF k
      <4> QED  BY <2>5, <4>1, FragInnerToken DEF t, FragIsOpen, FragIsClose
    <3>3. O(k) = C(k) + Len(c[k].stack)
      <4> HIDE DEF k
      <4> QED  BY <2>2, <2>3, <3>1, <3>2
    <3> QED  BY <2>1, <3>3 DEF O, C
  <2>6. CASE FragEndsLine(tokens, k)
    <3>1. FragFits(c[i], line, c[k])
      BY <1>2, <2>1, <2>4, <2>6 DEF line
    <3> HIDE DEF k
    <3>2. PICK m \in 0 .. k - 1 :
             /\ line \in Seq(FragUpTo(n)) /\ Len(line) = k - m
             /\ \A h \in 1 .. k - m : line[h] = tokens[m + h]
      <4>1. k \in 1 .. Len(tokens)
        BY <2>1
      <4>2. \E m \in 0 .. k - 1 :
             /\ line \in Seq(FragUpTo(n)) /\ Len(line) = k - m
             /\ \A h \in 1 .. k - m : line[h] = tokens[m + h]
             /\ m # 0 => FragEndsLine(tokens, m)
        BY <4>1, FragLineOfIs DEF line
      <4> QED  BY <4>2
    <3>3. /\ Len(line) \in Nat /\ DOMAIN line = 1 .. Len(line) /\ Len(line) \in 1 .. Len(line)
          /\ line[Len(line)] = tokens[k]
      <4>1. line \in Seq(FragUpTo(n))
        BY <3>2
      <4>2. Len(line) \in Nat /\ DOMAIN line = 1 .. Len(line)
        BY <4>1
      <4>3. k - m \in 1 .. k - m /\ m + (k - m) = k
        BY <2>1
      <4>4. line[k - m] = tokens[m + (k - m)]
        BY <3>2, <4>3
      <4> QED  BY <3>2, <4>2, <4>3, <4>4
    <3>4. /\ FragIsOpen(t) => FragBrace(line[Len(line)], "{")
          /\ FragIsClose(t) => FragBrace(line[1], "}")
          /\ FragBrace(line[1], "}") => Len(line) = 1
      BY <3>1, <3>3, FragFitsBraces DEF t, FragIsOpen, FragIsClose
    <3>5. /\ FragBrace(line[Len(line)], "{") => FragIsOpen(t)
          /\ FragBrace(line[1], "}") => FragIsClose(t)
      BY <3>3, <3>4 DEF FragBrace, t, FragIsOpen, FragIsClose
    <3>6. ~(FragIsOpen(t) /\ FragIsClose(t))
      <4>1. <<"{">> # <<"}">>
        OBVIOUS
      <4> QED  BY <4>1, Zenon DEF FragIsOpen, FragIsClose
    <3> DEFINE opens == FragBrace(line[Len(line)], "{")
               closes == FragBrace(line[1], "}")
    <3>8. /\ FragIsOpen(t) <=> opens
          /\ FragIsClose(t) <=> closes
      BY <3>4, <3>5
    <3>9. \/ closes /\ Len(c[k].stack) = Len(c[i].stack) - 1
          \/ ~closes /\ opens /\ Len(c[k].stack) = Len(c[i].stack) + 1
          \/ ~closes /\ ~opens /\ c[k].stack = c[i].stack
      BY <3>1 DEF FragFits
    <3> HIDE DEF opens, closes
    <3>7. O(k) = C(k) + Len(c[k].stack)
      <4>1. CASE closes /\ Len(c[k].stack) = Len(c[i].stack) - 1
        <5>1. FragIsClose(t) /\ ~FragIsOpen(t)
          BY <3>6, <3>8, <4>1
        <5>2. O(k) = O(i) /\ C(k) = C(i) + 1
          BY <2>2, <5>1
        <5>3. Len(c[i].stack) = Len(c[k].stack) + 1
          BY <2>3, <2>4, <4>1
        <5>4. O(i) \in Nat /\ C(i) \in Nat /\ O(i) = C(i) + Len(c[i].stack)
          BY <2>2, <2>3
        <5>5. PICK y \in Nat : y = C(i)
          BY <5>4
        <5>6. PICK z \in Nat : z = Len(c[k].stack)
          BY <2>4
        <5>7. O(k) = y + (z + 1)
          BY <5>2, <5>3, <5>4, <5>5, <5>6
        <5>8. y + (z + 1) = (y + 1) + z
          OBVIOUS
        <5>9. C(k) = y + 1
          BY <5>2, <5>5
        <5> QED  BY <5>6, <5>7, <5>8, <5>9
      <4>2. CASE ~closes /\ opens /\ Len(c[k].stack) = Len(c[i].stack) + 1
        <5>1. FragIsOpen(t) /\ ~FragIsClose(t)
          BY <3>8, <4>2
        <5>2. O(k) = O(i) + 1 /\ C(k) = C(i)
          BY <2>2, <5>1
        <5> QED  BY <2>2, <2>3, <2>4, <4>2, <5>2
      <4>3. CASE ~closes /\ ~opens /\ c[k].stack = c[i].stack
        <5>1. ~FragIsOpen(t) /\ ~FragIsClose(t)
          BY <3>8, <4>3
        <5>2. O(k) = O(i) /\ C(k) = C(i)
          BY <2>2, <5>1
        <5>3. Len(c[k].stack) = Len(c[i].stack)
          BY <4>3
        <5> QED  BY <2>3, <5>2, <5>3
      <4> QED  BY <3>9, <4>1, <4>2, <4>3
    <3> QED  BY <2>1, <3>7 DEF O, C, k
  <2> QED  BY <2>5, <2>6
<1>8. 0 .. N \subseteq S
  <2> HIDE DEF S
  <2>1. SiteInductive(S, N)
    BY <1>6, <1>7 DEF SiteInductive
  <2> QED  BY <1>1, <2>1, SiteInduct
<1>9. ASSUME NEW k \in 0 .. N PROVE Len(c[k].stack) \in Nat /\ Good(k)
  BY <1>5, <1>8
<1> QED  BY <1>9 DEF c

(* The result of the lexer: a refusal names a line, and without one the text
   ends outside of quotes. *)
LEMMA FragLexWell ==
    ASSUME NEW text \in Seq(Seq(FragChars)), text # <<>>
    PROVE  /\ FragLex(text).err \in 0 .. Len(text)
           /\ FragLex(text).err = 0 =>
                /\ FragLexed(text)[Len(text)].err = 0 /\ FragLexed(text)[Len(text)].quote = FragNoQuote
                /\ FragLex(text).tokens \in Seq(FragUpTo(Len(text)))
<1> DEFINE n == Len(text)
           s == FragLexed(text)[n]
           u == FragFlushed(s)
<1>1. n \in Nat /\ n \in 1 .. n
  OBVIOUS
<1>2. FragGood(s) /\ s.line <= n
  <2>1. FragLexedWell(text, n)
    BY <1>1, FragLexedGood
  <2> QED  BY <2>1 DEF FragLexedWell
<1>3. s \in FragStates /\ s.line \in Nat /\ s.err \in 0 .. s.line /\ s.quoteLine \in 0 .. s.line
      /\ (s.quote # FragNoQuote => s.quoteLine # 0)
  BY <1>2 DEF FragGood, FragStates
<1>4. CASE s.err # 0
  <2>1. FragLex(text) = s
    BY <1>4 DEF FragLex
  <2> HIDE DEF s
  <2> QED  BY <1>1, <1>2, <1>3, <1>4, <2>1
<1>5. CASE s.err = 0 /\ s.quote # FragNoQuote
  <2>1. FragLex(text) = [s EXCEPT !.err = s.quoteLine]
    BY <1>5 DEF FragLex, FragFail
  <2> HIDE DEF s
  <2>2. FragLex(text).err = s.quoteLine
    BY <1>3, <2>1 DEF FragStates
  <2> QED  BY <1>1, <1>2, <1>3, <1>5, <2>2
<1>6. CASE s.err = 0 /\ s.quote = FragNoQuote
  <2>1. FragLex(text).tokens = u /\ FragLex(text).err = 0
    BY <1>6, FragLexIs
  <2>2. u = IF s.in THEN Append(s.tokens, FragToken(s, FALSE)) ELSE s.tokens
    BY DEF FragFlushed
  <2> HIDE DEF s, u
  <2>3. u \in Seq(FragTokens)
    <3>1. FragToken(s, FALSE) \in FragTokens /\ s.tokens \in Seq(FragTokens)
      BY <1>3 DEF FragToken, FragTokens, FragStates
    <3>2. \A q \in Seq(FragTokens), t \in FragTokens : Append(q, t) \in Seq(FragTokens)
      OBVIOUS
    <3>3. CASE s.in
      <4>1. u = Append(s.tokens, FragToken(s, FALSE))
        BY <2>2, <3>3
      <4> QED  BY <3>1, <3>2, <4>1
    <3>4. CASE ~s.in
      <4>1. u = s.tokens
        BY <2>2, <3>4
      <4> QED  BY <3>1, <4>1
    <3> QED  BY <3>3, <3>4
  <2>4. \A i \in 1 .. Len(u) : u[i].line \in 1 .. n
    <3>1. FALSE \in BOOLEAN
      OBVIOUS
    <3> HIDE DEF n
    <3> QED  BY <1>1, <1>2, <2>2, <3>1, FragGoodTokens
  <2>5. u \in Seq(FragUpTo(n))
    <3>1. Len(u) \in Nat /\ \A i \in 1 .. Len(u) : u[i] \in FragTokens
      BY <2>3
    <3>2. \A i \in 1 .. Len(u) : u[i] \in FragUpTo(n)
      BY <2>4, <3>1 DEF FragUpTo
    <3>3. u \in [1 .. Len(u) -> FragUpTo(n)]
      BY <2>3, <3>2
    <3> QED  BY <3>1, <3>3, FragIsSeq
  <2> QED  BY <1>1, <1>6, <2>1, <2>5 DEF s
<1> QED  BY <1>3, <1>4, <1>5, <1>6

(* A tuple of three has three places. *)
LEMMA FragThree ==
    ASSUME NEW a, NEW b, NEW c
    PROVE  DOMAIN <<a, b, c>> = 1 .. 3
  OBVIOUS

LEMMA FragPlaceLineIs ==
    ASSUME NEW text \in Seq(Seq(FragChars)), FragPlaced(text) # {}
    PROVE  FragPlaceLine(text) \in 1 .. Len(text)
<1> DEFINE P == FragPlaced(text)
           W == FragWith(text, FragPlaceholders[Min(P)])
<1>1. DOMAIN FragPlaceholders = 1 .. 3
  BY FragThree, Zenon DEF FragPlaceholders
<1>2. P \subseteq 1 .. 3 /\ \A p \in P : FragWith(text, FragPlaceholders[p]) # {}
  BY <1>1 DEF FragPlaced
<1>3. FragPlaceLine(text) = Min(W)
  BY DEF FragPlaceLine
<1>4. P # {} /\ 3 \in Nat
  OBVIOUS
<1> HIDE DEF P
<1>5. Min(P) \in P
  BY <1>2, <1>4, FragMinIs
<1>6. W # {}
  BY <1>2, <1>5
<1>7. W \subseteq 1 .. Len(text)
  BY DEF FragWith
<1> HIDE DEF W
<1>8. Len(text) \in Nat
  OBVIOUS
<1>9. Min(W) \in W
  BY <1>6, <1>7, <1>8, FragMinIs
<1> QED  BY <1>3, <1>7, <1>9

(* A refusal names a line; a text that is accepted passes the lexer and the
   check, and closes its blocks. *)
LEMMA FragErrorIs ==
    ASSUME NEW text \in Seq(Seq(FragChars)), text # <<>>
    PROVE  /\ FragError(text) \in 0 .. Len(text)
           /\ FragAccepted(text) =>
                LET tokens == FragLex(text).tokens IN
                /\ FragLexed(text)[Len(text)].err = 0 /\ FragLexed(text)[Len(text)].quote = FragNoQuote
                /\ tokens \in Seq(FragUpTo(Len(text)))
                /\ FragChecked(tokens)[Len(tokens)].err = 0 /\ FragChecked(tokens)[Len(tokens)].stack = <<>>
<1> DEFINE n == Len(text)
           x == FragLex(text)
           tokens == x.tokens
           c == FragChecked(tokens)[Len(tokens)]
           blank == \A k \in DOMAIN text : FragBlank(text[k])
           top == c.stack[Len(c.stack)].line
<1>1. n \in Nat /\ n # 0
  OBVIOUS
<1>2. FragError(text) =
        IF blank THEN 1
        ELSE IF FragPlaced(text) # {} THEN FragPlaceLine(text)
        ELSE IF x.err # 0 THEN x.err ELSE IF c.err # 0 THEN c.err ELSE IF c.stack # <<>> THEN top ELSE 0
  BY DEF FragError
<1>3. FragPlaced(text) # {} => FragPlaceLine(text) \in 1 .. n
  BY FragPlaceLineIs
<1>4. /\ x.err \in 0 .. n
      /\ x.err = 0 =>
                /\ FragLexed(text)[n].err = 0 /\ FragLexed(text)[n].quote = FragNoQuote
                /\ tokens \in Seq(FragUpTo(n))
  BY FragLexWell
<1> HIDE DEF n, x, c, blank
<1>5. ASSUME x.err = 0 PROVE c.err \in 0 .. n /\ (c.stack # <<>> => top \in 1 .. n)
  <2>1. tokens \in Seq(FragUpTo(n))
    BY <1>4, <1>5
  <2> HIDE DEF tokens
  <2>2. Len(tokens) \in 0 .. Len(tokens)
    BY <2>1
  <2>3. c \in FragCheckStates(n)
    BY <1>1, <2>1, <2>2, FragCheckedGood DEF c
  <2>4. c.err \in 0 .. n /\ c.stack \in Seq(FragBlocks(n))
    BY <2>3 DEF FragCheckStates
  <2>5. \A s \in Seq(FragBlocks(n)) : s # <<>> => s[Len(s)] \in FragBlocks(n)
    OBVIOUS
  <2>6. ASSUME c.stack # <<>> PROVE top \in 1 .. n
    <3>1. c.stack[Len(c.stack)] \in FragBlocks(n)
      BY <2>4, <2>5, <2>6
    <3> QED  BY <3>1 DEF FragBlocks
  <2> QED  BY <2>4, <2>6
<1> HIDE DEF top
<1>6. FragError(text) \in 0 .. n
  <2>1. 1 \in 0 .. n /\ 0 \in 0 .. n
    BY <1>1
  <2>2. \A i \in 1 .. n : i \in 0 .. n
    BY <1>1
  <2> QED  BY <1>2, <1>3, <1>4, <1>5, <2>1, <2>2
<1>7. ASSUME FragError(text) = 0
      PROVE  x.err = 0 /\ c.err = 0 /\ c.stack = <<>>
  <2>1. ~blank
    BY <1>2, <1>7
  <2>2. FragPlaced(text) = {}
    BY <1>2, <1>3, <1>7, <2>1
  <2>3. x.err = 0
    BY <1>2, <1>7, <2>1, <2>2
  <2>4. c.err = 0
    BY <1>2, <1>7, <2>1, <2>2, <2>3
  <2>5. c.stack = <<>>
    BY <1>2, <1>5, <1>7, <2>1, <2>2, <2>3, <2>4
  <2> QED  BY <2>3, <2>4, <2>5
<1> QED  BY <1>4, <1>6, <1>7 DEF FragAccepted, n, x, c

(* What is placed of an accepted text that white space is trimmed of. *)
LEMMA FragRenderedTokens ==
    ASSUME NEW text \in Seq(Seq(FragChars)), text # <<>>, FragAccepted(text), FragTrimsBlanks(text), NEW root \in BOOLEAN
    PROVE  LET before == FragLex(text).tokens
               own == FragLex(FragLineEnds(text)).tokens
               after == FragLex(FragRendered(FragIndented(text), root)).tokens
           IN /\ FragLikeTokens(before, own, TRUE) /\ FragLikeTokens(own, after, root)
              /\ DOMAIN before = 1 .. Len(before) /\ Len(before) \in Nat
              /\ DOMAIN own = 1 .. Len(own) /\ Len(own) \in Nat /\ DOMAIN after = 1 .. Len(after)
<1> DEFINE t == FragLineEnds(text)
           l == FragTrimEnd(t)
           lines == FragIndented(text)
           r == FragRendered(lines, root)
           before == FragLex(text).tokens
           own == FragLex(t).tokens
           after == FragLex(r).tokens
<1>1. /\ FragLexed(text)[Len(text)].err = 0 /\ FragLexed(text)[Len(text)].quote = FragNoQuote
      /\ before \in Seq(FragUpTo(Len(text)))
  BY FragErrorIs
<1>2. /\ FragLexed(t)[Len(t)].err = 0 /\ FragLexed(t)[Len(t)].quote = FragNoQuote /\ FragLex(t).err = 0
      /\ FragLikeTokens(before, own, TRUE) /\ \A k : FragContinues(t, k) = FragContinues(text, k)
  BY <1>1, FragLineEndsTokens
<1>3. t \in Seq(Seq(FragChars)) /\ t # <<>>
  BY FragLineEndsIs
<1>4. /\ lines \in Seq(Seq(FragChars)) /\ Len(lines) = Len(l)
      /\ \A k \in 1 .. Len(l) : /\ Len(l[k]) \in 0 .. Len(t[k])
                                /\ FragMoved(t[k], Len(l[k]), lines[k], FragContinues(text, k), FALSE)
  BY FragIndentedIs
<1>5. /\ \A k \in 1 .. Len(t) : k > Len(l) => \A i \in 1 .. Len(t[k]) : t[k][i] \in FragLexBlanks
      /\ \A k \in 1 .. Len(l) : \A i \in 1 .. Len(t[k]) : i > Len(l[k]) => t[k][i] \in FragLexBlanks
  BY FragTrimsBlanksIs
<1> HIDE DEF t
<1>6. Len(l) \in 1 .. Len(t)
  BY <1>3, FragTrimEndIs
<1> HIDE DEF lines, l
<1>7. /\ r \in Seq(Seq(FragChars)) /\ Len(r) = Len(lines)
      /\ \A k \in 1 .. Len(lines) : r[k] = IF root THEN FragPushed(lines[k]) ELSE lines[k]
  BY <1>4, FragRenderedIs
<1> HIDE DEF r
<1>8. ASSUME NEW k \in 1 .. Len(r) PROVE FragMoved(t[k], Len(l[k]), r[k], FragContinues(t, k), root)
  <2>1. k \in 1 .. Len(l) /\ k \in 1 .. Len(lines)
    BY <1>4, <1>7
  <2>2. FragMoved(t[k], Len(l[k]), lines[k], FragContinues(t, k), FALSE) /\ Len(l[k]) \in Nat
    <3>1. FragMoved(t[k], Len(l[k]), lines[k], FragContinues(text, k), FALSE) /\ Len(l[k]) \in 0 .. Len(t[k])
      BY <1>4, <2>1, Zenon
    <3>2. \A i \in 0 .. Len(t[k]) : i \in Nat
      OBVIOUS
    <3>3. FragContinues(t, k) = FragContinues(text, k)
      BY <1>2
    <3> QED  BY <3>1, <3>2, <3>3, Zenon
  <2>3. lines[k] \in Seq(FragChars)
    BY <1>4, <2>1
  <2>4. CASE root
    <3>1. r[k] = FragPushed(lines[k]) /\ root = TRUE
      BY <1>7, <2>1, <2>4
    <3>2. FragMoved(t[k], Len(l[k]), FragPushed(lines[k]), FragContinues(t, k), TRUE)
      BY <2>2, <2>3, FragMovedPushed
    <3> QED  BY <3>1, <3>2
  <2>5. CASE ~root
    <3>1. r[k] = lines[k]
      BY <1>7, <2>1, <2>5
    <3>2. FragMoved(t[k], Len(l[k]), lines[k], FragContinues(t, k), root)
      BY <2>2, FragMovedRoot
    <3> QED  BY <3>1, <3>2
  <2> QED  BY <2>4, <2>5
<1>9. FragPlacedLines(t, r, root)
  <2>1. Len(r) = Len(l)
    BY <1>4, <1>7
  <2>2. \A k \in 1 .. Len(t) : k > Len(r) => \A i \in 1 .. Len(t[k]) : t[k][i] \in FragLexBlanks
    BY <1>5, <2>1, Zenon
  <2>3. \A k \in 1 .. Len(r) : \A i \in 1 .. Len(t[k]) : i > Len(l[k]) => t[k][i] \in FragLexBlanks
    BY <1>5, <2>1, Zenon
  <2>4. \A k \in 1 .. Len(r) : Len(l[k]) \in 0 .. Len(t[k])
    BY <1>4, <2>1, Zenon
  <2> QED  BY <1>8, <2>1, <2>2, <2>3, <2>4, Zenon DEF FragPlacedLines, l
<1>10. FragLex(r).err = 0 /\ FragLikeTokens(own, after, root)
  BY <1>2, <1>3, <1>7, <1>9, FragPlacedAlike
<1>11. after \in Seq(FragUpTo(Len(r)))
  <2>1. r # <<>>
    BY <1>4, <1>6, <1>7
  <2> QED  BY <1>7, <1>10, <2>1, FragLexWell
<1>12. own \in Seq(FragUpTo(Len(t)))
  BY <1>2, <1>3, FragLexWell
<1> HIDE DEF before, own, after
<1>13. DOMAIN before = 1 .. Len(before) /\ Len(before) \in Nat
  BY <1>1
<1>14. DOMAIN own = 1 .. Len(own) /\ Len(own) \in Nat
  BY <1>12
<1>15. DOMAIN after = 1 .. Len(after)
  BY <1>11
<1> QED  BY <1>2, <1>10, <1>13, <1>14, <1>15, Zenon DEF before, own, after, r, lines, t

(* The braces of a sequence of tokens balance at every point. *)
FragBalanced(tokens) ==
  /\ \A k \in DOMAIN tokens : FragCloses(tokens, k) <= FragOpens(tokens, k)
  /\ FragCloses(tokens, Len(tokens)) = FragOpens(tokens, Len(tokens))

LEMMA FragClosedBalance ==
    ASSUME NEW n \in Nat, NEW tokens \in Seq(FragUpTo(n)), FragChecked(tokens)[Len(tokens)].err = 0,
           FragChecked(tokens)[Len(tokens)].stack = <<>>
    PROVE  FragBalanced(tokens)
<1> DEFINE l == Len(tokens)
           stack(k) == FragChecked(tokens)[k].stack
<1>1. \A k \in 0 .. l : Len(stack(k)) \in Nat /\ FragOpens(tokens, k) = FragCloses(tokens, k) + Len(stack(k))
  BY FragCheckedCounts
<1>2. l \in Nat /\ DOMAIN tokens = 1 .. l
  OBVIOUS
<1>3. Len(stack(l)) = 0
  OBVIOUS
<1>4. \A k \in 0 .. l : FragCloses(tokens, k) \in Nat
  <2>1. \A k \in 0 .. l : k \in Nat
    BY <1>2
  <2> QED  BY <2>1, FragClosesAre, Zenon
<1> HIDE DEF l, stack
<1>5. ASSUME NEW k \in 0 .. l PROVE FragCloses(tokens, k) <= FragOpens(tokens, k)
  <2>1. PICK c : c = FragCloses(tokens, k)
    OBVIOUS
  <2>2. PICK o : o = FragOpens(tokens, k)
    OBVIOUS
  <2>3. PICK h : h = Len(stack(k))
    OBVIOUS
  <2>4. c \in Nat /\ h \in Nat /\ o = c + h
    BY <1>1, <1>4, <2>1, <2>2, <2>3
  <2>5. c <= o
    BY <2>4
  <2> QED  BY <2>1, <2>2, <2>5
<1>6. FragCloses(tokens, l) = FragOpens(tokens, l)
  <2>1. PICK c : c = FragCloses(tokens, l)
    OBVIOUS
  <2>2. PICK o : o = FragOpens(tokens, l)
    OBVIOUS
  <2>3. l \in 0 .. l
    BY <1>2
  <2>4. c \in Nat /\ o = c + 0
    BY <1>1, <1>3, <1>4, <2>1, <2>2, <2>3
  <2>5. c = o
    BY <2>4
  <2> QED  BY <2>1, <2>2, <2>5
<1>7. \A k \in DOMAIN tokens : k \in 0 .. l
  BY <1>2
<1> QED  BY <1>5, <1>6, <1>7, Zenon DEF FragBalanced, l

(* Alike tokens hold the same braces: those that differ hold a line end. *)
LEMMA FragLikeAre ==
    ASSUME NEW p, NEW q, NEW root, FragLikeTokens(p, q, root), Len(p) \in Nat, NEW ch, ch # "nl",
           NEW k \in 0 .. Len(p)
    PROVE  FragAre(p, k, ch) = FragAre(q, k, ch)
<1>1. ~FragHasEnd(<<ch>>)
  <2>1. Len(<<ch>>) = 1 /\ <<ch>>[1] = ch
    OBVIOUS
  <2> QED  BY <2>1 DEF FragHasEnd
<1>2. ASSUME NEW j \in 1 .. k PROVE p[j].text = <<ch>> <=> q[j].text = <<ch>>
  <2>1. j \in 1 .. Len(p)
    OBVIOUS
  <2>2. FragLikeToken(p[j], q[j], root)
    BY <2>1 DEF FragLikeTokens
  <2>3. p[j].text = q[j].text \/ (FragHasEnd(p[j].text) /\ FragHasEnd(q[j].text))
    BY <2>2 DEF FragLikeToken, FragLikeText
  <2> QED  BY <1>1, <2>3, Zenon
<1> QED  BY <1>2, Zenon DEF FragAre

LEMMA FragLikeBalance ==
    ASSUME NEW p, NEW q, NEW root, FragLikeTokens(p, q, root), Len(p) \in Nat,
           DOMAIN p = 1 .. Len(p), DOMAIN q = 1 .. Len(q), FragBalanced(p)
    PROVE  FragBalanced(q)
<1>1. "{" # "nl" /\ "}" # "nl"
  BY Zenon
<1>2. \A k \in 0 .. Len(p) : FragOpens(p, k) = FragOpens(q, k) /\ FragCloses(p, k) = FragCloses(q, k)
  <2>1. \A k \in 0 .. Len(p) : FragAre(p, k, "{") = FragAre(q, k, "{") /\ FragAre(p, k, "}") = FragAre(q, k, "}")
    BY <1>1, FragLikeAre, Zenon
  <2> QED  BY <2>1, Zenon DEF FragOpens, FragCloses, FragCount
<1>3. Len(q) = Len(p)
  BY DEF FragLikeTokens
<1>4. Len(p) \in 0 .. Len(p) /\ \A k \in 1 .. Len(p) : k \in 0 .. Len(p)
  OBVIOUS
<1>5. DOMAIN q = DOMAIN p
  BY <1>3
<1>6. \A k \in DOMAIN q : FragCloses(q, k) <= FragOpens(q, k)
  <2>1. \A k \in DOMAIN p : FragCloses(p, k) <= FragOpens(p, k)
    BY Zenon DEF FragBalanced
  <2>2. \A k \in DOMAIN q : k \in DOMAIN p /\ k \in 0 .. Len(p)
    BY <1>4, <1>5
  <2> QED  BY <1>2, <2>1, <2>2, Zenon
<1>7. FragCloses(q, Len(q)) = FragOpens(q, Len(q))
  <2>1. FragCloses(p, Len(p)) = FragOpens(p, Len(p))
    BY Zenon DEF FragBalanced
  <2> QED  BY <1>2, <1>3, <1>4, <2>1, Zenon
<1> QED  BY <1>6, <1>7, Zenon DEF FragBalanced

(* The tokens of an accepted text, wherever it is placed. *)
LEMMA FragAcceptedBalance ==
    ASSUME NEW text \in Seq(Seq(FragChars)), text # <<>>, FragAccepted(text), FragTrimsBlanks(text), NEW root \in BOOLEAN
    PROVE  FragBalanced(FragLex(FragRendered(FragIndented(text), root)).tokens)
<1> DEFINE before == FragLex(text).tokens
           own == FragLex(FragLineEnds(text)).tokens
           after == FragLex(FragRendered(FragIndented(text), root)).tokens
<1>1. /\ before \in Seq(FragUpTo(Len(text)))
      /\ FragChecked(before)[Len(before)].err = 0 /\ FragChecked(before)[Len(before)].stack = <<>>
  BY FragErrorIs
<1>2. /\ FragLikeTokens(before, own, TRUE) /\ FragLikeTokens(own, after, root)
      /\ DOMAIN before = 1 .. Len(before) /\ Len(before) \in Nat
      /\ DOMAIN own = 1 .. Len(own) /\ Len(own) \in Nat /\ DOMAIN after = 1 .. Len(after)
  BY FragRenderedTokens
<1>3. Len(text) \in Nat
  OBVIOUS
<1> HIDE DEF before, own, after
<1>4. FragBalanced(before)
  BY <1>1, <1>3, FragClosedBalance
<1>5. FragBalanced(own)
  BY <1>2, <1>4, FragLikeBalance
<1>6. FragBalanced(after)
  BY <1>2, <1>5, FragLikeBalance
<1> QED  BY <1>6 DEF after

(* The fallback directive is one token. *)
LEMMA FragFallbackTokens ==
    ASSUME NEW text \in Seq(Seq(FragChars)), Len(text) = 1, NEW n \in Nat, Len(text[1]) = n + 1,
           \A i \in 1 .. n : text[1][i] = "sp", text[1][n + 1] = "respond"
    PROVE  LET t == FragLex(text).tokens IN DOMAIN t = 1 .. 1 /\ Len(t) = 1 /\ t[1].text = <<"respond">>
<1> DEFINE line == text[1]
           s == FragLexed(text)[1]
           f == FragAlong(FragLexStart, line)
           start == FragLexStart
<1>1. line \in Seq(FragChars) /\ text # <<>> /\ 1 \in 1 .. Len(text) /\ Len(text) \in Nat
  <2>1. 1 \in 1 .. Len(text) /\ Len(text) \in Nat
    OBVIOUS
  <2>2. line \in Seq(FragChars)
    BY <2>1
  <2>3. text # <<>>
    <3>1. \A x : x = <<>> => Len(x) = 0
      OBVIOUS
    <3>2. Len(text) # 0
      OBVIOUS
    <3> QED  BY <3>1, <3>2, Zenon
  <2> QED  BY <2>1, <2>2, <2>3
<1>2. s = f[n + 1]
  <2>1. FragLexed(text)[1] = FragAlong(FragBefore(text, 1), text[1])[Len(text[1])]
    BY <1>1, FragLexedIs
  <2> QED  BY <2>1 DEF FragBefore
<1>3. start \in FragStates /\ FragClean(start)
  BY FragLikeStart, FragGoodStart DEF FragGood
<1>4. f[n] = start
  <2>1. n <= Len(line) /\ Len(line) \in Nat /\ \A i \in 1 .. n : line[i] \in FragLexBlanks
    BY FragBlankChars
  <2> HIDE DEF start, line
  <2> QED  BY <1>3, <2>1, FragAlongLead DEF start
<1>5. s = FragStep(start, "respond", FragNext(line, n + 1))
  <2>1. FragAlongRun(f, FragLexStart, line, Len(line))
    BY FragAlongSteps
  <2>2. n + 1 \in 1 .. Len(line) /\ (n + 1) - 1 = n
    OBVIOUS
  <2> HIDE DEF f
  <2>3. f[n + 1] = FragStep(f[(n + 1) - 1], line[n + 1], FragNext(line, n + 1))
    BY <2>1, <2>2 DEF FragAlongRun
  <2> QED  BY <1>2, <1>4, <2>2, <2>3
<1>6. start.tokens = <<>> /\ start.text = <<>> /\ start.quote = FragNoQuote /\ start.err = 0 /\ ~start.in
      /\ ~start.escaped /\ ~start.comment
  BY DEF FragLexStart
<1> HIDE DEF start, s, f
<1>7. FragKind(start, "respond", FragNext(line, n + 1)) = "add"
  BY <1>6 DEF FragKind, FragQuotes, FragLexBlanks
<1>8. s \in FragStates /\ FragDone(s, start, "add", "respond")
  <2>1. "respond" \in FragChars
    BY DEF FragChars
  <2> QED  BY <1>3, <1>5, <1>7, <2>1, FragStepIs
<1>9. s.tokens = <<>> /\ s.text = Append(<<>>, "respond") /\ s.in /\ s.quote = FragNoQuote /\ s.err = 0
  BY <1>6, <1>8 DEF FragDone
<1>10. FragLex(text).tokens = FragFlushed(s)
  <2>1. FragLexed(text)[Len(text)].err = 0 /\ FragLexed(text)[Len(text)].quote = FragNoQuote
    BY <1>9 DEF s
  <2> QED  BY <1>1, <2>1, FragLexIs DEF s
<1>11. FragFlushed(s) = Append(s.tokens, FragToken(s, FALSE)) /\ s.tokens \in Seq(FragTokens) /\ Len(s.tokens) = 0
       /\ FragToken(s, FALSE) \in FragTokens
  <2>1. FragFlushed(s) = Append(s.tokens, FragToken(s, FALSE))
    BY <1>9 DEF FragFlushed
  <2>2. s.tokens \in Seq(FragTokens)
    BY <1>8 DEF FragStates
  <2>3. Len(s.tokens) = 0
    BY <1>9
  <2>4. FragToken(s, FALSE) \in FragTokens
    BY <1>8 DEF FragToken, FragTokens, FragStates
  <2> QED  BY <2>1, <2>2, <2>3, <2>4
<1>12. FragToken(s, FALSE).text = <<"respond">>
  <2>1. FragToken(s, FALSE).text = s.text
    BY DEF FragToken
  <2>2. Append(<<>>, "respond") = <<"respond">>
    OBVIOUS
  <2> QED  BY <1>9, <2>1, <2>2
<1>13. \A q \in Seq(FragTokens), x \in FragTokens :
         Len(q) = 0 => DOMAIN Append(q, x) = 1 .. 1 /\ Len(Append(q, x)) = 1 /\ Append(q, x)[1] = x
  OBVIOUS
<1>14. /\ DOMAIN FragFlushed(s) = 1 .. 1 /\ Len(FragFlushed(s)) = 1
       /\ FragFlushed(s)[1] = FragToken(s, FALSE)
  <2>1. PICK q : q = s.tokens
    OBVIOUS
  <2>2. PICK x : x = FragToken(s, FALSE)
    OBVIOUS
  <2>3. q \in Seq(FragTokens) /\ Len(q) = 0 /\ x \in FragTokens
    BY <1>11, <2>1, <2>2, Zenon
  <2>4. DOMAIN Append(q, x) = 1 .. 1 /\ Len(Append(q, x)) = 1 /\ Append(q, x)[1] = x
    BY <1>13, <2>3, Zenon
  <2> QED  BY <1>11, <2>1, <2>2, <2>4, Zenon
<1>15. DOMAIN FragLex(text).tokens = 1 .. 1 /\ Len(FragLex(text).tokens) = 1
       /\ FragLex(text).tokens[1] = FragToken(s, FALSE)
  BY <1>10, <1>14, Zenon
<1> QED  BY <1>12, <1>15, Zenon

(* One token that is no brace. *)
LEMMA FragOneBalance ==
    ASSUME NEW t, DOMAIN t = 1 .. 1, Len(t) = 1, t[1].text = <<"respond">>
    PROVE  FragBalanced(t)
<1>1. ASSUME NEW ch, ch # "respond" PROVE FragAre(t, 1, ch) = {}
  <2>1. <<ch>> # <<"respond">>
    BY <1>1
  <2>2. \A j \in 1 .. 1 : j = 1
    OBVIOUS
  <2> QED  BY <2>1, <2>2, Zenon DEF FragAre
<1>2. "{" # "respond" /\ "}" # "respond"
  BY Zenon
<1>3. Cardinality({}) = 0
  BY FS_EmptySet
<1>4. FragOpens(t, 1) = 0 /\ FragCloses(t, 1) = 0
  BY <1>1, <1>2, <1>3, Zenon DEF FragOpens, FragCloses, FragCount
<1>5. \A k \in DOMAIN t : FragCloses(t, k) <= FragOpens(t, k)
  <2>1. \A k \in DOMAIN t : k = 1
    OBVIOUS
  <2>2. FragCloses(t, 1) <= FragOpens(t, 1)
    BY <1>4
  <2> QED  BY <2>1, <2>2, Zenon
<1>6. FragCloses(t, Len(t)) = FragOpens(t, Len(t))
  BY <1>4
<1> QED  BY <1>5, <1>6, Zenon DEF FragBalanced

LEMMA FragFallbackBalance ==
    ASSUME NEW root \in BOOLEAN
    PROVE  FragBalanced(FragLex(FragRendered(<< <<"respond">> >>, root)).tokens)
<1> DEFINE own == << <<"respond">> >>
           r == FragRendered(own, root)
           t == FragLex(r).tokens
<1>1. "respond" \in FragChars
  BY DEF FragChars
<1>2. own[1] \in Seq(FragChars) /\ Len(own[1]) = 1 /\ own[1][1] = "respond"
  BY <1>1
<1>3. own \in Seq(Seq(FragChars)) /\ Len(own) = 1
  BY <1>2
<1>4. r \in Seq(Seq(FragChars)) /\ Len(r) = 1 /\ r[1] = IF root THEN FragPushed(own[1]) ELSE own[1]
  <2> HIDE DEF own
  <2>1. r \in Seq(Seq(FragChars)) /\ Len(r) = Len(own) /\ \A k \in 1 .. Len(own) : r[k] = IF root THEN FragPushed(own[k]) ELSE own[k]
    BY <1>3, FragRenderedIs
  <2> HIDE DEF r
  <2> QED  BY <1>3, <2>1
<1> HIDE DEF own, r
<1>5. \E n \in Nat : Len(r[1]) = n + 1 /\ (\A i \in 1 .. n : r[1][i] = "sp") /\ r[1][n + 1] = "respond"
  <2>1. CASE root
    <3>1. /\ Len(FragPushed(own[1])) = 3 /\ \A i \in 1 .. 2 : FragPushed(own[1])[i] = "sp"
          /\ FragPushed(own[1])[3] = "respond"
      <4>1. /\ Len(FragPushed(own[1])) = Len(own[1]) + 2 /\ \A i \in 1 .. 2 : FragPushed(own[1])[i] = "sp"
            /\ \A i \in 1 .. Len(own[1]) : FragPushed(own[1])[i + 2] = own[1][i]
        BY <1>2, FragPushedIs
      <4>2. FragPushed(own[1])[1 + 2] = own[1][1]
        BY <1>2, <4>1
      <4> QED  BY <1>2, <4>1, <4>2
    <3>2. r[1] = FragPushed(own[1])
      BY <1>4, <2>1
    <3>3. Len(r[1]) = 2 + 1 /\ (\A i \in 1 .. 2 : r[1][i] = "sp") /\ r[1][2 + 1] = "respond"
      BY <3>1, <3>2
    <3> QED  BY <3>3
  <2>2. CASE ~root
    <3>1. r[1] = own[1]
      BY <1>4, <2>2
    <3>2. Len(r[1]) = 0 + 1 /\ (\A i \in 1 .. 0 : r[1][i] = "sp") /\ r[1][0 + 1] = "respond"
      BY <1>2, <3>1
    <3> QED  BY <3>2
  <2> QED  BY <2>1, <2>2
<1>6. DOMAIN t = 1 .. 1 /\ Len(t) = 1 /\ t[1].text = <<"respond">>
  BY <1>4, <1>5, FragFallbackTokens
<1> HIDE DEF t
<1>7. FragBalanced(t)
  BY <1>6, FragOneBalance
<1> QED  BY <1>7 DEF t, r, own

(* Two lines before others. *)
LEMMA FragAfterTwo ==
    ASSUME NEW Y, NEW q \in Seq(Y), NEW a, NEW b
    PROVE  /\ Len(FragCat(<<a, b>>, q)) = Len(q) + 2 /\ DOMAIN FragCat(<<a, b>>, q) = 1 .. Len(q) + 2
           /\ \A i \in 1 .. Len(q) : FragCat(<<a, b>>, q)[2 + i] = q[i]
<1> DEFINE X == Y \cup {a, b}
           h == <<a, b>>
           c == FragCat(h, q)
<1>1. h \in Seq(X) /\ Len(h) = 2
  <2>1. a \in X /\ b \in X
    OBVIOUS
  <2> HIDE DEF X
  <2> QED  BY <2>1
<1>2. q \in Seq(X)
  <2>1. Len(q) \in Nat /\ q \in [1 .. Len(q) -> Y]
    OBVIOUS
  <2>2. Y \subseteq X
    OBVIOUS
  <2> HIDE DEF X
  <2>3. q \in [1 .. Len(q) -> X]
    BY <2>1, <2>2
  <2> QED  BY <2>1, <2>3, FragIsSeq
<1> HIDE DEF X, h
<1>3. /\ c \in Seq(X) /\ Len(c) = Len(h) + Len(q)
      /\ \A i \in 1 .. Len(q) : c[Len(h) + i] = q[i]
  <2>1. h \in Seq(X) /\ q \in Seq(X)
    BY <1>1, <1>2
  <2>2. FragCat(h, q) \in Seq(X) /\ Len(FragCat(h, q)) = Len(h) + Len(q)
    BY <2>1, FragCatIs
  <2>3. \A i \in 1 .. Len(q) : FragCat(h, q)[Len(h) + i] = q[i]
    BY <2>1, FragCatIs
  <2> QED  BY <2>2, <2>3
<1>4. Len(q) \in Nat
  OBVIOUS
<1> HIDE DEF c
<1>5. DOMAIN c = 1 .. Len(c)
  BY <1>3
<1>6. Len(c) = Len(q) + 2
  <2>1. Len(c) = 2 + Len(q)
    BY <1>1, <1>3, Zenon
  <2>2. 2 + Len(q) = Len(q) + 2
    BY <1>4
  <2> QED  BY <2>1, <2>2, Zenon
<1>7. \A i \in 1 .. Len(q) : c[2 + i] = q[i]
  BY <1>1, <1>3
<1> QED  BY <1>5, <1>6, <1>7 DEF c, h

(* Three lines of known symbols before others. *)
LEMMA FragAfterThree ==
    ASSUME NEW X, NEW q \in Seq(X), NEW a \in X, NEW b \in X, NEW d \in X
    PROVE  /\ FragCat(<<a, b, d>>, q) \in Seq(X) /\ Len(FragCat(<<a, b, d>>, q)) = Len(q) + 3
           /\ \A i \in 1 .. Len(q) : FragCat(<<a, b, d>>, q)[3 + i] = q[i]
<1> DEFINE h == <<a, b, d>>
           c == FragCat(h, q)
<1>1. h \in Seq(X) /\ Len(h) = 3
  OBVIOUS
<1> HIDE DEF h
<1>2. /\ c \in Seq(X) /\ Len(c) = Len(h) + Len(q)
      /\ \A i \in 1 .. Len(q) : c[Len(h) + i] = q[i]
  <2>1. h \in Seq(X) /\ q \in Seq(X)
    BY <1>1
  <2>2. FragCat(h, q) \in Seq(X) /\ Len(FragCat(h, q)) = Len(h) + Len(q)
    BY <2>1, FragCatIs
  <2>3. \A i \in 1 .. Len(q) : FragCat(h, q)[Len(h) + i] = q[i]
    BY <2>1, FragCatIs
  <2> QED  BY <2>2, <2>3
<1>3. Len(q) \in Nat
  OBVIOUS
<1> HIDE DEF c
<1>4. Len(c) = Len(q) + 3
  <2>1. Len(c) = 3 + Len(q)
    BY <1>1, <1>2, Zenon
  <2>2. 3 + Len(q) = Len(q) + 3
    BY <1>3
  <2> QED  BY <2>1, <2>2, Zenon
<1>5. \A i \in 1 .. Len(q) : c[3 + i] = q[i]
  BY <1>1, <1>2
<1> QED  BY <1>2, <1>4, <1>5 DEF c, h

(* The lines of the file that Caddy adapts, from the text's first on. *)
LEMMA FragSyntheticLines ==
    ASSUME NEW text \in Seq(Seq(FragChars)), text # <<>>
    PROVE  \A k \in DOMAIN FragIndented(text) :
             /\ k + FragOffset \in DOMAIN FragSynthetic(text)
             /\ FragSynthetic(text)[k + FragOffset] = FragRendered(FragIndented(text), TRUE)[k]
<1> DEFINE own == FragIndented(text)
           tag == <<"tag">>
           base == <<"root">>
           c == FragCat(<<tag, tag, base>>, own)
           r == FragRendered(c, TRUE)
           file == FragSynthetic(text)
<1>1. own \in Seq(Seq(FragChars))
  BY FragIndentedIs
<1>2. tag \in Seq(FragChars) /\ base \in Seq(FragChars)
  <2>1. "tag" \in FragChars /\ "root" \in FragChars
    BY DEF FragChars
  <2> QED  BY <2>1
<1>3. file = FragCat(<< <<"site", "{">>, <<"handle", "{">> >>, r)
  BY Zenon DEF FragSynthetic, FragCat
<1>4. PICK a, b : file = FragCat(<<a, b>>, r)
  BY <1>3, Zenon
<1> HIDE DEF own, tag, base, file
<1>5. /\ c \in Seq(Seq(FragChars)) /\ Len(c) = Len(own) + 3
      /\ \A i \in 1 .. Len(own) : c[3 + i] = own[i]
  BY <1>1, <1>2, FragAfterThree
<1> HIDE DEF c
<1>6. /\ r \in Seq(Seq(FragChars)) /\ Len(r) = Len(c)
      /\ \A k \in 1 .. Len(c) : r[k] = FragPushed(c[k])
  <2>1. TRUE \in BOOLEAN
    OBVIOUS
  <2>2. /\ r \in Seq(Seq(FragChars)) /\ Len(r) = Len(c)
        /\ \A k \in 1 .. Len(c) : r[k] = IF TRUE THEN FragPushed(c[k]) ELSE c[k]
    BY <1>5, <2>1, FragRenderedIs
  <2> QED  BY <2>2
<1> HIDE DEF r
<1>7. /\ DOMAIN file = 1 .. Len(r) + 2
      /\ \A i \in 1 .. Len(r) : file[2 + i] = r[i]
  BY <1>4, <1>6, FragAfterTwo
<1>8. /\ DOMAIN own = 1 .. Len(own) /\ Len(own) \in Nat
      /\ \A k \in 1 .. Len(own) : FragRendered(own, TRUE)[k] = FragPushed(own[k])
  <2>1. TRUE \in BOOLEAN
    OBVIOUS
  <2>2. \A k \in 1 .. Len(own) : FragRendered(own, TRUE)[k] = IF TRUE THEN FragPushed(own[k]) ELSE own[k]
    BY <1>1, <2>1, FragRenderedIs
  <2>3. DOMAIN own = 1 .. Len(own) /\ Len(own) \in Nat
    BY <1>1
  <2> QED  BY <2>2, <2>3
<1>9. ASSUME NEW k \in DOMAIN own
      PROVE  k + FragOffset \in DOMAIN file /\ file[k + FragOffset] = FragRendered(own, TRUE)[k]
  <2>1. k \in 1 .. Len(own) /\ k \in Nat
    BY <1>8
  <2>2. 3 + k \in 1 .. Len(c) /\ 3 + k \in 1 .. Len(r) /\ k + 5 \in 1 .. Len(r) + 2 /\ 2 + (3 + k) = k + 5
    <3>1. PICK n : n = Len(own)
      OBVIOUS
    <3>2. Len(c) = n + 3 /\ Len(r) = n + 3
      BY <1>5, <1>6, <3>1, Zenon
    <3>3. n \in Nat /\ k \in 1 .. n
      BY <1>8, <2>1, <3>1, Zenon
    <3>4. 3 + k \in 1 .. n + 3 /\ k + 5 \in 1 .. (n + 3) + 2 /\ 2 + (3 + k) = k + 5
      BY <3>3
    <3> QED  BY <3>2, <3>4, Zenon
  <2>3. c[3 + k] = own[k]
    BY <1>5, <2>1
  <2>4. r[3 + k] = FragPushed(own[k])
    BY <1>6, <2>2, <2>3
  <2>5. file[k + 5] = r[3 + k]
    BY <1>7, <2>2
  <2>6. FragRendered(own, TRUE)[k] = FragPushed(own[k])
    BY <1>8, <2>1
  <2>7. FragOffset = 5
    BY DEF FragOffset
  <2> QED  BY <1>7, <2>2, <2>4, <2>5, <2>6, <2>7
<1> QED  BY <1>9 DEF own, file

(* What the specification's steps keep of the text. *)
FragInv == fragTyped \in 0 .. FragLength /\ fragText \in Seq(Seq(FragSymbols)) /\ fragText # <<>>

LEMMA FragInvInit ==
    FragInit => FragInv
<1> SUFFICES ASSUME FragInit PROVE FragInv
  OBVIOUS
<1>1. FragLength \in Nat /\ FragStarts \subseteq Seq(Seq(FragSymbols)) \ {<<>>}
  BY FragAssumption, Zenon
<1>2. fragText \in FragStarts /\ fragTyped = 0
  BY DEF FragInit
<1>3. fragTyped \in 0 .. FragLength
  BY <1>1, <1>2
<1>4. fragText \in Seq(Seq(FragSymbols)) /\ fragText # <<>>
  BY <1>1, <1>2, Zenon
<1> QED  BY <1>3, <1>4 DEF FragInv

LEMMA FragInvNext ==
    FragInv /\ [FragType]_FragVars => FragInv'
<1> SUFFICES ASSUME FragInv, [FragType]_FragVars PROVE FragInv'
  OBVIOUS
<1>1. fragTyped \in 0 .. FragLength /\ fragText \in Seq(Seq(FragSymbols)) /\ fragText # <<>> /\ FragLength \in Nat
  <2>1. FragLength \in Nat
    BY FragAssumption, Zenon
  <2> QED  BY <2>1 DEF FragInv
<1>2. CASE FragType
  <2>1. fragTyped' \in 0 .. FragLength
    BY <1>1, <1>2 DEF FragType
  <2>2. CASE fragText' = Append(fragText, <<>>)
    <3>1. \A x \in Seq(Seq(FragSymbols)), y \in Seq(FragSymbols) :
            Append(x, y) \in Seq(Seq(FragSymbols)) /\ Len(Append(x, y)) # 0
      OBVIOUS
    <3>2. <<>> \in Seq(FragSymbols)
      OBVIOUS
    <3>3. fragText' \in Seq(Seq(FragSymbols)) /\ Len(fragText') # 0
      BY <1>1, <2>2, <3>1, <3>2
    <3>4. fragText' # <<>>
      BY <3>3
    <3> QED  BY <2>1, <3>3, <3>4 DEF FragInv
  <2>3. ASSUME NEW ch \in FragTyped, fragText' = [fragText EXCEPT ![Len(fragText)] = Append(@, ch)]
        PROVE  FragInv'
    <3> DEFINE n == Len(fragText)
               line == fragText[n]
    <3>1. n \in 1 .. n
      BY <1>1
    <3>2. line \in Seq(FragSymbols)
      BY <1>1, <3>1
    <3>3. ch \in FragSymbols
      BY FragAssumption, Zenon
    <3>4. Append(line, ch) \in Seq(FragSymbols)
      <4> HIDE DEF line
      <4> QED  BY <3>2, <3>3
    <3>5. fragText' = [fragText EXCEPT ![n] = Append(line, ch)]
      BY <2>3
    <3> HIDE DEF line
    <3>6. fragText' \in Seq(Seq(FragSymbols)) /\ Len(fragText') = n
      <4>1. PICK l : l = Append(line, ch)
        OBVIOUS
      <4>2. fragText' = [fragText EXCEPT ![n] = l] /\ l \in Seq(FragSymbols)
        BY <3>4, <3>5, <4>1
      <4> QED  BY <1>1, <3>1, <4>2
    <3>7. fragText' # <<>>
      BY <3>1, <3>6
    <3> QED  BY <2>1, <3>6, <3>7 DEF FragInv
  <2> QED  BY <1>2, <2>2, <2>3 DEF FragType
<1>3. CASE UNCHANGED FragVars
  BY <1>1, <1>3 DEF FragVars, FragInv
<1> QED  BY <1>2, <1>3

(* The symbols of a text are among those that the lexer's states are made of. *)
LEMMA FragInvText ==
    FragInv => fragText \in Seq(Seq(FragChars)) /\ fragText # <<>>
<1> SUFFICES ASSUME FragInv PROVE fragText \in Seq(Seq(FragChars)) /\ fragText # <<>>
  OBVIOUS
<1>1. fragText \in Seq(Seq(FragSymbols)) /\ fragText # <<>>
  BY DEF FragInv
<1>2. FragSymbols \subseteq FragChars
  BY DEF FragChars
<1>3. ASSUME NEW l \in Seq(FragSymbols) PROVE l \in Seq(FragChars)
  <2>1. Len(l) \in Nat /\ l \in [1 .. Len(l) -> FragSymbols]
    OBVIOUS
  <2>2. l \in [1 .. Len(l) -> FragChars]
    BY <1>2, <2>1
  <2> QED  BY <2>1, <2>2, FragIsSeq
<1>4. Len(fragText) \in Nat /\ fragText \in [1 .. Len(fragText) -> Seq(FragSymbols)]
  BY <1>1
<1>5. fragText \in [1 .. Len(fragText) -> Seq(FragChars)]
  BY <1>3, <1>4
<1>6. fragText \in Seq(Seq(FragChars))
  BY <1>4, <1>5, FragIsSeq
<1> QED  BY <1>1, <1>6

LEMMA FragInvSound ==
    FragInv => FragmentIsSound
<1> SUFFICES ASSUME FragInv PROVE FragmentIsSound
  OBVIOUS
<1>1. fragText \in Seq(Seq(FragChars)) /\ fragText # <<>> /\ fragTyped \in 0 .. FragLength
  BY FragInvText DEF FragInv
<1>2. FragTypeOK
  BY <1>1, FragErrorIs DEF FragTypeOK
<1>3. ASSUME FragAccepted(fragText) => FragTrimsBlanks(fragText), NEW root \in BOOLEAN
      PROVE  FragBalanced(FragLex(FragRendered(FragServing(fragText), root)).tokens)
  <2>1. CASE FragAccepted(fragText)
    <3>1. FragServing(fragText) = FragIndented(fragText)
      BY <2>1 DEF FragServing
    <3>2. FragBalanced(FragLex(FragRendered(FragIndented(fragText), root)).tokens)
      BY <1>1, <1>3, <2>1, FragAcceptedBalance
    <3> QED  BY <3>1, <3>2
  <2>2. CASE ~FragAccepted(fragText)
    <3>1. FragServing(fragText) = << <<"respond">> >>
      BY <2>2 DEF FragServing
    <3>2. FragBalanced(FragLex(FragRendered(<< <<"respond">> >>, root)).tokens)
      BY FragFallbackBalance
    <3> QED  BY <3>1, <3>2
  <2> QED  BY <2>1, <2>2
<1>4. StaysInBlock
  BY <1>3, Zenon DEF StaysInBlock, FragBalanced, FragOpens, FragCloses, FragCount, FragAre
<1>5. ASSUME NEW p, NEW q, NEW may \in BOOLEAN, FragLikeTokens(p, q, may), DOMAIN p = 1 .. Len(p), DOMAIN q = 1 .. Len(q)
      PROVE  FragSameTokens(p, q, may)
  <2>1. DOMAIN q = DOMAIN p
    BY <1>5 DEF FragLikeTokens
  <2>2. ASSUME NEW k \in DOMAIN p
        PROVE  /\ q[k].quoted = p[k].quoted /\ q[k].line = p[k].line
               /\ q[k].text = p[k].text \/ (may /\ p[k].quoted /\ p[k].line # p[k].endLine)
    <3>1. FragLikeToken(p[k], q[k], may)
      BY <1>5 DEF FragLikeTokens
    <3> QED  BY <3>1, Zenon DEF FragLikeToken, FragLikeText
  <2> QED  BY <2>1, <2>2, Zenon DEF FragSameTokens
<1>6. IndentKeepsTokens
  <2>1. SUFFICES ASSUME FragAccepted(fragText), FragTrimsBlanks(fragText), NEW root \in BOOLEAN
                 PROVE  /\ FragSameTokens(FragLex(fragText).tokens, FragLex(FragLineEnds(fragText)).tokens, TRUE)
                        /\ FragSameTokens(FragLex(FragLineEnds(fragText)).tokens,
                                          FragLex(FragRendered(FragIndented(fragText), root)).tokens, root)
    <3>1. TRUE \in BOOLEAN
      OBVIOUS
    <3> QED  BY <3>1, Zenon DEF IndentKeepsTokens
  <2> DEFINE before == FragLex(fragText).tokens
             own == FragLex(FragLineEnds(fragText)).tokens
             after == FragLex(FragRendered(FragIndented(fragText), root)).tokens
  <2>2. /\ FragLikeTokens(before, own, TRUE) /\ FragLikeTokens(own, after, root)
        /\ DOMAIN before = 1 .. Len(before) /\ DOMAIN own = 1 .. Len(own) /\ DOMAIN after = 1 .. Len(after)
    BY <1>1, <2>1, FragRenderedTokens
  <2> HIDE DEF before, own, after
  <2>3. FragSameTokens(before, own, TRUE)
    BY <1>5, <2>2
  <2>4. FragSameTokens(own, after, root)
    BY <1>5, <2>2
  <2> QED  BY <2>3, <2>4 DEF before, own, after
<1>7. ReportsOwnLine
  BY <1>1, FragSyntheticLines, Zenon DEF ReportsOwnLine
<1> QED  BY <1>2, <1>4, <1>6, <1>7, Zenon DEF FragmentIsSound

(* Whatever is typed, a text that is refused is refused for one of its lines,
   and one that is accepted means the same where it is placed, if what trimming
   takes off is white space for the lexer too: it keeps every token, and its
   braces balance at every point.  What Caddy says of any text is said of the
   line it came from (staticRouting.ts; caddy.ts:341-352, 1007-1024). *)
THEOREM FragmentIsSoundHolds == FragSpec => []FragmentIsSound
<1>1. FragInit => FragInv
  BY FragInvInit
<1>2. FragInv /\ [FragType]_FragVars => FragInv'
  BY FragInvNext
<1>3. FragInv => FragmentIsSound
  BY FragInvSound
<1> QED  BY <1>1, <1>2, <1>3, PTL DEF FragSpec

=============================================================================
