------------------------------- MODULE Readings -------------------------------
(***************************************************************************)
(* readings: POST /api/readings as the calls that Service.Record and       *)
(* Detect make, each under a lock of its own, against other requests, one  *)
(* Summary, and the sweep of main (Service.Trim).                          *)
(*                                                                         *)
(* A reading is named by the request that brings it; sample has its data.  *)
(* Time stamps are left out.                                               *)
(***************************************************************************)
EXTENDS Integers, Sequences, FiniteSets, FiniteSetsExt

CONSTANTS
  Request,           \* the POST requests
  Zone,              \* zone ids, in the order of sort.Strings
  Sample,            \* what a request may bring
  Capacity,          \* Store.capacity
  AlertLimit,        \* AlertLog.limit
  ColdchainMaxTempC, \* alertThresholds.defaults
  CongestionPct,     \* alertThresholds.congestion
  NoSample, NoLimit

Reading == [zone : Zone, temp : Int, occupancy : Int, refrigerated : BOOLEAN]

ASSUME ReadingsAssumption ==
  /\ Zone \subseteq Nat
  /\ Sample \subseteq Reading
  /\ Capacity \in Nat \ {0} /\ AlertLimit \in Nat \ {0}
  /\ ColdchainMaxTempC \in Int /\ CongestionPct \in Int
  /\ NoSample \notin Sample /\ NoLimit \notin Int

Kind  == {"coldchain", "congestion"}
Alert == [reading : Request, kind : Kind]

VARIABLES
  byZone,    \* Store.byZone; a zone that is not in the map has no readings
  alerts,    \* AlertLog.items
  overrides, \* alertThresholds.overrides
  pc,        \* what the handler of each request does next
  sample,    \* the reading it has decoded
  limit,     \* Detect: the threshold it is about to pin
  detected,  \* Detect: alerts
  sweep,     \* Service.Trim: the zones it has still to trim
  summary,   \* Service.Summary: where it is, the zones to go, and out ...
  maxTempC,  \* ... except out.MaxTempC; NoLimit stands for no entry
  recorded,  \* history variable: all readings ever appended to a zone
  raised,    \* history variable: all alerts ever added
  begun      \* history variable: byZone and alerts when Summary began

handlerVars == <<pc, sample, limit, detected>>
storeVars   == <<byZone, recorded>>
alertVars   == <<alerts, raised>>
summaryVars == <<summary, maxTempC, begun>>
vars == <<storeVars, alertVars, overrides, handlerVars, sweep, summaryVars>>

Init ==
  /\ byZone    = [z \in Zone |-> <<>>] /\ recorded = byZone
  /\ alerts    = <<>> /\ raised = <<>>
  /\ overrides = [z \in Zone |-> NoLimit]
  /\ pc        = [r \in Request |-> "idle"]
  /\ sample    = [r \in Request |-> NoSample]
  /\ limit     = [r \in Request |-> NoLimit]
  /\ detected  = [r \in Request |-> <<>>]
  /\ sweep = {}
  /\ summary = [pc |-> "idle", todo |-> {}, zones |-> 0, readings |-> 0, alerts |-> 0]
  /\ maxTempC = [z \in Zone |-> NoLimit]
  /\ begun = [byZone |-> byZone, alerts |-> alerts]

-----------------------------------------------------------------------------
(* The last n elements of a sequence. *)
Newest(s, n) == IF Len(s) > n THEN SubSeq(s, Len(s) - n + 1, Len(s)) ELSE s

(* Store.Recent and AlertLog.Recent.  The entries come in the order in     *)
(* which they were added.                                                  *)
RecentReadings(z, n) == IF n <= 0 THEN byZone[z] ELSE Newest(byZone[z], n)
RecentAlerts(n)      == IF n <= 0 THEN alerts ELSE Newest(alerts, n)

(* Store.Zones: the keys of the map. *)
Zones == {z \in Zone : byZone[z] # <<>>}

ThresholdFor(z) == IF overrides[z] = NoLimit THEN ColdchainMaxTempC ELSE overrides[z]

Goto(r, label) == pc' = [pc EXCEPT ![r] = label]

-----------------------------------------------------------------------------
(* Record *)

Arrive(r) ==
  /\ pc[r] = "idle"
  /\ \E x \in Sample : sample' = [sample EXCEPT ![r] = x]
  /\ Goto(r, "append")
  /\ UNCHANGED <<storeVars, alertVars, overrides, limit, detected, sweep, summaryVars>>

(* The body is not JSON or has no zone id. *)
BadRequest(r) ==
  /\ pc[r] = "idle"
  /\ Goto(r, "refused")
  /\ UNCHANGED <<storeVars, alertVars, overrides, sample, limit, detected, sweep, summaryVars>>

Evict(readings, r) == Newest(Append(readings, r), Capacity)

StoreAppend(r) ==
  /\ pc[r] = "append"
  /\ LET z == sample[r].zone
     IN  /\ byZone' = [byZone EXCEPT ![z] = Evict(@, r)]
         /\ recorded' = [recorded EXCEPT ![z] = Append(@, r)]
  /\ Goto(r, "compare")
  /\ UNCHANGED <<alertVars, overrides, sample, limit, detected, sweep, summaryVars>>

(* Detect asks for the threshold to compare, ... *)
TooWarm(r) == sample[r].refrigerated /\ sample[r].temp > ThresholdFor(sample[r].zone)
Compare(r) ==
  /\ pc[r] = "compare"
  /\ Goto(r, IF TooWarm(r) THEN "read" ELSE "congestion")
  /\ UNCHANGED <<storeVars, alertVars, overrides, sample, limit, detected, sweep, summaryVars>>

(* ... asks for it once more ... *)
ReadLimit(r) ==
  /\ pc[r] = "read"
  /\ limit' = [limit EXCEPT ![r] = ThresholdFor(sample[r].zone)]
  /\ Goto(r, "pin")
  /\ UNCHANGED <<storeVars, alertVars, overrides, sample, detected, sweep, summaryVars>>

(* ... and pins it. *)
\* slip: pins the temperature, the new high
PinTemp(r) ==
  /\ pc[r] = "pin"
  /\ overrides' = [overrides EXCEPT ![sample[r].zone] = sample[r].temp]
  /\ detected' = [detected EXCEPT ![r] = Append(@, "coldchain")]
  /\ Goto(r, "congestion")
  /\ UNCHANGED <<storeVars, alertVars, sample, limit, sweep, summaryVars>>
RecordThreshold(r) ==
  /\ pc[r] = "pin"
  /\ overrides' = [overrides EXCEPT ![sample[r].zone] = limit[r]]
  /\ detected' = [detected EXCEPT ![r] = Append(@, "coldchain")]
  /\ Goto(r, "congestion")
  /\ UNCHANGED <<storeVars, alertVars, sample, limit, sweep, summaryVars>>

(* Nothing writes the congestion limit.  Record adds no empty list.        *)
Congestion(r) ==
  /\ pc[r] = "congestion"
  /\ detected' = IF sample[r].occupancy > CongestionPct
                 THEN [detected EXCEPT ![r] = Append(@, "congestion")]
                 ELSE detected
  /\ Goto(r, IF detected'[r] = <<>> THEN "done" ELSE "log")
  /\ UNCHANGED <<storeVars, alertVars, overrides, sample, limit, sweep, summaryVars>>

(* AlertLog.Add *)
AlertsOf(r) == [n \in DOMAIN detected[r] |-> [reading |-> r, kind |-> detected[r][n]]]

\* slip: cuts the new alerts
AddWhileRoom(r) ==
  /\ pc[r] = "log"
  /\ alerts' = IF Len(alerts) < AlertLimit
               THEN Newest(alerts \o AlertsOf(r), AlertLimit) ELSE alerts
  /\ raised' = raised \o AlertsOf(r)
  /\ Goto(r, "done")
  /\ UNCHANGED <<storeVars, overrides, sample, limit, detected, sweep, summaryVars>>
Add(r) ==
  /\ pc[r] = "log"
  /\ alerts' = Newest(alerts \o AlertsOf(r), AlertLimit)
  /\ raised' = raised \o AlertsOf(r)
  /\ Goto(r, "done")
  /\ UNCHANGED <<storeVars, overrides, sample, limit, detected, sweep, summaryVars>>

-----------------------------------------------------------------------------
(* Service.Trim, again and again *)

SweepBegins ==
  /\ sweep = {}
  /\ sweep' = Zones
  /\ UNCHANGED <<storeVars, alertVars, overrides, handlerVars, summaryVars>>

\* slip: makes room for the next reading
MakeRoom(readings) == Newest(readings, Capacity - 1)
Cut(readings) == Newest(readings, Capacity)
Trim(z) ==
  /\ sweep # {} /\ z = Min(sweep)
  /\ byZone' = [byZone EXCEPT ![z] = Cut(@)]
  /\ sweep' = sweep \ {z}
  /\ UNCHANGED <<recorded, alertVars, overrides, handlerVars, summaryVars>>

-----------------------------------------------------------------------------
(* Service.Summary: the zones, then the readings of each, then the alerts. *)
(* The averages are left out.                                              *)

SummaryBegins ==
  /\ summary.pc = "idle"
  /\ summary' = [summary EXCEPT !.pc = "zones", !.todo = Zones]
  /\ begun' = [byZone |-> byZone, alerts |-> alerts]
  /\ UNCHANGED <<storeVars, alertVars, overrides, handlerVars, sweep, maxTempC>>

Temps(readings) == {sample[readings[n]].temp : n \in DOMAIN readings}
\* slip: the maximum starts at zero
LargestOrZero(readings) == IF readings = <<>> THEN NoLimit ELSE Max(Temps(readings) \cup {0})
MaxTemp(readings) == IF readings = <<>> THEN NoLimit ELSE Max(Temps(readings))

SummarizeZone(z) ==
  /\ summary.pc = "zones" /\ summary.todo # {} /\ z = Min(summary.todo)
  /\ summary' = [summary EXCEPT !.todo = @ \ {z}, !.zones = @ + 1,
                                !.readings = @ + Len(RecentReadings(z, 0))]
  /\ maxTempC' = [maxTempC EXCEPT ![z] = MaxTemp(RecentReadings(z, 0))]
  /\ UNCHANGED <<storeVars, alertVars, overrides, handlerVars, sweep, begun>>

SummaryReturns ==
  /\ summary.pc = "zones" /\ summary.todo = {}
  /\ summary' = [summary EXCEPT !.pc = "done", !.alerts = Len(RecentAlerts(0))]
  /\ UNCHANGED <<storeVars, alertVars, overrides, handlerVars, sweep, maxTempC, begun>>

-----------------------------------------------------------------------------
RecordStep(r) ==
  \/ Arrive(r) \/ BadRequest(r) \/ StoreAppend(r) \/ Compare(r) \/ ReadLimit(r)
  \/ RecordThreshold(r) \/ Congestion(r) \/ Add(r)

Next ==
  \/ \E r \in Request : RecordStep(r)
  \/ SweepBegins \/ \E z \in Zone : Trim(z)
  \/ SummaryBegins \/ \E z \in Zone : SummarizeZone(z)
  \/ SummaryReturns

Spec == Init /\ [][Next]_vars

-----------------------------------------------------------------------------
(* Type invariant, with the two capacities (store.go, service.go).  What    *)
(* maxTempC holds is said by SummaryIsBracketed.                            *)
SummaryType ==
  [pc : {"idle", "zones", "done"}, todo : SUBSET Zone, zones : Nat, readings : Nat,
   alerts : Nat]

TypeOK ==
  /\ byZone \in [Zone -> Seq(Request)] /\ recorded \in [Zone -> Seq(Request)]
  /\ \A z \in Zone : Len(byZone[z]) <= Capacity
  /\ alerts \in Seq(Alert) /\ raised \in Seq(Alert) /\ Len(alerts) <= AlertLimit
  /\ overrides \in [Zone -> Int \cup {NoLimit}]
  /\ pc \in [Request -> {"idle", "append", "compare", "read", "pin", "congestion",
                         "log", "done", "refused"}]
  /\ sample \in [Request -> Sample \cup {NoSample}]
  /\ limit \in [Request -> Int \cup {NoLimit}]
  /\ detected \in [Request -> Seq(Kind)]
  /\ sweep \subseteq Zone
  /\ summary \in SummaryType /\ DOMAIN maxTempC = Zone
  /\ begun \in [byZone : [Zone -> Seq(Request)], alerts : Seq(Alert)]

(* What has been recorded for a zone is the readings that were sent for    *)
(* it, each one once and from when it is stored (Append).                  *)
Stored(r) == pc[r] \notin {"idle", "refused", "append"}

RecordedOnce ==
  \A z \in Zone :
    /\ \A n \in DOMAIN recorded[z] :
         Stored(recorded[z][n]) /\ sample[recorded[z][n]].zone = z
    /\ \A m, n \in DOMAIN recorded[z] : recorded[z][m] = recorded[z][n] => m = n
    /\ \A r \in Request : Stored(r) /\ sample[r].zone = z =>
         \E n \in DOMAIN recorded[z] : recorded[z][n] = r

(* The history of a zone is the end of what has been recorded for it: no   *)
(* reading is lost or put in another place by an eviction, and the sweep   *)
(* finds nothing to do (Append, Trim).                                     *)
HistoryIsNewest ==
  /\ RecordedOnce
  /\ \A z \in Zone : byZone[z] = Newest(recorded[z], Capacity)

(* What a reading implies by the configured limits alone. *)
Implied(x) ==
  (IF x.refrigerated /\ x.temp > ColdchainMaxTempC THEN <<"coldchain">> ELSE <<>>)
    \o (IF x.occupancy > CongestionPct THEN <<"congestion">> ELSE <<>>)

(* "later detections for the same zone compare against a stable limit"     *)
(* (alerts.go:57): whatever has been pinned before, by whomever, a request *)
(* is answered with exactly the alerts that its reading implies (Detect).  *)
AnswersAreRight == \A r \in Request : pc[r] \in {"log", "done"} => detected[r] = Implied(sample[r])

(* The inductive invariant behind it: the only threshold that is ever       *)
(* pinned is the configured one, so a zone's limit stays as it is, and      *)
(* Detect knows half of its answer before it asks for the second limit.     *)
PinsInv ==
  /\ \A z \in Zone : overrides[z] \in {NoLimit, ColdchainMaxTempC}
  /\ \A r \in Request :
       /\ pc[r] \notin {"idle", "refused"} => sample[r] \in Sample
       /\ pc[r] = "pin" => limit[r] = ColdchainMaxTempC
       /\ pc[r] \in {"idle", "append", "compare", "read", "pin"} => detected[r] = <<>>
       /\ pc[r] \in {"read", "pin"} => sample[r].refrigerated /\ sample[r].temp > ColdchainMaxTempC
       /\ pc[r] = "congestion" =>
            detected[r] = IF sample[r].refrigerated /\ sample[r].temp > ColdchainMaxTempC
                          THEN <<"coldchain">> ELSE <<>>

Inductive == TypeOK /\ PinsInv /\ AnswersAreRight /\ HistoryIsNewest /\ IsFiniteSet(Zones)

(* The log of alerts is the end of all alerts ever raised, in which every   *)
(* request that has been answered has its alerts once, next to each other   *)
(* and in order, and no request has one before its reading is stored        *)
(* (Record, Add).                                                           *)
RaisedBy(r) == {n \in DOMAIN raised : raised[n].reading = r}

NoAlertLost ==
  /\ alerts = Newest(raised, AlertLimit)
  /\ \A r \in Request :
       IF pc[r] = "done" /\ detected[r] # <<>>
       THEN \E first \in RaisedBy(r) :
              /\ RaisedBy(r) = first .. first + Len(detected[r]) - 1
              /\ \A n \in RaisedBy(r) : raised[n].kind = detected[r][n - first + 1]
              /\ \E n \in DOMAIN recorded[sample[r].zone] : recorded[sample[r].zone][n] = r
       ELSE RaisedBy(r) = {}

(* The zones that Summary has counted, and the readings of some zones.     *)
Summarized == {z \in Zone : maxTempC[z] # NoLimit}
Entries(history, zones) == {zn \in zones \X (1 .. Capacity) : zn[2] \in DOMAIN history[zn[1]]}
Total(history) == Cardinality(Entries(history, Zone))

(* Both stores have grown, or are as they were, since Summary began.       *)
GrownSinceBegun ==
  /\ Len(begun.alerts) <= Len(alerts)
  /\ \A z \in Zone :
       /\ Len(begun.byZone[z]) <= Len(byZone[z])
       /\ \A n \in DOMAIN begun.byZone[z] :
            \E m \in DOMAIN recorded[z] : recorded[z][m] = begun.byZone[z][n]

(* A zone's maximum is the temperature of a recorded reading, and nothing  *)
(* that was there when Summary began and is there now is warmer.           *)
MaximumOf(z) ==
  /\ maxTempC[z] \in Temps(recorded[z])
  /\ \A m \in DOMAIN begun.byZone[z], n \in DOMAIN byZone[z] :
       begun.byZone[z][m] = byZone[z][n] => sample[byZone[z][n]].temp <= maxTempC[z]

(* What Summary has so far: it has counted the zones that were there when  *)
(* it began, but for those to go, and their readings lie in between.       *)
SummarySoFar ==
  /\ GrownSinceBegun
  /\ IF summary.pc = "idle" THEN Summarized = {} /\ summary.todo = {}
     ELSE /\ Summarized = {z \in Zone : begun.byZone[z] # <<>>} \ summary.todo
          /\ \A z \in summary.todo : begun.byZone[z] # <<>>
  /\ summary.zones = Cardinality(Summarized)
  /\ Cardinality(Entries(begun.byZone, Summarized)) <= summary.readings
  /\ summary.readings <= Cardinality(Entries(byZone, Summarized))
  /\ \A z \in Summarized : MaximumOf(z)
  /\ summary.pc = "done" => /\ summary.todo = {}
                            /\ Len(begun.alerts) <= summary.alerts
                            /\ summary.alerts <= Len(alerts)

(* What Summary can promise while readings come in and the sweep runs: its  *)
(* counts lie between those when it began and those now, each zone it       *)
(* counts has a maximum, which is the temperature of a recorded reading,    *)
(* and no reading retained all the time is warmer (Summary).                *)
SummaryIsBracketed ==
  /\ SummarySoFar
  /\ summary.pc = "done" =>
       /\ Total(begun.byZone) <= summary.readings
       /\ summary.readings <= Total(byZone)
       /\ Len(begun.alerts) <= summary.alerts /\ summary.alerts <= Len(alerts)
       /\ summary.zones = Cardinality({z \in Zone : begun.byZone[z] # <<>>})
       /\ \A z \in Zone : begun.byZone[z] # <<>> => MaximumOf(z)

=============================================================================
