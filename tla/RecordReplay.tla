---------------------------- MODULE RecordReplay ----------------------------
(***************************************************************************)
(* The life of a stored event: it is recorded, and when the recording is   *)
(* over its analysis is recomputed from what was stored (ComputeAnalysis). *)
(***************************************************************************)
EXTENDS Recording

VARIABLES from, buffer, prov, offer, merge, pData, turn, head, out, crash, errors

MaxOut == MaxMsg
Task == INSTANCE Replay WITH Order <- <<"state", "driver">>, MaxErrors <- MaxFail, Advances <- TRUE,
                             PageLimit <- [k \in {"state", "driver"} |-> PageSize[k]]

taskVars == <<from, buffer, prov, offer, merge, pData, turn, head, out, crash, errors>>

\* Nothing but the tables matters to the replay, so those who read or delete
\* the event during the recording may be left out of the runs with a replay.
Recorded == /\ \A k \in Kinds : req[k].at = "idle"
            /\ stream.at = "idle" /\ del.at = "idle"

RInit == Init /\ Task!ReplayInit

Record == merge = "idle" /\ Next /\ UNCHANGED taskVars
Start == Recorded /\ Task!StartReplay /\ UNCHANGED vars
Recompute == Task!ReplayStep /\ UNCHANGED vars

RNext == Record \/ Start \/ Recompute

RSpec == RInit /\ [][RNext]_<<vars, taskVars>>

(* The goroutines of the task run until they end. *)
RFairness ==
  WF_<<vars, taskVars>>(Recompute)

FairRSpec == RSpec /\ RFairness

(***************************************************************************)
(* The states are recomputed in the order of time: no state after a state  *)
(* or driver data that is later.  Recording ids that grow with the time    *)
(* and merging the kinds by time stamp take both to get there.  Driver     *)
(* data comes late only behind other driver data that is not older.        *)
(***************************************************************************)
RecomputedInOrder ==
  /\ Task!MergeOrdered
  /\ \A i, j \in DOMAIN out : i < j /\ out[j].kind = "state" => out[i].row.ts <= out[j].row.ts

(***************************************************************************)
(* The analysis is recomputed from all that was stored: when the merge is  *)
(* done every stored state was processed, once, and of the driver data     *)
(* what does not share its entry with some that was.                       *)
(***************************************************************************)
RecomputedOnce ==
  /\ Task!AllOnce
  /\ merge = "done" =>
       \A r \in rows["state"] : \E i \in DOMAIN out : out[i] = [kind |-> "state", row |-> r]

(***************************************************************************)
(* A replay without failing queries ends the process only for an event     *)
(* without any state or without any driver data.                           *)
(***************************************************************************)
CrashOnlyIfEmpty == Task!CrashOnlyIfEmpty

(***************************************************************************)
(* A replay ends, and leaves none of its goroutines behind: the merge does *)
(* not return before every provider has closed its channel.                *)
(***************************************************************************)
ReplayReturns == merge = "fill" ~> (Task!Returned \/ crash # "no")
=============================================================================
