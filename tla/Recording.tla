----------------------------- MODULE Recording -----------------------------
(***************************************************************************)
(* How the messages of one live event are stored while they are published, *)
(* server/state and the repositories below it, how they are streamed to    *)
(* readers in the meantime, and how the event is deleted.                  *)
(*                                                                         *)
(* A message is its time stamp.  A provider sends the messages of one kind *)
(* one after the other and those of different kinds at the same time.  A   *)
(* step of a handler is as much of its transaction as no other handler can *)
(* tell apart, or the message's turn in the processor.                     *)
(***************************************************************************)
EXTENDS Paging, Sequences

CONSTANTS
  MaxMsg,     \* bound on the messages of the recording
  MaxFail,    \* bound on the transactions the database fails
  PageSize,   \* entries per query and kind: 2000 for states, 1000 for the others
  Nums,       \* the limits a reader may ask for, 0 for none
  MaxOthers   \* bound on the readers and deletions during the recording

Kinds == {"state", "driver", "speedmap"}

ASSUME SizesAssumption ==
  /\ MaxMsg \in Nat /\ MaxFail \in Nat /\ MaxOthers \in Nat
  /\ PageSize \in [Kinds -> Nat \ {0}] /\ Nums \subseteq Nat

VARIABLES
  persist,       \* epd.RecordingMode: the messages are to be stored
  clock,         \* the time stamp of the last message
  seqId,         \* the sequence of rs_info ids; it is not rolled back
  infos,         \* ids of the stored rs_info entries
  rows,          \* for each kind the stored messages
  lastRsInfoID,  \* epd.LastRsInfoID
  req,           \* for each kind the request under way
  failed,        \* history: messages whose transaction the database failed
  rolledBack,    \* history: rs_info ids whose transaction did not commit
  stream,        \* a reader that streams one kind
  del            \* the transaction that deletes the event

tables == <<seqId, infos, rows>>
faults == <<failed, rolledBack>>
vars == <<persist, clock, tables, lastRsInfoID, req, faults, stream, del>>

Init ==
  /\ persist \in BOOLEAN /\ clock = 0
  /\ seqId = 0 /\ infos = {} /\ rows = [k \in Kinds |-> {}]
  /\ lastRsInfoID = 0
  /\ req = [k \in Kinds |-> [at |-> "idle", ts |-> 0, id |-> 0]]
  /\ failed = {} /\ rolledBack = {}
  /\ stream = [at |-> "idle", kind |-> "state", num |-> 0, from |-> 0, base |-> {}, out |-> <<>>]
  /\ del = [at |-> "idle", had |-> {}, gone |-> [k \in Kinds |-> {}], infos |-> {}]

\* Readers and deletions so far.
Others == Cardinality({a \in {<<"stream", stream.at>>, <<"del", del.at>>} : a[2] # "idle"})

Goto(k, at) == req' = [req EXCEPT ![k].at = at]
Deleted == del.at = "deleted"

-----------------------------------------------------------------------------
(* The handlers: validateEventAccess finds the event, the data is multicast *)
(* (see Broadcast), stored in a transaction and processed.                  *)

\* A state is stored if it belongs to a race session, the other kinds always.
Publish(k) ==
  /\ req[k].at = "idle" /\ clock < MaxMsg
  /\ clock' = clock + 1
  /\ \E race \in BOOLEAN :
       /\ race \/ k = "state"
       /\ req' = [req EXCEPT ![k] = [at |-> IF persist /\ race THEN "store" ELSE "process",
                                     ts |-> clock + 1, id |-> 0]]
  /\ UNCHANGED <<persist, tables, lastRsInfoID, faults, stream, del>>

\* Mutant of InsertState: the id is one that was given before.
InsertStateReusedId ==
  /\ req["state"].at = "store"
  /\ IF Deleted THEN Goto("state", "process")
     ELSE req' = [req EXCEPT !["state"].at = "assign", !["state"].id = seqId + 1]
  /\ UNCHANGED <<persist, clock, tables, lastRsInfoID, faults, stream, del>>

\* CreateRacestate: an entry in rs_info, and the message that refers to it.
InsertState ==
  /\ req["state"].at = "store"
  /\ IF Deleted THEN Goto("state", "process") /\ UNCHANGED seqId
     ELSE /\ seqId' = seqId + 1
          /\ req' = [req EXCEPT !["state"].at = "assign", !["state"].id = seqId + 1]
  /\ UNCHANGED <<persist, clock, infos, rows, lastRsInfoID, faults, stream, del>>

\* Mutant of AssignLast: the next value of the sequence is taken for the id.
AssignNext ==
  /\ req["state"].at = "assign"
  /\ lastRsInfoID' = req["state"].id + 1
  /\ Goto("state", "commit")
  /\ UNCHANGED <<persist, clock, tables, faults, stream, del>>

\* Within the transaction the id is made known to the other handlers.
AssignLast ==
  /\ req["state"].at = "assign"
  /\ lastRsInfoID' = req["state"].id
  /\ Goto("state", "commit")
  /\ UNCHANGED <<persist, clock, tables, faults, stream, del>>

CommitState ==
  /\ req["state"].at = "commit"
  /\ LET r == req["state"] IN
       /\ infos' = infos \cup {r.id}
       /\ rows' = [rows EXCEPT !["state"] = @ \cup {[id |-> r.id, ts |-> r.ts]}]
  /\ Goto("state", "process")
  /\ UNCHANGED <<persist, clock, seqId, lastRsInfoID, faults, stream, del>>

\* A deletion that has taken the entry and not committed makes the insert wait.
\* Without the entry it fails, and the message is not stored.
Attach(k, id) ==
  /\ ~(del.at = "event" /\ id \in del.infos)
  /\ rows' = IF id \in infos THEN [rows EXCEPT ![k] = @ \cup {[id |-> id, ts |-> req[k].ts]}]
                             ELSE rows
  /\ UNCHANGED <<seqId, infos>>

\* CreateDummyRacestateInfo: driver data prior to the first state.
AttachToDummy(k) ==
  IF Deleted THEN UNCHANGED tables
  ELSE /\ seqId' = seqId + 1
       /\ infos' = infos \cup {seqId + 1}
       /\ rows' = [rows EXCEPT ![k] = @ \cup {[id |-> seqId + 1, ts |-> req[k].ts]}]

\* PublishDriverData reads LastRsInfoID twice, and no lock protects it.
ReadLast ==
  /\ req["driver"].at = "store"
  /\ req' = [req EXCEPT !["driver"].at = "row", !["driver"].id = lastRsInfoID]
  /\ UNCHANGED <<persist, clock, tables, lastRsInfoID, faults, stream, del>>

StoreDriver ==
  /\ req["driver"].at = "row"
  /\ IF lastRsInfoID = 0 THEN AttachToDummy("driver") ELSE Attach("driver", req["driver"].id)
  /\ Goto("driver", "process")
  /\ UNCHANGED <<persist, clock, lastRsInfoID, faults, stream, del>>

StoreSpeedmap ==
  /\ req["speedmap"].at = "store"
  /\ Attach("speedmap", lastRsInfoID)
  /\ Goto("speedmap", "process")
  /\ UNCHANGED <<persist, clock, lastRsInfoID, faults, stream, del>>

\* The database fails a statement or the commit: the error is logged and the
\* message is processed nevertheless.  LastRsInfoID keeps what it was set to.
StoreFails(k) ==
  /\ req[k].at \in {"store", "assign", "commit", "row"} /\ Cardinality(failed) < MaxFail
  /\ failed' = failed \cup {req[k].ts}
  /\ rolledBack' = IF req[k].at \in {"assign", "commit"} THEN rolledBack \cup {req[k].id}
                   ELSE rolledBack
  /\ Goto(k, "process")
  /\ UNCHANGED <<persist, clock, tables, lastRsInfoID, stream, del>>

\* The processor's turn: ProcessState, ProcessCarData, ProcessSpeedmap.
Process(k) ==
  /\ req[k].at = "process"
  /\ Goto(k, "idle")
  /\ UNCHANGED <<persist, clock, tables, lastRsInfoID, faults, stream, del>>

-----------------------------------------------------------------------------
(* GetStateStream, GetDriverDataStream and GetSpeedmapStream.               *)

StartStream(k, num) ==
  /\ stream.at = "idle" /\ Others < MaxOthers
  /\ stream' = [at |-> "fetch", kind |-> k, num |-> num, from |-> 0, base |-> rows[k], out |-> <<>>]
  /\ UNCHANGED <<persist, clock, tables, lastRsInfoID, req, faults, del>>

\* toFetchEntries
ToFetch ==
  LET size == PageSize[stream.kind]
  IN  IF stream.num > 0 THEN Smaller(Smaller(size, stream.num), stream.num - Len(stream.out))
      ELSE size

\* Mutant of FetchPage: the next query starts after a full page's worth of ids.
FetchPageBySize ==
  /\ stream.at = "fetch"
  /\ \E p \in Pages(rows[stream.kind], stream.from, ToFetch) :
       stream' = IF p = <<>> THEN [stream EXCEPT !.at = "done"]
                 ELSE [stream EXCEPT !.out = @ \o p, !.from = @ + PageSize[stream.kind] + 1]
  /\ UNCHANGED <<persist, clock, tables, lastRsInfoID, req, faults, del>>

\* InitialRequest and NextRequest; the stream ends with the first empty page.
FetchPage ==
  /\ stream.at = "fetch"
  /\ \E p \in Pages(rows[stream.kind], stream.from, ToFetch) :
       stream' = IF p = <<>> THEN [stream EXCEPT !.at = "done"]
                 ELSE [stream EXCEPT !.out = @ \o p, !.from = p[Len(p)].id + 1]
  /\ UNCHANGED <<persist, clock, tables, lastRsInfoID, req, faults, del>>

-----------------------------------------------------------------------------
(* EventService.DeleteEvent: one transaction.  Each statement sees what is  *)
(* committed when it starts.  The event's other tables are left out.        *)

StartDelete ==
  /\ del.at = "idle" /\ Others < MaxOthers
  /\ del' = [del EXCEPT !.at = "speedmap", !.had = UNION {rows[k] : k \in Kinds}]
  /\ UNCHANGED <<persist, clock, tables, lastRsInfoID, req, faults, stream>>

\* Mutant of AfterDelete: the entries go before the driver data.
AfterDeleteInfosFirst == [speedmap |-> "state", state |-> "infos", driver |-> "event"]

\* The order of the repositories.
AfterDelete == [speedmap |-> "driver", driver |-> "state", state |-> "infos"]

DeleteRows(k) ==
  /\ del.at = k
  /\ del' = [del EXCEPT !.gone[k] = rows[k], !.at = AfterDelete[k]]
  /\ UNCHANGED <<persist, clock, tables, lastRsInfoID, req, faults, stream>>

\* A message that was stored meanwhile still refers to its entry: rollback.
DeleteInfos ==
  /\ del.at = "infos"
  /\ del' = IF \E k \in Kinds : rows[k] # del.gone[k] THEN [del EXCEPT !.at = "failed"]
            ELSE [del EXCEPT !.infos = infos, !.at = "event"]
  /\ UNCHANGED <<persist, clock, tables, lastRsInfoID, req, faults, stream>>

\* Waits for transactions that have inserted an entry of the event; then the
\* event itself, and the commit.
DeleteEvent ==
  /\ del.at = "event" /\ req["state"].at \notin {"assign", "commit"}
  /\ IF infos # del.infos THEN del' = [del EXCEPT !.at = "failed"] /\ UNCHANGED <<infos, rows>>
     ELSE /\ del' = [del EXCEPT !.at = "deleted"]
          /\ infos' = {} /\ rows' = [k \in Kinds |-> {}]
  /\ UNCHANGED <<persist, clock, seqId, lastRsInfoID, req, faults, stream>>

-----------------------------------------------------------------------------
Next ==
  \/ \E k \in Kinds : Publish(k) \/ StoreFails(k) \/ Process(k) \/ DeleteRows(k)
  \/ InsertState \/ AssignLast \/ CommitState \/ ReadLast \/ StoreDriver \/ StoreSpeedmap
  \/ \E k \in Kinds, num \in Nums : StartStream(k, num)
  \/ FetchPage
  \/ StartDelete \/ DeleteInfos \/ DeleteEvent

Spec == Init /\ [][Next]_vars
-----------------------------------------------------------------------------
Row == [id : Nat, ts : Nat]

\* Type invariant.
TypeOK ==
  /\ persist \in BOOLEAN /\ clock \in Nat
  /\ seqId \in Nat /\ infos \subseteq 1 .. seqId /\ rows \in [Kinds -> SUBSET Row]
  /\ lastRsInfoID \in Nat
  /\ req \in [Kinds -> [at : {"idle", "store", "assign", "commit", "row", "process"},
                        ts : Nat, id : Nat]]
  /\ failed \subseteq Nat /\ rolledBack \subseteq Nat
  /\ stream \in [at : {"idle", "fetch", "done"}, kind : Kinds, num : Nat, from : Nat,
                 base : SUBSET Row, out : Seq(Row)]
  /\ del \in [at : {"idle", "speedmap", "driver", "state", "infos", "event", "failed", "deleted"},
              had : SUBSET Row, gone : [Kinds -> SUBSET Row], infos : SUBSET Nat]

(***************************************************************************)
(* LastRsInfoID is set before the commit, so it may name an entry that is  *)
(* not there; but only while that commit is under way, after it failed,    *)
(* and when the event was deleted.  Otherwise the driver data and the      *)
(* speedmaps that come next find the entry they are stored with.           *)
(***************************************************************************)
LastEntryExists ==
  \/ lastRsInfoID \in infos \cup rolledBack \cup {0}
  \/ req["state"].at = "commit" /\ req["state"].id = lastRsInfoID
  \/ Deleted

(***************************************************************************)
(* Read by id, the messages of a kind come in the order they were sent in, *)
(* as the replay needs them.  Driver data that made its own entry while    *)
(* the first state was being stored is the exception: the entry's id may   *)
(* be larger than the state's, to which later driver data is attached.     *)
(***************************************************************************)
IdsFollowTime ==
  \A k \in Kinds : \A a, b \in rows[k] :
    a.ts < b.ts =>
      \/ a.id < b.id
      \/ k # "state" /\ a.id = b.id
      \/ k = "driver" /\ \A s \in rows["state"] : s.id # a.id

(***************************************************************************)
(* However pages and recording interleave, a stream delivers no message    *)
(* twice, keeps the order of the ids and does not exceed its limit.        *)
(* Without limit it leaves out, of what was stored when it began and still *)
(* is, only entries with the same id as an entry it delivered.  (The next  *)
(* page starts behind the last id, so the other driver data of that id is  *)
(* skipped.)  No state has an id in common with another one, so a stream   *)
(* of states is complete.                                                  *)
(***************************************************************************)
StreamOrdered ==
  /\ \A i, j \in DOMAIN stream.out :
       i < j => stream.out[i] # stream.out[j] /\ stream.out[i].id <= stream.out[j].id
  /\ stream.num > 0 => Len(stream.out) <= stream.num

StreamFaithful ==
  /\ StreamOrdered
  /\ (stream.at = "done" /\ stream.num = 0) =>
       \A r \in (stream.base \cap rows[stream.kind]) :
         \E i \in DOMAIN stream.out :
           stream.out[i].id = r.id /\ (stream.kind = "state" => stream.out[i] = r)

(***************************************************************************)
(* The deletion of an event fails only if a message was stored since it    *)
(* began; nothing that was there before stands in its way.                 *)
(***************************************************************************)
DeleteFailsOnNewRows ==
  del.at = "failed" => \E k \in Kinds : ~ (rows[k] \subseteq del.had)
=============================================================================
