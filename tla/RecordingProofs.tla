-------------------------- MODULE RecordingProofs --------------------------
(***************************************************************************)
(* Proofs about Recording, for any bounds, page sizes and limits: the type *)
(* invariant and its four safety properties, by induction over the steps.  *)
(* The argument rests on what the ids mean: they come from one sequence,   *)
(* so a state's is larger than all that were stored before it, and what    *)
(* LastRsInfoID holds is never larger than the last id and never goes back.*)
(* The last section composes them with ReplayProofs: a recomputation that  *)
(* starts over what was recorded finds what that module assumes of the     *)
(* tables, so its guarantees hold of the recording and the replay together.*)
(***************************************************************************)
EXTENDS RecordReplay, FiniteSetTheorems, SequenceTheorems, TLAPS

Request == [at : {"idle", "store", "assign", "commit", "row", "process"}, ts : Nat, id : Nat]
Stream == [at : {"idle", "fetch", "done"}, kind : Kinds, num : Nat, from : Nat,
           base : SUBSET Row, out : Seq(Row)]
Deletion == [at : {"idle", "speedmap", "driver", "state", "infos", "event", "failed", "deleted"},
             had : SUBSET Row, gone : [Kinds -> SUBSET Row], infos : SUBSET Nat]

\* The message of the request of a kind may still be stored.
Pending(k) == req[k].at \in {"store", "assign", "commit", "row"}

\* The transaction of a state that has its id.
Inserting == req["state"].at \in {"assign", "commit"}

\* Driver data with an entry of its own.
Own(r) ==
  /\ \A s \in rows["state"] : s.id # r.id
  /\ Inserting => req["state"].id # r.id

(* The strengthening. *)

\* The ids and the time stamps given so far.
Given ==
  /\ lastRsInfoID <= seqId
  /\ \A k \in Kinds : req[k].ts <= clock
  /\ \A k \in Kinds : \A r \in rows[k] : r.id \in infos /\ r.ts <= clock
  /\ Inserting => req["state"].id \in (1 .. seqId) \ infos

\* A message that is not stored yet is newer than those of its kind, and no
\* other message has its time stamp.
Newest ==
  \A k \in Kinds : Pending(k) =>
    /\ \A r \in rows[k] : r.ts < req[k].ts
    /\ \A l \in Kinds : \A r \in rows[l] : r.ts # req[k].ts
    /\ \A l \in Kinds \ {k} : Pending(l) => req[l].ts # req[k].ts

\* The id of a state under way is behind those of all states, and LastRsInfoID
\* is behind it until it is assigned.
IdsGrow ==
  /\ Inserting => \A r \in rows["state"] : r.id < req["state"].id
  /\ req["state"].at = "assign" => lastRsInfoID < req["state"].id
  /\ req["state"].at = "commit" => lastRsInfoID = req["state"].id
  /\ \A r \in rows["speedmap"] : r.id <= lastRsInfoID
  /\ \A r \in rows["driver"] : r.id <= lastRsInfoID \/ Own(r)
  /\ req["driver"].at = "row" =>
       /\ req["driver"].id <= lastRsInfoID
       /\ \A r \in rows["driver"] : r.id <= req["driver"].id \/ Own(r)

\* What is left of an event that was deleted.
NothingLeft ==
  Deleted => infos = {} /\ (\A k \in Kinds : rows[k] = {}) /\ ~Inserting

\* The kinds whose messages the deletion has deleted.
Emptied == CASE del.at = "driver" -> {"speedmap"}
             [] del.at = "state" -> {"speedmap", "driver"}
             [] del.at \in {"infos", "event"} -> Kinds
             [] OTHER -> {}

\* The deletion knows what there was when it began, and misses no more than
\* what was stored since.
Deleting ==
  del.at \notin {"idle", "deleted"} =>
    /\ \A r \in del.had : \E k \in Kinds : r \in rows[k]
    /\ \A k \in Emptied : del.gone[k] \subseteq rows[k] /\ rows[k] \cap del.had \subseteq del.gone[k]
    /\ del.at = "event" =>
         /\ del.infos \subseteq infos
         /\ \A i \in infos \ del.infos : \E k \in Kinds : \E r \in rows[k] : r.id = i /\ r \notin del.had

\* What a stream has delivered.
Streaming ==
  stream.at # "idle" =>
    /\ Deleted \/ stream.base \subseteq rows[stream.kind]
    /\ \A i \in DOMAIN stream.out : stream.out[i].id < stream.from
    /\ stream.num = 0 =>
         \A r \in stream.base \cap rows[stream.kind] :
           stream.at = "done" \/ r.id < stream.from =>
             \E i \in DOMAIN stream.out :
               stream.out[i].id = r.id /\ (stream.kind = "state" => stream.out[i] = r)

Finite == \A k \in Kinds : IsFiniteSet(rows[k])

IInv ==
  /\ TypeOK /\ Finite /\ Given /\ Newest /\ IdsGrow /\ NothingLeft /\ Deleting /\ Streaming
  /\ StreamOrdered /\ LastEntryExists /\ IdsFollowTime /\ DeleteFailsOnNewRows

-----------------------------------------------------------------------------
(* Facts about single steps.                                                *)

LEMMA GotoFacts ==
  ASSUME TypeOK, NEW k \in Kinds, NEW at \in {"idle", "store", "assign", "commit", "row", "process"},
         Goto(k, at)
  PROVE  /\ req' \in [Kinds -> Request]
         /\ req'[k].at = at /\ req'[k].ts = req[k].ts /\ req'[k].id = req[k].id
         /\ \A l \in Kinds \ {k} : req'[l] = req[l]
<1> DEFINE r == [req[k] EXCEPT !.at = at]
<1>1. req \in [Kinds -> Request] /\ req[k] \in Request
  BY DEF TypeOK, Request
<1>2. r \in Request /\ r.at = at /\ r.ts = req[k].ts /\ r.id = req[k].id
  BY <1>1 DEF Request
<1>3. req' = [req EXCEPT ![k] = r]
  BY DEF Goto
<1> HIDE DEF r
<1> QED
  BY <1>1, <1>2, <1>3

\* What happens to a request, and when its message is stored.
Fields(k, at, ts, id) ==
  /\ req' \in [Kinds -> Request]
  /\ req'[k].at = at /\ req'[k].ts = ts /\ req'[k].id = id
  /\ \A l \in Kinds \ {k} : req'[l] = req[l]

Stores(k, id) ==
  /\ rows' = [rows EXCEPT ![k] = @ \cup {[id |-> id, ts |-> req[k].ts]}]
  /\ UNCHANGED <<del, stream, lastRsInfoID, clock>> /\ ~Deleted

(* The steps as the invariant sees them: what they do to requests, tables   *)
(* and LastRsInfoID.                                                        *)

NewRequest ==
  /\ clock' = clock + 1
  /\ UNCHANGED <<tables, lastRsInfoID, stream, del, rolledBack>>
  /\ \E k \in Kinds, at \in {"store", "process"} :
       req[k].at = "idle" /\ Fields(k, at, clock + 1, 0)

\* A request that is over, or whose message is not stored.
Drops ==
  /\ UNCHANGED <<tables, lastRsInfoID, stream, del, clock>>
  /\ \E k \in Kinds, at \in {"process", "idle"} :
       /\ Fields(k, at, req[k].ts, req[k].id)
       /\ rolledBack \subseteq rolledBack'
       /\ k = "state" /\ req[k].at = "commit" => req[k].id \in rolledBack'

Numbers ==
  /\ req["state"].at = "store" /\ ~Deleted
  /\ seqId' = seqId + 1
  /\ Fields("state", "assign", req["state"].ts, seqId + 1)
  /\ UNCHANGED <<infos, rows, lastRsInfoID, stream, del, clock, rolledBack>>

Assigns ==
  /\ req["state"].at = "assign"
  /\ lastRsInfoID' = req["state"].id
  /\ Fields("state", "commit", req["state"].ts, req["state"].id)
  /\ UNCHANGED <<tables, stream, del, clock, rolledBack>>

StoresState ==
  /\ req["state"].at = "commit"
  /\ Stores("state", req["state"].id)
  /\ infos' = infos \cup {req["state"].id}
  /\ Fields("state", "process", req["state"].ts, req["state"].id)
  /\ UNCHANGED <<seqId, rolledBack>>

ReadsLast ==
  /\ req["driver"].at = "store"
  /\ Fields("driver", "row", req["driver"].ts, lastRsInfoID)
  /\ UNCHANGED <<tables, lastRsInfoID, stream, del, clock, rolledBack>>

\* Driver data or a speedmap is stored with an entry that is there ...
Attaches(k, id) ==
  /\ Pending(k) /\ id \in infos
  /\ del.at = "event" => id \notin del.infos
  /\ Stores(k, id)
  /\ Fields(k, "process", req[k].ts, req[k].id)
  /\ UNCHANGED <<infos, seqId, rolledBack>>

\* ... or driver data with one of its own.
StoresWithOwn ==
  /\ req["driver"].at = "row" /\ lastRsInfoID = 0
  /\ Stores("driver", seqId + 1)
  /\ seqId' = seqId + 1 /\ infos' = infos \cup {seqId + 1}
  /\ Fields("driver", "process", req["driver"].ts, req["driver"].id)
  /\ UNCHANGED rolledBack

\* The tables are read, or messages deleted that others still see.
Looks == UNCHANGED <<tables, lastRsInfoID, req, clock, rolledBack>>

Deletes ==
  /\ del.at = "event" /\ ~Inserting
  /\ del' = [del EXCEPT !.at = "deleted"]
  /\ infos' = {} /\ rows' = [k \in Kinds |-> {}]
  /\ UNCHANGED <<seqId, lastRsInfoID, req, stream, clock, rolledBack>>

StreamStep == (\E k \in Kinds, num \in Nums : StartStream(k, num)) \/ FetchPage

DeleteStep ==
  \/ StartDelete \/ (\E k \in Kinds : DeleteRows(k)) \/ DeleteInfos
  \/ DeleteEvent /\ infos # del.infos

Kept == NewRequest \/ Drops \/ Numbers \/ Assigns \/ ReadsLast

Stored ==
  \/ StoresState \/ StoresWithOwn
  \/ Attaches("speedmap", lastRsInfoID)
  \/ req["driver"].at = "row" /\ lastRsInfoID # 0 /\ Attaches("driver", req["driver"].id)

LEMMA Steps ==
  ASSUME TypeOK, NothingLeft, Next
  PROVE  \/ Kept \/ Stored \/ Deletes
         \/ (StreamStep /\ Looks /\ del' = del) \/ (DeleteStep /\ Looks /\ stream' = stream)
<1> USE DEF Kinds
<1>1. ASSUME NEW k \in Kinds, Publish(k) PROVE NewRequest
  <2>1. \E race \in BOOLEAN :
          req' = [req EXCEPT ![k] = [at |-> IF persist /\ race THEN "store" ELSE "process",
                                     ts |-> clock + 1, id |-> 0]]
    BY <1>1 DEF Publish
  <2>2. PICK at \in {"store", "process"} :
          req' = [req EXCEPT ![k] = [at |-> at, ts |-> clock + 1, id |-> 0]]
    BY <2>1
  <2>3. Fields(k, at, clock + 1, 0)
    BY <2>2 DEF Fields, TypeOK, Request
  <2> QED
    BY <1>1, <2>3 DEF Publish, NewRequest, faults
<1>2. ASSUME NEW k \in Kinds, StoreFails(k) PROVE Drops
  <2>1. Fields(k, "process", req[k].ts, req[k].id)
    BY <1>2, GotoFacts DEF StoreFails, Fields
  <2> QED
    BY <1>2, <2>1 DEF StoreFails, Drops
<1>3. ASSUME NEW k \in Kinds, Process(k) PROVE Drops
  BY <1>3, GotoFacts DEF Process, Fields, Drops, faults
<1>4. ASSUME InsertState PROVE Kept
  <2>1. CASE Deleted
    BY <1>4, <2>1, GotoFacts DEF InsertState, Fields, Drops, Kept, faults, tables
  <2>2. CASE ~Deleted
    <3>1. req' = [req EXCEPT !["state"] = [req["state"] EXCEPT !.at = "assign", !.id = seqId + 1]]
      BY <1>4, <2>2 DEF InsertState
    <3> DEFINE r == [req["state"] EXCEPT !.at = "assign", !.id = seqId + 1]
    <3>a. req["state"] \in Request /\ seqId + 1 \in Nat
      BY DEF TypeOK, Request
    <3>2. r \in Request /\ r.at = "assign" /\ r.ts = req["state"].ts /\ r.id = seqId + 1
      BY <3>a DEF Request
    <3> HIDE DEF r
    <3>3. req' = [req EXCEPT !["state"] = r]
      BY <3>1 DEF r
    <3>4. Fields("state", "assign", req["state"].ts, seqId + 1)
      BY <3>2, <3>3 DEF Fields, TypeOK, Request
    <3> QED
      BY <1>4, <2>2, <3>4 DEF InsertState, Numbers, Kept, faults
  <2> QED
    BY <2>1, <2>2
<1>5. ASSUME AssignLast PROVE Assigns
  BY <1>5, GotoFacts DEF AssignLast, Fields, Assigns, faults
<1>6. ASSUME CommitState PROVE StoresState
  BY <1>6, GotoFacts DEF CommitState, Fields, StoresState, Stores, faults, NothingLeft, Inserting
<1>7. ASSUME ReadLast PROVE ReadsLast
  <2> DEFINE r == [req["driver"] EXCEPT !.at = "row", !.id = lastRsInfoID]
  <2>1. r \in Request /\ r.at = "row" /\ r.ts = req["driver"].ts /\ r.id = lastRsInfoID
    BY DEF TypeOK, Request
  <2>2. req' = [req EXCEPT !["driver"] = r]
    BY <1>7 DEF ReadLast
  <2> HIDE DEF r
  <2>3. Fields("driver", "row", req["driver"].ts, lastRsInfoID)
    BY <2>1, <2>2 DEF Fields, TypeOK, Request
  <2> QED
    BY <1>7, <2>3 DEF ReadLast, ReadsLast, faults
<1>8. ASSUME NEW k \in {"driver", "speedmap"}, NEW id \in Nat, Pending(k), Attach(k, id), Goto(k, "process"),
             UNCHANGED <<clock, lastRsInfoID, faults, stream, del>>
      PROVE  Drops \/ Attaches(k, id)
  <2>1. Fields(k, "process", req[k].ts, req[k].id)
    BY <1>8, GotoFacts DEF Fields
  <2>2. CASE id \notin infos
    <3>1. UNCHANGED tables /\ rolledBack' = rolledBack
      BY <1>8, <2>2 DEF Attach, tables, faults
    <3>2. UNCHANGED <<tables, lastRsInfoID, stream, del, clock>> /\ k # "state"
      BY <1>8, <3>1
    <3> QED
      BY <2>1, <3>1, <3>2 DEF Drops
  <2>3. CASE id \in infos
    <3>1. ~Deleted
      BY <2>3 DEF NothingLeft
    <3> QED
      BY <1>8, <2>1, <2>3, <3>1 DEF Attach, Attaches, Stores, faults
  <2> QED
    BY <2>2, <2>3
<1>9. ASSUME StoreDriver PROVE Kept \/ Stored
  <2>1. Pending("driver") /\ req["driver"].id \in Nat
    BY <1>9 DEF StoreDriver, Pending, TypeOK
  <2>2. CASE lastRsInfoID # 0
    BY <1>9, <1>8, <2>1, <2>2 DEF StoreDriver, Kept, Stored
  <2>3. CASE lastRsInfoID = 0
    <3>1. Fields("driver", "process", req["driver"].ts, req["driver"].id)
      BY <1>9, GotoFacts DEF Fields, StoreDriver
    <3>2. CASE Deleted
      BY <1>9, <2>3, <3>1, <3>2 DEF StoreDriver, AttachToDummy, Kept, Drops, faults, tables
    <3>3. CASE ~Deleted
      BY <1>9, <2>3, <3>1, <3>3 DEF StoreDriver, AttachToDummy, Stored, Stores, StoresWithOwn, faults
    <3> QED
      BY <3>2, <3>3
  <2> QED
    BY <2>2, <2>3
<1>10. ASSUME StoreSpeedmap PROVE Kept \/ Stored
  BY <1>10, <1>8 DEF StoreSpeedmap, Pending, Kept, Stored, TypeOK
<1>11. ASSUME StreamStep PROVE Looks /\ del' = del
  BY <1>11 DEF StreamStep, StartStream, FetchPage, Looks, faults, tables
<1>12. ASSUME StartDelete \/ (\E k \in Kinds : DeleteRows(k)) \/ DeleteInfos \/ DeleteEvent
       PROVE  Deletes \/ (DeleteStep /\ Looks /\ stream' = stream)
  BY <1>12 DEF DeleteStep, StartDelete, DeleteRows, DeleteInfos, DeleteEvent, Deletes, Looks, faults, tables, Inserting
<1> QED
  BY <1>1, <1>2, <1>3, <1>4, <1>5, <1>6, <1>7, <1>9, <1>10, <1>11, <1>12 DEF Next, StreamStep, Kept, Stored, DeleteStep

\* What is common to the ways in which a message r of kind k is stored.
Adds(k, r) ==
  /\ Pending(k) /\ r.ts = req[k].ts /\ ~Deleted
  /\ rows' = [rows EXCEPT ![k] = @ \cup {r}]
  /\ infos' = infos \cup {r.id} /\ r.id \in 1 .. seqId'
  /\ seqId' \in Nat /\ seqId <= seqId'
  /\ Fields(k, "process", req[k].ts, req[k].id)
  /\ UNCHANGED <<del, stream, lastRsInfoID, clock, rolledBack>>
  /\ k = "state" => req[k].at = "commit" /\ r.id = req[k].id
  /\ k # "state" => r.id \in infos \/ (r.id = seqId + 1 /\ seqId' = seqId + 1)
  /\ k = "speedmap" => r.id = lastRsInfoID
  /\ k = "driver" =>
       \/ lastRsInfoID = 0 /\ r.id = seqId + 1
       \/ req[k].at = "row" /\ r.id = req[k].id /\ lastRsInfoID # 0

LEMMA StoredAdds ==
  ASSUME TypeOK, Given, Stored
  PROVE  \E k \in Kinds, r \in Row : Adds(k, r)
<1> USE DEF Kinds
<1>1. CASE StoresState
  <2> DEFINE r == [id |-> req["state"].id, ts |-> req["state"].ts]
  <2>1. r \in Row
    BY DEF Row, TypeOK
  <2>2. Adds("state", r)
    BY <1>1 DEF StoresState, Stores, Adds, Pending, Inserting, Given, TypeOK
  <2> QED
    BY <2>1, <2>2
<1>2. CASE StoresWithOwn
  <2> DEFINE r == [id |-> seqId + 1, ts |-> req["driver"].ts]
  <2>1. r \in Row
    BY DEF Row, TypeOK
  <2>2. Adds("driver", r)
    BY <1>2 DEF StoresWithOwn, Stores, Adds, Pending, TypeOK
  <2> QED
    BY <2>1, <2>2
<1>3. CASE Attaches("speedmap", lastRsInfoID)
  <2> DEFINE r == [id |-> lastRsInfoID, ts |-> req["speedmap"].ts]
  <2>1. r \in Row
    BY DEF Row, TypeOK
  <2>2. Adds("speedmap", r)
    BY <1>3 DEF Attaches, Stores, Adds, TypeOK
  <2> QED
    BY <2>1, <2>2
<1>4. CASE req["driver"].at = "row" /\ lastRsInfoID # 0 /\ Attaches("driver", req["driver"].id)
  <2> DEFINE r == [id |-> req["driver"].id, ts |-> req["driver"].ts]
  <2>1. r \in Row
    BY DEF Row, TypeOK
  <2>2. Adds("driver", r)
    BY <1>4 DEF Attaches, Stores, Adds, TypeOK
  <2> QED
    BY <2>1, <2>2
<1> QED
  BY <1>1, <1>2, <1>3, <1>4 DEF Stored

\* The cases of every step.
Change ==
  \/ UNCHANGED vars
  \/ Kept \/ (\E k \in Kinds, r \in Row : Adds(k, r)) \/ Deletes
  \/ (StreamStep /\ Looks /\ del' = del) \/ (DeleteStep /\ Looks /\ stream' = stream)

LEMMA Changes == IInv /\ [Next]_vars => Change
  BY Steps, StoredAdds DEF IInv, Change

\* What the steps of a deletion do.
LEMMA DeleteFields ==
  ASSUME TypeOK, DeleteStep
  PROVE  /\ del' \in Deletion
         /\ \/ /\ StartDelete /\ del.at = "idle" /\ del'.at = "speedmap"
               /\ del'.had = UNION {rows[k] : k \in Kinds} /\ del'.gone = del.gone
            \/ /\ \E k \in Kinds : /\ del.at = k /\ del'.at = AfterDelete[k] /\ del'.gone[k] = rows[k]
                                   /\ \A l \in Kinds \ {k} : del'.gone[l] = del.gone[l]
               /\ del'.had = del.had /\ del'.infos = del.infos
            \/ /\ del.at = "infos" /\ del'.had = del.had /\ del'.gone = del.gone
               /\ \/ del'.at = "failed" /\ \E k \in Kinds : rows[k] # del.gone[k]
                  \/ del'.at = "event" /\ del'.infos = infos
            \/ /\ del.at = "event" /\ infos # del.infos /\ del'.at = "failed"
               /\ del'.had = del.had /\ del'.gone = del.gone
<1> USE DEF Kinds
<1>0. /\ del \in Deletion /\ rows \in [Kinds -> SUBSET Row] /\ infos \in SUBSET Nat
      /\ UNION {rows[k] : k \in Kinds} \in SUBSET Row
  BY DEF TypeOK, Deletion
<1>1. CASE StartDelete
  BY <1>0, <1>1 DEF StartDelete, Deletion
<1>2. ASSUME NEW k \in Kinds, DeleteRows(k)
      PROVE  /\ del' \in Deletion /\ del.at = k /\ del'.at = AfterDelete[k] /\ del'.gone[k] = rows[k]
             /\ \A l \in Kinds \ {k} : del'.gone[l] = del.gone[l]
             /\ del'.had = del.had /\ del'.infos = del.infos
  <2>1. AfterDelete[k] \in {"driver", "state", "infos"}
    BY DEF AfterDelete
  <2>2. [del.gone EXCEPT ![k] = rows[k]] \in [Kinds -> SUBSET Row]
    BY <1>0 DEF Deletion
  <2> DEFINE g == [del.gone EXCEPT ![k] = rows[k]]
             a == AfterDelete[k]
  <2>3. g[k] = rows[k] /\ \A l \in Kinds \ {k} : g[l] = del.gone[l]
    BY <1>0 DEF Deletion
  <2>4. del' = [del EXCEPT !.gone = g, !.at = a]
    BY <1>2, <1>0 DEF DeleteRows
  <2> HIDE DEF g, a
  <2>5. del' \in Deletion /\ del'.at = a /\ del'.gone = g /\ del'.had = del.had /\ del'.infos = del.infos
    BY <1>0, <2>1, <2>2, <2>4 DEF Deletion, g, a
  <2> QED
    BY <1>2, <2>3, <2>5 DEF DeleteRows, a
<1>3. CASE DeleteInfos
  BY <1>0, <1>3 DEF DeleteInfos, Deletion
<1>4. CASE DeleteEvent /\ infos # del.infos
  BY <1>0, <1>4 DEF DeleteEvent, Deletion
<1> QED
  BY <1>1, <1>2, <1>3, <1>4 DEF DeleteStep

-----------------------------------------------------------------------------
(* The parts of the invariant, one by one.                                  *)

LEMMA GivenStep ==
  ASSUME IInv, Change
  PROVE  Given'
<1> USE DEF Kinds, Inserting
<1>0. TypeOK /\ Given
  BY DEF IInv
<1>1. CASE NewRequest
  <2>1. PICK k \in Kinds, at \in {"store", "process"} : Fields(k, at, clock + 1, 0)
    BY <1>1 DEF NewRequest
  <2>2. clock \in Nat /\ clock' = clock + 1 /\ UNCHANGED <<seqId, infos, rows, lastRsInfoID>>
    BY <1>0, <1>1 DEF NewRequest, TypeOK, tables
  <2>3. \A l \in Kinds : req'[l].ts <= clock'
    BY <1>0, <2>1, <2>2 DEF Fields, TypeOK, Given
  <2>4. \A l \in Kinds : \A r \in rows'[l] : r.id \in infos' /\ r.ts <= clock'
    BY <1>0, <2>2 DEF TypeOK, Given, Row
  <2>5. Inserting' => Inserting /\ req'["state"].id = req["state"].id
    BY <2>1 DEF Fields
  <2> QED
    BY <1>0, <2>2, <2>3, <2>4, <2>5 DEF Given
<1>2. CASE Drops
  BY <1>0, <1>2 DEF Drops, Fields, TypeOK, Given, tables
<1>3. CASE Numbers
  BY <1>0, <1>3 DEF Numbers, Fields, TypeOK, Given
<1>4. CASE Assigns
  BY <1>0, <1>4 DEF Assigns, Fields, TypeOK, Given, tables
<1>5. CASE ReadsLast
  BY <1>0, <1>5 DEF ReadsLast, Fields, TypeOK, Given, tables
<1>6. ASSUME NEW k \in Kinds, NEW r \in Row, Adds(k, r) PROVE Given'
  <2>1. /\ clock' = clock /\ lastRsInfoID' = lastRsInfoID /\ clock \in Nat
        /\ seqId \in Nat /\ lastRsInfoID \in Nat /\ seqId' \in Nat /\ seqId <= seqId'
        /\ infos' = infos \cup {r.id} /\ r.ts = req[k].ts
        /\ rows'[k] = rows[k] \cup {r} /\ \A l \in Kinds \ {k} : rows'[l] = rows[l]
    BY <1>0, <1>6 DEF Adds, TypeOK
  <2>2. /\ req'[k].at = "process" /\ req'[k].ts = req[k].ts
        /\ \A l \in Kinds \ {k} : req'[l] = req[l]
    BY <1>6 DEF Adds, Fields
  <2>3. lastRsInfoID' <= seqId'
    BY <1>0, <2>1 DEF Given
  <2>4. \A l \in Kinds : req'[l].ts <= clock'
    BY <1>0, <2>1, <2>2 DEF Given
  <2>5. \A l \in Kinds : \A s \in rows'[l] : s.id \in infos' /\ s.ts <= clock'
    BY <1>0, <2>1 DEF Given
  <2>6. ASSUME Inserting' PROVE req'["state"].id \in (1 .. seqId') \ infos'
    <3>1. k # "state" /\ req'["state"] = req["state"] /\ Inserting
      BY <2>2, <2>6
    <3>2. req["state"].id \in (1 .. seqId) \ infos
      BY <1>0, <3>1 DEF Given
    <3>3. r.id \in infos \/ r.id = seqId + 1
      BY <1>6, <3>1 DEF Adds
    <3> QED
      BY <2>1, <3>1, <3>2, <3>3
  <2> QED
    BY <2>3, <2>4, <2>5, <2>6 DEF Given
<1>7. CASE Deletes
  BY <1>0, <1>7 DEF Deletes, TypeOK, Given
<1>8. CASE Looks \/ UNCHANGED vars
  BY <1>0, <1>8 DEF Looks, vars, TypeOK, Given, tables
<1> QED
  BY <1>1, <1>2, <1>3, <1>4, <1>5, <1>6, <1>7, <1>8 DEF Change, Kept

LEMMA NewestStep ==
  ASSUME IInv, Change
  PROVE  Newest'
<1> USE DEF Kinds, Pending
<1>0. TypeOK /\ Given /\ Newest
  BY DEF IInv
<1>1. CASE NewRequest
  <2>1. PICK k \in Kinds, at \in {"store", "process"} : Fields(k, at, clock + 1, 0)
    BY <1>1 DEF NewRequest
  <2>2. /\ req'[k].ts = clock + 1 /\ \A l \in Kinds \ {k} : req'[l] = req[l]
        /\ UNCHANGED rows /\ clock \in Nat
    BY <1>0, <1>1, <2>1 DEF NewRequest, Fields, TypeOK, tables
  <2>3. /\ \A l \in Kinds : req[l].ts \in Nat /\ req[l].ts < clock + 1
        /\ \A l \in Kinds : \A r \in rows[l] : r.ts \in Nat /\ r.ts < clock + 1
    BY <1>0, <2>2 DEF TypeOK, Given, Row
  <2> SUFFICES ASSUME NEW l \in Kinds, Pending(l)'
               PROVE  /\ \A r \in rows[l] : r.ts < req'[l].ts
                      /\ \A h \in Kinds : \A r \in rows[h] : r.ts # req'[l].ts
                      /\ \A h \in Kinds \ {l} : Pending(h)' => req'[h].ts # req'[l].ts
    BY <2>2 DEF Newest
  <2>4. CASE l = k
    BY <2>2, <2>3, <2>4
  <2>5. CASE l # k
    <3>1. Pending(l) /\ req'[l] = req[l]
      BY <2>2, <2>5
    <3>2. \A h \in Kinds \ {l} : Pending(h)' => req'[h].ts # req[l].ts
      BY <1>0, <2>2, <2>3, <3>1 DEF Newest
    <3> QED
      BY <1>0, <3>1, <3>2 DEF Newest
  <2> QED
    BY <2>4, <2>5
<1>2. CASE Drops
  BY <1>0, <1>2 DEF Drops, Fields, TypeOK, Newest, tables
<1>3. CASE Numbers
  BY <1>0, <1>3 DEF Numbers, Fields, TypeOK, Newest
<1>4. CASE Assigns
  BY <1>0, <1>4 DEF Assigns, Fields, TypeOK, Newest, tables
<1>5. CASE ReadsLast
  BY <1>0, <1>5 DEF ReadsLast, Fields, TypeOK, Newest, tables
<1>6. ASSUME NEW k \in Kinds, NEW r \in Row, Adds(k, r) PROVE Newest'
  <2>1. /\ r.ts = req[k].ts /\ Pending(k) /\ req'[k].at = "process"
        /\ rows'[k] = rows[k] \cup {r} /\ \A l \in Kinds \ {k} : rows'[l] = rows[l]
        /\ \A l \in Kinds \ {k} : req'[l] = req[l]
    BY <1>0, <1>6 DEF Adds, Fields, TypeOK
  <2> SUFFICES ASSUME NEW l \in Kinds, Pending(l)'
               PROVE  /\ \A s \in rows'[l] : s.ts < req'[l].ts
                      /\ \A h \in Kinds : \A s \in rows'[h] : s.ts # req'[l].ts
                      /\ \A h \in Kinds \ {l} : Pending(h)' => req'[h].ts # req'[l].ts
    BY DEF Newest
  <2>2. l # k /\ Pending(l) /\ req'[l] = req[l] /\ rows'[l] = rows[l]
    BY <2>1
  <2>3. /\ \A s \in rows[l] : s.ts < req[l].ts
        /\ \A h \in Kinds : \A s \in rows[h] : s.ts # req[l].ts
        /\ \A h \in Kinds \ {l} : Pending(h) => req[h].ts # req[l].ts
    BY <1>0, <2>2 DEF Newest
  <2>4. \A h \in Kinds : \A s \in rows'[h] : s.ts # req[l].ts
    BY <2>1, <2>2, <2>3
  <2>5. \A h \in Kinds \ {l} : Pending(h)' => req'[h].ts # req[l].ts
    BY <2>1, <2>3
  <2> QED
    BY <2>2, <2>3, <2>4, <2>5
<1>7. CASE Deletes
  BY <1>0, <1>7 DEF Deletes, TypeOK, Newest
<1>8. CASE Looks \/ UNCHANGED vars
  BY <1>0, <1>8 DEF Looks, vars, TypeOK, Newest, tables
<1> QED
  BY <1>1, <1>2, <1>3, <1>4, <1>5, <1>6, <1>7, <1>8 DEF Change, Kept

LEMMA IdsGrowStep ==
  ASSUME IInv, Change
  PROVE  IdsGrow'
<1> USE DEF Kinds, Inserting, Own
<1>0. TypeOK /\ Given /\ IdsGrow
  BY DEF IInv
<1>1. CASE NewRequest
  <2>1. PICK k \in Kinds, at \in {"store", "process"} : Fields(k, at, clock + 1, 0)
    BY <1>1 DEF NewRequest
  <2>2. /\ req'[k].at = at /\ \A l \in Kinds \ {k} : req'[l] = req[l]
        /\ UNCHANGED rows /\ UNCHANGED lastRsInfoID
    BY <1>1, <2>1 DEF NewRequest, Fields, tables
  <2>3. Inserting' => k # "state" /\ Inserting
    BY <2>2
  <2>4. \A r \in rows["driver"] : Own(r) => Own(r)'
    BY <2>2, <2>3
  <2>5. req'["state"].at \in {"assign", "commit"} => req'["state"] = req["state"]
    BY <2>2
  <2>6. req'["driver"].at = "row" => req'["driver"] = req["driver"]
    BY <2>2
  <2> QED
    BY <1>0, <2>2, <2>4, <2>5, <2>6 DEF IdsGrow
<1>2. CASE Drops
  BY <1>0, <1>2 DEF Drops, Fields, TypeOK, IdsGrow, tables
<1>a. seqId \in Nat /\ lastRsInfoID \in Nat /\ \A k \in Kinds : \A r \in rows[k] : r.id \in Nat /\ r.id <= seqId
  BY <1>0 DEF TypeOK, Given, Row
<1>3. CASE Numbers
  <2>1. req'["state"].at = "assign" /\ req'["state"].id = seqId + 1 /\ req'["driver"] = req["driver"]
    BY <1>3 DEF Numbers, Fields
  <2>2. UNCHANGED <<rows, lastRsInfoID>> /\ ~Inserting
    BY <1>3 DEF Numbers
  <2>3. \A r \in rows["driver"] : Own(r) => Own(r)'
    BY <1>a, <2>1, <2>2
  <2> QED
    BY <1>0, <1>a, <2>1, <2>2, <2>3 DEF Given, IdsGrow
<1>4. CASE Assigns
  <2>1. /\ req'["state"].at = "commit" /\ req'["state"].id = req["state"].id /\ req'["driver"] = req["driver"]
        /\ lastRsInfoID' = req["state"].id /\ req["state"].id \in Nat /\ Inserting
    BY <1>0, <1>4 DEF Assigns, Fields, Given
  <2>2. UNCHANGED rows
    BY <1>4 DEF Assigns, tables
  <2>3. lastRsInfoID < lastRsInfoID'
    BY <1>0, <1>4, <2>1 DEF Assigns, IdsGrow
  <2>4. \A r \in rows["driver"] : Own(r) => Own(r)'
    BY <2>1, <2>2
  <2>5. req["driver"].id \in Nat
    BY <1>0 DEF TypeOK
  <2> QED
    BY <1>0, <1>a, <2>1, <2>2, <2>3, <2>4, <2>5 DEF IdsGrow
<1>5. CASE ReadsLast
  BY <1>0, <1>5 DEF ReadsLast, Fields, TypeOK, IdsGrow, tables, Row
<1>6. ASSUME NEW k \in Kinds, NEW r \in Row, Adds(k, r) PROVE IdsGrow'
  <2>0. /\ r.id \in Nat /\ lastRsInfoID' = lastRsInfoID /\ req["driver"].id \in Nat
        /\ \A l \in Kinds \ {k} : rows'[l] = rows[l] /\ req'[l] = req[l]
        /\ rows'[k] = rows[k] \cup {r} /\ req'[k].at = "process"
    BY <1>0, <1>6 DEF Adds, Fields, TypeOK, Row
  <2>1. CASE k = "state"
    <3>1. r.id = lastRsInfoID /\ ~Inserting' /\ Inserting /\ r.id = req["state"].id
      BY <1>0, <1>6, <2>0, <2>1 DEF Adds, IdsGrow
    <3>2. \A q \in rows["driver"] : Own(q) => Own(q)'
      BY <2>0, <2>1, <3>1
    <3> QED
      BY <1>0, <2>0, <2>1, <3>1, <3>2 DEF IdsGrow
  <2>2. CASE k = "speedmap"
    <3>1. r.id = lastRsInfoID
      BY <1>6, <2>2 DEF Adds
    <3> QED
      BY <1>0, <2>0, <2>2, <3>1 DEF IdsGrow
  <2>3. CASE k = "driver"
    <3>1. \A q : Own(q) => Own(q)'
      BY <2>0, <2>3
    <3>2. r.id = seqId + 1 => Own(r)
      BY <1>0, <1>a DEF Given
    <3>3. r.id <= lastRsInfoID \/ Own(r)
      BY <1>0, <1>6, <2>0, <2>3, <3>2 DEF Adds, IdsGrow
    <3> QED
      BY <1>0, <2>0, <2>3, <3>1, <3>3 DEF IdsGrow
  <2> QED
    BY <2>1, <2>2, <2>3
<1>7. CASE Deletes
  BY <1>0, <1>7 DEF Deletes, TypeOK, IdsGrow
<1>8. CASE Looks \/ UNCHANGED vars
  BY <1>0, <1>8 DEF Looks, vars, TypeOK, IdsGrow, tables
<1> QED
  BY <1>1, <1>2, <1>3, <1>4, <1>5, <1>6, <1>7, <1>8 DEF Change, Kept

LEMMA NothingLeftStep ==
  ASSUME IInv, Change
  PROVE  NothingLeft'
<1> USE DEF Kinds, Inserting, Deleted
<1>0. TypeOK /\ NothingLeft
  BY DEF IInv
<1>1. CASE NewRequest \/ Drops \/ Numbers \/ Assigns \/ ReadsLast
  BY <1>0, <1>1 DEF NewRequest, Drops, Numbers, Assigns, ReadsLast, Fields, TypeOK, NothingLeft, tables
<1>2. ASSUME NEW k \in Kinds, NEW r \in Row, Adds(k, r) PROVE NothingLeft'
  BY <1>2 DEF Adds, NothingLeft
<1>3. CASE Deletes
  BY <1>3 DEF Deletes, NothingLeft
<1>4. CASE (StreamStep /\ Looks /\ del' = del) \/ UNCHANGED vars
  BY <1>0, <1>4 DEF Looks, vars, NothingLeft, tables
<1>5. CASE DeleteStep /\ Looks
  <2>1. del'.at # "deleted"
    <3>1. \A k \in Kinds : AfterDelete[k] # "deleted"
      BY DEF AfterDelete
    <3> QED
      BY <1>0, <1>5, <3>1, DeleteFields
  <2> QED
    BY <2>1 DEF NothingLeft
<1> QED
  BY <1>1, <1>2, <1>3, <1>4, <1>5 DEF Change, Kept

LEMMA LastEntryExistsStep ==
  ASSUME IInv, Change
  PROVE  LastEntryExists'
<1> USE DEF Kinds, Inserting, Deleted
<1>0. TypeOK /\ IdsGrow /\ LastEntryExists /\ NothingLeft'
  BY NothingLeftStep DEF IInv
<1>1. CASE NewRequest \/ Numbers \/ Assigns \/ ReadsLast
  BY <1>0, <1>1 DEF NewRequest, Numbers, Assigns, ReadsLast, Fields, TypeOK, LastEntryExists, tables
<1>2. CASE Drops
  BY <1>0, <1>2 DEF Drops, Fields, TypeOK, LastEntryExists, tables
<1>3. ASSUME NEW k \in Kinds, NEW r \in Row, Adds(k, r) PROVE LastEntryExists'
  BY <1>0, <1>3 DEF Adds, Fields, LastEntryExists
<1>4. CASE Deletes
  BY <1>0, <1>4 DEF Deletes, LastEntryExists, TypeOK
<1>5. CASE (StreamStep /\ Looks /\ del' = del) \/ UNCHANGED vars
  BY <1>0, <1>5 DEF Looks, vars, LastEntryExists, tables, faults
<1>6. CASE DeleteStep /\ Looks
  <2>1. ~Deleted
    BY <1>6 DEF DeleteStep, StartDelete, DeleteRows, DeleteInfos, DeleteEvent
  <2> QED
    BY <1>0, <1>6, <2>1 DEF Looks, LastEntryExists, tables
<1> QED
  BY <1>1, <1>2, <1>3, <1>4, <1>5, <1>6 DEF Change, Kept

LEMMA IdsFollowTimeStep ==
  ASSUME IInv, Change
  PROVE  IdsFollowTime'
<1> USE DEF Kinds
<1>0. TypeOK /\ Given /\ Newest /\ IdsGrow /\ IdsFollowTime
  BY DEF IInv
<1>1. CASE UNCHANGED rows
  BY <1>0, <1>1 DEF IdsFollowTime
<1>2. CASE Deletes
  BY <1>2 DEF Deletes, IdsFollowTime
<1>3. ASSUME NEW k \in Kinds, NEW r \in Row, Adds(k, r) PROVE IdsFollowTime'
  <2>0. /\ r.id \in Nat /\ r.ts \in Nat
        /\ \A l \in Kinds \ {k} : rows'[l] = rows[l]
        /\ rows'[k] = rows[k] \cup {r}
        /\ \A q \in rows[k] : q \in Row /\ q.id \in Nat /\ q.ts \in Nat
    BY <1>0, <1>3 DEF Adds, TypeOK, Row
  <2>1. \A q \in rows[k] : q.ts < r.ts
    BY <1>0, <1>3 DEF Adds, Newest
  <2>2. \A q \in rows[k] :
          \/ q.id < r.id
          \/ k # "state" /\ q.id = r.id
          \/ k = "driver" /\ Own(q)
    <3>1. CASE k = "state"
      BY <1>0, <1>3, <3>1 DEF Adds, IdsGrow, Inserting
    <3>2. CASE k = "speedmap"
      BY <1>0, <1>3, <2>0, <3>2 DEF Adds, IdsGrow, TypeOK
    <3>3. CASE k = "driver"
      BY <1>0, <1>3, <2>0, <3>3 DEF Adds, IdsGrow, TypeOK
    <3> QED
      BY <3>1, <3>2, <3>3
  <2>3. CASE k = "state"
    <3>1. r.id \notin infos
      BY <1>0, <1>3, <2>3 DEF Adds, Given, Inserting
    <3>2. \A q \in rows["driver"] : q.id # r.id
      BY <1>0, <3>1 DEF Given
    <3> QED
      BY <1>0, <2>0, <2>1, <2>2, <2>3, <3>2 DEF IdsFollowTime
  <2>4. CASE k # "state"
    BY <1>0, <2>0, <2>1, <2>2, <2>4 DEF IdsFollowTime, Own
  <2> QED
    BY <2>3, <2>4
<1> QED
  BY <1>1, <1>2, <1>3 DEF Change, Kept, NewRequest, Drops, Numbers, Assigns, ReadsLast, Looks, tables, vars

\* Rows are only added as long as the event is not deleted.
LEMMA RowsGrow ==
  ASSUME TypeOK, Change, ~Deletes
  PROVE  \A k \in Kinds : rows[k] \subseteq rows'[k] /\ infos \subseteq infos'
<1>1. ASSUME NEW k \in Kinds, NEW r \in Row, Adds(k, r)
      PROVE  infos \subseteq infos' /\ \A l \in Kinds : rows[l] \subseteq rows'[l]
  BY <1>1 DEF Adds, TypeOK
<1> QED
  BY <1>1 DEF Change, Kept, NewRequest, Drops, Numbers, Assigns, ReadsLast, Looks, tables, vars

LEMMA DeletingStep ==
  ASSUME IInv, Change
  PROVE  Deleting'
<1> USE DEF Kinds
<1>0. TypeOK /\ Given /\ Newest /\ Deleting
  BY DEF IInv
<1>1. CASE UNCHANGED <<rows, infos, del>>
  BY <1>0, <1>1 DEF Deleting, Emptied
<1>2. ASSUME NEW k \in Kinds, NEW r \in Row, Adds(k, r) PROVE Deleting'
  <2>0. /\ del' = del /\ Pending(k) /\ r.ts = req[k].ts /\ infos' = infos \cup {r.id}
        /\ \A l \in Kinds \ {k} : rows'[l] = rows[l]
        /\ rows'[k] = rows[k] \cup {r}
    BY <1>0, <1>2 DEF Adds, TypeOK
  <2>1. CASE del.at \in {"idle", "deleted"}
    BY <2>0, <2>1 DEF Deleting
  <2>2. CASE del.at \notin {"idle", "deleted"}
    <3>1. r \notin del.had
      BY <1>0, <2>0, <2>2 DEF Deleting, Newest
    <3>2. Emptied' = Emptied
      BY <2>0 DEF Emptied
    <3>3. \A q \in del.had : \E l \in Kinds : q \in rows'[l]
      BY <1>0, <2>0, <2>2 DEF Deleting
    <3>4. \A l \in Emptied : del.gone[l] \subseteq rows'[l] /\ rows'[l] \cap del.had \subseteq del.gone[l]
      <4>1. Emptied \subseteq Kinds
        BY DEF Emptied
      <4> QED
        BY <1>0, <2>0, <2>2, <3>1, <4>1 DEF Deleting
    <3>5. ASSUME del.at = "event"
          PROVE  /\ del.infos \subseteq infos'
                 /\ \A i \in infos' \ del.infos : \E l \in Kinds : \E q \in rows'[l] : q.id = i /\ q \notin del.had
      <4>1. ASSUME NEW i \in infos \ del.infos
            PROVE  \E l \in Kinds : \E q \in rows'[l] : q.id = i /\ q \notin del.had
        <5>1. PICK l \in Kinds : \E q \in rows[l] : q.id = i /\ q \notin del.had
          BY <1>0, <2>2, <3>5 DEF Deleting
        <5> QED
          BY <2>0, <5>1
      <4> QED
        BY <1>0, <2>0, <2>2, <3>1, <3>5, <4>1 DEF Deleting
    <3> QED
      BY <2>0, <3>2, <3>3, <3>4, <3>5 DEF Deleting
  <2> QED
    BY <2>1, <2>2
<1>3. CASE Deletes
  BY <1>0, <1>3 DEF Deletes, Deleting, TypeOK
<1>4. CASE DeleteStep /\ Looks
  <2>0. UNCHANGED <<rows, infos>> /\ rows \in [Kinds -> SUBSET Row]
    BY <1>0, <1>4 DEF Looks, tables, TypeOK
  <2>1. CASE StartDelete /\ del'.at = "speedmap" /\ del'.had = UNION {rows[k] : k \in Kinds}
    BY <2>0, <2>1 DEF Deleting, Emptied
  <2>2. ASSUME NEW k \in Kinds, del.at = k, del'.at = AfterDelete[k], del'.gone[k] = rows[k],
               \A l \in Kinds \ {k} : del'.gone[l] = del.gone[l], del'.had = del.had
        PROVE  Deleting'
    <3>1. Emptied' = Emptied \cup {k} /\ Emptied \subseteq Kinds /\ del'.at # "event"
      BY <2>2 DEF Emptied, AfterDelete
    <3> QED
      BY <1>0, <2>0, <2>2, <3>1 DEF Deleting
  <2>3. CASE /\ del.at = "infos" /\ del'.had = del.had /\ del'.gone = del.gone
             /\ del'.at = "failed" \/ (del'.at = "event" /\ del'.infos = infos)
    BY <1>0, <2>0, <2>3 DEF Deleting, Emptied
  <2>4. CASE del.at = "event" /\ del'.at = "failed" /\ del'.had = del.had /\ del'.gone = del.gone
    BY <1>0, <2>0, <2>4 DEF Deleting, Emptied
  <2> QED
    BY <1>0, <1>4, <2>1, <2>2, <2>3, <2>4, DeleteFields
<1> QED
  BY <1>1, <1>2, <1>3, <1>4 DEF Change, Kept, NewRequest, Drops, Numbers, Assigns, ReadsLast, Looks, tables, vars

LEMMA DeleteFailsStep ==
  ASSUME IInv, Change
  PROVE  DeleteFailsOnNewRows'
<1> USE DEF Kinds
<1>0. TypeOK /\ Deleting /\ DeleteFailsOnNewRows
  BY DEF IInv
<1>1. CASE del' = del /\ ~Deletes
  <2>1. \A k \in Kinds : rows[k] \subseteq rows'[k]
    BY <1>0, <1>1, RowsGrow
  <2> QED
    BY <1>0, <1>1, <2>1 DEF DeleteFailsOnNewRows
<1>2. CASE Deletes
  BY <1>0, <1>2 DEF Deletes, DeleteFailsOnNewRows, TypeOK
<1>3. CASE DeleteStep /\ Looks
  <2>0. UNCHANGED <<rows, infos>>
    BY <1>3 DEF Looks, tables
  <2>1. CASE del.at = "infos" /\ del'.had = del.had /\ \E k \in Kinds : rows[k] # del.gone[k]
    BY <1>0, <2>0, <2>1 DEF Deleting, Emptied, DeleteFailsOnNewRows
  <2>2. CASE del.at = "event" /\ del'.had = del.had /\ infos # del.infos
    <3>1. PICK i \in infos \ del.infos : TRUE
      BY <1>0, <2>2 DEF Deleting
    <3> QED
      BY <1>0, <2>0, <2>2, <3>1 DEF Deleting, DeleteFailsOnNewRows
  <2>3. CASE del'.at # "failed"
    BY <2>3 DEF DeleteFailsOnNewRows
  <2>4. \A k \in Kinds : AfterDelete[k] # "failed"
    BY DEF AfterDelete
  <2> QED
    BY <1>0, <1>3, <2>1, <2>2, <2>3, <2>4, DeleteFields
<1> QED
  BY <1>1, <1>2, <1>3 DEF Change, Kept, NewRequest, Drops, Numbers, Assigns, ReadsLast, Adds, vars

-----------------------------------------------------------------------------
(* The streams.                                                             *)

LEMMA RowFacts ==
  ASSUME NEW o \in Seq(Row)
  PROVE  /\ \A i \in DOMAIN o : o[i] \in Row /\ o[i].id \in Nat /\ o[i].ts \in Nat
         /\ o # <<>> => Len(o) \in DOMAIN o
<1>1. \A i \in DOMAIN o : o[i] \in Row
  OBVIOUS
<1>2. \A r \in Row : r.id \in Nat /\ r.ts \in Nat
  BY DEF Row
<1> QED
  BY <1>1, <1>2

\* What a page has, of the rows S.
LEMMA PagesFacts ==
  ASSUME NEW S \in SUBSET Row, IsFiniteSet(S), NEW f \in Nat, NEW n \in Nat, NEW p \in Pages(S, f, n)
  PROVE  /\ p \in Seq(Row) /\ Len(p) \in Nat /\ Len(p) <= n /\ DOMAIN p = 1 .. Len(p)
         /\ \A i \in DOMAIN p : p[i] \in S /\ p[i].id >= f
         /\ \A i, j \in DOMAIN p : i < j => p[i] # p[j] /\ p[i].id <= p[j].id
         /\ p = <<>> /\ n > 0 => \A r \in S : r.id < f
         /\ p # <<>> =>
              /\ Len(p) \in DOMAIN p
              /\ \A r \in S : r.id >= f /\ r.id <= p[Len(p)].id => \E i \in DOMAIN p : p[i].id = r.id
<1> DEFINE R == {r \in S : r.id >= f}
           m == Smaller(n, Cardinality(R))
<1>1. IsFiniteSet(R)
  BY FS_Subset
<1>2. Cardinality(R) \in Nat /\ (Cardinality(R) = 0 <=> R = {})
  BY <1>1, FS_CardinalityType, FS_EmptySet
<1>3. m \in Nat /\ m <= n /\ (m = 0 => n = 0 \/ R = {})
  BY <1>2 DEF Smaller
<1>4. /\ p \in [1 .. m -> R]
      /\ \A i, j \in DOMAIN p : i < j => p[i] # p[j] /\ p[i].id <= p[j].id
      /\ \A r \in R : (\A i \in DOMAIN p : p[i] # r) => \A i \in DOMAIN p : p[i].id <= r.id
  BY DEF Pages
<1>5. R \subseteq Row /\ \A r \in R : r \in S /\ r.id >= f
  OBVIOUS
<1>6. \A r \in S : r.id \in Nat
  BY DEF Row
<1> HIDE DEF m
<1>7. p \in Seq(Row) /\ Len(p) = m /\ DOMAIN p = 1 .. m
  BY <1>3, <1>4, <1>5
<1>8. ASSUME p = <<>>, n > 0 PROVE \A r \in S : r.id < f
  <2>1. m = 0
    BY <1>3, <1>7, <1>8
  <2>2. R = {}
    BY <1>3, <1>8, <2>1
  <2> QED
    BY <1>6, <2>2
<1>9. ASSUME p # <<>>
      PROVE  /\ m \in DOMAIN p
             /\ \A r \in S : r.id >= f /\ r.id <= p[m].id => \E i \in DOMAIN p : p[i].id = r.id
  <2>1. m # 0
    BY <1>7, <1>9
  <2>2. m \in DOMAIN p
    BY <1>3, <1>7, <2>1
  <2>3. ASSUME NEW r \in S, r.id >= f, r.id <= p[m].id, \A i \in DOMAIN p : p[i] # r
        PROVE  p[m].id = r.id
    <3>1. r \in R /\ p[m] \in S
      BY <1>4, <1>5, <1>7, <2>2, <2>3
    <3>2. p[m].id <= r.id
      BY <1>4, <2>2, <2>3, <3>1
    <3> QED
      BY <1>6, <2>3, <3>1, <3>2
  <2> QED
    BY <2>2, <2>3
<1> HIDE DEF R
<1>10. \A i \in DOMAIN p : p[i] \in R
  BY <1>4, <1>7
<1> QED
  BY <1>3, <1>4, <1>5, <1>7, <1>8, <1>9, <1>10

\* What a page adds to a stream.
LEMMA FetchFacts ==
  ASSUME IInv, FetchPage
  PROVE  /\ stream \in Stream /\ stream' \in Stream /\ stream.at = "fetch"
         /\ stream'.kind = stream.kind /\ stream'.num = stream.num /\ stream'.base = stream.base
         /\ \/ /\ stream'.at = "done" /\ stream'.out = stream.out /\ stream'.from = stream.from
               /\ stream.num = 0 => \A r \in rows[stream.kind] : r.id < stream.from
            \/ /\ stream'.at = "fetch"
               /\ \E p \in Seq(Row) :
                    /\ p # <<>> /\ Len(p) \in DOMAIN p /\ stream'.out = stream.out \o p
                    /\ stream.num > 0 => Len(stream.out) + Len(p) <= stream.num
                    /\ stream'.from = p[Len(p)].id + 1
                    /\ \A i \in DOMAIN p : p[i] \in rows[stream.kind] /\ p[i].id >= stream.from
                    /\ \A i, j \in DOMAIN p : i < j => p[i] # p[j] /\ p[i].id <= p[j].id
                    /\ \A r \in rows[stream.kind] :
                         r.id >= stream.from /\ r.id < stream'.from => \E i \in DOMAIN p : p[i].id = r.id
<1>0. TypeOK /\ Finite /\ StreamOrdered
  BY DEF IInv
<1>1. /\ stream \in Stream /\ stream.at = "fetch" /\ stream.kind \in Kinds /\ stream.from \in Nat
      /\ stream.num \in Nat /\ stream.out \in Seq(Row) /\ Len(stream.out) \in Nat
  BY <1>0 DEF TypeOK, Stream, FetchPage
<1>2. rows[stream.kind] \in SUBSET Row /\ IsFiniteSet(rows[stream.kind])
  BY <1>0, <1>1 DEF TypeOK, Finite
<1>3. /\ ToFetch \in Nat
      /\ stream.num = 0 => ToFetch > 0
      /\ stream.num > 0 => Len(stream.out) + ToFetch <= stream.num
  BY <1>0, <1>1, SizesAssumption DEF ToFetch, StreamOrdered, Smaller
<1>4. PICK p \in Pages(rows[stream.kind], stream.from, ToFetch) :
        stream' = IF p = <<>> THEN [stream EXCEPT !.at = "done"]
                  ELSE [stream EXCEPT !.out = @ \o p, !.from = p[Len(p)].id + 1]
  BY DEF FetchPage
<1>5. /\ p \in Seq(Row) /\ Len(p) \in Nat /\ Len(p) <= ToFetch /\ DOMAIN p = 1 .. Len(p)
      /\ \A i \in DOMAIN p : p[i] \in rows[stream.kind] /\ p[i].id >= stream.from
      /\ \A i, j \in DOMAIN p : i < j => p[i] # p[j] /\ p[i].id <= p[j].id
      /\ p = <<>> /\ ToFetch > 0 => \A r \in rows[stream.kind] : r.id < stream.from
      /\ p # <<>> =>
           /\ Len(p) \in DOMAIN p
           /\ \A r \in rows[stream.kind] :
                r.id >= stream.from /\ r.id <= p[Len(p)].id => \E i \in DOMAIN p : p[i].id = r.id
  BY <1>1, <1>2, <1>3, PagesFacts
<1>6. CASE p = <<>>
  <2>1. stream' = [stream EXCEPT !.at = "done"]
    BY <1>4, <1>6
  <2> QED
    BY <1>1, <1>3, <1>5, <1>6, <2>1 DEF Stream
<1>7. CASE p # <<>>
  <2> DEFINE o == stream.out \o p
             f == p[Len(p)].id + 1
  <2>1. p[Len(p)].id \in Nat /\ f \in Nat /\ o \in Seq(Row)
    BY <1>1, <1>5, <1>7, RowFacts, ConcatProperties
  <2>2. stream' = [stream EXCEPT !.out = o, !.from = f]
    BY <1>4, <1>7
  <2>3. \A r \in rows[stream.kind] : r.id \in Nat
    BY <1>2 DEF Row
  <2>4. \A r \in rows[stream.kind] :
          r.id >= stream.from /\ r.id < f => \E i \in DOMAIN p : p[i].id = r.id
    BY <1>5, <1>7, <2>1, <2>3
  <2>5. stream.num > 0 => Len(stream.out) + Len(p) <= stream.num
    BY <1>1, <1>3, <1>5
  <2>6. o = stream.out \o p /\ f = p[Len(p)].id + 1
    OBVIOUS
  <2> HIDE DEF o, f
  <2>7. /\ stream' \in Stream /\ stream'.at = "fetch" /\ stream'.out = o /\ stream'.from = f
        /\ stream'.kind = stream.kind /\ stream'.num = stream.num /\ stream'.base = stream.base
    BY <1>1, <2>1, <2>2 DEF Stream
  <2>8. /\ Len(p) \in DOMAIN p
        /\ \A i \in DOMAIN p : p[i] \in rows[stream.kind] /\ p[i].id >= stream.from
        /\ \A i, j \in DOMAIN p : i < j => p[i] # p[j] /\ p[i].id <= p[j].id
    BY <1>5, <1>7
  <2>9. /\ p # <<>> /\ Len(p) \in DOMAIN p /\ stream'.out = stream.out \o p
        /\ stream.num > 0 => Len(stream.out) + Len(p) <= stream.num
        /\ stream'.from = p[Len(p)].id + 1
        /\ \A i \in DOMAIN p : p[i] \in rows[stream.kind] /\ p[i].id >= stream.from
        /\ \A i, j \in DOMAIN p : i < j => p[i] # p[j] /\ p[i].id <= p[j].id
        /\ \A r \in rows[stream.kind] :
             r.id >= stream.from /\ r.id < stream'.from => \E i \in DOMAIN p : p[i].id = r.id
    <3>1. stream'.out = stream.out \o p /\ stream'.from = p[Len(p)].id + 1
      BY <2>6, <2>7
    <3>2. \A r \in rows[stream.kind] :
            r.id >= stream.from /\ r.id < stream'.from => \E i \in DOMAIN p : p[i].id = r.id
      BY Zenon, <2>4, <2>7
    <3> QED
      BY <1>7, <2>5, <2>8, <3>1, <3>2, Zenon
  <2> QED
    BY <1>1, <1>5, <2>7, <2>9
<1> QED
  BY <1>6, <1>7

\* The elements of a stream that got a page.
LEMMA ConcatFacts ==
  ASSUME NEW o \in Seq(Row), NEW p \in Seq(Row)
  PROVE  /\ Len(o \o p) = Len(o) + Len(p) /\ Len(o) \in Nat /\ Len(p) \in Nat
         /\ DOMAIN o = 1 .. Len(o) /\ DOMAIN p = 1 .. Len(p)
         /\ DOMAIN (o \o p) = 1 .. (Len(o) + Len(p))
         /\ \A i \in DOMAIN o : (o \o p)[i] = o[i]
         /\ \A i \in DOMAIN p : (o \o p)[Len(o) + i] = p[i] /\ Len(o) + i \in DOMAIN (o \o p)
         /\ \A i \in DOMAIN (o \o p) : i \notin DOMAIN o =>
              i - Len(o) \in DOMAIN p /\ (o \o p)[i] = p[i - Len(o)]
<1>1. /\ Len(o) \in Nat /\ Len(p) \in Nat /\ o \o p \in Seq(Row) /\ Len(o \o p) = Len(o) + Len(p)
      /\ DOMAIN o = 1 .. Len(o) /\ DOMAIN p = 1 .. Len(p)
  OBVIOUS
<1>2. DOMAIN (o \o p) = 1 .. (Len(o) + Len(p))
  BY <1>1
<1>3. \A i \in 1 .. (Len(o) + Len(p)) : (o \o p)[i] = IF i <= Len(o) THEN o[i] ELSE p[i - Len(o)]
  BY ConcatProperties
<1>4. \A i \in DOMAIN o : (o \o p)[i] = o[i]
  BY <1>1, <1>3
<1>5. ASSUME NEW i \in DOMAIN p
      PROVE  (o \o p)[Len(o) + i] = p[i] /\ Len(o) + i \in DOMAIN (o \o p)
  <2>1. Len(o) + i \in 1 .. (Len(o) + Len(p)) /\ ~(Len(o) + i <= Len(o)) /\ Len(o) + i - Len(o) = i
    BY <1>1
  <2> QED
    BY <1>2, <1>3, <2>1
<1>6. ASSUME NEW i \in DOMAIN (o \o p), i \notin DOMAIN o
      PROVE  i - Len(o) \in DOMAIN p /\ (o \o p)[i] = p[i - Len(o)]
  <2>1. i \in 1 .. (Len(o) + Len(p)) /\ ~(i <= Len(o)) /\ i - Len(o) \in 1 .. Len(p)
    BY <1>1, <1>2, <1>6
  <2> QED
    BY <1>1, <1>3, <2>1
<1> QED
  BY <1>1, <1>2, <1>4, <1>5, <1>6

\* States have ids of their own.
LEMMA StateIdsDiffer ==
  ASSUME IInv, NEW a \in rows["state"], NEW b \in rows["state"], a.id = b.id
  PROVE  a = b
<1>1. "state" \in Kinds /\ a \in Row /\ b \in Row
  BY DEF Kinds, IInv, TypeOK
<1>2. ~(a.ts < b.ts) /\ ~(b.ts < a.ts)
  BY <1>1 DEF IInv, IdsFollowTime, Row
<1> QED
  BY <1>1, <1>2 DEF Row

LEMMA StreamOrderedStep ==
  ASSUME IInv, Change
  PROVE  StreamOrdered'
<1>0. TypeOK /\ StreamOrdered /\ Streaming
  BY DEF IInv
<1>1. CASE stream' = stream
  BY <1>0, <1>1 DEF StreamOrdered
<1>2. ASSUME NEW k \in Kinds, NEW num \in Nums, StartStream(k, num) PROVE StreamOrdered'
  <2>1. stream'.out = <<>> /\ stream'.num \in Nat
    BY <1>2, SizesAssumption DEF StartStream
  <2> QED
    BY <2>1 DEF StreamOrdered
<1>3. ASSUME NEW p \in Seq(Row), stream.at = "fetch", stream' \in Stream,
             p # <<>>, stream'.out = stream.out \o p, stream'.num = stream.num,
             stream.num > 0 => Len(stream.out) + Len(p) <= stream.num,
             \A i \in DOMAIN p : p[i] \in rows[stream.kind] /\ p[i].id >= stream.from,
             \A i, j \in DOMAIN p : i < j => p[i] # p[j] /\ p[i].id <= p[j].id
      PROVE  StreamOrdered'
  <2> DEFINE o == stream.out
             q == stream.out \o p
  <2>0. o \in Seq(Row) /\ stream.from \in Nat
    BY <1>0 DEF TypeOK
  <2>1. \A i \in DOMAIN o : o[i].id < stream.from /\ o[i] \in Row /\ o[i].id \in Nat
    BY <1>0, <1>3, <2>0, RowFacts DEF Streaming
  <2>1a. \A i \in DOMAIN p : p[i].id \in Nat
    BY RowFacts
  <2>2. ASSUME NEW i \in DOMAIN q, NEW j \in DOMAIN q, i < j
        PROVE  q[i] # q[j] /\ q[i].id <= q[j].id
    <3>1. CASE i \in DOMAIN o /\ j \in DOMAIN o
      BY <1>0, <2>0, <2>2, <3>1, ConcatFacts DEF StreamOrdered
    <3>2. CASE i \in DOMAIN o /\ j \notin DOMAIN o
      <4>1. q[i] = o[i] /\ j - Len(o) \in DOMAIN p /\ q[j] = p[j - Len(o)]
        BY <2>0, <2>2, <3>2, ConcatFacts
      <4>2. o[i].id < stream.from /\ p[j - Len(o)].id >= stream.from /\ o[i].id \in Nat /\ p[j - Len(o)].id \in Nat
        BY <1>3, <2>1, <2>1a, <3>2, <4>1
      <4>3. q[i].id < stream.from /\ q[j].id >= stream.from /\ q[i].id \in Nat /\ q[j].id \in Nat
        BY <4>1, <4>2
      <4> HIDE DEF q
      <4>4. q[i].id < q[j].id
        BY <2>0, <4>3
      <4> QED
        BY <4>3, <4>4
    <3>3. CASE i \notin DOMAIN o /\ j \notin DOMAIN o
      <4>1. /\ i - Len(o) \in DOMAIN p /\ q[i] = p[i - Len(o)]
            /\ j - Len(o) \in DOMAIN p /\ q[j] = p[j - Len(o)]
        BY <2>0, <2>2, <3>3, ConcatFacts
      <4>2. i - Len(o) < j - Len(o)
        BY <2>0, <2>2, ConcatFacts
      <4> QED
        BY <1>3, <4>1, <4>2
    <3>4. i \notin DOMAIN o => j \notin DOMAIN o
      BY <2>0, <2>2, ConcatFacts
    <3> QED
      BY <3>1, <3>2, <3>3, <3>4
  <2>3. Len(q) = Len(o) + Len(p)
    BY <2>0, ConcatFacts
  <2> QED
    BY <1>3, <2>2, <2>3 DEF StreamOrdered
<1>4. CASE FetchPage
  <2>1. CASE stream'.out = stream.out /\ stream'.num = stream.num
    BY <1>0, <2>1 DEF StreamOrdered
  <2>2. CASE ~(stream'.out = stream.out)
    <3>1. \E p \in Seq(Row) :
            /\ p # <<>> /\ stream'.out = stream.out \o p
            /\ stream.num > 0 => Len(stream.out) + Len(p) <= stream.num
            /\ \A i \in DOMAIN p : p[i] \in rows[stream.kind] /\ p[i].id >= stream.from
            /\ \A i, j \in DOMAIN p : i < j => p[i] # p[j] /\ p[i].id <= p[j].id
      BY <1>4, <2>2, FetchFacts
    <3>2. stream.at = "fetch" /\ stream' \in Stream /\ stream'.num = stream.num
      BY <1>4, FetchFacts
    <3> QED
      BY <1>3, <3>1, <3>2
  <2> QED
    BY <1>4, <2>1, <2>2, FetchFacts
<1> QED
  BY <1>1, <1>2, <1>4 DEF Change, StreamStep, Kept, NewRequest, Drops, Numbers, Assigns, ReadsLast, Adds, Deletes, vars

LEMMA StreamingStep ==
  ASSUME IInv, Change
  PROVE  Streaming'
<1>0. TypeOK /\ Streaming /\ NothingLeft
  BY DEF IInv
<1>k. stream.kind \in Kinds /\ stream \in Stream
  BY <1>0 DEF TypeOK, Stream
<1>1. ASSUME stream' = stream, del' = del, \A k \in Kinds : rows[k] \subseteq rows'[k],
             Deleted => UNCHANGED rows
      PROVE  Streaming'
  <2>1. CASE Deleted
    BY <1>0, <1>1, <2>1 DEF Streaming, Deleted
  <2>2. CASE ~Deleted /\ stream.at # "idle"
    <3>1. stream.base \subseteq rows[stream.kind] /\ stream.base \subseteq rows'[stream.kind]
      BY <1>0, <1>1, <1>k, <2>2 DEF Streaming
    <3>2. stream.base \cap rows'[stream.kind] = stream.base \cap rows[stream.kind]
      BY <3>1
    <3> QED
      BY <1>0, <1>1, <2>2, <3>1, <3>2 DEF Streaming, Deleted
  <2> QED
    BY <1>1, <2>1, <2>2 DEF Streaming
<1>2. CASE Deletes
  <2>1. stream' = stream /\ Deleted' /\ rows'[stream.kind] = {}
    BY <1>0, <1>k, <1>2 DEF Deletes, Deleted, TypeOK
  <2> QED
    BY <1>0, <2>1 DEF Streaming
<1>3. CASE DeleteStep /\ Looks /\ stream' = stream
  <2>1. ~Deleted /\ UNCHANGED rows
    BY <1>0, <1>3, DeleteFields DEF Deleted, Looks, tables, AfterDelete, Kinds
  <2> QED
    BY <1>0, <1>3, <2>1 DEF Streaming
<1>4. ASSUME NEW k \in Kinds, NEW num \in Nums, StartStream(k, num), Looks PROVE Streaming'
  <2>1. /\ stream'.at = "fetch" /\ stream'.kind = k /\ stream'.base = rows[k] /\ stream'.out = <<>>
        /\ stream'.from = 0 /\ UNCHANGED rows
    BY <1>4 DEF StartStream, Looks, tables
  <2>2. \A r \in rows[k] : ~(r.id < 0)
    BY <1>0 DEF TypeOK, Row
  <2> QED
    BY <2>1, <2>2 DEF Streaming
<1>5. CASE FetchPage /\ Looks /\ del' = del
  <2>0. UNCHANGED rows /\ (Deleted' = Deleted)
    BY <1>5 DEF Looks, tables, Deleted
  <2>1. CASE /\ stream'.at = "done" /\ stream'.out = stream.out /\ stream'.from = stream.from
             /\ stream.num = 0 => \A r \in rows[stream.kind] : r.id < stream.from
    BY <1>0, <1>5, <2>0, <2>1, FetchFacts DEF Streaming
  <2>2. ASSUME NEW p \in Seq(Row), p # <<>>, stream'.at = "fetch", stream'.out = stream.out \o p,
               stream'.from = p[Len(p)].id + 1,
               \A i \in DOMAIN p : p[i] \in rows[stream.kind] /\ p[i].id >= stream.from,
               \A i, j \in DOMAIN p : i < j => p[i].id <= p[j].id,
               \A r \in rows[stream.kind] :
                 r.id >= stream.from /\ r.id < stream'.from => \E i \in DOMAIN p : p[i].id = r.id
        PROVE  Streaming'
    <3> DEFINE o == stream.out
               q == stream.out \o p
    <3>0. /\ o \in Seq(Row) /\ stream.from \in Nat /\ Len(p) \in DOMAIN p /\ Len(p) \in Nat
          /\ DOMAIN p = 1 .. Len(p) /\ \A i \in DOMAIN p : p[i].id \in Nat
          /\ \A i \in DOMAIN o : o[i].id \in Nat
      BY <1>k, <2>2, RowFacts DEF Stream
    <3>1. /\ stream.at = "fetch" /\ stream'.kind = stream.kind /\ stream'.num = stream.num
          /\ stream'.base = stream.base
      BY <1>5, FetchFacts
    <3>2. ASSUME NEW i \in DOMAIN q PROVE q[i].id < stream'.from
      <4>1. CASE i \in DOMAIN o
        <5>1. q[i] = o[i] /\ o[i].id < stream.from /\ p[Len(p)].id >= stream.from
          BY <1>0, <2>2, <3>0, <3>1, <4>1, ConcatFacts DEF Streaming
        <5> QED
          <6>1. o[i].id \in Nat /\ p[Len(p)].id \in Nat
            BY <3>0, <4>1
          <6> QED
            BY <2>2, <3>0, <5>1, <6>1
      <4>2. CASE i \notin DOMAIN o
        <5>1. i - Len(o) \in DOMAIN p /\ q[i] = p[i - Len(o)]
          BY <3>0, <4>2, ConcatFacts
        <5>2. p[i - Len(o)].id <= p[Len(p)].id
          <6>1. i - Len(o) = Len(p) \/ i - Len(o) < Len(p)
            BY <3>0, <5>1
          <6> QED
            BY <2>2, <3>0, <5>1, <6>1
        <5> QED
          <6>1. p[i - Len(o)].id \in Nat /\ p[Len(p)].id \in Nat
            BY <3>0, <5>1
          <6> QED
            BY <2>2, <5>1, <5>2, <6>1
      <4> QED
        BY <4>1, <4>2
    <3>3. ASSUME stream.num = 0, NEW r \in stream.base \cap rows[stream.kind], r.id < stream'.from
          PROVE  \E i \in DOMAIN q : q[i].id = r.id /\ (stream.kind = "state" => q[i] = r)
      <4>0. r.id \in Nat
        BY <1>0, <1>k DEF TypeOK, Row
      <4>1. CASE r.id < stream.from
        <5>1. PICK i \in DOMAIN o : o[i].id = r.id /\ (stream.kind = "state" => o[i] = r)
          BY <1>0, <3>1, <3>3, <4>1 DEF Streaming
        <5>2. i \in DOMAIN q /\ q[i] = o[i]
          BY <3>0, ConcatFacts
        <5> QED
          BY <5>1, <5>2
      <4>2. CASE r.id >= stream.from
        <5>1. PICK i \in DOMAIN p : p[i].id = r.id
          BY <2>2, <3>3, <4>2
        <5>2. stream.kind = "state" => p[i] = r
          BY <2>2, <5>1, StateIdsDiffer
        <5>3. Len(o) + i \in DOMAIN q /\ q[Len(o) + i] = p[i]
          BY <3>0, ConcatFacts
        <5> QED
          BY <5>1, <5>2, <5>3
      <4> QED
        BY <3>0, <4>0, <4>1, <4>2
    <3> HIDE DEF o, q
    <3>4. stream'.out = q /\ stream'.at # "done"
      BY <2>2 DEF q
    <3>5. Deleted \/ stream.base \subseteq rows[stream.kind]
      BY <1>0, <3>1 DEF Streaming
    <3> QED
      BY <2>0, <3>1, <3>2, <3>3, <3>4, <3>5 DEF Streaming
  <2> QED
    BY <1>5, <2>1, <2>2, FetchFacts
<1>6. CASE Kept \/ UNCHANGED vars
  <2>1. UNCHANGED <<rows, stream, del>>
    BY <1>6 DEF Kept, NewRequest, Drops, Numbers, Assigns, ReadsLast, tables, vars
  <2> QED
    BY <1>1, <2>1
<1>7. ASSUME NEW k \in Kinds, NEW r \in Row, Adds(k, r) PROVE Streaming'
  <2>1. stream' = stream /\ del' = del /\ ~Deleted /\ \A l \in Kinds : rows[l] \subseteq rows'[l]
    BY <1>0, <1>7 DEF Adds, TypeOK
  <2> QED
    BY <1>1, <2>1
<1> QED
  BY <1>2, <1>3, <1>4, <1>5, <1>6, <1>7 DEF Change, StreamStep

LEMMA FiniteStep ==
  ASSUME IInv, Change
  PROVE  Finite'
<1>0. TypeOK /\ Finite
  BY DEF IInv
<1>1. CASE UNCHANGED rows
  BY <1>0, <1>1 DEF Finite
<1>2. ASSUME NEW k \in Kinds, NEW r \in Row, Adds(k, r) PROVE Finite'
  <2>1. rows'[k] = rows[k] \cup {r} /\ \A l \in Kinds \ {k} : rows'[l] = rows[l]
    BY <1>0, <1>2 DEF Adds, TypeOK
  <2> QED
    BY <1>0, <2>1, FS_AddElement DEF Finite
<1>3. CASE Deletes
  BY <1>3, FS_EmptySet DEF Deletes, Finite
<1> QED
  BY <1>1, <1>2, <1>3 DEF Change, Kept, NewRequest, Drops, Numbers, Assigns, ReadsLast, Looks, tables, vars

LEMMA TypeStep ==
  ASSUME IInv, [Next]_vars
  PROVE  TypeOK'
<1>0. TypeOK /\ Given /\ Change /\ NothingLeft
  BY Changes DEF IInv
<1>1. persist' \in BOOLEAN /\ failed' \subseteq Nat
  <2>1. persist' = persist
    BY DEF Next, vars, Publish, StoreFails, Process, DeleteRows, InsertState, AssignLast, CommitState,
       ReadLast, StoreDriver, StoreSpeedmap, StartStream, FetchPage, StartDelete, DeleteInfos, DeleteEvent
  <2>2. failed' = failed \/ \E k \in Kinds : failed' = failed \cup {req[k].ts}
    BY DEF Next, vars, faults, Publish, StoreFails, Process, DeleteRows, InsertState, AssignLast, CommitState,
       ReadLast, StoreDriver, StoreSpeedmap, StartStream, FetchPage, StartDelete, DeleteInfos, DeleteEvent
  <2>3. \A k \in Kinds : req[k].ts \in Nat
    BY <1>0 DEF TypeOK
  <2> QED
    BY <1>0, <2>1, <2>2, <2>3 DEF TypeOK
<1>2. rolledBack' \subseteq Nat
  <2>1. rolledBack' = rolledBack \/ \E k \in Kinds : rolledBack' = rolledBack \cup {req[k].id}
    BY DEF Next, vars, faults, Publish, StoreFails, Process, DeleteRows, InsertState, AssignLast, CommitState,
       ReadLast, StoreDriver, StoreSpeedmap, StartStream, FetchPage, StartDelete, DeleteInfos, DeleteEvent
  <2>2. rolledBack \subseteq Nat /\ \A k \in Kinds : req[k].id \in Nat
    BY <1>0 DEF TypeOK
  <2>3. ASSUME NEW k \in Kinds, rolledBack' = rolledBack \cup {req[k].id}
        PROVE  rolledBack' \subseteq Nat
    <3>1. {req[k].id} \subseteq Nat
      BY <2>2
    <3> QED
      BY <2>2, <2>3, <3>1
  <2> QED
    BY <2>1, <2>2, <2>3
<1>3. req' \in [Kinds -> Request] /\ clock' \in Nat
  BY <1>0 DEF Change, Kept, NewRequest, Drops, Numbers, Assigns, ReadsLast, Adds, Deletes, Looks, Fields,
     vars, TypeOK, Request
<1>4. seqId' \in Nat /\ infos' \subseteq 1 .. seqId' /\ lastRsInfoID' \in Nat
  <2>1. CASE Kept \/ Deletes \/ Looks \/ UNCHANGED vars
    <3>1. req["state"].id \in Nat
      BY <1>0 DEF TypeOK, Kinds
    <3> QED
      BY <1>0, <2>1, <3>1 DEF Kept, NewRequest, Drops, Numbers, Assigns, ReadsLast, Deletes, Looks, tables, vars, TypeOK
  <2>2. ASSUME NEW k \in Kinds, NEW r \in Row, Adds(k, r)
        PROVE  seqId' \in Nat /\ infos' \subseteq 1 .. seqId' /\ lastRsInfoID' \in Nat
    <3>1. seqId \in Nat /\ infos \subseteq 1 .. seqId /\ lastRsInfoID \in Nat
      BY <1>0 DEF TypeOK
    <3>2. /\ seqId' \in Nat /\ seqId <= seqId' /\ r.id \in 1 .. seqId'
          /\ infos' = infos \cup {r.id} /\ lastRsInfoID' = lastRsInfoID
      BY <2>2 DEF Adds
    <3>3. 1 .. seqId \subseteq 1 .. seqId' /\ {r.id} \subseteq 1 .. seqId'
      BY <3>1, <3>2
    <3> QED
      BY <3>1, <3>2, <3>3
  <2> QED
    BY <1>0, <2>1, <2>2 DEF Change
<1>5. rows' \in [Kinds -> SUBSET Row]
  <2>1. ASSUME NEW k \in Kinds, NEW r \in Row, Adds(k, r) PROVE rows' \in [Kinds -> SUBSET Row]
    BY <1>0, <2>1 DEF Adds, TypeOK
  <2> QED
    BY <1>0, <2>1 DEF Change, Kept, NewRequest, Drops, Numbers, Assigns, ReadsLast, Deletes, Looks, tables, vars, TypeOK
<1>6. stream' \in Stream
  <2>1. ASSUME NEW k \in Kinds, NEW num \in Nums, StartStream(k, num) PROVE stream' \in Stream
    <3>1. num \in Nat /\ rows[k] \in SUBSET Row /\ <<>> \in Seq(Row)
      BY <1>0, SizesAssumption DEF TypeOK
    <3> QED
      BY <2>1, <3>1 DEF StartStream, Stream
  <2>2. CASE FetchPage
    BY <2>2, FetchFacts
  <2>3. stream \in Stream
    BY <1>0 DEF TypeOK, Stream
  <2> QED
    BY <1>0, <2>1, <2>2, <2>3 DEF Change, StreamStep, Kept, NewRequest, Drops, Numbers, Assigns, ReadsLast, Adds, Deletes, vars
<1>7. del' \in Deletion
  <2>1. del \in Deletion
    BY <1>0 DEF TypeOK, Deletion
  <2>2. CASE Deletes
    BY <2>1, <2>2 DEF Deletes, Deletion
  <2>3. CASE DeleteStep
    BY <1>0, <2>3, DeleteFields
  <2> QED
    BY <1>0, <2>1, <2>2, <2>3 DEF Change, Kept, NewRequest, Drops, Numbers, Assigns, ReadsLast, Adds, vars
<1> QED
  BY <1>1, <1>2, <1>3, <1>4, <1>5, <1>6, <1>7 DEF TypeOK, Request, Stream, Deletion

-----------------------------------------------------------------------------
LEMMA InitInv == Init => IInv
<1> SUFFICES ASSUME Init PROVE IInv
  OBVIOUS
<1> USE DEF Init, Kinds
<1>1. TypeOK
  BY DEF TypeOK
<1>2. Finite /\ Given /\ Newest /\ IdsGrow
  BY FS_EmptySet DEF Finite, Given, Newest, IdsGrow, Pending, Inserting
<1>3. NothingLeft /\ Deleting /\ Streaming
  BY DEF NothingLeft, Deleting, Streaming, Deleted
<1>4. StreamOrdered /\ LastEntryExists /\ IdsFollowTime /\ DeleteFailsOnNewRows
  BY DEF StreamOrdered, LastEntryExists, IdsFollowTime, DeleteFailsOnNewRows
<1> QED
  BY <1>1, <1>2, <1>3, <1>4 DEF IInv

LEMMA StepInv == IInv /\ [Next]_vars => IInv'
<1> SUFFICES ASSUME IInv, [Next]_vars PROVE IInv'
  OBVIOUS
<1> QED
  BY Changes, TypeStep, FiniteStep, GivenStep, NewestStep, IdsGrowStep, NothingLeftStep, DeletingStep,
     StreamingStep, StreamOrderedStep, LastEntryExistsStep, IdsFollowTimeStep, DeleteFailsStep DEF IInv

LEMMA Invariant == Spec => []IInv
  BY InitInv, StepInv, PTL DEF Spec

(***************************************************************************)
(* The variables of the recording keep their types, for any number of      *)
(* messages, failing transactions, page sizes and limits.                  *)
(***************************************************************************)
THEOREM TypeCorrect == Spec => []TypeOK
<1>1. IInv => TypeOK
  BY DEF IInv
<1> QED
  BY <1>1, Invariant, PTL

(***************************************************************************)
(* LastRsInfoID names an entry that is stored, but for the time of the     *)
(* commit, a commit that failed and an event that was deleted.             *)
(***************************************************************************)
THEOREM LastEntryAlwaysExists == Spec => []LastEntryExists
<1>1. IInv => LastEntryExists
  BY DEF IInv
<1> QED
  BY <1>1, Invariant, PTL

(***************************************************************************)
(* The messages of a kind, read by id, come in the order they were sent    *)
(* in, but for driver data that has an entry of its own.                   *)
(***************************************************************************)
THEOREM IdsAlwaysFollowTime == Spec => []IdsFollowTime
<1>1. IInv => IdsFollowTime
  BY DEF IInv
<1> QED
  BY <1>1, Invariant, PTL

(***************************************************************************)
(* Streams are ordered, without duplicates, within their limits, and leave *)
(* out no more than messages with an id they delivered, whatever is stored *)
(* and deleted between their pages.                                        *)
(***************************************************************************)
THEOREM StreamsFaithful == Spec => []StreamFaithful
<1>1. IInv => StreamFaithful
  BY DEF IInv, StreamFaithful, Streaming
<1> QED
  BY <1>1, Invariant, PTL

(***************************************************************************)
(* A deletion fails only because of a message stored since it began.       *)
(***************************************************************************)
THEOREM DeletionFailsOnNewRows == Spec => []DeleteFailsOnNewRows
<1>1. IInv => DeleteFailsOnNewRows
  BY DEF IInv
<1> QED
  BY <1>1, Invariant, PTL
-----------------------------------------------------------------------------
(* The recomputation of what was recorded: the invariants of both, of which *)
(* the recording's holds the tables that the replay takes as given.         *)

TaskKinds == {"state", "driver"}

Replays == INSTANCE ReplayProofs
  WITH Order <- <<"state", "driver">>, MaxErrors <- MaxFail, Advances <- TRUE,
       PageLimit <- [k \in {"state", "driver"} |-> PageSize[k]]

\* Nothing has happened before the replay begins; from then on its invariant
\* holds of the rows that are there.
CInv ==
  /\ IInv
  /\ merge = "idle" => Task!ReplayInit
  /\ merge # "idle" => Replays!IInv

LEMMA TaskProviders == Task!Providers = TaskKinds /\ Replays!Providers = TaskKinds
<1> DEFINE o == <<"state", "driver">>
<1>1. {o[i] : i \in DOMAIN o} = TaskKinds
  BY DEF TaskKinds
<1> QED
  BY <1>1 DEF Task!Providers, Replays!Providers

LEMMA TaskParameters == Replays!Analysis
<1> DEFINE o == <<"state", "driver">>
           l == [k \in {"state", "driver"} |-> PageSize[k]]
<1>1. o \in Seq(TaskKinds) /\ o # <<>> /\ \A i, j \in DOMAIN o : o[i] = o[j] => i = j
  BY DEF TaskKinds
<1>2. l \in [TaskKinds -> Nat \ {0}]
  BY SizesAssumption DEF TaskKinds, Kinds
<1>3. MaxOut \in Nat /\ MaxFail \in Nat
  BY SizesAssumption DEF MaxOut
<1> HIDE DEF o, l
<1> QED
  BY <1>1, <1>2, <1>3, TaskProviders DEF Replays!Analysis, Replays!Parameters, o, l

\* What was recorded is what the replay assumes to be stored.
LEMMA TaskStored == IInv => Replays!Stored
<1>1. ASSUME IInv, NEW k \in TaskKinds
      PROVE  /\ rows[k] \in SUBSET Row /\ IsFiniteSet(rows[k])
             /\ \A r \in rows[k] : r.id > 0
  <2>1. k \in Kinds
    BY DEF TaskKinds, Kinds
  <2>2. rows[k] \in SUBSET Row /\ IsFiniteSet(rows[k])
    BY <1>1, <2>1 DEF IInv, TypeOK, Finite
  <2>3. seqId \in Nat /\ \A r \in rows[k] : r.id \in 1 .. seqId
    BY <1>1, <2>1 DEF IInv, TypeOK, Given
  <2> QED
    BY <2>2, <2>3
<1>2. Replays!Message = Row
  BY DEF Replays!Message, Row
<1>3. Replays!Providers = TaskKinds
  BY TaskProviders
<1> QED
  BY <1>1, <1>2, <1>3 DEF Replays!Stored, IsFiniteSet, Replays!IsFiniteSet

LEMMA TaskInit == IInv /\ Task!ReplayInit => Replays!IInv
<1>1. Task!ReplayInit => Replays!ReplayInit
  BY DEF Task!ReplayInit, Replays!ReplayInit, Task!NoRow, Replays!NoRow, Task!Providers, Replays!Providers
<1> QED
  BY <1>1, TaskParameters, TaskStored, Replays!InitInv

\* The steps of the replay in the composition are those its proofs are about.
LEMMA TaskSteps ==
  ASSUME Task!ReplayStep
  PROVE  Replays!ReplayStep /\ merge' # "idle"
<1> USE DEF Task!Running, Replays!Running, Task!NoRow, Replays!NoRow
<1>1. ASSUME NEW k \in TaskKinds, Task!NextBuffered(k)
      PROVE  Replays!NextBuffered(k) /\ merge' # "idle"
  BY <1>1 DEF Task!NextBuffered, Replays!NextBuffered, Task!Offer, Replays!Offer
<1>2. ASSUME NEW k \in TaskKinds, Task!NextPage(k)
      PROVE  Replays!NextPage(k) /\ merge' # "idle"
  <2>1. \A S, f, n : Task!Pages(S, f, n) = Replays!Pages(S, f, n)
    <3>1. \A S : Task!Cardinality(S) = Replays!Cardinality(S)
      BY DEF Task!Cardinality, Replays!Cardinality
    <3> QED
      BY <3>1 DEF Task!Pages, Replays!Pages, Task!Smaller, Replays!Smaller
  <2>2. /\ \A r, t : Task!Offer(k, r, t) => Replays!Offer(k, r, t)
        /\ \A p : Task!NextId(k, p) = Replays!NextId(k, p)
    BY DEF Task!Offer, Replays!Offer, Task!NextId, Replays!NextId
  <2> QED
    BY <1>2, <2>1, <2>2 DEF Task!NextPage, Replays!NextPage
<1>3. ASSUME NEW k \in TaskKinds, Task!LoadFails(k)
      PROVE  Replays!LoadFails(k) /\ merge' # "idle"
  BY <1>3 DEF Task!LoadFails, Replays!LoadFails
<1>4. ASSUME NEW k, Task!Receive(k) PROVE Replays!Receive(k)
  BY <1>4 DEF Task!Receive, Replays!Receive
<1>5. Task!Fill => Replays!Fill /\ merge' # "idle"
  BY <1>4 DEF Task!Fill, Replays!Fill
<1>6. Task!Pick => Replays!Pick /\ merge' # "idle"
  BY DEF Task!Pick, Replays!Pick, Task!Dry, Replays!Dry, Task!IsNext, Replays!IsNext
<1>7. Task!PickNil => Replays!PickNil /\ merge' # "idle"
  BY DEF Task!PickNil, Replays!PickNil, Task!Dry, Replays!Dry
<1>8. Task!Refill => Replays!Refill /\ merge' # "idle"
  BY <1>4 DEF Task!Refill, Replays!Refill, Task!Without, Replays!Without
<1> QED
  BY <1>1, <1>2, <1>3, <1>5, <1>6, <1>7, <1>8, TaskProviders DEF Task!ReplayStep, Replays!ReplayStep

\* A step of the replay keeps its invariant.
LEMMA TaskStep ==
  ASSUME Replays!IInv, Task!StartReplay \/ Task!ReplayStep, UNCHANGED rows
  PROVE  Replays!IInv' /\ merge' # "idle"
<1>1. Task!StartReplay => Replays!StartReplay /\ merge' # "idle"
  BY DEF Task!StartReplay, Replays!StartReplay
<1> QED
  BY <1>1, TaskSteps, Replays!StepInv DEF Replays!ReplayNext

LEMMA InitTogether == RInit => CInv
  BY InitInv DEF RInit, CInv, Task!ReplayInit

LEMMA StepTogether == CInv /\ [RNext]_<<vars, taskVars>> => CInv'
<1> SUFFICES ASSUME CInv, [RNext]_<<vars, taskVars>> PROVE CInv'
  OBVIOUS
<1>0. IInv
  BY DEF CInv
<1>1. CASE Record
  <2>1. merge = "idle" /\ [Next]_vars /\ UNCHANGED taskVars
    BY <1>1 DEF Record
  <2>2. IInv'
    BY <1>0, <2>1, StepInv
  <2>3. Task!ReplayInit' /\ merge' = "idle"
    BY <2>1 DEF CInv, taskVars, Task!ReplayInit
  <2> QED
    BY <2>2, <2>3 DEF CInv
<1>2. CASE (Start \/ Recompute) /\ UNCHANGED vars
  <2>1. UNCHANGED <<vars, rows>> /\ (Task!StartReplay \/ Task!ReplayStep)
    BY <1>2 DEF Start, Recompute, vars, tables
  <2>2. IInv'
    BY <1>0, <2>1, StepInv
  <2>3. Replays!IInv
    BY <1>0, TaskInit DEF CInv
  <2> QED
    BY <2>1, <2>2, <2>3, TaskStep DEF CInv
<1>3. CASE UNCHANGED <<vars, taskVars>>
  <2>1. IInv'
    BY <1>0, <1>3, StepInv
  <2>2. CASE merge = "idle"
    <3>1. Task!ReplayInit' /\ merge' = "idle"
      BY <1>3, <2>2 DEF CInv, taskVars, Task!ReplayInit
    <3> QED
      BY <2>1, <3>1 DEF CInv
  <2>3. CASE merge # "idle"
    <3>1. UNCHANGED <<rows, Replays!replayVars>> /\ merge' = merge
      BY <1>3 DEF vars, tables, taskVars, Replays!replayVars
    <3>2. Replays!IInv'
      BY <2>3, <3>1, Replays!StepInv DEF CInv
    <3> QED
      BY <2>1, <2>3, <3>1, <3>2 DEF CInv
  <2> QED
    BY <2>2, <2>3
<1> QED
  BY <1>1, <1>2, <1>3 DEF RNext, Start, Recompute

LEMMA Together == RSpec => []CInv
  BY InitTogether, StepTogether, PTL DEF RSpec

\* What the replay keeps, when it has begun and before.
LEMMA TaskFacts ==
  ASSUME CInv
  PROVE  /\ Task!MergeOrdered /\ Task!AllOnce /\ CrashOnlyIfEmpty
         /\ \A i \in DOMAIN out : out[i].kind \in TaskKinds /\ out[i].row \in rows[out[i].kind]
         /\ \A i \in DOMAIN out : out[i] = [kind |-> out[i].kind, row |-> out[i].row] /\ i \in Nat
<1>1. CASE merge = "idle"
  <2>1. out = <<>> /\ crash = "no"
    BY <1>1 DEF CInv, Task!ReplayInit
  <2> QED
    BY <1>1, <2>1 DEF Task!MergeOrdered, Task!AllOnce, Task!EachOnce, CrashOnlyIfEmpty, Task!CrashOnlyIfEmpty
<1>2. CASE merge # "idle"
  <2>1. Replays!IInv
    BY <1>2 DEF CInv
  <2>2. Replays!AllOnce
    BY <2>1, Replays!CompleteAtEnd
  <2>3. Task!AllOnce
    BY <2>2, TaskProviders DEF Task!AllOnce, Replays!AllOnce, Task!EachOnce, Replays!EachOnce
  <2>4. Task!MergeOrdered
    BY <2>1 DEF Replays!IInv, Task!MergeOrdered, Replays!MergeOrdered
  <2>5. CrashOnlyIfEmpty
    BY <2>1, TaskProviders DEF Replays!IInv, CrashOnlyIfEmpty, Task!CrashOnlyIfEmpty, Replays!CrashOnlyIfEmpty
  <2>6. out \in Seq([kind : TaskKinds, row : Row])
    BY <2>1, TaskProviders DEF Replays!IInv, Replays!ReplayTypeOK, Replays!Message, Row
  <2>7. \A i \in DOMAIN out : i \in Nat /\ out[i] \in [kind : TaskKinds, row : Row]
    <3> DEFINE T == [kind : TaskKinds, row : Row]
    <3> HIDE DEF T
    <3>1. out \in Seq(T)
      BY <2>6 DEF T
    <3>2. \A i \in DOMAIN out : i \in Nat /\ out[i] \in T
      BY <3>1
    <3> QED
      BY <3>2 DEF T
  <2>8. \A k \in TaskKinds, i \in DOMAIN out : out[i].kind = k => out[i].row \in rows[k]
    BY <2>1, TaskProviders DEF Replays!IInv, Replays!Line, Replays!Placed
  <2> QED
    BY <2>3, <2>4, <2>5, <2>7, <2>8
<1> QED
  BY <1>1, <1>2

(***************************************************************************)
(* The replay does not touch what is recorded, so that the theorems above  *)
(* hold of the composition, too.                                           *)
(***************************************************************************)
THEOREM RecordingUndisturbed == RSpec => Spec
<1>1. RInit => Init
  BY DEF RInit
<1>2. [RNext]_<<vars, taskVars>> => [Next]_vars
  BY DEF RNext, Record, Start, Recompute
<1> QED
  BY <1>1, <1>2, PTL DEF RSpec, Spec

(***************************************************************************)
(* recomputeEvent processes the states in the order of time, after all     *)
(* that is earlier and was stored.                                         *)
(***************************************************************************)
THEOREM RecomputedInTime == RSpec => []RecomputedInOrder
<1>1. ASSUME CInv PROVE RecomputedInOrder
  <2>0. Task!MergeOrdered /\ IdsFollowTime /\ TypeOK
    BY <1>1, TaskFacts DEF CInv, IInv
  <2>1. ASSUME NEW i \in DOMAIN out, NEW j \in DOMAIN out, i < j, out[j].kind = "state"
        PROVE  out[i].row.ts <= out[j].row.ts
    <3> DEFINE a == out[i].row
               b == out[j].row
    <3>1. /\ out[i].kind \in TaskKinds /\ a \in rows[out[i].kind] /\ b \in rows["state"]
          /\ TaskKinds \subseteq Kinds /\ "state" \in Kinds
      BY <1>1, <2>1, TaskFacts DEF TaskKinds, Kinds
    <3>2. a \in Row /\ b \in Row /\ \A r \in rows["state"] : r \in Row
      BY <2>0, <3>1 DEF TypeOK
    <3>3. a.ts \in Nat /\ b.ts \in Nat /\ b.id \in Nat /\ \A r \in rows["state"] : r.id \in Nat /\ r.ts \in Nat
      BY <3>2 DEF Row
    <3>4. b.ts < a.ts => \E r \in rows["state"] : r.id <= b.id /\ r.ts >= a.ts
      BY <2>0, <2>1 DEF Task!MergeOrdered
    <3>5. \A r \in rows["state"] : b.ts < r.ts => b.id < r.id
      BY <2>0, <3>1 DEF IdsFollowTime
    <3> HIDE DEF a, b
    <3>6. ~(b.ts < a.ts)
      BY <3>3, <3>4, <3>5
    <3> QED
      BY <3>3, <3>6 DEF a, b
  <2> QED
    BY <2>0, <2>1 DEF RecomputedInOrder
<1> QED
  BY <1>1, Together, PTL

(***************************************************************************)
(* Nothing that was recorded is processed twice, and no state is missed.   *)
(***************************************************************************)
THEOREM RecomputedCompletely == RSpec => []RecomputedOnce
<1>1. ASSUME CInv PROVE RecomputedOnce
  <2>0. Task!AllOnce /\ IInv
    BY <1>1, TaskFacts DEF CInv
  <2>1. ASSUME merge = "done", NEW r \in rows["state"]
        PROVE  \E i \in DOMAIN out : out[i] = [kind |-> "state", row |-> r]
    <3>1. PICK i \in DOMAIN out : out[i].kind = "state" /\ out[i].row.id = r.id
      BY <2>0, <2>1, TaskProviders DEF Task!AllOnce, TaskKinds
    <3>2. out[i].row \in rows["state"] /\ out[i] = [kind |-> "state", row |-> out[i].row]
      BY <1>1, <3>1, TaskFacts
    <3>3. out[i].row = r
      BY <2>0, <3>1, <3>2, StateIdsDiffer
    <3> QED
      BY <3>2, <3>3
  <2> QED
    BY <2>0, <2>1 DEF RecomputedOnce
<1> QED
  BY <1>1, Together, PTL

(***************************************************************************)
(* As long as its queries succeed, the recomputation of a recorded event   *)
(* ends the process only if no state or no driver data was stored.         *)
(***************************************************************************)
THEOREM RecomputeEndsIfEmpty == RSpec => []CrashOnlyIfEmpty
<1>1. CInv => CrashOnlyIfEmpty
  BY TaskFacts
<1> QED
  BY <1>1, Together, PTL

(***************************************************************************)
(* A recomputation that has begun takes finitely many steps: each lowers   *)
(* the rank of ReplayProofs, and nothing is recorded meanwhile.  And until *)
(* it has ended, one of its goroutines can go on.                          *)
(***************************************************************************)
THEOREM RecomputeTerminates ==
  RSpec => /\ [](merge # "idle" => Replays!Ranked /\ (Task!Running => Replays!SomebodyGoesOn))
           /\ [][merge # "idle" => Replays!Progress]_<<vars, taskVars>>
<1>1. CInv => (merge # "idle" => Replays!Ranked /\ (Task!Running => Replays!SomebodyGoesOn))
  BY Replays!RankFacts, Replays!InvGoesOn DEF CInv, Task!Running, Replays!Running
<1>2. CInv /\ [RNext]_<<vars, taskVars>> => [merge # "idle" => Replays!Progress]_<<vars, taskVars>>
  <2> SUFFICES ASSUME CInv, RNext, merge # "idle" PROVE Replays!Progress
    OBVIOUS
  <2>1. Replays!IInv
    BY DEF CInv
  <2>2. Task!ReplayStep /\ UNCHANGED vars
    BY DEF RNext, Record, Start, Recompute, Task!StartReplay
  <2>3. Replays!ReplayNext
    BY <2>2, TaskSteps DEF Replays!ReplayNext, vars, tables
  <2> QED
    BY <2>1, <2>3, Replays!StepGetsOn
<1> QED
  BY <1>1, <1>2, Together, PTL DEF RSpec
=============================================================================
