------------------------------- MODULE Replay -------------------------------
(***************************************************************************)
(* The replay of a stored event: ReplayTask of server/analysis, which      *)
(* recomputes the analysis from the states and the driver data, and its    *)
(* twin of the replay command, which sends the event once more.  For each  *)
(* kind a provider goroutine reads the messages page by page and offers    *)
(* them on an unbuffered channel; one goroutine merges the channels by     *)
(* time stamp.                                                             *)
(***************************************************************************)
EXTENDS Paging, Sequences

CONSTANTS
  Order,      \* the providers in the order in which the merge looks at them
  PageLimit,  \* entries per query, for each provider
  Advances,   \* a fetcher goes on behind its last page: that of the analysis
  MaxOut,     \* bound on the messages that are processed
  MaxErrors   \* bound on the queries that fail

Providers == {Order[i] : i \in DOMAIN Order}

\* What the constants are; stated by the modules that use this one.
Parameters ==
  /\ Order \in Seq(Providers) /\ Order # <<>>
  /\ \A i, j \in DOMAIN Order : Order[i] = Order[j] => i = j
  /\ PageLimit \in [Providers -> Nat \ {0}] /\ Advances \in BOOLEAN
  /\ MaxOut \in Nat /\ MaxErrors \in Nat

VARIABLES
  rows,    \* for each kind the stored messages; the replay only reads them
  from,    \* the id at which the next page starts
  buffer,  \* commonFetcher.buffer
  prov,    \* provider goroutine: "next", "send", "closed"
  offer,   \* provider goroutine: the message it sends
  merge,   \* merge goroutine: "idle", "fill", "pick", "refill", "done"
  pData,   \* the providers that are merged
  turn,    \* index in pData of the channel that is read
  head,    \* peek.dataReq, NoRow after the channel was closed
  out,     \* history: the messages in the order they were processed
  crash,   \* why the process ended, if it did
  errors

NoRow == [id |-> 0, ts |-> 0]

replayVars == <<from, buffer, prov, offer, merge, pData, turn, head, out, crash, errors>>

ReplayInit ==
  /\ from = [k \in Providers |-> 0]
  /\ buffer = [k \in Providers |-> <<>>]
  /\ prov = [k \in Providers |-> "next"]
  /\ offer = [k \in Providers |-> NoRow]
  /\ merge = "idle" /\ pData = Order /\ turn = 1
  /\ head = [k \in Providers |-> NoRow]
  /\ out = <<>> /\ crash = "no" /\ errors = 0

\* Replay starts the goroutines.
StartReplay ==
  /\ merge = "idle"
  /\ merge' = "fill"
  /\ UNCHANGED <<from, buffer, prov, offer, pData, turn, head, out, crash, errors>>

Running == merge # "idle" /\ crash = "no"

-----------------------------------------------------------------------------
(* provideDriverData, provideStateData, provideSpeedmapData.  The analysis  *)
(* has its first pages before the goroutines start, which is not different. *)

Offer(k, r, rest) ==
  /\ offer' = [offer EXCEPT ![k] = r]
  /\ buffer' = [buffer EXCEPT ![k] = rest]
  /\ prov' = [prov EXCEPT ![k] = "send"]

NextBuffered(k) ==
  /\ Running /\ prov[k] = "next" /\ buffer[k] # <<>>
  /\ Offer(k, Head(buffer[k]), Tail(buffer[k]))
  /\ UNCHANGED <<from, merge, pData, turn, head, out, crash, errors>>

\* The loader of the analysis asks for the ids behind the last page.  That of
\* the command asks for the time it began with: lastTS is never assigned.
NextId(k, p) == IF Advances THEN p[Len(p)].id + 1 ELSE from[k]

\* Mutant of NextPage: the goroutine returns and does not close its channel.
NextPageUnclosed(k) ==
  /\ Running /\ prov[k] = "next" /\ buffer[k] = <<>>
  /\ \E p \in Pages(rows[k], from[k], PageLimit[k]) :
       IF p = <<>>
       THEN prov' = [prov EXCEPT ![k] = "returned"] /\ UNCHANGED <<offer, buffer, from>>
       ELSE /\ Offer(k, Head(p), Tail(p))
            /\ from' = [from EXCEPT ![k] = NextId(k, p)]
  /\ UNCHANGED <<merge, pData, turn, head, out, crash, errors>>

NextPage(k) ==
  /\ Running /\ prov[k] = "next" /\ buffer[k] = <<>>
  /\ \E p \in Pages(rows[k], from[k], PageLimit[k]) :
       IF p = <<>>
       THEN prov' = [prov EXCEPT ![k] = "closed"] /\ UNCHANGED <<offer, buffer, from>>
       ELSE /\ Offer(k, Head(p), Tail(p))
            /\ from' = [from EXCEPT ![k] = NextId(k, p)]
  /\ UNCHANGED <<merge, pData, turn, head, out, crash, errors>>

\* A query fails: the analysis reads the data of a result it did not get, the
\* command ends itself.  (The analysis returns an error of its first query.)
LoadFails(k) ==
  /\ Running /\ prov[k] = "next" /\ buffer[k] = <<>> /\ errors < MaxErrors
  /\ Advances => from[k] # 0
  /\ crash' = "load" /\ errors' = errors + 1
  /\ UNCHANGED <<from, buffer, prov, offer, merge, pData, turn, head, out>>

-----------------------------------------------------------------------------
(* processData of the analysis, sendData of the command.  The command gives *)
(* up when the server does not take a message; that is left out.            *)

\* The receive on the channel of k: a message, or none if it is closed.
Receive(k) ==
  \/ /\ prov[k] = "send"
     /\ head' = [head EXCEPT ![k] = offer[k]]
     /\ prov' = [prov EXCEPT ![k] = "next"]
  \/ /\ prov[k] = "closed"
     /\ head' = [head EXCEPT ![k] = NoRow]
     /\ UNCHANGED prov

\* refill of every provider; an exhausted one is only logged.
Fill ==
  /\ Running /\ merge = "fill"
  /\ Receive(pData[turn])
  /\ IF turn = Len(pData) THEN merge' = "pick" /\ turn' = 1
     ELSE turn' = turn + 1 /\ UNCHANGED merge
  /\ UNCHANGED <<from, buffer, offer, pData, out, crash, errors>>

Dry(i) == head[pData[i]] = NoRow

\* Mutant of IsNext: any provider that is not behind all the others.
IsNextLatest(i) ==
  \A j \in DOMAIN pData : head[pData[i]].ts >= head[pData[j]].ts

\* The first one with the smallest time stamp.
IsNext(i) ==
  \A j \in DOMAIN pData :
    /\ head[pData[i]].ts <= head[pData[j]].ts
    /\ j < i => head[pData[i]].ts < head[pData[j]].ts

Pick ==
  /\ Running /\ merge = "pick" /\ Len(out) < MaxOut
  /\ \A i \in DOMAIN pData : ~Dry(i)
  /\ \E i \in DOMAIN pData :
       /\ IsNext(i)
       /\ turn' = i
       /\ out' = Append(out, [kind |-> pData[i], row |-> head[pData[i]]])
  /\ merge' = "refill"
  /\ UNCHANGED <<from, buffer, prov, offer, pData, head, crash, errors>>

\* The time stamp of a message that is not there.
PickNil ==
  /\ Running /\ merge = "pick"
  /\ \E i \in DOMAIN pData : Dry(i)
  /\ crash' = "nil"
  /\ UNCHANGED <<from, buffer, prov, offer, merge, pData, turn, head, out, errors>>

Without(i) == [j \in 1 .. (Len(pData) - 1) |-> IF j < i THEN pData[j] ELSE pData[j + 1]]

\* Mutant of Refill: an exhausted provider stays.
RefillKeeping ==
  /\ Running /\ merge = "refill"
  /\ Receive(pData[turn])
  /\ merge' = "pick"
  /\ UNCHANGED <<from, buffer, offer, pData, turn, out, crash, errors>>

\* Mutant of Refill: the first provider that is exhausted ends the replay.
RefillFirstDry ==
  /\ Running /\ merge = "refill"
  /\ Receive(pData[turn])
  /\ IF prov[pData[turn]] = "send" THEN merge' = "pick" /\ UNCHANGED pData
     ELSE pData' = Without(turn) /\ merge' = "done"
  /\ UNCHANGED <<from, buffer, offer, turn, out, crash, errors>>

Refill ==
  /\ Running /\ merge = "refill"
  /\ Receive(pData[turn])
  /\ IF prov[pData[turn]] = "send" THEN merge' = "pick" /\ UNCHANGED pData
     ELSE /\ pData' = Without(turn)
          /\ merge' = IF Len(pData) = 1 THEN "done" ELSE "pick"
  /\ UNCHANGED <<from, buffer, offer, turn, out, crash, errors>>

-----------------------------------------------------------------------------
ReplayStep ==
  \/ \E k \in Providers : NextBuffered(k) \/ NextPage(k) \/ LoadFails(k)
  \/ Fill \/ Pick \/ PickNil \/ Refill

ReplayNext == (StartReplay \/ ReplayStep) /\ UNCHANGED rows

\* The goroutines of the task have ended.
Returned == merge = "done" /\ \A k \in Providers : prov[k] = "closed"
-----------------------------------------------------------------------------
Message == [id : Nat, ts : Nat]

\* Type invariant.
ReplayTypeOK ==
  /\ from \in [Providers -> Nat]
  /\ buffer \in [Providers -> Seq(Message)]
  /\ prov \in [Providers -> {"next", "send", "closed"}]
  /\ offer \in [Providers -> Message] /\ head \in [Providers -> Message]
  /\ \A k \in Providers : prov[k] = "send" => offer[k] # NoRow
  /\ merge \in {"idle", "fill", "pick", "refill", "done"}
  /\ pData \in Seq(Providers)
  /\ turn \in Nat /\ (merge \in {"fill", "refill"} => turn \in DOMAIN pData)
  /\ out \in Seq([kind : Providers, row : Message])
  /\ crash \in {"no", "load", "nil"} /\ errors \in Nat

(***************************************************************************)
(* A message that is processed after one with a later time stamp was late  *)
(* in its own provider already: another message of its kind with at least  *)
(* that time stamp has the same or a smaller id.  The merge, with its      *)
(* providers running at any speed, brings nothing out of order itself.     *)
(***************************************************************************)
MergeOrdered ==
  \A i, j \in DOMAIN out :
    (i < j /\ out[j].row.ts < out[i].row.ts) =>
      \E r \in rows[out[j].kind] : r.id <= out[j].row.id /\ r.ts >= out[i].row.ts

(***************************************************************************)
(* No message is processed twice, and the messages of a kind in the order  *)
(* of their ids: the recomputation sees what the live processor saw.       *)
(***************************************************************************)
EachOnce ==
  \A i, j \in DOMAIN out :
    (i < j /\ out[i].kind = out[j].kind) =>
      out[i].row # out[j].row /\ out[i].row.id <= out[j].row.id

(***************************************************************************)
(* Moreover, when the merge is done every stored message was processed,    *)
(* but for those that share an id with one that was (see StreamFaithful).  *)
(***************************************************************************)
AllOnce ==
  /\ EachOnce
  /\ merge = "done" =>
       \A k \in Providers : \A r \in rows[k] :
         \E i \in DOMAIN out : out[i].kind = k /\ out[i].row.id = r.id

(***************************************************************************)
(* A replay without failing queries ends the process only for an event     *)
(* that lacks a kind of messages altogether; a provider that runs dry      *)
(* later is not asked for its time stamp again.                            *)
(***************************************************************************)
CrashOnlyIfEmpty == crash = "nil" => \E k \in Providers : rows[k] = {}
=============================================================================
