--------------------------- MODULE EventRegistry ---------------------------
(***************************************************************************)
(* The live events of one instance: utils.EventLookup with its watchdog,   *)
(* the handlers of the provider server that register and unregister events *)
(* and the handlers of the state server that publish data, over the local  *)
(* proxy (whose GetEvent is the lookup's).                                 *)
(*                                                                         *)
(* An EventProcessingData is a number, in the order of creation; 0 is nil. *)
(* Its six broadcast servers are closed together, by epd.Close().  The     *)
(* handlers run concurrently; each step is what a handler does between two *)
(* points where others may run: under the mutex of the lookup, or in the   *)
(* database.  The watchdog does not take the mutex.                        *)
(***************************************************************************)
EXTENDS Integers, Sequences

CONSTANTS
  Callers,   \* RPC handlers
  Keys,      \* event keys
  MaxEpd     \* bound on the events that are added

ASSUME MaxEpdAssumption == MaxEpd \in Nat

VARIABLES
  lookup,    \* e.lookup: 0 when the key is missing
  epd,       \* the events created so far: their key and recording mode
  closed,    \* the events whose broadcast servers were closed
  stale,     \* events without data for longer than staleDuration
  db,        \* keys in the event table
  pc,        \* the handler each caller is in
  wd,        \* the watchdog: its position, the rest of toRemove
  dropped    \* history: events that left the lookup without epd.Close()

vars == <<lookup, epd, closed, stale, db, pc, wd, dropped>>

Epds == 1 .. Len(epd)

\* DO_NOT_PERSIST, and every other recording mode.
Modes == {"transient", "persist"}

Recorded(e) == epd[e].mode = "persist"

Idle == [at |-> "idle", key |-> "", mode |-> "", epd |-> 0]

Init ==
  /\ lookup = [k \in Keys |-> 0]
  /\ epd = <<>>
  /\ closed = {}
  /\ stale = {}
  /\ db = {}
  /\ pc = [c \in Callers |-> Idle]
  /\ wd = [at |-> "sleep", todo |-> {}, epd |-> 0]
  /\ dropped = {}

Goto(c, at) == pc' = [pc EXCEPT ![c].at = at]
Done(c)     == pc' = [pc EXCEPT ![c] = Idle]

\* epd.Close(): the broadcast servers are closed; closing twice is harmless.
Close(e) == closed' = closed \cup {e}

-----------------------------------------------------------------------------
(* RegisterEvent of the provider server. *)

\* The event must not be known; otherwise the answer is AlreadyExists.
RegisterCheck(c, k, mode) ==
  /\ pc[c].at = "idle"
  /\ lookup[k] = 0
  /\ pc' = [pc EXCEPT ![c] = [at |-> "storing", key |-> k, mode |-> mode, epd |-> 0]]
  /\ UNCHANGED <<lookup, epd, closed, stale, db, wd, dropped>>

\* Mutant of RegisterStore: the error of the transaction is only logged.
RegisterStoreLogged(c) ==
  /\ pc[c].at = "storing"
  /\ Goto(c, "adding")
  /\ db' = IF pc[c].mode = "persist" THEN db \cup {pc[c].key} ELSE db
  /\ UNCHANGED <<lookup, epd, closed, stale, wd, dropped>>

\* The event is inserted in a transaction unless it is not to be persisted.
\* Its key is unique in the table: a second insert is an error.  Any error is
\* returned to the caller.
RegisterStore(c) ==
  /\ pc[c].at = "storing"
  /\ \/ pc[c].mode = "transient" /\ Goto(c, "adding") /\ UNCHANGED db
     \/ /\ pc[c].mode = "persist" /\ pc[c].key \notin db
        /\ Goto(c, "adding")
        /\ db' = db \cup {pc[c].key}
     \/ pc[c].mode = "persist" /\ Done(c) /\ UNCHANGED db
  /\ UNCHANGED <<lookup, epd, closed, stale, wd, dropped>>

\* AddEvent, and the start of the workers.
RegisterAdd(c) ==
  /\ pc[c].at = "adding"
  /\ lookup[pc[c].key] = 0 /\ Len(epd) < MaxEpd
  /\ epd' = Append(epd, [key |-> pc[c].key, mode |-> pc[c].mode])
  /\ lookup' = [lookup EXCEPT ![pc[c].key] = Len(epd) + 1]
  /\ Done(c)
  /\ UNCHANGED <<closed, stale, db, wd, dropped>>

\* AddEvent returns nil when the key is there; the first worker dereferences
\* it.  The panic ends this request only.
RegisterAddNil(c) ==
  /\ pc[c].at = "adding"
  /\ lookup[pc[c].key] # 0
  /\ Goto(c, "panic")
  /\ UNCHANGED <<lookup, epd, closed, stale, db, wd, dropped>>

PanicRecovered(c) ==
  /\ pc[c].at = "panic"
  /\ Done(c)
  /\ UNCHANGED <<lookup, epd, closed, stale, db, wd, dropped>>

-----------------------------------------------------------------------------
(* UnregisterEvent and UnregisterAll of the provider server. *)

\* validateEventAccess finds the event; otherwise the answer is NotFound.
UnregisterValidate(c, k) ==
  /\ pc[c].at = "idle"
  /\ lookup[k] # 0
  /\ pc' = [pc EXCEPT ![c] = [at |-> "unregister", key |-> k, mode |-> "", epd |-> 0]]
  /\ UNCHANGED <<lookup, epd, closed, stale, db, wd, dropped>>

\* The event is looked up again and may be gone by now.
UnregisterLoad(c) ==
  /\ pc[c].at = "unregister"
  /\ LET e == lookup[pc[c].key]
     IN  IF e = 0 THEN Done(c) ELSE Goto(c, "saving")
  /\ UNCHANGED <<lookup, epd, closed, stale, db, wd, dropped>>

\* storeAnalysisData and storeReplayInfo write rows that nobody reads here; the
\* event may be replaced meanwhile.
UnregisterSave(c) ==
  /\ pc[c].at = "saving"
  /\ Goto(c, "removing")
  /\ UNCHANGED <<lookup, epd, closed, stale, db, wd, dropped>>

\* Mutant of UnregisterRemove: the event is not closed.
UnregisterRemoveOpen(c) ==
  /\ pc[c].at = "removing"
  /\ lookup' = [lookup EXCEPT ![pc[c].key] = 0]
  /\ Done(c)
  /\ UNCHANGED <<epd, closed, stale, db, wd, dropped>>

\* RemoveEvent takes whatever event has the key now.
UnregisterRemove(c) ==
  /\ pc[c].at = "removing"
  /\ LET e == lookup[pc[c].key]
     IN  \/ e # 0 /\ Close(e) /\ lookup' = [lookup EXCEPT ![pc[c].key] = 0]
         \/ e = 0 /\ UNCHANGED <<lookup, closed>>
  /\ Done(c)
  /\ UNCHANGED <<epd, stale, db, wd, dropped>>

Registered == {lookup[k] : k \in Keys} \ {0}

\* UnregisterAll: the analysis of the events of GetEvents is stored ...
UnregisterAllSave(c) ==
  /\ pc[c].at = "idle"
  /\ Goto(c, "clearing")
  /\ UNCHANGED <<lookup, epd, closed, stale, db, wd, dropped>>

\* ... and Clear replaces the map without closing what is in it.
Clear(c) ==
  /\ pc[c].at = "clearing"
  /\ lookup' = [k \in Keys |-> 0]
  /\ dropped' = dropped \cup Registered
  /\ Done(c)
  /\ UNCHANGED <<epd, closed, stale, db, wd>>

-----------------------------------------------------------------------------
(* PublishState of the state server: the event is looked up, marked as     *)
(* alive and its processor sends to the sources of the broadcast servers.  *)

PublishLookup(c, k) ==
  /\ pc[c].at = "idle"
  /\ lookup[k] # 0
  /\ pc' = [pc EXCEPT ![c] = [at |-> "publish", key |-> k, mode |-> "", epd |-> lookup[k]]]
  /\ UNCHANGED <<lookup, epd, closed, stale, db, wd, dropped>>

\* epd.Mutex is held from MarkDataEvent to the end of ProcessState.
PublishMark(c) ==
  /\ pc[c].at = "publish"
  /\ \A d \in Callers : ~(pc[d].at = "sending" /\ pc[d].epd = pc[c].epd)
  /\ stale' = stale \ {pc[c].epd}
  /\ Goto(c, "sending")
  /\ UNCHANGED <<lookup, epd, closed, db, wd, dropped>>

\* The sends return as long as the broadcast servers run.
PublishSend(c) ==
  /\ pc[c].at = "sending"
  /\ pc[c].epd \notin closed
  /\ Done(c)
  /\ UNCHANGED <<lookup, epd, closed, stale, db, wd, dropped>>

-----------------------------------------------------------------------------
(* The watchdog, and time. *)

\* staleDuration has passed since the last data of e.
GetStale(e) ==
  /\ e \in Epds /\ e \notin stale
  /\ stale' = stale \cup {e}
  /\ UNCHANGED <<lookup, epd, closed, db, pc, wd, dropped>>

\* Mutants of WatchdogScan: the missing events are collected too; the comparison
\* with staleDuration is reversed.
WatchdogScanAll ==
  /\ wd.at = "sleep"
  /\ Registered \cap stale # {}
  /\ wd' = [at |-> "next", todo |-> {lookup[k] : k \in Keys}, epd |-> 0]
  /\ UNCHANGED <<lookup, epd, closed, stale, db, pc, dropped>>

WatchdogScanFresh ==
  /\ wd.at = "sleep"
  /\ Registered \ stale # {}
  /\ wd' = [at |-> "next", todo |-> Registered \ stale, epd |-> 0]
  /\ UNCHANGED <<lookup, epd, closed, stale, db, pc, dropped>>

\* One pass over the map collects the stale events.
WatchdogScan ==
  /\ wd.at = "sleep"
  /\ Registered \cap stale # {}
  /\ wd' = [at |-> "next", todo |-> Registered \cap stale, epd |-> 0]
  /\ UNCHANGED <<lookup, epd, closed, stale, db, pc, dropped>>

\* Each of them is closed first ...
WatchdogClose ==
  /\ wd.at = "next"
  /\ \E e \in wd.todo :
       /\ Close(e)
       /\ wd' = [at |-> "delete", todo |-> wd.todo \ {e}, epd |-> e]
  /\ UNCHANGED <<lookup, epd, stale, db, pc, dropped>>

\* Mutant of WatchdogDelete: the event stays in the map.
WatchdogKeep ==
  /\ wd.at = "delete"
  /\ wd' = [wd EXCEPT !.at = IF wd.todo = {} THEN "sleep" ELSE "next", !.epd = 0]
  /\ UNCHANGED <<lookup, epd, closed, stale, db, pc, dropped>>

\* ... and then its key is deleted, whatever event has the key by now.  The
\* callback of the local proxy does nothing.
WatchdogDelete ==
  /\ wd.at = "delete"
  /\ LET k == epd[wd.epd].key
     IN  /\ lookup' = [lookup EXCEPT ![k] = 0]
         /\ dropped' = dropped \cup ({lookup[k]} \ {0, wd.epd})
  /\ wd' = [wd EXCEPT !.at = IF wd.todo = {} THEN "sleep" ELSE "next", !.epd = 0]
  /\ UNCHANGED <<epd, closed, stale, db, pc>>

Handler(c) ==
  \/ \E k \in Keys : \/ \E mode \in Modes : RegisterCheck(c, k, mode)
                     \/ UnregisterValidate(c, k) \/ PublishLookup(c, k)
  \/ RegisterStore(c) \/ RegisterAdd(c) \/ RegisterAddNil(c) \/ PanicRecovered(c)
  \/ UnregisterLoad(c) \/ UnregisterSave(c) \/ UnregisterRemove(c)
  \/ UnregisterAllSave(c) \/ Clear(c)
  \/ PublishMark(c) \/ PublishSend(c)

Watchdog == WatchdogScan \/ WatchdogClose \/ WatchdogDelete

Next ==
  \/ \E c \in Callers : Handler(c)
  \/ \E e \in Epds : GetStale(e)
  \/ Watchdog

Spec == Init /\ [][Next]_vars

\* The watchdog goroutine keeps looping; it waits for nobody.
FairSpec == Spec /\ WF_vars(Watchdog)
-----------------------------------------------------------------------------
CallType ==
  [at : {"idle", "storing", "adding", "panic", "unregister", "saving",
         "removing", "clearing", "publish", "sending"},
   key : Keys \cup {""}, mode : Modes \cup {""}, epd : Nat]

EpdType == [key : Keys, mode : Modes]

\* Type invariant.
TypeOK ==
  /\ lookup \in [Keys -> Nat]
  /\ epd \in Seq(EpdType)
  /\ closed \subseteq Epds /\ stale \subseteq Epds
  /\ db \subseteq Keys
  /\ pc \in [Callers -> CallType]
  /\ wd \in [at : {"sleep", "next", "delete"}, todo : SUBSET Epds, epd : Nat]
  /\ dropped \subseteq Epds

(***************************************************************************)
(* A handler that finds an event in the lookup can send to it: a           *)
(* registered event has running broadcast servers, except for the one the  *)
(* watchdog has closed and is about to delete (it works without the        *)
(* mutex).  Sending to a closed one blocks for ever.                       *)
(***************************************************************************)
RegisteredIsOpen ==
  \A k \in Keys : lookup[k] # 0 =>
    \/ lookup[k] \notin closed
    \/ wd.at = "delete" /\ wd.epd = lookup[k]

(***************************************************************************)
(* No event is forgotten with its goroutines running: what is open is in   *)
(* the lookup, under its own key, or was dropped by Clear or by the        *)
(* watchdog's delete of a key that was registered again.                   *)
(***************************************************************************)
OpenIsRegistered ==
  \A e \in Epds : e \in closed \/ lookup[epd[e].key] = e \/ e \in dropped

(***************************************************************************)
(* However registrations race, a key is recorded in the database by at     *)
(* most one event, and that event is in the table: RegisterEvent's check   *)
(* of the lookup is not atomic with AddEvent, the unique key makes up for  *)
(* it (as long as nobody deletes the row of a live event).                 *)
(***************************************************************************)
OneRecording ==
  /\ \A e \in Epds : Recorded(e) => epd[e].key \in db
  /\ \A e, f \in Epds : Recorded(e) /\ Recorded(f) /\ epd[e].key = epd[f].key => e = f

(***************************************************************************)
(* The inductive invariant behind the three: a key leads to an event of    *)
(* that key, the watchdog deletes what it has closed, and a recording that *)
(* is about to be added has reserved its key in the table.                 *)
(***************************************************************************)
LookupState ==
  \A k \in Keys : lookup[k] # 0 => lookup[k] \in Epds /\ epd[lookup[k]].key = k

WatchdogState ==
  /\ wd.at = "delete" => wd.epd \in Epds /\ wd.epd \in closed
  /\ wd.todo \subseteq Epds

Reserving(c) == pc[c].at = "adding" /\ pc[c].mode = "persist"

CallerState ==
  /\ \A c \in Callers :
       pc[c].at \in {"storing", "adding"} => pc[c].key \in Keys /\ pc[c].mode \in Modes
  /\ \A c \in Callers :
       pc[c].at \in {"unregister", "saving", "removing"} => pc[c].key \in Keys
  /\ \A c \in Callers : Reserving(c) =>
       /\ pc[c].key \in db
       /\ \A e \in Epds : ~(Recorded(e) /\ epd[e].key = pc[c].key)
       /\ \A d \in Callers : Reserving(d) /\ pc[d].key = pc[c].key => d = c

IInv ==
  /\ TypeOK /\ LookupState /\ WatchdogState /\ CallerState
  /\ RegisteredIsOpen /\ OpenIsRegistered /\ OneRecording

(***************************************************************************)
(* The watchdog is there "to remove stale events": an event without data   *)
(* does not stay registered for ever.                                      *)
(***************************************************************************)
StaleRemoved ==
  \A e \in 1 .. MaxEpd, k \in Keys :
    (lookup[k] = e /\ e \in stale) ~> (lookup[k] # e \/ e \notin stale)

(***************************************************************************)
(* An option of the lookup says: "a watchdog will be started to remove     *)
(* stale events".  What it removes was found stale by it.                  *)
(***************************************************************************)
RemovesOnlyStale ==
  [][WatchdogDelete => \A k \in Keys : lookup'[k] # lookup[k] => lookup[k] = wd.epd]_vars
=============================================================================
