--------------------------- MODULE MCReplayCommand ---------------------------
(***************************************************************************)
(* The replay command: three providers whose loaders do not advance, and   *)
(* an event of one message of each kind.                                   *)
(***************************************************************************)
EXTENDS Replay

MCOrder == <<"state", "driver", "speedmap">>
MCPageLimit == [state |-> 2, driver |-> 1, speedmap |-> 2]

CommandInit ==
  /\ ReplayInit
  /\ rows = [state |-> {[id |-> 1, ts |-> 1]}, driver |-> {[id |-> 1, ts |-> 2]},
             speedmap |-> {[id |-> 1, ts |-> 3]}]

CommandSpec == CommandInit /\ [][ReplayNext]_<<rows, replayVars>>
=============================================================================
