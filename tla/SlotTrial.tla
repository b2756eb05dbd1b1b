----------------------------- MODULE SlotTrial -----------------------------
(***************************************************************************)
(* What the A/B bootloader backend promises, with none of its files: a     *)
(* committed slot, at most one slot on trial, and a one-shot request to    *)
(* start the trial, all as the medium holds them.  The committed slot      *)
(* changes only to the slot that is running and on trial; a trial is       *)
(* started at most once per request; while the machine runs, a running     *)
(* trial is not forgotten before it is promoted.  A stop may cut short     *)
(* whatever was being done.                                                *)
(***************************************************************************)
CONSTANTS Slots,    \* the root filesystem slots
          None      \* no slot

VARIABLES committed,   \* the slot a normal boot selects
          onTrial,     \* the slot armed as a trial, or None
          running,     \* the slot that is up, or None
          oneShot      \* the next boot was requested as a trial boot

vars == <<committed, onTrial, running, oneShot>>

Init == /\ committed \in Slots
        /\ onTrial = None
        /\ running = None
        /\ oneShot = FALSE

(* An install finished: slot s, which is not running, becomes the trial. *)
Arm(s) == /\ running \in Slots \ {s}
          /\ committed # s
          /\ onTrial' = s
          /\ UNCHANGED <<committed, running, oneShot>>

(* The trial that is running proved itself. *)
Promote == /\ running = onTrial
           /\ running # None
           /\ committed' = running
           /\ onTrial' = None
           /\ UNCHANGED <<running, oneShot>>

(* The trial is over: it is committed already, or not what came up. *)
Forget == /\ running # None
          /\ running = onTrial => committed = onTrial
          /\ onTrial' = None
          /\ UNCHANGED <<committed, running, oneShot>>

(* The machine goes down, with or without a request for a trial boot.  A   *)
(* promotion that was going on is done or not; where a trial was being     *)
(* armed beside the committed slot, either slot's trial may be there, the  *)
(* committed one's being the rest of an old trial; or there is none.       *)
Stop == /\ running' = None
        /\ oneShot' \in BOOLEAN
        /\ \/ committed' = committed
           \/ running = onTrial /\ running # None /\ committed' = running
        /\ \/ onTrial' = onTrial
           \/ onTrial' = None /\ running # None
           \/ running = committed /\ onTrial' \in Slots

(* A normal boot always comes up. *)
BootCommitted == /\ running = None
                 /\ ~oneShot
                 /\ running' = committed
                 /\ UNCHANGED <<committed, onTrial, oneShot>>

(* The request is consumed, whether or not something comes up: the trial,  *)
(* or the committed slot when there is none.                               *)
BootTrial == /\ running = None
             /\ oneShot
             /\ oneShot' = FALSE
             /\ running' \in {None, IF onTrial = None THEN committed ELSE onTrial}
             /\ UNCHANGED <<committed, onTrial>>

Next == \/ \E s \in Slots : Arm(s)
        \/ Promote \/ Forget \/ Stop \/ BootCommitted \/ BootTrial

Spec == Init /\ [][Next]_vars
=============================================================================
