----------------------------- MODULE Mailboxes -----------------------------
(***************************************************************************)
(* What the server promises about getting items to devices.  Each device   *)
(* has a queue and may have a callback.  An item meant for a set of        *)
(* devices goes, in one step, to the callback of each of them that has one *)
(* and into the queue of each of them that has none: never to both, never  *)
(* to neither, never to a callback that has been replaced or closed.       *)
(* Nothing else puts an item anywhere.                                     *)
(***************************************************************************)
CONSTANTS
  Devices,    \* the devices with a mailbox
  Items,      \* the items there may be
  Callbacks,  \* the callbacks devices may be reached by
  Nobody      \* the holder of the mailbox of a device that is away

VARIABLES
  queue,      \* the items waiting for each device
  holder,     \* the callback of each device, or Nobody
  told        \* the items each callback has been handed

vars == <<queue, holder, told>>

Away(D) == {d \in D : holder[d] = Nobody}

Init ==
  /\ queue = [d \in Devices |-> {}]
  /\ holder = [d \in Devices |-> Nobody]
  /\ told = [c \in Callbacks |-> {}]

\* Item i is handed to the devices of D.  Old items may leave queues meanwhile.
Fanout(i, D) ==
  /\ told' = [c \in Callbacks |->
                IF \E d \in D : holder[d] = c THEN told[c] \cup {i} ELSE told[c]]
  /\ \A d \in Away(D) : i \in queue'[d]
  /\ \A d \in Devices :
       queue'[d] \subseteq queue[d] \cup {j \in {i} : d \in Away(D)}
  /\ queue' = [d \in Devices |-> queue'[d]]
  /\ UNCHANGED holder

\* Items leave queues: acknowledged, or too old.
Forget ==
  /\ queue' = [d \in Devices |-> queue'[d]]
  /\ \A d \in Devices : queue'[d] \subseteq queue[d]
  /\ UNCHANGED <<holder, told>>

\* A device gets a callback, or has it replaced.
Hold(d, c) ==
  /\ holder' = [holder EXCEPT ![d] = c]
  /\ UNCHANGED <<queue, told>>

\* Devices lose their callbacks, one or all at once.
Leave(D) ==
  /\ holder' = [d \in Devices |-> IF d \in D THEN Nobody ELSE holder[d]]
  /\ UNCHANGED <<queue, told>>

Next ==
  \/ \E i \in Items, D \in SUBSET Devices : Fanout(i, D)
  \/ Forget
  \/ \E d \in Devices, c \in Callbacks : Hold(d, c)
  \/ \E D \in SUBSET Devices : Leave(D)

Spec == Init /\ [][Next]_vars

=============================================================================
