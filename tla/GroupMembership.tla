-------------------------- MODULE GroupMembership --------------------------
(***************************************************************************)
(* What the server promises about groups, whatever bind codes, requests,   *)
(* clocks and event streams go into keeping it: a device is a member of at *)
(* most one group, a group never outgrows its capacity, the group key is   *)
(* replaced in the very step that brings a device over from another group, *)
(* and a device that was removed never comes back.                         *)
(***************************************************************************)
EXTENDS Integers, FiniteSets

CONSTANTS
  Devices,   \* devices that may ever exist
  Groups,    \* groups that may ever exist
  Capacity   \* members a group may have

VARIABLES
  members,   \* the members of each group
  epoch,     \* the version of the key of each group, 0 before it is founded
  former     \* the devices that have been removed

vars == <<members, epoch, former>>

Enrolled(d) == \E g \in Groups : d \in members[g]

Newcomer(d) == ~Enrolled(d) /\ d \notin former

Init ==
  /\ members = [g \in Groups |-> {}]
  /\ epoch = [g \in Groups |-> 0]
  /\ former = {}

\* A newcomer founds a group.
Found(d, g) ==
  /\ Newcomer(d)
  /\ epoch[g] = 0
  /\ members' = [members EXCEPT ![g] = {d}]
  /\ epoch' = [epoch EXCEPT ![g] = 1]
  /\ UNCHANGED former

\* A newcomer who has the recovery phrase enters a group.
Enrol(d, g) ==
  /\ Newcomer(d)
  /\ epoch[g] > 0
  /\ Cardinality(members[g]) < Capacity
  /\ members' = [members EXCEPT ![g] = @ \cup {d}]
  /\ UNCHANGED <<epoch, former>>

\* A member of some group is brought into group g, which changes its key.
Bring(d, g) ==
  /\ Enrolled(d)
  /\ epoch[g] > 0
  /\ Cardinality(members[g]) < Capacity
  /\ members' = [h \in Groups |-> IF h = g THEN members[h] \cup {d}
                                           ELSE members[h] \ {d}]
  /\ epoch' = [epoch EXCEPT ![g] = @ + 1]
  /\ UNCHANGED former

\* A member is removed for good.
Expel(d) ==
  /\ Enrolled(d)
  /\ members' = [g \in Groups |-> members[g] \ {d}]
  /\ former' = former \cup {d}
  /\ UNCHANGED epoch

Next ==
  \E d \in Devices :
    \/ Expel(d)
    \/ \E g \in Groups : Found(d, g) \/ Enrol(d, g) \/ Bring(d, g)

Spec == Init /\ [][Next]_vars

=============================================================================
