----------------------------- MODULE TunnelGroups -----------------------------
(***************************************************************************)
(* The tunnel managers of a Runtime: the root, which serves OpenTransport,   *)
(* and one per gateway group, which ForApp makes when an application of the  *)
(* group is dialled first.  Reset and Close of the root end those of the     *)
(* groups.                                                                   *)
(*                                                                         *)
(* TunnelManager is the detailed model of one of them and implements         *)
(* ManagerNext (its SeenAsManager).  Here a manager is what the others and   *)
(* the Runtime see of it: the session its tunnel authenticated with, and its *)
(* shared connect, which reads the credential when it begins an attempt.     *)
(***************************************************************************)
EXTENDS Naturals, Sequences

CONSTANT MaxManagers  \* bound: managers made

ASSUME GroupsAssumption == MaxManagers \in Nat \ {0}

VARIABLES
  managers,  \* the managers in the order they were made, the root first
  group      \* Manager.groups of the root: the manager of the group, or 0

groupVars == <<managers, group>>

Root == 1

\* tunnel: session of the current tunnel, 0 for none; sid: the one a connect
\* has read.
Manager == [closed |-> FALSE, tunnel |-> 0, connect |-> "no", sid |-> 0]

GroupsInit == managers = <<Manager>> /\ group = 0

Closed(m) == managers[m].closed

\* A connect that is given up closes what it builds.
GivenUp(manager) == [manager EXCEPT !.connect = "no", !.sid = 0]

\* Reset of the root and Close of any manager: its connect and its tunnel end.
Cut(m, forGood) ==
  [managers EXCEPT ![m].connect = "no", ![m].sid = 0, ![m].tunnel = 0,
                   ![m].closed = @ \/ forGood]

-----------------------------------------------------------------------------
(* Tunnel *)

\* Another tunnel than the one that is asked for is closed, and a connect joined
\* or begun.
Asks(m) ==
  managers' = [managers EXCEPT ![m].tunnel = 0, ![m].connect = IF @ = "no" THEN "begun" ELSE @]

ConnectReads(m, served) ==
  /\ managers[m].connect = "begun" /\ served # 0
  /\ managers' = [managers EXCEPT ![m].connect = "building", ![m].sid = served]
  /\ UNCHANGED group

\* An attempt ends with a tunnel, is followed by another one, or was the last.
ConnectEnds(m) ==
  /\ managers[m].connect # "no"
  /\ \/ /\ managers[m].connect = "building"
        /\ managers' = [managers EXCEPT ![m] = [GivenUp(@) EXCEPT !.tunnel = managers[m].sid]]
     \/ managers' = [managers EXCEPT ![m].connect = "begun", ![m].sid = 0]
     \/ managers' = [managers EXCEPT ![m] = GivenUp(@)]
  /\ UNCHANGED group

TunnelDies(m) ==
  /\ managers[m].tunnel # 0
  /\ managers' = [managers EXCEPT ![m].tunnel = 0] /\ UNCHANGED group

\* A step of manager m while the provider serves the given session.
ManagerNext(m, served) ==
  \/ Asks(m) \/ ConnectReads(m, served) \/ ConnectEnds(m) \/ TunnelDies(m)
  \/ \E forGood \in BOOLEAN : managers' = Cut(m, forGood)

-----------------------------------------------------------------------------
(* ForApp, Reset and Close of the root *)

\* The manager of the group, made now if there is none, under groupsMu.
FindsGroup ==
  /\ ~Closed(Root)
  /\ IF group # 0 THEN UNCHANGED groupVars
     ELSE /\ Len(managers) < MaxManagers
          /\ managers' = Append(managers, Manager) /\ group' = Len(managers')

\* Mutant of CutsGroups: they are forgotten and not closed.
ForgetsGroups == group' = 0 /\ UNCHANGED managers

CutsGroups ==
  /\ managers' = IF group = 0 THEN managers ELSE Cut(group, TRUE)
  /\ group' = 0

=============================================================================
