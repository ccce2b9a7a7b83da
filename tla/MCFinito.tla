-------------------------------- MODULE MCFinito --------------------------------
(* The state machines kept in Postgres: a door, and a machine whose action *)
(* returns an event.                                                       *)
EXTENDS FinitoPostgres, FinitoDoor

CONSTANTS m1, m2, t1, t2

(* Doors. *)
DoorFSM == [se \in DoorStates \X DoorEvents |-> advance(se[1], se[2])]
DoorReturns == [a \in DoorActions |-> {<<>>}]

(* A locked door with two attempts left, and somebody who tries codes. *)
LockedDoor == {Locked("1337", 2)}
KeypadEvents == {Unlock(c) : c \in Codes}
KeypadFSM == [se \in DoorStates \X KeypadEvents |-> advance(se[1], se[2])]

(***************************************************************************)
(* The police is asked for once for a door, exactly when the last of the   *)
(* remaining attempts has failed, although attempts race with each other;  *)
(* and it is called at most once, for a door that is disabled, whatever    *)
(* becomes of the action's status.  A process that dies, or an action that *)
(* panics, may leave it uncalled: nobody runs a pending action again.      *)
(***************************************************************************)
PoliceCalledOnce ==
  \A m \in Machines :
    LET asked == {a \in DOMAIN actions : actions[a].machine = m /\ actions[a].kind = "CallThePolice"}
        calls == {i \in DOMAIN effects : effects[i] \in asked}
    IN  /\ \A a, b \in asked : a = b
        /\ asked # {} <=> state[m] = Door("Disabled")
        /\ \A i, j \in calls : i = j
        /\ calls # {} => state[m] = Door("Disabled")

(***************************************************************************)
(* A state machine that uses events returned by actions: on "go" it starts *)
(* to fetch something, and the action that does so may return "done".      *)
(***************************************************************************)
FetchStates == {"waiting", "fetching"}
FetchEvents == {"go", "done"}
FetchKinds  == {"fetch", "log"}

FetchFSM ==
  [se \in FetchStates \X FetchEvents |->
     CASE se = <<"waiting", "go">>    -> [state |-> "fetching", actions |-> <<"fetch", "log">>]
       [] se = <<"fetching", "done">> -> [state |-> "waiting", actions |-> <<"log">>]
       [] OTHER                       -> [state |-> se[1], actions |-> <<>>]]

FetchReturns == [k \in FetchKinds |-> IF k = "fetch" THEN {<<>>, <<"done">>} ELSE {<<>>}]
WaitingOnly  == {"waiting"}
================================================================================
