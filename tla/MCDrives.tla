-------------------------------- MODULE MCDrives --------------------------------
(* Drives over either transport: a rosbridge connection that also slows them   *)
(* down, or an rclpy node that only stops them. A host has one of the two, so  *)
(* a behaviour is one transport; an instance without rclpy drives is about     *)
(* rosbridge alone.                                                            *)
EXTENDS RosbridgeGoals, RclpyGoals, TLC

VARIABLE transport

CONSTANTS c1, c2, j1, j2

\* One host job per call.
OneCall == (j1 :> c1)
OneEach == (j1 :> c1) @@ (j2 :> c2)

\* Calls change places together with their jobs.
Twins == {p \in Permutations(Call \cup Job) :
              \A j \in Job : p[j] \in Job /\ CallOf[p[j]] = p[CallOf[j]]}

\* All calls are goals of one Nav2 action server.
OneServer == [c \in Call |-> "nav"]

DrivesInit == Init /\ RclpyInit /\ transport \in {"rosbridge", "rclpy"}

DrivesNext ==
    /\ UNCHANGED transport
    /\ \/ transport = "rosbridge" /\ Next /\ UNCHANGED rclpyVars
       \/ transport = "rclpy" /\ RclpyNext /\ UNCHANGED vars

\* Over rclpy everything named here is idle, and asks for nothing.
DrivesSpec == DrivesInit /\ [][DrivesNext]_<<vars, rclpyVars, transport>> /\ Fairness

\* A drive stays under control, over either transport: it is watched, its guard's
\* stop reached it, and whoever cancels or stops the call addresses the goal that
\* drives.
DrivesAreInHand == DriveIsInHand /\ RclpyKeepsHold
=================================================================================
