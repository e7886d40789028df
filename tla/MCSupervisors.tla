----------------------------- MODULE MCSupervisors -----------------------------
(* Four watchers of something that may fail at any time: the forward with two *)
(* ssh children and a slow attempt, its holders, the guard of ros_gz_bridge,  *)
(* the presence watch. They share      *)
(* nothing here, so a behaviour is one of them; a scene that is not played    *)
(* stands still.                                                              *)
EXTENDS SshTunnel, ForwardHolders, BridgeGuard, PresenceWatch

CONSTANTS p1, p2, o1

VARIABLE scene

In(s, step) == scene = s /\ step

allVars == <<vars, holderVars, guardVars, presenceVars, scene>>

MCInit ==
    /\ scene \in {"forward", "holders", "bridge", "presence"}
    /\ Init
    /\ HoldersInit /\ (scene # "holders" => lingers)
    /\ GuardInit /\ (scene # "bridge" => expected = CHOOSE n \in ExpectedMarkers : TRUE)
    /\ PresenceInit /\ (scene # "presence" => served /\ talking)

MCNext ==
    /\ UNCHANGED scene
    /\ \/ scene = "forward" /\ Next /\ UNCHANGED <<holderVars, guardVars, presenceVars>>
       \/ scene = "holders" /\ HoldersNext /\ UNCHANGED <<vars, guardVars, presenceVars>>
       \/ scene = "bridge" /\ GuardNext /\ UNCHANGED <<vars, holderVars, presenceVars>>
       \/ scene = "presence" /\ PresenceNext /\ UNCHANGED <<vars, holderVars, guardVars>>

\* Threads run; every wait of the forward's supervisor but Sleep is bounded.
ForwardFairness ==
    /\ WF_vars(In("forward", Supervise)) /\ WF_vars(In("forward", Close))
    /\ \A p \in Ssh : WF_vars(In("forward", Watch(p)))
    /\ \A o \in Operator : WF_vars(In("forward", Operate(o)))

\* Timers fire, and a release that began ends.
HoldersFairness ==
    /\ \A k \in Forwards : WF_holderVars(In("holders", Timers(k)))
    /\ \A a \in Adapters : WF_holderVars(In("holders", Owner(a)))

\* The guard's loop and the relay run, and deadlines pass.
BridgeFairness ==
    /\ WF_guardVars(In("bridge", Main)) /\ WF_guardVars(In("bridge", Relay))
    /\ WF_guardVars(In("bridge", Deadlines))

\* Threads run, time passes, and the keep-alive notices a dead server.
PresenceFairness ==
    /\ WF_presenceVars(In("presence", WatchStep)) /\ WF_presenceVars(In("presence", TellDrop))
    /\ WF_presenceVars(In("presence", NoteTime \/ Store)) /\ WF_presenceVars(In("presence", Deliver))
    /\ WF_presenceVars(In("presence", LinkFalls)) /\ WF_presenceVars(In("presence", TimePasses))
    /\ WF_presenceVars(In("presence", RefreshOpens))

MCSpec ==
    /\ MCInit /\ [][MCNext]_allVars
    /\ ForwardFairness /\ HoldersFairness /\ BridgeFairness /\ PresenceFairness
================================================================================
