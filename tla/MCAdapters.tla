----------------------------- MODULE MCAdapters -----------------------------
(* Two parts whose host threads share state with a thread that moves the    *)
(* robot: the shortcut inputs, and an arm. They share nothing here, so a    *)
(* behaviour is one of them; the other stands still.                        *)
EXTENDS ShortcutControl, ArmAdapter

CONSTANTS c1, c2

VARIABLE scene

In(s, step) == scene = s /\ step

\* One of the states the arm may begin in, while nobody looks at it.
ArmStandsBy == mode = "hold" /\ ~torque

MCInit ==
    /\ scene \in {"shortcut", "arm"}
    /\ Init
    /\ ArmInit /\ (scene # "arm" => ArmStandsBy)

MCNext ==
    /\ UNCHANGED scene
    /\ \/ scene = "shortcut" /\ Next /\ UNCHANGED armVars
       \/ scene = "arm" /\ ArmNext /\ UNCHANGED vars

\* The timer keeps the control thread ticking, and time passes.
ShortcutFairness == WF_vars(In("shortcut", Control)) /\ WF_vars(In("shortcut", Pass))

\* Threads that began a call run on, and time passes.
ArmFairness ==
    /\ \A j \in Job : WF_armVars(In("arm", Motion(j))) /\ WF_armVars(In("arm", Expire(j)))
    /\ \A t \in Thread : WF_armVars(In("arm", Stopping(t)))

MCSpec == MCInit /\ [][MCNext]_<<vars, armVars, scene>> /\ ShortcutFairness /\ ArmFairness

-----------------------------------------------------------------------------

Ev(id, phase, control, session, sequence) ==
    [id |-> id, phase |-> phase, source |-> "keyboard", control |-> control,
     session |-> session, sequence |-> sequence]

Keys == {<<"keyboard", "up">>, <<"keyboard", "down">>}

\* A hold of one key and a press of another; on the topic, the heartbeat again,
\* and the keyboard leaves.
Beat  == Ev("h", "heartbeat", "up", "s", 2)
Hold  == {Ev("p", "press", "up", "s", 1), Beat, Ev("r", "release", "up", "s", 3),
          Ev("q", "press", "down", "t", 1)}
Aside == {Beat, Ev("d", "disconnect", "up", "s", 4)}
=============================================================================
