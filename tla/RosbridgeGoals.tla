--------------------------- MODULE RosbridgeGoals ---------------------------
(***************************************************************************)
(* The goals one RosbridgeROS2Backend (generic_ros2_adapter.py) has on the *)
(* robot, and every thread that touches them:                              *)
(*                                                                         *)
(*   - a Job is a host thread inside GenericROS2Adapter.invoke(); it sends *)
(*     the goal of its call once, waits for the result, and carries out    *)
(*     what the braking guard of the drive decides (brake, slow down);     *)
(*   - a Canceller runs cancel(), a Stopper runs safe_stop(), which        *)
(*     cancels every active goal of the connection in turn;                *)
(*   - the reader thread stores results and judges the guards on each scan;*)
(*   - reconnect() replaces a dropped socket.                              *)
(*                                                                         *)
(* The robot (rosbridge and its action servers) is outside the repository. *)
(* It is what the code assumes: messages arrive in order, a new goal on an *)
(* action server preempts the goal before it, a goal belongs to the socket *)
(* that sent it, and a dropped socket leaves its goals running.            *)
(*                                                                         *)
(* One action is what a thread does between two points where another       *)
(* thread can run: a socket send, a wait, or the release of _condition.    *)
(* Time is not modelled: a deadline may pass whenever its wait would block.*)
(***************************************************************************)
EXTENDS Integers, Sequences, FiniteSets

CONSTANTS
    Call,        \* call ids of motions
    Guarded,     \* the calls whose drive gets a braking guard
    Job,         \* host threads that invoke a call and may retry it
    CallOf,      \* CallOf[j]: the call job j invokes
    ServerOf,    \* ServerOf[c]: the action server that runs call c
    Canceller,   \* host threads that cancel one call
    Stopper,     \* host threads that safe stop the robot
    MaxTries,    \* invokes (and retries) per job
    MaxSlow,     \* slower goals a guard may send per drive
    MaxSocket,   \* sockets: 1 + reconnects
    None         \* no goal, no call

ASSUME CallAssumption ==
    /\ Guarded \subseteq Call
    /\ CallOf \in [Job -> Call]
    /\ Canceller \cap Stopper = {}
ASSUME BoundAssumption ==
    /\ MaxTries \in Nat /\ MaxSlow \in Nat /\ MaxSocket \in Nat /\ MaxSocket > 0
    /\ None \notin Call \cup ((1..MaxSocket) \X Call \X (0..MaxSlow))

Withdrawer == Canceller \cup Stopper

\* A goal on the robot: <<socket, call, sequence>>. Its id on the wire is the
\* call id for sequence 0 and "<call>#slow<sequence>" for a slower goal.
GoalId == (1..MaxSocket) \X Call \X (0..MaxSlow)

\* Action result codes of ROS 2: 4 succeeded, 5 canceled, 6 aborted.
Status == {4, 5, 6}
NoStatus == 0
Outcome == {"completed", "failed", "cancelled"}

NoGuard  == [on |-> FALSE, tripped |-> FALSE, slow |-> FALSE, sent |-> FALSE, n |-> 0]
NewGuard == [on |-> TRUE, tripped |-> FALSE, slow |-> FALSE, sent |-> FALSE, n |-> 0]

VARIABLES
    \* the connection and the robot
    up,          \* _connected
    sock,        \* which socket _ws is
    toRobot,     \* messages on their way to rosbridge
    toHost,      \* action results on their way to the reader
    goal,        \* state of every goal on the robot
    \* what the backend keeps
    active,      \* _active_actions
    slowId,      \* _goal_ids: the sequence of the goal that drives the call now
    owned,       \* _goal_owner: slower goals, as <<call, sequence>>
    store,       \* _action_results, by owner
    guard,       \* _guards
    kept,        \* _results
    reopening,   \* reconnect() has dropped the state of the old socket
    \* program counters and locals of the threads
    pc, tries, status, braked, swap, out,
    wpc, wcall, todo, zero, wout,
    \* history, read by properties only
    base,        \* how often the goal of a call was sent (slower goals apart)
    forgot,      \* the calls whose active goal was dropped without a result
    asked,       \* goals a cancel was sent for
    latest,      \* the last goal sent for a call
    before,      \* the goals of the calls that were active when a safe stop began
    seen         \* jobs whose result arrived while they waited, on this connection

robot   == <<toRobot, toHost, goal>>
ids     == <<active, slowId, owned>>
jobs    == <<pc, tries, status, braked, swap, out>>
withs   == <<wpc, wcall, todo, zero, wout>>
hist    == <<base, forgot, asked, latest, before, seen>>
vars    == <<up, sock, toRobot, toHost, goal, active, slowId, owned, store, guard,
             kept, reopening, pc, tries, status, braked, swap, out,
             wpc, wcall, todo, zero, wout, base, forgot, asked, latest, before, seen>>

-----------------------------------------------------------------------------
Goal(c)      == <<sock, c, slowId[c]>>
Driving(g)   == goal[g] \in {"running", "canceling"}
Waiting(c)   == {j \in Job : CallOf[j] = c /\ pc[j] \in {"wait", "brake", "slowing", "slowsend"}}
Message(op, g) == [op |-> op, goal |-> g]

\* A thread hands a message to the socket.
SendGoal(g)   == toRobot' = Append(toRobot, Message("goal", g)) /\ UNCHANGED <<toHost, goal>>
SendCancel(g) == toRobot' = Append(toRobot, Message("cancel", g)) /\ UNCHANGED <<toHost, goal>>

Step(j, from, to) == pc[j] = from /\ pc' = [pc EXCEPT ![j] = to]
Return(j, from, o) == Step(j, from, "idle") /\ out' = [out EXCEPT ![j] = o]
WStep(k, from, to) == wpc[k] = from /\ wpc' = [wpc EXCEPT ![k] = to]

-----------------------------------------------------------------------------
Init ==
    /\ up = TRUE /\ sock = 1 /\ reopening = FALSE
    /\ toRobot = <<>> /\ toHost = <<>>
    /\ goal = [g \in GoalId |-> "none"]
    /\ active = {} /\ slowId = [c \in Call |-> 0] /\ owned = {}
    /\ store = [c \in Call |-> NoStatus]
    /\ guard = [c \in Call |-> NoGuard]
    /\ kept = [c \in Call |-> "none"]
    /\ pc = [j \in Job |-> "idle"] /\ tries = [j \in Job |-> 0]
    /\ status = [j \in Job |-> NoStatus] /\ braked = [j \in Job |-> FALSE]
    /\ swap = [j \in Job |-> <<0, 0>>] /\ out = [j \in Job |-> "none"]
    /\ wpc = [k \in Withdrawer |-> "idle"] /\ wcall = [k \in Withdrawer |-> None]
    /\ todo = [k \in Withdrawer |-> {}] /\ zero = [k \in Withdrawer |-> FALSE]
    /\ wout = [k \in Withdrawer |-> "none"]
    /\ base = [c \in Call |-> 0] /\ forgot = {} /\ asked = {}
    /\ latest = [c \in Call |-> None] /\ before = [k \in Withdrawer |-> {}]
    /\ seen = {}

-----------------------------------------------------------------------------
(* invoke(), on job j.                                                      *)

\* A call with a kept result is answered; otherwise the adapter arms the
\* guard of a drive, unless the call has one already ("a resumed call keeps
\* the guard it started with").
Arm(j) ==
    LET c == CallOf[j] IN
    /\ tries[j] < MaxTries
    /\ Step(j, "idle", "decide")
    /\ tries' = [tries EXCEPT ![j] = @ + 1]
    /\ out' = [out EXCEPT ![j] = "none"]
    /\ seen' = seen \ {j}
    /\ guard' = IF kept[c] = "none" /\ c \in Guarded /\ ~guard[c].on
                THEN [guard EXCEPT ![c] = NewGuard]
                ELSE guard
    /\ UNCHANGED <<up, sock, robot, ids, store, kept, reopening, status, braked, swap,
                   withs, base, forgot, asked, latest, before>>

\* The three early decisions of RosbridgeROS2Backend.invoke(): refuse without
\* a connection, answer a kept result, wait on a goal that still runs.
Refuse(j) ==
    /\ ~up
    /\ Return(j, "decide", "refused")
    /\ UNCHANGED <<up, sock, robot, ids, store, guard, kept, reopening, tries, status,
                   braked, swap, withs, hist>>

Answer(j) ==
    /\ up /\ kept[CallOf[j]] # "none"
    /\ Return(j, "decide", kept[CallOf[j]])
    /\ UNCHANGED <<up, sock, robot, ids, store, guard, kept, reopening, tries, status,
                   braked, swap, withs, hist>>

Resume(j) ==
    /\ up /\ kept[CallOf[j]] = "none" /\ CallOf[j] \in active
    /\ Step(j, "decide", "register")
    /\ UNCHANGED <<up, sock, robot, ids, store, guard, kept, reopening, tries, status,
                   braked, swap, out, withs, hist>>

Fresh(j) ==
    /\ up /\ kept[CallOf[j]] = "none" /\ CallOf[j] \notin active
    /\ Step(j, "decide", "send")
    /\ UNCHANGED <<up, sock, robot, ids, store, guard, kept, reopening, tries, status,
                   braked, swap, out, withs, hist>>

\* send_action_goal under the call id; a dropped socket refuses the call.
Send(j) ==
    LET g == <<sock, CallOf[j], 0>> IN
    /\ up
    /\ Step(j, "send", "record")
    /\ SendGoal(g)
    /\ base' = [base EXCEPT ![CallOf[j]] = @ + 1]
    /\ latest' = [latest EXCEPT ![CallOf[j]] = g]
    /\ asked' = asked \ {g}
    /\ UNCHANGED <<up, sock, ids, store, guard, kept, reopening, tries, status, braked, swap,
                   out, withs, forgot, before, seen>>

SendRefused(j) ==
    /\ ~up
    /\ Return(j, "send", "refused")
    /\ UNCHANGED <<up, sock, robot, ids, store, guard, kept, reopening, tries, status,
                   braked, swap, withs, hist>>

\* Only now is the goal one that cancel() and safe_stop() know of.
Record(j) ==
    /\ Step(j, "record", "register")
    /\ active' = active \cup {CallOf[j]}
    /\ UNCHANGED <<up, sock, robot, slowId, owned, store, guard, kept, reopening, tries,
                   status, braked, swap, out, withs, hist>>

\* _result_waiters counts this thread from here until its wait returns.
Register(j) ==
    /\ Step(j, "register", "wait")
    /\ UNCHANGED <<up, sock, robot, ids, store, guard, kept, reopening, tries, status,
                   braked, swap, out, withs, hist>>

-----------------------------------------------------------------------------
(* _await_result(): result, connection and deadline, guard, in this order.  *)

TakeResult(j) ==
    LET c == CallOf[j] IN
    /\ store[c] # NoStatus
    /\ Step(j, "wait", "finish")
    /\ status' = [status EXCEPT ![j] = store[c]]
    /\ store' = [store EXCEPT ![c] = NoStatus]
    /\ UNCHANGED <<up, sock, robot, ids, guard, kept, reopening, tries, braked, swap, out,
                   withs, hist>>

\* Mutant: the timeout is kept like a result.
GiveUpKeepsTimeout(j) ==
    /\ store[CallOf[j]] = NoStatus
    /\ Return(j, "wait", "timeout")
    /\ kept' = [kept EXCEPT ![CallOf[j]] = "timeout"]
    /\ UNCHANGED <<up, sock, robot, ids, store, guard, reopening, tries, status,
                   braked, swap, withs, hist>>

\* Mutant: a call that timed out is active no more.
GiveUpForgets(j) ==
    /\ store[CallOf[j]] = NoStatus
    /\ Return(j, "wait", "timeout")
    /\ active' = active \ {CallOf[j]}
    /\ UNCHANGED <<up, sock, robot, slowId, owned, store, guard, kept, reopening, tries, status,
                   braked, swap, withs, hist>>

\* The connection dropped or the deadline passed: TIMEOUT, and the call stays
\* active with its guard, for a retry to wait on.
GiveUp(j) ==
    /\ store[CallOf[j]] = NoStatus
    /\ Return(j, "wait", "timeout")
    /\ UNCHANGED <<up, sock, robot, ids, store, guard, kept, reopening, tries, status,
                   braked, swap, withs, hist>>

\* The tripped guard is marked as acted on under the lock, and its cancel is
\* sent after the lock is released.
Brake(j) ==
    LET c == CallOf[j] IN
    /\ up /\ store[c] = NoStatus
    /\ guard[c].on /\ guard[c].tripped /\ ~guard[c].sent
    /\ Step(j, "wait", "brake")
    /\ guard' = [guard EXCEPT ![c].sent = TRUE]
    /\ UNCHANGED <<up, sock, robot, ids, store, kept, reopening, tries, status, braked, swap,
                   out, withs, hist>>

BrakeSend(j) ==
    LET g == Goal(CallOf[j]) IN
    /\ Step(j, "brake", "wait")
    /\ IF up /\ CallOf[j] \in active
       THEN SendCancel(g) /\ asked' = asked \cup {g}
       ELSE UNCHANGED <<robot, asked>>
    /\ UNCHANGED <<up, sock, ids, store, guard, kept, reopening, tries, status, braked, swap,
                   out, withs, base, forgot, latest, before, seen>>

\* The wait loop leaves the lock to slow down; _slow_down() reads the active
\* action and takes the lock again.
SlowDown(j) ==
    LET c == CallOf[j] IN
    /\ up /\ store[c] = NoStatus /\ c \in active
    /\ guard[c].on /\ ~guard[c].tripped /\ guard[c].slow
    /\ Step(j, "wait", "slowing")
    /\ UNCHANGED <<up, sock, robot, ids, store, guard, kept, reopening, tries, status,
                   braked, swap, out, withs, hist>>

\* Mutant: the guard ends with the goal it was armed for.
SlowSwitchDisarms(j) ==
    LET c == CallOf[j]
        n == guard[c].n + 1 IN
    /\ guard[c].on /\ guard[c].slow /\ n <= MaxSlow
    /\ Step(j, "slowing", "slowsend")
    /\ swap' = [swap EXCEPT ![j] = <<slowId[c], n>>]
    /\ slowId' = [slowId EXCEPT ![c] = n]
    /\ owned' = owned \cup {<<c, n>>}
    /\ guard' = [guard EXCEPT ![c] = NoGuard]
    /\ UNCHANGED <<up, sock, robot, active, store, kept, reopening, tries, status, braked,
                   out, withs, hist>>

\* Mutant: _goal_ids still names the faster goal.
SlowSwitchKeepsId(j) ==
    LET c == CallOf[j]
        n == guard[c].n + 1 IN
    /\ guard[c].on /\ guard[c].slow /\ n <= MaxSlow
    /\ Step(j, "slowing", "slowsend")
    /\ swap' = [swap EXCEPT ![j] = <<slowId[c], n>>]
    /\ owned' = owned \cup {<<c, n>>}
    /\ guard' = [guard EXCEPT ![c].slow = FALSE, ![c].n = n]
    /\ UNCHANGED <<up, sock, robot, active, slowId, store, kept, reopening, tries, status, braked,
                   out, withs, hist>>

\* Under the lock: the slower goal becomes the goal of the call.
SlowSwitch(j) ==
    LET c == CallOf[j]
        n == guard[c].n + 1 IN
    /\ guard[c].on /\ guard[c].slow /\ n <= MaxSlow
    /\ Step(j, "slowing", "slowsend")
    /\ swap' = [swap EXCEPT ![j] = <<slowId[c], n>>]
    /\ slowId' = [slowId EXCEPT ![c] = n]
    /\ owned' = owned \cup {<<c, n>>}
    /\ guard' = [guard EXCEPT ![c].slow = FALSE, ![c].n = n]
    /\ UNCHANGED <<up, sock, robot, active, store, kept, reopening, tries, status, braked,
                   out, withs, hist>>

\* The guard is gone or tripped by now, or the drive is nearly there.
SlowSkip(j) ==
    LET c == CallOf[j] IN
    /\ Step(j, "slowing", "wait")
    /\ guard' = [guard EXCEPT ![c].slow = FALSE]
    /\ UNCHANGED <<up, sock, robot, ids, store, kept, reopening, tries, status, braked, swap,
                   out, withs, hist>>

SlowSend(j) ==
    LET g == <<sock, CallOf[j], swap[j][2]>> IN
    /\ up
    /\ Step(j, "slowsend", "wait")
    /\ SendGoal(g)
    /\ latest' = [latest EXCEPT ![CallOf[j]] = g]
    /\ UNCHANGED <<up, sock, ids, store, guard, kept, reopening, tries, status, braked, swap,
                   out, withs, base, forgot, asked, before, seen>>

\* The send failed: "the faster goal is still the one driving".
SlowRollback(j) ==
    LET c == CallOf[j] IN
    /\ ~up
    /\ Step(j, "slowsend", "wait")
    /\ slowId' = [slowId EXCEPT ![c] = swap[j][1]]
    /\ owned' = owned \ {<<c, swap[j][2]>>}
    /\ UNCHANGED <<up, sock, robot, active, store, guard, kept, reopening, tries, status,
                   braked, swap, out, withs, hist>>

-----------------------------------------------------------------------------
(* The result is in. The call stops being active first; its guard, the      *)
(* robot coming to rest and the evidence come next, and only then is the    *)
(* result kept for retries.                                                 *)

Finish(j) ==
    LET c == CallOf[j] IN
    /\ Step(j, "finish", "keep")
    /\ active' = active \ {c}
    /\ slowId' = [slowId EXCEPT ![c] = 0]
    /\ owned' = {o \in owned : o[1] # c}
    /\ braked' = [braked EXCEPT ![j] = guard[c].on /\ guard[c].tripped]
    /\ UNCHANGED <<up, sock, robot, store, guard, kept, reopening, tries, status, swap, out,
                   withs, hist>>

\* A goal that succeeded may have missed its place ("failed"); a drive the
\* guard or the plan cut short may still have arrived ("completed").
Verdicts(st, b) == IF st = 4 THEN {"completed", "failed"}
                   ELSE IF ~b /\ st = 5 THEN {"completed", "cancelled"}
                   ELSE {"completed", "failed"}

Keep(j) ==
    LET c == CallOf[j] IN
    \E o \in Verdicts(status[j], braked[j]) :
        /\ Return(j, "keep", o)
        /\ kept' = [kept EXCEPT ![c] = o]
        /\ guard' = [guard EXCEPT ![c] = NoGuard]
        /\ UNCHANGED <<up, sock, robot, ids, store, reopening, tries, status, braked, swap,
                       withs, hist>>

-----------------------------------------------------------------------------
(* cancel(), on thread k, for the host or as one step of a safe stop.       *)

\* A cancel ends with outcome o; inside a safe stop its outcome is dropped
\* and the call is popped from the active ones whatever it was.
CancelEnds(k, from, o) ==
    /\ WStep(k, from, IF k \in Stopper THEN "pop" ELSE "idle")
    /\ wout' = IF k \in Stopper THEN wout ELSE [wout EXCEPT ![k] = o]

\* Only a call that is active can be cancelled.
Cancel(k, c) ==
    /\ k \in Canceller /\ wout[k] = "none"
    /\ wcall' = [wcall EXCEPT ![k] = c]
    /\ \/ c \in active /\ WStep(k, "idle", "send") /\ UNCHANGED wout
       \/ c \notin active /\ CancelEnds(k, "idle", "refused")
    /\ UNCHANGED <<up, sock, robot, ids, store, guard, kept, reopening, jobs, todo, zero, hist>>

\* cancel_action_goal for the goal that drives the call now, then zero.
CancelSend(k) ==
    LET g == Goal(wcall[k]) IN
    /\ up
    /\ WStep(k, "send", "await")
    /\ SendCancel(g)
    /\ asked' = asked \cup {g}
    /\ UNCHANGED <<up, sock, ids, store, guard, kept, reopening, jobs, wcall, todo, zero, wout,
                   base, forgot, latest, before, seen>>

\* The socket is gone: the send raises.
CancelRaises(k) ==
    /\ ~up
    /\ CancelEnds(k, "send", "failed")
    /\ UNCHANGED <<up, sock, robot, ids, store, guard, kept, reopening, jobs, wcall, todo,
                   zero, hist>>

\* Mutant: a cancel that was sent counts as confirmed.
CancelConfirmedUnseen(k) ==
    LET c == wcall[k] IN
    /\ wpc[k] = "await"
    /\ store' = IF Waiting(c) = {} THEN [store EXCEPT ![c] = NoStatus] ELSE store
    /\ \/ WStep(k, "await", "drop") /\ UNCHANGED wout
       \/ CancelEnds(k, "await", "failed")     \* cmd_vel took no zero
    /\ UNCHANGED <<up, sock, robot, ids, guard, kept, reopening, jobs, wcall, todo, zero, hist>>

\* Mutant: the cancel takes the result from the invoke() that waits for it.
CancelConfirmedTakes(k) ==
    LET c == wcall[k] IN
    /\ wpc[k] = "await" /\ store[c] = 5
    /\ store' = [store EXCEPT ![c] = NoStatus]
    /\ \/ WStep(k, "await", "drop") /\ UNCHANGED wout
       \/ CancelEnds(k, "await", "failed")     \* cmd_vel took no zero
    /\ UNCHANGED <<up, sock, robot, ids, guard, kept, reopening, jobs, wcall, todo, zero, hist>>

\* The result is read, not taken, while the goal's own invoke() waits for it.
CancelConfirmed(k) ==
    LET c == wcall[k] IN
    /\ wpc[k] = "await" /\ store[c] = 5
    /\ store' = IF Waiting(c) = {} THEN [store EXCEPT ![c] = NoStatus] ELSE store
    /\ \/ WStep(k, "await", "drop") /\ UNCHANGED wout
       \/ CancelEnds(k, "await", "failed")     \* cmd_vel took no zero
    /\ UNCHANGED <<up, sock, robot, ids, guard, kept, reopening, jobs, wcall, todo, zero, hist>>

\* Another status, no answer in three seconds, or the connection dropped.
CancelUnconfirmed(k) ==
    /\ wpc[k] = "await" /\ store[wcall[k]] # 5
    /\ CancelEnds(k, "await", "failed")
    /\ UNCHANGED <<up, sock, robot, ids, store, guard, kept, reopening, jobs, wcall, todo,
                   zero, hist>>

CancelDrop(k) ==
    LET c == wcall[k] IN
    /\ WStep(k, "drop", "keep")
    /\ active' = active \ {c}
    /\ forgot' = forgot \cup (active \cap {c})
    /\ UNCHANGED <<up, sock, robot, slowId, owned, store, guard, kept, reopening, jobs, wcall,
                   todo, zero, wout, base, asked, latest, before, seen>>

CancelKeep(k) ==
    LET c == wcall[k] IN
    /\ CancelEnds(k, "keep", "cancelled")
    /\ guard' = [guard EXCEPT ![c] = NoGuard]
    /\ kept' = [kept EXCEPT ![c] = "cancelled"]
    /\ UNCHANGED <<up, sock, robot, ids, store, reopening, jobs, wcall, todo, zero, hist>>

-----------------------------------------------------------------------------
(* safe_stop(), on thread k.                                                *)

\* Zero velocity first (it fails without a connection or without cmd_vel on
\* the graph), then the calls that are active now.
StopBegin(k) ==
    /\ k \in Stopper /\ wout[k] = "none"
    /\ WStep(k, "idle", "each")
    /\ \E ok \in BOOLEAN : (ok => up) /\ zero' = [zero EXCEPT ![k] = ok]
    /\ todo' = [todo EXCEPT ![k] = active]
    /\ before' = [before EXCEPT ![k] = {latest[c] : c \in active} \ {None}]
    /\ UNCHANGED <<up, sock, robot, ids, store, guard, kept, reopening, jobs, wcall, wout,
                   base, forgot, asked, latest, seen>>

\* Mutant: the active calls are dropped, not cancelled.
StopEachPops(k) ==
    \E c \in todo[k] :
        /\ WStep(k, "each", "pop")
        /\ wcall' = [wcall EXCEPT ![k] = c]
        /\ todo' = [todo EXCEPT ![k] = @ \ {c}]
        /\ UNCHANGED <<up, sock, robot, ids, store, guard, kept, reopening, jobs, zero, wout,
                       hist>>

StopEach(k) ==
    \E c \in todo[k] :
        /\ WStep(k, "each", IF c \in active THEN "send" ELSE "pop")
        /\ wcall' = [wcall EXCEPT ![k] = c]
        /\ todo' = [todo EXCEPT ![k] = @ \ {c}]
        /\ UNCHANGED <<up, sock, robot, ids, store, guard, kept, reopening, jobs, zero, wout,
                       hist>>

\* "Tried once": the call is dropped whether or not its cancel was confirmed.
StopPop(k) ==
    LET c == wcall[k] IN
    /\ WStep(k, "pop", "each")
    /\ active' = active \ {c}
    /\ guard' = [guard EXCEPT ![c] = NoGuard]
    /\ forgot' = forgot \cup (active \cap {c})
    /\ UNCHANGED <<up, sock, robot, slowId, owned, store, kept, reopening, jobs, wcall, todo,
                   zero, wout, base, asked, latest, before, seen>>

\* The last zero goes out only if some call was active.
StopEnd(k) ==
    /\ todo[k] = {}
    /\ WStep(k, "each", "idle")
    /\ \E ok \in BOOLEAN :
        /\ ok => up /\ wcall[k] # None
        /\ wout' = [wout EXCEPT ![k] = IF zero[k] \/ ok THEN "completed" ELSE "failed"]
    /\ UNCHANGED <<up, sock, robot, ids, store, guard, kept, reopening, jobs, wcall, todo,
                   zero, hist>>

-----------------------------------------------------------------------------
(* The reader thread.                                                       *)

\* A result of a goal the guard has since replaced is dropped; one of a
\* slower goal nobody owns any more is stored where nobody looks.
ReadResult ==
    /\ up /\ toHost # <<>>
    /\ LET g == Head(toHost).goal
           c == g[2]
           current == slowId[c] = g[3] /\ (g[3] = 0 \/ <<c, g[3]>> \in owned) IN
        /\ store' = IF current THEN [store EXCEPT ![c] = Head(toHost).status] ELSE store
        /\ seen' = IF current THEN seen \cup Waiting(c) ELSE seen
    /\ toHost' = Tail(toHost)
    /\ UNCHANGED <<up, sock, toRobot, goal, ids, guard, kept, reopening, jobs, withs,
                   base, forgot, asked, latest, before>>

\* Mutant: the reader marks the stop as sent.
GuardTripsMarked(c) ==
    /\ up /\ guard[c].on /\ ~guard[c].tripped
    /\ guard' = [guard EXCEPT ![c].tripped = TRUE, ![c].slow = FALSE, ![c].sent = TRUE]
    /\ UNCHANGED <<up, sock, robot, ids, store, kept, reopening, jobs, withs, hist>>

\* A scan (or a LiDAR gone quiet) leaves no room: the first trip wins.
GuardTrips(c) ==
    /\ up /\ guard[c].on /\ ~guard[c].tripped
    /\ guard' = [guard EXCEPT ![c].tripped = TRUE, ![c].slow = FALSE]
    /\ UNCHANGED <<up, sock, robot, ids, store, kept, reopening, jobs, withs, hist>>

\* A scan leaves room for a slower drive only.
GuardSlows(c) ==
    /\ up /\ guard[c].on /\ ~guard[c].tripped /\ ~guard[c].slow /\ guard[c].n < MaxSlow
    /\ guard' = [guard EXCEPT ![c].slow = TRUE]
    /\ UNCHANGED <<up, sock, robot, ids, store, kept, reopening, jobs, withs, hist>>

-----------------------------------------------------------------------------
(* The robot: what the code assumes of rosbridge and its action servers.    *)

Host == <<up, sock, active, slowId, owned, store, guard, kept, reopening, jobs, withs, hist>>

\* A result reaches only the socket its goal was sent on.
Report(g, st) ==
    toHost' = IF up /\ g[1] = sock THEN Append(toHost, [goal |-> g, status |-> st]) ELSE toHost

OnServerOf(g) == {h \in GoalId : Driving(h) /\ ServerOf[h[2]] = ServerOf[g[2]]}

RobotStarts ==
    /\ toRobot # <<>> /\ Head(toRobot).op = "goal"
    /\ LET g == Head(toRobot).goal IN
        /\ OnServerOf(g) = {}
        /\ goal' = [goal EXCEPT ![g] = "running"]
    /\ toRobot' = Tail(toRobot)
    /\ UNCHANGED <<toHost, Host>>

\* The goal before it is aborted.
RobotPreempts ==
    /\ toRobot # <<>> /\ Head(toRobot).op = "goal"
    /\ LET g == Head(toRobot).goal IN
       \E h \in OnServerOf(g) :
        /\ goal' = [goal EXCEPT ![h] = "ended", ![g] = "running"]
        /\ Report(h, 6)
    /\ toRobot' = Tail(toRobot)
    /\ UNCHANGED Host

\* A cancel of a goal that does not run changes nothing.
RobotCancels ==
    /\ toRobot # <<>> /\ Head(toRobot).op = "cancel"
    /\ LET g == Head(toRobot).goal IN
        goal' = IF goal[g] = "running" THEN [goal EXCEPT ![g] = "canceling"] ELSE goal
    /\ toRobot' = Tail(toRobot)
    /\ UNCHANGED <<toHost, Host>>

RobotEnds(g) ==
    /\ Driving(g)
    /\ \E st \in IF goal[g] = "canceling" THEN Status ELSE {4, 6} : Report(g, st)
    /\ goal' = [goal EXCEPT ![g] = "ended"]
    /\ UNCHANGED <<toRobot, Host>>

-----------------------------------------------------------------------------
(* The connection.                                                          *)

\* The reader notices: every wait ends, what is in flight is lost, and the
\* robot drives on.
LinkDrops ==
    /\ up
    /\ up' = FALSE /\ toRobot' = <<>> /\ toHost' = <<>>
    /\ UNCHANGED <<sock, goal, ids, store, guard, kept, reopening, jobs, withs, hist>>

\* reconnect(), first half: "Goal ids belong to the socket that sent them."
ReopenClears ==
    /\ ~up /\ ~reopening /\ sock < MaxSocket
    /\ reopening' = TRUE
    /\ active' = {} /\ slowId' = [c \in Call |-> 0] /\ owned' = {}
    /\ forgot' = forgot \cup active
    /\ UNCHANGED <<up, sock, robot, store, guard, kept, jobs, withs, base, asked, latest,
                   before, seen>>

\* Second half: a new socket, no results.
ReopenConnects ==
    /\ reopening
    /\ reopening' = FALSE /\ up' = TRUE /\ sock' = sock + 1
    /\ store' = [c \in Call |-> NoStatus]
    /\ seen' = {}
    /\ UNCHANGED <<robot, ids, guard, kept, jobs, withs, base, forgot, asked, latest, before>>

-----------------------------------------------------------------------------
InvokeStep(j) ==
    \/ Refuse(j) \/ Answer(j) \/ Resume(j) \/ Fresh(j) \/ Send(j) \/ SendRefused(j)
    \/ Record(j) \/ Register(j) \/ TakeResult(j) \/ Brake(j) \/ BrakeSend(j)
    \/ SlowDown(j) \/ SlowSwitch(j) \/ SlowSkip(j) \/ SlowSend(j) \/ SlowRollback(j)
    \/ Finish(j) \/ Keep(j)

CancelStep(k) ==
    \/ CancelSend(k) \/ CancelRaises(k) \/ CancelConfirmed(k) \/ CancelUnconfirmed(k)
    \/ CancelDrop(k) \/ CancelKeep(k)

StopStep(k) == StopEach(k) \/ StopPop(k) \/ StopEnd(k)

RobotStep == RobotStarts \/ RobotPreempts \/ RobotCancels

Next ==
    \/ \E j \in Job : Arm(j) \/ GiveUp(j) \/ InvokeStep(j)
    \/ \E k \in Withdrawer :
        (\E c \in Call : Cancel(k, c)) \/ CancelStep(k) \/ StopBegin(k) \/ StopStep(k)
    \/ ReadResult
    \/ \E c \in Call : GuardTrips(c) \/ GuardSlows(c)
    \/ RobotStep
    \/ \E g \in GoalId : RobotEnds(g)
    \/ LinkDrops \/ ReopenClears \/ ReopenConnects

Spec == Init /\ [][Next]_vars

\* A thread that can run does, a cancel waits three seconds and no longer, and
\* the reader and rosbridge go on reading. The host need not call, a deadline
\* need not pass, and the robot need not end a goal.
Fairness ==
    /\ \A j \in Job : WF_vars(InvokeStep(j))
    /\ \A k \in Withdrawer : WF_vars(CancelStep(k)) /\ WF_vars(StopStep(k))
    /\ WF_vars(ReadResult) /\ WF_vars(RobotStep)

FairSpec == Spec /\ Fairness

-----------------------------------------------------------------------------
Sent == [op : {"goal", "cancel"}, goal : GoalId]
Result == [goal : GoalId, status : Status]

LinkType == up \in BOOLEAN /\ sock \in 1..MaxSocket /\ reopening \in BOOLEAN

RobotType ==
    /\ toRobot \in Seq(Sent) /\ toHost \in Seq(Result)
    /\ goal \in [GoalId -> {"none", "running", "canceling", "ended"}]

IdType ==
    /\ active \subseteq Call
    /\ slowId \in [Call -> 0..MaxSlow]
    /\ owned \subseteq Call \X (0..MaxSlow)

ResultType ==
    /\ store \in [Call -> Status \cup {NoStatus}]
    /\ kept \in [Call -> Outcome \cup {"none"}]

Guard == [on : BOOLEAN, tripped : BOOLEAN, slow : BOOLEAN, sent : BOOLEAN, n : 0..MaxSlow]
GuardType == guard \in [Call -> Guard]

JobType ==
    /\ pc \in [Job -> {"idle", "decide", "send", "record", "register", "wait", "brake",
                       "slowing", "slowsend", "finish", "keep"}]
    /\ tries \in [Job -> 0..MaxTries]
    /\ status \in [Job -> Status \cup {NoStatus}]
    /\ braked \in [Job -> BOOLEAN]
    /\ swap \in [Job -> (0..MaxSlow) \X (0..MaxSlow)]
    /\ out \in [Job -> Outcome \cup {"none", "refused", "timeout"}]

WithdrawType ==
    /\ wpc \in [Withdrawer -> {"idle", "send", "await", "drop", "keep", "each", "pop"}]
    /\ wcall \in [Withdrawer -> Call \cup {None}]
    /\ todo \in [Withdrawer -> SUBSET Call]
    /\ zero \in [Withdrawer -> BOOLEAN]
    /\ wout \in [Withdrawer -> Outcome \cup {"none", "refused"}]

HistoryType ==
    /\ base \in [Call -> Nat] /\ forgot \subseteq Call /\ asked \subseteq GoalId
    /\ latest \in [Call -> GoalId \cup {None}]
    /\ before \in [Withdrawer -> SUBSET GoalId]
    /\ seen \subseteq Job

TypeOK ==
    /\ LinkType /\ RobotType /\ IdType /\ ResultType /\ GuardType
    /\ JobType /\ WithdrawType /\ HistoryType

-----------------------------------------------------------------------------
(* What the code promises.                                                  *)

\* ARCHITECTURE.md: "retries cannot create duplicate physical effects". The
\* goal of a call is sent once, however often its job retries after a timeout.
NoDuplicateMotion == \A c \in Call : base[c] <= 1

\* The part of it the code keeps: a second goal for the same call means that a
\* reconnect, a cancel or a safe stop dropped the active call in between.
ResendOnlyIfForgotten == \A c \in Call : base[c] > 1 => c \in forgot

OnItsWay(g) == \E i \in DOMAIN toRobot : toRobot[i] = Message("goal", g)

\* Neither a retry nor a slow-down gave the call a second goal.
HasOneGoal(c) == base[c] <= 1 /\ c \notin Guarded

\* ARCHITECTURE.md: "cancellation must actually withdraw/stop the active
\* action". A call whose kept result is CANCELLED, by a cancel or as one of a
\* safe stop, has no goal driving, and none that will. (A retry between the two
\* halves of a cancel, or a slow-down in the middle of one, is a second goal.)
CancelledMeansEnded ==
    \A c \in Call : kept[c] = "cancelled" /\ HasOneGoal(c) =>
        \A g \in GoalId : g[2] = c => ~Driving(g) /\ ~OnItsWay(g)

\* cancel(): "its own invoke() must still receive the result". A job that
\* waited when its result arrived does not end in a timeout.
NoWaiterStranded == \A j \in Job : j \in seen => out[j] # "timeout"

\* What a cancel or a stop says of a call is true, and takes no result from its waiter.
CancelTellsWhatEnded == CancelledMeansEnded /\ NoWaiterStranded

\* While a call waits for its goal, the id a cancel, a brake or a safe stop
\* would send is the id of the goal that was sent last for it. (A cancel and a
\* safe stop leave _goal_ids behind for the goal of a retry.)
CancelReachesTheLatestGoal ==
    \A j \in Job :
        LET c == CallOf[j] IN
        /\ pc[j] = "wait" /\ c \in active /\ up /\ latest[c][1] = sock
        /\ c \notin forgot
        => Goal(c) = latest[c]

\* _await_result(): "A guarded drive is re-judged on every scan; this loop
\* carries out what that decides". A drive whose guard has tripped, and whose
\* stop counts as sent, was cancelled on the connection it runs on, unless the
\* call was dropped before and the retry's goal inherited the spent guard.
TrippedDriveWasCancelled ==
    \A j \in Job :
        LET c == CallOf[j] IN
        /\ pc[j] = "wait" /\ up /\ c \in active /\ latest[c][1] = sock
        /\ guard[c].tripped /\ guard[c].sent /\ c \notin forgot
        => latest[c] \in asked

\* A drive that is active, and that a job waits for, has its guard, unless a
\* cancel, a safe stop or a reconnect dropped the call before: the drop disarms
\* the guard a retry may just have found.
WatchedWhileActive ==
    \A j \in Job :
        LET c == CallOf[j] IN
        /\ pc[j] \in {"register", "wait"} /\ c \in Guarded /\ c \in active
        /\ c \notin forgot
        => guard[c].on

\* A drive has its guard for as long as it is waited for, and the guard's stop reached it.
GuardIsKept == TrippedDriveWasCancelled /\ WatchedWhileActive

\* A drive stays under control: it is watched, its guard's stop reached it, and whoever
\* cancels the call addresses the goal that drives.
DriveIsInHand == GuardIsKept /\ CancelReachesTheLatestGoal

\* Every goal that was active when a safe stop began, and that no other goal of its
\* call replaced, is over, or a cancel of it was sent, when the stop ends on a
\* connection that held.
StopAsksEveryActiveGoal ==
    \A k \in Stopper : wout[k] # "none" /\ up =>
        \A g \in before[k] : g[1] = sock /\ HasOneGoal(g[2]) =>
            goal[g] \in {"canceling", "ended"} \/ g \in asked

\* A guard that trips on a drive a job waits for ends in a cancel of the goal,
\* in the end of the wait, or in a dropped connection or call.
TrippedGuardActs ==
    \A j \in Job :
        (pc[j] = "wait" /\ guard[CallOf[j]].tripped)
            ~> \/ ~up \/ CallOf[j] \in forgot
               \/ latest[CallOf[j]] \in asked \/ pc[j] \notin {"wait", "brake"}
=============================================================================
