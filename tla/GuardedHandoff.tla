----------------------------- MODULE GuardedHandoff -----------------------------
(***************************************************************************)
(* The gates a payload passes before it is handed over                     *)
(* (guarded_handoff.py), the laboratory driver that runs a script of them  *)
(* and answers the mission's approval request when they are through        *)
(* (gazebo_lab_driver.py), and the single-use QR confirmation the answer   *)
(* is made from (qr_confirmation.py).                                      *)
(*                                                                         *)
(* A script is revealed action by action: the next one is whatever the     *)
(* file says.  An action names what was observed as right or wrong.        *)
(***************************************************************************)
EXTENDS Integers, Sequences, FiniteSetsExt, SequencesExt

CONSTANTS
    Preconditions,  \* the policy's required preconditions
    Approvals,      \* approvals the mission asks for
    NoApproval,
    MaxActions,     \* length of the script
    Replays,        \* replay_count
    Ttl, Skew,      \* lifetime of a confirmation, and the clock skew allowed
    Steps           \* bound: how far the wall clock is stepped between two readings

ASSUME HandoffAssumption == NoApproval \notin Approvals

VARIABLES
    session,    \* the GuardedHandoffSession, or NoApproval before it starts
    driver      \* [guarded, index, failed, pending, payload, published, replays, used,
                \*  replayRefused, alive]

handoffVars == <<session, driver>>

-----------------------------------------------------------------------------
\* The session.

Event(s, kind, name) ==
    [s EXCEPT !.events = Append(@, [kind |-> kind, name |-> name, state |-> s.state, locked |-> s.locked])]

Started ==
    Event([state |-> "awaiting_preconditions", locked |-> TRUE, checkpoint |-> FALSE,
           verified |-> {}, item |-> FALSE, recipient |-> FALSE, events |-> <<>>],
          "handoff_started", "")

CheckPrecondition(s, name, right) ==
    LET verified == s.verified \cup {name} IN
    IF ~right THEN Event(s, "precondition_rejected", name)
    ELSE Event([s EXCEPT !.verified = verified,
                         !.state = IF verified = Preconditions THEN "awaiting_item" ELSE @],
               "precondition_verified", name)

ScanItemUnblocked(s, right) ==
    IF right
    THEN Event([s EXCEPT !.item = TRUE, !.state = "awaiting_recipient"], "item_verified", "")
    ELSE Event([s EXCEPT !.item = FALSE, !.state = "blocked_item", !.checkpoint = TRUE], "item_rejected", "")

ScanItem(s, right) ==
    IF right
    THEN Event([s EXCEPT !.item = TRUE,
                         !.state = IF s.checkpoint THEN "checkpoint_ready" ELSE "awaiting_recipient"],
               "item_verified", "")
    ELSE Event([s EXCEPT !.item = FALSE, !.state = "blocked_item", !.checkpoint = TRUE], "item_rejected", "")

ResumeCheckpoint(s) ==
    Event([s EXCEPT !.state = "awaiting_recipient", !.checkpoint = FALSE], "checkpoint_resumed", "")

ScanRecipient(s, right) ==
    Event([s EXCEPT !.recipient = right,
                    !.state = IF right THEN "ready_to_unlock" ELSE "awaiting_recipient"],
          IF right THEN "recipient_verified" ELSE "recipient_rejected", "")

UnlockContainer(s) == Event([s EXCEPT !.locked = FALSE, !.state = "unlocked"], "container_unlocked", "")

Complete(s) == Event([s EXCEPT !.state = "completed"], "handoff_completed", "")

ScriptActions ==
    [kind : {"check_precondition"}, name : Preconditions \cup {"undeclared"}, right : BOOLEAN]
    \cup [kind : {"scan_item", "scan_recipient"}, name : {""}, right : BOOLEAN]
    \cup [kind : {"resume_checkpoint", "unlock_container", "complete"}, name : {""}, right : {TRUE}]

\* The handler raises for anything else, and the session stays as it was.
Allowed(s, a) ==
    CASE a.kind = "check_precondition" ->
              s.state = "awaiting_preconditions" /\ a.name \in Preconditions
      [] a.kind = "scan_item"          -> s.state \in {"awaiting_item", "blocked_item"}
      [] a.kind = "resume_checkpoint"  -> s.state = "checkpoint_ready" /\ s.item /\ s.checkpoint
      [] a.kind = "scan_recipient"     -> s.state \in {"awaiting_recipient", "ready_to_unlock"}
      [] a.kind = "unlock_container"   ->
              s.state = "ready_to_unlock" /\ s.verified = Preconditions /\ s.item /\ s.recipient
      [] a.kind = "complete"           -> s.state = "unlocked" /\ ~s.locked

Apply(s, a) ==
    CASE a.kind = "check_precondition" -> CheckPrecondition(s, a.name, a.right)
      [] a.kind = "scan_item"          -> ScanItem(s, a.right)
      [] a.kind = "resume_checkpoint"  -> ResumeCheckpoint(s)
      [] a.kind = "scan_recipient"     -> ScanRecipient(s, a.right)
      [] a.kind = "unlock_container"   -> UnlockContainer(s)
      [] a.kind = "complete"           -> Complete(s)

-----------------------------------------------------------------------------
\* The confirmation of a delivery, signed and scoped by the driver itself.

Confirmation(approval, now) == [approval |-> approval, issued |-> now, expires |-> now + Ttl,
                                nonce |-> approval]

\* QRConfirmationAuthenticator.verify() returns; it then keeps the nonce.
InTime(token, now) == token.issued <= now + Skew /\ now <= token.expires

Verifies(token, approval, used, now) ==
    InTime(token, now) /\ token.approval = approval /\ token.nonce \notin used

\* _publish_approval(): minted, verified, verified again to see it refused, converted
\* to a decision.  The clock is read at each of them; an error of the first check or
\* of the conversion ends the callback, and the node with it.
PublishApproval(d, approval, clock) ==
    LET token == Confirmation(approval, 0)
        used  == d.used \cup {token.nonce}
        fresh(reading) == Verifies(token, approval, d.used, reading)
    IN  IF fresh(clock[1]) /\ token.expires - clock[3] >= 1
        THEN [d EXCEPT !.payload = approval, !.published = @ \cup {approval}, !.used = used,
                       !.replayRefused = fresh(clock[2]) /\ ~Verifies(token, approval, used, clock[2])]
        ELSE [d EXCEPT !.alive = FALSE]

Clocks == [1..3 -> Steps]

-----------------------------------------------------------------------------
\* _on_event(): an approval is asked for, and none was answered so far.
OnApprovalRequested(approval) ==
    /\ driver.alive
    /\ driver.payload = NoApproval
    /\ IF ~driver.guarded
       THEN \E clock \in Clocks :
                driver' = PublishApproval(driver, approval, clock) /\ UNCHANGED session
       ELSE /\ session = NoApproval
            /\ session' = Started
            /\ driver' = [driver EXCEPT !.pending = approval, !.index = 0]

\* _advance_guarded_handoff()
ScriptEnds ==
    /\ driver.alive /\ session # NoApproval
    /\ ~driver.failed /\ session.state # "completed"
    /\ driver' = [driver EXCEPT !.failed = TRUE]
    /\ UNCHANGED session

Advance(action) ==
    /\ driver.alive /\ session # NoApproval
    /\ ~driver.failed /\ session.state # "completed"
    /\ driver.index < MaxActions
    /\ IF ~Allowed(session, action)
       THEN driver' = [driver EXCEPT !.failed = TRUE] /\ UNCHANGED session
       ELSE LET moved == [driver EXCEPT !.index = @ + 1] IN
            /\ session' = Apply(session, action)
            /\ IF session'.state = "completed"
               THEN \E clock \in Clocks : driver' = PublishApproval(moved, driver.pending, clock)
               ELSE driver' = moved

\* The end of _tick(): a spent decision is sent again, to see it refused.
Replay ==
    /\ driver.alive /\ driver.payload # NoApproval
    /\ driver.replays < Replays
    /\ driver' = [driver EXCEPT !.replays = @ + 1]
    /\ UNCHANGED session

HandoffInit ==
    /\ session = NoApproval
    /\ driver \in [guarded : BOOLEAN, index : {0}, failed : {FALSE}, pending : {NoApproval},
                   payload : {NoApproval}, published : {{}}, replays : {0}, used : {{}},
                   replayRefused : {FALSE}, alive : {TRUE}]

HandoffNext ==
    \/ \E approval \in Approvals : OnApprovalRequested(approval)
    \/ \E action \in ScriptActions : Advance(action)
    \/ ScriptEnds
    \/ Replay

-----------------------------------------------------------------------------
LastOf(kinds, before) ==
    Max({0} \cup {i \in 1..before : session.events[i].kind \in kinds})

\* A published decision of a guarded delivery has gates behind it that held when the
\* container was opened: every precondition was satisfied, the last item scanned was
\* the right one and was resumed from since it last blocked, the last recipient was
\* the right one; and the decision answers the request the gates were started for.
HandoffBeforeApproval ==
    driver.guarded /\ driver.published # {} =>
        LET events == session.events
            opened == LastOf({"container_unlocked"}, Len(events))
            item   == LastOf({"item_verified", "item_rejected"}, opened)
            whom   == LastOf({"recipient_verified", "recipient_rejected"}, opened)
        IN  /\ driver.published = {driver.pending}
            /\ 0 \notin {opened, item, whom}
            /\ \A p \in Preconditions :
                  \E i \in 1..item : events[i].kind = "precondition_verified" /\ events[i].name = p
            /\ events[item].kind = "item_verified" /\ events[whom].kind = "recipient_verified"
            /\ item < whom
            /\ LET blocked == LastOf({"item_rejected"}, item) IN
               blocked > 0 => \E i \in item..whom : events[i].kind = "checkpoint_resumed"
            /\ \A i \in 1..Len(events) : events[i].locked <=> i < opened
===============================================================================
