--------------------------- MODULE ForwardHolders ---------------------------
(***************************************************************************)
(* Who keeps an SSH forward up (ssh_transport.py: acquire(), hold(),       *)
(* release(), _forget(), close_all()): one forward per configuration, held *)
(* by the adapters that use it, and closed some time after the last one    *)
(* let it go. A forward is what SshTunnel models; here it is open or not.  *)
(*                                                                         *)
(* Threads: one per adapter, which builds it and disconnects it; an        *)
(* operator, who refreshes an adapter and so takes hold again; the linger  *)
(* timers, whose callback may have begun when the timer is cancelled.      *)
(***************************************************************************)
EXTENDS Naturals, FiniteSets

CONSTANTS
    Adapters,
    MaxForwards,   \* bound: forwards that were ever opened
    MaxBuilds,     \* bound: adapters that were built
    Lingers        \* values of linger_s > 0 to look at

ASSUME HoldersAssumption ==
    /\ IsFiniteSet(Adapters) /\ Adapters # {}
    /\ MaxForwards \in Nat \ {0} /\ MaxBuilds \in Nat /\ Lingers \subseteq BOOLEAN

VARIABLES
    lingers,       \* linger_s > 0
    current,       \* _tunnels[config]; 0: none
    forward,       \* forward[k]: state, _holders, the timer, and callbacks that began
    lent,          \* lent[a]: adapter.transport, 0: none
    holding,       \* adapter._transport_held
    owner,         \* owner[a]: the thread that built it
    hand,          \* the operator: place, and the adapter that is refreshed
    built,         \* how many adapters were built
    exiting        \* close_all() ran

holderVars == <<lingers, current, forward, lent, holding, owner, hand, built, exiting>>

Forwards == 1..MaxForwards
Opened   == {k \in Forwards : forward[k].state # "none"}
Unused   == [state |-> "none", holders |-> 0, timer |-> FALSE, firing |-> 0]

HoldersInit ==
    /\ lingers \in Lingers
    /\ current = 0 /\ forward = [k \in Forwards |-> Unused]
    /\ lent = [a \in Adapters |-> 0] /\ holding = [a \in Adapters |-> FALSE]
    /\ owner = [a \in Adapters |-> "none"]
    /\ hand = [at |-> "idle", adapter |-> CHOOSE a \in Adapters : TRUE]
    /\ built = 0 /\ exiting = FALSE

\* acquire(): the forward of this configuration, or a new one; a timer that has not
\* begun its callback is cancelled.
Acquire(k) ==
    /\ IF current # 0 THEN k = current
       ELSE k \notin Opened /\ \A j \in Forwards : j < k => j \in Opened
    /\ current' = k
    /\ forward' = [forward EXCEPT ![k].state = "open", ![k].holders = @ + 1, ![k].timer = FALSE]

\* Mutant: without a linger nothing is started, and nothing closed.
ReleaseLingering(k) ==
    LET left == IF forward[k].holders = 0 THEN 0 ELSE forward[k].holders - 1
        last == left = 0 /\ forward[k].state = "open"
    IN  forward' = [forward EXCEPT ![k].holders = left,
                                   ![k].timer = @ \/ (last /\ lingers)]

\* release(): the last holder arms the timer, or begins to close at once.
Release(k) ==
    LET left == IF forward[k].holders = 0 THEN 0 ELSE forward[k].holders - 1
        last == left = 0 /\ forward[k].state = "open"
    IN  forward' = [forward EXCEPT ![k].holders = left,
                                   ![k].timer = @ \/ (last /\ lingers),
                                   ![k].firing = IF last /\ ~lingers THEN @ + 1 ELSE @]

-----------------------------------------------------------------------------
(* build() and disconnect() of an adapter.                                  *)

Build(a) ==
    /\ owner[a] = "none" /\ built < MaxBuilds /\ ~exiting
    /\ \E k \in Forwards : Acquire(k) /\ lent' = [lent EXCEPT ![a] = k]
    /\ owner' = [owner EXCEPT ![a] = "waits"] /\ built' = built + 1
    /\ UNCHANGED <<lingers, holding, hand, exiting>>

Built(a) ==
    /\ owner[a] = "waits" /\ owner' = [owner EXCEPT ![a] = "has"]
    /\ holding' = [holding EXCEPT ![a] = TRUE]
    /\ UNCHANGED <<lingers, current, forward, lent, hand, built, exiting>>

\* The session over the forward raised: let go again, without an adapter.
BuildFails(a) ==
    /\ owner[a] = "waits" /\ owner' = [owner EXCEPT ![a] = "none"]
    /\ Release(lent[a]) /\ lent' = [lent EXCEPT ![a] = 0]
    /\ UNCHANGED <<lingers, current, holding, hand, built, exiting>>

Disconnect(a) ==
    /\ owner[a] = "has"
    /\ owner' = [owner EXCEPT ![a] = IF holding[a] THEN "lets go" ELSE "gone"]
    /\ holding' = [holding EXCEPT ![a] = FALSE]
    /\ UNCHANGED <<lingers, current, forward, lent, hand, built, exiting>>

LetGo(a) ==
    /\ owner[a] = "lets go" /\ owner' = [owner EXCEPT ![a] = "gone"]
    /\ Release(lent[a])
    /\ UNCHANGED <<lingers, current, lent, holding, hand, built, exiting>>

Owner(a) == Built(a) \/ BuildFails(a) \/ LetGo(a)

-----------------------------------------------------------------------------
(* _hold_transport() of an operator's refresh.                              *)

Refresh(a) ==
    /\ hand.at = "idle" /\ owner[a] \in {"has", "lets go", "gone"} /\ ~exiting
    /\ ~holding[a] /\ hand' = [at |-> "acquire", adapter |-> a]
    /\ UNCHANGED <<lingers, current, forward, lent, holding, owner, built, exiting>>

Rehold ==
    /\ hand.at = "acquire" /\ ~exiting
    /\ \E k \in Forwards : Acquire(k) /\ hand' = [at |-> "set", adapter |-> hand.adapter]
                        /\ lent' = [lent EXCEPT ![hand.adapter] = k]
    /\ UNCHANGED <<lingers, holding, owner, built, exiting>>

Reheld ==
    /\ hand.at = "set" /\ hand' = [hand EXCEPT !.at = "done"]
    /\ holding' = [holding EXCEPT ![hand.adapter] = TRUE]
    /\ UNCHANGED <<lingers, current, forward, lent, owner, built, exiting>>

-----------------------------------------------------------------------------
TimerFires(k) ==
    /\ forward[k].timer
    /\ forward' = [forward EXCEPT ![k].timer = FALSE, ![k].firing = @ + 1]
    /\ UNCHANGED <<lingers, current, lent, holding, owner, hand, built, exiting>>

\* _forget(): under both locks; the close() after them.
Forget(k) ==
    /\ forward[k].firing > 0
    /\ IF forward[k].holders > 0
       THEN UNCHANGED current /\ forward' = [forward EXCEPT ![k].firing = @ - 1]
       ELSE /\ current' = IF current = k THEN 0 ELSE current
            /\ forward' = [forward EXCEPT ![k].firing = @ - 1,
                                          ![k].state = IF @ = "open" THEN "closing" ELSE @]
    /\ UNCHANGED <<lingers, lent, holding, owner, hand, built, exiting>>

Closed(k) ==
    /\ forward[k].state = "closing"
    /\ forward' = [forward EXCEPT ![k].state = "closed"]
    /\ UNCHANGED <<lingers, current, lent, holding, owner, hand, built, exiting>>

CloseAll ==
    /\ ~exiting /\ exiting' = TRUE
    /\ current' = 0
    /\ forward' = IF current = 0 THEN forward ELSE [forward EXCEPT ![current].state = "closing"]
    /\ UNCHANGED <<lingers, lent, holding, owner, hand, built>>

Timers(k) == TimerFires(k) \/ Forget(k) \/ Closed(k)

HoldersNext ==
    \/ \E a \in Adapters : Build(a) \/ Owner(a) \/ Disconnect(a) \/ Refresh(a)
    \/ Rehold \/ Reheld \/ CloseAll
    \/ \E k \in Forwards : Timers(k)

-----------------------------------------------------------------------------
\* Until the process exits the forward an adapter holds is open, also when a linger
\* was running out as the adapter took hold, and an open forward is the one acquire()
\* hands out, so that no second one fights for its ports.
HeldIsOpen ==
    ~exiting => /\ \A a \in Adapters : holding[a] => forward[lent[a]].state = "open"
                /\ \A k \in Forwards : forward[k].state = "open" => k = current

\* "Every acquire is paired with release(); the tunnel stops linger_s after the last
\* one" (ssh_transport.py:771): what is held is open, and a forward nobody holds any
\* more is closed, or held again.
ForwardFollowsItsHolders ==
    /\ []HeldIsOpen
    /\ \A k \in Forwards :
          (forward[k].state = "open" /\ forward[k].holders = 0)
              ~> (forward[k].state = "closed" \/ forward[k].holders > 0)
===============================================================================
