--------------------------- MODULE ClearedExecution ---------------------------
(***************************************************************************)
(* What gated execution promises, without threads, queue or adapters:      *)
(* operators clear commands, a session starts a task only when its command *)
(* is cleared and its predecessors are done, and a task is done only after *)
(* it was started, unless it has no command.  ExecutionSession implements  *)
(* this.                                                                   *)
(***************************************************************************)
CONSTANTS
    Owners,         \* the sessions
    Tasks,          \* [Owners -> task ids]
    Commanded,      \* [Owners -> the tasks that have a command]
    Before(_, _),   \* a task's direct predecessors
    Key(_, _),      \* the key of a task's command
    AllKeys

VARIABLES cleared, started, done

vars == <<cleared, started, done>>

Init ==
    /\ cleared = {}
    /\ started = [s \in Owners |-> {}]
    /\ done = [s \in Owners |-> {}]

Clear(k) ==
    /\ cleared' = cleared \cup {k}
    /\ UNCHANGED <<started, done>>

Start(s, t) ==
    /\ t \in Commanded[s] /\ t \notin done[s]
    /\ Key(s, t) \in cleared
    /\ Before(s, t) \subseteq done[s]
    /\ started' = [started EXCEPT ![s] = @ \cup {t}]
    /\ UNCHANGED <<cleared, done>>

Finish(s, t) ==
    /\ t \in Commanded[s] => t \in started[s]
    /\ done' = [done EXCEPT ![s] = @ \cup {t}]
    /\ UNCHANGED <<cleared, started>>

Next ==
    \/ \E k \in AllKeys : Clear(k)
    \/ \E s \in Owners : \E t \in Tasks[s] : Start(s, t) \/ Finish(s, t)

Spec == Init /\ [][Next]_vars
=============================================================================
