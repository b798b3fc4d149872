---------------------------- MODULE EventMirror ----------------------------
(***************************************************************************)
(* What both indexers of the backend promise: the contract's log is copied *)
(* behind a cursor.  An event whose traces are in the tables keeps them,   *)
(* and the cursor is set only to places behind which every event has its   *)
(* traces.  It may be set back, which only makes work, and tables and      *)
(* cursor need not be written together: a crash or an error between the    *)
(* two loses nothing.                                                      *)
(***************************************************************************)
EXTENDS Naturals

VARIABLES
    log,    \* how many events the contract has emitted
    done,   \* the events whose traces are in the tables
    ack     \* the stored cursor

Init == log = 0 /\ done = {} /\ ack = 0

\* An event comes.  One that leaves no trace, or the same as earlier ones, is
\* done from the start.
Emit ==
    /\ log' = log + 1
    /\ done \subseteq done' /\ done' \subseteq 1..log'
    /\ UNCHANGED ack

\* Events are handled, in any order and any number of times.
Handle ==
    /\ done \subseteq done' /\ done' \subseteq 1..log
    /\ UNCHANGED <<log, ack>>

\* The cursor is stored.
Acknowledge(k) ==
    /\ 1..k \subseteq done
    /\ ack' = k
    /\ UNCHANGED <<log, done>>

Next == Emit \/ Handle \/ \E k \in 0..log : Acknowledge(k)

Spec == Init /\ [][Next]_<<log, done, ack>>
=============================================================================
