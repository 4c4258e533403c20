----------------------------- MODULE LogStream ------------------------------
(***************************************************************************)
(* What agt.tail promises its clients, with no channel, socket or task: a  *)
(* log that only grows, and readers of it.  A reader is placed once, at    *)
(* the log's beginning or at its end of that moment.  From there it is     *)
(* given every entry, one after the other and none before it was           *)
(* appended, until it is told that the stream is over or leaves; the one   *)
(* that is told how long the log is has read all of it.                    *)
(***************************************************************************)
EXTENDS Naturals, Sequences

CONSTANTS Readers, Unmarked

VARIABLES
    length,   \* entries of the log
    phase,    \* phase[t]: "no", "reading", "left", "ended"
    start,    \* entries before the reader's first, Unmarked until it is placed
    seen,     \* the entries it was given
    heard     \* the log's length as the end of its stream told it

logVars == <<length, phase, start, seen, heard>>

LogInit ==
    /\ length = 0
    /\ phase = [t \in Readers |-> "no"]
    /\ start = [t \in Readers |-> Unmarked]
    /\ seen = [t \in Readers |-> <<>>]
    /\ heard = [t \in Readers |-> Unmarked]

Grow ==
    /\ length' = length + 1
    /\ UNCHANGED <<phase, start, seen, heard>>

Open(t) ==
    /\ phase[t] = "no"
    /\ phase' = [phase EXCEPT ![t] = "reading"]
    /\ UNCHANGED <<length, start, seen, heard>>

\* Also of a reader that has left in the meantime.
Place(t) ==
    /\ phase[t] # "no" /\ start[t] = Unmarked
    /\ \E first \in {0, length} : start' = [start EXCEPT ![t] = first]
    /\ UNCHANGED <<length, phase, seen, heard>>

Position(t) == start[t] + Len(seen[t])

Deliver(t) ==
    /\ phase[t] = "reading" /\ start[t] # Unmarked
    /\ Position(t) < length
    /\ seen' = [seen EXCEPT ![t] = Append(@, Position(t) + 1)]
    /\ UNCHANGED <<length, phase, start, heard>>

\* With the session's own end, or because the reader lagged, did not want to
\* follow, or found no session.
Finish(t) ==
    /\ phase[t] = "reading" /\ start[t] # Unmarked
    /\ phase' = [phase EXCEPT ![t] = "ended"]
    /\ \E told \in {Position(t), Unmarked} : heard' = [heard EXCEPT ![t] = told]
    /\ UNCHANGED <<length, start, seen>>

Leave(t) ==
    /\ phase[t] = "reading"
    /\ phase' = [phase EXCEPT ![t] = "left"]
    /\ UNCHANGED <<length, start, seen, heard>>

LogNext ==
    Grow \/ \E t \in Readers : Open(t) \/ Place(t) \/ Deliver(t) \/ Finish(t) \/ Leave(t)

LogSpec == LogInit /\ [][LogNext]_logVars
=============================================================================
