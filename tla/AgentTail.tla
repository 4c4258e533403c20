----------------------------- MODULE AgentTail -----------------------------
(***************************************************************************)
(* agt.tail: a session's transcript, its subscribers, and the clients that *)
(* read the stream.                                                        *)
(*                                                                         *)
(* Entries and status changes are broadcast with try_send under the        *)
(* session's lock, and a subscriber without room is dropped.  A tail is a  *)
(* task of its own: it replays the transcript, subscribes, forwards, and   *)
(* writes the sentinel when its stream is over.  A step is what a task     *)
(* does without awaiting.                                                  *)
(*                                                                         *)
(* An entry is its number in the transcript.  On the wire the event Closed *)
(* and the sentinel are the same frame; the number with it is history.     *)
(***************************************************************************)
EXTENDS Naturals, Sequences, FiniteSetsExt

CONSTANTS
    Tails,        \* calls of agt.tail
    Depth,        \* capacity of a subscriber's channel, 256 in the code
    WireRoom,     \* frames that the socket to a client holds
    MaxEntries,   \* bound: entries of the transcript
    MaxStatus,    \* bound: status changes before the end
    Unmarked      \* in a sentinel that says nothing of the transcript

ASSUME Rooms == {Depth, WireRoom} \subseteq Nat \ {0} /\ {MaxEntries, MaxStatus} \subseteq Nat
ASSUME UnmarkedIsNew == Unmarked \notin Nat

VARIABLES
    entries,      \* length of the transcript
    statuses,     \* status changes so far
    over,         \* the ends broadcast so far: "exited", "stopped"
    inMap,        \* whether the sessions map has the session
    subscribers,  \* tails whose sender the session keeps
    chan,         \* the channel of a subscriber
    tail,         \* where a tail stands
    mode,         \* the flags of the call
    todo,         \* events the tail has in hand
    from,         \* entries the tail leaves to others: before its first
    early,        \* tails that subscribed before the session was over
    wire,         \* frames written and not yet read by the client
    client,       \* where the client stands
    got,          \* entries the client has seen
    heard         \* the number in the frame that ended the stream

transcriptVars == <<entries, statuses, over, inMap>>
tailOnly  == <<tail, mode, todo, from, early>>
clientVars == <<client, got, heard>>
tailVars  == <<transcriptVars, subscribers, chan, tailOnly, wire, clientVars>>

Entry(n)  == <<"entry", n>>
Status    == <<"status", Unmarked>>
Closed(n) == <<"closed", n>>
NotFound  == <<"error", Unmarked>>
Events    == ({"entry", "closed"} \X (0 .. MaxEntries))
                 \union {Status, NotFound, Closed(Unmarked)}

TailTypeOK ==
    /\ entries \in 0 .. MaxEntries /\ statuses \in 0 .. MaxStatus
    /\ over \subseteq {"exited", "stopped"} /\ inMap \in BOOLEAN
    /\ subscribers \subseteq Tails /\ early \subseteq Tails
    /\ chan \in [Tails -> Seq(Events)] /\ \A t \in Tails : Len(chan[t]) <= Depth
    /\ tail \in [Tails -> {"no", "acked", "found", "streaming", "closing", "done"}]
    /\ mode \in [Tails -> [follow: BOOLEAN, replay: BOOLEAN]]
    /\ todo \in [Tails -> Seq(Events)] /\ from \in [Tails -> 0 .. MaxEntries]
    /\ wire \in [Tails -> Seq(Events)] /\ \A t \in Tails : Len(wire[t]) <= WireRoom
    /\ client \in [Tails -> {"no", "reading", "left", "ended"}]
    /\ got \in [Tails -> Seq(1 .. MaxEntries)]
    /\ heard \in [Tails -> (0 .. MaxEntries) \union {Unmarked}]

TailInit ==
    /\ entries = 0 /\ statuses = 0 /\ over = {} /\ inMap = TRUE
    /\ subscribers = {} /\ chan = [t \in Tails |-> <<>>]
    /\ tail = [t \in Tails |-> "no"]
    /\ mode = [t \in Tails |-> [follow |-> FALSE, replay |-> FALSE]]
    /\ todo = [t \in Tails |-> <<>>] /\ from = [t \in Tails |-> 0] /\ early = {}
    /\ wire = [t \in Tails |-> <<>>]
    /\ client = [t \in Tails |-> "no"] /\ got = [t \in Tails |-> <<>>]
    /\ heard = [t \in Tails |-> Unmarked]

-----------------------------------------------------------------------------
(* The session.  Each of these holds its lock. *)

(* The receiver lives until stream_tail_v1 returns. *)
Receiving(t) == tail[t] = "streaming"

Room(t) == Depth - Len(chan[t])

(* Mutant: an event that finds no room is dropped and the subscriber kept. *)
BroadcastLossy(events) ==
    /\ subscribers' = {t \in subscribers : Receiving(t)}
    /\ chan' = [t \in Tails |->
                   IF t \in subscribers /\ Receiving(t)
                   THEN chan[t] \o SubSeq(events, 1, Min({Room(t), Len(events)}))
                   ELSE chan[t]]

(* broadcast, for each of the events in turn: a try_send that fails drops  *)
(* the subscriber, and what it got before stays in its channel.            *)
Broadcast(events) ==
    /\ subscribers' = {t \in subscribers : Receiving(t) /\ Len(events) <= Room(t)}
    /\ chan' = [t \in Tails |->
                   IF t \in subscribers /\ Receiving(t)
                   THEN chan[t] \o SubSeq(events, 1, Min({Room(t), Len(events)}))
                   ELSE chan[t]]

AppendEntry ==
    /\ entries < MaxEntries
    /\ entries' = entries + 1
    /\ Broadcast(<<Entry(entries + 1)>>)
    /\ UNCHANGED <<statuses, over, inMap, tailOnly, wire, clientVars>>

SetStatus ==
    /\ statuses < MaxStatus
    /\ statuses' = statuses + 1
    /\ Broadcast(<<Status>>)
    /\ UNCHANGED <<entries, over, inMap, tailOnly, wire, clientVars>>

(* Mutant: the end is a status like any other. *)
FarewellQuiet == <<Status>>

(* set_status(Stopped), then broadcast(Closed), under one lock. *)
Farewell == <<Status, Closed(entries)>>

(* The agent process exits: the session stays in the map. *)
AgentExits ==
    /\ "exited" \notin over
    /\ over' = over \union {"exited"}
    /\ Broadcast(Farewell)
    /\ UNCHANGED <<entries, statuses, inMap, tailOnly, wire, clientVars>>

StopSession ==
    /\ "stopped" \notin over
    /\ over' = over \union {"stopped"}
    /\ Broadcast(Farewell)
    /\ UNCHANGED <<entries, statuses, inMap, tailOnly, wire, clientVars>>

(* Only then does stop_session take the session out of the map. *)
RemoveSession ==
    /\ "stopped" \in over /\ inMap
    /\ inMap' = FALSE
    /\ UNCHANGED <<entries, statuses, over, subscribers, chan, tailOnly, wire, clientVars>>

-----------------------------------------------------------------------------
(* The tail's task. *)

Goto(t, stage) == tail' = [tail EXCEPT ![t] = stage]

(* The client's call, acknowledged before the session is looked up. *)
AckTail(t) ==
    /\ tail[t] = "no"
    /\ \E m \in [follow: BOOLEAN, replay: BOOLEAN] : mode' = [mode EXCEPT ![t] = m]
    /\ Goto(t, "acked")
    /\ client' = [client EXCEPT ![t] = "reading"]
    /\ UNCHANGED <<transcriptVars, subscribers, chan, todo, from, early, wire, got, heard>>

FindSession(t) ==
    /\ tail[t] = "acked"
    /\ IF inMap THEN Goto(t, "found") /\ UNCHANGED todo
       ELSE /\ Goto(t, "closing")
            /\ todo' = [todo EXCEPT ![t] = <<NotFound, Closed(Unmarked)>>]
    /\ UNCHANGED <<transcriptVars, subscribers, chan, mode, from, early, wire, clientVars>>

Replay == [n \in 1 .. entries |-> Entry(n)]

(* replay and subscribe, under one lock. *)
Subscribe(t) ==
    /\ tail[t] = "found"
    /\ Goto(t, "streaming")
    /\ todo' = [todo EXCEPT ![t] = IF mode[t].replay THEN Replay ELSE <<>>]
    /\ from' = [from EXCEPT ![t] = IF mode[t].replay THEN 0 ELSE entries]
    /\ subscribers' = IF mode[t].follow THEN subscribers \union {t} ELSE subscribers
    /\ early' = IF over = {} THEN early \union {t} ELSE early
    /\ UNCHANGED <<transcriptVars, chan, mode, wire, clientVars>>

(* A frame is written when the socket has room. *)
SendEvent(t) ==
    /\ todo[t] # <<>> /\ client[t] = "reading" /\ Len(wire[t]) < WireRoom
    /\ wire' = [wire EXCEPT ![t] = Append(@, Head(todo[t]))]
    /\ todo' = [todo EXCEPT ![t] = Tail(@)]
    /\ IF tail[t] = "closing" /\ Len(todo[t]) = 1 THEN Goto(t, "done") ELSE UNCHANGED tail
    /\ UNCHANGED <<transcriptVars, subscribers, chan, mode, from, early, clientVars>>

(* The client has hung up: the stream is given up, the sentinel too. *)
SendFails(t) ==
    /\ todo[t] # <<>> /\ client[t] \in {"left", "ended"}
    /\ todo' = [todo EXCEPT ![t] = <<>>]
    /\ chan' = [chan EXCEPT ![t] = <<>>]
    /\ Goto(t, "done")
    /\ UNCHANGED <<transcriptVars, subscribers, mode, from, early, wire, clientVars>>

RecvEvent(t) ==
    /\ tail[t] = "streaming" /\ todo[t] = <<>> /\ chan[t] # <<>>
    /\ todo' = [todo EXCEPT ![t] = <<Head(chan[t])>>]
    /\ chan' = [chan EXCEPT ![t] = Tail(@)]
    /\ UNCHANGED <<transcriptVars, subscribers, tail, mode, from, early, wire, clientVars>>

(* recv() returns None once the sender is dropped and the channel drained. *)
StreamOver(t) ==
    /\ tail[t] = "streaming" /\ todo[t] = <<>> /\ chan[t] = <<>> /\ t \notin subscribers
    /\ Goto(t, "closing")
    /\ todo' = [todo EXCEPT ![t] = <<Closed(Unmarked)>>]
    /\ UNCHANGED <<transcriptVars, subscribers, chan, mode, from, early, wire, clientVars>>

TailStep(t) ==
    FindSession(t) \/ Subscribe(t) \/ SendEvent(t) \/ SendFails(t) \/ RecvEvent(t)
        \/ StreamOver(t)

-----------------------------------------------------------------------------
(* The client. *)

(* stream_events and the inspector stop at the first closed frame. *)
ReadEvent(t) ==
    /\ client[t] = "reading" /\ wire[t] # <<>>
    /\ LET frame == Head(wire[t]) IN
        /\ got' = IF frame[1] = "entry" THEN [got EXCEPT ![t] = Append(@, frame[2])] ELSE got
        /\ IF frame[1] = "closed"
           THEN /\ client' = [client EXCEPT ![t] = "ended"]
                /\ heard' = [heard EXCEPT ![t] = frame[2]]
                /\ wire' = [wire EXCEPT ![t] = <<>>]
           ELSE /\ wire' = [wire EXCEPT ![t] = Tail(@)]
                /\ UNCHANGED <<client, heard>>
    /\ UNCHANGED <<transcriptVars, subscribers, chan, tailOnly>>

HangUp(t) ==
    /\ client[t] = "reading"
    /\ client' = [client EXCEPT ![t] = "left"]
    /\ wire' = [wire EXCEPT ![t] = <<>>]
    /\ UNCHANGED <<transcriptVars, subscribers, chan, tailOnly, got, heard>>

TailNext ==
    \/ AppendEntry \/ SetStatus \/ AgentExits \/ StopSession \/ RemoveSession
    \/ \E t \in Tails : AckTail(t) \/ TailStep(t) \/ ReadEvent(t) \/ HangUp(t)

TailSpec == TailInit /\ [][TailNext]_tailVars

(* Tasks run and clients read; nobody has to write or to stop. *)
TailFairness == \A t \in Tails : WF_tailVars(TailStep(t)) /\ WF_tailVars(ReadEvent(t))

-----------------------------------------------------------------------------
(* Properties. *)

(* A client sees the entries from its first one on, each once and in       *)
(* order, whatever is appended while it replays, subscribes and lags; when *)
(* the session's Closed ends its stream, it has seen all up to then.       *)
TailHasNoGap ==
    \A t \in Tails :
        /\ got[t] = [i \in 1 .. Len(got[t]) |-> from[t] + i]
        /\ heard[t] # Unmarked => from[t] + Len(got[t]) = heard[t]

\* Replay and subscription have put the reader at its first entry.
Placed(t) == tail[t] \notin {"no", "acked", "found"}

Stream == INSTANCE LogStream WITH
    Readers <- Tails,
    length <- entries,
    phase <- client,
    start <- [t \in Tails |-> IF Placed(t) THEN from[t] ELSE Unmarked],
    seen <- got

(* The transcript with its lock, channels, tasks and sockets implements    *)
(* the log and its readers: nothing that is appended, broadcast or dropped *)
(* between a client's call, its replay, its subscription and its reads     *)
(* loses, repeats or reorders an entry, or ends a stream as complete that  *)
(* is not.                                                                 *)
ImplementsLog == Stream!LogSpec

(* The client of a tail that was there before the session's end comes to   *)
(* the end of its stream, also when its channel had no room for Closed.    *)
TailEnds ==
    \A t \in Tails : over # {} /\ t \in early ~> client[t] # "reading"
=============================================================================
