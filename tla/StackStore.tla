----------------------------- MODULE StackStore -----------------------------
(***************************************************************************)
(* The stack of artifacts (crates/sy-desktop-shell/src/stack/state.rs) and *)
(* the commands that change it, each a process of its own (stack/cli.rs,   *)
(* stack/mcp.rs): push, pop, remove and move.  items.json is read, changed *)
(* in memory and saved through items.json.tmp, without a lock, and the     *)
(* processes die at any point; an error of the file system in the middle   *)
(* of a command leaves the disk as a death does.  Paths and inodes are     *)
(* kept apart: a process goes on writing the inode it has opened.  A list  *)
(* is a set of items: an item comes after those that were listed when its  *)
(* push loaded the list, in every list that has both.                      *)
(***************************************************************************)
EXTENDS Integers, FiniteSets

CONSTANTS
    Commands,   \* the processes; the item that c pushes is c
    Pools,      \* Kind: app and user
    PoolCap,    \* MAX_APP_DEFAULT, MAX_USER_DEFAULT
    MaxSeconds, \* bound: how far the clock that stamps items goes
    NoInode

ASSUME StackAssumption ==
    /\ IsFiniteSet(Commands)
    /\ Pools # {}
    /\ PoolCap \in Nat \ {0}
    /\ MaxSeconds \in Nat
    /\ NoInode \notin Commands

VARIABLES
    items, tmp, \* the inodes of items.json and of items.json.tmp
    body,       \* body[i]: what inode i holds; i is the command that made it
    stored,     \* stored[i]: the payload of item i: in blobs, a path, or none
    pool, born, \* kind and created_at of an item; also the --kind of a pop
    turn,       \* turn[i]: when command i loaded, which is item i's place in the lists
    seconds,    \* now_secs
    cmd,        \* cmd[c]: what c does and where it stands
    kept,       \* history: the items that the completed commands leave
    crossed     \* history: two commands were between load and save at once

diskVars == <<items, tmp, body>>
itemVars == <<stored, pool, born, turn>>
stackVars == <<diskVars, itemVars, seconds, cmd, kept, crossed>>

Empty == [form |-> "empty", list |-> {}]
Garbled == [form |-> "garbled", list |-> {}]
Whole(list) == [form |-> "whole", list |-> list]

Idle == [op |-> "none", target |-> NoInode, at |-> "idle", list |-> {},
         victims |-> {}, fd |-> NoInode]

StackInit ==
    /\ items = NoInode
    /\ tmp = NoInode
    /\ body = [c \in Commands |-> Empty]
    /\ stored = [c \in Commands |-> "none"]
    /\ pool = [c \in Commands |-> CHOOSE k \in Pools : TRUE]
    /\ born = [c \in Commands |-> 0]
    /\ turn = [c \in Commands |-> 0]
    /\ seconds = 0
    /\ cmd = [c \in Commands |-> Idle]
    /\ kept = {}
    /\ crossed = FALSE

\* What c does next.
Goes(c, next) == cmd' = [cmd EXCEPT ![c] = next]

\* The process ends; its locals end with it.
Ends(c, how) == Goes(c, [cmd[c] EXCEPT !.at = how, !.list = {}, !.fd = NoInode])

\* push_content stores the payload before the item is listed; push_file keeps
\* a reference to the file.
StartPush(c, payload, k) ==
    /\ cmd[c].at = "idle"
    /\ Goes(c, [Idle EXCEPT !.op = "push", !.target = c, !.at = "load"])
    /\ stored' = [stored EXCEPT ![c] = payload]
    /\ pool' = [pool EXCEPT ![c] = k]
    /\ born' = [born EXCEPT ![c] = seconds]
    /\ UNCHANGED <<diskVars, turn, seconds, kept, crossed>>

\* pop, remove and move of item i.
StartOther(c, op, i) ==
    /\ cmd[c].at = "idle"
    /\ Goes(c, [Idle EXCEPT !.op = op, !.target = i, !.at = "load"])
    /\ UNCHANGED <<diskVars, itemVars, seconds, kept, crossed>>

\* pop without an id: the newest item of pool k.
StartPop(c, k) ==
    /\ cmd[c].at = "idle"
    /\ Goes(c, [Idle EXCEPT !.op = "pop", !.target = c, !.at = "load"])
    /\ pool' = [pool EXCEPT ![c] = k]
    /\ UNCHANGED <<diskVars, stored, born, turn, seconds, kept, crossed>>

ClockTicks ==
    /\ seconds < MaxSeconds
    /\ seconds' = seconds + 1
    /\ UNCHANGED <<diskVars, itemVars, cmd, kept, crossed>>

-----------------------------------------------------------------------------
(* load *)

Content == IF items = NoInode THEN Empty ELSE body[items]

Saving(c) == cmd[c].at \in {"edit", "create", "write", "rename"}

\* A file that is missing or empty is an empty stack; one that does not parse
\* ends the command.
Load(c) ==
    /\ cmd[c].at = "load"
    /\ \/ /\ Content.form = "garbled"
          /\ Ends(c, "failed")
          /\ UNCHANGED <<turn, crossed>>
       \/ /\ Content.form # "garbled"
          /\ Goes(c, [cmd[c] EXCEPT !.at = "edit", !.list = Content.list])
          /\ turn' = [turn EXCEPT ![c] = 1 + Cardinality({d \in Commands : turn[d] # 0})]
          /\ crossed' = (crossed \/ \E d \in Commands \ {c} : Saving(d))
    /\ UNCHANGED <<diskVars, stored, pool, born, seconds, kept>>

-----------------------------------------------------------------------------
(* The change in memory *)

\* enforce_cap sorts by created_at, newest first; the sort is stable.
Before(i, j) == born[i] > born[j] \/ (born[i] = born[j] /\ turn[i] < turn[j])

\* Mutant: an item stays when as many of its pool as the capacity come before
\* it.
EvictedLate(list) ==
    {j \in list : PoolCap < Cardinality({i \in list : pool[i] = pool[j] /\ Before(i, j)})}

Evicted(list) ==
    {j \in list : PoolCap <= Cardinality({i \in list : pool[i] = pool[j] /\ Before(i, j)})}

\* The newest item of the pool, the last one listed among those of one second.
Top(list, k) ==
    {j \in list : pool[j] = k /\ \A i \in list : pool[i] = k =>
        born[i] < born[j] \/ (born[i] = born[j] /\ turn[i] <= turn[j])}

Chosen(c) ==
    IF cmd[c].op = "pop" /\ cmd[c].target = c
    THEN Top(cmd[c].list, pool[c])
    ELSE {cmd[c].target} \intersect cmd[c].list

\* delete_blobs: what is stored for the items goes, a file that an item names
\* stays.
DeleteBlobs(gone) ==
    stored' = [i \in Commands |-> IF i \in gone /\ stored[i] = "blob" THEN "none" ELSE stored[i]]

\* The list that c is going to save, without the items that go.
ToSave(c, list, gone) ==
    Goes(c, [cmd[c] EXCEPT !.at = "create", !.list = list \ gone, !.victims = gone])

\* push appends, caps both pools and deletes the blobs of what was evicted.
EditPush(c) ==
    /\ cmd[c].at = "edit" /\ cmd[c].op = "push"
    /\ LET list == cmd[c].list \union {c} IN
       /\ ToSave(c, list, Evicted(list))
       /\ DeleteBlobs(Evicted(list))
    /\ UNCHANGED <<diskVars, pool, born, turn, seconds, kept, crossed>>

\* pop and remove take the item out; one that is not listed ends the command.
EditRemove(c) ==
    /\ cmd[c].at = "edit" /\ cmd[c].op \in {"pop", "remove"}
    /\ \/ /\ Chosen(c) = {}
          /\ Ends(c, "failed")
          /\ UNCHANGED stored
       \/ /\ Chosen(c) # {}
          /\ ToSave(c, cmd[c].list, Chosen(c))
          /\ DeleteBlobs(Chosen(c))
    /\ UNCHANGED <<diskVars, pool, born, turn, seconds, kept, crossed>>

\* move_to first takes the payload to its destination: a file leaves its place,
\* a blob is read and written, and what is not there any more ends the command.
EditMove(c) ==
    /\ cmd[c].at = "edit" /\ cmd[c].op = "move"
    /\ LET i == cmd[c].target IN
       \/ /\ Chosen(c) = {} \/ stored[i] = "none"
          /\ Ends(c, "failed")
          /\ UNCHANGED stored
       \/ /\ Chosen(c) # {} /\ stored[i] # "none"
          /\ ToSave(c, cmd[c].list, {i})
          /\ stored' = [stored EXCEPT ![i] = "none"]
    /\ UNCHANGED <<diskVars, pool, born, turn, seconds, kept, crossed>>

-----------------------------------------------------------------------------
(* save *)

\* Mutant: items.json itself is created anew and written.
CreateInPlace(c) ==
    /\ cmd[c].at = "create"
    /\ LET i == IF items = NoInode THEN c ELSE items IN
       /\ items' = i
       /\ tmp' = i
       /\ body' = [body EXCEPT ![i] = Empty]
       /\ Goes(c, [cmd[c] EXCEPT !.at = "write", !.fd = i])
    /\ UNCHANGED <<itemVars, seconds, kept, crossed>>

\* File::create truncates a temporary file that is there already, whoever made
\* it.
Create(c) ==
    /\ cmd[c].at = "create"
    /\ LET i == IF tmp = NoInode THEN c ELSE tmp IN
       /\ tmp' = i
       /\ body' = [body EXCEPT ![i] = Empty]
       /\ Goes(c, [cmd[c] EXCEPT !.at = "write", !.fd = i])
    /\ UNCHANGED <<items, itemVars, seconds, kept, crossed>>

\* Every process writes from the start of the file: over another one's text,
\* a shorter text leaves the other's end behind.
Write(c) ==
    /\ cmd[c].at = "write"
    /\ LET i == cmd[c].fd IN
       \E b \in {Whole(cmd[c].list)} \union
                (IF body[i].form = "empty" THEN {} ELSE {Garbled}) :
          body' = [body EXCEPT ![i] = b]
    /\ Goes(c, [cmd[c] EXCEPT !.at = "rename"])
    /\ UNCHANGED <<items, tmp, itemVars, seconds, kept, crossed>>

\* What the command has reported is to be found afterwards.
Complete(c) ==
    kept' = (kept \union (IF cmd[c].op = "push" THEN {c} ELSE {})) \ cmd[c].victims

\* rename moves what the temporary path names now, and fails without it.
Rename(c) ==
    /\ cmd[c].at = "rename"
    /\ \/ /\ tmp = NoInode
          /\ Ends(c, "failed")
          /\ UNCHANGED <<items, tmp, kept>>
       \/ /\ tmp # NoInode
          /\ items' = tmp /\ tmp' = NoInode
          /\ Ends(c, "done")
          /\ Complete(c)
    /\ UNCHANGED <<body, itemVars, seconds, crossed>>

\* The process is killed, or a call of the file system fails.
Die(c) ==
    /\ cmd[c].at = "load" \/ Saving(c)
    /\ Ends(c, "failed")
    /\ UNCHANGED <<diskVars, itemVars, seconds, kept, crossed>>

StackNext ==
    \/ ClockTicks
    \/ \E c \in Commands :
        \/ \E payload \in {"blob", "path"}, k \in Pools : StartPush(c, payload, k)
        \/ \E op \in {"pop", "remove", "move"}, i \in Commands \ {c} : StartOther(c, op, i)
        \/ \E k \in Pools : StartPop(c, k)
        \/ Load(c) \/ EditPush(c) \/ EditRemove(c) \/ EditMove(c)
        \/ Create(c) \/ Write(c) \/ Rename(c) \/ Die(c)

StackSpec == StackInit /\ [][StackNext]_stackVars

-----------------------------------------------------------------------------
(* Properties *)

Bodies == [form : {"empty", "garbled", "whole"}, list : SUBSET Commands]

CommandStates ==
    [op : {"none", "push", "pop", "remove", "move"}, target : Commands \union {NoInode},
     at : {"idle", "load", "edit", "create", "write", "rename", "done", "failed"},
     list : SUBSET Commands, victims : SUBSET Commands, fd : Commands \union {NoInode}]

\* The type of the state.
StackTypeOK ==
    /\ {items, tmp} \subseteq Commands \union {NoInode}
    /\ body \in [Commands -> Bodies]
    /\ cmd \in [Commands -> CommandStates]
    /\ stored \in [Commands -> {"blob", "path", "none"}]
    /\ pool \in [Commands -> Pools]
    /\ born \in [Commands -> 0 .. MaxSeconds] /\ seconds \in 0 .. MaxSeconds
    /\ turn \in [Commands -> Nat]
    /\ kept \subseteq Commands
    /\ crossed \in BOOLEAN

\* Whatever dies in the middle (state.rs:94): as long as commands come one
\* after the other, items.json lists exactly what the completed ones left, and
\* what it lists still has its payload, unless the command that was about to
\* take the item out died before it could save.
StackIsAsReported ==
    ~crossed =>
        /\ Content.form # "garbled"
        /\ Content.list = kept
        /\ \A i \in kept : stored[i] = "none" =>
            \E c \in Commands : i \in cmd[c].victims /\ cmd[c].at # "done"

\* Whatever commands cross, die or write over each other, the list that
\* items.json holds never has more items of a pool than its capacity: a list
\* that grows is capped before it is saved (state.rs:263-292), and every saved
\* text is one command's list.
PoolsAreCapped == \A k \in Pools : Cardinality({i \in Content.list : pool[i] = k}) <= PoolCap

\* "Writes are atomic via temp-file + rename" (state.rs:10): whoever opens
\* items.json finds a whole list.
SavedIsWhole == items # NoInode => body[items].form = "whole"
=============================================================================
