------------------------------ MODULE EventStream ---------------------------
(***************************************************************************)
(* The admin panel's event stream, and the log table it reads.             *)
(*                                                                         *)
(* A client of /admin/sse is a goroutine with a bounded channel, which it  *)
(* puts in a map under an id made from the time in nanoseconds.            *)
(* PublishEvent holds the map's read lock while it offers an event to      *)
(* every channel in the map; a client registers and leaves under the write *)
(* lock.  Every three seconds a client also pushes what is new: snapshots, *)
(* of which nothing is kept here, and the log rows after its cursor.       *)
(*                                                                         *)
(* A row of the log gets its time from the writer and its id from the      *)
(* table.  Events are left out: a channel is how many it holds.            *)
(*                                                                         *)
(* Faults: "sameInstant", two clients register in one tick of the clock;   *)
(* "readError" of a query; "overlap", rows are written side by side;       *)
(* "lateCommit", a row becomes visible after one with a higher id (MySQL). *)
(***************************************************************************)
EXTENDS Naturals, Sequences, FiniteSets, FiniteSetsExt, SequencesExt

CONSTANTS
    Clients,     \* the connections to the stream
    Tellers,     \* the goroutines that may publish at the same time
    Writers,     \* the goroutines that write the log
    Room,        \* of a client's channel (16 in the code)
    Batch,       \* log rows pushed at once (10 in the code)
    MaxLogs,     \* bound: rows written
    Nobody

ASSUME StreamAssumption ==
    /\ Room \in Nat /\ Batch \in Nat \ {0} /\ MaxLogs \in Nat
    /\ Nobody \notin Clients /\ IsFiniteSet(Clients)

VARIABLES
    clients,     \* each connection
    registered,  \* sseClients: whose channel is under an id, or Nobody
    instant,     \* the last id given
    telling,     \* each call of PublishEvent
    logs,        \* the rows of the log that can be seen
    writers,     \* what each writer is about to write
    stamps,      \* rows that were given a time so far
    lastId,      \* the last id the table gave
    panics       \* there was a send to a closed channel

streamVars == <<clients, registered, instant, telling, logs, writers, stamps,
                lastId, panics>>
logVars == <<logs, writers, stamps, lastId>>

Ids == 1 .. Cardinality(Clients)
Rows == 1 .. MaxLogs
Row == [id : Rows \cup {0}, at : Rows]

Client == [pc : {"none", "opening", "streaming", "gone"},
           id : Ids \cup {0}, holds : 0 .. Room,
           cursor : Rows \cup {0}, first : Rows \cup {0},
           old : SUBSET Rows,         \* auxiliary: rows there at the start
           pushed : Seq(Rows)]        \* auxiliary

StreamTypeOK ==
    /\ clients \in [Clients -> Client]
    /\ registered \in [Ids -> Clients \cup {Nobody}]
    /\ instant \in Ids \cup {0}
    /\ telling \in [Tellers -> [pc : {"no", "asks", "sends"}, left : SUBSET Ids]]
    /\ logs \subseteq Row
    /\ stamps \in 0 .. MaxLogs /\ lastId \in 0 .. MaxLogs
    /\ writers \in [Writers -> Row \cup {Nobody}]
    /\ panics \in BOOLEAN

Silent == [pc |-> "no", left |-> {}]
NoClient == [pc |-> "none", id |-> 0, holds |-> 0, cursor |-> 0, first |-> 0,
             old |-> {}, pushed |-> <<>>]

StreamInit ==
    /\ clients = [c \in Clients |-> NoClient]
    /\ registered = [i \in Ids |-> Nobody]
    /\ instant = 0
    /\ telling = [t \in Tellers |-> Silent]
    /\ logs = {}
    /\ writers = [w \in Writers |-> Nobody]
    /\ stamps = 0 /\ lastId = 0
    /\ panics = FALSE

Connected(c) == clients[c].pc \in {"opening", "streaming"}

\* No read lock is held.
Unread == \A t \in Tellers : telling[t].pc # "sends"

-----------------------------------------------------------------------------
(* PublishEvent. *)

\* Mutant: a send waits until there is room in the channel.
OfferBlocking(t, i) ==
    LET c == registered[i] IN
    /\ telling[t].pc = "sends" /\ i \in telling[t].left
    /\ clients[c].holds < Room
    /\ telling' = [telling EXCEPT ![t].left = @ \ {i}]
    /\ clients' = [clients EXCEPT ![c].holds = @ + 1]
    /\ panics' = (panics \/ ~ Connected(c))
    /\ UNCHANGED <<registered, instant, logVars>>

\* PublishEvent has been called.
Ask(t) == [telling EXCEPT ![t] = [pc |-> "asks", left |-> {}]]

\* It takes the read lock: the map stays as it is ...
LockMap(t) ==
    /\ telling[t].pc = "asks"
    /\ telling' = [telling EXCEPT ![t] =
            [pc |-> "sends", left |-> {i \in Ids : registered[i] # Nobody}]]
    /\ UNCHANGED <<clients, registered, instant, logVars, panics>>

\* ... sends to a channel, without waiting if it is full ...
Offer(t, i) ==
    LET c == registered[i] IN
    /\ telling[t].pc = "sends" /\ i \in telling[t].left
    /\ telling' = [telling EXCEPT ![t].left = @ \ {i}]
    /\ clients' = [clients EXCEPT ![c].holds = IF @ < Room THEN @ + 1 ELSE @]
    /\ panics' = (panics \/ ~ Connected(c))
    /\ UNCHANGED <<registered, instant, logVars>>

\* ... and returns.
Told(t) ==
    /\ telling[t].pc = "sends" /\ telling[t].left = {}
    /\ telling' = [telling EXCEPT ![t] = Silent]
    /\ UNCHANGED <<clients, registered, instant, logVars, panics>>

PublishStep(t) == LockMap(t) \/ Told(t) \/ \E i \in Ids : Offer(t, i)

-----------------------------------------------------------------------------
(* handleSSE. *)

\* The client registers, with the write lock.
Connect(c, faults) ==
    /\ clients[c].pc = "none" /\ Unread
    /\ instant' \in {instant + 1} \cup
           (IF "sameInstant" \in faults /\ instant > 0 THEN {instant} ELSE {})
    /\ clients' = [clients EXCEPT ![c] =
                       [NoClient EXCEPT !.pc = "opening", !.id = instant']]
    /\ registered' = [registered EXCEPT ![instant'] = c]
    /\ UNCHANGED <<telling, logVars, panics>>

IdsOf(rows) == {r.id : r \in rows}

\* QueryLogs, newest first by time: the cursor starts at that row's id.
SetCursor(c, faults) ==
    /\ clients[c].pc = "opening"
    /\ LET newest == {r \in logs : \A q \in logs : q.at <= r.at} IN
       \/ /\ newest # {}
          /\ \E r \in newest :
               clients' = [clients EXCEPT ![c].pc = "streaming",
                               ![c].cursor = r.id, ![c].first = r.id,
                               ![c].old = IdsOf(logs)]
       \/ /\ newest = {} \/ "readError" \in faults
          /\ clients' = [clients EXCEPT ![c].pc = "streaming",
                               ![c].old = IdsOf(logs)]
    /\ UNCHANGED <<registered, instant, telling, logVars, panics>>

New(c) == {i \in IdsOf(logs) : i > clients[c].cursor}

\* The rows sent are the lowest of those, all of them or a batch, by ascending id.
Sends(c, n, sent) ==
    /\ \A i, j \in 1 .. n : i < j => sent[i] < sent[j]
    /\ \A new \in New(c) \ ToSet(sent) : n = Batch /\ sent[n] < new

\* Mutant: the cursor goes to the newest row there is.
PushSkipping(c) ==
    /\ clients[c].pc = "streaming"
    /\ \E n \in 1 .. Batch : \E sent \in [1 .. n -> New(c)] :
         /\ Sends(c, n, sent)
         /\ clients' = [clients EXCEPT ![c].cursor = Max(New(c)),
                                       ![c].pushed = @ \o sent]
    /\ UNCHANGED <<registered, instant, telling, logVars, panics>>

\* A tick: QueryLogsSince the cursor, if it can be read and there is a row.
Push(c) ==
    /\ clients[c].pc = "streaming"
    /\ \E n \in 1 .. Batch : \E sent \in [1 .. n -> New(c)] :
         /\ Sends(c, n, sent)
         /\ clients' = [clients EXCEPT ![c].cursor = sent[n],
                                       ![c].pushed = @ \o sent]
    /\ UNCHANGED <<registered, instant, telling, logVars, panics>>

\* The client reads an event from its channel.
Receive(c) ==
    /\ clients[c].pc = "streaming" /\ clients[c].holds > 0
    /\ clients' = [clients EXCEPT ![c].holds = @ - 1]
    /\ UNCHANGED <<registered, instant, telling, logVars, panics>>

\* Mutant: the channel is closed, but its entry stays.
DisconnectForgetful(c) ==
    /\ clients[c].pc = "streaming" /\ Unread
    /\ clients' = [clients EXCEPT ![c].pc = "gone"]
    /\ UNCHANGED <<registered, instant, telling, logVars, panics>>

\* The connection is lost: its entry goes and its channel is closed, with
\* the write lock.
Disconnect(c) ==
    /\ clients[c].pc = "streaming" /\ Unread
    /\ clients' = [clients EXCEPT ![c].pc = "gone"]
    /\ registered' = [registered EXCEPT ![clients[c].id] = Nobody]
    /\ UNCHANGED <<instant, telling, logVars, panics>>

-----------------------------------------------------------------------------
(* The log: writeEventToDB, saveLog and the cleanup. *)

\* A writer makes up a row and takes the time.
Stamp(w, faults) ==
    /\ writers[w] = Nobody
    /\ stamps < MaxLogs
    /\ "overlap" \in faults \/ \A v \in Writers : writers[v] = Nobody
    /\ writers' = [writers EXCEPT ![w] =
            [id |-> 0, at |-> stamps + 1]]
    /\ stamps' = stamps + 1
    /\ UNCHANGED <<clients, registered, instant, telling, logs, lastId, panics>>

\* The table gives it an id, or does not take it, which is ignored.
Insert(w, faults) ==
    /\ writers[w] # Nobody /\ writers[w].id = 0
    /\ \/ /\ writers' = [writers EXCEPT ![w].id = lastId + 1]
          /\ lastId' = lastId + 1
       \/ /\ "writeError" \in faults
          /\ writers' = [writers EXCEPT ![w] = Nobody]
          /\ UNCHANGED lastId
    /\ UNCHANGED <<clients, registered, instant, telling, logs, stamps, panics>>

\* It can be seen; without a late commit, in the order of the ids.
Commit(w, faults) ==
    /\ writers[w] # Nobody /\ writers[w].id # 0
    /\ "lateCommit" \in faults \/
         \A v \in Writers : writers[v] # Nobody /\ writers[v].id # 0
                                => writers[w].id <= writers[v].id
    /\ logs' = logs \cup {writers[w]}
    /\ writers' = [writers EXCEPT ![w] = Nobody]
    /\ UNCHANGED <<clients, registered, instant, telling, stamps, lastId, panics>>

\* CleanupLogs deletes what was written before a time.
CleanUpLogs ==
    /\ \E before \in Rows :
         /\ \E r \in logs : r.at < before
         /\ logs' = {r \in logs : r.at >= before}
    /\ UNCHANGED <<clients, registered, instant, telling, writers, stamps,
                   lastId, panics>>

-----------------------------------------------------------------------------

(***************************************************************************)
(* The map holds what it should: an id leads to a client that is connected *)
(* and registered under it, so that no event is sent to a closed channel,  *)
(* which would end the process; and who is connected is in the map.  The   *)
(* exception to the second part are clients that registered under one id.  *)
(***************************************************************************)
MapIsExact ==
    /\ ~ panics
    /\ \A i \in Ids : registered[i] # Nobody =>
         Connected(registered[i]) /\ clients[registered[i]].id = i
    /\ \A c \in Clients : Connected(c) =>
         \/ registered[clients[c].id] = c
         \/ \E d \in Clients \ {c} : clients[d].id = clients[c].id

(***************************************************************************)
(* A client is shown each log row once, by ascending id, and every row     *)
(* between its first cursor and its last.  The exception is a row that     *)
(* becomes visible after a later one.  It is shown no row from before it   *)
(* connected, unless the first query failed (then it is shown all of them) *)
(* or rows have their ids in another order than their times.               *)
(***************************************************************************)
StreamExact(faults) ==
    \A c \in Clients :
        LET k == clients[c] IN
        /\ \A i, j \in DOMAIN k.pushed : i < j => k.pushed[i] < k.pushed[j]
        /\ "lateCommit" \notin faults =>
             {i \in IdsOf(logs) : k.first < i /\ i <= k.cursor}
                 \subseteq ToSet(k.pushed)
        /\ faults \cap {"readError", "overlap"} = {} =>
             ToSet(k.pushed) \cap k.old = {}

=============================================================================
