------------------------------ MODULE Blacklist -----------------------------
(***************************************************************************)
(* The blacklist of internal/blacklist: rows of the storage, and a cache   *)
(* of them that a check fills and that is never refreshed.  Users and      *)
(* groups have a cache and a key prefix each and the same code: a source   *)
(* is either.  Each storage call and each critical section is a step of    *)
(* its own, so that checks and edits interleave.  Nothing in the bot calls *)
(* AddUser, AddGroup, RemoveUser or RemoveGroup yet; they are modelled as  *)
(* the operations the manager offers, used from several goroutines.        *)
(***************************************************************************)
EXTENDS MessageLoop

CONSTANTS
    Sources,    \* users and groups
    Editors,    \* goroutines that edit the blacklist
    MaxEdits    \* bound: edits in a behaviour

ASSUME BlacklistAssumption == MaxEdits \in Nat /\ None \notin Sources

VARIABLES
    stored,     \* the sources that have a row
    cached,     \* the sources the cache has as blocked
    edits,      \* what each editor does, or None
    edited,     \* edits begun so far
    barred,     \* auxiliary: sources whose blocking is complete, not undone
    due,        \* auxiliary: a message's sources that were barred at its start
    raced       \* auxiliary: removed sources something else was at work on

blacklistVars == <<stored, cached, edits, edited, barred, due, raced>>

Edit == [op : {"add", "remove"}, source : Sources, pc : {"storage", "cache"}]

ASSUME EditAssumption == None \notin Edit

BlacklistTypeOK ==
    /\ stored \subseteq Sources
    /\ cached \subseteq Sources
    /\ edits \in [Editors -> Edit \cup {None}]
    /\ edited \in 0 .. MaxEdits
    /\ barred \subseteq Sources
    /\ due \in [Slots -> SUBSET Sources]
    /\ raced \subseteq Sources

BlacklistInit ==
    /\ stored \in SUBSET Sources
    /\ cached = {}
    /\ edits = [e \in Editors |-> None]
    /\ edited = 0
    /\ barred = IF "readError" \in faults THEN {} ELSE stored
    /\ due = [s \in Slots |-> {}]
    /\ raced = {}

-----------------------------------------------------------------------------
(* Edits. *)

Editing(e, op, pc) == edits[e] # None /\ edits[e].op = op /\ edits[e].pc = pc

BeginEdit(e) ==
    /\ edits[e] = None
    /\ edited < MaxEdits
    /\ edited' = edited + 1
    /\ \E op \in {"add", "remove"}, x \in Sources :
         edits' = [edits EXCEPT ![e] = [op |-> op, source |-> x, pc |-> "storage"]]
    /\ UNCHANGED <<stored, cached, barred, due, raced>>

Return(e) == edits' = [edits EXCEPT ![e] = None]

\* The storage fails: the edit returns the error and changes nothing.
StorageFails(e) ==
    /\ edits[e] # None /\ edits[e].pc = "storage"
    /\ "writeError" \in faults
    /\ Return(e)
    /\ UNCHANGED <<stored, cached, edited, barred, due, raced>>

AddRow(e) ==
    /\ Editing(e, "add", "storage")
    /\ stored' = stored \cup {edits[e].source}
    /\ edits' = [edits EXCEPT ![e].pc = "cache"]
    /\ UNCHANGED <<cached, edited, barred, due, raced>>

Removing(x) ==
    \E e \in Editors : Editing(e, "remove", "cache") /\ edits[e].source = x

BarredBy(x) ==
    barred' = IF x \in stored /\ ~ Removing(x) THEN barred \cup {x} ELSE barred

\* Mutant: the cache is left to the next check.
AddToNoCache(e) ==
    /\ Editing(e, "add", "cache")
    /\ cached' = cached
    /\ BarredBy(edits[e].source)
    /\ Return(e)
    /\ UNCHANGED <<stored, edited, due, raced>>

AddToCache(e) ==
    /\ Editing(e, "add", "cache")
    /\ cached' = cached \cup {edits[e].source}
    /\ BarredBy(edits[e].source)
    /\ Return(e)
    /\ UNCHANGED <<stored, edited, due, raced>>

\* A check of x has read its row, an addition has written it: each goes on
\* to put x in the cache.
CheckHolds(x) ==
    \E s \in Slots :
        Running(s) /\ handlers[s].pc = "cache" /\ handlers[s].left[1] = x
AdditionHolds(x) ==
    \E e \in Editors : Editing(e, "add", "cache") /\ edits[e].source = x

RemoveRow(e) ==
    /\ Editing(e, "remove", "storage")
    /\ LET x == edits[e].source IN
         /\ stored' = stored \ {x}
         /\ barred' = barred \ {x}
         /\ due' = [s \in Slots |-> due[s] \ {x}]
         /\ raced' = IF CheckHolds(x) \/ AdditionHolds(x) THEN raced \cup {x}
                     ELSE raced
    /\ edits' = [edits EXCEPT ![e].pc = "cache"]
    /\ UNCHANGED <<cached, edited>>

\* Mutant: the cache keeps its entry.
RemoveFromNoCache(e) ==
    /\ Editing(e, "remove", "cache")
    /\ Return(e)
    /\ UNCHANGED <<stored, cached, edited, barred, due, raced>>

RemoveFromCache(e) ==
    /\ Editing(e, "remove", "cache")
    /\ cached' = cached \ {edits[e].source}
    /\ Return(e)
    /\ UNCHANGED <<stored, edited, barred, due, raced>>

EditStep(e) ==
    \/ BeginEdit(e) \/ StorageFails(e)
    \/ AddRow(e) \/ AddToCache(e) \/ RemoveRow(e) \/ RemoveFromCache(e)

\* A new process has an empty cache; a query of it that fails finds nobody.
BlacklistRestarts ==
    /\ cached' = {}
    /\ edits' = [e \in Editors |-> None]
    /\ barred' = IF "readError" \in faults THEN {} ELSE barred
    /\ due' = [s \in Slots |-> {}]
    /\ raced' = {}
    /\ UNCHANGED <<stored, edited>>

-----------------------------------------------------------------------------
(* Property. *)

(***************************************************************************)
(* A source without a row is in the cache only while its removal is under  *)
(* way, or if a check or an addition held the row while it was removed:    *)
(* the manager has no other way to keep blocking whom it was told to let   *)
(* in again.                                                               *)
(***************************************************************************)
CacheFollowsRows ==
    \A x \in cached \ stored : Removing(x) \/ x \in raced

=============================================================================
