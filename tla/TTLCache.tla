------------------------------ MODULE TTLCache ------------------------------
(***************************************************************************)
(* internal/cache: values with a deadline.  Get reads an entry under the   *)
(* read lock, gives the lock up, and looks at the clock; if the entry has  *)
(* expired it takes the lock again and deletes the key.                    *)
(*                                                                         *)
(* Values are left out: what is told apart is which call of Set an entry   *)
(* comes from, by its deadline.                                            *)
(***************************************************************************)
EXTENDS Clock

CONSTANTS
    Keys,
    Getters,     \* the goroutines that call Get
    Lifetimes,   \* the cache's TTL and those given to SetWithTTL
    MaxSets      \* bound: calls of Set and SetWithTTL

ASSUME CacheAssumption == Lifetimes \subseteq Nat /\ MaxSets \in Nat

VARIABLES
    cache,       \* the deadline of each key's entry, or Never
    getters,     \* what each call of Get has read, or Never
    sets,        \* calls of Set so far
    promised,    \* auxiliary: the deadline given to each key, or Never
    overtaken    \* auxiliary: keys set while a Get was about to delete them

cacheVars == <<cache, getters, sets, promised, overtaken>>

Deadline == Nat
Getter == [key : Keys, deadline : Deadline, pc : {"look", "delete"}]

CacheTypeOK ==
    /\ cache \in [Keys -> Deadline \cup {Never}]
    /\ getters \in [Getters -> Getter \cup {Never}]
    /\ sets \in 0 .. MaxSets
    /\ promised \in [Keys -> Deadline \cup {Never}]
    /\ overtaken \subseteq Keys

CacheInit ==
    /\ cache = [k \in Keys |-> Never]
    /\ getters = [g \in Getters |-> Never]
    /\ sets = 0
    /\ promised = [k \in Keys |-> Never]
    /\ overtaken = {}

\* A Get has read an entry of the key that it may find expired.
Pending(k) == \E g \in Getters : getters[g] # Never /\ getters[g].key = k

\* Mutant: the deadline of an entry that is there is kept.
SetKeeping(k, ttl) ==
    /\ sets < MaxSets
    /\ sets' = sets + 1
    /\ cache' = [cache EXCEPT ![k] = IF @ = Never THEN clock + ttl ELSE @]
    /\ promised' = [promised EXCEPT ![k] = clock + ttl]
    /\ overtaken' = IF Pending(k) THEN overtaken \cup {k} ELSE overtaken \ {k}
    /\ UNCHANGED <<getters, clock>>

\* Set, SetWithTTL.
Set(k, ttl) ==
    /\ sets < MaxSets
    /\ sets' = sets + 1
    /\ cache' = [cache EXCEPT ![k] = clock + ttl]
    /\ promised' = [promised EXCEPT ![k] = clock + ttl]
    /\ overtaken' = IF Pending(k) THEN overtaken \cup {k} ELSE overtaken \ {k}
    /\ UNCHANGED <<getters, clock>>

\* Delete of one key, Clear of all.
Discard(keys) ==
    /\ cache' = [k \in Keys |-> IF k \in keys THEN Never ELSE cache[k]]
    /\ promised' = [k \in Keys |-> IF k \in keys THEN Never ELSE promised[k]]
    /\ UNCHANGED <<getters, sets, overtaken, clock>>

\* A round of cleanupLoop.
CleanUp ==
    /\ cache' = [k \in Keys |->
            IF cache[k] # Never /\ Expired(cache[k]) THEN Never
            ELSE cache[k]]
    /\ UNCHANGED <<getters, sets, promised, overtaken, clock>>

\* Get reads the entry; a key that is not there is a miss.
GetRead(g) ==
    /\ getters[g] = Never
    /\ \E k \in Keys :
         /\ cache[k] # Never
         /\ getters' = [getters EXCEPT ![g] =
                [key |-> k, deadline |-> cache[k], pc |-> "look"]]
    /\ UNCHANGED <<cache, sets, promised, overtaken, clock>>

\* It looks at the clock: a hit, or an expired entry.
GetLook(g) ==
    /\ getters[g] # Never /\ getters[g].pc = "look"
    /\ getters' = [getters EXCEPT ![g] =
            IF Expired(@.deadline) THEN [@ EXCEPT !.pc = "delete"] ELSE Never]
    /\ UNCHANGED <<cache, sets, promised, overtaken, clock>>

\* It deletes the key, whatever is there by now.
GetDelete(g) ==
    /\ getters[g] # Never /\ getters[g].pc = "delete"
    /\ cache' = [cache EXCEPT ![getters[g].key] = Never]
    /\ getters' = [getters EXCEPT ![g] = Never]
    /\ UNCHANGED <<sets, promised, overtaken, clock>>

CacheStep ==
    \/ \E k \in Keys, ttl \in Lifetimes : Set(k, ttl)
    \/ \E keys \in {{k} : k \in Keys} \cup {Keys} : Discard(keys)
    \/ CleanUp
    \/ \E g \in Getters : GetRead(g) \/ GetLook(g) \/ GetDelete(g)

-----------------------------------------------------------------------------

(***************************************************************************)
(* A value that was set is there, with the deadline it was given last,     *)
(* until that has passed or it is removed.  The exception is a Get that    *)
(* read an older entry before the value was set and deletes the new one.   *)
(***************************************************************************)
FreshSurvives ==
    \A k \in Keys \ overtaken :
        promised[k] # Never /\ ~ Expired(promised[k])
            => cache[k] = promised[k]

=============================================================================
