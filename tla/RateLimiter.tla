----------------------------- MODULE RateLimiter ----------------------------
(***************************************************************************)
(* The token buckets of internal/middleware.  A bucket is filled when it   *)
(* is looked at, from the time since it was last looked at; a ticker       *)
(* removes buckets nobody has looked at for a while, and a missing bucket  *)
(* is a full one.  A look is a critical section, so one action.            *)
(*                                                                         *)
(* The code counts tokens in fractions of time.  Here a token has Unit     *)
(* parts and time goes in ticks, a tick being what a part takes to come.   *)
(***************************************************************************)
EXTENDS Integers

CONSTANTS
    Keys,       \* what a bucket is for: a user, a group or a channel
    NoBucket,   \* there is no bucket for a key
    Unit,       \* the parts of a token
    Burst,      \* the tokens of a full bucket (10)
    IdleLimit,  \* a bucket idle for longer may go (30 minutes)
    MaxTime     \* bound: ticks in a behaviour

Full == Burst * Unit

Bucket == [tokens : 0 .. Full, last : 0 .. MaxTime]

(***************************************************************************)
(* The code takes no care of the last conjunct: it holds for the values    *)
(* the bot uses (10 tokens at 5 a second are back in two seconds).         *)
(***************************************************************************)
ASSUME LimiterAssumption ==
    /\ Unit \in Nat \ {0} /\ Burst \in Nat \ {0}
    /\ IdleLimit \in Nat /\ MaxTime \in Nat
    /\ NoBucket \notin Bucket
    /\ Full <= IdleLimit

VARIABLES
    now,        \* the time
    buckets,    \* the bucket of each key, or NoBucket
    since,      \* auxiliary: when an observer began to count ...
    passed      \* ... the looks that were granted, for each key

limiterVars == <<now, buckets, since, passed>>

LimiterTypeOK ==
    /\ now \in 0 .. MaxTime
    /\ buckets \in [Keys -> Bucket \cup {NoBucket}]
    /\ \A k \in Keys : buckets[k] # NoBucket => buckets[k].last <= now
    /\ since \in 0 .. now
    /\ passed \in [Keys -> Nat]

LimiterInit ==
    /\ now = 0
    /\ buckets = [k \in Keys |-> NoBucket]
    /\ since = 0
    /\ passed = [k \in Keys |-> 0]

\* The tokens of a bucket at a look at it.
Refilled(b) ==
    IF b.tokens + (now - b.last) > Full THEN Full
    ELSE b.tokens + (now - b.last)

Available(k) == IF buckets[k] = NoBucket THEN Full ELSE Refilled(buckets[k])

Leave(k, tokens) ==
    buckets' = [buckets EXCEPT ![k] = [tokens |-> tokens, last |-> now]]

\* Mutant: any part of a token will do.
GrantPartly(k) ==
    /\ Available(k) > 0
    /\ Leave(k, Available(k) - Unit)
    /\ passed' = [passed EXCEPT ![k] = @ + 1]
    /\ UNCHANGED <<now, since>>

Grant(k) ==
    /\ Available(k) >= Unit
    /\ Leave(k, Available(k) - Unit)
    /\ passed' = [passed EXCEPT ![k] = @ + 1]
    /\ UNCHANGED <<now, since>>

Deny(k) ==
    /\ Available(k) < Unit
    /\ Leave(k, Available(k))
    /\ UNCHANGED <<now, since, passed>>

IsIdle(k) == buckets[k] # NoBucket /\ now - buckets[k].last > IdleLimit

\* Mutant: the ticker removes every bucket.
CleanupAll ==
    /\ \E k \in Keys : buckets[k] # NoBucket
    /\ buckets' = [k \in Keys |-> NoBucket]
    /\ UNCHANGED <<now, since, passed>>

\* The ticker of cleanupLoop fires.
Cleanup ==
    /\ \E k \in Keys : IsIdle(k)
    /\ buckets' = [k \in Keys |-> IF IsIdle(k) THEN NoBucket ELSE buckets[k]]
    /\ UNCHANGED <<now, since, passed>>

Tick ==
    /\ now < MaxTime
    /\ now' = now + 1
    /\ UNCHANGED <<buckets, since, passed>>

\* The observer begins, at any moment.
Observe ==
    /\ since = 0 /\ now > 0
    /\ since' = now
    /\ passed' = [k \in Keys |-> 0]
    /\ UNCHANGED <<now, buckets>>

\* A new process has no buckets; the observer begins anew.
LimiterRestarts ==
    /\ buckets' = [k \in Keys |-> NoBucket]
    /\ since' = now
    /\ passed' = [k \in Keys |-> 0]
    /\ now' = now

-----------------------------------------------------------------------------
(* Property. *)

(***************************************************************************)
(* From whatever moment one counts, a key is granted no more looks than a  *)
(* full bucket has tokens plus the tokens that have come since: cleaning   *)
(* up, refilling lazily and looking often give nothing away.               *)
(***************************************************************************)
RateBounded == \A k \in Keys : passed[k] * Unit <= Full + (now - since)

=============================================================================
