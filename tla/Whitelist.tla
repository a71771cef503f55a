------------------------------ MODULE Whitelist -----------------------------
(***************************************************************************)
(* plugins/whitelist: applying for a name on the game's whitelist, and     *)
(* taking one off it.  The plugin keeps a table whitelist_records with the *)
(* name as primary key and the user who applied, and asks the game with a  *)
(* POST whose answer it judges by the HTTP status alone.  Applying checks  *)
(* the table, asks the game and then inserts the row; removing asks the    *)
(* game and then deletes the row.  Querying (handleCheckWhitelist) changes *)
(* nothing and is left out.  A name stands for its lower-case form.        *)
(*                                                                         *)
(* The faults of a behaviour, beside "crash" and "timeout" of MessageLoop: *)
(*   "lostReply"  the game did what it was asked, the answer is not read   *)
(*   "late"       the handler gives a request up, the game acts on it later *)
(*   "refused"    the game says no in the body of an answer that is not an *)
(*                HTTP error                                               *)
(*   "readError"  a query of the table fails                               *)
(*   "saveError"  an insert or a delete fails                              *)
(***************************************************************************)
EXTENDS MessageLoop, FiniteSets

CONSTANTS
    Users,       \* the users that may apply
    Names,       \* player names
    FaultRegimes \* the sets of faults a behaviour may be given

Fault == {"lostReply", "late", "refused", "readError", "saveError",
          "crash", "timeout"}

ASSUME WhitelistAssumption ==
    /\ FaultRegimes \subseteq SUBSET Fault
    /\ None \notin Users

VARIABLES
    records,     \* whitelist_records: the applicant of a name's row, or None
    listed,      \* the names on the game's whitelist
    inflight,    \* requests given up that the game has yet to act on
    unlisted     \* auxiliary: names the game took off while they had a row

tables == <<records, listed, inflight, unlisted>>
vars == <<handlers, loop, ops, faults, tables>>

Handler == [pc : {"user", "name", "post", "create", "removePost", "delete"},
            op : {"apply", "remove"}, user : Users, name : Names]

ASSUME WhitelistNoneAssumption == None \notin Handler

TypeOK ==
    /\ handlers \in [Slots -> Handler \cup {None}]
    /\ loop \in Slots \cup {None}
    /\ loop # None => Running(loop)
    /\ ops \in 0 .. MaxOps
    /\ faults \in SUBSET Fault
    /\ records \in [Names -> Users \cup {None}]
    /\ listed \subseteq Names
    /\ inflight \subseteq {"add", "remove"} \X Names
    /\ unlisted \subseteq Names

Init ==
    /\ handlers = [s \in Slots |-> None]
    /\ loop = None
    /\ ops = 0
    /\ faults \in FaultRegimes
    /\ records = [n \in Names |-> None]
    /\ listed = {}
    /\ inflight = {}
    /\ unlisted = {}

-----------------------------------------------------------------------------
(* Commands. *)

NewHandler(op, u, n) ==
    [pc |-> IF op = "apply" THEN "user" ELSE "removePost",
     op |-> op, user |-> u, name |-> n]

Dispatch(s) ==
    /\ \E op \in {"apply", "remove"}, u \in Users, n \in Names :
         Take(s, NewHandler(op, u, n))
    /\ UNCHANGED <<faults, tables>>

Timeout == WaitEnds /\ UNCHANGED <<faults, tables>>
Crash == ProcessDies /\ UNCHANGED <<faults, tables>>

\* Wrong scene, no argument, or a name that is not one.
Refuse(s) ==
    /\ Running(s)
    /\ handlers[s].pc \in {"user", "removePost"}
    /\ Finish(s)
    /\ UNCHANGED <<ops, faults, tables>>

-----------------------------------------------------------------------------
(* Applying. *)

\* The answers of a query for a row: a query that fails finds none.
Finds(found) == {found} \cup (IF "readError" \in faults THEN {FALSE} ELSE {})

HasName(u) == \E n \in Names : records[n] = u

\* Mutant: whoever has a name may apply for another.
ApplyUserUnchecked(s) ==
    /\ At(s, "apply", "user")
    /\ Goto(s, "name")
    /\ UNCHANGED <<ops, faults, tables>>

\* A user with a row is told so and is done.
ApplyUser(s) ==
    /\ At(s, "apply", "user")
    /\ \E found \in Finds(HasName(handlers[s].user)) :
         IF found THEN Finish(s) ELSE Goto(s, "name")
    /\ UNCHANGED <<ops, faults, tables>>

\* So is one whose name has a row.
ApplyName(s) ==
    /\ At(s, "apply", "name")
    /\ \E found \in Finds(records[handlers[s].name] # None) :
         IF found THEN Finish(s) ELSE Goto(s, "post")
    /\ UNCHANGED <<ops, faults, tables>>

\* The game acts on a request.
GameLists(n) ==
    /\ listed' = listed \cup {n}
    /\ unlisted' = unlisted \ {n}

GameUnlists(n) ==
    /\ listed' = listed \ {n}
    /\ unlisted' = IF records[n] # None THEN unlisted \cup {n} ELSE unlisted

GameDoesNothing == UNCHANGED <<listed, unlisted>>

\* The game acts on a request that its handler has given up.
LateRequest ==
    /\ \E n \in Names :
         \/ /\ <<"add", n>> \in inflight
            /\ GameLists(n)
            /\ inflight' = inflight \ {<<"add", n>>}
         \/ /\ <<"remove", n>> \in inflight
            /\ GameUnlists(n)
            /\ inflight' = inflight \ {<<"remove", n>>}
    /\ UNCHANGED <<handlers, loop, ops, faults, records>>

ApplyPostAnswered(s) ==
    /\ \/ GameLists(handlers[s].name)
       \/ "refused" \in faults /\ GameDoesNothing
    /\ Goto(s, "create")
    /\ UNCHANGED inflight

\* No answer is read, but the game has acted or will act.
ApplyPostLost(s) ==
    /\ \/ /\ "lostReply" \in faults
          /\ GameLists(handlers[s].name)
          /\ UNCHANGED inflight
       \/ /\ "late" \in faults
          /\ GameDoesNothing
          /\ inflight' = inflight \cup {<<"add", handlers[s].name>>}
    /\ Finish(s)

\* Mutant: the error of the request is not looked at.
ApplyPostFailsUnnoticed(s) ==
    GameDoesNothing /\ Goto(s, "create") /\ UNCHANGED inflight

ApplyPostFails(s) == GameDoesNothing /\ Finish(s) /\ UNCHANGED inflight

ApplyPost(s) ==
    /\ At(s, "apply", "post")
    /\ \/ ApplyPostAnswered(s)
       \/ ApplyPostLost(s)
       \/ ApplyPostFails(s)
    /\ UNCHANGED <<ops, faults, records>>

\* Insert the row; the primary key refuses a second row of one name.
ApplyCreate(s) ==
    /\ At(s, "apply", "create")
    /\ \/ /\ records[handlers[s].name] = None
          /\ records' = [records EXCEPT ![handlers[s].name] = handlers[s].user]
       \/ /\ records[handlers[s].name] # None \/ "saveError" \in faults
          /\ UNCHANGED records
    /\ Finish(s)
    /\ UNCHANGED <<ops, faults, listed, inflight, unlisted>>

-----------------------------------------------------------------------------
(* Removing. *)

RemovePostAnswered(s) ==
    /\ \/ GameUnlists(handlers[s].name)
       \/ "refused" \in faults /\ GameDoesNothing
    /\ Goto(s, "delete")
    /\ UNCHANGED inflight

RemovePostLost(s) ==
    /\ \/ /\ "lostReply" \in faults
          /\ GameUnlists(handlers[s].name)
          /\ UNCHANGED inflight
       \/ /\ "late" \in faults
          /\ GameDoesNothing
          /\ inflight' = inflight \cup {<<"remove", handlers[s].name>>}
    /\ Finish(s)

\* Mutant: the row is deleted whether or not the request succeeded.
RemovePostFailsUnnoticed(s) ==
    GameDoesNothing /\ Goto(s, "delete") /\ UNCHANGED inflight

RemovePostFails(s) == GameDoesNothing /\ Finish(s) /\ UNCHANGED inflight

RemovePost(s) ==
    /\ At(s, "remove", "removePost")
    /\ \/ RemovePostAnswered(s)
       \/ RemovePostLost(s)
       \/ RemovePostFails(s)
    /\ UNCHANGED <<ops, faults, records>>

\* Mutant: the delete matches no row (the name in another case, say).
RemoveDeleteMisses(s) ==
    /\ At(s, "remove", "delete")
    /\ Finish(s)
    /\ UNCHANGED <<ops, faults, tables>>

\* Delete the row, if there is one; an error is only logged.
RemoveDelete(s) ==
    /\ At(s, "remove", "delete")
    /\ \/ /\ records' = [records EXCEPT ![handlers[s].name] = None]
          /\ unlisted' = unlisted \ {handlers[s].name}
       \/ "saveError" \in faults /\ UNCHANGED <<records, unlisted>>
    /\ Finish(s)
    /\ UNCHANGED <<ops, faults, listed, inflight>>

-----------------------------------------------------------------------------

HandlerStep(s) ==
    \/ Refuse(s)
    \/ ApplyUser(s) \/ ApplyName(s) \/ ApplyPost(s) \/ ApplyCreate(s)
    \/ RemovePost(s) \/ RemoveDelete(s)

Done == Idle /\ ops = MaxOps /\ inflight = {} /\ UNCHANGED vars

Next ==
    \/ \E s \in Slots : Dispatch(s) \/ HandlerStep(s)
    \/ LateRequest
    \/ Timeout
    \/ Crash
    \/ Done

Spec == Init /\ [][Next]_vars

-----------------------------------------------------------------------------
(* Properties. *)

NamesOf(u) == {n \in Names : records[n] = u}

(***************************************************************************)
(* A user has at most one name, whatever requests and writes are lost and  *)
(* wherever the process dies, while queries work and handlers do not       *)
(* overlap.  Nothing in the table enforces it: applied_by is only indexed. *)
(***************************************************************************)
OneNamePerUser ==
    faults \cap {"readError", "timeout"} = {} =>
        \A u \in Users : Cardinality(NamesOf(u)) <= 1

(***************************************************************************)
(* A name with a row is on the game's whitelist unless a removal of it is  *)
(* unfinished.  The row comes after the game's answer, so a lost answer, a *)
(* failed write or a crash leaves a listed name without a row and never a  *)
(* row for a name that was not listed.  (A late removal can take the name  *)
(* off between the answer and the row.)                                    *)
(***************************************************************************)
RecordedIsListed ==
    faults \cap {"refused", "late", "timeout"} = {} =>
        \A n \in Names \ unlisted : records[n] # None => n \in listed

(***************************************************************************)
(* Without faults the table and the whitelist agree whenever no handler    *)
(* runs.                                                                   *)
(***************************************************************************)
TablesAgree ==
    Idle /\ faults = {} => listed = {n \in Names : records[n] # None}

(***************************************************************************)
(* A row never passes from one user to another, and it is deleted only     *)
(* after the game has taken the name off.  (A late application may put the *)
(* name back in between.)                                                  *)
(***************************************************************************)
RowsFollowTheGame ==
    [][faults \cap {"refused", "late", "timeout"} = {} =>
         \A n \in Names : records[n] # None /\ records'[n] # records[n] =>
             records'[n] = None /\ n \notin listed]_vars

(***************************************************************************)
(* The package comment (whitelist.go:3) says that applications are         *)
(* deduplicated in the local database.  The check takes any error of its   *)
(* query for "no row".                                                     *)
(***************************************************************************)
Deduplicated == \A u \in Users : Cardinality(NamesOf(u)) <= 1

=============================================================================
