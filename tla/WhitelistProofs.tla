--------------------------- MODULE WhitelistProofs --------------------------
(***************************************************************************)
(* Proofs about the whitelist, for any users, any names, any number of     *)
(* handlers and every mixture of faults: what the table and the game's     *)
(* whitelist promise while handlers do not overlap.                        *)
(***************************************************************************)
EXTENDS Whitelist, FiniteSetTheorems, TLAPS

-----------------------------------------------------------------------------
(* Types. *)

(* A handler that returns. *)
LEMMA FinishType ==
    ASSUME TypeOK, NEW s \in Slots, Finish(s)
    PROVE  /\ handlers' \in [Slots -> Handler \cup {None}]
           /\ loop' \in Slots \cup {None}
           /\ loop' # None => Running(loop)'
BY LoopAssumption DEF TypeOK, Finish, Running

(* A handler that goes on. *)
LEMMA GotoType ==
    ASSUME TypeOK, NEW s \in Slots, Running(s),
           NEW pc \in {"name", "post", "create", "delete"}, Goto(s, pc)
    PROVE  /\ handlers' \in [Slots -> Handler \cup {None}]
           /\ loop' \in Slots \cup {None}
           /\ loop' # None => Running(loop)'
           /\ [handlers[s] EXCEPT !.pc = pc] \in Handler
<1>1. handlers[s] \in Handler
  BY DEF TypeOK, Running
<1>2. [handlers[s] EXCEPT !.pc = pc] \in Handler
  BY <1>1 DEF Handler
<1>3. [handlers[s] EXCEPT !.pc = pc] # None
  BY <1>2, WhitelistNoneAssumption
<1>4. handlers' = [handlers EXCEPT ![s] = [handlers[s] EXCEPT !.pc = pc]]
  BY DEF Goto
<1>5. QED
  BY <1>2, <1>3, <1>4 DEF TypeOK, Goto, Running

LEMMA TypeInit == Init => TypeOK
BY WhitelistAssumption, LoopAssumption DEF Init, TypeOK

(* The game's list and what is known of it. *)
ListTypes ==
    listed' \subseteq Names /\ unlisted' \subseteq Names

LEMMA GameTypes ==
    ASSUME TypeOK, NEW n \in Names,
           GameLists(n) \/ GameUnlists(n) \/ GameDoesNothing
    PROVE  ListTypes
BY DEF TypeOK, GameLists, GameUnlists, GameDoesNothing, ListTypes

LEMMA TypeStep == TypeOK /\ [Next]_vars => TypeOK'
<1> SUFFICES ASSUME TypeOK, [Next]_vars
             PROVE  TypeOK'
  OBVIOUS
<1> USE DEF tables
<1>1. ASSUME NEW s \in Slots, Dispatch(s)
      PROVE  TypeOK'
  <2>1. PICK op \in {"apply", "remove"}, u \in Users, n \in Names :
            Take(s, NewHandler(op, u, n))
    BY <1>1 DEF Dispatch
  <2>2. NewHandler(op, u, n) \in Handler
    BY DEF NewHandler, Handler
  <2>3. NewHandler(op, u, n) # None
    BY <2>2, WhitelistNoneAssumption
  <2>4. QED
    BY <1>1, <2>1, <2>2, <2>3, LoopAssumption
       DEF Dispatch, Take, TypeOK, Running
<1>2. ASSUME NEW s \in Slots, HandlerStep(s)
      PROVE  TypeOK'
  <2>1. CASE Refuse(s)
    BY <2>1, FinishType DEF Refuse, TypeOK
  <2>2. CASE ApplyUser(s)
    <3>1. CASE Finish(s)
      BY <2>2, <3>1, FinishType DEF ApplyUser, TypeOK
    <3>2. CASE Goto(s, "name")
      BY <2>2, <3>2, GotoType DEF ApplyUser, At, TypeOK
    <3>3. QED
      BY <2>2, <3>1, <3>2 DEF ApplyUser
  <2>3. CASE ApplyName(s)
    <3>1. CASE Finish(s)
      BY <2>3, <3>1, FinishType DEF ApplyName, TypeOK
    <3>2. CASE Goto(s, "post")
      BY <2>3, <3>2, GotoType DEF ApplyName, At, TypeOK
    <3>3. QED
      BY <2>3, <3>1, <3>2 DEF ApplyName
  <2>4. CASE ApplyPost(s)
    <3> DEFINE n == handlers[s].name
    <3>1. n \in Names /\ Running(s)
      BY <2>4 DEF ApplyPost, At, Running, TypeOK, Handler
    <3>2. ListTypes /\ inflight' \subseteq {"add", "remove"} \X Names
      BY <2>4, <3>1, GameTypes
         DEF ApplyPost, ApplyPostAnswered, ApplyPostLost, ApplyPostFails, TypeOK
    <3>3. Finish(s) \/ Goto(s, "create")
      BY <2>4 DEF ApplyPost, ApplyPostAnswered, ApplyPostLost, ApplyPostFails
    <3>4. UNCHANGED <<ops, faults, records>>
      BY <2>4 DEF ApplyPost
    <3>5. QED
      BY <3>1, <3>2, <3>3, <3>4, FinishType, GotoType DEF TypeOK, ListTypes
  <2>5. CASE ApplyCreate(s)
    <3>1. handlers[s] \in Handler
      BY <2>5 DEF ApplyCreate, At, Running, TypeOK
    <3>2. records' \in [Names -> Users \cup {None}]
      BY <2>5, <3>1 DEF ApplyCreate, TypeOK, Handler
    <3>3. QED
      BY <2>5, <3>2, FinishType DEF ApplyCreate, TypeOK
  <2>6. CASE RemovePost(s)
    <3> DEFINE n == handlers[s].name
    <3>1. n \in Names /\ Running(s)
      BY <2>6 DEF RemovePost, At, Running, TypeOK, Handler
    <3>2. ListTypes /\ inflight' \subseteq {"add", "remove"} \X Names
      BY <2>6, <3>1, GameTypes
         DEF RemovePost, RemovePostAnswered, RemovePostLost, RemovePostFails,
             TypeOK
    <3>3. Finish(s) \/ Goto(s, "delete")
      BY <2>6 DEF RemovePost, RemovePostAnswered, RemovePostLost,
                  RemovePostFails
    <3>4. UNCHANGED <<ops, faults, records>>
      BY <2>6 DEF RemovePost
    <3>5. QED
      BY <3>1, <3>2, <3>3, <3>4, FinishType, GotoType DEF TypeOK, ListTypes
  <2>7. CASE RemoveDelete(s)
    BY <2>7, FinishType DEF RemoveDelete, TypeOK
  <2>8. QED
    BY <1>2, <2>1, <2>2, <2>3, <2>4, <2>5, <2>6, <2>7 DEF HandlerStep
<1>3. CASE LateRequest
  <2>1. ListTypes
    BY <1>3, GameTypes DEF LateRequest
  <2>2. QED
    BY <1>3, <2>1 DEF LateRequest, TypeOK, ListTypes, Running
<1>4. CASE Timeout
  BY <1>4 DEF Timeout, WaitEnds, TypeOK
<1>5. CASE Crash
  BY <1>5 DEF Crash, ProcessDies, TypeOK
<1>6. CASE UNCHANGED vars
  BY <1>6 DEF vars, TypeOK, Running
<1>7. QED
  BY <1>1, <1>2, <1>3, <1>4, <1>5, <1>6 DEF Next, Done

(* The tables, the requests and the handlers keep their types. *)
THEOREM TypeCorrect == Spec => []TypeOK
BY TypeInit, TypeStep, PTL DEF Spec

-----------------------------------------------------------------------------
(***************************************************************************)
(* The inductive invariant.  Each part says, under the faults it can bear, *)
(* what the tables promise and what a handler on its way has made sure of. *)
(* Without timeouts the loop waits for the only handler there is.          *)
(***************************************************************************)

OneHandler ==
    "timeout" \notin faults => \A s \in Slots : Running(s) => loop = s

NothingLate == "late" \notin faults => inflight = {}

\* One name for a user, and none for a user whose application goes on.
NamesInv ==
    faults \cap {"readError", "timeout"} = {} =>
        /\ \A m, n \in Names :
              records[m] # None /\ records[m] = records[n] => m = n
        /\ \A s \in Slots :
              Running(s) /\ handlers[s].pc \in {"name", "post", "create"} =>
                  ~ HasName(handlers[s].user)

\* The game has done what the handler is about to write down.
ListedInv ==
    faults \cap {"refused", "late", "timeout"} = {} =>
        /\ \A n \in Names \ unlisted : records[n] # None => n \in listed
        /\ \A s \in Slots : Running(s) =>
              /\ handlers[s].pc = "create" => handlers[s].name \in listed
              /\ handlers[s].pc = "delete" => handlers[s].name \notin listed

Awaits(n, pc) ==
    \E s \in Slots :
        Running(s) /\ handlers[s].pc = pc /\ handlers[s].name = n

\* The table and the whitelist differ by what the handler has yet to write.
AgreeInv ==
    faults = {} =>
        \A n \in Names :
            n \in listed <=>
                /\ records[n] # None \/ Awaits(n, "create")
                /\ ~ Awaits(n, "delete")

WhitelistInv ==
    TypeOK /\ OneHandler /\ NothingLate /\ NamesInv /\ ListedInv /\ AgreeInv

-----------------------------------------------------------------------------
(* What a step does to the handlers. *)

Nobody == \A t \in Slots : ~ Running(t)

(* Without timeouts, a handler that returns leaves nobody. *)
LEMMA FinishAlone ==
    ASSUME TypeOK, OneHandler, "timeout" \notin faults,
           NEW s \in Slots, Running(s), Finish(s), UNCHANGED faults
    PROVE  Nobody' /\ OneHandler'
BY DEF TypeOK, OneHandler, Nobody, Finish, Running

(* One that goes on is still the only one. *)
LEMMA GotoAlone ==
    ASSUME TypeOK, OneHandler, "timeout" \notin faults,
           NEW s \in Slots, Running(s), UNCHANGED faults,
           NEW pc \in {"name", "post", "create", "delete"}, Goto(s, pc)
    PROVE  /\ \A t \in Slots : Running(t)' <=> t = s
           /\ handlers'[s].pc = pc
           /\ handlers'[s].user = handlers[s].user
           /\ handlers'[s].name = handlers[s].name
           /\ \A n \in Names : \A p : Awaits(n, p)' <=> pc = p /\ handlers[s].name = n
           /\ OneHandler'
<1> DEFINE h == [handlers[s] EXCEPT !.pc = pc]
<1>1. handlers[s] \in Handler
  BY DEF TypeOK, Running
<1>2. h \in Handler /\ h # None
  BY GotoType, WhitelistNoneAssumption
<1>3. handlers'[s] = h /\ \A t \in Slots : t # s => handlers'[t] = None
  BY DEF TypeOK, OneHandler, Goto, Running
<1>4. \A t \in Slots : Running(t)' <=> t = s
  BY <1>2, <1>3 DEF Running
<1>5. h.pc = pc /\ h.user = handlers[s].user /\ h.name = handlers[s].name
  BY <1>1 DEF Handler
<1>6. OneHandler'
  BY <1>4 DEF OneHandler, Goto
<1>7. QED
  BY <1>3, <1>4, <1>5, <1>6 DEF Awaits

(* One that starts is the only one. *)
LEMMA TakeAlone ==
    ASSUME TypeOK, OneHandler, "timeout" \notin faults,
           NEW s \in Slots, NEW h \in Handler, Take(s, h), UNCHANGED faults
    PROVE  /\ \A t \in Slots : Running(t)' <=> t = s
           /\ handlers'[s] = h
           /\ OneHandler'
BY LoopAssumption, WhitelistNoneAssumption DEF TypeOK, OneHandler, Take, Running

(* The only handler that runs, before its step. *)
LEMMA AloneBefore ==
    ASSUME TypeOK, OneHandler, "timeout" \notin faults,
           NEW s \in Slots, Running(s)
    PROVE  /\ handlers[s] \in Handler
           /\ handlers[s].user \in Users /\ handlers[s].user # None
           /\ handlers[s].name \in Names
           /\ \A t \in Slots : Running(t) => t = s
           /\ \A n \in Names : \A pc : Awaits(n, pc) <=>
                handlers[s].pc = pc /\ handlers[s].name = n
<1>1. handlers[s] \in Handler
  BY DEF TypeOK, Running
<1>2. \A t \in Slots : Running(t) => t = s
  BY DEF OneHandler
<1>3. handlers[s].user \in Users /\ handlers[s].name \in Names
  BY <1>1 DEF Handler
<1>4. handlers[s].user # None
  BY <1>3, WhitelistAssumption
<1>5. QED
  BY <1>1, <1>2, <1>3, <1>4 DEF Awaits

(* A handler that returns and has left the tables alone. *)
LEMMA QuietFinish ==
    ASSUME WhitelistInv, "timeout" \notin faults,
           NEW s \in Slots, Running(s), Finish(s), UNCHANGED <<faults, tables>>,
           handlers[s].pc \notin {"create", "delete"} \/ faults # {}
    PROVE  NamesInv' /\ ListedInv' /\ AgreeInv'
<1> USE DEF WhitelistInv, tables
<1>1. Nobody'
  BY FinishAlone
<1>2. NamesInv'
  BY <1>1 DEF NamesInv, Nobody
<1>3. ListedInv'
  BY <1>1 DEF ListedInv, Nobody
<1>4. AgreeInv'
  BY <1>1, AloneBefore DEF AgreeInv, Awaits, Nobody
<1>5. QED
  BY <1>2, <1>3, <1>4

(* Applying, step by step. *)
LEMMA ApplyKeeps ==
    ASSUME WhitelistInv, "timeout" \notin faults, NEW s \in Slots,
           \/ ApplyUser(s) \/ ApplyName(s) \/ ApplyPost(s) \/ ApplyCreate(s)
    PROVE  NamesInv' /\ ListedInv' /\ AgreeInv'
<1> USE DEF WhitelistInv, tables
<1> DEFINE h == handlers[s]
<1>0. Running(s) /\ UNCHANGED faults
  BY DEF ApplyUser, ApplyName, ApplyPost, ApplyCreate, At
<1>1. /\ h.user \in Users /\ h.user # None /\ h.name \in Names
      /\ \A t \in Slots : Running(t) => t = s
      /\ \A n \in Names : \A pc : Awaits(n, pc) <=> h.pc = pc /\ h.name = n
  BY <1>0, AloneBefore
<1>2. ASSUME Finish(s), UNCHANGED tables,
             h.pc \notin {"create", "delete"} \/ faults # {}
      PROVE  NamesInv' /\ ListedInv' /\ AgreeInv'
  BY <1>0, <1>2, QuietFinish
<1>3. CASE ApplyUser(s)
  <2>1. h.pc = "user" /\ UNCHANGED tables
    BY <1>3 DEF ApplyUser, At
  <2>2. PICK found \in Finds(HasName(h.user)) :
            IF found THEN Finish(s) ELSE Goto(s, "name")
    BY <1>3 DEF ApplyUser
  <2>3. CASE found
    BY <1>2, <2>1, <2>2, <2>3
  <2>4. CASE ~ found
    <3>1. /\ handlers'[s].pc = "name" /\ handlers'[s].user = h.user
          /\ \A t \in Slots : Running(t)' <=> t = s
          /\ \A n \in Names : \A p : Awaits(n, p)' <=> "name" = p /\ h.name = n
      BY <1>0, <2>2, <2>4, GotoAlone
    <3>2. "readError" \notin faults => ~ HasName(h.user)
      BY <2>2, <2>4 DEF Finds
    <3>3. NamesInv'
      BY <1>0, <2>1, <3>1, <3>2 DEF NamesInv, HasName
    <3>4. ListedInv'
      BY <1>0, <2>1, <3>1 DEF ListedInv
    <3>5. AgreeInv'
      BY <1>0, <1>1, <2>1, <3>1 DEF AgreeInv
    <3>6. QED
      BY <3>3, <3>4, <3>5
  <2>5. QED
    BY <2>3, <2>4
<1>4. CASE ApplyName(s)
  <2>1. h.pc = "name" /\ UNCHANGED tables
    BY <1>4 DEF ApplyName, At
  <2>2. PICK found \in Finds(records[h.name] # None) :
            IF found THEN Finish(s) ELSE Goto(s, "post")
    BY <1>4 DEF ApplyName
  <2>3. CASE found
    BY <1>2, <2>1, <2>2, <2>3
  <2>4. CASE ~ found
    <3>1. /\ handlers'[s].pc = "post" /\ handlers'[s].user = h.user
          /\ \A t \in Slots : Running(t)' <=> t = s
          /\ \A n \in Names : \A p : Awaits(n, p)' <=> "post" = p /\ h.name = n
      BY <1>0, <2>2, <2>4, GotoAlone
    <3>2. NamesInv'
      BY <1>0, <2>1, <3>1 DEF NamesInv, HasName
    <3>3. ListedInv'
      BY <1>0, <2>1, <3>1 DEF ListedInv
    <3>4. AgreeInv'
      BY <1>0, <1>1, <2>1, <3>1 DEF AgreeInv
    <3>5. QED
      BY <3>2, <3>3, <3>4
  <2>5. QED
    BY <2>3, <2>4
<1>5. CASE ApplyPost(s)
  <2>1. h.pc = "post" /\ UNCHANGED records
    BY <1>5 DEF ApplyPost, At
  <2>2. CASE ApplyPostAnswered(s)
    <3>1. /\ handlers'[s].pc = "create" /\ handlers'[s].user = h.user
          /\ handlers'[s].name = h.name
          /\ \A t \in Slots : Running(t)' <=> t = s
          /\ \A n \in Names : \A p : Awaits(n, p)' <=> "create" = p /\ h.name = n
      BY <1>0, <2>2, GotoAlone DEF ApplyPostAnswered
    <3>2. \/ GameLists(h.name)
          \/ "refused" \in faults /\ GameDoesNothing
      BY <2>2 DEF ApplyPostAnswered
    <3>3. NamesInv'
      BY <1>0, <2>1, <3>1 DEF NamesInv, HasName
    <3>4. ListedInv'
      BY <1>0, <2>1, <3>1, <3>2 DEF ListedInv, GameLists
    <3>5. AgreeInv'
      BY <1>0, <1>1, <2>1, <3>1, <3>2 DEF AgreeInv, GameLists
    <3>6. QED
      BY <3>3, <3>4, <3>5
  <2>3. CASE ApplyPostLost(s)
    <3>1. Nobody' /\ faults # {}
      BY <1>0, <2>3, FinishAlone DEF ApplyPostLost
    <3>2. GameLists(h.name) \/ GameDoesNothing
      BY <2>3 DEF ApplyPostLost
    <3>3. NamesInv'
      BY <1>0, <2>1, <3>1 DEF NamesInv, Nobody
    <3>4. ListedInv'
      BY <1>0, <2>1, <3>1, <3>2 DEF ListedInv, Nobody, GameLists, GameDoesNothing
    <3>5. AgreeInv'
      BY <1>0, <3>1 DEF AgreeInv
    <3>6. QED
      BY <3>3, <3>4, <3>5
  <2>4. CASE ApplyPostFails(s)
    BY <1>2, <2>1, <2>4 DEF ApplyPostFails, GameDoesNothing
  <2>5. QED
    BY <1>5, <2>2, <2>3, <2>4 DEF ApplyPost
<1>6. CASE ApplyCreate(s)
  <2>1. h.pc = "create" /\ Nobody' /\ UNCHANGED <<listed, inflight, unlisted>>
    BY <1>0, <1>6, FinishAlone DEF ApplyCreate, At
  <2>2. CASE UNCHANGED records /\ (faults # {} \/ records[h.name] # None)
    <3>1. NamesInv'
      BY <1>0, <2>1, <2>2 DEF NamesInv, Nobody
    <3>2. ListedInv'
      BY <1>0, <2>1, <2>2 DEF ListedInv, Nobody
    <3>3. AgreeInv'
      BY <1>0, <1>1, <2>1, <2>2 DEF AgreeInv, Nobody, Awaits
    <3>4. QED
      BY <3>1, <3>2, <3>3
  <2>3. CASE records' = [records EXCEPT ![h.name] = h.user]
    <3>1. \A n \in Names : records'[n] = IF n = h.name THEN h.user ELSE records[n]
      BY <2>3 DEF TypeOK
    <3>2. NamesInv'
      BY <1>0, <1>1, <2>1, <3>1 DEF NamesInv, Nobody, HasName
    <3>3. ListedInv'
      BY <1>0, <1>1, <2>1, <3>1 DEF ListedInv, Nobody
    <3>4. AgreeInv'
      BY <1>0, <1>1, <2>1, <3>1 DEF AgreeInv, Nobody, Awaits
    <3>5. QED
      BY <3>2, <3>3, <3>4
  <2>4. QED
    BY <1>6, <2>2, <2>3 DEF ApplyCreate
<1>7. QED
  BY <1>3, <1>4, <1>5, <1>6

(* Removing, step by step. *)
LEMMA RemoveKeeps ==
    ASSUME WhitelistInv, "timeout" \notin faults, NEW s \in Slots,
           RemovePost(s) \/ RemoveDelete(s)
    PROVE  NamesInv' /\ ListedInv' /\ AgreeInv'
<1> USE DEF WhitelistInv, tables
<1> DEFINE h == handlers[s]
<1>0. Running(s) /\ UNCHANGED faults
  BY DEF RemovePost, RemoveDelete, At
<1>1. /\ h.user \in Users /\ h.user # None /\ h.name \in Names
      /\ \A t \in Slots : Running(t) => t = s
      /\ \A n \in Names : \A pc : Awaits(n, pc) <=> h.pc = pc /\ h.name = n
  BY <1>0, AloneBefore
<1>2. CASE RemovePost(s)
  <2>1. h.pc = "removePost" /\ UNCHANGED records
    BY <1>2 DEF RemovePost, At
  <2>2. CASE RemovePostAnswered(s)
    <3>1. /\ handlers'[s].pc = "delete" /\ handlers'[s].user = h.user
          /\ handlers'[s].name = h.name
          /\ \A t \in Slots : Running(t)' <=> t = s
          /\ \A n \in Names : \A p : Awaits(n, p)' <=> "delete" = p /\ h.name = n
      BY <1>0, <2>2, GotoAlone DEF RemovePostAnswered
    <3>2. \/ GameUnlists(h.name)
          \/ "refused" \in faults /\ GameDoesNothing
      BY <2>2 DEF RemovePostAnswered
    <3>3. NamesInv'
      BY <1>0, <2>1, <3>1 DEF NamesInv, HasName
    <3>4. ListedInv'
      BY <1>0, <2>1, <3>1, <3>2 DEF ListedInv, GameUnlists
    <3>5. AgreeInv'
      BY <1>0, <1>1, <2>1, <3>1, <3>2 DEF AgreeInv, GameUnlists
    <3>6. QED
      BY <3>3, <3>4, <3>5
  <2>3. CASE RemovePostLost(s)
    <3>1. Nobody' /\ faults # {}
      BY <1>0, <2>3, FinishAlone DEF RemovePostLost
    <3>2. GameUnlists(h.name) \/ GameDoesNothing
      BY <2>3 DEF RemovePostLost
    <3>3. NamesInv'
      BY <1>0, <2>1, <3>1 DEF NamesInv, Nobody
    <3>4. ListedInv'
      BY <1>0, <2>1, <3>1, <3>2
         DEF ListedInv, Nobody, GameUnlists, GameDoesNothing
    <3>5. AgreeInv'
      BY <1>0, <3>1 DEF AgreeInv
    <3>6. QED
      BY <3>3, <3>4, <3>5
  <2>4. CASE RemovePostFails(s)
    BY <1>0, <2>1, <2>4, QuietFinish DEF RemovePostFails, GameDoesNothing
  <2>5. QED
    BY <1>2, <2>2, <2>3, <2>4 DEF RemovePost
<1>3. CASE RemoveDelete(s)
  <2>1. h.pc = "delete" /\ Nobody' /\ UNCHANGED <<listed, inflight>>
    BY <1>0, <1>3, FinishAlone DEF RemoveDelete, At
  <2>2. CASE faults # {} /\ UNCHANGED <<records, unlisted>>
    <3>1. NamesInv'
      BY <1>0, <2>1, <2>2 DEF NamesInv, Nobody
    <3>2. ListedInv'
      BY <1>0, <2>1, <2>2 DEF ListedInv, Nobody
    <3>3. AgreeInv'
      BY <1>0, <2>2 DEF AgreeInv
    <3>4. QED
      BY <3>1, <3>2, <3>3
  <2>3. CASE /\ records' = [records EXCEPT ![h.name] = None]
             /\ unlisted' = unlisted \ {h.name}
    <3>1. \A n \in Names : records'[n] = IF n = h.name THEN None ELSE records[n]
      BY <2>3 DEF TypeOK
    <3>2. NamesInv'
      BY <1>0, <2>1, <3>1 DEF NamesInv, Nobody
    <3>3. ListedInv'
      BY <1>0, <2>1, <2>3, <3>1 DEF ListedInv, Nobody
    <3>4. AgreeInv'
      BY <1>0, <1>1, <2>1, <3>1 DEF AgreeInv, Nobody, Awaits
    <3>5. QED
      BY <3>2, <3>3, <3>4
  <2>4. QED
    BY <1>3, <2>2, <2>3 DEF RemoveDelete
<1>4. QED
  BY <1>2, <1>3

(* With timeouts among the faults only NothingLate says anything. *)
LEMMA WithTimeouts ==
    ASSUME "timeout" \in faults, UNCHANGED faults
    PROVE  OneHandler' /\ NamesInv' /\ ListedInv' /\ AgreeInv'
BY DEF OneHandler, NamesInv, ListedInv, AgreeInv

(* The faults of a behaviour stay; a request is given up only if the game  *)
(* may be late.                                                            *)
LEMMA FaultsStay ==
    ASSUME NothingLate, [Next]_vars
    PROVE  UNCHANGED faults /\ NothingLate'
<1> USE DEF tables, NothingLate
<1>1. ASSUME NEW s \in Slots, Dispatch(s) \/ HandlerStep(s)
      PROVE  UNCHANGED faults /\ ("late" \notin faults => UNCHANGED inflight)
  BY <1>1 DEF Dispatch, HandlerStep, Refuse, ApplyUser, ApplyName, ApplyPost,
              ApplyPostAnswered, ApplyPostLost, ApplyPostFails, ApplyCreate,
              RemovePost, RemovePostAnswered, RemovePostLost, RemovePostFails,
              RemoveDelete
<1>2. CASE LateRequest
  BY <1>2 DEF LateRequest
<1>3. CASE Timeout \/ Crash
  BY <1>3 DEF Timeout, Crash
<1>4. CASE UNCHANGED vars
  BY <1>4 DEF vars
<1>5. QED
  BY <1>1, <1>2, <1>3, <1>4 DEF Next, Done

(* Every handler's step leaves one handler or none. *)
LEMMA StepAlone ==
    ASSUME TypeOK, OneHandler, "timeout" \notin faults, UNCHANGED faults,
           NEW s \in Slots, HandlerStep(s)
    PROVE  OneHandler'
<1>1. Running(s)
  BY DEF HandlerStep, Refuse, ApplyUser, ApplyName, ApplyPost, ApplyCreate,
         RemovePost, RemoveDelete, At
<1>2. \/ Finish(s)
      \/ \E pc \in {"name", "post", "create", "delete"} : Goto(s, pc)
  BY DEF HandlerStep, Refuse, ApplyUser, ApplyName, ApplyPost, ApplyPostAnswered,
         ApplyPostLost, ApplyPostFails, ApplyCreate, RemovePost,
         RemovePostAnswered, RemovePostLost, RemovePostFails, RemoveDelete
<1>3. QED
  BY <1>1, <1>2, FinishAlone, GotoAlone

LEMMA WhitelistInit == Init => WhitelistInv
BY TypeInit
   DEF Init, WhitelistInv, OneHandler, NothingLate, NamesInv, ListedInv, AgreeInv,
       Awaits, Running

LEMMA WhitelistStep == WhitelistInv /\ [Next]_vars => WhitelistInv'
<1> SUFFICES ASSUME WhitelistInv, [Next]_vars
             PROVE  WhitelistInv'
  OBVIOUS
<1>1. TypeOK' /\ NothingLate' /\ UNCHANGED faults
  BY TypeStep, FaultsStay DEF WhitelistInv
<1>2. CASE "timeout" \in faults
  BY <1>1, <1>2, WithTimeouts DEF WhitelistInv
<1>3. CASE "timeout" \notin faults
  <2> SUFFICES OneHandler' /\ NamesInv' /\ ListedInv' /\ AgreeInv'
    BY <1>1 DEF WhitelistInv
  <2> USE DEF tables
  <2>0. TypeOK /\ OneHandler /\ NamesInv /\ ListedInv /\ AgreeInv /\ NothingLate
    BY DEF WhitelistInv
  <2>1. ASSUME NEW s \in Slots, Dispatch(s)
        PROVE  OneHandler' /\ NamesInv' /\ ListedInv' /\ AgreeInv'
    <3>1. PICK op \in {"apply", "remove"}, u \in Users, n \in Names :
              Take(s, NewHandler(op, u, n))
      BY <2>1 DEF Dispatch
    <3> DEFINE h == NewHandler(op, u, n)
    <3>2. h \in Handler /\ h.pc \in {"user", "removePost"}
      BY DEF NewHandler, Handler
    <3>3. /\ \A t \in Slots : Running(t)' <=> t = s
          /\ handlers'[s] = h
          /\ OneHandler'
      BY <1>1, <1>3, <2>0, <3>1, <3>2, TakeAlone
    <3>4. Nobody /\ UNCHANGED tables
      <4>1. loop = None
        BY <3>1 DEF Take
      <4>2. QED
        BY <1>3, <2>0, <2>1, <4>1, LoopAssumption DEF OneHandler, Nobody, Dispatch
    <3>5. NamesInv'
      BY <1>1, <2>0, <3>2, <3>3, <3>4 DEF NamesInv
    <3>6. ListedInv'
      BY <1>1, <2>0, <3>2, <3>3, <3>4 DEF ListedInv
    <3>7. AgreeInv'
      BY <1>1, <2>0, <3>2, <3>3, <3>4 DEF AgreeInv, Awaits, Nobody
    <3>8. QED
      BY <3>3, <3>5, <3>6, <3>7
  <2>2. ASSUME NEW s \in Slots, HandlerStep(s)
        PROVE  OneHandler' /\ NamesInv' /\ ListedInv' /\ AgreeInv'
    <3>1. OneHandler'
      BY <1>1, <1>3, <2>0, <2>2, StepAlone
    <3>2. CASE Refuse(s)
      BY <1>1, <1>3, <3>1, <3>2, QuietFinish DEF Refuse
    <3>3. QED
      BY <1>3, <2>2, <3>1, <3>2, ApplyKeeps, RemoveKeeps DEF HandlerStep
  <2>3. CASE LateRequest
    <3>1. "late" \in faults
      BY <2>0, <2>3 DEF LateRequest, NothingLate
    <3>2. UNCHANGED <<handlers, loop, records>>
      BY <2>3 DEF LateRequest
    <3>3. OneHandler' /\ NamesInv'
      BY <1>1, <2>0, <3>2 DEF OneHandler, NamesInv, HasName, Running
    <3>4. ListedInv'
      BY <1>1, <3>1 DEF ListedInv
    <3>5. AgreeInv'
      BY <1>1, <3>1 DEF AgreeInv
    <3>6. QED
      BY <3>3, <3>4, <3>5
  <2>4. CASE Timeout
    BY <1>3, <2>4 DEF Timeout, WaitEnds
  <2>5. CASE Crash
    <3>1. "crash" \in faults /\ Nobody' /\ UNCHANGED tables
      BY <2>5 DEF Crash, ProcessDies, Nobody, Running
    <3>2. OneHandler'
      BY <3>1 DEF OneHandler, Nobody
    <3>3. NamesInv'
      BY <1>1, <2>0, <3>1 DEF NamesInv, Nobody
    <3>4. ListedInv'
      BY <1>1, <2>0, <3>1 DEF ListedInv, Nobody
    <3>5. AgreeInv'
      BY <1>1, <3>1 DEF AgreeInv
    <3>6. QED
      BY <3>2, <3>3, <3>4, <3>5
  <2>6. CASE UNCHANGED vars
    <3>1. OneHandler' /\ NamesInv'
      BY <2>0, <2>6 DEF vars, OneHandler, NamesInv, HasName, Running
    <3>2. ListedInv'
      BY <2>0, <2>6 DEF vars, ListedInv, Running
    <3>3. AgreeInv'
      BY <2>0, <2>6 DEF vars, AgreeInv, Awaits, Running
    <3>4. QED
      BY <3>1, <3>2, <3>3
  <2>7. QED
    BY <2>1, <2>2, <2>3, <2>4, <2>5, <2>6 DEF Next, Done
<1>4. QED
  BY <1>2, <1>3

LEMMA WhitelistInvHolds == Spec => []WhitelistInv
BY WhitelistInit, WhitelistStep, PTL DEF Spec

-----------------------------------------------------------------------------

(* A set of names in which any two are the same has at most one of them.   *)
LEMMA AtMostOne ==
    ASSUME NEW S, \A m, n \in S : m = n
    PROVE  Cardinality(S) <= 1
<1>1. CASE S = {}
  BY <1>1, FS_EmptySet
<1>2. CASE S # {}
  <2>1. PICK n \in S : S = {n}
    BY <1>2
  <2>2. Cardinality({n}) = 1
    BY FS_Singleton
  <2>3. QED
    BY <2>1, <2>2
<1>3. QED
  BY <1>1, <1>2

(* A user has at most one name while queries work and handlers do not      *)
(* overlap, whatever is lost and wherever the process dies.                *)
THEOREM NamesAreUnique == Spec => []OneNamePerUser
<1>1. WhitelistInv => OneNamePerUser
  <2> SUFFICES ASSUME WhitelistInv, faults \cap {"readError", "timeout"} = {},
                      NEW u \in Users
               PROVE  Cardinality(NamesOf(u)) <= 1
    BY DEF OneNamePerUser
  <2>1. \A m, n \in NamesOf(u) : m = n
    BY WhitelistAssumption DEF WhitelistInv, NamesInv, NamesOf
  <2>2. QED
    BY <2>1, AtMostOne
<1>2. QED
  BY <1>1, WhitelistInvHolds, PTL

(* A name with a row is on the game's whitelist unless a removal of it is  *)
(* unfinished.                                                             *)
THEOREM RowsAreListed == Spec => []RecordedIsListed
<1>1. WhitelistInv => RecordedIsListed
  BY DEF WhitelistInv, ListedInv, RecordedIsListed
<1>2. QED
  BY <1>1, WhitelistInvHolds, PTL

(* Without faults the table and the whitelist agree between handlers.      *)
THEOREM TablesAgreeWhenIdle == Spec => []TablesAgree
<1>1. WhitelistInv => TablesAgree
  <2> SUFFICES ASSUME WhitelistInv, Idle, faults = {}
               PROVE  listed = {n \in Names : records[n] # None}
    BY DEF TablesAgree
  <2>1. \A n \in Names : \A pc : ~ Awaits(n, pc)
    BY DEF Idle, Awaits
  <2>2. \A n \in Names : n \in listed <=> records[n] # None
    BY <2>1 DEF WhitelistInv, AgreeInv
  <2>3. listed \subseteq Names
    BY DEF WhitelistInv, TypeOK
  <2>4. QED
    BY <2>2, <2>3
<1>2. QED
  BY <1>1, WhitelistInvHolds, PTL

(* A row never passes from one user to another, and it is deleted only     *)
(* after the game has taken the name off.                                  *)
THEOREM RowsFollow == Spec => RowsFollowTheGame
<1> DEFINE Follows ==
        faults \cap {"refused", "late", "timeout"} = {} =>
            \A n \in Names : records[n] # None /\ records'[n] # records[n] =>
                records'[n] = None /\ n \notin listed
<1>1. WhitelistInv /\ [Next]_vars => [Follows]_vars
  <2> SUFFICES ASSUME WhitelistInv, Next,
                      faults \cap {"refused", "late", "timeout"} = {},
                      NEW n \in Names, records[n] # None, records'[n] # records[n]
               PROVE  records'[n] = None /\ n \notin listed
    OBVIOUS
  <2> USE DEF WhitelistInv, tables
  <2>1. ASSUME NEW s \in Slots, ApplyCreate(s)
        PROVE  FALSE
    BY <2>1, AloneBefore DEF ApplyCreate, At, TypeOK
  <2>2. ASSUME NEW s \in Slots, RemoveDelete(s)
        PROVE  records'[n] = None /\ n \notin listed
    <3>1. Running(s) /\ handlers[s].pc = "delete"
      BY <2>2 DEF RemoveDelete, At
    <3>2. records' = [records EXCEPT ![handlers[s].name] = None]
      BY <2>2 DEF RemoveDelete
    <3>3. n = handlers[s].name
      BY <3>2 DEF TypeOK
    <3>4. QED
      BY <3>1, <3>2, <3>3 DEF ListedInv, TypeOK
  <2>3. CASE UNCHANGED records
    BY <2>3
  <2>4. QED
    BY <2>1, <2>2, <2>3
       DEF Next, Dispatch, HandlerStep, Refuse, ApplyUser, ApplyName, ApplyPost,
           RemovePost, LateRequest, Timeout, Crash, Done, vars
<1>2. QED
  BY <1>1, WhitelistInvHolds, PTL DEF Spec, RowsFollowTheGame

=============================================================================
